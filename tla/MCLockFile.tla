----------------------------- MODULE MCLockFile -----------------------------
(* Small instances of LockFile for TLC.                                    *)
EXTENDS LockFile, TLC

CONSTANTS p1, p2, p3, i1, i2, i3, i4, d1
MCProcess == {p1, p2, p3}
MCInode == {i1, i2, i3, i4}
MCDir == {d1}
=============================================================================
