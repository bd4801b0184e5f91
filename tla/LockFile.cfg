SPECIFICATION FairSpec
CONSTANTS
    p1 = p1 p2 = p2 p3 = p3
    i1 = i1 i2 = i2 i3 = i3 i4 = i4
    d1 = d1
    None = None
    Process <- MCProcess
    Inode <- MCInode
    Dir <- MCDir
INVARIANTS TypeOK MutualExclusion
PROPERTIES RemovesItsOwn RefusedByTheLiving AcquireEnds KeepsOneHolder
