----------------------------- MODULE MCReverter -----------------------------
(* Instances of Reverter for TLC.                                          *)
EXTENDS Reverter, TLC

CONSTANTS f1, f2, a, b, absent, m1, m2, temp, inProgress

MCFile == {f1, f2}
MCData == {a, b}
OneFile == {f1}
OneDatum == {a}
MCModule == {m1, m2}
NoModule == {}
(* A bound: two files with two contents, or modules with one of each.      *)
FilesOrModules ==
    \/ enabled \cup undoFailed \cup UNION {cp[d].undo : d \in Dir} = {}
    \/ /\ Cardinality(UNION {Recorded(cp[d]) : d \in Dir}) <= 1
       /\ Cardinality({disk[f] : f \in File} \ {Absent}) <= 1

Symmetry == Permutations(MCFile) \cup Permutations(MCData) \cup Permutations(MCModule)
=============================================================================
