------------------------- MODULE MCOperatorLifecycle -------------------------
(***************************************************************************)
(* Instances of OperatorLifecycle for TLC.                                 *)
(***************************************************************************)
EXTENDS OperatorLifecycle, TLC

\* Every list of one or two ids, the same one twice included.
ShortBatches == {<<i>> : i \in Ids} \cup {<<i, j>> : i, j \in Ids}

Singles == {<<i>> : i \in Ids}

IdSymmetry == Permutations(Ids) \cup Permutations(Users)
=============================================================================
