-------------------------- MODULE MCListOperators --------------------------
(* Four operators, one of them the caller's own; two have the same name at first. *)
EXTENDS ListOperators

MCIds == 1..4
MCMine == {2}
MCNames == 1..3
MCFirstNames == {<<1, 2, 2, 3>>}
MCMatching == {1, 2}
MCLimits == {<<>>, <<-1>>, <<0>>, <<3>>}
MCOffsets == {<<>>, <<-1>>, <<2>>}
=============================================================================
