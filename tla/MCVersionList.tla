---------------------------- MODULE MCVersionList ----------------------------
(***************************************************************************)
(* An instance of VersionList for TLC.                                     *)
(***************************************************************************)
EXTENDS VersionList, TLC

\* Labels that differ in one number, that order differently by their last
\* number than by their first, and one with a number that is too large.
SomeTexts ==
    {<<0, 0, 1>>, <<0, 2, 0>>, <<1, 0, 2>>, <<1, 2, 0>>, <<2, 0, 0>>, <<0, 3, 1>>}

ImageSymmetry == Permutations(Images)
=============================================================================
