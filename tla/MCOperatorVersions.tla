------------------------- MODULE MCOperatorVersions -------------------------
(***************************************************************************)
(* Instances of OperatorVersions for TLC.                                  *)
(***************************************************************************)
EXTENDS OperatorVersions, TLC

\* Clients and images are only compared for equality.
ClientSymmetry == Permutations(Clients) \cup Permutations(Images)

Bodies(labels, images, ports, deprecated) ==
    [op : {"put"},
     version : [label : labels, image : images, ports : ports,
                deprecated : deprecated]]

\* Every kind of request and each way of being refused: all valid versions with
\* empty ports, one whose port lists are absent, and updates that repeat, leave
\* out or change the image or the ports.
MixedCalls ==
    LET lowest == {CHOOSE l \in Labels : \A m \in Labels : l =< m}
    IN  Bodies(Labels, Images, {EmptyPorts}, BOOLEAN)
        \cup Bodies(lowest, {NoImage}, {EmptyPorts}, {FALSE})
        \cup Bodies({BadLabel}, Images, {EmptyPorts}, {FALSE})
        \cup Bodies(lowest, Images, {NoPorts}, {FALSE})
        \cup {r \in UpdateRequests : r.image = NoImage \/ r.ports = NoPorts}
        \cup {r \in RemoveRequests : r.label = BadLabel => ~r.force}
        \cup DeleteRequests
=============================================================================
