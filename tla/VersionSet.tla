----------------------------- MODULE VersionSet -----------------------------
(***************************************************************************)
(* The released versions of one operator as a set of records, and the      *)
(* operations of lib/versions.go on it.  The code keeps the versions in a  *)
(* slice sorted by label; module VersionList models the slice and shows    *)
(* that its contents behave like the sets here.                            *)
(*                                                                         *)
(* A label vMAJOR.MINOR.PATCH is represented by its rank in the order of   *)
(* compareVersions, so Labels is a set of naturals.  The three port lists  *)
(* of a version (inputs, outputs, config_values) are one value.            *)
(***************************************************************************)
EXTENDS Integers, FiniteSets

CONSTANTS
    Labels,      \* ranks of the well-formed labels
    BadLabel,    \* stands for every label parseVersionLabel refuses
    Images,      \* container images
    NoImage,     \* the empty string where an image is expected
    Ports,       \* explicit port lists, among them the empty one
    EmptyPorts,  \* the explicit empty list []
    NoPorts      \* an absent list (nil)

\* compareVersions is a total order, so a non-empty list has a highest label.
ASSUME LabelAssumption ==
    /\ Labels \subseteq Nat
    /\ BadLabel \notin Labels
    /\ \A S \in SUBSET Labels :
         S # {} => \E top \in S : \A l \in S : l =< top

ASSUME PortAssumption ==
    /\ NoImage \notin Images
    /\ EmptyPorts \in Ports
    /\ NoPorts \notin Ports

Version ==
    [label : Labels, image : Images, ports : Ports, deprecated : BOOLEAN]

\* What a client may send as a version: nothing is validated yet.
VersionBody ==
    [label : Labels \cup {BadLabel}, image : Images \cup {NoImage},
     ports : Ports \cup {NoPorts}, deprecated : BOOLEAN]

HasLabel(versions, label) == \E v \in versions : v.label = label

-----------------------------------------------------------------------------
(* PutVersion *)

\* An absent port list is stored as the empty one.
NonNil(ports) == IF ports = NoPorts THEN EmptyPorts ELSE ports

\* Mutant: a deprecated version does not keep its image.
PutAllowedLive(versions, v) ==
    /\ v.label \in Labels
    /\ v.image # NoImage
    /\ \A other \in versions :
         ~other.deprecated /\ other.image = v.image => other.label = v.label

\* The label is well formed, there is an image, and no version of another
\* label uses it.
PutAllowed(versions, v) ==
    /\ v.label \in Labels
    /\ v.image # NoImage
    /\ \A other \in versions : other.image = v.image => other.label = v.label

\* Mutant: an absent port list is stored as it came.
PutVersionAsSent(versions, v) ==
    {other \in versions : other.label # v.label} \cup {v}

\* The version is added, or replaces the one with its label.
PutVersion(versions, v) ==
    {other \in versions : other.label # v.label}
        \cup {[v EXCEPT !.ports = NonNil(v.ports)]}

-----------------------------------------------------------------------------
(* RemoveVersion *)

\* Mutant: the last version may go.
RemoveAlways(versions, label) == TRUE

RemoveAllowed(versions, label) == \E v \in versions : v.label # label

RemoveVersion(versions, label) == {v \in versions : v.label # label}

-----------------------------------------------------------------------------
(* NewestVersion and CheckTopLevel *)

\* Deprecated versions only count when there is no other.
Eligible(versions) ==
    LET live == {v \in versions : ~v.deprecated}
    IN  IF live = {} THEN versions ELSE live

NewestVersion(versions) ==
    CHOOSE v \in Eligible(versions) :
        \A w \in Eligible(versions) : w.label =< v.label

\* The body leaves image and ports out, or repeats those of the newest version.
CheckTopLevel(body, newest) ==
    /\ body.image \in {NoImage, newest.image}
    /\ body.ports \in {NoPorts, newest.ports}

-----------------------------------------------------------------------------
(* What a well-formed set of versions is *)

UniqueLabels(versions) ==
    \A v, w \in versions : v.label = w.label => v = w

UniqueImages(versions) ==
    \A v, w \in versions : v.image = w.image => v = w
=============================================================================
