--------------------------- MODULE VersionCatalog ---------------------------
(***************************************************************************)
(* What lib/versions.go promises of a list of versions, with the list as a *)
(* set: a put creates or replaces the version of its label, a remove takes *)
(* out one version but never the last, and everything else is refused      *)
(* without an effect.                                                      *)
(***************************************************************************)
EXTENDS VersionSet

CONSTANT NoCall    \* no operation is in progress

VARIABLES
    catalog,   \* the versions
    call,      \* the operation in progress, or NoCall
    outcome    \* what the last operation returned

vars == <<catalog, call, outcome>>

Calls == [op : {"put"}, version : VersionBody]
            \cup [op : {"remove"}, label : Labels \cup {BadLabel}]

Init == catalog = {} /\ call = NoCall /\ outcome = "none"

Begin(c) ==
    /\ call = NoCall
    /\ call' = c
    /\ outcome' = "none"
    /\ UNCHANGED catalog

Return(result) == call' = NoCall /\ outcome' = result

Put ==
    /\ call # NoCall
    /\ call.op = "put"
    /\ LET v == call.version IN
         \/ /\ PutAllowed(catalog, v)
            /\ catalog' = PutVersion(catalog, v)
            /\ Return(IF HasLabel(catalog, v.label) THEN "replaced" ELSE "created")
         \/ /\ ~PutAllowed(catalog, v)
            /\ Return("invalid")
            /\ UNCHANGED catalog

Remove ==
    /\ call # NoCall
    /\ call.op = "remove"
    /\ \/ /\ ~HasLabel(catalog, call.label)
          /\ Return("notFound")
          /\ UNCHANGED catalog
       \/ /\ HasLabel(catalog, call.label)
          /\ ~RemoveAllowed(catalog, call.label)
          /\ Return("invalid")
          /\ UNCHANGED catalog
       \/ /\ HasLabel(catalog, call.label)
          /\ RemoveAllowed(catalog, call.label)
          /\ catalog' = RemoveVersion(catalog, call.label)
          /\ Return("removed")

Next == (\E c \in Calls : Begin(c)) \/ Put \/ Remove

Spec == Init /\ [][Next]_vars
=============================================================================
