--------------------------- MODULE MCApiRequests ---------------------------
(* Every request, without the parts its route does not look at. *)
EXTENDS ApiRequests

MCRequests ==
    {r \in Request :
        /\ r.force # "" => r.route \in DeleteRoutes
        /\ r.body = "malformed" => r.route \in BodyRoutes
        /\ r.body = "differs" => r.route = "putOperatorVersion"
        /\ r.route \in PublicRoutes =>
             ~r.userId /\ r.roles = "absent" /\ r.token = "absent" /\ ~r.forUser
        /\ IF r.route = "deleteOperators" THEN TRUE
           ELSE r.ids = IF r.route \in DeleteRoutes THEN 1 ELSE 0}
=============================================================================
