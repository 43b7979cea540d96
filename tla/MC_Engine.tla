------------------------------ MODULE MC_Engine ------------------------------
EXTENDS Engine

CONSTANTS r, a, b, u    \* an anchor, two admins and a user

MCIdentity == {r, a, b, u}
MCRoot == {r}

Grants(relation, from, to) ==
    {t \in Tuple : /\ t.relation = relation
                   /\ t.issuer \in from /\ t.grantee \in to
                   /\ t.issuer # t.grantee}

(* Two admins that may empower each other, and both decide on the user. *)
MCPermission ==
    Grants("admin", {r, a, b}, {a, b})
    \cup Grants("read", {a, b}, {u}) \cup Grants("-read", {r, a, b}, {u})
    \cup Grants("-admin", {r}, {a})

(* Two admins that may empower each other, and one may deny the other. *)
MCDenials ==
    Grants("admin", {r, a, b}, {a, b}) \cup Grants("-admin", {b}, {a})
    \cup Grants("read", {a, b}, {u})
==============================================================================
