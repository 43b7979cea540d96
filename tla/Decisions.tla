------------------------------ MODULE Decisions ------------------------------
(***************************************************************************)
(* What the authorization state promises, without clocks, timestamps,      *)
(* tombstones or pruning: issuers take decisions, nodes are told of them   *)
(* in any order, and a node allows a tuple exactly when the last decision  *)
(* on it that it was told of is a grant.                                   *)
(***************************************************************************)
EXTENDS Naturals, Sequences

CONSTANTS Node, Tuple, IssuerOf, Decision, Granted

VARIABLES decided,      \* the decisions, in the order they were taken
          told,         \* told[n]: the decisions (indexes) n was told of
          allowed       \* allowed[n]: the tuples n answers yes for

vars == <<decided, told, allowed>>

(* The tuples whose last decision among those in S is a grant. *)
LastGrants(ds, S) ==
    {t \in Tuple :
       \E i \in S : /\ ds[i].tuple = t /\ ds[i].action = Granted
                    /\ \A j \in S : ds[j].tuple = t => j <= i}

Init ==
    /\ decided = <<>>
    /\ told = [n \in Node |-> {}]
    /\ allowed = [n \in Node |-> {}]

(* Node n is told of decision i, and answers by it from then on. *)
Tell(n, i) ==
    /\ told' = [told EXCEPT ![n] = @ \cup {i}]
    /\ allowed' = [allowed EXCEPT ![n] = LastGrants(decided', told'[n])]

(* The issuer decides, and may or may not be the first to be told. *)
Decide(n, t, d) ==
    /\ IssuerOf[t] = n
    /\ decided' = Append(decided, [tuple |-> t, action |-> d])
    /\ Tell(n, Len(decided) + 1) \/ UNCHANGED <<told, allowed>>

Learn(n, i) ==
    /\ UNCHANGED decided
    /\ Tell(n, i)

Next ==
    \E n \in Node :
       \/ \E t \in Tuple, d \in Decision : Decide(n, t, d)
       \/ \E i \in 1 .. Len(decided) : Learn(n, i)

Spec == Init /\ [][Next]_vars
==============================================================================
