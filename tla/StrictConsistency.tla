-------------------------- MODULE StrictConsistency --------------------------
(***************************************************************************)
(* What Strict Consistency promises, without messages, nonces, signatures  *)
(* or salts: a call of `authorize` says yes only if, at some moment while  *)
(* it was waiting, the authority allowed what was asked.  It may always    *)
(* say no.                                                                 *)
(***************************************************************************)
CONSTANTS Call, Request

VARIABLES allowed,      \* what the authority allows now
          phase,        \* phase[c]: where call c is
          asked,        \* asked[c]: what it is made with
          could         \* the calls whose request was allowed since they asked

vars == <<allowed, phase, asked, could>>

Phase == {"idle", "waiting", "yes", "no", "failed"}

Init ==
    /\ allowed \in SUBSET Request
    /\ phase = [c \in Call |-> "idle"]
    /\ asked \in [Call -> Request]
    /\ could = {}

(* The authority changes its mind, and the waiting calls may profit. *)
Change ==
    /\ allowed' \in SUBSET Request
    /\ could' = could \cup {c \in Call : phase[c] = "waiting" /\ asked[c] \in allowed'}
    /\ UNCHANGED <<phase, asked>>

Ask(c) ==
    /\ phase[c] = "idle"
    /\ phase' = [phase EXCEPT ![c] = "waiting"]
    /\ could' = IF asked[c] \in allowed THEN could \cup {c} ELSE could
    /\ UNCHANGED <<allowed, asked>>

Answer(c, p) ==
    /\ phase[c] = "waiting" \/ (phase[c] = "idle" /\ p = "no")
    /\ p = "yes" => c \in could
    /\ phase' = [phase EXCEPT ![c] = p]
    /\ UNCHANGED <<allowed, asked, could>>

Next ==
    \/ Change
    \/ \E c \in Call :
          \/ Ask(c)
          \/ \E p \in {"yes", "no", "failed"} : Answer(c, p)

Spec == Init /\ [][Next]_vars
==============================================================================
