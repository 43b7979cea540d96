------------------------------ MODULE Challenge ------------------------------
(***************************************************************************)
(* Strict Consistency: a node about to act on a permission asks the        *)
(* authority.  ChallengeClient.authorize checks its own replica, sends a   *)
(* challenge with a fresh nonce and one entry per salt it has configured,  *)
(* and acts only on a signed receipt that says ALLOW.  Several calls run   *)
(* at once.  Challenges and receipts are lost, delayed or repeated, a      *)
(* receipt may reach a call it was not meant for, and other nodes answer   *)
(* on the path too (each serves `dacar.auth.v1` with its own key).  The    *)
(* authority goes on applying operations meanwhile.                        *)
(*                                                                         *)
(* What a state says of a request under one salt is abstracted to two      *)
(* facts, an allowance and a denial: delegation is the module Engine.      *)
(***************************************************************************)
EXTENDS Naturals, FiniteSets

CONSTANTS Call,         \* the calls of authorize; a call is its nonce
          Request,      \* an object, a relation and a grantee
          Salt,         \* the privacy salts in use in the deployment
          Authority,    \* the key the clients expect the receipt to bear
          OtherKey,     \* the keys of the other nodes that answer
          MaxChanges,   \* bound: operations the authority applies
          MaxAnswers    \* bound: different answers on their way

ASSUME ChallengeAssumption ==
    /\ MaxChanges \in Nat /\ MaxAnswers \in Nat
    /\ Authority \notin OtherKey

Fact == [request: Request, salt: Salt, allow: BOOLEAN]

(* A challenge names its request once per salt of the client; a receipt     *)
(* names no request at all, only the nonce.  Not every answer is a receipt. *)
Challenges == [nonce: Call, request: Request]
Receipt    == [nonce: Call, allow: BOOLEAN, key: {Authority} \cup OtherKey]
Unreadable == [unreadable |-> TRUE]

VARIABLES ours, theirs, \* the salts configured at the clients, at the authority
          asked,        \* asked[c]: the request call c is made with
          replica,        \* what the clients' own replica allows
          law,          \* the facts that hold in the authority's state
          phase,        \* phase[c]: where call c is
          sent,         \* the challenges sent so far
          answers,      \* the answers given so far
          since,        \* history: since[c]: what law has been while c waited
          changes       \* history: how often law changed

vars == <<ours, theirs, asked, replica, law, phase, sent, answers, since, changes>>
config == <<ours, theirs, asked>>

Phase == {"idle", "waiting", "yes", "no", "failed"}

TypeOK ==
    /\ ours \subseteq Salt /\ theirs \subseteq Salt
    /\ replica \subseteq Request
    /\ law \subseteq Fact
    /\ phase \in [Call -> Phase]
    /\ asked \in [Call -> Request]
    /\ sent \subseteq Challenges
    /\ answers \subseteq Receipt \cup {Unreadable}
    /\ since \in [Call -> SUBSET SUBSET Fact]
    /\ changes \in 0 .. MaxChanges

(* Denials win over allowances, whichever of the salts S either is under. *)
Allows(facts, r, S) ==
    LET Says(a) == \E f \in facts : f.request = r /\ f.salt \in S /\ f.allow = a
    IN  Says(TRUE) /\ ~ Says(FALSE)

Init ==
    /\ ours \in (SUBSET Salt) \ {{}} /\ theirs \in (SUBSET Salt) \ {{}}
    /\ asked \in [Call -> Request]
    /\ replica \in SUBSET Request
    /\ law = {}
    /\ phase = [c \in Call |-> "idle"]
    /\ sent = {} /\ answers = {}
    /\ since = [c \in Call |-> {}]
    /\ changes = 0

------------------------------------------------------------------------------
(* The authority applies an operation: a fact begins or ceases to hold. *)
Change(f) ==
    /\ changes < MaxChanges
    /\ changes' = changes + 1
    /\ law' = IF f \in law THEN law \ {f} ELSE law \cup {f}
    /\ since' = [c \in Call |-> IF phase[c] = "waiting" THEN since[c] \cup {law'}
                                                        ELSE since[c]]
    /\ UNCHANGED <<config, replica, phase, sent, answers>>

(* The clients' replica follows, sooner or later or not at all. *)
Replicate(r) ==
    /\ replica' = IF r \in replica THEN replica \ {r} ELSE replica \cup {r}
    /\ UNCHANGED <<config, law, phase, sent, answers, since, changes>>

(* authorize: the local pre-check passes and the challenge goes out. *)
Ask(c) ==
    /\ phase[c] = "idle"
    /\ asked[c] \in replica
    /\ phase' = [phase EXCEPT ![c] = "waiting"]
    /\ sent' = sent \cup {[nonce |-> c, request |-> asked[c]]}
    /\ since' = [since EXCEPT ![c] = {law}]
    /\ UNCHANGED <<config, replica, law, answers, changes>>

(* authorize: the local pre-check fails, nothing is sent. *)
PreCheckFails(c) ==
    /\ phase[c] = "idle"
    /\ asked[c] \notin replica
    /\ phase' = [phase EXCEPT ![c] = "no"]
    /\ UNCHANGED <<config, replica, law, sent, answers, since, changes>>

(* The entries of a challenge the authority can bind to a salt of its own. *)
Bound == ours \cap theirs

(* Wrong: each entry is evaluated on its own, and one that allows is enough. *)
VerdictByEntry(m) == \E s \in Bound : Allows(law, m.request, {s})

(* The verdict on a challenge; with no entry bound it is DENY. *)
Verdict(m) == Allows(law, m.request, Bound)

(* An answer is given, at some point of the network. *)
Reply(m) ==
    /\ Cardinality(answers) < MaxAnswers
    /\ answers' = answers \cup {m}
    /\ UNCHANGED <<config, replica, law, phase, sent, since, changes>>

(* AuthoritativeServer.handle: the state is read when the verdict is made,  *)
(* whenever the challenge, or a repetition of it, is handled.               *)
Serve(m) == Reply([nonce |-> m.nonce, allow |-> Verdict(m), key |-> Authority])

(* Another node answers by its own state, or not with a receipt at all. *)
ServeOther(m) ==
    \/ \E k \in OtherKey, a \in BOOLEAN :
          Reply([nonce |-> m.nonce, allow |-> a, key |-> k])
    \/ Reply(Unreadable)

------------------------------------------------------------------------------
(* Wrong: the nonce of the receipt is not compared with the challenge's. *)
AcceptsAnyNonce(c, m) == m.key = Authority /\ m.allow

(* Wrong: the signature of the receipt is not verified. *)
AcceptsAnyKey(c, m) == m.nonce = c /\ m.allow

(* A receipt that lets the caller go ahead. *)
Accepts(c, m) == m.nonce = c /\ m.key = Authority /\ m.allow

Outcome(c, m) == IF Accepts(c, m) THEN "yes" ELSE "no"

(* An answer resolves the transport call c waits for. *)
Deliver(c, m) ==
    /\ phase[c] = "waiting"
    /\ m # Unreadable
    /\ phase' = [phase EXCEPT ![c] = Outcome(c, m)]
    /\ UNCHANGED <<config, replica, law, sent, answers, since, changes>>

(* Receipt.fromPayload throws, and so does authorize. *)
DeliverUnreadable(c) ==
    /\ phase[c] = "waiting"
    /\ Unreadable \in answers
    /\ phase' = [phase EXCEPT ![c] = "failed"]
    /\ UNCHANGED <<config, replica, law, sent, answers, since, changes>>

(* Wrong: what the transport throws escapes from authorize. *)
NoAnswerThrows(c) ==
    /\ phase[c] = "waiting"
    /\ phase' = [phase EXCEPT ![c] = "thrown"]
    /\ UNCHANGED <<config, replica, law, sent, answers, since, changes>>

(* The link is not active, the request cannot be sent, its timeout passes,  *)
(* or the server has no response: the transport throws or resolves with     *)
(* nothing.                                                                 *)
NoAnswer(c) ==
    /\ phase[c] = "waiting"
    /\ phase' = [phase EXCEPT ![c] = "no"]
    /\ UNCHANGED <<config, replica, law, sent, answers, since, changes>>

Client(c) ==
    \/ Ask(c) \/ PreCheckFails(c)
    \/ \E m \in answers : Deliver(c, m)
    \/ DeliverUnreadable(c)
    \/ NoAnswer(c)

Next ==
    \/ \E f \in Fact : Change(f)
    \/ \E r \in Request : Replicate(r)
    \/ \E m \in sent : Serve(m) \/ ServeOther(m)
    \/ \E c \in Call : Client(c)

Spec == Init /\ [][Next]_vars

------------------------------------------------------------------------------
(* challenge.js authorize: a yes means that the authority, at some moment    *)
(* while the call was waiting, allowed this very request under the salts it *)
(* shares with the client: no late, repeated or misdirected receipt and no   *)
(* receipt of another key can make one.                                      *)
YesIsFresh ==
    \A c \in Call : phase[c] = "yes" =>
       \E facts \in since[c] : Allows(facts, asked[c], Bound)

(* The calls whose request the authority allowed while they waited. *)
CouldBeAllowed ==
    {c \in Call : \E facts \in since[c] : Allows(facts, asked[c], Bound)}

Abstract == INSTANCE StrictConsistency WITH
    allowed <- {r \in Request : Allows(law, r, Bound)},
    could   <- CouldBeAllowed

(* challenge.js: with its messages, nonces, keys and salts the exchange does *)
(* no more than StrictConsistency allows.                                    *)
ImplementsStrictConsistency == Abstract!Spec
==============================================================================
