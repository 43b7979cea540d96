--------------------------- MODULE ChallengeProofs ---------------------------
(***************************************************************************)
(* Proofs about Challenge: for any number of calls, requests and salts,    *)
(* and however answers are lost, repeated and misdirected, a yes is fresh, *)
(* and the exchange implements StrictConsistency.                          *)
(***************************************************************************)
EXTENDS Challenge, TLAPS

(* The authority allowed the request of c at a moment c was waiting. *)
Could(c) == \E facts \in since[c] : Allows(facts, asked[c], Bound)

(* A challenge is of a call that asked, and asks what the call does. *)
SentByCaller ==
    \A m \in sent : phase[m.nonce] # "idle" /\ m.request = asked[m.nonce]

(* What the authority's state has been for a call includes what it is. *)
LawWitnessed ==
    \A c \in Call : /\ phase[c] = "waiting" => law \in since[c]
                    /\ phase[c] = "idle" => since[c] = {}

(* A receipt of the authority that says ALLOW is fresh for a call that waits. *)
ReceiptsFresh ==
    \A m \in answers : \A c \in Call :
       /\ m # Unreadable /\ m.nonce = c => phase[c] # "idle"
       /\ m # Unreadable /\ Accepts(c, m) /\ phase[c] = "waiting" => Could(c)

IInv == TypeOK /\ SentByCaller /\ LawWitnessed /\ ReceiptsFresh /\ YesIsFresh

------------------------------------------------------------------------------
LEMMA InitHolds == Init => IInv
  BY ChallengeAssumption DEF Init, IInv, TypeOK, SentByCaller, LawWitnessed,
     ReceiptsFresh, YesIsFresh, Phase

(* A step that leaves the calls and what they asked alone keeps the rest. *)
LEMMA ChangeStep ==
    ASSUME IInv, NEW f \in Fact, Change(f)
    PROVE  IInv'
  <1> USE DEF IInv, Change, config
  <1>1. TypeOK'
    <2>1. law' \subseteq Fact
      BY DEF TypeOK
    <2>2. since' \in [Call -> SUBSET SUBSET Fact]
      BY <2>1 DEF TypeOK
    <2> QED  BY <2>1, <2>2, ChallengeAssumption DEF TypeOK
  <1>2. \A c \in Call : since[c] \subseteq since'[c]
    BY DEF TypeOK
  <1>3. \A c \in Call : Could(c) => Could(c)'
    BY <1>2 DEF Could, Bound, TypeOK
  <1>4. LawWitnessed'
    BY DEF LawWitnessed, TypeOK
  <1>5. ReceiptsFresh'
    BY <1>3 DEF ReceiptsFresh, Accepts, TypeOK
  <1>6. YesIsFresh'
    BY <1>3 DEF YesIsFresh, Could, Bound
  <1> QED  BY <1>1, <1>4, <1>5, <1>6 DEF SentByCaller

LEMMA ReplicateStep ==
    ASSUME IInv, NEW r \in Request, Replicate(r)
    PROVE  IInv'
  BY DEF IInv, Replicate, config, TypeOK, SentByCaller, LawWitnessed, ReceiptsFresh,
     YesIsFresh, Could, Bound, Accepts

(* An answer that is fresh, or that no call accepts, keeps the invariant. *)
LEMMA ReplyStep ==
    ASSUME IInv, NEW m \in Receipt \cup {Unreadable}, Reply(m),
           \A c \in Call :
              /\ m # Unreadable /\ m.nonce = c => phase[c] # "idle"
              /\ m # Unreadable /\ Accepts(c, m) /\ phase[c] = "waiting" => Could(c)
    PROVE  IInv'
  <1> USE DEF IInv, Reply, config
  <1>1. TypeOK'
    BY DEF TypeOK
  <1>2. \A c \in Call : Could(c)' = Could(c)
    BY DEF Could, Bound
  <1>3. ReceiptsFresh'
    BY <1>2 DEF ReceiptsFresh, Accepts
  <1>4. YesIsFresh' /\ LawWitnessed' /\ SentByCaller'
    BY DEF YesIsFresh, LawWitnessed, SentByCaller, Bound
  <1> QED  BY <1>1, <1>3, <1>4

LEMMA ServeStep ==
    ASSUME IInv, NEW m \in sent, Serve(m) \/ ServeOther(m)
    PROVE  IInv'
  <1>1. m.nonce \in Call /\ phase[m.nonce] # "idle" /\ m.request = asked[m.nonce]
    BY DEF IInv, TypeOK, SentByCaller, Challenges
  <1>2. CASE Serve(m)
    <2> DEFINE ans == [nonce |-> m.nonce, allow |-> Verdict(m), key |-> Authority]
    <2>1. ans \in Receipt
      BY <1>1 DEF Receipt, Verdict, Allows
    <2>2. phase[m.nonce] = "waiting" /\ Verdict(m) => Could(m.nonce)
      BY <1>1 DEF IInv, LawWitnessed, Verdict, Could
    <2>3. \A c \in Call :
             /\ ans.nonce = c => phase[c] # "idle"
             /\ Accepts(c, ans) /\ phase[c] = "waiting" => Could(c)
      BY <1>1, <2>2 DEF Accepts
    <2> QED  BY <1>2, <2>1, <2>3, ReplyStep DEF Serve
  <1>3. CASE ServeOther(m)
    <2>1. ASSUME NEW k \in OtherKey, NEW a \in BOOLEAN,
                 Reply([nonce |-> m.nonce, allow |-> a, key |-> k])
          PROVE  IInv'
      <3> DEFINE ans == [nonce |-> m.nonce, allow |-> a, key |-> k]
      <3>1. ans \in Receipt
        BY <1>1 DEF Receipt
      <3>2. \A c \in Call : /\ ans.nonce = c => phase[c] # "idle"
                            /\ ~ Accepts(c, ans)
        BY <1>1, ChallengeAssumption DEF Accepts
      <3> QED  BY <2>1, <3>1, <3>2, ReplyStep
    <2>2. CASE Reply(Unreadable)
      BY <2>2, ReplyStep
    <2> QED  BY <1>3, <2>1, <2>2 DEF ServeOther
  <1> QED  BY <1>2, <1>3

LEMMA AskStep ==
    ASSUME IInv, NEW c \in Call, Ask(c)
    PROVE  IInv'
  <1> USE DEF IInv, Ask, config
  <1>1. TypeOK'
    BY DEF TypeOK, Phase, Challenges
  <1>2. SentByCaller'
    BY DEF SentByCaller, TypeOK, Challenges
  <1>3. LawWitnessed'
    BY DEF LawWitnessed, TypeOK
  <1>4. \A d \in Call : d # c => Could(d)' = Could(d) /\ phase'[d] = phase[d]
    BY DEF Could, Bound, TypeOK
  <1>5. ReceiptsFresh'
    BY <1>4 DEF ReceiptsFresh, Accepts, TypeOK
  <1>6. YesIsFresh'
    BY <1>4 DEF YesIsFresh, Could, TypeOK, Bound
  <1> QED  BY <1>1, <1>2, <1>3, <1>5, <1>6

(* A call that ends for a reason good enough keeps the invariant. *)
LEMMA EndStep ==
    ASSUME IInv, NEW c \in Call, NEW p \in Phase \ {"idle", "waiting"},
           p = "yes" => Could(c),
           phase' = [phase EXCEPT ![c] = p],
           UNCHANGED <<config, replica, law, sent, answers, since, changes>>
    PROVE  IInv'
  <1> USE DEF IInv, config
  <1>1. TypeOK'
    BY DEF TypeOK, Phase
  <1>2. SentByCaller' /\ LawWitnessed'
    BY DEF SentByCaller, LawWitnessed, TypeOK, Phase
  <1>3. \A d \in Call : Could(d)' = Could(d)
    BY DEF Could, Bound
  <1>4. ReceiptsFresh'
    BY <1>3 DEF ReceiptsFresh, Accepts, TypeOK, Phase
  <1>5. YesIsFresh'
    BY <1>3 DEF YesIsFresh, Could, TypeOK, Bound
  <1> QED  BY <1>1, <1>2, <1>4, <1>5

LEMMA ClientStep ==
    ASSUME IInv, NEW c \in Call, Client(c)
    PROVE  IInv'
  <1>1. CASE Ask(c)
    BY <1>1, AskStep
  <1>2. CASE PreCheckFails(c)
    BY <1>2, EndStep DEF PreCheckFails, Phase
  <1>3. ASSUME NEW m \in answers, Deliver(c, m)
        PROVE  IInv'
    <2>1. Outcome(c, m) \in Phase \ {"idle", "waiting"}
      BY DEF Outcome, Phase
    <2>2. Outcome(c, m) = "yes" => Could(c)
      BY <1>3 DEF Outcome, Deliver, IInv, ReceiptsFresh
    <2> QED  BY <1>3, <2>1, <2>2, EndStep DEF Deliver
  <1>4. CASE DeliverUnreadable(c)
    BY <1>4, EndStep DEF DeliverUnreadable, Phase
  <1>5. CASE NoAnswer(c)
    BY <1>5, EndStep DEF NoAnswer, Phase
  <1> QED  BY <1>1, <1>2, <1>3, <1>4, <1>5 DEF Client

(* Every step keeps the invariant. *)
LEMMA StepHolds == IInv /\ [Next]_vars => IInv'
  <1> SUFFICES ASSUME IInv, [Next]_vars
               PROVE  IInv'
    OBVIOUS
  <1>1. CASE UNCHANGED vars
    BY <1>1 DEF vars, IInv, TypeOK, SentByCaller, LawWitnessed, ReceiptsFresh,
       YesIsFresh, Could, Bound, Accepts
  <1>2. CASE Next
    BY <1>2, ChangeStep, ReplicateStep, ServeStep, ClientStep DEF Next
  <1> QED  BY <1>1, <1>2

THEOREM ChallengeInductive == Spec => []IInv
  BY InitHolds, StepHolds, PTL DEF Spec

(* The variables of the exchange keep their types. *)
THEOREM ChallengeTypeCorrect == Spec => []TypeOK
  BY ChallengeInductive, PTL DEF IInv

(* challenge.js authorize: however answers are lost, delayed, repeated or    *)
(* misdirected, a yes was true at a moment the call was waiting.             *)
THEOREM ChallengeFresh == Spec => []YesIsFresh
  BY ChallengeInductive, PTL DEF IInv

------------------------------------------------------------------------------
LEMMA InitImplements == Init => Abstract!Init
  BY DEF Init, Abstract!Init, Allows, CouldBeAllowed

(* The authority's step, seen from the abstract specification. *)
LEMMA ChangeImplements ==
    ASSUME IInv, NEW f \in Fact, Change(f)
    PROVE  Abstract!Change
  <1> USE DEF IInv, Change, config
  <1>1. Bound' = Bound /\ asked' = asked /\ phase' = phase
    BY DEF Bound
  <1>2. ASSUME NEW c \in Call
        PROVE  c \in CouldBeAllowed' <=>
                  \/ c \in CouldBeAllowed
                  \/ phase[c] = "waiting" /\ Allows(law', asked[c], Bound)
    <2>1. CASE phase[c] = "waiting"
      <3>1. since'[c] = since[c] \cup {law'}
        BY <2>1 DEF TypeOK
      <3> QED  BY <1>1, <2>1, <3>1 DEF CouldBeAllowed
    <2>2. CASE phase[c] # "waiting"
      <3>1. since'[c] = since[c]
        BY <2>2 DEF TypeOK
      <3> QED  BY <1>1, <2>2, <3>1 DEF CouldBeAllowed
    <2> QED  BY <2>1, <2>2
  <1>3. \A c \in Call : asked[c] \in Request
    BY DEF TypeOK
  <1>4. CouldBeAllowed' = CouldBeAllowed \cup
           {c \in Call : phase[c] = "waiting"
                         /\ asked[c] \in {r \in Request : Allows(law, r, Bound)}'}
    <2>1. CouldBeAllowed' \subseteq Call /\ CouldBeAllowed \subseteq Call
      BY DEF CouldBeAllowed
    <2> QED  BY <1>1, <1>2, <1>3, <2>1
  <1> QED  BY <1>1, <1>4 DEF Abstract!Change

LEMMA AskImplements ==
    ASSUME IInv, NEW c \in Call, Ask(c)
    PROVE  Abstract!Ask(c)
  <1> USE DEF IInv, Ask, config
  <1>1. Bound' = Bound /\ asked' = asked /\ law' = law
    BY DEF Bound
  <1>2. since'[c] = {law} /\ since[c] = {}
        /\ \A d \in Call : d # c => since'[d] = since[d]
    BY DEF TypeOK, LawWitnessed
  <1>3. \A d \in Call : d \in CouldBeAllowed' <=>
           d \in CouldBeAllowed \/ (d = c /\ Allows(law, asked[c], Bound))
    BY <1>1, <1>2 DEF CouldBeAllowed
  <1>4. CouldBeAllowed' = IF asked[c] \in {r \in Request : Allows(law, r, Bound)}
                          THEN CouldBeAllowed \cup {c} ELSE CouldBeAllowed
    <2>1. CouldBeAllowed' \subseteq Call /\ CouldBeAllowed \subseteq Call
      BY DEF CouldBeAllowed
    <2>2. asked[c] \in Request
      BY DEF TypeOK
    <2> QED  BY <1>3, <2>1, <2>2
  <1> QED  BY <1>1, <1>4 DEF Abstract!Ask

(* A step that leaves the authority and the histories alone. *)
LEMMA Silent ==
    ASSUME UNCHANGED <<config, law, since>>
    PROVE  /\ UNCHANGED asked
           /\ CouldBeAllowed' = CouldBeAllowed
           /\ {r \in Request : Allows(law, r, Bound)}' =
                 {r \in Request : Allows(law, r, Bound)}
  BY DEF config, CouldBeAllowed, Bound

LEMMA ClientImplements ==
    ASSUME IInv, NEW c \in Call, Client(c)
    PROVE  Abstract!Ask(c) \/ \E p \in {"yes", "no", "failed"} : Abstract!Answer(c, p)
  <1>1. CASE Ask(c)
    BY <1>1, AskImplements
  <1>2. CASE PreCheckFails(c)
    BY <1>2, Silent DEF PreCheckFails, Abstract!Answer
  <1>3. ASSUME NEW m \in answers, Deliver(c, m)
        PROVE  \E p \in {"yes", "no"} : Abstract!Answer(c, p)
    <2>1. Outcome(c, m) \in {"yes", "no"}
      BY DEF Outcome
    <2>2. Outcome(c, m) = "yes" => c \in CouldBeAllowed
      BY <1>3 DEF Outcome, Deliver, IInv, ReceiptsFresh, Could, CouldBeAllowed
    <2>3. Abstract!Answer(c, Outcome(c, m))
      BY <1>3, <2>2, Silent DEF Deliver, Abstract!Answer
    <2> QED  BY <2>1, <2>3
  <1>4. CASE DeliverUnreadable(c)
    BY <1>4, Silent DEF DeliverUnreadable, Abstract!Answer
  <1>5. CASE NoAnswer(c)
    BY <1>5, Silent DEF NoAnswer, Abstract!Answer
  <1> QED  BY <1>1, <1>2, <1>3, <1>4, <1>5 DEF Client

LEMMA StepImplements == IInv /\ [Next]_vars => [Abstract!Next]_(Abstract!vars)
  <1> SUFFICES ASSUME IInv, [Next]_vars
               PROVE  [Abstract!Next]_(Abstract!vars)
    OBVIOUS
  <1>1. ASSUME UNCHANGED <<config, law, phase, since>>
        PROVE  UNCHANGED Abstract!vars
    BY <1>1, Silent DEF Abstract!vars
  <1>2. CASE UNCHANGED vars
    BY <1>1, <1>2 DEF vars, config
  <1>3. ASSUME NEW f \in Fact, Change(f)
        PROVE  Abstract!Next
    BY <1>3, ChangeImplements DEF Abstract!Next
  <1>4. ASSUME NEW r \in Request, Replicate(r)
        PROVE  UNCHANGED Abstract!vars
    BY <1>1, <1>4 DEF Replicate
  <1>5. ASSUME NEW m \in sent, Serve(m) \/ ServeOther(m)
        PROVE  UNCHANGED Abstract!vars
    BY <1>1, <1>5 DEF Serve, ServeOther, Reply
  <1>6. ASSUME NEW c \in Call, Client(c)
        PROVE  Abstract!Next
    BY <1>6, ClientImplements DEF Abstract!Next
  <1> QED  BY <1>2, <1>3, <1>4, <1>5, <1>6 DEF Next

(* challenge.js: the exchange does no more than StrictConsistency allows.   *)
THEOREM ChallengeImplements == Spec => ImplementsStrictConsistency
  <1>1. Spec => Abstract!Spec
    BY InitImplements, StepImplements, ChallengeInductive, PTL
       DEF Spec, Abstract!Spec
  <1> QED  BY <1>1 DEF ImplementsStrictConsistency
==============================================================================
