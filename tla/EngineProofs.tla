----------------------------- MODULE EngineProofs -----------------------------
(***************************************************************************)
(* For every set of identities, anchors and tuples, every order of the     *)
(* tuples and every value of the bounds: what the engine allows comes from *)
(* an anchor, and no anchor denies it.                                     *)
(***************************************************************************)
EXTENDS Engine, SequenceTheorems, FiniteSetTheorems, TLAPS

LEMMA RootAnchored == Root \subseteq Anchored
BY EngineAssumption DEF Anchored, Closed

(* An admin made by someone anchored, and denied by no anchor, is anchored. *)
LEMMA AnchoredClosed ==
    ASSUME NEW who \in Identity, Holds(who, "admin", Anchored),
           ~ Holds(who, "-admin", Root)
    PROVE  who \in Anchored
<1>1. SUFFICES ASSUME NEW S \in SUBSET Identity, Closed(S)
               PROVE  who \in S
  BY DEF Anchored
<1>2. Anchored \subseteq S
  BY <1>1 DEF Anchored
<1>3. Holds(who, "admin", S)
  BY <1>2 DEF Holds
<1>4. QED
  BY <1>1, <1>3 DEF Closed

(* What delegation means depends on the active tuples alone. *)
LEMMA MeaningUnchanged ==
    ASSUME active' = active
    PROVE  /\ Anchored' = Anchored
           /\ \A who, relation, from :
                 Holds(who, relation, from)' <=> Holds(who, relation, from)
BY DEF Anchored, Closed, Holds, Active

LEMMA DecidedIsFrame ==
    ASSUME NEW frame \in Frame, NEW valid \in BOOLEAN, NEW t
    PROVE  Decided(frame, t, valid) \in Frame
<1> DEFINE deny == frame.deny \/ (valid /\ t.relation = Denial(frame.relation))
           allow == frame.allow \/ (valid /\ t.relation = frame.relation)
<1>1. deny \in BOOLEAN /\ allow \in BOOLEAN
  BY Zenon
<1>2. frame.next + 1 \in Nat \ {0}
  BY DEF Frame
<1>3. Decided(frame, t, valid) =
        [frame EXCEPT !.next = frame.next + 1, !.deny = deny, !.allow = allow]
  BY Zenon DEF Decided
<1> HIDE DEF deny, allow
<1>4. QED
  BY <1>1, <1>2, <1>3 DEF Frame

(* The sequence s cut after n elements, with another n-th one. *)
LEMMA PopAndReplace ==
    ASSUME NEW S, NEW s \in Seq(S), NEW n \in 1 .. Len(s), NEW x \in S
    PROVE  LET cut == [SubSeq(s, 1, n) EXCEPT ![n] = x]
           IN  /\ cut \in Seq(S) /\ Len(cut) = n
               /\ \A k \in 1 .. n - 1 : cut[k] = s[k]
               /\ cut[n] = x
<1> DEFINE sub == SubSeq(s, 1, n)
<1>1. n \in Int /\ 1 \in Int /\ (\A i \in 1 .. n : s[i] \in S)
  OBVIOUS
<1>2. /\ sub \in Seq(S)
      /\ Len(sub) = IF 1 <= n THEN n - 1 + 1 ELSE 0
      /\ \A i \in 1 .. n - 1 + 1 : sub[i] = s[1 + i - 1]
  BY <1>1, SubSeqProperties
<1>3. sub \in Seq(S) /\ Len(sub) = n /\ \A i \in 1 .. n : sub[i] = s[i]
  BY <1>1, <1>2
<1> HIDE DEF sub
<1> DEFINE cut == [sub EXCEPT ![n] = x]
<1>4. n \in DOMAIN sub /\ DOMAIN cut = 1 .. n
  BY <1>3
<1>5. \A k \in 1 .. n : cut[k] = IF k = n THEN x ELSE s[k]
  BY <1>3, <1>4
<1>6. cut \in Seq(S) /\ Len(cut) = n
  BY <1>3, <1>4
<1>7. QED
  BY <1>5, <1>6 DEF sub

LEMMA InitEngineInv == Init => EngineInv
BY EngineAssumption
   DEF Init, EngineInv, TypeOK, Verdict, Nested, ForRequest, FoundIsAnchored,
       DenialsFound, MemoAnchored, OnlyAnchored, AnchorDenialWins

(* A call that has settled the authority of its candidate's issuer.  valid   *)
(* is TRUE only for an anchored issuer, and always for an anchor.           *)
LEMMA Settling ==
    ASSUME EngineInv, UNCHANGED <<active, request, verdict>>, stack # <<>>,
           NEW n \in 1 .. Len(stack), NEW valid \in BOOLEAN,
           stack[n].next <= Len(active),
           Matches(stack[n], active[stack[n].next]),
           valid => active[stack[n].next].issuer \in Anchored,
           active[stack[n].next].issuer \in Root => valid,
           stack' \in Seq(Frame), Len(stack') = n,
           \A k \in 1 .. n - 1 : stack'[k] = stack[k],
           stack'[n] = Decided(stack[n], active[stack[n].next], valid)
    PROVE  Nested' /\ FoundIsAnchored' /\ DenialsFound'
           /\ stack' # <<>> /\ stack'[1].who = stack[1].who
           /\ stack'[1].relation = stack[1].relation
<1> DEFINE old == stack[n]
           new == stack'[n]
           t == active[old.next]
<1>1. /\ old \in Frame /\ t \in Tuple /\ old.next \in 1 .. Len(active)
      /\ active \in Seq(Tuple)
  <2>1. stack \in Seq(Frame) /\ active \in Seq(Permission)
    BY DEF EngineInv, TypeOK
  <2>2. Permission \subseteq Tuple
    BY EngineAssumption
  <2>3. active \in Seq(Tuple)
    BY <2>1, <2>2
  <2>4. old \in Frame
    BY <2>1
  <2>5. old.next \in 1 .. Len(active)
    BY <2>1, <2>4 DEF Frame
  <2>6. QED
    BY <2>3, <2>4, <2>5
<1>2. /\ new.who = old.who /\ new.relation = old.relation
      /\ new.next = old.next + 1
      /\ new.deny = (old.deny \/ (valid /\ t.relation = Denial(old.relation)))
      /\ new.allow = (old.allow \/ (valid /\ t.relation = old.relation))
  BY <1>1 DEF Decided, Frame
<1> HIDE DEF old, new, t
<1>3. Nested'
  <2>1. SUFFICES ASSUME NEW k \in 1 .. n
                 PROVE  /\ stack'[k].next <= Len(active) + 1
                        /\ k > 1 =>
                              /\ stack'[k].relation = "admin"
                              /\ stack'[k].who \notin Root
                              /\ stack'[k - 1].next <= Len(active)
                              /\ stack'[k].who = active[stack'[k - 1].next].issuer
                              /\ Matches(stack'[k - 1], active[stack'[k - 1].next])
    BY DEF Nested, Matches
  <2>2. stack'[k].next <= Len(active) + 1
    <3>1. CASE k = n
      BY <3>1, <1>1, <1>2 DEF new, old
    <3>2. CASE k # n
      <4>1. k \in 1 .. Len(stack) /\ stack'[k] = stack[k]
        BY <3>2 DEF EngineInv, TypeOK
      <4>2. QED
        BY <4>1 DEF EngineInv, Nested
    <3>3. QED
      BY <3>1, <3>2
  <2>3. /\ stack'[k].relation = stack[k].relation
        /\ stack'[k].who = stack[k].who
    BY <1>2 DEF old, new
  <2>4. k > 1 => stack'[k - 1] = stack[k - 1]
    OBVIOUS
  <2>5. k \in 1 .. Len(stack)
    BY DEF EngineInv, TypeOK
  <2>6. QED
    BY <2>2, <2>3, <2>4, <2>5 DEF EngineInv, Nested
<1>4. FoundIsAnchored'
  <2>1. SUFFICES ASSUME NEW k \in 1 .. n, stack'[k].allow
                 PROVE  Holds(stack'[k].who, stack'[k].relation, Anchored)
    BY MeaningUnchanged DEF FoundIsAnchored
  <2>2. CASE k < n
    BY <2>1, <2>2 DEF EngineInv, FoundIsAnchored
  <2>3. CASE k = n /\ old.allow
    BY <2>3, <1>2 DEF EngineInv, FoundIsAnchored, old, new
  <2>4. CASE k = n /\ ~ old.allow
    <3>1. valid /\ t.relation = old.relation
      BY <2>1, <2>4, <1>2 DEF new
    <3>2. t \in Active /\ t.grantee = old.who /\ t.issuer \in Anchored
      BY <3>1, <1>1 DEF Active, Matches, old, t
    <3>3. QED
      BY <2>4, <3>1, <3>2, <1>2 DEF Holds, new
  <2>5. QED
    BY <2>1, <2>2, <2>3, <2>4
<1>5. DenialsFound'
  <2>1. SUFFICES ASSUME NEW k \in 1 .. n, NEW i \in 1 .. Len(active),
                        i < stack'[k].next,
                        active[i].grantee = stack'[k].who,
                        active[i].relation = Denial(stack'[k].relation),
                        active[i].issuer \in Root
                 PROVE  stack'[k].deny
    BY DEF DenialsFound
  <2>2. CASE k < n
    BY <2>1, <2>2 DEF EngineInv, DenialsFound
  <2>3. CASE k = n /\ i < old.next
    <3>1. old.deny
      BY <2>1, <2>3, <1>2 DEF EngineInv, DenialsFound, old, new
    <3>2. QED
      BY <3>1, <2>3, <1>2 DEF new
  <2>4. CASE k = n /\ i = old.next
    <3>1. valid /\ t.relation = Denial(old.relation)
      BY <2>1, <2>4, <1>2 DEF old, new, t
    <3>2. QED
      BY <3>1, <2>4, <1>2 DEF new
  <2>5. QED
    BY <2>1, <2>2, <2>3, <2>4, <1>1, <1>2 DEF new
<1>6. QED
  BY <1>2, <1>3, <1>4, <1>5 DEF old, new

(* Nothing the request decides on changed, and there is no verdict yet. *)
LEMMA StillPending ==
    ASSUME EngineInv, UNCHANGED <<active, request, verdict>>, stack # <<>>,
           stack' # <<>>, stack'[1].who = stack[1].who,
           stack'[1].relation = stack[1].relation
    PROVE  ForRequest' /\ OnlyAnchored' /\ AnchorDenialWins'
BY DEF EngineInv, ForRequest, OnlyAnchored, AnchorDenialWins

LEMMA ActivateStep ==
    ASSUME EngineInv, NEW t \in Permission, Activate(t)
    PROVE  EngineInv'
<1>1. TypeOK'
  BY DEF EngineInv, TypeOK, Activate, Verdict
<1>2. QED
  BY <1>1 DEF EngineInv, Activate, Nested, ForRequest, FoundIsAnchored,
              DenialsFound, MemoAnchored, OnlyAnchored, AnchorDenialWins

LEMMA DeactivateStep ==
    ASSUME EngineInv, NEW k \in 1 .. Len(active), Deactivate(k)
    PROVE  EngineInv'
<1>1. active' \in Seq(Permission)
  <2>1. active \in Seq(Permission) /\ Len(active) \in Nat \ {0}
    BY DEF EngineInv, TypeOK
  <2>2. \A i \in 1 .. Len(active) - 1 :
           active[IF i < k THEN i ELSE i + 1] \in Permission
    BY <2>1
  <2>3. Len(active) - 1 \in Nat
    BY <2>1
  <2>4. QED
    BY <2>2, <2>3 DEF Deactivate
<1>2. TypeOK'
  BY <1>1 DEF EngineInv, TypeOK, Deactivate, Verdict
<1>3. QED
  BY <1>2 DEF EngineInv, Deactivate, Nested, ForRequest, FoundIsAnchored,
              DenialsFound, MemoAnchored, OnlyAnchored, AnchorDenialWins

LEMMA AskStep ==
    ASSUME EngineInv, NEW grantee \in Identity,
           NEW relation \in {"read", "admin"}, Ask(grantee, relation)
    PROVE  EngineInv'
<1>1. Call(grantee, relation) \in Frame
  BY DEF Call, Frame
<1>2. TypeOK'
  BY <1>1 DEF EngineInv, TypeOK, Ask, Verdict, Request
<1>3. Len(stack') = 1 /\ stack'[1] = Call(grantee, relation)
  BY DEF Ask
<1>4. Len(active) \in Nat /\ active' = active
  BY DEF EngineInv, TypeOK, Ask
<1>5. Nested' /\ FoundIsAnchored' /\ DenialsFound'
  BY <1>3, <1>4 DEF Nested, FoundIsAnchored, DenialsFound, Call
<1>6. ForRequest' /\ OnlyAnchored' /\ AnchorDenialWins'
  BY <1>3 DEF ForRequest, OnlyAnchored, AnchorDenialWins, Ask, Call
<1>7. MemoAnchored'
  BY <1>4, MeaningUnchanged DEF EngineInv, MemoAnchored, Ask
<1>8. QED
  BY <1>2, <1>5, <1>6, <1>7 DEF EngineInv

LEMMA SkipStep ==
    ASSUME EngineInv, Skip
    PROVE  EngineInv'
<1> DEFINE n == Len(stack)
           top == stack[n]
<1>1. /\ stack \in Seq(Frame) /\ n \in Nat \ {0} /\ top \in Frame
      /\ Len(active) \in Nat /\ top.next <= Len(active)
      /\ active' = active
  BY DEF EngineInv, TypeOK, Skip, Looking, Top, Last
<1>2. /\ stack' \in Seq(Frame) /\ Len(stack') = n
      /\ \A k \in 1 .. n : k # n => stack'[k] = stack[k]
      /\ stack'[n] = [top EXCEPT !.next = @ + 1]
      /\ stack'[n] \in Frame
  <2>1. stack' = [stack EXCEPT ![n] = [top EXCEPT !.next = @ + 1]]
    BY DEF Skip, Last
  <2>2. [top EXCEPT !.next = @ + 1] \in Frame
    BY <1>1 DEF Frame
  <2>3. QED
    BY <1>1, <2>1, <2>2
<1>3. /\ stack'[n].who = top.who /\ stack'[n].relation = top.relation
      /\ stack'[n].deny = top.deny /\ stack'[n].allow = top.allow
      /\ stack'[n].next = top.next + 1
  BY <1>1, <1>2 DEF Frame
<1>4. ~ Matches(top, active[top.next])
  BY DEF Skip, Top, Last, Candidate
<1> HIDE DEF n, top
<1>5. TypeOK'
  BY <1>2 DEF EngineInv, TypeOK, Skip
<1>6. Nested'
  <2>1. SUFFICES ASSUME NEW k \in 1 .. n
                 PROVE  /\ stack'[k].next <= Len(active) + 1
                        /\ k > 1 =>
                              /\ stack'[k].relation = "admin"
                              /\ stack'[k].who \notin Root
                              /\ stack'[k - 1].next <= Len(active)
                              /\ stack'[k].who = active[stack'[k - 1].next].issuer
                              /\ Matches(stack'[k - 1], active[stack'[k - 1].next])
    BY <1>1, <1>2 DEF Nested, Matches
  <2>2. CASE k # n
    BY <2>2, <1>1, <1>2 DEF EngineInv, Nested, n
  <2>3. CASE k = n
    <3>1. stack'[k].next <= Len(active) + 1
      BY <2>3, <1>1, <1>3 DEF Frame
    <3>2. k > 1 => stack'[k - 1] = stack[k - 1]
      BY <2>3, <1>1, <1>2
    <3>3. QED
      BY <2>3, <3>1, <3>2, <1>1, <1>3 DEF EngineInv, Nested, n, top
  <2>4. QED
    BY <2>2, <2>3
<1>7. FoundIsAnchored'
  <2>1. SUFFICES ASSUME NEW k \in 1 .. n, stack'[k].allow
                 PROVE  Holds(stack'[k].who, stack'[k].relation, Anchored)
    BY <1>1, <1>2, MeaningUnchanged DEF FoundIsAnchored
  <2>2. CASE k # n
    BY <2>1, <2>2, <1>1, <1>2 DEF EngineInv, FoundIsAnchored, n
  <2>3. CASE k = n
    BY <2>1, <2>3, <1>1, <1>3 DEF EngineInv, FoundIsAnchored, n, top
  <2>4. QED
    BY <2>2, <2>3
<1>8. DenialsFound'
  <2>1. SUFFICES ASSUME NEW k \in 1 .. n, NEW i \in 1 .. Len(active),
                        i < stack'[k].next,
                        active[i].grantee = stack'[k].who,
                        active[i].relation = Denial(stack'[k].relation),
                        active[i].issuer \in Root
                 PROVE  stack'[k].deny
    BY <1>1, <1>2 DEF DenialsFound
  <2>2. CASE k # n
    BY <2>1, <2>2, <1>1, <1>2 DEF EngineInv, DenialsFound, n
  <2>3. CASE k = n /\ i < top.next
    BY <2>1, <2>3, <1>1, <1>2, <1>3 DEF EngineInv, DenialsFound, n, top
  <2>4. CASE k = n /\ i = top.next
    BY <2>1, <2>4, <1>3, <1>4 DEF Matches
  <2>5. QED
    <3>1. top.next \in Int
      BY <1>1 DEF Frame
    <3>2. QED
      BY <2>1, <2>2, <2>3, <2>4, <1>3, <3>1
<1>9. MemoAnchored'
  BY <1>1, MeaningUnchanged DEF EngineInv, MemoAnchored, Skip
<1>10. ForRequest' /\ OnlyAnchored' /\ AnchorDenialWins'
  <2>1. /\ stack' # <<>> /\ stack'[1].who = stack[1].who
        /\ stack'[1].relation = stack[1].relation
    <3>1. stack' # <<>>
      BY <1>1, <1>2
    <3>2. CASE n = 1
      BY <3>1, <3>2, <1>3 DEF top
    <3>3. CASE n # 1
      BY <3>1, <3>3, <1>1, <1>2
    <3>4. QED
      BY <3>2, <3>3
  <2>2. UNCHANGED <<active, request, verdict>> /\ stack # <<>>
    BY DEF Skip, Looking
  <2>3. QED
    BY <2>1, <2>2, StillPending
<1>11. QED
  BY <1>5, <1>6, <1>7, <1>8, <1>9, <1>10 DEF EngineInv

(* The authority of the candidate's issuer is settled without another call. *)
LEMMA ExamineStep ==
    ASSUME EngineInv, NEW valid \in BOOLEAN, Looking, Matches(Top, Candidate),
           Examine(valid), counter' \in Nat,
           valid => Candidate.issuer \in Anchored,
           Candidate.issuer \in Root => valid
    PROVE  EngineInv'
<1> DEFINE n == Len(stack)
<1>1. /\ stack \in Seq(Frame) /\ n \in Nat \ {0} /\ stack # <<>>
      /\ n \in 1 .. Len(stack) /\ stack[n] \in Frame
      /\ active \in Seq(Permission) /\ stack[n].next <= Len(active)
      /\ Matches(stack[n], active[stack[n].next])
      /\ UNCHANGED <<active, memo, request, verdict>>
  BY DEF EngineInv, TypeOK, Looking, Top, Last, Candidate, Examine
<1>2. Decided(stack[n], active[stack[n].next], valid) \in Frame
  BY <1>1, DecidedIsFrame
<1>3. stack' = [stack EXCEPT
                  ![n] = Decided(stack[n], active[stack[n].next], valid)]
  BY DEF Examine, Last, Candidate, Top
<1>4. /\ stack' \in Seq(Frame) /\ Len(stack') = n
      /\ \A k \in 1 .. n - 1 : stack'[k] = stack[k]
      /\ stack'[n] = Decided(stack[n], active[stack[n].next], valid)
  BY <1>1, <1>2, <1>3
<1>5. /\ valid => active[stack[n].next].issuer \in Anchored
      /\ active[stack[n].next].issuer \in Root => valid
  BY DEF Candidate, Top, Last
<1> HIDE DEF n
<1>6. /\ Nested' /\ FoundIsAnchored' /\ DenialsFound'
      /\ stack' # <<>> /\ stack'[1].who = stack[1].who
      /\ stack'[1].relation = stack[1].relation
  BY <1>1, <1>4, <1>5, Settling
<1>7. ForRequest' /\ OnlyAnchored' /\ AnchorDenialWins'
  BY <1>1, <1>6, StillPending
<1>8. TypeOK'
  BY <1>1, <1>4 DEF EngineInv, TypeOK
<1>9. MemoAnchored'
  BY <1>1, MeaningUnchanged DEF EngineInv, MemoAnchored
<1>10. QED
  BY <1>6, <1>7, <1>8, <1>9 DEF EngineInv

LEMMA RecurseStep ==
    ASSUME EngineInv, Recurse
    PROVE  EngineInv'
<1> DEFINE n == Len(stack)
           call == Call(Candidate.issuer, "admin")
<1>1. /\ stack \in Seq(Frame) /\ n \in Nat \ {0} /\ stack # <<>>
      /\ stack[n] \in Frame
      /\ active \in Seq(Permission) /\ stack[n].next \in 1 .. Len(active)
      /\ UNCHANGED <<active, memo, request, verdict>>
  <2>1. /\ stack \in Seq(Frame) /\ n \in Nat \ {0} /\ stack # <<>>
        /\ stack[n] \in Frame /\ active \in Seq(Permission)
        /\ stack[n].next <= Len(active)
        /\ UNCHANGED <<active, memo, request, verdict>>
    BY DEF EngineInv, TypeOK, Recurse, Looking, Top, Last
  <2>2. stack[n].next \in Nat \ {0}
    BY <2>1 DEF Frame
  <2>3. QED
    BY <2>1, <2>2
<1>2. Candidate \in Tuple
  <2>1. Candidate \in Permission
    BY <1>1 DEF Candidate, Top, Last
  <2>2. QED
    BY <2>1, EngineAssumption
<1>3. call \in Frame
  BY <1>2 DEF Call, Frame, Tuple
<1>4. /\ stack' \in Seq(Frame) /\ Len(stack') = n + 1
      /\ \A k \in 1 .. n : stack'[k] = stack[k]
      /\ stack'[n + 1] = call
  BY <1>1, <1>3 DEF Recurse
<1>5. /\ call.who = active[stack[n].next].issuer /\ call.relation = "admin"
      /\ call.next = 1 /\ call.deny = FALSE /\ call.allow = FALSE
      /\ call.who \notin Root
      /\ Matches(stack[n], active[stack[n].next])
  BY DEF Call, Candidate, Top, Last, Recurse, Known
<1> HIDE DEF n, call
<1>6. TypeOK'
  BY <1>1, <1>4 DEF EngineInv, TypeOK, Recurse
<1>7. Nested'
  <2>1. SUFFICES ASSUME NEW k \in 1 .. n + 1
                 PROVE  /\ stack'[k].next <= Len(active) + 1
                        /\ k > 1 =>
                              /\ stack'[k].relation = "admin"
                              /\ stack'[k].who \notin Root
                              /\ stack'[k - 1].next <= Len(active)
                              /\ stack'[k].who = active[stack'[k - 1].next].issuer
                              /\ Matches(stack'[k - 1], active[stack'[k - 1].next])
    BY <1>1, <1>4 DEF Nested, Matches
  <2>2. CASE k \in 1 .. n
    <3>1. stack'[k] = stack[k] /\ (k > 1 => stack'[k - 1] = stack[k - 1])
      BY <2>2, <1>1, <1>4
    <3>2. QED
      BY <2>2, <3>1 DEF EngineInv, Nested, n
  <2>3. CASE k = n + 1
    <3>1. stack'[k] = call /\ stack'[k - 1] = stack[n]
      BY <2>3, <1>1, <1>4
    <3>2. QED
      BY <3>1, <1>1, <1>5
  <2>4. QED
    BY <2>2, <2>3, <1>1
<1>8. FoundIsAnchored'
  <2>1. SUFFICES ASSUME NEW k \in 1 .. n + 1, stack'[k].allow
                 PROVE  Holds(stack'[k].who, stack'[k].relation, Anchored)
    BY <1>1, <1>4, MeaningUnchanged DEF FoundIsAnchored
  <2>2. k \in 1 .. n
    BY <2>1, <1>1, <1>4, <1>5
  <2>3. QED
    BY <2>1, <2>2, <1>4 DEF EngineInv, FoundIsAnchored, n
<1>9. DenialsFound'
  <2>1. SUFFICES ASSUME NEW k \in 1 .. n + 1, NEW i \in 1 .. Len(active),
                        i < stack'[k].next,
                        active[i].grantee = stack'[k].who,
                        active[i].relation = Denial(stack'[k].relation),
                        active[i].issuer \in Root
                 PROVE  stack'[k].deny
    BY <1>1, <1>4 DEF DenialsFound
  <2>2. k \in 1 .. n
    BY <2>1, <1>1, <1>4, <1>5
  <2>3. QED
    BY <2>1, <2>2, <1>4 DEF EngineInv, DenialsFound, n
<1>10. ForRequest' /\ OnlyAnchored' /\ AnchorDenialWins'
  <2>1. stack' # <<>> /\ stack'[1] = stack[1]
    BY <1>1, <1>4
  <2>2. QED
    BY <2>1, <1>1, StillPending
<1>11. MemoAnchored'
  BY <1>1, MeaningUnchanged DEF EngineInv, MemoAnchored
<1>12. QED
  BY <1>6, <1>7, <1>8, <1>9, <1>10, <1>11 DEF EngineInv

(* A call that ends has seen every tuple: if it allows, whom it asked about *)
(* is anchored; and it did not look at an anchor.                           *)
LEMMA FinishedCall ==
    ASSUME EngineInv, Finished, Allows(Top)
    PROVE  /\ Holds(Top.who, Top.relation, Anchored)
           /\ ~ Holds(Top.who, Denial(Top.relation), Root)
<1>1. /\ stack \in Seq(Frame) /\ Last \in 1 .. Len(stack) /\ Top = stack[Last]
      /\ Top.next > Len(active) /\ Top \in Frame /\ active \in Seq(Permission)
  BY DEF EngineInv, TypeOK, Finished, Top, Last
<1>2. Holds(Top.who, Top.relation, Anchored)
  BY <1>1 DEF EngineInv, FoundIsAnchored, Allows
<1>3. SUFFICES ASSUME Holds(Top.who, Denial(Top.relation), Root)
               PROVE  FALSE
  BY <1>2
<1>4. PICK i \in 1 .. Len(active) :
         /\ active[i].grantee = Top.who
         /\ active[i].relation = Denial(Top.relation)
         /\ active[i].issuer \in Root
  BY <1>3 DEF Holds, Active
<1>5. i < Top.next
  BY <1>1 DEF Frame
<1>6. Top.deny
  BY <1>1, <1>4, <1>5 DEF EngineInv, DenialsFound
<1>7. QED
  BY <1>6 DEF Allows

LEMMA ReturnStep ==
    ASSUME EngineInv, Return
    PROVE  EngineInv'
<1> DEFINE n == Len(stack) - 1
           valid == Allows(Top)
<1>1. /\ stack \in Seq(Frame) /\ n \in 1 .. Len(stack) /\ stack # <<>>
      /\ n + 1 = Last /\ n + 1 \in 1 .. Len(stack) /\ stack[n] \in Frame
      /\ Top = stack[n + 1] /\ Top \in Frame
      /\ active \in Seq(Permission)
      /\ UNCHANGED <<active, counter, request, verdict>>
  BY DEF EngineInv, TypeOK, Return, Finished, Top, Last
<1>2. /\ Top.relation = "admin" /\ Top.who \notin Root
      /\ stack[n].next <= Len(active)
      /\ Top.who = active[stack[n].next].issuer
      /\ Matches(stack[n], active[stack[n].next])
  BY <1>1 DEF EngineInv, Nested
<1>3. valid \in BOOLEAN
  BY <1>1 DEF Allows, Frame
<1>4. valid => Top.who \in Anchored
  <2>1. Top.who \in Identity /\ Denial("admin") = "-admin"
    BY <1>1 DEF Frame, Denial
  <2>2. QED
    BY <2>1, <1>2, FinishedCall, AnchoredClosed DEF Return
<1>5. Decided(stack[n], active[stack[n].next], valid) \in Frame
  BY <1>1, <1>3, DecidedIsFrame
<1>6. /\ stack' \in Seq(Frame) /\ Len(stack') = n
      /\ \A k \in 1 .. n - 1 : stack'[k] = stack[k]
      /\ stack'[n] = Decided(stack[n], active[stack[n].next], valid)
  <2>1. stack' = [SubSeq(stack, 1, n) EXCEPT
                    ![n] = Decided(stack[n], active[stack[n].next], valid)]
    BY DEF Return, Last
  <2>2. QED
    BY <1>1, <1>5, <2>1, PopAndReplace
<1> HIDE DEF n, valid
<1>7. /\ Nested' /\ FoundIsAnchored' /\ DenialsFound'
      /\ stack' # <<>> /\ stack'[1].who = stack[1].who
      /\ stack'[1].relation = stack[1].relation
  BY <1>1, <1>2, <1>3, <1>4, <1>6, Settling
<1>8. ForRequest' /\ OnlyAnchored' /\ AnchorDenialWins'
  BY <1>1, <1>7, StillPending
<1>9. memo' \subseteq Anchored /\ memo' \subseteq Identity
  <2>1. memo' \subseteq memo \cup (IF valid THEN {Top.who} ELSE {})
    BY DEF Return, valid
  <2>2. Top.who \in Identity
    BY <1>1 DEF Frame
  <2>3. QED
    BY <2>1, <2>2, <1>4 DEF EngineInv, TypeOK, MemoAnchored
<1>10. TypeOK' /\ MemoAnchored'
  BY <1>1, <1>6, <1>9, MeaningUnchanged DEF EngineInv, TypeOK, MemoAnchored
<1>11. QED
  BY <1>7, <1>8, <1>10 DEF EngineInv

LEMMA AnswerStep ==
    ASSUME EngineInv, Answer
    PROVE  EngineInv'
<1>1. /\ stack # <<>> /\ Top = stack[1] /\ active' = active
      /\ stack' = <<>> /\ memo' = {} /\ request' = request /\ counter' = counter
      /\ verdict' = IF Allows(Top) THEN "allow" ELSE "deny"
  BY DEF Answer, Finished, Top, Last
<1>2. TypeOK'
  BY <1>1 DEF EngineInv, TypeOK, Verdict
<1>3. Nested' /\ FoundIsAnchored' /\ DenialsFound' /\ MemoAnchored' /\ ForRequest'
  BY <1>1 DEF Nested, FoundIsAnchored, DenialsFound, MemoAnchored, ForRequest
<1>4. /\ Top.who = request.grantee /\ Top.relation = request.relation
  BY <1>1 DEF EngineInv, ForRequest
<1>5. OnlyAnchored' /\ AnchorDenialWins'
  <2>1. verdict' = "allow" =>
           /\ Holds(request.grantee, request.relation, Anchored)
           /\ ~ Holds(request.grantee, Denial(request.relation), Root)
    BY <1>1, <1>4, FinishedCall DEF Answer
  <2>2. QED
    BY <2>1, <1>1, MeaningUnchanged DEF OnlyAnchored, AnchorDenialWins
<1>6. QED
  BY <1>2, <1>3, <1>5 DEF EngineInv

LEMMA StutterStep ==
    ASSUME EngineInv, UNCHANGED vars
    PROVE  EngineInv'
<1>1. /\ active' = active /\ stack' = stack /\ memo' = memo
      /\ request' = request /\ verdict' = verdict /\ counter' = counter
  BY DEF vars
<1>2. TypeOK' /\ Nested' /\ ForRequest' /\ DenialsFound'
  BY <1>1 DEF EngineInv, TypeOK, Nested, ForRequest, DenialsFound, Matches
<1>3. FoundIsAnchored' /\ MemoAnchored' /\ OnlyAnchored' /\ AnchorDenialWins'
  BY <1>1, MeaningUnchanged
     DEF EngineInv, FoundIsAnchored, MemoAnchored, OnlyAnchored, AnchorDenialWins
<1>4. QED
  BY <1>2, <1>3 DEF EngineInv

(* The invariant of the stack and the memo holds in every state.            *)
THEOREM EngineInductive == Spec => []EngineInv
<1>1. ASSUME EngineInv, [Next]_vars
      PROVE  EngineInv'
  <2>1. CASE \E t \in Permission : Activate(t)
    BY <1>1, <2>1, ActivateStep
  <2>2. CASE \E k \in 1 .. Len(active) : Deactivate(k)
    BY <1>1, <2>2, DeactivateStep
  <2>3. CASE \E grantee \in Identity, relation \in {"read", "admin"} :
                Ask(grantee, relation)
    BY <1>1, <2>3, AskStep
  <2>4. CASE Skip
    BY <1>1, <2>4, SkipStep
  <2>5. CASE Confirm
    <3>1. Candidate.issuer \in Anchored
      BY <1>1, <2>5, RootAnchored DEF Confirm, Known, EngineInv, MemoAnchored
    <3>2. counter' \in Nat
      BY <1>1, <2>5 DEF Confirm, EngineInv, TypeOK
    <3>3. Looking /\ Matches(Top, Candidate) /\ Examine(TRUE)
      BY <2>5 DEF Confirm
    <3>4. QED
      BY <1>1, <3>1, <3>2, <3>3, ExamineStep, Zenon
  <2>6. CASE Refuse
    <3>1. Candidate.issuer \notin Root /\ counter' \in Nat
      BY <1>1, <2>6 DEF Refuse, Refused, Known, EngineInv, TypeOK
    <3>2. Looking /\ Matches(Top, Candidate) /\ Examine(FALSE)
      BY <2>6 DEF Refuse
    <3>3. QED
      BY <1>1, <3>1, <3>2, ExamineStep, Zenon
  <2>7. CASE Overrun
    <3>1. Candidate.issuer \notin Root /\ counter' \in Nat
      BY <1>1, <2>7 DEF Overrun, Known, EngineInv, TypeOK
    <3>2. Looking /\ Matches(Top, Candidate) /\ Examine(FALSE)
      BY <2>7 DEF Overrun
    <3>3. QED
      BY <1>1, <3>1, <3>2, ExamineStep, Zenon
  <2>8. CASE Recurse
    BY <1>1, <2>8, RecurseStep
  <2>9. CASE Return
    BY <1>1, <2>9, ReturnStep
  <2>10. CASE Answer
    BY <1>1, <2>10, AnswerStep
  <2>11. CASE UNCHANGED vars
    BY <1>1, <2>11, StutterStep
  <2>12. QED
    BY <1>1, <2>1, <2>2, <2>3, <2>4, <2>5, <2>6, <2>7, <2>8, <2>9, <2>10, <2>11
       DEF Next, Evaluate
<1>2. QED
  BY <1>1, InitEngineInv, PTL DEF Spec

(* The stack, the memo and the counter keep their types through any          *)
(* evaluation (engine.js evaluateHashes).                                    *)
THEOREM EngineTypeCorrect == Spec => []TypeOK
BY EngineInductive, PTL DEF EngineInv

(* Whatever the engine allows was granted by someone whose authority comes  *)
(* from an anchor, for any cycle of delegations, order, memo and bound      *)
(* (engine.js evaluateHashes).                                              *)
THEOREM EngineSound == Spec => []OnlyAnchored
BY EngineInductive, PTL DEF EngineInv

(* No grant wins against the denial of an anchor (engine.js _resolve).      *)
THEOREM EngineObeysAnchors == Spec => []AnchorDenialWins
BY EngineInductive, PTL DEF EngineInv
------------------------------------------------------------------------------
(* Exactness.  What has authority off a path is the least set closed off it. *)
LEMMA OffIsClosed ==
    ASSUME NEW path
    PROVE  ClosedOff(AnchoredOff(path), path)
<1>1. Root \subseteq AnchoredOff(path)
  BY EngineAssumption DEF AnchoredOff, ClosedOff
<1>2. ASSUME NEW who \in Identity \ path, Holds(who, "admin", AnchoredOff(path)),
             ~ Holds(who, "-admin", Root)
      PROVE  who \in AnchoredOff(path)
  <2>1. SUFFICES ASSUME NEW S \in SUBSET Identity, ClosedOff(S, path)
                 PROVE  who \in S
    BY DEF AnchoredOff
  <2>2. AnchoredOff(path) \subseteq S
    BY <2>1 DEF AnchoredOff
  <2>3. Holds(who, "admin", S)
    BY <1>2, <2>2 DEF Holds
  <2>4. QED
    BY <1>2, <2>1, <2>3 DEF ClosedOff
<1>3. QED
  BY <1>1, <1>2 DEF ClosedOff

(* Whoever is on the path has no authority off it, but for the anchors.     *)
LEMMA OnThePath ==
    ASSUME NEW path, NEW who \in path, who \in AnchoredOff(path)
    PROVE  who \in Root
<1> DEFINE S == Root \cup (Identity \ path)
<1>1. S \in SUBSET Identity
  BY EngineAssumption
<1>2. ClosedOff(S, path)
  BY DEF ClosedOff
<1>3. who \in S
  BY <1>1, <1>2 DEF AnchoredOff
<1>4. QED
  BY <1>3

(* Authority off a path comes from an admin grant by someone who has it     *)
(* without the identity in question as well, and no anchor denied it.       *)
LEMMA GrantedOffThePath ==
    ASSUME NEW path, NEW who \in AnchoredOff(path), who \notin Root
    PROVE  /\ Holds(who, "admin", AnchoredOff(path \cup {who}))
           /\ ~ Holds(who, "-admin", Root)
<1> DEFINE S == AnchoredOff(path \cup {who})
<1>1. SUFFICES ASSUME ~ Holds(who, "admin", S) \/ Holds(who, "-admin", Root)
               PROVE  FALSE
  OBVIOUS
<1>2. ClosedOff(S, path \cup {who})
  BY OffIsClosed
<1>3. ClosedOff(S, path)
  <2>1. ASSUME NEW v \in Identity \ path, Holds(v, "admin", S),
               ~ Holds(v, "-admin", Root)
        PROVE  v \in S
    <3>1. v # who
      BY <2>1, <1>1
    <3>2. QED
      BY <3>1, <2>1, <1>2 DEF ClosedOff
  <2>2. QED
    BY <2>1, <1>2 DEF ClosedOff
<1>4. S \in SUBSET Identity
  BY DEF AnchoredOff
<1>5. who \in S
  BY <1>3, <1>4 DEF AnchoredOff
<1>6. QED
  BY <1>5, OnThePath

LEMMA AnchoredOffNothing == AnchoredOff({}) = Anchored
<1>1. \A S : Closed(S) <=> ClosedOff(S, {})
  BY DEF Closed, ClosedOff
<1>2. QED
  BY <1>1 DEF Anchored, AnchoredOff

LEMMA OffUnchanged ==
    ASSUME active' = active
    PROVE  \A path : AnchoredOff(path)' = AnchoredOff(path)
BY DEF AnchoredOff, ClosedOff, Holds, Active

LEMMA PathUnchanged ==
    ASSUME NEW n \in Nat, \A k \in 1 .. n : stack'[k].who = stack[k].who
    PROVE  \A k \in 1 .. n : Path(k)' = Path(k)
BY DEF Path

LEMMA StillUnhindered ==
    ASSUME active' = active, counter \in Nat, counter' \in Nat, counter <= counter'
    PROVE  Unhindered' => Unhindered
<1>1. Active' = Active
  BY DEF Active
<1>2. counter' <= MaxVisited => counter <= MaxVisited
  BY EngineAssumption
<1>3. QED
  BY <1>1, <1>2, Zenon DEF Unhindered

(* The issuers on the path are different, and none is an anchor: the depth   *)
(* does not refuse the next one.                                             *)
LEMMA DepthSuffices ==
    ASSUME EngineInv, PathIsSimple, Unhindered, Looking, ~ Known,
           Candidate.issuer \notin Visited
    PROVE  Depth < MaxDepth
<1> DEFINE n == Len(stack)
           Issuers == {t.issuer : t \in Active}
           f == [k \in 1 .. n |-> IF k = n THEN Candidate.issuer ELSE stack[k + 1].who]
<1>1. /\ stack \in Seq(Frame) /\ n \in Nat \ {0}
      /\ active \in Seq(Permission) /\ Len(active) \in Nat
      /\ \A k \in 1 .. n : stack[k].next \in 1 .. Len(active) + 1
      /\ stack[n].next \in 1 .. Len(active)
  <2>1. /\ stack \in Seq(Frame) /\ n \in Nat \ {0}
        /\ active \in Seq(Permission) /\ Len(active) \in Nat
        /\ stack[n].next <= Len(active)
    BY DEF EngineInv, TypeOK, Looking, Top, Last
  <2>2. \A k \in 1 .. n : stack[k].next \in Nat \ {0}
    <3>1. \A k \in 1 .. n : stack[k] \in Frame
      BY <2>1
    <3>2. QED
      BY <3>1 DEF Frame
  <2>3. \A k \in 1 .. n : stack[k].next <= Len(active) + 1
    BY DEF EngineInv, Nested
  <2>4. QED
    BY <2>1, <2>2, <2>3
<1>2. IsFiniteSet(Issuers \ Root)
  <2>1. /\ IsFiniteSet(1 .. Len(active))
        /\ [i \in 1 .. Len(active) |-> active[i].issuer]
             \in Surjection(1 .. Len(active), Issuers)
    <3>1. IsFiniteSet(1 .. Len(active))
      BY <1>1, FS_Interval
    <3>2. QED
      BY <3>1 DEF Surjection, Active
  <2>2. IsFiniteSet(Issuers)
    BY <2>1, FS_Surjection
  <2>3. QED
    BY <2>2, FS_Subset
<1>3. \A k \in 1 .. n : f[k] \in Issuers \ Root
  <2>1. Candidate \in Active /\ Candidate.issuer \notin Root
    BY <1>1 DEF Candidate, Top, Last, Active, Known
  <2>2. ASSUME NEW k \in 1 .. n, k # n
        PROVE  stack[k + 1].who \in Issuers \ Root
    <3>1. k + 1 \in 1 .. Len(stack) /\ k + 1 > 1 /\ (k + 1) - 1 = k
      BY <2>2, <1>1
    <3>2. /\ stack[k + 1].who \notin Root /\ stack[k].next <= Len(active)
          /\ stack[k + 1].who = active[stack[k].next].issuer
      BY <3>1 DEF EngineInv, Nested
    <3>3. active[stack[k].next] \in Active
      BY <3>2, <1>1 DEF Active
    <3>4. QED
      BY <3>2, <3>3
  <2>3. QED
    BY <2>1, <2>2
<1>4. \A j, k \in 1 .. n : j < k => f[j] # f[k]
  <2>1. SUFFICES ASSUME NEW j \in 1 .. n, NEW k \in 1 .. n, j < k
                 PROVE  f[j] # f[k]
    OBVIOUS
  <2>2. f[j] = stack[j + 1].who /\ j + 1 \in 2 .. k
    BY <2>1, <1>1
  <2>3. f[j] \in Path(k)
    BY <2>2 DEF Path
  <2>4. CASE k = n
    BY <2>3, <2>4 DEF Path, Visited, Last
  <2>5. CASE k # n
    <3>1. k + 1 \in 2 .. Len(stack) /\ (k + 1) - 1 = k
      BY <2>1, <2>5, <1>1
    <3>2. stack[k + 1].who \notin Path(k)
      BY <3>1 DEF PathIsSimple
    <3>3. QED
      BY <3>2, <2>3, <2>5
  <2>6. QED
    BY <2>4, <2>5
<1>5. f \in Injection(1 .. n, Issuers \ Root)
  <2>1. \A j, k \in 1 .. n : f[j] = f[k] => j = k
    <3>1. SUFFICES ASSUME NEW j \in 1 .. n, NEW k \in 1 .. n, j # k
                   PROVE  f[j] # f[k]
      OBVIOUS
    <3>2. j < k \/ k < j
      BY <3>1
    <3>3. QED
      BY <3>2, <1>4, Zenon
  <2>2. f \in [1 .. n -> Issuers \ Root]
    BY <1>3
  <2>3. QED
    BY <2>1, <2>2 DEF Injection, IsInjective
<1>6. Cardinality(1 .. n) = n
  BY <1>1, FS_Interval
<1>7. Cardinality(1 .. n) <= Cardinality(Issuers \ Root)
  <2> DEFINE S == 1 .. n
             T == Issuers \ Root
  <2>1. f \in Injection(S, T) /\ IsFiniteSet(T)
    BY <1>2, <1>5
  <2> HIDE DEF f, S, T
  <2>2. Cardinality(S) <= Cardinality(T)
    BY <2>1, FS_Injection
  <2>3. QED
    BY <2>2 DEF S, T
<1>8. Cardinality(Issuers \ Root) <= MaxDepth /\ Cardinality(Issuers \ Root) \in Nat
  BY <1>2, FS_CardinalityType DEF Unhindered
<1> HIDE DEF Issuers
<1>9. QED
  BY <1>1, <1>6, <1>7, <1>8, EngineAssumption DEF Depth, Last

LEMMA InitExact == Init => ExactInv
BY DEF Init, ExactInv, PathIsSimple, DenialsAreAnchored, NothingMissed,
       VerdictIsExact

(* Between evaluations no call is pending and there is no verdict.           *)
LEMMA IdleExact ==
    ASSUME stack' = <<>>, verdict' = "none"
    PROVE  ExactInv'
BY DEF ExactInv, PathIsSimple, DenialsAreAnchored, NothingMissed,
       VerdictIsExact

LEMMA AskExact ==
    ASSUME EngineInv, NEW grantee, NEW relation, Ask(grantee, relation)
    PROVE  ExactInv'
<1>1. Len(stack') = 1 /\ stack'[1] = Call(grantee, relation) /\ verdict' = "pending"
  BY DEF Ask
<1>2. QED
  BY <1>1 DEF ExactInv, PathIsSimple, DenialsAreAnchored, NothingMissed,
              VerdictIsExact, Call

(* A call that has settled the authority of its candidate's issuer: valid    *)
(* is TRUE for whoever has authority off the path of the call.               *)
LEMMA ExactSettling ==
    ASSUME EngineInv, ExactInv, UNCHANGED <<active, request, verdict>>,
           NEW n \in 1 .. Len(stack), NEW valid \in BOOLEAN,
           stack[n].next <= Len(active),
           Matches(stack[n], active[stack[n].next]),
           valid => active[stack[n].next].issuer \in Anchored,
           Unhindered' => Unhindered,
           (Unhindered' /\ active[stack[n].next].issuer \in AnchoredOff(Path(n)))
              => valid,
           stack' \in Seq(Frame), Len(stack') = n,
           \A k \in 1 .. n - 1 : stack'[k] = stack[k],
           stack'[n] = Decided(stack[n], active[stack[n].next], valid)
    PROVE  ExactInv'
<1> DEFINE old == stack[n]
           new == stack'[n]
           t == active[old.next]
<1>1. /\ old \in Frame /\ t \in Tuple /\ old.next \in 1 .. Len(active)
      /\ stack \in Seq(Frame) /\ n \in Nat /\ Len(stack) \in Nat
      /\ Len(active) \in Nat
  <2>1. stack \in Seq(Frame) /\ active \in Seq(Permission)
    BY DEF EngineInv, TypeOK
  <2>2. old \in Frame
    BY <2>1
  <2>3. old.next \in 1 .. Len(active)
    BY <2>1, <2>2 DEF Frame
  <2>4. t \in Tuple
    BY <2>1, <2>3, EngineAssumption
  <2>5. QED
    BY <2>1, <2>2, <2>3, <2>4
<1>2. /\ new.who = old.who /\ new.relation = old.relation
      /\ new.next = old.next + 1
      /\ new.deny = (old.deny \/ (valid /\ t.relation = Denial(old.relation)))
      /\ new.allow = (old.allow \/ (valid /\ t.relation = old.relation))
  BY <1>1 DEF Decided, Frame
<1>3. /\ t.grantee = old.who /\ t \in Active
      /\ valid => t.issuer \in Anchored
      /\ (Unhindered' /\ t.issuer \in AnchoredOff(Path(n))) => valid
  BY <1>1 DEF Matches, Active
<1> HIDE DEF old, new, t
<1>4. \A k \in 1 .. n : stack'[k].who = stack[k].who
  BY <1>2 DEF old, new
<1>5. \A k \in 1 .. n : Path(k)' = Path(k)
  BY <1>1, <1>4, PathUnchanged
<1>6. PathIsSimple'
  <2>1. SUFFICES ASSUME NEW k \in 2 .. n
                 PROVE  stack'[k].who \notin Path(k - 1)'
    BY DEF PathIsSimple
  <2>2. Path(k - 1)' = Path(k - 1) /\ stack'[k].who = stack[k].who
    BY <1>1, <1>4, <1>5
  <2>3. QED
    BY <2>2, <1>1 DEF ExactInv, PathIsSimple
<1>7. DenialsAreAnchored'
  <2>1. SUFFICES ASSUME NEW k \in 1 .. n, stack'[k].deny
                 PROVE  Holds(stack'[k].who, Denial(stack'[k].relation), Anchored)
    BY MeaningUnchanged DEF DenialsAreAnchored
  <2>2. CASE k < n
    BY <2>1, <2>2 DEF ExactInv, DenialsAreAnchored
  <2>3. CASE k = n /\ old.deny
    BY <2>3, <1>2 DEF ExactInv, DenialsAreAnchored, old, new
  <2>4. CASE k = n /\ ~ old.deny
    <3>1. valid /\ t.relation = Denial(old.relation)
      BY <2>1, <2>4, <1>2 DEF new
    <3>2. QED
      BY <2>4, <3>1, <1>2, <1>3 DEF Holds, new
  <2>5. QED
    BY <2>1, <2>2, <2>3, <2>4
<1>8. NothingMissed'
  <2>1. SUFFICES ASSUME Unhindered', NEW k \in 1 .. n, NEW i \in 1 .. Len(active),
                        i < stack'[k].next,
                        active[i].grantee = stack'[k].who,
                        active[i].issuer \in AnchoredOff(Path(k))
                 PROVE  /\ active[i].relation = stack'[k].relation
                              => stack'[k].allow
                        /\ active[i].relation = Denial(stack'[k].relation)
                              => stack'[k].deny
    BY <1>5, OffUnchanged DEF NothingMissed
  <2>2. Unhindered
    BY <2>1
  <2>3. CASE k < n
    BY <2>1, <2>2, <2>3 DEF ExactInv, NothingMissed
  <2>4. CASE k = n /\ i < old.next
    <3>1. /\ active[i].relation = old.relation => old.allow
          /\ active[i].relation = Denial(old.relation) => old.deny
      BY <2>1, <2>2, <2>4, <1>2 DEF ExactInv, NothingMissed, old, new
    <3>2. QED
      BY <3>1, <2>4, <1>2 DEF new
  <2>5. CASE k = n /\ i = old.next
    <3>1. valid
      BY <2>1, <2>5, <1>3 DEF t
    <3>2. QED
      BY <3>1, <2>5, <1>2 DEF new, t
  <2>6. QED
    BY <2>1, <2>3, <2>4, <2>5, <1>1, <1>2 DEF new
<1>9. VerdictIsExact'
  <2>1. stack # <<>>
    BY <1>1
  <2>2. verdict' = "pending"
    BY <2>1 DEF EngineInv, ForRequest
  <2>3. QED
    BY <2>2 DEF VerdictIsExact
<1>10. QED
  BY <1>6, <1>7, <1>8, <1>9 DEF ExactInv

(* A candidate that does not match is no reason to allow or to deny.         *)
LEMMA SkipExact ==
    ASSUME EngineInv, ExactInv, Skip
    PROVE  ExactInv'
<1> DEFINE n == Len(stack)
           top == stack[n]
<1>1. /\ stack \in Seq(Frame) /\ n \in Nat \ {0} /\ top \in Frame
      /\ Len(active) \in Nat /\ stack # <<>>
      /\ active' = active /\ counter' = counter /\ verdict' = verdict
  BY DEF EngineInv, TypeOK, Skip, Looking, Top, Last
<1>2. /\ Len(stack') = n
      /\ \A k \in 1 .. n : k # n => stack'[k] = stack[k]
      /\ stack'[n] = [top EXCEPT !.next = @ + 1]
  BY <1>1 DEF Skip, Last
<1>3. /\ stack'[n].who = top.who /\ stack'[n].relation = top.relation
      /\ stack'[n].deny = top.deny /\ stack'[n].allow = top.allow
      /\ stack'[n].next = top.next + 1
  BY <1>1, <1>2 DEF Frame
<1>4. ~ Matches(top, active[top.next])
  BY DEF Skip, Top, Last, Candidate
<1> HIDE DEF top
<1>5. \A k \in 1 .. n : /\ stack'[k].who = stack[k].who
                        /\ stack'[k].relation = stack[k].relation
                        /\ stack'[k].deny = stack[k].deny
                        /\ stack'[k].allow = stack[k].allow
  BY <1>2, <1>3 DEF top
<1>6. \A k \in 1 .. n : Path(k)' = Path(k)
  BY <1>1, <1>5, PathUnchanged
<1> HIDE DEF n
<1>7. PathIsSimple'
  <2>1. SUFFICES ASSUME NEW k \in 2 .. n
                 PROVE  stack'[k].who \notin Path(k - 1)'
    BY <1>2 DEF PathIsSimple
  <2>2. Path(k - 1)' = Path(k - 1) /\ stack'[k].who = stack[k].who
    BY <1>1, <1>5, <1>6
  <2>3. QED
    BY <2>2, <1>1 DEF ExactInv, PathIsSimple, n
<1>8. DenialsAreAnchored'
  BY <1>1, <1>2, <1>5, MeaningUnchanged DEF ExactInv, DenialsAreAnchored, n
<1>9. NothingMissed'
  <2>1. SUFFICES ASSUME Unhindered', NEW k \in 1 .. n, NEW i \in 1 .. Len(active),
                        i < stack'[k].next,
                        active[i].grantee = stack'[k].who,
                        active[i].issuer \in AnchoredOff(Path(k))
                 PROVE  /\ active[i].relation = stack'[k].relation
                              => stack'[k].allow
                        /\ active[i].relation = Denial(stack'[k].relation)
                              => stack'[k].deny
    BY <1>1, <1>2, <1>6, OffUnchanged DEF NothingMissed
  <2>2. Unhindered
    BY <2>1, <1>1, StillUnhindered DEF EngineInv, TypeOK
  <2>3. CASE i < stack[k].next
    <3>1. /\ active[i].relation = stack[k].relation => stack[k].allow
          /\ active[i].relation = Denial(stack[k].relation) => stack[k].deny
      BY <2>1, <2>2, <2>3, <1>5 DEF ExactInv, NothingMissed, n
    <3>2. QED
      BY <3>1, <1>5
  <2>4. CASE k = n /\ i = top.next
    BY <2>1, <2>4, <1>3, <1>4 DEF Matches
  <2>5. QED
    <3>1. CASE k # n
      BY <3>1, <2>1, <2>3, <1>2
    <3>2. CASE k = n
      <4>1. top.next \in Int /\ stack[k].next = top.next
        BY <3>2, <1>1 DEF Frame, top
      <4>2. QED
        BY <3>2, <4>1, <2>1, <2>3, <2>4, <1>3
    <3>3. QED
      BY <3>1, <3>2
<1>10. VerdictIsExact'
  <2>1. verdict' = "pending"
    BY <1>1 DEF EngineInv, ForRequest
  <2>2. QED
    BY <2>1 DEF VerdictIsExact
<1>11. QED
  BY <1>7, <1>8, <1>9, <1>10 DEF ExactInv

LEMMA ExamineExact ==
    ASSUME EngineInv, ExactInv, NEW valid \in BOOLEAN, Looking,
           Matches(Top, Candidate), Examine(valid),
           counter' \in Nat, counter <= counter',
           valid => Candidate.issuer \in Anchored,
           (Unhindered' /\ Candidate.issuer \in AnchoredOff(Path(Last))) => valid
    PROVE  ExactInv'
<1> DEFINE n == Len(stack)
<1>1. /\ stack \in Seq(Frame) /\ n \in 1 .. Len(stack) /\ stack[n] \in Frame
      /\ active \in Seq(Permission) /\ stack[n].next <= Len(active)
      /\ Matches(stack[n], active[stack[n].next])
      /\ UNCHANGED <<active, request, verdict>> /\ counter \in Nat
  BY DEF EngineInv, TypeOK, Looking, Top, Last, Candidate, Examine
<1>2. Decided(stack[n], active[stack[n].next], valid) \in Frame
  BY <1>1, DecidedIsFrame
<1>3. stack' = [stack EXCEPT
                  ![n] = Decided(stack[n], active[stack[n].next], valid)]
  BY DEF Examine, Last, Candidate, Top
<1>4. /\ stack' \in Seq(Frame) /\ Len(stack') = n
      /\ \A k \in 1 .. n - 1 : stack'[k] = stack[k]
      /\ stack'[n] = Decided(stack[n], active[stack[n].next], valid)
  BY <1>1, <1>2, <1>3
<1>5. /\ valid => active[stack[n].next].issuer \in Anchored
      /\ (Unhindered' /\ active[stack[n].next].issuer \in AnchoredOff(Path(n)))
            => valid
  BY DEF Candidate, Top, Last
<1>6. Unhindered' => Unhindered
  BY <1>1, StillUnhindered
<1> HIDE DEF n
<1>7. QED
  BY <1>1, <1>4, <1>5, <1>6, ExactSettling

(* A refusal is right when nothing hinders the evaluation: the issuer is on  *)
(* the path already.                                                         *)
LEMMA RefuseExact ==
    ASSUME EngineInv, ExactInv, Refuse
    PROVE  ExactInv'
<1>1. /\ Looking /\ Matches(Top, Candidate) /\ Examine(FALSE) /\ Refused
      /\ ~ Known /\ counter' = counter /\ counter \in Nat /\ active' = active
      /\ Last \in Nat
  BY DEF Refuse, Refused, EngineInv, TypeOK, Examine, Last
<1>2. ASSUME Unhindered', Candidate.issuer \in AnchoredOff(Path(Last))
      PROVE  FALSE
  <2>1. Unhindered
    BY <1>1, <1>2, StillUnhindered
  <2>2. Candidate.issuer \notin Path(Last)
    BY <1>1, <1>2, OnThePath DEF Known
  <2>3. Candidate.issuer \notin Visited
    BY <2>2 DEF Visited, Path
  <2>4. Depth < MaxDepth
    BY <1>1, <2>1, <2>3, DepthSuffices DEF ExactInv
  <2>5. QED
    BY <1>1, <2>3, <2>4, EngineAssumption DEF Refused, Depth
<1>3. counter' \in Nat /\ counter <= counter'
  BY <1>1
<1>4. QED
  BY <1>1, <1>2, <1>3, ExamineExact, Zenon

LEMMA RecurseExact ==
    ASSUME EngineInv, ExactInv, Recurse
    PROVE  ExactInv'
<1> DEFINE n == Len(stack)
           call == Call(Candidate.issuer, "admin")
<1>1. /\ stack \in Seq(Frame) /\ n \in Nat \ {0} /\ Len(active) \in Nat
      /\ counter \in Nat /\ counter' = counter + 1
      /\ active' = active /\ verdict' = verdict /\ stack # <<>>
  BY DEF EngineInv, TypeOK, Recurse, Looking, Last
<1>2. /\ Len(stack') = n + 1
      /\ \A k \in 1 .. n : stack'[k] = stack[k]
      /\ stack'[n + 1] = call
  BY <1>1 DEF Recurse
<1>3. /\ call.who = Candidate.issuer /\ call.next = 1 /\ call.deny = FALSE
      /\ Candidate.issuer \notin Path(n)
  BY DEF Call, Recurse, Refused, Visited, Path, Last
<1>4. \A k \in 1 .. n : Path(k)' = Path(k)
  BY <1>1, <1>2, PathUnchanged
<1> HIDE DEF n, call
<1>5. PathIsSimple'
  <2>1. SUFFICES ASSUME NEW k \in 2 .. n + 1
                 PROVE  stack'[k].who \notin Path(k - 1)'
    BY <1>2 DEF PathIsSimple
  <2>2. Path(k - 1)' = Path(k - 1)
    BY <1>1, <1>4
  <2>3. CASE k = n + 1
    BY <2>2, <2>3, <1>1, <1>2, <1>3
  <2>4. CASE k # n + 1
    <3>1. k \in 2 .. n
      BY <2>4, <1>1
    <3>2. QED
      BY <3>1, <2>2, <1>1, <1>2 DEF ExactInv, PathIsSimple, n
  <2>5. QED
    BY <2>3, <2>4
<1>6. DenialsAreAnchored'
  <2>1. SUFFICES ASSUME NEW k \in 1 .. n + 1, stack'[k].deny
                 PROVE  Holds(stack'[k].who, Denial(stack'[k].relation), Anchored)
    BY <1>1, <1>2, MeaningUnchanged DEF DenialsAreAnchored
  <2>2. k \in 1 .. n
    BY <2>1, <1>1, <1>2, <1>3
  <2>3. QED
    BY <2>1, <2>2, <1>2 DEF ExactInv, DenialsAreAnchored, n
<1>7. NothingMissed'
  <2>1. SUFFICES ASSUME Unhindered', NEW k \in 1 .. n + 1, NEW i \in 1 .. Len(active),
                        i < stack'[k].next,
                        active[i].grantee = stack'[k].who,
                        active[i].issuer \in AnchoredOff(Path(k)')
                 PROVE  /\ active[i].relation = stack'[k].relation
                              => stack'[k].allow
                        /\ active[i].relation = Denial(stack'[k].relation)
                              => stack'[k].deny
    BY <1>1, <1>2, OffUnchanged DEF NothingMissed
  <2>2. Unhindered
    BY <2>1, <1>1, StillUnhindered
  <2>3. k \in 1 .. n
    BY <2>1, <1>1, <1>2, <1>3
  <2>4. Path(k)' = Path(k) /\ stack'[k] = stack[k]
    BY <2>3, <1>2, <1>4
  <2>5. QED
    BY <2>1, <2>2, <2>3, <2>4 DEF ExactInv, NothingMissed, n
<1>8. VerdictIsExact'
  <2>1. verdict' = "pending"
    BY <1>1 DEF EngineInv, ForRequest
  <2>2. QED
    BY <2>1 DEF VerdictIsExact
<1>9. QED
  BY <1>5, <1>6, <1>7, <1>8 DEF ExactInv

(* A call that ends has missed nothing that it looked for.                   *)
LEMMA FinishedExact ==
    ASSUME EngineInv, ExactInv, Finished, Unhindered
    PROVE  /\ Holds(Top.who, Top.relation, AnchoredOff(Path(Last))) => Top.allow
           /\ Holds(Top.who, Denial(Top.relation), AnchoredOff(Path(Last)))
                => Top.deny
<1>1. /\ stack \in Seq(Frame) /\ Last \in 1 .. Len(stack) /\ Top = stack[Last]
      /\ Top.next > Len(active) /\ Top \in Frame /\ Len(active) \in Nat
  BY DEF EngineInv, TypeOK, Finished, Top, Last
<1>2. Top.next \in Nat
  BY <1>1 DEF Frame
<1>3. ASSUME NEW relation, Holds(Top.who, relation, AnchoredOff(Path(Last)))
      PROVE  \E i \in 1 .. Len(active) :
                /\ i < Top.next
                /\ active[i].grantee = Top.who /\ active[i].relation = relation
                /\ active[i].issuer \in AnchoredOff(Path(Last))
  BY <1>1, <1>2, <1>3 DEF Holds, Active
<1>4. QED
  BY <1>1, <1>3 DEF ExactInv, NothingMissed

LEMMA ReturnExact ==
    ASSUME EngineInv, ExactInv, Return
    PROVE  ExactInv'
<1> DEFINE n == Len(stack) - 1
           valid == Allows(Top)
<1>1. /\ stack \in Seq(Frame) /\ n \in 1 .. Len(stack) /\ n \in Nat
      /\ n + 1 = Last /\ n + 1 \in 1 .. Len(stack) /\ stack[n] \in Frame
      /\ Top = stack[n + 1] /\ Top \in Frame
      /\ active \in Seq(Permission) /\ counter \in Nat
      /\ UNCHANGED <<active, counter, request, verdict>>
  BY DEF EngineInv, TypeOK, Return, Finished, Top, Last
<1>2. /\ Top.relation = "admin" /\ Top.who \notin Root /\ Top.who \in Identity
      /\ stack[n].next <= Len(active)
      /\ Top.who = active[stack[n].next].issuer
      /\ Matches(stack[n], active[stack[n].next])
  <2>1. n + 1 > 1 /\ (n + 1) - 1 = n
    BY <1>1
  <2>2. /\ stack[n + 1].relation = "admin" /\ stack[n + 1].who \notin Root
        /\ stack[(n + 1) - 1].next <= Len(active)
        /\ stack[n + 1].who = active[stack[(n + 1) - 1].next].issuer
        /\ Matches(stack[(n + 1) - 1], active[stack[(n + 1) - 1].next])
    <3> HIDE DEF n
    <3>1. QED
      BY <1>1, <2>1 DEF EngineInv, Nested
  <2>3. Top.who \in Identity
    BY <1>1 DEF Frame
  <2>4. QED
    <3> HIDE DEF n
    <3>1. QED
      BY <1>1, <2>1, <2>2, <2>3
<1>3. valid \in BOOLEAN
  BY <1>1 DEF Allows, Frame
<1>4. valid => Top.who \in Anchored
  BY <1>2, FinishedCall, AnchoredClosed DEF Return, Denial
<1>5. Unhindered' => Unhindered
  BY <1>1, StillUnhindered
<1>6. ASSUME Unhindered, Top.who \in AnchoredOff(Path(n))
      PROVE  valid
  <2>1. Path(Last) = Path(n) \cup {Top.who}
    BY <1>1 DEF Path
  <2>2. /\ Holds(Top.who, "admin", AnchoredOff(Path(Last)))
        /\ ~ Holds(Top.who, "-admin", Root)
    BY <1>2, <1>6, <2>1, GrantedOffThePath
  <2>3. Top.allow
    BY <1>2, <1>6, <2>2, FinishedExact DEF Return
  <2>4. ~ Top.deny
    <3>1. ~ Holds(Top.who, "-admin", Anchored)
      BY <1>6, <2>2 DEF Unhindered, Holds
    <3>2. QED
      BY <1>1, <1>2, <3>1 DEF ExactInv, DenialsAreAnchored, Denial
  <2>5. QED
    BY <2>3, <2>4 DEF Allows
<1>7. Decided(stack[n], active[stack[n].next], valid) \in Frame
  BY <1>1, <1>3, DecidedIsFrame
<1>8. /\ stack' \in Seq(Frame) /\ Len(stack') = n
      /\ \A k \in 1 .. n - 1 : stack'[k] = stack[k]
      /\ stack'[n] = Decided(stack[n], active[stack[n].next], valid)
  <2>1. stack' = [SubSeq(stack, 1, n) EXCEPT
                    ![n] = Decided(stack[n], active[stack[n].next], valid)]
    BY DEF Return, Last
  <2>2. QED
    BY <1>1, <1>7, <2>1, PopAndReplace
<1> HIDE DEF n, valid
<1>9. QED
  BY <1>1, <1>2, <1>3, <1>4, <1>5, <1>6, <1>8, ExactSettling

LEMMA AnswerExact ==
    ASSUME EngineInv, ExactInv, Answer
    PROVE  ExactInv'
<1>1. /\ stack # <<>> /\ Last = 1 /\ Top = stack[1] /\ active' = active
      /\ stack' = <<>> /\ request' = request /\ counter' = counter
      /\ counter \in Nat /\ 1 \in 1 .. Len(stack) /\ Finished
      /\ verdict' = IF Allows(Top) THEN "allow" ELSE "deny"
  BY DEF Answer, Finished, Top, Last, EngineInv, TypeOK
<1>2. PathIsSimple' /\ DenialsAreAnchored' /\ NothingMissed'
  BY <1>1 DEF PathIsSimple, DenialsAreAnchored, NothingMissed
<1>3. /\ Top.who = request.grantee /\ Top.relation = request.relation
  BY <1>1 DEF EngineInv, ForRequest
<1>4. ASSUME Unhindered'
      PROVE  Allows(Top) <=> /\ Holds(Top.who, Top.relation, Anchored)
                             /\ ~ Holds(Top.who, Denial(Top.relation), Anchored)
  <2>1. Unhindered
    BY <1>1, <1>4, StillUnhindered
  <2>2. Path(Last) = {}
    BY <1>1 DEF Path
  <2>3. AnchoredOff(Path(Last)) = Anchored
    BY <2>2, AnchoredOffNothing
  <2>4. /\ Holds(Top.who, Top.relation, Anchored) => Top.allow
        /\ Holds(Top.who, Denial(Top.relation), Anchored) => Top.deny
    BY <1>1, <2>1, <2>3, FinishedExact
  <2>5. /\ Top.allow => Holds(Top.who, Top.relation, Anchored)
        /\ Top.deny => Holds(Top.who, Denial(Top.relation), Anchored)
    BY <1>1 DEF EngineInv, FoundIsAnchored, ExactInv, DenialsAreAnchored
  <2>6. QED
    BY <2>4, <2>5 DEF Allows
<1>5. VerdictIsExact'
  BY <1>1, <1>3, <1>4, MeaningUnchanged DEF VerdictIsExact
<1>6. QED
  BY <1>2, <1>5 DEF ExactInv

LEMMA StutterExact ==
    ASSUME ExactInv, UNCHANGED vars
    PROVE  ExactInv'
<1>1. /\ active' = active /\ stack' = stack /\ counter' = counter
      /\ request' = request /\ verdict' = verdict
  BY DEF vars
<1>2. Unhindered' = Unhindered /\ \A k : Path(k)' = Path(k)
  BY <1>1 DEF Unhindered, Path, Active
<1>3. PathIsSimple'
  BY <1>1, <1>2 DEF ExactInv, PathIsSimple
<1>4. NothingMissed'
  BY <1>1, <1>2, OffUnchanged DEF ExactInv, NothingMissed
<1>5. DenialsAreAnchored' /\ VerdictIsExact'
  BY <1>1, <1>2, MeaningUnchanged
     DEF ExactInv, DenialsAreAnchored, VerdictIsExact
<1>6. QED
  BY <1>3, <1>4, <1>5 DEF ExactInv

(* Where only anchors deny admin and the bounds do not show, the verdict is  *)
(* what delegation means, for any cycle, order and memo (engine.js           *)
(* evaluateHashes).                                                          *)
THEOREM EngineExact == Spec => []VerdictIsExact
<1>1. ASSUME EngineInv, ExactInv, [Next]_vars
      PROVE  ExactInv'
  <2>1. CASE \E t \in Permission : Activate(t)
    BY <1>1, <2>1, IdleExact DEF Activate
  <2>2. CASE \E k \in 1 .. Len(active) : Deactivate(k)
    BY <1>1, <2>2, IdleExact DEF Deactivate
  <2>3. CASE \E grantee \in Identity, relation \in {"read", "admin"} :
                Ask(grantee, relation)
    BY <1>1, <2>3, AskExact
  <2>4. CASE Skip
    BY <1>1, <2>4, SkipExact
  <2>5. CASE Confirm
    <3>1. Candidate.issuer \in Anchored
      BY <1>1, <2>5, RootAnchored DEF Confirm, Known, EngineInv, MemoAnchored
    <3>2. counter' \in Nat /\ counter <= counter'
      BY <1>1, <2>5 DEF Confirm, EngineInv, TypeOK
    <3>3. Looking /\ Matches(Top, Candidate) /\ Examine(TRUE)
      BY <2>5 DEF Confirm
    <3>4. QED
      BY <1>1, <3>1, <3>2, <3>3, ExamineExact, Zenon
  <2>6. CASE Refuse
    BY <1>1, <2>6, RefuseExact
  <2>7. CASE Overrun
    <3>1. counter' \in Nat /\ counter <= counter' /\ ~ (counter' <= MaxVisited)
      BY <1>1, <2>7, EngineAssumption DEF Overrun, EngineInv, TypeOK
    <3>2. ~ Unhindered'
      BY <3>1 DEF Unhindered
    <3>3. Looking /\ Matches(Top, Candidate) /\ Examine(FALSE)
      BY <2>7 DEF Overrun
    <3>4. QED
      BY <1>1, <3>1, <3>2, <3>3, ExamineExact, Zenon
  <2>8. CASE Recurse
    BY <1>1, <2>8, RecurseExact
  <2>9. CASE Return
    BY <1>1, <2>9, ReturnExact
  <2>10. CASE Answer
    BY <1>1, <2>10, AnswerExact
  <2>11. CASE UNCHANGED vars
    BY <1>1, <2>11, StutterExact
  <2>12. QED
    BY <1>1, <2>1, <2>2, <2>3, <2>4, <2>5, <2>6, <2>7, <2>8, <2>9, <2>10, <2>11
       DEF Next, Evaluate
<1>2. ExactInv => VerdictIsExact
  BY DEF ExactInv
<1>3. QED
  BY <1>1, <1>2, InitExact, EngineInductive, PTL DEF Spec

------------------------------------------------------------------------------
(* Termination.  A call that moves to its next candidate, and the calls      *)
(* above it that are gone, leave less to do.                                 *)
LEMMA LessToDo ==
    ASSUME active' = active, Len(active) \in Nat, Len(stack) \in Nat,
           NEW n \in 1 .. Len(stack), Len(stack') = n,
           stack[n].next \in 1 .. Len(active) + 1,
           \A k \in 1 .. n - 1 : stack'[k].next = stack[k].next,
           stack'[n].next = stack[n].next + 1
    PROVE  Pending' \subseteq Pending /\ Pending' # Pending
<1>1. ASSUME NEW k \in 1 .. n,
             NEW i \in stack'[k].next .. Len(active) + 1
      PROVE  /\ k \in 1 .. Len(stack) /\ i \in stack[k].next .. Len(active) + 1
             /\ <<k, i>> # <<n, stack[n].next>>
  <2>1. CASE k = n
    BY <2>1, <1>1
  <2>2. CASE k # n
    BY <2>2, <1>1
  <2>3. QED
    BY <2>1, <2>2
<1>2. ASSUME NEW p \in Pending'
      PROVE  p \in Pending /\ p # <<n, stack[n].next>>
  <2>1. PICK k \in 1 .. n : p \in {k} \X (stack'[k].next .. Len(active) + 1)
    BY <1>2 DEF Pending
  <2>2. PICK i \in stack'[k].next .. Len(active) + 1 : p = <<k, i>>
    BY <2>1
  <2>3. QED
    BY <2>2, <1>1 DEF Pending
<1>3. <<n, stack[n].next>> \in Pending
  BY DEF Pending
<1>4. QED
  BY <1>2, <1>3

LEMMA EvaluateShrinks ==
    ASSUME EngineInv, Evaluate
    PROVE  \/ counter < counter' /\ counter' <= MaxVisited
           \/ /\ counter <= counter'
              /\ Pending' \subseteq Pending /\ Pending' # Pending
<1> DEFINE n == Len(stack)
<1>1. /\ stack \in Seq(Frame) /\ n \in Nat \ {0} /\ stack # <<>>
      /\ Len(active) \in Nat /\ active' = active /\ counter \in Nat
      /\ active \in Seq(Permission)
  <2>1. stack # <<>>
    BY DEF Evaluate, Skip, Confirm, Refuse, Overrun, Recurse, Return, Answer,
           Looking, Finished
  <2>2. active' = active
    BY DEF Evaluate, Skip, Confirm, Refuse, Overrun, Recurse, Return, Answer,
           Examine
  <2>3. QED
    BY <2>1, <2>2 DEF EngineInv, TypeOK
<1>2. \A k \in 1 .. n : stack[k] \in Frame /\ stack[k].next \in 1 .. Len(active) + 1
  <2>1. \A k \in 1 .. n : stack[k] \in Frame /\ stack[k].next <= Len(active) + 1
    BY <1>1 DEF EngineInv, Nested
  <2>2. \A k \in 1 .. n : stack[k].next \in Nat \ {0}
    BY <2>1 DEF Frame
  <2>3. QED
    BY <1>1, <2>1, <2>2
<1>3. ASSUME NEW k \in 1 .. n, NEW t, NEW valid
      PROVE  Decided(stack[k], t, valid).next = stack[k].next + 1
  BY <1>2 DEF Decided, Frame
<1>4. CASE Skip
  <2>1. stack' = [stack EXCEPT ![n].next = @ + 1]
    BY <1>4 DEF Skip, Last
  <2>2. /\ Len(stack') = n /\ stack'[n].next = stack[n].next + 1
        /\ \A k \in 1 .. n - 1 : stack'[k].next = stack[k].next
    BY <1>1, <1>2, <2>1 DEF Frame
  <2>3. QED
    BY <1>1, <1>2, <1>4, <2>2, LessToDo DEF Skip
<1>5. ASSUME NEW valid, Examine(valid), counter <= counter'
      PROVE  counter <= counter' /\ Pending' \subseteq Pending /\ Pending' # Pending
  <2>1. stack' = [stack EXCEPT ![n] = Decided(stack[n], Candidate, valid)]
    BY <1>5 DEF Examine, Last
  <2>2. Decided(stack[n], Candidate, valid).next = stack[n].next + 1
    BY <1>1, <1>3
  <2>3. /\ Len(stack') = n /\ stack'[n].next = stack[n].next + 1
        /\ \A k \in 1 .. n - 1 : stack'[k].next = stack[k].next
    BY <1>1, <2>1, <2>2
  <2>4. QED
    BY <1>1, <1>2, <1>5, <2>3, LessToDo
<1>6. CASE Confirm \/ Refuse \/ Overrun
  <2>1. \E valid \in BOOLEAN : Examine(valid)
    BY <1>6 DEF Confirm, Refuse, Overrun
  <2>2. counter' = counter \/ counter' = counter + 1
    BY <1>6, Zenon DEF Confirm, Refuse, Overrun
  <2>3. counter <= counter'
    BY <1>1, <2>2
  <2>4. QED
    BY <2>1, <2>3, <1>5
<1>7. CASE Recurse
  BY <1>1, <1>7, EngineAssumption DEF Recurse
<1>8. CASE Return
  <2> DEFINE m == n - 1
             caller == Decided(stack[m], active[stack[m].next], Allows(Top))
  <2>1. m \in 1 .. Len(stack) /\ m \in 1 .. n
    BY <1>1, <1>8 DEF Return, Last
  <2>2. caller \in Frame
    <3>1. Allows(Top) \in BOOLEAN
      BY <1>1, <1>2 DEF Allows, Top, Last, Frame
    <3>2. QED
      BY <2>1, <3>1, <1>2, DecidedIsFrame
  <2>3. stack' = [SubSeq(stack, 1, m) EXCEPT ![m] = caller]
    BY <1>8 DEF Return, Last
  <2>4. caller.next = stack[m].next + 1
    BY <2>1, <1>3
  <2> HIDE DEF caller, m
  <2>5. /\ Len(stack') = m /\ stack'[m] = caller
        /\ \A k \in 1 .. m - 1 : stack'[k] = stack[k]
    BY <1>1, <2>1, <2>2, <2>3, PopAndReplace
  <2>6. counter' = counter
    BY <1>8 DEF Return
  <2>7. QED
    BY <1>1, <1>2, <2>1, <2>4, <2>5, <2>6, LessToDo
<1>9. CASE Answer
  <2>1. stack' = <<>> /\ counter' = counter
    BY <1>9 DEF Answer
  <2>2. Pending' = {}
    BY <2>1 DEF Pending
  <2>3. <<1, stack[1].next>> \in Pending
    BY <1>1, <1>2 DEF Pending
  <2>4. QED
    BY <1>1, <2>1, <2>2, <2>3
<1>10. QED
  BY <1>4, <1>6, <1>7, <1>8, <1>9 DEF Evaluate

(* However the delegations turn back on themselves, an evaluation cannot go  *)
(* on for ever: it makes no more than MaxVisited calls, and between two of   *)
(* them what is left to do shrinks (engine.js _resolve).                     *)
THEOREM EngineTerminates == Spec => EvaluationShrinks
<1>1. ASSUME EngineInv, [Next]_vars
      PROVE  [stack # <<>> =>
                \/ counter < counter' /\ counter' <= MaxVisited
                \/ /\ counter <= counter'
                   /\ Pending' \subseteq Pending /\ Pending' # Pending]_vars
  BY <1>1, EvaluateShrinks DEF Next, Activate, Deactivate, Ask
<1>2. QED
  BY <1>1, EngineInductive, PTL DEF Spec, EvaluationShrinks

==============================================================================
