----------------------------- MODULE SetupProofs ------------------------------
(***************************************************************************)
(* Proofs about Setup: for any number of identities, salts, decisions and  *)
(* killed commands, the node is its own anchor, retired identities are not, *)
(* and rotations of the salts leave denials in force as long as what they  *)
(* deny.                                                                   *)
(***************************************************************************)
EXTENDS Setup, SequenceTheorems, TLAPS

(* Before there is a configuration there is nothing that needs one. *)
NothingBeforeInit ==
    /\ salts = <<>> =>
          anchors = {} /\ state = {} /\ draft = NoDraft /\ made = 0 /\ rotations = 0
    /\ step = "initConfig" => salts = <<>>
    /\ step \notin {"idle", "initConfig"} => salts # <<>>

(* Between its writes a command has the anchors it will be judged by. *)
AnchorsOnTheWay ==
    /\ step \in {"initRecords", "initAliases", "rotateAliases"} => key \in anchors
    /\ anchors \subseteq {key} \cup added \cup stray
                         \cup (IF step = "rotateConfig" THEN {old} ELSE {})

Decisions == state \cup ({draft} \ {NoDraft})

(* Unless a primary salt was set by hand, the salts are the youngest ones,   *)
(* and a decision's salt is no younger than the primary one when its command *)
(* started, nor than that of a later decision under a primary salt.          *)
SaltsInOrder ==
    sets = 0 =>
       /\ salts # <<>> => made = rotations + 1
       /\ \A i \in DOMAIN salts : salts[i] = made + 1 - i
       /\ salts # <<>> => Len(salts) = SmallerOf(MaxLegacy, rotations) + 1
       /\ \A t \in Decisions :
             /\ t.at <= rotations /\ t.salt <= made
             /\ t.primary => t.salt = t.at + 1
       /\ \A t, u \in Decisions :
             t.nth <= u.nth /\ u.primary => t.salt <= u.salt

(* A decision is stored with the number it was given. *)
DraftIsNext ==
    /\ draft # NoDraft => draft.nth = issued /\ issued < MaxIssued
    /\ \A t \in state : t.nth < issued

IInv ==
    /\ TypeOK /\ NothingBeforeInit /\ AnchorsOnTheWay /\ SelfAnchored
    /\ SaltsInOrder /\ DraftIsNext

------------------------------------------------------------------------------
LEMMA InitHolds == Init => IInv
  <1> SUFFICES ASSUME Init PROVE IInv
    OBVIOUS
  <1> USE DEF Init
  <1>1. TypeOK
    <2>1. 0 \in Key /\ salts \in Seq(Salt) /\ Len(salts) <= 1 + MaxLegacy
      BY SetupAssumption DEF Key, MaxLegacy
    <2>2. 0 \in 0 .. MaxSalts /\ 0 \in 0 .. MaxIssued /\ 0 \in 0 .. MaxSets
          /\ 0 \in 0 .. MaxKills /\ 0 \in Nat
      BY SetupAssumption
    <2>3. {} \subseteq Key /\ {} \subseteq Key \cup Other /\ {} \subseteq Decision
      OBVIOUS
    <2>4. cut \in BOOLEAN /\ draft \in Decision \cup {NoDraft} /\ step \in Step
      BY Zenon DEF Step
    <2> QED
      BY <2>1, <2>2, <2>3, <2>4, Zenon DEF TypeOK
  <1>2. NothingBeforeInit /\ AnchorsOnTheWay /\ SelfAnchored
    BY DEF NothingBeforeInit, AnchorsOnTheWay, SelfAnchored, Exists
  <1>3. SaltsInOrder /\ DraftIsNext
    BY DEF SaltsInOrder, DraftIsNext, Decisions
  <1> QED
    BY <1>1, <1>2, <1>3 DEF IInv

(* The setup's own part: anchors, aliases and the steps of the commands.     *)
LEMMA SetupPart ==
    ASSUME IInv, [Next]_vars
    PROVE  NothingBeforeInit' /\ AnchorsOnTheWay' /\ SelfAnchored'
  <1> USE DEF IInv, NothingBeforeInit, AnchorsOnTheWay, SelfAnchored, Exists,
              issuing, history, config
  <1>0. TypeOK
    OBVIOUS
  <1>1. CASE InitKey
    BY <1>0, <1>1 DEF InitKey, NewKey, TypeOK
  <1>2. CASE InitConfig
    BY <1>0, <1>2 DEF InitConfig, TypeOK
  <1>3. CASE InitRecords
    BY <1>0, <1>3 DEF InitRecords, TypeOK
  <1>4. CASE InitAliases
    BY <1>0, <1>4 DEF InitAliases, TypeOK
  <1>5. CASE RotateKey
    BY <1>0, <1>5 DEF RotateKey, NewKey, TypeOK
  <1>6. CASE RotateConfig
    BY <1>0, <1>6 DEF RotateConfig, Rotated, TypeOK
  <1>7. CASE RotateAliases
    BY <1>0, <1>7 DEF RotateAliases, TypeOK
  <1>8. CASE Kill
    BY <1>0, <1>8 DEF Kill, TypeOK
  <1>9. CASE SaltNew
    BY <1>0, <1>9 DEF SaltNew, Pushed, TypeOK
  <1>10. CASE \E x \in Salt : SaltSet(x)
    BY <1>0, <1>10 DEF SaltSet, TypeOK
  <1>11. CASE \E a \in (1 .. keys) \cup Other : AnchorAdd(a)
    BY <1>0, <1>11 DEF AnchorAdd
  <1>12. CASE \E i \in 1 .. 1 + MaxLegacy, allow \in BOOLEAN : IssueStart(i, allow)
    BY <1>0, <1>12 DEF IssueStart
  <1>13. CASE IssueStore
    BY <1>0, <1>13 DEF IssueStore
  <1>14. CASE \E t \in state : Revoke(t)
    BY <1>0, <1>14 DEF Revoke
  <1>15. CASE UNCHANGED vars
    BY <1>0, <1>15 DEF vars
  <1> QED
    BY <1>1, <1>2, <1>3, <1>4, <1>5, <1>6, <1>7, <1>8, <1>9, <1>10, <1>11, <1>12,
       <1>13, <1>14, <1>15 DEF Next

(* The salts and the decisions under them. *)
LEMMA PushedSalts ==
    ASSUME salts \in Seq(Salt), salts # <<>>, Len(salts) <= 1 + MaxLegacy,
           NEW s \in Salt
    PROVE  /\ Pushed(s) \in Seq(Salt) /\ Pushed(s) # <<>>
           /\ Len(Pushed(s)) = 1 + SmallerOf(MaxLegacy, Len(salts))
           /\ Pushed(s)[1] = s
           /\ \A i \in 2 .. Len(Pushed(s)) :
                 i - 1 \in DOMAIN salts /\ Pushed(s)[i] = salts[i - 1]
  <1> DEFINE m == SmallerOf(MaxLegacy, Len(salts))
             tail == SubSeq(salts, 1, m)
  <1>1. m \in 1 .. Len(salts)
    BY DEF SmallerOf, MaxLegacy
  <1>2. tail \in Seq(Salt) /\ Len(tail) = m /\ \A i \in 1 .. m : tail[i] = salts[i]
    BY <1>1
  <1> HIDE DEF tail, m
  <1>3. Pushed(s) = <<s>> \o tail
    BY DEF Pushed, tail, m
  <1>4. /\ Pushed(s) \in Seq(Salt) /\ Len(Pushed(s)) = 1 + m
        /\ Pushed(s)[1] = s
        /\ \A i \in 2 .. 1 + m : Pushed(s)[i] = tail[i - 1]
    BY <1>1, <1>2, <1>3
  <1> QED
    BY <1>1, <1>2, <1>4 DEF m

LEMMA TypePart ==
    ASSUME IInv, [Next]_vars
    PROVE  TypeOK' /\ DraftIsNext'
  <1> USE SetupAssumption DEF IInv, TypeOK, DraftIsNext, issuing, history, config
  <1>0. MaxLegacy = 2 /\ Step = {"idle", "initConfig", "initRecords", "initAliases",
                                 "rotateConfig", "rotateAliases"}
    BY DEF MaxLegacy, Step
  <1>1. CASE InitKey
    BY <1>0, <1>1 DEF InitKey, NewKey, Key
  <1>2. CASE InitConfig
    BY <1>0, <1>2 DEF InitConfig, Salt
  <1>3. CASE InitRecords
    BY <1>0, <1>3 DEF InitRecords
  <1>4. CASE InitAliases
    BY <1>0, <1>4 DEF InitAliases
  <1>5. CASE RotateKey
    BY <1>0, <1>5 DEF RotateKey, NewKey, Key
  <1>6. CASE RotateConfig
    BY <1>0, <1>6 DEF RotateConfig, Rotated
  <1>7. CASE RotateAliases
    <2>1. 0 \in Key
      BY DEF Key
    <2> QED
      BY <1>0, <1>7, <2>1 DEF RotateAliases
  <1>8. CASE Kill
    <2>1. kills' \in 0 .. MaxKills /\ 0 \in Key
      BY <1>8 DEF Kill, Key
    <2>2. stray' \subseteq Key
      BY <1>8 DEF Kill
    <2>3. cut' \in BOOLEAN /\ step' \in Step
      BY <1>0, <1>8 DEF Kill
    <2> QED
      BY <1>8, <2>1, <2>2, <2>3 DEF Kill
  <1>9. CASE SaltNew
    <2>1. made + 1 \in Salt /\ salts # <<>> /\ salts' = Pushed(made + 1)
      BY <1>9 DEF SaltNew, Exists, Salt
    <2>2. salts' \in Seq(Salt) /\ Len(salts') <= 1 + MaxLegacy
      <3>1. Len(Pushed(made + 1)) = 1 + SmallerOf(MaxLegacy, Len(salts))
            /\ Pushed(made + 1) \in Seq(Salt)
        BY <2>1, PushedSalts
      <3> QED
        BY <1>0, <2>1, <3>1 DEF SmallerOf
    <2> QED
      BY <1>0, <1>9, <2>2 DEF SaltNew
  <1>10. CASE \E x \in Salt : SaltSet(x)
    <2>1. PICK x \in Salt : SaltSet(x)
      BY <1>10
    <2>2. salts' \in Seq(Salt) /\ Len(salts') = Len(salts)
      <3>1. /\ salts \in Seq(Salt) /\ salts # <<>>
            /\ salts' = [salts EXCEPT ![1] = x]
        BY <2>1 DEF SaltSet, Exists
      <3>2. 1 \in 1 .. Len(salts)
        BY <3>1
      <3> QED
        BY <3>1, <3>2, ExceptSeq
    <2>3. made' \in 0 .. MaxSalts
      BY <2>1 DEF SaltSet, Salt
    <2> QED
      BY <1>0, <2>1, <2>2, <2>3 DEF SaltSet
  <1>11. CASE \E a \in (1 .. keys) \cup Other : AnchorAdd(a)
    BY <1>0, <1>11 DEF AnchorAdd, Key
  <1>12. ASSUME NEW i \in 1 .. 1 + MaxLegacy, NEW allow \in BOOLEAN, IssueStart(i, allow)
         PROVE  TypeOK' /\ DraftIsNext'
    <2>1. draft' \in Decision
      BY <1>0, <1>12 DEF IssueStart, Decision
    <2> QED
      BY <1>0, <1>12, <2>1 DEF IssueStart
  <1>13. CASE IssueStore
    <2>1. draft \in Decision
      BY <1>13 DEF IssueStore
    <2> QED
      BY <1>0, <1>13, <2>1 DEF IssueStore, Decision
  <1>14. CASE \E t \in state : Revoke(t)
    BY <1>0, <1>14 DEF Revoke
  <1>15. CASE UNCHANGED vars
    BY <1>0, <1>15 DEF vars
  <1> QED
    BY <1>1, <1>2, <1>3, <1>4, <1>5, <1>6, <1>7, <1>8, <1>9, <1>10, <1>11, <1>12,
       <1>13, <1>14, <1>15 DEF Next

(* Fewer decisions, or the same, under the same salts. *)
LEMMA SaltsStay ==
    ASSUME SaltsInOrder, UNCHANGED <<salts, made, rotations, sets>>,
           Decisions' \subseteq Decisions
    PROVE  SaltsInOrder'
  BY DEF SaltsInOrder

LEMMA IssueKeepsOrder ==
    ASSUME IInv, NEW i \in 1 .. 1 + MaxLegacy, NEW allow \in BOOLEAN, IssueStart(i, allow)
    PROVE  SaltsInOrder'
  <1>1. /\ i \in DOMAIN salts /\ salts \in Seq(Salt) /\ made \in Nat /\ rotations \in Nat
        /\ UNCHANGED <<salts, made, rotations, sets, state>>
    BY DEF IssueStart, IInv, TypeOK, config, history
  <1>2. /\ draft' # NoDraft => Decisions' = state \cup {draft'}
        /\ Decisions = state
    BY <1>1 DEF Decisions, IssueStart
  <1>3. /\ draft'.salt = salts[i] /\ draft'.at = rotations /\ draft'.nth = issued
        /\ draft'.primary <=> i = 1
    BY DEF IssueStart
  <1>4. \A t \in state : t.nth < issued /\ t.nth \in Nat /\ issued \in Nat
    BY DEF IInv, DraftIsNext, TypeOK, Decision
  <1>5. SUFFICES ASSUME sets = 0, draft' # NoDraft
                 PROVE  SaltsInOrder'
    BY <1>1, SaltsStay DEF Decisions, IInv, SaltsInOrder
  <1>6. /\ made = rotations + 1
        /\ \A j \in DOMAIN salts : salts[j] = made + 1 - j
        /\ Len(salts) = SmallerOf(MaxLegacy, rotations) + 1
        /\ \A t \in state : t.at <= rotations /\ t.salt <= made
                            /\ (t.primary => t.salt = t.at + 1)
        /\ \A t, u \in state : t.nth <= u.nth /\ u.primary => t.salt <= u.salt
    BY <1>1, <1>2, <1>5 DEF IInv, SaltsInOrder
  <1>7. /\ draft'.at <= rotations /\ draft'.salt <= made
        /\ draft'.primary => draft'.salt = draft'.at + 1 /\ draft'.salt = made
    BY <1>1, <1>3, <1>6
  <1>8. \A t, u \in Decisions' :
           t.nth <= u.nth /\ u.primary => t.salt <= u.salt
    <2>1. \A t \in state : ~ (draft'.nth <= t.nth)
      BY <1>3, <1>4
    <2>2. \A t \in state : draft'.primary => t.salt <= draft'.salt
      BY <1>6, <1>7
    <2>3. draft'.primary => draft'.salt <= draft'.salt
      BY <1>1, <1>7
    <2> QED
      BY <1>2, <1>5, <1>6, <2>1, <2>2, <2>3
  <1> QED
    BY <1>1, <1>2, <1>5, <1>6, <1>7, <1>8 DEF SaltsInOrder

LEMMA SaltNewKeepsOrder ==
    ASSUME IInv, SaltNew
    PROVE  SaltsInOrder'
  <1>1. /\ salts \in Seq(Salt) /\ salts # <<>> /\ Len(salts) <= 1 + MaxLegacy
        /\ made \in Nat /\ rotations \in Nat /\ made + 1 \in Salt
        /\ made' = made + 1 /\ rotations' = rotations + 1
        /\ salts' = Pushed(made + 1) /\ sets' = sets
        /\ Decisions' = Decisions
    <2>1. /\ salts \in Seq(Salt) /\ Len(salts) <= 1 + MaxLegacy
          /\ made \in Nat /\ rotations \in Nat
      BY DEF IInv, TypeOK
    <2>2. /\ salts # <<>> /\ made < MaxSalts
          /\ made' = made + 1 /\ rotations' = rotations + 1
          /\ salts' = Pushed(made + 1) /\ sets' = sets
          /\ UNCHANGED <<state, draft>>
      BY DEF SaltNew, Exists, issuing
    <2> QED
      BY <2>1, <2>2, SetupAssumption DEF Salt, Decisions
  <1>2. SUFFICES ASSUME sets = 0 PROVE SaltsInOrder'
    BY <1>1 DEF SaltsInOrder
  <1>3. /\ made = rotations + 1
        /\ \A i \in DOMAIN salts : salts[i] = made + 1 - i
        /\ Len(salts) = SmallerOf(MaxLegacy, rotations) + 1
        /\ \A t \in Decisions : /\ t.at <= rotations /\ t.salt <= made
                                /\ t.primary => t.salt = t.at + 1
        /\ \A t, u \in Decisions : t.nth <= u.nth /\ u.primary => t.salt <= u.salt
    BY <1>1, <1>2 DEF IInv, SaltsInOrder
  <1>4. /\ salts' \in Seq(Salt) /\ salts' # <<>>
        /\ Len(salts') = 1 + SmallerOf(MaxLegacy, Len(salts))
        /\ salts'[1] = made + 1
        /\ \A i \in 2 .. Len(salts') : i - 1 \in DOMAIN salts /\ salts'[i] = salts[i - 1]
    BY <1>1, PushedSalts
  <1>5. Len(salts') = SmallerOf(MaxLegacy, rotations') + 1
    BY <1>1, <1>3, <1>4 DEF SmallerOf, MaxLegacy
  <1>6. \A i \in DOMAIN salts' : salts'[i] = made' + 1 - i
    <2>1. ASSUME NEW i \in DOMAIN salts' PROVE salts'[i] = made' + 1 - i
      <3>1. i \in 1 .. Len(salts')
        BY <1>4, <2>1
      <3>2. CASE i = 1
        BY <1>1, <1>4, <3>2
      <3>3. CASE i \in 2 .. Len(salts')
        <4>1. i - 1 \in DOMAIN salts /\ salts'[i] = salts[i - 1]
          BY <1>4, <3>3
        <4>2. salts[i - 1] = made + 1 - (i - 1)
          BY <1>3, <4>1
        <4> QED
          BY <1>1, <3>1, <4>1, <4>2
      <3> QED
        BY <1>4, <3>1, <3>2, <3>3
    <2> QED
      BY <2>1
  <1>7. \A t \in Decisions : t.at \in Nat /\ t.salt \in Nat
    BY DEF IInv, TypeOK, Decisions, Decision, Salt
  <1>8. \A t \in Decisions : t.at <= rotations' /\ t.salt <= made'
    BY <1>1, <1>3, <1>7
  <1> QED
    BY <1>1, <1>3, <1>5, <1>6, <1>8 DEF SaltsInOrder

LEMMA SaltsPart ==
    ASSUME IInv, [Next]_vars
    PROVE  SaltsInOrder'
  <1>0. IInv /\ SaltsInOrder
    BY DEF IInv
  <1>1. CASE UNCHANGED <<salts, made, rotations, sets>> /\ Decisions' \subseteq Decisions
    BY <1>0, <1>1, SaltsStay
  <1>2. CASE InitKey \/ InitAliases \/ RotateKey \/ RotateConfig \/ RotateAliases
             \/ Kill \/ InitRecords
    BY <1>1, <1>2 DEF InitKey, InitAliases, RotateKey, RotateConfig, RotateAliases,
       Kill, InitRecords, Decisions, config, issuing, history
  <1>3. CASE InitConfig
    <2>1. /\ made = 0 /\ rotations = 0 /\ state = {} /\ draft = NoDraft
          /\ made' = 1 /\ salts' = <<1>>
          /\ UNCHANGED <<rotations, state, draft>>
      BY <1>0, <1>3 DEF InitConfig, IInv, NothingBeforeInit, issuing, history
    <2>2. Decisions' = {}
      BY <2>1 DEF Decisions
    <2> QED
      BY <2>1, <2>2 DEF SaltsInOrder, SmallerOf, MaxLegacy
  <1>4. CASE SaltNew
    BY <1>0, <1>4, SaltNewKeepsOrder
  <1>5. CASE \E x \in Salt : SaltSet(x)
    BY <1>0, <1>5 DEF SaltSet, SaltsInOrder, IInv, TypeOK
  <1>6. CASE \E a \in (1 .. keys) \cup Other : AnchorAdd(a)
    BY <1>1, <1>6 DEF AnchorAdd, Decisions, issuing
  <1>7. CASE \E i \in 1 .. 1 + MaxLegacy, allow \in BOOLEAN : IssueStart(i, allow)
    BY <1>0, <1>7, IssueKeepsOrder
  <1>8. CASE IssueStore \/ \E t \in state : Revoke(t)
    BY <1>1, <1>8 DEF IssueStore, Revoke, Decisions, config, history
  <1>9. CASE UNCHANGED vars
    BY <1>1, <1>9 DEF vars, Decisions, config, issuing, history
  <1> QED
    BY <1>2, <1>3, <1>4, <1>5, <1>6, <1>7, <1>8, <1>9 DEF Next

LEMMA SetupInductive == Spec => []IInv
  <1>1. IInv /\ [Next]_vars => IInv'
    BY TypePart, SetupPart, SaltsPart DEF IInv
  <1> QED
    BY InitHolds, <1>1, PTL DEF Spec

------------------------------------------------------------------------------
(* The records of the store keep their types (store.js).                    *)
THEOREM SetupTypeCorrect == Spec => []TypeOK
  <1>1. IInv => TypeOK
    BY DEF IInv
  <1> QED
    BY <1>1, SetupInductive, PTL

(* After any command that was not killed the node is its own trust anchor   *)
(* (store.js init, rotateIdentity).                                         *)
THEOREM OwnAnchor == Spec => []SelfAnchored
  <1>1. IInv => SelfAnchored
    BY DEF IInv
  <1> QED
    BY <1>1, SetupInductive, PTL

(* An identity that was given up is no anchor (store.js rotateIdentity).    *)
THEOREM RetiredLosesTrust == Spec => []RetiredIsNoAnchor
  <1>1. IInv => RetiredIsNoAnchor
    BY DEF IInv, AnchorsOnTheWay, RetiredIsNoAnchor
  <1> QED
    BY <1>1, SetupInductive, PTL

(* A salt no younger than a visible one, and no younger than the primary, is *)
(* visible; and so are the salts of the last rotations.                      *)
LEMMA YoungerIsVisible ==
    ASSUME IInv, sets = 0, NEW t \in Decisions,
           made + 1 - t.salt \in 1 .. Len(salts)
    PROVE  Visible(t)
  <1>1. made \in Nat /\ t.salt \in Nat /\ salts \in Seq(Salt)
    BY DEF IInv, TypeOK, Decisions, Decision, Salt
  <1>2. salts[made + 1 - t.salt] = made + 1 - (made + 1 - t.salt)
    BY <1>1 DEF IInv, SaltsInOrder
  <1> QED
    BY <1>1, <1>2 DEF Visible

(* A decision counts for two rotations of the salt (dacar.js cmdSaltNew),    *)
(* whatever its command had loaded before.                                   *)
THEOREM Grace == Spec => []TwoRotationsOfGrace
  <1>1. ASSUME IInv PROVE TwoRotationsOfGrace
    <2>1. SUFFICES ASSUME sets = 0, NEW t \in state, t.primary,
                          rotations <= t.at + MaxLegacy
                   PROVE  Visible(t)
      BY DEF TwoRotationsOfGrace
    <2>2. /\ t \in Decisions /\ t.at \in Nat /\ rotations \in Nat
          /\ salts # <<>>
      <3>1. t \in Decision /\ t # NoDraft
        BY <1>1 DEF IInv, TypeOK, Decision, NoDraft
      <3> QED
        BY <1>1, <3>1 DEF IInv, TypeOK, Decision, Decisions, NothingBeforeInit
    <2>3. /\ made = rotations + 1 /\ t.salt = t.at + 1 /\ t.at <= rotations
          /\ Len(salts) = SmallerOf(MaxLegacy, rotations) + 1
      BY <1>1, <2>1, <2>2 DEF IInv, SaltsInOrder
    <2>4. made + 1 - t.salt \in 1 .. Len(salts)
      BY <2>1, <2>2, <2>3 DEF SmallerOf, MaxLegacy
    <2> QED
      BY <1>1, <2>1, <2>2, <2>4, YoungerIsVisible
  <1> QED
    BY <1>1, SetupInductive, PTL

(* No rotation leaves out a denial and keeps an allowance it overrides       *)
(* (dacar.js cmdSaltNew, engine.js evaluate).                                *)
THEOREM DenialOutlastsAllowance == Spec => []LaterDenialCounts
  <1>1. ASSUME IInv PROVE LaterDenialCounts
    <2>1. SUFFICES ASSUME sets = 0, NEW d \in state, ~ d.allow, d.primary,
                          d.by \in anchors,
                          \A a \in state : a.allow /\ Counts(a) => a.nth < d.nth,
                          NEW a \in state, a.allow, Counts(a)
                   PROVE  Counts(d)
      BY DEF LaterDenialCounts, Allowed
    <2>2. /\ d \in Decisions /\ a \in Decisions /\ made \in Nat /\ salts \in Seq(Salt)
          /\ d.salt \in Nat /\ a.salt \in Nat /\ d.nth \in Nat /\ a.nth \in Nat
      BY <1>1 DEF IInv, TypeOK, Decision, Decisions, Salt
    <2>3. a.salt <= d.salt /\ d.salt <= made
      BY <1>1, <2>1, <2>2 DEF IInv, SaltsInOrder
    <2>4. PICK i \in 1 .. Len(salts) : salts[i] = a.salt
      BY <2>1, <2>2 DEF Counts, Visible
    <2>5. a.salt = made + 1 - i
      BY <1>1, <2>1, <2>2, <2>4 DEF IInv, SaltsInOrder
    <2>6. made + 1 - d.salt \in 1 .. Len(salts)
      BY <2>2, <2>3, <2>5
    <2> QED
      BY <1>1, <2>1, <2>2, <2>6, YoungerIsVisible DEF Counts
  <1> QED
    BY <1>1, SetupInductive, PTL
==============================================================================
