----------------------------- MODULE IntakeProofs -----------------------------
(***************************************************************************)
(* Proofs about Intake: for any issuers, operations, messages and page      *)
(* sizes, and whatever syncs fail, no fresh publication of its own issuer is *)
(* dropped, every grant in force can be revoked, no identity leaves the     *)
(* keyring unasked, and nothing is lost unless a sync failed.               *)
(***************************************************************************)
EXTENDS Intake, SequenceTheorems, TLAPS

(* What belongs to a sync is empty when there is none, or before it is used. *)
StepsInOrder ==
    /\ at \in {"idle", "load"} => handlers = {}
    /\ at = "idle" => writes = {}
    /\ at # "page" => page = <<>>
    /\ at \in {"idle", "load"} => mem.state = {}

(* The keyring files of a running sync, written or being written, are older  *)
(* states of its keyring; what they miss, the network stack recalls.         *)
KeyringsOnTheWay ==
    at # "idle" => \A w \in writes \cup {disk.keyring} :
        w \subseteq mem.keyring /\ mem.keyring \subseteq w \cup recall

(* Whoever has a grant in force is known. *)
IssuersKnown ==
    /\ \A i \in Issuer : ActiveOf(disk.state, i) => i \in recall \cup disk.keyring
    /\ at # "idle" => \A i \in Issuer :
          ActiveOf(mem.state, i) => i \in recall \cup mem.keyring

(* The state a sync saves contains the one it loaded. *)
StateGrows == at \notin {"idle", "load"} => disk.state \subseteq mem.state

(* A sync whose LXMF leg did not throw has no listener left when it saves,   *)
(* and has saved all it has when it ends.                                    *)
SavedAtTheEnd ==
    fails = 0 =>
       /\ at # "mail" => handlers = {}
       /\ at \in {"saveKeyring", "exit"} => mem.state \subseteq disk.state

(* What was published by its own issuer is dropped only as not fresh.        *)
OwnPublicationVerifies == \A d \in dropped : d.fresh => d.op.issuer \notin d.sender

(* What was taken is somewhere, if only among what was dropped.              *)
NothingLostYet ==
    fails = 0 => taken \subseteq disk.state \cup InHand \cup {d.op : d \in dropped}

IInv ==
    /\ TypeOK /\ StepsInOrder /\ KeyringsOnTheWay /\ IssuersKnown /\ StateGrows
    /\ SavedAtTheEnd /\ OwnPublicationVerifies /\ NothingLostYet

------------------------------------------------------------------------------
(* The entries of a page and the operations of a batch, the first apart.     *)
PageOps(p) == {p[k].op : k \in DOMAIN p}

LEMMA HeadAndTail ==
    ASSUME NEW S, NEW s \in Seq(S), s # <<>>
    PROVE  /\ Head(s) \in S /\ Tail(s) \in Seq(S)
           /\ \A x : (\E k \in DOMAIN s : s[k] = x)
                        <=> x = Head(s) \/ \E k \in DOMAIN Tail(s) : Tail(s)[k] = x
  <1>1. /\ Head(s) \in S /\ Tail(s) \in Seq(S) /\ Head(s) = s[1]
        /\ Len(s) \in Nat \ {0} /\ Len(Tail(s)) = Len(s) - 1
        /\ \A k \in 1 .. Len(Tail(s)) : Tail(s)[k] = s[k + 1]
    BY HeadTailProperties
  <1>2. ASSUME NEW k \in DOMAIN s, k # 1
        PROVE  k - 1 \in DOMAIN Tail(s) /\ Tail(s)[k - 1] = s[k]
    BY <1>1, <1>2
  <1>3. \A k \in DOMAIN Tail(s) : k + 1 \in DOMAIN s /\ s[k + 1] = Tail(s)[k]
    BY <1>1
  <1>4. 1 \in DOMAIN s
    BY <1>1
  <1> QED
    BY <1>1, <1>2, <1>3, <1>4

LEMMA PageHead ==
    ASSUME NEW p \in Seq(Entry), p # <<>>
    PROVE  /\ Head(p) \in Entry /\ Tail(p) \in Seq(Entry)
           /\ PageOps(p) = {Head(p).op} \cup PageOps(Tail(p))
  <1>1. /\ Head(p) \in Entry /\ Tail(p) \in Seq(Entry)
        /\ \A x : (\E k \in DOMAIN p : p[k] = x)
                     <=> x = Head(p) \/ \E k \in DOMAIN Tail(p) : Tail(p)[k] = x
    BY HeadAndTail
  <1>2. \A o : (\E k \in DOMAIN p : p[k].op = o)
                  <=> o = Head(p).op \/ \E k \in DOMAIN Tail(p) : Tail(p)[k].op = o
    BY <1>1
  <1> QED
    BY <1>1, <1>2 DEF PageOps

LEMMA BatchHead ==
    ASSUME NEW h \in Seq(Op), h # <<>>
    PROVE  /\ Head(h) \in Op /\ Tail(h) \in Seq(Op)
           /\ Ops(h) = {Head(h)} \cup Ops(Tail(h))
  <1>1. /\ Head(h) \in Op /\ Tail(h) \in Seq(Op)
        /\ \A x : (\E k \in DOMAIN h : h[k] = x)
                     <=> x = Head(h) \/ \E k \in DOMAIN Tail(h) : Tail(h)[k] = x
    BY HeadAndTail
  <1> QED
    BY <1>1 DEF Ops

LEMMA EmptyHasNone == PageOps(<<>>) = {} /\ Ops(<<>>) = {}
  <1>1. DOMAIN <<>> = {}
    OBVIOUS
  <1> QED
    BY <1>1 DEF PageOps, Ops

(* What is handed out and what is kept. *)
LEMMA PageTypes ==
    ASSUME TypeOK
    PROVE  FirstPage \in Seq(Entry) /\ Drained \in Seq(Entry)
  <1>1. /\ queue \in Seq(Entry) /\ PageSize \in Nat \ {0} /\ Len(queue) \in Nat
    BY IntakeAssumption DEF TypeOK
  <1>2. Smaller(PageSize, Len(queue)) \in 0 .. Len(queue)
    BY <1>1 DEF Smaller
  <1> QED
    BY <1>1, <1>2, SubSeqProperties DEF FirstPage, Drained

LEMMA TypesOfOps ==
    /\ \A o \in Op : o.issuer \in Issuer
    /\ \A e \in Entry : e.op \in Op /\ e.sender \in Issuer
    /\ \A m \in Message : m \in Seq(Op) /\ m # <<>>
  BY IntakeAssumption DEF Entry

(* What taking an operation does. *)
LEMMA TakeEffect ==
    ASSUME TypeOK, NEW o \in Op, NEW recalled \in SUBSET Issuer,
           NEW sender \in SUBSET Issuer, Take(o, recalled, sender)
    PROVE  /\ mem' \in Records /\ mem'.keyring = mem.keyring
           /\ mem.state \subseteq mem'.state
           /\ o \in mem'.state \cup {d.op : d \in dropped'}
           /\ dropped \subseteq dropped'
           /\ dropped' \subseteq Refusal
           /\ \A d \in dropped' \ dropped :
                 d.op = o /\ d.sender = sender /\ (d.fresh => o.issuer \notin recalled)
           /\ \A i \in Issuer : ActiveOf(mem'.state, i) =>
                 ActiveOf(mem.state, i) \/ i \in recalled \cup mem.keyring
  <1>1. mem \in Records /\ dropped \subseteq Refusal
    BY DEF TypeOK
  <1>2. CASE Known(o.issuer, recalled) /\ Fresh(o)
    <2>1. /\ mem' = [mem EXCEPT !.state = @ \cup {o}]
          /\ dropped' = dropped
      BY <1>2 DEF Take
    <2>2. mem'.state = mem.state \cup {o} /\ mem'.keyring = mem.keyring
      BY <1>1, <2>1 DEF Records
    <2>3. mem' \in Records
      BY <1>1, <2>1 DEF Records
    <2>4. ASSUME NEW i \in Issuer, ActiveOf(mem'.state, i)
          PROVE  ActiveOf(mem.state, i) \/ i \in recalled \cup mem.keyring
      BY <1>2, <2>2, <2>4 DEF ActiveOf, Known
    <2> QED
      BY <1>1, <2>1, <2>2, <2>3, <2>4
  <1>3. CASE ~ (Known(o.issuer, recalled) /\ Fresh(o))
    <2> DEFINE d == [op |-> o, sender |-> sender, fresh |-> Fresh(o)]
    <2>1. mem' = mem /\ dropped' = dropped \cup {d}
      BY <1>3 DEF Take
    <2>2. d.op = o /\ d.sender = sender /\ d.fresh = Fresh(o)
      OBVIOUS
    <2>3. Fresh(o) \in BOOLEAN
      BY DEF Fresh
    <2>4. d \in Refusal
      BY <2>3 DEF Refusal
    <2>5. d.fresh => o.issuer \notin recalled
      BY <1>3, <2>2 DEF Known
    <2> HIDE DEF d
    <2>6. o \in {x.op : x \in dropped'}
      BY <2>1, <2>2
    <2> QED
      BY <1>1, <2>1, <2>2, <2>4, <2>5, <2>6
  <1> QED
    BY <1>2, <1>3

LEMMA ApplyEntryEffect ==
    ASSUME TypeOK, ApplyEntry
    PROVE  LET e == Head(page) IN
           /\ e \in Entry /\ e.op \in Op /\ e.sender \in Issuer
           /\ Tail(page) \in Seq(Entry)
           /\ PageOps(page) = {e.op} \cup PageOps(Tail(page))
           /\ mem' \in Records /\ mem'.keyring = mem.keyring
           /\ mem.state \subseteq mem'.state
           /\ e.op \in mem'.state \cup {d.op : d \in dropped'}
           /\ dropped \subseteq dropped'
           /\ dropped' \subseteq Refusal
           /\ \A d \in dropped' \ dropped :
                 /\ d.op = e.op /\ d.sender = {e.sender}
                 /\ d.fresh => e.op.issuer \notin (recall \cup {e.sender})
           /\ \A i \in Issuer : ActiveOf(mem'.state, i) =>
                 ActiveOf(mem.state, i) \/ i \in (recall \cup {e.sender}) \cup mem.keyring
  <1>1. page \in Seq(Entry) /\ page # <<>> /\ recall \subseteq Issuer
    BY DEF TypeOK, ApplyEntry
  <1>2. /\ Head(page) \in Entry /\ Tail(page) \in Seq(Entry)
        /\ PageOps(page) = {Head(page).op} \cup PageOps(Tail(page))
    BY <1>1, PageHead
  <1> DEFINE e == Head(page)
             r == recall \cup {e.sender}
             who == {e.sender}
  <1>3. /\ e.op \in Op /\ e.sender \in Issuer /\ r \in SUBSET Issuer
        /\ who \in SUBSET Issuer /\ Take(e.op, r, who)
    BY <1>1, <1>2, TypesOfOps DEF ApplyEntry, RecalledFor
  <1> HIDE DEF e, r, who
  <1>4. /\ mem' \in Records /\ mem'.keyring = mem.keyring
        /\ mem.state \subseteq mem'.state
        /\ e.op \in mem'.state \cup {d.op : d \in dropped'}
        /\ dropped \subseteq dropped'
        /\ dropped' \subseteq Refusal
        /\ \A d \in dropped' \ dropped :
              d.op = e.op /\ d.sender = who /\ (d.fresh => e.op.issuer \notin r)
        /\ \A i \in Issuer : ActiveOf(mem'.state, i) =>
              ActiveOf(mem.state, i) \/ i \in r \cup mem.keyring
    BY <1>3, TakeEffect, Zenon
  <1> QED
    BY <1>2, <1>3, <1>4 DEF e, r, who

LEMMA HandleEffect ==
    ASSUME TypeOK, NEW h \in handlers, Handle(h)
    PROVE  /\ Head(h) \in Op /\ Tail(h) \in Seq(Op)
           /\ Ops(h) = {Head(h)} \cup Ops(Tail(h))
           /\ mem' \in Records /\ mem'.keyring = mem.keyring
           /\ mem.state \subseteq mem'.state
           /\ Head(h) \in mem'.state \cup {d.op : d \in dropped'}
           /\ dropped \subseteq dropped'
           /\ dropped' \subseteq Refusal
           /\ \A d \in dropped' \ dropped :
                 d.op = Head(h) /\ d.sender = {} /\ (d.fresh => Head(h).issuer \notin recall)
           /\ \A i \in Issuer : ActiveOf(mem'.state, i) =>
                 ActiveOf(mem.state, i) \/ i \in recall \cup mem.keyring
  <1>1. h \in Seq(Op) /\ h # <<>> /\ recall \subseteq Issuer
    BY DEF TypeOK
  <1>2. /\ Head(h) \in Op /\ Tail(h) \in Seq(Op)
        /\ Ops(h) = {Head(h)} \cup Ops(Tail(h))
    BY <1>1, BatchHead
  <1>3. Take(Head(h), recall, {}) /\ recall \in SUBSET Issuer /\ {} \in SUBSET Issuer
    BY <1>1 DEF Handle
  <1>4. /\ mem' \in Records /\ mem'.keyring = mem.keyring
        /\ mem.state \subseteq mem'.state
        /\ Head(h) \in mem'.state \cup {d.op : d \in dropped'}
        /\ dropped \subseteq dropped'
        /\ dropped' \subseteq Refusal
        /\ \A d \in dropped' \ dropped :
              d.op = Head(h) /\ d.sender = {} /\ (d.fresh => Head(h).issuer \notin recall)
        /\ \A i \in Issuer : ActiveOf(mem'.state, i) =>
              ActiveOf(mem.state, i) \/ i \in recall \cup mem.keyring
    BY <1>2, <1>3, TakeEffect, Zenon
  <1> QED
    BY <1>2, <1>4, Zenon

------------------------------------------------------------------------------
LEMMA InitHolds == Init => IInv
  <1> SUFFICES ASSUME Init PROVE IInv
    OBVIOUS
  <1>1. TypeOK
    <2>1. <<>> \in Seq(Entry) /\ 0 \in 0 .. MaxSent /\ 0 \in 0 .. MaxFails
      BY IntakeAssumption
    <2>2. Nothing \in Records
      BY DEF Nothing, Records
    <2> QED
      BY <2>1, <2>2 DEF Init, TypeOK, Step
  <1> QED
    BY <1>1 DEF Init, IInv, StepsInOrder, KeyringsOnTheWay, IssuersKnown, StateGrows,
       SavedAtTheEnd, OwnPublicationVerifies, NothingLostYet, ActiveOf, Nothing

(* The types, and what is empty between the steps of a sync. *)
LEMMA TypeStep ==
    ASSUME IInv, [Next]_vars
    PROVE  TypeOK' /\ StepsInOrder'
  <1> USE IntakeAssumption DEF outside, process, history
  <1>0. TypeOK /\ StepsInOrder
    BY DEF IInv
  <1>1. ASSUME NEW e \in Entry, Publish(e)
        PROVE  TypeOK' /\ StepsInOrder'
    BY <1>0, <1>1 DEF Publish, TypeOK, StepsInOrder, Step
  <1>2. ASSUME NEW m \in Message, SendMail(m)
        PROVE  TypeOK' /\ StepsInOrder'
    BY <1>0, <1>2 DEF SendMail, TypeOK, StepsInOrder, Step
  <1>3. ASSUME NEW i \in Issuer, Announce(i)
        PROVE  TypeOK' /\ StepsInOrder'
    <2>1. mem' \in Records /\ writes' \subseteq SUBSET Issuer
      BY <1>0, <1>3 DEF Announce, Records, TypeOK, StepsInOrder, Step
    <2>2. at \in {"idle", "load"} => mem'.state = {}
      BY <1>0, <1>3 DEF Announce, Records, TypeOK, StepsInOrder, Step
    <2> QED
      BY <1>0, <1>3, <2>1, <2>2 DEF Announce, TypeOK, StepsInOrder, Step
  <1>4. ASSUME NEW i \in Issuer, Remember(i)
        PROVE  TypeOK' /\ StepsInOrder'
    <2>1. disk' \in Records
      BY <1>0, <1>4 DEF Remember, Records, TypeOK, StepsInOrder, Step
    <2> QED
      BY <1>0, <1>4, <2>1 DEF Remember, TypeOK, StepsInOrder, Step
  <1>5. ASSUME NEW i \in Issuer, Forget(i)
        PROVE  TypeOK' /\ StepsInOrder'
    <2>1. disk' \in Records
      BY <1>0, <1>5 DEF Forget, Records, TypeOK, StepsInOrder, Step
    <2> QED
      BY <1>0, <1>5, <2>1 DEF Forget, TypeOK, StepsInOrder, Step
  <1>6. ASSUME NEW w \in writes, LandKeyring(w)
        PROVE  TypeOK' /\ StepsInOrder'
    <2>1. disk' \in Records
      BY <1>0, <1>6 DEF LandKeyring, Records, TypeOK, StepsInOrder, Step
    <2> QED
      BY <1>0, <1>6, <2>1 DEF LandKeyring, TypeOK, StepsInOrder, Step
  <1>7. CASE SyncStart
    <2>1. mem' \in Records /\ mem'.state = {}
      BY <1>0, <1>7 DEF SyncStart, Records, TypeOK, StepsInOrder, Step
    <2> QED
      BY <1>0, <1>7, <2>1 DEF SyncStart, TypeOK, StepsInOrder, Step
  <1>8. CASE SyncLoad
    <2>1. mem' \in Records
      BY <1>0, <1>8 DEF SyncLoad, Records, TypeOK, StepsInOrder, Step
    <2> QED
      BY <1>0, <1>8, <2>1 DEF SyncLoad, TypeOK, StepsInOrder, Step
  <1>9. CASE PullPage
    <2>1. FirstPage \in Seq(Entry) /\ Drained \in Seq(Entry)
      BY <1>0, PageTypes
    <2>2. \A k \in DOMAIN FirstPage : FirstPage[k].op \in Op
      BY <2>1, TypesOfOps
    <2> QED
      BY <1>0, <1>9, <2>1, <2>2 DEF PullPage, TypeOK, StepsInOrder, Step
  <1>10. CASE ApplyEntry
    <2> DEFINE e == Head(page)
    <2>1. /\ e.op \in Op /\ e.sender \in Issuer /\ Tail(page) \in Seq(Entry)
          /\ mem' \in Records
          /\ dropped' \subseteq Refusal
      BY <1>0, <1>10, ApplyEntryEffect, Zenon
    <2>3. at = "page" /\ page' = Tail(page) /\ recall' \subseteq Issuer
      BY <1>0, <1>10, <2>1 DEF ApplyEntry, TypeOK, StepsInOrder, Step
    <2> QED
      BY <1>0, <1>10, <2>1, <2>3 DEF ApplyEntry, TypeOK, StepsInOrder, Step
  <1>11. CASE EndPage
    BY <1>0, <1>11 DEF EndPage, TypeOK, StepsInOrder, Step
  <1>12. ASSUME NEW m \in mail, Fetch(m)
        PROVE  TypeOK' /\ StepsInOrder'
    <2>1. m \in Seq(Op) /\ m # <<>> /\ Ops(m) \subseteq Op
      BY <1>0, <1>12, TypesOfOps DEF Ops, TypeOK, StepsInOrder, Step
    <2> QED
      BY <1>0, <1>12, <2>1 DEF Fetch, TypeOK, StepsInOrder, Step
  <1>13. ASSUME NEW h \in handlers, Handle(h)
        PROVE  TypeOK' /\ StepsInOrder'
    <2>2. /\ Head(h) \in Op /\ Tail(h) \in Seq(Op)
          /\ mem' \in Records
          /\ dropped' \subseteq Refusal
      BY <1>0, <1>13, HandleEffect, Zenon
    <2> QED
      <3>1. \A g \in handlers' : g \in Seq(Op) /\ g # <<>>
        BY <1>0, <1>13, <2>2 DEF Handle, Rest, TypeOK
      <3>2. at \notin {"idle", "load"} /\ UNCHANGED <<outside, disk, at, page, more, writes, taken, fails>>
        BY <1>0, <1>13 DEF Handle, StepsInOrder
      <3> QED
        BY <1>0, <2>2, <3>1, <3>2 DEF TypeOK, StepsInOrder, Step
  <1>14. CASE EndMail
    BY <1>0, <1>14 DEF EndMail, TypeOK, StepsInOrder, Step
  <1>15. CASE SaveState
    <2>1. disk' \in Records
      BY <1>0, <1>15 DEF SaveState, Records, TypeOK, StepsInOrder, Step
    <2> QED
      BY <1>0, <1>15, <2>1 DEF SaveState, TypeOK, StepsInOrder, Step
  <1>16. CASE SaveKeyring
    <2>1. disk' \in Records
      BY <1>0, <1>16 DEF SaveKeyring, Records, TypeOK, StepsInOrder, Step
    <2> QED
      BY <1>0, <1>16, <2>1 DEF SaveKeyring, TypeOK, StepsInOrder, Step
  <1>17. CASE Exit
    <2>1. Nothing \in Records /\ Nothing.state = {}
      BY DEF Nothing, Records
    <2> QED
      BY <1>0, <1>17, <2>1 DEF Exit, Stop, TypeOK, StepsInOrder, Step
  <1>18. CASE MailFails
    BY <1>0, <1>18 DEF MailFails, TypeOK, StepsInOrder, Step
  <1>19. CASE Abort
    <2>1. Nothing \in Records /\ Nothing.state = {}
      BY DEF Nothing, Records
    <2>2. FirstPage \in Seq(Entry) /\ Drained \in Seq(Entry)
      BY <1>0, PageTypes
    <2>3. \A k \in DOMAIN FirstPage : FirstPage[k].op \in Op
      BY <2>2, TypesOfOps
    <2>4. queue' \in Seq(Entry) /\ taken' \subseteq Op
      <3>1. {FirstPage[k].op : k \in DOMAIN FirstPage} \subseteq Op
        BY <2>3
      <3> QED
        BY <1>0, <1>19, <2>2, <3>1 DEF Abort, TypeOK, StepsInOrder, Step
    <2>5. fails' \in 0 .. MaxFails /\ at' = "idle" /\ UNCHANGED <<wall, recall, mail, sent, disk, dropped>>
      BY <1>0, <1>19 DEF Abort, Stop, TypeOK, StepsInOrder, Step
    <2>6. mem' \in Records /\ mem'.state = {} /\ page' = <<>> /\ more' \in BOOLEAN /\ handlers' = {} /\ writes' = {}
      BY <1>19, <2>1 DEF Abort, Stop
    <2> QED
      BY <1>0, <2>4, <2>5, <2>6 DEF TypeOK, StepsInOrder, Step
  <1>20. ASSUME NEW o \in Op, ApplyFile(o)
        PROVE  TypeOK' /\ StepsInOrder'
    <2>1. disk' \in Records
      BY <1>0, <1>20 DEF ApplyFile, Records, TypeOK, StepsInOrder, Step
    <2> QED
      BY <1>0, <1>20, <2>1 DEF ApplyFile, TypeOK, StepsInOrder, Step
  <1>21. CASE UNCHANGED vars
    BY <1>0, <1>21 DEF vars, TypeOK, StepsInOrder, Step
  <1>22. ASSUME NEW t \in Time, SetClock(t)
        PROVE  TypeOK' /\ StepsInOrder'
    BY <1>0, <1>22 DEF SetClock, TypeOK, StepsInOrder, Step
  <1> QED
    BY <1>1, <1>2, <1>3, <1>4, <1>5, <1>6, <1>7, <1>8, <1>9, <1>10, <1>11, <1>12, <1>13, <1>14, <1>15, <1>16, <1>17, <1>18, <1>19, <1>20, <1>21, <1>22
       DEF Next, Sync

(* Keyrings in flight, and the issuers whose grants are in force. *)
LEMMA KeyStep ==
    ASSUME IInv, [Next]_vars
    PROVE  KeyringsOnTheWay' /\ IssuersKnown'
  <1> USE DEF outside, process, history
  <1>0. TypeOK /\ StepsInOrder /\ KeyringsOnTheWay /\ IssuersKnown
    BY DEF IInv
  <1>1. ASSUME NEW e \in Entry, Publish(e)
        PROVE  KeyringsOnTheWay' /\ IssuersKnown'
    BY <1>0, <1>1 DEF Publish, TypeOK, StepsInOrder, KeyringsOnTheWay, IssuersKnown
  <1>2. ASSUME NEW m \in Message, SendMail(m)
        PROVE  KeyringsOnTheWay' /\ IssuersKnown'
    BY <1>0, <1>2 DEF SendMail, TypeOK, StepsInOrder, KeyringsOnTheWay, IssuersKnown
  <1>3. ASSUME NEW i \in Issuer, Announce(i)
        PROVE  KeyringsOnTheWay' /\ IssuersKnown'
    <2>1. CASE at = "idle"
      BY <1>0, <1>3, <2>1 DEF Announce, KeyringsOnTheWay, IssuersKnown
    <2>2. CASE at # "idle"
      <3>1. /\ mem'.keyring = mem.keyring \cup {i} /\ mem'.state = mem.state
            /\ writes' = writes \cup {mem'.keyring}
            /\ recall' = recall \cup {i} /\ UNCHANGED <<disk, at>>
        BY <1>0, <1>3, <2>2 DEF Announce, TypeOK, Records
      <3> QED
        BY <1>0, <2>2, <3>1 DEF KeyringsOnTheWay, IssuersKnown
    <2> QED
      BY <2>1, <2>2
  <1>4. ASSUME NEW i \in Issuer, Remember(i)
        PROVE  KeyringsOnTheWay' /\ IssuersKnown'
    <2>1. /\ disk'.keyring = disk.keyring \cup {i} /\ disk'.state = disk.state
          /\ at' = "idle" /\ UNCHANGED recall
      BY <1>0, <1>4 DEF Remember, TypeOK, Records
    <2> QED
      BY <1>0, <2>1 DEF KeyringsOnTheWay, IssuersKnown
  <1>5. ASSUME NEW i \in Issuer, Forget(i)
        PROVE  KeyringsOnTheWay' /\ IssuersKnown'
    <2>1. /\ disk'.keyring = disk.keyring \ {i} /\ disk'.state = disk.state
          /\ at' = "idle" /\ UNCHANGED recall /\ ~ ActiveOf(disk.state, i)
      BY <1>0, <1>5 DEF Forget, MayForget, TypeOK, Records
    <2> QED
      BY <1>0, <2>1 DEF KeyringsOnTheWay, IssuersKnown
  <1>6. ASSUME NEW w \in writes, LandKeyring(w)
        PROVE  KeyringsOnTheWay' /\ IssuersKnown'
    <2>1. /\ disk'.keyring = w /\ disk'.state = disk.state
          /\ writes' = writes \ {w} /\ at # "idle"
          /\ UNCHANGED <<recall, at, mem>>
      BY <1>0, <1>6 DEF LandKeyring, TypeOK, Records, StepsInOrder
    <2> QED
      BY <1>0, <2>1 DEF KeyringsOnTheWay, IssuersKnown
  <1>7. CASE SyncStart
    <2>1. /\ mem'.keyring = disk.keyring /\ mem'.state = {} /\ writes = {}
          /\ UNCHANGED <<recall, disk, writes>>
      BY <1>0, <1>7 DEF SyncStart, StepsInOrder
    <2>2. \A i \in Issuer : ~ ActiveOf(mem'.state, i)
      BY <2>1 DEF ActiveOf
    <2> QED
      BY <1>0, <2>1, <2>2 DEF KeyringsOnTheWay, IssuersKnown
  <1>8. CASE SyncLoad
    <2>1. /\ mem'.keyring = mem.keyring /\ mem'.state = disk.state
          /\ at # "idle" /\ UNCHANGED <<recall, disk, writes>>
      BY <1>0, <1>8 DEF SyncLoad, TypeOK, Records
    <2> QED
      BY <1>0, <2>1 DEF KeyringsOnTheWay, IssuersKnown
  <1>9. CASE PullPage
    BY <1>0, <1>9 DEF PullPage, TypeOK, StepsInOrder, KeyringsOnTheWay, IssuersKnown
  <1>10. CASE ApplyEntry
    <2> DEFINE r == recall \cup {Head(page).sender}
    <2>1. /\ mem'.keyring = mem.keyring
          /\ \A i \in Issuer : ActiveOf(mem'.state, i) =>
                ActiveOf(mem.state, i) \/ i \in r \cup mem.keyring
      BY <1>0, <1>10, ApplyEntryEffect, Zenon
    <2>2. /\ recall' = r /\ at # "idle" /\ at' = at
          /\ UNCHANGED <<disk, writes>>
      BY <1>10 DEF ApplyEntry
    <2> QED
      BY <1>0, <2>1, <2>2 DEF KeyringsOnTheWay, IssuersKnown
  <1>11. CASE EndPage
    BY <1>0, <1>11 DEF EndPage, TypeOK, StepsInOrder, KeyringsOnTheWay, IssuersKnown
  <1>12. ASSUME NEW m \in mail, Fetch(m)
        PROVE  KeyringsOnTheWay' /\ IssuersKnown'
    BY <1>0, <1>12 DEF Fetch, TypeOK, StepsInOrder, KeyringsOnTheWay, IssuersKnown
  <1>13. ASSUME NEW h \in handlers, Handle(h)
        PROVE  KeyringsOnTheWay' /\ IssuersKnown'
    <2>1. /\ mem'.keyring = mem.keyring
          /\ \A i \in Issuer : ActiveOf(mem'.state, i) =>
                ActiveOf(mem.state, i) \/ i \in recall \cup mem.keyring
      BY <1>0, <1>13, HandleEffect, Zenon
    <2>2. /\ at # "idle" /\ at' = at
          /\ UNCHANGED <<recall, disk, writes>>
      BY <1>13 DEF Handle
    <2> QED
      BY <1>0, <2>1, <2>2 DEF KeyringsOnTheWay, IssuersKnown
  <1>14. CASE EndMail
    BY <1>0, <1>14 DEF EndMail, TypeOK, StepsInOrder, KeyringsOnTheWay, IssuersKnown
  <1>15. CASE SaveState
    <2>1. /\ disk'.keyring = disk.keyring /\ disk'.state = mem.state
          /\ at # "idle" /\ UNCHANGED <<recall, mem, writes>>
      BY <1>0, <1>15 DEF SaveState, TypeOK, Records
    <2> QED
      BY <1>0, <2>1 DEF KeyringsOnTheWay, IssuersKnown
  <1>16. CASE SaveKeyring
    <2>1. /\ disk'.keyring = mem.keyring /\ disk'.state = disk.state
          /\ at # "idle" /\ UNCHANGED <<recall, mem, writes>>
      BY <1>0, <1>16 DEF SaveKeyring, TypeOK, Records
    <2> QED
      BY <1>0, <2>1 DEF KeyringsOnTheWay, IssuersKnown
  <1>17. CASE Exit
    BY <1>0, <1>17 DEF Exit, Stop, KeyringsOnTheWay, IssuersKnown
  <1>18. CASE MailFails
    BY <1>0, <1>18 DEF MailFails, TypeOK, StepsInOrder, KeyringsOnTheWay, IssuersKnown
  <1>19. CASE Abort
    BY <1>0, <1>19 DEF Abort, Stop, KeyringsOnTheWay, IssuersKnown
  <1>20. ASSUME NEW o \in Op, ApplyFile(o)
        PROVE  KeyringsOnTheWay' /\ IssuersKnown'
    <2>1. /\ disk'.keyring = disk.keyring /\ disk'.state = disk.state \cup {o}
          /\ at' = "idle" /\ UNCHANGED recall /\ o.issuer \in disk.keyring
      BY <1>0, <1>20 DEF ApplyFile, TypeOK, Records
    <2>2. \A i \in Issuer : ActiveOf(disk'.state, i) =>
                               ActiveOf(disk.state, i) \/ i = o.issuer
      BY <2>1 DEF ActiveOf
    <2> QED
      BY <1>0, <2>1, <2>2 DEF KeyringsOnTheWay, IssuersKnown
  <1>21. CASE UNCHANGED vars
    BY <1>0, <1>21 DEF vars, TypeOK, StepsInOrder, KeyringsOnTheWay, IssuersKnown
  <1>22. ASSUME NEW t \in Time, SetClock(t)
        PROVE  KeyringsOnTheWay' /\ IssuersKnown'
    BY <1>0, <1>22 DEF SetClock, TypeOK, StepsInOrder, KeyringsOnTheWay, IssuersKnown
  <1> QED
    BY <1>1, <1>2, <1>3, <1>4, <1>5, <1>6, <1>7, <1>8, <1>9, <1>10, <1>11, <1>12, <1>13, <1>14, <1>15, <1>16, <1>17, <1>18, <1>19, <1>20, <1>21, <1>22
       DEF Next, Sync

(* A publisher's own operation is verified with the key that came with it. *)
LEMMA SenderStep ==
    ASSUME IInv, [Next]_vars
    PROVE  OwnPublicationVerifies'
  <1> USE DEF outside, process, history
  <1>0. TypeOK /\ OwnPublicationVerifies
    BY DEF IInv
  <1>1. ASSUME NEW e \in Entry, Publish(e)
        PROVE  OwnPublicationVerifies'
    BY <1>0, <1>1 DEF Publish, OwnPublicationVerifies
  <1>2. ASSUME NEW m \in Message, SendMail(m)
        PROVE  OwnPublicationVerifies'
    BY <1>0, <1>2 DEF SendMail, OwnPublicationVerifies
  <1>3. ASSUME NEW i \in Issuer, Announce(i)
        PROVE  OwnPublicationVerifies'
    BY <1>0, <1>3 DEF Announce, OwnPublicationVerifies
  <1>4. ASSUME NEW i \in Issuer, Remember(i)
        PROVE  OwnPublicationVerifies'
    BY <1>0, <1>4 DEF Remember, OwnPublicationVerifies
  <1>5. ASSUME NEW i \in Issuer, Forget(i)
        PROVE  OwnPublicationVerifies'
    BY <1>0, <1>5 DEF Forget, OwnPublicationVerifies
  <1>6. ASSUME NEW w \in writes, LandKeyring(w)
        PROVE  OwnPublicationVerifies'
    BY <1>0, <1>6 DEF LandKeyring, OwnPublicationVerifies
  <1>7. CASE SyncStart
    BY <1>0, <1>7 DEF SyncStart, OwnPublicationVerifies
  <1>8. CASE SyncLoad
    BY <1>0, <1>8 DEF SyncLoad, OwnPublicationVerifies
  <1>9. CASE PullPage
    BY <1>0, <1>9 DEF PullPage, OwnPublicationVerifies
  <1>10. CASE ApplyEntry
    <2> DEFINE e == Head(page)
    <2>1. \A d \in dropped' \ dropped :
             /\ d.op = e.op /\ d.sender = {e.sender}
             /\ d.fresh => e.op.issuer \notin recall \cup {e.sender}
      BY <1>0, <1>10, ApplyEntryEffect, Zenon
    <2> QED
      BY <1>0, <2>1 DEF OwnPublicationVerifies
  <1>11. CASE EndPage
    BY <1>0, <1>11 DEF EndPage, OwnPublicationVerifies
  <1>12. ASSUME NEW m \in mail, Fetch(m)
        PROVE  OwnPublicationVerifies'
    BY <1>0, <1>12 DEF Fetch, OwnPublicationVerifies
  <1>13. ASSUME NEW h \in handlers, Handle(h)
        PROVE  OwnPublicationVerifies'
    <2>1. \A d \in dropped' \ dropped :
             d.op = Head(h) /\ d.sender = {} /\ (d.fresh => Head(h).issuer \notin recall)
      BY <1>0, <1>13, HandleEffect, Zenon
    <2> QED
      BY <1>0, <2>1 DEF OwnPublicationVerifies
  <1>14. CASE EndMail
    BY <1>0, <1>14 DEF EndMail, OwnPublicationVerifies
  <1>15. CASE SaveState
    BY <1>0, <1>15 DEF SaveState, OwnPublicationVerifies
  <1>16. CASE SaveKeyring
    BY <1>0, <1>16 DEF SaveKeyring, OwnPublicationVerifies
  <1>17. CASE Exit
    BY <1>0, <1>17 DEF Exit, OwnPublicationVerifies
  <1>18. CASE MailFails
    BY <1>0, <1>18 DEF MailFails, OwnPublicationVerifies
  <1>19. CASE Abort
    BY <1>0, <1>19 DEF Abort, OwnPublicationVerifies
  <1>20. ASSUME NEW o \in Op, ApplyFile(o)
        PROVE  OwnPublicationVerifies'
    BY <1>0, <1>20 DEF ApplyFile, OwnPublicationVerifies
  <1>21. CASE UNCHANGED vars
    BY <1>0, <1>21 DEF vars, OwnPublicationVerifies
  <1>22. ASSUME NEW t \in Time, SetClock(t)
        PROVE  OwnPublicationVerifies'
    BY <1>0, <1>22 DEF SetClock, OwnPublicationVerifies
  <1> QED
    BY <1>1, <1>2, <1>3, <1>4, <1>5, <1>6, <1>7, <1>8, <1>9, <1>10, <1>11, <1>12, <1>13, <1>14, <1>15, <1>16, <1>17, <1>18, <1>19, <1>20, <1>21, <1>22
       DEF Next, Sync

(* What a sync has in hand reaches the store. *)
LEMMA LossStep ==
    ASSUME IInv, [Next]_vars
    PROVE  StateGrows' /\ SavedAtTheEnd' /\ NothingLostYet'
  <1> USE DEF outside, process, history
  <1>0. /\ TypeOK /\ StepsInOrder
        /\ StateGrows /\ SavedAtTheEnd /\ NothingLostYet
    BY DEF IInv
  <1>1. ASSUME NEW e \in Entry, Publish(e)
        PROVE  StateGrows' /\ SavedAtTheEnd' /\ NothingLostYet'
    BY <1>0, <1>1 DEF Publish, StateGrows, SavedAtTheEnd, NothingLostYet, InHand
  <1>2. ASSUME NEW m \in Message, SendMail(m)
        PROVE  StateGrows' /\ SavedAtTheEnd' /\ NothingLostYet'
    BY <1>0, <1>2 DEF SendMail, StateGrows, SavedAtTheEnd, NothingLostYet, InHand
  <1>3. ASSUME NEW i \in Issuer, Announce(i)
        PROVE  StateGrows' /\ SavedAtTheEnd' /\ NothingLostYet'
    <2>1. /\ mem'.state = mem.state
          /\ UNCHANGED <<disk, at, page, handlers, history>>
      BY <1>0, <1>3 DEF Announce, TypeOK, Records, StepsInOrder
    <2> QED
      BY <1>0, <2>1 DEF StateGrows, SavedAtTheEnd, NothingLostYet, InHand
  <1>4. ASSUME NEW i \in Issuer, Remember(i)
        PROVE  StateGrows' /\ SavedAtTheEnd' /\ NothingLostYet'
    <2>1. /\ disk'.state = disk.state
          /\ UNCHANGED <<mem, at, page, handlers, history>>
      BY <1>0, <1>4 DEF Remember, TypeOK, Records, StepsInOrder
    <2> QED
      BY <1>0, <2>1 DEF StateGrows, SavedAtTheEnd, NothingLostYet, InHand
  <1>5. ASSUME NEW i \in Issuer, Forget(i)
        PROVE  StateGrows' /\ SavedAtTheEnd' /\ NothingLostYet'
    <2>1. /\ disk'.state = disk.state
          /\ UNCHANGED <<mem, at, page, handlers, history>>
      BY <1>0, <1>5 DEF Forget, TypeOK, Records, StepsInOrder
    <2> QED
      BY <1>0, <2>1 DEF StateGrows, SavedAtTheEnd, NothingLostYet, InHand
  <1>6. ASSUME NEW w \in writes, LandKeyring(w)
        PROVE  StateGrows' /\ SavedAtTheEnd' /\ NothingLostYet'
    <2>1. /\ disk'.state = disk.state
          /\ UNCHANGED <<mem, at, page, handlers, history>>
      BY <1>0, <1>6 DEF LandKeyring, TypeOK, Records, StepsInOrder
    <2> QED
      BY <1>0, <2>1 DEF StateGrows, SavedAtTheEnd, NothingLostYet, InHand
  <1>7. CASE SyncStart
    <2>1. /\ at = "idle" /\ at' = "load" /\ mem.state = {}
          /\ mem'.state = {} /\ handlers = {}
          /\ UNCHANGED <<disk, page, handlers, history>>
      BY <1>0, <1>7 DEF SyncStart, TypeOK, Records, StepsInOrder
    <2> QED
      BY <1>0, <2>1 DEF StateGrows, SavedAtTheEnd, NothingLostYet, InHand
  <1>8. CASE SyncLoad
    <2>1. /\ at = "load" /\ at' \in {"pull", "mail"} /\ mem.state = {}
          /\ mem'.state = disk.state /\ handlers = {}
          /\ UNCHANGED <<disk, page, handlers, history>>
      BY <1>0, <1>8 DEF SyncLoad, TypeOK, Records, StepsInOrder
    <2> QED
      BY <1>0, <2>1 DEF StateGrows, SavedAtTheEnd, NothingLostYet, InHand
  <1>9. CASE PullPage
    <2>1. /\ at = "pull" /\ at' = "page" /\ page = <<>> /\ page' = FirstPage
          /\ taken' = taken \cup {FirstPage[k].op : k \in DOMAIN FirstPage}
          /\ UNCHANGED <<disk, mem, handlers, dropped, fails>>
      BY <1>0, <1>9 DEF PullPage, StepsInOrder
    <2>2. {page[k].op : k \in DOMAIN page} = {}
      BY <2>1, EmptyHasNone DEF PageOps
    <2>3. InHand' = InHand \cup {FirstPage[k].op : k \in DOMAIN FirstPage}
      BY <2>1, <2>2 DEF InHand
    <2> QED
      BY <1>0, <2>1, <2>3 DEF StateGrows, SavedAtTheEnd, NothingLostYet
  <1>10. CASE ApplyEntry
    <2> DEFINE e == Head(page)
    <2>1. /\ PageOps(page) = {e.op} \cup PageOps(Tail(page))
          /\ mem.state \subseteq mem'.state
          /\ e.op \in mem'.state \cup {d.op : d \in dropped'}
          /\ dropped \subseteq dropped'
      BY <1>0, <1>10, ApplyEntryEffect, Zenon
    <2>2. /\ at = "page" /\ page' = Tail(page)
          /\ UNCHANGED <<disk, at, handlers, taken, fails>>
      BY <1>10 DEF ApplyEntry
    <2>3. InHand \subseteq InHand' \cup {e.op}
      BY <2>1, <2>2 DEF InHand, PageOps
    <2>4. {d.op : d \in dropped} \subseteq {d.op : d \in dropped'}
      BY <2>1
    <2>5. e.op \in InHand' \cup {d.op : d \in dropped'}
      BY <2>1 DEF InHand
    <2>6. NothingLostYet'
      BY <1>0, <2>2, <2>3, <2>4, <2>5 DEF NothingLostYet
    <2> QED
      BY <1>0, <2>1, <2>2, <2>6 DEF StateGrows, SavedAtTheEnd
  <1>11. CASE EndPage
    <2>1. /\ at = "page" /\ at' \in {"pull", "mail"}
          /\ UNCHANGED <<disk, mem, page, handlers, history>>
      BY <1>0, <1>11 DEF EndPage, TypeOK, Records, StepsInOrder
    <2> QED
      BY <1>0, <2>1 DEF StateGrows, SavedAtTheEnd, NothingLostYet, InHand
  <1>12. ASSUME NEW m \in mail, Fetch(m)
        PROVE  StateGrows' /\ SavedAtTheEnd' /\ NothingLostYet'
    <2>1. /\ at = "mail" /\ handlers' = handlers \cup {m}
          /\ taken' = taken \cup Ops(m)
          /\ UNCHANGED <<disk, mem, page, at, dropped, fails>>
      BY <1>12 DEF Fetch
    <2>2. InHand' = InHand \cup Ops(m)
      BY <2>1 DEF InHand
    <2> QED
      BY <1>0, <2>1, <2>2 DEF StateGrows, SavedAtTheEnd, NothingLostYet
  <1>13. ASSUME NEW h \in handlers, Handle(h)
        PROVE  StateGrows' /\ SavedAtTheEnd' /\ NothingLostYet'
    <2>1. /\ Ops(h) = {Head(h)} \cup Ops(Tail(h))
          /\ mem.state \subseteq mem'.state
          /\ Head(h) \in mem'.state \cup {d.op : d \in dropped'}
          /\ dropped \subseteq dropped'
      BY <1>0, <1>13, HandleEffect, Zenon
    <2>2. /\ handlers' = (handlers \ {h}) \cup ({Tail(h)} \ {<<>>})
          /\ UNCHANGED <<disk, at, page, taken, fails>>
      BY <1>13 DEF Handle, Rest
    <2>3. ASSUME NEW o \in Ops(Tail(h))
          PROVE  o \in UNION {Ops(g) : g \in handlers'}
      BY <2>2, <2>3, EmptyHasNone
    <2> DEFINE inPage == {page[k].op : k \in DOMAIN page}
               before == UNION {Ops(g) : g \in handlers}
               after == UNION {Ops(g) : g \in handlers'}
    <2>4. InHand \subseteq InHand' \cup {Head(h)}
      <3>1. Ops(Tail(h)) \subseteq after
        BY <2>3
      <3>2. \A g \in handlers : g # h => Ops(g) \subseteq after
        BY <2>2
      <3>3. Ops(h) \subseteq after \cup {Head(h)}
        BY <2>1, <3>1
      <3>4. before \subseteq after \cup {Head(h)}
        BY <3>2, <3>3
      <3>5. inPage' = inPage
        BY <2>2
      <3>6. /\ InHand = mem.state \cup inPage \cup before
            /\ InHand' = mem'.state \cup inPage' \cup after
        BY DEF InHand
      <3> HIDE DEF inPage, before, after
      <3> QED
        BY <2>1, <3>4, <3>5, <3>6
    <2>5. {d.op : d \in dropped} \subseteq {d.op : d \in dropped'}
      BY <2>1
    <2>6. Head(h) \in InHand' \cup {d.op : d \in dropped'}
      BY <2>1 DEF InHand
    <2>7. NothingLostYet'
      BY <1>0, <2>2, <2>4, <2>5, <2>6 DEF NothingLostYet
    <2>8. fails = 0 => at = "mail"
      BY <1>0, <1>13 DEF SavedAtTheEnd
    <2> QED
      BY <1>0, <2>1, <2>2, <2>7, <2>8 DEF StateGrows, SavedAtTheEnd
  <1>14. CASE EndMail
    BY <1>0, <1>14 DEF EndMail, StateGrows, SavedAtTheEnd, NothingLostYet, InHand
  <1>15. CASE SaveState
    <2>1. /\ at = "saveState" /\ at' = "saveKeyring"
          /\ disk'.state = mem.state
          /\ UNCHANGED <<mem, page, handlers, history>>
      BY <1>0, <1>15 DEF SaveState, TypeOK, Records, StepsInOrder
    <2> QED
      BY <1>0, <2>1 DEF StateGrows, SavedAtTheEnd, NothingLostYet, InHand
  <1>16. CASE SaveKeyring
    <2>1. /\ at = "saveKeyring" /\ at' = "exit"
          /\ disk'.state = disk.state
          /\ UNCHANGED <<mem, page, handlers, history>>
      BY <1>0, <1>16 DEF SaveKeyring, TypeOK, Records, StepsInOrder
    <2> QED
      BY <1>0, <2>1 DEF StateGrows, SavedAtTheEnd, NothingLostYet, InHand
  <1>17. CASE Exit
    <2>1. /\ at = "exit" /\ at' = "idle" /\ page = <<>> /\ handlers' = {}
          /\ UNCHANGED <<disk, history>>
      BY <1>0, <1>17 DEF Exit, Stop, StepsInOrder
    <2>2. fails = 0 => mem.state \subseteq disk.state /\ handlers = {}
      BY <1>0, <2>1 DEF SavedAtTheEnd
    <2>3. {page[k].op : k \in DOMAIN page} = {}
      BY <2>1, EmptyHasNone DEF PageOps
    <2>4. fails = 0 => taken \subseteq disk.state \cup {d.op : d \in dropped}
      BY <1>0, <2>2, <2>3 DEF NothingLostYet, InHand
    <2> QED
      BY <2>1, <2>4 DEF StateGrows, SavedAtTheEnd, NothingLostYet
  <1>18. CASE MailFails
    <2>1. /\ at = "mail" /\ at' = "saveState" /\ fails' # 0
          /\ UNCHANGED <<disk, mem>>
      BY <1>0, <1>18 DEF MailFails, TypeOK
    <2> QED
      BY <1>0, <2>1 DEF StateGrows, SavedAtTheEnd, NothingLostYet
  <1>19. CASE Abort
    <2>1. at' = "idle" /\ fails' # 0
      BY <1>0, <1>19 DEF Abort, Stop, TypeOK
    <2> QED
      BY <2>1 DEF StateGrows, SavedAtTheEnd, NothingLostYet
  <1>20. ASSUME NEW o \in Op, ApplyFile(o)
        PROVE  StateGrows' /\ SavedAtTheEnd' /\ NothingLostYet'
    <2>1. /\ disk'.state = disk.state \cup {o} /\ at = "idle"
          /\ UNCHANGED <<mem, at, page, handlers, history>>
      BY <1>0, <1>20 DEF ApplyFile, TypeOK, Records, StepsInOrder
    <2> QED
      BY <1>0, <2>1 DEF StateGrows, SavedAtTheEnd, NothingLostYet, InHand
  <1>21. CASE UNCHANGED vars
    BY <1>0, <1>21 DEF vars, StateGrows, SavedAtTheEnd, NothingLostYet, InHand
  <1>22. ASSUME NEW t \in Time, SetClock(t)
        PROVE  StateGrows' /\ SavedAtTheEnd' /\ NothingLostYet'
    BY <1>0, <1>22 DEF SetClock, StateGrows, SavedAtTheEnd, NothingLostYet, InHand
  <1> QED
    BY <1>1, <1>2, <1>3, <1>4, <1>5, <1>6, <1>7, <1>8, <1>9, <1>10, <1>11, <1>12, <1>13, <1>14, <1>15, <1>16, <1>17, <1>18, <1>19, <1>20, <1>21, <1>22
       DEF Next, Sync

LEMMA IntakeInductive == Spec => []IInv
  <1>1. IInv /\ [Next]_vars => IInv'
    BY TypeStep, KeyStep, LossStep, SenderStep DEF IInv
  <1> QED
    BY InitHolds, <1>1, PTL DEF Spec

------------------------------------------------------------------------------
(* The queue, the mail and the records keep their types (dacar.js cmdSync,   *)
(* rfedSync.js, lxmfSync.js).                                                *)
THEOREM IntakeTypeCorrect == Spec => []TypeOK
  <1>1. IInv => TypeOK
    BY DEF IInv
  <1> QED
    BY <1>1, IntakeInductive, PTL

(* As long as no sync failed, nothing that left the queue or the mail is     *)
(* lost, but for operations that were not fresh when they were looked at and *)
(* those someone else published whose issuer is unknown (dacar.js cmdSync,   *)
(* rfedSync.js pull, _rememberSender, lxmfSync.js handleMessage, crdt.js     *)
(* apply).                                                                   *)
THEOREM NothingLost == Spec => []NothingLostUnlessFailed
  <1>1. IInv => NothingLostUnlessFailed
    <2>1. SUFFICES ASSUME IInv
                   PROVE  NothingLostUnlessFailed
      OBVIOUS
    <2>2. {x \in dropped : x.fresh => x.op.issuer \notin x.sender} = dropped
      BY <2>1 DEF IInv, OwnPublicationVerifies
    <2>3. QED
      BY <2>1, <2>2 DEF IInv, NothingLostYet, NothingLostUnlessFailed
  <1> QED
    BY <1>1, IntakeInductive, PTL

(* The issuer of every grant in force is known to the next sync, in whatever *)
(* order keyrings were written (dacar.js cmdIdentityForget, cmdSync).        *)
THEOREM GrantsCanBeRevoked == Spec => []RevocationsVerifiable
  <1>1. IInv => RevocationsVerifiable
    BY DEF IInv, IssuersKnown, RevocationsVerifiable
  <1> QED
    BY <1>1, IntakeInductive, PTL

(* An identity leaves the stored keyring only when the owner forgets it or   *)
(* the network stack recalls it, in whatever order the announce handler's    *)
(* writes land (session.js registerAnnounceHandler, store.js saveKeyring,    *)
(* dacar.js cmdIdentityForget).                                              *)
THEOREM RememberedKeysStay == Spec => KeyringKeepsRemembered
  <1> DEFINE Kept == \A i \in disk.keyring \ disk'.keyring :
                        i \in recall \/ (at = "idle" /\ ~ ActiveOf(disk.state, i))
  <1>1. IInv /\ [Next]_vars => [Kept]_vars
    <2> SUFFICES ASSUME IInv, Next, NEW i \in disk.keyring, i \notin disk'.keyring
                 PROVE  i \in recall \/ (at = "idle" /\ ~ ActiveOf(disk.state, i))
      OBVIOUS
    <2> USE DEF outside, process, history
    <2>1. TypeOK /\ StepsInOrder /\ KeyringsOnTheWay
      BY DEF IInv
    <2>2. ASSUME disk' = disk
          PROVE  FALSE
      BY <2>2
    <2>3. ASSUME disk'.keyring = disk.keyring
          PROVE  FALSE
      BY <2>3
    <2>4. ASSUME NEW j \in Issuer, Remember(j)
          PROVE  FALSE
      <3>1. disk'.keyring = disk.keyring \cup {j}
        BY <2>1, <2>4 DEF Remember, TypeOK, Records
      <3> QED
        BY <3>1
    <2>5. ASSUME NEW j \in Issuer, Forget(j)
          PROVE  at = "idle" /\ ~ ActiveOf(disk.state, i)
      <3>1. /\ disk'.keyring = disk.keyring \ {j} /\ at = "idle"
            /\ ~ ActiveOf(disk.state, j)
        BY <2>1, <2>5 DEF Forget, MayForget, TypeOK, Records
      <3> QED
        BY <3>1
    <2>6. ASSUME NEW w \in writes, LandKeyring(w)
          PROVE  i \in recall
      <3>1. disk'.keyring = w /\ at # "idle"
        BY <2>1, <2>6 DEF LandKeyring, TypeOK, Records, StepsInOrder
      <3> QED
        BY <2>1, <3>1 DEF KeyringsOnTheWay
    <2>7. CASE SaveKeyring
      <3>1. disk'.keyring = mem.keyring /\ at # "idle"
        BY <2>1, <2>7 DEF SaveKeyring, TypeOK, Records
      <3> QED
        BY <2>1, <3>1 DEF KeyringsOnTheWay
    <2>8. CASE SaveState
      <3>1. disk'.keyring = disk.keyring
        BY <2>1, <2>8 DEF SaveState, TypeOK, Records
      <3> QED
        BY <2>3, <3>1
    <2>9. ASSUME NEW o \in Op, ApplyFile(o)
          PROVE  FALSE
      <3>1. disk'.keyring = disk.keyring
        BY <2>1, <2>9 DEF ApplyFile, TypeOK, Records
      <3> QED
        BY <2>3, <3>1
    <2>10. CASE \/ \E t \in Time : SetClock(t)
                \/ \E e \in Entry : Publish(e)
                \/ \E m \in Message : SendMail(m)
                \/ \E j \in Issuer : Announce(j)
                \/ SyncStart \/ SyncLoad \/ PullPage \/ ApplyEntry \/ EndPage
                \/ \E m \in mail : Fetch(m)
                \/ \E h \in handlers : Handle(h)
                \/ EndMail \/ Exit \/ MailFails \/ Abort
      <3>1. disk' = disk
        BY <2>10 DEF SetClock, Publish, SendMail, Announce, SyncStart, SyncLoad,
           PullPage, ApplyEntry, EndPage, Fetch, Handle, EndMail, Exit, MailFails, Abort
      <3> QED
        BY <2>2, <3>1
    <2> QED
      BY <2>4, <2>5, <2>6, <2>7, <2>8, <2>9, <2>10 DEF Next, Sync
  <1>2. Spec => [][Kept]_vars
    BY IntakeInductive, <1>1, PTL DEF Spec
  <1> QED
    BY <1>2 DEF KeyringKeepsRemembered
==============================================================================
