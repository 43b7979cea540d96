---------------------------- MODULE IssuanceProofs ----------------------------
(***************************************************************************)
(* Proofs about Issuance, for any commands side by side of which one at     *)
(* most issues, killed at any step, their records cut short: stamps         *)
(* increase, the clock covers what is stored, and the sent box holds what a *)
(* transport took.                                                          *)
(***************************************************************************)
EXTENDS Issuance, StateVectorProofs, FiniteSetTheorems, SequenceTheorems

Issues(p) == MayRun[p] \cap {"issue", "stage"} # {}

(* At most one of the commands side by side issues: two of them may load    *)
(* the same clock, and nothing keeps them apart.                            *)
OneIssuer == \A p, q \in Proc : Issues(p) /\ Issues(q) => p = q

Issued == 1 .. Len(stamp)

Sending == {"send", "drain", "saveDrain", "log", "saveLog"}
Boxing  == {"saveQueue", "saveDrain", "saveLog", "savePrunedOutbox", "savePrunedSent"}

(* The local variables of a command about to take step a, when the          *)
(* transports have taken T: what it names was issued, what it means to log  *)
(* was taken.                                                               *)
Fits(a, j, T) ==
    /\ j \in Job
    /\ j.op <= Len(stamp) /\ j.batch \subseteq Issued /\ j.accepted \subseteq Issued
    /\ j.box \ Foreign \subseteq Issued
    /\ a \in Boxing => j.box \subseteq Issued
    /\ a \in Sending \cup {"sent"} => j.legs # <<>>
    /\ a \in Sending \ {"send"} => j.accepted \subseteq T
    /\ a \in {"saveLog", "savePrunedSent"} => j.box \subseteq T
    /\ a \in {"apply", "queue"} => j.op # 0
    /\ a = "apply" => j.kind = "issue"
    /\ a = "saveState" =>
          j.kind \in {"issue", "sync", "prune"} /\ (j.kind = "issue" => j.op # 0)
    /\ a = "fetch" => j.kind = "sync"

(* A command about to stamp is the one that issues, and its clock is ahead  *)
(* of the saved one.                                                        *)
Stamps(p, j) ==
    /\ Issues(p) /\ j.kind \in {"issue", "stage"} /\ Len(stamp) < MaxIssued
    /\ HlcOf(disk.clock) < HlcOf(j.clock) /\ j.clock.logical < LogicalSize

JobsFit == \A p \in Proc : Fits(at[p], job[p], taken)
Stamping == \A p \in Proc : at[p] = "stamp" => Stamps(p, job[p])

RecordsFit ==
    /\ disk.outbox \subseteq Issued /\ disk.sent \subseteq Issued
    /\ disk.state \ Foreign \subseteq Issued

ClockAhead ==
    /\ HlcOf(disk.clock) \in Nat /\ disk.clock.logical < LogicalSize
    /\ \A i \in Issued : stamp[i] <= HlcOf(disk.clock)

IInv ==
    /\ TypeOK /\ JobsFit /\ Stamping /\ RecordsFit /\ ClockAhead
    /\ StampsIncrease /\ SentWasTaken

------------------------------------------------------------------------------
LEMMA NoJobFits ==
    ASSUME TypeOK, NEW T
    PROVE  Fits("idle", NoJob, T)
<1>1. NoJob \in Job
  <2>1. 0 \in 0 .. MaxIssued
    BY IssuanceAssumption
  <2>2. <<>> \in Seq(Leg)
    OBVIOUS
  <2> QED
    BY <2>1, <2>2 DEF NoJob, Job, Kind, Clock, NewClock
<1>2. Len(stamp) \in Nat
  BY DEF TypeOK
<1> QED
  BY <1>1, <1>2 DEF Fits, NoJob, Boxing, Sending

LEMMA InitHolds == Init => IInv
<1> SUFFICES ASSUME Init PROVE IInv
  OBVIOUS
<1>1. NewClock \in Clock /\ HlcOf(NewClock) = 0 /\ NewClock.logical < LogicalSize
  BY LogicalSizeAssumption DEF NewClock, Clock, HlcOf, packHlc
<1>2. TypeOK
  <2>1. /\ wall \in Time /\ prunedAt \in Time /\ crashes \in 0 .. MaxCrashes
    BY IssuanceAssumption DEF Init
  <2>2. disk \in Disk
    BY <1>1 DEF Init, Disk
  <2>3. job \in [Proc -> Job]
    <3>1. NoJob \in Job
      <4>1. 0 \in 0 .. MaxIssued
        BY IssuanceAssumption
      <4>2. <<>> \in Seq(Leg)
        OBVIOUS
      <4> QED
        BY <4>1, <4>2 DEF NoJob, Job, Kind, Clock, NewClock
    <3> QED
      BY <3>1 DEF Init
  <2>4. at \in [Proc -> Step]
    BY DEF Init, Step
  <2>5. stamp \in Seq(Nat) /\ Len(stamp) <= MaxIssued
    BY IssuanceAssumption DEF Init
  <2> QED
    BY <2>1, <2>2, <2>3, <2>4, <2>5 DEF Init, TypeOK
<1>3. JobsFit
  BY <1>2, NoJobFits DEF Init, JobsFit
<1>4. Issued = {}
  BY DEF Init, Issued
<1>5. QED
  BY <1>1, <1>2, <1>3, <1>4
     DEF IInv, Init, Stamping, RecordsFit, ClockAhead, StampsIncrease, SentWasTaken, Issued

(* Any step that issues nothing and leaves the clock alone: it is enough     *)
(* that the new local variables fit, and what is stored.                    *)
LEMMA WriteStep ==
    ASSUME IInv, NEW p \in Proc, NEW from, NEW to \in Step, NEW j,
           Go(p, from, to, j),
           to = "stamp" => Stamps(p, j),
           to # "idle" => Fits(to, j, taken'),
           stamp' = stamp,
           taken \subseteq taken', taken' \subseteq Own,
           disk' \in Disk, disk'.clock = disk.clock,
           disk'.outbox \subseteq Issued, disk'.sent \subseteq Issued \cap taken',
           disk'.state \ Foreign \subseteq Issued,
           queued' \subseteq Own, held' \subseteq Delta, prunedAt' \in Time,
           crashes' \in 0 .. MaxCrashes
    PROVE  IInv'
<1> DEFINE new == IF to = "idle" THEN NoJob ELSE j
<1>1. TypeOK
  BY DEF IInv
<1>2. Fits(to, new, taken')
  <2>1. CASE to = "idle"
    BY <1>1, <2>1, NoJobFits
  <2>2. CASE to # "idle"
    BY <2>2
  <2> QED
    BY <2>1, <2>2
<1>3. new \in Job
  BY <1>2 DEF Fits
<1>4. /\ at' = [at EXCEPT ![p] = to] /\ job' = [job EXCEPT ![p] = new] /\ wall' = wall
      /\ at \in [Proc -> Step] /\ job \in [Proc -> Job]
  BY <1>1 DEF Go, TypeOK
<1> HIDE DEF new
<1>5. TypeOK'
  BY <1>1, <1>3, <1>4 DEF TypeOK
<1>6. \A q \in Proc : /\ q = p => at'[q] = to /\ job'[q] = new
                      /\ q # p => at'[q] = at[q] /\ job'[q] = job[q]
  BY <1>4
<1>7. \A q \in Proc : Fits(at'[q], job'[q], taken')
  <2> SUFFICES ASSUME NEW q \in Proc PROVE Fits(at'[q], job'[q], taken')
    OBVIOUS
  <2>1. CASE q = p
    BY <1>2, <1>6, <2>1
  <2>2. CASE q # p
    <3>1. Fits(at[q], job[q], taken)
      BY DEF IInv, JobsFit
    <3>2. Fits(at[q], job[q], taken')
      BY <3>1 DEF Fits
    <3> QED
      BY <1>6, <2>2, <3>2
  <2> QED
    BY <2>1, <2>2
<1>8. JobsFit'
  BY <1>7 DEF JobsFit, Fits, Issued
<1>9. Stamping'
  <2>1. to = "stamp" => new = j
    BY DEF new
  <2> QED
    BY <1>6, <2>1 DEF IInv, Stamping, Stamps
<1>10. QED
  BY <1>5, <1>8, <1>9
     DEF IInv, RecordsFit, ClockAhead, StampsIncrease, SentWasTaken, Issued

(* A step that changes nothing durable. *)
LEMMA ReadStep ==
    ASSUME IInv, NEW p \in Proc, NEW from, NEW to \in Step, NEW j,
           Read(p, from, to, j),
           to = "stamp" => Stamps(p, j),
           to # "idle" => Fits(to, j, taken)
    PROVE  IInv'
<1>1. /\ UNCHANGED <<disk, stamp, queued, held, taken, prunedAt, crashes>>
      /\ Go(p, from, to, j)
  BY DEF Read, history
<1>2. /\ disk \in Disk /\ taken \subseteq Own /\ queued \subseteq Own
      /\ held \subseteq Delta /\ prunedAt \in Time /\ crashes \in 0 .. MaxCrashes
      /\ disk.outbox \subseteq Issued /\ disk.sent \subseteq Issued \cap taken
      /\ disk.state \ Foreign \subseteq Issued
  BY DEF IInv, TypeOK, RecordsFit, SentWasTaken
<1>3. to # "idle" => Fits(to, j, taken')
  BY <1>1
<1> QED
  BY <1>1, <1>2, <1>3, WriteStep

(* What the local variables of a command are, by the invariant. *)
LEMMA JobFacts ==
    ASSUME IInv, NEW p \in Proc
    PROVE  /\ Fits(at[p], job[p], taken)
           /\ job[p] \in Job /\ at[p] \in Step
           /\ disk \in Disk /\ Issued \subseteq Own /\ Len(stamp) \in Nat
<1>1. Fits(at[p], job[p], taken)
  BY DEF IInv, JobsFit
<1>2. disk \in Disk /\ at[p] \in Step /\ stamp \in Seq(Nat) /\ Len(stamp) <= MaxIssued
  BY DEF IInv, TypeOK
<1>3. Len(stamp) \in Nat
  BY <1>2
<1>4. Issued \subseteq Own
  BY <1>2, <1>3, IssuanceAssumption DEF Issued, Own
<1> QED
  BY <1>1, <1>2, <1>3, <1>4 DEF Fits

(* A command that starts has new local variables. *)
LEMMA StartIssueStep ==
    ASSUME IInv, OneIssuer, NEW p \in Proc, NEW kind, NEW legs \in IssueLegs,
           StartIssue(p, kind, legs)
    PROVE  IInv'
<1> DEFINE c == Advance(disk.clock, wall)
           j == [NoJob EXCEPT !.kind = kind, !.clock = c, !.legs = legs]
<1>1. TypeOK /\ disk.clock \in Clock /\ wall \in Nat /\ disk.clock.logical < LogicalSize
  BY IssuanceAssumption DEF IInv, TypeOK, Disk, ClockAhead
<1>2. c \in Clock /\ HlcOf(disk.clock) < HlcOf(c)
  BY <1>1, AdvanceExceeds
<1>3. /\ kind \in {"issue", "stage"} /\ kind \in MayRun[p]
      /\ Len(stamp) + Cardinality({q \in Proc : at[q] = "stamp"}) < MaxIssued
      /\ ~ Exhausted(c) /\ Read(p, "idle", "stamp", j) /\ at[p] = "idle"
  BY Zenon DEF StartIssue, Read, Go
<1>4. Issues(p)
  BY <1>3 DEF Issues
<1>5. {q \in Proc : at[q] = "stamp"} = {}
  BY <1>3, <1>4 DEF OneIssuer, IInv, Stamping, Stamps
<1>6. Len(stamp) < MaxIssued
  <2>1. Cardinality({q \in Proc : at[q] = "stamp"}) = 0
    BY <1>5, FS_EmptySet
  <2>2. Len(stamp) \in Nat
    BY JobFacts
  <2> QED
    BY <1>3, <2>1, <2>2
<1>7. Fits("idle", NoJob, taken)
  BY <1>1, NoJobFits
<1> HIDE DEF c
<1>8. legs \in Seq(Leg)
  <2>1. /\ <<>> \in Seq(Leg) /\ <<"rfed">> \in Seq(Leg) /\ <<"lxmf">> \in Seq(Leg)
        /\ <<"lxmf", "rfed">> \in Seq(Leg)
    BY DEF Leg
  <2> QED
    BY <2>1 DEF IssueLegs
<1>9. j \in Job /\ j.kind = kind /\ j.clock = c /\ j.op = 0 /\ j.box = {}
      /\ j.batch = {} /\ j.accepted = {}
  BY <1>2, <1>3, <1>7, <1>8 DEF Fits, Job, NoJob, Kind
<1> HIDE DEF j
<1>10. c.logical < LogicalSize
  BY <1>2, <1>3, LogicalSizeAssumption DEF Exhausted, Clock
<1>11. Stamps(p, j)
  BY <1>2, <1>3, <1>4, <1>6, <1>9, <1>10 DEF Stamps
<1>12. Fits("stamp", j, taken)
  BY <1>1, <1>9 DEF Fits, Boxing, Sending, TypeOK
<1> QED
  BY <1>3, <1>11, <1>12, ReadStep DEF Step

LEMMA StartOtherStep ==
    ASSUME IInv, NEW p \in Proc,
           \/ \E leg \in Leg, source \in Source : StartPublish(p, leg, source)
           \/ \E leg \in Leg, op \in 1 .. Len(stamp) : StartFile(p, leg, op)
           \/ StartSync(p)
    PROVE  IInv'
<1>0. /\ Fits("idle", NoJob, taken) /\ NoJob \in Job /\ disk \in Disk
      /\ Issued \subseteq Own /\ Len(stamp) \in Nat
  BY NoJobFits, JobFacts DEF IInv, Fits
<1>1. ASSUME NEW leg \in Leg, NEW source \in Source, StartPublish(p, leg, source)
      PROVE  IInv'
  <2> DEFINE j == [NoJob EXCEPT !.kind = "publish", !.legs = <<leg>>,
                          !.batch = IF source = "sent" THEN {} ELSE disk.outbox]
             to == IF source = "outbox" THEN "send" ELSE "sent"
  <2>1. disk.outbox \subseteq Issued
    BY DEF IInv, RecordsFit
  <2>2. <<leg>> \in Seq(Leg) /\ <<leg>> # <<>>
    OBVIOUS
  <2>3. (IF source = "sent" THEN {} ELSE disk.outbox) \subseteq Issued
    BY <2>1
  <2>4. /\ j \in Job /\ j.legs = <<leg>> /\ j.op = 0 /\ j.box = {} /\ j.accepted = {}
        /\ j.batch \subseteq Issued
    BY <1>0, <2>2, <2>3 DEF Fits, Job, NoJob, Kind
  <2>5. Read(p, "idle", to, j) /\ to \in {"send", "sent"}
    BY <1>1, Zenon DEF StartPublish
  <2> HIDE DEF j, to
  <2>6. Fits(to, j, taken)
    BY <1>0, <2>2, <2>4, <2>5 DEF Fits, Boxing, Sending
  <2> QED
    BY <2>5, <2>6, ReadStep DEF Step
<1>2. ASSUME NEW leg \in Leg, NEW op \in 1 .. Len(stamp), StartFile(p, leg, op)
      PROVE  IInv'
  <2> DEFINE j == [NoJob EXCEPT !.kind = "file", !.legs = <<leg>>, !.batch = {op}]
  <2>1. <<leg>> \in Seq(Leg) /\ <<leg>> # <<>> /\ {op} \subseteq Issued
    BY DEF Issued
  <2>2. /\ j \in Job /\ j.legs = <<leg>> /\ j.op = 0 /\ j.box = {} /\ j.accepted = {}
        /\ j.batch \subseteq Issued
    BY <1>0, <2>1 DEF Fits, Job, NoJob, Kind
  <2>3. Read(p, "idle", "send", j)
    BY <1>2, Zenon DEF StartFile
  <2> HIDE DEF j
  <2>4. Fits("send", j, taken)
    BY <1>0, <2>1, <2>2 DEF Fits, Boxing, Sending
  <2> QED
    BY <2>3, <2>4, ReadStep DEF Step
<1>3. ASSUME StartSync(p)
      PROVE  IInv'
  <2> DEFINE j == [NoJob EXCEPT !.box = disk.state]
  <2>1. disk.state \subseteq Delta /\ disk.state \ Foreign \subseteq Issued
    BY <1>0 DEF IInv, RecordsFit, Disk
  <2>2. /\ j \in Job /\ j.kind = "sync" /\ j.op = 0 /\ j.box = disk.state
        /\ j.batch = {} /\ j.accepted = {}
    BY <1>0, <2>1 DEF Job, NoJob
  <2>3. Read(p, "idle", "fetch", j)
    BY <1>3, Zenon DEF StartSync
  <2> HIDE DEF j
  <2>4. Fits("fetch", j, taken)
    BY <1>0, <2>1, <2>2 DEF Fits, Boxing, Sending
  <2> QED
    BY <2>3, <2>4, ReadStep DEF Step
<1> QED
  BY <1>1, <1>2, <1>3

(* The operation a command stamps becomes the latest one. *)
LEMMA StampStep ==
    ASSUME IInv, OneIssuer, NEW p \in Proc, Stamp(p)
    PROVE  IInv'
<1> DEFINE n == Len(stamp) + 1
           ts == HlcOf(job[p].clock)
           j == [job[p] EXCEPT !.op = n, !.batch = {n}]
           to == IF job[p].kind = "stage" THEN "queue" ELSE "apply"
<1>0. /\ Fits("stamp", job[p], taken) /\ job[p] \in Job /\ disk \in Disk
      /\ Issued \subseteq Own /\ Len(stamp) \in Nat /\ at[p] = "stamp"
  BY JobFacts DEF Stamp, Go
<1>1. /\ disk' = [disk EXCEPT !.clock = job[p].clock, !.broken = @ \ {"clock"}]
      /\ stamp' = Append(stamp, ts) /\ wall' = wall
      /\ at' = [at EXCEPT ![p] = to] /\ job' = [job EXCEPT ![p] = j]
      /\ UNCHANGED <<queued, held, taken, prunedAt, crashes>>
  BY <1>0, Zenon DEF Stamp, Go
<1>2. Stamps(p, job[p])
  BY <1>0 DEF IInv, Stamping
<1>3. TypeOK /\ stamp \in Seq(Nat) /\ at \in [Proc -> Step] /\ job \in [Proc -> Job]
  BY DEF IInv, TypeOK
<1>4. job[p].clock \in Clock /\ disk.clock \in Clock
  BY <1>0 DEF Job, Disk
<1>5. ts \in Nat /\ HlcOf(disk.clock) < ts
  <2> DEFINE c == job[p].clock
  <2>1. c.lastMs \in Nat /\ c.logical \in Nat /\ LogicalSize \in Nat
    BY <1>4, LogicalSizeAssumption DEF Clock
  <2>2. c.lastMs * LogicalSize \in Nat
    BY <2>1, SMT
  <2> QED
    BY <1>2, <2>1, <2>2 DEF Stamps, HlcOf, packHlc
<1> HIDE DEF ts
<1>6. /\ stamp' \in Seq(Nat) /\ Len(stamp') = n /\ stamp'[n] = ts
      /\ \A i \in 1 .. Len(stamp) : stamp'[i] = stamp[i]
  BY <1>0, <1>1, <1>3, <1>5
<1>7. Issued' = Issued \cup {n} /\ n \in Own
  BY <1>0, <1>2, <1>6, IssuanceAssumption DEF Issued, Own, Stamps
<1>8. /\ j \in Job /\ j.op = n /\ j.batch = {n} /\ j.kind = job[p].kind
      /\ j.accepted = job[p].accepted /\ j.box = job[p].box /\ n \in 0 .. MaxIssued
  <2>1. n \in 0 .. MaxIssued
    BY <1>7 DEF Own
  <2>2. {n} \in SUBSET Own
    BY <1>7
  <2> QED
    BY <1>0, <2>1, <2>2 DEF Job
<1>9. to \in {"queue", "apply"} /\ (to = "apply" => j.kind = "issue")
  BY <1>2, <1>8 DEF Stamps
<1> HIDE DEF j, to
<1>10. disk' \in Disk /\ disk'.clock = job[p].clock
       /\ disk'.outbox = disk.outbox /\ disk'.sent = disk.sent /\ disk'.state = disk.state
  BY <1>0, <1>1, <1>4 DEF Disk
<1>11. TypeOK'
  <2>1. n <= MaxIssued
    BY <1>7 DEF Own
  <2>2. at' \in [Proc -> Step]
    BY <1>1, <1>3, <1>9 DEF Step
  <2>3. job' \in [Proc -> Job]
    BY <1>1, <1>3, <1>8
  <2> QED
    BY <1>1, <1>3, <1>6, <1>10, <2>1, <2>2, <2>3 DEF TypeOK
<1>12. \A q \in Proc : /\ q = p => at'[q] = to /\ job'[q] = j
                       /\ q # p => at'[q] = at[q] /\ job'[q] = job[q]
  BY <1>1, <1>3
<1>13. JobsFit'
  <2> SUFFICES ASSUME NEW q \in Proc PROVE Fits(at[q], job[q], taken)'
    BY DEF JobsFit
  <2>1. CASE q = p
    <3>1. /\ at'[q] = to /\ job'[q] = j
      BY <1>12, <2>1
    <3>2. job[p].accepted \subseteq Issued /\ job[p].box \ Foreign \subseteq Issued
      BY <1>0 DEF Fits
    <3> QED
      BY <1>0, <1>1, <1>6, <1>7, <1>8, <1>9, <3>1, <3>2 DEF Fits, Boxing, Sending
  <2>2. CASE q # p
    <3>1. Fits(at[q], job[q], taken)
      BY DEF IInv, JobsFit
    <3>2. at'[q] = at[q] /\ job'[q] = job[q] /\ taken' = taken
      BY <1>1, <1>12, <2>2
    <3>3. job[q].op \in Nat
      BY <3>1 DEF Fits, Job
    <3>4. Issued \subseteq Issued' /\ (job[q].op <= Len(stamp) => job[q].op <= Len(stamp'))
      BY <1>0, <1>6, <1>7, <3>3
    <3> HIDE <1>6, <1>7
    <3> QED
      BY <3>1, <3>2, <3>4 DEF Fits
  <2> QED
    BY <2>1, <2>2
<1>14. Stamping'
  <2> SUFFICES ASSUME NEW q \in Proc, at'[q] = "stamp" PROVE FALSE
    BY DEF Stamping
  <2>1. q # p /\ at[q] = "stamp"
    BY <1>9, <1>12
  <2> QED
    BY <1>2, <2>1 DEF IInv, Stamping, Stamps, OneIssuer
<1>15. RecordsFit'
  BY <1>7, <1>10 DEF IInv, RecordsFit
<1>16. ClockAhead' /\ StampsIncrease'
  <2>1. HlcOf(disk'.clock) = ts
    BY <1>10 DEF ts
  <2>2. (HlcOf(disk.clock))' = ts /\ disk'.clock.logical < LogicalSize
    BY <1>2, <1>10, <2>1 DEF HlcOf, Stamps
  <2>3. \A i \in 1 .. Len(stamp) :
           stamp[i] \in Nat /\ stamp'[i] = stamp[i] /\ stamp'[i] < ts
    <3>1. \A i \in 1 .. Len(stamp) : stamp[i] \in Nat /\ stamp[i] <= HlcOf(disk.clock)
      BY <1>3 DEF IInv, ClockAhead, Issued
    <3>2. HlcOf(disk.clock) \in Nat
      BY DEF IInv, ClockAhead
    <3> QED
      BY <1>5, <1>6, <3>1, <3>2
  <2>4. ClockAhead'
    <3>1. \A i \in 1 .. n : stamp'[i] <= ts
      BY <1>0, <1>5, <1>6, <2>3
    <3>2. \A i \in Issued' : stamp'[i] <= ts
      BY <1>6, <3>1 DEF Issued
    <3> QED
      BY <1>5, <2>2, <3>2 DEF ClockAhead
  <2>5. \A i, k \in 1 .. n : i < k => stamp'[i] < stamp'[k]
    <3> SUFFICES ASSUME NEW i \in 1 .. n, NEW k \in 1 .. n, i < k
                 PROVE  stamp'[i] < stamp'[k]
      OBVIOUS
    <3>1. i \in 1 .. Len(stamp)
      BY <1>0
    <3>2. CASE k = n
      BY <1>6, <2>3, <3>1, <3>2
    <3>3. CASE k # n
      <4>1. k \in 1 .. Len(stamp)
        BY <1>0, <3>3
      <4> QED
        BY <1>6, <3>1, <4>1 DEF IInv, StampsIncrease
    <3> QED
      BY <3>2, <3>3
  <2> QED
    BY <1>6, <2>4, <2>5 DEF StampsIncrease
<1>17. SentWasTaken'
  BY <1>1, <1>10 DEF IInv, SentWasTaken
<1> QED
  BY <1>11, <1>13, <1>14, <1>15, <1>16, <1>17 DEF IInv

(* `grant` / `revoke` after the stamp. *)
LEMMA IssueStep ==
    ASSUME IInv, NEW p \in Proc,
           ApplyLocally(p) \/ SaveState(p) \/ Queue(p) \/ SaveQueue(p)
    PROVE  IInv'
<1>0. /\ Fits(at[p], job[p], taken) /\ job[p] \in Job /\ disk \in Disk
      /\ Issued \subseteq Own /\ Len(stamp) \in Nat
      /\ disk.outbox \subseteq Issued /\ disk.sent \subseteq Issued \cap taken
      /\ disk.state \ Foreign \subseteq Issued
  BY JobFacts DEF IInv, RecordsFit, SentWasTaken
<1>1. /\ taken \subseteq Own /\ queued \subseteq Own /\ held \subseteq Delta
      /\ prunedAt \in Time /\ crashes \in 0 .. MaxCrashes
  BY DEF IInv, TypeOK
<1>2. job[p].op \in 0 .. MaxIssued /\ (job[p].op # 0 => job[p].op \in Issued)
  BY <1>0 DEF Fits, Job, Issued
<1>3. ASSUME NEW box \in SUBSET Delta
      PROVE  LET j == [job[p] EXCEPT !.box = box]
             IN  /\ j \in Job /\ j.box = box /\ j.op = job[p].op /\ j.batch = job[p].batch
                 /\ j.kind = job[p].kind /\ j.legs = job[p].legs
                 /\ j.accepted = job[p].accepted
  BY <1>0 DEF Job
<1>4. ASSUME ApplyLocally(p)
      PROVE  IInv'
  <2> DEFINE box == disk.state \cup {job[p].op}
             j == [job[p] EXCEPT !.box = box]
  <2>1. at[p] = "apply" /\ job[p].op # 0 /\ job[p].kind = "issue"
    BY <1>0, <1>4 DEF ApplyLocally, Fits
  <2>2. Read(p, "apply", "saveState", j) \/ Read(p, "apply", "idle", NoJob)
    BY <1>4, Zenon DEF ApplyLocally
  <2>3. box \in SUBSET Delta /\ box \ Foreign \subseteq Issued
    BY <1>0, <1>2, <2>1 DEF Disk, Delta
  <2>4. /\ j \in Job /\ j.box = box /\ j.op = job[p].op /\ j.batch = job[p].batch
        /\ j.kind = job[p].kind /\ j.accepted = job[p].accepted
    BY <1>3, <2>3
  <2> HIDE DEF j, box
  <2>5. Fits("saveState", j, taken)
    BY <1>0, <2>1, <2>3, <2>4 DEF Fits, Boxing, Sending
  <2>6. "saveState" \in Step /\ "idle" \in Step
    BY DEF Step
  <2> QED
    BY <2>2, <2>5, <2>6, ReadStep
<1>5. ASSUME SaveState(p)
      PROVE  IInv'
  <2> DEFINE to == CASE job[p].kind = "issue" -> "queue"
                     [] job[p].kind = "prune" -> "pruneOutbox"
                     [] job[p].kind = "sync"  -> "idle"
  <2>1. /\ Go(p, "saveState", to, job[p]) /\ at[p] = "saveState"
        /\ disk' = [disk EXCEPT !.state = job[p].box, !.broken = @ \ {"state"}]
        /\ held' = held \cup job[p].box
        /\ UNCHANGED <<stamp, queued, taken, prunedAt, crashes>>
    BY <1>5, Zenon DEF SaveState, Go
  <2>2. /\ job[p].kind \in {"issue", "sync", "prune"}
        /\ job[p].kind = "issue" => job[p].op # 0
        /\ job[p].box \subseteq Delta /\ job[p].box \ Foreign \subseteq Issued
    BY <1>0, <2>1 DEF Fits, Job
  <2>3. /\ to \in {"queue", "pruneOutbox", "idle"}
        /\ to = "queue" => job[p].op # 0
    BY <2>2
  <2>4. /\ disk' \in Disk /\ disk'.clock = disk.clock /\ disk'.outbox = disk.outbox
        /\ disk'.sent = disk.sent /\ disk'.state = job[p].box
    BY <1>0, <2>1, <2>2 DEF Disk
  <2>5. held' \subseteq Delta
    BY <1>1, <2>1, <2>2
  <2> HIDE DEF to
  <2>6. Fits(to, job[p], taken') /\ to \in Step /\ to # "stamp"
    BY <1>0, <2>1, <2>3 DEF Fits, Boxing, Sending, Step
  <2> QED
    BY <1>0, <1>1, <2>1, <2>2, <2>4, <2>5, <2>6, WriteStep
<1>6. ASSUME Queue(p)
      PROVE  IInv'
  <2> DEFINE box == disk.outbox \cup {job[p].op}
             j == [job[p] EXCEPT !.box = box]
  <2>1. Read(p, "queue", "saveQueue", j) /\ at[p] = "queue"
    BY <1>6, Zenon DEF Queue, Read, Go
  <2>2. box \subseteq Issued /\ box \in SUBSET Delta
    BY <1>0, <1>2, <2>1 DEF Fits, Delta
  <2>3. /\ j \in Job /\ j.box = box /\ j.op = job[p].op /\ j.batch = job[p].batch
        /\ j.kind = job[p].kind /\ j.accepted = job[p].accepted
    BY <1>3, <2>2
  <2> HIDE DEF j, box
  <2>4. Fits("saveQueue", j, taken) /\ "saveQueue" \in Step
    BY <1>0, <2>1, <2>2, <2>3 DEF Fits, Boxing, Sending, Step
  <2> QED
    BY <2>1, <2>4, ReadStep
<1>7. ASSUME SaveQueue(p)
      PROVE  IInv'
  <2> DEFINE to == IF job[p].legs = <<>> THEN "idle" ELSE "send"
  <2>1. /\ Go(p, "saveQueue", to, job[p]) /\ at[p] = "saveQueue"
        /\ disk' = [disk EXCEPT !.outbox = job[p].box]
        /\ queued' = queued \cup job[p].box
        /\ UNCHANGED <<stamp, held, taken, prunedAt, crashes>>
    BY <1>7, Zenon DEF SaveQueue, Go
  <2>2. job[p].box \subseteq Issued
    BY <1>0, <2>1 DEF Fits, Boxing
  <2>3. /\ disk' \in Disk /\ disk'.clock = disk.clock /\ disk'.outbox = job[p].box
        /\ disk'.sent = disk.sent /\ disk'.state = disk.state
    BY <1>0, <2>1, <2>2 DEF Disk
  <2>4. queued' \subseteq Own
    BY <1>0, <1>1, <2>1, <2>2
  <2>5. to \in {"idle", "send"} /\ (to = "send" => job[p].legs # <<>>)
    OBVIOUS
  <2> HIDE DEF to
  <2>6. Fits(to, job[p], taken') /\ to \in Step /\ to # "stamp"
    BY <1>0, <2>1, <2>5 DEF Fits, Boxing, Sending, Step
  <2> QED
    BY <1>0, <1>1, <2>1, <2>2, <2>3, <2>4, <2>6, WriteStep
<1> QED
  BY <1>4, <1>5, <1>6, <1>7

------------------------------------------------------------------------------
LEMMA TailFacts ==
    ASSUME NEW S, NEW s \in Seq(S), s # <<>>
    PROVE  Tail(s) \in Seq(S) /\ (Len(s) > 1 => Tail(s) # <<>>)
<1> DEFINE t == Tail(s)
<1>1. /\ t \in Seq(S) /\ Len(t) = Len(s) - 1 /\ Len(s) \in Nat
  BY HeadTailProperties
<1> HIDE DEF t
<1>2. t = <<>> => Len(t) = 0
  OBVIOUS
<1>3. t \in Seq(S) /\ (Len(s) > 1 => t # <<>>)
  BY <1>1, <1>2
<1> QED
  BY <1>3 DEF t

(* The next leg of a command, if there is one. *)
LEMMA NextLegFits ==
    ASSUME IInv, NEW j \in Job, NEW a \in Sending, NEW T, Fits(a, j, T)
    PROVE  /\ Fits(AfterLeg(j), NextLeg(j), T)
           /\ AfterLeg(j) \in {"send", "report", "idle"}
<1>1. j.legs \in Seq(Leg) /\ j.legs # <<>>
  BY DEF Fits, Job
<1>2. Tail(j.legs) \in Seq(Leg) /\ (Len(j.legs) > 1 => Tail(j.legs) # <<>>)
  BY <1>1, TailFacts
<1> DEFINE n == NextLeg(j)
<1>3. /\ n \in Job /\ n.legs = Tail(j.legs) /\ n.op = j.op /\ n.batch = j.batch
      /\ n.box = j.box /\ n.kind = j.kind /\ n.accepted = j.accepted
  BY <1>2 DEF NextLeg, Job
<1> HIDE DEF n
<1>4. Fits(AfterLeg(j), n, T)
  BY <1>2, <1>3 DEF Fits, AfterLeg, Boxing, Sending
<1> QED
  BY <1>4 DEF n, AfterLeg

LEMMA AfterDrainFits ==
    ASSUME IInv, NEW j \in Job, NEW a \in {"drain", "saveDrain"}, NEW T, Fits(a, j, T)
    PROVE  /\ Fits(AfterDrain(j), DrainedJob(j), T)
           /\ AfterDrain(j) \in {"log", "send", "report", "idle"}
<1>1. CASE Logs(j)
  <2>1. AfterDrain(j) = "log" /\ DrainedJob(j) = j
    BY <1>1 DEF AfterDrain, DrainedJob
  <2> QED
    BY <2>1 DEF Fits, Boxing, Sending
<1>2. CASE ~ Logs(j)
  <2>1. AfterDrain(j) = AfterLeg(j) /\ DrainedJob(j) = NextLeg(j)
    BY <1>2 DEF AfterDrain, DrainedJob
  <2>2. a \in Sending
    BY DEF Sending
  <2> QED
    BY <2>1, <2>2, NextLegFits
<1> QED
  BY <1>1, <1>2

(* What every step keeps if it does not write it. *)
LEMMA RecordFacts ==
    ASSUME IInv
    PROVE  /\ disk \in Disk /\ disk.outbox \subseteq Issued
           /\ disk.sent \subseteq Issued \cap taken
           /\ disk.state \ Foreign \subseteq Issued
           /\ taken \subseteq Own /\ queued \subseteq Own /\ held \subseteq Delta
           /\ prunedAt \in Time /\ crashes \in 0 .. MaxCrashes /\ Issued \subseteq Own
<1>1. stamp \in Seq(Nat) /\ Len(stamp) <= MaxIssued
  BY DEF IInv, TypeOK
<1>2. Issued \subseteq Own
  BY <1>1, IssuanceAssumption DEF Issued, Own
<1> QED
  BY <1>2 DEF IInv, TypeOK, RecordsFit, SentWasTaken

(* A command with another record in hand. *)
LEMMA BoxFits ==
    ASSUME IInv, NEW j \in Job, NEW box \in SUBSET Delta
    PROVE  LET k == [j EXCEPT !.box = box]
           IN  /\ k \in Job /\ k.box = box /\ k.op = j.op /\ k.batch = j.batch
               /\ k.kind = j.kind /\ k.legs = j.legs /\ k.accepted = j.accepted
BY DEF Job

(* `publish`, `push` and the sending forms of `grant` up to the transport. *)
LEMMA SendStep ==
    ASSUME IInv, NEW p \in Proc, AddSent(p) \/ Send(p) \/ SendThrows(p)
    PROVE  IInv'
<1>0. /\ Fits(at[p], job[p], taken) /\ job[p] \in Job
  BY JobFacts
<1>1. job[p].batch \subseteq Issued
  BY <1>0 DEF Fits
<1>2. ASSUME AddSent(p)
      PROVE  IInv'
  <2> DEFINE batch == job[p].batch \cup disk.sent
             j == [job[p] EXCEPT !.batch = batch]
             to == IF batch = {} THEN "idle" ELSE "send"
  <2>1. Read(p, "sent", to, j) /\ at[p] = "sent"
    BY <1>2, Zenon DEF AddSent, Read, Go
  <2>2. batch \subseteq Issued /\ batch \in SUBSET Own
    BY <1>1, RecordFacts
  <2>3. /\ j \in Job /\ j.batch = batch /\ j.op = job[p].op /\ j.box = job[p].box
        /\ j.legs = job[p].legs /\ j.accepted = job[p].accepted
    BY <1>0, <2>2 DEF Job
  <2>4. to \in {"idle", "send"}
    OBVIOUS
  <2> HIDE DEF j, batch, to
  <2>5. Fits(to, j, taken) /\ to \in Step /\ to # "stamp"
    BY <1>0, <2>1, <2>2, <2>3, <2>4 DEF Fits, Boxing, Sending, Step
  <2> QED
    BY <2>1, <2>5, ReadStep
<1>3. ASSUME Send(p)
      PROVE  IInv'
  <2>1. PICK accepted \in SUBSET job[p].batch :
           LET j == [job[p] EXCEPT !.accepted = accepted]
           IN  /\ at[p] = "send"
               /\ MayAccept(j, accepted)
               /\ IF accepted = {}
                  THEN Go(p, "send", AfterLeg(j), NextLeg(j))
                  ELSE Go(p, "send", "drain", j)
               /\ taken' = taken \cup accepted
               /\ UNCHANGED <<disk, stamp, queued, held, prunedAt, crashes>>
    BY <1>3, Zenon DEF Send
  <2> DEFINE j == [job[p] EXCEPT !.accepted = accepted]
  <2>2. /\ \/ Go(p, "send", AfterLeg(j), NextLeg(j))
           \/ Go(p, "send", "drain", j)
        /\ at[p] = "send" /\ taken' = taken \cup accepted
        /\ UNCHANGED <<disk, stamp, queued, held, prunedAt, crashes>>
    BY <2>1, Zenon
  <2>3. accepted \subseteq Issued /\ accepted \in SUBSET Own
    BY <1>1, RecordFacts
  <2>4. /\ j \in Job /\ j.accepted = accepted /\ j.batch = job[p].batch
        /\ j.op = job[p].op /\ j.box = job[p].box /\ j.legs = job[p].legs
    BY <1>0, <2>3 DEF Job
  <2> HIDE DEF j
  <2>5. Fits("send", j, taken') /\ Fits("drain", j, taken')
    BY <1>0, <2>2, <2>3, <2>4 DEF Fits, Boxing, Sending
  <2>6. /\ Fits(AfterLeg(j), NextLeg(j), taken')
        /\ AfterLeg(j) \in {"send", "report", "idle"}
    <3> DEFINE T == taken'
    <3>1. Fits("send", j, T)
      BY <2>5
    <3> HIDE DEF T
    <3>2. "send" \in Sending
      BY DEF Sending
    <3>3. Fits(AfterLeg(j), NextLeg(j), T) /\ AfterLeg(j) \in {"send", "report", "idle"}
      BY <2>4, <3>1, <3>2, NextLegFits
    <3> QED
      BY <3>3 DEF T
  <2>7. taken \subseteq taken' /\ taken' \subseteq Own
    BY <2>2, <2>3, RecordFacts
  <2>8. /\ stamp' = stamp /\ disk' \in Disk /\ disk'.clock = disk.clock
        /\ disk'.outbox \subseteq Issued /\ disk'.sent \subseteq Issued \cap taken'
        /\ disk'.state \ Foreign \subseteq Issued /\ queued' \subseteq Own
        /\ held' \subseteq Delta /\ prunedAt' \in Time /\ crashes' \in 0 .. MaxCrashes
    BY <2>2, RecordFacts
  <2>9. CASE Go(p, "send", AfterLeg(j), NextLeg(j))
    <3>1. AfterLeg(j) \in Step /\ AfterLeg(j) # "stamp"
      BY <2>6 DEF Step
    <3> QED
      BY <2>6, <2>7, <2>8, <2>9, <3>1, WriteStep
  <2>10. CASE Go(p, "send", "drain", j)
    <3>1. "drain" \in Step
      BY DEF Step
    <3> QED
      BY <2>5, <2>7, <2>8, <2>10, <3>1, WriteStep
  <2> QED
    BY <2>2, <2>9, <2>10
<1>4. ASSUME SendThrows(p)
      PROVE  IInv'
  <2>1. PICK some \in SUBSET job[p].batch :
           /\ Go(p, "send", "idle", NoJob)
           /\ taken' = taken \cup some
           /\ UNCHANGED <<disk, stamp, queued, held, prunedAt, crashes>>
    BY <1>4 DEF SendThrows
  <2>2. taken \subseteq taken' /\ taken' \subseteq Own
    BY <1>1, <2>1, RecordFacts
  <2>3. /\ stamp' = stamp /\ disk' \in Disk /\ disk'.clock = disk.clock
        /\ disk'.outbox \subseteq Issued /\ disk'.sent \subseteq Issued \cap taken'
        /\ disk'.state \ Foreign \subseteq Issued /\ queued' \subseteq Own
        /\ held' \subseteq Delta /\ prunedAt' \in Time /\ crashes' \in 0 .. MaxCrashes
    BY <2>1, RecordFacts
  <2>4. "idle" \in Step
    BY DEF Step
  <2> QED
    BY <2>1, <2>2, <2>3, <2>4, WriteStep
<1> QED
  BY <1>2, <1>3, <1>4

(* recordPublish and the report. *)
LEMMA RecordStep ==
    ASSUME IInv, NEW p \in Proc,
           Drain(p) \/ SaveDrain(p) \/ Log(p) \/ SaveLog(p) \/ Report(p)
    PROVE  IInv'
<1>0. /\ Fits(at[p], job[p], taken) /\ job[p] \in Job
  BY JobFacts
<1>1. job[p].accepted \subseteq Issued
  BY <1>0 DEF Fits
<1>2. ASSUME at[p] \in {"drain", "saveDrain"}
      PROVE  /\ Fits(AfterDrain(job[p]), DrainedJob(job[p]), taken)
             /\ AfterDrain(job[p]) \in Step /\ AfterDrain(job[p]) # "stamp"
  BY <1>0, <1>2, AfterDrainFits DEF Step
<1>3. ASSUME at[p] \in {"log", "saveLog"}
      PROVE  /\ Fits(AfterLeg(job[p]), NextLeg(job[p]), taken)
             /\ AfterLeg(job[p]) \in Step /\ AfterLeg(job[p]) # "stamp"
  <2>1. at[p] \in Sending
    BY <1>3 DEF Sending
  <2> QED
    BY <1>0, <2>1, NextLegFits DEF Step
<1>4. ASSUME Drain(p)
      PROVE  IInv'
  <2> DEFINE left == disk.outbox \ job[p].accepted
             j == [job[p] EXCEPT !.box = left]
  <2>1. /\ \/ Read(p, "drain", "saveDrain", j)
           \/ Read(p, "drain", AfterDrain(job[p]), DrainedJob(job[p]))
        /\ at[p] = "drain"
    BY <1>4, Zenon DEF Drain, Read, Go
  <2>2. left \subseteq Issued /\ left \in SUBSET Delta
    BY RecordFacts DEF Delta
  <2>3. /\ j \in Job /\ j.box = left /\ j.op = job[p].op /\ j.batch = job[p].batch
        /\ j.kind = job[p].kind /\ j.legs = job[p].legs /\ j.accepted = job[p].accepted
    BY <1>0, <2>2, BoxFits
  <2> HIDE DEF j, left
  <2>4. Fits("saveDrain", j, taken) /\ "saveDrain" \in Step
    BY <1>0, <2>1, <2>2, <2>3 DEF Fits, Boxing, Sending, Step
  <2> QED
    BY <1>2, <2>1, <2>4, ReadStep
<1>5. ASSUME SaveDrain(p)
      PROVE  IInv'
  <2>1. /\ Go(p, "saveDrain", AfterDrain(job[p]), DrainedJob(job[p]))
        /\ disk' = [disk EXCEPT !.outbox = job[p].box] /\ at[p] = "saveDrain"
        /\ UNCHANGED <<stamp, queued, held, taken, prunedAt, crashes>>
    BY <1>5, Zenon DEF SaveDrain, Go, history
  <2>2. job[p].box \subseteq Issued
    BY <1>0, <2>1 DEF Fits, Boxing
  <2>3. /\ disk' \in Disk /\ disk'.clock = disk.clock /\ disk'.outbox = job[p].box
        /\ disk'.sent = disk.sent /\ disk'.state = disk.state
    BY <2>1, <2>2, RecordFacts DEF Disk
  <2>4. /\ Fits(AfterDrain(job[p]), DrainedJob(job[p]), taken')
        /\ AfterDrain(job[p]) \in Step /\ AfterDrain(job[p]) # "stamp"
    BY <1>2, <2>1
  <2> QED
    BY <2>1, <2>2, <2>3, <2>4, RecordFacts, WriteStep
<1>6. ASSUME Log(p)
      PROVE  IInv'
  <2> DEFINE all == disk.sent \cup job[p].accepted
             j == [job[p] EXCEPT !.box = all]
  <2>1. /\ \/ Read(p, "log", "saveLog", j)
           \/ Read(p, "log", AfterLeg(job[p]), NextLeg(job[p]))
        /\ at[p] = "log"
    BY <1>6, Zenon DEF Log, Read, Go
  <2>2. /\ all \subseteq Issued /\ all \in SUBSET Delta /\ all \subseteq taken
    BY <1>0, <1>1, <2>1, RecordFacts DEF Delta, Fits, Sending
  <2>3. /\ j \in Job /\ j.box = all /\ j.op = job[p].op /\ j.batch = job[p].batch
        /\ j.kind = job[p].kind /\ j.legs = job[p].legs /\ j.accepted = job[p].accepted
    BY <1>0, <2>2, BoxFits
  <2> HIDE DEF j, all
  <2>4. Fits("saveLog", j, taken) /\ "saveLog" \in Step
    BY <1>0, <2>1, <2>2, <2>3 DEF Fits, Boxing, Sending, Step
  <2> QED
    BY <1>3, <2>1, <2>4, ReadStep
<1>7. ASSUME SaveLog(p)
      PROVE  IInv'
  <2>1. /\ Go(p, "saveLog", AfterLeg(job[p]), NextLeg(job[p]))
        /\ disk' = [disk EXCEPT !.sent = job[p].box] /\ at[p] = "saveLog"
        /\ UNCHANGED <<stamp, queued, held, taken, prunedAt, crashes>>
    BY <1>7, Zenon DEF SaveLog, Go, history
  <2>2. job[p].box \subseteq Issued /\ job[p].box \subseteq taken
    BY <1>0, <2>1 DEF Fits, Boxing
  <2>3. /\ disk' \in Disk /\ disk'.clock = disk.clock /\ disk'.outbox = disk.outbox
        /\ disk'.sent = job[p].box /\ disk'.state = disk.state
    BY <2>1, <2>2, RecordFacts DEF Disk
  <2>4. /\ Fits(AfterLeg(job[p]), NextLeg(job[p]), taken')
        /\ AfterLeg(job[p]) \in Step /\ AfterLeg(job[p]) # "stamp"
    BY <1>3, <2>1
  <2> QED
    BY <2>1, <2>2, <2>3, <2>4, RecordFacts, WriteStep
<1>8. ASSUME Report(p)
      PROVE  IInv'
  <2>1. "idle" \in Step /\ Read(p, "report", "idle", NoJob)
    BY <1>8, Zenon DEF Report, Step
  <2> QED
    BY <2>1, ReadStep
<1> QED
  BY <1>4, <1>5, <1>6, <1>7, <1>8

LEMMA SyncStep ==
    ASSUME IInv, NEW p \in Proc,
           \/ \E op \in Foreign \cup 1 .. Len(stamp) : Fetch(p, op)
           \/ EndFetch(p) \/ FetchThrows(p)
    PROVE  IInv'
<1>0. /\ Fits(at[p], job[p], taken) /\ job[p] \in Job
  BY JobFacts
<1>1. ASSUME NEW op \in Foreign \cup 1 .. Len(stamp), Fetch(p, op)
      PROVE  IInv'
  <2> DEFINE box == job[p].box \cup {op}
             j == [job[p] EXCEPT !.box = box]
  <2>1. Read(p, "fetch", "fetch", j) /\ at[p] = "fetch"
    BY <1>1 DEF Fetch, Read, Go
  <2>2. box \in SUBSET Delta /\ box \ Foreign \subseteq Issued
    <3>1. job[p].box \subseteq Delta /\ job[p].box \ Foreign \subseteq Issued
      BY <1>0 DEF Fits, Job
    <3>2. op \in Delta /\ (op \notin Foreign => op \in Issued)
      BY RecordFacts DEF Delta, Issued
    <3> QED
      BY <3>1, <3>2
  <2>3. /\ j \in Job /\ j.box = box /\ j.op = job[p].op /\ j.batch = job[p].batch
        /\ j.kind = job[p].kind /\ j.legs = job[p].legs /\ j.accepted = job[p].accepted
    BY <1>0, <2>2, BoxFits
  <2> HIDE DEF j, box
  <2>4. Fits("fetch", j, taken) /\ "fetch" \in Step
    BY <1>0, <2>1, <2>2, <2>3 DEF Fits, Boxing, Sending, Step
  <2> QED
    BY <2>1, <2>4, ReadStep
<1>2. ASSUME EndFetch(p)
      PROVE  IInv'
  <2>1. Read(p, "fetch", "saveState", job[p]) /\ at[p] = "fetch"
    BY <1>2, Zenon DEF EndFetch, Read, Go
  <2>2. Fits("saveState", job[p], taken) /\ "saveState" \in Step
    BY <1>0, <2>1 DEF Fits, Boxing, Sending, Step
  <2> QED
    BY <2>1, <2>2, ReadStep
<1>3. ASSUME FetchThrows(p)
      PROVE  IInv'
  <2>1. "idle" \in Step /\ Read(p, "fetch", "idle", NoJob)
    BY <1>3, Zenon DEF FetchThrows, Step
  <2> QED
    BY <2>1, ReadStep
<1> QED
  BY <1>1, <1>2, <1>3

(* `prune`: its steps read the clock, and write what they keep. *)
LEMMA PrunesStep ==
    ASSUME IInv, NEW p \in Proc, NEW from, NEW to \in Step \ {"stamp"}, NEW j,
           Prunes(p, from, to, j),
           to # "idle" => Fits(to, j, taken)
    PROVE  IInv'
<1>1. /\ Go(p, from, to, j) /\ prunedAt' = wall
      /\ UNCHANGED <<disk, stamp, queued, held, taken, crashes>>
  BY DEF Prunes
<1>2. wall \in Time
  BY DEF IInv, TypeOK
<1>3. to # "idle" => Fits(to, j, taken')
  BY <1>1
<1> QED
  BY <1>1, <1>2, <1>3, RecordFacts, WriteStep

LEMMA PruneStep ==
    ASSUME IInv, NEW p \in Proc,
           \/ StartPrune(p) \/ PruneOutbox(p) \/ SavePrunedOutbox(p)
           \/ PruneSent(p) \/ SavePrunedSent(p)
    PROVE  IInv'
<1>0. /\ Fits(at[p], job[p], taken) /\ job[p] \in Job
  BY JobFacts
<1>1. ASSUME StartPrune(p)
      PROVE  IInv'
  <2> DEFINE j == [NoJob EXCEPT !.kind = "prune", !.box = disk.state]
  <2>1. Fits("idle", NoJob, taken) /\ NoJob \in Job
    BY NoJobFits DEF IInv, Fits
  <2>2. disk.state \subseteq Delta /\ disk.state \ Foreign \subseteq Issued
    BY RecordFacts DEF Disk
  <2>3. /\ j \in Job /\ j.kind = "prune" /\ j.op = 0 /\ j.box = disk.state
        /\ j.batch = {} /\ j.accepted = {}
    BY <2>1, <2>2 DEF Job, NoJob, Kind
  <2>4. Prunes(p, "idle", "saveState", j)
    BY <1>1, Zenon DEF StartPrune
  <2> HIDE DEF j
  <2>5. Fits("saveState", j, taken) /\ "saveState" \in Step
    BY <2>1, <2>2, <2>3 DEF Fits, Boxing, Sending, Step
  <2> QED
    BY <2>4, <2>5, PrunesStep
<1>2. ASSUME PruneOutbox(p)
      PROVE  IInv'
  <2> DEFINE kept == Kept(disk.outbox)
             j == [job[p] EXCEPT !.box = kept]
  <2>1. \/ Prunes(p, "pruneOutbox", "savePrunedOutbox", j)
        \/ Prunes(p, "pruneOutbox", "pruneSent", job[p])
    BY <1>2, Zenon DEF PruneOutbox
  <2>2. at[p] = "pruneOutbox"
    BY <2>1, Zenon DEF Prunes, Go
  <2>3. kept \subseteq Issued /\ kept \in SUBSET Delta
    BY RecordFacts DEF Kept, Delta
  <2>4. /\ j \in Job /\ j.box = kept /\ j.op = job[p].op /\ j.batch = job[p].batch
        /\ j.kind = job[p].kind /\ j.legs = job[p].legs /\ j.accepted = job[p].accepted
    BY <1>0, <2>3, BoxFits
  <2> HIDE DEF j, kept
  <2>5. Fits("savePrunedOutbox", j, taken) /\ Fits("pruneSent", job[p], taken)
    BY <1>0, <2>2, <2>3, <2>4 DEF Fits, Boxing, Sending
  <2>6. "savePrunedOutbox" \in Step /\ "pruneSent" \in Step
    BY DEF Step
  <2> QED
    BY <2>1, <2>5, <2>6, PrunesStep
<1>3. ASSUME SavePrunedOutbox(p)
      PROVE  IInv'
  <2>1. /\ Go(p, "savePrunedOutbox", "pruneSent", job[p])
        /\ disk' = [disk EXCEPT !.outbox = job[p].box] /\ at[p] = "savePrunedOutbox"
        /\ UNCHANGED <<stamp, queued, held, taken, prunedAt, crashes>>
    BY <1>3, Zenon DEF SavePrunedOutbox, Go, history
  <2>2. job[p].box \subseteq Issued
    BY <1>0, <2>1 DEF Fits, Boxing
  <2>3. /\ disk' \in Disk /\ disk'.clock = disk.clock /\ disk'.outbox = job[p].box
        /\ disk'.sent = disk.sent /\ disk'.state = disk.state
    BY <2>1, <2>2, RecordFacts DEF Disk
  <2>4. Fits("pruneSent", job[p], taken') /\ "pruneSent" \in Step
    BY <1>0, <2>1 DEF Fits, Boxing, Sending, Step
  <2> QED
    BY <2>1, <2>2, <2>3, <2>4, RecordFacts, WriteStep
<1>4. ASSUME PruneSent(p)
      PROVE  IInv'
  <2> DEFINE kept == Kept(disk.sent)
             j == [job[p] EXCEPT !.box = kept]
  <2>1. \/ Prunes(p, "pruneSent", "savePrunedSent", j)
        \/ Prunes(p, "pruneSent", "idle", NoJob)
    BY <1>4, Zenon DEF PruneSent
  <2>2. at[p] = "pruneSent"
    BY <2>1, Zenon DEF Prunes, Go
  <2>3. kept \subseteq Issued /\ kept \in SUBSET Delta /\ kept \subseteq taken
    BY RecordFacts DEF Kept, Delta
  <2>4. /\ j \in Job /\ j.box = kept /\ j.op = job[p].op /\ j.batch = job[p].batch
        /\ j.kind = job[p].kind /\ j.legs = job[p].legs /\ j.accepted = job[p].accepted
    BY <1>0, <2>3, BoxFits
  <2> HIDE DEF j, kept
  <2>5. Fits("savePrunedSent", j, taken)
    BY <1>0, <2>2, <2>3, <2>4 DEF Fits, Boxing, Sending
  <2>6. "savePrunedSent" \in Step /\ "idle" \in Step
    BY DEF Step
  <2> QED
    BY <2>1, <2>5, <2>6, PrunesStep
<1>5. ASSUME SavePrunedSent(p)
      PROVE  IInv'
  <2>1. /\ Go(p, "savePrunedSent", "idle", NoJob)
        /\ disk' = [disk EXCEPT !.sent = job[p].box] /\ at[p] = "savePrunedSent"
        /\ UNCHANGED <<stamp, queued, held, taken, prunedAt, crashes>>
    BY <1>5, Zenon DEF SavePrunedSent, Go, history
  <2>2. job[p].box \subseteq Issued /\ job[p].box \subseteq taken
    BY <1>0, <2>1 DEF Fits, Boxing
  <2>3. /\ disk' \in Disk /\ disk'.clock = disk.clock /\ disk'.outbox = disk.outbox
        /\ disk'.sent = job[p].box /\ disk'.state = disk.state
    BY <2>1, <2>2, RecordFacts DEF Disk
  <2>4. "idle" \in Step
    BY DEF Step
  <2> QED
    BY <2>1, <2>2, <2>3, <2>4, RecordFacts, WriteStep
<1> QED
  BY <1>1, <1>2, <1>3, <1>4, <1>5

------------------------------------------------------------------------------
(* A killed command leaves what was stored, or a record cut short. *)
LEMMA CrashStep ==
    ASSUME IInv, NEW p \in Proc, Crash(p) \/ CrashWriting(p)
    PROVE  IInv'
<1>1. /\ crashes < MaxCrashes /\ crashes' = crashes + 1
      /\ Go(p, at[p], "idle", NoJob)
      /\ UNCHANGED <<stamp, queued, held, taken, prunedAt>>
  BY DEF Crash, CrashWriting, Stopped, history
<1>2. crashes' \in 0 .. MaxCrashes
  BY <1>1, RecordFacts, IssuanceAssumption
<1>3. \/ disk' = disk
      \/ disk' = [disk EXCEPT !.outbox = {}]
      \/ disk' = [disk EXCEPT !.sent = {}]
      \/ disk' = [disk EXCEPT !.state = {}, !.broken = @ \ {"state"}]
      \/ disk' = [disk EXCEPT !.broken = @ \cup {"state"}]
      \/ disk' = [disk EXCEPT !.broken = @ \cup {"clock"}]
  BY DEF Crash, CrashWriting
<1>4. /\ disk' \in Disk /\ disk'.clock = disk.clock
      /\ disk'.outbox \subseteq disk.outbox /\ disk'.sent \subseteq disk.sent
      /\ disk'.state \subseteq disk.state
  <2>1. disk \in Disk
    BY RecordFacts
  <2> QED
    BY <1>3, <2>1 DEF Disk
<1>5. "idle" \in Step
  BY DEF Step
<1> QED
  BY <1>1, <1>2, <1>4, <1>5, RecordFacts, WriteStep

LEMMA SetWallStep ==
    ASSUME IInv, NEW now \in Time, SetWall(now)
    PROVE  IInv'
<1>1. /\ wall' \in Time
      /\ UNCHANGED <<disk, at, job, stamp, queued, held, taken, prunedAt, crashes>>
  BY DEF SetWall, history
<1>2. TypeOK'
  BY <1>1 DEF IInv, TypeOK
<1>3. JobsFit' /\ Stamping'
  BY <1>1 DEF IInv, JobsFit, Fits, Issued, Stamping, Stamps
<1> QED
  BY <1>1, <1>2, <1>3
     DEF IInv, RecordsFit, ClockAhead, StampsIncrease, SentWasTaken, Issued

LEMMA StutterStep ==
    ASSUME IInv, UNCHANGED vars
    PROVE  IInv'
<1>1. UNCHANGED <<wall, disk, at, job, stamp, queued, held, taken, prunedAt, crashes>>
  BY DEF vars, history
<1>2. TypeOK'
  BY <1>1 DEF IInv, TypeOK
<1>3. JobsFit' /\ Stamping'
  BY <1>1 DEF IInv, JobsFit, Fits, Issued, Stamping, Stamps
<1> QED
  BY <1>1, <1>2, <1>3
     DEF IInv, RecordsFit, ClockAhead, StampsIncrease, SentWasTaken, Issued

LEMMA StepHolds ==
    ASSUME OneIssuer, IInv, [Next]_vars
    PROVE  IInv'
<1>1. ASSUME NEW p \in Proc, Start(p)
      PROVE  IInv'
  BY <1>1, StartIssueStep, StartOtherStep, PruneStep DEF Start
<1>2. ASSUME NEW p \in Proc, Continue(p)
      PROVE  IInv'
  BY <1>2, StampStep, IssueStep, SendStep, RecordStep, SyncStep, PruneStep DEF Continue
<1>3. ASSUME NEW p \in Proc, Crash(p) \/ CrashWriting(p)
      PROVE  IInv'
  BY <1>3, CrashStep
<1>4. ASSUME NEW p \in Proc, NEW op \in Foreign \cup 1 .. Len(stamp), Fetch(p, op)
      PROVE  IInv'
  BY <1>4, SyncStep
<1>5. ASSUME NEW now \in Time, SetWall(now)
      PROVE  IInv'
  BY <1>5, SetWallStep
<1> QED
  BY <1>1, <1>2, <1>3, <1>4, <1>5, StutterStep DEF Next

LEMMA IssuanceInductive == OneIssuer /\ Spec => []IInv
<1>1. SUFFICES ASSUME OneIssuer
               PROVE  Spec => []IInv
  OBVIOUS
<1>2. IInv /\ [Next]_vars => IInv'
  BY <1>1, StepHolds
<1> QED
  BY InitHolds, <1>2, PTL DEF Spec

------------------------------------------------------------------------------
(* The records and the local variables of the commands keep their types     *)
(* (dacar.js _issue, recordPublish, cmdPublish, cmdSync, cmdPrune).          *)
THEOREM IssuanceTypeCorrect == OneIssuer /\ Spec => []TypeOK
<1>1. IInv => TypeOK
  BY DEF IInv
<1> QED
  BY <1>1, IssuanceInductive, PTL

(* No timestamp is used twice, whatever was killed and whatever record was  *)
(* cut short (dacar.js _issue saves the clock before it signs).             *)
THEOREM StampsAreFresh == OneIssuer /\ Spec => []StampsIncrease
<1>1. IInv => StampsIncrease
  BY DEF IInv
<1> QED
  BY <1>1, IssuanceInductive, PTL

(* What is stored, or waits to be sent, is not ahead of the saved clock     *)
(* (dacar.js _issue).                                                       *)
THEOREM ClockIsSavedFirst == OneIssuer /\ Spec => []ClockCoversState
<1>1. IInv => ClockCoversState
  BY DEF IInv, RecordsFit, ClockAhead, ClockCoversState
<1> QED
  BY <1>1, IssuanceInductive, PTL

(* Only what a transport took enters the sent box (dacar.js recordPublish). *)
THEOREM SentBoxIsTrue == OneIssuer /\ Spec => []SentWasTaken
<1>1. IInv => SentWasTaken
  BY DEF IInv
<1> QED
  BY <1>1, IssuanceInductive, PTL

------------------------------------------------------------------------------
(* From here on commands run one after the other and records are written  *)
(* whole, killed commands included: what was not sent stays queued and what *)
(* was applied stays applied.  Without `publish <file>` the report is true,  *)
(* and as long as no command was killed every operation can be sent again.  *)
Serial  == (\A p, q \in Proc : p = q) /\ ~ TornWrites
NoFiles == \A p \in Proc : "file" \notin MayRun[p]

(* OutOfHorizon, for a pruning at time t. *)
OldAt(op, t) == physicalMs(stamp[op]) < t - Horizon

(* The record in the hands of a command about to take step a, beside the     *)
(* stored ones and the last pruning: nothing is about to be forgotten that  *)
(* was not accepted or is not too old.                                      *)
Covers(a, j, records, pruned) ==
    /\ a \in {"fetch", "saveState"} => records.state \subseteq j.box
    /\ a = "saveQueue" => records.outbox \subseteq j.box
    /\ a = "saveDrain" => j.box = records.outbox \ j.accepted
    /\ a \in {"log", "saveLog"} => j.accepted \cap records.outbox = {}
    /\ a = "saveLog" => records.sent \cup j.accepted \subseteq j.box
    /\ a = "savePrunedOutbox" =>
          \A op \in records.outbox \ j.box : OldAt(op, pruned)
    /\ a = "savePrunedSent" => \A op \in records.sent \ j.box : OldAt(op, pruned)

NoLink(legs) == \A k \in 1 .. Len(legs) : legs[k] # "link"

(* A command that issued sends its operation alone, by transports that      *)
(* accept all or throw.                                                     *)
Aims(a, j, records) ==
    /\ j.kind # "file"
    /\ a = "stamp" => NoLink(j.legs)
    /\ a \in {"sent", "fetch"} => j.op = 0
    /\ a \in {"apply", "saveState", "queue", "saveQueue"} \cup Sending /\ j.op # 0 =>
          j.batch = {j.op} /\ NoLink(j.legs)
    /\ a \in Sending \ {"send"} /\ j.op # 0 => j.accepted = {j.op}
    /\ a = "report" => j.op \in records.sent \ records.outbox

(* An operation can be sent again, is too old, or is about to be logged. *)
InReach(op, a, j, records, pruned) ==
    \/ op \in records.outbox \cup records.sent
    \/ OldAt(op, pruned)
    \/ a \in {"log", "saveLog"} /\ op \in j.accepted

SInv ==
    /\ prunedAt <= wall /\ queued \subseteq Issued /\ (queued # {} => Proc # {})
    /\ UnsentStaysQueued /\ AppliedStays
    /\ \A p \in Proc : Covers(at[p], job[p], disk, prunedAt)
    /\ NoFiles => \A p \in Proc :
          /\ Aims(at[p], job[p], disk)
          /\ crashes = 0 => \A op \in queued : InReach(op, at[p], job[p], disk, prunedAt)

------------------------------------------------------------------------------
LEMMA InitSerial == Init => SInv
<1> SUFFICES ASSUME Init PROVE SInv
  OBVIOUS
<1>1. prunedAt <= wall /\ queued = {} /\ held = {}
  BY DEF Init
<1>2. ASSUME NEW p \in Proc
      PROVE  Covers(at[p], job[p], disk, prunedAt) /\ Aims(at[p], job[p], disk)
  <2>1. at[p] = "idle" /\ job[p] = NoJob
    BY DEF Init
  <2> QED
    BY <2>1 DEF Covers, Aims, NoJob, Sending
<1> QED
  BY <1>1, <1>2 DEF SInv, UnsentStaysQueued, AppliedStays

(* What is too old stays so. *)
LEMMA OldStaysOld ==
    ASSUME IInv, NEW op \in Issued, NEW t \in Time, NEW u \in Time, t <= u, OldAt(op, t)
    PROVE  OldAt(op, u)
<1>1. stamp[op] \in Int
  BY DEF IInv, TypeOK, Issued
<1>2. physicalMs(stamp[op]) \in Int /\ t \in Int /\ u \in Int /\ Horizon \in Int
  BY <1>1, PhysicalType, HorizonAssumption, IssuanceAssumption
<1> QED
  BY <1>2 DEF OldAt

(* The invariant, as the steps use it. *)
LEMMA SerialNow ==
    ASSUME IInv, SInv
    PROVE  /\ prunedAt <= wall /\ prunedAt <= prunedAt /\ wall <= wall
           /\ wall \in Time /\ prunedAt \in Time
           /\ queued \subseteq Issued /\ held \subseteq disk.state
           /\ \A op \in queued \ taken : op \in disk.outbox \/ OldAt(op, prunedAt)
           /\ disk \in Disk /\ disk.outbox \subseteq Issued /\ disk.sent \subseteq Issued
<1>1. prunedAt <= wall /\ queued \subseteq Issued /\ held \subseteq disk.state
  BY DEF SInv, AppliedStays
<1>2. \A op \in queued \ taken : op \in disk.outbox \/ OldAt(op, prunedAt)
  BY DEF SInv, UnsentStaysQueued, OutOfHorizon, OldAt
<1>3. wall \in Time /\ prunedAt \in Time
  BY DEF IInv, TypeOK
<1>4. prunedAt <= prunedAt /\ wall <= wall
  BY <1>3, IssuanceAssumption
<1> QED
  BY <1>1, <1>2, <1>3, <1>4, RecordFacts

(* A step of the one command that issues nothing. *)
LEMMA SerialWrite ==
    ASSUME IInv, SInv, Serial, NEW p \in Proc, NEW from, NEW to, NEW j,
           Go(p, from, to, j),
           to # "idle" =>
              /\ Covers(to, j, disk', prunedAt')
              /\ NoFiles => Aims(to, j, disk'),
           stamp' = stamp, prunedAt <= prunedAt', prunedAt' <= wall,
           queued' \subseteq Issued, held' \subseteq disk'.state,
           \A op \in queued' \ taken' : op \in disk'.outbox \/ OldAt(op, prunedAt'),
           NoFiles /\ crashes' = 0 =>
              \A op \in queued' : InReach(op, to, j, disk', prunedAt')
    PROVE  SInv'
<1> DEFINE new == IF to = "idle" THEN NoJob ELSE j
<1>1. /\ wall' = wall /\ at' = [at EXCEPT ![p] = to] /\ job' = [job EXCEPT ![p] = new]
      /\ at \in [Proc -> Step] /\ job \in [Proc -> Job]
  BY DEF Go, IInv, TypeOK
<1>2. Covers(to, new, disk', prunedAt') /\ (NoFiles => Aims(to, new, disk'))
  <2>1. CASE to = "idle"
    BY <2>1 DEF Covers, Aims, NoJob, Sending
  <2>2. CASE to # "idle"
    BY <2>2
  <2> QED
    BY <2>1, <2>2
<1>3. NoFiles /\ crashes' = 0 =>
         \A op \in queued' : InReach(op, to, new, disk', prunedAt')
  BY DEF InReach
<1> HIDE DEF new
<1>4. \A q \in Proc : at'[q] = to /\ job'[q] = new
  BY <1>1 DEF Serial
<1>5. \A q \in Proc : Covers(at'[q], job'[q], disk', prunedAt')
  BY <1>2, <1>4
<1>6. NoFiles => \A q \in Proc :
         /\ Aims(at'[q], job'[q], disk')
         /\ crashes' = 0 => \A op \in queued' : InReach(op, at'[q], job'[q], disk', prunedAt')
  BY <1>2, <1>3, <1>4
<1>7. \A op, t : OldAt(op, t) <=> physicalMs(stamp'[op]) < t - Horizon
  BY DEF OldAt
<1>8. (\A q \in Proc : Covers(at[q], job[q], disk, prunedAt))'
  BY <1>5, <1>7 DEF Covers, OldAt
<1>9. (NoFiles => \A q \in Proc :
         /\ Aims(at[q], job[q], disk)
         /\ crashes = 0 => \A op \in queued : InReach(op, at[q], job[q], disk, prunedAt))'
  BY <1>6, <1>7 DEF Aims, InReach, OldAt, NoFiles, NoLink
<1>10. UnsentStaysQueued'
  BY <1>7 DEF UnsentStaysQueued, OutOfHorizon
<1> QED
  BY <1>1, <1>8, <1>9, <1>10 DEF SInv, AppliedStays, Issued

(* A step that changes nothing durable: it must not lose what it accepted. *)
LEMMA SerialRead ==
    ASSUME IInv, SInv, Serial, NEW p \in Proc, NEW from, NEW to, NEW j,
           Go(p, from, to, j),
           UNCHANGED <<disk, stamp, queued, held, prunedAt>>,
           taken \subseteq taken', crashes' = 0 => crashes = 0,
           to # "idle" =>
              /\ Covers(to, j, disk, prunedAt)
              /\ NoFiles => Aims(to, j, disk),
           NoFiles /\ crashes' = 0 /\ from \in {"log", "saveLog"} =>
              \/ job[p].accepted \subseteq disk.sent
              \/ to \in {"log", "saveLog"} /\ j.accepted = job[p].accepted
    PROVE  SInv'
<1>1. at[p] = from
  BY DEF Go
<1>2. /\ prunedAt <= wall /\ queued \subseteq Issued /\ held \subseteq disk.state
      /\ \A op \in queued \ taken : op \in disk.outbox \/ OldAt(op, prunedAt)
  BY SerialNow
<1>3. NoFiles /\ crashes' = 0 => \A op \in queued : InReach(op, to, j, disk, prunedAt)
  <2> SUFFICES ASSUME NoFiles, crashes' = 0, NEW op \in queued
               PROVE  InReach(op, to, j, disk, prunedAt)
    OBVIOUS
  <2>1. InReach(op, from, job[p], disk, prunedAt)
    BY <1>1 DEF SInv
  <2> QED
    BY <2>1 DEF InReach
<1>4. prunedAt <= prunedAt
  BY SerialNow
<1>5. /\ to # "idle" => /\ Covers(to, j, disk', prunedAt')
                        /\ NoFiles => Aims(to, j, disk')
      /\ prunedAt <= prunedAt' /\ prunedAt' <= wall
      /\ queued' \subseteq Issued /\ held' \subseteq disk'.state
      /\ \A op \in queued' \ taken' : op \in disk'.outbox \/ OldAt(op, prunedAt')
      /\ NoFiles /\ crashes' = 0 =>
            \A op \in queued' : InReach(op, to, j, disk', prunedAt')
  BY <1>2, <1>3, <1>4
<1> QED
  BY <1>5, SerialWrite

(* What the invariants say of the one command. *)
LEMMA SerialFacts ==
    ASSUME IInv, SInv, NEW p \in Proc
    PROVE  /\ Fits(at[p], job[p], taken) /\ job[p] \in Job
           /\ Covers(at[p], job[p], disk, prunedAt)
           /\ NoFiles => Aims(at[p], job[p], disk)
BY JobFacts DEF SInv

LEMMA ReadIs ==
    ASSUME NEW p, NEW from, NEW to, NEW j, Read(p, from, to, j)
    PROVE  /\ Go(p, from, to, j) /\ at[p] = from
           /\ UNCHANGED <<disk, stamp, queued, held, prunedAt>>
           /\ taken \subseteq taken' /\ (crashes' = 0 => crashes = 0)
BY DEF Read, Go, history

LEMMA SerialStart ==
    ASSUME IInv, SInv, Serial, NEW p \in Proc,
           \/ \E kind \in {"issue", "stage"}, legs \in IssueLegs : StartIssue(p, kind, legs)
           \/ \E leg \in Leg, source \in Source : StartPublish(p, leg, source)
           \/ \E leg \in Leg, op \in 1 .. Len(stamp) : StartFile(p, leg, op)
           \/ StartSync(p)
    PROVE  SInv'
<1>1. ASSUME NEW kind \in {"issue", "stage"}, NEW legs \in IssueLegs,
             StartIssue(p, kind, legs)
      PROVE  SInv'
  <2> DEFINE j == [NoJob EXCEPT !.kind = kind, !.clock = Advance(disk.clock, wall),
                                !.legs = legs]
  <2>1. Read(p, "idle", "stamp", j)
    BY <1>1, Zenon DEF StartIssue
  <2>2. j.kind = kind /\ j.legs = legs /\ j.op = 0
    BY DEF NoJob
  <2> HIDE DEF j
  <2>3. NoLink(legs)
    BY DEF NoLink, IssueLegs
  <2>4. Covers("stamp", j, disk, prunedAt) /\ Aims("stamp", j, disk)
    BY <2>2, <2>3 DEF Covers, Aims, Sending
  <2> QED
    BY <2>1, <2>4, ReadIs, SerialRead
<1>2. ASSUME NEW leg \in Leg, NEW source \in Source, StartPublish(p, leg, source)
      PROVE  SInv'
  <2> DEFINE j == [NoJob EXCEPT !.kind = "publish", !.legs = <<leg>>,
                          !.batch = IF source = "sent" THEN {} ELSE disk.outbox]
             to == IF source = "outbox" THEN "send" ELSE "sent"
  <2>1. Read(p, "idle", to, j) /\ to \in {"send", "sent"}
    BY <1>2, Zenon DEF StartPublish
  <2>2. j.kind = "publish" /\ j.op = 0
    BY DEF NoJob
  <2> HIDE DEF j, to
  <2>3. Covers(to, j, disk, prunedAt) /\ Aims(to, j, disk)
    BY <2>1, <2>2 DEF Covers, Aims, Sending
  <2> QED
    BY <2>1, <2>3, ReadIs, SerialRead
<1>3. ASSUME NEW leg \in Leg, NEW op \in 1 .. Len(stamp), StartFile(p, leg, op)
      PROVE  SInv'
  <2> DEFINE j == [NoJob EXCEPT !.kind = "file", !.legs = <<leg>>, !.batch = {op}]
  <2>1. Read(p, "idle", "send", j) /\ "file" \in MayRun[p]
    BY <1>3, Zenon DEF StartFile
  <2> HIDE DEF j
  <2>2. Covers("send", j, disk, prunedAt) /\ ~ NoFiles
    BY <2>1 DEF Covers, NoFiles
  <2> QED
    BY <2>1, <2>2, ReadIs, SerialRead
<1>4. ASSUME StartSync(p)
      PROVE  SInv'
  <2> DEFINE j == [NoJob EXCEPT !.box = disk.state]
  <2>1. Read(p, "idle", "fetch", j)
    BY <1>4, Zenon DEF StartSync
  <2>2. j.kind = "sync" /\ j.op = 0 /\ j.box = disk.state
    BY DEF NoJob
  <2> HIDE DEF j
  <2>3. Covers("fetch", j, disk, prunedAt) /\ Aims("fetch", j, disk)
    BY <2>2 DEF Covers, Aims, Sending
  <2> QED
    BY <2>1, <2>3, ReadIs, SerialRead
<1> QED
  BY <1>1, <1>2, <1>3, <1>4

(* The operation just stamped is in no record yet. *)
LEMMA SerialStamp ==
    ASSUME IInv, SInv, Serial, NEW p \in Proc, Stamp(p)
    PROVE  SInv'
<1> DEFINE n == Len(stamp) + 1
           ts == HlcOf(job[p].clock)
           j == [job[p] EXCEPT !.op = n, !.batch = {n}]
           to == IF job[p].kind = "stage" THEN "queue" ELSE "apply"
<1>0. /\ job[p] \in Job /\ disk \in Disk /\ at[p] = "stamp" /\ Len(stamp) \in Nat
      /\ stamp \in Seq(Nat) /\ at \in [Proc -> Step] /\ job \in [Proc -> Job]
  BY JobFacts DEF Stamp, Go, IInv, TypeOK
<1>1. /\ disk' = [disk EXCEPT !.clock = job[p].clock, !.broken = @ \ {"clock"}]
      /\ stamp' = Append(stamp, ts) /\ wall' = wall
      /\ at' = [at EXCEPT ![p] = to] /\ job' = [job EXCEPT ![p] = j]
      /\ UNCHANGED <<queued, held, taken, prunedAt, crashes>>
  BY <1>0, Zenon DEF Stamp, Go
<1>2. j.op = n /\ j.batch = {n} /\ j.kind = job[p].kind /\ j.legs = job[p].legs
  BY <1>0 DEF Job
<1>3. to \in {"queue", "apply"}
  OBVIOUS
<1>4. disk'.outbox = disk.outbox /\ disk'.sent = disk.sent /\ disk'.state = disk.state
  BY <1>0, <1>1 DEF Disk
<1> HIDE DEF j, to, ts, n
<1>5. Issued \subseteq Issued' /\ \A i \in Issued : stamp'[i] = stamp[i]
  BY <1>0, <1>1 DEF Issued
<1>6. \A q \in Proc : at'[q] = to /\ job'[q] = j
  BY <1>0, <1>1 DEF Serial
<1>7. \A t : \A op \in Issued : OldAt(op, t) => physicalMs(stamp'[op]) < t - Horizon
  BY <1>5 DEF OldAt
<1>8. /\ prunedAt <= wall /\ queued \subseteq Issued /\ held \subseteq disk.state
      /\ \A op \in queued \ taken : op \in disk.outbox \/ OldAt(op, prunedAt)
  BY SerialNow
<1>9. UnsentStaysQueued'
  BY <1>1, <1>4, <1>7, <1>8 DEF UnsentStaysQueued, OutOfHorizon
<1>10. (\A q \in Proc : Covers(at[q], job[q], disk, prunedAt))'
  BY <1>3, <1>6 DEF Covers
<1>11. ASSUME NoFiles
       PROVE  (\A q \in Proc :
                 /\ Aims(at[q], job[q], disk)
                 /\ crashes = 0 => \A op \in queued : InReach(op, at[q], job[q], disk, prunedAt))'
  <2>1. job[p].kind # "file" /\ NoLink(job[p].legs)
    BY <1>0, <1>11, SerialFacts DEF Aims
  <2>2. (\A q \in Proc : Aims(at[q], job[q], disk))'
    BY <1>2, <1>3, <1>6, <2>1 DEF Aims, Sending, NoLink
  <2>3. crashes = 0 => \A op \in queued :
           op \in disk.outbox \cup disk.sent \/ OldAt(op, prunedAt)
    BY <1>0, <1>11 DEF SInv, InReach
  <2>4. (\A q \in Proc : crashes = 0 =>
           \A op \in queued : InReach(op, at[q], job[q], disk, prunedAt))'
    BY <1>1, <1>4, <1>7, <1>8, <2>3 DEF InReach, OldAt
  <2> QED
    BY <2>2, <2>4
<1>12. Proc # {}
  OBVIOUS
<1> QED
  BY <1>1, <1>4, <1>5, <1>8, <1>9, <1>10, <1>11, <1>12 DEF SInv, AppliedStays, NoFiles

LEMMA SerialIssue ==
    ASSUME IInv, SInv, Serial, NEW p \in Proc,
           ApplyLocally(p) \/ SaveState(p) \/ Queue(p) \/ SaveQueue(p)
    PROVE  SInv'
<1>0. /\ Fits(at[p], job[p], taken) /\ job[p] \in Job
      /\ Covers(at[p], job[p], disk, prunedAt)
      /\ NoFiles => Aims(at[p], job[p], disk)
  BY SerialFacts
<1>1. /\ prunedAt <= wall /\ queued \subseteq Issued /\ held \subseteq disk.state
      /\ \A op \in queued \ taken : op \in disk.outbox \/ OldAt(op, prunedAt)
      /\ prunedAt <= prunedAt
  BY SerialNow
<1>2. ASSUME NoFiles, crashes = 0, at[p] \notin {"log", "saveLog"}, NEW op \in queued
      PROVE  op \in disk.outbox \cup disk.sent \/ OldAt(op, prunedAt)
  BY <1>2 DEF SInv, InReach
<1>3. disk \in Disk /\ Issued \subseteq Own
  BY RecordFacts
<1>4. ASSUME ApplyLocally(p)
      PROVE  SInv'
  <2> DEFINE box == disk.state \cup {job[p].op}
             j == [job[p] EXCEPT !.box = box]
  <2>1. /\ Read(p, "apply", "saveState", j) \/ Read(p, "apply", "idle", NoJob)
        /\ at[p] = "apply"
    BY <1>4, Zenon DEF ApplyLocally
  <2>2. /\ j.box = box /\ j.op = job[p].op /\ j.batch = job[p].batch
        /\ j.kind = job[p].kind /\ j.legs = job[p].legs
    BY <1>0 DEF Job
  <2>3. disk.state \subseteq box
    OBVIOUS
  <2> HIDE DEF j, box
  <2>4. Covers("saveState", j, disk, prunedAt) /\ (NoFiles => Aims("saveState", j, disk))
    BY <1>0, <2>1, <2>2, <2>3 DEF Covers, Aims, Sending
  <2> QED
    BY <2>1, <2>4, ReadIs, SerialRead
<1>5. ASSUME SaveState(p)
      PROVE  SInv'
  <2> DEFINE to == CASE job[p].kind = "issue" -> "queue"
                     [] job[p].kind = "prune" -> "pruneOutbox"
                     [] job[p].kind = "sync"  -> "idle"
  <2>1. /\ Go(p, "saveState", to, job[p]) /\ at[p] = "saveState"
        /\ disk' = [disk EXCEPT !.state = job[p].box, !.broken = @ \ {"state"}]
        /\ held' = held \cup job[p].box
        /\ UNCHANGED <<stamp, queued, taken, prunedAt, crashes>>
    BY <1>5, Zenon DEF SaveState, Go
  <2>2. job[p].kind \in {"issue", "sync", "prune"} /\ disk.state \subseteq job[p].box
    BY <1>0, <2>1 DEF Fits, Covers
  <2>3. to \in {"queue", "pruneOutbox", "idle"}
    BY <2>2
  <2>4. /\ disk'.outbox = disk.outbox /\ disk'.sent = disk.sent
        /\ disk'.state = job[p].box
    BY <1>3, <2>1 DEF Disk
  <2> HIDE DEF to
  <2>5. /\ Covers(to, job[p], disk', prunedAt')
        /\ NoFiles => Aims(to, job[p], disk')
    BY <1>0, <2>1, <2>3 DEF Covers, Aims, Sending
  <2>6. NoFiles /\ crashes' = 0 =>
           \A op \in queued' : InReach(op, to, job[p], disk', prunedAt')
    BY <1>2, <2>1, <2>4 DEF InReach
  <2>7. held' \subseteq disk'.state
    BY <1>1, <2>1, <2>2, <2>4
  <2> QED
    BY <1>1, <2>1, <2>4, <2>5, <2>6, <2>7, SerialWrite
<1>6. ASSUME Queue(p)
      PROVE  SInv'
  <2> DEFINE box == disk.outbox \cup {job[p].op}
             j == [job[p] EXCEPT !.box = box]
  <2>1. Read(p, "queue", "saveQueue", j) /\ at[p] = "queue"
    BY <1>6, Zenon DEF Queue, Read, Go
  <2>2. /\ j.box = box /\ j.op = job[p].op /\ j.batch = job[p].batch
        /\ j.kind = job[p].kind /\ j.legs = job[p].legs
    BY <1>0 DEF Job
  <2>3. disk.outbox \subseteq box
    OBVIOUS
  <2> HIDE DEF j, box
  <2>4. Covers("saveQueue", j, disk, prunedAt) /\ (NoFiles => Aims("saveQueue", j, disk))
    BY <1>0, <2>1, <2>2, <2>3 DEF Covers, Aims, Sending
  <2> QED
    BY <2>1, <2>4, ReadIs, SerialRead
<1>7. ASSUME SaveQueue(p)
      PROVE  SInv'
  <2> DEFINE to == IF job[p].legs = <<>> THEN "idle" ELSE "send"
  <2>1. /\ Go(p, "saveQueue", to, job[p]) /\ at[p] = "saveQueue"
        /\ disk' = [disk EXCEPT !.outbox = job[p].box]
        /\ queued' = queued \cup job[p].box
        /\ UNCHANGED <<stamp, held, taken, prunedAt, crashes>>
    BY <1>7, Zenon DEF SaveQueue, Go
  <2>2. /\ disk.outbox \subseteq job[p].box /\ job[p].box \subseteq Issued
    BY <1>0, <2>1 DEF Covers, Fits, Boxing
  <2>3. /\ disk'.outbox = job[p].box /\ disk'.sent = disk.sent
        /\ disk'.state = disk.state
    BY <1>3, <2>1 DEF Disk
  <2>4. to \in {"idle", "send"}
    OBVIOUS
  <2> HIDE DEF to
  <2>5. /\ Covers(to, job[p], disk', prunedAt')
        /\ NoFiles => Aims(to, job[p], disk')
    BY <1>0, <2>1, <2>4 DEF Covers, Aims, Sending
  <2>6. NoFiles /\ crashes' = 0 =>
           \A op \in queued' : InReach(op, to, job[p], disk', prunedAt')
    BY <1>2, <2>1, <2>2, <2>3 DEF InReach
  <2>7. /\ queued' \subseteq Issued /\ held' \subseteq disk'.state
        /\ \A op \in queued' \ taken' : op \in disk'.outbox \/ OldAt(op, prunedAt')
    BY <1>1, <2>1, <2>2, <2>3
  <2> QED
    BY <1>1, <2>1, <2>5, <2>6, <2>7, SerialWrite
<1> QED
  BY <1>4, <1>5, <1>6, <1>7

------------------------------------------------------------------------------
LEMMA NextLegFacts ==
    ASSUME NEW j \in Job, j.legs # <<>>
    PROVE  /\ NextLeg(j).op = j.op /\ NextLeg(j).batch = j.batch
           /\ NextLeg(j).kind = j.kind /\ NextLeg(j).accepted = j.accepted
           /\ NoLink(j.legs) => NoLink(NextLeg(j).legs)
           /\ AfterLeg(j) \in {"send", "report", "idle"}
           /\ AfterLeg(j) = "report" => j.op # 0
<1> DEFINE t == Tail(j.legs)
<1>1. /\ t \in Seq(Leg) /\ Len(t) = Len(j.legs) - 1 /\ Len(j.legs) \in Nat
      /\ \A i \in 1 .. Len(t) : t[i] = j.legs[i + 1]
  <2>1. j.legs \in Seq(Leg)
    BY DEF Job
  <2> QED
    BY <2>1, HeadTailProperties
<1>2. NextLeg(j) = [j EXCEPT !.legs = t]
  BY DEF NextLeg
<1> HIDE DEF t
<1>3. /\ NextLeg(j).op = j.op /\ NextLeg(j).batch = j.batch /\ NextLeg(j).legs = t
      /\ NextLeg(j).kind = j.kind /\ NextLeg(j).accepted = j.accepted
  BY <1>2 DEF Job
<1>4. ASSUME NoLink(j.legs), NEW i \in 1 .. Len(t)
      PROVE  t[i] # "link"
  <2>1. i + 1 \in 1 .. Len(j.legs) /\ t[i] = j.legs[i + 1]
    BY <1>1
  <2> QED
    BY <1>4, <2>1 DEF NoLink
<1> QED
  BY <1>3, <1>4 DEF NoLink, AfterLeg

(* Going on with the next leg, or to the report, when what was accepted is   *)
(* logged, or nothing was and the command did not issue.                    *)
LEMMA NextLegAims ==
    ASSUME NEW j \in Job, NEW a \in Sending, NEW records,
           j.legs # <<>>, Aims(a, j, records),
           j.op # 0 => j.op \in records.sent \ records.outbox
    PROVE  Aims(AfterLeg(j), NextLeg(j), records)
BY NextLegFacts DEF Aims, Sending

LEMMA SerialSend ==
    ASSUME IInv, SInv, Serial, NEW p \in Proc, AddSent(p) \/ Send(p) \/ SendThrows(p)
    PROVE  SInv'
<1>0. /\ Fits(at[p], job[p], taken) /\ job[p] \in Job
      /\ NoFiles => Aims(at[p], job[p], disk)
  BY SerialFacts
<1>1. ASSUME AddSent(p)
      PROVE  SInv'
  <2> DEFINE batch == job[p].batch \cup disk.sent
             j == [job[p] EXCEPT !.batch = batch]
             to == IF batch = {} THEN "idle" ELSE "send"
  <2>1. Read(p, "sent", to, j) /\ at[p] = "sent"
    BY <1>1, Zenon DEF AddSent, Read, Go
  <2>2. j.op = job[p].op /\ j.kind = job[p].kind
    BY <1>0 DEF Job
  <2>3. to \in {"idle", "send"}
    OBVIOUS
  <2> HIDE DEF j, batch, to
  <2>4. Covers(to, j, disk, prunedAt) /\ (NoFiles => Aims(to, j, disk))
    BY <1>0, <2>1, <2>2, <2>3 DEF Covers, Aims, Sending
  <2> QED
    BY <2>1, <2>4, ReadIs, SerialRead
<1>2. ASSUME Send(p)
      PROVE  SInv'
  <2>1. PICK accepted \in SUBSET job[p].batch :
           LET j == [job[p] EXCEPT !.accepted = accepted]
           IN  /\ at[p] = "send"
               /\ MayAccept(j, accepted)
               /\ IF accepted = {}
                  THEN Go(p, "send", AfterLeg(j), NextLeg(j))
                  ELSE Go(p, "send", "drain", j)
               /\ taken' = taken \cup accepted
               /\ UNCHANGED <<disk, stamp, queued, held, prunedAt, crashes>>
    BY <1>2, Zenon DEF Send
  <2> DEFINE j == [job[p] EXCEPT !.accepted = accepted]
  <2>2. /\ at[p] = "send" /\ MayAccept(j, accepted)
        /\ \/ accepted = {} /\ Go(p, "send", AfterLeg(j), NextLeg(j))
           \/ Go(p, "send", "drain", j)
        /\ taken' = taken \cup accepted
        /\ UNCHANGED <<disk, stamp, queued, held, prunedAt, crashes>>
    BY <2>1, Zenon
  <2>3. /\ j.accepted = accepted /\ j.batch = job[p].batch /\ j.kind = job[p].kind
        /\ j.op = job[p].op /\ j.legs = job[p].legs
    BY <1>0 DEF Job
  <2>4. j \in Job /\ j.legs # <<>>
    <3>1. accepted \in SUBSET Own
      BY <1>0 DEF Job
    <3> QED
      BY <1>0, <2>2, <2>3, <3>1 DEF Job, Fits, Sending
  <2> HIDE DEF j
  <2>5. ASSUME NoFiles, j.op # 0
        PROVE  accepted = {j.op}
    <3>1. j.batch = {j.op} /\ NoLink(j.legs)
      BY <1>0, <2>2, <2>3, <2>5 DEF Aims, Sending
    <3>2. Head(j.legs) = j.legs[1] /\ 1 \in 1 .. Len(j.legs)
      <4>1. j.legs \in Seq(Leg) /\ j.legs # <<>>
        BY <2>4 DEF Job
      <4> QED
        BY <4>1
    <3>3. accepted = j.batch
      BY <2>2, <3>1, <3>2 DEF MayAccept, NoLink
    <3> QED
      BY <3>1, <3>3
  <2>6. NoFiles => Aims("send", j, disk) /\ Aims("drain", j, disk)
    BY <1>0, <2>2, <2>3, <2>5 DEF Aims, Sending
  <2>7. taken \subseteq taken' /\ (crashes' = 0 => crashes = 0)
    BY <2>2
  <2>8. CASE accepted = {} /\ Go(p, "send", AfterLeg(j), NextLeg(j))
    <3>1. AfterLeg(j) \in {"send", "report", "idle"}
      BY <2>4, NextLegFacts
    <3>2. Covers(AfterLeg(j), NextLeg(j), disk, prunedAt)
      BY <3>1 DEF Covers
    <3>3. NoFiles => Aims(AfterLeg(j), NextLeg(j), disk)
      <4>1. "send" \in Sending
        BY DEF Sending
      <4>2. NoFiles => j.op = 0
        BY <2>5, <2>8
      <4> QED
        BY <2>4, <2>6, <4>1, <4>2, NextLegAims
    <3> QED
      BY <2>2, <2>7, <2>8, <3>2, <3>3, SerialRead
  <2>9. CASE Go(p, "send", "drain", j)
    <3>1. Covers("drain", j, disk, prunedAt)
      BY DEF Covers
    <3> QED
      BY <2>2, <2>6, <2>7, <2>9, <3>1, SerialRead
  <2> QED
    BY <2>2, <2>8, <2>9
<1>3. ASSUME SendThrows(p)
      PROVE  SInv'
  <2>1. /\ Go(p, "send", "idle", NoJob) /\ taken \subseteq taken'
        /\ UNCHANGED <<disk, stamp, queued, held, prunedAt, crashes>>
    BY <1>3 DEF SendThrows
  <2> QED
    BY <2>1, SerialRead
<1> QED
  BY <1>1, <1>2, <1>3

LEMMA SerialRecord ==
    ASSUME IInv, SInv, Serial, NEW p \in Proc,
           Drain(p) \/ SaveDrain(p) \/ Log(p) \/ SaveLog(p) \/ Report(p)
    PROVE  SInv'
<1>0. /\ Fits(at[p], job[p], taken) /\ job[p] \in Job
      /\ Covers(at[p], job[p], disk, prunedAt)
      /\ NoFiles => Aims(at[p], job[p], disk)
  BY SerialFacts
<1>1. /\ prunedAt <= wall /\ queued \subseteq Issued /\ held \subseteq disk.state
      /\ \A op \in queued \ taken : op \in disk.outbox \/ OldAt(op, prunedAt)
      /\ prunedAt <= prunedAt /\ disk \in Disk
  BY SerialNow
<1>2. ASSUME NoFiles, crashes = 0, NEW op \in queued
      PROVE  InReach(op, at[p], job[p], disk, prunedAt)
  BY <1>2 DEF SInv
<1>3. ASSUME at[p] \in {"drain", "saveDrain"}, NEW records,
             job[p].accepted \cap records.outbox = {}
      PROVE  /\ Covers(AfterDrain(job[p]), DrainedJob(job[p]), records, prunedAt)
             /\ NoFiles => /\ AfterDrain(job[p]) = "log" /\ DrainedJob(job[p]) = job[p]
                           /\ Aims("log", job[p], records)
  <2>1. job[p].legs # <<>>
    BY <1>0, <1>3 DEF Fits, Sending
  <2>2. \/ AfterDrain(job[p]) = "log" /\ DrainedJob(job[p]) = job[p]
        \/ AfterDrain(job[p]) \in {"send", "report", "idle"} /\ job[p].kind = "file"
    BY <1>0, <2>1, NextLegFacts DEF AfterDrain, DrainedJob, Logs
  <2>3. Covers(AfterDrain(job[p]), DrainedJob(job[p]), records, prunedAt)
    BY <1>3, <2>2 DEF Covers
  <2>4. NoFiles => Aims("log", job[p], records) /\ job[p].kind # "file"
    BY <1>0, <1>3 DEF Aims, Sending
  <2> QED
    BY <2>2, <2>3, <2>4
<1>4. ASSUME Drain(p)
      PROVE  SInv'
  <2> DEFINE left == disk.outbox \ job[p].accepted
             j == [job[p] EXCEPT !.box = left]
  <2>1. /\ \/ Read(p, "drain", "saveDrain", j)
           \/ /\ left = disk.outbox
              /\ Read(p, "drain", AfterDrain(job[p]), DrainedJob(job[p]))
        /\ at[p] = "drain"
    BY <1>4, Zenon DEF Drain, Read, Go
  <2>2. /\ j.box = left /\ j.op = job[p].op /\ j.batch = job[p].batch
        /\ j.kind = job[p].kind /\ j.legs = job[p].legs /\ j.accepted = job[p].accepted
    BY <1>0 DEF Job
  <2>3. CASE Read(p, "drain", "saveDrain", j)
    <3> HIDE DEF j
    <3>1. Covers("saveDrain", j, disk, prunedAt)
      BY <2>2 DEF Covers
    <3>2. NoFiles => Aims("saveDrain", j, disk)
      BY <1>0, <2>1, <2>2 DEF Aims, Sending
    <3> QED
      BY <2>3, <3>1, <3>2, ReadIs, SerialRead
  <2>4. CASE left = disk.outbox /\ Read(p, "drain", AfterDrain(job[p]), DrainedJob(job[p]))
    <3>1. job[p].accepted \cap disk.outbox = {}
      BY <2>4
    <3>2. /\ Covers(AfterDrain(job[p]), DrainedJob(job[p]), disk, prunedAt)
          /\ NoFiles => Aims(AfterDrain(job[p]), DrainedJob(job[p]), disk)
      BY <1>3, <2>1, <3>1
    <3> QED
      BY <2>4, <3>2, ReadIs, SerialRead
  <2> QED
    BY <2>1, <2>3, <2>4
<1>5. ASSUME SaveDrain(p)
      PROVE  SInv'
  <2>1. /\ Go(p, "saveDrain", AfterDrain(job[p]), DrainedJob(job[p]))
        /\ disk' = [disk EXCEPT !.outbox = job[p].box] /\ at[p] = "saveDrain"
        /\ UNCHANGED <<stamp, queued, held, taken, prunedAt, crashes>>
    BY <1>5, Zenon DEF SaveDrain, Go, history
  <2>2. /\ job[p].box = disk.outbox \ job[p].accepted /\ job[p].accepted \subseteq taken
    BY <1>0, <2>1 DEF Covers, Fits, Sending
  <2>3. /\ disk'.outbox = job[p].box /\ disk'.sent = disk.sent
        /\ disk'.state = disk.state
    BY <1>1, <2>1 DEF Disk
  <2>4. /\ Covers(AfterDrain(job[p]), DrainedJob(job[p]), disk', prunedAt')
        /\ NoFiles => /\ AfterDrain(job[p]) = "log" /\ DrainedJob(job[p]) = job[p]
                      /\ Aims("log", job[p], disk')
    <3> DEFINE records == disk'
    <3>1. job[p].accepted \cap records.outbox = {}
      BY <2>2, <2>3
    <3> HIDE DEF records
    <3>2. /\ Covers(AfterDrain(job[p]), DrainedJob(job[p]), records, prunedAt)
          /\ NoFiles => /\ AfterDrain(job[p]) = "log" /\ DrainedJob(job[p]) = job[p]
                        /\ Aims("log", job[p], records)
      BY <1>3, <2>1, <3>1
    <3> QED
      BY <2>1, <3>2 DEF records
  <2>5. NoFiles /\ crashes' = 0 =>
           \A op \in queued' :
              InReach(op, AfterDrain(job[p]), DrainedJob(job[p]), disk', prunedAt')
    BY <1>2, <2>1, <2>2, <2>3, <2>4 DEF InReach
  <2>6. \A op \in queued' \ taken' : op \in disk'.outbox \/ OldAt(op, prunedAt')
    BY <1>1, <2>1, <2>2, <2>3
  <2>7. NoFiles => Aims(AfterDrain(job[p]), DrainedJob(job[p]), disk')
    BY <2>4
  <2> QED
    BY <1>1, <2>1, <2>3, <2>4, <2>5, <2>6, <2>7, SerialWrite
<1>6. ASSUME Log(p)
      PROVE  SInv'
  <2> DEFINE all == disk.sent \cup job[p].accepted
             j == [job[p] EXCEPT !.box = all]
  <2>1. /\ \/ Read(p, "log", "saveLog", j)
           \/ all = disk.sent /\ Read(p, "log", AfterLeg(job[p]), NextLeg(job[p]))
        /\ at[p] = "log"
    BY <1>6, Zenon DEF Log, Read, Go
  <2>2. /\ j.box = all /\ j.op = job[p].op /\ j.batch = job[p].batch
        /\ j.kind = job[p].kind /\ j.legs = job[p].legs /\ j.accepted = job[p].accepted
    BY <1>0 DEF Job
  <2>3. job[p].accepted \cap disk.outbox = {} /\ job[p].legs # <<>>
    BY <1>0, <2>1 DEF Covers, Fits, Sending
  <2>4. CASE Read(p, "log", "saveLog", j)
    <3> HIDE DEF j
    <3>1. Covers("saveLog", j, disk, prunedAt)
      BY <2>2, <2>3 DEF Covers
    <3>2. NoFiles => Aims("saveLog", j, disk)
      BY <1>0, <2>1, <2>2 DEF Aims, Sending
    <3> QED
      BY <2>2, <2>4, <3>1, <3>2, ReadIs, SerialRead
  <2>5. CASE all = disk.sent /\ Read(p, "log", AfterLeg(job[p]), NextLeg(job[p]))
    <3>1. job[p].accepted \subseteq disk.sent
      BY <2>5
    <3>2. AfterLeg(job[p]) \in {"send", "report", "idle"}
      BY <1>0, <2>3, NextLegFacts
    <3>3. Covers(AfterLeg(job[p]), NextLeg(job[p]), disk, prunedAt)
      BY <3>2 DEF Covers
    <3>4. NoFiles => Aims(AfterLeg(job[p]), NextLeg(job[p]), disk)
      <4>1. "log" \in Sending
        BY DEF Sending
      <4>2. NoFiles /\ job[p].op # 0 => job[p].op \in disk.sent \ disk.outbox
        BY <1>0, <2>1, <2>3, <3>1 DEF Aims, Sending
      <4> QED
        BY <1>0, <2>1, <2>3, <4>1, <4>2, NextLegAims
    <3> QED
      BY <2>5, <3>1, <3>3, <3>4, ReadIs, SerialRead
  <2> QED
    BY <2>1, <2>4, <2>5
<1>7. ASSUME SaveLog(p)
      PROVE  SInv'
  <2>1. /\ Go(p, "saveLog", AfterLeg(job[p]), NextLeg(job[p]))
        /\ disk' = [disk EXCEPT !.sent = job[p].box] /\ at[p] = "saveLog"
        /\ UNCHANGED <<stamp, queued, held, taken, prunedAt, crashes>>
    BY <1>7, Zenon DEF SaveLog, Go, history
  <2>2. /\ disk.sent \cup job[p].accepted \subseteq job[p].box
        /\ job[p].accepted \cap disk.outbox = {} /\ job[p].legs # <<>>
    BY <1>0, <2>1 DEF Covers, Fits, Sending
  <2>3. /\ disk'.outbox = disk.outbox /\ disk'.sent = job[p].box
        /\ disk'.state = disk.state
    BY <1>1, <2>1 DEF Disk
  <2>4. AfterLeg(job[p]) \in {"send", "report", "idle"}
    BY <1>0, <2>2, NextLegFacts
  <2>5. Covers(AfterLeg(job[p]), NextLeg(job[p]), disk', prunedAt')
    BY <2>4 DEF Covers
  <2>6. NoFiles => Aims(AfterLeg(job[p]), NextLeg(job[p]), disk')
    <3> DEFINE records == disk'
    <3>1. "saveLog" \in Sending
      BY DEF Sending
    <3>2. NoFiles => Aims("saveLog", job[p], records)
      BY <1>0, <2>1 DEF Aims
    <3>3. NoFiles /\ job[p].op # 0 => job[p].op \in records.sent \ records.outbox
      BY <1>0, <2>1, <2>2, <2>3 DEF Aims, Sending
    <3> HIDE DEF records
    <3>4. NoFiles => Aims(AfterLeg(job[p]), NextLeg(job[p]), records)
      BY <1>0, <2>2, <3>1, <3>2, <3>3, NextLegAims
    <3> QED
      BY <3>4 DEF records
  <2>7. NoFiles /\ crashes' = 0 =>
           \A op \in queued' :
              InReach(op, AfterLeg(job[p]), NextLeg(job[p]), disk', prunedAt')
    BY <1>2, <2>1, <2>2, <2>3 DEF InReach
  <2>8. \A op \in queued' \ taken' : op \in disk'.outbox \/ OldAt(op, prunedAt')
    BY <1>1, <2>1, <2>3
  <2> QED
    BY <1>1, <2>1, <2>3, <2>5, <2>6, <2>7, <2>8, SerialWrite
<1>8. ASSUME Report(p)
      PROVE  SInv'
  <2>1. Read(p, "report", "idle", NoJob)
    BY <1>8, Zenon DEF Report
  <2> QED
    BY <2>1, ReadIs, SerialRead
<1> QED
  BY <1>4, <1>5, <1>6, <1>7, <1>8

LEMMA SerialSync ==
    ASSUME IInv, SInv, Serial, NEW p \in Proc,
           \/ \E op \in Foreign \cup 1 .. Len(stamp) : Fetch(p, op)
           \/ EndFetch(p) \/ FetchThrows(p)
    PROVE  SInv'
<1>0. /\ job[p] \in Job /\ Covers(at[p], job[p], disk, prunedAt)
      /\ Fits(at[p], job[p], taken)
      /\ NoFiles => Aims(at[p], job[p], disk)
  BY SerialFacts
<1>1. ASSUME NEW op \in Foreign \cup 1 .. Len(stamp), Fetch(p, op)
      PROVE  SInv'
  <2> DEFINE box == job[p].box \cup {op}
             j == [job[p] EXCEPT !.box = box]
  <2>1. Read(p, "fetch", "fetch", j) /\ at[p] = "fetch"
    BY <1>1 DEF Fetch, Read, Go
  <2>2. j.box = box /\ j.kind = job[p].kind /\ j.op = job[p].op
    BY <1>0 DEF Job
  <2>3. disk.state \subseteq box
    BY <1>0, <2>1 DEF Covers
  <2> HIDE DEF j, box
  <2>4. Covers("fetch", j, disk, prunedAt) /\ (NoFiles => Aims("fetch", j, disk))
    BY <1>0, <2>1, <2>2, <2>3 DEF Covers, Aims, Sending
  <2> QED
    BY <2>1, <2>4, ReadIs, SerialRead
<1>2. ASSUME EndFetch(p)
      PROVE  SInv'
  <2>1. Read(p, "fetch", "saveState", job[p]) /\ at[p] = "fetch"
    BY <1>2, Zenon DEF EndFetch, Read, Go
  <2>2. /\ Covers("saveState", job[p], disk, prunedAt)
        /\ NoFiles => Aims("saveState", job[p], disk)
    BY <1>0, <2>1 DEF Covers, Aims, Sending
  <2> QED
    BY <2>1, <2>2, ReadIs, SerialRead
<1>3. ASSUME FetchThrows(p)
      PROVE  SInv'
  <2>1. Read(p, "fetch", "idle", NoJob)
    BY <1>3, Zenon DEF FetchThrows
  <2> QED
    BY <2>1, ReadIs, SerialRead
<1> QED
  BY <1>1, <1>2, <1>3

(* A step of `prune` that only reads: what was too old stays so. *)
LEMMA SerialPrunes ==
    ASSUME IInv, SInv, Serial, NEW p \in Proc,
           NEW from \in Step \ {"log", "saveLog"}, NEW to, NEW j,
           Prunes(p, from, to, j),
           to # "idle" =>
              /\ Covers(to, j, disk, wall)
              /\ NoFiles => Aims(to, j, disk)
    PROVE  SInv'
<1>1. /\ Go(p, from, to, j) /\ prunedAt' = wall /\ at[p] = from
      /\ UNCHANGED <<disk, stamp, queued, held, taken, crashes>>
  BY DEF Prunes, Go
<1>2. /\ prunedAt <= wall /\ queued \subseteq Issued /\ held \subseteq disk.state
      /\ \A op \in queued \ taken : op \in disk.outbox \/ OldAt(op, prunedAt)
      /\ wall <= wall /\ wall \in Time /\ prunedAt \in Time
  BY SerialNow
<1>3. \A op \in queued : OldAt(op, prunedAt) => OldAt(op, wall)
  BY <1>2, OldStaysOld
<1>4. NoFiles /\ crashes = 0 => \A op \in queued : InReach(op, to, j, disk, wall)
  <2>1. NoFiles /\ crashes = 0 => \A op \in queued :
           op \in disk.outbox \cup disk.sent \/ OldAt(op, prunedAt)
    BY <1>1 DEF SInv, InReach
  <2> QED
    BY <1>3, <2>1 DEF InReach
<1>5. \A op \in queued \ taken : op \in disk.outbox \/ OldAt(op, wall)
  BY <1>2, <1>3
<1>6. /\ to # "idle" => /\ Covers(to, j, disk', prunedAt')
                        /\ NoFiles => Aims(to, j, disk')
      /\ stamp' = stamp /\ prunedAt <= prunedAt' /\ prunedAt' <= wall
      /\ queued' \subseteq Issued /\ held' \subseteq disk'.state
      /\ \A op \in queued' \ taken' : op \in disk'.outbox \/ OldAt(op, prunedAt')
      /\ NoFiles /\ crashes' = 0 =>
            \A op \in queued' : InReach(op, to, j, disk', prunedAt')
  BY <1>1, <1>2, <1>4, <1>5
<1> QED
  BY <1>1, <1>6, SerialWrite

(* Only what is too old is not kept. *)
LEMMA NotKeptIsOld ==
    ASSUME IInv, NEW box \in SUBSET Issued, NEW op \in box \ Kept(box)
    PROVE  OldAt(op, wall)
<1>1. op \in Issued /\ stamp \in Seq(Nat)
  BY DEF IInv, TypeOK
<1>2. stamp[op] \in Int /\ wall \in Int /\ Horizon \in Int
  BY <1>1, HorizonAssumption, IssuanceAssumption DEF Issued, IInv, TypeOK
<1>3. physicalMs(stamp[op]) \in Int
  BY <1>2, PhysicalType
<1>4. ~ (physicalMs(stamp[op]) >= wall - Horizon)
  BY DEF Kept
<1> QED
  BY <1>2, <1>3, <1>4 DEF OldAt

LEMMA SerialPrune ==
    ASSUME IInv, SInv, Serial, NEW p \in Proc,
           \/ StartPrune(p) \/ PruneOutbox(p) \/ SavePrunedOutbox(p)
           \/ PruneSent(p) \/ SavePrunedSent(p)
    PROVE  SInv'
<1>0. /\ job[p] \in Job /\ Covers(at[p], job[p], disk, prunedAt)
      /\ NoFiles => Aims(at[p], job[p], disk)
  BY SerialFacts
<1>1. /\ prunedAt <= wall /\ queued \subseteq Issued /\ held \subseteq disk.state
      /\ \A op \in queued \ taken : op \in disk.outbox \/ OldAt(op, prunedAt)
      /\ prunedAt <= prunedAt
  BY SerialNow
<1>2. ASSUME NoFiles, crashes = 0, at[p] \notin {"log", "saveLog"}, NEW op \in queued
      PROVE  op \in disk.outbox \cup disk.sent \/ OldAt(op, prunedAt)
  BY <1>2 DEF SInv, InReach
<1>3. {"idle", "pruneOutbox", "pruneSent"} \subseteq Step \ {"log", "saveLog"}
  BY DEF Step
<1>4. ASSUME StartPrune(p)
      PROVE  SInv'
  <2> DEFINE j == [NoJob EXCEPT !.kind = "prune", !.box = disk.state]
  <2>1. Prunes(p, "idle", "saveState", j)
    BY <1>4, Zenon DEF StartPrune
  <2>2. j.kind = "prune" /\ j.op = 0 /\ j.box = disk.state
    BY DEF NoJob
  <2> HIDE DEF j
  <2>3. Covers("saveState", j, disk, wall) /\ Aims("saveState", j, disk)
    BY <2>2 DEF Covers, Aims, Sending
  <2> QED
    BY <1>3, <2>1, <2>3, SerialPrunes
<1>5. ASSUME PruneOutbox(p)
      PROVE  SInv'
  <2> DEFINE kept == Kept(disk.outbox)
             j == [job[p] EXCEPT !.box = kept]
  <2>1. \/ Prunes(p, "pruneOutbox", "savePrunedOutbox", j)
        \/ Prunes(p, "pruneOutbox", "pruneSent", job[p])
    BY <1>5, Zenon DEF PruneOutbox
  <2>2. j.box = kept /\ j.kind = job[p].kind /\ j.op = job[p].op
    BY <1>0 DEF Job
  <2>3. \A op \in disk.outbox \ kept : OldAt(op, wall)
    BY SerialNow, NotKeptIsOld
  <2> HIDE DEF j, kept
  <2>4. /\ Covers("savePrunedOutbox", j, disk, wall)
        /\ Covers("pruneSent", job[p], disk, wall)
    BY <2>2, <2>3 DEF Covers
  <2>5. NoFiles => /\ Aims("savePrunedOutbox", j, disk)
                   /\ Aims("pruneSent", job[p], disk)
    BY <1>0, <2>2 DEF Aims, Sending
  <2> QED
    BY <1>3, <2>1, <2>4, <2>5, SerialPrunes
<1>6. ASSUME SavePrunedOutbox(p)
      PROVE  SInv'
  <2>1. /\ Go(p, "savePrunedOutbox", "pruneSent", job[p])
        /\ disk' = [disk EXCEPT !.outbox = job[p].box] /\ at[p] = "savePrunedOutbox"
        /\ UNCHANGED <<stamp, queued, held, taken, prunedAt, crashes>>
    BY <1>6, Zenon DEF SavePrunedOutbox, Go, history
  <2>2. \A op \in disk.outbox \ job[p].box : OldAt(op, prunedAt)
    BY <1>0, <2>1 DEF Covers
  <2>3. /\ disk'.outbox = job[p].box /\ disk'.sent = disk.sent
        /\ disk'.state = disk.state
    BY <2>1, SerialNow DEF Disk
  <2>4. /\ Covers("pruneSent", job[p], disk', prunedAt')
        /\ NoFiles => Aims("pruneSent", job[p], disk')
    BY <1>0, <2>1 DEF Covers, Aims, Sending
  <2>5. NoFiles /\ crashes' = 0 =>
           \A op \in queued' : InReach(op, "pruneSent", job[p], disk', prunedAt')
    BY <1>2, <2>1, <2>2, <2>3 DEF InReach
  <2>6. \A op \in queued' \ taken' : op \in disk'.outbox \/ OldAt(op, prunedAt')
    BY <1>1, <2>1, <2>2, <2>3
  <2> QED
    BY <1>1, <2>1, <2>3, <2>4, <2>5, <2>6, SerialWrite
<1>7. ASSUME PruneSent(p)
      PROVE  SInv'
  <2> DEFINE kept == Kept(disk.sent)
             j == [job[p] EXCEPT !.box = kept]
  <2>1. \/ Prunes(p, "pruneSent", "savePrunedSent", j)
        \/ Prunes(p, "pruneSent", "idle", NoJob)
    BY <1>7, Zenon DEF PruneSent
  <2>2. j.box = kept /\ j.kind = job[p].kind /\ j.op = job[p].op
    BY <1>0 DEF Job
  <2>3. \A op \in disk.sent \ kept : OldAt(op, wall)
    BY SerialNow, NotKeptIsOld
  <2> HIDE DEF j, kept
  <2>4. /\ Covers("savePrunedSent", j, disk, wall)
        /\ NoFiles => Aims("savePrunedSent", j, disk)
    BY <1>0, <2>2, <2>3 DEF Covers, Aims, Sending
  <2> QED
    BY <1>3, <2>1, <2>4, SerialPrunes
<1>8. ASSUME SavePrunedSent(p)
      PROVE  SInv'
  <2>1. /\ Go(p, "savePrunedSent", "idle", NoJob)
        /\ disk' = [disk EXCEPT !.sent = job[p].box] /\ at[p] = "savePrunedSent"
        /\ UNCHANGED <<stamp, queued, held, taken, prunedAt, crashes>>
    BY <1>8, Zenon DEF SavePrunedSent, Go, history
  <2>2. \A op \in disk.sent \ job[p].box : OldAt(op, prunedAt)
    BY <1>0, <2>1 DEF Covers
  <2>3. /\ disk'.outbox = disk.outbox /\ disk'.sent = job[p].box
        /\ disk'.state = disk.state
    BY <2>1, SerialNow DEF Disk
  <2>4. NoFiles /\ crashes' = 0 =>
           \A op \in queued' : InReach(op, "idle", NoJob, disk', prunedAt')
    BY <1>2, <2>1, <2>2, <2>3 DEF InReach
  <2>5. \A op \in queued' \ taken' : op \in disk'.outbox \/ OldAt(op, prunedAt')
    BY <1>1, <2>1, <2>3
  <2> QED
    BY <1>1, <2>1, <2>3, <2>4, <2>5, SerialWrite
<1> QED
  BY <1>4, <1>5, <1>6, <1>7, <1>8

------------------------------------------------------------------------------
LEMMA SerialCrash ==
    ASSUME IInv, SInv, Serial, NEW p \in Proc, Crash(p) \/ CrashWriting(p)
    PROVE  SInv'
<1>1. /\ Go(p, at[p], "idle", NoJob) /\ crashes' = crashes + 1
      /\ UNCHANGED <<disk, stamp, queued, held, taken, prunedAt>>
  BY DEF Serial, Crash, CrashWriting, Stopped, history
<1>2. crashes' # 0
  BY <1>1 DEF IInv, TypeOK
<1> QED
  BY <1>1, <1>2, SerialRead

(* Without a step of the command: the wall clock is not before the pruning. *)
LEMMA SerialRest ==
    ASSUME IInv, SInv, (\E now \in Time : SetWall(now)) \/ UNCHANGED vars
    PROVE  SInv'
<1>1. /\ UNCHANGED <<disk, at, job, stamp, queued, held, taken, prunedAt, crashes>>
      /\ wall' = wall \/ wall' >= prunedAt
  BY DEF SetWall, vars, history
<1>2. prunedAt' <= wall'
  <2>1. prunedAt \in Int /\ (wall' \in Int \/ wall' = wall) /\ prunedAt <= wall
    BY IssuanceAssumption DEF SInv, IInv, TypeOK, SetWall, vars
  <2> QED
    BY <1>1, <2>1
<1>3. /\ UnsentStaysQueued' /\ AppliedStays' /\ (queued \subseteq Issued)'
      /\ (queued # {} => Proc # {})'
  BY <1>1 DEF SInv, UnsentStaysQueued, OutOfHorizon, AppliedStays, Issued
<1>4. (\A p \in Proc : Covers(at[p], job[p], disk, prunedAt))'
  BY <1>1 DEF SInv, Covers, OldAt
<1>5. (NoFiles => \A p \in Proc :
         /\ Aims(at[p], job[p], disk)
         /\ crashes = 0 => \A op \in queued : InReach(op, at[p], job[p], disk, prunedAt))'
  BY <1>1 DEF SInv, NoFiles, Aims, NoLink, InReach, OldAt
<1> QED
  BY <1>2, <1>3, <1>4, <1>5 DEF SInv

LEMMA SerialStep ==
    ASSUME Serial, IInv, SInv, [Next]_vars
    PROVE  SInv'
<1>1. ASSUME NEW p \in Proc, Start(p)
      PROVE  SInv'
  BY <1>1, SerialStart, SerialPrune DEF Start
<1>2. ASSUME NEW p \in Proc, Continue(p)
      PROVE  SInv'
  BY <1>2, SerialStamp, SerialIssue, SerialSend, SerialRecord, SerialSync, SerialPrune
     DEF Continue
<1>3. ASSUME NEW p \in Proc, Crash(p) \/ CrashWriting(p)
      PROVE  SInv'
  BY <1>3, SerialCrash
<1>4. ASSUME NEW p \in Proc, NEW op \in Foreign \cup 1 .. Len(stamp), Fetch(p, op)
      PROVE  SInv'
  BY <1>4, SerialSync
<1> QED
  BY <1>1, <1>2, <1>3, <1>4, SerialRest DEF Next

LEMMA SerialInductive == Serial /\ Spec => [](IInv /\ SInv)
<1>1. SUFFICES ASSUME Serial
               PROVE  Spec => [](IInv /\ SInv)
  OBVIOUS
<1>2. OneIssuer
  BY <1>1 DEF Serial, OneIssuer
<1>3. IInv /\ SInv /\ [Next]_vars => (IInv /\ SInv)'
  BY <1>1, <1>2, StepHolds, SerialStep
<1>4. Init => IInv /\ SInv
  BY InitHolds, InitSerial
<1> QED
  BY <1>3, <1>4, PTL DEF Spec

------------------------------------------------------------------------------
(* A queued operation no transport accepted stays queued until it is too     *)
(* old, whatever fails or is killed (dacar.js _issue, recordPublish,         *)
(* pruneOutbox).                                                             *)
THEOREM UnsentIsKept == Serial /\ Spec => []UnsentStaysQueued
<1>1. IInv /\ SInv => UnsentStaysQueued
  BY DEF SInv
<1> QED
  BY <1>1, SerialInductive, PTL

(* What was saved in the state is never lost from it (dacar.js cmdSync,      *)
(* _issue).                                                                  *)
THEOREM AppliedIsKept == Serial /\ Spec => []AppliedStays
<1>1. IInv /\ SInv => AppliedStays
  BY DEF SInv
<1> QED
  BY <1>1, SerialInductive, PTL

(* Unless a command was killed, every operation ever queued can be sent      *)
(* again when none runs (dacar.js recordPublish).                            *)
THEOREM PublishedIsLogged ==
    Serial /\ NoFiles /\ Spec => []ResendableUnlessStopped
<1>1. SUFFICES ASSUME NoFiles
               PROVE  Serial /\ Spec => []ResendableUnlessStopped
  OBVIOUS
<1>2. IInv /\ SInv => ResendableUnlessStopped
  <2> SUFFICES ASSUME SInv, crashes = 0, \A p \in Proc : at[p] = "idle",
                      NEW op \in queued
               PROVE  op \in disk.outbox \cup disk.sent \/ OutOfHorizon(op)
    BY DEF ResendableUnlessStopped, Resendable
  <2>1. ASSUME NEW p \in Proc
        PROVE  InReach(op, at[p], job[p], disk, prunedAt)
    BY <1>1, <2>1 DEF SInv
  <2>2. PICK p \in Proc : at[p] = "idle"
    BY DEF SInv
  <2> QED
    BY <2>1, <2>2 DEF InReach, OldAt, OutOfHorizon
<1> QED
  BY <1>2, SerialInductive, PTL

(* "published and logged" is only said of what is in the sent box and no     *)
(* longer in the outbox (dacar.js _issue).                                   *)
THEOREM ReportsAreTrue == Serial /\ NoFiles /\ Spec => []ReportIsTrue
<1>1. SUFFICES ASSUME NoFiles
               PROVE  Serial /\ Spec => []ReportIsTrue
  OBVIOUS
<1>2. IInv /\ SInv => ReportIsTrue
  BY <1>1 DEF SInv, Aims, ReportIsTrue
<1> QED
  BY <1>2, SerialInductive, PTL
==============================================================================
