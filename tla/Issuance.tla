------------------------------- MODULE Issuance -------------------------------
(***************************************************************************)
(* The durable records of one node and the commands that rewrite them:     *)
(* `dacar grant` / `revoke` (issue, with their --no-apply, --publish and   *)
(* --lxmf forms), `publish` and `push` of the outbox, the sent box or a    *)
(* file, `sync` and `prune`.  A command loads a whole record, changes it   *)
(* in memory and stores it back, with awaits in between: it may stop       *)
(* between any two steps, and another command may run there.  Nothing      *)
(* locks the store.  The ledger, the aliases and the keyring are left out: *)
(* no other record depends on them.                                        *)
(***************************************************************************)
EXTENDS StateVector, Sequences, FiniteSets

CONSTANTS Proc,         \* the commands that may run side by side
          MayRun,       \* MayRun[p]: the kinds of command p runs
          Foreign,      \* operations of other issuers, fetched by sync
          Time,         \* the readings of the wall clock
          MaxIssued,    \* bound: operations issued
          MaxCrashes,   \* bound: commands stopped half-way
          TornWrites    \* whether a record can be cut short by a crash

ASSUME IssuanceAssumption ==
    /\ Time \subseteq Nat /\ 0 \in Time
    /\ MaxIssued \in Nat /\ MaxCrashes \in Nat /\ TornWrites \in BOOLEAN

Own   == 1 .. MaxIssued         \* an operation of this node: its issue number
Delta == Own \cup Foreign

VARIABLES wall,         \* what Date.now() returns
          disk,         \* the records of the store
          at,           \* at[p]: the step command p is about to take
          job,          \* job[p]: the local variables of command p
          stamp,        \* history: the timestamps of the operations issued
          queued,       \* history: the operations ever stored in the outbox
          held,         \* history: the operations ever stored in the state
          taken,        \* history: the operations a transport accepted
          prunedAt,     \* history: the wall clock of the last pruning
          crashes       \* history: how often a command was stopped

history == <<stamp, queued, held, taken, prunedAt>>
vars == <<wall, disk, at, job, history, crashes>>

Kind   == {"issue", "stage", "publish", "file", "sync", "prune"}
Leg    == {"rfed", "lxmf", "link"}
Step   == {"idle", "stamp", "apply", "saveState", "queue", "saveQueue", "sent",
           "send", "drain", "saveDrain", "log", "saveLog", "report", "fetch",
           "pruneOutbox", "savePrunedOutbox", "pruneSent", "savePrunedSent"}

Disk == [clock: Clock, state: SUBSET Delta, outbox: SUBSET Own, sent: SUBSET Own,
         broken: SUBSET {"clock", "state"}]     \* what no command can load
Job  == [kind: Kind, clock: Clock, op: 0 .. MaxIssued, legs: Seq(Leg),
         box: SUBSET Delta,             \* the record being rewritten
         batch: SUBSET Own,             \* what is to be sent
         accepted: SUBSET Own]          \* what the last transport accepted

NoJob == [kind |-> "sync", clock |-> NewClock, op |-> 0, legs |-> <<>>,
          box |-> {}, batch |-> {}, accepted |-> {}]

TypeOK ==
    /\ wall \in Time /\ prunedAt \in Time /\ crashes \in 0 .. MaxCrashes
    /\ disk \in Disk
    /\ at \in [Proc -> Step]
    /\ job \in [Proc -> Job]
    /\ stamp \in Seq(Nat) /\ Len(stamp) <= MaxIssued
    /\ queued \subseteq Own /\ taken \subseteq Own /\ held \subseteq Delta

Init ==
    /\ wall = 0 /\ prunedAt = 0 /\ crashes = 0
    /\ disk = [clock |-> NewClock, state |-> {}, outbox |-> {}, sent |-> {}, broken |-> {}]
    /\ at = [p \in Proc |-> "idle"]
    /\ job = [p \in Proc |-> NoJob]
    /\ stamp = <<>>
    /\ queued = {} /\ held = {} /\ taken = {}

------------------------------------------------------------------------------
(* Command p goes from one step to another, with new local variables. *)
Go(p, from, to, j) ==
    /\ at[p] = from
    /\ at' = [at EXCEPT ![p] = to]
    /\ job' = [job EXCEPT ![p] = IF to = "idle" THEN NoJob ELSE j]
    /\ UNCHANGED wall

(* The command reads a record, or decides: nothing durable changes. *)
Read(p, from, to, j) == Go(p, from, to, j) /\ UNCHANGED <<disk, history, crashes>>

(* The legs of a command are done, or the next one sends the same batch. *)
AfterLeg(j) ==
    IF Len(j.legs) > 1 THEN "send"
    ELSE IF j.op # 0 THEN "report" ELSE "idle"

NextLeg(j) == [j EXCEPT !.legs = Tail(@)]

(* `grant` / `revoke`: load the clock and advance it. *)
StartIssue(p, kind, legs) ==
    LET c == Advance(disk.clock, wall)
    IN  /\ kind \in {"issue", "stage"} \cap MayRun[p]
        /\ Len(stamp) + Cardinality({q \in Proc : at[q] = "stamp"}) < MaxIssued
        /\ ~ Exhausted(c) /\ "clock" \notin disk.broken
        /\ Read(p, "idle", "stamp",
                [NoJob EXCEPT !.kind = kind, !.clock = c, !.legs = legs])

(* Wrong: signs without having saved the clock. *)
StampUnsaved(p) ==
    LET op == Len(stamp) + 1
    IN  /\ Go(p, "stamp", IF job[p].kind = "stage" THEN "queue" ELSE "apply",
              [job[p] EXCEPT !.op = op, !.batch = {op}])
        /\ stamp' = Append(stamp, HlcOf(job[p].clock))
        /\ UNCHANGED <<disk, queued, held, taken, prunedAt, crashes>>

(* Save the clock, then sign. *)
Stamp(p) ==
    LET op == Len(stamp) + 1
    IN  /\ Go(p, "stamp", IF job[p].kind = "stage" THEN "queue" ELSE "apply",
              [job[p] EXCEPT !.op = op, !.batch = {op}])
        /\ disk' = [disk EXCEPT !.clock = job[p].clock, !.broken = @ \ {"clock"}]
        /\ stamp' = Append(stamp, HlcOf(job[p].clock))
        /\ UNCHANGED <<queued, held, taken, prunedAt, crashes>>

(* Load the state and apply the operation to it; a rejected one fails the   *)
(* command.                                                                 *)
ApplyLocally(p) ==
    /\ at[p] = "apply"
    /\ IF Intake(stamp[job[p].op], wall) /\ "state" \notin disk.broken
       THEN Read(p, "apply", "saveState",
                 [job[p] EXCEPT !.box = disk.state \cup {job[p].op}])
       ELSE Read(p, "apply", "idle", NoJob)

SaveState(p) ==
    /\ Go(p, "saveState",
          CASE job[p].kind = "issue" -> "queue"
            [] job[p].kind = "prune" -> "pruneOutbox"
            [] job[p].kind = "sync"  -> "idle",
          job[p])
    /\ disk' = [disk EXCEPT !.state = job[p].box, !.broken = @ \ {"state"}]
    /\ held' = held \cup job[p].box
    /\ UNCHANGED <<stamp, queued, taken, prunedAt, crashes>>

(* Wrong: adds to the record loaded before instead of the outbox. *)
QueueOnState(p) ==
    Read(p, "queue", "saveQueue",
         [job[p] EXCEPT !.box = disk.state \cup {job[p].op}])

(* Every form of the command queues the operation, before any send. *)
Queue(p) ==
    Read(p, "queue", "saveQueue",
         [job[p] EXCEPT !.box = disk.outbox \cup {job[p].op}])

SaveQueue(p) ==
    /\ Go(p, "saveQueue", IF job[p].legs = <<>> THEN "idle" ELSE "send", job[p])
    /\ disk' = [disk EXCEPT !.outbox = job[p].box]
    /\ queued' = queued \cup job[p].box
    /\ UNCHANGED <<stamp, held, taken, prunedAt, crashes>>

------------------------------------------------------------------------------
(* `publish` / `push`: the outbox is loaded first, the sent box is added     *)
(* by --all, and --sent sends that alone.                                    *)
StartPublish(p, leg, source) ==
    /\ "publish" \in MayRun[p]
    /\ Read(p, "idle", IF source = "outbox" THEN "send" ELSE "sent",
            [NoJob EXCEPT !.kind = "publish", !.legs = <<leg>>,
                          !.batch = IF source = "sent" THEN {} ELSE disk.outbox])
    /\ source = "outbox" => disk.outbox # {}

AddSent(p) ==
    LET batch == job[p].batch \cup disk.sent
    IN  Read(p, "sent", IF batch = {} THEN "idle" ELSE "send",
             [job[p] EXCEPT !.batch = batch])

(* `publish <file>`: the file may be one --out wrote for an own operation. *)
StartFile(p, leg, op) ==
    /\ "file" \in MayRun[p]
    /\ Read(p, "idle", "send",
            [NoJob EXCEPT !.kind = "file", !.legs = <<leg>>, !.batch = {op}])

(* What the transport may say it accepted: only a direct link answers for    *)
(* each operation; rfed and LXMF accept all of them or throw.               *)
MayAccept(j, accepted) == Head(j.legs) # "link" => accepted = j.batch

(* What may have left before the transport throws: some of the batch, but a *)
(* link throws only before it sends.                                        *)
MayHaveSent(j, some) == Head(j.legs) = "link" => some = {}

(* The transport takes the batch. *)
Send(p) ==
    \E accepted \in SUBSET job[p].batch :
       LET j == [job[p] EXCEPT !.accepted = accepted]
       IN  /\ at[p] = "send"
           /\ MayAccept(j, accepted)
           /\ IF accepted = {}
              THEN Go(p, "send", AfterLeg(j), NextLeg(j))
              ELSE Go(p, "send", "drain", j)
           /\ taken' = taken \cup accepted
           /\ UNCHANGED <<disk, stamp, queued, held, prunedAt, crashes>>

(* The transport throws: no path, no proprietor, or a packet that cannot be *)
(* sent.  The command fails.                                                *)
SendThrows(p) ==
    \E some \in SUBSET job[p].batch :
       /\ Go(p, "send", "idle", NoJob)
       /\ MayHaveSent(job[p], some)
       /\ taken' = taken \cup some
       /\ UNCHANGED <<disk, stamp, queued, held, prunedAt, crashes>>

(* Wrong: `grant --publish` does not log what it sent. *)
LogsOnlyPublish(j) == j.kind = "publish"

(* recordPublish: what was accepted leaves the outbox ... *)
Logs(j) == j.kind # "file"

AfterDrain(j) == IF Logs(j) THEN "log" ELSE AfterLeg(j)
DrainedJob(j) == IF Logs(j) THEN j ELSE NextLeg(j)

(* Wrong: what was tried leaves the outbox, not what was accepted. *)
DrainTried(p) ==
    LET left == disk.outbox \ job[p].batch
    IN  IF left # disk.outbox
        THEN Read(p, "drain", "saveDrain", [job[p] EXCEPT !.box = left])
        ELSE Read(p, "drain", AfterDrain(job[p]), DrainedJob(job[p]))

(* Wrong: compares payloads by identity, so nothing is ever filtered out. *)
DrainNothing(p) == Read(p, "drain", AfterDrain(job[p]), DrainedJob(job[p]))

Drain(p) ==
    LET left == disk.outbox \ job[p].accepted
    IN  IF left # disk.outbox
        THEN Read(p, "drain", "saveDrain", [job[p] EXCEPT !.box = left])
        ELSE Read(p, "drain", AfterDrain(job[p]), DrainedJob(job[p]))

SaveDrain(p) ==
    /\ Go(p, "saveDrain", AfterDrain(job[p]), DrainedJob(job[p]))
    /\ disk' = [disk EXCEPT !.outbox = job[p].box]
    /\ UNCHANGED <<history, crashes>>

(* Wrong: logs what was tried. *)
LogTried(p) ==
    LET all == disk.sent \cup job[p].batch
    IN  IF all # disk.sent
        THEN Read(p, "log", "saveLog", [job[p] EXCEPT !.box = all])
        ELSE Read(p, "log", AfterLeg(job[p]), NextLeg(job[p]))

(* ... and enters the sent box, unless it came from a file. *)
Log(p) ==
    LET all == disk.sent \cup job[p].accepted
    IN  IF all # disk.sent
        THEN Read(p, "log", "saveLog", [job[p] EXCEPT !.box = all])
        ELSE Read(p, "log", AfterLeg(job[p]), NextLeg(job[p]))

SaveLog(p) ==
    /\ Go(p, "saveLog", AfterLeg(job[p]), NextLeg(job[p]))
    /\ disk' = [disk EXCEPT !.sent = job[p].box]
    /\ UNCHANGED <<history, crashes>>

(* `grant --publish` ends by saying whether the operation was logged. *)
Report(p) == Read(p, "report", "idle", NoJob)

------------------------------------------------------------------------------
(* Wrong: saves what was fetched, not the state with it. *)
StartSyncEmpty(p) ==
    /\ "sync" \in MayRun[p]
    /\ Read(p, "idle", "fetch", NoJob)

(* `sync`: the state is loaded before the network is asked, operations are  *)
(* applied in memory as they come, and the state is saved at the end.       *)
StartSync(p) ==
    /\ "sync" \in MayRun[p] /\ "state" \notin disk.broken
    /\ Read(p, "idle", "fetch", [NoJob EXCEPT !.box = disk.state])

Fetch(p, op) ==
    /\ op \notin Foreign => Intake(stamp[op], wall)
    /\ Read(p, "fetch", "fetch", [job[p] EXCEPT !.box = @ \cup {op}])

EndFetch(p) == Read(p, "fetch", "saveState", job[p])

FetchThrows(p) == Read(p, "fetch", "idle", NoJob)

(* `prune`: the state, then the outbox, then the sent box.  Pruning the      *)
(* state changes no decision (see Replication).                              *)
Prunes(p, from, to, j) ==
    /\ Go(p, from, to, j)
    /\ prunedAt' = wall
    /\ UNCHANGED <<disk, stamp, queued, held, taken, crashes>>

Kept(box) == {op \in box : physicalMs(stamp[op]) >= wall - Horizon}

StartPrune(p) ==
    /\ "prune" \in MayRun[p] /\ "state" \notin disk.broken
    /\ Prunes(p, "idle", "saveState",
              [NoJob EXCEPT !.kind = "prune", !.box = disk.state])

PruneOutbox(p) ==
    LET kept == Kept(disk.outbox)
    IN  IF kept # disk.outbox
        THEN Prunes(p, "pruneOutbox", "savePrunedOutbox",
                    [job[p] EXCEPT !.box = kept])
        ELSE Prunes(p, "pruneOutbox", "pruneSent", job[p])

SavePrunedOutbox(p) ==
    /\ Go(p, "savePrunedOutbox", "pruneSent", job[p])
    /\ disk' = [disk EXCEPT !.outbox = job[p].box]
    /\ UNCHANGED <<history, crashes>>

PruneSent(p) ==
    LET kept == Kept(disk.sent)
    IN  IF kept # disk.sent
        THEN Prunes(p, "pruneSent", "savePrunedSent",
                    [job[p] EXCEPT !.box = kept])
        ELSE Prunes(p, "pruneSent", "idle", NoJob)

SavePrunedSent(p) ==
    /\ Go(p, "savePrunedSent", "idle", NoJob)
    /\ disk' = [disk EXCEPT !.sent = job[p].box]
    /\ UNCHANGED <<history, crashes>>

------------------------------------------------------------------------------
(* The process is killed, or a step throws: a full disk, a broken pipe, an  *)
(* unwritable --out file.                                                   *)
Stopped(p) ==
    /\ crashes < MaxCrashes /\ crashes' = crashes + 1
    /\ Go(p, at[p], "idle", NoJob)
    /\ UNCHANGED history

Crash(p) == at[p] # "idle" /\ Stopped(p) /\ UNCHANGED disk

(* Records are rewritten in place.  A box cut short does not decode, and    *)
(* loads as empty; so does a state of no bytes.  A clock, or a state of      *)
(* some bytes, that does not decode fails every command that loads it.      *)
CrashWriting(p) ==
    /\ TornWrites
    /\ Stopped(p)
    /\ \/ /\ at[p] \in {"saveQueue", "saveDrain", "savePrunedOutbox"}
          /\ disk' = [disk EXCEPT !.outbox = {}]
       \/ /\ at[p] \in {"saveLog", "savePrunedSent"}
          /\ disk' = [disk EXCEPT !.sent = {}]
       \/ /\ at[p] = "saveState"
          /\ \/ disk' = [disk EXCEPT !.state = {}, !.broken = @ \ {"state"}]
             \/ disk' = [disk EXCEPT !.broken = @ \cup {"state"}]
       \/ /\ at[p] = "stamp"
          /\ disk' = [disk EXCEPT !.broken = @ \cup {"clock"}]

(* As in Replication: no clock is set back to before the last pruning. *)
SetWall(now) ==
    /\ now >= prunedAt
    /\ wall' = now
    /\ UNCHANGED <<disk, at, job, history, crashes>>

IssueLegs == {<<>>, <<"rfed">>, <<"lxmf">>, <<"lxmf", "rfed">>}
Source    == {"outbox", "sent", "all"}

Start(p) ==
    \/ \E kind \in {"issue", "stage"}, legs \in IssueLegs :
          StartIssue(p, kind, legs)
    \/ \E leg \in Leg, source \in Source : StartPublish(p, leg, source)
    \/ \E leg \in Leg, op \in 1 .. Len(stamp) : StartFile(p, leg, op)
    \/ StartSync(p)
    \/ StartPrune(p)

Continue(p) ==
    \/ Stamp(p) \/ ApplyLocally(p) \/ SaveState(p)
    \/ Queue(p) \/ SaveQueue(p)
    \/ AddSent(p) \/ Send(p) \/ SendThrows(p)
    \/ Drain(p) \/ SaveDrain(p) \/ Log(p) \/ SaveLog(p) \/ Report(p)
    \/ EndFetch(p) \/ FetchThrows(p)
    \/ PruneOutbox(p) \/ SavePrunedOutbox(p) \/ PruneSent(p) \/ SavePrunedSent(p)

Next ==
    \/ \E p \in Proc :
          \/ Start(p) \/ Continue(p) \/ Crash(p) \/ CrashWriting(p)
          \/ \E op \in Foreign \cup 1 .. Len(stamp) : Fetch(p, op)
    \/ \E now \in Time : SetWall(now)

Spec == Init /\ [][Next]_vars

(* A transport that answers takes the whole outbox. *)
Delivers(p) ==
    /\ disk.outbox # {} /\ disk.outbox \subseteq job[p].batch
    /\ Send(p) /\ job'[p].accepted = job[p].batch

(* A command that runs goes on; the owner of the node keeps retrying        *)
(* `publish --outbox`, and the network is not down for ever.                *)
RetrySpec ==
    /\ Spec
    /\ \A p \in Proc :
          /\ WF_vars(Continue(p))
          /\ SF_vars(\E leg \in Leg : StartPublish(p, leg, "outbox"))
          /\ SF_vars(Delivers(p))

------------------------------------------------------------------------------
(* Operations of this node carry ever larger timestamps: a stamp is never    *)
(* used twice, although a command may be killed at any point after its clock *)
(* was loaded ("Monotonic HLC, persisted across invocations",                *)
(* javascript/src/cli/dacar.js _issue).                                      *)
StampsIncrease ==
    \A i, j \in 1 .. Len(stamp) : i < j => stamp[i] < stamp[j]

OutOfHorizon(op) == physicalMs(stamp[op]) < prunedAt - Horizon

(* Once stored in the outbox, an operation no transport has accepted stays   *)
(* there until it is too old to be taken by anyone: it survives crashes,     *)
(* failed sends and the rewriting of the outbox for other operations (_issue,*)
(* recordPublish, pruneOutbox).                                              *)
UnsentStaysQueued ==
    \A op \in queued \ taken : op \in disk.outbox \/ OutOfHorizon(op)

(* The sent box holds only what a transport accepted: a failed send is never *)
(* taken for a publication (recordPublish).                                  *)
SentWasTaken == disk.sent \subseteq taken

(* Between commands, every operation ever queued can still be sent again:    *)
(* it is in the outbox or in the sent box, unless it is too old ("every      *)
(* issued Delta lands in the durable log and can be re-sent to new peers",   *)
(* javascript/src/cli/dacar.js:686).                                         *)
Resendable ==
    (\A p \in Proc : at[p] = "idle") =>
       \A op \in queued :
          op \in disk.outbox \cup disk.sent \/ OutOfHorizon(op)

(* The same while every command runs to its end, sends failing or not: all   *)
(* that is between a published operation and its loss is a command stopped   *)
(* in recordPublish.                                                         *)
ResendableUnlessStopped == crashes = 0 => Resendable

(* What a command saved in the state stays there: no later command writes    *)
(* back a state loaded before (cmdSync and _issue, loadState .. saveState).  *)
AppliedStays == held \subseteq disk.state

(* An operation in the state is covered by the saved clock, so whatever is   *)
(* issued next overrides it (_issue saves the clock before the state).       *)
ClockCoversState ==
    \A op \in (disk.state \cup disk.outbox) \ Foreign :
       stamp[op] <= HlcOf(disk.clock)

(* With retries, an operation does not wait in the outbox for ever: a failed *)
(* send or a crash never leaves it where no later publish finds it           *)
(* (cmdPublish, recordPublish).                                              *)
OutboxDrains ==
    \A op \in Own : op \in disk.outbox ~> op \notin disk.outbox

(* "(published + logged to sent box)" is only said of an operation that is   *)
(* there and no longer waits to be sent (_issue, recordPublish).             *)
ReportIsTrue ==
    \A p \in Proc : at[p] = "report" =>
       job[p].op \in disk.sent \ disk.outbox \/ OutOfHorizon(job[p].op)
==============================================================================
