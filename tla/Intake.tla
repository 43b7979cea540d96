-------------------------------- MODULE Intake --------------------------------
(***************************************************************************)
(* How operations of other issuers reach a node's state: `dacar sync`, its *)
(* rfed leg (pages of a queue the rfed node keeps and drains) and its LXMF *)
(* leg (messages of one or several operations, handled concurrently), and   *)
(* `dacar apply`.  An operation is taken only when the key of its issuer is *)
(* known: from the identities the network stack recalls, or from the node's *)
(* keyring, which announces, `identity remember` and `identity forget`       *)
(* change; and only when the node's wall clock, which may be set at any      *)
(* time, finds it neither too old nor too far ahead.  A sync works in memory *)
(* and saves at its end; a request may fail, and the process may be killed, *)
(* at any step.  The other commands run between syncs: overlapping commands *)
(* are the subject of Issuance.  What does not decode is no operation here. *)
(***************************************************************************)
EXTENDS Naturals, Sequences, FiniteSets

CONSTANTS Issuer,       \* the other nodes that issue operations
          Time,         \* the readings of the wall clock
          Op,           \* their operations: a grant, or its revocation
          Message,      \* the LXMF messages that may be sent: sequences of Op
          Horizon,      \* the deletion horizon
          MaxFuture,    \* how far ahead of the wall clock an operation may be
          PageSize,     \* entries in a page of the rfed node's queue
          MaxSent,      \* bound: publications and messages
          MaxFails      \* bound: syncs that fail half-way

ASSUME IntakeAssumption ==
    /\ Time \subseteq Nat /\ Time # {}
    /\ Horizon \in Nat /\ MaxFuture \in Nat
    /\ Op \subseteq [issuer: Issuer, grant: BOOLEAN, ms: Nat]
    /\ Message \subseteq Seq(Op) \ {<<>>}
    /\ PageSize \in Nat \ {0} /\ MaxSent \in Nat /\ MaxFails \in Nat

VARIABLES wall,         \* what Date.now() returns at this node
          recall,       \* the issuers whose identity the network stack recalls
          queue,        \* what the rfed node keeps for this node
          mail,         \* what the LXMF proprietor keeps for this node
          disk,         \* the records of the store
          at,           \* the step the sync is about to take
          mem,          \* the state and the keyring the sync works on
          page,         \* the rest of the page it is at
          more,         \* whether the node said that there is another page
          handlers,     \* the rest of each LXMF message being handled
          writes,       \* keyrings being written by the announce handler
          sent,         \* history: how much was published or sent
          taken,        \* history: operations taken from the queue or the mail
          dropped,      \* history: the operations that were refused
          fails         \* history: how often a sync failed

outside == <<wall, recall, queue, mail, sent>>
process == <<at, mem, page, more, handlers, writes>>
history == <<taken, dropped, fails>>
vars == <<outside, disk, process, history>>

(* An entry of the rfed channel bears the identity of who published it. *)
Entry == [op: Op, sender: Issuer]
Step  == {"idle", "load", "pull", "page", "mail", "saveState", "saveKeyring", "exit"}
Refusal == [op: Op, sender: SUBSET Issuer, fresh: BOOLEAN]
Records == [state: SUBSET Op, keyring: SUBSET Issuer]
Nothing == [state |-> {}, keyring |-> {}]

TypeOK ==
    /\ wall \in Time
    /\ recall \subseteq Issuer
    /\ queue \in Seq(Entry) /\ page \in Seq(Entry) /\ more \in BOOLEAN
    /\ mail \subseteq Message
    /\ disk \in Records /\ mem \in Records
    /\ at \in Step
    /\ \A h \in handlers : h \in Seq(Op) /\ h # <<>>
    /\ writes \subseteq SUBSET Issuer
    /\ sent \in 0 .. MaxSent /\ fails \in 0 .. MaxFails
    /\ taken \subseteq Op /\ dropped \subseteq Refusal

Init ==
    /\ wall \in Time
    /\ recall = {} /\ queue = <<>> /\ mail = {} /\ sent = 0
    /\ disk = Nothing /\ mem = Nothing
    /\ at = "idle" /\ page = <<>> /\ more = FALSE /\ handlers = {} /\ writes = {}
    /\ taken = {} /\ dropped = {} /\ fails = 0

(* Issuer i has a grant in force, newer than whatever revokes it. *)
ActiveOf(state, i) == \E g \in state :
    /\ g.issuer = i /\ g.grant
    /\ \A r \in state : r.issuer = i /\ ~ r.grant => r.ms < g.ms

Ops(s) == {s[k] : k \in DOMAIN s}

------------------------------------------------------------------------------
(* The wall clock goes on, or is set. *)
SetClock(t) ==
    /\ wall' = t
    /\ UNCHANGED <<recall, queue, mail, sent, disk, process, history>>

(* Somebody publishes an operation, its issuer or a node it was handed to.  *)
Publish(e) ==
    /\ sent < MaxSent
    /\ sent' = sent + 1
    /\ queue' = Append(queue, e)
    /\ UNCHANGED <<wall, recall, mail, disk, process, history>>

SendMail(m) ==
    /\ sent < MaxSent
    /\ sent' = sent + 1
    /\ mail' = mail \cup {m}
    /\ UNCHANGED <<wall, recall, queue, disk, process, history>>

(* Wrong: what is written is the identity announced, not the keyring. *)
AnnounceAlone(i) ==
    /\ recall' = recall \cup {i}
    /\ IF at = "idle"
         THEN UNCHANGED <<mem, writes>>
         ELSE /\ mem' = [mem EXCEPT !.keyring = @ \cup {i}]
              /\ writes' = writes \cup {{i}}
    /\ UNCHANGED <<wall, queue, mail, sent, disk, at, page, more, handlers, history>>

(* A `dacar.node` announce: the network stack remembers the identity, in its *)
(* own directory and in whatever command hears it; a sync that runs enters   *)
(* it in its keyring and starts to save that, without waiting for the write. *)
Announce(i) ==
    /\ recall' = recall \cup {i}
    /\ IF at = "idle"
         THEN UNCHANGED <<mem, writes>>
         ELSE /\ mem' = [mem EXCEPT !.keyring = @ \cup {i}]
              /\ writes' = writes \cup {mem'.keyring}
    /\ UNCHANGED <<wall, queue, mail, sent, disk, at, page, more, handlers, history>>

(* One of those writes lands, in whatever order. *)
LandKeyring(w) ==
    /\ disk' = [disk EXCEPT !.keyring = w]
    /\ writes' = writes \ {w}
    /\ UNCHANGED <<outside, at, mem, page, more, handlers, history>>

------------------------------------------------------------------------------
(* RnsIdentityResolver: first the network stack, then the keyring. *)
Known(i, recalled) == i \in recalled \cup mem.keyring

(* StateVector.apply: neither too far in the future nor too old. *)
Fresh(o) == o.ms <= wall + MaxFuture /\ o.ms >= wall - Horizon

(* DeltaReceiver: an operation is applied when its signature verifies and it *)
(* is fresh, and is dropped otherwise.                                       *)
Take(o, recalled, sender) ==
    IF Known(o.issuer, recalled) /\ Fresh(o)
      THEN /\ mem' = [mem EXCEPT !.state = @ \cup {o}]
           /\ UNCHANGED dropped
      ELSE /\ dropped' = dropped \cup
                           {[op |-> o, sender |-> sender, fresh |-> Fresh(o)]}
           /\ UNCHANGED mem

(* cmdSync loads the keyring and listens for announces ... *)
SyncStart ==
    /\ at = "idle"
    /\ at' = "load"
    /\ mem' = [state |-> {}, keyring |-> disk.keyring]
    /\ UNCHANGED <<outside, disk, page, more, handlers, writes, history>>

(* ... looks for the rfed node, loads the state, and subscribes; without an  *)
(* rfed node only the LXMF leg is left.                                      *)
SyncLoad ==
    /\ at = "load"
    /\ mem' = [mem EXCEPT !.state = disk.state]
    /\ at' \in {"pull", "mail"}
    /\ UNCHANGED <<outside, disk, page, more, handlers, writes, history>>

Smaller(m, n) == IF m < n THEN m ELSE n
FirstPage == SubSeq(queue, 1, Smaller(PageSize, Len(queue)))
Drained   == SubSeq(queue, Smaller(PageSize, Len(queue)) + 1, Len(queue))

(* RfedDeltaSync.pull asks for a page: the node hands it out and forgets it. *)
PullPage ==
    /\ at = "pull"
    /\ page' = FirstPage
    /\ queue' = Drained
    /\ more' = (Drained # <<>>)
    /\ taken' = taken \cup {FirstPage[k].op : k \in DOMAIN FirstPage}
    /\ at' = "page"
    /\ UNCHANGED <<wall, recall, mail, sent, disk, mem, handlers, writes,
                   dropped, fails>>

(* Wrong: the sender is remembered after its operation was applied. *)
RecalledForLate(e) == recall

(* _rememberSender: the publisher's key comes with the entry. *)
RecalledFor(e) == recall \cup {e.sender}

ApplyEntry ==
    /\ at = "page" /\ page # <<>>
    /\ Take(Head(page).op, RecalledFor(Head(page)), {Head(page).sender})
    /\ recall' = recall \cup {Head(page).sender}
    /\ page' = Tail(page)
    /\ UNCHANGED <<wall, queue, mail, sent, disk, at, more, handlers, writes,
                   taken, fails>>

(* Wrong: only one page is asked for, and what is left is not. *)
EndPageStuck ==
    /\ at = "page" /\ page = <<>> /\ ~ more
    /\ at' = "mail"
    /\ UNCHANGED <<outside, disk, mem, page, more, handlers, writes, history>>

EndPage ==
    /\ at = "page" /\ page = <<>>
    /\ at' = IF more THEN "pull" ELSE "mail"
    /\ UNCHANGED <<outside, disk, mem, page, more, handlers, writes, history>>

------------------------------------------------------------------------------
(* runLxmfSync: the router fetches a message and the listener starts on it.  *)
Fetch(m) ==
    /\ at = "mail"
    /\ mail' = mail \ {m}
    /\ handlers' = handlers \cup {m}
    /\ taken' = taken \cup Ops(m)
    /\ UNCHANGED <<wall, recall, queue, sent, disk, at, mem, page, more, writes,
                   dropped, fails>>

(* Wrong: the rest of a batch is not looked at once an operation applied. *)
RestUnlessApplied(h) ==
    IF Known(Head(h).issuer, recall) THEN {} ELSE {Tail(h)} \ {<<>>}

(* Wrong: a listener that ended still counts as in flight. *)
RestAlways(h) == {Tail(h)}

(* What is left of a batch once its first operation was applied or dropped. *)
Rest(h) == {Tail(h)} \ {<<>>}

(* handleMessage: between two operations of a batch, and between two         *)
(* messages, any other step may come.                                        *)
Handle(h) ==
    /\ at # "idle"
    /\ Take(Head(h), recall, {})
    /\ handlers' = (handlers \ {h}) \cup Rest(h)
    /\ UNCHANGED <<outside, disk, at, page, more, writes, taken, fails>>

(* Wrong: the listeners still at work are not waited for. *)
EndMailAtOnce ==
    /\ at = "mail" /\ mail = {}
    /\ at' = "saveState"
    /\ UNCHANGED <<outside, disk, mem, page, more, handlers, writes, history>>

(* The leg ends when every listener has. *)
EndMail ==
    /\ at = "mail" /\ mail = {} /\ handlers = {}
    /\ at' = "saveState"
    /\ UNCHANGED <<outside, disk, mem, page, more, handlers, writes, history>>

(* The leg throws; the sync goes on without waiting for the listeners. *)
MailFails ==
    /\ at = "mail"
    /\ fails < MaxFails
    /\ fails' = fails + 1
    /\ at' = "saveState"
    /\ UNCHANGED <<outside, disk, mem, page, more, handlers, writes, taken, dropped>>

SaveState ==
    /\ at = "saveState"
    /\ disk' = [disk EXCEPT !.state = mem.state]
    /\ at' = "saveKeyring"
    /\ UNCHANGED <<outside, mem, page, more, handlers, writes, history>>

SaveKeyring ==
    /\ at = "saveKeyring"
    /\ disk' = [disk EXCEPT !.keyring = mem.keyring]
    /\ at' = "exit"
    /\ UNCHANGED <<outside, mem, page, more, handlers, writes, history>>

(* The process ends, and with it all that was only in its memory. *)
Stop == /\ at' = "idle"
        /\ mem' = Nothing
        /\ page' = <<>> /\ more' = FALSE /\ handlers' = {} /\ writes' = {}

Exit == at = "exit" /\ Stop /\ UNCHANGED <<outside, disk, history>>

(* The node is not found or does not answer, a page does not arrive, or the  *)
(* process is killed: nothing of this sync is saved.                         *)
Abort ==
    /\ at # "idle"
    /\ fails < MaxFails
    /\ fails' = fails + 1
    /\ Stop
    /\ \/ UNCHANGED <<queue, taken>>
       \/ /\ at = "pull"            \* the page was handed out and got lost
          /\ queue' = Drained
          /\ taken' = taken \cup {FirstPage[k].op : k \in DOMAIN FirstPage}
    /\ UNCHANGED <<wall, recall, mail, sent, disk, dropped>>

------------------------------------------------------------------------------
(* `dacar identity remember` *)
Remember(i) ==
    /\ at = "idle"
    /\ disk' = [disk EXCEPT !.keyring = @ \cup {i}]
    /\ UNCHANGED <<outside, process, history>>

(* Wrong: the grants of the issuer are not looked at, as with --force. *)
MayForgetAny(i) == i \in disk.keyring

(* An issuer whose grants are in force is not forgotten. *)
MayForget(i) == i \in disk.keyring /\ ~ ActiveOf(disk.state, i)

(* `dacar identity forget` *)
Forget(i) ==
    /\ at = "idle"
    /\ MayForget(i)
    /\ disk' = [disk EXCEPT !.keyring = @ \ {i}]
    /\ UNCHANGED <<outside, process, history>>

(* `dacar apply` of an operation handed over in a file: the keyring alone    *)
(* says which issuers are known.  What is not applied changes nothing.       *)
ApplyFile(o) ==
    /\ at = "idle"
    /\ o.issuer \in disk.keyring /\ Fresh(o)
    /\ disk' = [disk EXCEPT !.state = @ \cup {o}]
    /\ UNCHANGED <<outside, process, history>>

Sync ==
    \/ SyncStart \/ SyncLoad
    \/ PullPage \/ ApplyEntry \/ EndPage
    \/ \E m \in mail : Fetch(m)
    \/ \E h \in handlers : Handle(h)
    \/ EndMail \/ SaveState \/ SaveKeyring \/ Exit

Next ==
    \/ \E t \in Time : SetClock(t)
    \/ \E e \in Entry : Publish(e)
    \/ \E m \in Message : SendMail(m)
    \/ \E i \in Issuer : Announce(i) \/ Remember(i) \/ Forget(i)
    \/ \E w \in writes : LandKeyring(w)
    \/ Sync \/ MailFails \/ Abort
    \/ \E o \in Op : ApplyFile(o)

(* Syncs are run again and again, and a sync that runs goes on: the requests *)
(* of the rfed and LXMF clients have timeouts.  The rfed node is configured  *)
(* in infinitely many of them.                                               *)
Fairness == WF_vars(Sync) /\ SF_vars(SyncLoad /\ at' = "pull")

Spec == Init /\ [][Next]_vars
FairSpec == Spec /\ Fairness

------------------------------------------------------------------------------
(* What a running sync still has in hand. *)
InHand == mem.state \cup {page[k].op : k \in DOMAIN page}
              \cup UNION {Ops(h) : h \in handlers}

(* dacar.js cmdSync, rfedSync.js pull, lxmfSync.js handleMessage: as long as *)
(* no sync failed, whatever left the rfed node's queue or the mail is in the *)
(* store, in the hands of a running sync, or was refused; and refused is     *)
(* only what was not fresh when it was looked at, or what neither its own    *)
(* issuer published nor anyone recalls (_rememberSender, delta.js ingest).   *)
NothingLostUnlessFailed ==
    fails = 0 =>
       taken \subseteq disk.state \cup InHand
            \cup {d.op : d \in {x \in dropped :
                                  x.fresh => x.op.issuer \notin x.sender}}

(* dacar.js cmdIdentityForget, cmdSync: when no sync runs, the issuer of     *)
(* every grant in force is known to the next one, so that a revocation can   *)
(* be verified: neither forgetting, nor keyrings written over one another by *)
(* announces, nor a sync that failed half-way undoes it.                     *)
RevocationsVerifiable ==
    at = "idle" => \A i \in Issuer :
        ActiveOf(disk.state, i) => i \in recall \cup disk.keyring

(* session.js registerAnnounceHandler, store.js saveKeyring: an identity      *)
(* leaves the stored keyring because the owner forgets it, or the network    *)
(* stack recalls it anyway: keyrings that announces started to write, and    *)
(* that land late or in another order, take away none that was remembered.   *)
KeyringKeepsRemembered ==
    [][\A i \in disk.keyring \ disk'.keyring :
          i \in recall \/ (at = "idle" /\ ~ ActiveOf(disk.state, i))]_vars

(* dacar.js cmdSync, rfedSync.js pull: what its issuer published and the      *)
(* node still keeps ends up in the store, once syncs no longer fail, unless  *)
(* the wall clock leaves the operation out of its window before that.        *)
QueuedArrives ==
    \A o \in Op :
       (/\ fails = MaxFails
        /\ \E k \in DOMAIN queue : queue[k] = [op |-> o, sender |-> o.issuer])
          ~> (o \in disk.state \/ ~ Fresh(o))
==============================================================================
