# Dacar in TLA+

Dacar is a decentralized authorization system: every node keeps a replica of a set
of permissions, learns of changes as signed operations over unreliable
transports, and decides requests locally. This directory holds TLA+ models of its
JavaScript implementation (`javascript/src`), the TLC runs that check them on
small instances, and theorems proved with TLAPS for instances of any size. The
Python and C++ implementations follow the same SPEC.md; they were read for where
they agree or differ, and the modules translate the JavaScript.

## 1. The system

| Component | State | Operations | Talks to |
|---|---|---|---|
| Hybrid logical clock (`hlc.js`) | `lastMs`, `logical`; saved in the clock record | `now`, `restore`, `snapshot` (`observe` is called by tests only) | issuance, challenge server |
| CRDT state vector (`crdt.js`) | per tuple: largest grant and revocation timestamp | `apply`, `ingest`, `prune`, `isActive`, `activeTuples`; `merge` is never called in production | receiver, engine, store |
| Delta receiver, verifier, keyring, threshold (`delta.js`, `verifier.js`, `threshold.js`) | known public keys | `applyPayload(s)`, `verifyOperation` | every transport hands its bytes to the receiver |
| Evaluation engine (`engine.js`) | per request: memo, call counter | `evaluate`, `evaluateHashes` | reads the state vector |
| Operations, tuples, namespace hashing (`operation.js`, `tuple.js`, `namespace.js`) | none | sign, encode, decode, hash, `covers` | all |
| Configuration (`config.js`) and setup commands | salts, anchors, horizon | `init`, `identity new`, `salt new/set`, `anchor add` | engine, challenge, store |
| Challenge protocol (`challenge.js`, `transport/rnsChallenge.js`) | nonce of the pending challenge | `authorize`, `handle` | engine, a link |
| Command line (`cli/dacar.js`) | local variables of one command | `grant`, `revoke`, `publish`, `push`, `sync`, `apply`, `paper`, `prune`, `check`, ... | store, sessions |
| Store (`cli/store.js`, `cli/fileStore.js`) | one record per file: clock, state, outbox, sent box, ledger, aliases, keyring, config, identity | whole-record load and save, in place | command line |
| Issuer identities (`cli/session.js` announce handler, `identity remember/forget`) | keyring, and what the network stack recalls | announce, remember, forget | receiver |
| Sessions and transports (`cli/session.js`, `transport/*`) | rfed subscription, LXMF router, links | publish, pull, push, announce, paper messages | network, receiver, keyring |

A command loads a record, changes it in memory and saves it, with awaits in
between; the network callbacks of a sync run between those awaits. Nothing locks
the store. Operations travel by rfed (broadcast with a queue per subscriber),
LXMF (store and forward), direct links (one answer per operation) and paper; all
but links are fire-and-forget.

**What is hard.** Deliveries out of order, repeated, late or lost; pruning, which
forgets what would contradict an old operation; unsynchronized wall clocks that may
be set back; commands killed between two saves or during one; sends that fail after
part of a batch was taken; commands that overlap; delegation cycles, and an
evaluation cut short by its depth and work bounds, with a memo shared by its branches;
receipts that come late, twice or from somebody else; salts and keys rotated under the
decisions that depend on them; message handlers that run concurrently on one state.
`PROJECT.json` lists each hazard at its line with the properties aimed at it.

**What makes each part correct.**
- Clock: an issuer's later decision carries a larger timestamp, across restarts.
- State vector: it decides by the last decision it was told of; replicas told the
  same agree; pruning is invisible and bounds what it can.
- Engine: what is allowed is anchored, an anchor's denial is final, the order of
  tuples does not matter, and it terminates.
- Issuance and store: nothing issued is lost unsent, what is published can be sent
  again, the sent box does not overstate, retries succeed.
- Challenge: only the receipt of this challenge counts; a partition denies.
- Setup: a node stays its own anchor, what it retired is none, rotating a salt leaves
  time to re-issue and never brings back what was denied later.
- Intake: what the network gave away is not lost by a sync that did not fail, unless the
  node's clock finds it too old or too far ahead; the issuer of a grant in force stays known,
  so that its revocation can be verified; a remembered identity stays in the keyring.
- Paper: no delta is lost, repeated or reordered by packing; what an import reports is true.

## 2. The modules

| Module | Models | Kind |
|---|---|---|
| `Hlc` | `hlc.js`: packing, `now`, exhaustion | operators |
| `StateVector` | `crdt.js`: an entry, intake, apply, merge, prune | operators, EXTENDS `Hlc` |
| `Decisions` | abstract: issuers decide, nodes are told in any order | specification |
| `Replication` | replicas: clock, log of issued operations, state vectors, wall clocks | specification, EXTENDS `StateVector`, implements `Decisions` |
| `Issuance` | one node's durable records and the commands that rewrite them | specification, EXTENDS `StateVector` |
| `Engine` | one request evaluated against the active tuples | specification |
| `StrictConsistency` | abstract: a yes means that the authority allowed it meanwhile | specification |
| `Challenge` | calls of `authorize`, the authority, and the network between them | specification, implements `StrictConsistency` |
| `Setup` | identity, anchors and salts of a node, and the commands that change them | specification |
| `Intake` | one node's `sync` and `apply`, announces and keyring | specification |
| `Paper` | `paper export` and `paper import` | specification |
| `StateVectorProofs`, `ReplicationProofs`, `EngineProofs`, `ChallengeProofs`, `SetupProofs`, `IntakeProofs`, `IssuanceProofs`, `PaperProofs` | theorems (section 4) | proofs |
| `MC_Replication`, `MC_Issuance`, `MC_Engine`, `MC_Challenge`, `MC_Setup`, `MC_Intake`, `MC_Paper` | instances for TLC | |

Operators such as `VerdictByEntry`, `PushedAll` or `EndMailAtOnce`, under a comment that
starts with "Wrong:", are plausible bugs in the definition that follows them. Nothing uses
them; each run's properties are known to fail when one takes the place of the right
definition.

### Replication
`clock[n]` is the clock record of node `n`, `sv[n][t]` the entry of tuple `t` in its
state vector, `wall[n]` what `Date.now()` returns there. `log` holds every operation
ever issued, and stands for all outboxes, sent boxes, files, queues and messages:
any of them may be delivered to any node at any time, again and again, or never.
`seen` and `prunedAt` are history. `Issue` is `_issue` up to its local apply (the
clock is saved before; `--no-apply` skips it), `IssueRejected` its throw,
`Ingest` is `DeltaReceiver.applyPayload` with a signature that verified,
`PruneAll` is `cmdPrune`, `SetWall` is time passing or being corrected. A tuple
hash includes the issuer, so each tuple has one issuing node.

*Assumption on time*: no wall clock is set back to before the last pruning of its
node. Without it a node could prune a pair and then take the old grant in again: the
intake check and pruning read the same clock, and this is what relates them.

### Issuance
`disk` holds the records. A command of process `p` is `at[p]` (the step it takes
next) and `job[p]` (its local variables); each action is the code between two
awaits that matter: load (`StartIssue`, `ApplyLocally`, `Queue`, `Drain`, `Log`,
`PruneOutbox`, ...) or save (`Stamp`, `SaveState`, `SaveQueue`, `SaveDrain`, `SaveLog`,
...). `grant`/`revoke` run from `StartIssue`; the legs `lxmf`, `rfed` of one command
follow each other and call recordPublish (`Drain` to `SaveLog`) after each send.
`publish`, `push` (the leg `link`) and `publish <file>` start with `StartPublish` or
`StartFile`. rfed and LXMF accept a whole batch or throw, possibly after some of it left;
only a link answers for each operation, and it may refuse some. `apply` and
`paper import` rewrite the state like `sync` does and are not separate. The `state`
record is the set of operations whose effect it holds, because `Replication` shows
that this is what an entry means; pruning it changes nothing here.
`Crash` stops a command between any two steps (a kill, or a throw such as an
unwritable `--out` file); `CrashWriting` cuts the record being saved: a box
loads as empty, a state as empty or not at all, a clock not at all.
`stamp`, `queued`, `held`, `taken`, `prunedAt` and `crashes` are history.

### Engine
The recursion of `_resolve` and `authority` is a stack of frames, one per pending
`_resolve`, with the candidate it is at and what it has found. `memo` and `counter` are
the code's. The object of a request stays the same through the recursion, so the
model keeps only tuples that cover it; a tuple is its relation, grantee and
issuer. `Skip` is the index by grantee and the comparison of relation hashes. Between
requests tuples come and go in any order.

### Challenge
`phase[c]` is where the call `c` of `authorize` is; a call is named by its nonce, which is
random in the code. `Ask` and `PreCheckFails` are `authorize` up to the request,
`Deliver`, `DeliverUnreadable` and `NoAnswer` the three ways its transport returns or
throws, `Serve` is `AuthoritativeServer.handle`. `answers` is what was ever answered:
any call may get any of them, at any time or never, so late, repeated and misdirected
receipts need no action of their own. A state is abstracted to which requests it allows and
denies under which salt (`law`); what delegation makes of a state is `Engine`. `ours` and
`theirs` are the salts of the two sides, `Bound` the entries the authority can bind.

### Setup
`key`, `self`, `salts` and `anchors` are the records; `step` is where a command that
changes several of them is, one action per save in the order of the code (`store.js`
`init`, `rotateIdentity`), and `Kill` stops it before the next one. `SaltNew`, `SaltSet`
and `AnchorAdd` change one record. `IssueStart` loads the identity and the salt a decision
is made under, `IssueStore` saves it: between them the salts may be rotated. `Visible` and
`Counts` say which decisions a later request sees, as the engine's hypotheses do.

### Intake
A sync goes `SyncStart`, `SyncLoad`, then the rfed leg (`PullPage`, `ApplyEntry` per entry,
`EndPage`) and the LXMF leg (`Fetch` starts a handler, `Handle` is a handler up to its
next await), `SaveState`, `SaveKeyring`, `Exit`. The rfed node forgets a page when it
hands it out. `Announce` may come at any step; it changes the keyring in memory and
starts a write that `LandKeyring` completes at some later point, in whatever order.
`MailFails` is the LXMF leg throwing while handlers run, `Abort` a failure or a
kill of everything else. `Remember`, `Forget` and `ApplyFile` are commands between syncs.
`Take` is `applyPayload`: the key must be known (`Known`, at the moment the operation is looked
at) and the operation neither older than the deletion horizon nor further ahead than the future bound
(`Fresh`, the two early returns of `StateVector.apply`). `wall` is the clock that is read; `SetClock` is time
passing or being corrected, in either direction and at any step, so the model assumes nothing about it. What
is refused is not asked for again: `dropped` remembers who published it and whether it was fresh. A payload that does not decode or whose
signature is wrong is no operation of the model: it changes nothing, and nobody misses it.
The state is the set of operations taken: what an entry makes of them is `Replication`.

### Paper
The export is `ExportStart` (selection), `PackNext`/`PackEnd` (`packChunks`),
`BuildFits`, `BuildHalves`, `BuildFails`, `BuildEnd` (`packPaperUris`), `PrintSheet`,
`PrintManifest`. An import scans sheets in any order (`Scan`), each starting a handler
(`Handle` is one delta of it), waits for them (`ScanEnd`), saves, and checks the
manifest. A delta is a value with a size; what encryption adds (`over`) is
chosen for each export. `Routed` says whether the import's delivery has a router.

### How the modules fit together
`Replication` is about what operations do to replicas, whatever carries them; `Issuance` is
the sending side of the carriage, `Intake` and `Paper` the receiving side; each of the
three keeps a state as a set of operations, which is what `LastDecisionWins` says an entry stands
for. `Engine` decides by the active tuples of such a state, `Setup` says which salts and
anchors it decides by, `Challenge` asks the engine of another node.

## 3. What the runs check

Bounds are constants named in the module that uses them and given in the `.cfg`.

| Run (`.cfg`) | Instance | Shows |
|---|---|---|
| `MC_Replication` | 2 nodes, 1 tuple, 3 operations, time 0..3, horizon 1, 2 logical values per tick, future bound 1 | TypeOK, LastDecisionWins, Convergence, IssueOrder, PruningBoundsPairs; implements `Decisions` |
| `MC_Issuance` | one command at a time of every kind but files, 2 operations, 1 foreign operation, time 0..2, 1 crash | TypeOK, UnsentStaysQueued, AppliedStays, ResendableUnlessStopped, ReportIsTrue; with fairness OutboxDrains |
| `MC_IssuanceOverlap` | an issuing command overlapping a publish, push or sync, 2 operations, time 0..1, 1 crash that may cut a record | StampsIncrease, SentWasTaken, ClockCoversState |
| `MC_IssuanceLost` | one command at a time, 1 crash | *violated*: Resendable |
| `MC_Engine` | an anchor, two admins that may empower each other, a user; up to 4 tuples in every order; depth 2, work bound 3 | TypeOK, OnlyAnchored, AnchorDenialWins, VerdictIsExact, EvaluationShrinks; with fairness EveryRequestAnswered |
| `MC_EngineCap`, `MC_EngineMemo` | the same identities; a work bound of 1; an admin that may deny the other | *violated*: FailsOverTheCap, MemoIsPathIndependent |
| `MC_Challenge` | 2 calls for the same or different ones of 2 requests, 2 salts on either side in any combination, 1 other key, 2 changes of the authority's state, 1 answer, repeated at will; calls, requests and salts are symmetric | TypeOK, YesIsFresh; implements `StrictConsistency` |
| `MC_Setup` | 3 keys, 4 salts, 2 decisions, 1 `salt set`, 1 kill, 1 foreign anchor | TypeOK, SelfAnchored, RetiredIsNoAnchor, TwoRotationsOfGrace, LaterDenialCounts |
| `MC_Intake` | 2 issuers, a grant and its revocation, pages of 1 entry, 2 publications or batches of both, 1 failure; a clock that is set to and fro, so that the grant is too old at one reading and the revocation too far ahead at the other | TypeOK, NothingLostUnlessFailed, RevocationsVerifiable, KeyringKeepsRemembered; with fairness QueuedArrives |
| `MC_Paper` | 4 deltas, one of which alone fills a chunk, 4 contents of either box, overheads with which all, some or no chunk prints, 2 imports | TypeOK, PackingKeepsOrder, PacksLeast, ManifestIsPrinted, CompleteMeansApplied, ScannedArrives |
| `MC_PaperCli` | the same, the delivery built as the command line builds it | *violated*: ScannedArrives |

*Why the bounds are enough.* Entries of different tuples do not interact, so one tuple
suffices for an entry's history; three operations make grant, revoke, grant again
with either end pruned, late or repeated; time 0..3 with horizon 1 lets an operation
go stale, be pruned and be replayed; two logical values make the counter run out. A
second node is what convergence needs. In `Issuance` two operations make one wait
while the other moves, and give the clock a stamp to repeat. In `Engine` a chain
user-admin-admin-anchor is as long as three identities allow; four tuples make a cycle
with a denial on it; the work bound of three is met by that chain with a side branch. The
depth bound of two is where the longest path of that instance ends: `VerdictIsExact` asks that
the bound is no less than the number of issuers that are no anchors. The theorems cover every other.
In `Challenge` two calls let a receipt reach the wrong one, also one that asked for something else,
two changes let an allowance appear and go while a call waits, two salts let an allowance and a denial be
bound apart; one answer is enough for a wrong yes, because a call ends with the first it gets. In `Setup` four salts push one out, three keys retire two, and a
decision and its contrary need two. In `Intake` pages of one entry make a second page,
the failure can hit any step, the two issuers are the announced and the unknown one, and the two
readings of the clock make either operation fresh or refused, in each of the two ways. The same batch sent twice has two handlers at work.
In `Paper` four deltas are halved twice, and a large one between small ones
makes a chunk that no others share. The theorems hold for every value of these constants.

*Fairness.* `RetrySpec` (`OutboxDrains`): a running command goes on (WF, the event
loop); the owner keeps running `publish --outbox` (SF), and a send of the whole
outbox that is tried again and again at last succeeds (SF): SPEC.md asks no more
than retrying, and nothing less would empty an outbox. `FairSpec` of `Engine`: WF of
the evaluation, which is synchronous code. Of `Intake`: WF of the steps of a sync (the clients' requests
have timeouts, and the owner keeps running `sync`) and SF of reaching the rfed leg (infinitely many syncs find
the node); a sync may still fail, up to the bound on failures. `QueuedArrives` promises nothing of an operation
that the clock leaves out of its window before a sync looks at it: the code refuses it then, and the queue no longer has it.
That a call of `Challenge` ends is no property here: `NoAnswer` is possible as long as it waits, and that it comes is
the timeout `Link.request` is given (`rnsChallenge.js`).

*What holds for one command at a time.* `AppliedStays`,
`UnsentStaysQueued`, `ResendableUnlessStopped` and `ReportIsTrue` are checked, and proved,
for commands one after the other. Two overlapping commands that rewrite
the state or the outbox lose updates, and two that issue can share a timestamp; no
document promises otherwise, so this is listed as a hazard that no property covers, and not as a finding.
These four also assume that writes complete; `MC_IssuanceOverlap` alone cuts records short.

### Findings
Each is a run marked *violated* above.
1. `Resendable`: `recordPublish` saves the drained outbox (`dacar.js:845`) before it writes
   the sent box, so a kill loses an operation from both; `dacar.js:686` promises that every
   issued delta can be sent again.
2. `FailsOverTheCap`: over the work bound (`engine.js:166`) the request is decided from what
   was found; SPEC.md:130 says "the request fails".
3. `MemoIsPathIndependent`: a positive may depend on the path when a denial of `admin`
   was cut off as a cycle (`engine.js:153`; `Engine.cpp:92`: "path-independent"). `OnlyAnchored`
   and `AnchorDenialWins` still hold; only denials by delegated admins are affected.
4. `ScannedArrives`, `MC_PaperCli`: `dacar paper import` builds its delivery without a router
   (`dacar.js:1305`), so every sheet is skipped as an "invalid URI" and nothing is
   ever applied; the test and the Python command pass the router.

Seen while modelling, and not a run of their own:
- `prune` skips a revocation that has no grant, for ever; SPEC.md:119 says that pruning bounds the
  history of revocations. `PruningBoundsPairs` states what holds.
- `publish <file>` of an own operation takes it out of the outbox and logs it nowhere
  (SPEC.md:282: "it is not cleared in place"); the theorems about the sent box exclude files.
- A record cut short while it is rewritten loads as empty (SPEC.md:282 demands it), which loses what an
  outbox held; the runs about the outbox assume that writes complete.
- A rotation that drops the oldest salt can drop a denial and leave an allowance that was issued
  *after* it under a younger salt. `LaterDenialCounts` says that the opposite cannot happen.
- The authority skips the entries of a challenge whose salt it does not have: a denial
  recorded under a salt only one side has is not seen (`Bound`).
- After a second import of the same sheets the manifest check says that the deltas of the first are missing
  (the code counts what this import applied); `CompleteMeansApplied` holds, its converse does not.

## 4. What is proved

Assumptions are the named ASSUMEs on constants (horizon, bounds and times are
naturals, each tuple has an issuer, anchors are identities); TLC evaluates them in every run.
Where a theorem needs more, the hypothesis is in its statement.

`StateVectorProofs`: `MergeIsJoin`, `ApplyIsMerge`, `PruneKeepsAnswer`.

`ReplicationProofs`, for any nodes, tuples, horizon and times:
`Correct` (`[]LastDecisionWins`), `Convergent`, `IssueOrdered`, `PairsBounded`, `TypeCorrect`.
LastDecisionWins is not inductive: after a prune the entry no longer shows what was applied.
The invariant `IInv` says what is left: every timestamp in an entry is that of an operation applied
(`TimestampsTold`); an applied grant that the entry no longer covers is out of the horizon and was
revoked (`GrantsCovered`); an applied revocation it no longer covers is out of the horizon and whatever
the entry grants is newer (`RevokesCovered`); no issuer has stamped beyond its clock (`ClockAhead`);
no wall clock is before the last pruning. A delivered operation that passes intake is inside the horizon,
hence above everything that was forgotten. LastDecisionWins then follows because
timestamps are ordered as decisions (`IssueOrder`). `ReplicationImplements` uses the same
invariant: every step of the replicas is a step of `Decisions` or none, pruning and time included.

`EngineProofs`, for any tuples in any order, any depth and work bounds: `EngineSound`
(`[]OnlyAnchored`), `EngineObeysAnchors` (`[]AnchorDenialWins`) and `EngineTypeCorrect`. The invariant `EngineInv` says that
each pending call decides the issuer of the candidate below it (`Nested`), has allowed
nothing that is not anchored (`FoundIsAnchored`), has noted every anchor's denial among
the candidates it passed (`DenialsFound`), and the memo holds anchored
identities only (`MemoAnchored`). "Anchored" is the least closed set, written as an intersection, so that
no recursion is needed.

`EngineExact` (`[]VerdictIsExact`) is the converse: nothing that delegation confers is refused, as long
as only anchors deny `admin` and the bounds hold the issuers. A call does not look for all the
authority its identity has, only for what comes through none of the issuers on its own path
(`AnchoredOff(Path(k))`), which is why the cycle check loses nothing: authority off a path was granted
by someone who has it without the grantee too (`GrantedOffThePath`). The invariant `ExactInv` says
that the issuers on the path differ, that a denial found is a real one, and that no candidate passed over
had authority off the path (`NothingMissed`). Since the issuers on the path differ, there are no more of
them than issuers, so the depth never refuses a new one (`DepthSuffices`, by the pigeonhole principle).
`EngineTerminates` (`EvaluationShrinks`) is what termination rests on: each step makes one of the
calls a request has, or leaves less in `Pending`.

`ChallengeProofs`, for any calls, requests, salts, keys and any number of changes and answers:
`ChallengeTypeCorrect`, `ChallengeFresh` (`[]YesIsFresh`), `ChallengeImplements` (the exchange
implements `StrictConsistency`). YesIsFresh needs to know of receipts still on their way:
a challenge is what its call asked (`SentByCaller`), the authority's present state is one the waiting call has seen
(`LawWitnessed`), and an allowing receipt of the authority is covered by one of those (`ReceiptsFresh`).

`SetupProofs`, for any number of keys, salts, decisions and kills: `SetupTypeCorrect`,
`OwnAnchor`, `RetiredLosesTrust`, `Grace`, `DenialOutlastsAllowance`. The invariant adds that
nothing exists before the first init (`NothingBeforeInit`), what each step of init and rotation has
already saved (`AnchorsOnTheWay`), that without `salt set` the configured salts are the latest ones made, in order
(`SaltsInOrder`), and what the decision between load and save may be (`DraftIsNext`).

`IntakeProofs`, for any operations, messages, page size, horizon, readings of the clock and failures: `IntakeTypeCorrect`,
`NothingLost`, `GrantsCanBeRevoked`, `RememberedKeysStay`. `NothingLost` has no hypothesis: what was refused as not fresh, and what
came from somebody else than its unknown issuer, is in its statement. RevocationsVerifiable is about the idle
node; the invariant says what a running sync holds for it: which steps have something in
hand (`StepsInOrder`), that every keyring in memory or being written covers the one that was loaded
(`KeyringsOnTheWay`), that the issuers of the state in memory are known (`IssuersKnown`), that the state in memory
includes the stored one (`StateGrows`), that the last save leaves nothing behind
(`SavedAtTheEnd`), and that what its own issuer published is dropped only when it is not fresh (`OwnPublicationVerifies`).
`RememberedKeysStay` is an action property and follows from `KeyringsOnTheWay`: whichever keyring lands, what it lacks is recalled.

`IssuanceProofs`, for any commands side by side of which at most one issues (`OneIssuer`), killed
anywhere, any write cut short: `IssuanceTypeCorrect`, `StampsAreFresh`, `ClockIsSavedFirst`,
`SentBoxIsTrue`. The invariant relates the local variables of each command to the step it is at (`JobsFit`),
the operation being stamped to the clock (`Stamping`), the records to what was ever issued
(`RecordsFit`), and puts the saved clock above every stamp (`ClockAhead`).

The second half of that module is about commands one after the other whose writes complete (`Serial`):
`UnsentIsKept`, `AppliedIsKept`; if none publishes a file, `PublishedIsLogged`,
`ReportsAreTrue`. What is hard is what the record in the hands of a command may miss
between its load and its save: the invariant says that it still covers what is stored (`Covers`), that what a
transport was given is what the command aims to report (`Aims`), and that whatever was queued is in the outbox, the sent box
or in reach of the command that moves it (`InReach`).

`PaperProofs`, for any deltas, sizes, overheads and contents of the boxes: `PaperTypeCorrect`,
`ManifestIsTrue`, `CompleteIsTrue`, `ScansArrive`. The last speaks of both deliveries: with a router (the tests, the Python
command) `ScannedArrives` holds; without one, as `dacar paper import` builds it today, nothing is ever applied or stored and
no import is called complete (`NothingRead` is inductive by itself). The
invariant says which parts of the export are used up at which step (`PhasesInOrder`), that the
chosen deltas, and no others, are in the paper messages, chunks and payloads at hand (`NothingAstray`), and what an
import has applied, has in its handlers and has saved (`ImportInOrder`).

The same module proves what the packing computes. `OrderIsKept` (`[]PackingKeepsOrder`): what is
on sheets, in chunks, in the chunk being filled and not packed yet is, in this order, what was chosen, at
every step and every halving.
`PackingIsLeast` (`[]PacksLeast`): no cut of the deltas into chunks that each fit has fewer
chunks. The argument is that the greedy packing stays ahead (`PackedAhead`): whatever the cut, it has
made at least as many cuts within the deltas already packed as there are chunks closed, because the size of a chunk
grows with what is in it (`CostMonotone`).
Both are about folds over sequences, of any length. The induction theorem of the library cannot be used, so
`InductionOnNat` is proved from the least-number principle, for a set of naturals instead of a
predicate, and what `FlattenSeq` and the size of a chunk compute follows from it.

Only model-checked: liveness (`OutboxDrains`, `EveryRequestAnswered`, `QueuedArrives`),
which is beyond the prover (of `EveryRequestAnswered` the part that needs no fairness is `EngineTerminates`).
`HasAuthority` in `Engine` is a recursive function over paths that only `MC_EngineMemo` evaluates, in a run that is violated.

## 5. Not modelled

- Encodings, HMACs, encryption and signatures, the signatures of a threshold group included: their result
  is an operation that is delivered, verifies or not. Pure code, tested by fixtures shared by the implementations.
- Wording, name resolution, display commands, the ledger and the aliases but `self`: no
  command decides by them.
- The global option `--identity`, which lends one command another key, `identity forget --force`, files
  edited by hand, and a configuration cut short while it is written.
- The push server beyond applying what it gets, the encoding of its acknowledgement, and
  `listen` of rfed, which no command calls.
- The RNS and LXMF stacks: their sends, requests and announces are actions that succeed,
  fail or come late. Path requests and discovery are the sync going on or failing.
- `observe` and `merge`, which production code never calls (`merge` is an operator with its theorem).
- The Python and C++ implementations. The C++ store writes a wear-levelled device and would need
  a module of its own.

What could follow: `Intake` beside an issuing command; how far verdicts depend on
order and depth when admins other than the anchors deny `admin`.
