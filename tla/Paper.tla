-------------------------------- MODULE Paper ---------------------------------
(***************************************************************************)
(* Deltas on paper: `dacar paper export` packs deltas of the outbox and the *)
(* sent box into batches that fit a paper message each, prints them and a   *)
(* manifest of what was exported; `dacar paper import`, on the node they    *)
(* were encrypted to, takes sheets in any order, some of them, some again,  *)
(* applies the deltas that verify, and tells from the manifest whether all  *)
(* of them did.                                                             *)
(*                                                                         *)
(* A delta is a model value with a size; a sheet is the batch printed on it.*)
(***************************************************************************)
EXTENDS Naturals, SequencesExt

CONSTANTS Delta,        \* signed deltas
          Size,         \* their sizes
          Header,       \* what the envelope of a batch adds
          Budget,       \* PAPER_CONTENT_BUDGET: what packing aims at
          Mdu,          \* PAPER_MDU: what a paper message may hold
          Overheads,    \* what encryption and framing may add
          Boxes,        \* what the outbox and the sent box may hold
          Routed,       \* whether the import's delivery was given its router:
                        \* test/cli-lxmf.test.js does, cmdPaperImport does not
          MaxImports    \* bound: imports started

ASSUME PaperAssumption ==
    /\ Size \in [Delta -> Nat]
    /\ Header \in Nat /\ Budget \in Nat /\ Mdu \in Nat /\ Overheads \subseteq Nat
    /\ Boxes \subseteq Seq(Delta)
    /\ Routed \in BOOLEAN /\ MaxImports \in Nat

VARIABLES outbox, sent, \* the exporter's boxes
          ex,           \* the step the export is about to take
          over,         \* what encryption adds for this recipient
          chosen,       \* the deltas it exports
          todo,         \* those not yet packed
          current,      \* the chunk being filled
          chunks,       \* the chunks not yet made into paper messages
          uris,         \* the paper messages made
          sheets,       \* the paper messages that were printed
          manifest,     \* the digests of the manifest, {} when there is none
          disk,         \* the deltas the importer's stored state contains
          im,           \* the step the import is about to take
          known,        \* the deltas that verify at it and are not too old
          mem,          \* the state it works on
          scanned,      \* the sheets it has read
          handlers,     \* the rest of each batch being handled
          applied,      \* the deltas it applied
          verdict,      \* what it said of the manifest
          imports       \* how many imports were started

packing == <<over, chosen, todo, current, chunks, uris>>
exporting == <<outbox, sent, ex, packing, sheets, manifest>>
importing == <<disk, im, known, mem, scanned, handlers, applied, verdict, imports>>
vars == <<exporting, importing>>

Chunk == Seq(Delta)
Verdict == {"none", "complete", "missing"}

TypeOK ==
    /\ outbox \in Boxes /\ sent \in Boxes
    /\ ex \in {"idle", "pack", "build", "print"}
    /\ over \in Overheads \cup {0}
    /\ {chosen, todo, current} \subseteq Chunk
    /\ {chunks, uris} \subseteq Seq(Chunk)
    /\ \A k \in DOMAIN chunks : chunks[k] # <<>>
    /\ sheets \subseteq Chunk \ {<<>>}
    /\ manifest \subseteq Delta
    /\ im \in {"idle", "scan", "save", "check"}
    /\ {disk, known, mem, applied} \subseteq SUBSET Delta
    /\ scanned \subseteq sheets
    /\ \A h \in handlers : h \in Chunk /\ h # <<>>
    /\ verdict \in Verdict /\ imports \in 0 .. MaxImports

Init ==
    /\ outbox \in Boxes /\ sent \in Boxes
    /\ ex = "idle" /\ over = 0
    /\ chosen = <<>> /\ todo = <<>> /\ current = <<>> /\ chunks = <<>> /\ uris = <<>>
    /\ sheets = {} /\ manifest = {}
    /\ disk = {} /\ im = "idle" /\ known = {} /\ mem = {}
    /\ scanned = {} /\ handlers = {} /\ applied = {} /\ verdict = "none"
    /\ imports = 0

------------------------------------------------------------------------------
(* encodeBatch, makeBatchMessage and toPaperUri, by the sizes they give. *)
Cost(chunk) == FoldLeft(LAMBDA n, d : n + Size[d], Header, chunk)
Printable(chunk) == Cost(chunk) + over <= Mdu

(* The payloads of s without repetitions, each where it first occurs: a set *)
(* of one sequence.                                                         *)
FirstAt(s, d) == CHOOSE k \in DOMAIN s : s[k] = d /\ \A j \in 1 .. k - 1 : s[j] # d
Dedup(s) == {t \in SetToSeqs(ToSet(s)) :
                \A i, j \in DOMAIN t : i < j => FirstAt(s, t[i]) < FirstAt(s, t[j])}
Newest == LET box == IF outbox # <<>> THEN outbox ELSE sent
          IN IF box = <<>> THEN <<>> ELSE <<Last(box)>>

(* paperSourcePayloads: --all, --outbox, --sent, or the newest delta. *)
Sources == (Dedup(outbox \o sent) \cup Dedup(outbox) \cup Dedup(sent) \cup {Newest})
              \ {<<>>}

(* The deltas s are selected, by one of the options. *)
Select(s, o) ==
    /\ chosen' = s /\ over' = o
    /\ IF Len(s) > 1
         THEN ex' = "pack" /\ todo' = s /\ UNCHANGED uris
         ELSE /\ Size[s[1]] + o <= Mdu      \* one delta is no batch
              /\ ex' = "print" /\ uris' = <<s>> /\ UNCHANGED todo

ExportStart(o) ==
    /\ ex = "idle" /\ manifest = {} /\ sheets = {}
    /\ \E s \in Sources : Select(s, o)
    /\ UNCHANGED <<outbox, sent, current, chunks, sheets, manifest, importing>>

(* Wrong: the chunk is measured before the payload is added. *)
OverflowsLate == current # <<>> /\ Cost(current) > Budget

(* Wrong: the payload is measured in an envelope of its own. *)
OverflowsEarly ==
    current # <<>> /\ Cost(current) + Cost(<<Head(todo)>>) > Budget

(* packChunks: whether the next payload needs a chunk of its own. *)
Overflows == current # <<>> /\ Cost(Append(current, Head(todo))) > Budget

PackNext ==
    /\ ex = "pack" /\ todo # <<>>
    /\ todo' = Tail(todo)
    /\ IF Overflows
         THEN chunks' = Append(chunks, current) /\ current' = <<Head(todo)>>
         ELSE current' = Append(current, Head(todo)) /\ UNCHANGED chunks
    /\ UNCHANGED <<outbox, sent, ex, over, chosen, uris, sheets, manifest, importing>>

(* Wrong: the chunk still being filled is left out. *)
PackEndEarly ==
    /\ ex = "pack" /\ todo = <<>>
    /\ ex' = "build" /\ current' = <<>>
    /\ UNCHANGED <<outbox, sent, over, chosen, todo, chunks, uris, sheets,
                   manifest, importing>>

PackEnd ==
    /\ ex = "pack" /\ todo = <<>>
    /\ ex' = "build"
    /\ chunks' = Append(chunks, current) /\ current' = <<>>
    /\ UNCHANGED <<outbox, sent, over, chosen, todo, uris, sheets, manifest, importing>>

------------------------------------------------------------------------------
(* packPaperUris: a chunk that fits becomes a message, ... *)
BuildFits ==
    /\ ex = "build" /\ chunks # <<>> /\ Printable(Head(chunks))
    /\ uris' = Append(uris, Head(chunks))
    /\ chunks' = Tail(chunks)
    /\ UNCHANGED <<outbox, sent, ex, over, chosen, todo, current, sheets,
                   manifest, importing>>

(* Wrong: the second half starts one payload late. *)
HalvesGap(c) == LET mid == Len(c) \div 2
                IN <<SubSeq(c, 1, mid), SubSeq(c, mid + 2, Len(c))>>

Halves(c) == LET mid == Len(c) \div 2
             IN <<SubSeq(c, 1, mid), SubSeq(c, mid + 1, Len(c))>>

(* ... one that does not is halved, ... *)
BuildHalves ==
    /\ ex = "build" /\ chunks # <<>> /\ ~ Printable(Head(chunks))
    /\ Len(Head(chunks)) > 1
    /\ chunks' = Halves(Head(chunks)) \o Tail(chunks)
    /\ UNCHANGED <<outbox, sent, ex, over, chosen, todo, current, uris, sheets,
                   manifest, importing>>

NoJob == /\ over' = 0 /\ chosen' = <<>> /\ todo' = <<>>
         /\ current' = <<>> /\ chunks' = <<>> /\ uris' = <<>>

(* ... and when a single payload does not fit, the command fails, before it  *)
(* has printed anything.                                                     *)
BuildFails ==
    /\ ex = "build" /\ chunks # <<>> /\ ~ Printable(Head(chunks))
    /\ Len(Head(chunks)) = 1
    /\ ex' = "idle" /\ NoJob
    /\ UNCHANGED <<outbox, sent, sheets, manifest, importing>>

BuildEnd ==
    /\ ex = "build" /\ chunks = <<>>
    /\ ex' = "print"
    /\ UNCHANGED <<outbox, sent, packing, sheets, manifest, importing>>

PrintSheet ==
    /\ ex = "print"
    /\ \E k \in DOMAIN uris :
         /\ uris[k] \notin sheets
         /\ \A j \in 1 .. k - 1 : uris[j] \in sheets
         /\ sheets' = sheets \cup {uris[k]}
    /\ UNCHANGED <<outbox, sent, ex, packing, manifest, importing>>

(* The manifest is written when every sheet is. *)
PrintManifest ==
    /\ ex = "print" /\ ToSet(uris) \subseteq sheets
    /\ manifest' = ToSet(chosen)
    /\ ex' = "idle" /\ NoJob
    /\ UNCHANGED <<outbox, sent, sheets, importing>>

------------------------------------------------------------------------------
(* cmdPaperImport reads the URIs it is given and loads the state.  Which     *)
(* deltas verify depends on the keys and the clock of the importing node.    *)
ImportStart(K) ==
    /\ im = "idle" /\ sheets # {} /\ imports < MaxImports
    /\ imports' = imports + 1
    /\ im' = "scan" /\ mem' = disk /\ known' = K
    /\ scanned' = {} /\ applied' = {} /\ verdict' = "none"
    /\ UNCHANGED <<exporting, disk, handlers>>

(* ingestPaperUri: the router decrypts the sheet, and the listener starts on *)
(* the batch; without a router it throws, which the import takes for an      *)
(* invalid URI.  A sheet read twice in one import is known to the router.    *)
Scan(sheet) ==
    /\ im = "scan" /\ sheet \notin scanned
    /\ scanned' = scanned \cup {sheet}
    /\ handlers' = IF Routed THEN handlers \cup {sheet} ELSE handlers
    /\ UNCHANGED <<exporting, disk, im, known, mem, applied, verdict, imports>>

(* Wrong: what does not verify is recorded as applied, too. *)
AppliedNowAny(d) == {d}

AppliedNow(d) == {d} \cap known

(* Wrong: a batch that was handled stays in flight. *)
RestAlways(h) == {Tail(h)}

(* What is left of a batch after its first payload. *)
Rest(h) == {Tail(h)} \ {<<>>}

(* handleMessage, applyPayload: one payload of a batch. *)
Handle(h) ==
    /\ im # "idle"
    /\ mem' = mem \cup ({Head(h)} \cap known)
    /\ applied' = applied \cup AppliedNow(Head(h))
    /\ handlers' = (handlers \ {h}) \cup Rest(h)
    /\ UNCHANGED <<exporting, disk, im, known, scanned, verdict, imports>>

(* Wrong: the batches still being handled are not waited for. *)
ScanEndAtOnce ==
    /\ im = "scan" /\ im' = "save"
    /\ UNCHANGED <<exporting, disk, known, mem, scanned, handlers, applied,
                   verdict, imports>>

ScanEnd ==
    /\ im = "scan" /\ handlers = {}
    /\ im' = "save"
    /\ UNCHANGED <<exporting, disk, known, mem, scanned, handlers, applied,
                   verdict, imports>>

ImportSave ==
    /\ im = "save"
    /\ disk' = IF applied # {} THEN mem ELSE disk
    /\ im' = "check"
    /\ UNCHANGED <<exporting, known, mem, scanned, handlers, applied, verdict, imports>>

(* The digests of the manifest that this import did not apply. *)
Missing == manifest \ applied

(* With --manifest, the import says whether all deltas were applied. *)
ImportCheck ==
    /\ im = "check" /\ verdict = "none" /\ manifest # {}
    /\ verdict' = IF Missing = {} THEN "complete" ELSE "missing"
    /\ UNCHANGED <<exporting, disk, im, known, mem, scanned, handlers, applied, imports>>

(* The import ends, or is killed. *)
ImportStop ==
    /\ im # "idle"
    /\ im' = "idle"
    /\ mem' = {} /\ known' = {} /\ scanned' = {} /\ handlers' = {} /\ applied' = {}
    /\ verdict' = "none"
    /\ UNCHANGED <<exporting, disk, imports>>

Next ==
    \/ \E o \in Overheads : ExportStart(o)
    \/ PackNext \/ PackEnd
    \/ BuildFits \/ BuildHalves \/ BuildFails \/ BuildEnd
    \/ PrintSheet \/ PrintManifest
    \/ \E K \in SUBSET Delta : ImportStart(K)
    \/ \E s \in sheets : Scan(s)
    \/ \E h \in handlers : Handle(h)
    \/ ScanEnd \/ ImportSave \/ ImportCheck \/ ImportStop

Spec == Init /\ [][Next]_vars

------------------------------------------------------------------------------
(* lxmfSync.js packChunks, packPaperUris: packing and halving keep the       *)
(* deltas in order, lose none and repeat none.                               *)
PackingKeepsOrder ==
    FlattenSeq(uris) \o FlattenSeq(chunks) \o current \o todo = chosen

(* lxmfSync.js packChunks: the chunks fit the budget, but for payloads that   *)
(* do not fit it alone, and no in-order split into fewer chunks does; cuts   *)
(* are the places such a split is made at.                                   *)
Parts(s, cuts) ==
    {SubSeq(s, p[1] + 1, p[2]) : p \in
        {p \in (cuts \cup {0}) \X (cuts \cup {Len(s)}) :
            p[1] < p[2] /\ \A k \in cuts : ~ (p[1] < k /\ k < p[2])}}
WithinBudget(chunk) == Len(chunk) = 1 \/ Cost(chunk) <= Budget
PacksLeast ==
    (ex = "pack" /\ todo = <<>>) =>
        /\ \A k \in DOMAIN chunks : WithinBudget(chunks[k])
        /\ WithinBudget(current)
        /\ \A cuts \in SUBSET (1 .. Len(chosen) - 1) :
             (\A part \in Parts(chosen, cuts) : WithinBudget(part))
                 => Len(chunks) <= Cardinality(cuts)

(* lxmfSync.js packPaperUris, dacar.js cmdPaperExport: every sheet of an     *)
(* export that got as far as its manifest bears deltas of the manifest, and  *)
(* every delta of the manifest is on a sheet.                                *)
ManifestIsPrinted ==
    manifest # {} => manifest = UNION {ToSet(s) : s \in sheets}

(* dacar.js cmdPaperImport: when it says that all exported deltas were       *)
(* applied, they are in the stored state.                                    *)
CompleteMeansApplied == verdict = "complete" => manifest \subseteq disk

(* dacar.js cmdPaperImport: what was scanned and verifies is in the stored   *)
(* state when the import reports, whatever else was on the sheets, in        *)
(* whatever order they came; so an import of all sheets is not told that a   *)
(* delta is missing that it could verify.                                    *)
ScannedArrives ==
    im = "check" =>
        LET read == known \cap UNION {ToSet(s) : s \in scanned}
        IN /\ read \subseteq disk
           /\ verdict = "missing" => ~ (manifest \subseteq read)
==============================================================================
