----------------------------- MODULE PaperProofs ------------------------------
(***************************************************************************)
(* Proofs about Paper: for any deltas and sizes, any selection, and sheets  *)
(* read in any order, the sheets of an export bear what its manifest says,  *)
(* and what an import reports is true.                                      *)
(***************************************************************************)
EXTENDS Paper, SequenceTheorems, FiniteSetTheorems, TLAPS

(* The deltas on the members of a sequence of batches. *)
Content(ss) == UNION {ToSet(ss[k]) : k \in DOMAIN ss}

(* Each phase of the export has used up what the one before it worked on.    *)
PhasesInOrder ==
    /\ ex = "idle" => over = 0
    /\ ex # "pack" => current = <<>> /\ todo = <<>>
    /\ ex = "pack" => todo # <<>> \/ current # <<>>
    /\ ex \in {"idle", "print"} => chunks = <<>>
    /\ ex \in {"idle", "pack"} => uris = <<>>
    /\ \A k \in DOMAIN uris : uris[k] # <<>>
    /\ ex \in {"pack", "build"} => sheets = {}
    /\ ex = "print" => sheets \subseteq ToSet(uris)
    /\ manifest # {} => ex = "idle"

(* Every chosen delta is somewhere, and nothing else is. *)
NothingAstray ==
    ToSet(chosen) = Content(uris) \cup Content(chunks) \cup ToSet(current) \cup ToSet(todo)

(* What was scanned and verifies is applied, or its batch is being handled,  *)
(* and what is applied ends up in the state.                                *)
ImportInOrder ==
    /\ im \notin {"scan"} => handlers = {}
    /\ im # "idle" => disk \subseteq mem /\ applied \subseteq mem
    /\ im = "check" => applied \subseteq disk
    /\ Routed /\ im # "idle" =>
          known \cap UNION {ToSet(s) : s \in scanned}
             \subseteq applied \cup UNION {ToSet(h) : h \in handlers}
    /\ verdict # "none" =>
          /\ im = "check" /\ manifest # {}
          /\ verdict = "complete" <=> manifest \subseteq applied

IInv == TypeOK /\ PhasesInOrder /\ NothingAstray /\ ManifestIsPrinted /\ ImportInOrder

------------------------------------------------------------------------------
LEMMA HeadAndTail ==
    ASSUME NEW S, NEW s \in Seq(S), s # <<>>
    PROVE  /\ Head(s) \in S /\ Tail(s) \in Seq(S)
           /\ \A x : (\E k \in DOMAIN s : s[k] = x)
                        <=> x = Head(s) \/ \E k \in DOMAIN Tail(s) : Tail(s)[k] = x
<1>1. /\ Head(s) \in S /\ Tail(s) \in Seq(S) /\ Head(s) = s[1]
      /\ Len(s) \in Nat \ {0} /\ Len(Tail(s)) = Len(s) - 1
      /\ \A k \in 1 .. Len(Tail(s)) : Tail(s)[k] = s[k + 1]
  BY HeadTailProperties
<1>2. ASSUME NEW k \in DOMAIN s, k # 1
      PROVE  k - 1 \in DOMAIN Tail(s) /\ Tail(s)[k - 1] = s[k]
  BY <1>1, <1>2
<1>3. \A k \in DOMAIN Tail(s) : k + 1 \in DOMAIN s /\ s[k + 1] = Tail(s)[k]
  BY <1>1
<1>4. 1 \in DOMAIN s
  BY <1>1
<1> QED
  BY <1>1, <1>2, <1>3, <1>4

LEMMA ChunkHead ==
    ASSUME NEW S, NEW s \in Seq(S), s # <<>>
    PROVE  Head(s) \in S /\ Tail(s) \in Seq(S) /\ ToSet(s) = {Head(s)} \cup ToSet(Tail(s))
<1>1. /\ Head(s) \in S /\ Tail(s) \in Seq(S)
      /\ \A x : (\E k \in DOMAIN s : s[k] = x)
                   <=> x = Head(s) \/ \E k \in DOMAIN Tail(s) : Tail(s)[k] = x
  BY HeadAndTail
<1> QED
  BY <1>1 DEF ToSet

LEMMA ContentHead ==
    ASSUME NEW ss \in Seq(Chunk), ss # <<>>
    PROVE  /\ Head(ss) \in Chunk /\ Tail(ss) \in Seq(Chunk)
           /\ Content(ss) = ToSet(Head(ss)) \cup Content(Tail(ss))
           /\ (\A k \in DOMAIN ss : ss[k] # <<>>) =>
                 Head(ss) # <<>> /\ \A k \in DOMAIN Tail(ss) : Tail(ss)[k] # <<>>
<1>1. /\ Head(ss) \in Chunk /\ Tail(ss) \in Seq(Chunk)
      /\ \A x : (\E k \in DOMAIN ss : ss[k] = x)
                   <=> x = Head(ss) \/ \E k \in DOMAIN Tail(ss) : Tail(ss)[k] = x
  BY HeadAndTail
<1>2. \A d : (\E k \in DOMAIN ss : d \in ToSet(ss[k]))
                <=> d \in ToSet(Head(ss)) \/ \E k \in DOMAIN Tail(ss) : d \in ToSet(Tail(ss)[k])
  BY <1>1
<1>3. Content(ss) = ToSet(Head(ss)) \cup Content(Tail(ss))
  BY <1>2 DEF Content
<1> QED
  BY <1>1, <1>3

LEMMA AppendFacts ==
    ASSUME NEW S, NEW s \in Seq(S), NEW x \in S, NEW t, t = Append(s, x)
    PROVE  /\ t \in Seq(S) /\ t # <<>>
           /\ \A y : (\E k \in DOMAIN t : t[k] = y)
                        <=> y = x \/ \E k \in DOMAIN s : s[k] = y
<1> DEFINE n == Len(s) + 1
<1>1. /\ t \in Seq(S) /\ Len(t) = n /\ t[n] = x /\ Len(s) \in Nat
      /\ \A k \in 1 .. Len(s) : t[k] = s[k]
      /\ DOMAIN t = 1 .. n /\ DOMAIN s = 1 .. Len(s)
  OBVIOUS
<1>2. t # <<>>
  BY <1>1
<1>3. \A k \in DOMAIN t : k = n \/ k \in DOMAIN s
  BY <1>1
<1>4. n \in DOMAIN t /\ \A k \in DOMAIN s : k \in DOMAIN t /\ t[k] = s[k]
  BY <1>1
<1> HIDE DEF n
<1>5. \A y : (\E k \in DOMAIN t : t[k] = y) <=> y = x \/ \E k \in DOMAIN s : s[k] = y
  BY <1>1, <1>3, <1>4
<1> QED
  BY <1>1, <1>2, <1>5

LEMMA AppendToChunk ==
    ASSUME NEW S, NEW s \in Seq(S), NEW x \in S
    PROVE  /\ Append(s, x) \in Seq(S) /\ Append(s, x) # <<>>
           /\ ToSet(Append(s, x)) = ToSet(s) \cup {x}
<1> DEFINE t == Append(s, x)
<1>1. t \in Seq(S) /\ t # <<>>
  OBVIOUS
<1>2. \A y : (\E k \in DOMAIN t : t[k] = y) <=> y = x \/ \E k \in DOMAIN s : s[k] = y
  <2>1. t = Append(s, x)
    OBVIOUS
  <2> HIDE DEF t
  <2> QED
    BY <2>1, AppendFacts
<1> HIDE DEF t
<1>3. ToSet(t) = ToSet(s) \cup {x}
  BY <1>2 DEF ToSet
<1> QED
  BY <1>1, <1>3 DEF t

LEMMA AppendChunk ==
    ASSUME NEW ss \in Seq(Chunk), NEW c \in Chunk \ {<<>>},
           \A k \in DOMAIN ss : ss[k] # <<>>
    PROVE  /\ Append(ss, c) \in Seq(Chunk)
           /\ Content(Append(ss, c)) = Content(ss) \cup ToSet(c)
           /\ \A k \in DOMAIN Append(ss, c) : Append(ss, c)[k] # <<>>
<1> DEFINE tt == Append(ss, c)
<1>1. c \in Chunk /\ c # <<>>
  OBVIOUS
<1>2. tt = Append(ss, c)
  OBVIOUS
<1> HIDE DEF tt
<1>3. /\ tt \in Seq(Chunk)
      /\ \A y : (\E k \in DOMAIN tt : tt[k] = y) <=> y = c \/ \E k \in DOMAIN ss : ss[k] = y
  BY <1>1, <1>2, AppendFacts
<1>4. \A d : (\E k \in DOMAIN tt : d \in ToSet(tt[k]))
                <=> d \in ToSet(c) \/ \E k \in DOMAIN ss : d \in ToSet(ss[k])
  BY <1>3
<1>5. Content(tt) = Content(ss) \cup ToSet(c)
  BY <1>4 DEF Content
<1>6. \A k \in DOMAIN tt : tt[k] # <<>>
  BY <1>1, <1>3
<1> QED
  BY <1>3, <1>5, <1>6 DEF tt

LEMMA EmptyHasNone == ToSet(<<>>) = {} /\ Content(<<>>) = {}
<1>1. DOMAIN <<>> = {}
  OBVIOUS
<1> QED
  BY <1>1 DEF ToSet, Content

LEMMA OneChunk ==
    ASSUME NEW S, NEW x \in S
    PROVE  <<x>> \in Seq(S) /\ <<x>> # <<>> /\ ToSet(<<x>>) = {x}
<1>1. DOMAIN <<x>> = {1} /\ <<x>>[1] = x /\ <<x>> \in Seq(S)
  OBVIOUS
<1> QED
  BY <1>1 DEF ToSet

LEMMA OneBatch ==
    ASSUME NEW c \in Chunk
    PROVE  <<c>> \in Seq(Chunk) /\ Content(<<c>>) = ToSet(c) /\ (\A k \in DOMAIN <<c>> : <<c>>[k] = c)
<1>1. DOMAIN <<c>> = {1} /\ <<c>>[1] = c /\ <<c>> \in Seq(Chunk)
  OBVIOUS
<1> QED
  BY <1>1 DEF Content

(* lxmfSync.js packPaperUris: the halves of a chunk of several are chunks,   *)
(* and bear what it bore.                                                    *)
LEMMA HalvesFacts ==
    ASSUME NEW c \in Chunk, Len(c) > 1
    PROVE  \E a, b \in Chunk \ {<<>>} :
              Halves(c) = <<a, b>> /\ ToSet(c) = ToSet(a) \cup ToSet(b)
<1> DEFINE n == Len(c)
           mid == n \div 2
           a == SubSeq(c, 1, mid)
           b == SubSeq(c, mid + 1, n)
<1>1. n \in Nat /\ n > 1 /\ DOMAIN c = 1 .. n /\ \A k \in 1 .. n : c[k] \in Delta
  BY DEF Chunk
<1>2. mid \in Nat /\ 1 <= mid /\ mid < n
  BY <1>1
<1> HIDE DEF n, mid
<1>3. /\ a \in Seq(Delta) /\ Len(a) = mid
      /\ \A k \in 1 .. mid : a[k] = c[k]
  <2>1. \A k \in 1 .. mid : c[k] \in Delta
    BY <1>1, <1>2
  <2>2. /\ SubSeq(c, 1, mid) \in Seq(Delta)
        /\ Len(SubSeq(c, 1, mid)) = IF 1 <= mid THEN mid - 1 + 1 ELSE 0
        /\ \A k \in 1 .. mid - 1 + 1 : SubSeq(c, 1, mid)[k] = c[1 + k - 1]
    BY <1>2, <2>1, SubSeqProperties
  <2> QED
    BY <1>2, <2>2
<1>4. /\ b \in Seq(Delta) /\ Len(b) = n - mid
      /\ \A k \in 1 .. n - mid : b[k] = c[mid + k]
  <2>1. \A k \in mid + 1 .. n : c[k] \in Delta
    BY <1>1, <1>2
  <2>2. /\ SubSeq(c, mid + 1, n) \in Seq(Delta)
        /\ Len(SubSeq(c, mid + 1, n)) = IF mid + 1 <= n THEN n - (mid + 1) + 1 ELSE 0
        /\ \A k \in 1 .. n - (mid + 1) + 1 : SubSeq(c, mid + 1, n)[k] = c[mid + 1 + k - 1]
    BY <1>1, <1>2, <2>1, SubSeqProperties
  <2> QED
    BY <1>1, <1>2, <2>2
<1>5. Halves(c) = <<a, b>>
  BY DEF Halves, n, mid
<1> HIDE DEF a, b
<1>6. a # <<>> /\ b # <<>> /\ DOMAIN a = 1 .. mid /\ DOMAIN b = 1 .. n - mid
  BY <1>1, <1>2, <1>3, <1>4
<1>7. \A d : (\E k \in 1 .. n : c[k] = d)
              <=> (\E k \in 1 .. mid : a[k] = d) \/ (\E k \in 1 .. n - mid : b[k] = d)
  <2>1. \A k \in 1 .. mid : k \in 1 .. n /\ a[k] = c[k]
    BY <1>1, <1>2, <1>3
  <2>2. \A k \in 1 .. n - mid : mid + k \in 1 .. n /\ b[k] = c[mid + k]
    BY <1>1, <1>2, <1>4
  <2>3. \A k \in 1 .. n : k \in 1 .. mid \/ (k - mid \in 1 .. n - mid /\ mid + (k - mid) = k)
    BY <1>1, <1>2
  <2> QED
    BY <2>1, <2>2, <2>3
<1>8. ToSet(c) = ToSet(a) \cup ToSet(b)
  BY <1>1, <1>6, <1>7 DEF ToSet
<1> QED
  BY <1>3, <1>4, <1>5, <1>6, <1>8 DEF Chunk

(* The chunks after the first was halved. *)
LEMMA HalvedChunks ==
    ASSUME NEW ss \in Seq(Chunk), ss # <<>>, Len(Head(ss)) > 1,
           \A k \in DOMAIN ss : ss[k] # <<>>
    PROVE  LET tt == Halves(Head(ss)) \o Tail(ss)
           IN  /\ tt \in Seq(Chunk) /\ Content(tt) = Content(ss)
               /\ \A k \in DOMAIN tt : tt[k] # <<>>
<1>1. /\ Head(ss) \in Chunk /\ Tail(ss) \in Seq(Chunk)
      /\ Content(ss) = ToSet(Head(ss)) \cup Content(Tail(ss))
      /\ \A k \in DOMAIN Tail(ss) : Tail(ss)[k] # <<>>
  BY ContentHead
<1>2. PICK a \in Chunk \ {<<>>}, b \in Chunk \ {<<>>} :
         Halves(Head(ss)) = <<a, b>> /\ ToSet(Head(ss)) = ToSet(a) \cup ToSet(b)
  BY <1>1, HalvesFacts
<1> DEFINE t == Tail(ss)
           two == <<a, b>>
           tt == two \o t
<1>3. two \in Seq(Chunk) /\ Len(two) = 2 /\ two[1] = a /\ two[2] = b
  OBVIOUS
<1>4. t \in Seq(Chunk)
  BY <1>1
<1> HIDE DEF t, two
<1>5. /\ tt \in Seq(Chunk) /\ Len(tt) = 2 + Len(t) /\ Len(t) \in Nat
      /\ \A k \in 1 .. 2 + Len(t) : tt[k] = IF k <= 2 THEN two[k] ELSE t[k - 2]
  <2>1. /\ tt \in Seq(Chunk) /\ Len(tt) = Len(two) + Len(t)
        /\ \A i \in 1 .. Len(two) + Len(t) :
              tt[i] = IF i <= Len(two) THEN two[i] ELSE t[i - Len(two)]
    BY <1>3, <1>4, ConcatProperties
  <2> HIDE DEF tt
  <2> QED
    BY <1>3, <1>4, <2>1
<1> HIDE DEF tt
<1>6. DOMAIN tt = 1 .. 2 + Len(t) /\ DOMAIN t = 1 .. Len(t)
  BY <1>5, <1>4
<1>7. /\ 1 \in DOMAIN tt /\ 2 \in DOMAIN tt /\ tt[1] = a /\ tt[2] = b
      /\ \A k \in DOMAIN t : k + 2 \in DOMAIN tt /\ tt[k + 2] = t[k]
      /\ \A k \in DOMAIN tt : k # 1 /\ k # 2 => k - 2 \in DOMAIN t /\ tt[k] = t[k - 2]
  BY <1>3, <1>5, <1>6
<1>8. \A k \in DOMAIN tt : tt[k] # <<>>
  BY <1>1, <1>7 DEF t
<1>9. \A d : (\E k \in DOMAIN tt : d \in ToSet(tt[k]))
            <=> d \in ToSet(a) \/ d \in ToSet(b) \/ \E k \in DOMAIN t : d \in ToSet(t[k])
  BY <1>7
<1>10. Content(tt) = ToSet(a) \cup ToSet(b) \cup Content(t)
  BY <1>9 DEF Content
<1> QED
  BY <1>1, <1>2, <1>5, <1>8, <1>10 DEF t, two, tt

(* dacar.js paperSourcePayloads: what is selected is a sequence of deltas. *)
LEMMA DedupType ==
    ASSUME NEW s \in Chunk, NEW t \in Dedup(s)
    PROVE  t \in Chunk
<1> DEFINE S == ToSet(s)
           n == Cardinality(S)
<1>1. S \subseteq Delta
  BY DEF ToSet, Chunk
<1>2. IsFiniteSet(S) /\ n \in Nat
  <2>1. IsFiniteSet(1 .. Len(s)) /\ DOMAIN s = 1 .. Len(s)
    BY FS_Interval DEF Chunk
  <2>2. {s[i] : i \in 1 .. Len(s)} = S
    BY <2>1 DEF ToSet
  <2>3. s \in [1 .. Len(s) -> S]
    BY <2>1 DEF ToSet, Chunk
  <2>4. s \in Surjection(1 .. Len(s), S)
    BY <2>2, <2>3 DEF Surjection
  <2> QED
    BY <2>1, <2>4, FS_Surjection, FS_CardinalityType
<1>3. t \in [1 .. n -> S]
  BY DEF Dedup, SetToSeqs
<1> HIDE DEF S, n
<1> QED
  BY <1>1, <1>2, <1>3 DEF Chunk

LEMMA SourcesType ==
    ASSUME TypeOK, NEW s \in Sources
    PROVE  s \in Chunk /\ s # <<>>
<1>1. outbox \in Chunk /\ sent \in Chunk
  BY PaperAssumption DEF TypeOK, Chunk
<1>2. outbox \o sent \in Chunk
  BY <1>1 DEF Chunk
<1>3. Newest \in Chunk
  <2>1. ASSUME NEW box \in Chunk, box # <<>> PROVE <<Last(box)>> \in Chunk
    BY <2>1 DEF Chunk, Last
  <2>2. <<>> \in Chunk
    BY DEF Chunk
  <2> QED
    BY <1>1, <2>1, <2>2 DEF Newest
<1> QED
  BY <1>1, <1>2, <1>3, DedupType DEF Sources

------------------------------------------------------------------------------
LEMMA InitIInv == Init => IInv
<1> SUFFICES ASSUME Init PROVE IInv
  OBVIOUS
<1>1. <<>> \in Chunk /\ <<>> \in Seq(Chunk)
  BY DEF Chunk
<1>2. TypeOK
  BY <1>1, PaperAssumption DEF Init, TypeOK, Verdict
<1>3. PhasesInOrder
  BY DEF Init, PhasesInOrder
<1>4. NothingAstray
  BY EmptyHasNone DEF Init, NothingAstray
<1>5. ManifestIsPrinted /\ ImportInOrder
  BY DEF Init, ManifestIsPrinted, ImportInOrder
<1> QED
  BY <1>2, <1>3, <1>4, <1>5 DEF IInv

(* The steps of an import leave the export as it is. *)
LEMMA ExportKeeps ==
    ASSUME IInv, UNCHANGED exporting
    PROVE  PhasesInOrder' /\ NothingAstray' /\ ManifestIsPrinted'
BY DEF IInv, PhasesInOrder, NothingAstray, ManifestIsPrinted, exporting, packing, Content

(* The steps of an export leave an import as it is, and its verdict, which   *)
(* needs a manifest, true.                                                   *)
LEMMA ImportKeeps ==
    ASSUME IInv, UNCHANGED importing, manifest' = manifest \/ manifest = {}
    PROVE  ImportInOrder'
BY DEF IInv, ImportInOrder, importing

(* dacar.js cmdPaperExport *)
LEMMA ExportStartKeeps ==
    ASSUME IInv, NEW o \in Overheads, ExportStart(o)
    PROVE  IInv'
<1>1. PICK s \in Sources : Select(s, o)
  BY DEF ExportStart
<1>2. s \in Chunk /\ s # <<>>
  BY SourcesType DEF IInv
<1>3. <<s>> \in Seq(Chunk) /\ Content(<<s>>) = ToSet(s) /\ \A k \in DOMAIN <<s>> : <<s>>[k] = s
  BY <1>2, OneBatch
<1>4. /\ chunks = <<>> /\ uris = <<>> /\ current = <<>> /\ todo = <<>>
      /\ sheets = {} /\ manifest = {}
  BY DEF IInv, PhasesInOrder, ExportStart
<1>5. TypeOK'
  BY <1>1, <1>2, <1>3 DEF IInv, TypeOK, ExportStart, Select, importing
<1>6. PhasesInOrder'
  BY <1>1, <1>2, <1>3, <1>4 DEF IInv, PhasesInOrder, ExportStart, Select
<1>7. NothingAstray'
  BY <1>1, <1>3, <1>4, EmptyHasNone DEF NothingAstray, ExportStart, Select
<1>8. ManifestIsPrinted'
  BY DEF IInv, ManifestIsPrinted, ExportStart
<1>9. ImportInOrder'
  BY ImportKeeps DEF ExportStart
<1> QED
  BY <1>5, <1>6, <1>7, <1>8, <1>9 DEF IInv

(* lxmfSync.js packChunks: the next payload *)
LEMMA PackNextKeeps ==
    ASSUME IInv, PackNext
    PROVE  IInv'
<1>1. /\ todo \in Seq(Delta) /\ todo # <<>> /\ current \in Seq(Delta)
      /\ chunks \in Seq(Chunk) /\ uris = <<>> /\ sheets = {} /\ manifest = {} /\ ex = "pack"
  BY DEF IInv, TypeOK, PhasesInOrder, PackNext, Chunk
<1>2. /\ Head(todo) \in Delta /\ Tail(todo) \in Seq(Delta)
      /\ ToSet(todo) = {Head(todo)} \cup ToSet(Tail(todo))
  BY <1>1, ChunkHead
<1>3. /\ Append(current, Head(todo)) \in Seq(Delta) /\ Append(current, Head(todo)) # <<>>
      /\ ToSet(Append(current, Head(todo))) = ToSet(current) \cup {Head(todo)}
  BY <1>1, <1>2, AppendToChunk
<1>4. /\ <<Head(todo)>> \in Seq(Delta) /\ <<Head(todo)>> # <<>>
      /\ ToSet(<<Head(todo)>>) = {Head(todo)}
  BY <1>2, OneChunk
<1>5. /\ \A k \in DOMAIN chunks : chunks[k] # <<>>
      /\ Overflows =>
           /\ Append(chunks, current) \in Seq(Chunk)
           /\ Content(Append(chunks, current)) = Content(chunks) \cup ToSet(current)
           /\ \A k \in DOMAIN Append(chunks, current) : Append(chunks, current)[k] # <<>>
  <2>1. \A k \in DOMAIN chunks : chunks[k] # <<>>
    BY DEF IInv, TypeOK
  <2>2. ASSUME Overflows PROVE current \in Chunk \ {<<>>}
    BY <1>1, <2>2 DEF Overflows, Chunk
  <2> QED
    BY <1>1, <2>1, <2>2, AppendChunk
<1> DEFINE h == Head(todo)
           t == Tail(todo)
           c == Append(current, h)
           cc == Append(chunks, current)
<1>6. /\ todo' = t
      /\ \/ Overflows /\ chunks' = cc /\ current' = <<h>>
         \/ current' = c /\ chunks' = chunks
      /\ UNCHANGED <<outbox, sent, ex, over, chosen, uris, sheets, manifest, importing>>
  BY DEF PackNext
<1> HIDE DEF h, t, c, cc
<1>7. TypeOK'
  BY <1>1, <1>2, <1>3, <1>4, <1>5, <1>6 DEF IInv, TypeOK, importing, Chunk, h, t, c, cc
<1>8. PhasesInOrder'
  BY <1>1, <1>3, <1>4, <1>6 DEF IInv, PhasesInOrder, h, t, c, cc
<1>9. NothingAstray'
  <2>1. CASE Overflows
    <3>1. /\ Content(chunks') = Content(chunks) \cup ToSet(current)
          /\ ToSet(current') = {h} /\ ToSet(todo) = {h} \cup ToSet(todo')
      BY <1>2, <1>4, <1>5, <1>6, <2>1 DEF PackNext, h, t, c, cc
    <3> QED
      BY <1>6, <3>1 DEF IInv, NothingAstray
  <2>2. CASE ~ Overflows
    <3>1. /\ ToSet(current') = ToSet(current) \cup {h} /\ ToSet(todo) = {h} \cup ToSet(todo')
          /\ chunks' = chunks
      BY <1>2, <1>3, <1>6, <2>2 DEF h, t, c
    <3> QED
      BY <1>6, <3>1 DEF IInv, NothingAstray
  <2> QED
    BY <2>1, <2>2
<1>10. ManifestIsPrinted'
  BY <1>6 DEF IInv, ManifestIsPrinted
<1>11. ImportInOrder'
  BY <1>6, ImportKeeps
<1> QED
  BY <1>7, <1>8, <1>9, <1>10, <1>11 DEF IInv

(* lxmfSync.js packChunks: the last chunk *)
LEMMA PackEndKeeps ==
    ASSUME IInv, PackEnd
    PROVE  IInv'
<1>1. /\ current \in Chunk \ {<<>>} /\ chunks \in Seq(Chunk) /\ todo = <<>>
      /\ sheets = {} /\ manifest = {} /\ \A k \in DOMAIN chunks : chunks[k] # <<>>
  BY DEF IInv, TypeOK, PhasesInOrder, PackEnd
<1>2. /\ Append(chunks, current) \in Seq(Chunk)
      /\ Content(Append(chunks, current)) = Content(chunks) \cup ToSet(current)
      /\ \A k \in DOMAIN Append(chunks, current) : Append(chunks, current)[k] # <<>>
  BY <1>1, AppendChunk
<1>3. /\ ex' = "build" /\ chunks' = Append(chunks, current) /\ current' = <<>>
      /\ UNCHANGED <<outbox, sent, over, chosen, todo, uris, sheets, manifest, importing>>
  BY DEF PackEnd
<1>4. TypeOK'
  <2>1. <<>> \in Chunk
    BY DEF Chunk
  <2> QED
    BY <1>2, <1>3, <2>1 DEF IInv, TypeOK, importing
<1>5. PhasesInOrder'
  BY <1>1, <1>3 DEF IInv, PhasesInOrder
<1>6. NothingAstray'
  BY <1>2, <1>3, <1>1, EmptyHasNone DEF IInv, NothingAstray
<1>7. ManifestIsPrinted'
  BY <1>3 DEF IInv, ManifestIsPrinted
<1>8. ImportInOrder'
  BY <1>3, ImportKeeps
<1> QED
  BY <1>4, <1>5, <1>6, <1>7, <1>8 DEF IInv

(* lxmfSync.js packPaperUris: a chunk becomes a paper message. *)
LEMMA BuildFitsKeeps ==
    ASSUME IInv, BuildFits
    PROVE  IInv'
<1>1. /\ chunks \in Seq(Chunk) /\ chunks # <<>> /\ uris \in Seq(Chunk)
      /\ \A k \in DOMAIN chunks : chunks[k] # <<>>
      /\ \A k \in DOMAIN uris : uris[k] # <<>>
      /\ sheets = {} /\ manifest = {}
  BY DEF IInv, TypeOK, PhasesInOrder, BuildFits
<1>2. /\ Head(chunks) \in Chunk /\ Tail(chunks) \in Seq(Chunk)
      /\ Content(chunks) = ToSet(Head(chunks)) \cup Content(Tail(chunks))
      /\ Head(chunks) # <<>> /\ \A k \in DOMAIN Tail(chunks) : Tail(chunks)[k] # <<>>
  BY <1>1, ContentHead
<1> DEFINE c == Head(chunks)
           cc == Tail(chunks)
           uu == Append(uris, c)
<1>3. c \in Chunk \ {<<>>}
  BY <1>2
<1> HIDE DEF c
<1>4. /\ uu \in Seq(Chunk) /\ Content(uu) = Content(uris) \cup ToSet(c)
      /\ \A k \in DOMAIN uu : uu[k] # <<>>
  BY <1>1, <1>3, AppendChunk
<1> HIDE DEF cc, uu
<1>5. /\ uris' = uu /\ chunks' = cc
      /\ UNCHANGED <<outbox, sent, ex, over, chosen, todo, current, sheets,
                     manifest, importing>>
  BY DEF BuildFits, c, cc, uu
<1>6. /\ cc \in Seq(Chunk) /\ Content(chunks) = ToSet(c) \cup Content(cc)
      /\ \A k \in DOMAIN cc : cc[k] # <<>>
  BY <1>2 DEF c, cc
<1>7. TypeOK'
  BY <1>4, <1>5, <1>6 DEF IInv, TypeOK, importing
<1>8. PhasesInOrder'
  BY <1>1, <1>4, <1>5 DEF IInv, PhasesInOrder, BuildFits
<1>9. NothingAstray'
  <2>1. Content(uris') \cup Content(chunks') = Content(uris) \cup Content(chunks)
    BY <1>4, <1>5, <1>6
  <2> QED
    BY <1>5, <2>1 DEF IInv, NothingAstray
<1>10. ManifestIsPrinted'
  BY <1>5 DEF IInv, ManifestIsPrinted
<1>11. ImportInOrder'
  BY <1>5, ImportKeeps
<1> QED
  BY <1>7, <1>8, <1>9, <1>10, <1>11 DEF IInv

(* lxmfSync.js packPaperUris: a chunk is halved. *)
LEMMA BuildHalvesKeeps ==
    ASSUME IInv, BuildHalves
    PROVE  IInv'
<1> DEFINE tt == Halves(Head(chunks)) \o Tail(chunks)
<1>1. tt \in Seq(Chunk) /\ Content(tt) = Content(chunks) /\ \A k \in DOMAIN tt : tt[k] # <<>>
  BY HalvedChunks DEF IInv, TypeOK, BuildHalves
<1>2. /\ chunks' = tt /\ ex = "build"
      /\ UNCHANGED <<outbox, sent, ex, over, chosen, todo, current, uris, sheets,
                     manifest, importing>>
  BY DEF BuildHalves
<1> HIDE DEF tt
<1>3. TypeOK'
  BY <1>1, <1>2 DEF IInv, TypeOK, importing
<1>4. PhasesInOrder'
  BY <1>2 DEF IInv, PhasesInOrder
<1>5. NothingAstray'
  <2>1. Content(chunks') = Content(chunks)
    BY <1>1, <1>2
  <2>2. Content(uris)' = Content(uris)
    BY <1>2 DEF Content
  <2> QED
    BY <1>2, <2>1, <2>2 DEF IInv, NothingAstray
<1>6. ManifestIsPrinted'
  BY <1>2 DEF IInv, ManifestIsPrinted
<1>7. ImportInOrder'
  BY <1>2, ImportKeeps
<1> QED
  BY <1>3, <1>4, <1>5, <1>6, <1>7 DEF IInv

(* dacar.js cmdPaperExport: the job is over, done or not. *)
LEMMA NoJobIsTidy ==
    ASSUME TypeOK, NoJob, ex' = "idle", UNCHANGED <<outbox, sent, sheets, importing>>,
           manifest' \subseteq Delta
    PROVE  TypeOK' /\ PhasesInOrder' /\ NothingAstray'
<1>1. <<>> \in Chunk /\ <<>> \in Seq(Chunk)
  BY DEF Chunk
<1>2. TypeOK'
  BY <1>1 DEF TypeOK, NoJob, importing
<1>3. PhasesInOrder'
  BY DEF PhasesInOrder, NoJob
<1>4. NothingAstray'
  BY EmptyHasNone DEF NothingAstray, NoJob
<1> QED
  BY <1>2, <1>3, <1>4

LEMMA BuildFailsKeeps ==
    ASSUME IInv, BuildFails
    PROVE  IInv'
<1>1. manifest \subseteq Delta /\ TypeOK
  BY DEF IInv, TypeOK
<1>2. TypeOK' /\ PhasesInOrder' /\ NothingAstray'
  BY <1>1, NoJobIsTidy DEF BuildFails
<1>3. ManifestIsPrinted' /\ ImportInOrder'
  BY ImportKeeps DEF BuildFails, IInv, ManifestIsPrinted
<1> QED
  BY <1>2, <1>3 DEF IInv

LEMMA BuildEndKeeps ==
    ASSUME IInv, BuildEnd
    PROVE  IInv'
<1>1. TypeOK'
  BY DEF IInv, TypeOK, BuildEnd, packing, importing
<1>2. PhasesInOrder'
  BY DEF IInv, PhasesInOrder, BuildEnd, packing
<1>3. NothingAstray'
  BY DEF IInv, NothingAstray, BuildEnd, packing, Content
<1>4. ManifestIsPrinted' /\ ImportInOrder'
  BY ImportKeeps DEF BuildEnd, IInv, ManifestIsPrinted
<1> QED
  BY <1>1, <1>2, <1>3, <1>4 DEF IInv

LEMMA PrintSheetKeeps ==
    ASSUME IInv, PrintSheet
    PROVE  IInv'
<1>1. PICK k \in DOMAIN uris : sheets' = sheets \cup {uris[k]}
  BY DEF PrintSheet
<1>2. uris[k] \in Chunk \ {<<>>} /\ uris[k] \in ToSet(uris)
  <2>1. uris \in Seq(Chunk)
    BY DEF IInv, TypeOK
  <2> QED
    BY <2>1 DEF IInv, PhasesInOrder, ToSet
<1>3. ex = "print" /\ manifest = {}
  BY DEF IInv, PhasesInOrder, PrintSheet
<1>4. TypeOK'
  BY <1>1, <1>2 DEF IInv, TypeOK, PrintSheet, packing, importing
<1>5. PhasesInOrder'
  BY <1>1, <1>2, <1>3 DEF IInv, PhasesInOrder, PrintSheet, packing, ToSet
<1>6. NothingAstray'
  BY DEF IInv, NothingAstray, PrintSheet, packing, Content
<1>7. ManifestIsPrinted' /\ ImportInOrder'
  BY <1>3, ImportKeeps DEF PrintSheet, ManifestIsPrinted
<1> QED
  BY <1>4, <1>5, <1>6, <1>7 DEF IInv

(* dacar.js cmdPaperExport: the manifest names what was printed. *)
LEMMA PrintManifestKeeps ==
    ASSUME IInv, PrintManifest
    PROVE  IInv'
<1>1. /\ ex = "print" /\ manifest = {} /\ chunks = <<>> /\ current = <<>> /\ todo = <<>>
      /\ sheets = ToSet(uris) /\ manifest' = ToSet(chosen)
  BY DEF IInv, PhasesInOrder, PrintManifest
<1>2. ToSet(chosen) = Content(uris)
  BY <1>1, EmptyHasNone DEF IInv, NothingAstray
<1>3. Content(uris) = UNION {ToSet(s) : s \in ToSet(uris)}
  BY DEF Content, ToSet
<1>4. ToSet(chosen) \subseteq Delta
  BY DEF IInv, TypeOK, Chunk, ToSet
<1>5. TypeOK' /\ PhasesInOrder' /\ NothingAstray'
  BY <1>1, <1>4, NoJobIsTidy DEF IInv, PrintManifest
<1>6. ManifestIsPrinted'
  BY <1>1, <1>2, <1>3 DEF ManifestIsPrinted, PrintManifest
<1>7. ImportInOrder'
  BY <1>1, ImportKeeps DEF PrintManifest
<1> QED
  BY <1>5, <1>6, <1>7 DEF IInv

------------------------------------------------------------------------------
(* dacar.js cmdPaperImport *)
LEMMA ImportStartKeeps ==
    ASSUME IInv, NEW K \in SUBSET Delta, ImportStart(K)
    PROVE  IInv'
<1>1. TypeOK'
  BY PaperAssumption DEF IInv, TypeOK, Verdict, ImportStart, exporting, packing
<1>2. ImportInOrder'
  BY DEF IInv, ImportInOrder, ImportStart, exporting
<1> QED
  BY <1>1, <1>2, ExportKeeps DEF IInv, ImportStart

(* lxmfSync.js ingestPaperUri *)
LEMMA ScanKeeps ==
    ASSUME IInv, NEW sheet \in sheets, Scan(sheet)
    PROVE  IInv'
<1>1. sheet \in Chunk /\ sheet # <<>>
  BY DEF IInv, TypeOK
<1>2. TypeOK'
  BY <1>1 DEF IInv, TypeOK, Scan, exporting, packing
<1>3. ImportInOrder'
  BY DEF IInv, ImportInOrder, Scan, exporting
<1> QED
  BY <1>2, <1>3, ExportKeeps DEF IInv, Scan

(* lxmfSync.js handleMessage *)
LEMMA HandleKeeps ==
    ASSUME IInv, NEW h \in handlers, Handle(h)
    PROVE  IInv'
<1>1. h \in Seq(Delta) /\ h # <<>>
  BY DEF IInv, TypeOK, Chunk
<1>2. Head(h) \in Delta /\ Tail(h) \in Seq(Delta) /\ ToSet(h) = {Head(h)} \cup ToSet(Tail(h))
  BY <1>1, ChunkHead
<1> DEFINE d == Head(h)
           t == Tail(h)
<1>3. /\ mem' = mem \cup ({d} \cap known)
      /\ applied' = applied \cup ({d} \cap known)
      /\ handlers' = (handlers \ {h}) \cup ({t} \ {<<>>})
      /\ UNCHANGED <<exporting, disk, im, known, scanned, verdict, imports>>
  BY DEF Handle, AppliedNow, Rest
<1>4. im = "scan"
  BY DEF IInv, ImportInOrder
<1>5. d \in Delta /\ t \in Chunk /\ ToSet(h) = {d} \cup ToSet(t)
  BY <1>2 DEF Chunk
<1> HIDE DEF d, t
<1>6. TypeOK'
  BY <1>3, <1>5 DEF IInv, TypeOK, exporting, packing
<1>7. UNION {ToSet(g) : g \in handlers} \subseteq {d} \cup UNION {ToSet(g) : g \in handlers'}
  <2>1. SUFFICES ASSUME NEW g \in handlers, NEW x \in ToSet(g), x # d
                 PROVE  \E f \in handlers' : x \in ToSet(f)
    OBVIOUS
  <2>2. CASE g # h
    BY <1>3, <2>2
  <2>3. CASE g = h
    <3>1. x \in ToSet(t)
      BY <1>5, <2>1, <2>3
    <3>2. t # <<>>
      BY <3>1, EmptyHasNone
    <3> QED
      BY <1>3, <3>1, <3>2
  <2> QED
    BY <2>2, <2>3
<1>8. ImportInOrder'
  <2>1. UNCHANGED <<manifest, disk, im, known, scanned, verdict>>
    BY <1>3 DEF exporting
  <2>2. Routed => known \cap UNION {ToSet(s) : s \in scanned}
                     \subseteq applied' \cup UNION {ToSet(g) : g \in handlers'}
    BY <1>3, <1>4, <1>7 DEF IInv, ImportInOrder
  <2>3. verdict = "none"
    BY <1>4 DEF IInv, ImportInOrder
  <2> QED
    BY <1>3, <1>4, <2>1, <2>2, <2>3 DEF IInv, ImportInOrder
<1> QED
  BY <1>3, <1>6, <1>8, ExportKeeps DEF IInv

LEMMA ScanEndKeeps ==
    ASSUME IInv, ScanEnd
    PROVE  IInv'
<1>1. TypeOK'
  BY DEF IInv, TypeOK, ScanEnd, exporting, packing
<1>2. ImportInOrder'
  BY DEF IInv, ImportInOrder, ScanEnd, exporting
<1> QED
  BY <1>1, <1>2, ExportKeeps DEF IInv, ScanEnd

LEMMA ImportSaveKeeps ==
    ASSUME IInv, ImportSave
    PROVE  IInv'
<1>1. TypeOK'
  BY DEF IInv, TypeOK, ImportSave, exporting, packing
<1>2. ImportInOrder'
  BY DEF IInv, ImportInOrder, ImportSave, exporting
<1> QED
  BY <1>1, <1>2, ExportKeeps DEF IInv, ImportSave

LEMMA ImportCheckKeeps ==
    ASSUME IInv, ImportCheck
    PROVE  IInv'
<1>1. TypeOK'
  BY DEF IInv, TypeOK, ImportCheck, Verdict, exporting, packing
<1>2. verdict' = "complete" <=> manifest \subseteq applied
  BY DEF ImportCheck, Missing
<1>3. ImportInOrder'
  BY <1>2 DEF IInv, ImportInOrder, ImportCheck, exporting
<1> QED
  BY <1>1, <1>3, ExportKeeps DEF IInv, ImportCheck

LEMMA ImportStopKeeps ==
    ASSUME IInv, ImportStop
    PROVE  IInv'
<1>1. TypeOK'
  BY DEF IInv, TypeOK, ImportStop, Verdict, exporting, packing
<1>2. ImportInOrder'
  BY DEF IInv, ImportInOrder, ImportStop, exporting
<1> QED
  BY <1>1, <1>2, ExportKeeps DEF IInv, ImportStop

LEMMA StutterKeeps ==
    ASSUME IInv, UNCHANGED vars
    PROVE  IInv'
<1>1. UNCHANGED exporting /\ UNCHANGED importing /\ manifest' = manifest
  BY DEF vars, exporting
<1>2. TypeOK'
  BY <1>1 DEF IInv, TypeOK, exporting, packing, importing
<1> QED
  BY <1>1, <1>2, ExportKeeps, ImportKeeps DEF IInv

LEMMA NextKeeps == IInv /\ [Next]_vars => IInv'
<1> SUFFICES ASSUME IInv, [Next]_vars PROVE IInv'
  OBVIOUS
<1>1. CASE \E o \in Overheads : ExportStart(o)
  BY <1>1, ExportStartKeeps
<1>2. CASE PackNext \/ PackEnd
  BY <1>2, PackNextKeeps, PackEndKeeps
<1>3. CASE BuildFits \/ BuildHalves \/ BuildFails \/ BuildEnd
  BY <1>3, BuildFitsKeeps, BuildHalvesKeeps, BuildFailsKeeps, BuildEndKeeps
<1>4. CASE PrintSheet \/ PrintManifest
  BY <1>4, PrintSheetKeeps, PrintManifestKeeps
<1>5. CASE \E K \in SUBSET Delta : ImportStart(K)
  BY <1>5, ImportStartKeeps
<1>6. CASE \E s \in sheets : Scan(s)
  BY <1>6, ScanKeeps
<1>7. CASE \E h \in handlers : Handle(h)
  BY <1>7, HandleKeeps
<1>8. CASE ScanEnd \/ ImportSave \/ ImportCheck \/ ImportStop
  BY <1>8, ScanEndKeeps, ImportSaveKeeps, ImportCheckKeeps, ImportStopKeeps
<1>9. CASE UNCHANGED vars
  BY <1>9, StutterKeeps
<1> QED
  BY <1>1, <1>2, <1>3, <1>4, <1>5, <1>6, <1>7, <1>8, <1>9 DEF Next

LEMMA Invariance == Spec => []IInv
BY InitIInv, NextKeeps, PTL DEF Spec

(* dacar.js cmdPaperExport, cmdPaperImport: the steps of both keep their     *)
(* variables' types, for any deltas and sizes.                               *)
THEOREM PaperTypeCorrect == Spec => []TypeOK
<1>1. IInv => TypeOK
  BY DEF IInv
<1> QED
  BY <1>1, Invariance, PTL

(* lxmfSync.js packPaperUris, dacar.js cmdPaperExport: however the deltas    *)
(* are packed and halved, the sheets bear exactly what the manifest says.    *)
THEOREM ManifestIsTrue == Spec => []ManifestIsPrinted
<1>1. IInv => ManifestIsPrinted
  BY DEF IInv
<1> QED
  BY <1>1, Invariance, PTL

(* dacar.js cmdPaperImport: an import that reports that every exported delta *)
(* was applied is right, with or without a router.                           *)
THEOREM CompleteIsTrue == Spec => []CompleteMeansApplied
<1>1. IInv => CompleteMeansApplied
  BY DEF IInv, ImportInOrder, CompleteMeansApplied
<1> QED
  BY <1>1, Invariance, PTL

(* Without a router no handler ever starts, so nothing is read. *)
NothingRead ==
    ~ Routed => /\ handlers = {} /\ applied = {} /\ mem = {} /\ disk = {}
                /\ verdict # "complete"

LEMMA NothingReadInvariant == Spec => []NothingRead
<1>1. Init => NothingRead
  BY DEF Init, NothingRead
<1>2. NothingRead /\ [Next]_vars => NothingRead'
  <2> SUFFICES ASSUME ~ Routed, NothingRead, [Next]_vars
               PROVE  /\ handlers' = {} /\ applied' = {} /\ mem' = {} /\ disk' = {}
                      /\ verdict' # "complete"
    BY DEF NothingRead
  <2>1. /\ handlers = {} /\ applied = {} /\ mem = {} /\ disk = {}
        /\ verdict # "complete"
    BY DEF NothingRead
  <2>2. CASE UNCHANGED <<disk, mem, handlers, applied, verdict>>
    BY <2>1, <2>2
  <2>3. CASE \/ \E o \in Overheads : ExportStart(o)
             \/ PackNext \/ PackEnd
             \/ BuildFits \/ BuildHalves \/ BuildFails \/ BuildEnd
             \/ PrintSheet \/ PrintManifest
             \/ ScanEnd \/ UNCHANGED vars
    <3>1. UNCHANGED <<disk, mem, handlers, applied, verdict>>
      BY <2>3 DEF ExportStart, Select, PackNext, PackEnd, BuildFits, BuildHalves,
         BuildFails, BuildEnd, PrintSheet, PrintManifest, ScanEnd, NoJob,
         vars, exporting, importing
    <3> QED
      BY <2>2, <3>1
  <2>4. ASSUME NEW K \in SUBSET Delta, ImportStart(K)
        PROVE  /\ handlers' = {} /\ applied' = {} /\ mem' = {} /\ disk' = {}
               /\ verdict' # "complete"
    BY <2>1, <2>4 DEF ImportStart
  <2>5. ASSUME NEW s \in sheets, Scan(s)
        PROVE  UNCHANGED <<disk, mem, handlers, applied, verdict>>
    BY <2>5 DEF Scan
  <2>6. CASE ImportSave
    BY <2>1, <2>6 DEF ImportSave
  <2>7. CASE ImportCheck
    <3>1. Missing # {}
      BY <2>1, <2>7 DEF ImportCheck, Missing
    <3> QED
      BY <2>1, <2>7, <3>1 DEF ImportCheck
  <2>8. CASE ImportStop
    BY <2>1, <2>8 DEF ImportStop, exporting
  <2> QED
    BY <2>1, <2>2, <2>3, <2>4, <2>5, <2>6, <2>7, <2>8 DEF Next
<1> QED
  BY <1>1, <1>2, PTL DEF Spec

(* dacar.js cmdPaperImport, lxmfSync.js ingestPaperUri: whether what is       *)
(* scanned arrives depends on the router alone.  With one, as the tests and   *)
(* the Python command build the delivery, what was scanned and verifies is    *)
(* stored, in whatever order the sheets came and their handlers ran; without  *)
(* one, as `dacar paper import` builds it, nothing is ever applied or stored, *)
(* and no import is told that it is complete.                                 *)
THEOREM ScansArrive ==
    Spec => [](IF Routed THEN ScannedArrives
                         ELSE disk = {} /\ applied = {} /\ verdict # "complete")
<1>1. IInv /\ Routed => ScannedArrives
  <2> SUFFICES ASSUME IInv, Routed, im = "check" PROVE ScannedArrives
    BY DEF ScannedArrives
  <2> DEFINE read == known \cap UNION {ToSet(s) : s \in scanned}
  <2>1. handlers = {} /\ read \subseteq applied /\ applied \subseteq disk
    BY DEF IInv, ImportInOrder
  <2>2. verdict = "missing" => ~ (manifest \subseteq applied)
    BY DEF IInv, ImportInOrder
  <2> HIDE DEF read
  <2>3. read \subseteq disk /\ (verdict = "missing" => ~ (manifest \subseteq read))
    BY <2>1, <2>2
  <2> QED
    BY <2>3 DEF ScannedArrives, read
<1>2. IInv /\ NothingRead => (IF Routed THEN ScannedArrives
                              ELSE disk = {} /\ applied = {} /\ verdict # "complete")
  BY <1>1 DEF NothingRead
<1> QED
  BY <1>2, Invariance, NothingReadInvariant, PTL

------------------------------------------------------------------------------
(* The deltas in order: FlattenSeq of the batches. *)
(* Induction over the natural numbers, for a set of them. *)
LEMMA InductionOnNat ==
    ASSUME NEW T \in SUBSET Nat, 0 \in T, \A n \in T : n + 1 \in T
    PROVE  T = Nat
<1>1. SUFFICES ASSUME Nat \ T # {}
               PROVE  FALSE
  OBVIOUS
<1>2. PICK n \in Nat \ T : \A m \in Nat \ T : ~ (<<m, n>> \in OpToRel(<, Nat))
  BY <1>1, NatLessThanWellFounded, WFMin
<1>3. n - 1 \in Nat /\ n - 1 < n /\ (n - 1) + 1 = n
  <2>1. n \in Nat /\ n # 0
    OBVIOUS
  <2>2. QED
    BY <2>1
<1>4. <<n - 1, n>> \in OpToRel(<, Nat)
  BY <1>3 DEF OpToRel
<1>5. n - 1 \in T
  BY <1>2, <1>3, <1>4
<1>6. QED
  BY <1>2, <1>3, <1>5

(* The recursion FlattenSeq is defined by has a solution. *)
LEMMA FlattenSolved ==
    ASSUME NEW ss, NEW n \in Nat
    PROVE  \E f : f = [i \in 1 .. n |-> IF i = 1 THEN ss[i] ELSE f[i - 1] \o ss[i]]
<1> DEFINE Fits(m, f) ==
             f = [i \in 1 .. m |-> IF i = 1 THEN ss[i] ELSE f[i - 1] \o ss[i]]
           T == {m \in Nat : \E f : Fits(m, f)}
<1>1. 0 \in T
  <2>1. Fits(0, [i \in 1 .. 0 |-> ss])
    OBVIOUS
  <2>2. QED
    BY <2>1
<1>2. ASSUME NEW m \in T
      PROVE  m + 1 \in T
  <2>1. PICK f : Fits(m, f)
    BY <1>2
  <2> DEFINE g == [i \in 1 .. m + 1 |-> IF i <= m THEN f[i]
                                        ELSE IF i = 1 THEN ss[i] ELSE f[i - 1] \o ss[i]]
  <2>2. ASSUME NEW i \in 1 .. m + 1
        PROVE  g[i] = IF i = 1 THEN ss[i] ELSE g[i - 1] \o ss[i]
    <3>1. i # 1 => i - 1 \in 1 .. m
      OBVIOUS
    <3>2. i # 1 => g[i - 1] = f[i - 1]
      BY <3>1
    <3>3. i <= m => g[i] = IF i = 1 THEN ss[i] ELSE f[i - 1] \o ss[i]
      <4>1. i <= m => i \in 1 .. m
        OBVIOUS
      <4>2. QED
        BY <4>1, <2>1, Zenon
    <3>4. QED
      BY <3>2, <3>3
  <2>3. g = [i \in 1 .. m + 1 |-> IF i = 1 THEN ss[i] ELSE g[i - 1] \o ss[i]]
    BY <2>2
  <2> HIDE DEF g
  <2>4. \E h : Fits(m + 1, h)
    BY <2>3
  <2>5. m + 1 \in Nat
    OBVIOUS
  <2>6. QED
    BY <2>4, <2>5, Zenon
<1> HIDE DEF T
<1>3. T = Nat
  <2>1. T \in SUBSET Nat
    BY DEF T
  <2>2. QED
    BY <1>1, <1>2, <2>1, InductionOnNat
<1>4. QED
  BY <1>3 DEF T

(* FlattenSeq of some batches is the last value of its recursion. *)
LEMMA FlattenIsLast ==
    ASSUME NEW ss, Len(ss) \in Nat \ {0}
    PROVE  \E f : /\ \A i \in 1 .. Len(ss) :
                        f[i] = IF i = 1 THEN ss[i] ELSE f[i - 1] \o ss[i]
                  /\ FlattenSeq(ss) = f[Len(ss)]
<1> DEFINE n == Len(ss)
           Fits(f) == f = [i \in 1 .. n |-> IF i = 1 THEN ss[i] ELSE f[i - 1] \o ss[i]]
           h == CHOOSE f : Fits(f)
<1>1. Fits(h)
  BY FlattenSolved
<1>2. FlattenSeq(ss) = h[n]
  BY DEF FlattenSeq
<1>3. \A i \in 1 .. n : h[i] = IF i = 1 THEN ss[i] ELSE h[i - 1] \o ss[i]
  BY <1>1, Zenon
<1> HIDE DEF h
<1>4. QED
  BY <1>2, <1>3

LEMMA FlattenNone == FlattenSeq(<<>>) = <<>>
BY DEF FlattenSeq

(* The last batch comes last. *)
LEMMA FlattenAppend ==
    ASSUME NEW ss \in Seq(Chunk), NEW c \in Chunk
    PROVE  FlattenSeq(Append(ss, c)) = FlattenSeq(ss) \o c
<1> DEFINE tt == Append(ss, c)
           n == Len(ss)
<1>1. /\ n \in Nat /\ Len(tt) = n + 1 /\ tt[n + 1] = c
      /\ \A i \in 1 .. n : tt[i] = ss[i]
  OBVIOUS
<1> HIDE DEF tt
<1>2. PICK g : /\ \A i \in 1 .. n + 1 :
                     g[i] = IF i = 1 THEN tt[i] ELSE g[i - 1] \o tt[i]
               /\ FlattenSeq(tt) = g[n + 1]
  <2>1. Len(tt) \in Nat \ {0}
    BY <1>1
  <2>2. QED
    BY <1>1, <2>1, FlattenIsLast
<1>3. CASE n = 0
  <2>1. ss = <<>>
    BY <1>3
  <2>2. FlattenSeq(tt) = c
    BY <1>1, <1>2, <1>3
  <2>3. <<>> \o c = c
    BY DEF Chunk
  <2>4. QED
    BY <2>1, <2>2, <2>3, FlattenNone DEF tt
<1>4. CASE n # 0
  <2>1. PICK f : /\ \A i \in 1 .. n :
                       f[i] = IF i = 1 THEN ss[i] ELSE f[i - 1] \o ss[i]
                 /\ FlattenSeq(ss) = f[n]
    BY <1>1, <1>4, FlattenIsLast
  <2> DEFINE T == {m \in Nat : m + 1 \in 1 .. n => g[m + 1] = f[m + 1]}
  <2>2. 0 \in T
    <3>1. 1 \in 1 .. n
      BY <1>1, <1>4
    <3>2. f[1] = ss[1]
      BY <3>1, <2>1
    <3>3. g[1] = tt[1] /\ tt[1] = ss[1]
      BY <3>1, <1>1, <1>2
    <3>4. QED
      BY <3>2, <3>3
  <2>3. ASSUME NEW m \in T
        PROVE  m + 1 \in T
    <3>1. SUFFICES ASSUME (m + 1) + 1 \in 1 .. n
                   PROVE  g[(m + 1) + 1] = f[(m + 1) + 1]
      OBVIOUS
    <3> DEFINE k == (m + 1) + 1
    <3>2. k \in 1 .. n /\ k # 1 /\ k - 1 = m + 1 /\ k - 1 \in 1 .. n /\ k \in 1 .. n + 1
      BY <3>1, <1>1
    <3>3. g[k - 1] = f[k - 1]
      BY <3>2, <2>3
    <3> HIDE DEF k
    <3>4. g[k] = g[k - 1] \o tt[k] /\ f[k] = f[k - 1] \o ss[k] /\ tt[k] = ss[k]
      BY <3>2, <1>1, <1>2, <2>1
    <3>5. QED
      BY <3>3, <3>4 DEF k
  <2> HIDE DEF T
  <2>4. T = Nat
    <3>1. T \in SUBSET Nat
      BY DEF T
    <3>2. QED
      BY <3>1, <2>2, <2>3, InductionOnNat
  <2>5. g[n] = f[n]
    <3>1. n - 1 \in T /\ (n - 1) + 1 = n
      BY <1>1, <1>4, <2>4
    <3>2. QED
      BY <3>1, <1>1, <1>4 DEF T
  <2>6. g[n + 1] = g[n] \o c
    <3>1. n + 1 \in 1 .. n + 1 /\ n + 1 # 1 /\ (n + 1) - 1 = n
      BY <1>1, <1>4
    <3>2. g[n + 1] = g[(n + 1) - 1] \o tt[n + 1]
      BY <3>1, <1>2
    <3>3. QED
      BY <3>1, <3>2, <1>1
  <2>7. QED
    BY <2>1, <2>5, <2>6, <1>2 DEF tt
<1>5. QED
  BY <1>3, <1>4

LEMMA FlattenType ==
    ASSUME NEW ss \in Seq(Chunk)
    PROVE  FlattenSeq(ss) \in Chunk
<1> DEFINE T == {n \in Nat : \A tt \in Seq(Chunk) : Len(tt) = n => FlattenSeq(tt) \in Chunk}
<1>1. 0 \in T
  <2>1. ASSUME NEW tt \in Seq(Chunk), Len(tt) = 0 PROVE tt = <<>> /\ <<>> \in Chunk
    BY <2>1 DEF Chunk
  <2> QED
    BY <2>1, FlattenNone
<1>2. ASSUME NEW n \in T PROVE n + 1 \in T
  <2>1. SUFFICES ASSUME NEW tt \in Seq(Chunk), Len(tt) = n + 1
                 PROVE  FlattenSeq(tt) \in Chunk
    BY <1>2
  <2>2. tt # <<>>
    BY <1>2, <2>1
  <2>3. PICK rr \in Seq(Chunk), c \in Chunk : tt = Append(rr, c)
    BY <2>2, SequenceEmptyOrAppend
  <2>4. Len(rr) = n
    BY <1>2, <2>1, <2>3
  <2>5. FlattenSeq(rr) \in Seq(Delta) /\ c \in Seq(Delta)
    BY <1>2, <2>4 DEF Chunk
  <2>6. FlattenSeq(tt) = FlattenSeq(rr) \o c
    BY <2>3, FlattenAppend
  <2> QED
    BY <2>5, <2>6, ConcatProperties DEF Chunk
<1> HIDE DEF T
<1>3. T = Nat
  <2>1. T \in SUBSET Nat
    BY DEF T
  <2> QED
    BY <1>1, <1>2, <2>1, InductionOnNat
<1>4. Len(ss) \in Nat
  OBVIOUS
<1> QED
  BY <1>3, <1>4 DEF T

LEMMA ConcatAppend ==
    ASSUME NEW S, NEW s \in Seq(S), NEW t \in Seq(S), NEW x \in S
    PROVE  s \o Append(t, x) = Append(s \o t, x)
<1>1. <<x>> \in Seq(S) /\ s \o t \in Seq(S)
  <2>1. s \o t \in Seq(S)
    BY ConcatProperties
  <2> QED
    BY <2>1
<1>2. Append(t, x) = t \o <<x>> /\ Append(s \o t, x) = (s \o t) \o <<x>>
  BY <1>1, AppendIsConcat
<1>3. (s \o t) \o <<x>> = s \o (t \o <<x>>)
  BY <1>1, ConcatAssociative
<1> QED
  BY <1>2, <1>3

(* The first batch comes first. *)
LEMMA FlattenFirst ==
    ASSUME NEW c \in Chunk, NEW ss \in Seq(Chunk)
    PROVE  FlattenSeq(<<c>> \o ss) = c \o FlattenSeq(ss)
<1> DEFINE T == {n \in Nat : \A tt \in Seq(Chunk) :
                    Len(tt) = n => FlattenSeq(<<c>> \o tt) = c \o FlattenSeq(tt)}
<1>0. <<c>> \in Seq(Chunk) /\ <<>> \in Seq(Chunk) /\ c \in Seq(Delta)
  BY DEF Chunk
<1>1. 0 \in T
  <2>1. <<c>> \o <<>> = <<c>> /\ c \o <<>> = c /\ <<>> \o c = c
    BY <1>0, ConcatEmptySeq
  <2>2. FlattenSeq(<<c>>) = <<>> \o c
    <3>1. FlattenSeq(Append(<<>>, c)) = FlattenSeq(<<>>) \o c
      BY <1>0, FlattenAppend
    <3>2. Append(<<>>, c) = <<c>>
      OBVIOUS
    <3> QED
      BY <3>1, <3>2, FlattenNone
  <2>3. ASSUME NEW tt \in Seq(Chunk), Len(tt) = 0 PROVE tt = <<>>
    BY <2>3
  <2>4. \A tt \in Seq(Chunk) : Len(tt) = 0 => FlattenSeq(<<c>> \o tt) = c \o FlattenSeq(tt)
    BY <2>1, <2>2, <2>3, FlattenNone, Zenon
  <2> QED
    BY <2>4
<1>2. ASSUME NEW n \in T PROVE n + 1 \in T
  <2>1. SUFFICES ASSUME NEW tt \in Seq(Chunk), Len(tt) = n + 1
                 PROVE  FlattenSeq(<<c>> \o tt) = c \o FlattenSeq(tt)
    BY <1>2
  <2>2. tt # <<>>
    BY <1>2, <2>1
  <2>3. PICK rr \in Seq(Chunk), x \in Chunk : tt = Append(rr, x)
    BY <2>2, SequenceEmptyOrAppend
  <2>4. Len(rr) = n
    BY <1>2, <2>1, <2>3
  <2>5. FlattenSeq(<<c>> \o rr) = c \o FlattenSeq(rr)
    BY <1>2, <2>4
  <2>6. <<c>> \o rr \in Seq(Chunk)
    BY <1>0, ConcatProperties
  <2>7. <<c>> \o tt = Append(<<c>> \o rr, x)
    BY <1>0, <2>3, ConcatAppend
  <2>8. /\ FlattenSeq(<<c>> \o tt) = FlattenSeq(<<c>> \o rr) \o x
        /\ FlattenSeq(tt) = FlattenSeq(rr) \o x
    BY <2>3, <2>6, <2>7, FlattenAppend
  <2>9. FlattenSeq(rr) \in Seq(Delta) /\ x \in Seq(Delta)
    BY FlattenType DEF Chunk
  <2>10. (c \o FlattenSeq(rr)) \o x = c \o (FlattenSeq(rr) \o x)
    BY <1>0, <2>9, ConcatAssociative
  <2> QED
    BY <2>5, <2>8, <2>10
<1> HIDE DEF T
<1>3. T = Nat
  <2>1. T \in SUBSET Nat
    BY DEF T
  <2> QED
    BY <1>1, <1>2, <2>1, InductionOnNat
<1>4. Len(ss) \in Nat
  OBVIOUS
<1> QED
  BY <1>3, <1>4 DEF T

LEMMA HeadFirst ==
    ASSUME NEW S, NEW s \in Seq(S), s # <<>>
    PROVE  s = <<Head(s)>> \o Tail(s) /\ Head(s) \in S /\ Tail(s) \in Seq(S)
<1> DEFINE h == <<Head(s)>>
           t == Tail(s)
           u == h \o t
<1>1. /\ Head(s) = s[1] /\ Head(s) \in S /\ t \in Seq(S) /\ Len(t) = Len(s) - 1
      /\ \A i \in 1 .. Len(t) : t[i] = s[i + 1]
      /\ Len(s) \in Nat \ {0}
  BY HeadTailProperties
<1>2. h \in Seq(S) /\ Len(h) = 1 /\ h[1] = s[1]
  BY <1>1
<1> HIDE DEF h, t
<1>3. /\ u \in Seq(S) /\ Len(u) = Len(h) + Len(t)
      /\ \A i \in 1 .. Len(h) + Len(t) : u[i] = IF i <= Len(h) THEN h[i] ELSE t[i - Len(h)]
  BY <1>1, <1>2, ConcatProperties
<1> HIDE DEF u
<1>4. Len(u) = Len(s)
  BY <1>1, <1>2, <1>3
<1>5. ASSUME NEW i \in 1 .. Len(u) PROVE u[i] = s[i]
  <2>1. CASE i = 1
    BY <2>1, <1>1, <1>2, <1>3
  <2>2. CASE i # 1
    <3>1. i - 1 \in 1 .. Len(t) /\ (i - 1) + 1 = i /\ ~ (i <= 1)
      BY <1>1, <1>4, <2>2
    <3>2. u[i] = t[i - 1]
      BY <1>2, <1>3, <3>1
    <3> QED
      BY <1>1, <3>1, <3>2
  <2> QED
    BY <2>1, <2>2
<1>6. u = s
  BY <1>3, <1>4, <1>5, SeqEqual
<1> QED
  BY <1>1, <1>6 DEF u, h, t

LEMMA FlattenHead ==
    ASSUME NEW ss \in Seq(Chunk), ss # <<>>
    PROVE  FlattenSeq(ss) = Head(ss) \o FlattenSeq(Tail(ss))
<1>1. ss = <<Head(ss)>> \o Tail(ss) /\ Head(ss) \in Chunk /\ Tail(ss) \in Seq(Chunk)
  BY HeadFirst
<1>2. FlattenSeq(<<Head(ss)>> \o Tail(ss)) = Head(ss) \o FlattenSeq(Tail(ss))
  BY <1>1, FlattenFirst
<1> QED
  BY <1>1, <1>2

(* lxmfSync.js packPaperUris: the halves of a chunk make it up, in order. *)
LEMMA HalvesJoin ==
    ASSUME NEW c \in Chunk, Len(c) > 1
    PROVE  \E a, b \in Chunk : Halves(c) = <<a, b>> /\ a \o b = c
<1> DEFINE n == Len(c)
           mid == n \div 2
           a == SubSeq(c, 1, mid)
           b == SubSeq(c, mid + 1, n)
<1>1. c \in Seq(Delta) /\ n \in Nat /\ n > 1 /\ \A k \in 1 .. n : c[k] \in Delta
  BY DEF Chunk
<1>2. mid \in Nat /\ 1 <= mid /\ mid < n
  BY <1>1
<1> HIDE DEF n, mid
<1>3. a \in Seq(Delta) /\ b \in Seq(Delta)
  <2>1. \A k \in 1 .. mid : c[k] \in Delta
    BY <1>1, <1>2
  <2>2. \A k \in mid + 1 .. n : c[k] \in Delta
    BY <1>1, <1>2
  <2> QED
    BY <1>1, <1>2, <2>1, <2>2, SubSeqProperties
<1>4. a \o b = SubSeq(c, 1, n)
  <2>1. 1 \in 1 .. Len(c) + 1 /\ mid \in 1 - 1 .. Len(c) /\ n \in mid .. Len(c)
    BY <1>1, <1>2 DEF n
  <2> QED
    BY <1>1, <2>1, ConcatAdjacentSubSeq
<1>5. SubSeq(c, 1, n) = c
  BY <1>1, SubSeqFull DEF n
<1>6. Halves(c) = <<a, b>>
  BY DEF Halves, n, mid
<1> QED
  BY <1>3, <1>4, <1>5, <1>6 DEF Chunk

LEMMA AppendParts ==
    ASSUME NEW S, NEW s \in Seq(S), NEW x \in S, NEW t, t = Append(s, x)
    PROVE  /\ t \in Seq(S) /\ Len(t) = Len(s) + 1 /\ t[Len(s) + 1] = x
           /\ \A k \in 1 .. Len(s) : t[k] = s[k]
OBVIOUS

LEMMA PairIsAppend ==
    ASSUME NEW S, NEW a \in S, NEW b \in S
    PROVE  Append(<<a>>, b) = <<a, b>>
<1> DEFINE s == Append(<<a>>, b)
           t == <<a, b>>
<1>1. s \in Seq(S) /\ Len(s) = 2 /\ s[1] = a /\ s[2] = b
  <2> DEFINE r == <<a>>
  <2>1. r \in Seq(S) /\ Len(r) = 1 /\ r[1] = a
    OBVIOUS
  <2> HIDE DEF r
  <2>2. s = Append(r, b)
    BY DEF r
  <2> HIDE DEF s
  <2>3. /\ s \in Seq(S) /\ Len(s) = Len(r) + 1 /\ s[Len(r) + 1] = b
        /\ \A k \in 1 .. Len(r) : s[k] = r[k]
    BY <2>1, <2>2, AppendParts
  <2> QED
    BY <2>1, <2>3
<1>2. t \in Seq(S) /\ Len(t) = 2 /\ t[1] = a /\ t[2] = b
  OBVIOUS
<1> HIDE DEF s, t
<1>3. s = t
  <2>1. \A i \in 1 .. Len(s) : s[i] = t[i]
    BY <1>1, <1>2
  <2> QED
    BY <1>1, <1>2, <2>1, SeqEqual
<1> QED
  BY <1>3 DEF s, t

(* The chunks after the first was halved bear what they bore, in order. *)
LEMMA HalvedInOrder ==
    ASSUME NEW ss \in Seq(Chunk), ss # <<>>, Len(Head(ss)) > 1
    PROVE  FlattenSeq(Halves(Head(ss)) \o Tail(ss)) = FlattenSeq(ss)
<1> DEFINE t == Tail(ss)
<1>1. Head(ss) \in Chunk /\ t \in Seq(Chunk) /\ FlattenSeq(ss) = Head(ss) \o FlattenSeq(t)
  BY HeadFirst, FlattenHead
<1> HIDE DEF t
<1>2. PICK a \in Chunk, b \in Chunk : Halves(Head(ss)) = <<a, b>> /\ a \o b = Head(ss)
  BY <1>1, HalvesJoin
<1>3. <<a>> \in Seq(Chunk) /\ <<b>> \in Seq(Chunk) /\ <<b>> \o t \in Seq(Chunk)
  <2>1. <<a>> \in Seq(Chunk) /\ <<b>> \in Seq(Chunk)
    OBVIOUS
  <2> QED
    BY <1>1, <2>1, ConcatProperties
<1>4. <<a, b>> \o t = <<a>> \o (<<b>> \o t)
  <2>1. <<a, b>> = <<a>> \o <<b>>
    <3>1. Append(<<a>>, b) = <<a, b>>
      BY PairIsAppend
    <3> QED
      BY <1>3, <3>1, AppendIsConcat
  <2>2. (<<a>> \o <<b>>) \o t = <<a>> \o (<<b>> \o t)
    BY <1>1, <1>3, ConcatAssociative
  <2> QED
    BY <2>1, <2>2
<1>5. /\ FlattenSeq(<<a>> \o (<<b>> \o t)) = a \o FlattenSeq(<<b>> \o t)
      /\ FlattenSeq(<<b>> \o t) = b \o FlattenSeq(t)
  BY <1>1, <1>3, FlattenFirst
<1>6. (a \o b) \o FlattenSeq(t) = a \o (b \o FlattenSeq(t))
  <2>1. a \in Seq(Delta) /\ b \in Seq(Delta) /\ FlattenSeq(t) \in Seq(Delta)
    BY <1>1, FlattenType DEF Chunk
  <2> QED
    BY <2>1, ConcatAssociative
<1> QED
  BY <1>1, <1>2, <1>4, <1>5, <1>6 DEF t

(* Moving the head of the second sequence to the end of the first. *)
LEMMA ShiftHead ==
    ASSUME NEW S, NEW p \in Seq(S), NEW q \in Seq(S), q # <<>>
    PROVE  p \o q = Append(p, Head(q)) \o Tail(q)
<1>1. q = <<Head(q)>> \o Tail(q) /\ Head(q) \in S /\ Tail(q) \in Seq(S) /\ <<Head(q)>> \in Seq(S)
  BY HeadFirst, OneChunk
<1>2. Append(p, Head(q)) = p \o <<Head(q)>>
  BY <1>1, AppendIsConcat
<1>3. (p \o <<Head(q)>>) \o Tail(q) = p \o (<<Head(q)>> \o Tail(q))
  BY <1>1, ConcatAssociative
<1> QED
  BY <1>1, <1>2, <1>3

LEMMA LeftKept ==
    ASSUME IInv, PackingKeepsOrder, UNCHANGED <<chosen, todo, current, chunks, uris>>
    PROVE  PackingKeepsOrder'
BY DEF PackingKeepsOrder

LEMMA OrderOfNothing ==
    ASSUME chosen' = <<>>, todo' = <<>>, current' = <<>>, chunks' = <<>>, uris' = <<>>
    PROVE  PackingKeepsOrder'
<1>1. <<>> \in Seq(Delta) /\ <<>> \o <<>> = <<>>
  OBVIOUS
<1> QED
  BY <1>1, FlattenNone DEF PackingKeepsOrder

(* dacar.js cmdPaperExport *)
LEMMA ExportStartInOrder ==
    ASSUME IInv, NEW o \in Overheads, ExportStart(o)
    PROVE  PackingKeepsOrder'
<1>1. PICK s \in Sources : Select(s, o)
  BY DEF ExportStart
<1>2. s \in Seq(Delta) /\ s \in Chunk
  BY SourcesType DEF IInv, Chunk
<1>3. chunks' = <<>> /\ current' = <<>> /\ uris = <<>> /\ todo = <<>> /\ chosen' = s
  BY <1>1 DEF IInv, PhasesInOrder, ExportStart, Select
<1>4. <<>> \o <<>> = <<>> /\ <<>> \o s = s /\ s \o <<>> = s
  <2>1. <<>> \o <<>> = <<>>
    OBVIOUS
  <2> QED
    BY <1>2, <2>1, ConcatEmptySeq
<1>5. CASE todo' = s /\ uris' = <<>>
  BY <1>3, <1>4, <1>5, FlattenNone DEF PackingKeepsOrder
<1>6. CASE todo' = <<>> /\ uris' = <<s>>
  <2>1. FlattenSeq(<<s>>) = s
    <3>1. Append(<<>>, s) = <<s>> /\ <<>> \in Seq(Chunk)
      OBVIOUS
    <3>2. FlattenSeq(Append(<<>>, s)) = FlattenSeq(<<>>) \o s
      BY <1>2, <3>1, FlattenAppend
    <3> QED
      BY <1>4, <3>1, <3>2, FlattenNone
  <2> QED
    BY <1>3, <1>4, <1>6, <2>1, FlattenNone DEF PackingKeepsOrder
<1> QED
  BY <1>1, <1>3, <1>5, <1>6 DEF Select

(* The two ways a payload is packed, on any sequences. *)
LEMMA PackedInOrder ==
    ASSUME NEW u \in Seq(Delta), NEW k \in Seq(Delta), NEW c \in Seq(Delta),
           NEW q \in Seq(Delta), q # <<>>
    PROVE  /\ u \o k \o c \o q = u \o k \o Append(c, Head(q)) \o Tail(q)
           /\ u \o k \o c \o q = u \o (k \o c) \o <<Head(q)>> \o Tail(q)
<1> DEFINE v == u \o k
           w == v \o c
<1>1. v \in Seq(Delta)
  BY ConcatProperties
<1>2. w \in Seq(Delta)
  BY <1>1, ConcatProperties
<1>3. Head(q) \in Delta
  BY HeadFirst
<1>4. w = u \o (k \o c)
  BY ConcatAssociative
<1> HIDE DEF v
<1>5. v \o Append(c, Head(q)) = Append(w, Head(q))
  BY <1>1, <1>3, ConcatAppend
<1> HIDE DEF w
<1>6. Append(w, Head(q)) = w \o <<Head(q)>>
  BY <1>2, <1>3, AppendIsConcat
<1>7. w \o q = Append(w, Head(q)) \o Tail(q)
  BY <1>2, ShiftHead
<1> QED
  BY <1>4, <1>5, <1>6, <1>7 DEF v, w

(* lxmfSync.js packChunks: the next payload *)
LEMMA PackNextInOrder ==
    ASSUME IInv, PackingKeepsOrder, PackNext
    PROVE  PackingKeepsOrder'
<1> DEFINE u == FlattenSeq(uris)
           k == FlattenSeq(chunks)
<1>1. /\ u \in Seq(Delta) /\ k \in Seq(Delta) /\ current \in Seq(Delta) /\ todo \in Seq(Delta)
      /\ todo # <<>> /\ chunks \in Seq(Chunk) /\ current \in Chunk
  BY FlattenType DEF IInv, TypeOK, PackNext, Chunk
<1>2. u \o k \o current \o todo = chosen
  BY DEF PackingKeepsOrder
<1>3. FlattenSeq(Append(chunks, current)) = k \o current
  BY <1>1, FlattenAppend
<1> HIDE DEF u, k
<1>4. /\ u \o k \o current \o todo = u \o k \o Append(current, Head(todo)) \o Tail(todo)
      /\ u \o k \o current \o todo = u \o (k \o current) \o <<Head(todo)>> \o Tail(todo)
  <2>1. \A a, b, c \in Seq(Delta), q \in Seq(Delta) : q # <<>> =>
           /\ a \o b \o c \o q = a \o b \o Append(c, Head(q)) \o Tail(q)
           /\ a \o b \o c \o q = a \o (b \o c) \o <<Head(q)>> \o Tail(q)
    BY PackedInOrder
  <2>2. u \in Seq(Delta) /\ k \in Seq(Delta) /\ current \in Seq(Delta) /\ todo \in Seq(Delta) /\ todo # <<>>
    BY <1>1
  <2>3. \A b, c \in Seq(Delta), q \in Seq(Delta) : q # <<>> =>
           /\ u \o b \o c \o q = u \o b \o Append(c, Head(q)) \o Tail(q)
           /\ u \o b \o c \o q = u \o (b \o c) \o <<Head(q)>> \o Tail(q)
    BY <2>1, <2>2, Zenon
  <2>4. \A c \in Seq(Delta), q \in Seq(Delta) : q # <<>> =>
           /\ u \o k \o c \o q = u \o k \o Append(c, Head(q)) \o Tail(q)
           /\ u \o k \o c \o q = u \o (k \o c) \o <<Head(q)>> \o Tail(q)
    BY <2>3, <2>2, Zenon
  <2>5. \A q \in Seq(Delta) : q # <<>> =>
           /\ u \o k \o current \o q = u \o k \o Append(current, Head(q)) \o Tail(q)
           /\ u \o k \o current \o q = u \o (k \o current) \o <<Head(q)>> \o Tail(q)
    BY <2>4, <2>2, Zenon
  <2> QED
    BY <2>5, <2>2, Zenon
<1>5. CASE ~ Overflows
  <2>1. /\ UNCHANGED <<chosen, uris, chunks>>
        /\ current' = Append(current, Head(todo)) /\ todo' = Tail(todo)
    BY <1>5 DEF PackNext
  <2> QED
    BY <1>2, <1>4, <2>1 DEF PackingKeepsOrder, u, k
<1>6. CASE Overflows
  <2>1. /\ UNCHANGED <<chosen, uris>> /\ chunks' = Append(chunks, current)
        /\ current' = <<Head(todo)>> /\ todo' = Tail(todo)
    BY <1>6 DEF PackNext
  <2> QED
    BY <1>2, <1>3, <1>4, <2>1 DEF PackingKeepsOrder, u, k
<1> QED
  BY <1>5, <1>6

(* lxmfSync.js packChunks: the last chunk *)
LEMMA PackEndInOrder ==
    ASSUME IInv, PackingKeepsOrder, PackEnd
    PROVE  PackingKeepsOrder'
<1> DEFINE u == FlattenSeq(uris)
           k == FlattenSeq(chunks)
<1>1. /\ u \in Seq(Delta) /\ k \in Seq(Delta) /\ current \in Seq(Delta)
      /\ chunks \in Seq(Chunk) /\ current \in Chunk /\ todo = <<>>
  BY FlattenType DEF IInv, TypeOK, PackEnd, Chunk
<1>2. FlattenSeq(Append(chunks, current)) = k \o current
  BY <1>1, FlattenAppend
<1>3. (u \o k) \o current = u \o (k \o current)
  BY <1>1, ConcatAssociative
<1>4. k \o current \in Seq(Delta)
  BY <1>1, ConcatProperties
<1>5. u \o (k \o current) \in Seq(Delta)
  BY <1>1, <1>4, ConcatProperties
<1>6. (u \o (k \o current)) \o <<>> = u \o (k \o current)
  BY <1>5, ConcatEmptySeq
<1>7. /\ uris' = uris /\ chunks' = Append(chunks, current) /\ current' = <<>>
      /\ todo' = <<>> /\ chosen' = chosen
  BY <1>1 DEF PackEnd
<1> QED
  BY <1>1, <1>2, <1>3, <1>6, <1>7 DEF PackingKeepsOrder

(* lxmfSync.js packPaperUris: a chunk becomes a paper message. *)
LEMMA BuildFitsInOrder ==
    ASSUME IInv, PackingKeepsOrder, BuildFits
    PROVE  PackingKeepsOrder'
<1> DEFINE u == FlattenSeq(uris)
           c == Head(chunks)
           k == FlattenSeq(Tail(chunks))
<1>1. uris \in Seq(Chunk) /\ chunks \in Seq(Chunk) /\ chunks # <<>>
  BY DEF IInv, TypeOK, BuildFits
<1>2. c \in Chunk /\ Tail(chunks) \in Seq(Chunk) /\ FlattenSeq(chunks) = c \o k
  BY <1>1, HeadFirst, FlattenHead
<1>3. u \in Seq(Delta) /\ c \in Seq(Delta) /\ k \in Seq(Delta)
  BY <1>1, <1>2, FlattenType DEF Chunk
<1>4. FlattenSeq(Append(uris, c)) = u \o c
  BY <1>1, <1>2, FlattenAppend
<1>5. (u \o c) \o k = u \o (c \o k)
  <2> HIDE DEF u, c, k
  <2> QED
    BY <1>3, ConcatAssociative
<1>6. /\ uris' = Append(uris, c) /\ chunks' = Tail(chunks)
      /\ UNCHANGED <<chosen, current, todo>>
  BY DEF BuildFits
<1> QED
  BY <1>2, <1>4, <1>5, <1>6 DEF PackingKeepsOrder

(* lxmfSync.js packPaperUris: a chunk is halved. *)
LEMMA BuildHalvesInOrder ==
    ASSUME IInv, PackingKeepsOrder, BuildHalves
    PROVE  PackingKeepsOrder'
<1>1. FlattenSeq(Halves(Head(chunks)) \o Tail(chunks)) = FlattenSeq(chunks)
  BY HalvedInOrder DEF IInv, TypeOK, BuildHalves
<1>2. /\ chunks' = Halves(Head(chunks)) \o Tail(chunks)
      /\ UNCHANGED <<chosen, uris, current, todo>>
  BY DEF BuildHalves
<1> QED
  BY <1>1, <1>2 DEF PackingKeepsOrder

LEMMA NextInOrder == IInv /\ PackingKeepsOrder /\ [Next]_vars => PackingKeepsOrder'
<1> SUFFICES ASSUME IInv, PackingKeepsOrder, [Next]_vars PROVE PackingKeepsOrder'
  OBVIOUS
<1>1. CASE \E o \in Overheads : ExportStart(o)
  BY <1>1, ExportStartInOrder
<1>2. CASE PackNext \/ PackEnd
  BY <1>2, PackNextInOrder, PackEndInOrder
<1>3. CASE BuildFits \/ BuildHalves
  BY <1>3, BuildFitsInOrder, BuildHalvesInOrder
<1>4. CASE BuildFails \/ PrintManifest
  BY <1>4, OrderOfNothing DEF BuildFails, PrintManifest, NoJob
<1>5. CASE BuildEnd \/ PrintSheet
  BY <1>5, LeftKept DEF BuildEnd, PrintSheet, packing
<1>6. CASE UNCHANGED exporting
  BY <1>6, LeftKept DEF exporting, packing
<1>7. CASE \E K \in SUBSET Delta : ImportStart(K)
  BY <1>6, <1>7 DEF ImportStart
<1>8. CASE (\E s \in sheets : Scan(s)) \/ (\E h \in handlers : Handle(h))
  BY <1>6, <1>8 DEF Scan, Handle
<1>9. CASE ScanEnd \/ ImportSave \/ ImportCheck \/ ImportStop
  BY <1>6, <1>9 DEF ScanEnd, ImportSave, ImportCheck, ImportStop
<1>10. CASE UNCHANGED vars
  BY <1>6, <1>10 DEF vars
<1> QED
  BY <1>1, <1>2, <1>3, <1>4, <1>5, <1>7, <1>8, <1>9, <1>10 DEF Next

(* lxmfSync.js packChunks, packPaperUris: packing and halving keep the       *)
(* deltas in order, lose none and repeat none, for any deltas and sizes.     *)
THEOREM OrderIsKept == Spec => []PackingKeepsOrder
<1>1. Init => PackingKeepsOrder
  <2>1. <<>> \o <<>> = <<>>
    OBVIOUS
  <2> QED
    BY <2>1, FlattenNone DEF Init, PackingKeepsOrder
<1> QED
  BY <1>1, NextInOrder, Invariance, PTL DEF Spec

------------------------------------------------------------------------------
(* The cost of a chunk: FoldLeft over its deltas, which the largest index   *)
(* is the last one of.                                                      *)
(* f sums up the sizes of each set of the first n places of c. *)
Adds(c, n, f) ==
    f = [s \in SUBSET (1 .. n) |->
            IF s = {} THEN Header ELSE f[s \ {Max(s)}] + Size[c[Max(s)]]]

LEMMA CostIsFold ==
    ASSUME NEW c \in Chunk
    PROVE  Cost(c) = (CHOOSE f : Adds(c, Len(c), f))[1 .. Len(c)]
<1>1. DOMAIN c = 1 .. Len(c)
  BY DEF Chunk
<1> QED
  BY <1>1 DEF Cost, FoldLeft, MapThenFoldSet, Adds

LEMMA Least ==
    ASSUME NEW U \in SUBSET Nat, U # {}
    PROVE  \E m \in U : \A k \in U : m <= k
<1>1. PICK m \in U : \A k \in U : ~ (<<k, m>> \in OpToRel(<, Nat))
  BY NatLessThanWellFounded, WFMin
<1>2. ASSUME NEW k \in U PROVE m <= k
  <2>1. m \in Nat /\ k \in Nat
    OBVIOUS
  <2>2. ~ (k < m)
    BY <1>1, <2>1 DEF OpToRel
  <2> QED
    BY <2>1, <2>2
<1> QED
  BY <1>2

LEMMA GreatestUpTo ==
    ASSUME NEW n \in Nat, NEW s \in SUBSET (0 .. n), s # {}
    PROVE  \E x \in s : \A y \in s : x >= y
<1> DEFINE U == {n - x : x \in s}
<1>1. U \subseteq Nat /\ U # {}
  <2>1. \A x \in s : n - x \in Nat
    OBVIOUS
  <2> QED
    BY <2>1
<1>2. PICK m \in U : \A k \in U : m <= k
  <2> HIDE DEF U
  <2> QED
    BY <1>1, Least
<1>3. PICK x \in s : m = n - x
  OBVIOUS
<1>4. ASSUME NEW y \in s PROVE x >= y
  <2>1. n - y \in U /\ m <= n - y
    BY <1>2
  <2>2. y \in Nat /\ x \in Nat /\ n - x <= n - y
    BY <1>3, <2>1
  <2> QED
    BY <2>2
<1> QED
  BY <1>4

LEMMA Greatest ==
    ASSUME NEW n \in Nat, NEW s \in SUBSET (1 .. n), s # {}
    PROVE  Max(s) \in s /\ \A y \in s : Max(s) >= y
<1>1. s \in SUBSET (0 .. n)
  OBVIOUS
<1>2. \E x \in s : \A y \in s : x >= y
  BY <1>1, GreatestUpTo
<1> QED
  BY <1>2 DEF Max

(* There is such a sum, ... *)
LEMMA AddsSolved ==
    ASSUME NEW c, NEW n \in Nat
    PROVE  \E f : Adds(c, n, f)
<1> DEFINE T == {m \in Nat : \E f : Adds(c, m, f)}
<1>1. 0 \in T
  <2>1. Adds(c, 0, [s \in SUBSET (1 .. 0) |-> Header])
    <3>1. \A s \in SUBSET (1 .. 0) : s = {}
      OBVIOUS
    <3> QED
      BY <3>1 DEF Adds
  <2> QED
    BY <2>1
<1>2. ASSUME NEW m \in T
      PROVE  m + 1 \in T
  <2>1. PICK f : Adds(c, m, f)
    BY <1>2
  <2> DEFINE n1 == m + 1
             g == [s \in SUBSET (1 .. n1) |->
                     IF n1 \in s THEN f[s \ {n1}] + Size[c[n1]] ELSE f[s]]
  <2>2. /\ m \in Nat /\ n1 \in Nat
        /\ \A s \in SUBSET (1 .. n1) : n1 \notin s => s \in SUBSET (1 .. m)
        /\ \A s \in SUBSET (1 .. n1) : s \ {n1} \in SUBSET (1 .. n1) /\ n1 \notin s \ {n1}
    OBVIOUS
  <2>3. \A s \in SUBSET (1 .. m) :
           f[s] = IF s = {} THEN Header ELSE f[s \ {Max(s)}] + Size[c[Max(s)]]
    BY <2>1, Zenon DEF Adds
  <2>4. ASSUME NEW s \in SUBSET (1 .. n1)
        PROVE  g[s] = IF s = {} THEN Header ELSE g[s \ {Max(s)}] + Size[c[Max(s)]]
    <3>1. CASE s = {}
      <4>1. g[s] = f[s] /\ f[s] = Header
        BY <3>1, <2>3
      <4> QED
        BY <3>1, <4>1
    <3>2. CASE n1 \in s
      <4>1. Max(s) \in s /\ \A y \in s : Max(s) >= y
        BY <2>2, <3>2, Greatest
      <4>2. Max(s) = n1
        <5>1. \A x \in s : x <= n1 /\ x \in Nat
          BY <2>2
        <5>2. Max(s) >= n1 /\ Max(s) <= n1 /\ Max(s) \in Nat
          BY <3>2, <4>1, <5>1
        <5> HIDE DEF n1
        <5> QED
          BY <2>2, <5>2
      <4>3. s \ {n1} \in SUBSET (1 .. n1) /\ n1 \notin s \ {n1}
        OBVIOUS
      <4> HIDE DEF n1
      <4>4. g[s] = f[s \ {n1}] + Size[c[n1]] /\ g[s \ {n1}] = f[s \ {n1}]
        BY <3>2, <4>3
      <4> QED
        BY <3>2, <4>2, <4>4
    <3>3. CASE s # {} /\ n1 \notin s
      <4>1. Max(s) \in s /\ s \in SUBSET (1 .. m)
        BY <2>2, <3>3, Greatest
      <4> DEFINE x == Max(s)
      <4> HIDE DEF n1, x
      <4>2. s \ {x} \in SUBSET (1 .. n1) /\ n1 \notin s \ {x}
        BY <3>3
      <4>3. g[s] = f[s] /\ g[s \ {x}] = f[s \ {x}]
        BY <3>3, <4>2
      <4>4. f[s] = f[s \ {x}] + Size[c[x]]
        BY <2>3, <3>3, <4>1 DEF x
      <4> QED
        BY <3>3, <4>3, <4>4 DEF x
    <3> QED
      BY <3>1, <3>2, <3>3
  <2>5. g = [s \in SUBSET (1 .. n1) |->
               IF s = {} THEN Header ELSE g[s \ {Max(s)}] + Size[c[Max(s)]]]
    BY <2>4, Zenon
  <2>6. Adds(c, n1, g)
    BY <2>5, Zenon DEF Adds
  <2> HIDE DEF g
  <2>7. \E h : Adds(c, n1, h)
    BY <2>6
  <2> QED
    BY <2>2, <2>7, Zenon
<1> HIDE DEF T
<1>3. T = Nat
  <2>1. T \in SUBSET Nat
    BY DEF T
  <2> QED
    BY <1>1, <1>2, <2>1, InductionOnNat
<1> QED
  BY <1>3 DEF T

(* ... and it adds the places one by one. *)
LEMMA AddsLast ==
    ASSUME NEW c, NEW n \in Nat, NEW f, Adds(c, n, f), NEW m \in 0 .. n
    PROVE  f[1 .. m] = IF m = 0 THEN Header ELSE f[1 .. m - 1] + Size[c[m]]
<1>1. 1 .. m \in SUBSET (1 .. n)
  OBVIOUS
<1>2. f[1 .. m] = IF 1 .. m = {} THEN Header
                  ELSE f[(1 .. m) \ {Max(1 .. m)}] + Size[c[Max(1 .. m)]]
  BY <1>1, Zenon DEF Adds
<1>3. CASE m = 0
  <2>1. 1 .. m = {}
    BY <1>3
  <2> QED
    BY <1>2, <1>3, <2>1
<1>4. CASE m # 0
  <2>1. m \in 1 .. m /\ 1 .. m # {} /\ m \in Nat
    BY <1>4
  <2> DEFINE x == Max(1 .. m)
  <2>2. x \in 1 .. m /\ \A y \in 1 .. m : x >= y
    BY <2>1, Greatest
  <2> HIDE DEF x
  <2>3. x = m
    BY <2>1, <2>2
  <2>4. (1 .. m) \ {m} = 1 .. m - 1
    BY <2>1
  <2> QED
    BY <1>2, <1>4, <2>1, <2>3, <2>4 DEF x
<1> QED
  BY <1>3, <1>4

LEMMA CostIsSum ==
    ASSUME NEW c \in Chunk
    PROVE  \E f : /\ Cost(c) = f[1 .. Len(c)]
                  /\ \A m \in 0 .. Len(c) :
                        f[1 .. m] = IF m = 0 THEN Header ELSE f[1 .. m - 1] + Size[c[m]]
<1> DEFINE n == Len(c)
           h == CHOOSE f : Adds(c, n, f)
<1>1. n \in Nat
  BY DEF Chunk
<1>2. \E f : Adds(c, n, f)
  <2> HIDE DEF n
  <2> QED
    BY <1>1, AddsSolved
<1>3. Adds(c, n, h)
  BY <1>2, Zenon
<1>4. Cost(c) = h[1 .. n]
  BY CostIsFold
<1> HIDE DEF n, h
<1>5. \A m \in 0 .. n : h[1 .. m] = IF m = 0 THEN Header ELSE h[1 .. m - 1] + Size[c[m]]
  BY <1>1, <1>3, AddsLast
<1> QED
  BY <1>4, <1>5 DEF n

LEMMA CostNone == Cost(<<>>) = Header
<1>1. <<>> \in Chunk /\ Len(<<>>) = 0
  BY DEF Chunk
<1>2. PICK f : /\ Cost(<<>>) = f[1 .. Len(<<>>)]
               /\ \A m \in 0 .. Len(<<>>) :
                    f[1 .. m] = IF m = 0 THEN Header ELSE f[1 .. m - 1] + Size[<<>>[m]]
  BY <1>1, CostIsSum, Zenon
<1>3. 0 \in 0 .. 0
  OBVIOUS
<1> QED
  BY <1>1, <1>2, <1>3, Zenon

(* lxmfSync.js encodeBatch: one payload more costs its size more. *)
LEMMA CostAppend ==
    ASSUME NEW c \in Chunk, NEW x \in Delta, NEW d, d = Append(c, x)
    PROVE  Cost(d) = Cost(c) + Size[x]
<1> DEFINE n == Len(c)
<1>1. /\ c \in Seq(Delta) /\ n \in Nat /\ d \in Chunk /\ Len(d) = n + 1
      /\ d[n + 1] = x /\ \A k \in 1 .. n : d[k] = c[k]
  BY AppendParts DEF Chunk
<1>2. PICK f : /\ Cost(c) = f[1 .. n]
               /\ \A m \in 0 .. n :
                    f[1 .. m] = IF m = 0 THEN Header ELSE f[1 .. m - 1] + Size[c[m]]
  BY CostIsSum
<1>3. PICK g : /\ Cost(d) = g[1 .. n + 1]
               /\ \A m \in 0 .. n + 1 :
                    g[1 .. m] = IF m = 0 THEN Header ELSE g[1 .. m - 1] + Size[d[m]]
  <2>1. \E g : /\ Cost(d) = g[1 .. Len(d)]
               /\ \A m \in 0 .. Len(d) :
                    g[1 .. m] = IF m = 0 THEN Header ELSE g[1 .. m - 1] + Size[d[m]]
    BY <1>1, CostIsSum
  <2> HIDE DEF n
  <2>2. Len(d) = n + 1
    BY <1>1
  <2> QED
    BY <2>1, <2>2, Zenon
<1> HIDE DEF n
<1> DEFINE T == {m \in Nat : m \in 0 .. n => f[1 .. m] = g[1 .. m]}
<1>4. 0 \in T
  <2>1. 0 \in 0 .. n /\ 0 \in 0 .. n + 1
    BY <1>1
  <2>2. f[1 .. 0] = Header /\ g[1 .. 0] = Header
    BY <1>2, <1>3, <2>1, Zenon
  <2> QED
    BY <2>2
<1>5. ASSUME NEW m \in T PROVE m + 1 \in T
  <2>1. m \in Nat
    OBVIOUS
  <2>2. ASSUME m + 1 \in 0 .. n PROVE f[1 .. m + 1] = g[1 .. m + 1]
    <3> DEFINE k == m + 1
    <3>1. /\ k \in 0 .. n /\ k \in 0 .. n + 1 /\ k # 0 /\ k - 1 = m /\ k \in 1 .. n
          /\ m \in 0 .. n /\ n + 1 \in Nat
      BY <1>1, <2>1, <2>2
    <3>2. f[1 .. m] = g[1 .. m]
      BY <3>1, <1>5
    <3> HIDE DEF k
    <3>3. f[1 .. k] = f[1 .. k - 1] + Size[c[k]] /\ g[1 .. k] = g[1 .. k - 1] + Size[d[k]]
      BY <1>2, <1>3, <3>1, Zenon
    <3>4. f[1 .. k] = g[1 .. k]
      BY <1>1, <3>1, <3>2, <3>3
    <3> QED
      BY <3>4 DEF k
  <2> QED
    BY <2>1, <2>2
<1> HIDE DEF T
<1>6. T = Nat
  <2>1. T \in SUBSET Nat
    BY DEF T
  <2> QED
    BY <1>4, <1>5, <2>1, InductionOnNat
<1>7. f[1 .. n] = g[1 .. n]
  <2>1. n \in T /\ n \in 0 .. n
    BY <1>1, <1>6
  <2> QED
    BY <2>1 DEF T
<1>8. g[1 .. n + 1] = g[1 .. n] + Size[x]
  <2>1. n + 1 \in Nat /\ n + 1 \in 0 .. n + 1 /\ n + 1 # 0 /\ (n + 1) - 1 = n
    BY <1>1
  <2>2. g[1 .. n + 1] = g[1 .. (n + 1) - 1] + Size[d[n + 1]]
    BY <1>3, <2>1, Zenon
  <2> QED
    BY <1>1, <2>1, <2>2
<1> QED
  BY <1>2, <1>3, <1>7, <1>8

LEMMA CostType ==
    ASSUME NEW c \in Chunk
    PROVE  Cost(c) \in Nat /\ Cost(c) >= Header
<1> DEFINE T == {n \in Nat : \A d \in Chunk : Len(d) = n => Cost(d) \in Nat /\ Cost(d) >= Header}
<1>1. 0 \in T
  <2>1. ASSUME NEW d \in Chunk, Len(d) = 0 PROVE d = <<>>
    BY <2>1 DEF Chunk
  <2>2. Header \in Nat /\ Header >= Header
    BY PaperAssumption
  <2>3. \A d \in Chunk : Len(d) = 0 => Cost(d) \in Nat /\ Cost(d) >= Header
    BY <2>1, <2>2, CostNone
  <2> QED
    BY <2>3
<1>2. ASSUME NEW n \in T PROVE n + 1 \in T
  <2>1. ASSUME NEW d \in Chunk, Len(d) = n + 1
        PROVE  Cost(d) \in Nat /\ Cost(d) >= Header
    <3>1. n \in Nat /\ d \in Seq(Delta) /\ d # <<>>
      BY <1>2, <2>1 DEF Chunk
    <3>2. PICK e \in Seq(Delta), x \in Delta : d = Append(e, x)
      BY <3>1, SequenceEmptyOrAppend
    <3>3. Len(e) = n /\ e \in Chunk
      BY <3>1, <3>2, <2>1 DEF Chunk
    <3>4. Cost(e) \in Nat /\ Cost(e) >= Header
      BY <1>2, <3>3
    <3>5. Cost(d) = Cost(e) + Size[x] /\ Size[x] \in Nat /\ Header \in Nat
      BY <3>2, <3>3, CostAppend, PaperAssumption
    <3> QED
      BY <3>4, <3>5
  <2>2. n + 1 \in Nat
    OBVIOUS
  <2> QED
    BY <2>1, <2>2
<1> HIDE DEF T
<1>3. T = Nat
  <2>1. T \in SUBSET Nat
    BY DEF T
  <2> QED
    BY <1>1, <1>2, <2>1, InductionOnNat
<1>4. Len(c) \in Nat
  BY DEF Chunk
<1> QED
  BY <1>3, <1>4 DEF T

(* A run that ends one later bears one more. *)
LEMMA RunLonger ==
    ASSUME NEW s \in Chunk, NEW i \in Nat, i >= 1, NEW j \in Nat, i <= j + 1, j + 1 <= Len(s)
    PROVE  /\ SubSeq(s, i, j) \in Chunk /\ s[j + 1] \in Delta
           /\ SubSeq(s, i, j + 1) = Append(SubSeq(s, i, j), s[j + 1])
           /\ SubSeq(s, i, j + 1) \in Chunk
<1> DEFINE n == j + 1
<1>1. /\ s \in Seq(Delta) /\ Len(s) \in Nat /\ \A k \in 1 .. Len(s) : s[k] \in Delta
      /\ n \in Nat /\ i \in 1 .. Len(s) /\ n \in i .. Len(s) /\ n - 1 = j /\ n \in 1 .. Len(s)
      /\ j \in Int /\ i \in Int /\ i <= n
  BY DEF Chunk
<1>2. SubSeq(s, i, j) \in Seq(Delta)
  <2>1. \A k \in i .. j : s[k] \in Delta
    BY <1>1
  <2> QED
    BY <1>1, <2>1, SubSeqProperties
<1> HIDE DEF n
<1>3. SubSeq(s, i, n) = SubSeq(s, i, n - 1) \o <<s[n]>>
  BY <1>1, SubSeqRecursiveSecond
<1>4. s[n] \in Delta
  BY <1>1
<1>5. Append(SubSeq(s, i, j), s[n]) = SubSeq(s, i, j) \o <<s[n]>>
  BY <1>2, <1>4, AppendIsConcat
<1>6. SubSeq(s, i, n) = Append(SubSeq(s, i, j), s[n])
  BY <1>1, <1>3, <1>5
<1>7. Append(SubSeq(s, i, j), s[n]) \in Seq(Delta)
  BY <1>2, <1>4, AppendProperties
<1> QED
  BY <1>2, <1>4, <1>6, <1>7 DEF n, Chunk

LEMMA RunCost ==
    ASSUME NEW s \in Chunk, NEW i \in Nat, i >= 1, NEW j \in Nat, i <= j + 1, j + 1 <= Len(s)
    PROVE  /\ Cost(SubSeq(s, i, j + 1)) = Cost(SubSeq(s, i, j)) + Size[s[j + 1]]
           /\ Cost(SubSeq(s, i, j)) \in Nat /\ Cost(SubSeq(s, i, j + 1)) \in Nat
           /\ Size[s[j + 1]] \in Nat
<1>1. /\ SubSeq(s, i, j) \in Chunk /\ s[j + 1] \in Delta
      /\ SubSeq(s, i, j + 1) = Append(SubSeq(s, i, j), s[j + 1])
      /\ SubSeq(s, i, j + 1) \in Chunk
  BY RunLonger
<1>2. Size[s[j + 1]] \in Nat
  BY <1>1, PaperAssumption
<1>3. Cost(SubSeq(s, i, j + 1)) = Cost(SubSeq(s, i, j)) + Size[s[j + 1]]
  BY <1>1, CostAppend
<1> QED
  BY <1>1, <1>2, <1>3, CostType

LEMMA NoRun ==
    ASSUME NEW s, NEW i \in Nat, NEW j \in Nat, j < i
    PROVE  SubSeq(s, i, j) = <<>>
BY SubSeqEmpty

(* lxmfSync.js encodeBatch: a longer run costs no less. *)
LEMMA CostMonotone ==
    ASSUME NEW s \in Chunk,
           NEW i1 \in Nat, NEW i2 \in Nat, NEW j1 \in Nat, NEW j2 \in Nat,
           1 <= i1, i1 <= i2, j1 <= j2, j2 <= Len(s)
    PROVE  Cost(SubSeq(s, i2, j1)) <= Cost(SubSeq(s, i1, j2))
<1> DEFINE Grows(j) == \A k \in Nat : k <= j => Cost(SubSeq(s, i2, k)) <= Cost(SubSeq(s, i1, j))
           T == {j \in Nat : j <= Len(s) => Grows(j)}
<1>0. Len(s) \in Nat /\ Header \in Nat
  BY PaperAssumption DEF Chunk
<1>1. 0 \in T
  <2>1. SubSeq(s, i2, 0) = <<>> /\ SubSeq(s, i1, 0) = <<>>
    BY NoRun
  <2>2. ASSUME NEW k \in Nat, k <= 0 PROVE k = 0
    BY <2>2
  <2>3. Cost(<<>>) <= Cost(<<>>)
    BY <1>0, CostNone
  <2>4. Grows(0)
    BY <2>1, <2>2, <2>3
  <2> QED
    BY <2>4
<1>2. ASSUME NEW j \in T PROVE j + 1 \in T
  <2>1. j \in Nat
    OBVIOUS
  <2>2. ASSUME j + 1 <= Len(s) PROVE Grows(j + 1)
    <3>1. SUFFICES ASSUME NEW k \in Nat, k <= j + 1
                   PROVE  Cost(SubSeq(s, i2, k)) <= Cost(SubSeq(s, i1, j + 1))
      OBVIOUS
    <3>2. Grows(j)
      <4>1. j <= Len(s)
        BY <1>0, <2>1, <2>2
      <4> QED
        BY <1>2, <4>1
    <3>3. CASE j + 1 < i1
      <4>1. SubSeq(s, i2, k) = <<>> /\ SubSeq(s, i1, j + 1) = <<>>
        <5>1. j + 1 \in Nat /\ k < i2
          BY <2>1, <3>1, <3>3
        <5> QED
          BY <3>3, <5>1, NoRun
      <4>2. Cost(<<>>) <= Cost(<<>>)
        BY <1>0, CostNone
      <4> QED
        BY <4>1, <4>2, Zenon
    <3>4. CASE ~ (j + 1 < i1)
      <4>1. /\ Cost(SubSeq(s, i1, j + 1)) = Cost(SubSeq(s, i1, j)) + Size[s[j + 1]]
            /\ Cost(SubSeq(s, i1, j)) \in Nat /\ Size[s[j + 1]] \in Nat
        <5>1. i1 <= j + 1
          BY <2>1, <3>4
        <5> QED
          BY <2>1, <2>2, <5>1, RunCost
      <4>2. CASE k <= j
        <5>1. Cost(SubSeq(s, i2, k)) <= Cost(SubSeq(s, i1, j))
          BY <3>2, <4>2
        <5>2. Cost(SubSeq(s, i2, k)) \in Nat
          <6>1. SubSeq(s, i2, k) \in Chunk
            <7>1. \A m \in i2 .. k : s[m] \in Delta
              BY <2>1, <2>2, <3>1 DEF Chunk
            <7> QED
              BY <7>1, SubSeqProperties DEF Chunk
          <6> QED
            BY <6>1, CostType
        <5> QED
          BY <4>1, <5>1, <5>2
      <4>3. CASE k = j + 1 /\ i2 <= j + 1
        <5>1. /\ Cost(SubSeq(s, i2, j + 1)) = Cost(SubSeq(s, i2, j)) + Size[s[j + 1]]
              /\ Cost(SubSeq(s, i2, j)) \in Nat
          <6>1. i2 >= 1
            OBVIOUS
          <6> QED
            BY <2>1, <2>2, <4>3, <6>1, RunCost
        <5>2. Cost(SubSeq(s, i2, j)) <= Cost(SubSeq(s, i1, j))
          BY <2>1, <3>2
        <5> QED
          BY <4>1, <4>3, <5>1, <5>2
      <4>4. CASE k = j + 1 /\ ~ (i2 <= j + 1)
        <5>1. SubSeq(s, i2, k) = <<>> /\ SubSeq(s, i2, 0) = <<>>
          BY <2>1, <4>4, NoRun
        <5>2. Cost(SubSeq(s, i2, 0)) <= Cost(SubSeq(s, i1, j))
          BY <2>1, <3>2
        <5>3. Cost(SubSeq(s, i2, k)) = Header /\ Header <= Cost(SubSeq(s, i1, j))
          BY <5>1, <5>2, CostNone, Zenon
        <5>4. Header <= Cost(SubSeq(s, i1, j + 1))
          BY <1>0, <4>1, <5>3
        <5> QED
          BY <5>3, <5>4, Zenon
      <4> QED
        BY <2>1, <3>1, <4>2, <4>3, <4>4
    <3> QED
      BY <3>3, <3>4
  <2> QED
    BY <2>1, <2>2
<1> HIDE DEF T
<1>3. T = Nat
  <2>1. T \in SUBSET Nat
    BY DEF T
  <2> QED
    BY <1>1, <1>2, <2>1, InductionOnNat
<1>4. Grows(j2)
  BY <1>3 DEF T
<1> QED
  BY <1>4

------------------------------------------------------------------------------
(* Greedy packing stays ahead of every other split. *)
(* The splits of the chosen deltas into chunks within the budget, each by    *)
(* the places it cuts at.                                                    *)
GoodCuts == {cuts \in SUBSET (1 .. Len(chosen) - 1) :
                \A part \in Parts(chosen, cuts) : WithinBudget(part)}

(* No such split has fewer cuts in the packed chunks than there are chunks.  *)
PackedAhead ==
    ex = "pack" =>
        /\ \A k \in DOMAIN chunks : WithinBudget(chunks[k])
        /\ current # <<>> => WithinBudget(current)
        /\ \A cuts \in GoodCuts :
              Len(chunks) <= Cardinality(cuts \cap (1 .. Len(FlattenSeq(chunks))))

(* A run that costs more than the budget is cut somewhere: the part between   *)
(* the last cut before it and the first one after it would cost no less.      *)
LEMMA SomeCut ==
    ASSUME NEW s \in Chunk, NEW cuts \in SUBSET (1 .. Len(s) - 1),
           \A part \in Parts(s, cuts) : WithinBudget(part),
           NEW b \in Nat, NEW e \in Nat, b + 1 <= e, e + 1 <= Len(s),
           Cost(SubSeq(s, b + 1, e + 1)) > Budget
    PROVE  \E c \in cuts : b < c /\ c <= e
<1>1. SUFFICES ASSUME \A c \in cuts : ~ (b < c /\ c <= e)
               PROVE  FALSE
  OBVIOUS
<1>2. Len(s) \in Nat /\ cuts \subseteq Nat /\ \A k \in 1 .. Len(s) : s[k] \in Delta
  BY DEF Chunk
<1> DEFINE Below == {c \in cuts \cup {0} : c <= b}
           Above == {c \in cuts \cup {Len(s)} : c > e}
<1>3. PICK lo \in Below : \A c \in Below : lo >= c
  <2>1. Below \in SUBSET (0 .. b) /\ Below # {}
    <3>1. 0 \in Below
      OBVIOUS
    <3>2. \A c \in Below : c \in 0 .. b
      BY <1>2
    <3> QED
      BY <3>1, <3>2
  <2> HIDE DEF Below
  <2> QED
    BY <2>1, GreatestUpTo
<1>4. PICK hi \in Above : \A c \in Above : hi <= c
  <2>1. Above \in SUBSET Nat /\ Above # {}
    <3>1. Len(s) \in Above
      BY <1>2
    <3>2. \A c \in Above : c \in Nat
      BY <1>2
    <3> QED
      BY <3>1, <3>2
  <2> HIDE DEF Above
  <2> QED
    BY <2>1, Least
<1>5. /\ lo \in cuts \cup {0} /\ hi \in cuts \cup {Len(s)}
      /\ lo \in Nat /\ hi \in Nat /\ lo <= b /\ e < hi /\ hi <= Len(s) /\ lo < hi
  BY <1>2
<1>6. ASSUME NEW c \in cuts PROVE ~ (lo < c /\ c < hi)
  <2>1. c \in Nat /\ (c <= b \/ c > e)
    BY <1>1, <1>2
  <2>2. CASE c <= b
    <3>1. c \in Below
      BY <2>2
    <3>2. lo >= c
      BY <1>3, <3>1
    <3> QED
      BY <1>5, <2>1, <3>2
  <2>3. CASE c > e
    <3>1. c \in Above
      BY <2>3
    <3>2. hi <= c
      BY <1>4, <3>1
    <3> QED
      BY <1>5, <2>1, <3>2
  <2> QED
    BY <2>1, <2>2, <2>3
<1> HIDE DEF Below, Above
<1> DEFINE part == SubSeq(s, lo + 1, hi)
<1>7. part \in Parts(s, cuts)
  <2> DEFINE p == <<lo, hi>>
  <2>1. p \in (cuts \cup {0}) \X (cuts \cup {Len(s)}) /\ p[1] = lo /\ p[2] = hi
    BY <1>5
  <2>2. p[1] < p[2] /\ \A k \in cuts : ~ (p[1] < k /\ k < p[2])
    BY <1>5, <1>6, <2>1
  <2>3. part = SubSeq(s, p[1] + 1, p[2])
    BY <2>1
  <2> HIDE DEF p, part
  <2> QED
    BY <2>1, <2>2, <2>3 DEF Parts
<1>8. part \in Chunk /\ Len(part) = hi - lo
  <2>1. \A k \in lo + 1 .. hi : s[k] \in Delta
    BY <1>2, <1>5
  <2>2. lo + 1 \in Int /\ hi \in Int
    BY <1>5
  <2>3. /\ SubSeq(s, lo + 1, hi) \in Seq(Delta)
        /\ Len(SubSeq(s, lo + 1, hi)) = IF lo + 1 <= hi THEN hi - (lo + 1) + 1 ELSE 0
    BY <2>1, <2>2, SubSeqProperties
  <2> QED
    BY <1>5, <2>3 DEF Chunk
<1>9. Cost(part) <= Budget
  <2>1. WithinBudget(part)
    BY <1>7
  <2>2. Len(part) # 1
    BY <1>5, <1>8
  <2> QED
    BY <2>1, <2>2 DEF WithinBudget
<1>10. Cost(SubSeq(s, b + 1, e + 1)) <= Cost(part)
  <2>1. /\ lo + 1 \in Nat /\ b + 1 \in Nat /\ e + 1 \in Nat /\ 1 <= lo + 1
        /\ lo + 1 <= b + 1 /\ e + 1 <= hi
    BY <1>5
  <2> QED
    BY <1>5, <2>1, CostMonotone
<1>11. Cost(SubSeq(s, b + 1, e + 1)) \in Nat /\ Cost(part) \in Nat /\ Budget \in Nat
  <2>1. SubSeq(s, b + 1, e + 1) \in Chunk
    <3>1. \A k \in b + 1 .. e + 1 : s[k] \in Delta
      BY <1>2
    <3>2. b + 1 \in Int /\ e + 1 \in Int
      OBVIOUS
    <3> QED
      BY <3>1, <3>2, SubSeqProperties DEF Chunk
  <2> QED
    BY <1>8, <2>1, CostType, PaperAssumption
<1> HIDE DEF part
<1> QED
  BY <1>9, <1>10, <1>11

(* What is being packed next is a run of the whole. *)
LEMMA NextRun ==
    ASSUME NEW f \in Chunk, NEW c \in Chunk, NEW q \in Chunk, q # <<>>,
           NEW s, s = f \o c \o q
    PROVE  /\ s \in Chunk /\ Len(f) + Len(c) + 1 <= Len(s)
           /\ SubSeq(s, Len(f) + 1, Len(f) + Len(c) + 1) = Append(c, Head(q))
<1> DEFINE d == Append(c, Head(q))
           t == Tail(q)
           w == d \o t
<1>1. /\ f \in Seq(Delta) /\ c \in Seq(Delta) /\ q \in Seq(Delta)
      /\ Len(f) \in Nat /\ Len(c) \in Nat
  BY DEF Chunk
<1>2. Head(q) \in Delta /\ t \in Seq(Delta)
  BY <1>1, HeadFirst
<1>3. d \in Seq(Delta) /\ Len(d) = Len(c) + 1
  BY <1>1, <1>2, AppendProperties
<1>4. c \o q = w
  BY <1>1, ShiftHead
<1> HIDE DEF d, t
<1>5. w \in Seq(Delta) /\ Len(w) = Len(d) + Len(t) /\ Len(t) \in Nat
  <2>1. d \o t \in Seq(Delta) /\ Len(d \o t) = Len(d) + Len(t)
    BY <1>2, <1>3, ConcatProperties
  <2>2. Len(t) \in Nat
    BY <1>2
  <2> QED
    BY <2>1, <2>2
<1>6. SubSeq(w, 1, Len(d)) = d
  <2>1. 1 \in 1 .. Len(d) /\ Len(d) \in 1 .. Len(d)
    BY <1>1, <1>3
  <2>2. SubSeq(d \o t, 1, Len(d)) = SubSeq(d, 1, Len(d))
    BY <1>2, <1>3, <2>1, SubSeqOfConcat1
  <2> QED
    BY <1>3, <2>2, SubSeqFull
<1>7. s = f \o w
  <2>1. (f \o c) \o q = f \o (c \o q)
    BY <1>1, ConcatAssociative
  <2> QED
    BY <1>4, <2>1
<1> HIDE DEF w
<1>8. s \in Seq(Delta) /\ Len(s) = Len(f) + Len(w)
  <2>1. f \o w \in Seq(Delta) /\ Len(f \o w) = Len(f) + Len(w)
    BY <1>1, <1>5, ConcatProperties
  <2> QED
    BY <1>7, <2>1, Zenon
<1>9. SubSeq(s, Len(f) + 1, Len(f) + Len(c) + 1) = SubSeq(w, 1, Len(d))
  <2> DEFINE m == Len(f) + 1
             n == Len(f) + Len(c) + 1
  <2>1. /\ m \in Len(f) + 1 .. Len(f) + Len(w) /\ n \in Len(f) + 1 .. Len(f) + Len(w)
        /\ m - Len(f) = 1 /\ n - Len(f) = Len(d)
    BY <1>1, <1>3, <1>5
  <2> HIDE DEF m, n
  <2>2. SubSeq(f \o w, m, n) = SubSeq(w, m - Len(f), n - Len(f))
    BY <1>1, <1>5, <2>1, SubSeqOfConcat2
  <2>3. SubSeq(s, m, n) = SubSeq(w, 1, Len(d))
    BY <1>7, <2>1, <2>2, Zenon
  <2> QED
    BY <2>3 DEF m, n
<1>10. Len(f) + Len(c) + 1 <= Len(s)
  BY <1>1, <1>3, <1>5, <1>8
<1> QED
  BY <1>6, <1>8, <1>9, <1>10 DEF d, Chunk

LEMMA CutsFinite ==
    ASSUME NEW cuts, NEW n \in Nat
    PROVE  IsFiniteSet(cuts \cap (1 .. n)) /\ Cardinality(cuts \cap (1 .. n)) \in Nat
<1>1. IsFiniteSet(1 .. n)
  BY FS_Interval
<1>2. IsFiniteSet(cuts \cap (1 .. n))
  BY <1>1, FS_Subset
<1> QED
  BY <1>2, FS_CardinalityType

(* A cut between b and e makes one more up to e. *)
LEMMA OneMoreCut ==
    ASSUME NEW cuts, NEW b \in Nat, NEW e \in Nat, b <= e,
           NEW c \in cuts, c \in Nat, b < c, c <= e
    PROVE  Cardinality(cuts \cap (1 .. b)) + 1 <= Cardinality(cuts \cap (1 .. e))
<1> DEFINE A == cuts \cap (1 .. b)
           B == cuts \cap (1 .. e)
<1>1. IsFiniteSet(A) /\ IsFiniteSet(B)
  BY CutsFinite
<1>2. c \notin A /\ A \cup {c} \subseteq B
  OBVIOUS
<1> HIDE DEF A, B
<1>3. IsFiniteSet(A \cup {c}) /\ Cardinality(A \cup {c}) = Cardinality(A) + 1
  BY <1>1, <1>2, FS_AddElement
<1>4. Cardinality(A \cup {c}) <= Cardinality(B)
  BY <1>1, <1>2, FS_Subset
<1> QED
  BY <1>3, <1>4 DEF A, B

LEMMA ExportStartAhead ==
    ASSUME IInv, NEW o \in Overheads, ExportStart(o)
    PROVE  PackedAhead'
<1>1. chunks' = <<>> /\ current' = <<>>
  BY DEF IInv, PhasesInOrder, ExportStart
<1>2. Len(<<>>) = 0 /\ DOMAIN <<>> = {} /\ 0 \in Nat
  OBVIOUS
<1>3. \A cuts : 0 <= Cardinality(cuts \cap (1 .. 0))
  BY CutsFinite
<1> QED
  BY <1>1, <1>2, <1>3, FlattenNone DEF PackedAhead, GoodCuts

LEMMA ChunkIsFlat ==
    ASSUME NEW c \in Chunk, NEW k \in Seq(Chunk)
    PROVE  /\ Len(FlattenSeq(Append(k, c))) = Len(FlattenSeq(k)) + Len(c)
           /\ Len(FlattenSeq(k)) \in Nat /\ Len(c) \in Nat
<1>1. FlattenSeq(k) \in Seq(Delta) /\ c \in Seq(Delta)
  BY FlattenType DEF Chunk
<1>2. Len(FlattenSeq(k) \o c) = Len(FlattenSeq(k)) + Len(c)
  BY <1>1, ConcatProperties
<1>3. FlattenSeq(Append(k, c)) = FlattenSeq(k) \o c
  BY FlattenAppend
<1> QED
  BY <1>1, <1>2, <1>3

(* lxmfSync.js packChunks: a chunk is only ended when it and the next payload *)
(* cost more than the budget, and then every split has a cut in it.           *)
LEMMA PackNextAhead ==
    ASSUME IInv, PackingKeepsOrder, PackedAhead, PackNext
    PROVE  PackedAhead'
<1>1. /\ ex = "pack" /\ uris = <<>> /\ chunks \in Seq(Chunk) /\ current \in Chunk
      /\ todo \in Chunk /\ todo # <<>> /\ chosen' = chosen
  BY DEF IInv, TypeOK, PhasesInOrder, PackNext
<1>2. Head(todo) \in Delta
  BY <1>1, HeadFirst DEF Chunk
<1>3. GoodCuts' = GoodCuts
  BY <1>1 DEF GoodCuts
<1>4. CASE ~ Overflows
  <2>1. chunks' = chunks /\ current' = Append(current, Head(todo))
    BY <1>4 DEF PackNext
  <2>2. WithinBudget(Append(current, Head(todo)))
    <3>1. CASE current = <<>>
      <4>1. Append(<<>>, Head(todo)) = <<Head(todo)>> /\ Len(<<Head(todo)>>) = 1
        OBVIOUS
      <4> QED
        BY <3>1, <4>1 DEF WithinBudget
    <3>2. CASE current # <<>>
      <4>1. Append(current, Head(todo)) \in Chunk
        BY <1>1, <1>2, AppendProperties DEF Chunk
      <4>2. Cost(Append(current, Head(todo))) \in Nat /\ Budget \in Nat
        BY <4>1, CostType, PaperAssumption
      <4>3. ~ (Cost(Append(current, Head(todo))) > Budget)
        BY <1>4, <3>2 DEF Overflows
      <4> QED
        BY <4>2, <4>3 DEF WithinBudget
    <3> QED
      BY <3>1, <3>2
  <2> QED
    BY <1>1, <1>3, <2>1, <2>2 DEF PackedAhead
<1>5. CASE Overflows
  <2> DEFINE b == Len(FlattenSeq(chunks))
             e == b + Len(current)
             cc == Append(chunks, current)
  <2>1. chunks' = cc /\ current' = <<Head(todo)>> /\ current # <<>>
    BY <1>5 DEF PackNext, Overflows
  <2>2. \A k \in DOMAIN cc : WithinBudget(cc[k])
    <3>1. /\ \A k \in 1 .. Len(chunks) : cc[k] = chunks[k]
          /\ cc[Len(chunks) + 1] = current /\ DOMAIN cc = 1 .. Len(chunks) + 1
          /\ Len(chunks) \in Nat
      BY <1>1
    <3>2. WithinBudget(current) /\ \A k \in 1 .. Len(chunks) : WithinBudget(chunks[k])
      BY <1>1, <2>1 DEF PackedAhead
    <3>3. \A k \in DOMAIN cc : k \in 1 .. Len(chunks) \/ k = Len(chunks) + 1
      BY <3>1
    <3> HIDE DEF cc
    <3> QED
      BY <3>1, <3>2, <3>3
  <2>3. WithinBudget(<<Head(todo)>>)
    BY DEF WithinBudget
  <2>4. /\ b \in Nat /\ e \in Nat /\ b + 1 <= e /\ b <= e
        /\ Len(cc) = Len(chunks) + 1 /\ Len(chunks) \in Nat /\ Len(FlattenSeq(cc)) = e
    <3>1. Len(FlattenSeq(cc)) = b + Len(current) /\ b \in Nat /\ Len(current) \in Nat
      BY <1>1, ChunkIsFlat
    <3>2. Len(current) # 0
      BY <1>1, <2>1 DEF Chunk
    <3>3. Len(cc) = Len(chunks) + 1 /\ Len(chunks) \in Nat
      BY <1>1
    <3> HIDE DEF b, cc
    <3> QED
      BY <3>1, <3>2, <3>3
  <2>5. /\ chosen \in Chunk /\ e + 1 <= Len(chosen)
        /\ SubSeq(chosen, b + 1, e + 1) = Append(current, Head(todo))
    <3>1. FlattenSeq(chunks) \in Chunk
      BY <1>1, FlattenType
    <3>2. chosen = FlattenSeq(chunks) \o current \o todo
      <4>1. <<>> \o FlattenSeq(chunks) = FlattenSeq(chunks)
        BY <3>1, ConcatEmptySeq DEF Chunk
      <4> QED
        BY <1>1, <4>1, FlattenNone DEF PackingKeepsOrder
    <3> QED
      BY <1>1, <3>1, <3>2, NextRun
  <2> HIDE DEF b, e, cc
  <2>6. Cost(SubSeq(chosen, b + 1, e + 1)) > Budget
    BY <1>5, <2>5 DEF Overflows
  <2>7. ASSUME NEW cuts \in GoodCuts
        PROVE  Len(cc) <= Cardinality(cuts \cap (1 .. e))
    <3>1. /\ cuts \in SUBSET (1 .. Len(chosen) - 1)
          /\ \A part \in Parts(chosen, cuts) : WithinBudget(part)
      BY DEF GoodCuts
    <3>2. PICK c \in cuts : b < c /\ c <= e
      BY <2>4, <2>5, <2>6, <3>1, SomeCut
    <3>3. c \in Nat
      BY <3>1
    <3>4. Cardinality(cuts \cap (1 .. b)) + 1 <= Cardinality(cuts \cap (1 .. e))
      BY <2>4, <3>2, <3>3, OneMoreCut
    <3>5. Len(chunks) <= Cardinality(cuts \cap (1 .. b))
      BY <1>1 DEF PackedAhead, b
    <3>6. /\ Cardinality(cuts \cap (1 .. b)) \in Nat
          /\ Cardinality(cuts \cap (1 .. e)) \in Nat
      BY <2>4, CutsFinite
    <3> QED
      BY <2>4, <3>4, <3>5, <3>6
  <2> QED
    BY <1>3, <2>1, <2>2, <2>3, <2>4, <2>7 DEF PackedAhead
<1> QED
  BY <1>4, <1>5

LEMMA NextAhead == IInv /\ PackingKeepsOrder /\ PackedAhead /\ [Next]_vars => PackedAhead'
<1> SUFFICES ASSUME IInv, PackingKeepsOrder, PackedAhead, [Next]_vars PROVE PackedAhead'
  OBVIOUS
<1>1. CASE \E o \in Overheads : ExportStart(o)
  BY <1>1, ExportStartAhead
<1>2. CASE PackNext
  BY <1>2, PackNextAhead
<1>3. CASE ex' # "pack"
  BY <1>3 DEF PackedAhead
<1>4. CASE PackEnd \/ BuildFits \/ BuildHalves \/ BuildFails \/ BuildEnd \/ PrintSheet \/ PrintManifest
  BY <1>3, <1>4 DEF PackEnd, BuildFits, BuildHalves, BuildFails, BuildEnd, PrintSheet, PrintManifest
<1>5. CASE UNCHANGED exporting
  BY <1>5 DEF exporting, packing, PackedAhead, GoodCuts
<1>6. CASE \E K \in SUBSET Delta : ImportStart(K)
  BY <1>5, <1>6 DEF ImportStart
<1>7. CASE (\E s \in sheets : Scan(s)) \/ (\E h \in handlers : Handle(h))
  BY <1>5, <1>7 DEF Scan, Handle
<1>8. CASE ScanEnd \/ ImportSave \/ ImportCheck \/ ImportStop
  BY <1>5, <1>8 DEF ScanEnd, ImportSave, ImportCheck, ImportStop
<1>9. CASE UNCHANGED vars
  BY <1>5, <1>9 DEF vars
<1> QED
  BY <1>1, <1>2, <1>4, <1>6, <1>7, <1>8, <1>9 DEF Next

LEMMA AheadIsLeast == IInv /\ PackedAhead => PacksLeast
<1> SUFFICES ASSUME IInv, PackedAhead, ex = "pack", todo = <<>> PROVE PacksLeast
  BY DEF PacksLeast
<1>1. current # <<>> /\ chunks \in Seq(Chunk) /\ chosen \in Chunk
  BY DEF IInv, TypeOK, PhasesInOrder
<1>2. Len(chunks) \in Nat /\ Len(FlattenSeq(chunks)) \in Nat /\ Len(chosen) \in Nat
  <2>1. FlattenSeq(chunks) \in Chunk
    BY <1>1, FlattenType
  <2> QED
    BY <1>1, <2>1 DEF Chunk
<1>3. ASSUME NEW cuts \in SUBSET (1 .. Len(chosen) - 1),
             \A part \in Parts(chosen, cuts) : WithinBudget(part)
      PROVE  Len(chunks) <= Cardinality(cuts)
  <2> DEFINE A == cuts \cap (1 .. Len(FlattenSeq(chunks)))
  <2>1. Len(chunks) <= Cardinality(A)
    BY <1>3 DEF PackedAhead, GoodCuts
  <2>2. IsFiniteSet(cuts) /\ A \subseteq cuts
    <3>1. IsFiniteSet(1 .. Len(chosen) - 1)
      BY <1>2, FS_Interval
    <3> QED
      BY <3>1, FS_Subset
  <2> HIDE DEF A
  <2>3. Cardinality(A) <= Cardinality(cuts) /\ IsFiniteSet(A)
    BY <2>2, FS_Subset
  <2>4. Cardinality(A) \in Nat /\ Cardinality(cuts) \in Nat
    BY <2>2, <2>3, FS_CardinalityType
  <2> QED
    BY <1>2, <2>1, <2>3, <2>4
<1> QED
  BY <1>1, <1>3 DEF PackedAhead, PacksLeast

(* lxmfSync.js packChunks: its chunks fit the budget, but for payloads that  *)
(* do not fit it alone, and no in-order split into fewer chunks does, for    *)
(* any deltas, sizes and budget.                                             *)
THEOREM PackingIsLeast == Spec => []PacksLeast
<1>1. Init => PackedAhead
  BY DEF Init, PackedAhead
<1> QED
  BY <1>1, NextAhead, AheadIsLeast, Invariance, OrderIsKept, PTL DEF Spec
==============================================================================
