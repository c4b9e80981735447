--------------------------- MODULE ChunkingProofs ---------------------------
(***************************************************************************)
(* Theorems about Chunking, for every document, size and overlap.          *)
(*                                                                         *)
(* A turn of the loop leaves the next chunk to start at most at the end of *)
(* this one, and, where half a chunk holds the overlap, at most an overlap *)
(* before it.  So whatever began before that point is in this chunk or in  *)
(* an earlier one.                                                         *)
(***************************************************************************)
EXTENDS Chunking, SequenceTheorems, TLAPS

\* What is behind the loop is held; of passages, it is enough that they
\* begin there.
Behind(p, i) == p < page \/ (p = page /\ i < start)

InkHeld ==
    \A p \in DOMAIN pages : \A i \in 0 .. Len(pages[p]) - 1 :
        IsInk(pages[p], i) /\ Behind(p, i) => Held(p, i, i + 1)

PassagesHeld ==
    overlap <= size \div 2 =>
        \A p \in DOMAIN pages : \A a \in 0 .. Len(pages[p]) - 1 : \A b \in a + 1 .. Len(pages[p]) :
            /\ b - a <= overlap
            /\ IsInk(pages[p], a)
            /\ IsInk(pages[p], b - 1)
            /\ Behind(p, a)
            => Held(p, a, b)

OcrIsBlank == outcome = "DOCUMENT_OCR_REQUIRED" => chunks = << >> /\ page = Len(pages) + 1

ChunkInv == ChunkTypeOK /\ overlap < size /\ InkHeld /\ PassagesHeld /\ OcrIsBlank

-----------------------------------------------------------------------------

\* Pages are sequences of characters.
LEMMA PagesType ==
    ASSUME ChunkTypeOK
    PROVE  /\ pages \in Seq(Seq(Characters))
           /\ size \in Nat \ {0} /\ overlap \in Nat
           /\ \A p \in DOMAIN pages : pages[p] \in Seq(Characters) /\ Len(pages[p]) \in Nat
BY ChunkingAssumption DEF ChunkTypeOK

\* Where a chunk may end, and where the next one starts.
LEMMA EndBounds ==
    ASSUME ChunkTypeOK, page \in DOMAIN pages, start < Len(Text), overlap < size,
           NEW end \in start + 1 .. Len(Text), IsEnd(end)
    PROVE  /\ end \in Int /\ start < end /\ end <= start + size /\ end <= Len(Text)
           /\ NextStart(end) \in Nat /\ start < NextStart(end) /\ NextStart(end) <= end
           /\ end < Len(Text) => end >= start + (size \div 2)
<1>1. /\ Len(Text) \in Nat /\ start \in Nat /\ size \in Nat \ {0} /\ overlap \in Nat
  BY PagesType DEF Text, ChunkTypeOK
<1>2. end \in Int /\ start < end /\ end <= Len(Text)
  BY <1>1
<1>3. ProposedEnd \in Int /\ ProposedEnd <= start + size /\ ProposedEnd <= Len(Text)
  BY <1>1 DEF ProposedEnd
<1>4. size \div 2 \in Nat /\ size \div 2 <= size
  BY <1>1
<1>5. end <= start + size /\ (end < Len(Text) => end >= start + (size \div 2))
  <2>1. CASE end = ProposedEnd
    BY <2>1, <1>1, <1>2, <1>3, <1>4 DEF ProposedEnd
  <2>2. CASE end \in Breaks
    BY <2>2, <1>1, <1>2, <1>3, <1>4 DEF Breaks
  <2> QED BY <2>1, <2>2 DEF IsEnd
<1>6. NextStart(end) \in Nat /\ start < NextStart(end) /\ NextStart(end) <= end
  BY <1>1, <1>2 DEF NextStart
<1> QED BY <1>2, <1>5, <1>6

\* What was held stays held, and a piece of ink within the cut is held now.
LEMMA CollectHolds ==
    ASSUME ChunkTypeOK, page \in DOMAIN pages, start < Len(Text), overlap < size,
           NEW end \in start + 1 .. Len(Text), IsEnd(end), Collect(end), UNCHANGED pages
    PROVE  /\ \A p, a, b : Held(p, a, b) => Held(p, a, b)'
           /\ \A p : \A a, b \in Int :
                p = page /\ start <= a /\ a < b /\ b <= end /\ IsInk(Text, a) /\ IsInk(Text, b - 1)
                => Held(p, a, b)'
<1>1. chunks \in Seq(Chunk)
  BY DEF ChunkTypeOK
<1>2. start \in Nat /\ end \in Int
  BY EndBounds DEF ChunkTypeOK
<1>3. ASSUME \A i \in start .. end - 1 : ~ IsInk(Text, i), UNCHANGED chunks
      PROVE  /\ \A p, a, b : Held(p, a, b) => Held(p, a, b)'
             /\ \A a, b \in Int :
                  start <= a /\ a < b /\ b <= end /\ IsInk(Text, a) => FALSE
  BY <1>3, <1>2 DEF Held
<1>4. ASSUME NEW from \in start .. end - 1, NEW to \in start + 1 .. end,
             IsStripped(from, to, end),
             chunks' = Append(chunks, [page |-> page, from |-> from, to |-> to])
      PROVE  /\ \A p, a, b : Held(p, a, b) => Held(p, a, b)'
             /\ \A p : \A a, b \in Int :
                  p = page /\ start <= a /\ a < b /\ b <= end /\ IsInk(Text, a) /\ IsInk(Text, b - 1)
                  => Held(p, a, b)'
  <2> DEFINE new == [page |-> page, from |-> from, to |-> to]
  <2>1. /\ DOMAIN chunks' = 1 .. Len(chunks) + 1
        /\ \A k \in DOMAIN chunks : k \in DOMAIN chunks' /\ chunks'[k] = chunks[k]
        /\ chunks'[Len(chunks) + 1] = new
    BY <1>1, <1>4, AppendProperties
  <2>2. ASSUME NEW p, NEW a, NEW b, Held(p, a, b) PROVE Held(p, a, b)'
    BY <2>1, <2>2 DEF Held
  <2>3. ASSUME NEW p, p = page, NEW a \in Int, NEW b \in Int, start <= a, a < b, b <= end,
               IsInk(Text, a), IsInk(Text, b - 1)
        PROVE  Held(p, a, b)'
    <3>1. a \in start .. end - 1 /\ b - 1 \in start .. end - 1
      BY <1>2, <2>3
    <3>2. from <= a /\ b - 1 < to
      BY <2>3, <3>1, <1>4 DEF IsStripped
    <3>3. b <= to
      BY <3>2, <1>2
    <3>4. Len(chunks) + 1 \in DOMAIN chunks'
      BY <2>1, <1>1
    <3>5. LET k == Len(chunks) + 1
          IN  chunks'[k].page = p /\ chunks'[k].from <= a /\ b <= chunks'[k].to
      BY <2>1, <2>3, <3>2, <3>3
    <3> QED BY <3>4, <3>5 DEF Held
  <2> QED BY <2>2, <2>3
<1> QED BY <1>3, <1>4 DEF Collect

-----------------------------------------------------------------------------

LEMMA InitInv == ASSUME ChunkInit PROVE ChunkInv
<1> USE DEF ChunkInit
<1>1. pages \in Seq(Seq(Characters)) /\ size \in Nat \ {0} /\ overlap \in Nat
  BY ChunkingAssumption
<1>2. ChunkTypeOK
  <2>1. page \in 1 .. Len(pages) + 1 /\ start \in Nat
    BY <1>1
  <2>2. page \in DOMAIN pages => start <= Len(Text)
    BY <1>1 DEF Text
  <2>3. chunks \in Seq(Chunk) /\ DOMAIN chunks = {}
    OBVIOUS
  <2> QED BY <2>1, <2>2, <2>3 DEF ChunkTypeOK
<1>3. \A p \in DOMAIN pages : \A i \in Nat : ~ Behind(p, i)
  BY <1>1 DEF Behind
<1>4. InkHeld
  BY <1>3 DEF InkHeld
<1>5. PassagesHeld
  BY <1>3 DEF PassagesHeld
<1> QED BY <1>2, <1>4, <1>5 DEF ChunkInv, OcrIsBlank

\* A cut keeps the types.
LEMMA CutType ==
    ASSUME ChunkInv, Cut
    PROVE  ChunkTypeOK'
<1> USE DEF ChunkInv
<1>1. PICK end \in start + 1 .. Len(Text) :
        /\ IsEnd(end)
        /\ Collect(end)
        /\ IF end >= Len(Text) THEN NextPage ELSE start' = NextStart(end) /\ UNCHANGED page
  BY DEF Cut
<1>2. page \in DOMAIN pages /\ start < Len(Text) /\ UNCHANGED <<pages, size, overlap, outcome>>
  BY DEF Cut
<1>3. /\ end \in Int /\ start < end /\ end <= start + size /\ end <= Len(Text)
      /\ NextStart(end) \in Nat /\ NextStart(end) <= end
  BY <1>1, <1>2, EndBounds
<1>4. pages \in Seq(Seq(Characters)) /\ Len(pages) \in Nat /\ DOMAIN pages = 1 .. Len(pages)
  BY PagesType
<1>5. /\ page' \in 1 .. Len(pages) + 1 /\ start' \in Nat
      /\ page' \in DOMAIN pages => start' <= Len(pages[page'])
  <2>1. CASE end >= Len(Text)
    <3>1. page' = page + 1 /\ start' = 0
      BY <1>1, <2>1 DEF NextPage
    <3>2. page' \in DOMAIN pages => Len(pages[page']) \in Nat
      BY PagesType
    <3> QED BY <3>1, <3>2, <1>2, <1>4
  <2>2. CASE ~ (end >= Len(Text))
    BY <1>1, <1>2, <1>3, <1>4, <2>2 DEF Text
  <2> QED BY <2>1, <2>2
<1>6. /\ chunks' \in Seq(Chunk)
      /\ \A k \in DOMAIN chunks' :
           /\ chunks'[k].page \in DOMAIN pages
           /\ chunks'[k].from < chunks'[k].to
           /\ chunks'[k].to <= Len(pages[chunks'[k].page])
           /\ chunks'[k].to - chunks'[k].from <= size
           /\ IsInk(pages[chunks'[k].page], chunks'[k].from)
           /\ IsInk(pages[chunks'[k].page], chunks'[k].to - 1)
  <2>1. CASE UNCHANGED chunks
    BY <2>1 DEF ChunkTypeOK
  <2>2. CASE \E from \in start .. end - 1, to \in start + 1 .. end :
               /\ IsStripped(from, to, end)
               /\ chunks' = Append(chunks, [page |-> page, from |-> from, to |-> to])
    <3>1. PICK from \in start .. end - 1, to \in start + 1 .. end :
               /\ IsStripped(from, to, end)
               /\ chunks' = Append(chunks, [page |-> page, from |-> from, to |-> to])
      BY <2>2
    <3> DEFINE new == [page |-> page, from |-> from, to |-> to]
    <3>2. start \in Nat /\ size \in Nat /\ page \in Nat /\ Len(Text) \in Nat
      BY <1>2, <1>4, PagesType DEF ChunkTypeOK, Text
    <3>3. from \in Nat /\ to \in Nat /\ from < to /\ to <= Len(Text) /\ to - from <= size
      BY <3>1, <3>2, <1>3 DEF IsStripped
    <3>4. new \in Chunk
      BY <3>2, <3>3 DEF Chunk
    <3>5. /\ new.page \in DOMAIN pages /\ new.from < new.to
          /\ new.to <= Len(pages[new.page]) /\ new.to - new.from <= size
          /\ IsInk(pages[new.page], new.from) /\ IsInk(pages[new.page], new.to - 1)
      BY <3>1, <3>3, <1>2 DEF IsStripped, Text
    <3>6. chunks \in Seq(Chunk) /\ chunks' = Append(chunks, new)
      BY <3>1 DEF ChunkTypeOK
    <3>7. /\ chunks' \in Seq(Chunk)
          /\ \A k \in DOMAIN chunks' :
               (k \in DOMAIN chunks /\ chunks'[k] = chunks[k]) \/ chunks'[k] = new
      BY <3>4, <3>6, AppendProperties
    <3> HIDE DEF new
    <3> QED BY <3>5, <3>7 DEF ChunkTypeOK
  <2> QED BY <1>1, <2>1, <2>2 DEF Collect
<1> QED BY <1>2, <1>5, <1>6 DEF ChunkTypeOK, Text

\* A cut leaves nothing behind that is not held.
LEMMA CutHolds ==
    ASSUME ChunkInv, Cut
    PROVE  InkHeld' /\ PassagesHeld'
<1> USE DEF ChunkInv
<1>1. PICK end \in start + 1 .. Len(Text) :
        /\ IsEnd(end)
        /\ Collect(end)
        /\ IF end >= Len(Text) THEN NextPage ELSE start' = NextStart(end) /\ UNCHANGED page
  BY DEF Cut
<1>2. page \in DOMAIN pages /\ start < Len(Text) /\ UNCHANGED <<pages, size, overlap, outcome>>
  BY DEF Cut
<1>3. /\ end \in Int /\ start < end /\ end <= Len(Text)
      /\ NextStart(end) \in Nat /\ NextStart(end) <= end
      /\ end < Len(Text) => end >= start + (size \div 2)
  BY <1>1, <1>2, EndBounds
<1>4. /\ \A p, a, b : Held(p, a, b) => Held(p, a, b)'
      /\ \A p : \A a, b \in Int :
           p = page /\ start <= a /\ a < b /\ b <= end /\ IsInk(Text, a) /\ IsInk(Text, b - 1)
           => Held(p, a, b)'
  BY <1>1, <1>2, CollectHolds
<1>5. /\ start \in Nat /\ size \in Nat /\ overlap \in Nat /\ page \in Nat
      /\ DOMAIN pages \subseteq Nat /\ Len(Text) \in Nat
      /\ \A p \in DOMAIN pages : Len(pages[p]) \in Nat
  BY <1>2, PagesType DEF ChunkTypeOK, Text
\* What is newly behind the loop lies on this page, from start on, and begins
\* before the next start.
<1>6. ASSUME NEW p \in DOMAIN pages, NEW a \in 0 .. Len(pages[p]) - 1, Behind(p, a)'
      PROVE  \/ Behind(p, a)
             \/ /\ p = page /\ start <= a /\ a < end
                /\ end < Len(Text) => a < NextStart(end)
  <2>1. CASE end >= Len(Text)
    <3>1. page' = page + 1 /\ start' = 0
      BY <1>1, <2>1 DEF NextPage
    <3>2. p < page \/ p = page
      BY <1>5, <1>6, <3>1 DEF Behind
    <3> QED BY <3>2, <1>3, <1>5, <2>1 DEF Behind, Text
  <2>2. CASE ~ (end >= Len(Text))
    <3>1. page' = page /\ start' = NextStart(end)
      BY <1>1, <2>2
    <3> QED BY <3>1, <1>3, <1>5, <1>6 DEF Behind
  <2> QED BY <2>1, <2>2
<1>7. InkHeld'
  <2>1. ASSUME NEW p \in DOMAIN pages, NEW i \in 0 .. Len(pages[p]) - 1,
               IsInk(pages[p], i), Behind(p, i)'
        PROVE  Held(p, i, i + 1)'
    <3>1. CASE Behind(p, i)
      BY <3>1, <2>1, <1>4 DEF InkHeld
    <3>2. CASE p = page /\ start <= i /\ i < end
      <4>1. i \in Int /\ i + 1 \in Int /\ i < i + 1 /\ i + 1 <= end /\ (i + 1) - 1 = i
        BY <1>3, <1>5, <3>2
      <4> QED BY <4>1, <3>2, <2>1, <1>4 DEF Text
    <3> QED BY <3>1, <3>2, <2>1, <1>6
  <2> QED BY <2>1, <1>2 DEF InkHeld
<1>8. PassagesHeld'
  <2>1. ASSUME overlap <= size \div 2,
               NEW p \in DOMAIN pages, NEW a \in 0 .. Len(pages[p]) - 1,
               NEW b \in a + 1 .. Len(pages[p]),
               b - a <= overlap, IsInk(pages[p], a), IsInk(pages[p], b - 1), Behind(p, a)'
        PROVE  Held(p, a, b)'
    <3>1. CASE Behind(p, a)
      BY <3>1, <2>1, <1>4 DEF PassagesHeld
    <3>2. CASE p = page /\ start <= a /\ a < end /\ (end < Len(Text) => a < NextStart(end))
      <4>1. a \in Int /\ b \in Int /\ a < b /\ b <= Len(Text)
        BY <1>5, <3>2 DEF Text
      <4>2. b <= end
        <5>1. CASE end >= Len(Text)
          BY <5>1, <4>1, <1>3, <1>5
        <5>2. CASE end < Len(Text) /\ end - overlap > start + 1
          BY <5>2, <4>1, <3>2, <2>1, <1>3, <1>5 DEF NextStart
        <5>3. CASE end < Len(Text) /\ ~ (end - overlap > start + 1)
          <6>1. a = start
            BY <5>3, <4>1, <3>2, <1>3, <1>5 DEF NextStart
          <6>2. size \div 2 \in Nat
            BY <1>5
          <6> QED BY <6>1, <6>2, <5>3, <4>1, <2>1, <1>3, <1>5
        <5> QED BY <5>1, <5>2, <5>3, <1>3, <1>5
      <4> QED BY <4>1, <4>2, <3>2, <2>1, <1>4 DEF Text
    <3> QED BY <3>1, <3>2, <2>1, <1>6
  <2> QED BY <2>1, <1>2 DEF PassagesHeld
<1> QED BY <1>7, <1>8

\* So do the steps that cut nothing.
LEMMA StepInv == ASSUME ChunkInv, [ChunkNext]_chunkVars PROVE ChunkInv'
<1> USE DEF ChunkInv
<1>1. CASE Cut
  <2>1. ChunkTypeOK' /\ InkHeld' /\ PassagesHeld'
    BY <1>1, CutType, CutHolds
  <2>2. outcome' = "cutting" /\ overlap' < size'
    BY <1>1 DEF Cut
  <2> QED BY <2>1, <2>2 DEF OcrIsBlank
<1>2. CASE EmptyPage
  <2>1. /\ page \in DOMAIN pages /\ start >= Len(Text) /\ page' = page + 1 /\ start' = 0
        /\ UNCHANGED <<pages, size, overlap, chunks, outcome>>
    BY <1>2 DEF EmptyPage, NextPage
  <2>2. /\ pages \in Seq(Seq(Characters)) /\ Len(pages) \in Nat /\ DOMAIN pages = 1 .. Len(pages)
        /\ \A p \in DOMAIN pages : Len(pages[p]) \in Nat
    BY PagesType
  <2>3. ChunkTypeOK'
    BY <2>1, <2>2 DEF ChunkTypeOK, Text
  <2>4. ASSUME NEW p \in DOMAIN pages, NEW i \in 0 .. Len(pages[p]) - 1, Behind(p, i)'
        PROVE  Behind(p, i)
    BY <2>1, <2>2, <2>4 DEF Behind, Text, ChunkTypeOK
  <2>5. \A p, a, b : Held(p, a, b) => Held(p, a, b)'
    BY <2>1 DEF Held
  <2>6. InkHeld'
    BY <2>1, <2>4, <2>5 DEF InkHeld
  <2>7. PassagesHeld'
    BY <2>1, <2>4, <2>5 DEF PassagesHeld
  <2>8. outcome' = "cutting" /\ overlap' < size'
    BY <1>2 DEF EmptyPage
  <2> QED BY <2>3, <2>6, <2>7, <2>8 DEF OcrIsBlank
<1>3. CASE Return
  <2>1. /\ page \notin DOMAIN pages
        /\ UNCHANGED <<pages, size, overlap, page, start, chunks>>
        /\ outcome' = IF chunks = << >> THEN "DOCUMENT_OCR_REQUIRED" ELSE "chunked"
    BY <1>3 DEF Return
  <2>2. page = Len(pages) + 1
    BY <2>1, PagesType DEF ChunkTypeOK
  <2>3. ChunkTypeOK'
    BY <2>1 DEF ChunkTypeOK, Text
  <2>4. InkHeld' /\ PassagesHeld'
    BY <2>1 DEF InkHeld, PassagesHeld, Behind, Held
  <2> QED BY <2>1, <2>2, <2>3, <2>4 DEF OcrIsBlank
<1>4. CASE UNCHANGED chunkVars
  BY <1>4 DEF chunkVars, ChunkTypeOK, Text, InkHeld, PassagesHeld, Behind, Held, OcrIsBlank
<1> QED BY <1>1, <1>2, <1>3, <1>4 DEF ChunkNext

\* The loop's invariant: everything before "start" is held by some chunk.
THEOREM Inductive == ChunkSpec => []ChunkInv
<1>1. ChunkInit => ChunkInv
  BY InitInv
<1>2. ChunkInv /\ [ChunkNext]_chunkVars => ChunkInv'
  BY StepInv
<1> QED BY <1>1, <1>2, PTL DEF ChunkSpec

\* The loop stays on its pages, and no chunk is longer than allowed or begins
\* or ends with a blank (build_chunks).
THEOREM ChunksAreProper == ChunkSpec => []ChunkTypeOK
BY Inductive, PTL DEF ChunkInv

\* build_chunks loses no printed character, and sends a document to OCR only
\* when it has none.
THEOREM NothingIsDropped == ChunkSpec => []NothingDropped
<1>1. ChunkInv => NothingDropped
  <2> SUFFICES ASSUME ChunkInv PROVE NothingDropped
    OBVIOUS
  <2>1. \A p \in DOMAIN pages : \A i \in 0 .. Len(pages[p]) - 1 :
          /\ IsInk(pages[p], i)
          /\ p < page \/ (p = page /\ i < start)
          => Held(p, i, i + 1)
    BY DEF ChunkInv, InkHeld, Behind
  <2>2. ASSUME outcome = "DOCUMENT_OCR_REQUIRED",
               NEW p \in DOMAIN pages, NEW i \in 0 .. Len(pages[p]) - 1, IsInk(pages[p], i)
        PROVE  FALSE
    <3>1. chunks = << >> /\ page = Len(pages) + 1
      BY <2>2 DEF ChunkInv, OcrIsBlank
    <3>2. p < page
      BY <3>1, PagesType DEF ChunkInv
    <3>3. Held(p, i, i + 1)
      BY <3>2, <2>1, <2>2
    <3> QED BY <3>1, <3>3 DEF Held
  <2> QED BY <2>1, <2>2 DEF NothingDropped
<1> QED BY <1>1, Inductive, PTL

\* With an overlap of at most half a chunk, no passage within the overlap is
\* torn apart by build_chunks, wherever it stands.
THEOREM PassagesAreQuotable == ChunkSpec => []Quotable
<1>1. ChunkInv => Quotable
  BY DEF ChunkInv, PassagesHeld, Behind, Quotable
<1> QED BY <1>1, Inductive, PTL
=============================================================================
