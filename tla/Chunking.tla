------------------------------ MODULE Chunking ------------------------------
(***************************************************************************)
(* build_chunks: the pages of a parsed PDF are cut into overlapping pieces *)
(* that later are searched and cited.  One step is one turn of the while   *)
(* loop.  Positions are counted from zero as in the code; a chunk is the   *)
(* half open range of its page that is left when the blanks at both ends   *)
(* are stripped.                                                           *)
(*                                                                         *)
(* What a search for the last space or strip returns is stated, not        *)
(* computed, which keeps the definitions within reach of the provers.      *)
(*                                                                         *)
(* Definitions named Action_Variant are faulty variants that no            *)
(* specification uses.                                                     *)
(***************************************************************************)
EXTENDS Integers, Sequences

CONSTANTS
    ParsedDocuments,  \* sequences of pages, each a sequence of characters
    Sizes,            \* values of chunk_size_characters
    Overlaps          \* values of chunk_overlap_characters

\* rfind looks for a space, strip removes any white space.
Characters == {"ink", "space", "newline"}

ASSUME ChunkingAssumption ==
    /\ \A d \in ParsedDocuments : d \in Seq(Seq(Characters))
    /\ Sizes \subseteq Nat \ {0}
    /\ Overlaps \subseteq Nat

VARIABLES
    pages,    \* document.pages
    size,     \* size_characters
    overlap,  \* overlap_characters
    page,     \* the page being cut
    start,    \* where its next chunk starts
    chunks,   \* the chunks, by ordinal
    outcome   \* "cutting" until the function returns or raises

chunkVars == <<pages, size, overlap, page, start, chunks, outcome>>

ChunkInit ==
    /\ pages \in ParsedDocuments
    /\ size \in Sizes
    /\ overlap \in Overlaps
    /\ overlap < size
    /\ page = 1
    /\ start = 0
    /\ chunks = << >>
    /\ outcome = "cutting"

Text == pages[page]

IsInk(t, i) == t[i + 1] = "ink"

ProposedEnd == IF start + size < Len(Text) THEN start + size ELSE Len(Text)

\* Where rfind may find a space.
Breaks == {i \in start + (size \div 2) .. ProposedEnd - 1 : Text[i + 1] = "space"}

\* The chunk ends at the last space of its second half, if it has one and
\* the page goes on.
IsEnd(end) ==
    IF ProposedEnd < Len(Text) /\ \E i \in Breaks : i > start
    THEN end \in Breaks /\ \A i \in Breaks : i <= end
    ELSE end = ProposedEnd

\* strip leaves from .. to - 1 of the characters start .. end - 1.
IsStripped(from, to, end) ==
    /\ start <= from /\ from < to /\ to <= end
    /\ IsInk(Text, from)
    /\ IsInk(Text, to - 1)
    /\ \A i \in start .. end - 1 : IsInk(Text, i) => from <= i /\ i < to

\* A piece of white space is no chunk.
Collect(end) ==
    \/ /\ \A i \in start .. end - 1 : ~ IsInk(Text, i)
       /\ UNCHANGED chunks
    \/ \E from \in start .. end - 1, to \in start + 1 .. end :
         /\ IsStripped(from, to, end)
         /\ chunks' = Append(chunks, [page |-> page, from |-> from, to |-> to])

NextStart_Stuck(end) == IF end - overlap > start THEN end - overlap ELSE start
NextStart_AfterBreak(end) == end + 1
NextStart_NoOverlap(end) == end
NextStart(end) == IF end - overlap > start + 1 THEN end - overlap ELSE start + 1

NextPage ==
    /\ page' = page + 1
    /\ start' = 0

Cut ==
    /\ outcome = "cutting"
    /\ page \in DOMAIN pages
    /\ start < Len(Text)
    /\ \E end \in start + 1 .. Len(Text) :
         /\ IsEnd(end)
         /\ Collect(end)
         /\ IF end >= Len(Text) THEN NextPage
            ELSE /\ start' = NextStart(end)
                 /\ UNCHANGED page
    /\ UNCHANGED <<pages, size, overlap, outcome>>

\* A page without a character.
EmptyPage ==
    /\ outcome = "cutting"
    /\ page \in DOMAIN pages
    /\ start >= Len(Text)
    /\ NextPage
    /\ UNCHANGED <<pages, size, overlap, chunks, outcome>>

Return ==
    /\ outcome = "cutting"
    /\ page \notin DOMAIN pages
    /\ outcome' = IF chunks = << >> THEN "DOCUMENT_OCR_REQUIRED" ELSE "chunked"
    /\ UNCHANGED <<pages, size, overlap, page, start, chunks>>

ChunkNext == Cut \/ EmptyPage \/ Return

ChunkSpec == ChunkInit /\ [][ChunkNext]_chunkVars

\* A running loop goes on.
ChunkFairness == WF_chunkVars(ChunkNext)

-----------------------------------------------------------------------------
(* Properties.                                                             *)

Chunk == [page : Nat, from : Nat, to : Nat]

\* The loop stays on its pages, and every chunk is a piece of one page that
\* is no longer than allowed and starts and ends with ink.
ChunkTypeOK ==
    /\ pages \in ParsedDocuments
    /\ size \in Sizes
    /\ overlap \in Overlaps
    /\ page \in 1 .. Len(pages) + 1
    /\ start \in Nat
    /\ page \in DOMAIN pages => start <= Len(Text)
    /\ outcome \in {"cutting", "chunked", "DOCUMENT_OCR_REQUIRED"}
    /\ chunks \in Seq(Chunk)
    /\ \A k \in DOMAIN chunks :
         /\ chunks[k].page \in DOMAIN pages
         /\ chunks[k].from < chunks[k].to
         /\ chunks[k].to <= Len(pages[chunks[k].page])
         /\ chunks[k].to - chunks[k].from <= size
         /\ IsInk(pages[chunks[k].page], chunks[k].from)
         /\ IsInk(pages[chunks[k].page], chunks[k].to - 1)

\* Some chunk holds the characters a .. b - 1 of page p.
Held(p, a, b) ==
    \E k \in DOMAIN chunks :
        chunks[k].page = p /\ chunks[k].from <= a /\ b <= chunks[k].to

\* Nothing printed is lost, for any size and any overlap below it: once the
\* function is past a character that is not blank, some chunk holds it; and
\* a document is sent to OCR only when no page of it has one.
NothingDropped ==
    /\ \A p \in DOMAIN pages : \A i \in 0 .. Len(pages[p]) - 1 :
         /\ IsInk(pages[p], i)
         /\ p < page \/ (p = page /\ i < start)
         => Held(p, i, i + 1)
    /\ outcome = "DOCUMENT_OCR_REQUIRED" =>
         \A p \in DOMAIN pages : \A i \in 0 .. Len(pages[p]) - 1 : ~ IsInk(pages[p], i)

\* What the overlap is for: a passage no longer than the overlap is in one
\* piece in some chunk, wherever the cuts fall, so that it can be found and
\* quoted.  It takes an overlap of at most half a chunk, which the settings
\* do not demand (config.py only wants it below the size).
Quotable ==
    overlap <= size \div 2 =>
        \A p \in DOMAIN pages : \A a \in 0 .. Len(pages[p]) - 1 : \A b \in a + 1 .. Len(pages[p]) :
            /\ b - a <= overlap
            /\ IsInk(pages[p], a)
            /\ IsInk(pages[p], b - 1)
            /\ p < page
            => Held(p, a, b)

\* The loop ends, even where a short piece and a long overlap would step back
\* to where it came from.
Terminates == <>(outcome # "cutting")
=============================================================================
