------------------------- MODULE AbstractIngestion -------------------------
(***************************************************************************)
(* What the ingestion pipeline promises for a document version, with no    *)
(* queue, lease, token or worker in sight: it is processed a bounded       *)
(* number of times; it ends indexed with exactly one searchable corpus, or *)
(* failed with one dead letter; and it never leaves either end.            *)
(***************************************************************************)
EXTENDS Naturals

CONSTANTS Documents, MaxTries

VARIABLES
    status,   \* where the document version is in its life
    tries,    \* how often processing began
    corpora,  \* searchable corpora built from it
    letters   \* the document versions whose failure was reported

vars == <<status, tries, corpora, letters>>

Init ==
    /\ status = [d \in Documents |-> "awaiting"]
    /\ tries = [d \in Documents |-> 0]
    /\ corpora = [d \in Documents |-> 0]
    /\ letters = {}

Submit(d) ==
    /\ status[d] = "awaiting"
    /\ status' = [status EXCEPT ![d] = "queued"]
    /\ UNCHANGED <<tries, corpora, letters>>

\* Processing begins, or begins again because the last worker was lost.
Begin(d) ==
    /\ status[d] \in {"queued", "processing"}
    /\ tries[d] < MaxTries
    /\ status' = [status EXCEPT ![d] = "processing"]
    /\ tries' = [tries EXCEPT ![d] = @ + 1]
    /\ UNCHANGED <<corpora, letters>>

Requeue(d) ==
    /\ status[d] = "processing"
    /\ tries[d] < MaxTries
    /\ status' = [status EXCEPT ![d] = "queued"]
    /\ UNCHANGED <<tries, corpora, letters>>

Index(d) ==
    /\ status[d] = "processing"
    /\ corpora[d] = 0
    /\ status' = [status EXCEPT ![d] = "indexed"]
    /\ corpora' = [corpora EXCEPT ![d] = 1]
    /\ UNCHANGED <<tries, letters>>

Fail(d) ==
    /\ status[d] = "processing"
    /\ d \notin letters
    /\ status' = [status EXCEPT ![d] = "failed"]
    /\ letters' = letters \cup {d}
    /\ UNCHANGED <<tries, corpora>>

Progress(d) == Begin(d) \/ Requeue(d) \/ Index(d) \/ Fail(d)

Next == \E d \in Documents : Submit(d) \/ Progress(d)

Spec == Init /\ [][Next]_vars

\* A submitted document is not left alone.
FairSpec == Spec /\ \A d \in Documents : WF_vars(Progress(d))
=============================================================================
