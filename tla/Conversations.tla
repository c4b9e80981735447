--------------------------- MODULE Conversations ---------------------------
(***************************************************************************)
(* One conversation of the tutor: its message rows in PostgreSQL and the   *)
(* asyncio tasks of the API process that answer them.                      *)
(*                                                                         *)
(* Every database transaction is one step, taken when it locks its rows.   *)
(* Between two awaits of a task anything else may happen: a new question,  *)
(* the reaper, a deadline, a revoked membership, another corpus activated, *)
(* a crash.  A task that is cancelled while a worker thread runs its       *)
(* transaction abandons the thread, not the transaction: it may still      *)
(* commit, later or never.                                                 *)
(*                                                                         *)
(* Requests that are refused change nothing and are not actions: an        *)
(* exception inside Database.session() rolls the transaction back.         *)
(*                                                                         *)
(* Definitions named Action_Variant are faulty variants that no            *)
(* specification uses.                                                     *)
(***************************************************************************)
EXTENDS Naturals, FiniteSets

CONSTANTS
    MaxMessages,    \* bound: rows the conversation can hold
    Keys,           \* idempotency keys the client chooses from
    Topics,         \* questions that stand on their own
    Phrases,        \* brief follow-ups that _detect_intent recognises
    Corpora,        \* corpora of the course; each has one chunk of its name
    ActionParents,  \* modes of the messages that a client's actions refer to
    MaxFaults,      \* bound: crashes, cancellations and database errors
    None            \* SQL NULL / Python None

Questions == Topics \cup Phrases

Modes == {"factual", "abstain", "clarify"}

Codes ==
    {"COURSE_CORPUS_NOT_READY", "PROCESSING_INTERRUPTED", "RETRIEVAL_SCOPE_INVALID",
     "RETRIEVAL_UNAVAILABLE", "RETRIEVAL_INDEX_MISSING", "MODEL_NOT_CONFIGURED",
     "MODEL_UNAVAILABLE", "MODEL_OUTPUT_INVALID", "PERSISTENCE_UNAVAILABLE",
     "INTERNAL_ERROR"}

ASSUME ConversationAssumption ==
    /\ MaxMessages \in Nat \ {0}
    /\ MaxFaults \in Nat
    /\ Topics \cap Phrases = {}
    /\ ActionParents \subseteq Modes
    /\ None \notin Keys \cup Questions \cup Corpora \cup Modes \cup Codes

VARIABLES
    msgs,     \* messages, by sequence
    next,     \* conversations.next_sequence
    run,      \* the task of each message
    threads,  \* transactions whose task no longer waits for them
    calls,    \* how often the model was invoked for each message
    member,   \* the owner's course membership
    active,   \* courses.active_corpus_version_id
    lapsed,   \* history: messages that lost their right before the last check of it
    faults    \* used of MaxFaults

rows == <<msgs, next>>
course == <<member, active, lapsed>>
vars == <<msgs, next, run, threads, calls, member, active, lapsed, faults>>

Positions == 1 .. MaxMessages

MessageRow ==
    [state : {"absent", "pending", "completed", "failed"},
     key : Keys \cup {None},
     question : Questions \cup {None},
     kind : {"question", "followup", "action"},
     query : Questions \cup {None},
     corpus : Corpora \cup {None},
     overdue : {"no", "yes"},
     evidence : SUBSET Corpora,
     mode : Modes \cup {None},
     cited : SUBSET Corpora,
     code : Codes \cup {None}]

NoMessage ==
    [state |-> "absent", key |-> None, question |-> None, kind |-> "question",
     query |-> None, corpus |-> None, overdue |-> "no", evidence |-> {},
     mode |-> None, cited |-> {}, code |-> None]

\* Where a task waits.
Awaits ==
    {"request", "authorize", "embed", "retrieve", "read", "save", "generate", "answer", "complete"}

\* Where the last authorization is still to come.
Unchecked == {"request", "authorize", "embed", "retrieve"}

Task ==
    [pc : {"none", "failing", "gone"} \cup Awaits,
     found : SUBSET Corpora,
     mode : Modes \cup {None},
     cited : SUBSET Corpora,
     code : Codes \cup {None}]

NoTask == [pc |-> "none", found |-> {}, mode |-> None, cited |-> {}, code |-> None]

Gone == [NoTask EXCEPT !.pc = "gone"]

\* A transaction that nobody waits for, with what it was called with.
Thread == [message : Positions, task : Task]

Init ==
    /\ msgs = [m \in Positions |-> NoMessage]
    /\ next = 1
    /\ run = [m \in Positions |-> NoTask]
    /\ threads = {}
    /\ calls = [m \in Positions |-> 0]
    /\ member = "yes"
    /\ active \in Corpora \cup {None}
    /\ lapsed = {}
    /\ faults = 0

-----------------------------------------------------------------------------
(* Expiry.                                                                 *)

Failed(r, code) == [r EXCEPT !.state = "failed", !.code = code]

\* A reaper that only knew the tasks of its own process would miss the
\* messages of a process that died.
Expirable_OwnTasks(m) ==
    /\ msgs[m].state = "pending"
    /\ msgs[m].overdue = "yes"
    /\ run[m].pc \in Awaits
Expirable(m) ==
    /\ msgs[m].state = "pending"
    /\ msgs[m].overdue = "yes"

\* _expire: every overdue pending message fails.
Expired ==
    [m \in Positions |->
        IF Expirable(m) THEN Failed(msgs[m], "PROCESSING_INTERRUPTED") ELSE msgs[m]]

\* The reaper's sweep, and the same statement at the head of read and history.
Sweep ==
    /\ msgs' = Expired
    /\ UNCHANGED <<next, run, threads, calls, course, faults>>

-----------------------------------------------------------------------------
(* Acceptance.                                                             *)

\* What a message was searched with.
QueryOf(r) == IF r.query # None THEN r.query ELSE r.question

Completed(seen) == {m \in Positions : seen[m].state = "completed"}

\* The last completed message gives a follow-up its query, unless it said
\* nothing: then the follow-up is ambiguous.
FollowUpQuery_AnyMode(seen) ==
    IF Completed(seen) = {} THEN None
    ELSE QueryOf(seen[CHOOSE m \in Completed(seen) : \A n \in Completed(seen) : n <= m])
FollowUpQuery(seen) ==
    IF Completed(seen) = {} THEN None
    ELSE LET last == seen[CHOOSE m \in Completed(seen) : \A n \in Completed(seen) : n <= m]
         IN IF last.mode \in {"abstain", "clarify"} THEN None ELSE QueryOf(last)

\* _detect_intent: a plain question may turn out to be a follow-up.
TurnKind(q, kind) == IF kind = "question" /\ q \in Phrases THEN "followup" ELSE kind

DerivedQuery(seen, q, kind, parent) ==
    IF kind = "action" THEN QueryOf(seen[parent])
    ELSE IF TurnKind(q, kind) = "followup" THEN FollowUpQuery(seen)
    ELSE None

\* Accepting is refused while a question is pending.
Busy(seen) == \E m \in Positions : seen[m].state = "pending"

\* ConversationRuntime.start: only the request that created the message
\* starts its task.
Start_Always(m, created) ==
    [run EXCEPT ![m] = [NoTask EXCEPT !.pc = "request"]]
Start(m, created) ==
    IF created THEN [run EXCEPT ![m] = [NoTask EXCEPT !.pc = "request"]] ELSE run

\* accept, a new message: one transaction under the conversation's lock, and
\* the task is registered with it.
Accept(k, q, kind, parent) ==
    /\ member = "yes"
    /\ next \in Positions
    /\ \A m \in Positions : msgs[m].key # k
    /\ ~ Busy(Expired)
    /\ kind = "action" => /\ Expired[parent].state = "completed"
                          /\ Expired[parent].mode \in ActionParents
    /\ msgs' = [Expired EXCEPT ![next] =
                  [NoMessage EXCEPT !.state = "pending",
                                    !.key = k,
                                    !.question = q,
                                    !.kind = TurnKind(q, kind),
                                    !.query = DerivedQuery(Expired, q, kind, parent),
                                    !.corpus = active]]
    /\ next' = next + 1
    /\ run' = Start(next, TRUE)
    /\ UNCHANGED <<threads, calls, course, faults>>

\* accept, the same key and question again: the existing message.
AcceptAgain(m) ==
    /\ member = "yes"
    /\ msgs[m].state # "absent"
    /\ msgs' = Expired
    /\ run' = Start(m, FALSE)
    /\ UNCHANGED <<next, threads, calls, course, faults>>

-----------------------------------------------------------------------------
(* ConversationRuntime._pipeline.                                          *)

GoTo(m, pc) == run' = [run EXCEPT ![m] = [@ EXCEPT !.pc = pc]]

Raise(m, code) == run' = [run EXCEPT ![m] = [@ EXCEPT !.pc = "failing", !.code = code]]

Draft(m, mode, cited) ==
    run' = [run EXCEPT ![m] = [@ EXCEPT !.pc = "complete", !.mode = mode, !.cited = cited]]

\* What request finds: no corpus was active, or a follow-up has nothing to
\* follow, or there is something to search for.
RequestRefused(m) ==
    /\ run[m].pc = "request"
    /\ msgs[m].corpus = None
    /\ Raise(m, "COURSE_CORPUS_NOT_READY")
    /\ UNCHANGED <<rows, threads, calls, course, faults>>

Ambiguous(m) == msgs[m].kind = "followup" /\ msgs[m].query = None

Clarify(m) ==
    /\ run[m].pc = "request"
    /\ msgs[m].corpus # None
    /\ Ambiguous(m)
    /\ Draft(m, "clarify", {})
    /\ UNCHANGED <<rows, threads, calls, course, faults>>

\* The dense retriever authorizes, embeds and retrieves; full text search
\* does it in one transaction.
Search(m) ==
    /\ run[m].pc = "request"
    /\ msgs[m].corpus # None
    /\ ~ Ambiguous(m)
    /\ GoTo(m, "authorize") \/ GoTo(m, "retrieve")
    /\ UNCHANGED <<rows, threads, calls, course, faults>>

\* authorize_retrieval; the scope and the query are the message's own.
Authorized(m) ==
    /\ msgs[m].state = "pending"
    /\ msgs[m].overdue = "no"
    /\ member = "yes"

Authorize(m) ==
    /\ run[m].pc = "authorize"
    /\ IF Authorized(m) THEN GoTo(m, "embed") ELSE Raise(m, "RETRIEVAL_SCOPE_INVALID")
    /\ UNCHANGED <<rows, threads, calls, course, faults>>

Embed(m) ==
    /\ run[m].pc = "embed"
    /\ GoTo(m, "retrieve") \/ Raise(m, "RETRIEVAL_UNAVAILABLE")
    /\ UNCHANGED <<rows, threads, calls, course, faults>>

\* The transaction that reads the chunks authorizes once more, first.
AuthorizeRead_TrustsFirstCheck(m) ==
    /\ run[m].pc = "retrieve"
    /\ GoTo(m, "read")
    /\ UNCHANGED <<rows, threads, calls, course, faults>>
AuthorizeRead(m) ==
    /\ run[m].pc = "retrieve"
    /\ IF Authorized(m) THEN GoTo(m, "read") ELSE Raise(m, "RETRIEVAL_SCOPE_INVALID")
    /\ UNCHANGED <<rows, threads, calls, course, faults>>

\* Its later statements lock nothing and see what was committed meanwhile,
\* but they ask about chunks, not about the member.  The dense retriever may
\* miss a chunk's embedding.
ReadChunks(m) ==
    /\ run[m].pc = "read"
    /\ \/ \E found \in SUBSET {msgs[m].corpus} :
            run' = [run EXCEPT ![m] = [@ EXCEPT !.pc = "save", !.found = found]]
       \/ Raise(m, "RETRIEVAL_INDEX_MISSING")
    /\ UNCHANGED <<rows, threads, calls, course, faults>>

\* _pending: the row, locked, if the message may still be worked on.
Pending(m) ==
    /\ msgs[m].state = "pending"
    /\ msgs[m].overdue = "no"

WithEvidence(m, task) == [msgs EXCEPT ![m] = [@ EXCEPT !.evidence = task.found]]

\* save_evidence, which refuses a chunk of another corpus; then generation when
\* there is any, and abstention otherwise.
SaveEvidence(m) ==
    /\ run[m].pc = "save"
    /\ Pending(m)
    /\ run[m].found \subseteq {msgs[m].corpus}
    /\ msgs' = WithEvidence(m, run[m])
    /\ IF run[m].found # {} THEN GoTo(m, "generate") ELSE Draft(m, "abstain", {})
    /\ UNCHANGED <<next, threads, calls, course, faults>>

\* An installation without a tutor endpoint has UnconfiguredTutorModel.
ModelNotConfigured(m) ==
    /\ run[m].pc = "generate"
    /\ Raise(m, "MODEL_NOT_CONFIGURED")
    /\ UNCHANGED <<rows, threads, calls, course, faults>>

\* TutorModel.generate sends its one request.
Generate(m) ==
    /\ run[m].pc = "generate"
    /\ calls' = [calls EXCEPT ![m] = @ + 1]
    /\ GoTo(m, "answer")
    /\ UNCHANGED <<rows, threads, course, faults>>

\* EvidenceResponseValidator.validate.  A structured draft is an intervention
\* that passed its own contract; the model may also answer with a bare draft,
\* whose "clarify" must then be grounded like an answer.
Valid_Uncited(structured, mode, cited, grounded, found) ==
    IF mode = "abstain" \/ (structured /\ mode = "clarify")
    THEN ~ grounded /\ cited = {}
    ELSE grounded /\ cited \subseteq found
Valid(structured, mode, cited, grounded, found) ==
    IF mode = "abstain" \/ (structured /\ mode = "clarify")
    THEN ~ grounded /\ cited = {}
    ELSE /\ grounded
         /\ cited # {}
         /\ cited \subseteq found

Answer(m, structured, mode, cited, grounded) ==
    /\ run[m].pc = "answer"
    /\ IF Valid(structured, mode, cited, grounded, run[m].found)
       THEN Draft(m, mode, cited)
       ELSE Raise(m, "MODEL_OUTPUT_INVALID")
    /\ UNCHANGED <<rows, threads, calls, course, faults>>

ModelUnavailable(m) ==
    /\ run[m].pc = "answer"
    /\ Raise(m, "MODEL_UNAVAILABLE")
    /\ UNCHANGED <<rows, threads, calls, course, faults>>

\* complete; a citation needs its evidence row (fk_citations_evidence).
Citable(m, task) == task.cited \subseteq msgs[m].evidence

WithAnswer(m, task) ==
    [msgs EXCEPT ![m] = [@ EXCEPT !.state = "completed", !.mode = task.mode,
                                  !.cited = task.cited]]

Complete(m) ==
    /\ run[m].pc = "complete"
    /\ Pending(m)
    /\ Citable(m, run[m])
    /\ msgs' = WithAnswer(m, run[m])
    /\ run' = [run EXCEPT ![m] = Gone]
    /\ UNCHANGED <<next, threads, calls, course, faults>>

\* _pending finds nothing: the message expired or was failed meanwhile.
TooLate(m) ==
    /\ run[m].pc \in {"save", "complete"}
    /\ ~ Pending(m)
    /\ Raise(m, "PROCESSING_INTERRUPTED")
    /\ UNCHANGED <<rows, threads, calls, course, faults>>

\* fail: only a message that is still pending.
WithFailure_Overwrites(m, task) ==
    [msgs EXCEPT ![m] = IF @.state # "failed" THEN Failed(@, task.code) ELSE @]
WithFailure(m, task) ==
    [msgs EXCEPT ![m] = IF @.state = "pending" THEN Failed(@, task.code) ELSE @]

Fail(m) ==
    /\ run[m].pc = "failing"
    /\ msgs' = WithFailure(m, run[m])
    /\ run' = [run EXCEPT ![m] = Gone]
    /\ UNCHANGED <<next, threads, calls, course, faults>>

-----------------------------------------------------------------------------
(* Timeouts, cancellation and failures.                                    *)

Abandoned(m) ==
    IF run[m].pc \in {"save", "complete", "failing"}
    THEN threads \cup {[message |-> m, task |-> run[m]]} ELSE threads

\* wait_for gives up.  Its clock started after the row's deadline was set.
Timeout(m) ==
    /\ run[m].pc \in Awaits
    /\ msgs[m].overdue = "yes"
    /\ threads' = Abandoned(m)
    /\ Raise(m, "PROCESSING_INTERRUPTED")
    /\ UNCHANGED <<rows, calls, course, faults>>

\* close cancels the task.
Cancel(m) ==
    /\ run[m].pc \in Awaits
    /\ faults < MaxFaults
    /\ faults' = faults + 1
    /\ threads' = Abandoned(m)
    /\ Raise(m, "PROCESSING_INTERRUPTED")
    /\ UNCHANGED <<rows, calls, course>>

\* A SQLAlchemyError; the transaction it ended may have committed.
DatabaseError(m) ==
    /\ run[m].pc \in {"request", "authorize", "retrieve", "read", "save", "complete"}
    /\ faults < MaxFaults
    /\ faults' = faults + 1
    /\ threads' = Abandoned(m)
    /\ Raise(m, "PERSISTENCE_UNAVAILABLE")
    /\ UNCHANGED <<rows, calls, course>>

\* Any other exception: it ends the task, and a transaction in it is rolled
\* back.
UnexpectedError(m) ==
    /\ run[m].pc \in Awaits
    /\ faults < MaxFaults
    /\ faults' = faults + 1
    /\ Raise(m, "INTERNAL_ERROR")
    /\ UNCHANGED <<rows, threads, calls, course>>

\* A database error while the failure is recorded: the message is left to the reaper.
FailureLost(m) ==
    /\ run[m].pc = "failing"
    /\ faults < MaxFaults
    /\ faults' = faults + 1
    /\ threads' = Abandoned(m)
    /\ run' = [run EXCEPT ![m] = Gone]
    /\ UNCHANGED <<rows, calls, course>>

\* An abandoned transaction runs after all.  One that finds the message
\* settled or overdue raises in a thread nobody listens to.
ThreadCommits(x) ==
    LET m == x.message IN
    /\ threads' = threads \ {x}
    /\ \/ /\ x.task.pc = "save" /\ Pending(m)
          /\ msgs' = WithEvidence(m, x.task)
       \/ /\ x.task.pc = "complete" /\ Pending(m) /\ Citable(m, x.task)
          /\ msgs' = WithAnswer(m, x.task)
       \/ /\ x.task.pc = "failing"
          /\ msgs' = WithFailure(m, x.task)
    /\ UNCHANGED <<next, run, calls, course, faults>>

\* The API process dies and starts again with no task.
Crash ==
    /\ faults < MaxFaults
    /\ faults' = faults + 1
    /\ run' = [m \in Positions |->
                 IF run[m].pc = "none" THEN NoTask ELSE Gone]
    /\ threads' = {}
    /\ UNCHANGED <<rows, calls, course>>

-----------------------------------------------------------------------------
(* The surroundings.                                                       *)

\* Of these messages, those whose last authorization is still to come.
Lapse(affected) == lapsed' = lapsed \cup {m \in affected : run[m].pc \in Unchecked}

DeadlinePasses(m) ==
    /\ msgs[m].state = "pending"
    /\ msgs[m].overdue = "no"
    /\ msgs' = [msgs EXCEPT ![m] = [@ EXCEPT !.overdue = "yes"]]
    /\ Lapse({m})
    /\ UNCHANGED <<next, run, threads, calls, member, active, faults>>

Revoke ==
    /\ member = "yes"
    /\ member' = "no"
    /\ Lapse(Positions)
    /\ UNCHANGED <<rows, run, threads, calls, active, faults>>

\* A teacher activates another READY corpus of the course.
Activate(c) ==
    /\ active # c
    /\ active' = c
    /\ UNCHANGED <<rows, run, threads, calls, member, lapsed, faults>>

-----------------------------------------------------------------------------
Request ==
    \/ \E k \in Keys, q \in Questions, kind \in {"question", "followup"} : Accept(k, q, kind, 0)
    \/ \E k \in Keys, q \in Questions, parent \in Positions : Accept(k, q, "action", parent)
    \/ \E m \in Positions : AcceptAgain(m)

Pipeline(m) ==
    \/ RequestRefused(m)
    \/ Clarify(m)
    \/ Search(m)
    \/ Authorize(m)
    \/ Embed(m)
    \/ AuthorizeRead(m)
    \/ ReadChunks(m)
    \/ SaveEvidence(m)
    \/ ModelNotConfigured(m)
    \/ Generate(m)
    \/ \E structured \in BOOLEAN, mode \in Modes, cited \in SUBSET Corpora, grounded \in BOOLEAN :
         Answer(m, structured, mode, cited, grounded)
    \/ ModelUnavailable(m)
    \/ Complete(m)
    \/ TooLate(m)
    \/ Fail(m)

Interruption(m) ==
    \/ Timeout(m)
    \/ Cancel(m)
    \/ DatabaseError(m)
    \/ UnexpectedError(m)
    \/ FailureLost(m)

Next ==
    \/ Request
    \/ \E m \in Positions : Pipeline(m) \/ Interruption(m) \/ DeadlinePasses(m)
    \/ \E x \in threads : ThreadCommits(x)
    \/ Sweep
    \/ Crash
    \/ Revoke
    \/ \E c \in Corpora : Activate(c)

Spec == Init /\ [][Next]_vars

\* The reaper runs every five seconds and time passes; no task need ever
\* finish.
Fairness ==
    /\ WF_vars(Sweep)
    /\ \A m \in Positions : WF_vars(DeadlinePasses(m))

FairSpec == Spec /\ Fairness

-----------------------------------------------------------------------------
(* Properties.                                                             *)

\* Rows, tasks and abandoned transactions stay in their sets.
TypeOK ==
    /\ msgs \in [Positions -> MessageRow]
    /\ next \in 1 .. MaxMessages + 1
    /\ run \in [Positions -> Task]
    /\ threads \subseteq Thread
    /\ calls \in [Positions -> Nat]
    /\ member \in {"yes", "no"}
    /\ active \in Corpora \cup {None}
    /\ lapsed \subseteq Positions
    /\ faults \in 0 .. MaxFaults

\* An answer rests on the corpus that was active when its question was
\* accepted, whatever was activated while it was being prepared: everything
\* it cites was retrieved for this very message from that corpus, a factual
\* answer cites something, an abstention nothing; and a message without an
\* answer shows no trace of a draft.
Grounded ==
    \A m \in Positions :
        LET r == msgs[m] IN
        /\ r.evidence \subseteq {r.corpus}
        /\ r.cited \subseteq r.evidence
        /\ r.state = "completed" <=> r.mode # None
        /\ r.state = "failed" <=> r.code # None
        /\ r.mode = "factual" => r.cited # {}
        /\ r.mode \in {None, "abstain"} => r.cited = {}

\* The model is asked at most once for a message, through repeated requests,
\* timeouts, crashes and abandoned threads, and never for a turn that only
\* needs a clarification.
SingleCall ==
    \A m \in Positions :
        /\ calls[m] <= 1
        /\ Ambiguous(m) => calls[m] = 0

\* A question whose owner was removed from the course, or whose deadline
\* passed, before the last authorization of its retrieval gets nothing out of
\* it, then or later: no chunk is read for it, none is stored as its evidence
\* or shown to the model, through embeddings that come back late, abandoned
\* transactions and restarts (docs/ARCHITECTURE.md:62).
LapsedGetsNothing ==
    \A m \in lapsed :
        /\ run[m].found = {}
        /\ \A x \in threads : x.message = m => x.task.found = {}
        /\ msgs[m].evidence = {}
        /\ calls[m] = 0

\* A follow-up or an action is searched with a question that stands on its
\* own and was asked before in this conversation: never with the bare phrase
\* ("no se", "otra pista") of a turn that had nothing to follow.
ResolvedQueries ==
    \A m \in Positions :
        msgs[m].query # None =>
            /\ msgs[m].query \in Topics
            /\ \E n \in 1 .. m - 1 : /\ msgs[n].state = "completed"
                                     /\ msgs[n].question = msgs[m].query

\* An ambiguous follow-up gets a clarification; it may be interrupted, but
\* it never fails because something is missing that a clarification does not
\* need (docs/ARCHITECTURE.md:67).
AmbiguityClarified ==
    \A m \in Positions :
        Ambiguous(m) => msgs[m].code # "COURSE_CORPUS_NOT_READY"

\* The refinement mapping: what the owner reads in the history.
OutcomeOf(r) ==
    CASE r.state = "absent" -> "none"
      [] r.state = "pending" -> "open"
      [] r.state = "failed" -> "failed"
      [] OTHER -> r.mode

Abs == INSTANCE AbstractTurns WITH
    Last <- MaxMessages,
    Chunks <- Corpora,
    asked <- next - 1,
    outcome <- [m \in Positions |-> OutcomeOf(msgs[m])],
    cites <- [m \in Positions |-> msgs[m].cited]

\* The owner sees one turn at a time settled once and for all: no late task,
\* abandoned transaction, sweep or restart opens a second question, or
\* replaces an answer or a failure that the history already shows.
ImplementsTurns == Abs!Spec

\* No question stays pending for ever, even if its task is lost.
ImplementsFairTurns == Abs!FairSpec
=============================================================================
