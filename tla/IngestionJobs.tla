--------------------------- MODULE IngestionJobs ---------------------------
(***************************************************************************)
(* The durable ingestion pipeline: PostgreSQL job rows and outbox events,  *)
(* a Redis stream with one consumer group, and worker processes that each  *)
(* run WorkerRuntime.tick in a loop (reconcile, relay one outbox event,    *)
(* consume one delivery).                                                  *)
(*                                                                         *)
(* Every database transaction is one step, because Database.session()      *)
(* commits at the end of its block and every row it changes is locked.     *)
(* Every Redis command is one step.  Between two such steps any other      *)
(* worker may move, any clock may run out, and the worker may die.         *)
(*                                                                         *)
(* Instants are abstracted to the comparisons the code makes with "now":   *)
(* a lease is live or expired, a backoff has elapsed or not, a publication *)
(* is fresh or stale.  The actions under "Time" let each instant pass.  A  *)
(* worker that is late to look (its reconcile interval has not elapsed,    *)
(* its XAUTOCLAIM cursor is past the entry) is the instant passing late.   *)
(*                                                                         *)
(* An operator named Action_Variant is a faulty variant of the definition  *)
(* that follows it, the kind of slip the properties must notice; no        *)
(* specification uses it.                                                  *)
(***************************************************************************)
EXTENDS Naturals, FiniteSets

CONSTANTS
    Jobs,         \* one per document version (uq_ingestion_jobs_logical_job)
    Workers,      \* worker processes
    EntryIds,     \* a pool of Redis stream entry identifiers
    MaxAttempts,  \* settings.job_max_attempts
    MaxFaults,    \* bound: crashes, outages and relays that overstay
    MaxLosses,    \* bound: times Redis loses its stream or its group
    MaxStrays,    \* bound: stream entries no outbox event ever produced
    None          \* SQL NULL / Python None

Kinds == {"ingestion", "dead"}

Events == Jobs \X Kinds

ASSUME ConstantsAssumption ==
    /\ MaxAttempts \in Nat \ {0}
    /\ MaxFaults \in Nat /\ MaxLosses \in Nat /\ MaxStrays \in Nat
    /\ None \notin Jobs \cup Workers \cup EntryIds \cup Events

VARIABLES
    job,      \* ingestion_jobs
    version,  \* document_versions.state
    corpora,  \* how many READY corpus versions hold the document version
    outbox,   \* outbox_events, by (job_id, kind)
    stream,   \* the Redis stream and the group's pending entries list
    worker,   \* the control state of each worker process
    faults,   \* used of MaxFaults
    losses,   \* used of MaxLosses
    strays    \* used of MaxStrays

rows == <<job, version, corpora>>
bounds == <<faults, losses, strays>>
vars == <<job, version, corpora, outbox, stream, worker, faults, losses, strays>>

Terminal == {"SUCCEEDED", "FAILED"}

\* The version states a permanent failure may leave behind.
FailedVersion == {"FAILED", "REJECTED", "OCR_REQUIRED"}

VersionStates ==
    {"AWAITING_UPLOAD", "QUEUED", "PROCESSING", "INDEXED"} \cup FailedVersion

Clock == {"none", "live", "expired"}

Moment == {"later", "reached"}

JobRow ==
    [state : {"ABSENT", "PENDING", "RUNNING"} \cup Terminal,
     attempt : 0 .. MaxAttempts,
     fence : 0 .. MaxAttempts + 1,
     lease : Clock,
     due : Moment]

EventRow ==
    [pub : {"absent", "unpublished", "fresh", "stale"},
     avail : Moment,
     token : Workers \cup {None},
     hold : Clock]

Entry ==
    [state : {"absent", "new", "busy", "idle"},
     job : Jobs \cup {None}]

Verdicts == FailedVersion \cup {"none", "success", "transient"}

Control ==
    [pc : {"tick", "relay", "publish", "mark", "consume", "claim", "work",
           "persist", "check", "ack"},
     event : Events \cup {None},
     entry : EntryIds \cup {None},
     job : Jobs \cup {None},
     fence : 0 .. MaxAttempts + 1,
     verdict : Verdicts]

NoEvent == [pub |-> "absent", avail |-> "later", token |-> None, hold |-> "none"]

NoEntry == [state |-> "absent", job |-> None]

AtTick ==
    [pc |-> "tick", event |-> None, entry |-> None, job |-> None,
     fence |-> 0, verdict |-> "none"]

Init ==
    /\ job = [j \in Jobs |-> [state |-> "ABSENT", attempt |-> 0, fence |-> 0,
                              lease |-> "none", due |-> "later"]]
    /\ version = [j \in Jobs |-> "AWAITING_UPLOAD"]
    /\ corpora = [j \in Jobs |-> 0]
    /\ outbox = [x \in Events |-> NoEvent]
    /\ stream = [e \in EntryIds |-> NoEntry]
    /\ worker = [w \in Workers |-> AtTick]
    /\ faults = 0
    /\ losses = 0
    /\ strays = 0

GoTo(w, pc) == worker' = [worker EXCEPT ![w] = [@ EXCEPT !.pc = pc]]

-----------------------------------------------------------------------------
(* Outbox events.                                                          *)

\* OutboxJobDispatcher.dispatch and record_dead_letter: insert an event that
\* is available at once, unless (job, kind) already has one.
Enlist(event) ==
    IF event.pub = "absent"
    THEN [event EXCEPT !.pub = "unpublished", !.avail = "reached"]
    ELSE event

\* schedule_retry: the ingestion event waits for the job's backoff.
ScheduleRetry_KeepsToken(event) ==
    [event EXCEPT !.pub = "unpublished", !.avail = "later"]
ScheduleRetry(event) ==
    [event EXCEPT !.pub = "unpublished", !.avail = "later",
                  !.token = None, !.hold = "none"]

Publishable_NeverReleased(event) ==
    /\ event.pub = "unpublished"
    /\ event.avail = "reached"
    /\ event.hold = "none"
Publishable(event) ==
    /\ event.pub = "unpublished"
    /\ event.avail = "reached"
    /\ event.hold # "live"

\* reconcile: events of unfinished, due jobs published too long ago.
Reconcilable_PendingOnly(x) ==
    /\ x[2] = "ingestion"
    /\ job[x[1]].state = "PENDING" /\ job[x[1]].due = "reached"
    /\ outbox[x].pub = "stale"
Reconcilable(x) ==
    /\ x[2] = "ingestion"
    /\ \/ job[x[1]].state = "PENDING" /\ job[x[1]].due = "reached"
       \/ job[x[1]].state = "RUNNING" /\ job[x[1]].lease = "expired"
    /\ outbox[x].pub = "stale"

Republished(event) ==
    [event EXCEPT !.pub = "unpublished", !.avail = "reached",
                  !.token = None, !.hold = "none"]

\* The upload is confirmed: version, job row and outbox event in one
\* transaction.
Confirm(j) ==
    /\ version[j] = "AWAITING_UPLOAD"
    /\ version' = [version EXCEPT ![j] = "QUEUED"]
    /\ job' = [job EXCEPT ![j] = [@ EXCEPT !.state = "PENDING", !.due = "reached"]]
    /\ outbox' = [outbox EXCEPT ![<<j, "ingestion">>] = Enlist(@)]
    /\ UNCHANGED <<corpora, stream, worker, bounds>>

-----------------------------------------------------------------------------
(* One tick of a worker: reconcile when the interval has elapsed, relay    *)
(* one event, consume one delivery.                                        *)

Reconcile(w) ==
    /\ worker[w].pc = "tick"
    /\ outbox' = [x \in Events |->
                    IF Reconcilable(x)
                    THEN Republished(outbox[x]) ELSE outbox[x]]
    /\ GoTo(w, "relay")
    /\ UNCHANGED <<rows, stream, bounds>>

\* Identifiers that Redis may give to a new entry: neither in the stream nor
\* still held by a worker that reads or acknowledges it.
FreeIds ==
    {e \in EntryIds : /\ stream[e].state = "absent"
                      /\ \A w \in Workers : worker[w].entry # e}

\* The pool of identifiers bounds the model: a relay takes an event only
\* while an identifier is left for every publication under way.
PoolHasRoom ==
    Cardinality({w \in Workers : worker[w].pc = "publish"}) < Cardinality(FreeIds)

\* publish_one, first transaction: lease one publishable event.
LeaseEvent(w, x) ==
    /\ worker[w].pc = "relay"
    /\ Publishable(outbox[x])
    /\ PoolHasRoom
    /\ outbox' = [outbox EXCEPT ![x] = [@ EXCEPT !.token = w, !.hold = "live"]]
    /\ worker' = [worker EXCEPT ![w] = [@ EXCEPT !.pc = "publish", !.event = x]]
    /\ UNCHANGED <<rows, stream, bounds>>

NothingToPublish(w) ==
    /\ worker[w].pc = "relay"
    /\ ~ (PoolHasRoom /\ \E x \in Events : Publishable(outbox[x]))
    /\ GoTo(w, "consume")
    /\ UNCHANGED <<rows, outbox, stream, bounds>>

\* publish_one between its transactions: XADD.
PublishDelivery(w) ==
    /\ worker[w].pc = "publish"
    /\ worker[w].event[2] = "ingestion"
    /\ \E e \in FreeIds :
         stream' = [stream EXCEPT ![e] = [state |-> "new", job |-> worker[w].event[1]]]
    /\ GoTo(w, "mark")
    /\ UNCHANGED <<rows, outbox, bounds>>

\* The dead letter stream is a bounded mirror that nothing here reads.
PublishDeadLetter(w) ==
    /\ worker[w].pc = "publish"
    /\ worker[w].event[2] = "dead"
    /\ GoTo(w, "mark")
    /\ UNCHANGED <<rows, outbox, stream, bounds>>

\* publish_one, second transaction: the event is published if the token is
\* still ours.
MarkPublished(w) ==
    /\ worker[w].pc = "mark"
    /\ outbox' = [outbox EXCEPT ![worker[w].event] =
                    IF @.token = w
                    THEN [@ EXCEPT !.pub = "fresh", !.token = None, !.hold = "none"]
                    ELSE @]
    /\ worker' = [worker EXCEPT ![w] = [@ EXCEPT !.pc = "consume", !.event = None]]
    /\ UNCHANGED <<rows, stream, bounds>>

\* consume_one: XAUTOCLAIM takes over a delivery idle for longer than a job
\* lease; otherwise XREADGROUP takes a new one.
Deliver(w, e) ==
    /\ stream' = [stream EXCEPT ![e] = [@ EXCEPT !.state = "busy"]]
    /\ worker' = [worker EXCEPT ![w] = [@ EXCEPT !.pc = "claim", !.entry = e, !.job = stream[e].job]]
    /\ UNCHANGED <<rows, outbox, bounds>>

NoneIn(state) == \A e \in EntryIds : stream[e].state # state

Reclaim(w, e) ==
    /\ worker[w].pc = "consume"
    /\ stream[e].state = "idle"
    /\ Deliver(w, e)

ReadNew(w, e) ==
    /\ worker[w].pc = "consume"
    /\ NoneIn("idle")
    /\ stream[e].state = "new"
    /\ Deliver(w, e)

NothingToConsume(w) ==
    /\ worker[w].pc = "consume"
    /\ NoneIn("idle")
    /\ NoneIn("new")
    /\ worker' = [worker EXCEPT ![w] = AtTick]
    /\ UNCHANGED <<rows, outbox, stream, bounds>>

-----------------------------------------------------------------------------
(* IngestionWorker.process.                                                *)

\* JobEnvelope.parse fails, or the envelope does not match the event and the
\* job it names: acknowledged without touching the database.
RejectEnvelope_KeepsEntry(w) ==
    /\ worker[w].pc = "claim"
    /\ worker[w].job = None
    /\ worker' = [worker EXCEPT ![w] = AtTick]
    /\ UNCHANGED <<rows, outbox, stream, bounds>>
RejectEnvelope(w) ==
    /\ worker[w].pc = "claim"
    /\ worker[w].job = None
    /\ GoTo(w, "ack")
    /\ UNCHANGED <<rows, outbox, stream, bounds>>

\* A job nobody may claim now: finished, waiting for its backoff, or leased.
Unclaimable_Reopens(r) ==
    \/ r.state = "PENDING" /\ r.due = "later"
    \/ r.state = "RUNNING" /\ r.lease = "live"
Unclaimable(r) ==
    \/ r.state \in Terminal
    \/ r.state = "PENDING" /\ r.due = "later"
    \/ r.state = "RUNNING" /\ r.lease = "live"

ClaimIgnored(w) ==
    LET j == worker[w].job IN
    /\ worker[w].pc = "claim"
    /\ j # None
    /\ Unclaimable(job[j])
    /\ GoTo(w, "check")
    /\ UNCHANGED <<rows, outbox, stream, bounds>>

Exhausted_OffByOne(r) == r.attempt > MaxAttempts
Exhausted(r) == r.attempt >= MaxAttempts

GivenUp(r) ==
    [r EXCEPT !.state = "FAILED", !.lease = "none", !.fence = r.fence + 1]

ClaimExhausted(w) ==
    LET j == worker[w].job IN
    /\ worker[w].pc = "claim"
    /\ j # None
    /\ ~ Unclaimable(job[j])
    /\ Exhausted(job[j])
    /\ job' = [job EXCEPT ![j] = GivenUp(@)]
    /\ version' = [version EXCEPT ![j] = "FAILED"]
    /\ outbox' = [outbox EXCEPT ![<<j, "dead">>] = Enlist(@)]
    /\ GoTo(w, "check")
    /\ UNCHANGED <<corpora, stream, bounds>>

\* What a claim does to the job row.
Claimed_SameFence(r) ==
    [r EXCEPT !.state = "RUNNING", !.attempt = r.attempt + 1, !.lease = "live"]
Claimed(r) ==
    [r EXCEPT !.state = "RUNNING", !.attempt = r.attempt + 1, !.fence = r.fence + 1,
              !.lease = "live"]

ClaimTaken(w) ==
    LET j == worker[w].job IN
    /\ worker[w].pc = "claim"
    /\ j # None
    /\ ~ Unclaimable(job[j])
    /\ ~ Exhausted(job[j])
    /\ version[j] \in {"QUEUED", "PROCESSING"}
    /\ job' = [job EXCEPT ![j] = Claimed(@)]
    /\ version' = [version EXCEPT ![j] = "PROCESSING"]
    /\ worker' = [worker EXCEPT ![w] = [@ EXCEPT !.pc = "work", !.fence = Claimed(job[j]).fence]]
    /\ UNCHANGED <<corpora, outbox, stream, bounds>>

\* Read the object, verify it, parse, chunk and embed: no database step.
\* The verdict is the exception the handlers of process distinguish.
Work(w) ==
    /\ worker[w].pc = "work"
    /\ \E v \in Verdicts \ {"none"} :
         worker' = [worker EXCEPT ![w] = [@ EXCEPT !.pc = "persist", !.verdict = v]]
    /\ UNCHANGED <<rows, outbox, stream, bounds>>

\* The row lock and the WHERE clause that both persist transactions open with.
HoldsFence_Unchecked(w) == TRUE
HoldsFence(w) ==
    LET r == job[worker[w].job] IN
    /\ r.state = "RUNNING"
    /\ r.fence = worker[w].fence
    /\ r.lease = "live"

\* _persist_success: corpus, chunks and embeddings, version and job together.
PersistSuccess(w) ==
    LET j == worker[w].job IN
    /\ worker[w].pc = "persist"
    /\ worker[w].verdict = "success"
    /\ HoldsFence(w)
    /\ version[j] = "PROCESSING"
    /\ corpora' = [corpora EXCEPT ![j] = @ + 1]
    /\ version' = [version EXCEPT ![j] = "INDEXED"]
    /\ job' = [job EXCEPT ![j] = [@ EXCEPT !.state = "SUCCEEDED", !.lease = "none"]]
    /\ GoTo(w, "check")
    /\ UNCHANGED <<outbox, stream, bounds>>

\* "stale ingestion fencing token" is a RuntimeError: process catches it and
\* reports a permanent failure.
StaleSuccess(w) ==
    /\ worker[w].pc = "persist"
    /\ worker[w].verdict = "success"
    /\ ~ HoldsFence(w)
    /\ worker' = [worker EXCEPT ![w] = [@ EXCEPT !.verdict = "FAILED"]]
    /\ UNCHANGED <<rows, outbox, stream, bounds>>

Retries_Unbounded(w) == worker[w].verdict = "transient"
Retries(w) ==
    /\ worker[w].verdict = "transient"
    /\ job[worker[w].job].attempt < MaxAttempts

\* _persist_failure, retry: back to PENDING behind a backoff.
PersistRetry(w) ==
    LET j == worker[w].job IN
    /\ worker[w].pc = "persist"
    /\ HoldsFence(w)
    /\ Retries(w)
    /\ job' = [job EXCEPT ![j] = [@ EXCEPT !.state = "PENDING", !.lease = "none", !.due = "later"]]
    /\ outbox' = [outbox EXCEPT ![<<j, "ingestion">>] = ScheduleRetry(@)]
    /\ version' = [version EXCEPT ![j] = IF @ = "PROCESSING" THEN "QUEUED" ELSE @]
    /\ GoTo(w, "check")
    /\ UNCHANGED <<corpora, stream, bounds>>

\* _persist_failure, no retry: a transient failure on the last attempt leaves
\* the version FAILED.
PersistFailure(w) ==
    LET j == worker[w].job
        left == IF worker[w].verdict = "transient" THEN "FAILED" ELSE worker[w].verdict
    IN
    /\ worker[w].pc = "persist"
    /\ worker[w].verdict # "success"
    /\ HoldsFence(w)
    /\ ~ Retries(w)
    /\ job' = [job EXCEPT ![j] = [@ EXCEPT !.state = "FAILED", !.lease = "none"]]
    /\ outbox' = [outbox EXCEPT ![<<j, "dead">>] = Enlist(@)]
    /\ version' = [version EXCEPT ![j] = IF @ = "PROCESSING" THEN left ELSE @]
    /\ GoTo(w, "check")
    /\ UNCHANGED <<corpora, stream, bounds>>

StaleFailure(w) ==
    /\ worker[w].pc = "persist"
    /\ worker[w].verdict # "success"
    /\ ~ HoldsFence(w)
    /\ GoTo(w, "check")
    /\ UNCHANGED <<rows, outbox, stream, bounds>>

-----------------------------------------------------------------------------
(* Acknowledgement.                                                        *)

Acknowledgeable(j) == job[j].state \in Terminal \cup {"PENDING"}

CheckAcknowledgeable(w) ==
    /\ worker[w].pc = "check"
    /\ worker' = [worker EXCEPT ![w] =
                    IF Acknowledgeable(@.job) THEN [@ EXCEPT !.pc = "ack"] ELSE AtTick]
    /\ UNCHANGED <<rows, outbox, stream, bounds>>

\* XACK and XDEL in one MULTI.
Acknowledge(w) ==
    /\ worker[w].pc = "ack"
    /\ stream' = [stream EXCEPT ![worker[w].entry] = NoEntry]
    /\ worker' = [worker EXCEPT ![w] = AtTick]
    /\ UNCHANGED <<rows, outbox, bounds>>

-----------------------------------------------------------------------------
(* Failures.                                                               *)

\* The process dies, or a database or Redis error ends the tick: what was
\* committed stays, everything else the tick knew is gone.
AbortTick(w) ==
    /\ worker[w].pc # "tick"
    /\ faults < MaxFaults
    /\ faults' = faults + 1
    /\ worker' = [worker EXCEPT ![w] = AtTick]
    /\ UNCHANGED <<rows, outbox, stream, losses, strays>>

LoseStream ==
    /\ losses < MaxLosses
    /\ losses' = losses + 1
    /\ stream' = [e \in EntryIds |-> NoEntry]
    /\ UNCHANGED <<rows, outbox, worker, faults, strays>>

\* ensure_group recreates the group at 0-0: every entry is new again.
LoseGroup ==
    /\ losses < MaxLosses
    /\ losses' = losses + 1
    /\ stream' = [e \in EntryIds |->
                    IF stream[e].state = "absent" THEN NoEntry
                    ELSE [stream[e] EXCEPT !.state = "new"]]
    /\ UNCHANGED <<rows, outbox, worker, faults, strays>>

\* Something else adds an entry that is not an envelope of this database.
AddStray(e) ==
    /\ strays < MaxStrays
    /\ PoolHasRoom
    /\ e \in FreeIds
    /\ strays' = strays + 1
    /\ stream' = [stream EXCEPT ![e] = [state |-> "new", job |-> None]]
    /\ UNCHANGED <<rows, outbox, worker, faults, losses>>

-----------------------------------------------------------------------------
(* Time.                                                                   *)

LeaseExpires(j) ==
    /\ job[j].lease = "live"
    /\ job' = [job EXCEPT ![j] = [@ EXCEPT !.lease = "expired"]]
    /\ UNCHANGED <<version, corpora, outbox, stream, worker, bounds>>

\* next_attempt_at of the job and available_at of its event are one instant.
BackoffElapses(j) ==
    /\ job[j].state = "PENDING"
    /\ job[j].due = "later"
    /\ job' = [job EXCEPT ![j] = [@ EXCEPT !.due = "reached"]]
    /\ outbox' = [outbox EXCEPT ![<<j, "ingestion">>] = [@ EXCEPT !.avail = "reached"]]
    /\ UNCHANGED <<version, corpora, stream, worker, bounds>>

\* A relay is between its two transactions on event x.
UnderWay(x) ==
    \E w \in Workers : /\ worker[w].event = x
                       /\ outbox[x].token = w

\* The publish lease of a relay that is gone runs out.
HoldExpires(x) ==
    /\ outbox[x].hold = "live"
    /\ ~ UnderWay(x)
    /\ outbox' = [outbox EXCEPT ![x] = [@ EXCEPT !.hold = "expired"]]
    /\ UNCHANGED <<rows, stream, worker, bounds>>

\* The relay is alive and overstays its lease: thirty seconds for one XADD
\* and one UPDATE, so this counts as a fault.
RelayOverstays(x) ==
    /\ outbox[x].hold = "live"
    /\ UnderWay(x)
    /\ faults < MaxFaults
    /\ faults' = faults + 1
    /\ outbox' = [outbox EXCEPT ![x] = [@ EXCEPT !.hold = "expired"]]
    /\ UNCHANGED <<rows, stream, worker, losses, strays>>

PublicationAges(x) ==
    /\ x[2] = "ingestion"
    /\ outbox[x].pub = "fresh"
    /\ outbox' = [outbox EXCEPT ![x] = [@ EXCEPT !.pub = "stale"]]
    /\ UNCHANGED <<rows, stream, worker, bounds>>

EntryIdles(e) ==
    /\ stream[e].state = "busy"
    /\ stream' = [stream EXCEPT ![e] = [@ EXCEPT !.state = "idle"]]
    /\ UNCHANGED <<rows, outbox, worker, bounds>>

-----------------------------------------------------------------------------
Step(w) ==
    \/ Reconcile(w)
    \/ \E x \in Events : LeaseEvent(w, x)
    \/ NothingToPublish(w)
    \/ PublishDelivery(w)
    \/ PublishDeadLetter(w)
    \/ MarkPublished(w)
    \/ \E e \in EntryIds : Reclaim(w, e) \/ ReadNew(w, e)
    \/ NothingToConsume(w)
    \/ RejectEnvelope(w)
    \/ ClaimIgnored(w)
    \/ ClaimExhausted(w)
    \/ ClaimTaken(w)
    \/ Work(w)
    \/ PersistSuccess(w)
    \/ StaleSuccess(w)
    \/ PersistRetry(w)
    \/ PersistFailure(w)
    \/ StaleFailure(w)
    \/ CheckAcknowledgeable(w)
    \/ Acknowledge(w)

Time ==
    \/ \E j \in Jobs : LeaseExpires(j) \/ BackoffElapses(j)
    \/ \E x \in Events : HoldExpires(x) \/ PublicationAges(x)
    \/ \E e \in EntryIds : EntryIdles(e)

Failures ==
    \/ \E w \in Workers : AbortTick(w)
    \/ \E x \in Events : RelayOverstays(x)
    \/ LoseStream
    \/ LoseGroup
    \/ \E e \in EntryIds : AddStray(e)

Next ==
    \/ \E j \in Jobs : Confirm(j)
    \/ \E w \in Workers : Step(w)
    \/ Time
    \/ Failures

Spec == Init /\ [][Next]_vars

\* A running worker keeps taking steps and every clock keeps running.
Fairness ==
    /\ \A w \in Workers : WF_vars(Step(w))
    /\ \A j \in Jobs : WF_vars(LeaseExpires(j)) /\ WF_vars(BackoffElapses(j))
    /\ \A x \in Events : WF_vars(HoldExpires(x)) /\ WF_vars(PublicationAges(x))
    /\ \A e \in EntryIds : WF_vars(EntryIdles(e))

FairSpec == Spec /\ Fairness

-----------------------------------------------------------------------------
(* Properties.                                                             *)

\* Every variable stays in the set its rows, entries and control states are
\* drawn from; in particular attempts never exceed job_max_attempts.
TypeOK ==
    /\ job \in [Jobs -> JobRow]
    /\ version \in [Jobs -> VersionStates]
    /\ corpora \in [Jobs -> Nat]
    /\ outbox \in [Events -> EventRow]
    /\ stream \in [EntryIds -> Entry]
    /\ worker \in [Workers -> Control]
    /\ faults \in 0 .. MaxFaults
    /\ losses \in 0 .. MaxLosses
    /\ strays \in 0 .. MaxStrays

\* What one job's row, version, corpora and dead letter must agree on.
Agrees(r, v, n, letter) ==
    /\ r.state = "ABSENT" <=> v = "AWAITING_UPLOAD"
    /\ r.state = "PENDING" <=> v = "QUEUED"
    /\ r.state = "RUNNING" <=> v = "PROCESSING"
    /\ r.state = "SUCCEEDED" <=> v = "INDEXED"
    /\ n = IF r.state = "SUCCEEDED" THEN 1 ELSE 0
    /\ r.state = "FAILED" <=> letter # "absent"
    /\ r.state = "RUNNING" <=> r.lease # "none"

\* The job row, the version row, the corpora and the dead letter tell one
\* story at every commit, whatever claims, expiries and stale writers there
\* were: exactly one corpus for a job that succeeded and none for any other,
\* a dead letter exactly for a job that failed, a lease exactly on a running
\* one.  In particular a claim never finds a version it cannot move to
\* PROCESSING (ingestion.py:260).
StateAgreement ==
    \A j \in Jobs : Agrees(job[j], version[j], corpora[j], outbox[<<j, "dead">>].pub)

\* Which workers act on a claim they believe they hold.
Claimants(j) ==
    {w \in Workers : worker[w].job = j /\ worker[w].pc \in {"work", "persist"}}

\* Two workers never hold the same fencing token for one job, and no worker
\* holds one the row has not issued: a takeover after an expired lease makes
\* every earlier claim unable to commit.
FencedClaims ==
    \A j \in Jobs : \A w \in Claimants(j) :
        /\ worker[w].fence \in 1 .. job[j].fence
        /\ \A v \in Claimants(j) : worker[v].fence = worker[w].fence => v = w

Accounts(r) ==
    /\ r.state = "PENDING" => r.attempt < MaxAttempts
    /\ r.state = "RUNNING" => r.attempt > 0
    /\ \/ r.fence = r.attempt
       \/ /\ r.fence = r.attempt + 1
          /\ r.attempt = MaxAttempts
          /\ r.state = "FAILED"

\* The attempt budget: a job waits for a retry only while an attempt is left,
\* and the token counts the claims, plus one for the claim that gave up.
AttemptAccounting == \A j \in Jobs : Accounts(job[j])

\* As long as Redis has lost nothing, an unfinished job is never forgotten:
\* its event still waits to be published, or the stream still holds a
\* delivery for it.  Late marks by a slow relay, acknowledgements of old
\* deliveries and crashes between any two steps never close both routes.
DeliveryRoute ==
    losses = 0 =>
        \A j \in Jobs :
            job[j].state \in {"PENDING", "RUNNING"} =>
                \/ outbox[<<j, "ingestion">>].pub = "unpublished"
                \/ \E e \in EntryIds : stream[e].state # "absent" /\ stream[e].job = j

\* The refinement mapping: what a reader of the version row, the corpora and
\* the dead letters can see.
StatusOf(state) ==
    CASE state = "AWAITING_UPLOAD" -> "awaiting"
      [] state = "QUEUED" -> "queued"
      [] state = "PROCESSING" -> "processing"
      [] state = "INDEXED" -> "indexed"
      [] OTHER -> "failed"

Abs == INSTANCE AbstractIngestion WITH
    Documents <- Jobs,
    MaxTries <- MaxAttempts,
    status <- [j \in Jobs |-> StatusOf(version[j])],
    tries <- [j \in Jobs |-> job[j].attempt],
    corpora <- corpora,
    letters <- {j \in Jobs : outbox[<<j, "dead">>].pub # "absent"}

\* Seen from outside, the pipeline is the abstract one: with any number of
\* workers, duplicate deliveries and stale writers, a version is indexed at
\* most once, fails at most once, never both, and is final afterwards.
ImplementsIngestion == Abs!Spec

\* Together with fairness: no submitted document is left alone, even when
\* workers die and Redis loses its stream.  Every confirmed upload is indexed
\* or reported as failed.
ImplementsFairIngestion == Abs!FairSpec

\* Every dead letter reaches its Redis mirror.
DeadLetterPublished ==
    \A j \in Jobs :
        outbox[<<j, "dead">>].pub = "unpublished" ~> outbox[<<j, "dead">>].pub = "fresh"

\* Acknowledgement and deletion empty the stream: duplicates, stray entries
\* and deliveries abandoned by dead workers are all cleared in the end.
StreamDrains == <>[](\A e \in EntryIds : stream[e].state = "absent")
=============================================================================
