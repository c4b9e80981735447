-------------------------- MODULE IngestionProofs --------------------------
(***************************************************************************)
(* Proofs about the ingestion pipeline, for any sets of jobs, workers and  *)
(* entries and any values of the bounds.                                   *)
(***************************************************************************)
EXTENDS IngestionJobs, TLAPS

\* What each control state may rely on.
ControlOK ==
    \A w \in Workers :
        LET c == worker[w] IN
        /\ c.pc \in {"publish", "mark"} => c.event # None
        /\ c.pc \in {"claim", "work", "persist", "check", "ack"} => c.entry # None
        /\ c.pc \in {"work", "persist", "check"} => c.job # None
        /\ c.pc = "persist" => c.verdict # "none"

\* A job that was never confirmed has not been attempted.
NotStarted == \A j \in Jobs : job[j].state = "ABSENT" => job[j].attempt = 0

\* Only an event that exists is held by a relay.
HeldExists == \A x \in Events : outbox[x].pub = "absent" => outbox[x].token = None

\* The inductive invariant.  ControlOK, NotStarted and HeldExists are what
\* the other conjuncts need to be preserved by every step.
IInv ==
    /\ TypeOK
    /\ ControlOK
    /\ NotStarted
    /\ HeldExists
    /\ StateAgreement
    /\ AttemptAccounting
    /\ FencedClaims

USE ConstantsAssumption

LEMMA InitIInv == Init => IInv
<1> SUFFICES ASSUME Init PROVE IInv
    OBVIOUS
<1>1. TypeOK
    BY DEF Init, TypeOK, JobRow, VersionStates, FailedVersion, EventRow, NoEvent,
           Entry, NoEntry, Control, AtTick, Verdicts, Clock, Moment, Terminal
<1>2. ControlOK
    BY DEF Init, ControlOK, AtTick
<1>3. NotStarted /\ AttemptAccounting
    BY DEF Init, NotStarted, AttemptAccounting, Accounts
<1>4. StateAgreement
    BY DEF Init, StateAgreement, Agrees, NoEvent, Events, Kinds
<1>5. FencedClaims
    BY DEF Init, FencedClaims, Claimants, AtTick
<1>6. HeldExists
    BY DEF Init, HeldExists, NoEvent
<1> QED
    BY <1>1, <1>2, <1>3, <1>4, <1>5, <1>6 DEF IInv

\* The row updates of the transactions keep a row in its type.
LEMMA EventUpdates ==
    ASSUME NEW r \in EventRow
    PROVE  /\ Enlist(r) \in EventRow
           /\ ScheduleRetry(r) \in EventRow
           /\ Republished(r) \in EventRow
           /\ \A w \in Workers : [r EXCEPT !.token = w, !.hold = "live"] \in EventRow
           /\ [r EXCEPT !.pub = "fresh", !.token = None, !.hold = "none"] \in EventRow
           /\ [r EXCEPT !.avail = "reached"] \in EventRow
           /\ [r EXCEPT !.hold = "expired"] \in EventRow
           /\ [r EXCEPT !.pub = "stale"] \in EventRow
<1>1. Enlist(r) \in EventRow /\ ScheduleRetry(r) \in EventRow
    BY DEF EventRow, Clock, Moment, Enlist, ScheduleRetry
<1>2. Republished(r) \in EventRow
    BY DEF EventRow, Clock, Moment, Republished
<1>3. \A w \in Workers : [r EXCEPT !.token = w, !.hold = "live"] \in EventRow
    BY DEF EventRow, Clock, Moment
<1>4. [r EXCEPT !.pub = "fresh", !.token = None, !.hold = "none"] \in EventRow
    BY DEF EventRow, Clock, Moment
<1>5. /\ [r EXCEPT !.avail = "reached"] \in EventRow
      /\ [r EXCEPT !.hold = "expired"] \in EventRow
      /\ [r EXCEPT !.pub = "stale"] \in EventRow
    BY DEF EventRow, Clock, Moment
<1> QED
    BY <1>1, <1>2, <1>3, <1>4, <1>5

LEMMA ControlUpdates ==
    ASSUME NEW c \in Control
    PROVE  /\ AtTick \in Control
           /\ \A pc \in {"relay", "publish", "mark", "consume", "claim", "work",
                         "persist", "check", "ack"} : [c EXCEPT !.pc = pc] \in Control
           /\ \A x \in Events \cup {None} :
                \A pc \in {"publish", "consume"} :
                    [c EXCEPT !.pc = pc, !.event = x] \in Control
           /\ \A e \in EntryIds, j \in Jobs \cup {None} :
                [c EXCEPT !.pc = "claim", !.entry = e, !.job = j] \in Control
           /\ \A f \in 0 .. MaxAttempts + 1 :
                [c EXCEPT !.pc = "work", !.fence = f] \in Control
           /\ \A v \in Verdicts :
                /\ [c EXCEPT !.pc = "persist", !.verdict = v] \in Control
                /\ [c EXCEPT !.verdict = v] \in Control
<1>1. AtTick \in Control
    BY DEF AtTick, Control, Verdicts
<1>2. \A pc \in {"relay", "publish", "mark", "consume", "claim", "work",
                  "persist", "check", "ack"} : [c EXCEPT !.pc = pc] \in Control
    BY DEF Control
<1>3. \A x \in Events \cup {None} :
        \A pc \in {"publish", "consume"} : [c EXCEPT !.pc = pc, !.event = x] \in Control
    BY DEF Control
<1>4. \A e \in EntryIds, j \in Jobs \cup {None} :
        [c EXCEPT !.pc = "claim", !.entry = e, !.job = j] \in Control
    BY DEF Control
<1>5. \A f \in 0 .. MaxAttempts + 1 : [c EXCEPT !.pc = "work", !.fence = f] \in Control
    BY DEF Control
<1>6. \A v \in Verdicts : /\ [c EXCEPT !.pc = "persist", !.verdict = v] \in Control
                           /\ [c EXCEPT !.verdict = v] \in Control
    BY DEF Control
<1> QED
    BY <1>1, <1>2, <1>3, <1>4, <1>5, <1>6, Zenon

LEMMA JobUpdates ==
    ASSUME NEW r \in JobRow
    PROVE  /\ [r EXCEPT !.state = "PENDING", !.due = "reached"] \in JobRow
           /\ [r EXCEPT !.state = "SUCCEEDED", !.lease = "none"] \in JobRow
           /\ [r EXCEPT !.state = "FAILED", !.lease = "none"] \in JobRow
           /\ [r EXCEPT !.state = "PENDING", !.lease = "none", !.due = "later"] \in JobRow
           /\ [r EXCEPT !.lease = "expired"] \in JobRow
           /\ [r EXCEPT !.due = "reached"] \in JobRow
           /\ r.fence <= MaxAttempts =>
                GivenUp(r) \in JobRow
           /\ r.fence <= MaxAttempts /\ r.attempt < MaxAttempts => Claimed(r) \in JobRow
<1>1. ASSUME r.fence <= MaxAttempts
      PROVE  GivenUp(r) \in JobRow
  <2>1. r.fence + 1 \in 0 .. MaxAttempts + 1
    BY <1>1 DEF JobRow
  <2>2. \A f \in 0 .. MaxAttempts + 1 :
            [r EXCEPT !.state = "FAILED", !.lease = "none", !.fence = f] \in JobRow
    BY DEF JobRow, Clock, Terminal
  <2> QED
    BY <2>1, <2>2 DEF GivenUp
<1>2. ASSUME r.fence <= MaxAttempts, r.attempt < MaxAttempts
      PROVE  Claimed(r) \in JobRow
  <2>1. r.fence + 1 \in 0 .. MaxAttempts + 1 /\ r.attempt + 1 \in 0 .. MaxAttempts
    BY <1>2 DEF JobRow
  <2>2. \A f \in 0 .. MaxAttempts + 1, a \in 0 .. MaxAttempts :
            [r EXCEPT !.state = "RUNNING", !.attempt = a, !.fence = f, !.lease = "live"]
                \in JobRow
    BY DEF JobRow, Clock
  <2> QED
    BY <2>1, <2>2 DEF Claimed
<1>3. /\ [r EXCEPT !.state = "PENDING", !.due = "reached"] \in JobRow
      /\ [r EXCEPT !.lease = "expired"] \in JobRow
      /\ [r EXCEPT !.due = "reached"] \in JobRow
    BY DEF JobRow, Clock, Moment
<1>4. /\ [r EXCEPT !.state = "SUCCEEDED", !.lease = "none"] \in JobRow
      /\ [r EXCEPT !.state = "FAILED", !.lease = "none"] \in JobRow
    BY DEF JobRow, Clock, Terminal
<1>5. [r EXCEPT !.state = "PENDING", !.lease = "none", !.due = "later"] \in JobRow
    BY DEF JobRow, Clock, Moment
<1> QED
    BY <1>1, <1>2, <1>3, <1>4, <1>5

\* A job that may be claimed has claims left to count.
LEMMA ClaimableFence ==
    ASSUME TypeOK, AttemptAccounting, NEW j \in Jobs, ~ Unclaimable(job[j])
    PROVE  /\ job[j].fence = job[j].attempt
           /\ job[j].attempt \in 0 .. MaxAttempts
           /\ job[j].fence <= MaxAttempts
BY DEF TypeOK, AttemptAccounting, Accounts, Unclaimable, JobRow, Terminal

\* Type correctness of one worker step, action by action.
LEMMA StepTypeOK ==
    ASSUME NEW w \in Workers, IInv, Step(w)
    PROVE  TypeOK'
<1> USE DEF GoTo, rows, bounds
<1> TypeOK /\ ControlOK /\ AttemptAccounting
    BY DEF IInv
<1>a. /\ worker[w] \in Control
      /\ \A x \in Events : outbox[x] \in EventRow
      /\ \A j \in Jobs : job[j] \in JobRow
      /\ \A j \in Jobs : <<j, "ingestion">> \in Events /\ <<j, "dead">> \in Events
    BY DEF TypeOK, Events, Kinds
<1>c. /\ worker[w].event \in Events \cup {None}
      /\ worker[w].entry \in EntryIds \cup {None}
      /\ worker[w].job \in Jobs \cup {None}
      /\ worker[w].verdict \in Verdicts
    BY <1>a DEF Control
<1>1. CASE Reconcile(w)
  <2>1. \A x \in Events : Republished(outbox[x]) \in EventRow
    BY <1>a, EventUpdates
  <2> QED
    BY <1>1, <1>a, <2>1, ControlUpdates DEF Reconcile, TypeOK
<1>2. ASSUME NEW x \in Events, LeaseEvent(w, x) PROVE TypeOK'
  <2>1. [outbox[x] EXCEPT !.token = w, !.hold = "live"] \in EventRow
    BY <1>a, EventUpdates
  <2>2. [worker[w] EXCEPT !.pc = "publish", !.event = x] \in Control
    BY <1>a, ControlUpdates
  <2> QED
    BY <1>2, <2>1, <2>2 DEF LeaseEvent, TypeOK
<1>3. CASE NothingToPublish(w)
    BY <1>3, <1>a, ControlUpdates DEF NothingToPublish, TypeOK
<1>4. CASE PublishDelivery(w)
  <2>1. worker[w].event[1] \in Jobs
    BY <1>4, <1>c DEF PublishDelivery, ControlOK, Events
  <2>2. [worker[w] EXCEPT !.pc = "mark"] \in Control
    BY <1>a, ControlUpdates
  <2>3. [state |-> "new", job |-> worker[w].event[1]] \in Entry
    BY <2>1 DEF Entry
  <2> QED
    BY <1>4, <2>2, <2>3 DEF PublishDelivery, TypeOK, FreeIds
<1>5. CASE PublishDeadLetter(w)
    BY <1>5, <1>a, ControlUpdates DEF PublishDeadLetter, TypeOK
<1>6. CASE MarkPublished(w)
  <2> DEFINE x == worker[w].event
  <2>1. x \in Events
    BY <1>6, <1>c DEF MarkPublished, ControlOK
  <2>2. [outbox[x] EXCEPT !.pub = "fresh", !.token = None, !.hold = "none"] \in EventRow
    BY <1>a, <2>1, EventUpdates
  <2>3. [worker[w] EXCEPT !.pc = "consume", !.event = None] \in Control
    BY <1>a, ControlUpdates
  <2> QED
    BY <1>6, <2>1, <2>2, <2>3 DEF MarkPublished, TypeOK
<1>7. ASSUME NEW e \in EntryIds, Reclaim(w, e) \/ ReadNew(w, e) PROVE TypeOK'
  <2>1. stream[e] \in Entry
    BY DEF TypeOK
  <2>2. [stream[e] EXCEPT !.state = "busy"] \in Entry /\ stream[e].job \in Jobs \cup {None}
    BY <2>1 DEF Entry
  <2>3. [worker[w] EXCEPT !.pc = "claim", !.entry = e, !.job = stream[e].job] \in Control
    BY <1>a, <2>2, ControlUpdates
  <2> QED
    BY <1>7, <2>2, <2>3 DEF Reclaim, ReadNew, Deliver, TypeOK
<1>8. CASE NothingToConsume(w)
    BY <1>8, <1>a, ControlUpdates DEF NothingToConsume, TypeOK
<1>9. CASE RejectEnvelope(w)
    BY <1>9, <1>a, ControlUpdates DEF RejectEnvelope, TypeOK
<1>10. CASE ClaimIgnored(w)
    BY <1>10, <1>a, ControlUpdates DEF ClaimIgnored, TypeOK
<1>11. CASE ClaimExhausted(w)
  <2> DEFINE j == worker[w].job
  <2>1. j \in Jobs
    BY <1>11, <1>c DEF ClaimExhausted
  <2>2. GivenUp(job[j]) \in JobRow
    BY <1>11, <1>a, <2>1, JobUpdates, ClaimableFence DEF ClaimExhausted
  <2>3. Enlist(outbox[<<j, "dead">>]) \in EventRow
    BY <1>a, <2>1, EventUpdates
  <2>4. [worker[w] EXCEPT !.pc = "check"] \in Control
    BY <1>a, ControlUpdates
  <2>5. "FAILED" \in VersionStates
    BY DEF VersionStates, FailedVersion
  <2>6. job' \in [Jobs -> JobRow]
    BY <1>11, <2>1, <2>2 DEF ClaimExhausted, TypeOK
  <2>7. outbox' \in [Events -> EventRow]
    BY <1>11, <1>a, <2>1, <2>3 DEF ClaimExhausted, TypeOK
  <2> QED
    BY <1>11, <2>4, <2>5, <2>6, <2>7 DEF ClaimExhausted, TypeOK
<1>12. CASE ClaimTaken(w)
  <2> DEFINE j == worker[w].job
  <2>1. j \in Jobs
    BY <1>12, <1>c DEF ClaimTaken
  <2>6. job[j].fence <= MaxAttempts /\ job[j].attempt < MaxAttempts
    BY <1>12, <2>1, ClaimableFence DEF ClaimTaken, Exhausted
  <2>2. Claimed(job[j]) \in JobRow
    BY <1>a, <2>1, <2>6, JobUpdates
  <2>3. Claimed(job[j]).fence \in 0 .. MaxAttempts + 1
    BY <2>2 DEF JobRow
  <2>4. [worker[w] EXCEPT !.pc = "work", !.fence = Claimed(job[j]).fence] \in Control
    BY <1>a, <2>3, ControlUpdates
  <2>5. "PROCESSING" \in VersionStates
    BY DEF VersionStates
  <2>7. job' \in [Jobs -> JobRow]
    BY <1>12, <2>1, <2>2 DEF ClaimTaken, TypeOK
  <2>8. worker' \in [Workers -> Control]
    BY <1>12, <2>4 DEF ClaimTaken, TypeOK
  <2>9. version' \in [Jobs -> VersionStates]
    BY <1>12, <2>5 DEF ClaimTaken, TypeOK
  <2> QED
    BY <1>12, <2>7, <2>8, <2>9 DEF ClaimTaken, TypeOK
<1>13. CASE Work(w)
  <2>1. \A v \in Verdicts : [worker[w] EXCEPT !.pc = "persist", !.verdict = v] \in Control
    BY <1>a, ControlUpdates
  <2>2. PICK v \in Verdicts \ {"none"} :
            worker' = [worker EXCEPT ![w] = [@ EXCEPT !.pc = "persist", !.verdict = v]]
    BY <1>13 DEF Work
  <2>3. worker \in [Workers -> Control]
    BY DEF TypeOK
  <2> DEFINE c == [worker[w] EXCEPT !.pc = "persist", !.verdict = v]
  <2>4. c \in Control
    BY <2>1
  <2> HIDE DEF c
  <2>5. worker' = [worker EXCEPT ![w] = c]
    BY <2>2 DEF c
  <2>6. worker' \in [Workers -> Control]
    BY <2>3, <2>4, <2>5
  <2>7. UNCHANGED <<job, version, corpora, outbox, stream, faults, losses, strays>>
    BY <1>13 DEF Work
  <2> QED
    BY <2>6, <2>7 DEF TypeOK
<1>14. CASE PersistSuccess(w)
  <2> DEFINE j == worker[w].job
  <2>1. j \in Jobs
    BY <1>14, <1>c DEF PersistSuccess, ControlOK
  <2>2. [job[j] EXCEPT !.state = "SUCCEEDED", !.lease = "none"] \in JobRow
    BY <1>a, <2>1, JobUpdates
  <2>3. [worker[w] EXCEPT !.pc = "check"] \in Control
    BY <1>a, ControlUpdates
  <2>4. "INDEXED" \in VersionStates
    BY DEF VersionStates
  <2>5. job' \in [Jobs -> JobRow] /\ version' \in [Jobs -> VersionStates]
    BY <1>14, <2>1, <2>2, <2>4 DEF PersistSuccess, TypeOK
  <2>6. corpora' \in [Jobs -> Nat] /\ worker' \in [Workers -> Control]
    BY <1>14, <2>1, <2>3 DEF PersistSuccess, TypeOK
  <2> QED
    BY <1>14, <2>5, <2>6, Zenon DEF PersistSuccess, TypeOK
<1>15. CASE StaleSuccess(w)
  <2>1. "FAILED" \in Verdicts
    BY DEF Verdicts, FailedVersion
  <2>2. [worker[w] EXCEPT !.verdict = "FAILED"] \in Control
    BY <1>a, <2>1, ControlUpdates
  <2>3. worker' \in [Workers -> Control]
    BY <1>15, <2>2 DEF StaleSuccess, TypeOK
  <2> QED
    BY <1>15, <2>3 DEF StaleSuccess, TypeOK
<1>16. CASE PersistRetry(w)
  <2> DEFINE j == worker[w].job
  <2>1. j \in Jobs
    BY <1>16, <1>c DEF PersistRetry, ControlOK
  <2>2. [job[j] EXCEPT !.state = "PENDING", !.lease = "none", !.due = "later"] \in JobRow
    BY <1>a, <2>1, JobUpdates
  <2>3. [worker[w] EXCEPT !.pc = "check"] \in Control
    BY <1>a, ControlUpdates
  <2>4. ScheduleRetry(outbox[<<j, "ingestion">>]) \in EventRow
    BY <1>a, <2>1, EventUpdates
  <2>5. "QUEUED" \in VersionStates
    BY DEF VersionStates
  <2> QED
    BY <1>16, <1>a, <2>1, <2>2, <2>3, <2>4, <2>5 DEF PersistRetry, TypeOK
<1>17. CASE PersistFailure(w)
  <2> DEFINE j == worker[w].job
             left == IF worker[w].verdict = "transient" THEN "FAILED" ELSE worker[w].verdict
  <2>1. j \in Jobs
    BY <1>17, <1>c DEF PersistFailure, ControlOK
  <2>2. [job[j] EXCEPT !.state = "FAILED", !.lease = "none"] \in JobRow
    BY <1>a, <2>1, JobUpdates
  <2>3. [worker[w] EXCEPT !.pc = "check"] \in Control
    BY <1>a, ControlUpdates
  <2>4. Enlist(outbox[<<j, "dead">>]) \in EventRow
    BY <1>a, <2>1, EventUpdates
  <2>5. left \in VersionStates
    BY <1>17, <1>c DEF PersistFailure, ControlOK, VersionStates, FailedVersion, Verdicts
  <2> QED
    BY <1>17, <1>a, <2>1, <2>2, <2>3, <2>4, <2>5 DEF PersistFailure, TypeOK
<1>18. CASE StaleFailure(w)
    BY <1>18, <1>a, ControlUpdates DEF StaleFailure, TypeOK
<1>19. CASE CheckAcknowledgeable(w)
    BY <1>19, <1>a, ControlUpdates DEF CheckAcknowledgeable, TypeOK
<1>20. CASE Acknowledge(w)
  <2>1. worker[w].entry \in EntryIds /\ NoEntry \in Entry
    BY <1>20, <1>c DEF Acknowledge, ControlOK, NoEntry, Entry
  <2> QED
    BY <1>20, <1>a, <2>1, ControlUpdates DEF Acknowledge, TypeOK
<1> QED
    BY <1>1, <1>2, <1>3, <1>4, <1>5, <1>6, <1>7, <1>8, <1>9, <1>10, <1>11, <1>12,
       <1>13, <1>14, <1>15, <1>16, <1>17, <1>18, <1>19, <1>20 DEF Step

\* Type correctness of every other step.
LEMMA EnvironmentTypeOK ==
    ASSUME IInv, (\E j \in Jobs : Confirm(j)) \/ Time \/ Failures \/ UNCHANGED vars
    PROVE  TypeOK'
<1> USE DEF rows, bounds
<1> TypeOK
    BY DEF IInv
<1>a. /\ \A x \in Events : outbox[x] \in EventRow
      /\ \A j \in Jobs : job[j] \in JobRow
      /\ \A j \in Jobs : <<j, "ingestion">> \in Events
      /\ \A e \in EntryIds : stream[e] \in Entry
      /\ \A w \in Workers : worker[w] \in Control
    BY DEF TypeOK, Events, Kinds
<1>b. /\ NoEntry \in Entry
      /\ [state |-> "new", job |-> None] \in Entry
      /\ \A e \in EntryIds : /\ [stream[e] EXCEPT !.state = "new"] \in Entry
                             /\ [stream[e] EXCEPT !.state = "idle"] \in Entry
    BY <1>a DEF NoEntry, Entry
<1>1. ASSUME NEW j \in Jobs, Confirm(j) PROVE TypeOK'
  <2>1. [job[j] EXCEPT !.state = "PENDING", !.due = "reached"] \in JobRow
    BY <1>a, JobUpdates
  <2>2. Enlist(outbox[<<j, "ingestion">>]) \in EventRow
    BY <1>a, EventUpdates
  <2>3. "QUEUED" \in VersionStates
    BY DEF VersionStates
  <2>4. job' \in [Jobs -> JobRow] /\ version' \in [Jobs -> VersionStates]
    BY <1>1, <2>1, <2>3 DEF Confirm, TypeOK
  <2>5. outbox' \in [Events -> EventRow]
    BY <1>1, <1>a, <2>2 DEF Confirm, TypeOK
  <2> QED
    BY <1>1, <2>4, <2>5 DEF Confirm, TypeOK
<1>2. ASSUME NEW j \in Jobs, LeaseExpires(j) PROVE TypeOK'
  <2>1. [job[j] EXCEPT !.lease = "expired"] \in JobRow
    BY <1>a, JobUpdates
  <2>2. job' \in [Jobs -> JobRow]
    BY <1>2, <2>1 DEF LeaseExpires, TypeOK
  <2> QED
    BY <1>2, <2>2 DEF LeaseExpires, TypeOK
<1>3. ASSUME NEW j \in Jobs, BackoffElapses(j) PROVE TypeOK'
  <2>1. [job[j] EXCEPT !.due = "reached"] \in JobRow
    BY <1>a, JobUpdates
  <2>2. [outbox[<<j, "ingestion">>] EXCEPT !.avail = "reached"] \in EventRow
    BY <1>a, EventUpdates
  <2>3. job' \in [Jobs -> JobRow]
    BY <1>3, <2>1 DEF BackoffElapses, TypeOK
  <2>4. outbox' \in [Events -> EventRow]
    BY <1>3, <1>a, <2>2 DEF BackoffElapses, TypeOK
  <2> QED
    BY <1>3, <2>3, <2>4 DEF BackoffElapses, TypeOK
<1>4. ASSUME NEW x \in Events, HoldExpires(x) \/ PublicationAges(x) PROVE TypeOK'
  <2>1. /\ [outbox[x] EXCEPT !.hold = "expired"] \in EventRow
        /\ [outbox[x] EXCEPT !.pub = "stale"] \in EventRow
    BY <1>a, EventUpdates
  <2> QED
    BY <1>4, <2>1 DEF HoldExpires, PublicationAges, TypeOK
<1>5. ASSUME NEW x \in Events, RelayOverstays(x) PROVE TypeOK'
  <2>1. [outbox[x] EXCEPT !.hold = "expired"] \in EventRow
    BY <1>a, EventUpdates
  <2>2. faults + 1 \in 0 .. MaxFaults
    BY <1>5 DEF RelayOverstays, TypeOK
  <2> QED
    BY <1>5, <2>1, <2>2 DEF RelayOverstays, TypeOK
<1>6. ASSUME NEW e \in EntryIds, EntryIdles(e) PROVE TypeOK'
    BY <1>6, <1>b DEF EntryIdles, TypeOK
<1>7. ASSUME NEW w \in Workers, AbortTick(w) PROVE TypeOK'
  <2>1. faults + 1 \in 0 .. MaxFaults
    BY <1>7 DEF AbortTick, TypeOK
  <2>2. AtTick \in Control
    BY <1>a, ControlUpdates
  <2> QED
    BY <1>7, <2>1, <2>2 DEF AbortTick, TypeOK
<1>8. CASE LoseStream \/ LoseGroup
  <2>1. losses + 1 \in 0 .. MaxLosses
    BY <1>8 DEF LoseStream, LoseGroup, TypeOK
  <2>2. stream' \in [EntryIds -> Entry]
    BY <1>8, <1>b DEF LoseStream, LoseGroup
  <2> QED
    BY <1>8, <2>1, <2>2 DEF LoseStream, LoseGroup, TypeOK
<1>9. ASSUME NEW e \in EntryIds, AddStray(e) PROVE TypeOK'
  <2>1. strays + 1 \in 0 .. MaxStrays
    BY <1>9 DEF AddStray, TypeOK
  <2> QED
    BY <1>9, <1>b, <2>1 DEF AddStray, TypeOK
<1>10. CASE UNCHANGED vars
    BY <1>10 DEF vars, TypeOK
<1> QED
    BY <1>1, <1>2, <1>3, <1>4, <1>5, <1>6, <1>7, <1>8, <1>9, <1>10 DEF Time, Failures

LEMMA NextTypeOK == IInv /\ [Next]_vars => TypeOK'
BY StepTypeOK, EnvironmentTypeOK DEF Next

-----------------------------------------------------------------------------
(* The control facts.                                                      *)

LEMMA NextControlOK == IInv /\ [Next]_vars => ControlOK'
<1> SUFFICES ASSUME IInv, [Next]_vars PROVE ControlOK'
    OBVIOUS
<1> USE DEF GoTo, ControlOK
<1> TypeOK /\ ControlOK
    BY DEF IInv
<1>a. worker \in [Workers -> Control]
    BY DEF TypeOK
<1>1. ASSUME NEW w \in Workers, Step(w) PROVE ControlOK'
  <2>1. CASE Reconcile(w) \/ NothingToPublish(w)
    BY <2>1, <1>a DEF Reconcile, NothingToPublish, Control
  <2>12. CASE NothingToConsume(w)
    BY <2>12, <1>a DEF NothingToConsume, AtTick, Control
  <2>2. ASSUME NEW x \in Events, LeaseEvent(w, x) PROVE ControlOK'
    BY <2>2, <1>a DEF LeaseEvent, Control
  <2>3. CASE PublishDelivery(w) \/ PublishDeadLetter(w)
    BY <2>3, <1>a DEF PublishDelivery, PublishDeadLetter, Control
  <2>4. CASE MarkPublished(w)
    BY <2>4, <1>a DEF MarkPublished, Control
  <2>5. ASSUME NEW e \in EntryIds, Reclaim(w, e) \/ ReadNew(w, e) PROVE ControlOK'
    <3>1. e # None
      OBVIOUS
    <3>2. worker' = [worker EXCEPT ![w] = [@ EXCEPT !.pc = "claim", !.entry = e,
                                                    !.job = stream[e].job]]
      BY <2>5 DEF Reclaim, ReadNew, Deliver
    <3> QED
      BY <3>1, <3>2, <1>a DEF Control
  <2>6. CASE RejectEnvelope(w) \/ ClaimIgnored(w) \/ ClaimExhausted(w) \/ StaleFailure(w)
    BY <2>6, <1>a DEF RejectEnvelope, ClaimIgnored, ClaimExhausted, StaleFailure, Control
  <2>7. CASE ClaimTaken(w)
    BY <2>7, <1>a DEF ClaimTaken, Control
  <2>8. CASE Work(w)
    BY <2>8, <1>a DEF Work, Control
  <2>9. CASE StaleSuccess(w)
    BY <2>9, <1>a DEF StaleSuccess, Control
  <2>10. CASE PersistSuccess(w) \/ PersistRetry(w) \/ PersistFailure(w)
    BY <2>10, <1>a DEF PersistSuccess, PersistRetry, PersistFailure, Control
  <2>11. CASE CheckAcknowledgeable(w) \/ Acknowledge(w)
    BY <2>11, <1>a DEF CheckAcknowledgeable, Acknowledge, AtTick, Control
  <2> QED
    BY <1>1, <2>1, <2>2, <2>3, <2>4, <2>5, <2>6, <2>7, <2>8, <2>9, <2>10, <2>11, <2>12
       DEF Step
<1>2. ASSUME NEW w \in Workers, AbortTick(w) PROVE ControlOK'
    BY <1>2, <1>a DEF AbortTick, AtTick
<1>3. ASSUME UNCHANGED worker PROVE ControlOK'
    BY <1>3
<1> QED
    BY <1>1, <1>2, <1>3 DEF Next, Time, Failures, Confirm, LeaseExpires, BackoffElapses,
        HoldExpires, PublicationAges, RelayOverstays, EntryIdles, LoseStream, LoseGroup,
        AddStray, vars

-----------------------------------------------------------------------------
(* Frames: what steps that leave the rows or the claims alone preserve.    *)

\* The dead letters that exist are the same ones.
SameLetters ==
    \A j \in Jobs : outbox'[<<j, "dead">>].pub = "absent"
                      <=> outbox[<<j, "dead">>].pub = "absent"

LEMMA RowsFrame ==
    ASSUME IInv, UNCHANGED rows, SameLetters
    PROVE  NotStarted' /\ StateAgreement' /\ AttemptAccounting'
<1> UNCHANGED <<job, version, corpora>>
    BY DEF rows
<1>1. NotStarted' /\ AttemptAccounting'
    BY DEF IInv, NotStarted, AttemptAccounting
<1>2. StateAgreement'
    BY DEF IInv, StateAgreement, Agrees, SameLetters
<1> QED
    BY <1>1, <1>2

\* No worker gains a claim, and no token is issued.
SameClaims ==
    \A v \in Workers :
        worker'[v].pc \in {"work", "persist"} =>
            /\ worker[v].pc \in {"work", "persist"}
            /\ worker'[v].job = worker[v].job
            /\ worker'[v].fence = worker[v].fence

LEMMA ClaimsFrame ==
    ASSUME IInv, SameClaims, \A j \in Jobs : job'[j].fence = job[j].fence
    PROVE  FencedClaims'
<1> SUFFICES ASSUME NEW j \in Jobs, NEW w \in Claimants(j)'
             PROVE  /\ worker'[w].fence \in 1 .. job'[j].fence
                    /\ \A v \in Claimants(j)' : worker'[v].fence = worker'[w].fence => v = w
    BY DEF FencedClaims
<1>1. \A v \in Claimants(j)' : v \in Claimants(j) /\ worker'[v].fence = worker[v].fence
    BY DEF Claimants, SameClaims
<1> QED
    BY <1>1 DEF IInv, FencedClaims

\* The worker steps that touch neither a row nor a claim.
QuietStep(w) ==
    \/ Reconcile(w)
    \/ \E x \in Events : LeaseEvent(w, x)
    \/ NothingToPublish(w)
    \/ PublishDelivery(w)
    \/ PublishDeadLetter(w)
    \/ MarkPublished(w)
    \/ \E e \in EntryIds : Reclaim(w, e) \/ ReadNew(w, e)
    \/ NothingToConsume(w)
    \/ RejectEnvelope(w)
    \/ ClaimIgnored(w)
    \/ Work(w)
    \/ StaleSuccess(w)
    \/ StaleFailure(w)
    \/ CheckAcknowledgeable(w)
    \/ Acknowledge(w)

LEMMA QuietStepRows ==
    ASSUME IInv, NEW w \in Workers, QuietStep(w)
    PROVE  UNCHANGED rows /\ SameLetters /\ HeldExists'
<1> USE DEF SameLetters, HeldExists
<1> TypeOK /\ HeldExists /\ ControlOK
    BY DEF IInv
<1>a. \A j \in Jobs : <<j, "dead">> \in Events
    BY DEF Events, Kinds
<1>b. outbox \in [Events -> EventRow] /\ None \notin Workers
    BY DEF TypeOK
<1>1. CASE Reconcile(w)
  <2>1. \A x \in Events : Reconcilable(x) => outbox[x].pub = "stale" /\ x[2] = "ingestion"
    BY DEF Reconcilable
  <2>2. \A x \in Events : Republished(outbox[x]).pub = "unpublished"
    BY <1>b DEF Republished, EventRow
  <2> QED
    BY <1>1, <1>a, <2>1, <2>2 DEF Reconcile
<1>2. ASSUME NEW x \in Events, LeaseEvent(w, x) PROVE UNCHANGED rows /\ SameLetters /\ HeldExists'
    BY <1>2, <1>a, <1>b DEF LeaseEvent, Publishable, EventRow
<1>3. CASE MarkPublished(w)
  <2>1. worker[w].event \in Events
    BY <1>3 DEF MarkPublished, ControlOK, TypeOK, Control
  <2>2. outbox[worker[w].event].token = w => outbox[worker[w].event].pub # "absent"
    BY <1>b, <2>1
  <2> QED
    BY <1>3, <1>a, <1>b, <2>1, <2>2 DEF MarkPublished, EventRow
<1>4. CASE UNCHANGED <<rows, outbox>>
    BY <1>4
<1> QED
    BY <1>1, <1>2, <1>3, <1>4 DEF QuietStep, NothingToPublish, PublishDelivery, PublishDeadLetter,
        Reclaim, ReadNew, Deliver, NothingToConsume, RejectEnvelope, ClaimIgnored, Work,
        StaleSuccess, StaleFailure, CheckAcknowledgeable, Acknowledge

LEMMA QuietStepClaims ==
    ASSUME IInv, NEW w \in Workers, QuietStep(w)
    PROVE  SameClaims
<1> USE DEF SameClaims, GoTo
<1> worker \in [Workers -> Control]
    BY DEF IInv, TypeOK
<1>1. CASE Reconcile(w) \/ NothingToPublish(w) \/ PublishDelivery(w) \/ PublishDeadLetter(w)
    BY <1>1 DEF Reconcile, NothingToPublish, PublishDelivery, PublishDeadLetter, Control
<1>2. ASSUME NEW x \in Events, LeaseEvent(w, x) PROVE SameClaims
    BY <1>2 DEF LeaseEvent, Control
<1>3. CASE MarkPublished(w)
    BY <1>3 DEF MarkPublished, Control
<1>4. ASSUME NEW e \in EntryIds, Reclaim(w, e) \/ ReadNew(w, e) PROVE SameClaims
  <2>1. worker' = [worker EXCEPT ![w] = [@ EXCEPT !.pc = "claim", !.entry = e,
                                                  !.job = stream[e].job]]
    BY <1>4 DEF Reclaim, ReadNew, Deliver
  <2> QED
    BY <2>1 DEF Control
<1>5. CASE RejectEnvelope(w) \/ ClaimIgnored(w) \/ StaleFailure(w)
    BY <1>5 DEF RejectEnvelope, ClaimIgnored, StaleFailure, Control
<1>6. CASE Work(w)
    BY <1>6 DEF Work, Control
<1>7. CASE StaleSuccess(w)
    BY <1>7 DEF StaleSuccess, Control
<1>8. CASE NothingToConsume(w) \/ Acknowledge(w)
    BY <1>8 DEF NothingToConsume, Acknowledge, AtTick
<1>9. CASE CheckAcknowledgeable(w)
    BY <1>9 DEF CheckAcknowledgeable, AtTick, Control
<1> QED
    BY <1>1, <1>2, <1>3, <1>4, <1>5, <1>6, <1>7, <1>8, <1>9 DEF QuietStep

-----------------------------------------------------------------------------
(* The steps that change a row.                                            *)

\* One job changes and the others do not.
LEMMA OneJobFrame ==
    ASSUME IInv, NEW j \in Jobs,
           \A k \in Jobs \ {j} :
               /\ job'[k] = job[k] /\ version'[k] = version[k] /\ corpora'[k] = corpora[k]
               /\ outbox'[<<k, "dead">>] = outbox[<<k, "dead">>],
           Agrees(job'[j], version'[j], corpora'[j], outbox'[<<j, "dead">>].pub),
           Accounts(job'[j]),
           job'[j].state # "ABSENT"
    PROVE  NotStarted' /\ StateAgreement' /\ AttemptAccounting'
<1>1. NotStarted'
    BY DEF IInv, NotStarted
<1>2. StateAgreement'
    BY DEF IInv, StateAgreement
<1>3. AttemptAccounting'
    BY DEF IInv, AttemptAccounting
<1> QED
    BY <1>1, <1>2, <1>3

LEMMA JobFacts ==
    ASSUME IInv, NEW j \in Jobs
    PROVE  /\ job[j] \in JobRow
           /\ Agrees(job[j], version[j], corpora[j], outbox[<<j, "dead">>].pub)
           /\ Accounts(job[j])
           /\ job[j].state = "ABSENT" => job[j].attempt = 0
           /\ outbox[<<j, "dead">>] \in EventRow
           /\ outbox[<<j, "ingestion">>] \in EventRow
           /\ <<j, "dead">> \in Events /\ <<j, "ingestion">> \in Events
<1>1. <<j, "dead">> \in Events /\ <<j, "ingestion">> \in Events
    BY DEF Events, Kinds
<1>2. Agrees(job[j], version[j], corpora[j], outbox[<<j, "dead">>].pub)
    BY DEF IInv, StateAgreement
<1>3. Accounts(job[j])
    BY DEF IInv, AttemptAccounting
<1> QED
    BY <1>1, <1>2, <1>3 DEF IInv, TypeOK, NotStarted

\* The conjuncts about the job rows and the outbox.
RowsOK == NotStarted /\ HeldExists /\ StateAgreement /\ AttemptAccounting

LEMMA ConfirmRows ==
    ASSUME IInv, NEW j \in Jobs, Confirm(j)
    PROVE  RowsOK'
<1> DEFINE r == job[j]
           s == [r EXCEPT !.state = "PENDING", !.due = "reached"]
<1>a. TypeOK /\ HeldExists
    BY DEF IInv
<1>f. /\ r \in JobRow
      /\ Agrees(r, version[j], corpora[j], outbox[<<j, "dead">>].pub)
      /\ Accounts(r)
      /\ r.state = "ABSENT" => r.attempt = 0
      /\ outbox[<<j, "dead">>] \in EventRow /\ outbox[<<j, "ingestion">>] \in EventRow
      /\ <<j, "dead">> \in Events /\ <<j, "ingestion">> \in Events
    BY JobFacts
<1>1. /\ job' = [job EXCEPT ![j] = s]
      /\ version' = [version EXCEPT ![j] = "QUEUED"]
      /\ corpora' = corpora
      /\ outbox' = [outbox EXCEPT ![<<j, "ingestion">>] = Enlist(@)]
    BY DEF Confirm
<1>2. /\ s.state = "PENDING" /\ s.lease = r.lease
      /\ s.attempt = r.attempt /\ s.fence = r.fence
    BY <1>f DEF JobRow
<1>3. /\ job'[j] = s /\ version'[j] = "QUEUED" /\ corpora'[j] = corpora[j]
      /\ outbox'[<<j, "dead">>] = outbox[<<j, "dead">>]
    BY <1>1, <1>a, <1>f DEF TypeOK
<1>4. r.state = "ABSENT" /\ r.attempt = 0 /\ r.fence = 0
  <2>1. r.state = "ABSENT"
    BY <1>f DEF Confirm, Agrees
  <2> QED
    BY <2>1, <1>f DEF Accounts, JobRow
<1> HIDE DEF r, s
<1>5. Agrees(job'[j], version'[j], corpora'[j], outbox'[<<j, "dead">>].pub)
    BY <1>2, <1>3, <1>4, <1>f DEF Agrees
<1>6. Accounts(job'[j])
    BY <1>2, <1>3, <1>4 DEF Accounts
<1>7. HeldExists'
    BY <1>1, <1>a, <1>f DEF HeldExists, Enlist, EventRow, TypeOK
<1>8. NotStarted' /\ StateAgreement' /\ AttemptAccounting'
    BY <1>1, <1>2, <1>3, <1>5, <1>6, <1>a, OneJobFrame DEF TypeOK
<1> QED
    BY <1>7, <1>8 DEF RowsOK

LEMMA ClaimExhaustedRows ==
    ASSUME IInv, NEW w \in Workers, ClaimExhausted(w)
    PROVE  RowsOK'
<1> DEFINE j == worker[w].job
           r == job[j]
           s == GivenUp(r)
<1>a. TypeOK /\ HeldExists
    BY DEF IInv
<1>b. j \in Jobs
    BY <1>a DEF ClaimExhausted, TypeOK, Control
<1>f. /\ r \in JobRow
      /\ Agrees(r, version[j], corpora[j], outbox[<<j, "dead">>].pub)
      /\ Accounts(r)
      /\ r.state = "ABSENT" => r.attempt = 0
      /\ outbox[<<j, "dead">>] \in EventRow /\ outbox[<<j, "ingestion">>] \in EventRow
      /\ <<j, "dead">> \in Events /\ <<j, "ingestion">> \in Events
    BY <1>b, JobFacts
<1>1. /\ job' = [job EXCEPT ![j] = s]
      /\ version' = [version EXCEPT ![j] = "FAILED"]
      /\ corpora' = corpora
      /\ outbox' = [outbox EXCEPT ![<<j, "dead">>] = Enlist(@)]
    BY DEF ClaimExhausted
<1>2. /\ s.state = "FAILED" /\ s.lease = "none"
      /\ s.attempt = r.attempt /\ s.fence = r.fence + 1
    BY <1>b, <1>f DEF JobRow, GivenUp
<1>3. /\ job'[j] = s /\ version'[j] = "FAILED" /\ corpora'[j] = corpora[j]
      /\ outbox'[<<j, "dead">>].pub # "absent"
    BY <1>1, <1>a, <1>b, <1>f DEF TypeOK, Enlist, EventRow
<1>4. r.state \notin Terminal /\ r.attempt = MaxAttempts /\ r.fence = r.attempt
    BY <1>b, <1>f DEF ClaimExhausted, Exhausted, Unclaimable, Accounts, JobRow, Terminal
<1> HIDE DEF r, s
<1>5. Agrees(job'[j], version'[j], corpora'[j], outbox'[<<j, "dead">>].pub)
    BY <1>b, <1>2, <1>3, <1>4, <1>f DEF Agrees, Terminal
<1>6. Accounts(job'[j])
    BY <1>2, <1>3, <1>4 DEF Accounts
<1>7. HeldExists'
    BY <1>1, <1>a, <1>b, <1>f DEF HeldExists, Enlist, EventRow, TypeOK
<1>8. NotStarted' /\ StateAgreement' /\ AttemptAccounting'
    BY <1>1, <1>2, <1>3, <1>5, <1>6, <1>a, <1>b, OneJobFrame DEF TypeOK, Events, Kinds
<1> QED
    BY <1>7, <1>8 DEF RowsOK

LEMMA ClaimTakenRows ==
    ASSUME IInv, NEW w \in Workers, ClaimTaken(w)
    PROVE  RowsOK'
<1> DEFINE j == worker[w].job
           r == job[j]
           s == Claimed(r)
<1>a. TypeOK /\ HeldExists
    BY DEF IInv
<1>b. j \in Jobs
    BY <1>a DEF ClaimTaken, TypeOK, Control
<1>f. /\ r \in JobRow
      /\ Agrees(r, version[j], corpora[j], outbox[<<j, "dead">>].pub)
      /\ Accounts(r)
      /\ r.state = "ABSENT" => r.attempt = 0
      /\ outbox[<<j, "dead">>] \in EventRow /\ outbox[<<j, "ingestion">>] \in EventRow
      /\ <<j, "dead">> \in Events /\ <<j, "ingestion">> \in Events
    BY <1>b, JobFacts
<1>1. /\ job' = [job EXCEPT ![j] = s]
      /\ version' = [version EXCEPT ![j] = "PROCESSING"]
      /\ corpora' = corpora
      /\ outbox' = outbox
    BY DEF ClaimTaken
<1>2. /\ s.state = "RUNNING" /\ s.lease = "live"
      /\ s.attempt = r.attempt + 1 /\ s.fence = r.fence + 1
    BY <1>b, <1>f DEF JobRow, Claimed
<1>3. job'[j] = s /\ version'[j] = "PROCESSING" /\ corpora'[j] = corpora[j]
    BY <1>1, <1>a, <1>b DEF TypeOK
<1>4. r.state \notin Terminal /\ r.attempt >= 0 /\ r.fence = r.attempt
    BY <1>b, <1>f DEF ClaimTaken, Exhausted, Unclaimable, Accounts, JobRow, Terminal
<1> HIDE DEF r, s
<1>5. Agrees(job'[j], version'[j], corpora'[j], outbox'[<<j, "dead">>].pub)
    BY <1>b, <1>1, <1>2, <1>3, <1>4, <1>f DEF Agrees, Terminal
<1>6. Accounts(job'[j])
    BY <1>b, <1>2, <1>3, <1>4, <1>f DEF Accounts, JobRow
<1>7. HeldExists'
    BY <1>1, <1>a DEF HeldExists
<1>8. NotStarted' /\ StateAgreement' /\ AttemptAccounting'
    BY <1>1, <1>2, <1>3, <1>5, <1>6, <1>a, <1>b, OneJobFrame DEF TypeOK
<1> QED
    BY <1>7, <1>8 DEF RowsOK

LEMMA PersistSuccessRows ==
    ASSUME IInv, NEW w \in Workers, PersistSuccess(w)
    PROVE  RowsOK'
<1> DEFINE j == worker[w].job
           r == job[j]
           s == [r EXCEPT !.state = "SUCCEEDED", !.lease = "none"]
<1>a. TypeOK /\ HeldExists /\ ControlOK
    BY DEF IInv
<1>b. j \in Jobs
    BY <1>a DEF PersistSuccess, ControlOK, TypeOK, Control
<1>f. /\ r \in JobRow
      /\ Agrees(r, version[j], corpora[j], outbox[<<j, "dead">>].pub)
      /\ Accounts(r)
      /\ r.state = "ABSENT" => r.attempt = 0
      /\ outbox[<<j, "dead">>] \in EventRow /\ outbox[<<j, "ingestion">>] \in EventRow
      /\ <<j, "dead">> \in Events /\ <<j, "ingestion">> \in Events
    BY <1>b, JobFacts
<1>1. /\ job' = [job EXCEPT ![j] = s]
      /\ version' = [version EXCEPT ![j] = "INDEXED"]
      /\ corpora' = [corpora EXCEPT ![j] = @ + 1]
      /\ outbox' = outbox
    BY DEF PersistSuccess
<1>2. /\ s.state = "SUCCEEDED" /\ s.lease = "none"
      /\ s.attempt = r.attempt /\ s.fence = r.fence
    BY <1>b, <1>f DEF JobRow
<1>3. job'[j] = s /\ version'[j] = "INDEXED" /\ corpora'[j] = corpora[j] + 1
    BY <1>1, <1>a, <1>b DEF TypeOK
<1>4. r.state = "RUNNING"
    BY DEF PersistSuccess, HoldsFence
<1> HIDE DEF r, s
<1>5. Agrees(job'[j], version'[j], corpora'[j], outbox'[<<j, "dead">>].pub)
    BY <1>b, <1>1, <1>2, <1>3, <1>4, <1>f DEF Agrees
<1>6. Accounts(job'[j])
    BY <1>b, <1>2, <1>3, <1>4, <1>f DEF Accounts
<1>7. HeldExists'
    BY <1>1, <1>a DEF HeldExists
<1>8. NotStarted' /\ StateAgreement' /\ AttemptAccounting'
    BY <1>1, <1>2, <1>3, <1>5, <1>6, <1>a, <1>b, OneJobFrame DEF TypeOK
<1> QED
    BY <1>7, <1>8 DEF RowsOK

LEMMA PersistRetryRows ==
    ASSUME IInv, NEW w \in Workers, PersistRetry(w)
    PROVE  RowsOK'
<1> DEFINE j == worker[w].job
           r == job[j]
           s == [r EXCEPT !.state = "PENDING", !.lease = "none", !.due = "later"]
<1>a. TypeOK /\ HeldExists /\ ControlOK
    BY DEF IInv
<1>b. j \in Jobs
    BY <1>a DEF PersistRetry, ControlOK, TypeOK, Control
<1>f. /\ r \in JobRow
      /\ Agrees(r, version[j], corpora[j], outbox[<<j, "dead">>].pub)
      /\ Accounts(r)
      /\ r.state = "ABSENT" => r.attempt = 0
      /\ outbox[<<j, "dead">>] \in EventRow /\ outbox[<<j, "ingestion">>] \in EventRow
      /\ <<j, "dead">> \in Events /\ <<j, "ingestion">> \in Events
    BY <1>b, JobFacts
<1>4. r.state = "RUNNING" /\ r.attempt < MaxAttempts /\ version[j] = "PROCESSING"
    BY <1>b, <1>f DEF PersistRetry, HoldsFence, Retries, Agrees
<1>1. /\ job' = [job EXCEPT ![j] = s]
      /\ version' = [version EXCEPT ![j] = "QUEUED"]
      /\ corpora' = corpora
      /\ outbox' = [outbox EXCEPT ![<<j, "ingestion">>] = ScheduleRetry(@)]
    BY <1>4 DEF PersistRetry
<1>2. /\ s.state = "PENDING" /\ s.lease = "none"
      /\ s.attempt = r.attempt /\ s.fence = r.fence
    BY <1>b, <1>f DEF JobRow
<1>3. /\ job'[j] = s /\ version'[j] = "QUEUED" /\ corpora'[j] = corpora[j]
      /\ outbox'[<<j, "dead">>] = outbox[<<j, "dead">>]
    BY <1>1, <1>a, <1>b, <1>f DEF TypeOK
<1> HIDE DEF r, s
<1>5. Agrees(job'[j], version'[j], corpora'[j], outbox'[<<j, "dead">>].pub)
    BY <1>b, <1>2, <1>3, <1>4, <1>f DEF Agrees
<1>6. Accounts(job'[j])
    BY <1>b, <1>2, <1>3, <1>4, <1>f DEF Accounts
<1>7. HeldExists'
    BY <1>1, <1>a, <1>b, <1>f DEF HeldExists, ScheduleRetry, EventRow, TypeOK
<1>8. NotStarted' /\ StateAgreement' /\ AttemptAccounting'
    BY <1>1, <1>2, <1>3, <1>5, <1>6, <1>a, <1>b, OneJobFrame DEF TypeOK, Events, Kinds
<1> QED
    BY <1>7, <1>8 DEF RowsOK

LEMMA PersistFailureRows ==
    ASSUME IInv, NEW w \in Workers, PersistFailure(w)
    PROVE  RowsOK'
<1> DEFINE j == worker[w].job
           r == job[j]
           s == [r EXCEPT !.state = "FAILED", !.lease = "none"]
           left == IF worker[w].verdict = "transient" THEN "FAILED" ELSE worker[w].verdict
<1>a. TypeOK /\ HeldExists /\ ControlOK
    BY DEF IInv
<1>b. j \in Jobs
    BY <1>a DEF PersistFailure, ControlOK, TypeOK, Control
<1>c. left \in FailedVersion
    BY <1>a DEF PersistFailure, ControlOK, TypeOK, Control, Verdicts, FailedVersion
<1>f. /\ r \in JobRow
      /\ Agrees(r, version[j], corpora[j], outbox[<<j, "dead">>].pub)
      /\ Accounts(r)
      /\ r.state = "ABSENT" => r.attempt = 0
      /\ outbox[<<j, "dead">>] \in EventRow /\ outbox[<<j, "ingestion">>] \in EventRow
      /\ <<j, "dead">> \in Events /\ <<j, "ingestion">> \in Events
    BY <1>b, JobFacts
<1>4. r.state = "RUNNING" /\ version[j] = "PROCESSING"
    BY <1>b, <1>f DEF PersistFailure, HoldsFence, Agrees
<1>1. /\ job' = [job EXCEPT ![j] = s]
      /\ version' = [version EXCEPT ![j] = left]
      /\ corpora' = corpora
      /\ outbox' = [outbox EXCEPT ![<<j, "dead">>] = Enlist(@)]
    BY <1>4 DEF PersistFailure
<1>2. /\ s.state = "FAILED" /\ s.lease = "none"
      /\ s.attempt = r.attempt /\ s.fence = r.fence
    BY <1>b, <1>f DEF JobRow
<1>3. /\ job'[j] = s /\ version'[j] \in FailedVersion /\ corpora'[j] = corpora[j]
      /\ outbox'[<<j, "dead">>].pub # "absent"
    BY <1>1, <1>a, <1>b, <1>c, <1>f DEF TypeOK, Enlist, EventRow
<1> HIDE DEF r, s
<1>5. Agrees(job'[j], version'[j], corpora'[j], outbox'[<<j, "dead">>].pub)
    BY <1>b, <1>2, <1>3, <1>4, <1>f DEF Agrees, FailedVersion
<1>6. Accounts(job'[j])
    BY <1>b, <1>2, <1>3, <1>4, <1>f DEF Accounts
<1>7. HeldExists'
    BY <1>1, <1>a, <1>b, <1>f DEF HeldExists, Enlist, EventRow, TypeOK
<1>8. NotStarted' /\ StateAgreement' /\ AttemptAccounting'
    BY <1>1, <1>2, <1>3, <1>5, <1>6, <1>a, <1>b, OneJobFrame DEF TypeOK, Events, Kinds
<1> QED
    BY <1>7, <1>8 DEF RowsOK

LEMMA ClockRows ==
    ASSUME IInv, NEW j \in Jobs, LeaseExpires(j) \/ BackoffElapses(j)
    PROVE  RowsOK'
<1> DEFINE r == job[j]
           s == job'[j]
<1>a. TypeOK /\ HeldExists
    BY DEF IInv
<1>f. /\ r \in JobRow
      /\ Agrees(r, version[j], corpora[j], outbox[<<j, "dead">>].pub)
      /\ Accounts(r)
      /\ outbox[<<j, "ingestion">>] \in EventRow
      /\ <<j, "ingestion">> \in Events
    BY JobFacts
<1>1. r.state \in {"PENDING", "RUNNING"}
    BY <1>f DEF LeaseExpires, BackoffElapses, Agrees
<1>2. /\ s.state = r.state /\ s.attempt = r.attempt /\ s.fence = r.fence
      /\ s.lease # "none" <=> r.lease # "none"
  <2>1. CASE LeaseExpires(j)
    BY <2>1, <1>a, <1>f DEF LeaseExpires, JobRow, TypeOK
  <2>2. CASE BackoffElapses(j)
    BY <2>2, <1>a, <1>f DEF BackoffElapses, JobRow, TypeOK
  <2> QED
    BY <2>1, <2>2
<1>3. /\ \A k \in Jobs \ {j} : job'[k] = job[k]
      /\ version' = version /\ corpora' = corpora
      /\ \A k \in Jobs : outbox'[<<k, "dead">>] = outbox[<<k, "dead">>]
    BY <1>a DEF LeaseExpires, BackoffElapses, TypeOK, Events, Kinds
<1>4. HeldExists'
  <2>1. CASE LeaseExpires(j)
    BY <2>1, <1>a DEF LeaseExpires, HeldExists
  <2>2. CASE BackoffElapses(j)
    BY <2>2, <1>a, <1>f DEF BackoffElapses, HeldExists, EventRow, TypeOK
  <2> QED
    BY <2>1, <2>2
<1> HIDE DEF r, s
<1>5. Agrees(s, version[j], corpora[j], outbox[<<j, "dead">>].pub)
    BY <1>f, <1>2 DEF Agrees
<1>6. Accounts(s)
    BY <1>f, <1>2 DEF Accounts
<1>7. NotStarted' /\ StateAgreement' /\ AttemptAccounting'
    BY <1>1, <1>2, <1>3, <1>5, <1>6, OneJobFrame DEF r, s
<1> QED
    BY <1>4, <1>7 DEF RowsOK

\* The remaining steps leave the rows and the set of dead letters alone.
QuietEnvironment ==
    \/ \E x \in Events : HoldExpires(x) \/ PublicationAges(x) \/ RelayOverstays(x)
    \/ \E e \in EntryIds : EntryIdles(e) \/ AddStray(e)
    \/ \E w \in Workers : AbortTick(w)
    \/ LoseStream
    \/ LoseGroup
    \/ UNCHANGED vars

LEMMA QuietEnvironmentRows ==
    ASSUME IInv, QuietEnvironment
    PROVE  UNCHANGED rows /\ SameLetters /\ HeldExists'
<1> USE DEF SameLetters, HeldExists, rows
<1>a. /\ HeldExists
      /\ outbox \in [Events -> EventRow]
      /\ \A j \in Jobs : <<j, "dead">> \in Events
    BY DEF IInv, TypeOK, Events, Kinds
<1>1. ASSUME NEW x \in Events, HoldExpires(x) \/ RelayOverstays(x)
      PROVE  UNCHANGED rows /\ SameLetters /\ HeldExists'
    BY <1>1, <1>a DEF HoldExpires, RelayOverstays, EventRow
<1>2. ASSUME NEW x \in Events, PublicationAges(x)
      PROVE  UNCHANGED rows /\ SameLetters /\ HeldExists'
    BY <1>2, <1>a DEF PublicationAges, EventRow
<1>3. ASSUME UNCHANGED <<rows, outbox>>
      PROVE  UNCHANGED rows /\ SameLetters /\ HeldExists'
    BY <1>3, <1>a
<1> QED
    BY <1>1, <1>2, <1>3 DEF QuietEnvironment, EntryIdles, AddStray, AbortTick,
        LoseStream, LoseGroup, vars

LEMMA QuietEnvironmentClaims ==
    ASSUME IInv, QuietEnvironment
    PROVE  SameClaims
<1>a. worker \in [Workers -> Control]
    BY DEF IInv, TypeOK
<1>1. ASSUME NEW w \in Workers, AbortTick(w) PROVE SameClaims
    BY <1>1, <1>a DEF AbortTick, AtTick, SameClaims
<1>2. ASSUME UNCHANGED worker PROVE SameClaims
    BY <1>2 DEF SameClaims
<1> QED
    BY <1>1, <1>2 DEF QuietEnvironment, HoldExpires, PublicationAges, RelayOverstays,
        EntryIdles, AddStray, LoseStream, LoseGroup, vars

\* Every step is one of these.
LEMMA StepCases ==
    ASSUME [Next]_vars
    PROVE  \/ \E j \in Jobs : Confirm(j) \/ LeaseExpires(j) \/ BackoffElapses(j)
           \/ \E w \in Workers :
                \/ QuietStep(w)
                \/ ClaimExhausted(w) \/ ClaimTaken(w)
                \/ PersistSuccess(w) \/ PersistRetry(w) \/ PersistFailure(w)
           \/ QuietEnvironment
<1>1. ASSUME NEW w \in Workers, Step(w)
      PROVE  \/ QuietStep(w)
             \/ ClaimExhausted(w) \/ ClaimTaken(w)
             \/ PersistSuccess(w) \/ PersistRetry(w) \/ PersistFailure(w)
    BY <1>1 DEF Step, QuietStep
<1>2. ASSUME Time \/ Failures \/ UNCHANGED vars
      PROVE  \/ \E j \in Jobs : LeaseExpires(j) \/ BackoffElapses(j)
             \/ QuietEnvironment
    BY <1>2 DEF Time, Failures, QuietEnvironment
<1> QED
    BY <1>1, <1>2 DEF Next

LEMMA NextRowsOK == IInv /\ [Next]_vars => RowsOK'
<1> SUFFICES ASSUME IInv, [Next]_vars PROVE RowsOK'
    OBVIOUS
<1>1. ASSUME NEW w \in Workers, QuietStep(w) PROVE RowsOK'
    BY <1>1, QuietStepRows, RowsFrame DEF RowsOK
<1>2. CASE QuietEnvironment
    BY <1>2, QuietEnvironmentRows, RowsFrame DEF RowsOK
<1> QED
    BY <1>1, <1>2, StepCases, ConfirmRows, ClockRows, ClaimExhaustedRows, ClaimTakenRows,
       PersistSuccessRows, PersistRetryRows, PersistFailureRows

-----------------------------------------------------------------------------
(* Fencing.                                                                *)

\* A claim issues a token larger than every token in use.
LEMMA ClaimTakenFenced ==
    ASSUME IInv, NEW w \in Workers, ClaimTaken(w)
    PROVE  FencedClaims'
<1> DEFINE j == worker[w].job
<1>a. TypeOK /\ FencedClaims
    BY DEF IInv
<1>b. j \in Jobs
    BY <1>a DEF ClaimTaken, TypeOK, Control
<1>c. /\ job[j] \in JobRow
      /\ worker[w] \in Control
    BY <1>a, <1>b DEF TypeOK
<1>1. /\ job'[j].fence = job[j].fence + 1
      /\ job[j].fence \in Nat
      /\ \A k \in Jobs \ {j} : job'[k] = job[k]
  <2>1. Claimed(job[j]).fence = job[j].fence + 1 /\ job[j].fence \in Nat
    BY <1>c DEF Claimed, JobRow
  <2> QED
    BY <2>1, <1>a, <1>b DEF ClaimTaken, TypeOK
<1>2. /\ worker'[w].fence = job[j].fence + 1
      /\ worker'[w].job = j
      /\ \A v \in Workers \ {w} : worker'[v] = worker[v]
  <2>1. Claimed(job[j]).fence = job[j].fence + 1
    BY <1>c DEF Claimed, JobRow
  <2>2. worker'[w] = [worker[w] EXCEPT !.pc = "work", !.fence = Claimed(job[j]).fence]
    BY <1>a DEF ClaimTaken, TypeOK
  <2>3. worker'[w].fence = Claimed(job[j]).fence /\ worker'[w].job = j
    BY <2>2, <1>c DEF Control
  <2> QED
    BY <2>1, <2>3, <1>a DEF ClaimTaken, TypeOK
<1>3. SUFFICES ASSUME NEW k \in Jobs, NEW u \in Claimants(k)'
               PROVE  /\ worker'[u].fence \in 1 .. job'[k].fence
                      /\ \A v \in Claimants(k)' : worker'[v].fence = worker'[u].fence => v = u
    BY DEF FencedClaims
<1>4. \A v \in Claimants(k)' : v # w => v \in Claimants(k) /\ worker'[v].fence = worker[v].fence
    BY <1>2 DEF Claimants
<1>5. \A v \in Claimants(k) : worker[v].fence \in 1 .. job[k].fence
    BY <1>a DEF FencedClaims
<1>6. w \in Claimants(k)' => k = j
    BY <1>2 DEF Claimants
<1>7. worker'[u].fence \in 1 .. job'[k].fence
  <2>1. CASE u = w
    BY <2>1, <1>1, <1>2, <1>6
  <2>2. CASE u # w /\ k = j
    BY <2>2, <1>1, <1>4, <1>5
  <2>3. CASE u # w /\ k # j
    BY <2>3, <1>1, <1>4, <1>5
  <2> QED
    BY <2>1, <2>2, <2>3
<1>8. ASSUME NEW v \in Claimants(k)', worker'[v].fence = worker'[u].fence
      PROVE  v = u
  <2>1. CASE u = w \/ v = w
    BY <2>1, <1>1, <1>2, <1>4, <1>5, <1>6, <1>8
  <2>2. CASE u # w /\ v # w
    BY <2>2, <1>4, <1>8, <1>a DEF FencedClaims
  <2> QED
    BY <2>1, <2>2
<1> QED
    BY <1>7, <1>8

LEMMA NextFenced == IInv /\ [Next]_vars => FencedClaims'
<1> SUFFICES ASSUME IInv, [Next]_vars PROVE FencedClaims'
    OBVIOUS
<1>a. /\ TypeOK
      /\ job \in [Jobs -> JobRow]
      /\ worker \in [Workers -> Control]
    BY DEF IInv, TypeOK
<1>1. ASSUME NEW w \in Workers, QuietStep(w) PROVE FencedClaims'
    BY <1>1, QuietStepRows, QuietStepClaims, ClaimsFrame DEF rows
<1>2. CASE QuietEnvironment
    BY <1>2, QuietEnvironmentRows, QuietEnvironmentClaims, ClaimsFrame DEF rows
<1>3. ASSUME NEW j \in Jobs, Confirm(j) \/ LeaseExpires(j) \/ BackoffElapses(j)
      PROVE  FencedClaims'
  <2>1. SameClaims
    BY <1>3 DEF SameClaims, Confirm, LeaseExpires, BackoffElapses
  <2>2. \A k \in Jobs : job'[k].fence = job[k].fence
    <3>1. CASE Confirm(j)
      BY <3>1, <1>a DEF Confirm, JobRow
    <3>2. CASE LeaseExpires(j)
      BY <3>2, <1>a DEF LeaseExpires, JobRow
    <3>3. CASE BackoffElapses(j)
      BY <3>3, <1>a DEF BackoffElapses, JobRow
    <3> QED
      BY <1>3, <3>1, <3>2, <3>3
  <2> QED
    BY <2>1, <2>2, ClaimsFrame
<1>4. ASSUME NEW w \in Workers, PersistSuccess(w) \/ PersistRetry(w) \/ PersistFailure(w)
      PROVE  FencedClaims'
  <2>1. worker' = [worker EXCEPT ![w] = [@ EXCEPT !.pc = "check"]]
    BY <1>4 DEF PersistSuccess, PersistRetry, PersistFailure, GoTo
  <2>2. SameClaims
    BY <2>1, <1>a DEF SameClaims, Control
  <2>3. \A k \in Jobs : job'[k].fence = job[k].fence
    <3>1. CASE PersistSuccess(w)
      BY <3>1, <1>a DEF PersistSuccess, JobRow
    <3>2. CASE PersistRetry(w)
      BY <3>2, <1>a DEF PersistRetry, JobRow
    <3>3. CASE PersistFailure(w)
      BY <3>3, <1>a DEF PersistFailure, JobRow
    <3> QED
      BY <1>4, <3>1, <3>2, <3>3
  <2> QED
    BY <2>2, <2>3, ClaimsFrame
<1>5. ASSUME NEW w \in Workers, ClaimExhausted(w) PROVE FencedClaims'
  <2> DEFINE j == worker[w].job
  <2>1. j \in Jobs
    BY <1>5, <1>a DEF ClaimExhausted, Control
  <2>2. SameClaims
    BY <1>5, <1>a DEF ClaimExhausted, GoTo, SameClaims, Control
  <2>3. \A k \in Jobs : job[k].fence \in Nat /\ job'[k].fence \in Nat /\ job[k].fence <= job'[k].fence
    BY <1>5, <1>a, <2>1 DEF ClaimExhausted, GivenUp, JobRow
  <2>4. SUFFICES ASSUME NEW k \in Jobs, NEW u \in Claimants(k)'
                 PROVE  /\ worker'[u].fence \in 1 .. job'[k].fence
                        /\ \A v \in Claimants(k)' : worker'[v].fence = worker'[u].fence => v = u
    BY DEF FencedClaims
  <2>5. \A v \in Claimants(k)' : v \in Claimants(k) /\ worker'[v].fence = worker[v].fence
    BY <2>2 DEF Claimants, SameClaims
  <2>6. worker[u].fence \in 1 .. job[k].fence
    BY <2>5 DEF IInv, FencedClaims
  <2>7. worker'[u].fence \in 1 .. job'[k].fence
    BY <2>3, <2>5, <2>6
  <2> QED
    BY <2>5, <2>7 DEF IInv, FencedClaims
<1> QED
    BY <1>1, <1>2, <1>3, <1>4, <1>5, StepCases, ClaimTakenFenced

-----------------------------------------------------------------------------
(* The theorems.                                                           *)

LEMMA NextIInv == IInv /\ [Next]_vars => IInv'
BY NextTypeOK, NextControlOK, NextRowsOK, NextFenced DEF IInv, RowsOK

LEMMA Inductive == Spec => []IInv
BY InitIInv, NextIInv, PTL DEF Spec

\* Every reachable state is well typed, whatever the number of jobs, workers,
\* entries, attempts and faults: attempts stay within job_max_attempts.
THEOREM TypeCorrect == Spec => []TypeOK
<1>1. IInv => TypeOK
    BY DEF IInv
<1> QED
    BY <1>1, Inductive, PTL

\* The rows that _claim, _persist_success and _persist_failure write agree
\* after every transaction, and exactly one corpus exists for a job that
\* succeeded.
THEOREM StateAgreementHolds == Spec => []StateAgreement
<1>1. IInv => StateAgreement
    BY DEF IInv
<1> QED
    BY <1>1, Inductive, PTL

\* A fencing token never has two holders: the takeover of an expired lease
\* by _claim shuts every earlier worker out.
THEOREM FencedClaimsHolds == Spec => []FencedClaims
<1>1. IInv => FencedClaims
    BY DEF IInv
<1> QED
    BY <1>1, Inductive, PTL

\* Retries stop at job_max_attempts, and the token counts the claims.
THEOREM AttemptAccountingHolds == Spec => []AttemptAccounting
<1>1. IInv => AttemptAccounting
    BY DEF IInv
<1> QED
    BY <1>1, Inductive, PTL

-----------------------------------------------------------------------------
(* The pipeline implements the abstract one.                               *)

LEMMA InitRefines == Init => Abs!Init
<1> SUFFICES ASSUME Init PROVE Abs!Init
    OBVIOUS
<1>1. [j \in Jobs |-> StatusOf(version[j])] = [j \in Jobs |-> "awaiting"]
    BY DEF Init, StatusOf
<1>2. [j \in Jobs |-> job[j].attempt] = [j \in Jobs |-> 0]
    BY DEF Init
<1>3. {j \in Jobs : outbox[<<j, "dead">>].pub # "absent"} = {}
    BY DEF Init, NoEvent, Events, Kinds
<1> QED
    BY <1>1, <1>2, <1>3 DEF Init, Abs!Init

\* A step that changes neither a row nor the set of dead letters is invisible.
LEMMA InvisibleStep ==
    ASSUME IInv, UNCHANGED rows, SameLetters
    PROVE  UNCHANGED Abs!vars
BY DEF rows, SameLetters, Abs!vars

LEMMA ClockInvisible ==
    ASSUME IInv, NEW j \in Jobs, LeaseExpires(j) \/ BackoffElapses(j)
    PROVE  UNCHANGED Abs!vars
<1>a. /\ job \in [Jobs -> JobRow]
      /\ outbox \in [Events -> EventRow]
    BY DEF IInv, TypeOK
<1>1. \A k \in Jobs : job'[k].attempt = job[k].attempt
  <2>1. CASE LeaseExpires(j)
    BY <2>1, <1>a DEF LeaseExpires, JobRow
  <2>2. CASE BackoffElapses(j)
    BY <2>2, <1>a DEF BackoffElapses, JobRow
  <2> QED
    BY <2>1, <2>2
<1>2. \A k \in Jobs : outbox'[<<k, "dead">>] = outbox[<<k, "dead">>]
    BY <1>a DEF LeaseExpires, BackoffElapses, Events, Kinds
<1> QED
    BY <1>1, <1>2 DEF LeaseExpires, BackoffElapses, Abs!vars

\* The abstract view of a step that changes one job: every other entry of the
\* mapped functions stays.
LEMMA OneJobView ==
    ASSUME IInv, NEW j \in Jobs,
           \A k \in Jobs \ {j} :
               /\ job'[k] = job[k] /\ version'[k] = version[k]
               /\ outbox'[<<k, "dead">>] = outbox[<<k, "dead">>]
    PROVE  /\ [k \in Jobs |-> StatusOf(version'[k])]
                = [[k \in Jobs |-> StatusOf(version[k])] EXCEPT ![j] = StatusOf(version'[j])]
           /\ [k \in Jobs |-> job'[k].attempt]
                = [[k \in Jobs |-> job[k].attempt] EXCEPT ![j] = job'[j].attempt]
           /\ job'[j].attempt = job[j].attempt =>
                [k \in Jobs |-> job'[k].attempt] = [k \in Jobs |-> job[k].attempt]
           /\ (outbox'[<<j, "dead">>].pub # "absent" <=> outbox[<<j, "dead">>].pub # "absent") =>
                {k \in Jobs : outbox'[<<k, "dead">>].pub # "absent"}
                  = {k \in Jobs : outbox[<<k, "dead">>].pub # "absent"}
           /\ outbox'[<<j, "dead">>].pub # "absent" =>
                {k \in Jobs : outbox'[<<k, "dead">>].pub # "absent"}
                  = {k \in Jobs : outbox[<<k, "dead">>].pub # "absent"} \cup {j}
<1>1. [k \in Jobs |-> StatusOf(version'[k])]
        = [[k \in Jobs |-> StatusOf(version[k])] EXCEPT ![j] = StatusOf(version'[j])]
    OBVIOUS
<1>2. [k \in Jobs |-> job'[k].attempt]
        = [[k \in Jobs |-> job[k].attempt] EXCEPT ![j] = job'[j].attempt]
    OBVIOUS
<1>3. job'[j].attempt = job[j].attempt =>
        [k \in Jobs |-> job'[k].attempt] = [k \in Jobs |-> job[k].attempt]
    OBVIOUS
<1> DEFINE Before == {k \in Jobs : outbox[<<k, "dead">>].pub # "absent"}
           After == {k \in Jobs : outbox'[<<k, "dead">>].pub # "absent"}
<1>4. \A k \in Jobs \ {j} : k \in After <=> k \in Before
    OBVIOUS
<1>5. /\ j \in Before <=> outbox[<<j, "dead">>].pub # "absent"
      /\ j \in After <=> outbox'[<<j, "dead">>].pub # "absent"
      /\ Before \subseteq Jobs /\ After \subseteq Jobs
    OBVIOUS
<1> HIDE DEF Before, After
<1>6. (outbox'[<<j, "dead">>].pub # "absent" <=> outbox[<<j, "dead">>].pub # "absent") =>
        After = Before
    BY <1>4, <1>5
<1>7. outbox'[<<j, "dead">>].pub # "absent" => After = Before \cup {j}
    BY <1>4, <1>5
<1> QED
    BY <1>1, <1>2, <1>3, <1>6, <1>7 DEF Before, After

LEMMA ConfirmRefines ==
    ASSUME IInv, NEW j \in Jobs, Confirm(j)
    PROVE  Abs!Submit(j)
<1>a. TypeOK
    BY DEF IInv
<1>b. /\ job[j] \in JobRow
      /\ <<j, "ingestion">> \in Events
    BY JobFacts
<1>1. /\ version[j] = "AWAITING_UPLOAD" /\ version'[j] = "QUEUED"
      /\ job'[j].attempt = job[j].attempt
      /\ corpora' = corpora
      /\ outbox'[<<j, "dead">>] = outbox[<<j, "dead">>]
      /\ \A k \in Jobs \ {j} :
               /\ job'[k] = job[k] /\ version'[k] = version[k]
               /\ outbox'[<<k, "dead">>] = outbox[<<k, "dead">>]
  <2>1. [job[j] EXCEPT !.state = "PENDING", !.due = "reached"].attempt = job[j].attempt
    BY <1>b DEF JobRow
  <2> QED
    BY <2>1, <1>a, <1>b DEF Confirm, TypeOK, Events, Kinds
<1>2. StatusOf(version[j]) = "awaiting" /\ StatusOf(version'[j]) = "queued"
    BY <1>1 DEF StatusOf
<1> QED
    BY <1>1, <1>2, OneJobView DEF Abs!Submit

LEMMA ClaimTakenRefines ==
    ASSUME IInv, NEW w \in Workers, ClaimTaken(w)
    PROVE  Abs!Begin(worker[w].job)
<1> DEFINE j == worker[w].job
<1>a. TypeOK
    BY DEF IInv
<1>b. j \in Jobs
    BY <1>a DEF ClaimTaken, TypeOK, Control
<1>c. job[j] \in JobRow
    BY <1>b, JobFacts
<1>1. /\ version[j] \in {"QUEUED", "PROCESSING"} /\ version'[j] = "PROCESSING"
      /\ job[j].attempt < MaxAttempts
      /\ job'[j].attempt = job[j].attempt + 1
      /\ corpora' = corpora
      /\ outbox' = outbox
      /\ \A k \in Jobs \ {j} : job'[k] = job[k] /\ version'[k] = version[k]
  <2>1. Claimed(job[j]).attempt = job[j].attempt + 1
    BY <1>c DEF JobRow, Claimed
  <2>2. job[j].attempt < MaxAttempts
    BY <1>c DEF ClaimTaken, Exhausted, JobRow
  <2> QED
    BY <2>1, <2>2, <1>a, <1>b DEF ClaimTaken, TypeOK
<1> HIDE DEF j
<1>2. Abs!Begin(j)
    BY <1>b, <1>1, OneJobView DEF Abs!Begin, StatusOf
<1> QED
    BY <1>2 DEF j

LEMMA PersistSuccessRefines ==
    ASSUME IInv, NEW w \in Workers, PersistSuccess(w)
    PROVE  Abs!Index(worker[w].job)
<1> DEFINE j == worker[w].job
<1>a. TypeOK /\ ControlOK
    BY DEF IInv
<1>b. j \in Jobs
    BY <1>a DEF PersistSuccess, ControlOK, TypeOK, Control
<1>c. /\ job[j] \in JobRow
      /\ Agrees(job[j], version[j], corpora[j], outbox[<<j, "dead">>].pub)
    BY <1>b, JobFacts
<1>1. /\ version[j] = "PROCESSING" /\ version'[j] = "INDEXED"
      /\ job'[j].attempt = job[j].attempt
      /\ corpora[j] = 0
      /\ corpora' = [corpora EXCEPT ![j] = 1]
      /\ outbox' = outbox
      /\ \A k \in Jobs \ {j} : job'[k] = job[k] /\ version'[k] = version[k]
  <2>1. [job[j] EXCEPT !.state = "SUCCEEDED", !.lease = "none"].attempt = job[j].attempt
    BY <1>c DEF JobRow
  <2>2. corpora[j] = 0
    BY <1>c DEF Agrees, PersistSuccess, HoldsFence
  <2> QED
    BY <2>1, <2>2, <1>a, <1>b DEF PersistSuccess, TypeOK
<1> HIDE DEF j
<1>2. Abs!Index(j)
    BY <1>b, <1>1, OneJobView DEF Abs!Index, StatusOf
<1> QED
    BY <1>2 DEF j

LEMMA PersistRetryRefines ==
    ASSUME IInv, NEW w \in Workers, PersistRetry(w)
    PROVE  Abs!Requeue(worker[w].job)
<1> DEFINE j == worker[w].job
<1>a. TypeOK /\ ControlOK
    BY DEF IInv
<1>b. j \in Jobs
    BY <1>a DEF PersistRetry, ControlOK, TypeOK, Control
<1>c. /\ job[j] \in JobRow
      /\ Agrees(job[j], version[j], corpora[j], outbox[<<j, "dead">>].pub)
      /\ <<j, "ingestion">> \in Events
    BY <1>b, JobFacts
<1>1. /\ version[j] = "PROCESSING" /\ version'[j] = "QUEUED"
      /\ job[j].attempt < MaxAttempts
      /\ job'[j].attempt = job[j].attempt
      /\ corpora' = corpora
      /\ outbox'[<<j, "dead">>] = outbox[<<j, "dead">>]
      /\ \A k \in Jobs \ {j} :
               /\ job'[k] = job[k] /\ version'[k] = version[k]
               /\ outbox'[<<k, "dead">>] = outbox[<<k, "dead">>]
  <2>1. [job[j] EXCEPT !.state = "PENDING", !.lease = "none", !.due = "later"].attempt
            = job[j].attempt
    BY <1>c DEF JobRow
  <2>2. version[j] = "PROCESSING" /\ job[j].attempt < MaxAttempts
    BY <1>c DEF Agrees, PersistRetry, HoldsFence, Retries
  <2> QED
    BY <2>1, <2>2, <1>a, <1>b DEF PersistRetry, TypeOK, Events, Kinds
<1>3. StatusOf(version[j]) = "processing" /\ StatusOf(version'[j]) = "queued"
    BY <1>1 DEF StatusOf
<1> HIDE DEF j
<1>2. Abs!Requeue(j)
    BY <1>b, <1>1, <1>3, OneJobView DEF Abs!Requeue
<1> QED
    BY <1>2 DEF j

\* Both ways to fail: a permanent failure, and a claim with no attempt left.
LEMMA FailureRefines ==
    ASSUME IInv, NEW w \in Workers, PersistFailure(w) \/ ClaimExhausted(w)
    PROVE  Abs!Fail(worker[w].job)
<1> DEFINE j == worker[w].job
           left == IF worker[w].verdict = "transient" THEN "FAILED" ELSE worker[w].verdict
<1>a. TypeOK /\ ControlOK
    BY DEF IInv
<1>b. j \in Jobs
    BY <1>a DEF PersistFailure, ClaimExhausted, ControlOK, TypeOK, Control
<1>c. /\ job[j] \in JobRow
      /\ Agrees(job[j], version[j], corpora[j], outbox[<<j, "dead">>].pub)
      /\ Accounts(job[j])
      /\ job[j].state = "ABSENT" => job[j].attempt = 0
      /\ outbox[<<j, "dead">>] \in EventRow
      /\ <<j, "dead">> \in Events
    BY <1>b, JobFacts
<1>1. job[j].state = "RUNNING"
  <2>1. CASE PersistFailure(w)
    BY <2>1 DEF PersistFailure, HoldsFence
  <2>2. CASE ClaimExhausted(w)
    BY <2>2, <1>c DEF ClaimExhausted, Unclaimable, Exhausted, Accounts, JobRow, Terminal
  <2> QED
    BY <2>1, <2>2
<1>2. version[j] = "PROCESSING" /\ outbox[<<j, "dead">>].pub = "absent"
    BY <1>1, <1>c DEF Agrees
<1>3. Enlist(outbox[<<j, "dead">>]).pub # "absent"
    BY <1>2, <1>c DEF Enlist, EventRow
<1>4. version'[j] \in FailedVersion
  <2>1. CASE PersistFailure(w)
    <3>1. left \in FailedVersion
      BY <2>1, <1>a DEF PersistFailure, ControlOK, TypeOK, Control, Verdicts, FailedVersion
    <3> QED
      BY <2>1, <3>1, <1>2, <1>a, <1>b DEF PersistFailure, TypeOK
  <2>2. CASE ClaimExhausted(w)
    BY <2>2, <1>a, <1>b DEF ClaimExhausted, TypeOK, FailedVersion
  <2> QED
    BY <2>1, <2>2
<1>5. job'[j].attempt = job[j].attempt
  <2>1. /\ [job[j] EXCEPT !.state = "FAILED", !.lease = "none"].attempt = job[j].attempt
        /\ GivenUp(job[j]).attempt = job[j].attempt
    BY <1>c DEF JobRow, GivenUp
  <2> QED
    BY <2>1, <1>a, <1>b DEF PersistFailure, ClaimExhausted, TypeOK
<1>6. /\ corpora' = corpora
      /\ outbox'[<<j, "dead">>].pub # "absent"
      /\ \A k \in Jobs \ {j} :
               /\ job'[k] = job[k] /\ version'[k] = version[k]
               /\ outbox'[<<k, "dead">>] = outbox[<<k, "dead">>]
    BY <1>3, <1>a, <1>b, <1>c DEF PersistFailure, ClaimExhausted, TypeOK, Events, Kinds
<1>7. StatusOf(version[j]) = "processing" /\ StatusOf(version'[j]) = "failed"
    BY <1>2, <1>4 DEF StatusOf, FailedVersion
<1> HIDE DEF j
<1>8. Abs!Fail(j)
    BY <1>b, <1>2, <1>5, <1>6, <1>7, OneJobView DEF Abs!Fail
<1> QED
    BY <1>8 DEF j

LEMMA NextRefines == IInv /\ [Next]_vars => [Abs!Next]_(Abs!vars)
<1> SUFFICES ASSUME IInv, [Next]_vars PROVE [Abs!Next]_(Abs!vars)
    OBVIOUS
<1>1. ASSUME NEW j \in Jobs, Confirm(j) PROVE Abs!Next
    BY <1>1, ConfirmRefines DEF Abs!Next
<1>2. ASSUME NEW j \in Jobs, LeaseExpires(j) \/ BackoffElapses(j) PROVE UNCHANGED Abs!vars
    BY <1>2, ClockInvisible
<1>3. ASSUME NEW w \in Workers, QuietStep(w) PROVE UNCHANGED Abs!vars
    BY <1>3, QuietStepRows, InvisibleStep
<1>4. ASSUME QuietEnvironment PROVE UNCHANGED Abs!vars
    BY <1>4, QuietEnvironmentRows, InvisibleStep
<1>5. ASSUME NEW w \in Workers,
             \/ ClaimExhausted(w) \/ ClaimTaken(w)
             \/ PersistSuccess(w) \/ PersistRetry(w) \/ PersistFailure(w)
      PROVE  Abs!Next
  <2>1. PICK j \in Jobs : worker[w].job = j
    BY <1>5 DEF IInv, TypeOK, ControlOK, Control, ClaimExhausted, ClaimTaken,
        PersistSuccess, PersistRetry, PersistFailure
  <2>2. CASE ClaimTaken(w)
    BY <2>1, <2>2, ClaimTakenRefines DEF Abs!Next, Abs!Progress, Abs!Begin
  <2>3. CASE PersistSuccess(w)
    BY <2>1, <2>3, PersistSuccessRefines DEF Abs!Next, Abs!Progress, Abs!Index
  <2>4. CASE PersistRetry(w)
    BY <2>1, <2>4, PersistRetryRefines DEF Abs!Next, Abs!Progress, Abs!Requeue
  <2>5. CASE PersistFailure(w) \/ ClaimExhausted(w)
    BY <2>1, <2>5, FailureRefines DEF Abs!Next, Abs!Progress, Abs!Fail
  <2> QED
    BY <1>5, <2>2, <2>3, <2>4, <2>5
<1> QED
    BY <1>1, <1>2, <1>3, <1>4, <1>5, StepCases

\* Seen through the version row, the attempt counter, the corpora and the
\* dead letters, any number of workers with duplicate deliveries, expired
\* leases, crashes and a lossy stream behave like the abstract ingestion:
\* indexed once, or failed once, and final.
THEOREM Refinement == Spec => ImplementsIngestion
<1>1. Spec => Abs!Init /\ [][Abs!Next]_(Abs!vars)
    BY InitRefines, NextRefines, Inductive, PTL DEF Spec
<1> QED
    BY <1>1 DEF ImplementsIngestion, Abs!Spec

-----------------------------------------------------------------------------
(* DeliveryRoute.                                                          *)

Ingestion(j) == outbox[<<j, "ingestion">>]

Unfinished(j) == job[j].state \in {"PENDING", "RUNNING"}

\* A job has its event from its confirmation on.
EventsExist == \A j \in Jobs : job[j].state = "ABSENT" <=> Ingestion(j).pub = "absent"

\* While a job waits for its backoff nobody publishes its event.
BackoffHeld ==
    \A j \in Jobs :
        job[j].state = "PENDING" /\ job[j].due = "later" =>
            /\ Ingestion(j).pub = "unpublished"
            /\ Ingestion(j).avail = "later"
            /\ Ingestion(j).token = None

\* A worker remembers the job of the delivery it holds.
EntryJobs ==
    \A w \in Workers :
        LET e == worker[w].entry IN
        e # None /\ stream[e].state # "absent" => stream[e].job = worker[w].job

\* The worker in this control state will, or may, acknowledge entry e while
\* its job, now in this state, still needs it.
Endangers(c, e, state) ==
    /\ c.entry = e
    /\ \/ c.pc = "ack"
       \/ c.pc \in {"work", "persist", "check"} /\ state # "RUNNING"

\* A delivery of job j that lasts until it is claimed anew.
Lasting(e, j) ==
    /\ stream[e].state # "absent" /\ stream[e].job = j
    /\ \A w \in Workers : ~ Endangers(worker[w], e, job[j].state)

\* The event is published, or a relay has added its delivery and may mark it so.
Relayed(j, w) ==
    worker[w].pc = "mark" /\ worker[w].event = <<j, "ingestion">> /\ Ingestion(j).token = w
Announced(j) ==
    Ingestion(j).pub \in {"fresh", "stale"} \/ \E w \in Workers : Relayed(j, w)

RoutedAt(j) == losses = 0 /\ Unfinished(j) /\ Announced(j) => \E e \in EntryIds : Lasting(e, j)
Routed == \A j \in Jobs : RoutedAt(j)

\* The inductive invariant behind DeliveryRoute.  That a delivery is there is
\* not enough: it must be one that nobody is about to acknowledge in vain, and
\* it must be there from the XADD on, before its event is marked published.
RouteInv ==
    /\ EventsExist
    /\ BackoffHeld
    /\ EntryJobs
    /\ Routed

LEMMA RouteFacts ==
    ASSUME IInv
    PROVE  /\ job \in [Jobs -> JobRow] /\ outbox \in [Events -> EventRow]
           /\ stream \in [EntryIds -> Entry] /\ worker \in [Workers -> Control] /\ losses \in Nat
           /\ \A j \in Jobs : /\ <<j, "ingestion">> \in Events /\ <<j, "dead">> \in Events
                              /\ Ingestion(j) \in EventRow
           /\ \A w \in Workers : worker[w] \in Control
           /\ None \notin EntryIds /\ None \notin Workers /\ None \notin Jobs
<1>1. MaxLosses \in Nat
  OBVIOUS
<1>2. losses \in Nat
  BY <1>1 DEF IInv, TypeOK
<1>3. \A j \in Jobs : <<j, "ingestion">> \in Events /\ <<j, "dead">> \in Events
  BY DEF Events, Kinds
<1> QED
  BY <1>2, <1>3 DEF IInv, TypeOK, Ingestion

\* One worker moves, jobs and events stay as they are.
LEMMA WorkerMoves ==
    ASSUME RouteInv, NEW w \in Workers,
           \A v \in Workers \ {w} : worker'[v] = worker[v],
           UNCHANGED <<job, outbox, losses>>,
           \A j \in Jobs : ~ Relayed(j, w)',
           \A e \in EntryIds : \A j \in Jobs :
              Lasting(e, j) /\ Unfinished(j) /\ Announced(j) =>
                 /\ stream'[e].state # "absent" /\ stream'[e].job = j
                 /\ ~ Endangers(worker'[w], e, job[j].state)
    PROVE  EventsExist' /\ BackoffHeld' /\ Routed'
<1>1. EventsExist' /\ BackoffHeld'
  BY DEF RouteInv, EventsExist, BackoffHeld, Ingestion
<1>2. ASSUME NEW j \in Jobs, (losses = 0 /\ Unfinished(j) /\ Announced(j))'
      PROVE  \E e \in EntryIds : Lasting(e, j)'
  <2>1. Announced(j)
    BY <1>2 DEF Announced, Relayed, Ingestion
  <2>2. losses = 0 /\ Unfinished(j)
    BY <1>2 DEF Unfinished
  <2>3. PICK e \in EntryIds : Lasting(e, j)
    BY <2>1, <2>2 DEF RouteInv, Routed, RoutedAt
  <2>4. /\ stream'[e].state # "absent" /\ stream'[e].job = j
        /\ ~ Endangers(worker'[w], e, job[j].state)
    BY <2>1, <2>2, <2>3
  <2>5. \A v \in Workers : ~ Endangers(worker'[v], e, job'[j].state)
    BY <2>3, <2>4 DEF Lasting
  <2> QED
    BY <2>4, <2>5 DEF Lasting
<1> QED
  BY <1>1, <1>2 DEF Routed, RoutedAt

\* What a worker remembers of its delivery stays true.
LEMMA EntryJobsKept ==
    ASSUME IInv, RouteInv,
           \A v \in Workers : \/ worker'[v].entry = None
                              \/ worker'[v].entry = worker[v].entry /\ worker'[v].job = worker[v].job,
           \A v \in Workers :
              LET e == worker[v].entry IN
              e # None /\ stream'[e].state # "absent" =>
                 stream[e].state # "absent" /\ stream'[e].job = stream[e].job
    PROVE  EntryJobs'
BY DEF RouteInv, EntryJobs

\* Going somewhere else changes nothing else of a worker.
LEMMA Goes ==
    ASSUME IInv, NEW w \in Workers, NEW pc, GoTo(w, pc)
    PROVE  /\ worker'[w].pc = pc
           /\ worker'[w].entry = worker[w].entry /\ worker'[w].job = worker[w].job
           /\ worker'[w].event = worker[w].event
           /\ \A v \in Workers \ {w} : worker'[v] = worker[v]
<1>1. worker \in [Workers -> Control] /\ worker[w] \in Control
  BY RouteFacts
<1>2. worker' = [worker EXCEPT ![w] = [@ EXCEPT !.pc = pc]]
  BY DEF GoTo
<1> QED
  BY <1>1, <1>2 DEF Control

\* Where the steps below take a worker, which keeps its delivery or drops it.
LEMMA QuietWorkerEffect ==
    ASSUME IInv, NEW w \in Workers,
           \/ NothingToPublish(w) \/ PublishDeadLetter(w) \/ NothingToConsume(w)
           \/ RejectEnvelope(w) \/ ClaimIgnored(w) \/ Work(w) \/ StaleSuccess(w) \/ StaleFailure(w)
           \/ CheckAcknowledgeable(w) \/ Acknowledge(w) \/ AbortTick(w)
    PROVE  /\ \A v \in Workers \ {w} : worker'[v] = worker[v]
           /\ \/ worker'[w] = AtTick
              \/ /\ worker'[w].entry = worker[w].entry /\ worker'[w].job = worker[w].job
                 /\ worker'[w].event = worker[w].event
                 /\ \/ NothingToPublish(w) /\ worker'[w].pc = "consume"
                    \/ PublishDeadLetter(w) /\ worker'[w].pc = "mark"
                    \/ RejectEnvelope(w) /\ worker'[w].pc = "ack"
                    \/ ClaimIgnored(w) /\ worker'[w].pc = "check"
                    \/ worker[w].pc \in {"work", "persist"} /\ worker'[w].pc \in {"persist", "check"}
                    \/ CheckAcknowledgeable(w) /\ worker'[w].pc = "ack" /\ Acknowledgeable(worker[w].job)
<1>1. worker \in [Workers -> Control] /\ worker[w] \in Control
  BY RouteFacts
<1>2. CASE NothingToPublish(w)
  <2>1. GoTo(w, "consume")
    BY <1>2 DEF NothingToPublish
  <2> QED
    BY <1>2, <2>1, Goes
<1>3. CASE PublishDeadLetter(w)
  <2>1. GoTo(w, "mark")
    BY <1>3 DEF PublishDeadLetter
  <2> QED
    BY <1>3, <2>1, Goes
<1>4. CASE RejectEnvelope(w)
  <2>1. GoTo(w, "ack")
    BY <1>4 DEF RejectEnvelope
  <2> QED
    BY <1>4, <2>1, Goes
<1>5. CASE ClaimIgnored(w)
  <2>1. GoTo(w, "check")
    BY <1>5 DEF ClaimIgnored
  <2> QED
    BY <1>5, <2>1, Goes
<1>6. CASE StaleFailure(w)
  <2>1. GoTo(w, "check") /\ worker[w].pc = "persist"
    BY <1>6 DEF StaleFailure
  <2> QED
    BY <2>1, Goes
<1>7. CASE Work(w)
  <2>1. worker[w].pc = "work"
    BY <1>7 DEF Work
  <2>2. PICK v \in Verdicts : worker' = [worker EXCEPT ![w] = [@ EXCEPT !.pc = "persist", !.verdict = v]]
    BY <1>7 DEF Work
  <2> QED
    BY <1>1, <2>1, <2>2 DEF Control
<1>8. CASE StaleSuccess(w)
  <2>1. worker[w].pc = "persist"
        /\ worker' = [worker EXCEPT ![w] = [@ EXCEPT !.verdict = "FAILED"]]
    BY <1>8 DEF StaleSuccess
  <2> QED
    BY <1>1, <2>1 DEF Control
<1>9. CASE CheckAcknowledgeable(w)
  <2>1. worker' = [worker EXCEPT ![w] =
                     IF Acknowledgeable(worker[w].job) THEN [worker[w] EXCEPT !.pc = "ack"] ELSE AtTick]
    BY <1>9 DEF CheckAcknowledgeable
  <2> QED
    BY <1>1, <1>9, <2>1 DEF Control
<1>10. CASE NothingToConsume(w) \/ Acknowledge(w) \/ AbortTick(w)
  BY <1>1, <1>10 DEF NothingToConsume, Acknowledge, AbortTick
<1> QED
  BY <1>2, <1>3, <1>4, <1>5, <1>6, <1>7, <1>8, <1>9, <1>10

\* The steps of worker w that change nothing but itself, and the stream where
\* it acknowledges.
LEMMA QuietWorkerRoute ==
    ASSUME IInv, RouteInv, NEW w \in Workers,
           \/ NothingToPublish(w) \/ PublishDeadLetter(w) \/ NothingToConsume(w)
           \/ RejectEnvelope(w) \/ ClaimIgnored(w) \/ Work(w) \/ StaleSuccess(w) \/ StaleFailure(w)
           \/ CheckAcknowledgeable(w) \/ Acknowledge(w) \/ AbortTick(w)
    PROVE  RouteInv'
<1>1. /\ worker \in [Workers -> Control] /\ worker[w] \in Control /\ stream \in [EntryIds -> Entry]
      /\ None \notin EntryIds /\ None \notin Jobs
      /\ worker[w].entry \in EntryIds \cup {None}
  BY RouteFacts DEF Control
<1>2. UNCHANGED <<job, outbox, losses>>
  BY DEF NothingToPublish, PublishDeadLetter, NothingToConsume, RejectEnvelope, ClaimIgnored, Work,
         StaleSuccess, StaleFailure, CheckAcknowledgeable, Acknowledge, AbortTick, rows, bounds
<1>3. PICK c : c = worker'[w]
  OBVIOUS
<1>4. \A v \in Workers \ {w} : worker'[v] = worker[v]
  BY QuietWorkerEffect
<1>5. \/ c = AtTick
      \/ /\ c.entry = worker[w].entry /\ c.job = worker[w].job /\ c.event = worker[w].event
         /\ \/ NothingToPublish(w) /\ c.pc = "consume"
            \/ PublishDeadLetter(w) /\ c.pc = "mark"
            \/ RejectEnvelope(w) /\ c.pc = "ack"
            \/ ClaimIgnored(w) /\ c.pc = "check"
            \/ worker[w].pc \in {"work", "persist"} /\ c.pc \in {"persist", "check"}
            \/ CheckAcknowledgeable(w) /\ c.pc = "ack" /\ Acknowledgeable(worker[w].job)
  BY <1>3, QuietWorkerEffect
<1>6. AtTick.entry = None /\ AtTick.pc = "tick"
  BY DEF AtTick
<1>7. \/ stream' = stream
      \/ worker[w].pc = "ack" /\ stream' = [stream EXCEPT ![worker[w].entry] = NoEntry]
  BY DEF NothingToPublish, PublishDeadLetter, NothingToConsume, RejectEnvelope, ClaimIgnored, Work,
         StaleSuccess, StaleFailure, CheckAcknowledgeable, Acknowledge, AbortTick
<1>8. EntryJobs'
  <2>1. \A v \in Workers : worker[v].entry \in EntryIds \cup {None}
    BY RouteFacts DEF Control
  <2>2. \A e \in EntryIds : stream'[e].state # "absent" => stream'[e] = stream[e]
    BY <1>1, <1>7 DEF NoEntry
  <2>3. \A v \in Workers : \/ worker'[v].entry = None
                           \/ worker'[v].entry = worker[v].entry /\ worker'[v].job = worker[v].job
    BY <1>3, <1>4, <1>5, <1>6
  <2> QED
    BY <2>1, <2>2, <2>3, EntryJobsKept
<1>9. \A j \in Jobs : ~ Relayed(j, w)'
  <2> SUFFICES ASSUME NEW j \in Jobs, c.pc = "mark", c.event = <<j, "ingestion">> PROVE FALSE
    BY <1>3 DEF Relayed
  <2>1. PublishDeadLetter(w) /\ c.event = worker[w].event
    BY <1>5, <1>6
  <2>2. worker[w].event[2] = "dead"
    BY <2>1 DEF PublishDeadLetter
  <2> QED
    BY <2>1, <2>2
<1>10. ASSUME NEW e \in EntryIds, NEW j \in Jobs, Lasting(e, j), Unfinished(j), Announced(j),
              Endangers(c, e, job[j].state)
       PROVE  FALSE
  <2>1. /\ c # AtTick /\ c.entry = e /\ worker[w].entry = e
        /\ \/ c.pc = "ack"
           \/ c.pc \in {"work", "persist", "check"} /\ job[j].state # "RUNNING"
    BY <1>1, <1>5, <1>6, <1>10 DEF Endangers
  <2>2. worker[w].job = j
    BY <1>1, <1>10, <2>1 DEF Lasting, RouteInv, EntryJobs
  <2>3. /\ worker[w].pc # "ack"
        /\ worker[w].pc \in {"work", "persist", "check"} => job[j].state = "RUNNING"
    BY <1>10, <2>1 DEF Lasting, Endangers
  <2>4. CASE RejectEnvelope(w) /\ c.pc = "ack"
    BY <1>1, <2>2, <2>4 DEF RejectEnvelope
  <2>5. CASE ClaimIgnored(w) /\ c.pc = "check"
    <3>1. Unclaimable(job[j])
      BY <2>2, <2>5 DEF ClaimIgnored
    <3>2. job[j].state = "PENDING" /\ job[j].due = "later"
      BY <1>10, <2>1, <2>5, <3>1 DEF Unclaimable, Unfinished, Terminal
    <3>3. Ingestion(j).pub = "unpublished" /\ Ingestion(j).token = None
      BY <3>2 DEF RouteInv, BackoffHeld
    <3> QED
      BY <1>10, <3>3, RouteFacts DEF Announced, Relayed
  <2>6. CASE CheckAcknowledgeable(w) /\ Acknowledgeable(worker[w].job)
    <3>1. worker[w].pc = "check" /\ Acknowledgeable(j)
      BY <2>2, <2>6 DEF CheckAcknowledgeable
    <3> QED
      BY <2>3, <3>1 DEF Acknowledgeable, Terminal
  <2> QED
    BY <1>5, <2>1, <2>3, <2>4, <2>5, <2>6
<1>11. ASSUME NEW e \in EntryIds, NEW j \in Jobs, Lasting(e, j)
       PROVE  stream'[e].state # "absent" /\ stream'[e].job = j
  <2>1. stream'[e] = stream[e]
    <3>1. CASE worker[w].pc = "ack" /\ stream' = [stream EXCEPT ![worker[w].entry] = NoEntry]
      <4>1. worker[w].entry # e
        BY <1>11, <3>1 DEF Lasting, Endangers
      <4> QED
        BY <1>1, <3>1, <4>1
    <3> QED
      BY <1>7, <3>1
  <2> QED
    BY <1>11, <2>1 DEF Lasting
<1> QED
  BY <1>2, <1>3, <1>4, <1>8, <1>9, <1>10, <1>11, WorkerMoves DEF RouteInv

\* Jobs wait as they did, and the events of those that wait are left alone.
LEMMA EventsKept ==
    ASSUME RouteInv,
           \A j \in Jobs : job'[j].state = job[j].state /\ job'[j].due = job[j].due,
           \A j \in Jobs : (Ingestion(j).pub = "absent")' <=> Ingestion(j).pub = "absent",
           \A j \in Jobs :
              Ingestion(j).pub = "unpublished" /\ Ingestion(j).avail = "later" /\ Ingestion(j).token = None =>
                 (Ingestion(j).pub = "unpublished" /\ Ingestion(j).avail = "later" /\ Ingestion(j).token = None)'
    PROVE  EventsExist' /\ BackoffHeld'
<1>1. EventsExist'
  BY DEF RouteInv, EventsExist
<1>2. BackoffHeld'
  BY DEF RouteInv, BackoffHeld
<1> QED
  BY <1>1, <1>2

\* A job whose event is announced no more than before keeps a lasting delivery,
\* whatever worker w does with deliveries of other jobs.
LEMMA RouteKept ==
    ASSUME RouteInv, NEW w, NEW j \in Jobs,
           \A v \in Workers \ {w} : worker'[v] = worker[v],
           losses' = 0 => losses = 0,
           Unfinished(j)' => Unfinished(j),
           Announced(j)' => Announced(j),
           Unfinished(j)' /\ job[j].state = "RUNNING" => job'[j].state = "RUNNING",
           Unfinished(j)' =>
              \A e \in EntryIds :
                 Lasting(e, j) /\ Unfinished(j) /\ Announced(j) =>
                    /\ stream'[e].state # "absent" /\ stream'[e].job = j
                    /\ w \in Workers => ~ Endangers(worker'[w], e, job'[j].state)
    PROVE  RoutedAt(j)'
<1> SUFFICES ASSUME (losses = 0 /\ Unfinished(j) /\ Announced(j))'
             PROVE  \E e \in EntryIds : Lasting(e, j)'
  BY DEF RoutedAt
<1>1. losses = 0 /\ Unfinished(j) /\ Announced(j)
  OBVIOUS
<1>2. PICK e \in EntryIds : Lasting(e, j)
  BY <1>1 DEF RouteInv, Routed, RoutedAt
<1>3. /\ stream'[e].state # "absent" /\ stream'[e].job = j
      /\ w \in Workers => ~ Endangers(worker'[w], e, job'[j].state)
  BY <1>1, <1>2
<1>4. \A v \in Workers : ~ Endangers(worker'[v], e, job'[j].state)
  <2> SUFFICES ASSUME NEW v \in Workers PROVE ~ Endangers(worker'[v], e, job'[j].state)
    OBVIOUS
  <2>1. CASE v = w
    BY <1>3, <2>1
  <2>2. CASE v # w
    <3>1. worker'[v] = worker[v] /\ ~ Endangers(worker[v], e, job[j].state)
      BY <1>2, <2>2 DEF Lasting
    <3>2. job[j].state = "RUNNING" => job'[j].state = "RUNNING"
      OBVIOUS
    <3> QED
      BY <3>1, <3>2 DEF Endangers
  <2> QED
    BY <2>1, <2>2
<1> QED
  BY <1>3, <1>4 DEF Lasting

LEMMA ReconcileRoute ==
    ASSUME IInv, RouteInv, NEW w \in Workers, Reconcile(w)
    PROVE  RouteInv'
<1>1. /\ UNCHANGED <<job, stream, losses>> /\ GoTo(w, "relay")
      /\ outbox' = [x \in Events |-> IF Reconcilable(x) THEN Republished(outbox[x]) ELSE outbox[x]]
  BY DEF Reconcile, rows, bounds
<1>2. /\ worker'[w].pc = "relay"
      /\ worker'[w].entry = worker[w].entry /\ worker'[w].job = worker[w].job
      /\ \A v \in Workers \ {w} : worker'[v] = worker[v]
  BY <1>1, Goes
<1>3. \A j \in Jobs : \/ Ingestion(j)' = Ingestion(j)
                      \/ /\ Ingestion(j).pub = "stale"
                         /\ (Ingestion(j).pub = "unpublished" /\ Ingestion(j).token = None)'
  <2> SUFFICES ASSUME NEW j \in Jobs
               PROVE  \/ Ingestion(j)' = Ingestion(j)
                      \/ /\ Ingestion(j).pub = "stale"
                         /\ (Ingestion(j).pub = "unpublished" /\ Ingestion(j).token = None)'
    OBVIOUS
  <2>1. <<j, "ingestion">> \in Events /\ Ingestion(j) \in EventRow
    BY RouteFacts
  <2>2. CASE Reconcilable(<<j, "ingestion">>)
    <3>1. Ingestion(j)' = Republished(Ingestion(j)) /\ Ingestion(j).pub = "stale"
      BY <1>1, <2>1, <2>2 DEF Ingestion, Reconcilable
    <3> QED
      BY <2>1, <3>1 DEF Republished, EventRow
  <2>3. CASE ~ Reconcilable(<<j, "ingestion">>)
    BY <1>1, <2>1, <2>3 DEF Ingestion
  <2> QED
    BY <2>2, <2>3
<1>4. EventsExist' /\ BackoffHeld'
  BY <1>1, <1>3, EventsKept
<1>5. EntryJobs'
  BY <1>1, <1>2, EntryJobsKept
<1>6. ASSUME NEW j \in Jobs PROVE RoutedAt(j)'
  <2>1. Announced(j)' => Announced(j)
    <3>1. None \notin Workers
      BY RouteFacts
    <3>2. ~ Relayed(j, w)'
      BY <1>2 DEF Relayed
    <3>3. \A v \in Workers : Relayed(j, v)' => Relayed(j, v)
      BY <1>2, <1>3, <3>1, <3>2 DEF Relayed
    <3> QED
      BY <1>3, <3>3 DEF Announced
  <2>2. \A e \in EntryIds : ~ Endangers(worker'[w], e, job'[j].state)
    BY <1>2 DEF Endangers
  <2>3. \A e \in EntryIds : Lasting(e, j) => stream'[e].state # "absent" /\ stream'[e].job = j
    BY <1>1 DEF Lasting
  <2> QED
    BY <1>1, <1>2, <2>1, <2>2, <2>3, RouteKept DEF Unfinished
<1> QED
  BY <1>4, <1>5, <1>6 DEF RouteInv, Routed

LEMMA LeaseEventRoute ==
    ASSUME IInv, RouteInv, NEW w \in Workers, NEW x \in Events, LeaseEvent(w, x)
    PROVE  RouteInv'
<1>1. /\ UNCHANGED <<job, stream, losses>>
      /\ Publishable(outbox[x])
      /\ outbox' = [outbox EXCEPT ![x] = [@ EXCEPT !.token = w, !.hold = "live"]]
      /\ worker' = [worker EXCEPT ![w] = [@ EXCEPT !.pc = "publish", !.event = x]]
  BY DEF LeaseEvent, rows, bounds
<1>2. /\ worker'[w].pc = "publish"
      /\ worker'[w].entry = worker[w].entry /\ worker'[w].job = worker[w].job
      /\ \A v \in Workers \ {w} : worker'[v] = worker[v]
  BY <1>1, RouteFacts DEF Control
<1>3. \A j \in Jobs : \/ Ingestion(j)' = Ingestion(j)
                      \/ /\ Ingestion(j).avail = "reached"
                         /\ (Ingestion(j).pub)' = Ingestion(j).pub
                         /\ (Ingestion(j).token)' = w
  <2> SUFFICES ASSUME NEW j \in Jobs
               PROVE  \/ Ingestion(j)' = Ingestion(j)
                      \/ /\ Ingestion(j).avail = "reached"
                         /\ (Ingestion(j).pub)' = Ingestion(j).pub
                         /\ (Ingestion(j).token)' = w
    OBVIOUS
  <2>1. <<j, "ingestion">> \in Events /\ Ingestion(j) \in EventRow /\ outbox \in [Events -> EventRow]
    BY RouteFacts
  <2>2. CASE x = <<j, "ingestion">>
    <3>1. Ingestion(j)' = [Ingestion(j) EXCEPT !.token = w, !.hold = "live"]
      BY <1>1, <2>1, <2>2 DEF Ingestion
    <3> QED
      BY <1>1, <2>1, <2>2, <3>1 DEF EventRow, Publishable, Ingestion
  <2>3. CASE x # <<j, "ingestion">>
    BY <1>1, <2>1, <2>3 DEF Ingestion
  <2> QED
    BY <2>2, <2>3
<1>4. EventsExist' /\ BackoffHeld'
  BY <1>1, <1>3, EventsKept
<1>5. EntryJobs'
  BY <1>1, <1>2, EntryJobsKept
<1>6. ASSUME NEW j \in Jobs PROVE RoutedAt(j)'
  <2>1. Announced(j)' => Announced(j)
    <3>1. ~ Relayed(j, w)'
      BY <1>2 DEF Relayed
    <3>2. \A v \in Workers : Relayed(j, v)' => Relayed(j, v)
      BY <1>2, <1>3, <3>1 DEF Relayed
    <3>3. (Ingestion(j).pub)' = Ingestion(j).pub
      BY <1>3
    <3> QED
      BY <3>2, <3>3 DEF Announced
  <2>2. \A e \in EntryIds : ~ Endangers(worker'[w], e, job'[j].state)
    BY <1>2 DEF Endangers
  <2>3. \A e \in EntryIds : Lasting(e, j) => stream'[e].state # "absent" /\ stream'[e].job = j
    BY <1>1 DEF Lasting
  <2> QED
    BY <1>1, <1>2, <2>1, <2>2, <2>3, RouteKept DEF Unfinished
<1> QED
  BY <1>4, <1>5, <1>6 DEF RouteInv, Routed

LEMMA PublishDeliveryRoute ==
    ASSUME IInv, RouteInv, NEW w \in Workers, PublishDelivery(w)
    PROVE  RouteInv'
<1>1. /\ UNCHANGED <<job, outbox, losses>> /\ worker[w].pc = "publish" /\ GoTo(w, "mark")
  BY DEF PublishDelivery, rows, bounds
<1>2. PICK d \in FreeIds : stream' = [stream EXCEPT ![d] = [state |-> "new", job |-> worker[w].event[1]]]
  BY DEF PublishDelivery
<1>3. /\ worker'[w].pc = "mark"
      /\ worker'[w].entry = worker[w].entry /\ worker'[w].job = worker[w].job
      /\ worker'[w].event = worker[w].event
      /\ \A v \in Workers \ {w} : worker'[v] = worker[v]
  BY <1>1, Goes
<1>4. /\ d \in EntryIds /\ stream[d].state = "absent" /\ \A v \in Workers : worker[v].entry # d
      /\ stream'[d].state = "new" /\ stream'[d].job = worker[w].event[1]
      /\ \A e \in EntryIds : e # d => stream'[e] = stream[e]
  BY <1>2, RouteFacts DEF FreeIds
<1>5. EventsExist' /\ BackoffHeld'
  BY <1>1, EventsKept DEF Ingestion
<1>6. EntryJobs'
  <2>1. \A v \in Workers : worker[v].entry \in EntryIds \cup {None}
    BY RouteFacts DEF Control
  <2> QED
    BY <1>3, <1>4, <2>1, EntryJobsKept
<1>7. ASSUME NEW j \in Jobs PROVE RoutedAt(j)'
  <2>1. CASE Relayed(j, w)'
    <3>1. stream'[d].job = j
      BY <1>3, <1>4, <2>1 DEF Relayed
    <3>2. \A v \in Workers : ~ Endangers(worker'[v], d, job'[j].state)
      BY <1>3, <1>4 DEF Endangers
    <3>3. Lasting(d, j)'
      BY <1>4, <3>1, <3>2 DEF Lasting
    <3> QED
      BY <1>4, <3>3 DEF RoutedAt
  <2>2. CASE ~ Relayed(j, w)'
    <3>1. Announced(j)' => Announced(j)
      BY <1>1, <1>3, <2>2 DEF Announced, Relayed, Ingestion
    <3>2. \A e \in EntryIds : ~ Endangers(worker'[w], e, job'[j].state)
      BY <1>3 DEF Endangers
    <3>3. \A e \in EntryIds : Lasting(e, j) => stream'[e].state # "absent" /\ stream'[e].job = j
      BY <1>4 DEF Lasting
    <3> QED
      BY <1>1, <1>3, <3>1, <3>2, <3>3, RouteKept DEF Unfinished
  <2> QED
    BY <2>1, <2>2
<1> QED
  BY <1>5, <1>6, <1>7 DEF RouteInv, Routed

LEMMA MarkPublishedRoute ==
    ASSUME IInv, RouteInv, NEW w \in Workers, MarkPublished(w)
    PROVE  RouteInv'
<1>1. PICK x : x = worker[w].event
  OBVIOUS
<1>2. /\ UNCHANGED <<job, stream, losses>> /\ worker[w].pc = "mark"
      /\ outbox' = [outbox EXCEPT ![x] =
                      IF outbox[x].token = w
                      THEN [outbox[x] EXCEPT !.pub = "fresh", !.token = None, !.hold = "none"]
                      ELSE outbox[x]]
      /\ worker' = [worker EXCEPT ![w] = [@ EXCEPT !.pc = "consume", !.event = None]]
  BY <1>1 DEF MarkPublished, rows, bounds
<1>3. /\ worker'[w].pc = "consume"
      /\ worker'[w].entry = worker[w].entry /\ worker'[w].job = worker[w].job
      /\ \A v \in Workers \ {w} : worker'[v] = worker[v]
  BY <1>2, RouteFacts DEF Control
<1>4. \A j \in Jobs : \/ Ingestion(j)' = Ingestion(j)
                      \/ /\ Relayed(j, w)
                         /\ (Ingestion(j).pub)' = "fresh" /\ (Ingestion(j).token)' = None
  <2> SUFFICES ASSUME NEW j \in Jobs
               PROVE  \/ Ingestion(j)' = Ingestion(j)
                      \/ /\ Relayed(j, w)
                         /\ (Ingestion(j).pub)' = "fresh" /\ (Ingestion(j).token)' = None
    OBVIOUS
  <2>1. <<j, "ingestion">> \in Events /\ Ingestion(j) \in EventRow /\ outbox \in [Events -> EventRow]
    BY RouteFacts
  <2>2. CASE x = <<j, "ingestion">> /\ outbox[x].token = w
    <3>1. Ingestion(j)' = [Ingestion(j) EXCEPT !.pub = "fresh", !.token = None, !.hold = "none"]
      BY <1>2, <2>1, <2>2 DEF Ingestion
    <3>2. Relayed(j, w)
      BY <1>1, <1>2, <2>2 DEF Relayed, Ingestion
    <3> QED
      BY <2>1, <3>1, <3>2 DEF EventRow
  <2>3. CASE ~ (x = <<j, "ingestion">> /\ outbox[x].token = w)
    BY <1>2, <2>1, <2>3 DEF Ingestion
  <2> QED
    BY <2>2, <2>3
<1>5. None \notin Workers
  BY RouteFacts
<1>6. \A j \in Jobs : Relayed(j, w) => Ingestion(j).pub # "absent"
  <2> SUFFICES ASSUME NEW j \in Jobs, Relayed(j, w) PROVE Ingestion(j).pub # "absent"
    OBVIOUS
  <2>1. <<j, "ingestion">> \in Events
    BY RouteFacts
  <2> QED
    BY <1>5, <2>1 DEF IInv, HeldExists, Relayed, Ingestion
<1>7. EventsExist' /\ BackoffHeld'
  <2>1. \A j \in Jobs : (Ingestion(j).pub = "absent")' <=> Ingestion(j).pub = "absent"
    BY <1>4, <1>6
  <2>2. \A j \in Jobs :
           Ingestion(j).pub = "unpublished" /\ Ingestion(j).avail = "later" /\ Ingestion(j).token = None =>
              (Ingestion(j).pub = "unpublished" /\ Ingestion(j).avail = "later" /\ Ingestion(j).token = None)'
    BY <1>4, <1>5 DEF Relayed
  <2> QED
    BY <1>2, <2>1, <2>2, EventsKept
<1>8. EntryJobs'
  BY <1>2, <1>3, EntryJobsKept
<1>9. ASSUME NEW j \in Jobs PROVE RoutedAt(j)'
  <2>1. Announced(j)' => Announced(j)
    <3>1. CASE Relayed(j, w)
      BY <3>1 DEF Announced
    <3>2. CASE Ingestion(j)' = Ingestion(j)
      <4>1. \A v \in Workers : Relayed(j, v)' => Relayed(j, v)
        BY <1>3, <3>2 DEF Relayed
      <4> QED
        BY <3>2, <4>1 DEF Announced
    <3> QED
      BY <1>4, <3>1, <3>2
  <2>2. \A e \in EntryIds : ~ Endangers(worker'[w], e, job'[j].state)
    BY <1>3 DEF Endangers
  <2>3. \A e \in EntryIds : Lasting(e, j) => stream'[e].state # "absent" /\ stream'[e].job = j
    BY <1>2 DEF Lasting
  <2> QED
    BY <1>2, <1>3, <2>1, <2>2, <2>3, RouteKept DEF Unfinished
<1> QED
  BY <1>7, <1>8, <1>9 DEF RouteInv, Routed

LEMMA DeliverRoute ==
    ASSUME IInv, RouteInv, NEW w \in Workers, NEW d \in EntryIds, Reclaim(w, d) \/ ReadNew(w, d)
    PROVE  RouteInv'
<1>1. /\ UNCHANGED <<job, outbox, losses>>
      /\ stream[d].state # "absent"
      /\ stream' = [stream EXCEPT ![d] = [@ EXCEPT !.state = "busy"]]
      /\ worker' = [worker EXCEPT ![w] = [@ EXCEPT !.pc = "claim", !.entry = d, !.job = stream[d].job]]
  BY DEF Reclaim, ReadNew, Deliver, rows, bounds
<1>2. /\ worker'[w].pc = "claim" /\ worker'[w].entry = d /\ worker'[w].job = stream[d].job
      /\ \A v \in Workers \ {w} : worker'[v] = worker[v]
  BY <1>1, RouteFacts DEF Control
<1>3. /\ stream'[d].state = "busy" /\ stream'[d].job = stream[d].job
      /\ \A e \in EntryIds : e # d => stream'[e] = stream[e]
  BY <1>1, RouteFacts DEF Entry
<1>4. EntryJobs'
  <2>1. \A v \in Workers : worker[v].entry \in EntryIds \cup {None}
    BY RouteFacts DEF Control
  <2>2. ASSUME NEW v \in Workers, worker'[v].entry # None, stream'[worker'[v].entry].state # "absent"
        PROVE  stream'[worker'[v].entry].job = worker'[v].job
    <3>1. CASE v = w
      BY <1>2, <1>3, <3>1
    <3>2. CASE v # w
      BY <1>1, <1>2, <1>3, <2>1, <2>2, <3>2 DEF RouteInv, EntryJobs
    <3> QED
      BY <3>1, <3>2
  <2> QED
    BY <2>2 DEF EntryJobs
<1>5. \A e \in EntryIds : \A j \in Jobs :
        Lasting(e, j) => /\ stream'[e].state # "absent" /\ stream'[e].job = j
                         /\ ~ Endangers(worker'[w], e, job[j].state)
  BY <1>2, <1>3 DEF Lasting, Endangers
<1>6. \A j \in Jobs : ~ Relayed(j, w)'
  BY <1>2 DEF Relayed
<1> QED
  BY <1>1, <1>2, <1>4, <1>5, <1>6, WorkerMoves DEF RouteInv

\* Worker w changes the row of the job it serves, and goes to work or to the
\* check before the acknowledgement.
LEMMA OwnJobRoute ==
    ASSUME IInv, RouteInv, NEW w \in Workers, NEW j \in Jobs,
           worker[w].job = j, worker[w].entry # None,
           UNCHANGED <<stream, losses>>,
           \A v \in Workers \ {w} : worker'[v] = worker[v],
           worker'[w].entry = worker[w].entry, worker'[w].job = worker[w].job,
           worker'[w].pc \in {"work", "check"},
           \A k \in Jobs \ {j} : job'[k] = job[k] /\ Ingestion(k)' = Ingestion(k),
           job'[j].state # "ABSENT", (Ingestion(j).pub # "absent")',
           (job[j].state = "PENDING" /\ job[j].due = "later" =>
                /\ Ingestion(j).pub = "unpublished" /\ Ingestion(j).avail = "later"
                /\ Ingestion(j).token = None)',
           \/ ~ Unfinished(j)'
           \/ ~ Announced(j)'
           \/ job'[j].state = "RUNNING" /\ Unfinished(j) /\ Ingestion(j)' = Ingestion(j)
    PROVE  RouteInv'
<1>1. EventsExist' /\ BackoffHeld'
  <2>1. EventsExist'
    BY DEF RouteInv, EventsExist
  <2>2. BackoffHeld'
    BY DEF RouteInv, BackoffHeld
  <2> QED
    BY <2>1, <2>2
<1>2. EntryJobs'
  BY EntryJobsKept
<1>3. \A k \in Jobs : Ingestion(k)' = Ingestion(k) => (Announced(k)' => Announced(k))
  <2> SUFFICES ASSUME NEW k \in Jobs, Ingestion(k)' = Ingestion(k), Announced(k)'
               PROVE  Announced(k)
    OBVIOUS
  <2>1. \A v \in Workers : Relayed(k, v)' => Relayed(k, v)
    BY DEF Relayed
  <2> QED
    BY <2>1 DEF Announced
<1>4. \A k \in Jobs, e \in EntryIds : Lasting(e, k) => stream'[e].state # "absent" /\ stream'[e].job = k
  BY DEF Lasting
<1>5. ASSUME NEW k \in Jobs \ {j} PROVE RoutedAt(k)'
  <2>1. Announced(k)' => Announced(k)
    BY <1>3
  <2>2. \A e \in EntryIds : Lasting(e, k) => ~ Endangers(worker'[w], e, job'[k].state)
    <3> SUFFICES ASSUME NEW e \in EntryIds, Lasting(e, k), worker[w].entry = e PROVE FALSE
      BY DEF Endangers
    <3> QED
      BY DEF Lasting, RouteInv, EntryJobs
  <2>3. job'[k] = job[k] /\ k \in Jobs
    OBVIOUS
  <2> QED
    BY <1>4, <2>1, <2>2, <2>3, RouteKept DEF Unfinished
<1>6. RoutedAt(j)'
  <2>1. CASE ~ Unfinished(j)' \/ ~ Announced(j)'
    BY <2>1 DEF RoutedAt
  <2>2. CASE job'[j].state = "RUNNING" /\ Unfinished(j) /\ Ingestion(j)' = Ingestion(j)
    <3>1. Announced(j)' => Announced(j)
      BY <1>3, <2>2
    <3>2. \A e \in EntryIds : ~ Endangers(worker'[w], e, job'[j].state)
      BY <2>2 DEF Endangers
    <3> QED
      BY <1>4, <2>2, <3>1, <3>2, RouteKept DEF Unfinished
  <2> QED
    BY <2>1, <2>2
<1> QED
  BY <1>1, <1>2, <1>5, <1>6 DEF RouteInv, Routed

\* A dead letter leaves every ingestion event as it was.
LEMMA DeadLetterApart ==
    ASSUME IInv, NEW j \in Jobs, outbox' = [outbox EXCEPT ![<<j, "dead">>] = Enlist(@)]
    PROVE  \A k \in Jobs : Ingestion(k)' = Ingestion(k)
BY RouteFacts DEF Ingestion

\* The claim or the commit of a worker gives up on its job, or succeeds.
LEMMA TerminalRoute ==
    ASSUME IInv, RouteInv, NEW w \in Workers,
           ClaimExhausted(w) \/ PersistSuccess(w) \/ PersistFailure(w)
    PROVE  RouteInv'
<1>1. PICK j : j = worker[w].job
  OBVIOUS
<1>2. /\ j \in Jobs /\ worker[w].entry # None
      /\ job[j] \in JobRow /\ job[j].state # "ABSENT"
  <2>1. CASE ClaimExhausted(w)
    <3>1. /\ j # None /\ worker[w].entry # None /\ worker[w] \in Control
          /\ Exhausted(job[j])
      BY <1>1, <2>1, RouteFacts DEF ClaimExhausted, IInv, ControlOK
    <3>2. j \in Jobs
      BY <1>1, <3>1 DEF Control
    <3>3. job[j].state # "ABSENT"
      BY <3>1, <3>2 DEF IInv, NotStarted, Exhausted
    <3> QED
      BY <3>1, <3>2, <3>3, RouteFacts
  <2>2. CASE PersistSuccess(w) \/ PersistFailure(w)
    <3>1. worker[w].pc = "persist" /\ HoldsFence(w)
      BY <2>2 DEF PersistSuccess, PersistFailure
    <3>2. j # None /\ worker[w].entry # None /\ worker[w] \in Control
      BY <1>1, <3>1, RouteFacts DEF IInv, ControlOK
    <3>3. j \in Jobs
      BY <1>1, <3>2 DEF Control
    <3> QED
      BY <1>1, <3>1, <3>2, <3>3, RouteFacts DEF HoldsFence
  <2> QED
    BY <2>1, <2>2
<1>3. GoTo(w, "check") /\ UNCHANGED <<stream, losses>>
  BY DEF ClaimExhausted, PersistSuccess, PersistFailure, bounds
<1>4. /\ job'[j].state \in Terminal
      /\ \A k \in Jobs \ {j} : job'[k] = job[k]
  <2>1. PICK r : job' = [job EXCEPT ![j] = r] /\ r.state \in Terminal
    <3>1. CASE ClaimExhausted(w)
      <4>1. job' = [job EXCEPT ![j] = GivenUp(job[j])] /\ GivenUp(job[j]).state = "FAILED"
        BY <1>1, <1>2, <3>1 DEF ClaimExhausted, GivenUp, JobRow
      <4> QED
        BY <4>1 DEF Terminal
    <3>2. CASE PersistSuccess(w)
      <4>1. /\ job' = [job EXCEPT ![j] = [job[j] EXCEPT !.state = "SUCCEEDED", !.lease = "none"]]
            /\ [job[j] EXCEPT !.state = "SUCCEEDED", !.lease = "none"].state = "SUCCEEDED"
        BY <1>1, <1>2, <3>2 DEF PersistSuccess, JobRow
      <4> QED
        BY <4>1 DEF Terminal
    <3>3. CASE PersistFailure(w)
      <4>1. /\ job' = [job EXCEPT ![j] = [job[j] EXCEPT !.state = "FAILED", !.lease = "none"]]
            /\ [job[j] EXCEPT !.state = "FAILED", !.lease = "none"].state = "FAILED"
        BY <1>1, <1>2, <3>3 DEF PersistFailure, JobRow
      <4> QED
        BY <4>1 DEF Terminal
    <3> QED
      BY <3>1, <3>2, <3>3
  <2> QED
    BY <1>2, <2>1, RouteFacts
<1>5. \A k \in Jobs : Ingestion(k)' = Ingestion(k)
  <2>1. outbox' = outbox \/ outbox' = [outbox EXCEPT ![<<j, "dead">>] = Enlist(@)]
    BY <1>1 DEF ClaimExhausted, PersistSuccess, PersistFailure
  <2> QED
    BY <1>2, <2>1, DeadLetterApart DEF Ingestion
<1>6. (Ingestion(j).pub # "absent")'
  BY <1>2, <1>5 DEF RouteInv, EventsExist
<1>7. /\ worker'[w].pc = "check"
      /\ worker'[w].entry = worker[w].entry /\ worker'[w].job = worker[w].job
      /\ \A v \in Workers \ {w} : worker'[v] = worker[v]
  BY <1>3, Goes
<1>8. job'[j].state # "ABSENT" /\ job'[j].state # "PENDING" /\ ~ Unfinished(j)'
  BY <1>4 DEF Terminal, Unfinished
<1> QED
  BY <1>1, <1>2, <1>3, <1>4, <1>5, <1>6, <1>7, <1>8, OwnJobRoute

LEMMA ClaimTakenRoute ==
    ASSUME IInv, RouteInv, NEW w \in Workers, ClaimTaken(w)
    PROVE  RouteInv'
<1>1. PICK j : j = worker[w].job
  OBVIOUS
<1>2. PICK f : f = Claimed(job[j]).fence
  OBVIOUS
<1>3. /\ j # None /\ worker[w].pc = "claim"
      /\ version[j] \in {"QUEUED", "PROCESSING"}
      /\ job' = [job EXCEPT ![j] = Claimed(@)]
      /\ worker' = [worker EXCEPT ![w] = [@ EXCEPT !.pc = "work", !.fence = f]]
      /\ UNCHANGED <<outbox, stream, losses>>
  BY <1>1, <1>2 DEF ClaimTaken, bounds
<1>4. /\ worker \in [Workers -> Control] /\ worker[w] \in Control /\ job \in [Jobs -> JobRow]
      /\ worker[w].entry # None
  BY <1>3, RouteFacts DEF IInv, ControlOK
<1>5. j \in Jobs
  BY <1>1, <1>3, <1>4 DEF Control
<1>6. Unfinished(j)
  BY <1>3, <1>5 DEF IInv, StateAgreement, Agrees, Unfinished
<1>7. /\ worker'[w].pc = "work"
      /\ worker'[w].entry = worker[w].entry /\ worker'[w].job = worker[w].job
      /\ \A v \in Workers \ {w} : worker'[v] = worker[v]
  BY <1>3, <1>4 DEF Control
<1>8. job'[j].state = "RUNNING" /\ \A k \in Jobs \ {j} : job'[k] = job[k]
  BY <1>3, <1>4, <1>5 DEF Claimed, JobRow
<1>9. \A k \in Jobs : Ingestion(k)' = Ingestion(k)
  BY <1>3 DEF Ingestion
<1>10. (Ingestion(j).pub # "absent")'
  BY <1>5, <1>6, <1>9 DEF RouteInv, EventsExist, Unfinished
<1> QED
  BY <1>1, <1>3, <1>4, <1>5, <1>6, <1>7, <1>8, <1>9, <1>10, OwnJobRoute

LEMMA PersistRetryRoute ==
    ASSUME IInv, RouteInv, NEW w \in Workers, PersistRetry(w)
    PROVE  RouteInv'
<1>1. PICK j : j = worker[w].job
  OBVIOUS
<1>2. /\ worker[w].pc = "persist"
      /\ job' = [job EXCEPT ![j] = [@ EXCEPT !.state = "PENDING", !.lease = "none", !.due = "later"]]
      /\ outbox' = [outbox EXCEPT ![<<j, "ingestion">>] = ScheduleRetry(@)]
      /\ GoTo(w, "check")
      /\ UNCHANGED <<stream, losses>>
  BY <1>1 DEF PersistRetry, bounds
<1>3. worker[w] \in Control /\ worker[w].entry # None /\ j # None
  BY <1>1, <1>2, RouteFacts DEF IInv, ControlOK
<1>4. j \in Jobs
  BY <1>1, <1>3 DEF Control
<1>5. /\ <<j, "ingestion">> \in Events /\ Ingestion(j) \in EventRow /\ outbox \in [Events -> EventRow]
      /\ job \in [Jobs -> JobRow] /\ None \notin Workers
  BY <1>4, RouteFacts
<1>6. job'[j].state = "PENDING" /\ \A k \in Jobs \ {j} : job'[k] = job[k]
  BY <1>2, <1>4, <1>5 DEF JobRow
<1>7. (Ingestion(j).pub = "unpublished" /\ Ingestion(j).avail = "later" /\ Ingestion(j).token = None)'
  <2>1. Ingestion(j)' = ScheduleRetry(Ingestion(j))
    BY <1>2, <1>5 DEF Ingestion
  <2> QED
    BY <1>5, <2>1 DEF ScheduleRetry, EventRow
<1>8. \A k \in Jobs \ {j} : Ingestion(k)' = Ingestion(k)
  BY <1>2, <1>5 DEF Ingestion
<1>9. ~ Announced(j)'
  BY <1>5, <1>7 DEF Announced, Relayed
<1>10. /\ worker'[w].pc = "check"
       /\ worker'[w].entry = worker[w].entry /\ worker'[w].job = worker[w].job
       /\ \A v \in Workers \ {w} : worker'[v] = worker[v]
  BY <1>2, Goes
<1> QED
  BY <1>1, <1>2, <1>3, <1>4, <1>6, <1>7, <1>8, <1>9, <1>10, OwnJobRoute

\* No worker moves and no job changes its state.
LEMMA EnvironmentRoute ==
    ASSUME IInv, RouteInv, worker' = worker, losses' = 0 => losses = 0,
           \A j \in Jobs : job'[j].state = job[j].state,
           EventsExist', BackoffHeld', EntryJobs',
           \A j \in Jobs : Announced(j)' => Announced(j),
           losses' = 0 =>
             \A e \in EntryIds : stream[e].state # "absent" =>
                stream'[e].state # "absent" /\ stream'[e].job = stream[e].job
    PROVE  RouteInv'
<1>1. ASSUME NEW j \in Jobs, losses' = 0 PROVE RoutedAt(j)'
  <2>1. None \notin Workers
    BY RouteFacts
  <2>2. \A e \in EntryIds : Lasting(e, j) => stream'[e].state # "absent" /\ stream'[e].job = j
    BY <1>1 DEF Lasting
  <2>3. job'[j].state = job[j].state /\ (Announced(j)' => Announced(j))
    OBVIOUS
  <2>4. Unfinished(j)' => Unfinished(j)
    BY <2>3 DEF Unfinished
  <2>5. \A v \in Workers \ {None} : worker'[v] = worker[v]
    OBVIOUS
  <2> QED
    BY <2>1, <2>2, <2>3, <2>4, <2>5, RouteKept
<1>2. ASSUME NEW j \in Jobs, losses' # 0 PROVE RoutedAt(j)'
  BY <1>2 DEF RoutedAt
<1> QED
  BY <1>1, <1>2 DEF RouteInv, Routed

\* The Redis stream alone changes, or time passes for an entry.
LEMMA StreamRoute ==
    ASSUME IInv, RouteInv,
           LoseStream \/ LoseGroup \/ \E d \in EntryIds : AddStray(d) \/ EntryIdles(d)
    PROVE  RouteInv'
<1>1. UNCHANGED <<job, outbox, worker>>
  BY DEF LoseStream, LoseGroup, AddStray, EntryIdles, rows, bounds
<1>2. losses \in Nat /\ stream \in [EntryIds -> Entry]
  BY RouteFacts
<1>3. \A e \in EntryIds :
         stream'[e].state # "absent" =>
            \/ stream[e].state # "absent" /\ stream'[e].job = stream[e].job
            \/ \A v \in Workers : worker[v].entry # e
  <2>1. CASE LoseStream
    BY <1>2, <2>1 DEF LoseStream, NoEntry
  <2>2. CASE LoseGroup
    BY <1>2, <2>2 DEF LoseGroup, NoEntry, Entry
  <2>3. ASSUME NEW d \in EntryIds, AddStray(d) \/ EntryIdles(d)
        PROVE  \A e \in EntryIds :
                  stream'[e].state # "absent" =>
                     \/ stream[e].state # "absent" /\ stream'[e].job = stream[e].job
                     \/ \A v \in Workers : worker[v].entry # e
    BY <1>2, <2>3 DEF AddStray, EntryIdles, FreeIds, Entry
  <2> QED
    BY <2>1, <2>2, <2>3
<1>4. losses' = 0 =>
        /\ losses = 0
        /\ \A e \in EntryIds : stream[e].state # "absent" =>
              stream'[e].state # "absent" /\ stream'[e].job = stream[e].job
  <2>1. CASE LoseStream \/ LoseGroup
    BY <1>2, <2>1 DEF LoseStream, LoseGroup
  <2>2. ASSUME NEW d \in EntryIds, AddStray(d) \/ EntryIdles(d)
        PROVE  /\ losses' = losses
               /\ \A e \in EntryIds : stream[e].state # "absent" =>
                     stream'[e].state # "absent" /\ stream'[e].job = stream[e].job
    BY <1>2, <2>2 DEF AddStray, EntryIdles, FreeIds, Entry, bounds
  <2> QED
    BY <2>1, <2>2
<1>5. EventsExist' /\ BackoffHeld'
  BY <1>1 DEF RouteInv, EventsExist, BackoffHeld, Ingestion
<1>6. EntryJobs'
  <2>1. \A v \in Workers : worker[v].entry \in EntryIds \cup {None}
    BY RouteFacts DEF Control
  <2>2. \A v \in Workers :
           LET e == worker[v].entry IN
           e # None /\ stream'[e].state # "absent" =>
              stream[e].state # "absent" /\ stream'[e].job = stream[e].job
    BY <1>3, <2>1
  <2> QED
    BY <1>1, <2>2, EntryJobsKept
<1>7. \A j \in Jobs : Announced(j)' => Announced(j)
  BY <1>1 DEF Announced, Relayed, Ingestion
<1> QED
  BY <1>1, <1>4, <1>5, <1>6, <1>7, EnvironmentRoute

\* A clock of a job or of an event runs.
LEMMA ClockRoute ==
    ASSUME IInv, RouteInv,
           \/ \E j \in Jobs : LeaseExpires(j) \/ BackoffElapses(j)
           \/ \E x \in Events : HoldExpires(x) \/ RelayOverstays(x) \/ PublicationAges(x)
    PROVE  RouteInv'
<1>1. UNCHANGED <<stream, worker, losses>>
  BY DEF LeaseExpires, BackoffElapses, HoldExpires, RelayOverstays, PublicationAges, rows, bounds
<1>2. /\ job \in [Jobs -> JobRow] /\ outbox \in [Events -> EventRow]
      /\ \A j \in Jobs : <<j, "ingestion">> \in Events /\ Ingestion(j) \in EventRow
  BY RouteFacts
<1>3. \A j \in Jobs :
        /\ job'[j].state = job[j].state
        /\ job'[j].due = "later" => job[j].due = "later"
  <2>1. CASE job' = job
    BY <2>1
  <2>2. ASSUME NEW k \in Jobs, LeaseExpires(k) \/ BackoffElapses(k)
        PROVE  \A j \in Jobs :
                 /\ job'[j].state = job[j].state
                 /\ job'[j].due = "later" => job[j].due = "later"
    <3>1. \A j \in Jobs \ {k} : job'[j] = job[j]
      BY <1>2, <2>2 DEF LeaseExpires, BackoffElapses
    <3>2. job[k] \in JobRow
      BY <1>2
    <3>3. \/ job'[k] = [job[k] EXCEPT !.lease = "expired"]
          \/ job'[k] = [job[k] EXCEPT !.due = "reached"]
      BY <1>2, <2>2 DEF LeaseExpires, BackoffElapses
    <3>4. job'[k].state = job[k].state /\ (job'[k].due = "later" => job[k].due = "later")
      BY <3>2, <3>3 DEF JobRow
    <3> QED
      BY <3>1, <3>4
  <2>3. CASE \E x \in Events : HoldExpires(x) \/ RelayOverstays(x) \/ PublicationAges(x)
    BY <2>1, <2>3 DEF HoldExpires, RelayOverstays, PublicationAges, rows
  <2> QED
    BY <2>2, <2>3
<1>4. \A j \in Jobs :
        /\ (Ingestion(j).token)' = Ingestion(j).token
        /\ \/ (Ingestion(j).pub)' = Ingestion(j).pub
           \/ Ingestion(j).pub = "fresh" /\ (Ingestion(j).pub)' = "stale"
        /\ job'[j].state = "PENDING" /\ job'[j].due = "later" =>
              (Ingestion(j).avail)' = Ingestion(j).avail
  <2>1. CASE outbox' = outbox
    BY <2>1 DEF Ingestion
  <2>2. ASSUME NEW k \in Jobs, BackoffElapses(k)
        PROVE  \A j \in Jobs :
                 /\ (Ingestion(j).token)' = Ingestion(j).token
                 /\ (Ingestion(j).pub)' = Ingestion(j).pub
                 /\ job'[j].due = "later" => (Ingestion(j).avail)' = Ingestion(j).avail
    <3>1. /\ job' = [job EXCEPT ![k] = [@ EXCEPT !.due = "reached"]]
          /\ outbox' = [outbox EXCEPT ![<<k, "ingestion">>] = [@ EXCEPT !.avail = "reached"]]
      BY <2>2 DEF BackoffElapses
    <3>2. job'[k].due = "reached"
      BY <1>2, <3>1 DEF JobRow
    <3>3. Ingestion(k)' = [Ingestion(k) EXCEPT !.avail = "reached"]
      BY <1>2, <3>1 DEF Ingestion
    <3>4. (Ingestion(k).token)' = Ingestion(k).token /\ (Ingestion(k).pub)' = Ingestion(k).pub
      BY <1>2, <3>3 DEF EventRow
    <3>5. \A j \in Jobs \ {k} : Ingestion(j)' = Ingestion(j)
      BY <1>2, <3>1 DEF Ingestion
    <3> QED
      BY <3>2, <3>4, <3>5
  <2>3. ASSUME NEW x \in Events, HoldExpires(x) \/ RelayOverstays(x) \/ PublicationAges(x)
        PROVE  \A j \in Jobs :
                 /\ (Ingestion(j).token)' = Ingestion(j).token
                 /\ \/ (Ingestion(j).pub)' = Ingestion(j).pub
                    \/ Ingestion(j).pub = "fresh" /\ (Ingestion(j).pub)' = "stale"
                 /\ (Ingestion(j).avail)' = Ingestion(j).avail
    <3> SUFFICES ASSUME NEW j \in Jobs
                 PROVE  /\ (Ingestion(j).token)' = Ingestion(j).token
                        /\ \/ (Ingestion(j).pub)' = Ingestion(j).pub
                           \/ Ingestion(j).pub = "fresh" /\ (Ingestion(j).pub)' = "stale"
                        /\ (Ingestion(j).avail)' = Ingestion(j).avail
      OBVIOUS
    <3>1. CASE x # <<j, "ingestion">>
      BY <1>2, <2>3, <3>1 DEF HoldExpires, RelayOverstays, PublicationAges, Ingestion
    <3>2. CASE x = <<j, "ingestion">>
      <4>1. \/ Ingestion(j)' = [Ingestion(j) EXCEPT !.hold = "expired"]
            \/ Ingestion(j).pub = "fresh" /\ Ingestion(j)' = [Ingestion(j) EXCEPT !.pub = "stale"]
        BY <1>2, <2>3, <3>2 DEF HoldExpires, RelayOverstays, PublicationAges, Ingestion
      <4> QED
        BY <1>2, <4>1 DEF EventRow
    <3> QED
      BY <3>1, <3>2
  <2>4. ASSUME NEW k \in Jobs, LeaseExpires(k) PROVE outbox' = outbox
    BY <2>4 DEF LeaseExpires
  <2> QED
    BY <2>1, <2>2, <2>3, <2>4
<1>5. EventsExist'
  BY <1>3, <1>4 DEF RouteInv, EventsExist
<1>6. BackoffHeld'
  BY <1>3, <1>4 DEF RouteInv, BackoffHeld
<1>7. EntryJobs'
  BY <1>1, EntryJobsKept
<1>8. \A j \in Jobs : Announced(j)' => Announced(j)
  <2>1. \A j \in Jobs, v \in Workers : Relayed(j, v)' => Relayed(j, v)
    BY <1>1, <1>4 DEF Relayed
  <2> QED
    BY <1>4, <2>1 DEF Announced
<1> QED
  BY <1>1, <1>3, <1>5, <1>6, <1>7, <1>8, EnvironmentRoute

LEMMA ConfirmRoute ==
    ASSUME IInv, RouteInv, NEW j \in Jobs, Confirm(j)
    PROVE  RouteInv'
<1>1. /\ version[j] = "AWAITING_UPLOAD"
      /\ job' = [job EXCEPT ![j] = [@ EXCEPT !.state = "PENDING", !.due = "reached"]]
      /\ outbox' = [outbox EXCEPT ![<<j, "ingestion">>] = Enlist(@)]
      /\ UNCHANGED <<stream, worker, losses>>
  BY DEF Confirm, bounds
<1>2. /\ job \in [Jobs -> JobRow] /\ outbox \in [Events -> EventRow]
      /\ <<j, "ingestion">> \in Events /\ Ingestion(j) \in EventRow /\ None \notin Workers
  BY RouteFacts
<1>3. Ingestion(j).pub = "absent" /\ Ingestion(j).token = None
  BY <1>1, <1>2 DEF IInv, StateAgreement, Agrees, HeldExists, RouteInv, EventsExist, Ingestion
<1>4. (Ingestion(j).pub = "unpublished" /\ Ingestion(j).token = None)'
  <2>1. Ingestion(j)' = [Ingestion(j) EXCEPT !.pub = "unpublished", !.avail = "reached"]
    BY <1>1, <1>2, <1>3 DEF Ingestion, Enlist
  <2> QED
    BY <1>2, <1>3, <2>1 DEF EventRow
<1>5. job'[j].state = "PENDING" /\ job'[j].due = "reached"
  BY <1>1, <1>2 DEF JobRow
<1>6. \A k \in Jobs \ {j} : job'[k] = job[k] /\ Ingestion(k)' = Ingestion(k)
  BY <1>1, <1>2 DEF Ingestion
<1>7. EventsExist'
  BY <1>4, <1>5, <1>6 DEF RouteInv, EventsExist
<1>8. BackoffHeld'
  BY <1>5, <1>6 DEF RouteInv, BackoffHeld
<1>9. EntryJobs'
  BY <1>1, EntryJobsKept
<1>10. RoutedAt(j)'
  BY <1>2, <1>4 DEF RoutedAt, Announced, Relayed
<1>11. ASSUME NEW k \in Jobs \ {j} PROVE RoutedAt(k)'
  <2>1. \A v \in Workers : Relayed(k, v)' => Relayed(k, v)
    BY <1>1, <1>6 DEF Relayed
  <2>2. Announced(k)' => Announced(k)
    BY <1>6, <2>1 DEF Announced
  <2>3. k \in Jobs /\ job'[k] = job[k]
    BY <1>6
  <2>4. \A e \in EntryIds : Lasting(e, k) => stream'[e].state # "absent" /\ stream'[e].job = k
    BY <1>1 DEF Lasting
  <2>5. \A v \in Workers \ {None} : worker'[v] = worker[v]
    BY <1>1
  <2> QED
    BY <1>1, <1>2, <2>2, <2>3, <2>4, <2>5, RouteKept DEF Unfinished
<1> QED
  BY <1>7, <1>8, <1>9, <1>10, <1>11 DEF RouteInv, Routed

LEMMA NextRoute == IInv /\ RouteInv /\ [Next]_vars => RouteInv'
<1> SUFFICES ASSUME IInv, RouteInv, [Next]_vars PROVE RouteInv'
  OBVIOUS
<1>1. ASSUME NEW w \in Workers, Step(w) PROVE RouteInv'
  <2>1. CASE Reconcile(w)
    BY <2>1, ReconcileRoute
  <2>2. CASE \E x \in Events : LeaseEvent(w, x)
    BY <2>2, LeaseEventRoute
  <2>3. CASE PublishDelivery(w)
    BY <2>3, PublishDeliveryRoute
  <2>4. CASE MarkPublished(w)
    BY <2>4, MarkPublishedRoute
  <2>5. CASE \E e \in EntryIds : Reclaim(w, e) \/ ReadNew(w, e)
    BY <2>5, DeliverRoute
  <2>6. CASE ClaimTaken(w)
    BY <2>6, ClaimTakenRoute
  <2>7. CASE ClaimExhausted(w) \/ PersistSuccess(w) \/ PersistFailure(w)
    BY <2>7, TerminalRoute
  <2>8. CASE PersistRetry(w)
    BY <2>8, PersistRetryRoute
  <2>9. CASE \/ NothingToPublish(w) \/ PublishDeadLetter(w) \/ NothingToConsume(w)
             \/ RejectEnvelope(w) \/ ClaimIgnored(w) \/ Work(w) \/ StaleSuccess(w) \/ StaleFailure(w)
             \/ CheckAcknowledgeable(w) \/ Acknowledge(w)
    BY <2>9, QuietWorkerRoute
  <2> QED
    BY <1>1, <2>1, <2>2, <2>3, <2>4, <2>5, <2>6, <2>7, <2>8, <2>9 DEF Step
<1>2. CASE \E j \in Jobs : Confirm(j)
  BY <1>2, ConfirmRoute
<1>3. CASE Time
  BY <1>3, ClockRoute, StreamRoute DEF Time
<1>4. CASE Failures
  BY <1>4, ClockRoute, StreamRoute, QuietWorkerRoute DEF Failures
<1>5. CASE UNCHANGED vars
  BY <1>5 DEF vars, RouteInv, EventsExist, BackoffHeld, EntryJobs, Routed, RoutedAt, Lasting,
              Endangers, Announced, Relayed, Unfinished, Ingestion
<1> QED
  BY <1>1, <1>2, <1>3, <1>4, <1>5 DEF Next

LEMMA InitRoute == Init => RouteInv
<1> SUFFICES ASSUME Init PROVE RouteInv
  OBVIOUS
<1>1. \A j \in Jobs : <<j, "ingestion">> \in Events
  BY DEF Events, Kinds
<1>2. \A j \in Jobs : job[j].state = "ABSENT" /\ Ingestion(j).pub = "absent"
  BY <1>1 DEF Init, Ingestion, NoEvent
<1>3. EntryJobs
  BY DEF Init, EntryJobs, AtTick
<1> QED
  BY <1>2, <1>3 DEF RouteInv, EventsExist, BackoffHeld, Routed, RoutedAt, Unfinished

\* The event of an unfinished job exists, so it is unpublished or announced.
LEMMA RoutedDelivered == IInv /\ RouteInv => DeliveryRoute
<1> SUFFICES ASSUME IInv, RouteInv, losses = 0, NEW j \in Jobs, Unfinished(j)
             PROVE  \/ Ingestion(j).pub = "unpublished"
                    \/ \E e \in EntryIds : stream[e].state # "absent" /\ stream[e].job = j
  BY DEF DeliveryRoute, Unfinished, Ingestion
<1>1. Ingestion(j).pub \in {"unpublished", "fresh", "stale"}
  BY RouteFacts DEF RouteInv, EventsExist, Unfinished, EventRow
<1>2. CASE Ingestion(j).pub \in {"fresh", "stale"}
  <2>1. \E e \in EntryIds : Lasting(e, j)
    BY <1>2 DEF RouteInv, Routed, RoutedAt, Announced
  <2> QED
    BY <2>1 DEF Lasting
<1> QED
  BY <1>1, <1>2

\* As long as Redis has lost nothing, an unfinished job is never forgotten:
\* publish_one adds the delivery before it marks the event, consume_one and
\* acknowledge remove it only for a job that is finished or behind a new
\* backoff, and a crash, a slow relay or a second delivery between any two of
\* those steps leaves one of the two routes open.
THEOREM DeliveryRouteHolds == Spec => []DeliveryRoute
<1>1. Spec => []IInv
  BY Inductive
<1>2. Spec => []RouteInv
  BY <1>1, InitRoute, NextRoute, PTL DEF Spec
<1> QED
  BY <1>1, <1>2, RoutedDelivered, PTL
=============================================================================
