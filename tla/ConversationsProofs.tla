------------------------ MODULE ConversationsProofs ------------------------
(***************************************************************************)
(* Proofs about one conversation, for any number of messages, faults and   *)
(* corpora, and any keys, topics and phrases.                              *)
(***************************************************************************)
EXTENDS Conversations, WellFoundedInduction, TLAPS

\* What a row says by itself, whatever its task did: its answer and its
\* failure are written with its state, and what it asks is known.
Unresolved(r) == r.kind = "followup" /\ r.query = None

RowSound(r) ==
    /\ r.state # "absent" => r.question # None
    /\ r.evidence \subseteq {r.corpus}
    /\ r.cited \subseteq r.evidence
    /\ r.state = "completed" <=> r.mode # None
    /\ r.state = "failed" <=> r.code # None
    /\ r.mode = "factual" => r.cited # {}
    /\ r.mode \in {None, "abstain"} => r.cited = {}
    /\ Unresolved(r) => r.mode \in {None, "clarify"}
    /\ r.state # "absent" /\ r.query = None /\ ~ Unresolved(r) => r.question \in Topics

\* Rows are accepted in order, and only the newest can still be pending.
Placed(m) ==
    /\ m >= next <=> msgs[m].state = "absent"
    /\ m >= next => msgs[m] = NoMessage /\ run[m] = NoTask /\ calls[m] = 0
    /\ msgs[m].state = "pending" => m = next - 1

\* What a task of a row carries, whether it is waited for or abandoned: it
\* searched the row's corpus, and an unresolved follow-up is only clarified.
Searching == Awaits \ {"request", "complete"}

TaskOK(r, t) ==
    /\ t.found \subseteq {r.corpus}
    /\ t.pc \in Searching => r.corpus # None /\ ~ Unresolved(r)
    /\ t.pc = "failing" => t.code # None
    /\ t.pc = "complete" => /\ t.mode # None
                            /\ t.mode = "factual" => t.cited # {}
                            /\ t.mode = "abstain" => t.cited = {}
                            /\ Unresolved(r) => t.mode = "clarify"

\* The model has not been asked before the task has passed that step.
Unasked == {"none", "request", "authorize", "embed", "retrieve", "read", "save", "generate"}

CallsOK(r, t, n) ==
    /\ n <= 1
    /\ t.pc \in Unasked => n = 0
    /\ Unresolved(r) => n = 0

MessageOK(m) ==
    /\ Placed(m)
    /\ RowSound(msgs[m])
    /\ TaskOK(msgs[m], run[m])
    /\ m < next => run[m].pc # "none"
    /\ CallsOK(msgs[m], run[m], calls[m])

ThreadsOK ==
    \A x \in threads : x.message < next /\ TaskOK(msgs[x.message], x.task)

\* The inductive invariant.  Grounded says nothing of the drafts that tasks
\* and abandoned transactions still carry: TaskOK does.
ConversationInv ==
    /\ TypeOK
    /\ \A m \in Positions : MessageOK(m)
    /\ ThreadsOK

USE ConversationAssumption DEF Positions

LEMMA InitConversationInv == Init => ConversationInv
<1> SUFFICES ASSUME Init PROVE ConversationInv
  OBVIOUS
<1>1. NoMessage \in MessageRow /\ NoTask \in Task
  BY DEF NoMessage, MessageRow, NoTask, Task
<1>2. TypeOK
  BY <1>1 DEF Init, TypeOK
<1>3. ASSUME NEW m \in Positions PROVE MessageOK(m)
  <2>1. msgs[m] = NoMessage /\ run[m] = NoTask /\ calls[m] = 0 /\ next = 1
    BY DEF Init
  <2>2. RowSound(NoMessage)
    BY DEF RowSound, NoMessage, Unresolved, Modes
  <2>3. TaskOK(NoMessage, NoTask) /\ CallsOK(NoMessage, NoTask, 0)
    BY DEF TaskOK, CallsOK, Unresolved, NoMessage, NoTask, Searching, Awaits, Unasked
  <2>4. Placed(m)
    BY <2>1 DEF Placed, NoMessage
  <2> QED
    BY <2>1, <2>2, <2>3, <2>4 DEF MessageOK
<1>4. ThreadsOK
  BY DEF Init, ThreadsOK
<1> QED
  BY <1>2, <1>3, <1>4 DEF ConversationInv

\* What a step may do to a row that exists: everything but its question.
SameQuestion(r, s) ==
    /\ r.state # "absent" /\ s.state # "absent"
    /\ r.kind = s.kind /\ r.query = s.query
    /\ r.corpus = s.corpus /\ r.question = s.question

\* A step about one message that exists: its row, its task, its count, and
\* the transaction that its task may have abandoned.
LEMMA OneMessageMoves ==
    ASSUME ConversationInv, NEW m \in Positions,
           NEW r \in MessageRow, NEW t \in Task, NEW n \in Nat,
           msgs' = [msgs EXCEPT ![m] = r],
           run' = [run EXCEPT ![m] = t],
           calls' = [calls EXCEPT ![m] = n],
           threads' \subseteq threads \cup {[message |-> m, task |-> run[m]]},
           UNCHANGED <<next, member, active>>, lapsed' \subseteq Positions,
           faults' \in 0 .. MaxFaults,
           SameQuestion(msgs[m], r),
           r.state = "pending" => msgs[m].state = "pending",
           RowSound(r), t.pc # "none", TaskOK(r, t), CallsOK(r, t, n)
    PROVE  ConversationInv'
<1>1. TypeOK
  BY DEF ConversationInv
<1>2. TypeOK'
  BY <1>1 DEF TypeOK, Thread
<1>3. ASSUME NEW u \in Positions PROVE MessageOK(u)'
  <2>1. CASE u = m
    <3>1. msgs'[m] = r /\ run'[m] = t /\ calls'[m] = n /\ next' = next
      BY <1>1 DEF TypeOK
    <3>2. Placed(m)'
      BY <3>1 DEF ConversationInv, MessageOK, Placed, SameQuestion
    <3> QED
      BY <2>1, <3>1, <3>2 DEF MessageOK
  <2>2. CASE u # m
    <3>1. msgs'[u] = msgs[u] /\ run'[u] = run[u] /\ calls'[u] = calls[u] /\ next' = next
      BY <1>1, <2>2 DEF TypeOK
    <3> QED
      BY <3>1 DEF ConversationInv, MessageOK, Placed
  <2> QED
    BY <2>1, <2>2
<1>4. ThreadsOK'
  <2> SUFFICES ASSUME NEW x \in threads'
               PROVE  x.message < next' /\ TaskOK(msgs'[x.message], x.task)
    BY DEF ThreadsOK
  <2>1. x.message \in Positions /\ x.message < next /\ TaskOK(msgs[x.message], x.task)
    BY <1>1 DEF ConversationInv, ThreadsOK, TypeOK, Thread, MessageOK, Placed, SameQuestion
  <2>2. CASE x.message = m
    <3>1. msgs'[x.message] = r /\ next' = next
      BY <1>1, <2>2 DEF TypeOK
    <3> QED
      BY <2>1, <2>2, <3>1 DEF TaskOK, SameQuestion, Unresolved
  <2>3. CASE x.message # m
    BY <1>1, <2>1, <2>3 DEF TypeOK
  <2> QED
    BY <2>2, <2>3
<1> QED
  BY <1>2, <1>3, <1>4 DEF ConversationInv

LEMMA OneMessage ==
    ASSUME ConversationInv, NEW m \in Positions,
           NEW r \in MessageRow, NEW t \in Task, NEW n \in Nat,
           msgs' = [msgs EXCEPT ![m] = r],
           run' = [run EXCEPT ![m] = t],
           calls' = [calls EXCEPT ![m] = n],
           threads' \subseteq threads \cup {[message |-> m, task |-> run[m]]},
           UNCHANGED <<next, course>>, faults' \in 0 .. MaxFaults,
           SameQuestion(msgs[m], r),
           r.state = "pending" => msgs[m].state = "pending",
           RowSound(r), t.pc # "none", TaskOK(r, t), CallsOK(r, t, n)
    PROVE  ConversationInv'
<1>1. UNCHANGED <<next, member, active>> /\ lapsed' \subseteq Positions
  BY DEF course, ConversationInv, TypeOK
<1> QED
  BY <1>1, OneMessageMoves

-----------------------------------------------------------------------------
(* Expiry and acceptance.                                                  *)

\* A failed row says so and nothing else changes in it.
LEMMA FailedSound ==
    ASSUME NEW r \in MessageRow, r.state = "pending", RowSound(r), NEW code \in Codes
    PROVE  /\ Failed(r, code) \in MessageRow
           /\ Failed(r, code).state = "failed"
           /\ Failed(r, code).cited = {}
           /\ SameQuestion(r, Failed(r, code))
           /\ RowSound(Failed(r, code))
<1>1. code # None
  BY DEF Codes
<1> QED
  BY <1>1 DEF Failed, MessageRow, SameQuestion, RowSound, Unresolved

\* What the statement at the head of every request leaves: no row changes its
\* place or its question, none becomes pending.
LEMMA ExpiredOK ==
    ASSUME ConversationInv
    PROVE  /\ Expired \in [Positions -> MessageRow]
           /\ \A m \in Positions :
                /\ Expired[m].state = "absent" <=> msgs[m].state = "absent"
                /\ msgs[m].state = "absent" => Expired[m] = msgs[m]
                /\ msgs[m].state # "absent" => SameQuestion(msgs[m], Expired[m])
                /\ Expired[m].state = "pending" => msgs[m].state = "pending"
                /\ RowSound(Expired[m])
<1>1. /\ msgs \in [Positions -> MessageRow]
      /\ \A m \in Positions : RowSound(msgs[m])
  BY DEF ConversationInv, TypeOK, MessageOK
<1>2. "PROCESSING_INTERRUPTED" \in Codes
  BY DEF Codes
<1> SUFFICES ASSUME NEW m \in Positions
             PROVE  /\ Expired[m] \in MessageRow
                    /\ Expired[m].state = "absent" <=> msgs[m].state = "absent"
                    /\ msgs[m].state = "absent" => Expired[m] = msgs[m]
                    /\ msgs[m].state # "absent" => SameQuestion(msgs[m], Expired[m])
                    /\ Expired[m].state = "pending" => msgs[m].state = "pending"
                    /\ RowSound(Expired[m])
  BY DEF Expired
<1>3. CASE Expirable(m)
  <2>1. Expired[m] = Failed(msgs[m], "PROCESSING_INTERRUPTED")
    BY <1>3 DEF Expired
  <2> QED
    BY <1>1, <1>2, <1>3, <2>1, FailedSound DEF Expirable
<1>4. CASE ~ Expirable(m)
  <2>1. Expired[m] = msgs[m]
    BY <1>4 DEF Expired
  <2> QED
    BY <1>1, <2>1 DEF SameQuestion
<1> QED
  BY <1>3, <1>4

LEMMA SweepStep ==
    ASSUME ConversationInv, msgs' = Expired,
           UNCHANGED <<next, run, threads, calls, course, faults>>
    PROVE  ConversationInv'
<1>1. TypeOK'
  BY ExpiredOK DEF ConversationInv, TypeOK, course
<1>2. ASSUME NEW m \in Positions PROVE MessageOK(m)'
  <2>1. MessageOK(m) /\ msgs'[m] = Expired[m] /\ RowSound(Expired[m])
    BY ExpiredOK DEF ConversationInv
  <2>2. TaskOK(Expired[m], run[m]) /\ CallsOK(Expired[m], run[m], calls[m])
    BY <2>1, ExpiredOK DEF MessageOK, TaskOK, CallsOK, SameQuestion, Unresolved
  <2>3. Placed(m)'
    BY <2>1, ExpiredOK DEF MessageOK, Placed
  <2> QED
    BY <2>1, <2>2, <2>3 DEF MessageOK
<1>3. ThreadsOK'
  <2> SUFFICES ASSUME NEW x \in threads
               PROVE  x.message < next /\ TaskOK(Expired[x.message], x.task)
    BY DEF ThreadsOK
  <2>1. x.message \in Positions /\ x.message < next /\ TaskOK(msgs[x.message], x.task)
    BY DEF ConversationInv, ThreadsOK, TypeOK, Thread
  <2>2. SameQuestion(msgs[x.message], Expired[x.message])
    BY <2>1, ExpiredOK DEF ConversationInv, MessageOK, Placed, TypeOK
  <2> QED
    BY <2>1, <2>2 DEF TaskOK, SameQuestion, Unresolved
<1> QED
  BY <1>1, <1>2, <1>3 DEF ConversationInv

\* A nonempty set of positions has a last one.
LEMMA HasLast ==
    ASSUME NEW S, S \subseteq Positions, S # {}
    PROVE  \E m \in S : \A n \in S : n <= m
<1> DEFINE T == {MaxMessages - m : m \in S}
<1>1. T \subseteq Nat /\ T # {}
  <2>1. \A m \in S : m \in 1 .. MaxMessages
    OBVIOUS
  <2>2. \A m \in 1 .. MaxMessages : MaxMessages - m \in Nat
    OBVIOUS
  <2> QED
    BY <2>1, <2>2
<1>2. PICK x \in T : \A y \in T : ~ (<<y, x>> \in OpToRel(<, Nat))
  <2> HIDE DEF T
  <2> QED
    BY <1>1, WFMin, NatLessThanWellFounded
<1>3. PICK m \in S : x = MaxMessages - m
  BY <1>2
<1>4. \A n \in S : n <= m
  <2> SUFFICES ASSUME NEW n \in S PROVE n <= m
    OBVIOUS
  <2>1. MaxMessages - n \in Nat /\ MaxMessages - m \in Nat /\ MaxMessages - n \in T
    BY <1>1
  <2>2. ~ (MaxMessages - n < MaxMessages - m)
    BY <1>2, <1>3, <2>1 DEF OpToRel
  <2> QED
    BY <2>2
<1> QED
  BY <1>4

\* The query of a follow-up or an action is a question of this conversation,
\* or nothing.
LEMMA FollowUpOK ==
    ASSUME ConversationInv
    PROVE  \/ FollowUpQuery(Expired) = None
           \/ \E n \in Positions : /\ Expired[n].state = "completed"
                                   /\ Expired[n].mode \notin {"abstain", "clarify"}
                                   /\ FollowUpQuery(Expired) = QueryOf(Expired[n])
<1> DEFINE done == Completed(Expired)
<1>1. CASE done = {}
  BY <1>1 DEF FollowUpQuery
<1>2. CASE done # {}
  <2>1. done \subseteq Positions
    BY DEF Completed
  <2>2. PICK n \in done : n = CHOOSE m \in done : \A u \in done : u <= m
    <3> HIDE DEF done
    <3> QED
      BY <1>2, <2>1, HasLast
  <2>3. n \in Positions /\ Expired[n].state = "completed"
    BY DEF Completed
  <2>4. FollowUpQuery(Expired) =
          IF Expired[n].mode \in {"abstain", "clarify"} THEN None ELSE QueryOf(Expired[n])
    BY <1>2, <2>2 DEF FollowUpQuery
  <2> QED
    BY <2>3, <2>4
<1> QED
  BY <1>1, <1>2

LEMMA DerivedOK ==
    ASSUME ConversationInv, NEW q \in Questions,
           NEW kind \in {"question", "followup", "action"}, NEW parent,
           kind = "action" => parent \in Positions /\ Expired[parent].state = "completed"
    PROVE  /\ DerivedQuery(Expired, q, kind, parent) \in Questions \cup {None}
           /\ kind = "action" => DerivedQuery(Expired, q, kind, parent) # None
<1>1. ASSUME NEW n \in Positions, Expired[n].state = "completed"
      PROVE  QueryOf(Expired[n]) \in Questions
  <2>1. Expired[n] \in MessageRow /\ RowSound(Expired[n])
    BY ExpiredOK
  <2> QED
    BY <1>1, <2>1 DEF QueryOf, RowSound, MessageRow
<1>2. FollowUpQuery(Expired) \in Questions \cup {None}
  BY <1>1, FollowUpOK
<1> QED
  BY <1>1, <1>2 DEF DerivedQuery

Asked(k, q, kind, parent) ==
    [NoMessage EXCEPT !.state = "pending",
                      !.key = k,
                      !.question = q,
                      !.kind = TurnKind(q, kind),
                      !.query = DerivedQuery(Expired, q, kind, parent),
                      !.corpus = active]

LEMMA AskedFields ==
    ASSUME NEW k, NEW q, NEW kind, NEW parent
    PROVE  LET r == Asked(k, q, kind, parent) IN
           /\ r.state = "pending" /\ r.question = q /\ r.kind = TurnKind(q, kind)
           /\ r.query = DerivedQuery(Expired, q, kind, parent)
           /\ r.evidence = {} /\ r.cited = {} /\ r.mode = None /\ r.code = None
BY DEF Asked, NoMessage

LEMMA AskedOK ==
    ASSUME ConversationInv, NEW k \in Keys, NEW q \in Questions,
           NEW kind \in {"question", "followup", "action"}, NEW parent,
           kind = "action" => parent \in Positions /\ Expired[parent].state = "completed"
    PROVE  /\ Asked(k, q, kind, parent) \in MessageRow
           /\ Asked(k, q, kind, parent).state = "pending"
           /\ RowSound(Asked(k, q, kind, parent))
<1> DEFINE r == Asked(k, q, kind, parent)
           query == DerivedQuery(Expired, q, kind, parent)
<1>1. query \in Questions \cup {None} /\ (kind = "action" => query # None)
  BY DerivedOK
<1>2. TurnKind(q, kind) \in {"question", "followup", "action"}
  BY DEF TurnKind
<1>3. active \in Corpora \cup {None}
  BY DEF ConversationInv, TypeOK
<1>4. /\ r.state = "pending" /\ r.question = q /\ r.kind = TurnKind(q, kind)
      /\ r.query = query
      /\ r.evidence = {} /\ r.cited = {} /\ r.mode = None /\ r.code = None
  BY AskedFields
<1>5. r \in MessageRow
  <2>1. NoMessage \in MessageRow
    BY DEF NoMessage, MessageRow
  <2> QED
    BY <1>1, <1>2, <1>3, <2>1 DEF Asked, MessageRow
<1> HIDE DEF r, query
<1>6. r.query = None /\ ~ Unresolved(r) => r.question \in Topics
  BY <1>1, <1>4 DEF Unresolved, TurnKind, Questions
<1>7. RowSound(r)
  BY <1>4, <1>6 DEF RowSound, Modes, Questions
<1> QED
  BY <1>4, <1>5, <1>7 DEF r

LEMMA AcceptStep ==
    ASSUME ConversationInv, NEW k \in Keys, NEW q \in Questions,
           NEW kind \in {"question", "followup", "action"}, NEW parent,
           kind = "action" => parent \in Positions,
           Accept(k, q, kind, parent)
    PROVE  ConversationInv'
<1> DEFINE r == Asked(k, q, kind, parent)
           t == [NoTask EXCEPT !.pc = "request"]
<1>1. r \in MessageRow /\ r.state = "pending" /\ RowSound(r)
  BY AskedOK DEF Accept
<1>2. /\ msgs' = [Expired EXCEPT ![next] = r]
      /\ run' = [run EXCEPT ![next] = t]
      /\ next \in Positions /\ next' = next + 1
      /\ UNCHANGED <<threads, calls, course, faults>>
  BY DEF Accept, Asked, Start
<1>3. \A m \in Positions : Expired[m].state # "pending"
  BY DEF Accept, Busy
<1>4. t \in Task /\ t.pc = "request" /\ t.found = {}
  BY DEF Task, NoTask, Awaits
<1> HIDE DEF r, t
<1>5. TypeOK'
  <2>1. TypeOK
    BY DEF ConversationInv
  <2>2. msgs' \in [Positions -> MessageRow] /\ run' \in [Positions -> Task]
    BY <1>1, <1>2, <1>4, <2>1, ExpiredOK DEF TypeOK
  <2> QED
    BY <1>2, <2>1, <2>2 DEF TypeOK, course
<1>6. ASSUME NEW m \in Positions PROVE MessageOK(m)'
  <2>1. MessageOK(m) /\ TypeOK
    BY DEF ConversationInv
  <2>2. CASE m = next
    <3>1. msgs'[m] = r /\ run'[m] = t /\ calls'[m] = 0
      BY <1>2, <2>1, <2>2, ExpiredOK DEF TypeOK, MessageOK, Placed
    <3>2. TaskOK(r, t) /\ CallsOK(r, t, 0)
      BY <1>4 DEF TaskOK, CallsOK, Searching, Awaits, Unasked
    <3>3. Placed(m)'
      BY <1>1, <1>2, <2>1, <2>2, <3>1 DEF Placed, TypeOK
    <3> QED
      BY <1>1, <1>4, <3>1, <3>2, <3>3 DEF MessageOK
  <2>3. CASE m # next
    <3>1. msgs'[m] = Expired[m] /\ run'[m] = run[m] /\ calls'[m] = calls[m]
      BY <1>2, <2>1, <2>3, ExpiredOK DEF TypeOK
    <3>2. RowSound(Expired[m]) /\ Expired[m].state # "pending"
      BY <1>3, ExpiredOK
    <3>3. TaskOK(Expired[m], run[m]) /\ CallsOK(Expired[m], run[m], calls[m])
      BY <2>1, ExpiredOK DEF MessageOK, TaskOK, CallsOK, SameQuestion, Unresolved
    <3>4. Placed(m)'
      BY <1>2, <2>1, <2>3, <3>1, <3>2, ExpiredOK DEF MessageOK, Placed, TypeOK
    <3>5. m < next' => run'[m].pc # "none"
      BY <1>2, <2>1, <2>3, <3>1 DEF MessageOK, TypeOK
    <3> QED
      BY <3>1, <3>2, <3>3, <3>4, <3>5 DEF MessageOK
  <2> QED
    BY <2>2, <2>3
<1>7. ThreadsOK'
  <2> SUFFICES ASSUME NEW x \in threads
               PROVE  x.message < next' /\ TaskOK(msgs'[x.message], x.task)
    BY <1>2 DEF ThreadsOK
  <2>1. x.message \in Positions /\ x.message < next /\ TaskOK(msgs[x.message], x.task)
    BY DEF ConversationInv, ThreadsOK, TypeOK, Thread
  <2>2. msgs[x.message].state # "absent"
    BY <2>1 DEF ConversationInv, MessageOK, Placed, TypeOK
  <2>3. SameQuestion(msgs[x.message], Expired[x.message])
    BY <2>1, <2>2, ExpiredOK
  <2>4. msgs'[x.message] = Expired[x.message] /\ x.message < next'
    BY <1>2, <2>1, ExpiredOK DEF ConversationInv, TypeOK
  <2> QED
    BY <2>1, <2>3, <2>4 DEF TaskOK, SameQuestion, Unresolved
<1> QED
  BY <1>5, <1>6, <1>7 DEF ConversationInv

-----------------------------------------------------------------------------
(* The pipeline and its interruptions.                                     *)

\* What the invariant says of a message that has a task.
LEMMA Worked ==
    ASSUME ConversationInv, NEW m \in Positions, run[m].pc # "none"
    PROVE  /\ msgs[m] \in MessageRow /\ run[m] \in Task /\ calls[m] \in Nat
           /\ msgs[m].state # "absent" /\ m < next
           /\ RowSound(msgs[m]) /\ TaskOK(msgs[m], run[m]) /\ CallsOK(msgs[m], run[m], calls[m])
BY DEF ConversationInv, MessageOK, Placed, TypeOK, NoTask

\* A step of a task that writes no row and asks nothing.
LEMMA TaskStep ==
    ASSUME ConversationInv, NEW m \in Positions, run[m].pc # "none",
           NEW t \in Task, t.pc # "none", TaskOK(msgs[m], t),
           t.pc \in Unasked => run[m].pc \in Unasked,
           run' = [run EXCEPT ![m] = t],
           threads' \subseteq threads \cup {[message |-> m, task |-> run[m]]},
           UNCHANGED <<rows, calls, course>>, faults' \in 0 .. MaxFaults
    PROVE  ConversationInv'
<1>1. /\ msgs[m] \in MessageRow /\ calls[m] \in Nat /\ RowSound(msgs[m])
      /\ SameQuestion(msgs[m], msgs[m]) /\ CallsOK(msgs[m], t, calls[m])
  BY Worked DEF SameQuestion, CallsOK
<1>2. /\ msgs' = [msgs EXCEPT ![m] = msgs[m]] /\ next' = next
      /\ calls' = [calls EXCEPT ![m] = calls[m]]
  BY DEF rows, ConversationInv, TypeOK
<1> QED
  BY <1>1, <1>2, OneMessage

\* Raising ends the search; what was found stays with the task.
LEMMA RaiseStep ==
    ASSUME ConversationInv, NEW m \in Positions, run[m].pc # "none",
           NEW code \in Codes, Raise(m, code),
           threads' \subseteq threads \cup {[message |-> m, task |-> run[m]]},
           UNCHANGED <<rows, calls, course>>, faults' \in 0 .. MaxFaults
    PROVE  ConversationInv'
<1> DEFINE t == [run[m] EXCEPT !.pc = "failing", !.code = code]
<1>1. run[m] \in Task /\ TaskOK(msgs[m], run[m])
  BY Worked
<1>2. t \in Task /\ t.pc = "failing" /\ t.code = code /\ t.found = run[m].found
  BY <1>1 DEF Task
<1>3. run' = [run EXCEPT ![m] = t]
  BY DEF Raise
<1> HIDE DEF t
<1>4. TaskOK(msgs[m], t)
  BY <1>1, <1>2 DEF TaskOK, Searching, Awaits
<1>5. t.pc \notin Unasked
  BY <1>2 DEF Unasked
<1> QED
  BY <1>2, <1>3, <1>4, <1>5, TaskStep

\* Going on, with the same findings.
LEMMA GoToStep ==
    ASSUME ConversationInv, NEW m \in Positions, run[m].pc \in Unasked \ {"none"},
           msgs[m].corpus # None, ~ Unresolved(msgs[m]),
           NEW pc \in Searching \cap Unasked, GoTo(m, pc),
           UNCHANGED <<rows, threads, calls, course, faults>>
    PROVE  ConversationInv'
<1> DEFINE t == [run[m] EXCEPT !.pc = pc]
<1>1. run[m] \in Task /\ TaskOK(msgs[m], run[m]) /\ run[m].pc # "none"
  BY Worked
<1>2. t \in Task /\ t.pc = pc /\ t.found = run[m].found
  BY <1>1 DEF Task, Searching
<1>3. run' = [run EXCEPT ![m] = t] /\ faults' \in 0 .. MaxFaults
  BY DEF GoTo, ConversationInv, TypeOK
<1> HIDE DEF t
<1>4. TaskOK(msgs[m], t) /\ t.pc # "none"
  BY <1>1, <1>2 DEF TaskOK, Searching, Awaits
<1> QED
  BY <1>1, <1>2, <1>3, <1>4, TaskStep

\* Drafting an answer that may be completed.
LEMMA DraftStep ==
    ASSUME ConversationInv, NEW m \in Positions, run[m].pc # "none",
           NEW mode \in Modes, NEW cited \in SUBSET Corpora,
           mode = "factual" => cited # {},
           mode = "abstain" => cited = {},
           Unresolved(msgs[m]) => mode = "clarify",
           Draft(m, mode, cited),
           UNCHANGED <<rows, threads, calls, course, faults>>
    PROVE  ConversationInv'
<1> DEFINE t == [run[m] EXCEPT !.pc = "complete", !.mode = mode, !.cited = cited]
<1>1. run[m] \in Task /\ TaskOK(msgs[m], run[m])
  BY Worked
<1>2. t \in Task /\ t.pc = "complete" /\ t.mode = mode /\ t.cited = cited /\ t.found = run[m].found
  BY <1>1 DEF Task, Awaits
<1>3. run' = [run EXCEPT ![m] = t] /\ faults' \in 0 .. MaxFaults
  BY DEF Draft, ConversationInv, TypeOK
<1> HIDE DEF t
<1>4. TaskOK(msgs[m], t)
  BY <1>1, <1>2 DEF TaskOK, Searching, Awaits
<1>5. t.pc \notin Unasked
  BY <1>2 DEF Unasked
<1> QED
  BY <1>2, <1>3, <1>4, <1>5, TaskStep

LEMMA SearchingSteps ==
    ASSUME ConversationInv, NEW m \in Positions,
           \/ RequestRefused(m) \/ Clarify(m) \/ Search(m)
           \/ Authorize(m) \/ Embed(m) \/ AuthorizeRead(m) \/ ReadChunks(m)
    PROVE  ConversationInv'
<1>0. threads \subseteq threads \cup {[message |-> m, task |-> run[m]]} /\ faults \in 0 .. MaxFaults
  BY DEF ConversationInv, TypeOK
<1>a. {"COURSE_CORPUS_NOT_READY", "RETRIEVAL_SCOPE_INVALID", "RETRIEVAL_UNAVAILABLE",
       "RETRIEVAL_INDEX_MISSING"} \subseteq Codes
  BY DEF Codes
<1>1. CASE RequestRefused(m)
  BY <1>0, <1>a, <1>1, RaiseStep DEF RequestRefused
<1>2. CASE Clarify(m)
  BY <1>2, DraftStep DEF Clarify, Modes
<1>3. CASE Search(m)
  <2>1. {"authorize", "retrieve"} \subseteq Searching \cap Unasked
    BY DEF Searching, Awaits, Unasked
  <2>2. run[m].pc \in Unasked \ {"none"} /\ ~ Unresolved(msgs[m])
    BY <1>3 DEF Search, Unasked, Ambiguous, Unresolved
  <2> QED
    BY <1>3, <2>1, <2>2, GoToStep DEF Search
<1>4. CASE Authorize(m) \/ Embed(m) \/ AuthorizeRead(m)
  <2>1. {"embed", "retrieve", "read"} \subseteq Searching \cap Unasked
    BY DEF Searching, Awaits, Unasked
  <2>2. run[m].pc \in (Unasked \ {"none"}) \cap Searching
    BY <1>4 DEF Authorize, Embed, AuthorizeRead, Unasked, Searching, Awaits
  <2>3. msgs[m].corpus # None /\ ~ Unresolved(msgs[m])
    BY <2>2, Worked DEF TaskOK
  <2>4. CASE Authorize(m)
    BY <1>0, <1>a, <2>1, <2>2, <2>3, <2>4, GoToStep, RaiseStep DEF Authorize
  <2>5. CASE Embed(m)
    BY <1>0, <1>a, <2>1, <2>2, <2>3, <2>5, GoToStep, RaiseStep DEF Embed
  <2>6. CASE AuthorizeRead(m)
    BY <1>0, <1>a, <2>1, <2>2, <2>3, <2>6, GoToStep, RaiseStep DEF AuthorizeRead
  <2> QED
    BY <1>4, <2>4, <2>5, <2>6
<1>5. CASE ReadChunks(m)
  <2>1. CASE Raise(m, "RETRIEVAL_INDEX_MISSING")
    BY <1>0, <1>a, <1>5, <2>1, RaiseStep DEF ReadChunks
  <2>2. CASE ~ Raise(m, "RETRIEVAL_INDEX_MISSING")
    <3>1. PICK found \in SUBSET {msgs[m].corpus} :
            run' = [run EXCEPT ![m] = [run[m] EXCEPT !.pc = "save", !.found = found]]
      BY <1>5, <2>2 DEF ReadChunks, ConversationInv, TypeOK
    <3> DEFINE t == [run[m] EXCEPT !.pc = "save", !.found = found]
    <3>2. /\ run[m] \in Task /\ TaskOK(msgs[m], run[m]) /\ msgs[m] \in MessageRow
          /\ run[m].pc = "read" /\ UNCHANGED <<rows, threads, calls, course, faults>>
      BY <1>5, Worked DEF ReadChunks
    <3>3. msgs[m].corpus # None /\ ~ Unresolved(msgs[m])
      BY <3>2 DEF TaskOK, Searching, Awaits
    <3>4. found \subseteq Corpora
      BY <3>2, <3>3 DEF MessageRow
    <3>5. t \in Task /\ t.pc = "save" /\ t.found = found
      BY <3>2, <3>4 DEF Task, Awaits
    <3> HIDE DEF t
    <3>6. TaskOK(msgs[m], t)
      BY <3>3, <3>5 DEF TaskOK, Searching, Awaits
    <3>7. run[m].pc \in Unasked
      BY <3>2 DEF Unasked
    <3> QED
      BY <1>0, <3>1, <3>2, <3>5, <3>6, <3>7, TaskStep DEF t
  <2> QED
    BY <2>1, <2>2
<1> QED
  BY <1>1, <1>2, <1>3, <1>4, <1>5

\* The three statements that write a row, from a task or a late thread.
LEMMA EvidenceRow ==
    ASSUME ConversationInv, NEW m \in Positions, NEW task \in Task, Pending(m),
           task.found \subseteq {msgs[m].corpus}
    PROVE  \E r \in MessageRow :
             /\ WithEvidence(m, task) = [msgs EXCEPT ![m] = r]
             /\ SameQuestion(msgs[m], r)
             /\ RowSound(r)
             /\ r.state = "pending"
<1> DEFINE r == [msgs[m] EXCEPT !.evidence = task.found]
<1>1. msgs[m] \in MessageRow /\ RowSound(msgs[m]) /\ msgs[m].state = "pending"
  BY DEF ConversationInv, TypeOK, MessageOK, Pending
<1>2. r \in MessageRow
  BY <1>1 DEF MessageRow, Task
<1>3. /\ r.state = "pending" /\ r.evidence = task.found /\ r.cited = msgs[m].cited
      /\ r.mode = msgs[m].mode /\ r.code = msgs[m].code
      /\ SameQuestion(msgs[m], r)
  BY <1>1 DEF MessageRow, SameQuestion
<1>4. WithEvidence(m, task) = [msgs EXCEPT ![m] = r]
  BY DEF WithEvidence, ConversationInv, TypeOK
<1> HIDE DEF r
<1>5. RowSound(r)
  BY <1>1, <1>3 DEF RowSound, SameQuestion, Unresolved
<1> QED
  BY <1>1, <1>2, <1>3, <1>4, <1>5

LEMMA AnswerRow ==
    ASSUME ConversationInv, NEW m \in Positions, NEW task \in Task, Pending(m),
           task.pc = "complete", TaskOK(msgs[m], task), Citable(m, task)
    PROVE  \E r \in MessageRow :
             /\ WithAnswer(m, task) = [msgs EXCEPT ![m] = r]
             /\ SameQuestion(msgs[m], r)
             /\ RowSound(r)
             /\ r.state = "completed"
<1> DEFINE r == [msgs[m] EXCEPT !.state = "completed", !.mode = task.mode, !.cited = task.cited]
<1>1. msgs[m] \in MessageRow /\ RowSound(msgs[m]) /\ msgs[m].state = "pending"
  BY DEF ConversationInv, TypeOK, MessageOK, Pending
<1>2. r \in MessageRow
  BY <1>1 DEF MessageRow, Task
<1>3. /\ r.state = "completed" /\ r.evidence = msgs[m].evidence /\ r.cited = task.cited
      /\ r.mode = task.mode /\ r.code = msgs[m].code
      /\ SameQuestion(msgs[m], r)
  BY <1>1 DEF MessageRow, SameQuestion
<1>4. WithAnswer(m, task) = [msgs EXCEPT ![m] = r]
  BY DEF WithAnswer, ConversationInv, TypeOK
<1> HIDE DEF r
<1>5. RowSound(r)
  BY <1>1, <1>3 DEF RowSound, SameQuestion, Unresolved, TaskOK, Citable
<1> QED
  BY <1>1, <1>2, <1>3, <1>4, <1>5

LEMMA FailureRow ==
    ASSUME ConversationInv, NEW m \in Positions, NEW task \in Task, msgs[m].state # "absent",
           task.pc = "failing", TaskOK(msgs[m], task)
    PROVE  \E r \in MessageRow :
             /\ WithFailure(m, task) = [msgs EXCEPT ![m] = r]
             /\ SameQuestion(msgs[m], r)
             /\ RowSound(r)
             /\ r.state # "pending"
<1>1. msgs \in [Positions -> MessageRow] /\ msgs[m] \in MessageRow /\ RowSound(msgs[m])
  BY DEF ConversationInv, TypeOK, MessageOK
<1>2. task.code \in Codes
  BY DEF Task, TaskOK
<1>3. CASE msgs[m].state = "pending"
  <2>1. WithFailure(m, task) = [msgs EXCEPT ![m] = Failed(msgs[m], task.code)]
    BY <1>1, <1>3 DEF WithFailure
  <2> QED
    BY <1>1, <1>2, <1>3, <2>1, FailedSound
<1>4. CASE msgs[m].state # "pending"
  <2>1. WithFailure(m, task) = [msgs EXCEPT ![m] = msgs[m]]
    BY <1>1, <1>4 DEF WithFailure
  <2> QED
    BY <1>1, <1>4, <2>1 DEF SameQuestion
<1> QED
  BY <1>3, <1>4

\* A task that ends: what it found goes with it.
LEMMA GoneOK == \A r \in MessageRow : TaskOK(r, Gone) /\ Gone \in Task /\ Gone.pc = "gone"
BY DEF Gone, NoTask, Task, TaskOK, Searching, Awaits

LEMMA SaveEvidenceStep ==
    ASSUME ConversationInv, NEW m \in Positions, SaveEvidence(m)
    PROVE  ConversationInv'
<1>1. /\ run[m] \in Task /\ calls[m] \in Nat /\ run[m].pc = "save"
      /\ TaskOK(msgs[m], run[m]) /\ CallsOK(msgs[m], run[m], calls[m])
  BY Worked DEF SaveEvidence
<1>2. PICK r \in MessageRow : /\ msgs' = [msgs EXCEPT ![m] = r]
                              /\ SameQuestion(msgs[m], r)
                              /\ RowSound(r)
                              /\ r.state = "pending"
  BY <1>1, EvidenceRow DEF SaveEvidence
<1>3. msgs[m].corpus # None /\ ~ Unresolved(msgs[m]) /\ calls[m] = 0
  BY <1>1 DEF TaskOK, CallsOK, Searching, Awaits, Unasked
<1>4. \E t \in Task : /\ run' = [run EXCEPT ![m] = t]
                      /\ t.found = run[m].found
                      /\ \/ t.pc = "generate"
                         \/ t.pc = "complete" /\ t.mode = "abstain" /\ t.cited = {}
  <2>1. CASE run[m].found # {}
    <3> DEFINE t == [run[m] EXCEPT !.pc = "generate"]
    <3>1. t \in Task /\ t.found = run[m].found /\ t.pc = "generate"
      BY <1>1 DEF Task, Awaits
    <3>2. run' = [run EXCEPT ![m] = t]
      BY <2>1 DEF SaveEvidence, GoTo
    <3> HIDE DEF t
    <3> QED
      BY <3>1, <3>2
  <2>2. CASE run[m].found = {}
    <3> DEFINE t == [run[m] EXCEPT !.pc = "complete", !.mode = "abstain", !.cited = {}]
    <3>1. /\ t \in Task /\ t.found = run[m].found /\ t.pc = "complete"
          /\ t.mode = "abstain" /\ t.cited = {}
      BY <1>1 DEF Task, Awaits, Modes
    <3>2. run' = [run EXCEPT ![m] = t]
      BY <2>2 DEF SaveEvidence, Draft
    <3> HIDE DEF t
    <3> QED
      BY <3>1, <3>2
  <2> QED
    BY <2>1, <2>2
<1>5. PICK t \in Task : /\ run' = [run EXCEPT ![m] = t]
                        /\ t.found = run[m].found
                        /\ \/ t.pc = "generate"
                           \/ t.pc = "complete" /\ t.mode = "abstain" /\ t.cited = {}
  BY <1>4
<1>6. TaskOK(r, t) /\ CallsOK(r, t, 0) /\ t.pc # "none"
  <2>1. ~ Unresolved(r) /\ r.corpus = msgs[m].corpus
    BY <1>2, <1>3 DEF SameQuestion, Unresolved
  <2>2. None # "abstain"
    BY DEF Modes
  <2> QED
    BY <1>1, <1>3, <1>5, <2>1, <2>2 DEF TaskOK, CallsOK
<1>7. calls' = [calls EXCEPT ![m] = 0] /\ faults' \in 0 .. MaxFaults
      /\ UNCHANGED <<next, threads, course>>
  BY <1>3 DEF SaveEvidence, ConversationInv, TypeOK
<1>8. msgs[m].state = "pending"
  BY DEF SaveEvidence, Pending
<1> QED
  BY <1>2, <1>5, <1>6, <1>7, <1>8, OneMessage

LEMMA GenerateStep ==
    ASSUME ConversationInv, NEW m \in Positions, Generate(m)
    PROVE  ConversationInv'
<1>1. /\ run[m] \in Task /\ run[m].pc = "generate" /\ msgs[m] \in MessageRow
      /\ TaskOK(msgs[m], run[m]) /\ CallsOK(msgs[m], run[m], calls[m])
      /\ RowSound(msgs[m]) /\ SameQuestion(msgs[m], msgs[m])
  BY Worked DEF Generate, SameQuestion
<1>2. calls[m] = 0 /\ ~ Unresolved(msgs[m])
  BY <1>1 DEF CallsOK, TaskOK, Unasked, Searching, Awaits
<1> DEFINE t == [run[m] EXCEPT !.pc = "answer"]
<1>3. t \in Task /\ t.pc = "answer" /\ t.found = run[m].found
  BY <1>1 DEF Task, Awaits
<1>4. /\ run' = [run EXCEPT ![m] = t] /\ calls' = [calls EXCEPT ![m] = 1]
      /\ msgs' = [msgs EXCEPT ![m] = msgs[m]] /\ faults' \in 0 .. MaxFaults
      /\ UNCHANGED <<next, threads, course>>
  <2>1. calls' = [calls EXCEPT ![m] = calls[m] + 1]
    BY DEF Generate
  <2> QED
    BY <1>2, <2>1 DEF Generate, GoTo, rows, ConversationInv, TypeOK
<1> HIDE DEF t
<1>5. TaskOK(msgs[m], t) /\ CallsOK(msgs[m], t, 1)
  BY <1>1, <1>2, <1>3 DEF TaskOK, CallsOK, Unasked, Searching, Awaits
<1> QED
  BY <1>1, <1>3, <1>4, <1>5, OneMessage

\* EvidenceResponseValidator decides what the model's draft may become.
LEMMA AnswerStep ==
    ASSUME ConversationInv, NEW m \in Positions,
           NEW structured \in BOOLEAN, NEW mode \in Modes, NEW cited \in SUBSET Corpora,
           NEW grounded \in BOOLEAN, Answer(m, structured, mode, cited, grounded)
    PROVE  ConversationInv'
<1>1. /\ TaskOK(msgs[m], run[m]) /\ run[m].pc = "answer"
      /\ UNCHANGED <<rows, threads, calls, course, faults>>
  BY Worked DEF Answer
<1>2. ~ Unresolved(msgs[m])
  BY <1>1 DEF TaskOK, Searching, Awaits
<1>3. CASE Valid(structured, mode, cited, grounded, run[m].found)
  <2>1. (mode = "factual" => cited # {}) /\ (mode = "abstain" => cited = {})
    BY <1>3 DEF Valid
  <2> QED
    BY <1>1, <1>2, <1>3, <2>1, DraftStep DEF Answer
<1>4. CASE ~ Valid(structured, mode, cited, grounded, run[m].found)
  <2>1. "MODEL_OUTPUT_INVALID" \in Codes /\ faults' \in 0 .. MaxFaults
    BY <1>1 DEF Codes, ConversationInv, TypeOK
  <2> QED
    BY <1>1, <1>4, <2>1, RaiseStep DEF Answer
<1> QED
  BY <1>3, <1>4

LEMMA CompleteStep ==
    ASSUME ConversationInv, NEW m \in Positions, Complete(m)
    PROVE  ConversationInv'
<1>1. /\ run[m] \in Task /\ run[m].pc = "complete" /\ calls[m] \in Nat
      /\ TaskOK(msgs[m], run[m]) /\ CallsOK(msgs[m], run[m], calls[m])
  BY Worked DEF Complete
<1>2. PICK r \in MessageRow : /\ msgs' = [msgs EXCEPT ![m] = r]
                              /\ SameQuestion(msgs[m], r)
                              /\ RowSound(r)
                              /\ r.state = "completed"
  BY <1>1, AnswerRow DEF Complete
<1>3. /\ run' = [run EXCEPT ![m] = Gone] /\ calls' = [calls EXCEPT ![m] = calls[m]]
      /\ UNCHANGED <<next, threads, course>> /\ faults' \in 0 .. MaxFaults
  BY DEF Complete, ConversationInv, TypeOK
<1>4. Gone \in Task /\ Gone.pc = "gone" /\ TaskOK(r, Gone) /\ CallsOK(r, Gone, calls[m])
  BY <1>1, <1>2, GoneOK DEF CallsOK, Unasked, SameQuestion, Unresolved
<1> QED
  BY <1>1, <1>2, <1>3, <1>4, OneMessage

LEMMA FailStep ==
    ASSUME ConversationInv, NEW m \in Positions, Fail(m)
    PROVE  ConversationInv'
<1>1. /\ run[m] \in Task /\ run[m].pc = "failing" /\ calls[m] \in Nat
      /\ msgs[m].state # "absent"
      /\ TaskOK(msgs[m], run[m]) /\ CallsOK(msgs[m], run[m], calls[m])
  BY Worked DEF Fail
<1>2. PICK r \in MessageRow : /\ msgs' = [msgs EXCEPT ![m] = r]
                              /\ SameQuestion(msgs[m], r)
                              /\ RowSound(r)
                              /\ r.state # "pending"
  BY <1>1, FailureRow DEF Fail
<1>3. /\ run' = [run EXCEPT ![m] = Gone] /\ calls' = [calls EXCEPT ![m] = calls[m]]
      /\ UNCHANGED <<next, threads, course>> /\ faults' \in 0 .. MaxFaults
  BY DEF Fail, ConversationInv, TypeOK
<1>4. Gone \in Task /\ Gone.pc = "gone" /\ TaskOK(r, Gone) /\ CallsOK(r, Gone, calls[m])
  BY <1>1, <1>2, GoneOK DEF CallsOK, Unasked, SameQuestion, Unresolved
<1> QED
  BY <1>1, <1>2, <1>3, <1>4, OneMessage

LEMMA InterruptionStep ==
    ASSUME ConversationInv, NEW m \in Positions,
           ModelNotConfigured(m) \/ ModelUnavailable(m) \/ TooLate(m) \/ Interruption(m)
    PROVE  ConversationInv'
<1>0. faults \in 0 .. MaxFaults /\ (faults < MaxFaults => faults + 1 \in 0 .. MaxFaults)
  BY DEF ConversationInv, TypeOK
<1>a. {"MODEL_NOT_CONFIGURED", "MODEL_UNAVAILABLE", "PROCESSING_INTERRUPTED",
       "PERSISTENCE_UNAVAILABLE", "INTERNAL_ERROR"} \subseteq Codes
  BY DEF Codes
<1>1. CASE ModelUnavailable(m)
  BY <1>0, <1>a, <1>1, RaiseStep DEF ModelUnavailable
<1>7. CASE ModelNotConfigured(m)
  BY <1>0, <1>a, <1>7, RaiseStep DEF ModelNotConfigured
<1>8. CASE UnexpectedError(m)
  BY <1>0, <1>a, <1>8, RaiseStep DEF UnexpectedError, Awaits
<1>2. CASE TooLate(m)
  BY <1>0, <1>a, <1>2, RaiseStep DEF TooLate
<1>3. CASE Timeout(m)
  BY <1>0, <1>a, <1>3, RaiseStep DEF Timeout, Awaits, Abandoned
<1>4. CASE Cancel(m)
  BY <1>0, <1>a, <1>4, RaiseStep DEF Cancel, Awaits, Abandoned
<1>5. CASE DatabaseError(m)
  BY <1>0, <1>a, <1>5, RaiseStep DEF DatabaseError, Abandoned
<1>6. CASE FailureLost(m)
  <2>1. msgs[m] \in MessageRow /\ run[m].pc = "failing"
    BY <1>6, Worked DEF FailureLost
  <2>2. Gone \in Task /\ Gone.pc \notin Unasked /\ Gone.pc # "none" /\ TaskOK(msgs[m], Gone)
    BY <2>1, GoneOK DEF Unasked
  <2> QED
    BY <1>0, <1>6, <2>1, <2>2, TaskStep DEF FailureLost, Abandoned
<1> QED
  BY <1>1, <1>2, <1>3, <1>4, <1>5, <1>6, <1>7, <1>8 DEF Interruption

LEMMA PipelineStep ==
    ASSUME ConversationInv, NEW m \in Positions, Pipeline(m)
    PROVE  ConversationInv'
BY SearchingSteps, SaveEvidenceStep, GenerateStep, AnswerStep, InterruptionStep, CompleteStep,
   FailStep DEF Pipeline

\* A late transaction of a task that is gone meets the row as it is now.
LEMMA ThreadCommitsStep ==
    ASSUME ConversationInv, NEW x \in threads, ThreadCommits(x)
    PROVE  ConversationInv'
<1> DEFINE m == x.message
<1>1. /\ m \in Positions /\ x.task \in Task /\ m < next /\ TaskOK(msgs[m], x.task)
  BY DEF ConversationInv, TypeOK, Thread, ThreadsOK
<1>2. MessageOK(m) /\ run[m] \in Task /\ calls[m] \in Nat
  BY <1>1 DEF ConversationInv, TypeOK
<1>3. msgs[m].state # "absent" /\ run[m].pc # "none"
  BY <1>1, <1>2 DEF MessageOK, Placed, ConversationInv, TypeOK
<1> HIDE DEF m
<1>4. \E r \in MessageRow : /\ msgs' = [msgs EXCEPT ![m] = r]
                            /\ SameQuestion(msgs[m], r)
                            /\ RowSound(r)
                            /\ r.state = "pending" => msgs[m].state = "pending"
  <2>1. CASE x.task.pc = "save" /\ Pending(m) /\ msgs' = WithEvidence(m, x.task)
    <3>1. x.task.found \subseteq {msgs[m].corpus}
      BY <1>1 DEF TaskOK
    <3> QED
      BY <1>1, <2>1, <3>1, EvidenceRow DEF Pending
  <2>2. CASE x.task.pc = "complete" /\ Pending(m) /\ Citable(m, x.task) /\ msgs' = WithAnswer(m, x.task)
    BY <1>1, <2>2, AnswerRow
  <2>3. CASE x.task.pc = "failing" /\ msgs' = WithFailure(m, x.task)
    BY <1>1, <1>3, <2>3, FailureRow
  <2> QED
    BY <2>1, <2>2, <2>3 DEF ThreadCommits, m
<1>5. PICK r \in MessageRow : /\ msgs' = [msgs EXCEPT ![m] = r]
                              /\ SameQuestion(msgs[m], r)
                              /\ RowSound(r)
                              /\ r.state = "pending" => msgs[m].state = "pending"
  BY <1>4
<1>6. TaskOK(r, run[m]) /\ CallsOK(r, run[m], calls[m])
  BY <1>2, <1>5 DEF MessageOK, TaskOK, CallsOK, SameQuestion, Unresolved
<1>7. /\ run' = [run EXCEPT ![m] = run[m]] /\ calls' = [calls EXCEPT ![m] = calls[m]]
      /\ threads' \subseteq threads \cup {[message |-> m, task |-> run[m]]}
      /\ UNCHANGED <<next, course>> /\ faults' \in 0 .. MaxFaults
  BY <1>1 DEF ThreadCommits, ConversationInv, TypeOK
<1> QED
  BY <1>1, <1>2, <1>3, <1>5, <1>6, <1>7, OneMessage

LEMMA DeadlineStep ==
    ASSUME ConversationInv, NEW m \in Positions, DeadlinePasses(m)
    PROVE  ConversationInv'
<1> DEFINE r == [msgs[m] EXCEPT !.overdue = "yes"]
<1>1. /\ MessageOK(m) /\ run[m] \in Task /\ calls[m] \in Nat
      /\ msgs[m] \in MessageRow /\ msgs[m].state = "pending"
  BY DEF ConversationInv, TypeOK, DeadlinePasses
<1>2. /\ r \in MessageRow /\ r.state = "pending" /\ SameQuestion(msgs[m], r)
      /\ r.evidence = msgs[m].evidence /\ r.cited = msgs[m].cited
      /\ r.mode = msgs[m].mode /\ r.code = msgs[m].code
  BY <1>1 DEF MessageRow, SameQuestion
<1>3. msgs' = [msgs EXCEPT ![m] = r]
  BY DEF DeadlinePasses
<1> HIDE DEF r
<1>4. RowSound(r) /\ TaskOK(r, run[m]) /\ CallsOK(r, run[m], calls[m])
  BY <1>1, <1>2 DEF MessageOK, RowSound, TaskOK, CallsOK, SameQuestion, Unresolved
<1>5. run[m].pc # "none"
  BY <1>1 DEF MessageOK, Placed, ConversationInv, TypeOK
<1>6. /\ run' = [run EXCEPT ![m] = run[m]] /\ calls' = [calls EXCEPT ![m] = calls[m]]
      /\ UNCHANGED <<next, threads, member, active>> /\ lapsed' \subseteq Positions
      /\ faults' \in 0 .. MaxFaults
  BY DEF DeadlinePasses, Lapse, ConversationInv, TypeOK
<1> QED
  BY <1>1, <1>2, <1>3, <1>4, <1>5, <1>6, OneMessageMoves

LEMMA CrashStep ==
    ASSUME ConversationInv, Crash
    PROVE  ConversationInv'
<1>1. TypeOK
  BY DEF ConversationInv
<1>2. NoTask \in Task /\ Gone \in Task
  BY DEF NoTask, Gone, Task
<1>3. TypeOK'
  BY <1>1, <1>2 DEF TypeOK, Crash, rows, course
<1>4. ASSUME NEW m \in Positions PROVE MessageOK(m)'
  <2>1. MessageOK(m) /\ msgs[m] \in MessageRow
    BY <1>1 DEF ConversationInv, TypeOK
  <2>2. run'[m] = IF run[m].pc = "none" THEN NoTask ELSE Gone
    BY DEF Crash
  <2>3. msgs' = msgs /\ next' = next /\ calls' = calls
    BY DEF Crash, rows
  <2>4. CASE run[m].pc = "none"
    <3>1. run'[m] = NoTask /\ m >= next
      BY <1>1, <2>1, <2>2, <2>4 DEF MessageOK, TypeOK
    <3>2. run[m] = NoTask
      BY <2>1, <3>1 DEF MessageOK, Placed
    <3> QED
      BY <2>1, <2>3, <3>1, <3>2 DEF MessageOK, Placed
  <2>5. CASE run[m].pc # "none"
    <3>1. run'[m] = Gone /\ m < next
      BY <2>2, <2>5, Worked
    <3>2. TaskOK(msgs[m], Gone) /\ Gone.pc = "gone" /\ CallsOK(msgs[m], Gone, calls[m])
      BY <2>1, GoneOK DEF MessageOK, CallsOK, Unasked
    <3>3. Placed(m)'
      BY <1>1, <2>1, <2>3, <3>1 DEF MessageOK, Placed, TypeOK
    <3> QED
      BY <2>1, <2>3, <3>1, <3>2, <3>3 DEF MessageOK
  <2> QED
    BY <2>4, <2>5
<1>5. ThreadsOK'
  BY DEF Crash, ThreadsOK
<1> QED
  BY <1>3, <1>4, <1>5 DEF ConversationInv

\* What the surroundings change is not part of any message.
LEMMA SurroundingsStep ==
    ASSUME ConversationInv, UNCHANGED <<rows, run, threads, calls, faults>>,
           member' \in {"yes", "no"}, active' \in Corpora \cup {None},
           lapsed' \subseteq Positions
    PROVE  ConversationInv'
<1>1. TypeOK'
  BY DEF ConversationInv, TypeOK, rows
<1>2. ASSUME NEW m \in Positions PROVE MessageOK(m)'
  BY DEF ConversationInv, MessageOK, Placed, rows
<1>3. ThreadsOK'
  BY DEF ConversationInv, ThreadsOK, rows
<1> QED
  BY <1>1, <1>2, <1>3 DEF ConversationInv

LEMMA RequestStep ==
    ASSUME ConversationInv, Request
    PROVE  ConversationInv'
<1>1. ASSUME NEW k \in Keys, NEW q \in Questions, NEW kind \in {"question", "followup"},
             Accept(k, q, kind, 0)
      PROVE  ConversationInv'
  BY <1>1, AcceptStep
<1>2. ASSUME NEW k \in Keys, NEW q \in Questions, NEW parent \in Positions,
             Accept(k, q, "action", parent)
      PROVE  ConversationInv'
  BY <1>2, AcceptStep
<1>3. ASSUME NEW m \in Positions, AcceptAgain(m) PROVE ConversationInv'
  BY <1>3, SweepStep DEF AcceptAgain, Start
<1> QED
  BY <1>1, <1>2, <1>3 DEF Request

LEMMA NextConversationInv == ConversationInv /\ [Next]_vars => ConversationInv'
<1> SUFFICES ASSUME ConversationInv, [Next]_vars PROVE ConversationInv'
  OBVIOUS
<1>1. CASE Sweep
  BY <1>1, SweepStep DEF Sweep
<1>2. CASE Revoke
  BY <1>2, SurroundingsStep DEF Revoke, Lapse, ConversationInv, TypeOK
<1>3. ASSUME NEW c \in Corpora, Activate(c) PROVE ConversationInv'
  BY <1>3, SurroundingsStep DEF Activate, ConversationInv, TypeOK
<1>4. CASE UNCHANGED vars
  BY <1>4, SurroundingsStep DEF vars, rows, course, ConversationInv, TypeOK
<1> QED
  BY <1>1, <1>2, <1>3, <1>4, RequestStep, PipelineStep, InterruptionStep, DeadlineStep,
     ThreadCommitsStep, CrashStep DEF Next

LEMMA Inductive == Spec => []ConversationInv
BY InitConversationInv, NextConversationInv, PTL DEF Spec

-----------------------------------------------------------------------------

\* Rows, tasks, abandoned transactions and counters keep their types.
THEOREM TypeCorrect == Spec => []TypeOK
<1>1. ConversationInv => TypeOK
  BY DEF ConversationInv
<1> QED
  BY <1>1, Inductive, PTL

\* Every answer rests on what was retrieved for its own message from the
\* corpus that its question was accepted with, through every late task and
\* abandoned transaction (save_evidence, complete, fk_citations_evidence).
THEOREM GroundedHolds == Spec => []Grounded
<1>1. ConversationInv => Grounded
  BY DEF ConversationInv, MessageOK, RowSound, Grounded
<1> QED
  BY <1>1, Inductive, PTL

\* TutorModel.generate is called at most once for a message, and never for a
\* follow-up that only needs a clarification.
THEOREM SingleCallHolds == Spec => []SingleCall
<1>1. ConversationInv => SingleCall
  BY DEF ConversationInv, MessageOK, CallsOK, Unresolved, Ambiguous, SingleCall
<1> QED
  BY <1>1, Inductive, PTL

-----------------------------------------------------------------------------
(* What a step does to the rows, whoever takes it.                         *)

Accepts ==
    \E k \in Keys, q \in Questions, kind \in {"question", "followup", "action"}, parent \in 0 .. MaxMessages :
       /\ kind = "action" => parent \in Positions
       /\ Accept(k, q, kind, parent)

Answers(m) ==
    /\ next' = next
    /\ \E task \in Task :
         /\ task.pc = "complete" /\ Pending(m)
         /\ TaskOK(msgs[m], task)
         /\ Citable(m, task)
         /\ msgs' = WithAnswer(m, task)

Fails(m) == next' = next /\ \E task \in Task : msgs' = WithFailure(m, task)

Prepares(m) ==
    /\ next' = next
    /\ \/ \E task \in Task : Pending(m) /\ msgs' = WithEvidence(m, task)
       \/ msgs[m].state = "pending" /\ msgs' = [msgs EXCEPT ![m] = [@ EXCEPT !.overdue = "yes"]]

Expires == next' = next /\ msgs' = Expired

LEMMA RowStep ==
    ASSUME ConversationInv, [Next]_vars
    PROVE  \/ UNCHANGED rows
           \/ Expires
           \/ Accepts
           \/ \E m \in Positions : Prepares(m) \/ Answers(m) \/ Fails(m)
<1>1. TypeOK
  BY DEF ConversationInv
<1>2. CASE Request
  <2>1. ASSUME NEW k \in Keys, NEW q \in Questions, NEW kind \in {"question", "followup"},
               Accept(k, q, kind, 0)
        PROVE  Accepts
    BY <2>1 DEF Accepts
  <2>2. ASSUME NEW k \in Keys, NEW q \in Questions, NEW parent \in Positions,
               Accept(k, q, "action", parent)
        PROVE  Accepts
    BY <2>2 DEF Accepts
  <2>3. ASSUME NEW m \in Positions, AcceptAgain(m) PROVE Expires
    BY <2>3 DEF AcceptAgain, Expires
  <2> QED
    BY <1>2, <2>1, <2>2, <2>3 DEF Request
<1>3. ASSUME NEW m \in Positions, Pipeline(m)
      PROVE  UNCHANGED rows \/ Prepares(m) \/ Answers(m) \/ Fails(m)
  <2>1. CASE SaveEvidence(m)
    BY <1>1, <2>1 DEF SaveEvidence, Prepares, TypeOK
  <2>2. CASE Complete(m)
    <3>1. run[m] \in Task /\ TaskOK(msgs[m], run[m])
      BY <2>2, Worked DEF Complete
    <3> QED
      BY <2>2, <3>1 DEF Complete, Answers
  <2>3. CASE Fail(m)
    BY <1>1, <2>3 DEF Fail, Fails, TypeOK
  <2> QED
    BY <1>3, <2>1, <2>2, <2>3 DEF Pipeline, RequestRefused, Clarify, Search, Authorize, Embed,
       AuthorizeRead, ReadChunks, ModelNotConfigured, Generate, Answer, ModelUnavailable, TooLate
<1>4. ASSUME NEW m \in Positions, Interruption(m) PROVE UNCHANGED rows
  BY <1>4 DEF Interruption, Timeout, Cancel, DatabaseError, UnexpectedError, FailureLost
<1>5. ASSUME NEW m \in Positions, DeadlinePasses(m) PROVE Prepares(m)
  BY <1>5 DEF DeadlinePasses, Prepares
<1>6. ASSUME NEW x \in threads, ThreadCommits(x)
      PROVE  \E m \in Positions : Prepares(m) \/ Answers(m) \/ Fails(m)
  <2>1. x.message \in Positions /\ x.task \in Task /\ TaskOK(msgs[x.message], x.task)
    BY <1>1 DEF ConversationInv, TypeOK, Thread, ThreadsOK
  <2> QED
    BY <1>6, <2>1 DEF ThreadCommits, Prepares, Answers, Fails
<1>7. CASE Sweep \/ Crash \/ Revoke \/ (\E c \in Corpora : Activate(c)) \/ UNCHANGED vars
  BY <1>7 DEF Sweep, Expires, Crash, Revoke, Activate, vars, rows
<1> QED
  BY <1>2, <1>3, <1>4, <1>5, <1>6, <1>7 DEF Next

\* What was asked, and what is completed, stays.
Keeps(seen, later) ==
    \A m \in Positions :
        /\ seen[m].state # "absent" => SameQuestion(seen[m], later[m])
        /\ seen[m].state = "completed" =>
             /\ later[m].state = "completed"
             /\ later[m].mode = seen[m].mode /\ later[m].cited = seen[m].cited

LEMMA ExpiredKeeps == ConversationInv => Keeps(msgs, Expired)
BY ExpiredOK DEF Keeps, Expired, Expirable

LEMMA StepKeeps ==
    ASSUME ConversationInv, [Next]_vars, ~ Accepts
    PROVE  /\ Keeps(msgs, msgs') /\ next' = next
           /\ \A m \in Positions : msgs[m].state = "absent" => msgs'[m] = msgs[m]
<1>1. msgs \in [Positions -> MessageRow]
  BY DEF ConversationInv, TypeOK
<1>2. CASE UNCHANGED rows
  BY <1>1, <1>2 DEF rows, Keeps, SameQuestion
<1>3. CASE Expires
  BY <1>3, ExpiredKeeps, ExpiredOK DEF Expires
<1>4. ASSUME NEW m \in Positions, NEW task \in Task, Pending(m),
             msgs' = WithEvidence(m, task) \/ msgs' = WithAnswer(m, task)
      PROVE  Keeps(msgs, msgs') /\ \A u \in Positions : msgs[u].state = "absent" => msgs'[u] = msgs[u]
  <2>1. msgs[m] \in MessageRow /\ msgs[m].state = "pending"
    BY <1>1, <1>4 DEF Pending
  <2>2. \A u \in Positions : u # m => msgs'[u] = msgs[u]
    BY <1>1, <1>4 DEF WithEvidence, WithAnswer
  <2>3. SameQuestion(msgs[m], msgs'[m])
    <3>1. CASE msgs' = WithEvidence(m, task)
      <4>1. msgs'[m] = [msgs[m] EXCEPT !.evidence = task.found]
        BY <1>1, <3>1 DEF WithEvidence
      <4> QED
        BY <2>1, <4>1 DEF SameQuestion, MessageRow
    <3>2. CASE msgs' = WithAnswer(m, task)
      <4>1. msgs'[m] = [msgs[m] EXCEPT !.state = "completed", !.mode = task.mode, !.cited = task.cited]
        BY <1>1, <3>2 DEF WithAnswer
      <4> QED
        BY <2>1, <4>1 DEF SameQuestion, MessageRow
    <3> QED
      BY <1>4, <3>1, <3>2
  <2> QED
    BY <2>1, <2>2, <2>3 DEF Keeps, SameQuestion
<1>5. ASSUME NEW m \in Positions, NEW task \in Task, msgs' = WithFailure(m, task)
      PROVE  Keeps(msgs, msgs') /\ \A u \in Positions : msgs[u].state = "absent" => msgs'[u] = msgs[u]
  <2>1. CASE msgs[m].state = "pending"
    <3>1. msgs' = [msgs EXCEPT ![m] = [msgs[m] EXCEPT !.state = "failed", !.code = task.code]]
      BY <1>1, <1>5, <2>1 DEF WithFailure, Failed
    <3> QED
      BY <1>1, <2>1, <3>1 DEF Keeps, SameQuestion, MessageRow
  <2>2. CASE msgs[m].state # "pending"
    <3>1. msgs' = msgs
      BY <1>1, <1>5, <2>2 DEF WithFailure
    <3> QED
      BY <1>1, <3>1 DEF Keeps, SameQuestion
  <2> QED
    BY <2>1, <2>2
<1>6. ASSUME NEW m \in Positions, msgs[m].state = "pending",
             msgs' = [msgs EXCEPT ![m] = [@ EXCEPT !.overdue = "yes"]]
      PROVE  Keeps(msgs, msgs') /\ \A u \in Positions : msgs[u].state = "absent" => msgs'[u] = msgs[u]
  BY <1>1, <1>6 DEF Keeps, SameQuestion, MessageRow
<1> QED
  BY <1>2, <1>3, <1>4, <1>5, <1>6, RowStep DEF Prepares, Answers, Fails, rows, Expires

\* The new row of an accepted question is the only one that is neither kept
\* nor absent.
LEMMA AcceptsRow ==
    ASSUME ConversationInv, Accepts
    PROVE  \E r \in MessageRow :
             /\ next \in Positions /\ next' = next + 1
             /\ msgs' = [Expired EXCEPT ![next] = r]
             /\ r.state = "pending" /\ r.cited = {}
             /\ \A m \in Positions : Expired[m].state # "pending"
             /\ r.query # None =>
                  \E n \in Positions : /\ Expired[n].state = "completed"
                                       /\ Expired[n].mode \in ActionParents \cup {"factual"}
                                       /\ r.query = QueryOf(Expired[n])
<1>1. PICK k \in Keys, q \in Questions, kind \in {"question", "followup", "action"}, parent \in 0 .. MaxMessages :
        /\ kind = "action" => parent \in Positions
        /\ Accept(k, q, kind, parent)
  BY DEF Accepts
<1> DEFINE r == Asked(k, q, kind, parent)
<1>2. r \in MessageRow /\ r.state = "pending"
  BY <1>1, AskedOK DEF Accept
<1>3. r.cited = {} /\ r.query = DerivedQuery(Expired, q, kind, parent)
  BY AskedFields
<1>4. /\ next \in Positions /\ next' = next + 1
      /\ msgs' = [Expired EXCEPT ![next] = r]
      /\ \A m \in Positions : Expired[m].state # "pending"
      /\ kind = "action" => Expired[parent].state = "completed" /\ Expired[parent].mode \in ActionParents
  BY <1>1 DEF Accept, Asked, Busy
<1> HIDE DEF r
<1>5. ASSUME r.query # None
      PROVE  \E n \in Positions : /\ Expired[n].state = "completed"
                                  /\ Expired[n].mode \in ActionParents \cup {"factual"}
                                  /\ r.query = QueryOf(Expired[n])
  <2>1. CASE kind = "action"
    BY <1>1, <1>3, <1>4, <2>1 DEF DerivedQuery
  <2>2. CASE kind # "action"
    <3>1. r.query = FollowUpQuery(Expired)
      BY <1>3, <1>5, <2>2 DEF DerivedQuery
    <3>2. PICK n \in Positions : /\ Expired[n].state = "completed"
                                 /\ Expired[n].mode \notin {"abstain", "clarify"}
                                 /\ FollowUpQuery(Expired) = QueryOf(Expired[n])
      BY <1>5, <3>1, FollowUpOK
    <3>3. Expired[n].mode = "factual"
      BY <3>2, ExpiredOK DEF RowSound, MessageRow, Modes
    <3> QED
      BY <3>1, <3>2, <3>3
  <2> QED
    BY <2>1, <2>2
<1> QED
  BY <1>2, <1>3, <1>4, <1>5

ResolvedIn(seen, m) ==
    seen[m].query # None =>
        /\ seen[m].query \in Topics
        /\ \E n \in 1 .. m - 1 : /\ seen[n].state = "completed"
                                 /\ seen[n].question = seen[m].query

LEMMA KeptResolved ==
    ASSUME ConversationInv, ResolvedQueries, NEW later, Keeps(msgs, later),
           NEW m \in Positions, msgs[m].state # "absent" \/ later[m] = msgs[m]
    PROVE  ResolvedIn(later, m)
<1>1. ResolvedIn(msgs, m)
  BY DEF ResolvedQueries, ResolvedIn
<1>2. later[m].query = msgs[m].query
  BY DEF Keeps, SameQuestion
<1>3. \A n \in 1 .. m - 1 :
        msgs[n].state = "completed" =>
            later[n].state = "completed" /\ later[n].question = msgs[n].question
  BY DEF Keeps, SameQuestion
<1> QED
  BY <1>1, <1>2, <1>3 DEF ResolvedIn

LEMMA NextResolved ==
    ASSUME ConversationInv, ResolvedQueries, [Next]_vars, "clarify" \notin ActionParents
    PROVE  ResolvedQueries'
<1>1. CASE ~ Accepts
  <2>1. \A m \in Positions : ResolvedIn(msgs', m)
    BY <1>1, StepKeeps, KeptResolved
  <2> QED
    BY <2>1 DEF ResolvedQueries, ResolvedIn
<1>2. CASE Accepts
  <2>1. \A m \in Positions : ResolvedIn(Expired, m)
    BY ExpiredKeeps, ExpiredOK, KeptResolved
  <2>2. PICK r \in MessageRow :
             /\ next \in Positions /\ next' = next + 1
             /\ msgs' = [Expired EXCEPT ![next] = r]
             /\ r.state = "pending" /\ r.cited = {}
             /\ \A m \in Positions : Expired[m].state # "pending"
             /\ r.query # None =>
                  \E n \in Positions : /\ Expired[n].state = "completed"
                                       /\ Expired[n].mode \in ActionParents \cup {"factual"}
                                       /\ r.query = QueryOf(Expired[n])
    BY <1>2, AcceptsRow
  <2>3. \A m \in Positions : m >= next => Expired[m].state = "absent"
    BY ExpiredOK DEF ConversationInv, MessageOK, Placed
  <2>4. \A m \in Positions : m # next => msgs'[m] = Expired[m]
    BY <2>2, ExpiredOK
  <2>5. msgs'[next] = r
    BY <2>2, ExpiredOK
  <2>6. ASSUME NEW m \in Positions, m # next PROVE ResolvedIn(msgs', m)
    <3>1. \A n \in 1 .. m - 1 : Expired[n].state = "completed" => msgs'[n] = Expired[n]
      BY <2>2, <2>3, <2>4
    <3> QED
      BY <2>1, <2>4, <2>6, <3>1 DEF ResolvedIn
  <2>7. ResolvedIn(msgs', next)
    <3>1. SUFFICES ASSUME r.query # None
                   PROVE  /\ r.query \in Topics
                          /\ \E n \in 1 .. next - 1 : /\ Expired[n].state = "completed"
                                                      /\ Expired[n].question = r.query
      BY <2>2, <2>4, <2>5 DEF ResolvedIn
    <3>2. PICK n \in Positions : /\ Expired[n].state = "completed"
                                 /\ Expired[n].mode # "clarify"
                                 /\ r.query = QueryOf(Expired[n])
      BY <2>2, <3>1
    <3>3. n \in 1 .. next - 1
      BY <2>2, <2>3, <3>2
    <3>4. CASE Expired[n].query # None
      <4>1. ResolvedIn(Expired, n) /\ r.query = Expired[n].query
        BY <2>1, <3>2, <3>4 DEF QueryOf
      <4>2. \A u \in 1 .. n - 1 : u \in 1 .. next - 1
        BY <2>2, <3>3
      <4> QED
        BY <3>4, <4>1, <4>2 DEF ResolvedIn
    <3>5. CASE Expired[n].query = None
      <4>1. RowSound(Expired[n])
        BY ExpiredOK
      <4>2. ~ Unresolved(Expired[n])
        BY <3>2, <4>1 DEF RowSound
      <4>3. r.query = Expired[n].question /\ Expired[n].question \in Topics
        BY <3>2, <3>5, <4>1, <4>2 DEF RowSound, QueryOf
      <4> QED
        BY <3>2, <3>3, <4>3
    <3> QED
      BY <3>4, <3>5
  <2> QED
    BY <2>6, <2>7 DEF ResolvedQueries, ResolvedIn
<1> QED
  BY <1>1, <1>2

\* A follow-up or an action is searched with an earlier completed question
\* that stands on its own, provided that no action is offered on a turn that
\* asked for a clarification (as the web client does).
THEOREM ResolvedQueriesHolds ==
    ASSUME "clarify" \notin ActionParents
    PROVE  Spec => []ResolvedQueries
<1>1. Init => ResolvedQueries
  BY DEF Init, ResolvedQueries, NoMessage
<1>2. ConversationInv /\ ResolvedQueries /\ [Next]_vars => ResolvedQueries'
  BY NextResolved
<1> QED
  BY <1>1, <1>2, Inductive, PTL DEF Spec

-----------------------------------------------------------------------------
(* The history implements the abstract turns.                              *)

\* What the mapping shows of one row.
LEMMA OutcomeIs ==
    ASSUME NEW r \in MessageRow, RowSound(r)
    PROVE  /\ OutcomeOf(r) = "open" <=> r.state = "pending"
           /\ r.state = "absent" => OutcomeOf(r) = "none"
           /\ r.state = "failed" => OutcomeOf(r) = "failed"
           /\ r.state = "completed" => OutcomeOf(r) = r.mode /\ r.mode \in Modes
BY DEF OutcomeOf, MessageRow, RowSound, Modes

\* A step that shows nothing new.
LEMMA Unseen ==
    ASSUME next' = next,
           \A m \in Positions : /\ OutcomeOf(msgs'[m]) = OutcomeOf(msgs[m])
                                /\ msgs'[m].cited = msgs[m].cited
    PROVE  UNCHANGED Abs!vars
<1>1. [m \in Positions |-> OutcomeOf(msgs'[m])] = [m \in Positions |-> OutcomeOf(msgs[m])]
  OBVIOUS
<1>2. [m \in Positions |-> msgs'[m].cited] = [m \in Positions |-> msgs[m].cited]
  OBVIOUS
<1> QED
  BY <1>1, <1>2 DEF Abs!vars

LEMMA InitRefines == Init => Abs!Init
<1> SUFFICES ASSUME Init PROVE Abs!Init
  OBVIOUS
<1>1. \A m \in Positions : OutcomeOf(msgs[m]) = "none" /\ msgs[m].cited = {}
  BY DEF Init, NoMessage, OutcomeOf
<1>2. next - 1 = 0
  BY DEF Init
<1> QED
  BY <1>1, <1>2 DEF Abs!Init, Abs!Turns

LEMMA PreparesUnseen ==
    ASSUME ConversationInv, NEW m \in Positions, Prepares(m)
    PROVE  UNCHANGED Abs!vars
<1>1. msgs \in [Positions -> MessageRow]
  BY DEF ConversationInv, TypeOK
<1>2. \A u \in Positions : /\ msgs'[u].state = msgs[u].state
                           /\ msgs'[u].mode = msgs[u].mode
                           /\ msgs'[u].cited = msgs[u].cited
  <2>1. CASE \E task \in Task : msgs' = WithEvidence(m, task)
    BY <1>1, <2>1 DEF WithEvidence, MessageRow
  <2>2. CASE msgs' = [msgs EXCEPT ![m] = [@ EXCEPT !.overdue = "yes"]]
    BY <1>1, <2>2 DEF MessageRow
  <2> QED
    BY <2>1, <2>2 DEF Prepares
<1> QED
  BY <1>2, Unseen DEF Prepares, OutcomeOf

\* Only the newest message can fail: by its task, a late thread or a sweep.
LEMMA FailureSeen ==
    ASSUME ConversationInv, NEW m \in Positions, NEW code, msgs[m].state = "pending",
           next' = next, msgs' = [msgs EXCEPT ![m] = Failed(msgs[m], code)]
    PROVE  Abs!Fail(m)
<1>1. msgs \in [Positions -> MessageRow] /\ RowSound(msgs[m])
  BY DEF ConversationInv, TypeOK, MessageOK
<1>2. OutcomeOf(msgs[m]) = "open"
  BY <1>1, OutcomeIs
<1>3. msgs'[m].state = "failed" /\ msgs'[m].cited = msgs[m].cited
  BY <1>1 DEF Failed, MessageRow
<1>4. \A u \in Positions : u # m => msgs'[u] = msgs[u]
  BY <1>1
<1>5. OutcomeOf(msgs'[m]) = "failed"
  BY <1>3 DEF OutcomeOf
<1>6. [u \in Positions |-> OutcomeOf(msgs'[u])]
        = [[u \in Positions |-> OutcomeOf(msgs[u])] EXCEPT ![m] = "failed"]
  <2>1. \A u \in Positions :
          OutcomeOf(msgs'[u]) = IF u = m THEN "failed" ELSE OutcomeOf(msgs[u])
    BY <1>4, <1>5
  <2> QED
    BY <2>1
<1>7. [u \in Positions |-> msgs'[u].cited] = [u \in Positions |-> msgs[u].cited]
  BY <1>3, <1>4
<1> QED
  BY <1>2, <1>6, <1>7 DEF Abs!Fail

LEMMA FailsRefines ==
    ASSUME ConversationInv, NEW m \in Positions, Fails(m)
    PROVE  Abs!Next \/ UNCHANGED Abs!vars
<1>1. msgs \in [Positions -> MessageRow]
  BY DEF ConversationInv, TypeOK
<1>2. PICK task \in Task : msgs' = WithFailure(m, task)
  BY DEF Fails
<1>3. CASE msgs[m].state = "pending"
  <2>1. msgs' = [msgs EXCEPT ![m] = Failed(msgs[m], task.code)]
    BY <1>1, <1>2, <1>3 DEF WithFailure
  <2> QED
    BY <1>3, <2>1, FailureSeen DEF Fails, Abs!Next, Abs!Turns
<1>4. CASE msgs[m].state # "pending"
  <2>1. msgs' = msgs
    BY <1>1, <1>2, <1>4 DEF WithFailure
  <2> QED
    BY <2>1, Unseen DEF Fails
<1> QED
  BY <1>3, <1>4

\* At most one row is expired by a sweep: the newest.
LEMMA ExpiredIs ==
    ASSUME ConversationInv
    PROVE  \/ Expired = msgs
           \/ \E p \in Positions :
                /\ p = next - 1 /\ msgs[p].state = "pending"
                /\ Expired = [msgs EXCEPT ![p] = Failed(msgs[p], "PROCESSING_INTERRUPTED")]
<1>1. msgs \in [Positions -> MessageRow]
  BY DEF ConversationInv, TypeOK
<1>2. CASE \E p \in Positions : Expirable(p)
  <2>1. PICK p \in Positions : Expirable(p)
    BY <1>2
  <2>2. \A m \in Positions : Expirable(m) => m = next - 1
    BY DEF ConversationInv, MessageOK, Placed, Expirable
  <2>3. \A m \in Positions : m # p => ~ Expirable(m)
    BY <2>1, <2>2
  <2>4. Expired = [msgs EXCEPT ![p] = Failed(msgs[p], "PROCESSING_INTERRUPTED")]
    BY <1>1, <2>1, <2>3 DEF Expired
  <2> QED
    BY <2>1, <2>2, <2>4 DEF Expirable
<1>3. CASE \A p \in Positions : ~ Expirable(p)
  BY <1>1, <1>3 DEF Expired
<1> QED
  BY <1>2, <1>3

LEMMA ExpiresRefines ==
    ASSUME ConversationInv, Expires
    PROVE  Abs!Next \/ UNCHANGED Abs!vars
<1>1. CASE Expired = msgs
  BY <1>1, Unseen DEF Expires
<1>2. CASE Expired # msgs
  <2>1. PICK p \in Positions :
          /\ p = next - 1 /\ msgs[p].state = "pending"
          /\ Expired = [msgs EXCEPT ![p] = Failed(msgs[p], "PROCESSING_INTERRUPTED")]
    BY <1>2, ExpiredIs
  <2> QED
    BY <2>1, FailureSeen DEF Expires, Abs!Next, Abs!Turns
<1> QED
  BY <1>1, <1>2

\* What is completed is the open turn, with what it cites.
LEMMA AnswersRefines ==
    ASSUME ConversationInv, NEW m \in Positions, Answers(m)
    PROVE  Abs!Next
<1>1. msgs \in [Positions -> MessageRow] /\ RowSound(msgs[m])
  BY DEF ConversationInv, TypeOK, MessageOK
<1>2. PICK task \in Task : /\ task.pc = "complete" /\ Pending(m)
                           /\ TaskOK(msgs[m], task)
                           /\ msgs' = WithAnswer(m, task)
  BY DEF Answers
<1>3. /\ task.mode \in Modes /\ task.cited \in SUBSET Corpora
      /\ task.mode = "factual" => task.cited # {}
      /\ task.mode = "abstain" => task.cited = {}
  BY <1>2 DEF TaskOK, Task
<1>4. OutcomeOf(msgs[m]) = "open"
  BY <1>1, <1>2, OutcomeIs DEF Pending
<1>5. msgs'[m] = [msgs[m] EXCEPT !.state = "completed", !.mode = task.mode, !.cited = task.cited]
  BY <1>1, <1>2 DEF WithAnswer
<1>6. OutcomeOf(msgs'[m]) = task.mode /\ msgs'[m].cited = task.cited
  BY <1>1, <1>5 DEF OutcomeOf, MessageRow
<1>7. \A u \in Positions : u # m => msgs'[u] = msgs[u]
  BY <1>1, <1>2 DEF WithAnswer
<1>8. [u \in Positions |-> OutcomeOf(msgs'[u])]
        = [[u \in Positions |-> OutcomeOf(msgs[u])] EXCEPT ![m] = task.mode]
  BY <1>6, <1>7
<1>9. [u \in Positions |-> msgs'[u].cited]
        = [[u \in Positions |-> msgs[u].cited] EXCEPT ![m] = task.cited]
  BY <1>6, <1>7
<1>10. Abs!Answer(m, task.mode, task.cited)
  BY <1>3, <1>4, <1>8, <1>9 DEF Answers, Abs!Answer
<1> QED
  BY <1>3, <1>10 DEF Abs!Next, Abs!Turns, Modes

\* A new question, with or without the overdue one before it.
LEMMA AcceptsRefines ==
    ASSUME ConversationInv, Accepts
    PROVE  Abs!Next
<1>1. PICK r \in MessageRow :
             /\ next \in Positions /\ next' = next + 1
             /\ msgs' = [Expired EXCEPT ![next] = r]
             /\ r.state = "pending" /\ r.cited = {}
             /\ \A m \in Positions : Expired[m].state # "pending"
  BY AcceptsRow
<1>2. msgs'[next] = r /\ \A m \in Positions : m # next => msgs'[m] = Expired[m]
  BY <1>1, ExpiredOK
<1>3. OutcomeOf(r) = "open"
  BY <1>1 DEF OutcomeOf
<1>4. msgs[next].cited = {}
  BY <1>1 DEF ConversationInv, MessageOK, Placed, NoMessage, TypeOK
<1>5. msgs \in [Positions -> MessageRow] /\ \A m \in Positions : RowSound(msgs[m])
  BY DEF ConversationInv, TypeOK, MessageOK
<1>6. next - 1 \in 0 .. MaxMessages - 1 /\ next' - 1 = next - 1 + 1 /\ next - 1 + 1 = next
  BY <1>1
<1>7. CASE Expired = msgs
  <2>1. \A t \in 1 .. next - 1 : OutcomeOf(msgs[t]) # "open"
    <3>1. \A t \in Positions : OutcomeOf(msgs[t]) # "open"
      BY <1>1, <1>5, <1>7, OutcomeIs
    <3> QED
      BY <1>1, <3>1
  <2>2. \A u \in Positions :
          OutcomeOf(msgs'[u]) = IF u = next THEN "open" ELSE OutcomeOf(msgs[u])
    BY <1>2, <1>3, <1>7
  <2>3. [u \in Positions |-> OutcomeOf(msgs'[u])]
          = [[u \in Positions |-> OutcomeOf(msgs[u])] EXCEPT ![next - 1 + 1] = "open"]
    BY <1>6, <2>2
  <2>4. [u \in Positions |-> msgs'[u].cited] = [u \in Positions |-> msgs[u].cited]
    BY <1>1, <1>2, <1>4, <1>7
  <2>5. \A t \in 1 .. next - 1 : [u \in Positions |-> OutcomeOf(msgs[u])][t] # "open"
    BY <1>1, <2>1
  <2>6. Abs!Ask
    <3>1. next - 1 < MaxMessages /\ next' - 1 = next - 1 + 1
      BY <1>6
    <3> QED
      BY <2>3, <2>4, <2>5, <3>1, Zenon DEF Abs!Ask
  <2> QED
    BY <2>6 DEF Abs!Next
<1>8. CASE Expired # msgs
  <2>1. PICK p \in Positions :
          /\ p = next - 1 /\ msgs[p].state = "pending"
          /\ Expired = [msgs EXCEPT ![p] = Failed(msgs[p], "PROCESSING_INTERRUPTED")]
    BY <1>8, ExpiredIs
  <2>2. p # next /\ p > 0
    BY <1>1, <2>1
  <2>3. msgs'[p] = Failed(msgs[p], "PROCESSING_INTERRUPTED")
    BY <1>2, <1>5, <2>1, <2>2
  <2>4. msgs'[p].state = "failed" /\ msgs'[p].cited = msgs[p].cited
    BY <1>5, <2>3 DEF Failed, MessageRow
  <2>5. OutcomeOf(msgs'[p]) = "failed" /\ OutcomeOf(msgs[p]) = "open"
    BY <1>5, <2>1, <2>4, OutcomeIs DEF OutcomeOf
  <2>6. \A u \in Positions : u # next /\ u # p => msgs'[u] = msgs[u]
    BY <1>2, <1>5, <2>1
  <2>7. \A u \in Positions :
          OutcomeOf(msgs'[u]) = IF u = next THEN "open"
                                ELSE IF u = p THEN "failed" ELSE OutcomeOf(msgs[u])
    BY <1>2, <1>3, <2>2, <2>5, <2>6
  <2>8. [u \in Positions |-> OutcomeOf(msgs'[u])]
          = [[u \in Positions |-> OutcomeOf(msgs[u])] EXCEPT ![p] = "failed", ![next - 1 + 1] = "open"]
    BY <1>6, <2>7
  <2>9. [u \in Positions |-> msgs'[u].cited] = [u \in Positions |-> msgs[u].cited]
    <3>1. \A u \in Positions : msgs'[u].cited = msgs[u].cited
      BY <1>1, <1>2, <1>4, <2>4, <2>6
    <3> QED
      BY <3>1
  <2>10. Abs!AskAfterFailing(p)
    <3>1. /\ next - 1 < MaxMessages /\ next' - 1 = next - 1 + 1
          /\ p = next - 1 /\ p > 0
      BY <1>6, <2>1, <2>2
    <3>2. [u \in Positions |-> OutcomeOf(msgs[u])][p] = "open"
      BY <2>5
    <3> QED
      BY <2>8, <2>9, <3>1, <3>2, Zenon DEF Abs!AskAfterFailing
  <2> QED
    BY <2>10 DEF Abs!Next, Abs!Turns
<1> QED
  BY <1>7, <1>8

LEMMA NextRefines == ConversationInv /\ [Next]_vars => [Abs!Next]_(Abs!vars)
<1> SUFFICES ASSUME ConversationInv, [Next]_vars PROVE [Abs!Next]_(Abs!vars)
  OBVIOUS
<1>1. UNCHANGED rows => UNCHANGED Abs!vars
  BY Unseen DEF rows
<1> QED
  BY <1>1, RowStep, AcceptsRefines, ExpiresRefines, AnswersRefines, FailsRefines, PreparesUnseen

\* What the owner reads behaves like the abstract turns, for every number of
\* tasks, abandoned transactions, sweeps, faults and repeated requests.
THEOREM Refinement == Spec => ImplementsTurns
<1>1. Spec => Abs!Init /\ [][Abs!Next]_(Abs!vars)
  BY InitRefines, NextRefines, Inductive, PTL DEF Spec
<1> QED
  BY <1>1 DEF ImplementsTurns, Abs!Spec

-----------------------------------------------------------------------------
(* What a retrieval whose authorization lapsed can give.                   *)

\* Nothing is found, stored or under way before the chunks are read.
Early == Unchecked \cup {"read"}

Fresh(m) ==
    run[m].pc \in Early =>
        /\ run[m].found = {}
        /\ msgs[m].evidence = {}
        /\ \A x \in threads : x.message # m

\* A message that lapsed can no longer be authorized: its task is before that
\* step or on its way out, with empty hands.
Settling == Unchecked \cup {"failing", "complete", "gone"}

Barred(m) ==
    m \in lapsed =>
        /\ ~ Authorized(m)
        /\ run[m].pc \in Settling
        /\ run[m].found = {}
        /\ \A x \in threads : x.message = m => x.task.found = {}
        /\ msgs[m].evidence = {}
        /\ calls[m] = 0

RetrievalInv == \A m \in Positions : Fresh(m) /\ Barred(m)

LEMMA InitRetrieval == Init => RetrievalInv
BY DEF Init, RetrievalInv, Fresh, Barred, NoTask, NoMessage, Early, Unchecked

\* A step about one message.
LEMMA Moves ==
    ASSUME ConversationInv, RetrievalInv, NEW m \in Positions, NEW r, NEW t, NEW n,
           msgs' = [msgs EXCEPT ![m] = r],
           run' = [run EXCEPT ![m] = t],
           calls' = [calls EXCEPT ![m] = n],
           threads' \subseteq threads \cup {[message |-> m, task |-> run[m]]},
           member' = member, lapsed' = lapsed,
           t.pc \in Early => /\ run[m].pc \in Early
                             /\ t.found = {} /\ r.evidence = {}
                             /\ threads' \subseteq threads,
           m \in lapsed => /\ t.pc \in Settling
                           /\ t.found = {} /\ r.evidence = {} /\ n = 0
                           /\ r.state = "pending" /\ r.overdue = "no" => member = "no"
    PROVE  RetrievalInv'
<1> SUFFICES ASSUME NEW u \in Positions PROVE Fresh(u)' /\ Barred(u)'
  BY DEF RetrievalInv
<1>1. Fresh(u) /\ Barred(u) /\ TypeOK
  BY DEF RetrievalInv, ConversationInv
<1>2. CASE u = m
  <2>1. msgs'[u] = r /\ run'[u] = t /\ calls'[u] = n
    BY <1>1, <1>2 DEF TypeOK
  <2>2. Fresh(u)'
    BY <1>1, <1>2, <2>1 DEF Fresh
  <2>3. ASSUME u \in lapsed, NEW x \in threads', x.message = u PROVE x.task.found = {}
    BY <1>1, <1>2, <2>3 DEF Barred
  <2>4. Barred(u)'
    BY <1>1, <1>2, <2>1, <2>3 DEF Barred, Authorized, TypeOK
  <2> QED
    BY <2>2, <2>4
<1>3. CASE u # m
  <2>1. msgs'[u] = msgs[u] /\ run'[u] = run[u] /\ calls'[u] = calls[u]
    BY <1>1, <1>3 DEF TypeOK
  <2>2. \A x \in threads' : x.message = u => x \in threads
    BY <1>3
  <2> QED
    BY <1>1, <2>1, <2>2 DEF Fresh, Barred, Authorized
<1> QED
  BY <1>2, <1>3

\* A step of a task that writes no row and finds nothing.
LEMMA TaskMoves ==
    ASSUME ConversationInv, RetrievalInv, NEW m \in Positions, NEW t,
           run' = [run EXCEPT ![m] = t],
           threads' \subseteq threads \cup {[message |-> m, task |-> run[m]]},
           UNCHANGED <<rows, calls, course>>,
           t.found \subseteq run[m].found,
           t.pc \in Early => run[m].pc \in Early /\ threads' \subseteq threads,
           m \in lapsed => t.pc \in Settling
    PROVE  RetrievalInv'
<1>1. Fresh(m) /\ Barred(m)
  BY DEF RetrievalInv
<1>2. /\ msgs' = [msgs EXCEPT ![m] = msgs[m]] /\ calls' = [calls EXCEPT ![m] = calls[m]]
      /\ member' = member /\ lapsed' = lapsed
  BY DEF rows, course, ConversationInv, TypeOK
<1>3. t.pc \in Early => t.found = {} /\ msgs[m].evidence = {}
  BY <1>1 DEF Fresh
<1>4. m \in lapsed => /\ t.found = {} /\ msgs[m].evidence = {} /\ calls[m] = 0
                      /\ msgs[m].state = "pending" /\ msgs[m].overdue = "no" => member = "no"
  BY <1>1 DEF Barred, Authorized, ConversationInv, TypeOK
<1> QED
  BY <1>2, <1>3, <1>4, Moves

LEMMA RaiseMoves ==
    ASSUME ConversationInv, RetrievalInv, NEW m \in Positions, NEW code, Raise(m, code),
           threads' \subseteq threads \cup {[message |-> m, task |-> run[m]]},
           UNCHANGED <<rows, calls, course>>
    PROVE  RetrievalInv'
<1> DEFINE t == [run[m] EXCEPT !.pc = "failing", !.code = code]
<1>1. run[m] \in Task /\ run' = [run EXCEPT ![m] = t]
  BY DEF ConversationInv, TypeOK, Raise
<1>2. t.pc = "failing" /\ t.found = run[m].found
  BY <1>1 DEF Task
<1> HIDE DEF t
<1> QED
  BY <1>1, <1>2, TaskMoves DEF Early, Unchecked, Settling

LEMMA GoToMoves ==
    ASSUME ConversationInv, RetrievalInv, NEW m \in Positions, run[m].pc \in Early,
           NEW pc \in Early, GoTo(m, pc), m \in lapsed => pc \in Unchecked,
           UNCHANGED <<rows, threads, calls, course>>
    PROVE  RetrievalInv'
<1> DEFINE t == [run[m] EXCEPT !.pc = pc]
<1>1. run[m] \in Task /\ run' = [run EXCEPT ![m] = t]
  BY DEF ConversationInv, TypeOK, GoTo
<1>2. t.pc = pc /\ t.found = run[m].found
  BY <1>1 DEF Task
<1> HIDE DEF t
<1> QED
  BY <1>1, <1>2, TaskMoves DEF Settling

LEMMA DraftMoves ==
    ASSUME ConversationInv, RetrievalInv, NEW m \in Positions, NEW mode, NEW cited,
           Draft(m, mode, cited), UNCHANGED <<rows, threads, calls, course>>
    PROVE  RetrievalInv'
<1> DEFINE t == [run[m] EXCEPT !.pc = "complete", !.mode = mode, !.cited = cited]
<1>1. run[m] \in Task /\ run' = [run EXCEPT ![m] = t]
  BY DEF ConversationInv, TypeOK, Draft
<1>2. t.pc = "complete" /\ t.found = run[m].found
  BY <1>1 DEF Task
<1> HIDE DEF t
<1> QED
  BY <1>1, <1>2, TaskMoves DEF Early, Unchecked, Settling

LEMMA GoneEmpty == Gone.pc = "gone" /\ Gone.found = {} /\ Gone.pc \notin Early /\ Gone.pc \in Settling
BY DEF Gone, NoTask, Early, Unchecked, Settling

\* Up to the chunks: only AuthorizeRead lets a task through to them.
LEMMA SearchingMoves ==
    ASSUME ConversationInv, RetrievalInv, NEW m \in Positions,
           \/ RequestRefused(m) \/ Clarify(m) \/ Search(m)
           \/ Authorize(m) \/ Embed(m) \/ AuthorizeRead(m) \/ ReadChunks(m)
    PROVE  RetrievalInv'
<1>0. threads \subseteq threads \cup {[message |-> m, task |-> run[m]]} /\ Barred(m)
  BY DEF RetrievalInv
<1>1. {"authorize", "embed", "retrieve"} \subseteq Unchecked /\ Unchecked \subseteq Early
      /\ {"request", "read"} \subseteq Early
  BY DEF Unchecked, Early
<1>2. CASE RequestRefused(m) \/ Clarify(m)
  BY <1>0, <1>2, RaiseMoves, DraftMoves DEF RequestRefused, Clarify
<1>3. CASE Search(m)
  BY <1>1, <1>3, GoToMoves DEF Search
<1>4. CASE Authorize(m)
  BY <1>0, <1>1, <1>4, GoToMoves, RaiseMoves DEF Authorize
<1>5. CASE Embed(m)
  BY <1>0, <1>1, <1>5, GoToMoves, RaiseMoves DEF Embed
<1>6. CASE AuthorizeRead(m)
  <2>1. CASE Authorized(m)
    <3>1. m \notin lapsed
      BY <1>0, <2>1 DEF Barred
    <3> QED
      BY <1>1, <1>6, <2>1, <3>1, GoToMoves DEF AuthorizeRead
  <2>2. CASE ~ Authorized(m)
    BY <1>0, <1>6, <2>2, RaiseMoves DEF AuthorizeRead
  <2> QED
    BY <2>1, <2>2
<1>7. CASE ReadChunks(m)
  <2>1. CASE Raise(m, "RETRIEVAL_INDEX_MISSING")
    BY <1>0, <1>7, <2>1, RaiseMoves DEF ReadChunks
  <2>2. CASE ~ Raise(m, "RETRIEVAL_INDEX_MISSING")
    <3>1. PICK found \in SUBSET {msgs[m].corpus} :
            run' = [run EXCEPT ![m] = [run[m] EXCEPT !.pc = "save", !.found = found]]
      BY <1>7, <2>2 DEF ReadChunks, ConversationInv, TypeOK
    <3> DEFINE t == [run[m] EXCEPT !.pc = "save", !.found = found]
    <3>2. run[m] \in Task /\ run[m].pc = "read"
      BY <1>7 DEF ReadChunks, ConversationInv, TypeOK
    <3>3. t.pc \notin Early
      BY <3>2 DEF Task, Early, Unchecked
    <3>4. m \notin lapsed
      BY <1>0, <3>2 DEF Barred, Settling, Unchecked
    <3>5. /\ run' = [run EXCEPT ![m] = t]
          /\ msgs' = [msgs EXCEPT ![m] = msgs[m]] /\ calls' = [calls EXCEPT ![m] = calls[m]]
          /\ threads' = threads /\ member' = member /\ lapsed' = lapsed
      BY <1>7, <3>1 DEF ReadChunks, rows, course, ConversationInv, TypeOK
    <3> HIDE DEF t
    <3> QED
      BY <1>0, <3>3, <3>4, <3>5, Moves
  <2> QED
    BY <2>1, <2>2
<1> QED
  BY <1>2, <1>3, <1>4, <1>5, <1>6, <1>7

\* After the chunks: what a task writes and asks, none of it for a message
\* that lapsed.
LEMMA AnsweringMoves ==
    ASSUME ConversationInv, RetrievalInv, NEW m \in Positions,
           \/ SaveEvidence(m) \/ Generate(m) \/ Complete(m) \/ Fail(m)
    PROVE  RetrievalInv'
<1>1. /\ Barred(m) /\ run[m] \in Task /\ msgs[m] \in MessageRow
      /\ threads \subseteq threads \cup {[message |-> m, task |-> run[m]]}
  BY DEF RetrievalInv, ConversationInv, TypeOK
<1>2. CASE SaveEvidence(m)
  <2>1. m \notin lapsed
    BY <1>1, <1>2 DEF SaveEvidence, Barred, Settling, Unchecked
  <2>2. \E t : run' = [run EXCEPT ![m] = t] /\ t.pc \in {"generate", "complete"}
    <3>1. CASE run[m].found # {}
      <4> DEFINE t == [run[m] EXCEPT !.pc = "generate"]
      <4>1. t.pc = "generate" /\ run' = [run EXCEPT ![m] = t]
        BY <1>1, <1>2, <3>1 DEF SaveEvidence, GoTo, Task
      <4> HIDE DEF t
      <4> QED
        BY <4>1
    <3>2. CASE run[m].found = {}
      <4> DEFINE t == [run[m] EXCEPT !.pc = "complete", !.mode = "abstain", !.cited = {}]
      <4>1. t.pc = "complete" /\ run' = [run EXCEPT ![m] = t]
        BY <1>1, <1>2, <3>2 DEF SaveEvidence, Draft, Task
      <4> HIDE DEF t
      <4> QED
        BY <4>1
    <3> QED
      BY <3>1, <3>2
  <2>3. PICK t : run' = [run EXCEPT ![m] = t] /\ t.pc \in {"generate", "complete"}
    BY <2>2
  <2>4. t.pc \notin Early
    BY <2>3 DEF Early, Unchecked
  <2>5. /\ msgs' = [msgs EXCEPT ![m] = [msgs[m] EXCEPT !.evidence = run[m].found]]
        /\ calls' = [calls EXCEPT ![m] = calls[m]]
        /\ threads' = threads /\ member' = member /\ lapsed' = lapsed
    BY <1>2 DEF SaveEvidence, WithEvidence, course, ConversationInv, TypeOK
  <2> QED
    BY <1>1, <2>1, <2>3, <2>4, <2>5, Moves
<1>3. CASE Generate(m)
  <2> DEFINE t == [run[m] EXCEPT !.pc = "answer"]
  <2>1. m \notin lapsed
    BY <1>1, <1>3 DEF Generate, Barred, Settling, Unchecked
  <2>2. t.pc \notin Early
    BY <1>1 DEF Task, Early, Unchecked
  <2>3. /\ run' = [run EXCEPT ![m] = t] /\ msgs' = [msgs EXCEPT ![m] = msgs[m]]
        /\ calls' = [calls EXCEPT ![m] = calls[m] + 1]
        /\ threads' = threads /\ member' = member /\ lapsed' = lapsed
    BY <1>3 DEF Generate, GoTo, rows, course, ConversationInv, TypeOK
  <2> HIDE DEF t
  <2> QED
    BY <1>1, <2>1, <2>2, <2>3, Moves
<1>4. CASE Complete(m)
  <2> DEFINE r == [msgs[m] EXCEPT !.state = "completed", !.mode = run[m].mode,
                                  !.cited = run[m].cited]
  <2>1. r.state = "completed" /\ r.evidence = msgs[m].evidence
    BY <1>1 DEF MessageRow
  <2>2. /\ msgs' = [msgs EXCEPT ![m] = r] /\ run' = [run EXCEPT ![m] = Gone]
        /\ calls' = [calls EXCEPT ![m] = calls[m]]
        /\ threads' = threads /\ member' = member /\ lapsed' = lapsed
    BY <1>4 DEF Complete, WithAnswer, course, ConversationInv, TypeOK
  <2> HIDE DEF r
  <2> QED
    BY <1>1, <2>1, <2>2, GoneEmpty, Moves DEF Barred
<1>5. CASE Fail(m)
  <2> DEFINE r == IF msgs[m].state = "pending" THEN Failed(msgs[m], run[m].code) ELSE msgs[m]
  <2>1. r.state # "pending" /\ r.evidence = msgs[m].evidence
    BY <1>1 DEF MessageRow, Failed
  <2>2. /\ msgs' = [msgs EXCEPT ![m] = r] /\ run' = [run EXCEPT ![m] = Gone]
        /\ calls' = [calls EXCEPT ![m] = calls[m]]
        /\ threads' = threads /\ member' = member /\ lapsed' = lapsed
    BY <1>5 DEF Fail, WithFailure, course, ConversationInv, TypeOK
  <2> HIDE DEF r
  <2> QED
    BY <1>1, <2>1, <2>2, GoneEmpty, Moves DEF Barred
<1> QED
  BY <1>2, <1>3, <1>4, <1>5

LEMMA InterruptionMoves ==
    ASSUME ConversationInv, RetrievalInv, NEW m \in Positions, Interruption(m)
    PROVE  RetrievalInv'
<1>1. Abandoned(m) \subseteq threads \cup {[message |-> m, task |-> run[m]]}
      /\ threads \subseteq threads \cup {[message |-> m, task |-> run[m]]}
  BY DEF Abandoned
<1>2. CASE Timeout(m) \/ Cancel(m) \/ DatabaseError(m) \/ UnexpectedError(m)
  BY <1>1, <1>2, RaiseMoves DEF Timeout, Cancel, DatabaseError, UnexpectedError
<1>3. CASE FailureLost(m)
  BY <1>1, <1>3, GoneEmpty, TaskMoves DEF FailureLost
<1> QED
  BY <1>2, <1>3 DEF Interruption

LEMMA PipelineMoves ==
    ASSUME ConversationInv, RetrievalInv, NEW m \in Positions, Pipeline(m)
    PROVE  RetrievalInv'
<1>0. threads \subseteq threads \cup {[message |-> m, task |-> run[m]]}
  OBVIOUS
<1>1. CASE ModelNotConfigured(m) \/ ModelUnavailable(m) \/ TooLate(m)
  BY <1>0, <1>1, RaiseMoves DEF ModelNotConfigured, ModelUnavailable, TooLate
<1>2. ASSUME NEW structured, NEW mode, NEW cited, NEW grounded,
             Answer(m, structured, mode, cited, grounded)
      PROVE  RetrievalInv'
  BY <1>0, <1>2, DraftMoves, RaiseMoves DEF Answer
<1> QED
  BY <1>1, <1>2, SearchingMoves, AnsweringMoves DEF Pipeline

\* A late transaction of a message that lapsed brings nothing either.
LEMMA ThreadMoves ==
    ASSUME ConversationInv, RetrievalInv, NEW x \in threads, ThreadCommits(x)
    PROVE  RetrievalInv'
<1> DEFINE m == x.message
<1>1. m \in Positions /\ x.task \in Task
  BY DEF ConversationInv, TypeOK, Thread
<1>2. Fresh(m) /\ Barred(m) /\ msgs[m] \in MessageRow /\ msgs \in [Positions -> MessageRow]
  BY <1>1 DEF RetrievalInv, ConversationInv, TypeOK
<1>3. run[m].pc \notin Early /\ (m \in lapsed => x.task.found = {})
  BY <1>2 DEF Fresh, Barred
<1> HIDE DEF m
<1>4. \E r : /\ msgs' = [msgs EXCEPT ![m] = r]
             /\ r.evidence \in {msgs[m].evidence, x.task.found}
             /\ \/ r.state # "pending"
                \/ r.state = msgs[m].state /\ r.overdue = msgs[m].overdue
  <2>1. CASE msgs' = WithEvidence(m, x.task)
    <3> DEFINE r == [msgs[m] EXCEPT !.evidence = x.task.found]
    <3>1. /\ msgs' = [msgs EXCEPT ![m] = r] /\ r.evidence = x.task.found
          /\ r.state = msgs[m].state /\ r.overdue = msgs[m].overdue
      BY <1>1, <1>2, <2>1 DEF WithEvidence, MessageRow
    <3> HIDE DEF r
    <3> QED
      BY <3>1
  <2>2. CASE msgs' = WithAnswer(m, x.task)
    <3> DEFINE r == [msgs[m] EXCEPT !.state = "completed", !.mode = x.task.mode,
                                    !.cited = x.task.cited]
    <3>1. /\ msgs' = [msgs EXCEPT ![m] = r] /\ r.evidence = msgs[m].evidence
          /\ r.state = "completed"
      BY <1>1, <1>2, <2>2 DEF WithAnswer, MessageRow
    <3> HIDE DEF r
    <3> QED
      BY <3>1
  <2>3. CASE msgs' = WithFailure(m, x.task)
    <3> DEFINE r == IF msgs[m].state = "pending" THEN Failed(msgs[m], x.task.code) ELSE msgs[m]
    <3>1. msgs' = [msgs EXCEPT ![m] = r] /\ r.evidence = msgs[m].evidence /\ r.state # "pending"
      BY <1>1, <1>2, <2>3 DEF WithFailure, Failed, MessageRow
    <3> HIDE DEF r
    <3> QED
      BY <3>1
  <2> QED
    BY <2>1, <2>2, <2>3 DEF ThreadCommits, m
<1>5. PICK r : /\ msgs' = [msgs EXCEPT ![m] = r]
               /\ r.evidence \in {msgs[m].evidence, x.task.found}
               /\ \/ r.state # "pending"
                  \/ r.state = msgs[m].state /\ r.overdue = msgs[m].overdue
  BY <1>4
<1>6. /\ run' = [run EXCEPT ![m] = run[m]] /\ calls' = [calls EXCEPT ![m] = calls[m]]
      /\ threads' \subseteq threads \cup {[message |-> m, task |-> run[m]]}
      /\ member' = member /\ lapsed' = lapsed
  BY <1>1 DEF ThreadCommits, course, ConversationInv, TypeOK
<1>7. m \in lapsed => /\ run[m].pc \in Settling
                      /\ run[m].found = {} /\ r.evidence = {} /\ calls[m] = 0
                      /\ r.state = "pending" /\ r.overdue = "no" => member = "no"
  BY <1>2, <1>3, <1>5 DEF Barred, Authorized, ConversationInv, TypeOK
<1> QED
  BY <1>1, <1>3, <1>5, <1>6, <1>7, Moves

\* A deadline or a removal makes the messages lapse that have read nothing.
LEMMA LapseMoves ==
    ASSUME ConversationInv, RetrievalInv, NEW S, Lapse(S),
           UNCHANGED <<run, threads, calls>>,
           \A m \in Positions : msgs'[m].evidence = msgs[m].evidence,
           \A m \in Positions : ~ Authorized(m) => ~ Authorized(m)',
           \A m \in S : ~ Authorized(m)'
    PROVE  RetrievalInv'
<1> SUFFICES ASSUME NEW m \in Positions PROVE Fresh(m)' /\ Barred(m)'
  BY DEF RetrievalInv
<1>1. Fresh(m) /\ Barred(m) /\ MessageOK(m)
  BY DEF RetrievalInv, ConversationInv
<1>2. Fresh(m)'
  BY <1>1 DEF Fresh
<1>3. CASE m \in lapsed
  BY <1>1, <1>2, <1>3 DEF Barred
<1>4. CASE m \in S /\ run[m].pc \in Unchecked
  <2>1. calls[m] = 0
    BY <1>1, <1>4 DEF MessageOK, CallsOK, Unchecked, Unasked
  <2>2. /\ run[m].found = {} /\ msgs[m].evidence = {}
        /\ \A x \in threads : x.message # m
    BY <1>1, <1>4 DEF Fresh, Early
  <2> QED
    BY <1>2, <1>4, <2>1, <2>2 DEF Barred, Settling
<1>5. CASE m \notin lapsed /\ ~ (m \in S /\ run[m].pc \in Unchecked)
  BY <1>2, <1>5 DEF Lapse, Barred
<1> QED
  BY <1>2, <1>3, <1>4, <1>5

LEMMA DeadlineMoves ==
    ASSUME ConversationInv, RetrievalInv, NEW m \in Positions, DeadlinePasses(m)
    PROVE  RetrievalInv'
<1>1. msgs \in [Positions -> MessageRow]
  BY DEF ConversationInv, TypeOK
<1>2. msgs' = [msgs EXCEPT ![m] = [msgs[m] EXCEPT !.overdue = "yes"]] /\ member' = member
  BY DEF DeadlinePasses
<1>3. \A u \in Positions : u # m => msgs'[u] = msgs[u]
  BY <1>1, <1>2
<1>4. msgs'[m].overdue = "yes" /\ msgs'[m].evidence = msgs[m].evidence
  BY <1>1, <1>2 DEF MessageRow
<1>5. \A u \in Positions : msgs'[u].evidence = msgs[u].evidence
  BY <1>3, <1>4
<1>6. ~ Authorized(m)'
  BY <1>4 DEF Authorized
<1>7. \A u \in Positions : ~ Authorized(u) => ~ Authorized(u)'
  BY <1>2, <1>3, <1>6 DEF Authorized
<1> QED
  BY <1>5, <1>6, <1>7, LapseMoves DEF DeadlinePasses

LEMMA RevokeMoves ==
    ASSUME ConversationInv, RetrievalInv, Revoke
    PROVE  RetrievalInv'
<1>1. \A m \in Positions : ~ Authorized(m)'
  BY DEF Revoke, Authorized
<1> QED
  BY <1>1, LapseMoves DEF Revoke, rows

LEMMA ExpiredMoves ==
    ASSUME ConversationInv, RetrievalInv, msgs' = Expired,
           UNCHANGED <<run, threads, calls, course>>
    PROVE  RetrievalInv'
<1> SUFFICES ASSUME NEW m \in Positions PROVE Fresh(m)' /\ Barred(m)'
  BY DEF RetrievalInv
<1>1. Fresh(m) /\ Barred(m) /\ msgs[m] \in MessageRow
  BY DEF RetrievalInv, ConversationInv, TypeOK
<1>2. msgs'[m].evidence = msgs[m].evidence /\ (msgs'[m].state = "pending" => msgs'[m] = msgs[m])
  BY <1>1 DEF Expired, Failed, MessageRow
<1> QED
  BY <1>1, <1>2 DEF Fresh, Barred, Authorized, course

LEMMA AcceptMoves ==
    ASSUME ConversationInv, RetrievalInv, NEW k, NEW q, NEW kind, NEW parent,
           Accept(k, q, kind, parent)
    PROVE  RetrievalInv'
<1> SUFFICES ASSUME NEW m \in Positions PROVE Fresh(m)' /\ Barred(m)'
  BY DEF RetrievalInv
<1>1. /\ Fresh(m) /\ Barred(m) /\ MessageOK(m) /\ msgs[m] \in MessageRow
      /\ run \in [Positions -> Task]
  BY DEF RetrievalInv, ConversationInv, TypeOK
<1> DEFINE r == Asked(k, q, kind, parent)
           t == [NoTask EXCEPT !.pc = "request"]
<1>2. /\ msgs' = [Expired EXCEPT ![next] = r]
      /\ run' = [run EXCEPT ![next] = t]
      /\ next \in Positions /\ UNCHANGED <<threads, calls, member, lapsed>>
  BY DEF Accept, Asked, Start, course
<1>3. r.evidence = {} /\ t.found = {}
  BY AskedFields DEF NoTask
<1> HIDE DEF r, t
<1>4. CASE m = next
  <2>1. msgs'[m] = r /\ run'[m] = t
    BY <1>1, <1>2, <1>4, ExpiredOK
  <2>2. run[m] = NoTask
    BY <1>1, <1>2, <1>4 DEF MessageOK, Placed
  <2>3. m \notin lapsed
    BY <1>1, <2>2 DEF Barred, Settling, Unchecked, NoTask
  <2>4. \A x \in threads : x.message # m
    BY <1>2, <1>4 DEF ConversationInv, ThreadsOK
  <2> QED
    BY <1>2, <1>3, <2>1, <2>3, <2>4 DEF Fresh, Barred
<1>5. CASE m # next
  <2>1. msgs'[m] = Expired[m] /\ run'[m] = run[m]
    BY <1>1, <1>2, <1>5, ExpiredOK
  <2>2. msgs'[m].evidence = msgs[m].evidence /\ (msgs'[m].state = "pending" => msgs'[m] = msgs[m])
    BY <1>1, <2>1 DEF Expired, Failed, MessageRow
  <2> QED
    BY <1>1, <1>2, <2>1, <2>2 DEF Fresh, Barred, Authorized
<1> QED
  BY <1>4, <1>5

LEMMA CrashMoves ==
    ASSUME ConversationInv, RetrievalInv, Crash
    PROVE  RetrievalInv'
<1> SUFFICES ASSUME NEW m \in Positions PROVE Fresh(m)' /\ Barred(m)'
  BY DEF RetrievalInv
<1>1. Fresh(m) /\ Barred(m)
  BY DEF RetrievalInv
<1>2. /\ run'[m] = IF run[m].pc = "none" THEN NoTask ELSE Gone
      /\ threads' = {} /\ UNCHANGED <<msgs, calls, member, lapsed>>
  BY DEF Crash, rows, course
<1>3. run'[m].pc \notin Early /\ run'[m].found = {}
  BY <1>2, GoneEmpty DEF NoTask, Early, Unchecked
<1>4. m \in lapsed => run'[m] = Gone
  BY <1>1, <1>2 DEF Barred, Settling, Unchecked
<1> QED
  BY <1>1, <1>2, <1>3, <1>4, GoneEmpty DEF Fresh, Barred, Authorized

LEMMA NextRetrieval == ConversationInv /\ RetrievalInv /\ [Next]_vars => RetrievalInv'
<1> SUFFICES ASSUME ConversationInv, RetrievalInv, [Next]_vars PROVE RetrievalInv'
  OBVIOUS
<1>1. CASE Request
  BY <1>1, AcceptMoves, ExpiredMoves DEF Request, AcceptAgain, Start
<1>2. CASE Sweep
  BY <1>2, ExpiredMoves DEF Sweep
<1>3. ASSUME UNCHANGED <<rows, run, threads, calls, member, lapsed>> PROVE RetrievalInv'
  BY <1>3 DEF rows, RetrievalInv, Fresh, Barred, Authorized
<1>4. CASE (\E c \in Corpora : Activate(c)) \/ UNCHANGED vars
  BY <1>3, <1>4 DEF Activate, vars, rows
<1> QED
  BY <1>1, <1>2, <1>4, PipelineMoves, InterruptionMoves, DeadlineMoves, ThreadMoves,
     CrashMoves, RevokeMoves DEF Next

\* A question whose owner was removed, or whose deadline passed, before the
\* last authorize_retrieval of its retrieval never has a chunk read for it,
\* stored as its evidence or shown to the model, for any number of messages
\* and faults and whatever is abandoned on the way.
THEOREM LapsedGetsNothingHolds == Spec => []LapsedGetsNothing
<1>1. ConversationInv /\ RetrievalInv => LapsedGetsNothing
  <2> SUFFICES ASSUME ConversationInv, RetrievalInv, NEW m \in lapsed
               PROVE  /\ run[m].found = {}
                      /\ \A x \in threads : x.message = m => x.task.found = {}
                      /\ msgs[m].evidence = {}
                      /\ calls[m] = 0
    BY DEF LapsedGetsNothing
  <2>1. m \in Positions
    BY DEF ConversationInv, TypeOK
  <2> QED
    BY <2>1 DEF RetrievalInv, Barred
<1> QED
  BY <1>1, InitRetrieval, NextRetrieval, Inductive, PTL DEF Spec
=============================================================================
