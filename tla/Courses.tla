------------------------------- MODULE Courses -------------------------------
(***************************************************************************)
(* The creation of courses: CourseService.create_course as the statements  *)
(* of one READ COMMITTED transaction, for requests that run at once, are   *)
(* repeated with their key, and may be rolled back anywhere.               *)
(*                                                                         *)
(* What a transaction inserted is seen by nobody until it commits, so that *)
(* the rows of course, membership and creation appear in one step.         *)
(***************************************************************************)
EXTENDS FiniteSets

CONSTANTS
    Users,         \* identities: <<issuer, subject>>
    CreationKeys,  \* idempotency keys
    Titles,
    CourseIds,     \* bound: courses that are created
    Requests,      \* bound: requests under way at one time
    NoKey          \* a request without a key

ASSUME CoursesAssumption == NoKey \notin CreationKeys

VARIABLES
    users,    \* the identities that have a row
    created,  \* the courses, with the user and the key of their creation
    teaches,  \* course_memberships: <<user, course>>
    request,  \* the transaction of each request
    replies   \* the courses that clients were told of, for their requests

courseVars == <<users, created, teaches, request, replies>>

NotRunning == [pc |-> "idle"]
Running == {r \in Requests : request[r] # NotRunning}

Begin(r, u, k, t) ==
    /\ r \notin Running
    /\ request' = [request EXCEPT ![r] =
                      [pc |-> "user", user |-> u, key |-> k, title |-> t, inserted |-> "no"]]
    /\ UNCHANGED <<users, created, teaches, replies>>

\* The rows of users that are inserted and not committed.
Inserting(u) == \E q \in Running : request[q].user = u /\ request[q].inserted = "yes" /\ u \notin users

\* INSERT ... ON CONFLICT DO NOTHING: waits for an insert under way.
InsertUser(r) ==
    LET q == request[r] IN
    /\ q.pc = "user"
    /\ ~ Inserting(q.user)
    /\ request' = [request EXCEPT ![r].pc = IF q.key = NoKey THEN "create" ELSE "find",
                                  ![r].inserted = IF q.user \in users THEN "no" ELSE "yes"]
    /\ UNCHANGED <<users, created, teaches, replies>>

\* SELECT ... FOR UPDATE: one request with a key at a time goes on for a user.
Lockable_Always(u) == TRUE
Lockable(u) ==
    ~ \E q \in Running : request[q].user = u /\ request[q].key # NoKey /\ request[q].pc = "create"

Previous(u, k) == {x \in created : k # NoKey /\ x.user = u /\ x.key = k}

Reply(q, x) == replies' = replies \cup {[user |-> q.user, key |-> q.key, title |-> q.title, course |-> x.id]}

\* A repetition gets the course of the first request, unless it differs from
\* that one or its user does not teach the course any more.
Find(r) ==
    LET q == request[r]
        previous == Previous(q.user, q.key)
    IN
    /\ q.pc = "find"
    /\ Lockable(q.user)
    /\ IF previous = {}
       THEN /\ request' = [request EXCEPT ![r].pc = "create"]
            /\ UNCHANGED replies
       ELSE /\ request' = [request EXCEPT ![r] = NotRunning]
            /\ \E x \in previous :
                 IF x.title = q.title /\ <<q.user, x.id>> \in teaches THEN Reply(q, x) ELSE UNCHANGED replies
    /\ UNCHANGED <<users, created, teaches>>

\* The primary key of course_creations refuses the second row of a key.
Create(r) ==
    LET q == request[r] IN
    /\ q.pc = "create"
    /\ Previous(q.user, q.key) = {}
    /\ \E c \in CourseIds \ {x.id : x \in created} :
         LET x == [id |-> c, title |-> q.title, user |-> q.user, key |-> q.key] IN
         /\ created' = created \cup {x}
         /\ teaches' = teaches \cup {<<q.user, c>>}
         /\ Reply(q, x)
    /\ users' = users \cup {q.user}
    /\ request' = [request EXCEPT ![r] = NotRunning]

\* Any error, the constraint's included.
Rollback(r) ==
    /\ r \in Running
    /\ request' = [request EXCEPT ![r] = NotRunning]
    /\ UNCHANGED <<users, created, teaches, replies>>

\* An administrator takes a membership away.
Revoke(u, c) ==
    /\ <<u, c>> \in teaches
    /\ teaches' = teaches \ {<<u, c>>}
    /\ UNCHANGED <<users, created, request, replies>>

CourseInit ==
    /\ users = {}
    /\ created = {}
    /\ teaches = {}
    /\ request = [r \in Requests |-> NotRunning]
    /\ replies = {}

CourseNext ==
    \/ \E r \in Requests :
         \/ \E u \in Users, k \in CreationKeys \cup {NoKey}, t \in Titles : Begin(r, u, k, t)
         \/ InsertUser(r) \/ Find(r) \/ Create(r) \/ Rollback(r)
    \/ \E u \in Users, c \in CourseIds : Revoke(u, c)

CourseSpec == CourseInit /\ [][CourseNext]_courseVars

-----------------------------------------------------------------------------
(* Properties.                                                             *)

\* A request that is repeated, at once or later, is never answered by a second
\* course nor refused by a constraint: every reply for a key names the course
\* of its creation, and whoever is about to create one is the first.
OneCoursePerKey ==
    /\ \A x \in replies : x.key # NoKey => \A y \in Previous(x.user, x.key) : y.id = x.course
    /\ \A r \in Running :
         request[r].pc = "create" => Previous(request[r].user, request[r].key) = {}
=============================================================================
