-------------------------- MODULE DocumentsProofs --------------------------
(***************************************************************************)
(* Proofs about uploads, confirmations and publications, for any clients,  *)
(* keys, files, versions, objects and publications; and, at the end, about *)
(* the creation of courses, for any identities, keys, titles, courses and  *)
(* number of requests that run at once.                                    *)
(***************************************************************************)
EXTENDS Documents, Courses, SequenceTheorems, TLAPS

\* The states of a version that was confirmed.
ConfirmedStates == {"QUEUED", "INDEXED", "REJECTED", "OCR_REQUIRED", "FAILED"}

\* The n-th object under the key of s has the declared size.
Sound(s, n) == n \in 1 .. Len(store[s]) /\ store[s][n] \in Files

\* A row is empty before its insert, names a sound object once it was
\* confirmed, and is judged by that object.
RowOK(s) ==
    LET r == version[s] IN
    /\ Len(store[s]) <= MaxObjects
    /\ r.state = "ABSENT" => r.upload_key = None /\ r.confirmation_key = None
    /\ r.state \in ConfirmedStates => Sound(s, r.storage_version)
    /\ r.state \in {"INDEXED", "OCR_REQUIRED"} => store[s][r.storage_version] = r.declared
    /\ r.state = "REJECTED" => \/ store[s][r.storage_version] # r.declared
                              \/ store[s][r.storage_version] \notin Readable
    /\ course.active = s => r.state = "INDEXED"

RowsOK == \A s \in Slots : RowOK(s)

\* What a request under way may rely on, whatever others did meanwhile: the
\* object it inspected is still there, and the course is the one it saw or
\* has a later version.
Relies(q) ==
    /\ q.pc = "insert" => q.key \in Keys /\ q.file \in Files
    /\ q.pc \in {"inspect", "confirm"} =>
         q.key \in Keys /\ q.slot \in Slots /\ version[q.slot].state # "ABSENT"
    /\ q.pc = "confirm" => Sound(q.slot, q.found)
    /\ q.pc = "publish" =>
         /\ q.seen.version <= course.version
         /\ q.seen.version = course.version => q.seen = course

ClientsOK == \A c \in Clients : Relies(client[c])

\* The inductive invariant.  RowsOK is what JudgedAsConfirmed needs: a
\* confirmed row keeps its object while others are put beside it.
DocumentsInv ==
    /\ TypeOK
    /\ RowsOK
    /\ ClientsOK
    /\ OneUploadPerKey
    /\ OneConfirmation

USE DocumentsAssumption

LEMMA IdleOK == Idle(NewCourse) \in Client /\ Relies(Idle(NewCourse))
BY DEF Idle, NewCourse, Client, Course, Relies

LEMMA InitDocumentsInv == Init => DocumentsInv
<1> SUFFICES ASSUME Init PROVE DocumentsInv
  OBVIOUS
<1>1. TypeOK
  BY IdleOK DEF Init, TypeOK, Version, NewCourse, Course
<1>2. RowsOK
  BY DEF Init, RowsOK, RowOK, NewCourse, ConfirmedStates
<1>3. ClientsOK
  BY IdleOK DEF Init, ClientsOK
<1>4. OneUploadPerKey /\ OneConfirmation
  BY DEF Init, OneUploadPerKey, OneConfirmation
<1> QED
  BY <1>1, <1>2, <1>3, <1>4 DEF DocumentsInv

\* A step that changes no row, no object and not the course: its client must
\* rely on what is there, and its replies must say what the rows say.
LEMMA SameRows ==
    ASSUME DocumentsInv, UNCHANGED <<version, store, course>>,
           client' \in [Clients -> Client],
           \A c \in Clients : Relies(client'[c]),
           uploads' \subseteq Keys \X Slots,
           confirmed' \subseteq Keys \X Slots,
           \A x \in uploads' \ uploads : version[x[2]].upload_key = x[1],
           \A x \in confirmed' \ confirmed : version[x[2]].confirmation_key = x[1]
    PROVE  DocumentsInv'
<1>1. TypeOK'
  BY DEF DocumentsInv, TypeOK
<1>2. RowsOK'
  BY DEF DocumentsInv, RowsOK, RowOK, Sound
<1>3. ClientsOK'
  BY DEF ClientsOK, Relies, Sound
<1>4. OneUploadPerKey' /\ OneConfirmation'
  BY DEF DocumentsInv, OneUploadPerKey, OneConfirmation
<1> QED
  BY <1>1, <1>2, <1>3, <1>4 DEF DocumentsInv

\* The same for one client.
LEMMA OneClient ==
    ASSUME DocumentsInv, NEW c \in Clients, NEW q \in Client, Relies(q),
           client' = [client EXCEPT ![c] = q]
    PROVE  /\ client' \in [Clients -> Client]
           /\ \A d \in Clients : Relies(client'[d])
BY DEF DocumentsInv, TypeOK, ClientsOK

\* Requests that look before they write.
LEMMA CreateLookStep ==
    ASSUME DocumentsInv, NEW c \in Clients, NEW k \in Keys, NEW f \in Files, CreateLook(c, k, f)
    PROVE  DocumentsInv'
<1> DEFINE q == [client[c] EXCEPT !.pc = "insert", !.key = k, !.file = f]
<1>1. /\ client[c] \in Client
      /\ uploads \subseteq Keys \X Slots /\ confirmed \subseteq Keys \X Slots
  BY DEF DocumentsInv, TypeOK
<1>2. q \in Client /\ Relies(q)
  BY <1>1 DEF Client, Relies
<1> QED
  BY <1>1, <1>2, OneClient, SameRows DEF CreateLook

LEMMA ConfirmLookStep ==
    ASSUME DocumentsInv, NEW c \in Clients, NEW k \in Keys, NEW s \in Slots, ConfirmLook(c, k, s)
    PROVE  DocumentsInv'
<1> DEFINE q == [client[c] EXCEPT !.pc = "inspect", !.key = k, !.slot = s]
<1>1. /\ client[c] \in Client
      /\ uploads \subseteq Keys \X Slots /\ confirmed \subseteq Keys \X Slots
  BY DEF DocumentsInv, TypeOK
<1>2. q \in Client /\ Relies(q)
  BY <1>1 DEF Client, Relies, ConfirmLook
<1> QED
  BY <1>1, <1>2, OneClient, SameRows DEF ConfirmLook

\* Repeated requests, which only get a reply.
LEMMA CreateAgainStep ==
    ASSUME DocumentsInv, NEW c \in Clients, NEW k \in Keys, NEW f \in Files, CreateAgain(c, k, f)
    PROVE  DocumentsInv'
<1>1. /\ uploads \subseteq Keys \X Slots /\ confirmed \subseteq Keys \X Slots
      /\ client \in [Clients -> Client] /\ \A d \in Clients : Relies(client[d])
  BY DEF DocumentsInv, TypeOK, ClientsOK
<1>2. /\ uploads' \subseteq Keys \X Slots
      /\ \A x \in uploads' \ uploads : version[x[2]].upload_key = x[1]
  BY <1>1 DEF CreateAgain, Stored
<1> QED
  BY <1>1, <1>2, SameRows DEF CreateAgain

LEMMA ConfirmAgainStep ==
    ASSUME DocumentsInv, NEW c \in Clients, NEW k \in Keys, NEW s \in Slots, ConfirmAgain(c, k, s)
    PROVE  DocumentsInv'
<1>1. /\ uploads \subseteq Keys \X Slots /\ confirmed \subseteq Keys \X Slots
      /\ client \in [Clients -> Client] /\ \A d \in Clients : Relies(client[d])
  BY DEF DocumentsInv, TypeOK, ClientsOK
<1>2. /\ confirmed' \subseteq Keys \X Slots
      /\ \A x \in confirmed' \ confirmed : version[x[2]].confirmation_key = x[1]
  BY <1>1 DEF ConfirmAgain, Shares
<1> QED
  BY <1>1, <1>2, SameRows DEF ConfirmAgain

LEMMA InspectStep ==
    ASSUME DocumentsInv, NEW c \in Clients, Inspect(c)
    PROVE  DocumentsInv'
<1> DEFINE s == client[c].slot
           n == Len(store[s])
           q == [client[c] EXCEPT !.pc = "confirm", !.found = n]
<1>1. UNCHANGED <<version, store, course, uploads, confirmed>>
  BY DEF Inspect
<1>2. /\ client[c] \in Client /\ client[c].pc = "inspect" /\ Relies(client[c])
      /\ uploads \subseteq Keys \X Slots /\ confirmed \subseteq Keys \X Slots
      /\ client[c].key \in Keys /\ s \in Slots
  BY DEF DocumentsInv, TypeOK, ClientsOK, Inspect, Relies
<1>3. CASE client' = [client EXCEPT ![c] = Idle(NewCourse)]
  BY <1>1, <1>2, <1>3, IdleOK, OneClient, SameRows
<1>4. CASE /\ store[s] # << >> /\ Acceptable(store[s][n])
           /\ client' = [client EXCEPT ![c] = q]
  <2>1. store[s] \in Seq(Contents) /\ n \in 1 .. MaxObjects
    <3>1. store[s] \in Seq(Contents) /\ n <= MaxObjects
      BY <1>2 DEF DocumentsInv, TypeOK, RowsOK, RowOK
    <3>2. n \in Nat /\ n # 0
      BY <3>1, <1>4, EmptySeq
    <3> QED
      BY <3>1, <3>2
  <2>2. Sound(s, n)
    BY <1>4, <2>1 DEF Sound, Acceptable, Contents
  <2>3. q \in Client
    <3>1. \A m \in 0 .. MaxObjects : [client[c] EXCEPT !.pc = "confirm", !.found = m] \in Client
      BY <1>2 DEF Client
    <3>2. n \in 0 .. MaxObjects
      BY <2>1
    <3> QED
      BY <3>1, <3>2, Zenon
  <2>4. q.pc = "confirm" /\ q.key = client[c].key /\ q.slot = s /\ q.found = n
    BY <1>2 DEF Client
  <2>5. Relies(q)
    BY <1>2, <2>2, <2>4 DEF Relies
  <2> QED
    BY <1>1, <1>2, <1>4, <2>3, <2>5, OneClient, SameRows
<1> QED
  BY <1>2, <1>3, <1>4 DEF Inspect, Finish

\* Requests that end, and clients that read the course to publish.
LEMMA EndStep ==
    ASSUME DocumentsInv, NEW c \in Clients,
           CreateRefused(c) \/ ConfirmLost(c) \/ ReadCourse(c) \/ ActivateRefused(c)
    PROVE  DocumentsInv'
<1>1. UNCHANGED <<version, store, course, uploads>>
  BY DEF CreateRefused, ConfirmLost, ReadCourse, ActivateRefused
<1>2. /\ client[c] \in Client /\ Relies(client[c]) /\ course \in Course
      /\ uploads \subseteq Keys \X Slots /\ confirmed \subseteq Keys \X Slots
  BY DEF DocumentsInv, TypeOK, ClientsOK
<1>3. PICK q \in Client : Relies(q) /\ client' = [client EXCEPT ![c] = q]
  <2>1. CASE ReadCourse(c)
    <3> DEFINE q == [client[c] EXCEPT !.pc = "publish", !.seen = course]
    <3>1. q \in Client /\ q.pc = "publish" /\ q.seen = course
      BY <1>2 DEF Client
    <3>2. Relies(q)
      BY <1>2, <3>1 DEF Relies, Course
    <3> QED
      BY <2>1, <3>1, <3>2 DEF ReadCourse
  <2>2. CASE ~ ReadCourse(c)
    BY <2>2, IdleOK DEF CreateRefused, ConfirmLost, ActivateRefused, Finish
  <2> QED
    BY <2>1, <2>2
<1>4. /\ confirmed' \subseteq Keys \X Slots
      /\ \A x \in confirmed' \ confirmed : version[x[2]].confirmation_key = x[1]
  <2>1. CASE ConfirmLost(c)
    <3>1. client[c].key \in Keys /\ client[c].slot \in Slots
      BY <1>2, <2>1 DEF ConfirmLost, Relies
    <3> QED
      BY <1>2, <2>1, <3>1 DEF ConfirmLost, Shares
  <2>2. CASE ~ ConfirmLost(c)
    BY <1>2, <2>2 DEF CreateRefused, ReadCourse, ActivateRefused
  <2> QED
    BY <2>1, <2>2
<1> QED
  BY <1>1, <1>2, <1>3, <1>4, OneClient, SameRows

\* What every step may do to rows and objects: a row is inserted once and keeps
\* its key, objects are added.  What a request relies on survives it.
LEMMA ReliesKept ==
    ASSUME DocumentsInv, NEW q \in Client, Relies(q),
           \A s \in Slots : /\ version[s].state # "ABSENT" => version'[s].state # "ABSENT"
                            /\ \A n : Sound(s, n) => Sound(s, n)',
           UNCHANGED course
    PROVE  Relies(q)'
BY DEF Relies

\* A step that changes one row and no object.
LEMMA OneRow ==
    ASSUME DocumentsInv, NEW s \in Slots, NEW r \in Version, r.state # "ABSENT",
           version' = [version EXCEPT ![s] = r],
           UNCHANGED <<store, course>>,
           RowOK(s)'
    PROVE  /\ version' \in [Slots -> Version]
           /\ RowsOK'
           /\ \A q \in Client : Relies(q) => Relies(q)'
<1>1. version' \in [Slots -> Version] /\ \A t \in Slots \ {s} : version'[t] = version[t]
  BY DEF DocumentsInv, TypeOK
<1>2. version'[s] = r
  BY DEF DocumentsInv, TypeOK
<1>3. \A t \in Slots \ {s} : RowOK(t)'
  BY <1>1 DEF DocumentsInv, RowsOK, RowOK, Sound
<1>4. RowsOK'
  BY <1>3 DEF RowsOK
<1>5. \A t, n : Sound(t, n) => Sound(t, n)'
  BY DEF Sound
<1>6. \A q \in Client : Relies(q) => Relies(q)'
  BY <1>1, <1>2, <1>5, ReliesKept
<1> QED
  BY <1>1, <1>4, <1>6

\* The unique constraint: the key of a new row is nobody's.
LEMMA CreateInsertStep ==
    ASSUME DocumentsInv, NEW c \in Clients, NEW s \in Slots, CreateInsert(c, s)
    PROVE  DocumentsInv'
<1> DEFINE k == client[c].key
           r == NewVersion(k, client[c].file)
<1>1. /\ k \in Keys /\ client[c].file \in Files
      /\ version[s].state = "ABSENT" /\ RowOK(s)
      /\ version \in [Slots -> Version] /\ store[s] \in Seq(Contents)
      /\ client \in [Clients -> Client]
      /\ uploads \subseteq Keys \X Slots /\ confirmed \subseteq Keys \X Slots
  BY DEF DocumentsInv, TypeOK, RowsOK, ClientsOK, Relies, CreateInsert
<1>2. r \in Version /\ r.state = "AWAITING_UPLOAD" /\ r.upload_key = k
  BY <1>1 DEF Version, NewVersion
<1>3. /\ version' = [version EXCEPT ![s] = r]
      /\ uploads' = uploads \cup {<<k, s>>}
      /\ client' = [client EXCEPT ![c] = Idle(NewCourse)]
      /\ UNCHANGED <<store, course, confirmed>>
  BY DEF CreateInsert, Finish
<1>4. version'[s] = r /\ \A t \in Slots \ {s} : version'[t] = version[t]
  BY <1>1, <1>3
<1>5. RowOK(s)'
  BY <1>1, <1>2, <1>3, <1>4 DEF RowOK, ConfirmedStates
<1>6. /\ version' \in [Slots -> Version] /\ RowsOK'
      /\ \A q \in Client : Relies(q) => Relies(q)'
  BY <1>2, <1>3, <1>5, OneRow
<1>7. TypeOK'
  BY <1>1, <1>3, <1>6, IdleOK DEF DocumentsInv, TypeOK
<1>8. ClientsOK'
  BY <1>1, <1>3, <1>6, IdleOK DEF DocumentsInv, ClientsOK
<1>9. OneUploadPerKey'
  <2>1. \A t \in Slots : version[t].upload_key # k
    BY <1>1 DEF CreateInsert, Taken, Stored
  <2>2. version[s].upload_key = None
    BY <1>1 DEF RowOK
  <2>3. \A x \in uploads' : version'[x[2]].upload_key = x[1]
    BY <1>1, <1>2, <1>3, <1>4, <2>2 DEF DocumentsInv, OneUploadPerKey
  <2> QED
    BY <1>2, <1>4, <2>1, <2>3 DEF DocumentsInv, OneUploadPerKey
<1>10. OneConfirmation'
  <2>1. version[s].confirmation_key = None
    BY <1>1 DEF RowOK
  <2> QED
    BY <1>1, <1>3, <1>4, <2>1 DEF DocumentsInv, OneConfirmation
<1> QED
  BY <1>6, <1>7, <1>8, <1>9, <1>10 DEF DocumentsInv

\* The locked row: only the first confirmation writes its key.
LEMMA ConfirmCommitStep ==
    ASSUME DocumentsInv, NEW c \in Clients, ConfirmCommit(c)
    PROVE  DocumentsInv'
<1>a. client[c].slot \in Slots
  BY DEF DocumentsInv, ClientsOK, Relies, ConfirmCommit
<1>b. PICK s \in Slots : s = client[c].slot
  BY <1>a
<1> DEFINE k == client[c].key
           n == client[c].found
           r == [version[s] EXCEPT !.state = "QUEUED", !.confirmation_key = k, !.storage_version = n]
<1>1. /\ k \in Keys /\ s \in Slots /\ Sound(s, n) /\ n \in 0 .. MaxObjects
      /\ Unconfirmed(s) /\ RowOK(s)
      /\ version \in [Slots -> Version] /\ version[s] \in Version
      /\ client \in [Clients -> Client]
      /\ uploads \subseteq Keys \X Slots /\ confirmed \subseteq Keys \X Slots
  BY <1>b DEF DocumentsInv, TypeOK, RowsOK, ClientsOK, Relies, ConfirmCommit, Client
<1>2. /\ r \in Version /\ r.state = "QUEUED" /\ r.upload_key = version[s].upload_key
      /\ r.confirmation_key = k /\ r.storage_version = n
  BY <1>1 DEF Version
<1>3. /\ version' = [version EXCEPT ![s] = r]
      /\ confirmed' = confirmed \cup {<<k, s>>}
      /\ client' = [client EXCEPT ![c] = Idle(NewCourse)]
      /\ UNCHANGED <<store, course, uploads>>
  BY <1>b DEF ConfirmCommit, Finish
<1>4. version'[s] = r /\ \A t \in Slots \ {s} : version'[t] = version[t]
  BY <1>1, <1>3
<1> HIDE DEF r
<1>5. RowOK(s)'
  <2>1. course.active # s
    BY <1>1 DEF RowOK, Unconfirmed
  <2> QED
    BY <1>1, <1>2, <1>3, <1>4, <2>1 DEF RowOK, Sound
<1>6. /\ version' \in [Slots -> Version] /\ RowsOK'
      /\ \A q \in Client : Relies(q) => Relies(q)'
  BY <1>1, <1>2, <1>3, <1>5, OneRow
<1>7. TypeOK'
  BY <1>1, <1>3, <1>6, IdleOK DEF DocumentsInv, TypeOK
<1>8. ClientsOK'
  BY <1>1, <1>3, <1>6, IdleOK DEF DocumentsInv, ClientsOK
<1>9. OneUploadPerKey'
  BY <1>1, <1>2, <1>3, <1>4 DEF DocumentsInv, OneUploadPerKey
<1>10. OneConfirmation'
  <2>1. \A x \in confirmed : x[2] # s
    BY <1>1 DEF Unconfirmed, DocumentsInv, OneConfirmation
  <2> QED
    BY <1>1, <1>2, <1>3, <1>4, <2>1 DEF DocumentsInv, OneConfirmation
<1> QED
  BY <1>6, <1>7, <1>8, <1>9, <1>10 DEF DocumentsInv

\* The verdict is about the object that was confirmed.
LEMMA IngestStep ==
    ASSUME DocumentsInv, NEW s \in Slots, Ingest(s)
    PROVE  DocumentsInv'
<1>1. /\ RowOK(s) /\ version[s].state = "QUEUED"
      /\ version \in [Slots -> Version] /\ version[s] \in Version
      /\ uploads \subseteq Keys \X Slots /\ confirmed \subseteq Keys \X Slots
  BY DEF DocumentsInv, TypeOK, RowsOK, Ingest
<1>2. PICK verdict \in {"INDEXED", "REJECTED", "OCR_REQUIRED", "FAILED"} :
        /\ version' = [version EXCEPT ![s] = [version[s] EXCEPT !.state = verdict]]
        /\ verdict \in {"INDEXED", "OCR_REQUIRED"} => Source(s) = version[s].declared
        /\ verdict = "REJECTED" => Source(s) # version[s].declared \/ Source(s) \notin Readable
  BY DEF Ingest, Verdicts
<1> DEFINE r == [version[s] EXCEPT !.state = verdict]
<1>3. /\ r \in Version /\ r.state = verdict /\ r.upload_key = version[s].upload_key
      /\ r.confirmation_key = version[s].confirmation_key /\ r.declared = version[s].declared
      /\ r.storage_version = version[s].storage_version
  BY <1>1 DEF Version
<1>4. version' = [version EXCEPT ![s] = r] /\ UNCHANGED <<store, course, client, uploads, confirmed>>
  BY <1>2 DEF Ingest
<1>5. version'[s] = r /\ \A t \in Slots \ {s} : version'[t] = version[t]
  BY <1>1, <1>4
<1> HIDE DEF r
<1>6. RowOK(s)'
  <2>1. course.active # s /\ Sound(s, version[s].storage_version) /\ Len(store[s]) <= MaxObjects
    BY <1>1 DEF RowOK, ConfirmedStates
  <2> QED
    BY <1>2, <1>3, <1>4, <1>5, <2>1 DEF RowOK, Sound, Source
<1>7. /\ version' \in [Slots -> Version] /\ RowsOK'
      /\ \A q \in Client : Relies(q) => Relies(q)'
  BY <1>3, <1>4, <1>6, OneRow
<1>8. TypeOK'
  BY <1>4, <1>7 DEF DocumentsInv, TypeOK
<1>9. ClientsOK'
  BY <1>4, <1>7 DEF DocumentsInv, TypeOK, ClientsOK
<1>10. OneUploadPerKey' /\ OneConfirmation'
  BY <1>1, <1>3, <1>4, <1>5 DEF DocumentsInv, OneUploadPerKey, OneConfirmation
<1> QED
  BY <1>7, <1>8, <1>9, <1>10 DEF DocumentsInv

\* Objects are put beside the one that was confirmed, never over it.
LEMMA PutStep ==
    ASSUME DocumentsInv, NEW s \in Slots, NEW content \in Contents, Put(s, content)
    PROVE  DocumentsInv'
<1>1. /\ store \in [Slots -> Seq(Contents)] /\ store[s] \in Seq(Contents)
      /\ Len(store[s]) < MaxObjects
      /\ store' = [store EXCEPT ![s] = Append(store[s], content)]
      /\ UNCHANGED <<version, course, client, uploads, confirmed>>
  BY DEF DocumentsInv, TypeOK, Put
<1>2. /\ Append(store[s], content) \in Seq(Contents)
      /\ Len(Append(store[s], content)) = Len(store[s]) + 1
      /\ \A n \in 1 .. Len(store[s]) : Append(store[s], content)[n] = store[s][n]
  BY <1>1, AppendProperties
<1>3. \A t \in Slots : /\ store[t] \in Seq(Contents) /\ Len(store[t]) \in Nat
                       /\ store'[t] \in Seq(Contents) /\ Len(store'[t]) \in Nat
                       /\ Len(store[t]) <= Len(store'[t])
                       /\ Len(store[t]) <= MaxObjects => Len(store'[t]) <= MaxObjects
                       /\ \A n \in 1 .. Len(store[t]) : store'[t][n] = store[t][n]
  BY <1>1, <1>2
<1>4. \A t \in Slots : \A n : Sound(t, n) => Sound(t, n)' /\ store'[t][n] = store[t][n]
  BY <1>3 DEF Sound
<1>5. TypeOK'
  BY <1>1, <1>2 DEF DocumentsInv, TypeOK
<1>6. RowsOK'
  <2> SUFFICES ASSUME NEW t \in Slots PROVE RowOK(t)'
    BY DEF RowsOK
  <2>1. RowOK(t)
    BY DEF DocumentsInv, RowsOK
  <2>2. Len(store'[t]) <= MaxObjects
    BY <1>3, <2>1 DEF RowOK
  <2>3. version[t].state \in ConfirmedStates =>
          /\ Sound(t, version[t].storage_version)'
          /\ store'[t][version[t].storage_version] = store[t][version[t].storage_version]
    BY <1>1, <1>4, <2>1 DEF RowOK, Sound
  <2> QED
    BY <1>1, <2>1, <2>2, <2>3 DEF RowOK, ConfirmedStates
<1>7. ClientsOK'
  BY <1>1, <1>4, ReliesKept DEF DocumentsInv, TypeOK, ClientsOK
<1>8. OneUploadPerKey' /\ OneConfirmation'
  BY <1>1 DEF DocumentsInv, OneUploadPerKey, OneConfirmation
<1> QED
  BY <1>5, <1>6, <1>7, <1>8 DEF DocumentsInv

\* The compare-and-swap: a client that saw the version saw this very course.
LEMMA ActivateStep ==
    ASSUME DocumentsInv, NEW c \in Clients, NEW s \in Slots, Activate(c, s)
    PROVE  /\ DocumentsInv'
           /\ client[c].pc = "publish" /\ client[c].seen = course
<1>1. /\ course \in Course /\ course.version \in Nat /\ course.version < MaxPublications
      /\ course' = [active |-> s, version |-> course.version + 1]
      /\ client \in [Clients -> Client]
      /\ client' = [client EXCEPT ![c] = Idle(NewCourse)]
      /\ UNCHANGED <<version, store, uploads, confirmed>>
  BY DEF DocumentsInv, TypeOK, Activate, Finish, Course
<1>2. course' \in Course /\ course'.active = s /\ course'.version = course.version + 1
  BY <1>1 DEF Course
<1>3. client[c].pc = "publish" /\ client[c].seen = course
  BY DEF DocumentsInv, ClientsOK, Relies, Activate, Current
<1>4. TypeOK'
  BY <1>1, <1>2, IdleOK DEF DocumentsInv, TypeOK
<1>5. RowsOK'
  BY <1>1, <1>2 DEF DocumentsInv, RowsOK, RowOK, Sound, Activate, Publishable
<1>6. \A q \in Client : Relies(q) => Relies(q)'
  <2> SUFFICES ASSUME NEW q \in Client, Relies(q) PROVE Relies(q)'
    OBVIOUS
  <2>1. q.seen.version \in Nat
    BY DEF Client, Course
  <2> QED
    BY <1>1, <1>2, <2>1 DEF Relies, Sound
<1>7. ClientsOK'
  BY <1>1, <1>6, IdleOK DEF DocumentsInv, ClientsOK
<1>8. OneUploadPerKey' /\ OneConfirmation'
  BY <1>1 DEF DocumentsInv, OneUploadPerKey, OneConfirmation
<1> QED
  BY <1>3, <1>4, <1>5, <1>7, <1>8 DEF DocumentsInv

LEMMA NextDocumentsInv == DocumentsInv /\ [Next]_vars => DocumentsInv'
<1> SUFFICES ASSUME DocumentsInv, [Next]_vars PROVE DocumentsInv'
  OBVIOUS
<1>1. CASE UNCHANGED vars
  BY <1>1, SameRows DEF vars, DocumentsInv, TypeOK, ClientsOK
<1> QED
  BY <1>1, CreateAgainStep, CreateLookStep, CreateInsertStep, ActivateStep, ConfirmAgainStep, ConfirmLookStep, InspectStep, ConfirmCommitStep,
     EndStep, IngestStep, PutStep DEF Next

\* What follows from a confirmed row and its object.
LEMMA InvJudges == DocumentsInv => JudgedAsConfirmed
BY DEF DocumentsInv, TypeOK, RowsOK, RowOK, Sound, ConfirmedStates, JudgedAsConfirmed

LEMMA Inductive == Spec => []DocumentsInv
BY InitDocumentsInv, NextDocumentsInv, PTL DEF Spec

-----------------------------------------------------------------------------

\* Rows, objects, requests and replies keep their types.
THEOREM TypeCorrect == Spec => []TypeOK
<1>1. DocumentsInv => TypeOK
  BY DEF DocumentsInv
<1> QED
  BY <1>1, Inductive, PTL

\* A key names one version for every number of concurrent and repeated
\* requests (create_upload and its unique constraint).
THEOREM OneUploadPerKeyHolds == Spec => []OneUploadPerKey
<1>1. DocumentsInv => OneUploadPerKey
  BY DEF DocumentsInv
<1> QED
  BY <1>1, Inductive, PTL

\* Whoever was told that an upload is confirmed used the key in its row
\* (confirm_upload, whose first look and HEAD request hold no lock).
THEOREM OneConfirmationHolds == Spec => []OneConfirmation
<1>1. DocumentsInv => OneConfirmation
  BY DEF DocumentsInv
<1> QED
  BY <1>1, Inductive, PTL

\* The object that is judged and published is the one that was inspected,
\* whatever is put under its key afterwards: what is indexed, published or
\* sent to OCR is the declared file, and a readable one is rejected only for
\* other bytes (ObjectStorage.read with the confirmed version, process).
THEOREM JudgedAsConfirmedHolds == Spec => []JudgedAsConfirmed
BY InvJudges, Inductive, PTL

\* No publication overwrites one that its teacher has not seen
\* (activate_corpus).
THEOREM NoLostPublicationHolds == Spec => NoLostPublication
<1>1. ASSUME DocumentsInv, [Next]_vars
      PROVE  course' # course =>
                /\ course'.version = course.version + 1
                /\ \E c \in Clients : client[c].pc = "publish" /\ client[c].seen = course
  <2>1. course' # course => \E c \in Clients, s \in Slots : Activate(c, s)
    BY <1>1 DEF Next, vars, CreateAgain, CreateLook, CreateInsert, ConfirmAgain, ConfirmLook,
       CreateRefused, Inspect, ConfirmCommit, ConfirmLost, ReadCourse, ActivateRefused, Ingest, Put
  <2>2. ASSUME NEW c \in Clients, NEW s \in Slots, Activate(c, s)
        PROVE  course'.version = course.version + 1
    BY <2>2 DEF Activate
  <2> QED
    BY <1>1, <2>1, <2>2, ActivateStep
<1> QED
  BY <1>1, Inductive, PTL DEF NoLostPublication, Spec

(***************************************************************************)
(* The creation of courses.                                                *)
(***************************************************************************)
Transaction ==
    [pc : {"user", "find", "create"}, user : Users, key : CreationKeys \cup {NoKey},
     title : Titles, inserted : {"no", "yes"}]

Creation == [id : CourseIds, title : Titles, user : Users, key : CreationKeys \cup {NoKey}]

CourseTypeOK ==
    /\ request \in [Requests -> {NotRunning} \cup Transaction]
    /\ created \subseteq Creation

\* The locked row of the user: one request with a key at a time is past it.
OneCreator ==
    \A r, s \in Running :
        /\ request[r].pc = "create" /\ request[s].pc = "create"
        /\ request[r].user = request[s].user
        /\ request[r].key # NoKey /\ request[s].key # NoKey
        => r = s

\* course_creations holds one row for a user and a key.
OneCreation ==
    \A x, y \in created : x.user = y.user /\ x.key = y.key /\ x.key # NoKey => x = y

\* Nobody is told of a creation that is not stored.
RepliesStored == \A x \in replies : x.key # NoKey => Previous(x.user, x.key) # {}

\* The inductive invariant.
CourseInv ==
    /\ CourseTypeOK
    /\ OneCreator
    /\ OneCreation
    /\ RepliesStored
    /\ OneCoursePerKey

USE CoursesAssumption

LEMMA InitCourseInv == CourseInit => CourseInv
BY DEF CourseInit, CourseInv, CourseTypeOK, OneCreator, OneCreation, RepliesStored,
       OneCoursePerKey, Running, NotRunning

\* A request whose transaction is running has one.
LEMMA RunningTransaction ==
    ASSUME CourseTypeOK, NEW r \in Requests, request[r].pc \in {"user", "find", "create"}
    PROVE  r \in Running /\ request[r] \in Transaction
BY DEF CourseTypeOK, Running, NotRunning

\* A step that stores nothing and lets no request past the lock.
LEMMA QuietStep ==
    ASSUME CourseInv, CourseTypeOK', UNCHANGED <<created, replies>>,
           \A r \in Requests : request'[r].pc = "create" =>
                \/ request'[r] = request[r]
                \/ request'[r].key = NoKey
    PROVE  CourseInv'
<1> USE DEF CourseInv
<1>1. \A u, k : Previous(u, k)' = Previous(u, k)
  BY DEF Previous
<1>2. \A r \in Running' : r \in Requests
  BY DEF Running
<1>3. \A r \in Running' : request'[r].pc = "create" /\ request'[r].key # NoKey =>
          r \in Running /\ request'[r] = request[r]
  BY <1>2 DEF Running
<1>4. \A u : Previous(u, NoKey) = {}
  BY DEF Previous
<1>5. OneCreator'
  BY <1>3 DEF OneCreator
<1>6. OneCreation' /\ RepliesStored'
  BY <1>1 DEF OneCreation, RepliesStored
<1>7. OneCoursePerKey'
  BY <1>1, <1>2, <1>3, <1>4 DEF OneCoursePerKey
<1> QED
  BY <1>5, <1>6, <1>7

LEMMA BeginStep ==
    ASSUME CourseInv, NEW r \in Requests, NEW u \in Users, NEW k \in CreationKeys \cup {NoKey},
           NEW t \in Titles, Begin(r, u, k, t)
    PROVE  CourseInv'
<1>1. CourseTypeOK'
  BY DEF CourseInv, CourseTypeOK, Begin, Transaction
<1>2. \A q \in Requests : request'[q].pc = "create" => request'[q] = request[q]
  BY DEF CourseInv, CourseTypeOK, Begin
<1> QED
  BY <1>1, <1>2, QuietStep DEF Begin

LEMMA InsertUserStep ==
    ASSUME CourseInv, NEW r \in Requests, InsertUser(r)
    PROVE  CourseInv'
<1>1. request[r] \in Transaction
  BY RunningTransaction DEF CourseInv, InsertUser
<1>2. PICK pc \in {"find", "create"}, done \in {"no", "yes"} :
        /\ request' = [request EXCEPT ![r] = [request[r] EXCEPT !.pc = pc, !.inserted = done]]
        /\ pc = "create" => request[r].key = NoKey
  BY <1>1 DEF CourseInv, CourseTypeOK, InsertUser, Transaction
<1>3. [request[r] EXCEPT !.pc = pc, !.inserted = done] \in Transaction
  BY <1>1 DEF Transaction
<1>4. CourseTypeOK'
  BY <1>2, <1>3 DEF CourseInv, CourseTypeOK, InsertUser
<1>5. \A q \in Requests : request'[q].pc = "create" =>
          request'[q] = request[q] \/ request'[q].key = NoKey
  BY <1>1, <1>2 DEF CourseInv, CourseTypeOK, Transaction
<1> QED
  BY <1>4, <1>5, QuietStep DEF InsertUser

\* A request that ends without an effect, or an administrator's step.
LEMMA EndCourseStep ==
    ASSUME CourseInv, \/ \E r \in Requests : Rollback(r)
                      \/ \E u \in Users, c \in CourseIds : Revoke(u, c)
                      \/ UNCHANGED courseVars
    PROVE  CourseInv'
<1>1. /\ UNCHANGED <<created, replies>>
      /\ \/ \E r \in Requests : request' = [request EXCEPT ![r] = NotRunning]
         \/ request' = request
  BY DEF Rollback, Revoke, courseVars
<1>2. CourseTypeOK'
  BY <1>1 DEF CourseInv, CourseTypeOK
<1>3. \A q \in Requests : request'[q].pc = "create" => request'[q] = request[q]
  <2>1. NotRunning.pc # "create"
    BY DEF NotRunning
  <2> QED
    BY <1>1, <2>1 DEF CourseInv, CourseTypeOK
<1> QED
  BY <1>1, <1>2, <1>3, QuietStep

\* The first request with its key takes the lock and goes on; a repetition
\* finds the creation and ends.
LEMMA FindStep ==
    ASSUME CourseInv, NEW r \in Requests, Find(r)
    PROVE  CourseInv'
<1> DEFINE q == request[r]
<1> USE DEF CourseInv
<1>1. q \in Transaction /\ created' = created
  BY RunningTransaction DEF Find
<1>2. \A u, k : Previous(u, k)' = Previous(u, k)
  BY <1>1 DEF Previous
<1>3. CASE Previous(q.user, q.key) = {}
  <2>1. /\ request' = [request EXCEPT ![r] = [q EXCEPT !.pc = "create"]]
        /\ replies' = replies
        /\ Lockable(q.user)
    BY <1>3 DEF Find, CourseTypeOK
  <2>2. [q EXCEPT !.pc = "create"] \in Transaction
    BY <1>1 DEF Transaction
  <2>3. CourseTypeOK'
    BY <1>1, <2>1, <2>2 DEF CourseTypeOK
  <2>4. \A s \in Running' : s # r => s \in Running /\ request'[s] = request[s]
    BY <2>1 DEF Running, CourseTypeOK
  <2>5. request'[r].user = q.user /\ request'[r].key = q.key
    BY <1>1, <2>1 DEF Transaction, CourseTypeOK
  <2>6. OneCreator'
    BY <2>1, <2>4, <2>5 DEF OneCreator, Lockable
  <2>7. OneCreation' /\ RepliesStored'
    BY <1>1, <1>2, <2>1 DEF OneCreation, RepliesStored
  <2>8. OneCoursePerKey'
    BY <1>2, <1>3, <2>1, <2>4, <2>5 DEF OneCoursePerKey
  <2> QED
    BY <2>3, <2>6, <2>7, <2>8
<1>4. CASE Previous(q.user, q.key) # {}
  <2>1. request' = [request EXCEPT ![r] = NotRunning]
    BY <1>4 DEF Find
  <2>2. CourseTypeOK'
    BY <1>1, <2>1 DEF CourseTypeOK
  <2>3. \A s \in Running' : s \in Running /\ request'[s] = request[s]
    BY <2>1 DEF Running, CourseTypeOK
  <2>4. \A a \in replies' :
          \/ a \in replies
          \/ \E x \in Previous(q.user, q.key) : a.user = q.user /\ a.key = q.key /\ a.course = x.id
    <3>1. PICK x \in Previous(q.user, q.key) : replies' = replies \/ Reply(q, x)
      BY <1>4 DEF Find
    <3> QED
      BY <3>1 DEF Reply
  <2>5. \A x, y \in Previous(q.user, q.key) : x = y
    BY DEF Previous, OneCreation
  <2>6. OneCreator' /\ OneCreation'
    BY <1>1, <2>3 DEF OneCreator, OneCreation
  <2>7. RepliesStored'
    BY <1>2, <1>4, <2>4 DEF RepliesStored
  <2>8. OneCoursePerKey'
    BY <1>2, <2>3, <2>4, <2>5 DEF OneCoursePerKey
  <2> QED
    BY <2>2, <2>6, <2>7, <2>8
<1> QED
  BY <1>3, <1>4

LEMMA CreateStep ==
    ASSUME CourseInv, NEW r \in Requests, Create(r)
    PROVE  CourseInv'
<1> DEFINE q == request[r]
<1> USE DEF CourseInv
<1>1. q \in Transaction /\ r \in Running /\ q.pc = "create"
  BY RunningTransaction DEF Create
<1>2. PICK c \in CourseIds :
        LET x == [id |-> c, title |-> q.title, user |-> q.user, key |-> q.key] IN
        /\ created' = created \cup {x}
        /\ Reply(q, x)
  BY DEF Create
<1> DEFINE x == [id |-> c, title |-> q.title, user |-> q.user, key |-> q.key]
           a == [user |-> q.user, key |-> q.key, title |-> q.title, course |-> c]
<1>3. created' = created \cup {x} /\ replies' = replies \cup {a}
  BY <1>2 DEF Reply
<1>4. Previous(q.user, q.key) = {} /\ request' = [request EXCEPT ![r] = NotRunning]
  BY DEF Create
<1>5. x \in Creation
  BY <1>1 DEF Creation, Transaction
<1>6. CourseTypeOK'
  BY <1>3, <1>4, <1>5 DEF CourseTypeOK
<1>7. \A s \in Running' : s # r /\ s \in Running /\ request'[s] = request[s]
  BY <1>4 DEF Running, CourseTypeOK
<1>8. \A u, k :
         \/ Previous(u, k)' = Previous(u, k)
         \/ u = q.user /\ k = q.key /\ k # NoKey /\ Previous(u, k)' = {x}
  BY <1>3, <1>4 DEF Previous
<1>9. OneCreator'
  BY <1>7 DEF OneCreator
<1>10. OneCreation'
  BY <1>3, <1>4 DEF OneCreation, Previous
<1>11. RepliesStored'
  <2>1. q.key # NoKey => \A u, k : u = q.user /\ k = q.key => x \in Previous(u, k)'
    BY <1>3 DEF Previous
  <2> QED
    BY <1>3, <1>8, <2>1 DEF RepliesStored
<1>12. ASSUME NEW b \in replies', b.key # NoKey, NEW y \in Previous(b.user, b.key)'
       PROVE  y.id = b.course
  <2>1. CASE b = a
    BY <1>3, <1>4, <1>8, <1>12, <2>1 DEF Previous
  <2>2. CASE b \in replies
    BY <1>4, <1>8, <1>12, <2>2 DEF RepliesStored, OneCoursePerKey
  <2> QED
    BY <1>3, <1>12, <2>1, <2>2
<1>13. ASSUME NEW s \in Running', request'[s].pc = "create"
       PROVE  Previous(request[s].user, request[s].key)' = {}
  <2>1. Previous(request[s].user, request[s].key) = {}
    BY <1>7, <1>13 DEF OneCoursePerKey
  <2>2. ~ (request[s].user = q.user /\ request[s].key = q.key /\ q.key # NoKey)
    BY <1>1, <1>7, <1>13 DEF OneCreator
  <2> QED
    BY <1>7, <1>8, <2>1, <2>2
<1>14. OneCoursePerKey'
  BY <1>12, <1>13 DEF OneCoursePerKey
<1> QED
  BY <1>6, <1>9, <1>10, <1>11, <1>14

LEMMA NextCourseInv == CourseInv /\ [CourseNext]_courseVars => CourseInv'
BY BeginStep, InsertUserStep, FindStep, CreateStep, EndCourseStep DEF CourseNext

\* A request that is repeated, at once or later, is answered by the course of
\* the first and never refused by the constraint, for any number of
\* identities, keys and requests (CourseService.create_course).
THEOREM OneCourse == CourseSpec => []OneCoursePerKey
<1>1. CourseSpec => []CourseInv
  BY InitCourseInv, NextCourseInv, PTL DEF CourseSpec
<1>2. CourseInv => OneCoursePerKey
  BY DEF CourseInv
<1> QED
  BY <1>1, <1>2, PTL
=============================================================================
