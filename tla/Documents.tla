----------------------------- MODULE Documents -----------------------------
(***************************************************************************)
(* The documents of one course: teachers' clients that create uploads, put *)
(* objects in the versioned bucket, confirm them and publish a corpus, all *)
(* at once and with repeated requests.                                     *)
(*                                                                         *)
(* A request is a step for each transaction and each call to the object    *)
(* store; a request that is refused ends without a change, whatever the    *)
(* reason, and its client may send another.  Ingestion is the one step     *)
(* that module IngestionJobs refines.  A document version, its storage key *)
(* and its corpus have one name here, a slot: each belongs to exactly one  *)
(* of the others.                                                          *)
(*                                                                         *)
(* Definitions named Action_Variant are faulty variants that no            *)
(* specification uses.                                                     *)
(***************************************************************************)
EXTENDS Naturals, Sequences

CONSTANTS
    Clients,          \* requests under way at one time
    Keys,             \* idempotency keys
    Files,            \* files of one size that teachers declare and upload
    Readable,         \* those that the parser accepts and finds text in
    Truncated,        \* an object of another size
    Slots,            \* bound: document versions of the course
    MaxObjects,       \* bound: times an object is put under one storage key
    MaxPublications,  \* bound: activations
    None              \* SQL NULL / Python None

Contents == Files \cup {Truncated}

ASSUME DocumentsAssumption ==
    /\ MaxObjects \in Nat /\ MaxPublications \in Nat
    /\ Readable \subseteq Files
    /\ Truncated \notin Files
    /\ None \notin Keys \cup Contents \cup Slots

VARIABLES
    version,    \* document_versions (and, once INDEXED, its READY corpus)
    store,      \* the bucket: the object versions under each storage key
    course,     \* the course row: its active corpus and its version
    client,     \* the request each client has under way
    uploads,    \* create_upload replies: <<key, slot>>
    confirmed   \* successful confirm_upload replies: <<key, slot>>

vars == <<version, store, course, client, uploads, confirmed>>

Version ==
    [state : {"ABSENT", "AWAITING_UPLOAD", "QUEUED", "INDEXED", "REJECTED",
              "OCR_REQUIRED", "FAILED"},
     upload_key : Keys \cup {None},
     declared : Files \cup {None},
     confirmation_key : Keys \cup {None},
     storage_version : 0 .. MaxObjects]

Course == [active : Slots \cup {None}, version : 0 .. MaxPublications]

Client ==
    [pc : {"idle", "insert", "inspect", "confirm", "publish"},
     key : Keys \cup {None},
     file : Files \cup {None},
     slot : Slots \cup {None},
     found : 0 .. MaxObjects,
     seen : Course]

Idle(seen) ==
    [pc |-> "idle", key |-> None, file |-> None, slot |-> None, found |-> 0, seen |-> seen]

NewCourse == [active |-> None, version |-> 0]

Init ==
    /\ version = [s \in Slots |->
                    [state |-> "ABSENT", upload_key |-> None, declared |-> None,
                     confirmation_key |-> None, storage_version |-> 0]]
    /\ store = [s \in Slots |-> << >>]
    /\ course = NewCourse
    /\ client = [c \in Clients |-> Idle(NewCourse)]
    /\ uploads = {}
    /\ confirmed = {}

Finish(c) == client' = [client EXCEPT ![c] = Idle(NewCourse)]

-----------------------------------------------------------------------------
(* create_upload.                                                          *)

Stored(k) == {s \in Slots : version[s].upload_key = k}

\* The key is known: the same request gets the same upload again while it
\* awaits its object.
CreateAgain(c, k, f) ==
    /\ client[c].pc = "idle"
    /\ \E s \in Stored(k) :
         /\ version[s].declared = f
         /\ version[s].state = "AWAITING_UPLOAD"
         /\ uploads' = uploads \cup {<<k, s>>}
    /\ UNCHANGED <<version, store, course, client, confirmed>>

CreateLook(c, k, f) ==
    /\ client[c].pc = "idle"
    /\ Stored(k) = {}
    /\ client' = [client EXCEPT ![c] = [@ EXCEPT !.pc = "insert", !.key = k, !.file = f]]
    /\ UNCHANGED <<version, store, course, uploads, confirmed>>

\* uq_document_versions_upload_idempotency: the insert of a key that another
\* request stored meanwhile fails.
Taken_Unconstrained(k) == FALSE
Taken(k) == Stored(k) # {}

\* The row of a new upload.
NewVersion(k, f) ==
    [state |-> "AWAITING_UPLOAD", upload_key |-> k, declared |-> f,
     confirmation_key |-> None, storage_version |-> 0]

CreateInsert(c, s) ==
    LET k == client[c].key IN
    /\ client[c].pc = "insert"
    /\ ~ Taken(k)
    /\ version[s].state = "ABSENT"
    /\ version' = [version EXCEPT ![s] = NewVersion(k, client[c].file)]
    /\ uploads' = uploads \cup {<<k, s>>}
    /\ Finish(c)
    /\ UNCHANGED <<store, course, confirmed>>

\* The constraint refuses the row, or the course has no slot left.
CreateRefused(c) ==
    /\ client[c].pc = "insert"
    /\ Taken(client[c].key) \/ \A s \in Slots : version[s].state # "ABSENT"
    /\ Finish(c)
    /\ UNCHANGED <<version, store, course, uploads, confirmed>>

\* The holder of a presigned URL puts an object, any object: the signature
\* covers its media type and its declared checksum, not its bytes.
Put(s, content) ==
    /\ version[s].state # "ABSENT"
    /\ Len(store[s]) < MaxObjects
    /\ store' = [store EXCEPT ![s] = Append(@, content)]
    /\ UNCHANGED <<version, course, client, uploads, confirmed>>

-----------------------------------------------------------------------------
(* confirm_upload.                                                         *)

\* A confirmed upload: only a request with its key shares its success.
Shares_AnyKey(k, s) == version[s].confirmation_key # None
Shares(k, s) == version[s].confirmation_key = k

\* _existing_confirmation finds the same confirmation.
ConfirmAgain(c, k, s) ==
    /\ client[c].pc = "idle"
    /\ Shares(k, s)
    /\ confirmed' = confirmed \cup {<<k, s>>}
    /\ UNCHANGED <<version, store, course, client, uploads>>

\* _existing_confirmation finds none.
ConfirmLook(c, k, s) ==
    /\ client[c].pc = "idle"
    /\ version[s].state # "ABSENT"
    /\ version[s].confirmation_key = None
    /\ client' = [client EXCEPT ![c] = [@ EXCEPT !.pc = "inspect", !.key = k, !.slot = s]]
    /\ UNCHANGED <<version, store, course, uploads, confirmed>>

\* _validate_stored_object: the size is the object's own, the checksum only
\* its metadata.
Acceptable(content) == content # Truncated

\* inspect: HEAD of the newest object version, without any lock.
Inspect(c) ==
    LET objects == store[client[c].slot] IN
    /\ client[c].pc = "inspect"
    /\ IF objects # << >> /\ Acceptable(objects[Len(objects)])
       THEN client' = [client EXCEPT ![c] = [@ EXCEPT !.pc = "confirm", !.found = Len(objects)]]
       ELSE Finish(c)
    /\ UNCHANGED <<version, store, course, uploads, confirmed>>

\* The row is locked and still unconfirmed: confirmation, job and event.
Unconfirmed(s) ==
    /\ version[s].confirmation_key = None
    /\ version[s].state = "AWAITING_UPLOAD"

ConfirmCommit(c) ==
    LET k == client[c].key
        s == client[c].slot
    IN
    /\ client[c].pc = "confirm"
    /\ Unconfirmed(s)
    /\ version' = [version EXCEPT ![s] = [@ EXCEPT !.state = "QUEUED",
                                                   !.confirmation_key = k,
                                                   !.storage_version = client[c].found]]
    /\ confirmed' = confirmed \cup {<<k, s>>}
    /\ Finish(c)
    /\ UNCHANGED <<store, course, uploads>>

\* Another request confirmed it first: the same key shares its success.
ConfirmLost(c) ==
    LET k == client[c].key
        s == client[c].slot
    IN
    /\ client[c].pc = "confirm"
    /\ ~ Unconfirmed(s)
    /\ confirmed' = IF Shares(k, s)
                    THEN confirmed \cup {<<k, s>>} ELSE confirmed
    /\ Finish(c)
    /\ UNCHANGED <<version, store, course, uploads>>

-----------------------------------------------------------------------------
(* Ingestion, seen from outside.                                           *)

\* ObjectStorage.read: the object version that was confirmed.
Source_Newest(s) == store[s][Len(store[s])]
Source(s) == store[s][version[s].storage_version]

\* Other bytes than the declared ones are rejected before they are parsed.
\* Of the declared ones the parser rejects what is no PDF, is encrypted or
\* has too many pages, and sends what has no text to OCR.
Verdicts(s) ==
    IF Source(s) # version[s].declared THEN {"REJECTED"}
    ELSE IF Source(s) \in Readable THEN {"INDEXED"}
    ELSE {"REJECTED", "OCR_REQUIRED"}

\* Ingestion ends with the verdict, or fails for a reason that is not in the
\* object.
Ingest(s) ==
    /\ version[s].state = "QUEUED"
    /\ \E verdict \in Verdicts(s) \cup {"FAILED"} :
         version' = [version EXCEPT ![s] = [@ EXCEPT !.state = verdict]]
    /\ UNCHANGED <<store, course, client, uploads, confirmed>>

-----------------------------------------------------------------------------
(* activate_corpus.                                                        *)

\* The client reads the course before it publishes.
ReadCourse(c) ==
    /\ client[c].pc = "idle"
    /\ client' = [client EXCEPT ![c] = [@ EXCEPT !.pc = "publish", !.seen = course]]
    /\ UNCHANGED <<version, store, course, uploads, confirmed>>

\* The WHERE clause of the compare-and-swap.
Current_Unchecked(c) == TRUE
Current(c) == course.version = client[c].seen.version

Publishable(s) == version[s].state = "INDEXED"

Activate(c, s) ==
    /\ client[c].pc = "publish"
    /\ Publishable(s)
    /\ Current(c)
    /\ course.version < MaxPublications
    /\ course' = [active |-> s, version |-> course.version + 1]
    /\ Finish(c)
    /\ UNCHANGED <<version, store, uploads, confirmed>>

\* No such corpus yet, or the course changed: the client gives up or reads
\* the course again.
ActivateRefused(c) ==
    /\ client[c].pc = "publish"
    /\ \/ ~ Current(c)
       \/ course.version = MaxPublications
       \/ \A s \in Slots : ~ Publishable(s)
    /\ Finish(c)
    /\ UNCHANGED <<version, store, course, uploads, confirmed>>

-----------------------------------------------------------------------------
Next ==
    \/ \E c \in Clients, k \in Keys, f \in Files : CreateAgain(c, k, f) \/ CreateLook(c, k, f)
    \/ \E c \in Clients, s \in Slots : CreateInsert(c, s) \/ Activate(c, s)
    \/ \E c \in Clients, k \in Keys, s \in Slots : ConfirmAgain(c, k, s) \/ ConfirmLook(c, k, s)
    \/ \E c \in Clients :
         \/ CreateRefused(c)
         \/ Inspect(c)
         \/ ConfirmCommit(c)
         \/ ConfirmLost(c)
         \/ ReadCourse(c)
         \/ ActivateRefused(c)
    \/ \E s \in Slots : Ingest(s) \/ \E content \in Contents : Put(s, content)

Spec == Init /\ [][Next]_vars

-----------------------------------------------------------------------------
(* Properties.                                                             *)

\* Rows, objects, requests and replies stay in their sets.
TypeOK ==
    /\ version \in [Slots -> Version]
    /\ store \in [Slots -> Seq(Contents)]
    /\ course \in Course
    /\ client \in [Clients -> Client]
    /\ uploads \subseteq Keys \X Slots
    /\ confirmed \subseteq Keys \X Slots

\* However often and however concurrently an upload is requested, its key
\* names one version, and every reply for the key names that version.
OneUploadPerKey ==
    /\ \A s, t \in Slots :
         version[s].upload_key = version[t].upload_key /\ version[s].upload_key # None => s = t
    /\ \A x \in uploads : version[x[2]].upload_key = x[1]

\* An upload is confirmed once: requests that raced past the unlocked check
\* learn that another key won, and whoever was told of success used the key
\* that the row holds.
OneConfirmation == \A x \in confirmed : version[x[2]].confirmation_key = x[1]

\* Ingestion judges the very object that was inspected.  Objects put under
\* the same key afterwards neither spoil a good upload nor repair a bad one:
\* what is indexed, and what is published, is the declared file; OCR is asked
\* for no other; and a readable file is rejected only if other bytes than its
\* own were confirmed.
JudgedAsConfirmed ==
    \A s \in Slots :
        LET content == store[s][version[s].storage_version] IN
        /\ version[s].state \in {"INDEXED", "OCR_REQUIRED"} => content = version[s].declared
        /\ version[s].state = "REJECTED" =>
             content \in Files /\ (content # version[s].declared \/ content \notin Readable)
        /\ course.active = s => content = version[s].declared

\* A corpus replaces exactly the one its teacher saw as active: of several
\* who publish from the same view, one succeeds and nobody's publication is
\* overwritten unseen.
NoLostPublication ==
    [][course' # course =>
         /\ course'.version = course.version + 1
         /\ \E c \in Clients : client[c].pc = "publish" /\ client[c].seen = course]_vars
=============================================================================
