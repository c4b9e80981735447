# A verification development for Docta

Docta is a tutoring service for university courses. Teachers upload PDFs; a pipeline turns each
document version into an immutable, searchable corpus; students ask questions in conversations
and get answers that cite exact fragments of the corpus that was active when they asked. The
code keeps all durable state in PostgreSQL, objects in a versioned S3 bucket, and queues in
Redis, and every part of it is written to survive the loss of any process at any moment.

This directory holds TLA+ models of that code, the TLC configurations that check them and proofs
that the TLA+ proof system checks. `PROJECT.json` maps every definition to the source lines it
translates, lists the hazards of the code with the properties that cover them, and names, for
every property, a plausible bug (`X_Variant` in the modules) that the property would notice.

## 1. Inventory

Paths are relative to `src/apps/api/src/docta_api/` unless they start with `src/`.

| Component | State it keeps | Operations | What is hard | What makes it correct | Status |
|---|---|---|---|---|---|
| Ingestion pipeline: `jobs.py`, `redis_jobs.py`, `ingestion.py`, `worker.py` | job rows, outbox rows, version state, corpora; a Redis stream with one consumer group; each worker's tick | confirm enlists an event; reconcile; relay (lease, XADD, mark); claim, process, persist; acknowledge | duplicate and lost deliveries, stale workers, crashes between commit and XADD or XACK, leases and backoffs that run out, a lost stream | exactly one corpus or one dead letter, whatever happens; nothing forgotten | modelled, checked, proved |
| Documents and corpora: `documents.py`, `s3_object_storage.py` | version rows, the bucket's object versions, `courses.active_corpus_version_id`, `courses.version` | create upload, put object, confirm, activate | check-then-insert, inspect-then-lock, replaced objects, compare-and-swap, repeated requests | one version per key, one confirmation, the inspected object is the ingested one, no lost publication | modelled, checked, proved |
| Conversations: `conversations.py`, `conversation_runtime.py`, `retrieval_auth.py`, `rag.py` | message rows, evidence, citations; one asyncio task per new message; transactions in worker threads | accept, request, authorize, retrieve, save evidence, generate, validate, complete, fail, expire | cancellation that abandons a running transaction, timeouts, the reaper, replayed requests, restarts, corpus or membership changed mid-turn | one question at a time, settled once and for ever, one model call, grounded citations | modelled, checked, proved |
| Tutor contract and validation: `tutor_contract.py`, `rag.py`, the adapter of `tutor_http.py`, what the web shows of it | none; an answer passes through six layers | clean and parse the reply, coherence, derived text, mode and actions, validation and repair of citations, storage, rendering | overlapping rules of several layers, none of which repeats all the rules of the others | what one layer accepts the next can store and show; nothing ungrounded is stored | modelled, checked, proved |
| Courses: `courses.py`, `workspace.py` | users, courses, memberships, creation keys | create with an optional key, read, list | concurrent first requests of one identity, repeated requests | one course per key and owner | modelled, checked, proved |
| Retrieval: `postgres_retriever.py`, `dense_retriever.py` | none | authorize, scope, lexeme coverage, ranking | membership or corpus changed between two transactions | a question whose owner was removed, or whose deadline passed, before the last authorization gets nothing of the course | scope and authorization modelled, checked, proved; coverage and ranking not |
| Chunking: `document_parser.py` | none | split pages into overlapping chunks | progress and coverage at boundaries | every character in a chunk, every short passage whole in one, sizes bounded | modelled, checked, proved |
| Development environment: `src/scripts/dev.py`, `dev_state.py` | profile files, locks, identities at the identity provider | provision, recover, migrate a legacy profile | a crash after a remote create and before the local record, lagging searches, volumes deleted and restored between commands | nothing is created twice or forgotten, retained data never meets new subjects | modelled, checked, proved |
| Web tutor panel: `src/apps/web/components/tutor-panel.tsx`, `src/apps/web/lib/docta.ts`, `sse.ts` | React state and refs: selection, messages, request counter, keys of the next turn and of the next conversation, recovery offer, errors | load, select, create, ask, act, recover, poll, read the event stream | late answers for an earlier selection, lost requests and answers, repeated sends, other tabs | never an older history on the screen, no orphaned conversation, an offer that can be accepted; the conversation shown is the selected one, and no submission is lost or repeated, except by actions clicked ahead of the panel (findings 3 and 4) | modelled, checked, proved |
| Web material panel and shell: `src/apps/web/components/material-panel.tsx`, `workspace.tsx` | upload attempts, list and polling, publication under way; the shell's course | open, close, choose, upload, confirm, list, publish and refresh | retries of half-done uploads, late requests, expired URLs, stale course versions, late list answers | one document per file, no try lasts for ever, no document stays "working" on the screen | panel modelled, checked, proved; of the shell the refresh it awaits |
| Embedding requests, identity clients, configuration, schema migrations, interactive clients (`dev_token.py`, `dev_pdf_upload.py`), rendering, infrastructure | none of their own | request/response, wiring | - | - | not modelled: libraries, I/O and data handling without control state |

How they interact: `confirm_upload` inserts the ingestion job and its outbox event in its own
transaction, which is all the pipeline needs; the pipeline ends a version `INDEXED` with a READY
corpus, which `activate_corpus` may publish; `accept` pins the published corpus to a message, and
everything a turn does afterwards goes through that pinned value. There is no other shared state
in the service. The tutor panel drives `accept` and reads conversations through HTTP and holds
nothing durable, and so does the material panel with uploads, documents and publications; the
development scripts prepare the identities that the API verifies tokens of.

## 2. Modules

| Module | Models | Checked by |
|---|---|---|
| `AbstractIngestion` | what ingestion promises for one document version, without queue, lease or worker | refined by `IngestionJobs` |
| `IngestionJobs` | the pipeline, one action per transaction or Redis command | `MCIngestion` with two configurations; `IngestionProofs` |
| `AbstractTurns` | what a conversation promises: turns asked one at a time and settled once | refined by `Conversations` |
| `Conversations` | one conversation: rows, tasks, abandoned threads, reaper | `MCConversations` with three configurations; `ConversationsProofs` |
| `Documents` | uploads, confirmations and publications of one course | `MCDurableState`; `DocumentsProofs` |
| `Courses` | the creation of courses, one action per statement of its transaction | `MCDurableState`; `DocumentsProofs` |
| `MaterialPanel` | the material panel against an API that keeps versions per key | `MCDataPaths`; `MaterialPanelProofs` |
| `TutorPanel` | the tutor panel against an API that stores turns and conversations per key | `MCTutorPanel` with five configurations; `TutorPanelProofs` |
| `Provisioner` | bootstrap and identity recovery of the development environment | `MCDurableState`; `ProvisionerProofs` |
| `Chunking` | `build_chunks`, one action per turn of its loop | `MCDataPaths`; `ChunkingProofs` |
| `Answers` | one answer from the model's reply to the screen | `MCDataPaths`; `AnswersProofs` |

The modules `...Proofs` hold the theorems about the module they are named after and their proofs;
`DocumentsProofs` also those about `Courses`. The type invariants (`TypeOK`, `ChunkTypeOK`,
`ProvisionerTypeOK`) are proved, that of `TutorPanel` in part, and the runs spend their time on the
other properties.

### IngestionJobs

`job`, `version`, `corpora` and `outbox` are the rows of `ingestion_jobs`, `document_versions`,
READY `corpus_versions` and `outbox_events`; `stream` is the Redis stream together with the
group's pending entries; `worker` is where each worker is in `WorkerRuntime.tick` and what it
remembers. `Database.session()` commits when its block ends and rolls back on an exception, and
the code locks the rows it changes, so each block is one action: `Reconcile`, `LeaseEvent`,
`MarkPublished`, `ClaimIgnored`/`ClaimExhausted`/`ClaimTaken`, `PersistSuccess`/`PersistRetry`/
`PersistFailure` and `CheckAcknowledgeable`. XADD, XAUTOCLAIM/XREADGROUP and XACK+XDEL are
`PublishDelivery`, `Reclaim`/`ReadNew` and `Acknowledge`. `Work` is everything between claim and
persist, which touches no shared state; its verdict is the exception that `process`
distinguishes, and the verification errors inside `_persist_success` have the effect of the
verdict FAILED.

Instants are abstracted to the comparisons the code makes: a lease is `live` or `expired`, a
backoff `later` or `reached`, a publication `fresh` or `stale`, a delivery `busy` or `idle`. The
order in which relays and consumers pick rows and entries is left open, which allows more
behaviours than the `ORDER BY` does. The reconcile interval and the XAUTOCLAIM cursor only delay
what a worker sees, and are covered by the instants passing late.

### Conversations

`msgs` is the table of messages with their evidence and citations, `run` the task that
`ConversationRuntime` holds for each, `threads` the transactions whose task was cancelled while
they ran in a worker thread: native asyncio cancellation ends the await, not the thread, so they
may still commit. A transaction is placed at the instant it locks its row, because everyone else
who would change the row waits for that lock. Refused requests roll back and are not actions.
Each corpus has one chunk, so that a set of corpora is a set of chunks, and a citation of a chunk
that was not retrieved stands for any citation the validator cannot find in the evidence,
misquotations included.

A retrieval is split where others may come in between. The dense retriever authorizes in one
transaction (`Authorize`), embeds the query in none (`Embed`), and authorizes again in the
transaction that reads (`AuthorizeRead`); full text search has that one only. `ReadChunks` is the
statements after it, a step of its own: the isolation level is the default, READ COMMITTED, and
`authorize_retrieval` locks no row, so a removal may commit between the two and go unnoticed. The
history variable `lapsed` collects the messages that lost their right while an authorization was
still to come; nothing reads it but `LapsedGetsNothing`. `ModelNotConfigured` is the model of an
installation without an endpoint, `UnexpectedError` the last `except` of `_run`.

`wait_for` starts its clock after the row's deadline was set, so a
timeout implies an overdue row. The history that `request` collects for the prompt is read-only
and left out. `ActionParents` says which turns a client offers actions on: `allowed_actions`
offers none on abstentions and clarifications, the API itself accepts any completed message.

### Documents

`version` holds the version rows, `store` the bucket's object versions per key, `client` the
request under way for each client, and `uploads`/`confirmed` the successful replies that were
given. The transactions of `create_upload` are split at the SELECT, since nothing is locked
between it and the INSERT that the unique constraint judges; `confirm_upload` is split at the
unlocked look, the HEAD request and the locked transaction. Ingestion is a single step here:
`IngestionJobs` shows that it ends each version once. Its verdict depends on the bytes: others than
declared are rejected; of the declared ones the `Readable` are indexed, and the rest, invalid,
encrypted, too long or without text, are rejected or sent to OCR. Any may end FAILED instead, for a
reason that is not in the object.

### Courses

`users`, `created` and `teaches` are the committed rows, `request` where each transaction of
`create_course` is: the INSERT of the user, which waits for another one of the same identity; the
`SELECT ... FOR UPDATE` that puts the requests of one user in a row when they carry a key; the
search for the key; and the inserts. Nobody sees them before the commit, so `Create` is all of them
at once, and a transaction may roll back anywhere before. The isolation level is READ COMMITTED:
the search sees what others committed before it, not before the transaction began. The share locks
of the foreign keys, which only delay, are left out. The shell's form keeps the key of its course
in a ref (`workspace.tsx` 131-154) and is one of the clients that repeat a request.

### MaterialPanel

`rowOf` is what the API keeps for each idempotency key, `attempt` the ref that remembers a file's
key and how far its upload got, `panel` the React state, `reads` the list requests, `publication`
and `shell` a publication and the course that the shell last read. `uploadFile` is split at its
awaits: `Serve` is a request with its answer, `Lose` one that fails for the panel and may still
reach the API (`late`, `ProcessLate`), `Refresh` and `ShowList` the list it waits for. `Close`
unmounts the panel: its answers are ignored from then on, while an upload that is under way goes on
unwatched. `Succeeds` and `Processed` are the API from outside; `Documents` and `IngestionJobs` show
why they may be taken so.

A `File` is chosen once, as the browser makes a new object of each choice. A key stands also for
the confirmation key, which is drawn with it. Files that the panel refuses by name or size make no
request. One publication is under way at a time, and the shell is refreshed only by publications:
its refreshes on mounting and by hand are left out.

### Chunking

One action is one turn of the `while` loop of `build_chunks`, or the end of a page or of the
document. `IsEnd` says which position `rfind` leads to, `IsStripped` what `strip` leaves, both by
what they return. A character is ink, a space or another blank, which is all the function tells
apart. A document without a chunk is sent to OCR.

### Answers

`reply`, `draft`, `row` and `screen` are the answer in the adapter, in the validator, in the
database and on the screen; a step is one layer. `Parsed` is what the adapter makes of a reply: it
cleans blocks and indexes, tries the fallbacks in order, and gives up. `Validated` is every branch
of the validator with its repairs of citations, `Storable` the constraints of the tables,
`ShowIntervention` the choice between rich view and text and what each offers. A quote is verbatim,
in other letters, or altered, which is all that the search in a chunk distinguishes; a text is the
blocks it was derived from. Texts have no length: `MayBeTooLong` says which may exceed the 6000
characters of a draft, and `ReplyInvalid` that such a reply then fails. A loop that passes over some
elements of a list is `Kept`, which says what is left by the positions of what stays.
`AnswersAssumption` says of `Replies` that they parse to the fields of the schema, with blocks,
citations and indexes in any number and of any value; what the schema refuses is `broken`, `stray`
or fails `Coherent`. `Conversations` takes from this module that validation either yields grounded
citations or an uncited abstention or question, or fails.

### TutorPanel

`turns` and `created` are the API's rows; `selected`, `listed`, `shown`, `retry`, `error`,
`accepted` and `draft` are React state and refs, `asked` what the student meant each key for;
`work`, `send` and `reads` are the requests under way. A handler is split at
each `await`: `Submit` is `send` up to `fetch`, `PostStored` the row `accept` inserts,
`AcceptedEvent`, `StreamEnds`, `Delivered`, `SendFailed` and `FinalFailed` what the stream and the
catch block make of it. `Ask`, `Serve`, `Returned` and `Failed` are one history request; `Applies`
is the comparison of its number with the counter (line 216), which every request and every
selection advances. Requests and answers may be lost at any point, another tab may submit, and
turns settle on their own (`Settle`), which is all that the panel can see of `Conversations`. A
conversation that exists when the panel is mounted has had a turn or none (`Past`).

`ToolbarEnabled`, `ComposerEnabled` and `ActionsEnabled` are the conditions under which the controls
can be used. The buttons under an answer are enabled by `busy` and `pending` alone (lines 408 and
470-477), so an action may be clicked while another conversation is being opened or created, and
while a recovery offer stands. The model allows every such click. What then goes wrong are findings
3 and 4 and the first observation; `eager` is a history variable that remembers whether an action
was clicked while the panel was loading ("loading") or over an offer ("offer"), so that
`ShownUnlessEager`, `LostOnlyOverOffer` and `RepeatedOnlyIfEager` can say that nothing else does.

### Provisioner

`file`, `archive` and `env` are `identity.json`, the copies `recover` keeps and the identifiers in
`.env`; each is replaced by a rename, so a write is atomic. `iam`, `made` and `visible` are the
mounted ZITADEL database, what was created in it and what a search finds; `data` is the instance
whose subjects Docta's volumes refer to. `cmd` is where the command is between its reads, requests
and writes; `StepFails` ends it anywhere, which stands for crashes, refusals and errors alike.
A command begins with `migrate_legacy`, which publishes a profile that the checkout kept itself
(`legacy`) by three renames, `.env` last; `import` is how far it got, and `RestoreEnv` the explicit
recovery that the code asks for when it was cut short. `guard_environment_creation`,
`guard_identity_recovery` and the search for the database volume are the guards of `Configured` and
`Configure`. `environment_lock` makes `main` exclusive, so one command runs at a time. Between
commands the developer deletes volumes, restores a matching backup and deletes `identity.json`.

A search may lag behind a creation for as long as a command takes to be run again, but two
things are taken to be slower than a search: restoring a database (`RestoreIam`) and deleting the
file that records a creation (`LoseFile`). Without the first, a pending creation that recovery
archived could be repeated at the restored instance; without the second, one whose marker the
developer deleted. `lost` excuses what the developer deleted from `NothingForgotten`.

One sequence that the code handles in a way a developer may not expect: an import dies between its
first two renames, the developer restores `.env` as told, and later recovers the identity at a new
instance. No provenance was recorded, so the unchanged checkout is compared with the newer state
(`dev_state.py` 224-241) and refused from then on. Nothing is lost by it.

## 3. Runs

| Run | Shows | Bounds, and why they suffice | Fairness |
|---|---|---|---|
| `ingestion_safety` | `StateAgreement`, `FencedClaims`, `AttemptAccounting`, `DeliveryRoute`, refinement of `AbstractIngestion!Spec` | one job (jobs share no row), two workers, three entries, two attempts, one crash, outage or slow relay and one Redis loss: two workers and a duplicate are enough for a takeover, a late mark and a stale writer, two attempts for a retry followed by exhaustion | none |
| `ingestion_liveness` | refinement of `AbstractIngestion!FairSpec`, `DeadLetterPublished`, `StreamDrains` | one worker, two faults, one loss, one stray entry: every attempt may die and the stream may vanish in between | workers and clocks |
| `conversation_safety` | `Grounded`, `SingleCall`, `ResolvedQueries`, `LapsedGetsNothing`, refinement of `AbstractTurns!Spec` | two messages (one overdue, one new), two corpora, one crash, cancellation or database or unexpected error besides any number of timeouts; the membership may be revoked | none |
| `conversation_liveness` | refinement of `AbstractTurns!FairSpec` | two messages, one fault | reaper and time |
| `durable_state` | `OneUploadPerKey`, `OneConfirmation`, `JudgedAsConfirmed`, `NoLostPublication`; `OneCoursePerKey`; `NoSecondCreate`, `NothingForgotten`, `SubjectsKeepData`, `ConfiguredHasState` | documents: two clients, keys, files (one readable) and slots, two objects per slot, two publications: every race needs two requests, a replaced object two objects. Courses: one identity and key, two titles, two courses, three requests: two that race and one that repeats. Environment: a profile in the checkout, shared, in both or nowhere, two instances, two creations of each resource, four mishaps: delete, replace, delete and restore | none |
| `tutor_panel` | `ShownUnlessEager`, `LostOnlyOverOffer`, `RepeatedOnlyIfEager`, `NoOrphan`, `OfferReachable`, `NeverRegresses` | actions clicked whenever their buttons are enabled; two conversations, one of them there already with a turn to act on, two more turns: an offer, and the action that replaces it; two history requests in flight: one and the one that supersedes it | none |
| `tutor_panel_liveness` | `PendingEndsOnScreen` | one conversation that has yet to be created, two keys, so that the second turn may be an action, three requests: two superseded ticks and the one that is answered in time | polling, settling, answers |
| `data_paths` | `NothingDropped`, `Quotable`, `Terminates`; `CleaningFaithful`, `StoredCoherent`, `AnswerGrounded`, `ShownWhole`; `OneDocumentPerFile`, `TriesEnd`, `WorkingEndsOnScreen` | cutting: pages of up to seven characters, or two of up to two, for the eleven legal pairs of three sizes and five overlaps: up to three cuts in a page. Answers: replies with two blocks (three for Gemini's lists), two citations and indexes just outside the range: every rule relates at most two of them. Material panel: one file and two keys, since attempts of different files share nothing but `busy`; two list requests, so that they can overtake each other; two lost requests or expired URLs; one publication by another teacher | loop; requests, polling, ingestion |
| `clarification_without_corpus` (violation) | finding 1 | one message | none |
| `recovered_action` (violation) | finding 2 | two conversations and turns, none from before, two requests | none |
| `action_while_opening` (violation) | finding 3 | as `recovered_action` | none |
| `action_over_offer` (violation) | finding 4 | as `tutor_panel` | none |

`durable_state` and `data_paths` each check three small models that share no state: a behaviour is
of one of them, while the others stay as they begin (`kept` and `path` say which).

Symmetry is used only where no liveness is checked, for identifiers that the specification never
orders or names; a swap of two clients swaps the two instances too, which never meet.

Fairness. A worker that runs keeps taking steps (`main` loops until it is stopped and catches every
exception), and clocks run; a worker is never forced to succeed, since `Work` may choose any
verdict, and crashes are bounded only in number. A lease of a worker that lives may run out at any
time. For conversations only the reaper, which retries after database errors, and time are fair: no
task need ever finish. Liveness of the pipeline is checked with one worker, which crashes and
returns; contention of two is checked for safety only. In the tutor panel the interval ticks and
turns settle (weak fairness), and infinitely often the newest history request is answered before the
next tick supersedes it (strong fairness on serving and returning it). That is an assumption about
the network: if every answer takes longer than the two seconds of the interval, each is discarded
and nothing is shown. The material panel numbers no requests, so there every request under way need
only end, the interval tick and ingestion go on; nothing is assumed of the teacher, who may close
the panel or leave it alone. The loop of `build_chunks` goes on once called.

`CHECK_DEADLOCK FALSE` is set where the system may rightly stop: the tutor panel of a student who
has used up the keys, the material panel of a teacher who does nothing more, and the passes over a
document and an answer, which end. The other runs check for deadlock.

Bounds named in the modules: `MaxFaults`, `MaxLosses`, `MaxStrays` (environment), `EntryIds` (a
pool of stream identifiers; a relay waits while none is free), `MaxMessages`, `Slots`,
`MaxObjects`, `MaxPublications`, `Keys`, `Convs`, `MaxReads`, `Instances`, `MaxCreated`,
`MaxMishaps`, `MaxKeys`, `ReadIds`, `MaxRivals`, `CourseIds`, `Requests`, `PageLength`,
`MaxBlocks`, `MaxCitations`.

### Findings

1. `docs/ARCHITECTURE.md:67` and `README.md:317` say an ambiguous follow-up is clarified
   immediately, without retrieval or model. `ConversationService.request`
   (`conversations.py:452`) checks for a corpus first, so in a course without an active corpus
   the follow-up fails with `COURSE_CORPUS_NOT_READY` although a clarification needs none.
2. `README.md:362` says of action turns "A same-key retry observes the same execution". The
   recovery that the panel offers after a failed submission (`tutor-panel.tsx:568`) sends the text
   and the key but neither kind, intent nor parent, so an action whose first request never
   arrived is stored as a plain question.
3. The comment at `rich-response.tsx:24` says that `disabled` "Disables every action button
   (double-click protection while a request runs)". The panel passes `busy || pending`
   (`tutor-panel.tsx:475`), and `handleAction` (line 408) checks no more. While the request that
   opens or creates another conversation runs, an action can therefore be clicked; it goes to the
   conversation being left, its refresh supersedes the one being opened or fills the panel of the
   new one, and the selector names a conversation whose messages are not shown.
4. `docs/ARCHITECTURE.md:103` names one way to lose a submission, "Unaccepted drafts do not survive
   reload." An action can also be clicked while a recovery offer stands. If it fails, its own offer
   takes the place of the standing one (`tutor-panel.tsx:394`), if it succeeds the offer is cleared
   (line 390): without any reload the first submission is neither stored nor offered any more.

### Observations

Behaviour that a developer may not expect, met while translating the code. None is asserted by a
run; each can be followed at the lines given.

- The recovery offer does not keep the conversation of its submission, and `send` posts to the
  selected one (`tutor-panel.tsx:568`). After an action clicked as in finding 3 that may be another,
  where the key is new (keys are unique in one conversation, `conversation_models.py:65`), and the
  turn is executed a second time; compare `README.md:362`, "A same-key retry observes the same
  execution". `SingleExecution` states the opposite and is false of the code; that this is the only
  way to break it is `RepeatedOnlyIfEager`.
- `accept` (`conversations.py:342`) lets an action inherit the query of any completed parent. The
  parent may be a clarification whose question is a bare phrase ("no se"), which then becomes the
  retrieval query, and that of later follow-ups. The follow-up branch at line 355 excludes such
  parents. `ResolvedQueries` holds for clients that offer actions only where `allowed_actions`
  does, which is what `ActionParents` says, and fails with `ActionParents = {"factual",
  "clarify"}`.
- `authorize_retrieval` is checked once in the transaction that reads chunks, by its first
  statement. A removal from the course that commits between this statement and the next
  (`dense_retriever.py:44` and 57, 97; `postgres_retriever.py:40` and 47, 62) is not noticed, and
  the answer is still completed, as is one whose owner is removed during generation.
- On a repeated key `accept` (`conversations.py:287`) compares the text alone and replays the
  stored turn for another kind, intent or parent (compare `README.md:362`).
- The Python contract accepts negative citation indexes (`tutor_contract.py:146-149`), the web's
  `parseIntervention` refuses them. Cleaning removes them; only a reply that is a draft with an
  intervention of its own brings them to the row, and its answer is shown as text.
- The middle fallback of the adapter (`tutor_http.py:350`) never succeeds where cleaning the whole
  reply failed.
- A block of sources that lists some citations hides the others in the rich view.
- An ambiguous intervention with a blank question passes every layer.
- With an overlap above half a chunk a cut may advance by one character, and a page becomes many
  almost equal chunks. `config.py` only asks for an overlap below the size. `Quotable` excludes
  the case, and fails without that.
- `refresh` of the material panel (`material-panel.tsx:61`) orders no requests. A list that was
  read before a new document was queued and arrives after the refresh that showed it hides the
  document; when it shows none as working it also ends the polling, until the panel is opened again.
- Choosing the same PDF again after a lost confirmation is a new upload with a new key, hence a
  second version. An upload whose panel was closed has no retry when it fails.

## 4. Proofs

Every invariant, every action property and both refinements of safety that a passing run checks are
also theorems: they hold for any number of jobs, workers, messages, clients, files and faults. A
theorem assumes what its module assumes of its constants (`ConstantsAssumption` and its like: bounds
are numbers, `None` is a value of its own, what is offered is a part of what exists). One theorem
has a further hypothesis, named below: `ResolvedQueriesHolds`.

Each module has one inductive invariant, and a lemma for each action that says the invariant
survives it. The property itself is seldom inductive; what follows names what had to be added.

### IngestionProofs

`TypeCorrect`, `StateAgreementHolds`, `FencedClaimsHolds`, `AttemptAccountingHolds`, `Refinement`
(the whole pipeline implements `AbstractIngestion`) and `DeliveryRouteHolds`.

`IInv`: `StateAgreement` is not inductive alone. That a
claim finds its version in QUEUED or PROCESSING needs the row agreement, that a commit builds the
first corpus needs it too, and that a stale writer cannot commit needs `FencedClaims`, which in
turn needs that control states carry the job they claim to carry (`ControlOK`), that whoever holds
a delivery of a job holds it for a confirmed one (`HeldExists`), and that nothing exists for a job
that was never confirmed (`NotStarted`). `AttemptAccounting` ties the fencing token to the number
of claims, which bounds both. Record-level lemmas state what the updates of one row do, so that no
proof step sees more than one row.

`RouteInv` is for `DeliveryRoute`, that a published event of an unfinished job has a delivery in
the stream. Having one is not enough: a worker may be about to acknowledge it. `Routed` asks for a
delivery that lasts, one that no worker will acknowledge before its job is claimed anew, and asks
for it from the XADD on, before the event is marked published, because the mark comes in a later
transaction. A delivery of a job whose backoff still runs is ignored and acknowledged, which is
harmless only because the event is unpublished and unleased until the backoff is over
(`BackoffHeld`). That an acknowledgement removes the delivery it was decided for needs that a worker
remembers the job of the entry it holds (`EntryJobs`).

### ConversationsProofs

`TypeCorrect`, `GroundedHolds`, `SingleCallHolds`, `LapsedGetsNothingHolds`, `Refinement` (the
service implements `AbstractTurns`) and `ResolvedQueriesHolds`.

`ConversationInv` says of a row what its state implies (`RowSound`), of every task and every
abandoned transaction what it may still write (`TaskOK`), and of the counter of calls that it
agrees with where the task is (`CallsOK`). `Grounded` speaks only of rows; a transaction that was
abandoned by a cancellation may commit a draft much later, so what it carries must be sound too.
`Placed` says that only the newest message can be pending, which is what makes the history of a
conversation the sequence of turns that `AbstractTurns` has.

`LapsedGetsNothingHolds` rests on `RetrievalInv`, two facts about every message. `Fresh`: until its
chunks are read it has none, neither in its task nor in an abandoned transaction nor as evidence,
and so (`CallsOK`) no call; a message that lapses before the authorization lapses with empty hands.
`Barred`: it can no longer be authorized, because a removed owner does not become a member again and
a deadline that passed stays passed, so its task never reaches the reading step; and an abandoned
transaction carries only what its task had.

`ResolvedQueriesHolds` has the hypothesis `"clarify" \notin ActionParents`: without it the property
is false (see Observations), and the web offers no action there. It follows the chain of queries
back to a question that stands on its own. Such a chain is as long as the conversation; the
induction is replaced by the least message that would break the property (`WFMin` on the numbers).

### DocumentsProofs

`TypeCorrect`, `OneUploadPerKeyHolds`, `OneConfirmationHolds`, `JudgedAsConfirmedHolds`,
`NoLostPublicationHolds`, and `OneCourse` about `Courses`.

`DocumentsInv` adds to the properties what each row says of the objects beside it (`RowsOK`) and
what a request under way may rely on after it let go of its transaction (`Relies`): the object it
inspected is still there, since object versions are never replaced, and the course it saw is either
unchanged or has a higher version, which is what the compare-and-swap of a publication tests.
`CourseInv` adds to `OneCoursePerKey` that of the requests of one user with a key at most one is
past the locked row (`OneCreator`): the one that is there found no creation, and nobody stores one
meanwhile.

### AnswersProofs

`CleaningFaithfulHolds`, `StoredCoherentHolds`, `AnswerGroundedHolds`, `ShownWholeHolds`: for every
reply of the schema's types and all evidence, with any number of blocks, citations and indexes.

`AnswerInv` is what each layer hands to the next. What is `Sealed` by the validator agrees with its
intervention, which keeps the contract, and cites only what was retrieved. That the replaced
citations still fit the indexes of the cards rests on a count: citations of distinct chunks are
repaired one by one (`RepairedFacts`). That every card finds its citation on the screen rests on the
cleaning alone (`Nonnegative`), since no later layer looks at negative indexes again; the fallback
to the reply as it was sent is harmless because what it accepts the cleaned reply satisfies too
(`CleanedFacts`). Lemmas about `Kept` carry these proofs: what is kept comes from the positions
kept, and all positions keep the whole list.

### TutorPanelProofs

`OfferReachableHolds`, `NoOrphanHolds`, `NeverRegressesHolds`, `ShownUnlessEagerHolds`,
`LostOnlyOverOfferHolds` and `RepeatedOnlyIfEagerHolds`: for any number of conversations, turns and
requests, and for every student, whatever is clicked while it is enabled. The last three say how far
the promises behind findings 3 and 4 and the first observation go.

`PanelInv` is about the requests under way, and holds whatever is clicked: there is at most one that
the counter still lets through (`OneNewest`), and the history it carries is not older than what is
shown (`History`), which is itself one that the API had. `Follows` holds until an action is clicked
while something loads: every submission and request that counts is then about the selected
conversation. `Kept` holds until one is clicked over an offer: what was accepted or streams is
stored, and an offer is of the last submission. `OfferInv` and `NoOrphan` need none of this.

### MaterialPanelProofs

`TypeCorrect` and `OneDocumentPerFileHolds`. `KeysOK`: a file's first key is its only one, in its
tries, in requests that were lost and may be processed late, and therefore in the rows.

### ProvisionerProofs

`TypeCorrect`, `NoSecondCreateHolds`, `NothingForgottenHolds`, `SubjectsKeepDataHolds`,
`ConfiguredHasStateHolds`, for any number of instances and mishaps.

`ProvisionerInv` says that `identity.json` is true (`Sound`): its identifiers name what exists, at
one instance, and the instance is that of the retained data. `CommandOK` says that a command that
registers knows what is in the file, since nobody else writes it, and that a creation is asked for
only where nothing was made. `InstancesOK` is why a lagging search does no harm: what was made and
is not visible yet is known to the file. `EnvOK` and `ImportOK` say how far a profile that is being
imported agrees with the state beside it.

### ChunkingProofs

For every document, size and overlap below it:

- `ChunksAreProper`: every chunk is a piece of one page within the size, with ink at both ends;
- `NothingIsDropped`: `NothingDropped`, no printed character is lost and only a blank document is
  sent to OCR;
- `PassagesAreQuotable`: `Quotable`, with an overlap of at most half a chunk every passage up to
  the overlap is whole in some chunk.

The invariant `ChunkInv` adds to `ChunkTypeOK` what the loop has achieved at `start`: all ink before
it is held, and so is every short passage that begins before it. A cut ends at a space of the
chunk's second half or at its full size, so it is at least `overlap` long when `overlap` is at most
half a chunk. What begins before the next start, which is `overlap` before the end or one past the
old start, and is no longer than the overlap then ends inside the chunk that was just cut, and
`strip` removes no ink from it. `NothingIsDropped` needs no such bound: the next start is never
past the end.

### Not proved

- Liveness: `ImplementsFairIngestion`, `DeadLetterPublished`, `StreamDrains`, `ImplementsFairTurns`,
  `PendingEndsOnScreen`, `TriesEnd`, `WorkingEndsOnScreen` and `Terminates` are checked by TLC only,
  since fairness and ENABLED are out of the prover's reach.
- `TypeOK` of `TutorPanel` counts the newest requests and bounds the rows of a conversation by the
  number of keys; `Types` and `OneNewest` in `TutorPanelProofs` say what the other proofs need of
  it.
- The four runs that expect a violation are counterexamples, for which an instance is enough.

## 5. Plan

1. Lexeme coverage and the order of ranked fragments, as operators.
2. A composition of `Documents` with `IngestionJobs`: confirmation to published corpus. Today each
   takes the other as one step.
3. The creation of conversations and the history that a prompt carries, in `Conversations`.

## 6. Not modelled

Token verification, HTTP parsing, presigned URL signatures, PDF parsing, embedding vectors,
ranking, lexeme coverage, prompt construction, styling and logging: they hold no control state,
and the models take their result as any value the caller distinguishes. `dev_token.py` and
`dev_pdf_upload.py` are interactive clients that make one HTTP call after the other and keep
nothing; the operations they call are in `Documents` and `Courses`. The event stream of a
conversation re-reads the durable row and is seen from the panel's side. Migrations run offline.
Containers and CI are configuration.
