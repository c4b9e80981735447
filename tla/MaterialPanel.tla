---------------------------- MODULE MaterialPanel ----------------------------
(***************************************************************************)
(* The material panel of the web: a teacher chooses a PDF, the panel asks  *)
(* the API for an upload, puts the file in the bucket, confirms it, lists  *)
(* the documents of the course until none is worked on any more, and       *)
(* publishes one of them as it knows the course from the workspace shell.  *)
(*                                                                         *)
(* Every request may be lost on its way, and is then still processed later *)
(* or never.  The panel may be closed at any time: its upload goes on, but *)
(* a panel that is opened again knows nothing of it.  The API is seen from *)
(* outside: module Documents shows that a key names one version and that   *)
(* an upload is confirmed once, and checks the compare-and-swap of         *)
(* publications; module IngestionJobs shows that its job ends.             *)
(*                                                                         *)
(* A File object is chosen once: choosing the same PDF again makes another *)
(* one.  Files that the panel refuses by their name or size are left out.  *)
(***************************************************************************)
EXTENDS Naturals

CONSTANTS
    Files,      \* File objects that are chosen
    MaxKeys,    \* bound: keys that are drawn for one file
    ReadIds,    \* bound: requests for the list under way at one time
    MaxFaults,  \* bound: lost requests and expired URLs
    MaxRivals,  \* bound: publications by another teacher
    Null        \* undefined / null

ASSUME MaterialAssumption ==
    /\ MaxKeys \in Nat \ {0}
    /\ MaxFaults \in Nat /\ MaxRivals \in Nat
    /\ Null \notin Files

\* operation.key; operation.confirmation is drawn with it and used for its
\* version only, so that one name stands for both.
UploadKeys == Files \X (1 .. MaxKeys)

VARIABLES
    rowOf,        \* the API's document version for each key, and its object
    course,       \* the API's course: its active document and its version
    late,         \* lost requests that the API may still process
    panel,        \* the panel's React state
    attempt,      \* attempt.current of each file, and where its uploadFile is
    reads,        \* requests for the list under way, each with its answer
    publication,  \* publish and its refresh of the shell, when under way
    shell,        \* the course as the shell last read it
    faults,
    rivals

uploadVars == <<rowOf, attempt, reads>>
publicationVars == <<course, publication, shell, rivals>>
vars == <<rowOf, late, panel, attempt, reads, faults, publicationVars>>

-----------------------------------------------------------------------------
(* The API.                                                                *)

Unknown == [state |-> "ABSENT", object |-> "no"]

\* What a request makes of the version of its key.
Processed(request, v) ==
    CASE request = "create" /\ v.state = "ABSENT" -> [v EXCEPT !.state = "AWAITING_UPLOAD"]
      [] request = "put" -> [v EXCEPT !.object = "yes"]
      [] request = "confirm" /\ v.state = "AWAITING_UPLOAD" /\ v.object = "yes" -> [v EXCEPT !.state = "QUEUED"]
      [] OTHER -> v

\* Whether its answer is a success: a URL is given only while the upload is
\* awaited, and serves for a time; a confirmation may be repeated.
Succeeds(request, v, url) ==
    CASE request = "create" -> v.state \in {"ABSENT", "AWAITING_UPLOAD"}
      [] request = "put" -> url = "valid"
      [] request = "confirm" -> v.object = "yes"

\* activate_corpus: a compare-and-swap of the course's version.
Activated(p) ==
    IF course.version = p.expected THEN [active |-> p.key, version |-> course.version + 1] ELSE course

ProcessLate ==
    \E r \in late :
        /\ late' = late \ {r}
        /\ IF r.request = "activate"
           THEN course' = Activated(r) /\ UNCHANGED rowOf
           ELSE rowOf' = [rowOf EXCEPT ![r.key] = Processed(r.request, @)] /\ UNCHANGED course
        /\ UNCHANGED <<panel, attempt, reads, publication, shell, faults, rivals>>

\* Another teacher publishes a document of another panel.
RivalPublishes ==
    /\ rivals < MaxRivals
    /\ rivals' = rivals + 1
    /\ course' = [active |-> Null, version |-> course.version + 1]
    /\ UNCHANGED <<uploadVars, late, panel, publication, shell, faults>>

\* The workers: see IngestionJobs.
Ingest(k) ==
    /\ \/ rowOf[k].state = "QUEUED" /\ rowOf' = [rowOf EXCEPT ![k].state = "PROCESSING"]
       \/ rowOf[k].state = "PROCESSING" /\ \E end \in {"INDEXED", "FAILED"} : rowOf' = [rowOf EXCEPT ![k].state = end]
    /\ UNCHANGED <<late, panel, attempt, reads, faults, publicationVars>>

-----------------------------------------------------------------------------
(* The list: refresh, the effect that mounts and the effect that polls.    *)

NoDocuments == [k \in UploadKeys |-> "ABSENT"]
Listing == [k \in UploadKeys |-> rowOf[k].state]

NoRead == [why |-> Null, rows |-> Null]
AskedFor(why) == [why |-> why, rows |-> Null]
Free == {n \in ReadIds : reads[n] = NoRead}

Working == {"QUEUED", "PROCESSING"}

\* Whether the interval runs: some document is shown as worked on.
PollWanted_QueuedOnly == \E k \in UploadKeys : panel.documents[k] = "QUEUED"
PollWanted == \E k \in UploadKeys : panel.documents[k] \in Working

Ask(why) == \E n \in Free : reads' = [reads EXCEPT ![n] = AskedFor(why)]

Poll ==
    /\ PollWanted
    /\ Ask("poll")
    /\ UNCHANGED <<rowOf, late, panel, attempt, faults, publicationVars>>

Answer(n) ==
    /\ reads[n].why # Null /\ reads[n].rows = Null
    /\ reads' = [reads EXCEPT ![n].rows = Listing]
    /\ UNCHANGED <<rowOf, late, panel, attempt, faults, publicationVars>>

\* finally: the upload that awaited its refresh is over.
Finished(n) ==
    IF reads[n].why = "refresh" THEN [attempt EXCEPT ![panel.busy].pc = "idle"] ELSE attempt
BusyAfter(n) == IF reads[n].why = "refresh" THEN Null ELSE panel.busy

\* Whatever arrives last is shown: nothing orders the requests.
ShowList(n) ==
    /\ reads[n].rows # Null
    /\ panel' = [panel EXCEPT !.documents = reads[n].rows, !.busy = BusyAfter(n)]
    /\ attempt' = Finished(n)
    /\ reads' = [reads EXCEPT ![n] = NoRead]
    /\ UNCHANGED <<rowOf, late, faults, publicationVars>>

\* A request that fails leaves the list as it is.
LoseRead(n) ==
    /\ reads[n].why # Null
    /\ faults < MaxFaults
    /\ faults' = faults + 1
    /\ panel' = [panel EXCEPT !.busy = BusyAfter(n)]
    /\ attempt' = Finished(n)
    /\ reads' = [reads EXCEPT ![n] = NoRead]
    /\ UNCHANGED <<rowOf, late, publicationVars>>

-----------------------------------------------------------------------------
(* The panel is opened, closed, and given a file.                          *)

Mounted == [open |-> "yes", file |-> Null, busy |-> Null, documents |-> NoDocuments]
Unmounted == [Mounted EXCEPT !.open = "no"]

Open ==
    /\ panel.open = "no"
    /\ panel' = Mounted
    /\ Ask("mount")
    /\ UNCHANGED <<rowOf, late, attempt, faults, publicationVars>>

\* Answers are ignored from now on, and a running uploadFile goes on alone.
Close ==
    /\ panel.open = "yes"
    /\ panel' = Unmounted
    /\ reads' = [n \in ReadIds |-> NoRead]
    /\ attempt' = [f \in Files |-> IF attempt[f].pc \in {"refresh", "refreshing"}
                                   THEN [attempt[f] EXCEPT !.pc = "idle"] ELSE attempt[f]]
    /\ UNCHANGED <<rowOf, late, faults, publicationVars>>

NoAttempt == [key |-> 0, uploaded |-> "no", upload |-> Null, pc |-> "idle"]

Choose(f) ==
    /\ panel.open = "yes" /\ panel.busy = Null /\ panel.file # f
    /\ f # Null => attempt[f] = NoAttempt
    /\ panel' = [panel EXCEPT !.file = f]
    /\ UNCHANGED <<rowOf, late, attempt, reads, faults, publicationVars>>

-----------------------------------------------------------------------------
(* uploadFile.                                                             *)

\* attempt.current is kept while its file is.
KeyOf_EachTry(a) == IF a.key < MaxKeys THEN a.key + 1 ELSE a.key
KeyOf(a) == IF a.key = 0 THEN 1 ELSE a.key

\* A try goes on where the one before it failed.
FirstRequest(a) ==
    CASE a.upload = Null -> "create"
      [] a.upload # Null /\ a.uploaded = "no" -> "put"
      [] OTHER -> "confirm"

Submit ==
    LET f == panel.file IN
    /\ f # Null /\ panel.busy = Null
    /\ panel' = [panel EXCEPT !.busy = f]
    /\ attempt' = [attempt EXCEPT ![f] = [@ EXCEPT !.pc = FirstRequest(attempt[f]), !.key = KeyOf(attempt[f])]]
    /\ UNCHANGED <<rowOf, late, reads, faults, publicationVars>>

Requests == {"create", "put", "confirm"}
Current(f) == <<f, attempt[f].key>>

\* mounted.current of the panel that started this upload.
Watched(f) == panel.busy = f
Closing(f) == IF Watched(f) THEN "refresh" ELSE "idle"

Succeeded(f) ==
    CASE attempt[f].pc = "create" -> [attempt[f] EXCEPT !.upload = "valid", !.pc = "put"]
      [] attempt[f].pc = "put" -> [attempt[f] EXCEPT !.uploaded = "yes", !.pc = "confirm"]
      [] attempt[f].pc = "confirm" -> [attempt[f] EXCEPT !.pc = Closing(f)]

\* catch: an upload whose object is not stored is asked for again.
Caught_KeepsUpload(f) == [attempt[f] EXCEPT !.pc = Closing(f)]
Caught(f) ==
    [attempt[f] EXCEPT !.upload = IF attempt[f].uploaded = "yes" THEN @ ELSE Null, !.pc = Closing(f)]

\* The confirmation of the watched upload clears its file.
FileAfter(f) == IF attempt[f].pc = "confirm" /\ Watched(f) THEN Null ELSE panel.file

Serve(f) ==
    LET request == attempt[f].pc
        k == Current(f)
    IN
    /\ request \in Requests
    /\ IF Succeeds(request, rowOf[k], attempt[f].upload)
       THEN /\ rowOf' = [rowOf EXCEPT ![k] = Processed(request, @)]
            /\ attempt' = [attempt EXCEPT ![f] = Succeeded(f)]
            /\ panel' = [panel EXCEPT !.file = FileAfter(f)]
       ELSE /\ attempt' = [attempt EXCEPT ![f] = Caught(f)]
            /\ UNCHANGED <<rowOf, panel>>
    /\ UNCHANGED <<late, reads, faults, publicationVars>>

\* The request, or its answer, is lost.
Lose(f) ==
    /\ attempt[f].pc \in Requests
    /\ faults < MaxFaults
    /\ faults' = faults + 1
    /\ late' = late \cup {[request |-> attempt[f].pc, key |-> Current(f)]}
    /\ attempt' = [attempt EXCEPT ![f] = Caught(f)]
    /\ UNCHANGED <<rowOf, panel, reads, publicationVars>>

\* await refresh().
Refresh(f) ==
    /\ attempt[f].pc = "refresh"
    /\ Ask("refresh")
    /\ attempt' = [attempt EXCEPT ![f].pc = "refreshing"]
    /\ UNCHANGED <<rowOf, late, panel, faults, publicationVars>>

\* Time passes: the presigned URL serves no more.
Expire(f) ==
    /\ attempt[f].upload = "valid" /\ attempt[f].uploaded = "no"
    /\ faults < MaxFaults
    /\ faults' = faults + 1
    /\ attempt' = [attempt EXCEPT ![f].upload = "expired"]
    /\ UNCHANGED <<rowOf, late, panel, reads, publicationVars>>

-----------------------------------------------------------------------------
(* publish, and the shell's refresh that it awaits.                        *)

NoPublication == [pc |-> "idle"]

\* The version of the course is the one that the button was shown with.
Publish(k) ==
    /\ panel.open = "yes" /\ panel.busy = Null
    /\ panel.documents[k] = "INDEXED" /\ shell.active # k
    /\ publication = NoPublication
    /\ publication' = [pc |-> "activate", key |-> k, expected |-> shell.version]
    /\ panel' = [panel EXCEPT !.busy = "publication"]
    /\ UNCHANGED <<uploadVars, late, course, shell, faults, rivals>>

\* onPublished is awaited after a success, and by the catch.
RefreshCourse == publication' = [pc |-> "refresh"]
EndPublication ==
    /\ publication' = NoPublication
    /\ panel' = [panel EXCEPT !.busy = IF @ = "publication" THEN Null ELSE @]

PublishCaught_Ends == EndPublication
PublishCaught == RefreshCourse /\ UNCHANGED panel

Activate ==
    /\ publication.pc = "activate"
    /\ course' = Activated(publication)
    /\ IF course' # course THEN RefreshCourse /\ UNCHANGED panel ELSE PublishCaught
    /\ UNCHANGED <<uploadVars, late, shell, faults, rivals>>

LosePublication ==
    /\ publication.pc = "activate"
    /\ faults < MaxFaults
    /\ faults' = faults + 1
    /\ late' = late \cup {[request |-> "activate", key |-> publication.key, expected |-> publication.expected]}
    /\ PublishCaught
    /\ UNCHANGED <<uploadVars, course, shell, rivals>>

ReadCourse ==
    /\ publication.pc = "refresh"
    /\ publication' = [pc |-> "show", course |-> course]
    /\ UNCHANGED <<uploadVars, late, panel, course, shell, faults, rivals>>

ShowCourse ==
    /\ publication.pc = "show"
    /\ shell' = publication.course
    /\ EndPublication
    /\ UNCHANGED <<uploadVars, late, course, faults, rivals>>

\* refresh of the shell never throws.
LoseCourse ==
    /\ publication.pc \in {"refresh", "show"}
    /\ faults < MaxFaults
    /\ faults' = faults + 1
    /\ EndPublication
    /\ UNCHANGED <<uploadVars, late, course, shell, rivals>>

-----------------------------------------------------------------------------
NewCourse == [active |-> Null, version |-> 0]

Init ==
    /\ rowOf = [k \in UploadKeys |-> Unknown]
    /\ late = {}
    /\ panel = Unmounted
    /\ attempt = [f \in Files |-> NoAttempt]
    /\ reads = [n \in ReadIds |-> NoRead]
    /\ course = NewCourse
    /\ publication = NoPublication
    /\ shell = NewCourse
    /\ faults = 0
    /\ rivals = 0

Next ==
    \/ ProcessLate \/ RivalPublishes
    \/ \E k \in UploadKeys : Ingest(k) \/ Publish(k)
    \/ Activate \/ LosePublication \/ ReadCourse \/ ShowCourse \/ LoseCourse
    \/ Open \/ Close \/ Submit \/ Poll
    \/ \E f \in Files \cup {Null} : Choose(f)
    \/ \E n \in ReadIds : Answer(n) \/ ShowList(n) \/ LoseRead(n)
    \/ \E f \in Files : Serve(f) \/ Lose(f) \/ Refresh(f) \/ Expire(f)

\* Requests end, the interval ticks, and ingestion goes on.  Nothing is
\* assumed of the teacher.
Fairness ==
    /\ WF_vars(Poll)
    /\ \A n \in ReadIds : WF_vars(Answer(n)) /\ WF_vars(ShowList(n))
    /\ \A f \in Files : WF_vars(Serve(f)) /\ WF_vars(Refresh(f))
    /\ \A k \in UploadKeys : WF_vars(Ingest(k))
    /\ WF_vars(Activate) /\ WF_vars(ReadCourse) /\ WF_vars(ShowCourse)

Spec == Init /\ [][Next]_vars
FairSpec == Spec /\ Fairness

-----------------------------------------------------------------------------
(* Properties.                                                             *)

Versions == {"ABSENT", "AWAITING_UPLOAD", "QUEUED", "PROCESSING", "INDEXED", "FAILED"}
Course == [active : UploadKeys \cup {Null}, version : Nat]
Documents == [UploadKeys -> Versions]

\* Rows, tries, requests and what the panel and the shell show keep their
\* shapes; a try has no key before its first submission and one after it.
TypeOK ==
    /\ rowOf \in [UploadKeys -> [state : Versions, object : {"no", "yes"}]]
    /\ course \in Course /\ shell \in Course
    /\ late \subseteq [request : Requests, key : UploadKeys]
                    \cup [request : {"activate"}, key : UploadKeys, expected : Nat]
    /\ panel \in [open : {"no", "yes"}, file : Files \cup {Null},
                  busy : Files \cup {Null, "publication"}, documents : Documents]
    /\ attempt \in [Files -> [key : 0 .. MaxKeys, uploaded : {"no", "yes"},
                             upload : {Null, "valid", "expired"},
                             pc : {"idle", "refresh", "refreshing"} \cup Requests]]
    /\ reads \in [ReadIds -> [why : {Null, "mount", "poll", "refresh"}, rows : Documents \cup {Null}]]
    /\ publication \in [pc : {"idle", "refresh"}]
                      \cup [pc : {"activate"}, key : UploadKeys, expected : Nat]
                      \cup [pc : {"show"}, course : Course]
    /\ faults \in 0 .. MaxFaults
    /\ rivals \in 0 .. MaxRivals

\* Whatever is lost, delayed or tried again, a chosen file becomes at most one
\* document: every try repeats the key of the first.
OneDocumentPerFile ==
    \A k, l \in UploadKeys :
        k[1] = l[1] /\ rowOf[k] # Unknown /\ rowOf[l] # Unknown => k = l

\* Trying again helps: no file and no publication is tried for ever, and no
\* panel stays busy.  A teacher who does not give up gets an upload through,
\* also after its URL has expired or the answer to its confirmation was lost,
\* and a publication, also after another one or a lost answer made the
\* version of the course stale.
TriesEnd == \A b \in Files \cup {"publication"} : <>[](panel.busy # b)

\* While the panel is open, what it shows as queued or processed is
\* eventually shown otherwise: the interval outlives every lost request.
WorkingEndsOnScreen ==
    \A k \in UploadKeys : panel.documents[k] \in Working ~> panel.documents[k] \notin Working
=============================================================================
