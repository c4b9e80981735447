------------------------ MODULE MaterialPanelProofs ------------------------
(***************************************************************************)
(* Proofs about the material panel, for any files, number of tries, lost   *)
(* requests and rival publications.                                        *)
(***************************************************************************)
EXTENDS MaterialPanel, TLAPS

\* The first key of a file is its only one, in its tries, in the requests
\* that may still be processed, and therefore in the rows of the API.
KeysOK ==
    /\ \A f \in Files : /\ attempt[f].key <= 1
                        /\ attempt[f].pc \in Requests => attempt[f].key = 1
    /\ \A r \in late : r.request \in Requests => r.key[2] = 1
    /\ \A k \in UploadKeys : k[2] # 1 => rowOf[k] = Unknown

MaterialInv == TypeOK /\ KeysOK

Attempt ==
    [key : 0 .. MaxKeys, uploaded : {"no", "yes"}, upload : {Null, "valid", "expired"},
     pc : {"idle", "refresh", "refreshing"} \cup Requests]

USE MaterialAssumption

LEMMA InitMaterialInv == Init => MaterialInv
<1> SUFFICES ASSUME Init PROVE MaterialInv
  OBVIOUS
<1>1. TypeOK
  BY DEF Init, TypeOK, Unknown, Versions, NewCourse, Course, Unmounted, Mounted, NoDocuments, Documents,
         NoAttempt, NoRead, NoPublication
<1>2. KeysOK
  BY DEF Init, KeysOK, NoAttempt, Requests
<1> QED
  BY <1>1, <1>2 DEF MaterialInv

\* A step of one try that keeps its key and touches no row.
LEMMA TryStep ==
    ASSUME MaterialInv, NEW f \in Files, NEW a \in Attempt,
           attempt' = [attempt EXCEPT ![f] = a],
           a.key <= 1, a.pc \in Requests => a.key = 1
    PROVE  /\ attempt' \in [Files -> Attempt]
           /\ \A g \in Files : /\ attempt'[g].key <= 1
                               /\ attempt'[g].pc \in Requests => attempt'[g].key = 1
BY DEF MaterialInv, TypeOK, KeysOK, Attempt

\* A step that leaves rows and late requests alone.
LEMMA SameRows ==
    ASSUME MaterialInv, UNCHANGED <<rowOf, late>>,
           attempt' \in [Files -> Attempt],
           \A g \in Files : /\ attempt'[g].key <= 1
                            /\ attempt'[g].pc \in Requests => attempt'[g].key = 1
    PROVE  KeysOK'
BY DEF MaterialInv, KeysOK

LEMMA TypesOf ==
    ASSUME TypeOK
    PROVE  /\ attempt \in [Files -> Attempt]
           /\ \A f \in Files : attempt[f] \in Attempt
           /\ faults < MaxFaults => faults + 1 \in 0 .. MaxFaults
BY DEF TypeOK, Attempt

\* Ending the awaited refresh changes the pc of a try only.
LEMMA FinishedOK ==
    ASSUME MaterialInv, NEW n
    PROVE  /\ Finished(n) \in [Files -> Attempt]
           /\ \A g \in Files : /\ Finished(n)[g].key <= 1
                               /\ Finished(n)[g].pc \in Requests => Finished(n)[g].key = 1
<1>1. /\ attempt \in [Files -> Attempt]
      /\ \A g \in Files : attempt[g].key <= 1 /\ (attempt[g].pc \in Requests => attempt[g].key = 1)
  BY TypesOf DEF MaterialInv, KeysOK
<1>2. \A a \in Attempt : [a EXCEPT !.pc = "idle"] \in Attempt
  BY DEF Attempt
<1>3. \A a \in Attempt : [a EXCEPT !.pc = "idle"].key = a.key /\ [a EXCEPT !.pc = "idle"].pc \notin Requests
  BY DEF Attempt, Requests
<1>4. CASE reads[n].why # "refresh"
  BY <1>1, <1>4 DEF Finished
<1>5. CASE reads[n].why = "refresh"
  <2> DEFINE b == panel.busy
  <2>1. Finished(n) = [attempt EXCEPT ![b] = [attempt[b] EXCEPT !.pc = "idle"]]
    BY <1>5 DEF Finished
  <2>2. \A g \in Files : Finished(n)[g] = IF g = b THEN [attempt[g] EXCEPT !.pc = "idle"] ELSE attempt[g]
    BY <1>1, <2>1
  <2>3. Finished(n) = [g \in Files |-> IF g = b THEN [attempt[g] EXCEPT !.pc = "idle"] ELSE attempt[g]]
    BY <1>1, <2>1
  <2> HIDE DEF b
  <2> QED
    BY <1>1, <1>2, <1>3, <2>2, <2>3
<1> QED
  BY <1>4, <1>5

Panel ==
    [open : {"no", "yes"}, file : Files \cup {Null},
     busy : Files \cup {Null, "publication"}, documents : Documents]

\* A step of the panel, its list and its publication: no row, no try, no late
\* upload request.
LEMMA PanelStep ==
    ASSUME MaterialInv, UNCHANGED <<rowOf, attempt>>,
           late' \subseteq late \cup [request : {"activate"}, key : UploadKeys, expected : Nat],
           panel' \in Panel,
           reads' \in [ReadIds -> [why : {Null, "mount", "poll", "refresh"}, rows : Documents \cup {Null}]],
           course' \in Course, shell' \in Course,
           publication' \in [pc : {"idle", "refresh"}]
                            \cup [pc : {"activate"}, key : UploadKeys, expected : Nat]
                            \cup [pc : {"show"}, course : Course],
           faults' \in 0 .. MaxFaults, rivals' \in 0 .. MaxRivals
    PROVE  MaterialInv'
<1>1. TypeOK'
  BY DEF MaterialInv, TypeOK, Panel
<1>2. \A r \in late' : r.request \in Requests => r.key[2] = 1
  BY DEF MaterialInv, KeysOK, Requests
<1>3. KeysOK'
  BY <1>2 DEF MaterialInv, KeysOK
<1> QED
  BY <1>1, <1>3 DEF MaterialInv

LEMMA AskTyped ==
    ASSUME TypeOK, NEW why \in {"mount", "poll", "refresh"}, Ask(why)
    PROVE  reads' \in [ReadIds -> [why : {Null, "mount", "poll", "refresh"}, rows : Documents \cup {Null}]]
BY DEF TypeOK, Ask, AskedFor, Free

LEMMA ActivatedTyped ==
    ASSUME TypeOK, NEW p, p.key \in UploadKeys
    PROVE  Activated(p) \in Course
BY DEF TypeOK, Activated, Course

LEMMA PublicationSteps ==
    ASSUME MaterialInv,
           \/ \E k \in UploadKeys : Publish(k)
           \/ Activate \/ LosePublication \/ ReadCourse \/ ShowCourse \/ LoseCourse \/ RivalPublishes
    PROVE  MaterialInv'
<1>1. TypeOK
  BY DEF MaterialInv
<1>2. /\ panel \in Panel /\ [panel EXCEPT !.busy = "publication"] \in Panel
      /\ [panel EXCEPT !.busy = IF @ = "publication" THEN Null ELSE @] \in Panel
  BY <1>1 DEF TypeOK, Panel
<1>3. NoPublication \in [pc : {"idle", "refresh"}] /\ [pc |-> "refresh"] \in [pc : {"idle", "refresh"}]
  BY DEF NoPublication
<1>4. ASSUME NEW k \in UploadKeys, Publish(k) PROVE MaterialInv'
  <2>1. publication' \in [pc : {"activate"}, key : UploadKeys, expected : Nat]
    BY <1>1, <1>4 DEF Publish, TypeOK, Course
  <2> QED
    BY <1>1, <1>2, <1>4, <2>1, PanelStep DEF Publish, uploadVars, TypeOK
<1>5. CASE Activate
  <2>1. publication.key \in UploadKeys
    BY <1>1, <1>5 DEF Activate, TypeOK
  <2>2. course' \in Course
    BY <1>1, <1>5, <2>1, ActivatedTyped DEF Activate
  <2> QED
    BY <1>1, <1>2, <1>3, <1>5, <2>2, PanelStep DEF Activate, PublishCaught, RefreshCourse, uploadVars, TypeOK
<1>6. CASE LosePublication
  <2>1. publication.key \in UploadKeys /\ publication.expected \in Nat
    BY <1>1, <1>6 DEF LosePublication, TypeOK
  <2>2. late' \subseteq late \cup [request : {"activate"}, key : UploadKeys, expected : Nat]
    BY <1>6, <2>1 DEF LosePublication
  <2>3. faults' \in 0 .. MaxFaults
    BY <1>1, <1>6, TypesOf DEF LosePublication
  <2> QED
    BY <1>1, <1>2, <1>3, <1>6, <2>2, <2>3, PanelStep DEF LosePublication, PublishCaught, RefreshCourse, uploadVars, TypeOK
<1>7. CASE ReadCourse
  <2>1. publication' \in [pc : {"show"}, course : Course]
    BY <1>1, <1>7 DEF ReadCourse, TypeOK
  <2> QED
    BY <1>1, <1>2, <1>7, <2>1, PanelStep DEF ReadCourse, uploadVars, TypeOK
<1>8. CASE ShowCourse
  <2>1. publication.course \in Course
    BY <1>1, <1>8 DEF ShowCourse, TypeOK
  <2> QED
    BY <1>1, <1>2, <1>3, <1>8, <2>1, PanelStep DEF ShowCourse, EndPublication, uploadVars, TypeOK
<1>9. CASE LoseCourse
  <2>1. faults' \in 0 .. MaxFaults
    BY <1>1, <1>9, TypesOf DEF LoseCourse
  <2> QED
    BY <1>1, <1>2, <1>3, <1>9, <2>1, PanelStep DEF LoseCourse, EndPublication, uploadVars, TypeOK
<1>10. CASE RivalPublishes
  <2>1. course' \in Course /\ rivals' \in 0 .. MaxRivals
    BY <1>1, <1>10 DEF RivalPublishes, TypeOK, Course
  <2> QED
    BY <1>1, <1>2, <1>10, <2>1, PanelStep DEF RivalPublishes, uploadVars, TypeOK
<1> QED
  BY <1>4, <1>5, <1>6, <1>7, <1>8, <1>9, <1>10

LEMMA MountedTyped == Mounted \in Panel /\ Unmounted \in Panel
BY DEF Mounted, Unmounted, Panel, NoDocuments, Documents, Versions

LEMMA ListSteps ==
    ASSUME MaterialInv,
           \/ Poll \/ Open
           \/ \E f \in Files \cup {Null} : Choose(f)
           \/ \E n \in ReadIds : Answer(n)
    PROVE  MaterialInv'
<1>1. TypeOK /\ panel \in Panel
  BY DEF MaterialInv, TypeOK, Panel
<1>2. CASE Poll
  BY <1>1, <1>2, AskTyped, PanelStep DEF Poll, publicationVars, TypeOK
<1>3. CASE Open
  BY <1>1, <1>3, AskTyped, MountedTyped, PanelStep DEF Open, publicationVars, TypeOK
<1>4. ASSUME NEW f \in Files \cup {Null}, Choose(f) PROVE MaterialInv'
  <2>1. [panel EXCEPT !.file = f] \in Panel
    BY <1>1 DEF Panel
  <2> QED
    BY <1>1, <1>4, <2>1, PanelStep DEF Choose, publicationVars, TypeOK
<1>5. ASSUME NEW n \in ReadIds, Answer(n) PROVE MaterialInv'
  <2>1. Listing \in Documents
    BY <1>1 DEF Listing, Documents, TypeOK
  <2>2. reads' \in [ReadIds -> [why : {Null, "mount", "poll", "refresh"}, rows : Documents \cup {Null}]]
    BY <1>1, <1>5, <2>1 DEF Answer, TypeOK
  <2> QED
    BY <1>1, <1>5, <2>2, PanelStep DEF Answer, publicationVars, TypeOK
<1> QED
  BY <1>2, <1>3, <1>4, <1>5

\* A step of the tries that touches no row.
LEMMA TriesStep ==
    ASSUME MaterialInv, UNCHANGED <<rowOf, publicationVars>>,
           attempt' \in [Files -> Attempt],
           \A g \in Files : /\ attempt'[g].key <= 1
                            /\ attempt'[g].pc \in Requests => attempt'[g].key = 1,
           late' \subseteq late \cup [request : Requests, key : {k \in UploadKeys : k[2] = 1}],
           panel' \in Panel,
           reads' \in [ReadIds -> [why : {Null, "mount", "poll", "refresh"}, rows : Documents \cup {Null}]],
           faults' \in 0 .. MaxFaults
    PROVE  MaterialInv'
<1>1. TypeOK'
  BY DEF MaterialInv, TypeOK, Panel, Attempt, publicationVars
<1>2. KeysOK'
  BY DEF MaterialInv, KeysOK
<1> QED
  BY <1>1, <1>2 DEF MaterialInv

LEMMA ReadSteps ==
    ASSUME MaterialInv, NEW n \in ReadIds, ShowList(n) \/ LoseRead(n)
    PROVE  MaterialInv'
<1>1. TypeOK /\ panel \in Panel /\ reads[n].rows \in Documents \cup {Null}
  BY DEF MaterialInv, TypeOK, Panel
<1>2. BusyAfter(n) \in Files \cup {Null, "publication"}
  BY <1>1 DEF BusyAfter, Panel
<1>3. [reads EXCEPT ![n] = NoRead] \in
         [ReadIds -> [why : {Null, "mount", "poll", "refresh"}, rows : Documents \cup {Null}]]
  BY <1>1 DEF TypeOK, NoRead
<1>4. CASE ShowList(n)
  <2>1. panel' \in Panel
    BY <1>1, <1>2, <1>4 DEF ShowList, Panel
  <2> QED
    BY <1>1, <1>3, <1>4, <2>1, FinishedOK, TriesStep DEF ShowList, TypeOK
<1>5. CASE LoseRead(n)
  <2>1. panel' \in Panel
    BY <1>1, <1>2, <1>5 DEF LoseRead, Panel
  <2>2. faults' \in 0 .. MaxFaults
    BY <1>1, <1>5, TypesOf DEF LoseRead
  <2> QED
    BY <1>1, <1>3, <1>5, <2>1, <2>2, FinishedOK, TriesStep DEF LoseRead
<1> QED
  BY <1>4, <1>5

LEMMA CloseStep ==
    ASSUME MaterialInv, Close
    PROVE  MaterialInv'
<1>1. TypeOK /\ \A f \in Files : attempt[f] \in Attempt
  BY TypesOf DEF MaterialInv
<1>2. ASSUME NEW f \in Files
      PROVE  /\ attempt'[f] \in Attempt /\ attempt'[f].key <= 1
             /\ attempt'[f].pc \in Requests => attempt'[f].key = 1
  <2>1. CASE attempt[f].pc \in {"refresh", "refreshing"}
    <3>1. attempt'[f] = [attempt[f] EXCEPT !.pc = "idle"]
      BY <2>1 DEF Close
    <3> QED
      BY <1>1, <3>1 DEF MaterialInv, KeysOK, Attempt, Requests
  <2>2. CASE attempt[f].pc \notin {"refresh", "refreshing"}
    <3>1. attempt'[f] = attempt[f]
      BY <2>2 DEF Close
    <3> QED
      BY <1>1, <3>1 DEF MaterialInv, KeysOK
  <2> QED
    BY <2>1, <2>2
<1>3. attempt' \in [Files -> Attempt]
  BY <1>2 DEF Close
<1>4. reads' \in [ReadIds -> [why : {Null, "mount", "poll", "refresh"}, rows : Documents \cup {Null}]]
  BY DEF Close, NoRead
<1> QED
  BY <1>1, <1>2, <1>3, <1>4, MountedTyped, TriesStep DEF Close, TypeOK

LEMMA CaughtOK ==
    ASSUME MaterialInv, NEW f \in Files
    PROVE  /\ Caught(f) \in Attempt /\ Caught(f).key = attempt[f].key
           /\ Caught(f).pc \notin Requests
<1>1. attempt[f] \in Attempt
  BY TypesOf DEF MaterialInv
<1>2. Closing(f) \in {"refresh", "idle"}
  BY DEF Closing
<1> QED
  BY <1>1, <1>2 DEF Caught, Attempt, Requests

LEMMA SucceededOK ==
    ASSUME MaterialInv, NEW f \in Files, attempt[f].pc \in Requests
    PROVE  Succeeded(f) \in Attempt /\ Succeeded(f).key = attempt[f].key
<1>1. attempt[f] \in Attempt
  BY TypesOf DEF MaterialInv
<1>2. Closing(f) \in {"refresh", "idle"}
  BY DEF Closing
<1>3. CASE attempt[f].pc = "create"
  BY <1>1, <1>3 DEF Succeeded, Attempt, Requests
<1>4. CASE attempt[f].pc = "put"
  BY <1>1, <1>4 DEF Succeeded, Attempt, Requests
<1>5. CASE attempt[f].pc = "confirm"
  BY <1>1, <1>2, <1>5 DEF Succeeded, Attempt, Requests
<1> QED
  BY <1>3, <1>4, <1>5 DEF Requests

LEMMA CurrentOK ==
    ASSUME MaterialInv, NEW f \in Files, attempt[f].pc \in Requests
    PROVE  Current(f) \in UploadKeys /\ Current(f)[2] = 1
BY DEF MaterialInv, KeysOK, Current, UploadKeys

Tried(t, request, n) == [t EXCEPT !.pc = request, !.key = n]

LEMMA TriedTyped ==
    ASSUME NEW t \in Attempt, NEW request \in Requests, NEW n \in 0 .. MaxKeys
    PROVE  Tried(t, request, n) \in Attempt /\ Tried(t, request, n).key = n
BY DEF Attempt, Tried

LEMMA SubmitStep ==
    ASSUME MaterialInv, Submit
    PROVE  MaterialInv'
<1> DEFINE f == panel.file
           a == Tried(attempt[f], FirstRequest(attempt[f]), KeyOf(attempt[f]))
<1>1. TypeOK /\ panel \in Panel
  BY DEF MaterialInv, TypeOK, Panel
<1>2. f \in Files
  BY <1>1 DEF Submit, Panel
<1>3. attempt[f] \in Attempt /\ attempt[f].key <= 1
  BY <1>1, <1>2, TypesOf DEF MaterialInv, KeysOK
<1>4. KeyOf(attempt[f]) = 1
  BY <1>3 DEF KeyOf, Attempt
<1>5. FirstRequest(attempt[f]) \in Requests
  BY DEF FirstRequest, Requests
<1>6. attempt' = [attempt EXCEPT ![f] = a]
  BY DEF Submit, Tried
<1>7. a \in Attempt /\ a.key = 1
  <2>2. KeyOf(attempt[f]) \in 0 .. MaxKeys
    BY <1>4
  <2>3. a \in Attempt /\ a.key = KeyOf(attempt[f])
    BY <1>3, <1>5, <2>2, TriedTyped
  <2> QED
    BY <1>4, <2>3, Zenon
<1>8. panel' \in Panel
  BY <1>1, <1>2 DEF Submit, Panel
<1> HIDE DEF f, a
<1>9. /\ attempt' \in [Files -> Attempt]
      /\ \A g \in Files : /\ attempt'[g].key <= 1
                          /\ attempt'[g].pc \in Requests => attempt'[g].key = 1
  <2>1. a.key <= 1
    BY <1>7
  <2> QED
    BY <1>2, <1>6, <1>7, <2>1, TryStep
<1> QED
  BY <1>1, <1>8, <1>9, TriesStep DEF Submit, TypeOK

LEMMA LoseStep ==
    ASSUME MaterialInv, NEW f \in Files, Lose(f)
    PROVE  MaterialInv'
<1>1. TypeOK /\ panel \in Panel /\ faults' \in 0 .. MaxFaults
  BY TypesOf DEF MaterialInv, TypeOK, Panel, Lose
<1>2. Caught(f).key <= 1
  BY CaughtOK DEF MaterialInv, KeysOK
<1>3. late' \subseteq late \cup [request : Requests, key : {k \in UploadKeys : k[2] = 1}]
  BY CurrentOK DEF Lose
<1>4. /\ attempt' \in [Files -> Attempt]
      /\ \A g \in Files : /\ attempt'[g].key <= 1
                          /\ attempt'[g].pc \in Requests => attempt'[g].key = 1
  BY <1>2, CaughtOK, TryStep DEF Lose
<1> QED
  BY <1>1, <1>3, <1>4, TriesStep DEF Lose, TypeOK

LEMMA RefreshStep ==
    ASSUME MaterialInv, NEW f \in Files, Refresh(f) \/ Expire(f)
    PROVE  MaterialInv'
<1>1. TypeOK /\ panel \in Panel /\ attempt[f] \in Attempt /\ attempt \in [Files -> Attempt]
  BY TypesOf DEF MaterialInv, TypeOK, Panel
<1>2. CASE Refresh(f)
  <2> DEFINE a == [attempt[f] EXCEPT !.pc = "refreshing"]
  <2>1. a \in Attempt /\ a.key = attempt[f].key /\ a.pc \notin Requests
    BY <1>1 DEF Attempt, Requests
  <2>2. attempt' = [attempt EXCEPT ![f] = a]
    BY <1>2 DEF Refresh
  <2> HIDE DEF a
  <2>3. /\ attempt' \in [Files -> Attempt]
        /\ \A g \in Files : /\ attempt'[g].key <= 1
                            /\ attempt'[g].pc \in Requests => attempt'[g].key = 1
    BY <2>1, <2>2, TryStep DEF MaterialInv, KeysOK
  <2> QED
    BY <1>1, <1>2, <2>3, AskTyped, TriesStep DEF Refresh, TypeOK
<1>3. CASE Expire(f)
  <2> DEFINE a == [attempt[f] EXCEPT !.upload = "expired"]
  <2>1. a \in Attempt /\ a.key = attempt[f].key /\ a.pc = attempt[f].pc
    BY <1>1 DEF Attempt
  <2>2. attempt' = [attempt EXCEPT ![f] = a]
    BY <1>3 DEF Expire
  <2> HIDE DEF a
  <2>3. /\ attempt' \in [Files -> Attempt]
        /\ \A g \in Files : /\ attempt'[g].key <= 1
                            /\ attempt'[g].pc \in Requests => attempt'[g].key = 1
    BY <2>1, <2>2, TryStep DEF MaterialInv, KeysOK
  <2>4. faults' \in 0 .. MaxFaults
    BY <1>1, <1>3, TypesOf DEF Expire
  <2> QED
    BY <1>1, <1>3, <2>3, <2>4, TriesStep DEF Expire, TypeOK
<1> QED
  BY <1>2, <1>3

\* A row comes from a request of a try, in time or late, under its first key.
LEMMA RowStep ==
    ASSUME MaterialInv, NEW k \in UploadKeys, NEW v,
           v \in [state : Versions, object : {"no", "yes"}],
           k[2] = 1, rowOf' = [rowOf EXCEPT ![k] = v],
           late' \subseteq late,
           attempt' \in [Files -> Attempt],
           \A g \in Files : /\ attempt'[g].key <= 1
                            /\ attempt'[g].pc \in Requests => attempt'[g].key = 1,
           panel' \in Panel,
           UNCHANGED <<reads, faults, publicationVars>>
    PROVE  MaterialInv'
<1>1. TypeOK'
  BY DEF MaterialInv, TypeOK, Panel, Attempt, publicationVars
<1>2. \A l \in UploadKeys : l[2] # 1 => rowOf'[l] = rowOf[l]
  BY DEF MaterialInv, TypeOK
<1>3. KeysOK'
  BY <1>2 DEF MaterialInv, KeysOK
<1> QED
  BY <1>1, <1>3 DEF MaterialInv

LEMMA ProcessedTyped ==
    ASSUME NEW v \in [state : Versions, object : {"no", "yes"}], NEW request
    PROVE  Processed(request, v) \in [state : Versions, object : {"no", "yes"}]
BY DEF Processed, Versions

LEMMA ServeStep ==
    ASSUME MaterialInv, NEW f \in Files, Serve(f)
    PROVE  MaterialInv'
<1>1. TypeOK /\ panel \in Panel /\ attempt \in [Files -> Attempt]
  BY TypesOf DEF MaterialInv, TypeOK, Panel
<1>2. attempt[f].pc \in Requests /\ Current(f) \in UploadKeys /\ Current(f)[2] = 1
  BY CurrentOK DEF Serve
<1>3. attempt[f].key = 1
  BY <1>2 DEF MaterialInv, KeysOK
<1>4. CASE Succeeds(attempt[f].pc, rowOf[Current(f)], attempt[f].upload)
  <2>1. /\ rowOf' = [rowOf EXCEPT ![Current(f)] = Processed(attempt[f].pc, rowOf[Current(f)])]
        /\ attempt' = [attempt EXCEPT ![f] = Succeeded(f)]
        /\ panel' = [panel EXCEPT !.file = FileAfter(f)]
        /\ UNCHANGED <<late, reads, faults, publicationVars>>
    BY <1>4 DEF Serve
  <2>2. Processed(attempt[f].pc, rowOf[Current(f)]) \in [state : Versions, object : {"no", "yes"}]
    BY <1>1, <1>2, ProcessedTyped DEF TypeOK
  <2>3. panel' \in Panel
    BY <1>1, <2>1 DEF Panel, FileAfter
  <2>4. Succeeded(f) \in Attempt /\ Succeeded(f).key = 1
    BY <1>2, <1>3, SucceededOK
  <2>5. /\ attempt' \in [Files -> Attempt]
        /\ \A g \in Files : /\ attempt'[g].key <= 1
                            /\ attempt'[g].pc \in Requests => attempt'[g].key = 1
    <3>1. Succeeded(f).key <= 1
      BY <2>4
    <3> QED
      BY <2>1, <2>4, <3>1, TryStep
  <2> QED
    BY <1>2, <2>1, <2>2, <2>3, <2>5, RowStep
<1>5. CASE ~ Succeeds(attempt[f].pc, rowOf[Current(f)], attempt[f].upload)
  <2>1. /\ attempt' = [attempt EXCEPT ![f] = Caught(f)]
        /\ UNCHANGED <<rowOf, panel, late, reads, faults, publicationVars>>
    BY <1>5 DEF Serve
  <2>2. Caught(f).key <= 1
    BY <1>3, CaughtOK
  <2>3. /\ attempt' \in [Files -> Attempt]
        /\ \A g \in Files : /\ attempt'[g].key <= 1
                            /\ attempt'[g].pc \in Requests => attempt'[g].key = 1
    BY <2>1, <2>2, CaughtOK, TryStep
  <2> QED
    BY <1>1, <2>1, <2>3, TriesStep DEF TypeOK
<1> QED
  BY <1>4, <1>5

LEMMA ProcessLateStep ==
    ASSUME MaterialInv, ProcessLate
    PROVE  MaterialInv'
<1>1. /\ TypeOK /\ panel \in Panel /\ attempt \in [Files -> Attempt]
      /\ \A g \in Files : /\ attempt[g].key <= 1
                          /\ attempt[g].pc \in Requests => attempt[g].key = 1
  BY TypesOf DEF MaterialInv, TypeOK, Panel, KeysOK
<1>2. PICK r \in late :
        /\ late' = late \ {r}
        /\ IF r.request = "activate"
           THEN course' = Activated(r) /\ UNCHANGED rowOf
           ELSE rowOf' = [rowOf EXCEPT ![r.key] = Processed(r.request, rowOf[r.key])] /\ UNCHANGED course
        /\ UNCHANGED <<panel, attempt, reads, publication, shell, faults, rivals>>
  BY DEF ProcessLate
<1>3. r.key \in UploadKeys
  BY <1>1 DEF TypeOK
<1>4. CASE r.request = "activate"
  <2>1. course' \in Course
    BY <1>1, <1>2, <1>3, <1>4, ActivatedTyped
  <2> QED
    BY <1>1, <1>2, <1>4, <2>1, PanelStep DEF TypeOK
<1>5. CASE r.request # "activate"
  <2>1. r.key[2] = 1
    BY <1>1, <1>5 DEF MaterialInv, KeysOK, TypeOK
  <2>2. Processed(r.request, rowOf[r.key]) \in [state : Versions, object : {"no", "yes"}]
    BY <1>1, <1>3, ProcessedTyped DEF TypeOK
  <2> QED
    BY <1>1, <1>2, <1>3, <1>5, <2>1, <2>2, RowStep DEF publicationVars
<1> QED
  BY <1>4, <1>5

LEMMA IngestStep ==
    ASSUME MaterialInv, NEW k \in UploadKeys, Ingest(k)
    PROVE  MaterialInv'
<1>1. /\ TypeOK /\ panel \in Panel /\ attempt \in [Files -> Attempt]
      /\ \A g \in Files : /\ attempt[g].key <= 1
                          /\ attempt[g].pc \in Requests => attempt[g].key = 1
  BY TypesOf DEF MaterialInv, TypeOK, Panel, KeysOK
<1>2. PICK state \in Versions : rowOf' = [rowOf EXCEPT ![k] = [rowOf[k] EXCEPT !.state = state]]
  BY DEF Ingest, Versions
<1>3. [rowOf[k] EXCEPT !.state = state] \in [state : Versions, object : {"no", "yes"}]
  BY <1>1 DEF TypeOK
<1>4. k[2] = 1
  BY DEF MaterialInv, KeysOK, Ingest, Unknown
<1> QED
  BY <1>1, <1>2, <1>3, <1>4, RowStep DEF Ingest

LEMMA NextMaterialInv == MaterialInv /\ [Next]_vars => MaterialInv'
<1> SUFFICES ASSUME MaterialInv, [Next]_vars PROVE MaterialInv'
  OBVIOUS
<1>1. CASE UNCHANGED vars
  BY <1>1, PanelStep DEF vars, publicationVars, MaterialInv, TypeOK, Panel
<1> QED
  BY <1>1, ProcessLateStep, PublicationSteps, IngestStep, ListSteps, CloseStep, SubmitStep, ReadSteps,
     ServeStep, LoseStep, RefreshStep DEF Next

LEMMA Inductive == Spec => []MaterialInv
BY InitMaterialInv, NextMaterialInv, PTL DEF Spec

-----------------------------------------------------------------------------

\* Rows, tries, requests and what is shown keep their types.
THEOREM TypeCorrect == Spec => []TypeOK
<1>1. MaterialInv => TypeOK
  BY DEF MaterialInv
<1> QED
  BY <1>1, Inductive, PTL

\* However often a file is tried, and however late a lost request is still
\* processed, it becomes one document (attempt.current, kept with its file).
THEOREM OneDocumentPerFileHolds == Spec => []OneDocumentPerFile
<1>1. MaterialInv => OneDocumentPerFile
  <2>1. \A k, l \in UploadKeys : k[1] = l[1] /\ k[2] = 1 /\ l[2] = 1 => k = l
    BY DEF UploadKeys
  <2> QED
    BY <2>1 DEF MaterialInv, KeysOK, OneDocumentPerFile
<1> QED
  BY <1>1, Inductive, PTL
=============================================================================
