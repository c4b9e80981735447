-------------------------- MODULE TutorPanelProofs --------------------------
(***************************************************************************)
(* Proofs about the tutor panel, for any conversations, keys and number of *)
(* history requests under way.                                             *)
(***************************************************************************)
EXTENDS TutorPanel, TLAPS

Rows == Seq(Turn)

Read ==
    [why : {"poll", "accepted", "final", "load", "select"}, conv : Convs,
     age : {"newest", "superseded"}, state : {"asked", "served"}, rows : Rows]

Submission ==
    [pc : {"idle", "create", "post", "reply", "stream", "final"},
     conv : Convs \cup {None}, key : Keys \cup {None}, kind : Kinds,
     parent : Convs \cup {None}, outcome : {"open", "terminal"}]

Types ==
    /\ turns \in [Convs -> Rows]
    /\ created \subseteq Convs /\ Existing \subseteq created
    /\ listed \subseteq created
    /\ asked \in [Keys -> {"never"} \cup Kinds]
    /\ selected \in listed \cup {None}
    /\ shown \in [from : Convs \cup {None}, rows : Rows]
    /\ shown.from \in listed \cup {None}
    /\ work \in {"none", "list", "load", "select", "new"}
    /\ send \in Submission
    /\ retry \in Keys \cup {None}
    /\ accepted \in Keys \cup {None}
    /\ draft \in Convs \cup {None}
    /\ reads \subseteq Read
    /\ \A r \in reads : r.conv \in listed

\* Before the first history is on screen nothing is sent or offered, and a
\* conversation is created for a question only if there is none.
Control ==
    /\ work = "list" => created = Existing /\ listed = {} /\ reads = {}
    /\ work \in {"list", "load"} => shown.rows = <<>> /\ send.pc = "idle" /\ retry = None
    /\ selected = None => listed = {}
    /\ listed = {} /\ loading => send.pc = "idle" /\ retry = None
    /\ Creating => draft # None
    /\ send.pc = "create" => selected = None
    /\ send.pc \notin {"idle", "create"} => send.conv \in listed
    /\ busy => send.key # None
    /\ draft \notin listed \cup Existing

Single == {"final", "load", "select"}
OneNewest == \A r, s \in reads : r.age = "newest" /\ s.age = "newest" => r = s
OneOfAKind == \A r, s \in reads : r.why \in Single /\ r.why = s.why => r = s

ReadsOK ==
    /\ OneNewest
    /\ OneOfAKind
    /\ \A r \in reads :
         /\ r.why = "final" => send.pc = "final"
         /\ r.why \in {"load", "select"} => work = r.why
         /\ work = "load" => r.why = "load"

Earlier(s, t) ==
    /\ Len(s) <= Len(t)
    /\ \A i \in DOMAIN s : s[i] = t[i] \/ IsPending(s[i])

History ==
    /\ shown.from = None => shown.rows = <<>>
    /\ shown.from # None => Earlier(shown.rows, turns[shown.from])
    /\ \A r \in reads :
         /\ r.state = "asked" => r.rows = <<>>
         /\ Earlier(r.rows, turns[r.conv])
         /\ r.age = "newest" /\ r.state = "served" /\ r.conv = shown.from =>
              Earlier(shown.rows, r.rows)

\* What holds of the panel whenever actions are clicked.
PanelInv ==
    /\ Types
    /\ Control
    /\ ReadsOK
    /\ History

\* What holds until an action is clicked while something loads: nothing is then
\* sent, offered or polled, and requests are about the selected conversation.
Tracked ==
    \A r \in reads :
      /\ r.why \in {"load", "select"} => r.age = "newest"
      /\ r.age = "newest" /\ r.why # "select" => r.conv = selected
      /\ r.age = "newest" /\ r.why \notin {"load", "select"} => work = "none"

Follows ==
    /\ loading => send.pc = "idle" /\ retry = None /\ ~ pending
    /\ Creating => \A r \in reads : r.age = "superseded"
    /\ send.pc \notin {"idle", "create"} => send.conv = selected
    /\ shown.from = selected \/ shown.rows = <<>>
    /\ Tracked

\* What holds until an action is clicked over a standing offer.
Stored(k) == \E c \in Convs : Has(turns[c], k)

Kept ==
    /\ NoSilentLoss
    /\ accepted # None => Stored(accepted)
    /\ send.pc \in {"reply", "stream", "final"} => Stored(send.key)
    /\ busy /\ retry # None => retry = send.key
    /\ busy /\ accepted # None => accepted = send.key
    /\ accepted # None /\ retry # None => accepted = retry

USE ConstantsAssumption

(***************************************************************************)
(* The recovery offer: its button is on screen whenever it is needed.      *)
(***************************************************************************)

OfferInv ==
    /\ send = [pc |-> send.pc, conv |-> send.conv, key |-> send.key,
               kind |-> send.kind, parent |-> send.parent, outcome |-> send.outcome]
    /\ retry # None /\ send.pc = "idle" => error

LEMMA OfferStep == OfferInv /\ [Next]_vars => OfferInv'
<1> SUFFICES ASSUME OfferInv, [Next]_vars PROVE OfferInv'
  OBVIOUS
<1> USE DEF OfferInv
<1>0. \A p : LET s == [send EXCEPT !.pc = p] IN
        /\ s.pc = p
        /\ s = [pc |-> s.pc, conv |-> s.conv, key |-> s.key, kind |-> s.kind,
             parent |-> s.parent, outcome |-> s.outcome]
  OBVIOUS
<1>1. CASE UNCHANGED vars
  BY <1>1 DEF vars
<1>2. CASE Poll \/ ListLoaded \/ CreationStored
  BY <1>2 DEF Poll, ListLoaded, CreationStored
<1>3. CASE ListFailed \/ NewFailed
  BY <1>3 DEF ListFailed, NewFailed
<1>4. CASE NewConversation
  BY <1>4 DEF NewConversation, ToolbarEnabled
<1>5. CASE CreationReturned
  BY <1>5, <1>0 DEF CreationReturned
<1>6. ASSUME NEW k, NEW kind, NEW p, Submit(k, kind, p) PROVE OfferInv'
  BY <1>6 DEF Submit
<1>7. CASE Recover
  BY <1>6, <1>7 DEF Recover
<1>8. ASSUME NEW k, AskQuestion(k) \/ HandleAction(k) PROVE OfferInv'
  BY <1>6, <1>8 DEF AskQuestion, HandleAction
<1>9. CASE PostStored \/ AcceptedEvent
  BY <1>9, <1>0 DEF PostStored, AcceptedEvent
<1>10. CASE StreamEnds
  BY <1>10 DEF StreamEnds
<1>11. ASSUME GiveUp PROVE OfferInv'
  BY <1>11 DEF GiveUp, Idle
<1>12. CASE SendFailed
  BY <1>11, <1>12 DEF SendFailed
<1>13. ASSUME NEW r, Delivered(r) \/ FinalFailed(r) PROVE OfferInv'
  BY <1>11, <1>13 DEF Delivered, FinalFailed, Idle
<1>14. ASSUME NEW r, Serve(r) \/ Loaded(r) \/ LoadFailed(r) PROVE OfferInv'
  BY <1>14 DEF Serve, Loaded, LoadFailed
<1>15. ASSUME NEW r, Refreshed(r) \/ RefreshFailed(r) \/ Opened(r) PROVE OfferInv'
  BY <1>15 DEF Refreshed, RefreshFailed, Opened, RetryAfter
<1>16. ASSUME NEW c, SelectConversation(c) \/ Settle(c) PROVE OfferInv'
  BY <1>16 DEF SelectConversation, Settle
<1>17. ASSUME NEW c, NEW k, OtherTab(c, k) PROVE OfferInv'
  BY <1>17 DEF OtherTab
<1> QED
  BY <1>1, <1>2, <1>3, <1>4, <1>5, <1>7, <1>8, <1>9, <1>10, <1>12, <1>13, <1>14, <1>15,
     <1>16, <1>17 DEF Next, ReadStep

\* The offer disables the composer and the toolbar; the error notice it is
\* rendered in stays until it is taken or withdrawn (tutor-panel's send,
\* refresh and catch), whatever the student clicks meanwhile.
THEOREM OfferReachableHolds == Spec => []OfferReachable
<1>1. Init => OfferInv
  BY DEF Init, Idle, OfferInv
<1>2. OfferInv => OfferReachable
  BY DEF OfferInv, OfferReachable, RetryShown, busy
<1> QED
  BY <1>1, <1>2, OfferStep, PTL DEF Spec

(***************************************************************************)
(* Conversations whose creation was answered to nobody.                    *)
(***************************************************************************)

LEMMA OrphanStep == NoOrphan /\ [Next]_vars => NoOrphan'
<1> SUFFICES ASSUME NoOrphan, [Next]_vars PROVE NoOrphan'
  OBVIOUS
<1> USE DEF NoOrphan, api
<1>1. CASE UNCHANGED vars
  BY <1>1 DEF vars
<1>2. CASE Poll \/ ListLoaded \/ ListFailed
  BY <1>2 DEF Poll, ListLoaded, ListFailed
<1>3. CASE NewConversation \/ CreationStored \/ CreationReturned \/ NewFailed
  BY <1>3 DEF NewConversation, CreationStored, CreationReturned, NewFailed, KeyAfterFailure
<1>4. ASSUME NEW k, NEW kind, NEW p, Submit(k, kind, p) PROVE NoOrphan'
  BY <1>4 DEF Submit
<1>5. CASE Recover
  BY <1>4, <1>5 DEF Recover
<1>6. ASSUME NEW k, AskQuestion(k) \/ HandleAction(k) PROVE NoOrphan'
  BY <1>4, <1>6 DEF AskQuestion, HandleAction
<1>7. CASE PostStored \/ AcceptedEvent \/ StreamEnds \/ SendFailed
  BY <1>7 DEF PostStored, AcceptedEvent, StreamEnds, SendFailed, KeyAfterFailure
<1>8. ASSUME NEW r, Serve(r) \/ Refreshed(r) \/ RefreshFailed(r) \/ Loaded(r) PROVE NoOrphan'
  BY <1>8 DEF Serve, Refreshed, RefreshFailed, Loaded
<1>9. ASSUME NEW r, LoadFailed(r) \/ Opened(r) \/ Delivered(r) \/ FinalFailed(r) PROVE NoOrphan'
  BY <1>9 DEF LoadFailed, Opened, Delivered, FinalFailed
<1>10. ASSUME NEW c, SelectConversation(c) \/ Settle(c) PROVE NoOrphan'
  BY <1>10 DEF SelectConversation, Settle
<1>11. ASSUME NEW c, NEW k, OtherTab(c, k) PROVE NoOrphan'
  BY <1>11 DEF OtherTab
<1> QED
  BY <1>1, <1>2, <1>3, <1>5, <1>6, <1>7, <1>8, <1>9, <1>10, <1>11 DEF Next, ReadStep

\* A conversation whose creation was stored and its answer lost is the one the
\* next creation returns: creationKey.current is kept until then, whatever the
\* student clicks in the meantime.
THEOREM NoOrphanHolds == Spec => []NoOrphan
<1>1. Init => NoOrphan
  BY DEF Init, NoOrphan
<1> QED
  BY <1>1, OrphanStep, PTL DEF Spec

(***************************************************************************)
(* Histories: the rows of a conversation only grow and settle.             *)
(***************************************************************************)

LEMMA EarlierSame == \A s \in Rows : Earlier(s, s) /\ Earlier(<<>>, s)
BY DEF Earlier, Rows

LEMMA EarlierTransitive ==
    ASSUME NEW s \in Rows, NEW t \in Rows, NEW u \in Rows, Earlier(s, t), Earlier(t, u)
    PROVE  Earlier(s, u)
<1>1. /\ DOMAIN s = 1 .. Len(s) /\ DOMAIN t = 1 .. Len(t)
      /\ Len(s) \in Nat /\ Len(t) \in Nat /\ Len(u) \in Nat
  BY DEF Rows
<1>2. Len(s) <= Len(u) /\ DOMAIN s \subseteq DOMAIN t
  BY <1>1 DEF Earlier
<1>3. ASSUME NEW i \in DOMAIN s PROVE s[i] = u[i] \/ IsPending(s[i])
  BY <1>2 DEF Earlier
<1> QED
  BY <1>2, <1>3 DEF Earlier

\* What every step of the API does to the stored turns.
Grow ==
    /\ turns' \in [Convs -> Rows]
    /\ \A c \in Convs : /\ Earlier(turns[c], turns'[c])
                        /\ \A k : Has(turns[c], k) => Has(turns'[c], k)

LEMMA AppendGrows ==
    ASSUME turns \in [Convs -> Rows], NEW c \in Convs, NEW t \in Turn,
           turns' = [turns EXCEPT ![c] = Append(@, t)]
    PROVE  Grow /\ Has(turns'[c], t.key)
<1>1. turns[c] \in Seq(Turn) /\ Append(turns[c], t) \in Seq(Turn)
  BY DEF Rows
<1>2. turns' \in [Convs -> Rows]
  BY <1>1 DEF Rows
<1>3. /\ DOMAIN turns[c] \subseteq DOMAIN Append(turns[c], t)
      /\ Len(turns[c]) <= Len(Append(turns[c], t))
      /\ Len(turns[c]) + 1 \in DOMAIN Append(turns[c], t)
      /\ \A i \in DOMAIN turns[c] : turns[c][i] = Append(turns[c], t)[i]
      /\ Append(turns[c], t)[Len(turns[c]) + 1] = t
  BY <1>1
<1>4. turns'[c] = Append(turns[c], t) /\ \A d \in Convs : d # c => turns'[d] = turns[d]
  BY <1>1
<1>5. Earlier(turns[c], turns'[c]) /\ \A k : Has(turns[c], k) => Has(turns'[c], k)
  BY <1>3, <1>4 DEF Earlier, Has
<1>6. \A d \in Convs : d # c => Earlier(turns[d], turns'[d])
  BY <1>4, EarlierSame
<1>7. Has(turns'[c], t.key)
  BY <1>3, <1>4 DEF Has
<1> QED
  BY <1>2, <1>4, <1>5, <1>6, <1>7 DEF Grow

LEMMA SettleGrows ==
    ASSUME turns \in [Convs -> Rows], NEW c \in Convs, NEW i \in DOMAIN turns[c],
           IsPending(turns[c][i]), turns' = [turns EXCEPT ![c][i].state = "settled"]
    PROVE  Grow
<1> DEFINE t == [turns[c][i] EXCEPT !.state = "settled"]
           s == [turns[c] EXCEPT ![i] = t]
<1>1. turns[c] \in Seq(Turn) /\ DOMAIN turns[c] = 1 .. Len(turns[c]) /\ turns[c][i] \in Turn
  BY DEF Rows
<1>2. t \in Turn /\ t.key = turns[c][i].key
  BY <1>1 DEF Turn
<1>3. turns' = [turns EXCEPT ![c] = s]
  OBVIOUS
<1>4. turns'[c] = s /\ \A d \in Convs : d # c => turns'[d] = turns[d]
  BY <1>3
<1> HIDE DEF t
<1>5. /\ s \in Seq(Turn) /\ Len(s) = Len(turns[c]) /\ DOMAIN s = DOMAIN turns[c]
      /\ s[i] = t
      /\ \A j \in DOMAIN turns[c] : j # i => s[j] = turns[c][j]
  BY <1>1, <1>2
<1> HIDE DEF s
<1>6. turns' \in [Convs -> Rows]
  BY <1>3, <1>5 DEF Rows
<1>7. Earlier(turns[c], s) /\ \A k : Has(turns[c], k) => Has(s, k)
  BY <1>1, <1>2, <1>5 DEF Earlier, Has
<1>8. \A d \in Convs : d # c => Earlier(turns[d], turns'[d])
  BY <1>4, EarlierSame
<1> QED
  BY <1>4, <1>6, <1>7, <1>8 DEF Grow

LEMMA AcceptedGrows ==
    ASSUME turns \in [Convs -> Rows], NEW c \in Convs, NEW k \in Keys, NEW kind \in Kinds,
           NEW p, Accepted(c, k, kind, p)
    PROVE  Grow /\ Has(turns'[c], k)
<1> DEFINE t == [key |-> k, kind |-> kind, state |-> "pending"]
<1>1. t \in Turn /\ t.key = k
  BY DEF Turn
<1>2. CASE UNCHANGED turns /\ Has(turns[c], k)
  BY <1>2, EarlierSame DEF Grow
<1>3. CASE turns' = [turns EXCEPT ![c] = Append(@, t)]
  <2> HIDE DEF t
  <2> QED
    BY <1>1, <1>3, AppendGrows
<1> QED
  BY <1>2, <1>3 DEF Accepted

(***************************************************************************)
(* History requests.                                                       *)
(***************************************************************************)

LEMMA SupersededOK ==
    ASSUME reads \subseteq Read
    PROVE  /\ Superseded(reads) \subseteq Read
           /\ \A r \in Superseded(reads) :
                /\ r.age = "superseded"
                /\ \E q \in reads : /\ r.conv = q.conv /\ r.why = q.why
                                     /\ r.state = q.state /\ r.rows = q.rows
                                     /\ r = [q EXCEPT !.age = "superseded"]
<1>1. \A q \in Read : LET r == [q EXCEPT !.age = "superseded"] IN
        /\ r \in Read /\ r.age = "superseded" /\ r.conv = q.conv /\ r.why = q.why
        /\ r.state = q.state /\ r.rows = q.rows
  BY DEF Read
<1>2. ASSUME NEW r \in Superseded(reads)
      PROVE  /\ r \in Read /\ r.age = "superseded"
             /\ \E q \in reads : /\ r.conv = q.conv /\ r.why = q.why
                                 /\ r.state = q.state /\ r.rows = q.rows
                                 /\ r = [q EXCEPT !.age = "superseded"]
  <2>1. PICK q \in reads : r = [q EXCEPT !.age = "superseded"]
    BY DEF Superseded
  <2> QED
    BY <1>1, <2>1
<1> QED
  BY <1>2

LEMMA NewReadOK ==
    ASSUME NEW why \in {"poll", "accepted", "final", "load", "select"}, NEW c \in Convs
    PROVE  LET r == NewRead(why, c) IN
           /\ r \in Read /\ r.why = why /\ r.conv = c /\ r.age = "newest"
           /\ r.state = "asked" /\ r.rows = <<>>
BY DEF NewRead, Read, Rows

\* What superseding every request leaves of the invariant.
LEMMA SupersededHistory ==
    ASSUME PanelInv
    PROVE  \A r \in Superseded(reads) :
              /\ r \in Read /\ r.conv \in listed /\ r.age = "superseded"
              /\ r.state = "asked" => r.rows = <<>>
              /\ Earlier(r.rows, turns[r.conv])
              /\ r.why = "final" => send.pc = "final"
              /\ r.why \in {"load", "select"} => work = r.why
              /\ \A s \in Superseded(reads) : r.why \in Single /\ r.why = s.why => r = s
<1>1. reads \subseteq Read /\ \A r \in reads : r.conv \in listed
  BY DEF PanelInv, Types
<1>2. SUFFICES ASSUME NEW r \in Superseded(reads), NEW s \in Superseded(reads)
      PROVE  /\ r \in Read /\ r.conv \in listed /\ r.age = "superseded"
             /\ r.state = "asked" => r.rows = <<>>
             /\ Earlier(r.rows, turns[r.conv])
             /\ r.why = "final" => send.pc = "final"
             /\ r.why \in {"load", "select"} => work = r.why
             /\ r.why \in Single /\ r.why = s.why => r = s
  OBVIOUS
<1>3. PICK q \in reads : /\ r.conv = q.conv /\ r.why = q.why
                         /\ r.state = q.state /\ r.rows = q.rows
                         /\ r = [q EXCEPT !.age = "superseded"]
  BY <1>1, SupersededOK
<1>4. PICK p \in reads : s.why = p.why /\ s = [p EXCEPT !.age = "superseded"]
  BY <1>1, SupersededOK
<1>5. r \in Read /\ r.age = "superseded"
  BY <1>1, SupersededOK
<1>6. /\ q.state = "asked" => q.rows = <<>>
      /\ Earlier(q.rows, turns[q.conv])
  BY DEF PanelInv, History
<1>7. /\ q.why = "final" => send.pc = "final"
      /\ q.why \in {"load", "select"} => work = q.why
      /\ q.why \in Single /\ q.why = p.why => q = p
  BY DEF PanelInv, ReadsOK, OneOfAKind
<1> QED
  BY <1>1, <1>3, <1>4, <1>5, <1>6, <1>7

\* A step that supersedes what is under way and may ask for something.
LEMMA SupersedingStep ==
    ASSUME PanelInv, UNCHANGED <<turns, shown>>, listed \subseteq listed',
           work' = work \/ work \notin {"load", "select"},
           work' = "load" => reads = {},
           send.pc = "final" => send'.pc = "final",
           \A r, s \in reads' : r = s \/ r \in Superseded(reads) \/ s \in Superseded(reads),
           \A r \in reads' :
              \/ r \in Superseded(reads)
              \/ /\ r \in Read /\ r.conv \in listed'
                 /\ r.age = "newest" /\ r.state = "asked" /\ r.rows = <<>>
                 /\ r.why = "final" => send.pc # "final" /\ send'.pc = "final"
                 /\ r.why \in {"load", "select"} => work # r.why /\ work' = r.why
                 /\ work' = "load" => r.why = "load"
    PROVE  /\ reads' \subseteq Read /\ \A r \in reads' : r.conv \in listed'
           /\ ReadsOK' /\ History'
<1>1. \A r \in Superseded(reads) :
        /\ r \in Read /\ r.conv \in listed /\ r.age = "superseded"
        /\ r.state = "asked" => r.rows = <<>>
        /\ Earlier(r.rows, turns[r.conv])
        /\ r.why = "final" => send.pc = "final"
        /\ r.why \in {"load", "select"} => work = r.why
        /\ \A s \in Superseded(reads) : r.why \in Single /\ r.why = s.why => r = s
  BY SupersededHistory
<1>2. work' = "load" => Superseded(reads) = {}
  BY DEF Superseded
<1>3. ASSUME NEW r \in reads', r \notin Superseded(reads) PROVE Earlier(r.rows, turns[r.conv])
  <2>1. r.conv \in Convs /\ r.rows = <<>>
    BY <1>3 DEF Read
  <2>2. turns[r.conv] \in Rows
    BY <2>1 DEF PanelInv, Types
  <2> QED
    BY <2>1, <2>2, EarlierSame
<1>4. ASSUME NEW r \in reads'
      PROVE  /\ r \in Read /\ r.conv \in listed'
             /\ r.why = "final" => send'.pc = "final"
             /\ r.why \in {"load", "select"} => work' = r.why
             /\ work' = "load" => r.why = "load"
             /\ r.state = "asked" => r.rows = <<>>
             /\ Earlier(r.rows, turns[r.conv])
             /\ r.age = "newest" => r.state = "asked"
  <2>1. CASE r \in Superseded(reads)
    BY <1>1, <1>2, <2>1
  <2>2. CASE r \notin Superseded(reads)
    BY <1>3, <2>2
  <2> QED
    BY <2>1, <2>2
<1>5. ASSUME NEW r \in reads', NEW s \in reads'
      PROVE  /\ r.age = "newest" /\ s.age = "newest" => r = s
             /\ r.why \in Single /\ r.why = s.why => r = s
  <2>1. CASE r \in Superseded(reads) /\ s \in Superseded(reads)
    BY <1>1, <2>1
  <2>2. CASE r \notin Superseded(reads) /\ s \notin Superseded(reads)
    BY <2>2
  <2>3. CASE r \in Superseded(reads) /\ s \notin Superseded(reads)
    BY <1>1, <2>3 DEF Single
  <2>4. CASE r \notin Superseded(reads) /\ s \in Superseded(reads)
    BY <1>1, <2>4 DEF Single
  <2> QED
    BY <2>1, <2>2, <2>3, <2>4
<1>6. ReadsOK'
  BY <1>4, <1>5 DEF ReadsOK, OneNewest, OneOfAKind
<1>7. History'
  BY <1>4 DEF PanelInv, History
<1> QED
  BY <1>4, <1>6, <1>7

\* A step that takes no part in the history requests.
LEMMA SameReads ==
    ASSUME PanelInv, UNCHANGED <<turns, shown, reads, work>>,
           send.pc = "final" => send'.pc = "final"
    PROVE  ReadsOK' /\ History'
<1>1. ReadsOK'
  BY DEF PanelInv, ReadsOK, OneNewest, OneOfAKind
<1>2. History'
  BY DEF PanelInv, History
<1> QED
  BY <1>1, <1>2

\* Asking: the new request is the newest.
LEMMA AskStep ==
    ASSUME PanelInv, UNCHANGED <<turns, shown>>, listed \subseteq listed', listed' \subseteq Convs,
           NEW why \in {"poll", "accepted", "final", "load", "select"}, NEW c, c \in listed',
           reads' = Ask(why, c),
           work' = work \/ work \notin {"load", "select"},
           work' = "load" => reads = {} /\ why = "load",
           why \in {"load", "select"} => work # why /\ work' = why,
           send.pc = "final" => send'.pc = "final",
           why = "final" => send.pc # "final" /\ send'.pc = "final"
    PROVE  /\ reads' \subseteq Read /\ \A r \in reads' : r.conv \in listed'
           /\ ReadsOK' /\ History'
<1>1. PICK n : n = NewRead(why, c)
  OBVIOUS
<1>2. n \in Read /\ n.why = why /\ n.conv = c /\ n.age = "newest" /\ n.state = "asked" /\ n.rows = <<>>
  BY <1>1, NewReadOK
<1>3. reads' = Superseded(reads) \cup {n}
  BY <1>1 DEF Ask
<1>4. \A r, s \in reads' : r = s \/ r \in Superseded(reads) \/ s \in Superseded(reads)
  BY <1>3
<1>5. /\ n \in Read /\ n.conv \in listed'
      /\ n.age = "newest" /\ n.state = "asked" /\ n.rows = <<>>
      /\ n.why = "final" => send.pc # "final" /\ send'.pc = "final"
      /\ n.why \in {"load", "select"} => work # n.why /\ work' = n.why
      /\ work' = "load" => n.why = "load"
  BY <1>2
<1>6. work' = "load" => reads = {}
  OBVIOUS
<1>7. \A r \in reads' : r \in Superseded(reads) \/ r = n
  BY <1>3
<1> QED
  BY <1>4, <1>5, <1>6, <1>7, SupersedingStep

\* Superseding every request without asking for anything.
LEMMA SupersedeStep ==
    ASSUME PanelInv, UNCHANGED <<turns, shown, listed>>, reads' = Superseded(reads),
           work' = work \/ work \notin {"load", "select"},
           work' = "load" => reads = {},
           send.pc = "final" => send'.pc = "final"
    PROVE  /\ reads' \subseteq Read
           /\ \A r \in reads' : r.conv \in listed' /\ r.age = "superseded"
           /\ ReadsOK' /\ History'
<1>1. \A r \in reads' : r.age = "superseded"
  BY SupersededOK DEF PanelInv, Types
<1>2. /\ \A r, s \in reads' : r = s \/ r \in Superseded(reads) \/ s \in Superseded(reads)
      /\ \A r \in reads' : r \in Superseded(reads)
  OBVIOUS
<1> QED
  BY <1>1, <1>2, SupersedingStep

(***************************************************************************)
(* The steps of the panel.                                                 *)
(***************************************************************************)

\* What a shown turn, or one shown as pending, says of the panel.
LEMMA ShowingOK ==
    ASSUME PanelInv, shown.rows # <<>>
    PROVE  work \notin {"list", "load"} /\ listed # {} /\ shown.from \in listed
BY DEF PanelInv, Types, Control, History

LEMMA PendingShown == pending => shown.rows # <<>>
BY DEF pending

LEMMA PollOK == PanelInv /\ Poll => PanelInv'
<1> SUFFICES ASSUME PanelInv, Poll PROVE PanelInv'
  OBVIOUS
<1>1. /\ selected # None /\ pending /\ reads' = Ask("poll", selected)
      /\ UNCHANGED <<turns, created, asked, selected, listed, shown, work, send, retry, accepted, draft>>
  BY DEF Poll, PollWanted, api
<1>2. work # "load" /\ selected \in listed /\ listed \subseteq Convs
  BY <1>1, ShowingOK, PendingShown DEF PanelInv, Types
<1>3. reads' \subseteq Read /\ (\A r \in reads' : r.conv \in listed') /\ ReadsOK' /\ History'
  BY <1>1, <1>2, AskStep
<1>4. Types'
  BY <1>1, <1>3 DEF PanelInv, Types
<1>5. Control'
  <2>1. work # "list"
    BY <1>1, ShowingOK, PendingShown
  <2> QED
    BY <1>1, <2>1 DEF PanelInv, Control, loading, busy, Creating
<1> QED
  BY <1>3, <1>4, <1>5 DEF PanelInv

LEMMA ListLoadedOK == PanelInv /\ ListLoaded => PanelInv'
<1> SUFFICES ASSUME PanelInv, ListLoaded PROVE PanelInv'
  OBVIOUS
<1>1. /\ work = "list" /\ created = Existing /\ listed = {} /\ reads = {}
      /\ shown.rows = <<>> /\ send.pc = "idle" /\ retry = None
      /\ listed' = created /\ created \subseteq Convs /\ draft \notin created
  BY DEF ListLoaded, PanelInv, Types, Control
<1>2. UNCHANGED <<turns, created, asked, shown, send, retry, error, accepted, draft>>
  BY DEF ListLoaded, api
<1>3. shown.from = None
  BY <1>1 DEF PanelInv, Types
<1>4. ASSUME /\ reads' \subseteq Read /\ \A r \in reads' : r.conv \in listed'
             /\ selected' \in listed' \cup {None} /\ (selected' = None => listed' = {})
             /\ work' \in {"none", "load"}
             /\ ReadsOK' /\ History'
      PROVE  PanelInv'
  <2>1. Types'
    BY <1>1, <1>2, <1>3, <1>4 DEF PanelInv, Types
  <2>2. Control'
    BY <1>1, <1>2, <1>4 DEF Control, PanelInv, loading, busy, Creating
  <2> QED
    BY <1>4, <2>1, <2>2 DEF PanelInv
<1>5. CASE created = {} /\ selected' = None /\ work' = "none" /\ UNCHANGED reads
  <2>1. ReadsOK' /\ History'
    BY <1>1, <1>2, <1>5 DEF ReadsOK, OneNewest, OneOfAKind, History, PanelInv
  <2> QED
    BY <1>1, <1>4, <1>5, <2>1
<1>6. ASSUME NEW c \in created, selected' = c, work' = "load", reads' = Ask("load", c)
      PROVE  PanelInv'
  <2>1. reads' \subseteq Read /\ (\A r \in reads' : r.conv \in listed') /\ ReadsOK' /\ History'
    BY <1>1, <1>2, <1>6, AskStep
  <2>2. c # None
    BY <1>1 DEF ConstantsAssumption
  <2> QED
    BY <1>1, <1>4, <1>6, <2>1, <2>2
<1> QED
  BY <1>5, <1>6 DEF ListLoaded

LEMMA ListFailedOK == PanelInv /\ ListFailed => PanelInv'
<1> SUFFICES ASSUME PanelInv, ListFailed PROVE PanelInv'
  OBVIOUS
<1>1. /\ work = "list" /\ work' = "none"
      /\ UNCHANGED <<turns, created, asked, selected, listed, shown, send, retry, accepted, draft, reads>>
  BY DEF ListFailed, api
<1>2. reads = {} /\ send.pc = "idle"
  BY <1>1 DEF PanelInv, Control
<1>3. Types'
  BY <1>1 DEF PanelInv, Types
<1>4. Control'
  BY <1>1, <1>2 DEF PanelInv, Control, loading, busy, Creating
<1>5. ReadsOK' /\ History'
  BY <1>1, <1>2 DEF PanelInv, ReadsOK, OneNewest, OneOfAKind, History
<1> QED
  BY <1>3, <1>4, <1>5 DEF PanelInv

LEMMA SelectConversationOK ==
    ASSUME PanelInv, NEW c, SelectConversation(c)
    PROVE  PanelInv'
<1>1. /\ send.pc = "idle" /\ work = "none" /\ retry = None /\ c \in listed
      /\ work' = "select" /\ retry' = None /\ accepted' = None /\ reads' = Ask("select", c)
      /\ UNCHANGED <<turns, created, asked, selected, listed, shown, send, draft>>
  BY DEF SelectConversation, ToolbarEnabled, busy, loading, api
<1>2. reads' \subseteq Read /\ (\A r \in reads' : r.conv \in listed') /\ ReadsOK' /\ History'
  BY <1>1, AskStep DEF PanelInv, Types
<1>3. Types'
  BY <1>1, <1>2 DEF PanelInv, Types
<1>4. Control'
  BY <1>1 DEF PanelInv, Control, loading, busy, Creating
<1> QED
  BY <1>2, <1>3, <1>4 DEF PanelInv

LEMMA NewConversationOK == PanelInv /\ NewConversation => PanelInv'
<1> SUFFICES ASSUME PanelInv, NewConversation PROVE PanelInv'
  OBVIOUS
<1>1. /\ send.pc = "idle" /\ work = "none" /\ retry = None /\ draft # None
      /\ work' = "new" /\ reads' = Superseded(reads)
      /\ UNCHANGED <<turns, created, asked, selected, listed, shown, send, retry, accepted, draft>>
  BY DEF NewConversation, ToolbarEnabled, busy, loading, api
<1>2. /\ reads' \subseteq Read /\ ReadsOK' /\ History'
      /\ \A r \in reads' : r.conv \in listed'
  BY <1>1, SupersedeStep
<1>3. Types'
  BY <1>1, <1>2 DEF PanelInv, Types
<1>4. Control'
  BY <1>1 DEF PanelInv, Control, loading, busy, Creating
<1> QED
  BY <1>2, <1>3, <1>4 DEF PanelInv

\* A conversation is being created.
LEMMA CreatingOK ==
    ASSUME PanelInv, Creating
    PROVE  /\ work \in {"none", "new"} /\ (send.pc = "create" <=> work = "none")
           /\ draft # None /\ draft \in Convs /\ draft \notin listed \cup Existing
<1>1. send.pc = "create" => work = "none"
  BY DEF PanelInv, Control, loading
<1>2. work \in {"none", "new"} /\ (send.pc # "create" => work = "new")
  BY <1>1 DEF Creating
<1>3. draft # None /\ draft \in Convs /\ draft \notin listed \cup Existing
  BY DEF PanelInv, Types, Control
<1> QED
  BY <1>1, <1>2, <1>3

LEMMA CreationStoredOK == PanelInv /\ CreationStored => PanelInv'
<1> SUFFICES ASSUME PanelInv, CreationStored PROVE PanelInv'
  OBVIOUS
<1>1. /\ Creating /\ created' = created \cup {draft}
      /\ UNCHANGED <<turns, asked, selected, listed, shown, work, send, retry, error, accepted, draft, reads>>
  BY DEF CreationStored
<1>2. /\ work \in {"none", "new"} /\ draft # None /\ draft \in Convs
  BY <1>1, CreatingOK
<1>3. Types'
  BY <1>1, <1>2 DEF PanelInv, Types
<1>4. Control'
  BY <1>1, <1>2 DEF PanelInv, Control, loading, busy, Creating
<1>5. ReadsOK' /\ History'
  BY <1>1, SameReads
<1> QED
  BY <1>3, <1>4, <1>5 DEF PanelInv

LEMMA CreationReturnedOK == PanelInv /\ CreationReturned => PanelInv'
<1> SUFFICES ASSUME PanelInv, CreationReturned PROVE PanelInv'
  OBVIOUS
<1>1. /\ Creating /\ draft \in created /\ selected' = draft
      /\ shown' = [from |-> draft, rows |-> <<>>]
      /\ listed' = listed \cup {draft}
      /\ draft' \in (IF Unused = {} THEN {None} ELSE Unused)
      /\ UNCHANGED <<turns, created, asked, retry, error, accepted, reads>>
  BY DEF CreationReturned, api
<1>2. /\ work \in {"none", "new"} /\ (send.pc = "create" <=> work = "none")
      /\ draft # None /\ draft \in Convs /\ draft \notin listed \cup Existing
  BY <1>1, CreatingOK
<1>3. send \in Submission
  BY DEF PanelInv, Types
<1>4. /\ send' \in Submission /\ send'.pc = (IF send.pc = "create" THEN "post" ELSE send.pc)
      /\ send'.key = send.key
      /\ send'.conv = (IF send.pc = "create" THEN draft ELSE send.conv)
      /\ work' = "none"
  <2>1. CASE send.pc = "create"
    <3>1. send' = [send EXCEPT !.pc = "post", !.conv = draft] /\ UNCHANGED work
      BY <2>1 DEF CreationReturned
    <3>2. draft \in Convs \cup {None} /\ work' = "none"
      BY <1>2, <2>1, <3>1
    <3>3. send' \in Submission /\ send'.pc = "post" /\ send'.key = send.key /\ send'.conv = draft
      BY <1>3, <3>1, <3>2 DEF Submission
    <3> QED
      BY <2>1, <3>2, <3>3
  <2>2. CASE send.pc # "create"
    BY <1>2, <1>3, <2>2 DEF CreationReturned
  <2> QED
    BY <2>1, <2>2
<1>5. draft' \in Convs \cup {None} /\ draft' \notin listed' \cup Existing /\ draft' # draft
  <2>1. Existing \subseteq created /\ created \subseteq Convs /\ listed \subseteq Convs
    BY DEF PanelInv, Types
  <2>2. None \notin Convs
    BY DEF ConstantsAssumption
  <2>3. \A d \in Unused : d \in Convs /\ d \notin created /\ d \notin listed /\ d # draft
    BY DEF Unused
  <2> QED
    BY <1>1, <1>2, <2>1, <2>2, <2>3
<1>6. shown' \in [from : Convs \cup {None}, rows : Rows] /\ shown'.from = draft /\ shown'.rows = <<>>
  BY <1>1, <1>2 DEF Rows
<1>7. Types'
  BY <1>1, <1>2, <1>4, <1>5, <1>6 DEF PanelInv, Types
<1>8. Control'
  <2>1. send'.pc \notin {"idle", "create"} => send'.conv \in listed'
    BY <1>1, <1>4 DEF PanelInv, Control
  <2>2. send'.pc # "create" /\ (busy' => send'.key # None)
    BY <1>4 DEF PanelInv, Control, busy
  <2> QED
    BY <1>1, <1>2, <1>4, <1>5, <2>1, <2>2 DEF Control, loading, Creating
<1>9. ReadsOK'
  <2>1. \A r \in reads : r.why \notin {"load", "select"}
    BY <1>2 DEF PanelInv, ReadsOK
  <2> QED
    BY <1>1, <1>2, <1>4, <2>1 DEF PanelInv, ReadsOK, OneNewest, OneOfAKind
<1>10. History'
  <2>1. Earlier(<<>>, turns[draft])
    BY <1>2, EarlierSame DEF PanelInv, Types
  <2>2. \A r \in reads : r.conv # draft
    BY <1>2 DEF PanelInv, Types
  <2> QED
    BY <1>1, <1>2, <1>6, <2>1, <2>2 DEF PanelInv, History
<1> QED
  BY <1>7, <1>8, <1>9, <1>10 DEF PanelInv

LEMMA NewFailedOK == PanelInv /\ NewFailed => PanelInv'
<1> SUFFICES ASSUME PanelInv, NewFailed PROVE PanelInv'
  OBVIOUS
<1>1. /\ work = "new" /\ work' = "none" /\ draft' = draft
      /\ UNCHANGED <<turns, created, asked, selected, listed, shown, send, retry, accepted, reads>>
  BY DEF NewFailed, KeyAfterFailure, api
<1>2. Types'
  BY <1>1 DEF PanelInv, Types
<1>3. Control'
  BY <1>1 DEF PanelInv, Control, loading, busy, Creating
<1>4. ReadsOK'
  BY <1>1 DEF PanelInv, ReadsOK, OneNewest, OneOfAKind
<1>5. History'
  BY <1>1 DEF PanelInv, History
<1> QED
  BY <1>2, <1>3, <1>4, <1>5 DEF PanelInv

LEMMA SubmitOK ==
    ASSUME PanelInv, NEW k \in Keys, NEW kind \in Kinds, NEW p \in Convs \cup {None},
           Submit(k, kind, p), send.pc = "idle", work \notin {"list", "load"},
           listed = {} => ~ loading,
           asked' \in [Keys -> {"never"} \cup Kinds]
    PROVE  PanelInv'
<1>1. /\ selected = None => draft # None
      /\ send' = [pc |-> IF selected = None THEN "create" ELSE "post", conv |-> selected,
                  key |-> k, kind |-> kind, parent |-> p, outcome |-> "open"]
      /\ accepted' = None
      /\ reads' = IF selected = None THEN Superseded(reads) ELSE reads
      /\ UNCHANGED <<turns, created, selected, listed, shown, work, retry, draft>>
  BY DEF Submit, api
<1>2. /\ send' \in Submission /\ send'.key = k /\ send'.conv = selected
      /\ selected = None => send'.pc = "create"
      /\ selected # None => send'.pc = "post" /\ selected \in listed
  BY <1>1 DEF Submission, PanelInv, Types
<1>3. k # None
  BY DEF ConstantsAssumption
<1>4. /\ reads' \subseteq Read /\ (\A r \in reads' : r.conv \in listed') /\ ReadsOK' /\ History'
  <2>1. CASE selected = None
    BY <1>1, <2>1, SupersedeStep
  <2>2. CASE selected # None
    <3>1. ReadsOK' /\ History'
      BY <1>1, <2>2, SameReads
    <3> QED
      BY <1>1, <2>2, <3>1 DEF PanelInv, Types
  <2> QED
    BY <2>1, <2>2
<1>5. Types'
  BY <1>1, <1>2, <1>4 DEF PanelInv, Types
<1>6. Control'
  BY <1>1, <1>2, <1>3 DEF PanelInv, Control, loading, busy, Creating
<1> QED
  BY <1>4, <1>5, <1>6 DEF PanelInv

LEMMA AskedOK ==
    ASSUME PanelInv, NEW k \in Keys, NEW kind \in Kinds, asked' = [asked EXCEPT ![k] = kind]
    PROVE  /\ asked' \in [Keys -> {"never"} \cup Kinds]
           /\ asked'[k] # "never"
           /\ \A j \in Keys : j # k => asked'[j] = asked[j]
BY DEF PanelInv, Types, Kinds

LEMMA AskQuestionOK ==
    ASSUME PanelInv, NEW k \in Keys, AskQuestion(k)
    PROVE  PanelInv'
<1>1. send.pc = "idle" /\ work = "none" /\ Submit(k, "question", None)
  BY DEF AskQuestion, ComposerEnabled, ToolbarEnabled, busy, loading
<1>2. "question" \in Kinds /\ asked' = [asked EXCEPT ![k] = "question"]
  BY DEF AskQuestion, Kinds
<1> QED
  BY <1>1, <1>2, AskedOK, SubmitOK DEF loading

LEMMA HandleActionOK ==
    ASSUME PanelInv, NEW k \in Keys, HandleAction(k)
    PROVE  PanelInv'
<1>1. /\ send.pc = "idle" /\ asked' = [asked EXCEPT ![k] = "action"]
      /\ Submit(k, "action", shown.from) /\ "action" \in Kinds /\ shown.rows # <<>>
  BY DEF HandleAction, ActionsEnabled, busy, Kinds
<1>2. work \notin {"list", "load"} /\ listed # {}
  BY <1>1, ShowingOK
<1>3. shown.from \in Convs \cup {None}
  BY DEF PanelInv, Types
<1> QED
  BY <1>1, <1>2, <1>3, AskedOK, SubmitOK

LEMMA RecoverOK == PanelInv /\ Recover => PanelInv'
<1> SUFFICES ASSUME PanelInv, Recover PROVE PanelInv'
  OBVIOUS
<1>1. retry # None /\ send.pc = "idle" /\ Submit(retry, "question", None) /\ UNCHANGED asked
  BY DEF Recover, RetryShown, busy
<1>2. /\ retry \in Keys /\ work \notin {"list", "load"} /\ (listed = {} => ~ loading)
      /\ asked \in [Keys -> {"never"} \cup Kinds]
  BY <1>1 DEF PanelInv, Types, Control
<1>3. "question" \in Kinds
  BY DEF Kinds
<1>4. PICK k \in Keys : k = retry
  BY <1>2
<1> QED
  BY <1>1, <1>2, <1>3, <1>4, SubmitOK

\* What the panel knows of a submission under way.
LEMMA SendingOK ==
    ASSUME PanelInv, send.pc \in {"post", "reply", "stream", "final"}
    PROVE  /\ work \notin {"list", "load"} /\ busy
           /\ send \in Submission /\ send.conv # None
           /\ send.conv \in listed /\ listed \subseteq Convs
           /\ send.key \in Keys /\ send.key # None /\ send.kind \in Kinds
<1>1. work \notin {"list", "load"} /\ busy /\ send.conv \in listed /\ send.key # None
  BY DEF PanelInv, Control, busy
<1>2. send \in Submission /\ listed \subseteq Convs
  BY <1>1 DEF PanelInv, Types
<1>3. send.key \in Keys /\ send.kind \in Kinds /\ send.conv # None
  BY <1>1, <1>2 DEF Submission, ConstantsAssumption
<1> QED
  BY <1>1, <1>2, <1>3

\* A step of the API that stores turns, of the submission under way or of
\* somebody else.
LEMMA ApiStep ==
    ASSUME PanelInv, Grow,
           UNCHANGED <<created, selected, listed, shown, work, retry, accepted, draft, reads>>,
           send' \in Submission, send'.key = send.key, send'.conv = send.conv,
           \/ send'.pc = send.pc
           \/ send.pc = "post" /\ send'.pc = "reply",
           asked' \in [Keys -> {"never"} \cup Kinds]
    PROVE  PanelInv'
<1>1. /\ turns \in [Convs -> Rows] /\ reads \subseteq Read /\ listed \subseteq Convs
      /\ shown \in [from : Convs \cup {None}, rows : Rows] /\ shown.from \in listed \cup {None}
  BY DEF PanelInv, Types
<1>2. ASSUME shown.from # None PROVE Earlier(shown.rows, turns'[shown.from])
  <2>1. /\ shown.from \in Convs /\ shown.rows \in Rows
        /\ turns[shown.from] \in Rows /\ turns'[shown.from] \in Rows
    BY <1>1, <1>2 DEF Grow
  <2>2. Earlier(shown.rows, turns[shown.from]) /\ Earlier(turns[shown.from], turns'[shown.from])
    BY <1>2, <2>1 DEF Grow, PanelInv, History
  <2> QED
    BY <2>1, <2>2, EarlierTransitive
<1>3. ASSUME NEW r \in reads PROVE Earlier(r.rows, turns'[r.conv])
  <2>1. /\ r.conv \in Convs /\ r.rows \in Rows
        /\ turns[r.conv] \in Rows /\ turns'[r.conv] \in Rows
    BY <1>1 DEF Grow, Read
  <2>2. Earlier(r.rows, turns[r.conv]) /\ Earlier(turns[r.conv], turns'[r.conv])
    BY <2>1 DEF Grow, PanelInv, History
  <2> QED
    BY <2>1, <2>2, EarlierTransitive
<1>4. Types'
  BY DEF PanelInv, Types, Grow
<1>5. Control'
  BY DEF PanelInv, Control, loading, busy, Creating
<1>6. ReadsOK'
  BY DEF PanelInv, ReadsOK, OneNewest, OneOfAKind
<1>7. History'
  BY <1>2, <1>3 DEF PanelInv, History
<1> QED
  BY <1>4, <1>5, <1>6, <1>7 DEF PanelInv

LEMMA PostStoredOK ==
    ASSUME PanelInv, PostStored
    PROVE  /\ PanelInv' /\ Grow /\ Has(turns'[send.conv], send.key)
           /\ send.conv \in Convs /\ send.key \in Keys
           /\ send'.key = send.key /\ send'.pc = "reply"
<1>1. /\ send.pc = "post" /\ Accepted(send.conv, send.key, send.kind, send.parent)
      /\ send' = [send EXCEPT !.pc = "reply"]
      /\ UNCHANGED <<created, asked, selected, listed, shown, work, retry, accepted, draft, reads>>
  BY DEF PostStored
<1>2. /\ send \in Submission /\ send.conv \in Convs /\ send.key \in Keys /\ send.kind \in Kinds
  BY <1>1, SendingOK
<1>3. turns \in [Convs -> Rows] /\ asked \in [Keys -> {"never"} \cup Kinds]
  BY DEF PanelInv, Types
<1>4. Grow /\ Has(turns'[send.conv], send.key)
  BY <1>1, <1>2, <1>3, AcceptedGrows
<1>5. send' \in Submission /\ send'.pc = "reply" /\ send'.key = send.key /\ send'.conv = send.conv
  BY <1>1, <1>2 DEF Submission
<1>6. PanelInv'
  BY <1>1, <1>3, <1>4, <1>5, ApiStep
<1> QED
  BY <1>2, <1>4, <1>5, <1>6

LEMMA SettleOK ==
    ASSUME PanelInv, NEW c \in Convs, Settle(c)
    PROVE  PanelInv' /\ Grow
<1>1. UNCHANGED <<created, asked, selected, listed, shown, work, send, retry, accepted, draft, reads>>
  BY DEF Settle
<1>2. PICK i \in DOMAIN turns[c] : /\ IsPending(turns[c][i])
                                  /\ turns' = [turns EXCEPT ![c][i].state = "settled"]
  BY DEF Settle
<1>3. turns \in [Convs -> Rows] /\ asked \in [Keys -> {"never"} \cup Kinds] /\ send \in Submission
  BY DEF PanelInv, Types
<1>4. Grow
  BY <1>2, <1>3, SettleGrows
<1> QED
  BY <1>1, <1>3, <1>4, ApiStep

LEMMA OtherTabOK ==
    ASSUME PanelInv, NEW c \in Convs, NEW k \in Keys, OtherTab(c, k)
    PROVE  PanelInv' /\ Grow /\ Has(turns'[c], k)
<1>1. /\ asked' = [asked EXCEPT ![k] = "question"] /\ Accepted(c, k, "question", None)
      /\ UNCHANGED <<created, selected, listed, shown, work, send, retry, accepted, draft, reads>>
  BY DEF OtherTab
<1>2. turns \in [Convs -> Rows] /\ send \in Submission /\ "question" \in Kinds
  BY DEF PanelInv, Types, Kinds
<1>3. Grow /\ Has(turns'[c], k)
  BY <1>1, <1>2, AcceptedGrows
<1>4. asked' \in [Keys -> {"never"} \cup Kinds]
  BY <1>1, <1>2, AskedOK
<1> QED
  BY <1>1, <1>2, <1>3, <1>4, ApiStep

LEMMA AcceptedEventOK == PanelInv /\ AcceptedEvent => PanelInv'
<1> SUFFICES ASSUME PanelInv, AcceptedEvent PROVE PanelInv'
  OBVIOUS
<1>1. /\ send.pc = "reply" /\ send' = [send EXCEPT !.pc = "stream"]
      /\ accepted' = send.key /\ reads' = Ask("accepted", send.conv)
      /\ UNCHANGED <<turns, created, asked, selected, listed, shown, work, retry, draft>>
  BY DEF AcceptedEvent, api
<1>2. /\ work \notin {"list", "load"} /\ send \in Submission
      /\ send.conv \in listed /\ listed \subseteq Convs
      /\ send.key \in Keys /\ send.key # None
  BY <1>1, SendingOK
<1>3. send' \in Submission /\ send'.pc = "stream" /\ send'.key = send.key /\ send'.conv = send.conv
  BY <1>1, <1>2 DEF Submission
<1>4. reads' \subseteq Read /\ (\A r \in reads' : r.conv \in listed') /\ ReadsOK' /\ History'
  BY <1>1, <1>2, <1>3, AskStep
<1>5. Types'
  BY <1>1, <1>2, <1>3, <1>4 DEF PanelInv, Types
<1>6. Control'
  BY <1>1, <1>2, <1>3 DEF PanelInv, Control, loading, busy, Creating
<1> QED
  BY <1>4, <1>5, <1>6 DEF PanelInv

LEMMA StreamEndsOK == PanelInv /\ StreamEnds => PanelInv'
<1> SUFFICES ASSUME PanelInv, StreamEnds PROVE PanelInv'
  OBVIOUS
<1>0. PICK o \in {"open", "terminal"} : send' = [send EXCEPT !.pc = "final", !.outcome = o]
  BY DEF StreamEnds
<1>1. /\ send.pc \in {"reply", "stream"} /\ reads' = Ask("final", send.conv)
      /\ UNCHANGED <<turns, created, asked, selected, listed, shown, work, retry, accepted, draft>>
  BY DEF StreamEnds, api
<1>2. /\ work \notin {"list", "load"} /\ send \in Submission
      /\ send.conv \in listed /\ listed \subseteq Convs
      /\ send.key \in Keys /\ send.key # None
  BY <1>1, SendingOK
<1>3. send' \in Submission /\ send'.pc = "final" /\ send'.key = send.key /\ send'.conv = send.conv
  BY <1>0, <1>2 DEF Submission
<1>4. reads' \subseteq Read /\ (\A r \in reads' : r.conv \in listed') /\ ReadsOK' /\ History'
  BY <1>1, <1>2, <1>3, AskStep
<1>5. Types'
  BY <1>1, <1>3, <1>4 DEF PanelInv, Types
<1>6. Control'
  BY <1>1, <1>2, <1>3 DEF PanelInv, Control, loading, busy, Creating
<1> QED
  BY <1>4, <1>5, <1>6 DEF PanelInv

LEMMA SendFailedOK ==
    ASSUME PanelInv, SendFailed
    PROVE  /\ PanelInv' /\ busy /\ send.key \in Keys /\ send.key # None
           /\ retry' = send.key /\ send'.pc = "idle"
<1>1. /\ send.pc \in {"create", "post", "reply", "stream"}
      /\ retry' = send.key /\ send' = Idle /\ draft' = draft
      /\ UNCHANGED <<turns, created, asked, selected, listed, shown, work, accepted, reads>>
  BY DEF SendFailed, GiveUp, Offer, KeyAfterFailure, api
<1>2. send.key \in Keys /\ send.key # None /\ busy
  BY <1>1 DEF PanelInv, Types, Control, Submission, busy
<1>3. send' \in Submission /\ send'.pc = "idle"
  BY <1>1 DEF Idle, Submission, Kinds
<1>4. Types'
  BY <1>1, <1>2, <1>3 DEF PanelInv, Types
<1>5. Control'
  BY <1>1, <1>2, <1>3 DEF PanelInv, Control, loading, busy, Creating
<1>6. ReadsOK' /\ History'
  BY <1>1, <1>3, SameReads
<1> QED
  BY <1>1, <1>2, <1>3, <1>4, <1>5, <1>6 DEF PanelInv

(***************************************************************************)
(* Answers to history requests.                                            *)
(***************************************************************************)

LEMMA ServeOK ==
    ASSUME PanelInv, NEW r \in reads, Serve(r)
    PROVE  PanelInv'
<1>1. /\ r.state = "asked"
      /\ reads' = (reads \ {r}) \cup {[r EXCEPT !.state = "served", !.rows = turns[r.conv]]}
      /\ UNCHANGED <<turns, created, asked, selected, listed, shown, work, send, retry, accepted, draft>>
  BY DEF Serve, api
<1>2. r \in Read /\ r.conv \in listed /\ turns[r.conv] \in Rows
  BY DEF PanelInv, Types, Read
<1>0. PICK s : s = [r EXCEPT !.state = "served", !.rows = turns[r.conv]]
  OBVIOUS
<1>3. /\ s \in Read /\ s.why = r.why /\ s.conv = r.conv /\ s.age = r.age
      /\ s.state = "served" /\ s.rows = turns[r.conv]
  BY <1>0, <1>2 DEF Read
<1>4. reads' = (reads \ {r}) \cup {s}
  BY <1>0, <1>1
<1>5. Types'
  BY <1>1, <1>2, <1>3, <1>4 DEF PanelInv, Types
<1>6. Control'
  BY <1>1 DEF PanelInv, Control, loading, busy, Creating
<1>7. ReadsOK'
  BY <1>1, <1>3, <1>4 DEF PanelInv, ReadsOK, OneNewest, OneOfAKind
<1>8. History'
  <2>1. /\ Earlier(s.rows, turns[s.conv])
        /\ s.conv = shown.from => Earlier(shown.rows, s.rows)
    <3>1. s.conv # None
      BY <1>2, <1>3 DEF Read, ConstantsAssumption
    <3> QED
      BY <1>2, <1>3, <3>1, EarlierSame DEF PanelInv, History
  <2> QED
    BY <1>1, <1>3, <1>4, <2>1 DEF PanelInv, History
<1> QED
  BY <1>5, <1>6, <1>7, <1>8 DEF PanelInv

\* What the screen shows after an answer: the newest request's rows, which are
\* of the conversation it was asked for and no earlier than those on screen.
LEMMA ShownOK ==
    ASSUME PanelInv, NEW r \in reads, r.state = "served", shown' = Shown(r), UNCHANGED <<turns, listed>>,
           reads' = reads \ {r}
    PROVE  /\ shown' \in [from : Convs \cup {None}, rows : Rows] /\ shown'.from \in listed \cup {None}
           /\ History'
           /\ shown'.from = shown.from => Earlier(shown.rows, shown'.rows)
           /\ r.age = "newest" => shown'.from = r.conv
           /\ shown' = shown \/ r.age = "newest"
<1>1. /\ r \in Read /\ r.conv \in listed /\ listed \subseteq Convs
      /\ shown \in [from : Convs \cup {None}, rows : Rows] /\ shown.from \in listed \cup {None}
      /\ turns \in [Convs -> Rows] /\ reads \subseteq Read
  BY DEF PanelInv, Types
<1>2. r.conv \in Convs /\ r.rows \in Rows /\ r.conv # None
  BY <1>1 DEF Read, ConstantsAssumption
<1>3. CASE r.age = "newest"
  <2>1. shown' = [from |-> r.conv, rows |-> r.rows]
    BY <1>3 DEF Shown, Applies
  <2>2. shown'.from = r.conv /\ shown'.rows = r.rows
    BY <2>1
  <2>3. \A q \in reads' : q.age # "newest"
    BY <1>3 DEF PanelInv, ReadsOK, OneNewest
  <2>4. History'
    BY <1>2, <2>2, <2>3 DEF PanelInv, History
  <2>5. shown'.from = shown.from => Earlier(shown.rows, shown'.rows)
    BY <1>3, <2>2 DEF PanelInv, History
  <2> QED
    BY <1>1, <1>2, <1>3, <2>1, <2>2, <2>4, <2>5
<1>4. CASE r.age # "newest"
  <2>1. shown' = shown
    BY <1>4 DEF Shown, Applies
  <2>2. History'
    BY <2>1 DEF PanelInv, History
  <2>3. Earlier(shown.rows, shown.rows)
    BY <1>1, EarlierSame
  <2> QED
    BY <1>1, <1>4, <2>1, <2>2, <2>3
<1> QED
  BY <1>3, <1>4

\* Dropping a request.
LEMMA DropOK ==
    ASSUME PanelInv, NEW r \in reads, reads' = reads \ {r}
    PROVE  /\ reads' \subseteq Read /\ \A q \in reads' : q.conv \in listed
           /\ OneNewest' /\ OneOfAKind'
           /\ r.why = "final" => send.pc = "final" /\ \A q \in reads' : q.why # "final"
           /\ r.why \in {"load", "select"} =>
                work = r.why /\ \A q \in reads' : q.why \notin {"load", "select"}
           /\ r.why = "load" => reads' = {}
           /\ r.why \in {"poll", "accepted", "final"} => work \notin {"list", "load"}
BY DEF PanelInv, Types, Control, ReadsOK, OneNewest, OneOfAKind, Single

\* A step after an answer, or a failure, that concerns no loading.
LEMMA AnsweredOK ==
    ASSUME PanelInv, NEW r \in reads, r.why \in {"poll", "accepted"}, reads' = reads \ {r},
           shown' \in [from : Convs \cup {None}, rows : Rows], shown'.from \in listed \cup {None},
           History', retry' \in {None, retry},
           UNCHANGED <<turns, created, asked, listed, selected, work, send, accepted, draft>>
    PROVE  PanelInv'
<1>1. /\ reads' \subseteq Read /\ \A q \in reads' : q.conv \in listed
      /\ OneNewest' /\ OneOfAKind' /\ work \notin {"list", "load"}
  BY DropOK
<1>2. Types'
  BY <1>1 DEF PanelInv, Types
<1>3. Control'
  BY <1>1 DEF PanelInv, Control, loading, busy, Creating
<1>4. ReadsOK'
  BY <1>1 DEF PanelInv, ReadsOK
<1> QED
  BY <1>2, <1>3, <1>4 DEF PanelInv

LEMMA RefreshedOK ==
    ASSUME PanelInv, NEW r \in reads, Refreshed(r) \/ RefreshFailed(r)
    PROVE  PanelInv'
<1>1. /\ r.why \in {"poll", "accepted"} /\ reads' = reads \ {r}
      /\ UNCHANGED <<turns, created, asked, listed, selected, work, send, accepted, draft>>
  BY DEF Refreshed, RefreshFailed, Returned, Failed, api
<1>2. retry' \in {None, retry}
  BY DEF Refreshed, RefreshFailed, RetryAfter
<1>3. CASE Refreshed(r)
  <2>1. r.state = "served" /\ shown' = Shown(r)
    BY <1>3 DEF Refreshed, Returned
  <2>2. /\ shown' \in [from : Convs \cup {None}, rows : Rows] /\ shown'.from \in listed \cup {None}
        /\ History'
    BY <1>1, <2>1, ShownOK
  <2> QED
    BY <1>1, <1>2, <2>2, AnsweredOK
<1>4. CASE RefreshFailed(r)
  <2>1. shown' = shown
    BY <1>4 DEF RefreshFailed
  <2>2. History' /\ shown' \in [from : Convs \cup {None}, rows : Rows] /\ shown'.from \in listed \cup {None}
    BY <1>1, <2>1 DEF PanelInv, History, Types
  <2> QED
    BY <1>1, <1>2, <2>2, AnsweredOK
<1> QED
  BY <1>3, <1>4

LEMMA LoadedOK ==
    ASSUME PanelInv, NEW r \in reads, Loaded(r)
    PROVE  PanelInv'
<1>1. /\ r.why = "load" /\ reads' = reads \ {r}
      /\ shown' = [from |-> r.conv, rows |-> r.rows] /\ work' = "none"
      /\ UNCHANGED <<turns, created, asked, listed, selected, send, retry, accepted, draft>>
  BY DEF Loaded, Returned, api
<1>2. reads' = {} /\ work = "load"
  BY <1>1, DropOK
<1>3. /\ r \in Read /\ r.conv \in listed /\ listed \subseteq Convs /\ r.conv # None
      /\ Earlier(r.rows, turns[r.conv])
  BY DEF PanelInv, Types, History, ConstantsAssumption
<1>4. /\ shown'.from = r.conv /\ shown'.rows = r.rows
      /\ shown' \in [from : Convs \cup {None}, rows : Rows]
  BY <1>1, <1>3 DEF Read
<1>5. Types'
  BY <1>1, <1>2, <1>3, <1>4 DEF PanelInv, Types
<1>6. Control'
  BY <1>1, <1>2 DEF PanelInv, Control, loading, busy, Creating
<1>7. ReadsOK' /\ History'
  BY <1>1, <1>2, <1>3, <1>4 DEF ReadsOK, OneNewest, OneOfAKind, History
<1> QED
  BY <1>5, <1>6, <1>7 DEF PanelInv

LEMMA LoadFailedOK ==
    ASSUME PanelInv, NEW r \in reads, LoadFailed(r)
    PROVE  PanelInv'
<1>1. /\ r.why \in {"load", "select"} /\ reads' = reads \ {r} /\ work' = "none"
      /\ UNCHANGED <<turns, created, asked, listed, selected, shown, send, retry, accepted, draft>>
  BY DEF LoadFailed, Failed, api
<1>2. /\ reads' \subseteq Read /\ \A q \in reads' : q.conv \in listed
      /\ OneNewest' /\ OneOfAKind'
      /\ work \in {"load", "select"} /\ \A q \in reads' : q.why \notin {"load", "select"}
  BY <1>1, DropOK
<1>3. Types' /\ History'
  BY <1>1, <1>2 DEF PanelInv, Types, History
<1>4. ReadsOK'
  BY <1>1, <1>2 DEF PanelInv, ReadsOK
<1>5. Control'
  BY <1>1, <1>2 DEF PanelInv, Control, loading, busy, Creating
<1> QED
  BY <1>3, <1>4, <1>5 DEF PanelInv

LEMMA OpenedOK ==
    ASSUME PanelInv, NEW r \in reads, Opened(r)
    PROVE  PanelInv'
<1>1. /\ r.why = "select" /\ r.state = "served" /\ reads' = reads \ {r}
      /\ shown' = Shown(r) /\ retry' = RetryAfter(r) /\ selected' = r.conv /\ work' = "none"
      /\ UNCHANGED <<turns, created, asked, listed, send, accepted, draft>>
  BY DEF Opened, Returned, api
<1>2. /\ reads' \subseteq Read /\ \A q \in reads' : q.conv \in listed
      /\ OneNewest' /\ OneOfAKind'
      /\ work = "select" /\ \A q \in reads' : q.why \notin {"load", "select"}
  BY <1>1, DropOK
<1>3. /\ shown' \in [from : Convs \cup {None}, rows : Rows] /\ shown'.from \in listed \cup {None}
      /\ History'
  BY <1>1, ShownOK
<1>4. r.conv \in listed /\ r.conv # None /\ retry' \in {None, retry}
  BY <1>1 DEF PanelInv, Types, RetryAfter, ConstantsAssumption
<1>5. Types'
  BY <1>1, <1>2, <1>3, <1>4 DEF PanelInv, Types
<1>6. Control'
  BY <1>1, <1>2, <1>4 DEF PanelInv, Control, loading, busy, Creating
<1>7. ReadsOK'
  BY <1>1, <1>2 DEF PanelInv, ReadsOK
<1> QED
  BY <1>3, <1>5, <1>6, <1>7 DEF PanelInv

LEMMA DeliveredOK ==
    ASSUME PanelInv, NEW r \in reads, Delivered(r) \/ FinalFailed(r)
    PROVE  /\ PanelInv' /\ send.pc = "final" /\ send.key \in Keys
           /\ send' = Idle /\ send'.pc = "idle" /\ retry' \in {None, send.key}
           /\ UNCHANGED <<turns, asked, selected, work, accepted>>
<1>1. /\ r.why = "final" /\ reads' = reads \ {r} /\ send' = Idle /\ retry' \in {None, send.key}
      /\ UNCHANGED <<turns, created, asked, listed, selected, work, accepted, draft>>
  BY DEF Delivered, FinalFailed, Returned, Failed, GiveUp, Offer, api
<1>2. /\ shown' \in [from : Convs \cup {None}, rows : Rows] /\ shown'.from \in listed \cup {None}
      /\ History'
  <2>1. CASE Delivered(r)
    <3>1. r.state = "served" /\ shown' = Shown(r)
      BY <2>1 DEF Delivered, Returned
    <3> QED
      BY <1>1, <3>1, ShownOK
  <2>2. CASE FinalFailed(r)
    <3>1. shown' = shown
      BY <2>2 DEF FinalFailed
    <3> QED
      BY <1>1, <3>1 DEF PanelInv, Types, History
  <2> QED
    BY <2>1, <2>2
<1>3. /\ reads' \subseteq Read /\ \A q \in reads' : q.conv \in listed
      /\ OneNewest' /\ OneOfAKind' /\ send.pc = "final" /\ \A q \in reads' : q.why # "final"
      /\ work \notin {"list", "load"}
  BY <1>1, DropOK
<1>4. send.key \in Keys /\ send.key # None /\ listed # {}
  BY <1>3, SendingOK
<1>5. send' \in Submission /\ send'.pc = "idle"
  BY <1>1 DEF Idle, Submission, Kinds
<1>6. Types'
  BY <1>1, <1>2, <1>3, <1>4, <1>5 DEF PanelInv, Types
<1>7. Control'
  BY <1>1, <1>3, <1>4, <1>5 DEF PanelInv, Control, loading, busy, Creating
<1>8. ReadsOK'
  BY <1>1, <1>3 DEF PanelInv, ReadsOK
<1> QED
  BY <1>1, <1>2, <1>3, <1>4, <1>5, <1>6, <1>7, <1>8 DEF PanelInv

(***************************************************************************)
(* The invariant, and the histories on screen.                             *)
(***************************************************************************)

\* The turns from before the panel was mounted.
LEMMA FirstTurnsFacts ==
    /\ \A c \in Convs : FirstTurns(c) \in Rows
    /\ \A c \in Convs, k \in Keys : Has(FirstTurns(c), k) <=> k \in Had(c)
    /\ \A c, d \in Convs : Had(c) \cap Had(d) # {} => c = d
<1> USE DEF ConstantsAssumption
<1>1. ASSUME NEW c \in Convs, Had(c) # {}
      PROVE  c \in Existing /\ Past[c] \in Keys /\ Had(c) = {Past[c]}
  BY <1>1 DEF Had
<1>2. ASSUME NEW c \in Convs
      PROVE  /\ FirstTurns(c) \in Rows
             /\ \A k \in Keys : Has(FirstTurns(c), k) <=> k \in Had(c)
  <2>1. CASE Had(c) = {}
    BY <2>1 DEF FirstTurns, Rows, Has
  <2>2. CASE Had(c) # {}
    <3> DEFINE t == [key |-> Past[c], kind |-> "question", state |-> "settled"]
    <3>1. t \in Turn /\ t.key = Past[c]
      BY <1>1, <2>2 DEF Turn, Kinds
    <3>2. FirstTurns(c) = <<t>>
      BY <2>2 DEF FirstTurns
    <3> HIDE DEF t
    <3>3. <<t>> \in Rows /\ DOMAIN <<t>> = {1} /\ <<t>>[1] = t
      BY <3>1 DEF Rows
    <3> QED
      BY <1>1, <2>2, <3>1, <3>2, <3>3 DEF Has
  <2> QED
    BY <2>1, <2>2
<1>3. ASSUME NEW c \in Convs, NEW d \in Convs, Had(c) \cap Had(d) # {} PROVE c = d
  BY <1>1, <1>3
<1> QED
  BY <1>2, <1>3

LEMMA InitPanelInv == Init => PanelInv
<1> SUFFICES ASSUME Init PROVE PanelInv
  OBVIOUS
<1> USE DEF Init
<1>1. <<>> \in Rows /\ turns \in [Convs -> Rows]
  BY FirstTurnsFacts DEF Rows
<1>2. shown.from = None /\ shown.rows = <<>> /\ send.pc = "idle"
  BY DEF Idle
<1>3. send \in Submission
  BY DEF Idle, Submission, Kinds
<1>4. Types
  BY <1>1, <1>2, <1>3 DEF Types, Kinds, ConstantsAssumption
<1>5. Control
  BY <1>2 DEF Control, loading, busy, Creating
<1>6. ReadsOK /\ History
  BY <1>2 DEF ReadsOK, OneNewest, OneOfAKind, History
<1> QED
  BY <1>4, <1>5, <1>6 DEF PanelInv

LEMMA StutterOK == PanelInv /\ UNCHANGED vars => PanelInv'
<1> SUFFICES ASSUME PanelInv, UNCHANGED vars PROVE PanelInv'
  OBVIOUS
<1>1. UNCHANGED <<turns, created, asked, selected, listed, shown, work, send, retry, accepted, draft, reads>>
  BY DEF vars
<1>2. Types' /\ ReadsOK'
  BY <1>1 DEF PanelInv, Types, ReadsOK, OneNewest, OneOfAKind
<1>3. Control' /\ History'
  BY <1>1 DEF PanelInv, Control, loading, busy, Creating, History
<1> QED
  BY <1>2, <1>3 DEF PanelInv

LEMMA NextPanelInv == PanelInv /\ [Next]_vars => PanelInv'
<1> SUFFICES ASSUME PanelInv, [Next]_vars PROVE PanelInv'
  OBVIOUS
<1>1. CASE Poll \/ ListLoaded \/ ListFailed \/ NewConversation
  BY <1>1, PollOK, ListLoadedOK, ListFailedOK, NewConversationOK
<1>2. CASE CreationStored \/ CreationReturned \/ NewFailed
  BY <1>2, CreationStoredOK, CreationReturnedOK, NewFailedOK
<1>3. CASE Recover \/ PostStored \/ AcceptedEvent \/ StreamEnds \/ SendFailed
  BY <1>3, RecoverOK, PostStoredOK, AcceptedEventOK, StreamEndsOK, SendFailedOK
<1>4. ASSUME NEW r \in reads, ReadStep(r) PROVE PanelInv'
  BY <1>4, ServeOK, RefreshedOK, LoadedOK, LoadFailedOK, OpenedOK, DeliveredOK DEF ReadStep
<1>5. ASSUME NEW c \in Convs, SelectConversation(c) \/ Settle(c) PROVE PanelInv'
  BY <1>5, SelectConversationOK, SettleOK
<1>6. ASSUME NEW k \in Keys, AskQuestion(k) \/ HandleAction(k) PROVE PanelInv'
  BY <1>6, AskQuestionOK, HandleActionOK
<1>7. ASSUME NEW c \in Convs, NEW k \in Keys, OtherTab(c, k) PROVE PanelInv'
  BY <1>7, OtherTabOK
<1> QED
  BY <1>1, <1>2, <1>3, <1>4, <1>5, <1>6, <1>7, StutterOK DEF Next

LEMMA Inductive == Spec => []PanelInv
BY InitPanelInv, NextPanelInv, PTL DEF Spec

\* What the screen may become in one step, if it stays with its conversation.
LEMMA Forward ==
    ASSUME PanelInv, [Next]_vars, shown'.from = shown.from
    PROVE  Earlier(shown.rows, shown'.rows)
<1>1. shown.rows \in Rows
  BY DEF PanelInv, Types
<1>2. ASSUME UNCHANGED shown PROVE Earlier(shown.rows, shown'.rows)
  BY <1>1, <1>2, EarlierSame
<1>3. CASE Poll \/ ListLoaded \/ ListFailed \/ NewConversation \/ CreationStored \/ NewFailed
  BY <1>2, <1>3 DEF Poll, ListLoaded, ListFailed, NewConversation, CreationStored, NewFailed
<1>4. CASE CreationReturned
  <2>1. shown'.from = draft /\ Creating
    BY <1>4 DEF CreationReturned
  <2>2. draft \notin listed /\ draft # None
    BY <2>1, CreatingOK
  <2> QED
    BY <2>1, <2>2 DEF PanelInv, Types
<1>5. CASE PostStored \/ AcceptedEvent \/ StreamEnds \/ SendFailed
  BY <1>2, <1>5 DEF PostStored, AcceptedEvent, StreamEnds, SendFailed
<1>6. ASSUME NEW k, NEW kind, NEW p, Submit(k, kind, p) PROVE Earlier(shown.rows, shown'.rows)
  BY <1>2, <1>6 DEF Submit
<1>7. CASE Recover
  BY <1>6, <1>7 DEF Recover
<1>8. ASSUME NEW k, AskQuestion(k) \/ HandleAction(k) PROVE Earlier(shown.rows, shown'.rows)
  BY <1>6, <1>8 DEF AskQuestion, HandleAction
<1>9. ASSUME NEW c, SelectConversation(c) \/ Settle(c) PROVE Earlier(shown.rows, shown'.rows)
  BY <1>2, <1>9 DEF SelectConversation, Settle
<1>10. ASSUME NEW c, NEW k, OtherTab(c, k) PROVE Earlier(shown.rows, shown'.rows)
  BY <1>2, <1>10 DEF OtherTab
<1>11. ASSUME NEW r \in reads, ReadStep(r) PROVE Earlier(shown.rows, shown'.rows)
  <2>1. CASE Serve(r) \/ RefreshFailed(r) \/ LoadFailed(r) \/ FinalFailed(r)
    BY <1>2, <2>1 DEF Serve, RefreshFailed, LoadFailed, FinalFailed
  <2>2. CASE Refreshed(r) \/ Opened(r) \/ Delivered(r)
    <3>1. /\ r.state = "served" /\ shown' = Shown(r) /\ reads' = reads \ {r}
          /\ UNCHANGED <<turns, listed>>
      BY <2>2 DEF Refreshed, Opened, Delivered, Returned, api
    <3> QED
      BY <3>1, ShownOK
  <2>3. CASE Loaded(r)
    <3>1. shown.rows = <<>>
      BY <2>3 DEF Loaded, PanelInv, ReadsOK, Control
    <3>2. shown'.rows = r.rows /\ r.rows \in Rows
      BY <2>3 DEF Loaded, PanelInv, Types, Read
    <3> QED
      BY <3>1, <3>2, EarlierSame
  <2> QED
    BY <1>11, <2>1, <2>2, <2>3 DEF ReadStep
<1>12. CASE UNCHANGED vars
  BY <1>2, <1>12 DEF vars
<1> QED
  BY <1>3, <1>4, <1>5, <1>7, <1>8, <1>9, <1>10, <1>11, <1>12 DEF Next

\* Answers that arrive out of order never take the screen back to an earlier
\* history of the same conversation, whatever is clicked meanwhile: refresh
\* drops those of requests that are no longer historyRequest.current.
THEOREM NeverRegressesHolds == Spec => NeverRegresses
<1>1. PanelInv /\ [Next]_vars =>
        [shown'.from = shown.from =>
          /\ Len(shown'.rows) >= Len(shown.rows)
          /\ \A i \in DOMAIN shown.rows :
                shown.rows[i] = shown'.rows[i] \/ IsPending(shown.rows[i])]_vars
  <2> SUFFICES ASSUME PanelInv, [Next]_vars, shown'.from = shown.from
               PROVE  /\ Len(shown'.rows) >= Len(shown.rows)
                      /\ \A i \in DOMAIN shown.rows :
                            shown.rows[i] = shown'.rows[i] \/ IsPending(shown.rows[i])
    OBVIOUS
  <2>1. shown.rows \in Rows /\ Earlier(shown.rows, shown'.rows)
    BY Forward DEF PanelInv, Types
  <2>2. \A m, n : m >= n <=> n <= m
    OBVIOUS
  <2> QED
    BY <2>1, <2>2 DEF Earlier
<1> QED
  BY <1>1, Inductive, PTL DEF Spec, NeverRegresses

(***************************************************************************)
(* Actions clicked while something loads.                                  *)
(***************************************************************************)

LEMMA EagerGrows == [Next]_vars => eager \subseteq eager'
<1> SUFFICES ASSUME [Next]_vars PROVE eager \subseteq eager'
  OBVIOUS
<1>1. CASE UNCHANGED vars
  BY <1>1 DEF vars
<1>2. CASE Poll \/ ListLoaded \/ ListFailed \/ NewConversation \/ CreationStored \/ CreationReturned \/ NewFailed
  BY <1>2 DEF Poll, ListLoaded, ListFailed, NewConversation, CreationStored, CreationReturned, NewFailed
<1>3. CASE Recover \/ PostStored \/ AcceptedEvent \/ StreamEnds \/ SendFailed
  BY <1>3 DEF Recover, PostStored, AcceptedEvent, StreamEnds, SendFailed
<1>4. ASSUME NEW r \in reads, ReadStep(r) PROVE eager' = eager
  BY <1>4 DEF ReadStep, Serve, Refreshed, RefreshFailed, Loaded, LoadFailed, Opened, Delivered, FinalFailed
<1>5. ASSUME NEW c \in Convs, SelectConversation(c) \/ Settle(c) PROVE eager' = eager
  BY <1>5 DEF SelectConversation, Settle
<1>6. ASSUME NEW k \in Keys, AskQuestion(k) \/ HandleAction(k) PROVE eager \subseteq eager'
  BY <1>6 DEF AskQuestion, HandleAction
<1>7. ASSUME NEW c \in Convs, NEW k \in Keys, OtherTab(c, k) PROVE eager' = eager
  BY <1>7 DEF OtherTab
<1> QED
  BY <1>1, <1>2, <1>3, <1>4, <1>5, <1>6, <1>7 DEF Next

\* Superseding leaves requests that nothing is loaded by, and one to track.
LEMMA TrackedStep ==
    ASSUME PanelInv, work \notin {"load", "select"},
           \A r \in reads' :
              \/ r \in Superseded(reads)
              \/ /\ r.age = "newest" /\ (r.why = "select" \/ r.conv = selected')
                 /\ r.why \notin {"load", "select"} => work' = "none"
    PROVE  Tracked'
<1>1. \A r \in Superseded(reads) : r.age = "superseded" /\ r.why \notin {"load", "select"}
  BY SupersededHistory
<1> QED
  BY <1>1 DEF Tracked

LEMMA TrackedAsk ==
    ASSUME PanelInv, work \notin {"load", "select"},
           NEW why \in {"poll", "accepted", "final", "load", "select"}, NEW c \in Convs,
           reads' = Ask(why, c), why = "select" \/ c = selected',
           why \notin {"load", "select"} => work' = "none"
    PROVE  Tracked'
<1>1. PICK n : n = NewRead(why, c)
  OBVIOUS
<1>2. n.why = why /\ n.conv = c /\ n.age = "newest"
  BY <1>1, NewReadOK
<1>3. \A r \in reads' : r \in Superseded(reads) \/ r = n
  BY <1>1 DEF Ask
<1> QED
  BY <1>2, <1>3, TrackedStep

LEMMA LoadFollows ==
    ASSUME PanelInv, Follows, ListLoaded \/ ListFailed \/ NewConversation
    PROVE  Follows'
<1>1. CASE ListLoaded
  <2>1. /\ work = "list" /\ created = Existing /\ listed = {} /\ reads = {}
        /\ shown.rows = <<>> /\ send.pc = "idle" /\ retry = None /\ ~ pending
        /\ UNCHANGED <<shown, send, retry>> /\ created \subseteq Convs
    BY <1>1 DEF ListLoaded, PanelInv, Types, Control, Follows, loading
  <2>2. CASE work' = "none" /\ UNCHANGED reads
    BY <2>1, <2>2 DEF Follows, Tracked, loading, pending, busy, Creating
  <2>3. ASSUME NEW c \in created, selected' = c, work' = "load", reads' = Ask("load", c)
        PROVE  Follows'
    <3>1. Tracked'
      BY <2>1, <2>3, TrackedAsk
    <3> QED
      BY <2>1, <2>3, <3>1 DEF Follows, loading, pending, Creating
  <2> QED
    BY <1>1, <2>2, <2>3 DEF ListLoaded
<1>2. CASE ListFailed
  <2>1. work = "list" /\ work' = "none" /\ UNCHANGED <<selected, shown, send, retry, reads>>
    BY <1>2 DEF ListFailed
  <2>2. reads = {} /\ send.pc = "idle"
    BY <2>1 DEF PanelInv, Control
  <2> QED
    BY <2>1, <2>2 DEF Follows, Tracked, loading, Creating
<1>3. CASE NewConversation
  <2>1. /\ send.pc = "idle" /\ ~ pending /\ work = "none" /\ retry = None
        /\ work' = "new" /\ reads' = Superseded(reads) /\ UNCHANGED <<selected, shown, send, retry>>
    BY <1>3 DEF NewConversation, ToolbarEnabled, busy, loading
  <2>2. \A r \in reads' : r.age = "superseded"
    BY <2>1, SupersededHistory
  <2>3. Tracked'
    BY <2>1, TrackedStep
  <2> QED
    BY <2>1, <2>2, <2>3 DEF Follows, loading, pending, Creating
<1> QED
  BY <1>1, <1>2, <1>3

LEMMA CreateFollows ==
    ASSUME PanelInv, Follows, CreationStored \/ CreationReturned \/ NewFailed
    PROVE  Follows'
<1>1. CASE CreationStored
  <2>1. UNCHANGED <<selected, shown, work, send, retry, reads>>
    BY <1>1 DEF CreationStored
  <2> QED
    BY <2>1 DEF Follows, Tracked, loading, pending, Creating
<1>2. CASE CreationReturned
  <2>1. /\ Creating /\ selected' = draft /\ shown' = [from |-> draft, rows |-> <<>>]
        /\ UNCHANGED <<retry, reads>>
    BY <1>2 DEF CreationReturned
  <2>2. /\ work \in {"none", "new"} /\ (send.pc = "create" <=> work = "none")
        /\ \A r \in reads : r.age = "superseded" /\ r.why \notin {"load", "select"}
    BY <2>1, CreatingOK DEF Follows, PanelInv, ReadsOK
  <2>3. /\ work' = "none" /\ send'.pc # "create"
        /\ send'.pc # "idle" => send'.conv = draft
    <3>1. CASE send.pc = "create"
      <4>1. send' = [send EXCEPT !.pc = "post", !.conv = draft] /\ UNCHANGED work
        BY <1>2, <3>1 DEF CreationReturned
      <4>2. send \in Submission
        BY DEF PanelInv, Types
      <4> QED
        BY <2>2, <3>1, <4>1, <4>2 DEF Submission
    <3>2. CASE send.pc # "create"
      <4>1. send.pc = "idle"
        BY <2>2, <3>2 DEF Follows, loading
      <4> QED
        BY <1>2, <3>2, <4>1 DEF CreationReturned
    <3> QED
      BY <3>1, <3>2
  <2>4. shown'.from = draft /\ shown'.rows = <<>>
    BY <2>1
  <2> QED
    BY <2>1, <2>2, <2>3, <2>4 DEF Follows, Tracked, loading, Creating
<1>3. CASE NewFailed
  <2>1. work = "new" /\ work' = "none" /\ UNCHANGED <<selected, shown, send, retry, reads>>
    BY <1>3 DEF NewFailed
  <2>2. send.pc = "idle"
    BY <2>1 DEF Follows, loading
  <2> QED
    BY <2>1, <2>2 DEF Follows, Tracked, loading, Creating
<1> QED
  BY <1>1, <1>2, <1>3

LEMMA SelectFollows ==
    ASSUME PanelInv, Follows, NEW c, SelectConversation(c)
    PROVE  Follows'
<1>1. /\ send.pc = "idle" /\ ~ pending /\ work = "none" /\ c \in listed
      /\ work' = "select" /\ retry' = None /\ reads' = Ask("select", c)
      /\ UNCHANGED <<selected, shown, send>>
  BY DEF SelectConversation, ToolbarEnabled, busy, loading
<1>2. c \in Convs
  BY <1>1 DEF PanelInv, Types
<1>3. Tracked'
  BY <1>1, <1>2, TrackedAsk
<1> QED
  BY <1>1, <1>3 DEF Follows, loading, pending, Creating

\* A submission that starts while nothing loads.
LEMMA SubmitFollows ==
    ASSUME PanelInv, Follows, NEW k, NEW kind, NEW p, Submit(k, kind, p), work = "none"
    PROVE  Follows'
<1>1. /\ send'.pc = (IF selected = None THEN "create" ELSE "post") /\ send'.conv = selected
      /\ reads' = (IF selected = None THEN Superseded(reads) ELSE reads)
      /\ UNCHANGED <<selected, shown, work, retry>>
  BY DEF Submit
<1>2. selected = None => \A r \in reads' : r.age = "superseded"
  BY <1>1, SupersededHistory
<1>3. Tracked'
  <2>1. CASE selected = None
    BY <1>1, <2>1, TrackedStep
  <2>2. CASE selected # None
    BY <1>1, <2>2 DEF Follows, Tracked
  <2> QED
    BY <2>1, <2>2
<1> QED
  BY <1>1, <1>2, <1>3 DEF Follows, loading, Creating

LEMMA SendFollows ==
    ASSUME PanelInv, Follows, Poll \/ PostStored \/ AcceptedEvent \/ StreamEnds \/ SendFailed
    PROVE  Follows'
<1>1. CASE Poll
  <2>1. /\ pending /\ selected # None /\ reads' = Ask("poll", selected)
        /\ UNCHANGED <<selected, shown, work, send, retry>>
    BY <1>1 DEF Poll, PollWanted
  <2>2. work = "none" /\ ~ Creating /\ selected \in Convs
    BY <2>1, PendingShown, ShowingOK DEF PanelInv, Types, Control, Follows, loading, Creating
  <2>3. Tracked'
    BY <2>1, <2>2, TrackedAsk
  <2> QED
    BY <2>1, <2>2, <2>3 DEF Follows, loading, Creating
<1>2. ASSUME send.pc \in {"post", "reply", "stream"}
      PROVE  work = "none" /\ send \in Submission /\ send.conv = selected /\ selected \in Convs
  BY <1>2, SendingOK DEF Follows, loading
<1>3. CASE PostStored
  <2>1. send.pc = "post" /\ send' = [send EXCEPT !.pc = "reply"] /\ UNCHANGED <<selected, shown, work, retry, reads>>
    BY <1>3 DEF PostStored
  <2>2. send'.pc = "reply" /\ send'.conv = send.conv
    BY <1>2, <2>1 DEF Submission
  <2> QED
    BY <1>2, <2>1, <2>2 DEF Follows, Tracked, loading, Creating
<1>4. CASE AcceptedEvent
  <2>1. /\ send.pc = "reply" /\ send' = [send EXCEPT !.pc = "stream"]
        /\ reads' = Ask("accepted", send.conv) /\ UNCHANGED <<selected, shown, work, retry>>
    BY <1>4 DEF AcceptedEvent
  <2>2. send'.pc = "stream" /\ send'.conv = send.conv
    BY <1>2, <2>1 DEF Submission
  <2>3. Tracked'
    BY <1>2, <2>1, TrackedAsk
  <2> QED
    BY <1>2, <2>1, <2>2, <2>3 DEF Follows, loading, Creating
<1>5. CASE StreamEnds
  <2>1. PICK o \in {"open", "terminal"} : send' = [send EXCEPT !.pc = "final", !.outcome = o]
    BY <1>5 DEF StreamEnds
  <2>2. /\ send.pc \in {"reply", "stream"}
        /\ reads' = Ask("final", send.conv) /\ UNCHANGED <<selected, shown, work, retry>>
    BY <1>5 DEF StreamEnds
  <2>3. send'.pc = "final" /\ send'.conv = send.conv
    BY <1>2, <2>1, <2>2 DEF Submission
  <2>4. Tracked'
    BY <1>2, <2>2, TrackedAsk
  <2> QED
    BY <1>2, <2>2, <2>3, <2>4 DEF Follows, loading, Creating
<1>6. CASE SendFailed
  <2>1. send'.pc = "idle" /\ busy
    BY <1>6, SendFailedOK
  <2>2. work = "none" /\ UNCHANGED <<selected, shown, work, reads>>
    BY <1>6, <2>1 DEF SendFailed, Follows, busy, loading
  <2> QED
    BY <2>1, <2>2 DEF Follows, Tracked, loading, Creating
<1> QED
  BY <1>1, <1>3, <1>4, <1>5, <1>6

LEMMA ReadFollows ==
    ASSUME PanelInv, Follows, NEW r \in reads, ReadStep(r)
    PROVE  Follows'
<1>1. ASSUME reads' = reads \ {r}, work' \in {work, "none"}, UNCHANGED selected PROVE Tracked'
  BY <1>1 DEF Follows, Tracked
<1>2. ASSUME reads' = reads \ {r}, r.state = "served", shown' = Shown(r), UNCHANGED <<turns, listed, selected>>,
             r.why \in {"poll", "accepted", "final"}
      PROVE  /\ shown'.from = selected \/ shown'.rows = <<>>
             /\ shown' = shown \/ work = "none"
  <2>1. (r.age = "newest" => shown'.from = r.conv) /\ (shown' = shown \/ r.age = "newest")
    BY <1>2, ShownOK
  <2>2. r.age = "newest" => r.conv = selected /\ work = "none"
    BY <1>2 DEF Follows, Tracked
  <2> QED
    BY <2>1, <2>2 DEF Follows
<1>3. CASE Serve(r)
  <2>1. /\ reads' = (reads \ {r}) \cup {[r EXCEPT !.state = "served", !.rows = turns[r.conv]]}
        /\ UNCHANGED <<selected, shown, work, send, retry>>
    BY <1>3 DEF Serve
  <2>2. PICK s : s = [r EXCEPT !.state = "served", !.rows = turns[r.conv]]
    OBVIOUS
  <2>3. r \in Read
    BY DEF PanelInv, Types
  <2>4. s.why = r.why /\ s.conv = r.conv /\ s.age = r.age /\ reads' = (reads \ {r}) \cup {s}
    BY <2>1, <2>2, <2>3 DEF Read
  <2>5. Tracked'
    BY <2>1, <2>4 DEF Follows, Tracked
  <2> QED
    BY <2>1, <2>4, <2>5 DEF Follows, loading, pending, Creating
<1>4. CASE Refreshed(r) \/ RefreshFailed(r)
  <2>1. /\ reads' = reads \ {r} /\ UNCHANGED <<turns, listed, selected, work, send>>
        /\ r.why \in {"poll", "accepted"} /\ retry' \in {retry, None}
    BY <1>4 DEF Refreshed, RefreshFailed, Returned, Failed, RetryAfter, api
  <2>2. /\ shown'.from = selected \/ shown'.rows = <<>>
        /\ shown' = shown \/ work = "none"
    <3>1. CASE Refreshed(r)
      BY <1>2, <2>1, <3>1 DEF Refreshed, Returned
    <3>2. CASE RefreshFailed(r)
      BY <3>2 DEF RefreshFailed, Follows
    <3> QED
      BY <1>4, <3>1, <3>2
  <2> QED
    BY <1>1, <2>1, <2>2 DEF Follows, loading, pending, Creating
<1>5. CASE Loaded(r) \/ LoadFailed(r) \/ Opened(r)
  <2>1. /\ reads' = reads \ {r} /\ work' = "none" /\ UNCHANGED send
        /\ r.why \in {"load", "select"} /\ work = r.why /\ r.age = "newest"
    BY <1>5 DEF Loaded, LoadFailed, Opened, Returned, Failed, PanelInv, ReadsOK, Follows, Tracked
  <2>2. send.pc = "idle"
    BY <2>1 DEF Follows, loading
  <2>3. \A q \in reads' : q.age # "newest" /\ q.why \notin {"load", "select"}
    BY <2>1, DropOK DEF PanelInv, ReadsOK, OneNewest
  <2>4. Tracked'
    BY <2>3 DEF Tracked
  <2>5. shown'.from = selected' \/ shown'.rows = <<>>
    <3>1. CASE Loaded(r)
      <4>1. shown'.from = r.conv /\ r.conv = selected /\ selected' = selected
        BY <2>1, <3>1 DEF Loaded, Follows, Tracked
      <4> QED
        BY <4>1
    <3>2. CASE LoadFailed(r)
      BY <3>2 DEF LoadFailed, Follows
    <3>3. CASE Opened(r)
      BY <2>1, <3>3 DEF Opened, Shown, Applies
    <3> QED
      BY <1>5, <3>1, <3>2, <3>3
  <2> QED
    BY <2>1, <2>2, <2>4, <2>5 DEF Follows, loading, Creating
<1>6. CASE Delivered(r) \/ FinalFailed(r)
  <2>1. /\ send.pc = "final" /\ send'.pc = "idle" /\ UNCHANGED <<selected, work>>
    BY <1>6, DeliveredOK
  <2>2. work = "none"
    BY <2>1 DEF Follows, loading
  <2>3. reads' = reads \ {r} /\ r.why = "final" /\ UNCHANGED <<turns, listed>>
    BY <1>6 DEF Delivered, FinalFailed, Returned, Failed, api
  <2>4. shown'.from = selected \/ shown'.rows = <<>>
    <3>1. CASE Delivered(r)
      BY <1>2, <2>1, <2>3, <3>1 DEF Delivered, Returned
    <3>2. CASE FinalFailed(r)
      BY <3>2 DEF FinalFailed, Follows
    <3> QED
      BY <1>6, <3>1, <3>2
  <2> QED
    BY <1>1, <2>1, <2>2, <2>3, <2>4 DEF Follows, loading, Creating
<1> QED
  BY <1>3, <1>4, <1>5, <1>6 DEF ReadStep

Following == "loading" \notin eager => Follows

LEMMA FollowStep == PanelInv /\ Following /\ [Next]_vars => Following'
<1> SUFFICES ASSUME PanelInv, Following, [Next]_vars, "loading" \notin eager' PROVE Follows'
  BY DEF Following
<1>0. Follows
  BY EagerGrows DEF Following
<1>1. CASE UNCHANGED vars
  BY <1>0, <1>1 DEF vars, Follows, Tracked, loading, pending, Creating
<1>2. CASE ListLoaded \/ ListFailed \/ NewConversation \/ CreationStored \/ CreationReturned \/ NewFailed
  BY <1>0, <1>2, LoadFollows, CreateFollows
<1>3. CASE Poll \/ PostStored \/ AcceptedEvent \/ StreamEnds \/ SendFailed
  BY <1>0, <1>3, SendFollows
<1>4. CASE Recover
  <2>1. retry # None /\ Submit(retry, "question", None)
    BY <1>4 DEF Recover, RetryShown
  <2>2. work = "none"
    BY <1>0, <2>1 DEF Follows, loading
  <2> QED
    BY <1>0, <2>1, <2>2, SubmitFollows
<1>5. ASSUME NEW k \in Keys, AskQuestion(k) \/ HandleAction(k) PROVE Follows'
  <2>1. PICK kind, p : Submit(k, kind, p)
    BY <1>5 DEF AskQuestion, HandleAction
  <2>2. CASE AskQuestion(k)
    <3>1. work = "none"
      BY <2>2 DEF AskQuestion, ComposerEnabled, ToolbarEnabled, loading
    <3> QED
      BY <1>0, <2>1, <3>1, SubmitFollows
  <2>3. CASE HandleAction(k)
    <3>1. ~ loading
      BY <2>3 DEF HandleAction, Ahead
    <3> QED
      BY <1>0, <2>1, <3>1, SubmitFollows DEF loading
  <2> QED
    BY <1>5, <2>2, <2>3
<1>6. ASSUME NEW r \in reads, ReadStep(r) PROVE Follows'
  BY <1>0, <1>6, ReadFollows
<1>7. ASSUME NEW c \in Convs, SelectConversation(c) PROVE Follows'
  BY <1>0, <1>7, SelectFollows
<1>8. ASSUME NEW c \in Convs, NEW k \in Keys, OtherTab(c, k) PROVE Follows'
  <2>1. UNCHANGED <<selected, shown, work, send, retry, reads>>
    BY <1>8 DEF OtherTab
  <2> QED
    BY <1>0, <2>1 DEF Follows, Tracked, loading, pending, Creating
<1>9. ASSUME NEW c \in Convs, Settle(c) PROVE Follows'
  <2>1. UNCHANGED <<selected, shown, work, send, retry, reads>>
    BY <1>9 DEF Settle
  <2> QED
    BY <1>0, <2>1 DEF Follows, Tracked, loading, pending, Creating
<1> QED
  BY <1>1, <1>2, <1>3, <1>4, <1>5, <1>6, <1>7, <1>8, <1>9 DEF Next

\* Until an action is clicked while a conversation is opened or created, the
\* messages on screen are those of the selected one whenever nothing loads:
\* no other order of clicks, answers and failures parts them (refresh,
\* selectConversation, createConversation and send).
THEOREM ShownUnlessEagerHolds == Spec => []ShownUnlessEager
<1>1. Init => Following
  <2> SUFFICES ASSUME Init PROVE Follows
    BY DEF Following
  <2>1. shown.rows = <<>> /\ send.pc = "idle" /\ retry = None /\ reads = {} /\ work = "list"
    BY DEF Init, Idle
  <2> QED
    BY <2>1 DEF Follows, Tracked, loading, pending, Creating
<1>2. Following => ShownUnlessEager
  BY DEF Following, Follows, ShownUnlessEager, ShownIsSelected
<1>3. Spec => []Following
  BY <1>1, FollowStep, Inductive, PTL DEF Spec
<1> QED
  BY <1>2, <1>3, PTL

(***************************************************************************)
(* Actions clicked over a standing offer.                                  *)
(***************************************************************************)

LEMMA GrowKeeps == Grow => \A k : Stored(k) => Stored(k)'
BY DEF Grow, Stored

\* Steps of which the submissions take no notice.
LEMMA SameKept ==
    ASSUME Kept, UNCHANGED <<turns, asked, send, retry, accepted>>
    PROVE  Kept'
BY DEF Kept, NoSilentLoss, Stored, busy

\* An offer may be withdrawn when what it offers is stored.
LEMMA RetryKept ==
    ASSUME PanelInv, Kept, NEW r, retry' = RetryAfter(r), UNCHANGED <<turns, asked, send, accepted>>
    PROVE  Kept'
<1>1. retry' = retry \/ (retry' = None /\ (retry # None => Stored(retry)))
  BY DEF RetryAfter, Recovered, Kept
<1>2. NoSilentLoss'
  <2>1. ASSUME NEW k \in Keys, asked[k] # "never"
        PROVE  Stored(k) \/ (busy /\ send.key = k) \/ retry' = k
    BY <1>1, <2>1 DEF Kept, NoSilentLoss, Stored, ConstantsAssumption
  <2> QED
    BY <2>1 DEF NoSilentLoss, busy, Stored
<1> QED
  BY <1>1, <1>2 DEF Kept, Stored, busy

LEMMA SubmitKept ==
    ASSUME PanelInv, Kept, NEW k \in Keys, NEW kind, NEW p, Submit(k, kind, p), send.pc = "idle",
           retry \in {None, k}, \A j \in Keys : j # k => asked'[j] = asked[j]
    PROVE  Kept'
<1>1. /\ send'.pc \in {"create", "post"} /\ send'.key = k /\ accepted' = None
      /\ UNCHANGED <<turns, retry>>
  BY DEF Submit, api
<1>2. NoSilentLoss'
  <2>1. ASSUME NEW j \in Keys, asked'[j] # "never" PROVE Stored(j) \/ j = k
    BY <2>1 DEF Kept, NoSilentLoss, Stored, busy, ConstantsAssumption
  <2> QED
    BY <1>1, <2>1 DEF NoSilentLoss, busy, Stored
<1> QED
  BY <1>1, <1>2 DEF Kept, busy

LEMMA ApiKept ==
    ASSUME PanelInv, Kept, Grow, UNCHANGED <<retry, accepted>>, send'.key = send.key,
           \/ send'.pc = send.pc
           \/ send.pc = "post" /\ send'.pc = "reply" /\ Stored(send.key)',
           \A j \in Keys : asked'[j] # "never" => Stored(j)' \/ asked[j] # "never"
    PROVE  Kept'
<1>1. \A k : Stored(k) => Stored(k)'
  BY GrowKeeps
<1>2. busy' = busy
  BY DEF busy
<1>3. NoSilentLoss'
  <2>1. ASSUME NEW j \in Keys, asked'[j] # "never"
        PROVE  Stored(j)' \/ (busy' /\ send'.key = j) \/ retry' = j
    <3>1. CASE asked[j] # "never"
      <4>1. Stored(j) \/ (busy /\ send.key = j) \/ retry = j
        BY <3>1 DEF Kept, NoSilentLoss, Stored
      <4> QED
        BY <1>1, <1>2, <4>1
    <3> QED
      BY <2>1, <3>1
  <2> QED
    BY <2>1 DEF NoSilentLoss, Stored
<1>4. accepted' # None => Stored(accepted)'
  BY <1>1 DEF Kept, Stored
<1>5. send'.pc \in {"reply", "stream", "final"} => Stored(send.key)'
  BY <1>1 DEF Kept, Stored
<1> QED
  BY <1>2, <1>3, <1>4, <1>5 DEF Kept, Stored

LEMMA SendKept ==
    ASSUME PanelInv, Kept, PostStored \/ AcceptedEvent \/ StreamEnds \/ SendFailed
    PROVE  Kept'
<1>1. CASE PostStored
  <2>1. /\ Grow /\ Has(turns'[send.conv], send.key) /\ send.conv \in Convs
        /\ send'.key = send.key /\ send'.pc = "reply"
    BY <1>1, PostStoredOK
  <2>2. send.pc = "post" /\ UNCHANGED <<asked, retry, accepted>>
    BY <1>1 DEF PostStored
  <2>3. Stored(send.key)'
    BY <2>1 DEF Stored
  <2> QED
    BY <2>1, <2>2, <2>3, ApiKept
<1>2. CASE AcceptedEvent
  <2>1. /\ send.pc = "reply" /\ send' = [send EXCEPT !.pc = "stream"] /\ accepted' = send.key
        /\ UNCHANGED <<turns, asked, retry>>
    BY <1>2 DEF AcceptedEvent, api
  <2>2. send \in Submission
    BY DEF PanelInv, Types
  <2>3. send'.pc = "stream" /\ send'.key = send.key
    BY <2>1, <2>2 DEF Submission
  <2> QED
    BY <2>1, <2>3 DEF Kept, NoSilentLoss, Stored, busy
<1>3. CASE StreamEnds
  <2>1. PICK o \in {"open", "terminal"} : send' = [send EXCEPT !.pc = "final", !.outcome = o]
    BY <1>3 DEF StreamEnds
  <2>2. send.pc \in {"reply", "stream"} /\ UNCHANGED <<turns, asked, retry, accepted>>
    BY <1>3 DEF StreamEnds, api
  <2>3. send \in Submission
    BY DEF PanelInv, Types
  <2>4. send'.pc = "final" /\ send'.key = send.key
    BY <2>1, <2>3 DEF Submission
  <2> QED
    BY <2>2, <2>4 DEF Kept, NoSilentLoss, Stored, busy
<1>4. CASE SendFailed
  <2>1. /\ busy /\ send.key \in Keys /\ send.key # None /\ retry' = send.key /\ send'.pc = "idle"
    BY <1>4, SendFailedOK
  <2>2. UNCHANGED <<turns, asked, accepted>>
    BY <1>4 DEF SendFailed, api
  <2>3. NoSilentLoss'
    <3>1. ASSUME NEW k \in Keys, asked[k] # "never" PROVE Stored(k) \/ send.key = k
      BY <2>1, <3>1 DEF Kept, NoSilentLoss, Stored, ConstantsAssumption
    <3> QED
      BY <2>1, <2>2, <3>1 DEF NoSilentLoss, Stored
  <2> QED
    BY <2>1, <2>2, <2>3 DEF Kept, Stored, busy
<1> QED
  BY <1>1, <1>2, <1>3, <1>4

\* A submission ends: its turn is stored, or it is offered for recovery.
LEMMA EndKept ==
    ASSUME PanelInv, Kept, NEW r \in reads, Delivered(r) \/ FinalFailed(r)
    PROVE  Kept'
<1>1. /\ send.pc = "final" /\ send.key \in Keys /\ send'.pc = "idle" /\ retry' \in {None, send.key}
      /\ UNCHANGED <<turns, asked, accepted>>
  BY DeliveredOK
<1>2. Stored(send.key) /\ busy
  BY <1>1 DEF Kept, busy
<1>3. NoSilentLoss'
  <2>1. ASSUME NEW k \in Keys, asked[k] # "never" PROVE Stored(k)
    <3>1. Stored(k) \/ send.key = k \/ retry = k
      BY <2>1 DEF Kept, NoSilentLoss, Stored
    <3> QED
      BY <1>2, <3>1 DEF Kept, ConstantsAssumption
  <2> QED
    BY <1>1, <2>1 DEF NoSilentLoss, Stored
<1> QED
  BY <1>1, <1>2, <1>3 DEF Kept, Stored, busy

Keeping == "offer" \notin eager => Kept

LEMMA KeptStep == PanelInv /\ Keeping /\ [Next]_vars => Keeping'
<1> SUFFICES ASSUME PanelInv, Keeping, [Next]_vars, "offer" \notin eager' PROVE Kept'
  BY DEF Keeping
<1>0. Kept
  BY EagerGrows DEF Keeping
<1>1. CASE UNCHANGED vars
  BY <1>0, <1>1, SameKept DEF vars
<1>2. CASE Poll \/ ListLoaded \/ ListFailed \/ NewConversation \/ CreationStored \/ NewFailed
  BY <1>0, <1>2, SameKept DEF Poll, ListLoaded, ListFailed, NewConversation, CreationStored, NewFailed, api
<1>3. CASE CreationReturned
  <2>1. UNCHANGED <<turns, asked, retry, accepted>>
    BY <1>3 DEF CreationReturned, api
  <2>2. \/ UNCHANGED send
        \/ send.pc = "create" /\ send' = [send EXCEPT !.pc = "post", !.conv = draft]
    BY <1>3 DEF CreationReturned
  <2>3. send \in Submission
    BY DEF PanelInv, Types
  <2>4. CASE send.pc = "create" /\ send' = [send EXCEPT !.pc = "post", !.conv = draft]
    <3>1. send'.pc = "post" /\ send'.key = send.key
      BY <2>3, <2>4 DEF Submission
    <3> QED
      BY <1>0, <2>1, <2>4, <3>1 DEF Kept, NoSilentLoss, Stored, busy
  <2> QED
    BY <1>0, <2>1, <2>2, <2>4, SameKept
<1>4. CASE PostStored \/ AcceptedEvent \/ StreamEnds \/ SendFailed
  BY <1>0, <1>4, SendKept
<1>5. CASE Recover
  <2>1. retry # None /\ send.pc = "idle" /\ Submit(retry, "question", None) /\ UNCHANGED asked
    BY <1>5 DEF Recover, RetryShown, busy
  <2>2. PICK k \in Keys : k = retry
    BY <2>1 DEF PanelInv, Types
  <2> QED
    BY <1>0, <2>1, <2>2, SubmitKept
<1>6. ASSUME NEW k \in Keys, AskQuestion(k) \/ HandleAction(k) PROVE Kept'
  <2>1. send.pc = "idle" /\ \E kind \in Kinds : asked' = [asked EXCEPT ![k] = kind]
    BY <1>6 DEF AskQuestion, ComposerEnabled, ToolbarEnabled, HandleAction, ActionsEnabled, busy, Kinds
  <2>2. \A j \in Keys : j # k => asked'[j] = asked[j]
    BY <2>1, AskedOK
  <2>3. PICK kind, p : Submit(k, kind, p)
    BY <1>6 DEF AskQuestion, HandleAction
  <2>4. retry = None
    <3>1. CASE AskQuestion(k)
      BY <3>1 DEF AskQuestion, ComposerEnabled, ToolbarEnabled
    <3>2. CASE HandleAction(k)
      BY <3>2 DEF HandleAction, Ahead
    <3> QED
      BY <1>6, <3>1, <3>2
  <2> QED
    BY <1>0, <2>1, <2>2, <2>3, <2>4, SubmitKept
<1>7. ASSUME NEW r \in reads, ReadStep(r) PROVE Kept'
  <2>1. CASE Serve(r) \/ RefreshFailed(r) \/ Loaded(r) \/ LoadFailed(r)
    BY <1>0, <2>1, SameKept DEF Serve, RefreshFailed, Loaded, LoadFailed, api
  <2>2. CASE Refreshed(r) \/ Opened(r)
    BY <1>0, <2>2, RetryKept DEF Refreshed, Opened, api
  <2>3. CASE Delivered(r) \/ FinalFailed(r)
    BY <1>0, <2>3, EndKept
  <2> QED
    BY <1>7, <2>1, <2>2, <2>3 DEF ReadStep
<1>8. ASSUME NEW c \in Convs, SelectConversation(c) PROVE Kept'
  <2>1. /\ retry = None /\ ~ busy /\ retry' = None /\ accepted' = None
        /\ UNCHANGED <<turns, asked, send>>
    BY <1>8 DEF SelectConversation, ToolbarEnabled, api
  <2> QED
    BY <1>0, <2>1 DEF Kept, NoSilentLoss, Stored, busy
<1>9. ASSUME NEW c \in Convs, Settle(c) PROVE Kept'
  <2>1. Grow
    BY <1>9, SettleOK
  <2>2. UNCHANGED <<asked, send, retry, accepted>>
    BY <1>9 DEF Settle
  <2> QED
    BY <1>0, <2>1, <2>2, ApiKept
<1>10. ASSUME NEW c \in Convs, NEW k \in Keys, OtherTab(c, k) PROVE Kept'
  <2>1. Grow /\ Has(turns'[c], k)
    BY <1>10, OtherTabOK
  <2>2. UNCHANGED <<send, retry, accepted>> /\ asked' = [asked EXCEPT ![k] = "question"]
    BY <1>10 DEF OtherTab
  <2>3. \A j \in Keys : j # k => asked'[j] = asked[j]
    BY <2>2, AskedOK DEF Kinds
  <2>4. \A j \in Keys : asked'[j] # "never" => Stored(j)' \/ asked[j] # "never"
    BY <2>1, <2>3 DEF Stored
  <2> QED
    BY <1>0, <2>1, <2>2, <2>4, ApiKept
<1> QED
  BY <1>1, <1>2, <1>3, <1>4, <1>5, <1>6, <1>7, <1>8, <1>9, <1>10 DEF Next

\* Until an action is clicked over a standing offer, a submission is stored,
\* under way or offered for recovery, in every order of failures, refreshes
\* and selections: send's catch offers it, and refresh and send withdraw an
\* offer only when what it offers is stored.
THEOREM LostOnlyOverOfferHolds == Spec => []LostOnlyOverOffer
<1>1. Init => Keeping
  <2> SUFFICES ASSUME Init PROVE Kept
    BY DEF Keeping
  <2>1. send.pc = "idle" /\ retry = None /\ accepted = None
    BY DEF Init, Idle
  <2>2. \A k \in Keys : asked[k] # "never" => \E c \in Convs : Has(turns[c], k)
    BY FirstTurnsFacts DEF Init
  <2> QED
    BY <2>1, <2>2 DEF Kept, NoSilentLoss, busy
<1>2. Keeping => LostOnlyOverOffer
  BY DEF Keeping, Kept, LostOnlyOverOffer
<1>3. Spec => []Keeping
  BY <1>1, KeptStep, Inductive, PTL DEF Spec
<1> QED
  BY <1>2, <1>3, PTL

(***************************************************************************)
(* Executions of one submission.                                           *)
(***************************************************************************)

\* A key is stored where it was sent, and sent where it may be stored.
Executed ==
    /\ SingleExecution
    /\ \A c \in Convs, k \in Keys : Has(turns[c], k) => asked[k] # "never"
    /\ retry # None => asked[retry] # "never" /\ \A c \in Convs : Has(turns[c], retry) => c = selected
    /\ busy => asked[send.key] # "never" /\ \A c \in Convs : Has(turns[c], send.key) => c = selected

Executing == "loading" \notin eager => Executed

LEMMA SettleHas ==
    ASSUME turns \in [Convs -> Rows], NEW c \in Convs, Settle(c)
    PROVE  \A d \in Convs, k \in Keys : Has(turns'[d], k) => Has(turns[d], k)
<1>1. PICK i \in DOMAIN turns[c] : turns' = [turns EXCEPT ![c][i].state = "settled"]
  BY DEF Settle
<1> DEFINE t == [turns[c][i] EXCEPT !.state = "settled"]
           s == [turns[c] EXCEPT ![i] = t]
<1>2. turns[c] \in Seq(Turn) /\ DOMAIN turns[c] = 1 .. Len(turns[c]) /\ turns[c][i] \in Turn
  BY DEF Rows
<1>3. t.key = turns[c][i].key
  BY <1>2 DEF Turn
<1>4. turns' = [turns EXCEPT ![c] = s]
  BY <1>1
<1>5. turns'[c] = s /\ \A d \in Convs : d # c => turns'[d] = turns[d]
  BY <1>4
<1> HIDE DEF t
<1>6. /\ DOMAIN s = DOMAIN turns[c] /\ s[i] = t
      /\ \A j \in DOMAIN turns[c] : j # i => s[j] = turns[c][j]
  BY <1>2
<1> HIDE DEF s
<1>7. \A k \in Keys : Has(s, k) => Has(turns[c], k)
  BY <1>3, <1>6 DEF Has
<1> QED
  BY <1>5, <1>7

LEMMA AcceptedHas ==
    ASSUME turns \in [Convs -> Rows], NEW c \in Convs, NEW k \in Keys, NEW kind \in Kinds,
           NEW p, Accepted(c, k, kind, p)
    PROVE  \A d \in Convs, j \in Keys : Has(turns'[d], j) => Has(turns[d], j) \/ (d = c /\ j = k)
<1> DEFINE t == [key |-> k, kind |-> kind, state |-> "pending"]
<1>1. CASE UNCHANGED turns
  BY <1>1
<1>2. CASE turns' = [turns EXCEPT ![c] = Append(@, t)]
  <2>1. t \in Turn /\ t.key = k
    BY DEF Turn
  <2> HIDE DEF t
  <2>2. turns[c] \in Seq(Turn)
    BY DEF Rows
  <2>3. /\ DOMAIN turns[c] = 1 .. Len(turns[c])
        /\ DOMAIN Append(turns[c], t) = 1 .. Len(turns[c]) + 1
        /\ \A i \in DOMAIN turns[c] : Append(turns[c], t)[i] = turns[c][i]
        /\ Append(turns[c], t)[Len(turns[c]) + 1] = t
        /\ Len(turns[c]) \in Nat
    BY <2>1, <2>2
  <2>4. turns'[c] = Append(turns[c], t) /\ \A d \in Convs : d # c => turns'[d] = turns[d]
    BY <1>2
  <2>5. ASSUME NEW j \in Keys, Has(turns'[c], j) PROVE Has(turns[c], j) \/ j = k
    <3>1. PICK i \in DOMAIN Append(turns[c], t) : Append(turns[c], t)[i].key = j
      BY <2>4, <2>5 DEF Has
    <3>2. i \in DOMAIN turns[c] \/ i = Len(turns[c]) + 1
      BY <2>3
    <3> QED
      BY <2>1, <2>3, <3>1, <3>2 DEF Has
  <2> QED
    BY <2>4, <2>5
<1> QED
  BY <1>1, <1>2 DEF Accepted

LEMMA SameExecuted ==
    ASSUME Executed, UNCHANGED <<turns, asked, selected>>,
           retry' \in {None, retry} \/ (busy /\ retry' = send.key),
           busy' => busy /\ send'.key = send.key
    PROVE  Executed'
BY DEF Executed, SingleExecution

LEMMA SubmitExecuted ==
    ASSUME PanelInv, Executed, NEW k \in Keys, NEW kind, NEW p, Submit(k, kind, p),
           asked' \in [Keys -> {"never"} \cup Kinds],
           asked'[k] # "never", \A j \in Keys : j # k => asked'[j] = asked[j],
           asked[k] = "never" \/ k = retry
    PROVE  Executed'
<1>1. send'.key = k /\ UNCHANGED <<turns, selected, retry>> /\ busy'
  BY DEF Submit, api, busy
<1>2. retry \in Keys \cup {None}
  BY DEF PanelInv, Types
<1>3. SingleExecution'
  BY <1>1 DEF Executed, SingleExecution
<1>4. \A c \in Convs, j \in Keys : Has(turns[c], j) => asked'[j] # "never"
  BY DEF Executed
<1>5. retry # None => asked'[retry] # "never" /\ \A c \in Convs : Has(turns[c], retry) => c = selected
  BY <1>2 DEF Executed
<1>6. \A c \in Convs : Has(turns[c], k) => c = selected
  BY DEF Executed, ConstantsAssumption
<1> QED
  BY <1>1, <1>3, <1>4, <1>5, <1>6 DEF Executed

LEMMA SendExecuted ==
    ASSUME PanelInv, Follows, Executed, PostStored \/ AcceptedEvent \/ StreamEnds \/ SendFailed
    PROVE  Executed'
<1>1. CASE PostStored
  <2>1. /\ send.pc = "post" /\ Accepted(send.conv, send.key, send.kind, send.parent)
        /\ UNCHANGED <<asked, selected, retry>>
    BY <1>1 DEF PostStored
  <2>2. /\ send.conv = selected /\ busy /\ send.conv \in Convs /\ send.key \in Keys /\ send.kind \in Kinds
    BY <2>1, SendingOK DEF Follows
  <2>3. turns \in [Convs -> Rows] /\ retry \in Keys \cup {None}
    BY DEF PanelInv, Types
  <2>4. \A d \in Convs, j \in Keys : Has(turns'[d], j) => Has(turns[d], j) \/ (d = selected /\ j = send.key)
    BY <2>1, <2>2, <2>3, AcceptedHas
  <2>5. send'.key = send.key /\ busy'
    BY <1>1, PostStoredOK DEF busy
  <2>6. SingleExecution'
    <3>1. ASSUME NEW k \in Keys, NEW c \in Convs, NEW d \in Convs, Has(turns'[c], k), Has(turns'[d], k)
          PROVE  c = d
      BY <2>2, <2>4, <3>1 DEF Executed, SingleExecution
    <3> QED
      BY <3>1 DEF SingleExecution
  <2>7. /\ \A c \in Convs, k \in Keys : Has(turns'[c], k) => asked[k] # "never"
        /\ retry # None => asked[retry] # "never" /\ \A c \in Convs : Has(turns'[c], retry) => c = selected
        /\ asked[send.key] # "never" /\ \A c \in Convs : Has(turns'[c], send.key) => c = selected
    BY <2>2, <2>3, <2>4 DEF Executed
  <2> QED
    BY <2>1, <2>5, <2>6, <2>7 DEF Executed
<1>2. CASE AcceptedEvent \/ StreamEnds
  <2>1. send \in Submission
    BY DEF PanelInv, Types
  <2>2. /\ send.pc \in {"reply", "stream"} /\ UNCHANGED <<turns, asked, selected, retry>>
        /\ send'.key = send.key
    <3>1. CASE AcceptedEvent
      BY <2>1, <3>1 DEF AcceptedEvent, api, Submission
    <3>2. CASE StreamEnds
      <4>1. PICK o \in {"open", "terminal"} : send' = [send EXCEPT !.pc = "final", !.outcome = o]
        BY <3>2 DEF StreamEnds
      <4> QED
        BY <2>1, <3>2, <4>1 DEF StreamEnds, api, Submission
    <3> QED
      BY <1>2, <3>1, <3>2
  <2> QED
    BY <2>2, SameExecuted DEF busy
<1>3. CASE SendFailed
  <2>1. busy /\ retry' = send.key /\ send'.pc = "idle"
    BY <1>3, SendFailedOK
  <2>2. UNCHANGED <<turns, asked, selected>>
    BY <1>3 DEF SendFailed, api
  <2> QED
    BY <2>1, <2>2, SameExecuted DEF busy
<1> QED
  BY <1>1, <1>2, <1>3

LEMMA ReadExecuted ==
    ASSUME PanelInv, Follows, Executed, NEW r \in reads, ReadStep(r)
    PROVE  Executed'
<1>1. CASE Serve(r) \/ Refreshed(r) \/ RefreshFailed(r) \/ Loaded(r) \/ LoadFailed(r)
  <2>1. UNCHANGED <<turns, asked, selected, send>> /\ retry' \in {None, retry}
    BY <1>1 DEF Serve, Refreshed, RefreshFailed, Loaded, LoadFailed, RetryAfter, api
  <2> QED
    BY <2>1, SameExecuted DEF busy
<1>2. CASE Opened(r)
  <2>1. loading /\ retry = None /\ send.pc = "idle" /\ UNCHANGED <<turns, asked, send>> /\ retry' = None
    BY <1>2 DEF Opened, PanelInv, ReadsOK, Follows, loading, RetryAfter, api
  <2> QED
    BY <2>1 DEF Executed, SingleExecution, busy
<1>3. CASE Delivered(r) \/ FinalFailed(r)
  <2>1. /\ send.pc = "final" /\ send'.pc = "idle" /\ retry' \in {None, send.key}
        /\ UNCHANGED <<turns, asked, selected>>
    BY <1>3, DeliveredOK
  <2> QED
    BY <2>1, SameExecuted DEF busy
<1> QED
  BY <1>1, <1>2, <1>3 DEF ReadStep

LEMMA ExecutedStep == PanelInv /\ Following /\ Executing /\ [Next]_vars => Executing'
<1> SUFFICES ASSUME PanelInv, Following, Executing, [Next]_vars, "loading" \notin eager'
             PROVE  Executed'
  BY DEF Executing
<1>0. Follows /\ Executed
  BY EagerGrows DEF Following, Executing
<1>1. CASE UNCHANGED vars
  BY <1>0, <1>1, SameExecuted DEF vars, busy
<1>2. CASE Poll \/ ListFailed \/ NewConversation \/ CreationStored \/ NewFailed
  <2>1. UNCHANGED <<turns, asked, selected, retry, send>>
    BY <1>2 DEF Poll, ListFailed, NewConversation, CreationStored, NewFailed, api
  <2> QED
    BY <1>0, <2>1, SameExecuted DEF busy
<1>3. CASE ListLoaded
  <2>1. retry = None /\ send.pc = "idle" /\ UNCHANGED <<turns, asked, retry, send>>
    BY <1>3 DEF ListLoaded, PanelInv, Control, api
  <2> QED
    BY <1>0, <2>1 DEF Executed, SingleExecution, busy
<1>4. CASE CreationReturned
  <2>1. Creating /\ selected' = draft /\ UNCHANGED <<turns, asked, retry>>
    BY <1>4 DEF CreationReturned, api
  <2>2. CASE send.pc = "create"
    <3>1. send' = [send EXCEPT !.pc = "post", !.conv = draft] /\ selected = None /\ send \in Submission
      BY <1>4, <2>2 DEF CreationReturned, PanelInv, Control, Types
    <3>2. busy /\ busy' /\ send'.key = send.key
      BY <2>2, <3>1 DEF busy, Submission
    <3>3. /\ retry # None => \A c \in Convs : ~ Has(turns[c], retry)
          /\ \A c \in Convs : ~ Has(turns[c], send.key)
      BY <1>0, <3>1, <3>2 DEF Executed, ConstantsAssumption
    <3> QED
      BY <1>0, <2>1, <3>2, <3>3 DEF Executed, SingleExecution
  <2>3. CASE send.pc # "create"
    <3>1. send.pc = "idle" /\ retry = None /\ send' = send
      BY <1>0, <1>4, <2>1, <2>3 DEF CreationReturned, Creating, Follows, loading
    <3> QED
      BY <1>0, <2>1, <3>1 DEF Executed, SingleExecution, busy
  <2> QED
    BY <2>2, <2>3
<1>5. CASE PostStored \/ AcceptedEvent \/ StreamEnds \/ SendFailed
  BY <1>0, <1>5, SendExecuted
<1>6. CASE Recover
  <2>1. retry # None /\ Submit(retry, "question", None) /\ UNCHANGED asked
    BY <1>6 DEF Recover, RetryShown
  <2>2. PICK k \in Keys : k = retry
    BY <2>1 DEF PanelInv, Types
  <2>3. asked' \in [Keys -> {"never"} \cup Kinds] /\ asked'[k] # "never"
    BY <1>0, <2>1, <2>2 DEF PanelInv, Types, Executed
  <2> QED
    BY <1>0, <2>1, <2>2, <2>3, SubmitExecuted
<1>7. ASSUME NEW k \in Keys, AskQuestion(k) \/ HandleAction(k) PROVE Executed'
  <2>1. asked[k] = "never" /\ \E kind \in Kinds : asked' = [asked EXCEPT ![k] = kind]
    BY <1>7 DEF AskQuestion, HandleAction, Kinds
  <2>2. /\ asked' \in [Keys -> {"never"} \cup Kinds] /\ asked'[k] # "never"
        /\ \A j \in Keys : j # k => asked'[j] = asked[j]
    BY <2>1, AskedOK
  <2>3. PICK kind, p : Submit(k, kind, p)
    BY <1>7 DEF AskQuestion, HandleAction
  <2> QED
    BY <1>0, <2>1, <2>2, <2>3, SubmitExecuted
<1>8. ASSUME NEW r \in reads, ReadStep(r) PROVE Executed'
  BY <1>0, <1>8, ReadExecuted
<1>9. ASSUME NEW c \in Convs, SelectConversation(c) PROVE Executed'
  <2>1. retry' = None /\ UNCHANGED <<turns, asked, selected, send>>
    BY <1>9 DEF SelectConversation, api
  <2> QED
    BY <1>0, <2>1, SameExecuted DEF busy
<1>10. ASSUME NEW c \in Convs, Settle(c) PROVE Executed'
  <2>1. UNCHANGED <<asked, selected, retry, send>> /\ turns \in [Convs -> Rows]
    BY <1>10 DEF Settle, PanelInv, Types
  <2>2. \A d \in Convs, k \in Keys : Has(turns'[d], k) => Has(turns[d], k)
    BY <1>10, <2>1, SettleHas
  <2>3. retry \in Keys \cup {None} /\ (busy => send.key \in Keys)
    BY DEF PanelInv, Types, Control, Submission
  <2> QED
    BY <1>0, <2>1, <2>2, <2>3 DEF Executed, SingleExecution, busy
<1>11. ASSUME NEW c \in Convs, NEW k \in Keys, OtherTab(c, k) PROVE Executed'
  <2>1. /\ asked[k] = "never" /\ asked' = [asked EXCEPT ![k] = "question"]
        /\ Accepted(c, k, "question", None) /\ UNCHANGED <<selected, retry, send>>
    BY <1>11 DEF OtherTab
  <2>2. turns \in [Convs -> Rows] /\ "question" \in Kinds
    BY DEF PanelInv, Types, Kinds
  <2>3. \A d \in Convs, j \in Keys : Has(turns'[d], j) => Has(turns[d], j) \/ (d = c /\ j = k)
    BY <2>1, <2>2, AcceptedHas
  <2>4. asked'[k] # "never" /\ \A j \in Keys : j # k => asked'[j] = asked[j]
    BY <2>1, <2>2, AskedOK
  <2>5. retry \in Keys \cup {None} /\ (busy => send.key \in Keys)
    BY DEF PanelInv, Types, Control, Submission
  <2>6. \A d \in Convs : ~ Has(turns[d], k)
    BY <1>0, <2>1 DEF Executed
  <2>7. SingleExecution'
    <3>1. ASSUME NEW j \in Keys, NEW d \in Convs, NEW e \in Convs, Has(turns'[d], j), Has(turns'[e], j)
          PROVE  d = e
      BY <1>0, <2>3, <2>6, <3>1 DEF Executed, SingleExecution
    <3> QED
      BY <3>1 DEF SingleExecution
  <2>8. \A d \in Convs, j \in Keys : Has(turns'[d], j) => asked'[j] # "never"
    BY <1>0, <2>3, <2>4 DEF Executed
  <2>9. retry # None => asked'[retry] # "never" /\ \A d \in Convs : Has(turns'[d], retry) => d = selected
    BY <1>0, <2>1, <2>3, <2>4, <2>5 DEF Executed
  <2>10. busy => asked'[send.key] # "never" /\ \A d \in Convs : Has(turns'[d], send.key) => d = selected
    BY <1>0, <2>1, <2>3, <2>4, <2>5 DEF Executed
  <2> QED
    BY <2>1, <2>7, <2>8, <2>9, <2>10 DEF Executed, busy
<1> QED
  BY <1>1, <1>2, <1>3, <1>4, <1>5, <1>6, <1>7, <1>8, <1>9, <1>10, <1>11 DEF Next

\* Until an action is clicked while a conversation is opened or created, what
\* is recovered under its key is executed once: a standing offer holds the
\* selection still, so that send(retry.question, retry.key) goes where the
\* submission went, or a conversation was never made for it.
THEOREM RepeatedOnlyIfEagerHolds == Spec => []RepeatedOnlyIfEager
<1>1. Init => Following /\ Executing
  <2> SUFFICES ASSUME Init PROVE Follows /\ Executed
    BY DEF Following, Executing
  <2>1. shown.rows = <<>> /\ send.pc = "idle" /\ retry = None /\ reads = {} /\ work = "list"
    BY DEF Init, Idle
  <2>2. Follows
    BY <2>1 DEF Follows, Tracked, loading, pending, Creating
  <2>3. \A c \in Convs, k \in Keys : Has(turns[c], k) <=> k \in Had(c)
    BY FirstTurnsFacts DEF Init
  <2>4. \A k \in Keys, c \in Convs : k \in Had(c) => asked[k] # "never"
    BY DEF Init
  <2> QED
    BY <2>1, <2>2, <2>3, <2>4, FirstTurnsFacts DEF Executed, SingleExecution, busy
<1>2. Executing => RepeatedOnlyIfEager
  BY DEF Executing, Executed, RepeatedOnlyIfEager
<1>3. Spec => []Executing
  BY <1>1, FollowStep, ExecutedStep, Inductive, PTL DEF Spec
<1> QED
  BY <1>2, <1>3, PTL
=============================================================================
