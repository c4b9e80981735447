----------------------------- MODULE TutorPanel -----------------------------
(***************************************************************************)
(* The tutor panel of the web application for one student and one course:  *)
(* what it shows, the requests it has under way, and what the API stores   *)
(* because of them.  Every await of the code separates two actions here;   *)
(* requests and answers may be lost, and answers arrive in any order.      *)
(*                                                                         *)
(* A conversation is named by the creation key it was made with and a turn *)
(* by its idempotency key: the API keeps one conversation per key and, in  *)
(* each conversation, one turn per key.                                    *)
(***************************************************************************)
EXTENDS Naturals, FiniteSets, Sequences

CONSTANTS
    Convs,        \* conversations, created or to be created
    Existing,     \* those that exist when the panel is mounted
    Keys,         \* idempotency keys of turns
    Past,         \* the key of the turn that each of these has had, or None
    MaxReads,     \* bound on the history requests under way
    None

ConstantsAssumption ==
    /\ IsFiniteSet(Convs) /\ Existing \subseteq Convs
    /\ IsFiniteSet(Keys)
    /\ Past \in [Existing -> Keys \cup {None}]
    /\ \A c, d \in Existing : Past[c] = Past[d] /\ Past[c] # None => c = d
    /\ MaxReads \in Nat \ {0}
    /\ None \notin Convs /\ None \notin Keys
ASSUME ConstantsAssumption

VARIABLES
    turns,    \* API: the turns of each conversation, in order
    created,  \* API: the conversations that exist
    asked,    \* what the student wanted each key for
    selected, \* the selected conversation
    listed,   \* the conversations in the selector
    shown,    \* the messages on screen and the conversation they were read from
    work,     \* what "loading" stands for, "none" when not loading
    send,     \* the submission under way; busy unless its pc is "idle"
    retry,    \* the submission offered for recovery
    error,    \* whether an error is displayed
    accepted, \* acceptedId
    draft,    \* creationKey: the conversation the next creation makes
    reads,    \* history requests under way
    eager     \* history: what the panel was doing when actions were clicked

vars == <<turns, created, asked, selected, listed, shown, work, send, retry,
          error, accepted, draft, reads, eager>>
api == <<turns, created>>

Kinds == {"question", "action"}
Turn == [key : Keys, kind : Kinds, state : {"pending", "settled"}]
Idle == [pc |-> "idle", conv |-> None, key |-> None, kind |-> "question", parent |-> None,
         outcome |-> "open"]

busy == send.pc # "idle"
loading == work # "none"
IsPending(t) == t.state = "pending"
pending == \E i \in DOMAIN shown.rows : IsPending(shown.rows[i])
Has(rows, k) == \E i \in DOMAIN rows : rows[i].key = k
Settled(rows, k) == \E i \in DOMAIN rows : rows[i].key = k /\ ~ IsPending(rows[i])

-----------------------------------------------------------------------------
(* History requests: what for, of which conversation, whether their number  *)
(* is still historyRequest.current, and the rows the API answered with.     *)

\* ++historyRequest.current: whatever was under way is superseded.
Superseded(rs) == {[r EXCEPT !.age = "superseded"] : r \in rs}
NewRead(why, c) ==
    [why |-> why, conv |-> c, age |-> "newest", state |-> "asked", rows |-> <<>>]
MayAsk == Cardinality(reads) < MaxReads
Ask(why, c) == Superseded(reads) \cup {NewRead(why, c)}

\* The API answers with what it stores at that instant.
Serve(r) ==
    /\ r \in reads /\ r.state = "asked"
    /\ reads' = (reads \ {r}) \cup {[r EXCEPT !.state = "served", !.rows = turns[r.conv]]}
    /\ UNCHANGED <<api, asked, selected, listed, shown, work, send, retry, error, accepted, draft, eager>>

\* refresh: rows of a request that is no longer the newest are dropped.
Applies_Always(r) == TRUE
Applies(r) == r.age = "newest"

Shown(r) == IF Applies(r) THEN [from |-> r.conv, rows |-> r.rows] ELSE shown

\* refresh withdraws the recovery offer once the accepted turn has ended.
Recovered(r) == Applies(r) /\ accepted # None /\ Settled(r.rows, accepted)
RetryAfter(r) == IF Recovered(r) THEN None ELSE retry

Returned(r) == r \in reads /\ r.state = "served" /\ reads' = reads \ {r}
Failed(r) == r \in reads /\ reads' = reads \ {r}

\* The interval that runs while a shown turn is pending.
PollWanted_WhileBusy == busy /\ pending /\ selected # None
PollWanted == pending /\ selected # None

Poll ==
    /\ PollWanted
    /\ MayAsk
    /\ reads' = Ask("poll", selected)
    /\ UNCHANGED <<api, asked, selected, listed, shown, work, send, retry, error, accepted, draft, eager>>

Refreshed_ClearsError(r) ==
    /\ r.why \in {"poll", "accepted"} /\ Returned(r)
    /\ shown' = Shown(r)
    /\ retry' = RetryAfter(r)
    /\ error' = FALSE
    /\ UNCHANGED <<api, asked, selected, listed, work, send, accepted, draft, eager>>
\* A poll, or the refresh that the accepted event starts, comes back.
Refreshed(r) ==
    /\ r.why \in {"poll", "accepted"} /\ Returned(r)
    /\ shown' = Shown(r)
    /\ retry' = RetryAfter(r)
    /\ UNCHANGED <<api, asked, selected, listed, work, send, error, accepted, draft, eager>>

\* Its failure is displayed for a poll and ignored otherwise.
RefreshFailed(r) ==
    /\ r.why \in {"poll", "accepted"} /\ Failed(r)
    /\ error' = (error \/ r.why = "poll")
    /\ UNCHANGED <<api, asked, selected, listed, shown, work, send, retry, accepted, draft, eager>>

-----------------------------------------------------------------------------
(* Mounting and selecting. *)

\* The list arrives; the requested conversation, or the first, is selected.
ListLoaded ==
    /\ work = "list"
    /\ listed' = created
    /\ \/ /\ created = {} /\ selected' = None
          /\ work' = "none" /\ UNCHANGED reads
       \/ \E c \in created :
            /\ selected' = c
            /\ work' = "load"
            /\ reads' = Ask("load", c)
    /\ UNCHANGED <<api, asked, shown, send, retry, error, accepted, draft, eager>>

ListFailed ==
    /\ work = "list"
    /\ work' = "none" /\ error' = TRUE
    /\ UNCHANGED <<api, asked, selected, listed, shown, send, retry, accepted, draft, reads, eager>>

\* The first history is shown whatever the number of its request.
Loaded(r) ==
    /\ r.why = "load" /\ Returned(r)
    /\ shown' = [from |-> r.conv, rows |-> r.rows]
    /\ work' = "none"
    /\ UNCHANGED <<api, asked, selected, listed, send, retry, error, accepted, draft, eager>>

LoadFailed(r) ==
    /\ r.why \in {"load", "select"} /\ Failed(r)
    /\ work' = "none" /\ error' = TRUE
    /\ UNCHANGED <<api, asked, selected, listed, shown, send, retry, accepted, draft, eager>>

ToolbarEnabled_DespiteOffer == ~ busy /\ ~ pending /\ ~ loading
\* The selector and "Nueva" are disabled in these states.
ToolbarEnabled == ~ busy /\ ~ pending /\ ~ loading /\ retry = None

SelectConversation(c) ==
    /\ ToolbarEnabled
    /\ c \in listed \ {selected}
    /\ MayAsk
    /\ work' = "select" /\ error' = FALSE
    /\ retry' = None /\ accepted' = None
    /\ reads' = Ask("select", c)
    /\ UNCHANGED <<api, asked, selected, listed, shown, send, draft, eager>>

\* The selection changes when its history has arrived.
Opened(r) ==
    /\ r.why = "select" /\ Returned(r)
    /\ shown' = Shown(r)
    /\ retry' = RetryAfter(r)
    /\ selected' = r.conv
    /\ work' = "none"
    /\ UNCHANGED <<api, asked, listed, send, error, accepted, draft, eager>>

-----------------------------------------------------------------------------
(* Creating a conversation, from "Nueva" or by the first question. *)

Creating == work = "new" \/ send.pc = "create"

NewConversation ==
    /\ ToolbarEnabled
    /\ draft # None
    /\ work' = "new" /\ error' = FALSE
    /\ reads' = Superseded(reads)
    /\ UNCHANGED <<api, asked, selected, listed, shown, send, retry, accepted, draft, eager>>

\* The API stores the conversation, once per creation key.
CreationStored ==
    /\ Creating
    /\ created' = created \cup {draft}
    /\ UNCHANGED <<turns, asked, selected, listed, shown, work, send, retry, error, accepted, draft, reads, eager>>

Unused == Convs \ (created \cup listed \cup {draft})

\* Its answer: a new key, an empty panel, and on to the question if there is one.
CreationReturned ==
    /\ Creating /\ draft \in created
    /\ selected' = draft
    /\ shown' = [from |-> draft, rows |-> <<>>]
    /\ listed' = listed \cup {draft}
    /\ draft' \in (IF Unused = {} THEN {None} ELSE Unused)
    /\ IF send.pc = "create"
         THEN send' = [send EXCEPT !.pc = "post", !.conv = draft] /\ UNCHANGED work
         ELSE work' = "none" /\ UNCHANGED send
    /\ UNCHANGED <<api, asked, retry, error, accepted, reads, eager>>

\* A creation that fails, or whose answer is lost, keeps its key.
KeyAfterFailure_Rotated == IF Unused = {} THEN {None} ELSE Unused
KeyAfterFailure == {draft}
NewFailed ==
    /\ work = "new"
    /\ work' = "none" /\ error' = TRUE
    /\ draft' \in KeyAfterFailure
    /\ UNCHANGED <<api, asked, selected, listed, shown, send, retry, accepted, reads, eager>>

-----------------------------------------------------------------------------
(* Submitting a turn. *)

\* The start of send: a conversation is created first if none is selected.
Submit(k, kind, parent) ==
    /\ selected = None => draft # None
    /\ send' = [pc |-> IF selected = None THEN "create" ELSE "post", conv |-> selected,
                key |-> k, kind |-> kind, parent |-> parent, outcome |-> "open"]
    /\ accepted' = None /\ error' = FALSE
    /\ reads' = IF selected = None THEN Superseded(reads) ELSE reads
    /\ UNCHANGED <<api, selected, listed, shown, work, retry, draft>>

\* The composer neither sends while a turn runs nor while it is disabled.
ComposerEnabled == ToolbarEnabled

AskQuestion(k) ==
    /\ ComposerEnabled
    /\ asked[k] = "never" /\ asked' = [asked EXCEPT ![k] = "question"]
    /\ Submit(k, "question", None)
    /\ UNCHANGED eager

\* The buttons of an answer check busy and pending only.
ActionsEnabled == ~ busy /\ ~ pending

\* What else the composer and the toolbar wait for.
Ahead == {w \in {"loading", "offer"} : IF w = "loading" THEN loading ELSE retry # None}

\* The action refers to a message on screen, its parent.
HandleAction(k) ==
    /\ ActionsEnabled
    /\ \E i \in DOMAIN shown.rows : ~ IsPending(shown.rows[i])
    /\ asked[k] = "never" /\ asked' = [asked EXCEPT ![k] = "action"]
    /\ Submit(k, "action", shown.from)
    /\ eager' = eager \cup Ahead

RetryShown == retry # None /\ error

\* "Recuperar envio" sends the text and the key again, and nothing else.
Recover ==
    /\ RetryShown /\ ~ busy
    /\ Submit(retry, "question", None)
    /\ UNCHANGED <<asked, eager>>

\* accept: a key that the conversation knows, whatever else the request says,
\* replays its turn; the parent of an action must be of the conversation.
Accepted(c, k, kind, parent) ==
    \/ /\ Has(turns[c], k)
       /\ UNCHANGED turns
    \/ /\ ~ Has(turns[c], k)
       /\ kind = "action" => parent = c
       /\ \A i \in DOMAIN turns[c] : ~ IsPending(turns[c][i])
       /\ turns' = [turns EXCEPT ![c] = Append(@, [key |-> k, kind |-> kind, state |-> "pending"])]

PostStored ==
    /\ send.pc = "post"
    /\ Accepted(send.conv, send.key, send.kind, send.parent)
    /\ send' = [send EXCEPT !.pc = "reply"]
    /\ UNCHANGED <<created, asked, selected, listed, shown, work, retry, error, accepted, draft, reads, eager>>

\* The first event of the stream.
AcceptedEvent ==
    /\ send.pc = "reply"
    /\ MayAsk
    /\ send' = [send EXCEPT !.pc = "stream"]
    /\ accepted' = send.key
    /\ reads' = Ask("accepted", send.conv)
    /\ UNCHANGED <<api, asked, selected, listed, shown, work, retry, error, draft, eager>>

\* The stream ends, after its terminal event or before it, perhaps before its
\* first; then a last refresh.
StreamEnds ==
    /\ send.pc \in {"reply", "stream"}
    /\ MayAsk
    /\ \E o \in {"open", "terminal"} :
         /\ o = "terminal" => send.pc = "stream" /\ Settled(turns[send.conv], send.key)
         /\ send' = [send EXCEPT !.pc = "final", !.outcome = o]
    /\ reads' = Ask("final", send.conv)
    /\ UNCHANGED <<api, asked, selected, listed, shown, work, retry, error, accepted, draft, eager>>

\* The recovery offer of the catch block.
Offer_Forgotten(r) == r
Offer(r) == send.key

GiveUp == /\ retry' = Offer(retry)
          /\ error' = TRUE
          /\ send' = Idle

\* The last refresh came back: done, or "Delivery interrupted".
Delivered(r) ==
    /\ r.why = "final" /\ Returned(r)
    /\ shown' = Shown(r)
    /\ IF send.outcome = "terminal"
         THEN retry' = None /\ send' = Idle /\ UNCHANGED error
         ELSE GiveUp
    /\ UNCHANGED <<api, asked, selected, listed, work, accepted, draft, eager>>

\* A creation, POST or stream that fails, a refusal, or an answer that is lost.
SendFailed ==
    /\ send.pc \in {"create", "post", "reply", "stream"}
    /\ GiveUp
    /\ IF send.pc = "create" THEN draft' \in KeyAfterFailure ELSE UNCHANGED draft
    /\ UNCHANGED <<api, asked, selected, listed, shown, work, accepted, reads, eager>>

FinalFailed(r) ==
    /\ r.why = "final" /\ Failed(r)
    /\ GiveUp
    /\ UNCHANGED <<api, asked, selected, listed, shown, work, accepted, draft, eager>>

-----------------------------------------------------------------------------
(* The rest of the system. *)

\* The tutor settles a turn.
Settle(c) ==
    /\ \E i \in DOMAIN turns[c] :
         /\ IsPending(turns[c][i])
         /\ turns' = [turns EXCEPT ![c][i].state = "settled"]
    /\ UNCHANGED <<created, asked, selected, listed, shown, work, send, retry, error, accepted, draft, reads, eager>>

\* The same student asks in another tab.
OtherTab(c, k) ==
    /\ c \in created
    /\ asked[k] = "never" /\ asked' = [asked EXCEPT ![k] = "question"]
    /\ ~ Has(turns[c], k) /\ Accepted(c, k, "question", None)
    /\ UNCHANGED <<created, selected, listed, shown, work, send, retry, error, accepted, draft, reads, eager>>

Had(c) == IF c \in Existing THEN {Past[c]} \ {None} ELSE {}
FirstTurns(c) ==
    IF Had(c) = {} THEN <<>> ELSE <<[key |-> Past[c], kind |-> "question", state |-> "settled"]>>

Init ==
    /\ turns = [c \in Convs |-> FirstTurns(c)]
    /\ created = Existing
    /\ asked = [k \in Keys |-> IF \E c \in Convs : k \in Had(c) THEN "question" ELSE "never"]
    /\ selected = None /\ listed = {}
    /\ shown = [from |-> None, rows |-> <<>>]
    /\ work = "list" /\ send = Idle
    /\ retry = None /\ error = FALSE /\ accepted = None
    /\ draft \in Convs \ Existing
    /\ reads = {} /\ eager = {}

ReadStep(r) ==
    \/ Serve(r) \/ Refreshed(r) \/ RefreshFailed(r) \/ Loaded(r) \/ LoadFailed(r)
    \/ Opened(r) \/ Delivered(r) \/ FinalFailed(r)

Next ==
    \/ Poll \/ ListLoaded \/ ListFailed
    \/ NewConversation \/ CreationStored \/ CreationReturned \/ NewFailed
    \/ Recover \/ PostStored \/ AcceptedEvent \/ StreamEnds \/ SendFailed
    \/ \E r \in reads : ReadStep(r)
    \/ \E c \in Convs : SelectConversation(c) \/ Settle(c)
    \/ \E k \in Keys : AskQuestion(k) \/ HandleAction(k)
    \/ \E c \in Convs, k \in Keys : OtherTab(c, k)

Spec == Init /\ [][Next]_vars
-----------------------------------------------------------------------------
(* Properties. *)

IsRows(s) == s \in Seq(Turn) /\ Len(s) <= Cardinality(Keys)

\* Every part of the panel's state is one its code gives a meaning to; at most
\* one history request is the newest.
TypeOK ==
    /\ turns \in [Convs -> Seq(Turn)] /\ \A c \in Convs : IsRows(turns[c])
    /\ created \subseteq Convs /\ listed \subseteq created
    /\ asked \in [Keys -> {"never"} \cup Kinds]
    /\ selected \in created \cup {None}
    /\ shown.from \in created \cup {None} /\ IsRows(shown.rows)
    /\ work \in {"none", "list", "load", "select", "new"}
    /\ send \in [pc : {"idle", "create", "post", "reply", "stream", "final"},
                 conv : Convs \cup {None}, key : Keys \cup {None}, kind : Kinds,
                 parent : Convs \cup {None}, outcome : {"open", "terminal"}]
    /\ send.pc \notin {"idle", "create"} => send.conv \in created
    /\ retry \in Keys \cup {None}
    /\ error \in BOOLEAN
    /\ accepted \in Keys \cup {None}
    /\ draft \in Convs \cup {None}
    /\ \A r \in reads : r.conv \in created /\ IsRows(r.rows)
    /\ Cardinality({r \in reads : r.age = "newest"}) <= 1
    /\ eager \subseteq {"loading", "offer"}

\* "Disables every action button (double-click protection while a request
\* runs)", rich-response.tsx:24: nothing is sent to the conversation being left
\* while another is opened, and the selector names the conversation whose
\* messages are on screen (refresh before setSelected, and setMessages([]) for
\* a new conversation).
ShownIsSelected == ~ loading => shown.from = selected \/ shown.rows = <<>>

\* "Unaccepted drafts do not survive reload", docs/ARCHITECTURE.md:103: nothing
\* else drops one.  A submission is stored, under way, or offered for recovery
\* (send's catch, refresh's and send's setRetry(null)).
NoSilentLoss ==
    \A k \in Keys : asked[k] # "never" =>
        \/ \E c \in Convs : Has(turns[c], k)
        \/ busy /\ send.key = k
        \/ retry = k

\* "A same-key retry observes the same execution", README.md:362: what is
\* submitted again under its key is not executed a second time, in another
\* conversation.
SingleExecution ==
    \A k \in Keys, c, d \in Convs : Has(turns[c], k) /\ Has(turns[d], k) => c = d

\* Only an action clicked while a conversation is opened or created, which its
\* buttons do not wait for, can put the messages of one conversation under the
\* name of another.
ShownUnlessEager == "loading" \notin eager => ShownIsSelected

\* Only an action clicked over a standing offer, which its buttons do not wait
\* for, can make the panel drop a submission: no order of failures, late
\* refreshes, selections and recoveries does.
LostOnlyOverOffer == "offer" \notin eager => NoSilentLoss

\* Only after an action clicked while a conversation is opened or created can
\* the recovery of a submission execute it a second time.
RepeatedOnlyIfEager == "loading" \notin eager => SingleExecution

\* While an offer disables the composer and the toolbar, the button that
\* accepts it is on screen (it is rendered inside the error notice).
OfferReachable == retry # None /\ ~ busy => RetryShown

\* A conversation that a lost answer hid is the one the next creation returns:
\* the creation key changes only when its conversation is in the selector.
NoOrphan == created \ Existing \subseteq listed \cup {draft}

\* What the screen shows of a conversation never goes back to an earlier
\* history: answers of superseded requests are dropped (refresh).
NeverRegresses ==
    [][shown'.from = shown.from =>
          /\ Len(shown'.rows) >= Len(shown.rows)
          /\ \A i \in DOMAIN shown.rows :
                shown.rows[i] = shown'.rows[i] \/ IsPending(shown.rows[i])]_vars

\* A turn that is pending on screen is eventually seen settled (the poll).
PendingEndsOnScreen ==
    \A k \in Keys :
        (\E i \in DOMAIN shown.rows : shown.rows[i].key = k /\ IsPending(shown.rows[i]))
            ~> ~ (\E i \in DOMAIN shown.rows : shown.rows[i].key = k /\ IsPending(shown.rows[i]))

\* README.md:362, "a same-key retry observes the same execution": the turn
\* stored under a key is of the kind the student asked for with that key.
RetriedAsAsked ==
    \A c \in Convs : \A i \in DOMAIN turns[c] : turns[c][i].kind = asked[turns[c][i].key]

-----------------------------------------------------------------------------
(* Fairness: the tutor settles every turn, the interval keeps ticking, and the *)
(* newest request is answered, if not every time then again and again: with    *)
(* answers slower than the interval for ever, every poll supersedes the one    *)
(* before it and nothing is shown.                                             *)

FairSpec ==
    /\ Spec
    /\ \A c \in Convs : WF_vars(Settle(c))
    /\ WF_vars(Poll)
    /\ SF_vars(\E r \in reads : r.age = "newest" /\ Serve(r))
    /\ SF_vars(\E r \in reads : r.age = "newest" /\ (Refreshed(r) \/ Delivered(r) \/ Opened(r)))
    /\ WF_vars(\E r \in reads : r.age = "superseded" /\ ReadStep(r))
=============================================================================
