------------------------------- MODULE Answers -------------------------------
(***************************************************************************)
(* The way of one answer from the model's reply to the student's screen:   *)
(* the adapter cleans and parses the reply, the validator holds it against *)
(* the evidence, complete stores it, and the web shows what was stored.    *)
(* Every layer has rules of its own about the same intervention, and none  *)
(* repeats all the rules of the others.                                    *)
(*                                                                         *)
(* A text is what it was made from: the blocks of an intervention, or      *)
(* prose of the model.  A block is "exact", "untidy" where fields are left *)
(* over or a default is missing, or "broken"; the type "stray" is none of  *)
(* the contract's.  A quote is in the content of its chunk "verbatim", or  *)
(* once in another case ("recased"), or else "altered".                    *)
(***************************************************************************)
EXTENDS Integers, FiniteSets, SequencesExt

CONSTANTS
    Chunks,        \* of the course's material
    Replies,       \* what the model may answer
    EvidenceSets,  \* sets of chunks that were retrieved
    MaxBlocks,     \* most blocks of an intervention
    MaxCitations,  \* most citations of an answer
    None

VARIABLES
    reply,     \* the content of the model's message, and _is_gemini()
    evidence,  \* request.evidence
    draft,     \* what generate, then validate, returned
    row,       \* the response columns of the message, with its citations
    screen,    \* what the student sees of the answer
    stage      \* where the answer is, or why it failed

answerVars == <<reply, evidence, draft, row, screen, stage>>

\* The elements of s at the positions in K, in their order: what a loop keeps
\* that passes over the others.
Rank(k, K) == Cardinality({j \in K : j <= k})
Kept(s, K) == [n \in 1 .. Cardinality(K) |-> s[CHOOSE k \in K : Rank(k, K) = n]]

-----------------------------------------------------------------------------
(* The contract: tutor_contract.py.                                        *)

Known == {"question", "hint", "explanation", "diagram", "activity", "sources"}
AnyBlock ==
    {b \in [type : Known \cup {"stray"}, form : {"exact", "untidy", "broken"}, indexes : Seq(Int)] :
        b.type # "sources" => b.indexes = << >>}
AnyCitation == [chunk : Chunks, quote : {"verbatim", "recased", "altered"}]
\* "entry" stands for every situation but the three that have rules of their own.
AnyIntervention ==
    [version : {"v1", "v2"},
     situation : {"entry", "grounded", "insufficient_evidence", "ambiguous"},
     blocks : Seq(AnyBlock), citations : Seq(AnyCitation), grounded : BOOLEAN]
IsTask(b) == b.type \in {"question", "activity"}
WellFormed(b) == b.type \in Known /\ b.form = "exact" /\ (b.type = "sources" => b.indexes # << >>)

Uncited(i) == ~ i.grounded /\ i.citations = << >>

\* What each situation demands.
Fits(i) ==
    CASE i.situation = "insufficient_evidence" ->
            Uncited(i) /\ \A b \in ToSet(i.blocks) : b.type \in {"question", "explanation"}
      [] i.situation = "ambiguous" ->
            Uncited(i) /\ Len(i.blocks) = 1 /\ i.blocks[1].type = "question"
      [] OTHER -> i.grounded /\ i.citations # << >>

Coherent(i) ==
    /\ Len(i.blocks) \in 1 .. MaxBlocks
    /\ Len(i.citations) <= MaxCitations
    /\ \A b \in ToSet(i.blocks) :
         /\ WellFormed(b)
         /\ i.version = "v1" => b.type # "activity"
         /\ \A n \in ToSet(b.indexes) : n < Len(i.citations)
    /\ \A j, k \in DOMAIN i.blocks : IsTask(i.blocks[j]) /\ IsTask(i.blocks[k]) => j = k
    /\ Fits(i)

EquivalentText(i) == [made |-> "derived", of |-> i.blocks]

\* The first block that is a hint or a task decides.
Decisive(i) == {k \in DOMAIN i.blocks : i.blocks[k].type = "hint" \/ IsTask(i.blocks[k])}
HelpOf(i) ==
    IF Decisive(i) = {} THEN "explanation"
    ELSE IF i.blocks[Min(Decisive(i))].type = "hint" THEN "hint" ELSE "guided_question"
ModeFor(i) ==
    CASE i.situation = "insufficient_evidence" -> "abstain"
      [] i.situation = "ambiguous" -> "clarify"
      [] OTHER -> HelpOf(i)

AllowedActions(i) ==
    IF i.situation \in {"insufficient_evidence", "ambiguous"} THEN {}
    ELSE {"explain"}
         \cup (IF i.situation = "grounded" THEN {} ELSE {"another_hint"})
         \cup (IF i.citations = << >> THEN {} ELSE {"view_source"})

-----------------------------------------------------------------------------
(* Drafts: rag.py.                                                         *)

\* The modes of a draft.
Modes == {"hint", "guided_question", "explanation", "abstain", "clarify"}
AnyDraft ==
    [mode : Modes, answer : [made : {"derived", "canonical", "prose", "blank"}, of : Seq(AnyBlock)],
     citations : Seq(AnyCitation), grounded : BOOLEAN, intervention : AnyIntervention \cup {None}]
Draft(mode, answer, citations, grounded, intervention) ==
    [mode |-> mode, answer |-> answer, citations |-> citations, grounded |-> grounded,
     intervention |-> intervention]

DraftFromIntervention(i) == Draft(ModeFor(i), EquivalentText(i), i.citations, i.grounded, i)

Canonical == [made |-> "canonical", of |-> << >>]
Abstention == Draft("abstain", Canonical, << >>, FALSE, None)

ValidDraft(d) ==
    /\ Len(d.citations) <= MaxCitations
    /\ d.intervention # None => Coherent(d.intervention)

-----------------------------------------------------------------------------
(* The adapter: ChatCompletionsTutorModel.generate.                        *)

InRange_Unsigned(n, count) == n < count
InRange_FromOne(n, count) == 0 < n /\ n < count
InRange(n, count) == 0 <= n /\ n < count

\* Indexes without a citation are dropped; all citations stand in when none
\* is left.
CleanIndexes(indexes, count) ==
    LET valid == Kept(indexes, {k \in DOMAIN indexes : InRange(indexes[k], count)})
    IN  IF valid # << >> THEN valid
        ELSE IF count > 0 THEN [k \in 1 .. count |-> k - 1] ELSE <<0>>

CleanBlock(b, count) ==
    [b EXCEPT !.form = IF @ = "untidy" THEN "exact" ELSE @,
              !.indexes = IF b.type = "sources" THEN CleanIndexes(@, count) ELSE @]

Cleaned(i) ==
    LET kept == Kept(i.blocks, {k \in DOMAIN i.blocks : i.blocks[k].type \in Known})
    IN  [i EXCEPT !.blocks = [k \in DOMAIN kept |-> CleanBlock(kept[k], Len(i.citations))]]

\* Gemini sends a list of blocks for each type and no version.
Merged(i) ==
    LET of(type) == Kept(i.blocks, {k \in DOMAIN i.blocks : i.blocks[k].type = type})
    IN  [i EXCEPT !.version = "v2",
                  !.blocks = of("explanation") \o of("hint") \o of("diagram") \o of("question")
                             \o of("activity") \o of("sources")]

Structured == reply.form = "blocks" \/ (reply.form = "lists" /\ reply.gemini)

\* The interventions that generate tries, in order.
Tried ==
    IF reply.form = "lists" THEN <<Cleaned(Merged(reply.content))>>
    ELSE <<Cleaned(reply.content), reply.content>>

Parsed ==
    LET coherent == {k \in DOMAIN Tried : Coherent(Tried[k])}
    IN  CASE Structured /\ coherent # {} -> DraftFromIntervention(Tried[Min(coherent)])
          [] reply.form = "draft" /\ ValidDraft(reply.content) -> reply.content
          [] OTHER -> None

Fail(code) ==
    /\ stage' = code
    /\ UNCHANGED <<reply, evidence, draft, row, screen>>

Reply ==
    /\ stage = "asked"
    /\ Parsed # None
    /\ draft' = Parsed
    /\ stage' = "generated"
    /\ UNCHANGED <<reply, evidence, row, screen>>

\* The answer of a draft has a bounded length, and texts have no length here:
\* one that the model made up, or that its blocks amount to, may be too long.
MayBeTooLong(d) == d.answer.made \in {"derived", "prose"}

ReplyInvalid ==
    /\ stage = "asked"
    /\ Parsed # None => MayBeTooLong(Parsed)
    /\ Fail("MODEL_OUTPUT_INVALID")

-----------------------------------------------------------------------------
(* The validator: EvidenceResponseValidator.validate.  That the evidence   *)
(* is of one course and corpus is Conversations' concern.                  *)

Distinct(citations) == \A j, k \in DOMAIN citations : citations[j].chunk = citations[k].chunk => j = k

Agrees_AllowsRepeats(d) ==
    d.intervention # None => d = DraftFromIntervention(d.intervention)
Agrees(d) ==
    d.intervention # None =>
        /\ d = DraftFromIntervention(d.intervention)
        /\ Distinct(d.intervention.citations)

Clarifies(d) == d.intervention # None /\ d.intervention.situation = "ambiguous"

\* A difference in case is replaced by the one span of the source.
Verbatim_KeepsCase(c) == c
Verbatim(c) == [c EXCEPT !.quote = IF @ = "recased" THEN "verbatim" ELSE @]

Supported(c) == c.chunk \in evidence /\ c.quote \in {"verbatim", "recased"}

\* One citation for each chunk, the first.
Repaired(citations) ==
    LET seen(k) == \E j \in 1 .. k - 1 : citations[j].chunk = citations[k].chunk
        kept == Kept(citations, {k \in DOMAIN citations : ~ seen(k)})
    IN  [k \in DOMAIN kept |-> Verbatim(kept[k])]

Accepted(d) ==
    LET citations == Repaired(d.citations)
    IN  IF d.intervention = None THEN [d EXCEPT !.citations = citations]
        ELSE DraftFromIntervention([d.intervention EXCEPT !.citations = citations])

Answerable(d) ==
    /\ evidence # {}
    /\ d.grounded
    /\ d.citations # << >>
    /\ d.answer.made # "blank"
    /\ \A c \in ToSet(d.citations) : Supported(c)

AbstentionOf_Kept(d) == d
AbstentionOf(d) == Abstention

\* A draft that is revalidated: what validate makes of it, None when it raises.
Validated(d) ==
    CASE ~ Agrees(d) -> None
      [] Agrees(d) /\ Clarifies(d) -> d
      [] Agrees(d) /\ ~ Clarifies(d) /\ d.mode = "abstain" ->
            IF Uncited(d) THEN AbstentionOf(d) ELSE None
      [] OTHER -> IF Answerable(d) THEN Accepted(d) ELSE None

Validate ==
    /\ stage = "generated"
    /\ Validated(draft) # None
    /\ draft' = Validated(draft)
    /\ stage' = "validated"
    /\ UNCHANGED <<reply, evidence, row, screen>>

Reject == stage = "generated" /\ Validated(draft) = None /\ Fail("MODEL_OUTPUT_INVALID")

-----------------------------------------------------------------------------
(* The row: ConversationService.complete.                                  *)

\* The primary key of citations and its foreign key to the evidence.
Storable == Distinct(draft.citations) /\ \A c \in ToSet(draft.citations) : c.chunk \in evidence

Store ==
    /\ row' = draft
    /\ stage' = "stored"
    /\ UNCHANGED <<reply, evidence, draft, screen>>

Complete == stage = "validated" /\ IF Storable THEN Store ELSE Fail("PERSISTENCE_UNAVAILABLE")

-----------------------------------------------------------------------------
(* The screen: the view of the row, the OpenUI adapter and RichResponse.   *)

\* The chunks of the citation views.
Viewed == {c.chunk : c \in ToSet(row.citations)} \cap evidence

\* Every card finds its citation and its view, or the adapter gives up.
Presentable(i) ==
    \A b \in ToSet(i.blocks) : \A n \in ToSet(b.indexes) :
        0 <= n /\ n < Len(i.citations) /\ i.citations[n + 1].chunk \in Viewed

\* Whether the citations are listed below the answer.
Listed_TextOnly(i, kind) == i.citations # << >> /\ kind = "text"
Listed(i, kind) ==
    /\ i.citations # << >>
    /\ kind = "text" \/ \A b \in ToSet(i.blocks) : b.type # "sources"

\* details[aria-label="Fuentes"]: the list, or the block of cards.
HasSources(i, kind) == Listed(i, kind) \/ (kind = "rich" /\ \E b \in ToSet(i.blocks) : b.type = "sources")

ShowIntervention(i, rich) ==
    LET kind == IF rich /\ Presentable(i) THEN "rich" ELSE "text"
    IN  [wanted |-> rich, kind |-> kind, sources |-> HasSources(i, kind), actions |-> AllowedActions(i)]

ShowAnswer(rich) ==
    [wanted |-> rich, kind |-> "plain", sources |-> row.citations # << >>, actions |-> {}]

\* rich: the panel's richEnabled.
Show ==
    /\ stage = "stored"
    /\ \E rich \in BOOLEAN :
         screen' = IF row.intervention = None THEN ShowAnswer(rich)
                   ELSE ShowIntervention(row.intervention, rich)
    /\ stage' = "shown"
    /\ UNCHANGED <<reply, evidence, draft, row>>

ASSUME AnswersAssumption ==
    /\ MaxBlocks \in Nat /\ MaxCitations \in Nat
    /\ \A r \in Replies :
         /\ r \in [form : {"blocks", "lists", "draft"}, gemini : BOOLEAN, content : {r.content}]
         /\ r.content \in IF r.form = "draft" THEN AnyDraft ELSE AnyIntervention
    /\ EvidenceSets \subseteq SUBSET Chunks
    /\ None \notin AnyIntervention \cup AnyDraft

Asked ==
    /\ draft = None
    /\ row = None
    /\ screen = None
    /\ stage = "asked"

AnswerInit == reply \in Replies /\ evidence \in EvidenceSets /\ Asked

AnswerNext == Reply \/ ReplyInvalid \/ Validate \/ Reject \/ Complete \/ Show

AnswerSpec == AnswerInit /\ [][AnswerNext]_answerVars

-----------------------------------------------------------------------------
(* Properties.                                                             *)

\* What parseIntervention of the web accepts: the same rules, and indexes
\* that are not negative.
WebAccepts(i) == Coherent(i) /\ \A b \in ToSet(i.blocks) : \A n \in ToSet(b.indexes) : n >= 0

\* Cleaning a reply repairs what is broken and nothing else: what both
\* contracts accept as it was sent is passed on as it was sent.
CleaningFaithful ==
    /\ stage = "generated"
    /\ reply.form = "blocks"
    /\ WebAccepts(reply.content)
    => draft.intervention = reply.content

\* The validator replaces citations without parsing the intervention again:
\* the row still keeps the contract, and its columns still say the same.
StoredCoherent ==
    row # None /\ row.intervention # None =>
            Coherent(row.intervention) /\ row = DraftFromIntervention(row.intervention)

\* What is stored is grounded: every quote stands word for word in a chunk that
\* was retrieved, and without a citation nothing is claimed, the answer being
\* the application's own abstention or one question.
AnswerGrounded ==
    row # None =>
        /\ \A c \in ToSet(row.citations) : c.chunk \in evidence /\ c.quote = "verbatim"
        /\ row.citations = << >> =>
             \/ row = Abstention
             \/ row.intervention # None /\ Len(row.intervention.blocks) = 1 /\ row.mode = "clarify"

\* The screen holds what the answer promises: one that came through the cleaning
\* is shown as blocks and cards, because the adapter finds a citation for every
\* card, and where "Ver fuente" is offered there is something for it to open.
ShownWhole ==
    stage = "shown" =>
        /\ screen.wanted /\ row.intervention # None /\ Structured => screen.kind = "rich"
        /\ "view_source" \in screen.actions => screen.sources
=============================================================================
