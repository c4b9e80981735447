---------------------------- MODULE MCDataPaths ----------------------------
(* Small inputs of the paths that data takes: a chosen file to the API and *)
(* onto the screen, a document into chunks, and an answer of the model to  *)
(* the student.  None of them reads what another one writes, so that a     *)
(* behaviour is of one of them, while the others wait.                     *)
EXTENDS Chunking, Answers, MaterialPanel, TLC

VARIABLE path

CONSTANT PageLength

\* One page, or two short ones.
TextsUpTo(n) == UNION {[1 .. k -> {"ink", "space"}] : k \in 0 .. n}
Papers ==
    {<< >>}
    \cup {<<t>> : t \in TextsUpTo(PageLength)}
    \cup {<<t, u>> : t \in [1 .. 2 -> Characters], u \in TextsUpTo(2)}

Block(type, form, indexes) == [type |-> type, form |-> form, indexes |-> indexes]
Plain(type) == Block(type, "exact", << >>)
Cite(chunk, quote) == [chunk |-> chunk, quote |-> quote]

SingleBlocks ==
    {Plain(t) : t \in Known \cup {"stray"}}
    \cup {Block("explanation", f, << >>) : f \in {"untidy", "broken"}}
    \cup {Block("sources", "exact", is) : is \in {<<-1>>, <<0>>, <<1>>, <<-1, 1>>, <<0, 1>>, <<1, 0>>}}
    \cup {Block("sources", "untidy", <<0>>)}

BlockLists ==
    {<< >>} \cup {<<b>> : b \in SingleBlocks} \cup {<<b, c>> : b, c \in SingleBlocks}

CitationLists ==
    {<< >>}
    \cup {<<Cite("k1", q)>> : q \in {"verbatim", "recased", "altered"}}
    \cup {<<Cite(c, "verbatim"), Cite(d, q)>> : c, d \in {"k1", "k2"}, q \in {"verbatim", "recased"}}

Interventions ==
    {i \in [version : {"v1", "v2"},
            situation : {"ambiguous", "insufficient_evidence", "entry", "grounded"},
            blocks : BlockLists, citations : CitationLists, grounded : BOOLEAN] :
        i.version = "v1" => \E k \in DOMAIN i.blocks : i.blocks[k].type = "activity"}

\* A sample that agrees with the contract, for the replies that carry one.
Samples ==
    {[version |-> "v2", situation |-> s, blocks |-> <<b>>, citations |-> cs, grounded |-> cs # << >>] :
        s \in {"ambiguous", "insufficient_evidence", "entry"},
        b \in {Plain("question"), Plain("hint"), Block("sources", "exact", <<0>>), Block("sources", "exact", <<-1>>)},
        cs \in CitationLists}

Prose == {[made |-> m, of |-> << >>] : m \in {"prose", "blank"}}

\* Replies that follow the schema, and those of providers that ignore it.
MCReplies ==
    {[form |-> "blocks", gemini |-> FALSE, content |-> i] : i \in Interventions}
    \cup {[form |-> "lists", gemini |-> g, content |-> [i EXCEPT !.blocks = <<b>> \o @]] :
             g \in BOOLEAN, i \in Samples, b \in {Plain("hint"), Plain("question"), Plain("sources")}}
    \cup {[form |-> "draft", gemini |-> FALSE, content |-> Draft(m, a, cs, g, None)] :
             m \in Modes, a \in Prose, cs \in CitationLists, g \in BOOLEAN}
    \cup {[form |-> "draft", gemini |-> FALSE, content |-> d] :
             d \in UNION {{DraftFromIntervention(i), [DraftFromIntervention(i) EXCEPT !.grounded = ~ @],
                           [DraftFromIntervention(i) EXCEPT !.mode = "explanation"]} : i \in Samples}}

EvidenceChoices == {{}, {"k1"}, {"k1", "k2"}}

\* The answer that waits while a document is cut.
Waiting == [form |-> "draft", gemini |-> FALSE,
            content |-> Draft("abstain", [made |-> "prose", of |-> << >>], << >>, FALSE, None)]

\* A path that waits has one input.
MCInit ==
    /\ path \in {"file", "document", "answer"}
    /\ Init
    /\ ChunkInit /\ (path # "document" => pages = << >> /\ size = 2 /\ overlap = 0)
    /\ \/ path = "answer" /\ AnswerInit
       \/ path # "answer" /\ reply = Waiting /\ evidence = {} /\ Asked

\* An empty document is cut while its path waits: that ends at once.
MCNext ==
    /\ \/ ChunkNext /\ UNCHANGED <<answerVars, vars>>
       \/ /\ outcome # "cutting"
          /\ \/ path = "answer" /\ AnswerNext /\ UNCHANGED <<chunkVars, vars>>
             \/ path = "file" /\ Next /\ UNCHANGED <<chunkVars, answerVars>>
    /\ UNCHANGED path

\* A panel that nobody opened has nothing that must happen.
MCSpec ==
    /\ MCInit
    /\ [][MCNext]_<<chunkVars, answerVars, vars, path>>
    /\ ChunkFairness
    /\ Fairness
=============================================================================
