--------------------------- MODULE AbstractTurns ---------------------------
(***************************************************************************)
(* What a conversation promises to its owner, with no task, deadline or    *)
(* thread in sight: turns are asked one at a time, each is settled exactly *)
(* once by an answer or by a failure, and a settled turn never changes.    *)
(* An answer cites only what was found for that turn.                      *)
(***************************************************************************)
EXTENDS Naturals

CONSTANTS Last, Chunks

VARIABLES
    asked,    \* how many turns there are
    outcome,  \* what became of each of them
    cites     \* the fragments its answer rests on

vars == <<asked, outcome, cites>>

Turns == 1 .. Last

Init ==
    /\ asked = 0
    /\ outcome = [t \in Turns |-> "none"]
    /\ cites = [t \in Turns |-> {}]

\* A turn is asked only when every earlier one is settled.
Ask ==
    /\ asked < Last
    /\ \A t \in 1 .. asked : outcome[t] # "open"
    /\ asked' = asked + 1
    /\ outcome' = [outcome EXCEPT ![asked + 1] = "open"]
    /\ UNCHANGED cites

\* The overdue turn before it fails in the same step.
AskAfterFailing(t) ==
    /\ asked < Last
    /\ t = asked
    /\ t > 0
    /\ outcome[t] = "open"
    /\ asked' = asked + 1
    /\ outcome' = [outcome EXCEPT ![t] = "failed", ![asked + 1] = "open"]
    /\ UNCHANGED cites

\* A factual answer rests on something found, an abstention on nothing.
Answer(t, mode, found) ==
    /\ outcome[t] = "open"
    /\ mode = "factual" => found # {}
    /\ mode = "abstain" => found = {}
    /\ outcome' = [outcome EXCEPT ![t] = mode]
    /\ cites' = [cites EXCEPT ![t] = found]
    /\ UNCHANGED asked

Fail(t) ==
    /\ outcome[t] = "open"
    /\ outcome' = [outcome EXCEPT ![t] = "failed"]
    /\ UNCHANGED <<asked, cites>>

Next ==
    \/ Ask
    \/ \E t \in Turns : AskAfterFailing(t) \/ Fail(t)
    \/ \E t \in Turns, mode \in {"factual", "abstain", "clarify"}, found \in SUBSET Chunks :
         Answer(t, mode, found)

Spec == Init /\ [][Next]_vars

\* No turn stays open for ever.
FairSpec == Spec /\ \A t \in Turns : WF_vars(Fail(t))
=============================================================================
