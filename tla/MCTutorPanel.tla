---------------------------- MODULE MCTutorPanel ----------------------------
(* Small instances of the tutor panel for TLC.                             *)
EXTENDS TutorPanel, TLC

CONSTANT Old  \* the key of a turn from before the panel was mounted, or None

MCPast == [c \in Existing |-> Old]

\* The other keys are interchangeable: used by the runs that check no liveness.
Symmetry == Permutations(Keys \ {Old})
=============================================================================
