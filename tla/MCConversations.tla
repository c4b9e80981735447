-------------------------- MODULE MCConversations --------------------------
(* Small instances of a conversation for TLC.                              *)
EXTENDS Conversations, TLC

\* Idempotency keys and corpora are interchangeable: used by the runs that
\* check no liveness.
Symmetry == Permutations(Keys) \cup Permutations(Corpora)
=============================================================================
