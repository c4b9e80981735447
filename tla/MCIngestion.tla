---------------------------- MODULE MCIngestion ----------------------------
(* Small instances of the ingestion pipeline for TLC.                      *)
EXTENDS IngestionJobs, TLC

\* Workers and stream identifiers are interchangeable: used by the runs that
\* check no liveness.
Symmetry == Permutations(Workers) \cup Permutations(EntryIds)
=============================================================================
