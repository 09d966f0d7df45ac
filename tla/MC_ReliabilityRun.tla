-------------------------- MODULE MC_ReliabilityRun --------------------------
(* Small instances of ReliabilityRun for TLC. *)
EXTENDS ReliabilityRun

\* The first subtask names a file, the second one that file and a new one;
\* "other" is a file that no subtask names.
MCPatches == {{"file", "other"}, {"new"}}
MCTouched == <<{"file"}, {"file", "new"}>>
=============================================================================
