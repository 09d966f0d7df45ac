-------------------------- MODULE MC_GuidedEpisode --------------------------
(* Small instances of GuidedEpisode for TLC. *)
EXTENDS GuidedEpisode
=============================================================================
