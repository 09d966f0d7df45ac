--------------------------- MODULE PublishingGate ---------------------------
(***************************************************************************)
(* What an episode session promises about publishing: it is locked unless  *)
(* the owner approved the very audio the session has.  GuidedEpisode       *)
(* implements it.                                                          *)
(***************************************************************************)
CONSTANT NoAudio

VARIABLES
    audio,      \* the session's final audio
    approved,   \* the audio of the last approval
    eligible    \* owner_approval_status is publishing_eligible

vars == <<audio, approved, eligible>>

Init == audio = NoAudio /\ approved = NoAudio /\ ~eligible

\* The audio is replaced or withdrawn: nobody has heard what is there now.
Replace == audio' # audio /\ ~eligible' /\ UNCHANGED approved

Approve == audio # NoAudio /\ approved' = audio /\ eligible' /\ UNCHANGED audio

Lock == ~eligible' /\ UNCHANGED <<audio, approved>>

Next == Replace \/ Approve \/ Lock

Spec == Init /\ [][Next]_vars
=============================================================================
