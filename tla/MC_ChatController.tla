------------------------- MODULE MC_ChatController -------------------------
(* Small instances of ChatController for TLC. *)
EXTENDS ChatController

CONSTANTS c1, c2

\* The four kinds of prompt: a file, a choice that may be prefilled, a voice
\* that may need a second confirmation, the start of generation.
MCPrompts == <<"studio", "research", "voice", "start_generation">>
MCShortPrompts == <<"research", "voice">>
MCThreePrompts == <<"studio", "research", "voice">>

\* One browser window, which sends one request at a time.
MCAnswers == {c1} \X {"start", "resume", "answer"}

\* A second window that does everything but start or resume a run.
MCTwoWindows ==
    ({c1} \X {"start", "resume"}) \cup ({c2} \X {"answer", "upload", "cancel", "unlock"})

\* Two windows that both resume.
MCTwoResume == MCAnswers \cup {<<c2, "resume">>}
=============================================================================
