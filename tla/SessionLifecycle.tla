-------------------------- MODULE SessionLifecycle --------------------------
(***************************************************************************)
(* What a chat session promises to the browser, without threads, files or  *)
(* queues: its persisted status and whether a run is driving it.           *)
(* ChatController implements it for one browser window.                    *)
(***************************************************************************)
VARIABLES
    status,     \* AppSession.status
    driven      \* a run of the workflow: "no", "starting" (the first one) or "yes"

vars == <<status, driven>>

Init == status = "new" /\ driven = "no"

\* A session starts its first run, or could not reach CloneCast.
Create ==
    /\ status = "new"
    /\ \/ status' = "running" /\ driven' = "starting"
       \/ status' = "failed" /\ UNCHANGED driven

\* The first run comes to life, or its start raises: then the session goes on
\* claiming that it is running until the process ends.
Begin == driven = "starting" /\ driven' = "yes" /\ UNCHANGED status
Lose == driven = "starting" /\ driven' = "no" /\ UNCHANGED status

\* The run needs the user; the user answers.
Ask == driven = "yes" /\ status = "running" /\ status' = "awaiting_input" /\ UNCHANGED driven
Answer == driven = "yes" /\ status = "awaiting_input" /\ status' = "running" /\ UNCHANGED driven

\* The run ends and records how, then it is gone.
Settle ==
    /\ driven = "yes" /\ status = "running"
    /\ status' \in {"completed", "failed"} /\ UNCHANGED driven
Release ==
    /\ driven = "yes" /\ status \in {"completed", "failed"}
    /\ driven' = "no" /\ UNCHANGED status

\* Only a session that nobody drives and that is not finished gets a new run.
Resume ==
    /\ driven = "no" /\ status \in {"failed", "awaiting_input"}
    /\ status' = "running" /\ driven' = "yes"

\* The process died: no run is left, and no session claims to be running.
Interrupt ==
    /\ status # "new"
    /\ status' = IF status = "running" THEN "failed" ELSE status
    /\ driven' = "no"

Next ==
    \/ Create \/ Begin \/ Lose \/ Ask \/ Answer \/ Settle \/ Release \/ Resume \/ Interrupt

Spec == Init /\ [][Next]_vars /\ WF_vars(Begin \/ Lose \/ Ask \/ Settle \/ Release)
=============================================================================
