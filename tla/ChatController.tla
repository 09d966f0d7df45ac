--------------------------- MODULE ChatController ---------------------------
(***************************************************************************)
(* One chat session of the AutoCorp app server (app/chat_controller.py).   *)
(*                                                                         *)
(* The HTTP handlers run in the server's thread pool, one thread per       *)
(* request in flight (Clients).  The guided episode workflow of the        *)
(* session runs in a background worker thread and talks to the browser     *)
(* through two callbacks, _resolve_input and _handle_output.  They share   *)
(*   - the session's JSON file (disk), which everybody reads whole, changes *)
(*     in a private copy and writes back whole, with no lock;              *)
(*   - the in-memory registry _HANDLES, one EngineHandle per session;      *)
(*   - the answer queue and the cancel event of that handle.               *)
(* A step here is what happens between two of those shared accesses.       *)
(*                                                                         *)
(* The transcript, the error text and the summary are left out.  "held"    *)
(* stands for the values the session already has for a field: uploads not  *)
(* consumed yet and values prefilled from the first message.               *)
(***************************************************************************)
EXTENDS Integers, Sequences, FiniteSets

CONSTANTS
    Clients,        \* request threads of the server
    Requests,       \* pairs <<client, request>>: which client sends which request
    Prompts,        \* fields the workflow asks for, in order
    UploadFields,   \* fields answered with a file (research, script)
    PrefillFields,  \* fields the first message may answer (studio, duration, ...)
    DraftField,     \* the field whose answer may need a second confirmation (voice)
    StopField,      \* the field whose answer may end the run early (start_generation)
    PastedField,    \* the field whose pasted answer a resume recovers (research)
    MaxWorkers,     \* bound: worker threads started by one server process
    MaxRestarts,    \* bound: server restarts
    MaxQueue        \* bound: a queue this long takes no further answer or cancel request

Fields == {Prompts[i] : i \in DOMAIN Prompts}
NoField == "none"
Cancelled == "_CANCELLED"
NoHandle == 0
Workers == 1..MaxWorkers
RequestKinds == {"start", "resume", "answer", "cancel", "upload", "unlock"}

ASSUME PromptsAssumption == Prompts \in Seq(STRING)
ASSUME FieldsAssumption ==
    /\ NoField \notin Fields /\ Cancelled \notin Fields
    /\ UploadFields \subseteq Fields /\ PrefillFields \subseteq Fields
ASSUME ClientsAssumption == IsFiniteSet(Clients)
ASSUME RequestsAssumption == Requests \subseteq Clients \X RequestKinds
ASSUME BoundsAssumption == MaxWorkers \in Nat /\ MaxRestarts \in Nat /\ MaxQueue \in Nat

VARIABLES
    disk,       \* the AppSession in the session's JSON file
    registry,   \* _HANDLES[session]: the registered handle, or NoHandle
    spawned,    \* worker threads started by this process; handle t belongs to thread t
    queue,      \* answer_queue of every handle
    cancelSet,  \* cancel_event of every handle
    wpc, wapp, whandle, wpos,   \* worker threads: control, copy of disk, handle used, prompts answered
    cpc, capp, chandle,         \* request threads: control, copy of disk, handle found
    progress,   \* prompts whose answers the episode record on disk already holds
    restarts,
    lost        \* history: a start raised after it had saved, and no run was registered since

handleVars == <<registry, spawned, queue, cancelSet>>
workerVars == <<wpc, wapp, whandle, wpos, progress>>
clientVars == <<cpc, capp, chandle>>
vars == <<disk, handleVars, workerVars, clientVars, restarts, lost>>

Statuses == {"new", "running", "awaiting_input", "completed", "failed"}
AppSession == [status : Statuses, pending : Fields \cup {NoField}, linked : BOOLEAN,
               held : SUBSET Fields]
NewSession == [status |-> "new", pending |-> NoField, linked |-> FALSE, held |-> {}]

WorkerPcs == {"none", "created", "start", "boot", "confirm", "run", "output", "ready", "ask",
              "wait", "succeed", "error", "final", "dead"}
ClientPcs == {"idle", "voices", "spawn", "launch", "resume", "resuming", "recovered",
              "reloaded", "submit", "interpret", "put", "cancel", "cancelLoaded",
              "cancelPut", "upload", "unlock"}

DiskOK == disk \in AppSession
HandlesOK ==
    /\ registry \in Workers \cup {NoHandle} /\ spawned \in 0..MaxWorkers
    /\ queue \in [Workers -> Seq(Fields \cup {Cancelled})]
    /\ cancelSet \in [Workers -> BOOLEAN]
WorkersOK ==
    /\ wpc \in [Workers -> WorkerPcs] /\ wapp \in [Workers -> AppSession]
    /\ whandle \in [Workers -> Workers \cup {NoHandle}]
    /\ wpos \in [Workers -> 0..Len(Prompts)]
ClientsOK ==
    /\ cpc \in [Clients -> ClientPcs] /\ capp \in [Clients -> AppSession]
    /\ chandle \in [Clients -> Workers \cup {NoHandle}]
BoundsOK == progress \in 0..Len(Prompts) /\ restarts \in 0..MaxRestarts /\ lost \in BOOLEAN

TypeOK == DiskOK /\ HandlesOK /\ WorkersOK /\ ClientsOK /\ BoundsOK

Init ==
    /\ disk = NewSession
    /\ registry = NoHandle /\ spawned = 0
    /\ queue = [t \in Workers |-> <<>>] /\ cancelSet = [t \in Workers |-> FALSE]
    /\ wpc = [t \in Workers |-> "none"] /\ wapp = [t \in Workers |-> NewSession]
    /\ whandle = [t \in Workers |-> NoHandle] /\ wpos = [t \in Workers |-> 0]
    /\ cpc = [c \in Clients |-> "idle"] /\ capp = [c \in Clients |-> NewSession]
    /\ chandle = [c \in Clients |-> NoHandle]
    /\ progress = 0 /\ restarts = 0 /\ lost = FALSE

(***************************************************************************)
(* Request threads.                                                        *)
(***************************************************************************)
Receives(c, kind) ==
    /\ cpc[c] = "idle" /\ <<c, kind>> \in Requests
    /\ kind # "start" => disk.status # "new"
    /\ kind \in {"answer", "cancel"} => \A t \in Workers : Len(queue[t]) < MaxQueue

Loads(c, pc) ==
    /\ cpc' = [cpc EXCEPT ![c] = pc] /\ capp' = [capp EXCEPT ![c] = disk]

Goes(c, pc) == cpc' = [cpc EXCEPT ![c] = pc] /\ UNCHANGED capp

Returns(c) ==
    /\ cpc' = [cpc EXCEPT ![c] = "idle"] /\ capp' = [capp EXCEPT ![c] = NewSession]
    /\ chandle' = [chandle EXCEPT ![c] = NoHandle]

\* Starts and resumes that have not created their thread yet: part of the bound.
SpawnPcs == {"voices", "spawn", "resume", "resuming", "recovered", "reloaded"}
Spawning == {c \in Clients : cpc[c] \in SpawnPcs}
CanSpawn == spawned + Cardinality(Spawning) < MaxWorkers

\* start_session up to its save: CloneCast is unreachable, or the session is
\* saved as running with the fields the first message already answered.
Start(c) ==
    /\ Receives(c, "start") /\ disk.status = "new" /\ CanSpawn
    /\ \/ /\ disk' = [disk EXCEPT !.status = "failed"]
          /\ UNCHANGED clientVars
       \/ /\ \E given \in SUBSET PrefillFields :
                disk' = [disk EXCEPT !.status = "running", !.held = given]
          /\ Goes(c, "voices") /\ UNCHANGED chandle
    /\ UNCHANGED <<handleVars, workerVars, restarts, lost>>

\* list_voices raises something else than an EpisodeBuildError (a command that
\* timed out, a missing interpreter): the request ends, the record stays.
StartRaises(c) ==
    /\ cpc[c] = "voices" /\ Returns(c) /\ lost' = TRUE
    /\ UNCHANGED <<disk, handleVars, workerVars, restarts>>

\* _register: the handle is in the registry, its thread does not run yet.
Register(c) ==
    /\ cpc[c] \in {"voices", "spawn"}
    /\ spawned' = spawned + 1 /\ registry' = spawned' /\ lost' = FALSE
    /\ wpc' = [wpc EXCEPT ![spawned'] = "created"]
    /\ chandle' = [chandle EXCEPT ![c] = spawned'] /\ Goes(c, "launch")
    /\ UNCHANGED <<disk, queue, cancelSet, wapp, whandle, wpos, progress, restarts>>

\* thread.start().
Launch(c) ==
    /\ cpc[c] = "launch" /\ Returns(c)
    /\ wpc' = [wpc EXCEPT ![chandle[c]] = "start"]
    /\ UNCHANGED <<disk, handleVars, wapp, whandle, wpos, progress, restarts, lost>>

Resumable(app) == app.status \in {"failed", "awaiting_input"} /\ app.linked

ResumeLoad(c) ==
    /\ Receives(c, "resume") /\ CanSpawn
    /\ Resumable(disk) /\ Loads(c, "resume")
    /\ UNCHANGED <<disk, handleVars, workerVars, chandle, restarts, lost>>

NeverActive == FALSE
HasActiveWorker == registry # NoHandle

ResumeCheck(c) ==
    /\ cpc[c] = "resume"
    /\ IF HasActiveWorker THEN Returns(c)
       ELSE Goes(c, "resuming") /\ UNCHANGED chandle
    /\ UNCHANGED <<disk, handleVars, workerVars, restarts, lost>>

\* A look-up of CloneCast raises before anything was saved.
ResumeRaises(c) ==
    /\ cpc[c] = "resuming" /\ Returns(c)
    /\ UNCHANGED <<disk, handleVars, workerVars, restarts, lost>>

\* _recover_saved_pasted_research: the pasted answer that failed is put into the
\* episode record, and the session's older copy is written with a message.
ResumeRecover(c) ==
    /\ cpc[c] = "resuming"
    /\ progress < Len(Prompts) /\ Prompts[progress + 1] = PastedField
    /\ progress' = progress + 1
    /\ disk' = capp[c] /\ Goes(c, "recovered")
    /\ UNCHANGED <<handleVars, wpc, wapp, whandle, wpos, chandle, restarts, lost>>

ResumeReload(c) ==
    /\ cpc[c] = "recovered" /\ Loads(c, "reloaded")
    /\ UNCHANGED <<disk, handleVars, workerVars, chandle, restarts, lost>>

\* The copy loaded before the look-ups, or after the recovery, is written back.
ResumeSave(c) ==
    /\ cpc[c] \in {"resuming", "reloaded"}
    /\ disk' = [capp[c] EXCEPT !.status = "running"]
    /\ Goes(c, "spawn")
    /\ UNCHANGED <<handleVars, workerVars, chandle, restarts, lost>>

AnswerLoad(c) ==
    /\ Receives(c, "answer")
    /\ disk.status = "awaiting_input" /\ disk.pending # NoField
    /\ Loads(c, "submit")
    /\ UNCHANGED <<disk, handleVars, workerVars, chandle, restarts, lost>>

AnswerHandle(c) ==
    /\ cpc[c] = "submit"
    /\ IF registry = NoHandle THEN Returns(c)
       ELSE chandle' = [chandle EXCEPT ![c] = registry] /\ Goes(c, "interpret")
    /\ UNCHANGED <<disk, handleVars, workerVars, restarts, lost>>

AnswerLeavesQuestion(c) ==
    /\ cpc[c] = "interpret"
    /\ \/ Returns(c)
       \/ Goes(c, "put") /\ UNCHANGED chandle
    /\ UNCHANGED <<disk, handleVars, workerVars, restarts, lost>>

\* _interpret_answer: refused; a draft voice to confirm (or the voice list
\* again), which sends nothing to the worker; or a value for the worker, which
\* uses up the upload it names.
AnswerInterpret(c) ==
    LET field == capp[c].pending
    IN  /\ cpc[c] = "interpret"
        /\ \/ Returns(c) /\ UNCHANGED disk
           \/ /\ field = DraftField
              /\ disk' = [capp[c] EXCEPT !.status = "awaiting_input"]
              /\ Returns(c)
           \/ /\ \E used \in {{}, {field} \cap UploadFields} :
                    disk' = [capp[c] EXCEPT !.status = "running", !.pending = NoField,
                                            !.held = @ \ used]
              /\ Goes(c, "put") /\ UNCHANGED chandle
        /\ UNCHANGED <<handleVars, workerVars, restarts, lost>>

AnswerPut(c) ==
    /\ cpc[c] = "put"
    /\ queue' = [queue EXCEPT ![chandle[c]] = Append(@, capp[c].pending)]
    /\ Returns(c)
    /\ UNCHANGED <<disk, registry, spawned, cancelSet, workerVars, restarts, lost>>

CancelHandle(c) ==
    /\ Receives(c, "cancel")
    /\ chandle' = [chandle EXCEPT ![c] = registry] /\ Goes(c, "cancel")
    /\ UNCHANGED <<disk, handleVars, workerVars, restarts, lost>>

CancelLoad(c) ==
    /\ cpc[c] = "cancel" /\ Loads(c, "cancelLoaded")
    /\ UNCHANGED <<disk, handleVars, workerVars, chandle, restarts, lost>>

CancelSave(c) ==
    /\ cpc[c] = "cancelLoaded"
    /\ IF chandle[c] # NoHandle
       THEN disk' = capp[c] /\ Goes(c, "cancelPut") /\ UNCHANGED chandle
       ELSE /\ disk' = [capp[c] EXCEPT !.status = "failed", !.pending = NoField]
            /\ Returns(c)
    /\ UNCHANGED <<handleVars, workerVars, restarts, lost>>

CancelYields(c) ==
    /\ cpc[c] = "cancelPut"
    /\ cancelSet' = [cancelSet EXCEPT ![chandle[c]] = TRUE]
    /\ queue' = [queue EXCEPT ![chandle[c]] = IF @ = <<>> THEN <<Cancelled>> ELSE @]
    /\ Returns(c)
    /\ UNCHANGED <<disk, registry, spawned, workerVars, restarts, lost>>

CancelPut(c) ==
    /\ cpc[c] = "cancelPut"
    /\ cancelSet' = [cancelSet EXCEPT ![chandle[c]] = TRUE]
    /\ queue' = [queue EXCEPT ![chandle[c]] = Append(@, Cancelled)]
    /\ Returns(c)
    /\ UNCHANGED <<disk, registry, spawned, workerVars, restarts, lost>>

UploadLoad(c) ==
    /\ Receives(c, "upload")
    /\ disk.pending \in UploadFields /\ Loads(c, "upload")
    /\ UNCHANGED <<disk, handleVars, workerVars, chandle, restarts, lost>>

\* The file is refused, or stored and recorded in the copy loaded before.
UploadSave(c) ==
    /\ cpc[c] = "upload"
    /\ \/ UNCHANGED disk
       \/ disk' = [capp[c] EXCEPT !.held = @ \cup {capp[c].pending}]
    /\ Returns(c)
    /\ UNCHANGED <<handleVars, workerVars, restarts, lost>>

UnlockLoad(c) ==
    /\ Receives(c, "unlock") /\ Loads(c, "unlock")
    /\ UNCHANGED <<disk, handleVars, workerVars, chandle, restarts, lost>>

\* voice_advanced_unlocked is set in the copy; the choices it opens are among
\* those of AnswerInterpret anyway.
UnlockSave(c) ==
    /\ cpc[c] = "unlock"
    /\ disk' = capp[c]
    /\ Returns(c)
    /\ UNCHANGED <<handleVars, workerVars, restarts, lost>>

HandlerStep(c) ==
    \/ StartRaises(c) \/ Register(c) \/ Launch(c)
    \/ ResumeCheck(c) \/ ResumeRaises(c) \/ ResumeRecover(c)
    \/ ResumeReload(c) \/ ResumeSave(c)
    \/ AnswerHandle(c) \/ AnswerInterpret(c) \/ AnswerPut(c)
    \/ CancelLoad(c) \/ CancelSave(c) \/ CancelPut(c)
    \/ UploadSave(c) \/ UnlockSave(c)

Request(c) ==
    \/ Start(c) \/ ResumeLoad(c) \/ AnswerLoad(c) \/ CancelHandle(c)
    \/ UploadLoad(c) \/ UnlockLoad(c)

(***************************************************************************)
(* Worker threads.  The workflow itself (GuidedEpisode) is seen from here  *)
(* as the prompts it asks in order, its output lines and its outcome.      *)
(***************************************************************************)
WorkerGoes(t, pc) == wpc' = [wpc EXCEPT ![t] = pc]
WorkerLoads(t, pc) == WorkerGoes(t, pc) /\ wapp' = [wapp EXCEPT ![t] = disk]
WorkerSaves(t, app, pc) ==
    /\ disk' = app
    /\ WorkerGoes(t, pc) /\ wapp' = [wapp EXCEPT ![t] = NewSession]

\* The thread looks up the session's handle; without one its assert fails
\* outside the error boundary and the thread is gone.
WorkerStart(t) ==
    /\ wpc[t] = "start"
    /\ IF registry = NoHandle THEN WorkerGoes(t, "dead") /\ UNCHANGED whandle
       ELSE WorkerGoes(t, "boot") /\ whandle' = [whandle EXCEPT ![t] = registry]
    /\ UNCHANGED <<disk, handleVars, clientVars, wapp, wpos, progress, restarts, lost>>

\* The confirm_target prompt is answered without the user; the new episode is
\* linked to the session when it is the only one created since the start.
ConfirmTarget(t) ==
    /\ wpc[t] = "boot" /\ WorkerLoads(t, "confirm")
    /\ UNCHANGED <<disk, handleVars, clientVars, whandle, wpos, progress, restarts, lost>>

ConfirmSave(t) ==
    /\ wpc[t] = "confirm"
    /\ \E onlyNew \in BOOLEAN :
          WorkerSaves(t, [wapp[t] EXCEPT !.linked = @ \/ onlyNew], "run")
    /\ wpos' = [wpos EXCEPT ![t] = progress]
    /\ UNCHANGED <<handleVars, clientVars, whandle, progress, restarts, lost>>

\* The episode record holds the answers so far before the workflow goes on.
EngineRecords(t) == progress' = IF wpos[t] > progress THEN wpos[t] ELSE progress

Output(t) ==
    /\ wpc[t] = "run" /\ WorkerLoads(t, "output") /\ EngineRecords(t)
    /\ UNCHANGED <<disk, handleVars, clientVars, whandle, wpos, restarts, lost>>

OutputSave(t) ==
    /\ wpc[t] = "output" /\ WorkerSaves(t, wapp[t], "ready")
    /\ UNCHANGED <<handleVars, clientVars, whandle, wpos, progress, restarts, lost>>

Ask(t) ==
    /\ wpc[t] \in {"run", "ready"} /\ wpos[t] < Len(Prompts)
    /\ WorkerLoads(t, "ask") /\ EngineRecords(t)
    /\ UNCHANGED <<disk, handleVars, clientVars, whandle, wpos, restarts, lost>>

Asked(t) == Prompts[wpos[t] + 1]

\* The session already holds the value: it is used up, nobody is asked.
AskHeld(t) ==
    /\ wpc[t] = "ask" /\ Asked(t) \in wapp[t].held
    /\ WorkerSaves(t, [wapp[t] EXCEPT !.held = @ \ {Asked(t)}], "run")
    /\ wpos' = [wpos EXCEPT ![t] = @ + 1]
    /\ UNCHANGED <<handleVars, clientVars, whandle, progress, restarts, lost>>

WithoutStatus(app, field) == [app EXCEPT !.pending = field]
WithQuestion(app, field) == [app EXCEPT !.pending = field, !.status = "awaiting_input"]

AskUser(t) ==
    /\ wpc[t] = "ask" /\ Asked(t) \notin wapp[t].held
    /\ WorkerSaves(t, WithQuestion(wapp[t], Asked(t)), "wait")
    /\ UNCHANGED <<handleVars, clientVars, whandle, wpos, progress, restarts, lost>>

\* answer_queue.get(): an answer goes to the prompt the thread is blocked in,
\* the sentinel raises _CancelledSignal.
TakeAnswer(t) ==
    /\ wpc[t] = "wait" /\ queue[whandle[t]] # <<>>
    /\ queue' = [queue EXCEPT ![whandle[t]] = Tail(@)]
    /\ IF Head(queue[whandle[t]]) = Cancelled
       THEN WorkerLoads(t, "error") /\ UNCHANGED wpos
       ELSE /\ WorkerGoes(t, "run") /\ wpos' = [wpos EXCEPT ![t] = @ + 1]
            /\ UNCHANGED wapp
    /\ UNCHANGED <<disk, registry, spawned, cancelSet, clientVars, whandle, progress, restarts, lost>>

\* The last prompt is answered, or the user stopped before generation.
RunOver(t) == wpos[t] = Len(Prompts) \/ (wpos[t] > 0 /\ Prompts[wpos[t]] = StopField)

Succeed(t) ==
    /\ wpc[t] \in {"run", "ready"} /\ RunOver(t)
    /\ WorkerLoads(t, "succeed") /\ EngineRecords(t)
    /\ UNCHANGED <<disk, handleVars, clientVars, whandle, wpos, restarts, lost>>

SuccessSave(t) ==
    /\ wpc[t] = "succeed"
    /\ WorkerSaves(t, [wapp[t] EXCEPT !.linked = TRUE, !.status = "completed",
                                     !.pending = NoField], "final")
    /\ UNCHANGED <<handleVars, clientVars, whandle, wpos, progress, restarts, lost>>

\* EpisodeBuildError, EpisodeCancelledError (the monitored command saw the
\* cancel event) or any other exception of the workflow.
Fail(t) ==
    /\ wpc[t] \in {"boot", "run", "ready"}
    /\ WorkerLoads(t, "error") /\ (EngineRecords(t) \/ UNCHANGED progress)
    /\ UNCHANGED <<disk, handleVars, clientVars, whandle, wpos, restarts, lost>>

WithErrorOnly(app) == [app EXCEPT !.pending = NoField]
WithError(app) == [app EXCEPT !.status = "failed", !.pending = NoField]

ErrorSave(t) ==
    /\ wpc[t] = "error"
    /\ WorkerSaves(t, WithError(wapp[t]), "final")
    /\ UNCHANGED <<handleVars, clientVars, whandle, wpos, progress, restarts, lost>>

\* _unregister removes whatever handle the session has by then.
LeavesHandle(t) ==
    /\ wpc[t] = "final" /\ WorkerGoes(t, "dead")
    /\ UNCHANGED <<disk, registry, spawned, queue, cancelSet, clientVars, wapp, whandle,
                   wpos, progress, restarts, lost>>

Unregister(t) ==
    /\ wpc[t] = "final"
    /\ registry' = NoHandle /\ WorkerGoes(t, "dead")
    /\ UNCHANGED <<disk, spawned, queue, cancelSet, clientVars, wapp, whandle, wpos, progress, restarts, lost>>

WorkerStep(t) ==
    \/ WorkerStart(t) \/ ConfirmTarget(t) \/ ConfirmSave(t)
    \/ Output(t) \/ OutputSave(t) \/ Ask(t) \/ AskHeld(t) \/ AskUser(t)
    \/ TakeAnswer(t) \/ Succeed(t) \/ SuccessSave(t)
    \/ Fail(t) \/ ErrorSave(t) \/ Unregister(t)

(***************************************************************************)
(* The server process dies with all its threads; the next one reconciles   *)
(* the file before it serves a request (reconcile_stale_sessions).         *)
(***************************************************************************)
NotReconciled(app) == app
Reconciled(app) == IF app.status = "running" THEN WithError(app) ELSE app

Restart ==
    /\ restarts < MaxRestarts /\ restarts' = restarts + 1
    /\ disk' = Reconciled(disk) /\ lost' = FALSE
    /\ registry' = NoHandle /\ spawned' = 0
    /\ queue' = [t \in Workers |-> <<>>] /\ cancelSet' = [t \in Workers |-> FALSE]
    /\ wpc' = [t \in Workers |-> "none"] /\ wapp' = [t \in Workers |-> NewSession]
    /\ whandle' = [t \in Workers |-> NoHandle] /\ wpos' = [t \in Workers |-> 0]
    /\ cpc' = [c \in Clients |-> "idle"] /\ capp' = [c \in Clients |-> NewSession]
    /\ chandle' = [c \in Clients |-> NoHandle]
    /\ UNCHANGED progress

Next ==
    \/ \E c \in Clients : Request(c) \/ HandlerStep(c)
    \/ \E t \in Workers : WorkerStep(t)
    \/ Restart

\* A thread that can run does run; nobody has to send a request.
Fairness ==
    /\ \A c \in Clients : WF_vars(HandlerStep(c))
    /\ \A t \in Workers : WF_vars(WorkerStep(t))

Spec == Init /\ [][Next]_vars
FairSpec == Spec /\ Fairness

(***************************************************************************)
(* Properties.                                                             *)
(***************************************************************************)
\* Registered, and not over.
Live(t) == wpc[t] \notin {"none", "dead"}
Driven == \E t \in Workers : Live(t)
HandlersIdle == \A c \in Clients : cpc[c] = "idle"

\* At most one worker thread drives the session's workflow, whatever the order
\* of resumes, exits and restarts: "starting a second worker thread on the same
\* episode session would race the first one against the same CloneCast calls"
\* (resume_session).
OneDriver == \A s, t \in Workers : Live(s) /\ Live(t) => s = t

\* The registry says exactly which thread is alive: has_active_worker is "True
\* only if a live background worker thread is actually registered", and a live
\* thread can always be reached by an answer or a cancel.
RegistryIsLiveWorker == \A t \in Workers : Live(t) <=> registry = t

\* An answer is only ever consumed by the question it was given to: the next
\* item a blocked worker will take is for its own prompt, or the sentinel
\* (submit_answer and the answer_queue.get of _resolve_input).
AnswerFitsQuestion ==
    \A t \in Workers :
        wpc[t] = "wait" /\ queue[whandle[t]] # <<>> =>
            Head(queue[whandle[t]]) \in {Asked(t), Cancelled}

\* A worker blocked with nothing to take has its question on disk, so that the
\* browser can show and answer it (_resolve_input against the whole-file saves
\* of the request handlers).
QuestionIsShown ==
    \A t \in Workers :
        wpc[t] = "wait" /\ queue[whandle[t]] = <<>> /\ HandlersIdle =>
            disk.status = "awaiting_input" /\ disk.pending = Asked(t)

\* "A session's persisted status is only ever running while a worker is
\* actively driving it" (reconcile_stale_sessions), handlers about to start one
\* or to hand over an answer included.  It does not hold of a start that raised,
\* nor where a second window's handler saves an older copy.
RunningIsDriven == disk.status = "running" => Driven \/ ~HandlersIdle

\* The same, except for a session whose start raised between its save and the
\* registration of its worker (start_session).
RunningUnlessLost == lost \/ RunningIsDriven

\* While no handler is at work, a running session has a thread that drives it,
\* unless its start raised, and a waiting one shows its question.
SessionIsServed == RunningUnlessLost /\ QuestionIsShown

\* The session does not claim to be running forever: every run reaches a
\* question, its end or an error (_wait_for_update relies on it), unless its
\* start raised before it had a worker.
RunningSettles == disk.status = "running" ~> disk.status # "running" \/ lost

\* A cancelled worker stops, however many answers are queued before the
\* sentinel (cancel_session, _CancelledSignal).
CancelStopsWorker ==
    \A t \in Workers : (wpc[t] # "none" /\ cancelSet[t]) ~> ~Live(t)

(***************************************************************************)
(* The session seen from the browser: its status, and whether a run exists *)
(* or is being created by a handler.                                       *)
(***************************************************************************)
Run == Driven \/ \E c \in Clients : cpc[c] = "spawn"
FirstRun == \E c \in Clients : cpc[c] = "voices"

Lifecycle == INSTANCE SessionLifecycle
    WITH status <- disk.status,
         driven <- IF Run THEN "yes" ELSE IF FirstRun THEN "starting" ELSE "no"

\* The threads, files and queues together behave like one session that is
\* created, asks, is answered, settles, and is resumed only when it is not
\* driven and not finished, through every restart.
ImplementsLifecycle == Lifecycle!Spec
=============================================================================
