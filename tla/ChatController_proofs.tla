------------------------ MODULE ChatController_proofs ------------------------
(***************************************************************************)
(* One driver per session, for any number of request threads, workers,     *)
(* prompts and restarts, as long as only one of the windows starts and     *)
(* resumes runs.  (Two that do break it: run chat_double_resume.)          *)
(*                                                                         *)
(* OneDriver is not inductive: the registry is what keeps a second thread  *)
(* out, so the invariant says that the registered handle is the live       *)
(* thread's, that a handler past its check still sees an empty registry,   *)
(* and that no handler is under way before the session exists.             *)
(*                                                                         *)
(* With a single window, that the session is served, that answers reach    *)
(* their own question, and that every step is one of SessionLifecycle.     *)
(***************************************************************************)
EXTENDS ChatController, FiniteSetTheorems, TLAPS

Starter(c) == <<c, "start">> \in Requests \/ <<c, "resume">> \in Requests
OneStarter == \A c, d \in Clients : Starter(c) /\ Starter(d) => c = d

\* Threads not created yet.
SpawnedInv == \A t \in Workers : t > spawned => wpc[t] = "none"

\* A handler that will create a thread has room for it, and is the starter's;
\* past its check the registry is still empty.
SpawningInv ==
    \A c \in Clients :
        /\ cpc[c] \in SpawnPcs => Starter(c) /\ spawned < MaxWorkers
        /\ cpc[c] \in SpawnPcs \ {"resume"} => registry = NoHandle

\* A handler that has registered a thread is about to start exactly that one.
LaunchInv ==
    \A c \in Clients :
        cpc[c] = "launch" => Starter(c) /\ chandle[c] \in Workers /\ wpc[chandle[c]] = "created"

\* Before the session exists nothing is under way.
FreshInv == disk.status = "new" => registry = NoHandle /\ HandlersIdle

\* Copies are of an existing session, and hold the field where it is used.
ClientCopyInv ==
    \A c \in Clients :
        /\ cpc[c] \notin {"idle", "voices", "spawn", "launch", "cancel"} => capp[c].status # "new"
        /\ cpc[c] \in {"submit", "interpret", "put"} => capp[c].pending \in Fields
        /\ cpc[c] = "upload" => capp[c].pending \in UploadFields

WorkerCopyInv ==
    \A t \in Workers :
        /\ wpc[t] \in {"confirm", "output", "ask", "succeed", "error"} => wapp[t].status # "new"
        /\ wpc[t] \in {"ask", "wait"} => wpos[t] < Len(Prompts)

IInv ==
    /\ TypeOK /\ RegistryIsLiveWorker /\ SpawnedInv /\ SpawningInv
    /\ FreshInv /\ ClientCopyInv /\ WorkerCopyInv

\* start_session's record is one a session file may hold.
LEMMA NewSessionOK == NewSession \in AppSession
  BY DEF NewSession, AppSession, Statuses

\* start_session, resume_session: the bound on starts and resumes under way leaves room for one more thread.
LEMMA SpawnRoom == ASSUME HandlesOK, CanSpawn PROVE spawned < MaxWorkers
<1>1. Spawning \subseteq Clients
  BY DEF Spawning
<1>2. Cardinality(Spawning) \in Nat
  BY <1>1, ClientsAssumption, FS_Subset, FS_CardinalityType
<1>. QED BY <1>2, BoundsAssumption DEF CanSpawn, HandlesOK

\* _worker: where a thread is alive, the session is on disk.
LEMMA LiveSession == ASSUME IInv, NEW t \in Workers, Live(t) PROVE disk.status # "new"
  BY DEF IInv, RegistryIsLiveWorker, FreshInv, Workers, NoHandle

\* _resolve_input: the question of a pending prompt is one of the known fields.
LEMMA AskedOK == ASSUME PromptsAssumption, NEW t \in Workers, WorkersOK, wpos[t] < Len(Prompts)
                 PROVE Asked(t) \in Fields
  BY DEF Asked, Fields, WorkersOK

\* The invariant holds in every initial state.
THEOREM InitInv == Init => IInv
<1>1. ASSUME Init PROVE DiskOK /\ WorkersOK /\ ClientsOK
  BY <1>1, NewSessionOK DEF Init, DiskOK, WorkersOK, ClientsOK, WorkerPcs, ClientPcs
<1>2. ASSUME Init PROVE HandlesOK /\ BoundsOK
  <2>1. lost \in BOOLEAN
    BY <1>2, Zenon DEF Init
  <2>. QED BY <1>2, <2>1, BoundsAssumption, PromptsAssumption DEF Init, HandlesOK, BoundsOK
<1>3. ASSUME Init PROVE RegistryIsLiveWorker /\ SpawnedInv /\ SpawningInv
  BY <1>3 DEF Init, RegistryIsLiveWorker, SpawnedInv, SpawningInv, SpawnPcs, Live, Workers, NoHandle
<1>4. ASSUME Init PROVE FreshInv /\ ClientCopyInv /\ WorkerCopyInv
  BY <1>4 DEF Init, FreshInv, ClientCopyInv, WorkerCopyInv, HandlersIdle
<1>. QED BY <1>1, <1>2, <1>3, <1>4 DEF IInv, TypeOK

\* Every step preserves it, as long as one window starts and resumes the runs.
THEOREM StepInv == ASSUME OneStarter, IInv, LaunchInv, [Next]_vars PROVE IInv'
<1>. USE FieldsAssumption, BoundsAssumption, PromptsAssumption DEF Workers, NoHandle, SpawnPcs
<1>1. ASSUME NEW c \in Clients, Start(c) PROVE IInv'
  <2>1. UNCHANGED <<registry, spawned, queue, cancelSet, wpc, wapp, whandle, wpos, progress, capp, chandle, restarts, lost>>
    BY <1>1 DEF Start, Receives, Goes, handleVars, workerVars, clientVars
  <2>2. /\ HandlesOK' /\ WorkersOK' /\ BoundsOK' /\ RegistryIsLiveWorker'
        /\ SpawnedInv' /\ WorkerCopyInv'
    BY <2>1 DEF IInv, TypeOK, HandlesOK, WorkersOK, BoundsOK, RegistryIsLiveWorker, SpawnedInv,
       WorkerCopyInv, Live
  <2>3. DiskOK'
    BY <1>1, <2>1 DEF IInv, TypeOK, DiskOK, AppSession, Statuses, ClientsOK, WorkersOK,
       ClientCopyInv, WorkerCopyInv, Start, Receives, Goes
  <2>4. ClientsOK'
    BY <1>1, <2>1 DEF IInv, TypeOK, ClientsOK, ClientPcs, Start, Goes, clientVars
  <2>5. SpawningInv'
    <3>1. spawned < MaxWorkers
      BY <1>1, SpawnRoom DEF IInv, TypeOK, Start
    <3>2. registry = NoHandle /\ HandlersIdle
      BY <1>1 DEF IInv, FreshInv, Start
    <3>3. Starter(c)
      BY <1>1 DEF Start, Receives, Starter
    <3>. QED BY <1>1, <2>1, <3>1, <3>2, <3>3 DEF IInv, TypeOK, SpawningInv, ClientsOK,
       HandlersIdle, Start, Goes, clientVars
  <2>6. FreshInv'
    BY <1>1, <2>1 DEF IInv, TypeOK, FreshInv, DiskOK, ClientsOK, AppSession, HandlersIdle,
       ClientCopyInv, WorkerCopyInv, WorkersOK, Start, Receives, Goes
  <2>7. ClientCopyInv'
    BY <1>1, <2>1 DEF IInv, TypeOK, ClientCopyInv, ClientsOK, Start, Receives, Goes, clientVars
  <2>. QED BY <2>2, <2>3, <2>4, <2>5, <2>6, <2>7 DEF IInv, TypeOK

<1>2. ASSUME NEW c \in Clients, Register(c) PROVE IInv'
  <2>1. UNCHANGED <<disk, queue, cancelSet, wapp, whandle, wpos, progress, capp, restarts>>
    BY <1>2 DEF Register, Goes
  <2>2. /\ DiskOK' /\ BoundsOK'
    BY <1>2, <2>1 DEF IInv, TypeOK, DiskOK, BoundsOK, Register
  <2>3. HandlesOK'
    BY <1>2, <2>1 DEF IInv, TypeOK, HandlesOK, SpawningInv, ClientsOK, WorkersOK, ClientCopyInv,
       Register, Goes
  <2>4. WorkersOK'
    BY <1>2, <2>1 DEF IInv, TypeOK, WorkersOK, DiskOK, HandlesOK, BoundsOK, WorkerPcs,
       AppSession, NewSession, Statuses, SpawningInv, WorkerCopyInv, Register, Goes
  <2>5. ClientsOK'
    <3>1. spawned + 1 \in Workers
      BY <1>2 DEF IInv, TypeOK, HandlesOK, SpawningInv, Register
    <3>. QED BY <1>2, <2>1, <3>1 DEF IInv, TypeOK, ClientsOK, ClientPcs, Register, Goes
  <2>6. RegistryIsLiveWorker'
    BY <1>2, <2>1 DEF IInv, TypeOK, RegistryIsLiveWorker, WorkersOK, HandlesOK, Live,
       SpawnedInv, SpawningInv, Register, Goes
  <2>7. SpawnedInv'
    BY <1>2, <2>1 DEF IInv, TypeOK, SpawnedInv, WorkersOK, HandlesOK, Live,
       RegistryIsLiveWorker, SpawningInv, Register, Goes
  <2>8. SpawningInv'
    BY <1>2, <2>1 DEF IInv, TypeOK, SpawningInv, ClientsOK, HandlesOK, OneStarter, Starter,
       FreshInv, HandlersIdle, CanSpawn, Spawning, Register, Goes
  <2>9. FreshInv'
    BY <1>2, <2>1 DEF IInv, TypeOK, FreshInv, DiskOK, ClientsOK, AppSession, HandlersIdle,
       ClientCopyInv, WorkerCopyInv, WorkersOK, Register, Goes
  <2>10. ClientCopyInv'
    BY <1>2, <2>1 DEF IInv, TypeOK, ClientCopyInv, ClientsOK, DiskOK, AppSession, NewSession,
       FreshInv, HandlersIdle, Register, Goes
  <2>11. WorkerCopyInv'
    BY <1>2, <2>1 DEF IInv, TypeOK, WorkerCopyInv, WorkersOK, DiskOK, AppSession, NewSession,
       FreshInv, RegistryIsLiveWorker, Live, RunOver, BoundsOK, Register, Goes
  <2>. QED BY <2>2, <2>3, <2>4, <2>5, <2>6, <2>7, <2>8, <2>9, <2>10, <2>11 DEF IInv, TypeOK

<1>3. ASSUME NEW c \in Clients, ResumeLoad(c) PROVE IInv'
  <2>1. UNCHANGED <<disk, registry, spawned, queue, cancelSet, wpc, wapp, whandle, wpos, progress, chandle, restarts, lost>>
    BY <1>3 DEF ResumeLoad, Receives, Loads, Resumable, handleVars, workerVars
  <2>2. /\ DiskOK' /\ HandlesOK' /\ WorkersOK' /\ BoundsOK'
        /\ RegistryIsLiveWorker' /\ SpawnedInv' /\ WorkerCopyInv'
    BY <2>1 DEF IInv, TypeOK, DiskOK, HandlesOK, WorkersOK, BoundsOK, RegistryIsLiveWorker,
       SpawnedInv, WorkerCopyInv, Live
  <2>3. ClientsOK'
    BY <1>3, <2>1 DEF IInv, TypeOK, ClientsOK, DiskOK, HandlesOK, ClientPcs, AppSession,
       NewSession, Statuses, ResumeLoad, Receives, Loads, Resumable
  <2>4. SpawningInv'
    <3>1. spawned < MaxWorkers
      BY <1>3, SpawnRoom DEF IInv, TypeOK, ResumeLoad
    <3>2. Starter(c)
      BY <1>3 DEF ResumeLoad, Receives, Starter
    <3>. QED BY <1>3, <2>1, <3>1, <3>2 DEF IInv, TypeOK, SpawningInv, ClientsOK, ResumeLoad, Loads
  <2>5. FreshInv'
    BY <1>3, <2>1 DEF IInv, TypeOK, FreshInv, DiskOK, ClientsOK, AppSession, HandlersIdle,
       ClientCopyInv, WorkerCopyInv, WorkersOK, ResumeLoad, Receives, Loads, Resumable
  <2>6. ClientCopyInv'
    BY <1>3, <2>1 DEF IInv, TypeOK, ClientCopyInv, ClientsOK, DiskOK, AppSession, NewSession,
       FreshInv, HandlersIdle, ResumeLoad, Receives, Loads, Resumable
  <2>. QED BY <2>2, <2>3, <2>4, <2>5, <2>6 DEF IInv, TypeOK

<1>4. ASSUME NEW c \in Clients, ResumeCheck(c) PROVE IInv'
  <2>1. UNCHANGED <<disk, registry, spawned, queue, cancelSet, wpc, wapp, whandle, wpos, progress, restarts, lost>>
    BY <1>4 DEF ResumeCheck, HasActiveWorker, Returns, Goes, handleVars, workerVars
  <2>2. /\ DiskOK' /\ HandlesOK' /\ WorkersOK' /\ BoundsOK'
        /\ RegistryIsLiveWorker' /\ SpawnedInv' /\ WorkerCopyInv'
    BY <2>1 DEF IInv, TypeOK, DiskOK, HandlesOK, WorkersOK, BoundsOK, RegistryIsLiveWorker,
       SpawnedInv, WorkerCopyInv, Live
  <2>3. ClientsOK'
    BY <1>4, <2>1, NewSessionOK DEF IInv, TypeOK, ClientsOK, HandlesOK, ClientPcs, ResumeCheck,
       Returns, Goes
  <2>4. SpawningInv'
    BY <1>4, <2>1 DEF IInv, TypeOK, SpawningInv, ClientsOK,
       ResumeCheck, HasActiveWorker, Returns, Goes
  <2>5. FreshInv'
    BY <1>4, <2>1 DEF IInv, TypeOK, FreshInv, DiskOK, ClientsOK, AppSession, HandlersIdle,
       ClientCopyInv, WorkerCopyInv, WorkersOK, ResumeCheck, HasActiveWorker, Returns, Goes
  <2>6. ClientCopyInv'
    BY <1>4, <2>1 DEF IInv, TypeOK, ClientCopyInv, ClientsOK, DiskOK, AppSession, NewSession,
       FreshInv, HandlersIdle, ResumeCheck, HasActiveWorker, Returns, Goes
  <2>. QED BY <2>2, <2>3, <2>4, <2>5, <2>6 DEF IInv, TypeOK

<1>5. ASSUME NEW c \in Clients, ResumeSave(c) PROVE IInv'
  <2>1. UNCHANGED <<registry, spawned, queue, cancelSet, wpc, wapp, whandle, wpos, progress, capp, chandle, restarts, lost>>
    BY <1>5 DEF ResumeSave, Goes, handleVars, workerVars
  <2>2. /\ HandlesOK' /\ WorkersOK' /\ BoundsOK' /\ RegistryIsLiveWorker'
        /\ SpawnedInv' /\ WorkerCopyInv'
    BY <2>1 DEF IInv, TypeOK, HandlesOK, WorkersOK, BoundsOK, RegistryIsLiveWorker, SpawnedInv,
       WorkerCopyInv, Live
  <2>3. DiskOK'
    BY <1>5, <2>1 DEF IInv, TypeOK, DiskOK, AppSession, Statuses, ClientsOK, WorkersOK,
       ClientCopyInv, WorkerCopyInv, ResumeSave, Goes
  <2>4. ClientsOK'
    BY <1>5, <2>1 DEF IInv, TypeOK, ClientsOK, DiskOK, HandlesOK, ClientPcs, AppSession,
       NewSession, Statuses, ResumeSave, Goes
  <2>5. SpawningInv'
    BY <1>5, <2>1 DEF IInv, TypeOK, SpawningInv, ClientsOK, HandlesOK, OneStarter, Starter,
       FreshInv, HandlersIdle, CanSpawn, Spawning, ResumeSave, Goes
  <2>6. FreshInv'
    BY <1>5, <2>1 DEF IInv, TypeOK, FreshInv, DiskOK, ClientsOK, AppSession, HandlersIdle,
       ClientCopyInv, WorkerCopyInv, WorkersOK, ResumeSave, Goes
  <2>7. ClientCopyInv'
    BY <1>5, <2>1 DEF IInv, TypeOK, ClientCopyInv, ClientsOK, DiskOK, AppSession, NewSession,
       FreshInv, HandlersIdle, ResumeSave, Goes
  <2>. QED BY <2>2, <2>3, <2>4, <2>5, <2>6, <2>7 DEF IInv, TypeOK

<1>6. ASSUME NEW c \in Clients, AnswerLoad(c) PROVE IInv'
  <2>1. UNCHANGED <<disk, registry, spawned, queue, cancelSet, wpc, wapp, whandle, wpos, progress, chandle, restarts, lost>>
    BY <1>6 DEF AnswerLoad, Receives, Loads, handleVars, workerVars
  <2>2. /\ DiskOK' /\ HandlesOK' /\ WorkersOK' /\ BoundsOK'
        /\ RegistryIsLiveWorker' /\ SpawnedInv' /\ WorkerCopyInv'
    BY <2>1 DEF IInv, TypeOK, DiskOK, HandlesOK, WorkersOK, BoundsOK, RegistryIsLiveWorker,
       SpawnedInv, WorkerCopyInv, Live
  <2>3. ClientsOK'
    BY <1>6, <2>1 DEF IInv, TypeOK, ClientsOK, DiskOK, HandlesOK, ClientPcs, AppSession,
       NewSession, Statuses, AnswerLoad, Receives, Loads
  <2>4. SpawningInv'
    BY <1>6, <2>1 DEF IInv, TypeOK, SpawningInv, ClientsOK,
       AnswerLoad, Receives, Loads
  <2>5. FreshInv'
    BY <1>6, <2>1 DEF IInv, TypeOK, FreshInv, DiskOK, ClientsOK, AppSession, HandlersIdle,
       ClientCopyInv, WorkerCopyInv, WorkersOK, AnswerLoad, Receives, Loads
  <2>6. ClientCopyInv'
    BY <1>6, <2>1 DEF IInv, TypeOK, ClientCopyInv, ClientsOK, DiskOK, AppSession, NewSession,
       FreshInv, HandlersIdle, AnswerLoad, Receives, Loads
  <2>. QED BY <2>2, <2>3, <2>4, <2>5, <2>6 DEF IInv, TypeOK

<1>7. ASSUME NEW c \in Clients, AnswerHandle(c) PROVE IInv'
  <2>1. UNCHANGED <<disk, registry, spawned, queue, cancelSet, wpc, wapp, whandle, wpos, progress, restarts, lost>>
    BY <1>7 DEF AnswerHandle, Returns, Goes, handleVars, workerVars
  <2>2. /\ DiskOK' /\ HandlesOK' /\ WorkersOK' /\ BoundsOK'
        /\ RegistryIsLiveWorker' /\ SpawnedInv' /\ WorkerCopyInv'
    BY <2>1 DEF IInv, TypeOK, DiskOK, HandlesOK, WorkersOK, BoundsOK, RegistryIsLiveWorker,
       SpawnedInv, WorkerCopyInv, Live
  <2>3. ClientsOK'
    BY <1>7, <2>1, NewSessionOK DEF IInv, TypeOK, ClientsOK, HandlesOK, ClientPcs, AnswerHandle,
       Returns, Goes
  <2>4. SpawningInv'
    BY <1>7, <2>1 DEF IInv, TypeOK, SpawningInv, ClientsOK,
       AnswerHandle, Returns, Goes
  <2>5. FreshInv'
    BY <1>7, <2>1 DEF IInv, TypeOK, FreshInv, DiskOK, ClientsOK, AppSession, HandlersIdle,
       ClientCopyInv, WorkerCopyInv, WorkersOK, AnswerHandle, Returns, Goes
  <2>6. ClientCopyInv'
    BY <1>7, <2>1 DEF IInv, TypeOK, ClientCopyInv, ClientsOK, DiskOK, AppSession, NewSession,
       FreshInv, HandlersIdle, AnswerHandle, Returns, Goes
  <2>. QED BY <2>2, <2>3, <2>4, <2>5, <2>6 DEF IInv, TypeOK

<1>8. ASSUME NEW c \in Clients, AnswerInterpret(c) PROVE IInv'
  <2>1. UNCHANGED <<registry, spawned, queue, cancelSet, wpc, wapp, whandle, wpos, progress, restarts, lost>>
    BY <1>8 DEF AnswerInterpret, Returns, Goes, handleVars, workerVars
  <2>2. /\ HandlesOK' /\ WorkersOK' /\ BoundsOK' /\ RegistryIsLiveWorker'
        /\ SpawnedInv' /\ WorkerCopyInv'
    BY <2>1 DEF IInv, TypeOK, HandlesOK, WorkersOK, BoundsOK, RegistryIsLiveWorker, SpawnedInv,
       WorkerCopyInv, Live
  <2>3. DiskOK'
    <3>1. capp[c] \in AppSession
      BY DEF IInv, TypeOK, ClientsOK
    <3>2. ASSUME NEW used \in {{}, {capp[c].pending} \cap UploadFields}
          PROVE [capp[c] EXCEPT !.status = "running", !.pending = NoField,
                                !.held = @ \ used] \in AppSession
      BY <3>1 DEF AppSession, Statuses
    <3>3. [capp[c] EXCEPT !.status = "awaiting_input"] \in AppSession
      BY <3>1 DEF AppSession, Statuses
    <3>. QED BY <1>8, <3>2, <3>3 DEF IInv, TypeOK, DiskOK, AnswerInterpret
  <2>4. ClientsOK'
    BY <1>8, <2>1, NewSessionOK DEF IInv, TypeOK, ClientsOK, ClientPcs, AnswerInterpret,
       Returns, Goes
  <2>5. SpawningInv'
    BY <1>8, <2>1 DEF IInv, TypeOK, SpawningInv, ClientsOK,
       AnswerInterpret, Returns, Goes
  <2>6. FreshInv'
    BY <1>8, <2>1 DEF IInv, TypeOK, FreshInv, DiskOK, ClientsOK, AppSession, HandlersIdle,
       ClientCopyInv, WorkerCopyInv, WorkersOK, AnswerInterpret, Returns, Goes
  <2>7. ClientCopyInv'
    BY <1>8, <2>1 DEF IInv, TypeOK, ClientCopyInv, ClientsOK, DiskOK, AppSession, NewSession,
       FreshInv, HandlersIdle, AnswerInterpret, Returns, Goes
  <2>. QED BY <2>2, <2>3, <2>4, <2>5, <2>6, <2>7 DEF IInv, TypeOK

<1>9. ASSUME NEW c \in Clients, AnswerPut(c) PROVE IInv'
  <2>1. UNCHANGED <<disk, registry, spawned, cancelSet, wpc, wapp, whandle, wpos, progress, restarts, lost>>
    BY <1>9 DEF AnswerPut, Returns, workerVars
  <2>2. /\ DiskOK' /\ WorkersOK' /\ BoundsOK' /\ RegistryIsLiveWorker'
        /\ SpawnedInv' /\ WorkerCopyInv'
    BY <2>1 DEF IInv, TypeOK, DiskOK, WorkersOK, BoundsOK, RegistryIsLiveWorker, SpawnedInv,
       WorkerCopyInv, Live
  <2>3. HandlesOK'
    <3>1. capp[c].pending \in Fields \cup {Cancelled}
      BY <1>9 DEF IInv, ClientCopyInv, AnswerPut
    <3>2. queue' \in [Workers -> Seq(Fields \cup {Cancelled})]
      <4>1. CASE chandle[c] \in Workers
        <5>1. Append(queue[chandle[c]], capp[c].pending) \in Seq(Fields \cup {Cancelled})
          BY <4>1, <3>1 DEF IInv, TypeOK, HandlesOK
        <5>. QED BY <1>9, <5>1 DEF IInv, TypeOK, HandlesOK, AnswerPut
      <4>2. CASE chandle[c] \notin Workers
        BY <1>9, <4>2 DEF IInv, TypeOK, HandlesOK, AnswerPut
      <4>. QED BY <4>1, <4>2
    <3>. QED BY <2>1, <3>2 DEF IInv, TypeOK, HandlesOK
  <2>4. ClientsOK'
    BY <1>9, <2>1 DEF IInv, TypeOK, ClientsOK, DiskOK, HandlesOK, ClientPcs, AppSession,
       NewSession, Statuses, AnswerPut, Returns
  <2>5. SpawningInv'
    BY <1>9, <2>1 DEF IInv, TypeOK, SpawningInv, ClientsOK,
       AnswerPut, Returns
  <2>6. FreshInv'
    BY <1>9, <2>1 DEF IInv, TypeOK, FreshInv, DiskOK, ClientsOK, AppSession, HandlersIdle,
       ClientCopyInv, WorkerCopyInv, WorkersOK, AnswerPut, Returns
  <2>7. ClientCopyInv'
    BY <1>9, <2>1 DEF IInv, TypeOK, ClientCopyInv, ClientsOK, DiskOK, AppSession, NewSession,
       FreshInv, HandlersIdle, AnswerPut, Returns
  <2>. QED BY <2>2, <2>3, <2>4, <2>5, <2>6, <2>7 DEF IInv, TypeOK

<1>10. ASSUME NEW c \in Clients, CancelHandle(c) PROVE IInv'
  <2>1. UNCHANGED <<disk, registry, spawned, queue, cancelSet, wpc, wapp, whandle, wpos, progress, capp, restarts, lost>>
    BY <1>10 DEF CancelHandle, Receives, Goes, handleVars, workerVars
  <2>2. /\ DiskOK' /\ HandlesOK' /\ WorkersOK' /\ BoundsOK'
        /\ RegistryIsLiveWorker' /\ SpawnedInv' /\ WorkerCopyInv'
    BY <2>1 DEF IInv, TypeOK, DiskOK, HandlesOK, WorkersOK, BoundsOK, RegistryIsLiveWorker,
       SpawnedInv, WorkerCopyInv, Live
  <2>3. ClientsOK'
    BY <1>10, <2>1 DEF IInv, TypeOK, ClientsOK, DiskOK, HandlesOK, ClientPcs, AppSession,
       NewSession, Statuses, CancelHandle, Receives, Goes
  <2>4. SpawningInv'
    BY <1>10, <2>1 DEF IInv, TypeOK, SpawningInv, ClientsOK,
       CancelHandle, Receives, Goes
  <2>5. FreshInv'
    BY <1>10, <2>1 DEF IInv, TypeOK, FreshInv, DiskOK, ClientsOK, AppSession, HandlersIdle,
       ClientCopyInv, WorkerCopyInv, WorkersOK, CancelHandle, Receives, Goes
  <2>6. ClientCopyInv'
    BY <1>10, <2>1 DEF IInv, TypeOK, ClientCopyInv, ClientsOK, DiskOK, AppSession, NewSession,
       FreshInv, HandlersIdle, CancelHandle, Receives, Goes
  <2>. QED BY <2>2, <2>3, <2>4, <2>5, <2>6 DEF IInv, TypeOK

<1>11. ASSUME NEW c \in Clients, CancelLoad(c) PROVE IInv'
  <2>1. UNCHANGED <<disk, registry, spawned, queue, cancelSet, wpc, wapp, whandle, wpos, progress, chandle, restarts, lost>>
    BY <1>11 DEF CancelLoad, Loads, handleVars, workerVars
  <2>2. /\ DiskOK' /\ HandlesOK' /\ WorkersOK' /\ BoundsOK'
        /\ RegistryIsLiveWorker' /\ SpawnedInv' /\ WorkerCopyInv'
    BY <2>1 DEF IInv, TypeOK, DiskOK, HandlesOK, WorkersOK, BoundsOK, RegistryIsLiveWorker,
       SpawnedInv, WorkerCopyInv, Live
  <2>3. ClientsOK'
    BY <1>11, <2>1 DEF IInv, TypeOK, ClientsOK, DiskOK, HandlesOK, ClientPcs, AppSession,
       NewSession, Statuses, CancelLoad, Loads
  <2>4. SpawningInv'
    BY <1>11, <2>1 DEF IInv, TypeOK, SpawningInv, ClientsOK,
       CancelLoad, Loads
  <2>5. FreshInv'
    BY <1>11, <2>1 DEF IInv, TypeOK, FreshInv, DiskOK, ClientsOK, AppSession, HandlersIdle,
       ClientCopyInv, WorkerCopyInv, WorkersOK, CancelLoad, Loads
  <2>6. ClientCopyInv'
    BY <1>11, <2>1 DEF IInv, TypeOK, ClientCopyInv, ClientsOK, DiskOK, AppSession, NewSession,
       FreshInv, HandlersIdle, CancelLoad, Loads
  <2>. QED BY <2>2, <2>3, <2>4, <2>5, <2>6 DEF IInv, TypeOK

<1>12. ASSUME NEW c \in Clients, CancelSave(c) PROVE IInv'
  <2>1. UNCHANGED <<registry, spawned, queue, cancelSet, wpc, wapp, whandle, wpos, progress, restarts, lost>>
    BY <1>12 DEF CancelSave, Goes, Returns, handleVars, workerVars
  <2>2. /\ HandlesOK' /\ WorkersOK' /\ BoundsOK' /\ RegistryIsLiveWorker'
        /\ SpawnedInv' /\ WorkerCopyInv'
    BY <2>1 DEF IInv, TypeOK, HandlesOK, WorkersOK, BoundsOK, RegistryIsLiveWorker, SpawnedInv,
       WorkerCopyInv, Live
  <2>3. DiskOK'
    <3>1. capp[c] \in AppSession
      BY DEF IInv, TypeOK, ClientsOK
    <3>2. [capp[c] EXCEPT !.status = "failed", !.pending = NoField] \in AppSession
      BY <3>1 DEF AppSession, Statuses
    <3>. QED BY <1>12, <3>1, <3>2 DEF CancelSave, DiskOK
  <2>4. ClientsOK'
    BY <1>12, <2>1, NewSessionOK DEF IInv, TypeOK, ClientsOK, HandlesOK, ClientPcs, CancelSave,
       Returns, Goes
  <2>5. SpawningInv'
    BY <1>12, <2>1 DEF IInv, TypeOK, SpawningInv, ClientsOK, CancelSave, Goes, Returns
  <2>6. FreshInv'
    BY <1>12, <2>1 DEF IInv, TypeOK, FreshInv, DiskOK, ClientsOK, AppSession, HandlersIdle,
       ClientCopyInv, WorkerCopyInv, WorkersOK, CancelSave, Goes, Returns
  <2>7. ClientCopyInv'
    BY <1>12, <2>1 DEF IInv, TypeOK, ClientCopyInv, ClientsOK, DiskOK, AppSession, NewSession,
       FreshInv, HandlersIdle, CancelSave, Goes, Returns
  <2>. QED BY <2>2, <2>3, <2>4, <2>5, <2>6, <2>7 DEF IInv, TypeOK

<1>13. ASSUME NEW c \in Clients, CancelPut(c) PROVE IInv'
  <2>1. UNCHANGED <<disk, registry, spawned, wpc, wapp, whandle, wpos, progress, restarts, lost>>
    BY <1>13 DEF CancelPut, Returns, workerVars
  <2>2. /\ DiskOK' /\ WorkersOK' /\ BoundsOK' /\ RegistryIsLiveWorker'
        /\ SpawnedInv' /\ WorkerCopyInv'
    BY <2>1 DEF IInv, TypeOK, DiskOK, WorkersOK, BoundsOK, RegistryIsLiveWorker, SpawnedInv,
       WorkerCopyInv, Live
  <2>3. HandlesOK'
    <3>1. queue' \in [Workers -> Seq(Fields \cup {Cancelled})]
      <4>1. CASE chandle[c] \in Workers
        <5>1. Append(queue[chandle[c]], Cancelled) \in Seq(Fields \cup {Cancelled})
          BY <4>1 DEF IInv, TypeOK, HandlesOK
        <5>. QED BY <1>13, <5>1 DEF IInv, TypeOK, HandlesOK, CancelPut
      <4>2. CASE chandle[c] \notin Workers
        BY <1>13, <4>2 DEF IInv, TypeOK, HandlesOK, CancelPut
      <4>. QED BY <4>1, <4>2
    <3>2. cancelSet' \in [Workers -> BOOLEAN]
      BY <1>13 DEF IInv, TypeOK, HandlesOK, CancelPut
    <3>. QED BY <2>1, <3>1, <3>2 DEF IInv, TypeOK, HandlesOK
  <2>4. ClientsOK'
    BY <1>13, <2>1 DEF IInv, TypeOK, ClientsOK, DiskOK, HandlesOK, ClientPcs, AppSession,
       NewSession, Statuses, CancelPut, Returns
  <2>5. SpawningInv'
    BY <1>13, <2>1 DEF IInv, TypeOK, SpawningInv, ClientsOK,
       CancelPut, Returns
  <2>6. FreshInv'
    BY <1>13, <2>1 DEF IInv, TypeOK, FreshInv, DiskOK, ClientsOK, AppSession, HandlersIdle,
       ClientCopyInv, WorkerCopyInv, WorkersOK, CancelPut, Returns
  <2>7. ClientCopyInv'
    BY <1>13, <2>1 DEF IInv, TypeOK, ClientCopyInv, ClientsOK, DiskOK, AppSession, NewSession,
       FreshInv, HandlersIdle, CancelPut, Returns
  <2>. QED BY <2>2, <2>3, <2>4, <2>5, <2>6, <2>7 DEF IInv, TypeOK

<1>14. ASSUME NEW c \in Clients, UploadLoad(c) PROVE IInv'
  <2>1. UNCHANGED <<disk, registry, spawned, queue, cancelSet, wpc, wapp, whandle, wpos, progress, chandle, restarts, lost>>
    BY <1>14 DEF UploadLoad, Receives, Loads, handleVars, workerVars
  <2>2. /\ DiskOK' /\ HandlesOK' /\ WorkersOK' /\ BoundsOK'
        /\ RegistryIsLiveWorker' /\ SpawnedInv' /\ WorkerCopyInv'
    BY <2>1 DEF IInv, TypeOK, DiskOK, HandlesOK, WorkersOK, BoundsOK, RegistryIsLiveWorker,
       SpawnedInv, WorkerCopyInv, Live
  <2>3. ClientsOK'
    BY <1>14, <2>1 DEF IInv, TypeOK, ClientsOK, DiskOK, HandlesOK, ClientPcs, AppSession,
       NewSession, Statuses, UploadLoad, Receives, Loads
  <2>4. SpawningInv'
    BY <1>14, <2>1 DEF IInv, TypeOK, SpawningInv, ClientsOK,
       UploadLoad, Receives, Loads
  <2>5. FreshInv'
    BY <1>14, <2>1 DEF IInv, TypeOK, FreshInv, DiskOK, ClientsOK, AppSession, HandlersIdle,
       ClientCopyInv, WorkerCopyInv, WorkersOK, UploadLoad, Receives, Loads
  <2>6. ClientCopyInv'
    BY <1>14, <2>1 DEF IInv, TypeOK, ClientCopyInv, ClientsOK, DiskOK, AppSession, NewSession,
       FreshInv, HandlersIdle, UploadLoad, Receives, Loads
  <2>. QED BY <2>2, <2>3, <2>4, <2>5, <2>6 DEF IInv, TypeOK

<1>15. ASSUME NEW c \in Clients, UploadSave(c) PROVE IInv'
  <2>1. UNCHANGED <<registry, spawned, queue, cancelSet, wpc, wapp, whandle, wpos, progress, restarts, lost>>
    BY <1>15 DEF UploadSave, Returns, handleVars, workerVars
  <2>2. /\ HandlesOK' /\ WorkersOK' /\ BoundsOK' /\ RegistryIsLiveWorker'
        /\ SpawnedInv' /\ WorkerCopyInv'
    BY <2>1 DEF IInv, TypeOK, HandlesOK, WorkersOK, BoundsOK, RegistryIsLiveWorker, SpawnedInv,
       WorkerCopyInv, Live
  <2>3. DiskOK'
    <3>1. capp[c] \in AppSession /\ capp[c].pending \in Fields
      BY <1>15 DEF IInv, TypeOK, ClientsOK, ClientCopyInv, UploadSave
    <3>2. [capp[c] EXCEPT !.held = @ \cup {capp[c].pending}] \in AppSession
      BY <3>1 DEF AppSession
    <3>. QED BY <1>15, <3>2 DEF IInv, TypeOK, DiskOK, UploadSave
  <2>4. ClientsOK'
    BY <1>15, <2>1 DEF IInv, TypeOK, ClientsOK, DiskOK, HandlesOK, ClientPcs, AppSession,
       NewSession, Statuses, UploadSave, Returns
  <2>5. SpawningInv'
    BY <1>15, <2>1 DEF IInv, TypeOK, SpawningInv, ClientsOK,
       UploadSave, Returns
  <2>6. FreshInv'
    BY <1>15, <2>1 DEF IInv, TypeOK, FreshInv, DiskOK, ClientsOK, AppSession, HandlersIdle,
       ClientCopyInv, WorkerCopyInv, WorkersOK, UploadSave, Returns
  <2>7. ClientCopyInv'
    BY <1>15, <2>1 DEF IInv, TypeOK, ClientCopyInv, ClientsOK, DiskOK, AppSession, NewSession,
       FreshInv, HandlersIdle, UploadSave, Returns
  <2>. QED BY <2>2, <2>3, <2>4, <2>5, <2>6, <2>7 DEF IInv, TypeOK

<1>16. ASSUME NEW c \in Clients, UnlockLoad(c) PROVE IInv'
  <2>1. UNCHANGED <<disk, registry, spawned, queue, cancelSet, wpc, wapp, whandle, wpos, progress, chandle, restarts, lost>>
    BY <1>16 DEF UnlockLoad, Receives, Loads, handleVars, workerVars
  <2>2. /\ DiskOK' /\ HandlesOK' /\ WorkersOK' /\ BoundsOK'
        /\ RegistryIsLiveWorker' /\ SpawnedInv' /\ WorkerCopyInv'
    BY <2>1 DEF IInv, TypeOK, DiskOK, HandlesOK, WorkersOK, BoundsOK, RegistryIsLiveWorker,
       SpawnedInv, WorkerCopyInv, Live
  <2>3. ClientsOK'
    BY <1>16, <2>1 DEF IInv, TypeOK, ClientsOK, DiskOK, HandlesOK, ClientPcs, AppSession,
       NewSession, Statuses, UnlockLoad, Receives, Loads
  <2>4. SpawningInv'
    BY <1>16, <2>1 DEF IInv, TypeOK, SpawningInv, ClientsOK, HandlesOK, OneStarter, Starter,
       FreshInv, HandlersIdle, CanSpawn, Spawning, UnlockLoad, Receives, Loads
  <2>5. FreshInv'
    BY <1>16, <2>1 DEF IInv, TypeOK, FreshInv, DiskOK, ClientsOK, AppSession, HandlersIdle,
       ClientCopyInv, WorkerCopyInv, WorkersOK, UnlockLoad, Receives, Loads
  <2>6. ClientCopyInv'
    BY <1>16, <2>1 DEF IInv, TypeOK, ClientCopyInv, ClientsOK, DiskOK, AppSession, NewSession,
       FreshInv, HandlersIdle, UnlockLoad, Receives, Loads
  <2>. QED BY <2>2, <2>3, <2>4, <2>5, <2>6 DEF IInv, TypeOK

<1>17. ASSUME NEW c \in Clients, UnlockSave(c) PROVE IInv'
  <2>1. UNCHANGED <<registry, spawned, queue, cancelSet, wpc, wapp, whandle, wpos, progress, restarts, lost>>
    BY <1>17 DEF UnlockSave, Returns, handleVars, workerVars
  <2>2. /\ HandlesOK' /\ WorkersOK' /\ BoundsOK' /\ RegistryIsLiveWorker'
        /\ SpawnedInv' /\ WorkerCopyInv'
    BY <2>1 DEF IInv, TypeOK, HandlesOK, WorkersOK, BoundsOK, RegistryIsLiveWorker, SpawnedInv,
       WorkerCopyInv, Live
  <2>3. DiskOK'
    BY <1>17, <2>1 DEF IInv, TypeOK, DiskOK, AppSession, Statuses, ClientsOK, WorkersOK,
       ClientCopyInv, WorkerCopyInv, UnlockSave, Returns
  <2>4. ClientsOK'
    BY <1>17, <2>1 DEF IInv, TypeOK, ClientsOK, DiskOK, HandlesOK, ClientPcs, AppSession,
       NewSession, Statuses, UnlockSave, Returns
  <2>5. SpawningInv'
    BY <1>17, <2>1 DEF IInv, TypeOK, SpawningInv, ClientsOK, HandlesOK, OneStarter, Starter,
       FreshInv, HandlersIdle, CanSpawn, Spawning, UnlockSave, Returns
  <2>6. FreshInv'
    BY <1>17, <2>1 DEF IInv, TypeOK, FreshInv, DiskOK, ClientsOK, AppSession, HandlersIdle,
       ClientCopyInv, WorkerCopyInv, WorkersOK, UnlockSave, Returns
  <2>7. ClientCopyInv'
    BY <1>17, <2>1 DEF IInv, TypeOK, ClientCopyInv, ClientsOK, DiskOK, AppSession, NewSession,
       FreshInv, HandlersIdle, UnlockSave, Returns
  <2>. QED BY <2>2, <2>3, <2>4, <2>5, <2>6, <2>7 DEF IInv, TypeOK

<1>18. ASSUME NEW t \in Workers, WorkerStart(t) PROVE IInv'
  <2>1. UNCHANGED <<disk, registry, spawned, queue, cancelSet, wapp, wpos, progress, cpc, capp, chandle, restarts, lost>>
    BY <1>18 DEF WorkerStart, WorkerGoes, handleVars, clientVars
  <2>2. /\ DiskOK' /\ HandlesOK' /\ ClientsOK' /\ BoundsOK'
        /\ SpawningInv' /\ FreshInv' /\ ClientCopyInv'
    BY <2>1 DEF IInv, TypeOK, DiskOK, HandlesOK, ClientsOK, BoundsOK, SpawningInv, FreshInv,
       ClientCopyInv, HandlersIdle
  <2>3. WorkersOK'
    <3>1. wpc' \in [Workers -> WorkerPcs]
      BY <1>18 DEF IInv, TypeOK, WorkersOK, WorkerPcs, WorkerStart, WorkerGoes
    <3>2. whandle' \in [Workers -> Workers \cup {NoHandle}]
      BY <1>18 DEF IInv, TypeOK, WorkersOK, HandlesOK, WorkerStart
    <3>. QED BY <2>1, <3>1, <3>2 DEF IInv, TypeOK, WorkersOK
  <2>4. RegistryIsLiveWorker'
    BY <1>18, <2>1 DEF IInv, TypeOK, RegistryIsLiveWorker, WorkersOK, HandlesOK, Live,
       SpawnedInv, SpawningInv, WorkerStart, WorkerGoes
  <2>5. SpawnedInv'
    BY <1>18, <2>1 DEF IInv, TypeOK, SpawnedInv, WorkersOK, HandlesOK, Live,
       RegistryIsLiveWorker, SpawningInv, WorkerStart, WorkerGoes
  <2>6. WorkerCopyInv'
    BY <1>18, <2>1 DEF IInv, TypeOK, WorkerCopyInv, WorkersOK, DiskOK, AppSession, NewSession,
       FreshInv, RegistryIsLiveWorker, Live, RunOver, BoundsOK, WorkerStart, WorkerGoes
  <2>. QED BY <2>2, <2>3, <2>4, <2>5, <2>6 DEF IInv, TypeOK

<1>19. ASSUME NEW t \in Workers, ConfirmTarget(t) PROVE IInv'
  <2>1. UNCHANGED <<disk, registry, spawned, queue, cancelSet, whandle, wpos, progress, cpc, capp, chandle, restarts, lost>>
    BY <1>19 DEF ConfirmTarget, WorkerLoads, WorkerGoes, handleVars, clientVars
  <2>2. /\ DiskOK' /\ HandlesOK' /\ ClientsOK' /\ BoundsOK'
        /\ SpawningInv' /\ FreshInv' /\ ClientCopyInv'
    BY <2>1 DEF IInv, TypeOK, DiskOK, HandlesOK, ClientsOK, BoundsOK, SpawningInv, FreshInv,
       ClientCopyInv, HandlersIdle
  <2>3. WorkersOK'
    BY <1>19, <2>1 DEF IInv, TypeOK, WorkersOK, DiskOK, HandlesOK, BoundsOK, WorkerPcs,
       AppSession, NewSession, Statuses, SpawningInv, WorkerCopyInv, ConfirmTarget, WorkerLoads,
       WorkerGoes
  <2>4. RegistryIsLiveWorker'
    BY <1>19, <2>1 DEF IInv, TypeOK, RegistryIsLiveWorker, WorkersOK, HandlesOK, Live,
       SpawnedInv, SpawningInv, ConfirmTarget, WorkerLoads, WorkerGoes
  <2>5. SpawnedInv'
    BY <1>19, <2>1 DEF IInv, TypeOK, SpawnedInv, WorkersOK, HandlesOK, Live,
       RegistryIsLiveWorker, SpawningInv, ConfirmTarget, WorkerLoads, WorkerGoes
  <2>6. WorkerCopyInv'
    <3>1. disk.status # "new"
      BY <1>19, LiveSession DEF ConfirmTarget, Live
    <3>. QED BY <1>19, <2>1, <3>1 DEF IInv, TypeOK, WorkersOK, WorkerCopyInv, ConfirmTarget,
       WorkerLoads, WorkerGoes
  <2>. QED BY <2>2, <2>3, <2>4, <2>5, <2>6 DEF IInv, TypeOK

<1>20. ASSUME NEW t \in Workers, ConfirmSave(t) PROVE IInv'
  <2>1. UNCHANGED <<registry, spawned, queue, cancelSet, whandle, progress, cpc, capp, chandle, restarts, lost>>
    BY <1>20 DEF ConfirmSave, WorkerSaves, WorkerGoes, handleVars, clientVars
  <2>2. /\ HandlesOK' /\ ClientsOK' /\ BoundsOK' /\ SpawningInv'
        /\ ClientCopyInv'
    BY <2>1 DEF IInv, TypeOK, HandlesOK, ClientsOK, BoundsOK, SpawningInv, ClientCopyInv
  <2>3. DiskOK'
    <3>1. ASSUME NEW onlyNew \in BOOLEAN
          PROVE [wapp[t] EXCEPT !.linked = @ \/ onlyNew] \in AppSession
      BY DEF IInv, TypeOK, WorkersOK, AppSession
    <3>. QED BY <1>20, <3>1 DEF DiskOK, ConfirmSave, WorkerSaves
  <2>4. WorkersOK'
    BY <1>20, <2>1 DEF IInv, TypeOK, WorkersOK, DiskOK, HandlesOK, BoundsOK, WorkerPcs,
       AppSession, NewSession, Statuses, SpawningInv, WorkerCopyInv, ConfirmSave, WorkerSaves,
       WorkerGoes
  <2>5. RegistryIsLiveWorker'
    BY <1>20, <2>1 DEF IInv, TypeOK, RegistryIsLiveWorker, WorkersOK, HandlesOK, Live,
       SpawnedInv, SpawningInv, ConfirmSave, WorkerSaves, WorkerGoes
  <2>6. SpawnedInv'
    BY <1>20, <2>1 DEF IInv, TypeOK, SpawnedInv, WorkersOK, HandlesOK, Live,
       RegistryIsLiveWorker, SpawningInv, ConfirmSave, WorkerSaves, WorkerGoes
  <2>7. FreshInv'
    BY <1>20, <2>1 DEF IInv, TypeOK, FreshInv, DiskOK, ClientsOK, AppSession, HandlersIdle,
       ClientCopyInv, WorkerCopyInv, WorkersOK, ConfirmSave, WorkerSaves, WorkerGoes
  <2>8. WorkerCopyInv'
    BY <1>20, <2>1 DEF IInv, TypeOK, WorkerCopyInv, WorkersOK, DiskOK, AppSession, NewSession,
       FreshInv, RegistryIsLiveWorker, Live, RunOver, BoundsOK, ConfirmSave, WorkerSaves,
       WorkerGoes
  <2>. QED BY <2>2, <2>3, <2>4, <2>5, <2>6, <2>7, <2>8 DEF IInv, TypeOK

<1>21. ASSUME NEW t \in Workers, Output(t) PROVE IInv'
  <2>1. UNCHANGED <<disk, registry, spawned, queue, cancelSet, whandle, wpos, cpc, capp, chandle, restarts, lost>>
    BY <1>21 DEF Output, WorkerLoads, WorkerGoes, EngineRecords, handleVars, clientVars
  <2>2. /\ DiskOK' /\ HandlesOK' /\ ClientsOK' /\ SpawningInv'
        /\ FreshInv' /\ ClientCopyInv'
    BY <2>1 DEF IInv, TypeOK, DiskOK, HandlesOK, ClientsOK, SpawningInv, FreshInv,
       ClientCopyInv, HandlersIdle
  <2>3. WorkersOK'
    BY <1>21, <2>1 DEF IInv, TypeOK, WorkersOK, DiskOK, HandlesOK, BoundsOK, WorkerPcs,
       AppSession, NewSession, Statuses, SpawningInv, WorkerCopyInv, Output, WorkerLoads,
       WorkerGoes, EngineRecords
  <2>4. BoundsOK'
    BY <1>21, <2>1 DEF IInv, TypeOK, BoundsOK, WorkersOK, Output, WorkerLoads, WorkerGoes,
       EngineRecords
  <2>5. RegistryIsLiveWorker'
    BY <1>21, <2>1 DEF IInv, TypeOK, RegistryIsLiveWorker, WorkersOK, HandlesOK, Live,
       SpawnedInv, SpawningInv, Output, WorkerLoads, WorkerGoes, EngineRecords
  <2>6. SpawnedInv'
    BY <1>21, <2>1 DEF IInv, TypeOK, SpawnedInv, WorkersOK, HandlesOK, Live,
       RegistryIsLiveWorker, SpawningInv, Output, WorkerLoads, WorkerGoes, EngineRecords
  <2>7. WorkerCopyInv'
    <3>1. disk.status # "new"
      BY <1>21, LiveSession DEF Output, Live
    <3>. QED BY <1>21, <2>1, <3>1 DEF IInv, TypeOK, WorkersOK, WorkerCopyInv, Output,
       WorkerLoads, WorkerGoes
  <2>. QED BY <2>2, <2>3, <2>4, <2>5, <2>6, <2>7 DEF IInv, TypeOK

<1>22. ASSUME NEW t \in Workers, OutputSave(t) PROVE IInv'
  <2>1. UNCHANGED <<registry, spawned, queue, cancelSet, whandle, wpos, progress, cpc, capp, chandle, restarts, lost>>
    BY <1>22 DEF OutputSave, WorkerSaves, WorkerGoes, handleVars, clientVars
  <2>2. /\ HandlesOK' /\ ClientsOK' /\ BoundsOK' /\ SpawningInv'
        /\ ClientCopyInv'
    BY <2>1 DEF IInv, TypeOK, HandlesOK, ClientsOK, BoundsOK, SpawningInv, ClientCopyInv
  <2>3. DiskOK'
    BY <1>22, <2>1 DEF IInv, TypeOK, DiskOK, AppSession, Statuses, ClientsOK, WorkersOK,
       ClientCopyInv, WorkerCopyInv, OutputSave, WorkerSaves, WorkerGoes
  <2>4. WorkersOK'
    BY <1>22, <2>1 DEF IInv, TypeOK, WorkersOK, DiskOK, HandlesOK, BoundsOK, WorkerPcs,
       AppSession, NewSession, Statuses, SpawningInv, WorkerCopyInv, OutputSave, WorkerSaves,
       WorkerGoes
  <2>5. RegistryIsLiveWorker'
    BY <1>22, <2>1 DEF IInv, TypeOK, RegistryIsLiveWorker, WorkersOK, HandlesOK, Live,
       SpawnedInv, SpawningInv, OutputSave, WorkerSaves, WorkerGoes
  <2>6. SpawnedInv'
    BY <1>22, <2>1 DEF IInv, TypeOK, SpawnedInv, WorkersOK, HandlesOK, Live,
       RegistryIsLiveWorker, SpawningInv, OutputSave, WorkerSaves, WorkerGoes
  <2>7. FreshInv'
    BY <1>22, <2>1 DEF IInv, TypeOK, FreshInv, DiskOK, ClientsOK, AppSession, HandlersIdle,
       ClientCopyInv, WorkerCopyInv, WorkersOK, OutputSave, WorkerSaves, WorkerGoes
  <2>8. WorkerCopyInv'
    BY <1>22, <2>1 DEF IInv, TypeOK, WorkerCopyInv, WorkersOK, DiskOK, AppSession, NewSession,
       FreshInv, RegistryIsLiveWorker, Live, RunOver, BoundsOK, OutputSave, WorkerSaves,
       WorkerGoes
  <2>. QED BY <2>2, <2>3, <2>4, <2>5, <2>6, <2>7, <2>8 DEF IInv, TypeOK

<1>23. ASSUME NEW t \in Workers, Ask(t) PROVE IInv'
  <2>1. UNCHANGED <<disk, registry, spawned, queue, cancelSet, whandle, wpos, cpc, capp, chandle, restarts, lost>>
    BY <1>23 DEF Ask, WorkerLoads, WorkerGoes, EngineRecords, handleVars, clientVars
  <2>2. /\ DiskOK' /\ HandlesOK' /\ ClientsOK' /\ SpawningInv'
        /\ FreshInv' /\ ClientCopyInv'
    BY <2>1 DEF IInv, TypeOK, DiskOK, HandlesOK, ClientsOK, SpawningInv, FreshInv,
       ClientCopyInv, HandlersIdle
  <2>3. WorkersOK'
    BY <1>23, <2>1 DEF IInv, TypeOK, WorkersOK, DiskOK, HandlesOK, BoundsOK, WorkerPcs,
       AppSession, NewSession, Statuses, SpawningInv, WorkerCopyInv, Ask, WorkerLoads,
       WorkerGoes, EngineRecords
  <2>4. BoundsOK'
    BY <1>23, <2>1 DEF IInv, TypeOK, BoundsOK, WorkersOK, Ask, WorkerLoads, WorkerGoes,
       EngineRecords
  <2>5. RegistryIsLiveWorker'
    BY <1>23, <2>1 DEF IInv, TypeOK, RegistryIsLiveWorker, WorkersOK, HandlesOK, Live,
       SpawnedInv, SpawningInv, Ask, WorkerLoads, WorkerGoes, EngineRecords
  <2>6. SpawnedInv'
    BY <1>23, <2>1 DEF IInv, TypeOK, SpawnedInv, WorkersOK, HandlesOK, Live,
       RegistryIsLiveWorker, SpawningInv, Ask, WorkerLoads, WorkerGoes, EngineRecords
  <2>7. WorkerCopyInv'
    <3>1. disk.status # "new"
      BY <1>23, LiveSession DEF Ask, Live
    <3>. QED BY <1>23, <2>1, <3>1 DEF IInv, TypeOK, WorkersOK, WorkerCopyInv, Ask, WorkerLoads,
       WorkerGoes
  <2>. QED BY <2>2, <2>3, <2>4, <2>5, <2>6, <2>7 DEF IInv, TypeOK

<1>24. ASSUME NEW t \in Workers, AskHeld(t) PROVE IInv'
  <2>1. UNCHANGED <<registry, spawned, queue, cancelSet, whandle, progress, cpc, capp, chandle, restarts, lost>>
    BY <1>24 DEF AskHeld, WorkerSaves, WorkerGoes, handleVars, clientVars
  <2>2. /\ HandlesOK' /\ ClientsOK' /\ BoundsOK' /\ SpawningInv'
        /\ ClientCopyInv'
    BY <2>1 DEF IInv, TypeOK, HandlesOK, ClientsOK, BoundsOK, SpawningInv, ClientCopyInv
  <2>3. DiskOK'
    BY <1>24, <2>1 DEF IInv, TypeOK, DiskOK, AppSession, Statuses, ClientsOK, WorkersOK,
       ClientCopyInv, WorkerCopyInv, AskHeld, WorkerSaves, WorkerGoes
  <2>4. WorkersOK'
    BY <1>24, <2>1 DEF IInv, TypeOK, WorkersOK, DiskOK, HandlesOK, BoundsOK, WorkerPcs,
       AppSession, NewSession, Statuses, SpawningInv, WorkerCopyInv, AskHeld, WorkerSaves,
       WorkerGoes
  <2>5. RegistryIsLiveWorker'
    BY <1>24, <2>1 DEF IInv, TypeOK, RegistryIsLiveWorker, WorkersOK, HandlesOK, Live,
       SpawnedInv, SpawningInv, AskHeld, WorkerSaves, WorkerGoes
  <2>6. SpawnedInv'
    BY <1>24, <2>1 DEF IInv, TypeOK, SpawnedInv, WorkersOK, HandlesOK, Live,
       RegistryIsLiveWorker, SpawningInv, AskHeld, WorkerSaves, WorkerGoes
  <2>7. FreshInv'
    BY <1>24, <2>1 DEF IInv, TypeOK, FreshInv, DiskOK, ClientsOK, AppSession, HandlersIdle,
       ClientCopyInv, WorkerCopyInv, WorkersOK, AskHeld, WorkerSaves, WorkerGoes
  <2>8. WorkerCopyInv'
    BY <1>24, <2>1 DEF IInv, TypeOK, WorkerCopyInv, WorkersOK, DiskOK, AppSession, NewSession,
       FreshInv, RegistryIsLiveWorker, Live, RunOver, BoundsOK, AskHeld, WorkerSaves, WorkerGoes
  <2>. QED BY <2>2, <2>3, <2>4, <2>5, <2>6, <2>7, <2>8 DEF IInv, TypeOK

<1>25. ASSUME NEW t \in Workers, AskUser(t) PROVE IInv'
  <2>1. UNCHANGED <<registry, spawned, queue, cancelSet, whandle, wpos, progress, cpc, capp, chandle, restarts, lost>>
    BY <1>25 DEF AskUser, WorkerSaves, WorkerGoes, WithQuestion, handleVars, clientVars
  <2>2. /\ HandlesOK' /\ ClientsOK' /\ BoundsOK' /\ SpawningInv'
        /\ ClientCopyInv'
    BY <2>1 DEF IInv, TypeOK, HandlesOK, ClientsOK, BoundsOK, SpawningInv, ClientCopyInv
  <2>3. DiskOK'
    <3>1. Asked(t) \in Fields
      BY <1>25, AskedOK DEF IInv, TypeOK, WorkerCopyInv, AskUser
    <3>2. wapp[t] \in AppSession
      BY DEF IInv, TypeOK, WorkersOK
    <3>3. WithQuestion(wapp[t], Asked(t)) \in AppSession
      BY <3>1, <3>2 DEF WithQuestion, AppSession, Statuses
    <3>. QED BY <1>25, <3>3 DEF DiskOK, AskUser, WorkerSaves
  <2>4. WorkersOK'
    BY <1>25, <2>1 DEF IInv, TypeOK, WorkersOK, DiskOK, HandlesOK, BoundsOK, WorkerPcs,
       AppSession, NewSession, Statuses, SpawningInv, WorkerCopyInv, AskUser, WorkerSaves,
       WorkerGoes, WithQuestion
  <2>5. RegistryIsLiveWorker'
    BY <1>25, <2>1 DEF IInv, TypeOK, RegistryIsLiveWorker, WorkersOK, HandlesOK, Live,
       SpawnedInv, SpawningInv, AskUser, WorkerSaves, WorkerGoes, WithQuestion
  <2>6. SpawnedInv'
    BY <1>25, <2>1 DEF IInv, TypeOK, SpawnedInv, WorkersOK, HandlesOK, Live,
       RegistryIsLiveWorker, SpawningInv, AskUser, WorkerSaves, WorkerGoes, WithQuestion
  <2>7. FreshInv'
    BY <1>25, <2>1 DEF IInv, TypeOK, FreshInv, DiskOK, ClientsOK, AppSession, HandlersIdle,
       ClientCopyInv, WorkerCopyInv, WorkersOK, AskUser, WorkerSaves, WorkerGoes, WithQuestion
  <2>8. WorkerCopyInv'
    BY <1>25, <2>1 DEF IInv, TypeOK, WorkerCopyInv, WorkersOK, DiskOK, AppSession, NewSession,
       FreshInv, RegistryIsLiveWorker, Live, RunOver, BoundsOK, AskUser, WorkerSaves,
       WorkerGoes, WithQuestion
  <2>. QED BY <2>2, <2>3, <2>4, <2>5, <2>6, <2>7, <2>8 DEF IInv, TypeOK

<1>26. ASSUME NEW t \in Workers, TakeAnswer(t) PROVE IInv'
  <2>1. UNCHANGED <<disk, registry, spawned, cancelSet, whandle, progress, cpc, capp, chandle, restarts, lost>>
    BY <1>26 DEF TakeAnswer, WorkerLoads, WorkerGoes, clientVars
  <2>2. /\ DiskOK' /\ ClientsOK' /\ BoundsOK' /\ SpawningInv'
        /\ FreshInv' /\ ClientCopyInv'
    BY <2>1 DEF IInv, TypeOK, DiskOK, ClientsOK, BoundsOK, SpawningInv, FreshInv, ClientCopyInv,
       HandlersIdle
  <2>3. HandlesOK'
    <3>1. queue' \in [Workers -> Seq(Fields \cup {Cancelled})]
      <4>1. CASE whandle[t] \in Workers
        BY <1>26, <4>1 DEF IInv, TypeOK, HandlesOK, TakeAnswer
      <4>2. CASE whandle[t] \notin Workers
        BY <1>26, <4>2 DEF IInv, TypeOK, HandlesOK, TakeAnswer
      <4>. QED BY <4>1, <4>2
    <3>. QED BY <2>1, <3>1 DEF IInv, TypeOK, HandlesOK
  <2>4. WorkersOK'
    <3>1. wpos[t] < Len(Prompts) /\ wpos[t] \in 0..Len(Prompts) /\ Len(Prompts) \in Nat
      BY <1>26 DEF IInv, TypeOK, WorkersOK, WorkerCopyInv, TakeAnswer
    <3>2. wpos' \in [Workers -> 0..Len(Prompts)]
      <4>1. wpos[t] + 1 \in 0..Len(Prompts)
        BY <3>1
      <4>2. wpos' = wpos \/ wpos' = [wpos EXCEPT ![t] = @ + 1]
        BY <1>26 DEF TakeAnswer
      <4>. QED BY <4>1, <4>2 DEF IInv, TypeOK, WorkersOK
    <3>3. wpc' \in [Workers -> WorkerPcs] /\ wapp' \in [Workers -> AppSession]
      BY <1>26 DEF IInv, TypeOK, WorkersOK, DiskOK, WorkerPcs, TakeAnswer, WorkerLoads, WorkerGoes
    <3>. QED BY <2>1, <3>2, <3>3 DEF IInv, TypeOK, WorkersOK
  <2>5. RegistryIsLiveWorker'
    BY <1>26, <2>1 DEF IInv, TypeOK, RegistryIsLiveWorker, WorkersOK, HandlesOK, Live,
       SpawnedInv, SpawningInv, TakeAnswer, WorkerLoads, WorkerGoes
  <2>6. SpawnedInv'
    BY <1>26, <2>1 DEF IInv, TypeOK, SpawnedInv, WorkersOK, HandlesOK, Live,
       RegistryIsLiveWorker, SpawningInv, TakeAnswer, WorkerLoads, WorkerGoes
  <2>7. WorkerCopyInv'
    <3>1. disk.status # "new"
      BY <1>26, LiveSession DEF TakeAnswer, Live
    <3>. QED BY <1>26, <2>1, <3>1 DEF IInv, TypeOK, WorkersOK, WorkerCopyInv, TakeAnswer,
       WorkerLoads, WorkerGoes
  <2>. QED BY <2>2, <2>3, <2>4, <2>5, <2>6, <2>7 DEF IInv, TypeOK

<1>27. ASSUME NEW t \in Workers, Succeed(t) PROVE IInv'
  <2>1. UNCHANGED <<disk, registry, spawned, queue, cancelSet, whandle, wpos, cpc, capp, chandle, restarts, lost>>
    BY <1>27 DEF Succeed, WorkerLoads, WorkerGoes, EngineRecords, handleVars, clientVars
  <2>2. /\ DiskOK' /\ HandlesOK' /\ ClientsOK' /\ SpawningInv'
        /\ FreshInv' /\ ClientCopyInv'
    BY <2>1 DEF IInv, TypeOK, DiskOK, HandlesOK, ClientsOK, SpawningInv, FreshInv,
       ClientCopyInv, HandlersIdle
  <2>3. WorkersOK'
    BY <1>27, <2>1 DEF IInv, TypeOK, WorkersOK, DiskOK, HandlesOK, BoundsOK, WorkerPcs,
       AppSession, NewSession, Statuses, SpawningInv, WorkerCopyInv, Succeed, WorkerLoads,
       WorkerGoes, EngineRecords
  <2>4. BoundsOK'
    BY <1>27, <2>1 DEF IInv, TypeOK, BoundsOK, WorkersOK, Succeed, WorkerLoads, WorkerGoes,
       EngineRecords
  <2>5. RegistryIsLiveWorker'
    BY <1>27, <2>1 DEF IInv, TypeOK, RegistryIsLiveWorker, WorkersOK, HandlesOK, Live,
       SpawnedInv, SpawningInv, Succeed, WorkerLoads, WorkerGoes, EngineRecords
  <2>6. SpawnedInv'
    BY <1>27, <2>1 DEF IInv, TypeOK, SpawnedInv, WorkersOK, HandlesOK, Live,
       RegistryIsLiveWorker, SpawningInv, Succeed, WorkerLoads, WorkerGoes, EngineRecords
  <2>7. WorkerCopyInv'
    <3>1. disk.status # "new"
      BY <1>27, LiveSession DEF Succeed, Live
    <3>. QED BY <1>27, <2>1, <3>1 DEF IInv, TypeOK, WorkersOK, WorkerCopyInv, Succeed,
       WorkerLoads, WorkerGoes
  <2>. QED BY <2>2, <2>3, <2>4, <2>5, <2>6, <2>7 DEF IInv, TypeOK

<1>28. ASSUME NEW t \in Workers, SuccessSave(t) PROVE IInv'
  <2>1. UNCHANGED <<registry, spawned, queue, cancelSet, whandle, wpos, progress, cpc, capp, chandle, restarts, lost>>
    BY <1>28 DEF SuccessSave, WorkerSaves, WorkerGoes, handleVars, clientVars
  <2>2. /\ HandlesOK' /\ ClientsOK' /\ BoundsOK' /\ SpawningInv'
        /\ ClientCopyInv'
    BY <2>1 DEF IInv, TypeOK, HandlesOK, ClientsOK, BoundsOK, SpawningInv, ClientCopyInv
  <2>3. DiskOK'
    BY <1>28, <2>1 DEF IInv, TypeOK, DiskOK, AppSession, Statuses, ClientsOK, WorkersOK,
       ClientCopyInv, WorkerCopyInv, SuccessSave, WorkerSaves, WorkerGoes
  <2>4. WorkersOK'
    BY <1>28, <2>1 DEF IInv, TypeOK, WorkersOK, DiskOK, HandlesOK, BoundsOK, WorkerPcs,
       AppSession, NewSession, Statuses, SpawningInv, WorkerCopyInv, SuccessSave, WorkerSaves,
       WorkerGoes
  <2>5. RegistryIsLiveWorker'
    BY <1>28, <2>1 DEF IInv, TypeOK, RegistryIsLiveWorker, WorkersOK, HandlesOK, Live,
       SpawnedInv, SpawningInv, SuccessSave, WorkerSaves, WorkerGoes
  <2>6. SpawnedInv'
    BY <1>28, <2>1 DEF IInv, TypeOK, SpawnedInv, WorkersOK, HandlesOK, Live,
       RegistryIsLiveWorker, SpawningInv, SuccessSave, WorkerSaves, WorkerGoes
  <2>7. FreshInv'
    BY <1>28, <2>1 DEF IInv, TypeOK, FreshInv, DiskOK, ClientsOK, AppSession, HandlersIdle,
       ClientCopyInv, WorkerCopyInv, WorkersOK, SuccessSave, WorkerSaves, WorkerGoes
  <2>8. WorkerCopyInv'
    BY <1>28, <2>1 DEF IInv, TypeOK, WorkerCopyInv, WorkersOK, DiskOK, AppSession, NewSession,
       FreshInv, RegistryIsLiveWorker, Live, RunOver, BoundsOK, SuccessSave, WorkerSaves,
       WorkerGoes
  <2>. QED BY <2>2, <2>3, <2>4, <2>5, <2>6, <2>7, <2>8 DEF IInv, TypeOK

<1>29. ASSUME NEW t \in Workers, Fail(t) PROVE IInv'
  <2>1. UNCHANGED <<disk, registry, spawned, queue, cancelSet, whandle, wpos, cpc, capp, chandle, restarts, lost>>
    BY <1>29 DEF Fail, WorkerLoads, WorkerGoes, EngineRecords, handleVars, clientVars
  <2>2. /\ DiskOK' /\ HandlesOK' /\ ClientsOK' /\ SpawningInv'
        /\ FreshInv' /\ ClientCopyInv'
    BY <2>1 DEF IInv, TypeOK, DiskOK, HandlesOK, ClientsOK, SpawningInv, FreshInv,
       ClientCopyInv, HandlersIdle
  <2>3. WorkersOK'
    BY <1>29, <2>1 DEF IInv, TypeOK, WorkersOK, DiskOK, HandlesOK, BoundsOK, WorkerPcs,
       AppSession, NewSession, Statuses, SpawningInv, WorkerCopyInv, Fail, WorkerLoads,
       WorkerGoes, EngineRecords
  <2>4. BoundsOK'
    BY <1>29, <2>1 DEF IInv, TypeOK, BoundsOK, WorkersOK, Fail, WorkerLoads, WorkerGoes,
       EngineRecords
  <2>5. RegistryIsLiveWorker'
    BY <1>29, <2>1 DEF IInv, TypeOK, RegistryIsLiveWorker, WorkersOK, HandlesOK, Live,
       SpawnedInv, SpawningInv, Fail, WorkerLoads, WorkerGoes, EngineRecords
  <2>6. SpawnedInv'
    BY <1>29, <2>1 DEF IInv, TypeOK, SpawnedInv, WorkersOK, HandlesOK, Live,
       RegistryIsLiveWorker, SpawningInv, Fail, WorkerLoads, WorkerGoes, EngineRecords
  <2>7. WorkerCopyInv'
    <3>1. disk.status # "new"
      BY <1>29, LiveSession DEF Fail, Live
    <3>. QED BY <1>29, <2>1, <3>1 DEF IInv, TypeOK, WorkersOK, WorkerCopyInv, Fail, WorkerLoads,
       WorkerGoes
  <2>. QED BY <2>2, <2>3, <2>4, <2>5, <2>6, <2>7 DEF IInv, TypeOK

<1>30. ASSUME NEW t \in Workers, ErrorSave(t) PROVE IInv'
  <2>1. UNCHANGED <<registry, spawned, queue, cancelSet, whandle, wpos, progress, cpc, capp, chandle, restarts, lost>>
    BY <1>30 DEF ErrorSave, WorkerSaves, WorkerGoes, WithError, handleVars, clientVars
  <2>2. /\ HandlesOK' /\ ClientsOK' /\ BoundsOK' /\ SpawningInv'
        /\ ClientCopyInv'
    BY <2>1 DEF IInv, TypeOK, HandlesOK, ClientsOK, BoundsOK, SpawningInv, ClientCopyInv
  <2>3. DiskOK'
    BY <1>30, <2>1 DEF IInv, TypeOK, DiskOK, AppSession, Statuses, ClientsOK, WorkersOK,
       ClientCopyInv, WorkerCopyInv, ErrorSave, WorkerSaves, WorkerGoes, WithError
  <2>4. WorkersOK'
    BY <1>30, <2>1 DEF IInv, TypeOK, WorkersOK, DiskOK, HandlesOK, BoundsOK, WorkerPcs,
       AppSession, NewSession, Statuses, SpawningInv, WorkerCopyInv, ErrorSave, WorkerSaves,
       WorkerGoes, WithError
  <2>5. RegistryIsLiveWorker'
    BY <1>30, <2>1 DEF IInv, TypeOK, RegistryIsLiveWorker, WorkersOK, HandlesOK, Live,
       SpawnedInv, SpawningInv, ErrorSave, WorkerSaves, WorkerGoes, WithError
  <2>6. SpawnedInv'
    BY <1>30, <2>1 DEF IInv, TypeOK, SpawnedInv, WorkersOK, HandlesOK, Live,
       RegistryIsLiveWorker, SpawningInv, ErrorSave, WorkerSaves, WorkerGoes, WithError
  <2>7. FreshInv'
    BY <1>30, <2>1 DEF IInv, TypeOK, FreshInv, DiskOK, ClientsOK, AppSession, HandlersIdle,
       ClientCopyInv, WorkerCopyInv, WorkersOK, ErrorSave, WorkerSaves, WorkerGoes, WithError
  <2>8. WorkerCopyInv'
    BY <1>30, <2>1 DEF IInv, TypeOK, WorkerCopyInv, WorkersOK, DiskOK, AppSession, NewSession,
       FreshInv, RegistryIsLiveWorker, Live, RunOver, BoundsOK, ErrorSave, WorkerSaves,
       WorkerGoes, WithError
  <2>. QED BY <2>2, <2>3, <2>4, <2>5, <2>6, <2>7, <2>8 DEF IInv, TypeOK

<1>31. ASSUME NEW t \in Workers, Unregister(t) PROVE IInv'
  <2>1. UNCHANGED <<disk, spawned, queue, cancelSet, wapp, whandle, wpos, progress, cpc, capp, chandle, restarts, lost>>
    BY <1>31 DEF Unregister, WorkerGoes, clientVars
  <2>2. /\ DiskOK' /\ ClientsOK' /\ BoundsOK' /\ ClientCopyInv'
    BY <2>1 DEF IInv, TypeOK, DiskOK, ClientsOK, BoundsOK, ClientCopyInv
  <2>3. HandlesOK'
    BY <1>31, <2>1 DEF IInv, TypeOK, HandlesOK, SpawningInv, ClientsOK, WorkersOK,
       ClientCopyInv, Unregister, WorkerGoes
  <2>4. WorkersOK'
    BY <1>31, <2>1 DEF IInv, TypeOK, WorkersOK, DiskOK, HandlesOK, BoundsOK, WorkerPcs,
       AppSession, NewSession, Statuses, SpawningInv, WorkerCopyInv, Unregister, WorkerGoes
  <2>5. RegistryIsLiveWorker'
    <3>1. registry = t
      BY <1>31 DEF IInv, RegistryIsLiveWorker, Live, Unregister
    <3>2. \A s \in Workers \ {t} : ~Live(s)
      BY <3>1 DEF IInv, RegistryIsLiveWorker
    <3>3. \A s \in Workers : ~Live(s)'
      BY <1>31, <3>2 DEF IInv, TypeOK, WorkersOK, Live, Unregister, WorkerGoes
    <3>. QED BY <1>31, <3>3 DEF RegistryIsLiveWorker, Unregister
  <2>6. SpawnedInv'
    BY <1>31, <2>1 DEF IInv, TypeOK, SpawnedInv, WorkersOK, HandlesOK, Live,
       RegistryIsLiveWorker, SpawningInv, Unregister, WorkerGoes
  <2>7. SpawningInv'
    BY <1>31, <2>1 DEF IInv, TypeOK, SpawningInv, ClientsOK, HandlesOK, OneStarter, Starter,
       FreshInv, HandlersIdle, CanSpawn, Spawning, Unregister, WorkerGoes
  <2>8. FreshInv'
    BY <1>31, <2>1 DEF IInv, TypeOK, FreshInv, DiskOK, ClientsOK, AppSession, HandlersIdle,
       ClientCopyInv, WorkerCopyInv, WorkersOK, Unregister, WorkerGoes
  <2>9. WorkerCopyInv'
    BY <1>31, <2>1 DEF IInv, TypeOK, WorkerCopyInv, WorkersOK, DiskOK, AppSession, NewSession,
       FreshInv, RegistryIsLiveWorker, Live, RunOver, BoundsOK, Unregister, WorkerGoes
  <2>. QED BY <2>2, <2>3, <2>4, <2>5, <2>6, <2>7, <2>8, <2>9 DEF IInv, TypeOK

<1>32. ASSUME Restart PROVE IInv'
  <2>1. disk' \in AppSession
    BY <1>32 DEF IInv, TypeOK, DiskOK, Restart, Reconciled, WithError, AppSession, Statuses
  <2>2. DiskOK' /\ WorkersOK' /\ ClientsOK'
    BY <1>32, <2>1, NewSessionOK DEF DiskOK, WorkersOK, ClientsOK, WorkerPcs, ClientPcs, Restart
  <2>3. HandlesOK' /\ BoundsOK'
    <3>1. lost' \in BOOLEAN
      BY <1>32, Zenon DEF Restart
    <3>. QED BY <1>32, <3>1 DEF IInv, TypeOK, HandlesOK, BoundsOK, Restart
  <2>4. RegistryIsLiveWorker' /\ SpawnedInv' /\ SpawningInv'
    BY <1>32 DEF RegistryIsLiveWorker, SpawnedInv, SpawningInv, Live, Restart
  <2>5. FreshInv' /\ ClientCopyInv' /\ WorkerCopyInv'
    BY <1>32 DEF FreshInv, ClientCopyInv, WorkerCopyInv, HandlersIdle, Restart
  <2>. QED BY <2>2, <2>3, <2>4, <2>5 DEF IInv, TypeOK

<1>34. ASSUME NEW c \in Clients, Launch(c) PROVE IInv'
  <2>1. UNCHANGED <<disk, registry, spawned, queue, cancelSet, wapp, whandle, wpos, progress, restarts, lost>>
    BY <1>34 DEF Launch, Returns, handleVars
  <2>2. /\ DiskOK' /\ HandlesOK' /\ BoundsOK'
    BY <2>1 DEF IInv, TypeOK, DiskOK, HandlesOK, BoundsOK
  <2>3. chandle[c] \in Workers /\ wpc[chandle[c]] = "created"
    BY <1>34 DEF LaunchInv, Launch
  <2>4. WorkersOK'
    BY <1>34, <2>1 DEF IInv, TypeOK, WorkersOK, WorkerPcs, Launch
  <2>5. ClientsOK'
    BY <1>34, <2>1, NewSessionOK DEF IInv, TypeOK, ClientsOK, ClientPcs, Launch, Returns
  <2>6. RegistryIsLiveWorker'
    BY <1>34, <2>1, <2>3 DEF IInv, TypeOK, RegistryIsLiveWorker, WorkersOK, Live, Launch
  <2>7. SpawnedInv'
    BY <1>34, <2>1, <2>3 DEF IInv, TypeOK, SpawnedInv, WorkersOK, Launch
  <2>8. SpawningInv'
    BY <1>34, <2>1 DEF IInv, TypeOK, SpawningInv, ClientsOK, Launch, Returns
  <2>9. FreshInv'
    BY <1>34, <2>1 DEF IInv, TypeOK, FreshInv, ClientsOK, HandlersIdle, Launch, Returns
  <2>10. ClientCopyInv'
    BY <1>34, <2>1 DEF IInv, TypeOK, ClientCopyInv, ClientsOK, Launch, Returns
  <2>11. WorkerCopyInv'
    BY <1>34, <2>1, <2>3 DEF IInv, TypeOK, WorkerCopyInv, WorkersOK, Launch
  <2>. QED BY <2>2, <2>4, <2>5, <2>6, <2>7, <2>8, <2>9, <2>10, <2>11 DEF IInv, TypeOK

<1>35. ASSUME NEW c \in Clients, StartRaises(c) PROVE IInv'
  <2>1. UNCHANGED <<disk, registry, spawned, queue, cancelSet, wpc, wapp, whandle, wpos, progress, restarts>>
    BY <1>35 DEF StartRaises, Returns, handleVars, workerVars
  <2>2. BoundsOK'
    BY <1>35, <2>1 DEF IInv, TypeOK, BoundsOK, StartRaises
  <2>3. /\ DiskOK' /\ HandlesOK' /\ WorkersOK' /\ RegistryIsLiveWorker'
        /\ SpawnedInv' /\ WorkerCopyInv'
    BY <2>1 DEF IInv, TypeOK, DiskOK, HandlesOK, WorkersOK, RegistryIsLiveWorker, SpawnedInv,
       WorkerCopyInv, Live
  <2>4. ClientsOK'
    BY <1>35, <2>1, NewSessionOK DEF IInv, TypeOK, ClientsOK, DiskOK, ClientPcs, StartRaises, Returns
  <2>5. SpawningInv'
    BY <1>35, <2>1 DEF IInv, TypeOK, SpawningInv, ClientsOK, StartRaises, Returns
  <2>6. FreshInv'
    BY <1>35, <2>1 DEF IInv, TypeOK, FreshInv, ClientsOK, HandlersIdle, StartRaises, Returns
  <2>7. ClientCopyInv'
    BY <1>35, <2>1 DEF IInv, TypeOK, ClientCopyInv, ClientsOK, FreshInv, HandlersIdle, StartRaises, Returns
  <2>. QED BY <2>2, <2>3, <2>4, <2>5, <2>6, <2>7 DEF IInv, TypeOK

<1>36. ASSUME NEW c \in Clients, ResumeRaises(c) PROVE IInv'
  <2>1. UNCHANGED <<disk, registry, spawned, queue, cancelSet, wpc, wapp, whandle, wpos, progress, restarts, lost>>
    BY <1>36 DEF ResumeRaises, Returns, handleVars, workerVars
  <2>2. BoundsOK'
    BY <2>1 DEF IInv, TypeOK, BoundsOK
  <2>3. /\ DiskOK' /\ HandlesOK' /\ WorkersOK' /\ RegistryIsLiveWorker'
        /\ SpawnedInv' /\ WorkerCopyInv'
    BY <2>1 DEF IInv, TypeOK, DiskOK, HandlesOK, WorkersOK, RegistryIsLiveWorker, SpawnedInv,
       WorkerCopyInv, Live
  <2>4. ClientsOK'
    BY <1>36, <2>1, NewSessionOK DEF IInv, TypeOK, ClientsOK, DiskOK, ClientPcs, ResumeRaises, Returns
  <2>5. SpawningInv'
    BY <1>36, <2>1 DEF IInv, TypeOK, SpawningInv, ClientsOK, ResumeRaises, Returns
  <2>6. FreshInv'
    BY <1>36, <2>1 DEF IInv, TypeOK, FreshInv, ClientsOK, HandlersIdle, ResumeRaises, Returns
  <2>7. ClientCopyInv'
    BY <1>36, <2>1 DEF IInv, TypeOK, ClientCopyInv, ClientsOK, FreshInv, HandlersIdle, ResumeRaises, Returns
  <2>. QED BY <2>2, <2>3, <2>4, <2>5, <2>6, <2>7 DEF IInv, TypeOK

<1>37. ASSUME NEW c \in Clients, ResumeReload(c) PROVE IInv'
  <2>1. UNCHANGED <<disk, registry, spawned, queue, cancelSet, wpc, wapp, whandle, wpos, progress, restarts, lost>>
    BY <1>37 DEF ResumeReload, Loads, handleVars, workerVars
  <2>2. BoundsOK'
    BY <2>1 DEF IInv, TypeOK, BoundsOK
  <2>3. /\ DiskOK' /\ HandlesOK' /\ WorkersOK' /\ RegistryIsLiveWorker'
        /\ SpawnedInv' /\ WorkerCopyInv'
    BY <2>1 DEF IInv, TypeOK, DiskOK, HandlesOK, WorkersOK, RegistryIsLiveWorker, SpawnedInv,
       WorkerCopyInv, Live
  <2>4. ClientsOK'
    BY <1>37, <2>1, NewSessionOK DEF IInv, TypeOK, ClientsOK, DiskOK, ClientPcs, ResumeReload, Loads
  <2>5. SpawningInv'
    BY <1>37, <2>1 DEF IInv, TypeOK, SpawningInv, ClientsOK, ResumeReload, Loads
  <2>6. FreshInv'
    BY <1>37, <2>1 DEF IInv, TypeOK, FreshInv, ClientsOK, HandlersIdle, ResumeReload, Loads
  <2>7. ClientCopyInv'
    BY <1>37, <2>1 DEF IInv, TypeOK, ClientCopyInv, ClientsOK, FreshInv, HandlersIdle, ResumeReload, Loads
  <2>. QED BY <2>2, <2>3, <2>4, <2>5, <2>6, <2>7 DEF IInv, TypeOK

<1>38. ASSUME NEW c \in Clients, ResumeRecover(c) PROVE IInv'
  <2>1. UNCHANGED <<registry, spawned, queue, cancelSet, wpc, wapp, whandle, wpos, capp, chandle, restarts, lost>>
    BY <1>38 DEF ResumeRecover, Goes, handleVars
  <2>2. /\ HandlesOK' /\ WorkersOK' /\ RegistryIsLiveWorker' /\ SpawnedInv' /\ WorkerCopyInv'
    BY <2>1 DEF IInv, TypeOK, HandlesOK, WorkersOK, RegistryIsLiveWorker, SpawnedInv,
       WorkerCopyInv, Live
  <2>3. DiskOK' /\ BoundsOK'
    BY <1>38, <2>1 DEF IInv, TypeOK, DiskOK, BoundsOK, ClientsOK, ResumeRecover
  <2>4. ClientsOK'
    BY <1>38, <2>1 DEF IInv, TypeOK, ClientsOK, ClientPcs, ResumeRecover, Goes
  <2>5. SpawningInv'
    BY <1>38, <2>1 DEF IInv, TypeOK, SpawningInv, ClientsOK, ResumeRecover, Goes
  <2>6. FreshInv'
    BY <1>38, <2>1 DEF IInv, FreshInv, ClientCopyInv, ResumeRecover
  <2>7. ClientCopyInv'
    BY <1>38, <2>1 DEF IInv, TypeOK, ClientCopyInv, ClientsOK, ResumeRecover, Goes
  <2>. QED BY <2>2, <2>3, <2>4, <2>5, <2>6, <2>7 DEF IInv, TypeOK

<1>33. ASSUME UNCHANGED vars PROVE IInv'
  BY <1>33 DEF vars, handleVars, workerVars, clientVars, IInv, TypeOK, DiskOK, HandlesOK, WorkersOK,
     ClientsOK, BoundsOK, RegistryIsLiveWorker, Live, SpawnedInv, SpawningInv, FreshInv, HandlersIdle,
     ClientCopyInv, WorkerCopyInv
<1>. QED
  BY <1>1, <1>2, <1>3, <1>4, <1>5, <1>6, <1>7, <1>8, <1>9, <1>10, <1>11, <1>12, <1>13, <1>14, <1>15, <1>16, <1>17,
     <1>18, <1>19, <1>20, <1>21, <1>22, <1>23, <1>24, <1>25, <1>26, <1>27, <1>28, <1>29, <1>30, <1>31, <1>32, <1>33, <1>34, <1>35, <1>36, <1>37, <1>38
  DEF Next, Request, HandlerStep, WorkerStep

\* Where thread.start() is next, the registered thread has not run.
LEMMA LaunchStep == ASSUME OneStarter, IInv, LaunchInv, [Next]_vars PROVE LaunchInv'
<1>. USE DEF LaunchInv
<1>t. /\ DOMAIN cpc = Clients /\ DOMAIN chandle = Clients /\ DOMAIN wpc = Workers
  BY DEF IInv, TypeOK, ClientsOK, WorkersOK
<1>1. CASE UNCHANGED vars
  BY <1>1 DEF vars, workerVars, clientVars
<1>2. ASSUME NEW c \in Clients, Register(c) PROVE LaunchInv'
  <2>1. spawned + 1 \in Workers /\ Starter(c) /\ wpc'[spawned + 1] = "created"
    BY <1>2, <1>t, BoundsAssumption
       DEF Register, IInv, TypeOK, HandlesOK, SpawningInv, SpawnPcs, Workers
  <2>2. \A d \in Clients \ {c} : cpc[d] # "launch"
    BY <1>2, <2>1 DEF OneStarter
  <2>. QED BY <1>2, <1>t, <2>1, <2>2 DEF Register, Goes
<1>3. ASSUME NEW c \in Clients, Launch(c) PROVE LaunchInv'
  <2>1. Starter(c) /\ \A d \in Clients \ {c} : cpc[d] # "launch"
    BY <1>3 DEF OneStarter, Launch
  <2>. QED BY <1>3, <1>t, <2>1 DEF Launch, Returns
<1>4. ASSUME NEW c \in Clients, Request(c) \/ HandlerStep(c), ~Register(c), ~Launch(c)
      PROVE  LaunchInv'
  <2>1. UNCHANGED wpc /\ \A d \in Clients : cpc'[d] = "launch" => cpc[d] = "launch" /\ chandle'[d] = chandle[d]
    <3>1. CASE Request(c)
      BY <3>1, <1>t DEF Request, Start, ResumeLoad, AnswerLoad, CancelHandle, UploadLoad, UnlockLoad,
         Receives, Loads, Goes, workerVars, clientVars
    <3>2. CASE StartRaises(c) \/ ResumeCheck(c) \/ ResumeRaises(c) \/ ResumeRecover(c)
               \/ ResumeReload(c) \/ ResumeSave(c)
      BY <3>2, <1>t DEF StartRaises, ResumeCheck, ResumeRaises, ResumeRecover, ResumeReload,
         ResumeSave, Loads, Goes, Returns, workerVars
    <3>3. CASE AnswerHandle(c) \/ AnswerInterpret(c) \/ AnswerPut(c)
      BY <3>3, <1>t DEF AnswerHandle, AnswerInterpret, AnswerPut, Goes, Returns, workerVars
    <3>4. CASE CancelLoad(c) \/ CancelSave(c) \/ CancelPut(c) \/ UploadSave(c) \/ UnlockSave(c)
      BY <3>4, <1>t DEF CancelLoad, CancelSave, CancelPut, UploadSave, UnlockSave, Loads, Goes,
         Returns, workerVars
    <3>. QED BY <1>4, <3>1, <3>2, <3>3, <3>4 DEF HandlerStep
  <2>. QED BY <2>1
<1>5. ASSUME NEW t \in Workers, WorkerStep(t) PROVE LaunchInv'
  <2>1. /\ wpc[t] # "created" /\ UNCHANGED <<cpc, chandle>>
        /\ \A u \in Workers \ {t} : wpc'[u] = wpc[u]
    BY <1>5, <1>t DEF WorkerStep, WorkerStart, ConfirmTarget, ConfirmSave, Output, OutputSave, Ask,
       AskHeld, AskUser, TakeAnswer, Succeed, SuccessSave, Fail, ErrorSave, Unregister,
       WorkerLoads, WorkerSaves, WorkerGoes, clientVars
  <2>. QED BY <2>1
<1>6. CASE Restart
  BY <1>6 DEF Restart
<1>. QED BY <1>1, <1>2, <1>3, <1>4, <1>5, <1>6 DEF Next

\* start_session: no thread is registered before the first request.
LEMMA LaunchInit == Init => LaunchInv
  BY DEF Init, LaunchInv

\* The states of every behaviour have the declared types.
THEOREM TypeCorrect == ASSUME OneStarter PROVE Spec => []TypeOK
<1>1. IInv => TypeOK
  BY DEF IInv
<1>. QED BY <1>1, InitInv, StepInv, LaunchInit, LaunchStep, PTL DEF Spec

\* At most one worker thread drives the session, with any number of windows that answer,
\* upload, cancel and unlock meanwhile (resume_session).
THEOREM OneDriverHolds == ASSUME OneStarter PROVE Spec => []OneDriver
<1>1. IInv => OneDriver
  BY DEF IInv, OneDriver, RegistryIsLiveWorker
<1>. QED BY <1>1, InitInv, StepInv, LaunchInit, LaunchStep, PTL DEF Spec

\* The registry names exactly the thread that is alive (has_active_worker).
THEOREM RegistryHolds == ASSUME OneStarter PROVE Spec => []RegistryIsLiveWorker
<1>1. IInv => RegistryIsLiveWorker
  BY DEF IInv
<1>. QED BY <1>1, InitInv, StepInv, LaunchInit, LaunchStep, PTL DEF Spec

(***************************************************************************)
(* One window.  If nobody else starts, resumes and answers, and nobody     *)
(* uploads, cancels or unlocks (whose handlers write back a copy that may  *)
(* be old), the record, the threads, the queues and the handlers agree at  *)
(* every step: whoever writes the record has the copy that is on disk.     *)
(***************************************************************************)
OneWindow(w) == w \in Clients /\ Requests \subseteq {w} \X {"start", "resume", "answer"}

Working == {"created", "start", "boot", "confirm", "run", "output", "ready", "ask", "succeed", "error"}
Loaded == {"confirm", "output", "ask", "succeed", "error"}

\* The window's handler: a copy it decides on is what is on disk, and from the moment it
\* interprets an answer until it hands it over, the thread it knows waits for it.
WindowInv(w) ==
    /\ \A d \in Clients : d # w => cpc[d] = "idle"
    /\ cpc[w] \notin {"cancel", "cancelLoaded", "cancelPut", "upload", "unlock"}
    /\ cpc[w] \in {"voices", "spawn", "launch"} => disk.status = "running"
    /\ cpc[w] \in {"resume", "resuming", "recovered", "reloaded"} =>
           capp[w] = disk /\ disk.status \in {"failed", "awaiting_input"}
    /\ cpc[w] \in {"submit", "interpret"} => capp[w] = disk /\ disk.status = "awaiting_input"
    /\ cpc[w] \in {"interpret", "put"} =>
           /\ chandle[w] = registry /\ registry # NoHandle
           /\ wpc[registry] = "wait" /\ queue[registry] = <<>>
    /\ cpc[w] = "put" => disk.status = "running" /\ capp[w].pending = Asked(registry)

\* A thread: its copy is what is on disk, the session is running until it asks or ends, and
\* what it waits for is shown, or being handed over, or in its queue.
ThreadInv(w, t) ==
    /\ wpc[t] \in Loaded => wapp[t] = disk
    /\ wpc[t] \in Working => disk.status = "running"
    /\ wpc[t] = "final" => disk.status \in {"completed", "failed"}
    /\ wpc[t] \notin {"none", "created", "start", "dead"} => whandle[t] = t
    /\ queue[t] # <<>> => wpc[t] = "wait" /\ queue[t] = <<Asked(t)>> /\ disk.status = "running"
    /\ wpc[t] = "wait" /\ queue[t] = <<>> /\ cpc[w] # "put" =>
           disk.status = "awaiting_input" /\ disk.pending = Asked(t)

DrivenInv(w) ==
    disk.status = "running" => registry # NoHandle \/ cpc[w] \in {"voices", "spawn"} \/ lost

ServedInv(w) ==
    /\ WindowInv(w)
    /\ \A t \in Workers : ThreadInv(w, t)
    /\ DrivenInv(w)

\* One window is one that starts.
LEMMA OneWindowStarts == ASSUME NEW w, OneWindow(w) PROVE OneStarter
  BY DEF OneWindow, OneStarter, Starter

\* start_session: before the session exists there is nothing to agree on.
LEMMA ServedInit == ASSUME NEW w, OneWindow(w), Init PROVE ServedInv(w)
  BY DEF OneWindow, Init, ServedInv, WindowInv, ThreadInv, DrivenInv, Working, Loaded, NewSession

\* Requests the window does not send, and the handlers they would start.
LEMMA OnlyTheWindow ==
    ASSUME NEW w, OneWindow(w), ServedInv(w), NEW c \in Clients, Request(c) \/ HandlerStep(c)
    PROVE  /\ c = w
           /\ \/ Start(w) \/ ResumeLoad(w) \/ AnswerLoad(w)
              \/ StartRaises(w) \/ Register(w) \/ Launch(w)
              \/ ResumeCheck(w) \/ ResumeRaises(w) \/ ResumeRecover(w)
              \/ ResumeReload(w) \/ ResumeSave(w)
              \/ AnswerHandle(w) \/ AnswerInterpret(w) \/ AnswerPut(w)
<1>1. CASE Request(c)
  BY <1>1 DEF Request, OneWindow, Receives, Start, ResumeLoad, AnswerLoad, CancelHandle, UploadLoad,
     UnlockLoad
<1>2. CASE HandlerStep(c)
  <2>1. c = w
    BY <1>2 DEF ServedInv, WindowInv, HandlerStep, StartRaises, Register, Launch, ResumeCheck,
       ResumeRaises, ResumeRecover, ResumeReload, ResumeSave, AnswerHandle, AnswerInterpret,
       AnswerPut, CancelLoad, CancelSave, CancelPut, UploadSave, UnlockSave
  <2>2. ~(CancelLoad(c) \/ CancelSave(c) \/ CancelPut(c) \/ UploadSave(c) \/ UnlockSave(c))
    BY <2>1 DEF ServedInv, WindowInv, CancelLoad, CancelSave, CancelPut, UploadSave, UnlockSave
  <2>. QED BY <1>2, <2>1, <2>2 DEF HandlerStep
<1>. QED BY <1>1, <1>2

\* At rest nothing but the window's handler changes: what the threads hold stays.
LEMMA ServedHandler ==
    ASSUME NEW w, OneWindow(w), IInv, LaunchInv, ServedInv(w), NEW c \in Clients, Request(c) \/ HandlerStep(c)
    PROVE  ServedInv(w)'
<1>. USE DEF OneWindow
<1>t. /\ DOMAIN cpc = Clients /\ DOMAIN capp = Clients /\ DOMAIN chandle = Clients
      /\ DOMAIN wpc = Workers /\ DOMAIN queue = Workers /\ w \in Clients
      /\ registry \in Workers \cup {NoHandle} /\ NoHandle \notin Workers
      /\ disk \in AppSession /\ capp[w] \in AppSession
  BY DEF IInv, TypeOK, ClientsOK, WorkersOK, HandlesOK, DiskOK, Workers, NoHandle
<1>1. CASE Start(w)
  <2>1. /\ UNCHANGED <<registry, queue, wpc, wapp, whandle, wpos>>
        /\ registry = NoHandle /\ cpc[w] = "idle"
        /\ disk'.status \in {"failed", "running"} /\ (disk'.status = "running" => cpc'[w] = "voices")
        /\ cpc'[w] \in {"voices", "idle"} /\ (cpc'[w] = "voices" => disk'.status = "running")
        /\ \A d \in Clients \ {w} : cpc'[d] = cpc[d]
    BY <1>1, <1>t DEF Start, Receives, Goes, handleVars, workerVars, clientVars, IInv, FreshInv, AppSession
  <2>2. \A t \in Workers : wpc[t] \in {"none", "dead"}
    BY <2>1, <1>t DEF IInv, RegistryIsLiveWorker, Live
  <2>3. WindowInv(w)'
    BY <2>1, <1>t DEF ServedInv, WindowInv
  <2>4. ASSUME NEW t \in Workers PROVE ThreadInv(w, t)'
    BY <2>1, <2>2 DEF ServedInv, ThreadInv, Working, Loaded
  <2>5. DrivenInv(w)'
    BY <2>1 DEF DrivenInv
  <2>. QED BY <2>3, <2>4, <2>5 DEF ServedInv
<1>2. CASE ResumeLoad(w)
  <2>1. /\ UNCHANGED <<disk, registry, queue, wpc, wapp, whandle, wpos, chandle, lost>>
        /\ cpc' = [cpc EXCEPT ![w] = "resume"] /\ capp' = [capp EXCEPT ![w] = disk]
        /\ disk.status \in {"failed", "awaiting_input"} /\ cpc[w] = "idle"
    BY <1>2 DEF ResumeLoad, Receives, Loads, Resumable, handleVars, workerVars
  <2>2. WindowInv(w)'
    BY <2>1, <1>t DEF ServedInv, WindowInv
  <2>3. ASSUME NEW t \in Workers PROVE ThreadInv(w, t)'
    BY <2>1, <1>t DEF ServedInv, ThreadInv, Asked
  <2>4. DrivenInv(w)'
    BY <2>1, <1>t DEF DrivenInv, ServedInv
  <2>. QED BY <2>2, <2>3, <2>4 DEF ServedInv
<1>3. CASE AnswerLoad(w)
  <2>1. /\ UNCHANGED <<disk, registry, queue, wpc, wapp, whandle, wpos, chandle, lost>>
        /\ cpc' = [cpc EXCEPT ![w] = "submit"] /\ capp' = [capp EXCEPT ![w] = disk]
        /\ disk.status = "awaiting_input" /\ cpc[w] = "idle"
    BY <1>3 DEF AnswerLoad, Receives, Loads, handleVars, workerVars
  <2>2. WindowInv(w)'
    BY <2>1, <1>t DEF ServedInv, WindowInv
  <2>3. ASSUME NEW t \in Workers PROVE ThreadInv(w, t)'
    BY <2>1, <1>t DEF ServedInv, ThreadInv, Asked
  <2>4. DrivenInv(w)'
    BY <2>1, <1>t DEF DrivenInv, ServedInv
  <2>. QED BY <2>2, <2>3, <2>4 DEF ServedInv
<1>4. CASE Register(w)
  <2>1. /\ UNCHANGED <<disk, queue, wapp, whandle, wpos>>
        /\ registry = NoHandle /\ registry' = spawned + 1 /\ registry' \in Workers
        /\ wpc' = [wpc EXCEPT ![registry'] = "created"]
        /\ cpc' = [cpc EXCEPT ![w] = "launch"] /\ cpc[w] \in {"voices", "spawn"}
        /\ disk.status = "running"
    BY <1>4, <1>t, BoundsAssumption
       DEF Register, Goes, IInv, TypeOK, HandlesOK, SpawningInv, SpawnPcs, ServedInv, WindowInv, Workers
  <2>2. \A t \in Workers : wpc[t] \in {"none", "dead"}
    BY <2>1, <1>t DEF IInv, RegistryIsLiveWorker, Live
  <2>3. WindowInv(w)'
    BY <2>1, <1>t DEF ServedInv, WindowInv
  <2>4. ASSUME NEW t \in Workers PROVE ThreadInv(w, t)'
    BY <2>1, <2>2, <1>t DEF ServedInv, ThreadInv, Working, Loaded, Asked
  <2>5. DrivenInv(w)'
    BY <2>1, <1>t DEF DrivenInv
  <2>. QED BY <2>3, <2>4, <2>5 DEF ServedInv
<1>10. CASE Launch(w)
  <2>1. /\ UNCHANGED <<disk, registry, queue, wapp, whandle, wpos, lost>>
        /\ cpc' = [cpc EXCEPT ![w] = "idle"] /\ cpc[w] = "launch" /\ disk.status = "running"
        /\ chandle[w] \in Workers /\ wpc[chandle[w]] = "created"
        /\ wpc' = [wpc EXCEPT ![chandle[w]] = "start"]
    BY <1>10 DEF Launch, Returns, LaunchInv, ServedInv, WindowInv, handleVars
  <2>2. registry = chandle[w] /\ registry # NoHandle
    BY <2>1, <1>t DEF IInv, RegistryIsLiveWorker, Live
  <2>3. WindowInv(w)'
    BY <2>1, <1>t DEF ServedInv, WindowInv
  <2>4. ASSUME NEW t \in Workers PROVE ThreadInv(w, t)'
    BY <2>1, <1>t DEF ServedInv, ThreadInv, Working, Loaded, Asked
  <2>5. DrivenInv(w)'
    BY <2>1, <2>2 DEF DrivenInv
  <2>. QED BY <2>3, <2>4, <2>5 DEF ServedInv
<1>11. CASE StartRaises(w)
  <2>1. /\ UNCHANGED <<disk, registry, queue, wpc, wapp, whandle, wpos>> /\ lost'
        /\ cpc' = [cpc EXCEPT ![w] = "idle"] /\ cpc[w] = "voices"
    BY <1>11 DEF StartRaises, Returns, handleVars, workerVars
  <2>2. WindowInv(w)'
    BY <2>1, <1>t DEF ServedInv, WindowInv
  <2>3. ASSUME NEW t \in Workers PROVE ThreadInv(w, t)'
    BY <2>1, <1>t DEF ServedInv, ThreadInv, Asked
  <2>4. DrivenInv(w)'
    BY <2>1 DEF DrivenInv
  <2>. QED BY <2>2, <2>3, <2>4 DEF ServedInv
<1>12. CASE ResumeRaises(w) \/ ResumeRecover(w) \/ ResumeReload(w)
  <2>1. capp[w] = disk /\ disk.status \in {"failed", "awaiting_input"}
    BY <1>12 DEF ResumeRaises, ResumeRecover, ResumeReload, ServedInv, WindowInv
  <2>2. /\ UNCHANGED <<disk, registry, queue, wpc, wapp, whandle, wpos, lost>>
        /\ cpc[w] \in {"resuming", "recovered"}
        /\ \/ cpc' = [cpc EXCEPT ![w] = "idle"]
           \/ /\ \E pc \in {"recovered", "reloaded"} : cpc' = [cpc EXCEPT ![w] = pc]
              /\ capp'[w] = disk
    BY <1>12, <1>t, <2>1 DEF ResumeRaises, ResumeRecover, ResumeReload, Loads, Goes, Returns, handleVars,
       workerVars
  <2>3. WindowInv(w)'
    BY <2>1, <2>2, <1>t DEF ServedInv, WindowInv
  <2>4. ASSUME NEW t \in Workers PROVE ThreadInv(w, t)'
    BY <2>2, <1>t DEF ServedInv, ThreadInv, Asked
  <2>5. DrivenInv(w)'
    BY <2>1, <2>2 DEF DrivenInv
  <2>. QED BY <2>3, <2>4, <2>5 DEF ServedInv
<1>5. CASE ResumeCheck(w)
  <2>1. /\ UNCHANGED <<disk, registry, queue, wpc, wapp, whandle, wpos>> /\ cpc[w] = "resume"
        /\ \/ cpc' = [cpc EXCEPT ![w] = "idle"]
           \/ cpc' = [cpc EXCEPT ![w] = "resuming"] /\ UNCHANGED capp
    BY <1>5 DEF ResumeCheck, Returns, Goes, handleVars, workerVars
  <2>2. disk.status # "running" /\ capp[w] = disk /\ disk.status \in {"failed", "awaiting_input"}
    BY <2>1 DEF ServedInv, WindowInv
  <2>3. WindowInv(w)'
    BY <2>1, <2>2, <1>t DEF ServedInv, WindowInv
  <2>4. ASSUME NEW t \in Workers PROVE ThreadInv(w, t)'
    BY <2>1, <1>t DEF ServedInv, ThreadInv, Asked
  <2>5. DrivenInv(w)'
    BY <2>1, <2>2 DEF DrivenInv
  <2>. QED BY <2>3, <2>4, <2>5 DEF ServedInv
<1>6. CASE ResumeSave(w)
  <2>1. /\ UNCHANGED <<registry, queue, wpc, wapp, whandle, wpos>> /\ cpc[w] \in {"resuming", "reloaded"}
        /\ disk'.status = "running" /\ cpc' = [cpc EXCEPT ![w] = "spawn"] /\ registry = NoHandle
    BY <1>6, <1>t DEF ResumeSave, Goes, handleVars, workerVars, AppSession, IInv, SpawningInv, SpawnPcs
  <2>2. \A t \in Workers : wpc[t] \in {"none", "dead"}
    BY <2>1, <1>t DEF IInv, RegistryIsLiveWorker, Live
  <2>3. WindowInv(w)'
    BY <2>1, <1>t DEF ServedInv, WindowInv
  <2>4. ASSUME NEW t \in Workers PROVE ThreadInv(w, t)'
    BY <2>1, <2>2, <1>t DEF ServedInv, ThreadInv, Working, Loaded
  <2>5. DrivenInv(w)'
    BY <2>1, <1>t DEF DrivenInv
  <2>. QED BY <2>3, <2>4, <2>5 DEF ServedInv
<1>7. CASE AnswerHandle(w)
  <2>1. /\ UNCHANGED <<disk, registry, queue, wpc, wapp, whandle, wpos>> /\ cpc[w] = "submit"
        /\ \/ cpc' = [cpc EXCEPT ![w] = "idle"]
           \/ /\ cpc' = [cpc EXCEPT ![w] = "interpret"] /\ UNCHANGED capp
              /\ chandle' = [chandle EXCEPT ![w] = registry] /\ registry # NoHandle
    BY <1>7 DEF AnswerHandle, Returns, Goes, handleVars, workerVars
  <2>2. capp[w] = disk /\ disk.status = "awaiting_input"
    BY <2>1 DEF ServedInv, WindowInv
  <2>3. ASSUME registry # NoHandle PROVE wpc[registry] = "wait" /\ queue[registry] = <<>>
    <3>1. registry \in Workers /\ Live(registry) /\ ThreadInv(w, registry)
      BY <2>3, <1>t DEF IInv, RegistryIsLiveWorker, ServedInv
    <3>2. wpc[registry] \in WorkerPcs
      BY <3>1 DEF IInv, TypeOK, WorkersOK
    <3>. QED BY <2>2, <3>1, <3>2 DEF ThreadInv, Live, Working, WorkerPcs
  <2>4. WindowInv(w)'
    BY <2>1, <2>2, <2>3, <1>t DEF ServedInv, WindowInv
  <2>5. ASSUME NEW t \in Workers PROVE ThreadInv(w, t)'
    BY <2>1, <1>t DEF ServedInv, ThreadInv, Asked
  <2>6. DrivenInv(w)'
    BY <2>1, <2>2 DEF DrivenInv
  <2>. QED BY <2>4, <2>5, <2>6 DEF ServedInv
<1>8. CASE AnswerInterpret(w)
  <2>1. /\ UNCHANGED <<registry, queue, wpc, wapp, whandle, wpos>> /\ cpc[w] = "interpret"
        /\ capp[w] = disk /\ disk.status = "awaiting_input" /\ chandle[w] = registry
        /\ registry \in Workers /\ wpc[registry] = "wait" /\ queue[registry] = <<>>
    BY <1>8, <1>t DEF AnswerInterpret, handleVars, workerVars, ServedInv, WindowInv
  <2>2. \/ disk' = disk /\ cpc' = [cpc EXCEPT ![w] = "idle"]
        \/ /\ disk'.status = "running" /\ cpc' = [cpc EXCEPT ![w] = "put"]
           /\ UNCHANGED <<capp, chandle>>
    <3>1. [disk EXCEPT !.status = "awaiting_input"] = disk
      BY <2>1, <1>t DEF AppSession
    <3>2. ASSUME NEW used PROVE [disk EXCEPT !.status = "running", !.pending = NoField,
                                             !.held = @ \ used].status = "running"
      BY <1>t DEF AppSession
    <3>3. \/ Returns(w) /\ UNCHANGED disk
          \/ disk' = [disk EXCEPT !.status = "awaiting_input"] /\ Returns(w)
          \/ /\ \E used : disk' = [disk EXCEPT !.status = "running", !.pending = NoField,
                                              !.held = @ \ used]
             /\ Goes(w, "put") /\ UNCHANGED chandle
      BY <1>8, <2>1 DEF AnswerInterpret
    <3>. QED BY <3>1, <3>2, <3>3 DEF Returns, Goes
  <2>3. disk.pending = Asked(registry)
    BY <2>1 DEF ServedInv, ThreadInv
  <2>4. \A t \in Workers : t # registry => wpc[t] \in {"none", "dead"}
    BY <2>1, <1>t DEF IInv, RegistryIsLiveWorker, Live
  <2>5. WindowInv(w)'
    BY <2>1, <2>2, <2>3, <1>t DEF ServedInv, WindowInv, Asked
  <2>6. ASSUME NEW t \in Workers PROVE ThreadInv(w, t)'
    BY <2>1, <2>2, <2>4, <1>t DEF ServedInv, ThreadInv, Working, Loaded, Asked
  <2>7. DrivenInv(w)'
    BY <2>1, <1>t DEF DrivenInv
  <2>. QED BY <2>5, <2>6, <2>7 DEF ServedInv
<1>9. CASE AnswerPut(w)
  <2>1. /\ UNCHANGED <<disk, registry, wpc, wapp, whandle, wpos>> /\ cpc[w] = "put"
        /\ chandle[w] = registry /\ disk.status = "running" /\ capp[w].pending = Asked(registry)
        /\ registry \in Workers /\ wpc[registry] = "wait" /\ queue[registry] = <<>>
        /\ cpc' = [cpc EXCEPT ![w] = "idle"]
    BY <1>9, <1>t DEF AnswerPut, Returns, workerVars, ServedInv, WindowInv
  <2>2. queue' = [queue EXCEPT ![registry] = <<Asked(registry)>>]
    <3>1. queue' = [queue EXCEPT ![registry] = Append(queue[registry], Asked(registry))]
      BY <1>9, <2>1 DEF AnswerPut
    <3>2. Append(<<>>, Asked(registry)) = <<Asked(registry)>>
      OBVIOUS
    <3>. QED BY <2>1, <3>1, <3>2
  <2>3. WindowInv(w)'
    BY <2>1, <1>t DEF ServedInv, WindowInv
  <2>4. ASSUME NEW t \in Workers PROVE ThreadInv(w, t)'
    <3>1. CASE t = registry
      <4>1. queue'[t] = <<Asked(t)>> /\ <<Asked(t)>> # <<>> /\ wpc'[t] = "wait" /\ whandle'[t] = t
        BY <2>1, <2>2, <3>1, <1>t DEF ServedInv, ThreadInv
      <4>. QED BY <4>1, <2>1 DEF ThreadInv, Working, Loaded, Asked
    <3>2. CASE t # registry
      <4>1. wpc[t] \in {"none", "dead"} /\ queue'[t] = queue[t]
        BY <2>1, <2>2, <3>2, <1>t DEF IInv, RegistryIsLiveWorker, Live
      <4>. QED BY <4>1, <2>1 DEF ServedInv, ThreadInv, Working, Loaded, Asked
    <3>. QED BY <3>1, <3>2
  <2>5. DrivenInv(w)'
    BY <2>1, <1>t DEF DrivenInv
  <2>. QED BY <2>3, <2>4, <2>5 DEF ServedInv
<1>. QED BY OnlyTheWindow, <1>1, <1>2, <1>3, <1>4, <1>5, <1>6, <1>7, <1>8, <1>9,
         <1>10, <1>11, <1>12

\* The thread that runs is the registered one; the others are gone or not there yet.
LEMMA TheThread ==
    ASSUME NEW w, OneWindow(w), IInv, LaunchInv, ServedInv(w), NEW t \in Workers, Live(t)
    PROVE  /\ registry = t /\ t # NoHandle
           /\ \A u \in Workers \ {t} : wpc[u] \in {"none", "dead"} /\ queue[u] = <<>>
           /\ cpc[w] \notin {"voices", "spawn", "resuming", "recovered", "reloaded"}
           /\ /\ disk.status = "running" /\ wpc[t] # "created"
              /\ wpc[t] = "wait" => queue[t] # <<>>
              => cpc[w] = "idle"
<1>1. registry = t /\ t # NoHandle /\ \A u \in Workers \ {t} : wpc[u] \in {"none", "dead"}
  BY DEF IInv, RegistryIsLiveWorker, Live, Workers, NoHandle
<1>2. cpc[w] \notin {"voices", "spawn", "resuming", "recovered", "reloaded"}
  BY <1>1 DEF IInv, SpawningInv, SpawnPcs, OneWindow
<1>3. cpc[w] \in ClientPcs
  BY DEF OneWindow, IInv, TypeOK, ClientsOK
<1>4. ASSUME disk.status = "running", wpc[t] # "created", wpc[t] = "wait" => queue[t] # <<>>
      PROVE  cpc[w] = "idle"
  <2>1. cpc[w] # "launch"
    BY <1>1, <1>4 DEF LaunchInv, OneWindow
  <2>. QED BY <1>1, <1>2, <1>3, <1>4, <2>1 DEF ServedInv, WindowInv, ClientPcs
<1>5. \A u \in Workers \ {t} : queue[u] = <<>>
  BY <1>1 DEF ServedInv, ThreadInv
<1>. QED BY <1>1, <1>2, <1>4, <1>5

\* While it runs the window's handler is idle, so that only the thread's own part of the
\* invariant is left to show.
LEMMA ThreadKeeps ==
    ASSUME NEW w, OneWindow(w), IInv, LaunchInv, ServedInv(w), NEW t \in Workers, Live(t),
           cpc[w] = "idle", UNCHANGED <<registry, cpc>>,
           \A u \in Workers \ {t} : wpc'[u] = wpc[u] /\ queue'[u] = queue[u],
           ThreadInv(w, t)'
    PROVE  ServedInv(w)'
<1>1. /\ registry = t /\ t # NoHandle
      /\ \A u \in Workers \ {t} : wpc[u] \in {"none", "dead"} /\ queue[u] = <<>>
  BY TheThread
<1>2. WindowInv(w)'
  BY DEF ServedInv, WindowInv
<1>3. ASSUME NEW u \in Workers \ {t} PROVE ThreadInv(w, u)'
  BY <1>1, <1>3 DEF ThreadInv, Working, Loaded
<1>. QED BY <1>1, <1>2, <1>3 DEF ServedInv, DrivenInv

\* A thread's steps: it writes the copy it has just loaded, and leaves its question or its
\* outcome on disk before it waits or ends.
LEMMA ServedWorker ==
    ASSUME NEW w, OneWindow(w), IInv, LaunchInv, ServedInv(w), NEW t \in Workers, WorkerStep(t)
    PROVE  ServedInv(w)'
<1>t. /\ DOMAIN wpc = Workers /\ DOMAIN wapp = Workers /\ DOMAIN whandle = Workers
      /\ DOMAIN wpos = Workers /\ DOMAIN queue = Workers /\ disk \in AppSession
      /\ wapp[t] \in AppSession /\ queue[t] \in Seq(Fields \cup {Cancelled})
      /\ Cancelled \notin Fields
  BY FieldsAssumption DEF IInv, TypeOK, WorkersOK, HandlesOK, DiskOK
<1>1. Live(t)
  BY DEF WorkerStep, Live, WorkerStart, ConfirmTarget, ConfirmSave, Output, OutputSave, Ask, AskHeld,
     AskUser, TakeAnswer, Succeed, SuccessSave, Fail, ErrorSave, Unregister
<1>6. wpc[t] # "created"
  BY DEF WorkerStep, WorkerStart, ConfirmTarget, ConfirmSave, Output, OutputSave, Ask, AskHeld,
     AskUser, TakeAnswer, Succeed, SuccessSave, Fail, ErrorSave, Unregister
<1>2. ThreadInv(w, t) /\ registry = t /\ t # NoHandle
  BY <1>1, TheThread DEF ServedInv
<1>3. CASE Unregister(t)
  <2>1. /\ UNCHANGED <<disk, queue, cpc, capp, chandle, whandle, wpos, wapp>> /\ registry' = NoHandle
        /\ wpc' = [wpc EXCEPT ![t] = "dead"] /\ wpc[t] = "final"
    BY <1>3 DEF Unregister, WorkerGoes, clientVars
  <2>2. disk.status \in {"completed", "failed"} /\ queue[t] = <<>>
    BY <1>2, <2>1 DEF ThreadInv
  <2>3. WindowInv(w)'
    BY <1>2, <2>1, <2>2, <1>t DEF ServedInv, WindowInv
  <2>4. ASSUME NEW u \in Workers PROVE ThreadInv(w, u)'
    BY <1>t, <2>1, <2>2 DEF ServedInv, ThreadInv, Working, Loaded, Asked
  <2>5. DrivenInv(w)'
    BY <2>1, <2>2 DEF DrivenInv
  <2>. QED BY <2>3, <2>4, <2>5 DEF ServedInv
<1>4. CASE TakeAnswer(t)
  <2>1. /\ queue[t] = <<Asked(t)>> /\ whandle[t] = t /\ wpc[t] = "wait" /\ disk.status = "running"
        /\ cpc[w] = "idle"
    BY <1>1, <1>2, <1>4, TheThread DEF TakeAnswer, ThreadInv
  <2>2. Asked(t) # Cancelled
    <3>1. WorkersOK /\ wpos[t] < Len(Prompts)
      BY <2>1 DEF IInv, TypeOK, WorkerCopyInv
    <3>. QED BY <1>t, <3>1, AskedOK, PromptsAssumption
  <2>3. /\ UNCHANGED <<disk, registry, cpc, whandle, wapp>>
        /\ queue' = [queue EXCEPT ![t] = <<>>] /\ wpc' = [wpc EXCEPT ![t] = "run"]
    <3>1. Head(queue[t]) = Asked(t) /\ Tail(queue[t]) = <<>>
      BY <2>1
    <3>. QED BY <1>4, <2>1, <2>2, <3>1 DEF TakeAnswer, WorkerGoes, WorkerLoads, clientVars
  <2>4. ThreadInv(w, t)'
    BY <1>t, <2>1, <2>3 DEF ThreadInv, Working, Loaded
  <2>. QED BY <1>1, <1>t, <2>1, <2>3, <2>4, ThreadKeeps
<1>5. ASSUME ~Unregister(t), ~TakeAnswer(t) PROVE ServedInv(w)'
  <2>1. wpc[t] \in Working /\ disk.status = "running" /\ queue[t] = <<>>
    <3>1. wpc[t] \in Working
      BY <1>5 DEF WorkerStep, Working, WorkerStart, ConfirmTarget, ConfirmSave, Output, OutputSave,
         Ask, AskHeld, AskUser, Succeed, SuccessSave, Fail, ErrorSave
    <3>. QED BY <3>1, <1>2 DEF ThreadInv, Working
  <2>2. cpc[w] = "idle"
    BY <1>1, <1>6, <2>1, TheThread DEF Working
  <2>3. UNCHANGED <<registry, queue, cpc>>
    BY <1>5 DEF WorkerStep, WorkerStart, ConfirmTarget, ConfirmSave, Output, OutputSave,
       Ask, AskHeld, AskUser, Succeed, SuccessSave, Fail, ErrorSave, handleVars, clientVars
  <2>4. wpc[t] \in Loaded => wapp[t] = disk
    BY <1>2 DEF ThreadInv
  <2>5. CASE WorkerStart(t)
    <3>1. /\ UNCHANGED disk /\ wpc' = [wpc EXCEPT ![t] = "boot"] /\ whandle' = [whandle EXCEPT ![t] = t]
      BY <2>5, <1>2 DEF WorkerStart, WorkerGoes
    <3>2. ThreadInv(w, t)'
      BY <1>t, <2>1, <2>3, <3>1 DEF ThreadInv, Loaded
    <3>. QED BY <1>1, <1>t, <2>2, <2>3, <3>1, <3>2, ThreadKeeps
  <2>6. ASSUME NEW pc \in Loaded, WorkerLoads(t, pc), UNCHANGED <<disk, whandle>>, wpc[t] # "start"
        PROVE  ServedInv(w)'
    <3>1. ThreadInv(w, t)'
      BY <1>2, <1>6, <1>t, <2>1, <2>3, <2>6 DEF ThreadInv, WorkerLoads, WorkerGoes, Working, Loaded
    <3>. QED BY <1>1, <1>t, <2>2, <2>3, <2>6, <3>1, ThreadKeeps DEF WorkerLoads, WorkerGoes
  <2>7. ASSUME NEW app, WorkerSaves(t, app, "run") \/ WorkerSaves(t, app, "ready"),
               app.status = "running", UNCHANGED whandle, wpc[t] # "start"
        PROVE  ServedInv(w)'
    <3>1. ThreadInv(w, t)'
      BY <1>2, <1>6, <1>t, <2>1, <2>3, <2>7 DEF ThreadInv, WorkerSaves, WorkerGoes, Working, Loaded
    <3>. QED BY <1>1, <1>t, <2>2, <2>3, <2>7, <3>1, ThreadKeeps DEF WorkerSaves, WorkerGoes
  <2>8. CASE ConfirmTarget(t) \/ Output(t) \/ Ask(t) \/ Succeed(t) \/ Fail(t)
    BY <2>6, <2>8 DEF ConfirmTarget, Output, Ask, Succeed, Fail, Loaded
  <2>9. CASE ConfirmSave(t)
    <3>1. PICK onlyNew \in BOOLEAN : WorkerSaves(t, [wapp[t] EXCEPT !.linked = @ \/ onlyNew], "run")
      BY <2>9 DEF ConfirmSave
    <3>2. [wapp[t] EXCEPT !.linked = @ \/ onlyNew].status = "running"
      BY <1>t, <2>1, <2>4, <2>9 DEF ConfirmSave, Loaded, AppSession
    <3>. QED BY <2>7, <2>9, <3>1, <3>2 DEF ConfirmSave
  <2>10. CASE OutputSave(t)
    BY <2>1, <2>4, <2>7, <2>10 DEF OutputSave, Loaded
  <2>11. CASE AskHeld(t)
    <3>1. [wapp[t] EXCEPT !.held = @ \ {Asked(t)}].status = "running"
      BY <1>t, <2>1, <2>4, <2>11 DEF AskHeld, Loaded, AppSession
    <3>. QED BY <2>7, <2>11, <3>1 DEF AskHeld
  <2>12. CASE AskUser(t)
    <3>1. /\ disk' = WithQuestion(wapp[t], Asked(t)) /\ wpc' = [wpc EXCEPT ![t] = "wait"]
          /\ UNCHANGED <<whandle, wpos>>
      BY <2>12 DEF AskUser, WorkerSaves, WorkerGoes
    <3>2. disk'.status = "awaiting_input" /\ disk'.pending = Asked(t)
      BY <1>t, <3>1 DEF WithQuestion, AppSession
    <3>3. ThreadInv(w, t)'
      BY <1>2, <1>t, <2>1, <2>3, <3>1, <3>2, <2>12 DEF AskUser, ThreadInv, Working, Loaded, Asked
    <3>. QED BY <1>1, <1>t, <2>2, <2>3, <3>1, <3>3, ThreadKeeps
  <2>13. CASE SuccessSave(t) \/ ErrorSave(t)
    <3>1. /\ disk'.status \in {"completed", "failed"} /\ wpc' = [wpc EXCEPT ![t] = "final"]
          /\ UNCHANGED whandle /\ wpc[t] \in {"succeed", "error"}
      BY <1>t, <2>13 DEF SuccessSave, ErrorSave, WithError, WorkerSaves, WorkerGoes, AppSession
    <3>2. ThreadInv(w, t)'
      BY <1>2, <1>t, <2>1, <2>3, <3>1 DEF ThreadInv, Working, Loaded
    <3>. QED BY <1>1, <1>t, <2>2, <2>3, <3>1, <3>2, ThreadKeeps
  <2>. QED BY <1>5, <2>5, <2>8, <2>9, <2>10, <2>11, <2>12, <2>13 DEF WorkerStep
<1>. QED BY <1>3, <1>4, <1>5

\* reconcile_stale_sessions: after a restart nothing claims to be running.
LEMMA ServedRestart ==
    ASSUME NEW w, OneWindow(w), IInv, LaunchInv, ServedInv(w), Restart
    PROVE  ServedInv(w)'
<1>1. /\ \A d \in Clients : cpc'[d] = "idle"
      /\ \A t \in Workers : wpc'[t] = "none" /\ queue'[t] = <<>>
  BY DEF Restart
<1>2. disk'.status # "running"
  BY DEF Restart, Reconciled, WithError, IInv, TypeOK, DiskOK, AppSession
<1>. QED BY <1>1, <1>2
         DEF OneWindow, ServedInv, WindowInv, ThreadInv, DrivenInv, Working, Loaded

\* Every step of one window's session.
LEMMA ServedStep ==
    ASSUME NEW w, OneWindow(w), IInv, LaunchInv, ServedInv(w), [Next]_vars
    PROVE  ServedInv(w)'
<1>1. CASE UNCHANGED vars
  BY <1>1 DEF vars, handleVars, workerVars, clientVars, ServedInv, WindowInv, ThreadInv, DrivenInv,
     Asked
<1>. QED BY <1>1, ServedHandler, ServedWorker, ServedRestart DEF Next

\* While no handler is at work a running session has a thread that drives it, unless its
\* start raised, and a thread that waits with an empty queue has its question on disk, for
\* any prompts, answers, failures, resumes and restarts of one window's session
\* (start_session, reconcile_stale_sessions, _resolve_input).
THEOREM SessionServed ==
    ASSUME NEW w, OneWindow(w)
    PROVE  Spec => []SessionIsServed
<1>1. ASSUME IInv, ServedInv(w) PROVE RunningUnlessLost
  <2>1. SUFFICES ASSUME disk.status = "running", HandlersIdle, ~lost PROVE Driven
    BY DEF RunningUnlessLost, RunningIsDriven
  <2>2. registry \in Workers
    BY <1>1, <2>1 DEF ServedInv, DrivenInv, HandlersIdle, OneWindow, IInv, TypeOK, HandlesOK
  <2>. QED BY <1>1, <2>2 DEF Driven, IInv, RegistryIsLiveWorker
<1>2. ASSUME IInv, ServedInv(w) PROVE QuestionIsShown
  <2>1. SUFFICES ASSUME NEW t \in Workers, wpc[t] = "wait", queue[whandle[t]] = <<>>, HandlersIdle
                 PROVE  disk.status = "awaiting_input" /\ disk.pending = Asked(t)
    BY DEF QuestionIsShown
  <2>2. ThreadInv(w, t) /\ cpc[w] = "idle"
    BY <1>2, <2>1 DEF ServedInv, HandlersIdle, OneWindow
  <2>. QED BY <2>1, <2>2 DEF ThreadInv
<1>. QED BY InitInv, StepInv, LaunchInit, LaunchStep, OneWindowStarts, ServedInit, ServedStep, <1>1, <1>2, PTL
         DEF Spec, SessionIsServed

\* What a waiting thread takes next is the answer to its own question (submit_answer,
\* _resolve_input).
THEOREM AnswersFit ==
    ASSUME NEW w, OneWindow(w)
    PROVE  Spec => []AnswerFitsQuestion
<1>1. ASSUME IInv, ServedInv(w) PROVE AnswerFitsQuestion
  <2>1. SUFFICES ASSUME NEW t \in Workers, wpc[t] = "wait", queue[whandle[t]] # <<>>
                 PROVE  Head(queue[whandle[t]]) \in {Asked(t), Cancelled}
    BY DEF AnswerFitsQuestion
  <2>2. ThreadInv(w, t)
    BY <1>1 DEF ServedInv
  <2>3. queue[whandle[t]] = <<Asked(t)>>
    BY <2>1, <2>2 DEF ThreadInv
  <2>. QED BY <2>3
<1>. QED BY InitInv, StepInv, LaunchInit, LaunchStep, OneWindowStarts, ServedInit, ServedStep, <1>1, PTL DEF Spec

(***************************************************************************)
(* The threads implement the lifecycle.                                    *)
(***************************************************************************)
\* What the lifecycle calls driven.
Drive == IF Run THEN "yes" ELSE IF FirstRun THEN "starting" ELSE "no"

\* Seen from the registry and the window's handler.
LEMMA RunIs ==
    ASSUME NEW w, OneWindow(w), IInv, LaunchInv, ServedInv(w)
    PROVE  /\ Run <=> registry # NoHandle \/ cpc[w] = "spawn"
           /\ FirstRun <=> cpc[w] = "voices"
<1>1. Driven <=> registry # NoHandle
  BY DEF IInv, TypeOK, HandlesOK, RegistryIsLiveWorker, Driven, Workers, NoHandle
<1>2. (\E c \in Clients : cpc[c] = "spawn") <=> cpc[w] = "spawn"
  BY DEF OneWindow, ServedInv, WindowInv
<1>3. FirstRun <=> cpc[w] = "voices"
  BY DEF FirstRun, OneWindow, ServedInv, WindowInv
<1>. QED BY <1>1, <1>2, <1>3 DEF Run

\* Every step is one of the lifecycle's, or leaves the status and the run as they are.
LEMMA LifecycleStep ==
    ASSUME NEW w, OneWindow(w), IInv, LaunchInv, ServedInv(w), [Next]_vars
    PROVE  [Lifecycle!Next]_(Lifecycle!vars)
<1>0. IInv' /\ LaunchInv' /\ ServedInv(w)'
  BY StepInv, LaunchStep, OneWindowStarts, ServedStep
<1>t. /\ DOMAIN cpc = Clients /\ w \in Clients /\ disk \in AppSession
      /\ NoHandle \notin Workers
  BY DEF OneWindow, IInv, TypeOK, ClientsOK, DiskOK, Workers, NoHandle
<1>1. Drive = IF registry # NoHandle \/ cpc[w] = "spawn" THEN "yes"
              ELSE IF cpc[w] = "voices" THEN "starting" ELSE "no"
  BY RunIs DEF Drive
<1>2. Drive' = IF registry' # NoHandle \/ cpc'[w] = "spawn" THEN "yes"
               ELSE IF cpc'[w] = "voices" THEN "starting" ELSE "no"
  <2>1. Driven' <=> registry' # NoHandle
    BY <1>0 DEF IInv, TypeOK, HandlesOK, RegistryIsLiveWorker, Driven, Workers, NoHandle
  <2>2. (\E c \in Clients : cpc'[c] = "spawn") <=> cpc'[w] = "spawn"
    BY <1>0 DEF OneWindow, ServedInv, WindowInv
  <2>3. FirstRun' <=> cpc'[w] = "voices"
    BY <1>0 DEF FirstRun, OneWindow, ServedInv, WindowInv
  <2>. QED BY <2>1, <2>2, <2>3 DEF Run, Drive
<1>3. DEFINE Keeps == disk'.status = disk.status /\ Drive' = Drive
<1>4. SUFFICES Keeps \/ Lifecycle!Next
  BY DEF Lifecycle!vars, Drive
<1>5. CASE UNCHANGED vars
  BY <1>1, <1>2, <1>5 DEF vars, handleVars, clientVars
<1>6. ASSUME NEW c \in Clients, Request(c) \/ HandlerStep(c) PROVE Keeps \/ Lifecycle!Next
  <2>1. CASE Start(w)
    <3>1. registry = NoHandle /\ disk.status = "new" /\ registry' = NoHandle /\ cpc[w] = "idle"
      BY <2>1 DEF Start, handleVars, IInv, FreshInv, HandlersIdle, OneWindow
    <3>2. \/ disk'.status = "failed" /\ cpc' = cpc
          \/ disk'.status = "running" /\ cpc'[w] = "voices"
      BY <1>t, <2>1 DEF Start, Goes, clientVars, AppSession
    <3>3. Drive = "no" /\ \/ disk'.status = "failed" /\ Drive' = "no"
                          \/ disk'.status = "running" /\ Drive' = "starting"
      BY <1>1, <1>2, <3>1, <3>2
    <3>4. Lifecycle!Create
      BY <3>1, <3>3 DEF Lifecycle!Create, Drive
    <3>. QED BY <3>4 DEF Lifecycle!Next
  <2>2. CASE Register(w)
    <3>1. /\ cpc[w] \in {"voices", "spawn"} /\ disk' = disk /\ registry' = spawned + 1
          /\ registry = NoHandle
      BY <2>2, <1>t DEF Register, IInv, SpawningInv, SpawnPcs
    <3>2. spawned + 1 # NoHandle
      BY BoundsAssumption DEF IInv, TypeOK, HandlesOK, NoHandle
    <3>3. Drive \in {"starting", "yes"} /\ Drive' = "yes"
      BY <1>1, <1>2, <3>1, <3>2
    <3>4. Keeps \/ Lifecycle!Begin
      BY <3>1, <3>3 DEF Lifecycle!Begin, Drive
    <3>. QED BY <3>4 DEF Lifecycle!Next
  <2>3. CASE StartRaises(w)
    <3>1. /\ disk' = disk /\ registry' = registry /\ registry = NoHandle
          /\ cpc[w] = "voices" /\ cpc'[w] = "idle"
      BY <2>3, <1>t DEF StartRaises, Returns, handleVars, IInv, SpawningInv, SpawnPcs
    <3>2. Drive = "starting" /\ Drive' = "no"
      BY <1>1, <1>2, <3>1
    <3>3. Lifecycle!Lose
      BY <3>1, <3>2 DEF Lifecycle!Lose, Drive
    <3>. QED BY <3>3 DEF Lifecycle!Next
  <2>4. CASE ResumeSave(w)
    <3>1. /\ cpc[w] \in {"resuming", "reloaded"} /\ registry = NoHandle
          /\ disk.status \in {"failed", "awaiting_input"}
      BY <2>4, <1>t DEF ResumeSave, IInv, SpawningInv, SpawnPcs, ServedInv, WindowInv
    <3>2. disk'.status = "running" /\ cpc'[w] = "spawn"
      BY <1>t, <2>4 DEF ResumeSave, Goes, IInv, TypeOK, ClientsOK, AppSession
    <3>3. Drive = "no" /\ Drive' = "yes"
      BY <1>1, <1>2, <3>1, <3>2
    <3>4. Lifecycle!Resume
      BY <3>1, <3>2, <3>3 DEF Lifecycle!Resume, Drive
    <3>. QED BY <3>4 DEF Lifecycle!Next
  <2>5. CASE AnswerInterpret(w)
    <3>1. /\ disk.status = "awaiting_input" /\ capp[w] = disk /\ registry # NoHandle
          /\ registry' = registry
      BY <2>5 DEF AnswerInterpret, handleVars, ServedInv, WindowInv
    <3>2. Drive = "yes" /\ Drive' = "yes"
      BY <1>1, <1>2, <3>1
    <3>3. disk'.status \in {"awaiting_input", "running"}
      BY <1>t, <2>5, <3>1 DEF AnswerInterpret, AppSession
    <3>4. Keeps \/ Lifecycle!Answer
      BY <3>1, <3>2, <3>3 DEF Lifecycle!Answer, Drive
    <3>. QED BY <3>4 DEF Lifecycle!Next
  <2>6. CASE ResumeLoad(w) \/ AnswerLoad(w) \/ ResumeCheck(w) \/ AnswerHandle(w) \/ AnswerPut(w)
             \/ ResumeRaises(w) \/ ResumeReload(w) \/ Launch(w)
    <3>1. /\ UNCHANGED <<disk, registry>>
          /\ cpc[w] \notin {"voices", "spawn"} /\ cpc'[w] \notin {"voices", "spawn"}
      BY <1>t, <2>6 DEF ResumeLoad, AnswerLoad, ResumeCheck, AnswerHandle, AnswerPut, ResumeRaises,
         ResumeReload, Launch, Receives, Loads, Goes, Returns, handleVars
    <3>. QED BY <1>1, <1>2, <3>1
  <2>7. CASE ResumeRecover(w)
    <3>1. /\ disk' = disk /\ registry' = registry
          /\ cpc[w] \notin {"voices", "spawn"} /\ cpc'[w] \notin {"voices", "spawn"}
      BY <1>t, <2>7 DEF ResumeRecover, Goes, handleVars, ServedInv, WindowInv
    <3>. QED BY <1>1, <1>2, <3>1
  <2>. QED BY <1>6, OnlyTheWindow, <2>1, <2>2, <2>3, <2>4, <2>5, <2>6, <2>7
<1>7. ASSUME NEW t \in Workers, WorkerStep(t) PROVE Keeps \/ Lifecycle!Next
  <2>1. Live(t)
    BY <1>7 DEF WorkerStep, Live, WorkerStart, ConfirmTarget, ConfirmSave, Output, OutputSave, Ask,
       AskHeld, AskUser, TakeAnswer, Succeed, SuccessSave, Fail, ErrorSave, Unregister
  <2>2. /\ ThreadInv(w, t) /\ registry # NoHandle /\ cpc[w] \notin {"voices", "spawn"}
        /\ cpc' = cpc /\ Drive = "yes"
    BY <1>1, <1>7, <2>1, TheThread DEF ServedInv, WorkerStep, WorkerStart, ConfirmTarget, ConfirmSave,
       Output, OutputSave, Ask, AskHeld, AskUser, TakeAnswer, Succeed, SuccessSave, Fail, ErrorSave,
       Unregister, clientVars
  <2>3. CASE Unregister(t)
    <3>1. disk' = disk /\ disk.status \in {"completed", "failed"} /\ registry' = NoHandle
      BY <2>2, <2>3 DEF Unregister, ThreadInv
    <3>2. Drive' = "no"
      BY <1>2, <2>2, <3>1
    <3>3. Lifecycle!Release
      BY <2>2, <3>1, <3>2 DEF Lifecycle!Release, Drive
    <3>. QED BY <3>3 DEF Lifecycle!Next
  <2>4. CASE AskUser(t) \/ SuccessSave(t) \/ ErrorSave(t)
    <3>1. wapp[t] = disk /\ disk.status = "running" /\ registry' = registry
      BY <2>2, <2>4
         DEF AskUser, SuccessSave, ErrorSave, ThreadInv, Loaded, Working, handleVars
    <3>2. disk'.status \in {"awaiting_input", "completed", "failed"}
      BY <1>t, <2>4, <3>1 DEF AskUser, SuccessSave, ErrorSave, WorkerSaves, WithQuestion, WithError,
         AppSession
    <3>3. Drive' = "yes"
      BY <1>2, <2>2, <3>1
    <3>4. Lifecycle!Ask \/ Lifecycle!Settle
      BY <2>2, <3>1, <3>2, <3>3 DEF Lifecycle!Ask, Lifecycle!Settle, Drive
    <3>. QED BY <3>4 DEF Lifecycle!Next
  <2>5. CASE ConfirmSave(t) \/ OutputSave(t) \/ AskHeld(t)
    <3>1. wapp[t] = disk /\ registry' = registry
      BY <2>2, <2>5 DEF ConfirmSave, OutputSave, AskHeld, ThreadInv, Loaded, handleVars
    <3>2. disk'.status = disk.status
      BY <1>t, <2>5, <3>1 DEF ConfirmSave, OutputSave, AskHeld, WorkerSaves, AppSession
    <3>. QED BY <1>1, <1>2, <2>2, <3>1, <3>2
  <2>6. CASE WorkerStart(t) \/ ConfirmTarget(t) \/ Output(t) \/ Ask(t) \/ TakeAnswer(t)
             \/ Succeed(t) \/ Fail(t)
    <3>1. UNCHANGED <<disk, registry>>
      BY <2>6 DEF WorkerStart, ConfirmTarget, Output, Ask, TakeAnswer, Succeed, Fail, handleVars
    <3>. QED BY <1>1, <1>2, <2>2, <3>1
  <2>. QED BY <1>7, <2>3, <2>4, <2>5, <2>6 DEF WorkerStep
<1>8. CASE Restart
  <2>1. Drive' = "no"
    BY <1>2, <1>8, <1>t DEF Restart
  <2>2. disk'.status = IF disk.status = "running" THEN "failed" ELSE disk.status
    BY <1>8, <1>t DEF Restart, Reconciled, WithError, AppSession
  <2>3. CASE disk.status = "new"
    <3>1. registry = NoHandle /\ cpc[w] = "idle"
      BY <1>t, <2>3 DEF IInv, FreshInv, HandlersIdle
    <3>2. Drive = "no"
      BY <1>1, <3>1
    <3>. QED BY <2>1, <2>2, <2>3, <3>2
  <2>4. CASE disk.status # "new"
    <3>1. Lifecycle!Interrupt
      BY <2>1, <2>2, <2>4 DEF Lifecycle!Interrupt, Drive
    <3>. QED BY <3>1 DEF Lifecycle!Next
  <2>. QED BY <2>3, <2>4
<1>. QED BY <1>5, <1>6, <1>7, <1>8 DEF Next

\* The threads, files, queues and handlers of one window's session behave like the abstract
\* session: it is created, its run begins or is lost, it asks, is answered and settles, and
\* is resumed only when nobody drives it and it is not finished, through every restart
\* (chat_controller).  That it also
\* goes on, the fairness of ImplementsLifecycle, is left to the run.
THEOREM ThreadsFollowLifecycle ==
    ASSUME NEW w, OneWindow(w)
    PROVE  Spec => Lifecycle!Init /\ [][Lifecycle!Next]_(Lifecycle!vars)
<1>1. Init => Lifecycle!Init
  BY DEF Init, Lifecycle!Init, NewSession, Run, FirstRun, Driven, Live
<1>. QED BY InitInv, StepInv, LaunchInit, LaunchStep, OneWindowStarts, ServedInit, ServedStep, LifecycleStep, <1>1, PTL
         DEF Spec
=============================================================================
