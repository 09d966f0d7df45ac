--------------------------- MODULE DesktopLauncher ---------------------------
(***************************************************************************)
(* The desktop processes of AutoCorp and the server processes they start   *)
(* (app/launcher.py, app/desktop_lifecycle.py, app/desktop_app.py).        *)
(*                                                                         *)
(* Every double-click starts a desktop process.  It focuses a window that  *)
(* is there, or connects to a server that answers, or starts a server, and *)
(* then opens a window; closing the window stops the server.  They agree   *)
(* only through the server's port, the server's pid file and the desktop's *)
(* pid file.  A server process marks the sessions that are "running" as    *)
(* failed before it binds the port.  A pid is the number of the process.   *)
(***************************************************************************)
EXTENDS Integers, FiniteSets

CONSTANTS
    Desktops,       \* desktop processes, one for each double-click
    NoDesktop,      \* what the desktop's pid file holds when there is none
    Paces,          \* how launches, closes and servers may follow each other, see Pace
    MaxServers,     \* bound: server processes started
    MaxDeaths,      \* bound: servers that die of themselves
    MaxCrashes      \* bound: desktop processes that do

Servers == 1..MaxServers
NoPid == 0

ASSUME DesktopsAssumption == IsFiniteSet(Desktops) /\ NoDesktop \notin Desktops

\* clicks: the desktop processes of this behaviour; overlap: a launch or a close may
\* begin before another one is over; slow: a server may answer later than the launcher
\* waits.
Pace == [clicks : SUBSET Desktops, overlap : BOOLEAN, slow : BOOLEAN]
ASSUME PacesAssumption == Paces \subseteq Pace
ASSUME LimitsAssumption == MaxServers \in Nat /\ MaxDeaths \in Nat /\ MaxCrashes \in Nat

VARIABLES
    port,       \* the server that listens, or NoPid
    pidFile,    \* autocorp_app.pid
    deskFile,   \* the desktop's pid file
    srv,        \* server processes
    spawned,    \* server processes started so far
    parent,     \* the desktop process that started each and has not reaped it
    dpc,        \* desktop processes: what each does next
    dpid,       \* the server pid each knows (LaunchResult.pid)
    victim,     \* the desktop process a closing one is about to terminate
    session,    \* persisted status of a chat session
    job,        \* the server whose worker thread drives it, or NoPid
    deaths, crashes,
    pace        \* the pace of this behaviour

files == <<pidFile, deskFile>>
servers == <<port, srv, spawned, parent>>
desktops == <<dpc, dpid, victim>>
chat == <<session, job>>
ends == <<deaths, crashes, pace>>
vars == <<files, servers, desktops, chat, ends>>

ServerStates == {"none", "boot", "bind", "serving", "dead"}
Pcs == {"idle", "connect", "pid", "stale", "unlink", "grace", "popen", "record", "wait",
        "poll", "window", "open", "closing", "cleanup", "remove", "done"}

TypeOK ==
    /\ port \in Servers \cup {NoPid} /\ pidFile \in Servers \cup {NoPid}
    /\ deskFile \in Desktops \cup {NoDesktop}
    /\ srv \in [Servers -> ServerStates] /\ spawned \in 0..MaxServers
    /\ parent \in [Servers -> Desktops \cup {NoDesktop}]
    /\ dpc \in [Desktops -> Pcs] /\ dpid \in [Desktops -> Servers \cup {NoPid}]
    /\ victim \in [Desktops -> Desktops \cup {NoDesktop}]
    /\ session \in {"idle", "running", "failed"} /\ job \in Servers \cup {NoPid}
    /\ deaths \in 0..MaxDeaths /\ crashes \in 0..MaxCrashes /\ pace \in Paces

Init ==
    /\ port = NoPid /\ pidFile = NoPid /\ deskFile = NoDesktop
    /\ srv = [s \in Servers |-> "none"] /\ spawned = 0
    /\ parent = [s \in Servers |-> NoDesktop]
    /\ dpc = [d \in Desktops |-> "idle"] /\ dpid = [d \in Desktops |-> NoPid]
    /\ victim = [d \in Desktops |-> NoDesktop]
    /\ session = "idle" /\ job = NoPid /\ deaths = 0 /\ crashes = 0
    /\ pace \in Paces

Alive(s) == s # NoPid /\ srv[s] \in {"boot", "bind", "serving"}
Running(d) == dpc[d] \notin {"idle", "done"}

\* _pid_is_running: a dead server that its parent has not reaped still has its pid.
Unreaped(s) == s # NoPid /\ srv[s] = "dead" /\ parent[s] \in Desktops /\ Running(parent[s])
Exists(s) == Alive(s) \/ Unreaped(s)

Settled(d) == dpc[d] \in {"idle", "open", "done"}
MayBegin(d) == pace.overlap \/ \A e \in Desktops : Settled(e)
Goes(d, pc) == dpc' = [dpc EXCEPT ![d] = pc]
Knows(d, pid) == dpid' = [dpid EXCEPT ![d] = pid]

\* is_server_ready: what a request to /health says.
CanSay(ready) == IF ready THEN port # NoPid ELSE port = NoPid \/ pace.slow

(***************************************************************************)
(* A launch.                                                               *)
(***************************************************************************)
\* launch_server: a running window of an answering server is brought to front.
Launch(d) ==
    /\ dpc[d] = "idle" /\ d \in pace.clicks /\ MayBegin(d)
    /\ \E ready \in BOOLEAN :
          /\ CanSay(ready)
          /\ IF ready /\ deskFile \in Desktops /\ Running(deskFile)
             THEN Goes(d, "done") ELSE Goes(d, "connect")
    /\ UNCHANGED <<files, servers, dpid, victim, chat, ends>>

ConnectBlindly(d) ==
    /\ dpc[d] = "connect" /\ Goes(d, "pid")
    /\ UNCHANGED <<files, servers, dpid, victim, chat, ends>>

Connect(d) ==
    /\ dpc[d] = "connect"
    /\ \E ready \in BOOLEAN :
          /\ CanSay(ready)
          /\ IF ready THEN Goes(d, "window") /\ Knows(d, pidFile)
             ELSE Goes(d, "pid") /\ UNCHANGED dpid
    /\ UNCHANGED <<files, servers, victim, chat, ends>>

\* The grace period is only given to a process that still does not answer.
ReadPidFile(d) ==
    /\ dpc[d] = "pid"
    /\ IF pidFile = NoPid THEN Goes(d, "popen") /\ UNCHANGED dpid
       ELSE IF ~Exists(pidFile) THEN Goes(d, "stale") /\ UNCHANGED dpid
       ELSE \E ready \in BOOLEAN :
               /\ CanSay(ready)
               /\ IF ready THEN Goes(d, "popen") /\ UNCHANGED dpid
                  ELSE Goes(d, "grace") /\ Knows(d, pidFile)
    /\ UNCHANGED <<files, servers, victim, chat, ends>>

\* remove_stale_pid_file reads the file again before it removes it.
ReadStale(d) ==
    /\ dpc[d] = "stale"
    /\ IF Exists(pidFile) THEN Goes(d, "popen") ELSE Goes(d, "unlink")
    /\ UNCHANGED <<files, servers, dpid, victim, chat, ends>>

UnlinkStale(d) ==
    /\ dpc[d] = "unlink" /\ pidFile' = NoPid /\ Goes(d, "popen")
    /\ UNCHANGED <<deskFile, servers, dpid, victim, chat, ends>>

GraceSucceeds(d) ==
    /\ dpc[d] = "grace" /\ CanSay(TRUE) /\ Goes(d, "window")
    /\ UNCHANGED <<files, servers, dpid, victim, chat, ends>>

Starting == \E s \in Servers : srv[s] \in {"boot", "bind"}

GraceNeverEnds(d) == dpc[d] = "grace" /\ CanSay(FALSE) /\ UNCHANGED vars

GraceEnds(d) ==
    /\ dpc[d] = "grace" /\ CanSay(FALSE) /\ (pace.slow \/ ~Starting)
    /\ Goes(d, "popen")
    /\ UNCHANGED <<files, servers, dpid, victim, chat, ends>>

\* The server process is created, or it cannot be.
Popen(d) ==
    /\ dpc[d] = "popen"
    /\ \/ /\ spawned < MaxServers /\ spawned' = spawned + 1
          /\ srv' = [srv EXCEPT ![spawned'] = "boot"]
          /\ parent' = [parent EXCEPT ![spawned'] = d]
          /\ Knows(d, spawned') /\ Goes(d, "record")
       \/ Goes(d, "done") /\ UNCHANGED <<srv, spawned, parent, dpid>>
    /\ UNCHANGED <<files, port, victim, chat, ends>>

Record(d) ==
    /\ dpc[d] = "record" /\ pidFile' = dpid[d] /\ Goes(d, "wait")
    /\ UNCHANGED <<deskFile, servers, dpid, victim, chat, ends>>

Wait(d) ==
    /\ dpc[d] = "wait"
    /\ \E ready \in BOOLEAN :
          CanSay(ready) /\ Goes(d, IF ready THEN "window" ELSE "poll")
    /\ UNCHANGED <<files, servers, dpid, victim, chat, ends>>

\* The server exited early, or there is still time to wait for it.
Poll(d) ==
    /\ dpc[d] = "poll" /\ Goes(d, IF Alive(dpid[d]) THEN "wait" ELSE "done")
    /\ UNCHANGED <<files, servers, dpid, victim, chat, ends>>

\* The server is not ready in time; it is left alone.
GivesUp(d) ==
    /\ pace.slow /\ dpc[d] = "poll" /\ Goes(d, "done")
    /\ UNCHANGED <<files, servers, dpid, victim, chat, ends>>

OpenWindow(d) ==
    /\ dpc[d] = "window" /\ deskFile' = d /\ Goes(d, "open")
    /\ UNCHANGED <<pidFile, servers, dpid, victim, chat, ends>>

(***************************************************************************)
(* Closing a window (closeEvent, shutdown_desktop).                        *)
(***************************************************************************)
\* The active job is cancelled if the server answers, and stops or does not;
\* then both pids are read.
Close(d) ==
    /\ dpc[d] = "open" /\ MayBegin(d)
    /\ \/ session = "running" /\ port # NoPid /\ session' = "failed" /\ job' = NoPid
       \/ UNCHANGED chat
    /\ Knows(d, IF dpid[d] # NoPid THEN dpid[d] ELSE pidFile)
    /\ victim' = [victim EXCEPT ![d] = deskFile]
    /\ Goes(d, "closing")
    /\ UNCHANGED <<files, servers, ends>>

Stops(s) ==
    /\ srv' = [srv EXCEPT ![s] = "dead"]
    /\ port' = IF port = s THEN NoPid ELSE port
    /\ job' = IF job = s THEN NoPid ELSE job
    /\ UNCHANGED <<spawned, session>>

\* A server process dies of itself; its parent does not notice.
Die(s) ==
    /\ Alive(s) /\ deaths < MaxDeaths /\ deaths' = deaths + 1 /\ Stops(s)
    /\ UNCHANGED <<files, parent, desktops, crashes, pace>>

LeavesServer(d) ==
    /\ dpc[d] = "closing" /\ Goes(d, "cleanup")
    /\ UNCHANGED <<files, servers, dpid, victim, chat, ends>>

\* _terminate_process_group: stop_server reaps a child of this process, and
\* removes the pid file once the pid is gone.
StopServer(d) ==
    /\ dpc[d] = "closing" /\ Goes(d, "cleanup")
    /\ LET s == dpid[d]
           byParent == s # NoPid /\ parent[s] = d
           gone == byParent \/ parent[s] = NoDesktop \/ ~Running(parent[s])
       IN  IF Exists(s)
           THEN /\ Stops(s)
                /\ parent' = IF byParent THEN [parent EXCEPT ![s] = NoDesktop] ELSE parent
                /\ pidFile' = IF gone THEN NoPid ELSE pidFile
           ELSE UNCHANGED <<servers, chat, pidFile>>
    /\ UNCHANGED <<deskFile, dpid, victim, ends>>

\* _terminate_desktop_process: the process that the desktop's pid file named.
StopDesktop(d) ==
    /\ dpc[d] = "cleanup"
    /\ dpc' = [e \in Desktops |-> IF e = d THEN "remove"
                                  ELSE IF e = victim[d] /\ Running(e) THEN "done" ELSE dpc[e]]
    /\ UNCHANGED <<files, servers, dpid, victim, chat, ends>>

RemoveStateFiles(d) ==
    /\ dpc[d] = "remove" /\ pidFile' = NoPid /\ deskFile' = NoDesktop /\ Goes(d, "done")
    /\ UNCHANGED <<servers, dpid, victim, chat, ends>>

(***************************************************************************)
(* Server processes and the session they work on.                          *)
(***************************************************************************)
\* Importing app.server reconciles: no worker of this process drives anything.
Boot(s) ==
    /\ srv[s] = "boot" /\ srv' = [srv EXCEPT ![s] = "bind"]
    /\ session' = IF session = "running" THEN "failed" ELSE session
    /\ UNCHANGED <<files, port, spawned, parent, desktops, job, ends>>

\* Only then is the port bound; a port that is taken ends the process.
Bind(s) ==
    /\ srv[s] = "bind"
    /\ IF port = NoPid THEN port' = s /\ srv' = [srv EXCEPT ![s] = "serving"]
       ELSE srv' = [srv EXCEPT ![s] = "dead"] /\ UNCHANGED port
    /\ UNCHANGED <<files, spawned, parent, desktops, chat, ends>>

\* A desktop process dies of itself; its files and its server stay.
Crash(d) ==
    /\ Running(d) /\ crashes < MaxCrashes /\ crashes' = crashes + 1
    /\ dpc[d] = "open" \/ pace.overlap
    /\ Goes(d, "done")
    /\ UNCHANGED <<files, servers, dpid, victim, chat, deaths, pace>>

StartJob ==
    /\ port # NoPid /\ job = NoPid /\ session # "running"
    /\ session' = "running" /\ job' = port
    /\ UNCHANGED <<files, servers, desktops, ends>>

EndJob ==
    /\ job # NoPid /\ session' = "idle" /\ job' = NoPid
    /\ UNCHANGED <<files, servers, desktops, ends>>

LaunchStep(d) ==
    \/ Connect(d) \/ ReadPidFile(d) \/ ReadStale(d) \/ UnlinkStale(d)
    \/ GraceSucceeds(d) \/ GraceEnds(d) \/ Popen(d) \/ Record(d) \/ Wait(d) \/ Poll(d)
    \/ OpenWindow(d)

CloseStep(d) == StopServer(d) \/ StopDesktop(d) \/ RemoveStateFiles(d)

ServerStep(s) == Boot(s) \/ Bind(s)

Next ==
    \/ \E d \in Desktops : Launch(d) \/ LaunchStep(d) \/ GivesUp(d) \/ Close(d) \/ CloseStep(d)
                         \/ Crash(d)
    \/ \E s \in Servers : ServerStep(s) \/ Die(s)
    \/ StartJob \/ EndJob

Spec == Init /\ [][Next]_vars

\* A desktop process that has begun goes on, its readiness loop has a deadline,
\* and a server process boots.
FairSpec ==
    /\ Spec
    /\ \A d \in Desktops : WF_vars(LaunchStep(d)) /\ WF_vars(CloseStep(d)) /\ SF_vars(GivesUp(d))
    /\ \A s \in Servers : WF_vars(ServerStep(s))

(***************************************************************************)
(* Properties.                                                             *)
(***************************************************************************)
Steady == ~pace.overlap /\ ~pace.slow
Quiet == \A d \in Desktops : Settled(d)

\* "Idempotent single-instance startup" (start_or_connect): at most one server
\* process exists, whatever died in between, if launches follow each other and
\* servers answer in time.
OneServer == Steady => \A s, t \in Servers : Alive(s) /\ Alive(t) => s = t

\* "The running server's PID is recorded in data/autocorp_app.pid" (README): when
\* nobody is launching or closing, the file names the process that listens, as long
\* as no server died.
PidFileNamesServer == Steady /\ deaths = 0 /\ Quiet /\ port # NoPid => pidFile = port

\* "It will focus an already-running desktop window instead of starting a
\* duplicate" (start_autocorp_app.sh): as long as no server died, at most one
\* window is open.
OneWindow ==
    Steady /\ deaths = 0 => \A d, e \in Desktops : dpc[d] = "open" /\ dpc[e] = "open" => d = e

\* The server does not survive the window: "on close it ... terminates the server
\* process group" (desktop_lifecycle).  As long as no process died, no server is left
\* without a window.
ServerEndsWithWindow ==
    Steady /\ deaths = 0 /\ crashes = 0 /\ Quiet /\ (\A d \in Desktops : dpc[d] # "open") =>
        \A s \in Servers : ~Alive(s)

\* Whoever serves the browser drives every session that claims to be running,
\* although it reconciled before it could bind the port (create_app).
ServedIsDriven == Steady /\ port # NoPid /\ session = "running" => job = port

\* One server, one window, a pid file that names the server, and a server that drives
\* what claims to be running: what a single instance means here.
SingleInstance == OneServer /\ OneWindow /\ PidFileNamesServer /\ ServedIsDriven

\* Every launch opens a window, finds one, or reports that it failed, and every
\* close comes to an end (start_or_connect, shutdown_desktop).
LaunchSettles == \A d \in Desktops : Running(d) ~> Settled(d)
=============================================================================
