------------------------ MODULE DesktopLauncher_proofs ------------------------
(***************************************************************************)
(* Proofs about the desktop processes, for any number of them, of servers, *)
(* of deaths and of crashes.  Listening and the port agree (PortInv).  At  *)
(* a steady pace a launch searches only if no server process exists, and   *)
(* awaits the only one that does (SteadyInv); a session without a driver   *)
(* was failed before anybody could bind (SessionInv).  While nobody has    *)
(* died, one desktop process runs and what it knows is true (WindowInv),   *)
(* and no server is without one (OwnedInv).                                *)
(***************************************************************************)
EXTENDS DesktopLauncher, TLAPS

(***************************************************************************)
(* The invariants.                                                         *)
(***************************************************************************)
\* Listening is what the port says, only the process that listens drives the session, and
\* a process that was not started is nothing.
PortInv ==
    /\ \A s \in Servers : s > spawned => srv[s] = "none"
    /\ \A s \in Servers : srv[s] = "serving" <=> port = s
    /\ job # NoPid => job = port

Booting(s) == srv[s] \in {"boot", "bind"}
Searching == {"pid", "stale", "unlink", "grace", "popen"}
Awaiting == {"record", "wait", "poll"}

\* One desktop process is at work.  It searches only if no server process exists, and
\* waits for the only one that does.
SteadyInv ==
    Steady =>
        /\ \A d, e \in Desktops : ~Settled(d) /\ ~Settled(e) => d = e
        /\ \A d \in Desktops : dpc[d] \in Searching => \A s \in Servers : ~Alive(s)
        /\ \A d \in Desktops : dpc[d] \in Awaiting => \A s \in Servers : Alive(s) => s = dpid[d]
        /\ \A s \in Servers : Booting(s) => \E d \in Desktops : dpc[d] \in Awaiting /\ dpid[d] = s

\* What claims to be running without a driver has been failed by whoever may bind.
SessionInv ==
    Steady /\ session = "running" /\ job = NoPid =>
        port = NoPid /\ \A s \in Servers : srv[s] # "bind"

\* At first nothing runs.
LEMMA TypeInit == Init => TypeOK
BY LimitsAssumption DEF Init, TypeOK, Servers, NoPid, ServerStates, Pcs

\* Every step keeps the types.
LEMMA TypeStep == TypeOK /\ [Next]_vars => TypeOK'
<1>. SUFFICES ASSUME TypeOK, [Next]_vars PROVE TypeOK'
  OBVIOUS
<1>. USE DEF TypeOK, Goes, Knows, files, servers, desktops, chat, ends, Pcs, ServerStates
<1>1. ASSUME NEW d \in Desktops,
             Launch(d) \/ Connect(d) \/ ReadPidFile(d) \/ ReadStale(d) \/ UnlinkStale(d)
      PROVE  TypeOK'
  BY <1>1 DEF Launch, Connect, ReadPidFile, ReadStale, UnlinkStale
<1>2. ASSUME NEW d \in Desktops, Popen(d) PROVE TypeOK'
  <2>1. CASE UNCHANGED <<srv, spawned, parent, dpid>>
    BY <1>2, <2>1 DEF Popen
  <2>2. CASE spawned < MaxServers /\ spawned' = spawned + 1
    <3>1. spawned' \in Servers /\ spawned' \in 0 .. MaxServers
      BY <2>2, LimitsAssumption DEF Servers
    <3>. QED BY <1>2, <2>2, <3>1 DEF Popen
  <2>. QED BY <1>2, <2>1, <2>2 DEF Popen
<1>3. ASSUME NEW d \in Desktops,
             GraceSucceeds(d) \/ GraceEnds(d) \/ Record(d) \/ Wait(d) \/ Poll(d) \/ OpenWindow(d)
             \/ GivesUp(d)
      PROVE  TypeOK'
  BY <1>3 DEF GraceSucceeds, GraceEnds, Record, Wait, Poll, OpenWindow, GivesUp
<1>4. ASSUME NEW d \in Desktops, Close(d) PROVE TypeOK'
  BY <1>4 DEF Close
<1>5. ASSUME NEW d \in Desktops, StopServer(d) PROVE TypeOK'
  BY <1>5 DEF StopServer, Stops, Exists, Alive, Unreaped
<1>6. ASSUME NEW d \in Desktops, StopDesktop(d) \/ RemoveStateFiles(d) \/ Crash(d) PROVE TypeOK'
  BY <1>6, LimitsAssumption DEF StopDesktop, RemoveStateFiles, Crash
<1>7. ASSUME NEW s \in Servers, Boot(s) \/ Bind(s) \/ Die(s) PROVE TypeOK'
  BY <1>7, LimitsAssumption DEF Boot, Bind, Die, Stops
<1>8. CASE StartJob \/ EndJob
  BY <1>8 DEF StartJob, EndJob, NoPid
<1>9. CASE UNCHANGED vars
  BY <1>9 DEF vars
<1>. QED BY <1>1, <1>2, <1>3, <1>4, <1>5, <1>6, <1>7, <1>8, <1>9 DEF Next, LaunchStep, CloseStep, ServerStep

\* Every variable keeps the values it may have (the processes and files of a desktop).
THEOREM TypeCorrect == Spec => []TypeOK
BY TypeInit, TypeStep, PTL DEF Spec

(***************************************************************************)
(* Servers, whatever the pace.                                             *)
(***************************************************************************)
LEMMA PortInit == Init => PortInv
BY DEF Init, PortInv, Servers, NoPid

\* A process serves from its bind to its end, and nobody else has its port.
LEMMA PortStep == TypeOK /\ PortInv /\ [Next]_vars => PortInv'
<1>. SUFFICES ASSUME TypeOK, PortInv, [Next]_vars PROVE PortInv'
  OBVIOUS
<1>. USE DEF PortInv, TypeOK, Servers, NoPid
<1>1. CASE UNCHANGED <<port, spawned, srv, job>>
  BY <1>1
<1>2. ASSUME NEW d \in Desktops, Popen(d) PROVE PortInv'
  <2>1. CASE UNCHANGED <<srv, spawned>>
    BY <1>2, <2>1 DEF Popen, chat
  <2>2. CASE spawned < MaxServers /\ spawned' = spawned + 1 /\ srv' = [srv EXCEPT ![spawned'] = "boot"]
    <3>1. spawned' \in Servers /\ srv[spawned'] = "none"
      BY <2>2, LimitsAssumption
    <3>. QED BY <1>2, <2>2, <3>1 DEF Popen, chat
  <2>. QED BY <1>2, <2>1, <2>2 DEF Popen
<1>3. ASSUME NEW s \in Servers, Stops(s), srv[s] # "none" PROVE PortInv'
  BY <1>3 DEF Stops
<1>4. ASSUME NEW d \in Desktops, Close(d) PROVE PortInv'
  BY <1>4 DEF Close, servers, chat
<1>5. ASSUME NEW d \in Desktops, StopServer(d) PROVE PortInv'
  <2>1. CASE Exists(dpid[d]) /\ Stops(dpid[d])
    BY <1>3, <2>1 DEF Exists, Alive, Unreaped
  <2>2. CASE UNCHANGED <<servers, chat>>
    BY <2>2 DEF servers, chat
  <2>. QED BY <1>5, <2>1, <2>2 DEF StopServer
<1>6. ASSUME NEW s \in Servers, Boot(s) \/ Bind(s) PROVE PortInv'
  <2>1. CASE Boot(s)
    BY <2>1 DEF Boot, chat
  <2>2. CASE Bind(s)
    <3>1. CASE port = NoPid
      <4>1. port' = s /\ srv' = [srv EXCEPT ![s] = "serving"] /\ job' = NoPid /\ spawned' = spawned
        BY <2>2, <3>1 DEF Bind, chat
      <4>2. \A t \in Servers : srv[t] # "serving" /\ t # NoPid
        BY <3>1
      <4>. QED BY <4>1, <4>2, <2>2 DEF Bind
    <3>2. CASE port # NoPid
      BY <2>2, <3>2 DEF Bind, chat
    <3>. QED BY <3>1, <3>2
  <2>. QED BY <1>6, <2>1, <2>2
<1>7. ASSUME NEW s \in Servers, Die(s) PROVE PortInv'
  BY <1>3, <1>7 DEF Die, Alive
<1>8. CASE StartJob \/ EndJob
  BY <1>8 DEF StartJob, EndJob, servers
<1>9. ASSUME NEW d \in Desktops, Launch(d) \/ GivesUp(d) \/ Crash(d) PROVE PortInv'
  BY <1>1, <1>9 DEF Launch, GivesUp, Crash, servers, chat
<1>10. ASSUME NEW d \in Desktops, LaunchStep(d) PROVE PortInv'
  BY <1>1, <1>2, <1>10 DEF LaunchStep, Connect, ReadPidFile, ReadStale, UnlinkStale, GraceSucceeds,
     GraceEnds, Record, Wait, Poll, OpenWindow, servers, chat
<1>11. ASSUME NEW d \in Desktops, CloseStep(d) PROVE PortInv'
  BY <1>1, <1>5, <1>11 DEF CloseStep, StopDesktop, RemoveStateFiles, servers, chat
<1>12. CASE UNCHANGED vars
  BY <1>1, <1>12 DEF vars, servers, chat
<1>. QED BY <1>4, <1>6, <1>7, <1>8, <1>9, <1>10, <1>11, <1>12 DEF Next, ServerStep

(***************************************************************************)
(* A single server, at a steady pace.                                      *)
(***************************************************************************)
LEMMA SteadyInit == Init => SteadyInv
BY DEF Init, SteadyInv, Settled, Booting, Searching, Awaiting

\* What one server process at most means.
LEMMA OneAlive == TypeOK /\ PortInv /\ SteadyInv => OneServer
<1>. SUFFICES ASSUME TypeOK, PortInv, SteadyInv, Steady,
                     NEW s \in Servers, NEW t \in Servers, Alive(s), Alive(t)
              PROVE  s = t
  BY DEF OneServer
<1>1. CASE Booting(s) \/ Booting(t)
  BY <1>1 DEF SteadyInv
<1>2. CASE srv[s] = "serving" /\ srv[t] = "serving"
  BY <1>2 DEF PortInv
<1>. QED BY <1>1, <1>2 DEF Alive, Booting

\* The steps of a desktop process at work that leave the servers alone.
LEMMA SteadyMoves ==
    ASSUME TypeOK, SteadyInv, UNCHANGED <<servers, pace>>, NEW d \in Desktops,
           dpc' \in [Desktops -> Pcs], \A e \in Desktops \ {d} : dpid'[e] = dpid[e],
           Steady => /\ \A e \in Desktops \ {d} : dpc'[e] = dpc[e] \/ (dpc[e] = "open" /\ dpc'[e] = "done")
                     /\ \A e \in Desktops \ {d} : Settled(e)
                     /\ dpc'[d] \in Searching => \A s \in Servers : ~Alive(s)
                     /\ dpc'[d] \in Awaiting =>
                            dpc[d] \in Awaiting /\ dpid'[d] = dpid[d]
                     /\ dpc[d] \in Awaiting /\ dpc'[d] \notin Awaiting =>
                            \A s \in Servers : ~Booting(s)
    PROVE  SteadyInv'
<1>. SUFFICES ASSUME Steady PROVE SteadyInv'
  BY DEF SteadyInv, Steady
<1>1. \A s \in Servers : (Alive(s)' <=> Alive(s)) /\ (Booting(s)' <=> Booting(s))
  BY DEF servers, Alive, Booting
<1>2. \A e \in Desktops \ {d} : Settled(e)' /\ dpc'[e] \notin Awaiting /\ dpc'[e] \notin Searching
  BY DEF Settled, Awaiting, Searching
<1>3. \A e, f \in Desktops : ~Settled(e)' /\ ~Settled(f)' => e = f
  BY <1>2
<1>4. \A e \in Desktops : dpc'[e] \in Searching => \A s \in Servers : ~Alive(s)'
  BY <1>1, <1>2
<1>5. \A e \in Desktops : dpc'[e] \in Awaiting => \A s \in Servers : Alive(s)' => s = dpid'[e]
  BY <1>1, <1>2 DEF SteadyInv
<1>6. ASSUME NEW s \in Servers, Booting(s)'
      PROVE  \E e \in Desktops : dpc'[e] \in Awaiting /\ dpid'[e] = s
  <2>1. PICK e \in Desktops : dpc[e] \in Awaiting /\ dpid[e] = s
    BY <1>1, <1>6 DEF SteadyInv
  <2>2. e = d
    BY <2>1 DEF Settled, Awaiting
  <2>. QED BY <1>1, <1>6, <2>1, <2>2
<1>. QED BY <1>3, <1>4, <1>5, <1>6 DEF SteadyInv

\* The server processes themselves: fewer of them exist, or one goes on booting.
LEMMA SteadyServers ==
    ASSUME TypeOK, SteadyInv, UNCHANGED <<dpc, dpid, pace>>,
           \A s \in Servers : (Alive(s)' => Alive(s)) /\ (Booting(s)' => Booting(s))
    PROVE  SteadyInv'
BY DEF SteadyInv, Steady, Settled

\* A launch searches, starts a server only where it found none, and waits for that one
\* (start_or_connect).
LEMMA SteadyLaunch ==
    ASSUME TypeOK, PortInv, SteadyInv, NEW d \in Desktops, Launch(d) \/ LaunchStep(d) \/ GivesUp(d)
    PROVE  SteadyInv'
<1>. USE DEF Goes, Knows, files, chat, ends, servers
<1>1. dpc[d] # "open" /\ dpc[d] # "done" /\ UNCHANGED pace
  BY DEF Launch, LaunchStep, GivesUp, Connect, ReadPidFile, ReadStale, UnlinkStale, GraceSucceeds,
     GraceEnds, Popen, Record, Wait, Poll, OpenWindow
<1>2. Steady => \A e \in Desktops \ {d} : Settled(e)
  <2>1. CASE Launch(d)
    BY <2>1 DEF Launch, MayBegin, Steady
  <2>2. CASE ~Settled(d)
    BY <2>2 DEF SteadyInv
  <2>. QED BY <1>1, <2>1, <2>2 DEF Settled, LaunchStep, GivesUp, Connect, ReadPidFile, ReadStale,
     UnlinkStale, GraceSucceeds, GraceEnds, Popen, Record, Wait, Poll, OpenWindow
<1>3. /\ dpc' \in [Desktops -> Pcs] /\ \A e \in Desktops \ {d} : dpid'[e] = dpid[e] /\ dpc'[e] = dpc[e]
  BY TypeStep, <1>1 DEF TypeOK, Launch, LaunchStep, GivesUp, Connect, ReadPidFile, ReadStale,
     UnlinkStale, GraceSucceeds, GraceEnds, Popen, Record, Wait, Poll, OpenWindow, Next
<1>4. port = NoPid => \A s \in Servers : srv[s] # "serving"
  BY DEF PortInv, Servers, NoPid
<1>5. Steady /\ (\A e \in Desktops : dpc[e] \notin Awaiting) => \A s \in Servers : ~Booting(s)
  BY DEF SteadyInv
<1>. HIDE DEF servers
<1>6. CASE Launch(d)
  <2>1. UNCHANGED servers /\ dpc[d] = "idle" /\ dpc'[d] \in {"done", "connect"}
    BY <1>6 DEF Launch, TypeOK
  <2>. QED BY <1>1, <1>2, <1>3, <2>1, SteadyMoves DEF Searching, Awaiting
<1>7. CASE Connect(d)
  <2>1. /\ UNCHANGED servers /\ dpc[d] = "connect" /\ dpc'[d] \in {"window", "pid"}
        /\ dpc'[d] = "pid" /\ Steady => port = NoPid
    BY <1>7 DEF Connect, CanSay, Steady, TypeOK
  <2>2. Steady /\ port = NoPid => \A s \in Servers : ~Alive(s)
    <3>1. Steady => \A e \in Desktops : dpc[e] \notin Awaiting
      BY <1>2, <2>1 DEF Settled, Awaiting
    <3>. QED BY <1>4, <1>5, <3>1 DEF Alive, Booting
  <2>. QED BY <1>1, <1>2, <1>3, <2>1, <2>2, SteadyMoves DEF Searching, Awaiting
<1>8. CASE ReadPidFile(d) \/ ReadStale(d) \/ UnlinkStale(d) \/ GraceSucceeds(d) \/ GraceEnds(d)
  <2>1. /\ UNCHANGED servers /\ dpc[d] \in Searching
        /\ dpc'[d] \in Searching \cup {"window"}
    BY <1>8 DEF ReadPidFile, ReadStale, UnlinkStale, GraceSucceeds, GraceEnds, Searching, TypeOK
  <2>2. Steady => \A s \in Servers : ~Alive(s)
    BY <2>1 DEF SteadyInv
  <2>. QED BY <1>1, <1>2, <1>3, <2>1, <2>2, SteadyMoves DEF Searching, Awaiting
<1>9. CASE Popen(d)
  <2>1. CASE UNCHANGED <<srv, spawned, parent>> /\ dpc'[d] = "done"
    <3>1. UNCHANGED servers /\ dpc[d] = "popen"
      BY <1>9, <2>1 DEF Popen, servers
    <3>. QED BY <1>1, <1>2, <1>3, <2>1, <3>1, SteadyMoves DEF Searching, Awaiting
  <2>2. CASE spawned < MaxServers /\ spawned' = spawned + 1
    <3>. SUFFICES ASSUME Steady PROVE SteadyInv'
      BY <1>1 DEF SteadyInv, Steady
    <3>1. /\ dpc[d] = "popen" /\ dpc'[d] = "record" /\ dpid'[d] = spawned'
          /\ srv' = [srv EXCEPT ![spawned'] = "boot"] /\ spawned' \in Servers
      BY <1>9, <2>2, LimitsAssumption DEF Popen, TypeOK, Servers
    <3>2. \A s \in Servers : ~Alive(s)
      BY <3>1 DEF SteadyInv, Searching
    <3>3. \A s \in Servers : Alive(s)' => s = spawned'
      BY <3>1, <3>2 DEF Alive, TypeOK
    <3>4. \A e \in Desktops \ {d} : Settled(e)' /\ dpc'[e] \notin Awaiting /\ dpc'[e] \notin Searching
      BY <1>2, <1>3 DEF Settled, Awaiting, Searching
    <3>5. \A s \in Servers : Booting(s)' => s = spawned'
      BY <3>3 DEF Booting, Alive, Servers, NoPid
    <3>. QED BY <3>1, <3>3, <3>4, <3>5 DEF SteadyInv, Awaiting, Searching
  <2>. QED BY <1>9, <2>1, <2>2 DEF Popen, TypeOK
<1>10. CASE Record(d)
  <2>1. UNCHANGED servers /\ UNCHANGED dpid /\ dpc[d] = "record" /\ dpc'[d] = "wait"
    BY <1>10 DEF Record, TypeOK
  <2>. QED BY <1>1, <1>2, <1>3, <2>1, SteadyMoves DEF Searching, Awaiting
<1>11. CASE Wait(d) \/ Poll(d) \/ GivesUp(d)
  <2>1. /\ UNCHANGED servers /\ UNCHANGED dpid /\ dpc[d] \in {"wait", "poll"}
        /\ dpc'[d] \in {"window", "wait", "poll", "done"}
        /\ Steady /\ dpc'[d] = "window" => port # NoPid
        /\ Steady /\ dpc'[d] = "done" => ~Alive(dpid[d])
    BY <1>11 DEF Wait, Poll, GivesUp, TypeOK, Steady, CanSay
  <2>2. Steady => \A s \in Servers : Alive(s) => s = dpid[d]
    BY <2>1 DEF SteadyInv, Awaiting
  <2>3. ASSUME Steady, port # NoPid, NEW s \in Servers PROVE ~Booting(s)
    <3>1. port \in Servers /\ srv[port] = "serving"
      BY <2>3 DEF PortInv, TypeOK
    <3>2. Alive(port) /\ s # NoPid
      BY <2>3, <3>1 DEF Alive, Servers, NoPid
    <3>3. Booting(s) => Alive(s)
      BY <3>2 DEF Alive, Booting
    <3>. QED BY <2>2, <2>3, <3>1, <3>2, <3>3 DEF Booting
  <2>4. ASSUME Steady, ~Alive(dpid[d]), NEW s \in Servers PROVE ~Booting(s)
    BY <2>2, <2>4 DEF Booting, Alive, Servers, NoPid
  <2>. QED BY <1>1, <1>2, <1>3, <2>1, <2>3, <2>4, SteadyMoves DEF Searching, Awaiting
<1>12. CASE OpenWindow(d)
  <2>1. UNCHANGED servers /\ dpc[d] = "window" /\ dpc'[d] = "open"
    BY <1>12 DEF OpenWindow, TypeOK
  <2>. QED BY <1>1, <1>2, <1>3, <2>1, SteadyMoves DEF Searching, Awaiting
<1>. QED BY <1>6, <1>7, <1>8, <1>9, <1>10, <1>11, <1>12 DEF LaunchStep

\* A desktop process that closes or dies starts nothing (shutdown_desktop).
LEMMA SteadyClose ==
    ASSUME TypeOK, PortInv, SteadyInv, NEW d \in Desktops, Close(d) \/ CloseStep(d) \/ Crash(d)
    PROVE  SteadyInv'
<1>. USE DEF Goes, Knows, files, chat, ends
<1>1. /\ UNCHANGED pace /\ dpc' \in [Desktops -> Pcs]
      /\ \A e \in Desktops \ {d} : dpid'[e] = dpid[e]
  BY TypeStep DEF TypeOK, Close, CloseStep, StopServer, StopDesktop, RemoveStateFiles, Crash, Next
<1>2. CASE Close(d)
  <2>1. /\ UNCHANGED servers /\ dpc[d] = "open" /\ dpc'[d] = "closing"
        /\ \A e \in Desktops \ {d} : dpc'[e] = dpc[e]
        /\ Steady => \A e \in Desktops : Settled(e)
    BY <1>2 DEF Close, TypeOK, MayBegin, Steady
  <2>. QED BY <1>1, <2>1, SteadyMoves DEF Searching, Awaiting
<1>3. CASE Crash(d)
  <2>1. CASE Steady
    <3>1. /\ UNCHANGED servers /\ UNCHANGED dpid /\ dpc[d] = "open" /\ dpc'[d] = "done"
          /\ \A e \in Desktops \ {d} : dpc'[e] = dpc[e]
      BY <1>3, <2>1 DEF Crash, TypeOK, Steady
    <3>2. \A s \in Servers : (Alive(s)' <=> Alive(s)) /\ (Booting(s)' <=> Booting(s))
      BY <3>1 DEF servers, Alive, Booting
    <3>3. \A e \in Desktops : /\ Settled(e)' <=> Settled(e)
                              /\ dpc'[e] \in Awaiting <=> dpc[e] \in Awaiting
                              /\ dpc'[e] \in Searching <=> dpc[e] \in Searching
      BY <3>1 DEF Settled, Awaiting, Searching
    <3>. QED BY <1>1, <3>1, <3>2, <3>3 DEF SteadyInv, Steady
  <2>. QED BY <1>1, <2>1 DEF SteadyInv, Steady
<1>4. CASE StopServer(d)
  <2>1. /\ dpc[d] = "closing" /\ dpc' = [dpc EXCEPT ![d] = "cleanup"] /\ UNCHANGED dpid
    BY <1>4 DEF StopServer
  <2>2. \A s \in Servers : (Alive(s)' => Alive(s)) /\ (Booting(s)' => Booting(s))
    BY <1>4 DEF StopServer, Stops, Alive, Booting, servers, TypeOK
  <2>3. \A e \in Desktops : /\ Settled(e)' <=> Settled(e)
                            /\ dpc'[e] \in Awaiting <=> dpc[e] \in Awaiting
                            /\ dpc'[e] \in Searching <=> dpc[e] \in Searching
    BY <2>1 DEF Settled, Awaiting, Searching, TypeOK
  <2>. QED BY <1>1, <2>1, <2>2, <2>3 DEF SteadyInv, Steady
<1>5. CASE StopDesktop(d) \/ RemoveStateFiles(d)
  <2>1. /\ UNCHANGED servers /\ dpc[d] \in {"cleanup", "remove"} /\ dpc'[d] \in {"remove", "done"}
        /\ \A e \in Desktops \ {d} : dpc'[e] \in {dpc[e], "done"} /\ (dpc'[e] # dpc[e] => Running(e))
    BY <1>5 DEF StopDesktop, RemoveStateFiles, TypeOK
  <2>2. Steady => \A e \in Desktops \ {d} : Settled(e)
    BY <2>1 DEF SteadyInv, Settled
  <2>. QED BY <1>1, <2>1, <2>2, SteadyMoves DEF Searching, Awaiting, Settled, Running
<1>. QED BY <1>2, <1>3, <1>4, <1>5 DEF CloseStep

\* Every step of the desktop processes, the servers and their deaths.
LEMMA SteadyStep == TypeOK /\ PortInv /\ SteadyInv /\ [Next]_vars => SteadyInv'
<1>. SUFFICES ASSUME TypeOK, PortInv, SteadyInv, [Next]_vars PROVE SteadyInv'
  OBVIOUS
<1>1. ASSUME NEW s \in Servers, ServerStep(s) \/ Die(s) PROVE SteadyInv'
  <2>1. /\ UNCHANGED <<dpc, dpid, pace>>
        /\ \A t \in Servers : (Alive(t)' => Alive(t)) /\ (Booting(t)' => Booting(t))
    BY <1>1 DEF ServerStep, Boot, Bind, Die, Stops, Alive, Booting, TypeOK, desktops, ends
  <2>. QED BY <2>1, SteadyServers
<1>2. CASE StartJob \/ EndJob \/ UNCHANGED vars
  <2>1. /\ UNCHANGED <<dpc, dpid, pace>>
        /\ \A t \in Servers : (Alive(t)' => Alive(t)) /\ (Booting(t)' => Booting(t))
    BY <1>2 DEF StartJob, EndJob, vars, servers, Alive, Booting, desktops, ends
  <2>. QED BY <2>1, SteadyServers
<1>. QED BY <1>1, <1>2, SteadyLaunch, SteadyClose DEF Next

(***************************************************************************)
(* The session is driven by who serves it.                                 *)
(***************************************************************************)
LEMMA SessionInit == Init => SessionInv
BY DEF Init, SessionInv

\* A process that ends leaves no other one.
LEMMA SessionStops ==
    ASSUME TypeOK, PortInv, OneServer, SessionInv, NEW s, Exists(s), Stops(s), UNCHANGED pace
    PROVE  SessionInv'
<1>. SUFFICES ASSUME Steady, session = "running", job' = NoPid
              PROVE  port' = NoPid /\ \A t \in Servers : srv'[t] # "bind"
  BY DEF SessionInv, Steady, Stops
<1>1. CASE job = NoPid
  BY <1>1 DEF SessionInv, Stops, TypeOK
<1>2. CASE job # NoPid
  <2>1. job = s /\ port = s /\ s \in Servers /\ Alive(s)
    BY <1>2 DEF Stops, PortInv, TypeOK, Alive
  <2>2. ASSUME NEW t \in Servers, t # s PROVE srv[t] # "bind"
    <3>1. ~Alive(t)
      BY <2>1, <2>2 DEF OneServer
    <3>2. t # NoPid
      BY DEF Servers, NoPid
    <3>. QED BY <3>1, <3>2 DEF Alive
  <2>. QED BY <2>1, <2>2 DEF Stops, TypeOK
<1>. QED BY <1>1, <1>2

\* A server reconciles before it binds, and only the one that serves runs a job (create_app).
LEMMA SessionStep == TypeOK /\ PortInv /\ SteadyInv /\ SessionInv /\ [Next]_vars => SessionInv'
<1>. SUFFICES ASSUME TypeOK, PortInv, SteadyInv, SessionInv, [Next]_vars PROVE SessionInv'
  OBVIOUS
<1>1. OneServer
  BY OneAlive
<1>2. CASE UNCHANGED <<port, session, job, pace>> /\ \A s \in Servers : srv'[s] = "bind" => srv[s] = "bind"
  BY <1>2 DEF SessionInv, Steady
<1>3. ASSUME NEW d \in Desktops, StopServer(d) PROVE SessionInv'
  <2>1. UNCHANGED pace
    BY <1>3 DEF StopServer, ends
  <2>2. CASE Exists(dpid[d]) /\ Stops(dpid[d])
    BY <1>1, <2>1, <2>2, SessionStops
  <2>3. CASE UNCHANGED <<servers, chat>>
    BY <1>2, <2>1, <2>3 DEF servers, chat
  <2>. QED BY <1>3, <2>2, <2>3 DEF StopServer
<1>4. ASSUME NEW d \in Desktops, Launch(d) \/ LaunchStep(d) \/ GivesUp(d) PROVE SessionInv'
  <2>1. CASE Popen(d)
    BY <1>2, <2>1 DEF Popen, chat, ends, TypeOK
  <2>. QED BY <1>2, <1>4, <2>1 DEF Launch, LaunchStep, GivesUp, Connect, ReadPidFile, ReadStale, UnlinkStale,
     GraceSucceeds, GraceEnds, Record, Wait, Poll, OpenWindow, servers, chat, ends
<1>5. ASSUME NEW d \in Desktops, Close(d) PROVE SessionInv'
  BY <1>5 DEF Close, servers, chat, ends, SessionInv, Steady
<1>6. ASSUME NEW d \in Desktops, StopDesktop(d) \/ RemoveStateFiles(d) \/ Crash(d) PROVE SessionInv'
  BY <1>2, <1>6 DEF StopDesktop, RemoveStateFiles, Crash, servers, chat, ends
<1>7. ASSUME NEW s \in Servers, Boot(s) PROVE SessionInv'
  BY <1>7 DEF Boot, ends, SessionInv, TypeOK
<1>8. ASSUME NEW s \in Servers, Bind(s) PROVE SessionInv'
  <2>1. srv[s] = "bind" /\ UNCHANGED <<session, job, pace>>
    BY <1>8 DEF Bind, chat, ends
  <2>. QED BY <2>1 DEF SessionInv, Steady, PortInv, TypeOK
<1>9. ASSUME NEW s \in Servers, Die(s) PROVE SessionInv'
  BY <1>1, <1>9, SessionStops DEF Die, Exists
<1>10. CASE StartJob \/ EndJob
  BY <1>10 DEF StartJob, EndJob, SessionInv
<1>11. CASE UNCHANGED vars
  BY <1>2, <1>11 DEF vars, servers, chat, ends
<1>. QED BY <1>3, <1>4, <1>5, <1>6, <1>7, <1>8, <1>9, <1>10, <1>11 DEF Next, CloseStep, ServerStep

(***************************************************************************)
(* Nobody died: one window, its server and the files that name them.       *)
(***************************************************************************)
Calm == Steady /\ deaths = 0

\* One desktop process runs; while its window is there so is its server, which both files name.
WindowInv ==
    Calm =>
        /\ \A d, e \in Desktops : Running(d) /\ Running(e) => d = e
        /\ \A d \in Desktops : dpc[d] \in {"window", "open", "closing"} => port # NoPid /\ dpid[d] = port
        /\ \A d \in Desktops : dpc[d] \in {"open", "closing"} => deskFile = d
        /\ \A d \in Desktops : dpc[d] \in {"cleanup", "remove"} => \A s \in Servers : ~Alive(s)
        /\ \A d \in Desktops : dpc[d] \in {"wait", "poll"} => pidFile = dpid[d]
        /\ (\A d \in Desktops : dpc[d] # "record") /\ port # NoPid => pidFile = port

\* No desktop process died either: a server has its desktop process.
OwnedInv ==
    Calm /\ crashes = 0 =>
        \A s \in Servers : Alive(s) =>
            \E d \in Desktops : dpc[d] \in Awaiting \cup {"window", "open", "closing"}

\* At first there is no window.
LEMMA WindowInit == Init => WindowInv
BY DEF Init, WindowInv, Running

\* At first there is no server.
LEMMA OwnedInit == Init => OwnedInv
BY DEF Init, OwnedInv, Alive

\* What a desktop process owes that runs alone.
Owes(d) ==
    /\ dpc[d] \in {"window", "open", "closing"} => port # NoPid /\ dpid[d] = port
    /\ dpc[d] \in {"open", "closing"} => deskFile = d
    /\ dpc[d] \in {"cleanup", "remove"} => \A s \in Servers : ~Alive(s)
    /\ dpc[d] \in {"wait", "poll"} => pidFile = dpid[d]
    /\ dpc[d] # "record" /\ port # NoPid => pidFile = port

\* As long as nobody died, a desktop process that moves is the only one.
LEMMA WindowMoves ==
    ASSUME NEW d \in Desktops, UNCHANGED pace,
           Calm => /\ \A e \in Desktops \ {d} : ~Running(e) /\ dpc'[e] = dpc[e]
                   /\ Owes(d)',
           deaths' = 0 => deaths = 0
    PROVE  WindowInv'
BY DEF WindowInv, Owes, Calm, Steady, Running

\* A launch opens its window on the server that it found or started, and both files name them.
LEMMA WindowLaunch ==
    ASSUME TypeOK, PortInv, SteadyInv, WindowInv, NEW d \in Desktops,
           Launch(d) \/ LaunchStep(d) \/ GivesUp(d)
    PROVE  WindowInv'
<1>. USE DEF Goes, Knows, files, chat, ends, servers
<1>1. /\ dpc[d] \notin {"open", "done"} /\ UNCHANGED <<pace, deaths>>
      /\ \A e \in Desktops \ {d} : dpc'[e] = dpc[e]
  BY DEF Launch, LaunchStep, GivesUp, Connect, ReadPidFile, ReadStale, UnlinkStale, GraceSucceeds,
     GraceEnds, Popen, Record, Wait, Poll, OpenWindow, TypeOK
<1>2. port # NoPid => Alive(port) /\ port \in Servers
  BY DEF PortInv, TypeOK, Alive
<1>3. CASE Launch(d)
  <2>. SUFFICES ASSUME Calm PROVE WindowInv'
    BY <1>1 DEF WindowInv, Calm, Steady
  <2>1. /\ dpc[d] = "idle" /\ UNCHANGED <<port, pidFile, deskFile, dpid, srv>>
        /\ \A e \in Desktops : Settled(e)
        /\ dpc'[d] \in {"done", "connect"}
    BY <1>3 DEF Launch, Calm, Steady, MayBegin, TypeOK
  <2>2. CASE \E e \in Desktops : Running(e)
    <3>1. PICK e \in Desktops : dpc[e] = "open"
      BY <2>1, <2>2 DEF Running, Settled
    <3>2. port # NoPid /\ deskFile = e /\ Running(e)
      BY <3>1 DEF WindowInv, Running
    <3>3. dpc'[d] = "done"
      BY <1>3, <3>2 DEF Launch, CanSay, Calm, Steady, TypeOK
    <3>4. \A f \in Desktops : (Running(f)' <=> Running(f)) /\ (Running(f) => dpc'[f] = dpc[f])
      BY <1>1, <2>1, <3>3 DEF Running
    <3>5. \A s \in Servers : Alive(s)' <=> Alive(s)
      BY <2>1 DEF Alive
    <3>6. \A f \in Desktops : dpc[f] # "record"
      BY <2>1 DEF Settled
    <3>. QED BY <1>1, <2>1, <3>4, <3>5, <3>6 DEF WindowInv, Calm, Steady, Running
  <2>3. CASE \A e \in Desktops : ~Running(e)
    <3>1. Owes(d)'
      BY <2>1, <2>3 DEF Owes, WindowInv, Running
    <3>. QED BY <1>1, <2>3, <3>1, WindowMoves
  <2>. QED BY <2>2, <2>3
<1>4. CASE ~Launch(d)
  <2>1. dpc[d] # "idle"
    BY <1>4 DEF LaunchStep, GivesUp, Connect, ReadPidFile, ReadStale, UnlinkStale, GraceSucceeds,
     GraceEnds, Popen, Record, Wait, Poll, OpenWindow
  <2>2. Calm => \A e \in Desktops \ {d} : ~Running(e)
    BY <1>1, <2>1 DEF WindowInv, Running
  <2>3. Calm => Owes(d)
    BY <2>2 DEF WindowInv, Owes, Running
  <2>4. ASSUME Calm PROVE Owes(d)'
    <3>1. CASE Connect(d)
      BY <2>3, <2>4, <3>1 DEF Connect, Owes, TypeOK, CanSay, Calm, Steady
    <3>2. CASE ReadPidFile(d) \/ ReadStale(d) \/ UnlinkStale(d) \/ GraceSucceeds(d) \/ GraceEnds(d)
      <4>1. dpc[d] \in Searching /\ dpc'[d] \in Searching \cup {"window"} /\ UNCHANGED port
        BY <3>2 DEF ReadPidFile, ReadStale, UnlinkStale, GraceSucceeds, GraceEnds, Searching, TypeOK
      <4>2. port = NoPid
        BY <1>2, <2>4, <4>1 DEF SteadyInv, Calm
      <4>3. dpc'[d] # "window"
        BY <3>2, <4>2 DEF ReadPidFile, ReadStale, UnlinkStale, GraceSucceeds, GraceEnds, TypeOK, CanSay
      <4>. QED BY <4>1, <4>2, <4>3 DEF Owes, Searching
    <3>3. CASE Popen(d)
      <4>1. dpc[d] = "popen" /\ dpc'[d] \in {"record", "done"} /\ UNCHANGED port
        BY <3>3 DEF Popen, TypeOK
      <4>2. port = NoPid
        BY <1>2, <2>4, <4>1 DEF SteadyInv, Calm, Searching
      <4>. QED BY <4>1, <4>2 DEF Owes
    <3>4. CASE Record(d)
      <4>1. /\ dpc[d] = "record" /\ dpc'[d] = "wait" /\ pidFile' = dpid[d]
            /\ UNCHANGED <<port, dpid>>
        BY <3>4 DEF Record, TypeOK
      <4>2. port # NoPid => port = dpid[d]
        BY <1>2, <2>4, <4>1 DEF SteadyInv, Calm, Awaiting
      <4>. QED BY <4>1, <4>2 DEF Owes
    <3>5. CASE Wait(d) \/ Poll(d) \/ GivesUp(d)
      <4>1. /\ dpc[d] \in {"wait", "poll"} /\ UNCHANGED <<port, dpid, pidFile>>
            /\ dpc'[d] \in {"window", "wait", "poll", "done"}
            /\ dpc'[d] = "window" => port # NoPid
        BY <2>4, <3>5 DEF Wait, Poll, GivesUp, TypeOK, CanSay, Calm, Steady
      <4>2. port # NoPid => port = dpid[d]
        BY <1>2, <2>4, <4>1 DEF SteadyInv, Calm, Awaiting
      <4>. QED BY <2>3, <2>4, <4>1, <4>2 DEF Owes
    <3>6. CASE OpenWindow(d)
      BY <2>3, <2>4, <3>6 DEF OpenWindow, Owes, TypeOK
    <3>. QED BY <1>4, <3>1, <3>2, <3>3, <3>4, <3>5, <3>6 DEF LaunchStep
  <2>. QED BY <1>1, <2>2, <2>4, WindowMoves
<1>. QED BY <1>3, <1>4

\* A close ends the server before it removes the files.
LEMMA WindowClose ==
    ASSUME TypeOK, PortInv, SteadyInv, WindowInv, NEW d \in Desktops,
           Close(d) \/ CloseStep(d) \/ Crash(d)
    PROVE  WindowInv'
<1>. USE DEF Goes, Knows, files, chat, ends, servers
<1>1. UNCHANGED <<pace, deaths>> /\ Running(d)
  BY DEF Close, CloseStep, StopServer, StopDesktop, RemoveStateFiles, Crash, Running
<1>2. Calm => /\ \A e \in Desktops \ {d} : ~Running(e)
              /\ Owes(d)
  BY <1>1 DEF WindowInv, Running, Owes
<1>3. Calm => \A e \in Desktops \ {d} : dpc'[e] = dpc[e]
  BY <1>2 DEF Close, CloseStep, StopServer, StopDesktop, RemoveStateFiles, Crash, TypeOK
<1>4. ASSUME Calm PROVE Owes(d)'
  <2>1. CASE Close(d)
    <3>1. /\ dpc[d] = "open" /\ dpc'[d] = "closing" /\ UNCHANGED <<port, pidFile, deskFile>>
          /\ dpid'[d] = IF dpid[d] # NoPid THEN dpid[d] ELSE pidFile
      BY <2>1 DEF Close, TypeOK
    <3>. QED BY <1>2, <1>4, <3>1 DEF Owes
  <2>2. CASE StopServer(d)
    <3>1. dpc[d] = "closing" /\ dpc'[d] = "cleanup" /\ port # NoPid /\ dpid[d] = port
      BY <1>2, <1>4, <2>2 DEF StopServer, TypeOK, Owes
    <3>2. Alive(port)
      BY <3>1 DEF PortInv, TypeOK, Alive
    <3>3. Stops(port)
      BY <2>2, <3>1, <3>2 DEF StopServer, Exists
    <3>4. \A s \in Servers : Alive(s) => s = port
      BY <1>4, <3>1, <3>2, OneAlive DEF OneServer, Calm, TypeOK
    <3>5. \A s \in Servers : ~Alive(s)'
      BY <3>3, <3>4 DEF Stops, Alive, TypeOK
    <3>6. port' = NoPid
      BY <3>3 DEF Stops
    <3>. QED BY <3>1, <3>5, <3>6 DEF Owes
  <2>3. CASE StopDesktop(d)
    <3>1. dpc[d] = "cleanup" /\ dpc'[d] = "remove" /\ UNCHANGED <<port, srv, pidFile>>
      BY <2>3 DEF StopDesktop
    <3>. QED BY <1>2, <1>4, <3>1 DEF Owes, Alive
  <2>4. CASE RemoveStateFiles(d)
    <3>1. dpc[d] = "remove" /\ dpc'[d] = "done" /\ UNCHANGED <<port, srv>>
      BY <2>4 DEF RemoveStateFiles, TypeOK
    <3>2. port = NoPid
      BY <1>2, <1>4, <3>1 DEF Owes, PortInv, TypeOK, Alive
    <3>. QED BY <3>1, <3>2 DEF Owes
  <2>5. CASE Crash(d)
    <3>1. dpc[d] = "open" /\ dpc'[d] = "done" /\ UNCHANGED <<port, pidFile>>
      BY <1>4, <2>5 DEF Crash, TypeOK, Calm, Steady
    <3>. QED BY <1>2, <1>4, <3>1 DEF Owes
  <2>. QED BY <2>1, <2>2, <2>3, <2>4, <2>5 DEF CloseStep
<1>. QED BY <1>1, <1>2, <1>3, <1>4, WindowMoves

\* Every step leaves one window, its server and the files that name them.
LEMMA WindowStep == TypeOK /\ PortInv /\ SteadyInv /\ WindowInv /\ [Next]_vars => WindowInv'
<1>. SUFFICES ASSUME TypeOK, PortInv, SteadyInv, WindowInv, [Next]_vars PROVE WindowInv'
  OBVIOUS
<1>1. CASE /\ UNCHANGED <<pace, deaths, dpc, dpid, port, pidFile, deskFile>>
           /\ \A s \in Servers : Alive(s)' => Alive(s)
  BY <1>1 DEF WindowInv, Calm, Steady, Running
<1>2. ASSUME NEW s \in Servers, Die(s) PROVE WindowInv'
  BY <1>2 DEF Die, TypeOK, WindowInv, Calm
<1>3. ASSUME NEW s \in Servers, Boot(s) PROVE WindowInv'
  BY <1>1, <1>3 DEF Boot, Alive, TypeOK, files, desktops, ends
<1>4. ASSUME NEW s \in Servers, Bind(s) PROVE WindowInv'
  <2>1. CASE port # NoPid
    BY <1>1, <1>4, <2>1 DEF Bind, Alive, TypeOK, files, desktops, ends
  <2>2. CASE port = NoPid
    <3>. SUFFICES ASSUME Calm PROVE WindowInv'
      BY <1>4 DEF Bind, ends, WindowInv, Calm, Steady
    <3>1. /\ srv[s] = "bind" /\ port' = s /\ srv' = [srv EXCEPT ![s] = "serving"]
          /\ UNCHANGED <<pidFile, deskFile, dpc, dpid, pace, deaths>>
      BY <1>4, <2>2 DEF Bind, files, desktops, ends
    <3>2. PICK d \in Desktops : dpc[d] \in Awaiting /\ dpid[d] = s
      BY <3>1 DEF SteadyInv, Calm, Booting
    <3>3. Running(d)
      BY <3>2 DEF Running, Awaiting
    <3>4. \A e \in Desktops \ {d} : ~Running(e) /\ dpc'[e] = dpc[e]
      BY <3>1, <3>3 DEF WindowInv
    <3>5. Owes(d)'
      BY <3>1, <3>2 DEF Owes, WindowInv, Awaiting
    <3>. QED BY <3>1, <3>4, <3>5, WindowMoves
  <2>. QED BY <2>1, <2>2
<1>5. CASE StartJob \/ EndJob \/ UNCHANGED vars
  BY <1>1, <1>5 DEF StartJob, EndJob, vars, Alive, files, servers, desktops, ends
<1>. QED BY <1>2, <1>3, <1>4, <1>5, WindowLaunch, WindowClose DEF Next, ServerStep

\* Every step leaves a server to a desktop process, until one dies.
LEMMA OwnedStep == TypeOK /\ PortInv /\ SteadyInv /\ WindowInv /\ OwnedInv /\ [Next]_vars => OwnedInv'
<1>. SUFFICES ASSUME TypeOK, PortInv, SteadyInv, WindowInv, OwnedInv, [Next]_vars PROVE OwnedInv'
  OBVIOUS
<1>. DEFINE With == Awaiting \cup {"window", "open", "closing"}
<1>1. CASE /\ UNCHANGED <<pace, deaths, crashes>>
           /\ \A d \in Desktops : dpc[d] \in With => dpc'[d] \in With
           /\ \A s \in Servers : Alive(s)' => Alive(s)
  BY <1>1 DEF OwnedInv, Calm, Steady
<1>2. ASSUME NEW d \in Desktops, Launch(d) \/ LaunchStep(d) \/ GivesUp(d) PROVE OwnedInv'
  <2>. USE DEF Goes, Knows, files, chat, ends, servers
  <2>1. CASE Wait(d) \/ Poll(d) \/ GivesUp(d)
    <3>. SUFFICES ASSUME Calm, crashes = 0 PROVE OwnedInv'
      BY <2>1 DEF OwnedInv, Calm, Steady, Wait, Poll, GivesUp
    <3>1. /\ dpc[d] \in {"wait", "poll"} /\ UNCHANGED <<srv, pace, deaths, crashes>>
          /\ dpc'[d] \in With \cup {"done"}
          /\ \A e \in Desktops \ {d} : dpc'[e] = dpc[e]
          /\ dpc'[d] = "done" => ~Alive(dpid[d])
      BY <2>1 DEF Wait, Poll, GivesUp, TypeOK, Awaiting, Calm, Steady
    <3>2. dpc'[d] = "done" => \A s \in Servers : ~Alive(s)
      BY <3>1 DEF SteadyInv, Calm, Awaiting
    <3>. QED BY <3>1, <3>2 DEF OwnedInv, Alive
  <2>2. CASE Popen(d)
    <3>1. /\ dpc[d] = "popen" /\ UNCHANGED <<pace, deaths, crashes>>
          /\ \A e \in Desktops \ {d} : dpc'[e] = dpc[e]
          /\ dpc'[d] = "record" \/ UNCHANGED srv
      BY <2>2 DEF Popen, TypeOK
    <3>. QED BY <3>1 DEF OwnedInv, Calm, Steady, Awaiting, Alive
  <2>3. CASE Record(d) \/ OpenWindow(d)
    BY <1>1, <2>3 DEF Record, OpenWindow, TypeOK, Awaiting, Alive
  <2>4. CASE Launch(d) \/ Connect(d) \/ ReadPidFile(d) \/ ReadStale(d) \/ UnlinkStale(d)
             \/ GraceSucceeds(d) \/ GraceEnds(d)
    <3>1. /\ dpc[d] \notin With /\ UNCHANGED <<srv, pace, deaths, crashes>>
          /\ \A e \in Desktops \ {d} : dpc'[e] = dpc[e]
      BY <2>4 DEF Launch, Connect, ReadPidFile, ReadStale, UnlinkStale, GraceSucceeds, GraceEnds, TypeOK, Awaiting
    <3>. QED BY <1>1, <3>1 DEF Alive
  <2>. QED BY <1>2, <2>1, <2>2, <2>3, <2>4 DEF LaunchStep
<1>3. ASSUME NEW d \in Desktops, Close(d) PROVE OwnedInv'
  BY <1>1, <1>3 DEF Close, Goes, TypeOK, Awaiting, Alive, servers, ends
<1>4. ASSUME NEW d \in Desktops, StopServer(d) PROVE OwnedInv'
  <2>1. /\ dpc[d] = "closing" /\ dpc'[d] = "cleanup" /\ UNCHANGED pace /\ UNCHANGED deaths
    BY <1>4 DEF StopServer, Goes, TypeOK, ends
  <2>2. WindowInv'
    BY <1>4, WindowClose DEF CloseStep
  <2>. QED BY <2>1, <2>2 DEF WindowInv, OwnedInv
<1>5. ASSUME NEW d \in Desktops, StopDesktop(d) \/ RemoveStateFiles(d) PROVE OwnedInv'
  <2>1. /\ dpc[d] \in {"cleanup", "remove"} /\ UNCHANGED <<srv, pace, deaths, crashes>>
    BY <1>5 DEF StopDesktop, RemoveStateFiles, servers, ends
  <2>2. Calm => \A s \in Servers : ~Alive(s)
    BY <2>1 DEF WindowInv
  <2>. QED BY <2>1, <2>2 DEF OwnedInv, Calm, Steady, Alive
<1>6. ASSUME NEW d \in Desktops, Crash(d) PROVE OwnedInv'
  BY <1>6 DEF Crash, OwnedInv, TypeOK
<1>7. ASSUME NEW s \in Servers, ServerStep(s) PROVE OwnedInv'
  BY <1>1, <1>7 DEF ServerStep, Boot, Bind, desktops, ends, TypeOK, Alive
<1>8. ASSUME NEW s \in Servers, Die(s) PROVE OwnedInv'
  BY <1>8 DEF Die, OwnedInv, Calm, TypeOK
<1>9. CASE StartJob \/ EndJob \/ UNCHANGED vars
  BY <1>1, <1>9 DEF StartJob, EndJob, vars, servers, desktops, ends, Alive
<1>. QED BY <1>2, <1>3, <1>4, <1>5, <1>6, <1>7, <1>8, <1>9 DEF Next, CloseStep

(***************************************************************************)
(* The theorems.                                                           *)
(***************************************************************************)
IInv == TypeOK /\ PortInv /\ SteadyInv /\ SessionInv /\ WindowInv /\ OwnedInv

\* The invariant holds initially.
LEMMA InitInv == Init => IInv
BY TypeInit, PortInit, SteadyInit, SessionInit, WindowInit, OwnedInit DEF IInv

\* Every step preserves it.
LEMMA StepInv == IInv /\ [Next]_vars => IInv'
BY TypeStep, PortStep, SteadyStep, SessionStep, WindowStep, OwnedStep DEF IInv

\* Launches that follow each other, with servers that answer in time, make a single instance
\* however many desktop processes, servers, deaths and crashes there are: one server process,
\* one window, a pid file that names the server, and a server that drives what claims to be
\* running (launch_server, start_or_connect, shutdown_desktop, reconcile).
THEOREM InstanceIsSingle == Spec => []SingleInstance
<1>1. IInv => OneServer
  BY OneAlive DEF IInv
<1>2. IInv => OneWindow
  BY DEF IInv, WindowInv, OneWindow, Calm, Running
<1>3. IInv => PidFileNamesServer
  BY DEF IInv, WindowInv, PidFileNamesServer, Calm, Quiet, Settled
<1>4. IInv => ServedIsDriven
  BY DEF IInv, PortInv, SessionInv, ServedIsDriven
<1>. QED BY <1>1, <1>2, <1>3, <1>4, InitInv, StepInv, PTL DEF Spec, SingleInstance

\* At that pace a server does not survive its window, as long as no process died
\* (closeEvent, shutdown_desktop, stop_server).
THEOREM ServerEnds == Spec => []ServerEndsWithWindow
<1>1. IInv => ServerEndsWithWindow
  BY DEF IInv, OwnedInv, ServerEndsWithWindow, Calm, Quiet, Settled, Awaiting
<1>. QED BY <1>1, InitInv, StepInv, PTL DEF Spec
===============================================================================
