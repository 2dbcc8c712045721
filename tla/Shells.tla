------------------------------- MODULE Shells -------------------------------
(***************************************************************************)
(* Shells: the processes of the suite's apps on one machine, how they      *)
(* start, serve and end, and what they share: ports, the pidfile and the   *)
(* registry's ports.                                                       *)
(*                                                                         *)
(* A process runs one program.  With mode "window" that is run_windowed    *)
(* with its default seams: main thread, server thread, tray thread and     *)
(* the thread that waits to destroy the window.  With mode "page" it is    *)
(* bootstrap_spa followed by a uvicorn server.  Both use a port they       *)
(* probed before.  What calls run_windowed, bootstrap_spa and restart is   *)
(* external.                                                               *)
(*                                                                         *)
(* A server that is up answers /healthz; nothing else does.  Timeouts      *)
(* (30 s for the health, 5 s for the join) may strike at any moment.       *)
(*                                                                         *)
(* Definitions named Wrong... and Other... are plausible mistakes that     *)
(* nothing else uses.                                                      *)
(***************************************************************************)
EXTENDS Naturals

CONSTANTS
  Procs,     \* process ids
  AppIds,    \* installed apps
  LastPort,  \* ports are 0..LastPort, find_available_port tries no other
  Foreign,   \* ports that programs outside the suite hold
  MaxLives,  \* bound on how often a process id is used
  None,      \* nothing
  Disabled,  \* what the registry says of an app that may not be launched
  Torn       \* what a file holds between truncation and write

Ports    == 0..LastPort
Programs == [app : AppIds, mode : {"window", "page"}, from : Ports]
Entry    == [pid : Procs, port : Ports, life : Nat]

ASSUME PortsAssumption ==
  LastPort \in Nat /\ MaxLives \in Nat /\ Foreign \subseteq Ports
ASSUME RegistryAssumption == {None, Disabled} \cap Ports = {} /\ None # Disabled
ASSUME TornAssumption == None \notin Entry /\ Torn \notin Entry /\ None # Torn

VARIABLES
  pc,          \* per process: where its main thread stands, "off" without process
  prog,        \* per process: its program
  port,        \* per process: the port it tries, then the one it uses
  server,      \* per process: its server thread
  tray,        \* per process: its tray icon is there
  quit,        \* per process: its quit_event is set
  pidfile,     \* locks/pd-suite.json; the writer's life is history
  registered,  \* per app: its port in the registry, Disabled, or None if it is not listed
  life,        \* history: how often the process id was used
  marks,       \* history, per process: "late", "beaten", "slow", see below
  raced        \* history: a start overwrote the pidfile of one it had not seen

lasting   == <<pidfile, registered, raced>>
shellVars == <<pc, prog, port, server, tray, quit, lasting, life, marks>>

Positions == {"off", "other", "zombie", "check", "resolve", "register", "acquire", "write", "start",
              "wait", "tray", "open", "serve", "stop", "untray", "returned"}

\* A shell with the lock, as far as it knows.
Holding == {"start", "wait", "tray", "open", "stop", "untray"}

\* Before, each process id was used as often as used says.
ShellInit(used) ==
  /\ pc = [p \in Procs |-> "off"]
  /\ prog = [p \in Procs |-> None]
  /\ port = [p \in Procs |-> 0]
  /\ server = [p \in Procs |-> "none"]
  /\ tray = [p \in Procs |-> FALSE]
  /\ quit = [p \in Procs |-> FALSE]
  /\ pidfile = None
  /\ registered = [a \in AppIds |-> 0]
  /\ life = used
  /\ marks = [p \in Procs |-> {}]
  /\ raced = FALSE

-----------------------------------------------------------------------------
(* Processes. *)

\* The process id is given to a process that runs program g from its start.
Begin(p, g) ==
  /\ life[p] < MaxLives
  /\ life' = [life EXCEPT ![p] = @ + 1]
  /\ pc' = [pc EXCEPT ![p] = IF g.mode = "window" THEN "check" ELSE "resolve"]
  /\ prog' = [prog EXCEPT ![p] = g]
  /\ port' = [port EXCEPT ![p] = g.from]

\* Threads and sockets of a process are gone.
Cleared(p) ==
  /\ server' = [server EXCEPT ![p] = "none"]
  /\ tray' = [tray EXCEPT ![p] = FALSE]
  /\ quit' = [quit EXCEPT ![p] = FALSE]
  /\ marks' = [marks EXCEPT ![p] = {}]

\* A user starts one of the programs.
Open(p, programs) ==
  /\ pc[p] = "off"
  /\ \E g \in programs : Begin(p, g)
  /\ UNCHANGED <<server, tray, quit, lasting, marks>>

\* A process outside the suite gets the id.
Reuse(p) ==
  /\ pc[p] = "off"
  /\ life[p] \in 1..(MaxLives - 1)
  /\ life' = [life EXCEPT ![p] = @ + 1]
  /\ pc' = [pc EXCEPT ![p] = "other"]
  /\ UNCHANGED <<prog, port, server, tray, quit, lasting, marks>>

\* execv keeps the process id and closes the sockets.
Restart(p) ==
  /\ pc[p] \in {"open", "serve"}
  /\ Begin(p, prog[p])
  /\ Cleared(p)
  /\ UNCHANGED lasting

\* The main thread goes on and changes nothing else of its process.
Goes(p, to) ==
  /\ pc' = [pc EXCEPT ![p] = to]
  /\ UNCHANGED <<prog, life>>

\* Until whoever started it waits for it, a process that ended keeps its id.
Ends(p) ==
  /\ \E to \in {"off", "zombie"} : pc' = [pc EXCEPT ![p] = to]
  /\ prog' = [prog EXCEPT ![p] = None]
  /\ port' = [port EXCEPT ![p] = 0]
  /\ Cleared(p)
  /\ UNCHANGED <<lasting, life>>

Kill(p) == pc[p] \notin {"off", "zombie"} /\ Ends(p)

\* The main thread is through, or has no server any more; daemon threads die with it.
Exit(p) ==
  /\ pc[p] = "returned" \/ (pc[p] = "serve" /\ server[p] \in {"failed", "died"})
  /\ Ends(p)

\* The launcher never waits for its child: this is its next Popen, or its own end.
Reap(p) ==
  /\ pc[p] = "zombie"
  /\ Goes(p, "off")
  /\ UNCHANGED <<port, server, tray, quit, lasting, marks>>

-----------------------------------------------------------------------------
(* The pidfile: read_live and acquire. *)

\* FileLock of the pidfile.
LockFree == \A q \in Procs : pc[q] # "write"

WrongAlive(p) == life[p] > 0
OtherAlive(p) == server[p] = "up"
\* os.kill(pid, 0) finds the process, whoever it is, and also one that has ended.
Alive(p) == pc[p] # "off"

Live == pidfile \in Entry /\ Alive(pidfile.pid)

\* An instance is alive: its port is shown in the browser and the start is over.
GiveWay(p) ==
  /\ pc[p] = "check"
  /\ LockFree
  /\ Live
  /\ Goes(p, "returned")
  /\ UNCHANGED <<port, server, tray, quit, lasting, marks>>

\* No instance is alive; a stale or cut pidfile is removed.
CheckFree(p) ==
  /\ pc[p] = "check"
  /\ LockFree
  /\ ~Live
  /\ pidfile' = None
  /\ Goes(p, "resolve")
  /\ UNCHANGED <<port, server, tray, quit, registered, raced, marks>>

\* acquire truncates the pidfile under the lock, whatever it holds.
Acquire(p) ==
  /\ pc[p] = "acquire"
  /\ LockFree
  /\ pidfile' = Torn
  /\ raced' = (raced \/ "late" \in marks[p])
  /\ Goes(p, "write")
  /\ UNCHANGED <<port, server, tray, quit, registered, marks>>

\* Starts that have looked and not yet acquired: they did not see this one.
Latecomers(p) ==
  {q \in Procs \ {p} : \/ pc[q] = "acquire"
                       \/ pc[q] = "resolve" /\ prog[q].mode = "window"}

\* acquire writes pid and port and frees the lock.
Acquired(p) ==
  /\ pc[p] = "write"
  /\ pidfile' = [pid |-> p, port |-> port[p], life |-> life[p]]
  /\ marks' = [q \in Procs |-> IF q \in Latecomers(p) THEN marks[q] \cup {"late"} ELSE marks[q]]
  /\ Goes(p, "start")
  /\ UNCHANGED <<port, server, tray, quit, registered, raced>>

-----------------------------------------------------------------------------
(* Ports and servers. *)

Serving(q, n)  == server[q] = "up" /\ port[q] = n
Healthy(n)     == \E q \in Procs : Serving(q, n)
FreePort(n)    == n \notin Foreign /\ ~Healthy(n)

\* find_available_port binds the port and lets go of it again.
ProbeFree(p) ==
  /\ pc[p] = "resolve"
  /\ FreePort(port[p])
  /\ Goes(p, IF prog[p].mode = "window" THEN "acquire" ELSE "register")
  /\ UNCHANGED <<port, server, tray, quit, lasting, marks>>

WrongProbeNext(p) ==
  /\ pc[p] = "resolve"
  /\ ~FreePort(port[p])
  /\ port[p] <= LastPort
  /\ port' = [port EXCEPT ![p] = @ + 1]
  /\ UNCHANGED <<pc, prog, life, server, tray, quit, lasting, marks>>
ProbeNext(p) ==
  /\ pc[p] = "resolve"
  /\ ~FreePort(port[p])
  /\ port[p] < LastPort
  /\ port' = [port EXCEPT ![p] = @ + 1]
  /\ UNCHANGED <<pc, prog, life, server, tray, quit, lasting, marks>>

ProbesExhausted(p) ==
  /\ pc[p] = "resolve"
  /\ ~FreePort(port[p])
  /\ port[p] = LastPort
  /\ Goes(p, "returned")
  /\ UNCHANGED <<port, server, tray, quit, lasting, marks>>

\* bootstrap_spa registers the port and enables the app, or goes on without.
Register(p) ==
  /\ pc[p] = "register"
  /\ registered' \in {registered, [registered EXCEPT ![prog[p].app] = port[p]]}
  /\ Goes(p, "start")
  /\ UNCHANGED <<port, server, tray, quit, pidfile, raced, marks>>

Edited(app, to) ==
  /\ registered' = [registered EXCEPT ![app] = to]
  /\ UNCHANGED <<pc, prog, port, server, tray, quit, pidfile, raced, life, marks>>

\* The app's entry is removed, or its binary: list_installed skips it then.
Unregister(app) == Edited(app, None)

\* The user disables the app in installed.toml.
Disable(app) == registered[app] \in Ports /\ Edited(app, Disabled)

StartServer(p) ==
  /\ pc[p] = "start"
  /\ server' = [server EXCEPT ![p] = "starting"]
  /\ Goes(p, IF prog[p].mode = "window" THEN "wait" ELSE "serve")
  /\ UNCHANGED <<port, tray, quit, lasting, marks>>

\* uvicorn is not there; nothing has been started.
StartRaises(p) ==
  /\ pc[p] = "start"
  /\ Goes(p, "returned")
  /\ UNCHANGED <<port, server, tray, quit, lasting, marks>>

\* A process that chose port n and has no server on it.
Chose(q, n) ==
  /\ pc[q] \notin {"off", "other", "zombie", "check", "resolve"}
  /\ port[q] = n
  /\ server[q] # "up"

\* The server thread binds its port; who else chose that port is beaten.
ServerUp(p) ==
  /\ server[p] = "starting"
  /\ FreePort(port[p])
  /\ server' = [server EXCEPT ![p] = "up"]
  /\ marks' = [q \in Procs |-> IF q # p /\ Chose(q, port[p]) THEN marks[q] \cup {"beaten"}
                               ELSE marks[q]]
  /\ UNCHANGED <<pc, prog, port, tray, quit, lasting, life>>

\* It cannot bind, or the app cannot be loaded.
ServerFails(p) ==
  /\ server[p] = "starting"
  /\ server' = [server EXCEPT ![p] = "failed"]
  /\ UNCHANGED <<pc, prog, port, tray, quit, lasting, life, marks>>

\* The server thread ends by itself; the watchdog does not look at it.
ServerDies(p) ==
  /\ server[p] = "up"
  /\ server' = [server EXCEPT ![p] = "died"]
  /\ UNCHANGED <<pc, prog, port, tray, quit, lasting, life, marks>>

-----------------------------------------------------------------------------
(* The window. *)

WrongWaitHealthy(p) ==
  /\ pc[p] = "wait"
  /\ Goes(p, "tray")
  /\ UNCHANGED <<port, server, tray, quit, lasting, marks>>
\* Some server answers at the port.
WaitHealthy(p) ==
  /\ pc[p] = "wait"
  /\ Healthy(port[p])
  /\ Goes(p, "tray")
  /\ UNCHANGED <<port, server, tray, quit, lasting, marks>>

WrongWaitFails(p) ==
  /\ pc[p] = "wait"
  /\ Goes(p, "returned")
  /\ UNCHANGED <<port, server, tray, quit, lasting, marks>>
WaitFails(p) ==
  /\ pc[p] = "wait"
  /\ Goes(p, "stop")
  /\ UNCHANGED <<port, server, tray, quit, lasting, marks>>

Show(p) ==
  /\ pc[p] = "tray"
  /\ tray' = [tray EXCEPT ![p] = TRUE]
  /\ Goes(p, "open")
  /\ UNCHANGED <<port, server, quit, lasting, marks>>

\* pystray or webview is not there.
ShowFails(p) ==
  /\ pc[p] = "tray"
  /\ \E on \in BOOLEAN : tray' = [tray EXCEPT ![p] = on]
  /\ Goes(p, "stop")
  /\ UNCHANGED <<port, server, quit, lasting, marks>>

\* Once the window is gone the event has no effect.
TrayQuit(p) ==
  /\ pc[p] = "open"
  /\ tray[p] /\ ~quit[p]
  /\ quit' = [quit EXCEPT ![p] = TRUE]
  /\ UNCHANGED <<pc, prog, port, server, tray, lasting, life, marks>>

\* webview.start returns and the event is set.
WindowGone(p) ==
  /\ pc[p] = "open"
  /\ quit' = [quit EXCEPT ![p] = TRUE]
  /\ Goes(p, "stop")
  /\ UNCHANGED <<port, server, tray, lasting, marks>>

UserCloses(p) == WindowGone(p)

WrongDestroyOnQuit(p) == quit[p] /\ ~tray[p] /\ WindowGone(p)
\* The thread that waits for quit_event destroys the window.
DestroyOnQuit(p) == quit[p] /\ WindowGone(p)

\* should_exit and a join that ends in time: the port is free again.
StopServer(p) ==
  /\ pc[p] = "stop"
  /\ server' = [server EXCEPT ![p] = IF @ \in {"starting", "up"} THEN "ended" ELSE @]
  /\ Goes(p, "untray")
  /\ UNCHANGED <<port, tray, quit, lasting, marks>>

\* The join times out and the thread goes on.
StopSlow(p) ==
  /\ pc[p] = "stop"
  /\ server[p] \in {"starting", "up"}
  /\ marks' = [marks EXCEPT ![p] = @ \cup {"slow"}]
  /\ Goes(p, "untray")
  /\ UNCHANGED <<port, server, tray, quit, lasting>>

StopTray(p) ==
  /\ pc[p] = "untray"
  /\ tray' = [tray EXCEPT ![p] = FALSE]
  /\ Goes(p, "returned")
  /\ UNCHANGED <<port, server, quit, lasting, marks>>

MainThread(p) ==
  \/ ProbeFree(p) \/ ProbeNext(p) \/ ProbesExhausted(p) \/ Register(p) \/ Acquired(p)
  \/ StartServer(p) \/ StartRaises(p) \/ WaitHealthy(p) \/ WaitFails(p) \/ Show(p) \/ ShowFails(p)
  \/ DestroyOnQuit(p) \/ StopServer(p) \/ StopSlow(p) \/ StopTray(p) \/ Exit(p)

Locking(p) == GiveWay(p) \/ CheckFree(p) \/ Acquire(p)

ServerThread(p) == ServerFails(p) \/ ServerDies(p)

Process(p) ==
  \/ Reuse(p) \/ Restart(p) \/ Kill(p) \/ Reap(p) \/ MainThread(p) \/ Locking(p) \/ ServerThread(p)
  \/ TrayQuit(p) \/ UserCloses(p)

-----------------------------------------------------------------------------
ShellTypeOK ==
  /\ pc \in [Procs -> Positions]
  /\ prog \in [Procs -> Programs \cup {None}]
  /\ port \in [Procs -> Ports]
  /\ server \in [Procs -> {"none", "starting", "up", "failed", "died", "ended"}]
  /\ tray \in [Procs -> BOOLEAN]
  /\ quit \in [Procs -> BOOLEAN]
  /\ pidfile \in Entry \cup {None, Torn}
  /\ registered \in [AppIds -> Ports \cup {None, Disabled}]
  /\ life \in [Procs -> 0..MaxLives]
  /\ marks \in [Procs -> SUBSET {"late", "beaten", "slow"}]
  /\ raced \in BOOLEAN

\* Unless a start overwrote the pidfile of one that acquired it between that start's
\* check and its acquire (desktop.py:518-525), there is at most one shell, of whatever
\* app, and the pidfile names it and its port, also after crashes in acquire, stale
\* files and restarts.
OneInstance ==
  raced \/ \A p \in Procs : (pc[p] \in Holding /\ prog[p].mode = "window")
             => pidfile = [pid |-> p, port |-> port[p], life |-> life[p]]

\* A window shows, and a health check took for its own, the process's server, dead or
\* alive, unless another server took its port between the probe and the bind
\* (ports.py:48, desktop.py:532).
WindowsShowOwnServer ==
  \A p \in Procs : pc[p] \in {"tray", "open"} => server[p] \in {"up", "died"} \/ "beaten" \in marks[p]

\* However run_windowed ends, with its window closed, its server not healthy in time or
\* tray or window missing, it leaves no tray icon, and no server but one that would
\* not stop in time (desktop.py:564).
TeardownStops ==
  \A p \in Procs : (pc[p] = "returned" /\ prog[p].mode = "window")
    => ~tray[p] /\ (server[p] \in {"starting", "up"} => "slow" \in marks[p])

\* When its server dies the window closes, as the docstring of run_windowed says
\* (desktop.py:473).
ServerDeathCloses ==
  \A p \in Procs : (pc[p] = "open" /\ server[p] = "died") ~> pc[p] # "open"

=============================================================================
