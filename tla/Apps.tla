-------------------------------- MODULE Apps --------------------------------
(***************************************************************************)
(* Apps: the suite's apps on one machine: the processes of Shells, the     *)
(* launches by which one app starts another, and the upgrades of Upgrade.  *)
(*                                                                         *)
(* A launch reads the sibling's port from the registry, asks that port for *)
(* /healthz, spawns the sibling if nobody answers and polls until somebody *)
(* does or the time is over.  An app without an entry (404) or disabled    *)
(* (409) is not launched.                                                  *)
(***************************************************************************)
EXTENDS Shells, Upgrade

CONSTANTS
  Launches,  \* requests to launch a sibling
  Windowed,  \* those with windowed=True
  Sibling,   \* the app that they launch
  Scenes     \* what happens in a behaviour is bounded by one of these

ASSUME SiblingAssumption == Sibling \in AppIds /\ None \notin [pid : Procs, life : Nat] \cup Programs
ASSUME ScenesAssumption ==
  Scenes \subseteq [used : [Procs -> 0..MaxLives], opened : SUBSET Programs,
                    launches : SUBSET Launches, posts : SUBSET Posts, edited : SUBSET AppIds]

VARIABLES
  scene,    \* what this behaviour has: process ids, programs, launches, requests and
            \* apps whose registry entry is removed or disabled
  call,     \* per launch: where it stands
  want,     \* per launch: the port it asks
  child,    \* per launch: the process it spawned, with the process's life
  outrun    \* history: launches whose port was answered by, or taken by, another process

\* How a launch is answered: with the sibling's url, 404, 409 or an error.
Answers == {"opened", "unknown", "disabled", "failed", "timeout"}

launchVars == <<call, want, child, outrun>>
vars       == <<scene, shellVars, upgradeVars, launchVars>>

Init ==
  /\ scene \in Scenes
  /\ ShellInit(scene.used)
  /\ UpgradeInit
  /\ call = [l \in Launches |-> "idle"]
  /\ want = [l \in Launches |-> 0]
  /\ child = [l \in Launches |-> None]
  /\ outrun = {}

-----------------------------------------------------------------------------
(* Launches. *)

Reaches(l, from, to) ==
  /\ call[l] = from
  /\ call' = [call EXCEPT ![l] = to]

\* The sibling's entry is looked up in the registry.
LaunchApp(l) ==
  /\ l \in scene.launches
  /\ registered[Sibling] \in Ports
  /\ Reaches(l, "idle", "check")
  /\ want' = [want EXCEPT ![l] = registered[Sibling]]
  /\ UNCHANGED <<shellVars, child, outrun>>

LaunchUnknown(l) ==
  /\ l \in scene.launches
  /\ registered[Sibling] = None
  /\ Reaches(l, "idle", "unknown")
  /\ UNCHANGED <<shellVars, want, child, outrun>>

LaunchDisabled(l) ==
  /\ l \in scene.launches
  /\ registered[Sibling] = Disabled
  /\ Reaches(l, "idle", "disabled")
  /\ UNCHANGED <<shellVars, want, child, outrun>>

AlreadyRunning(l) ==
  /\ Reaches(l, "check", "opened")
  /\ Healthy(want[l])
  /\ UNCHANGED <<shellVars, want, child, outrun>>

\* Nobody answers, or not within half a second: any error counts as nobody.
NotRunning(l) ==
  /\ Reaches(l, "check", "spawn")
  /\ outrun' = IF Healthy(want[l]) THEN outrun \cup {l} ELSE outrun
  /\ UNCHANGED <<shellVars, want, child>>

Spawn(l) ==
  /\ Reaches(l, "spawn", "poll")
  /\ \E p \in Procs :
       /\ pc[p] = "off"
       /\ Begin(p, [app  |-> Sibling, from |-> want[l],
                    mode |-> IF l \in Windowed THEN "window" ELSE "page"])
       /\ child' = [child EXCEPT ![l] = [pid |-> p, life |-> life[p] + 1]]
  /\ UNCHANGED <<server, tray, quit, lasting, marks, want, outrun>>

\* The binary is not there.
SpawnFails(l) ==
  /\ Reaches(l, "spawn", "failed")
  /\ UNCHANGED <<shellVars, want, child, outrun>>

PollHealthy(l) ==
  /\ Reaches(l, "poll", "opened")
  /\ Healthy(want[l])
  /\ UNCHANGED <<shellVars, want, child, outrun>>

\* LaunchTimeoutError; the child runs on.
PollTimeout(l) ==
  /\ Reaches(l, "poll", "timeout")
  /\ UNCHANGED <<shellVars, want, child, outrun>>

Launch(l) ==
  \/ LaunchApp(l) \/ LaunchUnknown(l) \/ LaunchDisabled(l) \/ AlreadyRunning(l) \/ NotRunning(l)
  \/ Spawn(l) \/ SpawnFails(l) \/ PollHealthy(l) \/ PollTimeout(l)

Child(l, p) == child[l] = [pid |-> p, life |-> life[p]]

\* A server comes up; history: the launches that wait for another one at its port.
Bind(p) ==
  /\ ServerUp(p)
  /\ outrun' = outrun \cup {l \in Launches : /\ call[l] \in {"spawn", "poll"}
                                             /\ want[l] = port[p]
                                             /\ ~Child(l, p)}
  /\ UNCHANGED <<call, want, child>>

Rest == UNCHANGED <<scene, upgradeVars>>

ProcessStep ==
  \/ \E p \in Procs : \/ (Open(p, scene.opened) \/ Process(p)) /\ UNCHANGED launchVars
                      \/ Bind(p)
  \/ \E app \in scene.edited : (Unregister(app) \/ Disable(app)) /\ UNCHANGED launchVars
  \/ \E l \in Launches : Launch(l)

Next ==
  \/ ProcessStep /\ Rest
  \/ UpgradeStep(scene.posts) /\ UNCHANGED <<scene, shellVars, launchVars>>

Fairness ==
  /\ \A p \in Procs :
       /\ WF_vars(MainThread(p) /\ UNCHANGED launchVars /\ Rest)
       /\ SF_vars(Locking(p) /\ UNCHANGED launchVars /\ Rest)
  /\ \A l \in Launches :
       /\ WF_vars((AlreadyRunning(l) \/ NotRunning(l)) /\ Rest)
       /\ WF_vars((Spawn(l) \/ SpawnFails(l)) /\ Rest)
       /\ WF_vars((PollHealthy(l) \/ PollTimeout(l)) /\ Rest)

Spec == Init /\ [][Next]_vars /\ Fairness

-----------------------------------------------------------------------------
(* Properties. *)

\* Every variable has the shape the code gives it (run_windowed, bootstrap_spa, launch,
\* apply_upgrade).
TypeOK ==
  /\ scene \in Scenes
  /\ ShellTypeOK
  /\ UpgradeTypeOK
  /\ call \in [Launches -> {"idle", "check", "spawn", "poll"} \cup Answers]
  /\ want \in [Launches -> Ports]
  /\ child \in [Launches -> [pid : Procs, life : Nat] \cup {None}]
  /\ outrun \subseteq Launches

\* An answer that a start or a launch polls for is its own server's, unless another
\* server took the port after the probe or the check (ports.py:48,
\* suite/sibling_spawn.py:115): "spawned" then names a process that does not serve.
AnswersAreOwn ==
  /\ WindowsShowOwnServer
  /\ \A l \in Launches, p \in Procs :
       (call[l] = "poll" /\ Serving(p, want[l])) => Child(l, p) \/ l \in outrun

\* A start gives way only to a process that is alive, holds the lock and has the port
\* that is shown, unless the process id is used again, by a stranger or by the shell
\* itself after restart(), or nobody has waited for the process that had it
\* (suite/single_instance.py:138).
GivesWayToShell ==
  [][\A p \in Procs : (pc[p] = "check" /\ pc'[p] = "returned") =>
       LET q == pidfile.pid
       IN  \/ life[q] # pidfile.life \/ pc[q] = "zombie"
           \/ pc[q] \in Holding \cup {"returned"} /\ port[q] = pidfile.port]_vars

\* A process that is up to its user, or gone.  That includes a window whose server
\* died: nothing in the code closes it, see ServerDeathCloses.
AtRest(p) == \/ pc[p] \in {"off", "other", "zombie"}
             \/ pc[p] = "open" /\ ~quit[p]
             \/ pc[p] = "serve" /\ server[p] \in {"starting", "up"}

\* No start stays on its way, every shell that is told to quit ends, whoever told it,
\* and every launch comes to an answer, the refusals included (desktop.py:560, suite/sibling_spawn.py:111).
EverythingSettles ==
  /\ \A p \in Procs : []<>AtRest(p)
  /\ \A l \in Launches : []<>(call[l] \in {"idle"} \cup Answers)

=============================================================================
