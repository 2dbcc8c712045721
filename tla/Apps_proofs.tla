----------------------------- MODULE Apps_proofs -----------------------------
(***************************************************************************)
(* Proofs about Apps, for any number of processes, ports, launches and     *)
(* requests and any scenes.                                                *)
(*                                                                         *)
(* The argument.  OneInstance needs to know who has looked at the pidfile  *)
(* and not acquired it yet: Sole says that while somebody holds the lock   *)
(* every such start is marked, so the next acquire is either by a start    *)
(* that found the holder alive and gave way, or by a marked one.  Windows  *)
(* and launches: a port has one server (OnePort), and whoever else chose   *)
(* it is marked when it comes up (Beaten, Answered).  Giving way: while    *)
(* the writer of the pidfile lives, it is a shell at that port (Named).    *)
(* Upgrade: a request that no other was made along with or after is the    *)
(* only one that writes the file (Alone).                                  *)
(***************************************************************************)
EXTENDS Apps, TLAPS

(* What acquire writes for a process. *)
EntryOf(p) == [pid |-> p, port |-> port[p], life |-> life[p]]

(* A window of a shell is, or will be, open. *)
Holder(p) == pc[p] \in Holding /\ prog[p].mode = "window"

(* The positions of the two modes. *)
Modes ==
  \A p \in Procs :
    /\ pc[p] \notin {"off", "other", "zombie"} => prog[p] \in Programs
    /\ pc[p] \in {"check", "acquire", "write", "wait", "tray", "open", "stop", "untray"}
         => prog[p].mode = "window"
    /\ pc[p] \in {"register", "serve"} => prog[p].mode = "page"

(* No server before it is started. *)
Quiet ==
  \A p \in Procs :
    pc[p] \in {"off", "other", "zombie", "check", "resolve", "register", "acquire", "write", "start"}
      => server[p] = "none"

(* A tray icon is there from Show to StopTray. *)
Trays == \A p \in Procs : tray[p] => pc[p] \in {"open", "stop", "untray"}

(* The lock file of the pidfile is held once. *)
OneWriter == \A p, q \in Procs : pc[p] = "write" /\ pc[q] = "write" => p = q

(* Unless a start was late, a holder is named by the pidfile and every start    *)
(* that did not see it is marked.                                              *)
Sole ==
  raced \/ \A p \in Procs : Holder(p) =>
    /\ pidfile = EntryOf(p)
    /\ \A q \in Procs : /\ pc[q] # "write"
                        /\ (pc[q] = "acquire" \/ (pc[q] = "resolve" /\ prog[q].mode = "window"))
                             => "late" \in marks[q]

(* A port has at most one server. *)
OnePort ==
  \A p, q \in Procs : server[p] = "up" /\ server[q] = "up" /\ port[p] = port[q] => p = q

(* A start whose port another server took is marked. *)
Beaten ==
  \A p, q \in Procs :
    (pc[p] \in {"register", "acquire", "write", "start", "wait"} /\ server[p] # "up"
       /\ Serving(q, port[p])) => "beaten" \in marks[p]

(* What is left when the server has been told to stop. *)
Ending ==
  /\ TeardownStops
  /\ \A p \in Procs : (pc[p] = "untray" /\ server[p] \in {"starting", "up"}) => "slow" \in marks[p]

(* As long as the writer of the pidfile lives, it holds the lock or is through. *)
Named ==
  pidfile \in Entry =>
    LET q == pidfile.pid
    IN  /\ pidfile.life <= life[q]
        /\ (life[q] = pidfile.life /\ pc[q] \notin {"off", "zombie"})
             => /\ pc[q] \in Holding \cup {"returned"}
                /\ prog[q].mode = "window"
                /\ port[q] = pidfile.port

(* The inductive invariant of the processes. *)
ShellIInv ==
  /\ ShellTypeOK /\ Modes /\ Quiet /\ Trays /\ OneWriter /\ Sole /\ OnePort /\ Beaten
  /\ WindowsShowOwnServer /\ Ending /\ Named

(* A user starts a program, or a launch spawns one. *)
LEMMA OpenStep ==
  ASSUME ShellIInv, NEW programs \in SUBSET Programs, NEW p \in Procs, Open(p, programs)
  PROVE  ShellIInv'
<1> USE PortsAssumption, TornAssumption
    DEF ShellIInv, ShellTypeOK, Open, Begin, Programs, lasting
<1>1. ShellTypeOK'
  BY DEF Positions, Ports
<1>2. Modes' /\ Quiet' /\ Trays' /\ OneWriter'
  BY DEF Modes, Quiet, Trays, OneWriter
<1>3. Sole'
  BY DEF Sole, Holder, EntryOf, Holding, Modes, OneWriter, Quiet
<1>4. OnePort' /\ Beaten' /\ WindowsShowOwnServer'
  BY DEF OnePort, Quiet, Beaten, Serving, WindowsShowOwnServer
<1>5. Ending'
  BY DEF Ending, TeardownStops
<1>6. Named'
  BY DEF Named, Holding, Entry, Positions, Modes
<1>7. QED BY <1>1, <1>2, <1>3, <1>4, <1>5, <1>6

(* A stranger gets a process id. *)
LEMMA ReuseStep ==
  ASSUME ShellIInv, NEW p \in Procs, Reuse(p)
  PROVE  ShellIInv'
<1> USE PortsAssumption, TornAssumption
    DEF ShellIInv, ShellTypeOK, Reuse, lasting
<1>1. ShellTypeOK'
  BY DEF Positions, Ports
<1>2. Modes' /\ Quiet' /\ Trays' /\ OneWriter'
  BY DEF Modes, Quiet, Trays, OneWriter
<1>3. Sole'
  BY DEF Sole, Holder, EntryOf, Holding, Modes, OneWriter, Quiet
<1>4. OnePort' /\ Beaten' /\ WindowsShowOwnServer'
  BY DEF OnePort, Quiet, Beaten, Serving, WindowsShowOwnServer
<1>5. Ending'
  BY DEF Ending, TeardownStops
<1>6. Named'
  BY DEF Named, Holding, Entry, Positions, Modes
<1>7. QED BY <1>1, <1>2, <1>3, <1>4, <1>5, <1>6

(* execv. *)
LEMMA RestartStep ==
  ASSUME ShellIInv, NEW p \in Procs, Restart(p)
  PROVE  ShellIInv'
<1> USE PortsAssumption, TornAssumption
    DEF ShellIInv, ShellTypeOK, Restart, Begin, Cleared, lasting
<1>1. ShellTypeOK'
  BY DEF Positions, Ports, Modes, Programs
<1>2. Modes' /\ Quiet' /\ Trays' /\ OneWriter'
  BY DEF Modes, Quiet, Trays, OneWriter
<1>3. Sole'
  BY DEF Sole, Holder, EntryOf, Holding, Modes, OneWriter, Quiet
<1>4. OnePort' /\ Beaten' /\ WindowsShowOwnServer'
  BY DEF OnePort, Quiet, Beaten, Serving, WindowsShowOwnServer
<1>5. Ending'
  BY DEF Ending, TeardownStops
<1>6. Named'
  BY DEF Named, Holding, Entry, Positions, Modes
<1>7. QED BY <1>1, <1>2, <1>3, <1>4, <1>5, <1>6

(* A process is killed. *)
LEMMA KillStep ==
  ASSUME ShellIInv, NEW p \in Procs, Kill(p)
  PROVE  ShellIInv'
<1> USE PortsAssumption, TornAssumption
    DEF ShellIInv, ShellTypeOK, Kill, Ends, Cleared, lasting
<1>1. ShellTypeOK'
  BY DEF Positions, Ports
<1>2. Modes' /\ Quiet' /\ Trays' /\ OneWriter'
  BY DEF Modes, Quiet, Trays, OneWriter
<1>3. Sole'
  BY DEF Sole, Holder, EntryOf, Holding, Modes, OneWriter, Quiet
<1>4. OnePort' /\ Beaten' /\ WindowsShowOwnServer'
  BY DEF OnePort, Beaten, Serving, WindowsShowOwnServer
<1>5. Ending'
  BY DEF Ending, TeardownStops
<1>6. Named'
  BY DEF Named, Holding, Entry, Positions, Modes
<1>7. QED BY <1>1, <1>2, <1>3, <1>4, <1>5, <1>6

(* A process ends. *)
LEMMA ExitStep ==
  ASSUME ShellIInv, NEW p \in Procs, Exit(p)
  PROVE  ShellIInv'
<1> USE PortsAssumption, TornAssumption
    DEF ShellIInv, ShellTypeOK, Exit, Ends, Cleared, lasting
<1>1. ShellTypeOK'
  BY DEF Positions, Ports
<1>2. Modes' /\ Quiet' /\ Trays' /\ OneWriter'
  BY DEF Modes, Quiet, Trays, OneWriter
<1>3. Sole'
  BY DEF Sole, Holder, EntryOf, Holding, Modes, OneWriter, Quiet
<1>4. OnePort' /\ Beaten' /\ WindowsShowOwnServer'
  BY DEF OnePort, Beaten, Serving, WindowsShowOwnServer
<1>5. Ending'
  BY DEF Ending, TeardownStops
<1>6. Named'
  BY DEF Named, Holding, Entry, Positions, Modes
<1>7. QED BY <1>1, <1>2, <1>3, <1>4, <1>5, <1>6

(* An ended process is waited for. *)
LEMMA ReapStep ==
  ASSUME ShellIInv, NEW p \in Procs, Reap(p)
  PROVE  ShellIInv'
<1> USE PortsAssumption, TornAssumption
    DEF ShellIInv, ShellTypeOK, Reap, Goes, lasting
<1>1. ShellTypeOK'
  BY DEF Positions, Ports
<1>2. Modes' /\ Quiet' /\ Trays' /\ OneWriter'
  BY DEF Modes, Quiet, Trays, OneWriter
<1>3. Sole'
  BY DEF Sole, Holder, EntryOf, Holding, Modes, OneWriter, Quiet
<1>4. OnePort' /\ Beaten' /\ WindowsShowOwnServer'
  BY DEF OnePort, Beaten, Serving, WindowsShowOwnServer
<1>5. Ending'
  BY DEF Ending, TeardownStops
<1>6. Named'
  BY DEF Named, Holding, Entry, Positions, Modes
<1>7. QED BY <1>1, <1>2, <1>3, <1>4, <1>5, <1>6

(* A start finds an instance alive. *)
LEMMA GiveWayStep ==
  ASSUME ShellIInv, NEW p \in Procs, GiveWay(p)
  PROVE  ShellIInv'
<1> USE PortsAssumption, TornAssumption
    DEF ShellIInv, ShellTypeOK, GiveWay, Goes, LockFree, Live, Alive, lasting
<1>1. ShellTypeOK'
  BY DEF Positions, Ports
<1>2. Modes' /\ Quiet' /\ Trays' /\ OneWriter'
  BY DEF Modes, Quiet, Trays, OneWriter
<1>3. Sole'
  BY DEF Sole, Holder, EntryOf, Holding, Modes, OneWriter, Quiet
<1>4. OnePort' /\ Beaten' /\ WindowsShowOwnServer'
  BY DEF OnePort, Beaten, Serving, WindowsShowOwnServer
<1>5. Ending'
  BY DEF Ending, TeardownStops, Quiet, Trays
<1>6. Named'
  BY DEF Named, Holding, Entry, Positions, Modes
<1>7. QED BY <1>1, <1>2, <1>3, <1>4, <1>5, <1>6

(* A start finds no instance: a holder would have been alive and named. *)
LEMMA CheckFreeStep ==
  ASSUME ShellIInv, NEW p \in Procs, CheckFree(p)
  PROVE  ShellIInv'
<1> USE PortsAssumption, TornAssumption
    DEF ShellIInv, ShellTypeOK, CheckFree, Goes, LockFree, Live, Alive, lasting
<1>1. ShellTypeOK'
  BY DEF Positions, Ports
<1>2. Modes' /\ Quiet' /\ Trays' /\ OneWriter'
  BY DEF Modes, Quiet, Trays, OneWriter
<1>3. Sole'
  BY DEF Sole, Holder, EntryOf, Holding, Modes, OneWriter, Quiet, Entry, Positions, Ports
<1>4. OnePort' /\ Beaten' /\ WindowsShowOwnServer'
  BY DEF OnePort, Beaten, Serving, WindowsShowOwnServer
<1>5. Ending'
  BY DEF Ending, TeardownStops
<1>6. Named'
  BY DEF Named, Holding, Entry, Positions, Modes
<1>7. QED BY <1>1, <1>2, <1>3, <1>4, <1>5, <1>6

(* A start truncates the pidfile: it is late, or nobody holds the lock. *)
LEMMA AcquireStep ==
  ASSUME ShellIInv, NEW p \in Procs, Acquire(p)
  PROVE  ShellIInv'
<1> USE PortsAssumption, TornAssumption
    DEF ShellIInv, ShellTypeOK, Acquire, Goes, LockFree, lasting
<1>1. ShellTypeOK'
  BY DEF Positions, Ports
<1>2. Modes' /\ Quiet' /\ Trays' /\ OneWriter'
  BY DEF Modes, Quiet, Trays, OneWriter
<1>3. Sole'
  BY DEF Sole, Holder, EntryOf, Holding, Modes, OneWriter, Quiet
<1>4. OnePort' /\ Beaten' /\ WindowsShowOwnServer'
  BY DEF OnePort, Beaten, Serving, WindowsShowOwnServer
<1>5. Ending'
  BY DEF Ending, TeardownStops
<1>6. Named'
  BY DEF Named, Holding, Entry, Positions, Modes
<1>7. QED BY <1>1, <1>2, <1>3, <1>4, <1>5, <1>6

(* A start has the lock and marks the others that are on their way. *)
LEMMA AcquiredStep ==
  ASSUME ShellIInv, NEW p \in Procs, Acquired(p)
  PROVE  ShellIInv'
<1> USE PortsAssumption, TornAssumption
    DEF ShellIInv, ShellTypeOK, Acquired, Goes, Latecomers, lasting
<1>1. ShellTypeOK'
  BY DEF Positions, Ports, Entry
<1>2. Modes' /\ Quiet' /\ Trays' /\ OneWriter'
  BY DEF Modes, Quiet, Trays, OneWriter
<1>3. Sole'
  BY DEF Sole, Holder, EntryOf, Holding, Modes, OneWriter, Quiet
<1>4. OnePort' /\ Beaten' /\ WindowsShowOwnServer'
  BY DEF OnePort, Beaten, Serving, WindowsShowOwnServer
<1>5. Ending'
  BY DEF Ending, TeardownStops
<1>6. Named'
  BY DEF Named, Holding, Entry, Positions, Modes
<1>7. QED BY <1>1, <1>2, <1>3, <1>4, <1>5, <1>6

(* A port is free. *)
LEMMA ProbeFreeStep ==
  ASSUME ShellIInv, NEW p \in Procs, ProbeFree(p)
  PROVE  ShellIInv'
<1> USE PortsAssumption, TornAssumption
    DEF ShellIInv, ShellTypeOK, ProbeFree, Goes, FreePort, Healthy, Serving, lasting
<1>1. ShellTypeOK'
  BY DEF Positions, Ports
<1>2. Modes' /\ Quiet' /\ Trays' /\ OneWriter'
  BY DEF Modes, Programs, Quiet, Trays, OneWriter
<1>3. Sole'
  BY DEF Sole, Holder, EntryOf, Holding, Modes, OneWriter, Quiet
<1>4. OnePort' /\ Beaten' /\ WindowsShowOwnServer'
  BY DEF OnePort, Quiet, Beaten, WindowsShowOwnServer
<1>5. Ending'
  BY DEF Ending, TeardownStops
<1>6. Named'
  BY DEF Named, Holding, Entry, Positions, Modes
<1>7. QED BY <1>1, <1>2, <1>3, <1>4, <1>5, <1>6

(* A port is taken. *)
LEMMA ProbeNextStep ==
  ASSUME ShellIInv, NEW p \in Procs, ProbeNext(p)
  PROVE  ShellIInv'
<1> USE PortsAssumption, TornAssumption
    DEF ShellIInv, ShellTypeOK, ProbeNext, lasting
<1>1. ShellTypeOK'
  BY DEF Positions, Ports
<1>2. Modes' /\ Quiet' /\ Trays' /\ OneWriter'
  BY DEF Modes, Quiet, Trays, OneWriter
<1>3. Sole'
  BY DEF Sole, Holder, EntryOf, Holding, Modes, OneWriter, Quiet
<1>4. OnePort' /\ Beaten' /\ WindowsShowOwnServer'
  BY DEF OnePort, Quiet, Beaten, Serving, WindowsShowOwnServer
<1>5. Ending'
  BY DEF Ending, TeardownStops
<1>6. Named'
  BY DEF Named, Holding, Entry, Positions, Modes
<1>7. QED BY <1>1, <1>2, <1>3, <1>4, <1>5, <1>6

(* All ports are taken. *)
LEMMA ProbesExhaustedStep ==
  ASSUME ShellIInv, NEW p \in Procs, ProbesExhausted(p)
  PROVE  ShellIInv'
<1> USE PortsAssumption, TornAssumption
    DEF ShellIInv, ShellTypeOK, ProbesExhausted, Goes, lasting
<1>1. ShellTypeOK'
  BY DEF Positions, Ports
<1>2. Modes' /\ Quiet' /\ Trays' /\ OneWriter'
  BY DEF Modes, Quiet, Trays, OneWriter
<1>3. Sole'
  BY DEF Sole, Holder, EntryOf, Holding, Modes, OneWriter, Quiet
<1>4. OnePort' /\ Beaten' /\ WindowsShowOwnServer'
  BY DEF OnePort, Quiet, Beaten, Serving, WindowsShowOwnServer
<1>5. Ending'
  BY DEF Ending, TeardownStops, Quiet, Trays
<1>6. Named'
  BY DEF Named, Holding, Entry, Positions, Modes
<1>7. QED BY <1>1, <1>2, <1>3, <1>4, <1>5, <1>6

(* The port is registered. *)
LEMMA RegisterStep ==
  ASSUME ShellIInv, NEW p \in Procs, Register(p)
  PROVE  ShellIInv'
<1> USE PortsAssumption, TornAssumption
    DEF ShellIInv, ShellTypeOK, Register, Goes, lasting
<1>1. ShellTypeOK'
  BY DEF Positions, Ports
<1>2. Modes' /\ Quiet' /\ Trays' /\ OneWriter'
  BY DEF Modes, Quiet, Trays, OneWriter
<1>3. Sole'
  BY DEF Sole, Holder, EntryOf, Holding, Modes, OneWriter, Quiet
<1>4. OnePort' /\ Beaten' /\ WindowsShowOwnServer'
  BY DEF OnePort, Beaten, Serving, WindowsShowOwnServer
<1>5. Ending'
  BY DEF Ending, TeardownStops
<1>6. Named'
  BY DEF Named, Holding, Entry, Positions, Modes
<1>7. QED BY <1>1, <1>2, <1>3, <1>4, <1>5, <1>6

(* A registry entry is removed or disabled. *)
LEMMA EditStep ==
  ASSUME ShellIInv, NEW app \in AppIds, Unregister(app) \/ Disable(app)
  PROVE  ShellIInv'
<1> USE DEF Unregister, Disable, Edited
<1>1. ShellTypeOK'
  BY DEF ShellIInv, ShellTypeOK
<1>2. QED BY <1>1 DEF ShellIInv, Modes, Quiet, Trays, OneWriter, Sole, Holder, EntryOf, OnePort, Beaten,
       Serving, WindowsShowOwnServer, Ending, TeardownStops, Named

(* The server thread starts. *)
LEMMA StartServerStep ==
  ASSUME ShellIInv, NEW p \in Procs, StartServer(p)
  PROVE  ShellIInv'
<1> USE PortsAssumption, TornAssumption
    DEF ShellIInv, ShellTypeOK, StartServer, Goes, lasting
<1>1. ShellTypeOK'
  BY DEF Positions, Ports
<1>2. Modes' /\ Quiet' /\ Trays' /\ OneWriter'
  BY DEF Modes, Programs, Quiet, Trays, OneWriter
<1>3. Sole'
  BY DEF Sole, Holder, EntryOf, Holding, Modes, OneWriter, Quiet
<1>4. OnePort' /\ Beaten' /\ WindowsShowOwnServer'
  BY DEF OnePort, Quiet, Beaten, Serving, WindowsShowOwnServer
<1>5. Ending'
  BY DEF Ending, TeardownStops
<1>6. Named'
  BY DEF Named, Holding, Entry, Positions, Modes
<1>7. QED BY <1>1, <1>2, <1>3, <1>4, <1>5, <1>6

(* It cannot start. *)
LEMMA StartRaisesStep ==
  ASSUME ShellIInv, NEW p \in Procs, StartRaises(p)
  PROVE  ShellIInv'
<1> USE PortsAssumption, TornAssumption
    DEF ShellIInv, ShellTypeOK, StartRaises, Goes, lasting
<1>1. ShellTypeOK'
  BY DEF Positions, Ports
<1>2. Modes' /\ Quiet' /\ Trays' /\ OneWriter'
  BY DEF Modes, Quiet, Trays, OneWriter
<1>3. Sole'
  BY DEF Sole, Holder, EntryOf, Holding, Modes, OneWriter, Quiet
<1>4. OnePort' /\ Beaten' /\ WindowsShowOwnServer'
  BY DEF OnePort, Beaten, Serving, WindowsShowOwnServer
<1>5. Ending'
  BY DEF Ending, TeardownStops, Quiet, Trays
<1>6. Named'
  BY DEF Named, Holding, Entry, Positions, Modes
<1>7. QED BY <1>1, <1>2, <1>3, <1>4, <1>5, <1>6

(* A server binds its port, which is free. *)
LEMMA ServerUpStep ==
  ASSUME ShellIInv, NEW p \in Procs, ServerUp(p)
  PROVE  ShellIInv'
<1> USE PortsAssumption, TornAssumption
    DEF ShellIInv, ShellTypeOK, ServerUp, FreePort, Healthy, Serving, Chose, lasting
<1>1. ShellTypeOK'
  BY DEF Positions, Ports
<1>2. Modes' /\ Quiet' /\ Trays' /\ OneWriter'
  BY DEF Modes, Quiet, Trays, OneWriter
<1>3. Sole'
  BY DEF Sole, Holder, EntryOf, Holding, Modes, OneWriter, Quiet
<1>4. OnePort' /\ Beaten' /\ WindowsShowOwnServer'
  BY DEF OnePort, Quiet, Beaten, WindowsShowOwnServer
<1>5. Ending'
  BY DEF Ending, TeardownStops
<1>6. Named'
  BY DEF Named, Holding, Entry, Positions, Modes
<1>7. QED BY <1>1, <1>2, <1>3, <1>4, <1>5, <1>6

(* A server cannot bind. *)
LEMMA ServerFailsStep ==
  ASSUME ShellIInv, NEW p \in Procs, ServerFails(p)
  PROVE  ShellIInv'
<1> USE PortsAssumption, TornAssumption
    DEF ShellIInv, ShellTypeOK, ServerFails, lasting
<1>1. ShellTypeOK'
  BY DEF Positions, Ports
<1>2. Modes' /\ Quiet' /\ Trays' /\ OneWriter'
  BY DEF Modes, Quiet, Trays, OneWriter
<1>3. Sole'
  BY DEF Sole, Holder, EntryOf, Holding, Modes, OneWriter, Quiet
<1>4. OnePort' /\ Beaten' /\ WindowsShowOwnServer'
  BY DEF OnePort, Beaten, Serving, WindowsShowOwnServer
<1>5. Ending'
  BY DEF Ending, TeardownStops
<1>6. Named'
  BY DEF Named, Holding, Entry, Positions, Modes
<1>7. QED BY <1>1, <1>2, <1>3, <1>4, <1>5, <1>6

(* A server ends by itself. *)
LEMMA ServerDiesStep ==
  ASSUME ShellIInv, NEW p \in Procs, ServerDies(p)
  PROVE  ShellIInv'
<1> USE PortsAssumption, TornAssumption
    DEF ShellIInv, ShellTypeOK, ServerDies, lasting
<1>1. ShellTypeOK'
  BY DEF Positions, Ports
<1>2. Modes' /\ Quiet' /\ Trays' /\ OneWriter'
  BY DEF Modes, Quiet, Trays, OneWriter
<1>3. Sole'
  BY DEF Sole, Holder, EntryOf, Holding, Modes, OneWriter, Quiet
<1>4. OnePort' /\ Beaten' /\ WindowsShowOwnServer'
  BY DEF OnePort, Quiet, Beaten, Serving, WindowsShowOwnServer
<1>5. Ending'
  BY DEF Ending, TeardownStops
<1>6. Named'
  BY DEF Named, Holding, Entry, Positions, Modes
<1>7. QED BY <1>1, <1>2, <1>3, <1>4, <1>5, <1>6

(* Somebody answers at the port: the own server, or one that beat it. *)
LEMMA WaitHealthyStep ==
  ASSUME ShellIInv, NEW p \in Procs, WaitHealthy(p)
  PROVE  ShellIInv'
<1> USE PortsAssumption, TornAssumption
    DEF ShellIInv, ShellTypeOK, WaitHealthy, Goes, Healthy, Serving, lasting
<1>1. ShellTypeOK'
  BY DEF Positions, Ports
<1>2. Modes' /\ Quiet' /\ Trays' /\ OneWriter'
  BY DEF Modes, Quiet, Trays, OneWriter
<1>3. Sole'
  BY DEF Sole, Holder, EntryOf, Holding, Modes, OneWriter, Quiet
<1>4. OnePort' /\ Beaten' /\ WindowsShowOwnServer'
  BY DEF OnePort, Beaten, WindowsShowOwnServer, Quiet
<1>5. Ending'
  BY DEF Ending, TeardownStops
<1>6. Named'
  BY DEF Named, Holding, Entry, Positions, Modes
<1>7. QED BY <1>1, <1>2, <1>3, <1>4, <1>5, <1>6

(* Nobody answers in time. *)
LEMMA WaitFailsStep ==
  ASSUME ShellIInv, NEW p \in Procs, WaitFails(p)
  PROVE  ShellIInv'
<1> USE PortsAssumption, TornAssumption
    DEF ShellIInv, ShellTypeOK, WaitFails, Goes, lasting
<1>1. ShellTypeOK'
  BY DEF Positions, Ports
<1>2. Modes' /\ Quiet' /\ Trays' /\ OneWriter'
  BY DEF Modes, Quiet, Trays, OneWriter
<1>3. Sole'
  BY DEF Sole, Holder, EntryOf, Holding, Modes, OneWriter, Quiet
<1>4. OnePort' /\ Beaten' /\ WindowsShowOwnServer'
  BY DEF OnePort, Beaten, Serving, WindowsShowOwnServer
<1>5. Ending'
  BY DEF Ending, TeardownStops, Quiet, Trays
<1>6. Named'
  BY DEF Named, Holding, Entry, Positions, Modes
<1>7. QED BY <1>1, <1>2, <1>3, <1>4, <1>5, <1>6

(* The tray icon is shown. *)
LEMMA ShowStep ==
  ASSUME ShellIInv, NEW p \in Procs, Show(p)
  PROVE  ShellIInv'
<1> USE PortsAssumption, TornAssumption
    DEF ShellIInv, ShellTypeOK, Show, Goes, lasting
<1>1. ShellTypeOK'
  BY DEF Positions, Ports
<1>2. Modes' /\ Quiet' /\ Trays' /\ OneWriter'
  BY DEF Modes, Quiet, Trays, OneWriter
<1>3. Sole'
  BY DEF Sole, Holder, EntryOf, Holding, Modes, OneWriter, Quiet
<1>4. OnePort' /\ Beaten' /\ WindowsShowOwnServer'
  BY DEF OnePort, Beaten, Serving, WindowsShowOwnServer
<1>5. Ending'
  BY DEF Ending, TeardownStops
<1>6. Named'
  BY DEF Named, Holding, Entry, Positions, Modes
<1>7. QED BY <1>1, <1>2, <1>3, <1>4, <1>5, <1>6

(* Tray or window fail. *)
LEMMA ShowFailsStep ==
  ASSUME ShellIInv, NEW p \in Procs, ShowFails(p)
  PROVE  ShellIInv'
<1> USE PortsAssumption, TornAssumption
    DEF ShellIInv, ShellTypeOK, ShowFails, Goes, lasting
<1>1. ShellTypeOK'
  BY DEF Positions, Ports
<1>2. Modes' /\ Quiet' /\ Trays' /\ OneWriter'
  BY DEF Modes, Quiet, Trays, OneWriter
<1>3. Sole'
  BY DEF Sole, Holder, EntryOf, Holding, Modes, OneWriter, Quiet
<1>4. OnePort' /\ Beaten' /\ WindowsShowOwnServer'
  BY DEF OnePort, Beaten, Serving, WindowsShowOwnServer
<1>5. Ending'
  BY DEF Ending, TeardownStops
<1>6. Named'
  BY DEF Named, Holding, Entry, Positions, Modes
<1>7. QED BY <1>1, <1>2, <1>3, <1>4, <1>5, <1>6

(* The user quits from the tray. *)
LEMMA TrayQuitStep ==
  ASSUME ShellIInv, NEW p \in Procs, TrayQuit(p)
  PROVE  ShellIInv'
<1> USE PortsAssumption, TornAssumption
    DEF ShellIInv, ShellTypeOK, TrayQuit, lasting
<1>1. ShellTypeOK'
  BY DEF Positions, Ports
<1>2. Modes' /\ Quiet' /\ Trays' /\ OneWriter'
  BY DEF Modes, Quiet, Trays, OneWriter
<1>3. Sole'
  BY DEF Sole, Holder, EntryOf, Holding, Modes, OneWriter, Quiet
<1>4. OnePort' /\ Beaten' /\ WindowsShowOwnServer'
  BY DEF OnePort, Beaten, Serving, WindowsShowOwnServer
<1>5. Ending'
  BY DEF Ending, TeardownStops
<1>6. Named'
  BY DEF Named, Holding, Entry, Positions, Modes
<1>7. QED BY <1>1, <1>2, <1>3, <1>4, <1>5, <1>6

(* The window is gone. *)
LEMMA WindowGoneStep ==
  ASSUME ShellIInv, NEW p \in Procs, WindowGone(p)
  PROVE  ShellIInv'
<1> USE PortsAssumption, TornAssumption
    DEF ShellIInv, ShellTypeOK, WindowGone, Goes, lasting
<1>1. ShellTypeOK'
  BY DEF Positions, Ports
<1>2. Modes' /\ Quiet' /\ Trays' /\ OneWriter'
  BY DEF Modes, Quiet, Trays, OneWriter
<1>3. Sole'
  BY DEF Sole, Holder, EntryOf, Holding, Modes, OneWriter, Quiet
<1>4. OnePort' /\ Beaten' /\ WindowsShowOwnServer'
  BY DEF OnePort, Beaten, Serving, WindowsShowOwnServer
<1>5. Ending'
  BY DEF Ending, TeardownStops
<1>6. Named'
  BY DEF Named, Holding, Entry, Positions, Modes
<1>7. QED BY <1>1, <1>2, <1>3, <1>4, <1>5, <1>6

(* The server stops. *)
LEMMA StopServerStep ==
  ASSUME ShellIInv, NEW p \in Procs, StopServer(p)
  PROVE  ShellIInv'
<1> USE PortsAssumption, TornAssumption
    DEF ShellIInv, ShellTypeOK, StopServer, Goes, lasting
<1>1. ShellTypeOK'
  BY DEF Positions, Ports
<1>2. Modes' /\ Quiet' /\ Trays' /\ OneWriter'
  BY DEF Modes, Quiet, Trays, OneWriter
<1>3. Sole'
  BY DEF Sole, Holder, EntryOf, Holding, Modes, OneWriter, Quiet
<1>4. OnePort' /\ Beaten' /\ WindowsShowOwnServer'
  BY DEF OnePort, Beaten, Serving, WindowsShowOwnServer
<1>5. Ending'
  BY DEF Ending, TeardownStops, Quiet, Trays
<1>6. Named'
  BY DEF Named, Holding, Entry, Positions, Modes
<1>7. QED BY <1>1, <1>2, <1>3, <1>4, <1>5, <1>6

(* The server does not stop in time. *)
LEMMA StopSlowStep ==
  ASSUME ShellIInv, NEW p \in Procs, StopSlow(p)
  PROVE  ShellIInv'
<1> USE PortsAssumption, TornAssumption
    DEF ShellIInv, ShellTypeOK, StopSlow, Goes, lasting
<1>1. ShellTypeOK'
  BY DEF Positions, Ports
<1>2. Modes' /\ Quiet' /\ Trays' /\ OneWriter'
  BY DEF Modes, Quiet, Trays, OneWriter
<1>3. Sole'
  BY DEF Sole, Holder, EntryOf, Holding, Modes, OneWriter, Quiet
<1>4. OnePort' /\ Beaten' /\ WindowsShowOwnServer'
  BY DEF OnePort, Beaten, Serving, WindowsShowOwnServer
<1>5. Ending'
  BY DEF Ending, TeardownStops, Quiet, Trays
<1>6. Named'
  BY DEF Named, Holding, Entry, Positions, Modes
<1>7. QED BY <1>1, <1>2, <1>3, <1>4, <1>5, <1>6

(* The tray icon goes. *)
LEMMA StopTrayStep ==
  ASSUME ShellIInv, NEW p \in Procs, StopTray(p)
  PROVE  ShellIInv'
<1> USE PortsAssumption, TornAssumption
    DEF ShellIInv, ShellTypeOK, StopTray, Goes, lasting
<1>1. ShellTypeOK'
  BY DEF Positions, Ports
<1>2. Modes' /\ Quiet' /\ Trays' /\ OneWriter'
  BY DEF Modes, Quiet, Trays, OneWriter
<1>3. Sole'
  BY DEF Sole, Holder, EntryOf, Holding, Modes, OneWriter, Quiet
<1>4. OnePort' /\ Beaten' /\ WindowsShowOwnServer'
  BY DEF OnePort, Beaten, Serving, WindowsShowOwnServer
<1>5. Ending'
  BY DEF Ending, TeardownStops, Quiet, Trays
<1>6. Named'
  BY DEF Named, Holding, Entry, Positions, Modes
<1>7. QED BY <1>1, <1>2, <1>3, <1>4, <1>5, <1>6

-----------------------------------------------------------------------------
(* What the launches ask and what they spawned. *)
LaunchTypeOK ==
  /\ scene \in Scenes
  /\ call \in [Launches -> {"idle", "check", "spawn", "poll"} \cup Answers]
  /\ want \in [Launches -> Ports]
  /\ child \in [Launches -> [pid : Procs, life : Nat] \cup {None}]
  /\ outrun \subseteq Launches

(* A launch that found nobody, or polls, is answered by its child or was outrun. *)
Answered ==
  \A l \in Launches :
    /\ call[l] \in {"idle", "check", "spawn"} => child[l] = None
    /\ call[l] \in {"spawn", "poll"}
         => \A p \in Procs : Serving(p, want[l]) => Child(l, p) \/ l \in outrun

(* A request on its own has its version in the file, and no other one is running. *)
Alone ==
  \A u \in Posts \ mixed :
    /\ post[u] = "write" => rollback = Empty
    /\ post[u] \in {"run", "left", "upgraded", "failed"} => rollback = previous[u]
    /\ post[u] \notin {"idle", "refused"} => \A v \in Posts \ {u} : ~Running(v)

(* Versions only grow. *)
Older ==
  /\ installed <= release
  /\ \A u \in Posts : previous[u] \in Releases => previous[u] <= installed
  /\ rollback \in Releases => rollback <= installed

(* The inductive invariant. *)
IInv == ShellIInv /\ LaunchTypeOK /\ Answered /\ UpgradeTypeOK /\ Alone /\ Older

(* A step that leaves the processes alone. *)
LEMMA ShellStutter ==
  ASSUME ShellIInv, UNCHANGED shellVars
  PROVE  ShellIInv'
BY DEF ShellIInv, shellVars, lasting, ShellTypeOK, Modes, Quiet, Trays, OneWriter, Sole, Holder, EntryOf,
   OnePort, Beaten, Serving, WindowsShowOwnServer, Ending, TeardownStops, Named

(* Only a bind brings a server up, and no process that serves begins anew. *)
LEMMA NoNewServer ==
  ASSUME ShellIInv, NEW p \in Procs, Process(p) \/ \E g \in Programs : Open(p, {g})
  PROVE  \A q \in Procs, n \in Ports : Serving(q, n)' => Serving(q, n) /\ life'[q] = life[q]
<1> USE DEF ShellIInv, ShellTypeOK, Quiet, Serving, lasting, Begin, Cleared, Ends, Goes
<1>1. CASE \E g \in Programs : Open(p, {g})
  BY <1>1 DEF Open
<1>2. CASE Reuse(p) \/ Restart(p) \/ Kill(p) \/ Reap(p) \/ Exit(p) \/ Locking(p)
  BY <1>2 DEF Reuse, Restart, Kill, Reap, Exit, Locking, GiveWay, CheckFree, Acquire
<1>3. CASE ServerThread(p) \/ TrayQuit(p) \/ UserCloses(p) \/ DestroyOnQuit(p)
  BY <1>3 DEF ServerThread, ServerFails, ServerDies, TrayQuit, UserCloses, DestroyOnQuit, WindowGone
<1>4. CASE \/ ProbeFree(p) \/ ProbeNext(p) \/ ProbesExhausted(p) \/ Register(p) \/ Acquired(p)
           \/ StartServer(p) \/ StartRaises(p)
  BY <1>4 DEF ProbeFree, ProbeNext, ProbesExhausted, Register, Acquired, StartServer, StartRaises
<1>5. CASE \/ WaitHealthy(p) \/ WaitFails(p) \/ Show(p) \/ ShowFails(p) \/ StopServer(p)
           \/ StopSlow(p) \/ StopTray(p)
  BY <1>5 DEF WaitHealthy, WaitFails, Show, ShowFails, StopServer, StopSlow, StopTray
<1>6. QED BY <1>1, <1>2, <1>3, <1>4, <1>5 DEF Process, MainThread

(* A process step keeps what holds of the processes. *)
LEMMA ProcessKeeps ==
  ASSUME ShellIInv, NEW p \in Procs, Process(p)
  PROVE  ShellIInv'
<1>1. CASE Reuse(p) \/ Restart(p) \/ Kill(p) \/ Reap(p) \/ TrayQuit(p) \/ UserCloses(p)
  BY <1>1, ReuseStep, RestartStep, KillStep, ReapStep, TrayQuitStep, WindowGoneStep DEF UserCloses
<1>2. CASE Locking(p) \/ ServerThread(p)
  BY <1>2, GiveWayStep, CheckFreeStep, AcquireStep, ServerFailsStep, ServerDiesStep
  DEF Locking, ServerThread
<1>3. CASE MainThread(p)
  BY <1>3, ProbeFreeStep, ProbeNextStep, ProbesExhaustedStep, RegisterStep, AcquiredStep,
     StartServerStep, StartRaisesStep, WaitHealthyStep, WaitFailsStep, ShowStep, ShowFailsStep,
     WindowGoneStep, StopServerStep, StopSlowStep, StopTrayStep, ExitStep
  DEF MainThread, DestroyOnQuit
<1>4. QED BY <1>1, <1>2, <1>3 DEF Process

(* A launch spawns its sibling as a user would start it. *)
LEMMA SpawnIsOpen ==
  ASSUME LaunchTypeOK, NEW l \in Launches, Spawn(l)
  PROVE  \E p \in Procs, g \in Programs :
           /\ Open(p, {g})
           /\ child' = [child EXCEPT ![l] = [pid |-> p, life |-> life[p] + 1]]
<1>1. PICK p \in Procs :
        /\ pc[p] = "off"
        /\ Begin(p, [app  |-> Sibling, from |-> want[l],
                     mode |-> IF l \in Windowed THEN "window" ELSE "page"])
        /\ child' = [child EXCEPT ![l] = [pid |-> p, life |-> life[p] + 1]]
  BY DEF Spawn
<1> DEFINE g == [app  |-> Sibling, from |-> want[l],
                 mode |-> IF l \in Windowed THEN "window" ELSE "page"]
<1>2. g \in Programs
  BY SiblingAssumption DEF LaunchTypeOK, Programs
<1>3. Open(p, {g})
  BY <1>1 DEF Open, Spawn
<1>4. QED BY <1>1, <1>2, <1>3

(* A step of a process that is no bind leaves every launch answered. *)
LEMMA AnsweredKept ==
  ASSUME LaunchTypeOK, Answered, UNCHANGED launchVars,
         \A q \in Procs, n \in Ports : Serving(q, n)' => Serving(q, n) /\ life'[q] = life[q]
  PROVE  Answered'
<1> SUFFICES ASSUME NEW l \in Launches, NEW q \in Procs, call[l] \in {"spawn", "poll"},
                    Serving(q, want[l])'
             PROVE  Child(l, q)' \/ l \in outrun
  BY DEF Answered, launchVars
<1>1. want'[l] = want[l] /\ want[l] \in Ports
  BY DEF launchVars, LaunchTypeOK
<1>2. Serving(q, want[l]) /\ life'[q] = life[q]
  BY <1>1
<1>3. QED BY <1>2 DEF Answered, Child, launchVars

(* Each step of a launch. *)
LEMMA LaunchKeeps ==
  ASSUME ShellIInv, LaunchTypeOK, Answered, NEW l \in Launches, Launch(l), UNCHANGED scene
  PROVE  ShellIInv' /\ LaunchTypeOK' /\ Answered'
<1>1. CASE Spawn(l)
  <2>1. PICK p \in Procs, g \in Programs :
          /\ Open(p, {g})
          /\ child' = [child EXCEPT ![l] = [pid |-> p, life |-> life[p] + 1]]
    BY <1>1, SpawnIsOpen
  <2>2. ShellIInv'
    BY <2>1, OpenStep
  <2>3. life[p] + 1 \in Nat
    BY PortsAssumption DEF ShellIInv, ShellTypeOK
  <2>4. /\ call[l] = "spawn" /\ call' = [call EXCEPT ![l] = "poll"]
        /\ UNCHANGED <<want, outrun>>
    BY <1>1 DEF Spawn, Reaches
  <2>5. LaunchTypeOK'
    BY <2>1, <2>3, <2>4 DEF LaunchTypeOK
  <2>6. \A q \in Procs, n \in Ports : Serving(q, n)' => Serving(q, n) /\ life'[q] = life[q]
    BY <2>1, NoNewServer
  <2>7. Answered'
    <3> SUFFICES ASSUME NEW m \in Launches
                 PROVE  /\ call'[m] \in {"idle", "check", "spawn"} => child'[m] = None
                        /\ call'[m] \in {"spawn", "poll"}
                             => \A q \in Procs : Serving(q, want[m])' => Child(m, q)' \/ m \in outrun'
      BY <2>4 DEF Answered, LaunchTypeOK
    <3>1. \A q \in Procs : Serving(q, want[m])' => Serving(q, want[m]) /\ life'[q] = life[q]
      BY <2>4, <2>6 DEF LaunchTypeOK
    <3>2. CASE m = l
      <4>1. \A q \in Procs : ~Child(l, q)
        BY <2>4, SiblingAssumption DEF Child, Answered, ShellIInv, ShellTypeOK
      <4>2. \A q \in Procs : Serving(q, want[l])' => l \in outrun
        BY <2>4, <3>1, <3>2, <4>1 DEF Answered
      <4>3. QED BY <2>4, <3>2, <4>2 DEF LaunchTypeOK
    <3>3. CASE m # l
      BY <2>1, <2>4, <3>1, <3>3 DEF Answered, Child, LaunchTypeOK
    <3>4. QED BY <3>2, <3>3
  <2>8. QED BY <2>2, <2>5, <2>7
<1>2. CASE ~Spawn(l)
  <2>1. UNCHANGED shellVars
    BY <1>2 DEF Launch, LaunchApp, LaunchUnknown, LaunchDisabled, AlreadyRunning, NotRunning, SpawnFails,
       PollHealthy, PollTimeout
  <2>2. ShellIInv'
    BY <2>1, ShellStutter
  <2>3. LaunchTypeOK' /\ Answered'
    BY <1>2, <2>1, SiblingAssumption DEF Launch, LaunchApp, LaunchUnknown, LaunchDisabled, AlreadyRunning,
       NotRunning, SpawnFails, PollHealthy, PollTimeout, Answers, Reaches, LaunchTypeOK, Answered, Healthy,
       Serving, Child, ShellIInv, ShellTypeOK, shellVars
  <2>4. QED BY <2>2, <2>3
<1>3. QED BY <1>1, <1>2

(* A server comes up: launches that wait for another one at its port are marked. *)
LEMMA BindKeeps ==
  ASSUME ShellIInv, LaunchTypeOK, Answered, NEW p \in Procs, Bind(p), UNCHANGED scene
  PROVE  ShellIInv' /\ LaunchTypeOK' /\ Answered'
<1>1. ServerUp(p) /\ UNCHANGED <<call, want, child>>
  BY DEF Bind
<1>2. ShellIInv'
  BY <1>1, ServerUpStep
<1>3. LaunchTypeOK'
  BY DEF Bind, LaunchTypeOK
<1>4. Answered'
  <2> SUFFICES ASSUME NEW l \in Launches, NEW q \in Procs, call[l] \in {"spawn", "poll"},
                      Serving(q, want[l])'
               PROVE  Child(l, q)' \/ l \in outrun'
    BY <1>1 DEF Answered
  <2>1. UNCHANGED <<port, life>>
    BY <1>1 DEF ServerUp
  <2>2. CASE q = p
    BY <1>1, <2>1, <2>2 DEF Bind, Serving, Child
  <2>3. CASE q # p
    BY <1>1, <2>1, <2>3 DEF Bind, ServerUp, Serving, Child, Answered, ShellIInv, ShellTypeOK
  <2>4. QED BY <2>2, <2>3
<1>5. QED BY <1>2, <1>3, <1>4

(* A step of a request or a release. *)
LEMMA UpgradeKeeps ==
  ASSUME UpgradeTypeOK, Alone, Older, NEW posts \in SUBSET Posts, UpgradeStep(posts)
  PROVE  UpgradeTypeOK' /\ Alone' /\ Older'
<1> USE ReleaseAssumption DEF UpgradeTypeOK, Alone, Older, Releases, Running, From
<1>1. CASE Publish
  BY <1>1 DEF Publish
<1>2. CASE \E u \in posts : Refuse(u)
  BY <1>2 DEF Refuse
<1>3. CASE \E u \in posts : Ask(u)
  <2>1. PICK u \in posts : Ask(u)
    BY <1>3
  <2>2. UpgradeTypeOK' /\ Older'
    BY <2>1 DEF Ask
  <2>3. Alone'
    BY <2>1 DEF Ask
  <2>4. QED BY <2>2, <2>3
<1>4. CASE \E u \in posts : Truncate(u)
  BY <1>4 DEF Truncate
<1>5. CASE \E u \in posts : Write(u)
  <2>1. PICK u \in posts : Write(u)
    BY <1>5
  <2>2. UpgradeTypeOK' /\ Older'
    BY <2>1 DEF Write
  <2>3. Alone'
    BY <2>1 DEF Write
  <2>4. QED BY <2>2, <2>3
<1>6. CASE \E u \in posts : Run(u)
  BY <1>6 DEF Run
<1>7. CASE \E u \in posts : RunFails(u) \/ Stopped(u)
  BY <1>7 DEF RunFails, Stopped
<1>8. CASE \E u \in posts : UvEnds(u)
  BY <1>8 DEF UvEnds
<1>9. QED BY <1>1, <1>2, <1>3, <1>4, <1>5, <1>6, <1>7, <1>8 DEF UpgradeStep

(* All of it holds at the start. *)
LEMMA InitIInv == Init => IInv
<1> SUFFICES ASSUME Init PROVE IInv
  OBVIOUS
<1>1. scene.used \in [Procs -> 0..MaxLives]
  BY ScenesAssumption DEF Init
<1>2. ShellIInv
  <2> USE DEF Init, ShellInit
  <2>1. ShellTypeOK
    <3>1. /\ pc \in [Procs -> Positions] /\ prog \in [Procs -> Programs \cup {None}]
          /\ server \in [Procs -> {"none", "starting", "up", "failed", "died", "ended"}]
      BY DEF Positions
    <3>2. port \in [Procs -> Ports] /\ registered \in [AppIds -> Ports \cup {None, Disabled}]
      BY PortsAssumption DEF Ports
    <3>3. tray \in [Procs -> BOOLEAN] /\ quit \in [Procs -> BOOLEAN] /\ raced \in BOOLEAN
      BY Zenon
    <3>4. /\ life \in [Procs -> 0..MaxLives] /\ pidfile \in Entry \cup {None, Torn}
          /\ marks \in [Procs -> SUBSET {"late", "beaten", "slow"}]
      BY <1>1
    <3>5. QED BY <3>1, <3>2, <3>3, <3>4 DEF ShellTypeOK
  <2>2. Modes /\ Quiet /\ OneWriter /\ OnePort /\ Beaten
    BY DEF Modes, Quiet, OneWriter, OnePort, Beaten, Serving
  <2>3. Trays
    BY DEF Trays
  <2>4. Sole /\ WindowsShowOwnServer /\ Ending
    BY DEF Sole, Holder, Holding, WindowsShowOwnServer, Ending, TeardownStops
  <2>5. Named
    BY TornAssumption DEF Named
  <2>6. QED BY <2>1, <2>2, <2>3, <2>4, <2>5 DEF ShellIInv
<1>3. LaunchTypeOK /\ Answered
  BY PortsAssumption DEF Init, LaunchTypeOK, Answered, Ports
<1>4. UpgradeTypeOK /\ Alone /\ Older
  BY ReleaseAssumption DEF Init, UpgradeInit, UpgradeTypeOK, Releases, Alone, Older, Running
<1>5. QED BY <1>2, <1>3, <1>4 DEF IInv

(* And every step keeps it. *)
LEMMA NextIInv == IInv /\ [Next]_vars => IInv'
<1> SUFFICES ASSUME IInv, [Next]_vars PROVE IInv'
  OBVIOUS
<1> USE DEF IInv
<1>1. CASE UNCHANGED shellVars /\ UNCHANGED <<scene, launchVars>>
  <2>1. ShellIInv'
    BY <1>1, ShellStutter
  <2>2. LaunchTypeOK' /\ Answered'
    BY <1>1 DEF LaunchTypeOK, Answered, Serving, Child, launchVars, shellVars
  <2>3. UpgradeTypeOK' /\ Alone' /\ Older'
    <3>1. CASE UpgradeStep(scene.posts)
      <4>1. scene.posts \in SUBSET Posts
        BY ScenesAssumption DEF LaunchTypeOK
      <4>2. QED BY <3>1, <4>1, UpgradeKeeps
    <3>2. CASE UNCHANGED upgradeVars
      BY <3>2 DEF upgradeVars, UpgradeTypeOK, Alone, Older, Running
    <3>3. QED BY <3>1, <3>2 DEF Next, Rest, vars
  <2>4. QED BY <2>1, <2>2, <2>3
<1>2. CASE ProcessStep /\ Rest
  <2>1. UpgradeTypeOK' /\ Alone' /\ Older'
    BY <1>2 DEF Rest, upgradeVars, UpgradeTypeOK, Alone, Older, Running
  <2>2. CASE \E p \in Procs : Process(p) /\ UNCHANGED launchVars
    <3>1. PICK p \in Procs : Process(p) /\ UNCHANGED launchVars
      BY <2>2
    <3>2. ShellIInv'
      BY <3>1, ProcessKeeps
    <3>3. LaunchTypeOK'
      BY <1>2, <3>1 DEF LaunchTypeOK, launchVars, Rest
    <3>4. Answered'
      BY <3>1, NoNewServer, AnsweredKept
    <3>5. QED BY <2>1, <3>2, <3>3, <3>4
  <2>3. CASE \E p \in Procs : Open(p, scene.opened) /\ UNCHANGED launchVars
    <3>1. PICK p \in Procs : Open(p, scene.opened) /\ UNCHANGED launchVars
      BY <2>3
    <3>2. scene.opened \in SUBSET Programs
      BY ScenesAssumption DEF LaunchTypeOK
    <3>3. ShellIInv'
      BY <3>1, <3>2, OpenStep
    <3>4. LaunchTypeOK'
      BY <1>2, <3>1 DEF LaunchTypeOK, launchVars, Rest
    <3>5. \E g \in Programs : Open(p, {g})
      BY <3>1, <3>2 DEF Open
    <3>6. Answered'
      BY <3>1, <3>5, NoNewServer, AnsweredKept
    <3>7. QED BY <2>1, <3>3, <3>4, <3>6
  <2>4. CASE \E p \in Procs : Bind(p)
    BY <1>2, <2>1, <2>4, BindKeeps DEF Rest
  <2>5. CASE \E l \in Launches : Launch(l)
    BY <1>2, <2>1, <2>5, LaunchKeeps DEF Rest
  <2>6. CASE \E app \in scene.edited : (Unregister(app) \/ Disable(app)) /\ UNCHANGED launchVars
    <3>1. PICK app \in AppIds : (Unregister(app) \/ Disable(app)) /\ UNCHANGED launchVars
      BY <2>6, ScenesAssumption DEF LaunchTypeOK
    <3>2. ShellIInv'
      BY <3>1, EditStep
    <3>3. LaunchTypeOK' /\ Answered'
      BY <1>2, <3>1 DEF LaunchTypeOK, Answered, launchVars, Rest, Unregister, Disable, Edited, Serving, Child
    <3>4. QED BY <2>1, <3>2, <3>3
  <2>7. QED BY <1>2, <2>2, <2>3, <2>4, <2>5, <2>6 DEF ProcessStep
<1>3. QED BY <1>1, <1>2 DEF Next, vars

(* The invariant holds in every reachable state. *)
THEOREM Invariance == Spec => []IInv
BY InitIInv, NextIInv, PTL DEF Spec

(* Every variable keeps the shape the code gives it, ports past the last one
   included: find_available_port never leaves its range. *)
THEOREM TypeCorrectness == Spec => []TypeOK
<1>1. IInv => TypeOK
  BY DEF IInv, ShellIInv, LaunchTypeOK, TypeOK
<1>2. QED BY <1>1, Invariance, PTL

(* At most one shell, of whatever app, and the pidfile names it, unless a start
   overwrote the pidfile of one that acquired it after that start had looked. *)
THEOREM OneInstanceHolds == Spec => []OneInstance
<1>1. IInv => OneInstance
  BY DEF IInv, ShellIInv, Sole, Holder, EntryOf, OneInstance
<1>2. QED BY <1>1, Invariance, PTL

(* Who answers a shell's health check or a launch's poll is its own server, unless
   another server took the port after the probe or the check. *)
THEOREM AnswersAreOwnHolds == Spec => []AnswersAreOwn
<1>1. IInv => AnswersAreOwn
  BY DEF IInv, ShellIInv, Answered, AnswersAreOwn
<1>2. QED BY <1>1, Invariance, PTL

(* However run_windowed ends, no tray icon is left, and no server but one that
   would not stop in time. *)
THEOREM TeardownStopsHolds == Spec => []TeardownStops
<1>1. IInv => TeardownStops
  BY DEF IInv, ShellIInv, Ending
<1>2. QED BY <1>1, Invariance, PTL

(* The rollback file of an upgrade on its own names the version found before it, or
   that none was found, and never one newer than what is installed. *)
THEOREM UpgradeCanBeUndoneHolds == Spec => []UpgradeCanBeUndone
<1>1. IInv => UpgradeCanBeUndone
  BY DEF IInv, Alone, Older, UpgradeCanBeUndone
<1>2. QED BY <1>1, Invariance, PTL

(* What GivesWayToShell says of a step. *)
GivesWay ==
  \A p \in Procs : (pc[p] = "check" /\ pc'[p] = "returned") =>
    LET q == pidfile.pid
    IN  \/ life[q] # pidfile.life \/ pc[q] = "zombie"
        \/ pc[q] \in Holding \cup {"returned"} /\ port[q] = pidfile.port

(* Nothing but GiveWay takes a start from its check to its end. *)
LEMMA OnlyGiveWay ==
  ASSUME ShellIInv, LaunchTypeOK, ProcessStep, NEW p \in Procs, pc[p] = "check", pc'[p] = "returned"
  PROVE  GiveWay(p)
<1> USE DEF ShellIInv, ShellTypeOK, Begin, Cleared, Ends, Goes
<1>1. CASE \E q \in Procs : Process(q)
  <2>1. PICK q \in Procs : Process(q)
    BY <1>1
  <2>2. CASE Reuse(q) \/ Restart(q) \/ Kill(q) \/ Reap(q) \/ Exit(q) \/ TrayQuit(q) \/ UserCloses(q)
    BY <2>2 DEF Reuse, Restart, Kill, Reap, Exit, TrayQuit, UserCloses, WindowGone
  <2>3. CASE Locking(q) \/ ServerThread(q)
    BY <2>3 DEF Locking, ServerThread, GiveWay, CheckFree, Acquire, ServerFails, ServerDies
  <2>4. CASE \/ ProbeFree(q) \/ ProbeNext(q) \/ ProbesExhausted(q) \/ Register(q) \/ Acquired(q)
             \/ StartServer(q) \/ StartRaises(q)
    BY <2>4 DEF ProbeFree, ProbeNext, ProbesExhausted, Register, Acquired, StartServer, StartRaises
  <2>5. CASE \/ WaitHealthy(q) \/ WaitFails(q) \/ Show(q) \/ ShowFails(q) \/ DestroyOnQuit(q)
             \/ StopServer(q) \/ StopSlow(q) \/ StopTray(q)
    BY <2>5 DEF WaitHealthy, WaitFails, Show, ShowFails, DestroyOnQuit, WindowGone, StopServer, StopSlow,
       StopTray
  <2>6. QED BY <2>1, <2>2, <2>3, <2>4, <2>5 DEF Process, MainThread
<1>2. CASE \E q \in Procs : Open(q, scene.opened) \/ Bind(q)
  BY <1>2 DEF Open, Bind, ServerUp
<1>3. CASE \E l \in Launches : Spawn(l)
  BY <1>3 DEF Spawn
<1>4. CASE \E l \in Launches : Launch(l) /\ ~Spawn(l)
  BY <1>4 DEF Launch, LaunchApp, LaunchUnknown, LaunchDisabled, AlreadyRunning, NotRunning, SpawnFails,
     PollHealthy, PollTimeout, shellVars
<1>5. CASE \E app \in scene.edited : Unregister(app) \/ Disable(app)
  BY <1>5 DEF Unregister, Disable, Edited
<1>6. QED BY <1>1, <1>2, <1>3, <1>4, <1>5 DEF ProcessStep

(* A start gives way only to a shell that has the lock and the port that is shown,
   unless the process id was used again or nobody has waited for the process. *)
THEOREM GivesWayToShellHolds == Spec => GivesWayToShell
<1>1. IInv /\ [Next]_vars => [GivesWay]_vars
  <2> SUFFICES ASSUME IInv, [Next]_vars,
                      NEW p \in Procs, pc[p] = "check", pc'[p] = "returned",
                      life[pidfile.pid] = pidfile.life, pc[pidfile.pid] # "zombie"
               PROVE  /\ pc[pidfile.pid] \in Holding \cup {"returned"}
                      /\ port[pidfile.pid] = pidfile.port
    BY DEF GivesWay
  <2>1. ProcessStep
    BY DEF Next, vars, shellVars
  <2>2. GiveWay(p)
    BY <2>1, OnlyGiveWay DEF IInv
  <2>3. QED BY <2>2 DEF GiveWay, Live, Alive, IInv, ShellIInv, Named
<1>2. [GivesWay]_vars <=> [\A p \in Procs : (pc[p] = "check" /\ pc'[p] = "returned") =>
       LET q == pidfile.pid
       IN  \/ life[q] # pidfile.life \/ pc[q] = "zombie"
           \/ pc[q] \in Holding \cup {"returned"} /\ port[q] = pidfile.port]_vars
  BY DEF GivesWay
<1>3. QED BY <1>1, <1>2, Invariance, PTL DEF Spec, GivesWayToShell

-----------------------------------------------------------------------------
(* How long a start, a window and a launch may take: what EverythingSettles rests on,
   but for the fairness. *)

(* The positions a process has still before it, ports to probe included; a window
   that is open and a server that serves are at the same height. *)
Ahead(p) ==
  CASE pc[p] = "check"    -> 12 + LastPort
    [] pc[p] = "resolve"  -> 11 + LastPort - port[p]
    [] pc[p] = "acquire"  -> 10
    [] pc[p] \in {"write", "register"} -> 9
    [] pc[p] = "start"    -> 8
    [] pc[p] = "wait"     -> 7
    [] pc[p] = "tray"     -> 6
    [] pc[p] \in {"open", "serve"} -> 5
    [] pc[p] = "stop"     -> 4
    [] pc[p] = "untray"   -> 3
    [] pc[p] \in {"returned", "other"} -> 2
    [] pc[p] = "zombie"   -> 1
    [] pc[p] = "off"      -> 0

(* A start or an end goes on, never back, whatever servers, ports and the pidfile do
   meanwhile: at most LastPort + 12 steps of its main thread from the check to the
   end of its process.  Only restart() begins again, as a new life of the id. *)
NeverBack ==
  \A p \in Procs : life'[p] = life[p] =>
    \/ pc'[p] = pc[p] /\ (port'[p] = port[p])
    \/ Ahead(p)' < Ahead(p)

StartsRunDown == [][NeverBack]_vars

LEMMA AheadIsSmall ==
  ASSUME ShellTypeOK, NEW p \in Procs
  PROVE  Ahead(p) \in 0..(12 + LastPort)
<1>1. pc[p] \in Positions /\ port[p] \in 0..LastPort /\ LastPort \in Nat
  BY PortsAssumption DEF ShellTypeOK, Ports
<1>2. pc[p] = "check" => Ahead(p) = 12 + LastPort
  BY DEF Ahead
<1>3. pc[p] = "resolve" => Ahead(p) = 11 + LastPort - port[p]
  BY DEF Ahead
<1>4. pc[p] \in Positions \ {"check", "resolve"} => Ahead(p) \in {0, 1, 2, 3, 4, 5, 6, 7, 8, 9, 10}
  BY DEF Ahead, Positions
<1>5. \A n \in 0..LastPort : 11 + LastPort - n \in 0..(12 + LastPort)
  BY <1>1
<1>6. 12 + LastPort \in 0..(12 + LastPort) /\ \A n \in {0, 1, 2, 3, 4, 5, 6, 7, 8, 9, 10} : n \in 0..(12 + LastPort)
  BY <1>1
<1>7. QED BY <1>1, <1>2, <1>3, <1>4, <1>5, <1>6

(* A step of one process, seen from it and from the others. *)
LEMMA ProcessNeverBack ==
  ASSUME ShellIInv, NEW q \in Procs, Process(q)
  PROVE  NeverBack
<1> USE PortsAssumption
    DEF ShellIInv, ShellTypeOK, Positions, Ports, Begin, Cleared, Ends, Goes, NeverBack, Ahead, lasting
<1>1. CASE Reuse(q) \/ Restart(q)
  BY <1>1 DEF Reuse, Restart
<1>2. CASE Kill(q) \/ Exit(q)
  BY <1>2 DEF Kill, Exit
<1>3. CASE Reap(q) \/ TrayQuit(q) \/ UserCloses(q)
  BY <1>3 DEF Reap, TrayQuit, UserCloses, WindowGone
<1>4. CASE GiveWay(q)
  BY <1>4 DEF GiveWay
<1>5. CASE CheckFree(q) \/ Acquire(q)
  BY <1>5 DEF CheckFree, Acquire
<1>6. CASE ServerThread(q)
  BY <1>6 DEF ServerThread, ServerFails, ServerDies
<1>7. CASE ProbeFree(q)
  BY <1>7 DEF ProbeFree
<1>8. CASE ProbeNext(q)
  BY <1>8 DEF ProbeNext
<1>9. CASE ProbesExhausted(q)
  BY <1>9 DEF ProbesExhausted
<1>10. CASE Register(q) \/ Acquired(q) \/ StartServer(q) \/ StartRaises(q)
  BY <1>10 DEF Register, Acquired, StartServer, StartRaises, Modes
<1>11. CASE WaitHealthy(q) \/ WaitFails(q) \/ Show(q) \/ ShowFails(q) \/ DestroyOnQuit(q)
  BY <1>11 DEF WaitHealthy, WaitFails, Show, ShowFails, DestroyOnQuit, WindowGone
<1>12. CASE StopServer(q) \/ StopSlow(q) \/ StopTray(q)
  BY <1>12 DEF StopServer, StopSlow, StopTray
<1>13. QED BY <1>1, <1>2, <1>3, <1>4, <1>5, <1>6, <1>7, <1>8, <1>9, <1>10, <1>11, <1>12
       DEF Process, MainThread, Locking

(* A process that begins has a new life. *)
LEMMA OpenNeverBack ==
  ASSUME ShellIInv, NEW q \in Procs, NEW programs, Open(q, programs)
  PROVE  NeverBack
BY PortsAssumption DEF ShellIInv, ShellTypeOK, Open, Begin, NeverBack

(* The steps a launch has left. *)
LaunchAhead(l) ==
  CASE call[l] = "idle" -> 4 [] call[l] = "check" -> 3 [] call[l] = "spawn" -> 2
    [] call[l] = "poll" -> 1 [] call[l] \in Answers -> 0

(* A launch is answered after four steps of its own, and is asked for one port only;
   it spawns one process at most. *)
LaunchesRunDown ==
  [][\A l \in Launches :
       /\ call'[l] = call[l] \/ (LaunchAhead(l)' \in 0..3 /\ LaunchAhead(l)' < LaunchAhead(l))
       /\ call[l] # "idle" => want'[l] = want[l]
       /\ child[l] # None => child'[l] = child[l]]_vars

(* No step takes a process or a launch back. *)
LEMMA StepsNeverBack == IInv /\ [Next]_vars => NeverBack \/ UNCHANGED vars
<1> SUFFICES ASSUME IInv, [Next]_vars, ~(UNCHANGED vars) PROVE NeverBack
  OBVIOUS
<1> USE DEF IInv
<1>1. CASE \E q \in Procs : Process(q)
  BY <1>1, ProcessNeverBack
<1>2. CASE \E q \in Procs : Open(q, scene.opened)
  BY <1>2, OpenNeverBack
<1>3. CASE \E q \in Procs : Bind(q)
  BY <1>3 DEF Bind, ServerUp, NeverBack
<1>4. CASE \E l \in Launches : Launch(l)
  <2>1. CASE \E l \in Launches : Spawn(l)
    BY <2>1, SpawnIsOpen, OpenNeverBack
  <2>2. CASE \A l \in Launches : ~Spawn(l)
    BY <1>4, <2>2 DEF Launch, LaunchApp, LaunchUnknown, LaunchDisabled, AlreadyRunning, NotRunning,
       SpawnFails, PollHealthy, PollTimeout, shellVars, NeverBack
  <2>3. QED BY <2>1, <2>2
<1>5. CASE UNCHANGED shellVars
  BY <1>5 DEF shellVars, NeverBack
<1>6. CASE \E app \in scene.edited : Unregister(app) \/ Disable(app)
  BY <1>6 DEF Unregister, Disable, Edited, NeverBack
<1>7. QED BY <1>1, <1>2, <1>3, <1>4, <1>5, <1>6 DEF Next, ProcessStep

(* From its check to its end a process takes at most LastPort + 12 steps. *)
THEOREM StartsEnd == Spec => StartsRunDown /\ [](\A p \in Procs : Ahead(p) \in 0..(12 + LastPort))
<1>1. IInv /\ [Next]_vars => [NeverBack]_vars
  BY StepsNeverBack
<1>2. IInv => \A p \in Procs : Ahead(p) \in 0..(12 + LastPort)
  BY AheadIsSmall DEF IInv, ShellIInv
<1>3. QED BY <1>1, <1>2, Invariance, PTL DEF Spec, StartsRunDown

(* A launch ends after four steps, with the port it asked and the child it has. *)
THEOREM LaunchesEnd == Spec => LaunchesRunDown
<1> DEFINE OnItsWay(l) ==
      /\ call'[l] = call[l] \/ (LaunchAhead(l)' \in 0..3 /\ LaunchAhead(l)' < LaunchAhead(l))
      /\ call[l] # "idle" => want'[l] = want[l]
      /\ child[l] # None => child'[l] = child[l]
<1>1. IInv /\ [Next]_vars => [\A l \in Launches : OnItsWay(l)]_vars
  <2> SUFFICES ASSUME IInv, Next, NEW l \in Launches PROVE OnItsWay(l)
    OBVIOUS
  <2> USE DEF IInv, LaunchTypeOK, LaunchAhead, Answers
  <2>1. CASE UNCHANGED <<call, want, child>>
    BY <2>1
  <2>2. ASSUME NEW m \in Launches, Launch(m) PROVE OnItsWay(l)
    <3>1. CASE Spawn(m)
      BY <3>1 DEF Spawn, Reaches, Answered
    <3>2. CASE LaunchApp(m) \/ LaunchUnknown(m) \/ LaunchDisabled(m)
      BY <3>2 DEF LaunchApp, LaunchUnknown, LaunchDisabled, Reaches
    <3>3. CASE AlreadyRunning(m) \/ NotRunning(m) \/ SpawnFails(m) \/ PollHealthy(m) \/ PollTimeout(m)
      BY <3>3 DEF AlreadyRunning, NotRunning, SpawnFails, PollHealthy, PollTimeout, Reaches
    <3>4. QED BY <2>2, <3>1, <3>2, <3>3 DEF Launch
  <2>3. QED BY <2>1, <2>2 DEF Next, ProcessStep, Bind, launchVars
<1>2. QED BY <1>1, Invariance, PTL DEF Spec, LaunchesRunDown
=============================================================================
