------------------------------ MODULE LocalJobs ------------------------------
(***************************************************************************)
(* LocalLongJobRunner: long-running jobs kept in a SQLite file that every  *)
(* app of the suite shares, each job run by a subprocess whose stdout is   *)
(* drained into an event table, which clients stream until the job ends.   *)
(*                                                                         *)
(* Who moves.  A runner is one app process: an asyncio loop (coroutines    *)
(* switch only where they await) plus executor threads, one per job being  *)
(* drained.  The lock file serialises database access between threads and  *)
(* between processes.  A database access that is one statement is one      *)
(* step here; the poll of stream_events makes two SELECTs under one lock   *)
(* and is two steps, during which everybody else finds the lock taken.     *)
(*                                                                         *)
(* Data.  A line of worker output is its class: what parsing it does.  An  *)
(* event is the number of the line it came from; its seq is its position   *)
(* in the job's log.  Timestamps and the error text are set or not set.    *)
(***************************************************************************)
EXTENDS Naturals, Sequences, Functions

CONSTANTS
  Jobs,        \* job ids that submit() may draw
  Runners,     \* app processes that share jobs.db
  Fragile,     \* those of them that may crash
  Calls,       \* calls of cancel()
  Streams,     \* iterators returned by stream_events()
  Lines,       \* classes of lines a worker may print
  MaxLines,    \* bound: lines one worker prints
  StderrCap,   \* what the stderr pipe holds before a write blocks
  MaxStderr,   \* bound: what one worker writes to stderr
  Nobody       \* no job, no runner

LineClasses == {"blank", "event", "log", "malformed", "choking"}

ASSUME LinesAssumption == Lines \subseteq LineClasses
ASSUME BoundsAssumption == MaxLines \in Nat /\ StderrCap \in Nat /\ MaxStderr \in Nat
ASSUME NobodyAssumption == Nobody \notin Jobs \cup Runners
ASSUME FragileAssumption == Fragile \subseteq Runners

(***************************************************************************)
(* Definitions named Wrong... are plausible mistakes in the definition     *)
(* that follows them.  Nothing uses them; putting one in the place of the  *)
(* definition shows that the properties below notice the difference.       *)
(***************************************************************************)

VARIABLES
  row,      \* table jobs: the row of each job id
  log,      \* table job_events: the events of each job in seq order
  owner,    \* the runner whose submit_with_process() created the job
  sup,      \* where submit_with_process() and then _supervise() stand
  procs,    \* self._processes of each runner
  worker,   \* the subprocess of each job
  sigterm,  \* jobs whose subprocess was sent SIGTERM
  out,      \* lines the worker has printed
  read,     \* how many of them the drain has consumed
  err,      \* what sits unread in the stderr pipe
  call,     \* cancel() calls
  stream,   \* stream_events() iterators
  up        \* runners that are running

dbVars == <<row, log>>
runnerVars == <<owner, sup, procs, up>>
workerVars == <<worker, sigterm, out, err>>
vars == <<dbVars, runnerVars, workerVars, read, call, stream>>

\* A set that forgot one of the ways to end.
WrongTerminal == {"succeeded", "failed"}
Terminal == {"succeeded", "failed", "cancelled"}
States == {"absent", "queued", "running"} \cup Terminal

\* A call and an iterator that nobody has made yet.
NoCall == [pc |-> "idle", job |-> Nobody, runner |-> Nobody, progress |-> 0]
NoStream == [pc |-> "idle", job |-> Nobody, runner |-> Nobody, last |-> 0, rows |-> <<>>,
             seen |-> "absent", got |-> <<>>]

Exited(j) == worker[j] \in {"ok", "bad"}

\* Lines that the drain turns into an event.
Published == {"event", "log"}

(***************************************************************************)
(* The lock file and the event loop.                                       *)
(***************************************************************************)

\* No lock file around the accesses to jobs.db.
WrongDbFree == TRUE

\* Nobody is between the two SELECTs of a poll.
DbFree == \A t \in Streams : stream[t].pc # "polled"

\* The loop of r is not inside a stretch of code without an await.
LoopFree(r) ==
  /\ r \in up
  /\ \A j \in Jobs : owner[j] = r => sup[j] \notin {"inserted", "spawned"}
  /\ \A c \in Calls : call[c].runner = r => call[c].pc # "writing"
  /\ \A t \in Streams : stream[t].runner = r => stream[t].pc # "polled"

\* The id is handed out as soon as the row is there.
WrongKnown(j) == row[j].state # "absent"

\* A caller has the id only once the submitting call has returned.
Known(j) == row[j].state # "absent" /\ sup[j] \notin {"inserted", "spawned", "abandoned"}

\* Columns that are NULL until they are written once: written or kept.
Filled(column, now) == IF now THEN "set" ELSE column

SetState(j, state, progress) ==
  row' = [row EXCEPT ![j] =
            [state |-> state,
             progress |-> progress,
             started |-> Filled(@.started, state = "running"),
             finished |-> Filled(@.finished, state \in Terminal),
             error |-> @.error]]

\* finished_at is forgotten.
WrongSetFailed(j) ==
  row' = [row EXCEPT ![j] = [@ EXCEPT !.state = "failed", !.error = "set"]]

\* A state that the readers of the table do not know.
OtherSetFailed(j) ==
  row' = [row EXCEPT ![j] = [@ EXCEPT !.state = "error", !.error = "set", !.finished = "set"]]

SetFailed(j) ==
  row' = [row EXCEPT ![j] = [@ EXCEPT !.state = "failed", !.error = "set", !.finished = "set"]]

InsertQueued(j) ==
  /\ row[j].state = "absent"
  /\ row' = [row EXCEPT ![j] = [@ EXCEPT !.state = "queued"]]

-----------------------------------------------------------------------------
(***************************************************************************)
(* submit() alone, and the four steps of submit_with_process(): insert the *)
(* row, start the process, mark it running and start its supervision.      *)
(***************************************************************************)

Submit(r, j) ==
  /\ LoopFree(r) /\ DbFree
  /\ InsertQueued(j)
  /\ UNCHANGED <<log, runnerVars, workerVars, read, call, stream>>

SubmitWithProcess(r, j) ==
  /\ LoopFree(r) /\ DbFree
  /\ InsertQueued(j)
  /\ owner' = [owner EXCEPT ![j] = r]
  /\ sup' = [sup EXCEPT ![j] = "inserted"]
  /\ UNCHANGED <<log, procs, up, workerVars, read, call, stream>>

Popen(j) ==
  /\ sup[j] = "inserted"
  /\ worker' = [worker EXCEPT ![j] = "alive"]
  /\ procs' = [procs EXCEPT ![owner[j]] = @ \cup {j}]
  /\ sup' = [sup EXCEPT ![j] = "spawned"]
  /\ UNCHANGED <<dbVars, owner, up, sigterm, out, err, read, call, stream>>

\* Popen raises: the caller gets the exception, the queued row stays.
PopenFails(j) ==
  /\ sup[j] = "inserted"
  /\ sup' = [sup EXCEPT ![j] = "abandoned"]
  /\ UNCHANGED <<dbVars, owner, procs, up, workerVars, read, call, stream>>

MarkRunning(j) ==
  /\ sup[j] = "spawned"
  /\ DbFree
  /\ SetState(j, "running", 0)
  /\ sup' = [sup EXCEPT ![j] = "draining"]
  /\ UNCHANGED <<log, owner, procs, up, workerVars, read, call, stream>>

-----------------------------------------------------------------------------
(***************************************************************************)
(* The worker.  Its output pipes exist while its runner holds the process  *)
(* object; stdout is read as it comes, stderr only after the worker exits. *)
(***************************************************************************)

PipesOpen(j) == sup[j] \notin {"lost", "abandoned", "broken"}

WorkerPrint(j) ==
  /\ worker[j] = "alive" /\ PipesOpen(j)
  /\ Len(out[j]) < MaxLines
  /\ \E class \in Lines : out' = [out EXCEPT ![j] = Append(@, class)]
  /\ UNCHANGED <<dbVars, runnerVars, worker, sigterm, err, read, call, stream>>

WorkerStderr(j) ==
  /\ worker[j] = "alive" /\ PipesOpen(j)
  /\ err[j] < MaxStderr
  /\ IF err[j] < StderrCap
       THEN err' = [err EXCEPT ![j] = @ + 1] /\ UNCHANGED worker
       ELSE worker' = [worker EXCEPT ![j] = "stuck"] /\ UNCHANGED err
  /\ UNCHANGED <<dbVars, runnerVars, sigterm, out, read, call, stream>>

\* A worker ends by itself with either result, and also after SIGTERM, which
\* it may handle; one stuck in a write ends only by the signal or when the
\* reading end of its pipe goes away.
WorkerExit(j) ==
  /\ \/ worker[j] = "alive" /\ \E result \in {"ok", "bad"} : worker' = [worker EXCEPT ![j] = result]
     \/ /\ worker[j] = "stuck"
        /\ j \in sigterm \/ ~PipesOpen(j)
        /\ worker' = [worker EXCEPT ![j] = "bad"]
  /\ UNCHANGED <<dbVars, runnerVars, sigterm, out, err, read, call, stream>>

-----------------------------------------------------------------------------
(***************************************************************************)
(* _supervise(): the drain runs in an executor thread, what follows it on  *)
(* the loop.                                                               *)
(***************************************************************************)

\* The next line of stdout is there for the drain of job j, which takes it.
TakeLine(j) ==
  /\ sup[j] = "draining"
  /\ read[j] < Len(out[j])
  /\ read' = [read EXCEPT ![j] = @ + 1]

NextLine(j) == out[j][read[j] + 1]

\* An event line, or any other line as a "log" event.
AppendEvent(j) ==
  /\ TakeLine(j)
  /\ NextLine(j) \in Published
  /\ DbFree
  /\ log' = [log EXCEPT ![j] = Append(@, read[j] + 1)]
  /\ UNCHANGED <<row, runnerVars, workerVars, call, stream>>

\* A blank line, or an event line that parse_event_line rejects with ValueError.
SkipLine(j) ==
  /\ TakeLine(j)
  /\ NextLine(j) \in {"blank", "malformed"}
  /\ UNCHANGED <<dbVars, runnerVars, workerVars, call, stream>>

\* An event line on which parsing raises what the drain does not catch, since it
\* is no ValueError: TypeError for a "kind" that is a list or an object (looked
\* up in a frozenset), RecursionError for JSON that is nested too deep.
ChokeOnLine(j) ==
  /\ TakeLine(j)
  /\ NextLine(j) = "choking"
  /\ sup' = [sup EXCEPT ![j] = "raised"]
  /\ UNCHANGED <<dbVars, owner, procs, up, workerVars, call, stream>>

\* The exit of the process is awaited without draining its output first.
WrongDrainEof(j) ==
  /\ sup[j] = "draining"
  /\ Exited(j)
  /\ sup' = [sup EXCEPT ![j] = "waited"]
  /\ UNCHANGED <<dbVars, owner, procs, up, workerVars, read, call, stream>>

\* End of file on stdout, then proc.wait().
DrainEof(j) ==
  /\ sup[j] = "draining"
  /\ read[j] = Len(out[j])
  /\ Exited(j)
  /\ sup' = [sup EXCEPT ![j] = "waited"]
  /\ UNCHANGED <<dbVars, owner, procs, up, workerVars, read, call, stream>>

\* An exit code other than 0 is not recorded.
WrongFinish(j) ==
  /\ sup[j] = "waited"
  /\ LoopFree(owner[j]) /\ DbFree
  /\ IF worker[j] = "ok" THEN SetState(j, "succeeded", 1) ELSE UNCHANGED row
  /\ sup' = [sup EXCEPT ![j] = "done"]
  /\ procs' = [procs EXCEPT ![owner[j]] = @ \ {j}]
  /\ UNCHANGED <<log, owner, up, workerVars, read, call, stream>>

\* The rest of _supervise: terminal state from the exit code, then the finally.
Finish(j) ==
  /\ sup[j] = "waited"
  /\ LoopFree(owner[j]) /\ DbFree
  /\ IF worker[j] = "ok" THEN SetState(j, "succeeded", 1) ELSE SetFailed(j)
  /\ sup' = [sup EXCEPT ![j] = "done"]
  /\ procs' = [procs EXCEPT ![owner[j]] = @ \ {j}]
  /\ UNCHANGED <<log, owner, up, workerVars, read, call, stream>>

\* The process is popped on the normal path only.
WrongFinishExcept(j) ==
  /\ sup[j] = "raised"
  /\ LoopFree(owner[j]) /\ DbFree
  /\ SetFailed(j)
  /\ sup' = [sup EXCEPT ![j] = "broken"]
  /\ UNCHANGED <<log, owner, procs, up, workerVars, read, call, stream>>

\* except Exception, then the finally.
FinishExcept(j) ==
  /\ sup[j] = "raised"
  /\ LoopFree(owner[j]) /\ DbFree
  /\ SetFailed(j)
  /\ sup' = [sup EXCEPT ![j] = "broken"]
  /\ procs' = [procs EXCEPT ![owner[j]] = @ \ {j}]
  /\ UNCHANGED <<log, owner, up, workerVars, read, call, stream>>

-----------------------------------------------------------------------------
(***************************************************************************)
(* cancel(): the row is read first, and written last.                      *)
(***************************************************************************)

CancelStatus(c, r, j) ==
  /\ call[c].pc = "idle"
  /\ LoopFree(r) /\ DbFree
  /\ Known(j)

CancelNoop(c, r, j) ==
  /\ CancelStatus(c, r, j)
  /\ row[j].state \in Terminal
  /\ call' = [call EXCEPT ![c] = [pc |-> "noop", job |-> j, runner |-> r, progress |-> 0]]
  /\ UNCHANGED <<dbVars, runnerVars, workerVars, read, stream>>

\* The runner has the process: signal it and await its end.
CancelTerminate(c, r, j) ==
  /\ CancelStatus(c, r, j)
  /\ row[j].state \notin Terminal
  /\ j \in procs[r]
  /\ sigterm' = sigterm \cup {j}
  /\ call' = [call EXCEPT ![c] = [pc |-> "waiting", job |-> j, runner |-> r,
                                  progress |-> row[j].progress]]
  /\ UNCHANGED <<dbVars, runnerVars, worker, out, err, read, stream>>

\* It does not: straight on to the write, without an await in between.
CancelUnowned(c, r, j) ==
  /\ CancelStatus(c, r, j)
  /\ row[j].state \notin Terminal
  /\ j \notin procs[r]
  /\ call' = [call EXCEPT ![c] = [pc |-> "writing", job |-> j, runner |-> r,
                                  progress |-> row[j].progress]]
  /\ UNCHANGED <<dbVars, runnerVars, workerVars, read, stream>>

\* SIGTERM is sent and its effect not awaited.
WrongCancelWrite(c) ==
  /\ \/ call[c].pc = "writing"
     \/ call[c].pc = "waiting" /\ LoopFree(call[c].runner)
  /\ DbFree
  /\ SetState(call[c].job, "cancelled", call[c].progress)
  /\ call' = [call EXCEPT ![c].pc = "done"]
  /\ UNCHANGED <<log, runnerVars, workerVars, read, stream>>

\* The process is looked up a second time after the wait.
LateCancelWrite(c) ==
  /\ \/ call[c].pc = "writing"
     \/ /\ call[c].pc = "waiting" /\ Exited(call[c].job) /\ LoopFree(call[c].runner)
        /\ call[c].job \in procs[call[c].runner]
  /\ DbFree
  /\ SetState(call[c].job, "cancelled", call[c].progress)
  /\ call' = [call EXCEPT ![c].pc = "done"]
  /\ UNCHANGED <<log, runnerVars, workerVars, read, stream>>

CancelWrite(c) ==
  /\ \/ call[c].pc = "writing"
     \/ call[c].pc = "waiting" /\ Exited(call[c].job) /\ LoopFree(call[c].runner)
  /\ DbFree
  /\ SetState(call[c].job, "cancelled", call[c].progress)
  /\ call' = [call EXCEPT ![c].pc = "done"]
  /\ UNCHANGED <<log, runnerVars, workerVars, read, stream>>

-----------------------------------------------------------------------------
(***************************************************************************)
(* stream_events(): poll the new events and the state under one lock,      *)
(* yield the events one by one, then stop or sleep and poll again.         *)
(***************************************************************************)

StreamOpen(t, r, j) ==
  /\ stream[t].pc = "idle"
  /\ LoopFree(r) /\ DbFree
  /\ Known(j)
  /\ stream' = [stream EXCEPT ![t] = [NoStream EXCEPT !.pc = "poll", !.job = j, !.runner = r]]
  /\ UNCHANGED <<dbVars, runnerVars, workerVars, read, call>>

\* The cursor is left out of the query.
WrongNewRows(t) == log[stream[t].job]

\* SELECT ... FROM job_events WHERE seq > last_seq ORDER BY seq
NewRows(t) ==
  LET events == log[stream[t].job]
  IN  SubSeq(events, stream[t].last + 1, Len(events))

PollRows(t) ==
  /\ stream[t].pc = "poll"
  /\ LoopFree(stream[t].runner) /\ DbFree
  /\ stream' = [stream EXCEPT ![t].pc = "polled", ![t].rows = NewRows(t)]
  /\ UNCHANGED <<dbVars, runnerVars, workerVars, read, call>>

PollState(t) ==
  /\ stream[t].pc = "polled"
  /\ stream' = [stream EXCEPT ![t].pc = "deliver", ![t].seen = row[stream[t].job].state]
  /\ UNCHANGED <<dbVars, runnerVars, workerVars, read, call>>

\* The consumer receives one event; last_seq becomes its seq.
Yield(t) ==
  /\ stream[t].pc = "deliver" /\ stream[t].rows # <<>>
  /\ LoopFree(stream[t].runner)
  /\ stream' = [stream EXCEPT ![t].got = Append(@, Head(stream[t].rows)),
                              ![t].rows = Tail(@),
                              ![t].last = @ + 1]
  /\ UNCHANGED <<dbVars, runnerVars, workerVars, read, call>>

StreamEnd(t) ==
  /\ stream[t].pc = "deliver" /\ stream[t].rows = <<>>
  /\ LoopFree(stream[t].runner)
  /\ stream[t].seen \in Terminal
  /\ stream' = [stream EXCEPT ![t].pc = "ended"]
  /\ UNCHANGED <<dbVars, runnerVars, workerVars, read, call>>

StreamAgain(t) ==
  /\ stream[t].pc = "deliver" /\ stream[t].rows = <<>>
  /\ LoopFree(stream[t].runner)
  /\ stream[t].seen \notin Terminal
  /\ stream' = [stream EXCEPT ![t].pc = "poll"]
  /\ UNCHANGED <<dbVars, runnerVars, workerVars, read, call>>

-----------------------------------------------------------------------------
(***************************************************************************)
(* A crash takes the process map, the supervision tasks, the calls and the *)
(* streams of the runner, and frees the lock file.  Its workers live on.   *)
(* Nothing is recovered when it starts again: __init__ only creates the    *)
(* tables, and the map is empty.                                           *)
(***************************************************************************)

Crash(r) ==
  /\ r \in up \cap Fragile
  /\ up' = up \ {r}
  /\ procs' = [procs EXCEPT ![r] = {}]
  /\ sup' = [j \in Jobs |->
               IF owner[j] # r THEN sup[j]
               ELSE IF sup[j] \in {"inserted", "spawned"} THEN "abandoned"
               ELSE IF sup[j] \in {"draining", "waited", "raised"} THEN "lost"
               ELSE sup[j]]
  /\ call' = [c \in Calls |->
                IF call[c].runner = r /\ call[c].pc \in {"waiting", "writing"}
                  THEN [call[c] EXCEPT !.pc = "lost"] ELSE call[c]]
  /\ stream' = [t \in Streams |->
                  IF stream[t].runner = r /\ stream[t].pc \in {"poll", "polled", "deliver"}
                    THEN [stream[t] EXCEPT !.pc = "lost"] ELSE stream[t]]
  /\ UNCHANGED <<dbVars, owner, workerVars, read>>

Restart(r) ==
  /\ r \in Runners \ up
  /\ up' = up \cup {r}
  /\ UNCHANGED <<dbVars, owner, sup, procs, workerVars, read, call, stream>>

-----------------------------------------------------------------------------
Init ==
  /\ row = [j \in Jobs |-> [state |-> "absent", progress |-> 0, started |-> "null",
                            finished |-> "null", error |-> "null"]]
  /\ log = [j \in Jobs |-> <<>>]
  /\ owner = [j \in Jobs |-> Nobody]
  /\ sup = [j \in Jobs |-> "none"]
  /\ procs = [r \in Runners |-> {}]
  /\ worker = [j \in Jobs |-> "none"]
  /\ sigterm = {}
  /\ out = [j \in Jobs |-> <<>>]
  /\ read = [j \in Jobs |-> 0]
  /\ err = [j \in Jobs |-> 0]
  /\ call = [c \in Calls |-> NoCall]
  /\ stream = [t \in Streams |-> NoStream]
  /\ up = Runners

Work(j) == WorkerPrint(j) \/ WorkerStderr(j) \/ WorkerExit(j)
Launch(j) == Popen(j) \/ PopenFails(j) \/ MarkRunning(j)
Supervise(j) ==
  \/ AppendEvent(j) \/ SkipLine(j) \/ ChokeOnLine(j)
  \/ DrainEof(j) \/ Finish(j) \/ FinishExcept(j)
CancelStart(c, r, j) == CancelNoop(c, r, j) \/ CancelTerminate(c, r, j) \/ CancelUnowned(c, r, j)
StreamStep(t) == PollRows(t) \/ PollState(t) \/ Yield(t) \/ StreamEnd(t) \/ StreamAgain(t)

Next ==
  \/ \E r \in Runners, j \in Jobs : Submit(r, j) \/ SubmitWithProcess(r, j)
  \/ \E j \in Jobs : Launch(j) \/ Work(j) \/ Supervise(j)
  \/ \E c \in Calls, r \in Runners, j \in Jobs : CancelStart(c, r, j)
  \/ \E c \in Calls : CancelWrite(c)
  \/ \E t \in Streams, r \in Runners, j \in Jobs : StreamOpen(t, r, j)
  \/ \E t \in Streams : StreamStep(t)
  \/ \E r \in Runners : Crash(r) \/ Restart(r)

Spec == Init /\ [][Next]_vars

(***************************************************************************)
(* Fairness.  The loop runs ready coroutines in turn and the lock file is  *)
(* retried until it is free, while a stream sleeps between polls: a step   *)
(* that is possible again and again is taken.  A worker is only assumed to *)
(* exit when it can, a consumer to keep iterating.                         *)
(***************************************************************************)
Fairness ==
  /\ \A j \in Jobs : WF_vars(WorkerExit(j)) /\ SF_vars(Launch(j)) /\ SF_vars(Supervise(j))
  /\ \A c \in Calls : SF_vars(CancelWrite(c))
  /\ \A t \in Streams : SF_vars(StreamStep(t))

FairSpec == Spec /\ Fairness

-----------------------------------------------------------------------------
(***************************************************************************)
(* Properties.                                                             *)
(***************************************************************************)

Column == {"null", "set"}
Row == [state : States, progress : {0, 1}, started : Column, finished : Column, error : Column]

SupStates == {"none", "inserted", "spawned", "abandoned", "draining", "waited", "done",
              "raised", "broken", "lost"}

ActiveCall == [pc : {"noop", "waiting", "writing", "done", "lost"},
               job : Jobs, runner : Runners, progress : {0, 1}]
Call == {NoCall} \cup ActiveCall

ActiveStream ==
  [pc : {"poll", "polled", "deliver", "ended", "lost"}, job : Jobs, runner : Runners,
   last : Nat, rows : Seq(Nat), seen : States, got : Seq(Nat)]
Stream == {NoStream} \cup ActiveStream

(***************************************************************************)
(* What each variable may hold.                                            *)
(***************************************************************************)
TypeOK ==
  /\ row \in [Jobs -> Row]
  /\ log \in [Jobs -> Seq(Nat)]
  /\ owner \in [Jobs -> Runners \cup {Nobody}]
  /\ sup \in [Jobs -> SupStates]
  /\ procs \in [Runners -> SUBSET Jobs]
  /\ worker \in [Jobs -> {"none", "alive", "stuck", "ok", "bad"}]
  /\ sigterm \in SUBSET Jobs
  /\ out \in [Jobs -> Seq(Lines)]
  /\ read \in [Jobs -> Nat]
  /\ err \in [Jobs -> Nat]
  /\ call \in [Calls -> Call]
  /\ stream \in [Streams -> Stream]
  /\ up \in SUBSET Runners

Increasing(s) == \A m, n \in 1 .. Len(s) : m < n => s[m] < s[n]

\* Which of the first n lines become events.
Publishable(lines, n) == {k \in 1 .. n : lines[k] \in Published}

\* Sequence s holds exactly the events of the first n lines, in order.
Carries(s, lines, n) == Increasing(s) /\ Range(s) = Publishable(lines, n)

(***************************************************************************)
(* A job is reported succeeded only when its worker has exited with code 0 *)
(* and every line of its output worth an event is in the event table, in   *)
(* order: _supervise drains before it waits and looks at the code.         *)
(***************************************************************************)
SucceededIsComplete ==
  \A j \in Jobs : row[j].state = "succeeded" =>
    worker[j] = "ok" /\ Carries(log[j], out[j], Len(out[j]))

(***************************************************************************)
(* A client whose stream_events() ended on the verdict of the supervisor   *)
(* has received every event the worker published, although the verdict and *)
(* the events come from two SELECTs and are written by other threads.      *)
(***************************************************************************)
EndedStreamIsComplete ==
  \A t \in Streams :
    stream[t].pc = "ended" /\ stream[t].seen \in {"succeeded", "failed"}
      /\ sup[stream[t].job] = "done"
    => LET lines == out[stream[t].job]
       IN  Carries(stream[t].got, lines, Len(lines))

(***************************************************************************)
(* When a cancel() made in the app that launched the job returns after     *)
(* doing its work, the subprocess is gone, whatever other runners did to   *)
(* the row meanwhile; only a crash that lost the process excuses it.       *)
(***************************************************************************)
CancelStopsWorker ==
  \A c \in Calls :
    call[c].pc = "done" /\ owner[call[c].job] = call[c].runner
      /\ sup[call[c].job] # "lost"
    => Exited(call[c].job)

\* Its app crashed, or its drain broke: nobody looks after job j any more.
Orphaned(j) == sup[j] \in {"abandoned", "lost", "broken"}

(***************************************************************************)
(* self._processes holds exactly the launched jobs whose supervision is    *)
(* not over: no entry is leaked and none is dropped early, which is what   *)
(* lets cancel() find the process to signal.  So a worker that runs is in  *)
(* the map of the app that launched it, unless that app crashed since or   *)
(* the worker's drain broke: those are the workers no app can find.        *)
(***************************************************************************)
ProcessMapExact ==
  /\ \A r \in Runners : procs[r] =
       {j \in Jobs : owner[j] = r /\ sup[j] \in {"spawned", "draining", "waited", "raised"}}
  /\ \A j \in Jobs : worker[j] \in {"alive", "stuck"} /\ ~Orphaned(j) => j \in procs[owner[j]]

(***************************************************************************)
(* A status() is coherent at any time, though three writers overwrite each *)
(* other's columns: full progress means succeeded and nothing else, a job  *)
(* is finished when its state is terminal, and an error text belongs to a  *)
(* job that did fail or was cancelled after it.  A row that says queued or *)
(* running for good, of a job that was launched, is the work of a crash or *)
(* of a Popen that raised.                                                 *)
(***************************************************************************)
Coherent(j) ==
  /\ row[j].progress = 1 <=> row[j].state = "succeeded"
  /\ row[j].finished = "set" <=> row[j].state \in Terminal
  /\ row[j].error = "set" => row[j].state \in {"failed", "cancelled"}

\* The drain of job j has read a line that stops it.
MetBadLine(j) == \E k \in 1 .. read[j] : out[j][k] = "choking"

DidFail(j) == worker[j] = "bad" \/ MetBadLine(j)

\* A launched job that has not ended is on its way, or its app crashed, or the
\* launch failed and left the row behind.
OnItsWay(j) ==
  /\ row[j].state = "running" => sup[j] \in {"draining", "waited", "raised", "lost"}
  /\ row[j].state = "queued" /\ owner[j] # Nobody => sup[j] \in {"inserted", "spawned", "abandoned"}

RowCoherent ==
  \A j \in Jobs :
    /\ Coherent(j)
    /\ OnItsWay(j)
    /\ row[j].state = "failed" => row[j].error = "set"
    /\ row[j].error = "set" => DidFail(j)

\* A cancel() of job j found something to cancel.
Cancelled(j) == \E c \in Calls : call[c].job = j /\ call[c].pc # "noop"

(***************************************************************************)
(* A job that has ended never comes back to life: no late write puts it in *)
(* a state that is not terminal, so a stream that ended was right to end.  *)
(* And its state is final unless a cancel() was made while it ran.         *)
(***************************************************************************)
NeverRevived ==
  [][\A j \in Jobs : row[j].state \in Terminal =>
       /\ row'[j].state \in Terminal
       /\ row'[j].state = row[j].state \/ Cancelled(j)]_vars

(***************************************************************************)
(* The runner implements the feed it stands for.                           *)
(***************************************************************************)
Sealed == {j \in Jobs : sup[j] = "done"}
Disrupted == {j \in Jobs : sup[j] \in {"raised", "broken", "lost", "abandoned"} \/ Cancelled(j)}
Reader == [t \in Streams |-> [of |-> stream[t].job, got |-> stream[t].got,
                             ended |-> stream[t].pc = "ended"]]

Feed == INSTANCE EventFeed WITH
  Feeds <- Jobs, Readers <- Streams, Items <- 1 .. MaxLines, NoFeed <- Nobody,
  feed <- log, sealed <- Sealed, disrupted <- Disrupted, reader <- Reader

(***************************************************************************)
(* Streams of jobs deliver as EventFeed promises: the exact sequence of    *)
(* the events, and an early end only for a job that was disrupted.         *)
(***************************************************************************)
ImplementsFeed == Feed!Spec

(***************************************************************************)
(* "noop for terminal states" (cancel): a job that reached a terminal      *)
(* state keeps it.  _set_state and _set_failed write unconditionally.      *)
(***************************************************************************)
TerminalIsFinal ==
  [][\A j \in Jobs : row[j].state \in Terminal => row'[j].state = row[j].state]_vars

(***************************************************************************)
(* _supervise "set[s] terminal state": every job whose process was         *)
(* launched ends, provided its worker exits when it can.                   *)
(***************************************************************************)
LaunchedJobsEnd ==
  \A j \in Jobs : sup[j] = "draining" ~> row[j].state \in Terminal

(***************************************************************************)
(* stream_events streams "until terminal state": the iterator over the     *)
(* events of a launched job comes to its end.                              *)
(***************************************************************************)
StreamsEnd ==
  \A t \in Streams :
    (stream[t].pc # "idle" /\ owner[stream[t].job] # Nobody) ~> stream[t].pc = "ended"

(***************************************************************************)
(* cancel() returns, and by then or soon after the worker has exited.      *)
(***************************************************************************)
CancelReturns ==
  \A c \in Calls :
    call[c].pc \in {"waiting", "writing"} ~> call[c].pc = "done"
=============================================================================
