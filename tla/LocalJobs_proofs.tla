--------------------------- MODULE LocalJobs_proofs ---------------------------
(***************************************************************************)
(* Proofs about LocalJobs, for any sets of jobs, runners, calls and        *)
(* streams and any bounds.                                                 *)
(***************************************************************************)
EXTENDS LocalJobs, TLAPS

(***************************************************************************)
(* Writing to the jobs table keeps every row well formed.                  *)
(***************************************************************************)
LEMMA SetStateTypes ==
  ASSUME row \in [Jobs -> Row], NEW j \in Jobs, NEW state \in States, NEW progress \in {0, 1},
         SetState(j, state, progress)
  PROVE  row' \in [Jobs -> Row]
BY DEF SetState, Filled, Row, Column

LEMMA SetFailedTypes ==
  ASSUME row \in [Jobs -> Row], NEW j \in Jobs, SetFailed(j)
  PROVE  row' \in [Jobs -> Row]
BY DEF SetFailed, Row, Column, States, Terminal

LEMMA InsertQueuedTypes ==
  ASSUME row \in [Jobs -> Row], NEW j \in Jobs, InsertQueued(j)
  PROVE  row' \in [Jobs -> Row]
BY DEF InsertQueued, Row, States

LEMMA TypeInit == Init => TypeOK
BY BoundsAssumption DEF Init, TypeOK, Row, Column, States, SupStates, Call, Stream

(***************************************************************************)
(* Every step keeps every variable within its type.                        *)
(***************************************************************************)
LEMMA TypeStep == TypeOK /\ [Next]_vars => TypeOK'
<1> SUFFICES ASSUME TypeOK, [Next]_vars
             PROVE  TypeOK'
  OBVIOUS
<1> USE DEF TypeOK
<1>1. ASSUME NEW r \in Runners, NEW j \in Jobs, Submit(r, j)
      PROVE  TypeOK'
  BY <1>1, InsertQueuedTypes DEF Submit, runnerVars, workerVars
<1>2. ASSUME NEW r \in Runners, NEW j \in Jobs, SubmitWithProcess(r, j)
      PROVE  TypeOK'
  BY <1>2, InsertQueuedTypes DEF SubmitWithProcess, workerVars, SupStates
<1>3. ASSUME NEW j \in Jobs, Launch(j)
      PROVE  TypeOK'
  <2>1. CASE Popen(j)
    BY <2>1 DEF Popen, dbVars, SupStates
  <2>2. CASE PopenFails(j)
    BY <2>2 DEF PopenFails, dbVars, workerVars, SupStates
  <2>3. CASE MarkRunning(j)
    BY <2>3, SetStateTypes DEF MarkRunning, workerVars, SupStates, States
  <2> QED BY <1>3, <2>1, <2>2, <2>3 DEF Launch
<1>4. ASSUME NEW j \in Jobs, Work(j)
      PROVE  TypeOK'
  <2>1. CASE WorkerPrint(j)
    BY <2>1 DEF WorkerPrint, dbVars, runnerVars
  <2>2. CASE WorkerStderr(j)
    <3>1. worker' \in [Jobs -> {"none", "alive", "stuck", "ok", "bad"}] /\ err' \in [Jobs -> Nat]
      <4>1. CASE err[j] < StderrCap
        <5>1. err[j] + 1 \in Nat
          OBVIOUS
        <5>2. err' = [err EXCEPT ![j] = err[j] + 1] /\ worker' = worker
          BY <2>2, <4>1 DEF WorkerStderr
        <5> QED BY <5>1, <5>2
      <4>2. CASE ~(err[j] < StderrCap)
        BY <2>2, <4>2 DEF WorkerStderr
      <4> QED BY <4>1, <4>2
    <3> QED BY <2>2, <3>1 DEF WorkerStderr, dbVars, runnerVars
  <2>3. CASE WorkerExit(j)
    BY <2>3 DEF WorkerExit, dbVars, runnerVars
  <2> QED BY <1>4, <2>1, <2>2, <2>3 DEF Work
<1>5. ASSUME NEW j \in Jobs, Supervise(j)
      PROVE  TypeOK'
  <2>1. CASE AppendEvent(j)
    BY <2>1 DEF AppendEvent, TakeLine, runnerVars, workerVars
  <2>2. CASE SkipLine(j)
    BY <2>2 DEF SkipLine, TakeLine, dbVars, runnerVars, workerVars
  <2>3. CASE ChokeOnLine(j)
    BY <2>3 DEF ChokeOnLine, TakeLine, dbVars, workerVars, SupStates
  <2>4. CASE DrainEof(j)
    BY <2>4 DEF DrainEof, dbVars, workerVars, SupStates
  <2>5. CASE Finish(j)
    BY <2>5, SetStateTypes, SetFailedTypes DEF Finish, workerVars, SupStates, States, Terminal
  <2>6. CASE FinishExcept(j)
    BY <2>6, SetFailedTypes DEF FinishExcept, workerVars, SupStates
  <2> QED BY <1>5, <2>1, <2>2, <2>3, <2>4, <2>5, <2>6 DEF Supervise
<1>6. ASSUME NEW c \in Calls, NEW r \in Runners, NEW j \in Jobs, CancelStart(c, r, j)
      PROVE  TypeOK'
  <2>1. CASE CancelNoop(c, r, j)
    BY <2>1 DEF CancelNoop, dbVars, runnerVars, workerVars, Call, ActiveCall
  <2>2. CASE CancelTerminate(c, r, j)
    BY <2>2 DEF CancelTerminate, dbVars, runnerVars, Call, ActiveCall, Row
  <2>3. CASE CancelUnowned(c, r, j)
    BY <2>3 DEF CancelUnowned, dbVars, runnerVars, workerVars, Call, ActiveCall, Row
  <2> QED BY <1>6, <2>1, <2>2, <2>3 DEF CancelStart
<1>7. ASSUME NEW c \in Calls, CancelWrite(c)
      PROVE  TypeOK'
  <2>1. call[c] \in ActiveCall
    BY <1>7 DEF CancelWrite, Call, NoCall
  <2>2. row' \in [Jobs -> Row]
    BY <1>7, <2>1, SetStateTypes DEF CancelWrite, States, Terminal, ActiveCall
  <2>3. call' \in [Calls -> Call]
    BY <1>7, <2>1 DEF CancelWrite, Call, ActiveCall
  <2> QED BY <1>7, <2>2, <2>3 DEF CancelWrite, runnerVars, workerVars
<1>8. ASSUME NEW t \in Streams, NEW r \in Runners, NEW j \in Jobs, StreamOpen(t, r, j)
      PROVE  TypeOK'
  <2>1. stream'[t] = [pc |-> "poll", job |-> j, runner |-> r, last |-> 0, rows |-> <<>>,
                      seen |-> "absent", got |-> <<>>]
    BY <1>8 DEF StreamOpen, NoStream
  <2>2. stream'[t] \in ActiveStream
    BY <2>1 DEF ActiveStream, States
  <2> QED BY <1>8, <2>2 DEF StreamOpen, dbVars, runnerVars, workerVars, Stream
<1>9. ASSUME NEW t \in Streams, StreamStep(t)
      PROVE  TypeOK'
  <2>1. stream[t] \in ActiveStream
    BY <1>9 DEF StreamStep, PollRows, PollState, Yield, StreamEnd, StreamAgain, Stream, NoStream
  <2> USE DEF ActiveStream
  <2>2. CASE PollRows(t)
    <3>1. NewRows(t) \in Seq(Nat)
      BY <2>1 DEF NewRows
    <3> QED BY <2>1, <2>2, <3>1 DEF PollRows, dbVars, runnerVars, workerVars, Stream
  <2>3. CASE PollState(t)
    BY <2>1, <2>3 DEF PollState, dbVars, runnerVars, workerVars, Stream, Row
  <2>4. CASE Yield(t)
    BY <2>1, <2>4 DEF Yield, dbVars, runnerVars, workerVars, Stream
  <2>5. CASE StreamEnd(t)
    BY <2>1, <2>5 DEF StreamEnd, dbVars, runnerVars, workerVars, Stream
  <2>6. CASE StreamAgain(t)
    BY <2>1, <2>6 DEF StreamAgain, dbVars, runnerVars, workerVars, Stream
  <2> QED BY <1>9, <2>2, <2>3, <2>4, <2>5, <2>6 DEF StreamStep
<1>10. ASSUME NEW r \in Runners, Crash(r)
       PROVE  TypeOK'
  <2>1. sup' \in [Jobs -> SupStates]
    BY <1>10 DEF Crash, SupStates
  <2>2. call' \in [Calls -> Call]
    <3> SUFFICES ASSUME NEW c \in Calls PROVE call'[c] \in Call
      BY <1>10 DEF Crash
    <3>1. CASE call[c].pc \in {"waiting", "writing"}
      <4>1. call[c] \in ActiveCall
        BY <3>1 DEF Call, NoCall
      <4>2. call'[c] \in {call[c], [call[c] EXCEPT !.pc = "lost"]}
        BY <1>10 DEF Crash
      <4> QED BY <4>1, <4>2 DEF Call, ActiveCall
    <3>2. CASE call[c].pc \notin {"waiting", "writing"}
      BY <1>10, <3>2 DEF Crash
    <3> QED BY <3>1, <3>2
  <2>3. stream' \in [Streams -> Stream]
    <3> SUFFICES ASSUME NEW t \in Streams PROVE stream'[t] \in Stream
      BY <1>10 DEF Crash
    <3>1. CASE stream[t].pc \in {"poll", "polled", "deliver"}
      <4>1. stream[t] \in ActiveStream
        BY <3>1 DEF Stream, NoStream
      <4>2. stream'[t] \in {stream[t], [stream[t] EXCEPT !.pc = "lost"]}
        BY <1>10 DEF Crash
      <4> QED BY <4>1, <4>2 DEF Stream, ActiveStream
    <3>2. CASE stream[t].pc \notin {"poll", "polled", "deliver"}
      BY <1>10, <3>2 DEF Crash
    <3> QED BY <3>1, <3>2
  <2> QED BY <1>10, <2>1, <2>2, <2>3 DEF Crash, dbVars, workerVars
<1>11. ASSUME NEW r \in Runners, Restart(r)
       PROVE  TypeOK'
  BY <1>11 DEF Restart, dbVars, workerVars
<1>12. CASE UNCHANGED vars
  BY <1>12 DEF vars, dbVars, runnerVars, workerVars
<1> QED
  BY <1>1, <1>2, <1>3, <1>4, <1>5, <1>6, <1>7, <1>8, <1>9, <1>10, <1>11, <1>12 DEF Next

(***************************************************************************)
(* Every variable always holds what TypeOK says.                           *)
(***************************************************************************)
THEOREM TypeCorrect == Spec => []TypeOK
BY TypeInit, TypeStep, PTL DEF Spec

-----------------------------------------------------------------------------
(***************************************************************************)
(* The inductive invariant.  SupervisionInv ties the row of a job to the   *)
(* stage of its supervision; CallInv says what a cancel() under way may    *)
(* rely on; LogInv what the drain has done so far; StreamInv what a stream *)
(* holds between two polls; CauseInv why a job failed or was cancelled.    *)
(***************************************************************************)
Supervised(j) ==
  /\ row[j].state = "absent" => sup[j] = "none"
  /\ sup[j] \in {"inserted", "spawned"} => row[j].state = "queued"
  /\ sup[j] # "none" <=> owner[j] # Nobody
  /\ sup[j] \in {"none", "inserted"} => worker[j] = "none"
  /\ sup[j] \in {"waited", "done"} => Exited(j)
  /\ OnItsWay(j)
  /\ sup[j] \in {"done", "broken"} => row[j].state \in Terminal
  /\ row[j].state = "succeeded" => sup[j] = "done" /\ worker[j] = "ok"
  /\ row[j].state = "failed" => sup[j] \in {"done", "broken"}
  /\ row[j].error = "set" => sup[j] \in {"done", "broken"}

SupervisionInv == \A j \in Jobs : Supervised(j)

CallSound(c) ==
  call[c].pc # "idle" =>
    /\ row[call[c].job].state # "absent"
    /\ sup[call[c].job] \notin {"inserted", "spawned", "abandoned"}
    /\ call[c].progress = 0
    /\ call[c].pc \in {"writing", "done"} /\ owner[call[c].job] = call[c].runner
         /\ sup[call[c].job] # "lost" => Exited(call[c].job)

CallInv == \A c \in Calls : CallSound(c)

Drained(j) ==
  /\ read[j] <= Len(out[j])
  /\ Carries(log[j], out[j], read[j])
  /\ sup[j] \in {"waited", "done"} => Exited(j) /\ read[j] = Len(out[j])

LogInv == \A j \in Jobs : Drained(j)

\* Sequence a followed by sequence b is the start of sequence s.
Consecutive(a, b, s) ==
  /\ Len(a) + Len(b) <= Len(s)
  /\ \A i \in 1 .. Len(a) : a[i] = s[i]
  /\ \A i \in 1 .. Len(b) : b[i] = s[Len(a) + i]

\* What stream record x delivered and is about to deliver is the start of log s.
HoldsPrefix(x, s) == Len(x.got) = x.last /\ Consecutive(x.got, x.rows, s)

HoldsAll(x, s) == x.last + Len(x.rows) = Len(s)

\* Stage is that of the supervision of the job that x streams, s is its log.
Streaming(x, stage, s) ==
  /\ HoldsPrefix(x, s)
  /\ x.pc = "polled" => HoldsAll(x, s)
  /\ x.pc \in {"deliver", "ended"} /\ x.seen \in {"succeeded", "failed"} =>
       stage \in {"done", "broken"} /\ HoldsAll(x, s)
  /\ x.pc = "ended" => x.rows = <<>>

StreamSound(t) ==
  stream[t].pc # "idle" =>
    Streaming(stream[t], sup[stream[t].job], log[stream[t].job])

StreamInv == \A t \in Streams : StreamSound(t)

ColumnsAgree == \A j \in Jobs : Coherent(j)

RunnerInv == SupervisionInv /\ CallInv /\ ProcessMapExact /\ ColumnsAgree

Caused(j) ==
  /\ sup[j] \in {"raised", "broken"} => MetBadLine(j)
  /\ row[j].state = "failed" => row[j].error = "set"
  /\ row[j].error = "set" => DidFail(j)
  /\ row[j].state = "cancelled" => Cancelled(j)

CauseInv == \A j \in Jobs : Caused(j)

IInv == TypeOK /\ RunnerInv /\ LogInv /\ StreamInv /\ CauseInv

(***************************************************************************)
(* What the writes to the jobs table do to each row.                       *)
(***************************************************************************)
LEMMA SetStateEffect ==
  ASSUME row \in [Jobs -> Row], NEW j \in Jobs, NEW state \in States, NEW progress \in {0, 1},
         SetState(j, state, progress)
  PROVE  /\ row'[j].state = state /\ row'[j].progress = progress
         /\ row'[j].error = row[j].error
         /\ row'[j].finished = IF state \in Terminal THEN "set" ELSE row[j].finished
         /\ \A k \in Jobs \ {j} : row'[k] = row[k]
BY DEF SetState, Filled, Row

LEMMA SetFailedEffect ==
  ASSUME row \in [Jobs -> Row], NEW j \in Jobs, SetFailed(j)
  PROVE  /\ row'[j].state = "failed" /\ row'[j].progress = row[j].progress
         /\ row'[j].error = "set" /\ row'[j].finished = "set"
         /\ \A k \in Jobs \ {j} : row'[k] = row[k]
BY DEF SetFailed, Row

(***************************************************************************)
(* Every step keeps RunnerInv.                                             *)
(***************************************************************************)
LEMMA RunnerStep == TypeOK /\ TypeOK' /\ RunnerInv /\ [Next]_vars => RunnerInv'
<1> SUFFICES ASSUME TypeOK, TypeOK', RunnerInv, [Next]_vars
             PROVE  RunnerInv'
  OBVIOUS
<1> USE DEF TypeOK, RunnerInv
<1>0. UNCHANGED <<row, owner, sup, procs, worker, call>> => RunnerInv'
  BY DEF SupervisionInv, Supervised, OnItsWay, CallInv, CallSound, ProcessMapExact, Orphaned, ColumnsAgree, Coherent, Exited
<1>a. \A c \in Calls : call[c].pc # "idle" => call[c].job \in Jobs
  BY DEF Call, NoCall, ActiveCall
<1>1. ASSUME NEW r \in Runners, NEW j \in Jobs, Submit(r, j)
      PROVE  RunnerInv'
  <2>1. SupervisionInv'
    BY <1>1, NobodyAssumption DEF Submit, InsertQueued, runnerVars, workerVars, SupervisionInv, Supervised, OnItsWay, Exited, Terminal, Row, States
  <2>2. CallInv'
    BY <1>a, <1>1, NobodyAssumption DEF Submit, InsertQueued, runnerVars, workerVars, SupervisionInv, Supervised, OnItsWay, CallInv, CallSound, Exited
  <2>3. ProcessMapExact'
    BY <1>1, NobodyAssumption DEF Submit, InsertQueued, runnerVars, workerVars, SupervisionInv, Supervised, OnItsWay, ProcessMapExact, Orphaned
  <2>4. ColumnsAgree'
    BY <1>1, NobodyAssumption DEF Submit, InsertQueued, runnerVars, workerVars, SupervisionInv, Supervised, OnItsWay, ColumnsAgree, Coherent, Terminal, Row, States
  <2> QED BY <2>1, <2>2, <2>3, <2>4
<1>2. ASSUME NEW r \in Runners, NEW j \in Jobs, SubmitWithProcess(r, j)
      PROVE  RunnerInv'
  <2>1. SupervisionInv'
    BY <1>2, NobodyAssumption DEF SubmitWithProcess, InsertQueued, workerVars, SupervisionInv, Supervised, OnItsWay, Exited, Terminal, Row, States
  <2>2. CallInv'
    BY <1>a, <1>2, NobodyAssumption DEF SubmitWithProcess, InsertQueued, workerVars, SupervisionInv, Supervised, OnItsWay, CallInv, CallSound, Exited
  <2>3. ProcessMapExact'
    BY <1>2, NobodyAssumption DEF SubmitWithProcess, InsertQueued, workerVars, SupervisionInv, Supervised, OnItsWay, ProcessMapExact, Orphaned
  <2>4. ColumnsAgree'
    BY <1>2, NobodyAssumption DEF SubmitWithProcess, InsertQueued, workerVars, SupervisionInv, Supervised, OnItsWay, ColumnsAgree, Coherent, Terminal, Row, States
  <2> QED BY <2>1, <2>2, <2>3, <2>4
<1>3. ASSUME NEW j \in Jobs, Popen(j)
      PROVE  RunnerInv'
  <2>1. SupervisionInv'
    BY <1>3, NobodyAssumption DEF Popen, dbVars, SupervisionInv, Supervised, OnItsWay, Exited, Terminal, Row, States
  <2>2. CallInv'
    BY <1>a, <1>3, NobodyAssumption DEF Popen, dbVars, SupervisionInv, Supervised, OnItsWay, CallInv, CallSound, Exited
  <2>3. ProcessMapExact'
    BY <1>3, NobodyAssumption DEF Popen, dbVars, SupervisionInv, Supervised, OnItsWay, ProcessMapExact, Orphaned
  <2>4. ColumnsAgree'
    BY <1>3 DEF Popen, dbVars, ColumnsAgree, Coherent
  <2> QED BY <2>1, <2>2, <2>3, <2>4
<1>4. ASSUME NEW j \in Jobs, PopenFails(j)
      PROVE  RunnerInv'
  <2>1. SupervisionInv'
    BY <1>4, NobodyAssumption DEF PopenFails, dbVars, workerVars, SupervisionInv, Supervised, OnItsWay, Exited, Terminal, Row, States
  <2>2. CallInv'
    BY <1>a, <1>4, NobodyAssumption DEF PopenFails, dbVars, workerVars, SupervisionInv, Supervised, OnItsWay, CallInv, CallSound, Exited
  <2>3. ProcessMapExact'
    BY <1>4, NobodyAssumption DEF PopenFails, dbVars, workerVars, SupervisionInv, Supervised, OnItsWay, ProcessMapExact, Orphaned
  <2>4. ColumnsAgree'
    BY <1>4 DEF PopenFails, dbVars, workerVars, ColumnsAgree, Coherent
  <2> QED BY <2>1, <2>2, <2>3, <2>4
<1>5. ASSUME NEW j \in Jobs, MarkRunning(j)
      PROVE  RunnerInv'
  <2>1. /\ row'[j].state = "running" /\ row'[j].progress = 0
        /\ row'[j].error = row[j].error /\ row'[j].finished = row[j].finished
        /\ \A k \in Jobs \ {j} : row'[k] = row[k]
    BY <1>5, SetStateEffect DEF MarkRunning, States, Terminal
  <2>2. SupervisionInv'
    BY <2>1, <1>5, NobodyAssumption DEF MarkRunning, workerVars, SupervisionInv, Supervised, OnItsWay, Exited, Terminal
  <2>3. CallInv'
    BY <1>a, <2>1, <1>5, NobodyAssumption DEF MarkRunning, workerVars, SupervisionInv, Supervised, OnItsWay, CallInv, CallSound, Exited
  <2>4. ProcessMapExact'
    BY <2>1, <1>5, NobodyAssumption DEF MarkRunning, workerVars, SupervisionInv, Supervised, OnItsWay, ProcessMapExact, Orphaned
  <2>5. ColumnsAgree'
    <3>1. row[j].state = "queued" /\ Coherent(j)
      BY <1>5 DEF MarkRunning, SupervisionInv, Supervised, OnItsWay, ColumnsAgree
    <3>2. Coherent(j)'
      BY <2>1, <3>1 DEF Coherent, Terminal
    <3>3. ASSUME NEW k \in Jobs \ {j} PROVE Coherent(k)'
      BY <2>1 DEF ColumnsAgree, Coherent
    <3> QED BY <3>2, <3>3 DEF ColumnsAgree
  <2> QED BY <2>2, <2>3, <2>4, <2>5
<1>6. ASSUME NEW j \in Jobs, Work(j)
      PROVE  RunnerInv'
  <2>1. UNCHANGED <<row, owner, sup, procs, call>>
    BY <1>6 DEF Work, WorkerPrint, WorkerStderr, WorkerExit, dbVars, runnerVars
  <2>2. \A k \in Jobs : worker[k] \in {"none", "ok", "bad"} => worker'[k] = worker[k]
    BY <1>6 DEF Work, WorkerPrint, WorkerStderr, WorkerExit
  <2>3. SupervisionInv'
    BY <2>1, <2>2 DEF SupervisionInv, Supervised, OnItsWay, Exited
  <2>4. CallInv'
    BY <1>a, <2>1, <2>2 DEF CallInv, CallSound, Exited
  <2>5. \A k \in Jobs : worker'[k] \in {"alive", "stuck"} => worker[k] \in {"alive", "stuck"}
    BY <2>2
  <2>6. ProcessMapExact'
    BY <2>1, <2>5 DEF ProcessMapExact, Orphaned
  <2>7. ColumnsAgree'
    BY <2>1 DEF ColumnsAgree, Coherent
  <2> QED BY <2>3, <2>4, <2>6, <2>7
<1>7. ASSUME NEW j \in Jobs, AppendEvent(j) \/ SkipLine(j)
      PROVE  RunnerInv'
  BY <1>0, <1>7 DEF AppendEvent, SkipLine, dbVars, runnerVars, workerVars
<1>8. ASSUME NEW j \in Jobs, ChokeOnLine(j)
      PROVE  RunnerInv'
  <2>1. SupervisionInv'
    BY <1>8, NobodyAssumption DEF ChokeOnLine, TakeLine, dbVars, workerVars, SupervisionInv, Supervised, OnItsWay, Exited, Terminal, Row, States
  <2>2. CallInv'
    BY <1>a, <1>8, NobodyAssumption DEF ChokeOnLine, TakeLine, dbVars, workerVars, SupervisionInv, Supervised, OnItsWay, CallInv, CallSound, Exited
  <2>3. ProcessMapExact'
    BY <1>8, NobodyAssumption DEF ChokeOnLine, TakeLine, dbVars, workerVars, SupervisionInv, Supervised, OnItsWay, ProcessMapExact, Orphaned
  <2>4. ColumnsAgree'
    BY <1>8 DEF ChokeOnLine, TakeLine, dbVars, workerVars, ColumnsAgree, Coherent
  <2> QED BY <2>1, <2>2, <2>3, <2>4
<1>9. ASSUME NEW j \in Jobs, DrainEof(j)
      PROVE  RunnerInv'
  <2>1. SupervisionInv'
    BY <1>9, NobodyAssumption DEF DrainEof, dbVars, workerVars, SupervisionInv, Supervised, OnItsWay, Exited, Terminal, Row, States
  <2>2. CallInv'
    BY <1>a, <1>9, NobodyAssumption DEF DrainEof, dbVars, workerVars, SupervisionInv, Supervised, OnItsWay, CallInv, CallSound, Exited
  <2>3. ProcessMapExact'
    BY <1>9, NobodyAssumption DEF DrainEof, dbVars, workerVars, SupervisionInv, Supervised, OnItsWay, ProcessMapExact, Orphaned
  <2>4. ColumnsAgree'
    BY <1>9 DEF DrainEof, dbVars, workerVars, ColumnsAgree, Coherent
  <2> QED BY <2>1, <2>2, <2>3, <2>4
<1>10. ASSUME NEW j \in Jobs, Finish(j)
      PROVE  RunnerInv'
  <2>1. /\ \/ /\ worker[j] = "ok" /\ row'[j].state = "succeeded" /\ row'[j].progress = 1
              /\ row'[j].error = row[j].error
           \/ /\ row'[j].state = "failed" /\ row'[j].progress = row[j].progress
              /\ row'[j].error = "set"
        /\ row'[j].finished = "set"
        /\ \A k \in Jobs \ {j} : row'[k] = row[k]
    BY <1>10, SetStateEffect, SetFailedEffect DEF Finish, States, Terminal
  <2>2. SupervisionInv'
    BY <2>1, <1>10, NobodyAssumption DEF Finish, workerVars, SupervisionInv, Supervised, OnItsWay, Exited, Terminal
  <2>3. CallInv'
    BY <1>a, <2>1, <1>10, NobodyAssumption DEF Finish, workerVars, SupervisionInv, Supervised, OnItsWay, CallInv, CallSound, Exited
  <2>4. ProcessMapExact'
    <3>1. worker[j] \in {"ok", "bad"}
      BY <1>10 DEF Finish, SupervisionInv, Supervised, Exited
    <3> QED BY <3>1, <1>10, NobodyAssumption DEF Finish, workerVars, SupervisionInv, Supervised, ProcessMapExact, Orphaned
  <2>5. ColumnsAgree'
    <3>1. \A k \in Jobs \ {j} : Coherent(k)'
      BY <2>1 DEF ColumnsAgree, Coherent
    <3>2. row[j].progress = 0 \/ row[j].state = "succeeded"
      BY DEF ColumnsAgree, Coherent, Row
    <3>3. row[j].state # "succeeded" /\ row[j].error # "set"
      BY <1>10 DEF Finish, SupervisionInv, Supervised
    <3>4. Coherent(j)'
      BY <2>1, <3>2, <3>3 DEF Coherent, Terminal
    <3> QED BY <3>1, <3>4 DEF ColumnsAgree
  <2> QED BY <2>2, <2>3, <2>4, <2>5
<1>11. ASSUME NEW j \in Jobs, FinishExcept(j)
      PROVE  RunnerInv'
  <2>1. /\ row'[j].state = "failed" /\ row'[j].progress = row[j].progress
        /\ row'[j].error = "set" /\ row'[j].finished = "set"
        /\ \A k \in Jobs \ {j} : row'[k] = row[k]
    BY <1>11, SetFailedEffect DEF FinishExcept
  <2>2. SupervisionInv'
    BY <2>1, <1>11, NobodyAssumption DEF FinishExcept, workerVars, SupervisionInv, Supervised, OnItsWay, Exited, Terminal
  <2>3. CallInv'
    BY <1>a, <2>1, <1>11, NobodyAssumption DEF FinishExcept, workerVars, SupervisionInv, Supervised, OnItsWay, CallInv, CallSound, Exited
  <2>4. ProcessMapExact'
    BY <2>1, <1>11, NobodyAssumption DEF FinishExcept, workerVars, SupervisionInv, Supervised, OnItsWay, ProcessMapExact, Orphaned
  <2>5. ColumnsAgree'
    <3>1. row[j].state # "succeeded" /\ Coherent(j)
      BY <1>11 DEF FinishExcept, SupervisionInv, Supervised, OnItsWay, ColumnsAgree
    <3>2. Coherent(j)'
      BY <2>1, <3>1 DEF Coherent, Terminal
    <3>3. ASSUME NEW k \in Jobs \ {j} PROVE Coherent(k)'
      BY <2>1 DEF ColumnsAgree, Coherent
    <3> QED BY <3>2, <3>3 DEF ColumnsAgree
  <2> QED BY <2>2, <2>3, <2>4, <2>5
<1>12. ASSUME NEW c \in Calls, NEW r \in Runners, NEW j \in Jobs, CancelStart(c, r, j)
      PROVE  RunnerInv'
  <2>1. UNCHANGED <<row, owner, sup, procs, worker>>
    BY <1>12 DEF CancelStart, CancelNoop, CancelTerminate, CancelUnowned, dbVars, runnerVars, workerVars
  <2>2. SupervisionInv' /\ ProcessMapExact' /\ ColumnsAgree'
    BY <2>1 DEF SupervisionInv, Supervised, OnItsWay, ProcessMapExact, Orphaned, ColumnsAgree, Coherent, Exited
  <2>3. \A d \in Calls \ {c} : call'[d] = call[d]
    BY <1>12 DEF CancelStart, CancelNoop, CancelTerminate, CancelUnowned
  <2>4. /\ call'[c].job = j /\ call'[c].runner = r /\ call'[c].progress = 0
        /\ call'[c].pc # "done"
        /\ call'[c].pc = "writing" => j \notin procs[r] /\ row[j].state \notin Terminal
    <3>1. row[j].state \notin Terminal => row[j].progress = 0
      BY DEF ColumnsAgree, Coherent, Terminal, Row
    <3>2. CASE CancelNoop(c, r, j)
      BY <3>2 DEF CancelNoop
    <3>3. CASE CancelTerminate(c, r, j)
      BY <3>1, <3>3 DEF CancelTerminate
    <3>4. CASE CancelUnowned(c, r, j)
      BY <3>1, <3>4 DEF CancelUnowned
    <3> QED BY <1>12, <3>2, <3>3, <3>4 DEF CancelStart
  <2>5. Known(j)
    BY <1>12 DEF CancelStart, CancelNoop, CancelTerminate, CancelUnowned, CancelStatus
  <2>6. CallSound(c)'
    <3>1. ASSUME j \notin procs[r], row[j].state \notin Terminal, owner[j] = r, sup[j] # "lost"
          PROVE  FALSE
      BY <2>5, <3>1, NobodyAssumption DEF Known, SupervisionInv, Supervised, OnItsWay, ProcessMapExact, Orphaned, SupStates
    <3> QED BY <2>1, <2>4, <2>5, <3>1 DEF CallSound, Known
  <2>7. CallInv'
    BY <2>1, <2>3, <2>6 DEF CallInv, CallSound, Exited
  <2> QED BY <2>2, <2>7
<1>13. ASSUME NEW c \in Calls, CancelWrite(c)
      PROVE  RunnerInv'
  <2>0. PICK j \in Jobs : j = call[c].job
    BY <1>13 DEF CancelWrite, Call, NoCall, ActiveCall
  <2>1. call[c] \in ActiveCall /\ call[c].pc # "idle" /\ call[c].progress = 0
    BY <1>13 DEF CancelWrite, Call, NoCall, ActiveCall, CallInv, CallSound
  <2>2. /\ row'[j].state = "cancelled" /\ row'[j].progress = 0
        /\ row'[j].error = row[j].error /\ row'[j].finished = "set"
        /\ \A k \in Jobs \ {j} : row'[k] = row[k]
    BY <1>13, <2>0, <2>1, SetStateEffect DEF CancelWrite, States, Terminal
  <2>3. UNCHANGED <<owner, sup, procs, worker>>
    BY <1>13 DEF CancelWrite, runnerVars, workerVars
  <2>4. sup[j] \notin {"inserted", "spawned", "abandoned"} /\ row[j].state # "absent"
    BY <2>0, <2>1 DEF CallInv, CallSound
  <2>5. SupervisionInv'
    <3>1. Supervised(j)'
      BY <2>2, <2>3, <2>4 DEF SupervisionInv, Supervised, OnItsWay, Exited, Terminal
    <3>2. ASSUME NEW k \in Jobs \ {j} PROVE Supervised(k)'
      BY <2>2, <2>3 DEF SupervisionInv, Supervised, OnItsWay, Exited
    <3> QED BY <3>1, <3>2 DEF SupervisionInv
  <2>6. CallSound(c)'
    <3>1. call[c].pc = "waiting" => Exited(j)
      BY <1>13, <2>0 DEF CancelWrite
    <3>2. call'[c].job = j /\ call'[c].runner = call[c].runner /\ call'[c].progress = 0
      BY <1>13, <2>0, <2>1 DEF CancelWrite, ActiveCall
    <3>3. call[c].pc \in {"waiting", "writing"}
      BY <1>13 DEF CancelWrite
    <3>4. owner[j] = call[c].runner /\ sup[j] # "lost" => Exited(j)
      BY <2>0, <2>1, <3>1, <3>3 DEF CallInv, CallSound
    <3> QED BY <2>2, <2>3, <2>4, <3>2, <3>4 DEF CallSound, Exited
  <2>7. CallInv'
    <3> SUFFICES ASSUME NEW d \in Calls, d # c PROVE CallSound(d)'
      BY <2>6 DEF CallInv
    <3>1. call'[d] = call[d] /\ CallSound(d)
      BY <1>13 DEF CancelWrite, CallInv
    <3> QED BY <1>a, <2>2, <2>3, <3>1 DEF CallSound, Exited
  <2>8. ColumnsAgree'
    <3>1. Coherent(j)'
      BY <2>1, <2>2 DEF Coherent, Terminal
    <3>2. ASSUME NEW k \in Jobs \ {j} PROVE Coherent(k)'
      BY <2>2 DEF ColumnsAgree, Coherent
    <3> QED BY <3>1, <3>2 DEF ColumnsAgree
  <2>9. ProcessMapExact'
    BY <1>13 DEF CancelWrite, runnerVars, workerVars, ProcessMapExact, Orphaned
  <2> QED BY <2>5, <2>7, <2>8, <2>9
<1>14. ASSUME NEW t \in Streams, NEW r \in Runners, NEW j \in Jobs, StreamOpen(t, r, j)
      PROVE  RunnerInv'
  BY <1>0, <1>14 DEF StreamOpen, dbVars, runnerVars, workerVars
<1>15. ASSUME NEW t \in Streams, StreamStep(t)
      PROVE  RunnerInv'
  BY <1>0, <1>15 DEF StreamStep, PollRows, PollState, Yield, StreamEnd, StreamAgain, dbVars, runnerVars, workerVars
<1>16. ASSUME NEW r \in Runners, Crash(r)
      PROVE  RunnerInv'
  <2>1. SupervisionInv'
    BY <1>16, NobodyAssumption DEF Crash, dbVars, workerVars, SupervisionInv, Supervised, OnItsWay, Exited, Terminal, Row, States
  <2>2. CallInv'
    BY <1>a, <1>16, NobodyAssumption DEF Crash, dbVars, workerVars, SupervisionInv, Supervised, OnItsWay, CallInv, CallSound, Exited
  <2>3. ProcessMapExact'
    BY <1>16, NobodyAssumption DEF Crash, dbVars, workerVars, SupervisionInv, Supervised, OnItsWay, ProcessMapExact, Orphaned
  <2>4. ColumnsAgree'
    BY <1>16 DEF Crash, dbVars, workerVars, ColumnsAgree, Coherent
  <2> QED BY <2>1, <2>2, <2>3, <2>4
<1>17. ASSUME NEW r \in Runners, Restart(r)
      PROVE  RunnerInv'
  BY <1>0, <1>17 DEF Restart, dbVars, workerVars
<1>18. CASE UNCHANGED vars
  BY <1>0, <1>18 DEF vars, dbVars, runnerVars, workerVars
<1> QED
  BY <1>1, <1>2, <1>3, <1>4, <1>5, <1>6, <1>7, <1>8, <1>9, <1>10, <1>11, <1>12, <1>13, <1>14, <1>15, <1>16, <1>17, <1>18 DEF Next, Launch, Supervise

(***************************************************************************)
(* Consuming one more line adds it to what must be published exactly when  *)
(* it is an event or a log line.                                           *)
(***************************************************************************)
LEMMA PublishableNext ==
  ASSUME NEW lines, NEW n \in Nat
  PROVE  /\ lines[n + 1] \in Published => Publishable(lines, n + 1) = Publishable(lines, n) \cup {n + 1}
         /\ lines[n + 1] \notin Published => Publishable(lines, n + 1) = Publishable(lines, n)
<1>1. 1 .. (n + 1) = (1 .. n) \cup {n + 1}
  OBVIOUS
<1> QED BY <1>1 DEF Publishable

(***************************************************************************)
(* An append adds one element, and keeps an increasing sequence so when    *)
(* the element is above all those of the sequence.                         *)
(***************************************************************************)
LEMMA AppendIncreasing ==
  ASSUME NEW s \in Seq(Nat), NEW n \in Nat
  PROVE  /\ Range(Append(s, n)) = Range(s) \cup {n}
         /\ Increasing(s) /\ Range(s) \subseteq 1 .. n /\ n + 1 \in Nat => Increasing(Append(s, n + 1))
<1>1. ASSUME NEW m \in Nat
      PROVE  /\ Append(s, m) \in Seq(Nat) /\ Len(Append(s, m)) = Len(s) + 1
             /\ Append(s, m)[Len(s) + 1] = m
             /\ \A i \in 1 .. Len(s) : Append(s, m)[i] = s[i]
  BY <1>1
<1>2. Range(Append(s, n)) = Range(s) \cup {n}
  BY <1>1 DEF Range
<1>3. ASSUME Increasing(s), Range(s) \subseteq 1 .. n
      PROVE  Increasing(Append(s, n + 1))
  <2>1. \A i \in 1 .. Len(s) : s[i] \in 1 .. n
    BY <1>3 DEF Range
  <2> QED BY <1>1, <1>3, <2>1 DEF Increasing
<1> QED BY <1>2, <1>3

(***************************************************************************)
(* Every step keeps LogInv.                                                *)
(***************************************************************************)
LEMMA LogStep == TypeOK /\ TypeOK' /\ RunnerInv /\ LogInv /\ [Next]_vars => LogInv'
<1> SUFFICES ASSUME TypeOK, TypeOK', RunnerInv, LogInv, [Next]_vars
             PROVE  LogInv'
  OBVIOUS
<1> USE DEF TypeOK
<1>0. ASSUME NEW k \in Jobs, UNCHANGED <<read[k], out[k], log[k]>>,
             sup'[k] \in {"waited", "done"} => sup[k] \in {"waited", "done"},
             worker[k] \in {"ok", "bad"} => worker'[k] = worker[k]
      PROVE  Drained(k)'
  BY <1>0 DEF LogInv, Drained, Exited
<1>1. ASSUME NEW r \in Runners, NEW j \in Jobs, Submit(r, j) \/ SubmitWithProcess(r, j)
      PROVE  LogInv'
  BY <1>0, <1>1 DEF Submit, SubmitWithProcess, runnerVars, workerVars, LogInv
<1>2. ASSUME NEW j \in Jobs, Launch(j)
      PROVE  LogInv'
  <2>1. CASE Popen(j)
    BY <1>0, <2>1 DEF Popen, dbVars, RunnerInv, SupervisionInv, Supervised, LogInv
  <2>2. CASE PopenFails(j)
    BY <1>0, <2>2 DEF PopenFails, dbVars, workerVars, LogInv
  <2>3. CASE MarkRunning(j)
    BY <1>0, <2>3 DEF MarkRunning, workerVars, LogInv
  <2> QED BY <1>2, <2>1, <2>2, <2>3 DEF Launch
<1>3. ASSUME NEW j \in Jobs, WorkerStderr(j) \/ WorkerExit(j)
      PROVE  LogInv'
  <2>1. UNCHANGED <<read, out, log, sup>>
    BY <1>3 DEF WorkerStderr, WorkerExit, dbVars, runnerVars
  <2>2. \A k \in Jobs : worker[k] \in {"ok", "bad"} => worker'[k] = worker[k]
    BY <1>3 DEF WorkerStderr, WorkerExit
  <2> QED BY <1>0, <2>1, <2>2 DEF LogInv
<1>4. ASSUME NEW j \in Jobs, WorkerPrint(j)
      PROVE  LogInv'
  <2>1. UNCHANGED <<read, log, sup, worker>> /\ worker[j] = "alive"
    BY <1>4 DEF WorkerPrint, dbVars, runnerVars
  <2>2. PICK class \in Lines : out' = [out EXCEPT ![j] = Append(out[j], class)]
    BY <1>4 DEF WorkerPrint
  <2>3. Len(out'[j]) = Len(out[j]) + 1 /\ \A i \in 1 .. Len(out[j]) : out'[j][i] = out[j][i]
    BY <2>2
  <2>4. Drained(j) /\ sup[j] \notin {"waited", "done"}
    BY <2>1 DEF LogInv, Drained, Exited
  <2>5. read[j] \in 0 .. Len(out[j])
    BY <2>4 DEF Drained
  <2>6. Publishable(out'[j], read[j]) = Publishable(out[j], read[j])
    <3>1. \A k \in 1 .. read[j] : out'[j][k] = out[j][k]
      BY <2>3, <2>5
    <3> QED BY <3>1 DEF Publishable
  <2>7. Drained(j)'
    BY <2>1, <2>3, <2>4, <2>5, <2>6 DEF Drained, Carries
  <2>8. ASSUME NEW k \in Jobs \ {j} PROVE Drained(k)'
    BY <1>0, <2>1, <2>2
  <2> QED BY <2>7, <2>8 DEF LogInv
<1>5. ASSUME NEW j \in Jobs, TakeLine(j), UNCHANGED <<out, worker>>,
             sup'[j] \notin {"waited", "done"},
             \A k \in Jobs \ {j} : sup'[k] = sup[k] /\ log'[k] = log[k],
             \/ NextLine(j) \notin Published /\ log'[j] = log[j]
             \/ NextLine(j) \in Published /\ log'[j] = Append(log[j], read[j] + 1)
      PROVE  LogInv'
  <2>1. read[j] \in Nat /\ read[j] < Len(out[j]) /\ read' = [read EXCEPT ![j] = read[j] + 1]
    BY <1>5 DEF TakeLine
  <2>2. Carries(log[j], out[j], read[j])
    BY DEF LogInv, Drained
  <2>3. Carries(log'[j], out[j], read[j] + 1)
    <3>1. CASE NextLine(j) \notin Published
      BY <1>5, <2>1, <2>2, <3>1, PublishableNext DEF Carries, NextLine
    <3>2. CASE NextLine(j) \in Published
      <4>1. log'[j] = Append(log[j], read[j] + 1)
        BY <1>5, <3>2
      <4>2. Range(log[j]) \subseteq 1 .. read[j]
        BY <2>2 DEF Carries, Publishable
      <4>3. Increasing(log'[j])
        BY <2>1, <2>2, <4>1, <4>2, AppendIncreasing DEF Carries
      <4>4. Range(log'[j]) = Range(log[j]) \cup {read[j] + 1}
        BY <2>1, <4>1, AppendIncreasing
      <4>5. Publishable(out[j], read[j] + 1) = Publishable(out[j], read[j]) \cup {read[j] + 1}
        BY <2>1, <3>2, PublishableNext DEF NextLine
      <4> QED BY <2>2, <4>3, <4>4, <4>5 DEF Carries
    <3> QED BY <3>1, <3>2
  <2>4. Drained(j)'
    BY <1>5, <2>1, <2>3 DEF Drained
  <2>5. ASSUME NEW k \in Jobs \ {j} PROVE Drained(k)'
    BY <1>0, <1>5, <2>1
  <2> QED BY <2>4, <2>5 DEF LogInv
<1>6. ASSUME NEW j \in Jobs, AppendEvent(j)
      PROVE  LogInv'
  BY <1>5, <1>6 DEF AppendEvent, TakeLine, runnerVars, workerVars
<1>7. ASSUME NEW j \in Jobs, SkipLine(j) \/ ChokeOnLine(j)
      PROVE  LogInv'
  BY <1>5, <1>7 DEF SkipLine, ChokeOnLine, TakeLine, Published, dbVars, runnerVars, workerVars
<1>8. ASSUME NEW j \in Jobs, DrainEof(j)
      PROVE  LogInv'
  <2>1. Drained(j)'
    BY <1>8 DEF DrainEof, dbVars, workerVars, LogInv, Drained, Exited
  <2>2. ASSUME NEW k \in Jobs \ {j} PROVE Drained(k)'
    BY <1>0, <1>8 DEF DrainEof, dbVars, workerVars
  <2> QED BY <2>1, <2>2 DEF LogInv
<1>9. ASSUME NEW j \in Jobs, Finish(j) \/ FinishExcept(j)
      PROVE  LogInv'
  BY <1>0, <1>9 DEF Finish, FinishExcept, workerVars, LogInv
<1>10. ASSUME NEW c \in Calls, NEW r \in Runners, NEW j \in Jobs, CancelStart(c, r, j)
       PROVE  LogInv'
  BY <1>0, <1>10
     DEF CancelStart, CancelNoop, CancelTerminate, CancelUnowned, dbVars, runnerVars, workerVars, LogInv
<1>11. ASSUME NEW c \in Calls, CancelWrite(c)
       PROVE  LogInv'
  BY <1>0, <1>11 DEF CancelWrite, runnerVars, workerVars, LogInv
<1>12. ASSUME NEW t \in Streams, NEW r \in Runners, NEW j \in Jobs, StreamOpen(t, r, j)
       PROVE  LogInv'
  BY <1>0, <1>12 DEF StreamOpen, dbVars, runnerVars, workerVars, LogInv
<1>13. ASSUME NEW t \in Streams, StreamStep(t)
       PROVE  LogInv'
  BY <1>0, <1>13
     DEF StreamStep, PollRows, PollState, Yield, StreamEnd, StreamAgain, dbVars, runnerVars, workerVars, LogInv
<1>14. ASSUME NEW r \in Runners, Crash(r) \/ Restart(r)
       PROVE  LogInv'
  BY <1>0, <1>14 DEF Crash, Restart, dbVars, workerVars, LogInv
<1>15. CASE UNCHANGED vars
  BY <1>0, <1>15 DEF vars, dbVars, runnerVars, workerVars, LogInv
<1> QED
  BY <1>1, <1>2, <1>3, <1>4, <1>6, <1>7, <1>8, <1>9, <1>10, <1>11, <1>12, <1>13, <1>14, <1>15
     DEF Next, Work, Supervise

(***************************************************************************)
(* The three ways a poll moves on: the log grows, the rows are read from   *)
(* the cursor on, the first row is handed over.                            *)
(***************************************************************************)
LEMMA ConsecutiveGrow ==
  ASSUME NEW a \in Seq(Nat), NEW b \in Seq(Nat), NEW s \in Seq(Nat), NEW e \in Nat,
         Consecutive(a, b, s)
  PROVE  Consecutive(a, b, Append(s, e))
<1> DEFINE s2 == Append(s, e)
<1>1. Len(s2) = Len(s) + 1 /\ \A i \in 1 .. Len(s) : s2[i] = s[i]
  OBVIOUS
<1> HIDE DEF s2
<1>2. Len(a) \in Nat /\ Len(b) \in Nat /\ Len(s) \in Nat
  OBVIOUS
<1>3. Consecutive(a, b, s2)
  <2>1. Len(a) + Len(b) <= Len(s2)
    BY <1>1, <1>2 DEF Consecutive
  <2>2. ASSUME NEW i \in 1 .. Len(a) PROVE a[i] = s2[i]
    BY <1>1, <1>2 DEF Consecutive
  <2>3. ASSUME NEW i \in 1 .. Len(b) PROVE b[i] = s2[Len(a) + i]
    <3>1. Len(a) + i \in 1 .. Len(s)
      BY <1>2 DEF Consecutive
    <3> QED BY <1>1, <3>1 DEF Consecutive
  <2> QED BY <2>1, <2>2, <2>3 DEF Consecutive
<1> QED BY <1>3 DEF s2

LEMMA ConsecutiveRefill ==
  ASSUME NEW a \in Seq(Nat), NEW b \in Seq(Nat), NEW s \in Seq(Nat), Consecutive(a, b, s)
  PROVE  /\ Consecutive(a, SubSeq(s, Len(a) + 1, Len(s)), s)
         /\ Len(a) + Len(SubSeq(s, Len(a) + 1, Len(s))) = Len(s)
<1>1. PICK k \in Nat, n \in Nat : k = Len(a) /\ n = Len(s) /\ k <= n
  BY DEF Consecutive
<1>2. /\ Len(SubSeq(s, k + 1, n)) = n - k
      /\ \A i \in 1 .. n - k : SubSeq(s, k + 1, n)[i] = s[k + i]
  BY <1>1
<1> QED BY <1>1, <1>2 DEF Consecutive

LEMMA ConsecutiveMove ==
  ASSUME NEW a \in Seq(Nat), NEW b \in Seq(Nat), NEW s \in Seq(Nat), b # <<>>,
         Consecutive(a, b, s)
  PROVE  /\ Consecutive(Append(a, Head(b)), Tail(b), s)
         /\ Len(Append(a, Head(b))) = Len(a) + 1 /\ Len(Tail(b)) = Len(b) - 1
<1>1. PICK k \in Nat, n \in Nat : k = Len(a) /\ n = Len(b) /\ n > 0
  OBVIOUS
<1>2. Head(b) = b[1] /\ Head(b) \in Nat
  BY <1>1
<1>3. PICK h \in Nat : h = b[1] /\ h = Head(b)
  BY <1>2
<1>4. Len(Append(a, h)) = k + 1 /\ Append(a, h)[k + 1] = h
      /\ \A i \in 1 .. k : Append(a, h)[i] = a[i]
  BY <1>1
<1>5. Len(Tail(b)) = n - 1 /\ \A i \in 1 .. n - 1 : Tail(b)[i] = b[i + 1]
  BY <1>1
<1>6. \A i \in 1 .. k + 1 : Append(a, h)[i] = s[i]
  <2>0. 1 \in 1 .. n
    BY <1>1
  <2>1. s[k + 1] = h /\ \A i \in 1 .. k : a[i] = s[i]
    BY <1>1, <1>3, <2>0 DEF Consecutive
  <2>2. \A i \in 1 .. k + 1 : i = k + 1 \/ i \in 1 .. k
    BY <1>1
  <2> QED BY <1>4, <2>1, <2>2
<1>7. ASSUME NEW i \in 1 .. n - 1 PROVE Tail(b)[i] = s[k + 1 + i]
  <2>1. i + 1 \in 1 .. n /\ k + (i + 1) = k + 1 + i
    BY <1>1
  <2> QED BY <1>1, <1>5, <2>1 DEF Consecutive
<1>8. Consecutive(Append(a, h), Tail(b), s)
  <2>1. (k + 1) + (n - 1) <= Len(s)
    BY <1>1 DEF Consecutive
  <2> QED BY <1>4, <1>5, <1>6, <1>7, <2>1 DEF Consecutive
<1> QED BY <1>1, <1>3, <1>4, <1>5, <1>8

(***************************************************************************)
(* Every step keeps StreamInv.                                             *)
(***************************************************************************)
LEMMA StreamInvStep == TypeOK /\ TypeOK' /\ RunnerInv /\ StreamInv /\ [Next]_vars => StreamInv'
<1> SUFFICES ASSUME TypeOK, TypeOK', RunnerInv, StreamInv, [Next]_vars
             PROVE  StreamInv'
  OBVIOUS
<1> USE DEF TypeOK
<1>a. \A t \in Streams : stream[t].pc # "idle" => stream[t].job \in Jobs /\ stream[t] \in ActiveStream
  BY DEF Stream, NoStream, ActiveStream
<1>0. ASSUME UNCHANGED <<stream, log>>,
             \A j \in Jobs : sup[j] \in {"done", "broken"} => sup'[j] \in {"done", "broken"}
      PROVE  StreamInv'
  BY <1>a, <1>0 DEF StreamInv, StreamSound, Streaming
<1>1. ASSUME NEW r \in Runners, NEW j \in Jobs, Submit(r, j)
      PROVE  StreamInv'
  BY <1>0, <1>1 DEF Submit, runnerVars
<1>2. ASSUME NEW r \in Runners, NEW j \in Jobs, SubmitWithProcess(r, j)
      PROVE  StreamInv'
  <2>1. sup[j] \notin {"done", "broken"}
    BY <1>2 DEF SubmitWithProcess, InsertQueued, RunnerInv, SupervisionInv, Supervised, Terminal
  <2> QED BY <1>0, <1>2, <2>1 DEF SubmitWithProcess
<1>3. ASSUME NEW j \in Jobs, Launch(j)
      PROVE  StreamInv'
  BY <1>0, <1>3 DEF Launch, Popen, PopenFails, MarkRunning, dbVars
<1>4. ASSUME NEW j \in Jobs, Work(j)
      PROVE  StreamInv'
  BY <1>0, <1>4 DEF Work, WorkerPrint, WorkerStderr, WorkerExit, dbVars, runnerVars
<1>5. ASSUME NEW j \in Jobs, AppendEvent(j)
      PROVE  StreamInv'
  <2>1. sup[j] = "draining" /\ DbFree /\ UNCHANGED <<sup, stream>>
    BY <1>5 DEF AppendEvent, TakeLine, runnerVars
  <2>2. log' = [log EXCEPT ![j] = Append(log[j], read[j] + 1)] /\ read[j] + 1 \in Nat
    BY <1>5 DEF AppendEvent
  <2> SUFFICES ASSUME NEW t \in Streams, stream[t].pc # "idle"
               PROVE  Streaming(stream[t], sup[stream[t].job], log'[stream[t].job])
    BY <2>1 DEF StreamInv, StreamSound
  <2>4. CASE stream[t].job # j
    BY <1>a, <2>2, <2>4 DEF StreamInv, StreamSound
  <2>5. CASE stream[t].job = j
    <3>1. Streaming(stream[t], sup[j], log[j])
      BY <2>5 DEF StreamInv, StreamSound
    <3>2. stream[t].got \in Seq(Nat) /\ stream[t].rows \in Seq(Nat)
      BY <1>a DEF ActiveStream
    <3>3. HoldsPrefix(stream[t], log'[j])
      BY <2>2, <3>1, <3>2, ConsecutiveGrow DEF Streaming, HoldsPrefix
    <3>4. stream[t].pc # "polled"
      BY <2>1 DEF DbFree
    <3> QED BY <2>1, <2>5, <3>1, <3>3, <3>4 DEF Streaming
  <2> QED BY <2>4, <2>5
<1>6. ASSUME NEW j \in Jobs, SkipLine(j)
      PROVE  StreamInv'
  BY <1>0, <1>6 DEF SkipLine, dbVars, runnerVars
<1>7. ASSUME NEW j \in Jobs, ChokeOnLine(j) \/ DrainEof(j) \/ Finish(j) \/ FinishExcept(j)
      PROVE  StreamInv'
  BY <1>0, <1>7 DEF ChokeOnLine, TakeLine, DrainEof, Finish, FinishExcept, dbVars
<1>8. ASSUME NEW c \in Calls, NEW r \in Runners, NEW j \in Jobs, CancelStart(c, r, j)
      PROVE  StreamInv'
  BY <1>0, <1>8 DEF CancelStart, CancelNoop, CancelTerminate, CancelUnowned, dbVars, runnerVars
<1>9. ASSUME NEW c \in Calls, CancelWrite(c)
      PROVE  StreamInv'
  BY <1>0, <1>9 DEF CancelWrite, runnerVars
<1>10. ASSUME NEW t \in Streams, UNCHANGED <<log, sup>>,
              \A u \in Streams \ {t} : stream'[u] = stream[u],
              Streaming(stream'[t], sup[stream'[t].job], log[stream'[t].job])
       PROVE  StreamInv'
  BY <1>10 DEF StreamInv, StreamSound
<1>11. ASSUME NEW t \in Streams, NEW r \in Runners, NEW j \in Jobs, StreamOpen(t, r, j)
       PROVE  StreamInv'
  <2>1. /\ stream'[t].pc = "poll" /\ stream'[t].job = j /\ stream'[t].last = 0
        /\ stream'[t].rows = <<>> /\ stream'[t].got = <<>>
    BY <1>11 DEF StreamOpen, NoStream
  <2>2. Consecutive(<<>>, <<>>, log[j])
    BY DEF Consecutive
  <2>3. Streaming(stream'[t], sup[j], log[j])
    BY <2>1, <2>2 DEF Streaming, HoldsPrefix
  <2> QED BY <1>10, <1>11, <2>1, <2>3 DEF StreamOpen, dbVars, runnerVars
<1>12. ASSUME NEW t \in Streams, StreamStep(t)
       PROVE  StreamInv'
  <2>1. /\ stream[t].pc # "idle"
        /\ UNCHANGED <<log, sup>>
        /\ \A u \in Streams \ {t} : stream'[u] = stream[u]
    BY <1>12 DEF StreamStep, PollRows, PollState, Yield, StreamEnd, StreamAgain, dbVars, runnerVars
  <2>2. PICK x \in ActiveStream, s \in Seq(Nat) :
          x = stream[t] /\ x.job \in Jobs /\ s = log[x.job] /\ Streaming(x, sup[x.job], s)
    BY <1>a, <2>1 DEF StreamInv, StreamSound
  <2>3. /\ x.last \in Nat /\ x.rows \in Seq(Nat) /\ x.got \in Seq(Nat)
        /\ x.last = Len(x.got) /\ Consecutive(x.got, x.rows, s)
    BY <2>2 DEF ActiveStream, Streaming, HoldsPrefix
  <2>0. ASSUME stream'[t].job = x.job, Streaming(stream'[t], sup[x.job], s)
        PROVE  StreamInv'
    BY <1>10, <2>0, <2>1, <2>2
  <2>4. CASE PollRows(t)
    <3> DEFINE rows == SubSeq(s, Len(x.got) + 1, Len(s))
    <3>1. stream'[t] = [x EXCEPT !.pc = "polled", !.rows = rows]
      BY <2>2, <2>3, <2>4 DEF PollRows, NewRows
    <3>2. Consecutive(x.got, rows, s) /\ Len(x.got) + Len(rows) = Len(s)
      BY <2>3, ConsecutiveRefill
    <3> HIDE DEF rows
    <3>3. /\ stream'[t].pc = "polled" /\ stream'[t].rows = rows /\ stream'[t].got = x.got
          /\ stream'[t].last = x.last /\ stream'[t].job = x.job
      BY <3>1 DEF ActiveStream
    <3>4. Streaming(stream'[t], sup[x.job], s)
      BY <2>3, <3>2, <3>3 DEF Streaming, HoldsPrefix, HoldsAll
    <3> QED BY <2>0, <3>3, <3>4
  <2>5. CASE PollState(t)
    <3>1. stream'[t] = [x EXCEPT !.pc = "deliver", !.seen = row[x.job].state] /\ x.pc = "polled"
      BY <2>2, <2>5 DEF PollState
    <3>2. row[x.job].state \in {"succeeded", "failed"} => sup[x.job] \in {"done", "broken"}
      BY <2>2 DEF RunnerInv, SupervisionInv, Supervised
    <3>3. /\ stream'[t].pc = "deliver" /\ stream'[t].seen = row[x.job].state
          /\ stream'[t].rows = x.rows /\ stream'[t].got = x.got
          /\ stream'[t].last = x.last /\ stream'[t].job = x.job
      BY <3>1 DEF ActiveStream
    <3>4. Streaming(stream'[t], sup[x.job], s)
      BY <2>2, <3>1, <3>2, <3>3 DEF Streaming, HoldsPrefix, HoldsAll
    <3> QED BY <2>0, <3>3, <3>4
  <2>6. CASE Yield(t)
    <3>1. /\ x.pc = "deliver" /\ x.rows # <<>>
          /\ stream'[t] = [x EXCEPT !.got = Append(x.got, Head(x.rows)), !.rows = Tail(x.rows),
                                    !.last = x.last + 1]
      BY <2>2, <2>6 DEF Yield
    <3> DEFINE got == Append(x.got, Head(x.rows))
               rows == Tail(x.rows)
    <3>2. stream'[t] = [x EXCEPT !.got = got, !.rows = rows, !.last = x.last + 1]
      BY <3>1
    <3>3. Consecutive(got, rows, s) /\ Len(got) = Len(x.got) + 1 /\ Len(rows) = Len(x.rows) - 1
      BY <2>3, <3>1, ConsecutiveMove
    <3> HIDE DEF got, rows
    <3>4. /\ stream'[t].pc = "deliver" /\ stream'[t].seen = x.seen
          /\ stream'[t].rows = rows /\ stream'[t].got = got
          /\ stream'[t].last = x.last + 1 /\ stream'[t].job = x.job
      BY <3>1, <3>2 DEF ActiveStream
    <3>5. HoldsAll(x, s) => HoldsAll(stream'[t], s)
      <4>1. \A m, n \in Nat : (m + 1) + (n - 1) = m + n
        OBVIOUS
      <4>2. Len(x.rows) \in Nat /\ x.last \in Nat
        BY <2>3
      <4>3. (x.last + 1) + (Len(x.rows) - 1) = x.last + Len(x.rows)
        BY <4>1, <4>2, Zenon
      <4> QED BY <3>3, <3>4, <4>3 DEF HoldsAll
    <3>6. HoldsPrefix(stream'[t], s)
      BY <2>3, <3>3, <3>4 DEF HoldsPrefix
    <3>7. Streaming(stream'[t], sup[x.job], s)
      BY <2>2, <3>1, <3>4, <3>5, <3>6 DEF Streaming
    <3> QED BY <2>0, <3>4, <3>7
  <2>7. CASE StreamEnd(t) \/ StreamAgain(t)
    <3>1. /\ x.pc = "deliver" /\ x.rows = <<>>
          /\ \E pc \in {"ended", "poll"} : stream'[t] = [x EXCEPT !.pc = pc]
      BY <2>2, <2>7 DEF StreamEnd, StreamAgain
    <3>2. /\ stream'[t].pc \in {"ended", "poll"} /\ stream'[t].seen = x.seen
          /\ stream'[t].rows = x.rows /\ stream'[t].got = x.got
          /\ stream'[t].last = x.last /\ stream'[t].job = x.job
      BY <3>1 DEF ActiveStream
    <3>3. Streaming(stream'[t], sup[x.job], s)
      BY <2>2, <3>1, <3>2 DEF Streaming, HoldsPrefix, HoldsAll
    <3> QED BY <2>0, <3>2, <3>3
  <2> QED BY <1>12, <2>4, <2>5, <2>6, <2>7 DEF StreamStep
<1>13. ASSUME NEW r \in Runners, Crash(r)
       PROVE  StreamInv'
  <2>1. UNCHANGED log /\ \A j \in Jobs : sup[j] \in {"done", "broken"} => sup'[j] = sup[j]
    BY <1>13 DEF Crash, dbVars
  <2> SUFFICES ASSUME NEW t \in Streams, stream'[t].pc # "idle"
               PROVE  Streaming(stream'[t], sup'[stream'[t].job], log[stream'[t].job])
    BY <2>1 DEF StreamInv, StreamSound
  <2>2. \/ stream'[t] = stream[t]
        \/ stream'[t] = [stream[t] EXCEPT !.pc = "lost"] /\ stream[t].pc # "idle"
    BY <1>13 DEF Crash
  <2>3. stream[t].pc # "idle" /\ stream[t] \in ActiveStream /\ stream[t].job \in Jobs
    BY <1>a, <2>2
  <2>4. Streaming(stream[t], sup[stream[t].job], log[stream[t].job])
    BY <2>3 DEF StreamInv, StreamSound
  <2>5. /\ stream'[t].pc \in {stream[t].pc, "lost"} /\ stream'[t].seen = stream[t].seen
        /\ stream'[t].rows = stream[t].rows /\ stream'[t].got = stream[t].got
        /\ stream'[t].last = stream[t].last /\ stream'[t].job = stream[t].job
    <3>1. CASE stream'[t] = stream[t]
      BY <3>1
    <3>2. CASE stream'[t] = [stream[t] EXCEPT !.pc = "lost"]
      BY <2>3, <3>2 DEF ActiveStream
    <3> QED BY <2>2, <3>1, <3>2
  <2> QED BY <2>1, <2>3, <2>4, <2>5 DEF Streaming, HoldsPrefix, HoldsAll
<1>14. ASSUME NEW r \in Runners, Restart(r)
       PROVE  StreamInv'
  BY <1>0, <1>14 DEF Restart, dbVars
<1>15. CASE UNCHANGED vars
  BY <1>0, <1>15 DEF vars, dbVars, runnerVars
<1> QED
  BY <1>1, <1>2, <1>3, <1>4, <1>5, <1>6, <1>7, <1>8, <1>9, <1>11, <1>12, <1>13, <1>14, <1>15
     DEF Next, Supervise

(***************************************************************************)
(* A job that somebody began to cancel stays so: calls are never reused.   *)
(***************************************************************************)
LEMMA CancelledStays ==
  ASSUME TypeOK, [Next]_vars, NEW j \in Jobs, Cancelled(j)
  PROVE  Cancelled(j)'
<1>1. PICK c \in Calls : call[c].job = j /\ call[c].pc # "noop"
  BY DEF Cancelled
<1>2. call[c] \in ActiveCall /\ call \in [Calls -> Call]
  BY <1>1, NobodyAssumption DEF TypeOK, Call, NoCall
<1>3. call[c].pc # "idle"
  BY <1>2 DEF ActiveCall
<1> SUFFICES call'[c].job = j /\ call'[c].pc # "noop"
  BY DEF Cancelled
<1>4. ASSUME NEW d \in Calls, NEW r \in Runners, NEW k \in Jobs, CancelStart(d, r, k)
      PROVE  call'[c] = call[c]
  BY <1>2, <1>3, <1>4 DEF CancelStart, CancelNoop, CancelTerminate, CancelUnowned, CancelStatus
<1>5. ASSUME NEW d \in Calls, CancelWrite(d)
      PROVE  call'[c].job = j /\ call'[c].pc # "noop"
  BY <1>1, <1>2, <1>5 DEF CancelWrite, ActiveCall
<1>6. ASSUME NEW r \in Runners, Crash(r)
      PROVE  call'[c].job = j /\ call'[c].pc # "noop"
  <2>1. call'[c] \in {call[c], [call[c] EXCEPT !.pc = "lost"]}
    BY <1>6 DEF Crash
  <2> QED BY <1>1, <1>2, <2>1 DEF ActiveCall
<1>7. ASSUME UNCHANGED call
      PROVE  call'[c].job = j /\ call'[c].pc # "noop"
  BY <1>1, <1>7
<1>8. ASSUME NEW k \in Jobs, Launch(k) \/ Work(k) \/ Supervise(k)
      PROVE  UNCHANGED call
  BY <1>8 DEF Launch, Popen, PopenFails, MarkRunning, Work, WorkerPrint, WorkerStderr, WorkerExit,
              Supervise, AppendEvent, SkipLine, ChokeOnLine, DrainEof, Finish, FinishExcept
<1>9. ASSUME NEW t \in Streams, StreamStep(t)
      PROVE  UNCHANGED call
  BY <1>9 DEF StreamStep, PollRows, PollState, Yield, StreamEnd, StreamAgain
<1> QED
  BY <1>1, <1>4, <1>5, <1>6, <1>7, <1>8, <1>9
     DEF Next, Submit, SubmitWithProcess, StreamOpen, Restart, vars

(***************************************************************************)
(* A row that says "cancelled" was written by one of the calls.            *)
(***************************************************************************)
LEMMA CancelledRowStep ==
  ASSUME TypeOK, CauseInv, [Next]_vars, NEW k \in Jobs, row'[k].state = "cancelled"
  PROVE  Cancelled(k)'
<1>0. row \in [Jobs -> Row]
  BY DEF TypeOK
<1>1. ASSUME row[k].state = "cancelled"
      PROVE  Cancelled(k)'
  BY <1>1, CancelledStays DEF CauseInv, Caused
<1>2. ASSUME NEW c \in Calls, CancelWrite(c)
      PROVE  row[k].state = "cancelled" \/ Cancelled(k)'
  <2>1. call[c] \in ActiveCall /\ call \in [Calls -> Call]
    BY <1>2 DEF CancelWrite, TypeOK, Call, NoCall
  <2>2. call[c].job \in Jobs /\ call[c].progress \in {0, 1}
    BY <2>1 DEF ActiveCall
  <2>3. \A j \in Jobs \ {call[c].job} : row'[j] = row[j]
    BY <1>0, <1>2, <2>2, SetStateEffect DEF CancelWrite, States, Terminal
  <2>4. call'[c].job = call[c].job /\ call'[c].pc = "done"
    BY <1>2, <2>1 DEF CancelWrite, ActiveCall
  <2> QED BY <2>3, <2>4 DEF Cancelled
<1>3. ASSUME NEW j \in Jobs, NEW state \in States \ {"cancelled"}, NEW progress \in {0, 1},
             SetState(j, state, progress)
      PROVE  row[k].state = "cancelled"
  BY <1>0, <1>3, SetStateEffect
<1>4. ASSUME NEW j \in Jobs, SetFailed(j)
      PROVE  row[k].state = "cancelled"
  BY <1>0, <1>4, SetFailedEffect
<1>5. ASSUME NEW j \in Jobs, InsertQueued(j)
      PROVE  row[k].state = "cancelled"
  BY <1>0, <1>5 DEF InsertQueued, Row
<1>6. ASSUME NEW j \in Jobs, Launch(j) \/ Work(j) \/ Supervise(j)
      PROVE  row[k].state = "cancelled"
  <2>1. CASE MarkRunning(j)
    BY <1>3, <2>1 DEF MarkRunning, States
  <2>2. CASE Finish(j)
    BY <1>3, <1>4, <2>2 DEF Finish, States, Terminal
  <2>3. CASE FinishExcept(j)
    BY <1>4, <2>3 DEF FinishExcept
  <2>4. CASE UNCHANGED row
    BY <2>4
  <2> QED BY <1>6, <2>1, <2>2, <2>3, <2>4
             DEF Launch, Popen, PopenFails, Work, WorkerPrint, WorkerStderr, WorkerExit,
                 Supervise, AppendEvent, SkipLine, ChokeOnLine, DrainEof, dbVars
<1>7. ASSUME NEW c \in Calls, NEW r \in Runners, NEW j \in Jobs, CancelStart(c, r, j)
      PROVE  UNCHANGED row
  BY <1>7 DEF CancelStart, CancelNoop, CancelTerminate, CancelUnowned, dbVars
<1>8. ASSUME NEW t \in Streams, StreamStep(t)
      PROVE  UNCHANGED row
  BY <1>8 DEF StreamStep, PollRows, PollState, Yield, StreamEnd, StreamAgain, dbVars
<1> QED
  BY <1>1, <1>2, <1>5, <1>6, <1>7, <1>8
     DEF Next, Submit, SubmitWithProcess, StreamOpen, Crash, Restart, dbVars, vars

(***************************************************************************)
(* What made a job fail stays: a worker that exited badly did, and a line  *)
(* that was read was read.                                                 *)
(***************************************************************************)
LEMMA MetBadLineStays ==
  ASSUME TypeOK, LogInv, [Next]_vars, NEW j \in Jobs, MetBadLine(j)
  PROVE  MetBadLine(j)'
<1>1. PICK k \in 1 .. read[j] : out[j][k] = "choking"
  BY DEF MetBadLine
<1>2. /\ out \in [Jobs -> Seq(Lines)] /\ read \in [Jobs -> Nat]
      /\ read[j] <= Len(out[j]) /\ k \in 1 .. Len(out[j])
  BY <1>1 DEF TypeOK, LogInv, Drained
<1>3. ASSUME NEW i \in Jobs, WorkerPrint(i)
      PROVE  read' = read /\ out'[j][k] = out[j][k]
  BY <1>2, <1>3 DEF WorkerPrint
<1>4. ASSUME NEW i \in Jobs, TakeLine(i)
      PROVE  k \in 1 .. read'[j]
  BY <1>1, <1>2, <1>4 DEF TakeLine
<1>5. ASSUME NEW i \in Jobs, Launch(i) \/ Work(i) \/ Supervise(i)
      PROVE  MetBadLine(j)'
  <2>1. CASE WorkerPrint(i)
    BY <1>1, <1>3, <2>1 DEF MetBadLine
  <2>2. CASE TakeLine(i) /\ UNCHANGED out
    BY <1>1, <1>4, <2>2 DEF MetBadLine
  <2>3. CASE UNCHANGED <<out, read>>
    BY <2>3 DEF MetBadLine
  <2> QED BY <1>5, <2>1, <2>2, <2>3
             DEF Launch, Popen, PopenFails, MarkRunning, Work, WorkerStderr, WorkerExit, Supervise,
                 AppendEvent, SkipLine, ChokeOnLine, DrainEof, Finish, FinishExcept, workerVars
<1>6. ASSUME NEW c \in Calls, NEW r \in Runners, NEW i \in Jobs, CancelStart(c, r, i)
      PROVE  UNCHANGED <<out, read>>
  BY <1>6 DEF CancelStart, CancelNoop, CancelTerminate, CancelUnowned, workerVars
<1>7. ASSUME NEW t \in Streams, StreamStep(t)
      PROVE  UNCHANGED <<out, read>>
  BY <1>7 DEF StreamStep, PollRows, PollState, Yield, StreamEnd, StreamAgain, workerVars
<1>8. ASSUME UNCHANGED <<out, read>>
      PROVE  MetBadLine(j)'
  BY <1>8 DEF MetBadLine
<1> QED
  BY <1>5, <1>6, <1>7, <1>8
     DEF Next, Submit, SubmitWithProcess, CancelWrite, StreamOpen, Crash, Restart, workerVars, vars

LEMMA DidFailStays ==
  ASSUME TypeOK, RunnerInv, LogInv, [Next]_vars, NEW j \in Jobs, DidFail(j)
  PROVE  DidFail(j)'
<1>1. CASE MetBadLine(j)
  BY <1>1, MetBadLineStays DEF DidFail
<1>2. CASE worker[j] = "bad"
  <2>1. ASSUME NEW i \in Jobs, Popen(i)
        PROVE  i # j /\ worker'[j] = worker[j]
    BY <1>2, <2>1 DEF Popen, RunnerInv, SupervisionInv, Supervised, TypeOK
  <2>2. ASSUME NEW i \in Jobs, Launch(i) \/ Work(i) \/ Supervise(i)
        PROVE  worker'[j] = "bad"
    <3>1. CASE WorkerStderr(i) \/ WorkerExit(i)
      BY <1>2, <3>1 DEF WorkerStderr, WorkerExit, TypeOK
    <3>2. CASE Popen(i)
      BY <1>2, <2>1, <3>2
    <3>3. CASE UNCHANGED worker
      BY <1>2, <3>3
    <3> QED BY <2>2, <3>1, <3>2, <3>3
               DEF Launch, PopenFails, MarkRunning, Work, WorkerPrint, Supervise, AppendEvent,
                   SkipLine, ChokeOnLine, DrainEof, Finish, FinishExcept, workerVars
  <2>3. ASSUME NEW c \in Calls, NEW r \in Runners, NEW i \in Jobs, CancelStart(c, r, i)
        PROVE  UNCHANGED worker
    BY <2>3 DEF CancelStart, CancelNoop, CancelTerminate, CancelUnowned, workerVars
  <2>4. ASSUME NEW t \in Streams, StreamStep(t)
        PROVE  UNCHANGED worker
    BY <2>4 DEF StreamStep, PollRows, PollState, Yield, StreamEnd, StreamAgain, workerVars
  <2>5. worker'[j] = "bad"
    BY <1>2, <2>2, <2>3, <2>4
       DEF Next, Submit, SubmitWithProcess, CancelWrite, StreamOpen, Crash, Restart, workerVars, vars
  <2> QED BY <2>5 DEF DidFail
<1> QED BY <1>1, <1>2 DEF DidFail

(***************************************************************************)
(* Every step keeps CauseInv.                                              *)
(***************************************************************************)
LEMMA CauseStep ==
  TypeOK /\ RunnerInv /\ LogInv /\ CauseInv /\ [Next]_vars => CauseInv'
<1> SUFFICES ASSUME TypeOK, RunnerInv, LogInv, CauseInv, [Next]_vars, NEW j \in Jobs
             PROVE  Caused(j)'
  BY DEF CauseInv
<1>0. row \in [Jobs -> Row] /\ sup \in [Jobs -> SupStates] /\ Caused(j)
  BY DEF TypeOK, CauseInv
<1> DEFINE Kept == /\ sup'[j] \in {"raised", "broken"} => sup[j] \in {"raised", "broken"}
                   /\ row'[j].state = "failed" => row[j].state = "failed"
                   /\ row'[j].error = row[j].error
<1>1. row'[j].state = "cancelled" => Cancelled(j)'
  BY CancelledRowStep
<1>2. (MetBadLine(j) => MetBadLine(j)') /\ (DidFail(j) => DidFail(j)')
  BY MetBadLineStays, DidFailStays
<1>3. ASSUME Kept
      PROVE  Caused(j)'
  BY <1>0, <1>1, <1>2, <1>3 DEF Caused
<1>4. ASSUME NEW i \in Jobs, NEW state \in States \ {"failed"}, NEW progress \in {0, 1},
             SetState(i, state, progress)
      PROVE  /\ row'[j].state = "failed" => row[j].state = "failed"
             /\ row'[j].error = row[j].error
  BY <1>0, <1>4, SetStateEffect
<1>5. ASSUME NEW i \in Jobs, InsertQueued(i)
      PROVE  /\ row'[j].state = "failed" => row[j].state = "failed"
             /\ row'[j].error = row[j].error
  BY <1>0, <1>5 DEF InsertQueued, Row
<1>6. ASSUME NEW r \in Runners, NEW i \in Jobs, Submit(r, i) \/ SubmitWithProcess(r, i)
      PROVE  Kept
  BY <1>0, <1>5, <1>6 DEF Submit, SubmitWithProcess, runnerVars
<1>7. ASSUME NEW i \in Jobs, Launch(i)
      PROVE  Kept
  BY <1>0, <1>4, <1>7 DEF Launch, Popen, PopenFails, MarkRunning, dbVars, States
<1>8. ASSUME NEW i \in Jobs, Work(i)
      PROVE  Kept
  BY <1>0, <1>8 DEF Work, WorkerPrint, WorkerStderr, WorkerExit, dbVars, runnerVars
<1>9. ASSUME NEW i \in Jobs, AppendEvent(i) \/ SkipLine(i) \/ DrainEof(i)
      PROVE  Kept
  BY <1>0, <1>9 DEF AppendEvent, SkipLine, DrainEof, dbVars, runnerVars
<1>10. ASSUME NEW i \in Jobs, ChokeOnLine(i)
       PROVE  Caused(j)'
  <2>1. UNCHANGED <<row, out>> /\ sup' = [sup EXCEPT ![i] = "raised"]
    BY <1>10 DEF ChokeOnLine, dbVars, workerVars
  <2>2. CASE i # j
    BY <1>0, <1>3, <2>1, <2>2
  <2>3. CASE i = j
    <3>1. read'[j] = read[j] + 1 /\ read[j] \in Nat /\ out'[j][read[j] + 1] = "choking"
      BY <1>10, <2>1, <2>3 DEF ChokeOnLine, TakeLine, NextLine, TypeOK
    <3>2. MetBadLine(j)'
      BY <3>1 DEF MetBadLine
    <3> QED BY <1>0, <1>1, <1>2, <2>1, <3>2 DEF Caused
  <2> QED BY <2>2, <2>3
<1>11. ASSUME NEW i \in Jobs, Finish(i)
       PROVE  Caused(j)'
  <2>1. sup' = [sup EXCEPT ![i] = "done"] /\ sup[i] = "waited"
    BY <1>11 DEF Finish
  <2>2. CASE worker[i] = "ok"
    <3>1. SetState(i, "succeeded", 1)
      BY <1>11, <2>2 DEF Finish
    <3> QED BY <1>0, <1>3, <1>4, <2>1, <3>1 DEF States, Terminal
  <2>3. CASE worker[i] # "ok"
    <3>1. SetFailed(i) /\ UNCHANGED worker
      BY <1>11, <2>3 DEF Finish, workerVars
    <3>2. worker'[i] = "bad"
      BY <2>1, <2>3, <3>1 DEF RunnerInv, SupervisionInv, Supervised, Exited
    <3>3. CASE i # j
      <4>1. row'[j] = row[j]
        BY <1>0, <3>1, <3>3, SetFailedEffect
      <4> QED BY <1>0, <1>3, <2>1, <3>3, <4>1
    <3>4. CASE i = j
      <4>1. row'[j].error = "set" /\ sup'[j] = "done"
        BY <1>0, <2>1, <3>1, <3>4, SetFailedEffect
      <4> QED BY <1>1, <3>2, <3>4, <4>1 DEF Caused, DidFail
    <3> QED BY <3>3, <3>4
  <2> QED BY <2>2, <2>3
<1>12. ASSUME NEW i \in Jobs, FinishExcept(i)
       PROVE  Caused(j)'
  <2>1. sup' = [sup EXCEPT ![i] = "broken"] /\ sup[i] = "raised" /\ SetFailed(i)
    BY <1>12 DEF FinishExcept
  <2>2. CASE i # j
    <3>1. row'[j] = row[j]
      BY <1>0, <2>1, <2>2, SetFailedEffect
    <3> QED BY <1>0, <1>3, <2>1, <2>2, <3>1
  <2>3. CASE i = j
    <3>1. row'[j].error = "set" /\ MetBadLine(j)'
      BY <1>0, <1>2, <2>1, <2>3, SetFailedEffect DEF Caused
    <3> QED BY <1>1, <3>1 DEF Caused, DidFail
  <2> QED BY <2>2, <2>3
<1>13. ASSUME NEW c \in Calls, NEW r \in Runners, NEW i \in Jobs, CancelStart(c, r, i)
       PROVE  Kept
  BY <1>13 DEF CancelStart, CancelNoop, CancelTerminate, CancelUnowned, dbVars, runnerVars
<1>14. ASSUME NEW c \in Calls, CancelWrite(c)
       PROVE  Kept
  <2>1. call[c] \in ActiveCall /\ UNCHANGED sup
    BY <1>14 DEF CancelWrite, TypeOK, Call, NoCall, runnerVars
  <2>2. call[c].job \in Jobs /\ call[c].progress \in {0, 1}
    BY <2>1 DEF ActiveCall
  <2> QED BY <1>4, <1>14, <2>1, <2>2 DEF CancelWrite, States, Terminal
<1>15. ASSUME NEW t \in Streams, NEW r \in Runners, NEW i \in Jobs, StreamOpen(t, r, i)
       PROVE  Kept
  BY <1>15 DEF StreamOpen, dbVars, runnerVars
<1>16. ASSUME NEW t \in Streams, StreamStep(t)
       PROVE  Kept
  BY <1>16 DEF StreamStep, PollRows, PollState, Yield, StreamEnd, StreamAgain, dbVars, runnerVars
<1>17. ASSUME NEW r \in Runners, Crash(r) \/ Restart(r)
       PROVE  Kept
  BY <1>17 DEF Crash, Restart, dbVars
<1>18. CASE UNCHANGED vars
  BY <1>3, <1>18 DEF vars, dbVars, runnerVars
<1> HIDE DEF Kept
<1> QED
  BY <1>3, <1>6, <1>7, <1>8, <1>9, <1>10, <1>11, <1>12, <1>13, <1>14, <1>15, <1>16, <1>17, <1>18
     DEF Next, Supervise

(***************************************************************************)
(* The inductive invariant holds at the start.                             *)
(***************************************************************************)
LEMMA InvInit == Init => IInv
<1> SUFFICES ASSUME Init PROVE IInv
  OBVIOUS
<1> USE DEF Init
<1>1. TypeOK
  BY TypeInit
<1>2. RunnerInv
  BY NobodyAssumption
     DEF RunnerInv, SupervisionInv, Supervised, OnItsWay, Orphaned, CallInv, CallSound, NoCall, ProcessMapExact,
         ColumnsAgree, Coherent, Terminal
<1>3. LogInv
  <2>1. \A j \in Jobs : read[j] = 0 /\ out[j] = <<>> /\ log[j] = <<>>
    OBVIOUS
  <2>2. Increasing(<<>>) /\ Range(<<>>) = {} /\ Publishable(<<>>, 0) = {}
    BY DEF Increasing, Range, Publishable
  <2>3. ASSUME NEW j \in Jobs PROVE Drained(j)
    <3>1. Carries(log[j], out[j], read[j])
      BY <2>1, <2>2 DEF Carries
    <3>2. read[j] <= Len(out[j]) /\ sup[j] = "none"
      BY <2>1
    <3> QED BY <3>1, <3>2 DEF Drained
  <2> QED BY <2>3 DEF LogInv
<1>4. StreamInv
  BY DEF StreamInv, StreamSound, NoStream
<1>5. CauseInv
  BY DEF CauseInv, Caused
<1> QED BY <1>1, <1>2, <1>3, <1>4, <1>5 DEF IInv

(***************************************************************************)
(* IInv is an invariant: the five parts lean on each other only in the     *)
(* order types, runner, log, streams and causes.                           *)
(***************************************************************************)
LEMMA InvStep == IInv /\ [Next]_vars => IInv'
BY TypeStep, RunnerStep, LogStep, StreamInvStep, CauseStep DEF IInv

THEOREM Inductive == Spec => []IInv
BY InvInit, InvStep, PTL DEF Spec

-----------------------------------------------------------------------------
(***************************************************************************)
(* self._processes holds exactly the jobs under supervision.               *)
(***************************************************************************)
THEOREM ProcessMapIsExact == Spec => []ProcessMapExact
<1>1. IInv => ProcessMapExact
  BY DEF IInv, RunnerInv
<1> QED BY <1>1, Inductive, PTL

(***************************************************************************)
(* The columns of a row agree with each other whoever wrote them.          *)
(***************************************************************************)
THEOREM RowsAreCoherent == Spec => []RowCoherent
<1>1. IInv => RowCoherent
  BY DEF IInv, RunnerInv, SupervisionInv, Supervised, ColumnsAgree, CauseInv, Caused, RowCoherent
<1> QED BY <1>1, Inductive, PTL

(***************************************************************************)
(* A job that is reported succeeded has all its events in the table.       *)
(***************************************************************************)
THEOREM SucceededMeansComplete == Spec => []SucceededIsComplete
<1>1. IInv => SucceededIsComplete
  <2> SUFFICES ASSUME IInv, NEW j \in Jobs, row[j].state = "succeeded"
               PROVE  worker[j] = "ok" /\ Carries(log[j], out[j], Len(out[j]))
    BY DEF SucceededIsComplete
  <2>1. sup[j] = "done" /\ worker[j] = "ok"
    BY DEF IInv, RunnerInv, SupervisionInv, Supervised
  <2> QED BY <2>1 DEF IInv, LogInv, Drained
<1> QED BY <1>1, Inductive, PTL

(***************************************************************************)
(* Two sequences that agree everywhere carry the same events.              *)
(***************************************************************************)
LEMMA SameEvents ==
  ASSUME NEW a \in Seq(Nat), NEW s \in Seq(Nat), Consecutive(a, <<>>, s), Len(a) = Len(s)
  PROVE  a = s
<1>1. \A i \in 1 .. Len(a) : a[i] = s[i]
  BY DEF Consecutive
<1> QED BY <1>1

(***************************************************************************)
(* A stream that ended on the verdict of the supervisor missed no event.   *)
(***************************************************************************)
THEOREM EndedStreamsAreComplete == Spec => []EndedStreamIsComplete
<1>1. IInv => EndedStreamIsComplete
  <2> SUFFICES ASSUME IInv, NEW t \in Streams,
                      stream[t].pc = "ended", stream[t].seen \in {"succeeded", "failed"},
                      sup[stream[t].job] = "done"
               PROVE  Carries(stream[t].got, out[stream[t].job], Len(out[stream[t].job]))
    BY DEF EndedStreamIsComplete
  <2>1. stream[t] \in ActiveStream
    BY DEF IInv, TypeOK, Stream, NoStream
  <2>2. stream[t].job \in Jobs /\ stream[t].got \in Seq(Nat)
    BY <2>1 DEF ActiveStream
  <2> DEFINE s == log[stream[t].job]
  <2>3. s \in Seq(Nat)
    BY <2>2 DEF IInv, TypeOK
  <2>4. Streaming(stream[t], sup[stream[t].job], s)
    BY DEF IInv, StreamInv, StreamSound
  <2>5. stream[t].got = s
    <3>1. /\ stream[t].rows = <<>> /\ Len(stream[t].got) = stream[t].last
          /\ stream[t].last + Len(stream[t].rows) = Len(s)
          /\ Consecutive(stream[t].got, <<>>, s)
      BY <2>4 DEF Streaming, HoldsPrefix, HoldsAll
    <3>2. Len(stream[t].got) = Len(s)
      BY <2>2, <2>3, <3>1
    <3> QED BY <2>2, <2>3, <3>1, <3>2, SameEvents
  <2>6. Carries(s, out[stream[t].job], Len(out[stream[t].job]))
    BY <2>2 DEF IInv, LogInv, Drained
  <2> QED BY <2>5, <2>6
<1> QED BY <1>1, Inductive, PTL

(***************************************************************************)
(* A cancel() that returned in the app that launched the job leaves no     *)
(* worker behind.                                                          *)
(***************************************************************************)
THEOREM CancelLeavesNoWorker == Spec => []CancelStopsWorker
<1>1. IInv => CancelStopsWorker
  BY DEF IInv, RunnerInv, CallInv, CallSound, CancelStopsWorker
<1> QED BY <1>1, Inductive, PTL

(***************************************************************************)
(* A job that ended stays ended.  The only step that writes a state which  *)
(* is not terminal over an existing row is MarkRunning, and SupervisionInv *)
(* says that the row it finds is still queued: nobody can have cancelled a *)
(* job whose id has not been handed out yet.  A terminal state is changed  *)
(* by a cancel(), or by a supervisor that finds the row cancelled, which   *)
(* is the work of a cancel() as CauseInv says.                             *)
(***************************************************************************)
THEOREM EndedJobsStayEnded == Spec => NeverRevived
<1> DEFINE Ends == \A j \in Jobs : row[j].state \in Terminal =>
                     /\ row'[j].state \in Terminal
                     /\ row'[j].state = row[j].state \/ Cancelled(j)
<1>1. IInv /\ [Next]_vars => [Ends]_vars
  <2> DEFINE Kept(k) == /\ row'[k].state \in Terminal
                        /\ row'[k].state = row[k].state \/ Cancelled(k)
  <2> SUFFICES ASSUME IInv, [Next]_vars, NEW k \in Jobs, row[k].state \in Terminal
               PROVE  Kept(k)
    OBVIOUS
  <2>0. row \in [Jobs -> Row] /\ SupervisionInv /\ CauseInv /\ TypeOK
    BY DEF IInv, TypeOK, RunnerInv
  <2>1. ASSUME row'[k].state = row[k].state
        PROVE  Kept(k)
    BY <2>1
  <2>2. ASSUME NEW j \in Jobs, MarkRunning(j)
        PROVE  Kept(k)
    <3>1. row[j].state = "queued"
      BY <2>0, <2>2 DEF MarkRunning, SupervisionInv, Supervised
    <3>2. k # j
      BY <3>1 DEF Terminal
    <3> QED BY <2>0, <2>1, <2>2, <3>2, SetStateEffect DEF MarkRunning, States
  <2>3. ASSUME NEW j \in Jobs, Finish(j) \/ FinishExcept(j)
        PROVE  Kept(k)
    <3>1. sup[j] \in {"waited", "raised"} /\ (SetFailed(j) \/ SetState(j, "succeeded", 1))
      BY <2>3 DEF Finish, FinishExcept
    <3>2. CASE k # j
      <4>1. row'[k] = row[k]
        BY <2>0, <3>1, <3>2, SetFailedEffect, SetStateEffect DEF States, Terminal
      <4> QED BY <2>1, <4>1
    <3>3. CASE k = j
      <4>1. row'[k].state \in {"failed", "succeeded"}
        BY <2>0, <3>1, <3>3, SetFailedEffect, SetStateEffect DEF States, Terminal
      <4>2. row[k].state = "cancelled"
        BY <2>0, <3>1, <3>3 DEF SupervisionInv, Supervised, Terminal
      <4>3. Cancelled(k)
        BY <2>0, <4>2 DEF CauseInv, Caused
      <4> QED BY <4>1, <4>3 DEF Terminal
    <3> QED BY <3>2, <3>3
  <2>4. ASSUME NEW c \in Calls, CancelWrite(c)
        PROVE  Kept(k)
    <3>1. call[c] \in ActiveCall /\ call[c].pc # "noop"
      BY <2>0, <2>4 DEF CancelWrite, TypeOK, Call, NoCall
    <3>2. call[c].job \in Jobs /\ call[c].progress \in {0, 1}
      BY <3>1 DEF ActiveCall
    <3>3. CASE k # call[c].job
      BY <2>0, <2>1, <2>4, <3>2, <3>3, SetStateEffect DEF CancelWrite, Terminal, States
    <3>4. CASE k = call[c].job
      <4>1. row'[k].state = "cancelled"
        BY <2>0, <2>4, <3>2, <3>4, SetStateEffect DEF CancelWrite, Terminal, States
      <4> QED BY <3>1, <3>4, <4>1 DEF Cancelled, Terminal
    <3> QED BY <3>3, <3>4
  <2>5. ASSUME NEW j \in Jobs, InsertQueued(j)
        PROVE  Kept(k)
    BY <2>0, <2>1, <2>5 DEF InsertQueued, Terminal
  <2>6. ASSUME UNCHANGED row
        PROVE  Kept(k)
    BY <2>1, <2>6
  <2> HIDE DEF Kept
  <2>7. ASSUME NEW t \in Streams, StreamStep(t)
        PROVE  Kept(k)
    BY <2>6, <2>7 DEF StreamStep, PollRows, PollState, Yield, StreamEnd, StreamAgain, dbVars
  <2>8. ASSUME NEW j \in Jobs, Launch(j) \/ Work(j) \/ Supervise(j)
        PROVE  Kept(k)
    BY <2>2, <2>3, <2>6, <2>8
       DEF Launch, Popen, PopenFails, Work, WorkerPrint, WorkerStderr, WorkerExit,
           Supervise, AppendEvent, SkipLine, ChokeOnLine, DrainEof, dbVars
  <2>9. ASSUME NEW c \in Calls, NEW r \in Runners, NEW j \in Jobs, CancelStart(c, r, j)
        PROVE  Kept(k)
    BY <2>6, <2>9 DEF CancelStart, CancelNoop, CancelTerminate, CancelUnowned, dbVars
  <2>10. ASSUME NEW t \in Streams, NEW r \in Runners, NEW j \in Jobs, StreamOpen(t, r, j)
         PROVE  Kept(k)
    BY <2>6, <2>10 DEF StreamOpen, dbVars
  <2>11. ASSUME NEW r \in Runners, Crash(r) \/ Restart(r)
         PROVE  Kept(k)
    BY <2>6, <2>11 DEF Crash, Restart, dbVars
  <2>12. CASE UNCHANGED vars
    BY <2>6, <2>12 DEF vars, dbVars
  <2> QED BY <2>4, <2>5, <2>7, <2>8, <2>9, <2>10, <2>11, <2>12 DEF Next, Submit, SubmitWithProcess
<1>2. Spec => [][Ends]_vars
  BY <1>1, Inductive, PTL DEF Spec
<1> QED BY <1>2 DEF NeverRevived

=============================================================================
