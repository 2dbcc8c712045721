------------------------- MODULE LocalJobsFeed_proofs -------------------------
(***************************************************************************)
(* The proof that LocalJobs implements EventFeed: what streams of a job    *)
(* deliver is what EventFeed promises, for any sets of jobs, runners,      *)
(* calls and streams and any bounds.                                       *)
(***************************************************************************)
EXTENDS LocalJobs_proofs

(***************************************************************************)
(* What the refinement needs beyond IInv: a worker prints no more than the *)
(* bound, and a state "cancelled" that a stream saw is the work of some    *)
(* cancel() call.                                                          *)
(***************************************************************************)
OutputBounded == \A j \in Jobs : Len(out[j]) <= MaxLines

SeenCancelledByCall ==
  \A t \in Streams : stream[t].seen = "cancelled" => Cancelled(stream[t].job)

FeedInv == OutputBounded /\ SeenCancelledByCall

(***************************************************************************)
(* Every step keeps FeedInv.                                               *)
(***************************************************************************)
LEMMA OutputStep == TypeOK /\ OutputBounded /\ [Next]_vars => OutputBounded'
<1> SUFFICES ASSUME TypeOK, OutputBounded, [Next]_vars
             PROVE  OutputBounded'
  OBVIOUS
<1>1. ASSUME NEW j \in Jobs, WorkerPrint(j)
      PROVE  OutputBounded'
  <2>1. PICK class \in Lines : out' = [out EXCEPT ![j] = Append(out[j], class)]
    BY <1>1 DEF WorkerPrint
  <2>2. out \in [Jobs -> Seq(Lines)] /\ Len(out[j]) < MaxLines
    BY <1>1 DEF TypeOK, WorkerPrint
  <2>3. Len(Append(out[j], class)) = Len(out[j]) + 1 /\ Len(out[j]) \in Nat
    BY <2>2
  <2>4. Len(out'[j]) <= MaxLines
    BY <2>1, <2>2, <2>3, BoundsAssumption
  <2> QED BY <2>1, <2>2, <2>4 DEF OutputBounded
<1>2. ASSUME UNCHANGED out
      PROVE  OutputBounded'
  BY <1>2 DEF OutputBounded
<1>3. ASSUME NEW j \in Jobs, Launch(j) \/ Work(j) \/ Supervise(j)
      PROVE  WorkerPrint(j) \/ UNCHANGED out
  BY <1>3 DEF Launch, Popen, PopenFails, MarkRunning, Work, WorkerStderr, WorkerExit,
              Supervise, AppendEvent, SkipLine, ChokeOnLine, DrainEof, Finish, FinishExcept,
              workerVars
<1>4. ASSUME NEW c \in Calls, NEW r \in Runners, NEW j \in Jobs, CancelStart(c, r, j)
      PROVE  UNCHANGED out
  BY <1>4 DEF CancelStart, CancelNoop, CancelTerminate, CancelUnowned, workerVars
<1>5. ASSUME NEW t \in Streams, StreamStep(t)
      PROVE  UNCHANGED out
  BY <1>5 DEF StreamStep, PollRows, PollState, Yield, StreamEnd, StreamAgain, workerVars
<1> QED
  BY <1>1, <1>2, <1>3, <1>4, <1>5
     DEF Next, Submit, SubmitWithProcess, CancelWrite, StreamOpen, Crash, Restart, workerVars, vars

LEMMA CancelledSeenStep ==
  ASSUME TypeOK, CauseInv, SeenCancelledByCall, [Next]_vars
  PROVE  SeenCancelledByCall'
<1> SUFFICES ASSUME NEW t \in Streams, stream'[t].seen = "cancelled"
             PROVE  Cancelled(stream[t].job)'
  BY DEF SeenCancelledByCall
<1>0. stream[t] \in Stream /\ stream \in [Streams -> Stream]
  BY DEF TypeOK
<1>a. \A x \in Stream : x.pc # "idle" \/ x.seen = "cancelled" => x \in ActiveStream
  BY DEF Stream, NoStream
<1>1. ASSUME stream[t].seen = "cancelled", stream'[t].job = stream[t].job
      PROVE  Cancelled(stream[t].job)'
  <2>1. stream[t].job \in Jobs
    BY <1>0, <1>1, <1>a DEF ActiveStream
  <2>2. PICK j \in Jobs : j = stream[t].job /\ Cancelled(j)
    BY <1>1, <2>1 DEF SeenCancelledByCall
  <2>3. Cancelled(j)'
    BY <2>2, CancelledStays
  <2> QED BY <1>1, <2>2, <2>3 DEF Cancelled
<1>2. CASE stream'[t] = stream[t]
  BY <1>1, <1>2
<1>3. ASSUME NEW r \in Runners, NEW j \in Jobs, StreamOpen(t, r, j)
      PROVE  FALSE
  <2>1. stream'[t].seen = "absent"
    BY <1>0, <1>3 DEF StreamOpen, NoStream
  <2> QED BY <2>1
<1>4. ASSUME StreamStep(t)
      PROVE  Cancelled(stream[t].job)'
  <2>1. stream[t] \in ActiveStream
    BY <1>0, <1>4, <1>a DEF StreamStep, PollRows, PollState, Yield, StreamEnd, StreamAgain
  <2>2. CASE PollState(t)
    <3>1. stream'[t].seen = row[stream[t].job].state /\ stream'[t].job = stream[t].job
      BY <1>0, <2>1, <2>2 DEF PollState, ActiveStream
    <3>2. PICK j \in Jobs : j = stream[t].job
      BY <2>1 DEF ActiveStream
    <3>3. Cancelled(j)'
      BY <3>1, <3>2, CancelledStays DEF CauseInv, Caused
    <3> QED BY <3>1, <3>2, <3>3 DEF Cancelled
  <2>3. CASE PollRows(t) \/ Yield(t) \/ StreamEnd(t) \/ StreamAgain(t)
    <3>1. stream'[t].seen = stream[t].seen /\ stream'[t].job = stream[t].job
      BY <1>0, <2>1, <2>3 DEF PollRows, Yield, StreamEnd, StreamAgain, ActiveStream
    <3> QED BY <1>1, <3>1
  <2> QED BY <1>4, <2>2, <2>3 DEF StreamStep
<1>5. ASSUME NEW r \in Runners, Crash(r)
      PROVE  Cancelled(stream[t].job)'
  <2>1. stream'[t] = stream[t] \/
        (stream'[t] = [stream[t] EXCEPT !.pc = "lost"] /\ stream[t].pc # "idle")
    BY <1>5 DEF Crash
  <2>2. stream'[t].seen = stream[t].seen /\ stream'[t].job = stream[t].job
    BY <1>0, <1>a, <2>1 DEF ActiveStream
  <2> QED BY <1>1, <2>2
<1>6. ASSUME NEW u \in Streams \ {t}, NEW r \in Runners, NEW j \in Jobs, StreamOpen(u, r, j)
      PROVE  stream'[t] = stream[t]
  BY <1>0, <1>6 DEF StreamOpen
<1>7. ASSUME NEW u \in Streams \ {t}, StreamStep(u)
      PROVE  stream'[t] = stream[t]
  BY <1>0, <1>7 DEF StreamStep, PollRows, PollState, Yield, StreamEnd, StreamAgain
<1>8. ASSUME NEW j \in Jobs, Launch(j) \/ Work(j) \/ Supervise(j)
      PROVE  UNCHANGED stream
  BY <1>8 DEF Launch, Popen, PopenFails, MarkRunning, Work, WorkerPrint, WorkerStderr, WorkerExit,
              Supervise, AppendEvent, SkipLine, ChokeOnLine, DrainEof, Finish, FinishExcept
<1>9. ASSUME NEW c \in Calls, NEW r \in Runners, NEW j \in Jobs, CancelStart(c, r, j)
      PROVE  UNCHANGED stream
  BY <1>9 DEF CancelStart, CancelNoop, CancelTerminate, CancelUnowned
<1> QED
  BY <1>2, <1>3, <1>4, <1>5, <1>6, <1>7, <1>8, <1>9
     DEF Next, Submit, SubmitWithProcess, CancelWrite, Restart, vars

LEMMA FeedInvInit == Init => FeedInv
BY BoundsAssumption
   DEF Init, FeedInv, OutputBounded, SeenCancelledByCall, NoStream

LEMMA FeedInvStep == IInv /\ FeedInv /\ [Next]_vars => FeedInv'
BY OutputStep, CancelledSeenStep DEF FeedInv, IInv

-----------------------------------------------------------------------------
(***************************************************************************)
(* The refinement mapping, variable by variable: which steps leave it as   *)
(* it is and how the others change it.                                     *)
(***************************************************************************)
Gone == {"raised", "broken", "lost", "abandoned"}

LEMMA SealedSame ==
  ASSUME \A j \in Jobs : sup'[j] = "done" <=> sup[j] = "done"
  PROVE  Sealed' = Sealed
BY DEF Sealed

LEMMA DisruptedSame ==
  ASSUME UNCHANGED call, \A j \in Jobs : sup'[j] \in Gone <=> sup[j] \in Gone
  PROVE  Disrupted' = Disrupted
BY DEF Disrupted, Cancelled, Gone

LEMMA ReaderSame ==
  ASSUME \A t \in Streams : /\ stream'[t].job = stream[t].job
                            /\ stream'[t].got = stream[t].got
                            /\ stream'[t].pc = "ended" <=> stream[t].pc = "ended"
  PROVE  Reader' = Reader
BY DEF Reader

(***************************************************************************)
(* Steps that nobody who streams can tell.                                 *)
(***************************************************************************)
LEMMA Stutter ==
  ASSUME UNCHANGED <<log, call, stream>>,
         \A j \in Jobs : sup'[j] = "done" <=> sup[j] = "done",
         \A j \in Jobs : sup'[j] \in Gone <=> sup[j] \in Gone
  PROVE  UNCHANGED Feed!feedVars
<1>1. Sealed' = Sealed
  BY SealedSame
<1>2. Disrupted' = Disrupted
  BY DisruptedSame
<1>3. Reader' = Reader
  BY ReaderSame
<1> QED BY <1>1, <1>2, <1>3 DEF Feed!feedVars

(***************************************************************************)
(* Steps after which more jobs are disrupted, and that change nothing else *)
(* a reader could see.                                                     *)
(***************************************************************************)
LEMMA Disruption ==
  ASSUME UNCHANGED log, Sealed' = Sealed, Reader' = Reader, Disrupted \subseteq Disrupted'
  PROVE  Feed!Next
<1>1. Disrupted' \in SUBSET Jobs
  BY DEF Disrupted
<1>2. Feed!Disrupt(Disrupted')
  BY DEF Feed!Disrupt
<1> QED BY <1>1, <1>2 DEF Feed!Next

LEMMA DisruptedGrows ==
  ASSUME TypeOK, [Next]_vars, \A j \in Jobs : sup[j] \in Gone => sup'[j] \in Gone
  PROVE  Disrupted \subseteq Disrupted'
<1>1. \A j \in Jobs : Cancelled(j) => Cancelled(j)'
  BY CancelledStays
<1> QED BY <1>1 DEF Disrupted, Gone

(***************************************************************************)
(* What a stream does, as the reader that EventFeed sees.  Yield hands out *)
(* the next event of the log: StreamSound says that the rows fetched by    *)
(* the last poll continue what was received.  StreamEnd ends a reader with *)
(* the whole log of a job whose supervision is over, or of a disrupted one.*)
(***************************************************************************)
LEMMA OpenAttaches ==
  ASSUME TypeOK, NEW t \in Streams, NEW r \in Runners, NEW j \in Jobs, StreamOpen(t, r, j)
  PROVE  Feed!Next
<1>1. stream \in [Streams -> Stream] /\ stream[t].pc = "idle"
  BY DEF TypeOK, StreamOpen
<1>2. stream[t].job = Nobody /\ stream[t].got = <<>> /\ stream[t].pc = "idle"
  <2>1. stream[t] = NoStream
    BY <1>1 DEF Stream, ActiveStream
  <2> QED BY <2>1 DEF NoStream
<1>3. stream' = [stream EXCEPT ![t] = [NoStream EXCEPT !.pc = "poll", !.job = j, !.runner = r]]
  BY DEF StreamOpen
<1>4. /\ stream'[t].job = j /\ stream'[t].got = <<>> /\ stream'[t].pc = "poll"
      /\ \A u \in Streams \ {t} : stream'[u] = stream[u]
  BY <1>1, <1>3 DEF NoStream
<1>5. UNCHANGED <<log, sup, call>>
  BY DEF StreamOpen, dbVars, runnerVars
<1>6. Sealed' = Sealed /\ Disrupted' = Disrupted
  BY <1>5, SealedSame, DisruptedSame
<1>7. Reader[t].of = Nobody /\ Reader' = [Reader EXCEPT ![t].of = j]
  <2>1. Reader[t] = [of |-> Nobody, got |-> <<>>, ended |-> FALSE]
    BY <1>2 DEF Reader
  <2>2. [Reader[t] EXCEPT !.of = j] = [of |-> j, got |-> <<>>, ended |-> FALSE]
    <3>1. \A g, e : [[of |-> Nobody, got |-> g, ended |-> e] EXCEPT !.of = j]
                    = [of |-> j, got |-> g, ended |-> e]
      OBVIOUS
    <3> QED BY <2>1, <3>1, Zenon
  <2>3. Reader'[t] = [of |-> j, got |-> <<>>, ended |-> FALSE]
    BY <1>4 DEF Reader
  <2>4. \A u \in Streams \ {t} : Reader'[u] = Reader[u]
    BY <1>4 DEF Reader
  <2>5. Reader = [u \in Streams |-> Reader[u]] /\ Reader' = [u \in Streams |-> Reader'[u]]
    BY DEF Reader
  <2>6. Reader' = [Reader EXCEPT ![t] = [Reader[t] EXCEPT !.of = j]]
    BY <2>2, <2>3, <2>4, <2>5
  <2> QED BY <2>1, <2>6
<1>8. Feed!Attach(t, j)
  BY <1>5, <1>6, <1>7 DEF Feed!Attach
<1> QED BY <1>8 DEF Feed!Next

LEMMA YieldReceives ==
  ASSUME IInv, NEW t \in Streams, Yield(t)
  PROVE  Feed!Next
<1>1. stream \in [Streams -> Stream] /\ stream[t].pc = "deliver" /\ stream[t].rows # <<>>
  BY DEF IInv, TypeOK, Yield
<1>2. PICK x \in ActiveStream : x = stream[t]
  BY <1>1 DEF Stream, NoStream
<1>3. PICK s \in Seq(Nat) : s = log[x.job] /\ Streaming(x, sup[x.job], s)
  BY <1>1, <1>2 DEF IInv, TypeOK, StreamInv, StreamSound, ActiveStream
<1>4. /\ x.got \in Seq(Nat) /\ x.rows \in Seq(Nat) /\ x.rows # <<>> /\ x.job \in Jobs
      /\ x.pc = "deliver" /\ Consecutive(x.got, x.rows, s)
  BY <1>1, <1>2, <1>3 DEF ActiveStream, Streaming, HoldsPrefix
<1>5. Len(x.got) < Len(s) /\ Head(x.rows) = s[Len(x.got) + 1]
  <2>1. PICK k \in Nat, m \in Nat, n \in Nat :
          k = Len(x.got) /\ m = Len(s) /\ n = Len(x.rows) /\ n > 0
    BY <1>4
  <2>2. Head(x.rows) = x.rows[1] /\ 1 \in 1 .. n
    BY <1>4, <2>1
  <2>3. k + n <= m /\ x.rows[1] = s[k + 1]
    BY <1>4, <2>1, <2>2 DEF Consecutive
  <2>4. k < m
    <3>1. \A a, b, c \in Nat : a + b <= c /\ b > 0 => a < c
      OBVIOUS
    <3> QED BY <2>1, <2>3, <3>1, Zenon
  <2> QED BY <2>1, <2>2, <2>3, <2>4
<1>6. stream' = [stream EXCEPT ![t] = [x EXCEPT !.got = Append(x.got, Head(x.rows)),
                                                !.rows = Tail(x.rows), !.last = x.last + 1]]
  BY <1>2 DEF Yield
<1>7. /\ stream'[t].job = x.job /\ stream'[t].got = Append(x.got, Head(x.rows))
      /\ stream'[t].pc = "deliver" /\ \A u \in Streams \ {t} : stream'[u] = stream[u]
  BY <1>1, <1>4, <1>6 DEF ActiveStream
<1>8. UNCHANGED <<log, sup, call>>
  BY DEF Yield, dbVars, runnerVars
<1>9. Sealed' = Sealed /\ Disrupted' = Disrupted
  BY <1>8, SealedSame, DisruptedSame
<1>10. Reader[t] = [of |-> x.job, got |-> x.got, ended |-> FALSE]
  BY <1>2, <1>4 DEF Reader
<1>11. Reader' = [Reader EXCEPT ![t].got = Append(x.got, s[Len(x.got) + 1])]
  BY <1>2, <1>4, <1>5, <1>7 DEF Reader
<1>12. Feed!Receive(t) /\ Reader[t].of # Nobody
  BY <1>3, <1>4, <1>5, <1>8, <1>9, <1>10, <1>11, NobodyAssumption DEF Feed!Receive
<1> QED BY <1>12 DEF Feed!Next

LEMMA StreamEndEnds ==
  ASSUME IInv, FeedInv, NEW t \in Streams, StreamEnd(t)
  PROVE  Feed!Next
<1>1. stream \in [Streams -> Stream] /\ stream[t].pc = "deliver" /\ stream[t].rows = <<>>
  BY DEF IInv, TypeOK, StreamEnd
<1>2. PICK x \in ActiveStream : x = stream[t]
  BY <1>1 DEF Stream, NoStream
<1>3. PICK s \in Seq(Nat) : s = log[x.job] /\ Streaming(x, sup[x.job], s)
  BY <1>1, <1>2 DEF IInv, TypeOK, StreamInv, StreamSound, ActiveStream
<1>4. /\ x.got \in Seq(Nat) /\ x.rows = <<>> /\ x.job \in Jobs /\ x.pc = "deliver"
      /\ x.last = Len(x.got) /\ Consecutive(x.got, <<>>, s)
  BY <1>1, <1>2, <1>3 DEF ActiveStream, Streaming, HoldsPrefix
<1>5. \/ x.job \in Sealed /\ x.got = s
      \/ x.job \in Disrupted
  <2>1. CASE x.seen = "cancelled"
    BY <1>2, <1>4, <2>1 DEF FeedInv, SeenCancelledByCall, Disrupted
  <2>2. CASE x.seen \in {"succeeded", "failed"}
    <3>1. sup[x.job] \in {"done", "broken"} /\ HoldsAll(x, s)
      BY <1>3, <1>4, <2>2 DEF Streaming
    <3>2. Len(x.got) = Len(s)
      BY <1>4, <3>1 DEF HoldsAll
    <3>3. x.got = s
      BY <1>4, <3>2, SameEvents
    <3> QED BY <1>4, <3>1, <3>3 DEF Sealed, Disrupted
  <2> QED BY <1>2, <2>1, <2>2 DEF StreamEnd, Terminal
<1>6. stream' = [stream EXCEPT ![t] = [x EXCEPT !.pc = "ended"]]
  BY <1>2 DEF StreamEnd
<1>7. /\ stream'[t].job = x.job /\ stream'[t].got = x.got
      /\ stream'[t].pc = "ended" /\ \A u \in Streams \ {t} : stream'[u] = stream[u]
  BY <1>1, <1>6 DEF ActiveStream
<1>8. UNCHANGED <<log, sup, call>>
  BY DEF StreamEnd, dbVars, runnerVars
<1>9. Sealed' = Sealed /\ Disrupted' = Disrupted
  BY <1>8, SealedSame, DisruptedSame
<1>10. Reader[t] = [of |-> x.job, got |-> x.got, ended |-> FALSE]
  BY <1>2, <1>4 DEF Reader
<1>11. Reader' = [Reader EXCEPT ![t].ended = TRUE]
  BY <1>2, <1>7 DEF Reader
<1>12. Feed!End(t) /\ Reader[t].of # Nobody
  BY <1>3, <1>4, <1>5, <1>8, <1>9, <1>10, <1>11, NobodyAssumption DEF Feed!End
<1> QED BY <1>12 DEF Feed!Next

(***************************************************************************)
(* The other steps that a reader could tell: the drain publishes, the      *)
(* supervisor seals, and a job is disrupted by a cancel(), by a line that  *)
(* breaks the drain, by a process that does not start and by a crash,      *)
(* which may take several jobs at once.                                    *)
(***************************************************************************)
LEMMA AppendPublishes ==
  ASSUME IInv, FeedInv, NEW j \in Jobs, AppendEvent(j)
  PROVE  Feed!Next
<1>1. PICK n \in Nat : n = read[j] /\ n < Len(out[j]) /\ Len(out[j]) <= MaxLines
  BY DEF IInv, TypeOK, AppendEvent, TakeLine, FeedInv, OutputBounded
<1>2. n + 1 \in 1 .. MaxLines
  <2>1. Len(out[j]) \in Nat
    BY DEF IInv, TypeOK
  <2> QED BY <1>1, <2>1, BoundsAssumption
<1>3. log' = [log EXCEPT ![j] = Append(log[j], n + 1)]
  BY <1>1 DEF AppendEvent
<1>4. sup[j] = "draining" /\ UNCHANGED <<sup, call, stream>>
  BY DEF AppendEvent, TakeLine, runnerVars
<1>5. j \notin Sealed /\ Sealed' = Sealed /\ Disrupted' = Disrupted /\ Reader' = Reader
  BY <1>4, SealedSame, DisruptedSame, ReaderSame DEF Sealed
<1>6. Feed!Publish(j)
  BY <1>2, <1>3, <1>5 DEF Feed!Publish
<1> QED BY <1>6 DEF Feed!Next

LEMMA FinishSeals ==
  ASSUME TypeOK, NEW j \in Jobs, Finish(j)
  PROVE  Feed!Next
<1>1. sup[j] = "waited" /\ sup' = [sup EXCEPT ![j] = "done"] /\ UNCHANGED <<log, call, stream>>
  BY DEF Finish
<1>2. sup \in [Jobs -> SupStates]
  BY DEF TypeOK
<1>3. Sealed' = Sealed \cup {j}
  BY <1>1, <1>2 DEF Sealed
<1>4. Disrupted' = Disrupted /\ Reader' = Reader
  BY <1>1, <1>2, DisruptedSame, ReaderSame DEF Gone
<1>5. Feed!Seal(j)
  BY <1>1, <1>3, <1>4 DEF Feed!Seal
<1> QED BY <1>5 DEF Feed!Next

LEMMA LossDisrupts ==
  ASSUME TypeOK, NEW j \in Jobs, PopenFails(j) \/ ChokeOnLine(j), [Next]_vars
  PROVE  Feed!Next
<1>1. /\ sup[j] \in {"inserted", "draining"} /\ UNCHANGED <<log, call, stream>>
      /\ \E s \in Gone : sup' = [sup EXCEPT ![j] = s]
  BY DEF PopenFails, ChokeOnLine, TakeLine, Gone, dbVars
<1>2. sup \in [Jobs -> SupStates]
  BY DEF TypeOK
<1>3. Sealed' = Sealed
  BY <1>1, <1>2, SealedSame DEF Gone
<1>4. Reader' = Reader
  BY <1>1, ReaderSame
<1>5. Disrupted \subseteq Disrupted'
  BY <1>1, <1>2, DisruptedGrows
<1> QED BY <1>1, <1>3, <1>4, <1>5, Disruption

LEMMA CancelDisrupts ==
  ASSUME TypeOK, [Next]_vars, UNCHANGED <<log, sup, stream>>
  PROVE  Feed!Next
<1>1. Sealed' = Sealed /\ Reader' = Reader
  BY SealedSame, ReaderSame
<1>2. Disrupted \subseteq Disrupted'
  BY DisruptedGrows
<1> QED BY <1>1, <1>2, Disruption

LEMMA CrashDisrupts ==
  ASSUME TypeOK, [Next]_vars, NEW r \in Runners, Crash(r)
  PROVE  Feed!Next
<1>1. /\ UNCHANGED log
      /\ \A j \in Jobs : sup[j] \in Gone => sup'[j] \in Gone
      /\ \A j \in Jobs : sup'[j] = "done" <=> sup[j] = "done"
  BY DEF Crash, Gone, dbVars
<1>2. ASSUME NEW t \in Streams
      PROVE  /\ stream'[t].job = stream[t].job /\ stream'[t].got = stream[t].got
             /\ stream'[t].pc = "ended" <=> stream[t].pc = "ended"
  <2>1. \/ stream'[t] = stream[t]
        \/ stream'[t] = [stream[t] EXCEPT !.pc = "lost"]
             /\ stream[t].pc \in {"poll", "polled", "deliver"}
    BY DEF Crash
  <2>2. stream[t].pc # "idle" => stream[t] \in ActiveStream
    BY DEF TypeOK, Stream, NoStream
  <2> QED BY <2>1, <2>2 DEF ActiveStream
<1>3. Sealed' = Sealed
  BY <1>1, SealedSame
<1>4. Reader' = Reader
  BY <1>2, ReaderSame
<1> QED BY <1>1, <1>3, <1>4, DisruptedGrows, Disruption

(***************************************************************************)
(* Initial states map to initial states, and every step to a step or a     *)
(* stutter of EventFeed.                                                   *)
(***************************************************************************)
LEMMA FeedInit == Init => Feed!Init
<1> SUFFICES ASSUME Init PROVE Feed!Init
  OBVIOUS
<1>1. log = [j \in Jobs |-> <<>>]
  BY DEF Init
<1>2. Sealed = {}
  BY DEF Init, Sealed
<1>3. Disrupted = {}
  BY NobodyAssumption DEF Init, Disrupted, Cancelled, NoCall
<1>4. Reader = [t \in Streams |-> [of |-> Nobody, got |-> <<>>, ended |-> FALSE]]
  <2>1. \A t \in Streams :
          stream[t].job = Nobody /\ stream[t].got = <<>> /\ stream[t].pc = "idle"
    BY DEF Init, NoStream
  <2> QED BY <2>1 DEF Reader
<1> QED BY <1>1, <1>2, <1>3, <1>4 DEF Feed!Init

LEMMA FeedStep == IInv /\ FeedInv /\ [Next]_vars => [Feed!Next]_Feed!feedVars
<1> SUFFICES ASSUME IInv, FeedInv, [Next]_vars
             PROVE  Feed!Next \/ UNCHANGED Feed!feedVars
  OBVIOUS
<1>0. TypeOK /\ sup \in [Jobs -> SupStates] /\ SupervisionInv
  BY DEF IInv, RunnerInv, TypeOK
<1>1. ASSUME NEW r \in Runners, NEW j \in Jobs, Submit(r, j) \/ SubmitWithProcess(r, j)
      PROVE  UNCHANGED Feed!feedVars
  <2>1. sup[j] = "none"
    BY <1>0, <1>1 DEF Submit, SubmitWithProcess, InsertQueued, SupervisionInv, Supervised
  <2>2. UNCHANGED <<log, call, stream>> /\ sup' \in {sup, [sup EXCEPT ![j] = "inserted"]}
    BY <1>1 DEF Submit, SubmitWithProcess, runnerVars
  <2> QED BY <1>0, <2>1, <2>2, Stutter DEF Gone
<1>2. ASSUME NEW j \in Jobs, Launch(j)
      PROVE  Feed!Next \/ UNCHANGED Feed!feedVars
  <2>1. CASE PopenFails(j)
    BY <1>0, <2>1, LossDisrupts
  <2>2. CASE Popen(j) \/ MarkRunning(j)
    <3>1. /\ UNCHANGED <<log, call, stream>> /\ sup[j] \in {"inserted", "spawned"}
          /\ sup' \in {[sup EXCEPT ![j] = "spawned"], [sup EXCEPT ![j] = "draining"]}
      BY <2>2 DEF Popen, MarkRunning, dbVars
    <3> QED BY <1>0, <3>1, Stutter DEF Gone
  <2> QED BY <1>2, <2>1, <2>2 DEF Launch
<1>3. ASSUME NEW j \in Jobs, Work(j)
      PROVE  UNCHANGED Feed!feedVars
  <2>1. UNCHANGED <<log, sup, call, stream>>
    BY <1>3 DEF Work, WorkerPrint, WorkerStderr, WorkerExit, dbVars, runnerVars
  <2> QED BY <2>1, Stutter
<1>4. ASSUME NEW j \in Jobs, Supervise(j)
      PROVE  Feed!Next \/ UNCHANGED Feed!feedVars
  <2>1. CASE AppendEvent(j)
    BY <2>1, AppendPublishes
  <2>2. CASE SkipLine(j)
    <3>1. UNCHANGED <<log, sup, call, stream>>
      BY <2>2 DEF SkipLine, dbVars, runnerVars
    <3> QED BY <3>1, Stutter
  <2>3. CASE ChokeOnLine(j)
    BY <1>0, <2>3, LossDisrupts
  <2>4. CASE DrainEof(j)
    <3>1. /\ UNCHANGED <<log, call, stream>> /\ sup[j] = "draining"
          /\ sup' = [sup EXCEPT ![j] = "waited"]
      BY <2>4 DEF DrainEof, dbVars
    <3> QED BY <1>0, <3>1, Stutter DEF Gone
  <2>5. CASE Finish(j)
    BY <1>0, <2>5, FinishSeals
  <2>6. CASE FinishExcept(j)
    <3>1. /\ UNCHANGED <<log, call, stream>> /\ sup[j] = "raised"
          /\ sup' = [sup EXCEPT ![j] = "broken"]
      BY <2>6 DEF FinishExcept
    <3> QED BY <1>0, <3>1, Stutter DEF Gone
  <2> QED BY <1>4, <2>1, <2>2, <2>3, <2>4, <2>5, <2>6 DEF Supervise
<1>5. ASSUME NEW c \in Calls, NEW r \in Runners, NEW j \in Jobs, CancelStart(c, r, j)
      PROVE  Feed!Next
  <2>1. UNCHANGED <<log, sup, stream>>
    BY <1>5 DEF CancelStart, CancelNoop, CancelTerminate, CancelUnowned, dbVars, runnerVars
  <2> QED BY <1>0, <2>1, CancelDisrupts
<1>6. ASSUME NEW c \in Calls, CancelWrite(c)
      PROVE  Feed!Next
  <2>1. UNCHANGED <<log, sup, stream>>
    BY <1>6 DEF CancelWrite, runnerVars
  <2> QED BY <1>0, <2>1, CancelDisrupts
<1>7. ASSUME NEW t \in Streams, NEW r \in Runners, NEW j \in Jobs, StreamOpen(t, r, j)
      PROVE  Feed!Next
  BY <1>0, <1>7, OpenAttaches
<1>8. ASSUME NEW t \in Streams, StreamStep(t)
      PROVE  Feed!Next \/ UNCHANGED Feed!feedVars
  <2>1. CASE Yield(t)
    BY <2>1, YieldReceives
  <2>2. CASE StreamEnd(t)
    BY <2>2, StreamEndEnds
  <2>3. CASE PollRows(t) \/ PollState(t) \/ StreamAgain(t)
    <3>1. /\ UNCHANGED <<log, sup, call>> /\ stream[t].pc \in {"poll", "polled", "deliver"}
          /\ \A u \in Streams \ {t} : stream'[u] = stream[u]
      BY <1>0, <2>3 DEF TypeOK, PollRows, PollState, StreamAgain, dbVars, runnerVars
    <3>2. stream[t] \in ActiveStream /\ stream \in [Streams -> Stream]
      BY <1>0, <3>1 DEF TypeOK, Stream, NoStream
    <3>3. /\ stream'[t].job = stream[t].job /\ stream'[t].got = stream[t].got
          /\ stream'[t].pc \in {"poll", "polled", "deliver"}
      BY <2>3, <3>2 DEF PollRows, PollState, StreamAgain, ActiveStream
    <3>4. Sealed' = Sealed /\ Disrupted' = Disrupted
      BY <3>1, SealedSame, DisruptedSame
    <3>5. Reader' = Reader
      BY <3>1, <3>3, ReaderSame
    <3> QED BY <3>1, <3>4, <3>5 DEF Feed!feedVars
  <2> QED BY <1>8, <2>1, <2>2, <2>3 DEF StreamStep
<1>9. ASSUME NEW r \in Runners, Crash(r)
      PROVE  Feed!Next
  BY <1>0, <1>9, CrashDisrupts
<1>10. ASSUME NEW r \in Runners, Restart(r)
       PROVE  UNCHANGED Feed!feedVars
  <2>1. UNCHANGED <<log, sup, call, stream>>
    BY <1>10 DEF Restart, dbVars
  <2> QED BY <2>1, Stutter
<1>11. CASE UNCHANGED vars
  <2>1. UNCHANGED <<log, sup, call, stream>>
    BY <1>11 DEF vars, dbVars, runnerVars
  <2> QED BY <2>1, Stutter
<1> QED
  BY <1>1, <1>2, <1>3, <1>4, <1>5, <1>6, <1>7, <1>8, <1>9, <1>10, <1>11 DEF Next

(***************************************************************************)
(* The job runner implements the feed: whatever the threads, processes,    *)
(* cancels and crashes do, a stream delivers the exact sequence of the     *)
(* events of its job, and ends early only when the job was disrupted.      *)
(***************************************************************************)
THEOREM RunnerImplementsFeed == Spec => ImplementsFeed
<1>1. Spec => []FeedInv
  BY FeedInvInit, FeedInvStep, Inductive, PTL DEF Spec
<1>2. Spec => Feed!Spec
  BY <1>1, FeedInit, FeedStep, Inductive, PTL DEF Spec, Feed!Spec
<1> QED BY <1>2 DEF ImplementsFeed

(***************************************************************************)
(* What was proved of the feed holds of the runner.                        *)
(***************************************************************************)
Kept == INSTANCE EventFeed_proofs WITH
  Feeds <- Jobs, Readers <- Streams, Items <- 1 .. MaxLines, NoFeed <- Nobody,
  feed <- log, sealed <- Sealed, disrupted <- Disrupted, reader <- Reader

LEMMA KeptSpec == Feed!Spec => Kept!Spec
<1>1. Feed!Init => Kept!Init
  BY DEF Feed!Init, Kept!Init
<1>2. [Feed!Next]_(Feed!feedVars) => [Kept!Next]_(Kept!feedVars)
  BY DEF Feed!Next, Kept!Next, Feed!feedVars, Kept!feedVars, Feed!Publish, Kept!Publish,
         Feed!Seal, Kept!Seal, Feed!Disrupt, Kept!Disrupt, Feed!Attach, Kept!Attach,
         Feed!Receive, Kept!Receive, Feed!End, Kept!End
<1> QED BY <1>1, <1>2, PTL DEF Feed!Spec, Kept!Spec

(***************************************************************************)
(* At any time the events that a stream of the runner has delivered are    *)
(* the first of its job's, and a stream that ended delivered all of them,  *)
(* of a job that will have no more, or its job was disrupted.              *)
(***************************************************************************)
THEOREM StreamsAreServed == Spec => []Kept!Promise
<1>1. Kept!Spec => []Kept!Promise
  BY Kept!PromiseIsKept
<1> QED BY <1>1, KeptSpec, RunnerImplementsFeed, PTL DEF ImplementsFeed

(***************************************************************************)
(* The event log of a job only grows, and not after its drain is done.     *)
(***************************************************************************)
THEOREM LogsOnlyGrow == Spec => Kept!FeedsOnlyGrow
<1>1. Kept!Spec => Kept!FeedsOnlyGrow
  BY Kept!PublishedStays
<1> QED BY <1>1, KeptSpec, RunnerImplementsFeed, PTL DEF ImplementsFeed
=============================================================================
