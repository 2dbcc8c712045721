------------------------------ MODULE EventFeed ------------------------------
(***************************************************************************)
(* What the job runner promises those who stream a job, with no database,  *)
(* lock, poll or process in it: every reader of a feed receives what was   *)
(* published, in order, nothing missing and nothing twice; once a feed is  *)
(* sealed nothing more is published; and a reader ends only when it has    *)
(* everything of a sealed feed, unless the feed was disrupted (its job     *)
(* cancelled, its runner gone, its drain broken), when it may end early.   *)
(***************************************************************************)
EXTENDS Naturals, Sequences

CONSTANTS
  Feeds,    \* one for each job
  Readers,  \* one for each stream
  Items,    \* what may be published
  NoFeed    \* a reader that is not attached

VARIABLES
  feed,       \* what was published, in order
  sealed,     \* feeds that are complete
  disrupted,  \* feeds that may never be
  reader      \* the feed, what was received, whether it ended

feedVars == <<feed, sealed, disrupted, reader>>

Init ==
  /\ feed = [f \in Feeds |-> <<>>]
  /\ sealed = {}
  /\ disrupted = {}
  /\ reader = [t \in Readers |-> [of |-> NoFeed, got |-> <<>>, ended |-> FALSE]]

Publish(f) ==
  /\ f \notin sealed
  /\ \E item \in Items : feed' = [feed EXCEPT ![f] = Append(@, item)]
  /\ UNCHANGED <<sealed, disrupted, reader>>

Seal(f) ==
  /\ sealed' = sealed \cup {f}
  /\ UNCHANGED <<feed, disrupted, reader>>

\* A runner that goes takes all its feeds with it.
Disrupt(fs) ==
  /\ disrupted' = disrupted \cup fs
  /\ UNCHANGED <<feed, sealed, reader>>

Attach(t, f) ==
  /\ reader[t].of = NoFeed
  /\ reader' = [reader EXCEPT ![t].of = f]
  /\ UNCHANGED <<feed, sealed, disrupted>>

Receive(t) ==
  /\ ~reader[t].ended
  /\ Len(reader[t].got) < Len(feed[reader[t].of])
  /\ reader' = [reader EXCEPT ![t].got = Append(@, feed[reader[t].of][Len(@) + 1])]
  /\ UNCHANGED <<feed, sealed, disrupted>>

End(t) ==
  /\ ~reader[t].ended
  /\ \/ reader[t].of \in sealed /\ reader[t].got = feed[reader[t].of]
     \/ reader[t].of \in disrupted
  /\ reader' = [reader EXCEPT ![t].ended = TRUE]
  /\ UNCHANGED <<feed, sealed, disrupted>>

Next ==
  \/ \E f \in Feeds : Publish(f) \/ Seal(f)
  \/ \E fs \in SUBSET Feeds : Disrupt(fs)
  \/ \E t \in Readers, f \in Feeds : Attach(t, f)
  \/ \E t \in Readers : reader[t].of # NoFeed /\ (Receive(t) \/ End(t))

Spec == Init /\ [][Next]_feedVars
=============================================================================
