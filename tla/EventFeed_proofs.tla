-------------------------- MODULE EventFeed_proofs --------------------------
(***************************************************************************)
(* Proofs about EventFeed: what its steps add up to for a reader, for any  *)
(* feeds, readers and items.                                               *)
(***************************************************************************)
EXTENDS EventFeed, SequenceTheorems, TLAPS

(***************************************************************************)
(* The types of the variables.                                             *)
(***************************************************************************)
FeedTypeOK ==
  /\ feed \in [Feeds -> Seq(Items)]
  /\ sealed \subseteq Feeds
  /\ disrupted \subseteq Feeds
  /\ reader \in [Readers -> [of : Feeds \cup {NoFeed}, got : Seq(Items), ended : BOOLEAN]]

\* What was received is how the feed begins.
Follows(r) ==
  Len(r.got) <= Len(feed[r.of]) /\ \A i \in 1 .. Len(r.got) : r.got[i] = feed[r.of][i]

\* A reader that ended has everything there will ever be, or was cut off.
Complete(r) == r.of \in sealed /\ r.got = feed[r.of]

Served(r) ==
  IF r.of = NoFeed THEN r.got = <<>> /\ ~r.ended
  ELSE Follows(r) /\ (r.ended => Complete(r) \/ r.of \in disrupted)

(***************************************************************************)
(* The promise: at any time each reader has the beginning of its feed,     *)
(* nothing missing and nothing twice, and one that ended has all of it     *)
(* unless its feed was disrupted.                                          *)
(***************************************************************************)
Promise == \A t \in Readers : Served(reader[t])

(***************************************************************************)
(* Nothing that was published is taken back, and a sealed feed is final.   *)
(***************************************************************************)
FeedsOnlyGrow ==
  [][\A f \in Feeds :
       /\ Len(feed[f]) <= Len(feed'[f])
       /\ \A i \in 1 .. Len(feed[f]) : feed'[f][i] = feed[f][i]
       /\ f \in sealed => f \in sealed' /\ feed'[f] = feed[f]]_feedVars

FeedsInv == FeedTypeOK /\ Promise

(***************************************************************************)
(* Appending keeps the beginning.                                          *)
(***************************************************************************)
LEMMA AppendKeeps ==
  ASSUME NEW s \in Seq(Items), NEW x \in Items
  PROVE  /\ Append(s, x) \in Seq(Items) /\ Len(Append(s, x)) = Len(s) + 1
         /\ \A i \in 1 .. Len(s) : Append(s, x)[i] = s[i]
         /\ Append(s, x)[Len(s) + 1] = x
BY AppendProperties

LEMMA PublishKeeps ==
  ASSUME FeedsInv, NEW f \in Feeds, Publish(f)
  PROVE  FeedsInv'
<1> USE DEF FeedsInv
<1>1. PICK item \in Items : feed' = [feed EXCEPT ![f] = Append(feed[f], item)]
  BY DEF Publish
<1>2. f \notin sealed /\ UNCHANGED <<sealed, disrupted, reader>>
  BY DEF Publish
<1> DEFINE new == Append(feed[f], item)
<1>3. /\ feed[f] \in Seq(Items) /\ new \in Seq(Items) /\ Len(new) = Len(feed[f]) + 1
      /\ \A i \in 1 .. Len(feed[f]) : new[i] = feed[f][i]
  BY AppendKeeps DEF FeedTypeOK
<1> HIDE DEF new
<1>4. feed' = [feed EXCEPT ![f] = new]
  BY <1>1 DEF new
<1>5. FeedTypeOK'
  BY <1>2, <1>3, <1>4 DEF FeedTypeOK
<1>6. ASSUME NEW t \in Readers PROVE Served(reader[t])'
  <2>1. Served(reader[t]) /\ reader'[t] = reader[t] /\ reader[t].of \in Feeds \cup {NoFeed} /\ reader[t].got \in Seq(Items)
    BY <1>2 DEF Promise, FeedTypeOK
  <2>2. CASE reader[t].of # f \/ reader[t].of = NoFeed
    BY <1>2, <1>4, <2>1, <2>2 DEF Served, Follows, Complete, FeedTypeOK
  <2>3. CASE reader[t].of = f /\ reader[t].of # NoFeed
    <3>1. feed'[f] = new
      BY <1>4 DEF FeedTypeOK
    <3>2. Len(reader[t].got) \in Nat /\ Len(feed[f]) \in Nat
      BY <1>3, <2>1
    <3>3. Follows(reader[t]) /\ (reader[t].ended => reader[t].of \in disrupted)
      BY <1>2, <2>1, <2>3 DEF Served, Complete
    <3>4. Follows(reader[t])'
      BY <1>3, <2>1, <2>3, <3>1, <3>2, <3>3 DEF Follows
    <3> QED BY <1>2, <2>1, <2>3, <3>3, <3>4 DEF Served
  <2> QED BY <2>2, <2>3
<1> QED BY <1>5, <1>6 DEF Promise

LEMMA SealKeeps ==
  ASSUME FeedsInv, NEW f \in Feeds, Seal(f)
  PROVE  FeedsInv'
BY DEF FeedsInv, FeedTypeOK, Promise, Served, Follows, Complete, Seal

LEMMA DisruptKeeps ==
  ASSUME FeedsInv, NEW fs \in SUBSET Feeds, Disrupt(fs)
  PROVE  FeedsInv'
BY DEF FeedsInv, FeedTypeOK, Promise, Served, Follows, Complete, Disrupt

LEMMA AttachKeeps ==
  ASSUME FeedsInv, NEW t \in Readers, NEW f \in Feeds, Attach(t, f)
  PROVE  FeedsInv'
<1> USE DEF FeedsInv
<1>1. /\ reader[t].of = NoFeed /\ UNCHANGED <<feed, sealed, disrupted>>
      /\ reader' = [reader EXCEPT ![t].of = f]
  BY DEF Attach
<1>2. FeedTypeOK'
  BY <1>1 DEF FeedTypeOK
<1>3. /\ reader'[t].of = f /\ reader'[t].got = reader[t].got /\ reader'[t].ended = reader[t].ended
      /\ \A u \in Readers \ {t} : reader'[u] = reader[u]
  BY <1>1 DEF FeedTypeOK
<1>4. reader[t].got = <<>> /\ ~reader[t].ended
  BY <1>1 DEF Promise, Served
<1>5. Len(feed[f]) \in Nat
  BY DEF FeedTypeOK
<1>6. Served(reader[t])'
  BY <1>1, <1>3, <1>4, <1>5 DEF Served, Follows
<1>7. \A u \in Readers \ {t} : Served(reader[u])'
  BY <1>1, <1>3 DEF Promise, Served, Follows, Complete
<1> QED BY <1>2, <1>6, <1>7 DEF Promise

LEMMA ReceiveKeeps ==
  ASSUME FeedsInv, NEW t \in Readers, reader[t].of # NoFeed, Receive(t)
  PROVE  FeedsInv'
<1> USE DEF FeedsInv
<1> DEFINE next == feed[reader[t].of][Len(reader[t].got) + 1]
           more == Append(reader[t].got, next)
<1>1. /\ ~reader[t].ended /\ Len(reader[t].got) < Len(feed[reader[t].of])
      /\ reader' = [reader EXCEPT ![t].got = more] /\ UNCHANGED <<feed, sealed, disrupted>>
  BY DEF Receive
<1>2. /\ reader[t].got \in Seq(Items) /\ feed[reader[t].of] \in Seq(Items)
      /\ reader[t].of \in Feeds
  BY DEF FeedTypeOK
<1>3. next \in Items
  BY <1>1, <1>2
<1>4. /\ more \in Seq(Items) /\ Len(more) = Len(reader[t].got) + 1
      /\ \A i \in 1 .. Len(reader[t].got) : more[i] = reader[t].got[i]
      /\ more[Len(reader[t].got) + 1] = next
  <2> HIDE DEF next
  <2> QED BY <1>2, <1>3, AppendKeeps
<1> HIDE DEF more
<1>5. FeedTypeOK'
  BY <1>1, <1>4 DEF FeedTypeOK
<1>6. /\ reader'[t].of = reader[t].of /\ reader'[t].got = more /\ reader'[t].ended = reader[t].ended
      /\ \A u \in Readers \ {t} : reader'[u] = reader[u]
  BY <1>1 DEF FeedTypeOK
<1>7. Follows(reader[t])
  BY DEF Promise, Served
<1>8. Follows(reader[t])'
  BY <1>1, <1>2, <1>4, <1>6, <1>7 DEF Follows
<1>9. Served(reader[t])'
  BY <1>1, <1>6, <1>8 DEF Served
<1>10. \A u \in Readers \ {t} : Served(reader[u])'
  BY <1>1, <1>6 DEF Promise, Served, Follows, Complete
<1> QED BY <1>5, <1>9, <1>10 DEF Promise

LEMMA EndKeeps ==
  ASSUME FeedsInv, NEW t \in Readers, reader[t].of # NoFeed, End(t)
  PROVE  FeedsInv'
<1> USE DEF FeedsInv
<1>1. /\ Complete(reader[t]) \/ reader[t].of \in disrupted
      /\ reader' = [reader EXCEPT ![t].ended = TRUE] /\ UNCHANGED <<feed, sealed, disrupted>>
  BY DEF End, Complete
<1>2. FeedTypeOK'
  BY <1>1 DEF FeedTypeOK
<1>3. /\ reader'[t].of = reader[t].of /\ reader'[t].got = reader[t].got
      /\ \A u \in Readers \ {t} : reader'[u] = reader[u]
  BY <1>1 DEF FeedTypeOK
<1>4. Served(reader[t])'
  BY <1>1, <1>3 DEF Promise, Served, Follows, Complete
<1>5. \A u \in Readers \ {t} : Served(reader[u])'
  BY <1>1, <1>3 DEF Promise, Served, Follows, Complete
<1> QED BY <1>2, <1>4, <1>5 DEF Promise

LEMMA FeedsInvInit == Init => FeedsInv
BY DEF Init, FeedsInv, FeedTypeOK, Promise, Served

LEMMA FeedsInvStep == FeedsInv /\ [Next]_feedVars => FeedsInv'
<1> SUFFICES ASSUME FeedsInv, [Next]_feedVars PROVE FeedsInv'
  OBVIOUS
<1>1. CASE UNCHANGED feedVars
  BY <1>1 DEF feedVars, FeedsInv, FeedTypeOK, Promise, Served, Follows, Complete
<1>2. CASE Next
  BY <1>2, PublishKeeps, SealKeeps, DisruptKeeps, AttachKeeps, ReceiveKeeps, EndKeeps DEF Next
<1> QED BY <1>1, <1>2

(***************************************************************************)
(* Whoever streams gets what was published, in order, and is told the end  *)
(* of it only when there is one.                                           *)
(***************************************************************************)
THEOREM PromiseIsKept == Spec => []Promise
<1>1. FeedsInv => Promise
  BY DEF FeedsInv
<1> QED BY <1>1, FeedsInvInit, FeedsInvStep, PTL DEF Spec

(***************************************************************************)
(* What was published stays, and nothing follows the seal.                 *)
(***************************************************************************)
THEOREM PublishedStays == Spec => FeedsOnlyGrow
<1> DEFINE Grow == \A f \in Feeds :
                     /\ Len(feed[f]) <= Len(feed'[f])
                     /\ \A i \in 1 .. Len(feed[f]) : feed'[f][i] = feed[f][i]
                     /\ f \in sealed => f \in sealed' /\ feed'[f] = feed[f]
<1>1. ASSUME FeedsInv, feed' = feed, sealed \subseteq sealed' PROVE Grow
  <2>1. \A f \in Feeds : Len(feed[f]) \in Nat
    BY <1>1 DEF FeedsInv, FeedTypeOK
  <2> QED BY <1>1, <2>1
<1>2. ASSUME FeedsInv, NEW f \in Feeds, Publish(f) PROVE Grow
  <2>1. PICK item \in Items : feed' = [feed EXCEPT ![f] = Append(feed[f], item)]
    BY <1>2 DEF Publish
  <2>2. f \notin sealed /\ sealed' = sealed
    BY <1>2 DEF Publish
  <2> DEFINE new == Append(feed[f], item)
  <2>3. /\ feed[f] \in Seq(Items) /\ Len(new) = Len(feed[f]) + 1
        /\ \A i \in 1 .. Len(feed[f]) : new[i] = feed[f][i]
    BY <1>2, AppendKeeps DEF FeedsInv, FeedTypeOK
  <2> HIDE DEF new
  <2>4. feed'[f] = new /\ \A g \in Feeds \ {f} : feed'[g] = feed[g]
    BY <1>2, <2>1 DEF FeedsInv, FeedTypeOK, new
  <2>5. \A g \in Feeds : Len(feed[g]) \in Nat
    BY <1>2 DEF FeedsInv, FeedTypeOK
  <2> QED BY <2>2, <2>3, <2>4, <2>5
<1>3. FeedsInv /\ [Next]_feedVars => [Grow]_feedVars
  <2> SUFFICES ASSUME FeedsInv, Next PROVE Grow
    OBVIOUS
  <2>1. ASSUME NEW f \in Feeds, Seal(f) PROVE Grow
    BY <1>1, <2>1 DEF Seal
  <2>2. ASSUME NEW fs, Disrupt(fs) PROVE Grow
    BY <1>1, <2>2 DEF Disrupt
  <2>3. ASSUME NEW t, NEW f, Attach(t, f) PROVE Grow
    BY <1>1, <2>3 DEF Attach
  <2>4. ASSUME NEW t, Receive(t) \/ End(t) PROVE Grow
    BY <1>1, <2>4 DEF Receive, End
  <2> QED BY <1>2, <2>1, <2>2, <2>3, <2>4 DEF Next
<1> HIDE DEF Grow
<1>4. Spec => [][Grow]_feedVars
  BY <1>3, FeedsInvInit, FeedsInvStep, PTL DEF Spec
<1> QED BY <1>4 DEF Grow, FeedsOnlyGrow
=============================================================================
