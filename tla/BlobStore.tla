------------------------------ MODULE BlobStore ------------------------------
(***************************************************************************)
(* BlobStore: one file per content, named by its hash, in a directory that *)
(* the threads and processes of several apps share without a lock.         *)
(*                                                                         *)
(* Who moves.  Each call of write() and of prune_orphans() is an actor; a  *)
(* step is one access to the directory or one write to an open file.  A    *)
(* call may die at any step, with its process or with an OSError.          *)
(*                                                                         *)
(* Data.  A content is its digest.  A file is an inode with the chunks     *)
(* written so far; an inode is the call that created it, and keeps its     *)
(* content when it is renamed while somebody has it open.                  *)
(***************************************************************************)
EXTENDS Naturals

CONSTANTS
  Digests,  \* hashes of the contents
  Writers,  \* calls of write()
  Pruners,  \* calls of prune_orphans()
  Chunks,   \* number of writes that make a whole file
  None      \* no file, no content yet

ASSUME DigestsAssumption == Digests \subseteq Nat
ASSUME ChunksAssumption == Chunks \in Nat
ASSUME NoneAssumption == None \notin Digests \cup Writers

(***************************************************************************)
(* Definitions named Wrong... are plausible mistakes in the definition     *)
(* that follows them.  Nothing uses them.                                  *)
(***************************************************************************)

VARIABLES
  blob,     \* the inode named <digest>
  tmp,      \* the inode named <digest>.tmp
  content,  \* chunks of each inode
  pc,       \* where each write() stands
  what,     \* the content it writes
  fd,       \* the inode it has open, or had
  at,       \* how many chunks it has written
  refs,     \* digests that saved records refer to
  prune     \* each prune_orphans()

names == <<blob, tmp>>
writing == <<pc, what, fd, at>>
vars == <<names, content, writing, refs, prune>>

-----------------------------------------------------------------------------
(***************************************************************************)
(* write(): look for the blob, write a temporary file, rename it.          *)
(***************************************************************************)

\* A temporary file counts as stored.
WrongExists(d) == blob[d] # None \/ tmp[d] # None

Exists(d) == blob[d] # None

Check(w, d) ==
  /\ pc[w] = "idle"
  /\ what' = [what EXCEPT ![w] = d]
  /\ pc' = [pc EXCEPT ![w] = IF Exists(d) THEN "done" ELSE "open"]
  /\ UNCHANGED <<names, content, fd, at, refs, prune>>

\* The inode that opening <digest>.tmp for writing yields.
Opened(w) == IF tmp[what[w]] = None THEN w ELSE tmp[what[w]]

\* Opening truncates, whoever else has the file open.
Open(w) ==
  /\ pc[w] = "open"
  /\ tmp' = [tmp EXCEPT ![what[w]] = Opened(w)]
  /\ content' = [content EXCEPT ![Opened(w)] = {}]
  /\ fd' = [fd EXCEPT ![w] = Opened(w)]
  /\ pc' = [pc EXCEPT ![w] = "fill"]
  /\ UNCHANGED <<blob, what, at, refs, prune>>

\* The file is closed before its last chunk is written.
WrongFilled(w) == at[w] + 1 >= Chunks

Filled(w) == at[w] = Chunks

\* One chunk too many.
WrongFill(w) ==
  /\ pc[w] = "fill" /\ at[w] <= Chunks
  /\ content' = [content EXCEPT ![fd[w]] = @ \cup {at[w] + 1}]
  /\ at' = [at EXCEPT ![w] = @ + 1]
  /\ UNCHANGED <<names, pc, what, fd, refs, prune>>

Fill(w) ==
  /\ pc[w] = "fill" /\ ~Filled(w)
  /\ content' = [content EXCEPT ![fd[w]] = @ \cup {at[w] + 1}]
  /\ at' = [at EXCEPT ![w] = @ + 1]
  /\ UNCHANGED <<names, pc, what, fd, refs, prune>>

Replace(w) ==
  /\ pc[w] = "fill" /\ Filled(w)
  /\ tmp[what[w]] # None
  /\ blob' = [blob EXCEPT ![what[w]] = tmp[what[w]]]
  /\ tmp' = [tmp EXCEPT ![what[w]] = None]
  /\ pc' = [pc EXCEPT ![w] = "done"]
  /\ UNCHANGED <<content, what, fd, at, refs, prune>>

\* Another call has renamed the temporary file: FileNotFoundError.
ReplaceFails(w) ==
  /\ pc[w] = "fill" /\ Filled(w)
  /\ tmp[what[w]] = None
  /\ pc' = [pc EXCEPT ![w] = "raised"]
  /\ UNCHANGED <<names, content, what, fd, at, refs, prune>>

\* The process ends, or the disk is full; what was written stays.
Die(w) ==
  /\ pc[w] \in {"open", "fill"}
  /\ pc' = [pc EXCEPT ![w] = "dead"]
  /\ UNCHANGED <<names, content, what, fd, at, refs, prune>>

\* The caller saves a record that carries the hash it was given.
Record(w) ==
  /\ pc[w] = "done"
  /\ refs' = refs \cup {what[w]}
  /\ pc' = [pc EXCEPT ![w] = "recorded"]
  /\ UNCHANGED <<names, content, what, fd, at, prune>>

-----------------------------------------------------------------------------
(***************************************************************************)
(* prune_orphans(live_refs): list the directory once, then test and unlink *)
(* file by file in the order of the names.                                 *)
(***************************************************************************)

\* The caller gathers the references of the records saved so far.
Gather(p) ==
  /\ prune[p].pc = "idle"
  /\ prune' = [prune EXCEPT ![p].pc = "list", ![p].live = refs]
  /\ UNCHANGED <<names, content, writing, refs>>

List(p) ==
  /\ prune[p].pc = "list"
  /\ prune' = [prune EXCEPT ![p].pc = "test", ![p].todo = {d \in Digests : Exists(d)}]
  /\ UNCHANGED <<names, content, writing, refs>>

\* File d comes next.
Due(p, d) == d \in prune[p].todo /\ \A e \in prune[p].todo : d <= e

\* Live references are deleted, too.
WrongOrphan(p, d) == Exists(d)

Orphan(p, d) == Exists(d) /\ d \notin prune[p].live

Spare(p, d) ==
  /\ prune[p].pc = "test" /\ Due(p, d)
  /\ ~Orphan(p, d)
  /\ prune' = [prune EXCEPT ![p].todo = @ \ {d}]
  /\ UNCHANGED <<names, content, writing, refs>>

Condemn(p, d) ==
  /\ prune[p].pc = "test" /\ Due(p, d)
  /\ Orphan(p, d)
  /\ prune' = [prune EXCEPT ![p].pc = "unlink"]
  /\ UNCHANGED <<names, content, writing, refs>>

Unlink(p, d) ==
  /\ prune[p].pc = "unlink" /\ Due(p, d)
  /\ Exists(d)
  /\ blob' = [blob EXCEPT ![d] = None]
  /\ prune' = [prune EXCEPT ![p].pc = "test", ![p].todo = @ \ {d}, ![p].gone = @ \cup {d}]
  /\ UNCHANGED <<tmp, content, writing, refs>>

\* Another pruner was faster: FileNotFoundError.
UnlinkFails(p, d) ==
  /\ prune[p].pc = "unlink" /\ Due(p, d)
  /\ ~Exists(d)
  /\ prune' = [prune EXCEPT ![p].pc = "raised"]
  /\ UNCHANGED <<names, content, writing, refs>>

-----------------------------------------------------------------------------
Init ==
  /\ blob = [d \in Digests |-> None]
  /\ tmp = [d \in Digests |-> None]
  /\ content = [i \in Writers |-> {}]
  /\ pc = [w \in Writers |-> "idle"]
  /\ what = [w \in Writers |-> None]
  /\ fd = [w \in Writers |-> None]
  /\ at = [w \in Writers |-> 0]
  /\ refs = {}
  /\ prune = [p \in Pruners |-> [pc |-> "idle", live |-> {}, todo |-> {}, gone |-> {}]]

Write(w) == Open(w) \/ Fill(w) \/ Replace(w) \/ ReplaceFails(w)
Prune(p) ==
  \/ Gather(p) \/ List(p)
  \/ \E d \in Digests : Spare(p, d) \/ Condemn(p, d) \/ Unlink(p, d) \/ UnlinkFails(p, d)

Next ==
  \/ \E w \in Writers, d \in Digests : Check(w, d)
  \/ \E w \in Writers : Write(w) \/ Die(w) \/ Record(w)
  \/ \E p \in Pruners : Prune(p)

Spec == Init /\ [][Next]_vars

\* A call that has started goes on until it ends or dies.
Fairness == \A w \in Writers : WF_vars(Write(w))

FairSpec == Spec /\ Fairness

-----------------------------------------------------------------------------
(***************************************************************************)
(* Properties.                                                             *)
(***************************************************************************)

File == Writers \cup {None}
Pruning == [pc : {"idle", "list", "test", "unlink", "raised"}, live : SUBSET Digests,
            todo : SUBSET Digests, gone : SUBSET Digests]

(***************************************************************************)
(* What each variable may hold.                                            *)
(***************************************************************************)
TypeOK ==
  /\ blob \in [Digests -> File]
  /\ tmp \in [Digests -> File]
  /\ content \in [Writers -> SUBSET (1 .. Chunks)]
  /\ pc \in [Writers -> {"idle", "open", "fill", "done", "recorded", "raised", "dead"}]
  /\ what \in [Writers -> Digests \cup {None}]
  /\ fd \in [Writers -> File]
  /\ at \in [Writers -> 0 .. Chunks]
  /\ refs \in SUBSET Digests
  /\ prune \in [Pruners -> Pruning]

Whole(i) == content[i] = 1 .. Chunks

\* Call w is still going to write every chunk that inode i lacks.
WillComplete(w, i) ==
  pc[w] = "fill" /\ fd[w] = i /\ \A k \in 1 .. Chunks : k \in content[i] \/ k > at[w]

(***************************************************************************)
(* As write() has it, "store if new (atomically)" and "atomic on POSIX"    *)
(* (blob_store.py:23, 29): a file that has the name of a blob is whole.    *)
(***************************************************************************)
StoredAtomically == \A d \in Digests : blob[d] # None => Whole(blob[d])

(***************************************************************************)
(* A blob that is not whole has a writer that will complete it, or one     *)
(* that died on it.  Two writers of one content share the temporary file   *)
(* and may publish it unfinished, but never leave it so by themselves.     *)
(***************************************************************************)
TornHasWriter ==
  \A d \in Digests : blob[d] # None /\ ~Whole(blob[d]) =>
    \E w \in Writers : WillComplete(w, blob[d]) \/ (pc[w] = "dead" /\ fd[w] = blob[d])

Pruned(d) == \E p \in Pruners : d \in prune[p].gone

(***************************************************************************)
(* A write() that returns, and also one that raises because its temporary  *)
(* file is gone, leaves a blob of its content, unless a pruner deletes it. *)
(***************************************************************************)
EndedWriteIsStored ==
  \A w \in Writers : pc[w] \in {"done", "recorded", "raised"} =>
    blob[what[w]] # None \/ Pruned(what[w])

(***************************************************************************)
(* A blob whose hash was saved before any pruner gathered its references   *)
(* is there; only a pruner with older references can take it away.         *)
(***************************************************************************)
ReferencedBlobsStay ==
  \A d \in refs :
    (\A p \in Pruners : prune[p].pc # "idle" => d \in prune[p].live) => blob[d] # None

(***************************************************************************)
(* A blob published unfinished becomes whole, is pruned, or has lost the   *)
(* writer that was to complete it.                                         *)
(***************************************************************************)
Torn(d) == blob[d] # None /\ ~Whole(blob[d])

TornHeals ==
  \A d \in Digests : Torn(d) ~> (~Torn(d) \/ \E w \in Writers : what[w] = d /\ pc[w] = "dead")
=============================================================================
