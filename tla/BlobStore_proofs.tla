--------------------------- MODULE BlobStore_proofs ---------------------------
(***************************************************************************)
(* Proofs about BlobStore, for any contents, any number of concurrent      *)
(* writers and pruners and files of any number of chunks.                  *)
(***************************************************************************)
EXTENDS BlobStore, TLAPS

(***************************************************************************)
(* The inductive invariant.  Every inode that has a name is whole, will be *)
(* completed, or lost its writer; a call that has its file open can still  *)
(* rename it, or somebody else has; a pruner deletes no live reference.    *)
(***************************************************************************)
Accounted(i) ==
  \/ Whole(i)
  \/ \E w \in Writers : WillComplete(w, i) \/ (pc[w] = "dead" /\ fd[w] = i)

NamesInv ==
  \A d \in Digests : /\ blob[d] # None => Accounted(blob[d])
                     /\ tmp[d] # None => Accounted(tmp[d])

Stored(d) == blob[d] # None \/ Pruned(d)

Progress(w) ==
  /\ pc[w] # "idle" => what[w] \in Digests
  /\ pc[w] \in {"idle", "open"} => at[w] = 0
  /\ pc[w] = "fill" => fd[w] \in Writers /\ (tmp[what[w]] # None \/ Stored(what[w]))

ProgressInv == \A w \in Writers : Progress(w)

RefsInv == \A d \in refs : \E w \in Writers : pc[w] = "recorded" /\ what[w] = d

Careful(p) ==
  /\ prune[p].gone \cap prune[p].live = {}
  /\ prune[p].pc = "idle" => prune[p].gone = {}
  /\ prune[p].pc = "unlink" => \A d \in Digests : Due(p, d) => d \notin prune[p].live

CarefulInv == \A p \in Pruners : Careful(p)

IInv == TypeOK /\ NamesInv /\ ProgressInv /\ EndedWriteIsStored /\ RefsInv /\ CarefulInv

LEMMA InvInit == Init => IInv
<1> SUFFICES ASSUME Init PROVE IInv
  OBVIOUS
<1> USE DEF Init
<1>1. 0 \in 0 .. Chunks
  BY ChunksAssumption
<1>2. TypeOK
  BY <1>1 DEF TypeOK, File, Pruning
<1>3. NamesInv /\ ProgressInv /\ EndedWriteIsStored /\ RefsInv
  BY DEF NamesInv, ProgressInv, Progress, EndedWriteIsStored, RefsInv
<1>4. CarefulInv
  BY DEF CarefulInv, Careful
<1> QED BY <1>2, <1>3, <1>4 DEF IInv

(***************************************************************************)
(* A call that has written all its chunks leaves nothing to complete.      *)
(***************************************************************************)
LEMMA CompletedIsWhole ==
  ASSUME TypeOK, NEW w \in Writers, NEW i \in Writers, WillComplete(w, i), Filled(w)
  PROVE  Whole(i)
<1>1. \A k \in 1 .. Chunks : ~(k > at[w])
  BY ChunksAssumption DEF Filled
<1>2. \A k \in 1 .. Chunks : k \in content[i]
  BY <1>1 DEF WillComplete
<1>3. content[i] \subseteq 1 .. Chunks
  BY DEF TypeOK
<1> QED BY <1>2, <1>3 DEF Whole

(***************************************************************************)
(* A step of one call that leaves the contents alone keeps every inode     *)
(* accounted for, if the call was done with its file or dies on it.        *)
(***************************************************************************)
LEMMA AccountedFrame ==
  ASSUME TypeOK, NEW w \in Writers, NEW i \in Writers, Accounted(i),
         UNCHANGED <<content, fd, at>>,
         \A v \in Writers \ {w} : pc'[v] = pc[v],
         pc[w] = "fill" => pc'[w] = "dead" \/ Filled(w),
         pc[w] # "dead"
  PROVE  Accounted(i)'
<1>1. CASE Whole(i)
  BY <1>1 DEF Accounted, Whole
<1>2. ASSUME NEW v \in Writers, WillComplete(v, i) PROVE Accounted(i)'
  <2>1. CASE v # w
    BY <1>2, <2>1 DEF Accounted, WillComplete
  <2>2. CASE v = w /\ pc'[w] = "dead"
    BY <1>2, <2>2 DEF Accounted, WillComplete
  <2>3. CASE v = w /\ Filled(w)
    <3>1. Whole(i)
      BY <1>2, <2>3, CompletedIsWhole
    <3> QED BY <3>1 DEF Accounted, Whole
  <2> QED BY <1>2, <2>1, <2>2, <2>3 DEF WillComplete
<1>3. ASSUME NEW v \in Writers, pc[v] = "dead", fd[v] = i PROVE Accounted(i)'
  BY <1>3 DEF Accounted
<1> QED BY <1>1, <1>2, <1>3 DEF Accounted

-----------------------------------------------------------------------------
(***************************************************************************)
(* Every action preserves IInv.                                            *)
(***************************************************************************)
LEMMA CheckKeepsInv ==
  ASSUME IInv, NEW w \in Writers, NEW d \in Digests, Check(w, d)
  PROVE  IInv'
<1> USE DEF IInv
<1>1. pc[w] = "idle" /\ UNCHANGED <<names, content, fd, at, refs, prune>>
      /\ pc'[w] = (IF Exists(d) THEN "done" ELSE "open") /\ what'[w] = d
      /\ \A v \in Writers \ {w} : pc'[v] = pc[v] /\ what'[v] = what[v]
  BY DEF Check, TypeOK
<1>2. TypeOK'
  BY DEF Check, TypeOK, names
<1>3. NamesInv'
  BY <1>1, AccountedFrame DEF NamesInv, names, TypeOK, File
<1>4. ProgressInv'
  BY <1>1 DEF ProgressInv, Progress, Stored, Pruned, names
<1>5. EndedWriteIsStored'
  BY <1>1 DEF EndedWriteIsStored, Exists, Pruned, names
<1>6. RefsInv'
  BY <1>1 DEF RefsInv
<1>7. CarefulInv'
  BY <1>1 DEF CarefulInv, Careful, Due
<1> QED BY <1>2, <1>3, <1>4, <1>5, <1>6, <1>7

LEMMA OpenKeepsInv ==
  ASSUME IInv, NEW w \in Writers, Open(w)
  PROVE  IInv'
<1> USE DEF IInv
<1>a. what[w] \in Digests /\ Opened(w) \in Writers /\ at[w] = 0
  BY DEF Open, Opened, ProgressInv, Progress, TypeOK, File
<1>b. PICK i \in Writers, d \in Digests : i = Opened(w) /\ d = what[w]
  BY <1>a
<1>1. d \in Digests /\ i \in Writers /\ i # None /\ at[w] = 0
  BY <1>a, NoneAssumption
<1>2. /\ pc[w] = "open" /\ UNCHANGED <<blob, what, at, refs, prune>>
      /\ tmp' = [tmp EXCEPT ![d] = i] /\ content' = [content EXCEPT ![i] = {}]
      /\ fd' = [fd EXCEPT ![w] = i] /\ pc' = [pc EXCEPT ![w] = "fill"]
  BY <1>b DEF Open
<1>3. /\ fd'[w] = i /\ pc'[w] = "fill" /\ tmp'[d] = i
      /\ \A v \in Writers \ {w} : pc'[v] = pc[v] /\ fd'[v] = fd[v]
      /\ \A j \in Writers \ {i} : content'[j] = content[j]
      /\ \A e \in Digests \ {d} : tmp'[e] = tmp[e]
  BY <1>1, <1>2 DEF TypeOK
<1>4. TypeOK'
  BY <1>1, <1>2 DEF TypeOK, File
<1>5. Accounted(i)'
  <2>1. at'[w] = 0 /\ \A k \in 1 .. Chunks : k > 0
    BY <1>1, <1>2, ChunksAssumption
  <2>2. WillComplete(w, i)'
    BY <1>3, <2>1 DEF WillComplete
  <2> QED BY <2>2 DEF Accounted
<1>6. ASSUME NEW j \in Writers \ {i}, Accounted(j) PROVE Accounted(j)'
  BY <1>2, <1>3, <1>6 DEF Accounted, Whole, WillComplete
<1>7. NamesInv'
  <2>1. ASSUME NEW j \in Writers, Accounted(j) PROVE Accounted(j)'
    BY <1>5, <1>6, <2>1
  <2>2. ASSUME NEW e \in Digests, NEW j \in Writers, j = blob'[e] PROVE Accounted(j)'
    <3>1. j = blob[e] /\ blob[e] # None
      BY <1>2, <2>2, NoneAssumption
    <3>2. Accounted(j)
      BY <3>1 DEF NamesInv
    <3> QED BY <2>1, <3>2
  <2>3. ASSUME NEW e \in Digests, NEW j \in Writers, j = tmp'[e] PROVE Accounted(j)'
    <3>1. CASE e = d
      BY <1>3, <1>5, <2>3, <3>1
    <3>2. CASE e # d
      <4>1. j = tmp[e] /\ tmp[e] # None
        BY <1>3, <2>3, <3>2, NoneAssumption
      <4>2. Accounted(j)
        BY <4>1 DEF NamesInv
      <4> QED BY <2>1, <4>2
    <3> QED BY <3>1, <3>2
  <2>4. \A e \in Digests : blob'[e] \in Writers \cup {None} /\ tmp'[e] \in Writers \cup {None}
    BY <1>4 DEF TypeOK, File
  <2> QED BY <2>2, <2>3, <2>4 DEF NamesInv, Accounted, Whole, WillComplete
<1>8. ProgressInv'
  BY <1>b, <1>1, <1>2, <1>3 DEF ProgressInv, Progress, Stored, Pruned
<1>9. EndedWriteIsStored'
  BY <1>2, <1>3 DEF EndedWriteIsStored, Pruned
<1>10. RefsInv'
  BY <1>2, <1>3 DEF RefsInv
<1>11. CarefulInv'
  BY <1>2 DEF CarefulInv, Careful, Due
<1> QED BY <1>4, <1>7, <1>8, <1>9, <1>10, <1>11

LEMMA FillKeepsInv ==
  ASSUME IInv, NEW w \in Writers, Fill(w)
  PROVE  IInv'
<1> USE DEF IInv
<1> DEFINE i == fd[w]
<1>1. i \in Writers /\ at[w] \in 0 .. Chunks /\ at[w] # Chunks
  BY DEF Fill, Filled, ProgressInv, Progress, TypeOK
<1>2. at[w] + 1 \in 1 .. Chunks
  BY <1>1, ChunksAssumption
<1>3. /\ pc[w] = "fill" /\ UNCHANGED <<blob, tmp, pc, what, fd, refs, prune>>
      /\ content' = [content EXCEPT ![i] = content[i] \cup {at[w] + 1}]
      /\ at' = [at EXCEPT ![w] = at[w] + 1]
  BY DEF Fill, names
<1>4. /\ at'[w] = at[w] + 1 /\ content'[i] = content[i] \cup {at[w] + 1}
      /\ \A v \in Writers \ {w} : at'[v] = at[v]
      /\ \A j \in Writers \ {i} : content'[j] = content[j]
  BY <1>1, <1>3 DEF TypeOK
<1> HIDE DEF i
<1>5. TypeOK'
  <2>1. content' \in [Writers -> SUBSET (1 .. Chunks)] /\ at' \in [Writers -> 0 .. Chunks]
    BY <1>1, <1>2, <1>3, ChunksAssumption DEF TypeOK
  <2> QED BY <1>3, <2>1 DEF TypeOK
<1>6. ASSUME NEW j \in Writers, Accounted(j) PROVE Accounted(j)'
  <2>1. CASE Whole(j)
    <3>1. Whole(j)'
      BY <1>2, <1>4, <2>1 DEF Whole
    <3> QED BY <3>1 DEF Accounted
  <2>2. ASSUME NEW v \in Writers, WillComplete(v, j) PROVE Accounted(j)'
    <3>1. WillComplete(v, j)'
      <4> SUFFICES ASSUME NEW k \in 1 .. Chunks, k \notin content'[j] PROVE k > at'[v]
        BY <1>3, <2>2 DEF WillComplete
      <4>1. k \notin content[j] /\ k > at[v]
        BY <1>4, <2>2 DEF WillComplete
      <4>2. CASE v # w
        BY <1>4, <4>1, <4>2
      <4>3. CASE v = w
        <5>1. j = i
          BY <2>2, <4>3 DEF WillComplete, i
        <5> QED BY <1>1, <1>4, <4>1, <4>3, <5>1, ChunksAssumption
      <4> QED BY <4>2, <4>3
    <3> QED BY <3>1 DEF Accounted
  <2>3. ASSUME NEW v \in Writers, pc[v] = "dead", fd[v] = j PROVE Accounted(j)'
    BY <1>3, <2>3 DEF Accounted
  <2> QED BY <1>6, <2>1, <2>2, <2>3 DEF Accounted
<1>7. NamesInv'
  BY <1>3, <1>6 DEF NamesInv, TypeOK, File
<1>8. ProgressInv'
  BY <1>3, <1>4 DEF ProgressInv, Progress, Stored, Pruned
<1>9. EndedWriteIsStored' /\ RefsInv' /\ CarefulInv'
  BY <1>3 DEF EndedWriteIsStored, Pruned, RefsInv, CarefulInv, Careful, Due
<1> QED BY <1>5, <1>7, <1>8, <1>9

LEMMA ReplaceKeepsInv ==
  ASSUME IInv, NEW w \in Writers, Replace(w)
  PROVE  IInv'
<1> USE DEF IInv
<1> DEFINE d == what[w]
<1>1. d \in Digests
  BY DEF Replace, ProgressInv, Progress
<1>2. /\ pc[w] = "fill" /\ Filled(w) /\ tmp[d] # None
      /\ UNCHANGED <<content, what, fd, at, refs, prune>>
      /\ blob' = [blob EXCEPT ![d] = tmp[d]] /\ tmp' = [tmp EXCEPT ![d] = None]
      /\ pc' = [pc EXCEPT ![w] = "done"]
  BY DEF Replace
<1>3. /\ blob'[d] = tmp[d] /\ tmp'[d] = None /\ pc'[w] = "done"
      /\ \A v \in Writers \ {w} : pc'[v] = pc[v]
      /\ \A e \in Digests \ {d} : blob'[e] = blob[e] /\ tmp'[e] = tmp[e]
  BY <1>1, <1>2 DEF TypeOK
<1>4. TypeOK'
  BY <1>1, <1>2 DEF TypeOK, File
<1>5. ASSUME NEW i \in Writers, Accounted(i) PROVE Accounted(i)'
  BY <1>2, <1>3, <1>5, AccountedFrame
<1>6. NamesInv'
  BY <1>1, <1>2, <1>3, <1>5 DEF NamesInv, TypeOK, File
<1>7. \A e \in Digests : Stored(e) => Stored(e)'
  BY <1>1, <1>2, <1>3 DEF Stored, Pruned
<1>8. Stored(d)'
  BY <1>2, <1>3 DEF Stored
<1>9. ProgressInv'
  BY <1>1, <1>2, <1>3, <1>7, <1>8 DEF ProgressInv, Progress
<1>10. EndedWriteIsStored'
  BY <1>1, <1>2, <1>3, <1>7, <1>8 DEF EndedWriteIsStored, Stored, ProgressInv, Progress
<1>11. RefsInv' /\ CarefulInv'
  BY <1>2, <1>3 DEF RefsInv, CarefulInv, Careful, Due
<1> QED BY <1>4, <1>6, <1>9, <1>10, <1>11

(***************************************************************************)
(* Steps that end a call without touching a file.                          *)
(***************************************************************************)
LEMMA EndKeepsInv ==
  ASSUME IInv, NEW w \in Writers, ReplaceFails(w) \/ Die(w)
  PROVE  IInv'
<1> USE DEF IInv
<1>1. PICK to \in {"raised", "dead"} : pc' = [pc EXCEPT ![w] = to] /\ (to = "dead" \/ ReplaceFails(w))
  BY DEF ReplaceFails, Die
<1>2. /\ pc[w] \in {"open", "fill"}
      /\ UNCHANGED <<blob, tmp, content, what, fd, at, refs, prune>>
      /\ pc'[w] = to /\ \A v \in Writers \ {w} : pc'[v] = pc[v]
      /\ to = "raised" => pc[w] = "fill" /\ Filled(w) /\ tmp[what[w]] = None
  BY <1>1 DEF ReplaceFails, Die, names, TypeOK
<1>3. TypeOK'
  BY <1>1, <1>2 DEF TypeOK
<1>4. NamesInv'
  BY <1>2, AccountedFrame DEF NamesInv, TypeOK, File
<1>5. ProgressInv'
  BY <1>2 DEF ProgressInv, Progress, Stored, Pruned
<1>6. EndedWriteIsStored'
  BY <1>2 DEF EndedWriteIsStored, ProgressInv, Progress, Stored, Pruned
<1>7. RefsInv' /\ CarefulInv'
  BY <1>2 DEF RefsInv, CarefulInv, Careful, Due
<1> QED BY <1>3, <1>4, <1>5, <1>6, <1>7

LEMMA RecordKeepsInv ==
  ASSUME IInv, NEW w \in Writers, Record(w)
  PROVE  IInv'
<1> USE DEF IInv
<1>1. /\ pc[w] = "done" /\ pc'[w] = "recorded" /\ \A v \in Writers \ {w} : pc'[v] = pc[v]
      /\ UNCHANGED <<blob, tmp, content, what, fd, at, prune>> /\ refs' = refs \cup {what[w]}
  BY DEF Record, names, TypeOK
<1>2. what[w] \in Digests
  BY <1>1 DEF ProgressInv, Progress
<1>3. TypeOK'
  BY <1>1, <1>2 DEF TypeOK, Record
<1>4. NamesInv'
  BY <1>1, AccountedFrame DEF NamesInv, TypeOK, File
<1>5. ProgressInv'
  BY <1>1 DEF ProgressInv, Progress, Stored, Pruned
<1>6. EndedWriteIsStored'
  BY <1>1 DEF EndedWriteIsStored, Pruned
<1>7. RefsInv' /\ CarefulInv'
  BY <1>1 DEF RefsInv, CarefulInv, Careful, Due
<1> QED BY <1>3, <1>4, <1>5, <1>6, <1>7

(***************************************************************************)
(* Steps of a pruner.                                                      *)
(***************************************************************************)
LEMMA PruneFrame ==
  ASSUME IInv, NEW p \in Pruners, UNCHANGED <<blob, tmp, content, pc, what, fd, at, refs>>,
         prune' = [prune EXCEPT ![p] = prune'[p]], prune'[p] \in Pruning,
         prune'[p].gone = prune[p].gone,
         Careful(p)'
  PROVE  IInv'
<1> USE DEF IInv
<1>1. \A q \in Pruners : prune'[q].gone = prune[q].gone
  BY DEF TypeOK
<1>2. TypeOK'
  BY DEF TypeOK
<1>3. NamesInv'
  BY DEF NamesInv, Accounted, Whole, WillComplete
<1>4. ProgressInv' /\ EndedWriteIsStored' /\ RefsInv'
  BY <1>1 DEF ProgressInv, Progress, Stored, Pruned, EndedWriteIsStored, RefsInv
<1>5. CarefulInv'
  BY DEF CarefulInv, Careful, Due, TypeOK
<1> QED BY <1>2, <1>3, <1>4, <1>5

LEMMA PruneKeepsInv ==
  ASSUME IInv, NEW p \in Pruners, Prune(p)
  PROVE  IInv'
<1> USE DEF IInv
<1>0. prune[p] \in Pruning /\ Careful(p)
  BY DEF TypeOK, CarefulInv
<1>1. CASE Gather(p)
  <2>1. prune'[p] = [prune[p] EXCEPT !.pc = "list", !.live = refs] /\ prune' = [prune EXCEPT ![p] = prune'[p]]
    BY <1>1 DEF Gather, TypeOK
  <2>2. prune'[p] \in Pruning /\ prune'[p].gone = prune[p].gone
    BY <1>0, <2>1 DEF Pruning, TypeOK
  <2>3. Careful(p)'
    <3>1. prune[p].gone = {}
      BY <1>0, <1>1 DEF Careful, Gather
    <3>2. prune'[p].pc = "list"
      BY <1>0, <2>1 DEF Pruning
    <3> QED BY <2>2, <3>1, <3>2 DEF Careful
  <2> QED BY <1>1, <2>1, <2>2, <2>3, PruneFrame DEF Gather, names, writing
<1>2. CASE List(p)
  <2>1. prune'[p] = [prune[p] EXCEPT !.pc = "test", !.todo = {d \in Digests : Exists(d)}]
        /\ prune' = [prune EXCEPT ![p] = prune'[p]]
    BY <1>2 DEF List, TypeOK
  <2>2. prune'[p] \in Pruning /\ prune'[p].gone = prune[p].gone
    BY <1>0, <2>1 DEF Pruning
  <2>3. Careful(p)'
    <3>1. prune'[p].pc = "test" /\ prune'[p].gone = prune[p].gone /\ prune'[p].live = prune[p].live
      BY <1>0, <2>1 DEF Pruning
    <3> QED BY <1>0, <3>1 DEF Careful
  <2> QED BY <1>2, <2>1, <2>2, <2>3, PruneFrame DEF List, names, writing
<1>3. ASSUME NEW d \in Digests, Spare(p, d) PROVE IInv'
  <2>1. prune'[p] = [prune[p] EXCEPT !.todo = prune[p].todo \ {d}] /\ prune' = [prune EXCEPT ![p] = prune'[p]]
    BY <1>3 DEF Spare, TypeOK
  <2>2. prune'[p] \in Pruning /\ prune'[p].gone = prune[p].gone
    BY <1>0, <2>1 DEF Pruning
  <2>3. Careful(p)'
    BY <1>0, <1>3, <2>1 DEF Careful, Spare, Pruning
  <2> QED BY <1>3, <2>1, <2>2, <2>3, PruneFrame DEF Spare, names, writing
<1>4. ASSUME NEW d \in Digests, Condemn(p, d) PROVE IInv'
  <2>1. prune'[p] = [prune[p] EXCEPT !.pc = "unlink"] /\ prune' = [prune EXCEPT ![p] = prune'[p]]
    BY <1>4 DEF Condemn, TypeOK
  <2>2. prune'[p] \in Pruning /\ prune'[p].gone = prune[p].gone
    BY <1>0, <2>1 DEF Pruning
  <2>3. \A e \in Digests : Due(p, e)' => e = d
    BY <1>0, <1>4, <2>1, DigestsAssumption DEF Condemn, Due, Pruning
  <2>4. Careful(p)'
    BY <1>0, <1>4, <2>1, <2>3 DEF Careful, Condemn, Orphan, Pruning
  <2> QED BY <1>4, <2>1, <2>2, <2>4, PruneFrame DEF Condemn, names, writing
<1>5. ASSUME NEW d \in Digests, Unlink(p, d) PROVE IInv'
  <2>1. /\ prune'[p] = [prune[p] EXCEPT !.pc = "test", !.todo = prune[p].todo \ {d}, !.gone = prune[p].gone \cup {d}]
        /\ \A q \in Pruners \ {p} : prune'[q] = prune[q]
        /\ prune' = [prune EXCEPT ![p] = prune'[p]]
    BY <1>5 DEF Unlink, TypeOK
  <2>2. prune'[p] \in Pruning /\ prune'[p].gone = prune[p].gone \cup {d}
    <3>1. prune[p].todo \ {d} \in SUBSET Digests /\ prune[p].gone \cup {d} \in SUBSET Digests
      BY <1>0 DEF Pruning
    <3> QED BY <1>0, <2>1, <3>1 DEF Pruning
  <2>3. d \notin prune[p].live
    BY <1>0, <1>5 DEF Careful, Unlink
  <2>4. UNCHANGED <<tmp, content, pc, what, fd, at, refs>> /\ blob' = [blob EXCEPT ![d] = None]
        /\ blob'[d] = None /\ \A e \in Digests \ {d} : blob'[e] = blob[e]
    BY <1>5 DEF Unlink, writing, TypeOK
  <2>5. TypeOK'
    BY <2>1, <2>2, <2>4 DEF TypeOK, File
  <2>6. NamesInv'
    BY <2>4 DEF NamesInv, Accounted, Whole, WillComplete
  <2>7. \A e \in Digests : Stored(e) => Stored(e)'
    BY <2>1, <2>2, <2>4 DEF Stored, Pruned
  <2>8. ProgressInv' /\ EndedWriteIsStored' /\ RefsInv'
    BY <2>4, <2>7 DEF ProgressInv, Progress, EndedWriteIsStored, Stored, RefsInv
  <2>9. CarefulInv'
    <3>1. Careful(p)'
      BY <1>0, <2>1, <2>2, <2>3 DEF Careful, Pruning
    <3> QED BY <2>1, <3>1 DEF CarefulInv, Careful, Due
  <2> QED BY <2>5, <2>6, <2>8, <2>9
<1>6. ASSUME NEW d \in Digests, UnlinkFails(p, d) PROVE IInv'
  <2>1. prune'[p] = [prune[p] EXCEPT !.pc = "raised"] /\ prune' = [prune EXCEPT ![p] = prune'[p]]
    BY <1>6 DEF UnlinkFails, TypeOK
  <2>2. prune'[p] \in Pruning /\ prune'[p].gone = prune[p].gone
    BY <1>0, <2>1 DEF Pruning
  <2>3. Careful(p)'
    BY <1>0, <2>1 DEF Careful, Pruning
  <2> QED BY <1>6, <2>1, <2>2, <2>3, PruneFrame DEF UnlinkFails, names, writing
<1> QED BY <1>1, <1>2, <1>3, <1>4, <1>5, <1>6 DEF Prune

LEMMA InvStep == IInv /\ [Next]_vars => IInv'
<1> SUFFICES ASSUME IInv, [Next]_vars PROVE IInv'
  OBVIOUS
<1>1. CASE UNCHANGED vars
  BY <1>1 DEF vars, names, writing, IInv, TypeOK, NamesInv, Accounted, Whole, WillComplete, ProgressInv,
              Progress, Stored, Pruned, EndedWriteIsStored, RefsInv, CarefulInv, Careful, Due
<1>2. CASE Next
  BY <1>2, CheckKeepsInv, OpenKeepsInv, FillKeepsInv, ReplaceKeepsInv, EndKeepsInv, RecordKeepsInv,
     PruneKeepsInv DEF Next, Write
<1> QED BY <1>1, <1>2

(***************************************************************************)
(* The strengthening of the invariants below is an invariant.              *)
(***************************************************************************)
THEOREM Inductive == Spec => []IInv
<1> QED BY InvInit, InvStep, PTL DEF Spec

(***************************************************************************)
(* The variables keep their types.                                         *)
(***************************************************************************)
THEOREM TypeCorrect == Spec => []TypeOK
<1>1. IInv => TypeOK
  BY DEF IInv
<1> QED BY <1>1, Inductive, PTL

(***************************************************************************)
(* A blob is left torn only by a writer that died, however many share its  *)
(* temporary file.                                                         *)
(***************************************************************************)
THEOREM TornBlobsHaveWriters == Spec => []TornHasWriter
<1>1. IInv => TornHasWriter
  BY DEF IInv, NamesInv, Accounted, TornHasWriter
<1> QED BY <1>1, Inductive, PTL

(***************************************************************************)
(* write() leaves its content stored also when it raises on the rename.    *)
(***************************************************************************)
THEOREM EndedWritesAreStored == Spec => []EndedWriteIsStored
<1>1. IInv => EndedWriteIsStored
  BY DEF IInv
<1> QED BY <1>1, Inductive, PTL

(***************************************************************************)
(* prune_orphans() cannot take a blob that was referenced before its       *)
(* caller gathered the references.                                         *)
(***************************************************************************)
THEOREM ReferencesStay == Spec => []ReferencedBlobsStay
<1>1. IInv => ReferencedBlobsStay
  <2> SUFFICES ASSUME IInv, NEW d \in refs, blob[d] = None,
                      \A p \in Pruners : prune[p].pc # "idle" => d \in prune[p].live
               PROVE  FALSE
    BY DEF ReferencedBlobsStay
  <2>1. Pruned(d)
    BY DEF IInv, RefsInv, EndedWriteIsStored
  <2>2. PICK p \in Pruners : d \in prune[p].gone
    BY <2>1 DEF Pruned
  <2>3. Careful(p)
    BY DEF IInv, CarefulInv
  <2> QED BY <2>2, <2>3 DEF Careful
<1> QED BY <1>1, Inductive, PTL

-----------------------------------------------------------------------------
(***************************************************************************)
(* Whose bytes a blob holds.                                               *)
(*                                                                         *)
(* Two calls that write one content share its temporary file, and opening  *)
(* truncates it.  Neither reaches a file under its final name: an inode    *)
(* has one name at most, given by the call that created it, and who has it *)
(* open writes the same content.                                           *)
(***************************************************************************)
Created(i, d) == i \in Writers /\ pc[i] \notin {"idle", "open"} /\ what[i] = d

CreatedInv ==
  /\ \A d \in Digests :
       /\ blob[d] # None => Created(blob[d], d)
       /\ tmp[d] # None => Created(tmp[d], d) /\ tmp[d] # blob[d]
  /\ \A w \in Writers :
       /\ pc[w] = "idle" => fd[w] = None
       /\ fd[w] # None => Created(fd[w], what[w])

(***************************************************************************)
(* No file stands for two contents, and nobody who writes another content  *)
(* has a blob open.                                                        *)
(***************************************************************************)
BlobsAreTheirOwn ==
  /\ \A d, e \in Digests : blob[d] # None /\ blob[d] = blob[e] => d = e
  /\ \A d \in Digests, w \in Writers : blob[d] # None /\ fd[w] = blob[d] => what[w] = d

(***************************************************************************)
(* While a name stands for one file the file only grows, so what a reader  *)
(* of a whole blob sees stays whole until the name is given to another     *)
(* file or pruned.                                                         *)
(***************************************************************************)
PublishedBytesStay ==
  [][\A d \in Digests : blob[d] # None /\ blob'[d] = blob[d] =>
       content[blob[d]] \subseteq content'[blob[d]]]_vars

LEMMA CreatedInit == Init => CreatedInv
BY DEF Init, CreatedInv

LEMMA CreatedFrame ==
  ASSUME UNCHANGED what, \A i \in Writers : pc[i] \notin {"idle", "open"} => pc'[i] \notin {"idle", "open"}
  PROVE  \A i, d : Created(i, d) => Created(i, d)'
BY DEF Created

(* Created in the next state, of an inode and a content of any state. *)
Made(i, d) == i \in Writers /\ pc'[i] \notin {"idle", "open"} /\ what'[i] = d

LEMMA OpenKeepsCreated ==
  ASSUME IInv, CreatedInv, NEW w \in Writers, Open(w)
  PROVE  /\ CreatedInv'
         /\ \A d \in Digests : blob[d] # Opened(w)
<1> USE DEF IInv
<1> DEFINE d == what[w]
           i == Opened(w)
<1>1. /\ pc[w] = "open" /\ d \in Digests /\ UNCHANGED <<blob, what>>
      /\ tmp' = [tmp EXCEPT ![d] = i] /\ fd' = [fd EXCEPT ![w] = i] /\ pc' = [pc EXCEPT ![w] = "fill"]
  BY DEF Open, ProgressInv, Progress
<1>2. i = w \/ (tmp[d] # None /\ i = tmp[d])
  BY DEF Opened
<1>3. i \in Writers /\ i # None
  BY <1>1, <1>2, NoneAssumption DEF TypeOK, File
<1>4. \A e \in Digests : blob[e] # i /\ (e # d => tmp[e] # i)
  BY <1>1, <1>2, <1>3 DEF CreatedInv, Created
<1>5. i \in Writers /\ what[i] = d /\ (i = w \/ pc[i] \notin {"idle", "open"})
  BY <1>1, <1>2, <1>3 DEF CreatedInv, Created
<1>6. what'[w] = d
  BY <1>1
<1> HIDE DEF d, i
<1>7. /\ tmp'[d] = i /\ fd'[w] = i /\ pc'[w] = "fill"
      /\ \A e \in Digests \ {d} : tmp'[e] = tmp[e]
      /\ \A v \in Writers \ {w} : fd'[v] = fd[v] /\ pc'[v] = pc[v]
  BY <1>1 DEF TypeOK
<1>8. CreatedInv'
  <2> SUFFICES /\ \A e \in Digests :
                    /\ blob'[e] # None => Made(blob'[e], e)
                    /\ tmp'[e] # None => Made(tmp'[e], e) /\ tmp'[e] # blob'[e]
               /\ \A v \in Writers :
                    /\ pc'[v] = "idle" => fd'[v] = None
                    /\ fd'[v] # None => Made(fd'[v], what'[v])
    BY DEF CreatedInv, Created, Made
  <2>1. \A j, e : Created(j, e) => Made(j, e)
    BY <1>1, <1>7 DEF Created, Made
  <2>2. Made(i, d)
    BY <1>1, <1>5, <1>7 DEF Made
  <2> QED BY <1>1, <1>4, <1>6, <1>7, <2>1, <2>2 DEF CreatedInv
<1> QED BY <1>4, <1>8 DEF i

LEMMA ReplaceKeepsCreated ==
  ASSUME IInv, CreatedInv, NEW w \in Writers, Replace(w)
  PROVE  CreatedInv'
<1> USE DEF IInv
<1>1. what[w] \in Digests
  BY DEF Replace, ProgressInv, Progress
<1>2. /\ UNCHANGED <<what, fd>> /\ pc[w] = "fill" /\ pc'[w] = "done"
      /\ \A v \in Writers \ {w} : pc'[v] = pc[v]
      /\ blob'[what[w]] = tmp[what[w]] /\ tmp'[what[w]] = None
      /\ \A e \in Digests \ {what[w]} : blob'[e] = blob[e] /\ tmp'[e] = tmp[e]
  BY <1>1 DEF Replace, TypeOK
<1>3. \A j, e : Created(j, e) => Created(j, e)'
  BY <1>2, CreatedFrame
<1> QED BY <1>1, <1>2, <1>3 DEF CreatedInv

LEMMA RestKeepsCreated ==
  ASSUME IInv, CreatedInv, [Next]_vars, \A w \in Writers : ~Open(w) /\ ~Replace(w)
  PROVE  CreatedInv'
<1> USE DEF IInv
<1>1. CASE \E w \in Writers, d \in Digests : Check(w, d)
  <2>1. PICK w \in Writers, d \in Digests : Check(w, d)
    BY <1>1
  <2>2. /\ pc[w] = "idle" /\ fd[w] = None /\ UNCHANGED <<blob, tmp, fd>> /\ pc'[w] \in {"done", "open"}
        /\ \A v \in Writers \ {w} : pc'[v] = pc[v] /\ what'[v] = what[v]
    BY <2>1 DEF Check, names, TypeOK, CreatedInv
  <2>3. \A j, e : Created(j, e) => Created(j, e)'
    BY <2>2 DEF Created
  <2> QED BY <2>2, <2>3 DEF CreatedInv
<1>2. CASE \E w \in Writers : Fill(w) \/ ReplaceFails(w) \/ Die(w) \/ Record(w)
  <2>1. PICK w \in Writers : Fill(w) \/ ReplaceFails(w) \/ Die(w) \/ Record(w)
    BY <1>2
  <2>2. /\ UNCHANGED <<blob, tmp, fd, what>> /\ pc[w] # "idle" /\ pc'[w] \notin {"idle", "open"}
        /\ \A v \in Writers \ {w} : pc'[v] = pc[v]
    BY <2>1 DEF Fill, ReplaceFails, Die, Record, names, TypeOK
  <2>3. \A j, e : Created(j, e) => Created(j, e)'
    BY <2>2, CreatedFrame
  <2> QED BY <2>2, <2>3 DEF CreatedInv
<1>3. CASE (\E p \in Pruners : Prune(p)) \/ UNCHANGED vars
  <2>1. UNCHANGED <<tmp, pc, what, fd>> /\ \A e \in Digests : blob'[e] \in {blob[e], None}
    BY <1>3 DEF Prune, Gather, List, Spare, Condemn, Unlink, UnlinkFails, vars, names, writing, TypeOK
  <2>2. \A j, e : Created(j, e) => Created(j, e)'
    BY <2>1, CreatedFrame
  <2>3. \A e \in Digests : tmp[e] # None => tmp[e] # blob'[e]
    BY <2>1 DEF CreatedInv
  <2> QED BY <2>1, <2>2, <2>3 DEF CreatedInv
<1> QED BY <1>1, <1>2, <1>3 DEF Next, Write

LEMMA CreatedStep == IInv /\ CreatedInv /\ [Next]_vars => CreatedInv'
<1> SUFFICES ASSUME IInv, CreatedInv, [Next]_vars PROVE CreatedInv'
  OBVIOUS
<1> QED BY OpenKeepsCreated, ReplaceKeepsCreated, RestKeepsCreated

LEMMA CreatedInvariance == Spec => []CreatedInv
<1> QED BY CreatedInit, CreatedStep, Inductive, PTL DEF Spec

(***************************************************************************)
(* A blob gets bytes of its own content only, whatever calls of write()    *)
(* are interleaved.                                                        *)
(***************************************************************************)
THEOREM NoForeignBytes == Spec => []BlobsAreTheirOwn
<1>1. IInv /\ CreatedInv => BlobsAreTheirOwn
  BY DEF CreatedInv, Created, BlobsAreTheirOwn
<1> QED BY <1>1, Inductive, CreatedInvariance, PTL

(***************************************************************************)
(* No call truncates a file that write() has published.                    *)
(***************************************************************************)
LEMMA StepKeepsBytes ==
  ASSUME IInv, CreatedInv, [Next]_vars, NEW d \in Digests, blob[d] # None
  PROVE  content[blob[d]] \subseteq content'[blob[d]]
<1> USE DEF IInv
<1>1. blob[d] \in Writers
  BY DEF TypeOK, File
<1>2. CASE \E w \in Writers : Open(w)
  <2>1. PICK w \in Writers : Open(w)
    BY <1>2
  <2>2. blob[d] # Opened(w) /\ content' = [content EXCEPT ![Opened(w)] = {}]
    BY <2>1, OpenKeepsCreated DEF Open
  <2> QED BY <1>1, <2>2 DEF TypeOK
<1>3. CASE \E w \in Writers : Fill(w)
  BY <1>1, <1>3 DEF Fill, TypeOK
<1>4. CASE \A w \in Writers : ~Open(w) /\ ~Fill(w)
  <2>1. UNCHANGED content
    BY <1>4 DEF Next, Check, Write, Replace, ReplaceFails, Die, Record, Prune, Gather, List, Spare, Condemn,
                Unlink, UnlinkFails, vars
  <2> QED BY <2>1
<1> QED BY <1>2, <1>3, <1>4

THEOREM PublishedOnlyGrows == Spec => PublishedBytesStay
<1>1. IInv /\ CreatedInv /\ [Next]_vars =>
        [\A d \in Digests : blob[d] # None /\ blob'[d] = blob[d] =>
           content[blob[d]] \subseteq content'[blob[d]]]_vars
  BY StepKeepsBytes
<1> QED BY <1>1, Inductive, CreatedInvariance, PTL DEF Spec, PublishedBytesStay
=============================================================================
