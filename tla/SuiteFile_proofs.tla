--------------------------- MODULE SuiteFile_proofs ---------------------------
(***************************************************************************)
(* Proofs about SuiteFile, for any number of calls, sections and values.   *)
(***************************************************************************)
EXTENDS SuiteFile, TLAPS

(***************************************************************************)
(* The inductive invariant.  The lock has one holder, the file is what was *)
(* last saved unless it was cut, and what a holder has read or is writing  *)
(* differs from that in its own section and in pruned entries only.        *)
(***************************************************************************)
Ops == {"set", "put", "read", "register", "unregister"}
Order == [op : Ops, name : Names, val : Section]

Asked(c) ==
  /\ pc[c] # "idle" => req[c] \in Requests
  /\ pc[c] \in {"edit", "fill"} => stage[c] = "change"

AskedInv == \A c \in Calls : Asked(c)

Holds(c) == pc[c] \in {"read", "edit", "fill"}

LockInv == \A c \in Calls : Holds(c) <=> lock = c

FileInv ==
  /\ text # Torn => text = saved
  /\ text = Torn /\ (\A c \in Calls : pc[c] # "fill") => saved = Empty

BinaryInv == \A n \in Names : n \in binary \/ n \in missed

Spared(old, new, m) == new[m] = old[m] \/ (kind = "registry" /\ new[m] = Blank /\ m \in missed)

EditInv ==
  \A c \in Calls : pc[c] = "fill" /\ c \notin blind =>
    \A m \in Names \ {req[c].name} : Spared(saved, snap[c], m)

Undisturbed(c) == c \notin blind /\ c \notin lapped

SameRest(s, t) == s.rest = t.rest /\ s.extra = t.extra

PutInv ==
  \A c \in Calls :
    /\ pc[c] \in {"wait", "read", "edit", "fill"} /\ stage[c] = "change"
    /\ req[c].op = "put" /\ Undisturbed(c)
    => /\ RestKept(req[c].name, saved[req[c].name], mine[c])
       /\ pc[c] = "fill" => SameRest(snap[c][req[c].name], mine[c])

IInv ==
  /\ TypeOK /\ AskedInv /\ LockInv /\ FileInv /\ TornHasCause /\ BinaryInv
  /\ BaseIsCurrent /\ EditInv /\ PutInv

-----------------------------------------------------------------------------
(***************************************************************************)
(* What a request says, and that the data of the operators are data.       *)
(***************************************************************************)
LEMMA RequestsAreOrders ==
  ASSUME TypeOK, NEW r, r \in Requests
  PROVE  /\ r \in Order
         /\ r.op = "put" => kind = "prefs"
         /\ r.op = "register" => kind = "registry"
<1>1. /\ Blank \in Section /\ Plain \subseteq Section
      /\ [device : Setting, rest : {None}, extra : {None}] \subseteq Section
      /\ CommonSections \subseteq Section /\ AppSections \subseteq Section
  BY DEF Blank, Section, Setting, Settings, Plain, CommonSections, AppSections
<1>5. Common \in Names
  BY NoneAssumption
<1>2. CASE kind = "prefs"
  <2>1. r \in PrefsRequests
    BY <1>2 DEF Requests
  <2> QED BY <1>1, <1>2, <1>5, <2>1 DEF PrefsRequests, Request, Order, Ops
<1>3. CASE kind = "registry"
  <2>1. r \in RegistryRequests
    BY <1>3 DEF Requests
  <2> QED BY <1>1, <1>3, <1>5, <2>1 DEF RegistryRequests, Request, Order, Ops
<1>4. CASE kind = "shared"
  <2>1. r \in SharedRequests
    BY <1>4 DEF Requests
  <2> QED BY <1>1, <1>4, <2>1 DEF SharedRequests, Request, Order, Ops
<1> QED BY <1>2, <1>3, <1>4 DEF TypeOK, Kinds

LEMMA DataFacts ==
  ASSUME TypeOK
  PROVE  /\ Blank \in Section /\ Empty \in Data
         /\ content \in Data
         /\ \A c \in Calls : Remains(snap[c]) \subseteq Data \cup {Torn}
         /\ Torn \notin Data
<1>1. Blank \in Section
  BY DEF Blank, Section, Setting, Settings
<1>2. Empty \in Data
  BY <1>1 DEF Empty, Data
<1>3. content \in Data
  BY <1>2 DEF content, Seen, TypeOK
<1>4. ASSUME NEW c \in Calls PROVE Remains(snap[c]) \subseteq Data \cup {Torn}
  <2>1. snap[c] \in Data
    BY DEF TypeOK
  <2>2. \A K \in SUBSET Names : [n \in Names |-> IF n \in K THEN snap[c][n] ELSE Blank] \in Data
    BY <1>1, <2>1 DEF Data
  <2> QED BY <2>2 DEF Remains
<1> QED BY <1>1, <1>2, <1>3, <1>4, TornAssumption

LEMMA EditedFacts ==
  ASSUME IInv, NEW c \in Calls, pc[c] = "edit"
  PROVE  /\ Edited(c) \in Data
         /\ c \notin blind => \A m \in Names \ {req[c].name} : Spared(saved, Edited(c), m)
         /\ req[c].op = "put" => SameRest(Edited(c)[req[c].name], mine[c])
<1>1. req[c] \in Order /\ (req[c].op = "register" => kind = "registry")
  BY RequestsAreOrders DEF IInv, AskedInv, Asked
<1>2. mine[c] \in Section /\ snap[c] \in Data
  BY DEF IInv, TypeOK
<1>3. req[c].val \in Section /\ req[c].name \in Names
  BY <1>1 DEF Order
<1>4. [mine[c] EXCEPT !.device = req[c].val.device] \in Section
      /\ SameRest([mine[c] EXCEPT !.device = req[c].val.device], mine[c])
  BY <1>2, <1>3 DEF Section, SameRest
<1>5. Changed(c) \in Section /\ (req[c].op = "put" => SameRest(Changed(c), mine[c]))
  BY <1>3, <1>4 DEF Changed
<1>6. Blank \in Section
  BY DataFacts DEF IInv
<1>7. Edited(c) \in Data
  BY <1>2, <1>5, <1>6 DEF Edited, Data
<1>8. Edited(c)[req[c].name] = Changed(c)
  BY <1>3 DEF Edited
<1>9. ASSUME c \notin blind, NEW m \in Names \ {req[c].name} PROVE Spared(saved, Edited(c), m)
  <2>1. snap[c] = saved
    BY <1>9 DEF IInv, BaseIsCurrent
  <2>2. Edited(c)[m] = IF req[c].op = "register" /\ m \notin binary THEN Blank ELSE snap[c][m]
    BY <1>9 DEF Edited
  <2>3. m \notin binary => m \in missed
    BY <1>9 DEF IInv, BinaryInv
  <2> QED BY <1>1, <2>1, <2>2, <2>3 DEF Spared
<1> QED BY <1>5, <1>7, <1>8, <1>9

-----------------------------------------------------------------------------
LEMMA InvInit == Init => IInv
<1> SUFFICES ASSUME Init PROVE IInv
  OBVIOUS
<1> USE DEF Init
<1>1. text \in Found
  OBVIOUS
<1>2. text \in Data /\ Blank \in Section
  BY <1>1 DEF Found, Plain, Data, Blank, Section, Setting, Settings
<1>3. Empty \in Data
  BY <1>2 DEF Empty, Data
<1>4. TypeOK
  BY <1>2, <1>3 DEF TypeOK
<1>5. text # Torn
  BY <1>2, TornAssumption
<1>6. AskedInv /\ BinaryInv /\ BaseIsCurrent /\ EditInv /\ PutInv
  BY DEF AskedInv, Asked, BinaryInv, BaseIsCurrent, EditInv, PutInv
<1>7. LockInv
  BY NoneAssumption DEF LockInv, Holds
<1>8. FileInv /\ TornHasCause
  BY <1>5 DEF FileInv, TornHasCause
<1> QED BY <1>4, <1>6, <1>7, <1>8 DEF IInv

(***************************************************************************)
(* Every action preserves IInv.                                            *)
(***************************************************************************)
LEMMA StartKeepsInv ==
  ASSUME IInv, NEW c \in Calls, NEW r \in Requests, Start(c, r)
  PROVE  IInv'
<1> USE DEF IInv
<1>1. pc[c] = "idle" /\ pc'[c] = "wait" /\ req'[c] = r /\ stage'[c] = FirstStage(r.op)
      /\ UNCHANGED <<kind, text, lock, binary, snap, mine, hung, saved, blind, lapped, missed>>
      /\ \A b \in Calls \ {c} : pc'[b] = pc[b] /\ req'[b] = req[b] /\ stage'[b] = stage[b]
  BY DEF Start, TypeOK, file, history
<1>2. r \in Order
  BY RequestsAreOrders
<1>3. TypeOK'
  <2>1. FirstStage(r.op) \in {"look", "change", "answer"}
    BY DEF FirstStage
  <2> QED BY <1>1, <1>2, <2>1 DEF Start, TypeOK, Order, Ops, file, history
<1>4. AskedInv'
  BY <1>1 DEF AskedInv, Asked, Requests, TypeOK
<1>5. LockInv'
  BY <1>1 DEF LockInv, Holds
<1>6. FileInv' /\ TornHasCause' /\ BinaryInv' /\ BaseIsCurrent'
  BY <1>1 DEF FileInv, TornHasCause, BinaryInv, BaseIsCurrent
<1>7. EditInv'
  BY <1>1 DEF EditInv, Spared
<1>8. PutInv'
  BY <1>1 DEF PutInv, Undisturbed, FirstStage
<1> QED BY <1>3, <1>4, <1>5, <1>6, <1>7, <1>8

LEMMA AcquireKeepsInv ==
  ASSUME IInv, NEW c \in Calls, Acquire(c)
  PROVE  IInv'
<1> USE DEF IInv
<1>1. pc[c] = "wait" /\ pc'[c] = "read" /\ lock = None /\ lock' = c
      /\ UNCHANGED <<kind, text, binary, req, stage, snap, mine, hung, saved, blind, lapped, missed>>
      /\ \A b \in Calls \ {c} : pc'[b] = pc[b]
  BY DEF Acquire, TypeOK, history
<1>2. TypeOK'
  BY DEF Acquire, TypeOK, history
<1>3. AskedInv'
  BY <1>1 DEF AskedInv, Asked, Requests
<1>4. LockInv'
  BY <1>1, NoneAssumption DEF LockInv, Holds
<1>5. FileInv' /\ TornHasCause' /\ BinaryInv' /\ BaseIsCurrent'
  BY <1>1, NoneAssumption DEF FileInv, TornHasCause, BinaryInv, BaseIsCurrent
<1>6. EditInv' /\ PutInv'
  BY <1>1 DEF EditInv, Spared, PutInv, Undisturbed
<1> QED BY <1>2, <1>3, <1>4, <1>5, <1>6

LEMMA TimeoutKeepsInv ==
  ASSUME IInv, NEW c \in Calls, Timeout(c)
  PROVE  IInv'
<1> USE DEF IInv
<1>1. pc[c] = "wait" /\ pc'[c] = "raised"
      /\ UNCHANGED <<kind, text, lock, binary, req, stage, snap, mine, hung, saved, blind, lapped, missed>>
      /\ \A b \in Calls \ {c} : pc'[b] = pc[b]
  BY DEF Timeout, TypeOK, file, history
<1>2. TypeOK'
  BY DEF Timeout, TypeOK, file, history
<1>3. AskedInv'
  BY <1>1 DEF AskedInv, Asked, Requests
<1>4. LockInv'
  BY <1>1 DEF LockInv, Holds
<1>5. FileInv' /\ TornHasCause' /\ BinaryInv' /\ BaseIsCurrent'
  BY <1>1 DEF FileInv, TornHasCause, BinaryInv, BaseIsCurrent
<1>6. EditInv' /\ PutInv'
  BY <1>1 DEF EditInv, Spared, PutInv, Undisturbed
<1> QED BY <1>2, <1>3, <1>4, <1>5, <1>6

(***************************************************************************)
(* A call that reads holds the lock, so nobody is writing, and it sees     *)
(* what was last saved.                                                    *)
(***************************************************************************)
LEMMA ReaderSeesSaved ==
  ASSUME IInv, NEW c \in Calls, pc[c] = "read"
  PROVE  /\ content = saved
         /\ \A b \in Calls \ {c} : ~Holds(b)
<1>1. \A b \in Calls \ {c} : ~Holds(b)
  BY DEF IInv, LockInv, Holds
<1>2. \A b \in Calls : pc[b] # "fill"
  BY <1>1 DEF Holds
<1>3. content = saved
  BY <1>2 DEF IInv, FileInv, content, Seen
<1> QED BY <1>1, <1>3

(***************************************************************************)
(* UIPrefs keeps the settings of a section that the file has.              *)
(***************************************************************************)
LEMMA ValidatedFacts ==
  ASSUME NEW n \in Names, NEW s \in Section
  PROVE  Validated(n, s) \in Section /\ RestKept(n, s, Validated(n, s))
BY DEF Validated, RestKept, Section, Setting, Settings

LEMMA TakeKeepsInv ==
  ASSUME IInv, NEW c \in Calls, NEW data \in Data, Take(c, data),
         \/ data = content /\ UNCHANGED blind
         \/ blind' = blind \cup {c}
  PROVE  IInv'
<1> USE DEF IInv
<1>1. pc[c] = "read" /\ snap'[c] = data
      /\ UNCHANGED <<kind, text, binary, req, hung, saved, lapped, missed>>
      /\ \A b \in Calls \ {c} : pc'[b] = pc[b] /\ snap'[b] = snap[b] /\ stage'[b] = stage[b]
                                /\ mine'[b] = mine[b] /\ (b \in blind' <=> b \in blind)
      /\ (c \in blind => c \in blind')
  BY DEF Take, TypeOK, Finish
<1>2. data = saved \/ c \in blind'
  BY <1>1, ReaderSeesSaved
<1>3. \A b \in Calls \ {c} : ~Holds(b)
  BY <1>1, ReaderSeesSaved
<1>4. req[c] \in Order
  BY <1>1, RequestsAreOrders DEF AskedInv, Asked
<1>5. CASE stage[c] = "change"
  <2>1. pc'[c] = "edit" /\ UNCHANGED <<lock, stage, mine>>
    BY <1>5 DEF Take, TypeOK
  <2>2. TypeOK'
    BY <1>1, <1>5, <2>1 DEF Take, TypeOK
  <2>3. AskedInv'
    BY <1>1, <1>5, <2>1 DEF AskedInv, Asked, Requests
  <2>4. LockInv' /\ FileInv' /\ TornHasCause' /\ BinaryInv'
    BY <1>1, <1>3, <2>1 DEF LockInv, Holds, FileInv, TornHasCause, BinaryInv
  <2>5. BaseIsCurrent' /\ EditInv'
    BY <1>1, <1>2, <1>3, <2>1 DEF BaseIsCurrent, EditInv, Holds
  <2>6. PutInv'
    BY <1>1, <1>5, <2>1 DEF PutInv, Undisturbed
  <2> QED BY <2>2, <2>3, <2>4, <2>5, <2>6
<1>6. CASE stage[c] # "change" /\ Rejected(data)
  <2>1. pc'[c] = "raised" /\ lock' = None /\ UNCHANGED <<stage, mine>>
    BY <1>6 DEF Take, TypeOK
  <2>2. TypeOK'
    BY <1>1, <1>6, <2>1 DEF Take, TypeOK
  <2>3. AskedInv'
    BY <1>1, <2>1 DEF AskedInv, Asked, Requests
  <2>4. LockInv'
    BY <1>1, <1>3, <2>1, NoneAssumption DEF LockInv, Holds
  <2>5. FileInv' /\ TornHasCause' /\ BinaryInv'
    BY <1>1, <1>3, <2>1, NoneAssumption DEF FileInv, TornHasCause, BinaryInv, Holds
  <2>6. BaseIsCurrent' /\ EditInv' /\ PutInv'
    BY <1>1, <1>3, <2>1 DEF BaseIsCurrent, EditInv, PutInv, Undisturbed, Holds
  <2> QED BY <2>2, <2>3, <2>4, <2>5, <2>6
<1>7. CASE stage[c] # "change" /\ ~Rejected(data)
  <2>0. req[c].name \in Names /\ data[req[c].name] \in Section
    BY <1>4 DEF Order, Data
  <2>1. /\ mine'[c] = Validated(req[c].name, data[req[c].name]) /\ lock' = None
        /\ stage'[c] = (IF stage[c] = "look" THEN "change" ELSE "answer")
        /\ pc'[c] = (IF stage[c] = "answer" \/ req[c].op # "put" THEN "done" ELSE "wait")
    BY <1>7 DEF Take, Finish, TypeOK
  <2>2. TypeOK'
    BY <1>1, <1>7, <2>0, <2>1, ValidatedFacts DEF Take, Finish, TypeOK
  <2>3. AskedInv'
    BY <1>1, <2>1 DEF AskedInv, Asked, Requests
  <2>4. LockInv'
    BY <1>1, <1>3, <2>1, NoneAssumption DEF LockInv, Holds
  <2>5. FileInv' /\ TornHasCause' /\ BinaryInv'
    BY <1>1, <1>3, <2>1, NoneAssumption DEF FileInv, TornHasCause, BinaryInv, Holds
  <2>6. BaseIsCurrent' /\ EditInv'
    BY <1>1, <1>3, <2>1 DEF BaseIsCurrent, EditInv, Holds
  <2>7. PutInv'
    BY <1>1, <1>2, <2>0, <2>1, ValidatedFacts DEF PutInv, Undisturbed
  <2> QED BY <2>2, <2>3, <2>4, <2>5, <2>6, <2>7
<1> QED BY <1>5, <1>6, <1>7

LEMMA EditKeepsInv ==
  ASSUME IInv, NEW c \in Calls, Edit(c)
  PROVE  IInv'
<1> USE DEF IInv
<1>1. pc[c] = "edit" /\ pc'[c] = "fill" /\ snap'[c] = Edited(c)
      /\ text' = (IF kind \in InPlace THEN Torn ELSE text)
      /\ UNCHANGED <<kind, lock, binary, req, stage, mine, hung, saved, blind, lapped, missed>>
      /\ \A b \in Calls \ {c} : pc'[b] = pc[b] /\ snap'[b] = snap[b]
  BY DEF Edit, TypeOK, history
<1>2. TypeOK'
  BY <1>1, EditedFacts DEF Edit, TypeOK, history
<1>3. AskedInv'
  BY <1>1 DEF AskedInv, Asked, Requests
<1>4. LockInv' /\ BinaryInv'
  BY <1>1 DEF LockInv, Holds, BinaryInv
<1>5. FileInv'
  BY <1>1 DEF FileInv
<1>6. TornHasCause'
  BY <1>1 DEF TornHasCause, InPlace, LockInv, Holds
<1>7. BaseIsCurrent'
  BY <1>1 DEF BaseIsCurrent
<1>8. EditInv'
  BY <1>1, EditedFacts DEF EditInv, Spared
<1>9. PutInv'
  BY <1>1, EditedFacts DEF PutInv, Undisturbed
<1> QED BY <1>2, <1>3, <1>4, <1>5, <1>6, <1>7, <1>8, <1>9

LEMMA FillKeepsInv ==
  ASSUME IInv, NEW c \in Calls, Fill(c)
  PROVE  IInv'
<1> USE DEF IInv
<1>1. pc[c] = "fill" /\ text' = snap[c] /\ saved' = snap[c] /\ lock' = None
      /\ stage'[c] = (IF stage[c] = "look" THEN "change" ELSE "answer")
      /\ pc'[c] = (IF stage[c] = "answer" \/ req[c].op # "put" THEN "done" ELSE "wait")
      /\ lapped' = lapped \cup Overlapped(c)
      /\ UNCHANGED <<kind, binary, req, snap, mine, hung, blind, missed>>
      /\ \A b \in Calls \ {c} : pc'[b] = pc[b] /\ stage'[b] = stage[b]
  BY DEF Fill, Finish, TypeOK
<1>2. stage[c] = "change" /\ stage'[c] = "answer"
  BY <1>1 DEF AskedInv, Asked
<1>3. \A b \in Calls \ {c} : ~Holds(b)
  BY <1>1 DEF LockInv, Holds
<1>4. snap[c] \in Data /\ snap[c] # Torn
  BY TornAssumption DEF TypeOK
<1>5. TypeOK'
  BY <1>1, <1>4 DEF Fill, Finish, Overlapped, TypeOK
<1>6. AskedInv'
  BY <1>1, <1>2 DEF AskedInv, Asked, Requests
<1>7. LockInv'
  BY <1>1, <1>3, NoneAssumption DEF LockInv, Holds
<1>8. FileInv' /\ TornHasCause' /\ BinaryInv'
  BY <1>1, <1>4 DEF FileInv, TornHasCause, BinaryInv
<1>9. BaseIsCurrent' /\ EditInv'
  BY <1>1, <1>3 DEF BaseIsCurrent, EditInv, Holds
<1>10. PutInv'
  <2> SUFFICES ASSUME NEW b \in Calls, pc'[b] \in {"wait", "read", "edit", "fill"},
                      stage'[b] = "change", req'[b].op = "put", Undisturbed(b)'
               PROVE  RestKept(req'[b].name, saved'[req'[b].name], mine'[b])
                      /\ (pc'[b] = "fill" => SameRest(snap'[b][req'[b].name], mine'[b]))
    BY DEF PutInv
  <2>1. b # c /\ ~Holds(b)
    BY <1>2, <1>3
  <2>2. pc[b] = "wait" /\ stage[b] = "change" /\ req[b].op = "put" /\ Undisturbed(b)
    BY <1>1, <2>1 DEF Undisturbed, Holds
  <2>3. c \notin blind /\ req[b].name # req[c].name
    BY <1>1, <2>1, <2>2 DEF Undisturbed, Overlapped
  <2>4. req[b] \in Order /\ kind = "prefs"
    BY <2>2, RequestsAreOrders DEF AskedInv, Asked
  <2>5. Spared(saved, snap[c], req[b].name)
    BY <1>1, <2>3, <2>4 DEF EditInv, Order
  <2> QED BY <1>1, <2>1, <2>2, <2>4, <2>5 DEF PutInv, Spared
<1> QED BY <1>5, <1>6, <1>7, <1>8, <1>9, <1>10

LEMMA DieKeepsInv ==
  ASSUME IInv, NEW c \in Calls, Die(c)
  PROVE  IInv'
<1> USE DEF IInv
<1>1. pc[c] \in {"wait", "read", "edit", "fill"} /\ pc'[c] = "dead"
      /\ lock' = (IF lock = c THEN None ELSE lock)
      /\ UNCHANGED <<kind, binary, req, stage, snap, mine, blind, missed>>
      /\ \A b \in Calls \ {c} : pc'[b] = pc[b]
  BY DEF Die, TypeOK
<1>2. AskedInv' /\ BinaryInv'
  BY <1>1 DEF AskedInv, Asked, Requests, BinaryInv
<1>3. LockInv'
  BY <1>1, NoneAssumption DEF LockInv, Holds
<1>4. CASE pc[c] = "fill" /\ kind \in InPlace
  <2>1. text' \in Remains(snap[c]) /\ saved' = Seen(text)' /\ lapped' = lapped \cup Calls
    BY <1>4 DEF Die, Seen, Empty, Blank
  <2>2. text' \in Data \cup {Torn}
    BY <2>1, DataFacts
  <2>3. saved' \in Data /\ (text' # Torn => text' = saved') /\ (text' = Torn => saved' = Empty)
    BY <2>1, <2>2, DataFacts DEF Seen, Empty, Blank
  <2>4. TypeOK'
    BY <1>1, <2>1, <2>2, <2>3 DEF Die, TypeOK
  <2>5. \A b \in Calls \ {c} : ~Holds(b)
    BY <1>4 DEF LockInv, Holds
  <2>6. FileInv' /\ TornHasCause'
    BY <1>1, <1>4, <2>3 DEF FileInv, TornHasCause, InPlace, Empty, Blank
  <2>7. BaseIsCurrent' /\ EditInv' /\ PutInv'
    BY <1>1, <2>1, <2>5 DEF BaseIsCurrent, EditInv, PutInv, Undisturbed, Holds
  <2> QED BY <1>2, <1>3, <2>4, <2>6, <2>7
<1>5. CASE ~(pc[c] = "fill" /\ kind \in InPlace)
  <2>1. UNCHANGED <<text, saved, lapped>>
    BY <1>5 DEF Die
  <2>2. TypeOK'
    BY <1>1, <2>1 DEF Die, TypeOK
  <2>3. text = Torn => pc[c] # "fill"
    BY <1>5 DEF TornHasCause, InPlace, TypeOK, Kinds
  <2>4. FileInv'
    BY <1>1, <2>1, <2>3 DEF FileInv, Empty, Blank
  <2>5. TornHasCause'
    BY <1>1, <2>1, <2>3 DEF TornHasCause
  <2>6. BaseIsCurrent' /\ EditInv' /\ PutInv'
    BY <1>1, <2>1 DEF BaseIsCurrent, EditInv, Spared, PutInv, Undisturbed
  <2> QED BY <1>2, <1>3, <2>2, <2>4, <2>5, <2>6
<1> QED BY <1>4, <1>5

LEMMA RestKeepsInv ==
  ASSUME IInv,
         \/ \E c \in Calls : Hang(c)
         \/ \E n \in Names : Install(n) \/ Remove(n)
         \/ UNCHANGED vars
  PROVE  IInv'
<1> USE DEF IInv
<1>1. UNCHANGED <<kind, text, lock, req, stage, pc, snap, mine, saved, blind, lapped>>
  BY DEF Hang, Install, Remove, vars, file, call, history
<1>2. \A n \in Names : n \in missed => n \in missed'
  BY DEF Hang, Install, Remove, vars, history
<1>3. TypeOK'
  BY DEF TypeOK, Hang, Install, Remove, vars, file, call, history
<1>4. AskedInv' /\ LockInv' /\ FileInv' /\ TornHasCause' /\ BaseIsCurrent' /\ PutInv'
  BY <1>1 DEF AskedInv, Asked, Requests, LockInv, Holds, FileInv, Empty, Blank, TornHasCause,
              BaseIsCurrent, PutInv, Undisturbed
<1>5. BinaryInv'
  BY DEF BinaryInv, Hang, Install, Remove, vars, file, call, history
<1>6. EditInv'
  BY <1>1, <1>2 DEF EditInv, Spared, Blank
<1> QED BY <1>3, <1>4, <1>5, <1>6

LEMMA NextKeepsInv == IInv /\ [Next]_vars => IInv'
<1> SUFFICES ASSUME IInv, [Next]_vars PROVE IInv'
  OBVIOUS
<1>1. ASSUME NEW c \in Calls, NEW r \in Requests, Start(c, r) PROVE IInv'
  BY <1>1, StartKeepsInv
<1>2. ASSUME NEW c \in Calls, Acquire(c) PROVE IInv'
  BY <1>2, AcquireKeepsInv
<1>3. ASSUME NEW c \in Calls, Timeout(c) PROVE IInv'
  BY <1>3, TimeoutKeepsInv
<1>4. ASSUME NEW c \in Calls, Read(c) \/ ReadFails(c) PROVE IInv'
  <2>1. content \in Data /\ Empty \in Data
    BY DataFacts DEF IInv
  <2>2. CASE Read(c)
    BY <2>1, <2>2, TakeKeepsInv DEF Read
  <2>3. CASE ReadFails(c)
    BY <2>1, <2>3, TakeKeepsInv DEF ReadFails
  <2> QED BY <1>4, <2>2, <2>3
<1>5. ASSUME NEW c \in Calls, Edit(c) PROVE IInv'
  BY <1>5, EditKeepsInv
<1>6. ASSUME NEW c \in Calls, Fill(c) PROVE IInv'
  BY <1>6, FillKeepsInv
<1>7. ASSUME NEW c \in Calls, Die(c) PROVE IInv'
  BY <1>7, DieKeepsInv
<1>8. ASSUME \/ \E c \in Calls : Hang(c)
             \/ \E n \in Names : Install(n) \/ Remove(n)
             \/ UNCHANGED vars
      PROVE  IInv'
  BY <1>8, RestKeepsInv
<1> QED BY <1>1, <1>2, <1>3, <1>4, <1>5, <1>6, <1>7, <1>8 DEF Next, Work

(***************************************************************************)
(* IInv holds in every reachable state.                                    *)
(***************************************************************************)
THEOREM Inductive == Spec => []IInv
<1>1. Init => IInv
  BY InvInit
<1>2. IInv /\ [Next]_vars => IInv'
  BY NextKeepsInv
<1> QED BY <1>1, <1>2, PTL DEF Spec

(***************************************************************************)
(* The variables hold what they may hold.                                  *)
(***************************************************************************)
THEOREM TypeCorrect == Spec => []TypeOK
<1>1. IInv => TypeOK
  BY DEF IInv
<1> QED BY <1>1, Inductive, PTL

(***************************************************************************)
(* No write_common(), write_app(), register() or publish_shared_path()     *)
(* works on data that another call has replaced since it read them.        *)
(***************************************************************************)
THEOREM BasesAreCurrent == Spec => []BaseIsCurrent
<1>1. IInv => BaseIsCurrent
  BY DEF IInv
<1> QED BY <1>1, Inductive, PTL

(***************************************************************************)
(* _write_raw() leaves half a file only when it is at work or its process  *)
(* has died, and _atomic_write() never does.                               *)
(***************************************************************************)
THEOREM TornFilesHaveCauses == Spec => []TornHasCause
<1>1. IInv => TornHasCause
  BY DEF IInv
<1> QED BY <1>1, Inductive, PTL

(***************************************************************************)
(* No write by one app loses a section of another, unless the writer could *)
(* not read the file or dies while it writes.                              *)
(***************************************************************************)
LEMMA StepKeepsSections ==
  ASSUME IInv, [Next]_vars, saved' # saved
  PROVE  Kept(saved, saved') \/ \E c \in Calls : lock = c /\ (c \in blind \/ pc'[c] = "dead")
<1>1. ASSUME NEW c \in Calls, Fill(c)
      PROVE  Kept(saved, saved') \/ c \in blind
  <2>1. pc[c] = "fill" /\ saved' = snap[c]
    BY <1>1 DEF Fill
  <2>2. req[c].name \in Names
    BY <2>1, RequestsAreOrders DEF IInv, AskedInv, Asked, Order
  <2>3. c \notin blind => \A m \in Names \ {req[c].name} : Spared(saved, snap[c], m)
    BY <2>1 DEF IInv, EditInv
  <2> QED BY <2>1, <2>2, <2>3 DEF Kept, Spared
<1>2. ASSUME NEW c \in Calls, Fill(c) PROVE lock = c
  BY <1>2 DEF Fill, IInv, LockInv, Holds
<1>3. ASSUME NEW c \in Calls, Die(c)
      PROVE  saved' = saved \/ (lock = c /\ pc'[c] = "dead")
  <2>1. pc'[c] = "dead"
    BY <1>3 DEF Die, IInv, TypeOK
  <2>2. pc[c] = "fill" => lock = c
    BY DEF IInv, LockInv, Holds
  <2> QED BY <1>3, <2>1, <2>2 DEF Die
<1>4. saved' = saved \/ \E c \in Calls : Fill(c) \/ Die(c)
  BY DEF Next, Work, Start, Acquire, Timeout, Read, ReadFails, Take, Edit, Hang, Install, Remove,
         vars, file, call, history
<1> QED BY <1>1, <1>2, <1>3, <1>4

THEOREM SectionsStay == Spec => SectionsAreKept
<1>1. IInv /\ [Next]_vars =>
        [saved' # saved =>
           Kept(saved, saved') \/ \E c \in Calls : lock = c /\ (c \in blind \/ pc'[c] = "dead")]_vars
  BY StepKeepsSections
<1> QED BY <1>1, Inductive, PTL DEF Spec, SectionsAreKept

(***************************************************************************)
(* put_device() loses the rest of its section only to an overlapping write *)
(* or to a read that fails.                                                *)
(***************************************************************************)
LEMMA StepKeepsRest ==
  ASSUME IInv, [Next]_vars, NEW c \in Calls,
         pc[c] = "fill", pc'[c] = "wait", c \notin blind \cup lapped
  PROVE  RestKept(req[c].name, saved[req[c].name], saved'[req[c].name])
<1>1. Fill(c)
  <2>1. \A b \in Calls : Fill(b) => b = c
    BY DEF Fill, IInv, LockInv, Holds
  <2>2. \A b \in Calls, r \in Requests : ~Start(b, r)
    BY DEF Start, IInv, TypeOK
  <2>3. \A b \in Calls : ~Acquire(b) /\ ~Timeout(b) /\ ~Edit(b) /\ ~Die(b) /\ ~Hang(b)
    BY DEF Acquire, Timeout, Edit, Die, Hang, IInv, TypeOK
  <2>4. \A b \in Calls : ~Read(b) /\ ~ReadFails(b)
    BY DEF Read, ReadFails, Take, IInv, LockInv, Holds
  <2>5. ~(\E n \in Names : Install(n) \/ Remove(n)) /\ ~(UNCHANGED vars)
    BY DEF Install, Remove, vars, call
  <2> QED BY <2>1, <2>2, <2>3, <2>4, <2>5 DEF Next, Work
<1>2. saved' = snap[c] /\ req[c].op = "put"
  BY <1>1 DEF Fill, Finish, IInv, AskedInv, Asked, TypeOK
<1>3. stage[c] = "change"
  BY DEF IInv, AskedInv, Asked
<1>4. RestKept(req[c].name, saved[req[c].name], mine[c]) /\ SameRest(snap[c][req[c].name], mine[c])
  BY <1>2, <1>3 DEF IInv, PutInv, Undisturbed
<1> QED BY <1>2, <1>4 DEF RestKept, SameRest

THEOREM PutsKeepTheRest == Spec => PutKeepsTheRest
<1>1. IInv /\ [Next]_vars =>
        [\A c \in Calls :
           pc[c] = "fill" /\ pc'[c] = "wait" /\ c \notin blind \cup lapped =>
             RestKept(req[c].name, saved[req[c].name], saved'[req[c].name])]_vars
  BY StepKeepsRest
<1> QED BY <1>1, Inductive, PTL DEF Spec, PutKeepsTheRest

-----------------------------------------------------------------------------
(***************************************************************************)
(* Who waits for whom, and for how long: what CallsEnd rests on, but for   *)
(* the fairness.                                                           *)
(*                                                                         *)
(* The lock file is never left behind.  If it is taken, one call is in its *)
(* locked part, and a call that waits is not the one that holds it: no     *)
(* put_device() waits for itself between its locked parts, and no dead     *)
(* process keeps the others out.                                           *)
(***************************************************************************)
LockHasOneHolder ==
  /\ lock # None => lock \in Calls /\ Holds(lock) /\ ~Ended(lock)
  /\ \A c, d \in Calls : Holds(c) /\ Holds(d) => c = d

THEOREM LocksAreReleased == Spec => []LockHasOneHolder
<1>1. IInv => LockHasOneHolder
  BY DEF IInv, TypeOK, LockInv, LockHasOneHolder, Holds, Ended
<1> QED BY <1>1, Inductive, PTL

(***************************************************************************)
(* The steps a call has left: four at most in each of the parts it has     *)
(* still to do under the lock.                                             *)
(***************************************************************************)
PartsAfter(c) == CASE stage[c] = "look" -> 2 [] stage[c] = "change" -> 1 [] stage[c] = "answer" -> 0

StepsInPart(c) ==
  CASE pc[c] = "wait" -> 4 [] pc[c] = "read" -> 3 [] pc[c] = "edit" -> 2 [] pc[c] = "fill" -> 1

Left(c) == IF Ended(c) THEN 0 ELSE 4 * PartsAfter(c) + StepsInPart(c)

StandsStill(c) == pc'[c] = pc[c] /\ stage'[c] = stage[c]

LEMMA LeftIsSmall ==
  ASSUME TypeOK, NEW c \in Calls, pc[c] # "idle"
  PROVE  Left(c) \in 0..12
<1>1. PartsAfter(c) \in 0..2
  BY DEF PartsAfter, TypeOK
<1>2. CASE Ended(c)
  BY <1>2 DEF Left
<1>3. CASE ~Ended(c)
  <2>1. StepsInPart(c) \in 1..4
    BY <1>3 DEF StepsInPart, Ended, TypeOK
  <2> QED BY <1>1, <1>3, <2>1 DEF Left
<1> QED BY <1>2, <1>3

(***************************************************************************)
(* A step of a call that has begun takes it nearer to its end, and no step *)
(* of another takes it away: no retry, no loop, and at most twelve steps.  *)
(* What is left to CallsEnd is that the lock comes to it in the end.       *)
(***************************************************************************)
CallsRunDown ==
  [][\A c \in Calls : pc[c] # "idle" =>
       /\ Left(c) \in 0..12
       /\ StandsStill(c) \/ (Left(c)' \in 0..12 /\ Left(c)' < Left(c))]_vars

LEMMA OwnStepRunsDown ==
  ASSUME IInv, IInv', NEW c \in Calls, pc[c] # "idle",
         Acquire(c) \/ Timeout(c) \/ Read(c) \/ ReadFails(c) \/ Edit(c) \/ Fill(c) \/ Die(c)
  PROVE  Left(c)' \in 0..12 /\ Left(c)' < Left(c)
<1> USE DEF IInv
<1>1. CASE Acquire(c)
  <2>1. pc[c] = "wait" /\ pc'[c] = "read" /\ stage'[c] = stage[c]
    BY <1>1 DEF Acquire, TypeOK
  <2> QED BY <2>1 DEF Left, Ended, PartsAfter, StepsInPart, TypeOK
<1>2. CASE Timeout(c)
  <2>1. pc[c] = "wait" /\ pc'[c] = "raised"
    BY <1>2 DEF Timeout, TypeOK
  <2> QED BY <2>1 DEF Left, Ended, PartsAfter, StepsInPart, TypeOK
<1>3. CASE Read(c) \/ ReadFails(c)
  <2>1. pc[c] = "read"
        /\ \/ stage[c] = "change" /\ pc'[c] = "edit" /\ stage'[c] = stage[c]
           \/ pc'[c] = "raised"
           \/ /\ stage'[c] = (IF stage[c] = "look" THEN "change" ELSE "answer")
              /\ pc'[c] = (IF stage[c] = "answer" \/ req[c].op # "put" THEN "done" ELSE "wait")
              /\ stage[c] # "change"
    BY <1>3 DEF Read, ReadFails, Take, Finish, TypeOK
  <2> QED BY <2>1 DEF Left, Ended, PartsAfter, StepsInPart, TypeOK
<1>4. CASE Edit(c)
  <2>1. pc[c] = "edit" /\ pc'[c] = "fill" /\ stage'[c] = stage[c]
    BY <1>4 DEF Edit, TypeOK
  <2> QED BY <2>1 DEF Left, Ended, PartsAfter, StepsInPart, TypeOK
<1>5. CASE Fill(c)
  <2>1. pc[c] = "fill" /\ stage[c] = "change" /\ stage'[c] = "answer" /\ pc'[c] \in {"done", "wait"}
    BY <1>5 DEF Fill, Finish, AskedInv, Asked, TypeOK
  <2> QED BY <2>1 DEF Left, Ended, PartsAfter, StepsInPart, TypeOK
<1>6. CASE Die(c)
  <2>1. pc[c] \in {"wait", "read", "edit", "fill"} /\ pc'[c] = "dead"
    BY <1>6 DEF Die, TypeOK
  <2> QED BY <2>1 DEF Left, Ended, PartsAfter, StepsInPart, TypeOK
<1> QED BY <1>1, <1>2, <1>3, <1>4, <1>5, <1>6

LEMMA StepRunsDown ==
  ASSUME IInv, IInv', [Next]_vars, NEW c \in Calls, pc[c] # "idle"
  PROVE  StandsStill(c) \/ (Left(c)' \in 0..12 /\ Left(c)' < Left(c))
<1> USE DEF IInv
<1>1. ASSUME NEW b \in Calls, NEW r \in Requests, Start(b, r) PROVE StandsStill(c)
  BY <1>1 DEF Start, StandsStill, TypeOK
<1>2. ASSUME NEW b \in Calls, b # c,
             Acquire(b) \/ Timeout(b) \/ Read(b) \/ ReadFails(b) \/ Edit(b) \/ Fill(b) \/ Die(b)
      PROVE  StandsStill(c)
  BY <1>2 DEF Acquire, Timeout, Read, ReadFails, Take, Finish, Edit, Fill, Die, StandsStill, TypeOK
<1>3. ASSUME \/ \E b \in Calls : Hang(b)
             \/ \E n \in Names : Install(n) \/ Remove(n)
             \/ UNCHANGED vars
      PROVE  StandsStill(c)
  BY <1>3 DEF Hang, Install, Remove, vars, call, StandsStill
<1> QED BY <1>1, <1>2, <1>3, OwnStepRunsDown DEF Next, Work

THEOREM EveryStepNearsTheEnd == Spec => CallsRunDown
<1>1. IInv /\ IInv' /\ [Next]_vars =>
        [\A c \in Calls : pc[c] # "idle" =>
           /\ Left(c) \in 0..12
           /\ StandsStill(c) \/ (Left(c)' \in 0..12 /\ Left(c)' < Left(c))]_vars
  BY StepRunsDown, LeftIsSmall DEF IInv
<1> QED BY <1>1, Inductive, PTL DEF Spec, CallsRunDown
=============================================================================
