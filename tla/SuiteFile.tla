------------------------------ MODULE SuiteFile ------------------------------
(***************************************************************************)
(* SuiteFile: the files that the apps of the suite share and change under  *)
(* a lock file: prefs.json, installed.toml and shared-paths.json.          *)
(*                                                                         *)
(* Each holds sections by name and is changed in one way: take the lock,   *)
(* read the file, change one section, write the file.  A behaviour is      *)
(* about one of them, kind, since calls on different files never meet.     *)
(*                                                                         *)
(* Who moves.  Each call of a public function is an actor; a step is one   *)
(* access to the lock file or to the file.  A call may die, which frees    *)
(* its lock, or hang with the lock held.  Binaries of apps come and go.    *)
(*                                                                         *)
(* In the beginning the file is missing or holds a setting per section;    *)
(* that of the preferences may come from another version of the suite.     *)
(*                                                                         *)
(* Data.  A section is a device, the settings its readers know, and the    *)
(* keys they do not know; the entries of the registry and of the shared    *)
(* paths have settings only.  A missing section and one without contents   *)
(* are the same, as for every reader, and so are no device and "".         *)
(***************************************************************************)
EXTENDS Naturals

CONSTANTS
  Calls,   \* calls of the functions
  Names,   \* sections: "common" and apps, installed apps, or keys
  Common,  \* the section that the apps have in common
  Values,  \* what a setting may be
  Default, \* the settings that CommonUIPrefs fills in
  Odd,     \* settings that UIPrefs does not accept
  None,    \* no setting, nobody
  Torn     \* a text that does not parse

ASSUME NoneAssumption == None \notin Values \cup Calls /\ Common \in Names
ASSUME DefaultAssumption == Default # None /\ Odd \notin Values \cup {None, Default}

(***************************************************************************)
(* Definitions named Wrong... are plausible mistakes in the definition     *)
(* that follows them.  Nothing uses them.                                  *)
(***************************************************************************)

VARIABLES
  kind,    \* which file this is about
  text,    \* what the file holds, Torn if it does not parse
  lock,    \* the call that holds the lock file
  binary,  \* apps whose binary is on disk
  req,     \* what each call is to do
  stage,   \* which of its locked parts each call is in
  pc,      \* where it stands in that part
  snap,    \* the data it has read, or is writing
  mine,    \* the section put_device() works on
  hung,    \* calls that do no more
  saved,   \* history: what the file held when it was last closed
  blind,   \* history: calls for which reading the file failed
  lapped,  \* history: calls during which another one changed their section
  missed   \* history: apps whose binary was once missing

file == <<kind, text, lock>>
call == <<req, stage, pc, snap, mine, hung>>
history == <<saved, blind, lapped, missed>>
vars == <<file, binary, call, history>>

-----------------------------------------------------------------------------
(***************************************************************************)
(* The file.                                                               *)
(***************************************************************************)

Kinds == {"prefs", "registry", "shared"}

\* Waiting for the lock ends after lock_timeout.
WrongTimed == {"shared"}

Timed == {"prefs", "shared"}

\* The file is opened for writing under its own name.
WrongInPlace == Kinds

InPlace == {"prefs", "registry"}

Setting == Values \cup {None}
Settings == Setting \cup {Default, Odd}
Section == [device : Setting, rest : Settings, extra : Setting]
Blank == [device |-> None, rest |-> None, extra |-> None]
Empty == [n \in Names |-> Blank]
Data == [Names -> Section]

ASSUME TornAssumption == Torn \notin Data
\* The parser's error is not caught.
WrongSeen(t) == t

\* _read_raw: what does not parse reads as nothing.
Seen(t) == IF t = Torn THEN Empty ELSE t

content == Seen(text)

\* What a writer that died in its write leaves.  Cut TOML may still parse,
\* as some of the sections.
Remains(data) ==
  {Torn} \cup IF kind = "registry"
                THEN {[n \in Names |-> IF n \in K THEN data[n] ELSE Blank] : K \in SUBSET Names}
                ELSE {}

-----------------------------------------------------------------------------
(***************************************************************************)
(* The calls.  "look", "change" and "answer" are parts under the lock:     *)
(* put_device reads, then writes, then reads for its answer.  A read of   *)
(* the preferences or the registry is of every section.                    *)
(***************************************************************************)

Request(op, N, S) == [op : {op}, name : N, val : S]
Plain == [device : {None}, rest : Setting, extra : {None}]

\* A CommonUIPrefs has every setting; an app's section is any JSON.  Neither
\* names a device here: put_device() is there for that.
CommonSections == [device : {None}, rest : Values \cup {Default}, extra : {None}]
AppSections == [device : {None}, rest : Setting \cup {Odd}, extra : {None}]

\* write_common, write_app, put_device, read.
PrefsRequests ==
  Request("set", {Common}, CommonSections)
  \cup Request("set", Names \ {Common}, AppSections)
  \cup Request("put", Names, [device : Setting, rest : {None}, extra : {None}])
  \cup Request("read", {Common}, {Blank})

\* register, by register_self, unregister, list_installed.
RegistryRequests ==
  Request("register", Names, Plain \ {Blank})
  \cup Request("unregister", Names, {Blank}) \cup Request("read", {Common}, {Blank})

\* publish_shared_path, resolve_shared_path.
SharedRequests == Request("set", Names, Plain \ {Blank}) \cup Request("read", Names, {Blank})

Requests ==
  CASE kind = "prefs" -> PrefsRequests
    [] kind = "registry" -> RegistryRequests
    [] kind = "shared" -> SharedRequests

FirstStage(op) == CASE op = "put" -> "look" [] op = "read" -> "answer" [] OTHER -> "change"

Start(c, r) ==
  /\ pc[c] = "idle"
  /\ r \in Requests
  /\ req' = [req EXCEPT ![c] = r]
  /\ stage' = [stage EXCEPT ![c] = FirstStage(r.op)]
  /\ pc' = [pc EXCEPT ![c] = "wait"]
  /\ UNCHANGED <<file, binary, snap, mine, hung, history>>

\* The lock file is taken only to write.
WrongAcquire(c) ==
  /\ pc[c] = "wait"
  /\ lock = None \/ stage[c] = "change"
  /\ lock' = c
  /\ pc' = [pc EXCEPT ![c] = "read"]
  /\ UNCHANGED <<kind, text, binary, req, stage, snap, mine, hung, history>>

Acquire(c) ==
  /\ pc[c] = "wait"
  /\ lock = None
  /\ lock' = c
  /\ pc' = [pc EXCEPT ![c] = "read"]
  /\ UNCHANGED <<kind, text, binary, req, stage, snap, mine, hung, history>>

\* PrefsLockTimeout, SharedPathsLockTimeout: somebody held it all the time.
Timeout(c) ==
  /\ pc[c] = "wait"
  /\ lock # None /\ kind \in Timed
  /\ pc' = [pc EXCEPT ![c] = "raised"]
  /\ UNCHANGED <<file, binary, req, stage, snap, mine, hung, history>>

\* A part ends, and the call, unless it is a put_device with more to do.
Finish(c) ==
  /\ lock' = None
  /\ stage' = [stage EXCEPT ![c] = IF @ = "look" THEN "change" ELSE "answer"]
  /\ pc' = [pc EXCEPT ![c] = IF stage[c] = "answer" \/ req[c].op # "put" THEN "done" ELSE "wait"]

\* UIPrefs.model_validate() raises.
Rejected(data) == kind = "prefs" /\ \E n \in Names : data[n].rest = Odd

\* The defaults replace what the file says.
WrongValidated(n, s) ==
  IF kind = "prefs" /\ n = Common THEN [s EXCEPT !.rest = Default, !.extra = None] ELSE s

\* UIPrefs.model_validate(): the common section gets its defaults and loses
\* the keys that CommonUIPrefs does not know; a section of an app stays.
Validated(n, s) ==
  IF kind = "prefs" /\ n = Common
    THEN [s EXCEPT !.rest = IF @ = None THEN Default ELSE @, !.extra = None]
    ELSE s

\* Under the lock the call reads data, or takes any error for no data.  To
\* write it needs the data, otherwise the preferences in it.
Take(c, data) ==
  /\ pc[c] = "read"
  /\ snap' = [snap EXCEPT ![c] = data]
  /\ \/ /\ stage[c] = "change"
        /\ pc' = [pc EXCEPT ![c] = "edit"]
        /\ UNCHANGED <<lock, stage, mine>>
     \/ /\ stage[c] # "change" /\ Rejected(data)
        /\ lock' = None
        /\ pc' = [pc EXCEPT ![c] = "raised"]
        /\ UNCHANGED <<stage, mine>>
     \/ /\ stage[c] # "change" /\ ~Rejected(data)
        /\ mine' = [mine EXCEPT ![c] = Validated(req[c].name, data[req[c].name])]
        /\ Finish(c)
  /\ UNCHANGED <<kind, text, binary, req, hung, saved, lapped, missed>>

Read(c) == Take(c, content) /\ UNCHANGED blind

ReadFails(c) == Take(c, Empty) /\ blind' = blind \cup {c}

Changed(c) ==
  IF req[c].op = "put" THEN [mine[c] EXCEPT !.device = req[c].val.device] ELSE req[c].val

\* The file is replaced by the section.
WrongEdited(c) ==
  [m \in Names |-> IF m = req[c].name THEN Changed(c) ELSE Blank]

\* register() prunes the entries of other apps whose binary is gone.
Edited(c) ==
  [m \in Names |-> IF m = req[c].name THEN Changed(c)
                   ELSE IF req[c].op = "register" /\ m \notin binary THEN Blank
                   ELSE snap[c][m]]

\* The data to write is made, and the file or a temporary one is opened.
Edit(c) ==
  /\ pc[c] = "edit"
  /\ snap' = [snap EXCEPT ![c] = Edited(c)]
  /\ text' = IF kind \in InPlace THEN Torn ELSE text
  /\ pc' = [pc EXCEPT ![c] = "fill"]
  /\ UNCHANGED <<kind, lock, binary, req, stage, mine, hung, history>>

\* Calls under way that a write by c overlaps: on its section, or on any
\* if c could not read the file.
Overlapped(c) ==
  {b \in Calls \ {c} : /\ pc[b] \notin {"idle", "done", "raised", "dead"}
                       /\ req[b].name = req[c].name \/ c \in blind}

\* The data is written, or the temporary file renamed, and the lock released.
Fill(c) ==
  /\ pc[c] = "fill"
  /\ text' = snap[c]
  /\ saved' = snap[c]
  /\ lapped' = lapped \cup Overlapped(c)
  /\ Finish(c)
  /\ UNCHANGED <<kind, binary, req, snap, mine, hung, blind, missed>>

-----------------------------------------------------------------------------
(***************************************************************************)
(* What goes wrong.                                                        *)
(***************************************************************************)

\* The process dies, or the disk is full: the lock is freed, and a file
\* that was being written stays as it is.
Die(c) ==
  /\ pc[c] \in {"wait", "read", "edit", "fill"}
  /\ pc' = [pc EXCEPT ![c] = "dead"]
  /\ IF pc[c] = "fill" /\ kind \in InPlace
       THEN /\ text' \in Remains(snap[c])
            /\ saved' = Seen(text')
            /\ lapped' = lapped \cup Calls
       ELSE UNCHANGED <<text, saved, lapped>>
  /\ lock' = IF lock = c THEN None ELSE lock
  /\ hung' = hung \ {c}
  /\ UNCHANGED <<kind, binary, req, stage, snap, mine, blind, missed>>

\* An orphaned process holds the lock and does no more.
Hang(c) ==
  /\ pc[c] \in {"read", "edit", "fill"} /\ c \notin hung
  /\ hung' = hung \cup {c}
  /\ UNCHANGED <<file, binary, req, stage, pc, snap, mine, history>>

\* An app is installed, or removed, without a word to the registry.
Install(n) ==
  /\ kind = "registry" /\ n \notin binary
  /\ binary' = binary \cup {n}
  /\ UNCHANGED <<file, call, history>>

Remove(n) ==
  /\ kind = "registry" /\ n \in binary
  /\ binary' = binary \ {n}
  /\ missed' = missed \cup {n}
  /\ UNCHANGED <<file, call, saved, blind, lapped>>

-----------------------------------------------------------------------------
\* What the file may hold before the first call.
Found ==
  IF kind = "prefs"
    THEN {[n \in Names |-> IF n = Common THEN s ELSE Blank] :
            s \in [device : {None}, rest : Setting \cup {Odd}, extra : Setting]}
    ELSE {[n \in Names |-> s] : s \in Plain}

Init ==
  /\ kind \in Kinds
  /\ text \in Found
  /\ lock = None
  /\ binary = Names
  /\ req = [c \in Calls |-> None]
  /\ stage = [c \in Calls |-> "look"]
  /\ pc = [c \in Calls |-> "idle"]
  /\ snap = [c \in Calls |-> Empty]
  /\ mine = [c \in Calls |-> Blank]
  /\ hung = {}
  /\ saved = text
  /\ blind = {}
  /\ lapped = {}
  /\ missed = {}

Work(c) == c \notin hung /\ (Read(c) \/ ReadFails(c) \/ Edit(c) \/ Fill(c))

Next ==
  \/ \E c \in Calls, r \in Requests : Start(c, r)
  \/ \E c \in Calls : Acquire(c) \/ Timeout(c) \/ Work(c) \/ Die(c) \/ Hang(c)
  \/ \E n \in Names : Install(n) \/ Remove(n)

Spec == Init /\ [][Next]_vars

\* A call polls for the lock, and may find it taken each time; with it, it
\* goes on.
Fairness ==
  /\ \A c \in Calls : WF_vars(Work(c))
  /\ \A c \in Calls : SF_vars(Acquire(c))
  /\ \A c \in Calls : WF_vars(Acquire(c) \/ Timeout(c))

FairSpec == Spec /\ Fairness

-----------------------------------------------------------------------------
(***************************************************************************)
(* Properties.                                                             *)
(***************************************************************************)

(***************************************************************************)
(* What each variable may hold.                                            *)
(***************************************************************************)
TypeOK ==
  /\ kind \in Kinds
  /\ text \in Data \cup {Torn}
  /\ lock \in Calls \cup {None}
  /\ binary \in SUBSET Names
  /\ req \in [Calls -> [op : {"set", "put", "read", "register", "unregister"},
                        name : Names, val : Section] \cup {None}]
  /\ stage \in [Calls -> {"look", "change", "answer"}]
  /\ pc \in [Calls -> {"idle", "wait", "read", "edit", "fill", "done", "raised", "dead"}]
  /\ snap \in [Calls -> Data]
  /\ mine \in [Calls -> Section]
  /\ hung \in SUBSET Calls
  /\ saved \in Data
  /\ blind \in SUBSET Calls
  /\ lapped \in SUBSET Calls
  /\ missed \in SUBSET Names

(***************************************************************************)
(* A call that is about to change what it has read holds what the file     *)
(* holds: nobody has written in between.                                   *)
(***************************************************************************)
BaseIsCurrent == \A c \in Calls : pc[c] = "edit" /\ c \notin blind => snap[c] = saved

(***************************************************************************)
(* Half a file has a writer with the lock, or a dead one, and the shared   *)
(* paths are never half written.                                           *)
(***************************************************************************)
TornHasCause ==
  text = Torn => /\ kind # "shared"
                 /\ \E c \in Calls : \/ pc[c] = "dead"
                                     \/ lock = c /\ pc[c] = "fill"

(***************************************************************************)
(* From one closing of the file to the next at most one section changes,   *)
(* apart from entries of apps that were once missing.  Exempt are a write  *)
(* by a call that could not read the file, and a death within a write.     *)
(***************************************************************************)
Kept(old, new) ==
  \E n \in Names : \A m \in Names \ {n} :
    new[m] = old[m] \/ (kind = "registry" /\ new[m] = Blank /\ m \in missed)

SectionsAreKept ==
  [][saved' # saved =>
       Kept(saved, saved') \/ \E c \in Calls : lock = c /\ (c \in blind \/ pc'[c] = "dead")]_vars

(***************************************************************************)
(* put_device() keeps every setting of its section that the file has, and  *)
(* of an app's section every key.  Of the common section it fills in the   *)
(* settings that are missing and may lose the keys nobody knows.  Exempt   *)
(* is a call that another write to its section overlaps, or one by a call  *)
(* that could not read the file: it writes back what it read under an      *)
(* earlier lock.                                                           *)
(***************************************************************************)
RestKept(n, old, new) ==
  /\ new.rest = old.rest \/ (n = Common /\ old.rest = None /\ new.rest = Default)
  /\ new.extra = old.extra \/ (n = Common /\ new.extra = None)

PutKeepsTheRest ==
  [][\A c \in Calls :
       pc[c] = "fill" /\ pc'[c] = "wait" /\ c \notin blind \cup lapped =>
         RestKept(req[c].name, saved[req[c].name], saved'[req[c].name])]_vars

(***************************************************************************)
(* Every call ends, with a timeout if need be, unless it hangs itself; for *)
(* the registry, whose lock has no timeout, unless another one hangs.      *)
(***************************************************************************)
Ended(c) == pc[c] \in {"done", "raised", "dead"}

Hangs(c) == c \in hung \/ (kind = "registry" /\ hung # {})

CallsEnd == \A c \in Calls : pc[c] = "wait" ~> Ended(c) \/ Hangs(c)
=============================================================================
