------------------------------ MODULE PageStore ------------------------------
(***************************************************************************)
(* PageStore: one event-sourced aggregate, a page or a project, that       *)
(* several clients load, change by commands and save.                      *)
(*                                                                         *)
(* The eventsourcing library is external: a command makes the event of the *)
(* next version, applies it and keeps it pending; save takes all pending   *)
(* events off the aggregate and inserts them in one transaction, in which  *)
(* a version may be stored once; each stored version that is a multiple of *)
(* the interval is then snapshotted by loading it back; a load takes the   *)
(* latest snapshot and applies the events after it.                        *)
(*                                                                         *)
(* Data.  A list of blob references is one value, None when empty; so is   *)
(* what the fields of type Any hold, of a node, of a changelog entry and   *)
(* of the one extension namespace of a page.  Such a value goes into the   *)
(* store as it is converted there and need not come back the same.  A      *)
(* caller leaves the arguments of a command alone until it saves, as the   *)
(* module's contract asks.                                                 *)
(***************************************************************************)
EXTENDS Naturals, Sequences

CONSTANTS
  Clients,     \* threads and processes that use the store
  NodeIds,     \* ids of provenance nodes
  Hashes,      \* lists of blob references
  Nodes,       \* provenance nodes that callers pass
  Rotations,   \* rotations that pass the checks of rotation_updated
  Values,      \* contents of the fields of type Any
  Json,        \* what a dump of a model to JSON and its validation make of a value
  Coded,       \* what the library's own transcodings make of a value
  Pages,       \* page ids
  Orders,      \* orders that callers pass to reorder_pages
  Menus,       \* sets of events: those of a behaviour are in one of them
  Interval,    \* every so many versions a snapshot is due
  MaxVersion,  \* bound on the versions of the aggregate
  None,        \* nothing
  Absent       \* no node of that id

ASSUME IntervalAssumption == Interval \in Nat \ {0} /\ MaxVersion \in Nat \ {0}
ASSUME OrdersAssumption   == Orders \subseteq Seq(Pages)

\* What was converted is plain JSON in the end, whatever was converted how before.
ASSUME ValuesAssumption ==
  /\ None \in Values
  /\ Json \in [Values -> Values] /\ Coded \in [Values -> Values]
  /\ \A value \in Values : Json[Json[value]] = Json[value] /\ Json[Coded[value]] = Json[value]

(***************************************************************************)
(* Definitions named Wrong... are plausible mistakes in the definition     *)
(* that follows them.  Nothing uses them.                                  *)
(***************************************************************************)

VARIABLES
  kind,    \* "page" or "project"
  menu,    \* the events that the callers of this behaviour make
  events,  \* the stored events by version, None where there is none
  snaps,   \* the stored snapshots by version
  pc,      \* per client: idle, or what it does in a load or a snapshot
  ver,     \* per client: the version of its aggregate, 0 without one
  pend,    \* per client: its pending events by version
  due,     \* per client: the versions it has yet to snapshot
  view,    \* per client: the aggregate that its load is building
  todo,    \* per client: the versions its load has read
  seen,    \* history, per client: its aggregate's record at each version
  fate,    \* history, per client: what set its aggregate apart, if anything
  wentOn,  \* history: a client went on with an aggregate whose events it lost
  truth    \* history: the record at each version when all events are applied

stored == <<kind, menu, events, snaps>>
client == <<pc, ver, pend, due, view, todo>>
vars   == <<stored, client, seen, fate, wentOn, truth>>

Versions == 1..MaxVersion
Nothing  == [v \in Versions |-> None]
NoView   == [ver |-> 0, rec |-> None, goal |-> 0]

-----------------------------------------------------------------------------
(* Records, events and what an event does to a record. *)

ProvenanceNode == [id : NodeIds, refs : Hashes \cup {None}, data : Values]

ASSUME NodesAssumption == Nodes \subseteq ProvenanceNode

PageRecord ==
  [nodes     : [NodeIds -> ProvenanceNode \cup {Absent}],
   head      : NodeIds \cup {None},
   history   : Seq(NodeIds),
   changelog : Seq([node : NodeIds, changes : Values]),
   failed    : BOOLEAN,
   rotation  : Rotations,
   ext       : Values]

ProjectRecord == [pages : Seq(Pages)]

Record == IF kind = "page" THEN PageRecord ELSE ProjectRecord

PageEvent ==
  [op : {"create"}, record : PageRecord]
    \cup [op : {"preprocess", "ocr"}, node : ProvenanceNode, refs : Hashes]
    \cup [op : {"mark"}, node : ProvenanceNode]
    \cup [op : {"edit"}, node : ProvenanceNode, changes : Values]
    \cup [op : {"rotate"}, to : Rotations]
    \cup [op : {"extend"}, data : Values]

ProjectEvent ==
  [op : {"create"}, record : ProjectRecord]
    \cup [op : {"add", "remove"}, page : Pages]
    \cup [op : {"reorder"}, order : Orders]
    \cup [op : {"export"}]

ASSUME NoneAssumption ==
  /\ None \notin PageRecord
  /\ None \notin ProjectRecord
  /\ None \notin PageEvent
  /\ None \notin ProjectEvent
  /\ Absent \notin ProvenanceNode

Event == IF kind = "page" THEN PageEvent ELSE ProjectEvent

\* A node, a record and an event, as they come back from the store: the models are
\* dumped to JSON and validated, the other arguments are the library's to convert.
NodeJson(node)   == [node EXCEPT !.data = Json[@]]
EntryJson(entry) == [entry EXCEPT !.changes = Json[@]]
NodesJson(nodes) == [n \in NodeIds |-> IF nodes[n] = Absent THEN Absent ELSE NodeJson(nodes[n])]
LogJson(log)     == [i \in DOMAIN log |-> EntryJson(log[i])]

RecordJson(rec) ==
  IF rec \in PageRecord
    THEN [rec EXCEPT !.nodes = NodesJson(@), !.changelog = LogJson(@), !.ext = Json[@]]
    ELSE rec

EventCoded(event) ==
  CASE event.op = "create" -> [event EXCEPT !.record = RecordJson(@)]
    [] event.op \in {"preprocess", "ocr", "mark"} -> [event EXCEPT !.node = NodeJson(@)]
    [] event.op = "edit" -> [event EXCEPT !.node = NodeJson(@), !.changes = Coded[@]]
    [] event.op = "extend" -> [event EXCEPT !.data = Coded[@]]
    [] OTHER -> event

\* The node's own references win; else it gets those of the event.
WithBlobRefs(node, refs) == IF node.refs # None THEN node ELSE [node EXCEPT !.refs = refs]

WrongNodeApplied(rec, node) ==
  [rec EXCEPT !.head = node.id, !.history = Append(@, node.id)]
\* Inserting a node makes it the head and the last of the history.
NodeApplied(rec, node) ==
  [rec EXCEPT !.nodes[node.id] = node, !.head = node.id,
              !.history = Append(@, node.id)]

WrongPageAdded(pages, page) == Append(pages, Len(pages))
\* add_page appends; the index that comes with the page is not used.
PageAdded(pages, page) == Append(pages, page)

\* remove_page takes out the first occurrence, or does nothing.
PageRemoved(pages, page) ==
  IF \E i \in 1..Len(pages) : pages[i] = page
    THEN LET first == CHOOSE i \in 1..Len(pages) :
                        pages[i] = page /\ \A j \in 1..(i - 1) : pages[j] # page
         IN  SubSeq(pages, 1, first - 1) \o SubSeq(pages, first + 1, Len(pages))
    ELSE pages

\* The record after an event: the command's body, run again on every replay.
Applied(event, rec) ==
  CASE event.op = "create"     -> event.record
    [] event.op = "preprocess" -> NodeApplied(rec, WithBlobRefs(event.node, event.refs))
    [] event.op = "ocr"        -> NodeApplied([rec EXCEPT !.failed = FALSE],
                                              WithBlobRefs(event.node, event.refs))
    [] event.op = "mark"       -> NodeApplied(rec, event.node)
    [] event.op = "edit"       -> [NodeApplied(rec, event.node) EXCEPT
                                     !.changelog = Append(@, [node    |-> event.node.id,
                                                              changes |-> event.changes])]
    [] event.op = "rotate"     -> [rec EXCEPT !.rotation = event.to]
    [] event.op = "extend"     -> [rec EXCEPT !.ext = event.data]
    [] event.op = "add"        -> [rec EXCEPT !.pages = PageAdded(@, event.page)]
    [] event.op = "reorder"    -> [rec EXCEPT !.pages = event.order]
    [] event.op = "remove"     -> [rec EXCEPT !.pages = PageRemoved(@, event.page)]
    [] OTHER                   -> rec

Init ==
  /\ kind \in {"page", "project"}
  /\ menu \in Menus
  /\ menu \subseteq Event
  /\ events = Nothing
  /\ snaps = Nothing
  /\ pc = [c \in Clients |-> "idle"]
  /\ ver = [c \in Clients |-> 0]
  /\ pend = [c \in Clients |-> Nothing]
  /\ due = [c \in Clients |-> {}]
  /\ view = [c \in Clients |-> NoView]
  /\ todo = [c \in Clients |-> {}]
  /\ seen = [c \in Clients |-> Nothing]
  /\ fate = [c \in Clients |-> "clean"]
  /\ wentOn = FALSE
  /\ truth = Nothing

-----------------------------------------------------------------------------
(* Commands. *)

Pending(c) == {v \in Versions : pend[c][v] # None}

At(v, value) == [w \in Versions |-> IF w = v THEN value ELSE None]

\* The client's aggregate is another object, at version v.
Fresh(c, v, rec, event) ==
  /\ ver' = [ver EXCEPT ![c] = v]
  /\ seen' = [seen EXCEPT ![c] = At(v, rec)]
  /\ pend' = [pend EXCEPT ![c] = At(v, event)]
  /\ fate' = [fate EXCEPT ![c] = "clean"]

\* The constructor: the first event carries a record that the state does not share.
Create(c) ==
  /\ pc[c] = "idle"
  /\ \E event \in menu : event.op = "create" /\ Fresh(c, 1, event.record, event)
  /\ UNCHANGED <<stored, pc, due, view, todo, wentOn, truth>>

\* A command: the event of the next version, applied and kept pending.
Command(c, event) ==
  /\ pc[c] = "idle"
  /\ event \in menu
  /\ ver[c] \in 1..(MaxVersion - 1)
  /\ ver' = [ver EXCEPT ![c] = @ + 1]
  /\ seen' = [seen EXCEPT ![c][ver[c] + 1] = Applied(event, seen[c][ver[c]])]
  /\ pend' = [pend EXCEPT ![c][ver[c] + 1] = event]
  /\ wentOn' = (wentOn \/ fate[c] = "lost")
  /\ UNCHANGED <<stored, pc, due, view, todo, fate, truth>>

Preprocess(c) ==
  /\ kind = "page"
  /\ \E node \in Nodes, refs \in Hashes :
       Command(c, [op |-> "preprocess", node |-> node, refs |-> refs])

OcrCompleted(c) ==
  /\ kind = "page"
  /\ \E node \in Nodes, refs \in Hashes :
       Command(c, [op |-> "ocr", node |-> node, refs |-> refs])

GtMapped(c) == kind = "page" /\ \E node \in Nodes : Command(c, [op |-> "mark", node |-> node])

Exported(c) == kind = "page" /\ \E node \in Nodes : Command(c, [op |-> "mark", node |-> node])

Edits == {[op |-> "edit", node |-> node, changes |-> changes] : node \in Nodes, changes \in Values}

LabelerEdited(c) == kind = "page" /\ \E edit \in Edits : Command(c, edit)

\* What changes the aggregate behind its events' back keeps its version.  Bound:
\* once per aggregate, with an event of the menu.
Altered(c, event) ==
  /\ pc[c] = "idle"
  /\ ver[c] > 0
  /\ fate[c] = "clean"
  /\ event \in menu
  /\ fate' = [fate EXCEPT ![c] = "altered"]
  /\ UNCHANGED <<stored, client, wentOn, truth>>

WrongLabelerEditRejected(c) ==
  /\ kind = "page"
  /\ pc[c] = "idle"
  /\ ver[c] \in 1..(MaxVersion - 1)
  /\ \E edit \in Edits \cap menu :
       seen' = [seen EXCEPT ![c][ver[c] + 1] = NodeApplied(seen[c][ver[c]], edit.node)]
  /\ ver' = [ver EXCEPT ![c] = @ + 1]
  /\ UNCHANGED <<stored, pc, pend, due, view, todo, fate, wentOn, truth>>

\* Changes that are no list of mappings: the entry raises when the node is in.
LabelerEditRejected(c) ==
  /\ kind = "page"
  /\ \E edit \in Edits :
       /\ Altered(c, edit)
       /\ seen' = [seen EXCEPT ![c][ver[c]] = NodeApplied(@, edit.node)]

\* A rotation that fails the checks raises before it changes anything.
RotationUpdated(c) ==
  kind = "page" /\ \E to \in Rotations : Command(c, [op |-> "rotate", to |-> to])

\* The event gets a dump of the value.
ExtensionRecorded(c) ==
  kind = "page" /\ \E data \in Values : Command(c, [op |-> "extend", data |-> Json[data]])

\* The free set_extension on the record of an aggregate: a dump too, no event.
ExtensionSetDirectly(c) ==
  /\ kind = "page"
  /\ \E data \in Values :
       /\ Altered(c, [op |-> "extend", data |-> Json[data]])
       /\ seen' = [seen EXCEPT ![c][ver[c]].ext = Json[data]]

AddPage(c) == kind = "project" /\ \E page \in Pages : Command(c, [op |-> "add", page |-> page])

ReorderPages(c) ==
  kind = "project" /\ \E order \in Orders : Command(c, [op |-> "reorder", order |-> order])

RemovePage(c) ==
  kind = "project" /\ \E page \in Pages : Command(c, [op |-> "remove", page |-> page])

ProjectExported(c) == kind = "project" /\ Command(c, [op |-> "export"])

-----------------------------------------------------------------------------
(* Saving. *)

\* No pending event has a version that is stored.
Free(c) == \A v \in Pending(c) : events[v] = None

WrongRecorded(c, v) ==
  EventCoded(IF pend[c][v].op = "create" THEN [pend[c][v] EXCEPT !.record = seen[c][ver[c]]]
                                         ELSE pend[c][v])

\* What is stored of a pending event: what the command got, which the commands
\* after it cannot change, since the record and what goes into it are copies.
Recorded(c, v) == EventCoded(pend[c][v])

\* The pending events are in the store; some of them make snapshots due.
SaveStored(c) ==
  /\ pc[c] = "idle"
  /\ Pending(c) # {}
  /\ Free(c)
  /\ events' = [v \in Versions |-> IF v \in Pending(c) THEN Recorded(c, v) ELSE events[v]]
  /\ pend' = [pend EXCEPT ![c] = Nothing]
  /\ due' = [due EXCEPT ![c] = {v \in Pending(c) : v % Interval = 0}]
  /\ pc' = [pc EXCEPT ![c] = IF due'[c] = {} THEN "idle" ELSE "snapshot"]
  /\ UNCHANGED <<kind, menu, snaps, ver, view, todo, seen, fate, wentOn, truth>>

\* Save raises, for a version that is taken, an argument that has no transcoding or
\* a store that fails: the events are off the aggregate and nowhere.
SaveFailed(c) ==
  /\ pc[c] = "idle"
  /\ Pending(c) # {}
  /\ pend' = [pend EXCEPT ![c] = Nothing]
  /\ fate' = [fate EXCEPT ![c] = "lost"]
  /\ UNCHANGED <<stored, pc, ver, due, view, todo, seen, wentOn, truth>>

-----------------------------------------------------------------------------
(* Loading, for a caller or to take a snapshot. *)

\* The latest snapshot up to a version, 0 if there is none.
Latest(goal) ==
  {n \in 0..goal : /\ n = 0 \/ snaps[n] # None
                   /\ \A m \in (n + 1)..goal : snaps[m] = None}

\* A load up to a version starts from the latest snapshot, or from nothing.
Start(c, goal) ==
  /\ \E n \in Latest(goal) :
       view' = [view EXCEPT ![c] = [ver |-> n, rec |-> IF n = 0 THEN None ELSE snaps[n],
                                    goal |-> goal]]
  /\ pc' = [pc EXCEPT ![c] = "read"]

\* get_page or get_project; the client lets go of the aggregate it had.
Load(c) ==
  /\ pc[c] = "idle"
  /\ Fresh(c, 0, None, None)
  /\ Start(c, MaxVersion)
  /\ UNCHANGED <<stored, due, todo, wentOn, truth>>

\* The library loads the first version that is due back from the store.
Snapshot(c) ==
  /\ pc[c] = "snapshot"
  /\ \E v \in due[c] : (\A w \in due[c] : v <= w) /\ Start(c, v)
  /\ UNCHANGED <<stored, ver, pend, due, todo, seen, fate, wentOn, truth>>

EventsAfter(v, goal) == {w \in Versions : v < w /\ w <= goal /\ events[w] # None}

\* The events after the snapshot, read at once.
Read(c) ==
  /\ pc[c] = "read"
  /\ todo' = [todo EXCEPT ![c] = EventsAfter(view[c].ver, view[c].goal)]
  /\ pc' = [pc EXCEPT ![c] = "replay"]
  /\ UNCHANGED <<stored, ver, pend, due, view, seen, fate, wentOn, truth>>

\* One event is applied.
Replay(c) ==
  /\ pc[c] = "replay"
  /\ LET next == view[c].ver + 1
     IN  /\ next \in todo[c]
         /\ view' = [view EXCEPT ![c] = [ver  |-> next,
                                         rec  |-> Applied(events[next], @.rec),
                                         goal |-> @.goal]]
         /\ todo' = [todo EXCEPT ![c] = @ \ {next}]
  /\ UNCHANGED <<stored, pc, ver, pend, due, seen, fate, wentOn, truth>>

Loaded(c) == pc[c] = "replay" /\ todo[c] = {} /\ view[c].ver > 0

\* The caller has its aggregate.
LoadDone(c) ==
  /\ Loaded(c)
  /\ due[c] = {}
  /\ Fresh(c, view[c].ver, view[c].rec, None)
  /\ view' = [view EXCEPT ![c] = NoView]
  /\ pc' = [pc EXCEPT ![c] = "idle"]
  /\ UNCHANGED <<stored, due, todo, wentOn, truth>>

WrongTaken(c) == RecordJson(seen[c][ver[c]])

\* What a snapshot holds: the record loaded back, not the one in memory.
Taken(c) == RecordJson(view[c].rec)

\* The snapshot is stored; the next one that is due follows.
SnapshotDone(c) ==
  /\ Loaded(c)
  /\ due[c] # {}
  /\ snaps' = [snaps EXCEPT ![view[c].ver] = Taken(c)]
  /\ due' = [due EXCEPT ![c] = @ \ {view[c].goal}]
  /\ view' = [view EXCEPT ![c] = NoView]
  /\ pc' = [pc EXCEPT ![c] = IF due'[c] = {} THEN "idle" ELSE "snapshot"]
  /\ UNCHANGED <<kind, menu, events, ver, pend, todo, seen, fate, wentOn, truth>>

\* There is no such aggregate, or a version is missing before the next event.
LoadFailed(c) ==
  /\ pc[c] = "replay"
  /\ view[c].ver + 1 \notin todo[c]
  /\ todo[c] # {} \/ view[c].ver = 0
  /\ todo' = [todo EXCEPT ![c] = {}]
  /\ due' = [due EXCEPT ![c] = {}]
  /\ view' = [view EXCEPT ![c] = NoView]
  /\ pc' = [pc EXCEPT ![c] = "idle"]
  /\ UNCHANGED <<stored, ver, pend, seen, fate, wentOn, truth>>

\* A client dies and another one takes its place.
Crash(c) ==
  /\ Fresh(c, 0, None, None)
  /\ pc' = [pc EXCEPT ![c] = "idle"]
  /\ due' = [due EXCEPT ![c] = {}]
  /\ todo' = [todo EXCEPT ![c] = {}]
  /\ view' = [view EXCEPT ![c] = NoView]
  /\ UNCHANGED <<stored, wentOn, truth>>

Client(c) ==
  \/ Create(c) \/ Preprocess(c) \/ OcrCompleted(c) \/ GtMapped(c) \/ LabelerEdited(c)
  \/ LabelerEditRejected(c) \/ Exported(c) \/ RotationUpdated(c)
  \/ ExtensionRecorded(c) \/ ExtensionSetDirectly(c)
  \/ AddPage(c) \/ ReorderPages(c) \/ RemovePage(c) \/ ProjectExported(c)
  \/ SaveStored(c) \/ SaveFailed(c)
  \/ Load(c) \/ Snapshot(c) \/ Read(c) \/ Replay(c) \/ LoadDone(c) \/ SnapshotDone(c)
  \/ LoadFailed(c) \/ Crash(c)

\* Versions whose record is known once their event is applied.
Behind == {v \in Versions : /\ events[v] # None /\ truth[v] = None
                            /\ v = 1 \/ truth[v - 1] # None}

\* History only: the record at the next version, from all the events.
CatchUp ==
  /\ \E v \in Behind :
       truth' = [truth EXCEPT ![v] = Applied(events[v], IF v = 1 THEN None ELSE truth[v - 1])]
  /\ UNCHANGED <<stored, client, seen, fate, wentOn>>

Next == CatchUp \/ (Behind = {} /\ \E c \in Clients : Client(c))

Spec == Init /\ [][Next]_vars

-----------------------------------------------------------------------------
(* Properties. *)

\* Every variable has the shape the code gives it (PageRecord, ProjectRecord,
\* the @event methods and the library's versions).
TypeOK ==
  /\ kind \in {"page", "project"}
  /\ menu \in SUBSET Event
  /\ events \in [Versions -> Event \cup {None}]
  /\ snaps \in [Versions -> Record \cup {None}]
  /\ pc \in [Clients -> {"idle", "snapshot", "read", "replay"}]
  /\ ver \in [Clients -> 0..MaxVersion]
  /\ pend \in [Clients -> [Versions -> Event \cup {None}]]
  /\ due \in [Clients -> SUBSET Versions]
  /\ view \in [Clients -> [ver : 0..MaxVersion, rec : Record \cup {None}, goal : 0..MaxVersion]]
  /\ todo \in [Clients -> SUBSET Versions]
  /\ seen \in [Clients -> [Versions -> Record \cup {None}]]
  /\ fate \in [Clients -> {"clean", "altered", "lost"}]
  /\ wentOn \in BOOLEAN
  /\ truth \in [Versions -> Record \cup {None}]

\* A snapshot is the record that all the events up to its version give, dumped to
\* JSON, whoever took it and whatever was stored meanwhile (page_aggregate.py:279):
\* a load from it differs from a load without it in nothing but the types that JSON
\* does not keep.
SnapshotsAgree == \A v \in Versions : snaps[v] # None => snaps[v] = RecordJson(truth[v])

\* An aggregate whose calls and saves all succeeded, changed by commands only and
\* saved, is what a load of its version gives, up to the types that JSON does not
\* keep (page_aggregate.py:66-91, the merge and the copies that replay relies on,
\* and the transcodings, page_aggregate.py:232-268).
SavedIsReloaded ==
  \A c \in Clients :
    (Behind = {} /\ ver[c] > 0 /\ fate[c] = "clean" /\ Pending(c) = {})
      => RecordJson(seen[c][ver[c]]) = RecordJson(truth[ver[c]])

\* The stored versions have no gap, which would make the aggregate unreadable,
\* unless a client went on with an aggregate whose events a save had lost
\* (page_server.py:83 saves and leaves reloading to the caller).
NoGap ==
  wentOn \/ \A v \in Versions : (v > 1 /\ events[v] # None) => events[v - 1] # None

Coherent(rec) ==
  /\ rec.head = IF rec.history = <<>> THEN None ELSE rec.history[Len(rec.history)]
  /\ \A i \in 1..Len(rec.history) : rec.nodes[rec.history[i]] # Absent
  /\ \A i \in 1..Len(rec.changelog) :
       \E j \in 1..Len(rec.history) : rec.changelog[i].node = rec.history[j]

\* When pages are made of coherent records, every record of a page, stored, loaded
\* or in memory, also after an edit that raised halfway, is coherent: the head ends
\* the history, the history names nodes that exist and the changelog names nodes of
\* the history (page_aggregate.py:98-127).
PagesAreCoherent ==
  (kind = "page" /\ \A event \in menu : event.op = "create" => Coherent(event.record)) =>
    \A rec \in UNION {{seen[c][v], snaps[v], truth[v], view[c].rec} : c \in Clients, v \in Versions} :
      rec # None => Coherent(rec)

=============================================================================
