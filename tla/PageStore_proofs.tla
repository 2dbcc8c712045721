-------------------------- MODULE PageStore_proofs --------------------------
(***************************************************************************)
(* Proofs about PageStore, for any number of clients, versions and         *)
(* commands, any interval and any menu.                                    *)
(*                                                                         *)
(* The argument.  A record that is known from all the events, truth, obeys *)
(* one equation: it is what the event of its version makes of the one      *)
(* before.  A load obeys the same equation event by event and starts from  *)
(* a snapshot that a load has made, so it stays the same as truth; so does *)
(* what a client holds, command by command, until it is saved, since what  *)
(* it saves is what it applied.  The same is up to JSON: an event does to  *)
(* a converted record what it does to the record, converted after, in      *)
(* which it makes no difference how the event itself was converted.        *)
(***************************************************************************)
EXTENDS PageStore, TLAPS, SequenceTheorems, WellFoundedInduction

(* A set of numbers that is not empty has a least one. *)
LEMMA LeastOf ==
  ASSUME NEW T \in SUBSET Nat, T # {}
  PROVE  \E x \in T : \A y \in T : x <= y
<1>1. \E x \in T : \A y \in T : ~ (<<y, x>> \in OpToRel(<,Nat))
  BY NatLessThanWellFounded, WFMin
<1>2. PICK x \in T : \A y \in T : ~ (<<y, x>> \in OpToRel(<,Nat))
  BY <1>1
<1>3. \A y \in T : ~ (y < x)
  BY <1>2 DEF OpToRel
<1>4. QED BY <1>3

(* Taking a page out of an order leaves an order. *)
LEMMA PageRemovedType ==
  ASSUME NEW pages \in Seq(Pages), NEW page
  PROVE  PageRemoved(pages, page) \in Seq(Pages)
<1>1. CASE \E i \in 1..Len(pages) : pages[i] = page
  <2> DEFINE T == {i \in 1..Len(pages) : pages[i] = page}
  <2>1. T \in SUBSET Nat /\ T # {}
    BY <1>1
  <2>2. PICK k \in T : \A j \in T : k <= j
    <3> HIDE DEF T
    <3> QED BY <2>1, LeastOf
  <2> DEFINE first == CHOOSE i \in 1..Len(pages) :
                        pages[i] = page /\ \A j \in 1..(i - 1) : pages[j] # page
  <2>3. first \in 1..Len(pages)
    BY <2>2
  <2> HIDE DEF first
  <2>4. SubSeq(pages, 1, first - 1) \in Seq(Pages) /\ SubSeq(pages, first + 1, Len(pages)) \in Seq(Pages)
    BY <2>3, SubSeqProperties
  <2>5. PageRemoved(pages, page) = SubSeq(pages, 1, first - 1) \o SubSeq(pages, first + 1, Len(pages))
    BY <1>1 DEF PageRemoved, first
  <2>6. QED BY <2>4, <2>5, ConcatProperties
<1>2. CASE ~ \E i \in 1..Len(pages) : pages[i] = page
  BY <1>2 DEF PageRemoved
<1>3. QED BY <1>1, <1>2

(* A node is typed with the references it got. *)
LEMMA WithBlobRefsType ==
  ASSUME NEW node \in ProvenanceNode, NEW refs \in Hashes
  PROVE  WithBlobRefs(node, refs) \in ProvenanceNode
BY DEF WithBlobRefs, ProvenanceNode

(* What inserting a node does to each field. *)
LEMMA NodeAppliedFields ==
  ASSUME NEW rec \in PageRecord, NEW node \in ProvenanceNode
  PROVE  /\ NodeApplied(rec, node) \in PageRecord
         /\ NodeApplied(rec, node).nodes = [rec.nodes EXCEPT ![node.id] = node]
         /\ NodeApplied(rec, node).head = node.id
         /\ NodeApplied(rec, node).history = Append(rec.history, node.id)
         /\ NodeApplied(rec, node).changelog = rec.changelog
         /\ NodeApplied(rec, node).failed = rec.failed
         /\ NodeApplied(rec, node).rotation = rec.rotation
         /\ NodeApplied(rec, node).ext = rec.ext
<1>1. node.id \in NodeIds
  BY DEF ProvenanceNode
<1>2. Append(rec.history, node.id) \in Seq(NodeIds)
  BY <1>1 DEF PageRecord
<1>3. [rec.nodes EXCEPT ![node.id] = node] \in [NodeIds -> ProvenanceNode \cup {Absent}]
  BY DEF PageRecord
<1>4. QED BY <1>1, <1>2, <1>3 DEF NodeApplied, PageRecord

(* An entry of the changelog, and a record after an edit. *)
Noted(node, changes) == [node |-> node.id, changes |-> changes]
Edited(rec, node, changes) ==
  [NodeApplied(rec, node) EXCEPT !.changelog = Append(@, Noted(node, changes))]

LEMMA EditedFields ==
  ASSUME NEW rec \in PageRecord, NEW node \in ProvenanceNode, NEW changes \in Values
  PROVE  LET edited == Edited(rec, node, changes)
         IN  /\ edited \in PageRecord
             /\ edited.nodes = NodeApplied(rec, node).nodes
             /\ edited.head = node.id
             /\ edited.history = Append(rec.history, node.id)
             /\ edited.changelog = Append(rec.changelog, Noted(node, changes))
             /\ edited.failed = rec.failed
             /\ edited.rotation = rec.rotation
             /\ edited.ext = rec.ext
<1> DEFINE new == NodeApplied(rec, node)
<1>1. /\ new \in PageRecord /\ new.head = node.id /\ new.history = Append(rec.history, node.id)
      /\ new.changelog = rec.changelog /\ new.failed = rec.failed /\ new.rotation = rec.rotation
      /\ new.ext = rec.ext
  BY NodeAppliedFields
<1>2. Noted(node, changes) \in [node : NodeIds, changes : Values]
  BY DEF Noted, ProvenanceNode
<1> HIDE DEF new
<1>3. Append(new.changelog, Noted(node, changes)) \in Seq([node : NodeIds, changes : Values])
  BY <1>1, <1>2 DEF PageRecord
<1>4. QED BY <1>1, <1>3 DEF PageRecord, new, Edited

(* The shapes an event of a page comes in, and what each makes of a record. *)
LEMMA PageApplied ==
  ASSUME NEW event \in PageEvent, NEW rec
  PROVE  \/ /\ event.op = "create"
            /\ event.record \in PageRecord
            /\ Applied(event, rec) = event.record
         \/ /\ event.op # "create"
            /\ \E node \in ProvenanceNode :
                 \/ Applied(event, rec) = NodeApplied(rec, node)
                 \/ Applied(event, rec) = NodeApplied([rec EXCEPT !.failed = FALSE], node)
                 \/ \E changes \in Values : Applied(event, rec) = Edited(rec, node, changes)
         \/ /\ event.op # "create"
            /\ \E to \in Rotations : Applied(event, rec) = [rec EXCEPT !.rotation = to]
         \/ /\ event.op # "create"
            /\ \E data \in Values : Applied(event, rec) = [rec EXCEPT !.ext = data]
<1>1. CASE event \in [op : {"create"}, record : PageRecord]
  BY <1>1 DEF Applied
<1>2. CASE event \in [op : {"preprocess", "ocr"}, node : ProvenanceNode, refs : Hashes]
  <2>1. WithBlobRefs(event.node, event.refs) \in ProvenanceNode
    BY <1>2, WithBlobRefsType
  <2>2. CASE event.op = "preprocess"
    BY <2>1, <2>2 DEF Applied
  <2>3. CASE event.op = "ocr"
    BY <2>1, <2>3 DEF Applied
  <2>4. QED BY <1>2, <2>2, <2>3
<1>3. CASE event \in [op : {"mark"}, node : ProvenanceNode]
  BY <1>3 DEF Applied
<1>4. CASE event \in [op : {"edit"}, node : ProvenanceNode, changes : Values]
  <2>1. event.op = "edit" /\ event.node \in ProvenanceNode /\ event.changes \in Values
    BY <1>4
  <2>2. Applied(event, rec) = Edited(rec, event.node, event.changes)
    BY <2>1 DEF Applied, Noted, Edited
  <2>3. QED BY <2>1, <2>2
<1>5. CASE event \in [op : {"rotate"}, to : Rotations]
  BY <1>5 DEF Applied
<1>6. CASE event \in [op : {"extend"}, data : Values]
  BY <1>6 DEF Applied
<1>7. QED BY <1>1, <1>2, <1>3, <1>4, <1>5, <1>6 DEF PageEvent

(* An event makes a record of a record of its kind, or of nothing at first. *)
LEMMA AppliedType ==
  ASSUME kind \in {"page", "project"}, NEW event \in Event, NEW rec,
         event.op # "create" => rec \in Record
  PROVE  Applied(event, rec) \in Record
<1>1. CASE kind = "page"
  <2>1. event \in PageEvent /\ (event.op # "create" => rec \in PageRecord) /\ Record = PageRecord
    BY <1>1 DEF Event, Record
  <2>3. ASSUME rec \in PageRecord, NEW node \in ProvenanceNode
        PROVE  /\ NodeApplied(rec, node) \in PageRecord
               /\ NodeApplied([rec EXCEPT !.failed = FALSE], node) \in PageRecord
               /\ \A changes \in Values : Edited(rec, node, changes) \in PageRecord
    <3>1. [rec EXCEPT !.failed = FALSE] \in PageRecord
      BY <2>3 DEF PageRecord
    <3>2. QED BY <2>3, <3>1, NodeAppliedFields, EditedFields
  <2>4. ASSUME rec \in PageRecord
        PROVE  /\ \A to \in Rotations : [rec EXCEPT !.rotation = to] \in PageRecord
               /\ \A data \in Values : [rec EXCEPT !.ext = data] \in PageRecord
    BY <2>4 DEF PageRecord
  <2>5. CASE event.op = "create"
    BY <2>1, <2>5, PageApplied
  <2>6. CASE event.op # "create"
    <3>1. rec \in PageRecord
      BY <2>1, <2>6
    <3> HIDE DEF NodeApplied, Applied, Noted
    <3>2. QED BY <2>1, <2>3, <2>4, <2>6, <3>1, PageApplied
  <2>7. QED BY <2>5, <2>6
<1>2. CASE kind = "project"
  <2>1. event \in ProjectEvent /\ (event.op # "create" => rec \in ProjectRecord) /\ Record = ProjectRecord
    BY <1>2 DEF Event, Record
  <2>2. CASE event \in [op : {"create"}, record : ProjectRecord]
    BY <2>1, <2>2 DEF Applied
  <2>3. CASE event \in [op : {"add", "remove"}, page : Pages]
    <3>1. rec.pages \in Seq(Pages) /\ rec \in ProjectRecord
      BY <2>1, <2>3 DEF ProjectRecord
    <3>2. PageAdded(rec.pages, event.page) \in Seq(Pages)
      BY <2>3, <3>1 DEF PageAdded
    <3>3. PageRemoved(rec.pages, event.page) \in Seq(Pages)
      BY <3>1, PageRemovedType
    <3>4. \/ Applied(event, rec) = [rec EXCEPT !.pages = PageAdded(rec.pages, event.page)]
          \/ Applied(event, rec) = [rec EXCEPT !.pages = PageRemoved(rec.pages, event.page)]
      <4>1. CASE event.op = "add"
        BY <4>1 DEF Applied
      <4>2. CASE event.op = "remove"
        BY <4>2 DEF Applied
      <4>3. QED BY <2>3, <4>1, <4>2
    <3>5. QED BY <2>1, <3>1, <3>2, <3>3, <3>4 DEF ProjectRecord
  <2>4. CASE event \in [op : {"reorder"}, order : Orders]
    BY <2>1, <2>4, OrdersAssumption DEF Applied, ProjectRecord
  <2>5. CASE event \in [op : {"export"}]
    BY <2>1, <2>5 DEF Applied
  <2>6. QED BY <2>1, <2>2, <2>3, <2>4, <2>5 DEF ProjectEvent
<1>3. QED BY <1>1, <1>2

(* None is neither a record nor an event. *)
LEMMA NoneIsNothing ==
  ASSUME kind \in {"page", "project"}
  PROVE  None \notin Record /\ None \notin Event
BY NoneAssumption DEF Record, Event

-----------------------------------------------------------------------------
(* What the store makes of a node, a record and an event. *)

(* An event with all its values as JSON has them. *)
EventJson(event) ==
  CASE event.op = "create" -> [event EXCEPT !.record = RecordJson(@)]
    [] event.op \in {"preprocess", "ocr", "mark"} -> [event EXCEPT !.node = NodeJson(@)]
    [] event.op = "edit" -> [event EXCEPT !.node = NodeJson(@), !.changes = Json[@]]
    [] event.op = "extend" -> [event EXCEPT !.data = Json[@]]
    [] OTHER -> event

LEMMA NodeJsonFacts ==
  ASSUME NEW node \in ProvenanceNode
  PROVE  /\ NodeJson(node) \in ProvenanceNode
         /\ NodeJson(node).id = node.id /\ NodeJson(node).refs = node.refs
         /\ NodeJson(NodeJson(node)) = NodeJson(node)
         /\ node # Absent
<1>1. /\ NodeJson(node) \in ProvenanceNode
      /\ NodeJson(node).id = node.id /\ NodeJson(node).refs = node.refs
      /\ NodeJson(node).data = Json[node.data]
  BY ValuesAssumption DEF NodeJson, ProvenanceNode
<1>2. NodeJson(NodeJson(node)) \in ProvenanceNode /\ NodeJson(NodeJson(node)).data = Json[Json[node.data]]
      /\ NodeJson(NodeJson(node)).id = node.id /\ NodeJson(NodeJson(node)).refs = node.refs
  BY <1>1, ValuesAssumption DEF NodeJson, ProvenanceNode
<1>3. Json[Json[node.data]] = Json[node.data]
  BY ValuesAssumption DEF ProvenanceNode
<1>4. NodeJson(NodeJson(node)) = NodeJson(node)
  BY <1>1, <1>2, <1>3 DEF ProvenanceNode
<1>5. QED BY <1>1, <1>4, NoneAssumption

LEMMA EntryJsonFacts ==
  ASSUME NEW entry \in [node : NodeIds, changes : Values]
  PROVE  /\ EntryJson(entry) \in [node : NodeIds, changes : Values]
         /\ EntryJson(entry) = [node |-> entry.node, changes |-> Json[entry.changes]]
BY ValuesAssumption DEF EntryJson

LEMMA LogJsonFacts ==
  ASSUME NEW log \in Seq([node : NodeIds, changes : Values])
  PROVE  /\ LogJson(log) \in Seq([node : NodeIds, changes : Values])
         /\ Len(LogJson(log)) = Len(log)
         /\ \A i \in 1..Len(log) : LogJson(log)[i] = EntryJson(log[i])
         /\ LogJson(LogJson(log)) = LogJson(log)
         /\ \A entry \in [node : NodeIds, changes : Values] :
              LogJson(Append(log, entry)) = Append(LogJson(log), EntryJson(entry))
<1> DEFINE Entries == [node : NodeIds, changes : Values]
<1>1. Len(log) \in Nat /\ DOMAIN log = 1..Len(log) /\ \A i \in 1..Len(log) : log[i] \in Entries
  BY ElementOfSeq, LenProperties
<1>2. /\ LogJson(log) = [i \in 1..Len(log) |-> EntryJson(log[i])]
      /\ \A i \in 1..Len(log) : EntryJson(log[i]) \in Entries
  BY <1>1, EntryJsonFacts DEF LogJson
<1>3. LogJson(log) \in [1..Len(log) -> Entries]
  BY <1>2
<1>4. LogJson(log) \in Seq(Entries) /\ Len(LogJson(log)) = Len(log)
  <2> HIDE DEF Entries
  <2>1. LogJson(log) \in Seq(Entries)
    BY <1>1, <1>3
  <2>2. QED BY <1>1, <1>3, <2>1, LenProperties
<1>5. LogJson(LogJson(log)) = LogJson(log)
  <2>1. \A i \in 1..Len(log) : EntryJson(EntryJson(log[i])) = EntryJson(log[i])
    BY <1>1, EntryJsonFacts, ValuesAssumption
  <2>2. DOMAIN LogJson(log) = 1..Len(log) /\ \A i \in 1..Len(log) : LogJson(log)[i] = EntryJson(log[i])
    BY <1>2
  <2>3. LogJson(LogJson(log)) = [i \in 1..Len(log) |-> EntryJson(EntryJson(log[i]))]
    BY <2>2 DEF LogJson
  <2>4. QED BY <1>2, <2>1, <2>3
<1>6. ASSUME NEW entry \in Entries
      PROVE  LogJson(Append(log, entry)) = Append(LogJson(log), EntryJson(entry))
  <2> DEFINE longer == Append(log, entry)
             json == Append(LogJson(log), EntryJson(entry))
  <2>1. /\ longer \in Seq(Entries) /\ Len(longer) = Len(log) + 1 /\ DOMAIN longer = 1..(Len(log) + 1)
        /\ \A i \in 1..Len(log) : longer[i] = log[i]
        /\ longer[Len(log) + 1] = entry
    <3> HIDE DEF Entries
    <3>1. QED BY <1>1, <1>6, AppendProperties
  <2>2. EntryJson(entry) \in Entries
    BY <1>6, EntryJsonFacts
  <2>3. /\ json \in Seq(Entries) /\ Len(json) = Len(log) + 1 /\ DOMAIN json = 1..(Len(log) + 1)
        /\ \A i \in 1..Len(log) : json[i] = LogJson(log)[i]
        /\ json[Len(log) + 1] = EntryJson(entry)
    <3> HIDE DEF Entries
    <3>1. QED BY <1>1, <1>4, <2>2, AppendProperties
  <2> HIDE DEF longer, json
  <2>4. LogJson(longer) = [i \in 1..(Len(log) + 1) |-> EntryJson(longer[i])]
    BY <2>1 DEF LogJson
  <2>5. json = [i \in 1..(Len(log) + 1) |-> json[i]]
    <3> HIDE DEF Entries
    <3>1. QED BY <2>3
  <2>6. \A i \in 1..(Len(log) + 1) : json[i] = EntryJson(longer[i])
    <3> SUFFICES ASSUME NEW i \in 1..(Len(log) + 1) PROVE json[i] = EntryJson(longer[i])
      OBVIOUS
    <3>1. i = Len(log) + 1 \/ i \in 1..Len(log)
      BY <1>1
    <3>2. CASE i = Len(log) + 1
      BY <2>1, <2>3, <3>2
    <3>3. CASE i \in 1..Len(log)
      BY <1>2, <2>1, <2>3, <3>3
    <3>4. QED BY <3>1, <3>2, <3>3
  <2>7. LogJson(longer) = json
    BY <2>4, <2>5, <2>6
  <2>8. QED BY <2>7 DEF longer, json
<1>7. QED BY <1>2, <1>4, <1>5, <1>6

LEMMA NodesJsonFacts ==
  ASSUME NEW nodes \in [NodeIds -> ProvenanceNode \cup {Absent}]
  PROVE  /\ NodesJson(nodes) \in [NodeIds -> ProvenanceNode \cup {Absent}]
         /\ \A n \in NodeIds : NodesJson(nodes)[n] = Absent <=> nodes[n] = Absent
         /\ NodesJson(NodesJson(nodes)) = NodesJson(nodes)
         /\ \A node \in ProvenanceNode :
              NodesJson([nodes EXCEPT ![node.id] = node])
                = [NodesJson(nodes) EXCEPT ![node.id] = NodeJson(node)]
<1>1. \A n \in NodeIds : nodes[n] # Absent => nodes[n] \in ProvenanceNode
  OBVIOUS
<1>2. \A n \in NodeIds : nodes[n] # Absent =>
        /\ NodeJson(nodes[n]) \in ProvenanceNode /\ NodeJson(nodes[n]) # Absent
        /\ NodeJson(NodeJson(nodes[n])) = NodeJson(nodes[n])
  BY <1>1, NodeJsonFacts
<1>3. NodesJson(NodesJson(nodes)) = NodesJson(nodes)
  BY <1>2 DEF NodesJson
<1>4. ASSUME NEW node \in ProvenanceNode
      PROVE  NodesJson([nodes EXCEPT ![node.id] = node])
               = [NodesJson(nodes) EXCEPT ![node.id] = NodeJson(node)]
  <2>1. node # Absent
    BY NodeJsonFacts
  <2>2. QED BY <2>1 DEF NodesJson
<1>5. QED BY <1>2, <1>3, <1>4 DEF NodesJson

LEMMA RecordJsonFields ==
  ASSUME NEW rec \in PageRecord
  PROVE  /\ RecordJson(rec) \in PageRecord
         /\ RecordJson(rec) = [nodes |-> NodesJson(rec.nodes), head |-> rec.head,
                               history |-> rec.history, changelog |-> LogJson(rec.changelog),
                               failed |-> rec.failed, rotation |-> rec.rotation,
                               ext |-> Json[rec.ext]]
<1>1. /\ NodesJson(rec.nodes) \in [NodeIds -> ProvenanceNode \cup {Absent}]
      /\ LogJson(rec.changelog) \in Seq([node : NodeIds, changes : Values])
      /\ Json[rec.ext] \in Values
  BY NodesJsonFacts, LogJsonFacts, ValuesAssumption DEF PageRecord
<1>2. RecordJson(rec) = [rec EXCEPT !.nodes = NodesJson(rec.nodes),
                                    !.changelog = LogJson(rec.changelog),
                                    !.ext = Json[rec.ext]]
  BY DEF RecordJson
<1>3. QED BY <1>1, <1>2 DEF PageRecord

LEMMA ProjectsAreNoPages ==
  ASSUME NEW rec \in ProjectRecord
  PROVE  RecordJson(rec) = rec
<1>1. rec \notin PageRecord
  <2>1. DOMAIN rec = {"pages"}
    BY DEF ProjectRecord
  <2>2. rec \in PageRecord => "nodes" \in DOMAIN rec
    BY DEF PageRecord
  <2>3. QED BY <2>1, <2>2
<1>2. QED BY <1>1 DEF RecordJson

(* A record keeps its type, and what was converted stays. *)
LEMMA RecordJsonFacts ==
  ASSUME kind \in {"page", "project"}, NEW rec \in Record
  PROVE  RecordJson(rec) \in Record /\ RecordJson(RecordJson(rec)) = RecordJson(rec)
<1>1. CASE kind = "page"
  <2>1. rec \in PageRecord /\ Record = PageRecord
    BY <1>1 DEF Record
  <2>2. /\ RecordJson(rec) \in PageRecord
        /\ NodesJson(NodesJson(rec.nodes)) = NodesJson(rec.nodes)
        /\ LogJson(LogJson(rec.changelog)) = LogJson(rec.changelog)
        /\ Json[Json[rec.ext]] = Json[rec.ext]
    BY <2>1, RecordJsonFields, NodesJsonFacts, LogJsonFacts, ValuesAssumption DEF PageRecord
  <2>3. RecordJson(RecordJson(rec)) = RecordJson(rec)
    BY <2>1, <2>2, RecordJsonFields
  <2>4. QED BY <2>1, <2>2, <2>3
<1>2. CASE kind = "project"
  BY <1>2, ProjectsAreNoPages DEF Record
<1>3. QED BY <1>1, <1>2

(* What an event becomes in the store is still that event, up to JSON. *)
LEMMA EventCodedFacts ==
  ASSUME kind \in {"page", "project"}, NEW event \in Event
  PROVE  /\ EventCoded(event) \in Event /\ EventJson(event) \in Event
         /\ EventCoded(event).op = event.op /\ EventJson(event).op = event.op
         /\ EventJson(EventCoded(event)) = EventJson(event)
<1>1. CASE kind = "page"
  <2>1. Event = PageEvent
    BY <1>1 DEF Event
  <2>2. CASE event \in [op : {"create"}, record : PageRecord]
    <3>1. event = [op |-> "create", record |-> event.record] /\ event.record \in PageRecord
      BY <2>2
    <3>2. RecordJson(event.record) \in PageRecord
          /\ RecordJson(RecordJson(event.record)) = RecordJson(event.record)
      BY <1>1, <3>1, RecordJsonFacts DEF Record
    <3>3. /\ EventCoded(event) = [op |-> "create", record |-> RecordJson(event.record)]
          /\ EventJson(event) = [op |-> "create", record |-> RecordJson(event.record)]
      BY <3>1 DEF EventCoded, EventJson
    <3>4. EventJson(EventCoded(event)) = [op |-> "create", record |-> RecordJson(RecordJson(event.record))]
      BY <3>3 DEF EventJson
    <3>5. QED BY <2>1, <3>1, <3>2, <3>3, <3>4 DEF PageEvent
  <2>3. CASE event \in [op : {"preprocess", "ocr"}, node : ProvenanceNode, refs : Hashes]
    <3>1. /\ event.op \in {"preprocess", "ocr"} /\ event.node \in ProvenanceNode /\ event.refs \in Hashes
          /\ event = [op |-> event.op, node |-> event.node, refs |-> event.refs]
      BY <2>3
    <3>2. NodeJson(event.node) \in ProvenanceNode /\ NodeJson(NodeJson(event.node)) = NodeJson(event.node)
      BY <3>1, NodeJsonFacts
    <3>3. CASE event.op = "preprocess"
      <4> DEFINE json == [op |-> "preprocess", node |-> NodeJson(event.node), refs |-> event.refs]
      <4>1. EventCoded(event) = json /\ EventJson(event) = json
        BY <3>1, <3>3 DEF EventCoded, EventJson
      <4>2. EventJson(json) = [op |-> "preprocess", node |-> NodeJson(NodeJson(event.node)),
                               refs |-> event.refs]
        BY DEF EventJson
      <4>3. QED BY <2>1, <3>1, <3>2, <3>3, <4>1, <4>2 DEF PageEvent
    <3>4. CASE event.op = "ocr"
      <4> DEFINE json == [op |-> "ocr", node |-> NodeJson(event.node), refs |-> event.refs]
      <4>1. EventCoded(event) = json /\ EventJson(event) = json
        BY <3>1, <3>4 DEF EventCoded, EventJson
      <4>2. EventJson(json) = [op |-> "ocr", node |-> NodeJson(NodeJson(event.node)),
                               refs |-> event.refs]
        BY DEF EventJson
      <4>3. QED BY <2>1, <3>1, <3>2, <3>4, <4>1, <4>2 DEF PageEvent
    <3>5. QED BY <3>1, <3>3, <3>4
  <2>4. CASE event \in [op : {"mark"}, node : ProvenanceNode]
    <3>1. event.node \in ProvenanceNode /\ event = [op |-> "mark", node |-> event.node]
      BY <2>4
    <3>2. NodeJson(event.node) \in ProvenanceNode /\ NodeJson(NodeJson(event.node)) = NodeJson(event.node)
      BY <3>1, NodeJsonFacts
    <3> DEFINE json == [op |-> "mark", node |-> NodeJson(event.node)]
    <3>3. EventCoded(event) = json /\ EventJson(event) = json
      BY <3>1 DEF EventCoded, EventJson
    <3>4. EventJson(json) = [op |-> "mark", node |-> NodeJson(NodeJson(event.node))]
      BY DEF EventJson
    <3>5. QED BY <2>1, <3>1, <3>2, <3>3, <3>4 DEF PageEvent
  <2>5. CASE event \in [op : {"edit"}, node : ProvenanceNode, changes : Values]
    <3>1. /\ event.node \in ProvenanceNode /\ event.changes \in Values
          /\ event = [op |-> "edit", node |-> event.node, changes |-> event.changes]
      BY <2>5
    <3>2. NodeJson(event.node) \in ProvenanceNode /\ NodeJson(NodeJson(event.node)) = NodeJson(event.node)
      BY <3>1, NodeJsonFacts
    <3>3. Json[event.changes] \in Values /\ Coded[event.changes] \in Values
          /\ Json[Coded[event.changes]] = Json[event.changes]
      BY <3>1, ValuesAssumption
    <3> DEFINE coded == [op |-> "edit", node |-> NodeJson(event.node), changes |-> Coded[event.changes]]
    <3>4. EventCoded(event) = coded
      <4>1. EventCoded(event) = [event EXCEPT !.node = NodeJson(event.node), !.changes = Coded[event.changes]]
        BY <3>1 DEF EventCoded
      <4>2. QED BY <2>5, <4>1
    <3>5. EventJson(event) = [op |-> "edit", node |-> NodeJson(event.node), changes |-> Json[event.changes]]
      <4>1. EventJson(event) = [event EXCEPT !.node = NodeJson(event.node), !.changes = Json[event.changes]]
        BY <3>1 DEF EventJson
      <4>2. QED BY <2>5, <4>1
    <3>6. EventJson(coded) = [op |-> "edit", node |-> NodeJson(NodeJson(event.node)),
                              changes |-> Json[Coded[event.changes]]]
      BY DEF EventJson
    <3>7. QED BY <2>1, <3>1, <3>2, <3>3, <3>4, <3>5, <3>6 DEF PageEvent
  <2>6. CASE event \in [op : {"rotate"}, to : Rotations]
    BY <2>1, <2>6 DEF EventCoded, EventJson
  <2>7. CASE event \in [op : {"extend"}, data : Values]
    <3>1. event.data \in Values /\ event = [op |-> "extend", data |-> event.data]
      BY <2>7
    <3>2. Json[event.data] \in Values /\ Coded[event.data] \in Values
          /\ Json[Coded[event.data]] = Json[event.data]
      BY <3>1, ValuesAssumption
    <3>3. /\ EventCoded(event) = [op |-> "extend", data |-> Coded[event.data]]
          /\ EventJson(event) = [op |-> "extend", data |-> Json[event.data]]
      BY <3>1 DEF EventCoded, EventJson
    <3>4. EventJson(EventCoded(event)) = [op |-> "extend", data |-> Json[Coded[event.data]]]
      BY <3>3 DEF EventJson
    <3>5. QED BY <2>1, <3>1, <3>2, <3>3, <3>4 DEF PageEvent
  <2>8. QED BY <2>1, <2>2, <2>3, <2>4, <2>5, <2>6, <2>7 DEF PageEvent
<1>2. CASE kind = "project"
  <2>1. Event = ProjectEvent
    BY <1>2 DEF Event
  <2>2. CASE event \in [op : {"create"}, record : ProjectRecord]
    <3>1. event = [op |-> "create", record |-> event.record] /\ RecordJson(event.record) = event.record
      BY <2>2, ProjectsAreNoPages
    <3>2. EventCoded(event) = event /\ EventJson(event) = event
      BY <3>1 DEF EventCoded, EventJson
    <3>3. QED BY <2>1, <3>2
  <2>3. CASE event \notin [op : {"create"}, record : ProjectRecord]
    <3>1. event.op \in {"add", "remove", "reorder", "export"}
      BY <2>1, <2>3 DEF ProjectEvent
    <3>2. EventCoded(event) = event /\ EventJson(event) = event
      BY <3>1 DEF EventCoded, EventJson
    <3>3. QED BY <2>1, <3>2
  <2>4. QED BY <2>2, <2>3
<1>3. QED BY <1>1, <1>2

(* Inserting a node, and noting it, may be done before the conversion or      *)
(* after it.                                                                  *)
LEMMA NodeAppliedJson ==
  ASSUME NEW rec \in PageRecord, NEW node \in ProvenanceNode
  PROVE  /\ RecordJson(NodeApplied(rec, node)) = NodeApplied(RecordJson(rec), NodeJson(node))
         /\ \A changes \in Values :
              RecordJson(Edited(rec, node, changes))
                = Edited(RecordJson(rec), NodeJson(node), Json[changes])
<1> DEFINE new == NodeApplied(rec, node)
           json == RecordJson(rec)
           like == NodeJson(node)
           newJson == NodeApplied(json, like)
<1>1. /\ new \in PageRecord /\ new.nodes = [rec.nodes EXCEPT ![node.id] = node] /\ new.head = node.id
      /\ new.history = Append(rec.history, node.id) /\ new.changelog = rec.changelog
      /\ new.failed = rec.failed /\ new.rotation = rec.rotation /\ new.ext = rec.ext
  BY NodeAppliedFields
<1>2. /\ json \in PageRecord /\ json.nodes = NodesJson(rec.nodes) /\ json.history = rec.history
      /\ json.changelog = LogJson(rec.changelog) /\ json.failed = rec.failed
      /\ json.rotation = rec.rotation /\ json.ext = Json[rec.ext]
  BY RecordJsonFields
<1>3. like \in ProvenanceNode /\ like.id = node.id
  BY NodeJsonFacts
<1> HIDE DEF json, like
<1>4. /\ newJson \in PageRecord /\ newJson.nodes = [json.nodes EXCEPT ![node.id] = like]
      /\ newJson.head = node.id /\ newJson.history = Append(json.history, node.id)
      /\ newJson.changelog = json.changelog /\ newJson.failed = json.failed
      /\ newJson.rotation = json.rotation /\ newJson.ext = json.ext
  <2>1. /\ newJson \in PageRecord /\ newJson.nodes = [json.nodes EXCEPT ![like.id] = like]
        /\ newJson.head = like.id /\ newJson.history = Append(json.history, like.id)
        /\ newJson.changelog = json.changelog /\ newJson.failed = json.failed
        /\ newJson.rotation = json.rotation /\ newJson.ext = json.ext
    BY <1>2, <1>3, NodeAppliedFields, Zenon
  <2>2. QED BY <1>3, <2>1
<1> HIDE DEF new, newJson
<1>5. NodesJson(new.nodes) = newJson.nodes
  <2>1. rec.nodes \in [NodeIds -> ProvenanceNode \cup {Absent}]
    BY DEF PageRecord
  <2>2. NodesJson([rec.nodes EXCEPT ![node.id] = node]) = [NodesJson(rec.nodes) EXCEPT ![node.id] = NodeJson(node)]
    BY <2>1, NodesJsonFacts
  <2>3. QED BY <1>1, <1>2, <1>4, <2>2 DEF like
<1>6. newJson = [nodes |-> newJson.nodes, head |-> newJson.head, history |-> newJson.history,
                 changelog |-> newJson.changelog, failed |-> newJson.failed,
                 rotation |-> newJson.rotation, ext |-> newJson.ext]
  BY <1>4 DEF PageRecord
<1>7. RecordJson(new) = newJson
  <2>1. RecordJson(new) = [nodes |-> NodesJson(new.nodes), head |-> new.head,
                           history |-> new.history, changelog |-> LogJson(new.changelog),
                           failed |-> new.failed, rotation |-> new.rotation,
                           ext |-> Json[new.ext]]
    BY <1>1, RecordJsonFields
  <2>2. QED BY <1>1, <1>2, <1>4, <1>5, <1>6, <2>1
<1>8. ASSUME NEW changes \in Values
      PROVE  RecordJson([new EXCEPT !.changelog = Append(@, Noted(node, changes))])
               = [newJson EXCEPT !.changelog = Append(@, Noted(node, Json[changes]))]
  <2> DEFINE noted == [new EXCEPT !.changelog = Append(@, Noted(node, changes))]
  <2>1. /\ noted \in PageRecord /\ noted.nodes = new.nodes /\ noted.head = new.head
        /\ noted.history = new.history /\ noted.changelog = Append(new.changelog, Noted(node, changes))
        /\ noted.failed = new.failed /\ noted.rotation = new.rotation /\ noted.ext = new.ext
    BY <1>1, EditedFields DEF new, Edited
  <2>2. LogJson(Append(rec.changelog, Noted(node, changes)))
          = Append(LogJson(rec.changelog), Noted(node, Json[changes]))
    <3>1. Noted(node, changes) \in [node : NodeIds, changes : Values]
      BY DEF Noted, ProvenanceNode
    <3>2. EntryJson(Noted(node, changes)) = Noted(node, Json[changes])
      BY <3>1, EntryJsonFacts DEF Noted
    <3>3. rec.changelog \in Seq([node : NodeIds, changes : Values])
      BY DEF PageRecord
    <3>4. QED BY <3>1, <3>2, <3>3, LogJsonFacts
  <2> HIDE DEF noted
  <2>3. RecordJson(noted) = [nodes |-> newJson.nodes, head |-> newJson.head, history |-> newJson.history,
                             changelog |-> Append(newJson.changelog, Noted(node, Json[changes])),
                             failed |-> newJson.failed, rotation |-> newJson.rotation,
                             ext |-> newJson.ext]
    <3>1. RecordJson(noted) = [nodes |-> NodesJson(noted.nodes), head |-> noted.head,
                               history |-> noted.history, changelog |-> LogJson(noted.changelog),
                               failed |-> noted.failed, rotation |-> noted.rotation,
                               ext |-> Json[noted.ext]]
      BY <2>1, RecordJsonFields
    <3>2. LogJson(noted.changelog) = Append(newJson.changelog, Noted(node, Json[changes]))
      BY <1>1, <1>2, <1>4, <2>1, <2>2
    <3>3. NodesJson(noted.nodes) = newJson.nodes
      BY <1>5, <2>1
    <3>4. noted.head = newJson.head /\ noted.history = newJson.history
      BY <1>1, <1>2, <1>4, <2>1
    <3>5. noted.failed = newJson.failed /\ noted.rotation = newJson.rotation /\ Json[noted.ext] = newJson.ext
      BY <1>1, <1>2, <1>4, <2>1
    <3>6. QED BY <3>1, <3>2, <3>3, <3>4, <3>5
  <2>4. QED BY <1>6, <2>3 DEF noted
<1>9. ASSUME NEW changes \in Values
      PROVE  RecordJson(Edited(rec, node, changes)) = Edited(json, like, Json[changes])
  <2>1. Noted(like, Json[changes]) = Noted(node, Json[changes])
    BY <1>3 DEF Noted
  <2>2. QED BY <1>8, <2>1 DEF Edited, new, newJson
<1>10. QED BY <1>7, <1>9 DEF new, newJson, json, like

(* A command may be replayed from what was converted, and converted after. *)
LEMMA AppliedJson ==
  ASSUME kind \in {"page", "project"}, NEW event \in Event, NEW rec,
         event.op # "create" => rec \in Record
  PROVE  RecordJson(Applied(event, rec)) = Applied(EventJson(event), RecordJson(rec))
<1>1. CASE event.op = "create"
  <2>1. Applied(event, rec) = event.record
    BY <1>1 DEF Applied
  <2>2. EventJson(event) = [event EXCEPT !.record = RecordJson(event.record)]
    BY <1>1 DEF EventJson
  <2>3. EventJson(event).op = "create" /\ EventJson(event).record = RecordJson(event.record)
    <3>1. event \in [op : {"create"}, record : PageRecord] \cup [op : {"create"}, record : ProjectRecord]
      BY <1>1 DEF Event, PageEvent, ProjectEvent
    <3>2. QED BY <2>2, <3>1
  <2>4. Applied(EventJson(event), RecordJson(rec)) = EventJson(event).record
    BY <2>3 DEF Applied
  <2>5. QED BY <2>1, <2>3, <2>4
<1>2. CASE kind = "page" /\ event.op # "create"
  <2>1. event \in PageEvent /\ rec \in PageRecord /\ RecordJson(rec) \in PageRecord
    BY <1>2, RecordJsonFields DEF Event, Record
  <2> DEFINE json == RecordJson(rec)
  <2> HIDE DEF json
  <2>2. CASE event \in [op : {"preprocess", "ocr"}, node : ProvenanceNode, refs : Hashes]
    <3>1. WithBlobRefs(event.node, event.refs) \in ProvenanceNode /\ event.node \in ProvenanceNode
      BY <2>2, WithBlobRefsType
    <3>2. WithBlobRefs(NodeJson(event.node), event.refs) = NodeJson(WithBlobRefs(event.node, event.refs))
      BY <3>1 DEF WithBlobRefs, NodeJson, ProvenanceNode
    <3> DEFINE node == WithBlobRefs(event.node, event.refs)
    <3>3. /\ EventJson(event).op = event.op /\ EventJson(event).refs = event.refs
          /\ EventJson(event).node = NodeJson(event.node)
      <4>1. EventJson(event) = [event EXCEPT !.node = NodeJson(event.node)]
        BY <2>2 DEF EventJson
      <4>2. QED BY <2>2, <4>1
    <3> HIDE DEF node
    <3>4. CASE event.op = "preprocess"
      <4>1. Applied(event, rec) = NodeApplied(rec, node)
        BY <3>4 DEF Applied, node
      <4>2. Applied(EventJson(event), json) = NodeApplied(json, NodeJson(node))
        BY <3>2, <3>3, <3>4 DEF Applied, node
      <4>3. QED BY <2>1, <3>1, <4>1, <4>2, NodeAppliedJson DEF node, json
    <3>5. CASE event.op = "ocr"
      <4> DEFINE done == [rec EXCEPT !.failed = FALSE]
                 doneJson == [json EXCEPT !.failed = FALSE]
      <4>1. Applied(event, rec) = NodeApplied(done, node)
        BY <3>5 DEF Applied, node
      <4>2. Applied(EventJson(event), json) = NodeApplied(doneJson, NodeJson(node))
        BY <3>2, <3>3, <3>5 DEF Applied, node
      <4>3. done \in PageRecord /\ RecordJson(done) = doneJson
        <5>1. /\ done \in PageRecord /\ done.nodes = rec.nodes /\ done.head = rec.head
              /\ done.history = rec.history /\ done.changelog = rec.changelog /\ done.failed = FALSE
              /\ done.rotation = rec.rotation /\ done.ext = rec.ext
          BY <2>1 DEF PageRecord
        <5> HIDE DEF done
        <5>2. QED BY <2>1, <5>1, RecordJsonFields DEF json
      <4> HIDE DEF done, doneJson
      <4>4. node \in ProvenanceNode
        BY <3>1 DEF node
      <4>5. RecordJson(NodeApplied(done, node)) = NodeApplied(doneJson, NodeJson(node))
        BY <4>3, <4>4, NodeAppliedJson
      <4>6. QED BY <4>1, <4>2, <4>5 DEF json
    <3>6. QED BY <2>2, <3>4, <3>5 DEF json
  <2>3. CASE event \in [op : {"mark"}, node : ProvenanceNode]
    <3>1. event.op = "mark" /\ event.node \in ProvenanceNode
      BY <2>3
    <3>2. EventJson(event).op = "mark" /\ EventJson(event).node = NodeJson(event.node)
      <4>1. EventJson(event) = [event EXCEPT !.node = NodeJson(event.node)]
        BY <3>1 DEF EventJson
      <4>2. QED BY <2>3, <4>1
    <3>3. Applied(event, rec) = NodeApplied(rec, event.node)
      BY <3>1 DEF Applied
    <3>4. Applied(EventJson(event), json) = NodeApplied(json, NodeJson(event.node))
      BY <3>2 DEF Applied
    <3>5. QED BY <2>1, <3>1, <3>3, <3>4, NodeAppliedJson DEF json
  <2>4. CASE event \in [op : {"edit"}, node : ProvenanceNode, changes : Values]
    <3>1. event.op = "edit" /\ event.node \in ProvenanceNode /\ event.changes \in Values
      BY <2>4
    <3>2. /\ EventJson(event).op = "edit" /\ EventJson(event).node = NodeJson(event.node)
          /\ EventJson(event).changes = Json[event.changes]
      <4>1. EventJson(event) = [event EXCEPT !.node = NodeJson(event.node), !.changes = Json[event.changes]]
        BY <3>1 DEF EventJson
      <4>2. QED BY <2>4, <4>1
    <3>3. Applied(event, rec) = Edited(rec, event.node, event.changes)
      BY <3>1 DEF Applied, Noted, Edited
    <3>4. Applied(EventJson(event), json) = Edited(json, NodeJson(event.node), Json[event.changes])
      BY <3>2 DEF Applied, Noted, Edited
    <3>5. QED BY <2>1, <3>1, <3>3, <3>4, NodeAppliedJson DEF json
  <2>5. CASE event \in [op : {"rotate"}, to : Rotations]
    <3> DEFINE turned == [rec EXCEPT !.rotation = event.to]
    <3>1. /\ turned \in PageRecord /\ turned.nodes = rec.nodes /\ turned.head = rec.head
          /\ turned.history = rec.history /\ turned.changelog = rec.changelog
          /\ turned.failed = rec.failed /\ turned.rotation = event.to /\ turned.ext = rec.ext
      BY <2>1, <2>5 DEF PageRecord
    <3>2. Applied(event, rec) = turned
      BY <2>5 DEF Applied
    <3>3. EventJson(event) = event /\ Applied(event, json) = [json EXCEPT !.rotation = event.to]
      BY <2>5 DEF Applied, EventJson
    <3> HIDE DEF turned
    <3>4. RecordJson(turned) = [json EXCEPT !.rotation = event.to]
      BY <2>1, <3>1, RecordJsonFields DEF json
    <3>5. QED BY <3>2, <3>3, <3>4 DEF json
  <2>6. CASE event \in [op : {"extend"}, data : Values]
    <3> DEFINE extended == [rec EXCEPT !.ext = event.data]
    <3>1. /\ extended \in PageRecord /\ extended.nodes = rec.nodes /\ extended.head = rec.head
          /\ extended.history = rec.history /\ extended.changelog = rec.changelog
          /\ extended.failed = rec.failed /\ extended.rotation = rec.rotation
          /\ extended.ext = event.data
      BY <2>1, <2>6 DEF PageRecord
    <3>2. Applied(event, rec) = extended
      BY <2>6 DEF Applied
    <3>3. EventJson(event).op = "extend" /\ EventJson(event).data = Json[event.data]
      <4>1. EventJson(event) = [event EXCEPT !.data = Json[event.data]]
        BY <2>6 DEF EventJson
      <4>2. QED BY <2>6, <4>1
    <3>4. Applied(EventJson(event), json) = [json EXCEPT !.ext = Json[event.data]]
      BY <3>3 DEF Applied
    <3> HIDE DEF extended
    <3>5. RecordJson(extended) = [json EXCEPT !.ext = Json[event.data]]
      BY <2>1, <3>1, RecordJsonFields DEF json
    <3>6. QED BY <3>2, <3>4, <3>5 DEF json
  <2>7. QED BY <1>2, <2>1, <2>2, <2>3, <2>4, <2>5, <2>6 DEF PageEvent
<1>3. CASE kind = "project" /\ event.op # "create"
  <2>1. event \in ProjectEvent /\ rec \in ProjectRecord /\ Record = ProjectRecord
    BY <1>3 DEF Event, Record
  <2>2. EventJson(event) = event
    <3>1. event.op \in {"add", "remove", "reorder", "export"}
      BY <1>3, <2>1 DEF ProjectEvent
    <3>2. QED BY <3>1 DEF EventJson
  <2>3. Applied(event, rec) \in ProjectRecord
    BY <1>3, <2>1, AppliedType
  <2>4. QED BY <2>1, <2>2, <2>3, ProjectsAreNoPages
<1>4. QED BY <1>1, <1>2, <1>3

(* Records are the same when JSON makes the same of them. *)
Same(r, s) == RecordJson(r) = RecordJson(s)

LEMMA SameKnown ==
  ASSUME kind \in {"page", "project"}, NEW r \in Record, NEW s, Same(r, s) \/ Same(s, r)
  PROVE  s # None
<1>1. RecordJson(None) = None
  BY NoneAssumption DEF RecordJson
<1>2. RecordJson(r) # None
  BY RecordJsonFacts, NoneIsNothing
<1>3. QED BY <1>1, <1>2 DEF Same

(* The same command, converted or not, makes the same of what is the same. *)
LEMMA SameApplied ==
  ASSUME kind \in {"page", "project"}, NEW e \in Event, NEW f \in Event, f = e \/ f = EventCoded(e),
         NEW r, NEW s, e.op # "create" => r \in Record /\ s \in Record /\ Same(r, s)
  PROVE  Same(Applied(e, r), Applied(f, s))
<1>1. f.op = e.op /\ EventJson(f) = EventJson(e)
  BY EventCodedFacts
<1>2. RecordJson(Applied(e, r)) = Applied(EventJson(e), RecordJson(r))
  BY AppliedJson
<1>3. RecordJson(Applied(f, s)) = Applied(EventJson(e), RecordJson(s))
  BY <1>1, AppliedJson DEF Same
<1>4. CASE e.op = "create"
  <2>1. EventJson(e).op = "create"
    BY <1>4, EventCodedFacts
  <2>2. QED BY <1>2, <1>3, <2>1 DEF Applied, Same
<1>5. CASE e.op # "create"
  BY <1>2, <1>3, <1>5 DEF Same
<1>6. QED BY <1>4, <1>5

-----------------------------------------------------------------------------
(* The invariant. *)

(* What is there where the state says that something is. *)
Known ==
  /\ \A c \in Clients : ver[c] > 0 => seen[c][ver[c]] # None
  /\ \A c \in Clients : view[c].ver > 0 => view[c].rec # None
  /\ \A c \in Clients : \A v \in Versions :
       pend[c][v] # None => /\ v <= ver[c]
                            /\ pend[c][v].op = "create" <=> v = 1
                            /\ \A w \in v..ver[c] : pend[c][w] # None
  /\ \A v \in Versions : events[v] # None => (events[v].op = "create" <=> v = 1)
  /\ \A c \in Clients : \A w \in todo[c] : events[w] # None

(* The record before a version. *)
Before(f, v) == IF v = 1 THEN None ELSE f[v - 1]

(* truth solves the equation of a replay; snapshots and loads agree with it. *)
Agree ==
  /\ \A v \in Versions : truth[v] # None =>
       /\ events[v] # None
       /\ truth[v] = Applied(events[v], Before(truth, v))
       /\ \A w \in 1..v : truth[w] # None
  /\ SnapshotsAgree
  /\ \A c \in Clients : view[c].ver > 0 => Same(view[c].rec, truth[view[c].ver])

(* The event of a version of a client's aggregate, pending or stored. *)
EventOf(c, v) == IF pend[c][v] # None THEN pend[c][v] ELSE events[v]

(* What a client holds: at each version the record that is known from the     *)
(* store, or what the event of that version makes of the one before.          *)
Chain ==
  \A c \in Clients : fate[c] = "clean" =>
    \A v \in Versions : seen[c][v] # None =>
      /\ v <= ver[c]
      /\ EventOf(c, v) # None
      /\ \/ pend[c][v] = None /\ Same(truth[v], seen[c][v])
         \/ /\ Same(seen[c][v], Applied(EventOf(c, v), Before(seen[c], v)))
            /\ v > 1 => seen[c][v - 1] # None
      /\ pend[c][v] = None /\ truth[v] # None => Same(truth[v], seen[c][v])

(* Below a client's version there is an event, pending or stored, unless its  *)
(* events were lost; and then it has none pending, or it went on.             *)
Reaches ==
  \A c \in Clients :
    /\ fate[c] # "lost" => \A v \in Versions : v <= ver[c] => EventOf(c, v) # None
    /\ fate[c] = "lost" => wentOn \/ pend[c] = Nothing

IInv == TypeOK /\ Known /\ Agree /\ Chain /\ Reaches /\ NoGap

-----------------------------------------------------------------------------
(* The initial states, the ghost step and the commands. *)

LEMMA InitInv == Init => IInv
<1> SUFFICES ASSUME Init PROVE IInv
  OBVIOUS
<1>1. TypeOK
  <2>1. Nothing \in [Versions -> Event \cup {None}] /\ Nothing \in [Versions -> Record \cup {None}]
    BY DEF Nothing
  <2>2. NoView \in [ver : 0..MaxVersion, rec : Record \cup {None}, goal : 0..MaxVersion]
    BY IntervalAssumption DEF NoView
  <2>3. 0 \in 0..MaxVersion
    BY IntervalAssumption
  <2> HIDE DEF Nothing, NoView
  <2>4. QED BY <2>1, <2>2, <2>3 DEF Init, TypeOK
<1>2. Known /\ Agree /\ Chain /\ Reaches /\ NoGap
  BY DEF Init, Known, Agree, SnapshotsAgree, Chain, Reaches, NoGap, EventOf, Nothing, NoView, Versions
<1>3. QED BY <1>1, <1>2 DEF IInv

(* Versions are numbers from 1. *)
LEMMA VersionFacts ==
  /\ MaxVersion \in Nat /\ MaxVersion >= 1
  /\ \A v \in Versions : v \in Nat /\ v \in 0..MaxVersion /\ v >= 1 /\ v <= MaxVersion /\ (v # 1 => v - 1 \in Versions)
  /\ \A v \in Nat : v >= 1 /\ v <= MaxVersion => v \in Versions
BY IntervalAssumption DEF Versions

(* The versions up to the next one. *)
LEMMA NextVersion ==
  ASSUME NEW n \in Nat
  PROVE  /\ n + 1 \in Nat
         /\ \A w \in Versions : w <= n + 1 /\ w # n + 1 => w <= n
         /\ \A w \in Versions : w <= n => w - 1 <= n /\ w <= n + 1 /\ w # n + 1 /\ w - 1 # n + 1
         /\ n + 1 \in Versions => \A w \in Versions : \A x \in w..(n + 1) :
              x \in Versions /\ (x = n + 1 \/ x \in w..n)
BY IntervalAssumption DEF Versions

(* The type of what one client has. *)
LEMMA OneClient ==
  ASSUME TypeOK, NEW c \in Clients
  PROVE  /\ ver[c] \in 0..MaxVersion /\ ver[c] \in Nat
         /\ ver[c] > 0 => ver[c] \in Versions
         /\ view[c].ver \in 0..MaxVersion /\ view[c].ver \in Nat
         /\ view[c].ver > 0 => view[c].ver \in Versions
         /\ view[c].rec \in Record \cup {None}
         /\ view[c].goal \in 0..MaxVersion
         /\ view[c] = [ver |-> view[c].ver, rec |-> view[c].rec, goal |-> view[c].goal]
         /\ pend[c] \in [Versions -> Event \cup {None}]
         /\ seen[c] \in [Versions -> Record \cup {None}]
         /\ due[c] \in SUBSET Versions
         /\ todo[c] \in SUBSET Versions
         /\ fate[c] \in {"clean", "altered", "lost"}
<1>1. /\ ver[c] \in 0..MaxVersion
      /\ view[c] \in [ver : 0..MaxVersion, rec : Record \cup {None}, goal : 0..MaxVersion]
      /\ pend[c] \in [Versions -> Event \cup {None}]
      /\ seen[c] \in [Versions -> Record \cup {None}]
      /\ due[c] \in SUBSET Versions
      /\ todo[c] \in SUBSET Versions
      /\ fate[c] \in {"clean", "altered", "lost"}
  BY DEF TypeOK
<1>2. MaxVersion \in Nat
  BY IntervalAssumption
<1>3. QED BY <1>1, <1>2 DEF Versions

(* The ghost step: one more record is known. *)
LEMMA CatchUpInv ==
  ASSUME IInv, CatchUp
  PROVE  IInv'
<1> USE DEF IInv
<1>1. PICK v \in Behind :
        truth' = [truth EXCEPT ![v] = Applied(events[v], IF v = 1 THEN None ELSE truth[v - 1])]
  BY DEF CatchUp
<1>2. /\ v \in Versions /\ events[v] # None /\ events[v] \in Event /\ truth[v] = None
      /\ v \in Nat /\ v >= 1
      /\ v # 1 => v - 1 \in Versions /\ truth[v - 1] # None /\ truth[v - 1] \in Record
  <2>1. v \in Versions /\ events[v] # None /\ truth[v] = None /\ (v = 1 \/ truth[v - 1] # None)
    BY DEF Behind
  <2>2. v \in Nat /\ v >= 1 /\ (v # 1 => v - 1 \in Versions)
    BY <2>1, IntervalAssumption DEF Versions
  <2>3. QED BY <2>1, <2>2 DEF TypeOK
<1> DEFINE rec == Applied(events[v], Before(truth, v))
<1>3. rec \in Record /\ rec # None
  <2>1. events[v].op # "create" => Before(truth, v) \in Record
    BY <1>2 DEF Known, Before
  <2>2. QED BY <1>2, <2>1, AppliedType, NoneIsNothing DEF TypeOK
<1>4. truth' = [truth EXCEPT ![v] = rec]
  BY <1>1 DEF Before
<1> HIDE DEF rec
<1>5. /\ truth \in [Versions -> Record \cup {None}]
      /\ \A w \in Versions : truth'[w] = IF w = v THEN rec ELSE truth[w]
  BY <1>2, <1>4 DEF TypeOK
<1>6. UNCHANGED <<stored, client, seen, fate, wentOn>> /\ Record' = Record /\ Event' = Event
  BY DEF CatchUp, stored, Record, Event
<1>7. TypeOK'
  BY <1>3, <1>4, <1>6 DEF TypeOK, stored, client
<1>8. Known'
  BY <1>6 DEF Known, stored, client
<1>9. Agree'
  <2>1. \A w \in Versions : truth[w] # None => truth'[w] = truth[w]
    BY <1>2, <1>5
  <2>2. \A w \in Versions : truth'[w] # None =>
          /\ events[w] # None
          /\ truth'[w] = Applied(events[w], Before(truth', w))
          /\ \A x \in 1..w : truth'[x] # None
    <3> SUFFICES ASSUME NEW w \in Versions, truth'[w] # None
                 PROVE  /\ events[w] # None
                        /\ truth'[w] = Applied(events[w], Before(truth', w))
                        /\ \A x \in 1..w : truth'[x] # None
      OBVIOUS
    <3>1. CASE w = v
      <4>1. Before(truth', v) = Before(truth, v)
        BY <1>2, <1>5 DEF Before
      <4>2. \A x \in 1..v : x # v => x \in 1..(v - 1) /\ x \in Versions /\ v > 1
        BY <1>2, IntervalAssumption DEF Versions
      <4>3. v > 1 => \A x \in 1..(v - 1) : truth[x] # None
        BY <1>2 DEF Agree
      <4>4. QED BY <1>2, <1>3, <1>5, <3>1, <4>1, <4>2, <4>3 DEF rec
    <3>2. CASE w # v
      <4>1. truth[w] # None
        BY <1>5, <3>2
      <4>2. \A x \in 1..w : truth[x] # None /\ x # v /\ x \in Versions
        BY <1>2, <4>1, IntervalAssumption DEF Agree, Versions
      <4>3. Before(truth', w) = Before(truth, w)
        BY <1>5, <4>2 DEF Before, Versions
      <4>4. QED BY <1>5, <3>2, <4>1, <4>2, <4>3 DEF Agree
    <3>3. QED BY <3>1, <3>2
  <2>3. SnapshotsAgree'
    <3>1. snaps' = snaps
      BY <1>6 DEF stored
    <3>2. \A w \in Versions : snaps[w] # None => snaps[w] = RecordJson(truth[w]) /\ truth[w] # None
      <4>1. RecordJson(None) = None
        BY NoneAssumption DEF RecordJson
      <4>2. QED BY <4>1 DEF Agree, SnapshotsAgree
    <3>3. \A w \in Versions : snaps'[w] # None => snaps'[w] = RecordJson(truth'[w])
      BY <2>1, <3>1, <3>2
    <3>4. QED BY <3>3 DEF SnapshotsAgree
  <2>4. \A c \in Clients : view[c].ver > 0 => Same(view[c].rec, truth'[view[c].ver])
    <3> SUFFICES ASSUME NEW c \in Clients, view[c].ver > 0
                 PROVE  Same(view[c].rec, truth'[view[c].ver])
      OBVIOUS
    <3>1. view[c].ver \in Versions
      BY OneClient
    <3>2. truth[view[c].ver] # None
      <4>1. view[c].rec \in Record /\ Same(view[c].rec, truth[view[c].ver])
        BY OneClient DEF Agree, Known
      <4>2. QED BY <4>1, SameKnown DEF TypeOK
    <3>3. QED BY <2>1, <3>1, <3>2 DEF Agree
  <2>5. QED BY <1>6, <2>2, <2>3, <2>4 DEF Agree, stored, client
<1>10. Chain'
  <2> SUFFICES ASSUME NEW c \in Clients, fate[c] = "clean", NEW w \in Versions, seen[c][w] # None
               PROVE  /\ w <= ver[c]
                      /\ EventOf(c, w) # None
                      /\ \/ pend[c][w] = None /\ Same(truth'[w], seen[c][w])
                         \/ /\ Same(seen[c][w], Applied(EventOf(c, w), Before(seen[c], w)))
                            /\ w > 1 => seen[c][w - 1] # None
                      /\ pend[c][w] = None /\ truth'[w] # None => Same(truth'[w], seen[c][w])
    BY <1>6 DEF Chain, EventOf, Before, stored, client
  <2>1. CASE w # v
    BY <1>5, <2>1 DEF Chain
  <2>2. CASE w = v /\ pend[c][v] = None
    <3>0. ~Same(truth[v], seen[c][v])
      BY <1>2, <2>2, OneClient, SameKnown DEF TypeOK
    <3>1. /\ w <= ver[c]
          /\ EventOf(c, v) # None
          /\ Same(seen[c][v], Applied(EventOf(c, v), Before(seen[c], v)))
          /\ v > 1 => seen[c][v - 1] # None
      BY <1>2, <2>2, <3>0 DEF Chain
    <3>2. EventOf(c, v) = events[v]
      BY <2>2 DEF EventOf
    <3>3. v > 1 => Same(truth[v - 1], seen[c][v - 1])
      <4>1. CASE v > 1 /\ pend[c][v - 1] = None
        BY <1>2, <3>1, <4>1 DEF Chain
      <4>2. CASE v > 1 /\ pend[c][v - 1] # None
        BY <1>2, <2>2, <3>1, <4>2 DEF Known, TypeOK, Versions
      <4>3. QED BY <4>1, <4>2
    <3>4. v > 1 => truth[v - 1] \in Record /\ seen[c][v - 1] \in Record
      <4>1. v > 1 => v # 1 /\ v - 1 \in Versions
        BY <1>2, VersionFacts
      <4>2. v > 1 => truth[v - 1] # None /\ seen[c][v - 1] # None
        BY <1>2, <3>1, <4>1
      <4>3. \A u \in Versions : /\ truth[u] # None => truth[u] \in Record
                               /\ seen[c][u] # None => seen[c][u] \in Record
        BY OneClient DEF TypeOK
      <4>4. QED BY <1>2, <4>1, <4>2, <4>3, Zenon
    <3>5. events[v].op # "create" => v > 1
      BY <1>2 DEF Known
    <3>6. Same(rec, Applied(events[v], Before(seen[c], v)))
      <4>1. events[v].op # "create" => /\ Before(truth, v) = truth[v - 1] /\ Before(seen[c], v) = seen[c][v - 1]
        BY <1>2, <3>5 DEF Before
      <4>2. events[v].op # "create" => /\ Before(truth, v) \in Record /\ Before(seen[c], v) \in Record
                                       /\ Same(Before(truth, v), Before(seen[c], v))
        BY <3>3, <3>4, <3>5, <4>1
      <4>3. QED BY <1>2, <4>2, SameApplied DEF rec, TypeOK
    <3>7. Same(rec, seen[c][v])
      BY <3>1, <3>2, <3>6 DEF Same
    <3>8. QED BY <1>5, <2>2, <3>1, <3>7
  <2>3. CASE w = v /\ pend[c][v] # None
    BY <1>2, <1>5, <2>3 DEF Chain
  <2>4. QED BY <2>1, <2>2, <2>3
<1>11. Reaches' /\ NoGap'
  BY <1>6 DEF Reaches, NoGap, EventOf, stored, client
<1>12. QED BY <1>7, <1>8, <1>9, <1>10, <1>11

(* A step that leaves the store, the loads and what is known alone changes    *)
(* nothing that Agree is about.                                               *)
LEMMA SameAgree ==
  ASSUME Agree, UNCHANGED <<stored, view, truth>>
  PROVE  Agree'
BY DEF Agree, SnapshotsAgree, Before, stored

(* An aggregate made anew, without events or with one, or none at all. *)
LEMMA CreateInv ==
  ASSUME IInv, NEW c \in Clients, Create(c)
  PROVE  IInv'
<1> USE DEF IInv
<1>1. PICK event \in menu : event.op = "create" /\ Fresh(c, 1, event.record, event)
  BY DEF Create
<1>2. /\ event \in Event /\ event # None
      /\ event.record \in Record /\ event.record # None
      /\ event.record = Applied(event, None) /\ Same(event.record, Applied(event, None))
  <2>1. event \in Event
    BY DEF TypeOK
  <2>2. event.record = Applied(event, None)
    BY <1>1 DEF Applied
  <2>3. Applied(event, None) \in Record
    BY <1>1, <2>1, AppliedType DEF TypeOK
  <2>4. QED BY <2>1, <2>2, <2>3, NoneIsNothing DEF TypeOK, Same
<1>3. UNCHANGED <<stored, pc, due, view, todo, wentOn, truth>> /\ Record' = Record /\ Event' = Event
  BY DEF Create, stored, Record, Event
<1>4. /\ At(1, event.record) \in [Versions -> Record \cup {None}]
      /\ At(1, event) \in [Versions -> Event \cup {None}]
      /\ 1 \in Versions
      /\ \A v \in Versions : At(1, event.record)[v] = IF v = 1 THEN event.record ELSE None
      /\ \A v \in Versions : At(1, event)[v] = IF v = 1 THEN event ELSE None
  BY <1>2, IntervalAssumption DEF At, Versions
<1>5. /\ ver' = [ver EXCEPT ![c] = 1]
      /\ seen' = [seen EXCEPT ![c] = At(1, event.record)]
      /\ pend' = [pend EXCEPT ![c] = At(1, event)]
      /\ fate' = [fate EXCEPT ![c] = "clean"]
  BY <1>1 DEF Fresh
<1>6. TypeOK'
  BY <1>3, <1>4, <1>5, IntervalAssumption DEF TypeOK, stored
<1>7. /\ ver'[c] = 1 /\ seen'[c] = At(1, event.record) /\ pend'[c] = At(1, event) /\ fate'[c] = "clean"
      /\ \A d \in Clients \ {c} : /\ ver'[d] = ver[d] /\ seen'[d] = seen[d]
                                 /\ pend'[d] = pend[d] /\ fate'[d] = fate[d]
  BY <1>5 DEF TypeOK
<1>8. Known'
  BY <1>1, <1>2, <1>3, <1>4, <1>7 DEF Known, stored, Versions
<1>9. Agree'
  BY <1>3, SameAgree
<1>10. Chain' /\ Reaches'
  <2>1. \A d \in Clients \ {c} : \A v \in Versions : EventOf(d, v)' = EventOf(d, v)
    BY <1>3, <1>7 DEF EventOf, stored
  <2>2. EventOf(c, 1)' = event
    BY <1>2, <1>4, <1>7 DEF EventOf
  <2>3. Chain'
    BY <1>2, <1>3, <1>4, <1>7, <2>1, <2>2 DEF Chain, Before, stored
  <2>4. Reaches'
    BY <1>2, <1>3, <1>4, <1>7, <2>1, <2>2 DEF Reaches, Versions
  <2>5. QED BY <2>3, <2>4
<1>11. NoGap'
  BY <1>3 DEF NoGap, stored
<1>12. QED BY <1>6, <1>8, <1>9, <1>10, <1>11

(* A command. *)
LEMMA CommandInv ==
  ASSUME IInv, NEW c \in Clients, NEW event \in Event, event.op # "create", Command(c, event)
  PROVE  IInv'
<1> USE DEF IInv
<1> DEFINE rec == Applied(event, seen[c][ver[c]])
<1>0. PICK v \in Nat : v = ver[c] + 1
  <2>1. ver[c] \in Nat
    BY OneClient
  <2>2. QED BY <2>1, NextVersion
<1>1. /\ ver[c] \in Versions /\ v \in Versions /\ ver[c] \in Nat /\ v \in Nat /\ v # 1
      /\ seen[c][ver[c]] # None /\ seen[c][ver[c]] \in Record
  <2>1. ver[c] \in 1..(MaxVersion - 1)
    BY DEF Command
  <2>2. ver[c] \in Versions /\ v \in Versions /\ ver[c] \in Nat /\ v \in Nat /\ v # 1 /\ ver[c] > 0
    BY <1>0, <2>1, OneClient, VersionFacts
  <2>3. seen[c][ver[c]] # None
    BY <2>2 DEF Known
  <2>4. QED BY <2>2, <2>3, OneClient
<1>2. rec \in Record /\ rec # None /\ event # None
  BY <1>1, AppliedType, NoneIsNothing DEF TypeOK
<1>3. /\ ver' = [ver EXCEPT ![c] = v]
      /\ seen' = [seen EXCEPT ![c] = [seen[c] EXCEPT ![v] = rec]]
      /\ pend' = [pend EXCEPT ![c] = [pend[c] EXCEPT ![v] = event]]
      /\ wentOn' = (wentOn \/ fate[c] = "lost")
  BY <1>0 DEF Command, TypeOK
<1>4. UNCHANGED <<stored, pc, due, view, todo, fate, truth>> /\ Record' = Record /\ Event' = Event
  BY DEF Command, stored, Record, Event
<1> HIDE DEF rec
<1>5. TypeOK'
  <2>1. [seen[c] EXCEPT ![v] = rec] \in [Versions -> Record \cup {None}]
    BY <1>2, OneClient
  <2>2. [pend[c] EXCEPT ![v] = event] \in [Versions -> Event \cup {None}]
    BY OneClient
  <2>3. v \in 0..MaxVersion
    BY <1>1, VersionFacts
  <2>4. QED BY <1>3, <1>4, <2>1, <2>2, <2>3 DEF TypeOK, stored
<1>6. /\ ver'[c] = v
      /\ \A w \in Versions : seen'[c][w] = IF w = v THEN rec ELSE seen[c][w]
      /\ \A w \in Versions : pend'[c][w] = IF w = v THEN event ELSE pend[c][w]
      /\ \A d \in Clients \ {c} : ver'[d] = ver[d] /\ seen'[d] = seen[d] /\ pend'[d] = pend[d]
  BY <1>1, <1>3, OneClient DEF TypeOK
<1>7. Known'
  <2>1. \A w \in Versions : pend'[c][w] # None =>
          /\ w <= v
          /\ pend'[c][w].op = "create" <=> w = 1
          /\ \A x \in w..v : pend'[c][x] # None
    <3> SUFFICES ASSUME NEW w \in Versions, pend'[c][w] # None
                 PROVE  /\ w <= v
                        /\ pend'[c][w].op = "create" <=> w = 1
                        /\ \A x \in w..v : pend'[c][x] # None
      OBVIOUS
    <3>1. CASE w = v
      <4>1. \A x \in v..v : x = v
        BY <1>1
      <4>2. QED BY <1>1, <1>2, <1>6, <3>1, <4>1
    <3>2. CASE w # v
      <4>1. /\ pend[c][w] # None /\ w <= ver[c]
            /\ pend[c][w].op = "create" <=> w = 1
            /\ \A x \in w..ver[c] : pend[c][x] # None
        BY <1>6, <3>2 DEF Known
      <4>2. \A x \in w..v : x \in Versions /\ (x = v \/ x \in w..ver[c])
        BY <1>0, <1>1, NextVersion
      <4>3. \A x \in w..v : pend'[c][x] # None
        BY <1>2, <1>6, <4>1, <4>2
      <4>4. w <= v
        BY <1>0, <1>1, <4>1, VersionFacts
      <4>5. QED BY <1>6, <3>2, <4>1, <4>3, <4>4
    <3>3. QED BY <3>1, <3>2
  <2>2. seen'[c][ver'[c]] # None
    BY <1>1, <1>2, <1>6
  <2>3. \A d \in Clients \ {c} : \A w \in Versions :
          pend'[d][w] # None => /\ w <= ver'[d]
                                /\ pend'[d][w].op = "create" <=> w = 1
                                /\ \A x \in w..ver'[d] : pend'[d][x] # None
    BY <1>6 DEF Known
  <2>4. QED BY <1>4, <1>6, <2>1, <2>2, <2>3 DEF Known, stored
<1>8. Agree'
  BY <1>4, SameAgree
<1>9. \A d \in Clients : \A w \in Versions :
        EventOf(d, w)' = IF d = c /\ w = v THEN event ELSE EventOf(d, w)
  BY <1>2, <1>4, <1>6 DEF EventOf, stored
<1>10. Chain'
  <2> SUFFICES ASSUME NEW d \in Clients, fate[d] = "clean", NEW w \in Versions, seen'[d][w] # None
               PROVE  /\ w <= ver'[d]
                      /\ EventOf(d, w)' # None
                      /\ \/ pend'[d][w] = None /\ Same(truth[w], seen'[d][w])
                         \/ /\ Same(seen'[d][w], Applied(EventOf(d, w)', Before(seen'[d], w)))
                            /\ w > 1 => seen'[d][w - 1] # None
                      /\ pend'[d][w] = None /\ truth[w] # None => Same(truth[w], seen'[d][w])
    BY <1>4 DEF Chain, Before
  <2>1. CASE d # c
    BY <1>6, <1>9, <2>1 DEF Chain, Before
  <2>2. CASE d = c /\ w = v
    <3>1. seen'[c][v - 1] = seen[c][ver[c]] /\ v - 1 = ver[c]
      BY <1>0, <1>1, <1>6
    <3>2. Before(seen'[c], v) = seen[c][ver[c]]
      BY <1>1, <3>1 DEF Before
    <3>3. seen'[c][v] = rec /\ pend'[c][v] = event /\ EventOf(c, v)' = event
      BY <1>1, <1>6, <1>9
    <3>4. Same(seen'[c][v], Applied(EventOf(c, v)', Before(seen'[c], v)))
      BY <3>2, <3>3 DEF rec, Same
    <3>5. QED BY <1>1, <1>2, <1>6, <2>2, <3>1, <3>3, <3>4
  <2>3. CASE d = c /\ w # v
    <3>1. /\ w <= ver[c]
          /\ EventOf(c, w) # None
          /\ \/ pend[c][w] = None /\ Same(truth[w], seen[c][w])
             \/ /\ Same(seen[c][w], Applied(EventOf(c, w), Before(seen[c], w)))
                /\ w > 1 => seen[c][w - 1] # None
          /\ pend[c][w] = None /\ truth[w] # None => Same(truth[w], seen[c][w])
      BY <1>6, <2>3 DEF Chain
    <3>2. w # 1 => w - 1 \in Versions /\ w - 1 # v
      BY <1>0, <1>1, <3>1, VersionFacts, NextVersion
    <3>3. Before(seen'[c], w) = Before(seen[c], w)
      BY <1>6, <3>2 DEF Before
    <3>4. w \in Nat /\ w <= v
      BY <1>0, <1>1, <3>1, VersionFacts
    <3>5. w > 1 => seen'[c][w - 1] = seen[c][w - 1]
      BY <1>6, <3>2, <3>4
    <3>6. QED BY <1>6, <1>9, <2>3, <3>1, <3>3, <3>4, <3>5
  <2>4. QED BY <2>1, <2>2, <2>3
<1>11. Reaches'
  <2>1. ASSUME NEW d \in Clients, fate[d] # "lost", NEW w \in Versions, w <= ver'[d]
        PROVE  EventOf(d, w)' # None
    <3>1. CASE d # c
      BY <1>6, <1>9, <2>1, <3>1 DEF Reaches
    <3>2. CASE d = c /\ w # v
      <4>1. w <= ver[c]
        <5>1. w <= v
          BY <1>6, <2>1, <3>2
        <5>2. QED BY <1>0, <1>1, <3>2, <5>1, NextVersion
      <4>2. QED BY <1>9, <2>1, <3>2, <4>1 DEF Reaches
    <3>3. CASE d = c /\ w = v
      BY <1>2, <1>9, <3>3
    <3>4. QED BY <3>1, <3>2, <3>3
  <2>2. ASSUME NEW d \in Clients, fate[d] = "lost"
        PROVE  wentOn' \/ pend'[d] = Nothing
    BY <1>3, <1>6, <2>2 DEF Reaches, TypeOK
  <2>3. Nothing' = Nothing
    BY DEF Nothing
  <2>4. QED BY <1>4, <2>1, <2>2, <2>3 DEF Reaches
<1>12. NoGap'
  BY <1>3, <1>4 DEF NoGap, stored
<1>13. QED BY <1>5, <1>7, <1>8, <1>10, <1>11, <1>12

(* A change of the aggregate that no event tells: only the type is left. *)
LEMMA AlteredInv ==
  ASSUME IInv, NEW c \in Clients, NEW event, Altered(c, event), NEW rec \in Record,
         seen' = [seen EXCEPT ![c] = [seen[c] EXCEPT ![ver[c]] = rec]]
  PROVE  IInv'
<1> USE DEF IInv
<1>1. ver[c] \in Versions /\ fate[c] = "clean"
  BY OneClient DEF Altered
<1>2. /\ fate' = [fate EXCEPT ![c] = "altered"]
      /\ UNCHANGED <<stored, client, wentOn, truth>>
      /\ Record' = Record /\ Event' = Event
  BY DEF Altered, stored, Record, Event
<1>3. [seen[c] EXCEPT ![ver[c]] = rec] \in [Versions -> Record \cup {None}]
  BY OneClient
<1>4. TypeOK'
  BY <1>2, <1>3 DEF TypeOK, stored, client
<1>5. /\ seen'[c][ver[c]] = rec /\ fate'[c] = "altered"
      /\ \A d \in Clients \ {c} : seen'[d] = seen[d] /\ fate'[d] = fate[d]
  BY <1>1, <1>2, OneClient DEF TypeOK
<1>6. Known'
  BY <1>2, <1>5, NoneIsNothing DEF Known, TypeOK, stored, client
<1>7. Agree'
  BY <1>2, SameAgree DEF client
<1>8. \A d \in Clients, v \in Versions : EventOf(d, v)' = EventOf(d, v)
  BY <1>2 DEF EventOf, stored, client
<1>9. Chain'
  BY <1>2, <1>5, <1>8 DEF Chain, Before, client
<1>10. Reaches'
  BY <1>1, <1>2, <1>5, <1>8 DEF Reaches, Nothing, client
<1>11. NoGap'
  BY <1>2 DEF NoGap, stored
<1>12. QED BY <1>4, <1>6, <1>7, <1>9, <1>10, <1>11

-----------------------------------------------------------------------------
(* Saving. *)

LEMMA SaveStoredInv ==
  ASSUME IInv, NEW c \in Clients, SaveStored(c)
  PROVE  IInv'
<1> USE DEF IInv
<1>1. /\ \A v \in Versions : pend[c][v] # None => events[v] = None
      /\ events' = [v \in Versions |-> IF pend[c][v] # None THEN EventCoded(pend[c][v]) ELSE events[v]]
      /\ pend' = [pend EXCEPT ![c] = Nothing]
      /\ due' = [due EXCEPT ![c] = {v \in Pending(c) : v % Interval = 0}]
      /\ pc' = [pc EXCEPT ![c] = IF due'[c] = {} THEN "idle" ELSE "snapshot"]
      /\ UNCHANGED <<kind, menu, snaps, ver, view, todo, seen, fate, wentOn, truth>>
      /\ Pending(c) # {}
  BY DEF SaveStored, Free, Pending, Recorded
<1>2. Record' = Record /\ Event' = Event
  BY <1>1 DEF Record, Event
<1>0. \A v \in Versions : pend[c][v] # None =>
        /\ EventCoded(pend[c][v]) \in Event /\ EventCoded(pend[c][v]) # None
        /\ EventCoded(pend[c][v]).op = pend[c][v].op
  BY OneClient, EventCodedFacts, NoneIsNothing DEF TypeOK
<1>3. /\ \A v \in Versions : events[v] # None => events'[v] = events[v]
      /\ \A v \in Versions : pend[c][v] = None => events'[v] = events[v]
      /\ \A v \in Versions : pend[c][v] # None => events'[v] = EventCoded(pend[c][v]) /\ events'[v] # None
  BY <1>0, <1>1
<1>4. /\ pend'[c] = Nothing
      /\ \A d \in Clients \ {c} : pend'[d] = pend[d]
      /\ \A v \in Versions : Nothing[v] = None
      /\ Nothing' = Nothing
  BY <1>1 DEF TypeOK, Nothing
<1>5. TypeOK'
  <2>1. events' \in [Versions -> Event \cup {None}]
    BY <1>0, <1>1, OneClient DEF TypeOK
  <2>2. Nothing \in [Versions -> Event \cup {None}]
    BY DEF Nothing
  <2>3. {v \in Pending(c) : v % Interval = 0} \in SUBSET Versions
    BY DEF Pending
  <2> HIDE DEF Nothing, Pending
  <2>4. QED BY <1>1, <1>2, <2>1, <2>2, <2>3 DEF TypeOK
<1>6. \A d \in Clients, v \in Versions : EventOf(d, v) # None =>
        /\ EventOf(d, v)' = EventOf(d, v) \/ EventOf(d, v)' = EventCoded(EventOf(d, v))
        /\ EventOf(d, v)' # None
  <2> SUFFICES ASSUME NEW d \in Clients, NEW v \in Versions, EventOf(d, v) # None
               PROVE  /\ EventOf(d, v)' = EventOf(d, v) \/ EventOf(d, v)' = EventCoded(EventOf(d, v))
                      /\ EventOf(d, v)' # None
    OBVIOUS
  <2>1. EventOf(d, v)' = IF pend'[d][v] # None THEN pend'[d][v] ELSE events'[v]
    BY DEF EventOf
  <2>2. CASE d = c
    BY <1>3, <1>4, <2>1, <2>2 DEF EventOf
  <2>3. CASE d # c
    BY <1>3, <1>4, <2>1, <2>3 DEF EventOf
  <2>4. QED BY <2>2, <2>3
<1>7. Known'
  <2>1. \A v \in Versions : events'[v] # None => (events'[v].op = "create" <=> v = 1)
    BY <1>0, <1>3 DEF Known
  <2>2. \A d \in Clients : \A w \in todo[d] : w \in Versions /\ events'[w] # None
    BY <1>3, OneClient DEF Known
  <2>3. \A d \in Clients : \A v \in Versions :
          pend'[d][v] # None => /\ v <= ver[d]
                                /\ pend'[d][v].op = "create" <=> v = 1
                                /\ \A w \in v..ver[d] : pend'[d][w] # None
    BY <1>4 DEF Known
  <2>4. QED BY <1>1, <2>1, <2>2, <2>3 DEF Known
<1>8. Agree'
  <2>1. \A v \in Versions : truth[v] # None =>
          /\ events'[v] # None
          /\ truth[v] = Applied(events'[v], Before(truth, v))
          /\ \A w \in 1..v : truth[w] # None
    BY <1>3 DEF Agree
  <2>2. QED BY <1>1, <2>1 DEF Agree, SnapshotsAgree, Before
<1>9. Chain'
  <2> SUFFICES ASSUME NEW d \in Clients, fate[d] = "clean", NEW v \in Versions, seen[d][v] # None
               PROVE  /\ v <= ver[d]
                      /\ EventOf(d, v)' # None
                      /\ \/ pend'[d][v] = None /\ Same(truth[v], seen[d][v])
                         \/ /\ Same(seen[d][v], Applied(EventOf(d, v)', Before(seen[d], v)))
                            /\ v > 1 => seen[d][v - 1] # None
                      /\ pend'[d][v] = None /\ truth[v] # None => Same(truth[v], seen[d][v])
    BY <1>1 DEF Chain, Before
  <2>1. /\ v <= ver[d]
        /\ EventOf(d, v) # None
        /\ \/ pend[d][v] = None /\ Same(truth[v], seen[d][v])
           \/ /\ Same(seen[d][v], Applied(EventOf(d, v), Before(seen[d], v)))
              /\ v > 1 => seen[d][v - 1] # None
        /\ pend[d][v] = None /\ truth[v] # None => Same(truth[v], seen[d][v])
    BY DEF Chain
  <2>2. /\ Same(seen[d][v], Applied(EventOf(d, v), Before(seen[d], v))) /\ (v > 1 => seen[d][v - 1] # None)
            => Same(seen[d][v], Applied(EventOf(d, v)', Before(seen[d], v)))
        /\ EventOf(d, v)' # None
    <3> SUFFICES ASSUME Same(seen[d][v], Applied(EventOf(d, v), Before(seen[d], v))),
                        v > 1 => seen[d][v - 1] # None
                 PROVE  Same(seen[d][v], Applied(EventOf(d, v)', Before(seen[d], v)))
      BY <1>6, <2>1
    <3>1. EventOf(d, v) \in Event /\ (EventOf(d, v).op # "create" => v # 1)
      <4>1. CASE pend[d][v] # None
        <5>1. EventOf(d, v) = pend[d][v]
          BY <4>1 DEF EventOf
        <5>2. pend[d][v] \in Event
          BY <4>1, OneClient
        <5>3. QED BY <4>1, <5>1, <5>2 DEF Known
      <4>2. CASE pend[d][v] = None
        <5>1. EventOf(d, v) = events[v] /\ events[v] # None
          BY <2>1, <4>2 DEF EventOf
        <5>2. QED BY <5>1 DEF TypeOK, Known
      <4>3. QED BY <4>1, <4>2
    <3>2. EventOf(d, v).op # "create" => Before(seen[d], v) \in Record
      <4>1. v # 1 => v > 1 /\ v - 1 \in Versions
        BY VersionFacts
      <4>2. v # 1 => seen[d][v - 1] \in Record
        BY <4>1, OneClient
      <4>3. QED BY <3>1, <4>2 DEF Before
    <3>3. EventOf(d, v)' \in Event /\ (EventOf(d, v)' = EventOf(d, v) \/ EventOf(d, v)' = EventCoded(EventOf(d, v)))
      BY <1>6, <2>1, <3>1, EventCodedFacts DEF TypeOK
    <3> DEFINE old == EventOf(d, v)
               new == EventOf(d, v)'
               rec == Before(seen[d], v)
    <3> HIDE DEF old, new, rec
    <3>4. Same(Applied(old, rec), Applied(new, rec))
      BY <3>1, <3>2, <3>3, SameApplied DEF old, new, rec, Same, TypeOK
    <3>5. QED BY <3>4 DEF old, new, rec, Same
  <2>3. d = c /\ pend[c][v] # None => truth[v] = None
    BY <1>1 DEF Agree
  <2>4. pend[d][v] = None => pend'[d][v] = None
    BY <1>4
  <2>5. d # c => pend'[d][v] = pend[d][v]
    BY <1>4
  <2>6. QED BY <2>1, <2>2, <2>3, <2>4, <2>5
<1>10. Reaches'
  BY <1>1, <1>4, <1>6 DEF Reaches
<1>11. NoGap'
  <2> SUFFICES ASSUME ~wentOn, NEW v \in Versions, v > 1, events'[v] # None
               PROVE  events'[v - 1] # None
    BY <1>1 DEF NoGap
  <2>1. v - 1 \in Versions /\ v - 1 <= v
    BY VersionFacts
  <2>2. CASE pend[c][v] = None
    BY <1>1, <1>3, <2>1, <2>2 DEF NoGap
  <2>3. CASE pend[c][v] # None
    <3>1. fate[c] # "lost"
      BY <1>4, <2>3 DEF Reaches
    <3>2. v <= ver[c]
      BY <2>3 DEF Known
    <3>3. v - 1 <= ver[c]
      <4>1. ver[c] \in Nat
        BY OneClient
      <4>2. QED BY <3>2, <4>1, NextVersion
    <3>4. EventOf(c, v - 1) # None
      BY <2>1, <3>1, <3>3 DEF Reaches
    <3>5. EventOf(c, v - 1)' # None
      BY <1>6, <2>1, <3>4
    <3>6. EventOf(c, v - 1)' = events'[v - 1]
      BY <1>4, <2>1 DEF EventOf
    <3>7. QED BY <3>5, <3>6
  <2>4. QED BY <2>2, <2>3
<1>12. QED BY <1>5, <1>7, <1>8, <1>9, <1>10, <1>11

LEMMA SaveFailedInv ==
  ASSUME IInv, NEW c \in Clients, SaveFailed(c)
  PROVE  IInv'
<1> USE DEF IInv
<1>1. /\ pend' = [pend EXCEPT ![c] = Nothing]
      /\ fate' = [fate EXCEPT ![c] = "lost"]
      /\ UNCHANGED <<stored, pc, ver, due, view, todo, seen, wentOn, truth>>
      /\ Record' = Record /\ Event' = Event
  BY DEF SaveFailed, stored, Record, Event
<1>2. /\ pend'[c] = Nothing /\ fate'[c] = "lost"
      /\ \A d \in Clients \ {c} : pend'[d] = pend[d] /\ fate'[d] = fate[d]
      /\ \A v \in Versions : Nothing[v] = None
      /\ Nothing' = Nothing
  BY <1>1 DEF TypeOK, Nothing
<1>3. TypeOK'
  <2>1. Nothing \in [Versions -> Event \cup {None}]
    BY DEF Nothing
  <2> HIDE DEF Nothing
  <2>2. QED BY <1>1, <2>1 DEF TypeOK, stored
<1>4. Known'
  BY <1>1, <1>2 DEF Known, stored
<1>5. Agree'
  BY <1>1, SameAgree
<1>6. \A d \in Clients \ {c} : \A v \in Versions : EventOf(d, v)' = EventOf(d, v)
  BY <1>1, <1>2 DEF EventOf, stored
<1>7. Chain'
  BY <1>1, <1>2, <1>6 DEF Chain, Before
<1>8. Reaches'
  BY <1>1, <1>2, <1>6 DEF Reaches
<1>9. NoGap'
  BY <1>1 DEF NoGap, stored
<1>10. QED BY <1>3, <1>4, <1>5, <1>7, <1>8, <1>9

-----------------------------------------------------------------------------
(* Loading. *)

(* A client gets another aggregate: none, or one that is what is known.       *)
LEMMA FreshInv ==
  ASSUME IInv, NEW c \in Clients, NEW n \in 0..MaxVersion, NEW rec \in Record \cup {None},
         Fresh(c, n, rec, None), UNCHANGED <<stored, wentOn, truth>>,
         n > 0 => rec # None /\ Same(rec, truth[n])
  PROVE  /\ ver' \in [Clients -> 0..MaxVersion]
         /\ seen' \in [Clients -> [Versions -> Record \cup {None}]]
         /\ pend' \in [Clients -> [Versions -> Event \cup {None}]]
         /\ fate' \in [Clients -> {"clean", "altered", "lost"}]
         /\ \A d \in Clients : ver'[d] > 0 => seen'[d][ver'[d]] # None
         /\ \A d \in Clients : \A v \in Versions :
              pend'[d][v] # None => /\ v <= ver'[d]
                                    /\ pend'[d][v].op = "create" <=> v = 1
                                    /\ \A w \in v..ver'[d] : pend'[d][w] # None
         /\ Chain' /\ Reaches' /\ NoGap'
<1> USE DEF IInv
<1>1. /\ ver' = [ver EXCEPT ![c] = n]
      /\ seen' = [seen EXCEPT ![c] = At(n, rec)]
      /\ pend' = [pend EXCEPT ![c] = At(n, None)]
      /\ fate' = [fate EXCEPT ![c] = "clean"]
  BY DEF Fresh
<1>2. /\ At(n, rec) \in [Versions -> Record \cup {None}]
      /\ At(n, None) \in [Versions -> Event \cup {None}]
      /\ \A v \in Versions : At(n, rec)[v] = IF v = n THEN rec ELSE None
      /\ \A v \in Versions : At(n, None)[v] = None
  BY DEF At
<1>3. /\ ver'[c] = n /\ seen'[c] = At(n, rec) /\ pend'[c] = At(n, None) /\ fate'[c] = "clean"
      /\ \A d \in Clients \ {c} : /\ ver'[d] = ver[d] /\ seen'[d] = seen[d]
                                 /\ pend'[d] = pend[d] /\ fate'[d] = fate[d]
  BY <1>1 DEF TypeOK
<1>4. n > 0 => n \in Versions
  BY VersionFacts
<1>5. /\ ver' \in [Clients -> 0..MaxVersion]
      /\ seen' \in [Clients -> [Versions -> Record \cup {None}]]
      /\ pend' \in [Clients -> [Versions -> Event \cup {None}]]
      /\ fate' \in [Clients -> {"clean", "altered", "lost"}]
  BY <1>1, <1>2 DEF TypeOK
<1>6. \A d \in Clients : ver'[d] > 0 => seen'[d][ver'[d]] # None
  BY <1>2, <1>3, <1>4 DEF Known
<1>7. \A d \in Clients : \A v \in Versions :
        pend'[d][v] # None => /\ v <= ver'[d]
                              /\ pend'[d][v].op = "create" <=> v = 1
                              /\ \A w \in v..ver'[d] : pend'[d][w] # None
  BY <1>2, <1>3 DEF Known
<1>8. \A d \in Clients \ {c} : \A v \in Versions : EventOf(d, v)' = EventOf(d, v)
  BY <1>3 DEF EventOf, stored
<1>9. \A v \in Versions : EventOf(c, v)' = events[v]
  BY <1>2, <1>3 DEF EventOf, stored
<1>10. n > 0 => \A v \in Versions : v <= n => events[v] # None
  <2> SUFFICES ASSUME n > 0, NEW v \in Versions, v <= n PROVE events[v] # None
    OBVIOUS
  <2>1. v \in 1..n
    BY VersionFacts
  <2>2. truth[v] # None
    <3>1. truth[n] # None
      BY SameKnown DEF TypeOK
    <3>2. QED BY <1>4, <2>1, <3>1 DEF Agree
  <2>3. QED BY <2>2 DEF Agree
<1>11. Chain'
  <2>1. ASSUME NEW v \in Versions, seen'[c][v] # None
        PROVE  /\ v <= n /\ EventOf(c, v)' # None /\ pend'[c][v] = None /\ Same(truth[v], seen'[c][v])
    <3>1. v = n /\ seen'[c][v] = rec
      BY <1>2, <1>3, <2>1
    <3>2. n > 0 /\ v <= n
      BY <3>1, VersionFacts
    <3>3. QED BY <1>2, <1>3, <1>9, <1>10, <3>1, <3>2 DEF Same
  <2>2. QED BY <1>3, <1>8, <2>1 DEF Chain, Before
<1>12. Reaches'
  <2>1. \A v \in Versions : v <= n => EventOf(c, v)' # None
    BY <1>9, <1>10, VersionFacts
  <2>2. Nothing' = Nothing
    BY DEF Nothing
  <2>3. QED BY <1>3, <1>8, <2>1, <2>2 DEF Reaches
<1>13. NoGap'
  BY DEF NoGap, stored
<1>14. QED BY <1>5, <1>6, <1>7, <1>11, <1>12, <1>13

(* What leaves the aggregates and the store alone keeps what is about them.   *)
LEMMA SameHeld ==
  ASSUME IInv, UNCHANGED <<stored, ver, pend, seen, fate, wentOn, truth>>
  PROVE  /\ ver' \in [Clients -> 0..MaxVersion]
         /\ seen' \in [Clients -> [Versions -> Record \cup {None}]]
         /\ pend' \in [Clients -> [Versions -> Event \cup {None}]]
         /\ fate' \in [Clients -> {"clean", "altered", "lost"}]
         /\ \A d \in Clients : ver'[d] > 0 => seen'[d][ver'[d]] # None
         /\ \A d \in Clients : \A v \in Versions :
              pend'[d][v] # None => /\ v <= ver'[d]
                                    /\ pend'[d][v].op = "create" <=> v = 1
                                    /\ \A w \in v..ver'[d] : pend'[d][w] # None
         /\ Chain' /\ Reaches' /\ NoGap'
<1>1. \A d \in Clients, v \in Versions : EventOf(d, v)' = EventOf(d, v)
  BY DEF EventOf, stored
<1>2. Nothing' = Nothing
  BY DEF Nothing
<1>3. Chain' /\ Reaches' /\ NoGap'
  BY <1>1, <1>2 DEF IInv, Chain, Reaches, NoGap, Before, stored
<1>4. QED BY <1>3 DEF IInv, TypeOK, Known

(* A load starts from what is known. *)
LEMMA StartView ==
  ASSUME IInv, NEW c \in Clients, NEW goal \in 0..MaxVersion, Start(c, goal), UNCHANGED <<stored, truth>>
  PROVE  /\ view' \in [Clients -> [ver : 0..MaxVersion, rec : Record \cup {None}, goal : 0..MaxVersion]]
         /\ pc' \in [Clients -> {"idle", "snapshot", "read", "replay"}]
         /\ \A d \in Clients : view'[d].ver > 0 => view'[d].rec # None
         /\ Agree'
<1> USE DEF IInv
<1>1. PICK n \in Latest(goal) :
        view' = [view EXCEPT ![c] = [ver |-> n, rec |-> IF n = 0 THEN None ELSE snaps[n], goal |-> goal]]
  BY DEF Start
<1>2. n \in 0..MaxVersion /\ (n # 0 => n \in Versions /\ snaps[n] # None /\ snaps[n] \in Record)
  <2>1. n \in 0..goal /\ (n = 0 \/ snaps[n] # None)
    BY DEF Latest
  <2>2. n \in 0..MaxVersion /\ (n # 0 => n \in Versions)
    BY <2>1, VersionFacts
  <2>3. QED BY <2>1, <2>2 DEF TypeOK
<1> DEFINE new == [ver |-> n, rec |-> IF n = 0 THEN None ELSE snaps[n], goal |-> goal]
<1>3. /\ new \in [ver : 0..MaxVersion, rec : Record \cup {None}, goal : 0..MaxVersion]
      /\ new.ver > 0 => new.rec # None /\ Same(new.rec, truth[new.ver])
  <2>1. n # 0 => Same(snaps[n], truth[n])
    <3> SUFFICES ASSUME n # 0 PROVE Same(snaps[n], truth[n])
      OBVIOUS
    <3>1. snaps[n] = RecordJson(truth[n]) /\ truth[n] \in Record
      <4>1. snaps[n] = RecordJson(truth[n])
        BY <1>2 DEF Agree, SnapshotsAgree
      <4>2. RecordJson(None) = None
        BY NoneAssumption DEF RecordJson
      <4>3. QED BY <1>2, <4>1, <4>2 DEF TypeOK
    <3>2. QED BY <3>1, RecordJsonFacts DEF Same, TypeOK
  <2>2. QED BY <1>2, <2>1
<1> HIDE DEF new
<1>4. view' = [view EXCEPT ![c] = new]
  BY <1>1 DEF new
<1>5. view'[c] = new /\ \A d \in Clients \ {c} : view'[d] = view[d]
  BY <1>4 DEF TypeOK
<1>6. \A d \in Clients : view'[d].ver > 0 => view'[d].rec # None /\ Same(view'[d].rec, truth[view'[d].ver])
  BY <1>3, <1>5 DEF Agree, Known
<1>7. Agree'
  BY <1>6 DEF Agree, SnapshotsAgree, Before, stored
<1>8. QED BY <1>3, <1>4, <1>6, <1>7 DEF TypeOK, Start

(* A load is over: there is nothing under way. *)
LEMMA NoViewLeft ==
  ASSUME IInv, NEW c \in Clients, view' = [view EXCEPT ![c] = NoView]
  PROVE  /\ view' \in [Clients -> [ver : 0..MaxVersion, rec : Record \cup {None}, goal : 0..MaxVersion]]
         /\ \A d \in Clients : view'[d].ver > 0 => view'[d] = view[d]
<1>1. NoView \in [ver : 0..MaxVersion, rec : Record \cup {None}, goal : 0..MaxVersion] /\ NoView.ver = 0
  BY IntervalAssumption DEF NoView
<1> HIDE DEF NoView
<1>2. view'[c] = NoView /\ \A d \in Clients \ {c} : view'[d] = view[d]
  BY DEF IInv, TypeOK
<1>3. QED BY <1>1, <1>2 DEF IInv, TypeOK

LEMMA LoadInv ==
  ASSUME IInv, NEW c \in Clients, Load(c)
  PROVE  IInv'
<1> USE DEF IInv
<1>1. /\ Fresh(c, 0, None, None) /\ Start(c, MaxVersion)
      /\ UNCHANGED <<stored, due, todo, wentOn, truth>>
      /\ Record' = Record /\ Event' = Event
  BY DEF Load, stored, Record, Event
<1>2. 0 \in 0..MaxVersion /\ MaxVersion \in 0..MaxVersion
  BY IntervalAssumption
<1>3. QED BY <1>1, <1>2, FreshInv, StartView DEF TypeOK, Known, stored

LEMMA SnapshotInv ==
  ASSUME IInv, NEW c \in Clients, Snapshot(c)
  PROVE  IInv'
<1> USE DEF IInv
<1>1. PICK v \in due[c] : Start(c, v)
  BY DEF Snapshot
<1>2. v \in 0..MaxVersion
  BY OneClient, VersionFacts
<1>3. UNCHANGED <<stored, ver, pend, due, todo, seen, fate, wentOn, truth>> /\ Record' = Record /\ Event' = Event
  BY DEF Snapshot, stored, Record, Event
<1>4. QED BY <1>1, <1>2, <1>3, SameHeld, StartView DEF TypeOK, Known, stored

LEMMA ReadInv ==
  ASSUME IInv, NEW c \in Clients, Read(c)
  PROVE  IInv'
<1> USE DEF IInv
<1>1. /\ todo' = [todo EXCEPT ![c] = EventsAfter(view[c].ver, view[c].goal)]
      /\ pc' = [pc EXCEPT ![c] = "replay"]
      /\ UNCHANGED <<stored, ver, pend, due, view, seen, fate, wentOn, truth>>
      /\ Record' = Record /\ Event' = Event
  BY DEF Read, stored, Record, Event
<1>2. /\ EventsAfter(view[c].ver, view[c].goal) \in SUBSET Versions
      /\ \A w \in EventsAfter(view[c].ver, view[c].goal) : events[w] # None
  BY DEF EventsAfter
<1>3. todo' \in [Clients -> SUBSET Versions] /\ \A d \in Clients : \A w \in todo'[d] : events[w] # None
  BY <1>1, <1>2 DEF TypeOK, Known
<1>4. pc' \in [Clients -> {"idle", "snapshot", "read", "replay"}]
  BY <1>1 DEF TypeOK
<1>5. QED BY <1>1, <1>3, <1>4, SameHeld, SameAgree DEF TypeOK, Known, stored

(* The step of a replay stays with what is known, since what is known goes as *)
(* far as the events do.                                                      *)
LEMMA ReplayInv ==
  ASSUME IInv, Behind = {}, NEW c \in Clients, Replay(c)
  PROVE  IInv'
<1> USE DEF IInv
<1>0. PICK next \in Nat : next = view[c].ver + 1
  <2>1. view[c].ver \in Nat
    BY OneClient
  <2>2. QED BY <2>1, NextVersion
<1> DEFINE rec == Applied(events[next], view[c].rec)
           new == [ver |-> next, rec |-> rec, goal |-> view[c].goal]
<1>1. /\ next \in todo[c]
      /\ view' = [view EXCEPT ![c] = new]
      /\ todo' = [todo EXCEPT ![c] = todo[c] \ {next}]
      /\ UNCHANGED <<stored, pc, ver, pend, due, seen, fate, wentOn, truth>>
      /\ Record' = Record /\ Event' = Event
  BY <1>0 DEF Replay, stored, Record, Event, TypeOK
<1>2. /\ next \in Versions /\ events[next] # None /\ events[next] \in Event
      /\ next - 1 = view[c].ver /\ next >= 1
      /\ next # 1 => view[c].ver > 0
  <2>1. next \in Versions /\ events[next] # None
    BY <1>1, OneClient DEF Known
  <2>2. QED BY <1>0, <2>1, OneClient, VersionFacts DEF TypeOK
<1>3. next # 1 => /\ Same(view[c].rec, truth[next - 1]) /\ truth[next - 1] # None
                  /\ view[c].rec \in Record /\ truth[next - 1] \in Record
  <2> SUFFICES ASSUME next # 1
               PROVE  /\ Same(view[c].rec, truth[next - 1]) /\ truth[next - 1] # None
                      /\ view[c].rec \in Record /\ truth[next - 1] \in Record
    OBVIOUS
  <2>1. Same(view[c].rec, truth[next - 1]) /\ view[c].rec \in Record
    BY <1>2, OneClient DEF Agree, Known
  <2>2. truth[next - 1] # None
    BY <2>1, SameKnown DEF TypeOK
  <2>3. QED BY <1>2, <2>1, <2>2, VersionFacts DEF TypeOK
<1>4. truth[next] # None
  BY <1>2, <1>3 DEF Behind
<1>5. Same(rec, truth[next]) /\ rec \in Record /\ rec # None
  <2>1. truth[next] = Applied(events[next], Before(truth, next))
    BY <1>2, <1>4 DEF Agree
  <2>2. CASE next = 1
    <3>1. events[next].op = "create"
      BY <1>2, <2>2 DEF Known
    <3>2. QED BY <1>2, <2>1, <3>1, AppliedType, NoneIsNothing DEF Applied, Same, TypeOK
  <2>3. CASE next # 1
    <3>1. truth[next] = Applied(events[next], truth[next - 1])
      BY <2>1, <2>3 DEF Before
    <3>2. Same(rec, Applied(events[next], truth[next - 1]))
      BY <1>2, <1>3, <2>3, SameApplied DEF TypeOK
    <3>3. rec \in Record /\ rec # None
      BY <1>2, <1>3, <2>3, AppliedType, NoneIsNothing DEF TypeOK
    <3> HIDE DEF rec
    <3>4. QED BY <3>1, <3>2, <3>3
  <2>4. QED BY <2>2, <2>3
<1>6. /\ new \in [ver : 0..MaxVersion, rec : Record \cup {None}, goal : 0..MaxVersion]
      /\ new.ver > 0 => new.rec # None /\ Same(new.rec, truth[new.ver])
  <2>2. next \in 0..MaxVersion /\ view[c].goal \in 0..MaxVersion
    BY <1>2, OneClient, VersionFacts
  <2> HIDE DEF rec
  <2>3. QED BY <1>5, <2>2
<1> HIDE DEF new, rec
<1>7. view'[c] = new /\ \A d \in Clients \ {c} : view'[d] = view[d]
  BY <1>1 DEF TypeOK
<1>8. \A d \in Clients : view'[d].ver > 0 => view'[d].rec # None /\ Same(view'[d].rec, truth[view'[d].ver])
  BY <1>6, <1>7 DEF Agree, Known
<1>9. view' \in [Clients -> [ver : 0..MaxVersion, rec : Record \cup {None}, goal : 0..MaxVersion]]
  BY <1>1, <1>6 DEF TypeOK
<1>10. Agree'
  BY <1>1, <1>8 DEF Agree, SnapshotsAgree, Before, stored
<1>11. todo' \in [Clients -> SUBSET Versions] /\ \A d \in Clients : \A w \in todo'[d] : events[w] # None
  BY <1>1 DEF TypeOK, Known
<1>12. QED BY <1>1, <1>8, <1>9, <1>10, <1>11, SameHeld DEF TypeOK, Known, stored

LEMMA LoadDoneInv ==
  ASSUME IInv, NEW c \in Clients, LoadDone(c)
  PROVE  IInv'
<1> USE DEF IInv
<1>1. /\ view[c].ver > 0
      /\ Fresh(c, view[c].ver, view[c].rec, None)
      /\ view' = [view EXCEPT ![c] = NoView]
      /\ pc' = [pc EXCEPT ![c] = "idle"]
      /\ UNCHANGED <<stored, due, todo, wentOn, truth>>
      /\ Record' = Record /\ Event' = Event
  BY DEF LoadDone, Loaded, stored, Record, Event
<1>2. /\ view[c].ver \in 0..MaxVersion /\ view[c].rec \in Record \cup {None}
      /\ view[c].rec # None /\ Same(view[c].rec, truth[view[c].ver])
  BY <1>1, OneClient DEF Known, Agree
<1>3. pc' \in [Clients -> {"idle", "snapshot", "read", "replay"}]
  BY <1>1 DEF TypeOK
<1>0. /\ view' \in [Clients -> [ver : 0..MaxVersion, rec : Record \cup {None}, goal : 0..MaxVersion]]
      /\ \A d \in Clients : view'[d].ver > 0 => view'[d] = view[d]
  BY <1>1, NoViewLeft
<1>4. Agree' /\ \A d \in Clients : view'[d].ver > 0 => view'[d].rec # None
  BY <1>0, <1>1 DEF Agree, SnapshotsAgree, Before, Known, stored
<1>5. QED BY <1>0, <1>1, <1>2, <1>3, <1>4, FreshInv DEF TypeOK, Known, stored

(* The snapshot that is stored is a load, hence what is known. *)
LEMMA SnapshotDoneInv ==
  ASSUME IInv, NEW c \in Clients, SnapshotDone(c)
  PROVE  IInv'
<1> USE DEF IInv
<1>1. /\ view[c].ver > 0
      /\ snaps' = [snaps EXCEPT ![view[c].ver] = RecordJson(view[c].rec)]
      /\ view' = [view EXCEPT ![c] = NoView]
      /\ due' = [due EXCEPT ![c] = @ \ {view[c].goal}]
      /\ pc' = [pc EXCEPT ![c] = IF due'[c] = {} THEN "idle" ELSE "snapshot"]
      /\ UNCHANGED <<kind, menu, events, ver, pend, todo, seen, fate, wentOn, truth>>
      /\ Record' = Record /\ Event' = Event
  BY DEF SnapshotDone, Loaded, Taken, Record, Event
<1>2. view[c].ver \in Versions /\ RecordJson(view[c].rec) \in Record /\ Same(view[c].rec, truth[view[c].ver])
  <2>1. view[c].ver \in Versions /\ view[c].rec \in Record /\ Same(view[c].rec, truth[view[c].ver])
    BY <1>1, OneClient DEF Agree, Known
  <2>2. QED BY <2>1, RecordJsonFacts DEF TypeOK
<1>3. /\ snaps' \in [Versions -> Record \cup {None}]
      /\ due' \in [Clients -> SUBSET Versions]
      /\ pc' \in [Clients -> {"idle", "snapshot", "read", "replay"}]
  BY <1>1, <1>2 DEF TypeOK
<1>4. SnapshotsAgree'
  BY <1>1, <1>2 DEF SnapshotsAgree, Agree, TypeOK, Same
<1>0. /\ view' \in [Clients -> [ver : 0..MaxVersion, rec : Record \cup {None}, goal : 0..MaxVersion]]
      /\ \A d \in Clients : view'[d].ver > 0 => view'[d] = view[d]
  BY <1>1, NoViewLeft
<1>5. Agree' /\ \A d \in Clients : view'[d].ver > 0 => view'[d].rec # None
  BY <1>0, <1>1, <1>4 DEF Agree, Before, Known
<1>6. \A d \in Clients, v \in Versions : EventOf(d, v)' = EventOf(d, v)
  BY <1>1 DEF EventOf
<1>7. Chain' /\ Reaches' /\ NoGap'
  BY <1>1, <1>6 DEF Chain, Reaches, NoGap, Before, Nothing
<1>8. QED BY <1>0, <1>1, <1>3, <1>5, <1>7 DEF TypeOK, Known

LEMMA LoadFailedInv ==
  ASSUME IInv, NEW c \in Clients, LoadFailed(c)
  PROVE  IInv'
<1> USE DEF IInv
<1>1. /\ view' = [view EXCEPT ![c] = NoView]
      /\ todo' = [todo EXCEPT ![c] = {}]
      /\ due' = [due EXCEPT ![c] = {}]
      /\ pc' = [pc EXCEPT ![c] = "idle"]
      /\ UNCHANGED <<stored, ver, pend, seen, fate, wentOn, truth>>
      /\ Record' = Record /\ Event' = Event
  BY DEF LoadFailed, stored, Record, Event
<1>2. /\ due' \in [Clients -> SUBSET Versions]
      /\ pc' \in [Clients -> {"idle", "snapshot", "read", "replay"}]
      /\ todo' \in [Clients -> SUBSET Versions] /\ \A d \in Clients : \A w \in todo'[d] : events[w] # None
  BY <1>1 DEF TypeOK, Known
<1>0. /\ view' \in [Clients -> [ver : 0..MaxVersion, rec : Record \cup {None}, goal : 0..MaxVersion]]
      /\ \A d \in Clients : view'[d].ver > 0 => view'[d] = view[d]
  BY <1>1, NoViewLeft
<1>3. Agree' /\ \A d \in Clients : view'[d].ver > 0 => view'[d].rec # None
  BY <1>0, <1>1 DEF Agree, SnapshotsAgree, Before, Known, stored
<1>4. QED BY <1>0, <1>1, <1>2, <1>3, SameHeld DEF TypeOK, Known, stored

LEMMA CrashInv ==
  ASSUME IInv, NEW c \in Clients, Crash(c)
  PROVE  IInv'
<1> USE DEF IInv
<1>1. /\ Fresh(c, 0, None, None)
      /\ view' = [view EXCEPT ![c] = NoView]
      /\ todo' = [todo EXCEPT ![c] = {}]
      /\ due' = [due EXCEPT ![c] = {}]
      /\ pc' = [pc EXCEPT ![c] = "idle"]
      /\ UNCHANGED <<stored, wentOn, truth>>
      /\ Record' = Record /\ Event' = Event
  BY DEF Crash, stored, Record, Event
<1>2. /\ due' \in [Clients -> SUBSET Versions]
      /\ pc' \in [Clients -> {"idle", "snapshot", "read", "replay"}]
      /\ todo' \in [Clients -> SUBSET Versions] /\ \A d \in Clients : \A w \in todo'[d] : events[w] # None
  BY <1>1 DEF TypeOK, Known
<1>0. /\ view' \in [Clients -> [ver : 0..MaxVersion, rec : Record \cup {None}, goal : 0..MaxVersion]]
      /\ \A d \in Clients : view'[d].ver > 0 => view'[d] = view[d]
  BY <1>1, NoViewLeft
<1>3. Agree' /\ \A d \in Clients : view'[d].ver > 0 => view'[d].rec # None
  BY <1>0, <1>1 DEF Agree, SnapshotsAgree, Before, Known, stored
<1>4. 0 \in 0..MaxVersion
  BY IntervalAssumption
<1>5. QED BY <1>0, <1>1, <1>2, <1>3, <1>4, FreshInv DEF TypeOK, Known, stored

-----------------------------------------------------------------------------
(* The theorems. *)

(* The events that commands make. *)
LEMMA CommandEvents ==
  ASSUME TypeOK, NEW c \in Clients,
         \/ Preprocess(c) \/ OcrCompleted(c) \/ GtMapped(c) \/ LabelerEdited(c) \/ Exported(c)
         \/ RotationUpdated(c) \/ ExtensionRecorded(c)
         \/ AddPage(c) \/ ReorderPages(c) \/ RemovePage(c) \/ ProjectExported(c)
  PROVE  \E event \in Event : event.op # "create" /\ Command(c, event)
<1>1. ASSUME NEW event, Command(c, event) PROVE event \in Event
  BY <1>1 DEF Command, TypeOK
<1>2. CASE Preprocess(c) \/ OcrCompleted(c)
  BY <1>1, <1>2 DEF Preprocess, OcrCompleted
<1>3. CASE GtMapped(c) \/ LabelerEdited(c) \/ Exported(c)
  <2>1. \A edit \in Edits : edit.op = "edit"
    BY DEF Edits
  <2>2. QED BY <1>1, <1>3, <2>1 DEF GtMapped, LabelerEdited, Exported
<1>4. CASE RotationUpdated(c) \/ ExtensionRecorded(c)
  BY <1>1, <1>4 DEF RotationUpdated, ExtensionRecorded
<1>5. CASE AddPage(c) \/ ReorderPages(c) \/ RemovePage(c) \/ ProjectExported(c)
  BY <1>1, <1>5 DEF AddPage, ReorderPages, RemovePage, ProjectExported
<1>6. QED BY <1>2, <1>3, <1>4, <1>5

(* The changes that no event tells. *)
LEMMA Alterations ==
  ASSUME IInv, NEW c \in Clients, LabelerEditRejected(c) \/ ExtensionSetDirectly(c)
  PROVE  /\ ver[c] \in Versions /\ seen[c][ver[c]] # None /\ seen[c][ver[c]] \in PageRecord
         /\ Record = PageRecord
         /\ \E event : Altered(c, event)
         /\ \E rec \in PageRecord :
              /\ seen' = [seen EXCEPT ![c] = [seen[c] EXCEPT ![ver[c]] = rec]]
              /\ \/ \E node \in ProvenanceNode :
                      rec = NodeApplied(seen[c][ver[c]], node)
                 \/ \E data \in Values : rec = [seen[c][ver[c]] EXCEPT !.ext = data]
<1> USE DEF IInv
<1>1. kind = "page" /\ ver[c] > 0 /\ \E event : Altered(c, event)
  BY DEF LabelerEditRejected, ExtensionSetDirectly, Altered
<1>2. /\ ver[c] \in Versions /\ seen[c][ver[c]] # None /\ seen[c][ver[c]] \in PageRecord
      /\ Record = PageRecord
  <2>1. Record = PageRecord
    BY <1>1 DEF Record
  <2>2. ver[c] \in Versions /\ seen[c][ver[c]] # None
    BY <1>1, OneClient DEF Known
  <2>3. seen[c][ver[c]] \in Record
    BY <2>2, OneClient
  <2>4. QED BY <2>1, <2>2, <2>3
<1>3. CASE LabelerEditRejected(c)
  <2>1. PICK edit \in Edits : seen' = [seen EXCEPT ![c][ver[c]] = NodeApplied(@, edit.node)]
    BY <1>3 DEF LabelerEditRejected
  <2> DEFINE node == edit.node
  <2>2. node \in ProvenanceNode
    BY NodesAssumption DEF Edits
  <2> HIDE DEF node
  <2>3. NodeApplied(seen[c][ver[c]], node) \in PageRecord
    BY <1>2, <2>2, NodeAppliedFields
  <2>4. seen' = [seen EXCEPT ![c] = [seen[c] EXCEPT ![ver[c]] = NodeApplied(seen[c][ver[c]], node)]]
    BY <1>2, <2>1 DEF TypeOK, node
  <2>5. QED BY <1>1, <1>2, <2>2, <2>3, <2>4
<1>4. CASE ExtensionSetDirectly(c)
  <2>1. PICK data \in Values : seen' = [seen EXCEPT ![c][ver[c]].ext = data]
    BY <1>4, ValuesAssumption DEF ExtensionSetDirectly
  <2> DEFINE rec == [seen[c][ver[c]] EXCEPT !.ext = data]
  <2>2. rec \in PageRecord
    BY <1>2 DEF PageRecord
  <2>3. seen' = [seen EXCEPT ![c] = [seen[c] EXCEPT ![ver[c]] = rec]]
    BY <1>2, <2>1 DEF TypeOK
  <2>4. QED BY <1>1, <1>2, <2>2, <2>3
<1>5. QED BY <1>3, <1>4

(* Every step keeps the invariant. *)
LEMMA NextInv ==
  ASSUME IInv, [Next]_vars
  PROVE  IInv'
<1>1. CASE UNCHANGED vars
  BY <1>1 DEF vars, stored, client, IInv, TypeOK, Record, Event, Known, Agree, SnapshotsAgree, Before,
              Chain, EventOf, Reaches, NoGap, Nothing
<1>2. CASE CatchUp
  BY <1>2, CatchUpInv
<1>3. CASE Behind = {} /\ \E c \in Clients : Client(c)
  <2>1. PICK c \in Clients : Client(c)
    BY <1>3
  <2>2. CASE \/ Preprocess(c) \/ OcrCompleted(c) \/ GtMapped(c) \/ LabelerEdited(c) \/ Exported(c)
             \/ RotationUpdated(c) \/ ExtensionRecorded(c)
             \/ AddPage(c) \/ ReorderPages(c) \/ RemovePage(c) \/ ProjectExported(c)
    BY <2>2, CommandEvents, CommandInv DEF IInv
  <2>3. CASE LabelerEditRejected(c) \/ ExtensionSetDirectly(c)
    <3>1. /\ Record = PageRecord
          /\ \E event : Altered(c, event)
          /\ \E rec \in PageRecord : seen' = [seen EXCEPT ![c] = [seen[c] EXCEPT ![ver[c]] = rec]]
      BY <2>3, Alterations
    <3>2. PICK event : Altered(c, event)
      BY <3>1
    <3>3. PICK rec \in Record : seen' = [seen EXCEPT ![c] = [seen[c] EXCEPT ![ver[c]] = rec]]
      BY <3>1
    <3>4. QED BY <3>2, <3>3, AlteredInv
  <2>4. CASE Create(c) \/ SaveStored(c) \/ SaveFailed(c)
    BY <2>4, CreateInv, SaveStoredInv, SaveFailedInv
  <2>5. CASE Load(c) \/ Snapshot(c) \/ Read(c) \/ Replay(c)
    BY <1>3, <2>5, LoadInv, SnapshotInv, ReadInv, ReplayInv
  <2>6. CASE LoadDone(c) \/ SnapshotDone(c) \/ LoadFailed(c) \/ Crash(c)
    BY <2>6, LoadDoneInv, SnapshotDoneInv, LoadFailedInv, CrashInv
  <2>7. QED BY <2>1, <2>2, <2>3, <2>4, <2>5, <2>6 DEF Client
<1>4. QED BY <1>1, <1>2, <1>3 DEF Next

THEOREM Invariance == Spec => []IInv
<1>1. QED BY InitInv, NextInv, PTL DEF Spec

(* Every variable keeps the shape the code gives it. *)
THEOREM TypeCorrectness == Spec => []TypeOK
<1>1. IInv => TypeOK
  BY DEF IInv
<1>2. QED BY <1>1, Invariance, PTL

(* A snapshot is what all the events up to its version give, as JSON, so a    *)
(* load that starts from it gives what a load without it would, but for the   *)
(* types that JSON does not keep (page_aggregate.py:279).                     *)
THEOREM SnapshotsAlwaysAgree == Spec => []SnapshotsAgree
<1>1. IInv => SnapshotsAgree
  BY DEF IInv, Agree
<1>2. QED BY <1>1, Invariance, PTL

(* The stored versions have no gap unless a client went on with an aggregate  *)
(* whose events a save had lost.                                              *)
THEOREM VersionsHaveNoGap == Spec => []NoGap
<1>1. IInv => NoGap
  BY DEF IInv
<1>2. QED BY <1>1, Invariance, PTL

(* When nothing is left to replay, everything below an event is known.        *)
LEMMA KnownBelow ==
  ASSUME IInv, Behind = {}, NEW n \in Versions, \A v \in Versions : v <= n => events[v] # None
  PROVE  truth[n] # None
<1> USE DEF IInv
<1> SUFFICES ASSUME truth[n] = None PROVE FALSE
  OBVIOUS
<1> DEFINE T == {v \in Versions : v <= n /\ truth[v] = None}
<1>1. n \in T /\ T \in SUBSET Nat
  BY VersionFacts
<1>2. PICK m \in T : \A v \in T : m <= v
  <2> HIDE DEF T
  <2>1. QED BY <1>1, LeastOf
<1>3. m \in Versions /\ m <= n /\ truth[m] = None /\ events[m] # None /\ m \in Nat /\ n \in Nat
  BY <1>2, VersionFacts
<1>4. m # 1 => truth[m - 1] # None
  <2>1. m # 1 => m - 1 \in Versions /\ m - 1 <= n /\ ~ (m <= m - 1)
    BY <1>3, VersionFacts
  <2>2. QED BY <1>2, <2>1
<1>5. m \in Behind
  BY <1>3, <1>4 DEF Behind
<1>6. QED BY <1>5

(* An aggregate whose calls and saves all succeeded and that is saved is what *)
(* a load of its version gives, but for the types that JSON does not keep.    *)
THEOREM SavedAggregatesAreReloaded == Spec => []SavedIsReloaded
<1>1. ASSUME IInv PROVE SavedIsReloaded
  <2> USE <1>1 DEF IInv
  <2> SUFFICES ASSUME NEW c \in Clients, Behind = {}, ver[c] > 0, fate[c] = "clean", Pending(c) = {}
               PROVE  Same(truth[ver[c]], seen[c][ver[c]])
    BY DEF SavedIsReloaded, Same
  <2>1. ver[c] \in Versions /\ seen[c][ver[c]] # None /\ \A v \in Versions : pend[c][v] = None
    BY OneClient DEF Known, Pending
  <2>2. \A v \in Versions : v <= ver[c] => events[v] # None
    BY <2>1 DEF Reaches, EventOf
  <2>3. truth[ver[c]] # None
    BY <2>1, <2>2, KnownBelow
  <2>4. QED BY <2>1, <2>3 DEF Chain
<1>2. QED BY <1>1, Invariance, PTL

-----------------------------------------------------------------------------
(* Coherence of the records of a page. *)

(* Inserting a node keeps a record coherent; so does noting it in the         *)
(* changelog.                                                                 *)
LEMMA NodeAppliedCoherent ==
  ASSUME NEW rec \in PageRecord, Coherent(rec), NEW node \in ProvenanceNode
  PROVE  /\ Coherent(NodeApplied(rec, node))
         /\ \A changes \in Values : Coherent(Edited(rec, node, changes))
<1> DEFINE new == NodeApplied(rec, node)
           old == rec.history
           log == rec.changelog
<1>1. /\ new.nodes = [rec.nodes EXCEPT ![node.id] = node] /\ new.head = node.id
      /\ new.history = Append(old, node.id) /\ new.changelog = log
  BY NodeAppliedFields
<1>2. /\ node.id \in NodeIds /\ node # Absent /\ rec.nodes \in [NodeIds -> ProvenanceNode \cup {Absent}]
      /\ old \in Seq(NodeIds) /\ log \in Seq([node : NodeIds, changes : Values])
  BY NoneAssumption DEF PageRecord, ProvenanceNode
<1>3. /\ \A i \in 1..Len(old) : rec.nodes[old[i]] # Absent
      /\ \A i \in 1..Len(log) : \E j \in 1..Len(old) : log[i].node = old[j]
  BY DEF Coherent
<1> HIDE DEF new, old, log
<1>4. /\ Len(new.history) = Len(old) + 1 /\ new.history[Len(old) + 1] = node.id
      /\ \A i \in 1..Len(old) : new.history[i] = old[i] /\ old[i] \in NodeIds
      /\ Len(old) \in Nat /\ new.history # <<>>
  <2>1. /\ Len(new.history) = Len(old) + 1 /\ new.history[Len(old) + 1] = node.id
        /\ \A i \in 1..Len(old) : new.history[i] = old[i]
        /\ new.history \in Seq(NodeIds)
    BY <1>1, <1>2, AppendProperties
  <2>2. Len(old) \in Nat /\ \A i \in 1..Len(old) : old[i] \in NodeIds
    BY <1>2, LenProperties, ElementOfSeq
  <2>3. new.history # <<>>
    <3>1. Len(<<>>) = 0
      OBVIOUS
    <3>2. Len(new.history) # 0
      BY <2>1, <2>2
    <3>3. QED BY <3>1, <3>2
  <2>4. QED BY <2>1, <2>2, <2>3
<1>5. new.head = IF new.history = <<>> THEN None ELSE new.history[Len(new.history)]
  BY <1>1, <1>4
<1>6. \A i \in 1..Len(new.history) : new.nodes[new.history[i]] # Absent
  <2> SUFFICES ASSUME NEW i \in 1..Len(new.history) PROVE new.nodes[new.history[i]] # Absent
    OBVIOUS
  <2>1. CASE i = Len(old) + 1
    BY <1>1, <1>2, <1>4, <2>1
  <2>2. CASE i \in 1..Len(old)
    BY <1>1, <1>2, <1>3, <1>4, <2>2
  <2>3. QED BY <1>4, <2>1, <2>2
<1>7. \A i \in 1..Len(log) : \E j \in 1..Len(new.history) : log[i].node = new.history[j]
  BY <1>3, <1>4
<1>8. Coherent(new)
  BY <1>1, <1>5, <1>6, <1>7 DEF Coherent
<1>9. ASSUME NEW changes \in Values PROVE Coherent(Edited(rec, node, changes))
  <2> DEFINE noted == Edited(rec, node, changes)
             entry == Noted(node, changes)
  <2>1. /\ noted.head = new.head /\ noted.history = new.history /\ noted.nodes = new.nodes
        /\ noted.changelog = Append(log, entry)
    BY <1>1, <1>9, EditedFields DEF new, old, log
  <2>2. entry \in [node : NodeIds, changes : Values] /\ entry.node = node.id
    BY <1>2, <1>9 DEF Noted
  <2> HIDE DEF noted, entry
  <2>3. /\ Len(noted.changelog) = Len(log) + 1 /\ noted.changelog[Len(log) + 1] = entry
        /\ \A k \in 1..Len(log) : noted.changelog[k] = log[k]
        /\ Len(log) \in Nat
    BY <1>2, <2>1, <2>2, AppendProperties, LenProperties
  <2>4. \A i \in 1..Len(noted.changelog) :
          \E j \in 1..Len(new.history) : noted.changelog[i].node = new.history[j]
    <3> SUFFICES ASSUME NEW i \in 1..Len(noted.changelog)
                 PROVE  \E j \in 1..Len(new.history) : noted.changelog[i].node = new.history[j]
      OBVIOUS
    <3>1. CASE i = Len(log) + 1
      <4>1. noted.changelog[i].node = new.history[Len(old) + 1]
        BY <1>4, <2>2, <2>3, <3>1
      <4>2. Len(old) + 1 \in 1..Len(new.history)
        BY <1>4
      <4>3. QED BY <4>1, <4>2
    <3>2. CASE i \in 1..Len(log)
      BY <1>7, <2>3, <3>2
    <3>3. QED BY <2>3, <3>1, <3>2
  <2>5. Coherent(noted)
    BY <1>5, <1>6, <2>1, <2>4 DEF Coherent
  <2>6. QED BY <2>5 DEF noted
<1>10. QED BY <1>8, <1>9 DEF new

(* JSON keeps a record coherent: it leaves the ids alone.                     *)
LEMMA CoherentJson ==
  ASSUME NEW rec \in PageRecord, Coherent(rec)
  PROVE  Coherent(RecordJson(rec))
<1> DEFINE json == RecordJson(rec)
           log  == rec.changelog
<1>1. /\ json.nodes = NodesJson(rec.nodes) /\ json.head = rec.head /\ json.history = rec.history
      /\ json.changelog = LogJson(log)
  BY RecordJsonFields
<1>2. /\ rec.nodes \in [NodeIds -> ProvenanceNode \cup {Absent}] /\ rec.history \in Seq(NodeIds)
      /\ log \in Seq([node : NodeIds, changes : Values])
  BY DEF PageRecord
<1> HIDE DEF json, log
<1>3. \A n \in NodeIds : json.nodes[n] = Absent <=> rec.nodes[n] = Absent
  BY <1>1, <1>2, NodesJsonFacts
<1>4. Len(json.changelog) = Len(log) /\ \A i \in 1..Len(log) : json.changelog[i].node = log[i].node
  <2>1. Len(LogJson(log)) = Len(log) /\ \A i \in 1..Len(log) : LogJson(log)[i] = EntryJson(log[i])
    BY <1>2, LogJsonFacts
  <2>2. \A i \in 1..Len(log) : log[i] \in [node : NodeIds, changes : Values]
    BY <1>2, ElementOfSeq
  <2>3. \A i \in 1..Len(log) : EntryJson(log[i]).node = log[i].node
    BY <2>2, EntryJsonFacts
  <2>4. QED BY <1>1, <2>1, <2>3
<1>5. \A i \in 1..Len(rec.history) : rec.history[i] \in NodeIds
  BY <1>2
<1>6. Coherent(json)
  BY <1>1, <1>3, <1>4, <1>5 DEF Coherent, log
<1>7. QED BY <1>6 DEF json

(* An event that makes a page makes it of a coherent record. *)
Proper(event) == event.op = "create" => Coherent(event.record)

(* Such an event keeps a record coherent, and so it is after its conversion.  *)
LEMMA AppliedCoherent ==
  ASSUME NEW event \in PageEvent, Proper(event), NEW rec,
         event.op # "create" => rec \in PageRecord /\ Coherent(rec)
  PROVE  Coherent(Applied(event, rec))
<1>1. ASSUME rec \in PageRecord, Coherent(rec)
      PROVE  /\ \A to \in Rotations : Coherent([rec EXCEPT !.rotation = to])
             /\ \A data \in Values : Coherent([rec EXCEPT !.ext = data])
             /\ [rec EXCEPT !.failed = FALSE] \in PageRecord
             /\ Coherent([rec EXCEPT !.failed = FALSE])
  BY <1>1 DEF PageRecord, Coherent
<1>2. ASSUME rec \in PageRecord, Coherent(rec), NEW node \in ProvenanceNode
      PROVE  /\ Coherent(NodeApplied(rec, node))
             /\ Coherent(NodeApplied([rec EXCEPT !.failed = FALSE], node))
             /\ \A changes \in Values : Coherent(Edited(rec, node, changes))
  BY <1>1, <1>2, NodeAppliedCoherent
<1>3. QED BY <1>1, <1>2, PageApplied DEF Proper

LEMMA ProperCoded ==
  ASSUME kind = "page", NEW event \in Event, Proper(event)
  PROVE  Proper(EventCoded(event))
<1>1. event \in PageEvent
  BY DEF Event
<1>2. CASE event.op = "create"
  <2>1. event \in [op : {"create"}, record : PageRecord]
    BY <1>1, <1>2 DEF PageEvent
  <2>2. EventCoded(event).record = RecordJson(event.record)
    BY <2>1 DEF EventCoded
  <2>3. QED BY <1>2, <2>1, <2>2, CoherentJson DEF Proper
<1>3. CASE event.op # "create"
  BY <1>3, EventCodedFacts DEF Proper
<1>4. QED BY <1>2, <1>3

(* Every record there is is coherent, and will be. *)
AllCoherent ==
  /\ \A event \in menu : Proper(event)
  /\ \A v \in Versions : events[v] # None => Proper(events[v])
  /\ \A c \in Clients, v \in Versions : pend[c][v] # None => Proper(pend[c][v])
  /\ \A c \in Clients, v \in Versions : seen[c][v] # None => Coherent(seen[c][v])
  /\ \A v \in Versions : snaps[v] # None => Coherent(snaps[v])
  /\ \A v \in Versions : truth[v] # None => Coherent(truth[v])
  /\ \A c \in Clients : view[c].rec # None => Coherent(view[c].rec)

(* Steps that make no event and no record other than those there are. *)
LEMMA SameRecords ==
  ASSUME AllCoherent, menu' = menu,
         \A v \in Versions : events'[v] # None => events'[v] = events[v] \/ Proper(events'[v]),
         \A c \in Clients, v \in Versions :
           pend'[c][v] # None => pend'[c][v] = pend[c][v] \/ Proper(pend'[c][v]),
         \A c \in Clients, v \in Versions :
           seen'[c][v] # None => \/ seen'[c][v] = seen[c][v]
                                 \/ seen'[c][v] = view[c].rec
                                 \/ Coherent(seen'[c][v]),
         \A v \in Versions : snaps'[v] # None => snaps'[v] = snaps[v] \/ Coherent(snaps'[v]),
         \A v \in Versions : truth'[v] # None => truth'[v] = truth[v] \/ Coherent(truth'[v]),
         \A c \in Clients : view'[c].rec # None =>
           view'[c].rec = view[c].rec \/ Coherent(view'[c].rec)
  PROVE  AllCoherent'
<1>1. \A c \in Clients, v \in Versions : seen'[c][v] # None => Coherent(seen'[c][v])
  <2> SUFFICES ASSUME NEW c \in Clients, NEW v \in Versions, seen'[c][v] # None
               PROVE  Coherent(seen'[c][v])
    OBVIOUS
  <2>1. seen[c][v] # None => Coherent(seen[c][v])
    BY DEF AllCoherent
  <2>2. view[c].rec # None => Coherent(view[c].rec)
    BY DEF AllCoherent
  <2>3. QED BY <2>1, <2>2
<1>2. \A v \in Versions : snaps'[v] # None => Coherent(snaps'[v])
  BY DEF AllCoherent
<1>3. \A v \in Versions : truth'[v] # None => Coherent(truth'[v])
  BY DEF AllCoherent
<1>4. \A c \in Clients : view'[c].rec # None => Coherent(view'[c].rec)
  BY DEF AllCoherent
<1>5. \A v \in Versions : events'[v] # None => Proper(events'[v])
  BY DEF AllCoherent
<1>6. \A c \in Clients, v \in Versions : pend'[c][v] # None => Proper(pend'[c][v])
  BY DEF AllCoherent
<1>7. \A event \in menu' : Proper(event)
  BY DEF AllCoherent
<1>8. QED BY <1>1, <1>2, <1>3, <1>4, <1>5, <1>6, <1>7 DEF AllCoherent

LEMMA CoherentStep ==
  ASSUME IInv, AllCoherent, Next, kind = "page"
  PROVE  AllCoherent'
<1> USE DEF IInv
<1>1. Record = PageRecord /\ Event = PageEvent
  BY DEF Record, Event
<1>2. CASE CatchUp
  <2>1. PICK v \in Behind :
          truth' = [truth EXCEPT ![v] = Applied(events[v], IF v = 1 THEN None ELSE truth[v - 1])]
    BY <1>2 DEF CatchUp
  <2>2. /\ v \in Versions /\ events[v] # None /\ events[v] \in PageEvent
        /\ v # 1 => v - 1 \in Versions /\ truth[v - 1] # None
        /\ events[v].op = "create" <=> v = 1
    BY <1>1, VersionFacts DEF Behind, TypeOK, Known
  <2>3. events[v].op # "create" => truth[v - 1] \in PageRecord /\ Coherent(truth[v - 1])
    BY <1>1, <2>2 DEF TypeOK, AllCoherent
  <2>8. Proper(events[v])
    BY <2>2 DEF AllCoherent
  <2>4. Coherent(Applied(events[v], IF v = 1 THEN None ELSE truth[v - 1]))
    BY <2>2, <2>3, <2>8, AppliedCoherent
  <2>5. \A w \in Versions : truth'[w] = truth[w] \/ Coherent(truth'[w])
    BY <2>1, <2>2, <2>4 DEF TypeOK
  <2>6. UNCHANGED <<stored, client, seen>>
    BY <1>2 DEF CatchUp
  <2>7. QED BY <2>5, <2>6, SameRecords DEF stored, client
<1>3. CASE Behind = {} /\ \E c \in Clients : Client(c)
  <2>1. PICK c \in Clients : Client(c)
    BY <1>3
  <2>2. CASE \/ Preprocess(c) \/ OcrCompleted(c) \/ GtMapped(c) \/ LabelerEdited(c) \/ Exported(c)
             \/ RotationUpdated(c) \/ ExtensionRecorded(c)
             \/ AddPage(c) \/ ReorderPages(c) \/ RemovePage(c) \/ ProjectExported(c)
    <3>1. PICK event \in Event : event.op # "create" /\ Command(c, event)
      BY <2>2, CommandEvents
    <3> DEFINE rec == Applied(event, seen[c][ver[c]])
    <3>2. ver[c] > 0 /\ ver[c] \in Versions
      <4>1. ver[c] \in 1..(MaxVersion - 1)
        BY <3>1 DEF Command
      <4>2. ver[c] > 0
        BY <4>1, VersionFacts
      <4>3. QED BY <4>2, OneClient
    <3>3. seen[c][ver[c]] \in PageRecord /\ Coherent(seen[c][ver[c]])
      <4>1. seen[c][ver[c]] # None
        BY <3>2 DEF Known
      <4>2. seen[c][ver[c]] \in Record \cup {None}
        BY <3>2, OneClient
      <4>3. QED BY <1>1, <3>2, <4>1, <4>2 DEF AllCoherent
    <3>4. Proper(event) /\ Coherent(rec)
      <4>1. Proper(event)
        BY <3>1 DEF Proper
      <4>2. QED BY <1>1, <3>1, <3>3, <4>1, AppliedCoherent
    <3>5. /\ seen' = [seen EXCEPT ![c][ver[c] + 1] = rec]
          /\ pend' = [pend EXCEPT ![c][ver[c] + 1] = event]
          /\ UNCHANGED <<stored, view, truth>>
      BY <3>1 DEF Command
    <3> HIDE DEF rec
    <3>8. \A d \in Clients, v \in Versions : pend'[d][v] = pend[d][v] \/ Proper(pend'[d][v])
      BY <3>4, <3>5 DEF TypeOK
    <3>6. \A d \in Clients, v \in Versions : seen'[d][v] = seen[d][v] \/ Coherent(seen'[d][v])
      BY <3>4, <3>5 DEF TypeOK
    <3>7. QED BY <3>5, <3>6, <3>8, SameRecords DEF stored
  <2>3. CASE LabelerEditRejected(c) \/ ExtensionSetDirectly(c)
    <3>1. /\ ver[c] \in Versions /\ seen[c][ver[c]] # None /\ seen[c][ver[c]] \in PageRecord
          /\ \E event : Altered(c, event)
      BY <2>3, Alterations
    <3>2. PICK rec \in PageRecord :
             /\ seen' = [seen EXCEPT ![c] = [seen[c] EXCEPT ![ver[c]] = rec]]
             /\ \/ \E node \in ProvenanceNode :
                     rec = NodeApplied(seen[c][ver[c]], node)
                \/ \E data \in Values : rec = [seen[c][ver[c]] EXCEPT !.ext = data]
      BY <2>3, Alterations
    <3>3. Coherent(seen[c][ver[c]])
      BY <3>1 DEF AllCoherent
    <3>4. \A data \in Values : Coherent([seen[c][ver[c]] EXCEPT !.ext = data])
      BY <3>1, <3>3 DEF Coherent, PageRecord
    <3>5. Coherent(rec)
      BY <3>1, <3>2, <3>3, <3>4, NodeAppliedCoherent
    <3>6. UNCHANGED <<stored, view, truth, pend>>
      BY <3>1 DEF Altered, client
    <3>7. \A d \in Clients, v \in Versions : seen'[d][v] = seen[d][v] \/ Coherent(seen'[d][v])
      BY <3>2, <3>5 DEF TypeOK
    <3>8. QED BY <3>6, <3>7, SameRecords DEF stored
  <2>4. CASE Create(c)
    <3>1. PICK event \in menu : event.op = "create" /\ Fresh(c, 1, event.record, event)
      BY <2>4 DEF Create
    <3>2. Proper(event) /\ Coherent(event.record)
      BY <3>1 DEF AllCoherent, Proper
    <3>3. \A d \in Clients, v \in Versions :
            /\ seen'[d][v] # None => seen'[d][v] = seen[d][v] \/ Coherent(seen'[d][v])
            /\ pend'[d][v] # None => pend'[d][v] = pend[d][v] \/ Proper(pend'[d][v])
      BY <3>1, <3>2 DEF Fresh, At, TypeOK
    <3>4. UNCHANGED <<stored, view, truth>>
      BY <2>4 DEF Create
    <3>5. QED BY <3>3, <3>4, SameRecords DEF stored
  <2>5. CASE SaveStored(c) \/ SaveFailed(c) \/ Read(c)
    <3>1. UNCHANGED <<menu, snaps, view, truth, seen>>
      BY <2>5 DEF SaveStored, SaveFailed, Read, stored
    <3>2. \A v \in Versions : pend[c][v] # None => Proper(EventCoded(pend[c][v]))
      <4>1. \A v \in Versions : pend[c][v] # None => pend[c][v] \in Event /\ Proper(pend[c][v])
        BY OneClient DEF AllCoherent
      <4>2. QED BY <4>1, ProperCoded
    <3>3. \A v \in Versions : events'[v] # None => events'[v] = events[v] \/ Proper(events'[v])
      <4>1. CASE SaveStored(c)
        <5>1. events' = [v \in Versions |-> IF v \in Pending(c) THEN EventCoded(pend[c][v]) ELSE events[v]]
          BY <4>1 DEF SaveStored, Recorded
        <5>2. QED BY <3>2, <5>1 DEF Pending
      <4>2. CASE SaveFailed(c) \/ Read(c)
        BY <4>2 DEF SaveFailed, Read, stored
      <4>3. QED BY <2>5, <4>1, <4>2
    <3>4. \A d \in Clients, v \in Versions : pend'[d][v] # None => pend'[d][v] = pend[d][v]
      <4>1. pend' = pend \/ pend' = [pend EXCEPT ![c] = Nothing]
        BY <2>5 DEF SaveStored, SaveFailed, Read
      <4>2. \A v \in Versions : Nothing[v] = None
        BY DEF Nothing
      <4> HIDE DEF Nothing
      <4>3. QED BY <4>1, <4>2 DEF TypeOK
    <3>5. QED BY <3>1, <3>3, <3>4, SameRecords
  <2>6. CASE Load(c) \/ Snapshot(c)
    <3>1. PICK goal \in 0..MaxVersion : Start(c, goal)
      <4>1. MaxVersion \in 0..MaxVersion /\ \A v \in due[c] : v \in 0..MaxVersion
        <5>1. MaxVersion \in 0..MaxVersion
          BY IntervalAssumption
        <5>2. due[c] \in SUBSET Versions
          BY OneClient
        <5>3. QED BY <5>1, <5>2, VersionFacts
      <4>2. QED BY <2>6, <4>1 DEF Load, Snapshot
    <3>2. PICK n \in Latest(goal) :
            view' = [view EXCEPT ![c] = [ver |-> n, rec |-> IF n = 0 THEN None ELSE snaps[n], goal |-> goal]]
      BY <3>1 DEF Start
    <3>3. n # 0 => n \in Versions /\ snaps[n] # None
      <4>1. n \in 0..goal /\ (n = 0 \/ snaps[n] # None)
        BY <3>2 DEF Latest
      <4>2. QED BY <4>1, VersionFacts
    <3> DEFINE start == IF n = 0 THEN None ELSE snaps[n]
    <3>4. start # None => Coherent(start)
      BY <3>3 DEF AllCoherent
    <3>5. view' = [view EXCEPT ![c] = [ver |-> n, rec |-> start, goal |-> goal]]
      BY <3>2
    <3> HIDE DEF start
    <3>6. \A d \in Clients : view'[d].rec # None => view'[d].rec = view[d].rec \/ Coherent(view'[d].rec)
      BY <3>4, <3>5 DEF TypeOK
    <3>7. UNCHANGED <<stored, truth>>
      BY <2>6 DEF Load, Snapshot
    <3>8. /\ \A d \in Clients, v \in Versions : seen'[d][v] # None => seen'[d][v] = seen[d][v]
          /\ \A d \in Clients, v \in Versions : pend'[d][v] # None => pend'[d][v] = pend[d][v]
      <4>1. CASE Load(c)
        BY <4>1 DEF Load, Fresh, At, TypeOK
      <4>2. CASE Snapshot(c)
        BY <4>2 DEF Snapshot
      <4>3. QED BY <2>6, <4>1, <4>2
    <3>9. QED BY <3>6, <3>7, <3>8, SameRecords DEF stored
  <2>7. CASE Replay(c)
    <3> DEFINE next == view[c].ver + 1
               rec  == Applied(events[next], view[c].rec)
    <3>1. /\ next \in todo[c]
          /\ view' = [view EXCEPT ![c] = [ver |-> next, rec |-> rec, goal |-> view[c].goal]]
      BY <2>7 DEF Replay, TypeOK
    <3>2. UNCHANGED <<stored, seen, truth, pend>>
      BY <2>7 DEF Replay
    <3>3. next \in Versions /\ events[next] # None /\ events[next] \in PageEvent /\ Proper(events[next])
      <4>1. next \in Versions /\ events[next] # None
        BY <3>1, OneClient DEF Known
      <4> HIDE DEF next
      <4>2. QED BY <1>1, <4>1 DEF TypeOK, AllCoherent
    <3>4. events[next].op # "create" => view[c].ver > 0
      <4>1. next # 1 => view[c].ver > 0
        <5>1. view[c].ver \in Nat
          BY OneClient
        <5>2. QED BY <5>1
      <4> HIDE DEF next
      <4>2. events[next].op # "create" => next # 1
        BY <3>3 DEF Known
      <4>3. QED BY <4>1, <4>2, Zenon
    <3>5. view[c].ver > 0 => view[c].rec \in PageRecord /\ Coherent(view[c].rec)
      <4>1. view[c].ver > 0 => view[c].rec # None
        BY DEF Known
      <4>2. QED BY <1>1, <4>1, OneClient DEF AllCoherent
    <3> HIDE DEF next
    <3>6. Coherent(rec)
      BY <3>3, <3>4, <3>5, AppliedCoherent
    <3> HIDE DEF rec
    <3>7. \A d \in Clients : view'[d].rec # None => view'[d].rec = view[d].rec \/ Coherent(view'[d].rec)
      BY <3>1, <3>6 DEF TypeOK
    <3>8. QED BY <3>2, <3>7, SameRecords DEF stored
  <2>8. CASE LoadDone(c) \/ SnapshotDone(c) \/ LoadFailed(c) \/ Crash(c)
    <3>1. view' = [view EXCEPT ![c] = NoView] /\ NoView.rec = None
      BY <2>8 DEF LoadDone, SnapshotDone, LoadFailed, Crash, NoView
    <3> HIDE DEF NoView
    <3>2. \A d \in Clients : view'[d].rec # None => view'[d].rec = view[d].rec
      BY <3>1 DEF TypeOK
    <3>3. UNCHANGED <<menu, events, truth>>
      BY <2>8 DEF LoadDone, SnapshotDone, LoadFailed, Crash, stored
    <3>7. \A d \in Clients, v \in Versions : pend'[d][v] # None => pend'[d][v] = pend[d][v]
      BY <2>8 DEF LoadDone, SnapshotDone, LoadFailed, Crash, Fresh, At, TypeOK
    <3>4. \A v \in Versions : snaps'[v] # None => snaps'[v] = snaps[v] \/ Coherent(snaps'[v])
      <4>1. CASE SnapshotDone(c)
        <5>1. snaps' = [snaps EXCEPT ![view[c].ver] = RecordJson(view[c].rec)] /\ view[c].ver > 0
          BY <4>1 DEF SnapshotDone, Taken, Loaded
        <5>2. view[c].rec # None /\ view[c].rec \in PageRecord /\ Coherent(view[c].rec)
          <6>1. view[c].rec # None
            BY <5>1 DEF Known
          <6>2. QED BY <1>1, <6>1, OneClient DEF AllCoherent
        <5>3. Coherent(RecordJson(view[c].rec))
          BY <5>2, CoherentJson
        <5>4. QED BY <5>1, <5>3 DEF TypeOK
      <4>2. CASE ~SnapshotDone(c)
        BY <2>8, <4>2 DEF LoadDone, LoadFailed, Crash, stored
      <4>3. QED BY <4>1, <4>2
    <3>5. \A d \in Clients, v \in Versions :
            seen'[d][v] # None => seen'[d][v] = seen[d][v] \/ seen'[d][v] = view[d].rec
      <4>1. CASE LoadDone(c)
        <5>1. seen' = [seen EXCEPT ![c] = At(view[c].ver, view[c].rec)]
          BY <4>1 DEF LoadDone, Fresh
        <5>2. QED BY <5>1 DEF At, TypeOK
      <4>2. CASE SnapshotDone(c) \/ LoadFailed(c)
        BY <4>2 DEF SnapshotDone, LoadFailed
      <4>3. CASE Crash(c)
        <5>1. seen' = [seen EXCEPT ![c] = At(0, None)]
          BY <4>3 DEF Crash, Fresh
        <5>2. QED BY <5>1 DEF At, TypeOK
      <4>4. QED BY <2>8, <4>1, <4>2, <4>3
    <3>6. QED BY <3>2, <3>3, <3>4, <3>5, <3>7, SameRecords
  <2>9. QED BY <2>1, <2>2, <2>3, <2>4, <2>5, <2>6, <2>7, <2>8 DEF Client
<1>4. QED BY <1>2, <1>3 DEF Next

(* A behaviour is about one kind of aggregate and one menu. *)
LEMMA SameMenu ==
  ASSUME Next
  PROVE  UNCHANGED <<kind, menu>>
<1>1. CASE CatchUp
  BY <1>1 DEF CatchUp, stored
<1>2. CASE \E c \in Clients : Client(c)
  <2>1. PICK c \in Clients : Client(c)
    BY <1>2
  <2>2. \A event : Command(c, event) \/ Altered(c, event) => UNCHANGED <<kind, menu>>
    BY DEF Command, Altered, stored
  <2>3. CASE Preprocess(c) \/ OcrCompleted(c) \/ GtMapped(c) \/ Exported(c)
    BY <2>2, <2>3 DEF Preprocess, OcrCompleted, GtMapped, Exported
  <2>4. CASE LabelerEdited(c) \/ LabelerEditRejected(c) \/ RotationUpdated(c)
    BY <2>2, <2>4 DEF LabelerEdited, LabelerEditRejected, RotationUpdated
  <2>5. CASE ExtensionRecorded(c) \/ ExtensionSetDirectly(c)
    BY <2>2, <2>5 DEF ExtensionRecorded, ExtensionSetDirectly
  <2>6. CASE AddPage(c) \/ ReorderPages(c) \/ RemovePage(c) \/ ProjectExported(c)
    BY <2>2, <2>6 DEF AddPage, ReorderPages, RemovePage, ProjectExported
  <2>7. CASE \/ Create(c) \/ SaveStored(c) \/ SaveFailed(c) \/ Load(c) \/ Snapshot(c) \/ Read(c)
             \/ Replay(c) \/ LoadDone(c) \/ SnapshotDone(c) \/ LoadFailed(c) \/ Crash(c)
    BY <2>7 DEF Create, SaveStored, SaveFailed, Load, Snapshot, Read, Replay, LoadDone, SnapshotDone,
                LoadFailed, Crash, stored
  <2>8. QED BY <2>1, <2>3, <2>4, <2>5, <2>6, <2>7 DEF Client
<1>3. QED BY <1>1, <1>2 DEF Next

(* Of pages that are made of coherent records, every record is coherent: the  *)
(* head ends the history, the history names nodes that exist and the          *)
(* changelog names nodes of the history (page_aggregate.py:98-127).           *)
THEOREM PagesStayCoherent == Spec => []PagesAreCoherent
<1> DEFINE Begun == kind = "page" /\ \A event \in menu : Proper(event)
           PInv  == Begun => AllCoherent
<1>1. Init => PInv
  <2>1. \A v \in Versions : Nothing[v] = None
    BY DEF Nothing
  <2>2. NoView.rec = None
    BY DEF NoView
  <2> HIDE DEF Nothing, NoView
  <2>3. QED BY <2>1, <2>2 DEF Init, AllCoherent
<1>2. IInv /\ PInv /\ [Next]_vars => PInv'
  <2> SUFFICES ASSUME IInv, PInv, [Next]_vars, Begun' PROVE AllCoherent'
    OBVIOUS
  <2>1. UNCHANGED <<kind, menu>>
    BY SameMenu DEF vars, stored
  <2>2. Begun /\ AllCoherent
    BY <2>1 DEF Proper
  <2>3. CASE UNCHANGED vars
    BY <2>2, <2>3 DEF vars, stored, client, AllCoherent, Proper
  <2>4. CASE Next
    BY <2>2, <2>4, CoherentStep
  <2>5. QED BY <2>3, <2>4
<1>3. PInv => PagesAreCoherent
  BY DEF AllCoherent, PagesAreCoherent, Proper
<1> HIDE DEF PInv
<1>4. QED BY <1>1, <1>2, <1>3, Invariance, PTL DEF Spec

-----------------------------------------------------------------------------
(* What a step may never do to the store, and which loads succeed. *)

(* The store only grows: a stored event is never replaced, by whichever       *)
(* client holds another one of its version, and a snapshot that two clients   *)
(* take of one version is the same (page_server.py:81-83).                    *)
HistoryIsKept ==
  [][\A v \in Versions :
       /\ events[v] # None => events'[v] = events[v]
       /\ snaps[v] # None => snaps'[v] = snaps[v]]_vars

(* A load fails only if it found no event at all, the aggregate does not      *)
(* exist, and no save fails for the snapshot it takes, unless a client went   *)
(* on with an aggregate whose events it lost.                                 *)
LoadsOfStoredSucceed ==
  [][\A c \in Clients : LoadFailed(c)
       => wentOn \/ (due[c] = {} /\ view[c].ver = 0 /\ todo[c] = {})]_vars

(* A snapshot is taken of a version that is due, and of no other.             *)
SnapshotsAreDue ==
  [][\A c \in Clients : SnapshotDone(c) => view[c].ver \in due[c]]_vars

(* Commands leave the store, the loads and the snapshots alone.               *)
LEMMA CommandFrame ==
  ASSUME NEW c \in Clients,
         \/ Preprocess(c) \/ OcrCompleted(c) \/ GtMapped(c) \/ LabelerEdited(c) \/ Exported(c)
         \/ RotationUpdated(c) \/ ExtensionRecorded(c)
         \/ AddPage(c) \/ ReorderPages(c) \/ RemovePage(c) \/ ProjectExported(c)
         \/ LabelerEditRejected(c) \/ ExtensionSetDirectly(c) \/ Create(c)
  PROVE  UNCHANGED <<events, snaps, pc, due, view, todo>> /\ (wentOn => wentOn')
<1>1. ASSUME NEW event, Command(c, event) \/ Altered(c, event)
      PROVE  UNCHANGED <<events, snaps, pc, due, view, todo>> /\ (wentOn => wentOn')
  <2>1. CASE Command(c, event)
    <3>1. wentOn' = (wentOn \/ fate[c] = "lost")
      BY <2>1 DEF Command
    <3>2. UNCHANGED <<events, snaps, pc, due, view, todo>>
      BY <2>1 DEF Command, stored
    <3>3. wentOn => wentOn'
      BY <3>1, Zenon
    <3>4. QED BY <3>2, <3>3
  <2>2. CASE Altered(c, event)
    BY <2>2 DEF Altered, stored, client
  <2>3. QED BY <1>1, <2>1, <2>2
<1>2. CASE Preprocess(c) \/ OcrCompleted(c) \/ GtMapped(c) \/ LabelerEdited(c) \/ Exported(c)
  BY <1>1, <1>2 DEF Preprocess, OcrCompleted, GtMapped, LabelerEdited, Exported
<1>3. CASE RotationUpdated(c) \/ ExtensionRecorded(c) \/ LabelerEditRejected(c) \/ ExtensionSetDirectly(c)
  BY <1>1, <1>3 DEF RotationUpdated, ExtensionRecorded, LabelerEditRejected, ExtensionSetDirectly
<1>4. CASE AddPage(c) \/ ReorderPages(c) \/ RemovePage(c) \/ ProjectExported(c)
  BY <1>1, <1>4 DEF AddPage, ReorderPages, RemovePage, ProjectExported
<1>5. CASE Create(c)
  BY <1>5 DEF Create, stored
<1>6. QED BY <1>2, <1>3, <1>4, <1>5

(* No step takes anything out of the store; what a client does while another  *)
(* one loads is to store more or to go on.                                    *)
LEMMA StoreGrows ==
  ASSUME IInv, Next
  PROVE  /\ \A v \in Versions : /\ events[v] # None => events'[v] = events[v]
                                /\ snaps[v] # None => snaps'[v] = snaps[v]
         /\ wentOn => wentOn'
<1> USE DEF IInv
<1>1. CASE CatchUp
  BY <1>1 DEF CatchUp, stored
<1>2. ASSUME NEW c \in Clients, Client(c)
      PROVE  /\ \A v \in Versions : /\ events[v] # None => events'[v] = events[v]
                                    /\ snaps[v] # None => snaps'[v] = snaps[v]
             /\ wentOn => wentOn'
  <2>1. CASE SaveStored(c)
    BY <2>1 DEF SaveStored, Free
  <2>2. CASE SnapshotDone(c)
    <3>1. view[c].ver \in Versions /\ Same(view[c].rec, truth[view[c].ver])
      BY <2>2, OneClient DEF SnapshotDone, Loaded, Agree
    <3>2. snaps[view[c].ver] # None => snaps[view[c].ver] = RecordJson(view[c].rec)
      BY <3>1 DEF Agree, SnapshotsAgree, Same
    <3>3. snaps' = [snaps EXCEPT ![view[c].ver] = RecordJson(view[c].rec)] /\ UNCHANGED <<events, wentOn>>
      BY <2>2 DEF SnapshotDone, Taken
    <3>4. QED BY <3>1, <3>2, <3>3 DEF TypeOK
  <2>3. CASE \/ SaveFailed(c) \/ Load(c) \/ Snapshot(c) \/ Read(c) \/ Replay(c) \/ LoadDone(c)
             \/ LoadFailed(c) \/ Crash(c)
    BY <2>3 DEF SaveFailed, Load, Snapshot, Read, Replay, LoadDone, LoadFailed, Crash, stored
  <2>4. QED BY <1>2, <2>1, <2>2, <2>3, CommandFrame DEF Client
<1>3. QED BY <1>1, <1>2 DEF Next

(* Nothing that is stored is ever changed.                                    *)
THEOREM HistoryIsKeptHolds == Spec => HistoryIsKept
<1> DEFINE Kept == \A v \in Versions : /\ events[v] # None => events'[v] = events[v]
                                       /\ snaps[v] # None => snaps'[v] = snaps[v]
<1>1. IInv /\ [Next]_vars => [Kept]_vars
  BY StoreGrows
<1> HIDE DEF Kept
<1>2. Spec => [][Kept]_vars
  BY <1>1, Invariance, PTL DEF Spec
<1>3. QED BY <1>2 DEF Kept, HistoryIsKept

(* What a load that reads its events at once may rely on: they follow each    *)
(* other without a gap, and the version to be snapshotted is among them.      *)
Loading(c) ==
  /\ \A w \in due[c] : events[w] # None
  /\ pc[c] = "idle" => due[c] = {}
  /\ pc[c] \in {"read", "replay"} /\ due[c] # {}
       => view[c].goal \in due[c] /\ view[c].ver <= view[c].goal
  /\ pc[c] = "replay" /\ due[c] # {}
       => view[c].goal \in todo[c] \/ view[c].ver = view[c].goal
  /\ pc[c] = "replay" => \A w \in todo[c] : view[c].ver < w /\ w <= view[c].goal
  /\ pc[c] = "replay" /\ ~wentOn
       => \A w \in todo[c], x \in Versions : view[c].ver < x /\ x <= w => x \in todo[c]

LoadingInv == \A c \in Clients : Loading(c)

(* A store without gaps has every version below one that it has.              *)
LEMMA StoredBelow ==
  ASSUME TypeOK, NoGap, ~wentOn, NEW w \in Versions, events[w] # None,
         NEW x \in Versions, x <= w
  PROVE  events[x] # None
<1> SUFFICES ASSUME events[x] = None PROVE FALSE
  OBVIOUS
<1> DEFINE T == {n \in Nat : n <= w /\ w - n \in Versions /\ events[w - n] = None}
<1>1. w - x \in T /\ T \in SUBSET Nat
  BY VersionFacts
<1>2. PICK n \in T : \A m \in T : n <= m
  <2> HIDE DEF T
  <2>1. QED BY <1>1, LeastOf
<1>3. n \in Nat /\ w - n \in Versions /\ events[w - n] = None /\ n # 0 /\ w \in Nat
  BY <1>2, VersionFacts
<1>4. n - 1 \in Nat /\ w - (n - 1) \in Versions /\ w - (n - 1) > 1 /\ (w - (n - 1)) - 1 = w - n
  BY <1>3, VersionFacts
<1>5. events[w - (n - 1)] # None
  <2>1. n - 1 \notin T
    <3> HIDE DEF T
    <3>1. ~ (n <= n - 1)
      BY <1>3
    <3>2. QED BY <1>2, <3>1
  <2>2. n - 1 <= w
    BY <1>2, <1>3
  <2>3. QED BY <1>4, <2>1, <2>2
<1>6. QED BY <1>3, <1>4, <1>5 DEF NoGap

(* What other clients do leaves a load as it is.                              *)
LEMMA OthersLoad ==
  ASSUME NEW d \in Clients, Loading(d), due[d] \in SUBSET Versions,
         pc'[d] = pc[d], due'[d] = due[d], view'[d] = view[d], todo'[d] = todo[d],
         \A v \in Versions : events[v] # None => events'[v] = events[v],
         wentOn => wentOn'
  PROVE  Loading(d)'
BY DEF Loading

(* Each step of a load, and of a save.                                        *)
LEMMA SaveLoads ==
  ASSUME IInv, NEW c \in Clients, SaveStored(c)
  PROVE  Loading(c)'
<1>1. /\ due'[c] \subseteq Pending(c)
      /\ events' = [v \in Versions |-> IF v \in Pending(c) THEN EventCoded(pend[c][v]) ELSE events[v]]
      /\ pc'[c] = IF due'[c] = {} THEN "idle" ELSE "snapshot"
  BY DEF SaveStored, Recorded, IInv, TypeOK
<1>2. \A w \in due'[c] : events'[w] # None
  <2>1. \A w \in Versions : pend[c][w] # None => EventCoded(pend[c][w]) # None
    BY OneClient, EventCodedFacts, NoneIsNothing DEF IInv, TypeOK
  <2>2. QED BY <1>1, <2>1 DEF Pending
<1>3. QED BY <1>1, <1>2 DEF Loading

LEMMA StartLoads ==
  ASSUME IInv, NEW c \in Clients, Loading(c), Load(c) \/ Snapshot(c)
  PROVE  Loading(c)'
<1>1. PICK goal \in 0..MaxVersion : Start(c, goal) /\ (due[c] # {} => goal \in due[c])
  <2>1. CASE Load(c)
    BY <2>1, IntervalAssumption DEF Load, Loading
  <2>2. CASE Snapshot(c)
    BY <2>2, OneClient, VersionFacts DEF Snapshot, IInv
  <2>3. QED BY <2>1, <2>2
<1>2. PICK n \in Latest(goal) :
        view' = [view EXCEPT ![c] = [ver |-> n, rec |-> IF n = 0 THEN None ELSE snaps[n], goal |-> goal]]
  BY <1>1 DEF Start
<1>3. n \in 0..goal
  BY DEF Latest
<1>4. view'[c].goal = goal /\ view'[c].ver <= goal /\ pc'[c] = "read"
  BY <1>1, <1>2, <1>3 DEF Start, IInv, TypeOK
<1>5. due' = due /\ events' = events
  BY DEF Load, Snapshot, stored
<1>6. QED BY <1>1, <1>4, <1>5 DEF Loading

LEMMA ReadLoads ==
  ASSUME IInv, NEW c \in Clients, Loading(c), Read(c)
  PROVE  Loading(c)'
<1> USE DEF IInv
<1>1. /\ pc[c] = "read" /\ pc'[c] = "replay" /\ UNCHANGED <<events, due, view, wentOn>>
      /\ todo'[c] = {w \in Versions : view[c].ver < w /\ w <= view[c].goal /\ events[w] # None}
  BY DEF Read, EventsAfter, stored, TypeOK
<1>2. \A w \in todo'[c] : view[c].ver < w /\ w <= view[c].goal
  BY <1>1
<1>3. ASSUME ~wentOn, NEW w \in todo'[c], NEW x \in Versions, view[c].ver < x, x <= w
      PROVE  x \in todo'[c]
  <2>1. w \in Versions /\ events[w] # None /\ w <= view[c].goal
    BY <1>1
  <2>2. events[x] # None
    BY <1>3, <2>1, StoredBelow
  <2>3. x <= view[c].goal
    <3>1. view[c].goal \in 0..MaxVersion
      BY OneClient
    <3>2. view[c].goal \in Nat /\ w \in Nat /\ x \in Nat
      BY <2>1, <3>1, IntervalAssumption DEF Versions
    <3>3. QED BY <1>3, <2>1, <3>2
  <2>4. QED BY <1>1, <1>3, <2>2, <2>3
<1>4. ASSUME due[c] # {} PROVE view[c].goal \in todo'[c] \/ view[c].ver = view[c].goal
  <2>1. view[c].goal \in due[c] /\ view[c].ver <= view[c].goal /\ due[c] \in SUBSET Versions
    BY <1>1, <1>4, OneClient DEF Loading
  <2>2. view[c].goal \in Versions /\ events[view[c].goal] # None
    BY <2>1 DEF Loading
  <2>3. view[c].goal \in Nat /\ view[c].ver \in Nat
    BY <2>2, OneClient, VersionFacts
  <2>4. QED BY <1>1, <2>1, <2>2, <2>3
<1>5. due[c] # {} => view[c].goal \in due[c] /\ view[c].ver <= view[c].goal
  BY <1>1 DEF Loading
<1>6. \A w \in due[c] : events[w] # None
  BY DEF Loading
<1>7. QED BY <1>1, <1>2, <1>3, <1>4, <1>5, <1>6 DEF Loading

LEMMA ReplayLoads ==
  ASSUME IInv, NEW c \in Clients, Loading(c), Replay(c)
  PROVE  Loading(c)'
<1> USE DEF IInv
<1> DEFINE next == view[c].ver + 1
<1>1. /\ pc[c] = "replay" /\ pc' = pc /\ UNCHANGED <<events, due, wentOn>> /\ next \in todo[c]
      /\ view'[c].ver = next /\ view'[c].goal = view[c].goal /\ todo'[c] = todo[c] \ {next}
  BY DEF Replay, stored, TypeOK
<1>2. /\ view[c].ver \in Nat /\ view[c].goal \in Nat /\ next \in Versions
      /\ todo[c] \in SUBSET Versions /\ due[c] \in SUBSET Versions
  <2>1. /\ view[c].ver \in 0..MaxVersion /\ view[c].goal \in 0..MaxVersion
        /\ todo[c] \in SUBSET Versions /\ due[c] \in SUBSET Versions
    BY OneClient
  <2>2. QED BY <1>1, <2>1, IntervalAssumption
<1>3. \A w \in todo'[c] : next < w /\ w <= view[c].goal
  <2> SUFFICES ASSUME NEW w \in todo'[c] PROVE next < w /\ w <= view[c].goal
    OBVIOUS
  <2>1. w \in Nat /\ view[c].ver < w /\ w <= view[c].goal /\ w # next
    BY <1>1, <1>2, VersionFacts DEF Loading
  <2>2. QED BY <1>2, <2>1
<1>4. ASSUME ~wentOn, NEW w \in todo'[c], NEW x \in Versions, next < x, x <= w
      PROVE  x \in todo'[c]
  <2>1. x \in Nat /\ view[c].ver < x /\ x # next
    BY <1>2, <1>4, VersionFacts
  <2>2. QED BY <1>1, <1>4, <2>1 DEF Loading
<1>5. ASSUME due[c] # {}
      PROVE  /\ view[c].goal \in due[c] /\ next <= view[c].goal
             /\ view[c].goal \in todo'[c] \/ next = view[c].goal
  <2>1. /\ view[c].goal \in due[c] /\ view[c].ver <= view[c].goal
        /\ view[c].goal \in todo[c] \/ view[c].ver = view[c].goal
    BY <1>1, <1>5 DEF Loading
  <2>2. next <= view[c].goal
    BY <1>1 DEF Loading
  <2>3. QED BY <1>1, <1>2, <2>1, <2>2
<1>6. \A w \in due[c] : events[w] # None
  BY DEF Loading
<1>7. QED BY <1>1, <1>3, <1>4, <1>5, <1>6 DEF Loading

(* A load that ends, well or not, leaves nothing under way.                   *)
LEMMA EndLoads ==
  ASSUME IInv, NEW c \in Clients, Loading(c),
         LoadDone(c) \/ SnapshotDone(c) \/ LoadFailed(c) \/ Crash(c)
  PROVE  Loading(c)'
<1>1. events' = events
  BY DEF LoadDone, SnapshotDone, LoadFailed, Crash, stored
<1>2. due'[c] \subseteq due[c] /\ pc'[c] = IF due'[c] = {} THEN "idle" ELSE "snapshot"
  BY DEF LoadDone, SnapshotDone, LoadFailed, Crash, IInv, TypeOK
<1>3. QED BY <1>1, <1>2 DEF Loading

(* A client's step does not touch the loads of the others.                    *)
LEMMA OneLoads ==
  ASSUME IInv, NEW c \in Clients, Client(c), NEW d \in Clients \ {c}
  PROVE  pc'[d] = pc[d] /\ due'[d] = due[d] /\ view'[d] = view[d] /\ todo'[d] = todo[d]
<1> USE DEF IInv
<1>1. CASE SaveStored(c) \/ SaveFailed(c)
  BY <1>1 DEF SaveStored, SaveFailed, TypeOK
<1>2. CASE Load(c) \/ Snapshot(c)
  BY <1>2 DEF Load, Snapshot, Start, TypeOK
<1>3. CASE Read(c) \/ Replay(c)
  BY <1>3 DEF Read, Replay, TypeOK
<1>4. CASE LoadDone(c) \/ SnapshotDone(c) \/ LoadFailed(c) \/ Crash(c)
  BY <1>4 DEF LoadDone, SnapshotDone, LoadFailed, Crash, TypeOK
<1>5. QED BY <1>1, <1>2, <1>3, <1>4, CommandFrame DEF Client

LEMMA LoadingStep ==
  ASSUME IInv, LoadingInv, [Next]_vars
  PROVE  LoadingInv'
<1> SUFFICES ASSUME NEW d \in Clients PROVE Loading(d)'
  BY DEF LoadingInv
<1>1. Loading(d) /\ due[d] \in SUBSET Versions
  BY OneClient DEF LoadingInv, IInv
<1>2. CASE UNCHANGED vars
  BY <1>1, <1>2 DEF Loading, vars, stored, client
<1>3. ASSUME Next, pc'[d] = pc[d], due'[d] = due[d], view'[d] = view[d], todo'[d] = todo[d]
      PROVE  Loading(d)'
  BY <1>1, <1>3, StoreGrows, OthersLoad
<1>4. CASE CatchUp
  BY <1>3, <1>4 DEF CatchUp, client, Next
<1>5. ASSUME Next, NEW c \in Clients, Client(c) PROVE Loading(d)'
  <2>1. CASE c # d
    BY <1>3, <1>5, <2>1, OneLoads
  <2>2. CASE c = d
    <3>1. CASE SaveStored(d)
      BY <3>1, SaveLoads
    <3>2. CASE Load(d) \/ Snapshot(d) \/ Read(d) \/ Replay(d)
      BY <1>1, <3>2, StartLoads, ReadLoads, ReplayLoads
    <3>3. CASE LoadDone(d) \/ SnapshotDone(d) \/ LoadFailed(d) \/ Crash(d)
      BY <1>1, <3>3, EndLoads
    <3>4. CASE SaveFailed(d)
      BY <1>3, <1>5, <3>4 DEF SaveFailed
    <3>5. QED BY <1>3, <1>5, <2>2, <3>1, <3>2, <3>3, <3>4, CommandFrame DEF Client
  <2>3. QED BY <2>1, <2>2
<1>6. QED BY <1>2, <1>4, <1>5 DEF Next

LEMMA LoadingInvariance == Spec => [](IInv /\ LoadingInv)
<1>1. Init => LoadingInv
  BY DEF Init, LoadingInv, Loading
<1>2. IInv /\ LoadingInv /\ [Next]_vars => LoadingInv'
  BY LoadingStep
<1>3. QED BY <1>1, <1>2, InitInv, NextInv, PTL DEF Spec

(* Nobody is refused an aggregate that is stored, and no save is left half    *)
(* done by its snapshot, as long as clients reload after a lost save.         *)
THEOREM StoredAggregatesLoad == Spec => LoadsOfStoredSucceed
<1> DEFINE Succeeds == \A c \in Clients : LoadFailed(c)
                         => wentOn \/ (due[c] = {} /\ view[c].ver = 0 /\ todo[c] = {})
<1>1. IInv /\ LoadingInv => Succeeds
  <2> SUFFICES ASSUME IInv, LoadingInv, NEW c \in Clients, LoadFailed(c), ~wentOn
               PROVE  due[c] = {} /\ view[c].ver = 0 /\ todo[c] = {}
    OBVIOUS
  <2>1. Loading(c) /\ pc[c] = "replay" /\ view[c].ver + 1 \notin todo[c]
        /\ (todo[c] # {} \/ view[c].ver = 0)
    BY DEF LoadingInv, LoadFailed
  <2>2. view[c].ver \in Nat /\ todo[c] \in SUBSET Versions
    BY OneClient DEF IInv
  <2>3. todo[c] = {}
    <3> SUFFICES ASSUME NEW w \in todo[c] PROVE FALSE
      OBVIOUS
    <3>1. w \in Versions /\ w \in Nat /\ view[c].ver < w
      BY <2>1, <2>2, VersionFacts DEF Loading
    <3>2. view[c].ver + 1 \in Versions /\ view[c].ver < view[c].ver + 1 /\ view[c].ver + 1 <= w
      BY <2>2, <3>1, VersionFacts
    <3>3. QED BY <2>1, <3>1, <3>2 DEF Loading
  <2>4. due[c] = {}
    <3> SUFFICES ASSUME due[c] # {} PROVE FALSE
      OBVIOUS
    <3>1. view[c].goal \in due[c] /\ view[c].ver = view[c].goal
      BY <2>1, <2>3 DEF Loading
    <3>2. 0 \notin Versions
      BY VersionFacts
    <3>3. QED BY <2>1, <2>3, <3>1, <3>2, OneClient DEF IInv
  <2>5. QED BY <2>1, <2>3, <2>4
<1> HIDE DEF Succeeds
<1>2. IInv /\ LoadingInv /\ [Next]_vars => [Succeeds]_vars
  BY <1>1
<1>3. Spec => [][Succeeds]_vars
  BY <1>2, LoadingInvariance, PTL DEF Spec
<1>4. QED BY <1>3 DEF Succeeds, LoadsOfStoredSucceed

(* The library snapshots the versions that a save made due, whatever others   *)
(* store while it loads them back.                                            *)
THEOREM SnapshotsAreTakenWhenDue == Spec => SnapshotsAreDue
<1> DEFINE Due == \A c \in Clients : SnapshotDone(c) => view[c].ver \in due[c]
<1>1. IInv /\ LoadingInv => Due
  BY DEF LoadingInv, Loading, SnapshotDone, Loaded
<1> HIDE DEF Due
<1>2. IInv /\ LoadingInv /\ [Next]_vars => [Due]_vars
  BY <1>1
<1>3. Spec => [][Due]_vars
  BY <1>2, LoadingInvariance, PTL DEF Spec
<1>4. QED BY <1>3 DEF Due, SnapshotsAreDue

=============================================================================
