----------------------------- MODULE MCPageStore -----------------------------
(***************************************************************************)
(* MCPageStore: PageStore on a small instance.                             *)
(*                                                                         *)
(* Two clients and up to three versions with a snapshot at the second      *)
(* one: a load can start from a snapshot and find events after it, a       *)
(* client can hold two pending events when another one stores its own, and *)
(* can go on after that far enough to leave a gap.  One node brings blob   *)
(* references of its own and one does not; what the fields of type Any     *)
(* hold is text, a date or an enum, of which JSON keeps the first.         *)
(***************************************************************************)
EXTENDS PageStore, TLC

CONSTANTS own, other, p1, p2

MCNodes == {[id |-> "n1", refs |-> None, data |-> "date"],
            [id |-> "n2", refs |-> own, data |-> None]}

MCOrders == {<<p2, p1>>}

\* A date and an enum are text in JSON; the library keeps the type of a date.
MCJson  == [value \in Values |-> IF value = None THEN None ELSE "text"]
MCCoded == [value \in Values |-> IF value = "enum" THEN "text" ELSE value]

\* A new page without anything, and one that has been somewhere else before.
NoNodes == [n \in NodeIds |-> Absent]
NewPage == [nodes |-> NoNodes, head |-> None, history |-> <<>>, changelog |-> <<>>,
            failed |-> TRUE, rotation |-> 0, ext |-> None]
OldPage == [nodes     |-> [NoNodes EXCEPT !["n1"] = CHOOSE node \in Nodes : node.id = "n1"],
            head      |-> "n1",
            history   |-> <<"n1">>,
            changelog |-> <<[node |-> "n1", changes |-> "enum"]>>,
            failed    |-> FALSE,
            rotation  |-> 90,
            ext       |-> "date"]

Created(record) == [op |-> "create", record |-> record]

With(op, n) == [op |-> op, node |-> CHOOSE node \in Nodes : node.id = n]
Got(op, n)  == [op |-> op, node |-> With(op, n).node, refs |-> other]

Edit(n, changes) == [op |-> "edit", node |-> With("edit", n).node, changes |-> changes]
Extend == [op |-> "extend", data |-> "text"]
Project(pages) == Created([pages |-> pages])

MCMenus ==
  {{Created(NewPage), Got("preprocess", "n2"), Got("ocr", "n1")},
   {Created(NewPage), With("mark", "n2"), [op |-> "rotate", to |-> 90]},
   {Created(OldPage), Edit("n2", "date")},
   {Created(OldPage), With("mark", "n2"), Extend},
   {Project(<<>>), [op |-> "add", page |-> p1], [op |-> "remove", page |-> p1]},
   {Project(<<p1>>), [op |-> "reorder", order |-> <<p2, p1>>], [op |-> "export"]}}

Symmetry == Permutations(Clients)

=============================================================================
