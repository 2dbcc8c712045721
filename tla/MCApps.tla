------------------------------- MODULE MCApps -------------------------------
(***************************************************************************)
(* MCApps: Apps on a small instance.                                       *)
(*                                                                         *)
(* Two process ids, of which one can be used twice, and two ports: two     *)
(* starts can race for lock and port, a killed, restarted or reused        *)
(* process can be found in the pidfile.  With a launch, each id is used    *)
(* once: a child and a process that is in its way.  With edits of the      *)
(* registry there is one process, the child or one that registers again.   *)
(***************************************************************************)
EXTENDS Apps, TLC

CONSTANTS a, b, p1, p2, l1, l2, l3, u1, u2

Window  == [app |-> b, mode |-> "window", from |-> 0]
Page(n) == [app |-> a, mode |-> "page", from |-> n]

\* p1 was used m times before and p2 n times.
Scene(m, n, opened, launches, posts, edited) ==
  [used |-> [p \in Procs |-> IF p = p1 THEN m ELSE n],
   opened |-> opened, launches |-> launches, posts |-> posts, edited |-> edited]

MCScenes ==
  {Scene(0, 1, {Window, Page(1)}, {}, {}, {}), Scene(1, 1, {Page(0)}, {l1}, {}, {}),
   Scene(1, 1, {Page(0)}, {l2, l3}, {}, {}), Scene(1, 2, {Page(1)}, {l1, l2}, {}, {a}),
   Scene(2, 2, {}, {}, {u1, u2}, {})}

\* One window, opened once.
OneWindow == {Scene(1, 2, {Window}, {}, {}, {})}

=============================================================================
