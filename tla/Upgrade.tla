------------------------------ MODULE Upgrade -------------------------------
(***************************************************************************)
(* Upgrade: POST /api/suite/update of one distribution, apply_upgrade.     *)
(*                                                                         *)
(* Each request runs in a thread of its own, of any process of the app:    *)
(* refuse an editable install, ask for the installed version, write the    *)
(* rollback file in place and without a lock, run "uv tool upgrade".       *)
(* Versions are numbers in the order of release.  uv is external and a     *)
(* process of its own: it installs the latest release or fails and leaves  *)
(* what is installed, also after the app that ran it was killed.           *)
(* WrongTruncate is a plausible mistake that nothing else uses.            *)
(***************************************************************************)
EXTENDS Naturals

CONSTANTS
  Posts,       \* requests
  MaxRelease,  \* bound on the number of releases
  Unset,       \* no rollback file
  Empty,       \* a rollback file that was truncated
  Cut,         \* a rollback file with parts of two texts
  Unknown      \* the version of a distribution that is not found

Releases == 1..MaxRelease

ASSUME ReleaseAssumption ==
  /\ MaxRelease \in Nat \ {0}
  /\ {Unset, Empty, Cut, Unknown} \cap Releases = {}
  /\ Empty \notin {Unset, Cut, Unknown} /\ Unknown \notin {Unset, Cut}

VARIABLES
  editable,   \* the distribution is installed for development
  release,    \* the latest release
  installed,  \* the installed version
  rollback,   \* the version in the rollback file
  post,       \* per request: where it stands
  previous,   \* per request: the version it found installed, or Unknown
  mixed       \* history: requests that another one was made after or along with

upgradeVars == <<editable, release, installed, rollback, post, previous, mixed>>

UpgradeInit ==
  /\ editable \in BOOLEAN
  /\ release = 1
  /\ installed = 1
  /\ rollback = Unset
  /\ post = [u \in Posts |-> "idle"]
  /\ previous = [u \in Posts |-> 1]
  /\ mixed = {}

\* The request is at a step and goes on to another.
From(u, at, to) ==
  /\ post[u] = at
  /\ post' = [post EXCEPT ![u] = to]
  /\ UNCHANGED editable

\* A new release appears on the index.
Publish ==
  /\ release < MaxRelease
  /\ release' = release + 1
  /\ UNCHANGED <<editable, installed, rollback, post, previous, mixed>>

\* Before the end of apply_upgrade.
Running(u) == post[u] \in {"open", "write", "run"}

Refuse(u) ==
  /\ editable
  /\ From(u, "idle", "refused")
  /\ UNCHANGED <<release, installed, rollback, previous, mixed>>

\* The installed version is read, if the distribution is found; history: who is no
\* longer on its own.
Ask(u) ==
  /\ ~editable
  /\ From(u, "idle", "open")
  /\ \E v \in {installed, Unknown} : previous' = [previous EXCEPT ![u] = v]
  /\ mixed' = mixed \cup {v \in Posts \ {u} : post[v] # "idle"}
                    \cup (IF \E v \in Posts : Running(v) THEN {u} ELSE {})
  /\ UNCHANGED <<release, installed, rollback>>

WrongTruncate(u) ==
  /\ From(u, "open", "run")
  /\ UNCHANGED <<release, installed, rollback, previous, mixed>>
\* write_text opens the file and truncates it ...
Truncate(u) ==
  /\ From(u, "open", "write")
  /\ rollback' = Empty
  /\ UNCHANGED <<release, installed, previous, mixed>>

\* ... and writes; over what another wrote meanwhile, parts of that may remain.
Write(u) ==
  /\ From(u, "write", "run")
  /\ rollback' \in IF rollback \in {Empty, previous[u]} THEN {previous[u]} ELSE {previous[u], Cut}
  /\ UNCHANGED <<release, installed, previous, mixed>>

\* uv installs the latest release.
Run(u) ==
  /\ From(u, "run", "upgraded")
  /\ installed' = release
  /\ UNCHANGED <<release, rollback, previous, mixed>>

RunFails(u) ==
  /\ From(u, "run", "failed")
  /\ UNCHANGED <<release, installed, rollback, previous, mixed>>

\* The process is killed in the middle of a request; uv, if it runs, runs on.
Stopped(u) ==
  /\ Running(u)
  /\ From(u, post[u], IF post[u] = "run" THEN "left" ELSE "dead")
  /\ UNCHANGED <<release, installed, rollback, previous, mixed>>

\* uv, left alone, installs the latest release or fails.
UvEnds(u) ==
  /\ From(u, "left", "dead")
  /\ installed' \in {installed, release}
  /\ UNCHANGED <<release, rollback, previous, mixed>>

\* Something happens to some of the requests, or a release comes out for them.
UpgradeStep(posts) ==
  \/ posts # {} /\ Publish
  \/ \E u \in posts : \/ Refuse(u) \/ Ask(u) \/ Truncate(u) \/ Write(u) \/ Run(u)
                      \/ RunFails(u) \/ Stopped(u) \/ UvEnds(u)

-----------------------------------------------------------------------------
UpgradeTypeOK ==
  /\ editable \in BOOLEAN
  /\ release \in Releases /\ installed \in Releases
  /\ rollback \in Releases \cup {Unset, Empty, Cut, Unknown}
  /\ post \in [Posts -> {"idle", "open", "write", "run", "left", "upgraded", "refused", "failed", "dead"}]
  /\ previous \in [Posts -> Releases \cup {Unknown}]
  /\ mixed \subseteq Posts

\* After an upgrade, and while uv runs, with its request or left by it, the rollback
\* file names the version that was found installed before, or says that none was
\* found, unless another request was made along with it or after it, which may
\* overwrite or cut the file (suite/update.py:252); a file that names a version never
\* names one newer than what is installed.
UpgradeCanBeUndone ==
  /\ \A u \in Posts : (post[u] \in {"run", "left", "upgraded", "failed"} /\ u \notin mixed)
                        => rollback = previous[u]
  /\ rollback \in Releases => rollback <= installed

=============================================================================
