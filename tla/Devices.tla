------------------------------ MODULE Devices -------------------------------
(***************************************************************************)
(* Which device an OCR call runs on: the one the caller asks for, else the *)
(* one the suite's preferences name, else the one the environment or the   *)
(* hardware gives.  An absent and an empty answer are both None.           *)
(*                                                                         *)
(* The operators are pure; OcrBatch starts its calls with what they give.  *)
(***************************************************************************)
EXTENDS Naturals, Sequences, FiniteSetsExt

CONSTANT None  \* no answer

\* _VALID_DEVICES.
ValidDevices == {"local", "mps", "cpu"}

\* Ids that callers and preferences use: "cuda:0" stands for "cuda" and every
\* "cuda:N", "nvidia:0" for any name that is neither that nor valid; the
\* device list shows such ids for hardware that cannot be used.
Ids == ValidDevices \cup {"cuda:0", "nvidia:0"}

Answers == Ids \cup {None}

\* pick_device() raises ValueError.
Invalid == "invalid"

\* The two environment variables, and what cupy and torch say of the hardware;
\* a probe that raises says FALSE.
Hosts == [backend : Answers, legacy : Answers, cupy : BOOLEAN, torch : BOOLEAN, mps : BOOLEAN]

\* The app's own preference and the suite's default.
Preferences == [app : Answers, suite : Answers]

\* The first answer there is: `a or b or c`.
FirstOf(answers) ==
  LET given == {i \in DOMAIN answers : answers[i] # None}
  IN IF given = {} THEN None ELSE answers[Min(given)]

PickDevice(host) ==
  LET explicit == FirstOf(<<host.backend, host.legacy>>)
      detected == FirstOf(<<IF host.cupy \/ host.torch THEN "local" ELSE None,
                            IF host.mps THEN "mps" ELSE None, "cpu">>)
  IN IF explicit = None THEN detected
     ELSE IF explicit \in ValidDevices THEN explicit ELSE Invalid

Canonical(id) == IF id = "cuda:0" THEN "local" ELSE id

\* resolve_effective_device(); a dispatcher without a resolver is one whose
\* preferences are None.
EffectiveDevice(prefs, host) == FirstOf(<<prefs.app, prefs.suite, PickDevice(host)>>)

\* The device run_stage() and run_ocr_batch() go on with.
ExecutionDevice(asked, prefs, host) ==
  FirstOf(<<Canonical(asked), Canonical(EffectiveDevice(prefs, host)), PickDevice(host)>>)

\* Every device that a call may go on with, on some host.
ExecutionDevices ==
  {ExecutionDevice(asked, prefs, host) : asked \in Answers, prefs \in Preferences, host \in Hosts}

\* What register_default_stages() registers for "ocr".
Registry == [device \in ValidDevices |-> IF device = "cpu" THEN "stock" ELSE "finetuned"]

\* The implementation run_stage() finds: that of the device, else that of "cpu".
StageImpl(device) == Registry[IF device \in DOMAIN Registry THEN device ELSE "cpu"]
=============================================================================
