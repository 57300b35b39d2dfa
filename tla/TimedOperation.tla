--------------------------- MODULE TimedOperation ---------------------------
(***************************************************************************)
(* What the with_timeout token promises to one client, with no timer, no   *)
(* executor and no provider in sight: operations run one at a time, each   *)
(* completes exactly once, it reports "aborted" only after a cancellation  *)
(* it honours was requested, and while it runs a terminal cancellation is  *)
(* eventually requested.                                                   *)
(***************************************************************************)
EXTENDS Naturals

CONSTANT Bits   \* the bits of a cancellation_type; "terminal" is the strongest

VARIABLES op, phase, honours, requested, result

vars == <<op, phase, honours, requested, result>>

Init ==
  /\ op = 0 /\ phase = "idle"
  /\ honours = {} /\ requested = {} /\ result = "none"

Start ==
  /\ phase = "idle"
  /\ phase' = "running" /\ op' = op + 1
  /\ honours' \in SUBSET Bits
  /\ requested' = {}
  /\ UNCHANGED result

Request(ct) ==
  /\ phase = "running"
  /\ requested' = requested \cup ct
  /\ UNCHANGED <<op, phase, honours, result>>

Answered == requested \cap honours # {}

Finish(r) ==
  /\ phase = "running"
  /\ r = "aborted" => Answered
  /\ phase' = "idle" /\ result' = r
  /\ requested' = {}
  /\ UNCHANGED <<op, honours>>

Requests == \E ct \in SUBSET Bits : Request(ct)
Deadline == "terminal" \notin requested /\ \E ct \in SUBSET Bits : "terminal" \in ct /\ Request(ct)
Finishes == \E r \in {"ok", "aborted"} : Finish(r)

Next == Start \/ Requests \/ Finishes

Spec == Init /\ [][Next]_vars

\* A deadline exists for every operation, and an operation that honours what
\* has been requested does complete.
FairSpec ==
  /\ Spec
  /\ WF_vars(Deadline)
  /\ WF_vars(Answered /\ Finishes)

-----------------------------------------------------------------------------
\* An operation that honours terminal cancellation does not run for ever.
EveryOperationEnds == (phase = "running" /\ "terminal" \in honours) ~> (phase = "idle")
=============================================================================
