-------------------------- MODULE TimeoutProvider --------------------------
(***************************************************************************)
(* The timeout_provider / with_timeout completion token of                 *)
(* src/src/util/include/util/asio_timeout.hpp: one provider, the steady    *)
(* timer and the cancellation signal it owns, and one client that starts   *)
(* operations through it, one after the other.  The executor is a FIFO     *)
(* queue of handlers run by one thread; a handler is one atomic step.      *)
(*                                                                         *)
(* Durations are abstracted: an outstanding wait may expire at any moment. *)
(* A cancellation_type is the set of its bits: none = {}, all = Bits.      *)
(***************************************************************************)
EXTENDS Naturals, Sequences

CONSTANT MaxOps   \* bound: how many operations the client starts

ASSUME MaxOpsAssumption == MaxOps \in Nat

Bits   == {"total", "partial", "terminal"}
Stages == {"total", "partial", "terminal"}   \* which handler a wait carries

VARIABLES
  emit_all,    \* which constructor built the provider
  life,        \* the provider: "alive", "destroyed", or "ub" once used after that
  parent,      \* the member `parent` is connected to the client's slot
  forward,     \* the client's slot holds the lambda arm() assigned
  last_fired,  \* the cancellation_type last emitted by a fire_*()
  waiting,     \* the wait outstanding on `tim`, or NoWait
  ready,       \* the executor's queue of completed handlers
  op,          \* number of the client's current (or last) operation
  phase,       \* of that operation: "idle", "pending", "queued"
  child,       \* its handler has the client's slot (a history of the token used)
  adapted,     \* its inner token is as_result(...)
  honours,     \* the cancellation bits the operation reacts to
  result,      \* what the last completed operation reported
  requested,   \* history: bits emitted on `timeout` since the operation started
  asked        \* history: bits the client's own signal emitted since then

provider == <<emit_all, life, parent, forward, last_fired>>
client   == <<op, child, adapted, honours>>
vars == <<provider, client, waiting, ready, phase, result, requested, asked>>

NoWait == [stage |-> "none", op |-> 0]

Completed(w, ec) == [stage |-> w.stage, op |-> w.op, ec |-> ec]
Binder(ec)       == [stage |-> "binder", op |-> op, ec |-> ec]

Init ==
  /\ emit_all \in BOOLEAN
  /\ life = "alive" /\ parent = FALSE /\ forward = FALSE /\ last_fired = {}
  /\ waiting = NoWait /\ ready = <<>>
  /\ op = 0 /\ phase = "idle" /\ result = "none"
  /\ child = FALSE /\ adapted = FALSE /\ honours = {}
  /\ requested = {} /\ asked = {}

-----------------------------------------------------------------------------
(* The library pieces the provider is built on.                            *)

\* cancellation_signal::emit reaches the operation while it is pending.
Cancels(ct) == phase = "pending" /\ ct \cap honours # {}

Emit(ct) ==
  /\ requested' = requested \cup ct
  /\ phase' = IF Cancels(ct) THEN "queued" ELSE phase

EmitQueues(ct) == IF Cancels(ct) THEN <<Binder("aborted")>> ELSE <<>>

\* Cancelling or re-arming the timer completes the outstanding wait with
\* operation_aborted; a wait already in `ready` keeps its success.
TimerQueues == IF waiting = NoWait THEN <<>> ELSE <<Completed(waiting, "aborted")>>

Running(stage, ec) == ready # <<>> /\ Head(ready).stage = stage /\ Head(ready).ec = ec

-----------------------------------------------------------------------------
(* The client.                                                             *)

\* init_wrapper::operator(): remember the handler's slot, if it shows one,
\* arm() the provider, start the operation.  as_result hides the slot: its
\* handler forwards the executor and the allocator only.
Slot(c, a) == c /\ ~a

\* Mutant: last_fired keeps what was fired for the operation before.
Arm_KeepsFired(connected) ==
  /\ parent' = connected /\ forward' = (forward \/ connected)
  /\ UNCHANGED last_fired
  /\ waiting' = [stage |-> "total", op |-> op'] /\ ready' = ready \o TimerQueues

\* Mutant: the slot is looked at before provider->parent is set.
Arm_TooEarly(connected) ==
  /\ parent' = connected /\ forward' = (forward \/ parent)
  /\ last_fired' = {}
  /\ waiting' = [stage |-> "total", op |-> op'] /\ ready' = ready \o TimerQueues

Arm(connected) ==
  /\ parent' = connected
  /\ forward' = (forward \/ connected)
  /\ last_fired' = {}
  /\ waiting' = [stage |-> "total", op |-> op']
  /\ ready' = ready \o TimerQueues

Initiate(c, a, h) ==
  /\ life = "alive" /\ phase = "idle" /\ op < MaxOps
  /\ op' = op + 1
  /\ child' = c /\ adapted' = a /\ honours' = h
  /\ Arm(parent \/ Slot(c, a))
  /\ phase' = "pending" /\ requested' = {} /\ asked' = {}
  /\ UNCHANGED <<emit_all, life, result>>

\* The client's own cancellation signal: arm()'s lambda passes it on.
ParentEmits(ct) ==
  /\ phase = "pending" /\ (child \/ forward)
  /\ asked' = IF child THEN asked \cup ct ELSE asked
  /\ IF forward
     THEN Emit(ct) /\ ready' = ready \o EmitQueues(ct)
     ELSE UNCHANGED <<requested, phase, ready>>
  /\ UNCHANGED <<provider, client, waiting, result>>

\* Mutant: the destructor leaves the client's slot alone.
Destroy_NoClear ==
  /\ life = "alive" /\ phase = "idle" /\ life' = "destroyed"
  /\ waiting' = NoWait /\ ready' = ready \o TimerQueues
  /\ UNCHANGED <<emit_all, parent, forward, last_fired, client, phase, result, requested, asked>>

\* ~timeout_provider: the parent slot is cleared, the timer cancels its wait.
Destroy ==
  /\ life = "alive" /\ phase = "idle"
  /\ life' = "destroyed"
  /\ forward' = (forward /\ ~parent)
  /\ waiting' = NoWait
  /\ ready' = ready \o TimerQueues
  /\ UNCHANGED <<emit_all, parent, last_fired, client, phase, result, requested, asked>>

-----------------------------------------------------------------------------
(* The environment.                                                        *)

OperationFinishes ==
  /\ phase = "pending"
  /\ phase' = "queued"
  /\ ready' = Append(ready, Binder("ok"))
  /\ UNCHANGED <<provider, client, waiting, result, requested, asked>>

TimerExpires ==
  /\ waiting # NoWait
  /\ ready' = Append(ready, Completed(waiting, "ok"))
  /\ waiting' = NoWait
  /\ UNCHANGED <<provider, client, phase, result, requested, asked>>

-----------------------------------------------------------------------------
(* The handlers, run from the head of the queue.                           *)

\* with_timeout_binder::operator(): cancel the timer, then call the wrapped
\* handler, which may clear the client's slot (awaitable's does).
RunBinder ==
  \E ec \in {"ok", "aborted"}, keep \in BOOLEAN :
    /\ Running("binder", ec)
    /\ waiting' = NoWait
    /\ ready' = Tail(ready) \o TimerQueues
    /\ phase' = "idle" /\ result' = ec
    /\ forward' = (forward /\ keep)
    /\ UNCHANGED <<emit_all, life, parent, last_fired, client, requested, asked>>

\* if (!ec): an aborted wait does nothing, and touches nothing.
SkipAborted ==
  \E stage \in Stages :
    /\ Running(stage, "aborted")
    /\ ready' = Tail(ready)
    /\ UNCHANGED <<provider, client, waiting, phase, result, requested, asked>>

\* Mutant: last_fired gathers the bits (|=) instead of taking the last.
FireLast_Gathers(stage, ct) ==
  /\ life = "alive" /\ Running(stage, "ok")
  /\ last_fired' = last_fired \cup ct
  /\ Emit(ct)
  /\ ready' = Tail(ready) \o EmitQueues(ct)
  /\ UNCHANGED <<emit_all, life, parent, forward, client, waiting, result, asked>>

\* timeout.emit(last_fired = ct), and nothing after it.
FireLast(stage, ct) ==
  /\ life = "alive" /\ Running(stage, "ok")
  /\ last_fired' = ct
  /\ Emit(ct)
  /\ ready' = Tail(ready) \o EmitQueues(ct)
  /\ UNCHANGED <<emit_all, life, parent, forward, client, waiting, result, asked>>

\* timeout.emit(last_fired = ct), then expires_after and async_wait for `next`.
FireThenWait(stage, ct, next) ==
  /\ life = "alive" /\ Running(stage, "ok")
  /\ last_fired' = ct
  /\ Emit(ct)
  /\ waiting' = [stage |-> next, op |-> Head(ready).op]
  /\ ready' = Tail(ready) \o (EmitQueues(ct) \o TimerQueues)
  /\ UNCHANGED <<emit_all, life, parent, forward, client, result, asked>>

\* Mutants: the cascade stops after the first stage, or skips the second.
FireTotal_NoWait == ~emit_all /\ FireLast("total", {"total"})
FireTotal_Skips  == ~emit_all /\ FireThenWait("total", {"total"}, "terminal")

FireAll      == emit_all /\ FireLast("total", Bits)
FireTotal    == ~emit_all /\ FireThenWait("total", {"total"}, "partial")
FirePartial  == FireThenWait("partial", {"partial"}, "terminal")
FireTerminal == FireLast("terminal", {"terminal"})

\* A wait that had succeeded before the provider was destroyed runs after it:
\* the handler reads a dead object, and nothing is known from then on.
FireDangling ==
  /\ life = "destroyed"
  /\ \E stage \in Stages : Running(stage, "ok")
  /\ life' = "ub"
  /\ UNCHANGED <<emit_all, parent, forward, last_fired, client, waiting, ready,
                 phase, result, requested, asked>>

\* The client is through with the provider and the queue is drained.
Ended ==
  /\ life = "ub" \/ (life = "destroyed" /\ ready = <<>>)
  /\ UNCHANGED vars

RunHandler ==
  \/ RunBinder \/ SkipAborted
  \/ FireAll \/ FireTotal \/ FirePartial \/ FireTerminal \/ FireDangling

Next ==
  \/ \E c, a \in BOOLEAN, h \in SUBSET Bits : Initiate(c, a, h)
  \/ \E ct \in {{b} : b \in Bits} \cup {Bits} : ParentEmits(ct)
  \/ Destroy \/ OperationFinishes \/ TimerExpires
  \/ RunHandler \/ Ended

Spec == Init /\ [][Next]_vars

\* The executor runs what is queued and the clock advances; neither the client
\* nor the operation has to do anything.
Fairness == WF_vars(RunHandler) /\ WF_vars(TimerExpires)

FairSpec == Spec /\ Fairness

-----------------------------------------------------------------------------
(* Properties.                                                             *)

Waits       == [stage : Stages, op : 1..MaxOps]
Completions == [stage : Stages \cup {"binder"}, op : 1..MaxOps, ec : {"ok", "aborted"}]
Elems(s)    == {s[i] : i \in DOMAIN s}
Expired     == {e \in Elems(ready) : e.stage \in Stages /\ e.ec = "ok"}

\* Type invariant; last_fired only takes the values the fire_*() store.
TypeOK ==
  /\ emit_all \in BOOLEAN /\ parent \in BOOLEAN /\ forward \in BOOLEAN
  /\ life \in {"alive", "destroyed", "ub"}
  /\ last_fired \in {{}, {"total"}, {"partial"}, {"terminal"}, Bits}
  /\ waiting \in Waits \cup {NoWait}
  /\ ready \in Seq(Completions)
  /\ op \in 0..MaxOps
  /\ phase \in {"idle", "pending", "queued"}
  /\ child \in BOOLEAN /\ adapted \in BOOLEAN /\ honours \subseteq Bits
  /\ result \in {"none", "ok", "aborted"}
  /\ requested \subseteq Bits /\ asked \subseteq Bits

\* An operation that honours terminal cancellation and is still pending has its
\* timeout ahead of it: a wait on the timer or an expired one in the queue.
\* Re-arming the one timer from a late fire_*() never loses it.
TimeoutStillComing ==
  phase = "pending" /\ "terminal" \in honours => waiting # NoWait \/ Expired # {}

\* A pending operation honours nothing of what the provider last fired: a
\* fire_*() reaches the operation that is pending, and arm() forgets the last.
FiredIsDelivered == phase = "pending" => last_fired \cap honours = {}

\* The client's cancellation goes through: an operation started with a visible
\* slot is not left pending once its client asked for something it honours.
ParentIsHeard == phase = "pending" /\ child /\ ~adapted => asked \cap honours = {}

\* The client's slot never holds the lambda of a destroyed provider.
NoDanglingForward == forward => life = "alive"

\* The cascade of an operation's own timer sends the weaker cancellations
\* first: fire_partial() follows a total, fire_terminal() both.
WeakerFirst == [total |-> {}, partial |-> {"total"}, terminal |-> {"total", "partial"}]
OwnWaits    == {w \in Expired \cup {waiting} : w # NoWait /\ w.op = op}
Escalates   == \A w \in OwnWaits : WeakerFirst[w.stage] \subseteq requested

\* with_timeout_binder says "cancel the time, we're done!": no timer handler
\* fires for an operation that has completed.
DoneMeansNoFire ==
  [][last_fired' # last_fired /\ last_fired' # {} => phase # "idle" /\ Head(ready).op = op]_vars

\* init_wrapper exists "because we need to capture their cancellation slot":
\* what the client asks reaches its operation, whatever the inner token is.
SlotIsCaptured == phase = "pending" /\ child => asked \cap honours = {}

\* The token implements what TimedOperation promises, its deadline included.
Promise == INSTANCE TimedOperation WITH
  phase     <- IF phase = "idle" THEN "idle" ELSE "running",
  requested <- IF phase = "idle" THEN {} ELSE requested

Implements == Promise!FairSpec
=============================================================================
