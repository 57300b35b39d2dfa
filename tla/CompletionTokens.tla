-------------------------- MODULE CompletionTokens --------------------------
(***************************************************************************)
(* How with_timeout (asio_timeout.hpp) and as_result (asio_as_result.hpp)  *)
(* compose.  `token` is a completion token, its wrappers from the          *)
(* outermost to the innermost, around use_awaitable: timeout(CO_RESULT_    *)
(* TOKEN) is <<"with_timeout", "as_result">>.  Handler i belongs to the    *)
(* wrapper i and calls handler i + 1; the last is the awaiting coroutine.  *)
(* Every with_timeout has a provider of its own, whose fire_all() sends    *)
(* what the operation honours; its cascade is in TimeoutProvider.          *)
(***************************************************************************)
EXTENDS Naturals, Sequences, SequencesExt, ErrorValues

CONSTANT MaxDepth   \* bound: how many wrappers a token has

ASSUME MaxDepthAssumption == MaxDepth \in Nat

VARIABLES
  token,     \* the completion token
  connected, \* the coroutine was spawned with a cancellation slot
  phase,     \* "initiating", "pending", "queued", "resuming", "resumed"
  layer,     \* the handler being built, from the inside, or called, from the outside
  linked,    \* the handlers whose slot holds a provider's lambda
  armed,     \* the providers whose timer runs
  emitted,   \* the signals emitted: a provider's, or the coroutine's
  ending,    \* the arguments the operation completed with
  carried    \* the arguments as the wrappers called so far have changed them

vars == <<token, connected, phase, layer, linked, armed, emitted, ending, carried>>

Coroutine == Len(token) + 1
Providers == {i \in DOMAIN token : token[i] = "with_timeout"}
NotEnded  == Completion("none", "none")

\* Mutant: the binder does not set the slot explicitly.
HasSlot_NotSet(i) == i = Coroutine /\ connected

\* The slot get_associated_cancellation_slot() sees on handler i: with_timeout
\* sets the provider's, as_result forwards executor and allocator only.
HasSlot(i) == IF i = Coroutine THEN connected ELSE token[i] = "with_timeout"

\* The completion signature that wrapper i of token t is given: an as_result
\* outside of it has made a void(result) of the operation's.
Signature(t, i) == IF \E j \in 1..(i - 1) : t[j] = "as_result" THEN "result" ELSE "error_code"

\* The tokens that compile.
Tokens == {t \in SeqOf({"with_timeout", "as_result"}, MaxDepth) :
             \A i \in DOMAIN t : t[i] = "as_result" => Wrappable(Signature(t, i))}

Init ==
  /\ token \in Tokens /\ connected \in BOOLEAN
  /\ phase = "initiating" /\ layer = Len(token) + 1
  /\ linked = {} /\ armed = {} /\ emitted = {}
  /\ ending = NotEnded /\ carried = NotEnded

-----------------------------------------------------------------------------
(* The initiation.  The innermost token makes the first handler and calls  *)
(* the wrapper next to it, which wraps it and calls the next one out.      *)

Building(wrapper) == phase = "initiating" /\ layer > 1 /\ token[layer - 1] = wrapper

\* Mutants: the slot taken is the provider's own; nothing is taken.
WrapTimeout_OwnSlot ==
  /\ Building("with_timeout") /\ layer' = layer - 1
  /\ linked' = linked \cup {layer - 1}
  /\ armed' = armed \cup {layer - 1}
  /\ UNCHANGED <<token, connected, phase, emitted, ending, carried>>
WrapTimeout_NoSlot ==
  /\ Building("with_timeout") /\ layer' = layer - 1
  /\ armed' = armed \cup {layer - 1}
  /\ UNCHANGED <<token, connected, phase, linked, emitted, ending, carried>>

\* init_wrapper: take the slot of the handler given, arm(), wrap it in a binder.
WrapTimeout ==
  /\ Building("with_timeout")
  /\ layer' = layer - 1
  /\ linked' = IF HasSlot(layer) THEN linked \cup {layer} ELSE linked
  /\ armed' = armed \cup {layer - 1}
  /\ UNCHANGED <<token, connected, phase, emitted, ending, carried>>

\* as_result's lambda wraps the handler in an outcome_result_handler.
WrapResult ==
  /\ Building("as_result")
  /\ layer' = layer - 1
  /\ UNCHANGED <<token, connected, phase, linked, armed, emitted, ending, carried>>

\* The operation starts, with the outermost handler and its slot.
Begin ==
  /\ phase = "initiating" /\ layer = 1
  /\ phase' = "pending"
  /\ UNCHANGED <<token, connected, layer, linked, armed, emitted, ending, carried>>

-----------------------------------------------------------------------------
(* The operation, the clock and the client.                                *)

\* A cancelled operation says so with its code, or throws a system_error.
Aborts  == {Completion("error_code", "ABORTED"), Completion("exception_ptr", "ABORTED")}
Ends(c) == phase' = "queued" /\ ending' = c /\ carried' = c

OperationEnds(c) ==
  /\ phase = "pending"
  /\ Ends(c)
  /\ UNCHANGED <<token, connected, layer, linked, armed, emitted>>

\* Does emit() on the signal of handler i get to the operation?  A slot holds
\* the lambda of the provider one further out, which emits on its own signal.
Reaches[i \in 1..(MaxDepth + 1)] ==
  IF i = 1 THEN HasSlot(1) ELSE i \in linked /\ Reaches[i - 1]

Emit(i) ==
  /\ emitted' = emitted \cup {i}
  /\ IF phase = "pending" /\ Reaches[i]
     THEN \E c \in Aborts : Ends(c)
     ELSE UNCHANGED <<phase, ending, carried>>

\* The timer of provider i expires and fire_all() runs.
Expire(i) ==
  /\ phase \in {"pending", "queued"} /\ i \in armed
  /\ armed' = armed \ {i}
  /\ Emit(i)
  /\ UNCHANGED <<token, connected, layer, linked>>

\* The client cancels the coroutine.
ClientEmits ==
  /\ phase \in {"pending", "queued"} /\ connected
  /\ Emit(Coroutine)
  /\ UNCHANGED <<token, connected, layer, linked, armed>>

-----------------------------------------------------------------------------
(* The completion: the outermost handler is called, and calls the next.    *)

Calling(wrapper) ==
  /\ phase \in {"queued", "resuming"} /\ layer < Coroutine /\ token[layer] = wrapper
  /\ phase' = "resuming" /\ layer' = layer + 1
  /\ UNCHANGED <<token, connected, linked, emitted, ending>>

\* Mutant: the binder does not cancel the timer.
CallBinder_NoCancel == Calling("with_timeout") /\ UNCHANGED <<armed, carried>>

\* with_timeout_binder cancels its timer and passes the arguments on.
CallBinder ==
  /\ Calling("with_timeout")
  /\ armed' = armed \ {layer}
  /\ UNCHANGED carried

\* outcome_result_handler: the arguments become a result.
CallResult ==
  /\ Calling("as_result")
  /\ carried' = AsResult(carried)
  /\ UNCHANGED armed

Resume ==
  /\ phase \in {"queued", "resuming"} /\ layer = Coroutine
  /\ phase' = "resumed"
  /\ UNCHANGED <<token, connected, layer, linked, armed, emitted, ending, carried>>

Ended == phase = "resumed" /\ UNCHANGED vars

Complete == CallBinder \/ CallResult \/ Resume
Initiate == WrapTimeout \/ WrapResult \/ Begin

Next ==
  \/ Initiate \/ Complete \/ ClientEmits \/ Ended
  \/ \E c \in Completions \ Aborts : OperationEnds(c)
  \/ \E i \in Providers : Expire(i)

Spec == Init /\ [][Next]_vars

\* The initiation and the handlers run, and time passes; the operation and the
\* client need not do anything.
FairSpec ==
  /\ Spec /\ WF_vars(Initiate) /\ WF_vars(Complete)
  /\ WF_vars(\E i \in Providers : Expire(i))

-----------------------------------------------------------------------------
(* Properties.                                                             *)

HasResult == \E i \in DOMAIN token : token[i] = "as_result"

\* Type invariant; only the slot of a handler a with_timeout wraps holds a lambda.
TypeOK ==
  /\ token \in Tokens /\ connected \in BOOLEAN
  /\ phase \in {"initiating", "pending", "queued", "resuming", "resumed"}
  /\ layer \in 1..Coroutine
  /\ linked \subseteq {i + 1 : i \in Providers}
  /\ armed \subseteq Providers /\ emitted \subseteq Providers \cup {Coroutine}
  /\ ending \in Completions \cup {NotEnded}
  /\ carried \in Completions \cup {NotEnded} \cup [sig : {"result"}, holds : Codes \cup Exceptions \cup {"value"}]

\* Timeouts and the client's cancellation pass through every with_timeout on
\* their way out; only an as_result outside of them hides the operation.
SignalsReach ==
  phase = "pending" => \A i \in emitted : \E j \in 1..(i - 1) : token[j] = "as_result"

\* When the coroutine goes on, no provider of its token has a timer running.
NoTimerLeft == phase = "resumed" => armed = {}

\* The outcome the coroutine has: the result, or the exception that
\* use_awaitable throws where the token has no as_result.
Got ==
  CASE carried.sig # "result"    -> IF Succeeds(carried) THEN Value ELSE Outcome("exception", carried.error)
    [] carried = ResultValue     -> Value
    [] OTHER                     -> Outcome(IF ending.sig = "error_code" THEN "error" ELSE "exception", carried.holds)

\* However wrapped, the coroutine has a value if and only if the operation
\* succeeded, what it prints says so, and as_result leaves nothing to be thrown.
OutcomeKept ==
  phase = "resumed" =>
    /\ (Got = Value) <=> Succeeds(ending)
    /\ (retrive_error_msg(Got) = "no error") <=> Succeeds(ending)
    /\ HasResult <=> carried.sig = "result"

\* A token with a with_timeout outermost ends, whatever operation and client do.
EndsByTimeout == (1 \in Providers) ~> (phase = "resumed")
=============================================================================
