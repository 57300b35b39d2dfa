-------------------------- MODULE AsyncConnectorCo --------------------------
(***************************************************************************)
(* example/async_connector_co.cpp: one async_connect() coroutine per       *)
(* endpoint on one io_context, each with a timeout_provider of its own in  *)
(* its frame.  One thread runs the queue of handlers.  The token is used   *)
(* once, over as_result, with the constructor that fires all at once.      *)
(***************************************************************************)
EXTENDS Naturals, Sequences

CONSTANT NEndpoints   \* bound: how many endpoints the names resolve to

ASSUME NEndpointsAssumption == NEndpoints \in Nat

Endpoints == 1..NEndpoints

VARIABLES
  main,    \* "resolving", "running" (in io_ctx.run()), "returned"
  coro,    \* per endpoint: "none", "spawned", "pending" and "queued" as its
           \* connect is, "leaving" (resumed, its frame still alive), "done"
  waiting, \* the endpoints whose timer has a wait outstanding
  fired,   \* the endpoints whose provider has run fire_all()
  ready,   \* the io_context's queue of handlers
  logged,  \* per endpoint: "nothing", or what its line in the log says
  misused  \* the endpoints whose destroyed provider a handler has used

vars == <<main, coro, waiting, fired, ready, logged, misused>>

Handler(e, stage, ec) == [ep |-> e, stage |-> stage, ec |-> ec]

Init ==
  /\ main = "resolving" /\ coro = [e \in Endpoints |-> "none"]
  /\ waiting = {} /\ fired = {} /\ ready = <<>>
  /\ logged = [e \in Endpoints |-> "nothing"] /\ misused = {}

-----------------------------------------------------------------------------
(* main().                                                                 *)

\* resolver.resolve() for every name, then co_spawn per endpoint; a name that
\* does not resolve throws before anything is spawned.
Resolve ==
  /\ main = "resolving"
  /\ \/ \E n \in 0..NEndpoints :
          /\ main' = "running"
          /\ coro' = [e \in Endpoints |-> IF e <= n THEN "spawned" ELSE "none"]
          /\ ready' = [e \in 1..n |-> Handler(e, "start", "ok")]
     \/ main' = "returned" /\ UNCHANGED <<coro, ready>>
  /\ UNCHANGED <<waiting, fired, logged, misused>>

\* io_ctx.run() returns when it has nothing left to wait for.
Return ==
  /\ main = "running" /\ ready = <<>> /\ waiting = {}
  /\ \A e \in Endpoints : coro[e] \in {"none", "done"}
  /\ main' = "returned"
  /\ UNCHANGED <<coro, waiting, fired, ready, logged, misused>>

-----------------------------------------------------------------------------
(* The network and the clock.                                              *)

Runs == main = "running" /\ misused = {}

ConnectEnds(e) ==
  /\ Runs /\ coro[e] = "pending"
  /\ coro' = [coro EXCEPT ![e] = "queued"]
  /\ \E ec \in {"ok", "failed"} : ready' = Append(ready, Handler(e, "binder", ec))
  /\ UNCHANGED <<main, waiting, fired, logged, misused>>

TimerExpires(e) ==
  /\ Runs /\ e \in waiting
  /\ waiting' = waiting \ {e}
  /\ ready' = Append(ready, Handler(e, "total", "ok"))
  /\ UNCHANGED <<main, coro, fired, logged, misused>>

-----------------------------------------------------------------------------
(* The handlers.  None runs while a coroutine has the thread.              *)

Dispatches(e, stage) ==
  /\ Runs /\ \A f \in Endpoints : coro[f] # "leaving"
  /\ ready # <<>> /\ Head(ready).ep = e /\ Head(ready).stage = stage

\* Mutant: the connect is awaited without the token, and nothing arms the timer.
Start_NotArmed(e) ==
  /\ Dispatches(e, "start")
  /\ coro' = [coro EXCEPT ![e] = "pending"] /\ ready' = Tail(ready)
  /\ UNCHANGED <<main, waiting, fired, logged, misused>>

\* The coroutine up to its co_await: the provider is built and armed.
Start(e) ==
  /\ Dispatches(e, "start")
  /\ coro' = [coro EXCEPT ![e] = "pending"]
  /\ waiting' = waiting \cup {e}
  /\ ready' = Tail(ready)
  /\ UNCHANGED <<main, fired, logged, misused>>

\* Mutant: the binder leaves the timer running.
Resume_NoCancel(e) ==
  /\ Dispatches(e, "binder")
  /\ coro' = [coro EXCEPT ![e] = "leaving"] /\ ready' = Tail(ready)
  /\ logged' = [logged EXCEPT ![e] = Head(ready).ec]
  /\ UNCHANGED <<main, waiting, fired, misused>>

\* The binder cancels the timer; the coroutine logs the outcome ...
Resume(e) ==
  /\ Dispatches(e, "binder")
  /\ coro' = [coro EXCEPT ![e] = "leaving"]
  /\ waiting' = waiting \ {e}
  /\ ready' = Tail(ready) \o IF e \in waiting THEN <<Handler(e, "total", "aborted")>> ELSE <<>>
  /\ logged' = [logged EXCEPT ![e] = Head(ready).ec]
  /\ UNCHANGED <<main, fired, misused>>

\* ... and ends: its frame, with the provider and the socket, is destroyed.
Leave(e) ==
  /\ Runs /\ coro[e] = "leaving"
  /\ coro' = [coro EXCEPT ![e] = "done"]
  /\ UNCHANGED <<main, waiting, fired, ready, logged, misused>>

SkipAborted(e) ==
  /\ Dispatches(e, "total") /\ Head(ready).ec = "aborted"
  /\ ready' = Tail(ready)
  /\ UNCHANGED <<main, coro, waiting, fired, logged, misused>>

\* Mutants: one provider serves every coroutine; the timeout stops the
\* context, as it does in async_connector; a completed connect is cancelled.
FireAll_Shared(e) ==
  /\ Dispatches(e, "total") /\ Head(ready).ec = "ok" /\ coro[e] # "done"
  /\ fired' = fired \cup {e}
  /\ coro' = [f \in Endpoints |-> IF coro[f] = "pending" THEN "queued" ELSE coro[f]]
  /\ LET cut == SelectSeq([f \in Endpoints |-> f], LAMBDA f : coro[f] = "pending")
     IN  ready' = Tail(ready) \o [i \in DOMAIN cut |-> Handler(cut[i], "binder", "aborted")]
  /\ UNCHANGED <<main, waiting, logged, misused>>
FireAll_Stops(e) ==
  /\ Dispatches(e, "total") /\ Head(ready).ec = "ok" /\ coro[e] # "done"
  /\ main' = "returned" /\ UNCHANGED <<coro, waiting, fired, ready, logged, misused>>
FireAll_Again(e) ==
  /\ Dispatches(e, "total") /\ Head(ready).ec = "ok" /\ coro[e] # "done"
  /\ fired' = fired \cup {e} /\ coro' = [coro EXCEPT ![e] = "queued"]
  /\ ready' = Append(Tail(ready), Handler(e, "binder", "aborted"))
  /\ UNCHANGED <<main, waiting, logged, misused>>

\* fire_all(): a connect that is still pending is cancelled.
FireAll(e) ==
  /\ Dispatches(e, "total") /\ Head(ready).ec = "ok" /\ coro[e] # "done"
  /\ fired' = fired \cup {e}
  /\ IF coro[e] = "pending"
     THEN /\ coro' = [coro EXCEPT ![e] = "queued"]
          /\ ready' = Append(Tail(ready), Handler(e, "binder", "aborted"))
     ELSE UNCHANGED coro /\ ready' = Tail(ready)
  /\ UNCHANGED <<main, waiting, logged, misused>>

\* The frame is gone and the expired wait's handler still holds `this`.
FireDangling(e) ==
  /\ Dispatches(e, "total") /\ Head(ready).ec = "ok" /\ coro[e] = "done"
  /\ misused' = misused \cup {e}
  /\ UNCHANGED <<main, coro, waiting, fired, ready, logged>>

Step(e) == Start(e) \/ Resume(e) \/ Leave(e) \/ SkipAborted(e) \/ FireAll(e) \/ FireDangling(e)

Ended == (main = "returned" \/ misused # {}) /\ UNCHANGED vars

Next ==
  \/ Resolve \/ Return \/ Ended
  \/ \E e \in Endpoints : ConnectEnds(e) \/ TimerExpires(e) \/ Step(e)

Spec == Init /\ [][Next]_vars

\* The clock and the thread in run() go on; the network need not.
FairSpec ==
  /\ Spec /\ WF_vars(Return)
  /\ \A e \in Endpoints : WF_vars(TimerExpires(e)) /\ WF_vars(Step(e))

-----------------------------------------------------------------------------
(* Properties.                                                             *)

Outcomes == {"ok", "failed", "aborted"}

\* Type invariant; a coroutine has at most one handler of each kind in the queue.
TypeOK ==
  /\ main \in {"resolving", "running", "returned"}
  /\ coro \in [Endpoints -> {"none", "spawned", "pending", "queued", "leaving", "done"}]
  /\ waiting \subseteq Endpoints /\ fired \subseteq Endpoints /\ misused \subseteq Endpoints
  /\ ready \in Seq([ep : Endpoints, stage : {"start", "binder", "total"}, ec : Outcomes])
  /\ \A i, j \in DOMAIN ready :
       ready[i].ep = ready[j].ep /\ ready[i].stage = ready[j].stage => i = j
  /\ logged \in [Endpoints -> Outcomes \cup {"nothing"}]

\* The providers do not disturb each other: a connect is reported aborted only
\* after the timer of its own coroutine has fired.
AbortIsOwnTimeout == \A e \in Endpoints : logged[e] = "aborted" => e \in fired

\* When run() returns every coroutine that was spawned has logged an outcome:
\* here a timeout does not silence the others.
ReturnLogsAll ==
  main = "returned" => \A e \in Endpoints : coro[e] # "none" => logged[e] # "nothing"

\* A timer only keeps run() while its own connect is under way.
NoTimerOutlives == \A e \in waiting : coro[e] \in {"pending", "queued"}

\* Whatever the network does, the timers bring run() to its end.
RunEnds == (main = "running") ~> (main = "returned" \/ misused # {})

\* with_timeout_binder says "cancel the time, we're done!": no handler of the
\* timer uses the provider of a coroutine that has ended.
NoHandlerOutlives == misused = {}

\* Among the others on the one io_context, each coroutine's token behaves as a
\* provider of TimeoutProvider used for one operation and then destroyed.
Seen(e, h) ==
  IF h.ep = e /\ h.stage # "start"
  THEN <<[stage |-> h.stage, op |-> 1, ec |-> IF h.ec = "aborted" THEN "aborted" ELSE "ok"]>>
  ELSE <<>>
Mine(e, s) ==
  LET upto[i \in 0..Len(s)] == IF i = 0 THEN <<>> ELSE upto[i - 1] \o Seen(e, s[i])
  IN  upto[Len(s)]
Queue(e) == Mine(e, ready)
Begun(e) == coro[e] \notin {"none", "spawned"}
AllBits  == {"total", "partial", "terminal"}

Token(e) == INSTANCE TimeoutProvider WITH
  MaxOps     <- 1,
  emit_all   <- TRUE,
  life       <- IF e \in misused THEN "ub" ELSE IF coro[e] = "done" THEN "destroyed" ELSE "alive",
  parent     <- FALSE,
  forward    <- FALSE,
  last_fired <- IF e \in fired THEN AllBits ELSE {},
  waiting    <- IF e \in waiting THEN [stage |-> "total", op |-> 1] ELSE [stage |-> "none", op |-> 0],
  ready      <- Queue(e),
  op         <- IF Begun(e) THEN 1 ELSE 0,
  phase      <- IF coro[e] \in {"pending", "queued"} THEN coro[e] ELSE "idle",
  child      <- FALSE,
  adapted    <- Begun(e),
  honours    <- IF Begun(e) THEN AllBits ELSE {},
  result     <- IF logged[e] = "nothing" THEN "none" ELSE IF logged[e] = "aborted" THEN "aborted" ELSE "ok",
  requested  <- IF e \in fired THEN AllBits ELSE {},
  asked      <- {}

EachIsAToken ==
  /\ \A e \in Endpoints : Token(e)!Init
  /\ [][\A e \in Endpoints : Token(e)!Next \/ UNCHANGED Token(e)!vars]_vars
=============================================================================
