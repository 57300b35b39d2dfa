--------------------------- MODULE AsyncConnector ---------------------------
(***************************************************************************)
(* example/async_connector.cpp: every host is resolved, every endpoint of  *)
(* every host is connected to, and one timer ends it all.  One thread runs *)
(* the io_context; the resolver's own thread takes one name at a time.     *)
(***************************************************************************)
EXTENDS Naturals, Sequences, SequencesExt

CONSTANTS NHosts,        \* how many names main() passes to async_connect
          MaxEndpoints   \* bound: how many endpoints a name resolves to

ASSUME SizesAssumption == NHosts \in Nat /\ MaxEndpoints \in Nat

Hosts     == 1..NHosts
Endpoints == Hosts \X (1..MaxEndpoints)

VARIABLES
  timer,     \* _tm_timeout: "pending", "expired" (its handler is queued), "done"
  resolves,  \* per host: "pending", "cancelled", "queued" (its handler is), "done"
  connects,  \* per endpoint: "none", "pending", "queued", "done"
  open,      \* the endpoints whose socket is open
  sockets,   \* the vector _sockets, by endpoint
  ready,     \* the handlers the io_context has to run, in order
  stopped,   \* _context.stop() was called
  returned,  \* run_context() has returned
  threw,     \* history: a close() threw in the timeout handler
  reported,  \* history: the endpoints, and hosts as <<h, 0>>, with a line in the log
  in_time    \* history: those whose outcome was there before the timer expired

network == <<resolves, connects, open, sockets>>
history == <<reported, in_time>>
vars == <<timer, network, ready, stopped, returned, threw, history>>

Resolved(h, n)   == [kind |-> "resolve", host |-> h, n |-> n]      \* n = 0: an error
Connected(e, ok) == [kind |-> "connect", endpoint |-> e, ok |-> ok]
Timeout          == [kind |-> "timeout"]

Init ==
  /\ timer = "pending"
  /\ resolves = [h \in Hosts |-> "pending"]
  /\ connects = [e \in Endpoints |-> "none"] /\ open = {} /\ sockets = <<>>
  /\ ready = <<>> /\ stopped = FALSE /\ returned = FALSE /\ threw = FALSE
  /\ reported = {} /\ in_time = {}

-----------------------------------------------------------------------------
(* The network and the clock.                                              *)

InFlight(h) == resolves[h] \in {"pending", "cancelled"}

Arrives(o) == in_time' = IF timer = "pending" THEN in_time \cup {o} ELSE in_time

\* A cancelled lookup fails.
ResolveEnds(h) ==
  /\ ~returned /\ InFlight(h) /\ \A g \in 1..(h - 1) : ~InFlight(g)
  /\ resolves' = [resolves EXCEPT ![h] = "queued"]
  /\ \E n \in 0..MaxEndpoints :
       /\ resolves[h] = "cancelled" => n = 0
       /\ ready' = Append(ready, Resolved(h, n))
  /\ Arrives(<<h, 0>>)
  /\ UNCHANGED <<timer, connects, open, sockets, stopped, returned, threw, reported>>

ConnectEnds(e) ==
  /\ ~returned /\ connects[e] = "pending"
  /\ connects' = [connects EXCEPT ![e] = "queued"]
  /\ \E ok \in BOOLEAN : ready' = Append(ready, Connected(e, ok))
  /\ Arrives(e)
  /\ UNCHANGED <<timer, resolves, open, sockets, stopped, returned, threw, reported>>

TimerExpires ==
  /\ ~returned /\ timer = "pending"
  /\ timer' = "expired" /\ ready' = Append(ready, Timeout)
  /\ UNCHANGED <<network, stopped, returned, threw, history>>

-----------------------------------------------------------------------------
(* The handlers.                                                           *)

Runs(kind) == ~stopped /\ ~returned /\ ready # <<>> /\ Head(ready).kind = kind

\* Mutants: the socket is not kept; an error is not logged.
HandleResolve_NotKept ==
  /\ Runs("resolve")
  /\ LET h == Head(ready).host
         new == {h} \X (1..Head(ready).n)
     IN  /\ resolves' = [resolves EXCEPT ![h] = "done"]
         /\ connects' = [e \in Endpoints |-> IF e \in new THEN "pending" ELSE connects[e]]
         /\ open' = open \cup new
         /\ reported' = IF new = {} THEN reported \cup {<<h, 0>>} ELSE reported
  /\ ready' = Tail(ready)
  /\ UNCHANGED <<timer, sockets, stopped, returned, threw, in_time>>

\* _handle_resolve: log the error, or start one connect per endpoint.
HandleResolve ==
  /\ Runs("resolve")
  /\ LET h == Head(ready).host
         new == {h} \X (1..Head(ready).n)
     IN  /\ resolves' = [resolves EXCEPT ![h] = "done"]
         /\ connects' = [e \in Endpoints |-> IF e \in new THEN "pending" ELSE connects[e]]
         /\ open' = open \cup new
         /\ sockets' = sockets \o [i \in 1..Head(ready).n |-> <<h, i>>]
         /\ reported' = IF new = {} THEN reported \cup {<<h, 0>>} ELSE reported
  /\ ready' = Tail(ready)
  /\ UNCHANGED <<timer, stopped, returned, threw, in_time>>

\* Mutant: only an error is worth a line.
HandleConnect_Quiet ==
  /\ Runs("connect")
  /\ connects' = [connects EXCEPT ![Head(ready).endpoint] = "done"]
  /\ reported' = IF Head(ready).ok THEN reported ELSE reported \cup {Head(ready).endpoint}
  /\ ready' = Tail(ready)
  /\ UNCHANGED <<timer, resolves, open, sockets, stopped, returned, threw, in_time>>

\* _handle_connect logs the outcome, and leaves the socket in _sockets.
HandleConnect ==
  /\ Runs("connect")
  /\ connects' = [connects EXCEPT ![Head(ready).endpoint] = "done"]
  /\ reported' = reported \cup {Head(ready).endpoint}
  /\ ready' = Tail(ready)
  /\ UNCHANGED <<timer, resolves, open, sockets, stopped, returned, threw, in_time>>

\* _resolver.cancel() comes too late for a lookup that is in getaddrinfo().
Cancel ==
  \E entered \in {{}, {h \in Hosts : \A g \in 1..(h - 1) : ~InFlight(g)}} :
    resolves' = [h \in Hosts |-> IF resolves[h] = "pending" /\ h \notin entered
                                THEN "cancelled" ELSE resolves[h]]

\* The handlers that closing the first i sockets queues: a connect that is still
\* pending completes with an error.
Aborted[i \in 0..Len(sockets)] ==
  IF i = 0 THEN <<>>
  ELSE IF connects[sockets[i]] = "pending"
       THEN Append(Aborted[i - 1], Connected(sockets[i], FALSE)) ELSE Aborted[i - 1]

\* s.close() for the first k sockets.
Close(k) ==
  LET closed == {sockets[i] : i \in 1..k}
  IN  /\ open' = open \ closed
      /\ connects' = [e \in Endpoints |-> IF e \in closed /\ connects[e] = "pending"
                                          THEN "queued" ELSE connects[e]]
      /\ ready' = Tail(ready) \o Aborted[k]

\* Mutant: the handler does not stop the context.
HandleTimeout_NoStop ==
  /\ Runs("timeout") /\ timer' = "done" /\ Cancel
  /\ Close(Len(sockets)) /\ UNCHANGED <<sockets, stopped, returned, threw, history>>

\* The timer's handler.  A close() that throws leaves the sockets after it
\* open and the context running: the catch only logs.
HandleTimeout ==
  /\ Runs("timeout") /\ timer' = "done" /\ Cancel
  /\ \/ Close(Len(sockets)) /\ stopped' = TRUE /\ UNCHANGED threw
     \/ \E k \in 1..Len(sockets) : Close(k) /\ threw' = TRUE /\ UNCHANGED stopped
  /\ UNCHANGED <<sockets, returned, history>>

\* _context.run() returns when it is stopped or has nothing left to wait for.
Idle ==
  /\ ready = <<>> /\ timer = "done"
  /\ \A h \in Hosts : ~InFlight(h)
  /\ \A e \in Endpoints : connects[e] # "pending"

Return ==
  /\ ~returned /\ (stopped \/ Idle)
  /\ returned' = TRUE
  /\ UNCHANGED <<timer, network, ready, stopped, threw, history>>

Ended == returned /\ UNCHANGED vars

RunHandler == HandleResolve \/ HandleConnect \/ HandleTimeout

Next ==
  \/ \E h \in Hosts : ResolveEnds(h)
  \/ \E e \in Endpoints : ConnectEnds(e)
  \/ TimerExpires \/ RunHandler \/ Return \/ Ended

Spec == Init /\ [][Next]_vars

\* The clock and the thread that runs the context go on; the network need not.
FairSpec == Spec /\ WF_vars(TimerExpires) /\ WF_vars(RunHandler) /\ WF_vars(Return)

-----------------------------------------------------------------------------
(* Properties.                                                             *)

Handlers ==
  {Resolved(h, n) : h \in Hosts, n \in 0..MaxEndpoints}
  \cup {Connected(e, ok) : e \in Endpoints, ok \in BOOLEAN} \cup {Timeout}

\* Type invariant; an endpoint has its one place in _sockets once it is
\* connected to, and the handler of each operation is queued at most once.
TypeOK ==
  /\ timer \in {"pending", "expired", "done"}
  /\ resolves \in [Hosts -> {"pending", "cancelled", "queued", "done"}]
  /\ connects \in [Endpoints -> {"none", "pending", "queued", "done"}]
  /\ open \subseteq Endpoints /\ reported \subseteq Hosts \X (0..MaxEndpoints)
  /\ in_time \subseteq Hosts \X (0..MaxEndpoints)
  /\ ToSet(sockets) = {e \in Endpoints : connects[e] # "none"} /\ IsInjective(sockets)
  /\ ToSet(ready) \subseteq Handlers /\ IsInjective(ready)
  /\ stopped \in BOOLEAN /\ returned \in BOOLEAN /\ threw \in BOOLEAN

\* A timeout that stops the context leaves no socket open: every socket a
\* connect was started on is in _sockets by then.
StopClosesAll == stopped => open = {}

\* Silence means a timeout: if run() returned by itself, every host and every
\* endpoint has its line in the log.
SilenceIsTimeout ==
  returned /\ ~stopped =>
    /\ \A h \in Hosts : <<h, 0>> \in reported \/ \E i \in 1..MaxEndpoints : connects[<<h, i>>] = "done"
    /\ \A e \in Endpoints : connects[e] # "none" => e \in reported

\* What stop() leaves in the queue came in after the timer had expired: of an
\* outcome that was there before, a host has its line or its connects were
\* started, and an endpoint has its line.
Handled(o)     == o \in reported \/ (o[2] = 0 /\ \E i \in 1..MaxEndpoints : connects[<<o[1], i>>] # "none")
InTimeIsLogged == returned => \A o \in in_time : Handled(o)

\* Whatever the network does, the timer ends the run; after a close() that threw
\* it lasts only while the network still owes an answer.
Owed == (\E h \in Hosts : InFlight(h)) \/ \E e \in Endpoints : connects[e] = "pending"
TimeoutEndsRun == <>[](returned \/ (threw /\ Owed))
=============================================================================
