----------------------- MODULE AsyncConnectorCoProofs -----------------------
(***************************************************************************)
(* Proofs about AsyncConnectorCo, for every number of endpoints.           *)
(***************************************************************************)
EXTENDS AsyncConnectorCo, SequenceTheorems, WellFoundedInduction, TLAPS

Handlers == [ep : Endpoints, stage : {"start", "binder", "total"}, ec : Outcomes]
Coros    == {"none", "spawned", "pending", "queued", "leaving", "done"}

\* The shape of the state.
Types ==
  /\ main \in {"resolving", "running", "returned"}
  /\ coro \in [Endpoints -> Coros]
  /\ waiting \subseteq Endpoints /\ fired \subseteq Endpoints
  /\ ready \in Seq(Handlers)
  /\ logged \in [Endpoints -> Outcomes \cup {"nothing"}]

\* A connect is only aborted by fire_all() of its own provider.
AbortsAreFired ==
  \A i \in DOMAIN ready :
    ready[i].stage = "binder" /\ ready[i].ec = "aborted" => ready[i].ep \in fired

\* Nothing is spawned before every name is resolved.
NotYetSpawned == main = "resolving" => \A e \in Endpoints : coro[e] = "none"

\* A coroutine that has been resumed has logged.
ResumedHasLogged == \A e \in Endpoints : coro[e] \in {"leaving", "done"} => logged[e] # "nothing"

IInv ==
  /\ Types /\ AbortsAreFired /\ AbortIsOwnTimeout
  /\ NotYetSpawned /\ ResumedHasLogged /\ ReturnLogsAll /\ NoTimerOutlives

-----------------------------------------------------------------------------
\* What is appended to the queue leaves what is true of each handler in it.
LEMMA InTail ==
  ASSUME NEW S, NEW s \in Seq(S), s # <<>>, NEW i \in DOMAIN Tail(s)
  PROVE  i + 1 \in DOMAIN s /\ Tail(s)[i] = s[i + 1]
  OBVIOUS

LEMMA InConcat ==
  ASSUME NEW S, NEW s \in Seq(S), NEW t \in Seq(S), NEW i \in DOMAIN (s \o t)
  PROVE  \/ i \in DOMAIN s /\ (s \o t)[i] = s[i]
         \/ i - Len(s) \in DOMAIN t /\ (s \o t)[i] = t[i - Len(s)]
  OBVIOUS

\* A step from the queue that adds only handlers that are not aborted connects,
\* or whose provider has fired, keeps AbortsAreFired.
LEMMA QueueStep ==
  ASSUME NEW s \in Seq(Handlers), NEW t \in Seq(Handlers), AbortsAreFired,
         ready \in Seq(Handlers), s = ready \/ (ready # <<>> /\ s = Tail(ready)),
         ready' = s \o t, fired \subseteq fired',
         \A i \in DOMAIN t : t[i].stage = "binder" /\ t[i].ec = "aborted" => t[i].ep \in fired'
  PROVE  AbortsAreFired' /\ ready' \in Seq(Handlers)
<1>1. ASSUME NEW i \in DOMAIN s
      PROVE  s[i].stage = "binder" /\ s[i].ec = "aborted" => s[i].ep \in fired
  BY <1>1, InTail DEF AbortsAreFired
<1>2. ready' \in Seq(Handlers)
  OBVIOUS
<1>3. ASSUME NEW i \in DOMAIN ready'
      PROVE  ready'[i].stage = "binder" /\ ready'[i].ec = "aborted" => ready'[i].ep \in fired'
  <2>1. CASE i \in DOMAIN s /\ ready'[i] = s[i]
    BY <1>1, <2>1
  <2>2. CASE i - Len(s) \in DOMAIN t /\ ready'[i] = t[i - Len(s)]
    BY <2>2
  <2> QED BY <1>3, <2>1, <2>2, InConcat
<1> QED BY <1>2, <1>3 DEF AbortsAreFired

-----------------------------------------------------------------------------
LEMMA HandlerType ==
  ASSUME NEW e \in Endpoints, NEW stage \in {"start", "binder", "total"}, NEW ec \in Outcomes
  PROVE  Handler(e, stage, ec) \in Handlers
BY DEF Handler, Handlers

LEMMA InitHolds == Init => IInv
BY DEF Init, IInv, Types, Coros, Outcomes, AbortsAreFired, AbortIsOwnTimeout, NotYetSpawned,
       ResumedHasLogged, ReturnLogsAll, NoTimerOutlives

\* What a step makes of the queue: it takes the head, or not, and appends.
LEMMA Queues ==
  ASSUME IInv, [Next]_vars
  PROVE  AbortsAreFired' /\ ready' \in Seq(Handlers)
<1> USE NEndpointsAssumption
<1>0. /\ AbortsAreFired /\ ready \in Seq(Handlers) /\ Types
      /\ ready # <<>> => Tail(ready) \in Seq(Handlers)
      /\ <<>> \in Seq(Handlers) /\ \A s \in Seq(Handlers) : s \o <<>> = s
      /\ {"ok", "failed", "aborted"} = Outcomes
  BY DEF IInv, Types, Outcomes
<1>a. ASSUME ready' = ready \/ (ready # <<>> /\ ready' = Tail(ready)), fired \subseteq fired'
      PROVE  AbortsAreFired' /\ ready' \in Seq(Handlers)
  <2>1. CASE ready' = ready
    BY <1>0, <1>a, <2>1 DEF AbortsAreFired
  <2>2. CASE ready # <<>> /\ ready' = Tail(ready)
    BY <1>0, <1>a, <2>2, InTail DEF AbortsAreFired
  <2> QED BY <1>a, <2>1, <2>2
<1>b. ASSUME NEW s \in {ready, Tail(ready)}, s = ready \/ ready # <<>>,
             NEW e \in Endpoints, NEW stage \in {"start", "binder", "total"},
             NEW ec \in Outcomes, ready' = s \o <<Handler(e, stage, ec)>>, fired \subseteq fired',
             stage = "binder" /\ ec = "aborted" => e \in fired'
      PROVE  AbortsAreFired' /\ ready' \in Seq(Handlers)
  <2> DEFINE t == <<Handler(e, stage, ec)>>
  <2>1. t \in Seq(Handlers)
    BY HandlerType
  <2>2. \A i \in DOMAIN t : t[i] = Handler(e, stage, ec)
    OBVIOUS
  <2>3. \A i \in DOMAIN t : t[i].stage = "binder" /\ t[i].ec = "aborted" => t[i].ep \in fired'
    BY <1>b, <2>2 DEF Handler
  <2>4. s \in Seq(Handlers) /\ (s = ready \/ (ready # <<>> /\ s = Tail(ready)))
    BY <1>0, <1>b
  <2> HIDE DEF t
  <2>5. ready' = s \o t
    BY <1>b DEF t
  <2> QED BY <1>0, <1>b, <2>1, <2>3, <2>4, <2>5, QueueStep
<1>1. CASE Resolve
  <2>1. CASE UNCHANGED ready
    BY <1>1, <1>a, <2>1 DEF Resolve
  <2>2. ASSUME NEW n \in 0..NEndpoints, ready' = [e \in 1..n |-> Handler(e, "start", "ok")]
        PROVE  AbortsAreFired' /\ ready' \in Seq(Handlers)
    <3>1. \A e \in 1..n : Handler(e, "start", "ok") \in Handlers
      BY HandlerType DEF Endpoints, Outcomes
    <3>2. ready' \in Seq(Handlers) /\ DOMAIN ready' = 1..n
      BY <2>2, <3>1
    <3>3. \A i \in DOMAIN ready' : ready'[i].stage = "start"
      BY <2>2, <3>2 DEF Handler
    <3> QED BY <3>2, <3>3 DEF AbortsAreFired
  <2> QED BY <1>1, <2>1, <2>2 DEF Resolve
<1>2. CASE Return \/ Ended \/ UNCHANGED vars
  BY <1>2, <1>a DEF Return, Ended, vars
<1>3. ASSUME NEW e \in Endpoints, ConnectEnds(e)
      PROVE  AbortsAreFired' /\ ready' \in Seq(Handlers)
  <2>1. PICK ec \in {"ok", "failed"} : ready' = Append(ready, Handler(e, "binder", ec))
    BY <1>3 DEF ConnectEnds
  <2>2. ready' = ready \o <<Handler(e, "binder", ec)>> /\ ec \in Outcomes /\ fired' = fired
    BY <1>0, <1>3, <2>1, HandlerType DEF ConnectEnds, Outcomes
  <2> QED BY <1>b, <2>1, <2>2
<1>4. ASSUME NEW e \in Endpoints, TimerExpires(e)
      PROVE  AbortsAreFired' /\ ready' \in Seq(Handlers)
  <2>1. ready' = ready \o <<Handler(e, "total", "ok")>> /\ fired' = fired
    BY <1>0, <1>4, HandlerType DEF TimerExpires, Outcomes
  <2> QED BY <1>0, <1>b, <2>1
<1>5. ASSUME NEW e \in Endpoints, Start(e) \/ Leave(e) \/ SkipAborted(e) \/ FireDangling(e)
      PROVE  AbortsAreFired' /\ ready' \in Seq(Handlers)
  BY <1>a, <1>5 DEF Start, Leave, SkipAborted, FireDangling, Dispatches
<1>6. ASSUME NEW e \in Endpoints, Resume(e)
      PROVE  AbortsAreFired' /\ ready' \in Seq(Handlers)
  <2>1. CASE e \in waiting
    <3>1. ready # <<>> /\ ready' = Tail(ready) \o <<Handler(e, "total", "aborted")>> /\ fired' = fired
      BY <1>6, <2>1 DEF Resume, Dispatches
    <3> QED BY <1>0, <1>b, <3>1
  <2>2. CASE e \notin waiting
    BY <1>0, <1>6, <1>a, <2>2 DEF Resume, Dispatches
  <2> QED BY <2>1, <2>2
<1>7. ASSUME NEW e \in Endpoints, FireAll(e)
      PROVE  AbortsAreFired' /\ ready' \in Seq(Handlers)
  <2>1. CASE coro[e] = "pending"
    <3>1. ready # <<>> /\ fired' = fired \cup {e}
      BY <1>7 DEF FireAll, Dispatches
    <3>2. ready' = Append(Tail(ready), Handler(e, "binder", "aborted"))
      BY <1>7, <2>1 DEF FireAll
    <3>3. Handler(e, "binder", "aborted") \in Handlers
      BY HandlerType DEF Outcomes
    <3>4. ready' = Tail(ready) \o <<Handler(e, "binder", "aborted")>>
      BY <1>0, <3>1, <3>2, <3>3
    <3> QED BY <1>0, <1>b, <3>1, <3>4
  <2>2. CASE coro[e] # "pending"
    BY <1>7, <1>a, <2>2 DEF FireAll, Dispatches
  <2> QED BY <2>1, <2>2
<1> QED BY <1>1, <1>2, <1>3, <1>4, <1>5, <1>6, <1>7 DEF Next, Step

\* The rest of the state.
LEMMA HeadType ==
  ASSUME ready \in Seq(Handlers), ready # <<>>
  PROVE  /\ Head(ready) \in Handlers /\ 1 \in DOMAIN ready /\ Head(ready) = ready[1]
         /\ Head(ready).ec \in Outcomes
<1>1. Head(ready) \in Handlers /\ 1 \in DOMAIN ready /\ Head(ready) = ready[1]
  OBVIOUS
<1> QED BY <1>1 DEF Handlers

LEMMA StepHolds ==
  ASSUME IInv, [Next]_vars
  PROVE  IInv'
<1> USE NEndpointsAssumption
<1> DEFINE Rest == /\ Types /\ AbortIsOwnTimeout /\ NotYetSpawned
                   /\ ResumedHasLogged /\ ReturnLogsAll /\ NoTimerOutlives
<1> SUFFICES Rest'
  BY Queues DEF IInv
<1>0. Rest /\ AbortsAreFired /\ ready \in Seq(Handlers) /\ ready' \in Seq(Handlers)
  BY Queues DEF IInv, Types
<1>1. CASE Resolve
  BY <1>0, <1>1 DEF Resolve, Types, Coros, AbortIsOwnTimeout, NotYetSpawned, ResumedHasLogged,
                    ReturnLogsAll, NoTimerOutlives
<1>2. CASE Return
  BY <1>0, <1>2 DEF Return, Types, AbortIsOwnTimeout, NotYetSpawned, ResumedHasLogged,
                    ReturnLogsAll, NoTimerOutlives
<1>3. CASE Ended \/ UNCHANGED vars
  BY <1>0, <1>3 DEF Ended, vars, Types, AbortIsOwnTimeout, NotYetSpawned, ResumedHasLogged,
                    ReturnLogsAll, NoTimerOutlives
<1>4. ASSUME NEW e \in Endpoints, ConnectEnds(e) \/ TimerExpires(e) \/ Start(e) \/ Leave(e)
      PROVE  Rest'
  BY <1>0, <1>4 DEF ConnectEnds, TimerExpires, Start, Leave, Runs, Dispatches, Types, Coros,
                    AbortIsOwnTimeout, NotYetSpawned, ResumedHasLogged, ReturnLogsAll, NoTimerOutlives
<1>5. ASSUME NEW e \in Endpoints, SkipAborted(e) \/ FireAll(e) \/ FireDangling(e)
      PROVE  Rest'
  BY <1>0, <1>5 DEF SkipAborted, FireAll, FireDangling, Runs, Dispatches, Types, Coros,
                    AbortIsOwnTimeout, NotYetSpawned, ResumedHasLogged, ReturnLogsAll, NoTimerOutlives
<1>6. ASSUME NEW e \in Endpoints, Resume(e)
      PROVE  Rest'
  <2>1. /\ Head(ready).ec \in Outcomes
        /\ Head(ready).ec = "aborted" => e \in fired
    BY <1>0, <1>6, HeadType DEF Resume, Dispatches, AbortsAreFired
  <2>2. logged' = [logged EXCEPT ![e] = Head(ready).ec]
    BY <1>6 DEF Resume
  <2>3. Types' /\ AbortIsOwnTimeout'
    BY <1>0, <1>6, <2>1, <2>2 DEF Resume, Types, Coros, AbortIsOwnTimeout
  <2>4. NotYetSpawned' /\ ResumedHasLogged' /\ ReturnLogsAll' /\ NoTimerOutlives'
    BY <1>0, <1>6, <2>1, <2>2 DEF Resume, Runs, Dispatches, Types, Outcomes, NotYetSpawned,
                                  ResumedHasLogged, ReturnLogsAll, NoTimerOutlives
  <2> QED BY <2>3, <2>4
<1> QED BY <1>1, <1>2, <1>3, <1>4, <1>5, <1>6 DEF Next, Step

-----------------------------------------------------------------------------
(* One handler of each kind.                                               *)

Has(s, e, stage) == \E i \in DOMAIN s : s[i].ep = e /\ s[i].stage = stage
Unique(s) ==
  \A i, j \in DOMAIN s : s[i].ep = s[j].ep /\ s[i].stage = s[j].stage => i = j

\* Whose handlers are in the queue: each kind has its place in the coroutine,
\* and a wait is outstanding or has its handler in the queue, not both.
Placed(s, co, w) ==
  \A e \in Endpoints :
    /\ Has(s, e, "start") => co[e] = "spawned"
    /\ Has(s, e, "binder") => co[e] = "queued"
    /\ Has(s, e, "total") => e \notin w /\ co[e] \notin {"none", "spawned"}

QInv == Unique(ready) /\ Placed(ready, coro, waiting) /\ misused \subseteq Endpoints

LEMMA Add ==
  ASSUME NEW s \in Seq(Handlers), Unique(s), NEW h \in Handlers, ~Has(s, h.ep, h.stage)
  PROVE  /\ Unique(Append(s, h))
         /\ \A e, stage : Has(Append(s, h), e, stage)
                            => Has(s, e, stage) \/ (e = h.ep /\ stage = h.stage)
<1> DEFINE t == Append(s, h)
<1>1. /\ DOMAIN s \subseteq DOMAIN t /\ \A i \in DOMAIN s : t[i] = s[i]
      /\ \A i \in DOMAIN t : i \in DOMAIN s \/ (i = Len(s) + 1 /\ t[i] = h)
  OBVIOUS
<1> HIDE DEF t
<1>2. Unique(t) BY <1>1 DEF Unique, Has
<1>3. ASSUME NEW e, NEW stage, Has(t, e, stage)
      PROVE  Has(s, e, stage) \/ (e = h.ep /\ stage = h.stage)
  BY <1>1, <1>3 DEF Has
<1> QED BY <1>2, <1>3 DEF t

LEMMA Take ==
  ASSUME NEW s \in Seq(Handlers), Unique(s), s # <<>>
  PROVE  /\ Unique(Tail(s)) /\ Tail(s) \in Seq(Handlers)
         /\ Has(s, Head(s).ep, Head(s).stage)
         /\ \A e, stage : Has(Tail(s), e, stage)
                            => Has(s, e, stage) /\ ~(e = Head(s).ep /\ stage = Head(s).stage)
<1> DEFINE t == Tail(s)
           x == Head(s)
<1>1. /\ \A i \in DOMAIN t : i \in Nat /\ i # 0 /\ i + 1 \in DOMAIN s /\ t[i] = s[i + 1]
      /\ 1 \in DOMAIN s /\ x = s[1] /\ t \in Seq(Handlers)
  OBVIOUS
<1> HIDE DEF t, x
<1>2. Unique(t)
  <2> SUFFICES ASSUME NEW i \in DOMAIN t, NEW j \in DOMAIN t,
                      t[i].ep = t[j].ep, t[i].stage = t[j].stage
               PROVE  i = j
    BY DEF Unique
  <2>1. i + 1 = j + 1 BY <1>1 DEF Unique
  <2> QED BY <1>1, <2>1
<1>3. ASSUME NEW e, NEW stage, Has(t, e, stage)
      PROVE  Has(s, e, stage) /\ ~(e = x.ep /\ stage = x.stage)
  <2>1. PICK i \in DOMAIN t : t[i].ep = e /\ t[i].stage = stage BY <1>3 DEF Has
  <2>2. i + 1 \in DOMAIN s /\ i + 1 # 1 /\ t[i] = s[i + 1] BY <1>1
  <2> QED BY <1>1, <2>1, <2>2 DEF Has, Unique
<1>4. Has(s, x.ep, x.stage) BY <1>1 DEF Has
<1> QED BY <1>1, <1>2, <1>3, <1>4 DEF t, x

\* The handler that is dispatched leaves the queue.
LEMMA Dispatched ==
  ASSUME IInv, QInv, NEW e \in Endpoints, NEW stage, Dispatches(e, stage)
  PROVE  /\ Unique(Tail(ready)) /\ Tail(ready) \in Seq(Handlers)
         /\ Has(ready, e, stage) /\ ~Has(Tail(ready), e, stage)
         /\ \A f, any : Has(Tail(ready), f, any) => Has(ready, f, any)
<1>1. ready \in Seq(Handlers) /\ ready # <<>> /\ Head(ready).ep = e /\ Head(ready).stage = stage
  BY DEF Dispatches, IInv, Types
<1> QED BY <1>1, Take DEF QInv

LEMMA QueueInit == Init => QInv
BY DEF Init, QInv, Unique, Placed, Has

LEMMA QueueKept ==
  ASSUME IInv, QInv, [Next]_vars
  PROVE  QInv'
<1> USE NEndpointsAssumption
<1>0. /\ ready \in Seq(Handlers) /\ coro \in [Endpoints -> Coros]
      /\ Unique(ready) /\ Placed(ready, coro, waiting) /\ misused \subseteq Endpoints
  BY DEF IInv, Types, QInv
<1>keys. \A e, stage, ec : Handler(e, stage, ec).ep = e /\ Handler(e, stage, ec).stage = stage
  BY DEF Handler
<1>1. CASE Resolve
  <2>1. misused' = misused /\ waiting' = waiting BY <1>1 DEF Resolve
  <2>2. CASE UNCHANGED <<coro, ready>> BY <1>0, <2>1, <2>2 DEF QInv
  <2>3. ASSUME NEW n \in 0..NEndpoints,
               coro' = [e \in Endpoints |-> IF e <= n THEN "spawned" ELSE "none"],
               ready' = [e \in 1..n |-> Handler(e, "start", "ok")]
        PROVE  QInv'
    <3>1. DOMAIN ready' = 1..n /\ \A i \in 1..n : ready'[i].ep = i /\ ready'[i].stage = "start"
      BY <2>3, <1>keys
    <3>2. \A i \in 1..n : coro'[i] = "spawned" BY <2>3 DEF Endpoints
    <3>3. Unique(ready') BY <3>1 DEF Unique
    <3>4. Placed(ready', coro', waiting') BY <3>1, <3>2 DEF Placed, Has
    <3> QED BY <1>0, <2>1, <3>3, <3>4 DEF QInv
  <2> QED BY <1>1, <2>2, <2>3 DEF Resolve
<1>2. CASE Return \/ Ended \/ UNCHANGED vars
  <2>1. UNCHANGED <<coro, waiting, ready, misused>> BY <1>2 DEF Return, Ended, vars
  <2> QED BY <1>0, <2>1 DEF QInv
<1>3. ASSUME NEW e \in Endpoints, ConnectEnds(e) PROVE QInv'
  <2>1. PICK ec \in {"ok", "failed"} : ready' = Append(ready, Handler(e, "binder", ec))
    BY <1>3 DEF ConnectEnds
  <2>2. /\ coro[e] = "pending" /\ coro' = [coro EXCEPT ![e] = "queued"]
        /\ UNCHANGED <<waiting, misused>>
    BY <1>3 DEF ConnectEnds
  <2>3. ~Has(ready, e, "binder") BY <1>0, <2>2 DEF Placed
  <2>4. Handler(e, "binder", ec) \in Handlers BY HandlerType DEF Outcomes
  <2>5. /\ Unique(ready')
        /\ \A f, any : Has(ready', f, any) => Has(ready, f, any) \/ (f = e /\ any = "binder")
    BY <1>0, <1>keys, <2>1, <2>3, <2>4, Add
  <2>6. Placed(ready', coro', waiting') BY <1>0, <2>2, <2>5 DEF Placed
  <2> QED BY <1>0, <2>2, <2>5, <2>6 DEF QInv
<1>4. ASSUME NEW e \in Endpoints, TimerExpires(e) PROVE QInv'
  <2>1. /\ e \in waiting /\ waiting' = waiting \ {e}
        /\ ready' = Append(ready, Handler(e, "total", "ok")) /\ UNCHANGED <<coro, misused>>
    BY <1>4 DEF TimerExpires
  <2>2. ~Has(ready, e, "total") BY <1>0, <2>1 DEF Placed
  <2>3. Handler(e, "total", "ok") \in Handlers BY HandlerType DEF Outcomes
  <2>4. /\ Unique(ready')
        /\ \A f, any : Has(ready', f, any) => Has(ready, f, any) \/ (f = e /\ any = "total")
    BY <1>0, <1>keys, <2>1, <2>2, <2>3, Add
  <2>5. coro[e] \in {"pending", "queued"} BY <2>1 DEF IInv, NoTimerOutlives
  <2>6. Placed(ready', coro', waiting') BY <1>0, <2>1, <2>4, <2>5 DEF Placed
  <2> QED BY <1>0, <2>1, <2>4, <2>6 DEF QInv
<1>5. ASSUME NEW e \in Endpoints, Start(e) PROVE QInv'
  <2>1. /\ Dispatches(e, "start") /\ coro' = [coro EXCEPT ![e] = "pending"]
        /\ waiting' = waiting \cup {e} /\ ready' = Tail(ready) /\ misused' = misused
    BY <1>5 DEF Start
  <2>2. /\ Unique(ready') /\ ~Has(ready', e, "start") /\ Has(ready, e, "start")
        /\ \A f, any : Has(ready', f, any) => Has(ready, f, any)
    BY <2>1, Dispatched
  <2>3. coro[e] = "spawned" BY <1>0, <2>2 DEF Placed
  <2>4. Placed(ready', coro', waiting') BY <1>0, <2>1, <2>2, <2>3 DEF Placed
  <2> QED BY <1>0, <2>1, <2>2, <2>4 DEF QInv
<1>6. ASSUME NEW e \in Endpoints, Resume(e) PROVE QInv'
  <2>1. /\ Dispatches(e, "binder") /\ coro' = [coro EXCEPT ![e] = "leaving"]
        /\ waiting' = waiting \ {e} /\ misused' = misused
        /\ ready' = Tail(ready) \o IF e \in waiting THEN <<Handler(e, "total", "aborted")>> ELSE <<>>
    BY <1>6 DEF Resume
  <2> DEFINE t == Tail(ready)
  <2>2. /\ Unique(t) /\ t \in Seq(Handlers) /\ ~Has(t, e, "binder") /\ Has(ready, e, "binder")
        /\ \A f, any : Has(t, f, any) => Has(ready, f, any)
    BY <2>1, Dispatched
  <2>3. coro[e] = "queued" BY <1>0, <2>2 DEF Placed
  <2> HIDE DEF t
  <2>4. CASE e \in waiting
    <3>1. Handler(e, "total", "aborted") \in Handlers BY HandlerType DEF Outcomes
    <3>2. ready' = Append(t, Handler(e, "total", "aborted")) BY <2>1, <2>2, <2>4, <3>1 DEF t
    <3>3. ~Has(t, e, "total") BY <1>0, <2>2, <2>4 DEF Placed
    <3>4. /\ Unique(ready')
          /\ \A f, any : Has(ready', f, any) => Has(t, f, any) \/ (f = e /\ any = "total")
      BY <1>keys, <2>2, <3>1, <3>2, <3>3, Add
    <3>5. Placed(ready', coro', waiting') BY <1>0, <2>1, <2>2, <2>3, <3>4 DEF Placed
    <3> QED BY <1>0, <2>1, <3>4, <3>5 DEF QInv
  <2>5. CASE e \notin waiting
    <3>1. ready' = t BY <2>1, <2>2, <2>5 DEF t
    <3>2. Placed(ready', coro', waiting') BY <1>0, <2>1, <2>2, <2>3, <3>1 DEF Placed
    <3> QED BY <1>0, <2>1, <2>2, <3>1, <3>2 DEF QInv
  <2> QED BY <2>4, <2>5
<1>7. ASSUME NEW e \in Endpoints, Leave(e) PROVE QInv'
  <2>1. /\ coro[e] = "leaving" /\ coro' = [coro EXCEPT ![e] = "done"]
        /\ UNCHANGED <<waiting, ready, misused>>
    BY <1>7 DEF Leave
  <2>2. Placed(ready', coro', waiting') BY <1>0, <2>1 DEF Placed
  <2> QED BY <1>0, <2>1, <2>2 DEF QInv
<1>8. ASSUME NEW e \in Endpoints, SkipAborted(e) PROVE QInv'
  <2>1. Dispatches(e, "total") /\ ready' = Tail(ready) /\ UNCHANGED <<coro, waiting, misused>>
    BY <1>8 DEF SkipAborted
  <2>2. Unique(ready') /\ \A f, any : Has(ready', f, any) => Has(ready, f, any)
    BY <2>1, Dispatched
  <2>3. Placed(ready', coro', waiting') BY <1>0, <2>1, <2>2 DEF Placed
  <2> QED BY <1>0, <2>1, <2>2, <2>3 DEF QInv
<1>9. ASSUME NEW e \in Endpoints, FireAll(e) PROVE QInv'
  <2>1. Dispatches(e, "total") /\ UNCHANGED <<waiting, misused>> BY <1>9 DEF FireAll
  <2> DEFINE t == Tail(ready)
  <2>2. /\ Unique(t) /\ t \in Seq(Handlers) /\ \A f, any : Has(t, f, any) => Has(ready, f, any)
    BY <2>1, Dispatched
  <2> HIDE DEF t
  <2>3. CASE coro[e] = "pending"
    <3>1. coro' = [coro EXCEPT ![e] = "queued"] /\ ready' = Append(t, Handler(e, "binder", "aborted"))
      BY <1>9, <2>3 DEF FireAll, t
    <3>2. Handler(e, "binder", "aborted") \in Handlers BY HandlerType DEF Outcomes
    <3>3. ~Has(t, e, "binder") BY <1>0, <2>2, <2>3 DEF Placed
    <3>4. /\ Unique(ready')
          /\ \A f, any : Has(ready', f, any) => Has(t, f, any) \/ (f = e /\ any = "binder")
      BY <1>keys, <2>2, <3>1, <3>2, <3>3, Add
    <3>5. Placed(ready', coro', waiting') BY <1>0, <2>1, <2>2, <2>3, <3>1, <3>4 DEF Placed
    <3> QED BY <1>0, <2>1, <3>4, <3>5 DEF QInv
  <2>4. CASE coro[e] # "pending"
    <3>1. coro' = coro /\ ready' = t BY <1>9, <2>4 DEF FireAll, t
    <3>2. Placed(ready', coro', waiting') BY <1>0, <2>1, <2>2, <3>1 DEF Placed
    <3> QED BY <1>0, <2>1, <2>2, <3>1, <3>2 DEF QInv
  <2> QED BY <2>3, <2>4
<1>10. ASSUME NEW e \in Endpoints, FireDangling(e) PROVE QInv'
  <2>1. misused' = misused \cup {e} /\ UNCHANGED <<coro, waiting, ready>>
    BY <1>10 DEF FireDangling
  <2> QED BY <1>0, <2>1 DEF QInv
<1> QED BY <1>1, <1>2, <1>3, <1>4, <1>5, <1>6, <1>7, <1>8, <1>9, <1>10 DEF Next, Step

-----------------------------------------------------------------------------
(* The part of the queue that is one token's.                              *)

Items == [stage : {"binder", "total"}, op : {1}, ec : {"ok", "aborted"}]

LEMMA SeenType ==
  ASSUME NEW e, NEW h \in Handlers
  PROVE  Seen(e, h) \in Seq(Items)
<1>1. CASE h.ep = e /\ h.stage # "start"
  <2>1. Seen(e, h) = <<[stage |-> h.stage, op |-> 1, ec |-> IF h.ec = "aborted" THEN "aborted" ELSE "ok"]>>
    BY <1>1 DEF Seen
  <2>2. h.stage \in {"binder", "total"} BY <1>1 DEF Handlers
  <2> QED BY <2>1, <2>2 DEF Items
<1>2. CASE ~(h.ep = e /\ h.stage # "start")
  <2>1. Seen(e, h) = <<>> BY <1>2 DEF Seen
  <2> QED BY <2>1
<1> QED BY <1>1, <1>2

\* Induction over the naturals, with sets for predicates.
LEMMA SetInduction ==
  ASSUME NEW S \in SUBSET Nat, 0 \in S, \A n \in S : n + 1 \in S
  PROVE  S = Nat
<1> SUFFICES ASSUME Nat \ S # {} PROVE FALSE OBVIOUS
<1>1. PICK n \in Nat \ S : \A m \in Nat \ S : ~(<<m, n>> \in OpToRel(<, Nat))
  <2>1. IsWellFoundedOn(OpToRel(<, Nat), Nat) BY NatLessThanWellFounded
  <2> QED BY <2>1, WFMin
<1>2. \A m \in Nat \ S : ~(m < n) BY <1>1 DEF OpToRel
<1>3. n # 0 /\ n - 1 \in Nat /\ n - 1 < n /\ (n - 1) + 1 = n OBVIOUS
<1>4. n - 1 \in S BY <1>2, <1>3
<1> QED BY <1>3, <1>4

\* f collects what of s is e's, handler by handler.
Collects(f, e, s) ==
  f[0] = <<>> /\ \A i \in 1..Len(s) : f[i] = f[i - 1] \o Seen(e, s[i])

\* The recursion of Mine is well-defined ...
LEMMA MineIs ==
  ASSUME NEW e, NEW s \in Seq(Handlers)
  PROVE  \E f : /\ Mine(e, s) = f[Len(s)] /\ Collects(f, e, s)
                /\ \A i \in 0..Len(s) : f[i] \in Seq(Items)
<1> DEFINE After(i, r) == r \o Seen(e, s[i])
           Up(n) == \E f : f = [i \in 0..n |-> IF i = 0 THEN <<>> ELSE After(i, f[i - 1])]
           S == {n \in Nat : Up(n)}
<1>1. Up(0)
  <2> DEFINE g == [i \in 0..0 |-> <<>>]
  <2>1. g = [i \in 0..0 |-> IF i = 0 THEN <<>> ELSE After(i, g[i - 1])] OBVIOUS
  <2> QED BY <2>1
<1>2. ASSUME NEW n \in Nat, Up(n) PROVE Up(n + 1)
  <2>1. PICK f : f = [i \in 0..n |-> IF i = 0 THEN <<>> ELSE After(i, f[i - 1])] BY <1>2
  <2> HIDE DEF After
  <2> DEFINE g == [i \in 0..(n + 1) |-> IF i <= n THEN f[i] ELSE After(n + 1, f[n])]
  <2>2. ASSUME NEW i \in 0..(n + 1)
        PROVE  g[i] = IF i = 0 THEN <<>> ELSE After(i, g[i - 1])
    <3>1. CASE i = 0 BY <3>1, <2>1
    <3>2. CASE i # 0 /\ i <= n
      <4>1. i \in 0..n /\ i - 1 \in 0..(n + 1) /\ i - 1 <= n BY <3>2
      <4>2. g[i] = f[i] /\ g[i - 1] = f[i - 1] BY <4>1
      <4>3. f[i] = After(i, f[i - 1]) BY <2>1, <4>1, <3>2
      <4> QED BY <4>2, <4>3, <3>2
    <3>3. CASE ~(i <= n)
      <4>1. i = n + 1 /\ i - 1 = n /\ n \in 0..(n + 1) /\ i # 0 BY <3>3
      <4>2. g[i] = After(n + 1, f[n]) /\ g[n] = f[n] BY <3>3, <4>1
      <4> QED BY <4>1, <4>2
    <3> QED BY <3>1, <3>2, <3>3
  <2>3. g = [i \in 0..(n + 1) |-> IF i = 0 THEN <<>> ELSE After(i, g[i - 1])] BY <2>2
  <2> QED BY <2>3 DEF After
<1>3. S = Nat
  <2> HIDE DEF Up
  <2>1. S \in SUBSET Nat /\ 0 \in S /\ \A n \in S : n + 1 \in S BY <1>1, <1>2
  <2> QED BY <2>1, SetInduction
<1>4. Len(s) \in Nat /\ \A i \in 1..Len(s) : s[i] \in Handlers OBVIOUS
<1>5. Up(Len(s)) BY <1>3, <1>4
<1> DEFINE upto == CHOOSE f : f = [i \in 0..Len(s) |-> IF i = 0 THEN <<>> ELSE f[i - 1] \o Seen(e, s[i])]
<1>6. /\ Mine(e, s) = upto[Len(s)]
      /\ upto = [i \in 0..Len(s) |-> IF i = 0 THEN <<>> ELSE upto[i - 1] \o Seen(e, s[i])]
  BY <1>5 DEF Mine
<1> HIDE DEF Up, S, upto
<1>7. upto[0] = <<>> BY <1>4, <1>6
<1>8. ASSUME NEW i \in 1..Len(s) PROVE upto[i] = upto[i - 1] \o Seen(e, s[i])
  <2>1. i \in 0..Len(s) /\ i # 0 BY <1>4
  <2> QED BY <1>6, <2>1
<1> DEFINE Typed(n) == n <= Len(s) => upto[n] \in Seq(Items)
           R == {n \in Nat : Typed(n)}
<1>9. Typed(0) BY <1>7
<1>10. ASSUME NEW n \in Nat, Typed(n) PROVE Typed(n + 1)
  <2> SUFFICES ASSUME n + 1 <= Len(s) PROVE upto[n + 1] \in Seq(Items) OBVIOUS
  <2>1. n + 1 \in 1..Len(s) /\ (n + 1) - 1 = n /\ n <= Len(s) BY <1>4
  <2>2. upto[n + 1] = upto[n] \o Seen(e, s[n + 1]) BY <1>8, <2>1
  <2>3. Seen(e, s[n + 1]) \in Seq(Items) BY <1>4, <2>1, SeenType
  <2>4. upto[n] \in Seq(Items) BY <1>10, <2>1
  <2> QED BY <2>2, <2>3, <2>4, ConcatProperties
<1>11. R = Nat
  <2> HIDE DEF Typed
  <2>1. R \in SUBSET Nat /\ 0 \in R /\ \A n \in R : n + 1 \in R BY <1>9, <1>10
  <2> QED BY <2>1, SetInduction
<1>12. \A i \in 0..Len(s) : upto[i] \in Seq(Items) BY <1>4, <1>11
<1> QED BY <1>6, <1>7, <1>8, <1>12 DEF Collects

\* ... and determined by the way it collects.
LEMMA Determined ==
  ASSUME NEW e, NEW s \in Seq(Handlers), NEW f, Collects(f, e, s)
  PROVE  Mine(e, s) = f[Len(s)]
<1>1. PICK g : Mine(e, s) = g[Len(s)] /\ Collects(g, e, s) BY MineIs
<1>2. Len(s) \in Nat OBVIOUS
<1> DEFINE Same(n) == n <= Len(s) => f[n] = g[n]
           S == {n \in Nat : Same(n)}
<1>3. Same(0) BY <1>1 DEF Collects
<1>4. ASSUME NEW n \in Nat, Same(n) PROVE Same(n + 1)
  <2> SUFFICES ASSUME n + 1 <= Len(s) PROVE f[n + 1] = g[n + 1] OBVIOUS
  <2>1. n + 1 \in 1..Len(s) /\ (n + 1) - 1 = n /\ n <= Len(s) BY <1>2
  <2>2. f[n + 1] = f[n] \o Seen(e, s[n + 1]) BY <2>1 DEF Collects
  <2>3. g[n + 1] = g[n] \o Seen(e, s[n + 1]) BY <1>1, <2>1 DEF Collects
  <2>4. f[n] = g[n] BY <1>4, <2>1
  <2> QED BY <2>2, <2>3, <2>4
<1>5. S = Nat
  <2> HIDE DEF Same
  <2>1. S \in SUBSET Nat /\ 0 \in S /\ \A n \in S : n + 1 \in S BY <1>3, <1>4
  <2> QED BY <2>1, SetInduction
<1>6. Same(Len(s))
  <2> HIDE DEF Same
  <2> QED BY <1>2, <1>5
<1> QED BY <1>1, <1>2, <1>6

LEMMA MineType ==
  ASSUME NEW e, NEW s \in Seq(Handlers)
  PROVE  Mine(e, s) \in Seq(Items)
<1>1. Len(s) \in 0..Len(s) OBVIOUS
<1> QED BY <1>1, MineIs

LEMMA MineAppend ==
  ASSUME NEW e, NEW s \in Seq(Handlers), NEW h \in Handlers
  PROVE  Mine(e, Append(s, h)) = Mine(e, s) \o Seen(e, h)
<1> DEFINE t == Append(s, h)
<1>1. /\ t \in Seq(Handlers) /\ Len(s) \in Nat /\ Len(t) = Len(s) + 1 /\ t[Len(s) + 1] = h
      /\ \A i \in 1..Len(s) : t[i] = s[i] /\ i \in 1..Len(t)
  OBVIOUS
<1> HIDE DEF t
<1>2. PICK f : Mine(e, t) = f[Len(t)] /\ Collects(f, e, t) BY <1>1, MineIs
<1>3. Collects(f, e, s) BY <1>1, <1>2 DEF Collects
<1>4. Mine(e, s) = f[Len(s)] BY <1>3, Determined
<1>5. Len(s) + 1 \in 1..Len(t) /\ (Len(s) + 1) - 1 = Len(s) BY <1>1
<1>6. f[Len(s) + 1] = f[Len(s)] \o Seen(e, h) BY <1>1, <1>2, <1>5 DEF Collects
<1> QED BY <1>1, <1>2, <1>4, <1>6 DEF t

LEMMA MineTail ==
  ASSUME NEW e, NEW s \in Seq(Handlers), s # <<>>
  PROVE  Mine(e, s) = Seen(e, Head(s)) \o Mine(e, Tail(s))
<1> DEFINE t == Tail(s)
           x == Head(s)
<1>1. /\ t \in Seq(Handlers) /\ Len(s) \in Nat /\ Len(s) >= 1 /\ Len(t) = Len(s) - 1
      /\ x = s[1] /\ x \in Handlers
      /\ \A i \in 1..Len(t) : t[i] = s[i + 1] /\ s[i + 1] \in Handlers
  OBVIOUS
<1> HIDE DEF t, x
<1>2. PICK g : /\ Mine(e, t) = g[Len(t)] /\ Collects(g, e, t)
               /\ \A i \in 0..Len(t) : g[i] \in Seq(Items)
  BY <1>1, MineIs
<1>3. Seen(e, x) \in Seq(Items) BY <1>1, SeenType
<1> DEFINE f == [i \in 0..Len(s) |-> IF i = 0 THEN <<>> ELSE Seen(e, x) \o g[i - 1]]
<1>start. 0 \in 0..Len(s) /\ \A i \in 1..Len(s) : i \in 0..Len(s) /\ i # 0 BY <1>1
<1>4. f[0] = <<>> /\ \A i \in 1..Len(s) : f[i] = Seen(e, x) \o g[i - 1] BY <1>start
<1> HIDE DEF f
<1>5. ASSUME NEW i \in 1..Len(s) PROVE f[i] = f[i - 1] \o Seen(e, s[i])
  <2>1. CASE i = 1
    <3>first. 1 \in 1..Len(s) /\ 1 - 1 = 0 BY <1>1
    <3>1. f[1] = Seen(e, x) \o g[0] /\ g[0] = <<>> BY <1>2, <1>4, <3>first DEF Collects
    <3>2. f[1] = Seen(e, x) BY <1>3, <3>1, ConcatEmptySeq
    <3>3. f[0] \o Seen(e, s[1]) = Seen(e, x) BY <1>1, <1>3, <1>4, ConcatEmptySeq
    <3> QED BY <2>1, <3>first, <3>2, <3>3
  <2>2. CASE i # 1
    <3> DEFINE k == i - 1
    <3>1. k \in 1..Len(t) /\ k \in 1..Len(s) /\ k + 1 = i /\ k - 1 \in 0..Len(t) BY <1>1, <2>2
    <3> HIDE DEF k
    <3>2. f[i] = Seen(e, x) \o g[k] BY <1>4 DEF k
    <3>3. g[k] = g[k - 1] \o Seen(e, s[i]) BY <1>1, <1>2, <3>1 DEF Collects
    <3>4. f[k] = Seen(e, x) \o g[k - 1] BY <1>4, <3>1
    <3>5. g[k - 1] \in Seq(Items) /\ Seen(e, s[i]) \in Seq(Items) BY <1>1, <1>2, <3>1, SeenType
    <3>6. ASSUME NEW a \in Seq(Items), NEW b \in Seq(Items), NEW c \in Seq(Items)
          PROVE  a \o (b \o c) = (a \o b) \o c
      OBVIOUS
    <3>7. Seen(e, x) \o (g[k - 1] \o Seen(e, s[i])) = (Seen(e, x) \o g[k - 1]) \o Seen(e, s[i])
      BY <1>3, <3>5, <3>6
    <3> QED BY <3>2, <3>3, <3>4, <3>7 DEF k
  <2> QED BY <2>1, <2>2
<1>6. Mine(e, s) = f[Len(s)] BY <1>4, <1>5, Determined DEF Collects
<1>end. Len(s) \in 1..Len(s) BY <1>1
<1>7. f[Len(s)] = Seen(e, x) \o g[Len(t)] BY <1>1, <1>4, <1>end
<1> QED BY <1>2, <1>6, <1>7 DEF t, x

\* A queue that holds starts only is nobody's.
LEMMA MineStarts ==
  ASSUME NEW e, NEW s \in Seq(Handlers), \A i \in 1..Len(s) : s[i].stage = "start"
  PROVE  Mine(e, s) = <<>>
<1> DEFINE f == [i \in 0..Len(s) |-> <<>>]
<1>1. Len(s) \in Nat /\ \A i \in 0..Len(s) : f[i] = <<>> OBVIOUS
<1> HIDE DEF f
<1>2. <<>> \o <<>> = <<>> OBVIOUS
<1>3. ASSUME NEW i \in 1..Len(s) PROVE f[i] = f[i - 1] \o Seen(e, s[i])
  <2>1. i \in 0..Len(s) /\ i - 1 \in 0..Len(s) BY <1>1
  <2>2. Seen(e, s[i]) = <<>> BY DEF Seen
  <2> QED BY <1>1, <1>2, <2>1, <2>2
<1>4. f[0] = <<>> BY <1>1
<1>5. Mine(e, s) = f[Len(s)] BY <1>3, <1>4, Determined DEF Collects
<1> QED BY <1>1, <1>5

-----------------------------------------------------------------------------
(* Each coroutine's token is a TimeoutProvider.                            *)

\* A provider fires only after its coroutine has begun.
NotYetFired == \A e \in Endpoints : ~Begun(e) => e \notin fired

LEMMA FiredKept ==
  ASSUME IInv, QInv, NotYetFired, [Next]_vars
  PROVE  NotYetFired'
<1>0. coro \in [Endpoints -> Coros] /\ fired \subseteq Endpoints BY DEF IInv, Types
<1> USE DEF NotYetFired, Begun
<1>1. CASE Resolve
  <2>1. fired' = fired /\ \A e \in Endpoints : coro[e] = "none"
    BY <1>1 DEF Resolve, IInv, NotYetSpawned
  <2> QED BY <2>1
<1>2. CASE Return \/ Ended \/ UNCHANGED vars
  <2>1. UNCHANGED <<coro, fired>> BY <1>2 DEF Return, Ended, vars
  <2> QED BY <2>1
<1>3. ASSUME NEW e \in Endpoints, ConnectEnds(e) \/ TimerExpires(e) PROVE NotYetFired'
  BY <1>0, <1>3 DEF ConnectEnds, TimerExpires
<1>4. ASSUME NEW e \in Endpoints,
             Start(e) \/ Resume(e) \/ Leave(e) \/ SkipAborted(e) \/ FireDangling(e)
      PROVE  NotYetFired'
  <2>1. fired' = fired /\ (coro' = coro \/ \E c : coro' = [coro EXCEPT ![e] = c] /\ c \notin {"none", "spawned"})
    BY <1>4 DEF Start, Resume, Leave, SkipAborted, FireDangling
  <2> QED BY <1>0, <2>1
<1>5. ASSUME NEW e \in Endpoints, FireAll(e) PROVE NotYetFired'
  <2>1. Has(ready, e, "total") BY <1>5, Dispatched DEF FireAll
  <2>2. coro[e] \notin {"none", "spawned"} BY <2>1 DEF QInv, Placed
  <2>3. fired' = fired \cup {e} /\ (coro' = coro \/ coro' = [coro EXCEPT ![e] = "queued"])
    BY <1>5 DEF FireAll
  <2> QED BY <1>0, <2>2, <2>3
<1> QED BY <1>1, <1>2, <1>3, <1>4, <1>5 DEF Next, Step

\* What the steps make of the queue of one token.
LEMMA QueueAppended ==
  ASSUME IInv, NEW d \in Endpoints, NEW h \in Handlers, ready' = Append(ready, h)
  PROVE  Queue(d)' = Queue(d) \o Seen(d, h)
BY MineAppend DEF IInv, Types, Queue

LEMMA TailAppended ==
  ASSUME IInv, NEW d \in Endpoints, NEW h \in Handlers,
         ready # <<>>, ready' = Append(Tail(ready), h)
  PROVE  Queue(d)' = Mine(d, Tail(ready)) \o Seen(d, h)
<1>1. Tail(ready) \in Seq(Handlers) BY DEF IInv, Types
<1> QED BY <1>1, MineAppend DEF Queue

LEMMA Seeing ==
  ASSUME NEW e, NEW stage, NEW ec
  PROVE  /\ \A d : d # e => Seen(d, Handler(e, stage, ec)) = <<>>
         /\ stage # "start"
              => Seen(e, Handler(e, stage, ec)) =
                   <<[stage |-> stage, op |-> 1, ec |-> IF ec = "aborted" THEN "aborted" ELSE "ok"]>>
BY DEF Seen, Handler

LEMMA NotDispatched ==
  ASSUME IInv, NEW e \in Endpoints, NEW stage, Dispatches(e, stage),
         NEW d \in Endpoints, d # e \/ stage = "start"
  PROVE  Queue(d) = Mine(d, Tail(ready)) /\ Queue(d) \in Seq(Items)
<1>1. ready \in Seq(Handlers) /\ ready # <<>> /\ Tail(ready) \in Seq(Handlers)
  BY DEF Dispatches, IInv, Types
<1>2. Seen(d, Head(ready)) = <<>> BY DEF Dispatches, Seen
<1>3. Mine(d, ready) = Seen(d, Head(ready)) \o Mine(d, Tail(ready)) BY <1>1, MineTail
<1>4. Mine(d, Tail(ready)) \in Seq(Items) BY <1>1, MineType
<1> QED BY <1>2, <1>3, <1>4, ConcatEmptySeq DEF Queue

LEMMA HeadOfToken ==
  ASSUME IInv, NEW e \in Endpoints, NEW stage \in {"binder", "total"}, Dispatches(e, stage)
  PROVE  /\ Queue(e) # <<>> /\ Tail(Queue(e)) = Mine(e, Tail(ready))
         /\ Mine(e, Tail(ready)) \in Seq(Items)
         /\ Head(Queue(e)) = [stage |-> stage, op |-> 1,
                              ec |-> IF Head(ready).ec = "aborted" THEN "aborted" ELSE "ok"]
<1> DEFINE x == [stage |-> stage, op |-> 1,
                 ec |-> IF Head(ready).ec = "aborted" THEN "aborted" ELSE "ok"]
           r == Mine(e, Tail(ready))
<1>1. ready \in Seq(Handlers) /\ ready # <<>> /\ Tail(ready) \in Seq(Handlers)
  BY DEF Dispatches, IInv, Types
<1>2. Seen(e, Head(ready)) = <<x>> BY DEF Dispatches, Seen
<1>3. Mine(e, ready) = Seen(e, Head(ready)) \o r BY <1>1, MineTail
<1>4. r \in Seq(Items) BY <1>1, MineType
<1>5. x \in Items BY DEF Items
<1> HIDE DEF x, r
<1>6. Queue(e) = <<x>> \o r BY <1>2, <1>3 DEF Queue
<1>7. <<x>> \o r # <<>> /\ Head(<<x>> \o r) = x /\ Tail(<<x>> \o r) = r BY <1>4, <1>5
<1> QED BY <1>4, <1>6, <1>7 DEF x, r

\* What a token does not see.
LEMMA Elsewhere ==
  ASSUME NEW d \in Endpoints, coro'[d] = coro[d], logged'[d] = logged[d],
         d \in waiting' <=> d \in waiting, d \in fired' <=> d \in fired,
         d \in misused' <=> d \in misused, Queue(d)' = Queue(d)
  PROVE  UNCHANGED Token(d)!vars
BY DEF Token!vars, Token!provider, Token!client, Begun

TokenStep(d) == Token(d)!Next \/ UNCHANGED Token(d)!vars

LEMMA TokenInit ==
  ASSUME Init, NEW e \in Endpoints
  PROVE  Token(e)!Init
<1>1. Queue(e) = <<>>
  <2>1. <<>> \in Seq(Handlers) /\ \A i \in 1..Len(<<>>) : <<>>[i].stage = "start" OBVIOUS
  <2> QED BY <2>1, MineStarts DEF Init, Queue
<1> QED BY <1>1 DEF Init, Token!Init, Token!NoWait, Begun

\* The steps of main() leave every token where it is.
LEMMA MainSteps ==
  ASSUME IInv, QInv, NEW d \in Endpoints, Resolve \/ Return \/ Ended \/ UNCHANGED vars
  PROVE  TokenStep(d)
<1>1. CASE Return \/ Ended \/ UNCHANGED vars
  <2>1. UNCHANGED vars \/ (Return /\ UNCHANGED <<coro, waiting, fired, ready, logged, misused>>)
    BY <1>1 DEF Return, Ended
  <2>2. UNCHANGED <<coro, waiting, fired, ready, logged, misused>> BY <2>1 DEF vars
  <2>3. Queue(d)' = Queue(d) BY <2>2 DEF Queue
  <2> QED BY <2>2, <2>3, Elsewhere DEF TokenStep
<1>2. CASE Resolve
  <2>1. UNCHANGED <<waiting, fired, logged, misused>> BY <1>2 DEF Resolve
  <2>2. CASE UNCHANGED <<coro, ready>>
    <3>1. Queue(d)' = Queue(d) BY <2>2 DEF Queue
    <3> QED BY <2>1, <2>2, <3>1, Elsewhere DEF TokenStep
  <2>3. ASSUME NEW n \in 0..NEndpoints,
               coro' = [e \in Endpoints |-> IF e <= n THEN "spawned" ELSE "none"],
               ready' = [e \in 1..n |-> Handler(e, "start", "ok")],
               main = "resolving"
        PROVE  TokenStep(d)
    <3>1. coro[d] = "none" /\ coro'[d] \in {"none", "spawned"} BY <2>3 DEF IInv, NotYetSpawned
    <3>2. \A i \in 1..n : ready'[i].stage = "start" /\ ready'[i] \in Handlers
      <4>1. \A i \in 1..n : i \in Endpoints BY NEndpointsAssumption DEF Endpoints
      <4> QED BY <2>3, <4>1, HandlerType DEF Outcomes, Handler
    <3>3. ready' \in Seq(Handlers) /\ Len(ready') = n BY <2>3, <3>2
    <3>4. Mine(d, ready') = <<>> BY <3>2, <3>3, MineStarts
    <3>5. Mine(d, ready) = <<>>
      <4>1. ready \in Seq(Handlers) /\ \A e \in Endpoints : coro[e] = "none"
        BY <2>3 DEF IInv, Types, NotYetSpawned
      <4>2. ASSUME NEW i \in 1..Len(ready) PROVE FALSE
        <5>1. ready[i] \in Handlers /\ i \in DOMAIN ready BY <4>1
        <5>2. Has(ready, ready[i].ep, ready[i].stage) BY <5>1 DEF Has
        <5> QED BY <4>1, <5>1, <5>2 DEF QInv, Placed, Handlers
      <4> QED BY <4>1, <4>2, MineStarts
    <3> QED BY <2>1, <3>1, <3>4, <3>5 DEF TokenStep, Queue, Begun, Token!vars, Token!provider, Token!client
  <2> QED BY <1>2, <2>2, <2>3 DEF Resolve
<1> QED BY <1>1, <1>2

LEMMA TokenFinishes ==
  ASSUME IInv, NEW e \in Endpoints, ConnectEnds(e)
  PROVE  \A d \in Endpoints : TokenStep(d)
<1>1. /\ coro[e] = "pending" /\ coro' = [coro EXCEPT ![e] = "queued"]
      /\ UNCHANGED <<waiting, fired, logged, misused>>
  BY DEF ConnectEnds
<1>2. PICK ec \in {"ok", "failed"} : ready' = Append(ready, Handler(e, "binder", ec))
  BY DEF ConnectEnds
<1> DEFINE h == Handler(e, "binder", ec)
<1>3. h \in Handlers BY HandlerType DEF Outcomes
<1>4. Seen(e, h) = <<[stage |-> "binder", op |-> 1, ec |-> "ok"]>> BY Seeing
<1>5. \A d : d # e => Seen(d, h) = <<>> BY Seeing
<1> HIDE DEF h
<1>6. \A d \in Endpoints : Queue(d)' = Queue(d) \o Seen(d, h) /\ Queue(d) \in Seq(Items)
  BY <1>2, <1>3, QueueAppended, MineType DEF h, Queue, IInv, Types
<1>7. coro \in [Endpoints -> Coros] BY DEF IInv, Types
<1>8. ASSUME NEW d \in Endpoints, d # e PROVE TokenStep(d)
  <2>1. Queue(d)' = Queue(d) BY <1>5, <1>6, <1>8, ConcatEmptySeq
  <2> QED BY <1>1, <1>7, <1>8, <2>1, Elsewhere DEF TokenStep
<1>9. Token(e)!OperationFinishes
  <2> DEFINE b == [stage |-> "binder", op |-> 1, ec |-> "ok"]
  <2>1. b \in Items BY DEF Items
  <2>2. Queue(e)' = Append(Queue(e), b)
    <3> HIDE DEF b
    <3>1. Queue(e)' = Queue(e) \o <<b>> /\ Queue(e) \in Seq(Items) BY <1>4, <1>6 DEF b
    <3> QED BY <2>1, <3>1
  <2>3. coro'[e] = "queued" BY <1>1, <1>7
  <2> QED BY <1>1, <2>2, <2>3
          DEF Token!OperationFinishes, Token!Binder, Token!provider, Token!client, Begun
<1> QED BY <1>8, <1>9 DEF TokenStep, Token!Next

LEMMA TokenExpires ==
  ASSUME IInv, NEW e \in Endpoints, TimerExpires(e)
  PROVE  \A d \in Endpoints : TokenStep(d)
<1>1. /\ e \in waiting /\ waiting' = waiting \ {e}
      /\ ready' = Append(ready, Handler(e, "total", "ok"))
      /\ UNCHANGED <<coro, fired, logged, misused>>
  BY DEF TimerExpires
<1> DEFINE h == Handler(e, "total", "ok")
<1>2. h \in Handlers BY HandlerType DEF Outcomes
<1>3. Seen(e, h) = <<[stage |-> "total", op |-> 1, ec |-> "ok"]>> BY Seeing
<1>4. \A d : d # e => Seen(d, h) = <<>> BY Seeing
<1> HIDE DEF h
<1>5. \A d \in Endpoints : Queue(d)' = Queue(d) \o Seen(d, h) /\ Queue(d) \in Seq(Items)
  BY <1>1, <1>2, QueueAppended, MineType DEF h, Queue, IInv, Types
<1>6. ASSUME NEW d \in Endpoints, d # e PROVE TokenStep(d)
  <2>1. Queue(d)' = Queue(d) BY <1>4, <1>5, <1>6, ConcatEmptySeq
  <2> QED BY <1>1, <1>6, <2>1, Elsewhere DEF TokenStep
<1>7. Token(e)!TimerExpires
  <2> DEFINE b == [stage |-> "total", op |-> 1, ec |-> "ok"]
  <2>1. b \in Items BY DEF Items
  <2>2. Queue(e)' = Append(Queue(e), b)
    <3> HIDE DEF b
    <3>1. Queue(e)' = Queue(e) \o <<b>> /\ Queue(e) \in Seq(Items) BY <1>3, <1>5 DEF b
    <3> QED BY <2>1, <3>1
  <2> QED BY <1>1, <2>2
          DEF Token!TimerExpires, Token!Completed, Token!NoWait, Token!provider, Token!client, Begun
<1> QED BY <1>6, <1>7 DEF TokenStep, Token!Next

\* Start is the one operation; as_result in its token hides the slot.
LEMMA TokenInitiates ==
  ASSUME IInv, QInv, NotYetFired, NEW e \in Endpoints, Start(e)
  PROVE  \A d \in Endpoints : TokenStep(d)
<1>1. /\ Dispatches(e, "start") /\ coro' = [coro EXCEPT ![e] = "pending"]
      /\ waiting' = waiting \cup {e} /\ ready' = Tail(ready)
      /\ UNCHANGED <<fired, logged, misused>>
  BY DEF Start
<1>2. coro \in [Endpoints -> Coros] BY DEF IInv, Types
<1>3. \A d \in Endpoints : Queue(d)' = Queue(d) /\ Queue(d) \in Seq(Items)
  BY <1>1, NotDispatched DEF Queue
<1>4. ASSUME NEW d \in Endpoints, d # e PROVE TokenStep(d)
  BY <1>1, <1>2, <1>3, <1>4, Elsewhere DEF TokenStep
<1>5. Token(e)!Initiate(FALSE, TRUE, AllBits)
  <2>1. coro[e] = "spawned" BY <1>1, Dispatched DEF QInv, Placed
  <2>2. e \notin waiting /\ e \notin fired /\ e \notin misused
    BY <1>1, <2>1 DEF IInv, NoTimerOutlives, NotYetFired, Begun, Dispatches, Runs
  <2>3. coro'[e] = "pending" BY <1>1, <1>2
  <2>4. Queue(e)' = Queue(e) \o <<>> BY <1>3, ConcatEmptySeq
  <2>5. ~Begun(e) /\ Begun(e)' BY <2>1, <2>3 DEF Begun
  <2>6. Token(e)!TimerQueues = <<>> BY <2>2 DEF Token!TimerQueues, Token!NoWait
  <2>7. Token(e)!Arm(FALSE \/ Token(e)!Slot(FALSE, TRUE))
    BY <1>1, <2>2, <2>4, <2>5, <2>6 DEF Token!Arm, Token!Slot
  <2>8. (Begun(e)' = TRUE) /\ (Begun(e) = FALSE) BY <2>1, <2>3 DEF Begun
  <2>9. (IF Begun(e) THEN 1 ELSE 0) < 1 /\ (IF Begun(e) THEN 1 ELSE 0)' = (IF Begun(e) THEN 1 ELSE 0) + 1
    BY <2>5
  <2> QED BY <1>1, <2>1, <2>2, <2>3, <2>7, <2>8, <2>9 DEF Token!Initiate
<1> QED BY <1>4, <1>5 DEF TokenStep, Token!Next, Token!Bits, AllBits

LEMMA TokenResumes ==
  ASSUME IInv, QInv, NEW e \in Endpoints, Resume(e)
  PROVE  \A d \in Endpoints : TokenStep(d)
<1>1. /\ Dispatches(e, "binder") /\ coro' = [coro EXCEPT ![e] = "leaving"]
      /\ waiting' = waiting \ {e} /\ logged' = [logged EXCEPT ![e] = Head(ready).ec]
      /\ ready' = Tail(ready) \o IF e \in waiting THEN <<Handler(e, "total", "aborted")>> ELSE <<>>
      /\ UNCHANGED <<fired, misused>>
  BY DEF Resume
<1>2. /\ coro \in [Endpoints -> Coros] /\ logged \in [Endpoints -> Outcomes \cup {"nothing"}]
      /\ ready \in Seq(Handlers) /\ ready # <<>> /\ Tail(ready) \in Seq(Handlers)
      /\ Head(ready).ec \in Outcomes /\ misused = {}
  BY <1>1, HeadType DEF IInv, Types, Dispatches, Runs
<1> DEFINE h == Handler(e, "total", "aborted")
           x == [stage |-> "total", op |-> 1, ec |-> "aborted"]
<1>3. h \in Handlers BY HandlerType DEF Outcomes
<1>4. Seen(e, h) = <<x>> /\ \A d : d # e => Seen(d, h) = <<>> BY Seeing
<1> HIDE DEF h, x
<1>5. ready' = IF e \in waiting THEN Append(Tail(ready), h) ELSE Tail(ready)
  BY <1>1, <1>2, <1>3 DEF h
<1>6. ASSUME NEW d \in Endpoints, d # e PROVE TokenStep(d)
  <2>1. Queue(d) = Mine(d, Tail(ready)) /\ Queue(d) \in Seq(Items)
    BY <1>1, <1>6, NotDispatched
  <2>2. CASE e \in waiting
    <3>1. Queue(d)' = Queue(d) \o <<>> BY <1>2, <1>3, <1>4, <1>5, <1>6, <2>1, <2>2, TailAppended
    <3> QED BY <1>1, <1>2, <1>6, <2>1, <3>1, ConcatEmptySeq, Elsewhere DEF TokenStep
  <2>3. CASE e \notin waiting
    <3>1. Queue(d)' = Queue(d) BY <1>5, <2>1, <2>3 DEF Queue
    <3> QED BY <1>1, <1>2, <1>6, <3>1, Elsewhere DEF TokenStep
  <2> QED BY <2>2, <2>3
<1>7. Token(e)!RunBinder
  <2> DEFINE ec == IF Head(ready).ec = "aborted" THEN "aborted" ELSE "ok"
  <2>1. ec \in {"ok", "aborted"} OBVIOUS
  <2>2. /\ Queue(e) # <<>> /\ Tail(Queue(e)) = Mine(e, Tail(ready))
        /\ Mine(e, Tail(ready)) \in Seq(Items)
        /\ Head(Queue(e)) = [stage |-> "binder", op |-> 1, ec |-> ec]
    BY <1>1, HeadOfToken
  <2>3. coro[e] = "queued" BY <1>1, Dispatched DEF QInv, Placed
  <2>4. coro'[e] = "leaving" /\ logged'[e] = Head(ready).ec BY <1>1, <1>2
  <2>5. Token(e)!Running("binder", ec) BY <2>2 DEF Token!Running
  <2>6. (IF logged[e] = "nothing" THEN "none" ELSE IF logged[e] = "aborted" THEN "aborted" ELSE "ok")' = ec
    BY <1>2, <2>4 DEF Outcomes
  <2>7. Queue(e)' = Tail(Queue(e)) \o Token(e)!TimerQueues
    <3>1. CASE e \in waiting
      <4>1. Token(e)!TimerQueues = <<x>>
        BY <3>1 DEF Token!TimerQueues, Token!Completed, Token!NoWait, x
      <4> QED BY <1>2, <1>3, <1>4, <1>5, <2>2, <3>1, <4>1, TailAppended
    <3>2. CASE e \notin waiting
      <4>1. Token(e)!TimerQueues = <<>> BY <3>2 DEF Token!TimerQueues, Token!NoWait
      <4> QED BY <1>5, <2>2, <3>2, <4>1, ConcatEmptySeq DEF Queue
    <3> QED BY <3>1, <3>2
  <2> HIDE DEF ec
  <2> QED BY <1>1, <1>2, <2>1, <2>3, <2>4, <2>5, <2>6, <2>7
          DEF Token!RunBinder, Token!NoWait, Token!client, Begun
<1> QED BY <1>6, <1>7 DEF TokenStep, Token!Next, Token!RunHandler

\* The provider is destroyed with the frame.
LEMMA TokenLeaves ==
  ASSUME IInv, QInv, NEW e \in Endpoints, Leave(e)
  PROVE  \A d \in Endpoints : TokenStep(d)
<1>1. /\ coro[e] = "leaving" /\ coro' = [coro EXCEPT ![e] = "done"] /\ misused = {}
      /\ UNCHANGED <<waiting, fired, ready, logged, misused>>
  BY DEF Leave, Runs
<1>2. coro \in [Endpoints -> Coros] BY DEF IInv, Types
<1>3. \A d \in Endpoints : Queue(d)' = Queue(d) /\ Queue(d) \in Seq(Items)
  BY <1>1, MineType DEF Queue, IInv, Types
<1>4. ASSUME NEW d \in Endpoints, d # e PROVE TokenStep(d)
  BY <1>1, <1>2, <1>3, <1>4, Elsewhere DEF TokenStep
<1>5. Token(e)!Destroy
  <2>1. coro'[e] = "done" BY <1>1, <1>2
  <2>2. e \notin waiting BY <1>1 DEF IInv, NoTimerOutlives
  <2>3. Token(e)!TimerQueues = <<>> BY <2>2 DEF Token!TimerQueues, Token!NoWait
  <2>4. Queue(e)' = Queue(e) \o Token(e)!TimerQueues BY <1>3, <2>3, ConcatEmptySeq
  <2> QED BY <1>1, <2>1, <2>2, <2>4 DEF Token!Destroy, Token!NoWait, Token!client, Begun
<1> QED BY <1>4, <1>5 DEF TokenStep, Token!Next

LEMMA TokenSkips ==
  ASSUME IInv, NEW e \in Endpoints, SkipAborted(e)
  PROVE  \A d \in Endpoints : TokenStep(d)
<1>1. /\ Dispatches(e, "total") /\ Head(ready).ec = "aborted" /\ ready' = Tail(ready)
      /\ UNCHANGED <<coro, waiting, fired, logged, misused>>
  BY DEF SkipAborted
<1>2. ASSUME NEW d \in Endpoints, d # e PROVE TokenStep(d)
  <2>1. Queue(d)' = Queue(d) BY <1>1, <1>2, NotDispatched DEF Queue
  <2> QED BY <1>1, <2>1, Elsewhere DEF TokenStep
<1>3. Token(e)!SkipAborted
  <2>1. /\ Queue(e) # <<>> /\ Tail(Queue(e)) = Mine(e, Tail(ready))
        /\ Head(Queue(e)) = [stage |-> "total", op |-> 1, ec |-> "aborted"]
    BY <1>1, HeadOfToken
  <2>2. Token(e)!Running("total", "aborted") BY <2>1 DEF Token!Running
  <2>3. Queue(e)' = Tail(Queue(e)) BY <1>1, <2>1 DEF Queue
  <2> QED BY <1>1, <2>2, <2>3
          DEF Token!SkipAborted, Token!Stages, Token!provider, Token!client, Begun
<1> QED BY <1>2, <1>3 DEF TokenStep, Token!Next, Token!RunHandler

LEMMA TokenFires ==
  ASSUME IInv, QInv, NEW e \in Endpoints, FireAll(e)
  PROVE  \A d \in Endpoints : TokenStep(d)
<1>1. /\ Dispatches(e, "total") /\ Head(ready).ec = "ok" /\ coro[e] # "done"
      /\ fired' = fired \cup {e} /\ UNCHANGED <<waiting, logged, misused>>
  BY DEF FireAll
<1>2. /\ coro \in [Endpoints -> Coros] /\ misused = {}
      /\ ready \in Seq(Handlers) /\ ready # <<>> /\ Tail(ready) \in Seq(Handlers)
  BY <1>1 DEF IInv, Types, Dispatches, Runs
<1> DEFINE h == Handler(e, "binder", "aborted")
           x == [stage |-> "binder", op |-> 1, ec |-> "aborted"]
<1>3. h \in Handlers BY HandlerType DEF Outcomes
<1>4. Seen(e, h) = <<x>> /\ \A d : d # e => Seen(d, h) = <<>> BY Seeing
<1> HIDE DEF h, x
<1>5. /\ coro[e] = "pending" => /\ coro' = [coro EXCEPT ![e] = "queued"]
                                /\ ready' = Append(Tail(ready), h)
      /\ coro[e] # "pending" => coro' = coro /\ ready' = Tail(ready)
  BY DEF FireAll, h
<1>6. ASSUME NEW d \in Endpoints, d # e PROVE TokenStep(d)
  <2>1. Queue(d) = Mine(d, Tail(ready)) /\ Queue(d) \in Seq(Items)
    BY <1>1, <1>6, NotDispatched
  <2>2. CASE coro[e] = "pending"
    <3>1. Queue(d)' = Queue(d) \o <<>> BY <1>2, <1>3, <1>4, <1>5, <1>6, <2>1, <2>2, TailAppended
    <3> QED BY <1>1, <1>2, <1>5, <1>6, <2>1, <2>2, <3>1, ConcatEmptySeq, Elsewhere DEF TokenStep
  <2>3. CASE coro[e] # "pending"
    <3>1. Queue(d)' = Queue(d) BY <1>5, <2>1, <2>3 DEF Queue
    <3> QED BY <1>1, <1>2, <1>5, <1>6, <2>3, <3>1, Elsewhere DEF TokenStep
  <2> QED BY <2>2, <2>3
<1>7. Token(e)!FireLast("total", AllBits)
  <2>1. /\ Queue(e) # <<>> /\ Tail(Queue(e)) = Mine(e, Tail(ready))
        /\ Mine(e, Tail(ready)) \in Seq(Items)
        /\ Head(Queue(e)) = [stage |-> "total", op |-> 1, ec |-> "ok"]
    BY <1>1, HeadOfToken
  <2>2. Token(e)!Running("total", "ok") BY <2>1 DEF Token!Running
  <2>3. Begun(e)
    <3>1. Has(ready, e, "total") BY <1>1, Dispatched
    <3> QED BY <3>1 DEF QInv, Placed, Begun
  <2>4. Token(e)!Cancels(AllBits) <=> coro[e] = "pending"
    BY <2>3 DEF Token!Cancels, AllBits
  <2>5. Queue(e)' = Tail(Queue(e)) \o Token(e)!EmitQueues(AllBits)
    <3>1. CASE coro[e] = "pending"
      <4>1. Token(e)!EmitQueues(AllBits) = <<x>>
        BY <2>3, <2>4, <3>1 DEF Token!EmitQueues, Token!Binder, x
      <4> QED BY <1>2, <1>3, <1>4, <1>5, <2>1, <3>1, <4>1, TailAppended
    <3>2. CASE coro[e] # "pending"
      <4>1. Token(e)!EmitQueues(AllBits) = <<>> BY <2>4, <3>2 DEF Token!EmitQueues
      <4> QED BY <1>5, <2>1, <3>2, <4>1, ConcatEmptySeq DEF Queue
    <3> QED BY <3>1, <3>2
  <2>6. coro'[e] = IF coro[e] = "pending" THEN "queued" ELSE coro[e] BY <1>2, <1>5
  <2>7. Begun(e)' BY <2>3, <2>6 DEF Begun
  <2>8. Token(e)!Emit(AllBits) BY <1>1, <2>4, <2>6 DEF Token!Emit, AllBits
  <2>9. coro'[e] # "done" /\ e \notin misused /\ e \notin misused' /\ e \in fired' BY <1>1, <1>2, <2>6
  <2> QED BY <1>1, <2>2, <2>3, <2>5, <2>7, <2>8, <2>9 DEF Token!FireLast, Token!client
<1>8. Token(e)!FireAll BY <1>7 DEF Token!FireAll, Token!Bits, AllBits
<1> QED BY <1>6, <1>8 DEF TokenStep, Token!Next, Token!RunHandler

LEMMA TokenDangles ==
  ASSUME IInv, NEW e \in Endpoints, FireDangling(e)
  PROVE  \A d \in Endpoints : TokenStep(d)
<1>1. /\ Dispatches(e, "total") /\ Head(ready).ec = "ok" /\ coro[e] = "done"
      /\ misused' = misused \cup {e} /\ misused = {}
      /\ UNCHANGED <<coro, waiting, fired, ready, logged>>
  BY DEF FireDangling, Dispatches, Runs
<1>2. \A d \in Endpoints : Queue(d)' = Queue(d) BY <1>1 DEF Queue
<1>3. ASSUME NEW d \in Endpoints, d # e PROVE TokenStep(d)
  BY <1>1, <1>2, <1>3, Elsewhere DEF TokenStep
<1>4. Token(e)!FireDangling
  <2>1. /\ Queue(e) # <<>>
        /\ Head(Queue(e)) = [stage |-> "total", op |-> 1, ec |-> "ok"]
    BY <1>1, HeadOfToken
  <2>2. Token(e)!Running("total", "ok") BY <2>1 DEF Token!Running
  <2> QED BY <1>1, <1>2, <2>2 DEF Token!FireDangling, Token!Stages, Token!client, Begun
<1> QED BY <1>3, <1>4 DEF TokenStep, Token!Next, Token!RunHandler

-----------------------------------------------------------------------------
(* Through its copy of TimeoutProvider, each coroutine has what            *)
(* TimedOperation promises.                                                *)

KeepsThePromise ==
  /\ \A e \in Endpoints : Token(e)!Promise!Init
  /\ [][\A e \in Endpoints : Token(e)!Promise!Next \/ UNCHANGED Token(e)!Promise!vars]_vars

PromiseStep(d) == Token(d)!Promise!Next \/ UNCHANGED Token(d)!Promise!vars

LEMMA PromiseElsewhere ==
  ASSUME NEW d \in Endpoints,
         coro'[d] = coro[d], logged'[d] = logged[d], d \in fired' <=> d \in fired
  PROVE  PromiseStep(d)
BY DEF PromiseStep, Token!Promise!vars, Begun

\* No operation is under way, before the step or after it.
LEMMA PromiseIdle ==
  ASSUME NEW d \in Endpoints, {coro[d], coro'[d]} \subseteq {"none", "spawned"} \/
                              {coro[d], coro'[d]} \subseteq {"leaving", "done"},
         logged'[d] = logged[d]
  PROVE  PromiseStep(d)
BY DEF PromiseStep, Token!Promise!vars, Begun

LEMMA PromiseQueued ==
  ASSUME NEW d \in Endpoints, coro[d] = "pending", coro'[d] = "queued",
         logged'[d] = logged[d], fired' = fired
  PROVE  PromiseStep(d)
BY DEF PromiseStep, Token!Promise!vars, Begun

LEMMA PromiseStarts ==
  ASSUME NEW d \in Endpoints, coro[d] = "spawned", coro'[d] = "pending",
         logged'[d] = logged[d], d \notin fired'
  PROVE  PromiseStep(d)
BY DEF PromiseStep, Token!Promise!Next, Token!Promise!Start, Token!Bits, AllBits, Begun

LEMMA PromiseRequests ==
  ASSUME NEW d \in Endpoints, coro[d] \in {"pending", "queued"}, coro'[d] = "queued",
         logged'[d] = logged[d], d \in fired'
  PROVE  PromiseStep(d)
<1>1. Token(d)!Promise!Request(AllBits) BY DEF Token!Promise!Request, Begun
<1> QED BY <1>1 DEF PromiseStep, Token!Promise!Next, Token!Promise!Requests, Token!Bits, AllBits

LEMMA PromiseFinishes ==
  ASSUME NEW d \in Endpoints, coro[d] = "queued", coro'[d] = "leaving",
         logged'[d] \in Outcomes, logged'[d] = "aborted" => d \in fired
  PROVE  PromiseStep(d)
<1>1. \E r \in {"ok", "aborted"} : Token(d)!Promise!Finish(r)
  BY DEF Token!Promise!Finish, Token!Promise!Answered, Begun, AllBits, Outcomes
<1> QED BY <1>1 DEF PromiseStep, Token!Promise!Next, Token!Promise!Finishes

LEMMA PromiseHolds ==
  ASSUME IInv, QInv, NotYetFired, [Next]_vars, NEW d \in Endpoints
  PROVE  PromiseStep(d)
<1>0. /\ coro \in [Endpoints -> Coros] /\ logged \in [Endpoints -> Outcomes \cup {"nothing"}]
      /\ ready \in Seq(Handlers)
  BY DEF IInv, Types
<1>1. CASE Return \/ Ended \/ UNCHANGED vars
  <2>1. UNCHANGED <<coro, logged, fired>> BY <1>1 DEF Return, Ended, vars
  <2> QED BY <2>1, PromiseElsewhere
<1>2. CASE Resolve
  <2>1. /\ coro[d] = "none" /\ coro'[d] \in {"none", "spawned"} /\ logged' = logged
    BY <1>2 DEF Resolve, IInv, NotYetSpawned
  <2> QED BY <2>1, PromiseIdle
<1>3. ASSUME NEW e \in Endpoints, ConnectEnds(e) \/ TimerExpires(e) \/ Step(e) PROVE PromiseStep(d)
  <2>1. CASE ConnectEnds(e)
    <3>1. CASE d = e BY <1>0, <2>1, <3>1, PromiseQueued DEF ConnectEnds
    <3>2. CASE d # e BY <1>0, <2>1, <3>2, PromiseElsewhere DEF ConnectEnds
    <3> QED BY <3>1, <3>2
  <2>2. CASE TimerExpires(e) \/ SkipAborted(e) \/ FireDangling(e)
    <3>1. UNCHANGED <<coro, logged, fired>> BY <2>2 DEF TimerExpires, SkipAborted, FireDangling
    <3> QED BY <3>1, PromiseElsewhere
  <2>3. CASE Start(e)
    <3>1. coro' = [coro EXCEPT ![e] = "pending"] /\ UNCHANGED <<logged, fired>>
      BY <2>3 DEF Start
    <3>2. coro[e] = "spawned"
      <4>1. Has(ready, e, "start") BY <1>0, <2>3 DEF Start, Dispatches, Has
      <4> QED BY <4>1 DEF QInv, Placed
    <3>3. e \notin fired BY <3>2 DEF NotYetFired, Begun
    <3>4. CASE d = e BY <1>0, <3>1, <3>2, <3>3, <3>4, PromiseStarts
    <3>5. CASE d # e BY <1>0, <3>1, <3>5, PromiseElsewhere
    <3> QED BY <3>4, <3>5
  <2>4. CASE Resume(e)
    <3>1. /\ coro' = [coro EXCEPT ![e] = "leaving"] /\ fired' = fired
          /\ logged' = [logged EXCEPT ![e] = Head(ready).ec]
          /\ ready # <<>> /\ Head(ready).ep = e /\ Head(ready).stage = "binder"
      BY <2>4 DEF Resume, Dispatches
    <3>2. 1 \in DOMAIN ready /\ Head(ready) = ready[1] /\ ready[1] \in Handlers BY <1>0, <3>1
    <3>3. coro[e] = "queued"
      <4>1. Has(ready, e, "binder") BY <3>1, <3>2 DEF Has
      <4> QED BY <4>1 DEF QInv, Placed
    <3>4. Head(ready).ec \in Outcomes /\ (Head(ready).ec = "aborted" => e \in fired)
      BY <3>1, <3>2 DEF IInv, AbortsAreFired, Handlers
    <3>5. CASE d = e BY <1>0, <3>1, <3>3, <3>4, <3>5, PromiseFinishes
    <3>6. CASE d # e BY <1>0, <3>1, <3>6, PromiseElsewhere
    <3> QED BY <3>5, <3>6
  <2>5. CASE Leave(e)
    <3>1. CASE d = e BY <1>0, <2>5, <3>1, PromiseIdle DEF Leave
    <3>2. CASE d # e BY <1>0, <2>5, <3>2, PromiseElsewhere DEF Leave
    <3> QED BY <3>1, <3>2
  <2>6. CASE FireAll(e)
    <3>1. /\ fired' = fired \cup {e} /\ logged' = logged /\ coro[e] # "done"
          /\ coro' = IF coro[e] = "pending" THEN [coro EXCEPT ![e] = "queued"] ELSE coro
      BY <2>6 DEF FireAll
    <3>2. coro[e] \in {"pending", "queued", "leaving"}
      <4>1. Has(ready, e, "total") BY <1>0, <2>6 DEF FireAll, Dispatches, Has
      <4>2. coro[e] \in Coros /\ coro[e] \notin {"none", "spawned"}
        BY <1>0, <4>1 DEF QInv, Placed
      <4> QED BY <3>1, <4>2 DEF Coros
    <3>3. CASE d # e BY <1>0, <3>1, <3>3, PromiseElsewhere
    <3>4. CASE d = e /\ coro[e] = "leaving" BY <3>1, <3>4, PromiseIdle
    <3>5. CASE d = e /\ coro[e] # "leaving" BY <1>0, <3>1, <3>2, <3>5, PromiseRequests
    <3> QED BY <3>3, <3>4, <3>5
  <2> QED BY <1>3, <2>1, <2>2, <2>3, <2>4, <2>5, <2>6 DEF Step
<1> QED BY <1>1, <1>2, <1>3 DEF Next

-----------------------------------------------------------------------------
\* The inductive invariant holds, however many names resolve to however many
\* endpoints and however their handlers are queued.
THEOREM Invariance == Spec => []IInv
BY InitHolds, StepHolds, PTL DEF Spec

\* The timeout of one coroutine aborts the connect of no other.
THEOREM OwnTimeoutOnly == Spec => []AbortIsOwnTimeout
<1>1. IInv => AbortIsOwnTimeout
  BY DEF IInv
<1> QED BY <1>1, Invariance, PTL

\* run() does not return before every coroutine has logged its outcome.
THEOREM AllLogged == Spec => []ReturnLogsAll
<1>1. IInv => ReturnLogsAll
  BY DEF IInv
<1> QED BY <1>1, Invariance, PTL

\* No timer runs on for a coroutine whose connect is over.
THEOREM TimersEnd == Spec => []NoTimerOutlives
<1>1. IInv => NoTimerOutlives
  BY DEF IInv
<1> QED BY <1>1, Invariance, PTL

LEMMA QueueInvariance == Spec => []QInv
BY Invariance, QueueInit, QueueKept, PTL DEF Spec

\* TypeOK: the queue never holds two handlers of one kind for one coroutine:
\* arm() is called once, and a wait that has its handler in the queue, expired
\* or cancelled by with_timeout_binder, is not outstanding.
THEOREM TypeCorrect == Spec => []TypeOK
<1>1. IInv /\ QInv => TypeOK
  BY DEF IInv, Types, Coros, Handlers, QInv, Unique, TypeOK
<1> QED BY <1>1, Invariance, QueueInvariance, PTL

LEMMA FiredInvariance == Spec => []NotYetFired
<1>1. Init => NotYetFired BY DEF Init, NotYetFired
<1> QED BY <1>1, FiredKept, Invariance, QueueInvariance, PTL DEF Spec

\* EachIsAToken: with several coroutines' handlers interleaved in one queue,
\* what with_timeout, its binder and the frame's end do to each provider are
\* steps of one TimeoutProvider that nobody else touches.
THEOREM TokensRefine == Spec => EachIsAToken
<1>1. Init => \A e \in Endpoints : Token(e)!Init BY TokenInit
<1>2. ASSUME IInv, QInv, NotYetFired, [Next]_vars PROVE \A d \in Endpoints : TokenStep(d)
  BY <1>2, MainSteps, TokenFinishes, TokenExpires, TokenInitiates, TokenResumes, TokenLeaves,
     TokenSkips, TokenFires, TokenDangles DEF Next, Step
<1>3. ASSUME IInv, QInv, NotYetFired, [Next]_vars
      PROVE  [\A e \in Endpoints : Token(e)!Next \/ UNCHANGED Token(e)!vars]_vars
  BY <1>2, <1>3 DEF TokenStep
<1> QED BY <1>1, <1>3, Invariance, QueueInvariance, FiredInvariance, PTL DEF Spec, EachIsAToken

\* However the coroutines interleave, each co_await through with_timeout keeps
\* what TimedOperation promises: the connect completes once, and is reported
\* aborted only after its own provider has asked for it.
THEOREM PromiseKept == Spec => KeepsThePromise
<1>1. ASSUME Init, NEW e \in Endpoints PROVE Token(e)!Promise!Init
  BY <1>1 DEF Init, Token!Promise!Init, Begun
<1>2. Init => \A e \in Endpoints : Token(e)!Promise!Init BY <1>1
<1>3. ASSUME IInv, QInv, NotYetFired, [Next]_vars
      PROVE  [\A e \in Endpoints : Token(e)!Promise!Next \/ UNCHANGED Token(e)!Promise!vars]_vars
  BY <1>3, PromiseHolds DEF PromiseStep
<1> QED BY <1>2, <1>3, Invariance, QueueInvariance, FiredInvariance, PTL DEF Spec, KeepsThePromise
=============================================================================
