------------------------ MODULE AsyncConnectorProofs ------------------------
(***************************************************************************)
(* Proofs, for any number of hosts and endpoints, of the safety properties *)
(* of AsyncConnector.                                                      *)
(***************************************************************************)
EXTENDS AsyncConnector, SequenceTheorems, WellFoundedInduction, TLAPS

(* The inductive invariant.                                                *)

Types ==
  /\ timer \in {"pending", "expired", "done"}
  /\ resolves \in [Hosts -> {"pending", "cancelled", "queued", "done"}]
  /\ connects \in [Endpoints -> {"none", "pending", "queued", "done"}]
  /\ open \subseteq Endpoints /\ reported \subseteq Hosts \X (0..MaxEndpoints)
  /\ sockets \in Seq(Endpoints) /\ ready \in Seq(Handlers)
  /\ stopped \in BOOLEAN /\ returned \in BOOLEAN /\ threw \in BOOLEAN

\* Every socket ever opened is in _sockets, once.
SocketsOK ==
  /\ ToSet(sockets) = {e \in Endpoints : connects[e] # "none"} /\ IsInjective(sockets)
  /\ open \subseteq ToSet(sockets)

\* The operation a handler completes, and the operations whose handler is due:
\* the queue holds one handler of each of these and no other.
Op(h) == CASE h.kind = "resolve" -> <<h.host, 0>>
           [] h.kind = "connect" -> h.endpoint
           [] OTHER              -> <<0, 0>>
Ops(s) == [i \in DOMAIN s |-> Op(s[i])]
Due ==
  {<<h, 0>> : h \in {g \in Hosts : resolves[g] = "queued"}}
  \cup {e \in Endpoints : connects[e] = "queued"}
  \cup {o \in {<<0, 0>>} : timer = "expired"}
QueueOK == IsInjective(Ops(ready)) /\ ToSet(Ops(ready)) = Due

\* No connect before its host is resolved; what is done has its line in the log.
NotYetConnected ==
  \A h \in Hosts : resolves[h] # "done" => \A i \in 1..MaxEndpoints : connects[<<h, i>>] = "none"
ResolvedIsLogged ==
  \A h \in Hosts : resolves[h] = "done" =>
    <<h, 0>> \in reported \/ \E i \in 1..MaxEndpoints : connects[<<h, i>>] # "none"
ConnectedIsLogged == \A e \in Endpoints : connects[e] = "done" => e \in reported

\* run() returned for one of its two reasons, and nothing moves afterwards.
StopIsTimeout == stopped => timer = "done"
ReturnedIdle  == returned => stopped \/ Idle

IInv ==
  /\ Types /\ SocketsOK /\ QueueOK
  /\ NotYetConnected /\ ResolvedIsLogged /\ ConnectedIsLogged
  /\ StopIsTimeout /\ ReturnedIdle /\ StopClosesAll

-----------------------------------------------------------------------------
(* Handlers and the queue.                                                 *)

LEMMA HandlerOps ==
  /\ \A h \in Hosts, n \in 0..MaxEndpoints :
       Resolved(h, n) \in Handlers /\ Op(Resolved(h, n)) = <<h, 0>>
  /\ \A e \in Endpoints, ok \in BOOLEAN :
       Connected(e, ok) \in Handlers /\ Op(Connected(e, ok)) = e
  /\ Timeout \in Handlers /\ Op(Timeout) = <<0, 0>>
<1>1. ASSUME NEW h \in Hosts, NEW n \in 0..MaxEndpoints
      PROVE  Resolved(h, n) \in Handlers /\ Op(Resolved(h, n)) = <<h, 0>>
  <2>1. Resolved(h, n).kind = "resolve" /\ Resolved(h, n).host = h BY DEF Resolved
  <2> QED BY <2>1 DEF Handlers, Op
<1>2. ASSUME NEW e \in Endpoints, NEW ok \in BOOLEAN
      PROVE  Connected(e, ok) \in Handlers /\ Op(Connected(e, ok)) = e
  <2>1. Connected(e, ok).kind = "connect" /\ Connected(e, ok).endpoint = e BY DEF Connected
  <2> QED BY <2>1 DEF Handlers, Op
<1>3. Timeout \in Handlers /\ Op(Timeout) = <<0, 0>>
  <2>1. Timeout.kind = "timeout" BY DEF Timeout
  <2> QED BY <2>1 DEF Handlers, Op
<1> QED BY <1>1, <1>2, <1>3

\* No two operations that are due are confused.
LEMMA DueOps ==
  /\ \A h \in Hosts : <<h, 0>> \in Due <=> resolves[h] = "queued"
  /\ \A e \in Endpoints : e \in Due <=> connects[e] = "queued"
  /\ <<0, 0>> \in Due <=> timer = "expired"
<1>1. \A e \in Endpoints : e \in Hosts \X Nat /\ e[2] # 0 BY SizesAssumption DEF Endpoints
<1>2. \A h \in Hosts : h \in Nat \ {0} /\ <<h, 0>> \notin Endpoints
  BY SizesAssumption DEF Hosts, Endpoints
<1>3. <<0, 0>> \notin Endpoints BY SizesAssumption DEF Endpoints
<1> QED BY <1>1, <1>2, <1>3 DEF Due

LEMMA Enqueue ==
  ASSUME NEW s \in Seq(Handlers), NEW x \in Handlers,
         IsInjective(Ops(s)), Op(x) \notin ToSet(Ops(s))
  PROVE  /\ Append(s, x) \in Seq(Handlers) /\ IsInjective(Ops(Append(s, x)))
         /\ ToSet(Ops(Append(s, x))) = ToSet(Ops(s)) \cup {Op(x)}
<1> DEFINE t == Append(s, x)
<1>1. /\ t \in Seq(Handlers) /\ DOMAIN t = 1..(Len(s) + 1) /\ DOMAIN s = 1..Len(s) /\ Len(s) \in Nat
      /\ \A i \in DOMAIN s : t[i] = s[i]
      /\ t[Len(s) + 1] = x
  OBVIOUS
<1> HIDE DEF t
<1>2. \A i \in DOMAIN t : i \in DOMAIN s \/ i = Len(s) + 1 BY <1>1
<1>3. DOMAIN s \subseteq DOMAIN t /\ Len(s) + 1 \in DOMAIN t BY <1>1
<1>4. ToSet(Ops(t)) = ToSet(Ops(s)) \cup {Op(x)} BY <1>1, <1>2, <1>3 DEF ToSet, Ops
<1>5. IsInjective(Ops(t)) BY <1>1, <1>2, <1>3 DEF IsInjective, ToSet, Ops
<1> QED BY <1>1, <1>4, <1>5 DEF t

LEMMA Dequeue ==
  ASSUME NEW s \in Seq(Handlers), s # <<>>, IsInjective(Ops(s))
  PROVE  /\ Head(s) \in Handlers /\ Op(Head(s)) \in ToSet(Ops(s))
         /\ Tail(s) \in Seq(Handlers) /\ IsInjective(Ops(Tail(s)))
         /\ ToSet(Ops(Tail(s))) = ToSet(Ops(s)) \ {Op(Head(s))}
<1> DEFINE t == Tail(s)
<1>1. /\ t \in Seq(Handlers) /\ DOMAIN t = 1..(Len(s) - 1) /\ DOMAIN s = 1..Len(s)
      /\ Len(s) \in Nat \ {0} /\ Head(s) = s[1] /\ Head(s) \in Handlers
      /\ \A i \in 1..(Len(s) - 1) : t[i] = s[i + 1]
  OBVIOUS
<1> HIDE DEF t
<1>2. \A i \in DOMAIN t : i + 1 \in DOMAIN s /\ i + 1 # 1 /\ t[i] = s[i + 1] BY <1>1
<1>3. \A i \in DOMAIN s : i = 1 \/ (i - 1 \in DOMAIN t /\ t[i - 1] = s[i]) BY <1>1
<1>4. 1 \in DOMAIN s BY <1>1
<1>5. ToSet(Ops(t)) = ToSet(Ops(s)) \ {Op(Head(s))}
  <2>1. ToSet(Ops(t)) \subseteq ToSet(Ops(s)) \ {Op(Head(s))}
    BY <1>1, <1>2, <1>4 DEF ToSet, Ops, IsInjective
  <2>2. ToSet(Ops(s)) \ {Op(Head(s))} \subseteq ToSet(Ops(t)) BY <1>1, <1>3 DEF ToSet, Ops
  <2> QED BY <2>1, <2>2
<1>6. IsInjective(Ops(t))
  <2> SUFFICES ASSUME NEW i \in DOMAIN t, NEW j \in DOMAIN t, Op(t[i]) = Op(t[j]) PROVE i = j
    BY DEF IsInjective, Ops
  <2>1. i + 1 = j + 1 BY <1>2 DEF IsInjective, Ops
  <2> QED BY <2>1, <1>1
<1>7. Op(Head(s)) \in ToSet(Ops(s)) BY <1>1, <1>4 DEF ToSet, Ops
<1> QED BY <1>1, <1>5, <1>6, <1>7 DEF t

LEMMA Join ==
  ASSUME NEW S, NEW s \in Seq(S), NEW t \in Seq(S),
         IsInjective(s), IsInjective(t), ToSet(s) \cap ToSet(t) = {}
  PROVE  /\ s \o t \in Seq(S) /\ IsInjective(s \o t) /\ ToSet(s \o t) = ToSet(s) \cup ToSet(t)
<1> DEFINE u == s \o t
           n == Len(s)
<1>1. /\ u \in Seq(S) /\ n \in Nat /\ Len(t) \in Nat
      /\ DOMAIN u = 1..(n + Len(t)) /\ DOMAIN s = 1..n /\ DOMAIN t = 1..Len(t)
      /\ \A i \in 1..(n + Len(t)) : u[i] = IF i <= n THEN s[i] ELSE t[i - n]
  BY ConcatProperties
<1> HIDE DEF u, n
<1>2. ASSUME NEW i \in DOMAIN u
      PROVE  (i \in DOMAIN s /\ u[i] = s[i]) \/ (i - n \in DOMAIN t /\ u[i] = t[i - n] /\ i \in Nat)
  BY <1>1
<1>3. \A i \in DOMAIN s : i \in DOMAIN u /\ u[i] = s[i] BY <1>1
<1>4. ASSUME NEW i \in DOMAIN t PROVE n + i \in DOMAIN u /\ u[n + i] = t[i]
  <2>1. n + i \in 1..(n + Len(t)) /\ ~(n + i <= n) /\ (n + i) - n = i BY <1>1
  <2> QED BY <2>1, <1>1
<1>5. \A i \in DOMAIN s, j \in DOMAIN t : s[i] # t[j] BY DEF ToSet
<1>6. ToSet(u) = ToSet(s) \cup ToSet(t) BY <1>2, <1>3, <1>4 DEF ToSet
<1>7. IsInjective(u)
  <2> SUFFICES ASSUME NEW i \in DOMAIN u, NEW j \in DOMAIN u, u[i] = u[j] PROVE i = j
    BY DEF IsInjective
  <2>1. CASE i \in DOMAIN s /\ j \in DOMAIN s BY <2>1, <1>3 DEF IsInjective
  <2>2. CASE ~(i \in DOMAIN s) /\ ~(j \in DOMAIN s)
    <3>1. i - n = j - n BY <2>2, <1>2 DEF IsInjective
    <3> QED BY <3>1, <2>2, <1>1, <1>2
  <2>3. CASE i \in DOMAIN s /\ ~(j \in DOMAIN s) BY <2>3, <1>2, <1>3, <1>5
  <2>4. CASE ~(i \in DOMAIN s) /\ j \in DOMAIN s BY <2>4, <1>2, <1>3, <1>5
  <2> QED BY <2>1, <2>2, <2>3, <2>4
<1> QED BY <1>1, <1>6, <1>7 DEF u

LEMMA Concatenate ==
  ASSUME NEW s \in Seq(Handlers), NEW t \in Seq(Handlers),
         IsInjective(Ops(s)), IsInjective(Ops(t)), ToSet(Ops(s)) \cap ToSet(Ops(t)) = {}
  PROVE  /\ s \o t \in Seq(Handlers) /\ IsInjective(Ops(s \o t))
         /\ ToSet(Ops(s \o t)) = ToSet(Ops(s)) \cup ToSet(Ops(t))
<1> DEFINE S == {Op(h) : h \in Handlers}
<1>1. ASSUME NEW r \in Seq(Handlers)
      PROVE  Ops(r) \in Seq(S) /\ Len(Ops(r)) = Len(r) /\ \A i \in 1..Len(r) : Ops(r)[i] = Op(r[i])
  BY DEF Ops
<1>2. s \o t \in Seq(Handlers) /\ Len(s \o t) = Len(s) + Len(t)
      /\ \A i \in 1..(Len(s) + Len(t)) : (s \o t)[i] = IF i <= Len(s) THEN s[i] ELSE t[i - Len(s)]
  BY ConcatProperties
<1> HIDE DEF S
<1>types. Ops(s) \in Seq(S) /\ Ops(t) \in Seq(S) /\ Len(Ops(s)) = Len(s) /\ Len(Ops(t)) = Len(t) BY <1>1
<1>3. /\ Ops(s) \o Ops(t) \in Seq(S) /\ Len(Ops(s) \o Ops(t)) = Len(s) + Len(t)
      /\ \A i \in 1..(Len(s) + Len(t)) :
           (Ops(s) \o Ops(t))[i] = IF i <= Len(s) THEN Ops(s)[i] ELSE Ops(t)[i - Len(s)]
  <2> DEFINE a == Ops(s)
             b == Ops(t)
  <2> HIDE DEF a, b
  <2>1. a \in Seq(S) /\ b \in Seq(S) /\ Len(a) = Len(s) /\ Len(b) = Len(t) BY <1>types DEF a, b
  <2>2. /\ a \o b \in Seq(S) /\ Len(a \o b) = Len(a) + Len(b)
        /\ \A i \in 1..(Len(a) + Len(b)) : (a \o b)[i] = IF i <= Len(a) THEN a[i] ELSE b[i - Len(a)]
    BY <2>1, ConcatProperties
  <2> QED BY <2>1, <2>2 DEF a, b
<1>4. ASSUME NEW i \in 1..(Len(s) + Len(t)) PROVE Ops(s \o t)[i] = (Ops(s) \o Ops(t))[i]
  <2>1. CASE i <= Len(s)
    <3>1. i \in 1..Len(s) BY <2>1
    <3> QED BY <3>1, <2>1, <1>1, <1>2, <1>3
  <2>2. CASE ~(i <= Len(s))
    <3>1. i - Len(s) \in 1..Len(t) BY <2>2
    <3> QED BY <3>1, <2>2, <1>1, <1>2, <1>3
  <2> QED BY <2>1, <2>2
<1>5. Ops(s \o t) \in Seq(S) /\ Len(Ops(s \o t)) = Len(s) + Len(t) BY <1>1, <1>2
<1>6. Ops(s \o t) = Ops(s) \o Ops(t) BY <1>3, <1>4, <1>5, SeqEqual
<1> QED BY <1>1, <1>2, <1>6, Join

-----------------------------------------------------------------------------
(* What closing the first k sockets queues.                                *)

\* Induction over the natural numbers, from their being well-founded.
LEMMA SetInduction ==
  ASSUME NEW S \in SUBSET Nat, 0 \in S, \A n \in S : n + 1 \in S
  PROVE  S = Nat
<1> SUFFICES ASSUME Nat \ S # {} PROVE FALSE OBVIOUS
<1>1. PICK n \in Nat \ S : \A m \in Nat \ S : ~(<<m, n>> \in OpToRel(<, Nat))
  <2>1. IsWellFoundedOn(OpToRel(<, Nat), Nat) BY NatLessThanWellFounded
  <2> QED BY <2>1, WFMin
<1>2. \A m \in Nat \ S : ~(m < n) BY <1>1 DEF OpToRel
<1>3. n # 0 /\ n - 1 \in Nat /\ n - 1 < n /\ (n - 1) + 1 = n OBVIOUS
<1>4. n - 1 \in S BY <1>2, <1>3
<1> QED BY <1>3, <1>4

\* The loop over _sockets is well-defined.
LEMMA AbortedIs ==
  ASSUME sockets \in Seq(Endpoints), NEW k \in 0..Len(sockets)
  PROVE  Aborted[k] = IF k = 0 THEN <<>>
                      ELSE IF connects[sockets[k]] = "pending"
                           THEN Append(Aborted[k - 1], Connected(sockets[k], FALSE))
                           ELSE Aborted[k - 1]
<1> DEFINE After(i, s) == IF connects[sockets[i]] = "pending"
                          THEN Append(s, Connected(sockets[i], FALSE)) ELSE s
           Up(n) == \E f : f = [i \in 0..n |-> IF i = 0 THEN <<>> ELSE After(i, f[i - 1])]
           S == {n \in Nat : Up(n)}
<1>1. Up(0)
  <2> DEFINE g == [i \in 0..0 |-> <<>>]
  <2>1. g = [i \in 0..0 |-> IF i = 0 THEN <<>> ELSE After(i, g[i - 1])] OBVIOUS
  <2> QED BY <2>1
<1>2. ASSUME NEW n \in Nat, Up(n) PROVE Up(n + 1)
  <2>1. PICK f : f = [i \in 0..n |-> IF i = 0 THEN <<>> ELSE After(i, f[i - 1])] BY <1>2
  <2> HIDE DEF After
  <2> DEFINE g == [i \in 0..(n + 1) |-> IF i <= n THEN f[i] ELSE After(n + 1, f[n])]
  <2>2. ASSUME NEW i \in 0..(n + 1)
        PROVE  g[i] = IF i = 0 THEN <<>> ELSE After(i, g[i - 1])
    <3>1. CASE i = 0 BY <3>1, <2>1
    <3>2. CASE i # 0 /\ i <= n
      <4>1. i \in 0..n /\ i - 1 \in 0..(n + 1) /\ i - 1 <= n BY <3>2
      <4>2. g[i] = f[i] /\ g[i - 1] = f[i - 1] BY <4>1
      <4>3. f[i] = After(i, f[i - 1]) BY <2>1, <4>1, <3>2
      <4> QED BY <4>2, <4>3, <3>2
    <3>3. CASE ~(i <= n)
      <4>1. i = n + 1 /\ i - 1 = n /\ n \in 0..(n + 1) /\ i # 0 BY <3>3
      <4>2. g[i] = After(n + 1, f[n]) /\ g[n] = f[n] BY <3>3, <4>1
      <4> QED BY <4>1, <4>2
    <3> QED BY <3>1, <3>2, <3>3
  <2>3. g = [i \in 0..(n + 1) |-> IF i = 0 THEN <<>> ELSE After(i, g[i - 1])] BY <2>2
  <2> QED BY <2>3 DEF After
<1>3. S = Nat
  <2> HIDE DEF Up
  <2>1. S \in SUBSET Nat /\ 0 \in S /\ \A n \in S : n + 1 \in S BY <1>1, <1>2
  <2> QED BY <2>1, SetInduction
<1>4. Len(sockets) \in Nat OBVIOUS
<1>5. Up(Len(sockets)) BY <1>3, <1>4
<1>6. Aborted = [i \in 0..Len(sockets) |-> IF i = 0 THEN <<>> ELSE After(i, Aborted[i - 1])]
  BY <1>5 DEF Aborted
<1> HIDE DEF Up, S
<1> QED BY <1>6

LEMMA AbortedQueues ==
  ASSUME IInv, NEW k \in 0..Len(sockets)
  PROVE  /\ Aborted[k] \in Seq(Handlers) /\ IsInjective(Ops(Aborted[k]))
         /\ ToSet(Ops(Aborted[k])) =
              {e \in Endpoints : connects[e] = "pending" /\ e \in {sockets[i] : i \in 1..k}}
<1> DEFINE Closed(n) == {sockets[i] : i \in 1..n}
           Good(n) ==
             /\ Aborted[n] \in Seq(Handlers) /\ IsInjective(Ops(Aborted[n]))
             /\ ToSet(Ops(Aborted[n])) = {e \in Endpoints : connects[e] = "pending" /\ e \in Closed(n)}
           S == {n \in Nat : n <= Len(sockets) => Good(n)}
<1>1. /\ sockets \in Seq(Endpoints) /\ Len(sockets) \in Nat /\ DOMAIN sockets = 1..Len(sockets)
      /\ \A i \in 1..Len(sockets) : sockets[i] \in Endpoints
      /\ \A i, j \in 1..Len(sockets) : sockets[i] = sockets[j] => i = j
  BY DEF IInv, Types, SocketsOK, IsInjective
<1>2. 0 \in S
  <2>1. 0 \in 0..Len(sockets) BY <1>1
  <2>2. Aborted[0] = <<>> BY <1>1, <2>1, AbortedIs
  <2>3. Good(0) BY <2>2 DEF Ops, ToSet, IsInjective
  <2> QED BY <2>3
<1>3. ASSUME NEW n \in S PROVE n + 1 \in S
  <2> SUFFICES ASSUME n + 1 <= Len(sockets) PROVE Good(n + 1) BY DEF S
  <2> DEFINE e == sockets[n + 1]
  <2>1. n \in Nat /\ n + 1 \in 1..Len(sockets) /\ n + 1 \in 0..Len(sockets) /\ n + 1 # 0 /\ (n + 1) - 1 = n
    BY <1>1
  <2>2. Good(n) BY <1>1, <2>1
  <2>3. e \in Endpoints /\ e \notin Closed(n) /\ Closed(n + 1) = Closed(n) \cup {e}
    <3>1. \A i \in 1..n : i \in 1..Len(sockets) /\ i # n + 1 BY <1>1, <2>1
    <3>2. 1..(n + 1) = (1..n) \cup {n + 1} BY <2>1
    <3> QED BY <1>1, <2>1, <3>1, <3>2
  <2>4. Aborted[n + 1] = IF connects[e] = "pending"
                         THEN Append(Aborted[n], Connected(e, FALSE)) ELSE Aborted[n]
    BY <1>1, <2>1, AbortedIs
  <2> HIDE DEF Closed, e
  <2>5. CASE connects[e] = "pending"
    <3> DEFINE x == Connected(e, FALSE)
    <3>1. x \in Handlers /\ Op(x) = e BY <2>3, HandlerOps
    <3> HIDE DEF x
    <3>2. Op(x) \notin ToSet(Ops(Aborted[n])) BY <2>2, <2>3, <3>1
    <3>3. /\ Append(Aborted[n], x) \in Seq(Handlers) /\ IsInjective(Ops(Append(Aborted[n], x)))
          /\ ToSet(Ops(Append(Aborted[n], x))) = ToSet(Ops(Aborted[n])) \cup {e}
      BY <2>2, <3>1, <3>2, Enqueue
    <3>4. Aborted[n + 1] = Append(Aborted[n], x) BY <2>4, <2>5 DEF x
    <3> QED BY <2>2, <2>3, <2>5, <3>3, <3>4
  <2>6. CASE connects[e] # "pending" BY <2>2, <2>3, <2>4, <2>6
  <2> QED BY <2>5, <2>6
<1>4. S = Nat
  <2> HIDE DEF Good
  <2>1. S \in SUBSET Nat OBVIOUS
  <2> HIDE DEF S
  <2> QED BY <1>2, <1>3, <2>1, SetInduction
<1>5. k \in Nat /\ k <= Len(sockets) BY <1>1
<1> QED BY <1>4, <1>5

-----------------------------------------------------------------------------
(* The steps.                                                              *)

LEMMA InitHolds == Init => IInv
<1> SUFFICES ASSUME Init PROVE IInv OBVIOUS
<1>1. Types
  <2>1. sockets \in Seq(Endpoints) /\ ready \in Seq(Handlers) BY DEF Init
  <2>2. /\ resolves \in [Hosts -> {"pending", "cancelled", "queued", "done"}]
        /\ connects \in [Endpoints -> {"none", "pending", "queued", "done"}]
    BY DEF Init
  <2> QED BY <2>1, <2>2 DEF Init, Types
<1>2. SocketsOK BY DEF Init, SocketsOK, ToSet, IsInjective
<1>3. QueueOK
  <2>1. Due = {} BY DEF Init, Due
  <2> QED BY <2>1 DEF Init, QueueOK, Ops, ToSet, IsInjective
<1>4. NotYetConnected BY DEF Init, NotYetConnected, Endpoints
<1> QED BY <1>1, <1>2, <1>3, <1>4
        DEF Init, IInv, ResolvedIsLogged, ConnectedIsLogged, StopIsTimeout, ReturnedIdle, StopClosesAll

\* The handler at the head of the queue, and the queue without it.
LEMMA HeadOps ==
  ASSUME IInv, ready # <<>>
  PROVE  /\ Head(ready) \in Handlers /\ Op(Head(ready)) \in Due
         /\ Tail(ready) \in Seq(Handlers) /\ IsInjective(Ops(Tail(ready)))
         /\ ToSet(Ops(Tail(ready))) = Due \ {Op(Head(ready))}
BY Dequeue DEF IInv, Types, QueueOK

LEMMA HeadResolve ==
  ASSUME IInv, Runs("resolve")
  PROVE  \E h \in Hosts, n \in 0..MaxEndpoints :
           Head(ready) = Resolved(h, n) /\ Op(Head(ready)) = <<h, 0>> /\ resolves[h] = "queued"
<1>1. ready # <<>> /\ Head(ready).kind = "resolve" BY DEF Runs
<1>2. PICK h \in Hosts, n \in 0..MaxEndpoints : Head(ready) = Resolved(h, n)
  BY <1>1, HeadOps DEF Handlers, Connected, Timeout
<1>3. Op(Head(ready)) = <<h, 0>> BY <1>2, HandlerOps
<1> QED BY <1>1, <1>2, <1>3, HeadOps, DueOps

LEMMA HeadConnect ==
  ASSUME IInv, Runs("connect")
  PROVE  /\ Head(ready).endpoint \in Endpoints /\ Op(Head(ready)) = Head(ready).endpoint
         /\ connects[Head(ready).endpoint] = "queued"
<1>1. ready # <<>> /\ Head(ready).kind = "connect" BY DEF Runs
<1>2. PICK e \in Endpoints, ok \in BOOLEAN : Head(ready) = Connected(e, ok)
  BY <1>1, HeadOps DEF Handlers, Resolved, Timeout
<1>3. Op(Head(ready)) = e /\ Head(ready).endpoint = e BY <1>2, HandlerOps DEF Connected
<1> QED BY <1>1, <1>2, <1>3, HeadOps, DueOps

LEMMA HeadTimeout ==
  ASSUME IInv, Runs("timeout")
  PROVE  Op(Head(ready)) = <<0, 0>> /\ timer = "expired"
<1>1. ready # <<>> /\ Head(ready).kind = "timeout" BY DEF Runs
<1>2. Head(ready) = Timeout BY <1>1, HeadOps DEF Handlers, Resolved, Connected
<1> QED BY <1>1, <1>2, HandlerOps, HeadOps, DueOps

LEMMA ResolveEndsKeeps ==
  ASSUME IInv, NEW h \in Hosts, ResolveEnds(h)
  PROVE  IInv'
<1> USE DEF IInv, network, history
<1>1. PICK n \in 0..MaxEndpoints : ready' = Append(ready, Resolved(h, n)) BY DEF ResolveEnds
<1>2. resolves[h] \in {"pending", "cancelled"} /\ resolves' = [resolves EXCEPT ![h] = "queued"]
  BY DEF ResolveEnds, InFlight
<1>3. <<h, 0>> \notin Due BY <1>2, DueOps
<1>4. /\ ready' \in Seq(Handlers) /\ IsInjective(Ops(ready'))
      /\ ToSet(Ops(ready')) = Due \cup {<<h, 0>>}
  <2> DEFINE x == Resolved(h, n)
  <2>1. x \in Handlers /\ Op(x) = <<h, 0>> BY HandlerOps
  <2>2. ready' = Append(ready, x) BY <1>1
  <2> HIDE DEF x
  <2> QED BY <2>1, <2>2, <1>3, Enqueue DEF Types, QueueOK
<1>5. Due' = Due \cup {<<h, 0>>} BY <1>2 DEF Due, ResolveEnds, Types
<1>6. QueueOK' BY <1>4, <1>5 DEF QueueOK
<1>7. Types' BY <1>2, <1>4 DEF ResolveEnds, Types
<1>8. NotYetConnected' /\ ResolvedIsLogged' /\ ConnectedIsLogged'
  BY <1>2 DEF ResolveEnds, NotYetConnected, ResolvedIsLogged, ConnectedIsLogged, Types
<1>9. SocketsOK' /\ StopIsTimeout' /\ ReturnedIdle' /\ StopClosesAll'
  BY DEF ResolveEnds, SocketsOK, StopIsTimeout, ReturnedIdle, StopClosesAll
<1> QED BY <1>6, <1>7, <1>8, <1>9

LEMMA ConnectEndsKeeps ==
  ASSUME IInv, NEW e \in Endpoints, ConnectEnds(e)
  PROVE  IInv'
<1> USE DEF IInv, network, history
<1>1. PICK ok \in BOOLEAN : ready' = Append(ready, Connected(e, ok)) BY DEF ConnectEnds
<1>2. connects[e] = "pending" /\ connects' = [connects EXCEPT ![e] = "queued"] BY DEF ConnectEnds
<1>3. e \notin Due BY <1>2, DueOps
<1>4. /\ ready' \in Seq(Handlers) /\ IsInjective(Ops(ready'))
      /\ ToSet(Ops(ready')) = Due \cup {e}
  BY <1>1, <1>3, HandlerOps, Enqueue DEF Types, QueueOK
<1>5. Due' = Due \cup {e} BY <1>2 DEF Due, ConnectEnds, Types
<1>6. QueueOK' BY <1>4, <1>5 DEF QueueOK
<1>7. Types' BY <1>2, <1>4 DEF ConnectEnds, Types
<1>8. ASSUME NEW h \in Hosts, NEW i \in 1..MaxEndpoints
      PROVE  <<h, i>> \in Endpoints /\ (connects'[<<h, i>>] = "none" <=> connects[<<h, i>>] = "none")
  BY <1>2 DEF Types, Endpoints
<1>9. NotYetConnected' /\ ResolvedIsLogged'
  BY <1>8 DEF ConnectEnds, NotYetConnected, ResolvedIsLogged
<1>10. ConnectedIsLogged' BY <1>2 DEF ConnectEnds, ConnectedIsLogged, Types
<1>11. SocketsOK' BY <1>2 DEF ConnectEnds, SocketsOK, Types
<1>12. StopIsTimeout' /\ ReturnedIdle' /\ StopClosesAll'
  BY DEF ConnectEnds, StopIsTimeout, ReturnedIdle, StopClosesAll
<1> QED BY <1>6, <1>7, <1>9, <1>10, <1>11, <1>12

LEMMA TimerExpiresKeeps ==
  ASSUME IInv, TimerExpires
  PROVE  IInv'
<1> USE DEF IInv, network, history, TimerExpires
<1>1. <<0, 0>> \notin Due BY DueOps
<1>2. /\ ready' \in Seq(Handlers) /\ IsInjective(Ops(ready'))
      /\ ToSet(Ops(ready')) = Due \cup {<<0, 0>>}
  BY <1>1, HandlerOps, Enqueue DEF Types, QueueOK
<1>3. Due' = Due \cup {<<0, 0>>} BY DEF Due
<1>4. QueueOK' BY <1>2, <1>3 DEF QueueOK
<1>5. Types' BY <1>2 DEF Types
<1> QED BY <1>4, <1>5 DEF SocketsOK, NotYetConnected, ResolvedIsLogged, ConnectedIsLogged,
           StopIsTimeout, ReturnedIdle, StopClosesAll

\* Every socket a host's endpoints get is new, and has its place in _sockets.
LEMMA HandleResolveKeeps ==
  ASSUME IInv, HandleResolve
  PROVE  IInv'
<1> USE DEF IInv, network, history
<1>1. PICK h \in Hosts, n \in 0..MaxEndpoints :
         Head(ready) = Resolved(h, n) /\ Op(Head(ready)) = <<h, 0>> /\ resolves[h] = "queued"
  BY HeadResolve DEF HandleResolve
<1> DEFINE new == {h} \X (1..n)
           more == [i \in 1..n |-> <<h, i>>]
<1>2. Head(ready).host = h /\ Head(ready).n = n BY <1>1 DEF Resolved
<1>3. /\ resolves' = [resolves EXCEPT ![h] = "done"]
      /\ connects' = [e \in Endpoints |-> IF e \in new THEN "pending" ELSE connects[e]]
      /\ open' = open \cup new /\ sockets' = sockets \o more
      /\ reported' = IF new = {} THEN reported \cup {<<h, 0>>} ELSE reported
      /\ ready' = Tail(ready) /\ ready # <<>>
      /\ UNCHANGED <<timer, stopped, returned, threw>> /\ ~stopped /\ ~returned
  BY <1>2 DEF HandleResolve, Runs
<1>4. n \in Nat /\ n <= MaxEndpoints /\ \A i \in 1..n : i \in 1..MaxEndpoints BY SizesAssumption
<1>5. new \subseteq Endpoints /\ \A e \in new : connects[e] = "none"
  BY <1>1, <1>4 DEF Endpoints, NotYetConnected
<1>6. more \in Seq(Endpoints) /\ ToSet(more) = new /\ IsInjective(more)
  <2>1. more \in [1..n -> Endpoints] BY <1>4 DEF Endpoints
  <2>2. ToSet(more) = new BY <1>4 DEF ToSet
  <2> QED BY <2>1, <2>2, <1>4 DEF IsInjective
<1> HIDE DEF more
<1>7. n = 0 => new = {} OBVIOUS
<1>8. <<h, 1>> \in new \/ n = 0 BY <1>4
<1> HIDE DEF new
<1>9. SocketsOK'
  <2>1. ToSet(sockets) \cap ToSet(more) = {} BY <1>5, <1>6 DEF SocketsOK
  <2>2. IsInjective(sockets') /\ ToSet(sockets') = ToSet(sockets) \cup new
    BY <1>3, <1>6, <2>1, Join DEF SocketsOK, Types
  <2>3. ToSet(sockets') = {e \in Endpoints : connects'[e] # "none"}
    BY <1>3, <1>5, <2>2 DEF SocketsOK
  <2> QED BY <1>3, <2>2, <2>3 DEF SocketsOK
<1>10. QueueOK'
  <2>1. <<h, 0>> \notin Endpoints BY SizesAssumption DEF Endpoints
  <2>2. <<h, 0>> # <<0, 0>> /\ \A g \in Hosts : <<g, 0>> = <<h, 0>> => g = h
    BY SizesAssumption DEF Hosts
  <2>3. Due' = Due \ {<<h, 0>>} BY <1>3, <1>5, <2>1, <2>2 DEF Due, Types
  <2> QED BY <1>1, <1>3, <2>3, HeadOps DEF QueueOK
<1>11. Types'
  <2>1. sockets' \in Seq(Endpoints) BY <1>3, <1>6, ConcatProperties DEF Types
  <2>2. reported' \subseteq Hosts \X (0..MaxEndpoints) BY <1>3, SizesAssumption DEF Types
  <2> QED BY <1>3, <1>5, <2>1, <2>2, HeadOps DEF Types
<1>12. NotYetConnected'
  <2> SUFFICES ASSUME NEW g \in Hosts, resolves'[g] # "done", NEW i \in 1..MaxEndpoints
               PROVE  connects'[<<g, i>>] = "none"
    BY DEF NotYetConnected
  <2>1. g # h /\ resolves[g] # "done" BY <1>3 DEF Types
  <2>2. <<g, i>> \in Endpoints /\ <<g, i>> \notin new BY <2>1 DEF Endpoints, new
  <2> QED BY <1>3, <2>1, <2>2 DEF NotYetConnected
<1>13. ResolvedIsLogged'
  <2> SUFFICES ASSUME NEW g \in Hosts, resolves'[g] = "done"
               PROVE  <<g, 0>> \in reported' \/ \E i \in 1..MaxEndpoints : connects'[<<g, i>>] # "none"
    BY DEF ResolvedIsLogged
  <2>1. CASE g = h /\ n = 0 BY <2>1, <1>3, <1>7
  <2>2. CASE g = h /\ n # 0
    <3>1. <<h, 1>> \in new /\ <<h, 1>> \in Endpoints /\ 1 \in 1..MaxEndpoints
      BY <2>2, <1>4, <1>5, <1>8
    <3> QED BY <1>3, <2>2, <3>1
  <2>3. CASE g # h
    <3>1. resolves[g] = "done" BY <1>3, <2>3 DEF Types
    <3>2. CASE <<g, 0>> \in reported BY <1>3, <3>2
    <3>3. CASE \E i \in 1..MaxEndpoints : connects[<<g, i>>] # "none"
      <4>1. PICK i \in 1..MaxEndpoints : connects[<<g, i>>] # "none" BY <3>3
      <4>2. <<g, i>> \in Endpoints BY DEF Endpoints
      <4>3. connects'[<<g, i>>] # "none" BY <1>3, <4>1, <4>2
      <4> QED BY <4>3
    <3> QED BY <3>1, <3>2, <3>3 DEF ResolvedIsLogged
  <2> QED BY <2>1, <2>2, <2>3
<1>14. ConnectedIsLogged' BY <1>3 DEF ConnectedIsLogged
<1> QED BY <1>3, <1>9, <1>10, <1>11, <1>12, <1>13, <1>14 DEF StopIsTimeout, ReturnedIdle, StopClosesAll

LEMMA HandleConnectKeeps ==
  ASSUME IInv, HandleConnect
  PROVE  IInv'
<1> USE DEF IInv, network, history
<1> DEFINE e == Head(ready).endpoint
<1>1. e \in Endpoints /\ Op(Head(ready)) = e /\ connects[e] = "queued"
  BY HeadConnect DEF HandleConnect
<1>2. /\ connects' = [connects EXCEPT ![e] = "done"] /\ reported' = reported \cup {e}
      /\ ready' = Tail(ready) /\ ready # <<>> /\ ~stopped /\ ~returned
      /\ UNCHANGED <<timer, resolves, open, sockets, stopped, returned, threw>>
  BY DEF HandleConnect, Runs
<1> HIDE DEF e
<1>3. e \in Hosts \X (0..MaxEndpoints) /\ e # <<0, 0>> /\ \A h \in Hosts : e # <<h, 0>>
  BY <1>1, SizesAssumption DEF Endpoints, Hosts
<1>4. QueueOK'
  <2>1. Due' = Due \ {e} BY <1>1, <1>2, <1>3 DEF Due, Types
  <2> QED BY <1>1, <1>2, <2>1, HeadOps DEF QueueOK
<1>5. Types' BY <1>1, <1>2, <1>3, HeadOps DEF Types
<1>6. \A f \in Endpoints : connects'[f] = "none" <=> connects[f] = "none" BY <1>1, <1>2 DEF Types
<1>7. SocketsOK' BY <1>2, <1>6 DEF SocketsOK
<1>8. \A h \in Hosts, i \in 1..MaxEndpoints : <<h, i>> \in Endpoints BY DEF Endpoints
<1>9. NotYetConnected' BY <1>2, <1>6, <1>8 DEF NotYetConnected
<1>10. ResolvedIsLogged' BY <1>2, <1>6, <1>8 DEF ResolvedIsLogged
<1>11. ConnectedIsLogged' BY <1>1, <1>2 DEF ConnectedIsLogged, Types
<1> QED BY <1>2, <1>4, <1>5, <1>7, <1>9, <1>10, <1>11 DEF StopIsTimeout, ReturnedIdle, StopClosesAll

\* However many close() there are before one throws; without one all are closed.
LEMMA HandleTimeoutKeeps ==
  ASSUME IInv, HandleTimeout
  PROVE  IInv'
<1> USE DEF IInv, network, history
<1>1. /\ Op(Head(ready)) = <<0, 0>> /\ timer = "expired" /\ timer' = "done"
      /\ ready # <<>> /\ ~stopped /\ ~returned /\ UNCHANGED <<sockets, returned, reported>>
      /\ stopped' \in BOOLEAN /\ threw' \in BOOLEAN
  BY HeadTimeout DEF HandleTimeout, Runs, Types
<1>2. /\ sockets \in Seq(Endpoints) /\ Len(sockets) \in Nat /\ DOMAIN sockets = 1..Len(sockets)
  BY DEF Types
<1>3. PICK k \in 0..Len(sockets) : Close(k) /\ (stopped' => k = Len(sockets))
  <2>1. CASE Close(Len(sockets))
    <3>1. Len(sockets) \in 0..Len(sockets) BY <1>2
    <3> QED BY <2>1, <3>1
  <2>2. CASE \E k \in 1..Len(sockets) : Close(k) /\ UNCHANGED stopped
    <3>1. PICK k \in 1..Len(sockets) : Close(k) /\ UNCHANGED stopped BY <2>2
    <3>2. k \in 0..Len(sockets) BY <1>2
    <3> QED BY <1>1, <3>1, <3>2
  <2> QED BY <2>1, <2>2 DEF HandleTimeout
<1> DEFINE closed == {sockets[i] : i \in 1..k}
           cut == {e \in Endpoints : connects[e] = "pending" /\ e \in closed}
<1>4. /\ open' = open \ closed /\ ready' = Tail(ready) \o Aborted[k]
      /\ connects' = [e \in Endpoints |-> IF e \in closed /\ connects[e] = "pending"
                                          THEN "queued" ELSE connects[e]]
  BY <1>3 DEF Close
<1>5. /\ Aborted[k] \in Seq(Handlers) /\ IsInjective(Ops(Aborted[k]))
      /\ ToSet(Ops(Aborted[k])) = cut
  BY AbortedQueues
<1>6. stopped' => closed = ToSet(sockets) BY <1>2, <1>3 DEF ToSet
<1> HIDE DEF closed
<1>7. PICK gone \in SUBSET Hosts :
        resolves' = [h \in Hosts |-> IF h \in gone THEN "cancelled" ELSE resolves[h]]
        /\ \A h \in gone : resolves[h] = "pending"
  <2>1. PICK entered : resolves' = [h \in Hosts |-> IF resolves[h] = "pending" /\ h \notin entered
                                                    THEN "cancelled" ELSE resolves[h]]
    BY DEF HandleTimeout, Cancel
  <2>2. WITNESS {h \in Hosts : resolves[h] = "pending" /\ h \notin entered} \in SUBSET Hosts
  <2> QED BY <2>1
<1>8. /\ \A h \in Hosts : (resolves'[h] = "done" <=> resolves[h] = "done")
                          /\ (resolves'[h] = "queued" <=> resolves[h] = "queued")
      /\ resolves' \in [Hosts -> {"pending", "cancelled", "queued", "done"}]
  BY <1>7 DEF Types
<1>9. /\ \A e \in Endpoints : /\ connects'[e] = "none" <=> connects[e] = "none"
                              /\ connects'[e] = "done" <=> connects[e] = "done"
                              /\ connects'[e] = "queued" <=> connects[e] = "queued" \/ e \in cut
      /\ connects' \in [Endpoints -> {"none", "pending", "queued", "done"}]
  BY <1>4 DEF Types
<1>10. cut \cap Due = {} /\ <<0, 0>> \notin cut
  BY DueOps, SizesAssumption DEF Endpoints
<1>11. cut \subseteq Endpoints OBVIOUS
<1> HIDE DEF cut
<1>12. Due' = (Due \ {<<0, 0>>}) \cup cut
  <2>1. <<0, 0>> \notin Endpoints /\ \A h \in Hosts : <<h, 0>> # <<0, 0>>
    BY SizesAssumption DEF Endpoints, Hosts
  <2> QED BY <1>1, <1>8, <1>9, <1>11, <2>1 DEF Due
<1>13. /\ ready' \in Seq(Handlers) /\ IsInjective(Ops(ready'))
       /\ ToSet(Ops(ready')) = (Due \ {<<0, 0>>}) \cup cut
  <2>1. /\ Tail(ready) \in Seq(Handlers) /\ IsInjective(Ops(Tail(ready)))
        /\ ToSet(Ops(Tail(ready))) = Due \ {<<0, 0>>}
    BY <1>1, HeadOps
  <2> QED BY <1>4, <1>5, <1>10, <2>1, Concatenate
<1>14. QueueOK' BY <1>12, <1>13 DEF QueueOK
<1>15. Types' BY <1>1, <1>4, <1>8, <1>9, <1>13 DEF Types
<1>16. SocketsOK' BY <1>1, <1>4, <1>9 DEF SocketsOK
<1>17. \A h \in Hosts, i \in 1..MaxEndpoints : <<h, i>> \in Endpoints BY DEF Endpoints
<1>18. NotYetConnected' BY <1>8, <1>9, <1>17 DEF NotYetConnected
<1>19. ResolvedIsLogged' BY <1>1, <1>8, <1>9, <1>17 DEF ResolvedIsLogged
<1>20. ConnectedIsLogged' BY <1>1, <1>9 DEF ConnectedIsLogged
<1>21. StopClosesAll' BY <1>4, <1>6 DEF StopClosesAll, SocketsOK
<1> QED BY <1>1, <1>14, <1>15, <1>16, <1>18, <1>19, <1>20, <1>21 DEF StopIsTimeout, ReturnedIdle

LEMMA ReturnKeeps ==
  ASSUME IInv, Return
  PROVE  IInv'
<1> USE DEF IInv, network, history, Return
<1>1. UNCHANGED <<timer, resolves, connects, open, sockets, ready, stopped, threw, reported>> OBVIOUS
<1>2. QueueOK' BY <1>1 DEF QueueOK, Ops, Due
<1>3. Types' BY <1>1 DEF Types
<1>4. ReturnedIdle' BY <1>1 DEF ReturnedIdle, Idle, InFlight
<1> QED BY <1>1, <1>2, <1>3, <1>4 DEF SocketsOK, NotYetConnected, ResolvedIsLogged,
           ConnectedIsLogged, StopIsTimeout, StopClosesAll

LEMMA StepHolds == IInv /\ [Next]_vars => IInv'
<1> SUFFICES ASSUME IInv, [Next]_vars PROVE IInv' OBVIOUS
<1>1. CASE Ended \/ UNCHANGED vars
  <2>1. UNCHANGED <<timer, resolves, connects, open, sockets, ready, stopped, returned, threw, reported>>
    BY <1>1 DEF Ended, vars, network, history
  <2>2. QueueOK' /\ ReturnedIdle' /\ Types'
    BY <2>1 DEF IInv, QueueOK, Ops, Due, ReturnedIdle, Idle, InFlight, Types
  <2> QED BY <2>1, <2>2 DEF IInv, SocketsOK, NotYetConnected, ResolvedIsLogged,
             ConnectedIsLogged, StopIsTimeout, StopClosesAll
<1> QED BY <1>1, ResolveEndsKeeps, ConnectEndsKeeps, TimerExpiresKeeps, HandleResolveKeeps,
           HandleConnectKeeps, HandleTimeoutKeeps, ReturnKeeps DEF Next, RunHandler

-----------------------------------------------------------------------------
(* The outcomes that were there before the timer expired: until they are   *)
(* handled they stand before the timer's handler in the queue.             *)

Before(o) == \E i \in DOMAIN ready : Op(ready[i]) = o /\ \A j \in 1..i : Op(ready[j]) # <<0, 0>>
InTimeOK ==
  /\ in_time \subseteq Hosts \X (0..MaxEndpoints)
  /\ \A o \in in_time : Handled(o) \/ (timer # "done" /\ Before(o))

LEMMA HandledStays ==
  ASSUME IInv, [Next]_vars, NEW o \in Hosts \X (0..MaxEndpoints), Handled(o)
  PROVE  Handled(o)'
<1> USE DEF IInv, Types, network, history
<1> DEFINE Keeps == /\ reported \subseteq reported'
                    /\ \A e \in Endpoints : connects[e] # "none" => connects'[e] # "none"
<1>1. Keeps
  <2>1. CASE Return \/ TimerExpires \/ Ended \/ UNCHANGED vars
    BY <2>1 DEF Return, TimerExpires, Ended, vars
  <2>2. ASSUME NEW h \in Hosts, ResolveEnds(h) PROVE Keeps BY <2>2 DEF ResolveEnds
  <2>3. ASSUME NEW e \in Endpoints, ConnectEnds(e) PROVE Keeps BY <2>3 DEF ConnectEnds
  <2>4. CASE HandleResolve BY <2>4 DEF HandleResolve
  <2>5. CASE HandleConnect BY <2>5 DEF HandleConnect
  <2>6. CASE HandleTimeout BY <2>6 DEF HandleTimeout, Close
  <2> QED BY <2>1, <2>2, <2>3, <2>4, <2>5, <2>6 DEF Next, RunHandler
<1>2. \A i \in 1..MaxEndpoints : <<o[1], i>> \in Endpoints BY DEF Endpoints
<1> QED BY <1>1, <1>2 DEF Handled

LEMMA BeforeAppend ==
  ASSUME ready \in Seq(Handlers), NEW x \in Handlers, ready' = Append(ready, x)
  PROVE  /\ \A o : Before(o) => Before(o)'
         /\ Op(x) # <<0, 0>> /\ <<0, 0>> \notin ToSet(Ops(ready)) => Before(Op(x))'
<1>1. /\ DOMAIN ready = 1..Len(ready) /\ Len(ready) \in Nat /\ DOMAIN ready' = 1..(Len(ready) + 1)
      /\ \A i \in 1..Len(ready) : ready'[i] = ready[i]
      /\ ready'[Len(ready) + 1] = x
  OBVIOUS
<1>2. ASSUME NEW o, Before(o) PROVE Before(o)'
  <2>1. PICK i \in DOMAIN ready : Op(ready[i]) = o /\ \A j \in 1..i : Op(ready[j]) # <<0, 0>>
    BY <1>2 DEF Before
  <2>2. i \in DOMAIN ready' /\ ready'[i] = ready[i] BY <1>1
  <2>3. \A j \in 1..i : j \in 1..Len(ready) /\ ready'[j] = ready[j] BY <1>1
  <2> QED BY <2>1, <2>2, <2>3 DEF Before
<1>3. ASSUME Op(x) # <<0, 0>>, <<0, 0>> \notin ToSet(Ops(ready)) PROVE Before(Op(x))'
  <2>1. \A j \in 1..Len(ready) : Op(ready[j]) # <<0, 0>> BY <1>1, <1>3 DEF ToSet, Ops
  <2>2. Len(ready) + 1 \in DOMAIN ready' BY <1>1
  <2>3. \A j \in 1..(Len(ready) + 1) : j \in 1..Len(ready) \/ j = Len(ready) + 1 BY <1>1
  <2>4. \A j \in 1..(Len(ready) + 1) : Op(ready'[j]) # <<0, 0>> BY <1>1, <1>3, <2>1, <2>3
  <2> QED BY <1>1, <2>2, <2>4 DEF Before
<1> QED BY <1>2, <1>3

LEMMA BeforeTail ==
  ASSUME ready \in Seq(Handlers), ready # <<>>, NEW o, Before(o)
  PROVE  /\ Op(Head(ready)) # <<0, 0>>
         /\ ready' = Tail(ready) /\ Op(Head(ready)) # o => Before(o)'
<1>1. PICK i \in DOMAIN ready : Op(ready[i]) = o /\ \A j \in 1..i : Op(ready[j]) # <<0, 0>>
  BY DEF Before
<1>2. /\ DOMAIN ready = 1..Len(ready) /\ Len(ready) \in Nat \ {0} /\ Head(ready) = ready[1]
      /\ i \in 1..Len(ready) /\ 1 \in 1..i
  OBVIOUS
<1>3. ASSUME ready' = Tail(ready), Op(Head(ready)) # o PROVE Before(o)'
  <2>1. /\ DOMAIN ready' = 1..(Len(ready) - 1)
        /\ \A j \in 1..(Len(ready) - 1) : ready'[j] = ready[j + 1]
    BY <1>3
  <2>2. i # 1 BY <1>1, <1>2, <1>3
  <2>3. i - 1 \in 1..(Len(ready) - 1) /\ (i - 1) + 1 = i BY <1>2, <2>2
  <2>4. \A j \in 1..(i - 1) : j \in 1..(Len(ready) - 1) /\ j + 1 \in 1..i BY <1>2
  <2> QED BY <1>1, <2>1, <2>3, <2>4 DEF Before
<1> QED BY <1>1, <1>2, <1>3

\* An outcome that comes in goes to the end, behind the timer's handler or not.
LEMMA ArrivesKeeps ==
  ASSUME IInv, InTimeOK, [Next]_vars, NEW x \in Handlers, ready' = Append(ready, x),
         Op(x) \in Hosts \X (0..MaxEndpoints), Op(x) # <<0, 0>>, Arrives(Op(x)), timer' = timer
  PROVE  InTimeOK'
<1>1. ready \in Seq(Handlers) BY DEF IInv, Types
<1>2. in_time' \subseteq Hosts \X (0..MaxEndpoints) BY DEF InTimeOK, Arrives
<1>3. ASSUME NEW o \in in_time PROVE Handled(o)' \/ (timer' # "done" /\ Before(o)')
  BY <1>1, HandledStays, BeforeAppend DEF InTimeOK
<1>4. timer = "pending" => Before(Op(x))'
  <2>1. timer = "pending" => <<0, 0>> \notin ToSet(Ops(ready)) BY DueOps DEF IInv, QueueOK
  <2> QED BY <1>1, <2>1, BeforeAppend
<1>5. ASSUME NEW o \in in_time' PROVE Handled(o)' \/ (timer' # "done" /\ Before(o)')
  <2>1. o \in in_time \/ (timer = "pending" /\ o = Op(x)) BY <1>5 DEF Arrives
  <2> QED BY <1>3, <1>4, <2>1
<1> QED BY <1>2, <1>5 DEF InTimeOK

\* The handler at the head leaves the queue, and its outcome is handled.
LEMMA HandledKeeps ==
  ASSUME IInv, InTimeOK, [Next]_vars, ready # <<>>, ready' = Tail(ready), timer' = timer,
         in_time' = in_time, NEW x, x = Op(Head(ready)), Handled(x)'
  PROVE  InTimeOK'
<1>1. ready \in Seq(Handlers) BY DEF IInv, Types
<1>2. ASSUME NEW o \in in_time PROVE Handled(o)' \/ (timer' # "done" /\ Before(o)')
  <2>1. CASE Handled(o) BY <2>1, HandledStays DEF InTimeOK
  <2>2. CASE ~Handled(o) /\ o = x BY <2>2
  <2>3. CASE ~Handled(o) /\ o # x BY <1>1, <2>3, BeforeTail DEF InTimeOK
  <2> QED BY <2>1, <2>2, <2>3
<1> QED BY <1>2 DEF InTimeOK

LEMMA InTimeStep ==
  ASSUME IInv, IInv', InTimeOK, [Next]_vars
  PROVE  InTimeOK'
<1> USE DEF network, history
<1>t. ready \in Seq(Handlers) BY DEF IInv, Types
<1>1. CASE Return \/ Ended \/ UNCHANGED vars
  <2>1. UNCHANGED <<timer, ready, in_time, reported, connects>>
    BY <1>1 DEF Return, Ended, vars
  <2> QED BY <2>1 DEF InTimeOK, Handled, Before
<1>2. CASE TimerExpires
  <2>1. ready' = Append(ready, Timeout) /\ timer' # "done" /\ UNCHANGED in_time
    BY <1>2 DEF TimerExpires
  <2>2. \A o : Before(o) => Before(o)' BY <1>t, <2>1, HandlerOps, BeforeAppend
  <2> QED BY <2>1, <2>2, HandledStays DEF InTimeOK
<1>3. ASSUME NEW h \in Hosts, ResolveEnds(h) PROVE InTimeOK'
  <2>1. PICK n \in 0..MaxEndpoints : ready' = Append(ready, Resolved(h, n)) BY <1>3 DEF ResolveEnds
  <2> DEFINE x == Resolved(h, n)
  <2>2. x \in Handlers /\ Op(x) = <<h, 0>> BY HandlerOps
  <2>3. ready' = Append(ready, x) BY <2>1
  <2> HIDE DEF x
  <2>4. Arrives(Op(x)) /\ timer' = timer BY <1>3, <2>2 DEF ResolveEnds
  <2>5. Op(x) \in Hosts \X (0..MaxEndpoints) /\ Op(x) # <<0, 0>>
    BY <2>2, SizesAssumption DEF Hosts
  <2> QED BY <2>2, <2>3, <2>4, <2>5, ArrivesKeeps
<1>4. ASSUME NEW e \in Endpoints, ConnectEnds(e) PROVE InTimeOK'
  <2>1. PICK ok \in BOOLEAN : ready' = Append(ready, Connected(e, ok)) BY <1>4 DEF ConnectEnds
  <2> DEFINE x == Connected(e, ok)
  <2>2. x \in Handlers /\ Op(x) = e BY HandlerOps
  <2>3. ready' = Append(ready, x) BY <2>1
  <2> HIDE DEF x
  <2>4. Arrives(Op(x)) /\ timer' = timer BY <1>4, <2>2 DEF ConnectEnds
  <2>5. Op(x) \in Hosts \X (0..MaxEndpoints) /\ Op(x) # <<0, 0>>
    BY <2>2, SizesAssumption DEF Hosts, Endpoints
  <2> QED BY <2>2, <2>3, <2>4, <2>5, ArrivesKeeps
<1>5. CASE HandleResolve
  <2>1. PICK h \in Hosts, n \in 0..MaxEndpoints :
           Head(ready) = Resolved(h, n) /\ Op(Head(ready)) = <<h, 0>> /\ resolves[h] = "queued"
    BY <1>5, HeadResolve DEF HandleResolve
  <2>2. Head(ready).host = h BY <2>1 DEF Resolved
  <2>3. /\ resolves' = [resolves EXCEPT ![h] = "done"] /\ ready # <<>> /\ ready' = Tail(ready)
        /\ UNCHANGED <<timer, in_time>>
    BY <1>5, <2>2 DEF HandleResolve, Runs
  <2>4. resolves'[h] = "done" BY <2>3 DEF IInv, Types
  <2>5. Handled(<<h, 0>>)' BY <2>4 DEF IInv, ResolvedIsLogged, Handled
  <2> QED BY <2>1, <2>3, <2>5, HandledKeeps
<1>6. CASE HandleConnect
  <2> DEFINE e == Head(ready).endpoint
  <2>1. Op(Head(ready)) = e BY <1>6, HeadConnect DEF HandleConnect
  <2>2. /\ reported' = reported \cup {e} /\ ready # <<>> /\ ready' = Tail(ready)
        /\ UNCHANGED <<timer, in_time>>
    BY <1>6 DEF HandleConnect, Runs
  <2>3. ASSUME NEW x, x = e PROVE InTimeOK'
    <3>1. Handled(x)' BY <2>2, <2>3 DEF Handled
    <3> QED BY <2>1, <2>2, <2>3, <3>1, HandledKeeps
  <2> QED BY <2>3
<1>7. CASE HandleTimeout
  <2>1. Op(Head(ready)) = <<0, 0>> /\ ready # <<>> /\ UNCHANGED in_time
    BY <1>7, HeadTimeout DEF HandleTimeout, Runs
  <2>2. \A o \in in_time : Handled(o) BY <1>t, <2>1, BeforeTail DEF InTimeOK
  <2> QED BY <2>1, <2>2, HandledStays DEF InTimeOK
<1> QED BY <1>1, <1>2, <1>3, <1>4, <1>5, <1>6, <1>7 DEF Next, RunHandler

LEMMA InTimeHolds == Spec => [](IInv /\ InTimeOK)
<1>1. Init => InTimeOK BY DEF Init, InTimeOK
<1>2. IInv /\ InTimeOK /\ [Next]_vars => (IInv /\ InTimeOK)' BY StepHolds, InTimeStep
<1> QED BY InitHolds, <1>1, <1>2, PTL DEF Spec

-----------------------------------------------------------------------------
\* Type correctness, for any number of hosts and endpoints: an endpoint has one
\* place in _sockets, and each operation's handler is queued at most once.
THEOREM TypeCorrect == Spec => []TypeOK
<1>1. ASSUME IInv, InTimeOK PROVE TypeOK
  <2>1. ToSet(ready) \subseteq Handlers BY <1>1 DEF IInv, Types, ToSet
  <2>2. IsInjective(ready)
    BY <1>1 DEF IInv, QueueOK, IsInjective, Ops
  <2> QED BY <1>1, <2>1, <2>2 DEF IInv, Types, SocketsOK, InTimeOK, TypeOK
<1> QED BY InTimeHolds, <1>1, PTL

\* A timeout that stops the context has closed every socket async_connect was
\* called on.
THEOREM StopClosesAllHolds == Spec => []StopClosesAll
<1>1. IInv => StopClosesAll BY DEF IInv
<1> QED BY InitHolds, StepHolds, <1>1, PTL DEF Spec

\* However run() comes back, every outcome that was there before the timer
\* expired has been handled: what is lost in the queue came later.
THEOREM InTimeIsLoggedHolds == Spec => []InTimeIsLogged
<1>1. IInv /\ InTimeOK => InTimeIsLogged
  BY DEF IInv, InTimeOK, InTimeIsLogged, ReturnedIdle, StopIsTimeout, Idle
<1> QED BY InTimeHolds, <1>1, PTL

\* When run() returns by itself every host and every endpoint has its line.
THEOREM SilenceIsTimeoutHolds == Spec => []SilenceIsTimeout
<1>1. ASSUME IInv, returned, ~stopped
      PROVE  /\ \A h \in Hosts : <<h, 0>> \in reported
                                 \/ \E i \in 1..MaxEndpoints : connects[<<h, i>>] = "done"
             /\ \A e \in Endpoints : connects[e] # "none" => e \in reported
  <2>1. /\ ready = <<>> /\ \A h \in Hosts : ~InFlight(h)
        /\ \A e \in Endpoints : connects[e] # "pending"
    BY <1>1 DEF IInv, ReturnedIdle, Idle
  <2>2. Due = {} BY <1>1, <2>1 DEF IInv, QueueOK, Ops, ToSet
  <2>3. \A e \in Endpoints : connects[e] \in {"none", "done"}
    BY <1>1, <2>1, <2>2, DueOps DEF IInv, Types
  <2>4. \A h \in Hosts : resolves[h] = "done"
    BY <1>1, <2>1, <2>2, DueOps DEF IInv, Types, InFlight
  <2>5. \A h \in Hosts, i \in 1..MaxEndpoints : <<h, i>> \in Endpoints BY DEF Endpoints
  <2> QED BY <1>1, <2>3, <2>4, <2>5 DEF IInv, ResolvedIsLogged, ConnectedIsLogged
<1>2. IInv => SilenceIsTimeout BY <1>1 DEF SilenceIsTimeout
<1> QED BY InitHolds, StepHolds, <1>2, PTL DEF Spec
=============================================================================
