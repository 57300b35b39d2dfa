-------------------------- MODULE EchoServerProofs --------------------------
(***************************************************************************)
(* Proofs, for any clients, number of bytes and size of the buffer, of the *)
(* safety properties of EchoServer.                                        *)
(***************************************************************************)
EXTENDS EchoServer, SequenceTheorems, TLAPS

(* The inductive invariant.                                                *)

Types ==
  /\ listener \in {"starting", "accepting", "ended"} /\ stopped \in BOOLEAN
  /\ conn \in [Clients -> {"none", "backlog", "reading", "writing", "closed"}]
  /\ sent \in [Clients -> 0..MaxBytes] /\ taken \in [Clients -> 0..MaxBytes]
  /\ chunk \in [Clients -> Seq(Nat)] /\ echoed \in [Clients -> Seq(Nat)]
  /\ hung_up \subseteq Clients /\ short \subseteq Clients /\ broken \subseteq Clients

BacklogOK ==
  /\ backlog \in Seq(Clients) /\ IsInjective(backlog)
  /\ ToSet(backlog) = {c \in Clients : conn[c] = "backlog"}

\* What the buffer holds is a stretch of what has been read, and what went back
\* lies before it while it is being written.
From(c) == taken[c] - Len(chunk[c])
Data(c) ==
  /\ taken[c] <= sent[c] /\ Len(chunk[c]) <= BufferSize
  /\ From(c) \in Nat /\ chunk[c] = Bytes(From(c), taken[c])
  /\ conn[c] \in {"none", "backlog"} => taken[c] = 0
  /\ \A i \in DOMAIN echoed[c] : echoed[c][i] \in 1..taken[c]
  /\ conn[c] = "writing" => \A i \in DOMAIN echoed[c] : echoed[c][i] <= From(c)

\* Without a short write everything before the buffer, or before the next read,
\* has gone back.
Whole(c) ==
  c \notin short =>
    /\ conn[c] \in {"none", "backlog", "reading"} => echoed[c] = Bytes(0, taken[c])
    /\ conn[c] = "writing" => echoed[c] = Bytes(0, From(c)) /\ chunk[c] # <<>>
    /\ conn[c] = "closed" /\ c \notin broken => echoed[c] = Bytes(0, sent[c])

IInv ==
  /\ Types /\ BacklogOK /\ EchoesInOrder
  /\ \A c \in Clients : Data(c) /\ Whole(c)

-----------------------------------------------------------------------------
(* What a read puts into the buffer, and what a write appends.             *)

LEMMA BytesAre ==
  ASSUME NEW from \in Nat, NEW to \in Nat, from <= to
  PROVE  /\ Bytes(from, to) \in Seq(Nat) /\ Len(Bytes(from, to)) = to - from
         /\ \A i \in 1..(to - from) : Bytes(from, to)[i] = from + i
<1>1. to - from \in Nat OBVIOUS
<1>2. \A i \in 1..(to - from) : from + i \in Nat OBVIOUS
<1> QED BY <1>1, <1>2 DEF Bytes

LEMMA BytesJoin ==
  ASSUME NEW a \in Nat, NEW b \in Nat, a <= b
  PROVE  Bytes(0, a) \o Bytes(a, b) = Bytes(0, b)
<1> DEFINE s == Bytes(0, a)
           t == Bytes(a, b)
           u == Bytes(0, b)
<1>1. s \in Seq(Nat) /\ Len(s) = a /\ \A i \in 1..a : s[i] = i BY BytesAre
<1>2. t \in Seq(Nat) /\ Len(t) = b - a /\ \A i \in 1..(b - a) : t[i] = a + i BY BytesAre
<1>3. u \in Seq(Nat) /\ Len(u) = b /\ \A i \in 1..b : u[i] = i BY BytesAre
<1> HIDE DEF s, t, u
<1>4. s \o t \in Seq(Nat) /\ Len(s \o t) = Len(s) + Len(t)
  BY <1>1, <1>2, ConcatProperties
<1>5. \A i \in 1..b : (s \o t)[i] = IF i <= a THEN s[i] ELSE t[i - a] BY <1>1, <1>2
<1>6. ASSUME NEW i \in 1..b PROVE (s \o t)[i] = u[i]
  <2>1. i \in Nat /\ u[i] = i BY <1>3
  <2>2. CASE i <= a
    <3>1. i \in 1..a BY <2>1, <2>2
    <3>2. s[i] = i BY <1>1, <3>1
    <3> QED BY <1>5, <2>1, <2>2, <3>2
  <2>3. CASE ~(i <= a)
    <3>1. i - a \in 1..(b - a) BY <2>1, <2>3
    <3>2. t[i - a] = a + (i - a) BY <1>2, <3>1
    <3>3. (s \o t)[i] = t[i - a] BY <1>5, <2>3
    <3> QED BY <2>1, <3>2, <3>3
  <2> QED BY <2>2, <2>3
<1>7. Len(s \o t) = b BY <1>1, <1>2, <1>4
<1>8. s \o t = u BY <1>3, <1>4, <1>6, <1>7, SeqEqual
<1> QED BY <1>8 DEF s, t, u

Increasing(s) == \A i, j \in DOMAIN s : i < j => s[i] < s[j]

LEMMA WriteAppends ==
  ASSUME NEW s \in Seq(Nat), NEW f \in Nat, NEW t \in Nat, f <= t,
         NEW n \in 1..Len(Bytes(f, t)),
         Increasing(s), \A i \in DOMAIN s : s[i] \in 1..f
  PROVE  LET e == s \o SubSeq(Bytes(f, t), 1, n)
         IN  /\ e \in Seq(Nat) /\ Increasing(e) /\ \A i \in DOMAIN e : e[i] \in 1..t
             /\ n = Len(Bytes(f, t)) => e = s \o Bytes(f, t)
<1> DEFINE b == Bytes(f, t)
           w == SubSeq(b, 1, n)
           e == s \o w
<1>1. b \in Seq(Nat) /\ Len(b) = t - f /\ \A i \in 1..(t - f) : b[i] = f + i BY BytesAre
<1> HIDE DEF b
<1>2. n \in Nat /\ n <= t - f /\ n \in 1..Len(b) BY <1>1 DEF b
<1>3. /\ w \in Seq(Nat) /\ Len(w) = n /\ \A i \in 1..n : w[i] = b[i]
      /\ n = Len(b) => w = b
  BY <1>1, <1>2
<1> HIDE DEF w
<1>read. ASSUME NEW j \in 1..n PROVE w[j] = f + j
  <2>1. j \in 1..(t - f) BY <1>2
  <2> QED BY <2>1, <1>1, <1>3
<1>4. /\ e \in Seq(Nat) /\ Len(e) = Len(s) + Len(w)
      /\ \A i \in 1..(Len(s) + Len(w)) : e[i] = IF i <= Len(s) THEN s[i] ELSE w[i - Len(s)]
  BY <1>3, ConcatProperties
<1>5. Len(s) \in Nat /\ DOMAIN s = 1..Len(s) /\ DOMAIN e = 1..(Len(s) + n) BY <1>3, <1>4
<1> HIDE DEF e
<1>6. ASSUME NEW i \in DOMAIN e
      PROVE  \/ i \in DOMAIN s /\ e[i] = s[i]
             \/ i \in Nat /\ i > Len(s) /\ e[i] = f + (i - Len(s)) /\ i - Len(s) <= t - f
  <2>1. CASE i <= Len(s) BY <2>1, <1>3, <1>4, <1>5
  <2>2. CASE ~(i <= Len(s))
    <3>1. e[i] = w[i - Len(s)] /\ i - Len(s) \in 1..n BY <2>2, <1>3, <1>4, <1>5
    <3>2. w[i - Len(s)] = f + (i - Len(s)) BY <3>1, <1>read
    <3> QED BY <3>1, <3>2, <2>2, <1>2, <1>5
  <2> QED BY <2>1, <2>2
<1>7. \A i \in DOMAIN e : e[i] \in 1..t BY <1>5, <1>6
<1>8. Increasing(e)
  <2> SUFFICES ASSUME NEW i \in DOMAIN e, NEW j \in DOMAIN e, i < j PROVE e[i] < e[j]
    BY DEF Increasing
  <2>1. CASE i > Len(s) BY <2>1, <1>5, <1>6
  <2>2. CASE ~(i > Len(s)) /\ j > Len(s) BY <2>2, <1>5, <1>6
  <2>3. CASE ~(j > Len(s))
    <3>1. i \in DOMAIN s /\ j \in DOMAIN s /\ e[i] = s[i] /\ e[j] = s[j] BY <2>3, <1>5, <1>6
    <3> QED BY <3>1 DEF Increasing
  <2> QED BY <2>1, <2>2, <2>3, <1>5
<1> QED BY <1>3, <1>4, <1>7, <1>8 DEF b, w, e

LEMMA InitHolds == Init => IInv
<1> SUFFICES ASSUME Init PROVE IInv OBVIOUS
<1> USE SizesAssumption DEF Init
<1>1. Types
  <2>1. chunk \in [Clients -> Seq(Nat)] /\ echoed \in [Clients -> Seq(Nat)] OBVIOUS
  <2>2. 0 \in 0..MaxBytes OBVIOUS
  <2>3. sent \in [Clients -> 0..MaxBytes] /\ taken \in [Clients -> 0..MaxBytes] BY <2>2
  <2> QED BY <2>1, <2>3 DEF Types
<1>2. BacklogOK BY DEF BacklogOK, ToSet, IsInjective
<1>3. EchoesInOrder BY DEF EchoesInOrder
<1>4. ASSUME NEW c \in Clients PROVE Data(c) /\ Whole(c)
  <2>1. Bytes(0, 0) = <<>> BY DEF Bytes
  <2> QED BY <2>1 DEF Data, Whole, From
<1> QED BY <1>1, <1>2, <1>3, <1>4 DEF IInv

-----------------------------------------------------------------------------
(* What each step does to one client's bytes.                              *)

Client(c) == Data(c) /\ Whole(c) /\ Increasing(echoed[c])

LEMMA ClientTypes ==
  ASSUME IInv, NEW c \in Clients
  PROVE  /\ sent[c] \in Nat /\ taken[c] \in Nat /\ sent[c] <= MaxBytes
         /\ chunk[c] \in Seq(Nat) /\ echoed[c] \in Seq(Nat)
         /\ Client(c)
BY SizesAssumption DEF IInv, Types, EchoesInOrder, Client, Increasing

LEMMA ReadSomeKeeps ==
  ASSUME IInv, NEW c \in Clients, ReadSome(c)
  PROVE  Client(c)' /\ Types'
<1>1. PICK n \in 1..BufferSize :
         /\ taken[c] + n <= sent[c]
         /\ taken' = [taken EXCEPT ![c] = @ + n]
         /\ chunk' = [chunk EXCEPT ![c] = Bytes(taken[c], taken[c] + n)]
  BY DEF ReadSome
<1> DEFINE t == taken[c]
           b == Bytes(t, t + n)
<1>2. t \in Nat /\ n \in Nat /\ n # 0 /\ n <= BufferSize /\ sent[c] \in Nat /\ sent[c] <= MaxBytes
  BY SizesAssumption, ClientTypes
<1>3. b \in Seq(Nat) /\ Len(b) = n /\ b # <<>>
  <2>1. t + n \in Nat /\ t <= t + n /\ (t + n) - t = n BY <1>2
  <2>2. b \in Seq(Nat) /\ Len(b) = n BY <1>2, <2>1, BytesAre
  <2> QED BY <2>2, <1>2
<1>4. /\ taken'[c] = t + n /\ chunk'[c] = b /\ conn'[c] = "writing" /\ conn[c] = "reading"
      /\ echoed'[c] = echoed[c] /\ sent'[c] = sent[c] /\ short' = short /\ broken' = broken
  BY <1>1 DEF IInv, Types, ReadSome, client
<1>5. Types'
  <2>1. t + n \in 0..MaxBytes BY <1>1, <1>2, SizesAssumption
  <2>2. taken' \in [Clients -> 0..MaxBytes] BY <1>1, <2>1 DEF IInv, Types
  <2>3. chunk' \in [Clients -> Seq(Nat)] BY <1>1, <1>3 DEF IInv, Types
  <2> QED BY <2>2, <2>3 DEF IInv, Types, ReadSome, client
<1> HIDE DEF b
<1>6. From(c)' = t BY <1>2, <1>3, <1>4 DEF From
<1>7. Client(c) BY ClientTypes
<1>8. Data(c)'
  <2>1. \A i \in DOMAIN echoed[c] : echoed[c][i] \in 1..t BY <1>7 DEF Client, Data
  <2>2. \A i \in DOMAIN echoed[c] : echoed[c][i] \in 1..(t + n) /\ echoed[c][i] <= t
    BY <2>1, <1>2
  <2> QED BY <1>1, <1>2, <1>3, <1>4, <1>6, <2>2 DEF Data, b
<1>9. Whole(c)' BY <1>3, <1>4, <1>6, <1>7 DEF Client, Whole
<1> QED BY <1>4, <1>5, <1>7, <1>8, <1>9 DEF Client

LEMMA WriteSomeKeeps ==
  ASSUME IInv, NEW c \in Clients, WriteSome(c)
  PROVE  Client(c)' /\ Types'
<1>1. PICK n \in 1..Len(chunk[c]) :
         /\ echoed' = [echoed EXCEPT ![c] = @ \o SubSeq(chunk[c], 1, n)]
         /\ short' = IF n < Len(chunk[c]) THEN short \cup {c} ELSE short
  BY DEF WriteSome
<1> DEFINE s == echoed[c]
           t == taken[c]
           f == From(c)
           b == Bytes(f, t)
           e == s \o SubSeq(b, 1, n)
<1>2. t \in Nat /\ s \in Seq(Nat) /\ Client(c) /\ conn[c] = "writing"
  BY ClientTypes DEF WriteSome
<1>3. f \in Nat /\ f <= t /\ chunk[c] = b /\ Len(b) \in Nat
  <2>1. f \in Nat /\ chunk[c] = b /\ Len(b) \in Nat BY ClientTypes DEF Client, Data
  <2>2. f = t - Len(b) BY <2>1 DEF From
  <2> HIDE DEF f, t, b
  <2>3. t \in Nat BY <1>2
  <2> QED BY <2>1, <2>2, <2>3
<1>4. Increasing(s) /\ \A i \in DOMAIN s : s[i] \in 1..f
  <2>1. \A i \in DOMAIN s : s[i] \in 1..t /\ s[i] <= f BY <1>2 DEF Client, Data
  <2> QED BY <2>1, <1>2, <1>3 DEF Client
<1>5. /\ e \in Seq(Nat) /\ Increasing(e) /\ \A i \in DOMAIN e : e[i] \in 1..t
      /\ n = Len(b) => e = s \o b
  BY <1>2, <1>3, <1>4, WriteAppends
<1>6. echoed' = [echoed EXCEPT ![c] = e] BY <1>1, <1>3
<1> HIDE DEF e
<1>7. Types'
  <2>1. echoed' \in [Clients -> Seq(Nat)] BY <1>5, <1>6 DEF IInv, Types
  <2> QED BY <1>1, <2>1 DEF IInv, Types, WriteSome, client
<1>8. /\ echoed'[c] = e /\ conn'[c] = "reading" /\ taken'[c] = t /\ chunk'[c] = chunk[c]
      /\ sent'[c] = sent[c] /\ From(c)' = f
  BY <1>6 DEF IInv, Types, WriteSome, client, From
<1>9. Data(c)' BY <1>2, <1>5, <1>8 DEF Client, Data
<1>10. Whole(c)'
  <2> SUFFICES ASSUME c \notin short' PROVE e = Bytes(0, t) BY <1>8 DEF Whole
  <2>1. c \notin short /\ n = Len(b) BY <1>1, <1>3
  <2>2. s = Bytes(0, f) BY <2>1, <1>2 DEF Client, Whole
  <2>3. e = Bytes(0, f) \o Bytes(f, t) BY <2>1, <2>2, <1>5
  <2> QED BY <2>3, <1>2, <1>3, BytesJoin
<1> QED BY <1>5, <1>7, <1>8, <1>9, <1>10 DEF Client

LEMMA Untouched ==
  ASSUME IInv, NEW c \in Clients,
         conn'[c] = conn[c], sent'[c] = sent[c], taken'[c] = taken[c],
         chunk'[c] = chunk[c], echoed'[c] = echoed[c],
         c \in short' <=> c \in short, c \in broken' <=> c \in broken
  PROVE  Client(c)'
<1>1. Client(c) BY ClientTypes
<1>2. From(c)' = From(c) BY DEF From
<1> QED BY <1>1, <1>2 DEF Client, Data, Whole

LEMMA HeadWaits ==
  ASSUME IInv, backlog # <<>>
  PROVE  Head(backlog) \in Clients /\ conn[Head(backlog)] = "backlog"
<1>1. /\ backlog \in Seq(Clients) /\ ToSet(backlog) = {c \in Clients : conn[c] = "backlog"}
  BY DEF IInv, BacklogOK
<1>2. Head(backlog) = backlog[1] /\ 1 \in DOMAIN backlog BY <1>1
<1>3. Head(backlog) \in ToSet(backlog) BY <1>2 DEF ToSet
<1> QED BY <1>1, <1>3

\* Only echo() touches a client's bytes; a client that leaves "reading" without
\* an error has been read to the end.
LEMMA ClientKept ==
  ASSUME IInv, [Next]_vars, NEW c \in Clients
  PROVE  Client(c)'
<1> USE DEF client, data
<1>client. Client(c) /\ sent[c] \in Nat /\ taken[c] \in Nat BY ClientTypes
<1>types. Types BY DEF IInv
<1>1. ASSUME NEW d \in Clients, Connect(d) PROVE Client(c)'
  <2>1. CASE d = c
    <3>1. From(c)' = From(c) BY <1>1 DEF From, Connect
    <3> QED BY <1>client, <1>types, <1>1, <2>1, <3>1 DEF Connect, Client, Data, Whole, Types
  <2> QED BY <1>types, <1>1, <2>1, Untouched DEF Connect, Types
<1>2. ASSUME NEW d \in Clients, Send(d) PROVE Client(c)'
  <2>1. CASE d = c
    <3>1. From(c)' = From(c) BY <1>2 DEF From, Send
    <3>2. sent'[c] = sent[c] + 1 /\ taken[c] <= sent[c] + 1
      BY <1>client, <1>types, <1>2, <2>1 DEF Send, Types, Client, Data
    <3> QED BY <1>client, <1>2, <2>1, <3>1, <3>2 DEF Send, Client, Data, Whole
  <2> QED BY <1>types, <1>2, <2>1, Untouched DEF Send, Types
<1>3. ASSUME NEW d \in Clients, HangUp(d) PROVE Client(c)'
  BY <1>types, <1>3, Untouched DEF HangUp
<1>4. ASSUME NEW d \in Clients, ReadSome(d) PROVE Client(c)'
  <2>1. CASE d = c BY <1>4, <2>1, ReadSomeKeeps
  <2> QED BY <1>types, <1>4, <2>1, Untouched DEF ReadSome, Types
<1>5. ASSUME NEW d \in Clients, WriteSome(d) PROVE Client(c)'
  <2>1. CASE d = c BY <1>5, <2>1, WriteSomeKeeps
  <2>2. CASE d # c
    <3>1. c \in short' <=> c \in short BY <1>5, <2>2 DEF WriteSome
    <3> QED BY <1>types, <1>5, <2>2, <3>1, Untouched DEF WriteSome, Types
  <2> QED BY <2>1, <2>2
<1>6. ASSUME NEW d \in Clients, ReadEof(d) PROVE Client(c)'
  <2>1. CASE d = c
    <3>1. From(c)' = From(c) BY <1>6 DEF From, ReadEof
    <3> QED BY <1>client, <1>types, <1>6, <2>1, <3>1 DEF ReadEof, Client, Data, Whole, Types
  <2> QED BY <1>types, <1>6, <2>1, Untouched DEF ReadEof, Types
<1>7. ASSUME NEW d \in Clients, Breaks(d) PROVE Client(c)'
  <2>1. CASE d = c
    <3>1. From(c)' = From(c) BY <1>7 DEF From, Breaks
    <3> QED BY <1>client, <1>types, <1>7, <2>1, <3>1 DEF Breaks, Client, Data, Whole, Types
  <2> QED BY <1>types, <1>7, <2>1, Untouched DEF Breaks, Types
<1>8. CASE Signal \/ Listen \/ Ended \/ UNCHANGED vars
  BY <1>8, Untouched DEF Signal, Listen, Ended, vars
<1>9. CASE Accept
  <2>1. CASE c = Head(backlog)
    <3>1. From(c)' = From(c) BY <1>9 DEF From, Accept
    <3>2. conn[c] = "backlog" /\ conn'[c] = "reading"
      BY <1>types, <1>9, <2>1, HeadWaits DEF Accept, Types
    <3> QED BY <1>client, <1>9, <3>1, <3>2 DEF Accept, Client, Data, Whole
  <2> QED BY <1>types, <1>9, <2>1, Untouched DEF Accept, Types
<1>10. CASE AcceptFails
  <2>1. CASE UNCHANGED conn /\ UNCHANGED broken BY <1>10, <2>1, Untouched DEF AcceptFails
  <2>2. CASE conn' = [conn EXCEPT ![Head(backlog)] = "closed"] /\ broken' = broken \cup {Head(backlog)}
    <3>1. CASE c = Head(backlog)
      <4>1. From(c)' = From(c) BY <1>10 DEF From, AcceptFails
      <4>2. conn'[c] = "closed" /\ c \in broken' BY <1>types, <2>2, <3>1 DEF Types
      <4> QED BY <1>client, <1>10, <4>1, <4>2 DEF AcceptFails, Client, Data, Whole
    <3> QED BY <1>types, <1>10, <2>2, <3>1, Untouched DEF AcceptFails, Types
  <2> QED BY <1>10, <2>1, <2>2 DEF AcceptFails
<1> QED BY <1>1, <1>2, <1>3, <1>4, <1>5, <1>6, <1>7, <1>8, <1>9, <1>10 DEF Next, Echo

-----------------------------------------------------------------------------
(* Types and the backlog.                                                  *)

LEMMA TypesKept ==
  ASSUME IInv, [Next]_vars
  PROVE  Types'
<1> USE DEF client, data
<1>types. Types BY DEF IInv
<1>1. ASSUME NEW d \in Clients, Connect(d) PROVE Types' BY <1>types, <1>1 DEF Connect, Types
<1>2. ASSUME NEW d \in Clients, Send(d) PROVE Types'
  <2>1. sent[d] + 1 \in 0..MaxBytes BY <1>types, <1>2, SizesAssumption DEF Send, Types
  <2> QED BY <1>types, <1>2, <2>1 DEF Send, Types
<1>3. ASSUME NEW d \in Clients, HangUp(d) PROVE Types' BY <1>types, <1>3 DEF HangUp, Types
<1>4. ASSUME NEW d \in Clients, ReadSome(d) PROVE Types' BY <1>4, ReadSomeKeeps
<1>5. ASSUME NEW d \in Clients, WriteSome(d) PROVE Types' BY <1>5, WriteSomeKeeps
<1>6. ASSUME NEW d \in Clients, ReadEof(d) PROVE Types' BY <1>types, <1>6 DEF ReadEof, Types
<1>7. ASSUME NEW d \in Clients, Breaks(d) PROVE Types' BY <1>types, <1>7 DEF Breaks, Types
<1>8. CASE Signal \/ Listen \/ Ended \/ UNCHANGED vars
  BY <1>types, <1>8 DEF Signal, Listen, Ended, vars, Types
<1>9. CASE Accept BY <1>types, <1>9 DEF Accept, Types
<1>10. CASE AcceptFails BY <1>types, <1>10, HeadWaits DEF AcceptFails, Types
<1> QED BY <1>1, <1>2, <1>3, <1>4, <1>5, <1>6, <1>7, <1>8, <1>9, <1>10 DEF Next, Echo

LEMMA Joins ==
  ASSUME NEW S, NEW s \in Seq(S), NEW x \in S, IsInjective(s), x \notin ToSet(s)
  PROVE  /\ Append(s, x) \in Seq(S) /\ IsInjective(Append(s, x))
         /\ ToSet(Append(s, x)) = ToSet(s) \cup {x}
<1> DEFINE t == Append(s, x)
<1>1. /\ t \in Seq(S) /\ DOMAIN t = 1..(Len(s) + 1) /\ DOMAIN s = 1..Len(s) /\ Len(s) \in Nat
      /\ \A i \in DOMAIN s : t[i] = s[i]
      /\ t[Len(s) + 1] = x
  OBVIOUS
<1> HIDE DEF t
<1>2. \A i \in DOMAIN t : i \in DOMAIN s \/ i = Len(s) + 1 BY <1>1
<1>3. ToSet(t) = ToSet(s) \cup {x} BY <1>1, <1>2 DEF ToSet
<1>4. IsInjective(t) BY <1>1, <1>2 DEF IsInjective, ToSet
<1> QED BY <1>1, <1>3, <1>4 DEF t

LEMMA Leaves ==
  ASSUME NEW S, NEW s \in Seq(S), IsInjective(s), s # <<>>
  PROVE  /\ Tail(s) \in Seq(S) /\ IsInjective(Tail(s))
         /\ ToSet(Tail(s)) = ToSet(s) \ {Head(s)}
<1> DEFINE t == Tail(s)
<1>1. /\ t \in Seq(S) /\ DOMAIN t = 1..(Len(s) - 1) /\ DOMAIN s = 1..Len(s)
      /\ Len(s) \in Nat \ {0} /\ Head(s) = s[1]
      /\ \A i \in 1..(Len(s) - 1) : t[i] = s[i + 1]
  OBVIOUS
<1> HIDE DEF t
<1>2. \A i \in DOMAIN t : i + 1 \in DOMAIN s /\ i + 1 # 1 /\ t[i] = s[i + 1] BY <1>1
<1>3. \A i \in DOMAIN s : i = 1 \/ (i - 1 \in DOMAIN t /\ t[i - 1] = s[i]) BY <1>1
<1>4. ToSet(t) = ToSet(s) \ {Head(s)}
  <2>1. ToSet(t) \subseteq ToSet(s) \ {Head(s)} BY <1>1, <1>2 DEF ToSet, IsInjective
  <2>2. ToSet(s) \ {Head(s)} \subseteq ToSet(t) BY <1>1, <1>3 DEF ToSet
  <2> QED BY <2>1, <2>2
<1>5. IsInjective(t)
  <2> SUFFICES ASSUME NEW i \in DOMAIN t, NEW j \in DOMAIN t, t[i] = t[j] PROVE i = j
    BY DEF IsInjective
  <2>1. i + 1 = j + 1 BY <1>2 DEF IsInjective
  <2> QED BY <2>1, <1>1
<1> QED BY <1>1, <1>4, <1>5 DEF t

LEMMA BacklogKept ==
  ASSUME IInv, [Next]_vars
  PROVE  BacklogOK'
<1> USE DEF client, data
<1>types. Types /\ BacklogOK BY DEF IInv
<1>1. ASSUME NEW d \in Clients, Connect(d) PROVE BacklogOK'
  <2>1. conn[d] = "none" /\ conn' = [conn EXCEPT ![d] = "backlog"] /\ backlog' = Append(backlog, d)
    BY <1>1 DEF Connect
  <2>2. d \notin ToSet(backlog) BY <1>types, <2>1 DEF BacklogOK
  <2>3. /\ backlog' \in Seq(Clients) /\ IsInjective(backlog')
        /\ ToSet(backlog') = ToSet(backlog) \cup {d}
    BY <1>types, <2>1, <2>2, Joins DEF BacklogOK
  <2>4. ToSet(backlog') = {c \in Clients : conn'[c] = "backlog"}
    BY <1>types, <2>1, <2>3 DEF BacklogOK, Types
  <2> QED BY <2>3, <2>4 DEF BacklogOK
<1>2. ASSUME backlog # <<>>, NEW k \in {"reading", "closed"},
             conn' = [conn EXCEPT ![Head(backlog)] = k], backlog' = Tail(backlog)
      PROVE  BacklogOK'
  <2>1. /\ backlog' \in Seq(Clients) /\ IsInjective(backlog')
        /\ ToSet(backlog') = ToSet(backlog) \ {Head(backlog)}
    BY <1>types, <1>2, Leaves DEF BacklogOK
  <2>2. ToSet(backlog') = {c \in Clients : conn'[c] = "backlog"}
    BY <1>types, <1>2, <2>1 DEF BacklogOK, Types
  <2> QED BY <2>1, <2>2 DEF BacklogOK
<1>3. ASSUME UNCHANGED backlog, NEW d \in Clients, conn[d] \in {"reading", "writing"},
             NEW k \in {"reading", "writing", "closed"}, conn' = [conn EXCEPT ![d] = k]
      PROVE  BacklogOK'
  BY <1>types, <1>3 DEF BacklogOK, Types
<1>4. ASSUME UNCHANGED <<backlog, conn>> PROVE BacklogOK' BY <1>types, <1>4 DEF BacklogOK
<1>5. ASSUME NEW d \in Clients, Send(d) \/ HangUp(d) \/ Echo(d) \/ Breaks(d) PROVE BacklogOK'
  BY <1>3, <1>4, <1>5 DEF Send, HangUp, Echo, ReadSome, ReadEof, WriteSome, Breaks, Open
<1>6. CASE Accept BY <1>2, <1>6 DEF Accept
<1>7. CASE AcceptFails BY <1>2, <1>4, <1>7 DEF AcceptFails
<1>8. CASE Signal \/ Listen \/ Ended \/ UNCHANGED vars
  BY <1>4, <1>8 DEF Signal, Listen, Ended, vars
<1> QED BY <1>1, <1>5, <1>6, <1>7, <1>8 DEF Next

LEMMA StepHolds == IInv /\ [Next]_vars => IInv'
<1> SUFFICES ASSUME IInv, [Next]_vars PROVE IInv' OBVIOUS
<1>1. \A c \in Clients : Client(c)' BY ClientKept
<1>2. EchoesInOrder' BY <1>1 DEF EchoesInOrder, Client, Increasing
<1> QED BY <1>1, <1>2, TypesKept, BacklogKept DEF IInv, Client

LEMMA TypesSuffice == IInv => TypeOK
<1> SUFFICES ASSUME IInv PROVE TypeOK OBVIOUS
<1>1. ASSUME NEW c \in Clients
      PROVE  /\ Len(chunk[c]) <= BufferSize /\ ToSet(chunk[c]) \subseteq 1..sent[c]
             /\ ToSet(echoed[c]) \subseteq 1..sent[c]
  <2>1. Data(c) /\ sent[c] \in Nat /\ taken[c] \in Nat BY ClientTypes DEF Client
  <2>2. /\ From(c) \in Nat /\ chunk[c] = Bytes(From(c), taken[c]) /\ taken[c] <= sent[c]
        /\ Len(chunk[c]) <= BufferSize /\ From(c) = taken[c] - Len(chunk[c])
        /\ chunk[c] \in Seq(Nat)
    BY <2>1, ClientTypes DEF Data, From
  <2>3. ASSUME NEW i \in DOMAIN chunk[c] PROVE chunk[c][i] \in 1..sent[c]
    <3>1. i \in 1..(taken[c] - From(c)) /\ chunk[c][i] = From(c) + i BY <2>2 DEF Bytes
    <3>2. i \in Nat /\ 1 <= i /\ i <= taken[c] - From(c) BY <3>1, <2>1, <2>2
    <3>3. From(c) + i \in Nat /\ 1 <= From(c) + i /\ From(c) + i <= sent[c] BY <3>2, <2>1, <2>2
    <3> QED BY <3>1, <3>3
  <2>4. \A i \in DOMAIN echoed[c] : echoed[c][i] \in 1..sent[c] BY <2>1, <2>2 DEF Data
  <2> QED BY <2>2, <2>3, <2>4 DEF ToSet
<1> QED BY <1>1 DEF IInv, Types, BacklogOK, TypeOK

-----------------------------------------------------------------------------
\* Type correctness, for any number of clients and bytes and any buffer: a
\* client is held for the acceptor once, and the buffer is never overrun.
THEOREM TypeCorrect == Spec => []TypeOK
BY InitHolds, StepHolds, TypesSuffice, PTL DEF Spec

\* echo() sends back what the client sent, in its order and nothing twice.
THEOREM EchoesInOrderHolds == Spec => []EchoesInOrder
<1>1. IInv => EchoesInOrder BY DEF IInv
<1> QED BY InitHolds, StepHolds, <1>1, PTL DEF Spec

\* A connection that echo() read to its end has every byte back, unless one
\* async_write_some() stopped short.
THEOREM OnlyShortWritesLoseHolds == Spec => []OnlyShortWritesLose
<1>1. IInv => OnlyShortWritesLose BY DEF IInv, OnlyShortWritesLose, Whole
<1> QED BY InitHolds, StepHolds, <1>1, PTL DEF Spec
=============================================================================
