----------------------------- MODULE EchoServer -----------------------------
(***************************************************************************)
(* example/echo_server.cpp: the listen() coroutine accepts, one echo()     *)
(* coroutine per connection reads what there is and writes it back, and a  *)
(* signal stops the io_context.  A coroutine resumes with the outcome of   *)
(* the one operation it awaits and shares no data with the others, so the  *)
(* operation and what the coroutine does with its outcome are one step.    *)
(* Bytes are numbered in the order a client sends them.                    *)
(***************************************************************************)
EXTENDS Naturals, Sequences, FiniteSets, SequencesExt

CONSTANTS Clients,
          MaxOpen,     \* the descriptors left for connections
          MaxBytes,    \* bound: how many bytes a client sends
          BufferSize   \* of echo()'s buffer

ASSUME SizesAssumption == MaxOpen \in Nat /\ MaxBytes \in Nat /\ BufferSize \in Nat \ {0}

VARIABLES
  listener,  \* listen(): "starting", "accepting", or "ended" by an exception
  backlog,   \* the clients the system holds for the acceptor, in order
  conn,      \* per client: "none", "backlog", "reading", "writing", "closed"
  sent,      \* how many bytes the client has sent
  hung_up,   \* the clients that have shut down their side
  taken,     \* how many bytes echo() has read
  chunk,     \* sv_buffer, the bytes it is writing
  echoed,    \* the bytes the client has got back
  short,     \* history: the clients a write stopped short for
  broken,    \* history: the clients whose connection failed
  stopped    \* io_ctx.stop() was called: run() returns and nothing resumes

client == <<sent, hung_up>>
data   == <<taken, chunk, echoed, short>>
vars   == <<listener, backlog, conn, client, data, broken, stopped>>

Init ==
  /\ listener = "starting" /\ backlog = <<>> /\ stopped = FALSE
  /\ conn = [c \in Clients |-> "none"]
  /\ sent = [c \in Clients |-> 0] /\ taken = [c \in Clients |-> 0]
  /\ chunk = [c \in Clients |-> <<>>] /\ echoed = [c \in Clients |-> <<>>]
  /\ hung_up = {} /\ short = {} /\ broken = {}

\* Mutant: the view starts one byte too far.
Bytes_OffByOne(from, to) == [i \in 1..(to - from) |-> from + i + 1]

\* What a read that took the bytes after `from`, up to `to`, has in the buffer.
Bytes(from, to) == [i \in 1..(to - from) |-> from + i]
Open == {c \in Clients : conn[c] \in {"reading", "writing"}}

-----------------------------------------------------------------------------
(* The clients and the system.                                             *)

Connect(c) ==
  /\ ~stopped /\ listener = "accepting" /\ conn[c] = "none"
  /\ conn' = [conn EXCEPT ![c] = "backlog"] /\ backlog' = Append(backlog, c)
  /\ UNCHANGED <<listener, client, data, broken, stopped>>

Send(c) ==
  /\ ~stopped /\ conn[c] \in {"backlog", "reading", "writing"} /\ c \notin hung_up /\ sent[c] < MaxBytes
  /\ sent' = [sent EXCEPT ![c] = @ + 1]
  /\ UNCHANGED <<listener, backlog, conn, hung_up, data, broken, stopped>>

HangUp(c) ==
  /\ ~stopped /\ conn[c] \in {"backlog", "reading", "writing"} /\ c \notin hung_up
  /\ hung_up' = hung_up \cup {c}
  /\ UNCHANGED <<listener, backlog, conn, sent, data, broken, stopped>>

Signal ==
  /\ ~stopped /\ stopped' = TRUE
  /\ UNCHANGED <<listener, backlog, conn, client, data, broken>>

-----------------------------------------------------------------------------
(* listen().                                                               *)

\* The acceptor's constructor binds the port, or throws and ends listen().
Listen ==
  /\ ~stopped /\ listener = "starting"
  /\ listener' \in {"accepting", "ended"}
  /\ UNCHANGED <<backlog, conn, client, data, broken, stopped>>

Accept ==
  /\ ~stopped /\ listener = "accepting" /\ backlog # <<>> /\ Cardinality(Open) < MaxOpen
  /\ conn' = [conn EXCEPT ![Head(backlog)] = "reading"] /\ backlog' = Tail(backlog)
  /\ UNCHANGED <<listener, client, data, broken, stopped>>

\* Mutant: an error ends the loop, as it does in echo().
AcceptFails_Breaks ==
  /\ ~stopped /\ listener = "accepting" /\ backlog # <<>>
  /\ listener' = "ended"
  /\ UNCHANGED <<backlog, conn, client, data, broken, stopped>>

\* `continue`: out of descriptors the client stays in the backlog, and the
\* next async_accept fails at once; one that has gone is dropped from it.
AcceptFails ==
  /\ ~stopped /\ listener = "accepting" /\ backlog # <<>>
  /\ \/ Cardinality(Open) >= MaxOpen /\ UNCHANGED <<backlog, conn, broken>>
     \/ /\ conn' = [conn EXCEPT ![Head(backlog)] = "closed"] /\ backlog' = Tail(backlog)
        /\ broken' = broken \cup {Head(backlog)}
  /\ UNCHANGED <<listener, client, data, stopped>>

-----------------------------------------------------------------------------
(* echo(), one per accepted client.                                        *)

\* Mutant: the view covers the buffer instead of what was read into it.
ReadSome_WholeBuffer(c) ==
  /\ ~stopped /\ conn[c] = "reading" /\ taken[c] < sent[c]
  /\ \E n \in 1..BufferSize :
       /\ taken[c] + n <= sent[c]
       /\ taken' = [taken EXCEPT ![c] = @ + n]
       /\ chunk' = [chunk EXCEPT ![c] = Bytes(taken[c], taken[c] + n) \o SubSeq(@, n + 1, Len(@))]
  /\ conn' = [conn EXCEPT ![c] = "writing"]
  /\ UNCHANGED <<listener, backlog, client, echoed, short, broken, stopped>>

ReadSome(c) ==
  /\ ~stopped /\ conn[c] = "reading" /\ taken[c] < sent[c]
  /\ \E n \in 1..BufferSize :
       /\ taken[c] + n <= sent[c]
       /\ taken' = [taken EXCEPT ![c] = @ + n]
       /\ chunk' = [chunk EXCEPT ![c] = Bytes(taken[c], taken[c] + n)]
  /\ conn' = [conn EXCEPT ![c] = "writing"]
  /\ UNCHANGED <<listener, backlog, client, echoed, short, broken, stopped>>

\* eof is read when the client has hung up and all it sent has been read.
ReadEof(c) ==
  /\ ~stopped /\ conn[c] = "reading" /\ c \in hung_up /\ taken[c] = sent[c]
  /\ conn' = [conn EXCEPT ![c] = "closed"]
  /\ UNCHANGED <<listener, backlog, client, data, broken, stopped>>

\* Mutant: the write covers one byte less than what was read.
WriteSome_OffByOne(c) ==
  /\ ~stopped /\ conn[c] = "writing"
  /\ \E n \in 1..Len(chunk[c]) :
       /\ echoed' = [echoed EXCEPT ![c] = @ \o SubSeq(chunk[c], 1, n - 1)]
       /\ short' = IF n < Len(chunk[c]) THEN short \cup {c} ELSE short
  /\ conn' = [conn EXCEPT ![c] = "reading"]
  /\ UNCHANGED <<listener, backlog, client, taken, chunk, broken, stopped>>

\* One async_write_some: the bytes it leaves over are not written again.
WriteSome(c) ==
  /\ ~stopped /\ conn[c] = "writing"
  /\ \E n \in 1..Len(chunk[c]) :
       /\ echoed' = [echoed EXCEPT ![c] = @ \o SubSeq(chunk[c], 1, n)]
       /\ short' = IF n < Len(chunk[c]) THEN short \cup {c} ELSE short
  /\ conn' = [conn EXCEPT ![c] = "reading"]
  /\ UNCHANGED <<listener, backlog, client, taken, chunk, broken, stopped>>

\* Any other error of the two ends echo(); its socket is closed with it.
Breaks(c) ==
  /\ ~stopped /\ c \in Open
  /\ conn' = [conn EXCEPT ![c] = "closed"] /\ broken' = broken \cup {c}
  /\ UNCHANGED <<listener, backlog, client, data, stopped>>

\* run() has returned, and main() with it.
Ended == stopped /\ UNCHANGED vars

Echo(c) == ReadSome(c) \/ ReadEof(c) \/ WriteSome(c)

Next ==
  \/ \E c \in Clients : Connect(c) \/ Send(c) \/ HangUp(c) \/ Echo(c) \/ Breaks(c)
  \/ Signal \/ Listen \/ Accept \/ AcceptFails \/ Ended

Spec == Init /\ [][Next]_vars

\* The context resumes every coroutine whose operation is through; clients
\* hang up some day.
FairSpec ==
  /\ Spec /\ WF_vars(Accept)
  /\ \A c \in Clients : WF_vars(Echo(c)) /\ WF_vars(HangUp(c))

-----------------------------------------------------------------------------
(* Properties.                                                             *)

TypeOK ==
  /\ listener \in {"starting", "accepting", "ended"} /\ stopped \in BOOLEAN
  /\ conn \in [Clients -> {"none", "backlog", "reading", "writing", "closed"}]
  /\ ToSet(backlog) = {c \in Clients : conn[c] = "backlog"} /\ IsInjective(backlog)
  /\ sent \in [Clients -> 0..MaxBytes] /\ taken \in [Clients -> 0..MaxBytes]
  /\ \A c \in Clients : Len(chunk[c]) <= BufferSize /\ ToSet(chunk[c]) \subseteq 1..sent[c]
  /\ \A c \in Clients : ToSet(echoed[c]) \subseteq 1..sent[c]
  /\ hung_up \subseteq Clients /\ short \subseteq Clients /\ broken \subseteq Clients

\* What a client gets back is what it sent, in its order, nothing twice: a
\* short write leaves a gap and never a stale byte of the reused buffer.
EchoesInOrder ==
  \A c \in Clients : \A i, j \in DOMAIN echoed[c] : i < j => echoed[c][i] < echoed[c][j]

\* A client that hung up and was read to the end has every byte back, unless
\* a write stopped short: echo() loses bytes in no other way.
OnlyShortWritesLose ==
  \A c \in Clients :
    conn[c] = "closed" /\ c \notin broken \cup short => echoed[c] = Bytes(0, sent[c])

\* listen() outlives its errors: a client does not stay in the backlog. It is
\* accepted once descriptors are free again, or was reset and dropped there by
\* the accept that failed, or the server was stopped.
BacklogIsServed ==
  \A c \in Clients : (conn[c] = "backlog") ~> (conn[c] # "backlog" \/ stopped)
=============================================================================
