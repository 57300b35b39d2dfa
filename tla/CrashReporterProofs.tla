------------------------- MODULE CrashReporterProofs -------------------------
(***************************************************************************)
(* Proofs, for every number of runs, of the safety properties of           *)
(* CrashReporter.                                                          *)
(***************************************************************************)
EXTENDS CrashReporter, TLAPS

(* The inductive invariant.                                                *)

Distinct(s) == \A i, j \in DOMAIN s : s[i].sig = s[j].sig => i = j

Types ==
  /\ dump \in Dumps \cup {NoDump} /\ found \in Dumps \cup {NoDump}
  /\ logged \subseteq Dumps /\ buffered \subseteq Dumps
  /\ run \in 0..MaxRuns
  /\ pc \in {"off", "started", "logging", "watching", "shown", "running", "exiting"}
  /\ installed \subseteq Signals
  /\ locked \in {"none", "heap", "sink"}
  /\ io_ok \in BOOLEAN
  /\ ended \in {"exit", "fault", "handled", "killed"}

\* The handlers on the stack are of different signals, and each past its first
\* line has reset its disposition: it is never entered again.
StackOK ==
  /\ stack \in Seq(Frames) /\ Distinct(stack)
  /\ \A i \in DOMAIN stack : stack[i].at # "entered" => stack[i].sig \notin installed

OffIsEmpty == /\ pc = "off" => stack = <<>> /\ buffered = {}
              /\ pc # "off" => run # 0
              /\ stack = <<>> => locked = "none"
              /\ pc \in {"off", "started", "logging"} => stack = <<>> /\ installed = {}

\* What the topmost handler has made of the file.
OpenedIsCut   == HandlerAt("opened") => dump = [run |-> run, whole |-> FALSE]
DumpedIsWhole == HandlerAt("dumped") /\ io_ok => dump = [run |-> run, whole |-> TRUE]

\* What the main thread has made of the dump it found.
NotYetShown == stack = <<>> /\ pc \in {"started", "logging", "watching"} => dump = found
Shown       ==
  MainAt("shown") => found = dump /\ dump # NoDump /\ (io_ok => dump \in logged \cup buffered)
Consumed    ==
  stack = <<>> /\ pc \in {"running", "exiting"} /\ io_ok =>
    dump = NoDump /\ found \in logged \cup buffered \cup {NoDump}
RunningOwn  == pc = "running" => dump = NoDump \/ dump.run = run

\* What is on disk is not of a later run, and what was found of an earlier one;
\* this run's own dump was written by a handler that is still on the stack, or
\* there can be no more handlers.
Earlier == /\ dump.run <= run /\ (found # NoDump => found.run < run)
           /\ buffered \subseteq {found} \ {NoDump}
Wrote(f) == f.at \in {"opened", "dumped"}
OwnIsHandled ==
  pc # "off" /\ dump # NoDump /\ dump.run = run =>
    \/ stack = <<>> /\ installed = {}
    \/ \E i \in DOMAIN stack : Wrote(stack[i])

Core ==
  /\ Types /\ StackOK /\ OffIsEmpty
  /\ OpenedIsCut /\ DumpedIsWhole /\ HandledCrashIsOnDisk
  /\ NotYetShown /\ Shown /\ Consumed /\ RunningOwn
  /\ ConsumedBeforeRun /\ OrderlyRunReports

IInv == Core /\ Earlier /\ OwnIsHandled

-----------------------------------------------------------------------------
(* What happens to the stack.                                              *)

LEMMA Push ==
  ASSUME NEW f \in Frames, NEW s \in Seq(Frames), NEW t, t = <<f>> \o s
  PROVE  /\ t \in Seq(Frames) /\ t # <<>> /\ Head(t) = f /\ 1 \in DOMAIN t /\ t[1] = f
         /\ \A i \in DOMAIN t : t[i] = f \/ \E j \in DOMAIN s : t[i] = s[j]
         /\ Distinct(s) /\ (\A i \in DOMAIN s : s[i].sig # f.sig) => Distinct(t)
<1>1. t \in Seq(Frames) /\ t # <<>> /\ Head(t) = f /\ 1 \in DOMAIN t /\ t[1] = f
  OBVIOUS
<1>2. \A i \in DOMAIN t :
        (i = 1 /\ t[i] = f) \/ (i - 1 \in DOMAIN s /\ i \in Nat /\ t[i] = s[i - 1])
  OBVIOUS
<1>3. ASSUME Distinct(s), \A i \in DOMAIN s : s[i].sig # f.sig PROVE Distinct(t)
  <2> SUFFICES ASSUME NEW i \in DOMAIN t, NEW j \in DOMAIN t, t[i].sig = t[j].sig PROVE i = j
    BY DEF Distinct
  <2>1. \/ i = 1 /\ t[i] = f
        \/ i - 1 \in DOMAIN s /\ i \in Nat /\ t[i] = s[i - 1]
    BY <1>2
  <2>2. \/ j = 1 /\ t[j] = f
        \/ j - 1 \in DOMAIN s /\ j \in Nat /\ t[j] = s[j - 1]
    BY <1>2
  <2>3. CASE i - 1 \in DOMAIN s /\ j - 1 \in DOMAIN s /\ i \in Nat /\ j \in Nat
             /\ t[i] = s[i - 1] /\ t[j] = s[j - 1]
    <3>1. i - 1 = j - 1 BY <1>3, <2>3 DEF Distinct
    <3> QED BY <2>3, <3>1
  <2> QED BY <1>3, <2>1, <2>2, <2>3
<1>4. \A i \in DOMAIN t : t[i] = f \/ \E j \in DOMAIN s : t[i] = s[j] BY <1>2
<1> QED BY <1>1, <1>3, <1>4

LEMMA PopOff ==
  ASSUME NEW s \in Seq(Frames), s # <<>>, Distinct(s)
  PROVE  /\ Head(s) \in Frames /\ Tail(s) \in Seq(Frames) /\ Distinct(Tail(s))
         /\ 1 \in DOMAIN s /\ Head(s) = s[1]
         /\ \A i \in DOMAIN s : i = 1 \/ \E j \in DOMAIN Tail(s) : s[i] = Tail(s)[j]
         /\ \A i \in DOMAIN Tail(s) :
              Tail(s)[i].sig # Head(s).sig /\ \E j \in DOMAIN s : Tail(s)[i] = s[j]
<1>1. Head(s) \in Frames /\ Tail(s) \in Seq(Frames) /\ 1 \in DOMAIN s /\ Head(s) = s[1]
  OBVIOUS
<1>2. \A i \in DOMAIN Tail(s) : i + 1 \in DOMAIN s /\ i \in Nat \ {0} /\ Tail(s)[i] = s[i + 1]
  OBVIOUS
<1>3. \A i \in DOMAIN s : i = 1 \/ (i - 1 \in DOMAIN Tail(s) /\ s[i] = Tail(s)[i - 1])
  OBVIOUS
<1>4. \A i \in DOMAIN s : i = 1 \/ \E j \in DOMAIN Tail(s) : s[i] = Tail(s)[j] BY <1>3
<1>5. \A i \in DOMAIN Tail(s) : Tail(s)[i].sig # Head(s).sig /\ \E j \in DOMAIN s : Tail(s)[i] = s[j]
  BY <1>1, <1>2 DEF Distinct
<1>6. Distinct(Tail(s)) BY <1>1, <1>2 DEF Distinct
<1> QED BY <1>1, <1>4, <1>5, <1>6

\* The same of the variable.
LEMMA PushStack ==
  ASSUME NEW f \in Frames, NEW s \in Seq(Frames), stack' = <<f>> \o s,
         Distinct(s), \A i \in DOMAIN s : s[i].sig # f.sig
  PROVE  /\ stack' \in Seq(Frames) /\ stack' # <<>> /\ Head(stack') = f /\ Distinct(stack')
         /\ 1 \in DOMAIN stack' /\ stack'[1] = f
         /\ \A i \in DOMAIN s : \E j \in DOMAIN stack' : stack'[j] = s[i]
         /\ \A i \in DOMAIN stack' : stack'[i] = f \/ \E j \in DOMAIN s : stack'[i] = s[j]
<1> DEFINE t == <<f>> \o s
<1>1. t = <<f>> \o s /\ stack' = t OBVIOUS
<1> HIDE DEF t
<1>2. t \in Seq(Frames) /\ t # <<>> /\ Head(t) = f /\ 1 \in DOMAIN t /\ t[1] = f
  BY <1>1, Push
<1>3. \A i \in DOMAIN s : \E j \in DOMAIN t : t[j] = s[i]
  <2>1. \A i \in DOMAIN s : i + 1 \in DOMAIN t /\ t[i + 1] = s[i] BY <1>1
  <2> QED BY <2>1
<1>4. \A i \in DOMAIN t : t[i] = f \/ \E j \in DOMAIN s : t[i] = s[j] BY <1>1, Push
<1>5. Distinct(t) BY <1>1, Push
<1> QED BY <1>1, <1>2, <1>3, <1>4, <1>5 DEF Distinct

LEMMA AdvanceStack ==
  ASSUME NEW step \in {"reset", "placed", "opened", "dumped", "stuck"},
         StackOK, stack # <<>>, Advance(step),
         installed' \subseteq installed, Head(stack).sig \notin installed'
  PROVE  /\ StackOK' /\ Head(stack').at = step /\ stack' # <<>>
         /\ 1 \in DOMAIN stack' /\ stack'[1].at = step
         /\ \A i \in DOMAIN stack :
              stack[i] = Head(stack) \/ \E j \in DOMAIN stack' : stack'[j] = stack[i]
<1> DEFINE f == [Head(stack) EXCEPT !.at = step]
<1>1. /\ Head(stack) \in Frames /\ Tail(stack) \in Seq(Frames) /\ Distinct(Tail(stack))
      /\ 1 \in DOMAIN stack /\ Head(stack) = stack[1]
      /\ \A i \in DOMAIN stack : i = 1 \/ \E j \in DOMAIN Tail(stack) : stack[i] = Tail(stack)[j]
      /\ \A i \in DOMAIN Tail(stack) :
           Tail(stack)[i].sig # Head(stack).sig /\ \E j \in DOMAIN stack : Tail(stack)[i] = stack[j]
  BY PopOff DEF StackOK
<1>2. f \in Frames /\ f.sig = Head(stack).sig /\ f.at = step BY <1>1 DEF Frames
<1>3. stack' = <<f>> \o Tail(stack) BY DEF Advance
<1> HIDE DEF f
<1>4. /\ stack' \in Seq(Frames) /\ stack' # <<>> /\ Head(stack') = f /\ Distinct(stack')
      /\ 1 \in DOMAIN stack' /\ stack'[1] = f
      /\ \A i \in DOMAIN Tail(stack) : \E j \in DOMAIN stack' : stack'[j] = Tail(stack)[i]
      /\ \A i \in DOMAIN stack' : stack'[i] = f \/ \E j \in DOMAIN Tail(stack) : stack'[i] = Tail(stack)[j]
  <2>1. \A i \in DOMAIN Tail(stack) : Tail(stack)[i].sig # f.sig BY <1>1, <1>2
  <2> QED BY <1>1, <1>2, <1>3, <2>1, PushStack
<1>5. \A i \in DOMAIN stack' : stack'[i].at # "entered" => stack'[i].sig \notin installed'
  BY <1>1, <1>2, <1>4 DEF StackOK
<1> QED BY <1>1, <1>2, <1>4, <1>5 DEF StackOK

LEMMA DeliverStack ==
  ASSUME StackOK, NEW sig \in Signals, NEW how, ~OnStack(sig), Deliver(sig, stack, how)
  PROVE  \/ Dies(how) /\ sig \notin installed
         \/ /\ StackOK' /\ stack' # <<>> /\ Head(stack').at = "entered" /\ sig \in installed
            /\ \A i \in DOMAIN stack : \E j \in DOMAIN stack' : stack'[j] = stack[i]
            /\ UNCHANGED <<pc, ended, installed, buffered>>
<1> DEFINE f == [sig |-> sig, at |-> "entered"]
<1>1. f \in Frames /\ f.sig = sig /\ f.at = "entered" BY DEF Frames
<1>2. ASSUME stack' = <<f>> \o stack, UNCHANGED installed
      PROVE  /\ StackOK' /\ stack' # <<>> /\ Head(stack').at = "entered"
             /\ \A i \in DOMAIN stack : \E j \in DOMAIN stack' : stack'[j] = stack[i]
  <2> HIDE DEF f
  <2>1. /\ stack' \in Seq(Frames) /\ stack' # <<>> /\ Head(stack') = f /\ Distinct(stack')
        /\ \A i \in DOMAIN stack : \E j \in DOMAIN stack' : stack'[j] = stack[i]
        /\ \A i \in DOMAIN stack' : stack'[i] = f \/ \E j \in DOMAIN stack : stack'[i] = stack[j]
    <3>1. stack \in Seq(Frames) /\ Distinct(stack) /\ \A i \in DOMAIN stack : stack[i].sig # f.sig
      BY <1>1 DEF StackOK, OnStack
    <3> QED BY <1>1, <1>2, <3>1, PushStack
  <2> QED BY <1>1, <1>2, <2>1 DEF StackOK
<1> QED BY <1>2 DEF Deliver

LEMMA DiesStack == ASSUME NEW how, Dies(how) PROVE StackOK'
BY DEF Dies, StackOK, Distinct

\* A raise(SIGABRT) with an ABRT handler below it ends the process.
LEMMA RaiseOutcome ==
  ASSUME StackOK, OffIsEmpty, RaiseAbort
  PROVE  \/ Dies("handled")
         \/ /\ StackOK' /\ stack' # <<>> /\ Head(stack').at = "entered" /\ installed # {}
            /\ \A i \in DOMAIN stack : \E j \in DOMAIN stack' : stack'[j] = stack[i]
            /\ UNCHANGED <<pc, ended, installed, buffered, locked>>
<1>1. stack # <<>> /\ Head(stack).at = "dumped" /\ Head(stack).sig \notin installed
  BY PopOff DEF RaiseAbort, HandlerAt, StackOK
<1>2. CASE OnStack("ABRT") BY <1>1, <1>2 DEF RaiseAbort, Deliver
<1>3. CASE ~OnStack("ABRT")
  <2>1. Deliver("ABRT", stack, "handled") BY <1>3 DEF RaiseAbort
  <2>2. "ABRT" \in Signals BY DEF Signals
  <2>4. \/ Dies("handled")
        \/ /\ StackOK' /\ stack' # <<>> /\ Head(stack').at = "entered" /\ installed # {}
           /\ \A i \in DOMAIN stack : \E j \in DOMAIN stack' : stack'[j] = stack[i]
           /\ UNCHANGED <<pc, ended, installed, buffered>>
    BY <1>3, <2>1, <2>2, DeliverStack
  <2>5. pc # "off" BY <1>1 DEF OffIsEmpty
  <2> QED BY <2>4, <2>5 DEF RaiseAbort
<1> QED BY <1>2, <1>3

-----------------------------------------------------------------------------
(* Every step preserves the invariant.                                     *)

LEMMA DumpValues ==
  ASSUME Types, run # 0
  PROVE  \A w \in BOOLEAN : [run |-> run, whole |-> w] \in Dumps
BY MaxRunsAssumption DEF Types, Dumps

LEMMA Written ==
  ASSUME NEW r, NEW v, NEW w
  PROVE  [[run |-> r, whole |-> v] EXCEPT !.whole = w] = [run |-> r, whole |-> w]
<1>1. ASSUME NEW d, d = [run |-> r, whole |-> v]
      PROVE  [d EXCEPT !.whole = w] = [run |-> r, whole |-> w]
  BY <1>1, SMT
<1> QED BY <1>1

\* The main thread: no handler is on the stack.
LEMMA MainStep ==
  ASSUME Core, Launch \/ Main
  PROVE  Core'
<1> USE DEF Core, Types, OffIsEmpty, OpenedIsCut, DumpedIsWhole, HandledCrashIsOnDisk,
            NotYetShown, Shown, Consumed, RunningOwn, ConsumedBeforeRun, OrderlyRunReports,
            HandlerAt, MainAt, files
<1>s. ASSUME stack = <<>>, UNCHANGED stack PROVE StackOK' BY <1>s DEF StackOK, Distinct
<1>1. CASE Launch
  <2>1. run' \in 0..MaxRuns /\ run' # 0 BY <1>1, MaxRunsAssumption DEF Launch
  <2> QED BY <1>1, <1>s, <2>1 DEF Launch
<1>2. CASE InitLog BY <1>2, <1>s DEF InitLog
<1>3. CASE InstallHandlers BY <1>3, <1>s DEF InstallHandlers
<1>4. CASE ShowLastDump BY <1>4, <1>s DEF ShowLastDump
<1>5. CASE RemoveDump
  <2>1. /\ pc = "shown" /\ stack = <<>>
        /\ UNCHANGED <<logged, run, found, stack, installed, locked, buffered, ended>>
    BY <1>5 DEF RemoveDump
  <2>2. CASE dump' = NoDump /\ pc' = "running" /\ UNCHANGED io_ok BY <1>s, <2>1, <2>2
  <2>3. CASE UNCHANGED dump /\ pc' = "exiting" /\ io_ok' = FALSE BY <1>s, <2>1, <2>3
  <2> QED BY <1>5, <2>2, <2>3 DEF RemoveDump
<1>6. CASE RunApp BY <1>6, <1>s DEF RunApp
<1>7. CASE Exit BY <1>7, DiesStack DEF Exit, Dies
<1> QED BY <1>1, <1>2, <1>3, <1>4, <1>5, <1>6, <1>7 DEF Main

\* A process that dies in any way but exit() and raise(SIGABRT).
LEMMA DeathStep ==
  ASSUME Core, NEW how \in {"fault", "killed"}, Dies(how), UNCHANGED <<files, run, found, io_ok>>
  PROVE  Core'
<1> USE DEF Core, Dies, files
<1>1. StackOK' BY DiesStack
<1>2. Types' BY DEF Types
<1>3. OffIsEmpty' BY DEF OffIsEmpty
<1>4. (OpenedIsCut /\ DumpedIsWhole)' BY DEF OpenedIsCut, DumpedIsWhole, HandlerAt
<1>5. (NotYetShown /\ Shown /\ Consumed /\ RunningOwn /\ ConsumedBeforeRun)'
  BY DEF NotYetShown, Shown, Consumed, RunningOwn, ConsumedBeforeRun, MainAt
<1>6. (HandledCrashIsOnDisk /\ OrderlyRunReports)' BY DEF HandledCrashIsOnDisk, OrderlyRunReports
<1> QED BY <1>1, <1>2, <1>3, <1>4, <1>5, <1>6

\* A handler is entered on top of what the process was doing.
LEMMA EnterStep ==
  ASSUME Core, pc # "off", StackOK', stack' # <<>>, Head(stack').at = "entered",
         UNCHANGED <<files, run, found, io_ok, pc, ended, installed, buffered>>,
         locked' \in {"none", "heap", "sink"}, installed # {}
  PROVE  Core'
<1> USE DEF Core, files
<1>1. Types' BY DEF Types
<1>2. OffIsEmpty' BY DEF OffIsEmpty
<1>3. (OpenedIsCut /\ DumpedIsWhole)' BY DEF OpenedIsCut, DumpedIsWhole, HandlerAt
<1>4. (NotYetShown /\ Shown /\ Consumed /\ RunningOwn /\ ConsumedBeforeRun)'
  BY DEF NotYetShown, Shown, Consumed, RunningOwn, ConsumedBeforeRun, MainAt
<1>5. (HandledCrashIsOnDisk /\ OrderlyRunReports)' BY DEF HandledCrashIsOnDisk, OrderlyRunReports
<1> QED BY <1>1, <1>2, <1>3, <1>4, <1>5

LEMMA CrashStep ==
  ASSUME Core, NEW sig \in Signals, NEW held \in {"none", "heap", "sink"}, Crash(sig, held)
  PROVE  Core'
<1>1. CASE Dies("fault") BY <1>1, DeathStep DEF Crash
<1>2. CASE ~Dies("fault")
  <2>1. Deliver(sig, stack, "fault") /\ ~OnStack(sig) /\ pc # "off" BY <1>2 DEF Crash
  <2>3. /\ StackOK' /\ stack' # <<>> /\ Head(stack').at = "entered" /\ installed # {}
        /\ UNCHANGED <<pc, ended, installed, buffered>>
    BY <1>2, <2>1, DeliverStack DEF Core
  <2>4. locked' \in {"none", "heap", "sink"} BY <2>1, <2>3 DEF Crash, Core, Types
  <2> QED BY <2>3, <2>4, EnterStep DEF Crash
<1> QED BY <1>1, <1>2

\* terminate_handle(), and the catch in main().
LEMMA TerminateStep ==
  ASSUME Core, stack # <<>>, Head(stack).at # "entered" , locked # "heap",
         (Terminate \/ Caught) /\ io_ok' = FALSE,
         UNCHANGED <<files, run, found, installed, buffered, ended>>
  PROVE  Core'
<1> USE DEF Core, Types, OffIsEmpty, OpenedIsCut, DumpedIsWhole, HandledCrashIsOnDisk,
            NotYetShown, Shown, Consumed, RunningOwn, ConsumedBeforeRun, OrderlyRunReports,
            HandlerAt, MainAt, files
<1>1. CASE Advance("stuck") /\ UNCHANGED <<pc, locked>>
  <2>1. Head(stack).sig \notin installed' BY PopOff DEF StackOK
  <2>2. StackOK' /\ Head(stack').at = "stuck" /\ stack' # <<>> BY <1>1, <2>1, AdvanceStack
  <2> QED BY <1>1, <2>2
<1>2. CASE pc' = "exiting" /\ stack' = <<>> /\ locked' = "none"
  <2>1. StackOK' BY <1>2 DEF StackOK, Distinct
  <2> QED BY <1>2, <2>1
<1> QED BY <1>1, <1>2 DEF Terminate, Caught

LEMMA HandlerStep ==
  ASSUME Core, Handler
  PROVE  Core'
<1> USE DEF Core, Types, OffIsEmpty, OpenedIsCut, DumpedIsWhole, HandledCrashIsOnDisk,
            NotYetShown, Shown, Consumed, RunningOwn, ConsumedBeforeRun, OrderlyRunReports,
            HandlerAt, MainAt, files
<1>o. stack # <<>> => pc # "off" /\ run # 0 OBVIOUS
<1>h. ASSUME stack # <<>>, Head(stack).at # "entered" PROVE Head(stack).sig \notin installed
  BY <1>h, PopOff DEF StackOK
<1>1. CASE ResetDisposition
  <2>1. StackOK' /\ Head(stack').at = "reset" /\ stack' # <<>>
    BY <1>1, AdvanceStack DEF ResetDisposition
  <2> QED BY <1>1, <2>1 DEF ResetDisposition
<1>2. CASE MakeDirectory
  <2>1. CASE Advance("placed") /\ UNCHANGED <<pc, locked, io_ok>>
    <3>1. StackOK' /\ Head(stack').at = "placed" /\ stack' # <<>>
      BY <1>2, <1>h, <2>1, AdvanceStack DEF MakeDirectory
    <3> QED BY <1>2, <2>1, <3>1 DEF MakeDirectory
  <2>2. CASE (Terminate \/ Caught) /\ io_ok' = FALSE
    BY <1>2, <2>2, TerminateStep DEF MakeDirectory
  <2> QED BY <1>2, <2>1, <2>2 DEF MakeDirectory
<1>3. CASE OpenDump
  <2>1. CASE dump' = [run |-> run, whole |-> FALSE] /\ Advance("opened") /\ UNCHANGED io_ok
    <3>1. StackOK' /\ Head(stack').at = "opened" /\ stack' # <<>>
      BY <1>3, <1>h, <2>1, AdvanceStack DEF OpenDump
    <3>2. dump' \in Dumps BY <1>3, <1>o, <2>1, DumpValues DEF OpenDump
    <3> QED BY <1>3, <1>o, <2>1, <3>1, <3>2 DEF OpenDump
  <2>2. CASE UNCHANGED dump /\ Advance("dumped") /\ io_ok' = FALSE
    <3>1. StackOK' /\ Head(stack').at = "dumped" /\ stack' # <<>>
      BY <1>3, <1>h, <2>2, AdvanceStack DEF OpenDump
    <3> QED BY <1>3, <1>o, <2>2, <3>1 DEF OpenDump
  <2> QED BY <1>3, <2>1, <2>2 DEF OpenDump
<1>4. CASE WriteDump
  <2>1. StackOK' /\ Head(stack').at = "dumped" /\ stack' # <<>>
    BY <1>4, <1>h, AdvanceStack DEF WriteDump
  <2>2. \/ dump' = [run |-> run, whole |-> TRUE] /\ dump' \in Dumps /\ UNCHANGED io_ok
        \/ UNCHANGED dump /\ io_ok' = FALSE
    <3>0. dump = [run |-> run, whole |-> FALSE] BY <1>4 DEF WriteDump
    <3>w. [[run |-> run, whole |-> FALSE] EXCEPT !.whole = TRUE] = [run |-> run, whole |-> TRUE]
      BY Written
    <3>1. [dump EXCEPT !.whole = TRUE] = [run |-> run, whole |-> TRUE] BY <3>0, <3>w, Zenon
    <3>2. run # 0 BY <1>4, <1>o DEF WriteDump
    <3>3. [run |-> run, whole |-> TRUE] \in Dumps BY <3>2, DumpValues
    <3> QED BY <1>4, <3>1, <3>3 DEF WriteDump
  <2>3. UNCHANGED <<logged, run, found, pc, installed, locked, buffered, ended>>
    BY <1>4 DEF WriteDump
  <2>4. stack # <<>> BY <1>4 DEF WriteDump
  <2>5. run # 0 /\ pc # "off" BY <1>o, <2>4
  <2>6. CASE dump' = [run |-> run, whole |-> TRUE] /\ dump' \in Dumps /\ UNCHANGED io_ok
    BY <2>1, <2>3, <2>4, <2>5, <2>6
  <2>7. CASE UNCHANGED dump /\ io_ok' = FALSE BY <2>1, <2>3, <2>4, <2>5, <2>7
  <2> QED BY <2>2, <2>6, <2>7
<1>5. CASE RaiseAbort
  <2>1. UNCHANGED <<files, run, found, io_ok>> /\ HandlerAt("dumped") BY <1>5 DEF RaiseAbort
  <2>2. CASE Dies("handled") BY <2>1, <2>2, DiesStack DEF Dies
  <2>3. CASE ~Dies("handled")
    <3>1. /\ StackOK' /\ stack' # <<>> /\ Head(stack').at = "entered" /\ installed # {}
          /\ UNCHANGED <<pc, ended, installed, buffered, locked>>
      BY <1>5, <2>3, RaiseOutcome
    <3> QED BY <1>o, <2>1, <3>1, EnterStep
  <2> QED BY <2>2, <2>3
<1> QED BY <1>1, <1>2, <1>3, <1>4, <1>5 DEF Handler

LEMMA OtherStep ==
  ASSUME Core, FlushLog \/ AppTerminates \/ Kill \/ Ended \/ UNCHANGED vars
  PROVE  Core'
<1> USE DEF Core, Types, OffIsEmpty, OpenedIsCut, DumpedIsWhole, HandledCrashIsOnDisk,
            NotYetShown, Shown, Consumed, RunningOwn, ConsumedBeforeRun, OrderlyRunReports,
            HandlerAt, MainAt, files, vars
<1>1. CASE FlushLog
  <2>1. StackOK' BY <1>1 DEF FlushLog, StackOK
  <2> QED BY <1>1, <2>1 DEF FlushLog
<1>2. CASE AppTerminates
  <2>1. StackOK' BY <1>2 DEF AppTerminates, Terminate, StackOK, Distinct
  <2> QED BY <1>2, <2>1 DEF AppTerminates, Terminate
<1>3. CASE Kill BY <1>3, DeathStep DEF Kill
<1>4. CASE Ended \/ UNCHANGED vars
  <2>1. UNCHANGED vars BY <1>4 DEF Ended
  <2>2. StackOK' BY <2>1 DEF StackOK
  <2> QED BY <2>1, <2>2
<1> QED BY <1>1, <1>2, <1>3, <1>4

-----------------------------------------------------------------------------
(* Whose dump is on disk.                                                  *)

LEMMA EarlierStep ==
  ASSUME IInv, Next, Core'
  PROVE  Earlier'
<1> USE MaxRunsAssumption DEF IInv, Earlier, files
<1>1. dump.run \in Nat /\ run \in Nat /\ NoDump.run = 0 /\ NoDump \notin Dumps
  BY DEF Core, Types, Dumps, NoDump
<1>2. CASE UNCHANGED <<dump, run, found, buffered>> BY <1>2
<1>3. ASSUME NEW how, Dies(how), UNCHANGED <<dump, run, found>> PROVE Earlier' BY <1>3 DEF Dies
<1>4. CASE Launch
  <2>1. buffered = {} BY <1>4 DEF Launch, Core, OffIsEmpty
  <2> QED BY <1>1, <1>4, <2>1 DEF Launch
<1>5. CASE ShowLastDump
  <2>1. dump = found BY <1>5 DEF ShowLastDump, MainAt, Core, NotYetShown
  <2> QED BY <1>5, <2>1 DEF ShowLastDump
<1>6. CASE RemoveDump BY <1>1, <1>6 DEF RemoveDump
<1>7. CASE Exit BY <1>3, <1>7 DEF Exit
<1>8. CASE OpenDump BY <1>1, <1>8 DEF OpenDump
<1>9. CASE WriteDump
  <2>1. dump'.run = dump.run BY <1>9 DEF WriteDump, Core, OpenedIsCut
  <2> QED BY <1>9, <2>1 DEF WriteDump
<1>10. CASE RaiseAbort
  <2>1. Dies("handled") \/ UNCHANGED buffered BY <1>10, RaiseOutcome DEF Core
  <2> QED BY <1>2, <1>3, <1>10, <2>1 DEF RaiseAbort
<1>11. ASSUME NEW sig, NEW held, Crash(sig, held) PROVE Earlier'
  <2>1. Dies("fault") \/ UNCHANGED buffered BY <1>11 DEF Crash, Deliver
  <2> QED BY <1>2, <1>3, <1>11, <2>1 DEF Crash
<1>12. CASE Kill BY <1>3, <1>12 DEF Kill
<1>13. CASE FlushLog BY <1>13 DEF FlushLog
<1>14. CASE InitLog \/ InstallHandlers \/ RunApp \/ ResetDisposition \/ MakeDirectory
            \/ AppTerminates \/ Ended
  BY <1>2, <1>14 DEF InitLog, InstallHandlers, RunApp, ResetDisposition, MakeDirectory,
                     AppTerminates, Ended, vars
<1> QED BY <1>4, <1>5, <1>6, <1>7, <1>8, <1>9, <1>10, <1>11, <1>12, <1>13, <1>14
        DEF Next, Main, Handler

\* Two handlers past their first lines have reset both signals.
LEMMA NoneLeft ==
  ASSUME StackOK, installed \subseteq Signals, stack # <<>>, Head(stack).at = "reset",
         NEW i \in DOMAIN stack, Wrote(stack[i])
  PROVE  installed = {}
<1>1. /\ 1 \in DOMAIN stack /\ Head(stack) = stack[1]
      /\ stack[1] \in Frames /\ stack[i] \in Frames
  BY PopOff DEF StackOK
<1>2. stack[1].sig \notin installed /\ stack[i].sig \notin installed /\ stack[1].sig # stack[i].sig
  BY <1>1 DEF StackOK, Wrote, Distinct
<1> QED BY <1>1, <1>2 DEF Frames, Signals

LEMMA OwnStep ==
  ASSUME IInv, Next, Core', Earlier'
  PROVE  OwnIsHandled'
<1> USE DEF IInv, files
<1>s. Types /\ StackOK /\ OffIsEmpty BY DEF Core
<1>1. CASE pc # "off" /\ UNCHANGED <<dump, run, stack, installed>> BY <1>1 DEF OwnIsHandled
<1>2. ASSUME NEW how, Dies(how) PROVE OwnIsHandled' BY <1>2 DEF Dies, OwnIsHandled
<1>3. CASE Launch
  <2>1. dump.run <= run /\ run' = run + 1 /\ run \in Nat /\ dump.run \in Nat /\ UNCHANGED dump
    BY <1>3, <1>s, MaxRunsAssumption DEF Launch, Earlier, Types, Dumps, NoDump
  <2> QED BY <2>1 DEF OwnIsHandled
<1>4. CASE InstallHandlers
  <2>1. dump = found /\ UNCHANGED <<dump, run>>
    BY <1>4 DEF InstallHandlers, MainAt, Core, NotYetShown
  <2>2. dump # NoDump => dump.run # run
    <3>1. dump # NoDump => dump.run < run /\ dump.run \in Nat /\ run \in Nat
      BY <1>s, <2>1, MaxRunsAssumption DEF Earlier, Types, Dumps, NoDump
    <3> QED BY <3>1
  <2> QED BY <2>1, <2>2 DEF OwnIsHandled
<1>5. CASE InitLog \/ ShowLastDump \/ RunApp \/ FlushLog
  BY <1>1, <1>5 DEF InitLog, ShowLastDump, RunApp, FlushLog, MainAt
<1>6. CASE RemoveDump BY <1>6 DEF RemoveDump, MainAt, OwnIsHandled
<1>7. CASE Exit \/ Kill BY <1>2, <1>7 DEF Exit, Kill
\* A handler goes on: the others keep their frames.
<1>8. ASSUME stack # <<>>, Head(stack).at \in {"entered", "reset"},
             \E step \in {"reset", "placed", "stuck"} : Advance(step),
             installed' \subseteq installed, Head(stack).sig \notin installed',
             UNCHANGED <<dump, run>>
      PROVE  OwnIsHandled'
  <2>1. pc # "off" BY <1>8, <1>s DEF OffIsEmpty
  <2>2. \A i \in DOMAIN stack :
          stack[i] = Head(stack) \/ \E j \in DOMAIN stack' : stack'[j] = stack[i]
    BY <1>8, <1>s, AdvanceStack
  <2>3. ~Wrote(Head(stack)) BY <1>8 DEF Wrote
  <2> QED BY <1>8, <2>1, <2>2, <2>3 DEF OwnIsHandled
<1>h. ASSUME stack # <<>>, Head(stack).at # "entered" PROVE Head(stack).sig \notin installed
  BY <1>h, <1>s, PopOff DEF StackOK
<1>9. CASE ResetDisposition BY <1>8, <1>9 DEF ResetDisposition, HandlerAt
<1>10. CASE MakeDirectory
  <2>1. /\ stack # <<>> /\ Head(stack).at = "reset" /\ UNCHANGED <<dump, run, installed>>
        /\ Head(stack).sig \notin installed
    BY <1>10, <1>h DEF MakeDirectory, HandlerAt
  <2>2. CASE stack' = <<>>
    <3>1. pc # "off" BY <2>1, <1>s DEF OffIsEmpty
    <3>2. dump # NoDump /\ dump.run = run => installed = {}
      BY <1>s, <2>1, <3>1, NoneLeft DEF OwnIsHandled, Types
    <3> QED BY <2>1, <2>2, <3>2 DEF OwnIsHandled
  <2>3. CASE \E step \in {"placed", "stuck"} : Advance(step) BY <1>8, <2>1, <2>3
  <2> QED BY <1>10, <2>2, <2>3 DEF MakeDirectory, Terminate, Caught
\* The topmost handler has written.
<1>11. ASSUME OpenDump \/ WriteDump PROVE OwnIsHandled'
  <2>1. /\ stack # <<>> /\ Head(stack).sig \notin installed /\ UNCHANGED installed
        /\ \E step \in {"opened", "dumped"} : Advance(step)
    BY <1>11, <1>h DEF OpenDump, WriteDump, HandlerAt
  <2>2. 1 \in DOMAIN stack' /\ stack'[1].at \in {"opened", "dumped"}
    BY <1>s, <2>1, AdvanceStack
  <2> QED BY <2>2 DEF OwnIsHandled, Wrote
\* A handler is entered on top of the others.
<1>12. ASSUME pc # "off", UNCHANGED <<dump, run, installed>>, installed # {},
              \A i \in DOMAIN stack : \E j \in DOMAIN stack' : stack'[j] = stack[i]
       PROVE  OwnIsHandled'
  BY <1>12 DEF OwnIsHandled
<1>13. CASE RaiseAbort
  <2>1. stack # <<>> /\ Head(stack).at = "dumped" /\ UNCHANGED <<dump, run>>
    BY <1>13 DEF RaiseAbort, HandlerAt
  <2>2. CASE Dies("handled") BY <1>2, <2>2
  <2>3. CASE ~Dies("handled")
    <3>1. /\ \A i \in DOMAIN stack : \E j \in DOMAIN stack' : stack'[j] = stack[i]
          /\ UNCHANGED installed
      BY <1>s, <1>13, <2>3, RaiseOutcome
    <3>2. 1 \in DOMAIN stack /\ Wrote(stack[1]) BY <1>s, <2>1, PopOff DEF StackOK, Wrote
    <3> QED BY <3>1, <3>2 DEF OwnIsHandled
  <2> QED BY <2>2, <2>3
<1>14. ASSUME NEW sig \in Signals, NEW held, Crash(sig, held) PROVE OwnIsHandled'
  <2>1. CASE Dies("fault") BY <1>2, <2>1
  <2>2. CASE ~Dies("fault")
    <3>1. Deliver(sig, stack, "fault") /\ ~OnStack(sig) BY <1>14, <2>2 DEF Crash
    <3>2. /\ \A i \in DOMAIN stack : \E j \in DOMAIN stack' : stack'[j] = stack[i]
          /\ sig \in installed /\ UNCHANGED installed
      BY <1>s, <2>2, <3>1, DeliverStack
    <3> QED BY <1>12, <1>14, <3>2 DEF Crash
  <2> QED BY <2>1, <2>2
<1>15. CASE AppTerminates
  <2>1. stack = <<>> /\ pc = "running" /\ UNCHANGED <<dump, run, installed>>
    BY <1>15 DEF AppTerminates, MainAt
  <2>2. locked # "sink" BY <1>s, <2>1 DEF OffIsEmpty
  <2>3. stack' = <<>> BY <1>15, <2>2 DEF AppTerminates, Terminate
  <2> QED BY <2>1, <2>3 DEF OwnIsHandled
<1>16. CASE Ended BY <1>16 DEF Ended, vars, OwnIsHandled
<1> QED BY <1>3, <1>4, <1>5, <1>6, <1>7, <1>9, <1>10, <1>11, <1>13, <1>14, <1>15, <1>16
        DEF Next, Main, Handler

LEMMA Initially == Init => IInv
BY MaxRunsAssumption
   DEF Init, IInv, Core, Earlier, OwnIsHandled, Wrote, Dumps, NoDump, Types, StackOK,
       Distinct, OffIsEmpty, OpenedIsCut, DumpedIsWhole, HandledCrashIsOnDisk, NotYetShown,
       Shown, Consumed, RunningOwn, ConsumedBeforeRun, OrderlyRunReports, HandlerAt, MainAt

LEMMA Inductive == IInv /\ [Next]_vars => IInv'
<1>1. ASSUME IInv, Next PROVE IInv'
  <2>1. Core' BY <1>1, MainStep, CrashStep, HandlerStep, OtherStep DEF Next, IInv
  <2>2. Earlier' BY <1>1, <2>1, EarlierStep
  <2> QED BY <1>1, <2>1, <2>2, OwnStep DEF IInv
<1>2. ASSUME IInv, UNCHANGED vars PROVE IInv'
  <2>1. Core' BY <1>2, OtherStep DEF IInv
  <2> QED BY <1>2, <2>1 DEF IInv, Earlier, OwnIsHandled, vars, files
<1> QED BY <1>1, <1>2

\* Everything below follows from this: in every reachable state the stack, the
\* file and the main thread's progress agree.
THEOREM Invariance == Spec => []IInv
BY Initially, Inductive, PTL DEF Spec

-----------------------------------------------------------------------------
(* The theorems.                                                           *)

LEMMA TwoAtMost ==
  ASSUME NEW s \in Seq(Frames), Distinct(s)
  PROVE  Len(s) <= 2
<1> SUFFICES ASSUME Len(s) > 2 PROVE FALSE OBVIOUS
<1>1. /\ 1 \in DOMAIN s /\ 2 \in DOMAIN s /\ 3 \in DOMAIN s
      /\ s[1] \in Frames /\ s[2] \in Frames /\ s[3] \in Frames
  OBVIOUS
<1>2. s[1].sig \in Signals /\ s[2].sig \in Signals /\ s[3].sig \in Signals
  BY <1>1 DEF Frames
<1> QED BY <1>1, <1>2 DEF Distinct, Signals

\* Every variable keeps its type, and at most two handlers are ever nested,
\* because each resets its disposition before it does anything else.
THEOREM TypeCorrect == Spec => []TypeOK
<1>1. IInv => TypeOK BY TwoAtMost DEF IInv, Core, Types, StackOK, TypeOK
<1> QED BY <1>1, Invariance, PTL

\* show_last_dump() logs and removes the last dump before App::run starts.
THEOREM DumpConsumed == Spec => []ConsumedBeforeRun
<1>1. IInv => ConsumedBeforeRun BY DEF IInv, Core
<1> QED BY <1>1, Invariance, PTL

\* A death by the handlers' raise(SIGABRT) leaves this run's dump, whole.
THEOREM CrashLeavesDump == Spec => []HandledCrashIsOnDisk
<1>1. IInv => HandledCrashIsOnDisk BY DEF IInv, Core
<1> QED BY <1>1, Invariance, PTL

\* An orderly run has its report in the log file and no dump on disk.
THEOREM OrderlyReport == Spec => []OrderlyRunReports
<1>1. IInv => OrderlyRunReports BY DEF IInv, Core
<1> QED BY <1>1, Invariance, PTL

\* A whole dump of an earlier run is forgotten when its process dies with the
\* report in its buffer, when a crash before remove() truncates the file, or when
\* show_last_dump() cannot read what it removes; this run's own only when a
\* nested handler truncates what the handler below it wrote.
THEOREM NothingElseForgets == Spec => ForgetsOnlyInWindows
<1> DEFINE Window(d) ==
      \/ d.run < run /\ DiesBuffered(d)
      \/ d.run < run /\ d = dump /\ Truncates /\ pc \in {"watching", "shown", "exiting"}
      \/ d.run < run /\ d = dump /\ RemovesUnread
      \/ d.run = run /\ d = dump /\ Truncates /\ Len(stack) = 2
<1>1. ASSUME IInv, [Next]_vars, NEW d \in Dumps, d.whole, d \in Known, d \notin Known'
      PROVE  Window(d)
  <2> USE DEF Known, files
  <2>1. d # NoDump /\ d.run \in Nat /\ run \in Nat
    BY <1>1, MaxRunsAssumption DEF Dumps, NoDump, IInv, Core, Types
  <2>b. ASSUME d \in buffered PROVE d.run < run
    BY <1>1, <2>b DEF IInv, Earlier
  <2>2. ASSUME NEW how \in {"fault", "handled", "killed"}, Dies(how), UNCHANGED files
        PROVE  Window(d)
    BY <1>1, <2>2, <2>b DEF Dies, DiesBuffered
  <2>3. CASE UNCHANGED <<files, buffered>> \/ UNCHANGED vars BY <1>1, <2>3 DEF vars
  <2>4. CASE Launch \/ InitLog \/ InstallHandlers \/ RunApp \/ ResetDisposition \/ MakeDirectory
             \/ AppTerminates \/ Ended
    BY <2>3, <2>4 DEF Launch, InitLog, InstallHandlers, RunApp, ResetDisposition, MakeDirectory,
                      AppTerminates, Ended
  <2>5. CASE ShowLastDump \/ FlushLog BY <1>1, <2>5 DEF ShowLastDump, FlushLog
  <2>6. CASE RemoveDump
    <3>1. d = dump /\ d \notin logged \cup buffered /\ MainAt("running")'
      BY <1>1, <2>6 DEF RemoveDump, MainAt
    <3>2. found = dump /\ ~io_ok /\ MainAt("shown")
      BY <2>6, <1>1, <3>1 DEF RemoveDump, IInv, Core, Shown
    <3>3. d.run < run BY <1>1, <2>1, <3>1, <3>2 DEF IInv, Earlier
    <3> QED BY <3>1, <3>2, <3>3 DEF RemovesUnread
  <2>7. CASE Exit BY <1>1, <2>1, <2>7 DEF Exit, Dies
  <2>8. CASE OpenDump
    <3>1. d = dump /\ HandlerAt("placed") /\ Advance("opened") /\ UNCHANGED installed
      BY <1>1, <2>1, <2>8 DEF OpenDump
    <3>2. /\ StackOK /\ stack # <<>> /\ 1 \in DOMAIN stack /\ Head(stack) = stack[1]
          /\ stack[1].at = "placed" /\ stack[1].sig \notin installed
      BY <1>1, <3>1, PopOff DEF IInv, Core, StackOK, HandlerAt
    <3>3. Truncates BY <3>1, <3>2, AdvanceStack DEF Truncates, HandlerAt
    <3>4. d.run <= run BY <1>1, <3>1 DEF IInv, Earlier
    <3>5. CASE d.run < run
      <4>1. pc \in {"watching", "shown", "exiting"}
        BY <1>1, <2>1, <3>1, <3>2, <3>5 DEF IInv, Core, OffIsEmpty, RunningOwn, Types
      <4> QED BY <3>1, <3>3, <3>5, <4>1
    <3>6. CASE d.run = run
      <4>1. PICK i \in DOMAIN stack : Wrote(stack[i])
        BY <1>1, <2>1, <3>1, <3>2, <3>6 DEF IInv, OwnIsHandled, Core, OffIsEmpty
      <4>2. i # 1 BY <3>2, <4>1 DEF Wrote
      <4>3. Len(stack) <= 2 BY <3>2, TwoAtMost DEF StackOK
      <4>4. stack \in Seq(Frames) BY <3>2 DEF StackOK
      <4>5. Len(stack) \in Nat /\ i \in Nat /\ 1 <= i /\ i <= Len(stack) BY <4>1, <4>4
      <4>6. Len(stack) = 2
        <5> HIDE DEF Window
        <5>1. \A n, k \in Nat : 1 <= k /\ k <= n /\ n <= 2 /\ k # 1 => n = 2 OBVIOUS
        <5> QED BY <4>2, <4>3, <4>5, <5>1, Zenon
      <4> QED BY <3>1, <3>3, <3>6, <4>6
    <3> QED BY <2>1, <3>4, <3>5, <3>6
  <2>9. CASE WriteDump
    BY <1>1, <2>9 DEF WriteDump, IInv, Core, OpenedIsCut
  <2>10. CASE RaiseAbort
    <3>1. UNCHANGED files BY <2>10 DEF RaiseAbort
    <3>2. Dies("handled") \/ UNCHANGED buffered BY <1>1, <2>10, RaiseOutcome DEF IInv, Core
    <3> QED BY <2>2, <2>3, <3>1, <3>2
  <2>11. ASSUME NEW sig, NEW held, Crash(sig, held)
         PROVE  Dies("fault") \/ UNCHANGED <<files, buffered>>
    BY <2>11 DEF Crash, Deliver
  <2>12. ASSUME NEW sig, NEW held, Crash(sig, held) PROVE UNCHANGED files
    BY <2>12 DEF Crash
  <2>13. CASE Kill BY <2>2, <2>13 DEF Kill
  <2> HIDE DEF Window
  <2> QED
    BY <1>1, <2>2, <2>3, <2>4, <2>5, <2>6, <2>7, <2>8, <2>9, <2>10, <2>11, <2>12, <2>13
    DEF Next, Main, Handler
<1>2. IInv /\ [Next]_vars =>
        [\A d \in Dumps : d.whole /\ d \in Known /\ d \notin Known' => Window(d)]_vars
  BY <1>1
<1> QED BY <1>2, Invariance, PTL DEF Spec, ForgetsOnlyInWindows

=============================================================================
