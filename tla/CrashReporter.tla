---------------------------- MODULE CrashReporter ----------------------------
(***************************************************************************)
(* One program over several runs: main() of prj_exec1, init_log() and the  *)
(* file sink it installs, and StacktraceDumper, whose signal handler       *)
(* leaves a stack dump on disk that the next run puts in its log (Linux).  *)
(*                                                                         *)
(* `dump` and `logged` are files and survive a run; the rest is the        *)
(* process.  Main thread, signal handlers, the periodic flusher and a      *)
(* SIGKILL interleave.  A handler is a frame of `stack`, topmost first;    *)
(* the system blocks a signal while its own handler is on the stack.       *)
(***************************************************************************)
EXTENDS Naturals, Sequences

CONSTANT MaxRuns   \* bound: how many times the program is started

ASSUME MaxRunsAssumption == MaxRuns \in Nat

Signals == {"SEGV", "ABRT"}
NoDump  == [run |-> 0, whole |-> FALSE]
Dumps   == [run : 1..MaxRuns, whole : BOOLEAN]   \* not whole: opened, not written

VARIABLES
  dump,      \* the file of _get_dump_path(), or NoDump
  logged,    \* the dumps reported in the log file
  run,       \* number of the current (or last) run
  found,     \* history: the dump that was on disk when the run started
  pc,        \* of the main thread, where no handler interrupts it
  stack,     \* the handlers being run
  installed, \* the signals that _signal_handler is installed for
  locked,    \* what the thread a signal interrupted was holding
  buffered,  \* the reports still in the file sink's stdio buffer
  io_ok,     \* history: no file operation of this run has failed
  ended      \* how the last run ended

files == <<dump, logged>>
vars  == <<files, run, found, pc, stack, installed, locked, buffered, io_ok, ended>>

Init ==
  /\ dump = NoDump /\ logged = {} /\ run = 0 /\ found = NoDump
  /\ pc = "off" /\ stack = <<>> /\ installed = {} /\ locked = "none"
  /\ buffered = {} /\ io_ok = TRUE /\ ended = "exit"

-----------------------------------------------------------------------------
(* The main thread.                                                        *)

Launch ==
  /\ pc = "off" /\ run < MaxRuns
  /\ run' = run + 1 /\ found' = dump
  /\ pc' = "started" /\ io_ok' = TRUE
  /\ UNCHANGED <<files, stack, installed, locked, buffered, ended>>

MainAt(step) == pc = step /\ stack = <<>>

\* init_log: the default logger gets the file sink, flush_every(3s) its flusher.
\* A sink that cannot open its file throws, and main() returns.
InitLog ==
  /\ MainAt("started")
  /\ \/ pc' = "logging" /\ UNCHANGED io_ok
     \/ pc' = "exiting" /\ io_ok' = FALSE
  /\ UNCHANGED <<files, run, found, stack, installed, locked, buffered, ended>>

InstallHandlers ==
  /\ MainAt("logging") /\ pc' = "watching"
  /\ installed' = Signals
  /\ UNCHANGED <<files, run, found, stack, locked, buffered, io_ok, ended>>

\* Mutants: the report waits until the file is removed; no exists() before it.
ShowLastDump_Late ==
  /\ MainAt("watching") /\ pc' = (IF dump = NoDump THEN "running" ELSE "shown")
  /\ UNCHANGED <<files, run, found, stack, installed, locked, buffered, io_ok, ended>>
ShowLastDump_Unchecked ==
  /\ MainAt("watching") /\ pc' = "shown" /\ buffered' = buffered \cup {dump}
  /\ UNCHANGED <<files, run, found, stack, installed, locked, io_ok, ended>>

\* show_last_dump, up to SPDLOG_ERROR: the report goes to the sink's buffer.
\* A dump that cannot be opened or read makes an empty report, as if there were
\* nothing in it: nobody looks at the stream's state.  exists() throws when the
\* file's status cannot be had, and main() returns.
ShowLastDump ==
  /\ MainAt("watching")
  /\ \/ dump = NoDump /\ pc' = "running" /\ UNCHANGED <<buffered, io_ok>>
     \/ dump # NoDump /\ pc' = "shown" /\ buffered' = buffered \cup {dump} /\ UNCHANGED io_ok
     \/ dump # NoDump /\ pc' = "shown" /\ io_ok' = FALSE /\ UNCHANGED buffered
     \/ pc' = "exiting" /\ io_ok' = FALSE /\ UNCHANGED buffered
  /\ UNCHANGED <<files, run, found, stack, installed, locked, ended>>

\* Mutant: a remove() that fails is ignored.
RemoveDump_Ignored ==
  /\ MainAt("shown")
  /\ pc' = "running"
  /\ dump' = NoDump \/ dump' = dump
  /\ io_ok' = (io_ok /\ dump' = NoDump)
  /\ UNCHANGED <<logged, run, found, stack, installed, locked, buffered, ended>>

\* The rest of it.  A remove() that fails throws, and main() returns.
RemoveDump ==
  /\ MainAt("shown")
  /\ \/ dump' = NoDump /\ pc' = "running" /\ UNCHANGED io_ok
     \/ UNCHANGED dump /\ pc' = "exiting" /\ io_ok' = FALSE
  /\ UNCHANGED <<logged, run, found, stack, installed, locked, buffered, ended>>

\* App::run returns, or throws: main() logs what it catches and returns 0 too.
RunApp ==
  /\ MainAt("running") /\ pc' = "exiting"
  /\ UNCHANGED <<files, run, found, stack, installed, locked, buffered, io_ok, ended>>

Dies(how) ==
  /\ pc' = "off" /\ ended' = how
  /\ stack' = <<>> /\ installed' = {} /\ locked' = "none" /\ buffered' = {}

\* Mutant: the process leaves without the static destructors (quick_exit).
Exit_NoFlush ==
  /\ MainAt("exiting") /\ Dies("exit")
  /\ UNCHANGED <<files, run, found, io_ok>>

\* exit(): the registry joins the flusher and the sink closes its file.
Exit ==
  /\ MainAt("exiting") /\ Dies("exit")
  /\ logged' = logged \cup buffered
  /\ UNCHANGED <<dump, run, found, io_ok>>

-----------------------------------------------------------------------------
(* Signals and their handler.                                              *)

HandlerAt(step) == stack # <<>> /\ Head(stack).at = step
Advance(step)   == stack' = <<[Head(stack) EXCEPT !.at = step]>> \o Tail(stack)
OnStack(sig)    == \E i \in DOMAIN stack : stack[i].sig = sig

\* The system delivers `sig` on top of `below`.
Deliver(sig, below, how) ==
  IF sig \in installed
  THEN /\ stack' = <<[sig |-> sig, at |-> "entered"]>> \o below
       /\ UNCHANGED <<pc, ended, installed, buffered>>
  ELSE Dies(how)

\* A fault or an abort() in whatever the process is running, which may hold
\* the heap's lock or, outside the handlers, the sink's.
Crash(sig, held) ==
  /\ pc # "off"
  /\ held = "sink" => stack = <<>> /\ pc # "started"
  /\ IF OnStack(sig) THEN Dies("fault") ELSE Deliver(sig, stack, "fault")
  /\ pc' # "off" => locked' = IF locked = "none" THEN held ELSE locked
  /\ UNCHANGED <<files, run, found, io_ok>>

\* Mutant: the disposition is left as it was.
ResetDisposition_Not ==
  /\ HandlerAt("entered") /\ Advance("reset")
  /\ UNCHANGED <<files, run, found, pc, installed, locked, buffered, io_ok, ended>>

ResetDisposition ==
  /\ HandlerAt("entered") /\ Advance("reset")
  /\ installed' = installed \ {Head(stack).sig}
  /\ UNCHANGED <<files, run, found, pc, locked, buffered, io_ok, ended>>

\* terminate_handle() logs and exits; what it was called from never returns.
Terminate ==
  /\ IF locked = "sink" THEN Advance("stuck") /\ UNCHANGED pc ELSE pc' = "exiting" /\ stack' = <<>>
  /\ UNCHANGED locked

\* main()'s catch (...) logs too; its unwinding lets go of the locks.
Caught == pc # "exiting" /\ pc' = "exiting" /\ stack' = <<>> /\ locked' = "none"

\* _get_dump_path() and create_directories() take the heap's lock.  A file
\* system error is thrown across the signal frame, which the language leaves
\* undefined: the unwinder finds main()'s catch, or it terminates.
MakeDirectory ==
  /\ HandlerAt("reset") /\ locked # "heap"
  /\ \/ Advance("placed") /\ UNCHANGED <<pc, locked, io_ok>>
     \/ (Terminate \/ Caught) /\ io_ok' = FALSE
  /\ UNCHANGED <<files, run, found, installed, buffered, ended>>

\* Mutant: the file is not truncated, and an old one is left as it was.
OpenDump_Keeps ==
  /\ HandlerAt("placed")
  /\ dump' = IF dump = NoDump THEN [run |-> run, whole |-> FALSE] ELSE dump
  /\ Advance("opened")
  /\ UNCHANGED <<logged, run, found, pc, installed, locked, buffered, io_ok, ended>>

\* safe_dump_to: open with O_CREAT | O_TRUNC.  It ignores a failure ...
OpenDump ==
  /\ HandlerAt("placed")
  /\ \/ dump' = [run |-> run, whole |-> FALSE] /\ Advance("opened") /\ UNCHANGED io_ok
     \/ UNCHANGED dump /\ Advance("dumped") /\ io_ok' = FALSE
  /\ UNCHANGED <<logged, run, found, pc, installed, locked, buffered, ended>>

\* ... and so does the handler when the one write() fails.
WriteDump ==
  /\ HandlerAt("opened") /\ Advance("dumped")
  /\ \/ dump' = [dump EXCEPT !.whole = TRUE] /\ UNCHANGED io_ok
     \/ UNCHANGED dump /\ io_ok' = FALSE
  /\ UNCHANGED <<logged, run, found, pc, installed, locked, buffered, ended>>

\* raise(SIGABRT).  Blocked while an ABRT handler runs, it waits for this
\* handler to return; a SEGV handler returns to the instruction that faulted.
RaiseAbort ==
  /\ HandlerAt("dumped")
  /\ IF OnStack("ABRT")
     THEN Deliver(Head(stack).sig, Tail(stack), "handled")
     ELSE Deliver("ABRT", stack, "handled")
  /\ pc' # "off" => UNCHANGED locked
  /\ UNCHANGED <<files, run, found, io_ok>>

-----------------------------------------------------------------------------
(* The rest of the process, and what is outside it.                        *)

\* Mutant: the periodic worker was never started.
FlushLog_Never == FALSE /\ UNCHANGED vars

\* The flusher's callback, which needs the lock of the sink.
FlushLog ==
  /\ pc \notin {"off", "started"} /\ buffered # {} /\ locked # "sink"
  /\ logged' = logged \cup buffered /\ buffered' = {}
  /\ UNCHANGED <<dump, run, found, pc, stack, installed, locked, io_ok, ended>>

\* An exception main() does not get to see: it leaves a noexcept function.
AppTerminates ==
  /\ MainAt("running") /\ Terminate
  /\ UNCHANGED <<files, run, found, installed, buffered, io_ok, ended>>

\* SIGKILL.
Kill ==
  /\ pc # "off" /\ Dies("killed")
  /\ UNCHANGED <<files, run, found, io_ok>>

Ended == pc = "off" /\ run = MaxRuns /\ UNCHANGED vars

Main    == InitLog \/ InstallHandlers \/ ShowLastDump \/ RemoveDump \/ RunApp \/ Exit
Handler == ResetDisposition \/ MakeDirectory \/ OpenDump \/ WriteDump \/ RaiseAbort

Next ==
  \/ Launch \/ Main \/ Handler
  \/ \E sig \in Signals, held \in {"none", "heap", "sink"} : Crash(sig, held)
  \/ FlushLog \/ AppTerminates \/ Kill \/ Ended

Spec == Init /\ [][Next]_vars

\* The scheduler runs the thread a handler is on, and the flusher.
FairSpec == Spec /\ WF_vars(Handler) /\ WF_vars(Main) /\ WF_vars(FlushLog)

-----------------------------------------------------------------------------
(* Properties.                                                             *)

Frames == [sig : Signals, at : {"entered", "reset", "placed", "opened", "dumped", "stuck"}]

TypeOK ==
  /\ dump \in Dumps \cup {NoDump} /\ found \in Dumps \cup {NoDump}
  /\ logged \subseteq Dumps /\ buffered \subseteq Dumps
  /\ run \in 0..MaxRuns
  /\ pc \in {"off", "started", "logging", "watching", "shown", "running", "exiting"}
  /\ stack \in Seq(Frames) /\ Len(stack) <= 2
  /\ installed \subseteq Signals
  /\ locked \in {"none", "heap", "sink"}
  /\ io_ok \in BOOLEAN
  /\ ended \in {"exit", "fault", "handled", "killed"}

\* The application never runs with an unread dump on disk, so a crash of it
\* overwrites nothing: show_last_dump() has logged and removed the last one.
ConsumedBeforeRun == MainAt("running") => dump = NoDump

\* A process that dies of its handlers' raise(SIGABRT) leaves the dump of this
\* very run, whole, although the nested handler truncates what the first wrote.
HandledCrashIsOnDisk ==
  pc = "off" /\ ended = "handled" /\ io_ok => dump = [run |-> run, whole |-> TRUE]

\* A run that ends by exit() has put what it found in the log file, and left
\* no dump behind for a later run to report again.
OrderlyRunReports ==
  pc = "off" /\ ended = "exit" /\ io_ok => dump = NoDump /\ found \in logged \cup {NoDump}

\* A whole dump of an earlier run is forgotten in three ways only: its process
\* dies with the report in the sink's buffer; a crash comes before remove(), and
\* the handler truncates the file; or show_last_dump() could not read the file
\* it removes.  This run's own is only truncated by a handler that interrupts
\* the one that wrote it, and that will write it again.
Known == logged \cup buffered \cup {dump}
DiesBuffered(d) == d \in buffered /\ pc' = "off" /\ ended' # "exit"
Truncates       == HandlerAt("placed") /\ HandlerAt("opened")'
RemovesUnread   == MainAt("shown") /\ MainAt("running")' /\ ~io_ok
ForgetsOnlyInWindows ==
  [][\A d \in Dumps : d.whole /\ d \in Known /\ d \notin Known' =>
       \/ d.run < run /\ DiesBuffered(d)
       \/ d.run < run /\ d = dump /\ Truncates /\ pc \in {"watching", "shown", "exiting"}
       \/ d.run < run /\ d = dump /\ RemovesUnread
       \/ d.run = run /\ d = dump /\ Truncates /\ Len(stack) = 2]_vars

\* Once a handler is entered the process ends, whatever it interrupted, but for
\* two places: its first allocation, if that was a holder of the heap's lock,
\* and, after a create_directories() that failed, the log call of
\* terminate_handle(), if it was a holder of the sink's.
Hung ==
  \/ HandlerAt("reset") /\ locked = "heap"
  \/ HandlerAt("stuck") /\ locked = "sink" /\ ~io_ok
CrashEnds == (stack # <<>>) ~> (pc = "off" \/ Hung)

\* A report is in the log file after a flush period, or its process has died.
ReportReachesLog ==
  \A d \in Dumps : (d \in buffered) ~> (d \in logged \/ pc = "off" \/ locked = "sink")
=============================================================================
