----------------------------- MODULE DumpHelper -----------------------------
(***************************************************************************)
(* The Windows half of src/util/src/dump_helper.cpp: threads that fault    *)
(* write minidumps named after the second of the fault, from the filter of *)
(* unhandled exceptions or from the signal handler of StacktraceDumper.    *)
(* The first of them to be through with it ends the process, wherever the  *)
(* others are.  Both are installed when the model begins.                  *)
(***************************************************************************)
EXTENDS Naturals

CONSTANTS Threads, LastSecond   \* bound: the clock stops there

ASSUME LastSecondAssumption == LastSecond \in Nat

Seconds == 0..LastSecond

VARIABLES
  now,            \* time(), in seconds
  alive,          \* the process has not ended
  abort_handled,  \* SIGABRT still has its handler
  dirs,           \* which of .\dmp and .\dump exist
  step,           \* per thread: "runs", "named", "writing", "done"
  via,            \* what called SnapshotMem or ExceptionFilter in it
  name,           \* the second in the file name GenFilePath gave it
  files,          \* per second, its dump file: "none", "cut", or "whole"
  returned,       \* history: the seconds for which a GenDump has returned
  failed          \* history: those for which a MiniDumpWriteDump failed

process == <<now, alive, abort_handled>>
history == <<returned, failed>>
vars    == <<process, dirs, step, via, name, files, history>>

Init ==
  /\ now = 0 /\ alive = TRUE /\ abort_handled = TRUE
  /\ dirs \in SUBSET {"dmp", "dump"}
  /\ step = [t \in Threads |-> "runs"] /\ via = [t \in Threads |-> "none"]
  /\ name = [t \in Threads |-> 0] /\ files = [s \in Seconds |-> "none"]
  /\ returned = {} /\ failed = {}

Tick ==
  /\ alive /\ now < LastSecond /\ now' = now + 1
  /\ UNCHANGED <<alive, abort_handled, dirs, step, via, name, files, history>>

-----------------------------------------------------------------------------
(* How a thread comes to write a dump.                                     *)

\* _mkdir(".\dmp") if it is not there, and a name under .\dump.
GenFilePath(t, by) ==
  /\ step' = [step EXCEPT ![t] = "named"] /\ via' = [via EXCEPT ![t] = by]
  /\ dirs' = dirs \cup {"dmp"} /\ name' = [name EXCEPT ![t] = now]
  /\ UNCHANGED <<files, history>>

\* An exception nobody handles, and a fault where the thread has the handler
\* of SIGSEGV, which the C runtime keeps per thread.
ExceptionFilter(t) ==
  /\ alive /\ step[t] = "runs" /\ GenFilePath(t, "filter") /\ UNCHANGED process
SegvHandler(t) ==
  /\ alive /\ step[t] = "runs" /\ GenFilePath(t, "SEGV") /\ UNCHANGED process

EndProcess == alive' = FALSE /\ UNCHANGED <<dirs, step, via, name, files, history>>

\* The first SIGABRT is handled, and the handler puts SIG_DFL in its place.
RaiseAbort(t) ==
  /\ abort_handled' = FALSE /\ UNCHANGED now
  /\ IF abort_handled THEN GenFilePath(t, "ABRT") /\ UNCHANGED alive ELSE EndProcess

Abort(t) == alive /\ step[t] = "runs" /\ RaiseAbort(t)

-----------------------------------------------------------------------------
(* GenDump.                                                                *)

Writes(t, s) == step[t] = "writing" /\ name[t] = s

\* Mutants: the file may be shared; GenDump returns once it has the file.
CreateDump_Shared(t) ==
  /\ alive /\ step[t] = "named" /\ "dump" \in dirs
  /\ step' = [step EXCEPT ![t] = "writing"] /\ files' = [files EXCEPT ![name[t]] = "cut"]
  /\ UNCHANGED <<process, dirs, via, name, history>>
CreateDump_Returns(t) ==
  /\ alive /\ step[t] = "named" /\ "dump" \in dirs
  /\ step' = [step EXCEPT ![t] = "done"] /\ files' = [files EXCEPT ![name[t]] = "cut"]
  /\ returned' = returned \cup {name[t]}
  /\ UNCHANGED <<process, dirs, via, name, failed>>

Returns(t) == step' = [step EXCEPT ![t] = "done"] /\ returned' = returned \cup {name[t]}

\* CreateFileA, CREATE_ALWAYS and not shared: it fails where the directory is
\* missing or another thread has the file open, and GenDump says nothing.
CreateDump(t) ==
  /\ alive /\ step[t] = "named"
  /\ IF "dump" \in dirs /\ ~\E u \in Threads : Writes(u, name[t])
     THEN /\ step' = [step EXCEPT ![t] = "writing"]
          /\ files' = [files EXCEPT ![name[t]] = "cut"] /\ UNCHANGED returned
     ELSE Returns(t) /\ UNCHANGED files
  /\ UNCHANGED <<process, dirs, via, name, failed>>

\* MiniDumpWriteDump, whose failure is ignored, and CloseHandle.
WriteDump(t) ==
  /\ alive /\ step[t] = "writing" /\ Returns(t)
  /\ \/ files' = [files EXCEPT ![name[t]] = "whole"] /\ UNCHANGED failed
     \/ UNCHANGED files /\ failed' = failed \cup {name[t]}
  /\ UNCHANGED <<process, dirs, via, name>>

\* EXCEPTION_EXECUTE_HANDLER of the filter ends the process.  SnapshotMem goes
\* on behind its own handler and returns to _signal_handler, which raises SIGABRT.
Return(t) ==
  /\ alive /\ step[t] = "done"
  /\ IF via[t] = "filter"
     THEN EndProcess /\ UNCHANGED <<now, abort_handled>>
     ELSE RaiseAbort(t)

Ended == ~alive /\ UNCHANGED vars

Next ==
  \/ Tick \/ Ended
  \/ \E t \in Threads :
       \/ ExceptionFilter(t) \/ SegvHandler(t) \/ Abort(t)
       \/ CreateDump(t) \/ WriteDump(t) \/ Return(t)

Spec == Init /\ [][Next]_vars

-----------------------------------------------------------------------------
(* Properties.                                                             *)

\* Type invariant; a file has one writer at a time.
TypeOK ==
  /\ now \in Seconds /\ alive \in BOOLEAN /\ abort_handled \in BOOLEAN
  /\ dirs \subseteq {"dmp", "dump"} /\ returned \subseteq Seconds /\ failed \subseteq returned
  /\ step \in [Threads -> {"runs", "named", "writing", "done"}]
  /\ via \in [Threads -> {"none", "filter", "SEGV", "ABRT"}]
  /\ name \in [Threads -> Seconds] /\ files \in [Seconds -> {"none", "cut", "whole"}]
  /\ \A t, u \in Threads : Writes(t, name[u]) /\ Writes(u, name[t]) => t = u

\* GenDump leaves a whole dump for every second it was called in, .\dump and
\* MiniDumpWriteDump permitting, also when the process has ended: the one that
\* is not whole belongs to a thread that was in the middle of it, because another
\* thread, refused the same file or through with its own, ended the process.
SecondKeepsOne ==
  "dump" \in dirs =>
    \A s \in returned :
      files[s] = "whole" \/ s \in failed \/ \E t \in Threads : Writes(t, s)

\* ExceptionFilter: "generate dump file".  When it has returned there is a
\* file, if not for a failure of the system's MiniDumpWriteDump.
DumpGenerated ==
  \A t \in Threads : step[t] = "done" /\ name[t] \notin failed => files[name[t]] # "none"
=============================================================================
