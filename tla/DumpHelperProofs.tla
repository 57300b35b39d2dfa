-------------------------- MODULE DumpHelperProofs --------------------------
(***************************************************************************)
(* Proofs, for any threads and any number of seconds, of the safety        *)
(* properties of DumpHelper.                                               *)
(***************************************************************************)
EXTENDS DumpHelper, TLAPS

(* The inductive invariant is the two properties together: a file that is  *)
(* cut is not given to a second thread, because it has a writer.           *)
IInv == TypeOK /\ SecondKeepsOne

LEMMA InitHolds == Init => IInv
BY LastSecondAssumption DEF Init, IInv, TypeOK, SecondKeepsOne, Seconds, Writes

-----------------------------------------------------------------------------
(* What the steps come down to.                                            *)

\* A thread that did not have a file open takes a name, or the process ends:
\* no file changes, and who writes goes on writing.
LEMMA TakesNameOrEnds ==
  ASSUME IInv, NEW t \in Threads, step[t] # "writing", NEW by \in {"filter", "SEGV", "ABRT"},
         GenFilePath(t, by) \/ EndProcess, now' = now,
         alive' \in BOOLEAN, abort_handled' \in BOOLEAN
  PROVE  IInv'
<1> USE DEF IInv, TypeOK, Writes, history
<1>1. CASE EndProcess BY <1>1 DEF EndProcess, SecondKeepsOne
<1>2. CASE GenFilePath(t, by)
  <2>1. TypeOK' BY <1>2 DEF GenFilePath
  <2>2. SecondKeepsOne'
    <3>1. "dump" \in dirs' => "dump" \in dirs BY <1>2 DEF GenFilePath
    <3>2. \A u \in Threads, s \in Seconds : Writes(u, s) => Writes(u, s)'
      BY <1>2 DEF GenFilePath
    <3> HIDE DEF Writes
    <3> QED BY <1>2, <3>1, <3>2 DEF GenFilePath, SecondKeepsOne
  <2> QED BY <2>1, <2>2
<1> QED BY <1>1, <1>2

LEMMA RaiseStep ==
  ASSUME IInv, NEW t \in Threads, step[t] # "writing", RaiseAbort(t)
  PROVE  IInv'
<1>1. (GenFilePath(t, "ABRT") \/ EndProcess) /\ now' = now BY DEF RaiseAbort
<1>2. alive' \in BOOLEAN /\ abort_handled' \in BOOLEAN
  BY DEF RaiseAbort, EndProcess, IInv, TypeOK
<1> QED BY <1>1, <1>2, TakesNameOrEnds

-----------------------------------------------------------------------------
(* GenDump: two threads have one file open only if they are one, and the   *)
(* one that is through leaves the file whole, or to the one that has it.   *)

LEMMA CreateStep ==
  ASSUME IInv, NEW t \in Threads, CreateDump(t)
  PROVE  IInv'
<1> USE DEF IInv, TypeOK, CreateDump, Returns, Writes, process, history
<1>1. CASE "dump" \in dirs /\ ~\E u \in Threads : Writes(u, name[t])
  <2>1. TypeOK' BY <1>1
  <2>2. \A u \in Threads, s \in Seconds : Writes(u, s) => Writes(u, s)' BY <1>1
  <2>3. \A s \in Seconds : s = name[t] => Writes(t, s)' BY <1>1
  <2>4. \A s \in Seconds : s # name[t] => files'[s] = files[s] BY <1>1
  <2>5. UNCHANGED <<dirs, returned, failed>> /\ returned \subseteq Seconds BY <1>1
  <2> HIDE DEF Writes, CreateDump, TypeOK
  <2>6. ASSUME "dump" \in dirs, NEW s \in returned
        PROVE  files'[s] = "whole" \/ s \in failed \/ \E u \in Threads : Writes(u, s)'
    <3>1. CASE s = name[t] BY <2>3, <2>5, <3>1
    <3>2. CASE s # name[t] BY <2>2, <2>4, <2>5, <2>6, <3>2 DEF SecondKeepsOne
    <3> QED BY <3>1, <3>2
  <2> QED BY <2>1, <2>5, <2>6 DEF SecondKeepsOne
<1>2. CASE ~("dump" \in dirs /\ ~\E u \in Threads : Writes(u, name[t]))
  <2>1. TypeOK' BY <1>2
  <2>2. \A u \in Threads, s \in Seconds : Writes(u, s) => Writes(u, s)' BY <1>2
  <2>3. "dump" \in dirs => \E u \in Threads : Writes(u, name[t]) BY <1>2
  <2>4. UNCHANGED <<dirs, files, failed>> /\ returned' = returned \cup {name[t]} /\ name[t] \in Seconds
    BY <1>2
  <2>5. returned \subseteq Seconds OBVIOUS
  <2> HIDE DEF Writes, CreateDump, TypeOK
  <2>6. ASSUME "dump" \in dirs, NEW s \in returned \cup {name[t]}
        PROVE  files[s] = "whole" \/ s \in failed \/ \E u \in Threads : Writes(u, s)'
    <3>1. CASE s = name[t] BY <2>2, <2>3, <2>4, <2>6, <3>1
    <3>2. CASE s # name[t] BY <2>2, <2>5, <2>6, <3>2 DEF SecondKeepsOne
    <3> QED BY <3>1, <3>2
  <2> QED BY <2>1, <2>4, <2>6 DEF SecondKeepsOne
<1> QED BY <1>1, <1>2

LEMMA WriteStep ==
  ASSUME IInv, NEW t \in Threads, WriteDump(t)
  PROVE  IInv'
<1> USE DEF IInv, TypeOK, WriteDump, Returns, Writes, process, history
<1>1. TypeOK'
  <2>1. CASE files' = [files EXCEPT ![name[t]] = "whole"] /\ UNCHANGED failed BY <2>1
  <2>2. CASE UNCHANGED files /\ failed' = failed \cup {name[t]} BY <2>2
  <2> QED BY <2>1, <2>2
<1>2. \A u \in Threads, s \in Seconds : s # name[t] /\ Writes(u, s) => Writes(u, s)' OBVIOUS
<1>3. \A s \in Seconds : s # name[t] => files'[s] = files[s] OBVIOUS
<1>4. files'[name[t]] = "whole" \/ name[t] \in failed' OBVIOUS
<1>5. UNCHANGED dirs /\ returned' = returned \cup {name[t]} /\ failed \subseteq failed' OBVIOUS
<1> HIDE DEF Writes, WriteDump
<1> QED BY <1>1, <1>2, <1>3, <1>4, <1>5 DEF SecondKeepsOne

LEMMA Inductive == IInv /\ [Next]_vars => IInv'
<1> SUFFICES ASSUME IInv, [Next]_vars PROVE IInv' OBVIOUS
<1>1. CASE Tick
  BY <1>1, LastSecondAssumption DEF Tick, IInv, TypeOK, SecondKeepsOne, Seconds, Writes, history
<1>2. CASE Ended \/ UNCHANGED vars
  BY <1>2 DEF Ended, vars, process, history, IInv, TypeOK, SecondKeepsOne, Writes
<1>3. ASSUME NEW t \in Threads, ExceptionFilter(t) \/ SegvHandler(t) PROVE IInv'
  <2>1. /\ step[t] # "writing" /\ (GenFilePath(t, "filter") \/ GenFilePath(t, "SEGV"))
        /\ now' = now /\ alive' \in BOOLEAN /\ abort_handled' \in BOOLEAN
    BY <1>3 DEF ExceptionFilter, SegvHandler, process, IInv, TypeOK
  <2> QED BY <2>1, TakesNameOrEnds
<1>4. ASSUME NEW t \in Threads, Abort(t) PROVE IInv' BY <1>4, RaiseStep DEF Abort
<1>5. ASSUME NEW t \in Threads, CreateDump(t) PROVE IInv' BY <1>5, CreateStep
<1>6. ASSUME NEW t \in Threads, WriteDump(t) PROVE IInv' BY <1>6, WriteStep
<1>7. ASSUME NEW t \in Threads, Return(t) PROVE IInv'
  <2>1. CASE via[t] = "filter"
    <3>1. /\ EndProcess /\ step[t] # "writing" /\ now' = now
          /\ alive' \in BOOLEAN /\ abort_handled' \in BOOLEAN
      BY <1>7, <2>1 DEF Return, EndProcess, IInv, TypeOK
    <3> QED BY <3>1, TakesNameOrEnds
  <2>2. CASE via[t] # "filter" BY <1>7, <2>2, RaiseStep DEF Return
  <2> QED BY <2>1, <2>2
<1> QED BY <1>1, <1>2, <1>3, <1>4, <1>5, <1>6, <1>7 DEF Next

-----------------------------------------------------------------------------
\* Type correctness, and CreateFileA's exclusive open: a file of GenDump has
\* one writer, for any number of threads.
THEOREM TypeCorrect == Spec => []TypeOK
<1>1. IInv => TypeOK BY DEF IInv
<1> QED BY InitHolds, Inductive, <1>1, PTL DEF Spec

\* For every second in which a GenDump has returned the dump is whole, when the
\* process has ended too, unless .\dump was missing, MiniDumpWriteDump failed, or
\* another thread was in the middle of that very file.
THEOREM SecondKeepsOneHolds == Spec => []SecondKeepsOne
<1>1. IInv => SecondKeepsOne BY DEF IInv
<1> QED BY InitHolds, Inductive, <1>1, PTL DEF Spec
=============================================================================
