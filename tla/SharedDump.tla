----------------------------- MODULE SharedDump -----------------------------
(***************************************************************************)
(* Several processes, of several programs, on one file system: where       *)
(* program_location() and _get_dump_path() lead them (util.cpp,            *)
(* stacktrace_dumper.cpp), and what show_last_dump() of one and the signal *)
(* handler of another make of the file they share.  CrashReporter has the  *)
(* single process, its crashes before it runs and its failing files; here  *)
(* a process crashes while it runs its application.                        *)
(***************************************************************************)
EXTENDS Naturals, FiniteSets, TLC

CONSTANTS
  NProcesses,   \* bound: how many processes are started, in this order
  Programs      \* the executables

ASSUME NProcessesAssumption == NProcesses \in Nat

Processes == 1..NProcesses
Symmetry  == Permutations(Programs)

\* The programs are in one directory.  Where readlink() fails all use "default";
\* where it fills its 1024 bytes, a path that does not say which program it is.
Path(kind, of) == [kind |-> kind, of |-> of]
Default == Path("default", Programs)
Cut     == Path("cut", Programs)
Paths   == {Path(k, {g}) : k \in {"own", "deleted"}, g \in Programs} \cup {Default, Cut}

VARIABLES
  pc,       \* per process: "off", "started", "reading", "removing", "running",
            \* "handling", "opened", "ended"
  program,  \* what each process executes
  readlink, \* what it returns here: "whole", "cut" (at 1024 bytes), "fails"
  replaced, \* the processes whose executable has been replaced since
  name,     \* the path show_last_dump() of each process looks at
  disk,     \* per path: NoFile, or the file and the dumps written to it since
            \* it was truncated (more than one is a mixture)
  opened,   \* the file each handler has open
  signal,   \* the signal each process is handling
  reported, \* the dumps each process has reported
  met,      \* history: the pairs of processes that were alive together
  crossed   \* history: those of them that were about the files together, both
            \* with a dump to show, or one with a dump to show and one to write

world == <<program, readlink>>
vars  == <<pc, world, replaced, name, disk, opened, signal, reported, met, crossed>>

NoFile  == [id |-> <<0, "none">>, dumps |-> {}]
NotOpen == [path |-> Default, id |-> NoFile.id]
Alive   == {p \in Processes : pc[p] \notin {"off", "ended"}}
Goes(p, at) == pc' = [pc EXCEPT ![p] = at]
Crosses(p, at) == crossed' = crossed \cup {{p, q} : q \in {r \in Processes : pc[r] \in at}}

Init ==
  /\ pc = [p \in Processes |-> "off"] /\ program \in [Processes -> Programs]
  /\ readlink \in {"whole", "cut", "fails"}
  /\ replaced = {} /\ name = [p \in Processes |-> Default]
  /\ disk = [q \in Paths |-> NoFile] /\ opened = [p \in Processes |-> NotOpen]
  /\ signal = [p \in Processes |-> "none"]
  /\ reported = [p \in Processes |-> {}] /\ met = {} /\ crossed = {}

-----------------------------------------------------------------------------
Launch(p) ==
  /\ pc[p] = "off" /\ \A q \in 1..(p - 1) : pc[q] # "off"
  /\ Goes(p, "started")
  /\ met' = met \cup {{p, q} : q \in Alive}
  /\ UNCHANGED <<world, replaced, name, disk, opened, signal, reported, crossed>>

\* An executable is replaced under the processes that run it, which shows in a
\* path that is whole and in no other.
Replace(g) ==
  /\ readlink = "whole"
  /\ replaced' = replaced \cup {p \in Alive : program[p] = g}
  /\ UNCHANGED <<pc, world, name, disk, opened, signal, reported, met, crossed>>

\* Mutant: the path does not depend on the program.
DumpPath_Fixed(p) == Default

\* program_location() and _get_dump_path(), asked anew each time; the system
\* adds " (deleted)" to the name of an executable that was replaced.
DumpPath(p) ==
  CASE readlink = "fails" -> Default
    [] readlink = "cut"   -> Cut
    [] OTHER              -> Path(IF p \in replaced THEN "deleted" ELSE "own", {program[p]})

\* show_last_dump(): exists() ...
Look(p) ==
  /\ pc[p] = "started"
  /\ name' = [name EXCEPT ![p] = DumpPath(p)]
  /\ IF disk[DumpPath(p)] = NoFile
       THEN Goes(p, "running") /\ UNCHANGED crossed
       ELSE /\ Goes(p, "reading")
            /\ Crosses(p, {"reading", "removing", "handling", "opened"})
  /\ UNCHANGED <<world, replaced, disk, opened, signal, reported, met>>

\* ... the report of what is in the file by then, which may be gone ...
Report(p) ==
  /\ pc[p] = "reading" /\ Goes(p, "removing")
  /\ reported' = [reported EXCEPT ![p] = disk[name[p]].dumps]
  /\ UNCHANGED <<world, replaced, name, disk, opened, signal, met, crossed>>

\* Mutant: the file stays.
RemoveDump_Not(p) ==
  /\ pc[p] = "removing" /\ Goes(p, "running")
  /\ UNCHANGED <<world, replaced, name, disk, opened, signal, reported, met, crossed>>

\* ... and remove() of whatever has the name now.
RemoveDump(p) ==
  /\ pc[p] = "removing" /\ Goes(p, "running")
  /\ disk' = [disk EXCEPT ![name[p]] = NoFile]
  /\ UNCHANGED <<world, replaced, name, opened, signal, reported, met, crossed>>

Exit(p) ==
  /\ pc[p] = "running" /\ Goes(p, "ended")
  /\ UNCHANGED <<world, replaced, name, disk, opened, signal, reported, met, crossed>>

Crash(p) ==
  /\ pc[p] = "running" /\ Goes(p, "handling") /\ Crosses(p, {"reading", "removing"})
  /\ \E s \in {"SEGV", "ABRT"} : signal' = [signal EXCEPT ![p] = s]
  /\ UNCHANGED <<world, replaced, name, disk, opened, reported, met>>

\* safe_dump_to(): open with O_CREAT | O_TRUNC ...
OpenDump(p) ==
  /\ pc[p] = "handling" /\ Goes(p, "opened")
  /\ LET q  == DumpPath(p)
         id == IF disk[q] = NoFile THEN <<p, signal[p]>> ELSE disk[q].id
     IN  /\ disk' = [disk EXCEPT ![q] = [id |-> id, dumps |-> {}]]
         /\ opened' = [opened EXCEPT ![p] = [path |-> q, id |-> id]]
  /\ UNCHANGED <<world, replaced, name, signal, reported, met, crossed>>

\* What is written to a file that was removed meanwhile is lost.
Written(p) ==
  LET q == opened[p].path
  IN  IF disk[q].id = opened[p].id
      THEN [disk EXCEPT ![q].dumps = @ \cup {p}] ELSE disk

\* Mutant: the handler returns to the application.
WriteDump_Returns(p) ==
  /\ pc[p] = "opened" /\ Goes(p, "running") /\ disk' = Written(p)
  /\ UNCHANGED <<world, replaced, name, opened, signal, reported, met, crossed>>

\* ... and the write; then raise(SIGABRT), which is handled once more or ends
\* the process.
WriteDump(p) ==
  /\ pc[p] = "opened"
  /\ disk' = Written(p)
  /\ Goes(p, IF signal[p] = "SEGV" THEN "handling" ELSE "ended")
  /\ signal' = [signal EXCEPT ![p] = "ABRT"]
  /\ opened' = [opened EXCEPT ![p] = NotOpen]
  /\ UNCHANGED <<world, replaced, name, reported, met, crossed>>

Ended == (\A p \in Processes : pc[p] = "ended") /\ UNCHANGED vars

Step(p) ==
  \/ Launch(p) \/ Look(p) \/ Report(p) \/ RemoveDump(p)
  \/ Exit(p) \/ Crash(p) \/ OpenDump(p) \/ WriteDump(p)

Next == Ended \/ (\E g \in Programs : Replace(g)) \/ (\E p \in Processes : Step(p))

Spec == Init /\ [][Next]_vars

-----------------------------------------------------------------------------
(* Properties.                                                             *)

Met(p, q) == {p, q} \in met
Crossed(p, q) == {p, q} \in crossed
OnDisk(w) == \E q \in Paths : w \in disk[q].dumps

\* Type invariant; a process that has written a dump does nothing else any more.
TypeOK ==
  /\ pc \in [Processes -> {"off", "started", "reading", "removing", "running",
                           "handling", "opened", "ended"}]
  /\ program \in [Processes -> Programs] /\ readlink \in {"whole", "cut", "fails"}
  /\ replaced \subseteq Processes
  /\ name \in [Processes -> Paths]
  /\ \A q \in Paths : \A w \in disk[q].dumps : pc[w] \in {"handling", "opened", "ended"}
  /\ \A p \in Processes : opened[p].path \in Paths /\ reported[p] \subseteq Processes
  /\ signal \in [Processes -> {"none", "SEGV", "ABRT"}]
  /\ \A pair \in met \cup crossed : pair \subseteq Processes /\ Cardinality(pair) = 2

\* A process reports a crash of another program only where readlink() fails or
\* is cut.
ReportsOwnProgram ==
  \A p \in Processes : \A w \in reported[p] :
    program[w] = program[p] \/ readlink # "whole"

\* Where p may undo the dump of w: the two were about the files together; or p
\* crashed as well, having begun while w was alive, or writing under a name it
\* never looked at, since its executable was replaced.
Overlaps(p, w) ==
  \/ Crossed(p, w)
  \/ p # w /\ signal[p] # "none" /\ (Met(p, w) \/ p \in replaced)

\* To be alive together is not enough: a dump is reported twice only if two of
\* the three were about the files together, or its process wrote under two
\* names; and it is lost only if it was reported or another overlaps with it.
OnlyCompanyDisturbs ==
  \A w \in Processes :
    /\ \A p, q \in Processes :
         p # q /\ w \in reported[p] \cap reported[q]
           => Crossed(p, q) \/ Crossed(p, w) \/ Crossed(q, w) \/ w \in replaced
    /\ pc[w] = "ended" /\ signal[w] # "none" /\ ~OnDisk(w)
         => \E p \in Processes : w \in reported[p] \/ Overlaps(p, w)

\* Where a process has looked, nothing of a process that ended before it began
\* is left; what is left elsewhere of its own program lies under a name that one
\* of the two had because its executable had been replaced.
LookedShowed(p) == pc[p] \in {"running", "handling", "opened", "ended"}
EarlierIsConsumed ==
  \A p \in Processes, q \in Paths : \A w \in disk[q].dumps :
    w < p /\ ~Met(w, p) /\ LookedShowed(p) =>
      /\ q # name[p]
      /\ program[w] = program[p] => {p, w} \cap replaced # {}
=============================================================================
