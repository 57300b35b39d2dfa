-------------------------- MODULE SharedDumpProofs --------------------------
(***************************************************************************)
(* Proofs, for any number of processes and programs, of the safety         *)
(* properties of SharedDump.                                               *)
(***************************************************************************)
EXTENDS SharedDump, FiniteSetTheorems, TLAPS

(* The inductive invariant.                                                *)

Ids == (0..NProcesses) \X {"none", "SEGV", "ABRT"}

Types ==
  /\ pc \in [Processes -> {"off", "started", "reading", "removing", "running",
                           "handling", "opened", "ended"}]
  /\ program \in [Processes -> Programs] /\ readlink \in {"whole", "cut", "fails"}
  /\ replaced \subseteq Processes
  /\ name \in [Processes -> Paths]
  /\ disk \in [Paths -> [id : Ids, dumps : SUBSET Processes]]
  /\ opened \in [Processes -> [path : Paths, id : Ids]]
  /\ signal \in [Processes -> {"none", "SEGV", "ABRT"}]
  /\ reported \in [Processes -> SUBSET Processes]

Pairs == \A pair \in met \cup crossed : pair \subseteq Processes /\ Cardinality(pair) = 2

\* Of two processes that never met the first had ended when the second began.
Order ==
  \A q, p \in Processes :
    q < p /\ pc[p] # "off" => pc[q] # "off" /\ (Met(q, p) \/ pc[q] = "ended")

SignalOK ==
  \A p \in Processes :
    /\ pc[p] \in {"off", "started", "reading", "removing", "running"} => signal[p] = "none"
    /\ pc[p] \in {"handling", "opened"} => signal[p] # "none"

\* Where the files a process has to do with lie.
RightPath(p, q) ==
  /\ p \notin replaced => q = DumpPath(p)
  /\ readlink = "whole" => q.of = {program[p]}
DumpsWhere ==
  \A q \in Paths : \A w \in disk[q].dumps :
    RightPath(w, q) /\ pc[w] \in {"handling", "opened", "ended"}
OpenedWhere == \A p \in Processes : pc[p] = "opened" => RightPath(p, opened[p].path)
NamedWhere  == \A p \in Processes : pc[p] \notin {"off", "started"} => RightPath(p, name[p])

\* Two processes that are about the files now are known to have been.
Showing(p) == pc[p] \in {"reading", "removing"}
About(p)   == Showing(p) \/ pc[p] \in {"handling", "opened"}
Windows    == \A p, q \in Processes : p # q /\ Showing(p) /\ About(q) => Crossed(p, q)

\* Nobody removes the file a process writes to while no other overlaps with it.
Alone(w) == \A p \in Processes : ~Overlaps(p, w)
OwnFile  ==
  \A w \in Processes :
    pc[w] = "opened" /\ Alone(w) => disk[opened[w].path].id = opened[w].id

\* What a process has reported is earlier, and lay where it looked; what it
\* removes it has reported; after that nothing earlier is left there.
Reported ==
  \A p \in Processes : \A w \in reported[p] :
    /\ pc[p] \notin {"off", "started", "reading"}
    /\ w # p /\ (w < p \/ Met(w, p))
    /\ w \notin replaced => name[p] = DumpPath(w)
    /\ readlink = "whole" => program[w] = program[p]
Removing ==
  \A p, w \in Processes :
    pc[p] = "removing" /\ ~Crossed(p, w) /\ w \in disk[name[p]].dumps => w \in reported[p]
Consumed ==
  \A p, w \in Processes :
    LookedShowed(p) /\ w < p /\ ~Met(w, p) => w \notin disk[name[p]].dumps

\* The process of a dump that was reported has ended, and the dump is gone from
\* there, unless the two were about the file together.
ReportedOver ==
  \A p, w \in Processes :
    w \in reported[p] /\ ~Crossed(p, w) =>
      pc[w] = "ended" /\ (LookedShowed(p) => w \notin disk[name[p]].dumps)

\* The two halves of OnlyCompanyDisturbs.
NotTwice ==
  \A w, p, q \in Processes :
    p # q /\ w \in reported[p] \cap reported[q]
      => Crossed(p, q) \/ Crossed(p, w) \/ Crossed(q, w) \/ w \in replaced
NotLost ==
  \A w \in Processes :
    pc[w] = "ended" /\ signal[w] # "none" /\ ~OnDisk(w)
      => \E p \in Processes : w \in reported[p] \/ Overlaps(p, w)

IInv ==
  /\ Types /\ Pairs /\ Order /\ SignalOK
  /\ DumpsWhere /\ OpenedWhere /\ NamedWhere /\ Windows /\ OwnFile
  /\ Reported /\ Removing /\ Consumed /\ ReportedOver /\ NotTwice /\ NotLost

-----------------------------------------------------------------------------
(* Paths, pairs of processes, and what every step leaves as it is.         *)

LEMMA PathFacts ==
  ASSUME Types
  PROVE  /\ Default \in Paths
         /\ \A p \in Processes : DumpPath(p) \in Paths /\ RightPath(p, DumpPath(p))
         /\ \A p, w \in Processes :
              program[p] = program[w] /\ p \notin replaced /\ w \notin replaced
                => DumpPath(p) = DumpPath(w)
<1>1. \A p \in Processes : program[p] \in Programs BY DEF Types
<1>2. ASSUME NEW p \in Processes PROVE DumpPath(p) \in Paths
  <2>1. CASE readlink = "fails" BY <2>1 DEF DumpPath, Paths
  <2>2. CASE readlink = "cut" BY <2>2 DEF DumpPath, Paths
  <2>3. CASE readlink = "whole"
    <3>1. PICK k \in {"own", "deleted"} : DumpPath(p) = Path(k, {program[p]})
      BY <2>3 DEF DumpPath
    <3>2. \E i \in {"own", "deleted"}, g \in Programs : DumpPath(p) = Path(i, {g}) BY <1>1, <3>1
    <3>3. DumpPath(p) \in {Path(i, {g}) : i \in {"own", "deleted"}, g \in Programs} BY <3>2
    <3> QED BY <3>3 DEF Paths
  <2> QED BY <2>1, <2>2, <2>3 DEF Types
<1>3. ASSUME NEW p \in Processes, readlink = "whole" PROVE DumpPath(p).of = {program[p]}
  BY <1>3 DEF DumpPath, Path
<1>4. ASSUME NEW p \in Processes, NEW w \in Processes,
             program[p] = program[w], p \notin replaced, w \notin replaced
      PROVE  DumpPath(p) = DumpPath(w)
  BY <1>4 DEF DumpPath, Types
<1>5. Default \in Paths BY DEF Paths
<1>6. \A p \in Processes : RightPath(p, DumpPath(p)) BY <1>3 DEF RightPath
<1> QED BY <1>2, <1>4, <1>5, <1>6

LEMMA MetSymmetric == \A p, q : (Met(p, q) <=> Met(q, p)) /\ (Crossed(p, q) <=> Crossed(q, p))
<1> SUFFICES ASSUME NEW p, NEW q PROVE {p, q} = {q, p} BY DEF Met, Crossed
<1> QED OBVIOUS

LEMMA InitHolds == Init => IInv
<1> SUFFICES ASSUME Init PROVE IInv OBVIOUS
<1> USE DEF Init
<1>1. Types
  <2>1. NoFile \in [id : Ids, dumps : SUBSET Processes]
    BY NProcessesAssumption DEF NoFile, Ids
  <2>2. Default \in Paths BY DEF Paths
  <2>3. NotOpen \in [path : Paths, id : Ids]
    BY <2>2, NProcessesAssumption DEF NoFile, NotOpen, Ids
  <2> QED BY <2>1, <2>2, <2>3 DEF Types
<1>2. Pairs /\ Order /\ SignalOK BY DEF Pairs, Order, SignalOK
<1>3. DumpsWhere BY DEF DumpsWhere, NoFile
<1>4. OpenedWhere /\ NamedWhere /\ Windows /\ OwnFile
  BY DEF OpenedWhere, NamedWhere, Windows, Showing, OwnFile
<1>5. Reported /\ Removing /\ Consumed /\ ReportedOver /\ NotTwice /\ NotLost
  BY DEF Reported, Removing, Consumed, ReportedOver, LookedShowed, NotTwice, NotLost
<1> QED BY <1>1, <1>2, <1>3, <1>4, <1>5 DEF IInv

LEMMA Stutter ==
  ASSUME IInv, Ended \/ UNCHANGED vars
  PROVE  IInv'
<1>1. UNCHANGED <<pc, program, readlink, replaced, name, disk, opened, signal, reported, met, crossed>>
  BY DEF Ended, vars, world
<1>2. \A p : DumpPath(p)' = DumpPath(p) BY <1>1 DEF DumpPath
<1>3. \A p, q : RightPath(p, q)' <=> RightPath(p, q) BY <1>1, <1>2 DEF RightPath
<1>4. \A p, q : (Met(p, q)' <=> Met(p, q)) /\ (Crossed(p, q)' <=> Crossed(p, q))
  BY <1>1 DEF Met, Crossed
<1>5. \A p, q : Overlaps(p, q)' <=> Overlaps(p, q) BY <1>1, <1>4 DEF Overlaps
<1>6. Types' /\ Pairs' /\ Order' /\ SignalOK'
  BY <1>1, <1>4 DEF IInv, Types, Pairs, Order, SignalOK
<1>7. DumpsWhere' /\ OpenedWhere' /\ NamedWhere'
  BY <1>1, <1>3 DEF IInv, DumpsWhere, OpenedWhere, NamedWhere
<1>8. Windows' /\ OwnFile'
  BY <1>1, <1>4, <1>5 DEF IInv, Windows, Showing, About, OwnFile, Alone
<1>9. Reported' /\ Removing' /\ Consumed' /\ ReportedOver'
  BY <1>1, <1>2, <1>4 DEF IInv, Reported, Removing, Consumed, ReportedOver, LookedShowed
<1>10. NotTwice' /\ NotLost'
  BY <1>1, <1>4, <1>5 DEF IInv, NotTwice, NotLost, OnDisk
<1> QED BY <1>6, <1>7, <1>8, <1>9, <1>10 DEF IInv

LEMMA TypesKept ==
  ASSUME IInv, [Next]_vars
  PROVE  Types'
<1> USE DEF IInv, Types, Goes, world
<1>1. CASE Ended \/ UNCHANGED vars BY <1>1, Stutter
<1>2. ASSUME NEW g \in Programs, Replace(g) PROVE Types' BY <1>2 DEF Replace, Alive
<1>3. ASSUME NEW p \in Processes, Launch(p) PROVE Types' BY <1>3 DEF Launch
<1>4. ASSUME NEW p \in Processes, Look(p) PROVE Types' BY <1>4, PathFacts DEF Look
<1>5. ASSUME NEW p \in Processes, Report(p) PROVE Types'
  <2>1. disk[name[p]].dumps \in SUBSET Processes OBVIOUS
  <2> QED BY <1>5, <2>1 DEF Report
<1>6. ASSUME NEW p \in Processes, RemoveDump(p) PROVE Types'
  <2>1. NoFile \in [id : Ids, dumps : SUBSET Processes]
    BY NProcessesAssumption DEF NoFile, Ids
  <2> QED BY <1>6, <2>1 DEF RemoveDump
<1>7. ASSUME NEW p \in Processes, Exit(p) PROVE Types' BY <1>7 DEF Exit
<1>10. ASSUME NEW p \in Processes, Crash(p) PROVE Types'
  <2>1. PICK s \in {"SEGV", "ABRT"} : signal' = [signal EXCEPT ![p] = s] BY <1>10 DEF Crash
  <2> QED BY <1>10, <2>1 DEF Crash
<1>8. ASSUME NEW p \in Processes, OpenDump(p) PROVE Types'
  <2> DEFINE q  == DumpPath(p)
             id == IF disk[q] = NoFile THEN <<p, signal[p]>> ELSE disk[q].id
  <2>1. q \in Paths BY PathFacts
  <2>2. p \in 0..NProcesses BY NProcessesAssumption DEF Processes
  <2>3. id \in Ids BY <2>1, <2>2 DEF Ids
  <2>4. /\ disk' = [disk EXCEPT ![q] = [id |-> id, dumps |-> {}]]
        /\ opened' = [opened EXCEPT ![p] = [path |-> q, id |-> id]]
    BY <1>8 DEF OpenDump
  <2> HIDE DEF q, id
  <2>5. disk' \in [Paths -> [id : Ids, dumps : SUBSET Processes]] BY <2>1, <2>3, <2>4
  <2>6. opened' \in [Processes -> [path : Paths, id : Ids]] BY <2>1, <2>3, <2>4
  <2> QED BY <1>8, <2>5, <2>6 DEF OpenDump
<1>9. ASSUME NEW p \in Processes, WriteDump(p) PROVE Types'
  <2>1. NotOpen \in [path : Paths, id : Ids]
    BY PathFacts, NProcessesAssumption DEF NoFile, NotOpen, Ids
  <2>2. opened' \in [Processes -> [path : Paths, id : Ids]] BY <1>9, <2>1 DEF WriteDump
  <2>3. disk' \in [Paths -> [id : Ids, dumps : SUBSET Processes]] BY <1>9 DEF WriteDump, Written
  <2> QED BY <1>9, <2>2, <2>3 DEF WriteDump
<1> QED BY <1>1, <1>2, <1>3, <1>4, <1>5, <1>6, <1>7, <1>8, <1>9, <1>10 DEF Next, Step

-----------------------------------------------------------------------------
(* What a step changes, and whose step it is.                              *)

Changes ==
  /\ UNCHANGED <<program, readlink>> /\ replaced \subseteq replaced'
  /\ \A p \in Processes :
       /\ pc'[p] = pc[p] \/ Step(p)
       /\ name'[p] = name[p] \/ Look(p)
       /\ opened'[p] = opened[p] \/ OpenDump(p) \/ WriteDump(p)
       /\ signal'[p] = signal[p] \/ Crash(p) \/ WriteDump(p)
       /\ reported'[p] = reported[p] \/ Report(p)
  /\ met' = met \/ \E p \in Processes : Launch(p)
  /\ crossed' = crossed \/ \E p \in Processes : Look(p) \/ Crash(p)
  /\ disk' = disk \/ \E p \in Processes : RemoveDump(p) \/ OpenDump(p) \/ WriteDump(p)

LEMMA Frame ==
  ASSUME IInv, [Next]_vars
  PROVE  Changes
<1> USE DEF Changes
<1>types. Types BY DEF IInv
<1>1. CASE UNCHANGED vars BY <1>1 DEF vars, world
<1>2. CASE Ended BY <1>2 DEF Ended, vars, world
<1>3. ASSUME NEW g \in Programs, Replace(g) PROVE Changes
  BY <1>3 DEF Replace, world
<1>4. ASSUME NEW p \in Processes, Step(p) PROVE Changes
  <2>1. \A r \in Processes : pc'[r] = pc[r] \/ Step(r)
    <3>1. \E at : pc' = [pc EXCEPT ![p] = at]
      BY <1>4 DEF Step, Goes, Launch, Look, Report, RemoveDump, Exit, Crash, OpenDump, WriteDump
    <3> QED BY <3>1, <1>4, <1>types DEF Types
  <2>2. CASE Launch(p)
    <3>1. UNCHANGED <<program, readlink, replaced, name, disk, opened, signal, reported, crossed>>
      BY <2>2 DEF Launch, world
    <3> QED BY <2>1, <2>2, <3>1
  <2>3. CASE Look(p)
    <3>1. /\ UNCHANGED <<program, readlink, replaced, disk, opened, signal, reported, met>>
          /\ name' = [name EXCEPT ![p] = DumpPath(p)]
      BY <2>3 DEF Look, world
    <3> QED BY <2>1, <2>3, <3>1, <1>types DEF Types
  <2>4. CASE Report(p)
    <3>1. /\ UNCHANGED <<program, readlink, replaced, name, disk, opened, signal, met, crossed>>
          /\ reported' = [reported EXCEPT ![p] = disk[name[p]].dumps]
      BY <2>4 DEF Report, world
    <3> QED BY <2>1, <2>4, <3>1, <1>types DEF Types
  <2>5. CASE RemoveDump(p)
    <3>1. UNCHANGED <<program, readlink, replaced, name, opened, signal, reported, met, crossed>>
      BY <2>5 DEF RemoveDump, world
    <3> QED BY <2>1, <2>5, <3>1
  <2>6. CASE Exit(p)
    <3>1. UNCHANGED <<program, readlink, replaced, name, disk, opened, signal, reported, met, crossed>>
      BY <2>6 DEF Exit, world
    <3> QED BY <2>1, <3>1
  <2>7. CASE Crash(p)
    <3>1. /\ UNCHANGED <<program, readlink, replaced, name, disk, opened, reported, met>>
          /\ \E s : signal' = [signal EXCEPT ![p] = s]
      BY <2>7 DEF Crash, world
    <3> QED BY <2>1, <2>7, <3>1, <1>types DEF Types
  <2>8. CASE OpenDump(p)
    <3>1. /\ UNCHANGED <<program, readlink, replaced, name, signal, reported, met, crossed>>
          /\ \E o : opened' = [opened EXCEPT ![p] = o]
      BY <2>8 DEF OpenDump, world
    <3> QED BY <2>1, <2>8, <3>1, <1>types DEF Types
  <2>9. CASE WriteDump(p)
    <3>1. /\ UNCHANGED <<program, readlink, replaced, name, reported, met, crossed>>
          /\ opened' = [opened EXCEPT ![p] = NotOpen]
          /\ signal' = [signal EXCEPT ![p] = "ABRT"]
      BY <2>9 DEF WriteDump, world
    <3> QED BY <2>1, <2>9, <3>1, <1>types DEF Types
  <2> QED BY <1>4, <2>2, <2>3, <2>4, <2>5, <2>6, <2>7, <2>8, <2>9 DEF Step
<1> QED BY <1>1, <1>2, <1>3, <1>4 DEF Next

\* A process goes from each place only to the next ones.
LEMMA Places ==
  ASSUME IInv, [Next]_vars, NEW p \in Processes
  PROVE  /\ pc[p] = "off" => pc'[p] = "off" \/ Launch(p)
         /\ pc[p] = "started" => pc'[p] = "started" \/ Look(p)
         /\ pc[p] = "reading" => pc'[p] = "reading" \/ Report(p)
         /\ pc[p] = "removing" => pc'[p] = "removing" \/ RemoveDump(p)
         /\ pc[p] = "running" => pc'[p] = "running" \/ Exit(p) \/ Crash(p)
         /\ pc[p] = "handling" => pc'[p] = "handling" \/ OpenDump(p)
         /\ pc[p] = "opened" => pc'[p] = "opened" \/ WriteDump(p)
         /\ pc[p] = "ended" => pc'[p] = "ended"
<1>1. pc'[p] = pc[p] \/ Step(p) BY Frame DEF Changes
<1>2. CASE pc'[p] = pc[p] BY <1>2
<1>3. CASE Step(p)
  <2>1. /\ Launch(p) => pc[p] = "off"
        /\ Look(p) => pc[p] = "started"
        /\ Report(p) => pc[p] = "reading"
        /\ RemoveDump(p) => pc[p] = "removing"
        /\ Exit(p) \/ Crash(p) => pc[p] = "running"
        /\ OpenDump(p) => pc[p] = "handling"
        /\ WriteDump(p) => pc[p] = "opened"
    BY DEF Launch, Look, Report, RemoveDump, Exit, Crash, OpenDump, WriteDump
  <2> QED BY <1>3, <2>1 DEF Step
<1> QED BY <1>1, <1>2, <1>3

LEMMA Going ==
  ASSUME IInv, NEW p \in Processes
  PROVE  /\ Launch(p) => pc'[p] = "started"
         /\ Look(p) => pc'[p] \in {"running", "reading"}
         /\ Report(p) => pc'[p] = "removing"
         /\ RemoveDump(p) => pc'[p] = "running"
         /\ Exit(p) => pc'[p] = "ended"
         /\ Crash(p) => pc'[p] = "handling"
         /\ OpenDump(p) => pc'[p] = "opened"
         /\ WriteDump(p) => pc'[p] \in {"handling", "ended"}
<1> USE DEF IInv, Types, Goes
<1>1. /\ Launch(p) => pc'[p] = "started"
      /\ Look(p) => pc'[p] \in {"running", "reading"}
      /\ Report(p) => pc'[p] = "removing"
  BY DEF Launch, Look, Report
<1>2. /\ RemoveDump(p) => pc'[p] = "running"
      /\ Exit(p) => pc'[p] = "ended"
      /\ Crash(p) => pc'[p] = "handling"
  BY DEF RemoveDump, Exit, Crash
<1>3. /\ OpenDump(p) => pc'[p] = "opened"
      /\ WriteDump(p) => pc'[p] \in {"handling", "ended"}
  BY DEF OpenDump, WriteDump
<1> QED BY <1>1, <1>2, <1>3

\* What was true of paths, meetings and reports stays true.
LEMMA Monotone ==
  ASSUME IInv, [Next]_vars
  PROVE  /\ \A p, q : (Met(p, q) => Met(p, q)') /\ (Crossed(p, q) => Crossed(p, q)')
         /\ \A p \in Processes : \A w : Overlaps(p, w) => Overlaps(p, w)'
         /\ \A p : p \notin replaced' => p \notin replaced /\ DumpPath(p)' = DumpPath(p)
         /\ \A p, q : RightPath(p, q) => RightPath(p, q)'
         /\ \A p \in Processes : reported[p] \subseteq reported'[p]
<1>1. Changes BY Frame
<1>2. \A p, q : (Met(p, q) => Met(p, q)') /\ (Crossed(p, q) => Crossed(p, q)')
  BY <1>1 DEF Changes, Launch, Look, Crash, Crosses, Met, Crossed
<1>3. \A p : p \notin replaced' => p \notin replaced /\ DumpPath(p)' = DumpPath(p)
  BY <1>1 DEF Changes, DumpPath
<1>4. \A p, q : RightPath(p, q) => RightPath(p, q)'
  BY <1>1, <1>3 DEF Changes, RightPath
<1>5. ASSUME NEW p \in Processes PROVE reported[p] \subseteq reported'[p]
  <2>1. CASE Report(p)
    <3>1. reported[p] = {} BY <2>1 DEF Report, IInv, Types, Reported
    <3> QED BY <3>1
  <2> QED BY <1>1, <2>1 DEF Changes
<1>6. ASSUME NEW p \in Processes, signal[p] # "none" PROVE signal'[p] # "none"
  <2>1. ~Crash(p) BY <1>6 DEF Crash, IInv, SignalOK
  <2>2. CASE WriteDump(p) BY <2>2 DEF WriteDump, IInv, Types
  <2> QED BY <1>1, <1>6, <2>1, <2>2 DEF Changes
<1>7. \A p \in Processes : \A w : Overlaps(p, w) => Overlaps(p, w)'
  BY <1>1, <1>2, <1>6 DEF Overlaps, Changes
<1> QED BY <1>2, <1>3, <1>4, <1>5, <1>7

\* Only a handler that writes adds to a file.
LEMMA DumpsGrow ==
  ASSUME IInv, [Next]_vars, NEW q \in Paths, NEW w \in disk'[q].dumps
  PROVE  w \in disk[q].dumps \/ (w \in Processes /\ WriteDump(w) /\ q = opened[w].path)
<1> USE DEF IInv, Types
<1>1. CASE disk' = disk BY <1>1
<1>2. ASSUME NEW p \in Processes, RemoveDump(p) PROVE w \in disk[q].dumps
  BY <1>2 DEF RemoveDump, NoFile
<1>3. ASSUME NEW p \in Processes, OpenDump(p) PROVE w \in disk[q].dumps
  <2>1. \E id : disk' = [disk EXCEPT ![DumpPath(p)] = [id |-> id, dumps |-> {}]]
    BY <1>3 DEF OpenDump
  <2> QED BY <2>1
<1>4. ASSUME NEW p \in Processes, WriteDump(p)
      PROVE  w \in disk[q].dumps \/ (w = p /\ q = opened[p].path)
  BY <1>4 DEF WriteDump, Written
<1> QED BY <1>1, <1>2, <1>3, <1>4, Frame DEF Changes

\* Two processes that are alive have met.
LEMMA AliveMet ==
  ASSUME IInv, NEW p \in Alive, NEW q \in Alive, p # q
  PROVE  Met(p, q)
<1>1. p \in Processes /\ q \in Processes /\ p \in Nat /\ q \in Nat
  BY NProcessesAssumption DEF Alive, Processes
<1>2. CASE p < q BY <1>1, <1>2 DEF IInv, Order, Alive
<1>3. CASE q < p BY <1>1, <1>3, MetSymmetric DEF IInv, Order, Alive
<1> QED BY <1>1, <1>2, <1>3

\* A process that another, which has begun, never met had ended before that.
LEMMA Earlier ==
  ASSUME IInv, NEW w \in Processes, NEW p \in Processes, w # p, ~Met(w, p),
         pc[p] \notin {"off", "ended"}, pc[w] # "off"
  PROVE  w < p /\ pc[w] = "ended"
<1>1. p \in Nat /\ w \in Nat BY NProcessesAssumption DEF Processes
<1>2. CASE w < p BY <1>2 DEF IInv, Order
<1>3. CASE p < w BY <1>3, MetSymmetric DEF IInv, Order
<1> QED BY <1>1, <1>2, <1>3

-----------------------------------------------------------------------------
(* Every part of the invariant is kept.                                    *)

LEMMA TwoOf ==
  ASSUME NEW p \in Processes, NEW q \in Processes, p # q
  PROVE  {p, q} \subseteq Processes /\ Cardinality({p, q}) = 2
<1>1. IsFiniteSet({p}) /\ Cardinality({p}) = 1 BY FS_Singleton
<1>2. Cardinality({p} \cup {q}) = 2 BY <1>1, FS_AddElement
<1>3. {p, q} = {p} \cup {q} OBVIOUS
<1> QED BY <1>2, <1>3

LEMMA PairsKept ==
  ASSUME IInv, [Next]_vars
  PROVE  Pairs'
<1> SUFFICES ASSUME NEW pair \in met' \cup crossed', pair \notin met \cup crossed
             PROVE  \E p, q \in Processes : p # q /\ pair = {p, q}
  BY TwoOf DEF IInv, Pairs
<1>1. ASSUME NEW p \in Processes, Launch(p) PROVE \E q \in Processes : p # q /\ pair = {p, q}
  BY <1>1 DEF Launch, Alive
<1>2. ASSUME NEW p \in Processes, Look(p) PROVE \E q \in Processes : p # q /\ pair = {p, q}
  BY <1>2 DEF Look, Crosses
<1>3. ASSUME NEW p \in Processes, Crash(p) PROVE \E q \in Processes : p # q /\ pair = {p, q}
  BY <1>3 DEF Crash, Crosses
<1> QED BY <1>1, <1>2, <1>3, Frame DEF Changes

LEMMA OrderKept ==
  ASSUME IInv, [Next]_vars
  PROVE  Order'
<1> SUFFICES ASSUME NEW q \in Processes, NEW p \in Processes, q < p, pc'[p] # "off"
             PROVE  pc'[q] # "off" /\ (Met(q, p)' \/ pc'[q] = "ended")
  BY DEF Order
<1>1. CASE pc[p] # "off"
  <2>1. pc[q] # "off" /\ (Met(q, p) \/ pc[q] = "ended") BY <1>1 DEF IInv, Order
  <2>2. pc'[q] # "off"
    BY <2>1, Frame, Going DEF Changes, Step, Launch
  <2> QED BY <2>1, <2>2, Monotone, Places
<1>2. CASE pc[p] = "off"
  <2>1. Launch(p) BY <1>2, Places
  <2>2. q \in 1..(p - 1) BY NProcessesAssumption DEF Processes
  <2>3. pc[q] # "off" BY <2>1, <2>2 DEF Launch
  <2>4. pc'[q] = pc[q] BY <2>1, <2>3, <1>2 DEF Launch, Goes, IInv, Types
  <2>5. q \in Alive => Met(p, q)' BY <2>1 DEF Launch, Met
  <2> QED BY <2>3, <2>4, <2>5, MetSymmetric DEF Alive, Met
<1> QED BY <1>1, <1>2

LEMMA SignalKept ==
  ASSUME IInv, [Next]_vars
  PROVE  SignalOK'
<1> SUFFICES ASSUME NEW p \in Processes
             PROVE  /\ pc'[p] \in {"off", "started", "reading", "removing", "running"}
                         => signal'[p] = "none"
                    /\ pc'[p] \in {"handling", "opened"} => signal'[p] # "none"
  BY DEF SignalOK
<1>1. CASE Crash(p)
  <2>1. PICK s \in {"SEGV", "ABRT"} : signal' = [signal EXCEPT ![p] = s] BY <1>1 DEF Crash
  <2> QED BY <1>1, <2>1, Going DEF IInv, Types
<1>2. CASE WriteDump(p)
  <2>1. signal' = [signal EXCEPT ![p] = "ABRT"] BY <1>2 DEF WriteDump
  <2> QED BY <1>2, <2>1, Going DEF IInv, Types
<1>3. CASE ~Crash(p) /\ ~WriteDump(p)
  <2>1. signal'[p] = signal[p] BY <1>3, Frame DEF Changes
  <2>2. /\ pc[p] \in {"off", "started", "reading", "removing", "running"} => signal[p] = "none"
        /\ pc[p] \in {"handling", "opened"} => signal[p] # "none"
    BY DEF IInv, SignalOK
  <2> QED BY <1>3, <2>1, <2>2, Going, Places DEF IInv, Types
<1> QED BY <1>1, <1>2, <1>3

LEMMA DumpsWhereKept ==
  ASSUME IInv, [Next]_vars
  PROVE  DumpsWhere'
<1> SUFFICES ASSUME NEW q \in Paths, NEW w \in disk'[q].dumps
             PROVE  RightPath(w, q)' /\ pc'[w] \in {"handling", "opened", "ended"}
  BY DEF DumpsWhere
<1>1. CASE w \in disk[q].dumps
  <2>1. w \in Processes BY <1>1 DEF IInv, Types
  <2>2. RightPath(w, q) /\ pc[w] \in {"handling", "opened", "ended"}
    BY <1>1 DEF IInv, DumpsWhere
  <2> QED BY <2>1, <2>2, Monotone, Places, Going
<1>2. CASE w \in Processes /\ WriteDump(w) /\ q = opened[w].path
  <2>1. RightPath(w, q) BY <1>2 DEF IInv, OpenedWhere, WriteDump
  <2> QED BY <1>2, <2>1, Monotone, Going
<1> QED BY <1>1, <1>2, DumpsGrow

LEMMA OpenedWhereKept ==
  ASSUME IInv, [Next]_vars
  PROVE  OpenedWhere'
<1> SUFFICES ASSUME NEW p \in Processes, pc'[p] = "opened"
             PROVE  RightPath(p, opened[p].path)'
  BY DEF OpenedWhere
<1>1. CASE OpenDump(p)
  <2>1. opened'[p].path = DumpPath(p) BY <1>1 DEF OpenDump, IInv, Types
  <2> QED BY <2>1, PathFacts, Monotone DEF IInv
<1>2. CASE ~OpenDump(p)
  <2>1. pc[p] = "opened" /\ ~WriteDump(p) BY <1>2, Places, Going DEF IInv, Types
  <2>2. opened'[p] = opened[p] BY <1>2, <2>1, Frame DEF Changes
  <2> QED BY <2>1, <2>2, Monotone DEF IInv, OpenedWhere
<1> QED BY <1>1, <1>2

LEMMA NamedWhereKept ==
  ASSUME IInv, [Next]_vars
  PROVE  NamedWhere'
<1> SUFFICES ASSUME NEW p \in Processes, pc'[p] \notin {"off", "started"}
             PROVE  RightPath(p, name[p])'
  BY DEF NamedWhere
<1>1. CASE Look(p)
  <2>1. name'[p] = DumpPath(p) BY <1>1 DEF Look, IInv, Types
  <2> QED BY <2>1, PathFacts, Monotone DEF IInv
<1>2. CASE ~Look(p)
  <2>1. pc[p] \notin {"off", "started"} BY <1>2, Places, Going DEF IInv, Types
  <2>2. name'[p] = name[p] BY <1>2, Frame DEF Changes
  <2> QED BY <2>1, <2>2, Monotone DEF IInv, NamedWhere
<1> QED BY <1>1, <1>2

LEMMA WindowsKept ==
  ASSUME IInv, [Next]_vars
  PROVE  Windows'
<1> SUFFICES ASSUME NEW p \in Processes, NEW q \in Processes, p # q, Showing(p)', About(q)'
             PROVE  Crossed(p, q)'
  BY DEF Windows
<1>1. CASE Showing(p) /\ About(q) BY <1>1, Monotone DEF IInv, Windows
<1>2. CASE ~Showing(p)
  <2>1. Look(p) /\ pc'[p] = "reading"
    BY <1>2, Places, Going DEF Showing, IInv, Types
  <2>2. pc'[q] = pc[q] /\ crossed' =
          crossed \cup {{p, r} : r \in {i \in Processes :
                                      pc[i] \in {"reading", "removing", "handling", "opened"}}}
    BY <2>1 DEF Look, Goes, Crosses, IInv, Types
  <2>3. pc[q] \in {"reading", "removing", "handling", "opened"} BY <2>2 DEF About, Showing
  <2> QED BY <2>2, <2>3 DEF Crossed
<1>3. CASE ~About(q)
  <2>1. pc'[q] \in {"reading", "handling"} /\ (Look(q) \/ Crash(q))
    BY <1>3, Places, Going DEF About, Showing, IInv, Types
  <2>2. pc'[p] = pc[p] BY <2>1 DEF Look, Crash, Goes, IInv, Types
  <2>3. pc[p] \in {"reading", "removing"} BY <2>2 DEF Showing
  <2>4. {q, p} \in crossed'
    <3>1. CASE Look(q) BY <2>1, <2>3, <3>1 DEF Look, Goes, Crosses, IInv, Types
    <3>2. CASE Crash(q) BY <2>3, <3>2 DEF Crash, Crosses
    <3> QED BY <2>1, <3>1, <3>2
  <2>5. {q, p} = {p, q} OBVIOUS
  <2> QED BY <2>4, <2>5 DEF Crossed
<1> QED BY <1>1, <1>2, <1>3

LEMMA OwnFileKept ==
  ASSUME IInv, [Next]_vars
  PROVE  OwnFile'
<1> SUFFICES ASSUME NEW w \in Processes, pc'[w] = "opened", Alone(w)'
             PROVE  disk'[opened'[w].path].id = opened'[w].id
  BY DEF OwnFile
<1>1. Alone(w) BY Monotone DEF Alone
<1>2. CASE OpenDump(w)
  <2> DEFINE q  == DumpPath(w)
             id == IF disk[q] = NoFile THEN <<w, signal[w]>> ELSE disk[q].id
  <2>1. /\ disk' = [disk EXCEPT ![q] = [id |-> id, dumps |-> {}]]
        /\ opened' = [opened EXCEPT ![w] = [path |-> q, id |-> id]]
    BY <1>2 DEF OpenDump
  <2>2. q \in Paths BY PathFacts DEF IInv
  <2> QED BY <2>1, <2>2 DEF IInv, Types
<1>3. CASE ~OpenDump(w)
  <2>1. pc[w] = "opened" /\ ~WriteDump(w) BY <1>3, Places, Going DEF IInv, Types
  <2>2. opened'[w] = opened[w] BY <1>3, <2>1, Frame DEF Changes
  <2>3. disk[opened[w].path].id = opened[w].id BY <1>1, <2>1 DEF IInv, OwnFile
  <2>4. ASSUME NEW p \in Processes, RemoveDump(p) \/ OpenDump(p) \/ WriteDump(p) PROVE FALSE
    <3>1. pc[p] \in {"removing", "handling", "opened"}
      BY <2>4 DEF RemoveDump, OpenDump, WriteDump
    <3>2. p # w BY <2>1, <2>4, <1>3 DEF RemoveDump
    <3>3. p \in Alive /\ w \in Alive BY <2>1, <3>1 DEF Alive
    <3>4. Met(p, w) BY <3>2, <3>3, AliveMet
    <3>5. CASE pc[p] = "removing"
      BY <1>1, <2>1, <3>2, <3>5 DEF Alone, Overlaps, IInv, Windows, Showing, About
    <3>6. CASE pc[p] \in {"handling", "opened"}
      BY <1>1, <3>2, <3>4, <3>6 DEF Alone, Overlaps, IInv, SignalOK
    <3> QED BY <3>1, <3>5, <3>6
  <2> QED BY <2>2, <2>3, <2>4, Frame DEF Changes
<1> QED BY <1>2, <1>3

LEMMA ReportedKept ==
  ASSUME IInv, [Next]_vars
  PROVE  Reported'
<1> SUFFICES ASSUME NEW p \in Processes, NEW w \in reported'[p]
             PROVE  /\ pc'[p] \notin {"off", "started", "reading"}
                    /\ w # p /\ (w < p \/ Met(w, p)')
                    /\ w \notin replaced' => name'[p] = DumpPath(w)'
                    /\ readlink' = "whole" => program'[w] = program'[p]
  BY DEF Reported
<1>1. UNCHANGED <<program, readlink>> BY Frame DEF Changes
<1>2. CASE Report(p)
  <2>1. name[p] \in Paths /\ w \in disk[name[p]].dumps /\ name' = name /\ pc[p] = "reading"
    BY <1>2 DEF Report, IInv, Types
  <2>2. w \in Processes /\ RightPath(w, name[p]) /\ pc[w] \in {"handling", "opened", "ended"}
    BY <2>1 DEF IInv, Types, DumpsWhere
  <2>3. RightPath(p, name[p]) BY <2>1 DEF IInv, NamedWhere
  <2>4. w # p BY <2>1, <2>2
  <2>5. w < p \/ Met(w, p) BY <2>1, <2>2, <2>4, Earlier
  <2>6. readlink = "whole" => program[w] = program[p]
    <3>1. readlink = "whole" => {program[w]} = {program[p]} BY <2>2, <2>3 DEF RightPath
    <3> QED BY <3>1
  <2>7. w \notin replaced' => name[p] = DumpPath(w)' BY <2>2, Monotone DEF RightPath
  <2> QED BY <1>1, <1>2, <2>1, <2>4, <2>5, <2>6, <2>7, Going, Monotone
<1>3. CASE ~Report(p)
  <2>1. w \in reported[p] BY <1>3, Frame DEF Changes
  <2>2. /\ pc[p] \notin {"off", "started", "reading"}
        /\ w # p /\ (w < p \/ Met(w, p))
        /\ w \notin replaced => name[p] = DumpPath(w)
        /\ readlink = "whole" => program[w] = program[p]
    BY <2>1 DEF IInv, Reported
  <2>3. name'[p] = name[p] BY <2>2, Frame DEF Changes, Look
  <2>4. pc'[p] \notin {"off", "started", "reading"} BY <2>2, Places, Going DEF IInv, Types
  <2> QED BY <1>1, <2>2, <2>3, <2>4, Monotone
<1> QED BY <1>2, <1>3

LEMMA RemovingKept ==
  ASSUME IInv, [Next]_vars
  PROVE  Removing'
<1> SUFFICES ASSUME NEW p \in Processes, NEW w \in Processes, pc'[p] = "removing",
                    ~Crossed(p, w)', w \in disk'[name'[p]].dumps
             PROVE  w \in reported'[p]
  BY DEF Removing
<1>1. CASE Report(p) BY <1>1 DEF Report, IInv, Types
<1>2. CASE ~Report(p)
  <2>1. pc[p] = "removing" BY <1>2, Places, Going DEF IInv, Types
  <2>2. name'[p] = name[p] /\ name[p] \in Paths
    BY <2>1, Frame DEF Changes, Look, IInv, Types
  <2>3. ~Crossed(p, w) BY Monotone
  <2>4. ~WriteDump(w)
    BY <2>1, <2>3 DEF WriteDump, IInv, Windows, Showing, About
  <2>5. w \in disk[name[p]].dumps BY <2>2, <2>4, DumpsGrow
  <2>6. w \in reported[p] BY <2>1, <2>3, <2>5 DEF IInv, Removing
  <2> QED BY <2>6, Monotone
<1> QED BY <1>1, <1>2

LEMMA ConsumedKept ==
  ASSUME IInv, [Next]_vars
  PROVE  Consumed'
<1> SUFFICES ASSUME NEW p \in Processes, NEW w \in Processes, LookedShowed(p)',
                    w < p, ~Met(w, p)', w \in disk'[name'[p]].dumps
             PROVE  FALSE
  BY DEF Consumed
<1>1. pc'[p] \in {"running", "handling", "opened", "ended"} BY DEF LookedShowed
<1>2. pc[p] # "off" BY <1>1, Places, Going
<1>3. pc[w] = "ended" BY <1>2, Monotone DEF IInv, Order
<1>4. CASE Look(p)
  <2>1. /\ pc' = [pc EXCEPT ![p] = IF disk[DumpPath(p)] = NoFile THEN "running" ELSE "reading"]
        /\ name' = [name EXCEPT ![p] = DumpPath(p)] /\ disk' = disk
    BY <1>4 DEF Look, Goes
  <2>2. disk[DumpPath(p)] = NoFile BY <1>1, <2>1 DEF IInv, Types
  <2>3. name'[p] = DumpPath(p) BY <2>1 DEF IInv, Types
  <2> QED BY <2>1, <2>2, <2>3 DEF NoFile
<1>5. CASE RemoveDump(p)
  <2>1. disk'[name[p]] = NoFile /\ name' = name BY <1>5 DEF RemoveDump, IInv, Types
  <2> QED BY <2>1 DEF NoFile
<1>6. CASE ~Look(p) /\ ~RemoveDump(p)
  <2>1. pc[p] \in {"running", "handling", "opened", "ended"}
    BY <1>1, <1>6, Places, Going DEF IInv, Types
  <2>2. name'[p] = name[p] /\ name[p] \in Paths BY <1>6, Frame DEF Changes, IInv, Types
  <2>3. w \in disk[name[p]].dumps BY <1>3, <2>2, DumpsGrow DEF WriteDump
  <2> QED BY <2>1, <2>3, Monotone DEF IInv, Consumed, LookedShowed
<1> QED BY <1>4, <1>5, <1>6

LEMMA ReportedOverKept ==
  ASSUME IInv, [Next]_vars
  PROVE  ReportedOver'
<1> SUFFICES ASSUME NEW p \in Processes, NEW w \in Processes, w \in reported'[p], ~Crossed(p, w)'
             PROVE  /\ pc'[w] = "ended"
                    /\ LookedShowed(p)' => w \notin disk'[name'[p]].dumps
  BY DEF ReportedOver
<1>1. ~Crossed(p, w) BY Monotone
<1>2. CASE Report(p)
  <2>1. /\ pc[p] = "reading" /\ pc'[p] = "removing" /\ name[p] \in Paths
        /\ reported' = [reported EXCEPT ![p] = disk[name[p]].dumps]
    BY <1>2, Going DEF Report, IInv, Types
  <2>2. w \in disk[name[p]].dumps BY <2>1 DEF IInv, Types
  <2>3. pc[w] \in {"handling", "opened", "ended"} BY <2>1, <2>2 DEF IInv, DumpsWhere
  <2>4. pc[w] = "ended" BY <1>1, <2>1, <2>3 DEF IInv, Windows, Showing, About
  <2> QED BY <2>1, <2>4, Places DEF LookedShowed
<1>3. CASE ~Report(p)
  <2>1. w \in reported[p] BY <1>3, Frame DEF Changes
  <2>2. pc[w] = "ended" /\ (LookedShowed(p) => w \notin disk[name[p]].dumps)
    BY <1>1, <2>1 DEF IInv, ReportedOver
  <2>3. pc[p] \notin {"off", "started", "reading"} BY <2>1 DEF IInv, Reported
  <2>4. name'[p] = name[p] /\ name[p] \in Paths
    BY <2>3, Frame DEF Changes, Look, IInv, Types
  <2>5. ASSUME LookedShowed(p)' PROVE w \notin disk'[name[p]].dumps
    <3>1. CASE RemoveDump(p) BY <2>4, <3>1 DEF RemoveDump, NoFile, IInv, Types
    <3>2. CASE ~RemoveDump(p)
      <4>1. pc[p] # "removing" BY <2>5, <3>2, Places DEF LookedShowed
      <4>2. LookedShowed(p) BY <2>3, <4>1 DEF LookedShowed, IInv, Types
      <4> QED BY <2>2, <2>4, <4>2, DumpsGrow DEF WriteDump
    <3> QED BY <3>1, <3>2
  <2> QED BY <2>2, <2>4, <2>5, Places
<1> QED BY <1>2, <1>3

\* The second report of a dump: whoever reported it first has removed it since
\* from where alone it could be, and its process had ended.
LEMMA SecondReport ==
  ASSUME IInv, [Next]_vars, NEW w \in Processes, NEW p \in Processes, NEW q \in Processes,
         p # q, Report(q), w \in reported'[p], w \in reported'[q]
  PROVE  (Crossed(p, q) \/ Crossed(p, w) \/ Crossed(q, w) \/ w \in replaced)'
<1> SUFFICES ASSUME ~Crossed(p, q), ~Crossed(p, w), ~Crossed(q, w), w \notin replaced'
             PROVE  FALSE
  BY Monotone
<1>1. w \notin replaced BY Monotone
<1>2. /\ pc[q] = "reading" /\ name[q] \in Paths
      /\ reported' = [reported EXCEPT ![q] = disk[name[q]].dumps]
  BY DEF Report, IInv, Types
<1>3. w \in reported[p] /\ w \in disk[name[q]].dumps BY <1>2 DEF IInv, Types
<1>4. pc[p] \notin {"off", "started", "reading"} /\ name[p] = DumpPath(w)
  BY <1>1, <1>3 DEF IInv, Reported
<1>5. name[q] = DumpPath(w) BY <1>1, <1>2, <1>3 DEF IInv, DumpsWhere, RightPath
<1>6. pc[p] # "removing" BY <1>2 DEF IInv, Windows, Showing, About
<1>7. LookedShowed(p) BY <1>4, <1>6 DEF LookedShowed, IInv, Types
<1>8. w \notin disk[name[p]].dumps BY <1>3, <1>7 DEF IInv, ReportedOver
<1> QED BY <1>3, <1>4, <1>5, <1>8

LEMMA NotTwiceKept ==
  ASSUME IInv, [Next]_vars
  PROVE  NotTwice'
<1> SUFFICES ASSUME NEW w \in Processes, NEW p \in Processes, NEW q \in Processes,
                    p # q, w \in reported'[p], w \in reported'[q]
             PROVE  (Crossed(p, q) \/ Crossed(p, w) \/ Crossed(q, w) \/ w \in replaced)'
  BY DEF NotTwice
<1>1. CASE Report(q) BY <1>1, SecondReport
<1>2. CASE Report(p)
  <2>1. (Crossed(q, p) \/ Crossed(q, w) \/ Crossed(p, w) \/ w \in replaced)' BY <1>2, SecondReport
  <2>2. Crossed(q, p)' => Crossed(p, q)'
    <3>1. {q, p} = {p, q} OBVIOUS
    <3> QED BY <3>1 DEF Crossed
  <2> QED BY <2>1, <2>2
<1>3. CASE ~Report(p) /\ ~Report(q)
  <2>1. w \in reported[p] /\ w \in reported[q] BY <1>3, Frame DEF Changes
  <2>2. Crossed(p, q) \/ Crossed(p, w) \/ Crossed(q, w) \/ w \in replaced
    BY <2>1 DEF IInv, NotTwice
  <2> QED BY <2>2, Monotone
<1> QED BY <1>1, <1>2, <1>3

LEMMA NotLostKept ==
  ASSUME IInv, [Next]_vars
  PROVE  NotLost'
<1> SUFFICES ASSUME NEW w \in Processes, pc'[w] = "ended", signal'[w] # "none",
                    \A p \in Processes : w \notin reported'[p] /\ ~Overlaps(p, w)'
             PROVE  OnDisk(w)'
  BY DEF NotLost
<1>1. \A p \in Processes : w \notin reported[p] /\ ~Overlaps(p, w)
  BY Monotone
<1>2. CASE pc[w] = "ended"
  <2>1. signal'[w] = signal[w] BY <1>2, Frame DEF Changes, Crash, WriteDump
  <2>2. PICK q \in Paths : w \in disk[q].dumps BY <1>1, <1>2, <2>1 DEF IInv, NotLost, OnDisk
  <2>3. ASSUME NEW p \in Processes, RemoveDump(p) PROVE w \in disk'[q].dumps
    <3>1. pc[p] = "removing" /\ disk' = [disk EXCEPT ![name[p]] = NoFile]
      BY <2>3 DEF RemoveDump
    <3>2. q # name[p] BY <1>1, <2>2, <3>1 DEF IInv, Removing, Overlaps
    <3> QED BY <2>2, <3>1, <3>2 DEF IInv, Types
  <2>4. ASSUME NEW p \in Processes, OpenDump(p) PROVE w \in disk'[q].dumps
    <3>1. pc[p] = "handling" /\ signal[p] # "none" BY <2>4 DEF OpenDump, IInv, SignalOK
    <3>2. w # p BY <1>2, <3>1
    <3>3. ~Met(w, p) /\ p \notin replaced BY <1>1, <3>1, <3>2, MetSymmetric DEF Overlaps
    <3>4. w < p BY <1>2, <3>1, <3>2, <3>3, Earlier
    <3>5. w \notin disk[name[p]].dumps BY <3>1, <3>3, <3>4 DEF IInv, Consumed, LookedShowed
    <3>6. name[p] = DumpPath(p) BY <3>1, <3>3 DEF IInv, NamedWhere, RightPath
    <3>7. q # DumpPath(p) BY <2>2, <3>5, <3>6
    <3>8. \E f : disk' = [disk EXCEPT ![DumpPath(p)] = f] BY <2>4 DEF OpenDump
    <3> QED BY <2>2, <3>7, <3>8 DEF IInv, Types
  <2>5. ASSUME NEW p \in Processes, WriteDump(p) PROVE w \in disk'[q].dumps
    BY <2>2, <2>5 DEF WriteDump, Written, IInv, Types
  <2>6. w \in disk'[q].dumps BY <2>2, <2>3, <2>4, <2>5, Frame DEF Changes
  <2> QED BY <2>6 DEF OnDisk
<1>3. CASE Exit(w)
  <2>1. signal'[w] = "none" BY <1>3 DEF Exit, IInv, SignalOK
  <2> QED BY <2>1
<1>4. CASE WriteDump(w)
  <2> DEFINE q == opened[w].path
  <2>1. disk[q].id = opened[w].id /\ q \in Paths
    BY <1>1, <1>4 DEF WriteDump, IInv, OwnFile, Alone, Types
  <2>2. disk' = [disk EXCEPT ![q].dumps = @ \cup {w}] BY <1>4, <2>1 DEF WriteDump, Written
  <2>3. w \in disk'[q].dumps BY <2>1, <2>2 DEF IInv, Types
  <2> QED BY <2>1, <2>3 DEF OnDisk
<1> QED BY <1>2, <1>3, <1>4, Places, Going DEF IInv, Types

-----------------------------------------------------------------------------
LEMMA Inductive == Spec => []IInv
<1>1. ASSUME IInv, [Next]_vars PROVE IInv'
  BY <1>1, TypesKept, PairsKept, OrderKept, SignalKept, DumpsWhereKept, OpenedWhereKept,
     NamedWhereKept, WindowsKept, OwnFileKept, ReportedKept, RemovingKept, ConsumedKept,
     ReportedOverKept, NotTwiceKept, NotLostKept DEF IInv
<1> QED BY InitHolds, <1>1, PTL DEF Spec

\* TypeOK: whatever the processes do to one another's files, every variable
\* keeps its type, and a process has a dump in a file only once its handler
\* (safe_dump_to) has opened one.
THEOREM TypeCorrect == Spec => []TypeOK
<1>1. IInv => TypeOK BY DEF IInv, Types, Pairs, DumpsWhere, TypeOK
<1> QED BY Inductive, <1>1, PTL

\* ReportsOwnProgram: what show_last_dump() reports is a crash of the same
\* program, unless readlink() fails or fills program_location()'s buffer.
THEOREM ReportsOwnProgramHolds == Spec => []ReportsOwnProgram
<1>1. IInv => ReportsOwnProgram BY DEF IInv, Types, Reported, ReportsOwnProgram
<1> QED BY Inductive, <1>1, PTL

\* OnlyCompanyDisturbs: exists(), the report and remove() of show_last_dump()
\* and the O_TRUNC open of safe_dump_to() are steps that other processes
\* interleave. A dump is reported twice only where two of the three processes
\* were in these windows together or its own wrote under two names, and it is
\* lost unreported only where another was in them with its process, or crashed.
THEOREM OnlyCompanyDisturbsHolds == Spec => []OnlyCompanyDisturbs
<1>1. IInv => OnlyCompanyDisturbs BY DEF IInv, NotTwice, NotLost, OnlyCompanyDisturbs
<1> QED BY Inductive, <1>1, PTL

\* EarlierIsConsumed: once show_last_dump() has returned, no dump of a process
\* that ended before this one began lies under the path it looked at, and one
\* of its own program lies elsewhere only because an executable was replaced,
\* so that _get_dump_path() named another file.
THEOREM EarlierIsConsumedHolds == Spec => []EarlierIsConsumed
<1>1. ASSUME IInv PROVE EarlierIsConsumed
  <2> SUFFICES ASSUME NEW p \in Processes, NEW q \in Paths, NEW w \in disk[q].dumps,
                      w < p, ~Met(w, p), LookedShowed(p)
               PROVE  /\ q # name[p]
                      /\ program[w] = program[p] => {p, w} \cap replaced # {}
    BY DEF EarlierIsConsumed
  <2>1. w \in Processes BY <1>1 DEF IInv, Types
  <2>2. q # name[p] BY <1>1, <2>1 DEF IInv, Consumed
  <2>3. ASSUME program[w] = program[p], p \notin replaced, w \notin replaced PROVE FALSE
    <3>1. DumpPath(p) = DumpPath(w) BY <1>1, <2>1, <2>3, PathFacts DEF IInv
    <3>2. name[p] = DumpPath(p) BY <1>1, <2>3 DEF IInv, NamedWhere, RightPath, LookedShowed
    <3>3. q = DumpPath(w) BY <1>1, <2>3 DEF IInv, DumpsWhere, RightPath
    <3> QED BY <2>2, <3>1, <3>2, <3>3
  <2> QED BY <2>2, <2>3
<1> QED BY Inductive, <1>1, PTL
=============================================================================
