----------------------- MODULE TimeoutProviderProofs -----------------------
(***************************************************************************)
(* Proofs, for every MaxOps, of the invariants of TimeoutProvider and of   *)
(* the safety half of its refinement of TimedOperation.                    *)
(***************************************************************************)
EXTENDS TimeoutProvider, TLAPS

(* Facts about the queue.                                                  *)

LEMMA ElemsOfConcat ==
  ASSUME NEW S, NEW s \in Seq(S), NEW t \in Seq(S)
  PROVE  s \o t \in Seq(S) /\ Elems(s \o t) = Elems(s) \cup Elems(t)
<1>1. s \o t \in Seq(S) OBVIOUS
<1>2. Elems(s \o t) \subseteq Elems(s) \cup Elems(t)
  <2> SUFFICES ASSUME NEW i \in 1..(Len(s) + Len(t))
               PROVE  (s \o t)[i] \in Elems(s) \cup Elems(t)
    BY DEF Elems
  <2>1. CASE i <= Len(s) BY <2>1 DEF Elems
  <2>2. CASE i > Len(s)
    <3>1. i - Len(s) \in 1..Len(t) /\ (s \o t)[i] = t[i - Len(s)] BY <2>2
    <3> QED BY <3>1 DEF Elems
  <2> QED BY <2>1, <2>2
<1>3. Elems(s) \subseteq Elems(s \o t)
  <2> SUFFICES ASSUME NEW i \in 1..Len(s) PROVE s[i] \in Elems(s \o t)
    BY DEF Elems
  <2>1. i \in 1..Len(s \o t) /\ (s \o t)[i] = s[i] OBVIOUS
  <2> QED BY <2>1 DEF Elems
<1>4. Elems(t) \subseteq Elems(s \o t)
  <2> SUFFICES ASSUME NEW i \in 1..Len(t) PROVE t[i] \in Elems(s \o t)
    BY DEF Elems
  <2>1. i + Len(s) \in 1..Len(s \o t) /\ (s \o t)[i + Len(s)] = t[i] OBVIOUS
  <2> QED BY <2>1 DEF Elems
<1> QED BY <1>1, <1>2, <1>3, <1>4

LEMMA ElemsOfSingleton ==
  ASSUME NEW S, NEW e \in S
  PROVE  <<e>> \in Seq(S) /\ Elems(<<e>>) = {e}
BY DEF Elems

LEMMA ElemsOfEmpty == ASSUME NEW S PROVE <<>> \in Seq(S) /\ Elems(<<>>) = {}
BY DEF Elems

LEMMA ElemsOfTail ==
  ASSUME NEW S, NEW s \in Seq(S), s # <<>>
  PROVE  /\ Tail(s) \in Seq(S) /\ Head(s) \in S
         /\ Elems(s) = {Head(s)} \cup Elems(Tail(s))
<1>1. Tail(s) \in Seq(S) /\ Head(s) \in S OBVIOUS
<1>2. Elems(s) \subseteq {Head(s)} \cup Elems(Tail(s))
  <2> SUFFICES ASSUME NEW i \in 1..Len(s) PROVE s[i] \in {Head(s)} \cup Elems(Tail(s))
    BY DEF Elems
  <2>1. CASE i = 1 BY <2>1
  <2>2. CASE i # 1
    <3>1. i - 1 \in DOMAIN Tail(s) /\ Tail(s)[i - 1] = s[i] BY <2>2
    <3>2. Tail(s)[i - 1] \in Elems(Tail(s)) BY <3>1 DEF Elems
    <3> QED BY <3>1, <3>2
  <2> QED BY <2>1, <2>2
<1>3. Elems(Tail(s)) \subseteq Elems(s)
  <2> SUFFICES ASSUME NEW i \in 1..Len(Tail(s)) PROVE Tail(s)[i] \in Elems(s)
    BY DEF Elems
  <2>1. i + 1 \in 1..Len(s) /\ Tail(s)[i] = s[i + 1] OBVIOUS
  <2> QED BY <2>1 DEF Elems
<1>4. Head(s) \in Elems(s) BY DEF Elems
<1> QED BY <1>1, <1>2, <1>3, <1>4

-----------------------------------------------------------------------------
(* The inductive invariant: the properties, and what they rest on.         *)

Started    == phase # "idle" => op # 0
OlderOps   == waiting.op <= op /\ \A e \in Elems(ready) : e.op <= op
SlotIsTaken == phase = "pending" /\ child /\ ~adapted => forward
ForwardIsParent == forward => parent

IsBinder(e)     == e.stage = "binder"
NoBinder(s)     == \A i \in DOMAIN s : ~IsBinder(s[i])
AtMostOneBinder(s) == \A i, j \in DOMAIN s : IsBinder(s[i]) /\ IsBinder(s[j]) => i = j

\* The one completion of the operation is in the queue only while it is queued,
\* and an aborted one answers a request.
BinderAnswers(e) ==
  IsBinder(e) => phase = "queued" /\ (e.ec = "aborted" => requested \cap honours # {})
OneCompletion ==
  AtMostOneBinder(ready) /\ \A e \in Elems(ready) : BinderAnswers(e)

EscalatesInv ==
  /\ waiting # NoWait /\ waiting.op = op => WeakerFirst[waiting.stage] \subseteq requested
  /\ \A e \in Expired : e.op = op => WeakerFirst[e.stage] \subseteq requested

IInv ==
  /\ TypeOK /\ Started /\ OlderOps
  /\ TimeoutStillComing /\ FiredIsDelivered
  /\ ParentIsHeard /\ SlotIsTaken
  /\ NoDanglingForward /\ ForwardIsParent
  /\ OneCompletion /\ EscalatesInv

-----------------------------------------------------------------------------
(* What the timer and the signal put in the queue.                         *)

LEMMA TimerQueuesAborted ==
  ASSUME TypeOK
  PROVE  /\ TimerQueues \in Seq(Completions)
         /\ \A e \in Elems(TimerQueues) :
              waiting # NoWait /\ e = Completed(waiting, "aborted")
<1>1. CASE waiting = NoWait
  <2>1. TimerQueues = <<>> BY <1>1 DEF TimerQueues
  <2> QED BY <2>1, ElemsOfEmpty
<1>2. CASE waiting # NoWait
  <2>1. waiting \in Waits BY <1>2 DEF TypeOK
  <2>2. Completed(waiting, "aborted") \in Completions
    BY <2>1 DEF Completed, Completions, Waits
  <2>3. TimerQueues = <<Completed(waiting, "aborted")>> BY <1>2 DEF TimerQueues
  <2> QED BY <1>2, <2>2, <2>3, ElemsOfSingleton
<1> QED BY <1>1, <1>2

LEMMA BinderIsCompletion ==
  ASSUME TypeOK, Started, phase = "pending", NEW ec \in {"ok", "aborted"}
  PROVE  Binder(ec) \in Completions
<1>1. op \in 1..MaxOps BY MaxOpsAssumption DEF TypeOK, Started
<1> QED BY <1>1 DEF Binder, Completions

LEMMA EmitQueuesBinder ==
  ASSUME TypeOK, Started, NEW ct
  PROVE  /\ EmitQueues(ct) \in Seq(Completions)
         /\ \A e \in Elems(EmitQueues(ct)) : Cancels(ct) /\ e = Binder("aborted")
<1>1. CASE Cancels(ct)
  <2>1. Binder("aborted") \in Completions BY <1>1, BinderIsCompletion DEF Cancels
  <2>2. EmitQueues(ct) = <<Binder("aborted")>> BY <1>1 DEF EmitQueues
  <2> QED BY <1>1, <2>1, <2>2, ElemsOfSingleton
<1>2. CASE ~Cancels(ct)
  <2>1. EmitQueues(ct) = <<>> BY <1>2 DEF EmitQueues
  <2> QED BY <2>1, ElemsOfEmpty
<1> QED BY <1>1, <1>2

-----------------------------------------------------------------------------
(* What a step does to the set of queued completions.                      *)

\* A step adds the one completion of a pending operation, or the outcome of
\* the outstanding wait, which is a success only when the timer expires ...
AddsBinder(e) ==
  /\ IsBinder(e) /\ phase = "pending" /\ phase' = "queued" /\ e.op = op
  /\ e.ec = "aborted" => requested' \cap honours # {}
AddsWait(e) ==
  /\ waiting # NoWait /\ e.stage = waiting.stage /\ e.op = waiting.op
  /\ e.ec = "ok" => TimerExpires
Adds(e) == AddsBinder(e) \/ AddsWait(e)

\* ... and takes at most the head away.
QueueChange ==
  /\ ready' \in Seq(Completions)
  /\ \A e \in Elems(ready') : e \in Elems(ready) \/ Adds(e)
  /\ \A e \in Elems(ready) : e \in Elems(ready') \/ (ready # <<>> /\ e = Head(ready))

\* The four fire_*() share two shapes.
Fired == {{"total"}, {"partial"}, {"terminal"}, Bits}
FiresLast     == \E stage \in Stages, ct \in Fired : FireLast(stage, ct)
FiresThenWait == \E stage, next \in Stages, ct \in Fired : FireThenWait(stage, ct, next)

LEMMA FiresByShape ==
  /\ FireAll => FiresLast
  /\ FireTerminal => FiresLast
  /\ FireTotal => FiresThenWait
  /\ FirePartial => FiresThenWait
BY DEF FireAll, FireTerminal, FireTotal, FirePartial, FiresLast, FiresThenWait, Fired, Stages

LEMMA CancelAddsBinder ==
  ASSUME NEW ct, Emit(ct), Cancels(ct)
  PROVE  AddsBinder(Binder("aborted"))
BY DEF Emit, Cancels, AddsBinder, IsBinder, Binder

LEMMA QueueGrows ==
  ASSUME TypeOK, NEW s \in Seq(Completions), NEW t \in Seq(Completions),
         s = ready \/ (ready # <<>> /\ s = Tail(ready)),
         ready' = s \o t,
         \A e \in Elems(t) : Adds(e)
  PROVE  QueueChange
<1>0. ready \in Seq(Completions) BY DEF TypeOK
<1>1. ready' \in Seq(Completions) /\ Elems(ready') = Elems(s) \cup Elems(t)
  <2>1. s \o t \in Seq(Completions) /\ Elems(s \o t) = Elems(s) \cup Elems(t)
    BY ElemsOfConcat
  <2> QED BY <2>1
<1>2. CASE s = ready BY <1>1, <1>2 DEF QueueChange
<1>3. CASE ready # <<>> /\ s = Tail(ready)
  <2>1. Elems(ready) = {Head(ready)} \cup Elems(s) BY <1>0, <1>3, ElemsOfTail
  <2> QED BY <1>1, <1>3, <2>1 DEF QueueChange
<1> QED BY <1>2, <1>3

LEMMA QueueStep ==
  ASSUME TypeOK, Started, [Next]_vars
  PROVE  QueueChange
<1>0. ready \in Seq(Completions) BY DEF TypeOK
<1>h. ready # <<>> => Tail(ready) \in Seq(Completions) BY <1>0
<1>a. ASSUME ready' = ready PROVE QueueChange BY <1>0, <1>a DEF QueueChange
<1>t. TimerQueues \in Seq(Completions) /\ \A e \in Elems(TimerQueues) : Adds(e)
  BY TimerQueuesAborted DEF Adds, AddsWait, Completed
<1>e. ASSUME NEW ct, Emit(ct)
      PROVE EmitQueues(ct) \in Seq(Completions) /\ \A e \in Elems(EmitQueues(ct)) : Adds(e)
  BY <1>e, EmitQueuesBinder, CancelAddsBinder DEF Adds
<1>1. ASSUME NEW c \in BOOLEAN, NEW a \in BOOLEAN, NEW h \in SUBSET Bits, Initiate(c, a, h)
      PROVE QueueChange
  BY <1>0, <1>t, <1>1, QueueGrows DEF Initiate, Arm
<1>2. ASSUME NEW ct, ParentEmits(ct) PROVE QueueChange
  <2>1. CASE forward
    <3>1. Emit(ct) /\ ready' = ready \o EmitQueues(ct) BY <1>2, <2>1 DEF ParentEmits
    <3> QED BY <1>0, <1>e, <3>1, QueueGrows
  <2>2. CASE ~forward BY <1>2, <1>a, <2>2 DEF ParentEmits
  <2> QED BY <2>1, <2>2
<1>3. CASE Destroy BY <1>0, <1>t, <1>3, QueueGrows DEF Destroy
<1>4. CASE OperationFinishes
  <2>1. Binder("ok") \in Completions BY <1>4, BinderIsCompletion DEF OperationFinishes
  <2>2. ready' = ready \o <<Binder("ok")>> BY <1>0, <1>4, <2>1 DEF OperationFinishes
  <2>3. Adds(Binder("ok"))
    BY <1>4 DEF OperationFinishes, Adds, AddsBinder, IsBinder, Binder
  <2>4. <<Binder("ok")>> \in Seq(Completions) /\ Elems(<<Binder("ok")>>) = {Binder("ok")}
    BY <2>1, ElemsOfSingleton
  <2> QED BY <1>0, <2>2, <2>3, <2>4, QueueGrows
<1>5. CASE TimerExpires
  <2>1. Completed(waiting, "ok") \in Completions
    BY <1>5 DEF TimerExpires, TypeOK, Waits, Completed, Completions
  <2>2. ready' = ready \o <<Completed(waiting, "ok")>> BY <1>0, <1>5, <2>1 DEF TimerExpires
  <2>3. Adds(Completed(waiting, "ok")) BY <1>5 DEF TimerExpires, Adds, AddsWait, Completed
  <2> DEFINE e == Completed(waiting, "ok")
  <2>4. <<e>> \in Seq(Completions) /\ Elems(<<e>>) = {e} BY <2>1, ElemsOfSingleton
  <2> QED BY <1>0, <2>2, <2>3, <2>4, QueueGrows
<1>6. CASE RunBinder
  <2>1. ready # <<>> /\ ready' = Tail(ready) \o TimerQueues BY <1>6 DEF RunBinder, Running
  <2> QED BY <1>h, <1>t, <2>1, QueueGrows
<1>7. CASE SkipAborted
  <2>1. ready # <<>> /\ ready' = Tail(ready) BY <1>7 DEF SkipAborted, Running
  <2>2. Elems(ready) = {Head(ready)} \cup Elems(ready') BY <1>0, <2>1, ElemsOfTail
  <2> QED BY <1>h, <2>1, <2>2 DEF QueueChange
<1>8. CASE FiresLast
  <2>1. PICK ct \in Fired : ready # <<>> /\ Emit(ct) /\ ready' = Tail(ready) \o EmitQueues(ct)
    BY <1>8 DEF FiresLast, FireLast, Running
  <2> QED BY <1>h, <1>e, <2>1, QueueGrows
<1>9. CASE FiresThenWait
  <2>1. PICK ct \in Fired :
          ready # <<>> /\ Emit(ct) /\ ready' = Tail(ready) \o (EmitQueues(ct) \o TimerQueues)
    BY <1>9 DEF FiresThenWait, FireThenWait, Running
  <2> DEFINE new == EmitQueues(ct) \o TimerQueues
  <2>2. new \in Seq(Completions) /\ Elems(new) = Elems(EmitQueues(ct)) \cup Elems(TimerQueues)
    <3>1. EmitQueues(ct) \in Seq(Completions) BY <1>e, <2>1
    <3> QED BY <1>t, <3>1, ElemsOfConcat
  <2>3. \A e \in Elems(new) : Adds(e) BY <1>t, <1>e, <2>1, <2>2
  <2> HIDE DEF new
  <2>4. ready # <<>> /\ ready' = Tail(ready) \o new BY <2>1 DEF new
  <2> QED BY <1>h, <2>2, <2>3, <2>4, QueueGrows
<1>10. CASE FireDangling \/ Ended \/ UNCHANGED vars
  BY <1>10, <1>a DEF FireDangling, Ended, vars
<1> QED
  BY <1>1, <1>2, <1>3, <1>4, <1>5, <1>6, <1>7, <1>8, <1>9, <1>10, FiresByShape
  DEF Next, RunHandler

-----------------------------------------------------------------------------
(* Each part of the invariant is preserved.                                *)

LEMMA QueueHead ==
  ASSUME TypeOK, ready # <<>>
  PROVE  Head(ready) \in Completions /\ Head(ready) \in Elems(ready)
<1>1. ready \in Seq(Completions) BY DEF TypeOK
<1> QED BY <1>1, ElemsOfTail

LEMMA TypeStep ==
  ASSUME TypeOK, Started, [Next]_vars
  PROVE  TypeOK'
<1>0. ready' \in Seq(Completions) BY QueueStep DEF QueueChange
<1> USE DEF TypeOK
<1>e. ASSUME NEW ct \in SUBSET Bits, Emit(ct)
      PROVE requested' \subseteq Bits /\ phase' \in {"idle", "pending", "queued"}
  BY <1>e DEF Emit
<1>f. Fired \subseteq SUBSET Bits BY DEF Fired, Bits
<1>1. ASSUME NEW c \in BOOLEAN, NEW a \in BOOLEAN, NEW h \in SUBSET Bits, Initiate(c, a, h)
      PROVE TypeOK'
  <2>1. op' \in 1..MaxOps BY <1>1, MaxOpsAssumption DEF Initiate
  <2>2. waiting' \in Waits BY <1>1, <2>1 DEF Initiate, Arm, Waits, Stages
  <2>3. op' \in 0..MaxOps BY <2>1, MaxOpsAssumption
  <2> QED BY <1>0, <1>1, <2>2, <2>3 DEF Initiate, Arm, Slot
<1>2. ASSUME NEW ct \in SUBSET Bits, ParentEmits(ct) PROVE TypeOK'
  BY <1>0, <1>e, <1>2 DEF ParentEmits, provider, client
<1>3. CASE Destroy BY <1>0, <1>3 DEF Destroy, client
<1>4. CASE OperationFinishes BY <1>0, <1>4 DEF OperationFinishes, provider, client
<1>5. CASE TimerExpires BY <1>0, <1>5 DEF TimerExpires, provider, client
<1>6. CASE RunBinder BY <1>0, <1>6 DEF RunBinder, client
<1>7. CASE SkipAborted BY <1>0, <1>7 DEF SkipAborted, provider, client
<1>8. CASE FiresLast BY <1>0, <1>e, <1>f, <1>8 DEF FiresLast, FireLast, client, Fired
<1>9. CASE FiresThenWait
  <2>1. PICK stage \in Stages, next \in Stages, ct \in Fired : FireThenWait(stage, ct, next)
    BY <1>9 DEF FiresThenWait
  <2>2. ready # <<>> BY <2>1 DEF FireThenWait, Running
  <2>3. waiting' \in Waits BY <2>1, <2>2, QueueHead DEF FireThenWait, Waits, Completions
  <2> QED BY <1>0, <1>e, <1>f, <2>1, <2>3 DEF FireThenWait, client, Fired
<1>10. CASE FireDangling BY <1>0, <1>10 DEF FireDangling, client
<1>11. CASE Ended \/ UNCHANGED vars BY <1>0, <1>11 DEF Ended, vars, provider, client
<1>12. {{b} : b \in Bits} \cup {Bits} \subseteq SUBSET Bits OBVIOUS
<1> QED
  BY <1>1, <1>2, <1>3, <1>4, <1>5, <1>6, <1>7, <1>8, <1>9, <1>10, <1>11, <1>12, FiresByShape
  DEF Next, RunHandler

\* What one step of the system is, seen from the operation: it starts, it
\* completes, a signal is emitted on it, or nothing happens to it.
Unaffected == UNCHANGED <<op, phase, honours, requested, result>>
Starts     == /\ phase = "idle" /\ phase' = "pending" /\ op' = op + 1
              /\ requested' = {} /\ last_fired' = {} /\ UNCHANGED result
              /\ waiting' = [stage |-> "total", op |-> op'] /\ honours' \subseteq Bits
Queued     == /\ phase = "pending" /\ phase' = "queued"
              /\ UNCHANGED <<op, honours, requested, result>>
Completes  == phase' = "idle" /\ UNCHANGED <<op, honours, requested>>
Emits      == \E ct \in SUBSET Bits : Emit(ct) /\ UNCHANGED <<op, honours, result>>

LEMMA OperationStep ==
  ASSUME TypeOK, [Next]_vars
  PROVE  \/ Unaffected \/ Queued \/ Starts \/ Emits
         \/ RunBinder /\ Completes
<1> USE DEF Unaffected, Queued, Starts, Emits, Completes, vars, provider, client
<1>f. Fired \subseteq SUBSET Bits BY DEF Fired, Bits
<1>1. ASSUME NEW c \in BOOLEAN, NEW a \in BOOLEAN, NEW h \in SUBSET Bits, Initiate(c, a, h)
      PROVE Starts
  BY <1>1 DEF Initiate, Arm
<1>2. ASSUME NEW ct \in SUBSET Bits, ParentEmits(ct) PROVE Emits \/ Unaffected
  BY <1>2 DEF ParentEmits
<1>3. CASE Destroy \/ TimerExpires \/ SkipAborted \/ FireDangling \/ Ended \/ UNCHANGED vars
  BY <1>3 DEF Destroy, TimerExpires, SkipAborted, FireDangling, Ended
<1>4. CASE OperationFinishes BY <1>4 DEF OperationFinishes
<1>5. CASE RunBinder BY <1>5 DEF RunBinder
<1>6. CASE FiresLast BY <1>f, <1>6 DEF FiresLast, FireLast
<1>7. CASE FiresThenWait BY <1>f, <1>7 DEF FiresThenWait, FireThenWait
<1>8. {{b} : b \in Bits} \cup {Bits} \subseteq SUBSET Bits OBVIOUS
<1> QED
  BY <1>1, <1>2, <1>3, <1>4, <1>5, <1>6, <1>7, <1>8, FiresByShape DEF Next, RunHandler

LEMMA StartedStep ==
  ASSUME TypeOK, Started, OlderOps, [Next]_vars
  PROVE  Started' /\ OlderOps'
<1>0. op \in Nat BY MaxOpsAssumption DEF TypeOK
<1>1. Started' /\ op' \in {op, op + 1}
  BY <1>0, OperationStep
  DEF Unaffected, Queued, Starts, Emits, Emit, Cancels, Completes, Started
<1>2. waiting'.op <= op'
  <2>1. ASSUME NEW c \in BOOLEAN, NEW a \in BOOLEAN, NEW h \in SUBSET Bits, Initiate(c, a, h)
        PROVE waiting'.op <= op'
    BY <1>0, <2>1 DEF Initiate, Arm
  <2>2. ASSUME NEW ct, ParentEmits(ct) PROVE waiting'.op <= op'
    BY <2>2 DEF ParentEmits, OlderOps, client
  <2>3. CASE Destroy \/ TimerExpires \/ RunBinder
    BY <1>0, <2>3 DEF Destroy, TimerExpires, RunBinder, client, NoWait
  <2>4. CASE OperationFinishes \/ SkipAborted \/ FireDangling \/ Ended \/ FiresLast \/ UNCHANGED vars
    BY <2>4 DEF OperationFinishes, SkipAborted, FireDangling, Ended, FiresLast, FireLast,
                OlderOps, vars, client
  <2>5. CASE FiresThenWait
    BY <2>5, QueueHead DEF FiresThenWait, FireThenWait, Running, OlderOps, client
  <2> QED
    BY <2>1, <2>2, <2>3, <2>4, <2>5, FiresByShape DEF Next, RunHandler
<1>3. ASSUME NEW e \in Elems(ready') PROVE e.op <= op'
  <2>1. e \in Elems(ready) \/ Adds(e) BY QueueStep DEF QueueChange
  <2>2. e.op <= op BY <1>0, <2>1 DEF OlderOps, Adds, AddsBinder, AddsWait
  <2>3. e.op \in Nat
    <3>1. Elems(ready') \subseteq Completions
      <4>1. ready' \in Seq(Completions) BY QueueStep DEF QueueChange
      <4> QED BY <4>1 DEF Elems
    <3> QED BY <3>1, MaxOpsAssumption DEF Completions
  <2> QED BY <1>0, <1>1, <2>2, <2>3
<1> QED BY <1>1, <1>2, <1>3 DEF OlderOps

LEMMA FiredIsDeliveredStep ==
  ASSUME TypeOK, FiredIsDelivered, [Next]_vars
  PROVE  FiredIsDelivered'
<1> USE DEF FiredIsDelivered, vars, provider, client
<1>1. ASSUME NEW c \in BOOLEAN, NEW a \in BOOLEAN, NEW h \in SUBSET Bits, Initiate(c, a, h)
      PROVE FiredIsDelivered'
  BY <1>1 DEF Initiate, Arm
<1>2. ASSUME NEW ct, ParentEmits(ct) PROVE FiredIsDelivered'
  BY <1>2 DEF ParentEmits, Emit
<1>3. CASE \/ Destroy \/ TimerExpires \/ SkipAborted \/ FireDangling \/ Ended \/ UNCHANGED vars
  BY <1>3 DEF Destroy, TimerExpires, SkipAborted, FireDangling, Ended
<1>4. CASE OperationFinishes \/ RunBinder BY <1>4 DEF OperationFinishes, RunBinder
<1>5. CASE FiresLast BY <1>5 DEF FiresLast, FireLast, Emit, Cancels
<1>6. CASE FiresThenWait BY <1>6 DEF FiresThenWait, FireThenWait, Emit, Cancels
<1> QED BY <1>1, <1>2, <1>3, <1>4, <1>5, <1>6, FiresByShape DEF Next, RunHandler

LEMMA ParentIsHeardStep ==
  ASSUME TypeOK, ParentIsHeard, SlotIsTaken, [Next]_vars
  PROVE  ParentIsHeard' /\ SlotIsTaken'
<1> USE DEF ParentIsHeard, SlotIsTaken, vars, provider, client
<1>1. ASSUME NEW c \in BOOLEAN, NEW a \in BOOLEAN, NEW h \in SUBSET Bits, Initiate(c, a, h)
      PROVE ParentIsHeard' /\ SlotIsTaken'
  BY <1>1 DEF Initiate, Arm, Slot, TypeOK
<1>2. ASSUME NEW ct, ParentEmits(ct) PROVE ParentIsHeard' /\ SlotIsTaken'
  BY <1>2 DEF ParentEmits, Emit, Cancels
<1>3. CASE TimerExpires \/ SkipAborted \/ FireDangling \/ Ended \/ UNCHANGED vars
  BY <1>3 DEF TimerExpires, SkipAborted, FireDangling, Ended
<1>4. CASE OperationFinishes \/ RunBinder \/ Destroy
  BY <1>4 DEF OperationFinishes, RunBinder, Destroy
<1>5. CASE FiresLast BY <1>5 DEF FiresLast, FireLast, Emit
<1>6. CASE FiresThenWait BY <1>6 DEF FiresThenWait, FireThenWait, Emit
<1> QED BY <1>1, <1>2, <1>3, <1>4, <1>5, <1>6, FiresByShape DEF Next, RunHandler

LEMMA NoDanglingForwardStep ==
  ASSUME TypeOK, NoDanglingForward, ForwardIsParent, [Next]_vars
  PROVE  NoDanglingForward' /\ ForwardIsParent'
<1> USE DEF NoDanglingForward, ForwardIsParent, vars, provider, client
<1>1. ASSUME NEW c \in BOOLEAN, NEW a \in BOOLEAN, NEW h \in SUBSET Bits, Initiate(c, a, h)
      PROVE NoDanglingForward' /\ ForwardIsParent'
  BY <1>1 DEF Initiate, Arm, Slot, TypeOK
<1>2. ASSUME NEW ct, ParentEmits(ct) PROVE NoDanglingForward' /\ ForwardIsParent'
  BY <1>2 DEF ParentEmits
<1>3. CASE TimerExpires \/ SkipAborted \/ FireDangling \/ Ended \/ UNCHANGED vars
  BY <1>3 DEF TimerExpires, SkipAborted, FireDangling, Ended
<1>4. CASE OperationFinishes BY <1>4 DEF OperationFinishes
<1>7. CASE RunBinder BY <1>7 DEF RunBinder, TypeOK
<1>8. CASE Destroy
  <2>1. ~forward' BY <1>8 DEF Destroy, TypeOK
  <2> QED BY <2>1
<1>5. CASE FiresLast BY <1>5 DEF FiresLast, FireLast
<1>6. CASE FiresThenWait BY <1>6 DEF FiresThenWait, FireThenWait
<1> QED BY <1>1, <1>2, <1>3, <1>4, <1>5, <1>6, <1>7, <1>8, FiresByShape DEF Next, RunHandler

\* A step that leaves the pending operation its honours keeps every expired
\* wait in the queue, unless it is the one that has just been run.
LEMMA TimeoutStillComingStep ==
  ASSUME TypeOK, Started, TimeoutStillComing, [Next]_vars
  PROVE  TimeoutStillComing'
<1> USE DEF TimeoutStillComing, vars, provider, client
<1>k. ASSUME UNCHANGED <<phase, honours, waiting>>,
             ready # <<>> => Head(ready) \in Elems(ready') \/ Head(ready) \notin Expired
      PROVE  TimeoutStillComing'
  BY <1>k, QueueStep DEF QueueChange, Expired
<1>1. ASSUME NEW c \in BOOLEAN, NEW a \in BOOLEAN, NEW h \in SUBSET Bits, Initiate(c, a, h)
      PROVE TimeoutStillComing'
  BY <1>1 DEF Initiate, Arm, NoWait
<1>2. ASSUME NEW ct, ParentEmits(ct) PROVE TimeoutStillComing'
  <2>1. phase' = "pending" => phase = "pending" /\ ready' = ready
    <3>1. ready \in Seq(Completions) BY DEF TypeOK
    <3> QED BY <1>2, <3>1 DEF ParentEmits, Emit, EmitQueues, Cancels
  <2> QED BY <1>2, <2>1 DEF ParentEmits, Expired
<1>3. CASE Destroy \/ OperationFinishes \/ RunBinder
  BY <1>3 DEF Destroy, OperationFinishes, RunBinder
<1>4. CASE TimerExpires
  <2>1. ready \in Seq(Completions) BY DEF TypeOK
  <2>2. Completed(waiting, "ok") \in Elems(ready')
    BY <1>4, <2>1 DEF TimerExpires, Elems
  <2>3. waiting \in Waits BY <1>4 DEF TimerExpires, TypeOK
  <2>4. Completed(waiting, "ok") \in Expired' BY <2>2, <2>3 DEF Expired, Completed, Waits
  <2> QED BY <2>4
<1>5. CASE SkipAborted BY <1>5, <1>k DEF SkipAborted, Running, Expired
<1>6. CASE FireAll \/ FireTerminal
  BY <1>6 DEF FireAll, FireTerminal, FireLast, Emit, Cancels, Bits
<1>7. CASE FiresThenWait
  <2>1. waiting' # NoWait
    BY <1>7, QueueHead DEF FiresThenWait, FireThenWait, NoWait, Stages
  <2> QED BY <2>1
<1>8. CASE FireDangling \/ Ended \/ UNCHANGED vars
  BY <1>8 DEF FireDangling, Ended, Expired
<1> QED BY <1>1, <1>2, <1>3, <1>4, <1>5, <1>6, <1>7, <1>8, FiresByShape DEF Next, RunHandler

LEMMA EscalatesStep ==
  ASSUME TypeOK, Started, OlderOps, EscalatesInv, [Next]_vars
  PROVE  EscalatesInv'
<1>0. op \in Nat BY MaxOpsAssumption DEF TypeOK
<1>k. ASSUME op' = op, requested \subseteq requested'
      PROVE  \A e \in Expired' : e.op = op' => WeakerFirst[e.stage] \subseteq requested'
  <2> SUFFICES ASSUME NEW e \in Expired', e.op = op'
               PROVE  WeakerFirst[e.stage] \subseteq requested'
    OBVIOUS
  <2>1. e \in Elems(ready) \/ AddsWait(e)
    BY QueueStep DEF QueueChange, Adds, AddsBinder, IsBinder, Expired, Stages
  <2> QED BY <1>k, <2>1 DEF EscalatesInv, Expired, AddsWait
<1>w. ASSUME op' = op, requested \subseteq requested', waiting' = waiting \/ waiting' = NoWait
      PROVE  EscalatesInv'
  BY <1>k, <1>w DEF EscalatesInv
<1> USE DEF vars, provider, client
<1>1. ASSUME NEW c \in BOOLEAN, NEW a \in BOOLEAN, NEW h \in SUBSET Bits, Initiate(c, a, h)
      PROVE EscalatesInv'
  <2>1. op' = op + 1 /\ waiting' = [stage |-> "total", op |-> op'] BY <1>1 DEF Initiate, Arm
  <2>2. \A e \in Expired' : e.op # op'
    <3> SUFFICES ASSUME NEW e \in Elems(ready') PROVE e.op # op'
      BY DEF Expired
    <3>1. e \in Elems(ready) \/ Adds(e) BY QueueStep DEF QueueChange
    <3>2. e.op <= op BY <1>0, <3>1 DEF OlderOps, Adds, AddsBinder, AddsWait
    <3> QED BY <1>0, <2>1, <3>2
  <2>3. WeakerFirst["total"] = {} BY DEF WeakerFirst
  <2> QED BY <2>1, <2>2, <2>3 DEF EscalatesInv
<1>2. ASSUME NEW ct, ParentEmits(ct) PROVE EscalatesInv'
  BY <1>2, <1>w DEF ParentEmits, Emit
<1>3. CASE \/ Destroy \/ OperationFinishes \/ TimerExpires \/ RunBinder \/ SkipAborted
           \/ FireDangling \/ Ended \/ UNCHANGED vars
  BY <1>3, <1>w DEF Destroy, OperationFinishes, TimerExpires, RunBinder, SkipAborted,
                    FireDangling, Ended
<1>4. CASE FiresLast BY <1>4, <1>w DEF FiresLast, FireLast, Emit
<1>5. ASSUME NEW stage \in Stages, NEW next \in Stages, NEW ct,
             FireThenWait(stage, ct, next),
             WeakerFirst[next] \subseteq WeakerFirst[stage] \cup ct
      PROVE  EscalatesInv'
  <2>1. op' = op /\ requested' = requested \cup ct BY <1>5 DEF FireThenWait, Emit
  <2>2. waiting' = [stage |-> next, op |-> Head(ready).op] BY <1>5 DEF FireThenWait
  <2>3. Head(ready) \in Expired /\ Head(ready).stage = stage
    BY <1>5, QueueHead DEF FireThenWait, Running, Expired
  <2>4. Head(ready).op = op => WeakerFirst[stage] \subseteq requested
    BY <2>3 DEF EscalatesInv
  <2> QED BY <1>5, <1>k, <2>1, <2>2, <2>4 DEF EscalatesInv
<1>6. CASE FireTotal BY <1>5, <1>6 DEF FireTotal, WeakerFirst, Stages
<1>7. CASE FirePartial BY <1>5, <1>7 DEF FirePartial, WeakerFirst, Stages
<1> QED
  BY <1>1, <1>2, <1>3, <1>4, <1>6, <1>7, FiresByShape DEF Next, RunHandler

(* One completion per operation.                                           *)

LEMMA BindersOfConcat ==
  ASSUME NEW s \in Seq(Completions), NEW t \in Seq(Completions),
         AtMostOneBinder(s), AtMostOneBinder(t), NoBinder(s) \/ NoBinder(t)
  PROVE  /\ AtMostOneBinder(s \o t)
         /\ NoBinder(s) /\ NoBinder(t) => NoBinder(s \o t)
<1>1. \A i \in DOMAIN (s \o t) :
        \/ i \in DOMAIN s /\ (s \o t)[i] = s[i]
        \/ i - Len(s) \in DOMAIN t /\ i \in Nat /\ (s \o t)[i] = t[i - Len(s)]
  OBVIOUS
<1> HIDE DEF IsBinder
<1>2. \A i \in DOMAIN (s \o t) : i \in Nat OBVIOUS
<1> QED BY <1>1, <1>2 DEF AtMostOneBinder, NoBinder

LEMMA BindersOfTail ==
  ASSUME NEW s \in Seq(Completions), s # <<>>, AtMostOneBinder(s)
  PROVE  AtMostOneBinder(Tail(s)) /\ (IsBinder(Head(s)) => NoBinder(Tail(s)))
<1>1. \A i \in DOMAIN Tail(s) : i + 1 \in DOMAIN s /\ i \in Nat \ {0} /\ Tail(s)[i] = s[i + 1]
  OBVIOUS
<1>2. 1 \in DOMAIN s /\ Head(s) = s[1] OBVIOUS
<1> QED BY <1>1, <1>2 DEF AtMostOneBinder, NoBinder

LEMMA BindersOfShort ==
  /\ \A e : AtMostOneBinder(<<e>>)
  /\ AtMostOneBinder(<<>>) /\ NoBinder(<<>>)
  /\ \A e : ~IsBinder(e) => NoBinder(<<e>>)
BY DEF AtMostOneBinder, NoBinder

LEMMA ElemsBinders ==
  ASSUME NEW s, \A e \in Elems(s) : ~IsBinder(e)
  PROVE  NoBinder(s) /\ AtMostOneBinder(s)
BY DEF Elems, NoBinder, AtMostOneBinder

LEMMA OneCompletionStep ==
  ASSUME TypeOK, Started, OneCompletion, [Next]_vars
  PROVE  OneCompletion'
<1>0. ready \in Seq(Completions) /\ AtMostOneBinder(ready) BY DEF TypeOK, OneCompletion
<1>p. phase # "queued" => NoBinder(ready)
  BY DEF OneCompletion, BinderAnswers, NoBinder, Elems
<1>t. TimerQueues \in Seq(Completions) /\ NoBinder(TimerQueues) /\ AtMostOneBinder(TimerQueues)
  <2>1. \A e \in Elems(TimerQueues) : ~IsBinder(e)
    BY TimerQueuesAborted DEF IsBinder, Completed, TypeOK, Waits, Stages
  <2> QED BY <2>1, TimerQueuesAborted, ElemsBinders
<1>e. ASSUME NEW ct
      PROVE  /\ EmitQueues(ct) \in Seq(Completions) /\ AtMostOneBinder(EmitQueues(ct))
             /\ NoBinder(ready) \/ NoBinder(EmitQueues(ct))
  <2>1. CASE Cancels(ct)
    BY <1>p, <2>1, EmitQueuesBinder, BindersOfShort DEF EmitQueues, Cancels
  <2>2. CASE ~Cancels(ct)
    BY <2>2, EmitQueuesBinder, BindersOfShort DEF EmitQueues
  <2> QED BY <2>1, <2>2
<1>h. ready # <<>> => /\ Tail(ready) \in Seq(Completions) /\ AtMostOneBinder(Tail(ready))
                      /\ IsBinder(Head(ready)) => NoBinder(Tail(ready))
                      /\ NoBinder(ready) => NoBinder(Tail(ready))
  <2>1. ASSUME ready # <<>>, NoBinder(ready) PROVE NoBinder(Tail(ready))
    <3>1. \A i \in DOMAIN Tail(ready) : i + 1 \in DOMAIN ready /\ Tail(ready)[i] = ready[i + 1]
      BY <1>0, <2>1
    <3> QED BY <2>1, <3>1 DEF NoBinder
  <2> QED BY <1>0, <2>1, BindersOfTail
<1>c. ASSUME NEW s \in Seq(Completions), NEW t \in Seq(Completions),
             AtMostOneBinder(s), AtMostOneBinder(t), NoBinder(s) \/ NoBinder(t), ready' = s \o t
      PROVE  AtMostOneBinder(ready')
  BY <1>c, BindersOfConcat
<1> USE DEF vars, provider, client
<1>1. ASSUME NEW c \in BOOLEAN, NEW a \in BOOLEAN, NEW h \in SUBSET Bits, Initiate(c, a, h)
      PROVE AtMostOneBinder(ready')
  BY <1>0, <1>t, <1>c, <1>1 DEF Initiate, Arm
<1>2. ASSUME NEW ct, ParentEmits(ct) PROVE AtMostOneBinder(ready')
  BY <1>0, <1>e, <1>c, <1>2 DEF ParentEmits
<1>3. ASSUME Destroy PROVE AtMostOneBinder(ready')
  BY <1>0, <1>t, <1>c, <1>3 DEF Destroy
<1>4. ASSUME OperationFinishes PROVE AtMostOneBinder(ready')
  <2>1. NoBinder(ready) BY <1>4, <1>p DEF OperationFinishes
  <2>2. <<Binder("ok")>> \in Seq(Completions)
    BY <1>4, BinderIsCompletion, ElemsOfSingleton DEF OperationFinishes
  <2>3. ready' = ready \o <<Binder("ok")>> BY <1>0, <1>4, <2>2 DEF OperationFinishes
  <2> QED BY <1>0, <1>c, <2>1, <2>2, <2>3, BindersOfShort
<1>5. ASSUME TimerExpires PROVE AtMostOneBinder(ready')
  <2>1. Completed(waiting, "ok") \in Completions /\ ~IsBinder(Completed(waiting, "ok"))
    BY <1>5 DEF TimerExpires, TypeOK, Waits, Stages, Completed, Completions, IsBinder
  <2>2. <<Completed(waiting, "ok")>> \in Seq(Completions) BY <2>1, ElemsOfSingleton
  <2>3. ready' = ready \o <<Completed(waiting, "ok")>> BY <1>0, <1>5, <2>2 DEF TimerExpires
  <2> QED BY <1>0, <1>c, <2>1, <2>2, <2>3, BindersOfShort
<1>6. ASSUME RunBinder PROVE AtMostOneBinder(ready')
  <2>1. /\ ready # <<>> /\ IsBinder(Head(ready))
        /\ ready' = Tail(ready) \o TimerQueues
    BY <1>6 DEF RunBinder, Running, IsBinder
  <2>2. NoBinder(ready') /\ AtMostOneBinder(ready')
    BY <1>h, <1>t, <2>1, BindersOfConcat
  <2> QED BY <2>2
<1>7. ASSUME SkipAborted PROVE AtMostOneBinder(ready')
  BY <1>h, <1>7 DEF SkipAborted, Running
<1>8. ASSUME FiresLast PROVE AtMostOneBinder(ready')
  <2>1. PICK ct : ready # <<>> /\ ready' = Tail(ready) \o EmitQueues(ct)
    BY <1>8 DEF FiresLast, FireLast, Running
  <2> QED BY <1>e, <1>h, <1>c, <2>1
<1>9. ASSUME FiresThenWait PROVE AtMostOneBinder(ready')
  <2>1. PICK ct : ready # <<>> /\ ready' = Tail(ready) \o (EmitQueues(ct) \o TimerQueues)
    BY <1>9 DEF FiresThenWait, FireThenWait, Running
  <2> DEFINE new == EmitQueues(ct) \o TimerQueues
  <2>2. new \in Seq(Completions) BY <1>e, <1>t
  <2>3. AtMostOneBinder(new) /\ (NoBinder(ready) \/ NoBinder(new))
    BY <1>e, <1>t, BindersOfConcat
  <2> HIDE DEF new
  <2>4. ready' = Tail(ready) \o new BY <2>1 DEF new
  <2> QED BY <1>h, <1>c, <2>1, <2>2, <2>3, <2>4
<1>10. ASSUME FireDangling \/ Ended \/ UNCHANGED vars PROVE AtMostOneBinder(ready')
  BY <1>0, <1>10 DEF FireDangling, Ended
<1>11. AtMostOneBinder(ready')
  BY <1>1, <1>2, <1>3, <1>4, <1>5, <1>6, <1>7, <1>8, <1>9, <1>10, FiresByShape
  DEF Next, RunHandler
<1>12. \A e \in Elems(ready') : BinderAnswers(e)'
  <2>1. CASE RunBinder
    <3>1. /\ ready # <<>> /\ IsBinder(Head(ready)) /\ ready' = Tail(ready) \o TimerQueues
      BY <2>1 DEF RunBinder, Running, IsBinder
    <3>2. NoBinder(ready') BY <1>h, <1>t, <3>1, BindersOfConcat
    <3> QED BY <3>2 DEF NoBinder, BinderAnswers, Elems
  <2>2. CASE Unaffected \/ Queued \/ Starts \/ Emits
    <3> SUFFICES ASSUME NEW e \in Elems(ready'), IsBinder(e)
                 PROVE  phase' = "queued" /\ (e.ec = "aborted" => requested' \cap honours' # {})
      BY DEF BinderAnswers, IsBinder
    <3>1. e \in Elems(ready) \/ AddsBinder(e)
      BY QueueStep DEF QueueChange, Adds, AddsWait, IsBinder, TypeOK, Waits, Stages
    <3>2. honours' = honours \/ Starts
      BY <2>2 DEF Unaffected, Queued, Starts, Emits
    <3>3. CASE AddsBinder(e)
      BY <3>2, <3>3 DEF AddsBinder, Starts
    <3>4. CASE e \in Elems(ready)
      <4>1. phase = "queued" /\ (e.ec = "aborted" => requested \cap honours # {})
        BY <3>4 DEF OneCompletion, BinderAnswers
      <4> QED BY <2>2, <4>1 DEF Unaffected, Queued, Starts, Emits, Emit, Cancels
    <3> QED BY <3>1, <3>3, <3>4
  <2> QED BY <2>1, <2>2, OperationStep
<1> QED BY <1>11, <1>12 DEF OneCompletion

-----------------------------------------------------------------------------
(* The theorems.                                                           *)

LEMMA Initially == Init => IInv
<1> SUFFICES ASSUME Init PROVE IInv OBVIOUS
<1> USE DEF Init
<1>1. ready = <<>> /\ Elems(ready) = {} BY DEF Elems
<1>2. TypeOK
  <2>1. ready \in Seq(Completions) /\ op \in 0..MaxOps BY MaxOpsAssumption
  <2>2. waiting \in Waits \cup {NoWait} OBVIOUS
  <2> QED BY <2>1, <2>2 DEF TypeOK
<1>3. Expired = {} BY <1>1 DEF Expired
<1>4. OlderOps BY <1>1 DEF OlderOps, NoWait
<1>5. OneCompletion BY <1>1, BindersOfShort DEF OneCompletion
<1> QED
  BY <1>2, <1>3, <1>4, <1>5
  DEF IInv, Started, TimeoutStillComing, FiredIsDelivered, ParentIsHeard, SlotIsTaken,
      NoDanglingForward, ForwardIsParent, EscalatesInv

LEMMA Inductive == IInv /\ [Next]_vars => IInv'
BY TypeStep, StartedStep, TimeoutStillComingStep, FiredIsDeliveredStep, ParentIsHeardStep,
   NoDanglingForwardStep, OneCompletionStep, EscalatesStep
   DEF IInv

THEOREM Invariance == Spec => []IInv
BY Initially, Inductive, PTL DEF Spec

\* Every variable keeps its type, whatever the number of operations; the queue
\* only ever holds completions of operations that were started.
THEOREM TypeCorrect == Spec => []TypeOK
<1>1. IInv => TypeOK BY DEF IInv
<1> QED BY <1>1, Invariance, PTL

\* A pending operation that honours terminal cancellation has its timeout
\* ahead of it, however late a fire_*() re-arms the timer.
THEOREM TimeoutNeverLost == Spec => []TimeoutStillComing
<1>1. IInv => TimeoutStillComing BY DEF IInv
<1> QED BY <1>1, Invariance, PTL

\* What timeout.emit(last_fired = ...) sends reaches the pending operation.
THEOREM FiredReaches == Spec => []FiredIsDelivered
<1>1. IInv => FiredIsDelivered BY DEF IInv
<1> QED BY <1>1, Invariance, PTL

\* The lambda arm() assigns passes the client's cancellation on.
THEOREM ParentReaches == Spec => []ParentIsHeard
<1>1. IInv => ParentIsHeard BY DEF IInv
<1> QED BY <1>1, Invariance, PTL

\* ~timeout_provider leaves no lambda behind that holds its `this`.
THEOREM NothingDangles == Spec => []NoDanglingForward
<1>1. IInv => NoDanglingForward BY DEF IInv
<1> QED BY <1>1, Invariance, PTL

\* An operation's own fire_*() go from total to partial to terminal.
THEOREM CascadeEscalates == Spec => []Escalates
<1>1. IInv => Escalates
  <2> SUFFICES ASSUME EscalatesInv PROVE Escalates BY DEF IInv
  <2> QED BY DEF EscalatesInv, Escalates, OwnWaits
<1> QED BY <1>1, Invariance, PTL

\* The token does what TimedOperation promises: operations one at a time,
\* each completing once, and "aborted" only in answer to a request.
THEOREM Refinement == Spec => Promise!Spec
<1> USE DEF Promise!vars
<1>1. Init => Promise!Init BY DEF Init, Promise!Init
<1>2. ASSUME IInv, [Next]_vars PROVE [Promise!Next]_(Promise!vars)
  <2> USE DEF Unaffected, Queued, Starts, Completes, Emits
  <2>0. TypeOK /\ OneCompletion BY <1>2 DEF IInv
  <2>1. CASE Unaffected \/ Queued BY <2>1
  <2>2. CASE Starts
    BY <2>0, <2>2 DEF Promise!Next, Promise!Start
  <2>3. CASE Emits
    <3>1. PICK ct \in SUBSET Bits : Emit(ct) /\ UNCHANGED <<op, honours, result>> BY <2>3
    <3>2. CASE phase = "idle" BY <3>1, <3>2 DEF Emit, Cancels
    <3>3. CASE phase # "idle"
      BY <3>1, <3>3 DEF Emit, Cancels, Promise!Next, Promise!Requests, Promise!Request
    <3> QED BY <3>2, <3>3
  <2>4. CASE RunBinder /\ Completes
    <3>1. PICK ec \in {"ok", "aborted"} : Running("binder", ec) /\ result' = ec
      BY <2>4 DEF RunBinder
    <3>2. BinderAnswers(Head(ready)) BY <2>0, <3>1, QueueHead DEF OneCompletion, Running
    <3>3. phase = "queued" /\ (ec = "aborted" => requested \cap honours # {})
      BY <3>1, <3>2 DEF Running, BinderAnswers, IsBinder
    <3> QED
      BY <2>4, <3>1, <3>3 DEF Promise!Next, Promise!Finishes, Promise!Finish, Promise!Answered
  <2> QED BY <1>2, <2>0, <2>1, <2>2, <2>3, <2>4, OperationStep
<1> QED BY <1>1, <1>2, Invariance, PTL DEF Spec, Promise!Spec

=============================================================================
