----------------------- MODULE CompletionTokensProofs -----------------------
(***************************************************************************)
(* Proofs about CompletionTokens, for tokens of every depth.               *)
(***************************************************************************)
EXTENDS CompletionTokens, WellFoundedInduction, TLAPS

Wrappers  == {"with_timeout", "as_result"}
Completed == phase \in {"queued", "resuming", "resumed"}

\* The shape of the state; a second as_result has no signature to be given.
Types ==
  /\ token \in Seq(Wrappers)
  /\ \A i, j \in DOMAIN token : token[i] = "as_result" /\ token[j] = "as_result" => i = j
  /\ phase \in {"initiating", "pending", "queued", "resuming", "resumed"}
  /\ layer \in 1..Coroutine
  /\ armed \subseteq Providers

\* The completion goes through the handlers one by one, from the first.
InOrder ==
  /\ phase \in {"pending", "queued"} => layer = 1
  /\ phase = "resumed" => layer = Coroutine

\* The timers of the binders that have been called are cancelled.
CalledIsCancelled == Completed => \A i \in armed : i >= layer

\* What the handlers called so far have made of the arguments.
CalledResult == \E i \in 1..(layer - 1) : token[i] = "as_result"
CarriedIs ==
  Completed => /\ ending \in Completions
               /\ carried = IF CalledResult THEN AsResult(ending) ELSE ending

IInv == Types /\ InOrder /\ CalledIsCancelled /\ CarriedIs

-----------------------------------------------------------------------------
\* The tokens that compile are sequences with one as_result at the most.
LEMMA TokenShape ==
  ASSUME NEW t \in Tokens
  PROVE  /\ t \in Seq(Wrappers)
         /\ \A i, j \in DOMAIN t : t[i] = "as_result" /\ t[j] = "as_result" => i = j
<1>1. PICK n \in 0..MaxDepth : t \in [1..n -> Wrappers]
  BY DEF Tokens, SeqOf, Wrappers
<1>2. t \in Seq(Wrappers) /\ DOMAIN t = 1..n /\ n \in Nat
  BY <1>1, MaxDepthAssumption
<1>3. ASSUME NEW i \in 1..n, NEW j \in 1..n, t[i] = "as_result", t[j] = "as_result", j < i
      PROVE  FALSE
  <2>1. Signature(t, i) = "result"
    BY <1>2, <1>3 DEF Signature
  <2> QED BY <1>2, <1>3, <2>1 DEF Tokens, Wrappable
<1> QED BY <1>2, <1>3

LEMMA InitHolds == Init => IInv
<1> SUFFICES ASSUME Init PROVE IInv
  OBVIOUS
<1>1. token \in Seq(Wrappers) /\ Len(token) \in Nat
  BY TokenShape DEF Init
<1>2. Types
  BY <1>1, TokenShape DEF Init, Types, Coroutine
<1> QED BY <1>2 DEF Init, IInv, InOrder, CalledIsCancelled, CarriedIs, Completed

LEMMA StepHolds ==
  ASSUME IInv, [Next]_vars
  PROVE  IInv'
<1>0. /\ token \in Seq(Wrappers) /\ Len(token) \in Nat /\ DOMAIN token = 1..Len(token)
      /\ layer \in Nat /\ layer >= 1 /\ layer <= Len(token) + 1
      /\ \A i \in armed : i \in Nat
  BY DEF IInv, Types, Coroutine, Providers
<1>1. CASE WrapTimeout \/ WrapResult \/ Begin
  BY <1>0, <1>1 DEF WrapTimeout, WrapResult, Begin, Building, IInv, Types, InOrder,
       CalledIsCancelled, CarriedIs, Completed, Coroutine, Providers
<1>2. ASSUME NEW c \in Completions, phase = "pending", Ends(c),
             UNCHANGED <<token, layer>>, armed' \subseteq armed
      PROVE  IInv'
  <2>1. ~CalledResult' /\ layer = 1
    BY <1>2 DEF IInv, InOrder, CalledResult
  <2> QED BY <1>0, <1>2, <2>1 DEF Ends, IInv, Types, InOrder, CalledIsCancelled, CarriedIs,
              Completed, Coroutine, Providers
<1>3. ASSUME phase \in {"pending", "queued"}, UNCHANGED <<token, layer, phase, ending, carried>>,
             armed' \subseteq armed
      PROVE  IInv'
  BY <1>0, <1>3 DEF IInv, Types, InOrder, CalledIsCancelled, CarriedIs, CalledResult,
                    Completed, Coroutine, Providers
<1>4. ASSUME NEW c \in Completions, OperationEnds(c) PROVE IInv'
  BY <1>2, <1>4 DEF OperationEnds
<1>5. ASSUME NEW i, Emit(i), phase \in {"pending", "queued"}, UNCHANGED <<token, layer>>,
             armed' \subseteq armed
      PROVE  IInv'
  <2>1. Aborts \subseteq Completions
    BY DEF Aborts, Completions, Completion, Codes, Exceptions
  <2> QED BY <1>2, <1>3, <1>5, <2>1 DEF Emit
<1>6. ASSUME NEW i \in Providers, Expire(i) PROVE IInv'
  BY <1>5, <1>6 DEF Expire
<1>7. CASE ClientEmits
  BY <1>5, <1>7 DEF ClientEmits
<1>8. CASE CallBinder
  <2>1. ~(token[layer] = "as_result") /\ (CalledResult' <=> CalledResult)
    BY <1>0, <1>8 DEF CallBinder, Calling, CalledResult
  <2> QED BY <1>0, <1>8, <2>1 DEF CallBinder, Calling, IInv, Types, InOrder,
              CalledIsCancelled, CarriedIs, Completed, Coroutine, Providers
<1>9. CASE CallResult
  <2>1. layer \in DOMAIN token /\ token[layer] = "as_result" /\ CalledResult'
    BY <1>0, <1>9 DEF CallResult, Calling, CalledResult, Coroutine
  <2>2. ~CalledResult
    BY <1>0, <2>1 DEF CalledResult, IInv, Types
  <2>3. layer \notin armed
    BY <2>1 DEF IInv, Types, Providers
  <2> QED BY <1>0, <1>9, <2>1, <2>2, <2>3 DEF CallResult, Calling, IInv, Types, InOrder,
              CalledIsCancelled, CarriedIs, Completed, Coroutine, Providers
<1>10. CASE Resume
  BY <1>0, <1>10 DEF Resume, IInv, Types, InOrder, CalledIsCancelled, CarriedIs, CalledResult,
                     Completed, Coroutine, Providers
<1>11. CASE Ended \/ UNCHANGED vars
  BY <1>11 DEF Ended, vars, IInv, Types, InOrder, CalledIsCancelled, CarriedIs, CalledResult,
               Completed, Coroutine, Providers
<1> QED BY <1>1, <1>4, <1>6, <1>7, <1>8, <1>9, <1>10, <1>11 DEF Next, Initiate, Complete

\* A result with a value, and only that, is what success becomes.
LEMMA Faithful ==
  ASSUME IInv, phase = "resumed"
  PROVE  /\ (Got = Value) <=> Succeeds(ending)
         /\ (retrive_error_msg(Got) = "no error") <=> Succeeds(ending)
         /\ HasResult <=> carried.sig = "result"
<1>1. /\ HasResult <=> CalledResult
      /\ ending \in Completions /\ carried = IF CalledResult THEN AsResult(ending) ELSE ending
  BY DEF IInv, Types, InOrder, CarriedIs, Completed, CalledResult, HasResult, Coroutine
<1>2. ending.sig \in {"error_code", "exception_ptr"} /\ ending.error \in Codes \cup Exceptions
  BY <1>1 DEF Completions
<1>3. CASE CalledResult
  <2>1. CASE Succeeds(ending)
    BY <1>1, <1>3, <2>1 DEF AsResult, Result, ResultValue, Got, Value, Outcome, retrive_error_msg
  <2>2. CASE ~Succeeds(ending)
    BY <1>1, <1>2, <1>3, <2>2 DEF AsResult, Result, ResultValue, Got, Value, Outcome, Succeeds,
         Successes, retrive_error_msg, What, message, Codes, Errors, Exceptions
  <2> QED BY <2>1, <2>2
<1>4. CASE ~CalledResult
  <2>1. carried = ending /\ carried.sig # "result"
    BY <1>1, <1>2, <1>4
  <2>2. Got = IF Succeeds(ending) THEN Value ELSE Outcome("exception", ending.error)
    BY <2>1 DEF Got, ResultValue, Result
  <2>3. CASE Succeeds(ending)
    BY <1>1, <1>4, <2>1, <2>2, <2>3 DEF Value, Outcome, retrive_error_msg
  <2>4. CASE ~Succeeds(ending)
    <3>1. retrive_error_msg(Got) =
            IF ending.error = "foreign" THEN "unknown exception" ELSE What(ending.error)
      BY <2>2, <2>4 DEF Outcome, retrive_error_msg
    <3>2. What(ending.error) # "no error"
      BY <1>2, <2>4 DEF What, message, Succeeds, Successes, Codes, Errors, Exceptions
    <3>3. Got # Value
      BY <2>2, <2>4 DEF Value, Outcome
    <3> QED BY <1>1, <1>4, <2>1, <2>4, <3>1, <3>2, <3>3
  <2> QED BY <2>3, <2>4
<1> QED BY <1>3, <1>4

-----------------------------------------------------------------------------
(* The signals: what the initiation has linked, and who has emitted.       *)

TypesToo ==
  /\ token \in Tokens /\ connected \in BOOLEAN
  /\ ~Completed => ending = NotEnded /\ carried = NotEnded

\* A with_timeout links its signal to the handler it was given, if that has a slot.
LinkedIs ==
  linked = {h \in 2..Coroutine : /\ phase = "initiating" => h > layer
                                 /\ token[h - 1] = "with_timeout" /\ HasSlot(h)}

Hides(i)  == \E j \in 1..(i - 1) : token[j] = "as_result"
EmittedOK ==
  /\ phase = "initiating" => emitted = {}
  /\ \A i \in emitted : i \in Providers \/ (i = Coroutine /\ connected)
  /\ phase = "pending" => \A i \in emitted : Hides(i)

LInv == TypesToo /\ LinkedIs /\ EmittedOK

\* Induction over the naturals, with sets for predicates.
LEMMA SetInduction ==
  ASSUME NEW S \in SUBSET Nat, 0 \in S, \A n \in S : n + 1 \in S
  PROVE  S = Nat
<1> SUFFICES ASSUME Nat \ S # {} PROVE FALSE OBVIOUS
<1>1. PICK n \in Nat \ S : \A m \in Nat \ S : ~(<<m, n>> \in OpToRel(<, Nat))
  <2>1. IsWellFoundedOn(OpToRel(<, Nat), Nat) BY NatLessThanWellFounded
  <2> QED BY <2>1, WFMin
<1>2. \A m \in Nat \ S : ~(m < n) BY <1>1 DEF OpToRel
<1>3. n # 0 /\ n - 1 \in Nat /\ n - 1 < n /\ (n - 1) + 1 = n OBVIOUS
<1>4. n - 1 \in S BY <1>2, <1>3
<1> QED BY <1>3, <1>4

\* The recursion that emit() goes through is well-defined.
LEMMA ReachesIs ==
  ASSUME NEW k \in 1..(MaxDepth + 1)
  PROVE  Reaches[k] = IF k = 1 THEN HasSlot(1) ELSE k \in linked /\ Reaches[k - 1]
<1> DEFINE Via(i, r) == i \in linked /\ r
           Up(n) == \E f : f = [i \in 1..(n + 1) |-> IF i = 1 THEN HasSlot(1) ELSE Via(i, f[i - 1])]
           S == {n \in Nat : Up(n)}
<1> HIDE DEF Via
<1>1. Up(0)
  <2> DEFINE g == [i \in 1..(0 + 1) |-> HasSlot(1)]
  <2>1. g = [i \in 1..(0 + 1) |-> IF i = 1 THEN HasSlot(1) ELSE Via(i, g[i - 1])] OBVIOUS
  <2> QED BY <2>1
<1>2. ASSUME NEW n \in Nat, Up(n) PROVE Up(n + 1)
  <2>1. PICK f : f = [i \in 1..(n + 1) |-> IF i = 1 THEN HasSlot(1) ELSE Via(i, f[i - 1])]
    BY <1>2
  <2> DEFINE m == n + 1
             g == [i \in 1..(m + 1) |-> IF i <= m THEN f[i] ELSE Via(m + 1, f[m])]
  <2>2. m \in Nat /\ m >= 1 OBVIOUS
  <2>3. f = [i \in 1..m |-> IF i = 1 THEN HasSlot(1) ELSE Via(i, f[i - 1])] BY <2>1
  <2> HIDE DEF m
  <2>4. ASSUME NEW i \in 1..(m + 1)
        PROVE  g[i] = IF i = 1 THEN HasSlot(1) ELSE Via(i, g[i - 1])
    <3>1. CASE i = 1
      <4>1. 1 \in 1..m /\ 1 <= m /\ g[1] = f[1] BY <2>2, <3>1
      <4>2. f[1] = HasSlot(1) BY <2>3, <4>1
      <4> QED BY <3>1, <4>1, <4>2
    <3>2. CASE i # 1 /\ i <= m
      <4>1. i \in 1..m /\ i - 1 \in 1..(m + 1) /\ i - 1 <= m BY <2>2, <3>2
      <4>2. g[i] = f[i] /\ g[i - 1] = f[i - 1] BY <4>1
      <4>3. f[i] = Via(i, f[i - 1]) BY <2>3, <4>1, <3>2
      <4> QED BY <4>2, <4>3, <3>2
    <3>3. CASE ~(i <= m)
      <4>1. i = m + 1 /\ i - 1 = m /\ m \in 1..(m + 1) /\ i # 1 BY <2>2, <3>3
      <4>2. g[i] = Via(m + 1, f[m]) /\ g[m] = f[m] BY <3>3, <4>1
      <4> QED BY <4>1, <4>2
    <3> QED BY <3>1, <3>2, <3>3
  <2>5. g = [i \in 1..(m + 1) |-> IF i = 1 THEN HasSlot(1) ELSE Via(i, g[i - 1])] BY <2>4
  <2> QED BY <2>5 DEF m
<1>3. S = Nat
  <2> HIDE DEF Up
  <2>1. S \in SUBSET Nat /\ 0 \in S /\ \A n \in S : n + 1 \in S BY <1>1, <1>2
  <2> QED BY <2>1, SetInduction
<1>4. Up(MaxDepth) BY <1>3, MaxDepthAssumption
<1>5. Reaches = [i \in 1..(MaxDepth + 1) |-> IF i = 1 THEN HasSlot(1) ELSE Via(i, Reaches[i - 1])]
  BY <1>4 DEF Reaches, Via
<1> HIDE DEF Up, S
<1>6. Reaches[k] = IF k = 1 THEN HasSlot(1) ELSE Via(k, Reaches[k - 1]) BY <1>5
<1> QED BY <1>6 DEF Via

\* Through wrappers that are all with_timeout a signal reaches the operation.
LEMMA ReachesOperation ==
  ASSUME IInv, LInv, phase = "pending", NEW i \in 1..Coroutine, HasSlot(i), ~Hides(i)
  PROVE  Reaches[i]
<1>1. /\ token \in Seq(Wrappers) /\ Len(token) \in Nat /\ DOMAIN token = 1..Len(token)
      /\ Len(token) <= MaxDepth /\ Coroutine = Len(token) + 1 /\ i \in Nat
  <2>1. PICK n \in 0..MaxDepth : token \in [1..n -> Wrappers]
    BY DEF LInv, TypesToo, Tokens, SeqOf, Wrappers
  <2>2. token \in Seq(Wrappers) /\ Len(token) = n BY <2>1, MaxDepthAssumption
  <2> QED BY <2>1, <2>2, MaxDepthAssumption DEF Coroutine
<1>2. \A j \in 1..(i - 1) : token[j] = "with_timeout"
  BY <1>1 DEF Hides, Wrappers
<1>3. \A h \in 1..i : HasSlot(h) BY <1>1, <1>2 DEF HasSlot
<1>4. \A h \in 2..i : h \in linked
  <2> SUFFICES ASSUME NEW h \in 2..i PROVE h \in linked OBVIOUS
  <2>1. h \in 2..Coroutine /\ token[h - 1] = "with_timeout" BY <1>1, <1>2
  <2>2. HasSlot(h) BY <1>1, <1>3
  <2> QED BY <2>1, <2>2 DEF LInv, LinkedIs
<1> DEFINE Good(n) == n + 1 <= i => Reaches[n + 1] = TRUE
           S == {n \in Nat : Good(n)}
<1>5. Good(0)
  <2>1. 1 \in 1..i /\ 1 \in 1..(MaxDepth + 1) BY <1>1, MaxDepthAssumption
  <2>2. Reaches[1] = HasSlot(1) BY <2>1, ReachesIs
  <2>3. HasSlot(1) BY <1>3, <2>1
  <2>4. HasSlot(1) \in BOOLEAN BY DEF HasSlot, LInv, TypesToo
  <2>5. Reaches[1] = TRUE BY <2>2, <2>3, <2>4
  <2> QED BY <2>5
<1>6. ASSUME NEW n \in Nat, Good(n) PROVE Good(n + 1)
  <2> DEFINE h == (n + 1) + 1
  <2> SUFFICES ASSUME h <= i PROVE Reaches[h] = TRUE OBVIOUS
  <2>1. h \in 2..i /\ h \in 1..(MaxDepth + 1) /\ h # 1 /\ h - 1 = n + 1 /\ n + 1 <= i
    BY <1>1, MaxDepthAssumption
  <2>2. Reaches[n + 1] = TRUE BY <1>6, <2>1
  <2> HIDE DEF h, Good
  <2>3. Reaches[h] = (h \in linked /\ Reaches[h - 1]) BY <2>1, ReachesIs
  <2>4. h \in linked BY <1>4, <2>1
  <2> QED BY <2>1, <2>2, <2>3, <2>4
<1>7. S = Nat
  <2> HIDE DEF Good
  <2>1. S \in SUBSET Nat /\ 0 \in S /\ \A n \in S : n + 1 \in S BY <1>5, <1>6
  <2> HIDE DEF S
  <2> QED BY <2>1, SetInduction
<1>8. i - 1 \in Nat /\ (i - 1) + 1 = i BY <1>1
<1>9. Good(i - 1)
  <2> HIDE DEF Good
  <2> QED BY <1>7, <1>8
<1>10. Reaches[i] = TRUE BY <1>1, <1>8, <1>9
<1> QED BY <1>10

LEMMA SignalsInit == Init => LInv
<1> SUFFICES ASSUME Init PROVE LInv OBVIOUS
<1>1. TypesToo BY DEF Init, TypesToo, Completed
<1>2. LinkedIs
  <2>1. Len(token) \in Nat BY TokenShape DEF Init
  <2> QED BY <2>1 DEF Init, LinkedIs, Coroutine
<1>3. EmittedOK BY DEF Init, EmittedOK
<1> QED BY <1>1, <1>2, <1>3 DEF LInv

LEMMA SignalsStep ==
  ASSUME IInv, LInv, [Next]_vars
  PROVE  LInv'
<1> USE DEF LInv
<1>0. /\ token \in Seq(Wrappers) /\ Len(token) \in Nat /\ DOMAIN token = 1..Len(token)
      /\ layer \in Nat /\ layer >= 1 /\ layer <= Len(token) + 1
  BY DEF IInv, Types, Coroutine
<1>1. CASE WrapTimeout
  <2>1. /\ phase = "initiating" /\ layer > 1 /\ token[layer - 1] = "with_timeout"
        /\ layer' = layer - 1 /\ linked' = IF HasSlot(layer) THEN linked \cup {layer} ELSE linked
        /\ UNCHANGED <<token, connected, phase, emitted, ending, carried>>
    BY <1>1 DEF WrapTimeout, Building
  <2>2. LinkedIs'
    <3>1. \A h : HasSlot(h)' <=> HasSlot(h) BY <2>1 DEF HasSlot, Coroutine
    <3>2. \A h \in 2..Coroutine : h > layer - 1 <=> h > layer \/ h = layer BY <1>0 DEF Coroutine
    <3>3. layer \in 2..Coroutine BY <1>0, <2>1 DEF Coroutine
    <3>4. linked' = {h \in 2..Coroutine : h > layer - 1 /\ token[h - 1] = "with_timeout" /\ HasSlot(h)}
      BY <2>1, <3>2, <3>3 DEF LinkedIs
    <3> QED BY <2>1, <3>1, <3>4 DEF LinkedIs, Coroutine
  <2>3. TypesToo' /\ EmittedOK'
    BY <2>1 DEF TypesToo, Completed, EmittedOK, Providers, Coroutine, Hides
  <2> QED BY <2>2, <2>3
<1>2. CASE WrapResult
  <2>1. /\ phase = "initiating" /\ layer > 1 /\ token[layer - 1] = "as_result" /\ layer' = layer - 1
        /\ UNCHANGED <<token, connected, phase, linked, emitted, ending, carried>>
    BY <1>2 DEF WrapResult, Building
  <2>2. LinkedIs'
    <3>1. \A h : HasSlot(h)' <=> HasSlot(h) BY <2>1 DEF HasSlot, Coroutine
    <3>2. \A h \in 2..Coroutine : h > layer - 1 <=> h > layer \/ h = layer BY <1>0 DEF Coroutine
    <3>3. linked = {h \in 2..Coroutine : h > layer - 1 /\ token[h - 1] = "with_timeout" /\ HasSlot(h)}
      BY <2>1, <3>2 DEF LinkedIs
    <3> QED BY <2>1, <3>1, <3>3 DEF LinkedIs, Coroutine
  <2>3. TypesToo' /\ EmittedOK'
    BY <2>1 DEF TypesToo, Completed, EmittedOK, Providers, Coroutine, Hides
  <2> QED BY <2>2, <2>3
<1>3. CASE Begin
  <2>1. /\ phase = "initiating" /\ layer = 1 /\ phase' = "pending"
        /\ UNCHANGED <<token, connected, layer, linked, emitted, ending, carried>>
    BY <1>3 DEF Begin
  <2>2. LinkedIs'
    <3>1. \A h : HasSlot(h)' <=> HasSlot(h) BY <2>1 DEF HasSlot, Coroutine
    <3>2. \A h \in 2..Coroutine : h > layer BY <2>1
    <3> QED BY <2>1, <3>1, <3>2 DEF LinkedIs, Coroutine
  <2>3. TypesToo' /\ EmittedOK'
    BY <2>1 DEF TypesToo, Completed, EmittedOK
  <2> QED BY <2>2, <2>3
<1>4. ASSUME UNCHANGED <<token, connected, linked>>, phase # "initiating", phase' # "initiating"
      PROVE  LinkedIs'
  <2>1. \A h : HasSlot(h)' <=> HasSlot(h) BY <1>4 DEF HasSlot, Coroutine
  <2> QED BY <1>4, <2>1 DEF LinkedIs, Coroutine
<1>5. ASSUME UNCHANGED <<token, connected, linked, emitted>>, phase # "initiating",
             phase' \in {"queued", "resuming", "resumed"}
      PROVE  LInv'
  <2>1. TypesToo' BY <1>5 DEF TypesToo, Completed
  <2>2. EmittedOK' BY <1>5 DEF EmittedOK, Providers, Coroutine
  <2> QED BY <1>4, <1>5, <2>1, <2>2
<1>6. ASSUME NEW c \in Completions, OperationEnds(c) PROVE LInv'
  BY <1>5, <1>6 DEF OperationEnds, Ends
<1>7. ASSUME NEW i, Emit(i), i \in Providers \/ (i = Coroutine /\ connected),
             phase \in {"pending", "queued"}, UNCHANGED <<token, connected, linked>>
      PROVE  LInv'
  <2>1. emitted' = emitted \cup {i} BY <1>7 DEF Emit
  <2>2. CASE phase = "pending" /\ Reaches[i]
    <3>1. phase' = "queued" BY <1>7, <2>2 DEF Emit, Ends
    <3>2. TypesToo' BY <1>7, <3>1 DEF TypesToo, Completed
    <3>3. EmittedOK' BY <1>7, <2>1, <3>1 DEF EmittedOK, Providers, Coroutine
    <3> QED BY <1>4, <1>7, <3>1, <3>2, <3>3
  <2>3. CASE ~(phase = "pending" /\ Reaches[i])
    <3>1. UNCHANGED <<phase, ending, carried>> BY <2>3, <1>7 DEF Emit
    <3>2. TypesToo' BY <1>7, <3>1 DEF TypesToo, Completed
    <3>3. i \in 1..Coroutine /\ HasSlot(i) BY <1>0, <1>7 DEF Providers, HasSlot, Coroutine
    <3>4. phase = "pending" => Hides(i) BY <2>3, <3>3, ReachesOperation
    <3>5. EmittedOK' BY <1>7, <2>1, <3>1, <3>4 DEF EmittedOK, Providers, Coroutine, Hides
    <3> QED BY <1>4, <1>7, <3>1, <3>2, <3>5
  <2> QED BY <2>2, <2>3
<1>8. ASSUME NEW i \in Providers, Expire(i) PROVE LInv'
  BY <1>7, <1>8 DEF Expire
<1>9. CASE ClientEmits BY <1>7, <1>9 DEF ClientEmits
<1>10. CASE CallBinder \/ CallResult BY <1>5, <1>10 DEF CallBinder, CallResult, Calling
<1>11. CASE Resume BY <1>5, <1>11 DEF Resume
<1>12. CASE Ended \/ UNCHANGED vars
  <2>1. UNCHANGED <<token, connected, phase, layer, linked, armed, emitted, ending, carried>>
    BY <1>12 DEF Ended, vars
  <2>2. \A h : HasSlot(h)' <=> HasSlot(h) BY <2>1 DEF HasSlot, Coroutine
  <2> QED BY <2>1, <2>2 DEF TypesToo, Completed, LinkedIs, EmittedOK, Providers, Coroutine, Hides
<1> QED BY <1>1, <1>2, <1>3, <1>6, <1>8, <1>9, <1>10, <1>11, <1>12 DEF Next, Initiate, Complete

LEMMA TypesHold ==
  ASSUME IInv, LInv
  PROVE  TypeOK
<1>1. /\ token \in Tokens /\ connected \in BOOLEAN /\ layer \in 1..Coroutine
      /\ phase \in {"initiating", "pending", "queued", "resuming", "resumed"}
      /\ armed \subseteq Providers
  BY DEF IInv, Types, LInv, TypesToo
<1>2. linked \subseteq {i + 1 : i \in Providers}
  <2> SUFFICES ASSUME NEW h \in linked PROVE h - 1 \in Providers /\ h = (h - 1) + 1 OBVIOUS
  <2>1. h \in 2..Coroutine /\ token[h - 1] = "with_timeout" BY DEF LInv, LinkedIs
  <2>2. token \in Seq(Wrappers) BY DEF IInv, Types
  <2>3. h - 1 \in DOMAIN token BY <2>1, <2>2 DEF Coroutine
  <2> QED BY <2>1, <2>2, <2>3 DEF Providers, Coroutine
<1>3. emitted \subseteq Providers \cup {Coroutine} BY DEF LInv, EmittedOK
<1>4. /\ ending \in Completions \cup {NotEnded}
      /\ carried \in Completions \cup {NotEnded}
                       \cup [sig : {"result"}, holds : Codes \cup Exceptions \cup {"value"}]
  <2>1. CASE ~Completed BY <2>1 DEF LInv, TypesToo
  <2>2. CASE Completed
    <3>1. ending \in Completions /\ carried = IF CalledResult THEN AsResult(ending) ELSE ending
      BY <2>2 DEF IInv, CarriedIs
    <3>2. AsResult(ending) \in [sig : {"result"}, holds : Codes \cup Exceptions \cup {"value"}]
      BY <3>1 DEF AsResult, Result, ResultValue, Completions
    <3> QED BY <3>1, <3>2
  <2> QED BY <2>1, <2>2
<1> QED BY <1>1, <1>2, <1>3, <1>4 DEF TypeOK

-----------------------------------------------------------------------------
\* The inductive invariant holds for tokens of every depth.
THEOREM Invariance == Spec => []IInv
BY InitHolds, StepHolds, PTL DEF Spec

\* No provider of the token has a timer running when the coroutine goes on.
THEOREM TimersCancelled == Spec => []NoTimerLeft
<1>1. IInv => NoTimerLeft
  BY DEF IInv, Types, InOrder, CalledIsCancelled, Completed, NoTimerLeft, Coroutine, Providers
<1> QED BY <1>1, Invariance, PTL

\* The coroutine has a value, and prints no error, exactly when the operation
\* succeeded, and is thrown at only where no as_result is in its token.
THEOREM OutcomeFaithful == Spec => []OutcomeKept
<1>1. IInv => OutcomeKept
  BY Faithful DEF OutcomeKept
<1> QED BY <1>1, Invariance, PTL

LEMMA SignalsInvariance == Spec => []LInv
BY Invariance, SignalsInit, SignalsStep, PTL DEF Spec

\* TypeOK: only the slot of a handler that a with_timeout wraps ever holds a
\* provider's lambda, only providers of the token and the coroutine emit, and
\* what the handlers are called with is a completion or as_result's result.
THEOREM TypeCorrect == Spec => []TypeOK
BY Invariance, SignalsInvariance, TypesHold, PTL

\* SignalsReach: however deep the token, a timeout or the client's cancellation
\* that with_timeout's init_wrapper linked gets to the operation; one is emitted
\* in vain only where an as_result is outside of it.
THEOREM SignalsReachHolds == Spec => []SignalsReach
<1>1. LInv => SignalsReach BY DEF LInv, EmittedOK, Hides, SignalsReach
<1> QED BY <1>1, SignalsInvariance, PTL
=============================================================================
