------------------------- MODULE ErrorHandlerProofs -------------------------
(***************************************************************************)
(* Theorems about ErrorHandler, for any number of handlers, functions and  *)
(* signals: that the process owes no cleanup when it is gone, that signals *)
(* do not disturb a cleanup, and that none is lost unless a block was left *)
(* without cleanup.                                                        *)
(***************************************************************************)
EXTENDS ErrorHandler, SequenceTheorems, TLAPS

TypeOK ==
    /\ pc \in {"run", "ended", "dead"}
    /\ stack \in Seq(Handler) /\ made \in 0..Last
    /\ how \in [Handler -> How] /\ regular \in [Handler -> BOOLEAN]
    /\ funcs \in [Handler -> Nat]
    /\ received \in [Handler -> Nat] /\ called \in [Handler -> Nat]
    /\ disp \in Handler \cup {Default} /\ prev \in [Handler -> Handler \cup {Default}]
    /\ exc \in {"none", "error", "signal", "exit", "interrupt"}

(* The blocks that are not left were entered one in the other.             *)
Nested ==
    /\ \A n \in 1..Len(stack) : stack[n] <= made
    /\ \A m, n \in 1..Len(stack) : m < n => stack[m] < stack[n]
    /\ \A h \in Handler : h > made => how[h] = "new"

(* All but the innermost are in their bodies, and the blocks that were     *)
(* left owe nothing.                                                       *)
OnStack(h) == \E n \in 1..Len(stack) : stack[n] = h
Owing ==
    /\ \A n \in 1..Len(stack) : how[stack[n]] = "open" \/
                                (n = Len(stack) /\ how[stack[n]] \in {"cleanup", "cleaned"})
    /\ \A h \in 1..made : OnStack(h) \/ how[h] \in {"passed", "cut", "cleaned"}
    /\ \A h \in Handler : how[h] = "cleaned" => funcs[h] = 0

(* Every handler puts back the one of the block around it, or one that a   *)
(* block without cleanup, or whose __exit__ was cut, has left behind.      *)
Around(n) == IF n = 1 THEN Default ELSE stack[n - 1]
OrStale(d, h) == d = h \/ d \in Stale
Chain ==
    /\ \A n \in 1..Len(stack) : OrStale(prev[stack[n]], Around(n))
    /\ stack = <<>> => OrStale(disp, Default)
    /\ stack # <<>> =>
          OrStale(disp, IF how[Top] = "cleaned" THEN Around(Len(stack)) ELSE Top)

(* A signal that was received is on its way out: a block around has        *)
(* received it too, and none of those is left before it is sent again.     *)
OnItsWay ==
    Stale = {} /\ pc = "run" =>
        /\ stack # <<>> /\ exc = "signal" => received[Top] > 0
        /\ \A h \in Handler : called[h] = 0 \/ (h <= made /\ ~ OnStack(h))
        /\ (\E h \in Handler : received[h] > 0) =>
              \E n \in 1..Len(stack) : received[stack[n]] > 0

IInv == TypeOK /\ Nested /\ Owing /\ Chain /\ OnItsWay /\ CleanedBeforeGone

USE BoundAssumption

-----------------------------------------------------------------------------
(* The stack without its last handler.                                     *)
LEMMA TopOuter ==
    ASSUME stack \in Seq(Handler), stack # <<>>
    PROVE  /\ Len(stack) \in Nat \ {0} /\ Top = stack[Len(stack)] /\ Top \in Handler
           /\ Outer \in Seq(Handler) /\ Len(Outer) = Len(stack) - 1
           /\ \A n \in 1..(Len(stack) - 1) : Outer[n] = stack[n]
           /\ \A n \in 1..Len(stack) : stack[n] \in Handler
<1>1. Len(stack) \in Nat \ {0}
  OBVIOUS
<1>2. \A n \in 1..Len(stack) : stack[n] \in Handler
  OBVIOUS
<1>3. Len(stack) - 1 \in 0..Len(stack) /\ \A n \in 1..(Len(stack) - 1) : stack[n] \in Handler
  BY <1>1, <1>2
<1>4. /\ Outer \in Seq(Handler) /\ Len(Outer) = Len(stack) - 1
      /\ \A n \in 1..(Len(stack) - 1) : Outer[n] = stack[n]
  <2> DEFINE n == Len(stack) - 1
  <2>1. 1 \in Int /\ n \in Int /\ n - 1 + 1 = n /\ \A i \in 1..n : 1 + i - 1 = i
    BY <1>1
  <2>2. /\ SubSeq(stack, 1, n) \in Seq(Handler)
        /\ Len(SubSeq(stack, 1, n)) = IF 1 <= n THEN n - 1 + 1 ELSE 0
        /\ \A i \in 1..(n - 1 + 1) : SubSeq(stack, 1, n)[i] = stack[1 + i - 1]
    BY <1>3, <2>1, SubSeqProperties
  <2> HIDE DEF n
  <2> QED
    BY <1>1, <2>1, <2>2 DEF Outer, n
<1> QED
  BY <1>1, <1>2, <1>4 DEF Top

LEMMA IInvInit == Init => IInv
<1> SUFFICES ASSUME Init PROVE IInv
  OBVIOUS
<1>1. TypeOK
  BY DEF Init, TypeOK, How
<1>2. Len(stack) = 0
  BY DEF Init
<1> QED
  BY <1>1, <1>2
     DEF Init, IInv, Nested, Owing, Chain, OrStale, Stale, OnItsWay, CleanedBeforeGone, OnStack

(* When no handler is entered or left.                                     *)
LEMMA StackSame ==
    ASSUME IInv, UNCHANGED <<stack, made, prev>>, how' \in [Handler -> How],
           \A h \in Handler : OnStack(h) \/ how'[h] = how[h],
           \A n \in 1..(Len(stack) - 1) : how'[stack[n]] = "open",
           stack # <<>> => how'[Top] \in {"open", "cleanup", "cleaned"},
           \A h \in Handler : how'[h] = "cleaned" => funcs'[h] = 0,
           stack = <<>> => disp' = disp,
           stack # <<>> =>
              OrStale(disp', IF how'[Top] = "cleaned" THEN Around(Len(stack)) ELSE Top)
    PROVE  Nested' /\ Owing' /\ Chain'
<1>1. \A h \in Handler : OnStack(h)' <=> OnStack(h)
  BY DEF OnStack
<1>2. \A h \in Stale : h \in Stale'
  BY DEF OnStack, IInv, Owing, Stale
<1>3. Nested'
  <2>1. \A h \in Handler : OnStack(h) => h <= made
    BY DEF IInv, Nested, OnStack
  <2>2. \A h \in Handler : h > made => ~ (h <= made)
    BY DEF IInv, TypeOK, Handler
  <2> QED
    BY <2>1, <2>2 DEF IInv, Nested
<1>4. Owing'
  <2>1. \A n \in 1..Len(stack) :
           how'[stack[n]] = "open" \/ (n = Len(stack) /\ how'[stack[n]] \in {"cleanup", "cleaned"})
    <3>1. SUFFICES ASSUME NEW n \in 1..Len(stack)
                   PROVE  \/ how'[stack[n]] = "open"
                          \/ n = Len(stack) /\ how'[stack[n]] \in {"cleanup", "cleaned"}
      OBVIOUS
    <3>2. stack # <<>> /\ Len(stack) \in Nat /\ Top = stack[Len(stack)]
      BY DEF IInv, TypeOK, Top
    <3>3. n = Len(stack) \/ n \in 1..(Len(stack) - 1)
      BY <3>2
    <3> QED
      BY <3>2, <3>3
  <2>2. \A h \in 1..made : h \in Handler
    BY DEF IInv, TypeOK, Handler
  <2> QED
    BY <1>1, <2>1, <2>2 DEF IInv, Owing
<1>5. Chain'
  <2>1. \A n \in 1..Len(stack) : Around(n)' = Around(n)
    BY DEF Around
  <2>2. \A d, h : OrStale(d, h) => OrStale(d, h)'
    BY <1>2 DEF OrStale
  <2>3. \A n \in 1..Len(stack) : OrStale(prev[stack[n]], Around(n))'
    BY <1>2, <2>1 DEF IInv, Chain, OrStale
  <2>4. stack = <<>> => OrStale(disp, Default)'
    BY <2>2 DEF IInv, Chain, OrStale
  <2>5. stack # <<>> =>
          OrStale(disp, IF how[Top] = "cleaned" THEN Around(Len(stack)) ELSE Top)'
    <3> SUFFICES ASSUME stack # <<>>
                 PROVE OrStale(disp, IF how[Top] = "cleaned" THEN Around(Len(stack)) ELSE Top)'
      OBVIOUS
    <3>1. Top' = Top /\ Len(stack) \in 1..Len(stack)
      BY TopOuter DEF Top, IInv, TypeOK
    <3> QED
      BY <1>2, <2>1, <3>1 DEF OrStale
  <2> QED
    BY <2>3, <2>4, <2>5 DEF Chain
<1> QED
  BY <1>3, <1>4, <1>5

(* Where the program is.                                                   *)
LEMMA Where ==
    ASSUME IInv, stack # <<>>
    PROVE  /\ Len(stack) \in Nat \ {0} /\ Len(stack) \in 1..Len(stack)
           /\ Top = stack[Len(stack)] /\ Top \in Handler /\ Top \in 1..made /\ OnStack(Top)
           /\ how[Top] \in {"open", "cleanup", "cleaned"}
           /\ \A n \in 1..Len(stack) : stack[n] \in Handler
           /\ \A n \in 1..(Len(stack) - 1) : how[stack[n]] = "open"
           /\ OrStale(disp, IF how[Top] = "cleaned" THEN Around(Len(stack)) ELSE Top)
<1>1. /\ Len(stack) \in Nat \ {0} /\ Top = stack[Len(stack)] /\ Top \in Handler
      /\ \A n \in 1..Len(stack) : stack[n] \in Handler
  BY TopOuter DEF IInv, TypeOK
<1>2. Len(stack) \in 1..Len(stack)
  BY <1>1
<1>3. how[Top] \in {"open", "cleanup", "cleaned"}
  BY <1>1, <1>2 DEF IInv, Owing
<1>4. Top \in 1..made
  BY <1>1, <1>2 DEF IInv, TypeOK, Nested, Handler
<1>5. \A n \in 1..(Len(stack) - 1) : n \in 1..Len(stack) /\ n # Len(stack)
  BY <1>1
<1>6. \A n \in 1..(Len(stack) - 1) : how[stack[n]] = "open"
  BY <1>5 DEF IInv, Owing
<1>7. OrStale(disp, IF how[Top] = "cleaned" THEN Around(Len(stack)) ELSE Top)
  BY DEF IInv, Chain
<1> QED
  BY <1>1, <1>2, <1>3, <1>4, <1>6, <1>7 DEF OnStack

(* When the innermost block is left.                                       *)
LEMMA StackPopped ==
    ASSUME IInv, stack # <<>>, stack' = Outer, UNCHANGED <<made, funcs, disp, prev>>,
           how' \in [Handler -> How], \A h \in Handler \ {Top} : how'[h] = how[h],
           \/ how'[Top] \in {"passed", "cut"}
           \/ how[Top] = "cleaned" /\ how'[Top] = "cleaned"
    PROVE  /\ Nested' /\ Owing' /\ Chain'
           /\ \A h \in Handler : OnStack(h) => OnStack(h)' \/ h = Top
           /\ \A h \in Handler : OnStack(h)' => OnStack(h) /\ h # Top
<1>1. /\ Len(stack) \in Nat \ {0} /\ Top = stack[Len(stack)] /\ Top \in Handler
      /\ stack' \in Seq(Handler) /\ Len(stack') = Len(stack) - 1
      /\ \A n \in 1..Len(stack') : n \in 1..Len(stack) /\ stack'[n] = stack[n]
      /\ \A n \in 1..Len(stack) : stack[n] \in Handler
  <2>1. stack \in Seq(Handler)
    BY DEF IInv, TypeOK
  <2> QED
    BY <2>1, TopOuter
<1>2. \A n \in 1..Len(stack') : stack[n] # Top /\ how'[stack[n]] = "open"
  <2>1. SUFFICES ASSUME NEW n \in 1..Len(stack')
                 PROVE  stack[n] # Top /\ how'[stack[n]] = "open"
    OBVIOUS
  <2>2. n \in 1..Len(stack) /\ n < Len(stack) /\ Len(stack) \in 1..Len(stack)
    BY <1>1
  <2>3. stack[n] < Top
    BY <1>1, <2>2 DEF IInv, Nested
  <2>4. stack[n] # Top /\ stack[n] \in Handler
    BY <1>1, <2>2, <2>3 DEF Handler
  <2> QED
    BY <2>2, <2>4 DEF IInv, Owing
<1>3. \A h \in Handler : OnStack(h) => OnStack(h)' \/ h = Top
  BY <1>1 DEF OnStack
<1>4. \A h \in Handler : OnStack(h)' => OnStack(h) /\ h # Top
  BY <1>1, <1>2 DEF OnStack
<1>5. Nested'
  <2>1. \A h \in Handler : h > made => h # Top
    <3>1. Top \in 1..made /\ made \in Nat
      BY Where DEF IInv, TypeOK
    <3> QED
      BY <3>1 DEF Handler
  <2> QED
    BY <1>1, <2>1 DEF IInv, Nested
<1>6. Owing'
  <2>1. \A h \in 1..made : h \in Handler
    BY DEF IInv, TypeOK, Handler
  <2>2. \A h \in 1..made : OnStack(h)' \/ how'[h] \in {"passed", "cut", "cleaned"}
    BY <1>1, <1>3, <2>1 DEF IInv, Owing
  <2>3. \A h \in Handler : how'[h] = "cleaned" => funcs'[h] = 0
    BY DEF IInv, Owing
  <2> QED
    BY <1>1, <1>2, <2>2, <2>3 DEF Owing
<1>7. Chain'
  <2>1. \A h \in Stale : h \in Stale'
    BY <1>1, Where DEF Stale
  <2>2. \A n \in 1..Len(stack') : OrStale(prev[stack[n]], Around(n))'
    <3>1. \A n \in 1..Len(stack') : Around(n)' = Around(n)
      BY <1>1 DEF Around
    <3> QED
      BY <1>1, <2>1, <3>1 DEF IInv, Chain, OrStale
  <2>3. CASE OrStale(disp, Around(Len(stack)))
    <3>1. CASE Len(stack) = 1
      <4>1. stack' = <<>> /\ OrStale(disp, Default)
        BY <1>1, <2>3, <3>1 DEF Around
      <4> QED
        BY <1>1, <2>1, <2>2, <4>1 DEF Chain, OrStale
    <3>2. CASE Len(stack) # 1
      <4>1. /\ stack' # <<>> /\ Top' = stack[Len(stack) - 1]
            /\ Len(stack) - 1 \in 1..Len(stack')
        BY <1>1, <3>2 DEF Top
      <4>2. OrStale(disp, Top') /\ how'[Top'] = "open"
        BY <1>1, <1>2, <2>3, <3>2, <4>1 DEF Around
      <4> QED
        BY <1>1, <2>1, <2>2, <4>1, <4>2 DEF Chain, OrStale
    <3> QED
      BY <3>1, <3>2
  <2>4. CASE disp \in Stale'
    BY <1>1, <2>2, <2>4 DEF Chain, OrStale
  <2>5. OrStale(disp, Around(Len(stack))) \/ disp \in Stale'
    <3>1. OrStale(disp, IF how[Top] = "cleaned" THEN Around(Len(stack)) ELSE Top)
      BY DEF IInv, Chain
    <3>2. how[Top] = "cleaned" \/ Top \in Stale'
      BY <1>1 DEF Stale
    <3> QED
      BY <2>1, <3>1, <3>2 DEF OrStale
  <2> QED
    BY <2>3, <2>4, <2>5
<1> QED
  BY <1>3, <1>4, <1>5, <1>6, <1>7

-----------------------------------------------------------------------------
LEMMA WaySame ==
    ASSUME IInv, UNCHANGED <<stack, made, received, called, exc, pc>>,
           \A h \in Stale : h \in Stale'
    PROVE  OnItsWay'
<1>1. Stale' = {} => Stale = {}
  OBVIOUS
<1>2. \A h \in Handler : OnStack(h)' <=> OnStack(h)
  BY DEF OnStack
<1>3. Top' = Top
  BY DEF Top
<1> QED
  BY <1>1, <1>2, <1>3 DEF IInv, OnItsWay

LEMMA HandlersSame ==
    ASSUME IInv, UNCHANGED <<stack, made, how, funcs, disp, prev>>
    PROVE  Nested' /\ Owing' /\ Chain'
<1>1. how' \in [Handler -> How] /\ \A h \in Handler : how'[h] = "cleaned" => funcs'[h] = 0
  BY DEF IInv, TypeOK, Owing
<1>2. stack # <<>> =>
         /\ how[Top] \in {"open", "cleanup", "cleaned"}
         /\ OrStale(disp, IF how[Top] = "cleaned" THEN Around(Len(stack)) ELSE Top)
  BY Where
<1>3. \A n \in 1..(Len(stack) - 1) : how[stack[n]] = "open"
  <2>1. CASE stack = <<>>
    BY <2>1
  <2>2. CASE stack # <<>>
    BY <2>2, Where
  <2> QED
    BY <2>1, <2>2
<1> QED
  BY <1>1, <1>2, <1>3, StackSame

(* No block that is not left is there when the program is over.            *)
LEMMA AllLeft ==
    ASSUME IInv, stack = <<>>, NEW h \in 1..made
    PROVE  how[h] \in {"passed", "cut"} \/ (how[h] = "cleaned" /\ funcs[h] = 0)
<1>1. h \in Handler
  BY DEF IInv, TypeOK, Handler
<1>2. ~ OnStack(h)
  BY DEF OnStack
<1> QED
  BY <1>1, <1>2 DEF IInv, Owing

LEMMA RaiseCatchEndIInv ==
    ASSUME IInv, (\E e \in {"error", "exit", "interrupt"} : Raise(e)) \/ Catch \/ End PROVE IInv'
<1>1. UNCHANGED <<stack, made, how, regular, funcs, received, called, disp, prev>> /\ pc = "run"
  BY DEF Raise, Catch, End, InBody
<1>2. TypeOK'
  BY <1>1 DEF IInv, TypeOK, Raise, Catch, End
<1>3. Nested' /\ Owing' /\ Chain'
  BY <1>1, HandlersSame
<1>4. OnItsWay'
  <2>1. Stale' = Stale /\ Top' = Top /\ \A h \in Handler : OnStack(h)' <=> OnStack(h)
    BY <1>1 DEF Stale, Top, OnStack
  <2>2. pc' = "run" => exc' # "signal"
    BY DEF Raise, Catch, End
  <2> QED
    BY <1>1, <2>1, <2>2 DEF IInv, OnItsWay
<1>5. CleanedBeforeGone'
  <2>1. CASE pc' = "run"
    BY <2>1 DEF CleanedBeforeGone
  <2>2. CASE End
    BY <1>1, <2>2, AllLeft DEF End, CleanedBeforeGone
  <2> QED
    BY <1>1, <2>1, <2>2 DEF Raise, Catch
<1> QED
  BY <1>2, <1>3, <1>4, <1>5 DEF IInv

LEMMA FuncsIInv == ASSUME IInv, Register \/ CallFunc PROVE IInv'
<1>1. /\ stack # <<>> /\ Top \in Handler /\ how[Top] \in {"open", "cleanup"} /\ pc = "run"
      /\ funcs' = [funcs EXCEPT ![Top] = funcs[Top] + 1]
         \/ (funcs[Top] > 0 /\ funcs' = [funcs EXCEPT ![Top] = funcs[Top] - 1])
      /\ UNCHANGED <<pc, stack, made, how, regular, received, called, disp, prev, exc, sent>>
  BY Where DEF Register, CallFunc, InBody, InExit
<1>2. funcs[Top] \in Nat /\ (funcs[Top] > 0 => funcs[Top] - 1 \in Nat)
  BY <1>1 DEF IInv, TypeOK
<1>3. TypeOK'
  <2>1. \A n \in Nat : [funcs EXCEPT ![Top] = n] \in [Handler -> Nat]
    BY DEF IInv, TypeOK
  <2>2. funcs[Top] + 1 \in Nat
    BY <1>2
  <2>3. funcs' \in [Handler -> Nat]
    BY <1>1, <1>2, <2>1, <2>2
  <2> QED
    BY <1>1, <2>3 DEF IInv, TypeOK
<1>4. \A h \in Handler : how'[h] = "cleaned" => funcs'[h] = 0
  BY <1>1 DEF IInv, TypeOK, Owing
<1>5. how' \in [Handler -> How]
  BY <1>3 DEF TypeOK
<1>6. Nested' /\ Owing' /\ Chain'
  BY <1>1, <1>4, <1>5, Where, StackSame
<1>7. OnItsWay'
  BY <1>1, WaySame DEF Stale
<1> QED
  BY <1>1, <1>3, <1>6, <1>7 DEF IInv, CleanedBeforeGone

LEMMA ResetIInv == ASSUME IInv, ResetSignalHandlers PROVE IInv'
<1>1. /\ stack # <<>> /\ Top \in Handler /\ how[Top] = "cleanup" /\ pc = "run"
      /\ funcs[Top] = 0 /\ disp' = prev[Top] /\ how' = [how EXCEPT ![Top] = "cleaned"]
      /\ UNCHANGED <<pc, stack, made, regular, funcs, received, called, prev, exc, sent>>
  BY Where DEF ResetSignalHandlers, InExit
<1>2. \A h \in Handler : how'[h] = IF h = Top THEN "cleaned" ELSE how[h]
  BY <1>1 DEF IInv, TypeOK
<1>3. TypeOK'
  BY <1>1 DEF IInv, TypeOK, How
<1>4. \A h \in Handler : how'[h] = "cleaned" => funcs'[h] = 0
  BY <1>1, <1>2 DEF IInv, Owing
<1>5. how' \in [Handler -> How]
  BY <1>3 DEF TypeOK
<1>6. OrStale(prev[Top], Around(Len(stack)))
  BY <1>1, Where DEF IInv, Chain
<1>7. \A n \in 1..(Len(stack) - 1) : how'[stack[n]] = "open"
  <2>1. \A n \in 1..(Len(stack) - 1) : n \in 1..Len(stack) /\ stack[n] \in Handler
    BY <1>1, Where
  <2> QED
    BY <1>1, <1>2, <2>1, Where
<1>8. \A h \in Handler : OnStack(h) \/ how'[h] = how[h]
  BY <1>1, <1>2, Where
<1>9. Nested' /\ Owing' /\ Chain'
  BY <1>1, <1>2, <1>4, <1>5, <1>6, <1>7, <1>8, StackSame
<1>10. OnItsWay'
  BY <1>1, <1>2, WaySame DEF Stale
<1> QED
  BY <1>1, <1>3, <1>9, <1>10 DEF IInv, CleanedBeforeGone

LEMMA ExitIInv == ASSUME IInv, Exit PROVE IInv'
<1>1. /\ stack # <<>> /\ Top \in Handler /\ how[Top] = "open" /\ pc = "run"
      /\ UNCHANGED <<pc, made, regular, funcs, received, called, disp, prev, exc, sent>>
  BY Where DEF Exit, InBody
<1>2. CASE NoCleanup(Top)
  <2>1. how' = [how EXCEPT ![Top] = "passed"] /\ stack' = Outer
    BY <1>2 DEF Exit
  <2>2. \A h \in Handler : how'[h] = IF h = Top THEN "passed" ELSE how[h]
    BY <1>1, <2>1 DEF IInv, TypeOK
  <2>3. TypeOK'
    BY <1>1, <2>1, TopOuter DEF IInv, TypeOK, How
  <2>4. how' \in [Handler -> How]
    BY <2>3 DEF TypeOK
  <2>5. Nested' /\ Owing' /\ Chain'
    BY <1>1, <2>1, <2>2, <2>4, StackPopped
  <2>6. OnItsWay'
    BY <1>1, <2>2 DEF OnItsWay, Stale
  <2> QED
    BY <1>1, <2>3, <2>5, <2>6 DEF IInv, CleanedBeforeGone
<1>3. CASE ~ NoCleanup(Top)
  <2>1. how' = [how EXCEPT ![Top] = "cleanup"] /\ stack' = stack
    BY <1>3 DEF Exit
  <2>2. \A h \in Handler : how'[h] = IF h = Top THEN "cleanup" ELSE how[h]
    BY <1>1, <2>1 DEF IInv, TypeOK
  <2>3. TypeOK'
    BY <1>1, <2>1 DEF IInv, TypeOK, How
  <2>4. how' \in [Handler -> How] /\ \A h \in Handler : how'[h] = "cleaned" => funcs'[h] = 0
    BY <1>1, <2>2, <2>3 DEF TypeOK, IInv, Owing
  <2>5. \A n \in 1..(Len(stack) - 1) : how'[stack[n]] = "open"
    <3>1. \A n \in 1..(Len(stack) - 1) : n \in 1..Len(stack) /\ stack[n] \in Handler
      BY <1>1, Where
    <3>2. \A n \in 1..(Len(stack) - 1) : stack[n] # Top
      <4>1. \A n \in 1..(Len(stack) - 1) : n < Len(stack)
        BY <1>1, Where
      <4>2. \A n \in 1..(Len(stack) - 1) : stack[n] < Top
        BY <1>1, <3>1, <4>1, Where DEF IInv, Nested
      <4> QED
        BY <1>1, <3>1, <4>2 DEF Handler
    <3> QED
      BY <1>1, <2>2, <3>1, <3>2, Where
  <2>6. \A h \in Handler : OnStack(h) \/ how'[h] = how[h]
    BY <1>1, <2>2, Where
  <2>7. Nested' /\ Owing' /\ Chain'
    BY <1>1, <2>1, <2>2, <2>4, <2>5, <2>6, Where, StackSame
  <2>8. OnItsWay'
    BY <1>1, <2>1, <2>2, WaySame DEF Stale
  <2> QED
    BY <1>1, <2>3, <2>7, <2>8 DEF IInv, CleanedBeforeGone
<1> QED
  BY <1>2, <1>3

(* The block that is cut is left, and its handler is stale from now on.    *)
LEMMA ExitCutIInv == ASSUME IInv, NEW e \in {"exit", "interrupt"}, ExitCut(e) PROVE IInv'
<1>1. /\ stack # <<>> /\ Top \in Handler /\ pc = "run" /\ stack' = Outer /\ exc' = e
      /\ how' = [how EXCEPT ![Top] = "cut"]
      /\ UNCHANGED <<pc, made, regular, funcs, received, called, disp, prev, sent>>
  BY Where DEF ExitCut, InExit
<1>2. \A h \in Handler : how'[h] = IF h = Top THEN "cut" ELSE how[h]
  BY <1>1 DEF IInv, TypeOK
<1>3. TypeOK'
  BY <1>1, TopOuter DEF IInv, TypeOK, How
<1>4. how' \in [Handler -> How]
  BY <1>3 DEF TypeOK
<1>5. Nested' /\ Owing' /\ Chain'
  BY <1>1, <1>2, <1>4, StackPopped
<1>6. OnItsWay'
  BY <1>1, <1>2 DEF OnItsWay, Stale
<1> QED
  BY <1>1, <1>3, <1>5, <1>6 DEF IInv, CleanedBeforeGone

LEMMA ReturnIInv == ASSUME IInv, Return PROVE IInv'
<1>1. /\ stack # <<>> /\ Top \in Handler /\ how[Top] = "cleaned" /\ pc = "run"
      /\ called[Top] = received[Top] /\ stack' = Outer /\ exc' # "signal"
      /\ exc' \in {"none", "error", "signal", "exit", "interrupt"}
      /\ UNCHANGED <<pc, made, how, regular, funcs, received, called, disp, prev, sent>>
  BY Where DEF Return, InExit, IInv, TypeOK
<1>2. TypeOK'
  BY <1>1, TopOuter DEF IInv, TypeOK
<1>3. how' \in [Handler -> How]
  BY <1>2 DEF TypeOK
<1>4. /\ Nested' /\ Owing' /\ Chain'
      /\ \A h \in Handler : OnStack(h) => OnStack(h)' \/ h = Top
      /\ \A h \in Handler : OnStack(h)' => OnStack(h) /\ h # Top
  BY <1>1, <1>3, StackPopped
<1>5. OnItsWay'
  <2> SUFFICES ASSUME Stale = {}
               PROVE  /\ \A h \in Handler : called[h] = 0 \/ (h <= made /\ ~ OnStack(h)')
                      /\ (\E h \in Handler : received[h] > 0) =>
                            \E n \in 1..Len(stack') : received[stack'[n]] > 0
    BY <1>1 DEF OnItsWay, Stale
  <2>1. received[Top] = 0
    BY <1>1, Where DEF IInv, OnItsWay
  <2>2. ASSUME NEW h \in Handler, received[h] > 0
        PROVE  \E n \in 1..Len(stack') : received[stack'[n]] > 0
    <3>1. PICK g \in Handler : OnStack(g) /\ received[g] > 0
      BY <1>1, <2>2, Where DEF IInv, OnItsWay, OnStack
    <3>2. OnStack(g)'
      BY <1>4, <2>1, <3>1
    <3> QED
      BY <3>1, <3>2 DEF OnStack
  <2> QED
    BY <1>1, <1>4, <2>2 DEF IInv, OnItsWay
<1> QED
  BY <1>1, <1>2, <1>4, <1>5 DEF IInv, CleanedBeforeGone

(* A new handler is above all others and has received nothing.             *)
LEMMA EnterIInv == ASSUME IInv, NEW b \in BOOLEAN, Enter(b) PROVE IInv'
<1> DEFINE new == made + 1
           len == Len(stack)
<1>1. /\ pc = "run" /\ exc = "none" /\ made' = new /\ disp' = new
      /\ new \in Handler /\ made \in Nat /\ stack' = Append(stack, new)
      /\ how' = [how EXCEPT ![new] = "open"] /\ prev' = [prev EXCEPT ![new] = disp]
      /\ UNCHANGED <<pc, received, called, exc, sent>>
  BY DEF Enter, InBody, IInv, TypeOK, Handler
<1>2. /\ len \in Nat /\ stack' \in Seq(Handler) /\ Len(stack') = len + 1
      /\ \A n \in 1..len : stack'[n] = stack[n] /\ stack[n] \in Handler
      /\ stack'[len + 1] = new
  BY <1>1 DEF IInv, TypeOK
<1>3. TypeOK'
  <2>1. regular' \in [Handler -> BOOLEAN] /\ funcs' \in [Handler -> Nat]
    BY DEF Enter, IInv, TypeOK
  <2>2. /\ how' \in [Handler -> How] /\ prev' \in [Handler -> Handler \cup {Default}]
        /\ made' \in 0..Last
    BY <1>1 DEF IInv, TypeOK, How, Handler
  <2> QED
    BY <1>1, <1>2, <2>1, <2>2 DEF IInv, TypeOK
<1>4. /\ \A h \in Handler : how'[h] = IF h = new THEN "open" ELSE how[h]
      /\ \A h \in Handler : prev'[h] = IF h = new THEN disp ELSE prev[h]
      /\ \A h \in Handler : h # new => funcs'[h] = funcs[h]
  BY <1>1 DEF Enter, IInv, TypeOK
<1>5. \A n \in 1..len : stack[n] <= made /\ stack[n] < new /\ stack[n] # new
  BY <1>1, <1>2 DEF IInv, Nested, Handler
<1>6. how[new] = "new"
  BY <1>1 DEF IInv, Nested
<1>7. \A n \in 1..Len(stack') : n = len + 1 \/ n \in 1..len
  BY <1>2
<1>8. /\ \A h \in Handler : OnStack(h) => OnStack(h)' /\ h # new
      /\ \A h \in Handler : OnStack(h)' => OnStack(h) \/ h = new
      /\ \A h \in Handler : h = new => OnStack(h)'
  <2>1. ASSUME NEW h \in Handler, OnStack(h) PROVE OnStack(h)' /\ h # new
    <3>1. PICK n \in 1..len : stack[n] = h
      BY <2>1 DEF OnStack
    <3>2. n \in 1..Len(stack') /\ stack'[n] = h
      BY <1>2, <3>1
    <3> QED
      BY <1>5, <3>1, <3>2 DEF OnStack
  <2>2. ASSUME NEW h \in Handler, OnStack(h)' PROVE OnStack(h) \/ h = new
    <3>1. PICK n \in 1..Len(stack') : stack'[n] = h
      BY <2>2 DEF OnStack
    <3> QED
      BY <1>2, <1>7, <3>1 DEF OnStack
  <2>3. len + 1 \in 1..Len(stack')
    BY <1>2
  <2> QED
    BY <1>2, <2>1, <2>2, <2>3 DEF OnStack
<1>9. Nested'
  <2>1. \A n \in 1..Len(stack') : stack'[n] <= made'
    BY <1>1, <1>2, <1>5, <1>7 DEF Handler
  <2>2. \A m, n \in 1..Len(stack') : m < n => stack'[m] < stack'[n]
    <3>1. SUFFICES ASSUME NEW m \in 1..Len(stack'), NEW n \in 1..Len(stack'), m < n
                   PROVE  stack'[m] < stack'[n]
      OBVIOUS
    <3>2. m \in 1..len
      BY <1>2, <3>1
    <3>3. CASE n = len + 1
      BY <1>2, <1>5, <3>2, <3>3
    <3>4. CASE n \in 1..len
      BY <1>2, <3>1, <3>2, <3>4 DEF IInv, Nested
    <3> QED
      BY <1>7, <3>3, <3>4
  <2>3. \A h \in Handler : h > made' => how'[h] = "new"
    BY <1>1, <1>4 DEF IInv, Nested, Handler
  <2> QED
    BY <2>1, <2>2, <2>3 DEF Nested
<1>10. \A n \in 1..len : how[stack[n]] = "open"
  <2>1. CASE stack = <<>>
    BY <2>1
  <2>2. CASE stack # <<>>
    BY <2>2, Where DEF Enter, InBody, IInv, Owing
  <2> QED
    BY <2>1, <2>2
<1>11. Owing'
  <2>1. \A n \in 1..Len(stack') : how'[stack'[n]] = "open"
    BY <1>1, <1>2, <1>4, <1>5, <1>7, <1>10
  <2>2. \A h \in 1..made' : h \in Handler /\ (h = new \/ h \in 1..made)
    BY <1>1 DEF Handler
  <2>3. \A h \in 1..made' : OnStack(h)' \/ how'[h] \in {"passed", "cut", "cleaned"}
    <3>1. SUFFICES ASSUME NEW h \in 1..made'
                   PROVE  OnStack(h)' \/ how'[h] \in {"passed", "cut", "cleaned"}
      OBVIOUS
    <3>2. CASE h = new
      BY <1>8, <2>2, <3>2
    <3>3. CASE h # new
      BY <1>4, <1>8, <2>2, <3>3 DEF IInv, Owing
    <3> QED
      BY <3>2, <3>3
  <2>4. \A h \in Handler : how'[h] = "cleaned" => funcs'[h] = 0
    BY <1>4 DEF IInv, Owing
  <2> QED
    BY <2>1, <2>3, <2>4 DEF Owing
<1>12. Chain'
  <2>1. \A h \in Stale : h \in Stale'
    BY <1>4, <1>6 DEF Stale
  <2>2. OrStale(disp, IF stack = <<>> THEN Default ELSE Top)
    BY Where DEF Enter, InBody, IInv, Chain
  <2>3. \A n \in 1..Len(stack') : OrStale(prev[stack[n]], Around(n))'
    <3>1. SUFFICES ASSUME NEW n \in 1..Len(stack') PROVE OrStale(prev[stack[n]], Around(n))'
      OBVIOUS
    <3>2. CASE n \in 1..len
      <4>1. Around(n)' = Around(n)
        BY <1>2, <3>2 DEF Around
      <4>2. prev'[stack'[n]] = prev[stack[n]]
        BY <1>2, <1>4, <1>5, <3>2
      <4> QED
        BY <2>1, <3>2, <4>1, <4>2 DEF IInv, Chain, OrStale
    <3>3. CASE n = len + 1
      <4>1. prev'[stack'[n]] = disp
        BY <1>1, <1>2, <1>4, <3>3
      <4>2. Around(n)' = IF stack = <<>> THEN Default ELSE Top
        <5>1. Around(n)' = IF len + 1 = 1 THEN Default ELSE stack'[len + 1 - 1]
          BY <3>3 DEF Around
        <5>2. CASE len = 0
          BY <5>1, <5>2 DEF IInv, TypeOK
        <5>3. CASE len # 0
          <6>1. len \in 1..len /\ len + 1 - 1 = len /\ len + 1 # 1 /\ stack # <<>>
            BY <1>2, <5>3
          <6> QED
            BY <1>2, <5>1, <6>1 DEF Top
        <5> QED
          BY <5>2, <5>3
      <4> QED
        BY <2>1, <2>2, <4>1, <4>2 DEF OrStale
    <3> QED
      BY <1>7, <3>2, <3>3
  <2>4. stack' # <<>> /\ Top' = new /\ how'[new] = "open"
    BY <1>1, <1>2, <1>4 DEF Top
  <2> QED
    BY <1>1, <2>3, <2>4 DEF Chain, OrStale
<1>13. OnItsWay'
  <2> SUFFICES ASSUME Stale' = {}
               PROVE  /\ \A h \in Handler : called[h] = 0 \/ (h <= made' /\ ~ OnStack(h)')
                      /\ (\E h \in Handler : received[h] > 0) =>
                            \E n \in 1..Len(stack') : received[stack'[n]] > 0
    BY <1>1 DEF OnItsWay
  <2>1. Stale = {}
    BY <1>4, <1>6 DEF Stale
  <2>2. \A h \in Handler : called[h] = 0 \/ (h <= made /\ ~ OnStack(h))
    BY <1>1, <2>1 DEF IInv, OnItsWay
  <2>3. \A h \in Handler : h <= made => h <= made' /\ h # new
    BY <1>1 DEF Handler
  <2>4. (\E h \in Handler : received[h] > 0) => \E n \in 1..len : received[stack[n]] > 0
    BY <1>1, <2>1 DEF IInv, OnItsWay
  <2>5. \A n \in 1..len : n \in 1..Len(stack') /\ stack'[n] = stack[n]
    BY <1>2
  <2> QED
    BY <1>8, <2>2, <2>3, <2>4, <2>5
<1> QED
  BY <1>1, <1>3, <1>9, <1>11, <1>12, <1>13 DEF IInv, CleanedBeforeGone

(* The block around the innermost one is in its body.                      *)
LEMMA BlockAround ==
    ASSUME IInv, stack # <<>>, Len(stack) # 1
    PROVE  /\ Len(stack) - 1 \in 1..(Len(stack) - 1)
           /\ stack[Len(stack) - 1] \in Handler /\ how[stack[Len(stack) - 1]] = "open"
           /\ Around(Len(stack)) = stack[Len(stack) - 1]
<1>1. \A n \in Nat \ {0} : n # 1 => n - 1 \in 1..(n - 1) /\ n - 1 \in 1..n
  OBVIOUS
<1>2. Len(stack) \in Nat \ {0}
  BY Where
<1>3. Len(stack) - 1 \in 1..(Len(stack) - 1) /\ Len(stack) - 1 \in 1..Len(stack)
  BY <1>1, <1>2
<1> QED
  BY <1>3, Where DEF Around

(* A signal is delivered, from outside or by _call_signals, which has      *)
(* counted it: the default action kills only when nothing is owed, the     *)
(* handler of a block that was left does nothing, and that of an open one  *)
(* makes it the innermost.                                                 *)
LEMMA DeliverIInv ==
    ASSUME IInv, pc = "run", Deliver,
           UNCHANGED <<made, how, regular, funcs, disp, prev>>,
           \/ called' = called
           \/ InExit("cleaned") /\ called[Top] < received[Top]
              /\ called' = [called EXCEPT ![Top] = called[Top] + 1]
    PROVE  IInv'
<1>1. called' \in [Handler -> Nat]
  <2>1. CASE InExit("cleaned") /\ called' = [called EXCEPT ![Top] = called[Top] + 1]
    BY <2>1, Where DEF InExit, IInv, TypeOK
  <2> QED
    BY <2>1 DEF IInv, TypeOK
<1>2. CASE disp = Default
  <2>1. UNCHANGED <<received, stack, exc>> /\ pc' = "dead"
    BY <1>2 DEF Deliver
  <2>2. TypeOK'
    BY <1>1, <2>1 DEF IInv, TypeOK
  <2>3. Nested' /\ Owing' /\ Chain'
    BY <2>1, HandlersSame
  <2>4. CleanedBeforeGone'
    <3>1. CASE stack = <<>>
      BY <3>1, <2>1, AllLeft DEF CleanedBeforeGone
    <3>2. CASE stack # <<>>
      <4>1. Default \notin Handler
        BY DEF Default, Handler
      <4>2. how[Top] = "cleaned" /\ Len(stack) = 1
        <5>1. how[Top] = "cleaned" /\ Around(Len(stack)) = Default
          BY <1>2, <3>2, <4>1, Where DEF OrStale, Stale
        <5>2. Len(stack) # 1 => stack[Len(stack) - 1] \in Handler
          BY <3>2, BlockAround
        <5> QED
          BY <4>1, <5>1, <5>2 DEF Around
      <4>3. \A h \in Handler : OnStack(h) => h = Top
        BY <3>2, <4>2, Where DEF OnStack
      <4>4. \A h \in 1..made : h \in Handler
        BY DEF IInv, TypeOK, Handler
      <4> QED
        BY <2>1, <4>2, <4>3, <4>4 DEF CleanedBeforeGone, IInv, Owing
    <3> QED
      BY <3>1, <3>2
  <2>5. OnItsWay'
    BY <2>1 DEF OnItsWay
  <2> QED
    BY <2>2, <2>3, <2>4, <2>5 DEF IInv
<1>3. ASSUME disp # Default
      PROVE  /\ disp \in Handler /\ pc' = "run"
             /\ \A h \in Handler : /\ h = disp => received'[h] > 0
                                   /\ h # disp => received'[h] = received[h]
             /\ received' \in [Handler -> Nat]
             /\ stack = <<>> => disp \in Stale
             /\ CleanedBeforeGone'
  <2>1. disp \in Handler /\ received \in [Handler -> Nat]
    BY <1>3 DEF IInv, TypeOK
  <2>2. pc' = "run" /\ received' = [received EXCEPT ![disp] = received[disp] + 1]
    BY <1>3 DEF Deliver
  <2>3. stack = <<>> => disp \in Stale
    BY <1>3 DEF IInv, Chain, OrStale
  <2> QED
    BY <2>1, <2>2, <2>3 DEF CleanedBeforeGone
<1>4. CASE disp # Default /\ BodyExecuted(disp)
  <2>1. UNCHANGED <<stack, exc>>
    BY <1>4 DEF Deliver, SignalExit
  <2>2. TypeOK'
    BY <1>1, <1>3, <1>4, <2>1 DEF IInv, TypeOK
  <2>3. Nested' /\ Owing' /\ Chain'
    BY <2>1, HandlersSame
  <2>4. OnItsWay'
    <3> SUFFICES ASSUME Stale = {}
                 PROVE  /\ stack # <<>> /\ exc = "signal" => received'[Top] > 0
                        /\ \A h \in Handler : called'[h] = 0 \/ (h <= made /\ ~ OnStack(h))
                        /\ \E n \in 1..Len(stack) : received'[stack[n]] > 0
      BY <2>1 DEF OnItsWay, Stale, Top, OnStack
    <3>1. stack # <<>> /\ disp \notin Stale
      BY <1>3, <1>4
    <3>2. disp = Top /\ how[Top] # "cleaned"
      <4>1. CASE how[Top] = "cleaned"
        <5>1. disp = Around(Len(stack)) /\ Len(stack) # 1
          BY <1>4, <3>1, <4>1, Where DEF OrStale, Around
        <5>2. how[disp] = "open"
          BY <3>1, <5>1, BlockAround
        <5> QED
          BY <1>4, <5>2 DEF BodyExecuted
      <4>2. CASE how[Top] # "cleaned"
        BY <3>1, <4>2, Where DEF OrStale
      <4> QED
        BY <4>1, <4>2
    <3>3. received'[Top] > 0
      BY <1>3, <1>4, <3>2
    <3>4. called' = called
      BY <3>2 DEF InExit
    <3> QED
      BY <3>1, <3>3, <3>4, Where DEF IInv, OnItsWay
  <2> QED
    BY <1>3, <1>4, <2>2, <2>3, <2>4 DEF IInv
<1>5. CASE disp # Default /\ ~ BodyExecuted(disp)
  <2>1. /\ exc' = "signal" /\ stack' = IF InBody THEN stack ELSE Outer
        /\ stack # <<>> /\ disp \notin Stale
    BY <1>3, <1>5 DEF Deliver, SignalExit, BodyExecuted, Stale
  <2>2. TypeOK'
    BY <1>1, <1>3, <1>5, <2>1, TopOuter DEF IInv, TypeOK
  <2>3. CASE InBody
    <3>1. how[Top] = "open" /\ disp = Top
      BY <2>1, <2>3, Where DEF InBody, OrStale
    <3>2. called' = called /\ received'[Top] > 0
      BY <1>3, <1>5, <3>1 DEF InExit
    <3>3. Nested' /\ Owing' /\ Chain'
      BY <2>1, <2>3, HandlersSame
    <3>4. OnItsWay'
      <4>1. Top' = Top /\ Stale' = Stale /\ \A h \in Handler : OnStack(h)' <=> OnStack(h)
        BY <2>1, <2>3 DEF Top, Stale, OnStack
      <4> QED
        BY <2>1, <2>3, <3>2, <4>1, Where DEF IInv, OnItsWay
    <3> QED
      BY <1>3, <1>5, <2>2, <3>3, <3>4 DEF IInv
  <2>4. CASE ~ InBody
    <3>1. how[Top] = "cleaned" /\ disp = Around(Len(stack)) /\ Len(stack) # 1
      <4>1. how[Top] # "open"
        BY <2>4 DEF InBody
      <4>2. how[Top] # "cleanup"
        BY <1>5, <2>1, Where DEF BodyExecuted, OrStale
      <4> QED
        BY <1>5, <2>1, <4>1, <4>2, Where DEF OrStale, Around
    <3>2. how' \in [Handler -> How]
      BY <2>2 DEF TypeOK
    <3>3. /\ Nested' /\ Owing' /\ Chain'
          /\ \A h \in Handler : OnStack(h)' => OnStack(h) /\ h # Top
      BY <2>1, <2>4, <3>1, <3>2, StackPopped
    <3>4. stack' # <<>> /\ Top' = disp /\ \E n \in 1..Len(stack') : stack'[n] = disp
      <4>1. Len(stack') = Len(stack) - 1 /\ stack'[Len(stack) - 1] = stack[Len(stack) - 1]
        <5>1. Len(stack) - 1 \in 1..(Len(stack) - 1)
          BY <2>1, <3>1, BlockAround
        <5>2. stack \in Seq(Handler)
          BY DEF IInv, TypeOK
        <5> QED
          BY <2>1, <2>4, <5>1, <5>2, TopOuter
      <4>2. Len(stack) - 1 \in 1..Len(stack') /\ stack' # <<>>
        <5>1. Len(stack) - 1 \in 1..(Len(stack) - 1)
          BY <2>1, <3>1, BlockAround
        <5>2. Len(stack) - 1 \in 1..Len(stack')
          BY <4>1, <5>1
        <5> QED
          BY <5>2
      <4>3. disp = stack[Len(stack) - 1]
        BY <3>1 DEF Around
      <4> QED
        BY <4>1, <4>2, <4>3 DEF Top
    <3>5. OnItsWay'
      <4> SUFFICES ASSUME Stale = {}
                   PROVE  /\ received'[Top'] > 0
                          /\ \A h \in Handler : called'[h] = 0 \/ (h <= made /\ ~ OnStack(h)')
                          /\ \E n \in 1..Len(stack') : received'[stack'[n]] > 0
        BY DEF OnItsWay, Stale
      <4>1. \A h \in Handler : h # Top => called'[h] = called[h]
        BY <2>1, Where DEF IInv, TypeOK
      <4>2. \A h \in Handler : called[h] = 0 \/ (h <= made /\ ~ OnStack(h))
        BY DEF IInv, OnItsWay
      <4>3. \A h \in Handler : h = Top => h <= made
        <5>1. Top \in 1..made /\ made \in Nat
          BY <2>1, Where DEF IInv, TypeOK
        <5> QED
          BY <5>1
      <4> QED
        BY <1>3, <1>5, <3>3, <3>4, <4>1, <4>2, <4>3
    <3> QED
      BY <1>3, <1>5, <2>2, <3>3, <3>5 DEF IInv
  <2> QED
    BY <2>3, <2>4
<1> QED
  BY <1>2, <1>4, <1>5

LEMMA SignalsIInv == ASSUME IInv, Signal \/ CallSignal PROVE IInv'
<1>1. CASE Signal
  BY <1>1, DeliverIInv DEF Signal
<1>2. CASE CallSignal
  BY <1>2, DeliverIInv DEF CallSignal, InExit
<1> QED
  BY <1>1, <1>2

LEMMA IInvNext == IInv /\ [Next]_vars => IInv'
<1> SUFFICES ASSUME IInv, [Next]_vars PROVE IInv'
  OBVIOUS
<1>1. CASE \E b \in BOOLEAN : Enter(b)
  BY <1>1, EnterIInv
<1>2. CASE (\E e \in {"error", "exit", "interrupt"} : Raise(e)) \/ Catch \/ End
  BY <1>2, RaiseCatchEndIInv
<1>3. CASE Register \/ CallFunc
  BY <1>3, FuncsIInv
<1>4. CASE Exit
  BY <1>4, ExitIInv
<1>5. CASE ResetSignalHandlers
  BY <1>5, ResetIInv
<1>6. CASE Return
  BY <1>6, ReturnIInv
<1>7. CASE Signal \/ CallSignal
  BY <1>7, SignalsIInv
<1>8. CASE \E e \in {"exit", "interrupt"} : ExitCut(e)
  BY <1>8, ExitCutIInv
<1>9. CASE UNCHANGED vars
  <2>1. /\ UNCHANGED <<stack, made, how, regular, funcs, received, called, disp, prev>>
        /\ UNCHANGED <<pc, exc>>
    BY <1>9 DEF vars
  <2>2. TypeOK' /\ CleanedBeforeGone'
    BY <2>1 DEF IInv, TypeOK, CleanedBeforeGone
  <2> QED
    BY <2>1, <2>2, HandlersSame, WaySame DEF IInv, Stale
<1> QED
  BY <1>1, <1>2, <1>3, <1>4, <1>5, <1>6, <1>7, <1>8, <1>9 DEF Next, ExitStep

LEMMA IInvAlways == Spec => []IInv
<1> QED
  BY IInvInit, IInvNext, PTL DEF Spec

-----------------------------------------------------------------------------
(* Whatever signals come and whatever the bodies and the functions raise,  *)
(* the process is gone only when the cleanup functions of every block that *)
(* owes them were called: __exit__ runs them before it puts the handler    *)
(* before back, and only then sends itself what was received.  Only a      *)
(* block whose own __exit__ was cut by SystemExit or KeyboardInterrupt is  *)
(* excepted; the blocks around it are cleaned, although a stale handler is *)
(* in place.                                                               *)
THEOREM CleanedBeforeGoneAlways == Spec => []CleanedBeforeGone
<1>1. IInv => CleanedBeforeGone
  BY DEF IInv
<1> QED
  BY <1>1, IInvAlways, PTL

-----------------------------------------------------------------------------
(* In a cleanup the handler of signals is the one of that block, or one    *)
(* that a block without cleanup has left in place: both only take note.    *)
LEMMA OnlyNoted ==
    ASSUME IInv, InExit("cleanup"), Deliver PROVE UNCHANGED <<pc, stack, exc>>
<1>1. stack # <<>> /\ how[Top] = "cleanup"
  BY DEF InExit
<1>2. disp \in Handler /\ how[disp] \in {"passed", "cut", "cleanup"}
  BY <1>1, Where DEF OrStale, Stale
<1>3. disp # Default
  BY <1>2 DEF Handler, Default
<1> QED
  BY <1>2, <1>3 DEF Deliver, SignalExit, BodyExecuted

(* Whenever a signal comes while the cleanup functions run, of whichever   *)
(* blocks there are, it neither kills the process nor leaves the __exit__: *)
(* the functions that are left are still called, unless one of them or the *)
(* user cuts the __exit__.                                                 *)
THEOREM CleanupUndisturbedAlways == Spec => CleanupUndisturbed
<1>1. IInv /\ [Next]_vars =>
         [InExit("cleanup") /\ how'[Top] # "cut" => pc' = "run" /\ stack' = stack]_vars
  <2> SUFFICES ASSUME IInv, Next, InExit("cleanup"), how'[Top] # "cut"
               PROVE  pc' = "run" /\ stack' = stack
    BY DEF vars
  <2>1. pc = "run" /\ stack # <<>> /\ how[Top] = "cleanup" /\ ~ InBody
    BY DEF InExit, InBody
  <2>2. CASE Signal
    BY <2>1, <2>2, OnlyNoted DEF Signal
  <2>3. CASE CallFunc \/ ResetSignalHandlers
    BY <2>1, <2>3 DEF CallFunc, ResetSignalHandlers
  <2>4. ~ CallSignal /\ ~ Return
    BY <2>1 DEF CallSignal, Return, InExit
  <2>5. /\ ~ (\E b \in BOOLEAN : Enter(b)) /\ ~ (\E e \in {"error", "exit", "interrupt"} : Raise(e))
        /\ ~ Register /\ ~ Catch /\ ~ Exit /\ ~ End
    BY <2>1 DEF Enter, Raise, Register, Catch, Exit, End
  <2>6. ~ (\E e \in {"exit", "interrupt"} : ExitCut(e))
    BY <2>1, Where DEF ExitCut, IInv, TypeOK
  <2> QED
    BY <2>2, <2>3, <2>4, <2>5, <2>6 DEF Next, ExitStep
<1> QED
  BY <1>1, IInvAlways, PTL DEF Spec, CleanupUndisturbed

-----------------------------------------------------------------------------
(* Only the return of an __exit__ ends the exception of a signal, and only *)
(* when every signal that this block received was sent again.              *)
LEMMA ReturnsWhenSent == ASSUME Next, InterruptedGoesOn PROVE Return
<1>1. /\ pc = "run" /\ stack # <<>> /\ how[Top] = "cleaned" /\ exc = "signal"
      /\ exc' = "none" /\ ~ InBody
  BY DEF InterruptedGoesOn, InExit, InBody
<1>2. ~ CallFunc /\ ~ ResetSignalHandlers
  BY <1>1 DEF CallFunc, ResetSignalHandlers, InExit
<1>3. ~ Signal /\ ~ CallSignal
  BY <1>1 DEF Signal, CallSignal, Deliver, SignalExit
<1>4. /\ ~ (\E b \in BOOLEAN : Enter(b)) /\ ~ (\E e \in {"error", "exit", "interrupt"} : Raise(e))
      /\ ~ Register /\ ~ Catch /\ ~ Exit /\ ~ End
      /\ ~ (\E e \in {"exit", "interrupt"} : ExitCut(e))
  BY <1>1 DEF Enter, Raise, Register, Catch, Exit, End, ExitCut
<1> QED
  BY <1>2, <1>3, <1>4 DEF Next, ExitStep

(* The program acts only while it runs.                                    *)
LEMMA RunsUntilGone == Next => pc = "run"
  BY DEF Next, ExitStep, Enter, Register, Raise, Catch, Exit, CallFunc, ResetSignalHandlers,
         CallSignal, Return, ExitCut, Signal, End, InBody, InExit

(* When every block is left through its cleanup, a signal is never lost:   *)
(* no __exit__ ends SignalExit as if nothing had been, and the program     *)
(* outside of all blocks has no signal behind it.  (SignalIsHeeded, which  *)
(* says it of all blocks, is false: a run shows it.)                       *)
THEOREM HeededUnlessStaleAlways == Spec => HeededUnlessStale
<1>1. IInv /\ [Next]_vars =>
         [Stale = {} => /\ ~ InterruptedGoesOn
                        /\ stack = <<>> => \A h \in Handler : received[h] = 0]_vars
  <2> SUFFICES ASSUME IInv, Next, Stale = {}
               PROVE  /\ ~ InterruptedGoesOn
                      /\ stack = <<>> => \A h \in Handler : received[h] = 0
    BY DEF vars
  <2>1. /\ stack # <<>> /\ exc = "signal" => received[Top] > 0
        /\ \A h \in Handler : called[h] = 0 \/ (h <= made /\ ~ OnStack(h))
        /\ (\E h \in Handler : received[h] > 0) =>
              \E n \in 1..Len(stack) : received[stack[n]] > 0
    BY RunsUntilGone DEF IInv, OnItsWay
  <2>2. ~ InterruptedGoesOn
    <3>1. SUFFICES ASSUME InterruptedGoesOn PROVE FALSE
      OBVIOUS
    <3>2. stack # <<>> /\ exc = "signal" /\ received[Top] = called[Top]
      BY <3>1, ReturnsWhenSent DEF InterruptedGoesOn, InExit, Return
    <3>3. called[Top] = 0
      BY <2>1, <3>2, Where
    <3> QED
      BY <2>1, <3>2, <3>3
  <2>3. ASSUME stack = <<>>, NEW h \in Handler PROVE received[h] = 0
    <3>1. received[h] \in Nat /\ ~ received[h] > 0
      BY <2>1, <2>3 DEF IInv, TypeOK
    <3> QED
      BY <3>1
  <2> QED
    BY <2>2, <2>3
<1> QED
  BY <1>1, IInvAlways, PTL DEF Spec, HeededUnlessStale
=============================================================================
