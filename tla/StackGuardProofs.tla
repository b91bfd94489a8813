-------------------------- MODULE StackGuardProofs --------------------------
(* That the stack stays out of the heap, for every size of the guard, of   *)
(* frames and of extensions.                                               *)
EXTENDS StackGuard, TLAPS

(* Rounding up to the guard's alignment adds less than its size.           *)
LEMMA GuardAtBounds ==
  ASSUME NEW b \in Nat
  PROVE  /\ GuardAt(b) \in Nat
         /\ b + GuardGap <= GuardAt(b)
         /\ GuardAt(b) < b + GuardGap + GuardSize
<1>1. GuardGap \in Nat /\ GuardSize \in Nat \ {0}
  BY StackAssumption
<1> DEFINE x == b + GuardGap + GuardSize - 1
           q == x \div GuardSize
<1>2. x \in Nat
  BY <1>1
<1>3. q \in Nat /\ q * GuardSize <= x /\ x < q * GuardSize + GuardSize
  <2> HIDE DEF x
  <2>1. x = GuardSize * q + (x % GuardSize)
    BY <1>1, <1>2
  <2>2. x % GuardSize \in 0 .. GuardSize - 1
    BY <1>1, <1>2
  <2>3. q \in Nat
    BY <1>1, <1>2
  <2> QED BY <1>1, <1>2, <2>1, <2>2, <2>3
<1>4. GuardAt(b) = q * GuardSize
  BY DEF GuardAt
<1> QED BY <1>1, <1>3, <1>4

(* What StackSafe rests on: the guard is where the break puts it, until    *)
(* proc_update has run where the old one did; mem_sbrk's frame was laid    *)
(* above that; and only a call that has extended the heap sends again.     *)
Moving == stage \in {"send", "update"}

CallInv ==
  /\ guard = GuardAt(IF Moving THEN old_brk ELSE brk)
  /\ stage = "none" => depth = 0 /\ below = 0
  /\ stage \in {"none", "refused", "failed"} => brk = old_brk
  /\ stage = "return" /\ brk > old_brk => depth \in Depths
  /\ Moving /\ brk > old_brk => depth \in Depths
  /\ Moving => depth \in Depths \cup InitDepths

AboveInv ==
  Running /\ ~ skipped /\ stage \in {"send", "update", "refused"} =>
    Own >= guard + GuardSize

IInv == TypeOK /\ CallInv /\ AboveInv /\ StackSafe

(* What the state's numbers are.                                           *)
LEMMA Numbers ==
  ASSUME IInv
  PROVE  /\ brk \in Nat /\ old_brk \in Nat /\ guard \in Nat /\ sp \in Nat /\ sp <= Top
         /\ depth \in Nat /\ below \in Nat /\ skipped \in BOOLEAN
         /\ Own \in Int /\ Bottom \in Int /\ Bottom <= Own /\ Own <= sp
         /\ Running /\ ~ skipped => /\ sp >= guard + GuardSize
                                   /\ Own >= brk /\ Bottom >= old_brk
<1> USE StackAssumption
<1>1. brk \in Nat /\ old_brk \in Nat /\ guard \in Nat /\ sp \in Nat /\ sp <= Top
  BY DEF IInv, TypeOK
<1>2. depth \in Nat /\ below \in Nat
  <2>1. depth \in Depths \cup InitDepths \cup Agains \cup {0} /\ below \in Callees \cup {0}
    BY Zenon DEF IInv, TypeOK
  <2>2. Depths \subseteq Nat /\ InitDepths \subseteq Nat /\ Agains \subseteq Nat /\ Callees \subseteq Nat
    BY ONLY StackAssumption DEF StackAssumption
  <2> QED BY ONLY <2>1, <2>2
<1>3. skipped \in BOOLEAN
  BY ONLY IInv DEF IInv, TypeOK
<1> QED
  BY <1>1, <1>2, <1>3 DEF IInv, StackSafe, Own, Bottom

LEMMA InitIInv == Init => IInv
<1> SUFFICES ASSUME Init PROVE IInv
  OBVIOUS
<1> USE StackAssumption
<1>1. GuardAt(Base) \in Nat /\ Base <= GuardAt(Base)
  BY GuardAtBounds
<1>2. TypeOK
  <2>1. skipped \in BOOLEAN
    BY DEF Init
  <2>2. sp \in 0 .. Top /\ {brk, old_brk} \subseteq Nat /\ guard \in Nat
    BY <1>1 DEF Init
  <2> QED
    BY <2>1, <2>2 DEF Init, TypeOK
<1>3. CallInv
  BY DEF Init, CallInv, Moving
<1>4. StackSafe /\ AboveInv
  BY <1>1 DEF Init, StackSafe, AboveInv, Own, Bottom
<1> QED
  BY <1>2, <1>3, <1>4 DEF IInv

(* A session that has ended promises nothing of its stack.                 *)
LEMMA EndIInv ==
  ASSUME IInv, end' \in {"fault", "overflow", "finish"},
         UNCHANGED <<brk, old_brk, guard, sp, svc, mode, skipped>>
  PROVE  IInv'
<1>1. ~ Running'
  BY DEF Running
<1>2. TypeOK'
  BY DEF IInv, TypeOK, svc
<1>3. CallInv'
  BY DEF IInv, CallInv, Moving, svc
<1> QED
  BY <1>1, <1>2, <1>3 DEF IInv, StackSafe, AboveInv

LEMMA FaultIInv ==
  ASSUME IInv, Fault
  PROVE  IInv'
BY EndIInv DEF Fault

(* Frames that do not touch the guard end above it, wherever they begin.   *)
LEMMA StaysAbove ==
  ASSUME IInv, NEW hi \in Nat, NEW n \in Nat \ {0},
         hi >= guard + GuardSize, ~ Crosses(hi - n, hi)
  PROVE  hi - n >= guard + GuardSize
BY StackAssumption, Numbers DEF Crosses

(* A frame of mem_sbrk above the break keeps the program's stack above the *)
(* guard: it is deeper than the guard can be away.                         *)
LEMMA AboveBreak ==
  ASSUME NEW b \in Nat, NEW d \in Depths \cup InitDepths, NEW s \in Nat, s - d >= b
  PROVE  s >= GuardAt(b) + GuardSize
<1>1. d \in Nat /\ d >= GuardGap + 2 * GuardSize - 1
  BY StackAssumption
<1>2. GuardAt(b) \in Nat /\ GuardAt(b) < b + GuardGap + GuardSize
  BY GuardAtBounds
<1> QED
  BY <1>1, <1>2, StackAssumption

LEMMA GuardAboveBreak ==
  ASSUME IInv
  PROVE  guard >= IF Moving THEN old_brk ELSE brk
<1> DEFINE b == IF Moving THEN old_brk ELSE brk
<1>1. b \in Nat /\ guard = GuardAt(b)
  BY Numbers DEF IInv, CallInv
<1> HIDE DEF b
<1>2. GuardGap \in Nat /\ guard \in Nat /\ b + GuardGap <= guard
  BY <1>1, GuardAtBounds, StackAssumption
<1>3. guard >= b
  BY <1>1, <1>2
<1> QED
  BY <1>3 DEF b

-----------------------------------------------------------------------------
(* The program.                                                            *)

(* Its stack pointer moves, and stays above the guard.                     *)
LEMMA ProgramIInv ==
  ASSUME IInv, InProgram, sp' \in 0 .. Top, skipped' \in BOOLEAN,
         UNCHANGED <<brk, old_brk, guard, svc, end>>,
         mode' \in {"trace", "stack_test", "heap_test", "heap_full"},
         ~ skipped' => sp' >= guard + GuardSize
  PROVE  IInv'
<1>1. TypeOK'
  BY DEF IInv, TypeOK, svc
<1>2. CallInv'
  BY DEF IInv, CallInv, Moving, svc
<1>3. stage' = "none" /\ depth' = 0 /\ below' = 0 /\ brk' = brk /\ old_brk' = brk
  BY DEF InProgram, IInv, CallInv, svc
<1>4. AboveInv'
  BY <1>3 DEF AboveInv
<1>5. guard >= brk
  BY GuardAboveBreak DEF InProgram, Moving
<1>6. StackSafe'
  BY <1>3, <1>5, Numbers, StackAssumption DEF StackSafe, Own, Bottom
<1> QED
  BY <1>1, <1>2, <1>4, <1>6 DEF IInv

LEMMA PushIInv ==
  ASSUME IInv, NEW n \in Frames, Push(n)
  PROVE  IInv'
<1>0. n \in Nat \ {0} /\ InProgram /\ Running
  BY StackAssumption DEF Push, InProgram
<1>1. CASE Fault
  BY <1>1, FaultIInv
<1>2. CASE /\ sp >= n /\ sp' = sp - n
           /\ skipped' = (skipped \/ Crosses(sp - n, sp))
           /\ UNCHANGED <<brk, old_brk, guard, svc, mode, end>>
  <2>1. sp' \in 0 .. Top
    BY <1>0, <1>2, Numbers, StackAssumption
  <2>2. skipped' \in BOOLEAN
    BY <1>2
  <2>3. ASSUME ~ skipped' PROVE sp' >= guard + GuardSize
    <3>1. ~ skipped /\ ~ Crosses(sp - n, sp)
      BY <1>2, <2>3
    <3>2. sp \in Nat /\ sp >= guard + GuardSize
      BY <1>0, <3>1, Numbers
    <3> QED
      BY <1>0, <1>2, <3>1, <3>2, StaysAbove
  <2>4. mode' \in {"trace", "stack_test", "heap_test", "heap_full"}
    BY <1>2 DEF IInv, TypeOK
  <2> QED
    BY <1>0, <1>2, <2>1, <2>2, <2>3, <2>4, ProgramIInv
<1> QED
  BY <1>1, <1>2 DEF Push

(* Returning raises the stack pointer.                                     *)
LEMMA PopIInv ==
  ASSUME IInv, NEW n \in Frames, Pop(n)
  PROVE  IInv'
<1>0. n \in Nat /\ InProgram /\ Running
  BY StackAssumption DEF Pop, InProgram
<1>1. CASE Fault
  BY <1>1, FaultIInv
<1>2. CASE sp' = sp + n /\ UNCHANGED <<brk, old_brk, guard, svc, mode, skipped, end>>
  <2>1. sp' \in 0 .. Top
    BY <1>0, <1>2, Numbers, StackAssumption DEF Pop
  <2>2. ASSUME ~ skipped' PROVE sp' >= guard + GuardSize
    BY <1>0, <1>2, <2>2, Numbers, StackAssumption
  <2>3. mode' \in {"trace", "stack_test", "heap_test", "heap_full"} /\ skipped' \in BOOLEAN
    BY <1>2 DEF IInv, TypeOK
  <2> QED
    BY <1>0, <1>2, <2>1, <2>2, <2>3, ProgramIInv
<1> QED
  BY <1>1, <1>2 DEF Pop

LEMMA BeginTestIInv ==
  ASSUME IInv, NEW test \in {"stack_test", "heap_test"}, BeginTest(test)
  PROVE  IInv'
<1>1. InProgram /\ UNCHANGED <<brk, old_brk, guard, sp, svc, skipped, end>>
      /\ mode' \in {"trace", "stack_test", "heap_test", "heap_full"}
  BY DEF BeginTest
<1>2. sp' \in 0 .. Top /\ skipped' \in BOOLEAN
      /\ (~ skipped' => sp' >= guard + GuardSize)
  BY <1>1, Numbers DEF InProgram, IInv, TypeOK
<1> QED
  BY <1>1, <1>2, ProgramIInv

(* stack_test never lays a frame across the guard.                         *)
LEMMA StackTestIInv ==
  ASSUME IInv, StackTest
  PROVE  IInv'
<1>0. TestFrame \in Nat \ {0} /\ InProgram /\ Running
  BY StackAssumption DEF StackTest, InProgram
<1>1. CASE Fault
  BY <1>1, FaultIInv
<1>2. CASE /\ ~ Crosses(sp - TestFrame, sp)
           /\ sp' = sp - TestFrame
           /\ UNCHANGED <<brk, old_brk, guard, svc, mode, skipped, end>>
  <2>1. sp' \in 0 .. Top
    BY <1>0, <1>2, Numbers, StackAssumption DEF Crosses
  <2>2. ASSUME ~ skipped' PROVE sp' >= guard + GuardSize
    <3>1. sp \in Nat /\ sp >= guard + GuardSize
      BY <1>0, <1>2, <2>2, Numbers
    <3> QED
      BY <1>0, <1>2, <3>1, StaysAbove
  <2>3. mode' \in {"trace", "stack_test", "heap_test", "heap_full"} /\ skipped' \in BOOLEAN
    BY <1>2 DEF IInv, TypeOK
  <2> QED
    BY <1>0, <1>2, <2>1, <2>2, <2>3, ProgramIInv
<1> QED
  BY <1>1, <1>2 DEF StackTest

-----------------------------------------------------------------------------
(* Supervisor calls.                                                       *)

(* The way down, to a frame that is not below the break b of the call.     *)
LEMMA DescendIInv ==
  ASSUME IInv, InProgram, NEW b \in Nat, brk' = b,
         NEW d \in Depths \cup InitDepths, NEW next \in {"send", "refused"},
         Descend(d, next),
         next = "refused" => b = brk,
         b > brk => d \in Depths /\ sp - d >= b
  PROVE  IInv'
<1>0. /\ d \in Nat \ {0} /\ sp \in Nat /\ sp - d \in Nat /\ guard \in Nat
      /\ brk \in Nat /\ old_brk = brk /\ guard = GuardAt(brk) /\ Running
      /\ GuardSize \in Nat
  <2>1. d \in Nat /\ d >= GuardGap + 2 * GuardSize - 1 /\ GuardGap \in Nat
        /\ GuardSize \in Nat \ {0}
    BY StackAssumption
  <2> QED
    BY <2>1, Numbers DEF Descend, InProgram, IInv, CallInv, Moving
<1>1. /\ depth' = d /\ below' = 0 /\ stage' = next
      /\ skipped' = (skipped \/ Crosses(sp - d, sp))
      /\ UNCHANGED <<old_brk, guard, sp, mode, end>>
  BY DEF Descend
<1>2. TypeOK'
  <2>1. skipped' \in BOOLEAN
    BY <1>1
  <2> QED
    BY <1>0, <1>1, <2>1 DEF IInv, TypeOK
<1>3. CallInv'
  BY <1>0, <1>1 DEF CallInv, Moving
<1>4. ASSUME ~ skipped'
      PROVE  sp - d >= guard + GuardSize /\ sp >= guard + GuardSize /\ sp - d >= brk
  <2>1. ~ skipped /\ ~ Crosses(sp - d, sp)
    BY <1>1, <1>4
  <2>2. sp >= guard + GuardSize
    BY <1>0, <2>1, Numbers
  <2>3. sp - d >= guard + GuardSize
    BY <1>0, <2>1, <2>2, StaysAbove
  <2>4. guard >= brk
    BY GuardAboveBreak DEF InProgram, Moving
  <2> QED
    BY <1>0, <2>2, <2>3, <2>4
<1>5. Own' = sp - d /\ Bottom' = sp - d
  BY <1>0, <1>1 DEF Own, Bottom
<1>6. AboveInv'
  BY <1>1, <1>4, <1>5 DEF AboveInv
<1>7. StackSafe'
  BY <1>0, <1>1, <1>4, <1>5 DEF StackSafe
<1> QED
  BY <1>2, <1>3, <1>6, <1>7 DEF IInv

LEMMA SbrkIInv ==
  ASSUME IInv, InProgram, NEW incr \in Incrs, NEW d \in Depths, Sbrk(incr, d)
  PROVE  IInv'
<1>0. incr \in Nat /\ d \in Nat /\ brk \in Nat /\ sp \in Nat
  BY Numbers, StackAssumption
<1>1. CASE Accept(incr, d)
  <2>1. brk' = brk + incr /\ brk + incr \in Nat /\ sp - d >= brk + incr
        /\ Descend(d, "send")
    BY <1>0, <1>1 DEF Accept, CanSbrk
  <2> QED
    BY <2>1, DescendIInv
<1>2. CASE Refuse(incr, d)
  <2>1. brk' = brk /\ ~ (brk > brk) /\ Descend(d, "refused")
    BY <1>0, <1>2 DEF Refuse
  <2> QED
    BY <1>0, <2>1, DescendIInv
<1>3. CASE FaultBelow(d)
  BY <1>3, FaultIInv DEF FaultBelow
<1> QED
  BY <1>1, <1>2, <1>3 DEF Sbrk

(* mem_init: the break does not rise, as it never was below Base.          *)
LEMMA CallInitIInv ==
  ASSUME IInv, Base <= brk, NEW d \in InitDepths, CallInit(d)
  PROVE  IInv'
<1>1. CASE FaultBelow(d)
  BY <1>1, FaultIInv DEF FaultBelow
<1>2. CASE brk' = Base /\ Descend(d, "send")
  <2>1. InProgram /\ Base \in Nat /\ ~ (Base > brk)
    BY Numbers, StackAssumption DEF CallInit
  <2> QED
    BY <1>2, <2>1, DescendIInv
<1> QED
  BY <1>1, <1>2 DEF CallInit

(* What a callee's frames end above: the guard as it is when they are laid. *)
LEMMA CalleeAbove ==
  ASSUME IInv, Running, stage \in {"send", "update", "refused"},
         NEW c \in Callees, NEW next, Callee(c, next), ~ skipped'
  PROVE  /\ ~ skipped
         /\ Own' = Own /\ Bottom' = Own - c /\ Own >= guard + GuardSize
         /\ Own - c >= guard + GuardSize
<1>0. c \in Nat \ {0}
  BY StackAssumption
<1>1. /\ ~ skipped /\ ~ Crosses(Own - c, Own) /\ Own >= c /\ below' = c
      /\ UNCHANGED <<sp, depth>>
  BY DEF Callee
<1>2. Own \in Nat /\ Own >= guard + GuardSize
  BY <1>0, <1>1, Numbers DEF IInv, AboveInv
<1>3. Own' = Own /\ Bottom' = Own - c
  BY <1>1 DEF Own, Bottom
<1> QED
  BY <1>0, <1>1, <1>2, <1>3, StaysAbove

LEMMA CalleeTyped ==
  ASSUME IInv, NEW c \in Callees, NEW next \in {"update", "return", "failed"},
         Callee(c, next), guard' \in Nat
  PROVE  TypeOK'
<1>1. skipped' \in BOOLEAN
  BY DEF Callee
<1> QED
  BY <1>1 DEF IInv, TypeOK, Callee

(* req_send, and the report of a refusal: the guard stays.                 *)
LEMMA CalleeIInv ==
  ASSUME IInv, Running, NEW c \in Callees, NEW next, Callee(c, next), UNCHANGED guard,
         \/ stage = "send" /\ next = "update"
         \/ stage = "refused" /\ next = "failed"
  PROVE  IInv'
<1>0. /\ next \in {"update", "failed"} /\ stage \in {"send", "refused"}
      /\ stage' = next /\ guard \in Nat
      /\ UNCHANGED <<brk, old_brk, guard, sp, depth, mode, end>>
  BY Numbers DEF Callee
<1>1. TypeOK'
  BY <1>0, CalleeTyped
<1>2. CallInv'
  BY <1>0 DEF IInv, CallInv, Moving
<1>3. ASSUME ~ skipped'
      PROVE  /\ ~ skipped /\ Own' = Own /\ Bottom' = Own - c
             /\ Own >= guard + GuardSize /\ Own - c >= guard + GuardSize
  BY <1>0, <1>3, CalleeAbove
<1>4. AboveInv'
  BY <1>0, <1>3 DEF AboveInv
<1>5. guard >= old_brk
  BY <1>0, GuardAboveBreak DEF IInv, CallInv, Moving
<1>6. StackSafe'
  <2> SUFFICES ASSUME Running', ~ skipped' PROVE StackSafe'
    BY DEF StackSafe
  <2>1. /\ Own' = Own /\ Bottom' = Own - c /\ Own - c >= guard + GuardSize
        /\ sp >= guard + GuardSize /\ Own >= brk
    BY <1>3, Numbers
  <2>2. Own - c >= old_brk
    BY <1>5, <2>1, Numbers, StackAssumption
  <2> QED
    BY <1>0, <2>1, <2>2 DEF StackSafe
<1> QED
  BY <1>1, <1>2, <1>4, <1>6 DEF IInv

(* proc_update: where the new guard comes to lie the program has no frame. *)
LEMMA UpdateGuardIInv ==
  ASSUME IInv, NEW c \in Callees, UpdateGuard(c)
  PROVE  IInv'
<1>1. CASE FaultInCallee(c)
  BY <1>1, FaultIInv DEF FaultInCallee
<1>2. CASE Callee(c, "return") /\ guard' = GuardAt(brk)
  <2>0. /\ Running /\ stage = "update" /\ stage' = "return"
        /\ UNCHANGED <<brk, old_brk, sp, depth, mode, end>>
        /\ brk \in Nat /\ guard' \in Nat
    BY <1>2, Numbers, GuardAtBounds DEF UpdateGuard, Callee
  <2>1. TypeOK'
    BY <1>2, <2>0, CalleeTyped
  <2>2. CallInv'
    BY <1>2, <2>0 DEF IInv, CallInv, Moving
  <2>3. AboveInv'
    BY <2>0 DEF AboveInv
  <2>4. StackSafe'
    <3> SUFFICES ASSUME Running', ~ skipped' PROVE StackSafe'
      BY DEF StackSafe
    <3>1. /\ ~ skipped /\ Own' = Own /\ Bottom' = Own - c
          /\ Own - c >= guard + GuardSize
      BY <1>2, <2>0, CalleeAbove
    <3>2. sp \in Nat /\ Own >= brk /\ depth \in Depths \cup InitDepths
      BY <2>0, <3>1, Numbers DEF IInv, CallInv, Moving
    <3>3. sp >= GuardAt(brk) + GuardSize
      BY <2>0, <3>2, AboveBreak DEF Own
    <3>4. guard >= old_brk
      BY <2>0, GuardAboveBreak DEF Moving
    <3>5. Own - c >= old_brk
      BY <3>1, <3>4, Numbers, StackAssumption
    <3> QED
      BY <1>2, <2>0, <3>1, <3>2, <3>3, <3>5 DEF StackSafe
  <2> QED
    BY <2>1, <2>2, <2>3, <2>4 DEF IInv
<1> QED
  BY <1>1, <1>2 DEF UpdateGuard

(* The request sent again runs where mem_sbrk's frames have been.          *)
LEMMA SendAgainIInv ==
  ASSUME IInv, NEW r \in Agains, SendAgain(r)
  PROVE  IInv'
<1>1. CASE Fault
  BY <1>1, FaultIInv
<1>2. CASE /\ depth' = r /\ below' = 0 /\ stage' = "again"
           /\ UNCHANGED <<brk, old_brk, guard, sp, mode, skipped, end>>
  <2>0. Running /\ stage = "return" /\ depth \in Depths /\ r \in Nat /\ r <= depth
    BY StackAssumption DEF SendAgain, IInv, CallInv
  <2>1. TypeOK'
    BY <1>2 DEF IInv, TypeOK
  <2>2. CallInv'
    BY <1>2, <2>0 DEF IInv, CallInv, Moving
  <2>3. AboveInv'
    BY <1>2 DEF AboveInv
  <2>4. Own' = sp - r /\ Bottom' = sp - r /\ sp - r >= Own
    BY <1>2, <2>0, Numbers DEF Own, Bottom
  <2>5. StackSafe'
    BY <1>2, <2>0, <2>4, Numbers DEF StackSafe, Running
  <2> QED
    BY <2>1, <2>2, <2>3, <2>5 DEF IInv
<1> QED
  BY <1>1, <1>2 DEF SendAgain

LEMMA SvcReturnIInv ==
  ASSUME IInv, SvcReturn
  PROVE  IInv'
<1>1. CASE Fault
  BY <1>1, FaultIInv
<1>2. CASE /\ stage' = "none" /\ depth' = 0 /\ below' = 0
           /\ old_brk' = brk
           /\ mode' = IF stage = "failed" /\ mode = "heap_test" THEN "heap_full" ELSE mode
           /\ UNCHANGED <<brk, guard, sp, skipped, end>>
  <2>0. Running /\ ~ Moving
    BY DEF SvcReturn, Moving
  <2>1. TypeOK'
    <3>1. mode' \in {"trace", "stack_test", "heap_test", "heap_full"}
      BY <1>2 DEF IInv, TypeOK
    <3> QED
      BY <1>2, <3>1 DEF IInv, TypeOK
  <2>2. CallInv'
    BY <1>2, <2>0 DEF IInv, CallInv, Moving
  <2>3. AboveInv'
    BY <1>2 DEF AboveInv
  <2>4. Own' = sp /\ Bottom' = sp
    BY <1>2, Numbers DEF Own, Bottom
  <2>5. guard >= brk
    BY <2>0, GuardAboveBreak
  <2>6. StackSafe'
    BY <1>2, <2>0, <2>4, <2>5, Numbers, StackAssumption DEF StackSafe
  <2> QED
    BY <2>1, <2>2, <2>3, <2>6 DEF IInv
<1> QED
  BY <1>1, <1>2 DEF SvcReturn

LEMMA SvcStepIInv ==
  ASSUME IInv, SvcStep
  PROVE  IInv'
<1>1. ASSUME NEW c \in Callees, SendRequest(c) \/ ReportRefusal(c)
      PROVE  IInv'
  <2>1. CASE FaultInCallee(c)
    BY <2>1, FaultIInv DEF FaultInCallee
  <2>2. CASE /\ Running /\ stage = "send" /\ Callee(c, "update") /\ UNCHANGED guard
    BY <2>2, CalleeIInv
  <2>3. CASE /\ Running /\ stage = "refused" /\ Callee(c, "failed") /\ UNCHANGED guard
    BY <2>3, CalleeIInv
  <2> QED
    BY <1>1, <2>1, <2>2, <2>3 DEF SendRequest, ReportRefusal
<1> QED
  BY <1>1, UpdateGuardIInv, SendAgainIInv, SvcReturnIInv DEF SvcStep

LEMMA TickIInv ==
  ASSUME IInv, Tick
  PROVE  IInv'
<1>1. CASE Fault
  BY <1>1, FaultIInv
<1>2. CASE end' = "overflow" /\ UNCHANGED <<brk, old_brk, guard, sp, svc, mode, skipped>>
  BY <1>2, EndIInv
<1> QED
  BY <1>1, <1>2 DEF Tick

LEMMA GiveUpIInv ==
  ASSUME IInv, GiveUp
  PROVE  IInv'
BY EndIInv, FaultIInv DEF GiveUp

LEMMA StutterIInv ==
  ASSUME IInv, UNCHANGED vars
  PROVE  IInv'
<1>1. TypeOK'
  BY DEF IInv, TypeOK, vars, svc
<1>2. CallInv'
  BY DEF IInv, CallInv, Moving, vars, svc
<1>3. AboveInv' /\ StackSafe'
  BY DEF IInv, AboveInv, StackSafe, Running, Own, Bottom, vars, svc
<1> QED
  BY <1>1, <1>2, <1>3 DEF IInv

(* The break never falls below the start of the heap.                      *)
LEMMA NextBase ==
  ASSUME IInv, Base <= brk, [Next]_vars
  PROVE  Base <= brk'
<1>1. brk' = brk \/ brk' = Base \/ \E incr \in Incrs : brk' = brk + incr
  BY DEF Next, vars, Push, Pop, BeginTest, StackTest, CallSbrk, HeapTest, Sbrk,
         Accept, Refuse, FaultBelow, CallInit, SvcStep, SendRequest, UpdateGuard,
         ReportRefusal, Callee, FaultInCallee, SendAgain, SvcReturn, GiveUp, Tick, Fault
<1> QED
  BY <1>1, Numbers, StackAssumption

-----------------------------------------------------------------------------
(* StackSafe holds in every behaviour, whatever the program calls, wherever *)
(* its sbrks move the guard, however deep mem_sbrk's callees run and        *)
(* whenever the timer strikes, as long as the way down to mem_sbrk is       *)
(* deeper than the guard can be away (StackAssumption).                     *)
THEOREM StackStaysSafe == Spec => []StackSafe
<1> DEFINE Inv == IInv /\ Base <= brk
<1>1. Init => Inv
  <2>1. Init => Base <= brk
    BY StackAssumption DEF Init
  <2> QED
    BY <2>1, InitIInv
<1>2. Inv /\ [Next]_vars => Inv'
  <2> SUFFICES ASSUME Inv, [Next]_vars PROVE IInv'
    BY NextBase
  <2>1. CASE \E n \in Frames : Push(n) \/ Pop(n)
    BY <2>1, PushIInv, PopIInv
  <2>2. CASE \E test \in {"stack_test", "heap_test"} : BeginTest(test)
    BY <2>2, BeginTestIInv
  <2>3. CASE StackTest
    BY <2>3, StackTestIInv
  <2>4. CASE \E incr \in Incrs, d \in Depths : CallSbrk(incr, d) \/ HeapTest(incr, d)
    BY <2>4, SbrkIInv DEF CallSbrk, HeapTest
  <2>5. CASE \E d \in InitDepths : CallInit(d)
    BY <2>5, CallInitIInv
  <2>6. CASE SvcStep
    BY <2>6, SvcStepIInv
  <2>7. CASE GiveUp \/ Tick
    BY <2>7, GiveUpIInv, TickIInv
  <2>8. CASE UNCHANGED vars
    BY <2>8, StutterIInv
  <2> QED
    BY <2>1, <2>2, <2>3, <2>4, <2>5, <2>6, <2>7, <2>8 DEF Next
<1>3. Inv => StackSafe
  BY DEF IInv
<1> QED
  BY <1>1, <1>2, <1>3, PTL DEF Spec
=============================================================================
