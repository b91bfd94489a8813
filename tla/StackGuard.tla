----------------------------- MODULE StackGuard -----------------------------
(***************************************************************************)
(* How the MCU keeps the stack out of the heap: the check in mem_sbrk, the *)
(* no-access region that proc_update puts behind the break, and the stack  *)
(* check of TIM3.  Supervisor calls and interrupts run on the program's    *)
(* stack, below its stack pointer.  What the heap holds is in Offload.     *)
(***************************************************************************)
EXTENDS Integers

CONSTANTS
  Base,        (* mem_start_brk.                                             *)
  Top,         (* The stack pointer when main begins.                        *)
  Frames,      (* Sizes of the program's stack frames.                       *)
  TestFrame,   (* The frame of stack_test, all of which it writes.           *)
  Incrs,       (* What mem_sbrk is asked for.                                *)
  Depths,      (* Stack from the program down to mem_sbrk's comparison...    *)
  InitDepths,  (* ... and down to mem_init's own frame.                      *)
  Callees,     (* What req_send, proc_update or var_print take below these.  *)
  Agains,      (* Stack of a request mm_malloc sends after mem_sbrk.         *)
  TickDepth,   (* Stack of TIM3_IRQHandler and of its exception frame.       *)
  GuardGap,    (* 64: the guard's least distance from the break...           *)
  GuardSize    (* 32: ... its size, and its alignment.                       *)

VARIABLES
  brk,      (* mem_brk.                                                   *)
  old_brk,  (* What it was when the supervisor call in progress began.    *)
  guard,    (* First byte of the no-access region.                        *)
  sp,       (* The program's stack pointer.                               *)
  stage,    (* What the supervisor call does next, "none" between calls.  *)
  depth,    (* Its stack, down to the frame that calls...                 *)
  below,    (* ... and of what that frame has called.                     *)
  mode,     (* What the program does: its own calls, or a test.           *)
  skipped,  (* A frame has lain across the guard and not touched it.      *)
  end       (* How the session ended.                                     *)

svc  == <<stage, depth, below>>
vars == <<brk, old_brk, guard, sp, svc, mode, skipped, end>>

(* proc_update: the break, 64 bytes, rounded up to 32.                     *)
GuardAt(b) == ((b + GuardGap + GuardSize - 1) \div GuardSize) * GuardSize

(* Debug/mcu_mdriver.lst: 312 bytes or more down to the comparison and 192 *)
(* to mem_init, where the proof needs 127; 56 for the callees; and at most *)
(* 312 for a request sent again.                                           *)
ASSUME StackAssumption ==
  /\ Base \in Nat /\ Top \in Nat /\ TestFrame \in Nat \ {0} /\ TickDepth \in Nat
  /\ Frames \subseteq Nat \ {0} /\ Incrs \subseteq Nat \ {0}
  /\ GuardGap \in Nat /\ GuardSize \in Nat \ {0}
  /\ Depths \cup InitDepths \subseteq {d \in Nat : d >= GuardGap + 2 * GuardSize - 1}
  /\ Callees \subseteq Nat \ {0}
  /\ Agains \subseteq {r \in Nat \ {0} : \A d \in Depths : r <= d}
  /\ Top >= GuardAt(Base) + GuardSize

Running == end = "none"

InProgram == Running /\ stage = "none"

(* The stack pointers of mem_sbrk and of what it has called.               *)
Own    == sp - depth
Bottom == Own - below

(* Stack from lo up to hi: some of it may not be accessed.                 *)
Crosses(lo, hi) == lo < 0 \/ (lo < guard + GuardSize /\ guard < hi)

(* MemManage_Handler ends the session.                                     *)
Fault == end' = "fault" /\ UNCHANGED <<brk, old_brk, guard, sp, svc, mode, skipped>>

-----------------------------------------------------------------------------
(* The program's own calls.                                                *)

(* A function is called.  A frame that leaves some of its locals unwritten *)
(* (read_trace has 2 KB of them) can lie across the guard unnoticed.       *)
Push(n) ==
  /\ InProgram /\ mode = "trace"
  /\ \/ /\ sp >= n
        /\ sp' = sp - n
        /\ skipped' = (skipped \/ Crosses(sp - n, sp))
        /\ UNCHANGED <<brk, old_brk, guard, svc, mode, end>>
     \/ Crosses(sp - n, sp) /\ Fault

Pop(n) ==
  /\ InProgram /\ mode = "trace"
  /\ sp + n <= Top
  /\ \/ sp' = sp + n /\ UNCHANGED <<brk, old_brk, guard, svc, mode, skipped, end>>
     \/ Crosses(sp, sp + n) /\ Fault

(* The trace has a line 's' or 'h'.                                        *)
BeginTest(test) ==
  /\ InProgram /\ mode = "trace"
  /\ mode' = test
  /\ UNCHANGED <<brk, old_brk, guard, sp, svc, skipped, end>>

(* stack_test calls itself for ever.                                       *)
StackTest ==
  /\ InProgram /\ mode = "stack_test"
  /\ IF Crosses(sp - TestFrame, sp)
     THEN Fault
     ELSE /\ sp' = sp - TestFrame
          /\ UNCHANGED <<brk, old_brk, guard, svc, mode, skipped, end>>

-----------------------------------------------------------------------------
(* Supervisor calls that move the break.                                   *)

(* Mutant: the extension is left out of the comparison.                    *)
CanSbrkNow(incr, top) == brk <= top

(* The stack pointer is read in mem_sbrk, above what it calls itself.      *)
CanSbrk(incr, top) == brk + incr <= top

(* The way down to mem_sbrk or mem_init, which goes on with next.          *)
Descend(d, next) ==
  /\ sp >= d
  /\ depth' = d /\ below' = 0 /\ stage' = next
  /\ skipped' = (skipped \/ Crosses(sp - d, sp))
  /\ UNCHANGED <<old_brk, guard, sp, mode, end>>

FaultBelow(d) == Crosses(sp - d, sp) /\ Fault

(* mem_brk has moved, and the request to the server is to be sent.         *)
Accept(incr, d) ==
  /\ CanSbrk(incr, sp - d)
  /\ brk' = brk + incr
  /\ Descend(d, "send")

Refuse(incr, d) ==
  /\ ~ CanSbrk(incr, sp - d)
  /\ Descend(d, "refused") /\ UNCHANGED brk

Sbrk(incr, d) == Accept(incr, d) \/ Refuse(incr, d) \/ FaultBelow(d)

CallSbrk(incr, d) == InProgram /\ mode = "trace" /\ Sbrk(incr, d)

(* heap_test mallocs until mem_sbrk refuses.                               *)
HeapTest(incr, d) == InProgram /\ mode = "heap_test" /\ Sbrk(incr, d)

(* mem_init: the break goes back to the start of the heap.                 *)
CallInit(d) ==
  /\ InProgram /\ mode = "trace"
  /\ \/ brk' = Base /\ Descend(d, "send")
     \/ FaultBelow(d)

(* A callee of mem_sbrk lays its frames; those of the last are popped.     *)
Callee(c, next) ==
  /\ Own >= c
  /\ below' = c /\ stage' = next
  /\ skipped' = (skipped \/ Crosses(Own - c, Own))
  /\ UNCHANGED <<brk, old_brk, sp, depth, mode, end>>

FaultInCallee(c) == Crosses(Own - c, Own) /\ Fault

(* req_send: the break has moved, the guard not yet.                       *)
SendRequest(c) ==
  /\ Running /\ stage = "send"
  /\ \/ Callee(c, "update") /\ UNCHANGED guard
     \/ FaultInCallee(c)

(* proc_update moves the guard while its own frame lies there.             *)
UpdateGuard(c) ==
  /\ Running /\ stage = "update"
  /\ \/ Callee(c, "return") /\ guard' = GuardAt(brk)
     \/ FaultInCallee(c)

(* A refusal is printed.                                                   *)
ReportRefusal(c) ==
  /\ Running /\ stage = "refused"
  /\ \/ Callee(c, "failed") /\ UNCHANGED guard
     \/ FaultInCallee(c)

(* mm_malloc sends its request again and receives the answer: the guard    *)
(* may have been laid where its frames are to be.                          *)
SendAgain(r) ==
  /\ Running /\ stage = "return" /\ brk > old_brk
  /\ \/ /\ depth' = r /\ below' = 0 /\ stage' = "again"
        /\ UNCHANGED <<brk, old_brk, guard, sp, mode, skipped, end>>
     \/ Crosses(sp - r, sp) /\ Fault

(* The handler's frames are popped, wherever the guard is now.             *)
SvcReturn ==
  /\ Running /\ stage \in {"return", "again", "failed"}
  /\ \/ /\ stage' = "none" /\ depth' = 0 /\ below' = 0
        /\ old_brk' = brk
        /\ mode' = IF stage = "failed" /\ mode = "heap_test" THEN "heap_full" ELSE mode
        /\ UNCHANGED <<brk, guard, sp, skipped, end>>
     \/ Crosses(Bottom, sp) /\ Fault

SvcStep ==
  \/ \E c \in Callees : SendRequest(c) \/ UpdateGuard(c) \/ ReportRefusal(c)
  \/ \E r \in Agains : SendAgain(r)
  \/ SvcReturn

(* Mutant: the answer of sys_malloc is not looked at.                      *)
GiveUpRetry ==
  /\ InProgram /\ mode = "heap_full"
  /\ mode' = "heap_test"
  /\ UNCHANGED <<brk, old_brk, guard, sp, svc, skipped, end>>

(* heap_test: sys_malloc was NULL, so sys_mm_finish.                       *)
GiveUp ==
  /\ InProgram /\ mode = "heap_full"
  /\ \/ end' = "finish" /\ UNCHANGED <<brk, old_brk, guard, sp, svc, mode, skipped>>
     \/ \E r \in Agains : Crosses(sp - r, sp) /\ Fault

-----------------------------------------------------------------------------
(* TIM3, every 10 ms, below whatever runs.                                 *)

(* Mutant: the stack pointer is compared with the start of the heap.       *)
OverflowAtStart(top) == Base > top

Overflow(top) == brk > top

Tick ==
  LET top == Bottom - TickDepth IN
  /\ Running
  /\ \/ /\ Overflow(top) /\ end' = "overflow"
        /\ UNCHANGED <<brk, old_brk, guard, sp, svc, mode, skipped>>
     \/ Crosses(top, Bottom) /\ Fault

-----------------------------------------------------------------------------
Init ==
  /\ brk = Base /\ old_brk = Base
  /\ guard = GuardAt(Base)
  /\ sp = Top
  /\ stage = "none" /\ depth = 0 /\ below = 0
  /\ mode = "trace"
  /\ skipped = FALSE
  /\ end = "none"

Next ==
  \/ \E n \in Frames : Push(n) \/ Pop(n)
  \/ \E test \in {"stack_test", "heap_test"} : BeginTest(test)
  \/ StackTest
  \/ \E incr \in Incrs, d \in Depths : CallSbrk(incr, d) \/ HeapTest(incr, d)
  \/ \E d \in InitDepths : CallInit(d)
  \/ SvcStep
  \/ GiveUp
  \/ Tick

(* The timer keeps striking, a supervisor call goes on, and a test does    *)
(* nothing else.                                                           *)
Fairness ==
  /\ WF_vars(Tick)
  /\ WF_vars(SvcStep)
  /\ WF_vars(StackTest)
  /\ WF_vars(GiveUp)
  /\ WF_vars(\E incr \in Incrs, d \in Depths : HeapTest(incr, d))

Spec == Init /\ [][Next]_vars /\ Fairness

-----------------------------------------------------------------------------
(* Properties.                                                             *)

TypeOK ==
  /\ {brk, old_brk} \subseteq Nat
  /\ guard \in Nat /\ sp \in 0 .. Top
  /\ stage \in {"none", "send", "update", "refused", "return", "again", "failed"}
  /\ depth \in Depths \cup InitDepths \cup Agains \cup {0}
  /\ below \in Callees \cup {0}
  /\ mode \in {"trace", "stack_test", "heap_test", "heap_full"}
  /\ skipped \in BOOLEAN
  /\ end \in {"none", "fault", "overflow", "finish"}

(* Unless a frame was laid across the guard untouched: the program's stack *)
(* is above the guard, wherever sbrks have moved it; the frame of mem_sbrk *)
(* is above the break it has accepted; and what mem_sbrk calls, for which  *)
(* it leaves no room and which can run below that break, stays out of the  *)
(* memory that the program had before.                                     *)
StackSafe ==
  Running /\ ~ skipped => /\ sp >= guard + GuardSize
                         /\ Own >= brk
                         /\ Bottom >= old_brk

(* The stack in the heap, which an untouched frame or a callee of mem_sbrk *)
(* can bring about, is noticed at the next timer interrupt or left before. *)
OverrunReported ==
  (Running /\ brk > Bottom) ~> (~ Running \/ brk <= Bottom)

(* The two test lines of a trace end the session: endless recursion is     *)
(* caught, and endless allocation is refused or caught.                    *)
TestsEnd == (mode # "trace") ~> ~ Running
=============================================================================
