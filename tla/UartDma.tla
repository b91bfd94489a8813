------------------------------- MODULE UartDma -------------------------------
(***************************************************************************)
(* The MCU's end of the UART below Offload's messages: send and receive    *)
(* (mcu_request.c) over two DMA streams (uart_dma.c), with the interrupts  *)
(* that end a transfer, the stack check of TIM3 and the fault handlers.    *)
(*                                                                         *)
(* Library calls run at the priority of SVC (6), below the interrupts of   *)
(* reception (5) and transmission (4); the stack check (3) and the fault   *)
(* handlers (0) are above both.  These two never return, so one place is   *)
(* enough to say where the processor is.                                   *)
(*                                                                         *)
(* Two assumptions on time, SlowWire and SlowPeer below.                   *)
(***************************************************************************)
EXTENDS Integers, SequencesExt

CONSTANTS
  ReqBytes,   (* Bytes of a mem_request.                                    *)
  AnsBytes,   (* Bytes of an answer.                                        *)
  MaxCalls    (* Bound: library calls.                                      *)

ASSUME ByteAssumption == ReqBytes \in Nat \ {0} /\ AnsBytes \in Nat \ {0}
ASSUME CallAssumption == MaxCalls \in Nat

VARIABLES
  level,          (* Priority the processor runs at: 6, 3 or 0.             *)
  at,             (* Where in send, receive, tx_start, rx_start it is.      *)
  msg,            (* The request it sends.                                  *)
  calls,          (* Library calls made.                                    *)
  transmitting, receiving,          (* uart_dma.c                           *)
  tx_buffer,      (* mcu_request.c                                          *)
  txLeft, rxLeft, (* Bytes left of an enabled stream, 0 when disabled.      *)
  tcif7, tcif2,   (* Transfer complete interrupts pending.                  *)
  dmar,           (* USART1->CR3: reception by DMA.                         *)
  buffer,         (* Bytes the PC has received and not yet handled.         *)
  answer,         (* Bytes of an answer the PC has still to send.           *)
  started, handled,   (* History: requests whose transfer was enabled, and  *)
                      (* what the PC made of them.                          *)
  split           (* History: the stack check struck between uart_dma.c:62  *)
                  (* and :64.                                               *)

place    == <<level, at, msg, calls>>
stream7  == <<transmitting, tx_buffer, txLeft, tcif7>>
stream2  == <<receiving, rxLeft, tcif2, dmar>>
pc       == <<buffer, answer, handled>>
vars     == <<place, stream7, stream2, pc, started, split>>

BootCalls == 2

SVC == 6
TIM3 == 3
FAULT == 0
RX == 5
TX == 4

(* MALLOC and REALLOC are answered, FREE and SBRK not; "end" is mm_finish. *)
Message(kind, no) == [kind |-> kind, no |-> no]
End == Message("end", 0)

(* mm_init waits for the start word, which the PC sends once the LED shows *)
(* that it does.                                                           *)
Init ==
  /\ level = SVC /\ at = "receive" /\ msg = Message("call", 0) /\ calls = 0
  /\ transmitting = 0 /\ receiving = 0
  /\ tx_buffer = Message("call", 0)
  /\ txLeft = 0 /\ rxLeft = 0 /\ tcif7 = FALSE /\ tcif2 = FALSE
  /\ dmar = TRUE
  /\ buffer = << >> /\ answer = AnsBytes
  /\ started = << >> /\ handled = << >>
  /\ split = FALSE

-----------------------------------------------------------------------------
(* The processor.                                                          *)

(* A request of the library: mm_init's reset and first chunk, then those   *)
(* of the program's calls.                                                 *)
Call(kind) ==
  /\ level = SVC /\ at = "idle" /\ calls < MaxCalls
  /\ calls < BootCalls => kind = "note"
  /\ calls' = calls + 1
  /\ msg' = IF kind = "end" THEN End ELSE Message(kind, calls + 1)
  /\ at' = "send"
  /\ UNCHANGED <<level, stream7, stream2, pc, started, split>>

Goto(there) == at' = there /\ UNCHANGED <<level, msg, calls>>

(* Mutant: the buffer is filled without waiting.                           *)
SendUnwaited ==
  /\ at = "send"
  /\ tx_buffer' = msg
  /\ Goto("tx_start")
  /\ UNCHANGED <<transmitting, txLeft, tcif7, stream2, pc, started, split>>

(* uart_tx_wait and the memcpy to tx_buffer.                               *)
Send ==
  /\ at = "send" /\ transmitting = 0
  /\ tx_buffer' = msg
  /\ Goto("tx_start")
  /\ UNCHANGED <<transmitting, txLeft, tcif7, stream2, pc, started, split>>

(* uart_tx_wait again, and the stream disabled and set up: a transfer that *)
(* is cut short raises its interrupt.                                      *)
TxSetup ==
  /\ at = "tx_start" /\ transmitting = 0
  /\ txLeft' = 0
  /\ tcif7' = (tcif7 \/ txLeft > 0)
  /\ Goto("tx_enable")
  /\ UNCHANGED <<transmitting, tx_buffer, stream2, pc, started, split>>

(* Mutant: the transfer is a byte short.                                   *)
TxEnableShort ==
  /\ at = "tx_enable"
  /\ txLeft' = ReqBytes - 1
  /\ started' = Append(started, tx_buffer)
  /\ Goto("tx_flag")
  /\ UNCHANGED <<transmitting, tx_buffer, tcif7, stream2, pc, split>>

TxEnable ==
  /\ at = "tx_enable"
  /\ txLeft' = ReqBytes
  /\ started' = Append(started, tx_buffer)
  /\ Goto("tx_flag")
  /\ UNCHANGED <<transmitting, tx_buffer, tcif7, stream2, pc, split>>

(* Mutant: a request that is answered is not waited for.                   *)
TxFlagNoReceive ==
  /\ at = "tx_flag"
  /\ transmitting' = 1
  /\ Goto(IF msg.kind = "end" THEN "stopped" ELSE "idle")
  /\ UNCHANGED <<tx_buffer, txLeft, tcif7, stream2, pc, started, split>>

(* Mutant: the flag is not set.                                            *)
TxFlagUnset ==
  /\ at = "tx_flag"
  /\ Goto(CASE msg.kind = "call" -> "receive"
            [] msg.kind = "note" -> "idle"
            [] msg.kind = "end"  -> "stopped")
  /\ UNCHANGED <<stream7, stream2, pc, started, split>>

(* Back in the library: to the answer, to the program, or to loop().       *)
TxFlag ==
  /\ at = "tx_flag"
  /\ transmitting' = 1
  /\ Goto(CASE msg.kind = "call" -> "receive"
            [] msg.kind = "note" -> "idle"
            [] msg.kind = "end"  -> "stopped")
  /\ UNCHANGED <<tx_buffer, txLeft, tcif7, stream2, pc, started, split>>

(* uart_tx_wait, uart_rx_wait and uart_rx_setup.                           *)
RxSetup ==
  /\ at = "receive" /\ transmitting = 0 /\ receiving = 0
  /\ dmar' = TRUE
  /\ rxLeft' = 0
  /\ tcif2' = (tcif2 \/ rxLeft > 0)
  /\ Goto("rx_enable")
  /\ UNCHANGED <<receiving, stream7, pc, started, split>>

(* Mutant: as many bytes are awaited as a request has.                     *)
RxEnableRequest ==
  /\ at = "rx_enable"
  /\ rxLeft' = ReqBytes
  /\ Goto("rx_flag")
  /\ UNCHANGED <<receiving, tcif2, dmar, stream7, pc, started, split>>

RxEnable ==
  /\ at = "rx_enable"
  /\ rxLeft' = AnsBytes
  /\ Goto("rx_flag")
  /\ UNCHANGED <<receiving, tcif2, dmar, stream7, pc, started, split>>

RxFlag ==
  /\ at = "rx_flag"
  /\ receiving' = 1
  /\ Goto("rx_wait")
  /\ UNCHANGED <<rxLeft, tcif2, dmar, stream7, pc, started, split>>

RxDone ==
  /\ at = "rx_wait" /\ receiving = 0
  /\ Goto("idle")
  /\ UNCHANGED <<stream7, stream2, pc, started, split>>

Run ==
  Send \/ TxSetup \/ TxEnable \/ TxFlag \/ RxSetup \/ RxEnable \/ RxFlag \/ RxDone

-----------------------------------------------------------------------------
(* Interrupts and faults.                                                  *)

(* Mutant: the flag is not cleared.                                        *)
TxCompleteKept ==
  /\ tcif7 /\ level > TX
  /\ tcif7' = FALSE
  /\ UNCHANGED <<place, transmitting, tx_buffer, txLeft, stream2, pc, started, split>>

TxComplete ==
  /\ tcif7 /\ level > TX
  /\ tcif7' = FALSE
  /\ transmitting' = 0
  /\ UNCHANGED <<place, tx_buffer, txLeft, stream2, pc, started, split>>

RxComplete ==
  /\ tcif2 /\ level > RX
  /\ tcif2' = FALSE
  /\ receiving' = 0
  /\ dmar' = FALSE
  /\ UNCHANGED <<place, rxLeft, stream7, pc, started, split>>

(* mm_finish and loop() from a handler of priority p: it never returns.    *)
Finish(p) ==
  /\ level > p
  /\ level' = p
  /\ at' = "send"
  /\ msg' = End
  /\ UNCHANGED calls

(* TIM3_IRQHandler when the stack has grown into the heap, at any          *)
(* instruction once mm_init has started the timers.  When the stack has    *)
(* not, the handler changes nothing.                                       *)
StackOverflow ==
  /\ calls > BootCalls \/ (calls = BootCalls /\ at = "idle")
  /\ Finish(TIM3)
  /\ split' = (at = "tx_flag")
  /\ UNCHANGED <<stream7, stream2, pc, started>>

(* A fault of the program, of the library or of the stack check: the two   *)
(* instructions between enable and flag touch no memory that could fault.  *)
Fault ==
  /\ at \notin {"tx_flag", "rx_flag"}
  /\ Finish(FAULT)
  /\ UNCHANGED <<stream7, stream2, pc, started, split>>

-----------------------------------------------------------------------------
(* The DMA controller, the wire and the PC.                                *)

(* 8 bytes take 20 microseconds; between the enable and the flag are a few *)
(* instructions, or the stack check, which does not go on to the flag.     *)
SlowWire == at = "tx_flag" => txLeft > 1

TxByte ==
  /\ txLeft > 0 /\ SlowWire
  /\ txLeft' = txLeft - 1
  /\ tcif7' = (tcif7 \/ txLeft = 1)
  /\ buffer' = Append(buffer, <<tx_buffer, ReqBytes - txLeft + 1>>)
  /\ UNCHANGED <<place, transmitting, tx_buffer, stream2, answer, handled, started, split>>

(* The PC's answer crosses a USB bridge: the MCU is receiving by then, and *)
(* has set its flag before the last byte.                                  *)
SlowPeer == rxLeft > 0 /\ dmar /\ (at = "rx_flag" => rxLeft > 1)

RxByte ==
  /\ answer > 0 /\ SlowPeer
  /\ answer' = answer - 1
  /\ rxLeft' = rxLeft - 1
  /\ tcif2' = (rxLeft = 1)
  /\ UNCHANGED <<place, receiving, dmar, stream7, buffer, handled, started, split>>

(* What the bytes of a frame are to the server.                            *)
Decoded(bytes) ==
  LET m == bytes[1][1] IN
  IF bytes = [i \in 1 .. ReqBytes |-> <<m, i>>] THEN m ELSE Message("garbled", 0)

Ended == \E i \in DOMAIN handled : handled[i].kind = "end"

(* req_receive has its bytes; the loop of pc_server handles the request,   *)
(* until the end signal.                                                   *)
PcHandle ==
  LET m == Decoded(SubSeq(buffer, 1, ReqBytes)) IN
  /\ ~ Ended /\ Len(buffer) >= ReqBytes
  /\ buffer' = SubSeq(buffer, ReqBytes + 1, Len(buffer))
  /\ handled' = Append(handled, m)
  /\ answer' = IF m.kind = "call" THEN AnsBytes ELSE answer
  /\ UNCHANGED <<place, stream7, stream2, started, split>>

-----------------------------------------------------------------------------
Next ==
  \/ \E kind \in {"call", "note", "end"} : Call(kind)
  \/ Run
  \/ TxComplete \/ RxComplete
  \/ StackOverflow \/ Fault
  \/ TxByte \/ RxByte \/ PcHandle

(* The processor runs, the interrupts come when they may, the wire and the *)
(* PC go on.  Calls, overflows and faults need not happen.                 *)
Fairness ==
  /\ WF_vars(Run) /\ WF_vars(TxComplete) /\ WF_vars(RxComplete)
  /\ WF_vars(TxByte) /\ WF_vars(RxByte) /\ WF_vars(PcHandle)

Spec == Init /\ [][Next]_vars /\ Fairness

-----------------------------------------------------------------------------
(* Properties.                                                             *)

Messages == [kind : {"call", "note", "end"}, no : 0 .. MaxCalls]

(* The types of the driver's state and of the hardware's.                  *)
TypeOK ==
  /\ level \in {SVC, TIM3, FAULT}
  /\ at \in {"idle", "send", "tx_start", "tx_enable", "tx_flag", "stopped",
             "receive", "rx_enable", "rx_flag", "rx_wait"}
  /\ msg \in Messages /\ tx_buffer \in Messages
  /\ transmitting \in {0, 1} /\ receiving \in {0, 1}
  /\ txLeft \in 0 .. ReqBytes /\ rxLeft \in 0 .. AnsBytes
  /\ answer \in 0 .. AnsBytes
  /\ {tcif7, tcif2, dmar, split} \subseteq BOOLEAN
  /\ started \in Seq(Messages)

(* The flags say what uart_tx_wait and uart_rx_wait take them for: while   *)
(* one is clear its stream does not run and no completion is to come,      *)
(* except in the gap between enable and flag.  Only library calls receive, *)
(* so a handler may find a reception begun and will not wait for it.       *)
FlagGuardsTransfer ==
  /\ transmitting = 0 /\ at # "tx_flag" /\ ~ split => txLeft = 0 /\ ~ tcif7
  /\ level = SVC /\ receiving = 0 /\ at # "rx_flag" => rxLeft = 0 /\ ~ tcif2

(* What the PC reads is what was sent: the requests, whole, in order, and  *)
(* no byte of one overwritten by the next or by an end signal - unless the *)
(* stack check strikes between enable and flag.                            *)
InOrder == ~ split => IsPrefix(handled, started)

(* A call that is answered returns with the answer to it: no byte of an    *)
(* answer is left over for the next.                                       *)
AnswerTaken ==
  level = SVC /\ at \in {"idle", "send"} => answer = 0 /\ rxLeft = 0

(* No wait of a library call is for ever, unless a handler takes over.     *)
CallReturns ==
  level = SVC /\ at \notin {"idle", "stopped"}
    ~> level # SVC \/ at \in {"idle", "stopped"}

(* An end signal that finds the transmitter idle reaches the server, even  *)
(* when a fault interrupts the stack check that sends it.                  *)
EndDelivered ==
  level # SVC /\ at = "send" /\ transmitting = 0 /\ ~ split ~> Ended

(* mcu_init.c:5, :31: the fault handlers send the exit signal.             *)
FaultEndsSession == level = FAULT /\ ~ split ~> Ended
=============================================================================
