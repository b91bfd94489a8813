---------------------------- MODULE UartDmaProofs ----------------------------
(* That requests arrive whole and in order and answers are taken by the    *)
(* calls they belong to, for every length of a request and of an answer.   *)
EXTENDS UartDma, TLAPS

-----------------------------------------------------------------------------
(* Types.                                                                  *)

(* What the PC can make of a frame.                                        *)
Handled == Messages \cup {Message("garbled", 0)}

TypeInv ==
  /\ TypeOK
  /\ calls \in 0 .. MaxCalls
  /\ buffer \in Seq(Messages \X (1 .. ReqBytes))
  /\ handled \in Seq(Handled)

LEMMA InitTypeInv == Init => TypeInv
<1> SUFFICES ASSUME Init PROVE TypeInv
  OBVIOUS
<1> USE ByteAssumption, CallAssumption
<1>1. {tcif7, tcif2, dmar, split} \subseteq BOOLEAN
  BY DEF Init
<1>2. started \in Seq(Messages) /\ handled \in Seq(Handled)
      /\ buffer \in Seq(Messages \X (1 .. ReqBytes))
  BY DEF Init
<1>3. msg \in Messages /\ tx_buffer \in Messages
  BY DEF Init, Messages, Message
<1> QED
  BY <1>1, <1>2, <1>3 DEF Init, TypeInv, TypeOK, SVC, TIM3, FAULT

(* Places of a library call or a handler.                                  *)
Places == {"idle", "send", "tx_start", "tx_enable", "tx_flag", "stopped",
           "receive", "rx_enable", "rx_flag", "rx_wait"}

LEMMA RunTypeInv ==
  ASSUME TypeInv, Run
  PROVE  TypeInv'
<1> USE ByteAssumption, CallAssumption
<1>1. UNCHANGED <<level, msg, calls, pc, split>> /\ at' \in Places
  <2>1. CASE TxFlag
    <3>1. msg.kind \in {"call", "note", "end"}
      BY DEF TypeInv, TypeOK, Messages
    <3> QED
      BY <2>1, <3>1 DEF TxFlag, Goto, Places
  <2> QED
    BY <2>1 DEF Run, Goto, Places, Send, TxSetup, TxEnable, RxSetup, RxEnable,
               RxFlag, RxDone
<1>2. tx_buffer' \in Messages /\ started' \in Seq(Messages)
  <2>1. tx_buffer' = tx_buffer \/ tx_buffer' = msg
    BY DEF Run, stream7, Send, TxSetup, TxEnable, TxFlag, RxSetup, RxEnable,
           RxFlag, RxDone
  <2>2. started' = started \/ started' = Append(started, tx_buffer)
    BY DEF Run, Send, TxSetup, TxEnable, TxFlag, RxSetup, RxEnable, RxFlag, RxDone
  <2>3. tx_buffer \in Messages /\ msg \in Messages /\ started \in Seq(Messages)
    BY DEF TypeInv, TypeOK
  <2> QED
    BY <2>1, <2>2, <2>3
<1>3. transmitting' \in {0, 1} /\ receiving' \in {0, 1}
  BY DEF Run, stream7, stream2, Send, TxSetup, TxEnable, TxFlag, RxSetup,
         RxEnable, RxFlag, RxDone, TypeInv, TypeOK
<1>4. txLeft' \in 0 .. ReqBytes /\ rxLeft' \in 0 .. AnsBytes
  BY DEF Run, stream7, stream2, Send, TxSetup, TxEnable, TxFlag, RxSetup,
         RxEnable, RxFlag, RxDone, TypeInv, TypeOK
<1>5. {tcif7, tcif2, dmar, split}' \subseteq BOOLEAN
  <2>1. tcif7 \in BOOLEAN /\ tcif2 \in BOOLEAN /\ dmar \in BOOLEAN /\ split \in BOOLEAN
    BY DEF TypeInv, TypeOK
  <2>2. tcif7' \in BOOLEAN /\ tcif2' \in BOOLEAN /\ dmar' \in BOOLEAN
    BY <2>1, Zenon DEF Run, stream7, stream2, Send, TxSetup, TxEnable, TxFlag,
         RxSetup, RxEnable, RxFlag, RxDone
  <2> QED
    BY <1>1, <2>1, <2>2
<1> QED
  BY <1>1, <1>2, <1>3, <1>4, <1>5 DEF TypeInv, TypeOK, pc, Places

LEMMA CallTypeInv ==
  ASSUME TypeInv, NEW kind \in {"call", "note", "end"}, Call(kind)
  PROVE  TypeInv'
<1> USE ByteAssumption, CallAssumption
<1>1. calls + 1 \in 0 .. MaxCalls
  BY DEF TypeInv, Call
<1>2. msg' \in Messages
  <2>1. Message(kind, calls + 1) \in Messages /\ End \in Messages
    BY <1>1 DEF Messages, Message, End
  <2> QED
    BY <2>1 DEF Call
<1> QED
  BY <1>1, <1>2 DEF TypeInv, TypeOK, Call, stream7, stream2, pc

LEMMA InterruptTypeInv ==
  ASSUME TypeInv, TxComplete \/ RxComplete \/ StackOverflow \/ Fault
  PROVE  TypeInv'
<1> USE ByteAssumption, CallAssumption
<1>1. End \in Messages
  BY DEF Messages, Message, End
<1>2. CASE TxComplete
  BY <1>2 DEF TypeInv, TypeOK, TxComplete, stream2, pc, place
<1>3. CASE RxComplete
  BY <1>3 DEF TypeInv, TypeOK, RxComplete, stream7, pc, place
<1>4. CASE StackOverflow
  <2>1. split' \in BOOLEAN
    BY <1>4 DEF StackOverflow
  <2> QED
    BY <1>1, <1>4, <2>1 DEF TypeInv, TypeOK, StackOverflow, Finish, stream7,
                            stream2, pc
<1>5. CASE Fault
  BY <1>1, <1>5 DEF TypeInv, TypeOK, Fault, Finish, stream7, stream2, pc
<1> QED
  BY <1>2, <1>3, <1>4, <1>5

LEMMA WireTypeInv ==
  ASSUME TypeInv, TxByte \/ RxByte
  PROVE  TypeInv'
<1> USE ByteAssumption, CallAssumption
<1>1. CASE TxByte
  <2>1. txLeft - 1 \in 0 .. ReqBytes /\ ReqBytes - txLeft + 1 \in 1 .. ReqBytes
    BY <1>1 DEF TypeInv, TypeOK, TxByte
  <2>2. buffer' \in Seq(Messages \X (1 .. ReqBytes))
    BY <1>1, <2>1 DEF TypeInv, TypeOK, TxByte
  <2>3. tcif7' \in BOOLEAN
    BY <1>1 DEF TypeInv, TypeOK, TxByte
  <2> QED
    BY <1>1, <2>1, <2>2, <2>3 DEF TypeInv, TypeOK, TxByte, place, stream2
<1>2. CASE RxByte
  <2>1. rxLeft - 1 \in 0 .. AnsBytes /\ answer - 1 \in 0 .. AnsBytes
    BY <1>2 DEF TypeInv, TypeOK, RxByte, SlowPeer
  <2>2. tcif2' \in BOOLEAN
    BY <1>2 DEF RxByte
  <2> QED
    BY <1>2, <2>1, <2>2 DEF TypeInv, TypeOK, RxByte, place, stream7
<1> QED
  BY <1>1, <1>2

LEMMA PcTypeInv ==
  ASSUME TypeInv, PcHandle
  PROVE  TypeInv'
<1> USE ByteAssumption, CallAssumption
<1> DEFINE frame == SubSeq(buffer, 1, ReqBytes)
<1>1. Len(buffer) >= ReqBytes /\ buffer \in Seq(Messages \X (1 .. ReqBytes))
  BY DEF PcHandle, TypeInv
<1>2. frame[1] \in Messages \X (1 .. ReqBytes)
  BY <1>1
<1>3. Decoded(frame) \in Handled
  BY <1>2 DEF Decoded, Handled
<1>4. buffer' \in Seq(Messages \X (1 .. ReqBytes))
  BY <1>1 DEF PcHandle
<1>5. handled' \in Seq(Handled)
  BY <1>3 DEF PcHandle, TypeInv
<1>6. answer' \in 0 .. AnsBytes
  BY DEF PcHandle, TypeInv, TypeOK
<1> QED
  BY <1>4, <1>5, <1>6 DEF TypeInv, TypeOK, PcHandle, place, stream7, stream2

LEMMA StutterTypeInv ==
  ASSUME TypeInv, UNCHANGED vars
  PROVE  TypeInv'
BY DEF TypeInv, TypeOK, vars, place, stream7, stream2, pc

LEMMA NextTypeInv ==
  ASSUME TypeInv, [Next]_vars
  PROVE  TypeInv'
BY RunTypeInv, CallTypeInv, InterruptTypeInv, WireTypeInv, PcTypeInv,
   StutterTypeInv DEF Next

-----------------------------------------------------------------------------
(* The transmitter: a clear flag means an idle stream.                     *)

TxInv ==
  /\ level = SVC => ~ split
  /\ ~ split =>
       /\ transmitting = 0 /\ at # "tx_flag" => txLeft = 0 /\ ~ tcif7
       /\ at \in {"tx_enable", "tx_flag"} => transmitting = 0
       /\ at = "tx_flag" => ~ tcif7
       /\ tcif7 => txLeft = 0

LEMMA InitTxInv == Init => TxInv
BY DEF Init, TxInv

LEMMA RunTxInv ==
  ASSUME TypeInv, TxInv, Run
  PROVE  TxInv'
<1> USE ByteAssumption
<1>0. txLeft \in Nat /\ level' = level /\ split' = split
  BY DEF TypeInv, TypeOK, Run, Goto, Send, TxSetup, TxEnable, TxFlag, RxSetup,
         RxEnable, RxFlag, RxDone
<1>1. CASE Send
  BY <1>0, <1>1 DEF TxInv, Send, Goto
<1>2. CASE TxSetup
  <2>1. txLeft' = 0 /\ at' = "tx_enable" /\ transmitting' = 0
    BY <1>2 DEF TxSetup, Goto
  <2>2. ~ split => ~ tcif7'
    <3>1. ~ split => txLeft = 0 /\ ~ tcif7
      BY <1>2 DEF TxInv, TxSetup
    <3>2. ~ split => ~ (txLeft > 0)
      BY <3>1
    <3> QED
      BY <1>2, <3>1, <3>2, Zenon DEF TxSetup
  <2> QED
    BY <1>0, <2>1, <2>2 DEF TxInv
<1>3. CASE TxEnable
  BY <1>0, <1>3 DEF TxInv, TxEnable, Goto
<1>4. CASE TxFlag
  <2>1. at' \notin {"tx_enable", "tx_flag"}
    <3>1. msg.kind \in {"call", "note", "end"}
      BY DEF TypeInv, TypeOK, Messages
    <3> QED
      BY <1>4, <3>1 DEF TxFlag, Goto
  <2> QED
    BY <1>0, <1>4, <2>1 DEF TxInv, TxFlag
<1>5. CASE RxSetup \/ RxEnable \/ RxFlag \/ RxDone
  <2>1. UNCHANGED stream7 /\ at # "tx_flag" /\ at' \notin {"tx_enable", "tx_flag"}
    BY <1>5 DEF RxSetup, RxEnable, RxFlag, RxDone, Goto
  <2> QED
    BY <1>0, <2>1 DEF TxInv, stream7
<1> QED
  BY <1>1, <1>2, <1>3, <1>4, <1>5 DEF Run

LEMMA NextTxInv ==
  ASSUME TypeInv, TxInv, [Next]_vars
  PROVE  TxInv'
<1> USE ByteAssumption
<1>1. ASSUME NEW kind \in {"call", "note", "end"}, Call(kind)
      PROVE  TxInv'
  BY <1>1 DEF TxInv, Call, stream7
<1>2. CASE TxComplete
  BY <1>2 DEF TxInv, TxComplete, place
<1>3. CASE RxComplete
  BY <1>3 DEF TxInv, RxComplete, place, stream7
<1>4. CASE StackOverflow
  <2>1. level = SVC
    BY <1>4 DEF TypeInv, TypeOK, StackOverflow, Finish, SVC, TIM3, FAULT
  <2>2. level' # SVC /\ at' = "send" /\ UNCHANGED <<transmitting, txLeft, tcif7>>
    BY <1>4 DEF StackOverflow, Finish, stream7, SVC, TIM3
  <2>3. ~ split' => at # "tx_flag"
    BY <1>4 DEF StackOverflow
  <2> QED
    BY <2>1, <2>2, <2>3 DEF TxInv
<1>5. CASE Fault
  BY <1>5 DEF TxInv, Fault, Finish, stream7, SVC, FAULT
<1>6. CASE TxByte
  <2>1. txLeft \in Nat /\ txLeft > 0
    BY <1>6 DEF TypeInv, TypeOK, TxByte
  <2>2. ~ split /\ tcif7' => txLeft = 1 /\ txLeft' = 0
    <3>1. ~ split => ~ tcif7
      BY <2>1 DEF TxInv
    <3>2. tcif7 \in BOOLEAN
      BY DEF TypeInv, TypeOK
    <3> QED
      BY <1>6, <3>1, <3>2 DEF TxByte
  <2>3. at = "tx_flag" => txLeft # 1
    BY <1>6, <2>1 DEF TxByte, SlowWire
  <2> QED
    BY <1>6, <2>1, <2>2, <2>3 DEF TxInv, TxByte, place
<1>7. CASE RxByte
  BY <1>7 DEF TxInv, RxByte, place, stream7
<1>8. CASE PcHandle
  BY <1>8 DEF TxInv, PcHandle, place, stream7
<1>9. CASE UNCHANGED vars
  BY <1>9 DEF TxInv, vars, place, stream7
<1> QED
  BY <1>1, <1>2, <1>3, <1>4, <1>5, <1>6, <1>7, <1>8, <1>9, RunTxInv DEF Next

(* Flags, streams, queues and the places of the processor keep their types *)
(* through every interrupt, whatever it interrupts.                        *)
THEOREM TransferTyped == Spec => []TypeOK
<1>1. Init => TypeInv
  BY InitTypeInv
<1>2. TypeInv /\ [Next]_vars => TypeInv'
  BY NextTypeInv
<1>3. TypeInv => TypeOK
  BY DEF TypeInv
<1> QED
  BY <1>1, <1>2, <1>3, PTL DEF Spec

-----------------------------------------------------------------------------
(* The bytes on their way: those of the requests started and not handled,  *)
(* in order, but the ones the stream still has.                            *)

ByteInv ==
  ~ split =>
    /\ Len(handled) <= Len(started)
    /\ \A n \in 1 .. Len(handled) : handled[n] = started[n]
    /\ Len(buffer) = (Len(started) - Len(handled)) * ReqBytes - txLeft
    /\ \A j \in Nat, i \in 1 .. ReqBytes :
         j * ReqBytes + i <= Len(buffer) =>
           buffer[j * ReqBytes + i] = <<started[Len(handled) + 1 + j], i>>
    /\ txLeft > 0 => tx_buffer = started[Len(started)]

LEMMA ProductMonotone ==
  ASSUME NEW a \in Nat, NEW b \in Nat, a <= b, NEW r \in Nat
  PROVE  a * r <= b * r
<1>1. PICK d \in Nat : b = a + d
  <2>1. b - a \in Nat /\ b = a + (b - a)
    OBVIOUS
  <2> QED
    BY <2>1
<1>2. b * r = a * r + d * r /\ d * r \in Nat /\ a * r \in Nat
  BY <1>1
<1> QED
  BY <1>2

(* A byte of k whole requests is a byte of one of them.                    *)
LEMMA RequestOfByte ==
  ASSUME NEW k \in Nat, NEW j \in Nat, NEW i \in 1 .. ReqBytes,
         j * ReqBytes + i <= k * ReqBytes
  PROVE  j < k
<1> USE ByteAssumption
<1>1. ASSUME k <= j PROVE FALSE
  <2>1. k * ReqBytes <= j * ReqBytes
    BY <1>1, ProductMonotone
  <2>2. k * ReqBytes \in Nat /\ j * ReqBytes \in Nat
    OBVIOUS
  <2> QED
    BY <2>1, <2>2
<1> QED
  BY <1>1

(* The next byte of a transfer is one of the last request, the one the     *)
(* stream is at.                                                           *)
LEMMA NextByte ==
  ASSUME NEW k \in Nat, NEW left \in 1 .. ReqBytes,
         NEW j \in Nat, NEW i \in 1 .. ReqBytes,
         j * ReqBytes + i = k * ReqBytes - left + 1
  PROVE  j = k - 1 /\ i = ReqBytes - left + 1
<1> USE ByteAssumption
<1>0. k * ReqBytes \in Nat /\ j * ReqBytes \in Nat
  OBVIOUS
<1>1. j < k
  BY <1>0, RequestOfByte
<1>2. (k - 1) * ReqBytes = k * ReqBytes - ReqBytes
  OBVIOUS
<1>3. (j + 1) * ReqBytes = j * ReqBytes + ReqBytes
  OBVIOUS
<1>4. ASSUME j + 1 <= k - 1 PROVE FALSE
  <2>1. j + 1 \in Nat /\ k - 1 \in Nat
    BY <1>4
  <2>2. (j + 1) * ReqBytes <= (k - 1) * ReqBytes
    BY <1>4, <2>1, ProductMonotone
  <2> QED
    BY <1>0, <1>2, <1>3, <2>2
<1>5. j = k - 1
  BY <1>1, <1>4
<1> QED
  BY <1>0, <1>2, <1>5

LEMMA InitByteInv == Init => ByteInv
<1> SUFFICES ASSUME Init PROVE ByteInv
  OBVIOUS
<1> USE ByteAssumption
<1>1. Len(handled) = 0 /\ Len(started) = 0 /\ Len(buffer) = 0 /\ txLeft = 0
  BY DEF Init
<1>2. ASSUME NEW j \in Nat, NEW i \in 1 .. ReqBytes
      PROVE  ~ (j * ReqBytes + i <= 0)
  <2>1. j * ReqBytes \in Nat
    OBVIOUS
  <2> QED
    BY <2>1
<1>3. (Len(started) - Len(handled)) * ReqBytes - txLeft = 0
  BY <1>1
<1> QED
  BY <1>1, <1>2, <1>3 DEF ByteInv

(* Nothing of it changes.                                                  *)
LEMMA SameBytes ==
  ASSUME ByteInv, split' = split \/ ~ split,
         UNCHANGED <<handled, started, buffer, txLeft, tx_buffer>>
  PROVE  ByteInv'
BY DEF ByteInv

(* What the lengths are.                                                   *)
LEMMA Counts ==
  ASSUME TypeInv
  PROVE  /\ Len(handled) \in Nat /\ Len(started) \in Nat /\ Len(buffer) \in Nat
         /\ txLeft \in 0 .. ReqBytes
BY DEF TypeInv, TypeOK

LEMMA TxEnableByteInv ==
  ASSUME TypeInv, TxInv, ByteInv, TxEnable
  PROVE  ByteInv'
<1> USE ByteAssumption
<1> SUFFICES ASSUME ~ split' PROVE ByteInv'
  BY DEF ByteInv
<1>0. ~ split
  BY DEF TxEnable
<1> DEFINE H == Len(handled)
           S == Len(started)
<1>1. H \in Nat /\ S \in Nat /\ Len(buffer) \in Nat /\ H <= S
  BY <1>0, Counts DEF ByteInv
<1>2. txLeft = 0
  BY <1>0 DEF TxInv, TxEnable
<1>3. /\ started' = Append(started, tx_buffer) /\ txLeft' = ReqBytes
      /\ UNCHANGED <<handled, buffer, tx_buffer>>
  BY DEF TxEnable, pc
<1>4. /\ Len(started') = S + 1 /\ started'[S + 1] = tx_buffer
      /\ \A n \in 1 .. S : started'[n] = started[n]
  BY <1>3 DEF TypeInv, TypeOK
<1>5. Len(buffer) = (S - H) * ReqBytes
  BY <1>0, <1>1, <1>2 DEF ByteInv
<1>6. Len(buffer) = (S + 1 - H) * ReqBytes - ReqBytes
  BY <1>1, <1>5
<1>7. ASSUME NEW j \in Nat, NEW i \in 1 .. ReqBytes,
             j * ReqBytes + i <= Len(buffer)
      PROVE  buffer[j * ReqBytes + i] = <<started'[H + 1 + j], i>>
  <2>1. j < S - H
    BY <1>1, <1>5, <1>7, RequestOfByte
  <2>2. H + 1 + j \in 1 .. S
    BY <1>1, <2>1
  <2> QED
    BY <1>0, <1>4, <1>7, <2>2 DEF ByteInv
<1>8. \A n \in 1 .. H : handled[n] = started'[n]
  BY <1>0, <1>1, <1>4 DEF ByteInv
<1>9. Len(buffer') = (Len(started') - Len(handled')) * ReqBytes - txLeft'
  BY <1>3, <1>4, <1>6
<1>10. Len(handled') <= Len(started')
  BY <1>1, <1>3, <1>4
<1>11. tx_buffer' = started'[Len(started')]
  BY <1>3, <1>4
<1> QED
  BY <1>3, <1>7, <1>8, <1>9, <1>10, <1>11 DEF ByteInv

LEMMA TxByteByteInv ==
  ASSUME TypeInv, TxInv, ByteInv, TxByte
  PROVE  ByteInv'
<1> USE ByteAssumption
<1> SUFFICES ASSUME ~ split' PROVE ByteInv'
  BY DEF ByteInv
<1>0. ~ split
  BY DEF TxByte
<1> DEFINE H == Len(handled)
           S == Len(started)
           B == Len(buffer)
<1>1. H \in Nat /\ S \in Nat /\ B \in Nat /\ H <= S /\ S - H \in Nat
  BY <1>0, Counts DEF ByteInv
<1>2. txLeft \in 1 .. ReqBytes /\ txLeft - 1 \in Nat
  BY Counts DEF TxByte
<1>3. /\ buffer' = Append(buffer, <<tx_buffer, ReqBytes - txLeft + 1>>)
      /\ txLeft' = txLeft - 1
      /\ UNCHANGED <<handled, started, tx_buffer>>
  BY DEF TxByte
<1>4. B = (S - H) * ReqBytes - txLeft /\ tx_buffer = started[S]
  BY <1>0, <1>2 DEF ByteInv
<1>5. /\ Len(buffer') = B + 1
      /\ buffer'[B + 1] = <<tx_buffer, ReqBytes - txLeft + 1>>
      /\ \A n \in 1 .. B : buffer'[n] = buffer[n]
  BY <1>3 DEF TypeInv
<1>6. B + 1 = (S - H) * ReqBytes - (txLeft - 1)
      /\ B + 1 = (S - H) * ReqBytes - txLeft + 1
  <2>1. (S - H) * ReqBytes \in Nat
    BY <1>1
  <2> QED
    BY <1>1, <1>2, <1>4, <2>1
<1>7. ASSUME NEW j \in Nat, NEW i \in 1 .. ReqBytes,
             j * ReqBytes + i <= B + 1
      PROVE  buffer'[j * ReqBytes + i] = <<started[H + 1 + j], i>>
  <2>0. j * ReqBytes \in Nat
    OBVIOUS
  <2>1. CASE j * ReqBytes + i = B + 1
    <3>0. j * ReqBytes + i = (S - H) * ReqBytes - txLeft + 1
      BY <1>6, <2>1
    <3>1. j = S - H - 1 /\ i = ReqBytes - txLeft + 1
      <4> HIDE DEF S, H
      <4> QED
        BY <1>1, <1>2, <3>0, NextByte
    <3>2. H + 1 + j = S
      BY <1>1, <3>1
    <3> QED
      BY <1>4, <1>5, <2>1, <3>1, <3>2
  <2>2. CASE j * ReqBytes + i <= B
    <3>1. j * ReqBytes + i \in 1 .. B
      BY <1>1, <2>0, <2>2
    <3> QED
      BY <1>0, <1>5, <2>2, <3>1 DEF ByteInv
  <2> QED
    BY <1>1, <1>7, <2>0, <2>1, <2>2
<1> QED
  BY <1>0, <1>3, <1>4, <1>5, <1>6, <1>7 DEF ByteInv

(* The PC cuts the stream where the requests end.                          *)
LEMMA FrameIsRequest ==
  ASSUME TypeInv, ByteInv, ~ split, Len(buffer) >= ReqBytes
  PROVE  /\ Len(handled) + 1 <= Len(started)
         /\ Decoded(SubSeq(buffer, 1, ReqBytes)) = started[Len(handled) + 1]
<1> USE ByteAssumption
<1> DEFINE H == Len(handled)
           S == Len(started)
           frame == SubSeq(buffer, 1, ReqBytes)
<1>1. H \in Nat /\ S \in Nat /\ Len(buffer) \in Nat /\ H <= S /\ S - H \in Nat
      /\ txLeft \in Nat
  BY Counts DEF ByteInv
<1>2. Len(buffer) = (S - H) * ReqBytes - txLeft
  BY DEF ByteInv
<1>3. 0 * ReqBytes + 1 <= (S - H) * ReqBytes
  <2>1. (S - H) * ReqBytes \in Nat
    BY <1>1
  <2> QED
    BY <1>1, <1>2, <2>1
<1>4. 0 < S - H
  BY <1>1, <1>3, RequestOfByte
<1>5. ASSUME NEW i \in 1 .. ReqBytes
      PROVE  buffer[i] = <<started[H + 1], i>>
  <2>1. 0 * ReqBytes + i = i /\ H + 1 + 0 = H + 1 /\ i <= Len(buffer)
    BY <1>1
  <2>2. 0 * ReqBytes + i <= Len(buffer) =>
          buffer[0 * ReqBytes + i] = <<started[H + 1 + 0], i>>
    BY DEF ByteInv
  <2> QED
    BY <2>1, <2>2
<1>6. frame = [i \in 1 .. ReqBytes |-> <<started[H + 1], i>>]
  <2>1. buffer \in Seq(Messages \X (1 .. ReqBytes))
    BY DEF TypeInv
  <2>2. Len(frame) = ReqBytes /\ \A i \in 1 .. ReqBytes : frame[i] = buffer[i]
        /\ frame \in Seq(Messages \X (1 .. ReqBytes))
    BY <2>1
  <2>3. frame = [i \in 1 .. ReqBytes |-> frame[i]]
    BY <2>2
  <2> QED
    BY <1>5, <2>2, <2>3
<1>7. frame[1][1] = started[H + 1]
  BY <1>6
<1> QED
  BY <1>1, <1>4, <1>6, <1>7 DEF Decoded

LEMMA PcHandleByteInv ==
  ASSUME TypeInv, ByteInv, PcHandle
  PROVE  ByteInv'
<1> USE ByteAssumption
<1> SUFFICES ASSUME ~ split' PROVE ByteInv'
  BY DEF ByteInv
<1>0. ~ split /\ Len(buffer) >= ReqBytes
  BY DEF PcHandle
<1> DEFINE H == Len(handled)
           S == Len(started)
           B == Len(buffer)
<1>1. H \in Nat /\ S \in Nat /\ B \in Nat /\ H <= S /\ S - H \in Nat
      /\ txLeft \in Nat
  BY <1>0, Counts DEF ByteInv
<1>2. H + 1 <= S /\ handled' = Append(handled, started[H + 1])
  BY <1>0, FrameIsRequest DEF PcHandle
<1>3. buffer' = SubSeq(buffer, ReqBytes + 1, B)
      /\ UNCHANGED <<started, txLeft, tx_buffer>>
  BY DEF PcHandle, stream7
<1>4. Len(handled') = H + 1 /\ \A n \in 1 .. H + 1 : handled'[n] = started[n]
  <2>1. handled \in Seq(Handled) /\ \A n \in 1 .. H : handled[n] = started[n]
    BY <1>0 DEF TypeInv, ByteInv
  <2> QED
    BY <1>2, <2>1
<1>5. Len(buffer') = B - ReqBytes
      /\ \A n \in 1 .. B - ReqBytes : buffer'[n] = buffer[ReqBytes + n]
  <2>1. buffer \in Seq(Messages \X (1 .. ReqBytes))
    BY DEF TypeInv
  <2> QED
    BY <1>0, <1>3, <2>1
<1>6. B - ReqBytes = (S - (H + 1)) * ReqBytes - txLeft
  <2>1. (S - (H + 1)) * ReqBytes = (S - H) * ReqBytes - ReqBytes
    BY <1>1
  <2>2. B = (S - H) * ReqBytes - txLeft /\ (S - H) * ReqBytes \in Nat
    BY <1>0, <1>1 DEF ByteInv
  <2> QED
    BY <1>1, <2>1, <2>2
<1>7. ASSUME NEW j \in Nat, NEW i \in 1 .. ReqBytes,
             j * ReqBytes + i <= B - ReqBytes
      PROVE  buffer'[j * ReqBytes + i] = <<started[H + 1 + 1 + j], i>>
  <2>1. (j + 1) * ReqBytes + i = ReqBytes + (j * ReqBytes + i)
        /\ j * ReqBytes \in Nat
    OBVIOUS
  <2>2. j * ReqBytes + i \in 1 .. B - ReqBytes /\ (j + 1) * ReqBytes + i <= B
    BY <1>1, <1>7, <2>1
  <2>3. j + 1 \in Nat /\ H + 1 + (j + 1) = H + 1 + 1 + j
    BY <1>1
  <2>4. buffer[(j + 1) * ReqBytes + i] = <<started[H + 1 + (j + 1)], i>>
    BY <1>0, <2>2, <2>3 DEF ByteInv
  <2> QED
    BY <1>5, <2>1, <2>2, <2>3, <2>4
<1>8. txLeft > 0 => tx_buffer = started[S]
  BY <1>0 DEF ByteInv
<1> QED
  BY <1>2, <1>3, <1>4, <1>5, <1>6, <1>7, <1>8 DEF ByteInv

LEMMA NextByteInv ==
  ASSUME TypeInv, TxInv, ByteInv, [Next]_vars
  PROVE  ByteInv'
<1>1. ASSUME NEW kind \in {"call", "note", "end"}, Call(kind)
      PROVE  ByteInv'
  BY <1>1, SameBytes DEF Call, stream7, pc
<1>2. CASE Send
  BY <1>2 DEF TxInv, ByteInv, Send, pc
<1>3. CASE TxSetup
  <2>1. ~ split => txLeft' = txLeft
    BY <1>3 DEF TxInv, TxSetup
  <2> QED
    BY <1>3, <2>1 DEF ByteInv, TxSetup, pc
<1>4. CASE TxFlag \/ RxSetup \/ RxEnable \/ RxFlag \/ RxDone
  BY <1>4, SameBytes DEF TxFlag, RxSetup, RxEnable, RxFlag, RxDone, stream7, pc
<1>5. CASE TxComplete \/ RxComplete
  BY <1>5, SameBytes DEF TxComplete, RxComplete, stream7, pc
<1>6. CASE StackOverflow
  <2>1. ~ split
    BY <1>6 DEF TypeInv, TypeOK, TxInv, StackOverflow, Finish, SVC, TIM3, FAULT
  <2> QED
    BY <1>6, <2>1, SameBytes DEF StackOverflow, stream7, pc
<1>7. CASE Fault
  BY <1>7, SameBytes DEF Fault, stream7, pc
<1>8. CASE RxByte
  BY <1>8, SameBytes DEF RxByte, stream7
<1>9. CASE UNCHANGED vars
  BY <1>9, SameBytes DEF vars, stream7, pc
<1> QED
  BY <1>1, <1>2, <1>3, <1>4, <1>5, <1>6, <1>7, <1>8, <1>9, TxEnableByteInv,
     TxByteByteInv, PcHandleByteInv DEF Next, Run

(* Requests arrive whole and in the order they were sent.                  *)
THEOREM AlwaysInOrder == Spec => []InOrder
<1>1. Init => TypeInv /\ TxInv /\ ByteInv
  BY InitTypeInv, InitTxInv, InitByteInv
<1>2. TypeInv /\ TxInv /\ ByteInv /\ [Next]_vars => (TypeInv /\ TxInv /\ ByteInv)'
  BY NextTypeInv, NextTxInv, NextByteInv
<1>3. TypeInv /\ ByteInv => InOrder
  <2> SUFFICES ASSUME TypeInv, ByteInv, ~ split
               PROVE  IsPrefix(handled, started)
    BY DEF InOrder
  <2>1. /\ Len(handled) <= Len(started)
        /\ \A n \in 1 .. Len(handled) : handled[n] = started[n]
    BY DEF ByteInv
  <2>2. handled \in Seq(Handled) /\ started \in Seq(Messages)
    BY DEF TypeInv, TypeOK
  <2>3. SubSeq(handled, 1, Len(handled)) = SubSeq(started, 1, Len(handled))
    BY <2>1, <2>2
  <2> QED
    BY <2>1, <2>3 DEF IsPrefix
<1> QED
  BY <1>1, <1>2, <1>3, PTL DEF Spec

-----------------------------------------------------------------------------
(* Answers: of the requests on their way at most the last is to be         *)
(* answered, and the MCU waits for it.                                     *)

CallsDue == {n \in Len(handled) + 1 .. Len(started) : started[n].kind = "call"}

Quiet     == CallsDue = {} /\ answer = 0
Due       == CallsDue = {Len(started)} /\ answer = 0
Coming(n) == CallsDue = {} /\ answer = n

Unarmed == rxLeft = 0 /\ ~ tcif2 /\ receiving = 0

Sending == {"tx_start", "tx_enable"}

AnswerInv ==
  level = SVC =>
    /\ at \in Sending \cup {"idle", "send", "stopped"} => Quiet /\ Unarmed
    /\ at \in Sending => tx_buffer = msg
    /\ at = "tx_flag" =>
         /\ Unarmed
         /\ IF msg.kind = "call" THEN Due \/ Coming(AnsBytes) ELSE Quiet
    /\ at \in {"receive", "rx_enable"} => Unarmed /\ (Due \/ Coming(AnsBytes))
    /\ at = "rx_flag" =>
         /\ rxLeft > 0 /\ ~ tcif2 /\ receiving = 0
         /\ (Due /\ rxLeft = AnsBytes) \/ Coming(rxLeft)
    /\ at = "rx_wait" /\ rxLeft > 0 =>
         /\ ~ tcif2 /\ receiving = 1
         /\ (Due /\ rxLeft = AnsBytes) \/ Coming(rxLeft)
    /\ at = "rx_wait" /\ rxLeft = 0 =>
         Quiet /\ (tcif2 => receiving = 1) /\ (receiving = 1 => tcif2)

LEMMA InitAnswerInv == Init => AnswerInv
<1> SUFFICES ASSUME Init PROVE AnswerInv
  OBVIOUS
<1>1. CallsDue = {}
  BY DEF Init, CallsDue
<1> QED
  BY <1>1 DEF Init, AnswerInv, Unarmed, Coming, Sending

(* The requests on their way are the same.                                 *)
LEMMA SameDue ==
  ASSUME UNCHANGED <<started, handled>>
  PROVE  CallsDue' = CallsDue /\ Len(started)' = Len(started)
BY DEF CallsDue

(* The step is of the library and leaves the answers alone.                *)
LEMMA SendAnswerInv ==
  ASSUME TypeInv, AnswerInv, Send \/ TxSetup \/ TxFlag
  PROVE  AnswerInv'
<1> SUFFICES ASSUME level' = SVC PROVE AnswerInv'
  BY DEF AnswerInv
<1>1. /\ level = SVC /\ msg' = msg
      /\ UNCHANGED <<answer, started, handled, stream2>>
  BY DEF Send, TxSetup, TxFlag, Goto, pc
<1>2. CallsDue' = CallsDue /\ Len(started)' = Len(started)
  BY <1>1, SameDue
<1>3. /\ Quiet => Quiet'
      /\ Unarmed => Unarmed'
      /\ Due \/ Coming(AnsBytes) => Due' \/ Coming(AnsBytes)'
  BY <1>1, <1>2 DEF Quiet, Due, Coming, Unarmed, stream2
<1>4. CASE Send
  <2>1. at = "send" /\ at' = "tx_start" /\ tx_buffer' = msg
    BY <1>4 DEF Send, Goto
  <2>2. Quiet' /\ Unarmed'
    BY <1>1, <1>3, <2>1 DEF AnswerInv
  <2> QED
    BY <1>1, <2>1, <2>2 DEF AnswerInv, Sending
<1>5. CASE TxSetup
  <2>1. at = "tx_start" /\ at' = "tx_enable" /\ tx_buffer' = tx_buffer
    BY <1>5 DEF TxSetup, Goto
  <2>2. Quiet' /\ Unarmed' /\ tx_buffer = msg
    BY <1>1, <1>3, <2>1 DEF AnswerInv, Sending
  <2> QED
    BY <1>1, <2>1, <2>2 DEF AnswerInv, Sending
<1>6. CASE TxFlag
  <2>1. msg.kind \in {"call", "note", "end"}
    BY DEF TypeInv, TypeOK, Messages
  <2>2. at = "tx_flag"
        /\ at' = CASE msg.kind = "call" -> "receive"
                   [] msg.kind = "note" -> "idle"
                   [] msg.kind = "end"  -> "stopped"
    BY <1>6 DEF TxFlag, Goto
  <2>3. Unarmed'
    BY <1>1, <1>3, <2>2 DEF AnswerInv
  <2>4. CASE msg.kind = "call"
    <3>1. at' = "receive" /\ (Due' \/ Coming(AnsBytes)')
      BY <1>1, <1>3, <2>2, <2>4 DEF AnswerInv
    <3> QED
      BY <2>3, <3>1 DEF AnswerInv, Sending
  <2>5. CASE msg.kind # "call"
    <3>1. at' \in {"idle", "stopped"} /\ Quiet'
      BY <1>1, <1>3, <2>1, <2>2, <2>5 DEF AnswerInv
    <3> QED
      BY <2>3, <3>1 DEF AnswerInv, Sending
  <2> QED
    BY <2>4, <2>5
<1> QED
  BY <1>4, <1>5, <1>6

LEMMA TxEnableAnswerInv ==
  ASSUME TypeInv, TxInv, ByteInv, AnswerInv, TxEnable
  PROVE  AnswerInv'
<1> SUFFICES ASSUME level' = SVC PROVE AnswerInv'
  BY DEF AnswerInv
<1> DEFINE S == Len(started)
<1>1. /\ level = SVC /\ at = "tx_enable" /\ at' = "tx_flag" /\ msg' = msg
      /\ started' = Append(started, tx_buffer)
      /\ UNCHANGED <<answer, handled, stream2>>
  BY DEF TxEnable, Goto, pc
<1>2. Quiet /\ Unarmed /\ tx_buffer = msg
  BY <1>1 DEF AnswerInv, Sending
<1>3. Unarmed'
  BY <1>1, <1>2 DEF Unarmed, stream2
<1>4. /\ S \in Nat /\ Len(handled) \in Nat /\ Len(handled) <= S
      /\ Len(started') = S + 1 /\ started'[S + 1] = msg
      /\ \A n \in 1 .. S : started'[n] = started[n]
  BY <1>1, <1>2, Counts DEF TypeInv, TypeOK, TxInv, ByteInv
<1>5. \A n \in Len(handled) + 1 .. S : started[n].kind # "call"
  BY <1>2 DEF Quiet, CallsDue
<1>6. \A n \in Len(handled) + 1 .. S : started'[n].kind # "call"
  BY <1>4, <1>5
<1>7. CallsDue' = IF msg.kind = "call" THEN {S + 1} ELSE {}
  <2>1. \A n \in Len(handled) + 1 .. S + 1 :
          started'[n].kind = "call" <=> n = S + 1 /\ msg.kind = "call"
    BY <1>4, <1>6
  <2>2. CallsDue' = {n \in Len(handled) + 1 .. S + 1 : started'[n].kind = "call"}
    BY <1>1, <1>4 DEF CallsDue
  <2>3. S + 1 \in Len(handled) + 1 .. S + 1
    BY <1>4
  <2> QED
    BY <2>1, <2>2, <2>3
<1>8. CASE msg.kind = "call"
  <2>1. Due'
    BY <1>1, <1>2, <1>4, <1>7, <1>8 DEF Quiet, Due
  <2> QED
    BY <1>1, <1>3, <1>8, <2>1 DEF AnswerInv, Sending
<1>9. CASE msg.kind # "call"
  <2>1. Quiet'
    BY <1>1, <1>2, <1>7, <1>9 DEF Quiet
  <2> QED
    BY <1>1, <1>3, <1>9, <2>1 DEF AnswerInv, Sending
<1> QED
  BY <1>8, <1>9

LEMMA ReceiveAnswerInv ==
  ASSUME TypeInv, AnswerInv, RxSetup \/ RxEnable \/ RxFlag \/ RxDone
  PROVE  AnswerInv'
<1> USE ByteAssumption
<1> SUFFICES ASSUME level' = SVC PROVE AnswerInv'
  BY DEF AnswerInv
<1>1. level = SVC /\ msg' = msg /\ UNCHANGED <<answer, started, handled>>
  BY DEF RxSetup, RxEnable, RxFlag, RxDone, Goto, pc
<1>2. CallsDue' = CallsDue /\ Len(started)' = Len(started)
  BY <1>1, SameDue
<1>3. /\ Quiet => Quiet' /\ (Due => Due')
      /\ \A n \in Nat : Coming(n) => answer' = n /\ CallsDue' = {}
  BY <1>1, <1>2 DEF Quiet, Due, Coming
<1>4. CASE RxSetup
  <2>1. at = "receive" /\ at' = "rx_enable" /\ rxLeft' = 0 /\ receiving' = receiving
    BY <1>4 DEF RxSetup, Goto
  <2>2. Unarmed /\ (Due \/ Coming(AnsBytes))
    BY <1>1, <2>1 DEF AnswerInv
  <2>3. ~ tcif2'
    <3>1. ~ tcif2 /\ ~ (rxLeft > 0)
      BY <2>2 DEF Unarmed
    <3> QED
      BY <1>4, <3>1, Zenon DEF RxSetup
  <2>4. Unarmed'
    BY <2>1, <2>2, <2>3 DEF Unarmed
  <2>5. Due' \/ Coming(AnsBytes)'
    <3>1. CASE Due
      BY <1>1, <1>2, <3>1 DEF Due
    <3>2. CASE Coming(AnsBytes)
      BY <1>3, <3>2 DEF Coming
    <3> QED
      BY <2>2, <3>1, <3>2
  <2> QED
    BY <2>1, <2>4, <2>5 DEF AnswerInv, Sending
<1>5. CASE RxEnable
  <2>1. /\ at = "rx_enable" /\ at' = "rx_flag" /\ rxLeft' = AnsBytes
        /\ receiving' = receiving /\ tcif2' = tcif2
    BY <1>5 DEF RxEnable, Goto
  <2>2. Unarmed /\ (Due \/ Coming(AnsBytes))
    BY <1>1, <2>1 DEF AnswerInv
  <2>3. rxLeft' > 0 /\ ~ tcif2' /\ receiving' = 0
    BY <2>1, <2>2 DEF Unarmed
  <2>4. (Due' /\ rxLeft' = AnsBytes) \/ Coming(rxLeft)'
    <3>1. CASE Due
      BY <1>1, <1>2, <2>1, <3>1 DEF Due
    <3>2. CASE Coming(AnsBytes)
      BY <1>3, <2>1, <3>2 DEF Coming
    <3> QED
      BY <2>2, <3>1, <3>2
  <2> QED
    BY <2>1, <2>3, <2>4 DEF AnswerInv, Sending
<1>6. CASE RxFlag
  <2>1. /\ at = "rx_flag" /\ at' = "rx_wait" /\ receiving' = 1
        /\ rxLeft' = rxLeft /\ tcif2' = tcif2
    BY <1>6 DEF RxFlag, Goto
  <2>2. /\ rxLeft > 0 /\ ~ tcif2 /\ rxLeft \in Nat
        /\ (Due /\ rxLeft = AnsBytes) \/ Coming(rxLeft)
    BY <1>1, <2>1 DEF AnswerInv, TypeInv, TypeOK
  <2>3. (Due' /\ rxLeft' = AnsBytes) \/ Coming(rxLeft)'
    <3>1. CASE Due /\ rxLeft = AnsBytes
      BY <1>1, <1>2, <2>1, <3>1 DEF Due
    <3>2. CASE Coming(rxLeft)
      BY <1>3, <2>1, <2>2, <3>2 DEF Coming
    <3> QED
      BY <2>2, <3>1, <3>2
  <2> QED
    BY <2>1, <2>2, <2>3 DEF AnswerInv, Sending
<1>7. CASE RxDone
  <2>1. at = "rx_wait" /\ receiving = 0 /\ at' = "idle" /\ UNCHANGED stream2
    BY <1>7 DEF RxDone, Goto
  <2>2. rxLeft = 0
    BY <1>1, <2>1 DEF AnswerInv, TypeInv, TypeOK
  <2>3. Quiet /\ Unarmed
    BY <1>1, <2>1, <2>2 DEF AnswerInv, Unarmed
  <2>4. Quiet' /\ Unarmed'
    BY <1>3, <2>1, <2>3 DEF Unarmed, stream2
  <2> QED
    BY <2>1, <2>4 DEF AnswerInv, Sending
<1> QED
  BY <1>4, <1>5, <1>6, <1>7

(* The last byte of an answer raises the interrupt that ends the wait.     *)
LEMMA AnswerByteAnswerInv ==
  ASSUME TypeInv, AnswerInv, RxByte \/ RxComplete
  PROVE  AnswerInv'
<1> USE ByteAssumption
<1> SUFFICES ASSUME level' = SVC PROVE AnswerInv'
  BY DEF AnswerInv
<1>1. /\ level = SVC /\ UNCHANGED <<at, msg, started, handled, tx_buffer>>
  BY DEF RxByte, RxComplete, place, stream7, pc
<1>2. CallsDue' = CallsDue /\ Len(started)' = Len(started)
  BY <1>1, SameDue
<1>3. rxLeft \in 0 .. AnsBytes /\ answer \in 0 .. AnsBytes /\ at \in Places
  BY DEF TypeInv, TypeOK, Places
<1>4. CASE RxByte
  <2>1. /\ answer > 0 /\ rxLeft > 0 /\ (at = "rx_flag" => rxLeft > 1)
        /\ answer' = answer - 1 /\ rxLeft' = rxLeft - 1
        /\ receiving' = receiving /\ tcif2' = (rxLeft = 1)
    BY <1>4 DEF RxByte, SlowPeer
  <2>2. at \in {"rx_flag", "rx_wait"}
    BY <1>1, <1>3, <2>1 DEF AnswerInv, Unarmed, Places, Sending
  <2>3. Coming(rxLeft)
    BY <1>1, <2>1, <2>2 DEF AnswerInv, Due
  <2>4. Coming(rxLeft)'
    BY <1>2, <2>1, <2>3 DEF Coming
  <2>5. CASE at = "rx_flag"
    <3>0. ~ (rxLeft = 1) /\ rxLeft' > 0 /\ receiving' = 0
      BY <1>1, <1>3, <2>1, <2>5 DEF AnswerInv
    <3>1. rxLeft' > 0 /\ ~ tcif2' /\ receiving' = 0
      BY <2>1, <3>0, Zenon
    <3> QED
      BY <1>1, <2>4, <2>5, <3>1 DEF AnswerInv, Sending
  <2>6. CASE at = "rx_wait"
    <3>1. receiving' = 1
      BY <1>1, <2>1, <2>6 DEF AnswerInv
    <3>2. CASE rxLeft = 1
      <4>0. rxLeft' = 0 /\ answer' = 0
        BY <2>1, <2>3, <3>2 DEF Coming
      <4>1. rxLeft' = 0 /\ tcif2' /\ answer' = 0
        BY <2>1, <3>2, <4>0, Zenon
      <4>2. Quiet'
        BY <2>4, <4>1 DEF Coming, Quiet
      <4> QED
        BY <1>1, <2>6, <3>1, <4>1, <4>2 DEF AnswerInv, Sending
    <3>3. CASE rxLeft # 1
      <4>0. rxLeft' > 0 /\ rxLeft' # 0
        BY <1>3, <2>1, <3>3
      <4>1. ~ tcif2'
        BY <2>1, <3>3, Zenon
      <4> QED
        BY <1>1, <2>4, <2>6, <3>1, <4>0, <4>1 DEF AnswerInv, Sending
    <3> QED
      BY <3>2, <3>3
  <2> QED
    BY <2>2, <2>5, <2>6
<1>5. CASE RxComplete
  <2>1. tcif2 /\ ~ tcif2' /\ receiving' = 0 /\ rxLeft' = rxLeft /\ answer' = answer
    BY <1>5 DEF RxComplete, pc
  <2>2. at = "rx_wait" /\ rxLeft = 0
    BY <1>1, <1>3, <2>1 DEF AnswerInv, Unarmed, Places, Sending
  <2>3. Quiet'
    BY <1>1, <1>2, <2>1, <2>2 DEF AnswerInv, Quiet
  <2> QED
    BY <1>1, <2>1, <2>2, <2>3 DEF AnswerInv, Sending
<1> QED
  BY <1>4, <1>5

(* Handling the request that is to be answered makes the answer.           *)
LEMMA PcHandleAnswerInv ==
  ASSUME TypeInv, TxInv, ByteInv, AnswerInv, PcHandle
  PROVE  AnswerInv'
<1> USE ByteAssumption
<1> SUFFICES ASSUME level' = SVC PROVE AnswerInv'
  BY DEF AnswerInv
<1> DEFINE H == Len(handled)
           S == Len(started)
<1>1. level = SVC /\ UNCHANGED <<at, msg, started, tx_buffer, stream2>>
  BY DEF PcHandle, place, stream7
<1>2. ~ split /\ Len(buffer) >= ReqBytes
  BY <1>1 DEF TxInv, PcHandle
<1>3. /\ H \in Nat /\ S \in Nat /\ H + 1 <= S
      /\ handled' = Append(handled, started[H + 1])
      /\ answer' = IF started[H + 1].kind = "call" THEN AnsBytes ELSE answer
  BY <1>2, FrameIsRequest, Counts DEF PcHandle
<1>4. Len(handled') = H + 1
  BY <1>3 DEF TypeInv
<1>5. CallsDue' = CallsDue \ {H + 1}
  BY <1>1, <1>3, <1>4 DEF CallsDue
<1>6. started[H + 1].kind = "call" <=> H + 1 \in CallsDue
  BY <1>3 DEF CallsDue
<1>7. CallsDue = {} => CallsDue' = {} /\ answer' = answer
  BY <1>3, <1>5, <1>6
<1>8. Quiet => Quiet'
  BY <1>7 DEF Quiet
<1>9. \A n \in Nat : Coming(n) => CallsDue' = {} /\ answer' = n
  BY <1>7 DEF Coming
<1>10. Due => Due' \/ Coming(AnsBytes)'
  <2>1. CASE Due /\ H + 1 = S
    BY <1>3, <1>5, <1>6, <2>1 DEF Due, Coming
  <2>2. CASE Due /\ H + 1 # S
    <3>1. H + 1 \notin CallsDue
      BY <2>2 DEF Due
    <3> QED
      BY <1>1, <1>3, <1>5, <1>6, <2>2, <3>1 DEF Due
  <2> QED
    BY <2>1, <2>2
<1>11. Due \/ Coming(AnsBytes) => Due' \/ Coming(AnsBytes)'
  BY <1>9, <1>10 DEF Coming
<1>12. rxLeft \in Nat /\ rxLeft' = rxLeft /\ tcif2' = tcif2 /\ receiving' = receiving
  BY <1>1 DEF stream2, TypeInv, TypeOK
<1>13. (Due /\ rxLeft = AnsBytes) \/ Coming(rxLeft)
         => (Due' /\ rxLeft' = AnsBytes) \/ Coming(rxLeft)'
  <2>1. CASE Due /\ rxLeft = AnsBytes
    BY <1>10, <1>12, <2>1 DEF Coming
  <2>2. CASE Coming(rxLeft)
    BY <1>9, <1>12, <2>2 DEF Coming
  <2> QED
    BY <2>1, <2>2
<1>14. Unarmed => Unarmed'
  BY <1>12 DEF Unarmed
<1> QED
  BY <1>1, <1>8, <1>11, <1>12, <1>13, <1>14 DEF AnswerInv

LEMMA OtherAnswerInv ==
  ASSUME TypeInv, AnswerInv,
         UNCHANGED <<level, at, msg, tx_buffer, stream2, answer, started, handled>>
  PROVE  AnswerInv'
<1>1. CallsDue' = CallsDue /\ Len(started)' = Len(started)
  BY SameDue
<1>2. /\ (Quiet <=> Quiet') /\ (Due <=> Due') /\ (Unarmed <=> Unarmed')
      /\ Coming(AnsBytes) => Coming(AnsBytes)'
      /\ Coming(rxLeft) => Coming(rxLeft)'
  BY <1>1 DEF Quiet, Due, Coming, Unarmed, stream2
<1> QED
  BY <1>2 DEF AnswerInv, stream2

LEMMA NextAnswerInv ==
  ASSUME TypeInv, TxInv, ByteInv, AnswerInv, [Next]_vars
  PROVE  AnswerInv'
<1>1. ASSUME NEW kind \in {"call", "note", "end"}, Call(kind)
      PROVE  AnswerInv'
  <2> SUFFICES ASSUME level' = SVC PROVE AnswerInv'
    BY DEF AnswerInv
  <2>1. /\ level = SVC /\ at = "idle" /\ at' = "send"
        /\ UNCHANGED <<stream2, answer, started, handled>>
    BY <1>1 DEF Call, pc
  <2>2. CallsDue' = CallsDue
    BY <2>1, SameDue
  <2>3. Quiet' /\ Unarmed'
    BY <2>1, <2>2 DEF AnswerInv, Quiet, Unarmed, stream2
  <2> QED
    BY <2>1, <2>3 DEF AnswerInv, Sending
<1>2. CASE TxComplete \/ TxByte
  BY <1>2, OtherAnswerInv DEF TxComplete, TxByte, place, pc
<1>3. CASE StackOverflow \/ Fault
  BY <1>3 DEF AnswerInv, StackOverflow, Fault, Finish, SVC, TIM3, FAULT
<1>4. CASE UNCHANGED vars
  BY <1>4, OtherAnswerInv DEF vars, place, stream7, pc
<1> QED
  BY <1>1, <1>2, <1>3, <1>4, SendAnswerInv, TxEnableAnswerInv, ReceiveAnswerInv,
     AnswerByteAnswerInv, PcHandleAnswerInv DEF Next, Run

(* A clear flag means an idle stream in every reachable state, but between *)
(* enable and flag: a wait that ends has nothing left to wait for, and a   *)
(* start never meets a running transfer.                                   *)
THEOREM FlagAlwaysGuards == Spec => []FlagGuardsTransfer
<1> DEFINE Inv == TypeInv /\ TxInv /\ ByteInv /\ AnswerInv
<1>1. Init => Inv
  BY InitTypeInv, InitTxInv, InitByteInv, InitAnswerInv
<1>2. Inv /\ [Next]_vars => Inv'
  BY NextTypeInv, NextTxInv, NextByteInv, NextAnswerInv
<1>3. Inv => FlagGuardsTransfer
  <2> SUFFICES ASSUME Inv PROVE FlagGuardsTransfer
    OBVIOUS
  <2>1. transmitting = 0 /\ at # "tx_flag" /\ ~ split => txLeft = 0 /\ ~ tcif7
    BY DEF TxInv
  <2>2. ASSUME level = SVC, receiving = 0, at # "rx_flag"
        PROVE  rxLeft = 0 /\ ~ tcif2
    <3>1. rxLeft \in Nat /\ at \in Places
      BY ByteAssumption DEF TypeInv, TypeOK, Places
    <3>2. CASE at = "rx_wait"
      <4>1. rxLeft > 0 \/ rxLeft = 0
        BY <3>1
      <4>2. rxLeft > 0 => receiving = 1
        BY <2>2, <3>2 DEF AnswerInv
      <4>3. rxLeft = 0 /\ tcif2 => receiving = 1
        BY <2>2, <3>2 DEF AnswerInv
      <4> QED
        BY <2>2, <4>1, <4>2, <4>3
    <3>3. CASE at # "rx_wait"
      <4>1. at \in Sending \cup {"idle", "send", "stopped", "tx_flag", "receive", "rx_enable"}
        BY <2>2, <3>1, <3>3 DEF Places, Sending
      <4>2. Unarmed
        BY <2>2, <4>1 DEF AnswerInv
      <4> QED
        BY <4>2 DEF Unarmed
    <3> QED
      BY <3>2, <3>3
  <2> QED
    BY <2>1, <2>2 DEF FlagGuardsTransfer
<1> QED
  BY <1>1, <1>2, <1>3, PTL DEF Spec

(* When a call has returned, its answer has been read to the last byte.    *)
THEOREM AnswerAlwaysTaken == Spec => []AnswerTaken
<1> DEFINE Inv == TypeInv /\ TxInv /\ ByteInv /\ AnswerInv
<1>1. Init => Inv
  BY InitTypeInv, InitTxInv, InitByteInv, InitAnswerInv
<1>2. Inv /\ [Next]_vars => Inv'
  BY NextTypeInv, NextTxInv, NextByteInv, NextAnswerInv
<1>3. Inv => AnswerTaken
  BY DEF AnswerInv, AnswerTaken, Quiet, Unarmed, Sending
<1> QED
  BY <1>1, <1>2, <1>3, PTL DEF Spec
=============================================================================
