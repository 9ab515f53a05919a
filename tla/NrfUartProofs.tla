---------------------------- MODULE NrfUartProofs ----------------------------
(***************************************************************************)
(* Theorems about the serial port for any set of writers and any size of   *)
(* the ring.                                                               *)
(***************************************************************************)
EXTENDS NrfUart, FifoBufferProofs

\* One thread at most has the lock, and never while the handler is about to feed the device.
Exclusive ==
  /\ \A t, u \in Writers : pc[t] = "fill" /\ pc[u] = "fill" => t = u
  /\ irq = "send" => ~Locked /\ TXD = NONE /\ b \in Byte
  /\ irq = "out" => b = NONE

\* The inductive invariant.
UartInv == TypeOK /\ NeverStalls /\ Exclusive

-----------------------------------------------------------------------------
\* What a thread puts is a byte.
LEMMA FillPuts ==
  ASSUME UartInv, NEW t \in Writers, Fill(t)
  PROVE  /\ WellFormed(write_buffer)
         /\ write_buffer.wsz > 0
         /\ <<t, written[t] + 1>> \in Byte
         /\ written[t] + 1 \in 0 .. MaxBytes /\ count[t] - 1 \in 0 .. MaxBytes
         /\ (written[t] + 1) + (count[t] - 1) = written[t] + count[t]
<1>1. written[t] \in 0 .. MaxBytes /\ count[t] \in 0 .. MaxBytes /\ count[t] > 0
      /\ written[t] + count[t] <= MaxBytes /\ write_buffer.wsz > 0
  BY DEF UartInv, TypeOK, Fill, HasRoom
<1>2. written[t] + 1 \in 1 .. MaxBytes
  BY <1>1, UartAssumption
<1>3. <<t, written[t] + 1>> \in Byte
  BY <1>2, UartAssumption
<1>4. QED
  BY <1>1, <1>2, <1>3, UartAssumption DEF UartInv, TypeOK

\* The counts of a ring that is well formed are numbers.
LEMMA Counts ==
  ASSUME NEW f, WellFormed(f)
  PROVE  f.rsz \in Nat /\ f.wsz \in Nat /\ f.rsz + f.wsz = sz /\ sz \in Nat
BY FifoAssumption DEF WellFormed, Ring

\* The initial states.
LEMMA UartInit == Init => UartInv
<1> SUFFICES ASSUME Init PROVE UartInv
  OBVIOUS
<1> USE DEF Init
<1>1. WellFormed(write_buffer) /\ write_buffer.rsz = 0
  BY CreateEmpty DEF fifo_buffer_create
<1>2. TypeOK
  <2>1. <<>> \in Seq(Byte)
    BY EmptySeq
  <2>2. 0 \in 0 .. MaxBytes
    BY UartAssumption
  <2>3. /\ pc \in [Writers -> {"out", "lock", "fill", "enable"}]
        /\ written \in [Writers -> 0 .. MaxBytes] /\ count \in [Writers -> 0 .. MaxBytes]
    BY <2>2
  <2>4. \A t \in Writers : written[t] + count[t] <= MaxBytes
    BY UartAssumption
  <2>5. QED
    BY <1>1, <2>1, <2>3, <2>4 DEF TypeOK
<1>3. NeverStalls /\ Exclusive
  BY <1>1 DEF NeverStalls, Exclusive, Locked
<1>4. QED
  BY <1>2, <1>3 DEF UartInv

\* A call begins.
LEMMA write_Inv ==
  ASSUME UartInv, NEW t \in Writers, NEW n \in 1 .. MaxCount, _write(t, n)
  PROVE  UartInv'
<1> USE DEF UartInv, _write, Runs, Goto
<1>1. TypeOK'
  BY UartAssumption DEF TypeOK
<1>2. (NeverStalls /\ Exclusive)'
  BY DEF TypeOK, NeverStalls, Exclusive, Locked
<1>3. QED
  BY <1>1, <1>2

\* The lock is taken when nobody has it.
LEMMA Lock_Inv ==
  ASSUME UartInv, NEW t \in Writers, Lock(t)
  PROVE  UartInv'
<1> USE DEF UartInv, Lock, Runs, Goto
<1>1. TypeOK'
  BY DEF TypeOK
<1>2. (NeverStalls /\ Exclusive)'
  BY DEF TypeOK, NeverStalls, Exclusive, Locked
<1>3. QED
  BY <1>1, <1>2

\* A byte is put into the ring.
LEMMA Fill_Inv ==
  ASSUME UartInv, NEW t \in Writers, Fill(t)
  PROVE  UartInv'
<1> USE DEF UartInv, Fill
<1>1. WellFormed(write_buffer')
  BY FillPuts, PutAppends
<1>2. TypeOK'
  <2>1. written' \in [Writers -> 0 .. MaxBytes] /\ count' \in [Writers -> 0 .. MaxBytes]
    BY FillPuts DEF TypeOK
  <2>2. \A u \in Writers : written'[u] + count'[u] <= MaxBytes
    BY FillPuts DEF TypeOK
  <2>3. QED
    BY <1>1, <2>1, <2>2 DEF TypeOK
<1>3. (NeverStalls /\ Exclusive)'
  BY DEF TypeOK, NeverStalls, Exclusive, Locked
<1>4. QED
  BY <1>2, <1>3

\* The lock is released.
LEMMA Unlock_Inv ==
  ASSUME UartInv, NEW t \in Writers, Unlock(t)
  PROVE  UartInv'
<1> USE DEF UartInv, Unlock, Goto
<1>1. TypeOK'
  BY DEF TypeOK
<1>2. (NeverStalls /\ Exclusive)'
  BY DEF TypeOK, NeverStalls, Exclusive, Locked
<1>3. QED
  BY <1>1, <1>2

\* The interrupt is enabled.
LEMMA Enable_Inv ==
  ASSUME UartInv, NEW t \in Writers, Enable(t)
  PROVE  UartInv'
<1> USE DEF UartInv, Enable, Enabled, Runs, Goto
<1>1. TypeOK'
  BY DEF TypeOK
<1>2. (NeverStalls /\ Exclusive)'
  BY DEF TypeOK, NeverStalls, Exclusive, Locked
<1>3. QED
  BY <1>1, <1>2

\* The handler takes a byte, or disables the interrupt because there is none.
LEMMA IRQ_Inv ==
  ASSUME UartInv, _IRQ
  PROVE  UartInv'
<1> USE DEF UartInv, _IRQ, Ready, threadVars
<1>1. WellFormed(write_buffer) /\ write_buffer.rsz \in Nat
  BY Counts DEF TypeOK
<1>2. CASE write_buffer.rsz > 0 /\ TXDRDY
  <2>1. WellFormed(write_buffer') /\ b' \in Byte
    BY <1>1, <1>2, GetTakesHead
  <2>2. TypeOK'
    BY <1>2, <2>1 DEF TypeOK
  <2>3. (NeverStalls /\ Exclusive)'
    <3>1. \A t \in Writers : pc'[t] = "fill" => FALSE
      BY DEF Locked
    <3>2. Exclusive'
      BY <1>2, <2>1, <3>1 DEF Exclusive, NeverStalls, Locked
    <3>3. "tx" \in INTEN \/ \E t \in Writers : pc[t] \in {"fill", "enable"}
      BY <1>2 DEF NeverStalls
    <3>4. QED
      BY <1>2, <3>2, <3>3 DEF NeverStalls
  <2>4. QED
    BY <2>2, <2>3
<1>3. CASE write_buffer.rsz = 0 \/ ~TXDRDY
  <2>1. write_buffer' = write_buffer
    BY <1>1, <1>3
  <2>2. TypeOK'
    <3>1. b' = b /\ irq' = irq /\ TXDRDY' = TXDRDY /\ INTEN' \subseteq INTEN /\ RXDRDY' = FALSE
      BY <1>1, <1>3
    <3>2. INTEN' \subseteq {"tx", "rx"}
      BY <3>1 DEF TypeOK
    <3>3. QED
      BY <2>1, <3>1, <3>2 DEF TypeOK
  <2>3. (NeverStalls /\ Exclusive)'
    BY <1>1, <1>3, <2>1 DEF NeverStalls, Exclusive, Locked
  <2>4. QED
    BY <2>2, <2>3
<1>4. QED
  BY <1>1, <1>2, <1>3

\* The handler gives its byte to a device that has nothing to send.
LEMMA IrqSend_Inv ==
  ASSUME UartInv, IrqSend
  PROVE  UartInv'
<1> USE DEF UartInv, IrqSend, threadVars
<1>1. TypeOK'
  BY DEF TypeOK, Exclusive
<1>2. (NeverStalls /\ Exclusive)'
  BY UartAssumption DEF NeverStalls, Exclusive, Locked
<1>3. QED
  BY <1>1, <1>2

\* The device has sent a byte.
LEMMA Sent_Inv ==
  ASSUME UartInv, Sent
  PROVE  UartInv'
<1> USE DEF UartInv, Sent, threadVars
<1>1. wire' \in Seq(Byte)
  BY AppendProperties DEF TypeOK
<1>2. TypeOK'
  BY <1>1 DEF TypeOK
<1>3. irq = "out"
  BY DEF TypeOK, Exclusive
<1>4. (NeverStalls /\ Exclusive)'
  BY <1>3 DEF NeverStalls, Exclusive, Locked
<1>5. QED
  BY <1>2, <1>4

\* The device has received a byte.
LEMMA Received_Inv ==
  ASSUME UartInv, Received
  PROVE  UartInv'
<1> USE DEF UartInv, Received, threadVars
<1>1. TypeOK'
  BY DEF TypeOK
<1>2. (NeverStalls /\ Exclusive)'
  BY DEF NeverStalls, Exclusive, Locked
<1>3. QED
  BY <1>1, <1>2

\* Every step keeps the invariant.
LEMMA UartStep == UartInv /\ [Next]_vars => UartInv'
<1> SUFFICES ASSUME UartInv, [Next]_vars PROVE UartInv'
  OBVIOUS
<1>1. CASE \E t \in Writers, n \in 1 .. MaxCount : _write(t, n)
  BY <1>1, write_Inv
<1>2. CASE \E t \in Writers : Lock(t) \/ Unlock(t) \/ Enable(t)
  BY <1>2, Lock_Inv, Unlock_Inv, Enable_Inv
<1>3. CASE \E t \in Writers : Fill(t)
  BY <1>3, Fill_Inv
<1>4. CASE _IRQ \/ IrqSend \/ Sent \/ Received
  BY <1>4, IRQ_Inv, IrqSend_Inv, Sent_Inv, Received_Inv
<1>5. CASE UNCHANGED vars
  BY <1>5 DEF UartInv, TypeOK, NeverStalls, Exclusive, Locked, vars, threadVars
<1>6. QED
  BY <1>1, <1>2, <1>3, <1>4, <1>5 DEF Next

-----------------------------------------------------------------------------
\* The invariant holds in every state of the driver.
THEOREM UartInvariance == Spec => []UartInv
<1>1. QED
  BY UartInit, UartStep, PTL DEF Spec

\* The driver's variables keep their types, and its ring is well formed.
THEOREM UartTyped == Spec => []TypeOK
<1>1. UartInv => TypeOK
  BY DEF UartInv
<1>2. QED
  BY <1>1, UartInvariance, PTL

\* Bytes in the ring never wait for an interrupt that is disabled (_IRQ, _write).
THEOREM UartNeverStalls == Spec => []NeverStalls
<1>1. UartInv => NeverStalls
  BY DEF UartInv
<1>2. QED
  BY <1>1, UartInvariance, PTL

\* The handler never overruns the byte that the device is sending.
THEOREM UartNoOverrun == Spec => NoOverrun
<1>1. UartInv /\ [Next]_vars => [TXD' # TXD => TXD = NONE \/ TXD' = NONE]_vars
  <2>1. SUFFICES ASSUME UartInv, Next, TXD' # TXD PROVE TXD = NONE \/ TXD' = NONE
    BY DEF vars
  <2>2. CASE IrqSend
    BY <2>1, <2>2 DEF UartInv, Exclusive, IrqSend
  <2>3. CASE Sent
    BY <2>3 DEF Sent
  <2>4. QED
    BY <2>1, <2>2, <2>3 DEF Next, _write, Lock, Fill, Unlock, Enable, _IRQ, Received
<1>2. QED
  BY <1>1, UartInvariance, PTL DEF Spec, NoOverrun

\* The ring, between its writers and the device, is a bounded queue, whatever its size.
THEOREM RingIsQueue == Spec => IsQueue
<1>1. Init => Queue!Init
  BY CreateEmpty DEF Init, Queue!Init
<1>2. UartInv /\ [Next]_vars => [Queue!Put \/ Queue!Get]_(Contents(write_buffer))
  <2>1. SUFFICES ASSUME UartInv, [Next]_vars
                 PROVE  \/ Queue!Put \/ Queue!Get
                        \/ Contents(write_buffer)' = Contents(write_buffer)
    OBVIOUS
  <2>2. ASSUME NEW t \in Writers, Fill(t) PROVE Queue!Put
    <3> DEFINE x == <<t, written[t] + 1>>
    <3>1. x \in Byte /\ WellFormed(write_buffer) /\ write_buffer.wsz > 0
      BY <2>1, <2>2, FillPuts
    <3>2. Contents(write_buffer)' = Append(Contents(write_buffer), x)
      BY <2>2, <3>1, PutAppends DEF Fill
    <3>3. Len(Contents(write_buffer)) < sz
      BY <3>1, Counts, ContentsIsSeq
    <3>4. QED
      BY <3>1, <3>2, <3>3 DEF Queue!Put
  <2>3. CASE _IRQ
    <3>1. WellFormed(write_buffer)
      BY <2>1 DEF UartInv, TypeOK
    <3>2. CASE write_buffer' = write_buffer
      BY <3>2 DEF Contents
    <3>3. CASE write_buffer' # write_buffer
      <4>1. write_buffer.rsz > 0 /\ write_buffer' = fifo_buffer_getb(write_buffer)
        BY <2>3, <3>3 DEF _IRQ
      <4>2. /\ Contents(write_buffer) # <<>>
            /\ Contents(write_buffer)' = Tail(Contents(write_buffer))
        BY <3>1, <4>1, GetTakesHead
      <4>3. QED
        BY <4>2 DEF Queue!Get
    <3>4. QED
      BY <3>2, <3>3
  <2>4. CASE write_buffer' = write_buffer
    BY <2>4 DEF Contents
  <2>5. QED
    BY <2>1, <2>2, <2>3, <2>4
       DEF Next, vars, _write, Lock, Unlock, Enable, IrqSend, Sent, Received
<1>3. QED
  BY <1>1, <1>2, UartInvariance, PTL DEF Spec, IsQueue, Queue!Spec

-----------------------------------------------------------------------------
\* The byte that is between the ring and the device, if there is one.
InHand == IF irq = "send" THEN <<b>> ELSE <<>>
AtDevice == IF TXD = NONE THEN <<>> ELSE <<TXD>>

\* Every part of the stream is a sequence of bytes.
LEMMA Parts ==
  ASSUME UartInv
  PROVE  /\ wire \in Seq(Byte) /\ AtDevice \in Seq(Byte) /\ InHand \in Seq(Byte)
         /\ Contents(write_buffer) \in Seq(Byte)
         /\ Stream = ((wire \o AtDevice) \o InHand) \o Contents(write_buffer)
         /\ Stream \in Seq(Byte)
<1>1. wire \in Seq(Byte) /\ WellFormed(write_buffer)
  BY DEF UartInv, TypeOK
<1>2. Contents(write_buffer) \in Seq(Byte)
  BY <1>1, ContentsIsSeq
<1>3. AtDevice \in Seq(Byte)
  BY DEF AtDevice, UartInv, TypeOK
<1>4. InHand \in Seq(Byte)
  BY DEF InHand, UartInv, Exclusive
<1>5. Stream = ((wire \o AtDevice) \o InHand) \o Contents(write_buffer)
  BY DEF Stream, AtDevice, InHand
<1>6. wire \o AtDevice \in Seq(Byte)
  BY <1>1, <1>3, ConcatProperties
<1>7. (wire \o AtDevice) \o InHand \in Seq(Byte)
  BY <1>4, <1>6, ConcatProperties
<1>8. ((wire \o AtDevice) \o InHand) \o Contents(write_buffer) \in Seq(Byte)
  BY <1>2, <1>7, ConcatProperties
<1>9. QED
  BY <1>1, <1>2, <1>3, <1>4, <1>5, <1>8

\* A byte that is put comes last in the stream (_write).
LEMMA FillStream ==
  ASSUME UartInv, NEW t \in Writers, Fill(t)
  PROVE  Stream' = Append(Stream, <<t, written[t] + 1>>)
<1> DEFINE x == <<t, written[t] + 1>>
           c == Contents(write_buffer)
           pre == (wire \o AtDevice) \o InHand
<1>1. x \in Byte
  BY FillPuts
<1>2. Contents(write_buffer)' = Append(c, x)
  BY FillPuts, PutAppends DEF Fill
<1>3. Stream' = pre \o Append(c, x)
  BY <1>2 DEF Stream, AtDevice, InHand, Fill
<1>4. pre \in Seq(Byte) /\ c \in Seq(Byte) /\ Stream = pre \o c
  BY Parts, ConcatProperties
<1> HIDE DEF pre, c, x
<1>5. Append(c, x) = c \o <<x>> /\ Append(pre \o c, x) = (pre \o c) \o <<x>> /\ <<x>> \in Seq(Byte)
  BY <1>1, <1>4, AppendIsConcat, ConcatProperties
<1>6. pre \o (c \o <<x>>) = (pre \o c) \o <<x>>
  BY <1>4, <1>5, ConcatAssociative
<1>7. QED
  BY <1>3, <1>4, <1>5, <1>6 DEF x

\* Moving a byte on does not change the stream: from the ring into the handler's hand.
LEMMA TakeStream ==
  ASSUME UartInv, _IRQ
  PROVE  Stream' = Stream
<1>1. WellFormed(write_buffer) /\ write_buffer.rsz \in Nat
  BY Counts DEF UartInv, TypeOK
<1>2. CASE write_buffer.rsz > 0 /\ TXDRDY
  <2> DEFINE c == Contents(write_buffer)
             pre == wire \o AtDevice
  <2>1. irq = "out" /\ TXD = NONE
    BY <1>2 DEF UartInv, NeverStalls, _IRQ
  <2>2. b' = Head(c) /\ Contents(write_buffer)' = Tail(c) /\ c # <<>>
    BY <1>1, <1>2, GetTakesHead DEF _IRQ
  <2>3. InHand = <<>> /\ InHand' = <<Head(c)>>
    BY <1>2, <2>1, <2>2 DEF InHand, _IRQ
  <2>4. pre \in Seq(Byte) /\ c \in Seq(Byte)
    BY Parts, ConcatProperties
  <2>5. Stream = (pre \o <<>>) \o c
    BY <2>3, Parts
  <2>6. Stream' = (pre \o <<Head(c)>>) \o Tail(c)
    BY <1>2, <2>2, <2>3 DEF Stream, AtDevice, InHand, _IRQ
  <2> HIDE DEF pre, c
  <2>7. <<Head(c)>> \in Seq(Byte) /\ Tail(c) \in Seq(Byte) /\ <<Head(c)>> \o Tail(c) = c
    <3>1. Head(c) \in Byte /\ Tail(c) \in Seq(Byte) /\ Len(c) \in Nat \ {0}
          /\ Len(Tail(c)) = Len(c) - 1 /\ Head(c) = c[1]
          /\ \A i \in 1 .. Len(Tail(c)) : Tail(c)[i] = c[i + 1]
      BY <2>2, <2>4, HeadTailProperties, EmptySeq
    <3>2. <<Head(c)>> \in Seq(Byte) /\ Len(<<Head(c)>>) = 1 /\ <<Head(c)>>[1] = Head(c)
      BY <3>1
    <3>3. /\ <<Head(c)>> \o Tail(c) \in Seq(Byte)
          /\ Len(<<Head(c)>> \o Tail(c)) = Len(c)
          /\ \A i \in 1 .. Len(c) :
               (<<Head(c)>> \o Tail(c))[i] = IF i <= 1 THEN <<Head(c)>>[i] ELSE Tail(c)[i - 1]
      BY <3>1, <3>2, ConcatProperties
    <3>4. \A i \in 1 .. Len(c) : (<<Head(c)>> \o Tail(c))[i] = c[i]
      BY <3>1, <3>2, <3>3
    <3>5. QED
      BY <2>4, <3>1, <3>2, <3>3, <3>4, SeqEqual
  <2>8. (pre \o <<Head(c)>>) \o Tail(c) = pre \o (<<Head(c)>> \o Tail(c))
    BY <2>4, <2>7, ConcatAssociative
  <2>9. pre \o <<>> = pre
    BY <2>4, ConcatEmptySeq
  <2>10. QED
    BY <2>5, <2>6, <2>7, <2>8, <2>9
<1>3. CASE write_buffer.rsz = 0 \/ ~TXDRDY
  <2>1. /\ write_buffer' = write_buffer /\ irq' = irq /\ b' = b
        /\ TXD' = TXD /\ wire' = wire
    BY <1>1, <1>3 DEF _IRQ
  <2>2. QED
    BY <2>1 DEF Stream, Contents
<1>4. QED
  BY <1>1, <1>2, <1>3

\* From the handler's hand to the device.
LEMMA SendStream ==
  ASSUME UartInv, IrqSend
  PROVE  Stream' = Stream
<1>1. AtDevice = <<>> /\ InHand = <<b>> /\ AtDevice' = <<b>> /\ InHand' = <<>> /\ b \in Byte
  BY UartAssumption DEF UartInv, Exclusive, IrqSend, AtDevice, InHand
<1>2. Stream' = ((wire \o <<b>>) \o <<>>) \o Contents(write_buffer)
  BY <1>1 DEF Stream, AtDevice, InHand, IrqSend, Contents
<1>3. Stream = ((wire \o <<>>) \o <<b>>) \o Contents(write_buffer)
  BY <1>1, Parts
<1>4. wire \in Seq(Byte) /\ <<b>> \in Seq(Byte)
  BY <1>1, Parts
<1>5. wire \o <<>> = wire /\ (wire \o <<b>>) \o <<>> = wire \o <<b>>
  BY <1>4, ConcatEmptySeq, ConcatProperties
<1>6. QED
  BY <1>2, <1>3, <1>5

\* From the device to the wire.
LEMMA SentStream ==
  ASSUME UartInv, Sent
  PROVE  Stream' = Stream
<1>1. TXD \in Byte /\ AtDevice = <<TXD>> /\ AtDevice' = <<>> /\ InHand' = InHand
  BY DEF UartInv, TypeOK, Sent, AtDevice, InHand
<1>2. wire' = wire \o <<TXD>>
  BY <1>1, Parts, AppendIsConcat DEF Sent
<1>3. Stream' = ((wire' \o <<>>) \o InHand) \o Contents(write_buffer)
  BY <1>1 DEF Stream, AtDevice, InHand, Sent, Contents
<1>4. wire' \o <<>> = wire'
  BY <1>1, <1>2, Parts, ConcatEmptySeq, ConcatProperties
<1>5. QED
  BY <1>1, <1>2, <1>3, <1>4, Parts

\* A step puts one byte at the end of the stream and counts it, or changes neither.
LEMMA StreamGrows ==
  ASSUME UartInv, [Next]_vars
  PROVE  \/ \E t \in Writers :
              /\ Stream' = Append(Stream, <<t, written[t] + 1>>)
              /\ written' = [written EXCEPT ![t] = @ + 1]
              /\ <<t, written[t] + 1>> \in Byte
         \/ Stream' = Stream /\ written' = written
<1>1. ASSUME NEW t \in Writers, Fill(t)
      PROVE  /\ Stream' = Append(Stream, <<t, written[t] + 1>>)
             /\ written' = [written EXCEPT ![t] = @ + 1]
             /\ <<t, written[t] + 1>> \in Byte
  <2>1. Stream' = Append(Stream, <<t, written[t] + 1>>)
    BY <1>1, FillStream
  <2>2. <<t, written[t] + 1>> \in Byte
    BY <1>1, FillPuts
  <2>3. written' = [written EXCEPT ![t] = @ + 1]
    BY <1>1 DEF Fill
  <2>4. QED
    BY <2>1, <2>2, <2>3
<1>2. CASE _IRQ \/ IrqSend \/ Sent
  <2>1. Stream' = Stream
    BY <1>2, TakeStream, SendStream, SentStream
  <2>2. written' = written
    BY <1>2 DEF _IRQ, IrqSend, Sent, threadVars
  <2>3. QED
    BY <2>1, <2>2
<1>3. CASE \/ \E t \in Writers, n \in 1 .. MaxCount : _write(t, n)
           \/ \E t \in Writers : Lock(t) \/ Unlock(t) \/ Enable(t)
           \/ Received \/ UNCHANGED vars
  <2>1. /\ write_buffer' = write_buffer /\ irq' = irq /\ b' = b /\ TXD' = TXD
        /\ wire' = wire /\ written' = written
    BY <1>3 DEF _write, Lock, Unlock, Enable, Received, vars, threadVars
  <2>2. QED
    BY <2>1 DEF Stream, Contents
<1>4. QED
  BY <1>1, <1>2, <1>3 DEF Next

\* What the stream holds, with numbers in the order of their positions.
LEMMA NothingLostStep ==
  ASSUME UartInv, NothingLost, [Next]_vars
  PROVE  NothingLost'
<1>1. CASE Stream' = Stream /\ written' = written
  BY <1>1 DEF NothingLost
<1>2. ASSUME NEW t \in Writers,
             Stream' = Append(Stream, <<t, written[t] + 1>>),
             written' = [written EXCEPT ![t] = @ + 1],
             <<t, written[t] + 1>> \in Byte
      PROVE  NothingLost'
  <2> DEFINE s == Stream
             x == <<t, written[t] + 1>>
             S == Append(s, x)
             N == Len(s)
  <2>1. s \in Seq(Byte) /\ x \in Byte /\ x[1] = t /\ x[2] = written[t] + 1
    BY <1>2, Parts
  <2>2. N \in Nat /\ DOMAIN s = 1 .. N /\ \A i \in 1 .. N : s[i] \in Byte
    BY <2>1, ElementOfSeq, LenProperties
  <2>3. /\ DOMAIN S = 1 .. N + 1 /\ S[N + 1] = x
        /\ \A i \in 1 .. N : S[i] = s[i]
    BY <2>1, <2>2, AppendProperties, LenProperties
  <2>4. \A y \in Byte : y[1] \in Writers /\ y[2] \in Nat /\ y = <<y[1], y[2]>>
    BY UartAssumption
  <2>5. \A u \in Writers : written[u] \in Nat
                           /\ written'[u] = IF u = t THEN written[t] + 1 ELSE written[u]
    BY <1>2, UartAssumption DEF UartInv, TypeOK
  <2>6. /\ \A i \in 1 .. N : s[i][2] <= written[s[i][1]]
        /\ \A y \in Byte : y[2] <= written[y[1]] => \E i \in 1 .. N : s[i] = y
        /\ \A i, j \in 1 .. N : i < j /\ s[i][1] = s[j][1] => s[i][2] < s[j][2]
    BY <2>2 DEF NothingLost
  <2>7. Stream' = S
    BY <1>2
  <2> HIDE DEF s, x, S, N
  <2>8. \A i \in 1 .. N + 1 : i \in 1 .. N \/ i = N + 1
    BY <2>2
  <2>9. ASSUME NEW i \in 1 .. N + 1
        PROVE  S[i] \in Byte /\ S[i][2] <= written'[S[i][1]]
    <3>1. CASE i \in 1 .. N
      <4>1. S[i] = s[i] /\ s[i] \in Byte /\ s[i][2] <= written[s[i][1]]
        BY <2>2, <2>3, <2>6, <3>1
      <4>2. s[i][1] \in Writers /\ s[i][2] \in Nat
        BY <2>4, <4>1
      <4>3. written[s[i][1]] <= written'[s[i][1]] /\ written[s[i][1]] \in Nat /\ written'[s[i][1]] \in Nat
        BY <2>5, <4>2
      <4>4. QED
        BY <4>1, <4>2, <4>3
    <3>2. CASE i = N + 1
      BY <2>1, <2>3, <2>5, <3>2
    <3>3. QED
      BY <2>8, <3>1, <3>2
  <2>10. ASSUME NEW y \in Byte, y[2] <= written'[y[1]]
         PROVE  \E i \in 1 .. N + 1 : S[i] = y
    <3>1. y[1] \in Writers /\ y[2] \in Nat /\ y = <<y[1], y[2]>>
      BY <2>4
    <3>2. CASE y[2] <= written[y[1]]
      <4>1. PICK i \in 1 .. N : s[i] = y
        BY <2>6, <3>2
      <4>2. i \in 1 .. N + 1 /\ S[i] = y
        BY <2>2, <2>3, <4>1
      <4>3. QED
        BY <4>2
    <3>3. CASE ~(y[2] <= written[y[1]])
      <4>1. y[1] = t /\ y[2] = written[t] + 1
        BY <2>5, <2>10, <3>1, <3>3
      <4>2. y = x
        BY <3>1, <4>1 DEF x
      <4>3. N + 1 \in 1 .. N + 1 /\ S[N + 1] = y
        BY <2>2, <2>3, <4>2
      <4>4. QED
        BY <4>3
    <3>4. QED
      BY <3>2, <3>3
  <2>11. ASSUME NEW i \in 1 .. N + 1, NEW j \in 1 .. N + 1, i < j, S[i][1] = S[j][1]
         PROVE  S[i][2] < S[j][2]
    <3>1. i \in 1 .. N /\ S[i] = s[i] /\ s[i] \in Byte /\ s[i][2] <= written[s[i][1]]
      BY <2>2, <2>3, <2>6, <2>11
    <3>2. CASE j \in 1 .. N
      BY <2>3, <2>6, <2>11, <3>1, <3>2
    <3>3. CASE j = N + 1
      <4>1. s[i][1] = t /\ S[j][2] = written[t] + 1
        BY <2>1, <2>3, <2>11, <3>1, <3>3
      <4>2. s[i][2] \in Nat /\ written[t] \in Nat
        BY <2>4, <2>5, <3>1
      <4>3. QED
        BY <3>1, <4>1, <4>2
    <3>4. QED
      BY <2>8, <3>2, <3>3
  <2>12. {S[i] : i \in 1 .. N + 1} = {y \in Byte : y[2] <= written'[y[1]]}
    BY <2>9, <2>10
  <2>13. NothingLost' = /\ {S[i] : i \in DOMAIN S} = {y \in Byte : y[2] <= written'[y[1]]}
                        /\ \A i, j \in DOMAIN S : i < j /\ S[i][1] = S[j][1] => S[i][2] < S[j][2]
    BY <2>7 DEF NothingLost
  <2>14. QED
    BY <2>3, <2>11, <2>12, <2>13
<1>3. QED
  BY <1>1, <1>2, StreamGrows

\* Every byte that is put leaves once, behind the earlier ones of its writer, whatever the
\* interleaving of _write, _IRQ and the device, and however small the ring.
THEOREM UartNothingLost == Spec => []NothingLost
<1>1. Init => NothingLost
  <2> SUFFICES ASSUME Init PROVE NothingLost
    OBVIOUS
  <2>1. Contents(write_buffer) = <<>> /\ UartInv
    BY CreateEmpty, UartInit DEF Init
  <2>2. Stream = <<>>
    BY <2>1, UartAssumption DEF Init, Stream
  <2>3. \A y \in Byte : y[1] \in Writers /\ y[2] \in 1 .. MaxBytes
    BY UartAssumption
  <2>4. \A y \in Byte : ~(y[2] <= written[y[1]])
    BY <2>3, UartAssumption DEF Init
  <2>5. QED
    BY <2>2, <2>4 DEF NothingLost
<1>2. UartInv /\ NothingLost /\ [Next]_vars => NothingLost'
  BY NothingLostStep
<1>3. QED
  BY <1>1, <1>2, UartInvariance, PTL DEF Spec
=============================================================================
