------------------------------- MODULE Radio -------------------------------
(***************************************************************************)
(* The radio of the micro:bit (src/src/kernel/drivers/ns/nRF51822/radio):  *)
(* the interrupt handler walks the device through its states towards the   *)
(* target that the last ioctl has set, and threads read one packet at a    *)
(* time.  Every call of a thread works with interrupts off, so that only   *)
(* the device runs beside it.  Sending is unfinished in the code: the      *)
(* device is brought to TXIDLE, and no further.                            *)
(*                                                                         *)
(* Packets are told apart by their number modulo NUMBERS; addresses, CRC   *)
(* and the settings of the Bluetooth mode are left out.                    *)
(***************************************************************************)
EXTENDS PacketFifo

CONSTANTS
  Channels,  \* the channels; 0 is one of them
  NUMBERS    \* how many packets are told apart

VARIABLES ctx, reg, thr, log
vars == <<ctx, reg, thr, log>>

BUFFER_RECV_PACKETS == 1
BUFFER_SEND_PACKETS == 1

\* What a packet of a ring may hold: nothing that matters, a part of a packet, or a whole one.
Blank == -1
Torn == -2
Number == 0 .. NUMBERS - 1
Packet == Number \cup {Blank, Torn}

Events == {"READY", "PAYLOAD", "END", "DISABLED"}

\* POWER = 0 resets the device; the state then reads as DISABLED.
Off == [POWER |-> FALSE, state |-> "DISABLED", EV |-> {}, INTEN |-> {},
        FREQUENCY |-> 0, PACKETPTR |-> 0, air |-> "silent"]

\* reg.air: how much of a packet the device has received.  log: the number of the next packet,
\* the last one until the handler keeps or drops it, and those that were kept and not yet read.
TypeOK ==
  /\ ctx \in [read_buffer : FifoOf(BUFFER_RECV_PACKETS, Packet),
              write_buffer : FifoOf(BUFFER_SEND_PACKETS, Packet), error : BOOLEAN,
              channel : Channels, target_state : {"OFF", "RX", "TX"}]
  /\ reg \in [POWER : BOOLEAN,
              state : {"DISABLED", "RXRU", "RXIDLE", "RX", "RXDISABLE", "TXRU", "TXIDLE"},
              EV : SUBSET Events, INTEN : SUBSET Events, FREQUENCY : Channels,
              PACKETPTR : 0 .. BUFFER_RECV_PACKETS - 1, air : {"silent", "packet", "payload"}]
  /\ thr \in [pc : {"out", "write", "flush", "closed"}, asked : BOOLEAN]
  /\ log \in [next : Number, last : Packet, kept : Seq(Packet)]

\* __open__
Opened ==
  /\ ctx' = [read_buffer |-> packet_fifo_create(BUFFER_RECV_PACKETS, Blank),
             write_buffer |-> packet_fifo_create(BUFFER_SEND_PACKETS, Blank),
             error |-> FALSE, channel |-> 0, target_state |-> "OFF"]
  /\ reg' = Off
  /\ thr' = [pc |-> "out", asked |-> FALSE]

Init ==
  /\ ctx = [read_buffer |-> packet_fifo_create(BUFFER_RECV_PACKETS, Blank),
            write_buffer |-> packet_fifo_create(BUFFER_SEND_PACKETS, Blank),
            error |-> FALSE, channel |-> 0, target_state |-> "OFF"]
  /\ reg = Off
  /\ thr = [pc |-> "out", asked |-> FALSE]
  /\ log = [next |-> 0, last |-> Blank, kept |-> <<>>]

-----------------------------------------------------------------------------
(* The tests and steps of util.h, on the context c and the registers r.      *)

__wrong_channel(c, r) == r.FREQUENCY # c.channel

__should_txidle(c, r) ==
  ~__wrong_channel(c, r) /\ (c.target_state = "TX" \/ packet_fifo_size(c.write_buffer) > 0)

__should_rxidle(c, r) ==
  ~__wrong_channel(c, r) /\ c.target_state = "RX" /\ packet_fifo_size(c.write_buffer) = 0

__should_rx(c, r) ==
  __should_rxidle(c, r) /\ packet_fifo_size(c.read_buffer) < BUFFER_RECV_PACKETS

\* INTENSET: a device without power does not hear it.
Enable(r, events) == IF r.POWER THEN [r EXCEPT !.INTEN = @ \cup events] ELSE r

\* DISABLE = 1 in RX: the reception may end between the test and the task.
__cancel_rx(r) ==
  IF r.state = "RX"
  THEN {[r EXCEPT !.state = "RXDISABLE", !.EV = @ \cup e] : e \in {{}, {"PAYLOAD", "END"}}}
  ELSE {r}

\* The device goes through RXIDLE, so that the event DISABLED is set.
__power_up(c, r) ==
  IF r.POWER THEN r
  ELSE [r EXCEPT !.POWER = TRUE, !.FREQUENCY = c.channel, !.EV = {"DISABLED"}]

-----------------------------------------------------------------------------
(* The interrupt handler, irq.h.                                             *)

Pending == reg.EV \cap reg.INTEN # {}

\* An unexpected state: the device is switched off.
IrqFails ==
  /\ ctx' = [ctx EXCEPT !.error = TRUE]
  /\ reg' = Off
  /\ UNCHANGED log

\* Mutant: a reception that was cancelled keeps its claim.
Recovered_Kept(f) == f

\* The claim of a reception that was cancelled is taken back.
Recovered(f) == packet_fifo_write_cancel(f)

\* Mutant: the events are also cleared when the device stays idle.
Idle_Cleared(r) == [r EXCEPT !.INTEN = @ \ {"READY", "END"}, !.EV = @ \ {"READY", "END"}]

\* The device waits in RXIDLE with its events set, and their interrupts disabled.
Idle(r) == [r EXCEPT !.INTEN = @ \ {"READY", "END"}]

__irq_rxidle ==
  LET c == [ctx EXCEPT !.read_buffer = Recovered(@)]
      receive == __should_rx(c, reg) /\ CanWrite(c.read_buffer)
  IN  /\ ctx' = IF receive THEN [c EXCEPT !.read_buffer = packet_fifo_write_lock(@)] ELSE c
      /\ reg' =
           IF receive
           THEN [reg EXCEPT !.EV = @ \ {"READY", "END"}, !.PACKETPTR = c.read_buffer.wi,
                            !.INTEN = @ \cup {"PAYLOAD", "END"}, !.state = "RX",
                            !.air = "silent"]
           ELSE IF __should_rxidle(c, reg) THEN Idle(reg)
           ELSE [reg EXCEPT !.EV = @ \ {"READY", "END"}, !.state = "RXDISABLE"]
      /\ UNCHANGED log

\* Only the address is set: READY stays, and the interrupt comes back.
__irq_txidle == UNCHANGED <<ctx, reg, log>>

__irq_xxidle ==
  \/ reg.state = "RXIDLE" /\ __irq_rxidle
  \/ reg.state = "TXIDLE" /\ __irq_txidle
  \/ reg.state \notin {"RXIDLE", "TXIDLE"} /\ IrqFails

\* CRCSTATUS: the packet is kept, or its place is used again.
__irq_payload_rx ==
  \E CRCSTATUS \in BOOLEAN :
    LET f == ctx.read_buffer
    IN  /\ ctx' = [ctx EXCEPT !.read_buffer =
                     IF CRCSTATUS THEN packet_fifo_write_release(f) ELSE packet_fifo_write_cancel(f)]
        /\ log' = [log EXCEPT !.last = Blank,
                              !.kept = IF CRCSTATUS THEN Append(@, log.last) ELSE @]

\* Mutant: the event is left for the next interrupt.
PayloadTaken_Kept(r) == r

\* PAYLOAD = 0
PayloadTaken(r) == [r EXCEPT !.EV = @ \ {"PAYLOAD"}]

__irq_payload ==
  /\ reg' = PayloadTaken(reg)
  /\ IF reg.state \in {"RX", "RXIDLE"} THEN __irq_payload_rx
     ELSE ctx' = [ctx EXCEPT !.error = TRUE] /\ UNCHANGED log

__irq_disabled ==
  LET r == IF __wrong_channel(ctx, reg) THEN [reg EXCEPT !.FREQUENCY = ctx.channel] ELSE reg
      Start(state) == [r EXCEPT !.INTEN = @ \cup {"READY"}, !.EV = @ \ {"DISABLED"},
                                !.state = state]
  IN  /\ reg' = IF __should_txidle(ctx, r) THEN Start("TXRU")
                ELSE IF __should_rxidle(ctx, r) THEN Start("RXRU")
                ELSE IF ctx.target_state = "OFF" THEN Off
                ELSE [r EXCEPT !.INTEN = @ \ {"DISABLED"}]
      /\ UNCHANGED <<ctx, log>>

\* The first event in this order is served, enabled or not.
_irq ==
  /\ Pending
  /\ UNCHANGED thr
  /\ \/ "PAYLOAD" \in reg.EV /\ __irq_payload
     \/ "PAYLOAD" \notin reg.EV /\ reg.EV \cap {"END", "READY"} # {} /\ __irq_xxidle
     \/ reg.EV = {"DISABLED"} /\ __irq_disabled

-----------------------------------------------------------------------------
(* The calls of a thread; an interrupt that is pending goes first.           *)

Runs(place) == thr.pc = place /\ ~Pending

\* Takes the packet there is, and does not restart the reception; otherwise asks the handler
\* to go on.
_read ==
  /\ Runs("out")
  /\ IF CanRead(ctx.read_buffer)
     THEN /\ ctx' = [ctx EXCEPT !.read_buffer = packet_fifo_read_release(@)]
          /\ log' = [log EXCEPT !.kept = Tail(@)]
          /\ thr' = [thr EXCEPT !.asked = FALSE]
          /\ UNCHANGED reg
     ELSE /\ reg' = Enable(reg, {"READY", "END", "DISABLED"})
          /\ thr' = [thr EXCEPT !.asked = TRUE]
          /\ UNCHANGED <<ctx, log>>

\* One turn of the loop of _write: with the ring full it is repeated.
_write ==
  /\ Runs("out") \/ Runs("write")
  /\ LET room == CanWrite(ctx.write_buffer)
     IN  /\ ctx' = IF room
                   THEN [ctx EXCEPT !.write_buffer = packet_fifo_write_release(@)]
                   ELSE ctx
         /\ thr' = [thr EXCEPT !.pc = IF room THEN "out" ELSE "write", !.asked = FALSE]
  /\ \E r \in __cancel_rx(__power_up(ctx, reg)) :
       reg' = Enable(r, {"READY", "END", "DISABLED"})
  /\ UNCHANGED log

\* IOCTL_BLE_CMD_SET_RX and IOCTL_BLE_CMD_SET_TX
SetTarget(target) ==
  /\ ctx' = [ctx EXCEPT !.target_state = target]
  /\ reg' \in __cancel_rx(Enable(__power_up(ctx, reg), {"DISABLED"}))

\* IOCTL_BLE_CMD_SET_OFF
SetOff ==
  /\ ctx' = [ctx EXCEPT !.target_state = "OFF"]
  /\ reg' \in __cancel_rx(Enable(reg, {"DISABLED"}))

\* IOCTL_BLE_CMD_SET_CHANNEL
SetChannel == \E ch \in Channels : ctx' = [ctx EXCEPT !.channel = ch] /\ UNCHANGED reg

\* IOCTL_BLE_CMD_SET_SRC_ADDR
SetSourceAddress == reg' \in __cancel_rx(reg) /\ UNCHANGED ctx

_ioctl ==
  /\ Runs("out")
  /\ SetTarget("RX") \/ SetTarget("TX") \/ SetOff \/ SetChannel \/ SetSourceAddress
  /\ thr' = [thr EXCEPT !.asked = FALSE]
  /\ UNCHANGED log

\* _fflush, which only _close calls: waits until everything is sent.
_fflush ==
  /\ Runs("out")
  /\ thr' = [pc |-> "flush", asked |-> FALSE]
  /\ UNCHANGED <<ctx, reg, log>>

_close ==
  /\ Runs("flush") /\ packet_fifo_size(ctx.write_buffer) = 0
  /\ thr' = [thr EXCEPT !.pc = "closed"]
  /\ reg' = Off
  /\ UNCHANGED <<ctx, log>>

Reopen ==
  /\ thr.pc = "closed"
  /\ Opened
  /\ log' = [log EXCEPT !.last = Blank, !.kept = <<>>]

-----------------------------------------------------------------------------
(* The device.                                                               *)

\* It is ready after RXEN or TXEN, and disabled after DISABLE.
Settles(from, to, event) ==
  /\ reg.state = from
  /\ reg' = [reg EXCEPT !.state = to, !.EV = @ \cup {event}]
  /\ UNCHANGED <<ctx, thr, log>>

Ready == Settles("RXRU", "RXIDLE", "READY") \/ Settles("TXRU", "TXIDLE", "READY")
Stopped == Settles("RXDISABLE", "DISABLED", "DISABLED")

Heard(bytes) == [ctx EXCEPT !.read_buffer.bp[reg.PACKETPTR] = bytes]

\* A packet begins, its payload is complete in memory, and its CRC has come in as well.
Address ==
  /\ reg.state = "RX" /\ reg.air = "silent"
  /\ ctx' = Heard(Torn)
  /\ reg' = [reg EXCEPT !.air = "packet"]
  /\ UNCHANGED <<thr, log>>

Payload ==
  /\ reg.state = "RX" /\ reg.air = "packet"
  /\ ctx' = Heard(log.next)
  /\ reg' = [reg EXCEPT !.air = "payload", !.EV = @ \cup {"PAYLOAD"}]
  /\ log' = [log EXCEPT !.last = log.next, !.next = (@ + 1) % NUMBERS]
  /\ UNCHANGED thr

End == reg.air = "payload" /\ Settles("RX", "RXIDLE", "END")

Device == Ready \/ Stopped \/ Address \/ Payload \/ End

Next ==
  \/ _irq
  \/ _read \/ _write \/ _ioctl \/ _fflush \/ _close \/ Reopen
  \/ Ready \/ Stopped \/ Address \/ Payload \/ End

-----------------------------------------------------------------------------
(* Properties.                                                               *)

\* What can be read are the packets whose CRC was good, whole, in order and once: the device
\* never writes where a reader may read, and the handler keeps what the device has finished.
PacketsWhole == Packets(ctx.read_buffer) = log.kept

\* A device that is on and idle has the event set whose interrupt takes it on, so that a call
\* need only enable interrupts (_read, _write and _ioctl rely on it).
IdleWakes ==
  /\ reg.state = "RXIDLE" => reg.EV \cap {"READY", "END"} # {}
  /\ reg.POWER /\ reg.state = "DISABLED" => "DISABLED" \in reg.EV

\* A thread that found nothing to read, while receiving is on and the device is not on its
\* (unfinished) way to send: the device does not receive, and the next read gives neither a
\* packet nor an error.
Waits ==
  /\ thr.asked /\ ctx.target_state = "RX" /\ packet_fifo_size(ctx.write_buffer) = 0
  /\ reg.state \notin {"TXRU", "TXIDLE", "RX"}
  /\ ~CanRead(ctx.read_buffer) /\ ~ctx.error
=============================================================================
