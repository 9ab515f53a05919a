----------------------------- MODULE PacketFifo -----------------------------
(***************************************************************************)
(* The ring of packets between a driver, its interrupt handler and the     *)
(* device (src/src/kernel/memory/fifo_packet_buffer.c), as operators on    *)
(* the struct.  A packet is claimed, filled or read in place, and then     *)
(* released or given back; one flag says that one is claimed.              *)
(***************************************************************************)
EXTENDS Integers, Sequences

\* kmalloc found room for each of the n packets.
packet_fifo_create(n, blank) ==
  [bp |-> [i \in 0 .. n - 1 |-> blank], locked |-> FALSE,
   ri |-> 0, wi |-> 0, sz |-> n, rsz |-> 0, wsz |-> n]

packet_fifo_size(f) == f.rsz

Successor(f, i) == IF i + 1 = f.sz THEN 0 ELSE i + 1

\* Whether packet_fifo_write_lock and packet_fifo_read_lock succeed.
CanWrite(f) == ~f.locked /\ f.wsz > 0
CanRead(f) == ~f.locked /\ f.rsz > 0

packet_fifo_write_lock(f) == [f EXCEPT !.locked = TRUE]
packet_fifo_write_cancel(f) == [f EXCEPT !.locked = FALSE]

packet_fifo_write_release(f) ==
  [f EXCEPT !.wi = Successor(f, f.wi), !.wsz = @ - 1, !.rsz = @ + 1, !.locked = FALSE]

packet_fifo_read_release(f) ==
  [f EXCEPT !.ri = Successor(f, f.ri), !.rsz = @ - 1, !.wsz = @ + 1, !.locked = FALSE]

-----------------------------------------------------------------------------
\* The packets to be read, the next one first.
Packets(f) == [i \in 1 .. f.rsz |-> f.bp[(f.ri + i - 1) % f.sz]]

\* The FIFOs of n packets whose counts and indices agree.
FifoOf(n, Packet) ==
  {f \in [bp : [0 .. n - 1 -> Packet], locked : BOOLEAN, ri : 0 .. n - 1, wi : 0 .. n - 1,
          sz : {n}, rsz : 0 .. n, wsz : 0 .. n] :
     f.wi = (f.ri + f.rsz) % n /\ f.wsz = n - f.rsz}
=============================================================================
