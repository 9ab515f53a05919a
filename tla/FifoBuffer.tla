----------------------------- MODULE FifoBuffer -----------------------------
(***************************************************************************)
(* The ring of bytes between a driver and its interrupt handler            *)
(* (src/src/kernel/memory/fifo_buffer.c), as operators on the struct: who  *)
(* calls them, and what keeps two callers apart, is in the drivers.        *)
(***************************************************************************)
EXTENDS Integers, Sequences

CONSTANTS
  sz,     \* the size of the ring: whole pages in the code
  Byte    \* what a place of the ring may hold

ASSUME FifoAssumption == sz \in Nat \ {0} /\ Byte # {}

Ring == [bp : [0 .. sz - 1 -> Byte], ri : 0 .. sz - 1, wi : 0 .. sz - 1,
         rsz : 0 .. sz, wsz : 0 .. sz]

\* fifo_buffer_create: the page holds whatever was in it.
fifo_buffer_create ==
  [bp : [0 .. sz - 1 -> Byte], ri : {0}, wi : {0}, rsz : {0}, wsz : {sz}]

\* Mutant: the index is taken back to the start one place too late.
Advance_Late(i) == IF i = sz THEN 0 ELSE i + 1

Advance(i) == IF i + 1 = sz THEN 0 ELSE i + 1

\* Mutant: the room left is not counted.
fifo_buffer_putb_NotCounted(f, b) ==
  [f EXCEPT !.bp[f.wi] = b, !.wi = Advance(f.wi), !.rsz = f.rsz + 1]

\* When there is room: the byte is stored, and a place changes from one count to the other.
fifo_buffer_putb(f, b) ==
  [bp  |-> [f.bp EXCEPT ![f.wi] = b], ri |-> f.ri, wi |-> Advance(f.wi),
   rsz |-> f.rsz + 1, wsz |-> f.wsz - 1]

\* When there is a byte: the next one, and the ring without it.
NextByte(f) == f.bp[f.ri]

\* Mutant: the index stays.
fifo_buffer_getb_SamePlace(f) == [f EXCEPT !.rsz = f.rsz - 1, !.wsz = f.wsz + 1]

fifo_buffer_getb(f) ==
  [bp  |-> f.bp, ri |-> Advance(f.ri), wi |-> f.wi,
   rsz |-> f.rsz - 1, wsz |-> f.wsz + 1]

-----------------------------------------------------------------------------
\* The k-th place of the ring, going round once.
Wrap(k) == IF k < sz THEN k ELSE k - sz

\* The two counts and the two indices agree.
WellFormed(f) == f \in Ring /\ f.rsz + f.wsz = sz /\ f.wi = Wrap(f.ri + f.rsz)

\* The bytes to be read, the next one first.
Contents(f) == [i \in 1 .. f.rsz |-> f.bp[Wrap(f.ri + i - 1)]]
=============================================================================
