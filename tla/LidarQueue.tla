------------------------------ MODULE LidarQueue ------------------------------
(***************************************************************************)
(* The ring of frames of one lidar (livox_ros_driver2/src/comm/ldq.cpp):   *)
(* the thread that builds frames pushes, the thread that publishes pops,   *)
(* and no lock is shared.  Both indexes are machine words that wrap        *)
(* around; a slot is found by masking an index.                            *)
(*                                                                         *)
(* A frame is known by the value wr_idx had when it was pushed, so that a  *)
(* reader can tell the frame it should get from an older one, and from one *)
(* that is being written (Torn).                                           *)
(***************************************************************************)
EXTENDS Integers

CONSTANTS
  Capacity,  \* slots, RoundupPowerOf2 of the size asked for
  Word       \* values of an index: 2^32 in the code

\* Both are powers of two, and the ring is the smaller one.
ASSUME CapacityAssumption == Capacity \in Nat \ {0}
ASSUME WordAssumption == \E k \in 2 .. Word : Word = k * Capacity

Torn == -1

Index == 0 .. Word - 1

Slot(i) == i % Capacity

Queue ==
  [wr_idx : Index, rd_idx : Index, storage_packet : [0 .. Capacity - 1 -> Index \cup {Torn}]]

InitQueue ==
  [wr_idx |-> 0, rd_idx |-> 0, storage_packet |-> [s \in 0 .. Capacity - 1 |-> Torn]]

QueueUsedSize(q) == (q.wr_idx - q.rd_idx) % Word

\* Mutant: the ring takes one frame too many.
MutantFullTooLate(q) == QueueUsedSize(q) > Capacity

QueueIsFull(q) == QueueUsedSize(q) > Capacity - 1

QueueIsEmpty(q) == q.rd_idx = q.wr_idx

\* QueuePushAny, in two steps: the copy into the slot, and the new index.
WriteSlot(q) == [q EXCEPT !.storage_packet[Slot(q.wr_idx)] = Torn]

PushUpdate(q) ==
  [q EXCEPT !.storage_packet[Slot(q.wr_idx)] = q.wr_idx, !.wr_idx = (@ + 1) % Word]

\* Mutant: the index does not wrap around with the word.
MutantPopUpdate(q) == [q EXCEPT !.rd_idx = @ + 1]

\* QueuePrePop copies the frame out, QueuePopUpdate frees its slot.
QueuePrePop(q) == q.storage_packet[Slot(q.rd_idx)]

QueuePopUpdate(q) == [q EXCEPT !.rd_idx = (@ + 1) % Word]
=============================================================================
