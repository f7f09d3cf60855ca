--------------------------- MODULE LivoxDriverProofs ---------------------------
(* What the operations of LidarQueue do to a ring, and the safety of           *)
(* LivoxDriver, for any number of lidars, any capacity and width of the        *)
(* rings, and any options.                                                     *)
(*                                                                             *)
(* A ring is described by two numbers that do not wrap around: how many frames *)
(* were popped since the start, and how many are queued.                       *)
EXTENDS LivoxDriver, SequenceTheorems, FiniteSetTheorems, TLAPS

-----------------------------------------------------------------------------
(* Remainders.                                                             *)

LEMMA ModDef ==
  ASSUME NEW n \in Nat \ {0}, NEW a \in Int
  PROVE  /\ a % n \in 0 .. n - 1 /\ a \div n \in Int
         /\ a = n * (a \div n) + (a % n)
  OBVIOUS

(* A multiple of n other than 0 is at least n away from it.                *)
LEMMA MultipleIsFar ==
  ASSUME NEW n \in Nat \ {0}, NEW d \in Int, d # 0
  PROVE  n * d \in Int /\ (n * d >= n \/ n * d <= -n)
  <1>1. CASE d >= 1
    <2>1. n * (d - 1) >= 0
      BY <1>1
    <2>2. n * d = n * (d - 1) + n
      OBVIOUS
    <2>3. n * d \in Int /\ n * (d - 1) \in Int
      OBVIOUS
    <2> QED
      BY <2>1, <2>2, <2>3
  <1>2. CASE d <= -1
    <2>1. n * (d + 1) <= 0
      BY <1>2
    <2>2. n * d = n * (d + 1) - n
      OBVIOUS
    <2>3. n * d \in Int /\ n * (d + 1) \in Int
      OBVIOUS
    <2> QED
      BY <2>1, <2>2, <2>3
  <1> QED
    BY <1>1, <1>2

(* The remainder is the only number below n that is left by multiples of n. *)
LEMMA ModUnique ==
  ASSUME NEW n \in Nat \ {0}, NEW a \in Int, NEW q \in Int, NEW s \in 0 .. n - 1,
         a = n * q + s
  PROVE  a % n = s
  <1> DEFINE p == a \div n
             t == a % n
  <1>1. p \in Int /\ t \in 0 .. n - 1 /\ a = n * p + t
    BY ModDef
  <1> HIDE DEF p, t
  <1>2. n * (p - q) = s - t
    <2>1. n * (p - q) = n * p - n * q /\ n * p \in Int /\ n * q \in Int
      BY <1>1
    <2> QED
      BY <2>1, <1>1
  <1>3. p = q
    <2> SUFFICES ASSUME p # q PROVE FALSE
      OBVIOUS
    <2>1. p - q \in Int /\ p - q # 0
      BY <1>1
    <2>2. n * (p - q) >= n \/ n * (p - q) <= -n
      BY <2>1, MultipleIsFar
    <2> QED
      BY <2>2, <1>2, <1>1
  <1>4. n * (p - q) = 0
    BY <1>1, <1>3
  <1>5. s = t
    BY <1>1, <1>2, <1>4
  <1> QED
    BY <1>5 DEF t

(* An index that wrapped around goes on as if it had not.                  *)
LEMMA ModPlus ==
  ASSUME NEW n \in Nat \ {0}, NEW a \in Nat, NEW c \in Nat
  PROVE  ((a % n) + c) % n = (a + c) % n
  <1> DEFINE p == a \div n
             t == a % n
             k == (t + c) \div n
             s == (t + c) % n
  <1>1. p \in Int /\ t \in 0 .. n - 1 /\ a = n * p + t
    BY ModDef
  <1>2. k \in Int /\ s \in 0 .. n - 1 /\ t + c = n * k + s
    <2>1. t + c \in Int
      BY <1>1
    <2> HIDE DEF t
    <2> QED
      BY <2>1, ModDef
  <1> HIDE DEF p, t, k, s
  <1>3. a + c = n * (p + k) + s /\ p + k \in Int
    <2>1. n * (p + k) = n * p + n * k /\ n * p \in Int /\ n * k \in Int /\ p + k \in Int
      BY <1>1, <1>2
    <2> QED
      BY <2>1, <1>1, <1>2
  <1>4. (a + c) % n = s
    <2>1. a + c \in Int
      OBVIOUS
    <2> QED
      BY <2>1, <1>2, <1>3, ModUnique
  <1> QED
    BY <1>4 DEF s, t

(* Masking an index is not affected by its width.                          *)
LEMMA ModOfMod ==
  ASSUME NEW n \in Nat \ {0}, NEW k \in Nat \ {0}, NEW a \in Nat
  PROVE  (a % (k * n)) % n = a % n
  <1> DEFINE m == k * n
             p == a \div m
             t == a % m
             j == t \div n
             s == t % n
  <1>1. m \in Nat \ {0}
    <2>1. n = 1 * n /\ k - 1 \in Nat
      OBVIOUS
    <2>2. k * n = (k - 1) * n + n /\ (k - 1) * n \in Nat
      BY <2>1
    <2> QED
      BY <2>2
  <1>2. p \in Int /\ t \in 0 .. m - 1 /\ a = m * p + t
    <2> HIDE DEF m
    <2> QED
      BY <1>1, ModDef
  <1>3. j \in Int /\ s \in 0 .. n - 1 /\ t = n * j + s
    <2>1. t \in Int
      <3> HIDE DEF m
      <3> QED
        BY <1>1, <1>2
    <2> HIDE DEF t
    <2> QED
      BY <2>1, ModDef
  <1> HIDE DEF p, t, j, s
  <1>4. a = n * (k * p + j) + s /\ k * p + j \in Int
    <2>1. m * p = n * (k * p) /\ k * p \in Int
      BY <1>2
    <2>2. n * (k * p + j) = n * (k * p) + n * j /\ n * (k * p) \in Int /\ n * j \in Int
      BY <2>1, <1>3
    <2> QED
      BY <2>1, <2>2, <1>2, <1>3
  <1>5. a % n = s
    <2> DEFINE e == k * p + j
    <2> HIDE DEF e
    <2>1. a \in Int /\ a = n * e + s /\ e \in Int
      BY <1>4 DEF e
    <2> QED
      BY <2>1, <1>3, ModUnique
  <1> QED
    BY <1>5 DEF s, t
(* Indexes less than a round apart fall on different slots.                *)
LEMMA ModDifferent ==
  ASSUME NEW n \in Nat \ {0}, NEW a \in Nat, NEW d \in 1 .. n - 1
  PROVE  (a + d) % n # a % n
  <1> SUFFICES ASSUME (a + d) % n = a % n PROVE FALSE
    OBVIOUS
  <1> DEFINE p == a \div n
             t == a % n
             k == (a + d) \div n
  <1>1. p \in Int /\ t \in 0 .. n - 1 /\ a = n * p + t
    BY ModDef
  <1>2. k \in Int /\ a + d = n * k + t
    <2>1. a + d \in Int
      OBVIOUS
    <2> QED
      BY <2>1, ModDef
  <1> HIDE DEF p, t, k
  <1>3. n * (k - p) = d
    <2>1. n * (k - p) = n * k - n * p /\ n * k \in Int /\ n * p \in Int
      BY <1>1, <1>2
    <2> QED
      BY <2>1, <1>1, <1>2
  <1>4. k - p \in Int /\ k - p # 0
    <2>1. k = p => n * (k - p) = 0
      BY <1>1
    <2> QED
      BY <2>1, <1>1, <1>2, <1>3
  <1>5. n * (k - p) >= n \/ n * (k - p) <= -n
    BY <1>4, MultipleIsFar
  <1> QED
    BY <1>3, <1>5

(* The difference of two indexes is right although both wrap around.       *)
LEMMA ModMinus ==
  ASSUME NEW n \in Nat \ {0}, NEW a \in Nat, NEW d \in 0 .. n - 1
  PROVE  (((a + d) % n) - (a % n)) % n = d
  <1> DEFINE p == a \div n
             t == a % n
             k == (a + d) \div n
             s == (a + d) % n
  <1>1. p \in Int /\ t \in 0 .. n - 1 /\ a = n * p + t
    BY ModDef
  <1>2. k \in Int /\ s \in 0 .. n - 1 /\ a + d = n * k + s
    <2>1. a + d \in Int
      OBVIOUS
    <2> QED
      BY <2>1, ModDef
  <1> HIDE DEF p, t, k, s
  <1>3. s - t = n * (p - k) + d /\ p - k \in Int /\ s - t \in Int
    <2>1. n * (p - k) = n * p - n * k /\ n * k \in Int /\ n * p \in Int
      BY <1>1, <1>2
    <2> QED
      BY <2>1, <1>1, <1>2
  <1>4. (s - t) % n = d
    BY <1>3, ModUnique
  <1> QED
    BY <1>4 DEF s, t

-----------------------------------------------------------------------------
(* The ring.                                                               *)

\* r frames were popped since the start, and the u pushed after them are queued,
\* each whole in its slot.
HoldsFrames(q, r, u) ==
  /\ q.rd_idx = r % Word /\ q.wr_idx = (r + u) % Word
  /\ \A k \in 0 .. u - 1 : q.storage_packet[(r + k) % Capacity] = (r + k) % Word

Sound(q) == \E r \in Nat : \E u \in 0 .. Capacity : HoldsFrames(q, r, u)

LEMMA WordIsLarger ==
  /\ Word \in Nat \ {0} /\ Capacity < Word /\ Capacity \in Nat \ {0}
  /\ \E k \in Nat \ {0} : Word = k * Capacity
  <1>1. PICK k \in 2 .. Word : Word = k * Capacity
    BY WordAssumption
  <1>2. k \in Int /\ k >= 2 /\ k <= Word
    BY <1>1
  <1>3. Capacity \in Nat \ {0}
    BY CapacityAssumption
  <1>4. k * Capacity = Capacity + (k - 1) * Capacity /\ (k - 1) * Capacity >= 1
    <2>1. (k - 1) \in Nat \ {0}
      BY <1>2
    <2>2. (k - 1) * Capacity = (k - 2) * Capacity + Capacity /\ (k - 2) * Capacity >= 0
      BY <1>2, <1>3
    <2>3. (k - 1) * Capacity \in Int /\ (k - 2) * Capacity \in Int
      BY <1>2, <1>3
    <2>4. k * Capacity = Capacity + (k - 1) * Capacity
      BY <1>2, <1>3
    <2> QED
      BY <2>2, <2>3, <2>4, <1>3
  <1>5. (k - 1) * Capacity \in Int
    BY <1>2, <1>3
  <1>6. Word \in Nat \ {0} /\ Capacity < Word
    BY <1>1, <1>3, <1>4, <1>5
  <1> QED
    BY <1>1, <1>2, <1>3, <1>6

(* Masking a wrapped index gives the slot of the index.                    *)
LEMMA SlotOfIndex ==
  ASSUME NEW a \in Nat
  PROVE  Slot(a % Word) = a % Capacity
  <1>1. PICK k \in Nat \ {0} : Word = k * Capacity
    BY WordIsLarger
  <1> QED
    BY <1>1, WordIsLarger, ModOfMod DEF Slot

(* What the unlocked tests of the two threads find.                        *)
LEMMA RingIsMeasured ==
  ASSUME NEW q, NEW r \in Nat, NEW u \in 0 .. Capacity, HoldsFrames(q, r, u)
  PROVE  /\ QueueIsFull(q) <=> u = Capacity
         /\ QueueIsEmpty(q) <=> u = 0
         /\ Slot(q.rd_idx) = r % Capacity
         /\ Slot(q.wr_idx) = (r + u) % Capacity
  <1> USE WordIsLarger
  <1>1. u \in 0 .. Word - 1 /\ r + u \in Nat
    OBVIOUS
  <1>2. QueueUsedSize(q) = u
    <2>1. (((r + u) % Word) - (r % Word)) % Word = u
      BY <1>1, ModMinus
    <2> QED
      BY <2>1 DEF QueueUsedSize, HoldsFrames
  <1>3. QueueIsFull(q) <=> u = Capacity
    BY <1>2 DEF QueueIsFull
  <1>4. QueueIsEmpty(q) <=> u = 0
    <2>1. u = 0 => q.rd_idx = q.wr_idx
      BY DEF HoldsFrames
    <2>2. u # 0 => q.rd_idx # q.wr_idx
      <3> SUFFICES ASSUME u # 0 PROVE (r + u) % Word # r % Word
        BY DEF HoldsFrames
      <3>1. u \in 1 .. Word - 1
        BY <1>1
      <3> QED
        BY <3>1, ModDifferent
    <2> QED
      BY <2>1, <2>2 DEF QueueIsEmpty
  <1>5. Slot(q.rd_idx) = r % Capacity /\ Slot(q.wr_idx) = (r + u) % Capacity
    BY <1>1, SlotOfIndex DEF HoldsFrames
  <1> QED
    BY <1>3, <1>4, <1>5

LEMMA InitIsSound == InitQueue \in Queue /\ HoldsFrames(InitQueue, 0, 0)
  <1>1. 0 % Word = 0
    <2>1. 0 = Word * 0 + 0
      BY WordIsLarger
    <2> QED
      BY <2>1, WordIsLarger, ModUnique
  <1>2. InitQueue \in Queue
    BY WordIsLarger DEF InitQueue, Queue, Index
  <1> QED
    BY <1>1, <1>2 DEF InitQueue, HoldsFrames

(* The copy into a slot touches no queued frame.                           *)
LEMMA WriteKeeps ==
  ASSUME NEW q \in Queue, NEW r \in Nat, NEW u \in 0 .. Capacity, HoldsFrames(q, r, u),
         u # Capacity
  PROVE  /\ WriteSlot(q) \in Queue /\ HoldsFrames(WriteSlot(q), r, u)
         /\ WriteSlot(q).rd_idx = q.rd_idx /\ WriteSlot(q).wr_idx = q.wr_idx
  <1> USE WordIsLarger
  <1> DEFINE slot == (r + u) % Capacity
  <1>1. Slot(q.wr_idx) = slot
    BY RingIsMeasured
  <1>2. slot \in 0 .. Capacity - 1
    BY ModDef
  <1>3. WriteSlot(q) = [q EXCEPT !.storage_packet[slot] = Torn]
    BY <1>1 DEF WriteSlot
  <1> HIDE DEF slot
  <1>4. WriteSlot(q) \in Queue
    BY <1>2, <1>3 DEF Queue, Torn
  <1>5. WriteSlot(q).rd_idx = q.rd_idx /\ WriteSlot(q).wr_idx = q.wr_idx
    BY <1>3 DEF Queue
  <1>6. ASSUME NEW k \in 0 .. u - 1
        PROVE  WriteSlot(q).storage_packet[(r + k) % Capacity] = (r + k) % Word
    <2>1. (r + k) % Capacity # slot
      <3>1. r + k \in Nat /\ u - k \in 1 .. Capacity - 1 /\ (r + k) + (u - k) = r + u
        OBVIOUS
      <3>2. ((r + k) + (u - k)) % Capacity # (r + k) % Capacity
        BY <3>1, ModDifferent
      <3> QED
        BY <3>1, <3>2 DEF slot
    <2>2. (r + k) % Capacity \in 0 .. Capacity - 1
      BY ModDef
    <2> QED
      BY <1>3, <2>1, <2>2 DEF HoldsFrames, Queue
  <1> QED
    BY <1>4, <1>5, <1>6 DEF HoldsFrames

(* The new index hands the frame over.                                     *)
LEMMA PushKeeps ==
  ASSUME NEW q \in Queue, NEW r \in Nat, NEW u \in 0 .. Capacity, HoldsFrames(q, r, u),
         u # Capacity
  PROVE  /\ PushUpdate(q) \in Queue /\ HoldsFrames(PushUpdate(q), r, u + 1)
         /\ PushUpdate(q).rd_idx = q.rd_idx
  <1> USE WordIsLarger
  <1> DEFINE slot == (r + u) % Capacity
             next == (r + u + 1) % Word
             this == (r + u) % Word
  <1>1. Slot(q.wr_idx) = slot /\ q.wr_idx = this
    BY RingIsMeasured DEF HoldsFrames
  <1>2. slot \in 0 .. Capacity - 1 /\ next \in Index /\ this \in Index
    <2>1. r + u \in Int /\ r + u + 1 \in Int
      OBVIOUS
    <2>2. (r + u) % Capacity \in 0 .. Capacity - 1
      BY <2>1, ModDef
    <2>3. (r + u + 1) % Word \in 0 .. Word - 1 /\ (r + u) % Word \in 0 .. Word - 1
      BY <2>1, ModDef
    <2> QED
      BY <2>2, <2>3 DEF Index
  <1>3. (this + 1) % Word = next
    <2>1. r + u \in Nat /\ 1 \in Nat /\ Word \in Nat \ {0}
      OBVIOUS
    <2>2. (((r + u) % Word) + 1) % Word = ((r + u) + 1) % Word
      BY <2>1, ModPlus
    <2> QED
      BY <2>2
  <1>4. PushUpdate(q) = [q EXCEPT !.storage_packet[slot] = this, !.wr_idx = next]
    BY <1>1, <1>3 DEF PushUpdate
  <1> HIDE DEF slot, next, this
  <1>5. PushUpdate(q) \in Queue
    BY <1>2, <1>4 DEF Queue
  <1>6. PushUpdate(q).rd_idx = q.rd_idx /\ PushUpdate(q).wr_idx = next
    BY <1>4 DEF Queue
  <1>7. ASSUME NEW k \in 0 .. u
        PROVE  PushUpdate(q).storage_packet[(r + k) % Capacity] = (r + k) % Word
    <2>1. CASE k = u
      BY <2>1, <1>2, <1>4 DEF Queue, slot, this
    <2>2. CASE k # u
      <3>1. r + k \in Nat /\ u - k \in 1 .. Capacity - 1 /\ (r + k) + (u - k) = r + u
        BY <2>2
      <3>2. ((r + k) + (u - k)) % Capacity # (r + k) % Capacity
        BY <3>1, ModDifferent
      <3>3. (r + k) % Capacity # slot
        BY <3>1, <3>2 DEF slot
      <3>4. (r + k) % Capacity \in 0 .. Capacity - 1
        BY ModDef
      <3>5. k \in 0 .. u - 1
        BY <2>2
      <3> QED
        BY <1>4, <3>3, <3>4, <3>5 DEF HoldsFrames, Queue
    <2> QED
      BY <2>1, <2>2
  <1> QED
    BY <1>6, <1>5, <1>7 DEF HoldsFrames, next

(* Popping gives up the oldest frame.                                      *)
LEMMA PopKeeps ==
  ASSUME NEW q \in Queue, NEW r \in Nat, NEW u \in 1 .. Capacity, HoldsFrames(q, r, u)
  PROVE  /\ QueuePopUpdate(q) \in Queue /\ HoldsFrames(QueuePopUpdate(q), r + 1, u - 1)
  <1> USE WordIsLarger
  <1> DEFINE next == (r + 1) % Word
  <1>1. ((r % Word) + 1) % Word = next
    BY ModPlus
  <1>2. QueuePopUpdate(q) = [q EXCEPT !.rd_idx = next]
    BY <1>1 DEF QueuePopUpdate, HoldsFrames
  <1>3. next \in Index
    <2>1. r + 1 \in Int
      OBVIOUS
    <2>2. (r + 1) % Word \in 0 .. Word - 1
      BY <2>1, ModDef
    <2> QED
      BY <2>2 DEF Index
  <1> HIDE DEF next
  <1>4. QueuePopUpdate(q) \in Queue
    BY <1>2, <1>3 DEF Queue
  <1>5. /\ QueuePopUpdate(q).rd_idx = next /\ QueuePopUpdate(q).wr_idx = q.wr_idx
        /\ QueuePopUpdate(q).storage_packet = q.storage_packet
    BY <1>2 DEF Queue
  <1>6. (r + 1) + (u - 1) = r + u
    OBVIOUS
  <1>7. ASSUME NEW k \in 0 .. (u - 1) - 1
        PROVE  q.storage_packet[((r + 1) + k) % Capacity] = ((r + 1) + k) % Word
    <2>1. k + 1 \in 0 .. u - 1 /\ r + (k + 1) = (r + 1) + k
      OBVIOUS
    <2> QED
      BY <2>1 DEF HoldsFrames
  <1> QED
    BY <1>4, <1>5, <1>6, <1>7 DEF HoldsFrames, next

(* What is read is the oldest frame.                                       *)
LEMMA PrePopReadsOldest ==
  ASSUME NEW q, NEW r \in Nat, NEW u \in 1 .. Capacity, HoldsFrames(q, r, u)
  PROVE  QueuePrePop(q) = q.rd_idx
  <1>1. Slot(q.rd_idx) = r % Capacity
    <2>1. u \in 0 .. Capacity
      BY WordIsLarger
    <2> QED
      BY <2>1, RingIsMeasured
  <1>2. q.storage_packet[(r + 0) % Capacity] = (r + 0) % Word
    <2>1. 0 \in 0 .. u - 1
      BY WordIsLarger
    <2>2. \A k \in 0 .. u - 1 : q.storage_packet[(r + k) % Capacity] = (r + k) % Word
      BY DEF HoldsFrames
    <2> QED
      BY <2>1, <2>2, Zenon
  <1>3. r + 0 = r
    OBVIOUS
  <1> QED
    BY <1>1, <1>2, <1>3 DEF QueuePrePop, HoldsFrames

-----------------------------------------------------------------------------
(* The inductive invariant.                                                *)

RingsAreSound == \A l \in Lidars : Sound(data[l])

\* RawDataProcess is at a part of its frame, and the ring it copies to has room:
\* the other thread only makes more.
WriterInPlace ==
  /\ proc # "pop" => frame # <<>>
  /\ proc = "write" => ~QueueIsFull(data[Head(frame)])

\* PointCloudDataPollThread copied the oldest frame of a ring, which the other
\* thread leaves alone.
ReaderInPlace ==
  /\ poll.at \in {"inner", "update"} => poll.lidar \in Lidars
  /\ poll.at = "update" =>
       ~QueueIsEmpty(data[poll.lidar]) /\ pkg = data[poll.lidar].rd_idx

RingInv == RingsAreSound /\ WriterInPlace /\ ReaderInPlace

\* Once a lidar was asked for its options, each is awaited or acknowledged.
OptionsAccounted ==
  \A l \in Lidars :
    /\ set_bits[l] \subseteq Options[l] /\ acked[l] \subseteq Options[l]
    /\ \/ set_bits[l] = {} /\ acked[l] = {}
       \/ Options[l] \subseteq set_bits[l] \cup acked[l]

ConfigInv == OptionsAccounted /\ SamplingIsConfigured

Inv == TypeOK /\ RingInv /\ ConfigInv

-----------------------------------------------------------------------------
LEMMA InitEstablishes == Init => Inv
  <1> SUFFICES ASSUME Init PROVE Inv
    OBVIOUS
  <1> USE LidarAssumption, BoundAssumption DEF Init, Lidars, Idle
  <1>1. InitQueue \in Queue /\ HoldsFrames(InitQueue, 0, 0)
    BY InitIsSound
  <1>2. TypeOK
    <2>1. frame \in Seq(Lidars)
      OBVIOUS
    <2>2. data \in [Lidars -> Queue]
      BY <1>1
    <2>3. set_bits \in [Lidars -> SUBSET AllOptions] /\ acked \in [Lidars -> SUBSET AllOptions]
      OBVIOUS
    <2>4. /\ poll \in [at : PollAt, lidar : 1 .. LidarCount + 1]
          /\ imu_poll \in [at : PollAt, lidar : 1 .. LidarCount + 1]
      BY DEF PollAt
    <2>5. imu_data \in [Lidars -> 0 .. MaxImu] /\ connect_state \in [Lidars -> {"Off", "Sampling"}]
      OBVIOUS
    <2>6. sdk \in Idle .. LidarCount
      OBVIOUS
    <2> QED
      BY <2>1, <2>2, <2>3, <2>4, <2>5, <2>6 DEF TypeOK, ProcAt
  <1>3. RingInv
    <2>1. Sound(InitQueue)
      BY <1>1, WordIsLarger DEF Sound
    <2> QED
      BY <2>1 DEF RingInv, RingsAreSound, WriterInPlace, ReaderInPlace
  <1>4. ConfigInv
    BY DEF ConfigInv, OptionsAccounted, SamplingIsConfigured
  <1> QED
    BY <1>2, <1>3, <1>4 DEF Inv

(* A frame has the parts of finitely many lidars, at least one.            *)
LEMMA FrameOfParts ==
  ASSUME NEW parts \in SUBSET Lidars, parts # {},
         NEW f \in [1 .. Cardinality(parts) -> parts]
  PROVE  f \in Seq(Lidars) /\ f # <<>>
  <1>1. IsFiniteSet(parts)
    <2>1. IsFiniteSet(1 .. LidarCount)
      BY LidarAssumption, FS_Interval
    <2> QED
      BY <2>1, FS_Subset DEF Lidars
  <1>2. Cardinality(parts) \in Nat /\ Cardinality(parts) # 0
    BY <1>1, FS_CardinalityType, FS_EmptySet
  <1>3. f \in Seq(Lidars)
    BY <1>2
  <1>4. Len(f) # 0
    BY <1>2
  <1> QED
    BY <1>3, <1>4

(* What remains of a frame.                                                *)
LEMMA PartsOfFrame ==
  ASSUME NEW f \in Seq(Lidars), f # <<>>
  PROVE  Head(f) \in Lidars /\ Tail(f) \in Seq(Lidars)
  OBVIOUS

-----------------------------------------------------------------------------
(* The rings under the steps of the two threads.                           *)

LEMMA BuildFrameKeeps ==
  ASSUME TypeOK, RingInv, NEW l \in Lidars, NEW others \in SUBSET Lidars, BuildFrame(l, others)
  PROVE  TypeOK' /\ RingInv'
  <1>1. frame' \in Seq(Lidars) /\ frame' # <<>>
    BY FrameOfParts DEF BuildFrame
  <1>2. TypeOK'
    BY <1>1 DEF BuildFrame, TypeOK, ProcAt, pcdVars, imuVars, cfgVars, exitVars
  <1>3. RingInv'
    BY <1>1 DEF BuildFrame, RingInv, RingsAreSound, WriterInPlace, ReaderInPlace, pcdVars
  <1> QED
    BY <1>2, <1>3

(* Going on to the next part disturbs no ring.                             *)
LEMMA NextPartKeeps ==
  ASSUME TypeOK, WriterInPlace, proc # "pop", NextPart
  PROVE  frame' \in Seq(Lidars) /\ proc' \in ProcAt /\ (proc' # "pop" => frame' # <<>>)
         /\ proc' # "write"
  BY PartsOfFrame DEF TypeOK, WriterInPlace, NextPart, ProcAt

LEMMA StorePartKeeps ==
  ASSUME TypeOK, RingInv, StorePart
  PROVE  TypeOK' /\ RingInv'
  <1> DEFINE l == Head(frame)
  <1>1. frame \in Seq(Lidars) /\ frame # <<>> /\ l \in Lidars
    BY PartsOfFrame DEF TypeOK, RingInv, WriterInPlace, StorePart
  <1>2. CASE l \notin map_index /\ NextPart /\ UNCHANGED data
    <2>1. frame' \in Seq(Lidars) /\ proc' \in ProcAt /\ (proc' # "pop" => frame' # <<>>)
          /\ proc' # "write"
      <3>1. WriterInPlace /\ proc # "pop" /\ NextPart
        BY <1>2 DEF RingInv, StorePart
      <3> QED
        BY <3>1, NextPartKeeps
    <2> QED
      BY <1>2, <2>1 DEF StorePart, TypeOK, RingInv, RingsAreSound, WriterInPlace, ReaderInPlace,
                        pcdVars, imuVars, cfgVars, exitVars
  <1>3. CASE proc' = "count" /\ UNCHANGED <<frame, data>>
    BY <1>1, <1>3 DEF StorePart, TypeOK, ProcAt, RingInv, RingsAreSound, WriterInPlace,
                      ReaderInPlace, pcdVars, imuVars, cfgVars, exitVars
  <1>4. CASE /\ ~QueueIsFull(data[l]) /\ data' = [data EXCEPT ![l] = WriteSlot(@)]
             /\ proc' = "write" /\ UNCHANGED frame
    <2>1. data \in [Lidars -> Queue] /\ data[l] \in Queue
      BY <1>1 DEF TypeOK
    <2>2. PICK r \in Nat, u \in 0 .. Capacity : HoldsFrames(data[l], r, u)
      BY <1>1 DEF RingInv, RingsAreSound, Sound
    <2>3. u # Capacity
      BY <1>4, <2>2, RingIsMeasured
    <2>4. /\ WriteSlot(data[l]) \in Queue /\ HoldsFrames(WriteSlot(data[l]), r, u)
          /\ WriteSlot(data[l]).rd_idx = data[l].rd_idx /\ WriteSlot(data[l]).wr_idx = data[l].wr_idx
      BY <2>1, <2>2, <2>3, WriteKeeps
    <2> HIDE DEF l
    <2>5. /\ data' \in [Lidars -> Queue] /\ data'[l] = WriteSlot(data[l])
          /\ \A k \in Lidars \ {l} : data'[k] = data[k]
      BY <1>1, <1>4, <2>1, <2>4
    <2>6. TypeOK'
      BY <1>1, <1>4, <2>5 DEF StorePart, TypeOK, ProcAt, pcdVars, imuVars, cfgVars, exitVars
    <2>7. RingsAreSound'
      BY <2>2, <2>4, <2>5 DEF RingInv, RingsAreSound, Sound
    <2>8. WriterInPlace'
      <3>1. ~QueueIsFull(data'[l])
        BY <2>3, <2>4, <2>5, RingIsMeasured
      <3> QED
        BY <1>1, <1>4, <3>1 DEF WriterInPlace, l
    <2>9. ReaderInPlace'
      BY <1>4, <2>4, <2>5 DEF StorePart, RingInv, ReaderInPlace, QueueIsEmpty, pcdVars
    <2> QED
      BY <2>6, <2>7, <2>8, <2>9 DEF RingInv
  <1> QED
    BY <1>2, <1>3, <1>4 DEF StorePart

LEMMA PushPartKeeps ==
  ASSUME TypeOK, RingInv, PushPart
  PROVE  TypeOK' /\ RingInv'
  <1> DEFINE l == Head(frame)
  <1>1. frame \in Seq(Lidars) /\ frame # <<>> /\ l \in Lidars
    BY PartsOfFrame DEF TypeOK, RingInv, WriterInPlace, PushPart
  <1>2. data \in [Lidars -> Queue] /\ data[l] \in Queue
    BY <1>1 DEF TypeOK
  <1>3. PICK r \in Nat, u \in 0 .. Capacity : HoldsFrames(data[l], r, u)
    BY <1>1 DEF RingInv, RingsAreSound, Sound
  <1>4. u # Capacity
    BY <1>3, RingIsMeasured DEF PushPart, RingInv, WriterInPlace
  <1>5. /\ PushUpdate(data[l]) \in Queue /\ HoldsFrames(PushUpdate(data[l]), r, u + 1)
        /\ PushUpdate(data[l]).rd_idx = data[l].rd_idx
    BY <1>2, <1>3, <1>4, PushKeeps
  <1>6. u + 1 \in 0 .. Capacity
    BY <1>4, WordIsLarger
  <1>7. data' = [data EXCEPT ![l] = PushUpdate(@)]
    BY DEF PushPart
  <1> HIDE DEF l
  <1>8. /\ data' \in [Lidars -> Queue] /\ data'[l] = PushUpdate(data[l])
        /\ \A k \in Lidars \ {l} : data'[k] = data[k]
    BY <1>1, <1>2, <1>5, <1>7
  <1>9. TypeOK'
    BY <1>1, <1>8 DEF PushPart, TypeOK, ProcAt, pcdVars, imuVars, cfgVars, exitVars
  <1>10. RingsAreSound'
    BY <1>5, <1>6, <1>8 DEF RingInv, RingsAreSound, Sound
  <1>11. WriterInPlace'
    BY <1>1 DEF PushPart, WriterInPlace
  <1>12. ReaderInPlace'
    <2>1. ~QueueIsEmpty(data'[l])
      <3>1. HoldsFrames(data'[l], r, u + 1) /\ u + 1 # 0
        BY <1>5, <1>8
      <3> QED
        BY <1>6, <3>1, RingIsMeasured
    <2>2. \A k \in Lidars : /\ data'[k].rd_idx = data[k].rd_idx
                            /\ ~QueueIsEmpty(data[k]) => ~QueueIsEmpty(data'[k])
      <3>1. ASSUME NEW k \in Lidars \ {l} PROVE data'[k] = data[k]
        BY <1>8
      <3> QED
        BY <1>5, <1>8, <2>1, <3>1
    <2>3. poll' = poll /\ pkg' = pkg
      BY DEF PushPart, pcdVars
    <2>4. ReaderInPlace
      BY DEF RingInv
    <2> QED
      BY <2>2, <2>3, <2>4 DEF ReaderInPlace
  <1> QED
    BY <1>9, <1>10, <1>11, <1>12 DEF RingInv

LEMMA SignalKeeps ==
  ASSUME TypeOK, RingInv, LookAgain \/ Signal
  PROVE  TypeOK' /\ RingInv'
  <1>1. pcd_semaphore' \in Nat
    BY DEF TypeOK, LookAgain, Signal, Signalled
  <1>2. CASE NextPart
    <2>1. frame' \in Seq(Lidars) /\ proc' \in ProcAt /\ (proc' # "pop" => frame' # <<>>)
          /\ proc' # "write"
      BY <1>2, NextPartKeeps DEF RingInv, LookAgain, Signal
    <2> QED
      BY <1>1, <2>1 DEF LookAgain, Signal, TypeOK, RingInv, RingsAreSound, WriterInPlace,
                        ReaderInPlace, pcdVars, imuVars, cfgVars, exitVars
  <1>3. CASE proc = "pushed" /\ proc' = "count" /\ UNCHANGED <<frame, data>>
    BY <1>1, <1>3 DEF LookAgain, Signal, TypeOK, ProcAt, RingInv, RingsAreSound, WriterInPlace,
                      ReaderInPlace, pcdVars, imuVars, cfgVars, exitVars
  <1> QED
    BY <1>2, <1>3 DEF LookAgain, Signal

(* The reader's own steps.                                                 *)
LEMMA ReaderKeeps ==
  ASSUME TypeOK, RingInv, PollPcd \/ WaitPcd \/ PrePop
  PROVE  TypeOK' /\ RingInv'
  <1> USE LidarAssumption DEF Lidars
  <1>1. CASE PollPcd
    <2>1. poll' \in [at : PollAt, lidar : 1 .. LidarCount + 1]
      BY <1>1 DEF PollPcd, TypeOK, PollAt, Round, Scan, Goto
    <2>2. poll'.at \in {"inner", "update"} => poll'.at = "inner" /\ poll'.lidar \in Lidars
      <3>1. poll \in [at : PollAt, lidar : 1 .. LidarCount + 1]
        BY DEF TypeOK
      <3>2. CASE poll.at = "round" /\ poll' = Round(poll)
        BY <3>1, <3>2 DEF Round, Goto
      <3>3. CASE poll.at = "scan" /\ poll' = Scan(poll, poll.lidar \in Lidars /\ QueueIsEmpty(data[poll.lidar]))
        BY <3>1, <3>3 DEF Scan, Goto
      <3> QED
        BY <1>1, <3>2, <3>3 DEF PollPcd
    <2>3. TypeOK'
      BY <1>1, <2>1 DEF PollPcd, TypeOK, pubVars, imuVars, cfgVars, exitVars
    <2> QED
      BY <1>1, <2>2, <2>3 DEF PollPcd, RingInv, RingsAreSound, WriterInPlace, ReaderInPlace,
                              pubVars
  <1>2. CASE WaitPcd
    <2>1. pcd_semaphore' \in Nat /\ poll' \in [at : PollAt, lidar : 1 .. LidarCount + 1]
      BY <1>2 DEF WaitPcd, TypeOK, PollAt
    <2>2. TypeOK'
      BY <1>2, <2>1 DEF WaitPcd, TypeOK, pubVars, imuVars, cfgVars, exitVars
    <2> QED
      BY <1>2, <2>2 DEF WaitPcd, RingInv, RingsAreSound, WriterInPlace, ReaderInPlace, pubVars
  <1>3. CASE PrePop
    <2>1. poll.lidar \in Lidars /\ poll.at = "inner"
      BY <1>3 DEF PrePop, RingInv, ReaderInPlace
    <2>2. PICK r \in Nat, u \in 0 .. Capacity : HoldsFrames(data[poll.lidar], r, u)
      BY <2>1 DEF RingInv, RingsAreSound, Sound
    <2>3. data[poll.lidar].rd_idx \in Index
      BY <2>1 DEF TypeOK, Queue
    <2>4. poll' \in [at : PollAt, lidar : 1 .. LidarCount + 1] /\ poll'.lidar = poll.lidar
      BY <1>3 DEF PrePop, TypeOK, PollAt, Goto
    <2>5. CASE QueueIsEmpty(data[poll.lidar])
      <3>1. poll'.at = "scan" /\ UNCHANGED <<pkg, data, frame, proc>>
        BY <1>3, <2>5 DEF PrePop, TypeOK, PollAt, Goto, pubVars
      <3>2. TypeOK'
        BY <1>3, <2>4, <3>1 DEF PrePop, TypeOK, imuVars, cfgVars, exitVars
      <3> QED
        BY <3>1, <3>2 DEF RingInv, RingsAreSound, WriterInPlace, ReaderInPlace
    <2>6. CASE ~QueueIsEmpty(data[poll.lidar])
      <3>1. poll'.at = "update" /\ pkg' = QueuePrePop(data[poll.lidar])
            /\ UNCHANGED <<data, frame, proc>>
        BY <1>3, <2>6 DEF PrePop, TypeOK, PollAt, Goto, pubVars
      <3>2. u \in 1 .. Capacity
        <4>1. u # 0
          BY <2>2, <2>6, RingIsMeasured
        <4> QED
          BY <4>1, WordIsLarger
      <3>3. pkg' = data[poll.lidar].rd_idx
        BY <2>2, <3>1, <3>2, PrePopReadsOldest
      <3>4. TypeOK'
        BY <1>3, <2>3, <2>4, <3>1, <3>3 DEF PrePop, TypeOK, imuVars, cfgVars, exitVars
      <3> QED
        BY <2>1, <2>4, <2>6, <3>1, <3>3, <3>4 DEF RingInv, RingsAreSound, WriterInPlace, ReaderInPlace
    <2> QED
      BY <2>5, <2>6
  <1> QED
    BY <1>1, <1>2, <1>3

(* Giving a slot back makes room for the writer.                           *)
LEMMA PopPublishKeeps ==
  ASSUME TypeOK, RingInv, PopPublish
  PROVE  TypeOK' /\ RingInv'
  <1> DEFINE l == poll.lidar
  <1>1. l \in Lidars /\ ~QueueIsEmpty(data[l])
    BY DEF PopPublish, RingInv, ReaderInPlace
  <1>2. data \in [Lidars -> Queue] /\ data[l] \in Queue
    BY <1>1 DEF TypeOK
  <1>3. PICK r \in Nat, u \in 0 .. Capacity : HoldsFrames(data[l], r, u)
    BY <1>1 DEF RingInv, RingsAreSound, Sound
  <1>4. u \in 1 .. Capacity /\ u - 1 \in 0 .. Capacity /\ r + 1 \in Nat
    BY <1>1, <1>3, RingIsMeasured, WordIsLarger
  <1>5. QueuePopUpdate(data[l]) \in Queue /\ HoldsFrames(QueuePopUpdate(data[l]), r + 1, u - 1)
    BY <1>2, <1>3, <1>4, PopKeeps
  <1>6. data' = [data EXCEPT ![l] = QueuePopUpdate(@)]
    BY DEF PopPublish
  <1>7. poll' \in [at : PollAt, lidar : 1 .. LidarCount + 1] /\ poll'.lidar = l /\ poll'.at = "inner"
    BY DEF PopPublish, TypeOK, PollAt, Goto
  <1> HIDE DEF l
  <1>8. /\ data' \in [Lidars -> Queue] /\ data'[l] = QueuePopUpdate(data[l])
        /\ \A k \in Lidars \ {l} : data'[k] = data[k]
    BY <1>1, <1>2, <1>5, <1>6
  <1>9. TypeOK'
    BY <1>7, <1>8 DEF PopPublish, TypeOK, pubVars, imuVars, cfgVars, exitVars
  <1>10. RingsAreSound'
    BY <1>4, <1>5, <1>8 DEF RingInv, RingsAreSound, Sound
  <1>11. WriterInPlace'
    <2>1. UNCHANGED <<frame, proc>>
      BY DEF PopPublish, pubVars
    <2>2. ~QueueIsFull(data'[l])
      <3>1. u - 1 # Capacity
        BY <1>4, WordIsLarger
      <3> QED
        BY <1>4, <1>5, <1>8, <3>1, RingIsMeasured
    <2>3. proc = "write" => Head(frame) \in Lidars
      BY PartsOfFrame DEF TypeOK, RingInv, WriterInPlace
    <2> QED
      BY <1>8, <2>1, <2>2, <2>3 DEF RingInv, WriterInPlace
  <1>12. ReaderInPlace'
    BY <1>1, <1>7 DEF ReaderInPlace
  <1> QED
    BY <1>9, <1>10, <1>11, <1>12 DEF RingInv

(* What the other threads do leaves the rings alone.                       *)
LEMMA RingsAlone ==
  ASSUME RingInv, UNCHANGED <<frame, proc, data, poll, pkg>>
  PROVE  RingInv'
  BY DEF RingInv, RingsAreSound, WriterInPlace, ReaderInPlace

-----------------------------------------------------------------------------
(* The other threads.                                                      *)

LEMMA ImuKeepsType ==
  ASSUME TypeOK, (\E l \in Lidars : ImuPacket(l)) \/ ImuSignal \/ PollImu
  PROVE  TypeOK'
  <1> USE LidarAssumption, BoundAssumption
  <1>1. ASSUME NEW l \in Lidars, ImuPacket(l) PROVE TypeOK'
    <2>1. imu_data' \in [Lidars -> 0 .. MaxImu] /\ sdk' \in Idle .. LidarCount
      <3>1. CASE UNCHANGED <<imu_data, sdk>>
        BY <3>1 DEF TypeOK
      <3>2. CASE /\ imu_data' = [imu_data EXCEPT ![l] = IF @ = MaxImu THEN @ ELSE @ + 1]
                 /\ sdk' = l
        <4>1. imu_data[l] \in 0 .. MaxImu /\ MaxImu \in Nat
          BY DEF TypeOK
        <4>2. (IF imu_data[l] = MaxImu THEN imu_data[l] ELSE imu_data[l] + 1) \in 0 .. MaxImu
          BY <4>1
        <4> QED
          BY <3>2, <4>2 DEF TypeOK, Lidars, Idle
      <3> QED
        BY <1>1, <3>1, <3>2 DEF ImuPacket
    <2> QED
      BY <1>1, <2>1 DEF ImuPacket, TypeOK, pcdVars, cfgVars, exitVars
  <1>2. CASE ImuSignal
    BY <1>2 DEF ImuSignal, TypeOK, Signalled, Idle, pubVars, pcdVars, cfgVars, exitVars
  <1>3. CASE PollImu
    <2>1. imu_poll' \in [at : PollAt, lidar : 1 .. LidarCount + 1]
      BY <1>3 DEF PollImu, TypeOK, PollAt, Round, Scan, Goto, Lidars
    <2>2. imu_semaphore' \in Nat
      BY <1>3 DEF PollImu, TypeOK
    <2>3. imu_data' \in [Lidars -> 0 .. MaxImu]
      <3>1. CASE UNCHANGED imu_data
        BY <3>1 DEF TypeOK
      <3>2. CASE /\ Scan(imu_poll, imu_poll.lidar \in Lidars /\ imu_data[imu_poll.lidar] = 0).at = "inner"
                 /\ imu_poll.at = "scan"
                 /\ \E left \in {imu_data[imu_poll.lidar] - 1} \cup ({imu_data[imu_poll.lidar]} \cap {MaxImu}) :
                      imu_data' = [imu_data EXCEPT ![imu_poll.lidar] = left]
        <4>1. imu_poll.lidar \in Lidars /\ imu_data[imu_poll.lidar] # 0
          BY <3>2 DEF Scan, Goto, TypeOK, PollAt, Lidars
        <4>2. imu_data[imu_poll.lidar] - 1 \in 0 .. MaxImu /\ imu_data[imu_poll.lidar] \in 0 .. MaxImu
          BY <4>1 DEF TypeOK
        <4> QED
          BY <3>2, <4>1, <4>2 DEF TypeOK
      <3> QED
        BY <1>3, <3>1, <3>2 DEF PollImu
    <2> QED
      BY <1>3, <2>1, <2>2, <2>3 DEF PollImu, TypeOK, pubVars, pcdVars, cfgVars, exitVars
  <1> QED
    BY <1>1, <1>2, <1>3

LEMMA DestroyKeepsType ==
  ASSUME TypeOK, Destroy
  PROVE  TypeOK'
  BY DEF Destroy, TypeOK, pubVars, pcdVars, imuVars, cfgVars

LEMMA InfoChangeKeeps ==
  ASSUME TypeOK, ConfigInv, NEW l \in Lidars, LidarInfoChange(l)
  PROVE  TypeOK' /\ ConfigInv'
  <1>1. map_index' \in SUBSET Lidars
    BY DEF LidarInfoChange, TypeOK
  <1>2. Options[l] \in SUBSET AllOptions
    BY DEF AllOptions
  <1>3. set_bits' = set_bits \/ set_bits' = [set_bits EXCEPT ![l] = Options[l]]
    BY DEF LidarInfoChange
  <1>4. set_bits' \in [Lidars -> SUBSET AllOptions]
    BY <1>2, <1>3 DEF TypeOK
  <1>5. TypeOK'
    BY <1>1, <1>4 DEF LidarInfoChange, TypeOK, pubVars, pcdVars, imuVars, exitVars
  <1>6. \A k \in Lidars : set_bits'[k] = set_bits[k] \/ set_bits'[k] = Options[k]
    BY <1>3 DEF TypeOK
  <1>7. UNCHANGED <<connect_state, acked>>
    BY DEF LidarInfoChange
  <1> QED
    BY <1>5, <1>6, <1>7 DEF ConfigInv, OptionsAccounted, SamplingIsConfigured

(* The last answer awaited completes the options.                          *)
LEMMA AcknowledgeKeeps ==
  ASSUME TypeOK, ConfigInv, NEW l \in Lidars, NEW o \in Options[l], Acknowledge(l, o)
  PROVE  TypeOK' /\ ConfigInv'
  <1>1. /\ o \in set_bits[l] /\ o \in AllOptions
        /\ acked' = [acked EXCEPT ![l] = @ \cup {o}]
        /\ set_bits' = [set_bits EXCEPT ![l] = @ \ {o}]
        /\ connect_state' = [connect_state EXCEPT ![l] = IF set_bits'[l] = {} THEN "Sampling" ELSE @]
    BY DEF Acknowledge, AllOptions
  <1>2. /\ set_bits \in [Lidars -> SUBSET AllOptions] /\ acked \in [Lidars -> SUBSET AllOptions]
        /\ connect_state \in [Lidars -> {"Off", "Sampling"}]
    BY DEF TypeOK
  <1>3. /\ acked' \in [Lidars -> SUBSET AllOptions] /\ set_bits' \in [Lidars -> SUBSET AllOptions]
        /\ connect_state' \in [Lidars -> {"Off", "Sampling"}]
    BY <1>1, <1>2
  <1>4. /\ acked'[l] = acked[l] \cup {o} /\ set_bits'[l] = set_bits[l] \ {o}
        /\ connect_state'[l] = IF set_bits'[l] = {} THEN "Sampling" ELSE connect_state[l]
    BY <1>1, <1>2
  <1>5. \A k \in Lidars \ {l} : /\ acked'[k] = acked[k] /\ set_bits'[k] = set_bits[k]
                                /\ connect_state'[k] = connect_state[k]
    BY <1>1, <1>2
  <1>6. TypeOK'
    BY <1>3 DEF Acknowledge, TypeOK, pubVars, pcdVars, imuVars, exitVars
  <1>7. /\ set_bits'[l] \subseteq Options[l] /\ acked'[l] \subseteq Options[l]
        /\ Options[l] \subseteq set_bits'[l] \cup acked'[l]
    BY <1>1, <1>4 DEF ConfigInv, OptionsAccounted
  <1>8. connect_state'[l] = "Sampling" => acked'[l] = Options[l]
    <2>1. CASE set_bits'[l] = {}
      BY <2>1, <1>7
    <2>2. CASE set_bits'[l] # {}
      BY <2>2, <1>1, <1>4, <1>7 DEF ConfigInv, SamplingIsConfigured
    <2> QED
      BY <2>1, <2>2
  <1>9. OptionsAccounted'
    <2> SUFFICES ASSUME NEW k \in Lidars
                 PROVE  /\ set_bits'[k] \subseteq Options[k] /\ acked'[k] \subseteq Options[k]
                        /\ \/ set_bits'[k] = {} /\ acked'[k] = {}
                           \/ Options[k] \subseteq set_bits'[k] \cup acked'[k]
      BY DEF OptionsAccounted
    <2>1. CASE k = l
      BY <2>1, <1>7
    <2>2. CASE k # l
      BY <2>2, <1>5 DEF ConfigInv, OptionsAccounted
    <2> QED
      BY <2>1, <2>2
  <1>10. SamplingIsConfigured'
    BY <1>5, <1>8 DEF ConfigInv, SamplingIsConfigured
  <1> QED
    BY <1>6, <1>9, <1>10 DEF ConfigInv

LEMMA ConfigAlone ==
  ASSUME ConfigInv, UNCHANGED cfgVars
  PROVE  ConfigInv'
  BY DEF ConfigInv, OptionsAccounted, SamplingIsConfigured, cfgVars

-----------------------------------------------------------------------------
(* Every step keeps the invariant.                                         *)

LEMMA StepKeeps ==
  ASSUME Inv, [Next]_vars
  PROVE  Inv'
  <1> USE DEF Inv
  <1>1. ASSUME NEW l \in Lidars, ImuPacket(l) PROVE Inv'
    <2>1. TypeOK'
      BY <1>1, ImuKeepsType
    <2> QED
      BY <1>1, <2>1, RingsAlone, ConfigAlone DEF ImuPacket, pcdVars
  <1>2. ASSUME NEW l \in Lidars, LidarInfoChange(l) PROVE Inv'
    <2>1. TypeOK' /\ ConfigInv'
      BY <1>2, InfoChangeKeeps
    <2> QED
      BY <1>2, <2>1, RingsAlone DEF LidarInfoChange, pubVars, pcdVars
  <1>3. ASSUME NEW l \in Lidars, NEW o \in Options[l], Acknowledge(l, o) PROVE Inv'
    <2>1. TypeOK' /\ ConfigInv'
      BY <1>3, AcknowledgeKeeps
    <2> QED
      BY <1>3, <2>1, RingsAlone DEF Acknowledge, pubVars, pcdVars
  <1>4. CASE ImuSignal \/ PollImu
    <2>1. TypeOK'
      BY <1>4, ImuKeepsType
    <2> QED
      BY <1>4, <2>1, RingsAlone, ConfigAlone DEF ImuSignal, PollImu, pubVars, pcdVars
  <1>5. CASE Process
    <2>1. ASSUME NEW l \in Lidars, NEW others \in SUBSET Lidars, BuildFrame(l, others)
          PROVE  TypeOK' /\ RingInv'
      BY <2>1, BuildFrameKeeps
    <2>2. ASSUME Store PROVE TypeOK' /\ RingInv'
      BY <2>2, StorePartKeeps, PushPartKeeps, SignalKeeps DEF Store
    <2>3. UNCHANGED cfgVars
      BY <1>5 DEF Process, Store, BuildFrame, StorePart, PushPart, LookAgain, Signal
    <2> QED
      BY <1>5, <2>1, <2>2, <2>3, ConfigAlone DEF Process
  <1>6. CASE PollPoints
    <2>1. TypeOK' /\ RingInv'
      BY <1>6, ReaderKeeps, PopPublishKeeps DEF PollPoints
    <2>2. UNCHANGED cfgVars
      BY <1>6 DEF PollPoints, PollPcd, WaitPcd, PrePop, PopPublish
    <2> QED
      BY <2>1, <2>2, ConfigAlone
  <1>7. CASE Destroy
    <2>1. TypeOK'
      BY <1>7, DestroyKeepsType
    <2> QED
      BY <1>7, <2>1, RingsAlone, ConfigAlone DEF Destroy, pubVars, pcdVars
  <1>8. CASE UNCHANGED vars
    <2>1. TypeOK'
      BY <1>8 DEF vars, TypeOK, pubVars, pcdVars, imuVars, cfgVars, exitVars
    <2> QED
      BY <1>8, <2>1, RingsAlone, ConfigAlone DEF vars, pubVars, pcdVars
  <1> QED
    BY <1>1, <1>2, <1>3, <1>4, <1>5, <1>6, <1>7, <1>8 DEF Next, SdkNext

-----------------------------------------------------------------------------
(* Every reachable state satisfies the invariant: the rings of                 *)
(* livox_ros_driver2/src/comm/ldq.cpp stay sound, and the options of           *)
(* livox_lidar_callback.cpp accounted for.                                     *)
THEOREM InvariantHolds == Spec => []Inv
  <1>1. Init => Inv
    BY InitEstablishes
  <1>2. Inv /\ [Next]_vars => Inv'
    BY StepKeeps
  <1> QED
    BY <1>1, <1>2, PTL DEF Spec

(* The state keeps its types, whatever the threads of the driver do: above     *)
(* all, no index leaves the word and no slot holds anything but a frame or a   *)
(* torn one.                                                                   *)
THEOREM TypeCorrect == Spec => []TypeOK
  <1>1. Inv => TypeOK
    BY DEF Inv
  <1> QED
    BY <1>1, InvariantHolds, PTL

(* The frame being copied out in PublishPointcloud2 (lddc.cpp) is whole and    *)
(* the oldest one not published, for every size of the ring and every place    *)
(* where the indexes of ldq.cpp wrap around, although the two threads share    *)
(* no lock.                                                                    *)
THEOREM FramesAreIntact == Spec => []FrameIsIntact
  <1>1. Inv => FrameIsIntact
    <2> SUFFICES ASSUME Inv, poll.at = "update"
                 PROVE  /\ ~QueueIsEmpty(data[poll.lidar])
                        /\ pkg = data[poll.lidar].rd_idx
                        /\ QueuePrePop(data[poll.lidar]) = pkg
      BY DEF FrameIsIntact
    <2>1. /\ poll.lidar \in Lidars /\ ~QueueIsEmpty(data[poll.lidar])
          /\ pkg = data[poll.lidar].rd_idx
      BY DEF Inv, RingInv, ReaderInPlace
    <2>2. PICK r \in Nat, u \in 0 .. Capacity : HoldsFrames(data[poll.lidar], r, u)
      BY <2>1 DEF Inv, RingInv, RingsAreSound, Sound
    <2>3. u # 0
      BY <2>1, <2>2, RingIsMeasured
    <2>4. u \in 1 .. Capacity
      BY <2>3, WordIsLarger
    <2> QED
      BY <2>1, <2>2, <2>4, PrePopReadsOldest
  <1> QED
    BY <1>1, InvariantHolds, PTL

(* A lidar samples, and so its data is published, only after it acknowledged   *)
(* every option of its configuration (livox_lidar_callback.cpp:58-90), for any *)
(* number of lidars and options and any order of answers and announcements.    *)
THEOREM OnlyConfiguredSample == Spec => []SamplingIsConfigured
  <1>1. Inv => SamplingIsConfigured
    BY DEF Inv, ConfigInv
  <1> QED
    BY <1>1, InvariantHolds, PTL
=============================================================================
