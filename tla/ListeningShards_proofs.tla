------------------------ MODULE ListeningShards_proofs ------------------------
(***************************************************************************)
(* The bit vector is a faithful representation of a set of shards, for     *)
(* every number of shards up to 2048, every set of ids, negative ones too, *)
(* every way the values share their slices and every content of the bytes  *)
(* that other programs send.                                               *)
(***************************************************************************)
EXTENDS ListeningShards, FiniteSetTheorems, WellFoundedInduction, TLAPS

-----------------------------------------------------------------------------
(* Arithmetic of shardIDToBitIndex on the ids it is meant for. *)

\* A non-negative id below the limit is sent to its own byte and its own bit.
LEMMA BitIndexInRange ==
    ASSUME NEW id \in Shards
    PROVE  LET i == shardIDToBitIndex(id) IN
           /\ i.err = FALSE
           /\ i.byteIndex = id \div 8
           /\ i.bitIndex = id % 8
           /\ i.byteIndex \in ByteIndices
           /\ i.bitIndex \in BitIndices
<1>1. /\ id \in Int /\ 0 <= id /\ id < numShards
      /\ numShards \in Int /\ numShards <= 2048
  BY NumShardsAssumption DEF Shards, byteSize
<1>2. id \div 8 \in 0 .. 255 /\ id % 8 \in 0 .. 7 /\ id - 8 * (id \div 8) = id % 8
  BY <1>1
<1>3. ToByte(Quo(id, 8)) = id \div 8 /\ ToByte(Rem(id, 8)) = id % 8
  BY <1>1, <1>2 DEF ToByte, Quo, Rem
<1>4. id \div 8 <= numShards \div 8
  BY <1>1
<1>5. id \div 8 \in ByteIndices /\ id % 8 \in BitIndices
  BY <1>1, <1>2, <1>4 DEF ByteIndices, BitIndices, byteSize
<1> QED
  BY <1>1, <1>3, <1>5 DEF shardIDToBitIndex, byteSize

\* Whatever the id, an index that is not refused is a byte's, and the bit, where
\* the shift leaves one, is one of a byte.
LEMMA BitIndexType ==
    ASSUME NEW id \in Int
    PROVE  LET i == shardIDToBitIndex(id) IN
           /\ i.err \in BOOLEAN
           /\ i.byteIndex \in 0 .. 255
           /\ i.bitIndex \in 0 .. 255
<1>1. \A x \in Int : x % 256 \in 0 .. 255
  OBVIOUS
<1>2. Quo(id, 8) \in Int /\ Rem(id, 8) \in Int
  BY DEF Quo, Rem
<1>3. ToByte(Quo(id, 8)) \in 0 .. 255 /\ ToByte(Rem(id, 8)) \in 0 .. 255
  BY <1>1, <1>2 DEF ToByte
<1> QED
  BY <1>3 DEF shardIDToBitIndex, byteSize

\* A shard is never refused by the limit, and is found in its own byte.
LEMMA RejectedShard ==
    ASSUME NEW bits, NEW s \in Shards
    PROVE  Rejected(bits, s) <=> s \div 8 \notin DOMAIN bits
BY BitIndexInRange DEF Rejected, OutOfRange

\* isShardSet looks at the bit of the shard.
LEMMA IsShardSetBit ==
    ASSUME NEW bits, NEW s \in Shards
    PROVE  isShardSet(bits, s) <=> s \div 8 \in DOMAIN bits /\ (s % 8) \in bits[s \div 8]
<1>1. Mask(s % 8) = {s % 8}
  BY BitIndexInRange DEF Mask
<1> QED
  BY <1>1, BitIndexInRange, RejectedShard DEF isShardSet

\* A byte and a bit stand for at most one shard.
LEMMA BitOfShard ==
    ASSUME NEW i \in Nat, NEW b \in BitIndices, NEW s \in Shards
    PROVE  8 * i + b = s <=> s \div 8 = i /\ s % 8 = b
<1>1. s \in Int /\ b \in 0 .. 7
  BY NumShardsAssumption DEF BitIndices, Shards, byteSize
<1> QED
  BY <1>1

-----------------------------------------------------------------------------
(* What one call does to the set of shards. *)

\* Byte slices, of any length.
IsBytes(bits) == bits \in [DOMAIN bits -> SUBSET BitIndices]

\* setShard raises at most one bit, and unsetShard clears at most one.
LEMMA OneBit ==
    ASSUME NEW bits, IsBytes(bits), NEW id \in Int
    PROVE  \/ setShard(bits, id) = bits /\ unsetShard(bits, id) = bits
           \/ LET i == shardIDToBitIndex(id) IN
              /\ i.byteIndex \in DOMAIN bits
              /\ i.byteIndex \in Nat
              /\ i.bitIndex \in BitIndices
              /\ setShard(bits, id) = [bits EXCEPT ![i.byteIndex] = @ \cup {i.bitIndex}]
              /\ unsetShard(bits, id) = [bits EXCEPT ![i.byteIndex] = @ \ {i.bitIndex}]
<1> DEFINE i == shardIDToBitIndex(id)
<1>1. CASE Rejected(bits, id)
  BY <1>1 DEF setShard, unsetShard
<1>2. CASE ~Rejected(bits, id) /\ i.bitIndex \in BitIndices
  <2>1. i.byteIndex \in DOMAIN bits /\ i.byteIndex \in Nat
    BY <1>2, BitIndexType DEF Rejected, OutOfRange
  <2>2. Mask(i.bitIndex) = {i.bitIndex}
    BY <1>2 DEF Mask
  <2> QED
    BY <1>2, <2>1, <2>2 DEF setShard, unsetShard
<1>3. CASE ~Rejected(bits, id) /\ i.bitIndex \notin BitIndices
  <2>1. i.byteIndex \in DOMAIN bits
    BY <1>3 DEF Rejected, OutOfRange
  <2>2. Mask(i.bitIndex) = {}
    BY <1>3 DEF Mask
  <2>3. /\ setShard(bits, id) = [bits EXCEPT ![i.byteIndex] = @ \cup {}]
        /\ unsetShard(bits, id) = [bits EXCEPT ![i.byteIndex] = @ \ {}]
    BY <1>3, <2>2 DEF setShard, unsetShard
  <2>4. bits[i.byteIndex] \cup {} = bits[i.byteIndex] /\ bits[i.byteIndex] \ {} = bits[i.byteIndex]
    OBVIOUS
  <2> QED
    BY <2>1, <2>3, <2>4 DEF IsBytes
<1> QED
  BY <1>1, <1>2, <1>3

\* Both keep the length of the slice.
LEMMA WritesKeepType ==
    ASSUME NEW bits, IsBytes(bits), NEW id \in Int
    PROVE  /\ IsBytes(setShard(bits, id)) /\ DOMAIN setShard(bits, id) = DOMAIN bits
           /\ IsBytes(unsetShard(bits, id)) /\ DOMAIN unsetShard(bits, id) = DOMAIN bits
<1> DEFINE i == shardIDToBitIndex(id)
<1>1. CASE setShard(bits, id) = bits /\ unsetShard(bits, id) = bits
  BY <1>1
<1>2. CASE /\ i.byteIndex \in DOMAIN bits
           /\ i.bitIndex \in BitIndices
           /\ setShard(bits, id) = [bits EXCEPT ![i.byteIndex] = @ \cup {i.bitIndex}]
           /\ unsetShard(bits, id) = [bits EXCEPT ![i.byteIndex] = @ \ {i.bitIndex}]
  <2> DEFINE k == i.byteIndex
             b == i.bitIndex
  <2> HIDE DEF k, b
  <2>1. k \in DOMAIN bits /\ b \in BitIndices
    BY <1>2 DEF k, b
  <2>2. /\ IsBytes([bits EXCEPT ![k] = @ \cup {b}])
        /\ DOMAIN [bits EXCEPT ![k] = @ \cup {b}] = DOMAIN bits
        /\ IsBytes([bits EXCEPT ![k] = @ \ {b}])
        /\ DOMAIN [bits EXCEPT ![k] = @ \ {b}] = DOMAIN bits
    BY <2>1 DEF IsBytes
  <2> QED
    BY <1>2, <2>2 DEF k, b
<1> QED
  BY <1>1, <1>2, OneBit

\* One call of setShard adds at most one shard and one of unsetShard removes at
\* most one, whatever the id and whatever the length of the slice.
LEMMA WritesAreSetWrites ==
    ASSUME NEW bits, IsBytes(bits), NEW id \in Int
    PROVE  /\ \/ getShards(setShard(bits, id)) = getShards(bits)
              \/ \E s \in Shards : getShards(setShard(bits, id)) = getShards(bits) \cup {s}
           /\ \/ getShards(unsetShard(bits, id)) = getShards(bits)
              \/ \E s \in Shards : getShards(unsetShard(bits, id)) = getShards(bits) \ {s}
<1> DEFINE i == shardIDToBitIndex(id)
           k == i.byteIndex
           b == i.bitIndex
           t == 8 * k + b
<1> HIDE DEF k, b
<1>1. CASE setShard(bits, id) = bits /\ unsetShard(bits, id) = bits
  BY <1>1
<1>2. CASE /\ k \in DOMAIN bits
           /\ k \in Nat
           /\ b \in BitIndices
           /\ setShard(bits, id) = [bits EXCEPT ![k] = @ \cup {b}]
           /\ unsetShard(bits, id) = [bits EXCEPT ![k] = @ \ {b}]
  <2>1. /\ getShards(setShard(bits, id)) = getShards(bits) \cup ({t} \cap Shards)
        /\ getShards(unsetShard(bits, id)) = getShards(bits) \ {t}
    <3> DEFINE more == setShard(bits, id)
               less == unsetShard(bits, id)
    <3>1. /\ DOMAIN more = DOMAIN bits
          /\ \A j \in DOMAIN bits : more[j] = IF j = k THEN bits[j] \cup {b} ELSE bits[j]
          /\ DOMAIN less = DOMAIN bits
          /\ \A j \in DOMAIN bits : less[j] = IF j = k THEN bits[j] \ {b} ELSE bits[j]
      BY <1>2 DEF IsBytes
    <3> HIDE DEF more, less
    <3>2. ASSUME NEW s \in Shards
          PROVE  /\ isShardSet(more, s) <=> isShardSet(bits, s) \/ s = t
                 /\ isShardSet(less, s) <=> isShardSet(bits, s) /\ s # t
      <4> DEFINE q == s \div 8
                 m == s % 8
      <4>1. s = t <=> q = k /\ m = b
        BY <1>2, BitOfShard
      <4>2. /\ isShardSet(bits, s) <=> q \in DOMAIN bits /\ m \in bits[q]
            /\ isShardSet(more, s) <=> q \in DOMAIN more /\ m \in more[q]
            /\ isShardSet(less, s) <=> q \in DOMAIN less /\ m \in less[q]
        BY IsShardSetBit
      <4>3. ASSUME NEW j \in DOMAIN bits, NEW c
            PROVE  /\ c \in more[j] <=> c \in bits[j] \/ (j = k /\ c = b)
                   /\ c \in less[j] <=> c \in bits[j] /\ ~(j = k /\ c = b)
        BY <3>1
      <4> HIDE DEF t, q, m
      <4> QED
        BY <1>2, <3>1, <4>1, <4>2, <4>3
    <3> HIDE DEF t
    <3>3. /\ getShards(more) = getShards(bits) \cup ({t} \cap Shards)
          /\ getShards(less) = getShards(bits) \ {t}
      BY <3>2 DEF getShards
    <3> QED
      BY <3>3 DEF more, less
  <2>2. getShards(bits) \subseteq Shards
    BY DEF getShards
  <2> HIDE DEF t
  <2>3. CASE t \in Shards
    <3>1. {t} \cap Shards = {t}
      BY <2>3
    <3> QED
      BY <2>1, <2>3, <3>1
  <2>4. CASE t \notin Shards
    <3>1. {t} \cap Shards = {} /\ getShards(bits) \ {t} = getShards(bits)
      BY <2>2, <2>4
    <3> QED
      BY <2>1, <3>1
  <2> QED
    BY <2>3, <2>4
<1> QED
  BY <1>1, <1>2, OneBit DEF k, b

\* For a shard inside the slice the call does exactly what its name says.
LEMMA SetShardAdds ==
    ASSUME NEW bits \in [ByteIndices -> SUBSET BitIndices], NEW id \in Shards
    PROVE  setShard(bits, id) = [bits EXCEPT ![id \div 8] = @ \cup {id % 8}]
<1>1. ~Rejected(bits, id)
  BY BitIndexInRange, RejectedShard
<1> QED
  BY <1>1, BitIndexInRange DEF setShard, Mask

-----------------------------------------------------------------------------
(* The invariants. *)

\* The assumption on the ids, for the provers.
LEMMA IdsAreInts == InputIDs \subseteq Int /\ Shards \subseteq Int
BY InputIDsAssumption, NumShardsAssumption DEF Shards, byteSize

\* A value with a slice of its own leaves the others as they are.
LEMMA AllocateType ==
    ASSUME TypeOK, NEW o \in Objs, NEW bits, IsBytes(bits), NEW strange \in BOOLEAN,
           ~strange => DOMAIN bits = ByteIndices,
           Allocate(o, bits, strange)
    PROVE  TypeOK'
<1>1. PICK r \in Slices : /\ ref' = [ref EXCEPT ![o] = r]
                          /\ mem' = [mem EXCEPT ![r] = bits]
                          /\ foreign' = IF strange THEN foreign \cup {r} ELSE foreign \ {r}
  BY DEF Allocate
<1>2. ref' \in [Objs -> Slices] /\ foreign' \subseteq Slices /\ DOMAIN mem' = Slices
  BY <1>1 DEF TypeOK
<1>3. panic' = panic
  BY DEF Allocate
<1>4. ASSUME NEW q \in Slices
      PROVE  /\ mem'[q] \in [DOMAIN mem'[q] -> SUBSET BitIndices]
             /\ q \notin foreign' => DOMAIN mem'[q] = ByteIndices
  <2>1. CASE q = r
    <3>1. mem'[q] = bits
      BY <1>1, <2>1 DEF TypeOK
    <3> QED
      BY <1>1, <2>1, <3>1 DEF IsBytes
  <2>2. CASE q # r
    <3>1. mem'[q] = mem[q] /\ (q \notin foreign' => q \notin foreign)
      BY <1>1, <2>2 DEF TypeOK
    <3> QED
      BY <3>1 DEF TypeOK
  <2> QED
    BY <2>1, <2>2
<1> QED
  BY <1>2, <1>3, <1>4 DEF TypeOK

\* Every own slice keeps its numShards/8+1 bytes, whatever ids are passed in and
\* whoever shares it: the two error paths of setShard and unsetShard are all the
\* bounds checks that writing needs.
THEOREM TypeCorrect == Spec => []TypeOK
<1>1. Init => TypeOK
  BY DEF Init, TypeOK, NewListeningShards, Slices
<1>2. TypeOK /\ [Next]_vars => TypeOK'
  <2> SUFFICES ASSUME TypeOK, [Next]_vars PROVE TypeOK'
    OBVIOUS
  <2>1. \A r \in Slices : IsBytes(mem[r])
    BY DEF TypeOK, IsBytes
  <2>2. ASSUME NEW o \in Objs, NEW id \in InputIDs, SetShard(o, id) \/ UnsetShard(o, id)
        PROVE  TypeOK'
    <3> DEFINE r == ref[o]
    <3>1. r \in Slices /\ id \in Int
      BY IdsAreInts DEF TypeOK
    <3>2. PICK bits : mem' = [mem EXCEPT ![r] = bits] /\ IsBytes(bits) /\ DOMAIN bits = DOMAIN mem[r]
      BY <2>1, <2>2, <3>1, WritesKeepType DEF SetShard, UnsetShard
    <3>3. \A q \in Slices : mem'[q] = IF q = r THEN bits ELSE mem[q]
      BY <3>1, <3>2 DEF TypeOK
    <3>4. \A q \in Slices : IsBytes(mem'[q]) /\ DOMAIN mem'[q] = DOMAIN mem[q]
      BY <2>1, <3>2, <3>3
    <3>5. DOMAIN mem' = Slices
      BY <3>2 DEF TypeOK
    <3>6. UNCHANGED <<ref, foreign, panic>>
      BY <2>2 DEF SetShard, UnsetShard
    <3> QED
      BY <3>4, <3>5, <3>6 DEF TypeOK, IsBytes
  <2>3. ASSUME NEW o \in Objs, NEW p \in Objs, FromBytes(o, p) PROVE TypeOK'
    BY <2>3 DEF FromBytes, TypeOK
  <2>4. ASSUME NEW o \in Objs, NEW p \in Objs, Receive(o, p) PROVE TypeOK'
    <3>1. ref[p] \in Slices /\ (ref[p] \in foreign) \in BOOLEAN
      BY DEF TypeOK
    <3>2. IsBytes(mem[ref[p]]) /\ (ref[p] \notin foreign => DOMAIN mem[ref[p]] = ByteIndices)
      BY <2>1, <3>1 DEF TypeOK
    <3> QED
      BY <2>4, <3>1, <3>2, AllocateType DEF Receive
  <2>5. ASSUME NEW o \in Objs, New(o) PROVE TypeOK'
    <3>1. IsBytes(NewListeningShards) /\ DOMAIN NewListeningShards = ByteIndices
      BY DEF IsBytes, NewListeningShards
    <3> QED
      BY <2>5, <3>1, AllocateType DEF New
  <2>6. ASSUME NEW o \in Objs, NEW w \in WireBytes, ReceiveForeign(o, w) PROVE TypeOK'
    <3>1. IsBytes(w)
      BY WireBytesAssumption DEF IsBytes, BitIndices
    <3> QED
      BY <2>6, <3>1, AllocateType DEF ReceiveForeign
  <2>7. ASSUME NEW o \in Objs, NEW id \in InputIDs \cup Shards, Lookup(o, id) PROVE TypeOK'
    BY <2>7 DEF Lookup, TypeOK
  <2>8. CASE UNCHANGED vars
    BY <2>8 DEF TypeOK, vars
  <2> QED
    BY <2>2, <2>3, <2>4, <2>5, <2>6, <2>7, <2>8 DEF Next
<1> QED
  BY <1>1, <1>2, PTL DEF Spec

-----------------------------------------------------------------------------
(* fromSlice: a fold of setShard over a finite set of ids. *)

\* The element the fold takes out next.
Pick(s) == CHOOSE x \in s : TRUE

\* What the fold computes for every part of ids, as the equation defines it.
FoldsFrom(bits, ids, f) ==
    f = [s \in SUBSET ids |-> IF s = {} THEN bits
                              ELSE setShard(f[s \ {Pick(s)}], Pick(s))]

\* bits with the shards among s added, all at once.
WithShards(bits, s) ==
    [i \in ByteIndices |-> bits[i] \cup {b \in BitIndices : 8 * i + b \in s \cap Shards}]

LEMMA PickIsMember ==
    ASSUME NEW s, s # {}
    PROVE  Pick(s) \in s
<1>1. \E x \in s : TRUE
  OBVIOUS
<1> QED
  BY <1>1, Zenon DEF Pick

\* Adding one more id by setShard, which does nothing to a refused one, is the
\* same whichever id it is.
LEMMA WithOneMore ==
    ASSUME NEW bits \in [ByteIndices -> SUBSET BitIndices],
           NEW s \in SUBSET Nat, NEW x \in s
    PROVE  setShard(WithShards(bits, s \ {x}), x) = WithShards(bits, s)
<1> DEFINE old == WithShards(bits, s \ {x})
           new == WithShards(bits, s)
<1>1. old \in [ByteIndices -> SUBSET BitIndices] /\ new \in [ByteIndices -> SUBSET BitIndices]
  BY DEF WithShards
<1>2. CASE x \notin Shards
  <2>1. setShard(old, x) = old
    <3>1. x >= numShards
      BY <1>2, NumShardsAssumption DEF Shards, byteSize
    <3>2. Rejected(old, x)
      BY <3>1 DEF Rejected, shardIDToBitIndex
    <3> QED
      BY <3>2 DEF setShard
  <2>2. (s \ {x}) \cap Shards = s \cap Shards
    BY <1>2
  <2> QED
    BY <2>1, <2>2 DEF WithShards
<1>3. CASE x \in Shards
  <2>1. x \div 8 \in ByteIndices /\ x % 8 \in BitIndices
    BY <1>3, BitIndexInRange
  <2>2. setShard(old, x) = [old EXCEPT ![x \div 8] = @ \cup {x % 8}]
    BY <1>1, <1>3, SetShardAdds
  <2>3. ASSUME NEW i \in ByteIndices, NEW b \in BitIndices
        PROVE  b \in new[i] <=> b \in old[i] \/ (i = x \div 8 /\ b = x % 8)
    <3>1. b \in new[i] <=> b \in bits[i] \/ 8 * i + b \in s \cap Shards
      BY DEF WithShards
    <3>2. b \in old[i] <=> b \in bits[i] \/ 8 * i + b \in (s \ {x}) \cap Shards
      BY DEF WithShards
    <3>3. 8 * i + b = x <=> (i = x \div 8 /\ b = x % 8)
      <4>1. i \in Nat
        BY NumShardsAssumption DEF ByteIndices, byteSize
      <4> QED
        BY <1>3, <4>1, BitOfShard
    <3> QED
      BY <1>3, <3>1, <3>2, <3>3
  <2>4. ASSUME NEW i \in ByteIndices
        PROVE  new[i] = [old EXCEPT ![x \div 8] = @ \cup {x % 8}][i]
    <3>1. old[i] \in SUBSET BitIndices /\ new[i] \in SUBSET BitIndices
      BY <1>1
    <3>2. CASE i = x \div 8
      <4>1. new[i] = old[i] \cup {x % 8}
        BY <2>1, <2>3, <3>1, <3>2
      <4> QED
        BY <1>1, <3>2, <4>1
    <3>3. CASE i # x \div 8
      <4>1. new[i] = old[i]
        BY <2>3, <3>1, <3>3
      <4> QED
        BY <1>1, <3>3, <4>1
    <3> QED
      BY <3>2, <3>3
  <2> QED
    BY <1>1, <2>2, <2>4
<1> QED
  BY <1>2, <1>3

\* The equation of the fold has one solution on the subsets of a finite set.
\* A smallest subset on which two solutions differ cannot be empty, and without
\* the element picked from it they agree.
LEMMA FoldIsUnique ==
    ASSUME NEW bits \in [ByteIndices -> SUBSET BitIndices],
           NEW ids \in SUBSET Nat, IsFiniteSet(ids),
           NEW f, FoldsFrom(bits, ids, f)
    PROVE  \A s \in SUBSET ids : f[s] = WithShards(bits, s)
<1> DEFINE Wrong == {s \in SUBSET ids : f[s] # WithShards(bits, s)}
<1> SUFFICES ASSUME Wrong # {} PROVE FALSE
  OBVIOUS
<1>1. IsWellFoundedOn(StrictSubsetOrdering(ids), SUBSET ids)
  BY FS_StrictSubsetOrderingWellFounded, FS_FiniteSubsetsOfFinite
<1>2. PICK s \in Wrong : \A t \in Wrong : ~(<<t, s>> \in StrictSubsetOrdering(ids))
  <2>1. Wrong \subseteq SUBSET ids
    OBVIOUS
  <2> HIDE DEF Wrong
  <2> QED
    BY <1>1, <2>1, WFMin
<1>3. f[s] = IF s = {} THEN bits ELSE setShard(f[s \ {Pick(s)}], Pick(s))
  BY DEF FoldsFrom
<1>4. CASE s = {}
  <2>1. WithShards(bits, {}) = bits
    BY DEF WithShards
  <2> QED
    BY <1>3, <1>4, <2>1
<1>5. CASE s # {}
  <2>1. PICK x \in s : x = Pick(s)
    BY <1>5, PickIsMember
  <2>2. s \ {x} \in SUBSET ids /\ s \ {x} # s
    OBVIOUS
  <2>3. <<s \ {x}, s>> \in StrictSubsetOrdering(ids)
    BY <2>2 DEF StrictSubsetOrdering
  <2>4. f[s \ {x}] = WithShards(bits, s \ {x})
    BY <1>2, <2>2, <2>3
  <2>5. setShard(WithShards(bits, s \ {x}), x) = WithShards(bits, s)
    BY WithOneMore
  <2> QED
    BY <1>3, <1>5, <2>1, <2>4, <2>5
<1> QED
  BY <1>4, <1>5

\* fromSlice adds exactly the shards among the ids, in whatever order it meets
\* them, and nothing for an id that is refused.
LEMMA FromSliceAdds ==
    ASSUME NEW bits \in [ByteIndices -> SUBSET BitIndices],
           NEW ids \in SUBSET Nat, IsFiniteSet(ids)
    PROVE  fromSlice(bits, ids) = WithShards(bits, ids)
<1> DEFINE g == [s \in SUBSET ids |-> WithShards(bits, s)]
<1>1. FoldsFrom(bits, ids, g)
  <2>1. ASSUME NEW s \in SUBSET ids
        PROVE  WithShards(bits, s) = IF s = {} THEN bits ELSE setShard(g[s \ {Pick(s)}], Pick(s))
    <3>1. CASE s = {}
      BY <3>1 DEF WithShards
    <3>2. CASE s # {}
      <4>1. PICK x \in s : x = Pick(s)
        BY <3>2, PickIsMember
      <4>2. g[s \ {x}] = WithShards(bits, s \ {x})
        OBVIOUS
      <4>3. setShard(WithShards(bits, s \ {x}), x) = WithShards(bits, s)
        BY WithOneMore
      <4> QED
        BY <3>2, <4>1, <4>2, <4>3
    <3> QED
      BY <3>1, <3>2
  <2> QED
    BY <2>1 DEF FoldsFrom
<1> DEFINE it == CHOOSE f : FoldsFrom(bits, ids, f)
<1>2. FoldsFrom(bits, ids, it)
  <2>1. \E f : FoldsFrom(bits, ids, f)
    BY <1>1
  <2> QED
    BY <2>1, Zenon
<1>3. fromSlice(bits, ids) = it[ids]
  BY DEF fromSlice, FoldSet, MapThenFoldSet, FoldsFrom, Pick
<1> HIDE DEF it
<1>4. \A s \in SUBSET ids : it[s] = WithShards(bits, s)
  BY <1>2, FoldIsUnique
<1>5. it[ids] = WithShards(bits, ids)
  BY <1>4
<1> QED
  BY <1>3, <1>5

-----------------------------------------------------------------------------
\* Every panic is explained: own slices have a byte for every id from -7 to the
\* limit.  The panic and the slice it happened on stay as they are.
THEOREM LookupsStayInside == Spec => []PanicsExplained
<1>1. Init => PanicsExplained
  BY DEF Init, PanicsExplained
<1>2. TypeOK /\ PanicsExplained /\ [Next]_vars => PanicsExplained'
  <2> SUFFICES ASSUME TypeOK, PanicsExplained, [Next]_vars PROVE PanicsExplained'
    OBVIOUS
  <2>1. CASE UNCHANGED vars
    BY <2>1 DEF PanicsExplained, vars
  <2>2. ASSUME NEW o \in Objs, NEW id \in InputIDs \cup Shards, Lookup(o, id)
        PROVE  PanicsExplained'
    <3>1. id \in Int /\ ref[o] \in Slices
      BY IdsAreInts DEF TypeOK
    <3>2. ASSUME ref[o] \notin foreign, id > -8 PROVE FALSE
      <4>1. DOMAIN mem[ref[o]] = ByteIndices
        BY <3>1, <3>2 DEF TypeOK
      <4>2. ~shardIDToBitIndex(id).err /\ shardIDToBitIndex(id).byteIndex \notin ByteIndices
        BY <2>2, <4>1 DEF Lookup, OutOfRange
      <4>3. numShards \in Int /\ numShards >= 1
        BY NumShardsAssumption DEF byteSize
      <4>4. id < numShards
        BY <3>1, <4>2, <4>3 DEF shardIDToBitIndex
      <4>5. CASE id >= 0
        <5>1. id \in Shards
          BY <3>1, <4>3, <4>4, <4>5 DEF Shards
        <5> QED
          BY <4>2, <5>1, BitIndexInRange
      <4>6. CASE id < 0
        <5>1. Quo(id, 8) = 0
          BY <3>1, <3>2, <4>6 DEF Quo
        <5>2. shardIDToBitIndex(id).byteIndex = 0
          BY <4>3, <4>4, <5>1, <3>1 DEF shardIDToBitIndex, ToByte, byteSize
        <5> QED
          BY <4>2, <4>3, <5>2 DEF ByteIndices, byteSize
      <4> QED
        BY <3>1, <4>5, <4>6
    <3>3. panic' = <<o, id>> /\ ref' = ref /\ foreign' = foreign
      BY <2>2 DEF Lookup
    <3> QED
      BY <3>1, <3>2, <3>3 DEF PanicsExplained, byteSize
  <2>3. CASE Next /\ panic' = panic
    <3>1. panic = None
      BY <2>3, Zenon DEF Next, SetShard, UnsetShard, FromBytes, Receive, New,
         ReceiveForeign, Allocate, Lookup
    <3> QED BY <2>3, <3>1 DEF PanicsExplained
  <2> QED
    BY <2>1, <2>2, <2>3 DEF Next, SetShard, UnsetShard, FromBytes, Receive, New,
       ReceiveForeign, Allocate
<1> QED
  BY <1>1, <1>2, TypeCorrect, PTL DEF Spec

-----------------------------------------------------------------------------
\* No id is wrapped around into a byte without shards.  An id of -8 or less may be
\* sent to bit 0 of any byte; where numShards is not a multiple of 8, as main.go's
\* 100 is not, that bit is a shard's in every byte.
NoSpareByte == numShards % byteSize # 0 \/ \A id \in InputIDs : id > -byteSize

\* All bits are those of shards.
Clean(bits) == \A i \in DOMAIN bits : \A b \in bits[i] : 8 * i + b \in Shards

\* setShard and unsetShard raise no spare bit.
LEMMA WritesKeepClean ==
    ASSUME NoSpareByte, NEW bits \in [ByteIndices -> SUBSET BitIndices], Clean(bits),
           NEW id \in InputIDs
    PROVE  Clean(setShard(bits, id)) /\ Clean(unsetShard(bits, id))
<1> DEFINE i == shardIDToBitIndex(id)
<1>1. id \in Int /\ IsBytes(bits)
  BY IdsAreInts DEF IsBytes
<1>2. CASE setShard(bits, id) = bits /\ unsetShard(bits, id) = bits
  BY <1>2
<1>3. CASE /\ i.byteIndex \in DOMAIN bits
           /\ i.bitIndex \in BitIndices
           /\ ~Rejected(bits, id)
           /\ setShard(bits, id) = [bits EXCEPT ![i.byteIndex] = @ \cup {i.bitIndex}]
           /\ unsetShard(bits, id) = [bits EXCEPT ![i.byteIndex] = @ \ {i.bitIndex}]
  <2>1. 8 * i.byteIndex + i.bitIndex \in Shards
    <3>1. numShards \in Int /\ numShards >= 1 /\ id < numShards
      BY <1>1, <1>3, NumShardsAssumption DEF Rejected, shardIDToBitIndex, byteSize
    <3>2. CASE id >= 0
      <4>1. id \in Shards
        BY <1>1, <3>1, <3>2 DEF Shards
      <4>2. i.byteIndex = id \div 8 /\ i.bitIndex = id % 8
        BY <4>1, BitIndexInRange
      <4>3. 8 * (id \div 8) + (id % 8) = id
        BY <1>1
      <4> QED
        BY <4>1, <4>2, <4>3
    <3>3. CASE id < 0
      <4> DEFINE q == (-id) \div 8
                 m == (-id) % 8
      <4>1. /\ q \in Nat /\ m \in 0 .. 7
            /\ -id = 8 * q + m
        BY <1>1, <3>3
      <4> HIDE DEF q, m
      <4>2. Quo(id, 8) = -q /\ Rem(id, 8) = -m
        BY <1>1, <3>3, <4>1 DEF Quo, Rem, q
      <4>3. i.bitIndex = (-m) % 256 /\ i.byteIndex = (-q) % 256
        BY <3>1, <1>1, <4>2 DEF shardIDToBitIndex, ToByte, byteSize
      <4>4. m = 0
        BY <1>3, <4>1, <4>3 DEF BitIndices, byteSize
      <4>5. i.bitIndex = 0
        BY <4>3, <4>4
      <4>6. i.byteIndex \in Int /\ 0 <= i.byteIndex /\ i.byteIndex <= numShards \div 8
        BY <1>3, <3>1 DEF ByteIndices, byteSize
      <4>7. id <= -8
        BY <1>1, <3>3, <4>1, <4>4
      <4>8. numShards % 8 # 0
        BY <1>1, <4>7 DEF NoSpareByte, byteSize
      <4>9. 8 * i.byteIndex < numShards
        BY <3>1, <4>6, <4>8
      <4> QED
        BY <3>1, <4>5, <4>6, <4>9 DEF Shards
    <3> QED
      BY <1>1, <3>2, <3>3
  <2> DEFINE k == i.byteIndex
             b == i.bitIndex
  <2>2. k \in DOMAIN bits /\ 8 * k + b \in Shards
    BY <1>3, <2>1
  <2> HIDE DEF k, b
  <2>3. Clean([bits EXCEPT ![k] = @ \cup {b}]) /\ Clean([bits EXCEPT ![k] = @ \ {b}])
    BY <2>2 DEF Clean
  <2> QED
    BY <1>3, <2>3 DEF k, b
<1>4. CASE Rejected(bits, id)
  BY <1>4 DEF setShard, unsetShard
<1> QED
  BY <1>1, <1>2, <1>3, <1>4, OneBit

\* No history of calls raises a spare bit of the last byte of an own slice, with
\* negative ids too, so equal sets have equal bytes.
THEOREM SpareBitsStayClear == NoSpareByte => (Spec => []NoStrayBits)
<1> SUFFICES ASSUME NoSpareByte PROVE Spec => []NoStrayBits
  OBVIOUS
<1>1. Init => NoStrayBits
  BY DEF Init, NoStrayBits, NewListeningShards
<1>2. TypeOK /\ NoStrayBits /\ [Next]_vars => NoStrayBits'
  <2> SUFFICES ASSUME TypeOK, NoStrayBits, [Next]_vars PROVE NoStrayBits'
    OBVIOUS
  <2>1. \A r \in Slices \ foreign : Clean(mem[r]) /\ mem[r] \in [ByteIndices -> SUBSET BitIndices]
    BY DEF TypeOK, NoStrayBits, Clean, byteSize
  <2>2. SUFFICES \A r \in Slices \ foreign' : Clean(mem'[r])
    BY DEF NoStrayBits, Clean, byteSize
  <2>3. ASSUME NEW o \in Objs, NEW id \in InputIDs, SetShard(o, id) \/ UnsetShard(o, id)
        PROVE  \A r \in Slices \ foreign' : Clean(mem'[r])
    <3>1. foreign' = foreign /\ ref[o] \in Slices
      BY <2>3 DEF SetShard, UnsetShard, TypeOK
    <3>2. \A q \in Slices : \/ mem'[q] = mem[q]
                            \/ mem'[q] = setShard(mem[q], id)
                            \/ mem'[q] = unsetShard(mem[q], id)
      BY <2>3, <3>1 DEF SetShard, UnsetShard, TypeOK
    <3> QED
      BY <2>1, <3>1, <3>2, WritesKeepClean
  <2>4. ASSUME NEW o \in Objs, NEW bits, NEW strange \in BOOLEAN, Clean(bits) \/ strange,
               Allocate(o, bits, strange)
        PROVE  \A r \in Slices \ foreign' : Clean(mem'[r])
    <3>1. PICK r \in Slices : /\ mem' = [mem EXCEPT ![r] = bits]
                              /\ foreign' = IF strange THEN foreign \cup {r} ELSE foreign \ {r}
      BY <2>4 DEF Allocate
    <3>2. \A q \in Slices : mem'[q] = IF q = r THEN bits ELSE mem[q]
      BY <3>1 DEF TypeOK
    <3> QED
      BY <2>1, <2>4, <3>1, <3>2
  <2>5. ASSUME NEW o \in Objs, NEW p \in Objs, Receive(o, p)
        PROVE  \A r \in Slices \ foreign' : Clean(mem'[r])
    <3>1. ref[p] \in Slices
      BY DEF TypeOK
    <3>2. CASE ref[p] \in foreign
      <4>1. Allocate(o, mem[ref[p]], TRUE)
        BY <2>5, <3>2 DEF Receive, Allocate
      <4> QED
        BY <2>4, <4>1
    <3>3. CASE ref[p] \notin foreign
      <4>1. Allocate(o, mem[ref[p]], FALSE) /\ Clean(mem[ref[p]])
        BY <2>1, <2>5, <3>1, <3>3 DEF Receive, Allocate
      <4> QED
        BY <2>4, <4>1
    <3> QED
      BY <3>2, <3>3
  <2>6. ASSUME NEW o \in Objs, New(o)
        PROVE  \A r \in Slices \ foreign' : Clean(mem'[r])
    <3>1. Clean(NewListeningShards)
      BY DEF Clean, NewListeningShards
    <3> QED
      BY <2>4, <2>6, <3>1 DEF New
  <2>7. ASSUME NEW o \in Objs, NEW w \in WireBytes, ReceiveForeign(o, w)
        PROVE  \A r \in Slices \ foreign' : Clean(mem'[r])
    BY <2>4, <2>7 DEF ReceiveForeign
  <2>8. CASE UNCHANGED <<mem, foreign>>
    BY <2>1, <2>8
  <2> QED
    BY <2>3, <2>5, <2>6, <2>7, <2>8 DEF Next, FromBytes, Lookup, vars
<1> QED
  BY <1>1, <1>2, TypeCorrect, PTL DEF Spec

\* For every history of calls, the list getShards makes of an own value determines
\* its bytes: fromSlice rebuilds them.  The proof is an induction over the listed
\* shards, and it needs the spare bits to be clear.
THEOREM ListCarriesAll == NoSpareByte => (Spec => []RoundTrip)
<1> SUFFICES ASSUME NoSpareByte PROVE Spec => []RoundTrip
  OBVIOUS
<1>1. TypeOK /\ NoStrayBits => RoundTrip
  <2> SUFFICES ASSUME TypeOK, NoStrayBits, NEW o \in Slices \ foreign
               PROVE  fromSlice(NewListeningShards, getShards(mem[o])) = mem[o]
    BY DEF RoundTrip
  <2> DEFINE bits == mem[o]
  <2>1. bits \in [ByteIndices -> SUBSET BitIndices]
    BY DEF TypeOK
  <2>2. getShards(bits) \in SUBSET Nat /\ IsFiniteSet(getShards(bits))
    <3>1. IsFiniteSet(Shards) /\ Shards \subseteq Nat
      BY NumShardsAssumption, FS_Interval DEF Shards, byteSize
    <3>2. getShards(bits) \subseteq Shards
      BY DEF getShards
    <3> QED
      BY <3>1, <3>2, FS_Subset
  <2>3. NewListeningShards \in [ByteIndices -> SUBSET BitIndices]
    BY DEF NewListeningShards
  <2>4. fromSlice(NewListeningShards, getShards(bits)) = WithShards(NewListeningShards, getShards(bits))
    BY <2>2, <2>3, FromSliceAdds
  <2>5. ASSUME NEW i \in ByteIndices
        PROVE  WithShards(NewListeningShards, getShards(bits))[i] = bits[i]
    <3>1. ASSUME NEW b \in BitIndices
          PROVE  8 * i + b \in getShards(bits) \cap Shards <=> b \in bits[i]
      <4>1. b \in bits[i] => 8 * i + b \in Shards
        BY <2>1 DEF NoStrayBits, byteSize
      <4>2. ASSUME 8 * i + b \in Shards
            PROVE  8 * i + b \in getShards(bits) <=> b \in bits[i]
        <5>1. i = (8 * i + b) \div 8 /\ b = (8 * i + b) % 8
          <6>1. i \in Nat
            BY NumShardsAssumption DEF ByteIndices, byteSize
          <6> QED
            BY <4>2, <6>1, BitOfShard
        <5> QED
          BY <2>1, <4>2, <5>1, IsShardSetBit DEF getShards
      <4> QED
        BY <4>1, <4>2
    <3>2. bits[i] \subseteq BitIndices
      BY <2>1
    <3> QED
      BY <3>1, <3>2 DEF WithShards, NewListeningShards
  <2>6. DOMAIN WithShards(NewListeningShards, getShards(bits)) = ByteIndices
    BY DEF WithShards
  <2> HIDE DEF bits
  <2>7. WithShards(NewListeningShards, getShards(bits)) = bits
    BY <2>1, <2>5, <2>6 DEF WithShards
  <2> QED
    BY <2>4, <2>7 DEF bits
<1> QED
  BY <1>1, TypeCorrect, SpareBitsStayClear, PTL

-----------------------------------------------------------------------------
(* The bytes as shared sets. *)

\* The mapped variable and what a step does to it.
Listed == [r \in Slices |-> getShards(mem[r])]

\* Writing a slice writes one place of the mapped variable.
LEMMA ListedExcept ==
    ASSUME TypeOK, NEW r \in Slices, NEW bits, mem' = [mem EXCEPT ![r] = bits]
    PROVE  Listed' = [Listed EXCEPT ![r] = getShards(bits)]
<1>1. \A q \in Slices : mem'[q] = IF q = r THEN bits ELSE mem[q]
  BY DEF TypeOK
<1>2. Listed' = [q \in Slices |-> getShards(mem'[q])]
  BY DEF Listed
<1>3. \A q \in Slices : getShards(mem'[q]) = IF q = r THEN getShards(bits) ELSE getShards(mem[q])
  BY <1>1
<1> QED
  BY <1>2, <1>3 DEF Listed

\* The bytes implement shared sets of shards, for all ids, all ways of sharing and
\* all bytes from the wire: setShard adds at most one shard to the one set its
\* slice stands for, unsetShard removes at most one, fromBytes makes two values
\* share one set, and an announcement carries the announcer's set.
THEOREM BitsImplementShardSet == Spec => ImplementsShardSet
<1>1. Init => Abstract!Init
  <2>1. ASSUME NEW s \in Shards PROVE ~isShardSet(NewListeningShards, s)
    BY IsShardSetBit, BitIndexInRange DEF NewListeningShards
  <2>2. getShards(NewListeningShards) = {}
    BY <2>1 DEF getShards
  <2> QED
    BY <2>2 DEF Init, Abstract!Init
<1>2. TypeOK /\ [Next]_vars => [Abstract!Next]_<<ref, Listed, foreign>>
  <2> SUFFICES ASSUME TypeOK, [Next]_vars
               PROVE  Abstract!Next \/ UNCHANGED <<ref, Listed, foreign>>
    OBVIOUS
  <2>1. \A r \in Slices : IsBytes(mem[r])
    BY DEF TypeOK, IsBytes
  <2>2. ASSUME NEW o \in Objs, NEW id \in InputIDs, SetShard(o, id)
        PROVE  Abstract!Next \/ UNCHANGED <<ref, Listed, foreign>>
    <3> DEFINE old == mem[ref[o]]
               new == setShard(old, id)
    <3>1. ref[o] \in Slices /\ id \in Int /\ IsBytes(old)
      BY <2>1, IdsAreInts DEF TypeOK
    <3>2. mem' = [mem EXCEPT ![ref[o]] = new] /\ UNCHANGED <<ref, foreign>>
      BY <2>2 DEF SetShard
    <3>3. \/ getShards(new) = getShards(old)
          \/ \E s \in Shards : getShards(new) = getShards(old) \cup {s}
      BY <3>1, WritesAreSetWrites
    <3> HIDE DEF new
    <3>4. Listed' = [Listed EXCEPT ![ref[o]] = getShards(new)]
      BY <3>1, <3>2, ListedExcept
    <3>5. Listed[ref[o]] = getShards(old)
      BY <3>1 DEF Listed
    <3> HIDE DEF old
    <3>6. CASE getShards(new) = getShards(old)
      BY <3>1, <3>2, <3>4, <3>5, <3>6 DEF Listed
    <3>7. ASSUME NEW s \in Shards, getShards(new) = getShards(old) \cup {s}
          PROVE  Abstract!Next
      <4>1. Listed' = [Listed EXCEPT ![ref[o]] = @ \cup {s}]
        BY <3>4, <3>5, <3>7
      <4>2. Abstract!Add(o, s)
        BY <3>2, <4>1 DEF Abstract!Add, Listed
      <4> QED
        BY <4>2 DEF Abstract!Next
    <3> QED
      BY <3>3, <3>6, <3>7
  <2>3. ASSUME NEW o \in Objs, NEW id \in InputIDs, UnsetShard(o, id)
        PROVE  Abstract!Next \/ UNCHANGED <<ref, Listed, foreign>>
    <3> DEFINE old == mem[ref[o]]
               new == unsetShard(old, id)
    <3>1. ref[o] \in Slices /\ id \in Int /\ IsBytes(old)
      BY <2>1, IdsAreInts DEF TypeOK
    <3>2. mem' = [mem EXCEPT ![ref[o]] = new] /\ UNCHANGED <<ref, foreign>>
      BY <2>3 DEF UnsetShard
    <3>3. \/ getShards(new) = getShards(old)
          \/ \E s \in Shards : getShards(new) = getShards(old) \ {s}
      BY <3>1, WritesAreSetWrites
    <3> HIDE DEF new
    <3>4. Listed' = [Listed EXCEPT ![ref[o]] = getShards(new)]
      BY <3>1, <3>2, ListedExcept
    <3>5. Listed[ref[o]] = getShards(old)
      BY <3>1 DEF Listed
    <3> HIDE DEF old
    <3>6. CASE getShards(new) = getShards(old)
      BY <3>1, <3>2, <3>4, <3>5, <3>6 DEF Listed
    <3>7. ASSUME NEW s \in Shards, getShards(new) = getShards(old) \ {s}
          PROVE  Abstract!Next
      <4>1. Listed' = [Listed EXCEPT ![ref[o]] = @ \ {s}]
        BY <3>4, <3>5, <3>7
      <4>2. Abstract!Remove(o, s)
        BY <3>2, <4>1 DEF Abstract!Remove, Listed
      <4> QED
        BY <4>2 DEF Abstract!Next
    <3> QED
      BY <3>3, <3>6, <3>7
  <2>4. ASSUME NEW o \in Objs, NEW p \in Objs, FromBytes(o, p)
        PROVE  Abstract!Next
    <3>1. Abstract!Share(o, p)
      BY <2>4 DEF FromBytes, Abstract!Share
    <3> QED
      BY <3>1 DEF Abstract!Next
  <2>5. ASSUME NEW o \in Objs, NEW bits, NEW strange \in BOOLEAN, Allocate(o, bits, strange)
        PROVE  \E r \in Slices : /\ Abstract!Place(o, r, strange)
                                 /\ Listed' = [Listed EXCEPT ![r] = getShards(bits)]
    <3>1. PICK r \in Slices \ {ref[p] : p \in Objs \ {o}} :
             /\ ref' = [ref EXCEPT ![o] = r]
             /\ mem' = [mem EXCEPT ![r] = bits]
             /\ foreign' = IF strange THEN foreign \cup {r} ELSE foreign \ {r}
      BY <2>5 DEF Allocate
    <3>2. Abstract!Place(o, r, strange)
      BY <3>1 DEF Abstract!Place
    <3>3. Listed' = [Listed EXCEPT ![r] = getShards(bits)]
      BY <3>1, ListedExcept
    <3> QED
      BY <3>2, <3>3
  <2>6. ASSUME NEW o \in Objs, NEW p \in Objs, Receive(o, p)
        PROVE  Abstract!Next
    <3>1. PICK r \in Slices : /\ Abstract!Place(o, r, ref[p] \in foreign)
                              /\ Listed' = [Listed EXCEPT ![r] = getShards(mem[ref[p]])]
      <4>1. CASE ref[p] \in foreign
        <5>1. Allocate(o, mem[ref[p]], TRUE)
          BY <2>6, <4>1 DEF Receive, Allocate
        <5>2. PICK r \in Slices : /\ Abstract!Place(o, r, TRUE)
                                  /\ Listed' = [Listed EXCEPT ![r] = getShards(mem[ref[p]])]
          BY <2>5, <5>1
        <5> QED
          BY <4>1, <5>2 DEF Abstract!Place
      <4>2. CASE ref[p] \notin foreign
        <5>1. Allocate(o, mem[ref[p]], FALSE)
          BY <2>6, <4>2 DEF Receive, Allocate
        <5>2. PICK r \in Slices : /\ Abstract!Place(o, r, FALSE)
                                  /\ Listed' = [Listed EXCEPT ![r] = getShards(mem[ref[p]])]
          BY <2>5, <5>1
        <5> QED
          BY <4>2, <5>2 DEF Abstract!Place
      <4> QED
        BY <4>1, <4>2
    <3>2. Listed[ref[p]] = getShards(mem[ref[p]])
      BY DEF TypeOK, Listed
    <3>3. Abstract!Copy(o, p)
      BY <3>1, <3>2 DEF Abstract!Copy, Listed
    <3> QED
      BY <3>3 DEF Abstract!Next
  <2>7. ASSUME NEW o \in Objs, New(o)
        PROVE  Abstract!Next
    <3>1. PICK r \in Slices : /\ Abstract!Place(o, r, FALSE)
                              /\ Listed' = [Listed EXCEPT ![r] = getShards(NewListeningShards)]
      BY <2>5, <2>7 DEF New
    <3>2. ASSUME NEW s \in Shards PROVE ~isShardSet(NewListeningShards, s)
      BY IsShardSetBit, BitIndexInRange DEF NewListeningShards
    <3>3. getShards(NewListeningShards) = {}
      BY <3>2 DEF getShards
    <3>4. Abstract!Fresh(o)
      BY <3>1, <3>3 DEF Abstract!Fresh, Listed
    <3> QED
      BY <3>4 DEF Abstract!Next
  <2>8. ASSUME NEW o \in Objs, NEW w \in WireBytes, ReceiveForeign(o, w)
        PROVE  Abstract!Next
    <3>1. PICK r \in Slices : /\ Abstract!Place(o, r, TRUE)
                              /\ Listed' = [Listed EXCEPT ![r] = getShards(w)]
      BY <2>5, <2>8 DEF ReceiveForeign
    <3>2. Listed'[r] = getShards(w) /\ getShards(w) \subseteq Shards
      BY <3>1 DEF getShards, Listed
    <3>3. Abstract!Strange(o)
      BY <3>1, <3>2 DEF Abstract!Strange, Listed
    <3> QED
      BY <3>3 DEF Abstract!Next
  <2>9. CASE UNCHANGED <<ref, mem, foreign>>
    BY <2>9 DEF Listed
  <2> QED
    BY <2>2, <2>3, <2>4, <2>6, <2>7, <2>8, <2>9 DEF Next, Lookup, vars
<1> QED
  BY <1>1, <1>2, TypeCorrect, PTL DEF Spec, ImplementsShardSet, Abstract!Spec, Abstract!abstractVars, Listed
=============================================================================
