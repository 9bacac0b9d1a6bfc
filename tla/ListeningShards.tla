--------------------------- MODULE ListeningShards ---------------------------
(***************************************************************************)
(* The bit vector of shardpreftable.go: a slice of numShards/8+1 bytes in  *)
(* which bit s%8 of byte s/8 says that shard s is listened to.  A byte is  *)
(* modelled by the set of its bits that are 1; Go's truncating division,   *)
(* its conversion to an unsigned byte and the shift that falls off an      *)
(* 8-bit value are modelled by what they compute.                          *)
(*                                                                         *)
(* A value holds a reference to its slice.  fromBytes(toBytes()) makes two *)
(* values share one slice; only the network makes a copy.  The bytes a     *)
(* peer sends are not checked, and isShardSet indexes the slice unchecked: *)
(* outside it the process panics.                                          *)
(***************************************************************************)
EXTENDS Integers, FiniteSetsExt

CONSTANTS numShards,   \* main.go: 100
          Objs,        \* ListeningShards values, and messages that hold the
                       \* slice of one until they are handled
          InputIDs,    \* the shard ids (int64) callers pass in
          WireBytes,   \* byte slices that other programs put on the topic
          None

byteSize == 8

\* byteIndex is one unsigned byte wide, so the code covers 256*8 shards.
ASSUME NumShardsAssumption == numShards \in 1 .. 256 * byteSize

ASSUME InputIDsAssumption == InputIDs \subseteq Int

\* Bytes from the wire have any length and any content.
ASSUME WireBytesAssumption == \A w \in WireBytes : w \in [DOMAIN w -> SUBSET (0 .. byteSize - 1)]

ASSUME NoneAssumption == None \notin Objs \X Int

Shards == 0 .. numShards - 1
ByteIndices == 0 .. numShards \div byteSize
BitIndices == 0 .. byteSize - 1

\* The slices in memory.  One per value is enough: a slice that no value refers
\* to is garbage, and its place is used again.
Slices == Objs

VARIABLES ref,         \* ref[o]: the slice that o.shardBits refers to
          mem,         \* mem[r]: the bytes of slice r, each a set of bit indices
          foreign,     \* the slices that hold bytes from the wire's WireBytes
          panic        \* the lookup that ended the process, or None

vars == <<ref, mem, foreign, panic>>

-----------------------------------------------------------------------------
\* Go's integer division rounds towards zero, its remainder follows.
Quo(a, b) == IF a >= 0 THEN a \div b ELSE -((-a) \div b)
Rem(a, b) == a - b * Quo(a, b)

\* byte(x)
ToByte(x) == x % 256

\* The byte 1 << b: a shift by 8 or more leaves nothing.
Mask(b) == {b} \cap BitIndices

\* (mutant) the limit itself is let through
shardIDToBitIndex_Loose(id) ==
    [byteIndex |-> ToByte(Quo(id, byteSize)),
     bitIndex  |-> ToByte(Rem(id, byteSize)),
     err       |-> id > numShards]

shardIDToBitIndex(id) ==
    IF id >= numShards
      THEN [byteIndex |-> 0, bitIndex |-> 0, err |-> TRUE]
      ELSE [byteIndex |-> ToByte(Quo(id, byteSize)),
            bitIndex  |-> ToByte(Rem(id, byteSize)),
            err       |-> FALSE]

\* int(byteIndex) >= len(ls.shardBits), for an id that is not refused at once
OutOfRange(bits, id) == /\ ~shardIDToBitIndex(id).err
                        /\ shardIDToBitIndex(id).byteIndex \notin DOMAIN bits

\* The error paths shared by setShard and unsetShard.
Rejected(bits, id) == shardIDToBitIndex(id).err \/ OutOfRange(bits, id)

\* (mutant) |= written as =
setShard_Overwrites(bits, id) ==
    LET i == shardIDToBitIndex(id) IN
    IF Rejected(bits, id) THEN bits
    ELSE [bits EXCEPT ![i.byteIndex] = Mask(i.bitIndex)]

setShard(bits, id) ==
    LET i == shardIDToBitIndex(id) IN
    IF Rejected(bits, id) THEN bits
    ELSE [bits EXCEPT ![i.byteIndex] = @ \cup Mask(i.bitIndex)]

unsetShard(bits, id) ==
    LET i == shardIDToBitIndex(id) IN
    IF Rejected(bits, id) THEN bits
    ELSE [bits EXCEPT ![i.byteIndex] = @ \ Mask(i.bitIndex)]

\* The answer of a lookup that does not panic: see Lookup for the one that does.
isShardSet(bits, id) ==
    LET i == shardIDToBitIndex(id) IN
    ~Rejected(bits, id) /\ bits[i.byteIndex] \cap Mask(i.bitIndex) # {}

getShards(bits) == {s \in Shards : isShardSet(bits, s)}

\* (mutant) the byte of the last shards is forgotten
NewListeningShards_Short == [i \in 0 .. numShards \div byteSize - 1 |-> {}]

NewListeningShards == [i \in ByteIndices |-> {}]

\* (mutant) the function returns inside its loop
fromSlice_KeepsOne(bits, ids) ==
    IF ids = {} THEN bits ELSE setShard(bits, CHOOSE id \in ids : TRUE)

\* fromSlice adds the listed shards one by one and ignores their errors.
fromSlice(bits, ids) == FoldSet(LAMBDA id, acc : setShard(acc, id), bits, ids)

-----------------------------------------------------------------------------
Init ==
    /\ ref = [o \in Objs |-> o]
    /\ mem = [r \in Slices |-> NewListeningShards]
    /\ foreign = {}
    /\ panic = None

\* Both write the slice in place: every value that shares it changes.
SetShard(o, id) ==
    /\ panic = None
    /\ mem' = [mem EXCEPT ![ref[o]] = setShard(@, id)]
    /\ UNCHANGED <<ref, foreign, panic>>

UnsetShard(o, id) ==
    /\ panic = None
    /\ mem' = [mem EXCEPT ![ref[o]] = unsetShard(@, id)]
    /\ UNCHANGED <<ref, foreign, panic>>

\* o.fromBytes(p.toBytes()) inside one process, as when a node receives its own
\* announcement: the slice is shared, not copied.
FromBytes(o, p) ==
    /\ panic = None
    /\ ref' = [ref EXCEPT ![o] = ref[p]]
    /\ UNCHANGED <<mem, foreign, panic>>

\* o gets a slice that no other value refers to.
Allocate(o, bits, strange) ==
    /\ panic = None
    /\ \E r \in Slices \ {ref[p] : p \in Objs \ {o}} :
          /\ ref' = [ref EXCEPT ![o] = r]
          /\ mem' = [mem EXCEPT ![r] = bits]
          /\ foreign' = IF strange THEN foreign \cup {r} ELSE foreign \ {r}
    /\ UNCHANGED panic

\* A new value takes the place of o.
New(o) == Allocate(o, NewListeningShards, FALSE)

\* o.fromBytes of what the network delivers of p.toBytes(): a copy.
Receive(o, p) == Allocate(o, mem[ref[p]], ref[p] \in foreign)

\* o.fromBytes of bytes that no ListeningShards value produced.
ReceiveForeign(o, w) == Allocate(o, w, TRUE)

\* isShardSet, and getShards for every shard in turn, read the slice without a
\* bounds check.  A lookup inside the slice changes nothing.
Lookup(o, id) ==
    /\ panic = None
    /\ OutOfRange(mem[ref[o]], id)
    /\ panic' = <<o, id>>
    /\ UNCHANGED <<ref, mem, foreign>>

Next ==
    \E o \in Objs :
      \/ \E id \in InputIDs : SetShard(o, id) \/ UnsetShard(o, id)
      \/ \E p \in Objs : FromBytes(o, p) \/ Receive(o, p)
      \/ New(o)
      \/ \E w \in WireBytes : ReceiveForeign(o, w)
      \/ \E id \in InputIDs \cup Shards : Lookup(o, id)

Spec == Init /\ [][Next]_vars

-----------------------------------------------------------------------------
\* The bytes of the program's own values are numShards/8+1 many; bytes from the
\* wire are what they are.
TypeOK ==
    /\ ref \in [Objs -> Slices]
    /\ foreign \subseteq Slices
    /\ DOMAIN mem = Slices
    /\ \A r \in Slices :
          /\ mem[r] \in [DOMAIN mem[r] -> SUBSET BitIndices]
          /\ r \notin foreign => DOMAIN mem[r] = ByteIndices
    /\ panic \in {None} \cup (Objs \X (InputIDs \cup Shards))

\* A lookup (shardpreftable.go:68) ends the process only for an id of -8 or less
\* or on bytes that came from another program: whatever a process makes, shares,
\* copies and changes by itself, every id down to -7 stays inside the slice.
PanicsExplained ==
    panic # None => \/ ref[panic[1]] \in foreign
                    \/ panic[2] <= -byteSize

\* No sequence of setShard and unsetShard calls, negative ids included, and no
\* exchange of bytes raises one of the spare bits of the last byte: two values
\* with the same shards have the same bytes, so comparing or forwarding the bytes
\* is comparing the sets.  Bytes from other programs are excepted.
NoStrayBits ==
    \A r \in Slices \ foreign : \A i \in DOMAIN mem[r] : \A b \in mem[r][i] :
        byteSize * i + b \in Shards

\* Listing a value's shards (getShards) and rebuilding a value from the list
\* (fromSlice) gives the same bytes: the list carries everything.
RoundTrip ==
    \A r \in Slices \ foreign :
        fromSlice(NewListeningShards, getShards(mem[r])) = mem[r]

\* The bytes implement shared sets of shards: every operation changes the shards
\* listed by getShards as it would change a set, for every value that shares the
\* slice and for no other, whatever the id and whoever made the bytes.
Abstract == INSTANCE ShardSet WITH sets <- [r \in Slices |-> getShards(mem[r])]

ImplementsShardSet == Abstract!Spec
=============================================================================
