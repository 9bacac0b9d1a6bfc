------------------------------ MODULE ShardSet ------------------------------
(***************************************************************************)
(* What ListeningShards values promise their users: each refers to a set   *)
(* of shards, which it may share with others.  Nothing here knows about    *)
(* bytes, bits or wire formats.                                            *)
(***************************************************************************)
EXTENDS Naturals

CONSTANTS Objs,      \* the ListeningShards values in the program
          Slices,    \* the places a set can be kept in
          Shards     \* the legal shard ids

VARIABLES ref,       \* ref[o]: where the set of o is kept
          sets,      \* sets[r]: the shards kept there
          foreign    \* the places whose set another program chose

abstractVars == <<ref, sets, foreign>>

Init ==
    /\ ref = [o \in Objs |-> o]
    /\ sets = [r \in Slices |-> {}]
    /\ foreign = {}

\* Add one shard, for everyone who shares the set.
Add(o, s) ==
    /\ sets' = [sets EXCEPT ![ref[o]] = @ \cup {s}]
    /\ UNCHANGED <<ref, foreign>>

\* Remove one shard, for everyone who shares the set.
Remove(o, s) ==
    /\ sets' = [sets EXCEPT ![ref[o]] = @ \ {s}]
    /\ UNCHANGED <<ref, foreign>>

\* Two values have one set from now on.
Share(o, p) ==
    /\ ref' = [ref EXCEPT ![o] = ref[p]]
    /\ UNCHANGED <<sets, foreign>>

\* o gets the set kept at r, where no other value keeps its own.
Place(o, r, strange) ==
    /\ r \notin {ref[p] : p \in Objs \ {o}}
    /\ ref' = [ref EXCEPT ![o] = r]
    /\ foreign' = IF strange THEN foreign \cup {r} ELSE foreign \ {r}

\* A set of its own, empty.
Fresh(o) == \E r \in Slices : /\ Place(o, r, FALSE)
                              /\ sets' = [sets EXCEPT ![r] = {}]

\* A set of its own with the content of another.
Copy(o, p) == \E r \in Slices : /\ Place(o, r, ref[p] \in foreign)
                                /\ sets' = [sets EXCEPT ![r] = sets[ref[p]]]

\* A set of its own with content that another program chose.
Strange(o) == \E r \in Slices : /\ Place(o, r, TRUE)
                                /\ sets'[r] \subseteq Shards
                                /\ sets' = [sets EXCEPT ![r] = sets'[r]]

Next == \E o \in Objs :
           \/ \E s \in Shards : Add(o, s) \/ Remove(o, s)
           \/ \E p \in Objs : Share(o, p) \/ Copy(o, p)
           \/ Fresh(o)
           \/ Strange(o)

Spec == Init /\ [][Next]_abstractVars
=============================================================================
