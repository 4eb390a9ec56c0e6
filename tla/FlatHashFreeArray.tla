-------------------------- MODULE FlatHashFreeArray --------------------------
(***************************************************************************)
(* FlatHashFreeArray of include/HFT.h: a table with one place for all keys *)
(* that agree in their low bits.                                           *)
(***************************************************************************)
EXTENDS Integers, FiniteSets

CONSTANTS
  Keys,
  Values,
  NoValue,     \* not a value
  TableSize,   \* Capacity
  MaxInserts   \* bound: the largest count_

ASSUME FlatHashAssumption ==
  /\ Keys \subseteq Nat
  /\ NoValue \notin Values
  /\ TableSize \in Nat \ {0}
  /\ MaxInserts \in Nat

VARIABLES
  entries,    \* entries_
  entryCount, \* count_
  stored,     \* history: the value last stored under each key
  repeated    \* history: insertions of a key that was there, since clear()

tableVars == <<entries, entryCount, stored, repeated>>

Index(k) == k % TableSize

TableInit ==
  /\ entries = [i \in 0..TableSize - 1 |-> [key |-> 0, value |-> NoValue, occupied |-> FALSE]]
  /\ entryCount = 0
  /\ stored = [k \in Keys |-> NoValue]
  /\ repeated = 0

\* Mutant: any key of the place is taken for the one stored.
HoldsSome(k) == entries[Index(k)].occupied
Holds(k) == entries[Index(k)].occupied /\ entries[Index(k)].key = k

\* Refused when the place is taken by another key; counted also when the key
\* was there.
InsertEntry(k, v) ==
  /\ entryCount < MaxInserts
  /\ entries[Index(k)].occupied => Holds(k)
  /\ entries' = [entries EXCEPT ![Index(k)] = [key |-> k, value |-> v, occupied |-> TRUE]]
  /\ entryCount' = entryCount + 1
  /\ stored' = [stored EXCEPT ![k] = v]
  /\ repeated' = IF stored[k] = NoValue THEN repeated ELSE repeated + 1

Find(k) == IF Holds(k) THEN entries[Index(k)].value ELSE NoValue

RemoveEntry(k) ==
  /\ Holds(k)
  /\ entries' = [entries EXCEPT ![Index(k)].occupied = FALSE]
  /\ entryCount' = entryCount - 1
  /\ stored' = [stored EXCEPT ![k] = NoValue]
  /\ UNCHANGED repeated

ClearTable ==
  /\ entries' = [i \in DOMAIN entries |-> [entries[i] EXCEPT !.occupied = FALSE]]
  /\ entryCount' = 0
  /\ stored' = [k \in Keys |-> NoValue]
  /\ repeated' = 0

TableNext ==
  \/ \E k \in Keys, v \in Values : InsertEntry(k, v)
  \/ \E k \in Keys : RemoveEntry(k)
  \/ ClearTable

TableSpec == TableInit /\ [][TableNext]_tableVars
-----------------------------------------------------------------------------
\* find returns what was last stored under a key and not removed, whatever other
\* keys of its place were stored, refused and removed in between.  size() is too
\* large by the number of insertions that replaced a value, until clear().
FindsLastStored ==
  /\ \A k \in Keys : Find(k) = stored[k]
  /\ entryCount = Cardinality({k \in Keys : stored[k] # NoValue}) + repeated
=============================================================================
