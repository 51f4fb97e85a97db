----------------------------- MODULE OrderedMap -----------------------------
(***************************************************************************)
(* What tsl::ordered_map promises: a set of keys that remembers the order  *)
(* of insertion.  A value goes wherever its key goes, so that keys alone   *)
(* are modelled.  manager->queues is such a map, and the rotation of the   *)
(* manager is an erase followed by an insert.                              *)
(***************************************************************************)
EXTENDS Integers, SequencesExt

CONSTANTS
  Keys,
  Ranges  \* bound: the ranges of keys that are inserted at once

VARIABLE order  \* the keys, as values_container() lists them

Listed(s) == {s[i] : i \in DOMAIN s}

Position(s, k) == CHOOSE i \in DOMAIN s : s[i] = k

\* insert, emplace, try_emplace, operator[]: at the end, unless it is there.
Inserted(s, k) == IF k \in Listed(s) THEN s ELSE Append(s, k)

\* insert of a range: what s is after the first n keys of the range.
Insertions(s, range) ==
  LET upto[n \in 0 .. Len(range)] ==
        IF n = 0 THEN s ELSE Inserted(upto[n - 1], range[n])
  IN  upto

\* erase: the order of the others is preserved.
Erased(s, k) == IF k \in Listed(s) THEN RemoveAt(s, Position(s, k)) ELSE s

\* unordered_erase: the last element takes the place of the erased one.
Replaced(s, k) ==
  IF k \in Listed(s)
  THEN [i \in 1 .. Len(s) - 1 |-> IF s[i] = k THEN s[Len(s)] ELSE s[i]]
  ELSE s

-----------------------------------------------------------------------------
MapInit == order = <<>>

InsertKey(k) == order' = Inserted(order, k)

EraseKey(k) == order' = Erased(order, k)

UnorderedEraseKey(k) == order' = Replaced(order, k)

\* An insertion of a range stops where the map is full.
InsertKeys(range) ==
  \E n \in 0 .. Len(range) : order' = Insertions(order, range)[n]

\* operator= from a list
AssignKeys(range) ==
  \E n \in 0 .. Len(range) : order' = Insertions(<<>>, range)[n]

ClearMap == order' = <<>>

MapNext ==
  \/ \E k \in Keys : InsertKey(k) \/ EraseKey(k) \/ UnorderedEraseKey(k)
  \/ \E range \in Ranges : InsertKeys(range) \/ AssignKeys(range)
  \/ ClearMap

MapSpec == MapInit /\ [][MapNext]_order
=============================================================================
