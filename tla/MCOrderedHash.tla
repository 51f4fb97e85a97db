---------------------------- MODULE MCOrderedHash ----------------------------
(***************************************************************************)
(* The instance of OrderedHash that TLC checks: keys that share an ideal   *)
(* bucket, keys that share one only in a small table, keys whose probes    *)
(* wrap around the end of the table, and two keys with one truncated hash. *)
(***************************************************************************)
EXTENDS OrderedHash

MCKeys == 1 .. 6

MCHash == [k \in MCKeys |-> <<3, 7, 31, 0, 15, 14>>[k]]

MCRanges == {<<1, 4, 1>>, <<2, 3>>, <<5, 6, 3, 2>>}
=============================================================================
