---------------------------- MODULE MCSealRaces ----------------------------
(***************************************************************************)
(* Instances of SealRaces: two proposals share a transaction; or there is *)
(* one of each.  The threads that mark are alike, and so are those that    *)
(* import.                                                                 *)
(***************************************************************************)
EXTENDS SealRaces, TLC

CONSTANTS a, b, p, q

MCTxsIn == [x \in Proposals |-> IF x = p THEN Txs ELSE {a}]

Alike == Permutations(Markers) \cup Permutations(Importers)
============================================================================
