--------------------------- MODULE MCYieldTransfer ---------------------------
(* Model-checking instance of YieldTransfer: two deposit records, one      *)
(* transfer channel end, enough sequences for several transfers and        *)
(* retries after timeouts.                                                 *)
EXTENDS YieldTransfer

CONSTANTS d1, d2

MCRecords == {d1, d2}

MCSymmetry == Permutations(MCRecords)
====
