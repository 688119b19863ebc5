------------------------------- MODULE MCLedger -------------------------------
(***************************************************************************)
(* Two entities and the zero key in tables of four and eight.  The entities have the     *)
(* last index as home, so that probes collide and wrap around.             *)
(***************************************************************************)
EXTENDS Ledger

CONSTANTS a, b, z

MCHome == [k \in {a, b, z} |-> IF k = z THEN 0 ELSE 15]
===============================================================================
