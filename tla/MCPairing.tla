----------------------------- MODULE MCPairing -----------------------------
(***************************************************************************)
(* Instances of Pairing for TLC: gateways for two channels.  Users are     *)
(* interchangeable.                                                        *)
(***************************************************************************)
EXTENDS Pairing, TLC

CONSTANTS tg, sl

ServesOne == [g \in Gateway |-> IF g = tg THEN "telegram" ELSE "slack"]
Interchangeable == Permutations(User)
=============================================================================
