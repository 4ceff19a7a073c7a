------------------------------ MODULE MCLedger ------------------------------
(***************************************************************************)
(* Instances of Ledger for TLC.  Connections and items are interchangeable *)
(* in the model and in its properties.                                     *)
(***************************************************************************)
EXTENDS Ledger, TLC

Interchangeable == Permutations(Conn) \union Permutations(Item)
=============================================================================
