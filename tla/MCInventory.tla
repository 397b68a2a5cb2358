---------------------------- MODULE MCInventory -----------------------------
(***************************************************************************)
(* A small instance of Inventory: two resources, a request for both and a  *)
(* request for one of them (that one only for the violated properties),    *)
(* an inventory that was never stored and one stored with a receipt from   *)
(* its earlier life.                                                       *)
(***************************************************************************)
EXTENDS Inventory

CONSTANTS wood, iron, old, r1, r2

MCRequests == {[n \in {iron} |-> 1], [n \in {wood, iron} |-> 1]}

MCOneRequest == {[n \in {iron} |-> 1]}

MCStored ==
  {NoSnapshot,
   [stock |-> [n \in Names |-> IF n = wood THEN 1 ELSE 0],
    reserved |-> [i \in ReceiptIds |-> IF i = old THEN [n \in {iron} |-> 1] ELSE NoReceipt]]}

=============================================================================
