------------------------------ MODULE Holdings ------------------------------
(***************************************************************************)
(* What the two maps of an inventory (src/src/actor/inventory.rs) hold,    *)
(* resources in stock and receipts for reserved ones, and how much that is.*)
(***************************************************************************)
EXTENDS Integers, FiniteSets

CONSTANTS
  Names,          \* resource names
  Absent,         \* "the map has no entry"
  Requests,       \* requests for amounts: functions from sets of names to 0..Limit-1
  ReceiptIds,     \* the UUIDs receipts may get
  NoReceipt,      \* "no receipt with this id"
  Limit           \* 2^64 in the program

Amounts == 0..(Limit - 1)
Stocks == [Names -> Amounts \cup {Absent}]
Receipts == [ReceiptIds -> Requests \cup {NoReceipt}]
Snapshots == [stock : Stocks, reserved : Receipts]

ASSUME HoldingsAssumption ==
  /\ Limit \in Nat \ {0}
  /\ \A r \in Requests : DOMAIN r \subseteq Names /\ r \in [DOMAIN r -> Amounts]
  /\ Absent \notin Int /\ NoReceipt \notin Requests
ASSUME ReceiptIdsFinite == IsFiniteSet(ReceiptIds)

AmountIn(r, n) == IF r # NoReceipt /\ n \in DOMAIN r THEN r[n] ELSE 0
InStock(s, n) == IF s.stock[n] = Absent THEN 0 ELSE s.stock[n]

\* The units of n on receipts: amount k of receipt i has <<i, 0>> to <<i, k - 1>>.
Units(receipts, n) ==
  {u \in ReceiptIds \X Amounts : u[2] < AmountIn(receipts[u[1]], n)}
TotalIn(s, n) == InStock(s, n) + Cardinality(Units(s.reserved, n))

\* Everything can be given back: it fits a u64, and to an entry that is there.
Sound(s) ==
  /\ \A n \in Names : TotalIn(s, n) < Limit
  /\ \A i \in ReceiptIds : s.reserved[i] # NoReceipt =>
       \A n \in DOMAIN s.reserved[i] : s.stock[n] # Absent

=============================================================================
