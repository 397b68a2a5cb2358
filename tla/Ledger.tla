------------------------------- MODULE Ledger -------------------------------
(***************************************************************************)
(* What an inventory promises whoever reserves and releases: a ledger that *)
(* grants and redeems in one step each, grants only what is there, redeems *)
(* each receipt once and in full, and never meets an overflow. Its holdings*)
(* are replaced at most once, by a restore; one that comes while the       *)
(* listener is between a check and its update ends the promise.            *)
(***************************************************************************)
EXTENDS Holdings

VARIABLES
  stock, reserved,
  open,      \* the listener has started
  restored,  \* the restore was applied
  broken     \* it came between a check and its update

vars == <<stock, reserved, open, restored, broken>>

Init ==
  /\ stock = [n \in Names |-> Absent]
  /\ reserved = [i \in ReceiptIds |-> NoReceipt]
  /\ ~open /\ ~restored /\ ~broken

Put(n, a) ==
  /\ ~open /\ stock[n] = Absent
  /\ stock' = [stock EXCEPT ![n] = a]
  /\ UNCHANGED <<reserved, open>>

Open == ~open /\ open' /\ UNCHANGED <<stock, reserved>>

Grant(r, i) ==
  /\ open
  /\ \A n \in DOMAIN r : stock[n] # Absent /\ stock[n] >= r[n]
  /\ reserved[i] = NoReceipt
  /\ stock' = [n \in Names |-> IF n \in DOMAIN r THEN stock[n] - r[n] ELSE stock[n]]
  /\ reserved' = [reserved EXCEPT ![i] = r]
  /\ UNCHANGED open

Redeem(i) ==
  /\ open
  /\ reserved[i] # NoReceipt
  /\ stock' = [n \in Names |-> IF n \in DOMAIN reserved[i] THEN stock[n] + reserved[i][n]
                                                           ELSE stock[n]]
  /\ reserved' = [reserved EXCEPT ![i] = NoReceipt]
  /\ UNCHANGED open

\* Any sound holdings may have been stored.
Restore ==
  /\ ~restored /\ restored'
  /\ Sound([stock |-> stock', reserved |-> reserved'])
  /\ broken' \in BOOLEAN
  /\ UNCHANGED open

Step ==
  \/ \E n \in Names, a \in Amounts : Put(n, a)
  \/ Open
  \/ \E r \in Requests, i \in ReceiptIds : Grant(r, i)
  \/ \E i \in ReceiptIds : Redeem(i)

Next ==
  \/ Restore
  \/ ~broken /\ Step /\ UNCHANGED <<restored, broken>>
  \/ broken /\ broken'

Spec == Init /\ [][Next]_vars

=============================================================================
