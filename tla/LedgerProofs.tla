---------------------------- MODULE LedgerProofs ----------------------------
(***************************************************************************)
(* Theorems about the amounts of an Inventory and their proofs: nothing is *)
(* created or lost, no amount overflows, what a life stores is sound, and  *)
(* the inventory implements the Ledger. A total counts units, pairs of a   *)
(* receipt and a number, so that facts about cardinality apply to it.      *)
(***************************************************************************)
EXTENDS InventoryProofs, FiniteSetTheorems

(***************************************************************************)
(* Units and totals.                                                       *)
(***************************************************************************)

LEMMA AmountTypes ==
  ASSUME NEW r \in Requests \cup {NoReceipt}, NEW n
  PROVE  AmountIn(r, n) \in Amounts /\ AmountIn(r, n) \in Nat
<1>1. 0 \in Amounts /\ Amounts \subseteq Nat
  BY HoldingsAssumption DEF Amounts
<1>2. r # NoReceipt /\ n \in DOMAIN r => r[n] \in Amounts
  BY HoldingsAssumption
<1> QED
  BY <1>1, <1>2 DEF AmountIn

\* There are finitely many units.
LEMMA UnitsFinite ==
  ASSUME NEW rs, NEW n
  PROVE  IsFiniteSet(Units(rs, n)) /\ Cardinality(Units(rs, n)) \in Nat
<1>1. IsFiniteSet(Amounts)
  <2>1. 0 \in Int /\ Limit - 1 \in Int
    BY HoldingsAssumption
  <2> QED
    BY <2>1, FS_Interval DEF Amounts
<1>2. IsFiniteSet(ReceiptIds \X Amounts)
  BY <1>1, ReceiptIdsFinite, FS_Product
<1>3. Units(rs, n) \in SUBSET (ReceiptIds \X Amounts)
  BY DEF Units
<1>4. IsFiniteSet(Units(rs, n))
  BY <1>2, <1>3, FS_Subset
<1> QED
  BY <1>4, FS_CardinalityType

LEMMA PairedOff ==
  ASSUME NEW i, NEW J, IsFiniteSet(J)
  PROVE  IsFiniteSet({i} \X J) /\ Cardinality({i} \X J) = Cardinality(J)
<1>1. IsFiniteSet({i}) /\ Cardinality({i}) = 1
  BY FS_Singleton
<1>2. /\ IsFiniteSet({i} \X J)
      /\ Cardinality({i} \X J) = Cardinality({i}) * Cardinality(J)
  BY <1>1, FS_Product
<1>3. Cardinality(J) \in Nat
  BY FS_CardinalityType
<1> QED
  BY <1>1, <1>2, <1>3

\* The units of one receipt with amount k.
Column(i, k) == {u \in ReceiptIds \X Amounts : u[1] = i /\ u[2] < k}

LEMMA ColumnSize ==
  ASSUME NEW i \in ReceiptIds, NEW k \in Amounts
  PROVE  IsFiniteSet(Column(i, k)) /\ Cardinality(Column(i, k)) = k
<1>1. k \in Nat /\ 0 \in Int /\ k - 1 \in Int
  BY HoldingsAssumption DEF Amounts
<1>2. PICK J : J = 0..(k - 1)
  OBVIOUS
<1>3. IsFiniteSet(J) /\ Cardinality(J) = IF 0 > k - 1 THEN 0 ELSE (k - 1) - 0 + 1
  BY <1>1, <1>2, FS_Interval
<1>4. Cardinality(J) = k
  BY <1>1, <1>3
<1>5. \A a : a \in J <=> a \in Amounts /\ a < k
  BY <1>1, <1>2, HoldingsAssumption DEF Amounts
<1>6. {i} \X J = Column(i, k)
  BY <1>5 DEF Column
<1>7. IsFiniteSet({i} \X J) /\ Cardinality({i} \X J) = Cardinality(J)
  BY <1>3, PairedOff
<1> QED
  BY <1>4, <1>6, <1>7

\* A receipt filed under a free id adds as many units of n as it has.
LEMMA AddedUnits ==
  ASSUME NEW rs \in Receipts, NEW i \in ReceiptIds, rs[i] = NoReceipt,
         NEW r \in Requests, NEW n
  PROVE  Cardinality(Units([rs EXCEPT ![i] = r], n)) = Cardinality(Units(rs, n)) + AmountIn(r, n)
<1> DEFINE k == AmountIn(r, n)
           new == [rs EXCEPT ![i] = r]
           added == Column(i, k)
<1>1. k \in Nat /\ k \in Amounts
  BY AmountTypes
<1>2. IsFiniteSet(added) /\ Cardinality(added) = k
  BY <1>1, ColumnSize
<1>3. \A u \in ReceiptIds \X Amounts :
        u \in Units(new, n) <=> IF u[1] = i THEN u[2] < k ELSE u \in Units(rs, n)
  BY DEF Units, Receipts
<1>4. \A u \in Units(rs, n) : u[1] # i
  <2>1. AmountIn(rs[i], n) = 0
    BY DEF AmountIn
  <2>2. \A a \in Amounts : ~(a < 0)
    BY HoldingsAssumption DEF Amounts
  <2> QED
    BY <2>1, <2>2 DEF Units
<1>5. added = {u \in ReceiptIds \X Amounts : u[1] = i /\ u[2] < k}
  BY DEF Column
<1>7. /\ Units(rs, n) \subseteq ReceiptIds \X Amounts
      /\ Units(new, n) \subseteq ReceiptIds \X Amounts
  BY DEF Units
<1> HIDE DEF new, added, k
<1>8. Units(new, n) = Units(rs, n) \cup added
  BY <1>3, <1>4, <1>5, <1>7
<1>9. Units(rs, n) \cap added = {}
  BY <1>4, <1>5
<1>10. Cardinality(Units(new, n))
         = Cardinality(Units(rs, n)) + Cardinality(added) - Cardinality({})
  BY <1>2, <1>8, <1>9, UnitsFinite, FS_Union
<1>11. Cardinality(Units(new, n)) = Cardinality(Units(rs, n)) + k
  BY <1>1, <1>2, <1>10, UnitsFinite, FS_EmptySet
<1> QED
  BY <1>11 DEF new, k

\* A receipt that is taken away takes its units with it: it had no more than there are.
LEMMA RemovedUnits ==
  ASSUME NEW rs \in Receipts, NEW i \in ReceiptIds, rs[i] # NoReceipt, NEW n
  PROVE  Cardinality(Units(rs, n))
           = Cardinality(Units([rs EXCEPT ![i] = NoReceipt], n)) + AmountIn(rs[i], n)
<1> DEFINE rest == [rs EXCEPT ![i] = NoReceipt]
<1>1. rest \in Receipts /\ rest[i] = NoReceipt
  BY DEF Receipts
<1>2. rs[i] \in Requests
  BY DEF Receipts
<1>3. [rest EXCEPT ![i] = rs[i]] = rs
  BY DEF Receipts
<1> HIDE DEF rest
<1>4. Cardinality(Units([rest EXCEPT ![i] = rs[i]], n))
        = Cardinality(Units(rest, n)) + AmountIn(rs[i], n)
  BY <1>1, <1>2, AddedUnits
<1> QED
  BY <1>3, <1>4 DEF rest

LEMMA TotalTypes ==
  ASSUME NEW s \in Snapshots, NEW n \in Names
  PROVE  TotalIn(s, n) \in Nat /\ InStock(s, n) \in Nat
           /\ Cardinality(Units(s.reserved, n)) \in Nat
<1>1. InStock(s, n) \in Nat
  BY HoldingsAssumption DEF Snapshots, Stocks, Amounts, InStock
<1> QED
  BY <1>1, UnitsFinite DEF TotalIn

\* Reserving what is in stock moves it to the new receipt.
LEMMA ReservingMoves ==
  ASSUME NEW s \in Snapshots, NEW r \in Requests, NEW i \in ReceiptIds,
         s.reserved[i] = NoReceipt,
         \A n \in DOMAIN r : s.stock[n] # Absent /\ s.stock[n] >= r[n],
         NEW t \in Snapshots,
         t.stock = [n \in Names |-> IF n \in DOMAIN r THEN s.stock[n] - r[n] ELSE s.stock[n]],
         t.reserved = [s.reserved EXCEPT ![i] = r]
  PROVE  /\ \A n \in Names : TotalIn(t, n) = TotalIn(s, n)
         /\ Sound(s) => Sound(t)
<1>0. s.reserved \in Receipts /\ s.stock \in Stocks /\ DOMAIN r \subseteq Names
  BY HoldingsAssumption DEF Snapshots
<1>1. ASSUME NEW n \in Names PROVE InStock(t, n) = InStock(s, n) - AmountIn(r, n)
  <2>1. r # NoReceipt /\ 0 \in Int /\ Absent \notin Int
    BY HoldingsAssumption
  <2>2. CASE n \in DOMAIN r
    <3>1. r[n] \in Int /\ s.stock[n] \in Int
      BY <1>0, <2>2, HoldingsAssumption DEF Stocks, Amounts
    <3>2. t.stock[n] = s.stock[n] - r[n] /\ t.stock[n] \in Int
      BY <2>2, <3>1
    <3> QED
      BY <2>1, <2>2, <3>1, <3>2 DEF InStock, AmountIn
  <2>3. CASE n \notin DOMAIN r
    <3>1. t.stock[n] = s.stock[n] /\ s.stock[n] \in Int \cup {Absent}
      BY <1>0, <2>3, HoldingsAssumption DEF Stocks, Amounts
    <3> QED
      BY <2>1, <2>3, <3>1 DEF InStock, AmountIn
  <2> QED
    BY <2>2, <2>3
<1>2. ASSUME NEW n \in Names PROVE TotalIn(t, n) = TotalIn(s, n)
  <2>1. Cardinality(Units(t.reserved, n)) = Cardinality(Units(s.reserved, n)) + AmountIn(r, n)
    BY <1>0, AddedUnits
  <2>2. AmountIn(r, n) \in Nat
    BY AmountTypes
  <2>3. InStock(s, n) \in Nat /\ Cardinality(Units(s.reserved, n)) \in Nat
    BY TotalTypes
  <2> QED
    BY <1>1, <2>1, <2>2, <2>3 DEF TotalIn
<1>3. ASSUME Sound(s), NEW j \in ReceiptIds, t.reserved[j] # NoReceipt,
             NEW n \in DOMAIN t.reserved[j]
      PROVE  t.stock[n] # Absent
  <2>0. t.reserved[j] = IF j = i THEN r ELSE s.reserved[j]
    BY <1>0 DEF Receipts
  <2>1. n \in Names /\ s.stock[n] # Absent
    <3>1. CASE j = i
      BY <1>0, <1>3, <2>0, <3>1
    <3>2. CASE j # i
      <4>1. s.reserved[j] \in Requests /\ n \in DOMAIN s.reserved[j]
        BY <1>0, <1>3, <2>0, <3>2 DEF Receipts
      <4> QED
        BY <1>3, <4>1, HoldingsAssumption DEF Sound
    <3> QED
      BY <3>1, <3>2
  <2>2. n \in DOMAIN r => s.stock[n] - r[n] \in Int
    BY <1>0, HoldingsAssumption DEF Stocks, Amounts
  <2> QED
    BY <2>1, <2>2, HoldingsAssumption
<1> QED
  BY <1>2, <1>3 DEF Sound

\* Nothing overflows when a receipt of sound holdings is given back.
LEMMA ReleasingFits ==
  ASSUME NEW s \in Snapshots, Sound(s), NEW i \in ReceiptIds, s.reserved[i] # NoReceipt,
         NEW n \in DOMAIN s.reserved[i]
  PROVE  /\ n \in Names /\ s.stock[n] \in Nat /\ s.reserved[i][n] \in Nat
         /\ s.stock[n] + s.reserved[i][n] < Limit
<1>0. s.reserved \in Receipts /\ s.stock \in Stocks /\ s.reserved[i] \in Requests
  BY DEF Snapshots, Receipts
<1>1. n \in Names /\ s.reserved[i][n] \in Amounts
  BY <1>0, HoldingsAssumption
<1>2. s.stock[n] # Absent /\ s.stock[n] \in Amounts
  BY <1>0, <1>1 DEF Sound, Stocks
<1>3. InStock(s, n) = s.stock[n] /\ AmountIn(s.reserved[i], n) = s.reserved[i][n]
  BY <1>2 DEF InStock, AmountIn
<1>4. Cardinality(Units(s.reserved, n))
        = Cardinality(Units([s.reserved EXCEPT ![i] = NoReceipt], n)) + s.reserved[i][n]
  BY <1>0, <1>3, RemovedUnits
<1>5. Cardinality(Units([s.reserved EXCEPT ![i] = NoReceipt], n)) \in Nat
  BY UnitsFinite
<1>6. TotalIn(s, n) < Limit /\ TotalIn(s, n) = s.stock[n] + Cardinality(Units(s.reserved, n))
  BY <1>1, <1>3 DEF Sound, TotalIn
<1>7. s.stock[n] \in Nat /\ s.reserved[i][n] \in Nat
  BY <1>1, <1>2, HoldingsAssumption DEF Amounts
<1> QED
  BY <1>1, <1>4, <1>5, <1>6, <1>7, HoldingsAssumption

\* Releasing a receipt of sound holdings moves it back into stock.
LEMMA ReleasingMoves ==
  ASSUME NEW s \in Snapshots, Sound(s), NEW i \in ReceiptIds, s.reserved[i] # NoReceipt,
         NEW t \in Snapshots,
         t.stock = [n \in Names |-> IF n \in DOMAIN s.reserved[i]
                                     THEN s.stock[n] + s.reserved[i][n] ELSE s.stock[n]],
         t.reserved = [s.reserved EXCEPT ![i] = NoReceipt]
  PROVE  /\ \A n \in Names : TotalIn(t, n) = TotalIn(s, n)
         /\ Sound(t)
<1> DEFINE r == s.reserved[i]
<1>0. s.reserved \in Receipts /\ s.stock \in Stocks /\ r \in Requests
  BY DEF Snapshots, Receipts
<1>1. ASSUME NEW n \in Names PROVE InStock(t, n) = InStock(s, n) + AmountIn(r, n)
  <2>1. r # NoReceipt /\ 0 \in Int /\ Absent \notin Int
    BY <1>0, HoldingsAssumption
  <2>2. CASE n \in DOMAIN r
    <3>1. r[n] \in Int /\ s.stock[n] \in Int
      BY <2>2, ReleasingFits
    <3>2. t.stock[n] = s.stock[n] + r[n] /\ t.stock[n] \in Int
      BY <2>2, <3>1
    <3> QED
      BY <2>1, <2>2, <3>1, <3>2 DEF InStock, AmountIn
  <2>3. CASE n \notin DOMAIN r
    <3>1. t.stock[n] = s.stock[n] /\ s.stock[n] \in Int \cup {Absent}
      BY <1>0, <2>3, HoldingsAssumption DEF Stocks, Amounts
    <3> QED
      BY <2>1, <2>3, <3>1 DEF InStock, AmountIn
  <2> QED
    BY <2>2, <2>3
<1>2. ASSUME NEW n \in Names PROVE TotalIn(t, n) = TotalIn(s, n)
  <2>1. Cardinality(Units(s.reserved, n)) = Cardinality(Units(t.reserved, n)) + AmountIn(r, n)
    BY <1>0, RemovedUnits
  <2>2. AmountIn(r, n) \in Nat
    BY <1>0, AmountTypes
  <2>3. InStock(s, n) \in Nat /\ Cardinality(Units(t.reserved, n)) \in Nat
    BY TotalTypes
  <2> QED
    BY <1>1, <2>1, <2>2, <2>3 DEF TotalIn
<1>3. ASSUME NEW j \in ReceiptIds, t.reserved[j] # NoReceipt, NEW n \in DOMAIN t.reserved[j]
      PROVE  t.stock[n] # Absent
  <2>1. s.reserved[j] # NoReceipt /\ n \in DOMAIN s.reserved[j]
    BY <1>0, <1>3 DEF Receipts
  <2>2. n \in Names /\ s.stock[n] # Absent
    BY <2>1, ReleasingFits, HoldingsAssumption
  <2>3. n \in DOMAIN r => s.stock[n] + r[n] \in Int
    BY ReleasingFits
  <2> QED
    BY <2>2, <2>3, HoldingsAssumption
<1> QED
  BY <1>2, <1>3 DEF Sound

\* Putting in what fits, under a name without entry.
LEMMA PuttingFits ==
  ASSUME NEW s \in Snapshots, Sound(s), NEW m \in Names, s.stock[m] = Absent,
         NEW a \in Amounts, a + TotalIn(s, m) < Limit,
         NEW t \in Snapshots,
         t.stock = [s.stock EXCEPT ![m] = a], t.reserved = s.reserved
  PROVE  Sound(t)
<1>0. s.reserved \in Receipts /\ s.stock \in Stocks /\ a \in Nat /\ a # Absent
  BY HoldingsAssumption DEF Snapshots, Amounts
<1>1. ASSUME NEW n \in Names PROVE TotalIn(t, n) < Limit
  <2>1. CASE n = m
    <3>1. InStock(s, n) = 0 /\ InStock(t, n) = a
      BY <1>0, <2>1 DEF InStock, Stocks
    <3> QED
      BY <1>0, <2>1, <3>1, TotalTypes DEF TotalIn
  <2>2. CASE n # m
    <3>1. InStock(t, n) = InStock(s, n)
      BY <1>0, <2>2 DEF InStock, Stocks
    <3> QED
      BY <3>1 DEF TotalIn, Sound
  <2> QED
    BY <2>1, <2>2
<1>2. ASSUME NEW j \in ReceiptIds, t.reserved[j] # NoReceipt, NEW n \in DOMAIN t.reserved[j]
      PROVE  t.stock[n] # Absent
  <2>1. n \in Names /\ s.stock[n] # Absent
    BY <1>0, <1>2, HoldingsAssumption DEF Sound, Receipts
  <2> QED
    BY <1>0, <2>1 DEF Stocks
<1> QED
  BY <1>1, <1>2 DEF Sound

(***************************************************************************)
(* The inductive invariant: everything that is, or may become, the holdings*)
(* of this inventory can be given back, and has receipts only under ids    *)
(* that will not be handed out again.                                      *)
(***************************************************************************)
Known(s) == \A i \in ReceiptIds : s.reserved[i] # NoReceipt => i \in granted \cup StoredIds

SavesSound == \A k \in 1..Len(mailbox) :
  mailbox[k].op = "Set" => Sound(mailbox[k].value) /\ Known(mailbox[k].value)

AllSound ==
  /\ Sound(Current) /\ Known(Current)
  /\ loaded # NoSnapshot => Sound(loaded) /\ Known(loaded)
  /\ store # NoSnapshot => Sound(store) /\ Known(store)
  /\ SavesSound

\* The restore asks once, and is the one that the worker replies to.
GetAwaited ==
  /\ \A k \in 1..Len(mailbox) : mailbox[k].op = "Get" => restore = "asked"
  /\ \A j, k \in 1..Len(mailbox) : mailbox[j].op = "Get" /\ mailbox[k].op = "Get" => j = k

LedgerInv ==
  /\ restore # "applied" => ~stale
  /\ poisoned => stale
  /\ ~stale => AllSound

IInv == TypeInv /\ GapHolds /\ LedgerInv /\ GetAwaited

LEMMA EmptySound ==
  ASSUME NEW s \in Snapshots, s.stock = [n \in Names |-> Absent],
         s.reserved = [i \in ReceiptIds |-> NoReceipt]
  PROVE  Sound(s) /\ Known(s)
<1>1. ASSUME NEW n \in Names PROVE TotalIn(s, n) = 0
  <2>1. \A u \in ReceiptIds \X Amounts : AmountIn(s.reserved[u[1]], n) = 0 /\ ~(u[2] < 0)
    BY HoldingsAssumption DEF AmountIn, Amounts
  <2>2. Units(s.reserved, n) = {}
    BY <2>1 DEF Units
  <2>3. InStock(s, n) = 0
    BY DEF InStock
  <2> QED
    BY <2>2, <2>3, FS_EmptySet DEF TotalIn
<1> QED
  BY <1>1, HoldingsAssumption DEF Sound, Known

LEMMA LedgerInit == Init => IInv
<1> SUFFICES ASSUME Init PROVE IInv
  OBVIOUS
<1>1. TypeInv /\ GapHolds
  BY InvTypeInit DEF Init, GapHolds
<1>2. Current \in Snapshots
  BY <1>1 DEF TypeInv, TypeOK, Current, Snapshots
<1>3. Sound(Current) /\ Known(Current)
  BY <1>2, EmptySound DEF Init, Current
<1>4. store # NoSnapshot => Sound(store) /\ Known(store)
  BY StoredAtStartSound DEF Init, Known, StoredIds
<1>5. SavesSound /\ GetAwaited
  BY DEF Init, SavesSound, GetAwaited
<1> QED
  BY <1>1, <1>3, <1>4, <1>5 DEF Init, IInv, LedgerInv, AllSound

(***************************************************************************)
(* The listener's updates of the maps, as long as no restore interfered.   *)
(***************************************************************************)

\* Subtracting what was found sufficient does not wrap.
LEMMA SubtractingExact ==
  ASSUME stock \in Stocks, NEW r \in Requests, Sufficient(r)
  PROVE  /\ Changed(r, DOMAIN r, -1)
              = [n \in Names |-> IF n \in DOMAIN r THEN stock[n] - r[n] ELSE stock[n]]
         /\ Overflowing(r, -1) = {}
<1>1. ASSUME NEW n \in DOMAIN r
      PROVE  /\ stock[n] # Absent /\ stock[n] + (-1) * r[n] = stock[n] - r[n]
             /\ stock[n] - r[n] \in Amounts
  <2>1. n \in Names /\ r[n] \in Amounts /\ stock[n] # Absent /\ stock[n] >= r[n]
    BY HoldingsAssumption DEF Sufficient
  <2>2. stock[n] \in Amounts
    BY <2>1 DEF Stocks
  <2> QED
    BY <2>1, <2>2, HoldingsAssumption DEF Amounts
<1>2. ASSUME NEW a \in Amounts PROVE a % Limit = a
  BY HoldingsAssumption DEF Amounts
<1>3. ASSUME NEW n \in DOMAIN r
      PROVE  stock[n] # Absent /\ (stock[n] + (-1) * r[n]) % Limit = stock[n] - r[n]
  BY <1>1, <1>2
<1> QED
  BY <1>1, <1>3 DEF Changed, Overflowing

\* Giving back a receipt that is on file does not wrap.
LEMMA AddingExact ==
  ASSUME stock \in Stocks, reserved \in Receipts, Sound(Current),
         NEW i \in ReceiptIds, NEW r \in Requests, reserved[i] = r
  PROVE  /\ Changed(r, DOMAIN r, 1)
              = [n \in Names |-> IF n \in DOMAIN r THEN stock[n] + r[n] ELSE stock[n]]
         /\ Overflowing(r, 1) = {}
<1>1. Current \in Snapshots /\ Current.stock = stock /\ Current.reserved = reserved
  BY DEF Current, Snapshots
<1>2. Current.reserved[i] # NoReceipt
  BY <1>1, HoldingsAssumption
<1>3. ASSUME NEW n \in DOMAIN r
      PROVE  /\ n \in Names /\ stock[n] \in Nat /\ r[n] \in Nat
             /\ stock[n] + r[n] < Limit
  BY <1>1, <1>2, ReleasingFits
<1>4. ASSUME NEW n \in DOMAIN r
      PROVE  /\ stock[n] # Absent /\ stock[n] + 1 * r[n] = stock[n] + r[n]
             /\ stock[n] + r[n] \in Amounts
  BY <1>3, HoldingsAssumption DEF Amounts
<1>5. ASSUME NEW a \in Amounts PROVE a % Limit = a
  BY HoldingsAssumption DEF Amounts
<1>6. ASSUME NEW n \in DOMAIN r
      PROVE  stock[n] # Absent /\ (stock[n] + 1 * r[n]) % Limit = stock[n] + r[n]
  BY <1>4, <1>5
<1> QED
  BY <1>4, <1>6 DEF Changed, Overflowing

\* A receipt about to be credited is the one on file.
LEMMA PendingOnFile ==
  ASSUME IInv, ~stale, listener = "releasing"
  PROVE  /\ pending.id \in ReceiptIds /\ pending.receipt \in Requests
         /\ reserved[pending.id] = pending.receipt /\ reserved[pending.id] # NoReceipt
<1>1. pending.id \in ReceiptIds /\ pending.receipt \in Requests
  BY DEF IInv, TypeInv, TypeOK
<1>2. reserved[pending.id] = pending.receipt
  BY DEF IInv, GapHolds
<1> QED
  BY <1>1, <1>2, HoldingsAssumption

LEMMA NoPanic ==
  ASSUME IInv, ~stale
  PROVE  ~Panic
<1>1. stock \in Stocks /\ reserved \in Receipts /\ Sound(Current)
  BY DEF IInv, TypeInv, TypeOK, LedgerInv, AllSound
<1>2. ASSUME listener = "reserving" PROVE ~PanicOn(pending, -1)
  <2>1. pending \in Requests /\ Sufficient(pending)
    BY <1>2 DEF IInv, TypeInv, TypeOK, GapHolds
  <2> QED
    BY <1>1, <2>1, SubtractingExact DEF PanicOn
<1>3. ASSUME listener = "releasing" PROVE ~PanicOn(pending.receipt, 1)
  <2>1. Overflowing(pending.receipt, 1) = {}
    BY <1>1, <1>3, PendingOnFile, AddingExact
  <2> QED
    BY <2>1 DEF PanicOn
<1> QED
  BY <1>2, <1>3 DEF Panic

\* An update of the maps that is a step of the ledger.
MovesSoundly ==
  /\ \A n \in Names : Total(n)' = Total(n)
  /\ Sound(Current)' /\ Known(Current)'

LEMMA CommitGrants ==
  ASSUME IInv, TypeInv', ~stale, CommitReserve
  PROVE  /\ MovesSoundly
         /\ \E i \in ReceiptIds : Promise!Grant(pending, i)
<1>1. stock \in Stocks /\ reserved \in Receipts /\ Sound(Current) /\ Known(Current)
  BY DEF IInv, TypeInv, TypeOK, LedgerInv, AllSound
<1>2. listener = "reserving" /\ pending \in Requests /\ Sufficient(pending)
  BY DEF CommitReserve, IInv, TypeInv, TypeOK, GapHolds
<1>3. PICK i \in ReceiptIds \ (granted \cup StoredIds) :
        reserved' = [reserved EXCEPT ![i] = pending] /\ granted' = granted \cup {i}
  BY DEF CommitReserve
<1>4. stock' = [n \in Names |-> IF n \in DOMAIN pending THEN stock[n] - pending[n] ELSE stock[n]]
  BY <1>1, <1>2, SubtractingExact DEF CommitReserve
<1>5. reserved[i] = NoReceipt
  BY <1>1, <1>3 DEF Known, Current
<1>6. Current \in Snapshots /\ Current' \in Snapshots
  BY <1>1 DEF Current, Snapshots, TypeInv, TypeOK
<1>7. \A n \in DOMAIN pending : stock[n] # Absent /\ stock[n] >= pending[n]
  BY <1>2 DEF Sufficient
<1>8. (\A n \in Names : TotalIn(Current', n) = TotalIn(Current, n)) /\ Sound(Current')
  <2>1. Current.stock = stock /\ Current.reserved = reserved
    BY DEF Current
  <2>2. Current'.stock = stock' /\ Current'.reserved = reserved'
    BY DEF Current
  <2>3. Current.reserved[i] = NoReceipt
    BY <1>5, <2>1
  <2>4. \A n \in DOMAIN pending : Current.stock[n] # Absent /\ Current.stock[n] >= pending[n]
    BY <1>7, <2>1
  <2>5. Current'.stock = [n \in Names |-> IF n \in DOMAIN pending
                                          THEN Current.stock[n] - pending[n]
                                          ELSE Current.stock[n]]
    BY <1>4, <2>1, <2>2
  <2>6. Current'.reserved = [Current.reserved EXCEPT ![i] = pending]
    BY <1>3, <2>1, <2>2
  <2> QED
    BY <1>1, <1>2, <1>3, <1>6, <2>3, <2>4, <2>5, <2>6, ReservingMoves
<1>9. Known(Current)'
  BY <1>1, <1>3 DEF Known, Current, Receipts
<1>10. Promise!Grant(pending, i)
  <2>1. listener # "unborn" /\ listener' # "unborn"
    BY <1>2 DEF CommitReserve
  <2> QED
    BY <1>3, <1>4, <1>5, <1>7, <2>1 DEF Promise!Grant
<1> QED
  BY <1>8, <1>9, <1>10 DEF MovesSoundly, Total

LEMMA CommitRedeems ==
  ASSUME IInv, TypeInv', ~stale, CommitRelease
  PROVE  /\ MovesSoundly
         /\ \E i \in ReceiptIds : Promise!Redeem(i)
<1> DEFINE i == pending.id
<1>1. stock \in Stocks /\ reserved \in Receipts /\ Sound(Current) /\ Known(Current)
  BY DEF IInv, TypeInv, TypeOK, LedgerInv, AllSound
<1>2. /\ listener = "releasing"
      /\ reserved' = [reserved EXCEPT ![i] = NoReceipt] /\ UNCHANGED granted
  BY DEF CommitRelease
<1>3. /\ i \in ReceiptIds /\ pending.receipt \in Requests
      /\ reserved[i] = pending.receipt /\ reserved[i] # NoReceipt
  BY <1>2, PendingOnFile
<1>4. stock' = [n \in Names |-> IF n \in DOMAIN reserved[i] THEN stock[n] + reserved[i][n]
                                                             ELSE stock[n]]
  BY <1>1, <1>3, AddingExact DEF CommitRelease
<1>5. Current \in Snapshots /\ Current' \in Snapshots
  BY <1>1 DEF Current, Snapshots, TypeInv, TypeOK
<1>6. (\A n \in Names : TotalIn(Current', n) = TotalIn(Current, n)) /\ Sound(Current')
  <2>1. Current.stock = stock /\ Current.reserved = reserved
    BY DEF Current
  <2>2. Current'.stock = stock' /\ Current'.reserved = reserved'
    BY DEF Current
  <2> HIDE DEF i
  <2>3. Current.reserved[i] # NoReceipt
    BY <1>3, <2>1
  <2>4. Current'.stock = [n \in Names |-> IF n \in DOMAIN Current.reserved[i]
                                          THEN Current.stock[n] + Current.reserved[i][n]
                                          ELSE Current.stock[n]]
    BY <1>4, <2>1, <2>2
  <2>5. Current'.reserved = [Current.reserved EXCEPT ![i] = NoReceipt]
    BY <1>2, <2>1, <2>2
  <2> QED
    BY <1>1, <1>3, <1>5, <2>3, <2>4, <2>5, ReleasingMoves
<1>7. Known(Current)'
  BY <1>1, <1>2, <1>3 DEF Known, Current, Receipts
<1>8. Promise!Redeem(i)
  <2>1. listener # "unborn" /\ listener' # "unborn"
    BY <1>2 DEF CommitRelease
  <2> QED
    BY <1>2, <1>3, <1>4, <2>1 DEF Promise!Redeem
<1> QED
  BY <1>3, <1>6, <1>7, <1>8 DEF MovesSoundly, Total

LEMMA InsertPuts ==
  ASSUME IInv, TypeInv', ~stale, NEW n \in Names, NEW a \in Amounts, Insert(n, a)
  PROVE  Sound(Current)' /\ Known(Current)' /\ Promise!Put(n, a)
<1>1. stock \in Stocks /\ reserved \in Receipts /\ Sound(Current) /\ Known(Current)
  BY DEF IInv, TypeInv, TypeOK, LedgerInv, AllSound
<1>2. /\ listener = "unborn" /\ stock[n] = Absent /\ a + TotalIn(Current, n) < Limit
      /\ stock' = [stock EXCEPT ![n] = a] /\ UNCHANGED <<reserved, listener, granted>>
  BY DEF Insert, Total, loopVars, receiptVars
<1>3. Current \in Snapshots /\ Current' \in Snapshots
  BY <1>1 DEF Current, Snapshots, TypeInv, TypeOK
<1>4. Sound(Current')
  <2>1. Current.stock = stock /\ Current.reserved = reserved
    BY DEF Current
  <2>2. Current'.stock = stock' /\ Current'.reserved = reserved'
    BY DEF Current
  <2> QED
    BY <1>1, <1>2, <1>3, <2>1, <2>2, PuttingFits
<1>5. Known(Current)'
  BY <1>1, <1>2 DEF Known, Current
<1> QED
  BY <1>2, <1>4, <1>5 DEF Promise!Put

(***************************************************************************)
(* The invariant is inductive.                                             *)
(***************************************************************************)

\* Whatever was known stays known, and what persistence has and the restore brought is
\* as it was.
LEMMA OthersKept ==
  ASSUME AllSound, granted \subseteq granted', UNCHANGED <<loaded, mailbox, store>>,
         Sound(Current)' /\ Known(Current)'
  PROVE  AllSound'
<1>1. loaded # NoSnapshot => Sound(loaded)' /\ Known(loaded)'
  BY DEF AllSound, Known, Sound, TotalIn, InStock, Units
<1>2. store # NoSnapshot => Sound(store)' /\ Known(store)'
  BY DEF AllSound, Known, Sound, TotalIn, InStock, Units
<1>3. SavesSound'
  BY DEF AllSound, SavesSound, Known
<1> QED
  BY <1>1, <1>2, <1>3 DEF AllSound

LEMMA NothingMoved ==
  ASSUME LedgerInv,
         UNCHANGED <<mapVars, loaded, mailbox, store, granted, stale, restore>>
  PROVE  LedgerInv'
<1>1. AllSound => AllSound'
  BY DEF AllSound, SavesSound, Known, Current, mapVars
<1> QED
  BY <1>1 DEF LedgerInv, mapVars

LEMMA LedgerListener ==
  ASSUME IInv, TypeInv', CommitReserve \/ CommitRelease \/ Panic
  PROVE  LedgerInv'
<1>1. UNCHANGED <<restore, stale, loaded, mailbox, store>> /\ granted \subseteq granted'
  BY DEF CommitReserve, CommitRelease, Panic, PanicOn, sideVars, dbVars, receiptVars, historyVars
<1>2. CASE stale
  BY <1>1, <1>2 DEF IInv, LedgerInv
<1>3. CASE ~stale
  <2>1. ~Panic
    BY <1>3, NoPanic
  <2>2. MovesSoundly
    BY <1>3, <2>1, CommitGrants, CommitRedeems
  <2>3. poisoned' = poisoned
    BY <2>1 DEF CommitReserve, CommitRelease
  <2>4. AllSound'
    BY <1>1, <1>3, <2>2, OthersKept DEF MovesSoundly, IInv, LedgerInv
  <2> QED
    BY <1>1, <2>3, <2>4 DEF IInv, LedgerInv
<1> QED
  BY <1>2, <1>3

LEMMA LedgerInsert ==
  ASSUME IInv, TypeInv', NEW n \in Names, NEW a \in Amounts, Insert(n, a)
  PROVE  LedgerInv'
<1>1. UNCHANGED <<poisoned, restore, stale, loaded, mailbox, store, granted>>
  BY DEF Insert, sideVars, dbVars, receiptVars, historyVars
<1>2. ~stale => AllSound'
  BY <1>1, InsertPuts, OthersKept DEF IInv, LedgerInv
<1> QED
  BY <1>1, <1>2 DEF IInv, LedgerInv

\* The restore brings sound holdings into the maps.
LEMMA LedgerRestore ==
  ASSUME IInv, ApplyRestore
  PROVE  LedgerInv' /\ ~stale /\ Sound(Current)'
<1>1. /\ restore = "loaded" /\ ~poisoned /\ restore' = "applied" /\ loaded' = NoSnapshot
      /\ stock' = loaded.stock /\ reserved' = loaded.reserved
      /\ UNCHANGED <<poisoned, mailbox, store, granted>>
  BY DEF ApplyRestore, dbVars
<1>2. ~stale /\ AllSound
  BY <1>1 DEF IInv, LedgerInv
<1>3. loaded \in Snapshots /\ loaded # NoSnapshot
  BY <1>1, InventoryAssumption DEF IInv, TypeInv, RestoreHasSnapshot
<1>4. Current' = loaded
  BY <1>1, <1>3 DEF Current, Snapshots
<1>5. Sound(loaded) /\ Known(loaded)
  BY <1>2, <1>3 DEF AllSound
<1>6. Sound(Current') /\ Known(Current)'
  BY <1>1, <1>4, <1>5 DEF Known
<1>7. AllSound'
  BY <1>1, <1>2, <1>6 DEF AllSound, SavesSound, Known
<1> QED
  BY <1>1, <1>2, <1>6, <1>7 DEF LedgerInv

LEMMA GetAnswered ==
  ASSUME IInv, HandleGet
  PROVE  restore = "asked"
<1>1. 1 \in 1..Len(mailbox) /\ mailbox[1].op = "Get"
  BY DEF HandleGet, GetOp, IInv, TypeInv, TypeOK
<1> QED
  BY <1>1 DEF IInv, GetAwaited

LEMMA LedgerPersistence ==
  ASSUME IInv, AskGet \/ PersistenceStep \/ PersistenceStops \/ Save
  PROVE  LedgerInv'
<1>1. UNCHANGED <<stock, reserved, poisoned, granted, stale>>
  BY DEF AskGet, PersistenceStep, HandleGet, HandleSet, PersistenceStops, Save, mapVars,
    receiptVars, historyVars
<1>2. mailbox \in Seq(Ops) /\ Len(mailbox) \in Nat
  BY DEF IInv, TypeInv, TypeOK
<1>3. restore = "applied" => restore' = "applied"
  BY GetAnswered DEF AskGet, PersistenceStep, HandleSet, PersistenceStops, Save
<1>4. ASSUME AllSound PROVE (Sound(Current) /\ Known(Current))'
  BY <1>1, <1>4 DEF AllSound, Known, Current
<1> DEFINE OthersSound ==
     /\ loaded # NoSnapshot => Sound(loaded) /\ Known(loaded)
     /\ store # NoSnapshot => Sound(store) /\ Known(store)
     /\ SavesSound
<1>5. ASSUME AllSound PROVE OthersSound'
  <2>1. ASSUME mailbox # <<>>, mailbox' = Tail(mailbox) PROVE SavesSound'
    <3>1. Len(mailbox') = Len(mailbox) - 1
      BY <1>2, <2>1
    <3>2. \A k \in 1..Len(mailbox') : k + 1 \in 1..Len(mailbox) /\ mailbox'[k] = mailbox[k + 1]
      BY <1>2, <2>1, <3>1
    <3> QED
      BY <1>1, <1>5, <3>2 DEF AllSound, SavesSound, Known
  <2>2. ASSUME NEW o \in Ops, mailbox' = Append(mailbox, o),
               o.op = "Set" => Sound(o.value) /\ Known(o.value)
        PROVE  SavesSound'
    <3>1. \A k \in 1..Len(mailbox') : \/ (k \in 1..Len(mailbox) /\ mailbox'[k] = mailbox[k])
                                       \/ mailbox'[k] = o
      BY <1>2, <2>2
    <3> QED
      BY <1>1, <1>5, <2>2, <3>1 DEF AllSound, SavesSound, Known
  <2>3. ASSUME UNCHANGED mailbox PROVE SavesSound'
    BY <1>1, <1>5, <2>3 DEF AllSound, SavesSound, Known
  <2>4. CASE AskGet
    <3>1. GetOp \in Ops /\ GetOp.op # "Set"
      BY DEF GetOp, Ops
    <3>2. SavesSound' /\ UNCHANGED <<loaded, store>>
      BY <2>2, <2>3, <2>4, <3>1 DEF AskGet
    <3> QED
      BY <1>1, <1>5, <3>2 DEF AllSound, Known
  <2>5. CASE HandleGet
    <3>1. SavesSound' /\ loaded' = store /\ store' = store
      BY <2>1, <2>5 DEF HandleGet
    <3> QED
      BY <1>1, <1>5, <3>1 DEF AllSound, Known
  <2>6. CASE HandleSet
    <3>1. SavesSound' /\ loaded' = loaded /\ store' = Head(mailbox).value
      BY <2>1, <2>6 DEF HandleSet
    <3>2. 1 \in 1..Len(mailbox) /\ Head(mailbox) = mailbox[1] /\ Head(mailbox).op = "Set"
      BY <1>2, <2>6 DEF HandleSet
    <3>3. Sound(mailbox[1].value) /\ Known(mailbox[1].value)
      BY <1>5, <3>2 DEF AllSound, SavesSound
    <3> QED
      BY <1>1, <1>5, <3>1, <3>2, <3>3 DEF AllSound, Known
  <2>7. CASE PersistenceStops
    <3>1. Len(mailbox') = 0 /\ UNCHANGED <<loaded, store>>
      BY <2>7 DEF PersistenceStops
    <3>2. SavesSound'
      BY <3>1 DEF SavesSound
    <3> QED
      BY <1>1, <1>5, <3>1, <3>2 DEF AllSound, Known
  <2>8. CASE Save
    <3>1. SetOp(Current) \in Ops /\ SetOp(Current).value = Current
      BY DEF SetOp, Ops, Current, Snapshots, IInv, TypeInv, TypeOK
    <3>2. SavesSound' /\ UNCHANGED <<loaded, store>>
      BY <1>5, <2>2, <2>3, <2>8, <3>1 DEF Save, AllSound
    <3> QED
      BY <1>1, <1>5, <3>2 DEF AllSound, Known
  <2> QED
    BY <2>4, <2>5, <2>6, <2>7, <2>8 DEF PersistenceStep
<1>6. AllSound => AllSound'
  BY <1>4, <1>5 DEF AllSound
<1> HIDE DEF OthersSound
<1>7. poisoned' = poisoned /\ stale' = stale /\ LedgerInv
  BY <1>1 DEF IInv
<1> HIDE DEF AllSound
<1>8. (~stale)' => AllSound'
  BY <1>6, <1>7 DEF LedgerInv
<1>9. (restore' # "applied" => ~stale') /\ (poisoned' => stale')
  BY <1>3, <1>7 DEF LedgerInv
<1> QED
  BY <1>8, <1>9 DEF LedgerInv

LEMMA GetStep ==
  ASSUME TypeInv, GetAwaited, [Next]_vars
  PROVE  GetAwaited'
<1> USE DEF GetAwaited, loopVars, mapVars, dbVars, sideVars, receiptVars, historyVars
<1>0. mailbox \in Seq(Ops) /\ Len(mailbox) \in Nat
  BY DEF TypeInv, TypeOK
<1>1. ASSUME UNCHANGED <<mailbox, restore>> PROVE GetAwaited'
  BY <1>1
<1>2. ASSUME mailbox # <<>>, mailbox' = Tail(mailbox)
      PROVE  \A k \in 1..Len(mailbox') : /\ k + 1 \in 2..Len(mailbox)
                                         /\ mailbox'[k] = mailbox[k + 1]
  <2>1. Len(mailbox') = Len(mailbox) - 1
    BY <1>0, <1>2
  <2> QED
    BY <1>0, <1>2, <2>1
<1>3. ASSUME NEW o \in Ops, mailbox' = Append(mailbox, o)
      PROVE  \A k \in 1..Len(mailbox') :
               \/ k \in 1..Len(mailbox) /\ mailbox'[k] = mailbox[k]
               \/ k = Len(mailbox) + 1 /\ mailbox'[k] = o
  BY <1>0, <1>3
<1>4. CASE AskGet
  <2>1. CASE persistence = "running"
    <3>1. restore = "queued" /\ restore' = "asked" /\ mailbox' = Append(mailbox, GetOp)
      BY <1>4, <2>1 DEF AskGet
    <3>2. GetOp \in Ops
      BY DEF GetOp, Ops
    <3> QED
      BY <1>3, <3>1, <3>2
  <2>2. CASE persistence # "running"
    BY <1>4, <2>2 DEF AskGet
  <2> QED
    BY <2>1, <2>2
<1>5. CASE HandleGet
  <2>1. 1 \in 1..Len(mailbox) /\ mailbox[1].op = "Get"
    BY <1>0, <1>5 DEF HandleGet, GetOp
  <2>2. \A k \in 1..Len(mailbox') : mailbox'[k].op # "Get"
    BY <1>0, <1>2, <1>5, <2>1 DEF HandleGet
  <2> QED
    BY <2>2
<1>6. CASE HandleSet
  BY <1>0, <1>2, <1>6 DEF HandleSet
<1>7. CASE PersistenceStops
  <2>1. Len(mailbox') = 0
    BY <1>7 DEF PersistenceStops
  <2> QED
    BY <2>1
<1>8. CASE Save
  <2>1. SetOp(Current) \in Ops /\ SetOp(Current).op # "Get"
    BY DEF SetOp, Ops, Current, Snapshots, TypeInv, TypeOK
  <2> QED
    BY <1>1, <1>3, <1>8, <2>1 DEF Save
<1>9. CASE ApplyRestore
  BY <1>9 DEF ApplyRestore
<1>10. ASSUME \/ \E m \in Messages : ClientSends(m)
              \/ \E n \in Names, a \in Amounts : Insert(n, a)
              \/ ListenerStep \/ StopBegin \/ StopSeesStopped \/ StopForces \/ UNCHANGED vars
       PROVE  GetAwaited'
  BY <1>1, <1>10 DEF ClientSends, Insert, ListenerStep, Listen, CheckStatus, TakeStop,
    TakeLagged, TakeOther, End, CheckReserve, LookUpReceipt, CommitReserve, CommitRelease,
    Panic, PanicOn, StopBegin, StopSeesStopped, StopForces, vars
<1> QED
  BY <1>4, <1>5, <1>6, <1>7, <1>8, <1>9, <1>10
  DEF Next, RestoreStep, PersistenceStep, StopStep, Terminated

LEMMA IInvStep == IInv /\ [Next]_vars => IInv'
<1> SUFFICES ASSUME IInv, [Next]_vars PROVE IInv'
  OBVIOUS
<1> USE DEF ListenerStep, RestoreStep, StopStep
<1>1. TypeInv' /\ GapHolds' /\ GetAwaited'
  BY InvTypeStep, GapStep, GetStep DEF IInv
<1>2. ASSUME \/ \E m \in Messages : ClientSends(m)
             \/ Listen \/ CheckStatus \/ TakeStop \/ TakeLagged \/ TakeOther
             \/ \E r \in Requests : CheckReserve(r)
             \/ \E i \in ReceiptIds : LookUpReceipt(i)
             \/ StopBegin \/ StopSeesStopped \/ StopForces
             \/ UNCHANGED vars
      PROVE  UNCHANGED <<mapVars, loaded, mailbox, store, granted, stale, restore>>
  BY <1>2 DEF ClientSends, Listen, CheckStatus, TakeStop, TakeLagged, TakeOther, End,
    CheckReserve, LookUpReceipt, StopBegin, StopSeesStopped, StopForces, vars, loopVars,
    mapVars, dbVars, sideVars, receiptVars, historyVars
<1>3. LedgerInv'
  BY <1>1, <1>2, NothingMoved, LedgerListener, LedgerInsert, LedgerRestore, LedgerPersistence
  DEF IInv, Next, Terminated
<1> QED
  BY <1>1, <1>3 DEF IInv

LEMMA IInvHolds == Spec => []IInv
BY LedgerInit, IInvStep, PTL DEF Spec

(***************************************************************************)
(* Theorems.                                                               *)
(***************************************************************************)

\* A request never overflows an amount, and so never panics with both mutexes held,
\* unless a restore came between a check and its update.
THEOREM NoOverflow == Spec => []PanicNeedsRestore
<1>1. IInv => PanicNeedsRestore
  BY DEF IInv, LedgerInv, PanicNeedsRestore
<1> QED
  BY <1>1, IInvHolds, PTL

\* What an inventory stores, and what it finds stored, can be given back in full: each
\* life hands the next one holdings that satisfy the assumption made about the first.
THEOREM StoredIsSound == Spec => []StoreSound
<1>1. IInv => StoreSound
  BY DEF IInv, LedgerInv, AllSound, StoreSound
<1> QED
  BY <1>1, IInvHolds, PTL

\* No request, stop, lag or save creates or loses an amount of any resource.
THEOREM AmountsConserved == Spec => Conserved
<1>1. ASSUME IInv, Next, listener # "unborn", ~stale, ~ApplyRestore, NEW n \in Names
      PROVE  Total(n)' = Total(n)
  <2> USE DEF ListenerStep, RestoreStep, StopStep
  <2>1. TypeInv' /\ ~Panic
    BY <1>1, InvTypeStep, NoPanic DEF IInv
  <2>2. CASE CommitReserve \/ CommitRelease
    BY <1>1, <2>1, <2>2, CommitGrants, CommitRedeems DEF MovesSoundly
  <2>3. CASE ~(CommitReserve \/ CommitRelease)
    <3>1. UNCHANGED <<stock, reserved>>
      BY <1>1, <2>1, <2>3 DEF Next, ClientSends, Insert, Listen, CheckStatus, TakeStop,
        TakeLagged, TakeOther, End, CheckReserve, LookUpReceipt, AskGet, PersistenceStep,
        HandleGet, HandleSet, PersistenceStops, StopBegin, StopSeesStopped, StopForces, Save,
        Terminated, vars, mapVars
    <3> QED
      BY <3>1 DEF Total, Current
  <2> QED
    BY <2>2, <2>3
<1>2. IInv /\ [Next]_vars =>
        [(listener # "unborn" /\ ~stale /\ ~ApplyRestore)
           => \A n \in Names : Total(n)' = Total(n)]_vars
  BY <1>1
<1> QED
  BY <1>2, IInvHolds, PTL DEF Spec, Conserved

LEMMA PromiseSound ==
  ASSUME NEW s
  PROVE  Promise!Sound(s) <=> Sound(s)
<1>1. \A n : Promise!TotalIn(s, n) = TotalIn(s, n)
  BY DEF Promise!TotalIn, TotalIn, Promise!InStock, InStock, Promise!Units, Units,
    Promise!AmountIn, AmountIn, Promise!Amounts, Amounts, Promise!Cardinality, Cardinality
<1> QED
  BY <1>1 DEF Promise!Sound, Sound

\* The initial states are initial states of the ledger.
LEMMA InitKeepsPromise == Init => Promise!Init
BY DEF Init, Promise!Init

\* A step of the inventory is a step of the ledger or leaves it as it is.
LEMMA StepKeepsPromise ==
  ASSUME IInv, [Next]_vars
  PROVE  [Promise!Next]_(Promise!vars)
<1>1. TypeInv' /\ LedgerInv'
  BY IInvStep DEF IInv
<1>2. ASSUME UNCHANGED <<stock, reserved, stale>>,
             (listener # "unborn") = (listener' # "unborn"),
             (restore = "applied") = (restore' = "applied")
      PROVE  UNCHANGED Promise!vars
  BY <1>2 DEF Promise!vars
<1>3. CASE ApplyRestore
  <2>1. Sound(Current)' /\ Current' = [stock |-> stock', reserved |-> reserved']
    BY <1>3, LedgerRestore DEF Current
  <2>2. Promise!Sound([stock |-> stock', reserved |-> reserved'])
    BY <2>1, PromiseSound
  <2>3. restore # "applied" /\ restore' = "applied" /\ UNCHANGED listener
    BY <1>3 DEF ApplyRestore, loopVars
  <2>4. stale' \in BOOLEAN
    BY <1>1 DEF TypeInv, TypeOK
  <2>5. Promise!Restore
    BY <2>2, <2>3, <2>4 DEF Promise!Restore
  <2> QED
    BY <2>5 DEF Promise!Next
<1>4. CASE stale /\ ~ApplyRestore
  <2>1. UNCHANGED stale
    BY <1>4 DEF Next, ListenerStep, RestoreStep, PersistenceStep, StopStep, ClientSends, Insert,
      Listen, CheckStatus, TakeStop, TakeLagged, TakeOther, End, CheckReserve, LookUpReceipt,
      CommitReserve, CommitRelease, Panic, PanicOn, AskGet, HandleGet, HandleSet,
      PersistenceStops, StopBegin, StopSeesStopped, StopForces, Save, Terminated, vars,
      historyVars
  <2> QED
    BY <1>4, <2>1 DEF Promise!Next
<1> DEFINE Kept == UNCHANGED stale /\ (restore = "applied") = (restore' = "applied")
<1>5. ASSUME ~stale, CommitReserve \/ CommitRelease PROVE Promise!Step /\ Kept
  <2>1. Kept
    BY <1>5 DEF CommitReserve, CommitRelease, sideVars, historyVars
  <2>2. Promise!Step
    BY <1>1, <1>5, CommitGrants, CommitRedeems DEF Promise!Step, IInv, TypeInv, TypeOK,
       CommitReserve
  <2> QED
    BY <2>1, <2>2
<1>6. ASSUME ~stale, NEW n \in Names, NEW a \in Amounts, Insert(n, a)
      PROVE  Promise!Step /\ Kept
  <2>1. Kept
    BY <1>6 DEF Insert, sideVars, historyVars
  <2>2. Promise!Step
    BY <1>1, <1>6, InsertPuts DEF Promise!Step, Promise!Amounts, Amounts
  <2> QED
    BY <2>1, <2>2
<1>7. ASSUME ~stale, Listen PROVE Promise!Step /\ Kept
  BY <1>7 DEF Listen, sideVars, historyVars, mapVars, Promise!Step, Promise!Open
<1>8. ASSUME \/ \E m \in Messages : ClientSends(m)
             \/ CheckStatus \/ TakeStop \/ TakeLagged \/ TakeOther
             \/ \E r \in Requests : CheckReserve(r)
             \/ \E i \in ReceiptIds : LookUpReceipt(i)
             \/ StopBegin \/ StopStep \/ UNCHANGED vars
      PROVE  UNCHANGED Promise!vars
  <2>1. UNCHANGED <<stock, reserved, stale, restore>>
    BY <1>8 DEF ClientSends, CheckStatus, TakeStop, TakeLagged, TakeOther, End, CheckReserve,
      LookUpReceipt, StopBegin, StopStep, StopSeesStopped, StopForces, Save, vars, mapVars,
      sideVars, historyVars
  <2>2. (listener # "unborn") = (listener' # "unborn")
    BY <1>8 DEF ClientSends, Subscribed, CheckStatus, TakeStop, TakeLagged, TakeOther, Takes, End,
      CheckReserve, LookUpReceipt, StopBegin, StopStep, StopSeesStopped, StopForces, Save, vars,
      loopVars
  <2> QED
    BY <1>2, <2>1, <2>2
<1>9. ASSUME AskGet \/ PersistenceStep \/ PersistenceStops PROVE UNCHANGED Promise!vars
  <2>1. UNCHANGED <<stock, reserved, stale, listener>>
    BY <1>9 DEF AskGet, PersistenceStep, HandleGet, HandleSet, PersistenceStops, mapVars,
      loopVars, historyVars
  <2>2. (restore = "applied") = (restore' = "applied")
    BY <1>9, GetAnswered DEF AskGet, PersistenceStep, HandleGet, HandleSet, PersistenceStops
  <2> QED
    BY <1>2, <2>1, <2>2
<1>10. ASSUME ~stale, ListenerStep PROVE UNCHANGED Promise!vars \/ (Promise!Step /\ Kept)
  BY <1>5, <1>7, <1>8, <1>10, NoPanic DEF ListenerStep
<1>11. ASSUME ~stale, Promise!Step, Kept PROVE Promise!Next
  BY <1>11 DEF Promise!Next
<1> HIDE DEF Kept
<1>12. CASE ~stale /\ ~ApplyRestore
  BY <1>6, <1>8, <1>9, <1>10, <1>11, <1>12 DEF Next, RestoreStep, Terminated
<1> QED
  BY <1>3, <1>4, <1>12

\* The inventory, with its checks and updates under separate locks, implements the ledger
\* for as long as no restore comes between a check and its update.
THEOREM InventoryImplementsLedger == Spec => ImplementsLedger
<1>1. IInv /\ [Next]_vars => [Promise!Next]_(Promise!vars)
  BY StepKeepsPromise
<1> QED
  BY <1>1, InitKeepsPromise, IInvHolds, PTL DEF Spec, ImplementsLedger, Promise!Spec

\* As long as the restore was not applied, no receipt was touched by it.
NotTouched == restore # "applied" => overwritten = {}

\* What inventory.rs:630 asserts holds as long as nothing was restored: an id that a
\* reservation was answered with is on file until it is released. (See the run of
\* ReservationKept for what a restore does to it.)
THEOREM KeptUntilRestore == Spec => [](restore # "applied" => ReservationKept)
<1>1. Init => NotTouched
  BY DEF Init, NotTouched
<1>2. IInv /\ NotTouched /\ [Next]_vars => NotTouched'
  <2> SUFFICES ASSUME IInv, NotTouched, [Next]_vars, restore' # "applied" PROVE overwritten' = {}
    BY DEF NotTouched
  <2> USE DEF ListenerStep, RestoreStep, StopStep
  <2>1. ~ApplyRestore
    BY DEF ApplyRestore
  <2>2. UNCHANGED overwritten
    BY <2>1 DEF Next, ClientSends, Insert, Listen, CheckStatus, TakeStop, TakeLagged, TakeOther,
      End, CheckReserve, LookUpReceipt, CommitReserve, CommitRelease, Panic, PanicOn, AskGet,
      PersistenceStep, HandleGet, HandleSet, PersistenceStops, StopBegin, StopSeesStopped,
      StopForces, Save, Terminated, vars, receiptVars
  <2>3. restore # "applied"
    BY <2>1, GetAnswered DEF Next, ClientSends, Insert, Listen, CheckStatus, TakeStop, TakeLagged,
      TakeOther, End, CheckReserve, LookUpReceipt, CommitReserve, CommitRelease, Panic, PanicOn,
      AskGet, PersistenceStep, HandleSet, PersistenceStops, StopBegin, StopSeesStopped,
      StopForces, Save, Terminated, vars, sideVars
  <2> QED
    BY <2>2, <2>3 DEF NotTouched
<1>3. IInv /\ NotTouched /\ ReceiptsExact => (restore # "applied" => ReservationKept)
  BY DEF NotTouched, ReceiptsExact, ReservationKept, IInv, TypeInv, TypeOK
<1> QED
  BY <1>1, <1>2, <1>3, IInvHolds, ReceiptsRedeemedOnce, PTL DEF Spec

=============================================================================
