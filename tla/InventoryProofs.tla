--------------------------- MODULE InventoryProofs ---------------------------
(***************************************************************************)
(* Proofs about Inventory for any orders, products, consumers and          *)
(* administrators: the inductive invariant IInv, and from it that nothing  *)
(* is oversold and, where no product is posted twice, that the ledger      *)
(* explains the stock and no unit disappears.  With OnceInv: where         *)
(* duplicates do not overlap, the ledger keeps a command from being        *)
(* carried out twice.                                                      *)
(***************************************************************************)
EXTENDS Inventory, FiniteSetTheorems, FunctionTheorems, WellFoundedInduction, TLAPS

LEMMA InitIInv == Init => IInv
<1> SUFFICES ASSUME Init PROVE IInv
  OBVIOUS
<1> USE ConstantsAssumption DEF Init
<1>1. TypeOK
  BY DEF TypeOK
<1>2. NeverNegative /\ UnitsKept
  BY DEF NeverNegative, UnitsKept
<1>3. LocksAreHeld /\ DeltasPending /\ EditsKnow
  BY DEF LocksAreHeld, DeltasPending, EditsKnow
<1>4. RowsExist
  BY DEF RowsExist, AnsweredHasRows, TakenHasRows, Sent, Working
<1>5. LedgerExplainsStock
  BY DEF LedgerExplainsStock
<1> QED
  BY <1>1, <1>2, <1>3, <1>4, <1>5 DEF IInv

\* The items of an order are numbered from one.
LEMMA ItemsNumbered ==
    ASSUME NEW o \in Orders
    PROVE  /\ Items[o] \in Seq(Item) /\ Len(Items[o]) \in Nat
           /\ DOMAIN Items[o] = 1 .. Len(Items[o])
           /\ \A i \in DOMAIN Items[o] :
                 Items[o][i].product \in Products /\ Items[o][i].quantity \in Nat \ {0}
<1>1. Items[o] \in Seq(Item)
  BY ConstantsAssumption
<1>2. Len(Items[o]) \in Nat /\ DOMAIN Items[o] = 1 .. Len(Items[o])
  BY <1>1
<1>3. ASSUME NEW i \in DOMAIN Items[o]
      PROVE  Items[o][i].product \in Products /\ Items[o][i].quantity \in Nat \ {0}
  <2>1. Items[o][i] \in Item
    BY <1>1, <1>2, <1>3
  <2> QED
    BY <2>1 DEF Item
<1> QED
  BY <1>1, <1>2, <1>3

\* The record of a worker at work.
LEMMA WorkRecord ==
    ASSUME TypeOK, NEW w \in Workers, work[w] # Idle
    PROVE  /\ work[w] \in Work
           /\ work[w].order \in Orders /\ work[w].next \in Nat \ {0}
           /\ work[w].ledger \in [Products -> Int]
           /\ work[w].op \in {"reserve", "release", "refused"}
BY DEF TypeOK, Work

\* The item a worker has come to.
LEMMA ItemRecord ==
    ASSUME TypeOK, NEW w \in Workers, work[w] # Idle, HasItem(w)
    PROVE  /\ work[w].next \in DOMAIN Items[work[w].order]
           /\ NextItem(w).product \in Products
           /\ NextItem(w).quantity \in Nat \ {0}
<1>1. work[w].order \in Orders /\ work[w].next \in Nat \ {0}
  BY WorkRecord
<1>2. work[w].next \in DOMAIN Items[work[w].order]
  BY <1>1, ItemsNumbered DEF HasItem
<1> QED
  BY <1>1, <1>2, ItemsNumbered DEF NextItem

\* Messages of other topics and about products are not commands or answers.
LEMMA MsgEqual == \A t, u, o, p : Msg(t, o) = Msg(u, p) <=> t = u /\ o = p
<1> SUFFICES ASSUME NEW t, NEW u, NEW o, NEW p, Msg(t, o) = Msg(u, p) PROVE t = u /\ o = p
  OBVIOUS
<1>1. /\ Msg(t, o).topic = t /\ Msg(u, p).topic = u
      /\ Msg(t, o).order = o /\ Msg(u, p).order = p
  BY DEF Msg
<1> QED
  BY <1>1

\* Steps after which no answer of the saga is new, and whose rows, ledger,
\* transactions and upserts are as before.
LEMMA QuietStep ==
    ASSUME IInv, UNCHANGED <<row, lock, draft, reserves, releases, booked, work, edit, aborts>>,
           RowsExist'
    PROVE  IInv'
<1> USE DEF IInv
<1>1. TypeOK'
  BY DEF TypeOK
<1>2. NeverNegative' /\ LocksAreHeld' /\ DeltasPending' /\ EditsKnow'
  BY DEF NeverNegative, LocksAreHeld, DeltasPending, EditsKnow, Working
<1>3. (~Restock => LedgerExplainsStock /\ UnitsKept)'
  BY DEF LedgerExplainsStock, UnitsKept
<1> QED
  BY <1>1, <1>2, <1>3

\* The rows that answers and workers rely on stay.
LEMMA RowsExistStays ==
    ASSUME NEW w \in Workers, TypeOK, TakenHasRows(w), work'[w] = work[w],
           \A p \in Products : row[p] # NoRow => row'[p] # NoRow,
           \A o \in Orders : Sent("inventory.reserved", o) => Sent("inventory.reserved", o)'
    PROVE  TakenHasRows(w)'
<1>1. CASE work[w] = Idle
  BY <1>1 DEF TakenHasRows, Working
<1>2. CASE work[w] # Idle
  <2>1. work[w].order \in Orders
    BY <1>2, WorkRecord
  <2>2. \A i \in DOMAIN Items[work[w].order] : Items[work[w].order][i].product \in Products
    BY <2>1, ItemsNumbered
  <2> QED
    BY <2>1, <2>2 DEF TakenHasRows, Working, Sent
<1> QED
  BY <1>1, <1>2

LEMMA AnswersStay ==
    ASSUME NEW o \in Orders, AnsweredHasRows(o),
           \A p \in Products : row[p] # NoRow => row'[p] # NoRow,
           Sent("inventory.reserved", o)' <=> Sent("inventory.reserved", o),
           Sent("inventory.release", o)' =>
               Sent("inventory.release", o) \/ Sent("inventory.reserved", o)
    PROVE  AnsweredHasRows(o)'
<1>1. \A i \in DOMAIN Items[o] : Items[o][i].product \in Products
  BY ItemsNumbered
<1> QED
  BY <1>1 DEF AnsweredHasRows

\* order-service asks for a release only after inventory.reserved.
LEMMA CommandStep ==
    ASSUME IInv, NEW o \in Orders, NEW t \in {"inventory.reserve", "inventory.release"},
           Command(t, o)
    PROVE  IInv'
<1>1. \A p \in Orders :
         /\ Sent("inventory.reserved", p)' <=> Sent("inventory.reserved", p)
         /\ Sent("inventory.release", p)' =>
               Sent("inventory.release", p) \/ Sent("inventory.reserved", p)
  BY MsgEqual DEF Command, Sent
<1>2. UNCHANGED <<row, lock, draft, reserves, releases, booked, work, edit, aborts>>
  BY DEF Command
<1>3. RowsExist'
  BY <1>1, <1>2, AnswersStay, RowsExistStays DEF RowsExist, IInv
<1> QED
  BY <1>2, <1>3, QuietStep

\* A worker that is not in a transaction holds no lock.
LEMMA IdleHoldsNothing ==
    ASSUME IInv, NEW w \in Workers, ~Working(w, "reserve"), ~Working(w, "release")
    PROVE  \A p \in Products : lock[p] # w
BY ConstantsAssumption DEF IInv, LocksAreHeld

\* reserve and release begin a transaction that has not done anything.
LEMMA StartStep ==
    ASSUME IInv, NEW w \in Workers, NEW o \in Orders, ReserveBegin(w, o) \/ ReleaseBegin(w, o)
    PROVE  IInv'
<1> USE ConstantsAssumption DEF IInv
<1>1. PICK op \in {"reserve", "release"} :
         /\ work[w] = Idle /\ Start(w, op, o)
         /\ op = "release" => Sent("inventory.reserved", o)
         /\ UNCHANGED <<row, lock, draft, reserves, releases, booked, events, edit, aborts>>
  BY DEF ReserveBegin, ReleaseBegin, Delivered, RowsExist, AnsweredHasRows
<1> DEFINE begun == [op |-> op, order |-> o, next |-> 1, ledger |-> NoDeltas]
<1>2. /\ begun \in Work /\ begun # Idle /\ begun.order = o /\ begun.next = 1
      /\ begun.op = op /\ \A p \in Products : begun.ledger[p] = 0
  BY DEF Work, NoDeltas
<1>3. work' = [work EXCEPT ![w] = begun]
  BY <1>1 DEF Start, Proceed
<1> HIDE DEF begun
<1>4. \A p \in Products : lock[p] # w
  BY <1>1, IdleHoldsNothing DEF Working
<1>5. 1 <= Len(Items[o]) + 1 /\ \A i \in DOMAIN Items[o] : ~(i < 1)
  BY ItemsNumbered
<1>6. begun.next <= Len(Items[begun.order]) + 1
  BY <1>2, <1>5
<1>7. work'[w] = begun /\ \A v \in Workers : v # w => work'[v] = work[v]
  BY <1>3 DEF TypeOK
<1>12. TypeOK'
  BY <1>1, <1>2, <1>3, <1>6, <1>7 DEF TypeOK
<1>8. NeverNegative' /\ EditsKnow' /\ (~Restock => LedgerExplainsStock /\ UnitsKept)'
  BY <1>1 DEF NeverNegative, EditsKnow, LedgerExplainsStock, UnitsKept
<1>9. LocksAreHeld'
  BY <1>1, <1>4, <1>7 DEF LocksAreHeld, Working, TypeOK
<1>10. RowsExist'
  <2>1. \A p \in Orders : AnsweredHasRows(p)'
    BY <1>1 DEF RowsExist, AnsweredHasRows, Sent, Msg
  <2>2. \A v \in Workers : v # w => TakenHasRows(v)'
    BY <1>1, <1>7, RowsExistStays DEF RowsExist, Sent, Msg
  <2>3. TakenHasRows(w)'
    <3>1. ~\E i \in DOMAIN Items[work'[w].order] : i < work'[w].next
      BY <1>2, <1>5, <1>7
    <3>2. (Working(w, "release") => Sent("inventory.reserved", work[w].order))'
      BY <1>1, <1>2, <1>7 DEF Working, Sent, Msg
    <3> QED
      BY <3>1, <3>2 DEF TakenHasRows
  <2> QED
    BY <2>1, <2>2, <2>3 DEF RowsExist
<1>11. DeltasPending'
  BY <1>1, <1>2, <1>4, <1>7 DEF DeltasPending
<1> QED
  BY <1>8, <1>9, <1>10, <1>11, <1>12

LEMMA RecordedType ==
    ASSUME NEW ledger \in [Orders -> Nat], NEW o \in Orders
    PROVE  Recorded(ledger, o) \in [Orders -> Nat]
<1>1. CASE Items[o] = <<>>
  <2>1. Recorded(ledger, o) = [ledger EXCEPT ![o] = ledger[o]]
    BY <1>1 DEF Recorded
  <2> QED
    BY <2>1
<1>2. CASE Items[o] # <<>>
  <2>1. Recorded(ledger, o) = [ledger EXCEPT ![o] = ledger[o] + 1]
    BY <1>2 DEF Recorded
  <2> QED
    BY <2>1
<1> QED
  BY <1>1, <1>2

\* A transaction that is given up leaves no trace.
LEMMA EndStep ==
    ASSUME IInv, NEW w \in Workers, EndTransaction(w),
           UNCHANGED <<row, reserves, releases, booked, events, edit>>, aborts' \in 0 .. MaxAborts,
           \/ work' = [work EXCEPT ![w] = Idle]
           \/ work[w] # Idle /\ Refuse(w)
    PROVE  IInv'
<1> USE DEF IInv
<1>1. \/ work'[w] = Idle
      \/ /\ work'[w] # Idle /\ work'[w] \in Work /\ work'[w].op = "refused"
         /\ work'[w].next <= Len(Items[work'[w].order]) + 1
         /\ \A p \in Products : work'[w].ledger[p] = 0
  <2>1. CASE work' = [work EXCEPT ![w] = Idle]
    BY <2>1 DEF TypeOK
  <2>2. CASE work[w] # Idle /\ Refuse(w)
    <3>1. work[w].order \in Orders /\ work[w].next \in Nat \ {0} /\ NoDeltas \in [Products -> Int]
      BY <2>2, WorkRecord DEF NoDeltas
    <3>2. work[w].next <= Len(Items[work[w].order]) + 1
      BY <2>2 DEF TypeOK
    <3>3. work'[w] = [op |-> "refused", order |-> work[w].order, next |-> work[w].next,
                      ledger |-> NoDeltas]
      BY <2>2 DEF Refuse, Proceed, TypeOK
    <3>4. work'[w] \in Work
      BY <3>1, <3>3 DEF Work
    <3> QED
      BY <3>2, <3>3, <3>4, ConstantsAssumption DEF NoDeltas
  <2> QED
    BY <2>1, <2>2
<1>2. \A v \in Workers : v # w => work'[v] = work[v]
  BY DEF TypeOK, Refuse, Proceed
<1>3. work' \in [Workers -> Work \cup {Idle}]
  <2>1. DOMAIN work' = Workers /\ work' = [v \in Workers |-> work'[v]]
    BY DEF TypeOK, Refuse, Proceed
  <2>2. \A v \in Workers : work'[v] \in Work \cup {Idle}
    BY <1>1, <1>2 DEF TypeOK
  <2> QED
    BY <2>1, <2>2
<1>4. \A p \in Products :
         /\ lock'[p] = IF lock[p] = w THEN Free ELSE lock[p]
         /\ draft'[p] = IF lock[p] = w THEN NoRow ELSE draft[p]
  BY DEF EndTransaction
<1>5. /\ lock' \in [Products -> Workers \cup {Free}]
      /\ draft' \in [Products -> Row \cup {NoRow}]
  BY DEF EndTransaction, TypeOK
<1>6. TypeOK'
  BY <1>1, <1>2, <1>3, <1>5 DEF TypeOK
<1>7. NeverNegative' /\ (~Restock => LedgerExplainsStock /\ UnitsKept)'
  BY <1>4 DEF NeverNegative, LedgerExplainsStock, UnitsKept
<1>8. LocksAreHeld'
  BY <1>2, <1>4 DEF LocksAreHeld, Working, TypeOK
<1>9. RowsExist'
  <2>1. \A o \in Orders : AnsweredHasRows(o)'
    BY DEF RowsExist, AnsweredHasRows, Sent, Msg
  <2>2. \A v \in Workers : v # w => TakenHasRows(v)'
    BY <1>2, RowsExistStays DEF RowsExist, Sent, Msg
  <2>3. TakenHasRows(w)'
    BY <1>1 DEF TakenHasRows, Working
  <2> QED
    BY <2>1, <2>2, <2>3 DEF RowsExist
<1>10. DeltasPending'
  BY <1>1, <1>2, <1>4, ConstantsAssumption DEF DeltasPending
<1>11. EditsKnow'
  BY DEF EditsKnow
<1> QED
  BY <1>6, <1>7, <1>8, <1>9, <1>10, <1>11

\* The refusal is announced outside any transaction.
LEMMA AnnounceStep == ASSUME IInv, NEW w \in Workers, AnnounceRefusal(w) PROVE IInv'
<1> USE DEF IInv
<1>1. /\ Working(w, "refused") /\ work' = [work EXCEPT ![w] = Idle]
      /\ events' = events \cup {Msg("inventory.reservation-failed", work[w].order)}
      /\ UNCHANGED <<row, lock, draft, reserves, releases, booked, edit, aborts>>
  BY DEF AnnounceRefusal
<1>2. work'[w] = Idle /\ \A v \in Workers : v # w => work'[v] = work[v]
  BY <1>1 DEF TypeOK
<1>3. \A p \in Products : lock[p] # w
  BY <1>1, IdleHoldsNothing DEF Working
<1>4. TypeOK'
  BY <1>1, <1>2 DEF TypeOK
<1>5. NeverNegative' /\ EditsKnow' /\ (~Restock => LedgerExplainsStock /\ UnitsKept)'
  BY <1>1 DEF NeverNegative, EditsKnow, LedgerExplainsStock, UnitsKept
<1>6. LocksAreHeld' /\ DeltasPending'
  BY <1>1, <1>2, <1>3 DEF LocksAreHeld, DeltasPending, Working, TypeOK
<1>7. \A o \in Orders :
         /\ Sent("inventory.reserved", o)' <=> Sent("inventory.reserved", o)
         /\ Sent("inventory.release", o)' <=> Sent("inventory.release", o)
  BY <1>1, MsgEqual DEF Sent
<1>8. TakenHasRows(w)'
  BY <1>2 DEF TakenHasRows, Working
<1>9. RowsExist'
  BY <1>1, <1>2, <1>7, <1>8, AnswersStay, RowsExistStays DEF RowsExist
<1> QED
  BY <1>4, <1>5, <1>6, <1>9

\* COMMIT turns drafts into rows and pending deltas into ledger rows.
LEMMA CommitStep ==
    ASSUME IInv, NEW w \in Workers, ReserveCommit(w) \/ ReleaseCommit(w)
    PROVE  IInv'
<1> USE DEF IInv
<1>1. PICK t \in {"inventory.reserved", "inventory.released"} :
         /\ Working(w, "reserve") \/ Working(w, "release")
         /\ t = "inventory.reserved" => Working(w, "reserve") /\ ~HasItem(w)
         /\ events' = events \cup {Msg(t, work[w].order)}
  BY DEF ReserveCommit, ReleaseCommit
<1>2. /\ Commit(w) /\ EndTransaction(w)
      /\ work' = [work EXCEPT ![w] = Idle]
      /\ UNCHANGED <<edit, aborts>>
  BY DEF ReserveCommit, ReleaseCommit
<1>3. reserves' \in [Orders -> Nat] /\ releases' \in [Orders -> Nat]
  <2>1. work[w].order \in Orders
    BY <1>1, WorkRecord DEF Working
  <2> QED
    BY <2>1, RecordedType DEF ReserveCommit, ReleaseCommit, TypeOK
<1>4. work'[w] = Idle /\ \A v \in Workers : v # w => work'[v] = work[v]
  BY <1>2 DEF TypeOK
<1>5. work[w] # Idle /\ work[w].order \in Orders /\ work[w].ledger \in [Products -> Int]
  BY <1>1, WorkRecord DEF Working
<1>6. \A p \in Products :
         /\ row'[p] = IF lock[p] = w THEN draft[p] ELSE row[p]
         /\ booked'[p] = booked[p] + work[w].ledger[p]
         /\ lock'[p] = IF lock[p] = w THEN Free ELSE lock[p]
         /\ draft'[p] = IF lock[p] = w THEN NoRow ELSE draft[p]
  BY <1>2 DEF Commit, EndTransaction
<1>7. \A p \in Products : row[p] # NoRow => row'[p] # NoRow
  BY <1>6, ConstantsAssumption DEF LocksAreHeld
<1>8. TypeOK'
  <2>1. row' \in [Products -> Row \cup {NoRow}] /\ booked' \in [Products -> Int]
    BY <1>2, <1>5 DEF Commit, TypeOK
  <2>2. /\ lock' \in [Products -> Workers \cup {Free}]
        /\ draft' \in [Products -> Row \cup {NoRow}]
    BY <1>2 DEF EndTransaction, TypeOK
  <2> QED
    BY <1>2, <1>3, <1>4, <2>1, <2>2 DEF TypeOK
<1>9. NeverNegative' /\ (~Restock => UnitsKept)'
  BY <1>6 DEF NeverNegative, UnitsKept
<1>10. (~Restock => LedgerExplainsStock)'
  <2>1. ASSUME ~Restock, NEW p \in Products
        PROVE  booked'[p] = IF row'[p] = NoRow THEN 0 ELSE row'[p].available
    <3>1. booked[p] = IF row[p] = NoRow THEN 0 ELSE row[p].available
      BY <2>1 DEF LedgerExplainsStock
    <3>2. CASE lock[p] = w
      BY <1>5, <1>6, <3>1, <3>2, ConstantsAssumption DEF DeltasPending, LocksAreHeld
    <3>3. CASE lock[p] # w
      <4>1. work[w].ledger[p] = 0 /\ row'[p] = row[p] /\ booked[p] \in Int
        BY <1>5, <1>6, <3>3 DEF DeltasPending, TypeOK
      <4> QED
        BY <1>6, <3>1, <4>1
    <3> QED
      BY <3>2, <3>3
  <2> QED
    BY <2>1 DEF LedgerExplainsStock
<1>11. LocksAreHeld'
  BY <1>4, <1>6, <1>7 DEF LocksAreHeld, Working, TypeOK
<1>12. RowsExist'
  <2>1. \A o \in Orders : AnsweredHasRows(o)'
    <3> SUFFICES ASSUME NEW o \in Orders PROVE AnsweredHasRows(o)'
      OBVIOUS
    <3>1. Sent("inventory.release", o)' <=> Sent("inventory.release", o)
      BY <1>1, MsgEqual DEF Sent
    <3>2. CASE t = "inventory.reserved" /\ o = work[w].order
      <4>1. \A i \in DOMAIN Items[o] : i < work[w].next
        BY <1>1, <1>5, <3>2, ItemsNumbered, WorkRecord DEF HasItem
      <4>2. \A i \in DOMAIN Items[o] : row[Items[o][i].product] # NoRow
        BY <1>1, <3>2, <4>1 DEF RowsExist, TakenHasRows
      <4>3. Sent("inventory.reserved", o)'
        BY <1>1, <3>2 DEF Sent
      <4> QED
        BY <1>7, <4>2, <4>3, ItemsNumbered DEF AnsweredHasRows
    <3>3. CASE ~(t = "inventory.reserved" /\ o = work[w].order)
      <4>1. Sent("inventory.reserved", o)' <=> Sent("inventory.reserved", o)
        BY <1>1, <3>3, MsgEqual DEF Sent
      <4> QED
        BY <1>7, <3>1, <4>1, AnswersStay DEF RowsExist
    <3> QED
      BY <3>2, <3>3
  <2>2. \A o \in Orders : Sent("inventory.reserved", o) => Sent("inventory.reserved", o)'
    BY <1>1 DEF Sent, Msg
  <2>3. \A v \in Workers : v # w => TakenHasRows(v)'
    BY <1>4, <1>7, <2>2, RowsExistStays DEF RowsExist
  <2>4. TakenHasRows(w)'
    BY <1>4 DEF TakenHasRows, Working
  <2> QED
    BY <2>1, <2>3, <2>4 DEF RowsExist
<1>13. DeltasPending'
  BY <1>4, <1>6, ConstantsAssumption DEF DeltasPending
<1>14. EditsKnow'
  <2>1. \A a \in Admins : edit[a] # Idle => edit[a].product \in Products
    BY DEF TypeOK, Edit
  <2> QED
    BY <1>2, <1>7, <2>1 DEF EditsKnow
<1> QED
  BY <1>8, <1>9, <1>10, <1>11, <1>12, <1>13, <1>14

\* One more item is locked and drafted: what is available changes by what is
\* booked, and nothing that was accounted for gets lost.
LEMMA ItemStep ==
    ASSUME IInv, NEW w \in Workers, NEW d \in Int, NEW version \in Row,
           Working(w, "reserve") \/ Working(w, "release"), HasItem(w),
           Seen(w, NextItem(w).product) # NoRow, Lockable(w, NextItem(w).product),
           version.quantity >= 0 /\ version.reserved >= 0 /\ version.available >= 0,
           version.available = Seen(w, NextItem(w).product).available + d,
           version.quantity = Seen(w, NextItem(w).product).quantity,
           version.reserved + version.available >=
               Seen(w, NextItem(w).product).reserved + Seen(w, NextItem(w).product).available,
           lock' = [lock EXCEPT ![NextItem(w).product] = w],
           draft' = [draft EXCEPT ![NextItem(w).product] = version],
           Book(w, d),
           UNCHANGED <<row, reserves, releases, booked, events, edit, aborts>>
    PROVE  IInv'
<1> USE DEF IInv
<1> DEFINE p == NextItem(w).product
           ledger == [work[w].ledger EXCEPT ![p] = @ + d]
<1>1. work[w] # Idle
  BY DEF Working
<1>2. /\ work[w].order \in Orders /\ work[w].next \in Nat \ {0}
      /\ work[w].ledger \in [Products -> Int] /\ p \in Products
      /\ work[w].op \in {"reserve", "release"}
  BY <1>1, WorkRecord, ItemRecord DEF Working
<1>3. /\ ledger \in [Products -> Int] /\ ledger[p] = work[w].ledger[p] + d
      /\ \A r \in Products : r # p => ledger[r] = work[w].ledger[r]
  BY <1>2
<1>4. /\ Len(Items[work[w].order]) \in Nat
      /\ work[w].next + 1 <= Len(Items[work[w].order]) + 1
  BY <1>2, ItemsNumbered DEF HasItem
<1>5. work'[w] = [op |-> work[w].op, order |-> work[w].order, next |-> work[w].next + 1,
                  ledger |-> ledger]
  BY DEF Book, Proceed, TypeOK
<1>6. \A v \in Workers : v # w => work'[v] = work[v]
  BY DEF Book, Proceed, TypeOK
<1>7. row[p] # NoRow /\ Seen(w, p) \in Row
  BY <1>2, ConstantsAssumption DEF Seen, LocksAreHeld, TypeOK
<1>8. lock[p] \in {Free, w}
  BY DEF Lockable
<1>9. \A r \in Products :
         /\ lock'[r] = IF r = p THEN w ELSE lock[r]
         /\ draft'[r] = IF r = p THEN version ELSE draft[r]
  BY <1>2 DEF TypeOK
<1>10. /\ version.available = Seen(w, p).available + d
       /\ version.quantity = Seen(w, p).quantity
  OBVIOUS
<1> HIDE DEF p, ledger
<1>11. work'[w] \in Work /\ work'[w] # Idle
  <2>1. work'[w] \in Work
    BY <1>2, <1>3, <1>5 DEF Work
  <2> QED
    BY <2>1, ConstantsAssumption
<1>12. TypeOK'
  <2>1. work' \in [Workers -> Work \cup {Idle}]
    BY <1>11 DEF Book, Proceed, TypeOK
  <2>2. work'[w].next <= Len(Items[work'[w].order]) + 1
    BY <1>4, <1>5
  <2>3. /\ lock' \in [Products -> Workers \cup {Free}]
        /\ draft' \in [Products -> Row \cup {NoRow}]
    BY <1>2 DEF p, TypeOK
  <2> QED
    BY <1>6, <2>1, <2>2, <2>3 DEF TypeOK
<1>13. NeverNegative'
  BY <1>9 DEF NeverNegative
<1>14. LocksAreHeld'
  <2>1. ASSUME NEW r \in Products, r # p, lock[r] # Free
        PROVE  (Working(lock[r], "reserve") \/ Working(lock[r], "release"))'
    <3>1. lock'[r] = lock[r] /\ lock[r] \in Workers
      BY <1>9, <2>1 DEF TypeOK
    <3>2. Working(lock[r], "reserve") \/ Working(lock[r], "release")
      BY <2>1 DEF LocksAreHeld
    <3>3. CASE lock[r] = w
      BY <1>2, <1>5, <1>11, <3>1, <3>3 DEF Working
    <3>4. CASE lock[r] # w
      BY <1>6, <3>1, <3>2, <3>4 DEF Working
    <3> QED
      BY <3>3, <3>4
  <2>2. (Working(w, "reserve") \/ Working(w, "release"))'
    BY <1>2, <1>5, <1>11 DEF Working
  <2>3. version # NoRow
    BY ConstantsAssumption
  <2> QED
    BY <1>7, <1>9, <2>1, <2>2, <2>3 DEF LocksAreHeld
<1>15. RowsExist'
  <2>1. \A o \in Orders : AnsweredHasRows(o)'
    BY DEF RowsExist, AnsweredHasRows, Sent, Msg
  <2>2. \A v \in Workers : v # w => TakenHasRows(v)'
    BY <1>6, RowsExistStays DEF RowsExist, Sent, Msg
  <2>3. TakenHasRows(w)'
    <3>1. Working(w, "reserve")' => Working(w, "reserve")
      BY <1>1, <1>5 DEF Working
    <3>2. (Working(w, "release") => Sent("inventory.reserved", work[w].order))'
      BY <1>1, <1>5 DEF RowsExist, TakenHasRows, Working, Sent, Msg
    <3>3. ASSUME Working(w, "reserve"), NEW i \in DOMAIN Items[work[w].order],
                 i < work[w].next + 1
          PROVE  row[Items[work[w].order][i].product] # NoRow
      <4>1. i \in Nat
        BY <1>2, ItemsNumbered
      <4>2. CASE i = work[w].next
        BY <1>7, <4>2 DEF p, NextItem
      <4>3. CASE i < work[w].next
        BY <3>3, <4>3 DEF RowsExist, TakenHasRows
      <4> QED
        BY <1>2, <3>3, <4>1, <4>2, <4>3
    <3> QED
      BY <1>5, <3>1, <3>2, <3>3 DEF TakenHasRows
  <2> QED
    BY <2>1, <2>2, <2>3 DEF RowsExist
<1>16. DeltasPending'
  <2> SUFFICES ASSUME NEW v \in Workers, NEW r \in Products, work'[v] # Idle
               PROVE  IF lock'[r] = v
                      THEN draft'[r].available = row'[r].available + work'[v].ledger[r]
                      ELSE work'[v].ledger[r] = 0
    BY DEF DeltasPending
  <2>1. CASE v # w
    <3>1. (lock'[r] = v) <=> (lock[r] = v)
      BY <1>8, <1>9, <2>1, ConstantsAssumption
    <3>2. lock[r] = v => r # p
      BY <1>8, <2>1, ConstantsAssumption
    <3> QED
      BY <1>6, <1>9, <2>1, <3>1, <3>2 DEF DeltasPending
  <2>2. CASE v = w /\ r # p
    BY <1>1, <1>3, <1>5, <1>9, <2>2 DEF DeltasPending
  <2>3. CASE v = w /\ r = p
    <3>1. Seen(w, p).available = row[p].available + work[w].ledger[p]
      <4>1. CASE lock[p] = w
        BY <1>1, <1>2, <4>1 DEF DeltasPending, Seen
      <4>2. CASE lock[p] # w
        <5>1. work[w].ledger[p] = 0 /\ Seen(w, p) = row[p] /\ row[p] \in Row
          BY <1>1, <1>2, <1>7, <4>2 DEF DeltasPending, Seen, TypeOK
        <5> QED
          BY <5>1 DEF Row
      <4> QED
        BY <4>1, <4>2
    <3>2. row[p].available \in Int /\ work[w].ledger[p] \in Int
      BY <1>2, <1>7 DEF TypeOK, Row
    <3> QED
      BY <1>3, <1>5, <1>9, <1>10, <2>3, <3>1, <3>2
  <2> QED
    BY <2>1, <2>2, <2>3
<1>17. (~Restock => LedgerExplainsStock)' /\ EditsKnow'
  BY DEF LedgerExplainsStock, EditsKnow
<1>18. (~Restock => UnitsKept)'
  <2>1. ~Restock => Seen(w, p).quantity <= Seen(w, p).reserved + Seen(w, p).available
    BY <1>2 DEF p, UnitsKept, Seen
  <2>2. ~Restock => version.quantity <= version.reserved + version.available
    BY <1>7, <1>10, <2>1 DEF p, Row
  <2> QED
    BY <1>9, <2>2 DEF UnitsKept
<1> QED
  BY <1>12, <1>13, <1>14, <1>15, <1>16, <1>17, <1>18

\* Updates of two columns of a row give a row.
LEMMA TwoColumns ==
    ASSUME NEW r \in Row, NEW x \in Int, NEW y \in Int
    PROVE  /\ [r EXCEPT !.reserved = x, !.available = y] \in Row
           /\ [r EXCEPT !.quantity = x, !.available = y] \in Row
<1>1. [r EXCEPT !.reserved = x] \in Row /\ [r EXCEPT !.quantity = x] \in Row
  BY DEF Row
<1>2. \A s \in Row : [s EXCEPT !.available = y] \in Row
  BY DEF Row
<1>3. /\ [r EXCEPT !.reserved = x, !.available = y] = [[r EXCEPT !.reserved = x] EXCEPT !.available = y]
      /\ [r EXCEPT !.quantity = x, !.available = y] = [[r EXCEPT !.quantity = x] EXCEPT !.available = y]
  OBVIOUS
<1> QED
  BY <1>1, <1>2, <1>3

LEMMA RowUpdates ==
    ASSUME NEW r \in Row, NEW q \in Int
    PROVE  /\ [r EXCEPT !.reserved = @ + q, !.available = @ - q] \in Row
           /\ [r EXCEPT !.quantity = @ + q, !.available = @ + q] \in Row
           /\ Released(r, q) \in Row
<1>1. r.quantity \in Int /\ r.reserved \in Int /\ r.available \in Int
  BY DEF Row
<1>2. /\ r.reserved + q \in Int /\ r.available - q \in Int /\ r.quantity + q \in Int
      /\ r.available + q \in Int /\ Max0(r.reserved - q) \in Int
  BY <1>1 DEF Max0
<1>3. [r EXCEPT !.reserved = r.reserved + q, !.available = r.available - q] \in Row
  BY <1>2, TwoColumns
<1>4. [r EXCEPT !.quantity = r.quantity + q, !.available = r.available + q] \in Row
  BY <1>2, TwoColumns
<1>5. [r EXCEPT !.reserved = Max0(r.reserved - q), !.available = r.available + q] \in Row
  BY <1>2, TwoColumns
<1> QED
  BY <1>3, <1>4, <1>5 DEF Released

\* What a transaction sees of a row is a possible row.
LEMMA SeenRow ==
    ASSUME IInv, NEW w, NEW p \in Products, Seen(w, p) # NoRow
    PROVE  /\ Seen(w, p) \in Row
           /\ Seen(w, p).quantity >= 0 /\ Seen(w, p).reserved >= 0 /\ Seen(w, p).available >= 0
BY DEF IInv, TypeOK, NeverNegative, Seen

LEMMA ReserveItemStep == ASSUME IInv, NEW w \in Workers, ReserveItem(w) PROVE IInv'
<1> DEFINE p == NextItem(w).product
           q == NextItem(w).quantity
           version == [Seen(w, p) EXCEPT !.reserved = @ + q, !.available = @ - q]
<1>1. Working(w, "reserve") /\ HasItem(w) /\ Lockable(w, p) /\ InStock(w)
  BY DEF ReserveItem
<1>2. p \in Products /\ q \in Nat \ {0} /\ Seen(w, p) # NoRow /\ Seen(w, p).available >= q
  BY <1>1, ItemRecord DEF IInv, Working, InStock
<1>3. /\ Seen(w, p) \in Row
      /\ Seen(w, p).quantity >= 0 /\ Seen(w, p).reserved >= 0 /\ Seen(w, p).available >= 0
  BY <1>2, SeenRow
<1>4. /\ Seen(w, p).quantity \in Int /\ Seen(w, p).reserved \in Int
      /\ Seen(w, p).available \in Int
  BY <1>3 DEF Row
<1>5. version \in Row
  <2>1. q \in Int
    BY <1>2
  <2> QED
    BY <1>3, <2>1, RowUpdates, Zenon
<1>6. /\ version.quantity = Seen(w, p).quantity
      /\ version.reserved = Seen(w, p).reserved + q
      /\ version.available = Seen(w, p).available - q
  BY <1>3 DEF Row
<1>7. /\ lock' = [lock EXCEPT ![p] = w] /\ draft' = [draft EXCEPT ![p] = version]
      /\ Book(w, 0 - q)
      /\ UNCHANGED <<row, reserves, releases, booked, events, edit, aborts>>
  BY DEF ReserveItem
<1> HIDE DEF version
<1>8. /\ version.quantity >= 0 /\ version.reserved >= 0 /\ version.available >= 0
      /\ version.available = Seen(w, p).available + (0 - q)
      /\ version.reserved + version.available >= Seen(w, p).reserved + Seen(w, p).available
      /\ 0 - q \in Int
  BY <1>2, <1>3, <1>4, <1>6
<1> QED
  BY <1>1, <1>2, <1>5, <1>6, <1>7, <1>8, ItemStep

\* The row of an item of a release exists, since the order was reserved.
LEMMA ReleaseItemStep == ASSUME IInv, NEW w \in Workers, ReleaseItem(w) PROVE IInv'
<1> DEFINE p == NextItem(w).product
           q == NextItem(w).quantity
           version == Released(Seen(w, p), q)
<1>1. Working(w, "release") /\ HasItem(w) /\ Lockable(w, p)
  BY DEF ReleaseItem
<1>2. p \in Products /\ q \in Nat \ {0}
  BY <1>1, ItemRecord DEF IInv, Working
<1>3. Seen(w, p) # NoRow
  <2>1. Sent("inventory.reserved", work[w].order) /\ work[w].order \in Orders
    BY <1>1, WorkRecord DEF IInv, RowsExist, TakenHasRows, Working
  <2>2. work[w].next \in DOMAIN Items[work[w].order]
    BY <1>1, ItemRecord DEF IInv, Working
  <2>3. row[p] # NoRow
    BY <2>1, <2>2 DEF IInv, RowsExist, AnsweredHasRows, NextItem
  <2> QED
    BY <1>2, <2>3, ConstantsAssumption DEF IInv, LocksAreHeld, Seen
<1>4. /\ Seen(w, p) \in Row
      /\ Seen(w, p).quantity >= 0 /\ Seen(w, p).reserved >= 0 /\ Seen(w, p).available >= 0
  BY <1>2, <1>3, SeenRow
<1>5. /\ Seen(w, p).quantity \in Int /\ Seen(w, p).reserved \in Int
      /\ Seen(w, p).available \in Int
  BY <1>4 DEF Row
<1>6. /\ Max0(Seen(w, p).reserved - q) \in Int /\ Max0(Seen(w, p).reserved - q) >= 0
      /\ Max0(Seen(w, p).reserved - q) >= Seen(w, p).reserved - q
  BY <1>2, <1>5 DEF Max0
<1>7. version \in Row
  <2>1. q \in Int
    BY <1>2
  <2> QED
    BY <1>4, <2>1, RowUpdates, Zenon
<1>8. /\ version.quantity = Seen(w, p).quantity
      /\ version.reserved = Max0(Seen(w, p).reserved - q)
      /\ version.available = Seen(w, p).available + q
  BY <1>4 DEF Row, Released
<1>9. /\ lock' = [lock EXCEPT ![p] = w] /\ draft' = [draft EXCEPT ![p] = version]
      /\ Book(w, q)
      /\ UNCHANGED <<row, reserves, releases, booked, events, edit, aborts>>
  BY <1>3 DEF ReleaseItem
<1> HIDE DEF version
<1>10. /\ version.quantity >= 0 /\ version.reserved >= 0 /\ version.available >= 0
       /\ version.reserved + version.available >= Seen(w, p).reserved + Seen(w, p).available
       /\ q \in Int
  BY <1>2, <1>4, <1>5, <1>6, <1>8
<1> QED
  BY <1>1, <1>2, <1>3, <1>7, <1>8, <1>9, <1>10, ItemStep

\* An administrator writes one row that no transaction has locked, or leaves
\* it as it is.
LEMMA RowStep ==
    ASSUME IInv, NEW p \in Products, NEW version \in Row,
           lock[p] = Free \/ version = row[p],
           version.quantity >= 0 /\ version.reserved >= 0 /\ version.available >= 0,
           row' = [row EXCEPT ![p] = version],
           booked' \in [Products -> Int], edit' \in [Admins -> Edit \cup {Idle}],
           \A a \in Admins : edit'[a] = Idle \/ edit'[a] = edit[a],
           events' = events \cup {StockUpdated(p)},
           ~Restock => /\ version.quantity <= version.reserved + version.available
                       /\ booked'[p] = version.available
                       /\ \A r \in Products : r # p => booked'[r] = booked[r],
           UNCHANGED <<lock, draft, reserves, releases, work, aborts>>
    PROVE  IInv'
<1> USE DEF IInv
<1>1. \A r \in Products : row'[r] = IF r = p THEN version ELSE row[r]
  BY DEF TypeOK
<1>2. version # NoRow
  BY ConstantsAssumption
<1>3. \A r \in Products : row[r] # NoRow => row'[r] # NoRow
  BY <1>1, <1>2
<1>4. TypeOK'
  BY DEF TypeOK
<1>5. NeverNegative'
  BY <1>1 DEF NeverNegative
<1>6. (~Restock => LedgerExplainsStock /\ UnitsKept)'
  BY <1>1, <1>2 DEF LedgerExplainsStock, UnitsKept
<1>7. LocksAreHeld'
  BY <1>3 DEF LocksAreHeld, Working
<1>8. \A o \in Orders, t \in {"inventory.reserved", "inventory.release"} :
          Sent(t, o)' <=> Sent(t, o)
  <2> SUFFICES ASSUME NEW o \in Orders, NEW t \in {"inventory.reserved", "inventory.release"},
                      Msg(t, o) = StockUpdated(p)
               PROVE  FALSE
    BY DEF Sent
  <2>1. Msg(t, o).topic = t /\ StockUpdated(p).topic = "inventory.stock-updated"
    BY DEF Msg, StockUpdated
  <2> QED
    BY <2>1
<1>9. RowsExist'
  BY <1>3, <1>8, AnswersStay, RowsExistStays DEF RowsExist
<1>10. DeltasPending'
  BY <1>1, ConstantsAssumption DEF DeltasPending
<1>11. EditsKnow'
  <2>1. \A a \in Admins : edit[a] # Idle => edit[a].product \in Products
    BY DEF TypeOK, Edit
  <2> QED
    BY <1>3, <2>1 DEF EditsKnow
<1> QED
  BY <1>4, <1>5, <1>6, <1>7, <1>9, <1>10, <1>11

LEMMA AdjustStep == ASSUME IInv, NEW p \in Products, NEW d \in Deltas, Adjust(p, d) PROVE IInv'
<1> DEFINE version == [row[p] EXCEPT !.quantity = @ + d, !.available = @ + d]
<1>1. /\ row[p] # NoRow /\ lock[p] = Free
      /\ row[p].quantity + d \in 0 .. MaxQuantity /\ row[p].available + d >= 0
      /\ row' = [row EXCEPT ![p] = version]
      /\ booked' = [booked EXCEPT ![p] = @ + d]
      /\ events' = events \cup {StockUpdated(p)}
      /\ UNCHANGED <<lock, draft, reserves, releases, work, edit, aborts>>
  BY DEF Adjust, AdjustBookkeeping
<1>2. d \in Int
  BY ConstantsAssumption
<1>3. row[p] \in Row
  BY <1>1 DEF IInv, TypeOK
<1>4. row[p].quantity \in Int /\ row[p].reserved \in Int /\ row[p].available \in Int
  BY <1>3 DEF Row
<1>5. version \in Row
  BY <1>2, <1>3, RowUpdates, Zenon
<1>6. /\ version.quantity = row[p].quantity + d /\ version.reserved = row[p].reserved
      /\ version.available = row[p].available + d
  BY <1>3 DEF Row
<1> HIDE DEF version
<1>7. version.quantity >= 0 /\ version.reserved >= 0 /\ version.available >= 0
  BY <1>1, <1>4, <1>6, ConstantsAssumption DEF IInv, NeverNegative
<1>8. /\ booked' \in [Products -> Int] /\ booked'[p] = booked[p] + d
      /\ \A r \in Products : r # p => booked'[r] = booked[r]
  BY <1>1, <1>2 DEF IInv, TypeOK
<1>9. ~Restock => /\ version.quantity <= version.reserved + version.available
                  /\ booked'[p] = version.available
  <2>1. ~Restock => row[p].quantity <= row[p].reserved + row[p].available
    BY <1>1 DEF IInv, UnitsKept
  <2>2. ~Restock => booked[p] = row[p].available
    BY <1>1 DEF IInv, LedgerExplainsStock
  <2> QED
    BY <1>2, <1>4, <1>6, <1>8, <2>1, <2>2
<1> QED
  BY <1>1, <1>5, <1>7, <1>8, <1>9, RowStep DEF IInv, TypeOK

\* Steps that only change what a request to POST /inventory knows.
LEMMA EditStep ==
    ASSUME IInv, UNCHANGED <<row, lock, draft, reserves, releases, booked, events, work, aborts>>,
           edit' \in [Admins -> Edit \cup {Idle}], EditsKnow'
    PROVE  IInv'
<1> USE DEF IInv
<1>1. TypeOK'
  BY DEF TypeOK
<1>2. NeverNegative' /\ LocksAreHeld' /\ DeltasPending'
  BY DEF NeverNegative, LocksAreHeld, DeltasPending, Working
<1>3. RowsExist'
  BY DEF RowsExist, AnsweredHasRows, TakenHasRows, Working, Sent, Msg
<1>4. (~Restock => LedgerExplainsStock /\ UnitsKept)'
  BY DEF LedgerExplainsStock, UnitsKept
<1> QED
  BY <1>1, <1>2, <1>3, <1>4

LEMMA UpsertReadStep ==
    ASSUME IInv, NEW a \in Admins, NEW p \in Products, NEW q \in Quantities, UpsertRead(a, p, q)
    PROVE  IInv'
<1> USE DEF IInv
<1> DEFINE begun == [step |-> "read", product |-> p, quantity |-> q, seen |-> row[p], dirty |-> {}]
<1>1. /\ Restock \/ row[p] = NoRow
      /\ edit' = [edit EXCEPT ![a] = begun]
      /\ UNCHANGED <<row, lock, draft, reserves, releases, booked, events, work, aborts>>
  BY DEF UpsertRead
<1>2. begun \in Edit
  BY DEF Edit, TypeOK
<1>3. begun.step = "read" /\ begun.seen = row[p] /\ begun.product = p
  OBVIOUS
<1> HIDE DEF begun
<1>4. edit' \in [Admins -> Edit \cup {Idle}]
  BY <1>1, <1>2 DEF TypeOK
<1>5. EditsKnow'
  <2>1. row[p] # NoRow => row[p].reserved >= 0
    BY DEF NeverNegative
  <2>2. \A b \in Admins : edit'[b] = IF b = a THEN begun ELSE edit[b]
    BY <1>1 DEF TypeOK
  <2> QED
    BY <1>1, <1>3, <2>1, <2>2 DEF EditsKnow
<1> QED
  BY <1>1, <1>4, <1>5, EditStep

LEMMA UpsertConflictStep == ASSUME IInv, NEW a \in Admins, UpsertConflict(a) PROVE IInv'
<1>1. /\ edit' = [edit EXCEPT ![a] = Idle]
      /\ UNCHANGED <<row, lock, draft, reserves, releases, booked, events, work, aborts>>
  BY DEF UpsertConflict
<1>2. edit' \in [Admins -> Edit \cup {Idle}] /\ EditsKnow'
  BY <1>1 DEF IInv, TypeOK, EditsKnow
<1> QED
  BY <1>1, <1>2, EditStep

\* A request that has compared its entity with the row is going to write.
LEMMA EditWrites ==
    ASSUME NEW e \in Edit, NEW columns \in SUBSET Columns
    PROVE  LET new == [e EXCEPT !.step = "write", !.dirty = columns]
           IN  new \in Edit /\ new.seen = e.seen /\ new.product = e.product
<1> DEFINE new == [e EXCEPT !.step = "write", !.dirty = columns]
<1>1. [e EXCEPT !.step = "write"] \in Edit
  BY DEF Edit
<1>2. \A f \in Edit : [f EXCEPT !.dirty = columns] \in Edit
  BY DEF Edit
<1>3. new = [[e EXCEPT !.step = "write"] EXCEPT !.dirty = columns]
  OBVIOUS
<1>4. new \in Edit
  BY <1>1, <1>2, <1>3
<1>5. new.seen = e.seen /\ new.product = e.product
  BY DEF Edit
<1> QED
  BY <1>4, <1>5

LEMMA UpsertCompareStep == ASSUME IInv, NEW a \in Admins, UpsertCompare(a) PROVE IInv'
<1> USE DEF IInv
<1>1. PICK columns \in SUBSET Columns :
         /\ Editing(a, "read") /\ edit[a].seen # NoRow
         /\ edit' = [edit EXCEPT ![a] = [edit[a] EXCEPT !.step = "write", !.dirty = columns]]
         /\ UNCHANGED <<row, lock, draft, reserves, releases, booked, events, work, aborts>>
  BY DEF UpsertCompare
<1>2. edit[a] \in Edit /\ edit[a] # Idle
  BY <1>1 DEF Editing, TypeOK
<1> DEFINE new == [edit[a] EXCEPT !.step = "write", !.dirty = columns]
<1>3. new \in Edit /\ new.seen = edit[a].seen /\ new.product = edit[a].product
  BY <1>2, EditWrites
<1>4. edit' = [edit EXCEPT ![a] = new]
  BY <1>1
<1> HIDE DEF new
<1>5. edit' \in [Admins -> Edit \cup {Idle}]
  BY <1>3, <1>4 DEF TypeOK
<1>6. EditsKnow'
  <2>1. \A b \in Admins : edit'[b] = IF b = a THEN new ELSE edit[b]
    BY <1>4 DEF TypeOK
  <2> QED
    BY <1>1, <1>2, <1>3, <2>1 DEF EditsKnow
<1> QED
  BY <1>1, <1>5, <1>6, EditStep

\* What save writes: the columns that differ, of the entity it was given.
LEMMA UpsertWriteStep == ASSUME IInv, NEW a \in Admins, UpsertWrite(a) PROVE IInv'
<1> USE DEF IInv
<1> DEFINE p == edit[a].product
           q == edit[a].quantity
           seen == edit[a].seen
           new == Entity(q, seen)
           version == [c \in Columns |-> IF c \in edit[a].dirty THEN new[c] ELSE row[p][c]]
<1>1. /\ edit[a] # Idle /\ edit[a].step = "write"
      /\ lock[p] = Free \/ edit[a].dirty = {}
      /\ row' = [row EXCEPT ![p] = version]
      /\ booked' = [booked EXCEPT ![p] = @ + q]
      /\ events' = events \cup {StockUpdated(p)}
      /\ edit' = [edit EXCEPT ![a] = Idle]
      /\ UNCHANGED <<lock, draft, reserves, releases, work, aborts>>
  BY DEF UpsertWrite, UpsertBookkeeping, Editing
<1>2. /\ p \in Products /\ q \in Nat /\ seen \in Row /\ Restock
      /\ row[p] \in Row /\ seen.reserved >= 0
      /\ edit[a].dirty \subseteq Columns
  BY <1>1, ConstantsAssumption DEF TypeOK, Edit, EditsKnow
<1>3. new \in Row /\ new["quantity"] >= 0 /\ new["reserved"] >= 0 /\ new["available"] >= 0
  <2>1. /\ seen.quantity \in Int /\ seen.reserved \in Int /\ seen.available \in Int
        /\ Max0(seen.available + q - seen.quantity) \in Int
        /\ Max0(seen.available + q - seen.quantity) >= 0
    BY <1>2 DEF Row, Max0
  <2> QED
    BY <1>2, <2>1 DEF Entity, Row
<1>4. row[p]["quantity"] >= 0 /\ row[p]["reserved"] >= 0 /\ row[p]["available"] >= 0
  BY <1>2, ConstantsAssumption DEF NeverNegative
<1> HIDE DEF new
<1>5. /\ version["quantity"] \in Int /\ version["reserved"] \in Int /\ version["available"] \in Int
      /\ version["quantity"] >= 0 /\ version["reserved"] >= 0 /\ version["available"] >= 0
  BY <1>2, <1>3, <1>4 DEF Row, Columns
<1>6. version \in Row
  <2>1. version = [c \in Columns |-> version[c]]
    OBVIOUS
  <2>2. version = [quantity |-> version["quantity"], reserved |-> version["reserved"],
                   available |-> version["available"]]
    BY <2>1 DEF Columns
  <2> QED
    BY <1>5, <2>2 DEF Row
<1>7. edit[a].dirty = {} => version = row[p]
  <2>1. row[p] = [quantity |-> row[p]["quantity"], reserved |-> row[p]["reserved"],
                  available |-> row[p]["available"]]
    BY <1>2 DEF Row
  <2>2. row[p] = [c \in Columns |-> row[p][c]]
    BY <2>1 DEF Columns
  <2> QED
    BY <2>2
<1> HIDE DEF version
<1>8. /\ booked' \in [Products -> Int] /\ edit' \in [Admins -> Edit \cup {Idle}]
      /\ \A b \in Admins : edit'[b] = Idle \/ edit'[b] = edit[b]
  BY <1>1, <1>2 DEF TypeOK
<1>9. /\ version.quantity >= 0 /\ version.reserved >= 0 /\ version.available >= 0
      /\ lock[p] = Free \/ version = row[p]
  BY <1>1, <1>5, <1>7
<1> QED
  BY <1>1, <1>2, <1>6, <1>8, <1>9, RowStep

LEMMA UpsertInsertStep == ASSUME IInv, NEW a \in Admins, UpsertInsert(a) PROVE IInv'
<1> USE DEF IInv
<1> DEFINE p == edit[a].product
           q == edit[a].quantity
           version == [quantity |-> q, reserved |-> 0, available |-> q]
<1>1. /\ edit[a] # Idle /\ row[p] = NoRow
      /\ row' = [row EXCEPT ![p] = version]
      /\ booked' = [booked EXCEPT ![p] = @ + q]
      /\ events' = events \cup {StockUpdated(p)}
      /\ edit' = [edit EXCEPT ![a] = Idle]
      /\ UNCHANGED <<lock, draft, reserves, releases, work, aborts>>
  BY DEF UpsertInsert, UpsertBookkeeping, Editing
<1>2. p \in Products /\ q \in Nat
  BY <1>1, ConstantsAssumption DEF TypeOK, Edit
<1>3. /\ version \in Row /\ version.quantity = q /\ version.reserved = 0
      /\ version.available = q
  BY <1>2 DEF Row
<1> HIDE DEF version
<1>4. lock[p] = Free
  BY <1>1, <1>2 DEF LocksAreHeld
<1>5. ~Restock => booked[p] = 0
  BY <1>1, <1>2 DEF LedgerExplainsStock
<1>6. /\ booked' \in [Products -> Int] /\ booked'[p] = booked[p] + q
      /\ \A r \in Products : r # p => booked'[r] = booked[r]
      /\ edit' \in [Admins -> Edit \cup {Idle}]
      /\ \A b \in Admins : edit'[b] = Idle \/ edit'[b] = edit[b]
  BY <1>1, <1>2 DEF TypeOK
<1>7. /\ version.quantity >= 0 /\ version.reserved >= 0 /\ version.available >= 0
      /\ version.quantity <= version.reserved + version.available
  BY <1>2, <1>3
<1>8. ~Restock => booked'[p] = version.available
  BY <1>2, <1>3, <1>5, <1>6
<1> QED
  BY <1>1, <1>2, <1>3, <1>4, <1>6, <1>7, <1>8, RowStep

LEMMA WorkerStepIInv == ASSUME IInv, NEW w \in Workers, WorkerStep(w) PROVE IInv'
<1>1. ASSUME NEW o \in Orders, ReserveBegin(w, o) \/ ReleaseBegin(w, o) PROVE IInv'
  BY <1>1, StartStep
<1>2. CASE ReserveRefuse(w)
  BY <1>2, EndStep DEF ReserveRefuse, Working, IInv, TypeOK
<1>3. CASE Abort(w)
  <2>1. aborts' \in 0 .. MaxAborts
    BY <1>3, ConstantsAssumption DEF Abort, IInv, TypeOK
  <2> QED
    BY <1>3, <2>1, EndStep DEF Abort, Fail
<1>4. CASE DeadlockVictim(w)
  BY <1>4, EndStep DEF DeadlockVictim, Fail, IInv, TypeOK
<1> QED
  BY <1>1, <1>2, <1>3, <1>4, ReserveItemStep, AnnounceStep, CommitStep, ReleaseItemStep
     DEF WorkerStep

LEMMA NextIInv == IInv /\ [Next]_vars => IInv'
<1> SUFFICES ASSUME IInv, [Next]_vars PROVE IInv'
  OBVIOUS
<1>1. CASE AdminStep
  BY <1>1, AdjustStep, UpsertReadStep, UpsertInsertStep, UpsertConflictStep, UpsertCompareStep,
     UpsertWriteStep DEF AdminStep
<1>2. CASE UNCHANGED vars
  BY <1>2, QuietStep DEF vars, IInv, RowsExist, AnsweredHasRows, TakenHasRows, Working, Sent, Msg
<1> QED
  BY <1>1, <1>2, CommandStep, WorkerStepIInv DEF Next

\* In every reachable state rows, drafts, locks, ledger and commands at work
\* fit together as IInv says.
THEOREM InductiveInvariant == Spec => []IInv
BY InitIInv, NextIInv, PTL DEF Spec

\* The variables of inventory-service stay in their types.
THEOREM TypeCorrect == Spec => []TypeOK
<1>1. IInv => TypeOK
  BY DEF IInv
<1> QED
  BY <1>1, InductiveInvariant, PTL

\* reserve(), release(), adjust() and upsert() never let a column of a row go
\* below zero, whatever runs at the same time.
THEOREM NothingNegative == Spec => []NeverNegative
<1>1. IInv => NeverNegative
  BY DEF IInv
<1> QED
  BY <1>1, InductiveInvariant, PTL

\* Where products are posted once, stock_ledger adds up to what is available.
THEOREM LedgerIsHistory == Spec => [](~Restock => LedgerExplainsStock)
<1>1. IInv => (~Restock => LedgerExplainsStock)
  BY DEF IInv
<1> QED
  BY <1>1, InductiveInvariant, PTL

\* Where products are posted once, every unit is available or reserved.
THEOREM NothingDisappears == Spec => [](~Restock => StockAccounted)
<1>1. IInv => (~Restock => StockAccounted)
  BY DEF IInv, UnitsKept, StockAccounted
<1> QED
  BY <1>1, InductiveInvariant, PTL

\* The rest is about the ledger as a guard: one step of a worker at a time.
LEMMA InitOnce == Init => OneExecution /\ LedgerFollowed
BY DEF Init, OneExecution, LedgerFollowed, Working, Sent

\* The ledger rows of a commit.
LEMMA RecordedOnce ==
    ASSUME NEW ledger \in [Orders -> Nat], NEW o \in Orders, ledger[o] = 0
    PROVE  /\ \A p \in Orders \ {o} : Recorded(ledger, o)[p] = ledger[p]
           /\ Recorded(ledger, o)[o] = IF Items[o] = <<>> THEN 0 ELSE 1
BY DEF Recorded

\* Two workers that are at it stay apart when one of them ends.
LEMMA LeaveStep ==
    ASSUME OneExecution, NEW w \in Workers, TypeOK, work' = [work EXCEPT ![w] = Idle]
    PROVE  OneExecution'
BY DEF OneExecution, TypeOK

\* A step that goes on with the same command, or refuses it.
LEMMA GoOnStep ==
    ASSUME OneExecution, LedgerFollowed, TypeOK, NEW w \in Workers, work[w] # Idle,
           NEW k \in Work, k.order = work[w].order,
           k.op = work[w].op \/ (work[w].op = "reserve" /\ k.op = "refused"),
           work' = [work EXCEPT ![w] = k], UNCHANGED <<reserves, releases, events>>
    PROVE  OneExecution' /\ LedgerFollowed'
<1>1. k # Idle
  BY ConstantsAssumption
<1>2. OneExecution'
  BY <1>1 DEF OneExecution, TypeOK
<1>3. LedgerFollowed'
  BY <1>1 DEF LedgerFollowed, Working, Sent, TypeOK
<1> QED
  BY <1>2, <1>3

\* A step that commits nothing of a command, and ends one at most.
LEMMA NoCommitStep ==
    ASSUME LedgerFollowed, TypeOK, UNCHANGED <<reserves, releases>>,
           \A w \in Workers : work'[w] \in {work[w], Idle},
           \A o \in Orders : Sent("inventory.reserved", o)' <=> Sent("inventory.reserved", o)
    PROVE  LedgerFollowed'
BY DEF LedgerFollowed, Working

LEMMA BeginOnce ==
    ASSUME ~Rebalances, OnceInv, NEW w \in Workers, NEW o \in Orders,
           ReserveBegin(w, o) \/ ReleaseBegin(w, o)
    PROVE  OneExecution' /\ LedgerFollowed'
<1> USE DEF OnceInv, IInv
<1>1. PICK k \in Work :
         /\ work[w] = Idle /\ k.order = o /\ work' = [work EXCEPT ![w] = k]
         /\ \/ /\ k.op = "reserve" /\ reserves[o] = 0
               /\ \A v \in Workers : work[v] # Idle =>
                     ~(work[v].order = o /\ work[v].op \in {"reserve", "refused"})
            \/ /\ k.op = "release" /\ releases[o] = 0
               /\ \A v \in Workers : work[v] # Idle =>
                     ~(work[v].order = o /\ work[v].op = "release")
  <2> DEFINE step(op) == [op |-> op, order |-> o, next |-> 1, ledger |-> NoDeltas]
  <2>1. NoDeltas \in [Products -> Int]
    BY DEF NoDeltas
  <2>2. step("reserve") \in Work /\ step("release") \in Work
    BY <2>1 DEF Work
  <2>3. CASE ReserveBegin(w, o)
    <3>1. /\ step("reserve").order = o /\ step("reserve").op = "reserve"
          /\ work' = [work EXCEPT ![w] = step("reserve")]
      BY <2>3 DEF ReserveBegin, Start, Proceed
    <3> QED
      BY <2>2, <2>3, <3>1 DEF ReserveBegin, Delivered
  <2>4. CASE ReleaseBegin(w, o)
    <3>1. /\ step("release").order = o /\ step("release").op = "release"
          /\ work' = [work EXCEPT ![w] = step("release")]
      BY <2>4 DEF ReleaseBegin, Start, Proceed
    <3> QED
      BY <2>2, <2>4, <3>1 DEF ReleaseBegin, Delivered
  <2> QED
    BY <2>3, <2>4
<1>2. UNCHANGED <<reserves, releases, events>>
  BY DEF ReserveBegin, ReleaseBegin
<1>3. /\ work'[w] = k /\ k # Idle
      /\ \A v \in Workers \ {w} : work'[v] = work[v]
  BY <1>1, ConstantsAssumption DEF TypeOK
<1>4. ASSUME NEW v \in Workers \ {w}, work[v] # Idle, work[v].order = o
      PROVE  k.op = "release" <=> work[v].op # "release"
  BY <1>1, <1>4, WorkRecord
<1>5. OneExecution'
  BY <1>1, <1>3, <1>4 DEF OneExecution
<1>6. LedgerFollowed'
  BY <1>1, <1>2, <1>3 DEF LedgerFollowed, Working, Sent
<1> QED
  BY <1>5, <1>6

LEMMA CommitOnce ==
    ASSUME OnceInv, NEW w \in Workers, ReserveCommit(w) \/ ReleaseCommit(w)
    PROVE  OneExecution' /\ LedgerFollowed'
<1> DEFINE o == work[w].order
<1> USE DEF OnceInv, IInv
<1>1. work[w] # Idle /\ o \in Orders /\ work' = [work EXCEPT ![w] = Idle]
  BY WorkRecord DEF ReserveCommit, ReleaseCommit, Working
<1>2. OneExecution'
  BY <1>1, LeaveStep
<1>3. /\ work'[w] = Idle
      /\ \A v \in Workers \ {w} : work'[v] = work[v]
  BY <1>1 DEF TypeOK
<1>4. CASE ReserveCommit(w)
  <2>1. /\ Working(w, "reserve") /\ reserves[o] = 0 /\ reserves' = Recorded(reserves, o)
        /\ UNCHANGED releases
    BY <1>4 DEF ReserveCommit, LedgerFollowed
  <2>2. /\ \A p \in Orders \ {o} : reserves'[p] = reserves[p]
        /\ reserves'[o] = IF Items[o] = <<>> THEN 0 ELSE 1
    BY <1>1, <2>1, RecordedOnce DEF TypeOK
  <2>3. \A p \in Orders :
           Sent("inventory.reserved", p)' <=> Sent("inventory.reserved", p) \/ p = o
    BY <1>4, MsgEqual DEF ReserveCommit, Sent
  <2>4. ASSUME NEW v \in Workers, Working(v, "reserve")' PROVE reserves'[work'[v].order] = 0
    <3>1. v # w /\ work'[v] = work[v] /\ Working(v, "reserve")
      BY <1>3, <2>4 DEF Working
    <3>2. work[v].order # o
      BY <1>1, <2>1, <3>1 DEF OneExecution, Working
    <3>3. work[v].order \in Orders
      BY <3>1, WorkRecord DEF Working
    <3> QED
      BY <2>2, <3>1, <3>2, <3>3 DEF LedgerFollowed
  <2>5. \A v \in Workers : Working(v, "release")' => releases'[work'[v].order] = 0
    BY <1>3, <2>1 DEF LedgerFollowed, Working
  <2>6. \A p \in Orders :
           /\ reserves'[p] <= 1 /\ releases'[p] <= 1
           /\ releases'[p] > 0 => Items[p] # <<>> /\ Sent("inventory.reserved", p)'
           /\ Items[p] # <<>> /\ Sent("inventory.reserved", p)' => reserves'[p] = 1
    BY <2>1, <2>2, <2>3 DEF LedgerFollowed
  <2> QED
    BY <1>2, <2>4, <2>5, <2>6 DEF LedgerFollowed
<1>5. CASE ReleaseCommit(w)
  <2>1. /\ Working(w, "release") /\ releases[o] = 0 /\ releases' = Recorded(releases, o)
        /\ UNCHANGED reserves
    BY <1>5 DEF ReleaseCommit, LedgerFollowed
  <2>2. /\ \A p \in Orders \ {o} : releases'[p] = releases[p]
        /\ releases'[o] = IF Items[o] = <<>> THEN 0 ELSE 1
    BY <1>1, <2>1, RecordedOnce DEF TypeOK
  <2>3. \A p \in Orders : Sent("inventory.reserved", p)' <=> Sent("inventory.reserved", p)
    BY <1>5, MsgEqual DEF ReleaseCommit, Sent
  <2>4. Sent("inventory.reserved", o)
    BY <2>1 DEF RowsExist, TakenHasRows
  <2>5. ASSUME NEW v \in Workers, Working(v, "release")' PROVE releases'[work'[v].order] = 0
    <3>1. v # w /\ work'[v] = work[v] /\ Working(v, "release")
      BY <1>3, <2>5 DEF Working
    <3>2. work[v].order # o
      BY <1>1, <2>1, <3>1 DEF OneExecution, Working
    <3>3. work[v].order \in Orders
      BY <3>1, WorkRecord DEF Working
    <3> QED
      BY <2>2, <3>1, <3>2, <3>3 DEF LedgerFollowed
  <2>6. \A v \in Workers : Working(v, "reserve")' => reserves'[work'[v].order] = 0
    BY <1>3, <2>1 DEF LedgerFollowed, Working
  <2>7. \A p \in Orders :
           /\ reserves'[p] <= 1 /\ releases'[p] <= 1
           /\ releases'[p] > 0 => Items[p] # <<>> /\ Sent("inventory.reserved", p)'
           /\ Items[p] # <<>> /\ Sent("inventory.reserved", p)' => reserves'[p] = 1
    BY <2>1, <2>2, <2>3, <2>4 DEF LedgerFollowed
  <2> QED
    BY <1>2, <2>5, <2>6, <2>7 DEF LedgerFollowed
<1> QED
  BY <1>4, <1>5

LEMMA WorkerOnce ==
    ASSUME ~Rebalances, OnceInv, NEW w \in Workers, WorkerStep(w)
    PROVE  OneExecution' /\ LedgerFollowed'
<1> USE DEF OnceInv, IInv
<1>1. CASE ReserveItem(w) \/ ReleaseItem(w) \/ ReserveRefuse(w)
  <2>1. work[w] # Idle /\ HasItem(w) /\ UNCHANGED <<reserves, releases, events>>
    BY <1>1 DEF ReserveItem, ReleaseItem, ReserveRefuse, Working
  <2>2. work[w] \in Work /\ work[w].next \in Nat \ {0} /\ work[w].order \in Orders
        /\ work[w].ledger \in [Products -> Int]
        /\ NextItem(w).product \in Products /\ NextItem(w).quantity \in Int
    BY <2>1, WorkRecord, ItemRecord
  <2>3. CASE ReserveItem(w) \/ ReleaseItem(w)
    <3>1. PICK d \in Int : Book(w, d)
      BY <2>2, <2>3 DEF ReserveItem, ReleaseItem
    <3> DEFINE ledger == [work[w].ledger EXCEPT ![NextItem(w).product] = @ + d]
               k == [op |-> work[w].op, order |-> work[w].order,
                     next |-> work[w].next + 1, ledger |-> ledger]
    <3>2. ledger \in [Products -> Int]
      BY <2>2, <3>1
    <3>3. k \in Work
      BY <2>1, <2>2, <3>2, WorkRecord DEF Work
    <3>4. k.order = work[w].order /\ k.op = work[w].op /\ work' = [work EXCEPT ![w] = k]
      BY <3>1 DEF Book, Proceed
    <3> HIDE DEF k
    <3> QED
      BY <2>1, <3>3, <3>4, GoOnStep
  <2>4. CASE ReserveRefuse(w)
    <3> DEFINE k == [op |-> "refused", order |-> work[w].order,
                     next |-> work[w].next, ledger |-> NoDeltas]
    <3>1. k \in Work
      BY <2>2 DEF Work, NoDeltas
    <3>2. /\ k.order = work[w].order /\ k.op = "refused" /\ work[w].op = "reserve"
          /\ work' = [work EXCEPT ![w] = k]
      BY <2>4 DEF ReserveRefuse, Refuse, Proceed, Working
    <3> HIDE DEF k
    <3> QED
      BY <2>1, <3>1, <3>2, GoOnStep
  <2> QED
    BY <1>1, <2>3, <2>4
<1>2. CASE AnnounceRefusal(w) \/ Abort(w) \/ DeadlockVictim(w)
  <2>1. work' = [work EXCEPT ![w] = Idle] /\ UNCHANGED <<reserves, releases>>
    BY <1>2 DEF AnnounceRefusal, Abort, DeadlockVictim, Fail
  <2>2. \A o \in Orders : Sent("inventory.reserved", o)' <=> Sent("inventory.reserved", o)
    BY <1>2, MsgEqual DEF AnnounceRefusal, Abort, DeadlockVictim, Fail, Sent
  <2>3. \A v \in Workers : work'[v] \in {work[v], Idle}
    BY <2>1 DEF TypeOK
  <2> QED
    BY <2>1, <2>2, <2>3, LeaveStep, NoCommitStep
<1> QED
  BY <1>1, <1>2, BeginOnce, CommitOnce DEF WorkerStep

LEMMA NextOnce ==
    ASSUME ~Rebalances, OnceInv, [Next]_vars PROVE OneExecution' /\ LedgerFollowed'
<1> USE DEF OnceInv, IInv
<1>1. CASE (\E o \in Orders, t \in {"inventory.reserve", "inventory.release"} : Command(t, o))
           \/ AdminStep \/ UNCHANGED vars
  <2>1. UNCHANGED <<work, reserves, releases>>
    BY <1>1 DEF Command, AdminStep, Adjust, UpsertRead, UpsertInsert, UpsertConflict,
       UpsertCompare, UpsertWrite, vars
  <2>2. ASSUME NEW o, NEW p PROVE StockUpdated(p) # Msg("inventory.reserved", o)
    <3>1. /\ StockUpdated(p).topic = "inventory.stock-updated"
          /\ Msg("inventory.reserved", o).topic = "inventory.reserved"
      BY DEF StockUpdated, Msg
    <3> QED
      BY <3>1
  <2>3. \/ events' = events
        \/ \E o \in Orders, t \in {"inventory.reserve", "inventory.release"} :
              events' = events \cup {Msg(t, o)}
        \/ \E p : events' = events \cup {StockUpdated(p)}
    <3>1. CASE AdminStep
      BY <3>1 DEF AdminStep, Adjust, AdjustBookkeeping, UpsertRead, UpsertInsert,
         UpsertConflict, UpsertCompare, UpsertWrite, UpsertBookkeeping
    <3> QED
      BY <1>1, <3>1 DEF Command, vars
  <2>5. \A o \in Orders : Sent("inventory.reserved", o)' <=> Sent("inventory.reserved", o)
    BY <2>2, <2>3, MsgEqual DEF Sent
  <2>4. OneExecution'
    BY <2>1 DEF OneExecution
  <2> QED
    BY <2>1, <2>5, <2>4, NoCommitStep
<1> QED
  BY <1>1, WorkerOnce DEF Next

\* However often its commands are delivered, the stock of an order is taken once
\* and given back at most once: reserve() and release() look at the ledger
\* outside their transactions, which is enough while duplicates of one command
\* are executed one after the other.
THEOREM TakenOnce == Spec => [](~Rebalances => ReservedOnce)
<1>1. CASE Rebalances
  <2>1. ~Rebalances => ReservedOnce
    BY <1>1
  <2> QED
    BY <2>1, PTL
<1>2. CASE ~Rebalances
  <2>1. Init => OnceInv
    BY InitIInv, InitOnce DEF OnceInv
  <2>2. OnceInv /\ [Next]_vars => OnceInv'
    BY <1>2, NextIInv, NextOnce DEF OnceInv
  <2>3. OnceInv => (~Rebalances => ReservedOnce)
    <3> SUFFICES ASSUME OnceInv, NEW o \in Orders
                 PROVE  releases[o] <= reserves[o] /\ reserves[o] <= 1
      BY DEF ReservedOnce
    <3>1. reserves[o] \in Nat /\ releases[o] \in Nat
      BY DEF OnceInv, IInv, TypeOK
    <3> QED
      BY <3>1 DEF OnceInv, LedgerFollowed
  <2> QED
    BY <2>1, <2>2, <2>3, PTL DEF Spec
<1> QED
  BY <1>1, <1>2

-----------------------------------------------------------------------------
(* Sums of natural numbers over finite sets *)

\* The units that the entries of f in S stand for: f[x] of each x.  They can be
\* counted in any order, which the sum of the library is not defined to allow.
Tally(f, S) == {u \in S \X Nat : u[2] \in 1 .. f[u[1]]}

LEMMA TallyOfOne ==
    ASSUME NEW f, NEW x, f[x] \in Nat
    PROVE  IsFiniteSet(Tally(f, {x})) /\ Cardinality(Tally(f, {x})) = f[x]
<1> DEFINE numbered == [k \in 1 .. f[x] |-> <<x, k>>]
<1>1. numbered \in Bijection(1 .. f[x], Tally(f, {x}))
  <2>1. numbered \in [1 .. f[x] -> Tally(f, {x})]
    BY DEF Tally
  <2>2. \A u \in Tally(f, {x}) : u[2] \in 1 .. f[x] /\ numbered[u[2]] = u
    BY DEF Tally
  <2>3. \A j, k \in 1 .. f[x] : numbered[j] = numbered[k] => j = k
    OBVIOUS
  <2> QED
    BY <2>1, <2>2, <2>3 DEF Bijection, Injection, Surjection, IsInjective
<1>2. IsFiniteSet(1 .. f[x]) /\ Cardinality(1 .. f[x]) = f[x]
  BY FS_Interval
<1> QED
  BY <1>1, <1>2, FS_Bijection DEF ExistsBijection

LEMMA TallyFinite ==
    ASSUME NEW S, IsFiniteSet(S), NEW f, \A x \in S : f[x] \in Nat
    PROVE  IsFiniteSet(Tally(f, S))
<1> DEFINE each == [x \in S |-> Tally(f, {x})]
           all == {each[x] : x \in S}
<1>1. each \in Surjection(S, all)
  BY DEF Surjection
<1>2. IsFiniteSet(all)
  BY <1>1, FS_Surjection
<1>3. \A T \in all : IsFiniteSet(T)
  BY TallyOfOne
<1>4. Tally(f, S) = UNION all
  BY DEF Tally
<1> QED
  BY <1>2, <1>3, <1>4, FS_UNION

LEMMA DisjointUnion ==
    ASSUME NEW A, NEW B, IsFiniteSet(A), IsFiniteSet(B), A \cap B = {}
    PROVE  /\ Cardinality(A) \in Nat /\ Cardinality(B) \in Nat
           /\ Cardinality(A \cup B) = Cardinality(A) + Cardinality(B)
<1>1. Cardinality(A) \in Nat /\ Cardinality(B) \in Nat
  BY FS_CardinalityType
<1>2. Cardinality(A \cup B) = Cardinality(A) + Cardinality(B) - Cardinality({})
  BY FS_Union
<1> QED
  BY <1>1, <1>2, FS_EmptySet

LEMMA TallyAdd ==
    ASSUME NEW S, IsFiniteSet(S), NEW f, \A x \in S : f[x] \in Nat, NEW x \in S
    PROVE  Cardinality(Tally(f, S)) = f[x] + Cardinality(Tally(f, S \ {x}))
<1>1. Tally(f, S) = Tally(f, {x}) \cup Tally(f, S \ {x})
  BY DEF Tally
<1>2. Tally(f, {x}) \cap Tally(f, S \ {x}) = {}
  BY DEF Tally
<1>3. IsFiniteSet(S \ {x})
  BY FS_RemoveElement
<1>4. IsFiniteSet(Tally(f, S \ {x})) /\ IsFiniteSet(Tally(f, {x}))
  BY <1>3, TallyFinite, TallyOfOne
<1>5. Cardinality(Tally(f, S)) = Cardinality(Tally(f, {x})) + Cardinality(Tally(f, S \ {x}))
  BY <1>1, <1>2, <1>4, DisjointUnion
<1> QED
  BY <1>5, TallyOfOne

\* The sum of the library picks its summands one after the other: the count of
\* the units obeys that recursion, and only one function does.
LEMMA SumIsCardinality ==
    ASSUME NEW S, IsFiniteSet(S), NEW f, \A x \in S : f[x] \in Nat
    PROVE  SumFunctionOnSet(f, S) = Cardinality(Tally(f, S))
<1> DEFINE first(s) == CHOOSE x \in s : TRUE
           step(g) == [s \in SUBSET S |-> IF s = {} THEN 0 ELSE f[first(s)] + g[s \ {first(s)}]]
           sum == CHOOSE g : g = step(g)
           count == [s \in SUBSET S |-> Cardinality(Tally(f, s))]
<1>1. SumFunctionOnSet(f, S) = sum[S]
  BY DEF SumFunctionOnSet, FoldFunctionOnSet, MapThenFoldSet
<1>2. ASSUME NEW s \in SUBSET S, s # {}
      PROVE  first(s) \in s /\ count[s] = f[first(s)] + count[s \ {first(s)}]
  <2>1. first(s) \in s
    BY <1>2
  <2>2. IsFiniteSet(s)
    BY FS_Subset
  <2> QED
    BY <2>1, <2>2, TallyAdd
<1>3. count[{}] = 0
  BY FS_EmptySet DEF Tally
<1>4. count = step(count)
  <2>1. \A s \in SUBSET S : count[s] = step(count)[s]
    BY <1>2, <1>3
  <2> QED
    BY <2>1
<1>5. sum = step(sum)
  BY <1>4
<1>6. \A s \in SUBSET S : sum[s] = IF s = {} THEN 0 ELSE f[first(s)] + sum[s \ {first(s)}]
  BY <1>5
<1> HIDE DEF sum, count, step
<1>7. SUFFICES ASSUME sum[S] # count[S] PROVE FALSE
  BY <1>1 DEF count
<1> DEFINE wrong == {s \in SUBSET S : sum[s] # count[s]}
<1>8. wrong # {} /\ wrong \subseteq FiniteSubsetsOf(S)
  BY <1>7, FS_Subset DEF FiniteSubsetsOf
<1>9. PICK s \in wrong : \A t \in wrong : <<t, s>> \notin StrictSubsetOrdering(S)
  BY <1>8, WFMin, FS_StrictSubsetOrderingWellFounded
<1>10. s # {}
  BY <1>3, <1>6
<1>11. s \ {first(s)} \in SUBSET S /\ s \ {first(s)} \notin wrong
  BY <1>2, <1>9, <1>10 DEF StrictSubsetOrdering
<1> QED
  BY <1>2, <1>6, <1>10, <1>11
\* Hence sums of natural numbers are natural numbers, ...
LEMMA SumNat ==
    ASSUME NEW S, IsFiniteSet(S), NEW f, \A x \in S : f[x] \in Nat
    PROVE  SumFunctionOnSet(f, S) \in Nat
BY SumIsCardinality, TallyFinite, FS_CardinalityType

\* ... that of nothing is zero, ...
LEMMA SumEmpty == ASSUME NEW f PROVE SumFunctionOnSet(f, {}) = 0
<1>1. Tally(f, {}) = {}
  BY DEF Tally
<1> QED
  BY <1>1, SumIsCardinality, FS_EmptySet

\* ... one summand can be taken apart, ...
LEMMA SumSplit ==
    ASSUME NEW S, IsFiniteSet(S), NEW f, \A x \in S : f[x] \in Nat, NEW x \in S
    PROVE  /\ SumFunctionOnSet(f, S) = f[x] + SumFunctionOnSet(f, S \ {x})
           /\ SumFunctionOnSet(f, S \ {x}) \in Nat
<1>1. IsFiniteSet(S \ {x})
  BY FS_RemoveElement
<1> QED
  BY <1>1, SumIsCardinality, TallyAdd, SumNat

\* ... equal summands give equal sums, ...
LEMMA SumSame ==
    ASSUME NEW S, IsFiniteSet(S), NEW f, NEW g, \A x \in S : f[x] \in Nat /\ g[x] = f[x]
    PROVE  SumFunctionOnSet(g, S) = SumFunctionOnSet(f, S)
<1>1. Tally(g, S) = Tally(f, S)
  BY DEF Tally
<1> QED
  BY <1>1, SumIsCardinality

\* ... a sum follows a change of one summand, ...
LEMMA SumChange ==
    ASSUME NEW S, IsFiniteSet(S), NEW f, NEW g, NEW x \in S,
           \A y \in S : f[y] \in Nat /\ g[y] \in Nat /\ (y # x => g[y] = f[y])
    PROVE  SumFunctionOnSet(g, S) = SumFunctionOnSet(f, S) - f[x] + g[x]
<1>1. IsFiniteSet(S \ {x})
  BY FS_RemoveElement
<1>2. SumFunctionOnSet(g, S \ {x}) = SumFunctionOnSet(f, S \ {x})
  BY <1>1, SumSame
<1>3. /\ SumFunctionOnSet(f, S) = f[x] + SumFunctionOnSet(f, S \ {x})
      /\ SumFunctionOnSet(f, S \ {x}) \in Nat
  BY SumSplit
<1>4. SumFunctionOnSet(g, S) = g[x] + SumFunctionOnSet(g, S \ {x})
  BY SumSplit
<1> QED
  BY <1>2, <1>3, <1>4

\* ... and more summands give no less.
LEMMA SumSubset ==
    ASSUME NEW S, IsFiniteSet(S), NEW f, \A x \in S : f[x] \in Nat, NEW T \in SUBSET S
    PROVE  SumFunctionOnSet(f, T) <= SumFunctionOnSet(f, S)
<1>1. IsFiniteSet(T)
  BY FS_Subset
<1>2. Tally(f, T) \in SUBSET Tally(f, S)
  BY DEF Tally
<1>3. Cardinality(Tally(f, T)) <= Cardinality(Tally(f, S))
  BY <1>2, TallyFinite, FS_Subset
<1> QED
  BY <1>1, <1>3, SumIsCardinality

-----------------------------------------------------------------------------
(* Units asked for, and units held *)

\* What the items of an order ask for of a product, counted item by item.
LEMMA UnitsCounted ==
    ASSUME NEW o \in Orders, NEW p, NEW n \in DOMAIN Items[o]
    PROVE  /\ UnitsBefore(o, p, n) \in Nat /\ UnitsBefore(o, p, n + 1) \in Nat
           /\ UnitsBefore(o, p, n + 1) =
                 UnitsBefore(o, p, n) +
                     (IF Items[o][n].product = p THEN Items[o][n].quantity ELSE 0)
           /\ UnitsOf(o, p) \in Nat /\ UnitsBefore(o, p, n + 1) <= UnitsOf(o, p)
<1> DEFINE quantity == [i \in DOMAIN Items[o] |-> Items[o][i].quantity]
           before(k) == {i \in DOMAIN Items[o] : Items[o][i].product = p /\ i < k}
<1>1. /\ Len(Items[o]) \in Nat /\ DOMAIN Items[o] = 1 .. Len(Items[o])
      /\ \A i \in DOMAIN Items[o] : Items[o][i].quantity \in Nat
  BY ItemsNumbered
<1>2. \A k : IsFiniteSet(before(k))
  <2>1. IsFiniteSet(1 .. Len(Items[o]))
    BY <1>1, FS_Interval
  <2>2. \A k : before(k) \in SUBSET (1 .. Len(Items[o]))
    BY <1>1
  <2> QED
    BY <2>1, <2>2, FS_Subset
<1>3. \A k : \A i \in before(k) : quantity[i] \in Nat
  BY <1>1
<1>4. \A k : UnitsBefore(o, p, k) = SumFunctionOnSet(quantity, before(k))
  BY DEF UnitsBefore
<1>5. n + 1 <= Len(Items[o]) + 1 /\ n \in Nat
  BY <1>1
<1>6. before(n + 1) \subseteq before(Len(Items[o]) + 1)
  BY <1>1, <1>5
<1>7. CASE Items[o][n].product = p
  <2>1. n \in before(n + 1) /\ before(n + 1) \ {n} = before(n)
    BY <1>1, <1>7
  <2>2. quantity[n] = Items[o][n].quantity
    OBVIOUS
  <2> HIDE DEF before, quantity
  <2>3. SumFunctionOnSet(quantity, before(n + 1)) = quantity[n] + SumFunctionOnSet(quantity, before(n))
    BY <1>2, <1>3, <2>1, SumSplit
  <2>4. \A k : SumFunctionOnSet(quantity, before(k)) \in Nat
    BY <1>2, <1>3, SumNat
  <2>5. SumFunctionOnSet(quantity, before(n + 1)) <= SumFunctionOnSet(quantity, before(Len(Items[o]) + 1))
    BY <1>2, <1>3, <1>6, SumSubset
  <2> QED
    BY <1>1, <1>4, <1>7, <2>2, <2>3, <2>4, <2>5 DEF UnitsOf
<1>8. CASE Items[o][n].product # p
  <2>1. before(n + 1) = before(n)
    BY <1>1, <1>8
  <2> HIDE DEF before, quantity
  <2>4. \A k : SumFunctionOnSet(quantity, before(k)) \in Nat
    BY <1>2, <1>3, SumNat
  <2>5. SumFunctionOnSet(quantity, before(n + 1)) <= SumFunctionOnSet(quantity, before(Len(Items[o]) + 1))
    BY <1>2, <1>3, <1>6, SumSubset
  <2> QED
    BY <1>4, <1>8, <2>1, <2>4, <2>5 DEF UnitsOf
<1> QED
  BY <1>7, <1>8

LEMMA NothingBefore ==
    ASSUME NEW o \in Orders, NEW p
    PROVE  /\ UnitsBefore(o, p, 1) = 0 /\ UnitsOf(o, p) \in Nat
           /\ Items[o] = <<>> => UnitsOf(o, p) = 0
<1> DEFINE quantity == [i \in DOMAIN Items[o] |-> Items[o][i].quantity]
           before(k) == {i \in DOMAIN Items[o] : Items[o][i].product = p /\ i < k}
<1>1. /\ Len(Items[o]) \in Nat /\ DOMAIN Items[o] = 1 .. Len(Items[o])
      /\ \A i \in DOMAIN Items[o] : Items[o][i].quantity \in Nat
  BY ItemsNumbered
<1>2. before(1) = {}
  BY <1>1
<1>3. UnitsBefore(o, p, 1) = 0
  BY <1>2, SumEmpty DEF UnitsBefore
<1>4. /\ IsFiniteSet(before(Len(Items[o]) + 1))
      /\ \A i \in before(Len(Items[o]) + 1) : quantity[i] \in Nat
  <2>1. IsFiniteSet(1 .. Len(Items[o]))
    BY <1>1, FS_Interval
  <2>2. before(Len(Items[o]) + 1) \in SUBSET (1 .. Len(Items[o]))
    BY <1>1
  <2> QED
    BY <1>1, <2>1, <2>2, FS_Subset
<1>5. SumFunctionOnSet(quantity, before(Len(Items[o]) + 1)) \in Nat
  <2> HIDE DEF before, quantity
  <2> QED
    BY <1>4, SumNat
<1>6. UnitsOf(o, p) \in Nat
  BY <1>5 DEF UnitsOf, UnitsBefore
<1>7. Items[o] = <<>> => Len(Items[o]) + 1 = 1
  OBVIOUS
<1> QED
  BY <1>3, <1>6, <1>7 DEF UnitsOf

\* While commands do not overlap an order holds all of its units or none.
LEMMA HeldSummand ==
    ASSUME OnceInv, NEW o \in Orders, NEW p
    PROVE  /\ Held(p)[o] \in Nat
           /\ reserves[o] = 1 /\ releases[o] = 0 => Held(p)[o] = UnitsOf(o, p)
           /\ reserves[o] = releases[o] => Held(p)[o] = 0
           /\ releases[o] = 0 \/ (releases[o] = 1 /\ reserves[o] = 1)
           /\ reserves[o] \in {0, 1}
<1>1. UnitsOf(o, p) \in Nat
  BY NothingBefore
<1>2. Held(p)[o] = (reserves[o] - releases[o]) * UnitsOf(o, p)
  BY DEF Held
<1>3. /\ reserves[o] \in {0, 1} /\ releases[o] \in {0, 1}
      /\ releases[o] = 1 => reserves[o] = 1
  <2>1. reserves[o] \in Nat /\ releases[o] \in Nat
    BY DEF OnceInv, IInv, TypeOK
  <2>2. /\ reserves[o] <= 1 /\ releases[o] <= 1
        /\ releases[o] > 0 => reserves[o] = 1
    BY DEF OnceInv, LedgerFollowed
  <2> QED
    BY <2>1, <2>2
<1> QED
  BY <1>1, <1>2, <1>3

LEMMA HeldSum ==
    ASSUME OnceInv, NEW p
    PROVE  /\ IsFiniteSet(Orders) /\ DOMAIN Held(p) = Orders
           /\ \A o \in Orders : Held(p)[o] \in Nat
           /\ SumFunction(Held(p)) = SumFunctionOnSet(Held(p), Orders)
           /\ SumFunction(Held(p)) \in Nat
           /\ \A o \in Orders : Held(p)[o] <= SumFunction(Held(p))
<1>1. IsFiniteSet(Orders)
  BY ConstantsAssumption
<1>2. DOMAIN Held(p) = Orders
  BY DEF Held
<1>3. \A o \in Orders : Held(p)[o] \in Nat
  BY HeldSummand
<1>4. SumFunction(Held(p)) = SumFunctionOnSet(Held(p), Orders)
  BY <1>2 DEF SumFunction
<1>5. SumFunction(Held(p)) \in Nat
  BY <1>1, <1>3, <1>4, SumNat
<1>6. ASSUME NEW o \in Orders PROVE Held(p)[o] <= SumFunction(Held(p))
  <2>1. /\ SumFunction(Held(p)) = Held(p)[o] + SumFunctionOnSet(Held(p), Orders \ {o})
        /\ SumFunctionOnSet(Held(p), Orders \ {o}) \in Nat
    BY <1>1, <1>3, <1>4, SumSplit
  <2> QED
    BY <1>3, <2>1
<1> QED
  BY <1>1, <1>2, <1>3, <1>4, <1>5, <1>6

HeldIsNat == \A p \in Products, o \in Orders : Held(p)[o] \in Nat

LEMMA HeldTypes == OnceInv => HeldIsNat
BY HeldSummand DEF HeldIsNat

\* What one order holds changes what all of them hold by as much.
LEMMA HeldChanges ==
    ASSUME OnceInv, OnceInv', NEW o \in Orders, NEW p \in Products,
           \A u \in Orders \ {o} : reserves'[u] = reserves[u] /\ releases'[u] = releases[u]
    PROVE  SumFunction(Held(p))' = SumFunction(Held(p)) - Held(p)[o] + Held(p)'[o]
<1>1. /\ IsFiniteSet(Orders) /\ \A u \in Orders : Held(p)[u] \in Nat
      /\ SumFunction(Held(p)) = SumFunctionOnSet(Held(p), Orders)
  BY HeldSum
<1>2. Held(p)' = [u \in Orders |-> (reserves'[u] - releases'[u]) * UnitsOf(u, p)]
  BY DEF Held
<1>3. \A u \in Orders \ {o} : Held(p)'[u] = Held(p)[u]
  BY <1>2 DEF Held
<1>4. \A u \in Orders : Held(p)'[u] \in Nat
  <2>1. OnceInv' => HeldIsNat'
    BY HeldTypes, PTL
  <2> QED
    BY <2>1 DEF HeldIsNat
<1>5. SumFunction(Held(p))' = SumFunctionOnSet(Held(p)', Orders)
  BY <1>2 DEF SumFunction
<1> QED
  BY <1>1, <1>3, <1>4, <1>5, SumChange

-----------------------------------------------------------------------------
(* Reservations and what they hold, command by command *)

LEMMA SameHeld ==
    ASSUME UNCHANGED <<reserves, releases>>, NEW p
    PROVE  SumFunction(Held(p))' = SumFunction(Held(p))
<1>1. Held(p)' = Held(p)
  BY DEF Held
<1> QED
  BY <1>1

\* What a worker has pending is its own business.
LEMMA PendingStays ==
    ASSUME NEW v \in Workers, NEW p \in Products, PendingOf(v, p), work'[v] = work[v],
           lock'[p] = v => lock[p] = v /\ draft'[p] = draft[p] /\ row'[p] = row[p]
    PROVE  PendingOf(v, p)'
BY DEF PendingOf, Working

LEMMA QuietHeld ==
    ASSUME HeldInv, UNCHANGED <<row, lock, draft, reserves, releases, work>>
    PROVE  HeldHasRows' /\ AvailableFollows' /\ ItemsPending'
<1>1. HeldHasRows'
  BY SameHeld DEF HeldInv, HeldHasRows
<1>2. AvailableFollows'
  BY DEF HeldInv, AvailableFollows
<1>3. ItemsPending'
  BY PendingStays DEF HeldInv, ItemsPending
<1> QED
  BY <1>1, <1>2, <1>3

\* adjust and the insertion of a row leave what is reserved alone.
LEMMA RowHeld ==
    ASSUME HeldInv, NEW p \in Products, NEW version \in Row, lock[p] = Free,
           row' = [row EXCEPT ![p] = version],
           version.reserved = IF row[p] = NoRow THEN 0 ELSE row[p].reserved,
           version.available = version.quantity - version.reserved,
           UNCHANGED <<lock, draft, reserves, releases, work>>
    PROVE  HeldHasRows' /\ AvailableFollows' /\ ItemsPending'
<1>1. /\ version # NoRow
      /\ \A r \in Products : row'[r] = IF r = p THEN version ELSE row[r]
  BY ConstantsAssumption DEF HeldInv, OnceInv, IInv, TypeOK
<1>2. HeldHasRows'
  BY <1>1, SameHeld DEF HeldInv, HeldHasRows
<1>3. AvailableFollows'
  BY <1>1 DEF HeldInv, AvailableFollows
<1>4. ItemsPending'
  BY <1>1, PendingStays, ConstantsAssumption DEF HeldInv, ItemsPending
<1> QED
  BY <1>2, <1>3, <1>4

LEMMA BeginHeld ==
    ASSUME HeldInv, NEW w \in Workers, NEW o \in Orders, ReserveBegin(w, o) \/ ReleaseBegin(w, o)
    PROVE  HeldHasRows' /\ AvailableFollows' /\ ItemsPending'
<1> USE DEF HeldInv, OnceInv, IInv
<1>1. PICK op : /\ work[w] = Idle /\ Start(w, op, o)
                /\ UNCHANGED <<row, lock, draft, reserves, releases>>
  BY DEF ReserveBegin, ReleaseBegin, Delivered
<1>2. /\ work'[w].order = o /\ work'[w].next = 1 /\ \A p \in Products : work'[w].ledger[p] = 0
      /\ \A v \in Workers \ {w} : work'[v] = work[v]
  BY <1>1 DEF Start, Proceed, NoDeltas, TypeOK
<1>3. \A p \in Products : lock[p] # w
  BY <1>1, IdleHoldsNothing DEF Working
<1>4. HeldHasRows'
  BY <1>1, SameHeld DEF HeldHasRows
<1>5. AvailableFollows'
  BY <1>1 DEF AvailableFollows
<1>6. ItemsPending'
  <2>1. ASSUME NEW p \in Products PROVE PendingOf(w, p)'
    <3>1. UnitsBefore(work'[w].order, p, work'[w].next) = 0
      BY <1>2, NothingBefore
    <3> QED
      BY <1>1, <1>2, <1>3, <3>1 DEF PendingOf
  <2>2. ASSUME NEW v \in Workers \ {w}, NEW p \in Products PROVE PendingOf(v, p)'
    BY <1>1, <1>2, PendingStays DEF ItemsPending
  <2> QED
    BY <2>1, <2>2 DEF ItemsPending
<1> QED
  BY <1>4, <1>5, <1>6

\* A transaction that is given up takes its drafts with it.
LEMMA EndHeld ==
    ASSUME HeldInv, NEW w \in Workers, UNCHANGED <<row, reserves, releases>>,
           \A p \in Products :
               /\ lock'[p] = IF lock[p] = w THEN Free ELSE lock[p]
               /\ draft'[p] = IF lock[p] = w THEN NoRow ELSE draft[p],
           ~Working(w, "reserve")' /\ ~Working(w, "release")',
           \A v \in Workers \ {w} : work'[v] = work[v]
    PROVE  HeldHasRows' /\ AvailableFollows' /\ ItemsPending'
<1> USE DEF HeldInv
<1>1. HeldHasRows'
  BY SameHeld DEF HeldHasRows
<1>2. AvailableFollows'
  BY DEF AvailableFollows
<1>3. ItemsPending'
  <2>1. ASSUME NEW p \in Products PROVE PendingOf(w, p)'
    BY ConstantsAssumption DEF PendingOf
  <2>2. ASSUME NEW v \in Workers \ {w}, NEW p \in Products PROVE PendingOf(v, p)'
    BY PendingStays, ConstantsAssumption DEF ItemsPending
  <2> QED
    BY <2>1, <2>2 DEF ItemsPending
<1> QED
  BY <1>1, <1>2, <1>3

\* At COMMIT the order holds, or no longer holds, the units of all its items.
LEMMA CommitHeld ==
    ASSUME HeldInv, OnceInv', NEW w \in Workers, ReserveCommit(w) \/ ReleaseCommit(w)
    PROVE  HeldHasRows' /\ AvailableFollows' /\ ItemsPending'
<1> DEFINE o == work[w].order
<1> USE DEF HeldInv, OnceInv, IInv
<1>1. /\ Working(w, "reserve") \/ Working(w, "release")
      /\ ~HasItem(w) /\ Commit(w) /\ EndTransaction(w) /\ work' = [work EXCEPT ![w] = Idle]
  BY DEF ReserveCommit, ReleaseCommit
<1>2. /\ work[w] # Idle /\ o \in Orders /\ work[w].next \in Nat \ {0}
      /\ work[w].ledger \in [Products -> Int] /\ work[w].next = Len(Items[o]) + 1
  <2>1. work[w] # Idle
    BY <1>1 DEF Working
  <2>2. work[w].next <= Len(Items[o]) + 1
    BY <2>1 DEF TypeOK
  <2> QED
    BY <1>1, <2>1, <2>2, WorkRecord, ItemsNumbered DEF HasItem
<1>3. \A p \in Products :
         /\ row'[p] = IF lock[p] = w THEN draft[p] ELSE row[p]
         /\ lock'[p] = IF lock[p] = w THEN Free ELSE lock[p]
         /\ draft'[p] = IF lock[p] = w THEN NoRow ELSE draft[p]
  BY <1>1 DEF Commit, EndTransaction
<1>4. work'[w] = Idle /\ \A v \in Workers \ {w} : work'[v] = work[v]
  BY <1>1 DEF TypeOK
<1>5. ASSUME NEW p \in Products
      PROVE  SumFunction(Held(p))' = SumFunction(Held(p)) - work[w].ledger[p]
  <2>1. UnitsOf(o, p) \in Nat /\ (Items[o] = <<>> => UnitsOf(o, p) = 0)
    BY <1>2, NothingBefore
  <2>2. PendingOf(w, p) /\ UnitsBefore(o, p, work[w].next) = UnitsOf(o, p)
    BY <1>2 DEF ItemsPending, UnitsOf
  <2>3. Held(p)'[o] = (reserves'[o] - releases'[o]) * UnitsOf(o, p)
    BY <1>2 DEF Held
  <2>4. SumFunction(Held(p)) \in Nat
    BY HeldSum
  <2>5. CASE ReserveCommit(w)
    <3>1. reserves[o] = 0 /\ releases[o] = 0 /\ releases' = releases
          /\ reserves' = Recorded(reserves, o)
      BY <1>2, <2>5, HeldSummand DEF ReserveCommit, LedgerFollowed
    <3>2. /\ \A u \in Orders \ {o} : reserves'[u] = reserves[u]
          /\ reserves'[o] = IF Items[o] = <<>> THEN 0 ELSE 1
      <4>1. reserves \in [Orders -> Nat] /\ o \in Orders
        BY <1>2 DEF TypeOK
      <4> HIDE DEF o, HeldInv, OnceInv, IInv
      <4> QED
        BY <3>1, <4>1, RecordedOnce
    <3>3. Held(p)[o] = 0
      BY <1>2, <3>1, HeldSummand
    <3>4. Held(p)'[o] = UnitsOf(o, p)
      BY <2>1, <2>3, <3>1, <3>2
    <3>5. work[w].ledger[p] = 0 - UnitsOf(o, p)
      BY <2>2, <2>5 DEF PendingOf, ReserveCommit
    <3>6. SumFunction(Held(p))' = SumFunction(Held(p)) - Held(p)[o] + Held(p)'[o]
      BY <1>2, <3>1, <3>2, HeldChanges
    <3> QED
      BY <2>1, <2>4, <3>3, <3>4, <3>5, <3>6
  <2>6. CASE ReleaseCommit(w)
    <3>1. releases[o] = 0 /\ reserves' = reserves /\ releases' = Recorded(releases, o)
      BY <1>2, <2>6, HeldSummand DEF ReleaseCommit, LedgerFollowed
    <3>2. /\ \A u \in Orders \ {o} : releases'[u] = releases[u]
          /\ releases'[o] = IF Items[o] = <<>> THEN 0 ELSE 1
      <4>1. releases \in [Orders -> Nat] /\ o \in Orders
        BY <1>2 DEF TypeOK
      <4> HIDE DEF o, HeldInv, OnceInv, IInv
      <4> QED
        BY <3>1, <4>1, RecordedOnce
    <3>3. Items[o] # <<>> => reserves[o] = 1
      BY <1>2, <2>6 DEF ReleaseCommit, RowsExist, TakenHasRows, LedgerFollowed
    <3>4. Held(p)[o] = UnitsOf(o, p) /\ Held(p)'[o] = 0
      <4>1. Held(p)[o] = (reserves[o] - releases[o]) * UnitsOf(o, p) /\ reserves[o] \in {0, 1}
        BY <1>2, HeldSummand DEF Held
      <4>2. CASE Items[o] = <<>>
        BY <2>1, <2>3, <3>1, <4>1, <4>2, <3>2
      <4>3. CASE Items[o] # <<>>
        BY <2>1, <2>3, <3>1, <3>2, <3>3, <4>1, <4>3
      <4> QED
        BY <4>2, <4>3
    <3>5. work[w].ledger[p] = UnitsOf(o, p)
      BY <2>2, <2>6 DEF PendingOf, ReleaseCommit
    <3>6. SumFunction(Held(p))' = SumFunction(Held(p)) - Held(p)[o] + Held(p)'[o]
      BY <1>2, <3>1, <3>2, HeldChanges
    <3> QED
      BY <2>1, <2>4, <3>4, <3>5, <3>6
  <2> QED
    BY <2>5, <2>6
<1>6. HeldHasRows'
  <2> SUFFICES ASSUME NEW p \in Products
               PROVE  SumFunction(Held(p))' = IF row'[p] = NoRow THEN 0 ELSE row'[p].reserved
    BY DEF HeldHasRows
  <2>1. SumFunction(Held(p)) = IF row[p] = NoRow THEN 0 ELSE row[p].reserved
    BY DEF HeldHasRows
  <2>2. CASE lock[p] = w
    <3>1. row[p] # NoRow /\ draft[p] # NoRow
      BY <2>2, ConstantsAssumption DEF LocksAreHeld
    <3>2. draft[p].reserved = row[p].reserved - work[w].ledger[p]
      BY <2>2 DEF ItemsPending, PendingOf
    <3> QED
      BY <1>3, <1>5, <2>1, <2>2, <3>1, <3>2
  <2>3. CASE lock[p] # w
    <3>1. work[w].ledger[p] = 0 /\ row'[p] = row[p]
      BY <1>2, <1>3, <2>3 DEF DeltasPending
    <3>2. SumFunction(Held(p)) \in Nat
      BY HeldSum
    <3> QED
      BY <1>5, <2>1, <3>1, <3>2
  <2> QED
    BY <2>2, <2>3
<1>7. AvailableFollows'
  BY <1>3 DEF AvailableFollows
<1>8. ItemsPending'
  <2>1. ASSUME NEW p \in Products PROVE PendingOf(w, p)'
    BY <1>3, <1>4, ConstantsAssumption DEF PendingOf, Working
  <2>2. ASSUME NEW v \in Workers \ {w}, NEW p \in Products PROVE PendingOf(v, p)'
    BY <1>3, <1>4, PendingStays, ConstantsAssumption DEF ItemsPending
  <2> QED
    BY <2>1, <2>2 DEF ItemsPending
<1> QED
  BY <1>6, <1>7, <1>8

\* One more item: reserved moves by what is booked, and available against it.
LEMMA ItemHeld ==
    ASSUME HeldInv, NEW w \in Workers, NEW d \in Int, NEW version \in Row,
           HasItem(w), Lockable(w, NextItem(w).product), Seen(w, NextItem(w).product) # NoRow,
           \/ Working(w, "reserve") /\ d = 0 - NextItem(w).quantity
           \/ Working(w, "release") /\ d = NextItem(w).quantity,
           version.quantity = Seen(w, NextItem(w).product).quantity,
           version.reserved = Seen(w, NextItem(w).product).reserved - d,
           version.available = Seen(w, NextItem(w).product).available + d,
           lock' = [lock EXCEPT ![NextItem(w).product] = w],
           draft' = [draft EXCEPT ![NextItem(w).product] = version],
           Book(w, d), UNCHANGED <<row, reserves, releases>>
    PROVE  HeldHasRows' /\ AvailableFollows' /\ ItemsPending'
<1> DEFINE p == NextItem(w).product
           q == NextItem(w).quantity
           o == work[w].order
           n == work[w].next
<1> USE DEF HeldInv, OnceInv, IInv
<1>1. /\ work[w] # Idle /\ o \in Orders /\ n \in Nat \ {0}
      /\ work[w].ledger \in [Products -> Int] /\ p \in Products /\ q \in Nat \ {0}
      /\ n \in DOMAIN Items[o]
  BY WorkRecord, ItemRecord DEF Working
<1>2. /\ work'[w].order = o /\ work'[w].next = n + 1 /\ work'[w].op = work[w].op
      /\ work'[w].ledger = [work[w].ledger EXCEPT ![p] = @ + d]
      /\ \A v \in Workers \ {w} : work'[v] = work[v]
  BY DEF Book, Proceed, TypeOK
<1>3. \A r \in Products :
         /\ lock'[r] = IF r = p THEN w ELSE lock[r]
         /\ draft'[r] = IF r = p THEN version ELSE draft[r]
  BY <1>1 DEF TypeOK
<1>4. lock[p] \in {Free, w}
  BY DEF Lockable
<1>5. /\ Seen(w, p) \in Row /\ row[p] # NoRow /\ row[p] \in Row
      /\ Seen(w, p).available = Seen(w, p).quantity - Seen(w, p).reserved
      /\ Seen(w, p).reserved = row[p].reserved - work[w].ledger[p]
  <2>1. row[p] # NoRow
    BY <1>1, ConstantsAssumption DEF Seen, LocksAreHeld
  <2>2. Seen(w, p) \in Row /\ row[p] \in Row
    BY <1>1, <2>1 DEF Seen, TypeOK
  <2>3. Seen(w, p).available = Seen(w, p).quantity - Seen(w, p).reserved
    BY <1>1, <2>1 DEF AvailableFollows, Seen
  <2>4. CASE lock[p] = w
    BY <1>1, <2>1, <2>2, <2>3, <2>4 DEF ItemsPending, PendingOf, Seen
  <2>5. CASE lock[p] # w
    <3>1. work[w].ledger[p] = 0 /\ Seen(w, p) = row[p] /\ row[p].reserved \in Int
      BY <1>1, <2>2, <2>5 DEF DeltasPending, Seen, Row
    <3> QED
      BY <2>1, <2>2, <2>3, <3>1
  <2> QED
    BY <2>4, <2>5
<1>6. /\ version.available = version.quantity - version.reserved
      /\ version.reserved = row[p].reserved - (work[w].ledger[p] + d)
  BY <1>1, <1>5 DEF Row
<1>7. HeldHasRows'
  BY SameHeld DEF HeldHasRows
<1>8. AvailableFollows'
  BY <1>3, <1>6 DEF AvailableFollows
<1>9. ASSUME NEW v \in Workers \ {w}, NEW r \in Products PROVE PendingOf(v, r)'
  BY <1>2, <1>3, PendingStays DEF ItemsPending
<1>10. ASSUME NEW r \in Products PROVE PendingOf(w, r)'
  <2>1. /\ UnitsBefore(o, r, n) \in Nat
        /\ UnitsBefore(o, r, n + 1) = UnitsBefore(o, r, n) + (IF r = p THEN q ELSE 0)
    BY <1>1, UnitsCounted DEF NextItem
  <2>2. work'[w].ledger[r] = work[w].ledger[r] + (IF r = p THEN d ELSE 0)
        /\ work[w].ledger[r] \in Int
    BY <1>1, <1>2
  <2>3. PendingOf(w, r)
    BY DEF ItemsPending
  <2>4. lock'[r] = w => draft'[r].reserved = row'[r].reserved - work'[w].ledger[r]
    <3>1. CASE r = p
      BY <1>3, <1>6, <2>2, <3>1
    <3>2. CASE r # p
      <4>1. work'[w].ledger[r] = work[w].ledger[r]
        BY <1>1, <1>2, <3>2
      <4> QED
        BY <1>3, <2>3, <3>2, <4>1 DEF PendingOf
    <3> QED
      BY <3>1, <3>2
  <2>5. Working(w, "reserve")' => Working(w, "reserve") /\ d = 0 - q
    BY <1>1, <1>2 DEF Working
  <2>6. Working(w, "release")' => Working(w, "release") /\ d = q
    BY <1>1, <1>2 DEF Working
  <2>7. UnitsBefore(work'[w].order, r, work'[w].next) = UnitsBefore(o, r, n + 1)
    BY <1>2
  <2>8. /\ Working(w, "reserve")' => work'[w].ledger[r] = 0 - UnitsBefore(o, r, n + 1)
        /\ Working(w, "release")' => work'[w].ledger[r] = UnitsBefore(o, r, n + 1)
    BY <1>1, <2>1, <2>2, <2>3, <2>5, <2>6 DEF PendingOf
  <2> QED
    BY <2>4, <2>7, <2>8 DEF PendingOf
<1> QED
  BY <1>7, <1>8, <1>9, <1>10 DEF ItemsPending

LEMMA ReserveItemHeld ==
    ASSUME HeldInv, NEW w \in Workers, ReserveItem(w)
    PROVE  HeldHasRows' /\ AvailableFollows' /\ ItemsPending'
<1> DEFINE p == NextItem(w).product
           q == NextItem(w).quantity
           version == [Seen(w, p) EXCEPT !.reserved = @ + q, !.available = @ - q]
<1> USE DEF HeldInv, OnceInv, IInv
<1>1. /\ Working(w, "reserve") /\ HasItem(w) /\ Lockable(w, p) /\ Seen(w, p) # NoRow
      /\ lock' = [lock EXCEPT ![p] = w] /\ draft' = [draft EXCEPT ![p] = version]
      /\ Book(w, 0 - q) /\ UNCHANGED <<row, reserves, releases>>
  BY DEF ReserveItem, InStock
<1>2. p \in Products /\ q \in Int /\ 0 - q \in Int
  BY <1>1, ItemRecord DEF Working
<1>3. Seen(w, p) \in Row
  BY <1>1, <1>2, SeenRow
<1>4. /\ Seen(w, p).reserved \in Int /\ Seen(w, p).available \in Int
      /\ version.quantity = Seen(w, p).quantity
      /\ version.reserved = Seen(w, p).reserved + q
      /\ version.available = Seen(w, p).available - q
  BY <1>3 DEF Row
<1>5. version \in Row
  BY <1>2, <1>3, RowUpdates, Zenon
<1> HIDE DEF version
<1>6. /\ version.reserved = Seen(w, p).reserved - (0 - q)
      /\ version.available = Seen(w, p).available + (0 - q)
  BY <1>2, <1>4
<1> HIDE DEF HeldInv
<1> QED
  BY <1>1, <1>2, <1>4, <1>5, <1>6, ItemHeld

\* A release never finds less reserved than it gives back: what an order holds
\* is reserved, so the value that Math.max(0, ...) guards is never negative.
LEMMA ReleaseIsCovered ==
    ASSUME HeldInv, NEW w \in Workers, ReleaseItem(w)
    PROVE  LET p == NextItem(w).product
               q == NextItem(w).quantity
           IN  /\ Seen(w, p) # NoRow /\ Seen(w, p) \in Row
               /\ p \in Products /\ q \in Nat /\ Seen(w, p).reserved >= q
<1> DEFINE p == NextItem(w).product
           q == NextItem(w).quantity
           o == work[w].order
           n == work[w].next
<1> USE DEF HeldInv, OnceInv, IInv
<1>1. Working(w, "release") /\ HasItem(w) /\ Lockable(w, p)
  BY DEF ReleaseItem
<1>2. /\ work[w] # Idle /\ o \in Orders /\ n \in DOMAIN Items[o]
      /\ p \in Products /\ q \in Nat /\ p = Items[o][n].product /\ q = Items[o][n].quantity
  BY <1>1, WorkRecord, ItemRecord DEF Working, NextItem
<1>3. Sent("inventory.reserved", o) /\ Items[o] # <<>>
  BY <1>1, <1>2 DEF RowsExist, TakenHasRows
<1>4. reserves[o] = 1 /\ releases[o] = 0
  BY <1>1, <1>2, <1>3 DEF LedgerFollowed
<1>5. row[p] # NoRow
  BY <1>2, <1>3 DEF RowsExist, AnsweredHasRows
<1>6. Seen(w, p) # NoRow /\ Seen(w, p) \in Row /\ row[p] \in Row
  BY <1>2, <1>5, ConstantsAssumption DEF LocksAreHeld, Seen, TypeOK
<1>7. /\ UnitsBefore(o, p, n) \in Nat /\ UnitsOf(o, p) \in Nat
      /\ UnitsBefore(o, p, n) + q <= UnitsOf(o, p)
  BY <1>2, UnitsCounted
<1>8. UnitsOf(o, p) <= row[p].reserved
  BY <1>2, <1>4, <1>5, HeldSummand, HeldSum DEF HeldHasRows
<1>9. Seen(w, p).reserved = row[p].reserved - UnitsBefore(o, p, n)
  <2>1. PendingOf(w, p) /\ work[w].ledger[p] = UnitsBefore(o, p, n)
    BY <1>1, <1>2 DEF ItemsPending, PendingOf
  <2>2. CASE lock[p] = w
    BY <2>1, <2>2 DEF PendingOf, Seen
  <2>3. CASE lock[p] # w
    <3>1. work[w].ledger[p] = 0 /\ row[p].reserved \in Int
      BY <1>2, <1>6, <2>3 DEF DeltasPending, Row
    <3> QED
      BY <2>1, <2>3, <3>1 DEF Seen
  <2> QED
    BY <2>2, <2>3
<1>10. row[p].reserved \in Int
  BY <1>6 DEF Row
<1>11. Seen(w, p).reserved >= q
  <2> HIDE DEF p, q, o, n
  <2> QED
    BY <1>2, <1>7, <1>8, <1>9, <1>10
<1> QED
  BY <1>2, <1>6, <1>11

LEMMA ReleaseItemHeld ==
    ASSUME HeldInv, NEW w \in Workers, ReleaseItem(w)
    PROVE  HeldHasRows' /\ AvailableFollows' /\ ItemsPending'
<1> DEFINE p == NextItem(w).product
           q == NextItem(w).quantity
           version == Released(Seen(w, p), q)
<1>1. Seen(w, p) # NoRow /\ Seen(w, p) \in Row /\ p \in Products /\ q \in Nat
      /\ Seen(w, p).reserved >= q
  BY ReleaseIsCovered
<1>2. /\ Working(w, "release") /\ HasItem(w) /\ Lockable(w, p)
      /\ lock' = [lock EXCEPT ![p] = w] /\ draft' = [draft EXCEPT ![p] = version]
      /\ Book(w, q) /\ UNCHANGED <<row, reserves, releases>>
  BY <1>1 DEF ReleaseItem
<1>3. /\ Seen(w, p).reserved \in Int /\ Seen(w, p).available \in Int /\ q \in Int
      /\ version.quantity = Seen(w, p).quantity
      /\ version.reserved = Max0(Seen(w, p).reserved - q)
      /\ version.available = Seen(w, p).available + q
  BY <1>1 DEF Row, Released
<1>4. version \in Row
  BY <1>1, <1>3, RowUpdates, Zenon
<1> HIDE DEF version
<1>5. version.reserved = Seen(w, p).reserved - q
  BY <1>1, <1>3 DEF Max0
<1> QED
  BY <1>1, <1>2, <1>3, <1>4, <1>5, ItemHeld

LEMMA WorkerHeld ==
    ASSUME HeldInv, OnceInv', NEW w \in Workers, WorkerStep(w)
    PROVE  HeldHasRows' /\ AvailableFollows' /\ ItemsPending'
<1>1. CASE ReserveRefuse(w) \/ Abort(w) \/ DeadlockVictim(w)
  <2>1. EndTransaction(w) /\ UNCHANGED <<row, reserves, releases>>
    BY <1>1 DEF ReserveRefuse, Abort, DeadlockVictim, Fail
  <2>2. work' = [work EXCEPT ![w] = Idle] \/ Refuse(w)
    BY <1>1 DEF ReserveRefuse, Abort, DeadlockVictim, Fail
  <2>3. /\ ~Working(w, "reserve")' /\ ~Working(w, "release")'
        /\ \A v \in Workers \ {w} : work'[v] = work[v]
    BY <2>2 DEF Refuse, Proceed, Working, HeldInv, OnceInv, IInv, TypeOK
  <2> QED
    BY <2>1, <2>3, EndHeld DEF EndTransaction
<1>2. CASE AnnounceRefusal(w)
  <2>1. /\ Working(w, "refused") /\ work' = [work EXCEPT ![w] = Idle]
        /\ UNCHANGED <<row, lock, draft, reserves, releases>>
    BY <1>2 DEF AnnounceRefusal
  <2>2. \A p \in Products : lock[p] # w
    BY <2>1, IdleHoldsNothing DEF Working, HeldInv, OnceInv
  <2>3. /\ ~Working(w, "reserve")' /\ ~Working(w, "release")'
        /\ \A v \in Workers \ {w} : work'[v] = work[v]
    BY <2>1 DEF Working, HeldInv, OnceInv, IInv, TypeOK
  <2> QED
    BY <2>1, <2>2, <2>3, EndHeld
<1> QED
  BY <1>1, <1>2, BeginHeld, ReserveItemHeld, ReleaseItemHeld, CommitHeld DEF WorkerStep

LEMMA AdminHeld ==
    ASSUME ~Restock, HeldInv, AdminStep
    PROVE  HeldHasRows' /\ AvailableFollows' /\ ItemsPending'
<1> USE DEF HeldInv, OnceInv, IInv
<1>1. ASSUME NEW p \in Products, NEW d \in Deltas, Adjust(p, d)
      PROVE  HeldHasRows' /\ AvailableFollows' /\ ItemsPending'
  <2> DEFINE version == [row[p] EXCEPT !.quantity = @ + d, !.available = @ + d]
  <2>1. /\ row[p] # NoRow /\ lock[p] = Free /\ row' = [row EXCEPT ![p] = version]
        /\ UNCHANGED <<lock, draft, reserves, releases, work>>
    BY <1>1 DEF Adjust
  <2>2. d \in Int /\ row[p] \in Row
    BY <2>1, ConstantsAssumption DEF TypeOK
  <2>3. row[p].quantity \in Int /\ row[p].reserved \in Int /\ row[p].available \in Int
    BY <2>2 DEF Row
  <2>4. version \in Row
    BY <2>2, RowUpdates, Zenon
  <2>5. /\ version.quantity = row[p].quantity + d /\ version.reserved = row[p].reserved
        /\ version.available = row[p].available + d
    BY <2>2 DEF Row
  <2> HIDE DEF version
  <2>6. version.available = version.quantity - version.reserved
    BY <2>1, <2>2, <2>3, <2>5 DEF AvailableFollows
  <2> HIDE DEF HeldInv
  <2> QED
    BY <2>1, <2>4, <2>5, <2>6, RowHeld
<1>2. ASSUME NEW a \in Admins, UpsertInsert(a)
      PROVE  HeldHasRows' /\ AvailableFollows' /\ ItemsPending'
  <2> DEFINE p == edit[a].product
             q == edit[a].quantity
             version == [quantity |-> q, reserved |-> 0, available |-> q]
  <2>1. /\ edit[a] # Idle /\ row[p] = NoRow /\ row' = [row EXCEPT ![p] = version]
        /\ UNCHANGED <<lock, draft, reserves, releases, work>>
    BY <1>2 DEF UpsertInsert, Editing
  <2>2. p \in Products /\ q \in Int
    <3>1. edit[a] \in Edit
      BY <2>1 DEF TypeOK
    <3>2. p \in Products /\ q \in Quantities
      BY <3>1 DEF Edit
    <3>3. Quantities \subseteq Nat
      BY ConstantsAssumption
    <3> HIDE DEF p, q
    <3> QED
      BY <3>2, <3>3
  <2>3. lock[p] = Free
    BY <2>1, <2>2 DEF LocksAreHeld
  <2>4. /\ version \in Row /\ version.reserved = 0
        /\ version.available = version.quantity - version.reserved
    BY <2>2 DEF Row
  <2> HIDE DEF version, HeldInv
  <2> QED
    BY <2>1, <2>2, <2>3, <2>4, RowHeld
<1>3. ASSUME NEW a \in Admins, UpsertWrite(a) PROVE FALSE
  BY <1>3 DEF UpsertWrite, Editing, EditsKnow
<1>4. ASSUME NEW a \in Admins,
             \/ \E p \in Products, q \in Quantities : UpsertRead(a, p, q)
             \/ UpsertConflict(a) \/ UpsertCompare(a)
      PROVE  HeldHasRows' /\ AvailableFollows' /\ ItemsPending'
  <2>1. UNCHANGED <<row, lock, draft, reserves, releases, work>>
    BY <1>4 DEF UpsertRead, UpsertConflict, UpsertCompare
  <2> HIDE DEF HeldInv
  <2> QED
    BY <2>1, QuietHeld
<1> QED
  BY <1>1, <1>2, <1>3, <1>4 DEF AdminStep

\* Before anything is reserved, nothing is held.
LEMMA NothingHeld ==
    ASSUME OnceInv, \A o \in Orders : reserves[o] = 0 /\ releases[o] = 0,
           NEW p \in Products
    PROVE  SumFunction(Held(p)) = 0
<1>1. \A o \in Orders : Held(p)[o] = 0
  BY HeldSummand
<1>2. \A o \in Orders : Held(p)[o] \in Nat /\ ~(Held(p)[o] > 0)
  BY <1>1
<1>3. Tally(Held(p), Orders) = {}
  BY <1>1 DEF Tally
<1>4. SumFunction(Held(p)) = Cardinality({})
  BY <1>2, <1>3, HeldSum, SumIsCardinality
<1> QED
  BY <1>4, FS_EmptySet

LEMMA InitHeld == Init => HeldInv
<1> SUFFICES ASSUME Init PROVE HeldInv
  OBVIOUS
<1>1. OnceInv
  BY InitIInv, InitOnce DEF OnceInv
<1>2. HeldHasRows
  BY <1>1, NothingHeld DEF HeldHasRows, Init
<1>3. AvailableFollows
  BY DEF Init, AvailableFollows
<1>4. ItemsPending
  BY ConstantsAssumption DEF Init, ItemsPending, PendingOf, Working
<1> QED
  BY <1>1, <1>2, <1>3, <1>4 DEF HeldInv

LEMMA NextHeld == ASSUME ~Rebalances, ~Restock PROVE HeldInv /\ [Next]_vars => HeldInv'
<1> SUFFICES ASSUME HeldInv, [Next]_vars PROVE HeldInv'
  OBVIOUS
<1>1. OnceInv'
  BY NextIInv, NextOnce DEF HeldInv, OnceInv
<1>2. CASE (\E o \in Orders, t \in {"inventory.reserve", "inventory.release"} : Command(t, o))
           \/ UNCHANGED vars
  <2>1. UNCHANGED <<row, lock, draft, reserves, releases, work>>
    BY <1>2 DEF Command, vars
  <2> QED
    BY <1>1, <2>1, QuietHeld DEF HeldInv
<1>3. CASE \E w \in Workers : WorkerStep(w)
  BY <1>1, <1>3, WorkerHeld DEF HeldInv
<1>4. CASE AdminStep
  BY <1>1, <1>4, AdminHeld DEF HeldInv
<1> QED
  BY <1>2, <1>3, <1>4 DEF Next

\* What is reserved of a product is what the orders hold that the ledger shows
\* as reserved and not released, while duplicates of a command do not overlap
\* and no product is posted twice: reserve() and release() are all or nothing,
\* whatever is missing, fails, or waits in a circle.
THEOREM HeldIsReserved == Spec => [](~Rebalances /\ ~Restock => ReservedIsHeld)
<1>1. CASE Rebalances \/ Restock
  <2>1. ~Rebalances /\ ~Restock => ReservedIsHeld
    BY <1>1
  <2> QED
    BY <2>1, PTL
<1>2. CASE ~Rebalances /\ ~Restock
  <2>1. HeldInv /\ [Next]_vars => HeldInv'
    BY <1>2, NextHeld
  <2>2. HeldInv => (~Rebalances /\ ~Restock => ReservedIsHeld)
    BY DEF HeldInv, HeldHasRows, ReservedIsHeld
  <2> QED
    BY <2>1, <2>2, InitHeld, PTL DEF Spec
<1> QED
  BY <1>1, <1>2

\* Under the same conditions available is quantity - reserved, as the comment in
\* inventory.entity.ts says, although every operation computes it on its own:
\* release(), which keeps reserved at zero or more, never finds less there than
\* it gives back.
THEOREM AvailableIsRight == Spec => [](~Rebalances /\ ~Restock => AvailableIsComputed)
<1>1. CASE Rebalances \/ Restock
  <2>1. ~Rebalances /\ ~Restock => AvailableIsComputed
    BY <1>1
  <2> QED
    BY <2>1, PTL
<1>2. CASE ~Rebalances /\ ~Restock
  <2>1. HeldInv /\ [Next]_vars => HeldInv'
    BY <1>2, NextHeld
  <2>2. HeldInv => (~Rebalances /\ ~Restock => AvailableIsComputed)
    BY DEF HeldInv, AvailableFollows, AvailableIsComputed
  <2> QED
    BY <2>1, <2>2, InitHeld, PTL DEF Spec
<1> QED
  BY <1>1, <1>2
=============================================================================
