------------------------------ MODULE Inventory ------------------------------
(***************************************************************************)
(* inventory-service: the inventory and stock_ledger tables and everything *)
(* that changes them.  reserve and release are transactions that lock one  *)
(* inventory row per item, in the order of the message, and are run by the *)
(* consumers of inventory-service-saga; adjust and upsert are requests of  *)
(* an administrator.                                                       *)
(*                                                                         *)
(* A row has one committed version and, while a transaction holds its      *)
(* lock, one uncommitted version (draft).  A statement that locks sees     *)
(* both; what is read without a lock is the committed version.  adjust     *)
(* waits for one lock only and then runs to its COMMIT without waiting, so *)
(* it is one step.                                                         *)
(***************************************************************************)
EXTENDS Integers, Sequences, FiniteSets, FiniteSetsExt

CONSTANTS
    Orders, Products,
    Items,       \* the items of each order, in the order of the message
    Workers,     \* consumers of inventory.reserve and inventory.release
    Admins,      \* POST /inventory requests that may be in progress
    Quantities,  \* quantities an administrator may set
    Deltas,      \* adjustments an administrator may make
    MaxQuantity, \* bound on the stock of a product
    MaxLedger,   \* bound on the sum of a product's ledger
    MaxAborts,   \* bound on commands that fail half-way
    Restock,     \* TRUE: administrators also POST products that have a row
    Rebalances,  \* TRUE: two consumers may execute one command at a time
    Free, Idle, NoRow

VARIABLES
    row,      \* inventory: the committed version of each product's row
    lock,     \* the worker whose transaction holds the row's lock
    draft,    \* the uncommitted version of a locked row
    reserves, \* stock_ledger: times an order's items are recorded as RESERVE
    releases, \* stock_ledger: times they are recorded as RELEASE
    booked,   \* stock_ledger: sum of the deltas recorded for each product
    events,   \* messages written to the outbox, by this service and order-service
    work,     \* the command each worker is executing
    edit,     \* the upsert each administrator's request is executing
    aborts    \* commands that failed so far

vars == <<row, lock, draft, reserves, releases, booked, events, work, edit, aborts>>

Row == [quantity : Int, reserved : Int, available : Int]
Columns == {"quantity", "reserved", "available"}
Item == [product : Products, quantity : Nat \ {0}]

Msg(t, o) == [topic |-> t, order |-> o]
Sent(t, o) == Msg(t, o) \in events
StockUpdated(p) == [topic |-> "inventory.stock-updated", product |-> p]

Work ==
    [op : {"reserve", "release", "refused"}, order : Orders, next : Nat \ {0},
     ledger : [Products -> Int]]
Edit ==
    [step : {"read", "write"}, product : Products, quantity : Quantities,
     seen : Row \cup {NoRow}, dirty : SUBSET Columns]

ASSUME ConstantsAssumption ==
    /\ IsFiniteSet(Orders) /\ Items \in [Orders -> Seq(Item)]
    /\ Quantities \subseteq Nat /\ Deltas \subseteq Int
    /\ MaxQuantity \in Nat /\ MaxLedger \in Nat /\ MaxAborts \in Nat
    /\ Restock \in BOOLEAN /\ Rebalances \in BOOLEAN
    /\ NoRow \notin Row
    /\ Free \notin Workers
    /\ Idle \notin Work /\ Idle \notin Edit

Init ==
    /\ row = [p \in Products |-> NoRow]
    /\ lock = [p \in Products |-> Free]
    /\ draft = [p \in Products |-> NoRow]
    /\ reserves = [o \in Orders |-> 0]
    /\ releases = [o \in Orders |-> 0]
    /\ booked = [p \in Products |-> 0]
    /\ events = {}
    /\ work = [w \in Workers |-> Idle]
    /\ edit = [a \in Admins |-> Idle]
    /\ aborts = 0

-----------------------------------------------------------------------------
(* Rows, locks and transactions *)

Max0(n) == IF n > 0 THEN n ELSE 0

\* What the locking statements of w's transaction see of a row.
Seen(w, p) == IF lock[p] = w THEN draft[p] ELSE row[p]

\* No other transaction stands in the way of locking the row.
Lockable(w, p) == lock[p] \in {Free, w}

Commit(w) ==
    /\ row' = [p \in Products |-> IF lock[p] = w THEN draft[p] ELSE row[p]]
    /\ booked' = [p \in Products |-> booked[p] + work[w].ledger[p]]

\* COMMIT and ROLLBACK both end the transaction's locks and its drafts.
EndTransaction(w) ==
    /\ lock' = [p \in Products |-> IF lock[p] = w THEN Free ELSE lock[p]]
    /\ draft' = [p \in Products |-> IF lock[p] = w THEN NoRow ELSE draft[p]]

NoDeltas == [p \in Products |-> 0]

\* The worker goes on with item number next.
Proceed(w, op, o, next, ledger) ==
    work' = [work EXCEPT ![w] = [op |-> op, order |-> o, next |-> next, ledger |-> ledger]]

Start(w, op, o) == Proceed(w, op, o, 1, NoDeltas)

Working(w, op) == work[w] # Idle /\ work[w].op = op
HasItem(w) == work[w].next <= Len(Items[work[w].order])
NextItem(w) == Items[work[w].order][work[w].next]

\* One item is done: its ledger row carries the delta d.
Book(w, d) ==
    Proceed(w, work[w].op, work[w].order, work[w].next + 1,
            [work[w].ledger EXCEPT ![NextItem(w).product] = @ + d])

\* The transaction is over, and what is left to do is to say that it failed.
Refuse(w) == Proceed(w, "refused", work[w].order, work[w].next, NoDeltas)

\* An order without items leaves no ledger rows.
Recorded(ledger, o) == [ledger EXCEPT ![o] = IF Items[o] = <<>> THEN @ ELSE @ + 1]

-----------------------------------------------------------------------------
(* What order-service sends.  It asks for stock once the order exists, and   *)
(* for its release only after inventory.reserved (OrderService proves it).   *)

Command(t, o) ==
    /\ t = "inventory.reserve" \/ (t = "inventory.release" /\ Sent("inventory.reserved", o))
    /\ ~Sent(t, o)
    /\ events' = events \cup {Msg(t, o)}
    /\ UNCHANGED <<row, lock, draft, reserves, releases, booked, work, edit, aborts>>

\* Messages are keyed by their outbox row, so the duplicates of a command are
\* in one partition and its consumer executes one at a time; but after a
\* rebalance the next owner starts while the previous one may still be at it.
Delivered(w, t, o, ops) ==
    /\ work[w] = Idle
    /\ Sent(t, o)
    /\ Rebalances \/ \A v \in Workers :
                        work[v] # Idle => ~(work[v].order = o /\ work[v].op \in ops)

-----------------------------------------------------------------------------
(* inventory.reserve *)

\* Wrong: the ledger is not consulted.
ReserveAlways(w, o) ==
    /\ Delivered(w, "inventory.reserve", o, {"reserve", "refused"})
    /\ Start(w, "reserve", o)
    /\ UNCHANGED <<row, lock, draft, reserves, releases, booked, events, edit, aborts>>

\* The ledger is read outside the transaction.  An order that is recorded is
\* answered 'reserved' to the consumer, which ignores it.
ReserveBegin(w, o) ==
    /\ Delivered(w, "inventory.reserve", o, {"reserve", "refused"})
    /\ reserves[o] = 0
    /\ Start(w, "reserve", o)
    /\ UNCHANGED <<row, lock, draft, reserves, releases, booked, events, edit, aborts>>

InStock(w) ==
    LET p == NextItem(w).product
    IN  Seen(w, p) # NoRow /\ Seen(w, p).available >= NextItem(w).quantity

\* Wrong: the ledger row has the sign of the order's quantity.
ReserveItemUnsigned(w) ==
    /\ Working(w, "reserve") /\ HasItem(w)
    /\ LET p == NextItem(w).product
           q == NextItem(w).quantity
       IN  /\ Lockable(w, p) /\ InStock(w)
           /\ lock' = [lock EXCEPT ![p] = w]
           /\ draft' = [draft EXCEPT ![p] = [Seen(w, p) EXCEPT
                             !.reserved = @ + q, !.available = @ - q]]
           /\ Book(w, q)
    /\ UNCHANGED <<row, reserves, releases, booked, events, edit, aborts>>

ReserveItem(w) ==
    /\ Working(w, "reserve") /\ HasItem(w)
    /\ LET p == NextItem(w).product
           q == NextItem(w).quantity
       IN  /\ Lockable(w, p) /\ InStock(w)
           /\ lock' = [lock EXCEPT ![p] = w]
           /\ draft' = [draft EXCEPT ![p] = [Seen(w, p) EXCEPT
                             !.reserved = @ + q, !.available = @ - q]]
           /\ Book(w, 0 - q)
    /\ UNCHANGED <<row, reserves, releases, booked, events, edit, aborts>>

\* Wrong: the items before the missing one are kept.
ReservePartly(w) ==
    /\ Working(w, "reserve") /\ HasItem(w)
    /\ Lockable(w, NextItem(w).product) /\ ~InStock(w)
    /\ Commit(w) /\ EndTransaction(w)
    /\ Refuse(w)
    /\ UNCHANGED <<reserves, releases, events, edit, aborts>>

\* Wrong: the transaction is left open.
ReserveRefuseOpen(w) ==
    /\ Working(w, "reserve") /\ HasItem(w)
    /\ Lockable(w, NextItem(w).product) /\ ~InStock(w)
    /\ Refuse(w)
    /\ UNCHANGED <<row, lock, draft, reserves, releases, booked, events, edit, aborts>>

\* An item is missing: rollback.  The refusal is announced after it.
ReserveRefuse(w) ==
    /\ Working(w, "reserve") /\ HasItem(w)
    /\ Lockable(w, NextItem(w).product) /\ ~InStock(w)
    /\ EndTransaction(w)
    /\ Refuse(w)
    /\ UNCHANGED <<row, reserves, releases, booked, events, edit, aborts>>

\* Wrong: the topic of another service's refusal.
AnnounceRefusedPayment(w) ==
    /\ Working(w, "refused")
    /\ events' = events \cup {Msg("payment.failed", work[w].order)}
    /\ work' = [work EXCEPT ![w] = Idle]
    /\ UNCHANGED <<row, lock, draft, reserves, releases, booked, edit, aborts>>

AnnounceRefusal(w) ==
    /\ Working(w, "refused")
    /\ events' = events \cup {Msg("inventory.reservation-failed", work[w].order)}
    /\ work' = [work EXCEPT ![w] = Idle]
    /\ UNCHANGED <<row, lock, draft, reserves, releases, booked, edit, aborts>>

ReserveCommit(w) ==
    /\ Working(w, "reserve") /\ ~HasItem(w)
    /\ Commit(w) /\ EndTransaction(w)
    /\ reserves' = Recorded(reserves, work[w].order)
    /\ events' = events \cup {Msg("inventory.reserved", work[w].order)}
    /\ work' = [work EXCEPT ![w] = Idle]
    /\ UNCHANGED <<releases, edit, aborts>>

-----------------------------------------------------------------------------
(* inventory.release *)

ReleaseBegin(w, o) ==
    /\ Delivered(w, "inventory.release", o, {"release"})
    /\ releases[o] = 0
    /\ Start(w, "release", o)
    /\ UNCHANGED <<row, lock, draft, reserves, releases, booked, events, edit, aborts>>

\* Wrong: reserved is forgotten.
ReleasedOnlyAvailable(version, q) == [version EXCEPT !.available = @ + q]

Released(version, q) ==
    [version EXCEPT !.reserved = Max0(@ - q), !.available = @ + q]

\* An UPDATE of a row that does not exist changes no row; the ledger row is
\* written all the same.
ReleaseItem(w) ==
    /\ Working(w, "release") /\ HasItem(w)
    /\ LET p == NextItem(w).product
           q == NextItem(w).quantity
       IN  /\ Lockable(w, p)
           /\ IF Seen(w, p) = NoRow
              THEN UNCHANGED <<lock, draft>>
              ELSE /\ lock' = [lock EXCEPT ![p] = w]
                   /\ draft' = [draft EXCEPT ![p] = Released(Seen(w, p), q)]
           /\ Book(w, q)
    /\ UNCHANGED <<row, reserves, releases, booked, events, edit, aborts>>

ReleaseCommit(w) ==
    /\ Working(w, "release") /\ ~HasItem(w)
    /\ Commit(w) /\ EndTransaction(w)
    /\ releases' = Recorded(releases, work[w].order)
    /\ events' = events \cup {Msg("inventory.released", work[w].order)}
    /\ work' = [work EXCEPT ![w] = Idle]
    /\ UNCHANGED <<reserves, edit, aborts>>

-----------------------------------------------------------------------------
(* A command that fails half-way: a lost connection, a consumer that dies.   *)
(* The consumer logs the error and takes the next message.  A refusal that   *)
(* fails has been rolled back already, and is never announced.               *)

Fail(w) ==
    /\ EndTransaction(w)
    /\ work' = [work EXCEPT ![w] = Idle]
    /\ UNCHANGED <<row, reserves, releases, booked, events, edit>>

Abort(w) ==
    /\ work[w] # Idle /\ aborts < MaxAborts
    /\ Fail(w)
    /\ aborts' = aborts + 1

Blocked(w) ==
    work[w] # Idle /\ work[w].op # "refused" /\ HasItem(w)
        /\ ~Lockable(w, NextItem(w).product)
Blocker(w) == lock[NextItem(w).product]

\* Transactions that wait in a circle: PostgreSQL aborts one of them.
DeadlockVictim(w) ==
    /\ \E circle \in SUBSET Workers :
           /\ w \in circle
           /\ \A v \in circle : Blocked(v)
           /\ {Blocker(v) : v \in circle} = circle
    /\ Fail(w)
    /\ UNCHANGED aborts

-----------------------------------------------------------------------------
(* PATCH /inventory/:productId/adjust *)

AdjustBookkeeping(p, d) ==
    /\ booked' = [booked EXCEPT ![p] = @ + d]
    /\ events' = events \cup {StockUpdated(p)}

Adjust(p, d) ==
    /\ row[p] # NoRow /\ lock[p] = Free
    /\ row[p].quantity + d \in 0 .. MaxQuantity
    /\ row[p].available + d >= 0
    /\ booked[p] + d <= MaxLedger
    /\ row' = [row EXCEPT ![p] = [row[p] EXCEPT !.quantity = @ + d, !.available = @ + d]]
    /\ AdjustBookkeeping(p, d)
    /\ UNCHANGED <<lock, draft, reserves, releases, work, edit, aborts>>

-----------------------------------------------------------------------------
(* POST /inventory.  The row is read before the transaction starts; save     *)
(* then compares what it is given with the row as it is now, and updates the *)
(* columns that differ.                                                      *)

UpsertRead(a, p, q) ==
    /\ edit[a] = Idle
    /\ Restock \/ row[p] = NoRow
    /\ edit' = [edit EXCEPT ![a] = [step |-> "read", product |-> p, quantity |-> q,
                                    seen |-> row[p], dirty |-> {}]]
    /\ UNCHANGED <<row, lock, draft, reserves, releases, booked, events, work, aborts>>

Editing(a, step) == edit[a] # Idle /\ edit[a].step = step

UpsertBookkeeping(a) ==
    LET p == edit[a].product IN
    /\ booked[p] + edit[a].quantity <= MaxLedger
    /\ booked' = [booked EXCEPT ![p] = @ + edit[a].quantity]
    /\ events' = events \cup {StockUpdated(p)}
    /\ edit' = [edit EXCEPT ![a] = Idle]

UpsertInsert(a) ==
    LET p == edit[a].product
        q == edit[a].quantity
    IN  /\ Editing(a, "read") /\ edit[a].seen = NoRow
        /\ row[p] = NoRow
        /\ row' = [row EXCEPT ![p] = [quantity |-> q, reserved |-> 0, available |-> q]]
        /\ UpsertBookkeeping(a)
        /\ UNCHANGED <<lock, draft, reserves, releases, work, aborts>>

\* Another request inserted the row first: productId is unique, rollback.
UpsertConflict(a) ==
    /\ Editing(a, "read") /\ edit[a].seen = NoRow
    /\ row[edit[a].product] # NoRow
    /\ edit' = [edit EXCEPT ![a] = Idle]
    /\ UNCHANGED <<row, lock, draft, reserves, releases, booked, events, work, aborts>>

\* Wrong: the new quantity is for sale, what is reserved of it too.
EntityAllForSale(quantity, seen) ==
    [quantity |-> quantity, reserved |-> seen.reserved, available |-> quantity]

\* The entity save is given: the row as it was read, with the new quantity.
Entity(quantity, seen) ==
    [quantity |-> quantity, reserved |-> seen.reserved,
     available |-> Max0(seen.available + quantity - seen.quantity)]

UpsertCompare(a) ==
    /\ Editing(a, "read") /\ edit[a].seen # NoRow
    /\ LET new == Entity(edit[a].quantity, edit[a].seen) IN
         edit' = [edit EXCEPT ![a] = [edit[a] EXCEPT
             !.step = "write",
             !.dirty = {c \in Columns : new[c] # row[edit[a].product][c]}]]
    /\ UNCHANGED <<row, lock, draft, reserves, releases, booked, events, work, aborts>>

UpsertWrite(a) ==
    LET p == edit[a].product
        new == Entity(edit[a].quantity, edit[a].seen)
    IN  /\ Editing(a, "write")
        /\ lock[p] = Free \/ edit[a].dirty = {}
        /\ row' = [row EXCEPT ![p] =
               [c \in Columns |-> IF c \in edit[a].dirty THEN new[c] ELSE row[p][c]]]
        /\ UpsertBookkeeping(a)
        /\ UNCHANGED <<lock, draft, reserves, releases, work, aborts>>

-----------------------------------------------------------------------------
WorkerStep(w) ==
    \/ \E o \in Orders : ReserveBegin(w, o) \/ ReleaseBegin(w, o)
    \/ ReserveItem(w) \/ ReserveRefuse(w) \/ AnnounceRefusal(w) \/ ReserveCommit(w)
    \/ ReleaseItem(w) \/ ReleaseCommit(w)
    \/ Abort(w) \/ DeadlockVictim(w)

AdminStep ==
    \/ \E p \in Products, d \in Deltas : Adjust(p, d)
    \/ \E a \in Admins :
           \/ \E p \in Products, q \in Quantities : UpsertRead(a, p, q)
           \/ UpsertInsert(a) \/ UpsertConflict(a)
           \/ UpsertCompare(a) \/ UpsertWrite(a)

Next ==
    \/ \E o \in Orders, t \in {"inventory.reserve", "inventory.release"} : Command(t, o)
    \/ \E w \in Workers : WorkerStep(w)
    \/ AdminStep

Spec == Init /\ [][Next]_vars

\* A worker that has begun goes on.  PostgreSQL grants a row lock in the order
\* of the requests, so a worker that can take the lock again and again gets it
\* (strong fairness), and finds circles of waiting transactions.
Fairness ==
    \A w \in Workers :
        /\ SF_vars(ReserveItem(w) \/ ReserveRefuse(w) \/ ReleaseItem(w))
        /\ WF_vars(AnnounceRefusal(w) \/ ReserveCommit(w) \/ ReleaseCommit(w))
        /\ WF_vars(DeadlockVictim(w))

FairSpec == Spec /\ Fairness
-----------------------------------------------------------------------------
(* Properties *)

TypeOK ==
    /\ row \in [Products -> Row \cup {NoRow}]
    /\ lock \in [Products -> Workers \cup {Free}]
    /\ draft \in [Products -> Row \cup {NoRow}]
    /\ reserves \in [Orders -> Nat] /\ releases \in [Orders -> Nat]
    /\ booked \in [Products -> Int]
    /\ work \in [Workers -> Work \cup {Idle}]
    /\ \A w \in Workers : work[w] # Idle => work[w].next <= Len(Items[work[w].order]) + 1
    /\ edit \in [Admins -> Edit \cup {Idle}]
    /\ aborts \in 0 .. MaxAborts

\* Checks made under the row lock, and values computed from rows read without
\* it, never let a column go below zero, in what is committed and in what a
\* transaction is about to commit.  (That no unit is sold twice is NeverOversold.)
NeverNegative ==
    \A p \in Products : \A version \in {row[p], draft[p]} \ {NoRow} :
        version.quantity >= 0 /\ version.reserved >= 0 /\ version.available >= 0

\* The ledger is the history of the stock: what is available of a product is
\* the sum of the deltas recorded for it.  (Not with Restock: an upsert of an
\* existing row records its new quantity, not the change.)
LedgerExplainsStock ==
    \A p \in Products :
        booked[p] = IF row[p] = NoRow THEN 0 ELSE row[p].available

\* No unit disappears: every unit of a product is available or reserved.
StockAccounted ==
    \A p \in Products :
        row[p] # NoRow => row[p].quantity <= row[p].reserved + row[p].available

\* inventory.entity.ts says of available: "Computed: quantity - reserved (but
\* stored for query performance)".  No unit appears from nowhere either.  (Not
\* with Restock: an upsert that is overtaken writes some columns only.)
AvailableIsComputed ==
    \A p \in Products :
        row[p] # NoRow => row[p].available = row[p].quantity - row[p].reserved

\* How many units of p the items of o before the n-th one ask for, and all do.
UnitsBefore(o, p, n) ==
    SumFunctionOnSet([i \in DOMAIN Items[o] |-> Items[o][i].quantity],
                     {i \in DOMAIN Items[o] : Items[o][i].product = p /\ i < n})
UnitsOf(o, p) == UnitsBefore(o, p, Len(Items[o]) + 1)

\* The units of p that the ledger shows as reserved for each order and not released.
Held(p) == [o \in Orders |-> (reserves[o] - releases[o]) * UnitsOf(o, p)]

\* What the orders hold and what is for sale of a product is there.
Covered(p) == row[p] # NoRow => row[p].available + SumFunction(Held(p)) <= row[p].quantity

\* The row was another when the upsert read it, or when save compared it.
Overtaken(a) ==
    LET p == edit[a].product IN
    \/ edit[a].seen # row[p]
    \/ edit[a].dirty # {c \in Columns : Entity(edit[a].quantity, edit[a].seen)[c] # row[p][c]}

\* No unit is sold twice: what one order holds is not for sale to another,
\* through reservations, releases, adjustments and new quantities.  It comes
\* for sale again in two ways only: by an upsert of a row that changed since
\* it was read, whose save writes old columns over a reservation (and may leave
\* every column nonnegative), and by one that sets the quantity below what the
\* orders hold, which Math.max(0, ...) hides.
NeverOversold ==
    [][\A p \in Products : Covered(p) /\ ~Covered(p)' =>
          \E a \in Admins :
              /\ Editing(a, "write") /\ edit[a].product = p /\ edit'[a] = Idle
              /\ Overtaken(a) \/ edit[a].quantity < SumFunction(Held(p))]_vars

\* Reservations are all or nothing: the units of a product that are reserved
\* are those of the orders the ledger shows as reserved and not released.
ReservedIsHeld ==
    \A p \in Products : row[p] # NoRow => row[p].reserved = SumFunction(Held(p))

\* docs/inventory-stock-flow.md: "All reserve/release operations check
\* StockLedgerEntity for an existing record ... Duplicate commands are
\* silently ignored."  The stock of an order is taken once and given back at
\* most once, however often the commands are delivered.
ReservedOnce == \A o \in Orders : releases[o] <= reserves[o] /\ reserves[o] <= 1

\* A command is carried out or refused in the end: locks taken in the order of
\* the items make transactions wait in circles, and rollbacks untie them.
CommandsFinish == \A w \in Workers : work[w] # Idle ~> work[w] = Idle

(* What the proofs need to know of a reachable state *)

\* A locked row exists, has a draft, and its transaction is at work.
LocksAreHeld ==
    \A p \in Products : lock[p] # Free =>
        /\ row[p] # NoRow /\ draft[p] # NoRow
        /\ Working(lock[p], "reserve") \/ Working(lock[p], "release")

\* What is, or is being, reserved or released has a row: an UPDATE of release
\* never misses.
AnsweredHasRows(o) ==
    /\ Sent("inventory.release", o) => Sent("inventory.reserved", o)
    /\ Sent("inventory.reserved", o) =>
          \A i \in DOMAIN Items[o] : row[Items[o][i].product] # NoRow

TakenHasRows(w) ==
    /\ Working(w, "reserve") =>
          \A i \in DOMAIN Items[work[w].order] :
              i < work[w].next => row[Items[work[w].order][i].product] # NoRow
    /\ Working(w, "release") => Sent("inventory.reserved", work[w].order)

RowsExist ==
    /\ \A o \in Orders : AnsweredHasRows(o)
    /\ \A w \in Workers : TakenHasRows(w)

\* The drafts of a transaction differ from the rows by its ledger rows.
DeltasPending ==
    \A w \in Workers, p \in Products : work[w] # Idle =>
        IF lock[p] = w THEN draft[p].available = row[p].available + work[w].ledger[p]
        ELSE work[w].ledger[p] = 0

\* An upsert that found a row found a possible one, and it is still there.
EditsKnow ==
    \A a \in Admins : edit[a] # Idle =>
        /\ edit[a].step = "write" => edit[a].seen # NoRow
        /\ edit[a].seen # NoRow =>
              /\ Restock /\ row[edit[a].product] # NoRow
              /\ edit[a].seen.reserved >= 0

\* StockAccounted, of drafts too.
UnitsKept ==
    \A p \in Products : \A version \in {row[p], draft[p]} \ {NoRow} :
        version.quantity <= version.reserved + version.available

IInv ==
    /\ TypeOK /\ NeverNegative
    /\ LocksAreHeld /\ RowsExist /\ DeltasPending /\ EditsKnow
    /\ ~Restock => LedgerExplainsStock /\ UnitsKept

\* Where the duplicates of a command are executed one after the other: ...
OneExecution ==
    \A v, w \in Workers :
        v # w /\ work[v] # Idle /\ work[w] # Idle /\ work[v].order = work[w].order =>
            (work[v].op = "release" <=> work[w].op # "release")

\* ... what the ledger showed when a command began is true until it ends, and
\* an order that was answered has its stock recorded, if it has items.
LedgerFollowed ==
    /\ \A w \in Workers :
          /\ Working(w, "reserve") => reserves[work[w].order] = 0
          /\ Working(w, "release") => releases[work[w].order] = 0
    /\ \A o \in Orders :
          /\ reserves[o] <= 1 /\ releases[o] <= 1
          /\ releases[o] > 0 => Items[o] # <<>> /\ Sent("inventory.reserved", o)
          /\ Items[o] # <<>> /\ Sent("inventory.reserved", o) => reserves[o] = 1

OnceInv == IInv /\ OneExecution /\ LedgerFollowed

\* Where also no product is posted twice: ReservedIsHeld, and of products
\* without a row nothing is held; ...
HeldHasRows ==
    \A p \in Products :
        SumFunction(Held(p)) = IF row[p] = NoRow THEN 0 ELSE row[p].reserved

\* ... AvailableIsComputed, of drafts too; ...
AvailableFollows ==
    \A p \in Products : \A version \in {row[p], draft[p]} \ {NoRow} :
        version.available = version.quantity - version.reserved

\* ... and a transaction's ledger rows are those of the items it has done,
\* and reserved moves in its drafts as they say.
PendingOf(w, p) ==
    LET done == UnitsBefore(work[w].order, p, work[w].next) IN
    /\ Working(w, "reserve") => work[w].ledger[p] = 0 - done
    /\ Working(w, "release") => work[w].ledger[p] = done
    /\ lock[p] = w => draft[p].reserved = row[p].reserved - work[w].ledger[p]

ItemsPending == \A w \in Workers, p \in Products : PendingOf(w, p)

HeldInv == OnceInv /\ HeldHasRows /\ AvailableFollows /\ ItemsPending
=============================================================================
