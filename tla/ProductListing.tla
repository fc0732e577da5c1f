---------------------------- MODULE ProductListing ----------------------------
(***************************************************************************)
(* GET /products of catalog-service: a client walks through the pages of   *)
(* the active products while vendors and administrators change them.  The  *)
(* first page is cut by offset; later ones by offset as well, or from the  *)
(* cursor that came with the page before.  A page takes two statements:    *)
(* one selects the ids, one loads the rows of those that are active still. *)
(*                                                                         *)
(* Filters only narrow the set of products and are left out.               *)
(***************************************************************************)
EXTENDS Naturals, FiniteSets

CONSTANTS
    Ids,            \* numbers that stand for random UUIDs
    PageSize,       \* limit
    Price,
    MaxTime,        \* bound on the clock of PostgreSQL, in microseconds
    MicrosPerMilli,
    Idle, None

VARIABLES
    time,      \* createdAt, None: no such product
    listed,    \* the ACTIVE products
    clock,
    walk,      \* the client's way through the pages
    seen,      \* history: products shown to the client
    repeated,  \* history: ... more than once
    steady,    \* history: listed since the walk began
    shifted,   \* history: the listing has changed during the walk
    shrunk,    \* history: a page lost a product between its statements
    lasts      \* history: products that ended a full page

history == <<seen, repeated, steady, shifted, shrunk, lasts>>
vars == <<time, listed, clock, walk, history>>

Created == {x \in Ids : time[x] # None}

Sorts == {"createdAt", "price"}
Ways == {"offset", "cursor"}
Cursors == [time : Nat, id : Ids] \cup {None}
Walk ==
    [op : {"page"}, sort : Sorts, by : Ways, page : Nat, cursor : Cursors]
        \cup [op : {"load"}, sort : Sorts, by : Ways, page : Nat, cursor : Cursors,
              ids : SUBSET Ids]
        \cup [op : {"done"}, sort : Sorts, by : Ways]

ConstantsAssumption ==
    /\ Ids \subseteq Nat /\ IsFiniteSet(Ids)
    /\ PageSize \in Nat \ {0} /\ MaxTime \in Nat \ {0} /\ MicrosPerMilli \in Nat \ {0}
    /\ Price \in [Ids -> Nat]
    /\ None \notin Nat /\ None \notin [time : Nat, id : Ids]
    /\ Idle \notin Walk

Init ==
    /\ time = [x \in Ids |-> None] /\ listed = {} /\ clock = 1
    /\ walk = Idle
    /\ seen = {} /\ repeated = {} /\ steady = {}
    /\ shifted = FALSE /\ shrunk = FALSE /\ lasts = {}

Doing(op) == walk # Idle /\ walk.op = op
Underway == Doing("page") \/ Doing("load")

-----------------------------------------------------------------------------
(* The products *)

\* An id is random; createdAt is the clock's time.
Create(x, active, t) ==
    /\ time[x] = None /\ t \in clock .. MaxTime
    /\ clock' = t /\ time' = [time EXCEPT ![x] = t]
    /\ listed' = IF active THEN listed \cup {x} ELSE listed
    /\ shifted' = (shifted \/ (active /\ Underway))
    /\ UNCHANGED <<walk, seen, repeated, steady, shrunk, lasts>>

Approve(x) ==
    /\ x \in Created \ listed
    /\ listed' = listed \cup {x}
    /\ shifted' = (shifted \/ Underway)
    /\ UNCHANGED <<time, clock, walk, seen, repeated, steady, shrunk, lasts>>

\* A vendor's edit, a suspension or a deletion.
Withdraw(x) ==
    /\ x \in listed
    /\ listed' = listed \ {x} /\ steady' = steady \ {x}
    /\ shifted' = (shifted \/ Underway)
    /\ UNCHANGED <<time, clock, walk, seen, repeated, shrunk, lasts>>

-----------------------------------------------------------------------------
(* The pages *)

\* ORDER BY createdAt DESC, id DESC unless the client sorts by something else,
\* which replaces both.
Sorted(order, x, y) ==
    IF order = "price" THEN Price[x] < Price[y]
    ELSE time[x] > time[y] \/ (time[x] = time[y] /\ x > y)

\* TypeORM appends the id to the ORDER BY of the statement that selects the ids.
Before(order, x, y) ==
    Sorted(order, x, y) \/ (order = "price" /\ Price[x] = Price[y] /\ x < y)

\* A Date of JavaScript has milliseconds, the column has microseconds.
Truncated(t) == t - (t % MicrosPerMilli)
Cursor(x) == [time |-> Truncated(time[x]), id |-> x]

\* Wrong: the product at the cursor is included.
FromCursor(c) == {x \in listed : time[x] <= c.time}

After(c) == {x \in listed : time[x] < c.time \/ (time[x] = c.time /\ x < c.id)}

\* The cursor path orders by createdAt whatever the client asks for.
Candidates == IF walk.cursor = None THEN listed ELSE After(walk.cursor)
Order == IF walk.cursor = None THEN walk.sort ELSE "createdAt"
Skip == IF walk.by = "offset" THEN walk.page * PageSize ELSE 0

AtMost(n, S) == IF n < Cardinality(S) THEN n ELSE Cardinality(S)

Start(sort, by) ==
    /\ walk = Idle
    /\ walk' = [op |-> "page", sort |-> sort, by |-> by, page |-> 0, cursor |-> None]
    /\ steady' = listed
    /\ UNCHANGED <<time, listed, clock, seen, repeated, shifted, shrunk, lasts>>

\* OFFSET and LIMIT.
Select ==
    /\ Doing("page")
    /\ \E skipped \in SUBSET Candidates : \E page \in SUBSET (Candidates \ skipped) :
          /\ Cardinality(skipped) = AtMost(Skip, Candidates)
          /\ Cardinality(page) = AtMost(PageSize, Candidates \ skipped)
          /\ \A x \in skipped, y \in Candidates \ skipped : ~Before(Order, y, x)
          /\ \A x \in page, y \in Candidates \ (skipped \cup page) : ~Before(Order, y, x)
          /\ walk' = [op |-> "load", sort |-> walk.sort, by |-> walk.by, page |-> walk.page,
                      cursor |-> walk.cursor, ids |-> page]
    /\ UNCHANGED <<time, listed, clock, history>>

\* Wrong: a page of full length is taken for the last one.
FullIsLast(page) == Cardinality(page) > PageSize

\* data.length === limit
HasNext(page) == Cardinality(page) = PageSize

\* A full page has a successor, behind its last product; in the second statement
\* equal prices come in any order.
Load ==
    /\ Doing("load")
    /\ LET page == walk.ids \cap listed IN
         /\ seen' = seen \cup page /\ repeated' = repeated \cup (page \cap seen)
         /\ shrunk' = (shrunk \/ page # walk.ids)
         /\ \/ /\ HasNext(page)
               /\ \E last \in page :
                     /\ \A x \in page : ~Sorted(Order, last, x)
                     /\ lasts' = lasts \cup {last}
                     /\ walk' = [op |-> "page", sort |-> walk.sort, by |-> walk.by,
                                 page |-> walk.page + 1,
                                 cursor |-> IF walk.by = "cursor" THEN Cursor(last) ELSE None]
            \/ /\ ~HasNext(page)
               /\ walk' = [op |-> "done", sort |-> walk.sort, by |-> walk.by]
               /\ UNCHANGED lasts
    /\ UNCHANGED <<time, listed, clock, steady, shifted>>

FindAll ==
    \/ \E sort \in Sorts, by \in Ways : Start(sort, by)
    \/ Select \/ Load

Next ==
    \/ \E x \in Ids, active \in BOOLEAN, t \in 1 .. MaxTime : Create(x, active, t)
    \/ \E x \in Ids : Approve(x) \/ Withdraw(x)
    \/ FindAll

Spec == Init /\ [][Next]_vars
-----------------------------------------------------------------------------
(* Properties *)

TypeOK ==
    /\ time \in [Ids -> 1 .. MaxTime \cup {None}]
    /\ listed \subseteq Created /\ clock \in 1 .. MaxTime
    /\ seen \subseteq Created /\ repeated \subseteq seen /\ steady \subseteq listed
    /\ lasts \subseteq seen
    /\ shifted \in BOOLEAN /\ shrunk \in BOOLEAN
    /\ walk \in Walk \cup {Idle}

ByCursor == walk.by = "cursor" /\ walk.sort = "createdAt"
ByOffset == walk.by = "offset"

\* "Cursor-based pagination: stable sort": a walk by cursor shows no product
\* twice, whatever is created, approved and withdrawn between its pages.  A walk
\* by offset does only if the listing has changed.
ListedOnce ==
    walk # Idle =>
        /\ ByCursor => repeated = {}
        /\ ByOffset => shifted \/ repeated = {}

\* A walk that has reached the end has shown every product that was listed all
\* the time, with these exceptions.  By cursor: a product lost from a page made
\* it look like the last one, or the product shares the millisecond of one that
\* ended a page and comes after it.  By offset: as above.
EveryoneIsListed ==
    Doing("done") =>
        \A x \in steady \ seen :
            \/ ByCursor /\ shrunk
            \/ ByCursor /\ \E l \in lasts : Before("createdAt", l, x)
                                            /\ Truncated(time[l]) = Truncated(time[x])
            \/ ByOffset /\ shifted
            \/ walk.by = "cursor" /\ walk.sort = "price"

\* The inductive invariants.  By cursor: what has been shown is not behind the
\* cursor; what has not is, or one of the exceptions holds.
Behind(x) ==
    \/ walk.cursor = None
    \/ time[x] < walk.cursor.time
    \/ time[x] = walk.cursor.time /\ x < walk.cursor.id
Skipped(x) ==
    \/ shrunk
    \/ \E l \in lasts : Before("createdAt", l, x) /\ Truncated(time[l]) = Truncated(time[x])
CursorInv ==
    walk # Idle /\ ByCursor =>
        /\ repeated = {}
        /\ Doing("page") =>
              /\ \A x \in seen : ~Behind(x)
              /\ \A x \in steady \ seen : Behind(x) \/ Skipped(x)
        /\ Doing("load") =>
              /\ \A x \in seen : ~Behind(x)
              /\ \A x \in walk.ids : Behind(x)
              /\ Cardinality(walk.ids) <= PageSize
              /\ \A x \in steady \ seen :
                    \/ x \in walk.ids \/ Skipped(x)
                    \/ Cardinality(walk.ids) = PageSize
                       /\ \A y \in walk.ids : ~Before("createdAt", x, y)
        /\ Doing("done") => \A x \in steady \ seen : Skipped(x)

\* By offset: the rank of a product is its place.
Rank(x) == Cardinality({y \in listed : Before(walk.sort, y, x)})
OffsetInv ==
    walk # Idle /\ ByOffset /\ ~shifted =>
        /\ repeated = {}
        /\ Doing("page") =>
              /\ seen \subseteq listed
              /\ \A x \in seen : Rank(x) < walk.page * PageSize
              /\ \A x \in steady \ seen : Rank(x) >= walk.page * PageSize
        /\ Doing("load") =>
              /\ seen \cup walk.ids \subseteq listed
              /\ Cardinality(walk.ids) <= PageSize
              /\ \A x \in seen : Rank(x) < walk.page * PageSize
              /\ \A x \in walk.ids :
                    Rank(x) >= walk.page * PageSize /\ Rank(x) < (walk.page + 1) * PageSize
              /\ \A x \in steady \ seen :
                    \/ x \in walk.ids
                    \/ Cardinality(walk.ids) = PageSize
                       /\ Rank(x) >= (walk.page + 1) * PageSize
        /\ Doing("done") => steady \subseteq seen

\* The walk goes on with a cursor by cursor alone, and has seen nothing before
\* its first page; a page that is selected consists of products.
WalkInv ==
    /\ walk = Idle => seen = {} /\ lasts = {}
    /\ Doing("load") => walk.ids \subseteq Created
    /\ Underway =>
          /\ walk.by = "offset" => walk.cursor = None
          /\ walk.cursor = None /\ walk.by = "cursor" => seen = {}
ListingInv == TypeOK /\ WalkInv /\ CursorInv /\ OffsetInv
=============================================================================
