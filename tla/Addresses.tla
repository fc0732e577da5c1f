------------------------------- MODULE Addresses -------------------------------
(***************************************************************************)
(* The address book of one user in auth-service.  A request reads, decides *)
(* and writes in separate statements.  save() of an entity is two of them: *)
(* the row is read again, and what differs from the entity is written; a   *)
(* row that has gone is inserted again.                                    *)
(***************************************************************************)
EXTENDS Naturals, FiniteSets

CONSTANTS
    Addresses,     \* ids; a random id no row and no request holds is used again
    Workers,
    MaxAddresses,  \* MAX_ADDRESSES_PER_USER
    Idle

VARIABLES
    row,        \* none, plain, or default (isDefault)
    work,
    overlapped  \* history: requests overlapped since a default was chosen alone

vars == <<row, work, overlapped>>

Work == [op : {"clear", "save", "insert", "update", "remove"}, id : Addresses,
         entity : {"plain", "default"}]

ConstantsAssumption ==
    /\ IsFiniteSet(Workers)
    /\ MaxAddresses \in Nat \ {0}
    /\ Idle \notin Work

Init ==
    /\ row = [a \in Addresses |-> "none"]
    /\ work = [w \in Workers |-> Idle]
    /\ overlapped = FALSE

Rows == {a \in Addresses : row[a] # "none"}
Defaults == {a \in Addresses : row[a] = "default"}
Busy == {w \in Workers : work[w] # Idle}
Doing(w, op) == work[w] # Idle /\ work[w].op = op

\* A request that goes on to write: one that sets the default clears all first.
Begin(w, op, id, entity) ==
    /\ work[w] = Idle
    /\ work' = [work EXCEPT ![w] = [op |-> op, id |-> id, entity |-> entity]]
    /\ overlapped' = (overlapped \/ Busy # {})
    /\ UNCHANGED row
Saving(default) == IF default THEN "clear" ELSE "save"
Entity(default) == IF default THEN "default" ELSE "plain"

\* Wrong: one more than the limit.
CreateOneMore(w, id, default) ==
    /\ Cardinality(Rows) <= MaxAddresses
    /\ id \notin Rows \cup {work[v].id : v \in Busy}
    /\ Begin(w, Saving(default), id, Entity(default))

Create(w, id, default) ==
    /\ Cardinality(Rows) < MaxAddresses
    /\ id \notin Rows \cup {work[v].id : v \in Busy}
    /\ Begin(w, Saving(default), id, Entity(default))

\* Without isDefault in the request the entity keeps the value it was read with.
Update(w, id) ==
    /\ id \in Rows
    /\ \/ Begin(w, "save", id, row[id])
       \/ \E default \in BOOLEAN : Begin(w, Saving(default), id, Entity(default))

\* Wrong: the default there was is kept.
SetDefaultOnly(w, id) == id \in Rows /\ Begin(w, "save", id, "default")

SetDefault(w, id) == id \in Rows /\ Begin(w, "clear", id, "default")

Remove(w, id) == id \in Rows /\ Begin(w, "remove", id, row[id])

Clear(w) ==
    /\ Doing(w, "clear")
    /\ row' = [a \in Addresses |-> IF row[a] = "default" THEN "plain" ELSE row[a]]
    /\ work' = [work EXCEPT ![w].op = "save"]
    /\ overlapped' = (Busy # {w})

Save(w) ==
    /\ Doing(w, "save")
    /\ LET a == work[w].id IN
         work' = [work EXCEPT ![w] = CASE row[a] = "none" -> [@ EXCEPT !.op = "insert"]
                                       [] row[a] = @.entity -> Idle
                                       [] OTHER -> [@ EXCEPT !.op = "update"]]
    /\ UNCHANGED <<row, overlapped>>

\* UPDATE finds no row if it has been removed since.
SaveWrite(w) ==
    /\ Doing(w, "insert") \/ Doing(w, "update")
    /\ row' = [row EXCEPT ![work[w].id] =
                  IF Doing(w, "insert") \/ @ # "none" THEN work[w].entity ELSE @]
    /\ work' = [work EXCEPT ![w] = Idle]
    /\ UNCHANGED overlapped

Delete(w) ==
    /\ Doing(w, "remove")
    /\ row' = [row EXCEPT ![work[w].id] = "none"]
    /\ work' = [work EXCEPT ![w] = Idle]
    /\ UNCHANGED overlapped

\* A statement fails or the service dies.
Fail(w) ==
    /\ work[w] # Idle
    /\ work' = [work EXCEPT ![w] = Idle]
    /\ UNCHANGED <<row, overlapped>>

Request(w, id) ==
    \/ Update(w, id) \/ SetDefault(w, id) \/ Remove(w, id)
    \/ \E default \in BOOLEAN : Create(w, id, default)

Next ==
    \E w \in Workers :
        \/ \E id \in Addresses : Request(w, id)
        \/ Clear(w) \/ Save(w) \/ SaveWrite(w) \/ Delete(w) \/ Fail(w)

Spec == Init /\ [][Next]_vars
-----------------------------------------------------------------------------
(* Properties *)

TypeOK ==
    /\ row \in [Addresses -> {"none", "plain", "default"}]
    /\ work \in [Workers -> Work \cup {Idle}]
    /\ overlapped \in BOOLEAN

\* The limit is overrun by no more than the requests that can overlap, although
\* each counts before it inserts, and an edit may insert a removed row again.
BoundedOverrun ==
    Cardinality(Rows) < MaxAddresses + Cardinality(Workers)

\* An address book has one default at most, unless requests overlapped since a
\* default was last chosen: one that was read before may write its copy back.
OneDefault == overlapped \/ Cardinality(Defaults) <= 1

\* The inductive invariants.  What the address book may hold once the requests
\* under way have written: the limit was checked against the rows alone.
Prospects ==
    Rows \cup {work[w].id : w \in {v \in Busy : work[v].op \in {"clear", "save", "insert"}}}
FewProspects ==
    IsFiniteSet(Prospects) /\ Cardinality(Prospects) < MaxAddresses + Cardinality(Workers)
BookInv == TypeOK /\ FewProspects

\* Alone since the default was chosen, a request that is past its clear and
\* writes a default writes the only one.
SoleDefault ==
    overlapped \/
        /\ \A v, w \in Busy : v = w
        /\ \A a, b \in Defaults : a = b
        /\ \A w \in Busy : work[w].op \in {"save", "insert", "update"} /\ work[w].entity = "default"
              => Defaults \subseteq {work[w].id}
DefaultInv == TypeOK /\ SoleDefault
=============================================================================
