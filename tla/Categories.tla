------------------------------ MODULE Categories ------------------------------
(***************************************************************************)
(* The categories of catalog-service, which administrators create, change  *)
(* and delete softly.  A request changes an entity it has read; save() of  *)
(* it reads the row again and writes the columns that differ.  Neither the *)
(* tree nor the parent's deletion is checked: a category may become its    *)
(* own ancestor.                                                           *)
(***************************************************************************)
EXTENDS Naturals

CONSTANTS
    Categories, Admins,
    Slugs,          \* given ones and generated ones alike
    Idle, None

VARIABLES
    row,            \* None: no such row
    work            \* overtaken: the row has changed since it was read

vars == <<row, work>>

Row == [slug : Slugs, parent : Categories \cup {None}, deleted : BOOLEAN]
Columns == {"slug", "parent", "deleted"}

Work ==
    [op : {"save"}, id : Categories, asked : SUBSET Columns, entity : Row,
     overtaken : BOOLEAN]
        \cup [op : {"write"}, id : Categories, asked : SUBSET Columns, entity : Row,
              overtaken : BOOLEAN, diff : SUBSET Columns]

ConstantsAssumption == None \notin Row /\ Idle \notin Work

Init ==
    /\ row = [c \in Categories |-> None]
    /\ work = [a \in Admins |-> Idle]

Doing(a, op) == work[a] # Idle /\ work[a].op = op
Existing == {c \in Categories : row[c] # None}

\* IDX_categories_slug, which counts deleted rows, and FK_categories_parentId.
Permitted(c, entity) ==
    /\ \A d \in Existing \ {c} : row[d].slug # entity.slug
    /\ entity.parent \in Existing \cup {c, None}

\* find() skips rows with deletedAt.
Found(c) == row[c] # None /\ ~row[c].deleted

-----------------------------------------------------------------------------
(* The requests *)

\* One INSERT, refused by the constraints or made.
CreateCategory(c, slug, parent) ==
    /\ row[c] = None
    /\ LET entity == [slug |-> slug, parent |-> parent, deleted |-> FALSE] IN
         /\ Permitted(c, entity) /\ parent # c
         /\ row' = [row EXCEPT ![c] = entity]
    /\ UNCHANGED work

\* The columns named in the request are changed in the entity.
Begin(a, c, asked, entity) ==
    /\ work[a] = Idle /\ Found(c)
    /\ work' = [work EXCEPT ![a] = [op |-> "save", id |-> c, asked |-> asked,
                                    entity |-> entity, overtaken |-> FALSE]]
    /\ UNCHANGED row

\* Wrong: a request without a parent moves the category to the root.
UpdateWhole(a, c, slug, parent) ==
    \/ Begin(a, c, {"slug"}, [row[c] EXCEPT !.slug = slug, !.parent = None])
    \/ Begin(a, c, {"parent"}, [row[c] EXCEPT !.parent = parent])
    \/ Begin(a, c, {"slug", "parent"}, [row[c] EXCEPT !.slug = slug, !.parent = parent])

UpdateCategory(a, c, slug, parent) ==
    \/ Begin(a, c, {"slug"}, [row[c] EXCEPT !.slug = slug])
    \/ Begin(a, c, {"parent"}, [row[c] EXCEPT !.parent = parent])
    \/ Begin(a, c, {"slug", "parent"}, [row[c] EXCEPT !.slug = slug, !.parent = parent])

DeleteCategory(a, c) == Begin(a, c, {"deleted"}, [row[c] EXCEPT !.deleted = TRUE])

\* save(): the row is compared with the entity ...
SaveCompare(a) ==
    /\ Doing(a, "save")
    /\ LET w == work[a] IN
         work' = [work EXCEPT ![a] =
                     [op |-> "write", id |-> w.id, asked |-> w.asked, entity |-> w.entity,
                      overtaken |-> w.overtaken,
                      diff |-> {k \in Columns : w.entity[k] # row[w.id][k]}]]
    /\ UNCHANGED row

Merged(r, entity, diff) ==
    [slug |-> IF "slug" \in diff THEN entity.slug ELSE r.slug,
     parent |-> IF "parent" \in diff THEN entity.parent ELSE r.parent,
     deleted |-> IF "deleted" \in diff THEN entity.deleted ELSE r.deleted]

\* ... and the columns that differ are written, unless a constraint refuses.
SaveWrite(a) ==
    /\ Doing(a, "write")
    /\ LET c == work[a].id
           r == Merged(row[c], work[a].entity, work[a].diff) IN
         /\ \/ Permitted(c, r) /\ row' = [row EXCEPT ![c] = r]
            \/ ~Permitted(c, r) /\ UNCHANGED row
         /\ work' = [b \in Admins |->
                        IF b = a THEN Idle
                        ELSE IF work[b] # Idle /\ work[b].id = c /\ row' # row
                             THEN [work[b] EXCEPT !.overtaken = TRUE]
                             ELSE work[b]]

\* A statement fails or the service dies.
Fail(a) ==
    /\ work[a] # Idle
    /\ work' = [work EXCEPT ![a] = Idle]
    /\ UNCHANGED row

Request(a, c) ==
    \/ DeleteCategory(a, c)
    \/ \E slug \in Slugs, parent \in Categories \cup {None} :
          UpdateCategory(a, c, slug, parent)

Next ==
    \/ \E c \in Categories, slug \in Slugs, parent \in Categories \cup {None} :
          CreateCategory(c, slug, parent)
    \/ \E a \in Admins :
          \/ \E c \in Categories : Request(a, c)
          \/ SaveCompare(a) \/ SaveWrite(a) \/ Fail(a)

Spec == Init /\ [][Next]_vars
-----------------------------------------------------------------------------
(* Properties *)

TypeOK ==
    /\ row \in [Categories -> Row \cup {None}]
    /\ work \in [Admins -> Work \cup {Idle}]

\* A category changes in the columns a request has named and in no other: in
\* particular a deleted one is not restored by a rename.  A request that another
\* one has overtaken is the exception: it may write back all it has read.
OnlyWhatWasAsked ==
    [][\A c \in Existing, k \in Columns :
          row'[c][k] # row[c][k] =>
              \E a \in Admins : Doing(a, "write") /\ work'[a] = Idle /\ work[a].id = c
                                 /\ (k \in work[a].asked \/ work[a].overtaken)]_vars

\* The inductive invariant: until another request writes the row, an entity
\* differs from it in the columns asked for and in no other.
Current ==
    \A a \in Admins : work[a] # Idle =>
        /\ row[work[a].id] # None
        /\ ~work[a].overtaken =>
              \A k \in Columns \ work[a].asked : work[a].entity[k] = row[work[a].id][k]
TreeInv == TypeOK /\ Current
=============================================================================
