----------------------------- MODULE ProductImages -----------------------------
(***************************************************************************)
(* The pictures of one product in catalog-service: an upload stores two    *)
(* variants in the object storage, counts the rows there are, and inserts  *)
(* one row for each variant.  The keys carry the millisecond of the upload.*)
(* The size, type and content checks of the file come first and change     *)
(* nothing.                                                                *)
(*                                                                         *)
(* A product that was deleted stays so here.  That a save() may bring it   *)
(* back, with the pictures it had loaded, is in Products.                  *)
(***************************************************************************)
EXTENDS Naturals, FiniteSets

CONSTANTS
    Uploads,       \* each one a request with a picture of its own
    MaxTime,       \* bound on the milliseconds
    Idle, None

VARIABLES
    exists,      \* the product's row
    now,         \* Date.now()
    object,      \* storage: the picture at each key
    rows,        \* product_images
    work,
    stamps,      \* history: the millisecond each upload took, 0: none
    overlapping  \* history: pairs of uploads that had both counted before one inserted

history == <<stamps, overlapping>>
vars == <<exists, now, object, rows, work, history>>

Types == {"FULL", "THUMBNAIL"}
Keys == Types \X (1 .. MaxTime)
Row == [by : Uploads, type : Types, url : Keys, displayOrder : Nat]

Work ==
    [op : {"full", "thumb", "count"}, stamp : 1 .. MaxTime]
        \cup [op : {"save"}, stamp : 1 .. MaxTime, existing : Nat]
        \cup [op : {"done"}]

ConstantsAssumption ==
    /\ MaxTime \in Nat \ {0}
    /\ Idle \notin Work /\ None \notin Uploads

Init ==
    /\ exists = TRUE /\ now = 1
    /\ object = [k \in Keys |-> None]
    /\ rows = {}
    /\ work = [u \in Uploads |-> Idle]
    /\ stamps = [u \in Uploads |-> 0] /\ overlapping = {}

Doing(u, op) == work[u] # Idle /\ work[u].op = op
Goto(u, step) == work' = [work EXCEPT ![u] = step]

\* The product is found, then the time is taken.
UploadProductImage(u) ==
    /\ work[u] = Idle /\ exists
    /\ Goto(u, [op |-> "full", stamp |-> now])
    /\ stamps' = [stamps EXCEPT ![u] = now]
    /\ UNCHANGED <<exists, now, object, rows, overlapping>>

\* PutObject replaces what is there.
Upload(u, type) ==
    /\ object' = [object EXCEPT ![<<type, work[u].stamp>>] = u]
    /\ UNCHANGED <<exists, now, rows, history>>

UploadFull(u) ==
    /\ Doing(u, "full") /\ Upload(u, "FULL")
    /\ Goto(u, [work[u] EXCEPT !.op = "thumb"])

UploadThumb(u) ==
    /\ Doing(u, "thumb") /\ Upload(u, "THUMBNAIL")
    /\ Goto(u, [work[u] EXCEPT !.op = "count"])

Count(u) ==
    /\ Doing(u, "count")
    /\ Goto(u, [op |-> "save", stamp |-> work[u].stamp, existing |-> Cardinality(rows)])
    /\ UNCHANGED <<exists, now, object, rows, history>>

\* Wrong: both variants take the same place.
NewRowsTogether(u) ==
    {[by |-> u, type |-> t, url |-> <<t, work[u].stamp>>, displayOrder |-> work[u].existing] :
        t \in Types}

NewRows(u) ==
    {[by |-> u, type |-> t, url |-> <<t, work[u].stamp>>,
      displayOrder |-> work[u].existing + (IF t = "FULL" THEN 0 ELSE 1)] : t \in Types}

\* Both rows are inserted in one transaction, and refused if the product has gone.
Save(u) ==
    /\ Doing(u, "save")
    /\ rows' = IF exists THEN rows \cup NewRows(u) ELSE rows
    /\ overlapping' = overlapping \cup {{u, v} : v \in {w \in Uploads \ {u} : Doing(w, "save")}}
    /\ Goto(u, [op |-> "done"])
    /\ UNCHANGED <<exists, now, object, stamps>>

\* ON DELETE CASCADE; the objects stay.
HardDelete ==
    /\ exists /\ exists' = FALSE /\ rows' = {}
    /\ UNCHANGED <<now, object, work, history>>

\* The storage or the database fails, or the service dies.
Fail(u) ==
    /\ work[u] # Idle /\ work[u].op # "done"
    /\ Goto(u, [op |-> "done"])
    /\ UNCHANGED <<exists, now, object, rows, history>>

Tick ==
    /\ now < MaxTime /\ now' = now + 1
    /\ UNCHANGED <<exists, object, rows, work, history>>

Next ==
    \/ \E u \in Uploads :
          \/ UploadProductImage(u) \/ UploadFull(u) \/ UploadThumb(u)
          \/ Count(u) \/ Save(u) \/ Fail(u)
    \/ HardDelete \/ Tick

Spec == Init /\ [][Next]_vars
-----------------------------------------------------------------------------
(* Properties *)

TypeOK ==
    /\ exists \in BOOLEAN /\ now \in 1 .. MaxTime
    /\ object \in [Keys -> Uploads \cup {None}]
    /\ \A r \in rows : r \in Row
    /\ work \in [Uploads -> Work \cup {Idle}]
    /\ stamps \in [Uploads -> 0 .. MaxTime]
    /\ overlapping \subseteq SUBSET Uploads

\* Every row shows the picture it was inserted for, unless another upload took
\* the same millisecond, and no two rows share a place among the pictures,
\* unless their uploads had both counted before either inserted.
ImagesInPlace ==
    /\ \A r \in rows :
          /\ object[r.url] # None
          /\ object[r.url] = r.by \/ stamps[object[r.url]] = stamps[r.by]
    /\ \A r, s \in rows :
          r # s /\ r.displayOrder = s.displayOrder => {r.by, s.by} \in overlapping

\* The inductive invariant.  An object carries the millisecond of its upload, ...
Stamped ==
    /\ \A k \in Keys : object[k] # None => stamps[object[k]] = k[2]
    /\ \A u \in Uploads :
          /\ work[u] = Idle => stamps[u] = 0
          /\ work[u] # Idle /\ work[u].op # "done" => work[u].stamp = stamps[u]

\* ... the rows come after the objects, ...
Stored ==
    /\ \A u \in Uploads :
          /\ Doing(u, "thumb") \/ Doing(u, "count") \/ Doing(u, "save")
                => object[<<"FULL", work[u].stamp>>] # None
          /\ Doing(u, "count") \/ Doing(u, "save") => object[<<"THUMBNAIL", work[u].stamp>>] # None
    /\ \A r \in rows :
          /\ Doing(r.by, "done")
          /\ object[r.url] # None /\ r.url[2] = stamps[r.by]

\* ... and the places up to the number of rows are taken: who has counted goes
\* behind all rows but those of the uploads it has overlapped.
Placed ==
    /\ IsFiniteSet(rows) /\ (~exists => rows = {})
    /\ \A r \in rows : r.displayOrder < Cardinality(rows)
    /\ \A u \in Uploads : Doing(u, "save") =>
          /\ exists => work[u].existing <= Cardinality(rows)
          /\ \A r \in rows : r.displayOrder < work[u].existing \/ {r.by, u} \in overlapping
    /\ \A r, s \in rows :
          r # s /\ r.displayOrder = s.displayOrder => {r.by, s.by} \in overlapping
ImageInv == TypeOK /\ Stamped /\ Stored /\ Placed
=============================================================================
