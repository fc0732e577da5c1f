----------------------------- MODULE CatalogProofs -----------------------------
(***************************************************************************)
(* Proofs about catalog-service, for every value of the constants of its   *)
(* parts: the life of a product and its cache, the pages of the listing,   *)
(* the pictures of a product and the categories, each from an inductive    *)
(* invariant of its own, and what they promise when MCCatalog runs one.    *)
(***************************************************************************)
EXTENDS MCCatalog, FiniteSetTheorems, FunctionTheorems, TLAPS

-----------------------------------------------------------------------------
(* The life of a product *)

\* A row stays a row when some of its fields are changed.
LEMMA Edited ==
    ASSUME NEW r \in Row, NEW content \in 1 .. MaxContents, NEW status \in Status,
           NEW deleted \in BOOLEAN
    PROVE  /\ [r EXCEPT !.content = content, !.status = status] \in Row
           /\ [r EXCEPT !.content = content] \in Row
           /\ [r EXCEPT !.status = status] \in Row
           /\ [r EXCEPT !.status = status, !.deleted = deleted] \in Row
           /\ [content |-> content, status |-> status, deleted |-> deleted] \in Row
BY DEF Row

LEMMA MergedRow ==
    ASSUME row \in Row, NEW entity \in Row, NEW diff PROVE Merged(entity, diff) \in Row
<1> DEFINE content == IF "content" \in diff THEN entity.content ELSE row.content
           status == IF "status" \in diff THEN entity.status ELSE row.status
           deleted == IF "deleted" \in diff THEN entity.deleted ELSE row.deleted
<1>1. content \in 1 .. MaxContents /\ status \in Status /\ deleted \in BOOLEAN
  BY DEF Row
<1>2. Merged(entity, diff) = [content |-> content, status |-> status, deleted |-> deleted]
  BY DEF Merged
<1> HIDE DEF content, status, deleted
<1> QED
  BY <1>1, <1>2 DEF Row

\* What a request may be doing, by what it needs.
LEMMA Steps ==
    /\ \A op \in {"delete", "upload", "invalidate", "miss"} : [op |-> op] \in Work
    /\ \A e \in Row, l \in Loaded, op \in {"save", "insert"} :
          [op |-> op, entity |-> e, loaded |-> l] \in Work
    /\ \A e \in Row, l \in Loaded, diff \in SUBSET Columns, s \in SUBSET Pictures :
          [op |-> "write", entity |-> e, loaded |-> l, diff |-> diff, seen |-> s] \in Work
    /\ \A page \in Page : [op |-> "fill", page |-> page] \in Work
BY DEF Work

\* What a worker in a given step carries.
LEMMA Carried ==
    ASSUME NEW k \in Work
    PROVE  /\ k.op \in {"save", "insert", "write"} => k.entity \in Row /\ k.loaded \in Loaded
           /\ k.op = "write" => k.diff \in SUBSET Columns /\ k.seen \in SUBSET Pictures
           /\ k.op = "fill" => k.page \in Page
BY DEF Work

\* The type of the program counters after a step.
LEMMA Going ==
    ASSUME TypeOK, NEW w \in Workers, NEW k \in Work \cup {Idle}, Goto(w, k)
    PROVE  work' \in [Workers -> Work \cup {Idle}]
BY DEF TypeOK, Goto

\* Who has changed the row has the copy to delete next.
LEMMA Invalidating ==
    ASSUME TypeOK, NEW w \in Workers, SaveWrite(w) \/ SaveInsert(w) \/ Delete(w)
    PROVE  /\ work' = [work EXCEPT ![w] = [op |-> "invalidate"]]
           /\ Doing(w, "invalidate")' /\ ~Doing(w, "fill")'
<1>1. work' = [work EXCEPT ![w] = [op |-> "invalidate"]]
  BY DEF SaveWrite, SaveInsert, Delete, Goto
<1>2. [op |-> "invalidate"] # Idle
  BY Steps, ConstantsAssumption
<1> QED
  BY <1>1, <1>2 DEF TypeOK, Doing

\* The history kept at a change of the row: its types, and the requests that
\* still hold an entity of a product that is gone.
LEMMA NoteTypes ==
    ASSUME TypeOK, NEW w \in Workers, Note(w)
    PROVE  /\ crossed' \in BOOLEAN /\ gone' \in BOOLEAN /\ holders' \subseteq Workers
           /\ late' \subseteq Pictures /\ outdated' \subseteq Workers
BY DEF TypeOK, Note, Overtake, Removed

LEMMA NoteHolders ==
    ASSUME OnlyHolders, NEW w \in Workers, Note(w), NEW v \in Workers \ {w}, Saving(v), gone'
    PROVE  v \in holders'
<1>1. CASE Removed(row') /\ ~gone
  BY <1>1 DEF Note
<1>2. CASE ~(Removed(row') /\ ~gone)
  BY <1>2 DEF Note, OnlyHolders
<1> QED
  BY <1>1, <1>2

\* An administrator lets through what he saves as ACTIVE.
LEMMA AdminEntities ==
    ASSUME TypeOK, EntitiesApproved, NEW w \in Workers, NEW entity \in Row, AdminSaves(w, entity)
    PROVE  EntitiesApproved'
<1>1. SUFFICES ASSUME NEW v \in Workers, Saving(v)', work'[v].entity.status = "ACTIVE"
               PROVE  /\ work'[v].entity.content \in approved'
                      /\ work'[v].loaded # None /\ work'[v].loaded \subseteq passed'
  BY DEF EntitiesApproved
<1>2. work' = [work EXCEPT ![w] = [op |-> "save", entity |-> entity, loaded |-> pictures]]
  BY DEF AdminSaves, Begin, Start, Goto
<1>3. approved \subseteq approved' /\ passed \subseteq passed'
  BY DEF AdminSaves, reviews
<1>4. pictures # None
  <2>1. pictures \in SUBSET Pictures
    BY ConstantsAssumption DEF TypeOK, Pictures
  <2> QED
    BY <2>1, ConstantsAssumption
<1>5. CASE v = w
  BY <1>1, <1>2, <1>4, <1>5 DEF AdminSaves, TypeOK
<1>6. CASE v # w
  <2>1. Saving(v) /\ work'[v] = work[v]
    BY <1>1, <1>2, <1>6 DEF Saving, TypeOK
  <2> QED
    BY <1>1, <1>3, <2>1 DEF EntitiesApproved
<1> QED
  BY <1>5, <1>6

\* Every action keeps the types.
LEMMA TypeStep == ASSUME IInv, Next PROVE TypeOK'
<1> USE ConstantsAssumption DEF IInv, reviews, copy, trace, TypeOK
<1>1. CASE \E w \in Workers, content \in 1 .. MaxContents : UpdateForVendor(w, content)
  <2>1. PICK w \in Workers, content \in 1 .. MaxContents : UpdateForVendor(w, content)
    BY <1>1
  <2>2. row \in Row /\ [row EXCEPT !.content = content, !.status = "PENDING_REVIEW"] \in Row
        /\ pictures \in Loaded /\ None \in Loaded
    BY <2>1 DEF UpdateForVendor, Found, Edit, Row, Status, Loaded
  <2>3. work' \in [Workers -> Work \cup {Idle}]
    BY <2>1, <2>2, Steps, Going DEF UpdateForVendor, Begin, Start
  <2> QED
    BY <2>1, <2>2, <2>3 DEF UpdateForVendor, Edit, Begin, Start, Row
<1>2. CASE \E w \in Workers, content \in 1 .. MaxContents, status \in Status :
            UpdateForAdmin(w, content, status)
  <2>1. PICK w \in Workers, content \in 1 .. MaxContents, status \in Status :
              UpdateForAdmin(w, content, status)
    BY <1>2
  <2>2. row \in Row /\ [row EXCEPT !.content = content, !.status = status] \in Row
        /\ pictures \in Loaded /\ None \in Loaded
    BY <2>1 DEF UpdateForAdmin, Found, Edit, Row, Status, Loaded
  <2>3. work' \in [Workers -> Work \cup {Idle}]
    BY <2>1, <2>2, Steps, Going DEF UpdateForAdmin, AdminSaves, Begin, Start
  <2> QED
    BY <2>1, <2>2, <2>3 DEF UpdateForAdmin, AdminSaves, Edit, Begin, Start, Row
<1>3. CASE \E w \in Workers : SoftDeleteForVendor(w)
  <2>1. PICK w \in Workers : SoftDeleteForVendor(w)
    BY <1>3
  <2>2. row \in Row /\ [row EXCEPT !.status = "DELETED", !.deleted = TRUE] \in Row
        /\ pictures \in Loaded /\ None \in Loaded
    BY <2>1 DEF SoftDeleteForVendor, Found, Edit, Row, Status, Loaded
  <2>3. work' \in [Workers -> Work \cup {Idle}]
    BY <2>1, <2>2, Steps, Going DEF SoftDeleteForVendor, Begin, Start
  <2> QED
    BY <2>1, <2>2, <2>3 DEF SoftDeleteForVendor, Edit, Begin, Start, Row
<1>4. CASE \E w \in Workers : HardDelete(w) \/ UploadProductImage(w) \/ FindOne(w)
  <2>1. PICK w \in Workers, op \in {"delete", "upload", "miss"} :
                Start(w, [op |-> op]) /\ UNCHANGED <<contents, approved, passed>>
    BY <1>4 DEF HardDelete, UploadProductImage, FindOne
  <2>2. work' \in [Workers -> Work \cup {Idle}]
    BY <2>1, Steps, Going DEF Start
  <2> QED
    BY <2>1, <2>2 DEF Start
<1>5. CASE \E w \in Workers, status \in Status : Judge(w, status)
  <2>1. PICK w \in Workers, status \in Status : Judge(w, status)
    BY <1>5
  <2>2. row \in Row /\ [row EXCEPT !.status = status] \in Row
        /\ pictures \in Loaded /\ None \in Loaded
    BY <2>1 DEF Judge, Found, Edit, Row, Status, Loaded
  <2>3. work' \in [Workers -> Work \cup {Idle}]
    BY <2>1, <2>2, Steps, Going DEF Judge, AdminSaves, Begin, Start
  <2> QED
    BY <2>1, <2>2, <2>3 DEF Judge, AdminSaves, Edit, Begin, Start, Row
<1>6. CASE \E w \in Workers : SaveCompare(w)
  <2>1. PICK w \in Workers : SaveCompare(w)
    BY <1>6
  <2>2. work[w] \in Work /\ work[w].op = "save"
    BY <2>1 DEF SaveCompare, Doing
  <2>3. work[w].entity \in Row /\ work[w].loaded \in Loaded
    BY <2>2, Carried
  <2>4. {c \in Columns : work[w].entity[c] # row[c]} \in SUBSET Columns /\ pictures \in SUBSET Pictures
    OBVIOUS
  <2>5. work' \in [Workers -> Work \cup {Idle}]
    BY <2>1, <2>3, <2>4, Steps, Going DEF SaveCompare
  <2> QED
    BY <2>1, <2>5 DEF SaveCompare
<1>7. CASE \E w \in Workers : SaveWrite(w)
  <2>1. PICK w \in Workers : SaveWrite(w)
    BY <1>7
  <2>2. work[w] \in Work /\ work[w].op = "write" /\ row \in Row
    BY <2>1 DEF SaveWrite, Doing
  <2>3. work[w].entity \in Row /\ work[w].loaded \in Loaded
    BY <2>2, Carried
  <2>4. Merged(work[w].entity, work[w].diff) \in Row
    BY <2>2, <2>3, MergedRow
  <2>5. work' \in [Workers -> Work \cup {Idle}]
    BY <2>1, Steps, Going DEF SaveWrite
  <2>6. Added(work[w]) \subseteq Pictures
    BY <2>3 DEF Added, Loaded
  <2> QED
    BY <2>1, <2>4, <2>5, <2>6, NoteTypes DEF SaveWrite
<1>8. CASE \E w \in Workers : SaveNothing(w)
  <2>1. PICK w \in Workers : SaveNothing(w)
    BY <1>8
  <2>2. work' \in [Workers -> Work \cup {Idle}]
    BY <2>1, Steps, Going DEF SaveNothing
  <2> QED
    BY <2>1, <2>2 DEF SaveNothing
<1>9. CASE \E w \in Workers : SaveInsert(w)
  <2>1. PICK w \in Workers : SaveInsert(w)
    BY <1>9
  <2>2. work[w] \in Work /\ work[w].op = "insert"
    BY <2>1 DEF SaveInsert, Doing
  <2>3. work[w].entity \in Row /\ work[w].loaded \in Loaded
    BY <2>2, Carried
  <2>4. work' \in [Workers -> Work \cup {Idle}]
    BY <2>1, Steps, Going DEF SaveInsert
  <2> QED
    BY <2>1, <2>3, <2>4, NoteTypes DEF SaveInsert, Loaded
<1>10. CASE \E w \in Workers : Delete(w)
  <2>1. PICK w \in Workers : Delete(w)
    BY <1>10
  <2>2. work' \in [Workers -> Work \cup {Idle}]
    BY <2>1, Steps, Going DEF Delete, Deleting
  <2> QED
    BY <2>1, <2>2, NoteTypes DEF Delete, Deleting
<1>11. CASE \E w \in Workers : SavePicture(w)
  <2>1. PICK w \in Workers : SavePicture(w)
    BY <1>11
  <2>2. work' \in [Workers -> Work \cup {Idle}]
    BY <2>1, Going DEF SavePicture
  <2>3. uploaded' \in 0 .. MaxPictures /\ uploaded' \in Pictures
    BY <2>1 DEF SavePicture, Pictures
  <2> QED
    BY <2>1, <2>2, <2>3 DEF SavePicture, Overtake
<1>12. CASE \E w \in Workers : InvalidateProduct(w)
  <2>1. PICK w \in Workers : InvalidateProduct(w)
    BY <1>12
  <2>2. work' \in [Workers -> Work \cup {Idle}]
    BY <2>1, Steps, Going DEF InvalidateProduct
  <2> QED
    BY <2>1, <2>2 DEF InvalidateProduct
<1>13. CASE \E w \in Workers : Select(w)
  <2>1. PICK w \in Workers : Select(w)
    BY <1>13
  <2>2. Public => View \in Page
    BY DEF Public, Active, View, Page, Row
  <2>3. work' \in [Workers -> Work \cup {Idle}]
    BY <2>1, <2>2, Steps, Going DEF Select
  <2> QED
    BY <2>1, <2>3 DEF Select
<1>14. CASE \E w \in Workers : SetProduct(w)
  <2>1. PICK w \in Workers : SetProduct(w)
    BY <1>14
  <2>2. work' \in [Workers -> Work \cup {Idle}]
    BY <2>1, Going DEF SetProduct
  <2>3. work[w].page \in Page
    BY <2>1, Carried DEF SetProduct, Doing
  <2> QED
    BY <2>1, <2>2, <2>3 DEF SetProduct
<1>15. CASE \E w \in Workers : Fail(w)
  <2>1. PICK w \in Workers : Fail(w)
    BY <1>15
  <2>2. work' \in [Workers -> Work \cup {Idle}]
    BY <2>1, Steps, Going DEF Fail
  <2> QED
    BY <2>1, <2>2 DEF Fail
<1>16. CASE CreateForVendor \/ \E status \in Status : CreateForAdmin(status)
  <2>1. PICK status \in Status, byAdmin \in BOOLEAN : Create(status, byAdmin)
    BY <1>16 DEF CreateForVendor, CreateForAdmin, Status
  <2>2. 1 \in 1 .. MaxContents /\ 1 \in 0 .. MaxContents
    BY <2>1 DEF Create
  <2>3. [content |-> 1, status |-> status, deleted |-> FALSE] \in Row
    BY <2>1, <2>2 DEF Row
  <2> QED
    BY <2>1, <2>2, <2>3 DEF Create
<1>17. CASE Expire
  BY <1>17 DEF Expire
<1> QED
  BY <1>1, <1>2, <1>3, <1>4, <1>5, <1>6, <1>7, <1>8, <1>9, <1>10, <1>11, <1>12, <1>13, <1>14,
     <1>15, <1>16, <1>17
     DEF Next, Request, VendorRequest, AdminRequest, CreateForVendor, CreateForAdmin, Step,
         ApproveProduct, RejectProduct, SuspendProduct, Status

\* What becomes ACTIVE is approved: a write makes the row the entity, with its
\* pictures.
LEMMA ActiveStep == ASSUME IInv, Next PROVE ActiveIsApproved'
<1> USE ConstantsAssumption DEF IInv, reviews, copy, trace, ActiveIsApproved, Active, Doing,
   TypeOK, EntitiesApproved, ComparedStands, Saving, Columns
<1>1. CASE \E w \in Workers, content \in 1 .. MaxContents : UpdateForVendor(w, content)
  BY <1>1 DEF UpdateForVendor, Edit, Found, Begin, Start, Goto
<1>2. CASE \E w \in Workers, content \in 1 .. MaxContents, status \in Status :
            UpdateForAdmin(w, content, status)
  BY <1>2 DEF UpdateForAdmin, AdminSaves, Edit, Found, Begin, Start, Goto
<1>3. CASE \E w \in Workers : SoftDeleteForVendor(w)
  BY <1>3 DEF SoftDeleteForVendor, Found, Begin, Start, Goto
<1>4. CASE \E w \in Workers : HardDelete(w) \/ UploadProductImage(w) \/ FindOne(w)
  <2>1. PICK w \in Workers, op \in {"delete", "upload", "miss"} :
                /\ op = "miss" \/ row # None
                /\ Start(w, [op |-> op]) /\ UNCHANGED <<contents, approved, passed>>
    BY <1>4 DEF HardDelete, UploadProductImage, FindOne, Found
  <2> QED
    BY <2>1 DEF Start, Goto
<1>5. CASE \E w \in Workers, status \in Status : Judge(w, status)
  BY <1>5 DEF Judge, AdminSaves, Found, Begin, Start, Goto
<1>6. CASE \E w \in Workers : SaveCompare(w)
  BY <1>6 DEF SaveCompare, Goto
<1>7. CASE \E w \in Workers : SaveWrite(w)
  <2>1. PICK w \in Workers : SaveWrite(w)
    BY <1>7
  <2>2. SUFFICES ASSUME Active', ~crossed'
                 PROVE  row'.content \in approved /\ pictures' \subseteq passed \cup late
    BY <2>1, <2>2 DEF SaveWrite, Note
  <2>3. row' = Merged(work[w].entity, work[w].diff) /\ ~crossed
    BY <2>1, <2>2 DEF SaveWrite, Note
  <2>4. row'.status = work[w].entity.status /\ row'.content = work[w].entity.content
    BY <2>1, <2>3 DEF SaveWrite, Merged
  <2>5. work[w].entity.content \in approved /\ work[w].loaded # None /\ work[w].loaded \subseteq passed
    BY <2>1, <2>2, <2>4 DEF SaveWrite
  <2>6. pictures' = pictures \cup (work[w].loaded \ work[w].seen)
    BY <2>1, <2>5 DEF SaveWrite, Added
  <2>7. (work[w].seen \ work[w].loaded) \cap pictures = {}
    BY <2>1, <2>5 DEF SaveWrite, Orphans
  <2>8. work[w].seen \subseteq pictures /\ pictures \subseteq work[w].seen \cup late
    BY <2>1, <2>3 DEF SaveWrite
  <2> QED
    BY <2>4, <2>5, <2>6, <2>7, <2>8
<1>8. CASE \E w \in Workers : SaveNothing(w)
  BY <1>8 DEF SaveNothing, Goto
<1>9. CASE \E w \in Workers : SaveInsert(w)
  BY <1>9 DEF SaveInsert, Note, Overtake, Removed, Goto
<1>10. CASE \E w \in Workers : Delete(w)
  BY <1>10 DEF Delete, Deleting, Note, Overtake, Removed, Goto
<1>11. CASE \E w \in Workers : SavePicture(w)
  BY <1>11 DEF SavePicture, Overtake, Goto
<1>12. CASE \E w \in Workers : InvalidateProduct(w)
  BY <1>12 DEF InvalidateProduct, Goto
<1>13. CASE \E w \in Workers : Select(w)
  BY <1>13 DEF Select, Goto
<1>14. CASE \E w \in Workers : SetProduct(w)
  BY <1>14 DEF SetProduct, Goto
<1>15. CASE \E w \in Workers : Fail(w)
  BY <1>15 DEF Fail, Goto
<1>16. CASE CreateForVendor \/ \E status \in Status : CreateForAdmin(status)
  <2>1. PICK status \in Status, byAdmin \in BOOLEAN :
                Create(status, byAdmin) /\ (byAdmin \/ status = "PENDING_REVIEW")
    BY <1>16 DEF CreateForVendor, CreateForAdmin, Status
  <2>2. row' = [content |-> 1, status |-> status, deleted |-> FALSE] /\ pictures' = {}
    BY <2>1 DEF Create, Untouched
  <2>3. byAdmin => 1 \in approved'
    BY <2>1 DEF Create
  <2> QED
    BY <2>1, <2>2, <2>3
<1>17. CASE Expire
  BY <1>17 DEF Expire
<1> QED
  BY <1>1, <1>2, <1>3, <1>4, <1>5, <1>6, <1>7, <1>8, <1>9, <1>10, <1>11, <1>12, <1>13, <1>14,
     <1>15, <1>16, <1>17
     DEF Next, Request, VendorRequest, AdminRequest, CreateForVendor, CreateForAdmin, Step,
         ApproveProduct, RejectProduct, SuspendProduct, Status

\* Who changes the row has the copy to delete.
LEMMA CacheStep == ASSUME IInv, Next PROVE CacheIsCurrent'
<1> USE ConstantsAssumption DEF IInv, reviews, copy, trace, CacheIsCurrent, Doing, TypeOK, View,
   Public, Active, FillsFresh, UploadedOnly, Untouched
<1>1. CASE \E w \in Workers, content \in 1 .. MaxContents : UpdateForVendor(w, content)
  BY <1>1 DEF UpdateForVendor, Edit, Found, Begin, Start, Goto
<1>2. CASE \E w \in Workers, content \in 1 .. MaxContents, status \in Status :
            UpdateForAdmin(w, content, status)
  BY <1>2 DEF UpdateForAdmin, AdminSaves, Edit, Found, Begin, Start, Goto
<1>3. CASE \E w \in Workers : SoftDeleteForVendor(w)
  BY <1>3 DEF SoftDeleteForVendor, Found, Begin, Start, Goto
<1>4. CASE \E w \in Workers : HardDelete(w) \/ UploadProductImage(w) \/ FindOne(w)
  BY <1>4 DEF HardDelete, UploadProductImage, FindOne, Found, Start, Goto
<1>5. CASE \E w \in Workers, status \in Status : Judge(w, status)
  BY <1>5 DEF Judge, AdminSaves, Found, Begin, Start, Goto
<1>6. CASE \E w \in Workers : SaveCompare(w)
  BY <1>6 DEF SaveCompare, Goto
<1>7. CASE \E w \in Workers : SaveWrite(w)
  <2>1. PICK w \in Workers : SaveWrite(w)
    BY <1>7
  <2> QED
    BY <2>1, Invalidating DEF SaveWrite
<1>8. CASE \E w \in Workers : SaveNothing(w)
  BY <1>8 DEF SaveNothing, Goto
<1>9. CASE \E w \in Workers : SaveInsert(w)
  <2>1. PICK w \in Workers : SaveInsert(w)
    BY <1>9
  <2> QED
    BY <2>1, Invalidating DEF SaveInsert
<1>10. CASE \E w \in Workers : Delete(w)
  <2>1. PICK w \in Workers : Delete(w)
    BY <1>10
  <2> QED
    BY <2>1, Invalidating DEF Delete
<1>11. CASE \E w \in Workers : SavePicture(w)
  BY <1>11 DEF SavePicture, Overtake, Goto
<1>12. CASE \E w \in Workers : InvalidateProduct(w)
  BY <1>12 DEF InvalidateProduct, Goto
<1>13. CASE \E w \in Workers : Select(w)
  BY <1>13 DEF Select, Goto
<1>14. CASE \E w \in Workers : SetProduct(w)
  <2>1. PICK w \in Workers : SetProduct(w)
    BY <1>14
  <2>2. cache' = work[w].page /\ missed' = {} /\ excused' = (w \in outdated) /\ View' = View
    BY <2>1 DEF SetProduct
  <2>3. w \in outdated \/ cache' = View
    BY <2>1, <2>2 DEF SetProduct
  <2>4. Public => View = [View EXCEPT !.pictures = @ \ {}]
    OBVIOUS
  <2> QED
    BY <2>1, <2>2, <2>3, <2>4 DEF SetProduct
<1>15. CASE \E w \in Workers : Fail(w)
  BY <1>15 DEF Fail, Goto
<1>16. CASE CreateForVendor \/ \E status \in Status : CreateForAdmin(status)
  BY <1>16 DEF Create, CreateForVendor, CreateForAdmin
<1>17. CASE Expire
  BY <1>17 DEF Expire
<1> QED
  BY <1>1, <1>2, <1>3, <1>4, <1>5, <1>6, <1>7, <1>8, <1>9, <1>10, <1>11, <1>12, <1>13, <1>14,
     <1>15, <1>16, <1>17
     DEF Next, Request, VendorRequest, AdminRequest, CreateForVendor, CreateForAdmin, Step,
         ApproveProduct, RejectProduct, SuspendProduct, Status

\* Nobody but a holder can save a product that is gone.
LEMMA DeletedStep == ASSUME IInv, Next PROVE DeletedStaysDeleted'
<1> USE ConstantsAssumption DEF IInv, reviews, copy, trace, DeletedStaysDeleted, Doing, TypeOK,
   OnlyHolders, Saving, Removed, Untouched
<1>1. CASE \E w \in Workers, content \in 1 .. MaxContents : UpdateForVendor(w, content)
  BY <1>1 DEF UpdateForVendor, Edit, Found, Begin, Start, Goto
<1>2. CASE \E w \in Workers, content \in 1 .. MaxContents, status \in Status :
            UpdateForAdmin(w, content, status)
  BY <1>2 DEF UpdateForAdmin, AdminSaves, Edit, Found, Begin, Start, Goto
<1>3. CASE \E w \in Workers : SoftDeleteForVendor(w)
  BY <1>3 DEF SoftDeleteForVendor, Found, Begin, Start, Goto
<1>4. CASE \E w \in Workers : HardDelete(w) \/ UploadProductImage(w) \/ FindOne(w)
  BY <1>4 DEF HardDelete, UploadProductImage, FindOne, Found, Start, Goto
<1>5. CASE \E w \in Workers, status \in Status : Judge(w, status)
  BY <1>5 DEF Judge, AdminSaves, Found, Begin, Start, Goto
<1>6. CASE \E w \in Workers : SaveCompare(w)
  BY <1>6 DEF SaveCompare, Goto
<1>7. CASE \E w \in Workers : SaveWrite(w)
  BY <1>7 DEF SaveWrite, Merged, Added, Orphans, Note, Overtake, Removed, Goto
<1>8. CASE \E w \in Workers : SaveNothing(w)
  BY <1>8 DEF SaveNothing, Goto
<1>9. CASE \E w \in Workers : SaveInsert(w)
  BY <1>9 DEF SaveInsert, Note, Overtake, Removed, Goto
<1>10. CASE \E w \in Workers : Delete(w)
  BY <1>10 DEF Delete, Deleting, Note, Overtake, Removed, Goto
<1>11. CASE \E w \in Workers : SavePicture(w)
  BY <1>11 DEF SavePicture, Overtake, Goto
<1>12. CASE \E w \in Workers : InvalidateProduct(w)
  BY <1>12 DEF InvalidateProduct, Goto
<1>13. CASE \E w \in Workers : Select(w)
  BY <1>13 DEF Select, Goto
<1>14. CASE \E w \in Workers : SetProduct(w)
  BY <1>14 DEF SetProduct, Goto
<1>15. CASE \E w \in Workers : Fail(w)
  BY <1>15 DEF Fail, Goto
<1>16. CASE CreateForVendor \/ \E status \in Status : CreateForAdmin(status)
  BY <1>16 DEF Create, CreateForVendor, CreateForAdmin
<1>17. CASE Expire
  BY <1>17 DEF Expire
<1> QED
  BY <1>1, <1>2, <1>3, <1>4, <1>5, <1>6, <1>7, <1>8, <1>9, <1>10, <1>11, <1>12, <1>13, <1>14,
     <1>15, <1>16, <1>17
     DEF Next, Request, VendorRequest, AdminRequest, CreateForVendor, CreateForAdmin, Step,
         ApproveProduct, RejectProduct, SuspendProduct, Status

\* An ACTIVE entity is approved when it is read, or by who makes it ACTIVE.
LEMMA EntitiesStep == ASSUME IInv, Next PROVE EntitiesApproved'
<1> USE ConstantsAssumption DEF IInv, reviews, copy, trace, EntitiesApproved, Doing, TypeOK,
   Saving, ActiveIsApproved, Active, Untouched
<1>1. CASE \E w \in Workers, content \in 1 .. MaxContents : UpdateForVendor(w, content)
  BY <1>1 DEF UpdateForVendor, Edit, Found, Begin, Start, Goto
<1>2. CASE \E w \in Workers, content \in 1 .. MaxContents, status \in Status :
            UpdateForAdmin(w, content, status)
  <2>1. PICK w \in Workers, content \in 1 .. MaxContents, status \in Status :
              UpdateForAdmin(w, content, status)
    BY <1>2
  <2>2. row \in Row /\ [row EXCEPT !.content = content, !.status = status] \in Row
    BY <2>1 DEF UpdateForAdmin, Found, Edit, Row
  <2>3. AdminSaves(w, [row EXCEPT !.content = content, !.status = status])
    BY <2>1 DEF UpdateForAdmin
  <2> QED
    BY <2>2, <2>3, AdminEntities
<1>3. CASE \E w \in Workers : SoftDeleteForVendor(w)
  BY <1>3 DEF SoftDeleteForVendor, Found, Begin, Start, Goto
<1>4. CASE \E w \in Workers : HardDelete(w) \/ UploadProductImage(w) \/ FindOne(w)
  BY <1>4 DEF HardDelete, UploadProductImage, FindOne, Found, Start, Goto
<1>5. CASE \E w \in Workers, status \in Status : Judge(w, status)
  <2>1. PICK w \in Workers, status \in Status : Judge(w, status)
    BY <1>5
  <2>2. row \in Row /\ [row EXCEPT !.status = status] \in Row
    BY <2>1 DEF Judge, Found, Edit, Row
  <2>3. AdminSaves(w, [row EXCEPT !.status = status])
    BY <2>1 DEF Judge
  <2> QED
    BY <2>2, <2>3, AdminEntities
<1>6. CASE \E w \in Workers : SaveCompare(w)
  BY <1>6 DEF SaveCompare, Goto
<1>7. CASE \E w \in Workers : SaveWrite(w)
  BY <1>7 DEF SaveWrite, Merged, Added, Orphans, Note, Overtake, Removed, Goto
<1>8. CASE \E w \in Workers : SaveNothing(w)
  BY <1>8 DEF SaveNothing, Goto
<1>9. CASE \E w \in Workers : SaveInsert(w)
  BY <1>9 DEF SaveInsert, Note, Overtake, Removed, Goto
<1>10. CASE \E w \in Workers : Delete(w)
  BY <1>10 DEF Delete, Deleting, Note, Overtake, Removed, Goto
<1>11. CASE \E w \in Workers : SavePicture(w)
  BY <1>11 DEF SavePicture, Overtake, Goto
<1>12. CASE \E w \in Workers : InvalidateProduct(w)
  BY <1>12 DEF InvalidateProduct, Goto
<1>13. CASE \E w \in Workers : Select(w)
  BY <1>13 DEF Select, Goto
<1>14. CASE \E w \in Workers : SetProduct(w)
  BY <1>14 DEF SetProduct, Goto
<1>15. CASE \E w \in Workers : Fail(w)
  BY <1>15 DEF Fail, Goto
<1>16. CASE CreateForVendor \/ \E status \in Status : CreateForAdmin(status)
  BY <1>16 DEF Create, CreateForVendor, CreateForAdmin
<1>17. CASE Expire
  BY <1>17 DEF Expire
<1> QED
  BY <1>1, <1>2, <1>3, <1>4, <1>5, <1>6, <1>7, <1>8, <1>9, <1>10, <1>11, <1>12, <1>13, <1>14,
     <1>15, <1>16, <1>17
     DEF Next, Request, VendorRequest, AdminRequest, CreateForVendor, CreateForAdmin, Step,
         ApproveProduct, RejectProduct, SuspendProduct, Status

\* Another write in between is a crossing, a picture in between is late.
LEMMA ComparedStep == ASSUME IInv, Next PROVE ComparedStands'
<1> USE ConstantsAssumption DEF IInv, reviews, copy, trace, ComparedStands, Doing, TypeOK,
   Saving, Columns, Untouched
<1>1. CASE \E w \in Workers, content \in 1 .. MaxContents : UpdateForVendor(w, content)
  BY <1>1 DEF UpdateForVendor, Edit, Found, Begin, Start, Goto
<1>2. CASE \E w \in Workers, content \in 1 .. MaxContents, status \in Status :
            UpdateForAdmin(w, content, status)
  BY <1>2 DEF UpdateForAdmin, AdminSaves, Edit, Found, Begin, Start, Goto
<1>3. CASE \E w \in Workers : SoftDeleteForVendor(w)
  BY <1>3 DEF SoftDeleteForVendor, Found, Begin, Start, Goto
<1>4. CASE \E w \in Workers : HardDelete(w) \/ UploadProductImage(w) \/ FindOne(w)
  <2>1. PICK w \in Workers, op \in {"delete", "upload", "miss"} :
                /\ op = "miss" \/ row # None
                /\ Start(w, [op |-> op]) /\ UNCHANGED <<contents, approved, passed>>
    BY <1>4 DEF HardDelete, UploadProductImage, FindOne, Found
  <2> QED
    BY <2>1 DEF Start, Goto
<1>5. CASE \E w \in Workers, status \in Status : Judge(w, status)
  BY <1>5 DEF Judge, AdminSaves, Found, Begin, Start, Goto
<1>6. CASE \E w \in Workers : SaveCompare(w)
  BY <1>6 DEF SaveCompare, Goto
<1>7. CASE \E w \in Workers : SaveWrite(w)
  <2>1. PICK w \in Workers : SaveWrite(w)
    BY <1>7
  <2>2. SUFFICES ASSUME NEW v \in Workers, Doing(v, "write")', ~crossed' PROVE FALSE
    BY <2>2 DEF ComparedStands
  <2>3. work' = [work EXCEPT ![w] = [op |-> "invalidate"]]
    BY <2>1 DEF SaveWrite, Goto
  <2>4. v # w /\ Doing(v, "write")
    BY <2>2, <2>3
  <2> QED
    BY <2>1, <2>2, <2>4 DEF SaveWrite, Note
<1>8. CASE \E w \in Workers : SaveNothing(w)
  BY <1>8 DEF SaveNothing, Goto
<1>9. CASE \E w \in Workers : SaveInsert(w)
  BY <1>9 DEF SaveInsert, Note, Overtake, Removed, Goto
<1>10. CASE \E w \in Workers : Delete(w)
  <2>1. PICK w \in Workers : Delete(w)
    BY <1>10
  <2>2. SUFFICES ASSUME NEW v \in Workers, Doing(v, "write")', ~crossed' PROVE FALSE
    BY <2>2 DEF ComparedStands
  <2>3. work' = [work EXCEPT ![w] = [op |-> "invalidate"]]
    BY <2>1 DEF Delete, Deleting, Goto
  <2>4. v # w /\ Doing(v, "write")
    BY <2>2, <2>3
  <2> QED
    BY <2>1, <2>2, <2>4 DEF Delete, Deleting, Note
<1>11. CASE \E w \in Workers : SavePicture(w)
  BY <1>11 DEF SavePicture, Overtake, Goto
<1>12. CASE \E w \in Workers : InvalidateProduct(w)
  BY <1>12 DEF InvalidateProduct, Goto
<1>13. CASE \E w \in Workers : Select(w)
  BY <1>13 DEF Select, Goto
<1>14. CASE \E w \in Workers : SetProduct(w)
  BY <1>14 DEF SetProduct, Goto
<1>15. CASE \E w \in Workers : Fail(w)
  BY <1>15 DEF Fail, Goto
<1>16. CASE CreateForVendor \/ \E status \in Status : CreateForAdmin(status)
  BY <1>16 DEF Create, CreateForVendor, CreateForAdmin
<1>17. CASE Expire
  BY <1>17 DEF Expire
<1> QED
  BY <1>1, <1>2, <1>3, <1>4, <1>5, <1>6, <1>7, <1>8, <1>9, <1>10, <1>11, <1>12, <1>13, <1>14,
     <1>15, <1>16, <1>17
     DEF Next, Request, VendorRequest, AdminRequest, CreateForVendor, CreateForAdmin, Step,
         ApproveProduct, RejectProduct, SuspendProduct, Status

\* A change of the page overtakes the fills underway.
LEMMA FreshStep == ASSUME IInv, Next PROVE FillsFresh'
<1> USE ConstantsAssumption DEF IInv, reviews, copy, trace, FillsFresh, Doing, TypeOK, View,
   Public, Active, Untouched
<1>1. CASE \E w \in Workers, content \in 1 .. MaxContents : UpdateForVendor(w, content)
  BY <1>1 DEF UpdateForVendor, Edit, Found, Begin, Start, Goto
<1>2. CASE \E w \in Workers, content \in 1 .. MaxContents, status \in Status :
            UpdateForAdmin(w, content, status)
  BY <1>2 DEF UpdateForAdmin, AdminSaves, Edit, Found, Begin, Start, Goto
<1>3. CASE \E w \in Workers : SoftDeleteForVendor(w)
  BY <1>3 DEF SoftDeleteForVendor, Found, Begin, Start, Goto
<1>4. CASE \E w \in Workers : HardDelete(w) \/ UploadProductImage(w) \/ FindOne(w)
  BY <1>4 DEF HardDelete, UploadProductImage, FindOne, Found, Start, Goto
<1>5. CASE \E w \in Workers, status \in Status : Judge(w, status)
  BY <1>5 DEF Judge, AdminSaves, Found, Begin, Start, Goto
<1>6. CASE \E w \in Workers : SaveCompare(w)
  BY <1>6 DEF SaveCompare, Goto
<1>7. CASE \E w \in Workers : SaveWrite(w)
  <2>1. PICK w \in Workers : SaveWrite(w)
    BY <1>7
  <2>2. work' = [work EXCEPT ![w] = work'[w]] /\ ~Doing(w, "fill")' /\ Overtake
    BY <2>1, Invalidating DEF SaveWrite, Note, Goto
  <2> HIDE DEF View, Public, Active
  <2> QED
    BY <2>2 DEF Overtake
<1>8. CASE \E w \in Workers : SaveNothing(w)
  BY <1>8 DEF SaveNothing, Goto
<1>9. CASE \E w \in Workers : SaveInsert(w)
  <2>1. PICK w \in Workers : SaveInsert(w)
    BY <1>9
  <2>2. work' = [work EXCEPT ![w] = work'[w]] /\ ~Doing(w, "fill")' /\ Overtake
    BY <2>1, Invalidating DEF SaveInsert, Note, Goto
  <2> HIDE DEF View, Public, Active
  <2> QED
    BY <2>2 DEF Overtake
<1>10. CASE \E w \in Workers : Delete(w)
  <2>1. PICK w \in Workers : Delete(w)
    BY <1>10
  <2>2. work' = [work EXCEPT ![w] = work'[w]] /\ ~Doing(w, "fill")' /\ Overtake
    BY <2>1, Invalidating DEF Delete, Deleting, Note, Goto
  <2> HIDE DEF View, Public, Active
  <2> QED
    BY <2>2 DEF Overtake
<1>11. CASE \E w \in Workers : SavePicture(w)
  BY <1>11 DEF SavePicture, Overtake, Goto
<1>12. CASE \E w \in Workers : InvalidateProduct(w)
  BY <1>12 DEF InvalidateProduct, Goto
<1>13. CASE \E w \in Workers : Select(w)
  BY <1>13 DEF Select, Goto
<1>14. CASE \E w \in Workers : SetProduct(w)
  BY <1>14 DEF SetProduct, Goto
<1>15. CASE \E w \in Workers : Fail(w)
  BY <1>15 DEF Fail, Goto
<1>16. CASE CreateForVendor \/ \E status \in Status : CreateForAdmin(status)
  BY <1>16 DEF Create, CreateForVendor, CreateForAdmin
<1>17. CASE Expire
  BY <1>17 DEF Expire
<1> QED
  BY <1>1, <1>2, <1>3, <1>4, <1>5, <1>6, <1>7, <1>8, <1>9, <1>10, <1>11, <1>12, <1>13, <1>14,
     <1>15, <1>16, <1>17
     DEF Next, Request, VendorRequest, AdminRequest, CreateForVendor, CreateForAdmin, Step,
         ApproveProduct, RejectProduct, SuspendProduct, Status

\* A picture is known from its upload on.
LEMMA UploadedStep == ASSUME IInv, Next PROVE UploadedOnly'
<1> USE ConstantsAssumption DEF IInv, reviews, copy, trace, UploadedOnly, Doing, Saving, TypeOK
<1>1. CASE \E w \in Workers, content \in 1 .. MaxContents : UpdateForVendor(w, content)
  BY <1>1 DEF UpdateForVendor, Edit, Found, Begin, Start, Goto
<1>2. CASE \E w \in Workers, content \in 1 .. MaxContents, status \in Status :
            UpdateForAdmin(w, content, status)
  BY <1>2 DEF UpdateForAdmin, AdminSaves, Edit, Found, Begin, Start, Goto
<1>3. CASE \E w \in Workers : SoftDeleteForVendor(w)
  BY <1>3 DEF SoftDeleteForVendor, Found, Begin, Start, Goto
<1>4. CASE \E w \in Workers : HardDelete(w) \/ UploadProductImage(w) \/ FindOne(w)
  <2>1. PICK w \in Workers, op \in {"delete", "upload", "miss"} :
                /\ op = "miss" \/ row # None
                /\ Start(w, [op |-> op]) /\ UNCHANGED <<contents, approved, passed>>
    BY <1>4 DEF HardDelete, UploadProductImage, FindOne, Found
  <2> QED
    BY <2>1 DEF Start, Goto
<1>5. CASE \E w \in Workers, status \in Status : Judge(w, status)
  BY <1>5 DEF Judge, AdminSaves, Found, Begin, Start, Goto
<1>6. CASE \E w \in Workers : SaveCompare(w)
  BY <1>6 DEF SaveCompare, Goto
<1>7. CASE \E w \in Workers : SaveWrite(w)
  <2>1. PICK w \in Workers : SaveWrite(w)
    BY <1>7
  <2>2. work' = [work EXCEPT ![w] = [op |-> "invalidate"]] /\ uploaded' = uploaded /\ ~Saving(w)'
    BY <2>1, Invalidating DEF SaveWrite
  <2>3. Added(work[w]) \subseteq 1 .. uploaded
    BY <2>1 DEF SaveWrite, Added
  <2> QED
    BY <2>1, <2>2, <2>3 DEF SaveWrite
<1>8. CASE \E w \in Workers : SaveNothing(w)
  BY <1>8 DEF SaveNothing, Goto
<1>9. CASE \E w \in Workers : SaveInsert(w)
  BY <1>9 DEF SaveInsert, Note, Overtake, Removed, Goto
<1>10. CASE \E w \in Workers : Delete(w)
  BY <1>10 DEF Delete, Deleting, Note, Overtake, Removed, Goto
<1>11. CASE \E w \in Workers : SavePicture(w)
  BY <1>11 DEF SavePicture, Overtake, Goto
<1>12. CASE \E w \in Workers : InvalidateProduct(w)
  BY <1>12 DEF InvalidateProduct, Goto
<1>13. CASE \E w \in Workers : Select(w)
  BY <1>13 DEF Select, Goto
<1>14. CASE \E w \in Workers : SetProduct(w)
  BY <1>14 DEF SetProduct, Goto
<1>15. CASE \E w \in Workers : Fail(w)
  BY <1>15 DEF Fail, Goto
<1>16. CASE CreateForVendor \/ \E status \in Status : CreateForAdmin(status)
  BY <1>16 DEF Create, CreateForVendor, CreateForAdmin
<1>17. CASE Expire
  BY <1>17 DEF Expire
<1> QED
  BY <1>1, <1>2, <1>3, <1>4, <1>5, <1>6, <1>7, <1>8, <1>9, <1>10, <1>11, <1>12, <1>13, <1>14,
     <1>15, <1>16, <1>17
     DEF Next, Request, VendorRequest, AdminRequest, CreateForVendor, CreateForAdmin, Step,
         ApproveProduct, RejectProduct, SuspendProduct, Status

\* A product that is gone is not found.
LEMMA HoldersStep == ASSUME IInv, Next PROVE OnlyHolders'
<1> USE ConstantsAssumption DEF IInv, reviews, copy, trace, OnlyHolders, Doing, TypeOK,
   DeletedStaysDeleted, Saving, Removed
<1>1. CASE \E w \in Workers, content \in 1 .. MaxContents : UpdateForVendor(w, content)
  BY <1>1 DEF UpdateForVendor, Edit, Found, Begin, Start, Goto
<1>2. CASE \E w \in Workers, content \in 1 .. MaxContents, status \in Status :
            UpdateForAdmin(w, content, status)
  BY <1>2 DEF UpdateForAdmin, AdminSaves, Edit, Found, Begin, Start, Goto
<1>3. CASE \E w \in Workers : SoftDeleteForVendor(w)
  BY <1>3 DEF SoftDeleteForVendor, Found, Begin, Start, Goto
<1>4. CASE \E w \in Workers : HardDelete(w) \/ UploadProductImage(w) \/ FindOne(w)
  <2>1. PICK w \in Workers, op \in {"delete", "upload", "miss"} :
                /\ op = "miss" \/ row # None
                /\ Start(w, [op |-> op]) /\ UNCHANGED <<contents, approved, passed>>
    BY <1>4 DEF HardDelete, UploadProductImage, FindOne, Found
  <2> QED
    BY <2>1 DEF Start, Goto
<1>5. CASE \E w \in Workers, status \in Status : Judge(w, status)
  BY <1>5 DEF Judge, AdminSaves, Found, Begin, Start, Goto
<1>6. CASE \E w \in Workers : SaveCompare(w)
  BY <1>6 DEF SaveCompare, Goto
<1>7. CASE \E w \in Workers : SaveWrite(w)
  <2>1. PICK w \in Workers : SaveWrite(w)
    BY <1>7
  <2>2. SUFFICES ASSUME NEW v \in Workers, Saving(v)', gone' PROVE v \in holders'
    BY <2>2 DEF OnlyHolders
  <2>3. work' = [work EXCEPT ![w] = [op |-> "invalidate"]]
    BY <2>1 DEF SaveWrite, Goto
  <2>4. v # w /\ Saving(v)
    BY <2>2, <2>3
  <2> QED
    BY <2>1, <2>2, <2>4, NoteHolders DEF SaveWrite
<1>8. CASE \E w \in Workers : SaveNothing(w)
  BY <1>8 DEF SaveNothing, Goto
<1>9. CASE \E w \in Workers : SaveInsert(w)
  <2>1. PICK w \in Workers : SaveInsert(w)
    BY <1>9
  <2>2. SUFFICES ASSUME NEW v \in Workers, Saving(v)', gone' PROVE v \in holders'
    BY <2>2 DEF OnlyHolders
  <2>3. work' = [work EXCEPT ![w] = [op |-> "invalidate"]]
    BY <2>1 DEF SaveInsert, Goto
  <2>4. v # w /\ Saving(v)
    BY <2>2, <2>3
  <2> QED
    BY <2>1, <2>2, <2>4, NoteHolders DEF SaveInsert
<1>10. CASE \E w \in Workers : Delete(w)
  <2>1. PICK w \in Workers : Delete(w)
    BY <1>10
  <2>2. SUFFICES ASSUME NEW v \in Workers, Saving(v)', gone' PROVE v \in holders'
    BY <2>2 DEF OnlyHolders
  <2>3. work' = [work EXCEPT ![w] = [op |-> "invalidate"]]
    BY <2>1 DEF Delete, Deleting, Goto
  <2>4. v # w /\ Saving(v)
    BY <2>2, <2>3
  <2> QED
    BY <2>1, <2>2, <2>4, NoteHolders DEF Delete, Deleting
<1>11. CASE \E w \in Workers : SavePicture(w)
  BY <1>11 DEF SavePicture, Overtake, Goto
<1>12. CASE \E w \in Workers : InvalidateProduct(w)
  BY <1>12 DEF InvalidateProduct, Goto
<1>13. CASE \E w \in Workers : Select(w)
  BY <1>13 DEF Select, Goto
<1>14. CASE \E w \in Workers : SetProduct(w)
  BY <1>14 DEF SetProduct, Goto
<1>15. CASE \E w \in Workers : Fail(w)
  BY <1>15 DEF Fail, Goto
<1>16. CASE CreateForVendor \/ \E status \in Status : CreateForAdmin(status)
  BY <1>16 DEF Create, CreateForVendor, CreateForAdmin
<1>17. CASE Expire
  BY <1>17 DEF Expire
<1> QED
  BY <1>1, <1>2, <1>3, <1>4, <1>5, <1>6, <1>7, <1>8, <1>9, <1>10, <1>11, <1>12, <1>13, <1>14,
     <1>15, <1>16, <1>17
     DEF Next, Request, VendorRequest, AdminRequest, CreateForVendor, CreateForAdmin, Step,
         ApproveProduct, RejectProduct, SuspendProduct, Status

\* A request finds nothing before the product is created.
LEMMA UntouchedStep == ASSUME IInv, Next PROVE Untouched'
<1> USE ConstantsAssumption DEF IInv, reviews, copy, trace, Untouched, Doing, TypeOK
<1>1. CASE \E w \in Workers, content \in 1 .. MaxContents : UpdateForVendor(w, content)
  BY <1>1 DEF UpdateForVendor, Edit, Found, Begin, Start, Goto
<1>2. CASE \E w \in Workers, content \in 1 .. MaxContents, status \in Status :
            UpdateForAdmin(w, content, status)
  BY <1>2 DEF UpdateForAdmin, AdminSaves, Edit, Found, Begin, Start, Goto
<1>3. CASE \E w \in Workers : SoftDeleteForVendor(w)
  BY <1>3 DEF SoftDeleteForVendor, Found, Begin, Start, Goto
<1>4. CASE \E w \in Workers : HardDelete(w) \/ UploadProductImage(w) \/ FindOne(w)
  <2>1. PICK w \in Workers, op \in {"delete", "upload", "miss"} :
                /\ op = "miss" \/ row # None
                /\ Start(w, [op |-> op]) /\ UNCHANGED <<contents, approved, passed>>
    BY <1>4 DEF HardDelete, UploadProductImage, FindOne, Found
  <2> QED
    BY <2>1 DEF Start, Goto
<1>5. CASE \E w \in Workers, status \in Status : Judge(w, status)
  BY <1>5 DEF Judge, AdminSaves, Found, Begin, Start, Goto
<1>6. CASE \E w \in Workers : SaveCompare(w)
  BY <1>6 DEF SaveCompare, Goto
<1>7. CASE \E w \in Workers : SaveWrite(w)
  BY <1>7 DEF SaveWrite, Merged, Added, Orphans, Note, Overtake, Removed, Goto
<1>8. CASE \E w \in Workers : SaveNothing(w)
  BY <1>8 DEF SaveNothing, Goto
<1>9. CASE \E w \in Workers : SaveInsert(w)
  BY <1>9 DEF SaveInsert, Note, Overtake, Removed, Goto
<1>10. CASE \E w \in Workers : Delete(w)
  BY <1>10 DEF Delete, Deleting, Note, Overtake, Removed, Goto
<1>11. CASE \E w \in Workers : SavePicture(w)
  BY <1>11 DEF SavePicture, Overtake, Goto
<1>12. CASE \E w \in Workers : InvalidateProduct(w)
  BY <1>12 DEF InvalidateProduct, Goto
<1>13. CASE \E w \in Workers : Select(w)
  BY <1>13 DEF Select, Public, Active, Goto
<1>14. CASE \E w \in Workers : SetProduct(w)
  BY <1>14 DEF SetProduct, Goto
<1>15. CASE \E w \in Workers : Fail(w)
  BY <1>15 DEF Fail, Goto
<1>16. CASE CreateForVendor \/ \E status \in Status : CreateForAdmin(status)
  BY <1>16 DEF Create, CreateForVendor, CreateForAdmin
<1>17. CASE Expire
  BY <1>17 DEF Expire
<1> QED
  BY <1>1, <1>2, <1>3, <1>4, <1>5, <1>6, <1>7, <1>8, <1>9, <1>10, <1>11, <1>12, <1>13, <1>14,
     <1>15, <1>16, <1>17
     DEF Next, Request, VendorRequest, AdminRequest, CreateForVendor, CreateForAdmin, Step,
         ApproveProduct, RejectProduct, SuspendProduct, Status

LEMMA InitIInv == Init => IInv
<1> SUFFICES ASSUME Init PROVE IInv
  OBVIOUS
<1>1. TypeOK
  <2>1. work \in [Workers -> Work \cup {Idle}]
    BY DEF Init
  <2>2. contents \in 0 .. MaxContents /\ uploaded \in 0 .. MaxPictures /\ row \in Row \cup {None}
    BY ConstantsAssumption DEF Init
  <2> QED
    BY <2>1, <2>2 DEF Init, TypeOK
<1>2. \A w \in Workers : work[w] = Idle
  BY DEF Init
<1>3. ActiveIsApproved /\ CacheIsCurrent /\ DeletedStaysDeleted
  BY DEF Init, ActiveIsApproved, Active, CacheIsCurrent, DeletedStaysDeleted
<1>4. EntitiesApproved /\ ComparedStands /\ FillsFresh /\ UploadedOnly /\ OnlyHolders /\ Untouched
  BY <1>2 DEF Init, EntitiesApproved, ComparedStands, FillsFresh, UploadedOnly, OnlyHolders,
     Untouched, Doing, Saving
<1> QED
  BY <1>1, <1>3, <1>4 DEF IInv

LEMMA StutterStep == ASSUME IInv, UNCHANGED vars PROVE IInv'
BY DEF vars, reviews, copy, trace, IInv, TypeOK, ActiveIsApproved, CacheIsCurrent,
   DeletedStaysDeleted, EntitiesApproved, ComparedStands, FillsFresh, UploadedOnly, OnlyHolders,
   Untouched, Doing, Saving, View, Public, Active, Removed

LEMMA Inductive == IInv /\ [Next]_vars => IInv'
<1>1. ASSUME IInv, Next PROVE IInv'
  BY <1>1, TypeStep, ActiveStep, CacheStep, DeletedStep, EntitiesStep, ComparedStep,
     FreshStep, UploadedStep, HoldersStep, UntouchedStep DEF IInv
<1> QED
  BY <1>1, StutterStep

\* The inductive invariant holds in every reachable state.
THEOREM Invariance == Spec => []IInv
<1> QED
  BY InitIInv, Inductive, PTL DEF Spec

\* Type correctness.
THEOREM TypeCorrect == Spec => []TypeOK
BY Invariance, PTL DEF IInv

\* No product is ACTIVE with a content nobody has reviewed, or with a picture
\* nobody has, unless it was added while the product was ACTIVE; crossed saves
\* aside.
THEOREM Reviewed == Spec => []ActiveIsApproved
BY Invariance, PTL DEF IInv

\* The cached page is what the database holds, but for pictures added since it
\* was stored; fills overtaken by a change and lost invalidations aside.
THEOREM Current == Spec => []CacheIsCurrent
BY Invariance, PTL DEF IInv

\* A deleted product comes back only by a request that had read it before.
THEOREM Deleted == Spec => []DeletedStaysDeleted
BY Invariance, PTL DEF IInv

-----------------------------------------------------------------------------
(* The categories, for any number of them, of slugs and of administrators.  *)

\* What a request in progress is.
LEMMA ChangeCarried ==
    ASSUME NEW w \in Tree!Work
    PROVE  /\ w.id \in Categories /\ w.asked \subseteq Tree!Columns /\ w.entity \in Tree!Row
           /\ w.overtaken \in BOOLEAN /\ w.op \in {"save", "write"}
           /\ w.op = "write" => w.diff \subseteq Tree!Columns
BY DEF Tree!Work

\* Another request makes it out of date and changes nothing else of it.
LEMMA ChangeOvertaken ==
    ASSUME NEW w \in Tree!Work
    PROVE  LET v == [w EXCEPT !.overtaken = TRUE] IN
             v \in Tree!Work /\ v.overtaken /\ v.id = w.id /\ v.asked = w.asked /\ v.entity = w.entity
BY DEF Tree!Work

\* save() writes the columns that differ, each as the entity has it.
LEMMA MergedColumns ==
    ASSUME NEW r \in Tree!Row, NEW entity \in Tree!Row, NEW diff
    PROVE  /\ Tree!Merged(r, entity, diff) \in Tree!Row
           /\ \A k \in Tree!Columns :
                 Tree!Merged(r, entity, diff)[k] = IF k \in diff THEN entity[k] ELSE r[k]
BY DEF Tree!Merged, Tree!Row, Tree!Columns

\* What a request begins with.
ChangeBegins(a, c) ==
    /\ changes[a] = Idle /\ category[c] # None /\ category' = category
    /\ \E asked \in SUBSET Tree!Columns, entity \in Tree!Row :
         /\ \A k \in Tree!Columns \ asked : entity[k] = category[c][k]
         /\ changes' = [changes EXCEPT ![a] = [op |-> "save", id |-> c, asked |-> asked,
                                               entity |-> entity, overtaken |-> FALSE]]

LEMMA ChangeRequest ==
    ASSUME Tree!TypeOK, NEW a \in Admins, NEW c \in Categories, Tree!Request(a, c)
    PROVE  ChangeBegins(a, c)
<1>1. ASSUME NEW asked \in SUBSET Tree!Columns, NEW entity \in Tree!Row,
             Tree!Begin(a, c, asked, entity),
             \A k \in Tree!Columns \ asked : entity[k] = category[c][k]
      PROVE  ChangeBegins(a, c)
  BY <1>1 DEF Tree!Begin, Tree!Found, ChangeBegins
<1>2. category[c] \in Tree!Row
  <2>1. category[c] # None
    BY DEF Tree!Request, Tree!DeleteCategory, Tree!UpdateCategory, Tree!Begin, Tree!Found
  <2> QED
    BY <2>1 DEF Tree!TypeOK
<1>3. /\ {"slug"} \in SUBSET Tree!Columns /\ {"parent"} \in SUBSET Tree!Columns
      /\ {"slug", "parent"} \in SUBSET Tree!Columns /\ {"deleted"} \in SUBSET Tree!Columns
  BY DEF Tree!Columns
<1>4. CASE Tree!DeleteCategory(a, c)
  <2>1. [category[c] EXCEPT !.deleted = TRUE] \in Tree!Row
        /\ \A k \in Tree!Columns \ {"deleted"} : [category[c] EXCEPT !.deleted = TRUE][k] = category[c][k]
    BY <1>2 DEF Tree!Row, Tree!Columns
  <2> QED
    BY <1>1, <1>3, <1>4, <2>1 DEF Tree!DeleteCategory
<1>5. ASSUME NEW slug \in Slugs, NEW parent \in Categories \cup {None},
             Tree!UpdateCategory(a, c, slug, parent)
      PROVE  ChangeBegins(a, c)
  <2>1. CASE Tree!Begin(a, c, {"slug"}, [category[c] EXCEPT !.slug = slug])
    <3> DEFINE entity == [category[c] EXCEPT !.slug = slug]
    <3>1. entity \in Tree!Row /\ \A k \in Tree!Columns \ {"slug"} : entity[k] = category[c][k]
      BY <1>2 DEF Tree!Row, Tree!Columns
    <3> HIDE DEF entity
    <3>2. Tree!Begin(a, c, {"slug"}, entity)
      BY <2>1 DEF entity
    <3> QED
      BY <1>1, <1>3, <3>1, <3>2
  <2>2. CASE Tree!Begin(a, c, {"parent"}, [category[c] EXCEPT !.parent = parent])
    <3> DEFINE entity == [category[c] EXCEPT !.parent = parent]
    <3>1. entity \in Tree!Row /\ \A k \in Tree!Columns \ {"parent"} : entity[k] = category[c][k]
      BY <1>2 DEF Tree!Row, Tree!Columns
    <3> HIDE DEF entity
    <3>2. Tree!Begin(a, c, {"parent"}, entity)
      BY <2>2 DEF entity
    <3> QED
      BY <1>1, <1>3, <3>1, <3>2
  <2>3. CASE Tree!Begin(a, c, {"slug", "parent"},
                        [category[c] EXCEPT !.slug = slug, !.parent = parent])
    <3> DEFINE entity == [category[c] EXCEPT !.slug = slug, !.parent = parent]
    <3>1. entity \in Tree!Row /\ \A k \in Tree!Columns \ {"slug", "parent"} : entity[k] = category[c][k]
      BY <1>2 DEF Tree!Row, Tree!Columns
    <3> HIDE DEF entity
    <3>2. Tree!Begin(a, c, {"slug", "parent"}, entity)
      BY <2>3 DEF entity
    <3> QED
      BY <1>1, <1>3, <3>1, <3>2
  <2> QED
    BY <1>5, <2>1, <2>2, <2>3 DEF Tree!UpdateCategory
<1> QED
  BY <1>4, <1>5 DEF Tree!Request

LEMMA TreeStart == ASSUME Tree!ConstantsAssumption, Tree!Init PROVE Tree!TreeInv
BY DEF Tree!ConstantsAssumption, Tree!Init, Tree!TreeInv, Tree!TypeOK, Tree!Current

\* A new row is nobody's, a new entity is as its row but for what is asked, and a
\* row that changes overtakes all others who have read it.
LEMMA TreeStep ==
    ASSUME Tree!ConstantsAssumption, Tree!TreeInv, [Tree!Next]_(Tree!vars)
    PROVE  Tree!TreeInv'
<1> USE DEF Tree!ConstantsAssumption, Tree!TreeInv, Tree!TypeOK, Tree!Current
<1>1. ASSUME NEW c \in Categories, NEW slug \in Slugs, NEW parent \in Categories \cup {None},
             Tree!CreateCategory(c, slug, parent)
      PROVE  Tree!TreeInv'
  <2> DEFINE entity == [slug |-> slug, parent |-> parent, deleted |-> FALSE]
  <2>1. entity \in Tree!Row
    BY DEF Tree!Row
  <2>2. category[c] = None /\ category' = [category EXCEPT ![c] = entity] /\ changes' = changes
    BY <1>1 DEF Tree!CreateCategory
  <2> HIDE DEF entity
  <2>3. Tree!TypeOK'
    BY <2>1, <2>2
  <2>4. ASSUME NEW a \in Admins, changes'[a] # Idle
        PROVE  /\ category'[changes'[a].id] # None
               /\ ~changes'[a].overtaken => \A k \in Tree!Columns \ changes'[a].asked :
                     changes'[a].entity[k] = category'[changes'[a].id][k]
    <3>1. changes[a] \in Tree!Work /\ changes[a].id \in Categories
      BY <2>2, <2>4, ChangeCarried
    <3>2. changes[a].id # c /\ category'[changes[a].id] = category[changes[a].id]
      BY <2>2, <2>4, <3>1
    <3> QED
      BY <2>2, <2>4, <3>1, <3>2
  <2> QED
    BY <2>3, <2>4
<1>2. ASSUME NEW a \in Admins, NEW c \in Categories, Tree!Request(a, c) PROVE Tree!TreeInv'
  <2>1. PICK asked \in SUBSET Tree!Columns, entity \in Tree!Row :
           /\ \A k \in Tree!Columns \ asked : entity[k] = category[c][k]
           /\ changes' = [changes EXCEPT ![a] = [op |-> "save", id |-> c, asked |-> asked,
                                                 entity |-> entity, overtaken |-> FALSE]]
    BY <1>2, ChangeRequest DEF ChangeBegins
  <2>2. category[c] # None /\ category' = category
    BY <1>2, ChangeRequest DEF ChangeBegins
  <2>3. [op |-> "save", id |-> c, asked |-> asked, entity |-> entity, overtaken |-> FALSE] \in Tree!Work
    BY DEF Tree!Work
  <2>4. Tree!TypeOK'
    BY <2>1, <2>2, <2>3
  <2>5. Tree!Current'
    BY <2>1, <2>2
  <2> QED
    BY <2>4, <2>5
<1>3. ASSUME NEW a \in Admins, Tree!SaveCompare(a) PROVE Tree!TreeInv'
  <2> DEFINE w == changes[a]
             v == [op |-> "write", id |-> w.id, asked |-> w.asked, entity |-> w.entity,
                   overtaken |-> w.overtaken,
                   diff |-> {k \in Tree!Columns : w.entity[k] # category[w.id][k]}]
  <2>1. w \in Tree!Work /\ w # Idle
    BY <1>3 DEF Tree!SaveCompare, Tree!Doing
  <2>2. v \in Tree!Work
    BY <2>1, ChangeCarried DEF Tree!Work
  <2>3. v.id = w.id /\ v.asked = w.asked /\ v.entity = w.entity /\ v.overtaken = w.overtaken
    OBVIOUS
  <2>4. changes' = [changes EXCEPT ![a] = v] /\ category' = category
    BY <1>3 DEF Tree!SaveCompare
  <2> HIDE DEF v
  <2>5. Tree!TypeOK'
    BY <2>2, <2>4
  <2>6. Tree!Current'
    BY <2>1, <2>3, <2>4
  <2> QED
    BY <2>5, <2>6
<1>4. ASSUME NEW a \in Admins, Tree!SaveWrite(a) PROVE Tree!TreeInv'
  <2> DEFINE c == changes[a].id
             r == Tree!Merged(category[c], changes[a].entity, changes[a].diff)
  <2>1. changes[a] \in Tree!Work /\ changes[a] # Idle
    BY <1>4 DEF Tree!SaveWrite, Tree!Doing
  <2>2. c \in Categories /\ changes[a].entity \in Tree!Row /\ category[c] \in Tree!Row
    BY <2>1, ChangeCarried
  <2>3. r \in Tree!Row
    BY <2>2, MergedColumns
  <2>4. category' = [category EXCEPT ![c] = r] \/ category' = category
    BY <1>4 DEF Tree!SaveWrite
  <2>5. changes'[a] = Idle
    BY <1>4 DEF Tree!SaveWrite
  <2>6. ASSUME NEW b \in Admins, b # a, changes[b] # Idle
        PROVE  /\ changes'[b] \in Tree!Work /\ changes'[b].id = changes[b].id
               /\ changes'[b].asked = changes[b].asked /\ changes'[b].entity = changes[b].entity
               /\ ~changes'[b].overtaken =>
                     ~changes[b].overtaken /\ (changes[b].id = c => category' = category)
    <3>1. changes[b] \in Tree!Work
      BY <2>6
    <3>2. CASE changes[b].id = c /\ category' # category
      BY <1>4, <2>6, <3>1, <3>2, ChangeOvertaken DEF Tree!SaveWrite
    <3>3. CASE ~(changes[b].id = c /\ category' # category)
      <4>1. changes'[b] = changes[b]
        BY <1>4, <2>6, <3>3 DEF Tree!SaveWrite
      <4> QED
        BY <3>1, <3>3, <4>1
    <3> QED
      BY <3>2, <3>3
  <2>7. ASSUME NEW b \in Admins, b # a, changes[b] = Idle PROVE changes'[b] = Idle
    BY <1>4, <2>7 DEF Tree!SaveWrite
  <2>8. changes' = [b \in Admins |-> changes'[b]]
    BY <1>4 DEF Tree!SaveWrite
  <2> HIDE DEF r, c
  <2>9. Tree!TypeOK'
    <3>1. category' \in [Categories -> Tree!Row \cup {None}]
      BY <2>2, <2>3, <2>4
    <3>2. \A b \in Admins : changes'[b] \in Tree!Work \cup {Idle}
      BY <2>5, <2>6, <2>7
    <3> HIDE DEF Tree!Current
    <3> QED
      BY <2>8, <3>1, <3>2
  <2>10. ASSUME NEW b \in Admins, changes'[b] # Idle
         PROVE  /\ category'[changes'[b].id] # None
                /\ ~changes'[b].overtaken => \A k \in Tree!Columns \ changes'[b].asked :
                      changes'[b].entity[k] = category'[changes'[b].id][k]
    <3>1. b # a /\ changes[b] # Idle
      BY <2>5, <2>7, <2>10
    <3>2. changes[b] \in Tree!Work /\ changes[b].id \in Categories
      BY <3>1, ChangeCarried
    <3>3. changes[b].id # c => category'[changes[b].id] = category[changes[b].id]
      BY <2>2, <2>4, <3>2
    <3>4. category'[changes[b].id] # None
      BY <2>2, <2>3, <2>4, <3>1, <3>2
    <3> QED
      BY <2>6, <3>1, <3>2, <3>3, <3>4
  <2> QED
    BY <2>9, <2>10
<1>5. ASSUME NEW a \in Admins, Tree!Fail(a) PROVE Tree!TreeInv'
  BY <1>5 DEF Tree!Fail
<1>6. CASE UNCHANGED Tree!vars
  BY <1>6 DEF Tree!vars
<1> QED
  BY <1>1, <1>2, <1>3, <1>4, <1>5, <1>6 DEF Tree!Next

\* The inductive invariant of the categories holds in every reachable state.
THEOREM TreeInvariance == ASSUME Tree!ConstantsAssumption PROVE Tree!Spec => []Tree!TreeInv
<1>1. Tree!Init => Tree!TreeInv
  BY Tree!ConstantsAssumption, TreeStart
<1>2. Tree!TreeInv /\ [Tree!Next]_(Tree!vars) => Tree!TreeInv'
  BY Tree!ConstantsAssumption, TreeStep
<1> QED
  BY <1>1, <1>2, PTL DEF Tree!Spec

\* A column that a step changes was named in the request that writes, or the
\* request was overtaken.
Answered ==
    \A c \in Tree!Existing, k \in Tree!Columns :
       category'[c][k] # category[c][k] =>
           \E a \in Admins : Tree!Doing(a, "write") /\ changes'[a] = Idle /\ changes[a].id = c
                              /\ (k \in changes[a].asked \/ changes[a].overtaken)

LEMMA AnsweredStep ==
    ASSUME Tree!ConstantsAssumption, Tree!TreeInv, [Tree!Next]_(Tree!vars)
    PROVE  [Answered]_(Tree!vars)
<1> USE DEF Tree!ConstantsAssumption, Tree!TreeInv, Tree!TypeOK
<1>1. CASE category' = category
  BY <1>1 DEF Answered
<1>2. ASSUME NEW c \in Categories, NEW slug \in Slugs, NEW parent \in Categories \cup {None},
             Tree!CreateCategory(c, slug, parent)
      PROVE  Answered
  BY <1>2 DEF Answered, Tree!CreateCategory, Tree!Existing
<1>3. ASSUME NEW a \in Admins, Tree!SaveWrite(a), category' # category PROVE Answered
  <2> DEFINE d == changes[a].id
             r == Tree!Merged(category[d], changes[a].entity, changes[a].diff)
  <2>1. changes[a] \in Tree!Work /\ changes[a] # Idle /\ Tree!Doing(a, "write")
    BY <1>3 DEF Tree!SaveWrite, Tree!Doing
  <2>2. d \in Categories /\ changes[a].entity \in Tree!Row /\ category[d] \in Tree!Row
    BY <2>1, ChangeCarried DEF Tree!Current
  <2>3. changes'[a] = Idle /\ category' = [category EXCEPT ![d] = r]
    BY <1>3 DEF Tree!SaveWrite
  <2>4. SUFFICES ASSUME NEW c \in Tree!Existing, NEW k \in Tree!Columns,
                        category'[c][k] # category[c][k]
                 PROVE  c = d /\ (k \in changes[a].asked \/ changes[a].overtaken)
    BY <2>1, <2>3, <2>4 DEF Answered
  <2>5. c \in Categories
    BY DEF Tree!Existing
  <2>6. c = d
    BY <2>2, <2>3, <2>4, <2>5
  <2>7. r[k] = IF k \in changes[a].diff THEN changes[a].entity[k] ELSE category[d][k]
    BY <2>2, MergedColumns
  <2>8. category'[c] = r
    BY <2>2, <2>3, <2>6
  <2>9. changes[a].entity[k] # category[d][k]
    <3> HIDE DEF r, d
    <3> QED
      BY <2>4, <2>6, <2>7, <2>8
  <2> QED
    BY <2>1, <2>6, <2>9 DEF Tree!Current
<1>4. ASSUME NEW a \in Admins, NEW c \in Categories, Tree!Request(a, c) PROVE category' = category
  BY <1>4, ChangeRequest DEF ChangeBegins
<1>5. ASSUME NEW a \in Admins, Tree!SaveCompare(a) \/ Tree!Fail(a) PROVE category' = category
  BY <1>5 DEF Tree!SaveCompare, Tree!Fail
<1>6. CASE UNCHANGED Tree!vars
  BY <1>6 DEF Tree!vars
<1> QED
  BY <1>1, <1>2, <1>3, <1>4, <1>5, <1>6 DEF Tree!Next

\* What MCCatalog does when it runs the categories, or does not, they may do.
LEMMA PartsTree == PartsSpec => Tree!Spec
<1>1. PartsInit => Tree!Init
  BY DEF PartsInit
<1>2. [PartsNext]_partsVars => [Tree!Next]_(Tree!vars)
  BY DEF PartsNext, ProductNext, ListingNext, ImagesNext, TreeNext, partsVars, treeVars, Tree!vars
<1> QED
  BY <1>1, <1>2, PTL DEF PartsSpec, Tree!Spec

\* However the requests of administrators interleave, a category changes in the
\* columns one of them has named, unless another one has overtaken it.
THEOREM AskedOnly == PartsSpec => OnlyWhatWasAsked
<1>1. Tree!TreeInv /\ [Tree!Next]_(Tree!vars) => [Answered]_(Tree!vars)
  BY PartsAssumption, AnsweredStep
<1>2. Tree!Spec => []Tree!TreeInv
  BY PartsAssumption, TreeInvariance
<1>3. Tree!Spec => [][Answered]_(Tree!vars)
  BY <1>1, <1>2, PTL DEF Tree!Spec
<1> QED
  BY <1>3, PartsTree, PTL DEF OnlyWhatWasAsked, Tree!OnlyWhatWasAsked, Answered

-----------------------------------------------------------------------------
(* The pictures of a product, for any number of uploads and milliseconds.   *)

LEMMA ImagesSize ==
    \A S : Images!Cardinality(S) = Cardinality(S) /\ (Images!IsFiniteSet(S) <=> IsFiniteSet(S))
BY DEF Images!Cardinality, Cardinality, Images!IsFiniteSet, IsFiniteSet

\* What an upload in progress is.
LEMMA UploadCarried ==
    ASSUME NEW w \in Images!Work
    PROVE  /\ w.op \in {"full", "thumb", "count", "save", "done"}
           /\ w.op # "done" => w.stamp \in 1 .. MaxMillis
           /\ w.op = "save" => w.existing \in Nat
           /\ w.op = "full" => [w EXCEPT !.op = "thumb"] \in Images!Work
           /\ w.op = "thumb" => [w EXCEPT !.op = "count"] \in Images!Work
           /\ w.op # "done" => \A op : [w EXCEPT !.op = op].stamp = w.stamp /\ [w EXCEPT !.op = op].op = op
           /\ [op |-> "done"] \in Images!Work
BY DEF Images!Work

LEMMA UploadOf ==
    ASSUME Images!TypeOK, NEW u \in Uploads, uploading[u] # Idle
    PROVE  /\ uploading[u] \in Images!Work
           /\ uploading[u].op # "done" => uploading[u].stamp \in 1 .. MaxMillis
           /\ uploading[u].op = "save" => uploading[u].existing \in Nat
           /\ uploading[u].op # "done" => \A op :
                 /\ [uploading[u] EXCEPT !.op = op].stamp = uploading[u].stamp
                 /\ [uploading[u] EXCEPT !.op = op].op = op
<1>1. uploading[u] \in Images!Work
  BY DEF Images!TypeOK
<1> QED
  BY <1>1, UploadCarried

LEMMA UploadKeys ==
    ASSUME NEW t \in 1 .. MaxMillis
    PROVE  <<"FULL", t>> \in Images!Keys /\ <<"THUMBNAIL", t>> \in Images!Keys
BY DEF Images!Keys, Images!Types

\* The two rows of an upload.
LEMMA NewRowsFacts ==
    ASSUME NEW u \in Uploads, uploading[u].stamp \in 1 .. MaxMillis, uploading[u].existing \in Nat
    PROVE  \E f, t \in Images!Row :
             /\ Images!NewRows(u) = {f, t} /\ f # t
             /\ f.by = u /\ t.by = u
             /\ f.url = <<"FULL", uploading[u].stamp>>
             /\ t.url = <<"THUMBNAIL", uploading[u].stamp>>
             /\ f.displayOrder = uploading[u].existing
             /\ t.displayOrder = uploading[u].existing + 1
<1> DEFINE f == [by |-> u, type |-> "FULL", url |-> <<"FULL", uploading[u].stamp>>,
                 displayOrder |-> uploading[u].existing + 0]
           t == [by |-> u, type |-> "THUMBNAIL", url |-> <<"THUMBNAIL", uploading[u].stamp>>,
                 displayOrder |-> uploading[u].existing + 1]
<1>1. Images!NewRows(u) = {f, t}
  BY DEF Images!NewRows, Images!Types
<1>2. f \in Images!Row /\ t \in Images!Row
  BY UploadKeys DEF Images!Row, Images!Types
<1>3. f # t
  OBVIOUS
<1> QED
  BY <1>1, <1>2, <1>3

LEMMA ImagesStart == ASSUME Images!ConstantsAssumption, Images!Init PROVE Images!ImageInv
<1> USE DEF Images!ConstantsAssumption, Images!Init
<1>1. Images!TypeOK
  BY DEF Images!TypeOK
<1>2. Images!Stamped /\ Images!Stored
  BY DEF Images!Stamped, Images!Stored, Images!Doing
<1>3. Images!Placed
  BY ImagesSize, FS_EmptySet DEF Images!Placed, Images!Doing
<1> QED
  BY <1>1, <1>2, <1>3 DEF Images!ImageInv

LEMMA ImagesTypes ==
    ASSUME Images!ConstantsAssumption, Images!ImageInv, [Images!Next]_(Images!vars)
    PROVE  Images!TypeOK'
<1> USE DEF Images!ConstantsAssumption, Images!ImageInv, Images!TypeOK, Images!Goto, Images!history
<1>1. ASSUME NEW u \in Uploads, Images!UploadProductImage(u) PROVE Images!TypeOK'
  <2>1. [op |-> "full", stamp |-> now] \in Images!Work
    BY DEF Images!Work
  <2> QED
    BY <1>1, <2>1 DEF Images!UploadProductImage
<1>2. ASSUME NEW u \in Uploads, Images!UploadFull(u) PROVE Images!TypeOK'
  <2>1. uploading[u] \in Images!Work /\ uploading[u].op = "full"
    BY <1>2 DEF Images!UploadFull, Images!Doing
  <2>2. [uploading[u] EXCEPT !.op = "thumb"] \in Images!Work /\ <<"FULL", uploading[u].stamp>> \in Images!Keys
    BY <2>1, UploadCarried, UploadKeys
  <2> QED
    BY <1>2, <2>2 DEF Images!UploadFull, Images!Upload
<1>3. ASSUME NEW u \in Uploads, Images!UploadThumb(u) PROVE Images!TypeOK'
  <2>1. uploading[u] \in Images!Work /\ uploading[u].op = "thumb"
    BY <1>3 DEF Images!UploadThumb, Images!Doing
  <2>2. [uploading[u] EXCEPT !.op = "count"] \in Images!Work /\ <<"THUMBNAIL", uploading[u].stamp>> \in Images!Keys
    BY <2>1, UploadCarried, UploadKeys
  <2> QED
    BY <1>3, <2>2 DEF Images!UploadThumb, Images!Upload
<1>4. ASSUME NEW u \in Uploads, Images!Count(u) PROVE Images!TypeOK'
  <2>1. uploading[u] \in Images!Work /\ uploading[u].op = "count"
    BY <1>4 DEF Images!Count, Images!Doing
  <2>2. Images!Cardinality(images) \in Nat
    BY ImagesSize, FS_CardinalityType DEF Images!Placed
  <2>3. [op |-> "save", stamp |-> uploading[u].stamp, existing |-> Images!Cardinality(images)] \in Images!Work
    BY <2>1, <2>2, UploadCarried DEF Images!Work
  <2> QED
    BY <1>4, <2>3 DEF Images!Count
<1>5. ASSUME NEW u \in Uploads, Images!Save(u) PROVE Images!TypeOK'
  <2>1. uploading[u] \in Images!Work /\ uploading[u].op = "save"
    BY <1>5 DEF Images!Save, Images!Doing
  <2>2. \A r \in Images!NewRows(u) : r \in Images!Row
    <3>1. uploading[u].stamp \in 1 .. MaxMillis /\ uploading[u].existing \in Nat
      BY <2>1, UploadCarried
    <3>2. PICK f, t \in Images!Row : Images!NewRows(u) = {f, t}
      BY <3>1, NewRowsFacts
    <3> QED
      BY <3>2
  <2>3. \A r \in images' : r \in Images!Row
    BY <1>5, <2>2 DEF Images!Save
  <2>4. overlapping' \subseteq SUBSET Uploads
    BY <1>5 DEF Images!Save
  <2>5. uploading' \in [Uploads -> Images!Work \cup {Idle}]
    BY <1>5, <2>1, UploadCarried DEF Images!Save
  <2> QED
    BY <1>5, <2>3, <2>4, <2>5 DEF Images!Save
<1>6. ASSUME NEW u \in Uploads, Images!Fail(u) PROVE Images!TypeOK'
  BY <1>6, UploadCarried DEF Images!Fail
<1>7. CASE Images!HardDelete
  BY <1>7 DEF Images!HardDelete
<1>8. CASE Images!Tick
  BY <1>8 DEF Images!Tick
<1>9. CASE UNCHANGED Images!vars
  BY <1>9 DEF Images!vars
<1> QED
  BY <1>1, <1>2, <1>3, <1>4, <1>5, <1>6, <1>7, <1>8, <1>9 DEF Images!Next

\* What the steps of an upload read and write.
LEMMA StoreEffects ==
    ASSUME Images!ConstantsAssumption, Images!TypeOK, NEW u \in Uploads,
           Images!UploadFull(u) \/ Images!UploadThumb(u)
    PROVE  /\ uploading[u] # Idle /\ uploading[u].op \in {"full", "thumb"}
           /\ UNCHANGED <<exists, now, images, stamps, overlapping>>
           /\ uploading'[u] # Idle /\ uploading'[u].stamp = uploading[u].stamp
           /\ \A v \in Uploads \ {u} : uploading'[v] = uploading[v]
           /\ uploading[u].stamp \in 1 .. MaxMillis
           /\ \/ /\ uploading'[u].op = "thumb"
                 /\ object' = [object EXCEPT ![<<"FULL", uploading[u].stamp>>] = u]
              \/ /\ uploading[u].op = "thumb" /\ uploading'[u].op = "count"
                 /\ object' = [object EXCEPT ![<<"THUMBNAIL", uploading[u].stamp>>] = u]
<1> USE DEF Images!Upload, Images!Goto, Images!history, Images!Doing
<1>1. uploading[u] # Idle /\ uploading[u].op \in {"full", "thumb"}
  BY DEF Images!UploadFull, Images!UploadThumb
<1>2. /\ uploading[u] \in Images!Work /\ uploading[u].stamp \in 1 .. MaxMillis
      /\ \A op : /\ [uploading[u] EXCEPT !.op = op].stamp = uploading[u].stamp
                 /\ [uploading[u] EXCEPT !.op = op].op = op
  BY <1>1, UploadOf
<1>3. UNCHANGED <<exists, now, images, stamps, overlapping>>
  BY DEF Images!UploadFull, Images!UploadThumb
<1>4. uploading \in [Uploads -> Images!Work \cup {Idle}] /\ Idle \notin Images!Work
  BY DEF Images!TypeOK, Images!ConstantsAssumption
<1>5. CASE Images!UploadFull(u)
  <2>1. [uploading[u] EXCEPT !.op = "thumb"] \in Images!Work
    BY <1>2, <1>5, UploadCarried DEF Images!UploadFull
  <2>2. /\ uploading' = [uploading EXCEPT ![u] = [uploading[u] EXCEPT !.op = "thumb"]]
        /\ object' = [object EXCEPT ![<<"FULL", uploading[u].stamp>>] = u]
    BY <1>5 DEF Images!UploadFull
  <2>3. uploading'[u] = [uploading[u] EXCEPT !.op = "thumb"]
    BY <1>4, <2>2
  <2>4. uploading'[u] # Idle /\ uploading'[u].op = "thumb" /\ uploading'[u].stamp = uploading[u].stamp
    BY <1>2, <1>4, <2>1, <2>3
  <2>5. \A v \in Uploads \ {u} : uploading'[v] = uploading[v]
    BY <1>4, <2>2
  <2> QED
    BY <1>1, <1>2, <1>3, <2>2, <2>4, <2>5
<1>6. CASE Images!UploadThumb(u)
  <2>1. [uploading[u] EXCEPT !.op = "count"] \in Images!Work
    BY <1>2, <1>6, UploadCarried DEF Images!UploadThumb
  <2>2. /\ uploading' = [uploading EXCEPT ![u] = [uploading[u] EXCEPT !.op = "count"]]
        /\ object' = [object EXCEPT ![<<"THUMBNAIL", uploading[u].stamp>>] = u]
        /\ uploading[u].op = "thumb"
    BY <1>6 DEF Images!UploadThumb
  <2>3. uploading'[u] = [uploading[u] EXCEPT !.op = "count"]
    BY <1>4, <2>2
  <2>4. uploading'[u] # Idle /\ uploading'[u].op = "count" /\ uploading'[u].stamp = uploading[u].stamp
    BY <1>2, <1>4, <2>1, <2>3
  <2>5. \A v \in Uploads \ {u} : uploading'[v] = uploading[v]
    BY <1>4, <2>2
  <2> QED
    BY <1>1, <1>2, <1>3, <2>2, <2>4, <2>5
<1> QED
  BY <1>5, <1>6

LEMMA CountEffects ==
    ASSUME Images!ConstantsAssumption, Images!TypeOK, IsFiniteSet(images), NEW u \in Uploads,
           Images!Count(u)
    PROVE  /\ uploading[u] # Idle /\ uploading[u].op = "count"
           /\ UNCHANGED <<exists, now, object, images, stamps, overlapping>>
           /\ uploading'[u] # Idle /\ uploading'[u].op = "save"
           /\ uploading'[u].stamp = uploading[u].stamp
           /\ uploading'[u].existing = Cardinality(images)
           /\ \A v \in Uploads \ {u} : uploading'[v] = uploading[v]
<1> DEFINE w == [op |-> "save", stamp |-> uploading[u].stamp, existing |-> Images!Cardinality(images)]
<1>1. uploading[u] # Idle /\ uploading[u].op = "count"
  BY DEF Images!Count, Images!Doing
<1>2. uploading[u].stamp \in 1 .. MaxMillis
  BY <1>1, UploadOf
<1>3. Images!Cardinality(images) = Cardinality(images) /\ Cardinality(images) \in Nat
  BY ImagesSize, FS_CardinalityType
<1>4. w \in Images!Work /\ w # Idle
  BY <1>2, <1>3 DEF Images!Work, Images!ConstantsAssumption
<1>5. uploading' = [uploading EXCEPT ![u] = w] /\ uploading \in [Uploads -> Images!Work \cup {Idle}]
  BY DEF Images!Count, Images!Goto, Images!TypeOK
<1>6. w.op = "save" /\ w.stamp = uploading[u].stamp /\ w.existing = Cardinality(images)
  BY <1>3
<1>7. UNCHANGED <<exists, now, object, images, stamps, overlapping>>
  BY DEF Images!Count, Images!history
<1> HIDE DEF w
<1> QED
  BY <1>1, <1>4, <1>5, <1>6, <1>7

LEMMA EndEffects ==
    ASSUME Images!ConstantsAssumption, Images!TypeOK, NEW u \in Uploads,
           Images!Save(u) \/ Images!Fail(u)
    PROVE  /\ uploading[u] # Idle /\ uploading[u].op # "done"
           /\ UNCHANGED <<exists, now, object, stamps>>
           /\ uploading'[u] # Idle /\ uploading'[u].op = "done"
           /\ \A v \in Uploads \ {u} : uploading'[v] = uploading[v]
<1>1. [op |-> "done"] \in Images!Work /\ [op |-> "done"] # Idle
  BY DEF Images!Work, Images!ConstantsAssumption
<1>2. /\ uploading' = [uploading EXCEPT ![u] = [op |-> "done"]]
      /\ uploading \in [Uploads -> Images!Work \cup {Idle}]
  BY DEF Images!Save, Images!Fail, Images!Goto, Images!TypeOK
<1>3. uploading[u] # Idle /\ uploading[u].op # "done" /\ UNCHANGED <<exists, now, object, stamps>>
  BY DEF Images!Save, Images!Fail, Images!Doing, Images!history
<1> QED
  BY <1>1, <1>2, <1>3

\* The two rows an upload inserts.
LEMMA SaveEffects ==
    ASSUME Images!ConstantsAssumption, Images!TypeOK, Images!Stamped, NEW u \in Uploads,
           Images!Save(u)
    PROVE  /\ uploading[u] # Idle /\ uploading[u].op = "save" /\ uploading[u].existing \in Nat
           /\ uploading[u].stamp = stamps[u] /\ stamps[u] \in 1 .. MaxMillis
           /\ \A v \in Uploads \ {u} : uploading[v] # Idle /\ uploading[v].op = "save"
                 => {u, v} \in overlapping'
           /\ overlapping \subseteq overlapping'
           /\ ~exists => images' = images
           /\ exists => \E f, t \in Images!Row :
                /\ images' = images \cup {f, t} /\ f # t
                /\ f.by = u /\ t.by = u
                /\ f.url = <<"FULL", stamps[u]>> /\ t.url = <<"THUMBNAIL", stamps[u]>>
                /\ f.displayOrder = uploading[u].existing
                /\ t.displayOrder = uploading[u].existing + 1
<1>1. uploading[u] # Idle /\ uploading[u].op = "save"
  BY DEF Images!Save, Images!Doing
<1>2. uploading[u].existing \in Nat /\ uploading[u].stamp \in 1 .. MaxMillis
  BY <1>1, UploadOf
<1>3. uploading[u].stamp = stamps[u]
  BY <1>1 DEF Images!Stamped
<1>4. PICK f, t \in Images!Row :
             /\ Images!NewRows(u) = {f, t} /\ f # t
             /\ f.by = u /\ t.by = u
             /\ f.url = <<"FULL", uploading[u].stamp>>
             /\ t.url = <<"THUMBNAIL", uploading[u].stamp>>
             /\ f.displayOrder = uploading[u].existing
             /\ t.displayOrder = uploading[u].existing + 1
  BY <1>2, NewRowsFacts
<1>5. images' = IF exists THEN images \cup Images!NewRows(u) ELSE images
  BY DEF Images!Save
<1>6. /\ overlapping \subseteq overlapping'
      /\ \A v \in Uploads \ {u} : uploading[v] # Idle /\ uploading[v].op = "save"
            => {u, v} \in overlapping'
  BY DEF Images!Save, Images!Doing
<1> QED
  BY <1>1, <1>2, <1>3, <1>4, <1>5, <1>6

\* An upload takes its millisecond once, before it stores anything.
LEMMA StampedStep ==
    ASSUME Images!ConstantsAssumption, Images!ImageInv, [Images!Next]_(Images!vars)
    PROVE  Images!Stamped'
<1>t. Images!TypeOK /\ Images!Stamped /\ IsFiniteSet(images)
  BY ImagesSize DEF Images!ImageInv, Images!Placed
<1>0. /\ object \in [Images!Keys -> Uploads \cup {None}] /\ None \notin Uploads
      /\ stamps \in [Uploads -> 0 .. MaxMillis]
      /\ \A k \in Images!Keys : k[2] \in 1 .. MaxMillis
  BY <1>t DEF Images!TypeOK, Images!Keys, Images!ConstantsAssumption
<1> USE DEF Images!Stamped
<1>1. ASSUME NEW u \in Uploads, Images!UploadProductImage(u) PROVE Images!Stamped'
  <2>1. stamps[u] = 0 /\ uploading[u] = Idle /\ object' = object
    BY <1>1, <1>t DEF Images!UploadProductImage
  <2>2. \A k \in Images!Keys : object[k] # u
    <3> SUFFICES ASSUME NEW k \in Images!Keys, object[k] = u PROVE FALSE
      OBVIOUS
    <3> QED
      BY <1>0, <1>t, <2>1
  <2>3. [op |-> "full", stamp |-> now] \in Images!Work /\ [op |-> "full", stamp |-> now] # Idle
    BY <1>t DEF Images!Work, Images!TypeOK, Images!ConstantsAssumption
  <2>4. /\ stamps' = [stamps EXCEPT ![u] = now]
        /\ uploading' = [uploading EXCEPT ![u] = [op |-> "full", stamp |-> now]]
        /\ uploading \in [Uploads -> Images!Work \cup {Idle}]
    BY <1>1, <1>t DEF Images!UploadProductImage, Images!Goto, Images!TypeOK
  <2>5. uploading'[u] # Idle /\ uploading'[u].stamp = stamps'[u]
    BY <1>0, <2>3, <2>4
  <2>6. \A v \in Uploads \ {u} : uploading'[v] = uploading[v] /\ stamps'[v] = stamps[v]
    BY <1>0, <2>4
  <2> QED
    BY <1>0, <1>t, <2>1, <2>2, <2>5, <2>6
<1>2. ASSUME NEW u \in Uploads, Images!UploadFull(u) \/ Images!UploadThumb(u)
      PROVE Images!Stamped'
  <2>1. /\ uploading[u] # Idle /\ uploading[u].op \in {"full", "thumb"}
        /\ stamps' = stamps /\ uploading[u].stamp \in 1 .. MaxMillis
        /\ uploading'[u] # Idle /\ uploading'[u].stamp = uploading[u].stamp
        /\ \A v \in Uploads \ {u} : uploading'[v] = uploading[v]
    BY <1>2, <1>t, StoreEffects
  <2>2. \A k \in Images!Keys : object'[k] # object[k] => object'[k] = u /\ k[2] = uploading[u].stamp
    <3>1. PICK type \in {"FULL", "THUMBNAIL"} :
             object' = [object EXCEPT ![<<type, uploading[u].stamp>>] = u]
      BY <1>2, <1>t, StoreEffects
    <3> QED
      BY <1>0, <3>1
  <2>3. stamps[u] = uploading[u].stamp
    BY <1>t, <2>1
  <2> QED
    BY <1>t, <2>1, <2>2, <2>3
<1>4. ASSUME NEW u \in Uploads, Images!Count(u) PROVE Images!Stamped'
  BY <1>4, <1>t, CountEffects
<1>5. ASSUME NEW u \in Uploads, Images!Save(u) \/ Images!Fail(u) PROVE Images!Stamped'
  BY <1>5, <1>t, EndEffects
<1>6. CASE Images!HardDelete \/ Images!Tick \/ UNCHANGED Images!vars
  BY <1>6, <1>t DEF Images!HardDelete, Images!Tick, Images!vars, Images!history
<1> QED
  BY <1>1, <1>2, <1>4, <1>5, <1>6 DEF Images!Next

\* No object is removed, and no upload takes another millisecond.
LEMMA StoredStep ==
    ASSUME Images!ConstantsAssumption, Images!ImageInv, [Images!Next]_(Images!vars)
    PROVE  Images!Stored'
<1>t. Images!TypeOK /\ Images!Stamped /\ Images!Stored /\ IsFiniteSet(images)
  BY ImagesSize DEF Images!ImageInv, Images!Placed
<1>0. /\ object \in [Images!Keys -> Uploads \cup {None}] /\ None \notin Uploads
      /\ stamps \in [Uploads -> 0 .. MaxMillis]
      /\ \A r \in images : r.by \in Uploads /\ r.url \in Images!Keys
  BY <1>t DEF Images!TypeOK, Images!Row, Images!ConstantsAssumption
<1>k. \A v \in Uploads : uploading[v] # Idle /\ uploading[v].op # "done" =>
          /\ <<"FULL", uploading[v].stamp>> \in Images!Keys
          /\ <<"THUMBNAIL", uploading[v].stamp>> \in Images!Keys
  BY <1>t, UploadOf, UploadKeys
<1> USE DEF Images!Stored, Images!Doing
<1>1. ASSUME NEW u \in Uploads, Images!UploadProductImage(u) PROVE Images!Stored'
  <2>1. [op |-> "full", stamp |-> now].op = "full"
    OBVIOUS
  <2>2. /\ stamps' = [stamps EXCEPT ![u] = now] /\ object' = object /\ images' = images
        /\ uploading' = [uploading EXCEPT ![u] = [op |-> "full", stamp |-> now]]
        /\ uploading \in [Uploads -> Images!Work \cup {Idle}]
        /\ uploading[u] = Idle
    BY <1>1, <1>t DEF Images!UploadProductImage, Images!Goto, Images!TypeOK
  <2>3. \A r \in images : r.by # u
    BY <1>t, <2>2
  <2>4. uploading'[u].op = "full"
    BY <2>1, <2>2
  <2>5. \A v \in Uploads \ {u} : uploading'[v] = uploading[v] /\ stamps'[v] = stamps[v]
    BY <1>0, <2>2
  <2> QED
    BY <1>0, <1>t, <2>2, <2>3, <2>4, <2>5
<1>2. ASSUME NEW u \in Uploads, Images!UploadFull(u) \/ Images!UploadThumb(u)
      PROVE Images!Stored'
  <2>1. /\ uploading[u] # Idle /\ uploading[u].op \in {"full", "thumb"}
        /\ stamps' = stamps /\ images' = images
        /\ uploading'[u] # Idle /\ uploading'[u].stamp = uploading[u].stamp
        /\ \A v \in Uploads \ {u} : uploading'[v] = uploading[v]
    BY <1>2, <1>t, StoreEffects
  <2>2. \A k \in Images!Keys : object[k] # None => object'[k] # None
    <3>1. PICK type \in {"FULL", "THUMBNAIL"} :
             object' = [object EXCEPT ![<<type, uploading[u].stamp>>] = u]
      BY <1>2, <1>t, StoreEffects
    <3> QED
      BY <1>0, <3>1
  <2>3. \/ uploading'[u].op = "thumb" /\ object'[<<"FULL", uploading[u].stamp>>] # None
        \/ /\ uploading[u].op = "thumb" /\ uploading'[u].op = "count"
           /\ object'[<<"THUMBNAIL", uploading[u].stamp>>] # None
    <3>1. <<"FULL", uploading[u].stamp>> \in Images!Keys /\ <<"THUMBNAIL", uploading[u].stamp>> \in Images!Keys
      BY <1>k, <2>1
    <3>2. \/ /\ uploading'[u].op = "thumb"
             /\ object' = [object EXCEPT ![<<"FULL", uploading[u].stamp>>] = u]
          \/ /\ uploading[u].op = "thumb" /\ uploading'[u].op = "count"
             /\ object' = [object EXCEPT ![<<"THUMBNAIL", uploading[u].stamp>>] = u]
      BY <1>2, <1>t, StoreEffects
    <3> QED
      BY <1>0, <3>1, <3>2
  <2>4. ASSUME NEW v \in Uploads, uploading'[v] # Idle
        PROVE  /\ uploading'[v].op \in {"thumb", "count", "save"}
                     => object'[<<"FULL", uploading'[v].stamp>>] # None
               /\ uploading'[v].op \in {"count", "save"}
                     => object'[<<"THUMBNAIL", uploading'[v].stamp>>] # None
    <3>1. CASE v = u
      BY <1>k, <1>t, <2>1, <2>2, <2>3, <3>1
    <3>2. CASE v # u
      BY <1>k, <1>t, <2>1, <2>2, <2>4, <3>2
    <3> QED
      BY <3>1, <3>2
  <2>5. \A r \in images' : /\ r.by # u
                           /\ uploading'[r.by] # Idle /\ uploading'[r.by].op = "done"
                           /\ object'[r.url] # None /\ r.url[2] = stamps'[r.by]
    BY <1>0, <1>t, <2>1, <2>2
  <2> QED
    BY <2>4, <2>5
<1>4. ASSUME NEW u \in Uploads, Images!Count(u) PROVE Images!Stored'
  <2>1. /\ uploading[u] # Idle /\ uploading[u].op = "count"
        /\ UNCHANGED <<object, images, stamps>>
        /\ uploading'[u] # Idle /\ uploading'[u].op = "save"
        /\ uploading'[u].stamp = uploading[u].stamp
        /\ \A v \in Uploads \ {u} : uploading'[v] = uploading[v]
    BY <1>4, <1>t, CountEffects
  <2>2. \A r \in images : r.by # u
    BY <1>t, <2>1
  <2> QED
    BY <1>0, <1>t, <2>1, <2>2
<1>5. ASSUME NEW u \in Uploads, Images!Save(u) \/ Images!Fail(u) PROVE Images!Stored'
  <2>1. /\ uploading[u] # Idle /\ uploading[u].op # "done" /\ UNCHANGED <<object, stamps>>
        /\ uploading'[u] # Idle /\ uploading'[u].op = "done"
        /\ \A v \in Uploads \ {u} : uploading'[v] = uploading[v]
    BY <1>5, <1>t, EndEffects
  <2>2. \A r \in images : r.by # u
    BY <1>t, <2>1
  <2>3. \A r \in images' : r \in images \/
           (r.by = u /\ object[r.url] # None /\ r.url[2] = stamps[u])
    <3>1. CASE images' = images
      BY <3>1
    <3>2. CASE Images!Save(u) /\ exists
      <4>1. PICK f, t \in Images!Row :
               /\ images' = images \cup {f, t} /\ f.by = u /\ t.by = u
               /\ f.url = <<"FULL", stamps[u]>> /\ t.url = <<"THUMBNAIL", stamps[u]>>
        BY <1>t, <3>2, SaveEffects
      <4>2. uploading[u].op = "save" /\ uploading[u].stamp = stamps[u]
        BY <1>t, <3>2, SaveEffects
      <4>3. object[f.url] # None /\ object[t.url] # None
        BY <1>t, <2>1, <4>1, <4>2
      <4> QED
        BY <4>1, <4>3
    <3>3. CASE ~(Images!Save(u) /\ exists)
      BY <1>5, <1>t, <3>1, <3>3, SaveEffects DEF Images!Fail
    <3> QED
      BY <3>2, <3>3
  <2>4. \A r \in images' : /\ uploading'[r.by] # Idle /\ uploading'[r.by].op = "done"
                           /\ object'[r.url] # None /\ r.url[2] = stamps'[r.by]
    BY <1>0, <1>t, <2>1, <2>2, <2>3
  <2> QED
    BY <1>t, <2>1, <2>4
<1>7. CASE Images!HardDelete \/ Images!Tick \/ UNCHANGED Images!vars
  BY <1>7, <1>t DEF Images!HardDelete, Images!Tick, Images!vars, Images!history
<1> QED
  BY <1>1, <1>2, <1>4, <1>5, <1>7 DEF Images!Next

\* Who counts goes behind all rows; who saves meets those who have counted.
LEMMA PlacedStep ==
    ASSUME Images!ConstantsAssumption, Images!ImageInv, [Images!Next]_(Images!vars)
    PROVE  Images!Placed'
<1>t. Images!TypeOK /\ Images!Stamped /\ Images!Stored /\ Images!Placed
  BY DEF Images!ImageInv
<1>f. IsFiniteSet(images) /\ Cardinality(images) \in Nat
  BY <1>t, ImagesSize, FS_CardinalityType DEF Images!Placed
<1>r. \A r \in images : r \in Images!Row /\ r.by \in Uploads /\ r.displayOrder \in Nat
  BY <1>t DEF Images!TypeOK, Images!Row
<1>p. /\ ~exists => images = {}
      /\ \A r \in images : r.displayOrder < Cardinality(images)
      /\ \A u \in Uploads : uploading[u] # Idle /\ uploading[u].op = "save" =>
            /\ exists => uploading[u].existing <= Cardinality(images)
            /\ \A r \in images : r.displayOrder < uploading[u].existing \/ {r.by, u} \in overlapping
      /\ \A r, s \in images :
            r # s /\ r.displayOrder = s.displayOrder => {r.by, s.by} \in overlapping
  BY <1>t, ImagesSize DEF Images!Placed, Images!Doing
<1> DEFINE G == /\ IsFiniteSet(images') /\ (~exists' => images' = {})
                /\ \A r \in images' : r.displayOrder < Cardinality(images')
                /\ \A u \in Uploads : uploading'[u] # Idle /\ uploading'[u].op = "save" =>
                      /\ exists' => uploading'[u].existing <= Cardinality(images')
                      /\ \A r \in images' :
                            r.displayOrder < uploading'[u].existing \/ {r.by, u} \in overlapping'
                /\ \A r, s \in images' :
                      r # s /\ r.displayOrder = s.displayOrder => {r.by, s.by} \in overlapping'
<1>g. SUFFICES G
  BY ImagesSize DEF Images!Placed, Images!Doing
<1>1. ASSUME NEW u \in Uploads, Images!UploadProductImage(u) PROVE G
  <2>1. [op |-> "full", stamp |-> now].op # "save"
    OBVIOUS
  <2>2. /\ UNCHANGED <<exists, images, overlapping>>
        /\ uploading' = [uploading EXCEPT ![u] = [op |-> "full", stamp |-> now]]
        /\ uploading \in [Uploads -> Images!Work \cup {Idle}]
    BY <1>1, <1>t DEF Images!UploadProductImage, Images!Goto, Images!TypeOK
  <2>3. uploading'[u].op # "save" /\ \A v \in Uploads \ {u} : uploading'[v] = uploading[v]
    BY <2>1, <2>2
  <2> QED
    BY <1>f, <1>p, <2>2, <2>3
<1>2. ASSUME NEW u \in Uploads, Images!UploadFull(u) \/ Images!UploadThumb(u) PROVE G
  <2>1. /\ UNCHANGED <<exists, images, overlapping>> /\ uploading'[u].op # "save"
        /\ \A v \in Uploads \ {u} : uploading'[v] = uploading[v]
    BY <1>2, <1>t, StoreEffects
  <2> QED
    BY <1>f, <1>p, <2>1
<1>4. ASSUME NEW u \in Uploads, Images!Count(u) PROVE G
  <2>1. /\ UNCHANGED <<exists, images, overlapping>>
        /\ uploading'[u].existing = Cardinality(images)
        /\ \A v \in Uploads \ {u} : uploading'[v] = uploading[v]
    BY <1>4, <1>f, <1>t, CountEffects
  <2> QED
    BY <1>f, <1>p, <2>1
<1>5. ASSUME NEW u \in Uploads, Images!Save(u), exists PROVE G
  <2>1. /\ uploading[u] # Idle /\ uploading[u].op = "save" /\ uploading[u].existing \in Nat
        /\ \A v \in Uploads \ {u} : uploading[v] # Idle /\ uploading[v].op = "save"
              => {u, v} \in overlapping'
        /\ overlapping \subseteq overlapping'
    BY <1>5, <1>t, SaveEffects
  <2>2. /\ exists' = exists /\ uploading'[u].op = "done"
        /\ \A v \in Uploads \ {u} : uploading'[v] = uploading[v]
    BY <1>5, <1>t, EndEffects
  <2>3. PICK f, t \in Images!Row :
                /\ images' = images \cup {f, t} /\ f # t
                /\ f.by = u /\ t.by = u
                /\ f.displayOrder = uploading[u].existing
                /\ t.displayOrder = uploading[u].existing + 1
    BY <1>5, <1>t, SaveEffects
  <2>4. \A r \in images : r.by # u
    BY <1>t, <2>1 DEF Images!Stored, Images!Doing
  <2>5. IsFiniteSet(images') /\ Cardinality(images') = Cardinality(images) + 2
    <3>1. f \notin images /\ t \notin images \cup {f}
      BY <2>3, <2>4
    <3>2. IsFiniteSet(images \cup {f}) /\ Cardinality(images \cup {f}) = Cardinality(images) + 1
      BY <1>f, <3>1, FS_AddElement
    <3>3. /\ IsFiniteSet((images \cup {f}) \cup {t})
          /\ Cardinality((images \cup {f}) \cup {t}) = Cardinality(images \cup {f}) + 1
      BY <3>1, <3>2, FS_AddElement
    <3>4. images' = (images \cup {f}) \cup {t}
      BY <2>3
    <3> QED
      BY <1>f, <3>2, <3>3, <3>4
  <2>6. uploading[u].existing <= Cardinality(images)
    BY <1>5, <1>p, <2>1
  <2>7. \A r \in images' : r.displayOrder < Cardinality(images')
    BY <1>f, <1>p, <1>r, <2>1, <2>3, <2>5, <2>6
  <2>8. \A r \in images : r.displayOrder < uploading[u].existing \/ {r.by, u} \in overlapping'
    BY <1>p, <2>1
  <2>9. ASSUME NEW v \in Uploads, uploading'[v] # Idle, uploading'[v].op = "save"
        PROVE  /\ uploading'[v].existing <= Cardinality(images')
               /\ \A r \in images' :
                     r.displayOrder < uploading'[v].existing \/ {r.by, v} \in overlapping'
    <3>1. v # u /\ uploading'[v] = uploading[v]
      BY <2>2, <2>9
    <3>2. uploading[v].existing \in Nat
      BY <1>t, <2>9, <3>1, UploadOf
    <3>3. uploading[v].existing <= Cardinality(images) /\ {u, v} \in overlapping'
      BY <1>5, <1>p, <2>1, <2>9, <3>1
    <3>4. \A r \in images : r.displayOrder < uploading[v].existing \/ {r.by, v} \in overlapping'
      BY <1>p, <2>1, <2>9, <3>1
    <3>5. uploading[v].existing <= Cardinality(images')
      BY <1>f, <2>5, <3>2, <3>3
    <3>6. ASSUME NEW r \in images'
          PROVE  r.displayOrder < uploading[v].existing \/ {r.by, v} \in overlapping'
      <4>1. CASE r \in images
        BY <3>4, <4>1
      <4>2. CASE r \in {f, t}
        BY <2>3, <3>3, <4>2
      <4> QED
        BY <2>3, <4>1, <4>2
    <3> QED
      BY <3>1, <3>5, <3>6
  <2>10. ASSUME NEW r \in images', NEW s \in images', r # s, r.displayOrder = s.displayOrder
         PROVE  {r.by, s.by} \in overlapping'
    <3>1. CASE r \in images /\ s \in images
      BY <1>p, <2>1, <2>10, <3>1
    <3>2. CASE r \in images /\ s \in {f, t}
      <4>1. {r.by, u} \in overlapping' /\ s.by = u
        BY <1>r, <2>1, <2>3, <2>8, <2>10, <3>2
      <4> QED
        BY <4>1
    <3>3. CASE r \in {f, t} /\ s \in images
      <4>1. {s.by, u} \in overlapping'
        BY <1>r, <2>1, <2>3, <2>8, <2>10, <3>3
      <4>2. {r.by, s.by} = {s.by, u}
        BY <2>3, <3>3
      <4> QED
        BY <4>1, <4>2
    <3>4. CASE r \in {f, t} /\ s \in {f, t}
      <4>1. f.displayOrder # t.displayOrder
        BY <2>1, <2>3
      <4> QED
        BY <2>10, <3>4, <4>1
    <3> QED
      BY <2>3, <3>1, <3>2, <3>3, <3>4
  <2> QED
    BY <1>5, <2>2, <2>5, <2>7, <2>9, <2>10
<1>6. ASSUME NEW u \in Uploads, (Images!Save(u) /\ ~exists) \/ Images!Fail(u) PROVE G
  <2>1. /\ exists' = exists /\ uploading'[u].op = "done"
        /\ \A v \in Uploads \ {u} : uploading'[v] = uploading[v]
    BY <1>6, <1>t, EndEffects
  <2>2. images' = images /\ overlapping \subseteq overlapping'
    BY <1>6, <1>t, SaveEffects DEF Images!Fail, Images!history
  <2> QED
    BY <1>f, <1>p, <2>1, <2>2
<1>7. CASE Images!HardDelete
  <2>1. images' = {} /\ ~exists' /\ uploading' = uploading
    BY <1>7 DEF Images!HardDelete
  <2> QED
    BY <2>1, FS_EmptySet
<1>8. CASE Images!Tick \/ UNCHANGED Images!vars
  BY <1>8, <1>f, <1>p DEF Images!Tick, Images!vars, Images!history
<1> HIDE DEF G
<1> QED
  BY <1>1, <1>2, <1>4, <1>5, <1>6, <1>7, <1>8 DEF Images!Next

\* The inductive invariant of the pictures holds in every reachable state.
THEOREM ImagesInvariance ==
    ASSUME Images!ConstantsAssumption PROVE Images!Spec => []Images!ImageInv
<1>1. Images!Init => Images!ImageInv
  BY Images!ConstantsAssumption, ImagesStart
<1>2. Images!ImageInv /\ [Images!Next]_(Images!vars) => Images!ImageInv'
  <2> SUFFICES ASSUME Images!ImageInv, [Images!Next]_(Images!vars) PROVE Images!ImageInv'
    OBVIOUS
  <2>1. Images!TypeOK /\ Images!Stamped /\ Images!Stored
    BY DEF Images!ImageInv
  <2> QED
    BY <2>1, Images!ConstantsAssumption, ImagesTypes, StampedStep, StoredStep, PlacedStep
       DEF Images!ImageInv
<1> QED
  BY <1>1, <1>2, PTL DEF Images!Spec

\* Likewise for the pictures.
LEMMA PartsImages == PartsSpec => Images!Spec
<1>1. PartsInit => Images!Init
  BY DEF PartsInit
<1>2. [PartsNext]_partsVars => [Images!Next]_(Images!vars)
  BY DEF PartsNext, ProductNext, ListingNext, ImagesNext, TreeNext, partsVars, imageVars,
         Images!vars, Images!history
<1> QED
  BY <1>1, <1>2, PTL DEF PartsSpec, Images!Spec

\* However uploads, a deletion of the product and failures interleave, a row
\* shows the picture it was inserted for unless another upload took the same
\* millisecond, and two rows share a place only if their uploads overlapped.
THEOREM PicturesInPlace == PartsSpec => []ImagesInPlace
<1>1. Images!ImageInv => ImagesInPlace
  <2> SUFFICES ASSUME Images!TypeOK, Images!Stamped, Images!Stored, Images!Placed
               PROVE  ImagesInPlace
    BY DEF Images!ImageInv
  <2>1. ASSUME NEW r \in images
        PROVE  object[r.url] # None /\ stamps[object[r.url]] = stamps[r.by]
    <3>1. r.url \in Images!Keys
      BY DEF Images!TypeOK, Images!Row
    <3>2. object[r.url] # None /\ r.url[2] = stamps[r.by]
      BY DEF Images!Stored
    <3> QED
      BY <3>1, <3>2 DEF Images!Stamped
  <2> QED
    BY <2>1 DEF ImagesInPlace, Images!ImagesInPlace, Images!Placed
<1>2. Images!Spec => []Images!ImageInv
  BY PartsAssumption, ImagesInvariance
<1> QED
  BY <1>1, <1>2, PartsImages, PTL
-----------------------------------------------------------------------------
(* The pages of the listing, for any number of products, page size and clock. *)

LEMMA ListingSize ==
    \A S : Listing!Cardinality(S) = Cardinality(S) /\ (Listing!IsFiniteSet(S) <=> IsFiniteSet(S))
BY DEF Listing!Cardinality, Cardinality, Listing!IsFiniteSet, IsFiniteSet

LEMMA Division ==
    ASSUME NEW t \in Nat, NEW m \in Nat \ {0}
    PROVE  /\ t \div m \in Nat /\ t % m \in 0 .. m - 1
           /\ t = m * (t \div m) + (t % m)
OBVIOUS

LEMMA Multiples ==
    ASSUME NEW m \in Nat \ {0}, NEW p \in Nat, NEW q \in Nat, m * q < m * p + m
    PROVE  q <= p
<1> SUFFICES ASSUME p + 1 <= q PROVE FALSE
  OBVIOUS
<1>1. PICK k \in Nat : q = p + 1 + k
  BY q - p - 1 \in Nat
<1>2. m * q = m * p + m + m * k
  BY <1>1
<1>3. m * k \in Nat
  BY <1>1
<1> QED
  BY <1>2, <1>3

\* What a Date keeps of a time is not after it, and is the same for all times
\* from there up to it.
LEMMA TruncatedIs ==
    ASSUME Listing!ConstantsAssumption, NEW t \in Nat
    PROVE  /\ Listing!Truncated(t) \in Nat /\ Listing!Truncated(t) <= t
           /\ \A x \in Nat : Listing!Truncated(t) <= x /\ x <= t
                  => Listing!Truncated(t) = Listing!Truncated(x)
<1> DEFINE m == MicrosPerMilli
           q == t \div m
<1>0. m \in Nat \ {0}
  BY DEF Listing!ConstantsAssumption
<1>1. q \in Nat /\ t % m \in 0 .. m - 1 /\ t = m * q + (t % m)
  BY <1>0, Division
<1>2. Listing!Truncated(t) = t - (t % m)
  BY DEF Listing!Truncated
<1> HIDE DEF m, q
<1>3. Listing!Truncated(t) \in Nat /\ Listing!Truncated(t) <= t
  BY <1>0, <1>1, <1>2
<1>4. ASSUME NEW x \in Nat, Listing!Truncated(t) <= x, x <= t
      PROVE  Listing!Truncated(t) = Listing!Truncated(x)
  <2> DEFINE p == x \div m
  <2>1. p \in Nat /\ x % m \in 0 .. m - 1 /\ x = m * p + (x % m)
    BY <1>0, Division
  <2>2. Listing!Truncated(x) = x - (x % m)
    BY DEF Listing!Truncated, m
  <2> HIDE DEF p
  <2>3. m * q < m * p + m /\ m * p < m * q + m
    BY <1>0, <1>1, <1>2, <1>4, <2>1
  <2>4. p = q
    BY <1>0, <1>1, <2>1, <2>3, Multiples
  <2> QED
    BY <1>0, <1>1, <1>2, <2>1, <2>2, <2>4
<1> QED
  BY <1>3, <1>4

\* Products have a time and a number, and there are finitely many.
LEMMA Dated ==
    ASSUME Listing!ConstantsAssumption, Listing!TypeOK
    PROVE  /\ \A x \in Listing!Created : x \in Ids /\ x \in Nat /\ time[x] \in Nat
           /\ listed \subseteq Listing!Created /\ seen \subseteq Listing!Created
           /\ steady \subseteq listed /\ lasts \subseteq seen /\ repeated \subseteq seen
           /\ \A S \in SUBSET listed : IsFiniteSet(S) /\ Cardinality(S) \in Nat
<1>1. \A x \in Listing!Created : x \in Ids /\ x \in Nat /\ time[x] \in Nat
  BY DEF Listing!ConstantsAssumption, Listing!TypeOK, Listing!Created
<1>2. IsFiniteSet(Ids)
  BY ListingSize DEF Listing!ConstantsAssumption
<1>3. \A S \in SUBSET listed : S \in SUBSET Ids
  BY <1>1 DEF Listing!TypeOK
<1> QED
  BY <1>1, <1>2, <1>3, FS_Subset, FS_CardinalityType DEF Listing!TypeOK

\* What a walk carries.
LEMMA WalkCarried ==
    ASSUME NEW k \in Listing!Walk
    PROVE  /\ k.sort \in Listing!Sorts /\ k.by \in Listing!Ways /\ k.op \in {"page", "load", "done"}
           /\ k.op \in {"page", "load"} => k.page \in Nat /\ k.cursor \in Listing!Cursors
           /\ k.op = "load" => k.ids \in SUBSET Ids
BY DEF Listing!Walk

LEMMA ListingStart ==
    ASSUME Listing!ConstantsAssumption, Listing!Init PROVE Listing!ListingInv
<1> USE DEF Listing!Init, Listing!ConstantsAssumption
<1>1. Listing!TypeOK
  <2>1. time \in [Ids -> (1 .. MaxTime) \cup {None}] /\ clock \in 1 .. MaxTime
    OBVIOUS
  <2> QED
    BY <2>1 DEF Listing!TypeOK
<1>2. Listing!WalkInv
  BY DEF Listing!WalkInv, Listing!Underway, Listing!Doing
<1>3. Listing!CursorInv /\ Listing!OffsetInv
  BY DEF Listing!CursorInv, Listing!OffsetInv
<1> QED
  BY <1>1, <1>2, <1>3 DEF Listing!ListingInv

-----------------------------------------------------------------------------
\* What a change of the products does to a walk: nothing to what it has seen,
\* and a change of the listing is noted.
Elsewhere ==
    /\ walk' = walk /\ seen' = seen /\ repeated' = repeated
    /\ shrunk' = shrunk /\ lasts' = lasts
    /\ steady' \subseteq steady
    /\ Listing!Created \subseteq Listing!Created'
    /\ \A x \in Listing!Created : time'[x] = time[x]
    /\ shifted => shifted'
    /\ Listing!Underway /\ ~shifted' => listed' = listed

LEMMA ProductsChange ==
    ASSUME Listing!ConstantsAssumption, Listing!TypeOK,
           \/ \E x \in Ids, active \in BOOLEAN, t \in 1 .. MaxTime : Listing!Create(x, active, t)
           \/ \E x \in Ids : Listing!Approve(x) \/ Listing!Withdraw(x)
           \/ UNCHANGED Listing!vars
    PROVE  Elsewhere /\ Listing!TypeOK'
<1> USE DEF Listing!ConstantsAssumption, Listing!TypeOK, Listing!Created
<1>1. ASSUME NEW x \in Ids, NEW active \in BOOLEAN, NEW t \in 1 .. MaxTime,
             Listing!Create(x, active, t)
      PROVE  Elsewhere /\ Listing!TypeOK'
  <2>1. /\ time[x] = None /\ t \in clock .. MaxTime
        /\ clock' = t /\ time' = [time EXCEPT ![x] = t]
        /\ listed' = IF active THEN listed \cup {x} ELSE listed
        /\ shifted' = (shifted \/ (active /\ Listing!Underway))
        /\ UNCHANGED <<walk, seen, repeated, steady, shrunk, lasts>>
    BY <1>1 DEF Listing!Create
  <2>2. Listing!Created' = Listing!Created \cup {x}
    BY <2>1
  <2>3. active \/ ~active
    OBVIOUS
  <2>4. \A y \in Listing!Created : time'[y] = time[y]
    BY <2>1
  <2>5. (shifted => shifted') /\ (Listing!Underway /\ ~shifted' => listed' = listed)
    BY <2>1, <2>3
  <2>6. shifted' \in BOOLEAN
    BY <2>1
  <2>7. listed' \subseteq Listing!Created' /\ steady' \subseteq listed'
    BY <2>1, <2>2, <2>3
  <2> QED
    BY <2>1, <2>2, <2>4, <2>5, <2>6, <2>7 DEF Elsewhere
<1>2. ASSUME NEW x \in Ids, Listing!Approve(x) \/ Listing!Withdraw(x)
      PROVE  Elsewhere /\ Listing!TypeOK'
  BY <1>2 DEF Listing!Approve, Listing!Withdraw, Elsewhere
<1>3. CASE UNCHANGED Listing!vars
  BY <1>3 DEF Listing!vars, Listing!history, Elsewhere
<1> QED
  BY <1>1, <1>2, <1>3

\* The first n of a finite set, if there are so many.
LEMMA CutOff ==
    ASSUME NEW C, IsFiniteSet(C), NEW n \in Nat, NEW S \in SUBSET C,
           Cardinality(S) = Listing!AtMost(n, C)
    PROVE  /\ IsFiniteSet(S) /\ Cardinality(S) \in Nat /\ Cardinality(S) <= n
           /\ S # C => Cardinality(S) = n
<1>1. /\ IsFiniteSet(S) /\ Cardinality(S) \in Nat /\ Cardinality(C) \in Nat
      /\ Cardinality(C) = Cardinality(S) => S = C
  BY FS_Subset, FS_CardinalityType
<1>2. Cardinality(S) = IF n < Cardinality(C) THEN n ELSE Cardinality(C)
  BY ListingSize DEF Listing!AtMost
<1> QED
  BY <1>1, <1>2

\* A walk begins with what is listed.
LEMMA StartEffects ==
    ASSUME Listing!ConstantsAssumption, Listing!TypeOK,
           NEW sort \in Listing!Sorts, NEW by \in Listing!Ways, Listing!Start(sort, by)
    PROVE  /\ walk = Idle /\ walk' # Idle /\ walk' \in Listing!Walk
           /\ walk'.op = "page" /\ walk'.sort = sort /\ walk'.by = by
           /\ walk'.page = 0 /\ walk'.cursor = None
           /\ steady' = listed
           /\ UNCHANGED <<time, listed, clock, seen, repeated, shifted, shrunk, lasts>>
<1>1. /\ walk = Idle /\ steady' = listed
      /\ walk' = [op |-> "page", sort |-> sort, by |-> by, page |-> 0, cursor |-> None]
      /\ UNCHANGED <<time, listed, clock, seen, repeated, shifted, shrunk, lasts>>
  BY DEF Listing!Start
<1>2. walk' \in Listing!Walk
  BY <1>1 DEF Listing!Walk, Listing!Cursors
<1>3. walk' # Idle
  BY <1>2 DEF Listing!ConstantsAssumption
<1> QED
  BY <1>1, <1>2, <1>3

\* A page is cut from the candidates behind those that are skipped.
Cut(skipped, page) ==
    LET C == Listing!Candidates IN
    /\ skipped \subseteq C /\ page \subseteq C \ skipped
    /\ IsFiniteSet(skipped) /\ IsFiniteSet(page)
    /\ Cardinality(skipped) \in Nat /\ Cardinality(page) \in Nat
    /\ Cardinality(skipped) <= Listing!Skip /\ Cardinality(page) <= PageSize
    /\ skipped # C => Cardinality(skipped) = Listing!Skip
    /\ page # C \ skipped => Cardinality(page) = PageSize
    /\ \A x \in skipped, y \in C \ skipped : ~Listing!Before(Listing!Order, y, x)
    /\ \A x \in page, y \in C \ (skipped \cup page) : ~Listing!Before(Listing!Order, y, x)

LEMMA SelectEffects ==
    ASSUME Listing!ConstantsAssumption, Listing!TypeOK, Listing!Select
    PROVE  /\ walk # Idle /\ walk.op = "page" /\ walk \in Listing!Walk
           /\ walk' # Idle /\ walk' \in Listing!Walk /\ walk'.op = "load"
           /\ walk'.sort = walk.sort /\ walk'.by = walk.by
           /\ walk'.page = walk.page /\ walk'.cursor = walk.cursor
           /\ walk'.ids \subseteq Listing!Candidates
           /\ \E skipped \in SUBSET Listing!Candidates : Cut(skipped, walk'.ids)
           /\ UNCHANGED <<time, listed, clock, seen, repeated, steady, shifted, shrunk, lasts>>
<1> DEFINE C == Listing!Candidates
<1>1. /\ walk # Idle /\ walk.op = "page"
      /\ UNCHANGED <<time, listed, clock, seen, repeated, steady, shifted, shrunk, lasts>>
  BY DEF Listing!Select, Listing!Doing, Listing!history
<1>2. walk \in Listing!Walk /\ walk.page \in Nat /\ walk.cursor \in Listing!Cursors
      /\ walk.sort \in Listing!Sorts /\ walk.by \in Listing!Ways
  BY <1>1, WalkCarried DEF Listing!TypeOK
<1>3. PICK skipped \in SUBSET C : \E page \in SUBSET (C \ skipped) :
          /\ Cardinality(skipped) = Listing!AtMost(Listing!Skip, C)
          /\ Cardinality(page) = Listing!AtMost(PageSize, C \ skipped)
          /\ \A x \in skipped, y \in C \ skipped : ~Listing!Before(Listing!Order, y, x)
          /\ \A x \in page, y \in C \ (skipped \cup page) : ~Listing!Before(Listing!Order, y, x)
          /\ walk' = [op |-> "load", sort |-> walk.sort, by |-> walk.by, page |-> walk.page,
                      cursor |-> walk.cursor, ids |-> page]
  BY ListingSize DEF Listing!Select
<1>4. PICK page \in SUBSET (C \ skipped) :
          /\ Cardinality(skipped) = Listing!AtMost(Listing!Skip, C)
          /\ Cardinality(page) = Listing!AtMost(PageSize, C \ skipped)
          /\ \A x \in skipped, y \in C \ skipped : ~Listing!Before(Listing!Order, y, x)
          /\ \A x \in page, y \in C \ (skipped \cup page) : ~Listing!Before(Listing!Order, y, x)
          /\ walk' = [op |-> "load", sort |-> walk.sort, by |-> walk.by, page |-> walk.page,
                      cursor |-> walk.cursor, ids |-> page]
  BY <1>3
<1>5. C \in SUBSET listed
  BY DEF Listing!Candidates, Listing!After
<1>6. IsFiniteSet(C) /\ IsFiniteSet(C \ skipped) /\ page \in SUBSET Ids
  <2>1. C \ skipped \in SUBSET listed /\ page \in SUBSET listed
    BY <1>5
  <2> QED
    BY <1>5, <2>1, Dated
<1>7. Listing!Skip \in Nat /\ PageSize \in Nat
  BY <1>2 DEF Listing!Skip, Listing!ConstantsAssumption
<1> HIDE DEF C
<1>8. /\ IsFiniteSet(skipped) /\ Cardinality(skipped) \in Nat
      /\ Cardinality(skipped) <= Listing!Skip
      /\ skipped # C => Cardinality(skipped) = Listing!Skip
  BY <1>4, <1>6, <1>7, CutOff
<1>9. /\ IsFiniteSet(page) /\ Cardinality(page) \in Nat /\ Cardinality(page) <= PageSize
      /\ page # C \ skipped => Cardinality(page) = PageSize
  BY <1>4, <1>6, <1>7, CutOff
<1>10. Cut(skipped, page)
  BY <1>4, <1>8, <1>9 DEF Cut, C
<1>11. walk' \in Listing!Walk
  BY <1>2, <1>4, <1>6 DEF Listing!Walk
<1>12. walk' # Idle
  BY <1>11 DEF Listing!ConstantsAssumption
<1>13. walk'.ids = page /\ page \subseteq C
  BY <1>4
<1>14. \E s \in SUBSET C : Cut(s, walk'.ids)
  BY <1>10, <1>13
<1> QED
  BY <1>1, <1>2, <1>4, <1>11, <1>12, <1>13, <1>14 DEF C

\* A page shows those of its products that are listed still, and is followed by
\* another one if it is full.
LEMMA LoadEffects ==
    ASSUME Listing!ConstantsAssumption, Listing!TypeOK, Listing!WalkInv, Listing!Load
    PROVE  /\ walk # Idle /\ walk.op = "load" /\ walk \in Listing!Walk
           /\ walk' # Idle /\ walk' \in Listing!Walk
           /\ walk'.sort = walk.sort /\ walk'.by = walk.by
           /\ seen' = seen \cup (walk.ids \cap listed)
           /\ repeated' = repeated \cup ((walk.ids \cap listed) \cap seen)
           /\ shrunk' = (shrunk \/ walk.ids \cap listed # walk.ids)
           /\ UNCHANGED <<time, listed, clock, steady, shifted>>
           /\ \/ /\ Cardinality(walk.ids \cap listed) = PageSize
                 /\ walk'.op = "page" /\ walk'.page = walk.page + 1
                 /\ walk.by = "offset" => walk'.cursor = None
                 /\ \E last \in walk.ids \cap listed :
                       /\ \A x \in walk.ids \cap listed : ~Listing!Sorted(Listing!Order, last, x)
                       /\ lasts' = lasts \cup {last}
                       /\ walk.by = "cursor" =>
                             /\ walk'.cursor = Listing!Cursor(last) /\ walk'.cursor # None
                             /\ walk'.cursor.time = Listing!Truncated(time[last])
                             /\ walk'.cursor.id = last
              \/ /\ Cardinality(walk.ids \cap listed) # PageSize
                 /\ walk'.op = "done" /\ lasts' = lasts
<1> DEFINE page == walk.ids \cap listed
<1>1. /\ walk # Idle /\ walk.op = "load"
      /\ seen' = seen \cup page /\ repeated' = repeated \cup (page \cap seen)
      /\ shrunk' = (shrunk \/ page # walk.ids)
      /\ UNCHANGED <<time, listed, clock, steady, shifted>>
  BY DEF Listing!Load, Listing!Doing
<1>2. walk \in Listing!Walk /\ walk.page \in Nat
      /\ walk.sort \in Listing!Sorts /\ walk.by \in Listing!Ways
  BY <1>1, WalkCarried DEF Listing!TypeOK
<1>3. CASE /\ Cardinality(page) = PageSize
           /\ \E last \in page :
                 /\ \A x \in page : ~Listing!Sorted(Listing!Order, last, x)
                 /\ lasts' = lasts \cup {last}
                 /\ walk' = [op |-> "page", sort |-> walk.sort, by |-> walk.by,
                             page |-> walk.page + 1,
                             cursor |-> IF walk.by = "cursor" THEN Listing!Cursor(last) ELSE None]
  <2>1. PICK last \in page :
                 /\ \A x \in page : ~Listing!Sorted(Listing!Order, last, x)
                 /\ lasts' = lasts \cup {last}
                 /\ walk' = [op |-> "page", sort |-> walk.sort, by |-> walk.by,
                             page |-> walk.page + 1,
                             cursor |-> IF walk.by = "cursor" THEN Listing!Cursor(last) ELSE None]
    BY <1>3
  <2>2. last \in Ids /\ time[last] \in Nat
    BY Dated
  <2>3. /\ Listing!Cursor(last) = [time |-> Listing!Truncated(time[last]), id |-> last]
        /\ Listing!Cursor(last) \in [time : Nat, id : Ids]
    BY <2>2, TruncatedIs DEF Listing!Cursor
  <2>4. Listing!Cursor(last) # None
    BY <2>3 DEF Listing!ConstantsAssumption
  <2>5. walk' \in Listing!Walk
    <3> DEFINE c == IF walk.by = "cursor" THEN Listing!Cursor(last) ELSE None
    <3>1. c \in Listing!Cursors
      BY <2>3 DEF Listing!Cursors
    <3>2. walk.page + 1 \in Nat
      BY <1>2
    <3>3. walk' = [op |-> "page", sort |-> walk.sort, by |-> walk.by,
                   page |-> walk.page + 1, cursor |-> c]
      BY <2>1
    <3> HIDE DEF c
    <3> QED
      BY <1>2, <3>1, <3>2, <3>3 DEF Listing!Walk
  <2>6. walk' # Idle
    BY <2>5 DEF Listing!ConstantsAssumption
  <2>7. /\ walk'.sort = walk.sort /\ walk'.by = walk.by
        /\ walk'.op = "page" /\ walk'.page = walk.page + 1
        /\ walk'.cursor = IF walk.by = "cursor" THEN Listing!Cursor(last) ELSE None
    BY <2>1
  <2> HIDE DEF page
  <2>8. walk.by = "cursor" =>
            /\ walk'.cursor = Listing!Cursor(last) /\ walk'.cursor # None
            /\ walk'.cursor.time = Listing!Truncated(time[last])
            /\ walk'.cursor.id = last
    BY <2>3, <2>4, <2>7
  <2> QED
    BY <1>1, <1>2, <1>3, <2>1, <2>5, <2>6, <2>7, <2>8 DEF page
<1>4. CASE /\ Cardinality(page) # PageSize
           /\ walk' = [op |-> "done", sort |-> walk.sort, by |-> walk.by]
           /\ lasts' = lasts
  <2>1. walk' \in Listing!Walk
    BY <1>2, <1>4 DEF Listing!Walk
  <2>2. walk' # Idle
    BY <2>1 DEF Listing!ConstantsAssumption
  <2> QED
    BY <1>1, <1>2, <1>4, <2>1, <2>2
<1>5. \/ /\ Cardinality(page) = PageSize
         /\ \E last \in page :
               /\ \A x \in page : ~Listing!Sorted(Listing!Order, last, x)
               /\ lasts' = lasts \cup {last}
               /\ walk' = [op |-> "page", sort |-> walk.sort, by |-> walk.by,
                           page |-> walk.page + 1,
                           cursor |-> IF walk.by = "cursor" THEN Listing!Cursor(last) ELSE None]
      \/ /\ Cardinality(page) # PageSize
         /\ walk' = [op |-> "done", sort |-> walk.sort, by |-> walk.by]
         /\ lasts' = lasts
  BY ListingSize DEF Listing!Load, Listing!HasNext
<1> QED
  BY <1>3, <1>4, <1>5

-----------------------------------------------------------------------------
\* The products change, or the walk takes a step.
ProductsStep ==
    \/ \E x \in Ids, active \in BOOLEAN, t \in 1 .. MaxTime : Listing!Create(x, active, t)
    \/ \E x \in Ids : Listing!Approve(x) \/ Listing!Withdraw(x)
    \/ UNCHANGED Listing!vars

LEMMA ListingCases ==
    ASSUME [Listing!Next]_(Listing!vars)
    PROVE  \/ ProductsStep \/ Listing!Select \/ Listing!Load
           \/ \E sort \in Listing!Sorts, by \in Listing!Ways : Listing!Start(sort, by)
BY DEF Listing!Next, Listing!FindAll, ProductsStep

LEMMA ListingTypes ==
    ASSUME Listing!ConstantsAssumption, Listing!TypeOK, Listing!WalkInv,
           [Listing!Next]_(Listing!vars)
    PROVE  Listing!TypeOK' /\ Listing!WalkInv'
<1>d. /\ listed \subseteq Listing!Created /\ seen \subseteq Listing!Created
      /\ steady \subseteq listed /\ lasts \subseteq seen /\ repeated \subseteq seen
  BY Dated
<1>1. CASE ProductsStep
  <2>1. Elsewhere /\ Listing!TypeOK'
    BY <1>1, ProductsChange DEF ProductsStep
  <2> QED
    BY <2>1 DEF Elsewhere, Listing!WalkInv, Listing!Underway, Listing!Doing
<1>2. ASSUME NEW sort \in Listing!Sorts, NEW by \in Listing!Ways, Listing!Start(sort, by)
      PROVE  Listing!TypeOK' /\ Listing!WalkInv'
  <2>1. /\ walk = Idle /\ walk' # Idle /\ walk' \in Listing!Walk /\ walk'.op = "page"
        /\ walk'.cursor = None /\ steady' = listed
        /\ UNCHANGED <<time, listed, clock, seen, repeated, shifted, shrunk, lasts>>
    BY <1>2, StartEffects
  <2>2. Listing!TypeOK'
    BY <2>1 DEF Listing!TypeOK, Listing!Created
  <2> QED
    BY <2>1, <2>2 DEF Listing!WalkInv, Listing!Underway, Listing!Doing
<1>3. CASE Listing!Select
  <2>1. /\ walk # Idle /\ walk.op = "page"
        /\ walk' # Idle /\ walk' \in Listing!Walk /\ walk'.op = "load"
        /\ walk'.by = walk.by /\ walk'.cursor = walk.cursor
        /\ walk'.ids \subseteq Listing!Candidates
        /\ UNCHANGED <<time, listed, clock, seen, repeated, steady, shifted, shrunk, lasts>>
    BY <1>3, SelectEffects
  <2>2. Listing!TypeOK' /\ Listing!Created' = Listing!Created
    BY <2>1 DEF Listing!TypeOK, Listing!Created
  <2>3. walk'.ids \subseteq Listing!Created
    BY <1>d, <2>1 DEF Listing!Candidates, Listing!After
  <2> QED
    BY <2>1, <2>2, <2>3 DEF Listing!WalkInv, Listing!Underway, Listing!Doing
<1>4. CASE Listing!Load
  <2>1. /\ walk # Idle /\ walk.op = "load" /\ walk' # Idle /\ walk' \in Listing!Walk
        /\ walk'.by = walk.by /\ walk.by \in Listing!Ways
        /\ seen' = seen \cup (walk.ids \cap listed)
        /\ repeated' = repeated \cup ((walk.ids \cap listed) \cap seen)
        /\ shrunk' = (shrunk \/ walk.ids \cap listed # walk.ids)
        /\ UNCHANGED <<time, listed, clock, steady, shifted>>
    BY <1>4, LoadEffects, WalkCarried
  <2>2. \/ /\ walk'.op = "page"
           /\ walk.by = "offset" => walk'.cursor = None
           /\ \E last \in walk.ids \cap listed :
                 /\ lasts' = lasts \cup {last}
                 /\ walk.by = "cursor" => walk'.cursor # None
        \/ walk'.op = "done" /\ lasts' = lasts
    BY <1>4, LoadEffects
  <2>3. Listing!Created' = Listing!Created
    BY <2>1 DEF Listing!Created
  <2>4. seen' \subseteq Listing!Created' /\ repeated' \subseteq seen' /\ lasts' \subseteq seen'
    BY <1>d, <2>1, <2>2, <2>3
  <2>5. shrunk' \in BOOLEAN
    BY <2>1
  <2>6. Listing!TypeOK'
    BY <2>1, <2>3, <2>4, <2>5 DEF Listing!TypeOK
  <2>7. Listing!WalkInv'
    BY <2>1, <2>2 DEF Listing!WalkInv, Listing!Underway, Listing!Doing, Listing!Ways
  <2> QED
    BY <2>6, <2>7
<1> QED
  BY <1>1, <1>2, <1>3, <1>4, ListingCases

-----------------------------------------------------------------------------
\* The walk by cursor.

\* Who is an exception stays one.
LEMMA SkippedStays ==
    ASSUME Listing!ConstantsAssumption, Listing!TypeOK,
           NEW x \in Listing!Created, Listing!Skipped(x),
           shrunk => shrunk', lasts \subseteq lasts',
           \A y \in Listing!Created : time'[y] = time[y]
    PROVE  Listing!Skipped(x)'
<1>1. \A l \in lasts : l \in Listing!Created
  BY Dated
<1>2. \A l \in lasts : Listing!Before("createdAt", l, x) =>
          (Listing!Before("createdAt", l, x))'
  BY <1>1 DEF Listing!Before, Listing!Sorted
<1>3. \A l \in lasts : Listing!Truncated(time[l]) = Listing!Truncated(time[x])
          => Listing!Truncated(time'[l]) = Listing!Truncated(time'[x])
  BY <1>1
<1> QED
  BY <1>2, <1>3 DEF Listing!Skipped

LEMMA CursorStep ==
    ASSUME Listing!ConstantsAssumption, Listing!TypeOK, Listing!WalkInv, Listing!CursorInv,
           [Listing!Next]_(Listing!vars)
    PROVE  Listing!CursorInv'
<1> USE DEF Listing!Doing
<1>d. /\ \A x \in Listing!Created : x \in Nat /\ time[x] \in Nat
      /\ listed \subseteq Listing!Created /\ seen \subseteq Listing!Created
      /\ steady \subseteq listed /\ lasts \subseteq seen /\ repeated \subseteq seen
      /\ \A S \in SUBSET listed : IsFiniteSet(S) /\ Cardinality(S) \in Nat
  BY Dated
<1>1. CASE ProductsStep
  <2>1. Elsewhere
    BY <1>1, ProductsChange DEF ProductsStep
  <2> SUFFICES ASSUME walk # Idle, Listing!ByCursor PROVE Listing!CursorInv'
    BY <2>1 DEF Elsewhere, Listing!CursorInv, Listing!ByCursor
  <2>2. \A x \in Listing!Created : Listing!Skipped(x) => Listing!Skipped(x)'
    BY <2>1, SkippedStays DEF Elsewhere
  <2>3. \A x \in Listing!Created : Listing!Behind(x)' <=> Listing!Behind(x)
    BY <2>1 DEF Elsewhere, Listing!Behind
  <2>4. \A x, y \in Listing!Created :
            Listing!Before("createdAt", x, y)' <=> Listing!Before("createdAt", x, y)
    BY <2>1 DEF Elsewhere, Listing!Before, Listing!Sorted
  <2>5. steady' \subseteq Listing!Created /\ (walk.op = "load" => walk.ids \subseteq Listing!Created)
    BY <1>d, <2>1 DEF Elsewhere, Listing!WalkInv
  <2>6. /\ repeated = {}
        /\ walk.op = "page" =>
              /\ \A x \in seen : ~Listing!Behind(x)
              /\ \A x \in steady \ seen : Listing!Behind(x) \/ Listing!Skipped(x)
        /\ walk.op = "load" =>
              /\ \A x \in seen : ~Listing!Behind(x)
              /\ \A x \in walk.ids : Listing!Behind(x)
              /\ Cardinality(walk.ids) <= PageSize
              /\ \A x \in steady \ seen :
                    \/ x \in walk.ids \/ Listing!Skipped(x)
                    \/ Cardinality(walk.ids) = PageSize
                       /\ \A y \in walk.ids : ~Listing!Before("createdAt", x, y)
        /\ walk.op = "done" => \A x \in steady \ seen : Listing!Skipped(x)
    BY ListingSize DEF Listing!CursorInv
  <2>7. walk' = walk /\ seen' = seen /\ repeated' = repeated /\ steady' \subseteq steady
    BY <2>1 DEF Elsewhere
  <2> QED
    BY <1>d, <2>2, <2>3, <2>4, <2>5, <2>6, <2>7, ListingSize DEF Listing!CursorInv
<1>2. ASSUME NEW sort \in Listing!Sorts, NEW by \in Listing!Ways, Listing!Start(sort, by)
      PROVE  Listing!CursorInv'
  <2>1. /\ walk = Idle /\ walk'.op = "page" /\ walk'.cursor = None
        /\ UNCHANGED <<seen, repeated>>
    BY <1>2, StartEffects
  <2>2. seen = {} /\ repeated = {}
    BY <1>d, <2>1 DEF Listing!WalkInv
  <2> QED
    BY <2>1, <2>2 DEF Listing!CursorInv, Listing!Behind
<1>3. CASE Listing!Select
  <2>1. /\ walk # Idle /\ walk.op = "page" /\ walk \in Listing!Walk
        /\ walk' # Idle /\ walk'.op = "load"
        /\ walk'.sort = walk.sort /\ walk'.by = walk.by /\ walk'.cursor = walk.cursor
        /\ UNCHANGED <<time, listed, clock, seen, repeated, steady, shifted, shrunk, lasts>>
    BY <1>3, SelectEffects
  <2> SUFFICES ASSUME Listing!ByCursor PROVE Listing!CursorInv'
    BY <2>1 DEF Listing!CursorInv, Listing!ByCursor
  <2>2. PICK skipped \in SUBSET Listing!Candidates : Cut(skipped, walk'.ids)
    BY <1>3, SelectEffects
  <2>3. walk.by = "cursor" /\ Listing!Order = "createdAt" /\ Listing!Skip = 0
    BY DEF Listing!ByCursor, Listing!Order, Listing!Skip
  <2>4. skipped = {}
    <3>1. IsFiniteSet(skipped) /\ Cardinality(skipped) \in Nat /\ Cardinality(skipped) <= 0
      BY <2>2, <2>3 DEF Cut
    <3>2. Cardinality(skipped) = 0
      BY <3>1
    <3> QED
      BY <3>1, <3>2, FS_EmptySet
  <2>5. \A x \in listed : x \in Listing!Candidates <=> Listing!Behind(x)
    BY DEF Listing!Candidates, Listing!After, Listing!Behind
  <2>6. Listing!Candidates \subseteq listed
    BY DEF Listing!Candidates, Listing!After
  <2>7. /\ walk'.ids \subseteq Listing!Candidates
        /\ Cardinality(walk'.ids) <= PageSize
        /\ walk'.ids # Listing!Candidates => Cardinality(walk'.ids) = PageSize
        /\ \A x \in walk'.ids, y \in Listing!Candidates \ walk'.ids :
              ~Listing!Before("createdAt", y, x)
    BY <2>2, <2>3, <2>4 DEF Cut
  <2>8. \A x : /\ Listing!Behind(x)' <=> Listing!Behind(x)
               /\ Listing!Skipped(x)' <=> Listing!Skipped(x)
    BY <2>1 DEF Listing!Behind, Listing!Skipped, Listing!Before, Listing!Sorted
  <2>9. /\ repeated = {}
        /\ \A x \in seen : ~Listing!Behind(x)
        /\ \A x \in steady \ seen : Listing!Behind(x) \/ Listing!Skipped(x)
    BY <2>1 DEF Listing!CursorInv
  <2>10. \A x \in walk'.ids : Listing!Behind(x)
    BY <2>5, <2>6, <2>7
  <2>11. ASSUME NEW x \in steady \ seen, ~Listing!Skipped(x), x \notin walk'.ids
         PROVE  /\ Cardinality(walk'.ids) = PageSize
                /\ \A y \in walk'.ids : ~Listing!Before("createdAt", x, y)
    <3>1. x \in Listing!Candidates
      BY <1>d, <2>5, <2>9, <2>11
    <3> QED
      BY <2>7, <2>11, <3>1
  <2>12. \A x, y : Listing!Before("createdAt", x, y)' <=> Listing!Before("createdAt", x, y)
    BY <2>1 DEF Listing!Before, Listing!Sorted
  <2> QED
    BY <2>1, <2>7, <2>8, <2>9, <2>10, <2>11, <2>12, ListingSize DEF Listing!CursorInv
<1>4. CASE Listing!Load
  <2> DEFINE page == walk.ids \cap listed
  <2>1. /\ walk # Idle /\ walk.op = "load" /\ walk \in Listing!Walk /\ walk' # Idle
        /\ walk'.sort = walk.sort /\ walk'.by = walk.by
        /\ seen' = seen \cup page /\ repeated' = repeated \cup (page \cap seen)
        /\ shrunk' = (shrunk \/ page # walk.ids)
        /\ UNCHANGED <<time, listed, clock, steady, shifted>>
    BY <1>4, LoadEffects
  <2> SUFFICES ASSUME Listing!ByCursor PROVE Listing!CursorInv'
    BY <2>1 DEF Listing!CursorInv, Listing!ByCursor
  <2>2. walk.by = "cursor" /\ Listing!Order = "createdAt"
    BY DEF Listing!ByCursor, Listing!Order
  <2>3. /\ repeated = {}
        /\ \A x \in seen : ~Listing!Behind(x)
        /\ \A x \in walk.ids : Listing!Behind(x)
        /\ Cardinality(walk.ids) <= PageSize
        /\ \A x \in steady \ seen :
              \/ x \in walk.ids \/ Listing!Skipped(x)
              \/ Cardinality(walk.ids) = PageSize
                 /\ \A y \in walk.ids : ~Listing!Before("createdAt", x, y)
    BY <2>1, ListingSize DEF Listing!CursorInv
  <2>4. repeated' = {}
    BY <2>1, <2>3
  <2>5. walk.ids \subseteq Listing!Created /\ steady \subseteq Listing!Created
    BY <1>d, <2>1 DEF Listing!WalkInv
  <2>6. \A x \in steady : (Listing!Skipped(x) \/ page # walk.ids) => Listing!Skipped(x)'
    <3>1. lasts \subseteq lasts' /\ (shrunk => shrunk') /\ (page # walk.ids => shrunk')
      BY <1>4, <2>1, LoadEffects
    <3>2. \A x \in steady : Listing!Skipped(x) => Listing!Skipped(x)'
      BY <2>1, <2>5, <3>1, SkippedStays
    <3> QED
      BY <3>1, <3>2 DEF Listing!Skipped
  <2>7. CASE /\ Cardinality(page) = PageSize /\ walk'.op = "page"
             /\ \E last \in page :
                   /\ \A x \in page : ~Listing!Sorted(Listing!Order, last, x)
                   /\ lasts' = lasts \cup {last}
                   /\ walk'.cursor = Listing!Cursor(last) /\ walk'.cursor # None
                   /\ walk'.cursor.time = Listing!Truncated(time[last])
                   /\ walk'.cursor.id = last
    <3>1. PICK last \in page :
                   /\ \A x \in page : ~Listing!Sorted("createdAt", last, x)
                   /\ lasts' = lasts \cup {last}
                   /\ walk'.cursor # None
                   /\ walk'.cursor.time = Listing!Truncated(time[last])
                   /\ walk'.cursor.id = last
      BY <2>2, <2>7
    <3>2. /\ last \in Nat /\ time[last] \in Nat
          /\ Listing!Truncated(time[last]) \in Nat
          /\ Listing!Truncated(time[last]) <= time[last]
          /\ \A t \in Nat : Listing!Truncated(time[last]) <= t /\ t <= time[last]
                => Listing!Truncated(time[last]) = Listing!Truncated(t)
      BY <1>d, TruncatedIs
    <3>3. \A x : Listing!Behind(x)' <=>
                    \/ time[x] < Listing!Truncated(time[last])
                    \/ time[x] = Listing!Truncated(time[last]) /\ x < last
      BY <2>1, <3>1 DEF Listing!Behind
    <3>4. page = walk.ids
      <4>1. IsFiniteSet(walk.ids) => page = walk.ids
        <5>1. page \in SUBSET walk.ids /\ Cardinality(page) \in Nat
          BY <1>d
        <5>2. ASSUME IsFiniteSet(walk.ids) PROVE page = walk.ids
          <6>1. Cardinality(walk.ids) \in Nat /\ Cardinality(page) <= Cardinality(walk.ids)
                /\ (Cardinality(walk.ids) = Cardinality(page) => walk.ids = page)
            BY <5>1, <5>2, FS_Subset, FS_CardinalityType
          <6>2. PageSize \in Nat
            BY DEF Listing!ConstantsAssumption
          <6> QED
            BY <2>3, <2>7, <5>1, <6>1, <6>2
        <5> QED
          BY <5>2
      <4>2. walk.ids \in SUBSET Ids /\ IsFiniteSet(Ids)
        BY <2>1, WalkCarried, ListingSize DEF Listing!ConstantsAssumption
      <4> QED
        BY <4>1, <4>2, FS_Subset
    <3>5. \A x \in page : ~Listing!Behind(x)'
      <4> SUFFICES ASSUME NEW x \in page PROVE ~Listing!Behind(x)'
        OBVIOUS
      <4>1. x \in Nat /\ time[x] \in Nat
        BY <1>d
      <4>2. ~(time[last] > time[x] \/ (time[last] = time[x] /\ last > x))
        BY <3>1 DEF Listing!Before, Listing!Sorted
      <4> QED
        BY <3>2, <3>3, <4>1, <4>2
    <3>6. \A x \in seen : ~Listing!Behind(x)'
      <4> SUFFICES ASSUME NEW x \in seen PROVE ~Listing!Behind(x)'
        OBVIOUS
      <4>1. x \in Nat /\ time[x] \in Nat
        BY <1>d
      <4>2. ~Listing!Behind(x) /\ Listing!Behind(last)
        BY <2>3, <3>1
      <4>3. walk.cursor \in [time : Nat, id : Ids]
        BY <2>1, <4>2, WalkCarried DEF Listing!Behind, Listing!Cursors
      <4>4. walk.cursor.time \in Nat /\ walk.cursor.id \in Nat
        BY <4>3 DEF Listing!ConstantsAssumption
      <4>5. /\ ~(time[x] < walk.cursor.time)
            /\ ~(time[x] = walk.cursor.time /\ x < walk.cursor.id)
            /\ \/ time[last] < walk.cursor.time
               \/ time[last] = walk.cursor.time /\ last < walk.cursor.id
        BY <4>2 DEF Listing!Behind
      <4>6. time[x] >= time[last] /\ (time[x] = time[last] => last <= x)
        BY <3>2, <4>1, <4>4, <4>5
      <4> QED
        BY <3>2, <3>3, <4>1, <4>6
    <3>7. ASSUME NEW x \in steady \ seen', ~Listing!Skipped(x)'
          PROVE  Listing!Behind(x)'
      <4>1. x \in steady \ seen /\ x \notin walk.ids /\ ~Listing!Skipped(x)
        BY <2>1, <2>6, <3>4, <3>7
      <4>2. ~Listing!Before("createdAt", x, last) /\ x # last
        BY <2>3, <3>1, <4>1
      <4>3. x \in Nat /\ time[x] \in Nat
        BY <1>d, <2>5
      <4>4. time[last] > time[x] \/ (time[last] = time[x] /\ last > x)
        BY <3>2, <4>2, <4>3 DEF Listing!Before, Listing!Sorted
      <4>5. Listing!Truncated(time[last]) # Listing!Truncated(time[x])
        BY <2>1, <3>1, <3>7, <4>4 DEF Listing!Skipped, Listing!Before, Listing!Sorted
      <4> QED
        BY <3>2, <3>3, <4>3, <4>4, <4>5
    <3> QED
      BY <2>1, <2>4, <2>7, <3>5, <3>6, <3>7 DEF Listing!CursorInv
  <2>8. CASE Cardinality(page) # PageSize /\ walk'.op = "done"
    <3>1. ASSUME NEW x \in steady \ seen' PROVE Listing!Skipped(x)'
      <4>1. x \in steady \ seen /\ x \notin page
        BY <2>1
      <4>2. page # walk.ids \/ Listing!Skipped(x)
        BY <2>3, <2>8, <4>1
      <4> QED
        BY <2>6, <4>1, <4>2
    <3> QED
      BY <2>1, <2>4, <2>8, <3>1 DEF Listing!CursorInv
  <2> QED
    BY <1>4, <2>2, <2>7, <2>8, LoadEffects
<1> QED
  BY <1>1, <1>2, <1>3, <1>4, ListingCases

-----------------------------------------------------------------------------
\* The walk by offset.

\* Of two products one comes before the other.
LEMMA Comparable ==
    ASSUME Listing!ConstantsAssumption, Listing!TypeOK, walk \in Listing!Walk,
           NEW x \in Listing!Created
    PROVE  /\ ~Listing!Before(walk.sort, x, x)
           /\ \A y \in Listing!Created \ {x} :
                 Listing!Before(walk.sort, x, y) <=> ~Listing!Before(walk.sort, y, x)
<1>1. \A y \in Listing!Created : y \in Ids /\ y \in Nat /\ time[y] \in Nat /\ Price[y] \in Nat
  BY Dated DEF Listing!ConstantsAssumption
<1>2. CASE walk.sort = "price"
  BY <1>1, <1>2 DEF Listing!Before, Listing!Sorted
<1>3. CASE walk.sort = "createdAt"
  BY <1>1, <1>3 DEF Listing!Before, Listing!Sorted
<1> QED
  BY <1>2, <1>3, WalkCarried DEF Listing!Sorts

\* The page that is cut at an offset holds the products of the ranks from there on.
LEMMA PageByRank ==
    ASSUME Listing!ConstantsAssumption, Listing!TypeOK, Listing!WalkInv, Listing!Select,
           walk.by = "offset", NEW x \in listed
    PROVE  /\ Listing!Rank(x) \in Nat
           /\ x \in walk'.ids =>
                 /\ Listing!Rank(x) >= walk.page * PageSize
                 /\ Listing!Rank(x) < walk.page * PageSize + PageSize
           /\ x \notin walk'.ids =>
                 \/ Listing!Rank(x) < walk.page * PageSize
                 \/ /\ Cardinality(walk'.ids) = PageSize
                    /\ Listing!Rank(x) >= walk.page * PageSize + PageSize
<1> DEFINE page == walk'.ids
           front == {y \in listed : Listing!Before(walk.sort, y, x)}
           p == walk.page * PageSize
<1>1. /\ walk \in Listing!Walk /\ walk.page \in Nat
      /\ walk.cursor = None
  BY SelectEffects, WalkCarried DEF Listing!WalkInv, Listing!Underway, Listing!Doing
<1>2. Listing!Candidates = listed /\ Listing!Order = walk.sort /\ Listing!Skip = p
  BY <1>1 DEF Listing!Candidates, Listing!Order, Listing!Skip
<1>3. PICK skipped \in SUBSET Listing!Candidates : Cut(skipped, page)
  BY SelectEffects
<1>4. p \in Nat /\ PageSize \in Nat
  BY <1>1 DEF Listing!ConstantsAssumption
<1>5. /\ Listing!Rank(x) = Cardinality(front) /\ IsFiniteSet(front) /\ Cardinality(front) \in Nat
      /\ front \subseteq listed
  BY Dated, ListingSize DEF Listing!Rank
<1>6. /\ x \notin front
      /\ \A y \in listed \ {x} : y \in front <=> ~Listing!Before(walk.sort, x, y)
  BY <1>1, Comparable, Dated
<1>7. /\ skipped \subseteq listed /\ page \subseteq listed \ skipped
      /\ IsFiniteSet(skipped) /\ IsFiniteSet(page)
      /\ Cardinality(skipped) \in Nat /\ Cardinality(page) \in Nat
      /\ Cardinality(skipped) <= p /\ Cardinality(page) <= PageSize
      /\ skipped # listed => Cardinality(skipped) = p
      /\ page # listed \ skipped => Cardinality(page) = PageSize
      /\ \A y \in skipped, z \in listed \ skipped : ~Listing!Before(walk.sort, z, y)
      /\ \A y \in page, z \in listed \ (skipped \cup page) : ~Listing!Before(walk.sort, z, y)
  BY <1>2, <1>3 DEF Cut
<1>8. /\ IsFiniteSet(skipped \cup page)
      /\ Cardinality(skipped \cup page) = Cardinality(skipped) + Cardinality(page)
  <2> HIDE DEF page, front, p
  <2>1. skipped \cap page = {} /\ Cardinality({}) = 0
    BY <1>7, FS_EmptySet
  <2>2. /\ IsFiniteSet(skipped \cup page)
        /\ Cardinality(skipped \cup page)
              = Cardinality(skipped) + Cardinality(page) - Cardinality(skipped \cap page)
    BY <1>7, FS_Union
  <2>3. Cardinality(skipped \cap page) = 0
    BY <2>1
  <2>4. Cardinality(skipped) \in Nat /\ Cardinality(page) \in Nat
    BY <1>7
  <2>5. Cardinality(skipped \cup page) = Cardinality(skipped) + Cardinality(page)
    BY <2>2, <2>3, <2>4
  <2> QED
    BY <2>2, <2>5
<1> HIDE DEF page, front, p
<1>9. CASE x \in skipped
  <2>1. front \subseteq skipped \ {x}
    BY <1>5, <1>6, <1>7, <1>9 DEF front
  <2>2. IsFiniteSet(skipped \ {x}) /\ Cardinality(skipped \ {x}) = Cardinality(skipped) - 1
    BY <1>7, <1>9, FS_RemoveElement
  <2>3. Cardinality(front) <= Cardinality(skipped \ {x})
    BY <2>1, <2>2, FS_Subset
  <2>4. Listing!Rank(x) < p /\ x \notin page
    BY <1>4, <1>5, <1>7, <1>9, <2>2, <2>3
  <2> QED
    BY <1>5, <2>4 DEF page, p
<1>10. CASE x \in page
  <2>1. Cardinality(skipped) = p /\ x \notin skipped
    BY <1>7, <1>10
  <2>2. skipped \subseteq front
    BY <1>5, <1>6, <1>7, <2>1
  <2>3. front \subseteq (skipped \cup page) \ {x}
    BY <1>5, <1>6, <1>7, <1>10 DEF front
  <2>4. /\ IsFiniteSet((skipped \cup page) \ {x})
        /\ Cardinality((skipped \cup page) \ {x}) = Cardinality(skipped \cup page) - 1
    BY <1>8, <1>10, FS_RemoveElement
  <2>5. /\ Cardinality(skipped) <= Cardinality(front)
        /\ Cardinality(front) <= Cardinality((skipped \cup page) \ {x})
    BY <1>5, <2>2, <2>3, <2>4, FS_Subset
  <2>6. Listing!Rank(x) >= p /\ Listing!Rank(x) < p + PageSize
    BY <1>4, <1>5, <1>7, <1>8, <2>1, <2>4, <2>5
  <2> QED
    BY <1>5, <1>10, <2>6 DEF page, p
<1>11. CASE x \notin skipped \cup page
  <2>1. Cardinality(skipped) = p /\ Cardinality(page) = PageSize
    BY <1>7, <1>11
  <2>2. skipped \cup page \subseteq front
    BY <1>6, <1>7, <1>11
  <2>3. Cardinality(skipped \cup page) <= Cardinality(front)
    BY <1>5, <2>2, FS_Subset
  <2>4. Listing!Rank(x) >= p + PageSize
    BY <1>4, <1>5, <1>8, <2>1, <2>3
  <2> QED
    BY <1>5, <1>11, <2>1, <2>4 DEF page, p
<1> QED
  BY <1>9, <1>10, <1>11

LEMMA OffsetStep ==
    ASSUME Listing!ConstantsAssumption, Listing!TypeOK, Listing!WalkInv, Listing!OffsetInv,
           [Listing!Next]_(Listing!vars)
    PROVE  Listing!OffsetInv'
<1> USE DEF Listing!Doing
<1>d. /\ listed \subseteq Listing!Created /\ seen \subseteq Listing!Created
      /\ steady \subseteq listed /\ repeated \subseteq seen
      /\ \A S \in SUBSET listed : IsFiniteSet(S) /\ Cardinality(S) \in Nat
  BY Dated
<1>n. PageSize \in Nat /\ \A x : Listing!Rank(x) \in Nat
  <2>1. \A x : {y \in listed : Listing!Before(walk.sort, y, x)} \in SUBSET listed
    OBVIOUS
  <2> QED
    BY <1>d, <2>1, ListingSize DEF Listing!Rank, Listing!ConstantsAssumption
<1>1. CASE ProductsStep
  <2>1. Elsewhere
    BY <1>1, ProductsChange DEF ProductsStep
  <2>2. walk' = walk /\ seen' = seen /\ repeated' = repeated /\ steady' \subseteq steady
    BY <2>1 DEF Elsewhere
  <2> SUFFICES ASSUME walk # Idle, Listing!ByOffset, ~shifted' PROVE Listing!OffsetInv'
    BY <2>2 DEF Listing!OffsetInv, Listing!ByOffset
  <2>3. ~shifted /\ (walk.op \in {"page", "load"} => listed' = listed)
    BY <2>1 DEF Elsewhere, Listing!Underway
  <2>5. ASSUME NEW x \in Listing!Created, listed' = listed PROVE Listing!Rank(x)' = Listing!Rank(x)
    <3>1. \A y \in listed : Listing!Before(walk.sort, y, x)' <=> Listing!Before(walk.sort, y, x)
      BY <1>d, <2>1, <2>5 DEF Elsewhere, Listing!Before, Listing!Sorted
    <3>2. {y \in listed' : Listing!Before(walk.sort, y, x)'}
             = {y \in listed : Listing!Before(walk.sort, y, x)}
      BY <2>5, <3>1
    <3> QED
      BY <2>2, <3>2 DEF Listing!Rank
  <2>6. steady' \subseteq Listing!Created /\ (walk.op = "load" => walk.ids \subseteq Listing!Created)
    BY <1>d, <2>2 DEF Listing!WalkInv
  <2>7. repeated' = {}
    BY <2>2, <2>3 DEF Listing!OffsetInv
  <2>8. CASE walk.op = "page"
    BY <1>d, <2>2, <2>3, <2>5, <2>6, <2>7, <2>8 DEF Listing!OffsetInv
  <2>9. CASE walk.op = "load"
    BY <1>d, <2>2, <2>3, <2>5, <2>6, <2>7, <2>9 DEF Listing!OffsetInv
  <2>10. CASE walk.op \notin {"page", "load"}
    BY <2>2, <2>3, <2>7, <2>10 DEF Listing!OffsetInv
  <2> QED
    BY <2>8, <2>9, <2>10
<1>2. ASSUME NEW sort \in Listing!Sorts, NEW by \in Listing!Ways, Listing!Start(sort, by)
      PROVE  Listing!OffsetInv'
  <2>1. /\ walk = Idle /\ walk'.op = "page" /\ walk'.page = 0 /\ walk'.sort = sort
        /\ UNCHANGED <<time, listed, seen, repeated>>
    BY <1>2, StartEffects
  <2>2. seen = {} /\ repeated = {}
    BY <1>d, <2>1 DEF Listing!WalkInv
  <2>3. \A x : Listing!Rank(x)' \in Nat
    <3>1. \A x : {y \in listed : Listing!Before(walk.sort, y, x)}' \in SUBSET listed'
      OBVIOUS
    <3> QED
      BY <1>d, <2>1, <3>1, ListingSize DEF Listing!Rank
  <2>4. 0 * PageSize = 0
    BY <1>n
  <2> QED
    BY <2>1, <2>2, <2>3, <2>4 DEF Listing!OffsetInv
<1>3. CASE Listing!Select
  <2>1. /\ walk # Idle /\ walk.op = "page" /\ walk \in Listing!Walk
        /\ walk' # Idle /\ walk'.op = "load"
        /\ walk'.sort = walk.sort /\ walk'.by = walk.by /\ walk'.page = walk.page
        /\ walk'.ids \subseteq Listing!Candidates
        /\ UNCHANGED <<time, listed, clock, seen, repeated, steady, shifted, shrunk, lasts>>
    BY <1>3, SelectEffects
  <2> SUFFICES ASSUME Listing!ByOffset, ~shifted PROVE Listing!OffsetInv'
    BY <2>1 DEF Listing!OffsetInv, Listing!ByOffset
  <2>2. walk.page \in Nat /\ walk.by = "offset"
    BY <2>1, WalkCarried DEF Listing!ByOffset
  <2>3. \A x : Listing!Rank(x)' = Listing!Rank(x)
    BY <2>1 DEF Listing!Rank, Listing!Before, Listing!Sorted
  <2>4. walk'.ids \subseteq listed /\ Cardinality(walk'.ids) <= PageSize
    BY <1>3, <2>1, SelectEffects DEF Cut, Listing!Candidates, Listing!After
  <2>5. /\ seen \subseteq listed /\ repeated = {}
        /\ \A x \in seen : Listing!Rank(x) < walk.page * PageSize
        /\ \A x \in steady \ seen : Listing!Rank(x) >= walk.page * PageSize
    BY <2>1 DEF Listing!OffsetInv
  <2>6. walk.page * PageSize \in Nat
        /\ (walk.page + 1) * PageSize = walk.page * PageSize + PageSize
    BY <1>n, <2>2
  <2>7. \A x \in walk'.ids :
           /\ Listing!Rank(x) >= walk.page * PageSize
           /\ Listing!Rank(x) < (walk.page + 1) * PageSize
    BY <1>3, <2>2, <2>4, <2>6, PageByRank
  <2>8. \A x \in steady \ seen :
           \/ x \in walk'.ids
           \/ Cardinality(walk'.ids) = PageSize
              /\ Listing!Rank(x) >= (walk.page + 1) * PageSize
    <3> SUFFICES ASSUME NEW x \in steady \ seen, x \notin walk'.ids
                 PROVE  Cardinality(walk'.ids) = PageSize
                        /\ Listing!Rank(x) >= (walk.page + 1) * PageSize
      OBVIOUS
    <3>1. x \in listed
      BY <1>d
    <3>2. Listing!Rank(x) >= walk.page * PageSize
      BY <2>5
    <3>3. \/ Listing!Rank(x) < walk.page * PageSize
          \/ /\ Cardinality(walk'.ids) = PageSize
             /\ Listing!Rank(x) >= walk.page * PageSize + PageSize
      BY <1>3, <2>2, <3>1, PageByRank
    <3> QED
      BY <1>n, <2>6, <3>2, <3>3
  <2> QED
    BY <2>1, <2>3, <2>4, <2>5, <2>7, <2>8, ListingSize DEF Listing!OffsetInv
<1>4. CASE Listing!Load
  <2>1. /\ walk # Idle /\ walk.op = "load" /\ walk \in Listing!Walk /\ walk' # Idle
        /\ walk'.sort = walk.sort /\ walk'.by = walk.by
        /\ seen' = seen \cup (walk.ids \cap listed)
        /\ repeated' = repeated \cup ((walk.ids \cap listed) \cap seen)
        /\ UNCHANGED <<time, listed, clock, steady, shifted>>
        /\ \/ /\ Cardinality(walk.ids \cap listed) = PageSize
              /\ walk'.op = "page" /\ walk'.page = walk.page + 1
           \/ /\ Cardinality(walk.ids \cap listed) # PageSize
              /\ walk'.op = "done"
    BY <1>4, LoadEffects
  <2> SUFFICES ASSUME Listing!ByOffset, ~shifted PROVE Listing!OffsetInv'
    BY <2>1 DEF Listing!OffsetInv, Listing!ByOffset
  <2>2. walk.page \in Nat
    BY <2>1, WalkCarried
  <2>3. \A x : Listing!Rank(x)' = Listing!Rank(x)
    BY <2>1 DEF Listing!Rank, Listing!Before, Listing!Sorted
  <2>4. /\ repeated = {}
        /\ seen \subseteq listed /\ walk.ids \subseteq listed
        /\ \A x \in seen : Listing!Rank(x) < walk.page * PageSize
        /\ \A x \in walk.ids :
              /\ Listing!Rank(x) >= walk.page * PageSize
              /\ Listing!Rank(x) < (walk.page + 1) * PageSize
        /\ \A x \in steady \ seen :
              \/ x \in walk.ids
              \/ Cardinality(walk.ids) = PageSize
                 /\ Listing!Rank(x) >= (walk.page + 1) * PageSize
    BY <2>1, ListingSize DEF Listing!OffsetInv
  <2>5. walk.ids \cap listed = walk.ids
    BY <2>4
  <2>6. walk.page * PageSize \in Nat
        /\ (walk.page + 1) * PageSize = walk.page * PageSize + PageSize
    BY <1>n, <2>2
  <2>7. repeated' = {}
    BY <1>n, <2>1, <2>4, <2>6
  <2>8. \A x \in seen' : Listing!Rank(x) < (walk.page + 1) * PageSize
    <3>1. \A x \in seen : Listing!Rank(x) < (walk.page + 1) * PageSize
      BY <1>n, <2>4, <2>6
    <3> QED
      BY <2>1, <2>4, <3>1
  <2>9. CASE Cardinality(walk.ids) = PageSize /\ walk'.op = "page" /\ walk'.page = walk.page + 1
    <3>1. \A x \in steady \ seen' :
              Listing!Rank(x) >= (walk.page + 1) * PageSize
      BY <2>1, <2>4, <2>5
    <3> QED
      BY <2>1, <2>3, <2>4, <2>7, <2>8, <2>9, <3>1 DEF Listing!OffsetInv
  <2>10. CASE Cardinality(walk.ids) # PageSize /\ walk'.op = "done"
    <3>1. steady \subseteq seen'
      BY <2>1, <2>4, <2>5, <2>10
    <3> QED
      BY <2>1, <2>3, <2>7, <2>10, <3>1 DEF Listing!OffsetInv
  <2> QED
    BY <2>1, <2>5, <2>9, <2>10
<1> QED
  BY <1>1, <1>2, <1>3, <1>4, ListingCases

-----------------------------------------------------------------------------
\* The inductive invariant of the listing holds in every reachable state.
THEOREM ListingInvariance ==
    ASSUME Listing!ConstantsAssumption PROVE Listing!Spec => []Listing!ListingInv
<1>1. Listing!Init => Listing!ListingInv
  BY Listing!ConstantsAssumption, ListingStart
<1>2. Listing!ListingInv /\ [Listing!Next]_(Listing!vars) => Listing!ListingInv'
  BY Listing!ConstantsAssumption, ListingTypes, CursorStep, OffsetStep DEF Listing!ListingInv
<1> QED
  BY <1>1, <1>2, PTL DEF Listing!Spec

\* Likewise for the listing.
LEMMA PartsListing == PartsSpec => Listing!Spec
<1>1. PartsInit => Listing!Init
  BY DEF PartsInit
<1>2. [PartsNext]_partsVars => [Listing!Next]_(Listing!vars)
  BY DEF PartsNext, ProductNext, ListingNext, ImagesNext, TreeNext, partsVars, listVars,
         Listing!vars, Listing!history
<1> QED
  BY <1>1, <1>2, PTL DEF PartsSpec, Listing!Spec

\* Whatever is created, approved and withdrawn between the pages, a walk by
\* cursor shows no product twice, and a walk by offset only does if the listing
\* has changed.
THEOREM ShownOnce == PartsSpec => []ListedOnce
<1>1. Listing!ListingInv => ListedOnce
  BY DEF Listing!ListingInv, Listing!CursorInv, Listing!OffsetInv, ListedOnce, Listing!ListedOnce
<1>2. Listing!Spec => []Listing!ListingInv
  BY PartsAssumption, ListingInvariance
<1> QED
  BY <1>1, <1>2, PartsListing, PTL

\* A walk that has come to its end has shown everything that was listed
\* throughout, but for the exceptions that are named.
THEOREM ShownAll == PartsSpec => []EveryoneIsListed
<1>1. Listing!ListingInv => EveryoneIsListed
  <2> SUFFICES ASSUME Listing!TypeOK, Listing!CursorInv, Listing!OffsetInv,
                      Listing!Doing("done"), NEW x \in steady \ seen
               PROVE  \/ Listing!ByCursor /\ Listing!Skipped(x)
                      \/ Listing!ByOffset /\ shifted
                      \/ walk.by = "cursor" /\ walk.sort = "price"
    BY DEF Listing!ListingInv, EveryoneIsListed, Listing!EveryoneIsListed, Listing!Skipped
  <2>1. walk # Idle /\ walk \in Listing!Walk
    BY DEF Listing!Doing, Listing!TypeOK
  <2>2. walk.by \in {"cursor", "offset"} /\ walk.sort \in {"createdAt", "price"}
    BY <2>1, WalkCarried DEF Listing!Ways, Listing!Sorts
  <2> QED
    BY <2>1, <2>2 DEF Listing!CursorInv, Listing!OffsetInv, Listing!ByCursor, Listing!ByOffset
<1>2. Listing!Spec => []Listing!ListingInv
  BY PartsAssumption, ListingInvariance
<1> QED
  BY <1>1, <1>2, PartsListing, PTL
=============================================================================
