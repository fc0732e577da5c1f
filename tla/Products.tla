------------------------------- MODULE Products -------------------------------
(***************************************************************************)
(* catalog-service: one product, its row and the rows of its pictures in   *)
(* PostgreSQL, and the copy of its page in Redis.  A handler reads the     *)
(* entity, changes it in memory and saves it: save() reads the row again,  *)
(* and writes the columns in which it differs from the entity, whoever     *)
(* changed them; a row that has gone is inserted again.  The pictures read *)
(* with the entity are saved with it: those that have gone are inserted    *)
(* again, and those it does not know would lose their product, which the   *)
(* column forbids.  The cached copy is deleted after that.  The public     *)
(* page fills the cache with what it has read.                             *)
(*                                                                         *)
(* The contents of the row are numbered versions; the two rows of an       *)
(* upload are one picture, and ProductImages has their details.  The       *)
(* rejection reason and the events sent after a change, which no service   *)
(* reads, are left out.                                                    *)
(***************************************************************************)
EXTENDS Naturals

CONSTANTS
    Workers,
    MaxContents,  \* bound on the versions written
    MaxPictures,  \* bound on the pictures uploaded
    None, Idle

VARIABLES
    row,       \* None: no such row
    pictures,  \* the pictures of the product
    cache,     \* the page cached, or None
    work,
    contents, uploaded, \* number of versions written, of pictures uploaded so far
    approved,  \* history: versions an administrator wrote or has let through, ...
    passed,    \* ... and pictures he has let through
    late,      \* history: pictures added while the product was ACTIVE
    crossed,   \* history: the row was written between the two halves of a save()
    outdated,  \* history: fills that were read before a change of the page
    excused,   \* history: the copy is an outdated fill, or an invalidation was lost
    missed,    \* history: pictures added since the copy was stored
    gone,      \* history: the product has been deleted and not been saved since by
    holders    \* history: ... one of the requests that had read it before

reviews == <<approved, passed>>
copy == <<cache, excused, missed>>
trace == <<late, crossed, outdated, gone, holders>>
vars == <<row, pictures, work, contents, uploaded, reviews, copy, trace>>

Status == {"PENDING_REVIEW", "ACTIVE", "REJECTED", "SUSPENDED", "DELETED"}
Pictures == 1 .. MaxPictures
Row == [content : 1 .. MaxContents, status : Status, deleted : BOOLEAN]
Columns == {"content", "status", "deleted"}
Page == [content : 1 .. MaxContents, pictures : SUBSET Pictures]

\* loaded: the pictures read with the entity, None if they were not; seen: those
\* save() has found.
Loaded == {None} \cup SUBSET Pictures
Work ==
    [op : {"delete", "upload", "invalidate", "miss"}]
        \cup [op : {"save", "insert"}, entity : Row, loaded : Loaded]
        \cup [op : {"write"}, entity : Row, loaded : Loaded,
              diff : SUBSET Columns, seen : SUBSET Pictures]
        \cup [op : {"fill"}, page : Page]

ASSUME ConstantsAssumption ==
    /\ MaxContents \in Nat /\ MaxPictures \in Nat
    /\ None \notin Row \cup Page /\ \A s \in SUBSET Pictures : s # None
    /\ Idle \notin Work

Init ==
    /\ row = None /\ pictures = {}
    /\ work = [w \in Workers |-> Idle]
    /\ contents = 0 /\ uploaded = 0
    /\ approved = {} /\ passed = {}
    /\ cache = None /\ excused = FALSE /\ missed = {}
    /\ late = {} /\ crossed = FALSE /\ outdated = {} /\ gone = FALSE /\ holders = {}

Doing(w, op) == work[w] # Idle /\ work[w].op = op
Saving(w) == work[w] # Idle /\ work[w].op \in {"save", "write", "insert"}
Goto(w, step) == work' = [work EXCEPT ![w] = step]

\* What the public page shows.
Active == row # None /\ row.status = "ACTIVE"
Public == Active /\ ~row.deleted
View == IF Public THEN [content |-> row.content, pictures |-> pictures] ELSE None

-----------------------------------------------------------------------------
(* The requests *)

\* Wrong: soft-deleted rows are found as well.
FoundDeleted == row # None

\* find() skips rows with deletedAt.
Found == row # None /\ ~row.deleted

\* A vendor's product waits for review, an administrator chooses the status.
Create(status, byAdmin) ==
    /\ contents = 0 /\ MaxContents > 0
    /\ row' = [content |-> 1, status |-> status, deleted |-> FALSE]
    /\ contents' = 1
    /\ approved' = IF byAdmin THEN {1} ELSE {}
    /\ UNCHANGED <<pictures, work, uploaded, passed, copy, trace>>
CreateForVendor == Create("PENDING_REVIEW", FALSE)
CreateForAdmin(status) == Create(status, TRUE)

Start(w, step) ==
    /\ work[w] = Idle
    /\ Goto(w, step)
    /\ UNCHANGED <<row, pictures, uploaded, copy, trace>>

\* The entity is read, with its pictures or without, and changed in memory.
Begin(w, entity, loaded) == Start(w, [op |-> "save", entity |-> entity, loaded |-> loaded])

Edit(content) ==
    \/ content = row.content /\ UNCHANGED contents
    \/ content = contents + 1 /\ content <= MaxContents /\ contents' = content

\* Wrong: the status is left as it is.
UpdateKeepsStatus(w, content) ==
    /\ Found /\ Edit(content)
    /\ Begin(w, [row EXCEPT !.content = content], pictures)
    /\ UNCHANGED reviews

\* Any edit requires re-approval.
UpdateForVendor(w, content) ==
    /\ Found /\ Edit(content)
    /\ Begin(w, [row EXCEPT !.content = content, !.status = "PENDING_REVIEW"], pictures)
    /\ UNCHANGED reviews

SoftDeleteForVendor(w) ==
    /\ Found
    /\ Begin(w, [row EXCEPT !.status = "DELETED", !.deleted = TRUE], None)
    /\ UNCHANGED <<contents, reviews>>

\* An administrator lets through what he saw or wrote if he leaves it ACTIVE.
AdminSaves(w, entity) ==
    /\ Begin(w, entity, pictures)
    /\ IF entity.status = "ACTIVE"
       THEN approved' = approved \cup {entity.content} /\ passed' = passed \cup pictures
       ELSE UNCHANGED reviews

UpdateForAdmin(w, content, status) ==
    /\ Found /\ Edit(content)
    /\ AdminSaves(w, [row EXCEPT !.content = content, !.status = status])

Judge(w, status) ==
    /\ Found
    /\ AdminSaves(w, [row EXCEPT !.status = status])
    /\ UNCHANGED contents
ApproveProduct(w) == Judge(w, "ACTIVE")
RejectProduct(w) == Judge(w, "REJECTED")
SuspendProduct(w) == Judge(w, "SUSPENDED")

HardDelete(w) ==
    /\ Found
    /\ Start(w, [op |-> "delete"])
    /\ UNCHANGED <<contents, reviews>>

UploadProductImage(w) ==
    /\ Found
    /\ Start(w, [op |-> "upload"])
    /\ UNCHANGED <<contents, reviews>>

-----------------------------------------------------------------------------
(* What a request goes on to do *)

\* Every column that differs is to be written.
SaveCompare(w) ==
    /\ Doing(w, "save")
    /\ LET entity == work[w].entity
           loaded == work[w].loaded IN
         Goto(w, IF row = None THEN [op |-> "insert", entity |-> entity, loaded |-> loaded]
                 ELSE [op |-> "write", entity |-> entity, loaded |-> loaded,
                       diff |-> {c \in Columns : entity[c] # row[c]}, seen |-> pictures])
    /\ UNCHANGED <<row, pictures, contents, uploaded, reviews, copy, trace>>

Removed(r) == r = None \/ (r.deleted /\ r.status = "DELETED")

\* history: a fill underway is overtaken by a change of the page
Overtake ==
    outdated' = IF View' = View THEN outdated
                ELSE outdated \cup {v \in Workers : Doing(v, "fill")}

\* history: after a change of the row by worker w
Note(w) ==
    /\ Overtake
    /\ crossed' = (crossed \/ \E v \in Workers \ {w} : Doing(v, "write"))
    /\ late' = IF Active' THEN late ELSE {}
    /\ IF Removed(row')
       THEN IF gone THEN UNCHANGED <<gone, holders>>
            ELSE gone' = TRUE /\ holders' = {v \in Workers \ {w} : Saving(v)}
       ELSE gone' = (gone /\ w \notin holders) /\ holders' = IF gone' THEN holders ELSE {}

\* The row with the columns in diff taken from the entity.
Merged(entity, diff) ==
    [content |-> IF "content" \in diff THEN entity.content ELSE row.content,
     status |-> IF "status" \in diff THEN entity.status ELSE row.status,
     deleted |-> IF "deleted" \in diff THEN entity.deleted ELSE row.deleted]

\* The pictures a save inserts, and those it takes from their product.
Added(k) == IF k.loaded = None THEN {} ELSE k.loaded \ k.seen
Orphans(k) == IF k.loaded = None THEN {} ELSE k.seen \ k.loaded

\* productId is NOT NULL, and an id is inserted once; otherwise the save fails.
SaveWrite(w) ==
    /\ Doing(w, "write") /\ row # None
    /\ (Orphans(work[w]) \cup Added(work[w])) \cap pictures = {}
    /\ row' = Merged(work[w].entity, work[w].diff)
    /\ pictures' = pictures \cup Added(work[w])
    /\ Note(w)
    /\ Goto(w, [op |-> "invalidate"])
    /\ UNCHANGED <<contents, uploaded, reviews, copy>>

\* UPDATE of a row that has gone changes nothing; a picture needs its product.
SaveNothing(w) ==
    /\ Doing(w, "write") /\ row = None /\ Added(work[w]) = {}
    /\ Goto(w, [op |-> "invalidate"])
    /\ UNCHANGED <<row, pictures, contents, uploaded, reviews, copy, trace>>

\* The INSERT fails if another save has inserted the row in between.
SaveInsert(w) ==
    /\ Doing(w, "insert") /\ row = None
    /\ row' = work[w].entity
    /\ pictures' = IF work[w].loaded = None THEN {} ELSE work[w].loaded
    /\ Note(w)
    /\ Goto(w, [op |-> "invalidate"])
    /\ UNCHANGED <<contents, uploaded, reviews, copy>>

\* The pictures are deleted with the row.
Deleting(w) ==
    /\ Doing(w, "delete")
    /\ row' = None /\ pictures' = {}
    /\ Note(w)
    /\ UNCHANGED <<contents, uploaded, reviews, copy>>

\* Wrong: the product may be served from the cache until it expires.
DeleteOnly(w) == Deleting(w) /\ Goto(w, Idle)

Delete(w) == Deleting(w) /\ Goto(w, [op |-> "invalidate"])

InvalidateProduct(w) ==
    /\ Doing(w, "invalidate")
    /\ cache' = None /\ excused' = FALSE /\ missed' = {}
    /\ Goto(w, Idle)
    /\ UNCHANGED <<row, pictures, contents, uploaded, reviews, trace>>

\* Neither the status nor the cached copy is touched.
SavePicture(w) ==
    /\ Doing(w, "upload") /\ row # None /\ uploaded < MaxPictures
    /\ uploaded' = uploaded + 1
    /\ pictures' = pictures \cup {uploaded'}
    /\ UNCHANGED row
    /\ missed' = IF cache = None THEN missed ELSE missed \cup {uploaded'}
    /\ late' = IF Active \/ \E v \in Workers : Doing(v, "write")
               THEN late \cup {uploaded'} ELSE late
    /\ Overtake
    /\ Goto(w, Idle)
    /\ UNCHANGED <<contents, reviews, cache, excused, crossed, gone, holders>>

-----------------------------------------------------------------------------
(* The public page: a miss, a SELECT, and the copy is stored *)

FindOne(w) ==
    /\ cache = None
    /\ Start(w, [op |-> "miss"])
    /\ UNCHANGED <<contents, reviews>>

Select(w) ==
    /\ Doing(w, "miss")
    /\ Goto(w, IF Public THEN [op |-> "fill", page |-> View] ELSE Idle)
    /\ UNCHANGED <<row, pictures, contents, uploaded, reviews, copy, trace>>

SetProduct(w) ==
    /\ Doing(w, "fill")
    /\ cache' = work[w].page /\ missed' = {}
    /\ excused' = (w \in outdated)
    /\ outdated' = outdated \ {w}
    /\ Goto(w, Idle)
    /\ UNCHANGED <<row, pictures, contents, uploaded, reviews, late, crossed, gone, holders>>

Expire ==
    /\ cache # None
    /\ cache' = None /\ excused' = FALSE /\ missed' = {}
    /\ UNCHANGED <<row, pictures, work, contents, uploaded, reviews, trace>>

\* A command fails or the service dies.
Fail(w) ==
    /\ work[w] # Idle
    /\ Goto(w, Idle)
    /\ excused' = (excused \/ (Doing(w, "invalidate") /\ cache # None))
    /\ outdated' = outdated \ {w}
    /\ UNCHANGED <<row, pictures, contents, uploaded, reviews, cache, missed, late, crossed,
                   gone, holders>>

VendorRequest(w) ==
    \/ \E content \in 1 .. MaxContents : UpdateForVendor(w, content)
    \/ SoftDeleteForVendor(w) \/ UploadProductImage(w)

AdminRequest(w) ==
    \/ \E content \in 1 .. MaxContents, status \in Status : UpdateForAdmin(w, content, status)
    \/ HardDelete(w) \/ ApproveProduct(w) \/ RejectProduct(w) \/ SuspendProduct(w)

Request(w) == VendorRequest(w) \/ AdminRequest(w) \/ FindOne(w)

Step(w) ==
    \/ SaveCompare(w) \/ SaveWrite(w) \/ SaveNothing(w) \/ SaveInsert(w) \/ Delete(w)
    \/ SavePicture(w) \/ InvalidateProduct(w) \/ Select(w) \/ SetProduct(w)

Next ==
    \/ \E w \in Workers : Request(w) \/ Step(w) \/ Fail(w)
    \/ CreateForVendor \/ \E status \in Status : CreateForAdmin(status)
    \/ Expire

Spec == Init /\ [][Next]_vars
-----------------------------------------------------------------------------
(* Properties *)

TypeOK ==
    /\ row \in Row \cup {None}
    /\ pictures \subseteq Pictures
    /\ cache \in Page \cup {None}
    /\ work \in [Workers -> Work \cup {Idle}]
    /\ contents \in 0 .. MaxContents /\ uploaded \in 0 .. MaxPictures
    /\ approved \subseteq 1 .. MaxContents /\ passed \subseteq Pictures
    /\ late \subseteq Pictures /\ missed \subseteq Pictures
    /\ crossed \in BOOLEAN /\ excused \in BOOLEAN /\ gone \in BOOLEAN
    /\ outdated \subseteq Workers /\ holders \subseteq Workers

\* A product is ACTIVE only with a content an administrator wrote or has let
\* through, and with pictures he has seen or that were added while it was ACTIVE
\* already, whichever entities are saved over each other, unless a write came
\* between the two halves of a save().
ActiveIsApproved ==
    Active /\ ~crossed => row.content \in approved /\ pictures \subseteq passed \cup late

\* "Any edit requires re-approval", for the pictures: nobody is shown one that no
\* administrator has seen.  An upload leaves the status as it is.
PublicIsReviewed == Public /\ ~crossed => pictures \subseteq passed

\* The cached page is what the database holds, except for the pictures added
\* since it was stored, or it is about to be deleted; unless it was read before
\* a change and stored after it, or the request that had to delete it died.
CacheIsCurrent ==
    \/ cache = None
    \/ Public /\ cache = [View EXCEPT !.pictures = @ \ missed]
    \/ excused \/ \E w \in Workers : Doing(w, "invalidate")

\* A product that was deleted, in either way, comes back only by a request that
\* had read it before.
DeletedStaysDeleted == gone => Removed(row)

\* The inductive invariant: who saves an ACTIVE entity has the right to, a row
\* that is being written is the one that was compared, a fill that was not
\* overtaken is the page, nobody has a picture that was not uploaded yet, nobody
\* but the holders has an entity of a product that is gone, and before it is
\* created there is nothing of it.
EntitiesApproved ==
    \A w \in Workers : Saving(w) /\ work[w].entity.status = "ACTIVE" =>
        /\ work[w].entity.content \in approved
        /\ work[w].loaded # None /\ work[w].loaded \subseteq passed
ComparedStands ==
    \A w \in Workers : Doing(w, "write") /\ ~crossed =>
        /\ row # None /\ \A c \in Columns \ work[w].diff : work[w].entity[c] = row[c]
        /\ work[w].seen \subseteq pictures /\ pictures \subseteq work[w].seen \cup late
FillsFresh ==
    \A w \in Workers : Doing(w, "fill") /\ w \notin outdated => work[w].page = View
UploadedOnly ==
    /\ pictures \subseteq 1 .. uploaded
    /\ \A w \in Workers : Saving(w) =>
          work[w].loaded = None \/ work[w].loaded \subseteq 1 .. uploaded
OnlyHolders == gone => \A w \in Workers : Saving(w) => w \in holders
Untouched ==
    contents = 0 =>
        /\ row = None /\ pictures = {} /\ cache = None /\ ~gone
        /\ \A w \in Workers : work[w] = Idle \/ Doing(w, "miss")

IInv ==
    /\ TypeOK /\ ActiveIsApproved /\ CacheIsCurrent /\ DeletedStaysDeleted
    /\ EntitiesApproved /\ ComparedStands /\ FillsFresh /\ UploadedOnly /\ OnlyHolders
    /\ Untouched
=============================================================================
