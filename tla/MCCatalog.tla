------------------------------- MODULE MCCatalog -------------------------------
(***************************************************************************)
(* catalog-service for two runs of TLC: the life of a product with its     *)
(* page, in a run of its own, and the pages of the listing, the rows and   *)
(* objects of the pictures and the categories in the other.  A behaviour   *)
(* runs the part it has chosen in its initial state.  Products has its own *)
(* abstract pictures; what ProductImages says of their places, objects and *)
(* rows depends on no content, status or copy.                             *)
(***************************************************************************)
EXTENDS Products, TLC

CONSTANTS
    Parts,  \* the parts of this run
    Ids, PageSize, Price, MaxTime, MicrosPerMilli,
    Uploads, MaxMillis,
    Categories, Admins, Slugs

VARIABLES
    part,
    time, listed, clock, walk, seen, repeated, steady, shifted, shrunk, lasts,
    exists, now, object, images, uploading, stamps, overlapping,
    category, changes

listVars == <<time, listed, clock, walk, seen, repeated, steady, shifted, shrunk, lasts>>
imageVars == <<exists, now, object, images, uploading, stamps, overlapping>>
treeVars == <<category, changes>>
partsVars == <<part, vars, listVars, imageVars, treeVars>>

Listing == INSTANCE ProductListing
Images == INSTANCE ProductImages
              WITH rows <- images, work <- uploading, MaxTime <- MaxMillis
Tree == INSTANCE Categories WITH row <- category, work <- changes

ASSUME PartsAssumption ==
    /\ Parts \subseteq {"product", "listing", "images", "tree"}
    /\ Listing!ConstantsAssumption /\ Images!ConstantsAssumption /\ Tree!ConstantsAssumption

PartsInit ==
    /\ part \in Parts
    /\ Init /\ Listing!Init /\ Images!Init /\ Tree!Init

ProductNext ==
    part = "product" /\ Next /\ UNCHANGED <<part, listVars, imageVars, treeVars>>
ListingNext ==
    part = "listing" /\ Listing!Next /\ UNCHANGED <<part, vars, imageVars, treeVars>>
ImagesNext ==
    part = "images" /\ Images!Next /\ UNCHANGED <<part, vars, listVars, treeVars>>
TreeNext ==
    part = "tree" /\ Tree!Next /\ UNCHANGED <<part, vars, listVars, imageVars>>

PartsNext == ProductNext \/ ListingNext \/ ImagesNext \/ TreeNext

PartsSpec == PartsInit /\ [][PartsNext]_partsVars

\* Two products of one price, one of another.
Prices == <<1, 1, 2>>

\* No products, for the run without a listing.
NoPrices == <<>>

\* Requests are interchangeable (those of administrators have the same names).
Symmetry == Permutations(Workers)
-----------------------------------------------------------------------------
\* See ProductListing: no product is shown twice.
ListedOnce == Listing!ListedOnce

\* See ProductListing: no product is missed.
EveryoneIsListed == Listing!EveryoneIsListed

\* See ProductImages: rows show their pictures, in places of their own.
ImagesInPlace == Images!ImagesInPlace

\* See Categories: requests change what they name.
OnlyWhatWasAsked == Tree!OnlyWhatWasAsked
=============================================================================
