----------------------------- MODULE MCCatalogue -----------------------------
(***************************************************************************)
(* Products: the life of one, its prices, its image files, what its owner  *)
(* sees of it while deleting it, how old a list that shows it can be.      *)
(* These meet in no property, so one run takes them one at a time: the     *)
(* initial state chooses the part that runs, and the variables of the      *)
(* others are 0.  CacheAges, which is proved about, comes by EXTENDS.      *)
(***************************************************************************)
EXTENDS CacheAges, TLC

CONSTANTS
  Handlers, LastDay, Keep, Prices, Products, Images, NoImage, Nothing,
  Visits, Stops

VARIABLES
  part,
  row, shop, today, job, lock, cache, barred, spoilt,
  tag, edit, mixed,
  status, image, disk, young, handler, doomed, dying, sweeping, refs, condemned,
  route, role, product, hotCache, held, apiCache, page, screen, visit, removal, gone, left,
  crossed

Life   == INSTANCE ProductLife
Price  == INSTANCE PriceEdits WITH Editors <- Handlers
Files  == INSTANCE ProductImages
Store  == INSTANCE Storefront WITH Loads <- Visits, load <- visit, shown <- screen

ASSUME CatalogueAssumption ==
  /\ Life!LifeAssumption
  /\ Price!PriceAssumption
  /\ Files!ImageAssumption
  /\ AgesAssumption

Parts == {"life", "prices", "files", "store", "ages"}

lifeVars  == <<row, shop, today, job, lock, cache, barred, spoilt>>
priceVars == <<tag, edit, mixed>>
fileVars  == <<status, image, disk, young, handler, doomed, dying, sweeping, refs, condemned>>
storeVars == <<route, role, product, hotCache, held, apiCache, page, screen, visit, removal, gone, left,
               crossed>>

Init ==
  /\ part \in Parts
  /\ IF part = "life" THEN Life!Init
     ELSE /\ row = 0 /\ shop = 0 /\ today = 0 /\ job = 0 /\ lock = 0 /\ cache = 0
          /\ barred = 0 /\ spoilt = 0
  /\ IF part = "prices" THEN Price!Init
     ELSE tag = 0 /\ edit = 0 /\ mixed = 0
  /\ IF part = "files" THEN Files!Init
     ELSE /\ status = 0 /\ image = 0 /\ disk = 0 /\ young = 0 /\ handler = 0 /\ doomed = 0
          /\ dying = 0 /\ sweeping = 0 /\ refs = 0 /\ condemned = 0
  /\ IF part = "store" THEN Store!Init
     ELSE /\ route = 0 /\ role = 0 /\ product = 0 /\ hotCache = 0 /\ held = 0 /\ apiCache = 0
          /\ page = 0 /\ screen = 0 /\ visit = 0 /\ removal = 0 /\ gone = 0 /\ left = 0
          /\ crossed = 0
  /\ IF part = "ages" THEN AgesInit
     ELSE hot = 0 /\ api = 0 /\ load = 0 /\ shown = 0

TypeOK ==
  /\ part \in Parts
  /\ part = "life" => Life!TypeOK
  /\ part = "prices" => Price!TypeOK
  /\ part = "files" => Files!TypeOK
  /\ part = "store" => Store!TypeOK
  /\ part = "ages" => AgesTypeOK

vars == <<part, lifeVars, priceVars, fileVars, storeVars, agesVars>>

Next ==
  \/ /\ part = "life"
     /\ Life!Next
     /\ UNCHANGED <<part, priceVars, fileVars, storeVars, agesVars>>
  \/ /\ part = "prices"
     /\ Price!Next
     /\ UNCHANGED <<part, lifeVars, fileVars, storeVars, agesVars>>
  \/ /\ part = "files"
     /\ Files!Next
     /\ UNCHANGED <<part, lifeVars, priceVars, storeVars, agesVars>>
  \/ /\ part = "store"
     /\ Store!Next
     /\ UNCHANGED <<part, lifeVars, priceVars, fileVars, agesVars>>
  \/ /\ part = "ages"
     /\ AgesNext
     /\ UNCHANGED <<part, lifeVars, priceVars, fileVars, storeVars>>

Spec == Init /\ [][Next]_vars

(* ProductLife: the clean-up takes only what has expired.                  *)
OnlyPastIsSwept ==
  [][part = "life" =>
       \A h \in Handlers :
         job[h].op = "sweep" /\ job[h].pc = "writing" /\ job'[h].pc = "clearing"
           => row.expires <= today]_vars

(* ProductLife: a list in the cache shows the product as it stands.        *)
CacheKeepsUp == part = "life" => Life!CacheKeepsUp

(* PriceEdits: the price stays within the MRP and the discount is theirs.  *)
PricesAgree == part = "prices" => Price!PricesAgree

(* ProductImages: a listed product keeps the file its row names.           *)
ImageThere == part = "files" => Files!ImageThere

(* Storefront: what the visitor has deleted does not come back.            *)
DeletedIsGone == part = "store" => Store!DeletedIsGone

Symmetry == Permutations(Images) \cup Permutations(Handlers)
==============================================================================
