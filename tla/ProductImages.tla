---------------------------- MODULE ProductImages ----------------------------
(***************************************************************************)
(* The image files of products: the upload middleware                      *)
(* (backend/middleware/uploadMiddleware.js), addProduct and editProduct    *)
(* (sellerController.js), which unlink what they replace and what they     *)
(* failed to record, the expiry handlers of adminController.js, which      *)
(* unlink the images of what they deleted, and                             *)
(* scripts/cleanupOrphanUploads.js.  Rows are in MySQL, files on disk; the *)
(* two meet in separate steps.                                             *)
(* Images are uploaded files, named by a fresh uuid; links to other sites  *)
(* are NoImage.                                                            *)
(***************************************************************************)
EXTENDS FiniteSets

CONSTANTS
  Products,   \* rows table products can hold
  Images,     \* files under uploads/products
  Handlers,   \* requests that can be at work at once
  NoImage, Nothing

ImageAssumption ==
  /\ NoImage \notin Images
  /\ Nothing \notin Products

VARIABLES
  status,   \* of each product: listed stands for every status but deleted
  image,    \* its image_url
  disk,     \* the files there are
  young,    \* those written within the hour
  handler,  \* each request: where it stands, its upload, its product and the
            \* image_url it read
  doomed,   \* images of deleted expired products, not yet looked at
  dying,    \* those no product uses, to be unlinked
  sweeping, \* does cleanupOrphanUploads run?
  refs,     \* the images it found in the rows
  condemned \* history: images the expiry clean-up saw no listed product use

row   == <<status, image>>
files == <<disk, young>>
clean == <<doomed, dying, sweeping, refs>>
vars  == <<row, files, handler, clean, condemned>>

Handler == [pc : {"idle", "uploaded", "editing", "replacing"}, upload : Images \cup {NoImage},
            product : Products \cup {Nothing}, old : Images \cup {NoImage}]
Idle == [pc |-> "idle", upload |-> NoImage, product |-> Nothing, old |-> NoImage]

TypeOK ==
  /\ status \in [Products -> {"none", "listed", "deleted"}]
  /\ image \in [Products -> Images \cup {NoImage}]
  /\ young \subseteq disk /\ disk \subseteq Images
  /\ handler \in [Handlers -> Handler]
  /\ doomed \subseteq Images /\ dying \subseteq Images
  /\ sweeping \in BOOLEAN /\ refs \subseteq Images
  /\ condemned \subseteq Images
  /\ \A h \in Handlers :
       /\ handler[h].pc \in {"editing", "replacing"} => handler[h].product \in Products
       /\ handler[h].pc = "replacing" => handler[h].old # NoImage

Init ==
  /\ status = [p \in Products |-> "none"]
  /\ image = [p \in Products |-> NoImage]
  /\ disk = {} /\ young = {}
  /\ handler = [h \in Handlers |-> Idle]
  /\ doomed = {} /\ dying = {} /\ sweeping = FALSE /\ refs = {}
  /\ condemned = {}

InRows    == {image[p] : p \in Products} \ {NoImage}
InHand    == {handler[h].upload : h \in Handlers} \ {NoImage}
Outgoing  == {handler[h].old : h \in Handlers} \ {NoImage}
Fresh(i)  == i \notin disk \cup InRows \cup InHand \cup Outgoing \cup doomed \cup dying \cup refs

Done(h) == handler' = [handler EXCEPT ![h] = Idle]

Unlinked(i) == /\ disk' = disk \ {i}
               /\ young' = young \ {i}

------------------------------------------------------------------------------
(* processUploadedImage writes the file before the handler runs.  A        *)
(* handler that refuses before its try block leaves it there (Abandon).    *)
Upload(h, i) ==
  /\ handler[h] = Idle
  /\ Fresh(i)
  /\ disk' = disk \cup {i} /\ young' = young \cup {i}
  /\ handler' = [handler EXCEPT ![h].pc = "uploaded", ![h].upload = i]
  /\ UNCHANGED <<row, clean, condemned>>

Abandon(h) ==
  /\ handler[h].pc \in {"uploaded", "editing"}
  /\ Done(h)
  /\ UNCHANGED <<row, files, clean, condemned>>

AddProduct(h, p) ==
  /\ handler[h].pc \in {"idle", "uploaded"}
  /\ status[p] = "none"
  /\ status' = [status EXCEPT ![p] = "listed"]
  /\ image' = [image EXCEPT ![p] = handler[h].upload]
  /\ Done(h)
  /\ UNCHANGED <<files, clean, condemned>>

(* editProduct: the row is read, then updated, then the old file unlinked. *)
(* A body with a status lists a deleted product again.  An edit without an *)
(* upload leaves image_url alone: its one write is UpdateProductStatus.    *)
FindForEdit(h, p) ==
  /\ handler[h].pc = "uploaded"
  /\ status[p] # "none"
  /\ handler' = [handler EXCEPT ![h].pc = "editing", ![h].product = p, ![h].old = image[p]]
  /\ UNCHANGED <<row, files, clean, condemned>>

Edited(p, relist) ==
  status' = [status EXCEPT ![p] = IF relist THEN "listed" ELSE @]

UpdateRow(h, relist) ==
  /\ handler[h].pc = "editing"
  /\ image' = [image EXCEPT ![handler[h].product] = handler[h].upload]
  /\ Edited(handler[h].product, relist)
  /\ IF handler[h].old = NoImage
       THEN Done(h)
       ELSE handler' = [handler EXCEPT ![h].pc = "replacing", ![h].upload = NoImage]
  /\ UNCHANGED <<files, clean, condemned>>

DropOld(h) ==
  /\ handler[h].pc = "replacing"
  /\ Unlinked(handler[h].old)
  /\ Done(h)
  /\ UNCHANGED <<row, clean, condemned>>

(* The INSERT or the UPDATE fails: the upload goes.                        *)
WriteFails(h) ==
  /\ handler[h].pc \in {"uploaded", "editing"}
  /\ Unlinked(handler[h].upload)
  /\ Done(h)
  /\ UNCHANGED <<row, clean, condemned>>

------------------------------------------------------------------------------
(* deleteProduct of sellers and administrators keeps the file; so does     *)
(* updateProductStatus, which may list a deleted product again.            *)
DeleteProduct(p) ==
  /\ status[p] = "listed"
  /\ status' = [status EXCEPT ![p] = "deleted"]
  /\ UNCHANGED <<image, files, handler, clean, condemned>>

UpdateProductStatus(p) ==
  /\ status[p] = "deleted"
  /\ status' = [status EXCEPT ![p] = "listed"]
  /\ UNCHANGED <<image, files, handler, clean, condemned>>

(* The three expiry handlers: rows locked, deleted, committed; then, after *)
(* the answer, cleanupProductImages: for each image a count of the         *)
(* products that still use it, and unlink.                                 *)
DeleteExpired(S) ==
  /\ S # {} /\ \A p \in S : status[p] = "listed"
  /\ status' = [p \in Products |-> IF p \in S THEN "deleted" ELSE status[p]]
  /\ doomed' = doomed \cup ({image[p] : p \in S} \ {NoImage})
  /\ UNCHANGED <<image, files, handler, dying, sweeping, refs, condemned>>

Listed   == {p \in Products : status[p] = "listed"}
NoUse(i) == FALSE   \* mutant: no count
InUse(i) == \E p \in Listed : image[p] = i

CountUses(i) ==
  /\ i \in doomed
  /\ doomed' = doomed \ {i}
  /\ dying' = IF InUse(i) THEN dying ELSE dying \cup {i}
  /\ condemned' = condemned \cup ({i} \ {image[p] : p \in Listed})
  /\ UNCHANGED <<row, files, handler, sweeping, refs>>

UnlinkImage(i) ==
  /\ i \in dying
  /\ dying' = dying \ {i}
  /\ Unlinked(i)
  /\ UNCHANGED <<row, handler, doomed, sweeping, refs, condemned>>

------------------------------------------------------------------------------
(* cleanupOrphanUploads: read every row, deleted ones too, then look at    *)
(* every file.  Neither a request nor the script is taken to last the hour *)
(* of grace.                                                               *)
ReadRefs ==
  /\ ~sweeping
  /\ sweeping' = TRUE
  /\ refs' = InRows
  /\ UNCHANGED <<row, files, handler, doomed, dying, condemned>>

SweepFile(i) ==
  /\ sweeping
  /\ i \in disk \ (refs \cup young)
  /\ Unlinked(i)
  /\ UNCHANGED <<row, handler, clean, condemned>>

EndSweep ==
  /\ sweeping
  /\ sweeping' = FALSE
  /\ refs' = {}
  /\ UNCHANGED <<row, files, handler, doomed, dying, condemned>>

Age(i) ==
  /\ i \in young \ InHand
  /\ ~sweeping
  /\ young' = young \ {i}
  /\ UNCHANGED <<row, disk, handler, clean, condemned>>

(* The process dies; what it meant to unlink stays.                        *)
Crash ==
  /\ handler' = [h \in Handlers |-> Idle]
  /\ doomed' = {} /\ dying' = {}
  /\ UNCHANGED <<row, files, sweeping, refs, condemned>>

Next ==
  \/ \E h \in Handlers :
       \/ \E i \in Images : Upload(h, i)
       \/ \E p \in Products : AddProduct(h, p) \/ FindForEdit(h, p)
       \/ \E relist \in BOOLEAN : UpdateRow(h, relist)
       \/ DropOld(h) \/ WriteFails(h) \/ Abandon(h)
  \/ \E p \in Products : DeleteProduct(p) \/ UpdateProductStatus(p)
  \/ \E S \in SUBSET Products : DeleteExpired(S)
  \/ \E i \in Images : CountUses(i) \/ UnlinkImage(i) \/ SweepFile(i) \/ Age(i)
  \/ ReadRefs \/ EndSweep \/ Crash

Spec == Init /\ [][Next]_vars

------------------------------------------------------------------------------
(***************************************************************************)
(* A listed product has the image its row names, whatever edits overlap,   *)
(* writes fail, clean-ups run and processes die (sellerController.js:403,  *)
(* adminController.js:329, cleanupOrphanUploads.js:80), unless the expiry  *)
(* clean-up counted no use of it and the product was listed again since.   *)
(***************************************************************************)
ImageThere ==
  \A p \in Listed : image[p] \in disk \cup condemned \cup {NoImage}
=============================================================================
