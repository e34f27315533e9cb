---------------------------- MODULE ProductImages ----------------------------
(***************************************************************************)
(* Products and their image files (blueprints/products.py; the deletion    *)
(* also blueprints/admin.py): rows in the database, files in the upload    *)
(* directory, and no transaction that spans both.                          *)
(*                                                                         *)
(* A request writes or removes files first and executes its SQL statement  *)
(* last; that statement may time out on SQLite's lock, and the thread may  *)
(* die anywhere.  What a request knows of the product is the row it read   *)
(* at its start.                                                           *)
(*                                                                         *)
(* Definitions named Bug... are deliberate mistakes: the properties are    *)
(* seen to fail when one replaces the definition it precedes.              *)
(***************************************************************************)
EXTENDS FiniteSets

CONSTANTS
    Products,       \* ids the products table may come to hold
    Files,          \* names uuid4 may produce; their number bounds the uploads
    Threads,        \* threads that serve requests
    None            \* SQL NULL

ASSUME NoFileAssumption == None \notin Files \cup Products

VARIABLES
    row,            \* "unborn", "listed" or "deleted", for each product
    image,          \* products.image_path
    disk,           \* files in UPLOAD_DIR
    used,           \* names that were ever given to a file
    pc,             \* what each request does next
    job,            \* the request's product, the image it read, the one it will store
    overlapped,     \* history: products two requests worked on at the same time
    interrupted     \* history: products a request on which died, or None for a
                    \* request that died before its product existed

vars == <<row, image, disk, used, pc, job, overlapped, interrupted>>

Listed == {p \in Products : row[p] = "listed"}
Job == [product : Products \cup {None}, read : Files \cup {None}, new : Files \cup {None}]
Blank == [product |-> None, read |-> None, new |-> None]

TypeOK ==
    /\ row \in [Products -> {"unborn", "listed", "deleted"}]
    /\ image \in [Products -> Files \cup {None}]
    /\ disk \subseteq used
    /\ used \subseteq Files
    /\ pc \in [Threads -> {"idle", "insert", "edit", "unlink", "update", "remove", "delete"}]
    /\ job \in [Threads -> Job]
    /\ overlapped \subseteq Products
    /\ interrupted \subseteq Products \cup {None}

Init ==
    /\ row = [p \in Products |-> "unborn"]
    /\ image = [p \in Products |-> None]
    /\ disk = {}
    /\ used = {}
    /\ pc = [t \in Threads |-> "idle"]
    /\ job = [t \in Threads |-> Blank]
    /\ overlapped = {}
    /\ interrupted = {}

Goto(t, phase) == pc' = [pc EXCEPT ![t] = phase]

Finish(t) ==
    /\ pc' = [pc EXCEPT ![t] = "idle"]
    /\ job' = [job EXCEPT ![t] = Blank]

\* Bug: the name of the uploaded file is kept.
BugFresh(f) == f \in Files

\* The name is made by uuid4.
Fresh(f) == f \notin used

\* _save_image writes a new file.  A file that is no image leaves nothing.
SaveImage(f) ==
    /\ Fresh(f)
    /\ disk' = disk \cup {f}
    /\ used' = used \cup {f}

\* _delete_image, which does not mind a missing file.
DeleteImage(f) == disk' = disk \ {f}

-----------------------------------------------------------------------------
(* POST /products/new                                                      *)

UploadForCreate(t) ==
    /\ pc[t] = "idle"
    /\ \/ \E f \in Files :
            SaveImage(f) /\ job' = [job EXCEPT ![t] = [Blank EXCEPT !.new = f]]
       \/ UNCHANGED <<disk, used, job>>
    /\ Goto(t, "insert")
    /\ UNCHANGED <<row, image, overlapped, interrupted>>

InsertProduct(t) ==
    /\ pc[t] = "insert"
    /\ \E p \in Products :
         /\ row[p] = "unborn"
         /\ row' = [row EXCEPT ![p] = "listed"]
         /\ image' = [image EXCEPT ![p] = job[t].new]
    /\ Finish(t)
    /\ UNCHANGED <<disk, used, overlapped, interrupted>>

-----------------------------------------------------------------------------
(* POST /products/<id>/edit and the deletions                              *)

\* _get_product_or_404; the owner or an administrator goes on.
ReadProduct(t, phase) ==
    /\ pc[t] = "idle"
    /\ \E p \in Listed :
         /\ job' = [job EXCEPT ![t] = [product |-> p, read |-> image[p], new |-> image[p]]]
         /\ overlapped' = IF \E s \in Threads \ {t} : job[s].product = p
                          THEN overlapped \cup {p} ELSE overlapped
    /\ Goto(t, phase)
    /\ UNCHANGED <<row, image, disk, used, interrupted>>

StartEdit(t) == ReadProduct(t, "edit")
StartDelete(t) == ReadProduct(t, "remove")

EditWithNewImage(t) ==
    /\ pc[t] = "edit"
    /\ \E f \in Files : SaveImage(f) /\ job' = [job EXCEPT ![t].new = f]
    /\ Goto(t, "unlink")
    /\ UNCHANGED <<row, image, overlapped, interrupted>>

\* Bug: an empty string instead of NULL.
BugEditRemovingImage(t) ==
    /\ pc[t] = "edit"
    /\ job' = [job EXCEPT ![t].new = ""]
    /\ Goto(t, "unlink")
    /\ UNCHANGED <<row, image, disk, used, overlapped, interrupted>>

EditRemovingImage(t) ==
    /\ pc[t] = "edit"
    /\ job' = [job EXCEPT ![t].new = None]
    /\ Goto(t, "unlink")
    /\ UNCHANGED <<row, image, disk, used, overlapped, interrupted>>

EditText(t) ==
    /\ pc[t] = "edit"
    /\ Goto(t, "update")
    /\ UNCHANGED <<row, image, disk, used, job, overlapped, interrupted>>

\* Bug: the old image is removed before the new one has been examined.
BugRefuseEdit(t) ==
    /\ pc[t] = "edit"
    /\ DeleteImage(job[t].read)
    /\ Finish(t)
    /\ UNCHANGED <<row, image, used, overlapped, interrupted>>

\* The upload is no image: 400, nothing has changed.
RefuseEdit(t) ==
    /\ pc[t] = "edit"
    /\ Finish(t)
    /\ UNCHANGED <<row, image, disk, used, overlapped, interrupted>>

\* Bug: the replaced file is forgotten.
BugUnlinkReplaced(t) ==
    /\ pc[t] = "unlink"
    /\ Goto(t, "update")
    /\ UNCHANGED <<row, image, disk, used, job, overlapped, interrupted>>

UnlinkReplaced(t) ==
    /\ pc[t] = "unlink"
    /\ DeleteImage(job[t].read)
    /\ Goto(t, "update")
    /\ UNCHANGED <<row, image, used, job, overlapped, interrupted>>

\* image_path is written even when the edit did not touch it.
UpdateProduct(t) ==
    LET p == job[t].product
    IN /\ pc[t] = "update"
       /\ image' = IF p \in Listed THEN [image EXCEPT ![p] = job[t].new] ELSE image
       /\ Finish(t)
       /\ UNCHANGED <<row, disk, used, overlapped, interrupted>>

UnlinkDeleted(t) ==
    /\ pc[t] = "remove"
    /\ DeleteImage(job[t].read)
    /\ Goto(t, "delete")
    /\ UNCHANGED <<row, image, used, job, overlapped, interrupted>>

DeleteRow(t) ==
    /\ pc[t] = "delete"
    /\ row' = [row EXCEPT ![job[t].product] = "deleted"]
    /\ image' = [image EXCEPT ![job[t].product] = None]
    /\ Finish(t)
    /\ UNCHANGED <<disk, used, overlapped, interrupted>>

\* The statement times out, or the thread dies.
Die(t) ==
    /\ pc[t] # "idle"
    /\ interrupted' = interrupted \cup {job[t].product}
    /\ Finish(t)
    /\ UNCHANGED <<row, image, disk, used, overlapped>>

Next ==
    \E t \in Threads :
        \/ UploadForCreate(t) \/ InsertProduct(t)
        \/ StartEdit(t) \/ EditWithNewImage(t) \/ EditRemovingImage(t) \/ EditText(t)
        \/ RefuseEdit(t) \/ UnlinkReplaced(t) \/ UpdateProduct(t)
        \/ StartDelete(t) \/ UnlinkDeleted(t) \/ DeleteRow(t)
        \/ Die(t)

Spec == Init /\ [][Next]_vars

-----------------------------------------------------------------------------
(* Properties                                                              *)

\* Products on which every request ran alone and to its end.
Clean == Listed \ (overlapped \cup interrupted)

\* The picture of a product can be served, unless a request that will drop or
\* replace it has just removed it.  It takes two requests on the product, or
\* one that died, to leave a product with a picture that is gone
\* (products.py:292-312, 327-328).
PicturesPresent ==
    \A p \in Clean :
        \/ image[p] \in disk \cup {None}
        \/ \E t \in Threads : job[t].product = p /\ pc[t] \in {"update", "delete"}

\* At rest, and if nothing went wrong, the upload directory holds exactly the
\* pictures of the listed products: no file is left behind.
NoOrphans ==
    (\A t \in Threads : pc[t] = "idle") /\ overlapped = {} /\ interrupted = {}
        => disk = {image[p] : p \in Listed} \ {None}

\* No two products share a file, so that no request on one product can take
\* away the picture of another, even after overlaps and deaths.
NoSharedFile ==
    \A p, q \in Listed : image[p] = image[q] /\ image[p] # None => p = q
=============================================================================
