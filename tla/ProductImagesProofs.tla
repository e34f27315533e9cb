------------------------- MODULE ProductImagesProofs ------------------------
(***************************************************************************)
(* Proofs about ProductImages, for any products, file names and threads.   *)
(***************************************************************************)
EXTENDS ProductImages, TLAPS

-----------------------------------------------------------------------------
(* The inductive invariant                                                 *)

\* The names a request holds: the picture it has read and the one to store.
Holds(t) == {job[t].read, job[t].new} \ {None}

\* What a request is about, by the step it has reached.
JobInv ==
    \A t \in Threads :
        /\ pc[t] = "idle" => job[t] = Blank
        /\ pc[t] = "insert" => job[t].product = None /\ job[t].read = None
        /\ pc[t] \notin {"idle", "insert"} =>
             job[t].product \in Products /\ row[job[t].product] # "unborn"
        /\ pc[t] = "edit" => job[t].new = job[t].read

\* A name belongs to one product, or to the request that will create one:
\* whoever else holds it works on the same product.
OwnedInv ==
    /\ \A p \in Products : image[p] \in used \cup {None}
    /\ \A t \in Threads : Holds(t) \subseteq used
    /\ \A p, q \in Products : image[p] = image[q] /\ image[p] # None => p = q
    /\ \A t \in Threads, p \in Products : image[p] \in Holds(t) => job[t].product = p
    /\ \A s, t \in Threads :
          Holds(s) \cap Holds(t) # {} =>
             s = t \/ (job[s].product = job[t].product /\ job[t].product # None)

\* The only request on a product knows its row as it is.
AloneInv ==
    \A p \in Products \ overlapped :
        /\ \A s, t \in Threads : job[s].product = p /\ job[t].product = p => s = t
        /\ \A t \in Threads :
              job[t].product = p => row[p] = "listed" /\ job[t].read = image[p]

\* A file that is about to be stored exists, unless others interfered; a file
\* that was removed is gone for good.
FileInv ==
    \A t \in Threads :
        /\ pc[t] = "insert" => job[t].new \in disk \cup {None}
        /\ job[t].product \in Clean /\ pc[t] \in {"unlink", "update"} =>
             job[t].new \in disk \cup {None}
        /\ pc[t] = "unlink" => job[t].new = None \/ job[t].new # job[t].read
        /\ pc[t] = "delete" \/ (pc[t] = "update" /\ job[t].new # job[t].read) =>
             job[t].read \notin disk

\* Every file is a picture or about to become one, as long as no requests
\* overlapped and none died.
KeptInv ==
    overlapped = {} /\ interrupted = {} =>
        \A f \in disk :
            \/ \E p \in Listed : image[p] = f
            \/ \E t \in Threads : job[t].new = f /\ pc[t] \in {"insert", "unlink", "update"}

\* The inductive invariant.
Inv ==
    /\ TypeOK /\ JobInv /\ OwnedInv /\ AloneInv
    /\ FileInv /\ PicturesPresent /\ KeptInv
-----------------------------------------------------------------------------
(* Steps of one request                                                    *)

\* Request t goes to a phase, with job j; the others stay where they are.
Moves(t, phase, j) ==
    /\ pc'[t] = phase /\ job'[t] = j
    /\ \A s \in Threads \ {t} : pc'[s] = pc[s] /\ job'[s] = job[s]

\* A step that ends a request leaves it blank.
LEMMA Finished ==
    ASSUME TypeOK, NEW t \in Threads, Finish(t)
    PROVE  Moves(t, "idle", Blank)
BY DEF Finish, Moves, TypeOK

\* The parts of the invariant that no file operation is about stay, when the
\* rows stay and request t gets no name but one it had or nobody else has.
LEMMA NamesKept ==
    ASSUME Inv, NEW t \in Threads, NEW phase, NEW j, Moves(t, phase, j),
           UNCHANGED <<row, image, overlapped>>, used \subseteq used',
           \/ j = Blank
           \/ /\ j.product = job[t].product /\ j.read = job[t].read
              /\ j.new \in Holds(t) \cup (used' \ used) \cup {None}
    PROVE  OwnedInv' /\ AloneInv'
<1>1. Holds(t)' = {j.read, j.new} \ {None}
  BY DEF Holds, Moves
<1>2. \A s \in Threads \ {t} : Holds(s)' = Holds(s) /\ job'[s].product = job[s].product
  BY DEF Holds, Moves
<1>3. /\ Holds(t)' \subseteq Holds(t) \cup (used' \ used)
      /\ Holds(t)' # {} => job'[t].product = job[t].product
  BY <1>1 DEF Blank, Holds, Moves
<1>4. \A p \in Products : image'[p] = image[p] /\ image[p] \in used \cup {None}
  BY DEF Inv, OwnedInv
<1>5. OwnedInv'
  <2> USE DEF Inv, OwnedInv
  <2>1. \A s \in Threads : Holds(s)' \subseteq used'
    BY <1>3, <1>2
  <2>2. \A p, q \in Products : image'[p] = image'[q] /\ image'[p] # None => p = q
    BY <1>4
  <2>3. ASSUME NEW s \in Threads, NEW p \in Products, image'[p] \in Holds(s)'
        PROVE  job'[s].product = p
    <3>1. image[p] \in used
      BY <1>1, <1>2, <1>4, <2>3 DEF Holds
    <3>2. image[p] \in Holds(s)
      BY <1>3, <1>2, <1>4, <2>3, <3>1
    <3> QED
      BY <1>3, <1>2, <2>3, <3>2
  <2>4. ASSUME NEW r \in Threads, r # t, Holds(r)' \cap Holds(t)' # {}
        PROVE  job'[r].product = job'[t].product /\ job'[t].product # None
    <3>1. PICK f \in used : f \in Holds(r) /\ f \in Holds(t)'
      BY <1>2, <2>4
    <3>2. f \in Holds(t)
      BY <1>3, <3>1
    <3>3. job[r].product = job[t].product /\ job[t].product # None
      BY <2>4, <3>1, <3>2
    <3> QED
      BY <1>3, <1>2, <2>4, <3>1, <3>3
  <2>5. ASSUME NEW r \in Threads, NEW s \in Threads, Holds(r)' \cap Holds(s)' # {}
        PROVE  r = s \/ (job'[r].product = job'[s].product /\ job'[s].product # None)
    <3>1. CASE r = t \/ s = t
      BY <2>4, <2>5, <3>1
    <3>2. CASE r # t /\ s # t
      BY <1>2, <2>5, <3>2
    <3> QED
      BY <3>1, <3>2
  <2> QED
    BY <1>4, <2>1, <2>2, <2>3, <2>5
<1>6. AloneInv'
  <2> SUFFICES ASSUME NEW p \in Products \ overlapped
               PROVE  /\ \A r, s \in Threads : job'[r].product = p /\ job'[s].product = p => r = s
                      /\ \A s \in Threads : job'[s].product = p =>
                            row[p] = "listed" /\ job'[s].read = image[p]
    BY DEF AloneInv
  <2>1. \A s \in Threads : job'[s].product = p => job[s].product = p /\ job'[s].read = job[s].read
    BY NoFileAssumption DEF Blank, Moves
  <2> QED
    BY <2>1 DEF Inv, AloneInv
<1> QED
  BY <1>5, <1>6
-----------------------------------------------------------------------------
(* Creating a product                                                      *)

\* A new file belongs to the request that uploaded it.
LEMMA UploadForCreatePreserves ==
    ASSUME Inv, NEW t \in Threads, UploadForCreate(t)
    PROVE  Inv'
<1>1. PICK n \in Files \cup {None} :
        /\ job' = [job EXCEPT ![t] = [Blank EXCEPT !.new = n]]
        /\ IF n = None THEN UNCHANGED <<disk, used>>
           ELSE n \notin used /\ disk' = disk \cup {n} /\ used' = used \cup {n}
  <2>1. CASE UNCHANGED <<disk, used, job>>
    <3>1. job' = [job EXCEPT ![t] = [Blank EXCEPT !.new = None]]
      BY <2>1 DEF UploadForCreate, Inv, TypeOK, JobInv, Blank
    <3> QED
      BY <2>1, <3>1
  <2>2. CASE \E f \in Files :
               SaveImage(f) /\ job' = [job EXCEPT ![t] = [Blank EXCEPT !.new = f]]
    BY <2>2, NoFileAssumption DEF SaveImage, Fresh
  <2> QED
    BY <2>1, <2>2 DEF UploadForCreate
<1> DEFINE j == [Blank EXCEPT !.new = n]
<1>2. j \in Job /\ j.product = None /\ j.read = None /\ j.new = n
  BY DEF Blank, Job
<1>3. /\ pc[t] = "idle" /\ pc' = [pc EXCEPT ![t] = "insert"]
      /\ UNCHANGED <<row, image, overlapped, interrupted>>
      /\ job[t] = Blank
  BY DEF UploadForCreate, Goto, Inv, JobInv
<1> HIDE DEF j
<1>4. Moves(t, "insert", j)
  BY <1>1, <1>3 DEF Moves, Inv, TypeOK, j
<1>5. TypeOK'
  BY <1>1, <1>2, <1>3 DEF Inv, TypeOK, j
<1>6. JobInv'
  BY <1>2, <1>3, <1>4 DEF Moves, Inv, JobInv
<1>7. OwnedInv' /\ AloneInv'
  <2>1. j.product = job[t].product /\ j.read = job[t].read
    BY <1>2, <1>3 DEF Blank
  <2>2. used \subseteq used' /\ j.new \in (used' \ used) \cup {None}
    BY <1>1, <1>2
  <2> QED
    BY <1>3, <1>4, <2>1, <2>2, NamesKept
<1>8. disk \subseteq disk' /\ disk' \subseteq disk \cup {n} /\ n \in disk' \cup {None}
  BY <1>1
<1>9. FileInv'
  <2>1. \A s \in Threads : job[s].read \in used \cup {None} /\ None \notin disk'
    BY <1>1, NoFileAssumption DEF Inv, TypeOK, OwnedInv, Holds
  <2>2. \A s \in Threads : job[s].read \notin disk => job[s].read \notin disk'
    BY <1>1, <2>1
  <2> QED
    BY <1>2, <1>3, <1>4, <1>8, <2>2 DEF Moves, Inv, FileInv, Clean, Listed
<1>10. PicturesPresent'
  BY <1>3, <1>4, <1>8 DEF Moves, Inv, PicturesPresent, Clean, Listed
<1>11. KeptInv'
  BY <1>2, <1>3, <1>4, <1>8 DEF Moves, Inv, TypeOK, KeptInv, Listed
<1> QED
  BY <1>5, <1>6, <1>7, <1>9, <1>10, <1>11 DEF Inv

\* A product that comes to be gets the file of its request, if any.
LEMMA InsertProductPreserves ==
    ASSUME Inv, NEW t \in Threads, InsertProduct(t)
    PROVE  Inv'
<1>1. PICK p \in Products :
        /\ row[p] = "unborn"
        /\ row' = [row EXCEPT ![p] = "listed"]
        /\ image' = [image EXCEPT ![p] = job[t].new]
  BY DEF InsertProduct
<1>2. /\ pc[t] = "insert" /\ Finish(t)
      /\ UNCHANGED <<disk, used, overlapped, interrupted>>
      /\ job[t].product = None /\ job[t].read = None
  BY DEF InsertProduct, Inv, JobInv
<1>3. Moves(t, "idle", Blank)
  BY <1>2, Finished DEF Inv
<1>4. PICK n \in Files \cup {None} : n = job[t].new
  BY DEF Inv, TypeOK, Job
<1>5. \A s \in Threads : job[s].product # p
  BY <1>1, <1>2, NoFileAssumption DEF Inv, JobInv, Blank
<1>6. \A q \in Products \ {p} : row'[q] = row[q] /\ image'[q] = image[q]
  BY <1>1 DEF Inv, TypeOK
<1>7. row'[p] = "listed" /\ image'[p] = n
  BY <1>1, <1>4 DEF Inv, TypeOK
<1>8. TypeOK'
  BY <1>1, <1>2, <1>4 DEF Finish, Inv, TypeOK, Blank, Job
<1>9. JobInv'
  BY <1>3, <1>6, <1>7 DEF Moves, Inv, JobInv
<1>10. n # None => n \in Holds(t)
  BY <1>4 DEF Holds
<1>11. \A s \in Threads \ {t} : Holds(s)' = Holds(s) /\ job'[s].product = job[s].product
  BY <1>3 DEF Holds, Moves
<1>12. Holds(t)' = {}
  BY <1>3 DEF Holds, Moves, Blank
<1>13. n # None => /\ \A q \in Products : image[q] # n
                   /\ \A s \in Threads \ {t} : n \notin Holds(s)
  BY <1>2, <1>10, NoFileAssumption DEF Inv, OwnedInv
<1>14. OwnedInv'
  <2>1. \A q \in Products : image'[q] \in used' \cup {None}
    BY <1>2, <1>6, <1>7, <1>10 DEF Inv, OwnedInv
  <2>2. \A s \in Threads : Holds(s)' \subseteq used'
    BY <1>2, <1>11, <1>12 DEF Inv, OwnedInv
  <2>3. \A q, r \in Products : image'[q] = image'[r] /\ image'[q] # None => q = r
    BY <1>6, <1>7, <1>13 DEF Inv, OwnedInv
  <2>4. \A s \in Threads, q \in Products : image'[q] \in Holds(s)' => job'[s].product = q
    <3>1. \A s \in Threads : None \notin Holds(s)
      BY DEF Holds
    <3> QED
      BY <1>6, <1>7, <1>11, <1>12, <1>13, <3>1 DEF Inv, OwnedInv
  <2>5. \A r, s \in Threads : Holds(r)' \cap Holds(s)' # {} =>
           r = s \/ (job'[r].product = job'[s].product /\ job'[s].product # None)
    BY <1>11, <1>12 DEF Inv, OwnedInv
  <2> QED
    BY <2>1, <2>2, <2>3, <2>4, <2>5 DEF OwnedInv
<1>15. \A s \in Threads, q \in Products : job'[s].product = q => s # t /\ q # p
  BY <1>3, <1>5, NoFileAssumption DEF Moves, Blank
<1>16. AloneInv'
  BY <1>2, <1>3, <1>6, <1>15 DEF Moves, Inv, AloneInv
<1>17. \A q \in Products \ {p} : q \in Clean' <=> q \in Clean
  BY <1>2, <1>6 DEF Clean, Listed
<1>18. FileInv'
  BY <1>2, <1>3, <1>15, <1>17, NoFileAssumption DEF Moves, Blank, Inv, FileInv, Clean, Listed
<1>19. PicturesPresent'
  <2>1. n \in disk \cup {None}
    BY <1>2, <1>4 DEF Inv, FileInv
  <2>2. ASSUME NEW q \in Clean', q # p
        PROVE  \/ image'[q] \in disk' \cup {None}
               \/ \E s \in Threads : job'[s].product = q /\ pc'[s] \in {"update", "delete"}
    <3>1. q \in Clean /\ q \in Products
      BY <1>17, <2>2 DEF Clean, Listed
    <3>2. image'[q] = image[q]
      BY <1>6, <2>2, <3>1
    <3> QED
      BY <1>2, <1>3, <3>1, <3>2 DEF Moves, Inv, PicturesPresent
  <2> QED
    BY <1>2, <1>7, <2>1, <2>2 DEF PicturesPresent
<1>20. KeptInv'
  <2> SUFFICES ASSUME overlapped = {}, interrupted = {}, NEW f \in disk
               PROVE  \/ \E q \in Listed' : image'[q] = f
                      \/ \E s \in Threads :
                            job'[s].new = f /\ pc'[s] \in {"insert", "unlink", "update"}
    BY <1>2 DEF KeptInv
  <2>1. CASE f = n
    BY <1>7, <2>1 DEF Listed
  <2>2. CASE \E q \in Listed : image[q] = f
    <3>1. PICK q \in Listed : image[q] = f
      BY <2>2
    <3>2. q \in Products /\ q # p
      BY <1>1, <3>1 DEF Listed
    <3> QED
      BY <1>6, <3>1, <3>2 DEF Listed
  <2>3. CASE \E s \in Threads : job[s].new = f /\ pc[s] \in {"insert", "unlink", "update"}
    BY <1>3, <1>4, <2>1, <2>3 DEF Moves
  <2> QED
    BY <2>1, <2>2, <2>3 DEF Inv, KeptInv
<1> QED
  BY <1>8, <1>9, <1>14, <1>16, <1>18, <1>19, <1>20 DEF Inv
-----------------------------------------------------------------------------
(* Editing and deleting a product                                          *)

\* The row is read as it is; who is not alone is recorded.
LEMMA ReadProductPreserves ==
    ASSUME Inv, NEW t \in Threads, NEW phase \in {"edit", "remove"}, ReadProduct(t, phase)
    PROVE  Inv'
<1>1. PICK p \in Listed :
        /\ job' = [job EXCEPT ![t] = [product |-> p, read |-> image[p], new |-> image[p]]]
        /\ overlapped' = IF \E s \in Threads \ {t} : job[s].product = p
                         THEN overlapped \cup {p} ELSE overlapped
  BY DEF ReadProduct
<1> DEFINE j == [product |-> p, read |-> image[p], new |-> image[p]]
<1>2. /\ p \in Products /\ row[p] = "listed"
      /\ image[p] \in Files \cup {None} /\ image[p] \in used \cup {None}
      /\ j \in Job /\ j.product = p /\ j.read = image[p] /\ j.new = image[p]
  BY DEF Listed, Job, Inv, TypeOK, OwnedInv
<1>3. /\ pc[t] = "idle" /\ pc' = [pc EXCEPT ![t] = phase] /\ job[t] = Blank
      /\ UNCHANGED <<row, image, disk, used, interrupted>>
  BY DEF ReadProduct, Goto, Inv, JobInv
<1> HIDE DEF j
<1>4. Moves(t, phase, j)
  BY <1>1, <1>3 DEF Moves, Inv, TypeOK, j
<1>5. TypeOK'
  BY <1>1, <1>2, <1>3 DEF Inv, TypeOK, j
<1>6. JobInv'
  BY <1>2, <1>3, <1>4 DEF Moves, Inv, JobInv
<1>7. Holds(t)' = {image[p]} \ {None}
  BY <1>2, <1>4 DEF Holds, Moves
<1>8. \A s \in Threads \ {t} : Holds(s)' = Holds(s) /\ job'[s].product = job[s].product
  BY <1>4 DEF Holds, Moves
<1>9. job'[t].product = p /\ p # None
  BY <1>2, <1>4, NoFileAssumption DEF Moves
<1>10. OwnedInv'
  <2>1. \A s \in Threads : Holds(s)' \subseteq used'
    BY <1>2, <1>3, <1>7, <1>8 DEF Inv, OwnedInv
  <2>2. \A s \in Threads, q \in Products : image'[q] \in Holds(s)' => job'[s].product = q
    BY <1>2, <1>3, <1>7, <1>8, <1>9 DEF Inv, OwnedInv
  <2>3. ASSUME NEW s \in Threads, s # t, Holds(s)' \cap Holds(t)' # {}
        PROVE  job'[s].product = p
    BY <1>2, <1>7, <1>8, <2>3 DEF Inv, OwnedInv
  <2>4. \A r, s \in Threads : Holds(r)' \cap Holds(s)' # {} =>
           r = s \/ (job'[r].product = job'[s].product /\ job'[s].product # None)
    BY <1>8, <1>9, <2>3 DEF Inv, OwnedInv
  <2> QED
    BY <1>3, <2>1, <2>2, <2>4 DEF Inv, OwnedInv
<1>11. AloneInv'
  <2> SUFFICES ASSUME NEW q \in Products \ overlapped'
               PROVE  /\ \A r, s \in Threads : job'[r].product = q /\ job'[s].product = q => r = s
                      /\ \A s \in Threads : job'[s].product = q =>
                            row[q] = "listed" /\ job'[s].read = image[q]
    BY <1>3 DEF AloneInv
  <2>1. q \notin overlapped
    BY <1>1
  <2>2. CASE q = p
    <3>1. \A s \in Threads \ {t} : job'[s].product # p
      BY <1>1, <1>8, <2>2
    <3> QED
      BY <1>2, <1>4, <2>2, <3>1 DEF Moves
  <2>3. CASE q # p
    BY <1>4, <1>9, <2>1, <2>3 DEF Moves, Inv, AloneInv
  <2> QED
    BY <2>2, <2>3
<1>12. \A q : q \in Clean' => q \in Clean
  BY <1>1, <1>3 DEF Clean, Listed
<1>13. FileInv'
  BY <1>3, <1>4, <1>12 DEF Moves, Inv, FileInv
<1>14. PicturesPresent'
  BY <1>3, <1>4, <1>12 DEF Moves, Inv, PicturesPresent
<1>15. KeptInv'
  <2>1. overlapped' = {} => overlapped = {}
    BY <1>1
  <2> QED
    BY <1>3, <1>4, <2>1 DEF Moves, Inv, KeptInv, Listed
<1> QED
  BY <1>5, <1>6, <1>10, <1>11, <1>13, <1>14, <1>15 DEF Inv

\* The new file is not the old one.
LEMMA EditWithNewImagePreserves ==
    ASSUME Inv, NEW t \in Threads, EditWithNewImage(t)
    PROVE  Inv'
<1>1. PICK f \in Files :
        /\ f \notin used
        /\ disk' = disk \cup {f}
        /\ used' = used \cup {f}
        /\ job' = [job EXCEPT ![t].new = f]
  BY DEF EditWithNewImage, SaveImage, Fresh
<1>2. PICK j \in Job : j = [job[t] EXCEPT !.new = f]
  BY DEF Inv, TypeOK, Job
<1>3. j.product = job[t].product /\ j.read = job[t].read /\ j.new = f
  BY <1>2 DEF Inv, TypeOK, Job
<1>4. /\ pc[t] = "edit" /\ pc' = [pc EXCEPT ![t] = "unlink"]
      /\ job' = [job EXCEPT ![t] = j]
      /\ UNCHANGED <<row, image, overlapped, interrupted>>
  BY <1>1, <1>2 DEF EditWithNewImage, Goto, Inv, TypeOK
<1>5. Moves(t, "unlink", j)
  BY <1>4 DEF Moves, Inv, TypeOK
<1>6. TypeOK'
  BY <1>1, <1>4 DEF Inv, TypeOK
<1>7. JobInv'
  BY <1>3, <1>4, <1>5 DEF Moves, Inv, JobInv
<1>8. OwnedInv' /\ AloneInv'
  BY <1>1, <1>3, <1>4, <1>5, NamesKept
<1>9. \A s \in Threads : job[s].read # f
  BY <1>1, NoFileAssumption DEF Inv, OwnedInv, Holds
<1>10. FileInv'
  BY <1>1, <1>3, <1>4, <1>5, <1>9 DEF Moves, Inv, FileInv, Clean, Listed
<1>11. PicturesPresent'
  BY <1>1, <1>4, <1>5 DEF Moves, Inv, PicturesPresent, Clean, Listed
<1>12. KeptInv'
  BY <1>1, <1>3, <1>4, <1>5 DEF Moves, Inv, KeptInv, Listed
<1> QED
  BY <1>6, <1>7, <1>8, <1>10, <1>11, <1>12 DEF Inv

\* No picture is asked for: there is no file to store.
LEMMA EditRemovingImagePreserves ==
    ASSUME Inv, NEW t \in Threads, EditRemovingImage(t)
    PROVE  Inv'
<1>1. PICK j \in Job : j = [job[t] EXCEPT !.new = None]
  BY DEF Inv, TypeOK, Job
<1>2. j.product = job[t].product /\ j.read = job[t].read /\ j.new = None
  BY <1>1 DEF Inv, TypeOK, Job
<1>3. /\ pc[t] = "edit" /\ pc' = [pc EXCEPT ![t] = "unlink"]
      /\ job' = [job EXCEPT ![t] = j]
      /\ UNCHANGED <<row, image, disk, used, overlapped, interrupted>>
  BY <1>1 DEF EditRemovingImage, Goto, Inv, TypeOK
<1>4. Moves(t, "unlink", j)
  BY <1>3 DEF Moves, Inv, TypeOK
<1>5. TypeOK'
  BY <1>3 DEF Inv, TypeOK
<1>6. JobInv'
  BY <1>2, <1>3, <1>4 DEF Moves, Inv, JobInv
<1>7. OwnedInv' /\ AloneInv'
  BY <1>2, <1>3, <1>4, NamesKept
<1>8. FileInv'
  BY <1>2, <1>3, <1>4 DEF Moves, Inv, FileInv, Clean, Listed
<1>9. PicturesPresent'
  BY <1>3, <1>4 DEF Moves, Inv, PicturesPresent, Clean, Listed
<1>10. KeptInv'
  BY <1>3, <1>4 DEF Moves, Inv, KeptInv, Listed
<1> QED
  BY <1>5, <1>6, <1>7, <1>8, <1>9, <1>10 DEF Inv

\* A request that changes the text stores the name it has read, of a file that
\* is there if nobody interferes.
LEMMA EditTextPreserves ==
    ASSUME Inv, NEW t \in Threads, EditText(t)
    PROVE  Inv'
<1>1. /\ pc[t] = "edit" /\ pc' = [pc EXCEPT ![t] = "update"]
      /\ UNCHANGED <<row, image, disk, used, job, overlapped, interrupted>>
      /\ job[t].new = job[t].read
  BY DEF EditText, Goto, Inv, JobInv
<1>2. Moves(t, "update", job[t])
  BY <1>1 DEF Moves, Inv, TypeOK
<1>3. TypeOK'
  BY <1>1 DEF Inv, TypeOK
<1>4. JobInv'
  BY <1>1, <1>2 DEF Moves, Inv, JobInv
<1>5. OwnedInv' /\ AloneInv'
  <2>1. job[t].new \in Holds(t) \cup {None}
    BY DEF Holds
  <2> QED
    BY <1>1, <1>2, <2>1, NamesKept
<1>6. job[t].product \in Clean => job[t].new \in disk \cup {None}
  <2> SUFFICES ASSUME job[t].product \in Clean
               PROVE  image[job[t].product] \in disk \cup {None}
    BY <1>1 DEF Inv, AloneInv, Clean, Listed
  <2>1. \A s \in Threads : job[s].product = job[t].product => s = t
    BY DEF Inv, AloneInv, Clean, Listed
  <2> QED
    BY <1>1, <2>1 DEF Inv, PicturesPresent
<1>7. FileInv'
  BY <1>1, <1>2, <1>6 DEF Moves, Inv, FileInv, Clean, Listed
<1>8. PicturesPresent'
  BY <1>1, <1>2 DEF Moves, Inv, PicturesPresent, Clean, Listed
<1>9. KeptInv'
  BY <1>1, <1>2 DEF Moves, Inv, KeptInv, Listed
<1> QED
  BY <1>3, <1>4, <1>5, <1>7, <1>8, <1>9 DEF Inv

\* A refused edit leaves everything as it was.
LEMMA RefuseEditPreserves ==
    ASSUME Inv, NEW t \in Threads, RefuseEdit(t)
    PROVE  Inv'
<1>1. /\ pc[t] = "edit" /\ Finish(t)
      /\ UNCHANGED <<row, image, disk, used, overlapped, interrupted>>
  BY DEF RefuseEdit
<1>2. Moves(t, "idle", Blank)
  BY <1>1, Finished DEF Inv
<1>3. TypeOK'
  BY <1>1 DEF Finish, Inv, TypeOK, Blank, Job
<1>4. JobInv'
  BY <1>1, <1>2 DEF Moves, Inv, JobInv
<1>5. OwnedInv' /\ AloneInv'
  BY <1>1, <1>2, NamesKept DEF Blank
<1>6. FileInv'
  BY <1>1, <1>2 DEF Moves, Inv, FileInv, Clean, Listed
<1>7. PicturesPresent'
  BY <1>1, <1>2 DEF Moves, Inv, PicturesPresent, Clean, Listed
<1>8. KeptInv'
  BY <1>1, <1>2 DEF Moves, Inv, KeptInv, Listed
<1> QED
  BY <1>3, <1>4, <1>5, <1>6, <1>7, <1>8 DEF Inv

\* Removing the file a request has read takes no file away from another
\* product, nor from a request about another product.
LEMMA UnlinkPreserves ==
    ASSUME Inv, NEW t \in Threads,
           NEW phase, \/ pc[t] = "unlink" /\ phase = "update"
                      \/ pc[t] = "remove" /\ phase = "delete",
           Goto(t, phase), DeleteImage(job[t].read),
           UNCHANGED <<row, image, used, job, overlapped, interrupted>>
    PROVE  Inv'
<1>1. Moves(t, phase, job[t]) /\ pc' = [pc EXCEPT ![t] = phase]
  BY DEF Goto, Moves, Inv, TypeOK
<1>2. PICK g \in Files \cup {None} : g = job[t].read /\ disk' = disk \ {g}
  BY DEF DeleteImage, Inv, TypeOK, Job
<1>3. PICK p \in Products : p = job[t].product
  BY DEF Inv, JobInv
<1>4. TypeOK'
  BY <1>1, <1>2 DEF Inv, TypeOK
<1>5. JobInv'
  BY <1>1 DEF Moves, Inv, JobInv
<1>6. OwnedInv' /\ AloneInv'
  <2>1. job[t].new \in Holds(t) \cup {None}
    BY DEF Holds
  <2> QED
    BY <1>1, <2>1, NamesKept
<1>7. g \in Holds(t) \/ g = None
  BY <1>2 DEF Holds
<1>8. \A q \in Products : image[q] = g /\ g # None => q = p
  BY <1>3, <1>7 DEF Inv, OwnedInv
<1>9. ASSUME NEW s \in Threads, s # t, job[s].new = g, g # None
      PROVE  job[s].product = p
  <2>1. g \in Holds(s)
    BY <1>9 DEF Holds
  <2> QED
    BY <1>3, <1>7, <1>9, <2>1 DEF Inv, OwnedInv
<1>10. FileInv'
  <2> SUFFICES ASSUME NEW s \in Threads
               PROVE  /\ pc'[s] = "insert" => job[s].new \in disk' \cup {None}
                      /\ job[s].product \in Clean /\ pc'[s] \in {"unlink", "update"} =>
                           job[s].new \in disk' \cup {None}
                      /\ pc'[s] = "unlink" => job[s].new = None \/ job[s].new # job[s].read
                      /\ pc'[s] = "delete" \/ (pc'[s] = "update" /\ job[s].new # job[s].read) =>
                           job[s].read \notin disk'
    BY DEF FileInv, Clean, Listed
  <2>1. CASE s = t
    BY <1>1, <1>2, <2>1 DEF Moves, Inv, FileInv
  <2>2. CASE s # t
    <3>1. pc[s] = "insert" => job[s].new # g \/ g = None
      BY <1>3, <1>9, <2>2, NoFileAssumption DEF Inv, JobInv
    <3>2. job[s].product \in Clean => job[s].new # g \/ g = None
      BY <1>3, <1>9, <2>2 DEF Inv, AloneInv, Clean, Listed
    <3> QED
      BY <1>1, <1>2, <2>2, <3>1, <3>2 DEF Moves, Inv, FileInv
  <2> QED
    BY <2>1, <2>2
<1>11. PicturesPresent'
  <2> SUFFICES ASSUME NEW q \in Clean
               PROVE  \/ image[q] \in disk' \cup {None}
                      \/ \E s \in Threads : job[s].product = q /\ pc'[s] \in {"update", "delete"}
    BY DEF PicturesPresent, Clean, Listed
  <2>1. CASE q = p
    BY <1>1, <1>3, <2>1 DEF Moves
  <2>2. CASE q # p
    <3>1. image[q] # g \/ g = None
      BY <1>8, <2>2 DEF Clean, Listed
    <3> QED
      BY <1>1, <1>2, <1>3, <2>2, <3>1 DEF Moves, Inv, PicturesPresent
  <2> QED
    BY <2>1, <2>2
<1>12. KeptInv'
  BY <1>1, <1>2 DEF Moves, Inv, KeptInv, Listed
<1> QED
  BY <1>4, <1>5, <1>6, <1>10, <1>11, <1>12 DEF Inv

\* What is stored belongs to the product, and replaces a picture whose file is
\* gone.
LEMMA UpdateProductPreserves ==
    ASSUME Inv, NEW t \in Threads, UpdateProduct(t)
    PROVE  Inv'
<1>1. PICK p \in Products, n \in Files \cup {None} : p = job[t].product /\ n = job[t].new
  BY DEF UpdateProduct, Inv, TypeOK, JobInv, Job
<1>2. /\ pc[t] = "update" /\ Finish(t)
      /\ image' = IF p \in Listed THEN [image EXCEPT ![p] = n] ELSE image
      /\ UNCHANGED <<row, disk, used, overlapped, interrupted>>
  BY <1>1 DEF UpdateProduct
<1>3. Moves(t, "idle", Blank)
  BY <1>2, Finished DEF Inv
<1>4. TypeOK'
  BY <1>2 DEF Finish, Inv, TypeOK, Blank, Job
<1>5. JobInv'
  BY <1>2, <1>3 DEF Moves, Inv, JobInv
<1>6. \A q \in Products \ {p} : image'[q] = image[q]
  BY <1>2 DEF Inv, TypeOK
<1>7. image'[p] \in {image[p], n} /\ (p \in Listed => image'[p] = n)
  BY <1>2 DEF Inv, TypeOK
<1>8. \A s \in Threads \ {t} : Holds(s)' = Holds(s) /\ job'[s].product = job[s].product
  BY <1>3 DEF Holds, Moves
<1>9. Holds(t)' = {}
  BY <1>3 DEF Holds, Moves, Blank
<1>10. n # None => n \in Holds(t)
  BY <1>1 DEF Holds
<1>11. n # None => /\ \A q \in Products : image[q] = n => q = p
                   /\ \A s \in Threads : n \in Holds(s) => job[s].product = p
  BY <1>1, <1>10 DEF Inv, OwnedInv
<1>12. OwnedInv'
  <2>1. \A q \in Products : image'[q] \in used' \cup {None}
    BY <1>2, <1>6, <1>7, <1>10 DEF Inv, OwnedInv
  <2>2. \A s \in Threads : Holds(s)' \subseteq used'
    BY <1>2, <1>8, <1>9 DEF Inv, OwnedInv
  <2>3. \A q, r \in Products : image'[q] = image'[r] /\ image'[q] # None => q = r
    BY <1>6, <1>7, <1>11 DEF Inv, OwnedInv
  <2>4. \A s \in Threads, q \in Products : image'[q] \in Holds(s)' => job'[s].product = q
    <3>1. \A s \in Threads : None \notin Holds(s)
      BY DEF Holds
    <3> QED
      BY <1>6, <1>7, <1>8, <1>9, <1>11, <3>1 DEF Inv, OwnedInv
  <2>5. \A r, s \in Threads : Holds(r)' \cap Holds(s)' # {} =>
           r = s \/ (job'[r].product = job'[s].product /\ job'[s].product # None)
    BY <1>8, <1>9 DEF Inv, OwnedInv
  <2> QED
    BY <2>1, <2>2, <2>3, <2>4, <2>5 DEF OwnedInv
<1>13. \A s \in Threads : job'[s].product \in Products => s # t
  BY <1>3, NoFileAssumption DEF Moves, Blank
<1>14. p \notin overlapped => /\ \A s \in Threads : job'[s].product # p
                              /\ row[p] = "listed" /\ job[t].read = image[p]
  BY <1>1, <1>3, <1>13 DEF Moves, Inv, AloneInv
<1>15. AloneInv'
  <2> SUFFICES ASSUME NEW q \in Products \ overlapped
               PROVE  /\ \A r, s \in Threads : job'[r].product = q /\ job'[s].product = q => r = s
                      /\ \A s \in Threads : job'[s].product = q =>
                            row[q] = "listed" /\ job'[s].read = image'[q]
    BY <1>2 DEF AloneInv
  <2>1. CASE q = p
    BY <1>14, <2>1
  <2>2. CASE q # p
    BY <1>3, <1>6, <1>13, <2>2 DEF Moves, Inv, AloneInv
  <2> QED
    BY <2>1, <2>2
<1>16. FileInv'
  BY <1>2, <1>3 DEF Moves, Inv, FileInv, Clean, Listed
<1>17. PicturesPresent'
  <2> SUFFICES ASSUME NEW q \in Clean
               PROVE  \/ image'[q] \in disk \cup {None}
                      \/ \E s \in Threads : job'[s].product = q /\ pc'[s] \in {"update", "delete"}
    BY <1>2 DEF PicturesPresent, Clean, Listed
  <2>1. CASE q = p
    BY <1>1, <1>2, <1>7, <2>1 DEF Inv, FileInv, Clean
  <2>2. CASE q # p
    BY <1>1, <1>3, <1>6, <2>2 DEF Moves, Inv, PicturesPresent, Clean, Listed
  <2> QED
    BY <2>1, <2>2
<1>18. KeptInv'
  <2> SUFFICES ASSUME overlapped = {}, interrupted = {}, NEW f \in disk
               PROVE  \/ \E q \in Listed : image'[q] = f
                      \/ \E s \in Threads :
                            job'[s].new = f /\ pc'[s] \in {"insert", "unlink", "update"}
    BY <1>2 DEF KeptInv, Listed
  <2>1. p \in Listed /\ image'[p] = n
    BY <1>7, <1>14 DEF Listed
  <2>2. CASE f = n
    BY <2>1, <2>2
  <2>3. CASE \E q \in Listed : image[q] = f
    <3>1. PICK q \in Listed : image[q] = f
      BY <2>3
    <3>2. q = p => f = n
      BY <1>1, <1>2, <1>14, <3>1 DEF Inv, FileInv
    <3> QED
      BY <1>6, <2>2, <3>1, <3>2 DEF Listed
  <2>4. CASE \E s \in Threads : job[s].new = f /\ pc[s] \in {"insert", "unlink", "update"}
    BY <1>1, <1>3, <2>2, <2>4 DEF Moves
  <2> QED
    BY <2>2, <2>3, <2>4 DEF Inv, KeptInv
<1> QED
  BY <1>4, <1>5, <1>12, <1>15, <1>16, <1>17, <1>18 DEF Inv

\* A deleted product has no picture any more, and its file is gone.
LEMMA DeleteRowPreserves ==
    ASSUME Inv, NEW t \in Threads, DeleteRow(t)
    PROVE  Inv'
<1>1. PICK p \in Products : p = job[t].product
  BY DEF DeleteRow, Inv, JobInv
<1>2. /\ pc[t] = "delete" /\ Finish(t)
      /\ row' = [row EXCEPT ![p] = "deleted"]
      /\ image' = [image EXCEPT ![p] = None]
      /\ UNCHANGED <<disk, used, overlapped, interrupted>>
  BY <1>1 DEF DeleteRow
<1>3. Moves(t, "idle", Blank)
  BY <1>2, Finished DEF Inv
<1>4. TypeOK'
  BY <1>2 DEF Finish, Inv, TypeOK, Blank, Job
<1>5. /\ row'[p] = "deleted" /\ image'[p] = None
      /\ \A q \in Products \ {p} : row'[q] = row[q] /\ image'[q] = image[q]
  BY <1>2 DEF Inv, TypeOK
<1>6. JobInv'
  BY <1>2, <1>3, <1>5 DEF Moves, Inv, JobInv
<1>7. \A s \in Threads \ {t} : Holds(s)' = Holds(s) /\ job'[s].product = job[s].product
  BY <1>3 DEF Holds, Moves
<1>8. Holds(t)' = {}
  BY <1>3 DEF Holds, Moves, Blank
<1>9. OwnedInv'
  <2>1. \A s \in Threads : None \notin Holds(s)
    BY DEF Holds
  <2> QED
    BY <1>2, <1>5, <1>7, <1>8, <2>1 DEF Inv, OwnedInv
<1>10. \A s \in Threads : job'[s].product \in Products => s # t
  BY <1>3, NoFileAssumption DEF Moves, Blank
<1>11. p \notin overlapped => /\ \A s \in Threads : job'[s].product # p
                              /\ job[t].read = image[p]
  BY <1>1, <1>3, <1>10 DEF Moves, Inv, AloneInv
<1>12. AloneInv'
  <2> SUFFICES ASSUME NEW q \in Products \ overlapped
               PROVE  /\ \A r, s \in Threads : job'[r].product = q /\ job'[s].product = q => r = s
                      /\ \A s \in Threads : job'[s].product = q =>
                            row'[q] = "listed" /\ job'[s].read = image'[q]
    BY <1>2 DEF AloneInv
  <2>1. CASE q = p
    BY <1>11, <2>1
  <2>2. CASE q # p
    BY <1>3, <1>5, <1>10, <2>2 DEF Moves, Inv, AloneInv
  <2> QED
    BY <2>1, <2>2
<1>13. \A q : q \in Clean' => q \in Clean /\ q # p
  BY <1>2, <1>5 DEF Clean, Listed
<1>14. FileInv'
  BY <1>2, <1>3, <1>13 DEF Moves, Inv, FileInv
<1>15. PicturesPresent'
  BY <1>1, <1>2, <1>3, <1>5, <1>13 DEF Moves, Inv, PicturesPresent, Clean, Listed
<1>16. KeptInv'
  <2> SUFFICES ASSUME overlapped = {}, interrupted = {}, NEW f \in disk
               PROVE  \/ \E q \in Listed' : image'[q] = f
                      \/ \E s \in Threads :
                            job'[s].new = f /\ pc'[s] \in {"insert", "unlink", "update"}
    BY <1>2 DEF KeptInv
  <2>1. image[p] # f
    BY <1>2, <1>11 DEF Inv, FileInv
  <2>2. CASE \E q \in Listed : image[q] = f
    BY <1>5, <2>1, <2>2 DEF Listed
  <2>3. CASE \E s \in Threads : job[s].new = f /\ pc[s] \in {"insert", "unlink", "update"}
    BY <1>2, <1>3, <2>3 DEF Moves
  <2> QED
    BY <2>2, <2>3 DEF Inv, KeptInv
<1> QED
  BY <1>4, <1>6, <1>9, <1>12, <1>14, <1>15, <1>16 DEF Inv

\* A request that dies is recorded against its product.
LEMMA DiePreserves ==
    ASSUME Inv, NEW t \in Threads, Die(t)
    PROVE  Inv'
<1>1. /\ pc[t] # "idle" /\ Finish(t)
      /\ interrupted' = interrupted \cup {job[t].product}
      /\ UNCHANGED <<row, image, disk, used, overlapped>>
  BY DEF Die
<1>2. Moves(t, "idle", Blank)
  BY <1>1, Finished DEF Inv
<1>3. TypeOK'
  BY <1>1 DEF Finish, Inv, TypeOK, Blank, Job
<1>4. JobInv'
  BY <1>1, <1>2 DEF Moves, Inv, JobInv
<1>5. OwnedInv' /\ AloneInv'
  BY <1>1, <1>2, NamesKept DEF Blank
<1>6. \A q : q \in Clean' => q \in Clean /\ q # job[t].product
  BY <1>1 DEF Clean, Listed
<1>7. FileInv'
  BY <1>1, <1>2, <1>6 DEF Moves, Inv, FileInv
<1>8. PicturesPresent'
  BY <1>1, <1>2, <1>6 DEF Moves, Inv, PicturesPresent
<1>9. KeptInv'
  BY <1>1 DEF KeptInv
<1> QED
  BY <1>3, <1>4, <1>5, <1>7, <1>8, <1>9 DEF Inv

-----------------------------------------------------------------------------
(* Theorems                                                                *)

\* There are no products, files or requests at first.
LEMMA InitInv == Init => Inv
<1> SUFFICES ASSUME Init
             PROVE  Inv
  OBVIOUS
<1>1. TypeOK
  BY DEF Init, TypeOK, Job, Blank
<1>2. JobInv /\ FileInv
  BY DEF Init, JobInv, FileInv
<1>3. OwnedInv
  BY DEF Init, OwnedInv, Holds, Blank
<1>4. AloneInv
  BY NoFileAssumption DEF Init, AloneInv, Blank
<1>5. PicturesPresent /\ KeptInv
  BY DEF Init, PicturesPresent, KeptInv, Clean, Listed
<1> QED
  BY <1>1, <1>2, <1>3, <1>4, <1>5 DEF Inv

\* Every step preserves the invariant.
LEMMA NextInv == Inv /\ [Next]_vars => Inv'
<1> SUFFICES ASSUME Inv, [Next]_vars
             PROVE  Inv'
  OBVIOUS
<1>1. CASE UNCHANGED vars
  BY <1>1
  DEF vars, Inv, TypeOK, JobInv, OwnedInv, AloneInv, FileInv, PicturesPresent, KeptInv,
      Holds, Clean, Listed
<1>2. ASSUME NEW t \in Threads, UploadForCreate(t) \/ InsertProduct(t)
      PROVE  Inv'
  BY <1>2, UploadForCreatePreserves, InsertProductPreserves
<1>3. ASSUME NEW t \in Threads, StartEdit(t) \/ StartDelete(t)
      PROVE  Inv'
  BY <1>3, ReadProductPreserves DEF StartEdit, StartDelete
<1>4. ASSUME NEW t \in Threads,
             EditWithNewImage(t) \/ EditRemovingImage(t) \/ EditText(t) \/ RefuseEdit(t)
      PROVE  Inv'
  BY <1>4, EditWithNewImagePreserves, EditRemovingImagePreserves, EditTextPreserves,
     RefuseEditPreserves
<1>5. ASSUME NEW t \in Threads, UnlinkReplaced(t) \/ UnlinkDeleted(t)
      PROVE  Inv'
  BY <1>5, UnlinkPreserves DEF UnlinkReplaced, UnlinkDeleted
<1>6. ASSUME NEW t \in Threads, UpdateProduct(t) \/ DeleteRow(t) \/ Die(t)
      PROVE  Inv'
  BY <1>6, UpdateProductPreserves, DeleteRowPreserves, DiePreserves
<1> QED
  BY <1>1, <1>2, <1>3, <1>4, <1>5, <1>6 DEF Next

\* The invariant holds in every reachable state.
LEMMA Invariance == Spec => []Inv
BY InitInv, NextInv, PTL DEF Spec

\* Every variable stays in its type; in particular what is stored is always a
\* file name or NULL, and every file has a name that was made for it.
THEOREM TypeCorrect == Spec => []TypeOK
<1>1. Inv => TypeOK
  BY DEF Inv
<1> QED
  BY <1>1, Invariance, PTL

\* The picture of a product is there as long as requests on it run alone and
\* to their end, but for the moment in which it is replaced or removed; what
\* happens to other products does not matter.
THEOREM Present == Spec => []PicturesPresent
<1>1. Inv => PicturesPresent
  BY DEF Inv
<1> QED
  BY <1>1, Invariance, PTL

\* Requests that do not overlap and do not die leave no file behind, whatever
\* sequence of creations, edits and deletions they are.
THEOREM NothingLeft == Spec => []NoOrphans
<1>1. Inv => NoOrphans
  <2> SUFFICES ASSUME Inv, \A t \in Threads : pc[t] = "idle", overlapped = {}, interrupted = {}
               PROVE  disk = {image[p] : p \in Listed} \ {None}
    BY DEF NoOrphans
  <2>1. \A f \in disk : \E p \in Listed : image[p] = f
    BY DEF Inv, KeptInv
  <2>2. \A p \in Listed : image[p] \in disk \cup {None}
    BY DEF Inv, PicturesPresent, Clean
  <2>3. None \notin disk
    BY NoFileAssumption DEF Inv, TypeOK
  <2> QED
    BY <2>1, <2>2, <2>3
<1> QED
  BY <1>1, Invariance, PTL

\* No two products ever share a file, whatever overlaps or dies.
THEOREM Unshared == Spec => []NoSharedFile
<1>1. Inv => NoSharedFile
  BY DEF Inv, OwnedInv, NoSharedFile, Listed
<1> QED
  BY <1>1, Invariance, PTL
=============================================================================
