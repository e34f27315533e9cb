---------------------------- MODULE WalletProofs ----------------------------
(***************************************************************************)
(* Proofs about Wallet, for any users, products, requests and amounts.     *)
(***************************************************************************)
EXTENDS Wallet, FiniteSetTheorems, WellFoundedInduction, TLAPS

-----------------------------------------------------------------------------
(* The inductive invariant                                                 *)

\* Exactly the holder of the write lock is inside its transaction.
LockInv == \A r \in TReqs : pc[r] \in InTransaction <=> lock = r

\* What a transfer has established by the time it reaches each step.
FormInv ==
    \A r \in TReqs :
        /\ pc[r] \notin {"peek", "write"}
        /\ pc[r] \in {"recipient", "product", "begin"} \cup InTransaction =>
             /\ form[r] \in TransferForm
             /\ form[r].sender \in accounts
        /\ pc[r] \in {"product", "begin"} \cup InTransaction =>
             /\ form[r].receiver \in accounts
             /\ form[r].receiver # form[r].sender
        /\ pc[r] = "commit" => form[r].product \in listed \cup {None}

\* The transaction's image is the committed balances plus the statements it
\* has executed so far: nobody writes balances while it runs.
ImageAgrees(r) ==
    LET s == form[r].sender
        t == form[r].receiver
        a == form[r].amount
    IN /\ pc[r] \in {"read", "debit"} => image[r] = balance
       /\ pc[r] \in {"debit", "credit", "insert", "commit"} => balance[s] >= a
       /\ pc[r] = "credit" => image[r] = [balance EXCEPT ![s] = @ - a]
       /\ pc[r] \in {"insert", "commit"} =>
            image[r] = [balance EXCEPT ![s] = @ - a, ![t] = @ + a]

\* So it is for every transfer.
ImageInv == \A r \in TReqs : ImageAgrees(r)

\* What an adjustment has established.
AdjustInv ==
    \A r \in AReqs :
        /\ pc[r] \notin {"recipient", "product", "begin", "audit_failed"} \cup InTransaction
        /\ pc[r] \in {"peek", "write"} =>
             /\ adjust[r] \in AdjustForm
             /\ adjust[r].user \in accounts
        /\ pc[r] = "write" => adjust[r].before + adjust[r].delta \in Nat

\* A request has a row in the history only after its commit.
HistoryInv ==
    /\ \A t \in transfers : pc[t.id] \in {"audit", "done", "dead"}
    /\ \A r \in TReqs : pc[r] = "audit" => \E t \in transfers : t.id = r
    /\ \A r \in AReqs : pc[r] = "audit" => \E a \in adjustments : a.id = r
    /\ \A e \in log : pc[e.id] = "done"

\* The inductive invariant of the steps, without the sums of the history.
Inv ==
    /\ TypeOK
    /\ LockInv
    /\ FormInv
    /\ ImageInv
    /\ AdjustInv
    /\ HistoryInv
    /\ NoDanglingProduct
    /\ AuditHonest
-----------------------------------------------------------------------------
(* What a step of one request leaves alone                                 *)

\* A request's move between two phases before its commit changes no row, so
\* nothing said about the history, the foreign keys or the audit log changes.
LEMMA QuietStep ==
    ASSUME Inv, NEW r \in Reqs, NEW phase, UNCHANGED db,
           pc' = [pc EXCEPT ![r] = phase],
           pc[r] \notin {"audit", "done", "dead"}, phase # "audit"
    PROVE  HistoryInv' /\ NoDanglingProduct' /\ AuditHonest'
<1>1. HistoryInv'
  BY DEF Inv, TypeOK, HistoryInv, TransferRow, Reqs, db
<1>2. NoDanglingProduct'
  BY DEF Inv, NoDanglingProduct, db
<1>3. AuditHonest'
  BY DEF Inv, AuditHonest, db
<1> QED
  BY <1>1, <1>2, <1>3

\* A transfer's step does not concern the adjustments in progress.
LEMMA TransferLeavesAdjustments ==
    ASSUME Inv, NEW r \in TReqs, NEW phase,
           pc' = [pc EXCEPT ![r] = phase], UNCHANGED <<adjust, accounts>>
    PROVE  AdjustInv'
BY RequestsAssumption DEF Inv, TypeOK, AdjustInv, Reqs

\* An adjustment's step that writes no balance does not concern the transfers
\* in progress.
LEMMA AdjustmentLeavesTransfers ==
    ASSUME Inv, NEW r \in AReqs, NEW phase, pc' = [pc EXCEPT ![r] = phase],
           UNCHANGED <<accounts, balance, listed, lock, image, form>>
    PROVE  LockInv' /\ FormInv' /\ ImageInv'
<1>1. \A t \in TReqs : pc'[t] = pc[t]
  BY RequestsAssumption DEF Inv, TypeOK, Reqs
<1> QED
  BY <1>1 DEF Inv, LockInv, FormInv, ImageInv, ImageAgrees
-----------------------------------------------------------------------------
(* Statements of other handlers                                            *)

\* A new account's bonus is written while no transaction is running.
LEMMA RegisterPreserves ==
    ASSUME Inv, NEW u \in Users, Register(u)
    PROVE  Inv'
<1> USE DEF Register, Unlocked
<1>1. TypeOK'
  BY BonusAssumption DEF Inv, TypeOK
<1>2. LockInv' /\ FormInv' /\ AdjustInv'
  BY DEF Inv, LockInv, FormInv, AdjustInv
<1>3. ImageInv'
  \* The lock is free: no transaction is running.
  <2>1. \A r \in TReqs : pc[r] \notin InTransaction
    BY NoneAssumption DEF Inv, LockInv
  <2> QED
    BY <2>1 DEF ImageInv, ImageAgrees, InTransaction
<1>4. HistoryInv' /\ NoDanglingProduct' /\ AuditHonest'
  BY DEF Inv, HistoryInv, NoDanglingProduct, AuditHonest
<1> QED
  BY <1>1, <1>2, <1>3, <1>4 DEF Inv

\* A status change concerns none of the invariant's parts.
LEMMA ChangeStatusPreserves ==
    ASSUME Inv, NEW u \in Users, ChangeStatus(u)
    PROVE  Inv'
<1> USE DEF ChangeStatus
<1>1. TypeOK'
  BY DEF Inv, TypeOK
<1>2. LockInv' /\ FormInv' /\ AdjustInv'
  BY DEF Inv, LockInv, FormInv, AdjustInv
<1>3. ImageInv'
  BY DEF Inv, ImageInv, ImageAgrees
<1>4. HistoryInv' /\ NoDanglingProduct' /\ AuditHonest'
  BY DEF Inv, HistoryInv, NoDanglingProduct, AuditHonest
<1> QED
  BY <1>1, <1>2, <1>3, <1>4 DEF Inv

\* A deletion clears the references to the product, and cannot come between
\* a foreign key check and its commit.
LEMMA DeleteProductPreserves ==
    ASSUME Inv, NEW p \in Products, DeleteProduct(p)
    PROVE  Inv'
<1> USE DEF DeleteProduct
<1>1. TypeOK'
  BY DEF Inv, TypeOK
<1>2. LockInv' /\ AdjustInv'
  BY DEF Inv, LockInv, AdjustInv
<1>3. FormInv'
  \* No transaction is running, so none has passed its foreign key check.
  <2>1. \A r \in TReqs : pc[r] # "commit"
    BY NoneAssumption DEF Inv, LockInv, InTransaction, Unlocked
  <2> QED
    BY <2>1 DEF Inv, FormInv
<1>4. ImageInv'
  BY DEF Inv, ImageInv, ImageAgrees
<1>5. NoDanglingProduct'
  BY DEF Inv, NoDanglingProduct
<1>6. HistoryInv' /\ AuditHonest'
  BY DEF Inv, HistoryInv, AuditHonest
<1> QED
  BY <1>1, <1>2, <1>3, <1>4, <1>5, <1>6 DEF Inv

-----------------------------------------------------------------------------
(* A transfer, before its transaction                                      *)

\* Only the sender's account is known when a transfer starts.
LEMMA StartTransferPreserves ==
    ASSUME Inv, NEW r \in TReqs, StartTransfer(r)
    PROVE  Inv'
<1> USE DEF StartTransfer, Goto, db
<1>1. TypeOK'
  BY RequestsAssumption DEF Inv, TypeOK, Reqs, Phases
<1>2. LockInv' /\ FormInv' /\ ImageInv'
  BY DEF Inv, TypeOK, LockInv, FormInv, ImageInv, ImageAgrees, Reqs, InTransaction
<1>3. AdjustInv'
  BY TransferLeavesAdjustments
<1>4. HistoryInv' /\ NoDanglingProduct' /\ AuditHonest'
  BY QuietStep DEF Reqs
<1> QED
  BY <1>1, <1>2, <1>3, <1>4 DEF Inv

\* A wrong password ends the request.
LEMMA RefuseTransferPreserves ==
    ASSUME Inv, NEW r \in TReqs, RefuseTransfer(r)
    PROVE  Inv'
<1> USE DEF RefuseTransfer, Goto, db
<1>1. TypeOK'
  BY DEF Inv, TypeOK, Reqs, Phases, Ended
<1>2. LockInv' /\ FormInv' /\ ImageInv'
  BY DEF Inv, TypeOK, LockInv, FormInv, ImageInv, ImageAgrees, Reqs, InTransaction
<1>3. AdjustInv'
  BY TransferLeavesAdjustments
<1>4. HistoryInv' /\ NoDanglingProduct' /\ AuditHonest'
  BY QuietStep DEF Reqs
<1> QED
  BY <1>1, <1>2, <1>3, <1>4 DEF Inv

\* Past this check the recipient is another registered account.
LEMMA CheckRecipientPreserves ==
    ASSUME Inv, NEW r \in TReqs, CheckRecipient(r)
    PROVE  Inv'
<1> USE DEF CheckRecipient, Goto, db
<1>1. TypeOK'
  BY DEF Inv, TypeOK, Reqs, Phases, Ended
<1>2. LockInv' /\ FormInv' /\ ImageInv'
  BY DEF Inv, TypeOK, LockInv, FormInv, ImageInv, ImageAgrees, Reqs, InTransaction
<1>3. AdjustInv'
  BY TransferLeavesAdjustments
<1>4. HistoryInv' /\ NoDanglingProduct' /\ AuditHonest'
  BY QuietStep DEF Reqs
<1> QED
  BY <1>1, <1>2, <1>3, <1>4 DEF Inv

\* The form stays a form when its product is dropped.
LEMMA CheckProductPreserves ==
    ASSUME Inv, NEW r \in TReqs, CheckProduct(r)
    PROVE  Inv'
<1> USE DEF CheckProduct, Goto, db
<1>1. form'[r] \in TransferForm
  BY DEF Inv, TypeOK, FormInv, TransferForm
<1>2. TypeOK'
  BY <1>1 DEF Inv, TypeOK, Reqs, Phases
<1>3. LockInv' /\ FormInv' /\ ImageInv'
  BY <1>1 DEF Inv, TypeOK, LockInv, FormInv, ImageInv, ImageAgrees, Reqs, InTransaction, TransferForm
<1>4. AdjustInv'
  BY TransferLeavesAdjustments
<1>5. HistoryInv' /\ NoDanglingProduct' /\ AuditHonest'
  BY QuietStep DEF Reqs
<1> QED
  BY <1>2, <1>3, <1>4, <1>5 DEF Inv
-----------------------------------------------------------------------------
(* A transfer's transaction                                                *)

\* BEGIN IMMEDIATE makes the lock and the phase agree, on a fresh image.
LEMMA BeginImmediatePreserves ==
    ASSUME Inv, NEW r \in TReqs, BeginImmediate(r)
    PROVE  Inv'
<1> USE DEF BeginImmediate, Goto, Unlocked, db
<1>1. TypeOK'
  BY DEF Inv, TypeOK, Reqs, Phases, InTransaction
<1>2. LockInv' /\ FormInv'
  BY NoneAssumption DEF Inv, TypeOK, LockInv, FormInv, Reqs, InTransaction
<1>3. ImageInv'
  BY DEF Inv, TypeOK, ImageInv, ImageAgrees, Reqs
<1>4. AdjustInv'
  BY TransferLeavesAdjustments
<1>5. HistoryInv' /\ NoDanglingProduct' /\ AuditHonest'
  BY QuietStep DEF Reqs
<1> QED
  BY <1>1, <1>2, <1>3, <1>4, <1>5 DEF Inv

\* Leaving a transaction without committing: the committed rows are as before,
\* and the request is over but for its audit entry.
LEMMA RollbackPreserves ==
    ASSUME Inv, NEW r \in TReqs, pc[r] \in InTransaction,
           NEW phase \in {"refused", "audit_failed"}, Rollback(r, phase)
    PROVE  Inv'
<1> USE DEF Rollback, Goto, db
<1>1. TypeOK'
  BY DEF Inv, TypeOK, Reqs, Phases, Ended
<1>2. LockInv' /\ FormInv'
  BY NoneAssumption DEF Inv, TypeOK, LockInv, FormInv, Reqs, InTransaction
<1>3. ImageInv'
  BY DEF Inv, TypeOK, ImageInv, ImageAgrees, Reqs
<1>4. AdjustInv'
  BY TransferLeavesAdjustments
<1>5. HistoryInv' /\ NoDanglingProduct' /\ AuditHonest'
  BY QuietStep DEF Reqs, InTransaction
<1> QED
  BY <1>1, <1>2, <1>3, <1>4, <1>5 DEF Inv

\* Past this check the sender can pay, until the transaction ends.
LEMMA ReadBalancePreserves ==
    ASSUME Inv, NEW r \in TReqs, ReadBalance(r)
    PROVE  Inv'
<1>1. CASE image[r][form[r].sender] < form[r].amount
  BY <1>1, RollbackPreserves DEF ReadBalance, InTransaction
<1>2. CASE ~(image[r][form[r].sender] < form[r].amount)
  <2> USE <1>2 DEF ReadBalance, Goto
  <2>1. TypeOK'
    BY DEF Inv, TypeOK, Reqs, Phases, InTransaction, db
  <2>2. LockInv' /\ FormInv'
    BY DEF Inv, TypeOK, LockInv, FormInv, Reqs, InTransaction, db
  <2>3. ImageInv'
    <3>1. form[r].sender \in Users /\ form[r].amount \in Nat
      BY AmountsAssumption DEF Inv, FormInv, InTransaction, TransferForm
    <3>2. image[r] = balance
      BY DEF Inv, ImageInv, ImageAgrees
    <3>3. balance[form[r].sender] >= form[r].amount
      BY <3>1, <3>2 DEF Inv, TypeOK
    <3> QED
      BY <3>3 DEF Inv, TypeOK, ImageInv, ImageAgrees, Reqs, db
  <2>4. AdjustInv'
    BY TransferLeavesAdjustments DEF db
  <2>5. HistoryInv' /\ NoDanglingProduct' /\ AuditHonest'
    BY QuietStep DEF Reqs
  <2> QED
    BY <2>1, <2>2, <2>3, <2>4, <2>5 DEF Inv
<1> QED
  BY <1>1, <1>2

\* The guarded UPDATE always finds its row, because the balance was checked.
LEMMA DebitPreserves ==
    ASSUME Inv, NEW r \in TReqs, Debit(r)
    PROVE  Inv'
<1> DEFINE s == form[r].sender
           a == form[r].amount
<1>1. s \in Users /\ a \in Nat
  BY AmountsAssumption DEF Inv, FormInv, Debit, InTransaction, TransferForm
<1>2. image[r] = balance /\ balance[s] >= a
  BY DEF Inv, ImageInv, ImageAgrees, Debit
<1>3. image' = [image EXCEPT ![r] = [balance EXCEPT ![s] = @ - a]]
  BY <1>1, <1>2 DEF Inv, TypeOK, Debit
<1> HIDE DEF s, a
<1>4. [balance EXCEPT ![s] = @ - a] \in [Users -> Nat]
  BY <1>1, <1>2 DEF Inv, TypeOK
<1> USE DEF Debit, Goto
<1>5. TypeOK'
  BY <1>3, <1>4 DEF Inv, TypeOK, Reqs, Phases, InTransaction, db
<1>6. LockInv' /\ FormInv'
  BY DEF Inv, TypeOK, LockInv, FormInv, Reqs, InTransaction, db
<1>7. ImageInv'
  <2>1. \A q \in TReqs \ {r} : pc'[q] = pc[q] /\ image'[q] = image[q]
    BY <1>3 DEF Inv, TypeOK, Reqs
  <2>2. pc'[r] = "credit" /\ image'[r] = [balance EXCEPT ![s] = @ - a]
    BY <1>3 DEF Inv, TypeOK, Reqs
  <2>3. UNCHANGED <<form, balance>>
    BY DEF db
  <2> HIDE DEF Debit, Goto
  <2>4. ASSUME NEW q \in TReqs \ {r}
        PROVE  ImageAgrees(q)'
    BY <2>1, <2>3 DEF Inv, ImageInv, ImageAgrees
  <2>5. ImageAgrees(r)'
    BY <1>2, <2>2, <2>3 DEF ImageAgrees, s, a
  <2> QED
    BY <2>4, <2>5 DEF ImageInv
<1>8. AdjustInv'
  BY TransferLeavesAdjustments DEF db
<1>9. HistoryInv' /\ NoDanglingProduct' /\ AuditHonest'
  BY QuietStep DEF Reqs
<1> QED
  BY <1>5, <1>6, <1>7, <1>8, <1>9 DEF Inv

\* The image after both UPDATEs is the committed balances with the
\* amount moved.
LEMMA CreditPreserves ==
    ASSUME Inv, NEW r \in TReqs, Credit(r)
    PROVE  Inv'
<1> DEFINE s == form[r].sender
           t == form[r].receiver
           a == form[r].amount
<1>1. s \in Users /\ t \in Users /\ a \in Nat /\ s # t
  BY AmountsAssumption DEF Inv, FormInv, Credit, InTransaction, TransferForm
<1>2. image[r] = [balance EXCEPT ![s] = @ - a] /\ balance[s] >= a
  BY DEF Inv, ImageInv, ImageAgrees, Credit
<1>3. image' = [image EXCEPT ![r][t] = @ + a]
  BY DEF Credit
<1> HIDE DEF s, t, a
<1>4. image'[r] = [balance EXCEPT ![s] = @ - a, ![t] = @ + a]
  BY <1>1, <1>2, <1>3 DEF Inv, TypeOK
<1>5. [balance EXCEPT ![s] = @ - a, ![t] = @ + a] \in [Users -> Nat]
  BY <1>1, <1>2 DEF Inv, TypeOK
<1>6. /\ DOMAIN image' = TReqs
      /\ \A q \in TReqs : image'[q] \in [Users -> Nat] \cup {None}
      /\ \A q \in TReqs \ {r} : image'[q] = image[q]
      /\ image' = [q \in TReqs |-> image'[q]]
  BY <1>3, <1>4, <1>5 DEF Inv, TypeOK
<1> USE DEF Credit, Goto
<1>7. TypeOK'
  <2>1. image' \in [TReqs -> [Users -> Nat] \cup {None}]
    BY <1>6
  <2> QED
    BY <2>1 DEF Inv, TypeOK, Reqs, Phases, InTransaction, db
<1>8. LockInv' /\ FormInv'
  BY DEF Inv, TypeOK, LockInv, FormInv, Reqs, InTransaction, db
<1>9. ImageInv'
  <2>1. \A q \in TReqs \ {r} : pc'[q] = pc[q] /\ image'[q] = image[q]
    BY <1>6 DEF Inv, TypeOK, Reqs
  <2>2. pc'[r] = "insert" /\ image'[r] = [balance EXCEPT ![s] = @ - a, ![t] = @ + a]
    BY <1>4 DEF Inv, TypeOK, Reqs
  <2>3. UNCHANGED <<form, balance>>
    BY DEF db
  <2> HIDE DEF Credit, Goto
  <2>4. ImageAgrees(r)'
    BY <1>2, <2>2, <2>3 DEF ImageAgrees, s, t, a
  <2>5. \A q \in TReqs \ {r} : ImageAgrees(q)'
    BY <2>1, <2>3 DEF Inv, ImageInv, ImageAgrees
  <2> QED
    BY <2>4, <2>5 DEF ImageInv
<1>10. AdjustInv'
  BY TransferLeavesAdjustments DEF db
<1>11. HistoryInv' /\ NoDanglingProduct' /\ AuditHonest'
  BY QuietStep DEF Reqs
<1> QED
  BY <1>7, <1>8, <1>9, <1>10, <1>11 DEF Inv
\* The foreign key check holds until the commit, since the lock is held.
LEMMA InsertTransferPreserves ==
    ASSUME Inv, NEW r \in TReqs, InsertTransfer(r)
    PROVE  Inv'
<1>1. CASE form[r].product \notin listed \cup {None}
  BY <1>1, RollbackPreserves DEF InsertTransfer, InTransaction
<1>2. CASE form[r].product \in listed \cup {None}
  <2> USE <1>2 DEF InsertTransfer, Goto
  <2>1. TypeOK'
    BY DEF Inv, TypeOK, Reqs, Phases, InTransaction, db
  <2>2. LockInv' /\ FormInv'
    BY DEF Inv, TypeOK, LockInv, FormInv, Reqs, InTransaction, db
  <2>3. ImageInv'
    BY DEF Inv, TypeOK, ImageInv, ImageAgrees, Reqs, db
  <2>4. AdjustInv'
    BY TransferLeavesAdjustments DEF db
  <2>5. HistoryInv' /\ NoDanglingProduct' /\ AuditHonest'
    BY QuietStep DEF Reqs
  <2> QED
    BY <2>1, <2>2, <2>3, <2>4, <2>5 DEF Inv
<1> QED
  BY <1>1, <1>2

\* The commit installs well-formed balances and the request's only row.
LEMMA CommitPreserves ==
    ASSUME Inv, NEW r \in TReqs, Commit(r)
    PROVE  Inv'
<1> USE DEF Commit, Goto
\* r holds the lock, so no other transaction is running.
<1>1. \A q \in TReqs : pc'[q] \notin InTransaction
  BY DEF Inv, TypeOK, LockInv, Reqs, InTransaction
<1>2. /\ form[r] \in TransferForm
      /\ form[r].product \in listed \cup {None}
      /\ image[r] \in [Users -> Nat]
  <2>1. form[r] \in TransferForm /\ form[r].product \in listed \cup {None}
    BY DEF Inv, FormInv, InTransaction
  <2>2. image[r] = [balance EXCEPT ![form[r].sender] = @ - form[r].amount,
                                   ![form[r].receiver] = @ + form[r].amount]
    BY DEF Inv, ImageInv, ImageAgrees
  <2>3. form[r].sender \in Users /\ form[r].receiver \in Users /\ form[r].amount \in Nat
    BY <2>1, AmountsAssumption DEF TransferForm
  <2>4. balance \in [Users -> Nat] /\ \A u \in Users : balance[u] \in Int
    BY DEF Inv, TypeOK
  <2>5. image[r] \in [Users -> Int]
    BY <2>2, <2>3, <2>4
  <2>6. image[r] # None
    BY <2>5, NoneAssumption
  <2> QED
    BY <2>1, <2>6 DEF Inv, TypeOK
<1>3. TypeOK'
  <2>1. Row(r) \in TransferRow
    BY <1>2 DEF Row, TransferRow, TransferForm
  <2> QED
    BY <1>2, <2>1 DEF Inv, TypeOK, Reqs, Phases, TransferForm
<1>4. LockInv' /\ FormInv' /\ ImageInv'
  BY <1>1, NoneAssumption
  DEF Inv, TypeOK, LockInv, FormInv, ImageInv, ImageAgrees, Reqs, InTransaction
<1>5. AdjustInv'
  BY TransferLeavesAdjustments
<1>6. Row(r).id = r
  BY DEF Row
<1>7. HistoryInv'
  <2>1. pc' = [pc EXCEPT ![r] = "audit"] /\ pc[r] = "commit" /\ r \in Reqs
    BY DEF Reqs
  <2>2. transfers' = transfers \cup {Row(r)} /\ UNCHANGED <<adjustments, log>>
    OBVIOUS
  <2> HIDE DEF Commit
  <2> QED
    BY <1>6, <2>1, <2>2, RequestsAssumption DEF Inv, TypeOK, HistoryInv, TransferRow, Reqs
<1>8. NoDanglingProduct'
  BY <1>2 DEF Inv, TypeOK, NoDanglingProduct
<1>9. AuditHonest'
  \* No audit entry is about r yet.
  <2>1. \A e \in log : e.id # r
    BY DEF Inv, HistoryInv
  <2> QED
    BY <1>6, <2>1 DEF Inv, AuditHonest
<1> QED
  BY <1>3, <1>4, <1>5, <1>7, <1>8, <1>9 DEF Inv

-----------------------------------------------------------------------------
(* An adjustment                                                           *)

\* An adjustment starts on a registered account.
LEMMA StartAdjustPreserves ==
    ASSUME Inv, NEW r \in AReqs, StartAdjust(r)
    PROVE  Inv'
<1> USE DEF StartAdjust, Goto, db
<1>1. PICK u \in accounts, d \in Deltas :
        adjust' = [adjust EXCEPT ![r] = [user |-> u, delta |-> d, before |-> 0]]
  OBVIOUS
<1>2. adjust'[r] \in AdjustForm /\ adjust'[r].user \in accounts
  BY <1>1 DEF Inv, TypeOK, AdjustForm
<1>3. TypeOK'
  BY <1>1, <1>2 DEF Inv, TypeOK, Reqs, Phases
<1>4. LockInv' /\ FormInv' /\ ImageInv'
  BY AdjustmentLeavesTransfers
<1>5. AdjustInv'
  BY <1>1, <1>2 DEF Inv, TypeOK, AdjustInv, Reqs, InTransaction
<1>6. HistoryInv' /\ NoDanglingProduct' /\ AuditHonest'
  BY QuietStep DEF Reqs
<1> QED
  BY <1>3, <1>4, <1>5, <1>6 DEF Inv

\* The value an adjustment will write is never negative.
LEMMA PeekBalancePreserves ==
    ASSUME Inv, NEW r \in AReqs, PeekBalance(r)
    PROVE  Inv'
<1> DEFINE b == balance[adjust[r].user]
<1>1. adjust[r] \in AdjustForm /\ adjust[r].user \in accounts /\ b \in Nat
  BY DEF Inv, TypeOK, AdjustInv, PeekBalance, AdjustForm
<1>2. CASE b + adjust[r].delta < 0
  <2> USE <1>2 DEF PeekBalance, Goto, db
  <2>1. TypeOK'
    BY DEF Inv, TypeOK, Reqs, Phases, Ended
  <2>2. LockInv' /\ FormInv' /\ ImageInv'
    BY AdjustmentLeavesTransfers
  <2>3. AdjustInv'
    BY DEF Inv, TypeOK, AdjustInv, Reqs, InTransaction
  <2>4. HistoryInv' /\ NoDanglingProduct' /\ AuditHonest'
    BY QuietStep DEF Reqs
  <2> QED
    BY <2>1, <2>2, <2>3, <2>4 DEF Inv
<1>3. CASE ~(b + adjust[r].delta < 0)
  <2> USE <1>3 DEF PeekBalance, Goto, db
  <2>1. adjust' = [adjust EXCEPT ![r].before = b]
    OBVIOUS
  <2>2. /\ adjust'[r] \in AdjustForm
        /\ adjust'[r].user = adjust[r].user
        /\ adjust'[r].before + adjust'[r].delta \in Nat
    BY <1>1, <2>1, DeltasAssumption DEF Inv, TypeOK, AdjustForm
  <2>3. TypeOK'
    BY <2>1, <2>2 DEF Inv, TypeOK, Reqs, Phases
  <2>4. LockInv' /\ FormInv' /\ ImageInv'
    BY AdjustmentLeavesTransfers
  <2>5. AdjustInv'
    BY <1>1, <2>1, <2>2 DEF Inv, TypeOK, AdjustInv, Reqs, InTransaction
  <2>6. HistoryInv' /\ NoDanglingProduct' /\ AuditHonest'
    BY QuietStep DEF Reqs
  <2> QED
    BY <2>3, <2>4, <2>5, <2>6 DEF Inv
<1> QED
  BY <1>2, <1>3

\* An adjustment is written while no transaction is running.
LEMMA WriteBalancePreserves ==
    ASSUME Inv, NEW r \in AReqs, WriteBalance(r)
    PROVE  Inv'
<1> DEFINE u == adjust[r].user
           new == adjust[r].before + adjust[r].delta
           row == [id |-> r, user |-> u, before |-> adjust[r].before,
                   over |-> balance[u], after |-> new]
<1>1. /\ adjust[r] \in AdjustForm
      /\ u \in Users
      /\ new \in Nat
  BY DEF Inv, AdjustInv, WriteBalance, AdjustForm
<1>2. balance' = [balance EXCEPT ![u] = new] /\ adjustments' = adjustments \cup {row}
  BY DEF WriteBalance
<1>3. row \in AdjustRow /\ row.id = r
  BY <1>1 DEF Inv, TypeOK, AdjustRow, AdjustForm
<1> HIDE DEF u, new, row
<1>4. balance' \in [Users -> Nat] /\ adjustments' \subseteq AdjustRow
  BY <1>1, <1>2, <1>3 DEF Inv, TypeOK
<1> USE DEF WriteBalance, Goto, Unlocked
<1>5. TypeOK'
  BY <1>4 DEF Inv, TypeOK, Reqs, Phases
<1>6. \A t \in TReqs : pc'[t] = pc[t] /\ pc[t] \notin InTransaction
  BY NoneAssumption, RequestsAssumption DEF Inv, TypeOK, LockInv, Reqs
<1>7. LockInv' /\ FormInv' /\ ImageInv'
  BY <1>6 DEF Inv, LockInv, FormInv, ImageInv, ImageAgrees, InTransaction
<1>8. AdjustInv'
  BY DEF Inv, TypeOK, AdjustInv, Reqs, InTransaction
<1>9. HistoryInv'
  <2>1. \A t \in transfers : t.id # r /\ t.id \in Reqs
    BY RequestsAssumption DEF Inv, TypeOK, TransferRow, Reqs
  <2>2. pc' = [pc EXCEPT ![r] = "audit"] /\ pc[r] = "write"
    OBVIOUS
  <2>3. UNCHANGED <<transfers, log>>
    OBVIOUS
  <2> HIDE DEF WriteBalance
  <2> QED
    BY <1>2, <1>3, <1>6, <2>1, <2>2, <2>3 DEF Inv, TypeOK, HistoryInv, Reqs
<1>10. NoDanglingProduct' /\ AuditHonest'
  BY <1>2 DEF Inv, NoDanglingProduct, AuditHonest
<1> QED
  BY <1>5, <1>7, <1>8, <1>9, <1>10 DEF Inv
-----------------------------------------------------------------------------
(* The end of a request, and failures                                      *)

\* An audit entry says what the request's phase stands for.
LEMMA AuditPreserves ==
    ASSUME Inv, NEW r \in Reqs, Audit(r)
    PROVE  Inv'
<1> DEFINE entry == [id |-> r, action |-> AuditAction(r)]
<1>1. /\ pc[r] \in {"audit", "audit_failed"}
      /\ pc' = [pc EXCEPT ![r] = "done"]
      /\ log' = log \cup {entry}
      /\ UNCHANGED <<accounts, status, balance, transfers, productOf, listed,
                     adjustments, lock, image, form, adjust, changes>>
  BY DEF Audit, Goto
<1>2. entry \in [id : Reqs, action : {"completed", "failed", "adjusted"}]
  BY DEF AuditAction
<1>3. TypeOK'
  BY <1>1, <1>2 DEF Inv, TypeOK, Phases, Ended
<1>4. LockInv' /\ FormInv' /\ ImageInv' /\ AdjustInv'
  BY <1>1 DEF Inv, TypeOK, LockInv, FormInv, ImageInv, ImageAgrees, AdjustInv, InTransaction
<1>5. HistoryInv'
  <2>1. \A t \in transfers : t.id \in Reqs /\ pc'[t.id] \in {"audit", "done", "dead"}
    BY <1>1 DEF Inv, TypeOK, HistoryInv, TransferRow, Reqs
  <2>2. \A e \in log' : pc'[e.id] = "done"
    BY <1>1 DEF Inv, TypeOK, HistoryInv
  <2> QED
    BY <1>1, <2>1, <2>2 DEF Inv, TypeOK, HistoryInv, Reqs
<1>6. AuditHonest'
  \* What the new entry says is what the request's phase established.
  <2>1. /\ entry.action = "completed" => \E t \in transfers : t.id = r
        /\ entry.action = "failed" => \A t \in transfers : t.id # r
        /\ entry.action = "adjusted" => \E a \in adjustments : a.id = r
    BY <1>1 DEF Inv, HistoryInv, AuditAction, Reqs
  <2> HIDE DEF entry
  <2>2. entry.id = r
    BY DEF entry
  <2> QED
    BY <1>1, <2>1, <2>2 DEF Inv, AuditHonest
<1>7. NoDanglingProduct'
  BY <1>1 DEF Inv, NoDanglingProduct
<1> QED
  BY <1>3, <1>4, <1>5, <1>6, <1>7 DEF Inv

\* Giving up on the lock leaves all rows alone.
LEMMA LockTimeoutPreserves ==
    ASSUME Inv, NEW r \in Reqs, LockTimeout(r)
    PROVE  Inv'
<1> DEFINE phase == IF pc[r] \in {"begin", "write"} THEN "error" ELSE "done"
<1>1. /\ pc[r] \in {"begin", "write", "audit", "audit_failed"}
      /\ pc' = [pc EXCEPT ![r] = phase]
      /\ UNCHANGED <<db, lock, image, form, adjust, changes>>
  BY DEF LockTimeout, Goto
<1>2. phase \in {"error", "done"}
  OBVIOUS
<1> HIDE DEF phase
<1>3. TypeOK'
  BY <1>1, <1>2 DEF Inv, TypeOK, Phases, Ended, db
<1>4. LockInv' /\ FormInv' /\ ImageInv' /\ AdjustInv'
  BY <1>1, <1>2
  DEF Inv, TypeOK, LockInv, FormInv, ImageInv, ImageAgrees, AdjustInv, InTransaction, Reqs, db
<1>5. HistoryInv'
  <2>1. pc[r] \in {"begin", "write"} => \A t \in transfers : t.id # r
    BY DEF Inv, HistoryInv
  <2>2. pc[r] \notin {"begin", "write"} => phase = "done"
    BY DEF phase
  <2> QED
    BY <1>1, <1>2, <2>1, <2>2 DEF Inv, TypeOK, HistoryInv, TransferRow, Reqs, db
<1>6. NoDanglingProduct' /\ AuditHonest'
  BY <1>1 DEF Inv, NoDanglingProduct, AuditHonest, db
<1> QED
  BY <1>3, <1>4, <1>5, <1>6 DEF Inv

\* A crash leaves no transaction behind.
LEMMA CrashPreserves ==
    ASSUME Inv, Crash
    PROVE  Inv'
<1> USE DEF Crash, db
<1>1. TypeOK'
  BY DEF Inv, TypeOK, Phases, Ended
<1>2. LockInv' /\ FormInv' /\ ImageInv' /\ AdjustInv'
  BY NoneAssumption
  DEF Inv, TypeOK, LockInv, FormInv, ImageInv, ImageAgrees, AdjustInv, InTransaction, Ended, Reqs
<1>3. HistoryInv'
  BY DEF Inv, TypeOK, HistoryInv, TransferRow, Ended, Reqs
<1>4. NoDanglingProduct' /\ AuditHonest'
  BY DEF Inv, NoDanglingProduct, AuditHonest
<1> QED
  BY <1>1, <1>2, <1>3, <1>4 DEF Inv

-----------------------------------------------------------------------------
(* Theorems                                                                *)

\* The empty database satisfies the invariant.
LEMMA InitInv == Init => Inv
BY NoneAssumption
DEF Init, Inv, TypeOK, LockInv, FormInv, ImageInv, ImageAgrees, AdjustInv, HistoryInv,
    NoDanglingProduct, AuditHonest, InTransaction, Phases, Ended, Reqs

\* Every step preserves the invariant.
LEMMA NextInv == Inv /\ [Next]_vars => Inv'
<1> SUFFICES ASSUME Inv, [Next]_vars
             PROVE  Inv'
  OBVIOUS
<1>1. CASE \E u \in Users : Register(u) \/ ChangeStatus(u)
  BY <1>1, RegisterPreserves, ChangeStatusPreserves
<1>2. CASE \E p \in Products : DeleteProduct(p)
  BY <1>2, DeleteProductPreserves
<1>3. CASE \E r \in TReqs : StartTransfer(r) \/ RefuseTransfer(r)
  BY <1>3, StartTransferPreserves, RefuseTransferPreserves
<1>4. CASE \E r \in AReqs : StartAdjust(r)
  BY <1>4, StartAdjustPreserves
<1>5. CASE \E r \in Reqs : ReqStep(r)
  <2>1. ASSUME NEW r \in TReqs, TransferStep(r)
        PROVE  Inv'
    BY <2>1, CheckRecipientPreserves, CheckProductPreserves,
       BeginImmediatePreserves, ReadBalancePreserves, DebitPreserves,
       CreditPreserves, InsertTransferPreserves, CommitPreserves DEF TransferStep
  <2>2. ASSUME NEW r \in AReqs, AdjustStep(r)
        PROVE  Inv'
    BY <2>2, PeekBalancePreserves, WriteBalancePreserves DEF AdjustStep
  <2> QED
    BY <1>5, <2>1, <2>2, AuditPreserves, LockTimeoutPreserves DEF ReqStep
<1>6. CASE Crash
  BY <1>6, CrashPreserves
<1>7. CASE UNCHANGED vars
  BY <1>7
  DEF vars, db, Inv, TypeOK, LockInv, FormInv, ImageInv, ImageAgrees, AdjustInv,
      HistoryInv, NoDanglingProduct, AuditHonest
<1> QED
  BY <1>1, <1>2, <1>3, <1>4, <1>5, <1>6, <1>7 DEF Next

\* The invariant holds in every reachable state.
THEOREM Invariance == Spec => []Inv
BY InitInv, NextInv, PTL DEF Spec

\* Every variable stays in its type; in particular no balance is ever
\* negative, without help from the schema's CHECK.
THEOREM TypeCorrect == Spec => []TypeOK
<1>1. Inv => TypeOK
  BY DEF Inv
<1> QED
  BY <1>1, Invariance, PTL

\* No transfer ever names a product that does not exist.
THEOREM ReferentialIntegrity == Spec => []NoDanglingProduct
<1>1. Inv => NoDanglingProduct
  BY DEF Inv
<1> QED
  BY <1>1, Invariance, PTL

\* The audit log never claims a transfer that did not commit, nor denies one
\* that did, at any moment of any interleaving.
THEOREM AuditSound == Spec => []AuditHonest
<1>1. Inv => AuditHonest
  BY DEF Inv
<1> QED
  BY <1>1, Invariance, PTL
-----------------------------------------------------------------------------
(* Sums over finite sets.  A sum is a fold that removes one element after  *)
(* another; that every order gives the same sum is shown by looking at a   *)
(* smallest set that would be an exception.                                *)

\* The element that the folds of the library remove first.
Pick(s) == CHOOSE x \in s : TRUE

\* g adds up f over every subset of S, as the library's folds do.
Adds(g, f, S) ==
    g = [s \in SUBSET S |-> IF s = {} THEN 0 ELSE f[Pick(s)] + g[s \ {Pick(s)}]]

\* The sum of f over S.
Total(f, S) == (CHOOSE g : Adds(g, f, S))[S]

\* A set that is not empty has an element to remove.
LEMMA Picked == ASSUME NEW s, s # {} PROVE Pick(s) \in s
  BY DEF Pick

\* Among subsets of a finite set there is one with no smaller one beside it:
\* what holds of a finite set when it holds of all its proper subsets holds of
\* every finite set.
LEMMA Smallest ==
    ASSUME NEW S, IsFiniteSet(S), NEW B \in SUBSET SUBSET S, B # {}
    PROVE  \E T \in B : IsFiniteSet(T) /\ \A U \in SUBSET T : U # T => U \notin B
<1>1. B \subseteq FiniteSubsetsOf(S)
  BY FS_Subset DEF FiniteSubsetsOf
<1>2. PICK T \in B : \A U \in B : ~(<<U, T>> \in StrictSubsetOrdering(S))
  BY <1>1, FS_StrictSubsetOrderingWellFounded, WFMin
<1>3. \A U \in SUBSET T : U # T => U \notin B
  BY <1>2 DEF StrictSubsetOrdering
<1> QED
  BY <1>1, <1>2, <1>3 DEF FiniteSubsetsOf

\* What adding up means at one set.
LEMMA AddsValue ==
    ASSUME NEW f, NEW S, NEW g, Adds(g, f, S), NEW s \in SUBSET S
    PROVE  /\ s = {} => g[s] = 0
           /\ s # {} => g[s] = f[Pick(s)] + g[s \ {Pick(s)}]
  BY DEF Adds

\* There is only one way to add up, even along different sets.
LEMMA AddsUnique ==
    ASSUME NEW f, NEW S, NEW g, Adds(g, f, S), NEW T, NEW h, Adds(h, f, T),
           NEW W \in SUBSET (S \cap T), IsFiniteSet(W)
    PROVE  g[W] = h[W]
<1> DEFINE B == {s \in SUBSET W : g[s] # h[s]}
<1>0. B \in SUBSET SUBSET W
  OBVIOUS
<1>1. ASSUME NEW s \in B, \A u \in SUBSET s : u # s => u \notin B
      PROVE  FALSE
  <2>2. CASE s = {}
    BY <1>1, <2>2, AddsValue
  <2>3. CASE s # {}
    <3>2. g[s \ {Pick(s)}] = h[s \ {Pick(s)}]
      BY <1>1, <2>3, Picked
    <3>3. g[s] = f[Pick(s)] + g[s \ {Pick(s)}] /\ h[s] = f[Pick(s)] + h[s \ {Pick(s)}]
      <4>1. s \in SUBSET S /\ s \in SUBSET T
        OBVIOUS
      <4> HIDE DEF B
      <4> QED
        BY <2>3, <4>1, AddsValue
    <3> QED
      BY <1>1, <3>2, <3>3
  <2> QED
    BY <2>2, <2>3
<1>2. B = {} => g[W] = h[W]
  OBVIOUS
<1> HIDE DEF B
<1> QED
  BY <1>0, <1>1, <1>2, Smallest

\* A finite set can be added up: the fold is well defined.
LEMMA AddsExists ==
    ASSUME NEW f, NEW S, IsFiniteSet(S)
    PROVE  \E g : Adds(g, f, S)
<1> DEFINE B == {T \in SUBSET S : ~ \E g : Adds(g, f, T)}
<1>0. B \in SUBSET SUBSET S
  OBVIOUS
<1>1. ASSUME NEW T \in B, IsFiniteSet(T), \A U \in SUBSET T : U # T => U \notin B
      PROVE  FALSE
  <2> DEFINE V(u) == (CHOOSE g : Adds(g, f, u))[u]
             G == [s \in SUBSET T |-> IF s = {} THEN 0 ELSE f[Pick(s)] + V(s \ {Pick(s)})]
  <2>1. ASSUME NEW u \in SUBSET T, u # T
        PROVE  G[u] = V(u)
    <3>1. PICK g : g = CHOOSE h : Adds(h, f, u)
      OBVIOUS
    <3>2. Adds(g, f, u) /\ V(u) = g[u]
      BY <1>1, <2>1, <3>1
    <3>3. CASE u = {}
      BY <3>2, <3>3, AddsValue
    <3>4. CASE u # {}
      <4> DEFINE w == u \ {Pick(u)}
      <4>1. Pick(u) \in u
        BY <3>4, Picked
      <4>2. w \in SUBSET T /\ w # T /\ w \in SUBSET u /\ IsFiniteSet(w)
        BY <1>1, <4>1, FS_Subset
      <4>3. PICK h : h = CHOOSE k : Adds(k, f, w)
        OBVIOUS
      <4>4. Adds(h, f, w) /\ V(w) = h[w]
        BY <1>1, <4>2, <4>3
      <4>5. g[w] = h[w]
        <5> HIDE DEF w
        <5> QED
          BY <3>2, <4>2, <4>4, AddsUnique
      <4>6. g[u] = f[Pick(u)] + g[w]
        BY <3>2, <3>4, AddsValue
      <4>7. G[u] = f[Pick(u)] + V(w)
        BY <3>4
      <4> QED
        BY <3>2, <4>4, <4>5, <4>6, <4>7
    <3> QED
      BY <3>3, <3>4
  <2>2. Adds(G, f, T)
    <3>1. ASSUME NEW s \in SUBSET T, s # {}
          PROVE  V(s \ {Pick(s)}) = G[s \ {Pick(s)}]
      BY <2>1, <3>1, Picked
    <3> HIDE DEF V
    <3> QED
      BY <3>1 DEF Adds
  <2> QED
    BY <2>2
<1>2. B = {} => \E g : Adds(g, f, S)
  OBVIOUS
<1> HIDE DEF B
<1> QED
  BY <1>0, <1>1, <1>2, Smallest

\* Integers add up to an integer.
LEMMA AddsInt ==
    ASSUME NEW f, NEW S, NEW g, Adds(g, f, S), NEW W \in SUBSET S, IsFiniteSet(W),
           \A x \in W : f[x] \in Int
    PROVE  g[W] \in Int
<1> DEFINE B == {s \in SUBSET W : g[s] \notin Int}
<1>0. B \in SUBSET SUBSET W
  OBVIOUS
<1>1. ASSUME NEW s \in B, \A u \in SUBSET s : u # s => u \notin B
      PROVE  FALSE
  <2>1. s \in SUBSET S
    OBVIOUS
  <2>2. CASE s = {}
    <3>1. g[s] = 0
      <4> HIDE DEF B
      <4> QED
        BY <2>1, <2>2, AddsValue
    <3> QED
      BY <3>1
  <2>3. CASE s # {}
    <3>2. g[s \ {Pick(s)}] \in Int
      BY <1>1, <2>3, Picked
    <3>3. g[s] = f[Pick(s)] + g[s \ {Pick(s)}]
      BY <2>3, AddsValue
    <3> QED
      BY <1>1, <2>3, <3>2, <3>3, Picked
  <2> QED
    BY <2>2, <2>3
<1>2. B = {} => g[W] \in Int
  OBVIOUS
<1> HIDE DEF B
<1> QED
  BY <1>0, <1>1, <1>2, Smallest

\* The order does not matter: any element may be the one removed first.
LEMMA AddsRemove ==
    ASSUME NEW f, NEW S, NEW g, Adds(g, f, S), NEW W \in SUBSET S, IsFiniteSet(W),
           \A x \in W : f[x] \in Int
    PROVE  \A x \in W : g[W] = f[x] + g[W \ {x}]
<1> DEFINE B == {s \in SUBSET W : \E x \in s : g[s] # f[x] + g[s \ {x}]}
<1>0. B \in SUBSET SUBSET W
  OBVIOUS
<1>1. ASSUME NEW s \in B, \A u \in SUBSET s : u # s => u \notin B
      PROVE  FALSE
  <2>1. PICK x \in s : g[s] # f[x] + g[s \ {x}]
    BY <1>1
  <2> DEFINE c == Pick(s)
  <2>0. s \in SUBSET S /\ s \in SUBSET W
    OBVIOUS
  <2>2. c \in s /\ g[s] = f[c] + g[s \ {c}]
    <3> HIDE DEF B
    <3> QED
      BY <2>0, <2>1, Picked, AddsValue
  <2>3. x # c
    BY <2>1, <2>2
  <2> HIDE DEF c
  <2>4. g[s \ {c}] = f[x] + g[(s \ {c}) \ {x}]
    BY <1>1, <2>2, <2>3
  <2>5. g[s \ {x}] = f[c] + g[(s \ {x}) \ {c}]
    BY <1>1, <2>2, <2>3
  <2>6. (s \ {x}) \ {c} = (s \ {c}) \ {x}
    OBVIOUS
  <2> DEFINE rest == g[(s \ {c}) \ {x}]
  <2>7. g[(s \ {c}) \ {x}] \in Int /\ f[c] \in Int /\ f[x] \in Int
    <3>1. (s \ {c}) \ {x} \in SUBSET W /\ IsFiniteSet((s \ {c}) \ {x})
      BY FS_Subset
    <3> QED
      BY <2>2, <3>1, AddsInt
  <2>8. g[s] = f[c] + (f[x] + rest)
    BY <2>2, <2>4
  <2>9. g[s \ {x}] = f[c] + rest
    BY <2>5, <2>6
  <2> HIDE DEF rest, B
  <2> QED
    BY <2>1, <2>7, <2>8, <2>9 DEF rest
<1>2. B = {} => \A x \in W : g[W] = f[x] + g[W \ {x}]
  OBVIOUS
<1> HIDE DEF B
<1> QED
  BY <1>0, <1>1, <1>2, Smallest

\* Whatever adds up over a finite set gives its sum.
LEMMA TotalIs ==
    ASSUME NEW f, NEW S, IsFiniteSet(S), NEW g, Adds(g, f, S)
    PROVE  g[S] = Total(f, S)
<1>1. Adds(CHOOSE h : Adds(h, f, S), f, S)
  BY AddsExists
<1> QED
  BY <1>1, AddsUnique DEF Total

\* Nothing adds up to zero.
LEMMA TotalEmpty ==
    ASSUME NEW f
    PROVE  Total(f, {}) = 0
<1>1. PICK g : Adds(g, f, {})
  BY AddsExists, FS_EmptySet
<1>2. g[{}] = 0
  BY <1>1, AddsValue
<1> QED
  BY <1>1, <1>2, TotalIs, FS_EmptySet

\* The sum of integers is an integer.
LEMMA TotalInt ==
    ASSUME NEW f, NEW S, IsFiniteSet(S), \A x \in S : f[x] \in Int
    PROVE  Total(f, S) \in Int
<1>1. PICK g : Adds(g, f, S)
  BY AddsExists
<1> QED
  BY <1>1, AddsInt, TotalIs

\* One more element adds its value to the sum.
LEMMA TotalAdd ==
    ASSUME NEW f, NEW S, IsFiniteSet(S), NEW x, x \notin S,
           \A y \in S \cup {x} : f[y] \in Int
    PROVE  Total(f, S \cup {x}) = Total(f, S) + f[x]
<1> DEFINE W == S \cup {x}
<1>1. IsFiniteSet(W)
  BY FS_AddElement
<1>2. PICK g : Adds(g, f, W)
  BY <1>1, AddsExists
<1>3. PICK h : Adds(h, f, S)
  BY AddsExists
<1>4. W \ {x} = S /\ S \in SUBSET (W \cap S)
  OBVIOUS
<1>5. g[W] = f[x] + g[S]
  BY <1>1, <1>2, <1>4, AddsRemove
<1>6. g[S] = h[S]
  BY <1>2, <1>3, <1>4, AddsUnique
<1>7. g[W] = Total(f, W) /\ h[S] = Total(f, S)
  BY <1>1, <1>2, <1>3, TotalIs
<1>8. Total(f, S) \in Int
  BY TotalInt
<1> HIDE DEF W
<1> QED
  BY <1>5, <1>6, <1>7, <1>8 DEF W

\* The amounts of transfers and the changes by adjustments, as functions.
amountOf == [t \in TransferRow |-> t.amount]
changeOf == [a \in AdjustRow |-> a.after - a.before]

\* The sum over transfers in Booked is a sum in this sense.
LEMMA SumOfAmounts ==
    ASSUME NEW S, IsFiniteSet(S), S \subseteq TransferRow
    PROVE  LET amount(t) == t.amount IN SumOf(S, amount) = Total(amountOf, S)
<1> DEFINE P(g) == g = [s \in SUBSET S |-> IF s = {} THEN 0
                          ELSE Pick(s).amount + g[s \ {Pick(s)}]]
           G == CHOOSE g : P(g)
<1>1. ASSUME NEW g
      PROVE  P(g) <=> Adds(g, amountOf, S)
  <2>1. \A s \in SUBSET S : s # {} => amountOf[Pick(s)] = Pick(s).amount
    BY Picked DEF amountOf
  <2> QED
    BY <2>1 DEF Adds
<1>2. P(G)
  <2>1. \E g : P(g)
    BY <1>1, AddsExists
  <2> HIDE DEF P
  <2> QED
    BY <2>1
<1>3. LET amount(t) == t.amount IN SumOf(S, amount) = G[S]
  BY DEF SumOf, MapThenSumSet, MapThenFoldSet, Pick
<1> HIDE DEF G
<1> QED
  BY <1>1, <1>2, <1>3, TotalIs

\* So is the sum over adjustments.
LEMMA SumOfChanges ==
    ASSUME NEW S, IsFiniteSet(S), S \subseteq AdjustRow
    PROVE  LET change(a) == a.after - a.before IN SumOf(S, change) = Total(changeOf, S)
<1> DEFINE P(g) == g = [s \in SUBSET S |-> IF s = {} THEN 0
                          ELSE (Pick(s).after - Pick(s).before) + g[s \ {Pick(s)}]]
           G == CHOOSE g : P(g)
<1>1. ASSUME NEW g
      PROVE  P(g) <=> Adds(g, changeOf, S)
  <2>1. \A s \in SUBSET S : s # {} => changeOf[Pick(s)] = Pick(s).after - Pick(s).before
    BY Picked DEF changeOf
  <2> QED
    BY <2>1 DEF Adds
<1>2. P(G)
  <2>1. \E g : P(g)
    BY <1>1, AddsExists
  <2> HIDE DEF P
  <2> QED
    BY <2>1
<1>3. LET change(a) == a.after - a.before IN SumOf(S, change) = G[S]
  BY DEF SumOf, MapThenSumSet, MapThenFoldSet, Pick
<1> HIDE DEF G
<1> QED
  BY <1>1, <1>2, <1>3, TotalIs

-----------------------------------------------------------------------------
(* What a history moves                                                    *)

\* What the transfers T and the adjustments A together do to the account u.
Net(T, A, u) ==
    Total(amountOf, {t \in T : t.receiver = u})
    - Total(amountOf, {t \in T : t.sender = u})
    + Total(changeOf, {a \in A : a.user = u})

\* The numbers added up are those of the rows.
LEMMA RowValues ==
    /\ \A t \in TransferRow : amountOf[t] = t.amount /\ t.amount \in Int
    /\ \A a \in AdjustRow : changeOf[a] = a.after - a.before /\ changeOf[a] \in Int
<1>1. ASSUME NEW t \in TransferRow
      PROVE  amountOf[t] = t.amount /\ t.amount \in Int
  <2>1. t.amount \in Amounts
    BY DEF TransferRow
  <2>2. amountOf[t] = t.amount
    BY DEF amountOf
  <2>3. t.amount \in Nat
    BY <2>1, AmountsAssumption
  <2> QED
    BY <2>2, <2>3
<1>2. ASSUME NEW a \in AdjustRow
      PROVE  changeOf[a] = a.after - a.before /\ changeOf[a] \in Int
  BY DEF changeOf, AdjustRow
<1> QED
  BY <1>1, <1>2

\* Every part of the net effect on an account is an integer.
LEMMA NetInt ==
    ASSUME NEW T \in SUBSET TransferRow, IsFiniteSet(T),
           NEW A \in SUBSET AdjustRow, IsFiniteSet(A), NEW u
    PROVE  /\ Total(amountOf, {t \in T : t.receiver = u}) \in Int
           /\ Total(amountOf, {t \in T : t.sender = u}) \in Int
           /\ Total(changeOf, {a \in A : a.user = u}) \in Int
           /\ Net(T, A, u) \in Int
<1>1. Total(amountOf, {t \in T : t.receiver = u}) \in Int
  BY RowValues, TotalInt, FS_Subset
<1>2. Total(amountOf, {t \in T : t.sender = u}) \in Int
  BY RowValues, TotalInt, FS_Subset
<1>3. Total(changeOf, {a \in A : a.user = u}) \in Int
  BY RowValues, TotalInt, FS_Subset
<1> QED
  BY <1>1, <1>2, <1>3 DEF Net

\* A history that does not mention an account has no effect on it.
LEMMA NetNobody ==
    ASSUME NEW T, NEW A, NEW u,
           \A t \in T : u \notin {t.sender, t.receiver}, \A a \in A : a.user # u
    PROVE  Net(T, A, u) = 0
<1>1. /\ {t \in T : t.receiver = u} = {}
      /\ {t \in T : t.sender = u} = {}
      /\ {a \in A : a.user = u} = {}
  OBVIOUS
<1>2. Total(amountOf, {}) = 0 /\ Total(changeOf, {}) = 0
  BY TotalEmpty
<1>3. Net(T, A, u) = Total(amountOf, {}) - Total(amountOf, {}) + Total(changeOf, {})
  BY <1>1 DEF Net
<1> QED
  BY <1>2, <1>3

\* One more transfer moves its amount from its sender to its receiver.
LEMMA NetTransfer ==
    ASSUME NEW T \in SUBSET TransferRow, IsFiniteSet(T),
           NEW A \in SUBSET AdjustRow, IsFiniteSet(A),
           NEW x \in TransferRow, x \notin T, x.sender # x.receiver
    PROVE  /\ Net(T \cup {x}, A, x.receiver) = Net(T, A, x.receiver) + x.amount
           /\ Net(T \cup {x}, A, x.sender) = Net(T, A, x.sender) - x.amount
           /\ \A u : u \notin {x.sender, x.receiver} => Net(T \cup {x}, A, u) = Net(T, A, u)
<1> DEFINE in(S, u) == {t \in S : t.receiver = u}
           out(S, u) == {t \in S : t.sender = u}
<1>1. /\ in(T \cup {x}, x.receiver) = in(T, x.receiver) \cup {x}
      /\ out(T \cup {x}, x.sender) = out(T, x.sender) \cup {x}
      /\ \A u : u # x.receiver => in(T \cup {x}, u) = in(T, u)
      /\ \A u : u # x.sender => out(T \cup {x}, u) = out(T, u)
  OBVIOUS
<1>2. Total(amountOf, in(T, x.receiver) \cup {x}) = Total(amountOf, in(T, x.receiver)) + x.amount
  <2> DEFINE S == in(T, x.receiver)
  <2>1. IsFiniteSet(S) /\ S \subseteq T
    BY FS_Subset
  <2> HIDE DEF S
  <2>2. x \notin S /\ \A y \in S \cup {x} : amountOf[y] \in Int
    BY <2>1, RowValues
  <2>3. Total(amountOf, S \cup {x}) = Total(amountOf, S) + amountOf[x]
    BY <2>1, <2>2, TotalAdd
  <2> QED
    BY <2>3, RowValues DEF S
<1>3. Total(amountOf, out(T, x.sender) \cup {x}) = Total(amountOf, out(T, x.sender)) + x.amount
  <2> DEFINE S == out(T, x.sender)
  <2>1. IsFiniteSet(S) /\ S \subseteq T
    BY FS_Subset
  <2> HIDE DEF S
  <2>2. x \notin S /\ \A y \in S \cup {x} : amountOf[y] \in Int
    BY <2>1, RowValues
  <2>3. Total(amountOf, S \cup {x}) = Total(amountOf, S) + amountOf[x]
    BY <2>1, <2>2, TotalAdd
  <2> QED
    BY <2>3, RowValues DEF S
<1>4. \A u : /\ Total(amountOf, in(T, u)) \in Int
             /\ Total(amountOf, out(T, u)) \in Int
             /\ Total(changeOf, {a \in A : a.user = u}) \in Int
  BY NetInt
<1>5. x.amount \in Int
  BY RowValues
<1>6. \A S, u : Net(S, A, u) = Total(amountOf, in(S, u)) - Total(amountOf, out(S, u))
                               + Total(changeOf, {a \in A : a.user = u})
  BY DEF Net
<1> HIDE DEF in, out
<1>7. Net(T \cup {x}, A, x.receiver) = Net(T, A, x.receiver) + x.amount
  <2>1. out(T \cup {x}, x.receiver) = out(T, x.receiver)
    BY <1>1
  <2>2. PICK i \in Int, o \in Int, c \in Int :
          /\ i = Total(amountOf, in(T, x.receiver))
          /\ o = Total(amountOf, out(T, x.receiver))
          /\ c = Total(changeOf, {a \in A : a.user = x.receiver})
    BY <1>4
  <2>3. Net(T, A, x.receiver) = i - o + c
    BY <1>6, <2>2
  <2>4. Net(T \cup {x}, A, x.receiver)
          = Total(amountOf, in(T \cup {x}, x.receiver))
            - Total(amountOf, out(T \cup {x}, x.receiver)) + c
    BY <1>6, <2>2
  <2>5. Net(T \cup {x}, A, x.receiver) = (i + x.amount) - o + c
    BY <1>1, <1>2, <2>1, <2>2, <2>4
  <2> QED
    BY <1>5, <2>3, <2>5
<1>8. Net(T \cup {x}, A, x.sender) = Net(T, A, x.sender) - x.amount
  <2>1. in(T \cup {x}, x.sender) = in(T, x.sender)
    BY <1>1
  <2>2. PICK i \in Int, o \in Int, c \in Int :
          /\ i = Total(amountOf, in(T, x.sender))
          /\ o = Total(amountOf, out(T, x.sender))
          /\ c = Total(changeOf, {a \in A : a.user = x.sender})
    BY <1>4
  <2>3. Net(T, A, x.sender) = i - o + c
    BY <1>6, <2>2
  <2>4. Net(T \cup {x}, A, x.sender)
          = Total(amountOf, in(T \cup {x}, x.sender))
            - Total(amountOf, out(T \cup {x}, x.sender)) + c
    BY <1>6, <2>2
  <2>5. Net(T \cup {x}, A, x.sender) = i - (o + x.amount) + c
    BY <1>1, <1>3, <2>1, <2>2, <2>4
  <2> QED
    BY <1>5, <2>3, <2>5
<1>9. \A u : u \notin {x.sender, x.receiver} => Net(T \cup {x}, A, u) = Net(T, A, u)
  BY <1>1, <1>6
<1> QED
  BY <1>7, <1>8, <1>9

\* One more adjustment changes its account by what it says.
LEMMA NetAdjust ==
    ASSUME NEW T \in SUBSET TransferRow, IsFiniteSet(T),
           NEW A \in SUBSET AdjustRow, IsFiniteSet(A),
           NEW x \in AdjustRow, x \notin A
    PROVE  /\ Net(T, A \cup {x}, x.user) = Net(T, A, x.user) + (x.after - x.before)
           /\ \A u : u # x.user => Net(T, A \cup {x}, u) = Net(T, A, u)
<1> DEFINE S == {a \in A : a.user = x.user}
<1>1. /\ {a \in A \cup {x} : a.user = x.user} = S \cup {x}
      /\ \A u : u # x.user => {a \in A \cup {x} : a.user = u} = {a \in A : a.user = u}
  OBVIOUS
<1>2. Total(changeOf, S \cup {x}) = Total(changeOf, S) + (x.after - x.before)
  <2>1. IsFiniteSet(S) /\ S \subseteq A
    BY FS_Subset
  <2> HIDE DEF S
  <2>2. x \notin S /\ \A y \in S \cup {x} : changeOf[y] \in Int
    BY <2>1, RowValues
  <2>3. Total(changeOf, S \cup {x}) = Total(changeOf, S) + changeOf[x]
    BY <2>1, <2>2, TotalAdd
  <2> QED
    BY <2>3, RowValues
<1>3. /\ Total(amountOf, {t \in T : t.receiver = x.user}) \in Int
      /\ Total(amountOf, {t \in T : t.sender = x.user}) \in Int
      /\ Total(changeOf, S) \in Int
      /\ x.after - x.before \in Int
  BY NetInt, RowValues
<1>4. Net(T, A \cup {x}, x.user) = Net(T, A, x.user) + (x.after - x.before)
  <2> HIDE DEF S
  <2>1. {a \in A : a.user = x.user} = S
    BY DEF S
  <2>2. PICK i \in Int, o \in Int, c \in Int :
          /\ i = Total(amountOf, {t \in T : t.receiver = x.user})
          /\ o = Total(amountOf, {t \in T : t.sender = x.user})
          /\ c = Total(changeOf, S)
    BY <1>3
  <2>3. Net(T, A, x.user) = i - o + c
    BY <2>1, <2>2 DEF Net
  <2>4. Net(T, A \cup {x}, x.user) = i - o + (c + (x.after - x.before))
    BY <1>1, <1>2, <2>2 DEF Net
  <2> QED
    BY <1>3, <2>3, <2>4
<1>5. \A u : u # x.user => Net(T, A \cup {x}, u) = Net(T, A, u)
  BY <1>1 DEF Net
<1> QED
  BY <1>4, <1>5
-----------------------------------------------------------------------------
(* The books                                                               *)

\* What the history says of the accounts, and that it is the whole truth about
\* every balance no adjustment wrote over.
Books ==
    /\ IsFiniteSet(transfers)
    /\ IsFiniteSet(adjustments)
    /\ \A t \in transfers :
          t.sender \in accounts /\ t.receiver \in accounts /\ t.sender # t.receiver
    /\ \A a \in adjustments : a.user \in accounts /\ pc[a.id] \in {"audit", "done", "dead"}
    /\ ReconciledUnlessOverwritten

\* The inductive invariant with the books.
FullInv == Inv /\ Books

\* Booked is the bonus and the net effect of the history.
LEMMA BookedIs ==
    ASSUME TypeOK, IsFiniteSet(transfers), IsFiniteSet(adjustments), NEW u
    PROVE  Booked(u) = SignupBonus + Net(transfers, adjustments, u)
<1> DEFINE in == {t \in transfers : t.receiver = u}
           out == {t \in transfers : t.sender = u}
           own == {a \in adjustments : a.user = u}
<1>1. /\ IsFiniteSet(in) /\ in \subseteq TransferRow
      /\ IsFiniteSet(out) /\ out \subseteq TransferRow
      /\ IsFiniteSet(own) /\ own \subseteq AdjustRow
  BY FS_Subset DEF TypeOK
<1>2. /\ Total(amountOf, in) \in Int
      /\ Total(amountOf, out) \in Int
      /\ Total(changeOf, own) \in Int
  <2>1. transfers \in SUBSET TransferRow /\ adjustments \in SUBSET AdjustRow
    BY DEF TypeOK
  <2> QED
    BY <2>1, NetInt
<1>3. LET amount(t) == t.amount
          change(a) == a.after - a.before
      IN  /\ SumOf(in, amount) = Total(amountOf, in)
          /\ SumOf(out, amount) = Total(amountOf, out)
          /\ SumOf(own, change) = Total(changeOf, own)
  BY <1>1, SumOfAmounts, SumOfChanges DEF SumOf, MapThenSumSet, MapThenFoldSet
<1>4. Booked(u) = SignupBonus + Total(amountOf, in) - Total(amountOf, out)
                  + Total(changeOf, own)
  BY <1>3 DEF Booked, SumOf, MapThenSumSet, MapThenFoldSet
<1> QED
  BY <1>2, <1>4, BonusAssumption DEF Net

\* The same of the next state.
LEMMA BookedIsNext ==
    ASSUME TypeOK', IsFiniteSet(transfers'), IsFiniteSet(adjustments'), NEW u
    PROVE  Booked(u)' = SignupBonus + Net(transfers', adjustments', u)
<1> DEFINE in == {t \in transfers' : t.receiver = u}
           out == {t \in transfers' : t.sender = u}
           own == {a \in adjustments' : a.user = u}
<1>1. /\ IsFiniteSet(in) /\ in \subseteq TransferRow
      /\ IsFiniteSet(out) /\ out \subseteq TransferRow
      /\ IsFiniteSet(own) /\ own \subseteq AdjustRow
  BY FS_Subset DEF TypeOK
<1>2. /\ Total(amountOf, in) \in Int
      /\ Total(amountOf, out) \in Int
      /\ Total(changeOf, own) \in Int
  <2>1. transfers' \in SUBSET TransferRow /\ adjustments' \in SUBSET AdjustRow
    BY DEF TypeOK
  <2> QED
    BY <2>1, NetInt
<1>3. LET amount(t) == t.amount
          change(a) == a.after - a.before
      IN  /\ SumOf(in, amount) = Total(amountOf, in)
          /\ SumOf(out, amount) = Total(amountOf, out)
          /\ SumOf(own, change) = Total(changeOf, own)
  BY <1>1, SumOfAmounts, SumOfChanges DEF SumOf, MapThenSumSet, MapThenFoldSet
<1>4. Booked(u)' = SignupBonus + Total(amountOf, in) - Total(amountOf, out)
                  + Total(changeOf, own)
  BY <1>3 DEF Booked, SumOf, MapThenSumSet, MapThenFoldSet
<1> QED
  BY <1>2, <1>4, BonusAssumption DEF Net

\* A step that writes no balance and no row leaves the books as they are.
LEMMA QuietBooks ==
    ASSUME Inv, Books, TypeOK',
           UNCHANGED <<accounts, balance, transfers, adjustments>>,
           \A r \in AReqs : pc[r] \in {"audit", "done", "dead"}
                               => pc'[r] \in {"audit", "done", "dead"}
    PROVE  Books'
<1>1. \A u : Booked(u)' = Booked(u)
  BY BookedIs, BookedIsNext DEF Inv, Books
<1>2. ReconciledUnlessOverwritten'
  BY <1>1 DEF Books, ReconciledUnlessOverwritten
<1>3. \A a \in adjustments : a.id \in AReqs
  BY DEF Inv, TypeOK, AdjustRow
<1> QED
  BY <1>2, <1>3 DEF Books

\* A new account has the bonus, and no history.
LEMMA RegisterBooks ==
    ASSUME Inv, Books, Inv', NEW u \in Users, Register(u)
    PROVE  Books'
<1>1. /\ u \notin accounts
      /\ accounts' = accounts \cup {u}
      /\ balance' = [balance EXCEPT ![u] = SignupBonus]
      /\ UNCHANGED <<transfers, adjustments, pc>>
  BY DEF Register
<1>2. \A v : Booked(v)' = Booked(v)
  BY <1>1, BookedIs, BookedIsNext DEF Inv, Books
<1>3. Booked(u) = SignupBonus
  <2>1. Net(transfers, adjustments, u) = 0
    BY <1>1, NetNobody DEF Books
  <2> QED
    BY <2>1, BookedIs, BonusAssumption DEF Inv, Books
<1>4. ReconciledUnlessOverwritten'
  BY <1>1, <1>2, <1>3 DEF Inv, TypeOK, Books, ReconciledUnlessOverwritten
<1> QED
  BY <1>1, <1>4 DEF Books

\* A commit writes a row, and moves its amount from one balance to the other.
LEMMA CommitBooks ==
    ASSUME Inv, Books, Inv', NEW r \in TReqs, Commit(r)
    PROVE  Books'
<1>0. PICK x : x = Row(r)
  OBVIOUS
<1>1. /\ transfers' = transfers \cup {x}
      /\ pc' = [pc EXCEPT ![r] = "audit"]
      /\ UNCHANGED <<accounts, adjustments>>
      /\ form[r] \in TransferForm
      /\ form[r].sender \in accounts
      /\ form[r].receiver \in accounts
      /\ form[r].receiver # form[r].sender
  BY <1>0 DEF Commit, Goto, Inv, FormInv, InTransaction
<1>2. /\ x \in TransferRow /\ x \notin transfers
      /\ x.sender = form[r].sender
      /\ x.receiver = form[r].receiver
      /\ x.amount = form[r].amount
  <2>1. \A t \in transfers : t.id # r
    BY DEF Inv, HistoryInv, Commit
  <2> QED
    BY <1>0, <1>1, <2>1 DEF Row, TransferRow, TransferForm
<1>3. balance' = [balance EXCEPT ![x.sender] = @ - x.amount, ![x.receiver] = @ + x.amount]
  BY <1>2 DEF Inv, ImageInv, ImageAgrees, Commit
<1>4. IsFiniteSet(transfers')
  BY <1>1, FS_AddElement DEF Books
<1>5. /\ Booked(x.receiver)' = Booked(x.receiver) + x.amount
      /\ Booked(x.sender)' = Booked(x.sender) - x.amount
      /\ \A v : v \notin {x.sender, x.receiver} => Booked(v)' = Booked(v)
  <2>1. \A v : /\ Booked(v) = SignupBonus + Net(transfers, adjustments, v)
               /\ Booked(v)' = SignupBonus + Net(transfers', adjustments, v)
               /\ Net(transfers, adjustments, v) \in Int
    BY <1>1, <1>4, BookedIs, BookedIsNext, NetInt DEF Inv, TypeOK, Books
  <2>2. /\ Net(transfers', adjustments, x.receiver)
             = Net(transfers, adjustments, x.receiver) + x.amount
        /\ Net(transfers', adjustments, x.sender)
             = Net(transfers, adjustments, x.sender) - x.amount
        /\ \A v : v \notin {x.sender, x.receiver} =>
             Net(transfers', adjustments, v) = Net(transfers, adjustments, v)
    <3>1. /\ transfers \in SUBSET TransferRow /\ IsFiniteSet(transfers)
          /\ adjustments \in SUBSET AdjustRow /\ IsFiniteSet(adjustments)
          /\ x.sender # x.receiver
      BY <1>1, <1>2 DEF Inv, TypeOK, Books
    <3> QED
      BY <1>1, <1>2, <3>1, NetTransfer
  <2>3. x.amount \in Int /\ SignupBonus \in Int
    BY <1>2, RowValues, BonusAssumption
  <2>4. Booked(x.receiver)' = Booked(x.receiver) + x.amount
    <3>1. PICK n \in Int : n = Net(transfers, adjustments, x.receiver)
      BY <2>1
    <3> QED
      BY <2>1, <2>2, <2>3, <3>1
  <2>5. Booked(x.sender)' = Booked(x.sender) - x.amount
    <3>1. PICK n \in Int : n = Net(transfers, adjustments, x.sender)
      BY <2>1
    <3> QED
      BY <2>1, <2>2, <2>3, <3>1
  <2>6. \A v : v \notin {x.sender, x.receiver} => Booked(v)' = Booked(v)
    BY <2>1, <2>2
  <2> QED
    BY <2>4, <2>5, <2>6
<1>6. ReconciledUnlessOverwritten'
  <2> SUFFICES ASSUME NEW u \in accounts,
                      \A a \in adjustments : a.user = u => a.over = a.before
               PROVE  balance'[u] = Booked(u)'
    BY <1>1 DEF ReconciledUnlessOverwritten
  <2>1. balance[u] = Booked(u) /\ u \in Users /\ balance \in [Users -> Nat]
    BY DEF Books, ReconciledUnlessOverwritten, Inv, TypeOK
  <2>2. x.sender \in Users /\ x.receiver \in Users /\ x.sender # x.receiver
    BY <1>1, <1>2 DEF TransferRow
  <2>3. x.amount \in Int
    BY <1>2, RowValues
  <2>4. CASE u = x.receiver
    <3>1. balance'[u] = balance[u] + x.amount
      BY <1>3, <2>1, <2>2, <2>4
    <3> QED
      BY <1>5, <2>1, <2>4, <3>1
  <2>5. CASE u = x.sender
    <3>1. balance'[u] = balance[u] - x.amount
      BY <1>3, <2>1, <2>2, <2>5
    <3> QED
      BY <1>5, <2>1, <2>5, <3>1
  <2>6. CASE u \notin {x.sender, x.receiver}
    BY <1>3, <1>5, <2>1, <2>6
  <2> QED
    BY <2>4, <2>5, <2>6
<1> QED
  BY <1>1, <1>2, <1>4, <1>6, RequestsAssumption DEF Books, Inv, TypeOK, AdjustRow, Reqs

\* An adjustment writes a row; when the balance is still the one it read, the
\* row says by how much it changed.
LEMMA WriteBalanceBooks ==
    ASSUME Inv, Books, Inv', NEW r \in AReqs, WriteBalance(r)
    PROVE  Books'
<1>0. PICK x : x = [id |-> r, user |-> adjust[r].user, before |-> adjust[r].before,
                    over |-> balance[adjust[r].user],
                    after |-> adjust[r].before + adjust[r].delta]
  OBVIOUS
<1>1. /\ adjustments' = adjustments \cup {x}
      /\ balance' = [balance EXCEPT ![x.user] = x.after]
      /\ pc[r] = "write" /\ pc' = [pc EXCEPT ![r] = "audit"]
      /\ UNCHANGED <<accounts, transfers>>
  BY <1>0 DEF WriteBalance, Goto
<1>2. /\ x.id = r /\ x.user \in accounts /\ x.user \in Users /\ x.over = balance[x.user]
      /\ x.before \in Int /\ x.after \in Int
  BY <1>0, <1>1 DEF Inv, TypeOK, AdjustInv, AdjustForm
<1>3. x \in AdjustRow
  BY <1>1, <1>2 DEF Inv, TypeOK
<1>4. x \notin adjustments
  BY <1>1, <1>2 DEF Books
<1>5. IsFiniteSet(adjustments')
  BY <1>1, FS_AddElement DEF Books
<1>6. /\ Booked(x.user)' = Booked(x.user) + (x.after - x.before)
      /\ \A v : v # x.user => Booked(v)' = Booked(v)
  <2>1. \A v : /\ Booked(v) = SignupBonus + Net(transfers, adjustments, v)
               /\ Booked(v)' = SignupBonus + Net(transfers, adjustments', v)
               /\ Net(transfers, adjustments, v) \in Int
    BY <1>1, <1>5, BookedIs, BookedIsNext, NetInt DEF Inv, TypeOK, Books
  <2>2. /\ Net(transfers, adjustments', x.user)
             = Net(transfers, adjustments, x.user) + (x.after - x.before)
        /\ \A v : v # x.user =>
             Net(transfers, adjustments', v) = Net(transfers, adjustments, v)
    <3>1. /\ transfers \in SUBSET TransferRow /\ IsFiniteSet(transfers)
          /\ adjustments \in SUBSET AdjustRow /\ IsFiniteSet(adjustments)
      BY DEF Inv, TypeOK, Books
    <3> QED
      BY <1>1, <1>3, <1>4, <3>1, NetAdjust
  <2>3. Booked(x.user)' = Booked(x.user) + (x.after - x.before)
    <3>1. PICK n \in Int : n = Net(transfers, adjustments, x.user)
      BY <2>1
    <3>2. SignupBonus \in Int
      BY BonusAssumption
    <3> QED
      BY <1>2, <2>1, <2>2, <3>1, <3>2
  <2>4. \A v : v # x.user => Booked(v)' = Booked(v)
    BY <2>1, <2>2
  <2> QED
    BY <2>3, <2>4
<1>7. ReconciledUnlessOverwritten'
  <2> SUFFICES ASSUME NEW u \in accounts,
                      \A a \in adjustments' : a.user = u => a.over = a.before
               PROVE  balance'[u] = Booked(u)'
    BY <1>1 DEF ReconciledUnlessOverwritten
  <2>1. balance[u] = Booked(u) /\ u \in Users /\ balance \in [Users -> Nat]
    BY <1>1 DEF Books, ReconciledUnlessOverwritten, Inv, TypeOK
  <2>2. CASE u = x.user
    <3>1. x.before = balance[u]
      BY <1>1, <1>2, <2>2
    <3>2. balance'[u] = x.after
      BY <1>1, <2>1, <2>2
    <3>3. Booked(u)' = balance[u] + (x.after - x.before)
      BY <1>6, <2>1, <2>2
    <3>4. balance[u] \in Int
      BY <2>1
    <3> QED
      BY <1>2, <3>1, <3>2, <3>3, <3>4
  <2>3. CASE u # x.user
    BY <1>1, <1>6, <2>1, <2>3
  <2> QED
    BY <2>2, <2>3
<1>8. \A a \in adjustments' : a.user \in accounts /\ pc'[a.id] \in {"audit", "done", "dead"}
  BY <1>1, <1>2 DEF Books, Inv, TypeOK, AdjustRow, Reqs
<1> QED
  BY <1>1, <1>5, <1>7, <1>8 DEF Books

\* The books start balanced: there is no account.
LEMMA InitBooks == Init => Books
BY FS_EmptySet DEF Init, Books, ReconciledUnlessOverwritten

\* Every step keeps the books.
LEMMA NextBooks == Inv /\ Inv' /\ Books /\ [Next]_vars => Books'
<1> SUFFICES ASSUME Inv, Inv', Books, [Next]_vars
             PROVE  Books'
  OBVIOUS
<1>0. TypeOK'
  BY DEF Inv
<1>1. ASSUME NEW u \in Users, Register(u) \/ ChangeStatus(u)
      PROVE  Books'
  BY <1>0, <1>1, RegisterBooks, QuietBooks DEF ChangeStatus
<1>2. ASSUME NEW p \in Products, DeleteProduct(p)
      PROVE  Books'
  BY <1>0, <1>2, QuietBooks DEF DeleteProduct
<1>3. ASSUME NEW r \in Reqs, NEW phase, pc' = [pc EXCEPT ![r] = phase],
             UNCHANGED <<accounts, balance, transfers, adjustments>>,
             r \in TReqs \/ pc[r] \notin {"audit", "done", "dead"}
                         \/ phase \in {"audit", "done", "dead"}
      PROVE  Books'
  <2>1. \A q \in AReqs : pc[q] \in {"audit", "done", "dead"}
                            => pc'[q] \in {"audit", "done", "dead"}
    BY <1>3, RequestsAssumption DEF Inv, TypeOK, Reqs
  <2> QED
    BY <1>0, <1>3, <2>1, QuietBooks
<1>4. ASSUME NEW r \in TReqs, StartTransfer(r) \/ RefuseTransfer(r)
      PROVE  Books'
  BY <1>3, <1>4 DEF StartTransfer, RefuseTransfer, Goto, db, Reqs
<1>5. ASSUME NEW r \in AReqs, StartAdjust(r)
      PROVE  Books'
  BY <1>3, <1>5 DEF StartAdjust, Goto, db, Reqs
<1>6. ASSUME NEW r \in TReqs, TransferStep(r)
      PROVE  Books'
  <2>1. CASE Commit(r)
    BY <2>1, CommitBooks
  <2>2. CASE CheckRecipient(r) \/ CheckProduct(r) \/ BeginImmediate(r)
    BY <1>3, <2>2 DEF CheckRecipient, CheckProduct, BeginImmediate, Goto, db, Reqs
  <2>3. CASE ReadBalance(r) \/ InsertTransfer(r)
    BY <1>3, <2>3 DEF ReadBalance, InsertTransfer, Rollback, Goto, db, Reqs
  <2>4. CASE Debit(r) \/ Credit(r)
    BY <1>3, <2>4 DEF Debit, Credit, Goto, db, Reqs
  <2> QED
    BY <1>6, <2>1, <2>2, <2>3, <2>4 DEF TransferStep
<1>7. ASSUME NEW r \in AReqs, AdjustStep(r)
      PROVE  Books'
  <2>1. CASE PeekBalance(r)
    BY <1>3, <2>1 DEF PeekBalance, Goto, db, Reqs
  <2>2. CASE WriteBalance(r)
    BY <2>2, WriteBalanceBooks
  <2> QED
    BY <1>7, <2>1, <2>2 DEF AdjustStep
<1>8. ASSUME NEW r \in Reqs, Audit(r) \/ LockTimeout(r)
      PROVE  Books'
  BY <1>3, <1>8 DEF Audit, LockTimeout, Goto, db
<1>9. CASE Crash
  BY <1>0, <1>9, QuietBooks DEF Crash, Ended, Reqs, db
<1>10. CASE UNCHANGED vars
  BY <1>0, <1>10, QuietBooks DEF vars, db
<1> QED
  BY <1>1, <1>2, <1>4, <1>5, <1>6, <1>7, <1>8, <1>9, <1>10 DEF Next, ReqStep

\* The invariant of the requests and that of the books hold together in every
\* reachable state.
THEOREM FullInvariance == Spec => []FullInv
<1>1. Init => FullInv
  BY InitInv, InitBooks DEF FullInv
<1>2. FullInv /\ [Next]_vars => FullInv'
  BY NextInv, NextBooks DEF FullInv
<1> QED
  BY <1>1, <1>2, PTL DEF Spec

\* Whatever transfers, crashes, deletions and lock timeouts interleave, and
\* however many users and requests there are, a balance differs from what the
\* recorded history says only when an adjustment wrote over a value it had not
\* read.
THEOREM MoneyConserved == Spec => []ReconciledUnlessOverwritten
<1>1. FullInv => ReconciledUnlessOverwritten
  BY DEF FullInv, Books
<1> QED
  BY <1>1, FullInvariance, PTL

-----------------------------------------------------------------------------
(* The wallet implements the ledger                                        *)

\* Committing the image is one indivisible move of the ledger.
LEMMA CommitMoves ==
    ASSUME Inv, NEW r \in TReqs, Commit(r)
    PROVE  L!Move(r, form[r].sender, form[r].receiver, form[r].amount)
<1>1. form[r].sender # form[r].receiver
  BY DEF Inv, FormInv, Commit, InTransaction
<1>2. /\ balance[form[r].sender] >= form[r].amount
      /\ balance' = [balance EXCEPT ![form[r].sender] = @ - form[r].amount,
                                    ![form[r].receiver] = @ + form[r].amount]
  BY DEF Inv, ImageInv, ImageAgrees, Commit
<1>3. \A t \in transfers : t.id # r
  BY DEF Inv, HistoryInv, Commit
<1>4. transfers' = transfers \cup
        {[id |-> r, sender |-> form[r].sender,
          receiver |-> form[r].receiver, amount |-> form[r].amount]}
  BY DEF Commit, Row
<1> QED
  BY <1>1, <1>2, <1>3, <1>4 DEF L!Move, Commit

\* Every step of the wallet is a step of the ledger or changes none of its
\* variables.
LEMMA StepImplements == Inv /\ [Next]_vars => [L!Next]_L!vars
<1> SUFFICES ASSUME Inv, [Next]_vars
             PROVE  L!Next \/ UNCHANGED L!vars
  OBVIOUS
<1> USE DEF L!vars
<1>1. ASSUME NEW u \in Users, Register(u)
      PROVE  L!Next
  BY <1>1 DEF Register, L!Next, L!Open
<1>2. ASSUME NEW u \in Users, ChangeStatus(u)
      PROVE  UNCHANGED L!vars
  BY <1>2 DEF ChangeStatus
<1>3. ASSUME NEW p \in Products, DeleteProduct(p)
      PROVE  UNCHANGED L!vars
  BY <1>3 DEF DeleteProduct
<1>4. ASSUME NEW r \in TReqs, StartTransfer(r) \/ RefuseTransfer(r)
      PROVE  UNCHANGED L!vars
  BY <1>4 DEF StartTransfer, RefuseTransfer, db
<1>5. ASSUME NEW r \in AReqs, StartAdjust(r)
      PROVE  UNCHANGED L!vars
  BY <1>5 DEF StartAdjust, db
<1>6. ASSUME NEW r \in TReqs, TransferStep(r)
      PROVE  L!Next \/ UNCHANGED L!vars
  <2>1. CASE Commit(r)
    <3>1. form[r].sender \in accounts /\ form[r].receiver \in accounts
      BY <2>1 DEF Inv, FormInv, Commit, InTransaction
    <3>2. form[r].amount \in Amounts
      BY <2>1 DEF Inv, FormInv, Commit, InTransaction, TransferForm
    <3> QED
      BY <2>1, <3>1, <3>2, CommitMoves DEF L!Next
  <2>2. CASE CheckRecipient(r) \/ CheckProduct(r) \/ BeginImmediate(r)
    BY <2>2 DEF CheckRecipient, CheckProduct, BeginImmediate, db
  <2>3. CASE ReadBalance(r) \/ InsertTransfer(r)
    BY <2>3 DEF ReadBalance, InsertTransfer, Rollback, db
  <2>4. CASE Debit(r) \/ Credit(r)
    BY <2>4 DEF Debit, Credit, db
  <2> QED
    BY <1>6, <2>1, <2>2, <2>3, <2>4 DEF TransferStep
<1>7. ASSUME NEW r \in AReqs, AdjustStep(r)
      PROVE  L!Next \/ UNCHANGED L!vars
  <2>1. CASE WriteBalance(r)
    <3> DEFINE u == adjust[r].user
               new == adjust[r].before + adjust[r].delta
    <3>1. u \in accounts /\ u \in Users /\ new \in Nat
      BY <2>1 DEF Inv, TypeOK, AdjustInv, WriteBalance
    <3>2. balance' = [balance EXCEPT ![u] = new] /\ UNCHANGED <<accounts, transfers>>
      BY <2>1 DEF WriteBalance
    <3> HIDE DEF u, new
    <3>3. balance'[u] = new
      BY <3>1, <3>2 DEF Inv, TypeOK
    <3>4. L!Set(u)
      BY <3>1, <3>2, <3>3 DEF L!Set
    <3> QED
      BY <3>1, <3>4 DEF L!Next
  <2>2. CASE PeekBalance(r)
    BY <2>2 DEF PeekBalance, db
  <2> QED
    BY <1>7, <2>1, <2>2 DEF AdjustStep
<1>8. ASSUME NEW r \in Reqs, Audit(r) \/ LockTimeout(r)
      PROVE  UNCHANGED L!vars
  BY <1>8 DEF Audit, LockTimeout, db
<1>9. CASE Crash
  BY <1>9 DEF Crash, db
<1>10. CASE UNCHANGED vars
  BY <1>10 DEF vars, db
<1> QED
  BY <1>1, <1>2, <1>3, <1>4, <1>5, <1>6, <1>7, <1>8, <1>9, <1>10 DEF Next, ReqStep

\* The statement-by-statement handlers, with their interleavings, lock
\* timeouts and crashes, only ever do what the ledger allows: in particular
\* every transfer debits, credits and records as one step, or not at all.
THEOREM Refinement == Spec => Implements
<1>1. Init => L!Init
  BY DEF Init, L!Init
<1> QED
  BY <1>1, Invariance, StepImplements, PTL DEF Spec, Implements, L!Spec
=============================================================================
