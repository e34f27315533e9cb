------------------------------- MODULE Wallet -------------------------------
(***************************************************************************)
(* Transfers between users (blueprints/transfers.py) and balance           *)
(* adjustments by an administrator (blueprints/admin.py), as requests that *)
(* run concurrently on the threaded server, each on its own SQLite         *)
(* connection (db.py).                                                     *)
(*                                                                         *)
(* One action is one SQL statement.  A statement outside a transaction     *)
(* commits by itself (db.execute); statements inside db.transaction work   *)
(* on an image that only the connection holding SQLite's write lock sees,  *)
(* and replace the committed rows when it commits.  Readers are never      *)
(* blocked (WAL) and see committed rows only.                              *)
(*                                                                         *)
(* The schema's CHECK (balance >= 0) is left out on purpose: it is a second *)
(* line of defence, and TypeOK says that the handlers never need it.       *)
(***************************************************************************)
EXTENDS Integers, FiniteSets, FiniteSetsExt

CONSTANTS
    Users,          \* rows the users table may come to hold
    Products,       \* rows the products table may hold
    TReqs,          \* requests that POST /transfer
    AReqs,          \* requests that POST /admin/users/balance
    Amounts,        \* amounts the transfer form lets through
    Deltas,         \* amounts the balance form lets through
    SignupBonus,    \* config.SIGNUP_BONUS
    MaxStatusChanges, \* bound: how often accounts change status
    None            \* SQL NULL, or nobody

ASSUME RequestsAssumption == TReqs \cap AReqs = {}
ASSUME AmountsAssumption == Amounts \subseteq Nat \ {0}
ASSUME DeltasAssumption == Deltas \subseteq Int
ASSUME BonusAssumption == SignupBonus \in Nat
ASSUME NoneAssumption ==
    /\ None \notin TReqs \cup AReqs \cup Products
    /\ None \notin [sender : Users, receiver : Users, amount : Amounts,
                    product : Products \cup {None}]
    /\ None \notin [user : Users, delta : Deltas, before : Int]
    /\ None \notin [Users -> Int]

VARIABLES
    accounts,       \* registered users
    status,         \* users.status, as "active" or "blocked" (dormant, banned)
    balance,        \* users.balance, committed
    transfers,      \* transfers rows, committed (product_id is productOf)
    productOf,      \* transfers.product_id by transfer id
    listed,         \* products rows
    adjustments,    \* history: adjustments written, with the balance replaced
    log,            \* audit_logs rows about money
    lock,           \* the request holding SQLite's write lock, or None
    image,          \* users.balance as the request's transaction sees it
    pc,             \* what each request does next
    form,           \* input of each transfer
    adjust,         \* input of each adjustment and the balance it read
    changes         \* how many status changes have happened (bound only)

db == <<accounts, status, balance, transfers, productOf, listed, adjustments, log>>
vars == <<db, lock, image, pc, form, adjust, changes>>

Reqs == TReqs \cup AReqs

TransferForm ==
    [sender : Users, receiver : Users, amount : Amounts, product : Products \cup {None}]
TransferRow == [id : TReqs, sender : Users, receiver : Users, amount : Amounts]
AdjustForm == [user : Users, delta : Deltas, before : Int]
AdjustRow == [id : AReqs, user : Users, before : Int, over : Int, after : Int]
InTransaction == {"read", "debit", "credit", "insert", "commit"}
Ended == {"done", "refused", "error", "dead"}
Phases == {"idle", "recipient", "product", "begin", "write", "peek",
           "audit", "audit_failed"} \cup InTransaction \cup Ended

TypeOK ==
    /\ accounts \subseteq Users
    /\ status \in [Users -> {"active", "blocked"}]
    /\ balance \in [Users -> Nat]
    /\ transfers \subseteq TransferRow
    /\ productOf \in [TReqs -> Products \cup {None}]
    /\ listed \subseteq Products
    /\ adjustments \subseteq AdjustRow
    /\ log \subseteq [id : Reqs, action : {"completed", "failed", "adjusted"}]
    /\ lock \in TReqs \cup {None}
    /\ image \in [TReqs -> [Users -> Nat] \cup {None}]
    /\ pc \in [Reqs -> Phases]
    /\ form \in [TReqs -> TransferForm \cup {None}]
    /\ adjust \in [AReqs -> AdjustForm \cup {None}]
    /\ changes \in Nat

Init ==
    /\ accounts = {}
    /\ status = [u \in Users |-> "active"]
    /\ balance = [u \in Users |-> 0]
    /\ transfers = {}
    /\ productOf = [r \in TReqs |-> None]
    /\ listed = Products
    /\ adjustments = {}
    /\ log = {}
    /\ lock = None
    /\ image = [r \in TReqs |-> None]
    /\ pc = [r \in Reqs |-> "idle"]
    /\ form = [r \in TReqs |-> None]
    /\ adjust = [r \in AReqs |-> None]
    /\ changes = 0

Goto(r, phase) == pc' = [pc EXCEPT ![r] = phase]

\* A statement of a connection outside a transaction waits for the write lock.
Unlocked == lock = None

-----------------------------------------------------------------------------
(* Statements of other handlers that touch the same rows.                  *)
(* Definitions named Bug... are deliberate mistakes: the properties below  *)
(* are seen to fail when one replaces the definition it precedes.          *)

\* INSERT INTO users: registration and create-admin give the same bonus.
Register(u) ==
    /\ Unlocked
    /\ u \notin accounts
    /\ accounts' = accounts \cup {u}
    /\ balance' = [balance EXCEPT ![u] = SignupBonus]
    /\ UNCHANGED <<status, transfers, productOf, listed, adjustments, log,
                   lock, image, pc, form, adjust, changes>>

\* An account is suspended or reactivated (an administrator, or the report
\* threshold).
ChangeStatus(u) ==
    /\ Unlocked
    /\ u \in accounts
    /\ changes < MaxStatusChanges
    /\ changes' = changes + 1
    /\ status' = [status EXCEPT ![u] = IF @ = "active" THEN "blocked" ELSE "active"]
    /\ UNCHANGED <<accounts, balance, transfers, productOf, listed, adjustments,
                   log, lock, image, pc, form, adjust>>

\* DELETE FROM products, with transfers.product_id ON DELETE SET NULL.
DeleteProduct(p) ==
    /\ Unlocked
    /\ p \in listed
    /\ listed' = listed \ {p}
    /\ productOf' = [r \in TReqs |-> IF productOf[r] = p THEN None ELSE productOf[r]]
    /\ UNCHANGED <<accounts, status, balance, transfers, adjustments, log,
                   lock, image, pc, form, adjust, changes>>

-----------------------------------------------------------------------------
(* POST /transfer                                                          *)

\* The session belongs to an active account and the form is accepted; a wrong
\* password ends the request (RefuseTransfer).
StartTransfer(r) ==
    /\ pc[r] = "idle"
    /\ \E f \in TransferForm :
         /\ f.sender \in accounts /\ status[f.sender] = "active"
         /\ form' = [form EXCEPT ![r] = f]
    /\ Goto(r, "recipient")
    /\ UNCHANGED <<db, lock, image, adjust, changes>>

RefuseTransfer(r) ==
    /\ pc[r] = "idle"
    /\ Goto(r, "refused")
    /\ UNCHANGED <<db, lock, image, form, adjust, changes>>

CheckRecipient(r) ==
    /\ pc[r] = "recipient"
    /\ IF /\ form[r].receiver \in accounts
          /\ status[form[r].receiver] = "active"
          /\ form[r].receiver # form[r].sender
       THEN Goto(r, "product")
       ELSE Goto(r, "refused")
    /\ UNCHANGED <<db, lock, image, form, adjust, changes>>

\* A product that does not exist is dropped from the form.
CheckProduct(r) ==
    /\ pc[r] = "product"
    /\ form' = IF form[r].product \in listed THEN form
               ELSE [form EXCEPT ![r].product = None]
    /\ Goto(r, "begin")
    /\ UNCHANGED <<db, lock, image, adjust, changes>>

\* Bug: a deferred BEGIN, which does not wait for the other writer.
BugDeferredBegin(r) ==
    /\ pc[r] = "begin"
    /\ lock' = r
    /\ image' = [image EXCEPT ![r] = balance]
    /\ Goto(r, "read")
    /\ UNCHANGED <<db, form, adjust, changes>>

\* BEGIN IMMEDIATE takes the write lock and a snapshot of the committed rows.
BeginImmediate(r) ==
    /\ pc[r] = "begin"
    /\ Unlocked
    /\ lock' = r
    /\ image' = [image EXCEPT ![r] = balance]
    /\ Goto(r, "read")
    /\ UNCHANGED <<db, form, adjust, changes>>

\* conn.rollback(): the image is discarded and the lock released.
Rollback(r, phase) ==
    /\ lock' = None
    /\ image' = [image EXCEPT ![r] = None]
    /\ Goto(r, phase)
    /\ UNCHANGED <<db, form, adjust, changes>>

\* Bug: the balance is not looked at before the UPDATEs.
BugNoBalanceCheck(r) ==
    /\ pc[r] = "read"
    /\ Goto(r, "debit")
    /\ UNCHANGED <<db, lock, image, form, adjust, changes>>

\* Bug: an early return leaves the transaction open.
BugReturnInTransaction(r) ==
    /\ pc[r] = "read"
    /\ Goto(r, IF image[r][form[r].sender] < form[r].amount THEN "refused" ELSE "debit")
    /\ UNCHANGED <<db, lock, image, form, adjust, changes>>

\* Bug: the transaction waits for the money to arrive.
BugWaitForFunds(r) ==
    /\ pc[r] = "read"
    /\ image[r][form[r].sender] >= form[r].amount
    /\ Goto(r, "debit")
    /\ UNCHANGED <<db, lock, image, form, adjust, changes>>

\* Too little money raises ValueError, which rolls back.
ReadBalance(r) ==
    /\ pc[r] = "read"
    /\ IF image[r][form[r].sender] < form[r].amount
       THEN Rollback(r, "refused")
       ELSE Goto(r, "debit") /\ UNCHANGED <<db, lock, image, form, adjust, changes>>

\* The UPDATE repeats the balance condition.
Debit(r) ==
    LET s == form[r].sender
        a == form[r].amount
    IN /\ pc[r] = "debit"
       /\ image' = IF image[r][s] >= a THEN [image EXCEPT ![r][s] = @ - a] ELSE image
       /\ Goto(r, "credit")
       /\ UNCHANGED <<db, lock, form, adjust, changes>>

Credit(r) ==
    /\ pc[r] = "credit"
    /\ image' = [image EXCEPT ![r][form[r].receiver] = @ + form[r].amount]
    /\ Goto(r, "insert")
    /\ UNCHANGED <<db, lock, form, adjust, changes>>

\* Bug: PRAGMA foreign_keys left at its default, OFF.
BugNoForeignKey(r) ==
    /\ pc[r] = "insert"
    /\ Goto(r, "commit")
    /\ UNCHANGED <<db, lock, image, form, adjust, changes>>

\* The foreign key refuses a product deleted since CheckProduct.
InsertTransfer(r) ==
    /\ pc[r] = "insert"
    /\ IF form[r].product \in listed \cup {None}
       THEN Goto(r, "commit") /\ UNCHANGED <<db, lock, image, form, adjust, changes>>
       ELSE Rollback(r, "audit_failed")                        \* IntegrityError

Row(r) == [id |-> r, sender |-> form[r].sender,
           receiver |-> form[r].receiver, amount |-> form[r].amount]

\* conn.commit(): balances and history row become visible together.
Commit(r) ==
    /\ pc[r] = "commit"
    /\ balance' = image[r]
    /\ transfers' = transfers \cup {Row(r)}
    /\ productOf' = [productOf EXCEPT ![r] = form[r].product]
    /\ lock' = None
    /\ image' = [image EXCEPT ![r] = None]
    /\ Goto(r, "audit")
    /\ UNCHANGED <<accounts, status, listed, adjustments, log, form, adjust, changes>>

-----------------------------------------------------------------------------
(* POST /admin/users/balance                                               *)

StartAdjust(r) ==
    /\ pc[r] = "idle"
    /\ \E u \in accounts, d \in Deltas :
         adjust' = [adjust EXCEPT ![r] = [user |-> u, delta |-> d, before |-> 0]]
    /\ Goto(r, "peek")
    /\ UNCHANGED <<db, lock, image, form, changes>>

\* Bug: a negative result is not refused.
BugNoNegativeCheck(r) ==
    /\ pc[r] = "peek"
    /\ Goto(r, "write")
    /\ adjust' = [adjust EXCEPT ![r].before = balance[adjust[r].user]]
    /\ UNCHANGED <<db, lock, image, form, changes>>

\* The balance is read, the new one computed and refused when negative.
PeekBalance(r) ==
    LET b == balance[adjust[r].user]
    IN /\ pc[r] = "peek"
       /\ IF b + adjust[r].delta < 0
          THEN Goto(r, "refused") /\ UNCHANGED adjust
          ELSE Goto(r, "write") /\ adjust' = [adjust EXCEPT ![r].before = b]
       /\ UNCHANGED <<db, lock, image, form, changes>>

\* UPDATE users SET balance = <the value computed from the earlier read>.
WriteBalance(r) ==
    LET u == adjust[r].user
        new == adjust[r].before + adjust[r].delta
    IN /\ pc[r] = "write"
       /\ Unlocked
       /\ balance' = [balance EXCEPT ![u] = new]
       /\ adjustments' = adjustments \cup
            {[id |-> r, user |-> u, before |-> adjust[r].before,
              over |-> balance[u], after |-> new]}
       /\ Goto(r, "audit")
       /\ UNCHANGED <<accounts, status, transfers, productOf, listed, log,
                      lock, image, form, adjust, changes>>

-----------------------------------------------------------------------------
(* Ends of both handlers, and failures.                                    *)

\* Bug: the branch that handled IntegrityError falls through to the success.
BugAuditAction(r) == IF r \in TReqs THEN "completed" ELSE "adjusted"

AuditAction(r) ==
    IF pc[r] = "audit_failed" THEN "failed"
    ELSE IF r \in TReqs THEN "completed" ELSE "adjusted"

\* security.audit writes its row in a statement of its own.
Audit(r) ==
    /\ pc[r] \in {"audit", "audit_failed"}
    /\ Unlocked
    /\ log' = log \cup {[id |-> r, action |-> AuditAction(r)]}
    /\ Goto(r, "done")
    /\ UNCHANGED <<accounts, status, balance, transfers, productOf, listed,
                   adjustments, lock, image, form, adjust, changes>>

\* busy_timeout runs out while another connection holds the lock.  audit
\* swallows the error; any other statement ends the request with a 500.
LockTimeout(r) ==
    /\ pc[r] \in {"begin", "write", "audit", "audit_failed"}
    /\ ~Unlocked
    /\ Goto(r, IF pc[r] \in {"begin", "write"} THEN "error" ELSE "done")
    /\ UNCHANGED <<db, lock, image, form, adjust, changes>>

\* The server process stops: requests in progress vanish and the database
\* file keeps only what was committed.
Crash ==
    /\ \E r \in Reqs : pc[r] \notin Ended \cup {"idle"}
    /\ pc' = [r \in Reqs |-> IF pc[r] \in Ended \cup {"idle"} THEN pc[r] ELSE "dead"]
    /\ lock' = None
    /\ image' = [r \in TReqs |-> None]
    /\ UNCHANGED <<db, form, adjust, changes>>

TransferStep(r) ==
    \/ CheckRecipient(r) \/ CheckProduct(r) \/ BeginImmediate(r)
    \/ ReadBalance(r) \/ Debit(r) \/ Credit(r) \/ InsertTransfer(r) \/ Commit(r)

AdjustStep(r) == PeekBalance(r) \/ WriteBalance(r)

ReqStep(r) ==
    \/ r \in TReqs /\ TransferStep(r)
    \/ r \in AReqs /\ AdjustStep(r)
    \/ Audit(r)
    \/ LockTimeout(r)

Next ==
    \/ \E u \in Users : Register(u) \/ ChangeStatus(u)
    \/ \E p \in Products : DeleteProduct(p)
    \/ \E r \in TReqs : StartTransfer(r) \/ RefuseTransfer(r)
    \/ \E r \in AReqs : StartAdjust(r)
    \/ \E r \in Reqs : ReqStep(r)
    \/ Crash

Spec == Init /\ [][Next]_vars

\* A thread that has something to do is scheduled again, and SQLite's busy
\* handler gives up: weak fairness of every request's own steps.  Nothing
\* makes a user send a request.
FairSpec == Spec /\ \A r \in Reqs : WF_vars(ReqStep(r))

-----------------------------------------------------------------------------
(* Properties                                                              *)

SumOf(S, val(_)) == MapThenSumSet(val, S)

\* What user u's balance should be by the recorded history alone.
Booked(u) ==
    LET amount(t) == t.amount
        change(a) == a.after - a.before
    IN SignupBonus
       + SumOf({t \in transfers : t.receiver = u}, amount)
       - SumOf({t \in transfers : t.sender = u}, amount)
       + SumOf({a \in adjustments : a.user = u}, change)

\* Every balance is the bonus plus what the history of transfers and
\* adjustments says moved: no money appears or vanishes (db.py:84-90,
\* transfers.py:6).  It fails when adjust_balance writes over a transfer that
\* committed after its read.
Reconciled == \A u \in accounts : balance[u] = Booked(u)

\* A balance that no adjustment wrote over blindly agrees with the history:
\* whatever transfers, crashes, deletions and lock timeouts interleave, only
\* the read-then-write of adjust_balance can lose money.
ReconciledUnlessOverwritten ==
    \A u \in accounts :
        (\A a \in adjustments : a.user = u => a.over = a.before)
            => balance[u] = Booked(u)

\* A transfer never names a product that does not exist, although the product
\* is looked up before the transaction and may be deleted at any moment
\* (PRAGMA foreign_keys, ON DELETE SET NULL).
NoDanglingProduct == \A r \in TReqs : productOf[r] \in listed \cup {None}

\* The audit log never contradicts the history: a completed transfer and an
\* adjustment it mentions were committed, a failed transfer was not.
AuditHonest ==
    \A e \in log :
        /\ e.action = "completed" => \E t \in transfers : t.id = e.id
        /\ e.action = "failed" => \A t \in transfers : t.id # e.id
        /\ e.action = "adjusted" => \E a \in adjustments : a.id = e.id

\* transfers.py:8 promises that every transfer is in the audit log; a request
\* that ran to its end and whose transfer committed must have left its entry.
EveryTransferAudited ==
    \A t \in transfers :
        pc[t.id] = "done" => [id |-> t.id, action |-> "completed"] \in log

\* The write lock is always given back, on every path out of the transaction.
LockReleased == (lock # None) ~> (lock = None)

\* A request that has started is answered (or dies with the process), however
\* many other requests want the lock.
Answered == \A r \in Reqs : (pc[r] # "idle") ~> (pc[r] \in Ended)

\* The handlers implement the abstract ledger.
L == INSTANCE Ledger WITH TransferIds <- TReqs
Implements == L!Spec
=============================================================================
