----------------------------- MODULE Moderation -----------------------------
(***************************************************************************)
(* Reports against users and products (blueprints/reports.py), the         *)
(* automatic measures they trigger, and the statements of administrators   *)
(* (blueprints/admin.py) and sellers (blueprints/products.py) that meet    *)
(* them on the same rows.                                                  *)
(*                                                                         *)
(* A report request is a sequence of statements, each committed by itself  *)
(* (db.execute): INSERT, COUNT, UPDATE report_count, guarded UPDATE status. *)
(* Any of them may fail on SQLite's busy timeout, which ends the request   *)
(* with what it has committed so far.  An administrator's handler reads    *)
(* its row only to answer 404, so its one UPDATE or DELETE is one action.  *)
(*                                                                         *)
(* Definitions named Bug... are deliberate mistakes: the properties are    *)
(* seen to fail when one replaces the definition it precedes.              *)
(***************************************************************************)
EXTENDS Integers, FiniteSets

CONSTANTS
    Users,            \* registered users
    InitialAdmins,    \* users with role 'admin' at the start
    Products,         \* listed products
    Seller,           \* products.seller_id, a function on Products
    ReportReqs,       \* requests that POST /report
    SellerReqs,       \* requests that POST /products/<id>/status
    ProductThreshold, \* config.REPORT_BLOCK_THRESHOLD_PRODUCT
    UserThreshold,    \* config.REPORT_DORMANT_THRESHOLD_USER
    DailyLimit,       \* config.REPORT_DAILY_LIMIT_PER_USER
    MaxInterventions, \* bound: how many statements administrators execute
    None

ASSUME TargetsAssumption == Users \cap Products = {}
ASSUME UsersAssumption == IsFiniteSet(Users)
ASSUME SellerAssumption == Seller \in [Products -> Users]
ASSUME AdminsAssumption == InitialAdmins \subseteq Users
ASSUME ModerationRequestsAssumption == ReportReqs \cap SellerReqs = {}
ASSUME ThresholdsAssumption ==
    ProductThreshold \in Nat \ {0} /\ UserThreshold \in Nat \ {0}

VARIABLES
    role,           \* users.role
    userStatus,     \* users.status
    productStatus,  \* products.status; "deleted" when the row is gone
    reportCount,    \* report_count of users and of products
    reports,        \* reports.status by (reporter, target); "none" for no row
    pc,             \* what each request does next
    job,            \* what each request is about, and what it has read
    intervened,     \* history: targets a person acted on
    interventions   \* how many statements administrators executed (bound only)

rows == <<role, userStatus, productStatus, reportCount, reports>>
vars == <<rows, pc, job, intervened, interventions>>

Targets == Users \cup Products
Reqs == ReportReqs \cup SellerReqs
ProductStatuses == {"active", "sold", "blocked", "deleted"}
ReportJob == [by : Users, target : Targets, count : Nat]
SellerJob == [by : Users, asAdmin : BOOLEAN, target : Products,
              saw : ProductStatuses, status : {"active", "sold"}]

ASSUME NoneAssumption == None \notin ReportJob \cup SellerJob

TypeOK ==
    /\ role \in [Users -> {"user", "admin"}]
    /\ userStatus \in [Users -> {"active", "dormant", "banned"}]
    /\ productStatus \in [Products -> ProductStatuses]
    /\ reportCount \in [Targets -> Nat]
    /\ reports \in [Users \X Targets -> {"none", "pending", "resolved", "dismissed"}]
    /\ pc \in [Reqs -> {"idle", "insert", "count", "store", "act", "apply",
                        "done", "refused", "error"}]
    /\ job \in [Reqs -> ReportJob \cup SellerJob \cup {None}]
    /\ intervened \subseteq Targets
    /\ interventions \in Nat

Init ==
    /\ role = [u \in Users |-> IF u \in InitialAdmins THEN "admin" ELSE "user"]
    /\ userStatus = [u \in Users |-> "active"]
    /\ productStatus = [p \in Products |-> "active"]
    /\ reportCount = [t \in Targets |-> 0]
    /\ reports = [ut \in Users \X Targets |-> "none"]
    /\ pc = [r \in Reqs |-> "idle"]
    /\ job = [r \in Reqs |-> None]
    /\ intervened = {}
    /\ interventions = 0

Goto(r, phase) == pc' = [pc EXCEPT ![r] = phase]

Exists(t) == t \in Products => productStatus[t] # "deleted"
IsAdmin(u) == role[u] = "admin"
Threshold(t) == IF t \in Products THEN ProductThreshold ELSE UserThreshold

\* Who has reported t, and whose reports still count.
Reporters(t) == {u \in Users : reports[<<u, t>>] # "none"}
Counting(t) == {u \in Users : reports[<<u, t>>] \in {"pending", "resolved"}}
FiledBy(u) == {t \in Targets : reports[<<u, t>>] # "none"}

-----------------------------------------------------------------------------
(* POST /report                                                            *)

\* The checks before the INSERT: the target exists and is not the reporter's
\* own, and the reporter has quota left.  The day does not pass here.
StartReport(r) ==
    /\ pc[r] = "idle"
    /\ \E u \in Users, t \in Targets :
         /\ userStatus[u] = "active"
         /\ Exists(t)
         /\ IF t \in Products THEN Seller[t] # u ELSE t # u
         /\ Cardinality(FiledBy(u)) < DailyLimit
         /\ job' = [job EXCEPT ![r] = [by |-> u, target |-> t, count |-> 0]]
    /\ Goto(r, "insert")
    /\ UNCHANGED <<rows, intervened, interventions>>

\* A second report of the same target violates UNIQUE and is answered 409.
InsertReport(r) ==
    LET key == <<job[r].by, job[r].target>>
    IN /\ pc[r] = "insert"
       /\ IF reports[key] = "none"
          THEN reports' = [reports EXCEPT ![key] = "pending"] /\ Goto(r, "count")
          ELSE UNCHANGED reports /\ Goto(r, "refused")
       /\ UNCHANGED <<role, userStatus, productStatus, reportCount, job,
                      intervened, interventions>>

\* Bug: the cached counter is incremented instead of counting the rows.
BugIncrementCount(r) ==
    /\ pc[r] = "count"
    /\ job' = [job EXCEPT ![r].count = reportCount[job[r].target] + 1]
    /\ Goto(r, "store")
    /\ UNCHANGED <<rows, intervened, interventions>>

\* Bug: the rows of every target are counted.
BugCountEveryTarget(r) ==
    /\ pc[r] = "count"
    /\ job' = [job EXCEPT ![r].count =
                 Cardinality({ut \in Users \X Targets : reports[ut] \in {"pending", "resolved"}})]
    /\ Goto(r, "store")
    /\ UNCHANGED <<rows, intervened, interventions>>

\* _apply_threshold counts the reports that were not dismissed.
CountReports(r) ==
    /\ pc[r] = "count"
    /\ job' = [job EXCEPT ![r].count = Cardinality(Counting(job[r].target))]
    /\ Goto(r, "store")
    /\ UNCHANGED <<rows, intervened, interventions>>

\* Bug: the measure is taken when the threshold is exceeded, not reached.
BugStoreCount(r) ==
    LET t == job[r].target
    IN /\ pc[r] = "store"
       /\ reportCount' = IF Exists(t) THEN [reportCount EXCEPT ![t] = job[r].count]
                         ELSE reportCount
       /\ Goto(r, IF job[r].count > Threshold(t) THEN "act" ELSE "done")
       /\ UNCHANGED <<role, userStatus, productStatus, reports, job,
                      intervened, interventions>>

StoreCount(r) ==
    LET t == job[r].target
    IN /\ pc[r] = "store"
       /\ reportCount' = IF Exists(t) THEN [reportCount EXCEPT ![t] = job[r].count]
                         ELSE reportCount
       /\ Goto(r, IF job[r].count >= Threshold(t) THEN "act" ELSE "done")
       /\ UNCHANGED <<role, userStatus, productStatus, reports, job,
                      intervened, interventions>>

\* Bug: UPDATE users SET status = 'dormant' without its conditions.
BugActUnguarded(r) ==
    LET t == job[r].target
    IN /\ pc[r] = "act"
       /\ productStatus' = IF t \in Products /\ Exists(t)
                           THEN [productStatus EXCEPT ![t] = "blocked"] ELSE productStatus
       /\ userStatus' = IF t \in Users THEN [userStatus EXCEPT ![t] = "dormant"]
                        ELSE userStatus
       /\ Goto(r, "done")
       /\ UNCHANGED <<role, reportCount, reports, job, intervened, interventions>>

\* Bug: the products' status word is used for users too.
BugActStatusWord(r) ==
    LET t == job[r].target
    IN /\ pc[r] = "act"
       /\ productStatus' = IF t \in Products /\ Exists(t)
                           THEN [productStatus EXCEPT ![t] = "blocked"] ELSE productStatus
       /\ userStatus' = IF t \in Users /\ userStatus[t] = "active" /\ ~IsAdmin(t)
                        THEN [userStatus EXCEPT ![t] = "blocked"] ELSE userStatus
       /\ Goto(r, "done")
       /\ UNCHANGED <<role, reportCount, reports, job, intervened, interventions>>

\* A product is blocked; a user who is active and no administrator becomes
\* dormant.  The conditions are evaluated by the UPDATE itself.
Act(r) ==
    LET t == job[r].target
    IN /\ pc[r] = "act"
       /\ productStatus' = IF t \in Products /\ Exists(t)
                           THEN [productStatus EXCEPT ![t] = "blocked"] ELSE productStatus
       /\ userStatus' = IF t \in Users /\ userStatus[t] = "active" /\ ~IsAdmin(t)
                        THEN [userStatus EXCEPT ![t] = "dormant"] ELSE userStatus
       /\ Goto(r, "done")
       /\ UNCHANGED <<role, reportCount, reports, job, intervened, interventions>>

\* A writing statement finds the database locked for too long.
LockTimeout(r) ==
    /\ pc[r] \in {"insert", "store", "act", "apply"}
    /\ Goto(r, "error")
    /\ UNCHANGED <<rows, job, intervened, interventions>>

-----------------------------------------------------------------------------
(* POST /products/<id>/status, by the seller or an administrator           *)

\* Bug: a blocked product is not refused.
BugStartStatusChange(r) ==
    /\ pc[r] = "idle"
    /\ \E u \in Users, p \in Products, s \in {"active", "sold"} :
         /\ userStatus[u] = "active"
         /\ Exists(p)
         /\ Seller[p] = u \/ IsAdmin(u)
         /\ job' = [job EXCEPT ![r] =
              [by |-> u, asAdmin |-> IsAdmin(u), target |-> p,
               saw |-> productStatus[p], status |-> s]]
    /\ Goto(r, "apply")
    /\ UNCHANGED <<rows, intervened, interventions>>

\* The product is read, and with it whether it is blocked.  The role is the one
\* current_user cached for the request.
StartStatusChange(r) ==
    /\ pc[r] = "idle"
    /\ \E u \in Users, p \in Products, s \in {"active", "sold"} :
         /\ userStatus[u] = "active"
         /\ Exists(p)
         /\ Seller[p] = u \/ IsAdmin(u)
         /\ productStatus[p] = "blocked" => IsAdmin(u)
         /\ job' = [job EXCEPT ![r] =
              [by |-> u, asAdmin |-> IsAdmin(u), target |-> p,
               saw |-> productStatus[p], status |-> s]]
    /\ Goto(r, "apply")
    /\ UNCHANGED <<rows, intervened, interventions>>

\* UPDATE products SET status = ?: it does not look at the status again.
ApplyStatusChange(r) ==
    LET p == job[r].target
    IN /\ pc[r] = "apply"
       /\ productStatus' = IF Exists(p) THEN [productStatus EXCEPT ![p] = job[r].status]
                           ELSE productStatus
       /\ intervened' = intervened \cup {p}
       /\ job' = [job EXCEPT ![r] = None]
       /\ Goto(r, "done")
       /\ UNCHANGED <<role, userStatus, reportCount, reports, interventions>>

-----------------------------------------------------------------------------
(* Statements of an administrator.  Who is one is the subject of Accounts;  *)
(* here their statements may come at any moment.                           *)

Intervene(t) ==
    /\ interventions < MaxInterventions
    /\ interventions' = interventions + 1
    /\ intervened' = intervened \cup {t}
    /\ UNCHANGED <<reportCount, pc, job>>

\* product_action: block, unblock (to 'active', whatever it was) or delete.
\* products.delete, the owner's, executes the same DELETE.
ProductAction(p, status) ==
    /\ Intervene(p)
    /\ Exists(p)
    /\ productStatus' = [productStatus EXCEPT ![p] = status]
    /\ UNCHANGED <<role, userStatus, reports>>

\* user_action: activate, dormant, ban.
UserAction(u, status) ==
    /\ Intervene(u)
    /\ userStatus' = [userStatus EXCEPT ![u] = status]
    /\ UNCHANGED <<role, productStatus, reports>>

\* user_action: promote, demote.
RoleAction(u, newRole) ==
    /\ Intervene(u)
    /\ role' = [role EXCEPT ![u] = newRole]
    /\ UNCHANGED <<userStatus, productStatus, reports>>

\* report_action: resolve or dismiss, from any status.  It neither recounts
\* nor undoes a measure.
ReportAction(u, t, status) ==
    /\ Intervene(t)
    /\ reports[<<u, t>>] # "none"
    /\ reports' = [reports EXCEPT ![<<u, t>>] = status]
    /\ UNCHANGED <<role, userStatus, productStatus>>

AdminStep ==
    \/ \E p \in Products, s \in {"blocked", "active", "deleted"} : ProductAction(p, s)
    \/ \E u \in Users, s \in {"active", "dormant", "banned"} : UserAction(u, s)
    \/ \E u \in Users, s \in {"user", "admin"} : RoleAction(u, s)
    \/ \E u \in Users, t \in Targets, s \in {"resolved", "dismissed"} : ReportAction(u, t, s)

ReportStep(r) ==
    InsertReport(r) \/ CountReports(r) \/ StoreCount(r) \/ Act(r)

Next ==
    \/ \E r \in ReportReqs : StartReport(r) \/ ReportStep(r)
    \/ \E r \in SellerReqs : StartStatusChange(r) \/ ApplyStatusChange(r)
    \/ \E r \in Reqs : LockTimeout(r)
    \/ AdminStep

Spec == Init /\ [][Next]_vars

\* The thread that serves a report request runs on; nobody is obliged to send
\* a request, and administrators are under no obligation.
FairSpec == Spec /\ \A r \in ReportReqs : WF_vars(ReportStep(r))

-----------------------------------------------------------------------------
(* Properties                                                              *)

Suppressed(t) ==
    IF t \in Products THEN productStatus[t] \in {"blocked", "deleted"}
    ELSE userStatus[t] # "active" \/ IsAdmin(t)

About(t) == {r \in ReportReqs : job[r] # None /\ job[r].target = t}

\* No report request about t is still running, and none died half-way.
Settled(t) == \A r \in About(t) : pc[r] \in {"done", "refused"}

\* A target nobody acted on by hand whose counted reports reach the threshold
\* has been taken down once the requests that reported it have finished,
\* however their statements interleaved: of the requests that count last, one
\* sees every row (reports.py:33-67 counts after its own INSERT committed).
ThresholdEnforced ==
    \A t \in Targets \ intervened :
        Settled(t) /\ Cardinality(Counting(t)) >= Threshold(t) => Suppressed(t)

\* The automatic measure hits a target only when that many different users
\* have reported it, even though the count was read earlier and by then some
\* reports may have been dismissed.
NoWrongfulMeasure ==
    [][\A r \in ReportReqs : pc[r] = "act" /\ pc'[r] = "done" =>
         LET t == job[r].target
         IN Cardinality(Reporters(t)) >= Threshold(t)]_vars

\* Reports never soften a ban, and never suspend an administrator: only an
\* administrator's own action changes those accounts (reports.py:58-61).
OnlyAdminsMoveProtectedAccounts ==
    [][\A u \in Users :
         (userStatus[u] = "banned" \/ IsAdmin(u)) /\ userStatus'[u] # userStatus[u]
             => interventions' = interventions + 1]_vars

\* A blocked product comes back only by an administrator, or by a seller whose
\* request had read the product before it was blocked (products.py:343).
BlockOutlivesFreshSellers ==
    [][\A p \in Products :
         productStatus[p] = "blocked" /\ productStatus'[p] \in {"active", "sold"} =>
            \/ interventions' = interventions + 1
            \/ \E r \in SellerReqs :
                 /\ pc[r] = "apply" /\ pc'[r] = "done" /\ job[r].target = p
                 /\ job[r].saw # "blocked" \/ job[r].asAdmin]_vars

\* products.py:337 says that only administrators change a blocked product.
OnlyAdminsUnblock ==
    [][\A p \in Products :
         productStatus[p] = "blocked" /\ productStatus'[p] \in {"active", "sold"} =>
            \/ interventions' = interventions + 1
            \/ \E r \in SellerReqs :
                 /\ pc[r] = "apply" /\ pc'[r] = "done" /\ job[r].target = p
                 /\ job[r].asAdmin]_vars

\* Enough reports lead to the measure, unless somebody intervenes or a request
\* dies on the lock between its INSERT and its UPDATE.
EnoughReportsSuppress ==
    \A t \in Targets :
        Cardinality(Counting(t)) >= Threshold(t) ~>
            \/ Suppressed(t)
            \/ t \in intervened
            \/ \E r \in About(t) : pc[r] = "error"
=============================================================================
