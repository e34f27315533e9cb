-------------------------- MODULE ModerationProofs --------------------------
(***************************************************************************)
(* Proofs about Moderation, for any users, products, requests, thresholds  *)
(* and administrators' statements.                                         *)
(***************************************************************************)
EXTENDS Moderation, FiniteSetTheorems, TLAPS

-----------------------------------------------------------------------------
(* The inductive invariant                                                 *)

\* What each request is about, by the step it has reached.  A seller who goes
\* on with a blocked product is an administrator.
JobInv ==
    /\ \A r \in ReportReqs :
          /\ pc[r] # "apply"
          /\ pc[r] # "idle" => job[r] \in ReportJob
    /\ \A r \in SellerReqs :
          /\ pc[r] \in {"idle", "apply", "done", "error"}
          /\ pc[r] = "apply" =>
               /\ job[r] \in SellerJob
               /\ job[r].saw = "blocked" => job[r].asAdmin

\* A count in the hands of a request is not above the number of users who have
\* reported its target by now, and a request about to act has that many.
CountBacked(r) ==
    /\ pc[r] = "store" => job[r].count <= Cardinality(Reporters(job[r].target))
    /\ pc[r] = "act" =>
         Threshold(job[r].target) <= Cardinality(Reporters(job[r].target))

\* So it is for every report.
CountInv == \A r \in ReportReqs : CountBacked(r)

\* Request r will take the measure against its target t, or has died owing it.
Owes(r, t) ==
    /\ r \in About(t)
    /\ \/ pc[r] \in {"count", "act", "error"}
       \/ pc[r] = "store" /\ job[r].count >= Threshold(t)

\* Nobody's report is forgotten: as long as no person acted on a target with
\* enough counted reports, it is suppressed or some request still owes that.
Debt(t) ==
    Cardinality(Counting(t)) >= Threshold(t) =>
        Suppressed(t) \/ \E r \in ReportReqs : Owes(r, t)

\* So it is for every target no person acted on.
DebtInv == \A t \in Targets \ intervened : Debt(t)

\* The inductive invariant.
Inv == TypeOK /\ JobInv /\ CountInv /\ DebtInv
-----------------------------------------------------------------------------
(* Reporters                                                               *)

\* The reporters and the reports that count are finitely many.
LEMMA Counts ==
    ASSUME NEW t
    PROVE  /\ IsFiniteSet(Reporters(t)) /\ Cardinality(Reporters(t)) \in Nat
           /\ Cardinality(Counting(t)) \in Nat
           /\ Cardinality(Counting(t)) <= Cardinality(Reporters(t))
<1>1. Counting(t) \subseteq Reporters(t) /\ Reporters(t) \subseteq Users
  BY DEF Counting, Reporters
<1> QED
  BY <1>1, UsersAssumption, FS_Subset, FS_CardinalityType

\* No report is withdrawn.
ReportsStay ==
    \A u \in Users, t \in Targets : reports[<<u, t>>] # "none" => reports'[<<u, t>>] # "none"

\* Reports are never withdrawn, so a target's reporters only become more.
LEMMA ReportersGrow ==
    ASSUME ReportsStay,
           NEW t \in Targets
    PROVE  Cardinality(Reporters(t)) <= Cardinality(Reporters(t)')
<1> DEFINE new == {u \in Users : reports'[<<u, t>>] # "none"}
<1>1. Reporters(t) \subseteq new /\ new \subseteq Users
  BY DEF Reporters, ReportsStay
<1> HIDE DEF new
<1>2. Cardinality(Reporters(t)) <= Cardinality(new)
  BY <1>1, UsersAssumption, FS_Subset
<1> QED
  BY <1>2 DEF Reporters, new

\* What a request has counted stays backed while it does not move.
LEMMA CountKept ==
    ASSUME Inv, NEW q \in ReportReqs, pc'[q] = pc[q], job'[q] = job[q],
           ReportsStay
    PROVE  CountBacked(q)'
<1>1. CASE pc[q] \notin {"store", "act"}
  BY <1>1 DEF CountBacked, Reporters
<1>2. CASE pc[q] \in {"store", "act"}
  <2>1. PICK t \in Targets : t = job[q].target /\ job[q].count \in Nat
    BY <1>2 DEF Inv, JobInv, ReportJob
  <2>2. Cardinality(Reporters(t)) <= Cardinality(Reporters(t)')
    BY <2>1, ReportersGrow
  <2>3. Cardinality(Reporters(t)) \in Nat /\ Cardinality(Reporters(t)') \in Nat
    BY UsersAssumption, FS_Subset, FS_CardinalityType DEF Reporters
  <2>4. /\ pc[q] = "store" => job[q].count <= Cardinality(Reporters(t))
        /\ pc[q] = "act" => Threshold(t) <= Cardinality(Reporters(t))
    BY <2>1 DEF Inv, CountInv, CountBacked
  <2>5. Threshold(t) \in Nat
    BY ThresholdsAssumption DEF Threshold
  <2>6. /\ pc[q] = "store" => job[q].count <= Cardinality(Reporters(t)')
        /\ pc[q] = "act" => Threshold(t) <= Cardinality(Reporters(t)')
    BY <2>1, <2>2, <2>3, <2>4, <2>5
  <2> QED
    BY <2>1, <2>6 DEF CountBacked, Reporters
<1> QED
  BY <1>1, <1>2

\* A debt stays while nobody touches the target's reports, a suppressed target
\* stays so, and who owes the measure either still owes it or has taken it.
LEMMA DebtKept ==
    ASSUME Inv, NEW t \in Targets \ intervened,
           \A u \in Users : reports'[<<u, t>>] = reports[<<u, t>>],
           Suppressed(t) => Suppressed(t)',
           \A q \in ReportReqs : Owes(q, t) => Owes(q, t)' \/ Suppressed(t)'
    PROVE  Debt(t)'
<1>1. Counting(t)' = Counting(t)
  BY DEF Counting
<1>2. Debt(t)
  BY DEF Inv, DebtInv
<1> QED
  BY <1>1, <1>2 DEF Debt

\* A request that does not move owes what it owed.
LEMMA OwesKept ==
    ASSUME NEW q, NEW t, pc'[q] = pc[q], job'[q] = job[q]
    PROVE  Owes(q, t)' <=> Owes(q, t)
BY DEF Owes, About

\* Suppression is a matter of the target's row and, for a user, the role.
LEMMA SuppressedKept ==
    ASSUME NEW t \in Targets, UNCHANGED <<role, userStatus, productStatus>>
    PROVE  Suppressed(t)' <=> Suppressed(t)
BY DEF Suppressed, IsAdmin
-----------------------------------------------------------------------------
(* Report requests                                                         *)

\* Report requests are no seller's requests.
LEMMA Apart ==
    ASSUME NEW r \in ReportReqs
    PROVE  r \in Reqs /\ \A s \in SellerReqs : s # r
BY ModerationRequestsAssumption DEF Reqs

\* A request starts with a job that has no count yet.
LEMMA StartReportPreserves ==
    ASSUME Inv, NEW r \in ReportReqs, StartReport(r)
    PROVE  Inv'
<1>1. PICK j \in ReportJob : job' = [job EXCEPT ![r] = j]
  BY DEF StartReport, ReportJob
<1>2. /\ pc[r] = "idle" /\ pc' = [pc EXCEPT ![r] = "insert"]
      /\ UNCHANGED <<rows, intervened, interventions>>
  BY DEF StartReport, Goto
<1>3. /\ pc'[r] = "insert" /\ job'[r] = j
      /\ \A q \in Reqs \ {r} : pc'[q] = pc[q] /\ job'[q] = job[q]
  BY <1>1, <1>2, Apart DEF Inv, TypeOK
<1>4. TypeOK'
  BY <1>1, <1>2 DEF Inv, TypeOK, rows
<1>5. JobInv'
  BY <1>3, Apart DEF Inv, JobInv, Reqs
<1>6. CountInv'
  <2>1. CountBacked(r)'
    BY <1>3 DEF CountBacked
  <2>2. ASSUME NEW q \in ReportReqs \ {r}
        PROVE  CountBacked(q)'
    BY <1>2, <1>3, CountKept DEF ReportsStay, rows, Reqs
  <2> QED
    BY <2>1, <2>2 DEF CountInv
<1>7. DebtInv'
  <2> SUFFICES ASSUME NEW t \in Targets \ intervened
               PROVE  Debt(t)'
    BY <1>2 DEF DebtInv
  <2>1. ~ Owes(r, t)
    BY <1>2 DEF Owes
  <2>2. \A q \in ReportReqs : Owes(q, t) => Owes(q, t)'
    BY <1>3, <2>1, OwesKept DEF Reqs
  <2> QED
    BY <1>2, <2>2, DebtKept, SuppressedKept DEF rows
<1> QED
  BY <1>4, <1>5, <1>6, <1>7 DEF Inv

\* The report that may make the threshold owes the measure from its INSERT on.
LEMMA InsertReportPreserves ==
    ASSUME Inv, NEW r \in ReportReqs, InsertReport(r)
    PROVE  Inv'
<1>1. PICK u \in Users, g \in Targets : u = job[r].by /\ g = job[r].target
  BY DEF InsertReport, Inv, JobInv, ReportJob
<1>2. /\ pc[r] = "insert" /\ job[r] \in ReportJob
      /\ UNCHANGED <<role, userStatus, productStatus, reportCount, job,
                     intervened, interventions>>
  BY DEF InsertReport, Inv, JobInv
<1>3. PICK phase \in {"count", "refused"} : pc' = [pc EXCEPT ![r] = phase]
  BY DEF InsertReport, Goto
<1>4. /\ pc'[r] = phase
      /\ \A q \in Reqs \ {r} : pc'[q] = pc[q]
  BY <1>3, Apart DEF Inv, TypeOK
<1>5. \/ reports[<<u, g>>] = "none" /\ reports' = [reports EXCEPT ![<<u, g>>] = "pending"] /\ phase = "count"
      \/ UNCHANGED reports
  BY <1>1, <1>4 DEF InsertReport, Goto, Inv, TypeOK, Reqs
<1>6. ReportsStay
  BY <1>5 DEF ReportsStay, Inv, TypeOK
<1>7. TypeOK'
  BY <1>2, <1>3, <1>5 DEF Inv, TypeOK
<1>8. JobInv'
  BY <1>2, <1>4, Apart DEF Inv, JobInv, Reqs
<1>9. CountInv'
  <2>1. CountBacked(r)'
    BY <1>4 DEF CountBacked
  <2>2. ASSUME NEW q \in ReportReqs \ {r}
        PROVE  CountBacked(q)'
    BY <1>2, <1>4, <1>6, CountKept DEF Reqs
  <2> QED
    BY <2>1, <2>2 DEF CountInv
<1>10. DebtInv'
  <2> SUFFICES ASSUME NEW t \in Targets \ intervened
               PROVE  Debt(t)'
    BY <1>2 DEF DebtInv
  <2>1. CASE t = g /\ phase = "count"
    <3>1. Owes(r, t)'
      BY <1>1, <1>2, <1>4, <2>1, NoneAssumption DEF Owes, About
    <3> QED
      BY <3>1 DEF Debt
  <2>2. CASE ~ (t = g /\ phase = "count")
    <3>1. \A v \in Users : reports'[<<v, t>>] = reports[<<v, t>>]
      BY <1>5, <2>2 DEF Inv, TypeOK
    <3>2. ~ Owes(r, t)
      BY <1>2 DEF Owes
    <3>3. \A q \in ReportReqs : Owes(q, t) => Owes(q, t)'
      BY <1>2, <1>4, <3>2, OwesKept DEF Reqs
    <3> QED
      BY <1>2, <3>1, <3>3, DebtKept, SuppressedKept
  <2> QED
    BY <2>1, <2>2
<1> QED
  BY <1>7, <1>8, <1>9, <1>10 DEF Inv

\* A count of enough reports goes on to the measure.
LEMMA CountReportsPreserves ==
    ASSUME Inv, NEW r \in ReportReqs, CountReports(r)
    PROVE  Inv'
<1>1. PICK g \in Targets : g = job[r].target /\ job[r] \in ReportJob
  BY DEF CountReports, Inv, JobInv, ReportJob
<1>2. PICK n \in Nat : n = Cardinality(Counting(g))
  BY Counts
<1>3. /\ pc[r] = "count" /\ pc' = [pc EXCEPT ![r] = "store"]
      /\ job' = [job EXCEPT ![r].count = n]
      /\ UNCHANGED <<rows, intervened, interventions>>
  BY <1>1, <1>2 DEF CountReports, Goto
<1>4. /\ pc'[r] = "store"
      /\ job'[r] \in ReportJob /\ job'[r].target = g /\ job'[r].count = n
      /\ \A q \in Reqs \ {r} : pc'[q] = pc[q] /\ job'[q] = job[q]
  BY <1>1, <1>3, Apart DEF Inv, TypeOK, ReportJob
<1>5. TypeOK'
  <2>1. job' \in [Reqs -> ReportJob \cup SellerJob \cup {None}]
    BY <1>3, <1>4, Apart DEF Inv, TypeOK
  <2> QED
    BY <1>3, <2>1 DEF Inv, TypeOK, rows
<1>6. JobInv'
  BY <1>4, Apart DEF Inv, JobInv, Reqs
<1>7. CountInv'
  <2>1. CountBacked(r)'
    <3>1. n <= Cardinality(Reporters(g))
      BY <1>2, Counts
    <3> QED
      BY <1>3, <1>4, <3>1 DEF CountBacked, Reporters, rows
  <2>2. ASSUME NEW q \in ReportReqs \ {r}
        PROVE  CountBacked(q)'
    BY <1>3, <1>4, CountKept DEF ReportsStay, rows, Reqs
  <2> QED
    BY <2>1, <2>2 DEF CountInv
<1>8. DebtInv'
  <2> SUFFICES ASSUME NEW t \in Targets \ intervened
               PROVE  Debt(t)'
    BY <1>3 DEF DebtInv
  <2>1. CASE t = g
    <3>1. n >= Threshold(t) => Owes(r, t)'
      BY <1>4, <2>1, NoneAssumption DEF Owes, About
    <3>2. Counting(t)' = Counting(t)
      BY <1>3 DEF Counting, rows
    <3> QED
      BY <1>2, <2>1, <3>1, <3>2 DEF Debt
  <2>2. CASE t # g
    <3>1. ~ Owes(r, t)
      BY <1>1, <2>2 DEF Owes, About
    <3>2. \A q \in ReportReqs : Owes(q, t) => Owes(q, t)'
      BY <1>4, <3>1, OwesKept DEF Reqs
    <3> QED
      BY <1>3, <3>2, DebtKept, SuppressedKept DEF rows
  <2> QED
    BY <2>1, <2>2
<1> QED
  BY <1>5, <1>6, <1>7, <1>8 DEF Inv

\* The step to the measure is taken by exactly those who owe it.
LEMMA StoreCountPreserves ==
    ASSUME Inv, NEW r \in ReportReqs, StoreCount(r)
    PROVE  Inv'
<1>1. PICK g \in Targets : g = job[r].target /\ job[r] \in ReportJob /\ job[r].count \in Nat
  BY DEF StoreCount, Inv, JobInv, ReportJob
<1>2. PICK phase : phase = IF job[r].count >= Threshold(g) THEN "act" ELSE "done"
  OBVIOUS
<1>3. /\ pc[r] = "store" /\ pc' = [pc EXCEPT ![r] = phase]
      /\ reportCount' \in [Targets -> Nat]
      /\ UNCHANGED <<role, userStatus, productStatus, reports, job, intervened, interventions>>
  BY <1>1, <1>2 DEF StoreCount, Goto, Inv, TypeOK
<1>4. /\ pc'[r] = phase
      /\ \A q \in Reqs \ {r} : pc'[q] = pc[q]
  BY <1>3, Apart DEF Inv, TypeOK
<1>5. TypeOK'
  BY <1>2, <1>3 DEF Inv, TypeOK
<1>6. JobInv'
  BY <1>1, <1>2, <1>3, <1>4, Apart DEF Inv, JobInv, Reqs
<1>7. CountInv'
  <2>1. CountBacked(r)'
    <3>1. job[r].count <= Cardinality(Reporters(g)) /\ Cardinality(Reporters(g)) \in Nat
      BY <1>1, <1>3, Counts DEF Inv, CountInv, CountBacked
    <3>2. Threshold(g) \in Nat
      BY ThresholdsAssumption DEF Threshold
    <3>3. phase = "act" => Threshold(g) <= Cardinality(Reporters(g))
      BY <1>1, <1>2, <3>1, <3>2
    <3>4. phase # "store"
      BY <1>2
    <3> QED
      BY <1>1, <1>3, <1>4, <3>3, <3>4 DEF CountBacked, Reporters
  <2>2. ASSUME NEW q \in ReportReqs \ {r}
        PROVE  CountBacked(q)'
    BY <1>3, <1>4, CountKept DEF ReportsStay, Reqs
  <2> QED
    BY <2>1, <2>2 DEF CountInv
<1>8. DebtInv'
  <2> SUFFICES ASSUME NEW t \in Targets \ intervened
               PROVE  Debt(t)'
    BY <1>3 DEF DebtInv
  <2>1. Owes(r, t) => Owes(r, t)'
    BY <1>1, <1>2, <1>3, <1>4 DEF Owes, About
  <2>2. \A q \in ReportReqs : Owes(q, t) => Owes(q, t)'
    BY <1>3, <1>4, <2>1, OwesKept DEF Reqs
  <2> QED
    BY <1>3, <2>2, DebtKept, SuppressedKept
<1> QED
  BY <1>5, <1>6, <1>7, <1>8 DEF Inv

\* The measure suppresses its target, and no other target is released.
LEMMA ActPreserves ==
    ASSUME Inv, NEW r \in ReportReqs, Act(r)
    PROVE  Inv'
<1>1. PICK g \in Targets : g = job[r].target /\ job[r] \in ReportJob
  BY DEF Act, Inv, JobInv, ReportJob
<1>2. /\ pc[r] = "act" /\ pc' = [pc EXCEPT ![r] = "done"]
      /\ UNCHANGED <<role, reportCount, reports, job, intervened, interventions>>
      /\ productStatus' = IF g \in Products /\ Exists(g)
                          THEN [productStatus EXCEPT ![g] = "blocked"] ELSE productStatus
      /\ userStatus' = IF g \in Users /\ userStatus[g] = "active" /\ ~IsAdmin(g)
                       THEN [userStatus EXCEPT ![g] = "dormant"] ELSE userStatus
  BY <1>1 DEF Act, Goto
<1>3. /\ pc'[r] = "done"
      /\ \A q \in Reqs \ {r} : pc'[q] = pc[q]
  BY <1>2, Apart DEF Inv, TypeOK
<1>4. TypeOK'
  BY <1>2 DEF Inv, TypeOK, ProductStatuses
<1>5. JobInv'
  BY <1>1, <1>2, <1>3, Apart DEF Inv, JobInv, Reqs
<1>6. CountInv'
  <2>1. CountBacked(r)'
    BY <1>3 DEF CountBacked
  <2>2. ASSUME NEW q \in ReportReqs \ {r}
        PROVE  CountBacked(q)'
    BY <1>2, <1>3, CountKept DEF ReportsStay, Reqs
  <2> QED
    BY <2>1, <2>2 DEF CountInv
<1>7. DebtInv'
  <2> SUFFICES ASSUME NEW t \in Targets \ intervened
               PROVE  Debt(t)'
    BY <1>2 DEF DebtInv
  <2>1. Suppressed(t) => Suppressed(t)'
    BY <1>2, TargetsAssumption DEF Inv, TypeOK, Suppressed, IsAdmin, Targets
  <2>2. Suppressed(g)'
    BY <1>2, TargetsAssumption DEF Inv, TypeOK, Suppressed, IsAdmin, Exists, Targets
  <2>3. Owes(r, t) => Suppressed(t)'
    BY <1>1, <2>2 DEF Owes, About
  <2>4. \A q \in ReportReqs : Owes(q, t) => Owes(q, t)' \/ Suppressed(t)'
    BY <1>2, <1>3, <2>3, OwesKept DEF Reqs
  <2> QED
    BY <1>2, <2>1, <2>4, DebtKept
<1> QED
  BY <1>4, <1>5, <1>6, <1>7 DEF Inv

\* A request that dies on the lock leaves its debt behind.
LEMMA LockTimeoutPreserves ==
    ASSUME Inv, NEW r \in Reqs, LockTimeout(r)
    PROVE  Inv'
<1>1. /\ pc[r] \in {"insert", "store", "act", "apply"}
      /\ pc' = [pc EXCEPT ![r] = "error"]
      /\ UNCHANGED <<rows, job, intervened, interventions>>
  BY DEF LockTimeout, Goto
<1>2. /\ pc'[r] = "error"
      /\ \A q \in Reqs \ {r} : pc'[q] = pc[q]
  BY <1>1 DEF Inv, TypeOK
<1>3. TypeOK'
  BY <1>1 DEF Inv, TypeOK, rows
<1>4. JobInv'
  BY <1>1, <1>2, ModerationRequestsAssumption DEF Inv, JobInv, Reqs
<1>5. CountInv'
  <2> SUFFICES ASSUME NEW q \in ReportReqs
               PROVE  CountBacked(q)'
    BY DEF CountInv
  <2>1. CASE q = r
    BY <1>2, <2>1 DEF CountBacked
  <2>2. CASE q # r
    BY <1>1, <1>2, <2>2, CountKept DEF ReportsStay, rows, Reqs
  <2> QED
    BY <2>1, <2>2
<1>6. DebtInv'
  <2> SUFFICES ASSUME NEW t \in Targets \ intervened
               PROVE  Debt(t)'
    BY <1>1 DEF DebtInv
  <2>1. Owes(r, t) => Owes(r, t)'
    BY <1>1, <1>2 DEF Owes, About
  <2>2. \A q \in ReportReqs : Owes(q, t) => Owes(q, t)'
    BY <1>1, <1>2, <2>1, OwesKept DEF Reqs
  <2> QED
    BY <1>1, <2>2, DebtKept, SuppressedKept DEF rows
<1> QED
  BY <1>3, <1>4, <1>5, <1>6 DEF Inv
-----------------------------------------------------------------------------
(* Sellers and administrators                                              *)

\* Whoever leaves the report requests and the reports alone keeps every count
\* backed, and every debt of the targets whose rows and whose owner's role it
\* leaves alone.
LEMMA BystanderKeeps ==
    ASSUME Inv, ReportsStay, \A q \in ReportReqs : pc'[q] = pc[q] /\ job'[q] = job[q],
           intervened \subseteq intervened',
           \A t \in Targets \ intervened' :
              /\ Suppressed(t) => Suppressed(t)'
              /\ \A u \in Users : reports'[<<u, t>>] = reports[<<u, t>>]
    PROVE  CountInv' /\ DebtInv'
<1>1. CountInv'
  BY CountKept DEF CountInv
<1>2. DebtInv'
  <2> SUFFICES ASSUME NEW t \in Targets \ intervened'
               PROVE  Debt(t)'
    BY DEF DebtInv
  <2>1. \A q \in ReportReqs : Owes(q, t) => Owes(q, t)'
    BY OwesKept
  <2> QED
    BY <2>1, DebtKept
<1> QED
  BY <1>1, <1>2

\* Only an administrator gets past the check of a blocked product.
LEMMA StartStatusChangePreserves ==
    ASSUME Inv, NEW r \in SellerReqs, StartStatusChange(r)
    PROVE  Inv'
<1>1. PICK j \in SellerJob : job' = [job EXCEPT ![r] = j] /\ (j.saw = "blocked" => j.asAdmin)
  <2>1. PICK u \in Users, p \in Products, s \in {"active", "sold"} :
          /\ productStatus[p] = "blocked" => IsAdmin(u)
          /\ job' = [job EXCEPT ![r] =
               [by |-> u, asAdmin |-> IsAdmin(u), target |-> p,
                saw |-> productStatus[p], status |-> s]]
    BY DEF StartStatusChange
  <2>2. PICK admin \in BOOLEAN : admin = IsAdmin(u)
    BY DEF IsAdmin
  <2>3. productStatus[p] \in ProductStatuses
    BY DEF Inv, TypeOK
  <2> DEFINE j == [by |-> u, asAdmin |-> admin, target |-> p,
                   saw |-> productStatus[p], status |-> s]
  <2>4. j \in SellerJob /\ job' = [job EXCEPT ![r] = j] /\ (j.saw = "blocked" => j.asAdmin)
    BY <2>1, <2>2, <2>3 DEF SellerJob
  <2> QED
    BY <2>4
<1>2. /\ pc[r] = "idle" /\ pc' = [pc EXCEPT ![r] = "apply"]
      /\ UNCHANGED <<rows, intervened, interventions>>
  BY DEF StartStatusChange, Goto
<1>3. r \in Reqs /\ \A q \in ReportReqs : pc'[q] = pc[q] /\ job'[q] = job[q]
  BY <1>1, <1>2, Apart DEF Inv, TypeOK, Reqs
<1>4. TypeOK'
  BY <1>1, <1>2, <1>3 DEF Inv, TypeOK, rows
<1>5. JobInv'
  BY <1>1, <1>2, <1>3 DEF Inv, TypeOK, JobInv, Reqs
<1>6. CountInv' /\ DebtInv'
  BY <1>2, <1>3, BystanderKeeps, SuppressedKept DEF ReportsStay, rows
<1> QED
  BY <1>4, <1>5, <1>6 DEF Inv

\* A seller's UPDATE is a person's act on the product.
LEMMA ApplyStatusChangePreserves ==
    ASSUME Inv, NEW r \in SellerReqs, ApplyStatusChange(r)
    PROVE  Inv'
<1>1. PICK p \in Products, s \in {"active", "sold"} : p = job[r].target /\ s = job[r].status
  BY DEF ApplyStatusChange, Inv, JobInv, SellerJob
<1>2. /\ pc[r] = "apply" /\ pc' = [pc EXCEPT ![r] = "done"]
      /\ job' = [job EXCEPT ![r] = None]
      /\ productStatus' = IF Exists(p) THEN [productStatus EXCEPT ![p] = s] ELSE productStatus
      /\ intervened' = intervened \cup {p}
      /\ UNCHANGED <<role, userStatus, reportCount, reports, interventions>>
  BY <1>1 DEF ApplyStatusChange, Goto
<1>3. r \in Reqs /\ \A q \in ReportReqs : pc'[q] = pc[q] /\ job'[q] = job[q]
  BY <1>2, Apart DEF Inv, TypeOK, Reqs
<1>4. TypeOK'
  BY <1>2, <1>3 DEF Inv, TypeOK, ProductStatuses, Targets
<1>5. JobInv'
  BY <1>2, <1>3 DEF Inv, TypeOK, JobInv, Reqs
<1>6. CountInv' /\ DebtInv'
  <2>1. \A t \in Targets \ intervened' : Suppressed(t) => Suppressed(t)'
    BY <1>2 DEF Inv, TypeOK, Suppressed, IsAdmin
  <2> QED
    BY <1>2, <1>3, <2>1, BystanderKeeps DEF ReportsStay
<1> QED
  BY <1>4, <1>5, <1>6 DEF Inv

\* So is every statement of an administrator, on the target it is about.
LEMMA AdminStepPreserves ==
    ASSUME Inv, AdminStep
    PROVE  Inv'
<1>1. /\ interventions' = interventions + 1
      /\ UNCHANGED <<reportCount, pc, job>>
  BY DEF AdminStep, ProductAction, UserAction, RoleAction, ReportAction, Intervene
<1>2. PICK g \in Targets : intervened' = intervened \cup {g}
  BY DEF AdminStep, ProductAction, UserAction, RoleAction, ReportAction, Intervene, Targets
<1>3. CASE \E p \in Products, s \in {"blocked", "active", "deleted"} : ProductAction(p, s)
  <2>1. PICK p \in Products, s \in {"blocked", "active", "deleted"} :
          /\ productStatus' = [productStatus EXCEPT ![p] = s]
          /\ intervened' = intervened \cup {p}
          /\ UNCHANGED <<role, userStatus, reports>>
    BY <1>3 DEF ProductAction, Intervene
  <2>2. TypeOK'
    BY <1>1, <1>2, <2>1 DEF Inv, TypeOK, ProductStatuses
  <2>3. \A t \in Targets \ intervened' : Suppressed(t) => Suppressed(t)'
    BY <2>1 DEF Inv, TypeOK, Suppressed, IsAdmin
  <2>4. CountInv' /\ DebtInv'
    BY <1>1, <2>1, <2>3, BystanderKeeps DEF ReportsStay
  <2> QED
    BY <1>1, <2>2, <2>4 DEF Inv, JobInv
<1>4. CASE \E u \in Users, s \in {"active", "dormant", "banned"} : UserAction(u, s)
  <2>1. PICK u \in Users, s \in {"active", "dormant", "banned"} :
          /\ userStatus' = [userStatus EXCEPT ![u] = s]
          /\ intervened' = intervened \cup {u}
          /\ UNCHANGED <<role, productStatus, reports>>
    BY <1>4 DEF UserAction, Intervene
  <2>2. TypeOK'
    BY <1>1, <1>2, <2>1 DEF Inv, TypeOK
  <2>3. \A t \in Targets \ intervened' : Suppressed(t) => Suppressed(t)'
    BY <2>1 DEF Inv, TypeOK, Suppressed, IsAdmin
  <2>4. CountInv' /\ DebtInv'
    BY <1>1, <2>1, <2>3, BystanderKeeps DEF ReportsStay
  <2> QED
    BY <1>1, <2>2, <2>4 DEF Inv, JobInv
<1>5. CASE \E u \in Users, s \in {"user", "admin"} : RoleAction(u, s)
  <2>1. PICK u \in Users, s \in {"user", "admin"} :
          /\ role' = [role EXCEPT ![u] = s]
          /\ intervened' = intervened \cup {u}
          /\ UNCHANGED <<userStatus, productStatus, reports>>
    BY <1>5 DEF RoleAction, Intervene
  <2>2. TypeOK'
    BY <1>1, <1>2, <2>1 DEF Inv, TypeOK
  <2>3. \A t \in Targets \ intervened' : Suppressed(t) => Suppressed(t)'
    BY <2>1 DEF Inv, TypeOK, Suppressed, IsAdmin, Targets
  <2>4. CountInv' /\ DebtInv'
    BY <1>1, <2>1, <2>3, BystanderKeeps DEF ReportsStay
  <2> QED
    BY <1>1, <2>2, <2>4 DEF Inv, JobInv
<1>6. CASE \E u \in Users, t \in Targets, s \in {"resolved", "dismissed"} : ReportAction(u, t, s)
  <2>1. PICK u \in Users, t \in Targets, s \in {"resolved", "dismissed"} :
          /\ reports' = [reports EXCEPT ![<<u, t>>] = s]
          /\ intervened' = intervened \cup {t}
          /\ UNCHANGED <<role, userStatus, productStatus>>
    BY <1>6 DEF ReportAction, Intervene
  <2>2. TypeOK'
    BY <1>1, <1>2, <2>1 DEF Inv, TypeOK
  <2>3. ReportsStay /\ \A v \in Targets \ intervened', w \in Users :
                         reports'[<<w, v>>] = reports[<<w, v>>]
    BY <2>1 DEF ReportsStay, Inv, TypeOK
  <2>4. CountInv' /\ DebtInv'
    BY <1>1, <2>1, <2>3, BystanderKeeps, SuppressedKept
  <2> QED
    BY <1>1, <2>2, <2>4 DEF Inv, JobInv
<1> QED
  BY <1>3, <1>4, <1>5, <1>6 DEF AdminStep

-----------------------------------------------------------------------------
(* Theorems                                                                *)

\* Nobody has reported anything yet.
LEMMA InitInv == Init => Inv
<1> SUFFICES ASSUME Init
             PROVE  Inv
  OBVIOUS
<1>1. TypeOK
  BY AdminsAssumption DEF Init, TypeOK, ProductStatuses
<1>2. \A r \in Reqs : pc[r] = "idle"
  BY DEF Init
<1>3. JobInv /\ CountInv
  BY <1>2 DEF JobInv, CountInv, CountBacked, Reqs
<1>4. DebtInv
  <2> SUFFICES ASSUME NEW t \in Targets
               PROVE  Debt(t)
    BY DEF DebtInv
  <2>1. Counting(t) = {}
    BY DEF Init, Counting
  <2>2. Cardinality(Counting(t)) = 0
    BY <2>1, FS_EmptySet
  <2>3. Threshold(t) \in Nat \ {0}
    BY ThresholdsAssumption DEF Threshold
  <2> QED
    BY <2>2, <2>3 DEF Debt
<1> QED
  BY <1>1, <1>3, <1>4 DEF Inv

\* Every step preserves the invariant.
LEMMA NextInv == Inv /\ [Next]_vars => Inv'
<1> SUFFICES ASSUME Inv, [Next]_vars
             PROVE  Inv'
  OBVIOUS
<1>1. CASE \E r \in ReportReqs : StartReport(r) \/ ReportStep(r)
  BY <1>1, StartReportPreserves, InsertReportPreserves, CountReportsPreserves,
     StoreCountPreserves, ActPreserves DEF ReportStep
<1>2. CASE \E r \in SellerReqs : StartStatusChange(r) \/ ApplyStatusChange(r)
  BY <1>2, StartStatusChangePreserves, ApplyStatusChangePreserves
<1>3. CASE \E r \in Reqs : LockTimeout(r)
  BY <1>3, LockTimeoutPreserves
<1>4. CASE AdminStep
  BY <1>4, AdminStepPreserves
<1>5. CASE UNCHANGED vars
  <2> USE <1>5 DEF vars, rows
  <2>1. TypeOK' /\ JobInv'
    BY DEF Inv, TypeOK, JobInv
  <2>2. CountInv' /\ DebtInv'
    BY BystanderKeeps, SuppressedKept DEF ReportsStay
  <2> QED
    BY <2>1, <2>2 DEF Inv
<1> QED
  BY <1>1, <1>2, <1>3, <1>4, <1>5 DEF Next

\* The invariant holds in every reachable state.
LEMMA Invariance == Spec => []Inv
BY InitInv, NextInv, PTL DEF Spec

\* Every variable stays in its type; in particular no measure writes a status
\* word of the wrong table.
THEOREM TypeCorrect == Spec => []TypeOK
<1>1. Inv => TypeOK
  BY DEF Inv
<1> QED
  BY <1>1, Invariance, PTL

\* However many requests report a target at the same time, the last of them to
\* count sees every report: once they have finished, a target with enough
\* counted reports that nobody acted on by hand is suppressed.
THEOREM Enforced == Spec => []ThresholdEnforced
<1>1. Inv => ThresholdEnforced
  <2> SUFFICES ASSUME Inv, NEW t \in Targets \ intervened, Settled(t),
                      Cardinality(Counting(t)) >= Threshold(t)
               PROVE  Suppressed(t)
    BY DEF ThresholdEnforced
  <2>1. \A r \in ReportReqs : ~ Owes(r, t)
    BY DEF Settled, Owes
  <2> QED
    BY <2>1 DEF Inv, DebtInv, Debt
<1> QED
  BY <1>1, Invariance, PTL

\* The measure is only ever taken against a target that enough different users
\* have reported.
THEOREM NotWrongful == Spec => NoWrongfulMeasure
<1>1. Inv => [\A r \in ReportReqs : pc[r] = "act" /\ pc'[r] = "done" =>
                LET t == job[r].target
                IN Cardinality(Reporters(t)) >= Threshold(t)]_vars
  <2> SUFFICES ASSUME Inv, NEW r \in ReportReqs, pc[r] = "act"
               PROVE  Cardinality(Reporters(job[r].target)) >= Threshold(job[r].target)
    OBVIOUS
  <2>1. PICK n \in Nat : n = Cardinality(Reporters(job[r].target))
    BY Counts
  <2>2. PICK m \in Nat : m = Threshold(job[r].target)
    BY ThresholdsAssumption DEF Threshold
  <2> QED
    BY <2>1, <2>2 DEF Inv, CountInv, CountBacked
<1> QED
  BY <1>1, Invariance, PTL DEF NoWrongfulMeasure

\* Neither a ban nor an administrator's account gives way to reports.
THEOREM Protected == Spec => OnlyAdminsMoveProtectedAccounts
<1>1. Inv /\ [Next]_vars =>
        [\A u \in Users :
           (userStatus[u] = "banned" \/ IsAdmin(u)) /\ userStatus'[u] # userStatus[u]
               => interventions' = interventions + 1]_vars
  <2> SUFFICES ASSUME Inv, Next, NEW u \in Users,
                      userStatus[u] = "banned" \/ IsAdmin(u), userStatus'[u] # userStatus[u]
               PROVE  interventions' = interventions + 1
    OBVIOUS
  <2>1. ASSUME NEW r \in ReportReqs, StartReport(r) \/ ReportStep(r)
        PROVE  userStatus'[u] = userStatus[u]
    <3>1. CASE Act(r)
      BY <3>1 DEF Act, Inv, TypeOK
    <3> QED
      BY <2>1, <3>1 DEF StartReport, ReportStep, InsertReport, CountReports, StoreCount, rows
  <2>2. ASSUME NEW r \in Reqs,
               StartStatusChange(r) \/ ApplyStatusChange(r) \/ LockTimeout(r)
        PROVE  userStatus'[u] = userStatus[u]
    BY <2>2 DEF StartStatusChange, ApplyStatusChange, LockTimeout, rows
  <2>3. CASE AdminStep
    BY <2>3 DEF AdminStep, ProductAction, UserAction, RoleAction, ReportAction, Intervene
  <2> QED
    BY <2>1, <2>2, <2>3 DEF Next, Reqs
<1> QED
  BY <1>1, Invariance, PTL DEF Spec, OnlyAdminsMoveProtectedAccounts

\* A block is lifted by an administrator, or by a seller's request that began
\* before it: never by one that saw it.
THEOREM BlockOutlives == Spec => BlockOutlivesFreshSellers
<1>1. Inv /\ [Next]_vars =>
        [\A p \in Products :
           productStatus[p] = "blocked" /\ productStatus'[p] \in {"active", "sold"} =>
              \/ interventions' = interventions + 1
              \/ \E r \in SellerReqs :
                   /\ pc[r] = "apply" /\ pc'[r] = "done" /\ job[r].target = p
                   /\ job[r].saw # "blocked" \/ job[r].asAdmin]_vars
  <2> SUFFICES ASSUME Inv, Next, NEW p \in Products,
                      productStatus[p] = "blocked", productStatus'[p] \in {"active", "sold"}
               PROVE  \/ interventions' = interventions + 1
                      \/ \E r \in SellerReqs :
                           /\ pc[r] = "apply" /\ pc'[r] = "done" /\ job[r].target = p
                           /\ job[r].saw # "blocked" \/ job[r].asAdmin
    OBVIOUS
  <2>1. ASSUME NEW r \in ReportReqs, StartReport(r) \/ ReportStep(r)
        PROVE  productStatus'[p] = "blocked"
    <3>1. CASE Act(r)
      BY <3>1 DEF Act, Inv, TypeOK
    <3> QED
      BY <2>1, <3>1 DEF StartReport, ReportStep, InsertReport, CountReports, StoreCount, rows
  <2>2. ASSUME NEW r \in Reqs, StartStatusChange(r) \/ LockTimeout(r)
        PROVE  productStatus'[p] = "blocked"
    BY <2>2 DEF StartStatusChange, LockTimeout, rows
  <2>3. ASSUME NEW r \in SellerReqs, ApplyStatusChange(r)
        PROVE  /\ pc[r] = "apply" /\ pc'[r] = "done" /\ job[r].target = p
               /\ job[r].saw # "blocked" \/ job[r].asAdmin
    <3>1. /\ pc[r] = "apply" /\ pc' = [pc EXCEPT ![r] = "done"]
          /\ productStatus' = IF Exists(job[r].target)
                              THEN [productStatus EXCEPT ![job[r].target] = job[r].status]
                              ELSE productStatus
      BY <2>3 DEF ApplyStatusChange, Goto
    <3>2. job[r].target = p
      BY <3>1 DEF Inv, TypeOK
    <3>3. pc'[r] = "done"
      BY <3>1 DEF Inv, TypeOK, Reqs
    <3>4. job[r].saw # "blocked" \/ job[r].asAdmin
      BY <3>1 DEF Inv, JobInv
    <3> QED
      BY <3>1, <3>2, <3>3, <3>4
  <2>4. CASE AdminStep
    BY <2>4 DEF AdminStep, ProductAction, UserAction, RoleAction, ReportAction, Intervene
  <2> QED
    BY <2>1, <2>2, <2>3, <2>4 DEF Next, Reqs
<1> QED
  BY <1>1, Invariance, PTL DEF Spec, BlockOutlivesFreshSellers
=============================================================================
