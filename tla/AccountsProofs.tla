--------------------------- MODULE AccountsProofs ---------------------------
(***************************************************************************)
(* Proofs about Accounts, for any set of names and threads.                *)
(***************************************************************************)
EXTENDS Accounts, TLAPS

\* An administrator's request in progress has a complete job on registered
\* accounts, and passed the check on oneself.
JobInv ==
    \A w \in Workers : pc[w] # "idle" =>
        /\ job[w] \in Job
        /\ job[w].target \in registered
        /\ job[w].target = job[w].actor => job[w].action \notin {"dormant", "ban", "demote"}
        /\ pc[w] = "count" => job[w].action = "demote"

\* Until two requests have overlapped, the only one in progress is that of an
\* account that is still an active administrator: nobody else could have
\* suspended or demoted it since the request began.
AloneInv ==
    ~overlapped =>
        /\ \A v, w \in Workers : pc[v] # "idle" /\ pc[w] # "idle" => v = w
        /\ \A w \in Workers : pc[w] # "idle" => job[w].actor \in ActiveAdmins

\* create-admin remembers the name it looked up until it writes.
CliInv ==
    /\ cli[1] # "idle" => cli[2] \in Names
    /\ cli[1] = "promote" => cli[2] \in registered

Inv == TypeOK /\ JobInv /\ AloneInv /\ CliInv

\* The empty database satisfies the invariant.
LEMMA InitInv == Init => Inv
<1> SUFFICES ASSUME Init
             PROVE  Inv
  OBVIOUS
<1>1. cli = <<"idle", None>> /\ cli \in {"idle", "promote", "insert"} \X (Names \cup {None})
  BY DEF Init
<1>2. TypeOK
  BY <1>1 DEF Init, TypeOK
<1>3. JobInv /\ AloneInv
  BY DEF Init, JobInv, AloneInv
<1>4. CliInv
  BY <1>1 DEF CliInv
<1> QED
  BY <1>2, <1>3, <1>4 DEF Inv

\* Every step preserves the invariant.
LEMMA NextInv == Inv /\ [Next]_vars => Inv'
<1> SUFFICES ASSUME Inv, [Next]_vars
             PROVE  Inv'
  OBVIOUS
<1> USE DEF Inv
<1>1. ASSUME NEW s \in SignUps, FindNameFree(s)
      PROVE  Inv'
  BY <1>1 DEF FindNameFree, rows, TypeOK, JobInv, AloneInv, CliInv, ActiveAdmins, Admins
<1>2. ASSUME NEW s \in SignUps, InsertAccount(s)
      PROVE  Inv'
  <2>1. TypeOK'
    BY <1>2 DEF InsertAccount, InsertUser, rows, TypeOK
  <2>2. JobInv'
    BY <1>2 DEF InsertAccount, InsertUser, rows, JobInv
  <2>3. ActiveAdmins \subseteq ActiveAdmins'
    BY <1>2 DEF InsertAccount, InsertUser, rows, TypeOK, ActiveAdmins, Admins
  <2>4. AloneInv'
    BY <1>2, <2>3 DEF InsertAccount, AloneInv
  <2>5. CliInv'
    BY <1>2 DEF InsertAccount, InsertUser, rows, CliInv
  <2> QED
    BY <2>1, <2>2, <2>4, <2>5
<1>3. ASSUME NEW n \in Names, LookUpAdminName(n)
      PROVE  Inv'
  BY <1>3 DEF LookUpAdminName, rows, TypeOK, JobInv, AloneInv, CliInv, ActiveAdmins, Admins
<1>4. ASSUME NEW n \in Names, AutoDormant(n)
      PROVE  Inv'
  <2>1. TypeOK'
    BY <1>4 DEF AutoDormant, TypeOK
  <2>2. JobInv'
    BY <1>4 DEF AutoDormant, JobInv
  <2>3. ActiveAdmins \subseteq ActiveAdmins'
    BY <1>4 DEF AutoDormant, TypeOK, ActiveAdmins, Admins
  <2>4. AloneInv'
    BY <1>4, <2>3 DEF AutoDormant, AloneInv
  <2>5. CliInv'
    BY <1>4 DEF AutoDormant, CliInv
  <2> QED
    BY <2>1, <2>2, <2>4, <2>5
<1>5. CASE PromoteExisting
  <2>1. TypeOK'
    BY <1>5 DEF PromoteExisting, TypeOK
  <2>2. JobInv'
    BY <1>5 DEF PromoteExisting, JobInv
  <2>3. ActiveAdmins \subseteq ActiveAdmins'
    BY <1>5 DEF PromoteExisting, TypeOK, ActiveAdmins, Admins
  <2>4. AloneInv'
    BY <1>5, <2>3 DEF PromoteExisting, AloneInv
  <2>5. CliInv'
    BY <1>5 DEF PromoteExisting, CliInv
  <2> QED
    BY <2>1, <2>2, <2>4, <2>5
<1>6. CASE InsertAdmin
  <2>1. TypeOK'
    <3>1. cli[2] \in Names /\ cli' = <<"idle", None>>
      BY <1>6 DEF InsertAdmin, CliInv
    <3>2. cli' \in {"idle", "promote", "insert"} \X (Names \cup {None})
      BY <3>1
    <3> QED
      BY <1>6, <3>1, <3>2 DEF InsertAdmin, InsertUser, rows, TypeOK
  <2>2. JobInv'
    BY <1>6 DEF InsertAdmin, InsertUser, rows, JobInv
  <2>3. ActiveAdmins \subseteq ActiveAdmins'
    BY <1>6 DEF InsertAdmin, InsertUser, rows, TypeOK, ActiveAdmins, Admins
  <2>4. AloneInv'
    BY <1>6, <2>3 DEF InsertAdmin, AloneInv
  <2>5. CliInv'
    BY <1>6 DEF InsertAdmin, CliInv
  <2> QED
    BY <2>1, <2>2, <2>4, <2>5
<1>7. ASSUME NEW w \in Workers, StartAction(w)
      PROVE  Inv'
  <2>1. PICK a \in ActiveAdmins, t \in registered, x \in Actions :
          /\ t = a => x \notin {"dormant", "ban", "demote"}
          /\ job' = [job EXCEPT ![w] = [actor |-> a, target |-> t, action |-> x]]
          /\ pc' = [pc EXCEPT ![w] = IF x = "demote" THEN "count" ELSE "execute"]
    BY <1>7 DEF StartAction
  <2>2. /\ pc[w] = "idle"
        /\ overlapped' = (overlapped \/ \E v \in Workers \ {w} : pc[v] # "idle")
        /\ UNCHANGED <<rows, signup, cli>>
    BY <1>7 DEF StartAction
  <2>3. [actor |-> a, target |-> t, action |-> x] \in Job
    BY DEF TypeOK, Job, ActiveAdmins, Admins
  <2>4. TypeOK'
    BY <2>1, <2>2, <2>3 DEF TypeOK, rows
  <2>5. JobInv'
    BY <2>1, <2>2, <2>3 DEF TypeOK, JobInv, rows
  <2>6. AloneInv'
    BY <2>1, <2>2 DEF TypeOK, AloneInv, rows, ActiveAdmins, Admins
  <2>7. CliInv'
    BY <2>2 DEF CliInv, rows
  <2> QED
    BY <2>4, <2>5, <2>6, <2>7
<1>8. ASSUME NEW w \in Workers, CountAdmins(w)
      PROVE  Inv'
  BY <1>8 DEF CountAdmins, rows, TypeOK, JobInv, AloneInv, CliInv, ActiveAdmins, Admins
<1>9. ASSUME NEW w \in Workers, ExecuteAction(w)
      PROVE  Inv'
  <2> DEFINE t == job[w].target
             x == job[w].action
  <2>1. t \in Names /\ x \in Actions
    BY <1>9 DEF ExecuteAction, JobInv, Job
  <2>2. TypeOK'
    BY <1>9, <2>1 DEF ExecuteAction, TypeOK, Actions, NewStatus, NewRole
  <2>3. JobInv'
    BY <1>9 DEF ExecuteAction, TypeOK, JobInv
  <2>4. AloneInv'
    \* Alone, w leaves no other request in progress.
    BY <1>9 DEF ExecuteAction, TypeOK, AloneInv
  <2>5. CliInv'
    BY <1>9 DEF ExecuteAction, CliInv
  <2> QED
    BY <2>2, <2>3, <2>4, <2>5
<1>10. ASSUME NEW w \in Workers, AbandonAction(w)
       PROVE  Inv'
  BY <1>10 DEF AbandonAction, rows, TypeOK, JobInv, AloneInv, CliInv, ActiveAdmins, Admins
<1>11. CASE UNCHANGED vars
  BY <1>11 DEF vars, rows, TypeOK, JobInv, AloneInv, CliInv, ActiveAdmins, Admins
<1> QED
  BY <1>1, <1>2, <1>3, <1>4, <1>5, <1>6, <1>7, <1>8, <1>9, <1>10, <1>11 DEF Next

\* The invariant holds in every reachable state.
LEMMA Invariance == Spec => []Inv
BY InitInv, NextInv, PTL DEF Spec

\* Every variable stays in its type.
THEOREM TypeCorrect == Spec => []TypeOK
<1>1. Inv => TypeOK
  BY DEF Inv
<1> QED
  BY <1>1, Invariance, PTL

-----------------------------------------------------------------------------
\* The executing administrator survives his own action: it targets another
\* account, or raises his own.
LEMMA ActorSurvives ==
    ASSUME Inv, NEW w \in Workers, ExecuteAction(w),
           job[w].actor \in ActiveAdmins
    PROVE  job[w].actor \in ActiveAdmins'
<1> DEFINE a == job[w].actor
           t == job[w].target
           x == job[w].action
<1>1. /\ t \in Names /\ x \in Actions
      /\ t = a => x \in {"activate", "promote"}
  BY DEF ExecuteAction, Inv, JobInv, Job, Actions
<1>2. /\ status' = [status EXCEPT ![t] = NewStatus(x, @)]
      /\ role' = [role EXCEPT ![t] = NewRole(x, @)]
      /\ registered' = registered
  BY DEF ExecuteAction
<1> HIDE DEF t, x
<1>3. CASE t = a
  BY <1>1, <1>2, <1>3 DEF Inv, TypeOK, ActiveAdmins, Admins, NewStatus, NewRole
<1>4. CASE t # a
  BY <1>1, <1>2, <1>4 DEF Inv, TypeOK, ActiveAdmins, Admins
<1> QED
  BY <1>3, <1>4

\* As long as requests do not overlap, no step takes the last active
\* administrator away.
THEOREM SequentialAdmins == Spec => ActiveAdminSurvives
<1>1. Inv /\ [Next]_vars => [ActiveAdmins # {} /\ ~overlapped' => ActiveAdmins' # {}]_vars
  <2> SUFFICES ASSUME Inv, Next, ActiveAdmins # {}, ~overlapped'
               PROVE  ActiveAdmins' # {}
    OBVIOUS
  <2>1. CASE \E s \in SignUps : FindNameFree(s) \/ InsertAccount(s)
    BY <2>1 DEF FindNameFree, InsertAccount, InsertUser, rows, Inv, TypeOK, ActiveAdmins, Admins
  <2>2. CASE \E n \in Names : LookUpAdminName(n) \/ AutoDormant(n)
    BY <2>2 DEF LookUpAdminName, AutoDormant, rows, Inv, TypeOK, ActiveAdmins, Admins
  <2>3. CASE PromoteExisting \/ InsertAdmin
    BY <2>3
    DEF PromoteExisting, InsertAdmin, InsertUser, rows, Inv, TypeOK, ActiveAdmins, Admins
  <2>4. ASSUME NEW w \in Workers, StartAction(w) \/ CountAdmins(w) \/ AbandonAction(w)
        PROVE  ActiveAdmins' # {}
    BY <2>4 DEF StartAction, CountAdmins, AbandonAction, rows, ActiveAdmins, Admins
  <2>5. ASSUME NEW w \in Workers, ExecuteAction(w)
        PROVE  ActiveAdmins' # {}
    BY <2>5, ActorSurvives DEF ExecuteAction, Inv, AloneInv
  <2> QED
    BY <2>1, <2>2, <2>3, <2>4, <2>5 DEF Next
<1> QED
  BY <1>1, Invariance, PTL DEF Spec, ActiveAdminSurvives

\* However requests interleave, an administrator loses the role only by
\* another administrator's demotion.
THEOREM RoleLoss == Spec => OnlyDemotionRemovesAdmins
<1> DEFINE Demoted(n) ==
        \E w \in Workers :
            /\ pc[w] = "execute" /\ pc'[w] = "idle"
            /\ job[w].target = n /\ job[w].action = "demote"
            /\ job[w].actor # n
<1>1. Inv /\ [Next]_vars => [\A n \in Admins : role'[n] # "admin" => Demoted(n)]_vars
  <2> SUFFICES ASSUME Inv, Next, NEW n \in Admins, role'[n] # "admin"
               PROVE  Demoted(n)
    OBVIOUS
  <2>1. n \in registered /\ n \in Names /\ role[n] = "admin"
    BY DEF Inv, TypeOK, Admins
  <2>2. CASE \E s \in SignUps : FindNameFree(s) \/ InsertAccount(s)
    BY <2>1, <2>2 DEF FindNameFree, InsertAccount, InsertUser, rows, Inv, TypeOK
  <2>3. CASE \E m \in Names : LookUpAdminName(m) \/ AutoDormant(m)
    BY <2>1, <2>3 DEF LookUpAdminName, AutoDormant, rows
  <2>4. CASE PromoteExisting \/ InsertAdmin
    BY <2>1, <2>4 DEF PromoteExisting, InsertAdmin, InsertUser, rows, Inv, TypeOK
  <2>5. ASSUME NEW w \in Workers, StartAction(w) \/ CountAdmins(w) \/ AbandonAction(w)
        PROVE  Demoted(n)
    BY <2>1, <2>5 DEF StartAction, CountAdmins, AbandonAction, rows
  <2>6. ASSUME NEW w \in Workers, ExecuteAction(w)
        PROVE  Demoted(n)
    <3>1. job[w].target = n /\ job[w].action = "demote"
      BY <2>1, <2>6 DEF ExecuteAction, NewRole, Inv, TypeOK, JobInv, Job, Actions
    <3>2. job[w].actor # n
      BY <2>6, <3>1 DEF ExecuteAction, Inv, JobInv
    <3>3. pc[w] = "execute" /\ pc'[w] = "idle"
      BY <2>6 DEF ExecuteAction, Inv, TypeOK
    <3> QED
      BY <3>1, <3>2, <3>3
  <2> QED
    BY <2>2, <2>3, <2>4, <2>5, <2>6 DEF Next
<1> QED
  BY <1>1, Invariance, PTL DEF Spec, OnlyDemotionRemovesAdmins
=============================================================================
