----------------------------- MODULE LoginProofs -----------------------------
(***************************************************************************)
(* Proofs about Login, for any passwords, threads, limits and durations.   *)
(***************************************************************************)
EXTENDS Login, TLAPS

\* A login in progress remembers what it was given and has read.
JobInv == \A l \in Logins : Busy(l) => job[l] \in Job

\* A count, stored or still in the hands of a login, never exceeds the
\* failures recorded so far.
CountInv ==
    /\ failedLogins <= wrong
    /\ \A l \in Logins : Busy(l) => job[l].failed <= wrong

\* Without overlap, the one login in progress has read the counter as it is.
AloneInv ==
    ~overlapped =>
        /\ \A k, l \in Logins : Busy(k) /\ Busy(l) => k = l
        /\ \A l \in Logins : Busy(l) => job[l].failed = failedLogins

\* A password change in progress has a password to write.
ChangeInv == \A c \in Changers : pc[c] = "write" => change[c] \in Passwords

\* A lock runs for at most its duration, and a login in progress has seen no
\* lock that is still running.  One that is about to lock has reached the limit,
\* and read the clock by now.
LockInv ==
    /\ lockedUntil # None => lockedUntil <= clock + Lockout
    /\ \A l \in Logins :
         /\ Busy(l) => job[l].until = None \/ job[l].until <= clock
         /\ pc[l] = "lock" => AtLimit(Failures(l)) /\ job[l].at <= clock

\* Without overlap, an account at the limit was locked by its last failure.
LimitInv ==
    ~overlapped /\ streak >= MaxFailures =>
        failedAt \in Nat /\ lockedUntil = failedAt + Lockout

Inv ==
    /\ TypeOK /\ JobInv /\ CountInv /\ AloneInv
    /\ ChangeInv /\ LockInv /\ LimitInv
    /\ LockEarned /\ SequentialLockout

\* The invariant holds before the first request.
LEMMA InitInv == Init => Inv
<1> SUFFICES ASSUME Init
             PROVE  Inv
  OBVIOUS
<1>1. TypeOK
  BY DEF Init, TypeOK
<1>2. \A t \in Threads : pc[t] = "idle"
  BY DEF Init
<1>3. JobInv /\ AloneInv /\ ChangeInv
  BY <1>2 DEF JobInv, AloneInv, ChangeInv, Busy, Threads
<1>4. CountInv /\ LockInv
  BY <1>2 DEF Init, CountInv, LockInv, Busy, Threads
<1>5. LockEarned /\ SequentialLockout /\ LimitInv
  BY MaxFailuresAssumption DEF Init, LockEarned, SequentialLockout, LimitInv
<1> QED
  BY <1>1, <1>3, <1>4, <1>5 DEF Inv

\* Logins and password changes run in different threads.
LEMMA ChangersAreNoLogins == \A l \in Logins, c \in Changers : l # c
BY LoginThreadsAssumption

\* A login that is looked at from the row keeps the invariant.
LEMMA StartInv ==
    ASSUME Inv, NEW l \in Logins, StartLogin(l)
    PROVE  Inv'
<1>1. PICK given \in Passwords :
        /\ pc' = [pc EXCEPT ![l] = Outcome(given)]
        /\ job' = [job EXCEPT ![l] = IF Outcome(given) = "idle" THEN None
                     ELSE [given |-> given, failed |-> failedLogins, until |-> lockedUntil,
                           at |-> 0]]
  BY DEF StartLogin, Verify
<1>2. /\ pc[l] = "idle"
      /\ overlapped' = (overlapped \/ \E k \in Logins \ {l} : Busy(k))
      /\ UNCHANGED <<clock, row, change, streak, wrong, failedAt>>
  BY DEF StartLogin, Verify
<1>3. Outcome(given) \in {"fail", "idle", "rehash", "reset"}
  BY DEF Outcome
<1>4. [given |-> given, failed |-> failedLogins, until |-> lockedUntil, at |-> 0] \in Job
  BY DEF Inv, TypeOK, Job
<1> HIDE DEF Outcome
<1>5. TypeOK'
  BY <1>1, <1>2, <1>3, <1>4 DEF Inv, TypeOK, Threads, row
<1>6. JobInv' /\ CountInv'
  BY <1>1, <1>2, <1>3, <1>4 DEF Inv, TypeOK, JobInv, CountInv, Busy, Threads, row
<1>7. AloneInv'
  BY <1>1, <1>2, <1>3 DEF Inv, TypeOK, AloneInv, Busy, Threads, row
<1>8. LockEarned' /\ SequentialLockout' /\ LimitInv'
  BY <1>2 DEF Inv, LockEarned, SequentialLockout, LimitInv, row
<1>9. ChangeInv'
  BY <1>1, <1>2, ChangersAreNoLogins DEF Inv, TypeOK, ChangeInv, Threads
<1>10. LockInv'
  <2>1. lockedUntil = None \/ lockedUntil <= clock
    BY DEF StartLogin, Locked, Inv, TypeOK
  <2>2. \A k \in Logins \ {l} : pc'[k] = pc[k] /\ job'[k] = job[k]
    BY <1>1 DEF Inv, TypeOK, Threads
  <2>3. pc'[l] # "lock" /\ (Busy(l)' => job'[l].until = lockedUntil)
    BY <1>1, <1>3 DEF Inv, TypeOK, Busy, Threads
  <2> QED
    BY <1>2, <2>1, <2>2, <2>3 DEF Inv, LockInv, Busy, Failures, AtLimit, row
<1> QED
  BY <1>5, <1>6, <1>7, <1>8, <1>9, <1>10 DEF Inv

\* What a login that failed is about to write: at most the number of failures,
\* and exactly one more than the counter when nobody interferes.
LEMMA FailureCount ==
    ASSUME Inv, NEW l \in Logins, pc[l] \in {"fail", "lock"}
    PROVE  /\ Busy(l) /\ job[l] \in Job /\ job[l].at \in Nat
           /\ Failures(l) \in Nat /\ Failures(l) <= wrong + 1
           /\ wrong \in Nat /\ streak \in Nat /\ MaxFailures \in Nat \ {0}
           /\ ~overlapped => Failures(l) = streak + 1
<1>1. Busy(l) /\ job[l] \in Job /\ job[l].failed \in Nat /\ job[l].at \in Nat
  BY DEF Inv, JobInv, Busy, Job
<1>2. job[l].failed <= wrong /\ (~overlapped => job[l].failed = failedLogins)
  BY <1>1 DEF Inv, CountInv, AloneInv
<1>3. wrong \in Nat /\ streak \in Nat /\ MaxFailures \in Nat \ {0}
  BY MaxFailuresAssumption DEF Inv, TypeOK
<1>4. ~overlapped => failedLogins = streak
  BY DEF Inv, SequentialLockout
<1> QED
  BY <1>1, <1>2, <1>3, <1>4 DEF Failures

\* A failure below the limit keeps the invariant.
LEMMA FailureInv ==
    ASSUME Inv, NEW l \in Logins, RecordFailure(l)
    PROVE  Inv'
<1>1. /\ failedLogins' = Failures(l) /\ failedAt' = clock
      /\ streak' = streak + 1 /\ wrong' = wrong + 1
      /\ pc' = [pc EXCEPT ![l] = "idle"] /\ job' = [job EXCEPT ![l] = None]
      /\ UNCHANGED <<clock, status, password, oldHash, lockedUntil, change, overlapped>>
  BY DEF RecordFailure, Finish
<1>2. /\ Busy(l) /\ Failures(l) \in Nat /\ Failures(l) <= wrong + 1
      /\ wrong \in Nat /\ streak \in Nat /\ MaxFailures \in Nat
      /\ ~overlapped => Failures(l) = streak + 1
  BY FailureCount DEF RecordFailure
<1>3. Failures(l) < MaxFailures
  BY <1>2 DEF RecordFailure, AtLimit
<1>4. TypeOK'
  BY <1>1, <1>2 DEF Inv, TypeOK, Threads
<1>5. JobInv' /\ CountInv'
  BY <1>1, <1>2 DEF Inv, TypeOK, JobInv, CountInv, Busy, Threads, Job
<1>6. AloneInv'
  BY <1>1, <1>2 DEF Inv, TypeOK, AloneInv, Busy, Threads
<1>7. LockEarned'
  BY <1>1, <1>2 DEF Inv, LockEarned
<1>8. SequentialLockout' /\ LimitInv'
  BY <1>1, <1>2, <1>3 DEF SequentialLockout, LimitInv
<1>9. ChangeInv'
  BY <1>1, ChangersAreNoLogins DEF Inv, TypeOK, ChangeInv, Threads
<1>10. LockInv'
  BY <1>1 DEF Inv, TypeOK, LockInv, Busy, Threads, Failures
<1> QED
  BY <1>4, <1>5, <1>6, <1>7, <1>8, <1>9, <1>10 DEF Inv

\* So does reading the clock at the limit ...
LEMMA ReadInv ==
    ASSUME Inv, NEW l \in Logins, ReadClock(l)
    PROVE  Inv'
<1>1. /\ pc[l] = "fail" /\ AtLimit(Failures(l))
      /\ job' = [job EXCEPT ![l].at = clock] /\ pc' = [pc EXCEPT ![l] = "lock"]
      /\ UNCHANGED <<clock, status, password, oldHash, failedLogins, lockedUntil, change,
                     streak, wrong, failedAt, overlapped>>
  BY DEF ReadClock, row, history
<1>2. job[l] \in Job /\ clock \in Nat /\ Busy(l)
  BY <1>1, FailureCount DEF Inv, TypeOK
<1>3. /\ job'[l] \in Job /\ job'[l].at = clock
      /\ job'[l].failed = job[l].failed /\ job'[l].until = job[l].until
      /\ \A k \in Logins \ {l} : job'[k] = job[k]
  BY <1>1, <1>2 DEF Inv, TypeOK, Job
<1>4. /\ pc'[l] = "lock"
      /\ \A t \in Threads \ {l} : pc'[t] = pc[t]
  BY <1>1 DEF Inv, TypeOK, Threads
<1>5. \A k \in Logins : Busy(k)' <=> Busy(k)
  BY <1>1, <1>4 DEF Busy, Threads
<1>6. TypeOK'
  BY <1>1, <1>3 DEF Inv, TypeOK, Threads
<1>7. JobInv' /\ CountInv' /\ AloneInv'
  BY <1>1, <1>2, <1>3, <1>5 DEF Inv, JobInv, CountInv, AloneInv
<1>8. LockEarned' /\ SequentialLockout' /\ LimitInv'
  BY <1>1 DEF Inv, LockEarned, SequentialLockout, LimitInv
<1>9. ChangeInv'
  BY <1>1, <1>4, ChangersAreNoLogins DEF Inv, ChangeInv, Threads
<1>10. LockInv'
  <2>1. lockedUntil' # None => lockedUntil' <= clock' + Lockout
    BY <1>1 DEF Inv, LockInv
  <2>2. \A k \in Logins : Busy(k)' => job'[k].until = None \/ job'[k].until <= clock'
    BY <1>1, <1>3, <1>5 DEF Inv, LockInv
  <2>3. AtLimit(Failures(l))' /\ job'[l].at <= clock'
    BY <1>1, <1>2, <1>3 DEF AtLimit, Failures
  <2>4. \A k \in Logins \ {l} : pc'[k] = "lock" => AtLimit(Failures(k))' /\ job'[k].at <= clock'
    BY <1>1, <1>3, <1>4 DEF Inv, LockInv, AtLimit, Failures, Threads
  <2> QED
    BY <2>1, <2>2, <2>3, <2>4 DEF LockInv
<1> QED
  BY <1>6, <1>7, <1>8, <1>9, <1>10 DEF Inv

\* ... and the lock that is written with it, however much later.
LEMMA LockAccountInv ==
    ASSUME Inv, NEW l \in Logins, LockAccount(l)
    PROVE  Inv'
<1>1. /\ failedLogins' = Failures(l) /\ failedAt' = job[l].at
      /\ lockedUntil' = job[l].at + Lockout
      /\ streak' = streak + 1 /\ wrong' = wrong + 1
      /\ pc' = [pc EXCEPT ![l] = "idle"] /\ job' = [job EXCEPT ![l] = None]
      /\ UNCHANGED <<clock, status, password, oldHash, change, overlapped>>
  BY DEF LockAccount, Finish
<1>2. /\ Busy(l) /\ job[l].at \in Nat /\ Failures(l) \in Nat /\ Failures(l) <= wrong + 1
      /\ wrong \in Nat /\ streak \in Nat /\ MaxFailures \in Nat
      /\ ~overlapped => Failures(l) = streak + 1
  BY FailureCount DEF LockAccount
<1>3. Failures(l) >= MaxFailures /\ job[l].at <= clock
  BY DEF LockAccount, Inv, LockInv, AtLimit
<1>4. job[l].at + Lockout \in Nat /\ job[l].at + Lockout # None
  BY <1>2, LockoutAssumption, NullAssumption
<1>5. TypeOK'
  BY <1>1, <1>2, <1>4 DEF Inv, TypeOK, Threads
<1>6. JobInv' /\ CountInv'
  BY <1>1, <1>2 DEF Inv, TypeOK, JobInv, CountInv, Busy, Threads, Job
<1>7. AloneInv'
  BY <1>1, <1>2 DEF Inv, TypeOK, AloneInv, Busy, Threads
<1>8. LockEarned'
  BY <1>1, <1>2, <1>3 DEF LockEarned
<1>9. SequentialLockout' /\ LimitInv'
  BY <1>1, <1>2, <1>4 DEF SequentialLockout, LimitInv
<1>10. ChangeInv'
  BY <1>1, ChangersAreNoLogins DEF Inv, TypeOK, ChangeInv, Threads
<1>11. LockInv'
  <2>1. lockedUntil' <= clock' + Lockout
    BY <1>1, <1>2, <1>3, LockoutAssumption DEF Inv, TypeOK
  <2> QED
    BY <1>1, <2>1 DEF Inv, TypeOK, LockInv, Busy, Threads, Failures
<1> QED
  BY <1>5, <1>6, <1>7, <1>8, <1>9, <1>10, <1>11 DEF Inv

\* Every step preserves the invariant.
LEMMA NextInv == Inv /\ [Next]_vars => Inv'
<1> SUFFICES ASSUME Inv, [Next]_vars
             PROVE  Inv'
  OBVIOUS
<1>1. ASSUME NEW l \in Logins, StartLogin(l)
      PROVE  Inv'
  BY <1>1, StartInv
<1>2. ASSUME NEW l \in Logins, RecordFailure(l)
      PROVE  Inv'
  BY <1>2, FailureInv
<1>3. ASSUME NEW l \in Logins, ReadClock(l)
      PROVE  Inv'
  BY <1>3, ReadInv
<1>4. ASSUME NEW l \in Logins, LockAccount(l)
      PROVE  Inv'
  BY <1>4, LockAccountInv
<1>5. ASSUME NEW l \in Logins, Rehash(l)
      PROVE  Inv'
  <2>1. Busy(l) /\ job[l] \in Job /\ job[l].given \in Passwords
    BY <1>5 DEF Rehash, Inv, JobInv, Busy, Job
  <2>2. TypeOK'
    BY <1>5, <2>1 DEF Rehash, history, Inv, TypeOK, Threads
  <2>3. JobInv' /\ CountInv'
    BY <1>5, <2>1 DEF Rehash, history, Inv, TypeOK, JobInv, CountInv, Busy, Threads
  <2>4. AloneInv'
    BY <1>5, <2>1 DEF Rehash, history, Inv, TypeOK, AloneInv, Busy, Threads
  <2>5. LockEarned' /\ SequentialLockout' /\ LimitInv'
    BY <1>5 DEF Rehash, history, Inv, LockEarned, SequentialLockout, LimitInv
  <2>6. ChangeInv' /\ LockInv'
    BY <1>5, <2>1, ChangersAreNoLogins
    DEF Rehash, history, Inv, TypeOK, ChangeInv, LockInv, Busy, Failures, Threads
  <2> QED
    BY <2>2, <2>3, <2>4, <2>5, <2>6 DEF Inv
<1>6. ASSUME NEW l \in Logins, Reset(l)
      PROVE  Inv'
  <2>1. Busy(l)
    BY <1>6 DEF Reset, Busy
  <2>2. TypeOK'
    BY <1>6 DEF Reset, Finish, Inv, TypeOK, Threads
  <2>3. JobInv' /\ CountInv'
    BY <1>6 DEF Reset, Finish, Inv, TypeOK, JobInv, CountInv, Busy, Threads
  <2>4. AloneInv'
    BY <1>6, <2>1 DEF Reset, Finish, Inv, TypeOK, AloneInv, Busy, Threads
  <2>5. LockEarned' /\ SequentialLockout' /\ LimitInv'
    BY <1>6, MaxFailuresAssumption DEF Reset, Inv, LockEarned, SequentialLockout, LimitInv
  <2>6. ChangeInv' /\ LockInv'
    BY <1>6, ChangersAreNoLogins
    DEF Reset, Finish, Inv, TypeOK, ChangeInv, LockInv, Busy, Failures, Threads
  <2> QED
    BY <2>2, <2>3, <2>4, <2>5, <2>6 DEF Inv
<1>7. ASSUME NEW l \in Logins, Abandon(l)
      PROVE  Inv'
  <2>1. TypeOK'
    BY <1>7 DEF Abandon, Finish, row, history, Inv, TypeOK, Threads
  <2>2. JobInv' /\ CountInv' /\ AloneInv'
    BY <1>7 DEF Abandon, Finish, row, history, Inv, TypeOK, JobInv, CountInv, AloneInv, Busy, Threads
  <2>3. LockEarned' /\ SequentialLockout' /\ LimitInv'
    BY <1>7 DEF Abandon, row, history, Inv, LockEarned, SequentialLockout, LimitInv
  <2>4. ChangeInv' /\ LockInv'
    BY <1>7, ChangersAreNoLogins
    DEF Abandon, Finish, row, history, Inv, TypeOK, ChangeInv, LockInv, Busy, Failures, Threads
  <2> QED
    BY <2>1, <2>2, <2>3, <2>4 DEF Inv
<1>8. ASSUME NEW c \in Changers, StartChange(c)
      PROVE  Inv'
  <2>1. TypeOK'
    BY <1>8 DEF StartChange, row, history, Inv, TypeOK, Threads
  <2>2. JobInv' /\ CountInv' /\ AloneInv'
    BY <1>8, ChangersAreNoLogins
    DEF StartChange, row, history, Inv, TypeOK, JobInv, CountInv, AloneInv, Busy, Threads
  <2>3. LockEarned' /\ SequentialLockout' /\ LimitInv'
    BY <1>8 DEF StartChange, row, history, Inv, LockEarned, SequentialLockout, LimitInv
  <2>4. ChangeInv' /\ LockInv'
    BY <1>8, ChangersAreNoLogins
    DEF StartChange, row, history, Inv, TypeOK, ChangeInv, LockInv, Busy, Failures, Threads
  <2> QED
    BY <2>1, <2>2, <2>3, <2>4 DEF Inv
<1>9. ASSUME NEW c \in Changers, WritePassword(c)
      PROVE  Inv'
  <2>1. change[c] \in Passwords
    BY <1>9 DEF WritePassword, Inv, ChangeInv
  <2>2. TypeOK'
    BY <1>9, <2>1 DEF WritePassword, history, Inv, TypeOK, Threads
  <2>3. JobInv' /\ CountInv' /\ AloneInv'
    BY <1>9, ChangersAreNoLogins
    DEF WritePassword, history, Inv, TypeOK, JobInv, CountInv, AloneInv, Busy, Threads
  <2>4. LockEarned' /\ SequentialLockout' /\ LimitInv'
    BY <1>9 DEF WritePassword, history, Inv, LockEarned, SequentialLockout, LimitInv
  <2>5. ChangeInv' /\ LockInv'
    BY <1>9, ChangersAreNoLogins
    DEF WritePassword, history, Inv, TypeOK, ChangeInv, LockInv, Busy, Failures, Threads
  <2> QED
    BY <2>2, <2>3, <2>4, <2>5 DEF Inv
<1>10. CASE Activate
  <2>1. TypeOK' /\ JobInv' /\ CountInv'
    BY <1>10 DEF Activate, Inv, TypeOK, JobInv, CountInv, Busy
  <2>2. AloneInv'
    BY <1>10 DEF Activate, Inv, AloneInv, Busy
  <2>3. LockEarned' /\ SequentialLockout' /\ LimitInv'
    BY <1>10, MaxFailuresAssumption DEF Activate, Inv, LockEarned, SequentialLockout, LimitInv
  <2>4. ChangeInv' /\ LockInv'
    BY <1>10 DEF Activate, Inv, ChangeInv, LockInv, Busy, Failures
  <2> QED
    BY <2>1, <2>2, <2>3, <2>4 DEF Inv
<1>11. CASE Suspend
  BY <1>11
  DEF Suspend, history, Inv, TypeOK, JobInv, CountInv, AloneInv, ChangeInv, LockInv,
      LockEarned, SequentialLockout, LimitInv, Busy, Failures
<1>12. CASE Tick
  <2>1. TypeOK' /\ LockInv'
    BY <1>12, LockoutAssumption, NullAssumption
    DEF Tick, row, history, Inv, TypeOK, JobInv, Job, LockInv, Busy, Failures
  <2>2. JobInv' /\ CountInv' /\ AloneInv' /\ ChangeInv' /\ LockEarned' /\ SequentialLockout' /\ LimitInv'
    BY <1>12
    DEF Tick, row, history, Inv, JobInv, CountInv, AloneInv, ChangeInv,
        LockEarned, SequentialLockout, LimitInv, Busy, Failures
  <2> QED
    BY <2>1, <2>2 DEF Inv
<1>13. CASE UNCHANGED vars
  BY <1>13
  DEF vars, row, history, Inv, TypeOK, JobInv, CountInv, AloneInv, ChangeInv, LockInv,
      LockEarned, SequentialLockout, LimitInv, Busy, Failures
<1> QED
  BY <1>1, <1>2, <1>3, <1>4, <1>5, <1>6, <1>7, <1>8, <1>9, <1>10, <1>11, <1>12, <1>13 DEF Next

\* The invariant holds in every reachable state.
LEMMA Invariance == Spec => []Inv
BY InitInv, NextInv, PTL DEF Spec

\* Every variable stays in its type.
THEOREM TypeCorrect == Spec => []TypeOK
<1>1. Inv => TypeOK
  BY DEF Inv
<1> QED
  BY <1>1, Invariance, PTL

\* However logins interleave, nobody is locked out before MaxFailures failures.
THEOREM LockIsEarned == Spec => []LockEarned
<1>1. Inv => LockEarned
  BY DEF Inv
<1> QED
  BY <1>1, Invariance, PTL

\* Logins that do not overlap count exactly, and the limit locks.
THEOREM ExactCount == Spec => []SequentialLockout
<1>1. Inv => SequentialLockout
  BY DEF Inv
<1> QED
  BY <1>1, Invariance, PTL

\* A running lock is not lifted by a login that saw it, and shortened by no more
\* than the time between reading the clock and writing the lock.
THEOREM LockIsKept == Spec => LockStands
<1> DEFINE Kept ==
        \/ lockedUntil' # None /\ lockedUntil' >= lockedUntil
        \/ Activate
        \/ \E l \in Logins :
             /\ pc[l] \in {"reset", "lock"} /\ pc'[l] = "idle"
             /\ job[l].until # lockedUntil
             /\ pc[l] = "lock" =>
                  lockedUntil' # None /\ lockedUntil' + (clock - job[l].at) >= lockedUntil
<1>1. Inv /\ [Next]_vars => [Locked => Kept]_vars
  <2> SUFFICES ASSUME Inv, Next, Locked
               PROVE  Kept
    OBVIOUS
  <2>1. lockedUntil \in Nat /\ lockedUntil > clock /\ lockedUntil # None /\ clock \in Nat
    BY NullAssumption DEF Locked, Inv, TypeOK
  <2>2. CASE UNCHANGED lockedUntil
    BY <2>1, <2>2
  <2>3. \A l \in Logins : Busy(l) => job[l].until # lockedUntil
    BY <2>1, NullAssumption DEF Inv, JobInv, LockInv, Job
  <2>4. ASSUME NEW l \in Logins, LockAccount(l)
        PROVE  Kept
    <3>1. pc[l] = "lock" /\ pc'[l] = "idle" /\ lockedUntil' = job[l].at + Lockout
      BY <2>4 DEF LockAccount, Finish, Inv, TypeOK, Threads
    <3>2. Busy(l) /\ job[l].at \in Nat
      BY <3>1, FailureCount
    <3>3. lockedUntil <= clock + Lockout
      BY <2>1 DEF Inv, LockInv
    <3>4. lockedUntil' # None /\ lockedUntil' + (clock - job[l].at) >= lockedUntil
      BY <2>1, <3>1, <3>2, <3>3, LockoutAssumption, NullAssumption
    <3> QED
      BY <2>3, <3>1, <3>2, <3>4
  <2>5. ASSUME NEW l \in Logins, Reset(l)
        PROVE  Kept
    <3>1. pc[l] = "reset" /\ pc'[l] = "idle"
      BY <2>5 DEF Reset, Finish, Inv, TypeOK, Threads
    <3> QED
      BY <2>3, <3>1 DEF Busy
  <2>6. CASE Activate
    BY <2>6
  <2> QED
    BY <2>2, <2>4, <2>5, <2>6
    DEF Next, StartLogin, Verify, RecordFailure, ReadClock, Rehash, Abandon, StartChange,
        WritePassword, Suspend, Tick, row
<1> QED
  BY <1>1, Invariance, PTL DEF Spec, LockStands

\* Unless logins overlapped, the limit holds for every failure beyond it, too.
THEOREM LimitIsKept == Spec => LimitHolds
<1> DEFINE Held == \A l \in Logins :
        StartLogin(l) /\ ~overlapped /\ streak >= MaxFailures => failedAt + Lockout <= clock
<1>1. Inv => Held
  <2> SUFFICES ASSUME Inv, NEW l \in Logins,
                      StartLogin(l), ~overlapped, streak >= MaxFailures
               PROVE  failedAt + Lockout <= clock
    OBVIOUS
  <2>1. failedAt \in Nat /\ lockedUntil = failedAt + Lockout
    BY DEF Inv, LimitInv
  <2>2. lockedUntil # None /\ lockedUntil \in Nat /\ clock \in Nat
    BY <2>1, LockoutAssumption, NullAssumption DEF Inv, TypeOK
  <2>3. ~Locked
    BY DEF StartLogin
  <2> QED
    BY <2>1, <2>2, <2>3 DEF Locked
<1>2. Inv /\ [Next]_vars => [Held]_vars
  BY <1>1
<1> QED
  BY <1>2, Invariance, PTL DEF Spec, LimitHolds
=============================================================================
