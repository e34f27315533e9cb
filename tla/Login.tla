-------------------------------- MODULE Login --------------------------------
(***************************************************************************)
(* Logging in to one account (blueprints/auth.py, security.py): the count  *)
(* of failures, the lock it leads to, the silent rehash, and the handlers  *)
(* that write the same row meanwhile: change_password and the              *)
(* administrators' actions.  Accounts do not share any of this state, so   *)
(* one row stands for all of them.                                         *)
(*                                                                         *)
(* A login reads the row once and verifies the password, which takes long, *)
(* against what it read: the outcome is settled by the read, and written   *)
(* by later statements.  A statement may have to wait for SQLite's lock:   *)
(* the end of an account's lock is computed before it is written.          *)
(*                                                                         *)
(* Definitions named Bug... are deliberate mistakes: the properties are    *)
(* seen to fail when one replaces the definition it precedes.              *)
(***************************************************************************)
EXTENDS Integers

CONSTANTS
    Passwords,      \* what the owner or somebody else may type
    Logins,         \* threads that serve POST /login for this account
    Changers,       \* threads that serve POST /me/password
    MaxFailures,    \* config.LOGIN_MAX_FAILURES
    Lockout,        \* config.LOGIN_LOCKOUT_MINUTES
    MaxTime,        \* bound: how far the clock runs
    MaxWrong,       \* bound: after so many recorded failures no login starts
    None            \* SQL NULL

ASSUME LoginThreadsAssumption == Logins \cap Changers = {}
ASSUME MaxFailuresAssumption == MaxFailures \in Nat \ {0}
ASSUME LockoutAssumption == Lockout \in Nat \ {0}
ASSUME NullAssumption == None \notin Nat

VARIABLES
    clock,          \* minutes
    status,         \* users.status, as "active" or "blocked"
    password,       \* the password users.password_hash verifies
    oldHash,        \* the hash has outdated parameters (needs_rehash)
    failedLogins,   \* users.failed_logins
    lockedUntil,    \* users.locked_until
    pc,             \* what each thread does next
    job,            \* what each login was given, what it read, and the time it took
    change,         \* the new password of each password change
    streak,         \* history: failures recorded since the counter was last reset
    wrong,          \* history: failures recorded at all
    failedAt,       \* history: when the last failure since then took its time
    overlapped      \* history: some login was in progress when another request
                    \* that uses failed_logins ran

row == <<status, password, oldHash, failedLogins, lockedUntil>>
history == <<streak, wrong, failedAt, overlapped>>
vars == <<clock, row, pc, job, change, history>>

Threads == Logins \cup Changers
Job == [given : Passwords, failed : Nat, until : Nat \cup {None}, at : Nat]

TypeOK ==
    /\ clock \in Nat
    /\ status \in {"active", "blocked"}
    /\ password \in Passwords
    /\ oldHash \in BOOLEAN
    /\ failedLogins \in Nat
    /\ lockedUntil \in Nat \cup {None}
    /\ pc \in [Threads -> {"idle", "fail", "lock", "rehash", "reset", "write"}]
    /\ job \in [Logins -> Job \cup {None}]
    /\ change \in [Changers -> Passwords \cup {None}]
    /\ streak \in Nat
    /\ wrong \in Nat
    /\ failedAt \in Nat \cup {None}
    /\ overlapped \in BOOLEAN

Init ==
    /\ clock = 0
    /\ status = "active"
    /\ password \in Passwords
    /\ oldHash \in BOOLEAN
    /\ failedLogins = 0
    /\ lockedUntil = None
    /\ pc = [t \in Threads |-> "idle"]
    /\ job = [l \in Logins |-> None]
    /\ change = [c \in Changers |-> None]
    /\ streak = 0
    /\ wrong = 0
    /\ failedAt = None
    /\ overlapped = FALSE

\* login_lock_state
Locked == lockedUntil # None /\ lockedUntil > clock

Busy(l) == pc[l] # "idle"

Finish(l) ==
    /\ pc' = [pc EXCEPT ![l] = "idle"]
    /\ job' = [job EXCEPT ![l] = None]

-----------------------------------------------------------------------------
(* POST /login                                                             *)

\* Where the password typed leads, by the row as it was read.
Outcome(given) ==
    CASE given # password -> "fail"
      [] status # "active" -> "idle"
      [] oldHash -> "rehash"
      [] OTHER -> "reset"

\* The row is read, and the password verified against the hash that was read.
Verify(l) ==
    /\ pc[l] = "idle"
    /\ wrong < MaxWrong
    /\ \E given \in Passwords :
         /\ pc' = [pc EXCEPT ![l] = Outcome(given)]
         /\ job' = [job EXCEPT ![l] = IF Outcome(given) = "idle" THEN None
                      ELSE [given |-> given, failed |-> failedLogins, until |-> lockedUntil,
                            at |-> 0]]
    /\ overlapped' = (overlapped \/ \E k \in Logins \ {l} : Busy(k))
    /\ UNCHANGED <<clock, row, change, streak, wrong, failedAt>>

\* Bug: the lock is not looked at.
BugStartLogin(l) == Verify(l)

\* A locked account is refused before the password is looked at.
StartLogin(l) == ~Locked /\ Verify(l)

\* One more than what was read.
Failures(l) == job[l].failed + 1

\* Bug: locked when the count comes within one of the limit.
BugAtLimitEarly(failures) == failures >= MaxFailures - 1

\* Bug: locked only when the count reaches the limit, not when it is beyond.
BugAtLimitOnce(failures) == failures = MaxFailures

AtLimit(failures) == failures >= MaxFailures

\* register_login_failure below the limit: locked_until is not written.
RecordFailure(l) ==
    /\ pc[l] = "fail"
    /\ ~AtLimit(Failures(l))
    /\ failedLogins' = Failures(l)
    /\ streak' = streak + 1
    /\ wrong' = wrong + 1
    /\ failedAt' = clock
    /\ Finish(l)
    /\ UNCHANGED <<clock, status, password, oldHash, lockedUntil, change, overlapped>>

\* At the limit the clock is read for the end of the lock ...
ReadClock(l) ==
    /\ pc[l] = "fail"
    /\ AtLimit(Failures(l))
    /\ job' = [job EXCEPT ![l].at = clock]
    /\ pc' = [pc EXCEPT ![l] = "lock"]
    /\ UNCHANGED <<clock, row, change, history>>

\* ... and the UPDATE writes it as soon as it gets SQLite's lock.
LockAccount(l) ==
    /\ pc[l] = "lock"
    /\ failedLogins' = Failures(l)
    /\ lockedUntil' = job[l].at + Lockout
    /\ streak' = streak + 1
    /\ wrong' = wrong + 1
    /\ failedAt' = job[l].at
    /\ Finish(l)
    /\ UNCHANGED <<clock, status, password, oldHash, change, overlapped>>

\* The password typed is hashed again and stored.
Rehash(l) ==
    /\ pc[l] = "rehash"
    /\ password' = job[l].given
    /\ oldHash' = FALSE
    /\ pc' = [pc EXCEPT ![l] = "reset"]
    /\ UNCHANGED <<clock, status, failedLogins, lockedUntil, job, change, history>>

\* Bug: only the lock is cleared.
BugReset(l) ==
    /\ pc[l] = "reset"
    /\ lockedUntil' = None
    /\ streak' = 0
    /\ failedAt' = None
    /\ Finish(l)
    /\ UNCHANGED <<clock, status, password, oldHash, failedLogins, change, wrong, overlapped>>

\* reset_login_failures, then the session starts.
Reset(l) ==
    /\ pc[l] = "reset"
    /\ failedLogins' = 0
    /\ lockedUntil' = None
    /\ streak' = 0
    /\ failedAt' = None
    /\ Finish(l)
    /\ UNCHANGED <<clock, status, password, oldHash, change, wrong, overlapped>>

\* The statement times out on SQLite's lock, or the thread dies.
Abandon(l) ==
    /\ Busy(l)
    /\ Finish(l)
    /\ UNCHANGED <<clock, row, change, history>>

-----------------------------------------------------------------------------
(* POST /me/password                                                       *)

\* The current password was typed correctly, and the new one differs from it.
\* The session belongs to an active account.
StartChange(c) ==
    /\ pc[c] = "idle"
    /\ status = "active"
    /\ \E new \in Passwords \ {password} : change' = [change EXCEPT ![c] = new]
    /\ pc' = [pc EXCEPT ![c] = "write"]
    /\ UNCHANGED <<clock, row, job, history>>

WritePassword(c) ==
    /\ pc[c] = "write"
    /\ password' = change[c]
    /\ oldHash' = FALSE
    /\ change' = [change EXCEPT ![c] = None]
    /\ pc' = [pc EXCEPT ![c] = "idle"]
    /\ UNCHANGED <<clock, status, failedLogins, lockedUntil, job, history>>

-----------------------------------------------------------------------------
(* Administrators, reports, time                                           *)

\* Bug: a word the users table does not know.
BugActivate ==
    /\ status' = "unlocked"
    /\ failedLogins' = 0
    /\ lockedUntil' = None
    /\ streak' = 0
    /\ failedAt' = None
    /\ overlapped' = (overlapped \/ \E l \in Logins : Busy(l))
    /\ UNCHANGED <<clock, password, oldHash, pc, job, change, wrong>>

\* user_action 'activate' also clears the counter and the lock.
Activate ==
    /\ status' = "active"
    /\ failedLogins' = 0
    /\ lockedUntil' = None
    /\ streak' = 0
    /\ failedAt' = None
    /\ overlapped' = (overlapped \/ \E l \in Logins : Busy(l))
    /\ UNCHANGED <<clock, password, oldHash, pc, job, change, wrong>>

\* user_action 'dormant' and 'ban', and the report threshold.
Suspend ==
    /\ status' = "blocked"
    /\ UNCHANGED <<clock, password, oldHash, failedLogins, lockedUntil, pc, job, change, history>>

Tick ==
    /\ clock < MaxTime
    /\ clock' = clock + 1
    /\ UNCHANGED <<row, pc, job, change, history>>

Next ==
    \/ \E l \in Logins : StartLogin(l) \/ RecordFailure(l) \/ ReadClock(l) \/ LockAccount(l)
                         \/ Rehash(l) \/ Reset(l) \/ Abandon(l)
    \/ \E c \in Changers : StartChange(c) \/ WritePassword(c)
    \/ Activate \/ Suspend \/ Tick

Spec == Init /\ [][Next]_vars

-----------------------------------------------------------------------------
(* Properties                                                              *)

\* An account is locked only after MaxFailures wrong passwords, although each
\* failure is written from a count read before the slow verification, so that
\* counts from before a success or an activation come back (security.py:270).
LockEarned == lockedUntil # None => wrong >= MaxFailures

\* As long as nothing else uses the counter while a login is in progress, it
\* holds the number of failures since the last success, and reaching the limit
\* has locked the account (SECURITY_CHECKLIST.md:20).
SequentialLockout ==
    ~overlapped =>
        /\ failedLogins = streak
        /\ streak >= MaxFailures => lockedUntil # None

\* A running lock is lifted or shortened only by an administrator, or by a login
\* that had read the row before that lock was set: on success it lifts the lock
\* (auth.py:79-83), and at the limit it shortens it by no more than the time its
\* UPDATE had to wait (security.py:273).
LockStands ==
    [][Locked =>
        \/ lockedUntil' # None /\ lockedUntil' >= lockedUntil
        \/ Activate
        \/ \E l \in Logins :
             /\ pc[l] \in {"reset", "lock"} /\ pc'[l] = "idle"
             /\ job[l].until # lockedUntil
             /\ pc[l] = "lock" =>
                  lockedUntil' # None /\ lockedUntil' + (clock - job[l].at) >= lockedUntil]_vars

\* The limit goes on holding when a lock has expired: unless logins overlapped,
\* every further failure without a success keeps all passwords out for another
\* Lockout, counted from the time it took (security.py:271;
\* SECURITY_CHECKLIST.md:20).
LimitHolds ==
    [][\A l \in Logins : (StartLogin(l) /\ ~overlapped /\ streak >= MaxFailures) =>
         failedAt + Lockout <= clock]_vars

\* The silent rehash at login renews the parameters of the hash, not the
\* password (auth.py:110): what verified before verifies after.
RehashKeepsPassword ==
    [][\A l \in Logins : pc[l] = "rehash" /\ pc'[l] = "reset" => password' = password]_vars
=============================================================================
