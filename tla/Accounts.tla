------------------------------ MODULE Accounts ------------------------------
(***************************************************************************)
(* Who exists, who is an administrator and who may use the site: the       *)
(* registration form (blueprints/auth.py), the create-admin command        *)
(* (app.py), the administrators' user_action (blueprints/admin.py) and the *)
(* automatic suspension (blueprints/reports.py), all working on the rows   *)
(* of the users table one statement at a time.                             *)
(*                                                                         *)
(* Worker threads serve one request after another; nothing is counted, so  *)
(* the state space is finite without bounds.                               *)
(*                                                                         *)
(* Definitions named Bug... are deliberate mistakes: the properties are    *)
(* seen to fail when one replaces the definition it precedes.              *)
(***************************************************************************)
EXTENDS FiniteSets, Integers

CONSTANTS
    Names,        \* usernames (UNIQUE COLLATE NOCASE: one per account)
    Workers,      \* threads that serve POST /admin/users/action
    SignUps,      \* threads that serve POST /register
    None

ASSUME WorkersAssumption == Workers \cap SignUps = {}
ASSUME NoNameAssumption == None \notin Names

VARIABLES
    registered,   \* usernames with a row in users
    role,         \* users.role
    status,       \* users.status
    pc,           \* what each administrator's request does next
    job,          \* actor, target and action of each administrator's request
    signup,       \* the name each registration found free, or None
    cli,          \* create-admin: <<next statement, name>>
    overlapped    \* history: two administrators' requests ran at once

rows == <<registered, role, status>>
vars == <<rows, pc, job, signup, cli, overlapped>>

Actions == {"activate", "dormant", "ban", "promote", "demote"}
Job == [actor : Names, target : Names, action : Actions]

TypeOK ==
    /\ registered \subseteq Names
    /\ role \in [Names -> {"user", "admin"}]
    /\ status \in [Names -> {"active", "dormant", "banned"}]
    /\ pc \in [Workers -> {"idle", "count", "execute"}]
    /\ job \in [Workers -> Job \cup {None}]
    /\ signup \in [SignUps -> Names \cup {None}]
    /\ cli \in {"idle", "promote", "insert"} \X (Names \cup {None})
    /\ overlapped \in BOOLEAN

Init ==
    /\ registered = {}
    /\ role = [n \in Names |-> "user"]
    /\ status = [n \in Names |-> "active"]
    /\ pc = [w \in Workers |-> "idle"]
    /\ job = [w \in Workers |-> None]
    /\ signup = [s \in SignUps |-> None]
    /\ cli = <<"idle", None>>
    /\ overlapped = FALSE

Admins == {n \in registered : role[n] = "admin"}
ActiveAdmins == {n \in Admins : status[n] = "active"}

\* The row a new account starts with (role as given, status 'active').
InsertUser(n, newRole) ==
    /\ registered' = registered \cup {n}
    /\ role' = [role EXCEPT ![n] = newRole]
    /\ status' = [status EXCEPT ![n] = "active"]

-----------------------------------------------------------------------------
(* POST /register                                                          *)

FindNameFree(s) ==
    /\ signup[s] = None
    /\ \E n \in Names \ registered : signup' = [signup EXCEPT ![s] = n]
    /\ UNCHANGED <<rows, pc, job, cli, overlapped>>

\* Bug: INSERT OR REPLACE, which overwrites the row that came first.
BugInsertOrReplace(s) ==
    /\ signup[s] # None
    /\ InsertUser(signup[s], "user")
    /\ signup' = [signup EXCEPT ![s] = None]
    /\ UNCHANGED <<pc, job, cli, overlapped>>

\* UNIQUE(username) refuses a name taken since it was found free.
InsertAccount(s) ==
    /\ signup[s] # None
    /\ IF signup[s] \in registered THEN UNCHANGED rows ELSE InsertUser(signup[s], "user")
    /\ signup' = [signup EXCEPT ![s] = None]
    /\ UNCHANGED <<pc, job, cli, overlapped>>

-----------------------------------------------------------------------------
(* flask create-admin                                                      *)

LookUpAdminName(n) ==
    /\ cli[1] = "idle"
    /\ cli' = <<IF n \in registered THEN "promote" ELSE "insert", n>>
    /\ UNCHANGED <<rows, pc, job, signup, overlapped>>

PromoteExisting ==
    /\ cli[1] = "promote"
    /\ role' = [role EXCEPT ![cli[2]] = "admin"]
    /\ cli' = <<"idle", None>>
    /\ UNCHANGED <<registered, status, pc, job, signup, overlapped>>

InsertAdmin ==
    /\ cli[1] = "insert"
    /\ IF cli[2] \in registered THEN UNCHANGED rows ELSE InsertUser(cli[2], "admin")
    /\ cli' = <<"idle", None>>
    /\ UNCHANGED <<pc, job, signup, overlapped>>

-----------------------------------------------------------------------------
(* POST /admin/users/action                                                *)

\* Bug: an administrator may act on himself.
BugStartAction(w) ==
    /\ pc[w] = "idle"
    /\ \E a \in ActiveAdmins, t \in registered, x \in Actions :
         /\ job' = [job EXCEPT ![w] = [actor |-> a, target |-> t, action |-> x]]
         /\ pc' = [pc EXCEPT ![w] = IF x = "demote" THEN "count" ELSE "execute"]
    /\ overlapped' = (overlapped \/ \E v \in Workers \ {w} : pc[v] # "idle")
    /\ UNCHANGED <<rows, signup, cli>>

\* The actor is an active administrator and may not suspend or demote himself;
\* demotion counts the administrators first.
StartAction(w) ==
    /\ pc[w] = "idle"
    /\ \E a \in ActiveAdmins, t \in registered, x \in Actions :
         /\ t = a => x \notin {"dormant", "ban", "demote"}
         /\ job' = [job EXCEPT ![w] = [actor |-> a, target |-> t, action |-> x]]
         /\ pc' = [pc EXCEPT ![w] = IF x = "demote" THEN "count" ELSE "execute"]
    /\ overlapped' = (overlapped \/ \E v \in Workers \ {w} : pc[v] # "idle")
    /\ UNCHANGED <<rows, signup, cli>>

\* SELECT COUNT(*) of administrators: the last one is not demoted.
CountAdmins(w) ==
    /\ pc[w] = "count"
    /\ IF Cardinality(Admins) <= 1
       THEN pc' = [pc EXCEPT ![w] = "idle"] /\ job' = [job EXCEPT ![w] = None]
       ELSE pc' = [pc EXCEPT ![w] = "execute"] /\ UNCHANGED job
    /\ UNCHANGED <<rows, signup, cli, overlapped>>

\* Bug: the word the products table uses.
BugNewStatus(x, old) ==
    CASE x = "activate" -> "active"
      [] x = "dormant" -> "dormant"
      [] x = "ban" -> "blocked"
      [] OTHER -> old

NewStatus(x, old) ==
    CASE x = "activate" -> "active"
      [] x = "dormant" -> "dormant"
      [] x = "ban" -> "banned"
      [] OTHER -> old

NewRole(x, old) ==
    CASE x = "promote" -> "admin"
      [] x = "demote" -> "user"
      [] OTHER -> old

\* The UPDATE looks at nothing but the id of the target.
ExecuteAction(w) ==
    LET t == job[w].target
        x == job[w].action
    IN /\ pc[w] = "execute"
       /\ status' = [status EXCEPT ![t] = NewStatus(x, @)]
       /\ role' = [role EXCEPT ![t] = NewRole(x, @)]
       /\ pc' = [pc EXCEPT ![w] = "idle"]
       /\ job' = [job EXCEPT ![w] = None]
       /\ UNCHANGED <<registered, signup, cli, overlapped>>

\* The statement times out on the lock, or the thread dies.
AbandonAction(w) ==
    /\ pc[w] # "idle"
    /\ pc' = [pc EXCEPT ![w] = "idle"]
    /\ job' = [job EXCEPT ![w] = None]
    /\ UNCHANGED <<rows, signup, cli, overlapped>>

-----------------------------------------------------------------------------
(* Reports                                                                 *)

\* The threshold's UPDATE, at a moment of the reporters' choosing.
AutoDormant(n) ==
    /\ n \in registered
    /\ status[n] = "active" /\ role[n] # "admin"
    /\ status' = [status EXCEPT ![n] = "dormant"]
    /\ UNCHANGED <<registered, role, pc, job, signup, cli, overlapped>>

Next ==
    \/ \E s \in SignUps : FindNameFree(s) \/ InsertAccount(s)
    \/ \E n \in Names : LookUpAdminName(n) \/ AutoDormant(n)
    \/ PromoteExisting \/ InsertAdmin
    \/ \E w \in Workers : StartAction(w) \/ CountAdmins(w) \/ ExecuteAction(w)
                          \/ AbandonAction(w)

Spec == Init /\ [][Next]_vars

-----------------------------------------------------------------------------
(* Properties                                                              *)

\* As long as administrators' requests do not overlap, a site that has an
\* active administrator keeps one, whatever registrations, reports and the
\* command line do meanwhile (admin.py:84-102: the check on oneself and the
\* count together).
ActiveAdminSurvives ==
    [][ActiveAdmins # {} /\ ~overlapped' => ActiveAdmins' # {}]_vars

\* The admin role is lost only by the demotion of one administrator by
\* another, never by a registration that found the name free too early.
OnlyDemotionRemovesAdmins ==
    [][\A n \in Admins : role'[n] # "admin" =>
         \E w \in Workers :
            /\ pc[w] = "execute" /\ pc'[w] = "idle"
            /\ job[w].target = n /\ job[w].action = "demote"
            /\ job[w].actor # n]_vars

\* A site with an administrator is never without one (admin.py:98-102:
\* the last administrator cannot be demoted).
AdminRemains == [][Admins # {} => Admins' # {}]_vars
=============================================================================
