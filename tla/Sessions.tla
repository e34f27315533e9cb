------------------------------ MODULE Sessions -------------------------------
(***************************************************************************)
(* The sessions of one account (security.py, blueprints/auth.py, the hook  *)
(* of app.py): logging in and out, the checks before every request, the    *)
(* password asked again for sensitive pages, and a change of the password. *)
(*                                                                         *)
(* The server keeps nothing: a session is a signed cookie.  A request      *)
(* works on the copy it was sent with, and its answer puts that copy back  *)
(* into the browser, whatever other answers put there meanwhile.           *)
(*                                                                         *)
(* auth_at and password_changed_at are compared with each other only, so   *)
(* both are counted in password changes: a time is the number of changes   *)
(* that had taken their time stamp by then.                                *)
(*                                                                         *)
(* Definitions named Bug... are deliberate mistakes: the properties are    *)
(* seen to fail when one replaces the definition it precedes.              *)
(***************************************************************************)
EXTENDS Integers

CONSTANTS
    Browsers,
    Requests,       \* threads that serve requests, one after the other
    Idle,           \* config.IDLE_TIMEOUT_MINUTES
    ReauthWindow,   \* config.REAUTH_WINDOW_MINUTES
    Lifetime,       \* config.PERMANENT_SESSION_LIFETIME
    MaxTime,        \* bound: how far the clock runs
    LastTyping,     \* bound: until when passwords are typed
    MaxChanges,     \* bound: how often a new password is hashed and stamped
    None,           \* no session
    Keep            \* an answer that leaves the cookie alone

ASSUME IdleAssumption == Idle \in Nat
ASSUME ReauthWindowAssumption == ReauthWindow \in Nat
ASSUME LifetimeAssumption == Lifetime \in Nat
ASSUME NoSessionAssumption == None \notin Nat

\* As configured; an idle session would otherwise end by its signature.
ASSUME IdleWithinLifetimeAssumption == Idle <= Lifetime

VARIABLES
    clock,          \* minutes
    status,         \* users.status, as "active" or "blocked"
    password,       \* users.password_hash: the change it comes from
    changedAt,      \* users.password_changed_at
    stamps,         \* how many changes have taken their time stamp
    cookie,         \* the session in each browser
    handshake,      \* when the cookie was signed that a chat socket came with
    pc,             \* what each request does next
    job,            \* the kind, the browser, the session of each request
    answer,         \* the cookie that its answer sets
    served,         \* history: when a request of the browser was last let in
    proved,         \* history: when the password was last typed again there
    answered,       \* history: when the last session was sent to the browser
    calm,           \* history: requests came one by one, and all answers arrived
    quiet           \* history: logged out while nothing else was in progress

row == <<status, password, changedAt, stamps>>
history == <<served, proved, answered, calm, quiet>>
vars == <<clock, row, cookie, handshake, pc, job, answer, history>>

\* typed: the password the login was verified with; raced: a change of the
\* password was under way when the session began; began: auth_at in minutes.
\* (These three are history.)
Session == [auth : Nat, seen : Nat, reauth : Nat \cup {None}, signed : Nat,
            typed : Nat, raced : BOOLEAN, began : Nat]

ASSUME CookieValuesAssumption == None \notin Session /\ Keep \notin Session \cup {None}

\* modified: the answer sets the cookie (session.modified); read: the password
\* as the login read it, or the time stamp of a change; left: the request has
\* logged out.  What a request asks for is left open until it is served.
Job == [browser : Browsers, session : Session \cup {None}, modified : BOOLEAN,
        read : Nat, left : BOOLEAN]

TypeOK ==
    /\ clock \in Nat
    /\ status \in {"active", "blocked"}
    /\ password \in Nat
    /\ changedAt \in Nat
    /\ stamps \in Nat
    /\ cookie \in [Browsers -> Session \cup {None}]
    /\ handshake \in [Browsers -> Nat \cup {None}]
    /\ pc \in [Requests -> {"idle", "enforce", "handle", "start", "commit", "answered"}]
    /\ job \in [Requests -> Job \cup {None}]
    /\ answer \in [Requests -> Session \cup {None, Keep}]
    /\ served \in [Browsers -> Nat \cup {None}]
    /\ proved \in [Browsers -> Nat \cup {None}]
    /\ answered \in [Browsers -> Nat \cup {None}]
    /\ calm \in [Browsers -> BOOLEAN]
    /\ quiet \in [Browsers -> BOOLEAN]

Init ==
    /\ clock = 0
    /\ status = "active"
    /\ password = 0
    /\ changedAt = 0
    /\ stamps = 0
    /\ cookie = [b \in Browsers |-> None]
    /\ handshake = [b \in Browsers |-> None]
    /\ pc = [r \in Requests |-> "idle"]
    /\ job = [r \in Requests |-> None]
    /\ answer = [r \in Requests |-> Keep]
    /\ served = [b \in Browsers |-> None]
    /\ proved = [b \in Browsers |-> None]
    /\ answered = [b \in Browsers |-> None]
    /\ calm = [b \in Browsers |-> TRUE]
    /\ quiet = [b \in Browsers |-> TRUE]

Browser(r) == job[r].browser
InProgress(b) == {r \in Requests : pc[r] # "idle" /\ Browser(r) = b}

-----------------------------------------------------------------------------
(* The checks before a request                                             *)

\* The browser sends its cookie as it is now.
Send(r, b) ==
    /\ pc[r] = "idle"
    /\ pc' = [pc EXCEPT ![r] = "enforce"]
    /\ job' = [job EXCEPT ![r] = [browser |-> b, session |-> cookie[b], modified |-> FALSE,
                                  read |-> 0, left |-> FALSE]]
    /\ calm' = [calm EXCEPT ![b] = @ /\ InProgress(b) = {}]
    /\ UNCHANGED <<clock, row, cookie, handshake, answer, served, proved, answered, quiet>>

\* Flask reads a cookie only if its signature is not too old.
Readable(s) == s # None /\ clock - s.signed <= Lifetime

\* Bug: the time stamp of the change is not looked at.
BugAccepted(s) == Readable(s) /\ clock - s.seen <= Idle /\ status = "active"

\* What enforce_session_policy lets pass.
Accepted(s) ==
    /\ Readable(s)
    /\ clock - s.seen <= Idle
    /\ s.auth >= changedAt
    /\ status = "active"

\* Bug: last_seen stays what it was at the login.
BugRefreshed(s) == s

Refreshed(s) == [s EXCEPT !.seen = clock]

\* The request goes on with the session, or without: one that is refused is
\* cleared, which the answer tells the browser.
Enforce(r) ==
    LET s == job[r].session
    IN /\ pc[r] = "enforce"
       /\ pc' = [pc EXCEPT ![r] = "handle"]
       /\ job' = [job EXCEPT ![r].session = IF Accepted(s) THEN Refreshed(s) ELSE None,
                             ![r].modified = Readable(s)]
       /\ served' = [served EXCEPT ![Browser(r)] = IF Accepted(s) THEN clock ELSE @]
       /\ UNCHANGED <<clock, row, cookie, handshake, answer, proved, answered, calm, quiet>>

-----------------------------------------------------------------------------
(* The handlers, each ending with an answer                                *)

\* The answer carries the session as it is now, signed now.  Without a session
\* it deletes the cookie, or replaces it by one without user_id, if the session
\* was modified; otherwise only if a message or a token has to be remembered.
Reply(r, s, modified) ==
    /\ pc' = [pc EXCEPT ![r] = "answered"]
    /\ IF s # None
       THEN /\ answer' = [answer EXCEPT ![r] = [s EXCEPT !.signed = clock]]
            /\ answered' = [answered EXCEPT ![Browser(r)] = clock]
       ELSE /\ \E a \in {None} \cup (IF modified THEN {} ELSE {Keep}) :
                 answer' = [answer EXCEPT ![r] = a]
            /\ UNCHANGED answered

\* What is remembered of a request until its answer arrives.
Done(r, left) ==
    job' = [job EXCEPT ![r] = [browser |-> Browser(r), session |-> None, modified |-> FALSE,
                               read |-> 0, left |-> left]]

\* reauth_fresh
Fresh(s) == s.reauth # None /\ clock - s.reauth <= ReauthWindow

\* A page, a redirect to the login or to /reauth, or a form with an error.
ServePage(r) ==
    /\ pc[r] = "handle"
    /\ Reply(r, job[r].session, job[r].modified)
    /\ Done(r, FALSE)
    /\ UNCHANGED <<clock, row, cookie, handshake, served, proved, calm, quiet>>

\* admin_required and reauth_required let the request pass.
ServeSensitive(r) ==
    /\ pc[r] = "handle"
    /\ job[r].session # None /\ Fresh(job[r].session)
    /\ Reply(r, job[r].session, job[r].modified)
    /\ Done(r, FALSE)
    /\ UNCHANGED <<clock, row, cookie, handshake, served, proved, calm, quiet>>

\* The row of the account is read, and the right password was typed.
VerifyLogin(r) ==
    /\ pc[r] = "handle"
    /\ job[r].session = None
    /\ clock <= LastTyping
    /\ status = "active"
    /\ job' = [job EXCEPT ![r].read = password]
    /\ pc' = [pc EXCEPT ![r] = "start"]
    /\ quiet' = [quiet EXCEPT ![Browser(r)] = FALSE]
    /\ UNCHANGED <<clock, row, cookie, handshake, answer, served, proved, answered, calm>>

Changing == \E q \in Requests : pc[q] = "commit"

\* Bug: the password at the login counts for sensitive pages, too.
BugNewSession(typed) ==
    [auth |-> stamps, seen |-> clock, reauth |-> clock, signed |-> clock,
     typed |-> typed, raced |-> Changing \/ typed # password, began |-> clock]

\* start_user_session
NewSession(typed) ==
    [auth |-> stamps, seen |-> clock, reauth |-> None, signed |-> clock,
     typed |-> typed, raced |-> Changing \/ typed # password, began |-> clock]

StartSession(r) ==
    /\ pc[r] = "start"
    /\ Reply(r, NewSession(job[r].read), TRUE)
    /\ Done(r, FALSE)
    /\ served' = [served EXCEPT ![Browser(r)] = clock]
    /\ calm' = [calm EXCEPT ![Browser(r)] = InProgress(Browser(r)) = {r}]
    /\ UNCHANGED <<clock, row, cookie, handshake, proved, quiet>>

\* mark_reauth
MarkedReauth(s) == [s EXCEPT !.reauth = clock]

\* The right password was typed again, on the page for it or with a transfer.
Reauth(r) ==
    /\ pc[r] = "handle"
    /\ job[r].session # None
    /\ clock <= LastTyping
    /\ Reply(r, MarkedReauth(job[r].session), TRUE)
    /\ Done(r, FALSE)
    /\ proved' = [proved EXCEPT ![Browser(r)] = clock]
    /\ UNCHANGED <<clock, row, cookie, handshake, served, calm, quiet>>

\* Bug: only a session that passed the checks is ended.
BugLogout(r) ==
    /\ pc[r] = "handle"
    /\ Reply(r, None, FALSE)
    /\ Done(r, TRUE)
    /\ UNCHANGED <<clock, row, cookie, handshake, served, proved, calm, quiet>>

\* end_user_session: the cookie is replaced in any case.
Logout(r) ==
    /\ pc[r] = "handle"
    /\ Reply(r, None, TRUE)
    /\ Done(r, TRUE)
    /\ UNCHANGED <<clock, row, cookie, handshake, served, proved, calm, quiet>>

\* The right password was typed; the new one is hashed, then now_iso_micro.
StampChange(r) ==
    /\ pc[r] = "handle"
    /\ job[r].session # None
    /\ clock <= LastTyping
    /\ stamps < MaxChanges
    /\ stamps' = stamps + 1
    /\ job' = [job EXCEPT ![r].read = stamps + 1]
    /\ pc' = [pc EXCEPT ![r] = "commit"]
    /\ UNCHANGED <<clock, status, password, changedAt, cookie, handshake, answer, history>>

\* The UPDATE; the session ends.
CommitChange(r) ==
    /\ pc[r] = "commit"
    /\ password' = job[r].read
    /\ changedAt' = job[r].read
    /\ Reply(r, None, TRUE)
    /\ Done(r, FALSE)
    /\ UNCHANGED <<clock, status, stamps, cookie, handshake, served, proved, calm, quiet>>

\* A statement times out on SQLite's lock: the UPDATE of a change, or one that a
\* login executes before its session starts.  An error page; the session, or
\* none, goes on.
LockTimeout(r) ==
    /\ pc[r] \in {"start", "commit"}
    /\ Reply(r, job[r].session, job[r].modified)
    /\ Done(r, FALSE)
    /\ UNCHANGED <<clock, row, cookie, handshake, served, proved, calm, quiet>>

-----------------------------------------------------------------------------
(* Answers                                                                 *)

\* The browser takes the cookie of whichever answer comes.
Receive(r) ==
    LET b == Browser(r)
    IN /\ pc[r] = "answered"
       /\ cookie' = [cookie EXCEPT ![b] = IF answer[r] = Keep THEN @ ELSE answer[r]]
       /\ quiet' = [quiet EXCEPT ![b] = @ \/ (job[r].left /\ InProgress(b) = {r})]
       /\ pc' = [pc EXCEPT ![r] = "idle"]
       /\ job' = [job EXCEPT ![r] = None]
       /\ answer' = [answer EXCEPT ![r] = Keep]
       /\ UNCHANGED <<clock, row, handshake, served, proved, answered, calm>>

\* The connection breaks before the answer arrives.
Lose(r) ==
    /\ pc[r] = "answered"
    /\ calm' = [calm EXCEPT ![Browser(r)] = FALSE]
    /\ pc' = [pc EXCEPT ![r] = "idle"]
    /\ job' = [job EXCEPT ![r] = None]
    /\ answer' = [answer EXCEPT ![r] = Keep]
    /\ UNCHANGED <<clock, row, cookie, handshake, served, proved, answered, quiet>>

-----------------------------------------------------------------------------
(* The chat socket; administrators; time                                   *)

\* _authenticated_user: the handshake's cookie is read for every event, without
\* the checks before a request.
Authenticated(signed) == signed # None /\ clock - signed <= Lifetime /\ status = "active"

\* Bug: the socket's session counts from the connection.
BugConnect(b) ==
    /\ handshake[b] = None
    /\ cookie[b] # None
    /\ Authenticated(cookie[b].signed)
    /\ handshake' = [handshake EXCEPT ![b] = clock]
    /\ UNCHANGED <<clock, row, cookie, pc, job, answer, history>>

\* handle_connect, with the cookie the browser has now.
Connect(b) ==
    /\ handshake[b] = None
    /\ cookie[b] # None
    /\ Authenticated(cookie[b].signed)
    /\ handshake' = [handshake EXCEPT ![b] = cookie[b].signed]
    /\ UNCHANGED <<clock, row, cookie, pc, job, answer, history>>

\* The tab leaves, the connection breaks, or an event is refused.
Disconnect(b) ==
    /\ handshake[b] # None
    /\ handshake' = [handshake EXCEPT ![b] = None]
    /\ UNCHANGED <<clock, row, cookie, pc, job, answer, history>>

\* Bug: a word the users table does not know.
BugSuspend ==
    /\ status = "active"
    /\ status' = "suspended"
    /\ UNCHANGED <<clock, password, changedAt, stamps, cookie, handshake, pc, job, answer, history>>

Suspend ==
    /\ status = "active"
    /\ status' = "blocked"
    /\ UNCHANGED <<clock, password, changedAt, stamps, cookie, handshake, pc, job, answer, history>>

Activate ==
    /\ status = "blocked"
    /\ status' = "active"
    /\ UNCHANGED <<clock, password, changedAt, stamps, cookie, handshake, pc, job, answer, history>>

Tick ==
    /\ clock < MaxTime
    /\ clock' = clock + 1
    /\ UNCHANGED <<row, cookie, handshake, pc, job, answer, history>>

Next ==
    \/ \E r \in Requests :
        \/ \E b \in Browsers : Send(r, b)
        \/ Enforce(r)
        \/ ServePage(r) \/ ServeSensitive(r) \/ Reauth(r) \/ Logout(r)
        \/ VerifyLogin(r) \/ StartSession(r)
        \/ StampChange(r) \/ CommitChange(r) \/ LockTimeout(r)
        \/ Receive(r) \/ Lose(r)
    \/ \E b \in Browsers : Connect(b) \/ Disconnect(b)
    \/ Suspend \/ Activate \/ Tick

Spec == Init /\ [][Next]_vars

-----------------------------------------------------------------------------
(* Properties                                                              *)

\* A request is let in only with a session that began with the password as it
\* is now (security.py:156), unless the login and a change ran side by side:
\* the login verifies the old password, and starts the session after the change
\* took its time stamp (auth.py:86, auth.py:118, auth.py:226).
PasswordChangeRevokes ==
    [][\A r \in Requests :
        (pc[r] = "enforce" /\ pc'[r] = "handle" /\ job'[r].session # None) =>
            job[r].session.typed = password \/ job[r].session.raced]_vars

\* A request is let in only within the idle time after the last one that was.
\* Within the lifetime that the documents give a session after its login
\* (SECURITY_CHECKLIST.md:19), and as long as requests come one by one and all
\* answers arrive, it is refused only after the idle time, or if the account was
\* suspended or its password changed: no answer puts an older last_seen back
\* (security.py:143).
IdleTimeKept ==
    [][\A r \in Requests : (pc[r] = "enforce" /\ pc'[r] = "handle") =>
        LET b == Browser(r)
            s == job[r].session
            within == served[b] # None /\ clock - served[b] <= Idle
        IN IF job'[r].session # None THEN within
           ELSE (s # None /\ calm[b] /\ within /\ clock - s.began <= Lifetime) =>
                    status # "active" \/ s.typed # password \/ s.raced]_vars

\* A sensitive page is shown only if the password was typed again in this
\* browser within the window (security.py:230), although answers put old
\* sessions back: the login does not count (security.py:123).
ReauthEarned ==
    [][\A r \in Requests : ServeSensitive(r) =>
        LET b == Browser(r)
        IN proved[b] # None /\ clock - proved[b] <= ReauthWindow]_vars

\* After a logout during which nothing else was in progress, no session comes
\* back without a login: not from the browser, and not from an answer that was
\* under way (auth.py:131).
LogoutHolds ==
    \A b \in Browsers : quiet[b] =>
        /\ cookie[b] = None
        /\ \A r \in InProgress(b) :
             job[r].session = None /\ answer[r] \in {None, Keep}

\* A socket outlives the logout and a change of the password, but not the
\* account's suspension, and not the lifetime after the last answer that carried
\* a session (chat.py:157).
SocketBounded ==
    \A b \in Browsers : Authenticated(handshake[b]) =>
        /\ status = "active"
        /\ answered[b] # None /\ clock - answered[b] <= Lifetime
=============================================================================
