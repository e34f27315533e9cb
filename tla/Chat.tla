-------------------------------- MODULE Chat ---------------------------------
(***************************************************************************)
(* Chat (blueprints/chat.py, static/js/chat.js): messages to everybody and *)
(* between two users, over sockets and over the form of the direct page;   *)
(* the pages with the history; suspension meanwhile.                       *)
(*                                                                         *)
(* A request is one message: it is accepted, limited (ChatLimiter),        *)
(* stored, and sent to the sockets of a room one after the other.  Every   *)
(* event runs on a thread of its own (async_mode="threading").  A client   *)
(* is a browser tab: it loads a page with the history, and then opens a    *)
(* socket.                                                                 *)
(*                                                                         *)
(* Definitions named Bug... are deliberate mistakes: the properties are    *)
(* seen to fail when one replaces the definition it precedes.              *)
(***************************************************************************)
EXTENDS ChatLimiter, FiniteSets

CONSTANTS
    Clients,        \* browser tabs
    Owner,          \* the user who is logged in there
    View,           \* what a tab shows: All, or the partner of the direct page
    All,            \* the global room; recipient_id NULL
    HistoryLimit,   \* HISTORY_LIMIT
    MaxSuspensions  \* bound: how often a user is suspended

ASSUME OwnerAssumption == Owner \in [Clients -> Users]
ASSUME AudienceAssumption == All \notin Users
ASSUME ViewAssumption ==
    /\ View \in [Clients -> Users \cup {All}]
    /\ \A c \in Clients : View[c] # Owner[c]
ASSUME HistoryLimitAssumption == HistoryLimit \in Nat
ASSUME SuspensionsAssumption == MaxSuspensions \in Nat
ASSUME NotPostedAssumption == None \notin [from : Users, to : Users \cup {All}]

VARIABLES
    status,         \* users.status, as "active" or "blocked"
    stored,         \* messages: the requests whose row was inserted
    pc,             \* what each request does next
    job,            \* what each request was given
    rest,           \* the sockets that emit has still to send a message to
    own,            \* the socket a direct message came by, as long as it lives
    conn,           \* "closed", "page" (no socket yet), "joined" or "dropped"
    page,           \* the messages that came with the page of a tab
    received,       \* the messages its sockets received since
    suspensions,    \* how often a user was suspended
    grace,          \* history: requests in progress, but not stored, since before
                    \* somebody was suspended
    missed          \* history: what a tab cannot have, see LoadPage, Emit, Drop

requests == <<job, rest, own>>
tabs == <<conn, page, received, missed>>
chatVars == <<status, stored, pc, requests, tabs, suspensions, grace>>
vars == <<limiterVars, chatVars>>

Steps == {"new", "partner", "clock", "limit", "store", "emit", "send", "done"}

\* after: the requests that had finished before this one began (history).
Job == [from : Users, to : Users \cup {All}, socket : BOOLEAN, after : SUBSET Requests]

ChatTypeOK ==
    /\ status \in [Users -> {"active", "blocked"}]
    /\ stored \in SUBSET Requests
    /\ pc \in [Requests -> Steps]
    /\ job \in [Requests -> Job \cup {None}]
    /\ rest \in [Requests -> SUBSET Clients]
    /\ own \in [Requests -> SUBSET Clients]
    /\ conn \in [Clients -> {"closed", "page", "joined", "dropped"}]
    /\ page \in [Clients -> SUBSET Requests]
    /\ received \in [Clients -> Seq(Requests)]
    /\ suspensions \in 0 .. MaxSuspensions
    /\ grace \in SUBSET Requests
    /\ missed \in [Clients -> SUBSET Requests]

TypeOK == LimiterTypeOK /\ ChatTypeOK

Init ==
    /\ LimiterInit
    /\ status = [u \in Users |-> "active"]
    /\ stored = {}
    /\ pc = [r \in Requests |-> "new"]
    /\ job = [r \in Requests |-> None]
    /\ rest = [r \in Requests |-> {}]
    /\ own = [r \in Requests |-> {}]
    /\ conn = [c \in Clients |-> "closed"]
    /\ page = [c \in Clients |-> {}]
    /\ received = [c \in Clients |-> <<>>]
    /\ suspensions = 0
    /\ grace = {}
    /\ missed = [c \in Clients |-> {}]

Active(u) == status[u] = "active"

Goto(r, step) == pc' = [pc EXCEPT ![r] = step]

Finished(r) == pc[r] = "done"

\* Ends without a message.
GiveUp(r) ==
    /\ Goto(r, "done")
    /\ job' = [job EXCEPT ![r] = None]
    /\ own' = [own EXCEPT ![r] = {}]
    /\ grace' = grace \ {r}
    /\ UNCHANGED rest

Elements(s) == {s[i] : i \in DOMAIN s}

-----------------------------------------------------------------------------
(* A message, from the event or the form to the sockets of its room        *)

\* Whom a direct message may go to: not oneself.
Recipients(u) == Users \ {u}

\* A request of u is accepted with a valid payload.
Accept(r, u, to, socket) ==
    /\ pc[r] = "new"
    /\ job' = [job EXCEPT ![r] = [from |-> u, to |-> to, socket |-> socket,
                                  after |-> {q \in Requests : Finished(q)}]]
    /\ Goto(r, IF to = All THEN "clock" ELSE "partner")

\* Bug: the account that connected sends, whatever has become of it.
BugSocketEvent(r, c) ==
    /\ conn[c] = "joined"
    /\ \E to \in {All} \cup Recipients(Owner[c]) :
        /\ Accept(r, Owner[c], to, TRUE)
        /\ own' = [own EXCEPT ![r] = IF to = All THEN {} ELSE {c}]
    /\ UNCHANGED <<limiterVars, status, stored, rest, tabs, suspensions, grace>>

\* global_message and private_message: the user of the socket's session is read
\* again.  (If he is not active the server drops the socket, see Drop.)
SocketEvent(r, c) ==
    /\ conn[c] = "joined"
    /\ Active(Owner[c])
    /\ \E to \in {All} \cup Recipients(Owner[c]) :
        /\ Accept(r, Owner[c], to, TRUE)
        /\ own' = [own EXCEPT ![r] = IF to = All THEN {} ELSE {c}]
    /\ UNCHANGED <<limiterVars, status, stored, rest, tabs, suspensions, grace>>

\* POST /messages/<user_id>: enforce_session_policy has let the user in.
SubmitForm(r, u) ==
    /\ Active(u)
    /\ \E to \in Recipients(u) : Accept(r, u, to, FALSE)
    /\ UNCHANGED <<limiterVars, status, stored, rest, own, tabs, suspensions, grace>>

\* The partner is read.
FindPartner(r) ==
    /\ pc[r] = "partner"
    /\ Active(job[r].to)
    /\ Goto(r, "clock")
    /\ UNCHANGED <<limiterVars, status, stored, requests, tabs, suspensions, grace>>

NoPartner(r) ==
    /\ pc[r] = "partner"
    /\ ~Active(job[r].to)
    /\ GiveUp(r)
    /\ UNCHANGED <<limiterVars, status, stored, tabs, suspensions>>

\* message_limiter.allow begins.
EnterLimiter(r) ==
    /\ pc[r] = "clock"
    /\ ReadClock(r, job[r].from)
    /\ Goto(r, "limit")
    /\ UNCHANGED <<status, stored, requests, tabs, suspensions, grace>>

\* Bug: the message is sent first, and then stored.
BugAfter(step, j) ==
    CASE step = "limit" -> IF j.socket THEN "emit" ELSE "store"
      [] step = "store" -> "done"
      [] step = "send" -> "store"

\* The order of the handlers: store, then send.  The form only stores.
After(step, j) ==
    CASE step = "limit" -> "store"
      [] step = "store" -> IF j.socket THEN "emit" ELSE "done"
      [] step = "send" -> "done"

Admit(r) ==
    /\ pc[r] = "limit"
    /\ Allow(r)
    /\ Goto(r, After("limit", job[r]))
    /\ UNCHANGED <<status, stored, requests, tabs, suspensions, grace>>

TurnAway(r) ==
    /\ pc[r] = "limit"
    /\ Refuse(r)
    /\ GiveUp(r)
    /\ UNCHANGED <<status, stored, tabs, suspensions>>

\* _store_message
StoreMessage(r) ==
    /\ pc[r] = "store"
    /\ stored' = stored \cup {r}
    /\ Goto(r, After("store", job[r]))
    /\ grace' = grace \ {r}
    /\ UNCHANGED <<limiterVars, status, requests, tabs, suspensions>>

\* The INSERT times out on SQLite's lock: the handler ends with the exception.
LockTimeout(r) ==
    /\ pc[r] = "store"
    /\ GiveUp(r)
    /\ UNCHANGED <<limiterVars, status, stored, tabs, suspensions>>

\* Bug: everything goes to the global room.
BugRoom(to) == {c \in Clients : conn[c] = "joined"}

\* The room: GLOBAL_ROOM, or the room named by the recipient's id.
Room(to) == {c \in Clients : conn[c] = "joined" /\ to \in {All, Owner[c]}}

\* Bug: sending is left to the background.
BugEmit(r) ==
    /\ pc[r] = "emit"
    /\ rest' = [rest EXCEPT ![r] = Room(job[r].to)]
    /\ missed' = [c \in Clients |->
                    IF conn[c] \in {"page", "dropped"} /\ job[r].to \in {All, Owner[c]}
                    THEN missed[c] \cup {r} ELSE missed[c]]
    /\ Goto(r, "done")
    /\ UNCHANGED <<limiterVars, status, stored, job, own, conn, page, received, suspensions, grace>>

\* emit(..., to=room) takes the members of the room as they are now; a tab that
\* has its page and no socket misses the message.
Emit(r) ==
    /\ pc[r] = "emit"
    /\ rest' = [rest EXCEPT ![r] = Room(job[r].to)]
    /\ missed' = [c \in Clients |->
                    IF conn[c] \in {"page", "dropped"} /\ job[r].to \in {All, Owner[c]}
                    THEN missed[c] \cup {r} ELSE missed[c]]
    /\ Goto(r, "send")
    /\ UNCHANGED <<limiterVars, status, stored, job, own, conn, page, received, suspensions, grace>>

Deliver(r, cs) ==
    received' = [c \in Clients |-> IF c \in cs THEN Append(received[c], r) ELSE received[c]]

\* The message goes into one socket of the room.
SendTo(r, c) ==
    /\ c \in rest[r]
    /\ rest' = [rest EXCEPT ![r] = @ \ {c}]
    /\ Deliver(r, {c})
    /\ UNCHANGED <<limiterVars, status, stored, pc, job, own, conn, page, missed, suspensions, grace>>

\* A direct message also goes to the socket it came by: emit without a room.
Echo(r) ==
    /\ pc[r] = "send"
    /\ rest[r] = {}
    /\ Deliver(r, own[r])
    /\ Goto(r, After("send", job[r]))
    /\ UNCHANGED <<limiterVars, status, stored, requests, conn, page, missed, suspensions, grace>>

-----------------------------------------------------------------------------
(* Tabs                                                                    *)

\* The conversation a tab shows: everybody's, or that of two users.
OnPage(m, c) ==
    IF View[c] = All THEN job[m].to = All
    ELSE {job[m].from, job[m].to} = {Owner[c], View[c]}

\* global_chat leaves out the messages of users who are not active.
Hidden(m, c) == View[c] = All /\ ~Active(job[m].from)

\* The rows a page may show: the newest HistoryLimit of them.  created_at counts
\* seconds and is taken before the INSERT: which ones are the newest is left open.
Histories(c) ==
    LET rows == {m \in stored : OnPage(m, c) /\ ~Hidden(m, c)}
    IN {shown \in SUBSET rows :
            Cardinality(shown) = IF Cardinality(rows) <= HistoryLimit THEN Cardinality(rows)
                                 ELSE HistoryLimit}

\* GET /chat or /messages/<user_id>: what is hidden, or too old, stays out.
LoadPage(c) ==
    /\ conn[c] = "closed"
    /\ Active(Owner[c])
    /\ conn' = [conn EXCEPT ![c] = "page"]
    /\ \E shown \in Histories(c) :
         /\ page' = [page EXCEPT ![c] = shown]
         /\ missed' = [missed EXCEPT ![c] = {m \in stored : OnPage(m, c)} \ shown]
    /\ UNCHANGED <<limiterVars, status, stored, pc, requests, received, suspensions, grace>>

\* Bug: another word for the state of a connection.
BugJoin(c) ==
    /\ conn[c] \in {"page", "dropped"}
    /\ Active(Owner[c])
    /\ conn' = [conn EXCEPT ![c] = "open"]
    /\ UNCHANGED <<limiterVars, status, stored, pc, requests, page, received, missed, suspensions, grace>>

\* handle_connect; after a lost connection without a new page.
Join(c) ==
    /\ conn[c] \in {"page", "dropped"}
    /\ Active(Owner[c])
    /\ conn' = [conn EXCEPT ![c] = "joined"]
    /\ UNCHANGED <<limiterVars, status, stored, pc, requests, page, received, missed, suspensions, grace>>

\* The connection is lost, or the server drops it since the user is not active:
\* no message that is on its way finds this socket any more.  (A tab that leaves
\* the page is the same without a Join; a page that is loaded again is another
\* tab.)
Drop(c) ==
    /\ conn[c] = "joined"
    /\ conn' = [conn EXCEPT ![c] = "dropped"]
    /\ missed' = [missed EXCEPT ![c] = @ \cup {r \in Requests : c \in rest[r]}]
    /\ rest' = [r \in Requests |-> rest[r] \ {c}]
    /\ own' = [r \in Requests |-> own[r] \ {c}]
    /\ UNCHANGED <<limiterVars, status, stored, pc, job, page, received, suspensions, grace>>

-----------------------------------------------------------------------------
(* Administrators, time                                                    *)

\* user_action, or the report threshold.
Suspend(u) ==
    /\ suspensions < MaxSuspensions
    /\ Active(u)
    /\ suspensions' = suspensions + 1
    /\ status' = [status EXCEPT ![u] = "blocked"]
    /\ grace' = grace \cup {r \in Requests : pc[r] \in {"partner", "clock", "limit", "store"}}
    /\ UNCHANGED <<limiterVars, stored, pc, requests, tabs>>

Activate(u) ==
    /\ ~Active(u)
    /\ status' = [status EXCEPT ![u] = "active"]
    /\ UNCHANGED <<limiterVars, stored, pc, requests, tabs, suspensions, grace>>

TimePasses == Tick /\ UNCHANGED chatVars

HandlerStep(r) ==
    \/ FindPartner(r) \/ NoPartner(r) \/ EnterLimiter(r) \/ Admit(r) \/ TurnAway(r)
    \/ StoreMessage(r) \/ LockTimeout(r) \/ Emit(r) \/ Echo(r)
    \/ \E c \in Clients : SendTo(r, c)

Next ==
    \/ \E r \in Requests :
        \/ \E c \in Clients : SocketEvent(r, c)
        \/ \E u \in Users : SubmitForm(r, u)
        \/ HandlerStep(r)
    \/ \E c \in Clients : LoadPage(c) \/ Join(c) \/ Drop(c)
    \/ \E u \in Users : Suspend(u) \/ Activate(u)
    \/ TimePasses

Spec == Init /\ [][Next]_vars

-----------------------------------------------------------------------------
(* Properties                                                              *)

\* A tab only ever shows messages that are stored, and only to whom they
\* concern: the rooms and the pages keep direct messages between the two.
Promise == INSTANCE Channel WITH
    Messages <- Requests,
    posted <- [r \in Requests |->
                 IF r \in stored THEN [from |-> job[r].from, to |-> job[r].to] ELSE None],
    shown <- [c \in Clients |-> page[c] \cup Elements(received[c])]

Implements == Promise!ChannelSpec

\* Messages of threads that run side by side may arrive in any order, and in
\* another one than the page shows (chat.py:199).  But a message that was sent
\* after another was done with comes after it on every socket, and none comes
\* twice, although a direct message is sent to two rooms (chat.py:250).
OrderKept ==
    \A c \in Clients : \A i, j \in DOMAIN received[c] :
        i < j => received[c][j] \notin {received[c][i]} \cup job[received[c][i]].after

\* Messages of the tab's conversation that are sent to its socket.
Concerns(r, c) ==
    /\ job[r].socket
    /\ OnPage(r, c)
    /\ job[r].to \in {All, Owner[c]} \/ c \in own[r]

\* A tab with a socket has every message to its user that came by socket and is
\* done with, on the page or received, but for what the page leaves out and what
\* was sent while it had no socket (chat.js:64): between the page and the socket nothing is lost because
\* a message is stored before it is sent (chat.py:199-200).  The same is true
\* of the socket the sender used.
ScreenComplete ==
    \A c \in Clients : conn[c] = "joined" =>
        \A r \in stored : (Finished(r) /\ Concerns(r, c)) =>
            r \in page[c] \cup Elements(received[c]) \cup missed[c]

\* After a suspension nothing is stored from the suspended user or for him, but
\* for requests that were in progress when somebody was suspended
\* (chat.py:157, chat.py:228; SECURITY_CHECKLIST.md:62).
SuspendedSilenced ==
    [][\A r \in stored' \ (stored \cup grace) :
        \A u \in {job[r].from, job[r].to} \ {All} : Active(u)]_vars
=============================================================================
