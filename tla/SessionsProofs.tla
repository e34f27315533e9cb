---------------------------- MODULE SessionsProofs ----------------------------
(***************************************************************************)
(* Proofs about Sessions: for any browsers and threads, any order of the   *)
(* answers, and a clock and a number of changes that run as far as they    *)
(* like.                                                                   *)
(***************************************************************************)
EXTENDS Sessions, TLAPS

Handling == {"handle", "start", "commit"}

\* The time stamps of changes are handed out in turn; the password and its time
\* stamp are written together.
ChangeInv ==
    /\ password = changedAt
    /\ changedAt <= stamps
    /\ \A r \in Requests :
        /\ pc[r] \in {"start", "commit"} => job[r].read <= stamps
        /\ pc[r] = "commit" => job[r].session # None

\* What a request is made of.
RequestInv ==
    \A r \in Requests :
        /\ pc[r] # "idle" => job[r] \in Job
        /\ pc[r] # "answered" => answer[r] = Keep
        /\ pc[r] = "answered" => job[r].session = None
        /\ (pc[r] = "answered" /\ job[r].left) => answer[r] = None

\* No history time lies in the future.
HistoryInv ==
    \A b \in Browsers :
        /\ served[b] # None => served[b] <= clock
        /\ proved[b] # None => proved[b] <= clock
        /\ answered[b] # None => answered[b] <= clock

\* What is true of a session s of the browser b, wherever a copy of it is kept.
Sound(s, b) ==
    /\ answered[b] # None /\ s.signed <= answered[b]
    /\ served[b] # None /\ s.seen <= served[b]
    /\ s.reauth # None => proved[b] # None /\ s.reauth <= proved[b]
    /\ s.typed <= s.auth /\ s.auth <= stamps
    /\ ~s.raced =>
        /\ s.typed = password \/ s.auth < changedAt
        /\ \A q \in Requests : pc[q] = "commit" => s.auth < job[q].read

\* All copies: in the browser, on the server, on the way back, and what the
\* socket keeps of one.
SessionInv ==
    /\ \A b \in Browsers :
        /\ cookie[b] # None => Sound(cookie[b], b) /\ cookie[b].seen <= cookie[b].signed
        /\ handshake[b] # None => answered[b] # None /\ handshake[b] <= answered[b]
    /\ \A r \in Requests :
        /\ (pc[r] # "idle" /\ job[r].session # None) =>
            /\ Sound(job[r].session, Browser(r))
            /\ pc[r] = "enforce" => job[r].session.seen <= job[r].session.signed
        /\ answer[r] \notin {None, Keep} =>
            Sound(answer[r], Browser(r)) /\ answer[r].seen <= answer[r].signed

\* After a quiet logout nobody has a session, and nobody is logging in.
QuietInv ==
    /\ LogoutHolds
    /\ \A r \in Requests : pc[r] = "start" => ~quiet[Browser(r)]

\* The session was refreshed by the last request that was let in.
Current(s, b) == s # None => s.seen = served[b]

\* As long as requests come one by one and answers arrive, the browser holds,
\* or is about to get, the session as the last request left it.
CalmInv ==
    \A b \in Browsers : calm[b] =>
        /\ \A q, r \in InProgress(b) : q = r
        /\ InProgress(b) = {} => Current(cookie[b], b)
        /\ \A r \in InProgress(b) :
            /\ pc[r] = "enforce" => job[r].session = cookie[b] /\ Current(cookie[b], b)
            /\ pc[r] \in Handling =>
                /\ Current(job[r].session, b)
                /\ (job[r].session = None /\ ~job[r].modified) => Current(cookie[b], b)
            /\ pc[r] = "answered" =>
                IF answer[r] = Keep THEN Current(cookie[b], b) ELSE Current(answer[r], b)

Inv ==
    /\ TypeOK
    /\ ChangeInv
    /\ RequestInv
    /\ HistoryInv
    /\ SessionInv
    /\ QuietInv
    /\ CalmInv
-----------------------------------------------------------------------------

(* The cookie values of the model are told apart. *)
LEMMA Values ==
    /\ None \notin Session
    /\ Keep \notin Session
    /\ Keep # None
  BY CookieValuesAssumption

(* An answer touches its own request only; it carries the session s, signed
   now, or takes the cookie away, or leaves it alone. *)
Answers(r, s, m, left) ==
    /\ pc' \in [Requests -> {"idle", "enforce", "handle", "start", "commit", "answered"}]
    /\ job' \in [Requests -> Job \cup {None}]
    /\ answer' \in [Requests -> Session \cup {None, Keep}]
    /\ answered' \in [Browsers -> Nat \cup {None}]
    /\ Browser(r) \in Browsers
    /\ pc'[r] = "answered"
    /\ job'[r] \in Job
    /\ job'[r].browser = Browser(r)
    /\ job'[r].session = None
    /\ job'[r].left = left
    /\ \A q \in Requests \ {r} :
         pc'[q] = pc[q] /\ job'[q] = job[q] /\ answer'[q] = answer[q]
    /\ \A b \in Browsers \ {Browser(r)} : answered'[b] = answered[b]
    /\ s = None => /\ answered' = answered
                   /\ answer'[r] \in {None, Keep}
                   /\ m => answer'[r] = None
    /\ s # None => /\ answered'[Browser(r)] = clock
                   /\ answer'[r] \in Session
                   /\ answer'[r].signed = clock
                   /\ answer'[r].auth = s.auth
                   /\ answer'[r].seen = s.seen
                   /\ answer'[r].reauth = s.reauth
                   /\ answer'[r].typed = s.typed
                   /\ answer'[r].raced = s.raced

(* Lemma: what Reply and Done do together. *)
LEMMA Replied ==
    ASSUME TypeOK, NEW r \in Requests, job[r] \in Job,
           NEW s \in Session \cup {None}, NEW m \in BOOLEAN, NEW left \in BOOLEAN,
           Reply(r, s, m), Done(r, left)
    PROVE  Answers(r, s, m, left)
<1>1. Browser(r) \in Browsers
  BY DEF Job, Browser
<1>2. pc' = [pc EXCEPT ![r] = "answered"]
  BY DEF Reply
<1>3. PICK j \in Job : /\ job' = [job EXCEPT ![r] = j]
                       /\ j.browser = Browser(r) /\ j.session = None /\ j.left = left
  <2> DEFINE j == [browser |-> Browser(r), session |-> None, modified |-> FALSE,
                   read |-> 0, left |-> left]
  <2>1. j \in Job
    BY <1>1 DEF Job
  <2> QED
    BY <2>1 DEF Done
<1>4. CASE s = None
  <2>1. PICK a \in {None, Keep} : answer' = [answer EXCEPT ![r] = a] /\ (m => a = None)
    BY <1>4 DEF Reply
  <2>2. answered' = answered
    BY <1>4 DEF Reply
  <2> QED
    BY <1>1, <1>2, <1>3, <1>4, <2>1, <2>2 DEF TypeOK, Answers
<1>5. CASE s # None
  <2> DEFINE a == [s EXCEPT !.signed = clock]
  <2>1. /\ answer' = [answer EXCEPT ![r] = a]
        /\ answered' = [answered EXCEPT ![Browser(r)] = clock]
    BY <1>5 DEF Reply
  <2>2. /\ a \in Session
        /\ a.signed = clock /\ a.auth = s.auth /\ a.seen = s.seen
        /\ a.reauth = s.reauth /\ a.typed = s.typed /\ a.raced = s.raced
    BY <1>5 DEF Session, TypeOK
  <2> HIDE DEF a
  <2> QED
    BY <1>1, <1>2, <1>3, <1>5, <2>1, <2>2 DEF TypeOK, Answers
<1> QED
  BY <1>4, <1>5 DEF Answers

(* Times of the history only grow. *)
Later(old, new) == old # None => new # None /\ old <= new

(* What most steps of a request r have in common: the other requests, the
   cookies and the sockets are left alone; times and stamps grow; and a change
   that is about to be stored took its stamp after all sessions began. *)
Grows(r) ==
    /\ \A q \in Requests \ {r} : pc'[q] = pc[q] /\ job'[q] = job[q] /\ answer'[q] = answer[q]
    /\ cookie' = cookie /\ handshake' = handshake
    /\ \A b \in Browsers : /\ Later(answered[b], answered'[b])
                           /\ Later(served[b], served'[b])
                           /\ Later(proved[b], proved'[b])
    /\ stamps <= stamps'
    /\ \/ password' = password /\ changedAt' = changedAt
       \/ pc[r] = "commit" /\ password' = job[r].read /\ changedAt' = job[r].read
    /\ pc'[r] = "commit" => job'[r].read \in Nat /\ stamps < job'[r].read

(* Lemma: such a step leaves every session sound. *)
LEMMA SoundKept ==
    ASSUME Inv, TypeOK', NEW r \in Requests, Grows(r),
           NEW t \in Session, NEW b \in Browsers, Sound(t, b)
    PROVE  Sound(t, b)'
<1>0. /\ t.signed \in Nat /\ t.seen \in Nat /\ t.reauth \in Nat \cup {None}
      /\ t.auth \in Nat /\ t.typed \in Nat
  BY DEF Session
<1>1. answered'[b] # None /\ t.signed <= answered'[b]
  BY <1>0, NoSessionAssumption DEF Inv, TypeOK, Grows, Later, Sound
<1>2. served'[b] # None /\ t.seen <= served'[b]
  BY <1>0, NoSessionAssumption DEF Inv, TypeOK, Grows, Later, Sound
<1>3. t.reauth # None => proved'[b] # None /\ t.reauth <= proved'[b]
  BY <1>0, NoSessionAssumption DEF Inv, TypeOK, Grows, Later, Sound
<1>4. t.typed <= t.auth /\ t.auth <= stamps'
  BY <1>0 DEF Inv, TypeOK, Grows, Sound
<1>5. ASSUME ~t.raced
      PROVE  /\ t.typed = password' \/ t.auth < changedAt'
             /\ \A q \in Requests : pc'[q] = "commit" => t.auth < job'[q].read
  <2>1. t.typed = password' \/ t.auth < changedAt'
    BY <1>5 DEF Grows, Sound
  <2>2. ASSUME NEW q \in Requests, q # r, pc'[q] = "commit"
        PROVE  t.auth < job'[q].read
    BY <1>5, <2>2 DEF Grows, Sound
  <2>3. ASSUME pc'[r] = "commit"
        PROVE  t.auth < job'[r].read
    <3>1. stamps < job'[r].read /\ t.auth <= stamps /\ job'[r].read \in Nat
      BY <2>3 DEF Grows, Sound
    <3> QED
      BY <1>0, <3>1 DEF Inv, TypeOK
  <2> QED
    BY <2>1, <2>2, <2>3
<1> QED
  BY <1>1, <1>2, <1>3, <1>4, <1>5 DEF Sound

(* Lemma: all copies of sessions stay sound, if those of the request itself are. *)
LEMMA CopiesKept ==
    ASSUME Inv, TypeOK', NEW r \in Requests, Grows(r),
           (pc'[r] # "idle" /\ job'[r].session # None) =>
               /\ Sound(job[r].session, Browser(r))'
               /\ pc'[r] = "enforce" => job'[r].session.seen <= job'[r].session.signed,
           answer'[r] \notin {None, Keep} =>
               Sound(answer[r], Browser(r))' /\ answer'[r].seen <= answer'[r].signed
    PROVE  SessionInv'
<1>1. ASSUME NEW b \in Browsers
      PROVE  /\ cookie'[b] # None => Sound(cookie[b], b)' /\ cookie'[b].seen <= cookie'[b].signed
             /\ handshake'[b] # None => answered'[b] # None /\ handshake'[b] <= answered'[b]
  <2>1. cookie[b] # None =>
          Sound(cookie[b], b) /\ cookie[b] \in Session /\ cookie[b].seen <= cookie[b].signed
    BY DEF Inv, TypeOK, SessionInv
  <2>2. cookie'[b] # None => Sound(cookie[b], b)' /\ cookie'[b].seen <= cookie'[b].signed
    BY <2>1, SoundKept DEF Grows, Sound
  <2>3. handshake'[b] # None => answered'[b] # None /\ handshake'[b] <= answered'[b]
    BY NoSessionAssumption DEF Inv, TypeOK, SessionInv, Grows, Later
  <2> QED
    BY <2>2, <2>3
<1>2. ASSUME NEW q \in Requests, q # r, pc'[q] # "idle", job'[q].session # None
      PROVE  /\ Sound(job[q].session, Browser(q))'
             /\ pc'[q] = "enforce" => job'[q].session.seen <= job'[q].session.signed
  <2>1. job[q] \in Job /\ job'[q] = job[q] /\ pc'[q] = pc[q]
    BY <1>2 DEF Inv, RequestInv, Grows
  <2>2. Sound(job[q].session, Browser(q)) /\ job[q].session \in Session /\ Browser(q) \in Browsers
    BY <1>2, <2>1 DEF Inv, SessionInv, Job, Browser
  <2> QED
    BY <1>2, <2>1, <2>2, SoundKept DEF Inv, SessionInv, Browser
<1>3. ASSUME NEW q \in Requests, q # r, answer'[q] \notin {None, Keep}
      PROVE  Sound(answer[q], Browser(q))' /\ answer'[q].seen <= answer'[q].signed
  <2>1. job[q] \in Job /\ answer'[q] = answer[q] /\ job'[q] = job[q]
    BY <1>3 DEF Inv, RequestInv, Grows
  <2>2. Sound(answer[q], Browser(q)) /\ answer[q] \in Session /\ Browser(q) \in Browsers
    BY <1>3, <2>1 DEF Inv, TypeOK, SessionInv, Job, Browser
  <2> QED
    BY <1>3, <2>1, <2>2, SoundKept DEF Inv, SessionInv, Browser
<1> QED
  BY <1>1, <1>2, <1>3 DEF SessionInv

(* Lemma: the browser sends its cookie; another request in progress ends the calm. *)
LEMMA SendPreserves ==
    ASSUME Inv, NEW r \in Requests, NEW b \in Browsers, Send(r, b)
    PROVE  Inv'
<1>a. cookie[b] \in Session \cup {None}
  BY DEF Inv, TypeOK
<1>b. job[r] \in Job \cup {None}
  BY DEF Inv, TypeOK
<1>c. PICK j \in Job :
        /\ job' = [job EXCEPT ![r] = j]
        /\ j.browser = b /\ j.session = cookie[b]
        /\ pc[r] = "idle" /\ pc' = [pc EXCEPT ![r] = "enforce"]
        /\ calm' = [calm EXCEPT ![b] = @ /\ InProgress(b) = {}]
        /\ UNCHANGED <<clock, row, cookie, handshake, answer, served, proved, answered, quiet>>
  <2> DEFINE j == [browser |-> b, session |-> cookie[b], modified |-> FALSE,
                   read |-> 0, left |-> FALSE]
  <2>1. j \in Job
    BY <1>a DEF Job
  <2> QED
    BY <2>1 DEF Send
<1>1. TypeOK'
  BY <1>c DEF Inv, TypeOK, row
<1>2. ChangeInv'
  BY <1>c DEF Inv, ChangeInv, row
<1>3. RequestInv'
  BY <1>c DEF Inv, TypeOK, RequestInv
<1>4. HistoryInv'
  BY <1>c DEF Inv, HistoryInv
<1>5. SessionInv'
  BY <1>c DEF Inv, TypeOK, SessionInv, RequestInv, Sound, Browser, row
<1>6. QuietInv'
  BY <1>c DEF Inv, TypeOK, QuietInv, RequestInv, LogoutHolds, InProgress, Browser
<1>7. CalmInv'
  <2>1. /\ pc'[r] = "enforce" /\ job'[r] = j /\ pc[r] = "idle"
        /\ \A q \in Requests \ {r} : pc'[q] = pc[q] /\ job'[q] = job[q]
        /\ cookie' = cookie /\ answer' = answer /\ served' = served
        /\ calm'[b] <=> (calm[b] /\ InProgress(b) = {})
        /\ \A c \in Browsers \ {b} : calm'[c] = calm[c]
    BY <1>c DEF Inv, TypeOK
  <2>2. \A c \in Browsers \ {b} : InProgress(c)' = InProgress(c)
    BY <1>c, <2>1 DEF InProgress, Browser
  <2>3. InProgress(b)' = InProgress(b) \cup {r}
    BY <1>c, <2>1 DEF InProgress, Browser
  <2>4. ASSUME NEW c \in Browsers \ {b}, calm'[c]
        PROVE  /\ \A q, p \in InProgress(c) : q = p
               /\ InProgress(c) = {} => Current(cookie[c], c)
               /\ \A q \in InProgress(c) :
                   /\ pc[q] = "enforce" => job[q].session = cookie[c] /\ Current(cookie[c], c)
                   /\ pc[q] \in Handling =>
                       /\ Current(job[q].session, c)
                       /\ (job[q].session = None /\ ~job[q].modified) => Current(cookie[c], c)
                   /\ pc[q] = "answered" =>
                       IF answer[q] = Keep THEN Current(cookie[c], c) ELSE Current(answer[q], c)
    BY <2>1, <2>4 DEF Inv, CalmInv
  <2>5. ASSUME calm'[b]
        PROVE  /\ InProgress(b)' = {r}
               /\ job'[r].session = cookie'[b] /\ Current(cookie[b], b)'
    BY <1>c, <2>1, <2>3, <2>5 DEF Inv, CalmInv, Current
  <2> QED
    BY <2>1, <2>2, <2>4, <2>5 DEF CalmInv, Current, InProgress
<1> QED
  BY <1>1, <1>2, <1>3, <1>4, <1>5, <1>6, <1>7 DEF Inv

(* Lemma: a session that is let in is refreshed, any other is dropped. *)
LEMMA EnforcePreserves ==
    ASSUME Inv, NEW r \in Requests, Enforce(r)
    PROVE  Inv'
<1>a. job[r] \in Job
  BY DEF Inv, RequestInv, Enforce
<1>b. /\ Browser(r) \in Browsers
      /\ job[r].session \in Session \cup {None}
      /\ job[r].modified \in BOOLEAN
      /\ job[r].read \in Nat
  BY <1>a DEF Job, Browser
<1>c. PICK j \in Job :
        /\ job' = [job EXCEPT ![r] = j]
        /\ j.browser = Browser(r)
        /\ j.read = job[r].read /\ j.left = job[r].left
        /\ pc[r] = "enforce" /\ pc' = [pc EXCEPT ![r] = "handle"]
        /\ \/ /\ Accepted(job[r].session)
              /\ job[r].session # None
              /\ j.session \in Session
              /\ j.session.auth = job[r].session.auth
              /\ j.session.seen = clock
              /\ j.session.reauth = job[r].session.reauth
              /\ j.session.signed = job[r].session.signed
              /\ j.session.typed = job[r].session.typed
              /\ j.session.raced = job[r].session.raced
              /\ served' = [served EXCEPT ![Browser(r)] = clock]
           \/ /\ ~Accepted(job[r].session)
              /\ j.session = None
              /\ j.modified = Readable(job[r].session)
              /\ served' = served
        /\ UNCHANGED <<clock, row, cookie, handshake, answer, proved, answered, calm, quiet>>
  <2> DEFINE s == job[r].session
             n == IF Accepted(s) THEN Refreshed(s) ELSE None
             j == [job[r] EXCEPT !.session = n, !.modified = Readable(s)]
  <2>1. CASE Accepted(s)
    <3>1. s \in Session
      BY <1>b, <2>1 DEF Accepted, Readable
    <3>2. Refreshed(s) \in Session /\ n = Refreshed(s)
      BY <2>1, <3>1 DEF Inv, TypeOK, Session, Refreshed
    <3>3. /\ n.auth = s.auth /\ n.seen = clock /\ n.reauth = s.reauth
          /\ n.signed = s.signed /\ n.typed = s.typed /\ n.raced = s.raced
      BY <3>1, <3>2 DEF Session, Refreshed
    <3> HIDE DEF n
    <3>4. j \in Job /\ j.session = n
      BY <1>a, <3>2 DEF Job, Readable
    <3>5. j.browser = Browser(r) /\ j.read = job[r].read /\ j.left = job[r].left
      BY <1>a DEF Job, Browser
    <3>6. /\ job' = [job EXCEPT ![r] = j]
          /\ served' = [served EXCEPT ![Browser(r)] = clock]
      BY <2>1 DEF Enforce, n
    <3>7. /\ pc[r] = "enforce" /\ pc' = [pc EXCEPT ![r] = "handle"]
          /\ UNCHANGED <<clock, row, cookie, handshake, answer, proved, answered, calm, quiet>>
      BY DEF Enforce
    <3>8. job[r].session # None
      BY <3>1, Values
    <3> HIDE DEF j
    <3> QED
      BY <2>1, <3>2, <3>3, <3>4, <3>5, <3>6, <3>7, <3>8, Zenon
  <2>2. CASE ~Accepted(s)
    <3>1. j \in Job
      BY <1>a, <2>2 DEF Job, Readable
    <3>2. served' = served
      BY <1>b, <2>2 DEF Inv, TypeOK, Enforce
    <3>3. /\ j.browser = Browser(r) /\ j.read = job[r].read /\ j.left = job[r].left
          /\ j.session = None
      BY <1>a, <2>2 DEF Job, Browser
    <3>4. j.modified = Readable(s)
      BY <1>a DEF Job, Readable
    <3>5. job' = [job EXCEPT ![r] = j]
      BY DEF Enforce
    <3>6. /\ pc[r] = "enforce" /\ pc' = [pc EXCEPT ![r] = "handle"]
          /\ UNCHANGED <<clock, row, cookie, handshake, answer, proved, answered, calm, quiet>>
      BY DEF Enforce
    <3> HIDE DEF j
    <3> QED
      BY <2>2, <3>1, <3>2, <3>3, <3>4, <3>5, <3>6, Zenon
  <2> QED
    BY <2>1, <2>2
<1>1. TypeOK'
  BY <1>c DEF Inv, TypeOK, row
<1>2. ChangeInv'
  BY <1>c DEF Inv, ChangeInv, row
<1>3. RequestInv'
  BY <1>c DEF Inv, RequestInv
<1>4. HistoryInv'
  BY <1>c DEF Inv, TypeOK, HistoryInv
<1>5. SessionInv'
  <2>1. Grows(r)
    BY <1>c, NoSessionAssumption DEF Inv, TypeOK, HistoryInv, Grows, Later, row
  <2>2. ASSUME job'[r].session # None
        PROVE  /\ Sound(job[r].session, Browser(r))'
               /\ pc'[r] = "enforce" => job'[r].session.seen <= job'[r].session.signed
    <3>1. /\ pc[r] = "enforce" /\ pc'[r] = "handle"
          /\ job'[r] = j /\ Browser(r)' = Browser(r)
          /\ job[r].session \in Session /\ j.session \in Session
          /\ served'[Browser(r)] = clock
          /\ j.session.auth = job[r].session.auth
          /\ j.session.seen = clock
          /\ j.session.reauth = job[r].session.reauth
          /\ j.session.signed = job[r].session.signed
          /\ j.session.typed = job[r].session.typed
          /\ j.session.raced = job[r].session.raced
      BY <1>b, <1>c, <2>2 DEF Inv, TypeOK, Browser
    <3>2. PICK h \in Session : h = job[r].session
      BY <3>1
    <3>3. Sound(h, Browser(r))
      BY <3>1, <3>2, Values DEF Inv, SessionInv
    <3>4. Sound(h, Browser(r))'
      BY <1>1, <1>b, <2>1, SoundKept, <3>1, <3>3 DEF Sound
    <3>5. served'[Browser(r)] # None /\ j.session.seen <= served'[Browser(r)]
      BY <3>1, NoSessionAssumption DEF Inv, TypeOK
    <3> QED
      BY <3>1, <3>2, <3>4, <3>5 DEF Sound
  <2>3. answer'[r] = Keep
    BY <1>c DEF Inv, RequestInv
  <2> QED
    BY <1>1, <2>1, <2>2, <2>3, CopiesKept
<1>6. QuietInv'
  BY <1>c DEF Inv, QuietInv, LogoutHolds, InProgress, Browser
<1>7. CalmInv'
  BY <1>c, Values DEF Inv, TypeOK, CalmInv, Current, InProgress, Browser
<1> QED
  BY <1>1, <1>2, <1>3, <1>4, <1>5, <1>6, <1>7 DEF Inv

(* Lemma: pages, the logout and a statement that times out answer with the
   session of the request, or with none. *)
LEMMA AnswerPreserves ==
    ASSUME Inv, NEW r \in Requests, ServePage(r) \/ ServeSensitive(r) \/ Logout(r) \/ LockTimeout(r)
    PROVE  Inv'
<1>a. job[r] \in Job
  BY DEF Inv, RequestInv, ServePage, ServeSensitive, Logout, LockTimeout
<1>b. /\ Browser(r) \in Browsers
      /\ job[r].session \in Session \cup {None}
      /\ job[r].modified \in BOOLEAN
      /\ job[r].read \in Nat
  BY <1>a DEF Job, Browser
<1>c. PICK s \in Session \cup {None}, m \in BOOLEAN, left \in BOOLEAN :
        /\ Answers(r, s, m, left)
        /\ pc[r] \in {"handle", "start", "commit"}
        /\ s \in {None, job[r].session}
        /\ (s = None /\ ~m) => job[r].session = None /\ ~job[r].modified
        /\ left => s = None /\ m
        /\ UNCHANGED <<clock, row, cookie, handshake, served, proved, calm, quiet>>
  <2>1. CASE ServePage(r) \/ ServeSensitive(r)
    <3>1. Answers(r, job[r].session, job[r].modified, FALSE)
      BY <1>a, <1>b, <2>1, Replied DEF Inv, ServePage, ServeSensitive
    <3> QED
      BY <1>b, <2>1, <3>1 DEF ServePage, ServeSensitive, Handling
  <2>2. CASE Logout(r)
    <3>1. Answers(r, None, TRUE, TRUE)
      BY <1>a, <2>2, Replied DEF Inv, Logout
    <3> QED
      BY <2>2, <3>1 DEF Logout
  <2>3. CASE LockTimeout(r)
    <3>1. Answers(r, job[r].session, job[r].modified, FALSE)
      BY <1>a, <1>b, <2>3, Replied DEF Inv, LockTimeout
    <3> QED
      BY <1>b, <2>3, <3>1 DEF LockTimeout
  <2> QED
    BY <2>1, <2>2, <2>3
<1>1. TypeOK'
  BY <1>c DEF Inv, TypeOK, Answers, row
<1>2. ChangeInv'
  BY <1>c DEF Inv, ChangeInv, Answers, row
<1>3. RequestInv'
  BY <1>c DEF Inv, RequestInv, Answers
<1>4. HistoryInv'
  BY <1>c DEF Inv, HistoryInv, Answers
<1>5. SessionInv'
  <2>1. Grows(r)
    BY <1>c, NoSessionAssumption DEF Inv, TypeOK, HistoryInv, Answers, Grows, Later, row
  <2>2. job'[r].session = None
    BY <1>c DEF Answers
  <2>3. ASSUME answer'[r] \notin {None, Keep}
        PROVE  Sound(answer[r], Browser(r))' /\ answer'[r].seen <= answer'[r].signed
    <3> DEFINE a == answer'[r]
               h == job[r].session
    <3>0. /\ s \in Session
          /\ a.signed = clock /\ a.auth = s.auth /\ a.seen = s.seen
          /\ a.reauth = s.reauth /\ a.typed = s.typed /\ a.raced = s.raced
          /\ answered'[Browser(r)] = clock
          /\ s.signed \in Nat /\ s.seen \in Nat /\ s.reauth \in Nat \cup {None}
          /\ s.auth \in Nat /\ s.typed \in Nat
      BY <1>c, <2>3 DEF Answers, Session
    <3>a. /\ h # None
          /\ Sound(h, Browser(r))
      BY <1>c, <3>0, Values DEF Inv, SessionInv
    <3>1. answered'[Browser(r)] # None /\ a.signed <= answered'[Browser(r)]
      BY <3>0, NoSessionAssumption DEF Inv, TypeOK
    <3>2. served'[Browser(r)] # None /\ a.seen <= served'[Browser(r)] /\ a.seen <= a.signed
      BY <1>b, <1>c, <3>a, <3>0, Values DEF Inv, TypeOK, HistoryInv, Sound
    <3>3. a.reauth # None => proved'[Browser(r)] # None /\ a.reauth <= proved'[Browser(r)]
      BY <1>c, <3>a, <3>0, Values DEF Sound
    <3>4. a.typed <= a.auth /\ a.auth <= stamps'
      BY <1>c, <3>a, <3>0, Values DEF row, Sound
    <3>5. ~a.raced => /\ a.typed = password' \/ a.auth < changedAt'
                      /\ \A q \in Requests : pc'[q] = "commit" => a.auth < job'[q].read
      BY <1>c, <3>a, <3>0, Values DEF row, Sound, Answers
    <3>6. Browser(r)' = Browser(r)
      BY <1>c DEF Answers, Browser
    <3> QED
      BY <3>1, <3>2, <3>3, <3>4, <3>5, <3>6 DEF Sound
  <2> QED
    BY <1>1, <2>1, <2>2, <2>3, CopiesKept
<1>6. QuietInv'
  BY <1>c DEF Inv, QuietInv, LogoutHolds, InProgress, Browser, Answers
<1>7. CalmInv'
  <2>0. PICK b \in Browsers : b = Browser(r)
    BY <1>b
  <2>1. /\ pc'[r] = "answered" /\ cookie' = cookie /\ served' = served /\ calm' = calm
        /\ \A q \in Requests \ {r} : pc'[q] = pc[q] /\ job'[q] = job[q] /\ answer'[q] = answer[q]
    BY <1>c DEF Answers
  <2>2. (\A c \in Browsers : InProgress(c)' = InProgress(c)) /\ r \in InProgress(b)
    BY <1>c, <2>0, <2>1 DEF Answers, InProgress, Browser
  <2>3. ASSUME NEW c \in Browsers \ {b}, calm[c]
        PROVE  /\ \A q, p \in InProgress(c) : q = p
               /\ InProgress(c) = {} => Current(cookie[c], c)'
               /\ \A q \in InProgress(c) :
                   /\ pc'[q] = "enforce" => job'[q].session = cookie'[c] /\ Current(cookie[c], c)'
                   /\ pc'[q] \in Handling =>
                       /\ Current(job[q].session, c)'
                       /\ (job'[q].session = None /\ ~job'[q].modified) => Current(cookie[c], c)'
                   /\ pc'[q] = "answered" =>
                       IF answer'[q] = Keep THEN Current(cookie[c], c)' ELSE Current(answer[q], c)'
    <3>1. \A q \in InProgress(c) : q \in Requests \ {r}
      BY <2>0, <2>3 DEF InProgress
    <3> QED
      BY <2>1, <2>3, <3>1 DEF Inv, CalmInv, Current
  <2>4. ASSUME calm[b]
        PROVE  /\ InProgress(b) = {r}
               /\ IF answer'[r] = Keep THEN Current(cookie[b], b)' ELSE Current(answer[r], b)'
    <3>1. /\ InProgress(b) = {r}
          /\ Current(job[r].session, b)
          /\ (job[r].session = None /\ ~job[r].modified) => Current(cookie[b], b)
      BY <1>c, <2>2, <2>4 DEF Inv, CalmInv, Handling
    <3>2. CASE s = None
      <4>1. answer'[r] = None \/ (answer'[r] = Keep /\ Current(cookie[b], b))
        BY <1>c, <3>1, <3>2 DEF Answers
      <4> QED
        BY <2>1, <3>1, <4>1, Values DEF Current
    <3>3. CASE s # None
      <4>1. s = job[r].session /\ answer'[r] \in Session /\ answer'[r].seen = s.seen
        BY <1>c, <3>3 DEF Answers
      <4> QED
        BY <2>1, <3>1, <3>3, <4>1, Values DEF Current
    <3> QED
      BY <3>2, <3>3
  <2> QED
    BY <2>1, <2>2, <2>3, <2>4 DEF CalmInv, Handling, Current
<1> QED
  BY <1>1, <1>2, <1>3, <1>4, <1>5, <1>6, <1>7 DEF Inv

(* Lemma: a login is under way, and the quiet after a logout over. *)
LEMMA VerifyLoginPreserves ==
    ASSUME Inv, NEW r \in Requests, VerifyLogin(r)
    PROVE  Inv'
<1>a. job[r] \in Job
  BY DEF Inv, RequestInv, VerifyLogin
<1>b. /\ Browser(r) \in Browsers
      /\ job[r].session \in Session \cup {None}
      /\ job[r].modified \in BOOLEAN
      /\ job[r].read \in Nat
  BY <1>a DEF Job, Browser
<1>c. PICK j \in Job :
        /\ job' = [job EXCEPT ![r] = j]
        /\ j.browser = Browser(r) /\ j.session = job[r].session
        /\ j.modified = job[r].modified /\ j.left = job[r].left /\ j.read = password
  <2> DEFINE j == [job[r] EXCEPT !.read = password]
  <2>1. j \in Job
    BY <1>a DEF Inv, TypeOK, Job
  <2> QED
    BY <1>a, <2>1 DEF VerifyLogin, Job, Browser
<1>1. TypeOK'
  BY <1>b, <1>c DEF Inv, TypeOK, row, VerifyLogin
<1>2. ChangeInv'
  BY DEF Inv, TypeOK, ChangeInv, row, VerifyLogin
<1>3. RequestInv'
  BY <1>c DEF Inv, RequestInv, VerifyLogin
<1>4. HistoryInv'
  BY DEF Inv, HistoryInv, VerifyLogin
<1>5. SessionInv'
  BY DEF Inv, SessionInv, Sound, Browser, row, VerifyLogin
<1>6. QuietInv'
  BY <1>b DEF Inv, TypeOK, QuietInv, LogoutHolds, InProgress, Browser, VerifyLogin
<1>7. CalmInv'
  BY DEF Inv, CalmInv, Current, InProgress, Handling, Browser, VerifyLogin
<1> QED
  BY <1>1, <1>2, <1>3, <1>4, <1>5, <1>6, <1>7 DEF Inv

(* Lemma: a new session is sound, whatever old ones are still around. *)
LEMMA StartSessionPreserves ==
    ASSUME Inv, NEW r \in Requests, StartSession(r)
    PROVE  Inv'
<1>a. job[r] \in Job
  BY DEF Inv, RequestInv, StartSession
<1>b. /\ Browser(r) \in Browsers
      /\ job[r].session \in Session \cup {None}
      /\ job[r].modified \in BOOLEAN
      /\ job[r].read \in Nat
  BY <1>a DEF Job, Browser
<1>c. PICK s \in Session :
        /\ Answers(r, s, TRUE, FALSE)
        /\ pc[r] = "start"
        /\ s.auth = stamps /\ s.seen = clock /\ s.reauth = None
        /\ s.typed = job[r].read
        /\ s.raced <=> (Changing \/ job[r].read # password)
        /\ served' = [served EXCEPT ![Browser(r)] = clock]
        /\ calm' = [calm EXCEPT ![Browser(r)] = InProgress(Browser(r)) = {r}]
        /\ UNCHANGED <<clock, row, cookie, handshake, proved, quiet>>
  <2> DEFINE s == NewSession(job[r].read)
  <2>1. /\ s \in Session
        /\ s.auth = stamps /\ s.seen = clock /\ s.reauth = None
        /\ s.typed = job[r].read
        /\ s.raced <=> (Changing \/ job[r].read # password)
    BY <1>b DEF Inv, TypeOK, Session, NewSession
  <2>2. Answers(r, s, TRUE, FALSE)
    BY <1>a, <2>1, Replied DEF Inv, StartSession
  <2> QED
    BY <2>1, <2>2 DEF StartSession
<1>1. TypeOK'
  BY <1>c DEF Inv, TypeOK, Answers, row
<1>2. ChangeInv'
  BY <1>c DEF Inv, ChangeInv, Answers, row
<1>3. RequestInv'
  BY <1>c DEF Inv, RequestInv, Answers
<1>4. HistoryInv'
  BY <1>c, Values DEF Inv, HistoryInv, Answers
<1>5. SessionInv'
  <2>1. Grows(r)
    BY <1>c, NoSessionAssumption DEF Inv, TypeOK, HistoryInv, Answers, Grows, Later, row
  <2>2. job'[r].session = None
    BY <1>c DEF Answers
  <2>3. ASSUME answer'[r] \notin {None, Keep}
        PROVE  Sound(answer[r], Browser(r))' /\ answer'[r].seen <= answer'[r].signed
    <3> DEFINE a == answer'[r]
    <3>0. /\ s \in Session
          /\ a.signed = clock /\ a.auth = s.auth /\ a.seen = s.seen
          /\ a.reauth = s.reauth /\ a.typed = s.typed /\ a.raced = s.raced
          /\ answered'[Browser(r)] = clock
          /\ s.signed \in Nat /\ s.seen \in Nat /\ s.reauth \in Nat \cup {None}
          /\ s.auth \in Nat /\ s.typed \in Nat
      BY <1>c, <2>3 DEF Answers, Session
    <3>1. answered'[Browser(r)] # None /\ a.signed <= answered'[Browser(r)]
      BY <3>0, NoSessionAssumption DEF Inv, TypeOK
    <3>2. served'[Browser(r)] # None /\ a.seen <= served'[Browser(r)] /\ a.seen <= a.signed
      BY <1>b, <1>c, <3>0, NoSessionAssumption DEF Inv, TypeOK
    <3>3. a.reauth # None => proved'[Browser(r)] # None /\ a.reauth <= proved'[Browser(r)]
      BY <1>c, <3>0 DEF Sound
    <3>4. a.typed <= a.auth /\ a.auth <= stamps'
      BY <1>c, <3>0 DEF Inv, row, ChangeInv
    <3>5. ~a.raced => /\ a.typed = password' \/ a.auth < changedAt'
                      /\ \A q \in Requests : pc'[q] = "commit" => a.auth < job'[q].read
      BY <1>c DEF row, Answers, Changing
    <3>6. Browser(r)' = Browser(r)
      BY <1>c DEF Answers, Browser
    <3> QED
      BY <3>1, <3>2, <3>3, <3>4, <3>5, <3>6 DEF Sound
  <2> QED
    BY <1>1, <2>1, <2>2, <2>3, CopiesKept
<1>6. QuietInv'
  BY <1>c DEF Inv, QuietInv, LogoutHolds, InProgress, Browser, Answers
<1>7. CalmInv'
  <2>1. \A q \in Requests \ {r} : /\ pc'[q] = pc[q] /\ job'[q] = job[q] /\ answer'[q] = answer[q]
                                  /\ Browser(q)' = Browser(q)
    BY <1>c DEF Answers, Browser
  <2>2. Browser(r)' = Browser(r) /\ pc'[r] = "answered"
    BY <1>c DEF Answers, Browser
  <2>3. \A c \in Browsers \ {Browser(r)} : InProgress(c)' = InProgress(c)
    BY <2>1, <2>2 DEF InProgress
  <2>4. InProgress(Browser(r))' = InProgress(Browser(r))
    BY <1>c, <2>1, <2>2 DEF InProgress
  <2>5. answer'[r] \notin {None, Keep} /\ answer'[r].seen = served'[Browser(r)]
    BY <1>b, <1>c, Values DEF Inv, TypeOK, Answers
  <2>6. calm'[Browser(r)] => InProgress(Browser(r))' = {r}
    BY <1>b, <1>c, <2>4 DEF Inv, TypeOK
  <2>7. \A c \in Browsers \ {Browser(r)} : /\ calm'[c] = calm[c] /\ served'[c] = served[c]
                                           /\ cookie'[c] = cookie[c] /\ r \notin InProgress(c)
    BY <1>c, <2>2 DEF Inv, TypeOK, InProgress
  <2>8. ASSUME NEW c \in Browsers \ {Browser(r)}, calm'[c]
        PROVE  /\ \A q, p \in InProgress(c) : q = p
               /\ InProgress(c) = {} => Current(cookie[c], c)
               /\ \A q \in InProgress(c) :
                   /\ pc[q] = "enforce" => job[q].session = cookie[c] /\ Current(cookie[c], c)
                   /\ pc[q] \in Handling =>
                       /\ Current(job[q].session, c)
                       /\ (job[q].session = None /\ ~job[q].modified) => Current(cookie[c], c)
                   /\ pc[q] = "answered" =>
                       IF answer[q] = Keep THEN Current(cookie[c], c) ELSE Current(answer[q], c)
    BY <2>7, <2>8 DEF Inv, CalmInv
  <2> QED
    BY <2>1, <2>2, <2>3, <2>5, <2>6, <2>7, <2>8 DEF CalmInv, Current, Handling, InProgress
<1> QED
  BY <1>1, <1>2, <1>3, <1>4, <1>5, <1>6, <1>7 DEF Inv

(* Lemma: the session of the request goes on, marked now. *)
LEMMA ReauthPreserves ==
    ASSUME Inv, NEW r \in Requests, Reauth(r)
    PROVE  Inv'
<1>a. job[r] \in Job
  BY DEF Inv, RequestInv, Reauth
<1>b. /\ Browser(r) \in Browsers
      /\ job[r].session \in Session \cup {None}
      /\ job[r].modified \in BOOLEAN
      /\ job[r].read \in Nat
  BY <1>a DEF Job, Browser
<1>c. PICK s \in Session :
        /\ Answers(r, s, TRUE, FALSE)
        /\ pc[r] = "handle"
        /\ job[r].session # None
        /\ s.reauth = clock
        /\ s.auth = job[r].session.auth /\ s.seen = job[r].session.seen
        /\ s.typed = job[r].session.typed /\ s.raced = job[r].session.raced
        /\ proved' = [proved EXCEPT ![Browser(r)] = clock]
        /\ UNCHANGED <<clock, row, cookie, handshake, served, calm, quiet>>
  <2> DEFINE s == MarkedReauth(job[r].session)
  <2>1. /\ s \in Session
        /\ s.reauth = clock
        /\ s.auth = job[r].session.auth /\ s.seen = job[r].session.seen
        /\ s.typed = job[r].session.typed /\ s.raced = job[r].session.raced
    BY <1>b DEF Inv, TypeOK, Session, Reauth, MarkedReauth
  <2>2. Answers(r, s, TRUE, FALSE)
    BY <1>a, <2>1, Replied DEF Inv, Reauth
  <2> QED
    BY <2>1, <2>2 DEF Reauth
<1>1. TypeOK'
  BY <1>c DEF Inv, TypeOK, Answers, row
<1>2. ChangeInv'
  BY <1>c DEF Inv, ChangeInv, Answers, row
<1>3. RequestInv'
  BY <1>c DEF Inv, RequestInv, Answers
<1>4. HistoryInv'
  BY <1>c, Values DEF Inv, HistoryInv, Answers
<1>5. SessionInv'
  <2>1. Grows(r)
    BY <1>c, NoSessionAssumption DEF Inv, TypeOK, HistoryInv, Answers, Grows, Later, row
  <2>2. job'[r].session = None
    BY <1>c DEF Answers
  <2>3. ASSUME answer'[r] \notin {None, Keep}
        PROVE  Sound(answer[r], Browser(r))' /\ answer'[r].seen <= answer'[r].signed
    <3> DEFINE a == answer'[r]
               h == job[r].session
    <3>0. /\ s \in Session
          /\ a.signed = clock /\ a.auth = s.auth /\ a.seen = s.seen
          /\ a.reauth = s.reauth /\ a.typed = s.typed /\ a.raced = s.raced
          /\ answered'[Browser(r)] = clock
          /\ s.signed \in Nat /\ s.seen \in Nat /\ s.reauth \in Nat \cup {None}
          /\ s.auth \in Nat /\ s.typed \in Nat
      BY <1>c, <2>3 DEF Answers, Session
    <3>a. /\ h # None
          /\ Sound(h, Browser(r))
      BY <1>c DEF Inv, SessionInv
    <3>1. answered'[Browser(r)] # None /\ a.signed <= answered'[Browser(r)]
      BY <3>0, NoSessionAssumption DEF Inv, TypeOK
    <3>2. served'[Browser(r)] # None /\ a.seen <= served'[Browser(r)] /\ a.seen <= a.signed
      BY <1>b, <1>c, <3>a, <3>0 DEF Inv, TypeOK, HistoryInv, Sound
    <3>3. a.reauth # None => proved'[Browser(r)] # None /\ a.reauth <= proved'[Browser(r)]
      BY <1>b, <1>c, <3>0 DEF Inv, TypeOK
    <3>4. a.typed <= a.auth /\ a.auth <= stamps'
      BY <1>c, <3>a, <3>0 DEF row, Sound
    <3>5. ~a.raced => /\ a.typed = password' \/ a.auth < changedAt'
                      /\ \A q \in Requests : pc'[q] = "commit" => a.auth < job'[q].read
      BY <1>c, <3>a DEF row, Sound, Answers
    <3>6. Browser(r)' = Browser(r)
      BY <1>c DEF Answers, Browser
    <3> QED
      BY <3>1, <3>2, <3>3, <3>4, <3>5, <3>6 DEF Sound
  <2> QED
    BY <1>1, <2>1, <2>2, <2>3, CopiesKept
<1>6. QuietInv'
  BY <1>c DEF Inv, QuietInv, LogoutHolds, InProgress, Browser, Answers
<1>7. CalmInv'
  BY <1>c, Values DEF Inv, CalmInv, Current, InProgress, Handling, Browser, Answers
<1> QED
  BY <1>1, <1>2, <1>3, <1>4, <1>5, <1>6, <1>7 DEF Inv

(* Lemma: the stamp of a change is later than the start of all sessions. *)
LEMMA StampChangePreserves ==
    ASSUME Inv, NEW r \in Requests, StampChange(r)
    PROVE  Inv'
<1>a. job[r] \in Job
  BY DEF Inv, RequestInv, StampChange
<1>b. /\ Browser(r) \in Browsers
      /\ job[r].session \in Session \cup {None}
      /\ job[r].modified \in BOOLEAN
      /\ job[r].read \in Nat
  BY <1>a DEF Job, Browser
<1>c. PICK j \in Job :
        /\ job' = [job EXCEPT ![r] = j]
        /\ j.browser = Browser(r) /\ j.session = job[r].session
        /\ j.modified = job[r].modified /\ j.left = job[r].left /\ j.read = stamps + 1
  <2> DEFINE j == [job[r] EXCEPT !.read = stamps + 1]
  <2>1. j \in Job
    BY <1>a DEF Inv, TypeOK, Job
  <2> QED
    BY <1>a, <2>1 DEF StampChange, Job, Browser
<1>1. TypeOK'
  BY <1>c DEF Inv, TypeOK, history, StampChange
<1>2. ChangeInv'
  BY DEF Inv, TypeOK, ChangeInv, RequestInv, Job, StampChange
<1>3. RequestInv'
  BY <1>c DEF Inv, RequestInv, StampChange
<1>4. HistoryInv'
  BY DEF Inv, HistoryInv, history, StampChange
<1>5. SessionInv'
  <2>1. Grows(r)
    BY NoSessionAssumption DEF Inv, TypeOK, Grows, Later, history, StampChange
  <2>2. ASSUME job'[r].session # None
        PROVE  /\ Sound(job[r].session, Browser(r))'
               /\ pc'[r] = "enforce" => job'[r].session.seen <= job'[r].session.signed
    <3>1. /\ pc[r] = "handle" /\ pc'[r] = "commit"
          /\ job'[r].session = job[r].session /\ job'[r].browser = job[r].browser
      BY <1>a, <1>c DEF Inv, TypeOK, StampChange
    <3>2. Sound(job[r].session, Browser(r)) /\ job[r].session \in Session
      BY <1>b, <2>2, <3>1 DEF Inv, SessionInv
    <3> QED
      BY <1>1, <1>b, <2>1, SoundKept, <3>1, <3>2 DEF Sound, Browser
  <2>3. answer'[r] = Keep
    BY <1>c DEF Inv, RequestInv, StampChange
  <2> QED
    BY <1>1, <2>1, <2>2, <2>3, CopiesKept
<1>6. QuietInv'
  BY DEF Inv, QuietInv, LogoutHolds, InProgress, Browser, history, StampChange
<1>7. CalmInv'
  BY DEF Inv, CalmInv, Current, InProgress, Handling, Browser, history, StampChange
<1> QED
  BY <1>1, <1>2, <1>3, <1>4, <1>5, <1>6, <1>7 DEF Inv

(* Lemma: every session but a raced one is now older than the change. *)
LEMMA CommitChangePreserves ==
    ASSUME Inv, NEW r \in Requests, CommitChange(r)
    PROVE  Inv'
<1>a. job[r] \in Job
  BY DEF Inv, RequestInv, CommitChange
<1>b. /\ Browser(r) \in Browsers
      /\ job[r].session \in Session \cup {None}
      /\ job[r].modified \in BOOLEAN
      /\ job[r].read \in Nat
  BY <1>a DEF Job, Browser
<1>c. /\ Answers(r, None, TRUE, FALSE)
      /\ pc[r] = "commit"
      /\ password' = job[r].read /\ changedAt' = job[r].read
      /\ UNCHANGED <<clock, status, stamps, cookie, handshake, served, proved, calm, quiet>>
  BY <1>a, Replied DEF Inv, CommitChange
<1>1. TypeOK'
  BY <1>b, <1>c DEF Inv, TypeOK, Answers
<1>2. ChangeInv'
  BY <1>c DEF Inv, ChangeInv, Answers
<1>3. RequestInv'
  BY <1>c DEF Inv, RequestInv, Answers
<1>4. HistoryInv'
  BY <1>c DEF Inv, HistoryInv, Answers
<1>5. SessionInv'
  <2>1. Grows(r)
    BY <1>c DEF Inv, TypeOK, Answers, Grows, Later
  <2>2. job'[r].session = None
    BY <1>c DEF Answers
  <2>3. answer'[r] = None
    BY <1>c DEF Answers
  <2> QED
    BY <1>1, <2>1, <2>2, <2>3, CopiesKept
<1>6. QuietInv'
  BY <1>c DEF Inv, QuietInv, LogoutHolds, InProgress, Browser, Answers
<1>7. CalmInv'
  BY <1>c, Values DEF Inv, CalmInv, Current, InProgress, Handling, Browser, Answers
<1> QED
  BY <1>1, <1>2, <1>3, <1>4, <1>5, <1>6, <1>7 DEF Inv

(* Lemma: the cookie becomes what the answer carried. *)
LEMMA ReceivePreserves ==
    ASSUME Inv, NEW r \in Requests, Receive(r)
    PROVE  Inv'
<1>1. TypeOK'
  BY DEF Inv, TypeOK, Receive, row, history
<1>2. ChangeInv'
  BY DEF Inv, ChangeInv, Receive, row
<1>3. RequestInv'
  BY DEF Inv, TypeOK, RequestInv, Receive
<1>4. HistoryInv'
  BY DEF Inv, HistoryInv, Receive
<1>5. SessionInv'
  BY DEF Inv, TypeOK, SessionInv, Receive, row, Browser, Sound
<1>6. QuietInv'
  <2>1. job[r] \in Job /\ Browser(r) \in Browsers
    BY DEF Inv, RequestInv, Receive, Job, Browser
  <2>2. /\ pc'[r] = "idle"
        /\ \A q \in Requests \ {r} : pc'[q] = pc[q] /\ job'[q] = job[q] /\ answer'[q] = answer[q]
        /\ \A b \in Browsers \ {Browser(r)} : cookie'[b] = cookie[b] /\ quiet'[b] = quiet[b]
        /\ cookie'[Browser(r)] = IF answer[r] = Keep THEN cookie[Browser(r)] ELSE answer[r]
        /\ quiet'[Browser(r)] =
             (quiet[Browser(r)] \/ (job[r].left /\ InProgress(Browser(r)) = {r}))
    BY <2>1 DEF Inv, TypeOK, Receive
  <2>3. CASE quiet[Browser(r)] \/ ~quiet'[Browser(r)]
    BY <2>2, <2>3 DEF Inv, QuietInv, LogoutHolds, InProgress, Browser, Receive
  <2>4. CASE ~quiet[Browser(r)] /\ quiet'[Browser(r)]
    <3>1. job[r].left /\ answer[r] = None /\ InProgress(Browser(r)) = {r}
      BY <2>2, <2>4 DEF Inv, RequestInv, Receive
    <3>2. cookie'[Browser(r)] = None
      BY <2>2, <3>1, Values
    <3>3. \A q \in Requests : pc'[q] # "idle" => Browser(q)' # Browser(r)
      BY <2>2, <3>1 DEF InProgress, Browser
    <3>4. ASSUME NEW b \in Browsers, quiet'[b]
          PROVE  /\ cookie'[b] = None
                 /\ \A q \in Requests : (pc'[q] # "idle" /\ job'[q].browser = b) =>
                      job'[q].session = None /\ answer'[q] \in {None, Keep}
      <4>1. CASE b = Browser(r)
        BY <3>2, <3>3, <4>1 DEF Browser
      <4>2. CASE b # Browser(r)
        BY <2>2, <3>4, <4>2 DEF Inv, QuietInv, LogoutHolds, InProgress, Browser
      <4> QED
        BY <4>1, <4>2
    <3>5. ASSUME NEW q \in Requests, pc'[q] = "start"
          PROVE  ~quiet'[Browser(q)']
      <4>1. job[q] \in Job /\ q # r /\ Browser(q)' = Browser(q) /\ Browser(q) \in Browsers
        BY <2>2, <3>5 DEF Inv, RequestInv, Job, Browser
      <4> QED
        BY <2>2, <3>3, <3>5, <4>1 DEF Inv, QuietInv
    <3> QED
      BY <3>4, <3>5 DEF QuietInv, LogoutHolds, InProgress, Browser
  <2> QED
    BY <2>3, <2>4
<1>7. CalmInv'
  BY DEF Inv, TypeOK, CalmInv, Receive, Browser, Current, InProgress
<1> QED
  BY <1>1, <1>2, <1>3, <1>4, <1>5, <1>6, <1>7 DEF Inv

(* Lemma: an answer that is lost leaves the cookie as it was. *)
LEMMA LosePreserves ==
    ASSUME Inv, NEW r \in Requests, Lose(r)
    PROVE  Inv'
<1>1. TypeOK'
  BY DEF Inv, TypeOK, Lose, row
<1>2. ChangeInv'
  BY DEF Inv, ChangeInv, Lose, row
<1>3. RequestInv'
  BY DEF Inv, TypeOK, RequestInv, Lose
<1>4. HistoryInv'
  BY DEF Inv, HistoryInv, Lose
<1>5. SessionInv'
  BY DEF Inv, TypeOK, SessionInv, Lose, row, Browser, Sound
<1>6. QuietInv'
  BY DEF Inv, TypeOK, QuietInv, Lose, Browser, LogoutHolds, InProgress
<1>7. CalmInv'
  BY DEF Inv, TypeOK, CalmInv, Lose, Browser, Current, InProgress
<1> QED
  BY <1>1, <1>2, <1>3, <1>4, <1>5, <1>6, <1>7 DEF Inv

(* Lemma: sockets, administrators and time keep the invariant. *)
LEMMA OutsidePreserves ==
    ASSUME Inv,
           (\E b \in Browsers : Connect(b) \/ Disconnect(b)) \/ Suspend \/ Activate \/ Tick
               \/ UNCHANGED vars
    PROVE  Inv'
<1>1. TypeOK'
  BY DEF Inv, TypeOK, Connect, Disconnect, Suspend, Activate, Tick, vars, row, history,
         Session
<1>2. ChangeInv'
  BY DEF Inv, ChangeInv, Connect, Disconnect, Suspend, Activate, Tick, vars, row
<1>3. RequestInv'
  BY DEF Inv, RequestInv, Connect, Disconnect, Suspend, Activate, Tick, vars
<1>4. HistoryInv'
  BY DEF Inv, TypeOK, HistoryInv, Connect, Disconnect, Suspend, Activate, Tick, vars,
         history
<1>5. SessionInv'
  BY DEF Inv, TypeOK, SessionInv, Connect, Disconnect, Suspend, Activate, Tick, vars, row,
         history, Browser, Sound
<1>6. QuietInv'
  BY DEF Inv, QuietInv, Connect, Disconnect, Suspend, Activate, Tick, vars, history,
         Browser, LogoutHolds, InProgress
<1>7. CalmInv'
  BY DEF Inv, CalmInv, Connect, Disconnect, Suspend, Activate, Tick, vars, history, Browser,
         Current, InProgress
<1> QED
  BY <1>1, <1>2, <1>3, <1>4, <1>5, <1>6, <1>7 DEF Inv

(* Lemma: the invariant holds initially. *)
LEMMA InitInv == Init => Inv
  BY Values, NoSessionAssumption
     DEF Init, Inv, TypeOK, ChangeInv, RequestInv, HistoryInv, SessionInv, QuietInv, LogoutHolds,
         CalmInv, InProgress, Current

(* Lemma: every step preserves it. *)
LEMMA NextInv == Inv /\ [Next]_vars => Inv'
<1> SUFFICES ASSUME Inv, [Next]_vars
             PROVE  Inv'
  OBVIOUS
<1>1. ASSUME NEW r \in Requests, NEW b \in Browsers, Send(r, b)
      PROVE  Inv'
  BY <1>1, SendPreserves
<1>2. ASSUME NEW r \in Requests,
             \/ Enforce(r)
             \/ ServePage(r) \/ ServeSensitive(r) \/ Reauth(r) \/ Logout(r)
             \/ VerifyLogin(r) \/ StartSession(r)
             \/ StampChange(r) \/ CommitChange(r) \/ LockTimeout(r)
             \/ Receive(r) \/ Lose(r)
      PROVE  Inv'
  BY <1>2, EnforcePreserves, AnswerPreserves, ReauthPreserves, VerifyLoginPreserves,
     StartSessionPreserves, StampChangePreserves, CommitChangePreserves, ReceivePreserves,
     LosePreserves
<1>3. CASE (\E b \in Browsers : Connect(b) \/ Disconnect(b)) \/ Suspend \/ Activate \/ Tick
            \/ UNCHANGED vars
  BY <1>3, OutsidePreserves
<1> QED
  BY <1>1, <1>2, <1>3 DEF Next

(* The invariant holds at all times. *)
THEOREM Invariance == Spec => []Inv
<1> QED
  BY InitInv, NextInv, PTL DEF Spec

(* All state keeps its shape, however often sessions begin, end and return. *)
THEOREM TypeCorrect == Spec => []TypeOK
<1>1. Inv => TypeOK
  BY DEF Inv
<1> QED
  BY <1>1, Invariance, PTL

(* A logout with nothing else in progress is final (auth.py:131). *)
THEOREM Quiet == Spec => []LogoutHolds
<1>1. Inv => LogoutHolds
  BY DEF Inv, QuietInv
<1> QED
  BY <1>1, Invariance, PTL

(* A socket is alive only for an active account and for the lifetime of the
   session it was opened with (chat.py:157). *)
THEOREM Bounded == Spec => []SocketBounded
<1>1. Inv => SocketBounded
  <2> SUFFICES ASSUME Inv, NEW b \in Browsers, Authenticated(handshake[b])
               PROVE  /\ status = "active"
                      /\ answered[b] # None /\ clock - answered[b] <= Lifetime
    BY DEF SocketBounded
  <2>1. /\ handshake[b] \in Nat /\ answered[b] \in Nat /\ clock \in Nat
        /\ answered[b] # None /\ handshake[b] <= answered[b]
    BY DEF Inv, TypeOK, SessionInv, Authenticated
  <2> QED
    BY <2>1, LifetimeAssumption DEF Authenticated
<1> QED
  BY <1>1, Invariance, PTL

(* A sensitive page is shown only within the window after the password was
   typed again (security.py:230). *)
THEOREM Reauthenticated == Spec => ReauthEarned
<1> DEFINE Earned == \A r \in Requests : ServeSensitive(r) =>
             LET b == Browser(r)
             IN proved[b] # None /\ clock - proved[b] <= ReauthWindow
<1>1. Inv => Earned
  <2> SUFFICES ASSUME Inv, NEW r \in Requests, ServeSensitive(r)
               PROVE  /\ proved[Browser(r)] # None
                      /\ clock - proved[Browser(r)] <= ReauthWindow
    OBVIOUS
  <2>1. /\ job[r].session \in Session /\ Browser(r) \in Browsers
        /\ Sound(job[r].session, Browser(r)) /\ Fresh(job[r].session)
    BY DEF Inv, RequestInv, SessionInv, ServeSensitive, Job, Browser
  <2> QED
    BY <2>1, ReauthWindowAssumption DEF Inv, TypeOK, Sound, Fresh, Session
<1>2. Inv => [Earned]_vars
  BY <1>1
<1> QED
  BY <1>2, Invariance, PTL DEF ReauthEarned

(* Lemma: only the checks take a request from "enforce" to "handle". *)
LEMMA EnforceStep ==
    ASSUME Inv, [Next]_vars, NEW r \in Requests, pc[r] = "enforce", pc'[r] = "handle"
    PROVE  Enforce(r)
<1>1. ASSUME NEW q \in Requests,
             \/ \E b \in Browsers : Send(q, b)
             \/ ServePage(q) \/ ServeSensitive(q) \/ Reauth(q) \/ Logout(q)
             \/ StartSession(q) \/ CommitChange(q) \/ LockTimeout(q)
      PROVE  FALSE
  BY <1>1 DEF Inv, TypeOK, Send, ServePage, ServeSensitive, Reauth, Logout, StartSession,
              CommitChange, LockTimeout, Reply
<1>2. ASSUME NEW q \in Requests, VerifyLogin(q) \/ StampChange(q) \/ Receive(q) \/ Lose(q)
      PROVE  FALSE
  BY <1>2 DEF Inv, TypeOK, VerifyLogin, StampChange, Receive, Lose
<1>3. ASSUME NEW q \in Requests, Enforce(q)
      PROVE  Enforce(r)
  BY <1>3 DEF Inv, TypeOK, Enforce
<1>4. CASE (\E b \in Browsers : Connect(b) \/ Disconnect(b)) \/ Suspend \/ Activate \/ Tick
            \/ UNCHANGED vars
  BY <1>4 DEF Connect, Disconnect, Suspend, Activate, Tick, vars
<1> QED
  BY <1>1, <1>2, <1>3, <1>4 DEF Next

(* Lemma: whom the checks let in, and what of the session they looked at. *)
LEMMA Checked ==
    ASSUME Inv, [Next]_vars, NEW r \in Requests, pc[r] = "enforce", pc'[r] = "handle"
    PROVE  /\ Browser(r) \in Browsers
           /\ job'[r].session # None <=> Accepted(job[r].session)
           /\ job[r].session # None =>
                job[r].session \in Session /\ Sound(job[r].session, Browser(r))
<1>1. Enforce(r)
  BY EnforceStep
<1>2. job[r] \in Job
  BY DEF Inv, RequestInv
<1>3. /\ Browser(r) \in Browsers
      /\ job[r].session # None =>
           job[r].session \in Session /\ Sound(job[r].session, Browser(r))
  BY <1>2 DEF Inv, SessionInv, Job, Browser
<1>4. Accepted(job[r].session) => Refreshed(job[r].session) \in Session
  BY <1>3 DEF Inv, TypeOK, Accepted, Readable, Refreshed, Session
<1>5. job'[r].session = IF Accepted(job[r].session) THEN Refreshed(job[r].session) ELSE None
  BY <1>1, <1>2 DEF Inv, TypeOK, Enforce
<1> QED
  BY <1>3, <1>4, <1>5, Values

(* A request is let in only with the password as it is now, unless the login
   and the change ran side by side (security.py:156). *)
THEOREM Revoked == Spec => PasswordChangeRevokes
<1> DEFINE Step == \A r \in Requests :
             (pc[r] = "enforce" /\ pc'[r] = "handle" /\ job'[r].session # None) =>
                 job[r].session.typed = password \/ job[r].session.raced
<1>1. Inv /\ [Next]_vars => [Step]_vars
  <2> SUFFICES ASSUME Inv, [Next]_vars, NEW r \in Requests, pc[r] = "enforce", pc'[r] = "handle", job'[r].session # None,
                      ~job[r].session.raced
               PROVE  job[r].session.typed = password
    OBVIOUS
  <2>1. /\ job[r].session \in Session /\ Sound(job[r].session, Browser(r))
        /\ Accepted(job[r].session)
    BY Checked DEF Accepted, Readable
  <2> QED
    BY <2>1 DEF Inv, TypeOK, Sound, Accepted, Session
<1> QED
  BY <1>1, Invariance, PTL DEF Spec, PasswordChangeRevokes

(* A request is let in only within the idle time, and refused only after it if
   requests come one by one and all answers arrive (security.py:143), as long as
   the session is not older than the lifetime. *)
THEOREM Idled == Spec => IdleTimeKept
<1> DEFINE Step == \A r \in Requests : (pc[r] = "enforce" /\ pc'[r] = "handle") =>
             LET b == Browser(r)
                 s == job[r].session
                 within == served[b] # None /\ clock - served[b] <= Idle
             IN IF job'[r].session # None THEN within
                ELSE (s # None /\ calm[b] /\ within /\ clock - s.began <= Lifetime) =>
                         status # "active" \/ s.typed # password \/ s.raced
<1>1. Inv /\ [Next]_vars => [Step]_vars
  <2> SUFFICES ASSUME Inv, [Next]_vars, NEW r \in Requests, pc[r] = "enforce", pc'[r] = "handle"
               PROVE  LET b == Browser(r)
                          s == job[r].session
                          within == served[b] # None /\ clock - served[b] <= Idle
                      IN IF job'[r].session # None THEN within
                         ELSE (s # None /\ calm[b] /\ within /\ clock - s.began <= Lifetime) =>
                                  status # "active" \/ s.typed # password \/ s.raced
    OBVIOUS
  <2> DEFINE b == Browser(r)
             s == job[r].session
  <2>1. CASE job'[r].session # None
    <3>1. s \in Session /\ Sound(s, b) /\ b \in Browsers /\ clock - s.seen <= Idle
      BY <2>1, Checked DEF Accepted, Readable
    <3>2. served[b] # None /\ s.seen <= served[b] /\ s.seen \in Nat /\ served[b] \in Nat
      BY <3>1 DEF Inv, TypeOK, Sound, Session
    <3> QED
      BY <2>1, <3>1, <3>2, IdleAssumption DEF Inv, TypeOK
  <2>2. ASSUME job'[r].session = None, s # None, calm[b],
               served[b] # None, clock - served[b] <= Idle,
               status = "active", s.typed = password, ~s.raced
        PROVE  FALSE
    <3>1. ~Accepted(s) /\ s \in Session /\ Sound(s, b) /\ b \in Browsers
      BY <2>2, Checked
    <3>2. s.seen = served[b] /\ s.seen <= s.signed
      BY <2>2, <3>1 DEF Inv, CalmInv, SessionInv, InProgress, Current
    <3>3. /\ s.seen \in Nat /\ s.signed \in Nat /\ s.auth \in Nat /\ s.typed \in Nat
          /\ clock \in Nat /\ changedAt \in Nat
      BY <3>1 DEF Inv, TypeOK, Session
    <3>4. clock - s.seen <= Idle /\ clock - s.signed <= Lifetime
      BY <2>2, <3>2, <3>3, IdleAssumption, LifetimeAssumption, IdleWithinLifetimeAssumption
    <3>5. s.auth >= changedAt
      BY <2>2, <3>1 DEF Inv, ChangeInv, Sound
    <3> QED
      BY <2>2, <3>1, <3>4, <3>5 DEF Accepted, Readable
  <2> QED
    BY <2>1, <2>2
<1> QED
  BY <1>1, Invariance, PTL DEF Spec, IdleTimeKept

===============================================================================
