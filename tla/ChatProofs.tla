------------------------------ MODULE ChatProofs ------------------------------
(***************************************************************************)
(* Proofs about Chat: for any users, tabs, messages and limits, whatever   *)
(* the threads, the connections and the administrators do.                 *)
(***************************************************************************)
EXTENDS Chat, ChatLimiterProofs

\* Steps before a message is stored, and after.
Waiting == {"partner", "clock", "limit", "store"}
Sending == {"emit", "send"}

Message == {j \in Job : j.from # j.to}

\* A request has a message from when it was accepted, and for good once it is
\* stored; it is stored before it is sent.
JobInv ==
    \A r \in Requests :
        /\ (pc[r] \in Waiting \cup Sending \/ r \in stored) => job[r] \in Message
        /\ pc[r] \in Sending => r \in stored
        /\ r \in stored => pc[r] \in Sending \cup {"done"}

\* A message is on its way to open sockets of its room only, and back to one
\* socket of its author only.
RoomInv ==
    \A r \in Requests :
        /\ \A c \in rest[r] : /\ pc[r] = "send"
                              /\ job[r].to \in {All, Owner[c]}
                              /\ conn[c] = "joined"
        /\ \A c \in own[r] : /\ pc[r] # "new"
                             /\ job[r].socket
                             /\ job[r].from = Owner[c]
                             /\ job[r].to # All
                             /\ conn[c] = "joined"
        /\ \A c, d \in own[r] : c = d

\* What a socket received was sent, and will not be sent to it again.
ReceivedInv ==
    \A c \in Clients : \A r \in Elements(received[c]) :
        /\ r \in stored
        /\ pc[r] \in {"send", "done"}
        /\ c \notin rest[r]
        /\ c \in own[r] => pc[r] = "done"

\* A tab begins with nothing.
ClosedInv ==
    \A c \in Clients : conn[c] = "closed" => page[c] = {} /\ received[c] = <<>>

\* r has been sent to the room of c, and c shows its conversation.
Due(r, c) ==
    /\ r \in stored
    /\ pc[r] \in {"send", "done"}
    /\ job[r].socket
    /\ OnPage(r, c)
    /\ job[r].to \in {All, Owner[c]}

\* What is due to a tab is on its page, was received, is on its way, or cannot
\* be had.
ScreenInv ==
    \A c \in Clients, r \in Requests : (conn[c] # "closed" /\ Due(r, c)) =>
        r \in page[c] \cup Elements(received[c]) \cup missed[c] \/ c \in rest[r]

\* What was sent back to a socket was received.
EchoInv ==
    \A c \in Clients, r \in Requests :
        (c \in own[r] /\ pc[r] = "done") => r \in Elements(received[c])

\* What a request was sent after stays finished.
AfterInv ==
    \A r \in Requests : (pc[r] \in Waiting \cup Sending \/ r \in stored) =>
        \A q \in job[r].after : pc[q] = "done"

\* Unless somebody was suspended meanwhile, the author was active when the
\* request was accepted and is still, and so is the partner who was found.
WatchInv ==
    \A r \in Requests \ grace :
        /\ pc[r] \in Waiting => Active(job[r].from)
        /\ (pc[r] \in Waiting \ {"partner"} /\ job[r].to # All) => Active(job[r].to)

ChatInv ==
    /\ ChatTypeOK
    /\ JobInv
    /\ RoomInv
    /\ ReceivedInv
    /\ ClosedInv
    /\ ScreenInv
    /\ EchoInv
    /\ AfterInv
    /\ OrderKept
    /\ WatchInv
-----------------------------------------------------------------------------

\* One more message in a socket.
LEMMA ElementsOfAppend ==
    ASSUME NEW S, NEW s \in Seq(S), NEW e \in S
    PROVE  Elements(Append(s, e)) = Elements(s) \cup {e}
BY AppendProperties, LenProperties DEF Elements

\* The job of an accepted request.
LEMMA AcceptedJob ==
    ASSUME ChatInv, NEW r \in Requests, NEW u \in Users, NEW to \in {All} \cup Recipients(u),
           NEW socket \in BOOLEAN, Accept(r, u, to, socket)
    PROVE  /\ pc[r] = "new"
           /\ job' \in [Requests -> Job \cup {None}]
           /\ job'[r] \in Message
           /\ job'[r].from = u
           /\ job'[r].to = to
           /\ job'[r].socket = socket
           /\ \A q \in job'[r].after : q \in Requests /\ pc[q] = "done"
           /\ \A q \in Requests \ {r} : job'[q] = job[q] /\ pc'[q] = pc[q]
           /\ pc' \in [Requests -> Steps]
           /\ pc'[r] \in {"clock", "partner"}
           /\ pc'[r] = "partner" <=> to # All
<1> DEFINE j == [from |-> u, to |-> to, socket |-> socket,
                 after |-> {q \in Requests : Finished(q)}]
<1>1. job' = [job EXCEPT ![r] = j] /\ job \in [Requests -> Job \cup {None}]
  BY DEF Accept, ChatInv, ChatTypeOK
<1>2. j \in Message
  BY AudienceAssumption DEF Message, Job, Recipients
<1>3. job'[r] = j /\ \A q \in Requests \ {r} : job'[q] = job[q]
  BY <1>1
<1>4. job' \in [Requests -> Job \cup {None}]
  BY <1>1, <1>2 DEF Message
<1>5. \A q \in j.after : q \in Requests /\ pc[q] = "done"
  BY DEF Finished
<1>6. /\ pc[r] = "new"
      /\ pc' = [pc EXCEPT ![r] = IF to = All THEN "clock" ELSE "partner"]
      /\ pc \in [Requests -> Steps]
  BY DEF Accept, Goto, ChatInv, ChatTypeOK
<1>7. /\ pc' \in [Requests -> Steps]
      /\ pc'[r] \in {"clock", "partner"}
      /\ pc'[r] = "partner" <=> to # All
      /\ \A q \in Requests \ {r} : pc'[q] = pc[q]
  BY <1>6 DEF Steps
<1>8. j.from = u /\ j.to = to /\ j.socket = socket
  OBVIOUS
<1> HIDE DEF j
<1> QED
  BY <1>2, <1>3, <1>4, <1>5, <1>6, <1>7, <1>8

\* Where r can be seen, or has still to come.
Reached(r, c) == r \in page[c] \cup Elements(received[c]) \cup missed[c] \/ c \in rest[r]

\* ScreenInv stays if nothing becomes due and nothing disappears.
LEMMA ScreenStays ==
    ASSUME ScreenInv,
           \A q \in Requests :
               (q \in stored' /\ pc'[q] \in {"send", "done"} /\ job'[q].socket) =>
                   q \in stored /\ pc[q] \in {"send", "done"} /\ job'[q] = job[q],
           \A c \in Clients : conn'[c] # "closed" => conn[c] # "closed",
           \A q \in Requests, c \in Clients : Reached(q, c) => Reached(q, c)'
    PROVE  ScreenInv'
<1> SUFFICES ASSUME NEW q \in Requests, NEW c \in Clients, conn'[c] # "closed", Due(q, c)'
             PROVE  Reached(q, c)'
  BY DEF ScreenInv, Reached
<1>1. Due(q, c)
  BY DEF Due, OnPage
<1> QED
  BY <1>1 DEF ScreenInv, Reached

\* The order on every socket stays if nothing is received.
LEMMA OrderStays ==
    ASSUME ChatInv, received' = received, \A q \in stored : job'[q] = job[q]
    PROVE  OrderKept'
<1> SUFFICES ASSUME NEW c \in Clients, NEW i \in DOMAIN received[c],
                    NEW j \in DOMAIN received[c], i < j
             PROVE  received[c][j] \notin {received[c][i]} \cup job'[received[c][i]].after
  BY DEF OrderKept
<1>1. received[c][i] \in stored
  BY DEF Elements, ChatInv, ReceivedInv
<1> QED
  BY <1>1 DEF ChatInv, OrderKept

\* The order stays if a message is received that was not received before: it is
\* not done with, as all are that an earlier one was sent after.
LEMMA DeliveryInOrder ==
    ASSUME ChatInv, NEW r \in Requests, NEW cs \in SUBSET Clients, Deliver(r, cs),
           pc[r] = "send", job' = job, \A c \in cs : r \notin Elements(received[c])
    PROVE  OrderKept'
<1> SUFFICES ASSUME NEW c \in Clients, NEW i \in DOMAIN received'[c],
                    NEW j \in DOMAIN received'[c], i < j
             PROVE  received'[c][j] \notin {received'[c][i]} \cup job[received'[c][i]].after
  BY DEF OrderKept
<1>1. received[c] \in Seq(Requests)
  BY DEF ChatInv, ChatTypeOK
<1>2. CASE c \notin cs
  BY <1>2 DEF Deliver, ChatInv, OrderKept
<1>3. CASE c \in cs
  <2> DEFINE n == Len(received[c])
  <2>1. /\ received'[c] = Append(received[c], r)
        /\ n \in Nat
        /\ DOMAIN received'[c] = 1 .. n + 1
        /\ DOMAIN received[c] = 1 .. n
        /\ \A k \in 1 .. n : received'[c][k] = received[c][k]
        /\ received'[c][n + 1] = r
    BY <1>1, <1>3, AppendProperties, LenProperties DEF Deliver
  <2> HIDE DEF n
  <2>2. i \in 1 .. n /\ (j \in 1 .. n \/ j = n + 1)
    BY <2>1
  <2>3. CASE j \in 1 .. n
    BY <2>1, <2>2, <2>3 DEF ChatInv, OrderKept
  <2>4. CASE j = n + 1
    <3>1. received[c][i] \in Elements(received[c])
      BY <2>1, <2>2 DEF Elements
    <3>2. received[c][i] # r
      BY <3>1, <1>3
    <3>3. received[c][i] \in stored /\ received[c][i] \in Requests
      BY <3>1, <1>1, <2>1, <2>2 DEF ChatInv, ReceivedInv
    <3>4. \A q \in job[received[c][i]].after : pc[q] = "done"
      BY <3>3 DEF ChatInv, AfterInv
    <3> QED
      BY <2>1, <2>2, <2>4, <3>2, <3>4
  <2> QED
    BY <2>2, <2>3, <2>4
<1> QED
  BY <1>2, <1>3

\* A request that is accepted, by socket or by form.
LEMMA AcceptPreserves ==
    ASSUME ChatInv, NEW r \in Requests, NEW u \in Users, NEW to \in {All} \cup Recipients(u),
           NEW socket \in BOOLEAN, Accept(r, u, to, socket), Active(u),
           UNCHANGED <<status, stored, rest, tabs, suspensions, grace>>,
           own' \in [Requests -> SUBSET Clients],
           \A q \in Requests \ {r} : own'[q] = own[q],
           \A c \in own'[r] : socket /\ Owner[c] = u /\ to # All /\ conn[c] = "joined",
           \A c, d \in own'[r] : c = d
    PROVE  ChatInv'
<1>1. /\ pc[r] = "new"
      /\ job' \in [Requests -> Job \cup {None}]
      /\ job'[r] \in Message
      /\ job'[r].from = u
      /\ job'[r].to = to
      /\ job'[r].socket = socket
      /\ \A q \in job'[r].after : q \in Requests /\ pc[q] = "done"
      /\ \A q \in Requests \ {r} : job'[q] = job[q] /\ pc'[q] = pc[q]
      /\ pc' \in [Requests -> Steps]
      /\ pc'[r] \in {"clock", "partner"}
      /\ pc'[r] = "partner" <=> to # All
  BY AcceptedJob
<1>2. r \notin stored /\ stored \subseteq Requests
  BY <1>1 DEF ChatInv, ChatTypeOK, JobInv, Sending
<1>3. ChatTypeOK'
  BY <1>1 DEF ChatInv, ChatTypeOK, tabs
<1>4. JobInv'
  BY <1>1, <1>2 DEF ChatInv, JobInv, Sending
<1>5. RoomInv'
  BY <1>1, <1>2 DEF ChatInv, RoomInv, tabs
<1>6. ReceivedInv'
  <2> SUFFICES ASSUME NEW c \in Clients, NEW q \in Elements(received[c])
               PROVE  /\ q \in stored
                      /\ pc'[q] \in {"send", "done"}
                      /\ c \notin rest[q]
                      /\ c \in own'[q] => pc'[q] = "done"
    BY DEF ReceivedInv, tabs
  <2>1. q \in stored /\ q \in Requests \ {r}
    BY <1>2 DEF ChatInv, ReceivedInv
  <2> QED
    BY <1>1, <2>1 DEF ChatInv, ReceivedInv
<1>7. ClosedInv'
  BY DEF ChatInv, ClosedInv, tabs
<1>8. ScreenInv'
  <2>1. \A q \in Requests :
            (q \in stored' /\ pc'[q] \in {"send", "done"} /\ job'[q].socket) =>
                q \in stored /\ pc[q] \in {"send", "done"} /\ job'[q] = job[q]
    BY <1>1, <1>2
  <2>2. \A q \in Requests, d \in Clients : Reached(q, d) => Reached(q, d)'
    BY DEF Reached, tabs
  <2> QED
    BY <2>1, <2>2, ScreenStays DEF ChatInv, tabs
<1>9. EchoInv'
  BY <1>1 DEF ChatInv, EchoInv, tabs
<1>10. AfterInv'
  <2> SUFFICES ASSUME NEW q \in Requests, pc'[q] \in Waiting \cup Sending \/ q \in stored,
                      NEW p \in job'[q].after
               PROVE  pc'[p] = "done"
    BY DEF AfterInv
  <2>1. CASE q = r
    BY <1>1, <2>1
  <2>2. CASE q # r
    <3>1. pc[q] \in Waiting \cup Sending \/ q \in stored
      BY <1>1, <2>2
    <3>2. p \in job[q].after /\ job[q] \in Job
      BY <1>1, <2>2, <3>1 DEF ChatInv, JobInv, Message
    <3>3. pc[p] = "done" /\ p \in Requests
      BY <3>1, <3>2 DEF ChatInv, AfterInv, Job
    <3> QED
      BY <1>1, <3>3
  <2> QED
    BY <2>1, <2>2
<1>11. OrderKept'
  BY <1>1, <1>2, OrderStays DEF tabs
<1>12. WatchInv'
  <2> SUFFICES ASSUME NEW q \in Requests \ grace
               PROVE  /\ pc'[q] \in Waiting => Active(job'[q].from)
                      /\ (pc'[q] \in Waiting \ {"partner"} /\ job'[q].to # All) =>
                            Active(job'[q].to)
    BY DEF WatchInv, Active
  <2>1. CASE q = r
    BY <1>1, <2>1
  <2>2. CASE q # r
    BY <1>1, <2>2 DEF ChatInv, WatchInv
  <2> QED
    BY <2>1, <2>2
<1> QED
  BY <1>3, <1>4, <1>5, <1>6, <1>7, <1>8, <1>9, <1>10, <1>11, <1>12 DEF ChatInv

\* By socket: its author's socket is where the message goes back to.
LEMMA SocketEventPreserves ==
    ASSUME ChatInv, NEW r \in Requests, NEW c \in Clients, SocketEvent(r, c)
    PROVE  ChatInv'
<1>1. PICK to \in {All} \cup Recipients(Owner[c]) :
        /\ Accept(r, Owner[c], to, TRUE)
        /\ own' = [own EXCEPT ![r] = IF to = All THEN {} ELSE {c}]
  BY DEF SocketEvent
<1>2. Owner[c] \in Users
  BY OwnerAssumption
<1>3. /\ own' \in [Requests -> SUBSET Clients]
      /\ own'[r] = IF to = All THEN {} ELSE {c}
      /\ \A q \in Requests \ {r} : own'[q] = own[q]
  BY <1>1 DEF ChatInv, ChatTypeOK
<1>4. /\ Active(Owner[c]) /\ conn[c] = "joined"
      /\ UNCHANGED <<status, stored, rest, tabs, suspensions, grace>>
  BY DEF SocketEvent
<1>5. /\ \A d \in own'[r] : TRUE /\ Owner[d] = Owner[c] /\ to # All /\ conn[d] = "joined"
      /\ \A d, e \in own'[r] : d = e
  BY <1>3, <1>4
<1>6. Accept(r, Owner[c], to, TRUE) /\ to \in {All} \cup Recipients(Owner[c])
  BY <1>1
<1> QED
  BY <1>2, <1>3, <1>4, <1>5, <1>6, AcceptPreserves

\* By form: it does not go back anywhere.
LEMMA SubmitFormPreserves ==
    ASSUME ChatInv, NEW r \in Requests, NEW u \in Users, SubmitForm(r, u)
    PROVE  ChatInv'
<1>1. PICK to \in Recipients(u) : Accept(r, u, to, FALSE)
  BY DEF SubmitForm
<1>2. own' = own /\ own \in [Requests -> SUBSET Clients] /\ pc[r] = "new"
  BY <1>1 DEF SubmitForm, ChatInv, ChatTypeOK, Accept
<1>3. own[r] = {}
  BY <1>2 DEF ChatInv, RoomInv
<1>4. Active(u) /\ UNCHANGED <<status, stored, rest, tabs, suspensions, grace>>
  BY DEF SubmitForm
<1> QED
  BY <1>1, <1>2, <1>3, <1>4, AcceptPreserves

\* The partner is active.
LEMMA FindPartnerPreserves ==
    ASSUME ChatInv, NEW r \in Requests, FindPartner(r)
    PROVE  ChatInv'
<1>1. ChatTypeOK'
  BY DEF ChatInv, ChatTypeOK, FindPartner, Goto, requests, tabs, Steps
<1>2. JobInv'
  BY DEF ChatInv, JobInv, FindPartner, Goto, requests, Waiting, Sending
<1>3. RoomInv'
  BY DEF ChatInv, RoomInv, FindPartner, Goto, requests, tabs
<1>4. ReceivedInv'
  BY DEF ChatInv, ReceivedInv, FindPartner, Goto, requests, tabs
<1>5. ClosedInv'
  BY DEF ChatInv, ClosedInv, FindPartner, tabs
<1>6. ScreenInv'
  <2>1. \A q \in Requests :
            (q \in stored' /\ pc'[q] \in {"send", "done"} /\ job'[q].socket) =>
                q \in stored /\ pc[q] \in {"send", "done"} /\ job'[q] = job[q]
    BY DEF FindPartner, Goto, requests
  <2>2. \A q \in Requests, d \in Clients : Reached(q, d) => Reached(q, d)'
    BY DEF Reached, FindPartner, requests, tabs
  <2> QED
    BY <2>1, <2>2, ScreenStays DEF ChatInv, FindPartner, tabs
<1>7. EchoInv'
  BY DEF ChatInv, EchoInv, FindPartner, Goto, requests, tabs
<1>8. AfterInv'
  BY DEF ChatInv, AfterInv, FindPartner, Goto, requests, Waiting
<1>9. OrderKept'
  BY DEF ChatInv, OrderKept, FindPartner, requests, tabs
<1>10. WatchInv'
  BY DEF ChatInv, WatchInv, FindPartner, Goto, requests, Waiting, Active
<1> QED
  BY <1>1, <1>2, <1>3, <1>4, <1>5, <1>6, <1>7, <1>8, <1>9, <1>10 DEF ChatInv

\* A step that only moves the request on.
LEMMA EnterLimiterPreserves ==
    ASSUME ChatInv, NEW r \in Requests, EnterLimiter(r)
    PROVE  ChatInv'
<1>1. ChatTypeOK'
  BY DEF ChatInv, ChatTypeOK, EnterLimiter, Goto, requests, tabs, Steps
<1>2. JobInv'
  BY DEF ChatInv, JobInv, EnterLimiter, Goto, requests, Waiting, Sending
<1>3. RoomInv'
  BY DEF ChatInv, RoomInv, EnterLimiter, Goto, requests, tabs
<1>4. ReceivedInv'
  BY DEF ChatInv, ReceivedInv, EnterLimiter, Goto, requests, tabs
<1>5. ClosedInv'
  BY DEF ChatInv, ClosedInv, EnterLimiter, tabs
<1>6. ScreenInv'
  <2>1. \A q \in Requests :
            (q \in stored' /\ pc'[q] \in {"send", "done"} /\ job'[q].socket) =>
                q \in stored /\ pc[q] \in {"send", "done"} /\ job'[q] = job[q]
    BY DEF EnterLimiter, Goto, requests
  <2>2. \A q \in Requests, d \in Clients : Reached(q, d) => Reached(q, d)'
    BY DEF Reached, EnterLimiter, requests, tabs
  <2> QED
    BY <2>1, <2>2, ScreenStays DEF ChatInv, EnterLimiter, tabs
<1>7. EchoInv'
  BY DEF ChatInv, EchoInv, EnterLimiter, Goto, requests, tabs
<1>8. AfterInv'
  BY DEF ChatInv, AfterInv, EnterLimiter, Goto, requests, Waiting
<1>9. OrderKept'
  BY DEF ChatInv, OrderKept, EnterLimiter, requests, tabs
<1>10. WatchInv'
  BY DEF ChatInv, WatchInv, EnterLimiter, Goto, requests, Waiting, Active
<1> QED
  BY <1>1, <1>2, <1>3, <1>4, <1>5, <1>6, <1>7, <1>8, <1>9, <1>10 DEF ChatInv

\* A step that only moves the request on.
LEMMA AdmitPreserves ==
    ASSUME ChatInv, NEW r \in Requests, Admit(r)
    PROVE  ChatInv'
<1>1. ChatTypeOK'
  BY DEF ChatInv, ChatTypeOK, Admit, After, Goto, requests, tabs, Steps
<1>2. JobInv'
  BY DEF ChatInv, JobInv, Admit, After, Goto, requests, Waiting, Sending
<1>3. RoomInv'
  BY DEF ChatInv, RoomInv, Admit, After, Goto, requests, tabs
<1>4. ReceivedInv'
  BY DEF ChatInv, ReceivedInv, Admit, Goto, requests, tabs
<1>5. ClosedInv'
  BY DEF ChatInv, ClosedInv, Admit, tabs
<1>6. ScreenInv'
  <2>1. \A q \in Requests :
            (q \in stored' /\ pc'[q] \in {"send", "done"} /\ job'[q].socket) =>
                q \in stored /\ pc[q] \in {"send", "done"} /\ job'[q] = job[q]
    BY DEF Admit, After, Goto, requests
  <2>2. \A q \in Requests, d \in Clients : Reached(q, d) => Reached(q, d)'
    BY DEF Reached, Admit, requests, tabs
  <2> QED
    BY <2>1, <2>2, ScreenStays DEF ChatInv, Admit, tabs
<1>7. EchoInv'
  BY DEF ChatInv, EchoInv, Admit, After, Goto, requests, tabs
<1>8. AfterInv'
  BY DEF ChatInv, AfterInv, Admit, Goto, requests, Waiting
<1>9. OrderKept'
  BY DEF ChatInv, OrderKept, Admit, requests, tabs
<1>10. WatchInv'
  BY DEF ChatInv, WatchInv, Admit, Goto, requests, Waiting, Active
<1> QED
  BY <1>1, <1>2, <1>3, <1>4, <1>5, <1>6, <1>7, <1>8, <1>9, <1>10 DEF ChatInv

\* A form's message is done with, and never due to a socket.
LEMMA StoreMessagePreserves ==
    ASSUME ChatInv, NEW r \in Requests, StoreMessage(r)
    PROVE  ChatInv'
<1>1. ChatTypeOK'
  BY DEF ChatInv, ChatTypeOK, StoreMessage, After, Goto, requests, tabs, Steps
<1>2. JobInv'
  BY DEF ChatInv, ChatTypeOK, JobInv, StoreMessage, After, Goto, requests, Waiting, Sending
<1>3. RoomInv'
  BY DEF ChatInv, RoomInv, StoreMessage, After, Goto, requests, tabs
<1>4. ReceivedInv'
  BY DEF ChatInv, ReceivedInv, StoreMessage, Goto, requests, tabs
<1>5. ClosedInv'
  BY DEF ChatInv, ClosedInv, StoreMessage, tabs
<1>6. ScreenInv'
  <2>1. \A q \in Requests :
            (q \in stored' /\ pc'[q] \in {"send", "done"} /\ job'[q].socket) =>
                q \in stored /\ pc[q] \in {"send", "done"} /\ job'[q] = job[q]
    BY DEF StoreMessage, After, Goto, requests
  <2>2. \A q \in Requests, d \in Clients : Reached(q, d) => Reached(q, d)'
    BY DEF Reached, StoreMessage, requests, tabs
  <2> QED
    BY <2>1, <2>2, ScreenStays DEF ChatInv, StoreMessage, tabs
<1>7. EchoInv'
  BY DEF ChatInv, RoomInv, EchoInv, StoreMessage, After, Goto, requests, tabs
<1>8. AfterInv'
  BY DEF ChatInv, AfterInv, StoreMessage, Goto, requests, Waiting
<1>9. OrderKept'
  BY DEF ChatInv, OrderKept, StoreMessage, requests, tabs
<1>10. WatchInv'
  BY DEF ChatInv, ChatTypeOK, WatchInv, StoreMessage, After, Goto, requests, Waiting, Active
<1> QED
  BY <1>1, <1>2, <1>3, <1>4, <1>5, <1>6, <1>7, <1>8, <1>9, <1>10 DEF ChatInv

\* The tabs that are in the room have the message to come, and those that have a
\* page and no socket will not have it.
LEMMA EmitPreserves ==
    ASSUME ChatInv, NEW r \in Requests, Emit(r)
    PROVE  ChatInv'
<1>1. ChatTypeOK'
  BY DEF ChatInv, ChatTypeOK, Emit, Room, Goto, Steps
<1>2. JobInv'
  BY DEF ChatInv, JobInv, Emit, Goto, Sending
<1>3. RoomInv'
  BY DEF ChatInv, ChatTypeOK, RoomInv, Emit, Room, Goto
<1>4. ReceivedInv'
  BY DEF ChatInv, ReceivedInv, Emit, Goto
<1>5. ClosedInv'
  BY DEF ChatInv, ClosedInv, Emit
<1>6. ScreenInv'
  <2> SUFFICES ASSUME NEW q \in Requests, NEW c \in Clients, conn'[c] # "closed", Due(q, c)'
               PROVE  Reached(q, c)'
    BY DEF ScreenInv, Reached
  <2>1. /\ stored' = stored /\ job' = job /\ conn' = conn /\ page' = page
        /\ received' = received
        /\ rest' = [rest EXCEPT ![r] = Room(job[r].to)]
        /\ pc' = [pc EXCEPT ![r] = "send"]
        /\ rest \in [Requests -> SUBSET Clients] /\ pc \in [Requests -> Steps]
        /\ conn[c] \in {"closed", "page", "joined", "dropped"}
    BY DEF Emit, Goto, ChatInv, ChatTypeOK
  <2>2. missed'[c] = IF conn[c] \in {"page", "dropped"} /\ job[r].to \in {All, Owner[c]}
                     THEN missed[c] \cup {r} ELSE missed[c]
    BY DEF Emit
  <2>3. CASE q = r
    <3>1. job[r].to \in {All, Owner[c]}
      BY <2>1, <2>3 DEF Due
    <3>2. rest'[r] = {d \in Clients : conn[d] = "joined" /\ job[r].to \in {All, Owner[d]}}
      BY <2>1 DEF Room
    <3> QED
      BY <2>1, <2>2, <2>3, <3>1, <3>2 DEF Reached
  <2>4. CASE q # r
    <3>1. Due(q, c)
      BY <2>1, <2>4 DEF Due, OnPage
    <3>2. Reached(q, c)
      BY <2>1, <3>1 DEF ChatInv, ScreenInv, Reached
    <3> QED
      BY <2>1, <2>2, <2>4, <3>2 DEF Reached
  <2> QED
    BY <2>3, <2>4
<1>7. EchoInv'
  BY DEF ChatInv, EchoInv, Emit, Goto
<1>8. AfterInv'
  BY DEF ChatInv, AfterInv, Emit, Goto, Sending
<1>9. OrderKept'
  BY DEF ChatInv, OrderKept, Emit
<1>10. WatchInv'
  BY DEF ChatInv, WatchInv, Emit, Goto, Waiting, Active
<1> QED
  BY <1>1, <1>2, <1>3, <1>4, <1>5, <1>6, <1>7, <1>8, <1>9, <1>10 DEF ChatInv

\* One socket of the room gets the message, which is not the author's own unless
\* everybody gets it.
LEMMA SendToPreserves ==
    ASSUME ChatInv, NEW r \in Requests, NEW c \in Clients, SendTo(r, c)
    PROVE  ChatInv'
<1>0. /\ c \in rest[r] /\ pc[r] = "send" /\ r \in stored
      /\ c \notin own[r]
      /\ r \notin Elements(received[c])
      /\ \A d \in Clients :
            Elements(received'[d]) = Elements(received[d]) \cup (IF d = c THEN {r} ELSE {})
  <2>1. c \in rest[r] /\ pc[r] = "send" /\ job[r].to \in {All, Owner[c]}
    BY DEF SendTo, ChatInv, RoomInv
  <2>2. r \in stored /\ job[r].from # job[r].to
    BY <2>1 DEF ChatInv, JobInv, Message, Sending
  <2>3. c \notin own[r]
    BY <2>1, <2>2 DEF ChatInv, RoomInv
  <2>4. r \notin Elements(received[c])
    BY <2>1 DEF ChatInv, ReceivedInv
  <2>5. ASSUME NEW d \in Clients
        PROVE  Elements(received'[d]) = Elements(received[d]) \cup (IF d = c THEN {r} ELSE {})
    <3>1. received[d] \in Seq(Requests)
      BY DEF ChatInv, ChatTypeOK
    <3>2. received'[d] = IF d = c THEN Append(received[d], r) ELSE received[d]
      BY DEF SendTo, Deliver
    <3> QED
      BY <3>1, <3>2, ElementsOfAppend
  <2> QED
    BY <2>1, <2>2, <2>3, <2>4, <2>5
<1>1. ChatTypeOK'
  BY DEF ChatInv, ChatTypeOK, SendTo, Deliver
<1>2. JobInv'
  BY DEF ChatInv, JobInv, SendTo
<1>3. RoomInv'
  BY DEF ChatInv, RoomInv, SendTo
<1>4. ReceivedInv'
  <2> SUFFICES ASSUME NEW d \in Clients, NEW q \in Elements(received'[d])
               PROVE  /\ q \in stored
                      /\ pc[q] \in {"send", "done"}
                      /\ d \notin rest'[q]
                      /\ d \in own[q] => pc[q] = "done"
    BY DEF ReceivedInv, SendTo
  <2>1. rest' = [rest EXCEPT ![r] = rest[r] \ {c}] /\ rest \in [Requests -> SUBSET Clients]
    BY DEF SendTo, ChatInv, ChatTypeOK
  <2>2. CASE q \in Elements(received[d])
    BY <2>1, <2>2 DEF ChatInv, ReceivedInv
  <2>3. CASE d = c /\ q = r
    BY <1>0, <2>1, <2>3
  <2>4. q \in Elements(received[d]) \/ (d = c /\ q = r)
    BY <1>0
  <2> QED
    BY <2>2, <2>3, <2>4
<1>5. ClosedInv'
  BY DEF ChatInv, RoomInv, ClosedInv, SendTo, Deliver
<1>6. ScreenInv'
  <2>1. \A q \in Requests, d \in Clients : Reached(q, d) => Reached(q, d)'
    <3> SUFFICES ASSUME NEW q \in Requests, NEW d \in Clients, Reached(q, d)
                 PROVE  Reached(q, d)'
      OBVIOUS
    <3>1. page' = page /\ missed' = missed /\ \A p \in rest[q] : p \in rest'[q] \/ (p = c /\ q = r)
      BY DEF SendTo, ChatInv, ChatTypeOK
    <3> QED
      BY <1>0, <3>1 DEF Reached
  <2>2. UNCHANGED <<stored, pc, job, conn>>
    BY DEF SendTo
  <2> QED
    BY <2>1, <2>2, ScreenStays DEF ChatInv
<1>7. EchoInv'
  BY <1>0 DEF ChatInv, EchoInv, SendTo
<1>8. AfterInv'
  BY DEF ChatInv, AfterInv, SendTo
<1>9. OrderKept'
  <2>1. Deliver(r, {c}) /\ job' = job
    BY DEF SendTo
  <2> QED
    BY <1>0, <2>1, DeliveryInOrder
<1>10. WatchInv'
  BY DEF ChatInv, WatchInv, SendTo, Active
<1> QED
  BY <1>1, <1>2, <1>3, <1>4, <1>5, <1>6, <1>7, <1>8, <1>9, <1>10 DEF ChatInv

\* The author's socket gets it.
LEMMA EchoPreserves ==
    ASSUME ChatInv, NEW r \in Requests, Echo(r)
    PROVE  ChatInv'
<1>0. /\ pc[r] = "send" /\ rest[r] = {} /\ r \in stored
      /\ \A c \in own[r] : r \notin Elements(received[c])
      /\ \A c \in Clients :
            Elements(received'[c]) = Elements(received[c]) \cup (IF c \in own[r] THEN {r} ELSE {})
      /\ pc' = [pc EXCEPT ![r] = "done"]
  <2>1. pc[r] = "send" /\ rest[r] = {} /\ pc' = [pc EXCEPT ![r] = "done"]
    BY DEF Echo, After, Goto
  <2>2. r \in stored
    BY <2>1 DEF ChatInv, JobInv, Sending
  <2>3. \A c \in own[r] : r \notin Elements(received[c])
    BY <2>1 DEF ChatInv, ChatTypeOK, ReceivedInv
  <2>4. ASSUME NEW c \in Clients
        PROVE  Elements(received'[c]) = Elements(received[c]) \cup (IF c \in own[r] THEN {r} ELSE {})
    <3>1. received[c] \in Seq(Requests)
      BY DEF ChatInv, ChatTypeOK
    <3>2. received'[c] = IF c \in own[r] THEN Append(received[c], r) ELSE received[c]
      BY DEF Echo, Deliver
    <3> QED
      BY <3>1, <3>2, ElementsOfAppend
  <2> QED
    BY <2>1, <2>2, <2>3, <2>4
<1>1. ChatTypeOK'
  BY DEF ChatInv, ChatTypeOK, Echo, Deliver, After, Goto, requests, Steps
<1>2. JobInv'
  BY DEF ChatInv, JobInv, Echo, After, Goto, requests, Sending
<1>3. RoomInv'
  BY DEF ChatInv, RoomInv, Echo, After, Goto, requests
<1>4. ReceivedInv'
  <2> SUFFICES ASSUME NEW d \in Clients, NEW q \in Elements(received'[d])
               PROVE  /\ q \in stored
                      /\ pc'[q] \in {"send", "done"}
                      /\ d \notin rest[q]
                      /\ d \in own[q] => pc'[q] = "done"
    BY DEF ReceivedInv, Echo, requests
  <2>1. pc \in [Requests -> Steps] /\ stored \subseteq Requests
    BY DEF ChatInv, ChatTypeOK
  <2>2. CASE q = r
    BY <1>0, <2>1, <2>2
  <2>3. CASE q # r
    <3>1. q \in Elements(received[d])
      BY <1>0, <2>3
    <3> QED
      BY <1>0, <2>1, <2>3, <3>1 DEF ChatInv, ReceivedInv
  <2> QED
    BY <2>2, <2>3
<1>5. ClosedInv'
  BY DEF ChatInv, RoomInv, ClosedInv, Echo, Deliver
<1>6. ScreenInv'
  <2>1. \A q \in Requests, d \in Clients : Reached(q, d) => Reached(q, d)'
    BY <1>0 DEF Reached, Echo, requests
  <2>2. \A q \in Requests :
            (q \in stored' /\ pc'[q] \in {"send", "done"} /\ job'[q].socket) =>
                q \in stored /\ pc[q] \in {"send", "done"} /\ job'[q] = job[q]
    BY <1>0 DEF Echo, requests
  <2>3. conn' = conn
    BY DEF Echo
  <2> QED
    BY <2>1, <2>2, <2>3, ScreenStays DEF ChatInv
<1>7. EchoInv'
  <2>1. own' = own /\ pc \in [Requests -> Steps]
    BY DEF Echo, requests, ChatInv, ChatTypeOK
  <2> QED
    BY <1>0, <2>1 DEF ChatInv, EchoInv
<1>8. AfterInv'
  BY DEF ChatInv, AfterInv, Echo, Goto, requests, Sending
<1>9. OrderKept'
  <2>1. Deliver(r, own[r]) /\ job' = job /\ own[r] \in SUBSET Clients
    BY DEF Echo, requests, ChatInv, ChatTypeOK
  <2> QED
    BY <1>0, <2>1, DeliveryInOrder
<1>10. WatchInv'
  BY DEF ChatInv, WatchInv, Echo, After, Goto, requests, Waiting, Active
<1> QED
  BY <1>1, <1>2, <1>3, <1>4, <1>5, <1>6, <1>7, <1>8, <1>9, <1>10 DEF ChatInv

\* A tab begins with all that is stored, shown or hidden.
LEMMA LoadPagePreserves ==
    ASSUME ChatInv, NEW c \in Clients, LoadPage(c)
    PROVE  ChatInv'
<1>0. PICK history \in SUBSET {m \in stored : OnPage(m, c)} :
        /\ page' = [page EXCEPT ![c] = history]
        /\ missed' = [missed EXCEPT ![c] = {m \in stored : OnPage(m, c)} \ history]
  BY DEF LoadPage, Histories
<1>1. ChatTypeOK'
  BY <1>0 DEF ChatInv, ChatTypeOK, LoadPage, requests
<1>2. JobInv'
  BY DEF ChatInv, JobInv, LoadPage, requests
<1>3. RoomInv'
  BY DEF ChatInv, RoomInv, LoadPage, requests
<1>4. ReceivedInv'
  BY DEF ChatInv, ReceivedInv, LoadPage, requests
<1>5. ClosedInv'
  BY DEF ChatInv, ChatTypeOK, ClosedInv, LoadPage
<1>6. ScreenInv'
  <2> SUFFICES ASSUME NEW q \in Requests, NEW d \in Clients, conn'[d] # "closed", Due(q, d)'
               PROVE  Reached(q, d)'
    BY DEF ScreenInv, Reached
  <2>1. Due(q, d)
    BY DEF LoadPage, requests, Due, OnPage
  <2>2. CASE d = c
    <3>1. page'[c] = history /\ missed'[c] = {m \in stored : OnPage(m, c)} \ history
      BY <1>0 DEF ChatInv, ChatTypeOK
    <3> QED
      BY <2>1, <2>2, <3>1 DEF Due, Reached
  <2>3. CASE d # c
    <3>1. /\ conn'[d] = conn[d] /\ page'[d] = page[d] /\ missed'[d] = missed[d]
          /\ received' = received /\ rest' = rest
      BY <1>0, <2>3 DEF LoadPage, requests
    <3> QED
      BY <2>1, <3>1 DEF ChatInv, ScreenInv, Reached
  <2> QED
    BY <2>2, <2>3
<1>7. EchoInv'
  BY DEF ChatInv, EchoInv, LoadPage, requests
<1>8. AfterInv'
  BY DEF ChatInv, AfterInv, LoadPage, requests
<1>9. OrderKept'
  BY DEF ChatInv, OrderKept, LoadPage, requests
<1>10. WatchInv'
  BY DEF ChatInv, WatchInv, LoadPage, requests, Active
<1> QED
  BY <1>1, <1>2, <1>3, <1>4, <1>5, <1>6, <1>7, <1>8, <1>9, <1>10 DEF ChatInv

\* A socket opens.
LEMMA JoinPreserves ==
    ASSUME ChatInv, NEW c \in Clients, Join(c)
    PROVE  ChatInv'
<1>1. ChatTypeOK'
  BY DEF ChatInv, ChatTypeOK, Join, requests
<1>2. JobInv'
  BY DEF ChatInv, JobInv, Join, requests
<1>3. RoomInv'
  BY DEF ChatInv, RoomInv, Join, requests
<1>4. ReceivedInv'
  BY DEF ChatInv, ReceivedInv, Join, requests
<1>5. ClosedInv'
  BY DEF ChatInv, ClosedInv, Join
<1>6. ScreenInv'
  <2>1. \A q \in Requests :
            (q \in stored' /\ pc'[q] \in {"send", "done"} /\ job'[q].socket) =>
                q \in stored /\ pc[q] \in {"send", "done"} /\ job'[q] = job[q]
    BY DEF Join, requests
  <2>2. \A q \in Requests, d \in Clients : Reached(q, d) => Reached(q, d)'
    BY DEF Reached, Join, requests
  <2> QED
    BY <2>1, <2>2, ScreenStays DEF ChatInv, Join
<1>7. EchoInv'
  BY DEF ChatInv, EchoInv, Join, requests
<1>8. AfterInv'
  BY DEF ChatInv, AfterInv, Join, requests
<1>9. OrderKept'
  BY DEF ChatInv, OrderKept, Join, requests
<1>10. WatchInv'
  BY DEF ChatInv, WatchInv, Join, requests, Active
<1> QED
  BY <1>1, <1>2, <1>3, <1>4, <1>5, <1>6, <1>7, <1>8, <1>9, <1>10 DEF ChatInv

\* What was on its way to a socket that breaks cannot be had any more.
LEMMA DropPreserves ==
    ASSUME ChatInv, NEW c \in Clients, Drop(c)
    PROVE  ChatInv'
<1>1. ChatTypeOK'
  BY DEF ChatInv, ChatTypeOK, Drop
<1>2. JobInv'
  BY DEF ChatInv, JobInv, Drop
<1>3. RoomInv'
  BY DEF ChatInv, RoomInv, Drop
<1>4. ReceivedInv'
  BY DEF ChatInv, ChatTypeOK, ReceivedInv, Drop
<1>5. ClosedInv'
  BY DEF ChatInv, ClosedInv, Drop
<1>6. ScreenInv'
  <2>1. \A q \in Requests, d \in Clients : Reached(q, d) => Reached(q, d)'
    <3> SUFFICES ASSUME NEW q \in Requests, NEW d \in Clients, Reached(q, d)
                 PROVE  Reached(q, d)'
      OBVIOUS
    <3>1. page' = page /\ received' = received /\ rest'[q] = rest[q] \ {c}
      BY DEF Drop
    <3>2. missed'[d] = IF d = c THEN missed[c] \cup {p \in Requests : c \in rest[p]} ELSE missed[d]
      BY DEF Drop, ChatInv, ChatTypeOK
    <3> QED
      BY <3>1, <3>2 DEF Reached
  <2>2. \A d \in Clients : conn'[d] # "closed" => conn[d] # "closed"
    BY DEF Drop, ChatInv, ChatTypeOK
  <2>3. UNCHANGED <<stored, pc, job>>
    BY DEF Drop
  <2> QED
    BY <2>1, <2>2, <2>3, ScreenStays DEF ChatInv
<1>7. EchoInv'
  BY DEF ChatInv, EchoInv, Drop
<1>8. AfterInv'
  BY DEF ChatInv, AfterInv, Drop
<1>9. OrderKept'
  BY DEF ChatInv, OrderKept, Drop
<1>10. WatchInv'
  BY DEF ChatInv, WatchInv, Drop, Active
<1> QED
  BY <1>1, <1>2, <1>3, <1>4, <1>5, <1>6, <1>7, <1>8, <1>9, <1>10 DEF ChatInv

\* All requests in progress are recorded.
LEMMA SuspendPreserves ==
    ASSUME ChatInv, NEW u \in Users, Suspend(u)
    PROVE  ChatInv'
<1>1. ChatTypeOK'
  <2>1. suspensions' \in 0 .. MaxSuspensions
    BY SuspensionsAssumption DEF Suspend, ChatInv, ChatTypeOK
  <2>2. grace' \in SUBSET Requests /\ status' \in [Users -> {"active", "blocked"}]
    BY DEF Suspend, ChatInv, ChatTypeOK
  <2>3. UNCHANGED <<stored, pc, requests, tabs>>
    BY DEF Suspend
  <2> QED
    BY <2>1, <2>2, <2>3 DEF ChatInv, ChatTypeOK, requests, tabs
<1>2. JobInv'
  BY DEF ChatInv, JobInv, Suspend, requests
<1>3. RoomInv'
  BY DEF ChatInv, RoomInv, Suspend, requests, tabs
<1>4. ReceivedInv'
  BY DEF ChatInv, ReceivedInv, Suspend, requests, tabs
<1>5. ClosedInv'
  BY DEF ChatInv, ClosedInv, Suspend, tabs
<1>6. ScreenInv'
  <2>1. \A q \in Requests :
            (q \in stored' /\ pc'[q] \in {"send", "done"} /\ job'[q].socket) =>
                q \in stored /\ pc[q] \in {"send", "done"} /\ job'[q] = job[q]
    BY DEF Suspend, requests
  <2>2. \A q \in Requests, d \in Clients : Reached(q, d) => Reached(q, d)'
    BY DEF Reached, Suspend, requests, tabs
  <2> QED
    BY <2>1, <2>2, ScreenStays DEF ChatInv, Suspend, tabs
<1>7. EchoInv'
  BY DEF ChatInv, EchoInv, Suspend, requests, tabs
<1>8. AfterInv'
  BY DEF ChatInv, AfterInv, Suspend, requests
<1>9. OrderKept'
  BY DEF ChatInv, OrderKept, Suspend, requests, tabs
<1>10. WatchInv'
  BY DEF WatchInv, Suspend, Waiting
<1> QED
  BY <1>1, <1>2, <1>3, <1>4, <1>5, <1>6, <1>7, <1>8, <1>9, <1>10 DEF ChatInv

\* A user becomes active again.
LEMMA ActivatePreserves ==
    ASSUME ChatInv, NEW u \in Users, Activate(u)
    PROVE  ChatInv'
<1>1. ChatTypeOK'
  BY DEF ChatInv, ChatTypeOK, Activate, requests, tabs
<1>2. JobInv'
  BY DEF ChatInv, JobInv, Activate, requests
<1>3. RoomInv'
  BY DEF ChatInv, RoomInv, Activate, requests, tabs
<1>4. ReceivedInv'
  BY DEF ChatInv, ReceivedInv, Activate, requests, tabs
<1>5. ClosedInv'
  BY DEF ChatInv, ClosedInv, Activate, tabs
<1>6. ScreenInv'
  <2>1. \A q \in Requests :
            (q \in stored' /\ pc'[q] \in {"send", "done"} /\ job'[q].socket) =>
                q \in stored /\ pc[q] \in {"send", "done"} /\ job'[q] = job[q]
    BY DEF Activate, requests
  <2>2. \A q \in Requests, d \in Clients : Reached(q, d) => Reached(q, d)'
    BY DEF Reached, Activate, requests, tabs
  <2> QED
    BY <2>1, <2>2, ScreenStays DEF ChatInv, Activate, tabs
<1>7. EchoInv'
  BY DEF ChatInv, EchoInv, Activate, requests, tabs
<1>8. AfterInv'
  BY DEF ChatInv, AfterInv, Activate, requests
<1>9. OrderKept'
  BY DEF ChatInv, OrderKept, Activate, requests, tabs
<1>10. WatchInv'
  BY DEF ChatInv, WatchInv, Activate, requests, Active
<1> QED
  BY <1>1, <1>2, <1>3, <1>4, <1>5, <1>6, <1>7, <1>8, <1>9, <1>10 DEF ChatInv

\* A request ends without a message: it had not been stored.
LEMMA GiveUpPreserves ==
    ASSUME ChatInv, NEW r \in Requests, pc[r] \in Waiting, GiveUp(r),
           UNCHANGED <<status, stored, tabs, suspensions>>
    PROVE  ChatInv'
<1>1. /\ pc' = [pc EXCEPT ![r] = "done"] /\ pc \in [Requests -> Steps]
      /\ job' = [job EXCEPT ![r] = None] /\ job \in [Requests -> Job \cup {None}]
      /\ own' = [own EXCEPT ![r] = {}] /\ own \in [Requests -> SUBSET Clients]
      /\ grace' = grace \ {r} /\ rest' = rest
  BY DEF GiveUp, Goto, ChatInv, ChatTypeOK
<1>2. r \notin stored /\ stored \subseteq Requests
  BY DEF ChatInv, ChatTypeOK, JobInv, Waiting, Sending
<1>3. ChatTypeOK'
  BY <1>1 DEF ChatInv, ChatTypeOK, Steps, tabs
<1>4. JobInv'
  BY <1>1, <1>2 DEF ChatInv, JobInv, Waiting, Sending
<1>5. RoomInv'
  BY <1>1, <1>2 DEF ChatInv, RoomInv, Waiting, tabs
<1>6. ReceivedInv'
  BY <1>1, <1>2 DEF ChatInv, ReceivedInv, tabs
<1>7. ClosedInv'
  BY DEF ChatInv, ClosedInv, tabs
<1>8. ScreenInv'
  <2>1. \A q \in Requests :
            (q \in stored' /\ pc'[q] \in {"send", "done"} /\ job'[q].socket) =>
                q \in stored /\ pc[q] \in {"send", "done"} /\ job'[q] = job[q]
    BY <1>1, <1>2
  <2>2. \A q \in Requests, d \in Clients : Reached(q, d) => Reached(q, d)'
    BY <1>1 DEF Reached, tabs
  <2> QED
    BY <2>1, <2>2, ScreenStays DEF ChatInv, tabs
<1>9. EchoInv'
  BY <1>1 DEF ChatInv, EchoInv, tabs
<1>10. AfterInv'
  BY <1>1, <1>2 DEF ChatInv, AfterInv, Waiting, Sending
<1>11. OrderKept'
  BY <1>1, <1>2, OrderStays DEF tabs
<1>12. WatchInv'
  BY <1>1 DEF ChatInv, WatchInv, Waiting, Active
<1> QED
  BY <1>3, <1>4, <1>5, <1>6, <1>7, <1>8, <1>9, <1>10, <1>11, <1>12 DEF ChatInv

\* Steps that touch none of the chat's variables.
LEMMA ElsewherePreserves ==
    ASSUME ChatInv, UNCHANGED chatVars
    PROVE  ChatInv'
<1>1. UNCHANGED <<status, stored, pc, job, rest, own, conn, page, received, missed,
                  suspensions, grace>>
  BY DEF chatVars, requests, tabs
<1>2. ChatTypeOK' /\ JobInv' /\ RoomInv' /\ ReceivedInv' /\ ClosedInv'
  BY <1>1 DEF ChatInv, ChatTypeOK, JobInv, RoomInv, ReceivedInv, ClosedInv
<1>3. ScreenInv'
  BY <1>1, ScreenStays DEF ChatInv, Reached
<1>4. EchoInv' /\ AfterInv' /\ WatchInv'
  BY <1>1 DEF ChatInv, EchoInv, AfterInv, WatchInv, Active
<1>5. OrderKept'
  BY <1>1, OrderStays
<1> QED
  BY <1>2, <1>3, <1>4, <1>5 DEF ChatInv

\* The invariant holds before the first message.
LEMMA InitInv == Init => ChatInv
<1> SUFFICES ASSUME Init
             PROVE  ChatInv
  OBVIOUS
<1>1. ChatTypeOK
  BY SuspensionsAssumption DEF Init, ChatTypeOK, Steps
<1>2. JobInv /\ RoomInv /\ AfterInv /\ WatchInv
  BY DEF Init, JobInv, RoomInv, AfterInv, WatchInv, Waiting, Sending
<1>3. \A c \in Clients : received[c] = <<>> /\ Elements(received[c]) = {}
  BY DEF Init, Elements
<1>4. ReceivedInv /\ ClosedInv /\ OrderKept
  BY <1>3 DEF Init, ReceivedInv, ClosedInv, OrderKept
<1>5. ScreenInv /\ EchoInv
  BY DEF Init, ScreenInv, EchoInv
<1> QED
  BY <1>1, <1>2, <1>4, <1>5 DEF ChatInv

\* ChatInv is inductive.
LEMMA NextInv == ChatInv /\ [Next]_vars => ChatInv'
<1> SUFFICES ASSUME ChatInv, [Next]_vars
             PROVE  ChatInv'
  OBVIOUS
<1>1. ASSUME NEW r \in Requests, NEW c \in Clients, SocketEvent(r, c)
      PROVE  ChatInv'
  BY <1>1, SocketEventPreserves
<1>2. ASSUME NEW r \in Requests, NEW u \in Users, SubmitForm(r, u)
      PROVE  ChatInv'
  BY <1>2, SubmitFormPreserves
<1>3. ASSUME NEW r \in Requests, HandlerStep(r)
      PROVE  ChatInv'
  <2>1. CASE FindPartner(r) \/ EnterLimiter(r) \/ Admit(r) \/ StoreMessage(r)
    BY <2>1, FindPartnerPreserves, EnterLimiterPreserves, AdmitPreserves, StoreMessagePreserves
  <2>2. CASE NoPartner(r) \/ TurnAway(r) \/ LockTimeout(r)
    BY <2>2, GiveUpPreserves DEF NoPartner, TurnAway, LockTimeout, Waiting
  <2>3. CASE Emit(r) \/ Echo(r) \/ \E c \in Clients : SendTo(r, c)
    BY <2>3, EmitPreserves, EchoPreserves, SendToPreserves
  <2> QED
    BY <1>3, <2>1, <2>2, <2>3 DEF HandlerStep
<1>4. ASSUME NEW c \in Clients, LoadPage(c) \/ Join(c) \/ Drop(c)
      PROVE  ChatInv'
  BY <1>4, LoadPagePreserves, JoinPreserves, DropPreserves
<1>5. ASSUME NEW u \in Users, Suspend(u) \/ Activate(u)
      PROVE  ChatInv'
  BY <1>5, SuspendPreserves, ActivatePreserves
<1>6. CASE TimePasses \/ UNCHANGED vars
  BY <1>6, ElsewherePreserves DEF TimePasses, vars
<1> QED
  BY <1>1, <1>2, <1>3, <1>4, <1>5, <1>6 DEF Next

THEOREM ChatInvariance == Spec => []ChatInv
<1> QED
  BY InitInv, NextInv, PTL DEF Spec

-----------------------------------------------------------------------------
(* The limiter inside the chat                                             *)

\* Every step is one of the limiter, or none of its business: a call is made
\* with a user for a key.
LEMMA StepLimits == ChatInv /\ [Next]_vars => [LimiterNext]_limiterVars
<1> SUFFICES ASSUME ChatInv, [Next]_vars
             PROVE  [LimiterNext]_limiterVars
  OBVIOUS
<1>1. ASSUME NEW r \in Requests, HandlerStep(r)
      PROVE  [LimiterNext]_limiterVars
  <2>1. CASE EnterLimiter(r)
    <3>1. job[r].from \in Users
      BY <2>1 DEF EnterLimiter, ChatInv, JobInv, Waiting, Message, Job
    <3> QED
      BY <2>1, <3>1 DEF EnterLimiter, LimiterNext
  <2>2. CASE Admit(r) \/ TurnAway(r)
    BY <2>2 DEF Admit, TurnAway, LimiterNext
  <2>3. CASE \/ FindPartner(r) \/ NoPartner(r) \/ StoreMessage(r) \/ LockTimeout(r)
             \/ Emit(r) \/ Echo(r) \/ \E c \in Clients : SendTo(r, c)
    BY <2>3 DEF FindPartner, NoPartner, StoreMessage, LockTimeout, Emit, Echo, SendTo
  <2> QED
    BY <1>1, <2>1, <2>2, <2>3 DEF HandlerStep
<1>2. CASE TimePasses
  BY <1>2 DEF TimePasses, LimiterNext
<1>3. CASE \/ \E r \in Requests : \/ \E c \in Clients : SocketEvent(r, c)
                                  \/ \E u \in Users : SubmitForm(r, u)
           \/ \E c \in Clients : LoadPage(c) \/ Join(c) \/ Drop(c)
           \/ \E u \in Users : Suspend(u) \/ Activate(u)
  BY <1>3 DEF SocketEvent, SubmitForm, LoadPage, Join, Drop, Suspend, Activate
<1>4. CASE UNCHANGED vars
  BY <1>4 DEF vars
<1> QED
  BY <1>1, <1>2, <1>3, <1>4 DEF Next

\* The chat implements the limiter, whose theorems hold for it.
THEOREM LimiterInside == Spec => LimiterSpec
<1>1. Init => LimiterInit
  BY DEF Init
<1> QED
  BY <1>1, ChatInvariance, StepLimits, PTL DEF Spec, LimiterSpec

\* No user passes more than MaxEvents messages by sockets and forms within a
\* window, as long as his threads enter in the order of their times.
THEOREM ChatLimitKept == Spec => []RateKept
  BY LimiterInside, LimitKept, PTL

\* Nobody's message is refused without MaxEvents messages in the window before.
THEOREM ChatNoWrongRefusal == Spec => RefusalJustified
  BY LimiterInside, NoWrongRefusal, PTL

-----------------------------------------------------------------------------
(* Types, order, completeness, suspension                                  *)

\* Every variable stays in its type.
THEOREM TypeCorrect == Spec => []TypeOK
<1>1. ChatInv /\ LimiterInv => TypeOK
  BY DEF ChatInv, LimiterInv, TypeOK
<1> QED
  BY <1>1, ChatInvariance, LimiterInside, LimiterInvariance, PTL

\* On every socket a message comes once, and after those it was sent after.
THEOREM Order == Spec => []OrderKept
<1>1. ChatInv => OrderKept
  BY DEF ChatInv
<1> QED
  BY <1>1, ChatInvariance, PTL

\* A tab with a socket misses nothing but what was sent while it had none.
THEOREM Complete == Spec => []ScreenComplete
<1>1. ChatInv => ScreenComplete
  <2> SUFFICES ASSUME ChatInv, NEW c \in Clients, conn[c] = "joined",
                      NEW r \in stored, Finished(r), Concerns(r, c)
               PROVE  r \in page[c] \cup Elements(received[c]) \cup missed[c]
    BY DEF ScreenComplete
  <2>1. r \in Requests /\ pc[r] = "done" /\ c \notin rest[r]
    BY DEF ChatInv, ChatTypeOK, RoomInv, Finished
  <2>2. CASE job[r].to \in {All, Owner[c]}
    BY <2>1, <2>2 DEF ChatInv, ScreenInv, Due, Concerns
  <2>3. CASE c \in own[r]
    BY <2>1, <2>3 DEF ChatInv, EchoInv
  <2> QED
    BY <2>2, <2>3 DEF Concerns
<1> QED
  BY <1>1, ChatInvariance, PTL

\* Nothing is stored from or for a suspended user, but for requests that were
\* in progress when somebody was suspended.
THEOREM Silenced == Spec => SuspendedSilenced
<1> DEFINE Silent == \A r \in stored' \ (stored \cup grace) :
                        \A u \in {job[r].from, job[r].to} \ {All} : Active(u)
<1>1. ChatInv /\ [Next]_vars => [Silent]_vars
  <2> SUFFICES ASSUME ChatInv, [Next]_vars, NEW r \in stored' \ (stored \cup grace),
                      NEW u \in {job[r].from, job[r].to} \ {All}
               PROVE  Active(u)
    OBVIOUS
  <2>1. StoreMessage(r)
    BY DEF Next, HandlerStep, vars, chatVars, SocketEvent, SubmitForm, FindPartner,
           NoPartner, EnterLimiter, Admit, TurnAway, StoreMessage, LockTimeout, Emit,
           SendTo, Echo, LoadPage, Join, Drop, Suspend, Activate, TimePasses
  <2>2. pc[r] = "store" /\ r \in Requests
    BY <2>1, NextInv DEF StoreMessage, ChatInv, ChatTypeOK
  <2> QED
    BY <2>2 DEF ChatInv, WatchInv, Waiting
<1> QED
  BY <1>1, ChatInvariance, PTL DEF Spec, SuspendedSilenced

-----------------------------------------------------------------------------
(* Chat implements Channel                                                 *)

posted == [r \in Requests |->
             IF r \in stored THEN [from |-> job[r].from, to |-> job[r].to] ELSE None]
shown == [c \in Clients |-> page[c] \cup Elements(received[c])]

\* Messages that concern the user of a tab may be shown there.
LEMMA ShowStep ==
    ASSUME ChatInv, posted' = posted, NEW c \in Clients, NEW new \in SUBSET stored,
           \A m \in new : job[m].to = All \/ Owner[c] \in {job[m].from, job[m].to},
           shown' = [shown EXCEPT ![c] = shown[c] \cup new]
    PROVE  Promise!Show(c)
<1>1. ASSUME NEW m \in new
      PROVE  /\ m \in Requests /\ posted[m] # None
             /\ Promise!MayRead(Owner[c], posted[m])
  <2>1. m \in stored /\ m \in Requests /\ job[m] \in Message
    BY DEF ChatInv, ChatTypeOK, JobInv
  <2>2. posted[m] = [from |-> job[m].from, to |-> job[m].to]
    BY <2>1 DEF posted
  <2>3. posted[m] \in [from : Users, to : Users \cup {All}]
    BY <2>1, <2>2 DEF Message, Job
  <2> QED
    BY <2>1, <2>2, <2>3, NotPostedAssumption DEF Promise!MayRead
<1>2. new \in SUBSET {m \in Requests : posted[m] # None}
  BY <1>1
<1> QED
  BY <1>1, <1>2 DEF Promise!Show, posted, shown

\* Steps that store nothing leave what is posted as it was.
LEMMA NothingPosted ==
    ASSUME ChatInv, stored' = stored, \A q \in stored : job'[q] = job[q]
    PROVE  posted' = posted
BY DEF posted

\* Every step of the chat is one of the channel, or changes nothing there.
LEMMA StepImplements == ChatInv /\ [Next]_vars => [Promise!ChannelNext]_(Promise!channelVars)
<1> SUFFICES ASSUME ChatInv, [Next]_vars
             PROVE  Promise!ChannelNext \/ (posted' = posted /\ shown' = shown)
  BY DEF Promise!channelVars, posted, shown
<1>1. /\ stored \subseteq Requests
      /\ \A r \in stored : pc[r] \notin Waiting \cup {"new"}
      /\ job \in [Requests -> Job \cup {None}]
      /\ page \in [Clients -> SUBSET Requests] /\ received \in [Clients -> Seq(Requests)]
  BY DEF ChatInv, ChatTypeOK, JobInv, Waiting, Sending
<1>2. ASSUME UNCHANGED <<stored, page, received>>, \A q \in stored : job'[q] = job[q]
      PROVE  posted' = posted /\ shown' = shown
  BY <1>2, NothingPosted DEF shown
<1>3. ASSUME NEW r \in Requests, \/ \E c \in Clients : SocketEvent(r, c)
                                 \/ \E u \in Users : SubmitForm(r, u)
      PROVE  posted' = posted /\ shown' = shown
  <2>1. r \notin stored /\ \E j : job' = [job EXCEPT ![r] = j]
    BY <1>1, <1>3 DEF SocketEvent, SubmitForm, Accept
  <2>2. UNCHANGED <<stored, page, received>>
    BY <1>3 DEF SocketEvent, SubmitForm, tabs
  <2> QED
    BY <1>1, <1>2, <2>1, <2>2
<1>4. ASSUME NEW r \in Requests, NoPartner(r) \/ TurnAway(r) \/ LockTimeout(r)
      PROVE  posted' = posted /\ shown' = shown
  <2>1. r \notin stored /\ job' = [job EXCEPT ![r] = None]
    BY <1>1, <1>4 DEF NoPartner, TurnAway, LockTimeout, GiveUp, Waiting
  <2>2. UNCHANGED <<stored, page, received>>
    BY <1>4 DEF NoPartner, TurnAway, LockTimeout, tabs
  <2> QED
    BY <1>1, <1>2, <2>1, <2>2
<1>5. ASSUME NEW r \in Requests, FindPartner(r) \/ EnterLimiter(r) \/ Admit(r) \/ Emit(r)
      PROVE  posted' = posted /\ shown' = shown
  BY <1>2, <1>5 DEF FindPartner, EnterLimiter, Admit, Emit, requests, tabs
<1>6. ASSUME NEW r \in Requests, StoreMessage(r)
      PROVE  Promise!ChannelNext
  <2>1. /\ stored' = stored \cup {r} /\ UNCHANGED <<job, page, received>>
        /\ r \notin stored /\ job[r] \in Message
    BY <1>1, <1>6 DEF StoreMessage, requests, tabs, ChatInv, JobInv, Waiting
  <2> DEFINE p == [from |-> job[r].from, to |-> job[r].to]
  <2>2. p \in Promise!Post
    BY <2>1 DEF Message, Job, Promise!Post
  <2>3. posted[r] = None /\ posted' = [posted EXCEPT ![r] = p]
    BY <2>1 DEF posted
  <2>4. shown' = shown
    BY <2>1 DEF shown
  <2>5. Promise!Publish(r)
    BY <2>2, <2>3, <2>4 DEF Promise!Publish, posted, shown
  <2> QED
    BY <2>5 DEF Promise!ChannelNext
<1>7. ASSUME NEW r \in Requests, NEW c \in Clients, SendTo(r, c)
      PROVE  Promise!ChannelNext
  <2>1. r \in stored /\ job[r].to \in {All, Owner[c]}
    BY <1>7 DEF SendTo, ChatInv, RoomInv, JobInv, Sending
  <2>2. shown' = [shown EXCEPT ![c] = shown[c] \cup {r}]
    <3>1. ASSUME NEW d \in Clients
          PROVE  shown'[d] = IF d = c THEN shown[c] \cup {r} ELSE shown[d]
      <4>1. /\ received'[d] = IF d = c THEN Append(received[d], r) ELSE received[d]
            /\ page' = page /\ received[d] \in Seq(Requests)
        BY <1>1, <1>7 DEF SendTo, Deliver
      <4>2. Elements(Append(received[d], r)) = Elements(received[d]) \cup {r}
        BY <4>1, ElementsOfAppend
      <4> QED
        BY <4>1, <4>2 DEF shown
    <3> QED
      BY <3>1 DEF shown
  <2>3. posted' = posted
    BY <1>7, NothingPosted DEF SendTo
  <2>4. Promise!Show(c)
    <3>1. /\ {r} \in SUBSET stored
          /\ \A m \in {r} : job[m].to = All \/ Owner[c] \in {job[m].from, job[m].to}
      BY <2>1
    <3> QED
      BY <2>2, <2>3, <3>1, ShowStep
  <2> QED
    BY <2>4 DEF Promise!ChannelNext
<1>8. ASSUME NEW r \in Requests, Echo(r)
      PROVE  Promise!ChannelNext \/ (posted' = posted /\ shown' = shown)
  <2>1. /\ r \in stored /\ \A c \in own[r] : job[r].from = Owner[c]
        /\ \A c, d \in own[r] : c = d
        /\ own[r] \subseteq Clients
    BY <1>8 DEF Echo, ChatInv, ChatTypeOK, RoomInv, JobInv, Sending
  <2>2. posted' = posted
    BY <1>8, NothingPosted DEF Echo, requests
  <2>3. ASSUME NEW d \in Clients
        PROVE  shown'[d] = IF d \in own[r] THEN shown[d] \cup {r} ELSE shown[d]
    <3>1. /\ received'[d] = IF d \in own[r] THEN Append(received[d], r) ELSE received[d]
          /\ page' = page /\ received[d] \in Seq(Requests)
      BY <1>1, <1>8 DEF Echo, Deliver
    <3>2. Elements(Append(received[d], r)) = Elements(received[d]) \cup {r}
      BY <3>1, ElementsOfAppend
    <3> QED
      BY <3>1, <3>2 DEF shown
  <2>4. CASE own[r] = {}
    <3>1. shown' = shown
      BY <2>3, <2>4 DEF shown
    <3> QED
      BY <2>2, <3>1
  <2>5. CASE own[r] # {}
    <3>1. PICK c \in own[r] : own[r] = {c}
      BY <2>1, <2>5
    <3>2. shown' = [shown EXCEPT ![c] = shown[c] \cup {r}]
      BY <2>1, <2>3, <3>1 DEF shown
    <3>3. Promise!Show(c)
      <4>1. /\ {r} \in SUBSET stored /\ c \in Clients
            /\ \A m \in {r} : job[m].to = All \/ Owner[c] \in {job[m].from, job[m].to}
        BY <2>1, <3>1
      <4> QED
        BY <2>2, <3>2, <4>1, ShowStep
    <3> QED
      BY <2>1, <3>1, <3>3 DEF Promise!ChannelNext
  <2> QED
    BY <2>4, <2>5
<1>9. ASSUME NEW c \in Clients, LoadPage(c)
      PROVE  Promise!ChannelNext
  <2>0. PICK new \in SUBSET {m \in stored : OnPage(m, c)} : page' = [page EXCEPT ![c] = new]
    BY <1>9 DEF LoadPage, Histories
  <2>1. page' = [page EXCEPT ![c] = new] /\ received' = received /\ job' = job
    BY <1>9, <2>0 DEF LoadPage, requests
  <2>2. page[c] = {} /\ received[c] = <<>>
    BY <1>9 DEF LoadPage, ChatInv, ClosedInv
  <2>3. shown' = [shown EXCEPT ![c] = shown[c] \cup new]
    <3>1. Elements(received[c]) = {}
      BY <2>2 DEF Elements
    <3> QED
      BY <1>1, <2>1, <2>2, <3>1 DEF shown
  <2>4. \A m \in new : job[m].to = All \/ Owner[c] \in {job[m].from, job[m].to}
    BY <2>0 DEF OnPage
  <2>5. posted' = posted
    BY <1>9, NothingPosted DEF LoadPage, requests
  <2>6. Promise!Show(c)
    BY <2>3, <2>4, <2>5, ShowStep
  <2> QED
    BY <2>6 DEF Promise!ChannelNext
<1>10. ASSUME NEW c \in Clients, Join(c) \/ Drop(c)
       PROVE  posted' = posted /\ shown' = shown
  BY <1>2, <1>10 DEF Join, Drop, requests
<1>11. ASSUME NEW u \in Users, Suspend(u) \/ Activate(u)
       PROVE  posted' = posted /\ shown' = shown
  BY <1>2, <1>11 DEF Suspend, Activate, requests, tabs
<1>12. CASE TimePasses \/ UNCHANGED vars
  BY <1>2, <1>12 DEF TimePasses, vars, chatVars, requests, tabs
<1> QED
  BY <1>3, <1>4, <1>5, <1>6, <1>7, <1>8, <1>9, <1>10, <1>11, <1>12 DEF Next, HandlerStep

\* Whatever rooms, pages, connections and threads do, a message is posted once
\* and reaches only those it concerns.
THEOREM Refinement == Spec => Implements
<1>1. Init => Promise!ChannelInit
  <2> SUFFICES ASSUME Init
               PROVE  posted = [r \in Requests |-> None] /\ shown = [c \in Clients |-> {}]
    BY DEF Promise!ChannelInit, posted, shown
  <2>1. \A c \in Clients : Elements(received[c]) = {} /\ page[c] = {}
    BY DEF Init, Elements
  <2> QED
    BY <2>1 DEF Init, posted, shown
<1> QED
  BY <1>1, ChatInvariance, StepImplements, PTL DEF Spec, Implements, Promise!ChannelSpec
=============================================================================
