------------------------------- MODULE Channel -------------------------------
(***************************************************************************)
(* What the chat promises, without handlers, rooms or pages: a message is  *)
(* posted once, by one user, for everybody or for one other user; after    *)
(* that, tabs may show it, but only tabs of those it concerns.             *)
(*                                                                         *)
(* Nothing is said of who sees a message when, or of the order.  Chat      *)
(* implements this module; that nobody misses messages or sees them in the *)
(* wrong order are properties of its own there.                            *)
(***************************************************************************)
CONSTANTS
    Users,
    Messages,
    Clients,        \* browser tabs
    Owner,          \* whose tab it is
    All,            \* the audience of a message to everybody
    None            \* not posted

VARIABLES
    posted,         \* the author and the audience of each message
    shown           \* the messages that reached each tab

channelVars == <<posted, shown>>

Post == {p \in [from : Users, to : Users \cup {All}] : p.from # p.to}

ChannelTypeOK ==
    /\ posted \in [Messages -> Post \cup {None}]
    /\ shown \in [Clients -> SUBSET Messages]

ChannelInit ==
    /\ posted = [m \in Messages |-> None]
    /\ shown = [c \in Clients |-> {}]

MayRead(u, post) == post.to = All \/ u \in {post.from, post.to}

Publish(m) ==
    /\ posted[m] = None
    /\ \E p \in Post : posted' = [posted EXCEPT ![m] = p]
    /\ UNCHANGED shown

\* Some messages reach a tab at once: a page, or one event.
Show(c) ==
    /\ \E new \in SUBSET {m \in Messages : posted[m] # None} :
        /\ \A m \in new : MayRead(Owner[c], posted[m])
        /\ shown' = [shown EXCEPT ![c] = @ \cup new]
    /\ UNCHANGED posted

\* The tab leaves the page.
Leave(c) ==
    /\ shown' = [shown EXCEPT ![c] = {}]
    /\ UNCHANGED posted

ChannelNext ==
    \/ \E m \in Messages : Publish(m)
    \/ \E c \in Clients : Show(c) \/ Leave(c)

ChannelSpec == ChannelInit /\ [][ChannelNext]_channelVars
=============================================================================
