----------------------------- MODULE ChatLimiter -----------------------------
(***************************************************************************)
(* The limit on chat messages: SlidingWindowLimiter (security.py:330), one *)
(* object shared by the form and the sockets of blueprints/chat.py.        *)
(*                                                                         *)
(* allow reads the clock before it takes the lock, so that two threads may *)
(* enter the same bucket with their times in the wrong order.  The rest of *)
(* allow runs under the lock and is one action.                            *)
(*                                                                         *)
(* Definitions named Bug... are deliberate mistakes: the properties are    *)
(* seen to fail when one replaces the definition it precedes.              *)
(***************************************************************************)
EXTENDS Integers, Sequences

CONSTANTS
    Users,          \* the keys
    Requests,       \* threads that call allow
    MaxEvents,      \* config.CHAT_RATE_MAX
    Window,         \* config.CHAT_RATE_WINDOW
    MaxTime,        \* bound: how far the clock runs
    None            \* no call in progress

ASSUME MaxEventsAssumption == MaxEvents \in Nat \ {0}
ASSUME WindowAssumption == Window \in Nat
ASSUME MaxTimeAssumption == MaxTime \in Nat

VARIABLES
    clock,          \* time.time(), which is taken not to run backwards
    events,         \* _events: the deque of each user
    call,           \* the key and the local variable now of a call in progress
    admitted,       \* history: the times of all events let through, per user
    latest,         \* history: the latest time a decision about the user was made by
    disordered      \* history: some decision was made by an earlier time than that

limiterVars == <<clock, events, call, admitted, latest, disordered>>

Call == [key : Users, now : Nat]

LimiterTypeOK ==
    /\ clock \in Nat
    /\ events \in [Users -> Seq(Nat)]
    /\ call \in [Requests -> Call \cup {None}]
    /\ admitted \in [Users -> Seq(Nat)]
    /\ latest \in [Users -> Nat]
    /\ disordered \in [Users -> BOOLEAN]

LimiterInit ==
    /\ clock = 0
    /\ events = [u \in Users |-> <<>>]
    /\ call = [r \in Requests |-> None]
    /\ admitted = [u \in Users |-> <<>>]
    /\ latest = [u \in Users |-> 0]
    /\ disordered = [u \in Users |-> FALSE]

-----------------------------------------------------------------------------

\* now = time.time(); the lock is not held yet.
ReadClock(r, u) ==
    /\ call[r] = None
    /\ call' = [call EXCEPT ![r] = [key |-> u, now |-> clock]]
    /\ UNCHANGED <<clock, events, admitted, latest, disordered>>

\* Bug: an event exactly Window old is dropped, too.
BugExpired(time, now) == now - time >= Window

\* Bug: the difference the wrong way round, nothing ever expires.
BugNeverExpired(time, now) == time - now > Window

Expired(time, now) == now - time > Window

\* How many events the loop drops: it stops at the first one that has not
\* expired, whatever comes after it.
Dropped(bucket, now) ==
    {f \in 0 .. Len(bucket) :
        /\ \A i \in 1 .. f : Expired(bucket[i], now)
        /\ f < Len(bucket) => ~Expired(bucket[f + 1], now)}

Without(bucket, f) == SubSeq(bucket, f + 1, Len(bucket))

Decided(r) ==
    LET u == call[r].key
    IN /\ call' = [call EXCEPT ![r] = None]
       /\ disordered' = [disordered EXCEPT ![u] = @ \/ call[r].now < latest[u]]
       /\ latest' = [latest EXCEPT ![u] = IF call[r].now > @ THEN call[r].now ELSE @]
       /\ UNCHANGED clock

\* The event is counted.
Allow(r) ==
    /\ call[r] # None
    /\ LET u == call[r].key
           now == call[r].now
       IN \E f \in Dropped(events[u], now) :
            /\ Len(Without(events[u], f)) < MaxEvents
            /\ events' = [events EXCEPT ![u] = Append(Without(events[u], f), now)]
            /\ admitted' = [admitted EXCEPT ![u] = Append(admitted[u], now)]
    /\ Decided(r)

\* A refusal drops the expired events, and is not counted itself.
Refuse(r) ==
    /\ call[r] # None
    /\ LET u == call[r].key
           now == call[r].now
       IN \E f \in Dropped(events[u], now) :
            /\ Len(Without(events[u], f)) >= MaxEvents
            /\ events' = [events EXCEPT ![u] = Without(events[u], f)]
    /\ Decided(r)
    /\ UNCHANGED admitted

Tick ==
    /\ clock < MaxTime
    /\ clock' = clock + 1
    /\ UNCHANGED <<events, call, admitted, latest, disordered>>

LimiterNext ==
    \/ \E r \in Requests : \/ \E u \in Users : ReadClock(r, u)
                           \/ Allow(r)
                           \/ Refuse(r)
    \/ Tick

LimiterSpec == LimiterInit /\ [][LimiterNext]_limiterVars

-----------------------------------------------------------------------------
(* Properties                                                              *)

\* No MaxEvents + 1 messages of a user pass within Window (SECURITY_CHECKLIST
\* and config.py:113), as long as the threads entered the bucket in the order
\* of their times (security.py:338).
RateKept ==
    \A u \in Users : ~disordered[u] =>
        \A i, j \in DOMAIN admitted[u] :
            j = i + MaxEvents => admitted[u][j] - admitted[u][i] > Window

\* Nobody is refused who has not had MaxEvents messages let through in the
\* Window before: refusals are not counted, and no expired event blocks a
\* later one, again if the times came in order (security.py:341).
RefusalJustified ==
    [][\A r \in Requests :
        (call[r] # None /\ Refuse(r) /\ ~disordered'[call[r].key]) =>
            LET past == admitted[call[r].key]
            IN /\ Len(past) >= MaxEvents
               /\ call[r].now - past[Len(past) - MaxEvents + 1] <= Window]_limiterVars
=============================================================================
