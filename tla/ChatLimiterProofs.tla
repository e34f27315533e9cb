-------------------------- MODULE ChatLimiterProofs --------------------------
(***************************************************************************)
(* Proofs about ChatLimiter, for any users, threads, limits and windows,   *)
(* and for a clock that runs as far as it likes.                           *)
(***************************************************************************)
EXTENDS ChatLimiter, SequenceTheorems, TLAPS

\* The events let through that are no longer in the bucket.
Gone(u) == Len(admitted[u]) - Len(events[u])

\* The bucket never holds more than the limit.
BucketBound == \A u \in Users : Len(events[u]) <= MaxEvents

\* In order, the times let through rise, and none is later than the last
\* decision.
Rising(u) ==
    /\ \A i, j \in 1 .. Len(admitted[u]) : i <= j => admitted[u][i] <= admitted[u][j]
    /\ \A i \in 1 .. Len(admitted[u]) : admitted[u][i] <= latest[u]

\* In order, the bucket is the end of what was let through, and the rest has
\* left the window.
BucketIsTail(u) ==
    /\ Gone(u) \in Nat
    /\ \A i \in 1 .. Len(events[u]) : events[u][i] = admitted[u][Gone(u) + i]
    /\ \A i \in 1 .. Gone(u) : latest[u] - admitted[u][i] > Window

\* In order, the limit holds for this user: RateKept.
Spaced(u) ==
    \A i, j \in 1 .. Len(admitted[u]) :
        j = i + MaxEvents => admitted[u][j] - admitted[u][i] > Window

InOrder(u) == ~disordered[u] => Rising(u) /\ BucketIsTail(u) /\ Spaced(u)

LimiterInv == LimiterTypeOK /\ BucketBound /\ \A u \in Users : InOrder(u)

-----------------------------------------------------------------------------

\* The invariant holds before the first call.
LEMMA LimiterInitInv == LimiterInit => LimiterInv
<1> SUFFICES ASSUME LimiterInit
             PROVE  LimiterInv
  OBVIOUS
<1>1. LimiterTypeOK
  BY DEF LimiterInit, LimiterTypeOK
<1>2. \A u \in Users : events[u] = <<>> /\ admitted[u] = <<>>
  BY DEF LimiterInit
<1>3. \A u \in Users : Len(events[u]) = 0 /\ Len(admitted[u]) = 0
  BY <1>2, EmptySeq
<1>4. ASSUME NEW u \in Users
      PROVE  Len(events[u]) <= MaxEvents
  <2>1. Len(events[u]) = 0 /\ MaxEvents \in Nat
    BY <1>3, MaxEventsAssumption
  <2> QED
    BY <2>1
<1>5. ASSUME NEW u \in Users
      PROVE  InOrder(u)
  <2>1. Len(events[u]) = 0 /\ Len(admitted[u]) = 0
    BY <1>3
  <2>2. Rising(u)
    BY <2>1 DEF Rising
  <2>3. BucketIsTail(u)
    <3>1. Gone(u) = 0
      BY <2>1 DEF Gone
    <3> QED
      BY <2>1, <3>1 DEF BucketIsTail
  <2>4. Spaced(u)
    BY <2>1 DEF Spaced
  <2> QED
    BY <2>2, <2>3, <2>4 DEF InOrder
<1> QED
  BY <1>1, <1>4, <1>5 DEF LimiterInv, BucketBound

\* What the loop drops, and what it leaves, in terms of the history.
LEMMA AfterLoop ==
    ASSUME LimiterInv, NEW u \in Users, NEW now \in Nat, NEW f \in Dropped(events[u], now)
    PROVE  LET rest == Without(events[u], f)
               gone == Len(admitted[u]) - Len(rest)
           IN /\ rest \in Seq(Nat)
              /\ Len(rest) \in Nat
              /\ Len(rest) <= Len(events[u])
              /\ (~disordered[u] /\ now >= latest[u]) =>
                    /\ gone \in Nat
                    /\ \A i \in 1 .. Len(rest) : rest[i] = admitted[u][gone + i]
                    /\ \A i \in 1 .. gone : now - admitted[u][i] > Window
                    /\ Len(rest) > 0 => now - rest[1] <= Window
<1> DEFINE rest == Without(events[u], f)
           gone == Len(admitted[u]) - Len(rest)
           all == Len(events[u])
<1>1. /\ events[u] \in Seq(Nat) /\ admitted[u] \in Seq(Nat)
      /\ latest[u] \in Nat
      /\ Window \in Nat
  BY WindowAssumption DEF LimiterInv, LimiterTypeOK
<1>2. /\ f \in 0 .. all
      /\ \A i \in 1 .. f : now - events[u][i] > Window
      /\ f < all => ~(now - events[u][f + 1] > Window)
  BY DEF Dropped, Expired
<1>3. all \in Nat /\ f \in Nat /\ f <= all
  BY <1>1, <1>2
<1>4. \A i \in f + 1 .. all : events[u][i] \in Nat
  BY <1>1, <1>3
<1>5. /\ rest \in Seq(Nat)
      /\ Len(rest) = all - f
      /\ \A i \in 1 .. all - f : rest[i] = events[u][f + i]
  <2>1. /\ rest \in Seq(Nat)
        /\ Len(rest) = IF f + 1 <= all THEN all - (f + 1) + 1 ELSE 0
        /\ \A i \in 1 .. all - (f + 1) + 1 : rest[i] = events[u][f + 1 + i - 1]
    <3>1. f + 1 \in Int /\ all \in Int
      BY <1>3
    <3> QED
      BY <3>1, <1>4, SubSeqProperties DEF Without
  <2>2. Len(rest) = all - f
    BY <2>1, <1>3
  <2>3. ASSUME NEW i \in 1 .. all - f
        PROVE  rest[i] = events[u][f + i]
    <3>1. i \in 1 .. all - (f + 1) + 1 /\ f + 1 + i - 1 = f + i
      BY <1>3
    <3> QED
      BY <3>1, <2>1
  <2> QED
    BY <2>1, <2>2, <2>3
<1> HIDE DEF rest, all, gone
<1>6. ASSUME ~disordered[u], now >= latest[u]
      PROVE  /\ gone \in Nat
             /\ \A i \in 1 .. Len(rest) : rest[i] = admitted[u][gone + i]
             /\ \A i \in 1 .. gone : now - admitted[u][i] > Window
             /\ Len(rest) > 0 => now - rest[1] <= Window
  <2>1. BucketIsTail(u)
    BY <1>6 DEF LimiterInv, InOrder
  <2>2. Gone(u) \in Nat /\ gone = Gone(u) + f /\ Len(admitted[u]) = Gone(u) + all
    <3>1. Gone(u) \in Nat /\ Len(admitted[u]) \in Nat
      BY <2>1, <1>1 DEF BucketIsTail
    <3>2. Gone(u) = Len(admitted[u]) - all /\ gone = Len(admitted[u]) - Len(rest)
      BY DEF Gone, gone, all
    <3> QED
      BY <3>1, <3>2, <1>3, <1>5
  <2>3. gone \in Nat
    BY <2>2, <1>3
  <2>4. \A i \in 1 .. Len(rest) : rest[i] = admitted[u][gone + i]
    <3> TAKE i \in 1 .. Len(rest)
    <3>1. f + i \in 1 .. all /\ rest[i] = events[u][f + i]
      BY <1>3, <1>5
    <3>2. events[u][f + i] = admitted[u][Gone(u) + (f + i)]
      BY <3>1, <2>1 DEF BucketIsTail, all
    <3> QED
      BY <3>1, <3>2, <2>2, <1>3
  <2>5. ASSUME NEW i \in 1 .. gone
        PROVE  now - admitted[u][i] > Window
    <3>1. CASE i <= Gone(u)
      <4>1. i \in 1 .. Gone(u) /\ i \in 1 .. Len(admitted[u])
        BY <3>1, <2>2, <2>3, <1>3, <1>5
      <4>2. latest[u] - admitted[u][i] > Window /\ admitted[u][i] \in Nat
        BY <4>1, <2>1, <1>1 DEF BucketIsTail
      <4> QED
        BY <4>2, <1>1, <1>6
    <3>2. CASE i > Gone(u)
      <4>1. PICK k \in 1 .. f : i = Gone(u) + k
        <5>1. i - Gone(u) \in 1 .. f /\ i = Gone(u) + (i - Gone(u))
          BY <3>2, <2>2, <2>3, <1>3
        <5> QED
          BY <5>1
      <4>2. events[u][k] = admitted[u][i]
        <5>1. k \in 1 .. Len(events[u])
          BY <1>3 DEF all
        <5>2. events[u][k] = admitted[u][Gone(u) + k]
          BY <5>1, <2>1 DEF BucketIsTail
        <5> QED
          BY <4>1, <5>2
      <4> QED
        BY <4>1, <4>2, <1>2
    <3> QED
      BY <3>1, <3>2, <2>2, <2>3
  <2>6. ASSUME Len(rest) > 0
        PROVE  now - rest[1] <= Window
    <3>1. f < all /\ rest[1] = events[u][f + 1] /\ events[u][f + 1] \in Nat
      BY <2>6, <1>3, <1>4, <1>5
    <3> QED
      BY <3>1, <1>1, <1>2
  <2> QED
    BY <2>3, <2>4, <2>5, <2>6
<1>7. Len(rest) \in Nat /\ Len(rest) <= all
  BY <1>3, <1>5
<1> QED
  BY <1>5, <1>6, <1>7 DEF rest, all, gone

\* Both decisions keep the invariant.
LEMMA DecisionInv ==
    ASSUME LimiterInv, NEW r \in Requests, Allow(r) \/ Refuse(r)
    PROVE  LimiterInv'
<1>0. PICK u \in Users, now \in Nat : call[r].key = u /\ call[r].now = now
  <2>1. call[r] \in Call
    BY DEF Allow, Refuse, LimiterInv, LimiterTypeOK
  <2> QED
    BY <2>1 DEF Call
<1>1. /\ MaxEvents \in Nat \ {0} /\ Window \in Nat
      /\ events \in [Users -> Seq(Nat)] /\ admitted \in [Users -> Seq(Nat)]
      /\ latest \in [Users -> Nat] /\ disordered \in [Users -> BOOLEAN]
  BY MaxEventsAssumption, WindowAssumption DEF LimiterInv, LimiterTypeOK
<1>2. PICK f \in Dropped(events[u], now) :
        LET rest == Without(events[u], f)
        IN \/ /\ Len(rest) < MaxEvents
              /\ events' = [events EXCEPT ![u] = Append(rest, now)]
              /\ admitted' = [admitted EXCEPT ![u] = Append(admitted[u], now)]
           \/ /\ Len(rest) >= MaxEvents
              /\ events' = [events EXCEPT ![u] = rest]
              /\ admitted' = admitted
  BY <1>0 DEF Allow, Refuse
<1>3. /\ call' = [call EXCEPT ![r] = None]
      /\ disordered' = [disordered EXCEPT ![u] = disordered[u] \/ now < latest[u]]
      /\ latest' = [latest EXCEPT ![u] = IF now > latest[u] THEN now ELSE latest[u]]
      /\ clock' = clock
  BY <1>0 DEF Allow, Refuse, Decided
<1> DEFINE rest == Without(events[u], f)
           gone == Len(admitted[u]) - Len(rest)
           past == admitted[u]
           n == Len(past)
<1>4. /\ rest \in Seq(Nat)
      /\ Len(rest) \in Nat
      /\ Len(rest) <= Len(events[u])
      /\ (~disordered[u] /\ now >= latest[u]) =>
            /\ gone \in Nat
            /\ \A i \in 1 .. Len(rest) : rest[i] = past[gone + i]
            /\ \A i \in 1 .. gone : now - past[i] > Window
  BY <1>1, AfterLoop
<1>5. past \in Seq(Nat) /\ n \in Nat /\ latest[u] \in Nat
  BY <1>1
<1>6. /\ Append(rest, now) \in Seq(Nat)
      /\ Len(Append(rest, now)) = Len(rest) + 1
      /\ \A i \in 1 .. Len(rest) : Append(rest, now)[i] = rest[i]
      /\ Append(rest, now)[Len(rest) + 1] = now
  BY <1>1, <1>4, AppendProperties
<1>7. /\ Append(past, now) \in Seq(Nat)
      /\ Len(Append(past, now)) = n + 1
      /\ \A i \in 1 .. n : Append(past, now)[i] = past[i]
      /\ Append(past, now)[n + 1] = now
  BY <1>1, <1>5, AppendProperties
<1> HIDE DEF rest, gone, past, n
<1>8. LimiterTypeOK'
  <2>1. events' \in [Users -> Seq(Nat)] /\ admitted' \in [Users -> Seq(Nat)]
    BY <1>1, <1>2, <1>4, <1>6, <1>7 DEF rest, past
  <2>2. latest' \in [Users -> Nat] /\ disordered' \in [Users -> BOOLEAN]
    <3>1. (IF now > latest[u] THEN now ELSE latest[u]) \in Nat
      BY <1>1
    <3>2. (disordered[u] \/ now < latest[u]) \in BOOLEAN
      OBVIOUS
    <3> QED
      BY <3>1, <3>2, <1>1, <1>3
  <2>3. call' \in [Requests -> Call \cup {None}] /\ clock' \in Nat
    BY <1>3 DEF LimiterInv, LimiterTypeOK
  <2> QED
    BY <2>1, <2>2, <2>3 DEF LimiterTypeOK
<1>9. BucketBound'
  <2>1. Len(events'[u]) <= MaxEvents
    <3>1. Len(events[u]) <= MaxEvents
      BY <1>1 DEF LimiterInv, BucketBound
    <3>2. CASE events' = [events EXCEPT ![u] = Append(rest, now)] /\ Len(rest) < MaxEvents
      BY <3>2, <1>1, <1>4, <1>6
    <3>3. CASE events' = [events EXCEPT ![u] = rest]
      <4>1. Len(events[u]) \in Nat
        BY <1>1
      <4> QED
        BY <3>1, <3>3, <4>1, <1>1, <1>4
    <3> QED
      BY <1>2, <3>2, <3>3 DEF rest
  <2>2. \A v \in Users \ {u} : events'[v] = events[v]
    BY <1>1, <1>2
  <2> QED
    BY <2>1, <2>2 DEF LimiterInv, BucketBound
<1>10. ASSUME NEW v \in Users \ {u}
       PROVE  InOrder(v)'
  <2>1. /\ events'[v] = events[v] /\ admitted'[v] = admitted[v]
        /\ latest'[v] = latest[v] /\ disordered'[v] = disordered[v]
    BY <1>1, <1>2, <1>3
  <2>2. InOrder(v)
    BY DEF LimiterInv
  <2> QED
    BY <2>1, <2>2 DEF InOrder, Rising, BucketIsTail, Gone, Spaced
<1>11. InOrder(u)'
  <2> SUFFICES ASSUME ~disordered'[u]
               PROVE  Rising(u)' /\ BucketIsTail(u)' /\ Spaced(u)'
    BY DEF InOrder
  <2>1. ~disordered[u] /\ now >= latest[u] /\ latest'[u] = now
    <3>1. disordered'[u] = (disordered[u] \/ now < latest[u])
      BY <1>1, <1>3
    <3>2. ~disordered[u] /\ ~(now < latest[u])
      BY <3>1
    <3>3. latest'[u] = IF now > latest[u] THEN now ELSE latest[u]
      BY <1>1, <1>3
    <3> QED
      BY <3>2, <3>3, <1>5
  <2>2. Rising(u) /\ Spaced(u)
    BY <1>1, <2>1 DEF LimiterInv, InOrder
  <2>3. \A i \in 1 .. n : past[i] \in Nat /\ past[i] <= now
    BY <1>1, <1>5, <2>1, <2>2 DEF Rising, past, n
  <2>4. /\ gone \in Nat /\ gone = n - Len(rest)
        /\ \A i \in 1 .. Len(rest) : rest[i] = past[gone + i]
        /\ \A i \in 1 .. gone : now - past[i] > Window
    BY <1>4, <2>1 DEF gone, n, past
  <2>5. /\ \A i, j \in 1 .. n : i <= j => past[i] <= past[j]
        /\ \A i, j \in 1 .. n : j = i + MaxEvents => past[j] - past[i] > Window
    BY <2>2 DEF Rising, Spaced, past, n
  <2>6. CASE /\ Len(rest) < MaxEvents
             /\ events' = [events EXCEPT ![u] = Append(rest, now)]
             /\ admitted' = [admitted EXCEPT ![u] = Append(past, now)]
    <3> DEFINE new == Append(past, now)
               bucket == Append(rest, now)
    <3>1. admitted'[u] = new /\ events'[u] = bucket
      BY <2>6, <1>1
    <3>2. /\ Len(new) = n + 1 /\ Len(bucket) = Len(rest) + 1
          /\ \A i \in 1 .. n : new[i] = past[i]
          /\ new[n + 1] = now
          /\ \A i \in 1 .. Len(rest) : bucket[i] = rest[i]
          /\ bucket[Len(rest) + 1] = now
      BY <1>6, <1>7
    <3> HIDE DEF new, bucket
    <3>3. \A i \in 1 .. n + 1 : i \in 1 .. n \/ i = n + 1
      BY <1>5
    <3>4. Rising(u)'
      <4>1. ASSUME NEW i \in 1 .. n + 1
            PROVE  new[i] <= now
        <5>1. CASE i \in 1 .. n
          BY <5>1, <3>2, <2>3
        <5>2. CASE i = n + 1
          BY <5>2, <3>2
        <5> QED
          BY <5>1, <5>2, <3>3
      <4>2. ASSUME NEW i \in 1 .. n + 1, NEW j \in 1 .. n + 1, i <= j
            PROVE  new[i] <= new[j]
        <5>1. CASE j = n + 1
          BY <5>1, <4>1, <3>2
        <5>2. CASE j \in 1 .. n
          <6>1. i \in 1 .. n
            BY <5>2, <4>2, <1>5
          <6> QED
            BY <5>2, <6>1, <4>2, <3>2, <2>5
        <5> QED
          BY <5>1, <5>2, <3>3
      <4> QED
        BY <4>1, <4>2, <3>1, <3>2, <2>1 DEF Rising
    <3>5. BucketIsTail(u)'
      <4>1. Gone(u)' = gone
        BY <3>1, <3>2, <2>4, <1>4, <1>5 DEF Gone
      <4>2. ASSUME NEW i \in 1 .. Len(rest) + 1
            PROVE  bucket[i] = new[gone + i]
        <5>1. CASE i \in 1 .. Len(rest)
          <6>1. gone + i \in 1 .. n
            BY <5>1, <2>4, <1>4, <1>5
          <6> QED
            BY <5>1, <6>1, <3>2, <2>4
        <5>2. CASE i = Len(rest) + 1
          <6>1. gone + i = n + 1
            BY <5>2, <2>4, <1>4, <1>5
          <6> QED
            BY <5>2, <6>1, <3>2
        <5> QED
          BY <5>1, <5>2, <1>4
      <4>3. ASSUME NEW i \in 1 .. gone
            PROVE  now - new[i] > Window
        <5>1. i \in 1 .. n
          BY <2>4, <1>4, <1>5
        <5> QED
          BY <5>1, <3>2, <2>4
      <4> QED
        BY <4>1, <4>2, <4>3, <3>1, <3>2, <2>1, <2>4 DEF BucketIsTail
    <3>6. Spaced(u)'
      <4>1. ASSUME NEW i \in 1 .. n + 1, NEW j \in 1 .. n + 1, j = i + MaxEvents
            PROVE  new[j] - new[i] > Window
        <5>1. i \in 1 .. n
          BY <4>1, <1>1, <1>5
        <5>2. CASE j \in 1 .. n
          BY <4>1, <5>1, <5>2, <3>2, <2>5
        <5>3. CASE j = n + 1
          <6>1. i \in 1 .. gone
            BY <4>1, <5>1, <5>3, <2>4, <2>6, <1>1, <1>4, <1>5
          <6> QED
            BY <5>1, <5>3, <6>1, <3>2, <2>4
        <5> QED
          BY <5>2, <5>3, <3>3
      <4> QED
        BY <4>1, <3>1, <3>2 DEF Spaced
    <3> QED
      BY <3>4, <3>5, <3>6
  <2>7. CASE /\ events' = [events EXCEPT ![u] = rest]
             /\ admitted' = admitted
    <3>1. admitted'[u] = past /\ events'[u] = rest
      BY <2>7, <1>1 DEF past
    <3>2. Rising(u)'
      BY <3>1, <2>1, <2>3, <2>5 DEF Rising, n
    <3>3. BucketIsTail(u)'
      <4>1. Gone(u)' = gone
        BY <3>1, <2>4 DEF Gone, n
      <4> QED
        BY <4>1, <3>1, <2>1, <2>4 DEF BucketIsTail
    <3>4. Spaced(u)'
      BY <3>1, <2>5 DEF Spaced, n
    <3> QED
      BY <3>2, <3>3, <3>4
  <2> QED
    BY <1>2, <2>6, <2>7 DEF rest, past
<1> QED
  BY <1>8, <1>9, <1>10, <1>11 DEF LimiterInv

\* Reading the clock, the clock itself, and steps of others keep it.
LEMMA OtherInv ==
    ASSUME LimiterInv,
           \/ \E r \in Requests, u \in Users : ReadClock(r, u)
           \/ Tick
           \/ UNCHANGED limiterVars
    PROVE  LimiterInv'
<1>1. UNCHANGED <<events, admitted, latest, disordered>>
  BY DEF ReadClock, Tick, limiterVars
<1>2. LimiterTypeOK'
  <2>1. CASE \E r \in Requests, u \in Users : ReadClock(r, u)
    <3>1. PICK r \in Requests, u \in Users : ReadClock(r, u)
      BY <2>1
    <3>2. [key |-> u, now |-> clock] \in Call
      BY DEF LimiterInv, LimiterTypeOK, Call
    <3> QED
      BY <1>1, <3>1, <3>2 DEF ReadClock, LimiterInv, LimiterTypeOK
  <2>2. CASE Tick
    BY <1>1, <2>2 DEF Tick, LimiterInv, LimiterTypeOK
  <2>3. CASE UNCHANGED limiterVars
    BY <2>3 DEF limiterVars, LimiterInv, LimiterTypeOK
  <2> QED
    BY <2>1, <2>2, <2>3
<1>3. BucketBound'
  BY <1>1 DEF LimiterInv, BucketBound
<1>4. ASSUME NEW u \in Users
      PROVE  InOrder(u)'
  <2>1. InOrder(u)
    BY DEF LimiterInv
  <2> QED
    BY <2>1, <1>1 DEF InOrder, Rising, BucketIsTail, Gone, Spaced
<1> QED
  BY <1>2, <1>3, <1>4 DEF LimiterInv

\* LimiterInv is inductive.
LEMMA LimiterStepInv == LimiterInv /\ [LimiterNext]_limiterVars => LimiterInv'
<1> SUFFICES ASSUME LimiterInv, [LimiterNext]_limiterVars
             PROVE  LimiterInv'
  OBVIOUS
<1>1. CASE \E r \in Requests : Allow(r) \/ Refuse(r)
  BY <1>1, DecisionInv
<1>2. CASE \E r \in Requests, u \in Users : ReadClock(r, u)
  BY <1>2, OtherInv
<1>3. CASE Tick \/ UNCHANGED limiterVars
  BY <1>3, OtherInv
<1> QED
  BY <1>1, <1>2, <1>3 DEF LimiterNext

\* The invariant gives the limit.
LEMMA InvRateKept == LimiterInv => RateKept
<1> SUFFICES ASSUME LimiterInv, NEW u \in Users, ~disordered[u]
             PROVE  \A i, j \in DOMAIN admitted[u] :
                        j = i + MaxEvents => admitted[u][j] - admitted[u][i] > Window
  BY DEF RateKept
<1>1. Spaced(u)
  BY DEF LimiterInv, InOrder
<1>2. DOMAIN admitted[u] = 1 .. Len(admitted[u])
  BY DEF LimiterInv, LimiterTypeOK
<1> QED
  BY <1>1, <1>2 DEF Spaced

\* A user is refused, in order, only if the bucket holds MaxEvents events of the
\* window before, which are the last ones let through.
LEMMA StepRefusalJustified ==
    ASSUME LimiterInv, NEW r \in Requests, call[r] # None, Refuse(r),
           ~disordered'[call[r].key]
    PROVE  LET past == admitted[call[r].key]
           IN /\ Len(past) >= MaxEvents
              /\ call[r].now - past[Len(past) - MaxEvents + 1] <= Window
<1> DEFINE u == call[r].key
           now == call[r].now
           past == admitted[u]
           n == Len(past)
<1>1. /\ u \in Users /\ now \in Nat
      /\ MaxEvents \in Nat \ {0} /\ Window \in Nat
      /\ past \in Seq(Nat) /\ latest[u] \in Nat /\ n \in Nat
      /\ Len(events[u]) \in Nat
  BY MaxEventsAssumption, WindowAssumption DEF LimiterInv, LimiterTypeOK, Call
<1>2. ~disordered[u] /\ now >= latest[u]
  <2>1. disordered' = [disordered EXCEPT ![u] = disordered[u] \/ now < latest[u]]
    BY DEF Refuse, Decided
  <2>2. disordered \in [Users -> BOOLEAN] /\ ~disordered'[u]
    BY DEF LimiterInv, LimiterTypeOK
  <2>3. ~(disordered[u] \/ now < latest[u])
    BY <2>1, <2>2, <1>1
  <2> QED
    BY <2>3, <1>1
<1>3. PICK f \in Dropped(events[u], now) : Len(Without(events[u], f)) >= MaxEvents
  BY DEF Refuse
<1> HIDE DEF u, now
<1> DEFINE rest == Without(events[u], f)
<1>4. /\ Len(rest) \in Nat
      /\ Len(rest) <= Len(events[u])
      /\ n - Len(rest) \in Nat
      /\ \A i \in 1 .. Len(rest) : rest[i] = past[(n - Len(rest)) + i]
      /\ Len(rest) > 0 => now - rest[1] <= Window
  BY <1>1, <1>2, AfterLoop
<1>5. Len(events[u]) <= MaxEvents
  BY <1>1 DEF LimiterInv, BucketBound
<1> HIDE DEF rest, past, n
<1>6. Len(rest) = MaxEvents
  BY <1>1, <1>3, <1>4, <1>5 DEF rest
<1>7. rest[1] = past[n - MaxEvents + 1] /\ now - rest[1] <= Window /\ n >= MaxEvents
  BY <1>1, <1>4, <1>6
<1> QED
  BY <1>7 DEF u, now, past, n

-----------------------------------------------------------------------------

\* The invariant of the limiter holds for any users, threads and limits.
THEOREM LimiterInvariance == LimiterSpec => []LimiterInv
<1>1. LimiterInit => LimiterInv
  BY LimiterInitInv
<1>2. LimiterInv /\ [LimiterNext]_limiterVars => LimiterInv'
  BY LimiterStepInv
<1> QED
  BY <1>1, <1>2, PTL DEF LimiterSpec

\* No user passes more than MaxEvents messages within a window, as long as
\* threads enter in the order of their times.
THEOREM LimitKept == LimiterSpec => []RateKept
<1>1. LimiterInv => RateKept
  BY InvRateKept
<1> QED
  BY <1>1, LimiterInvariance, PTL

\* Nobody is refused without MaxEvents messages in the window before.
THEOREM NoWrongRefusal == LimiterSpec => RefusalJustified
<1> DEFINE Justified ==
        \A r \in Requests :
            (call[r] # None /\ Refuse(r) /\ ~disordered'[call[r].key]) =>
                LET past == admitted[call[r].key]
                IN /\ Len(past) >= MaxEvents
                   /\ call[r].now - past[Len(past) - MaxEvents + 1] <= Window
<1>1. LimiterInv /\ [LimiterNext]_limiterVars => [Justified]_limiterVars
  BY StepRefusalJustified
<1> QED
  BY <1>1, LimiterInvariance, PTL DEF LimiterSpec, RefusalJustified
=============================================================================
