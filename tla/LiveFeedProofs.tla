------------------------- MODULE LiveFeedProofs -------------------------
(* For every set of backends and messages and every retention that        *)
(* satisfies RetentionAssumption: AtMostOnce, what may be pruned, and that*)
(* nothing but a named cause keeps a message from being acted on.         *)
(*                                                                        *)
(* AtMostOnce alone is not inductive: a claim may be pruned. What is kept *)
(* instead is that a message acted on is still claimed OR has been stale  *)
(* for longer than any handler can be suspended (ClaimCovers), which needs*)
(* the time a claim was taken at (ClaimFresh) and the clock a handler past*)
(* its policy has read (HandFresh).                                       *)
EXTENDS LiveFeed, TLAPS

Pending(m) == acted[m] > 0 \/ \E b \in Backends : <<b, m>> \in tasks

ClaimCovers ==
    \A m \in Messages :
        Pending(m) => \/ claims[m] # Unclaimed
                      \/ compose[m] + MaxAge(m) + Stall < now

ClaimFresh ==
    \A m \in Messages :
        claims[m] # Unclaimed => /\ claims[m] \in 0..now
                                 /\ compose[m] <= claims[m] + MaxAge(m)

HandFresh ==
    \A b \in Backends :
        hand[b].at = "claim" =>
            /\ hand[b].asked <= now
            /\ now <= hand[b].asked + Stall
            /\ compose[hand[b].msg] <= hand[b].asked + MaxAge(hand[b].msg)
            /\ hand[b].asked <= compose[hand[b].msg] + MaxAge(hand[b].msg)

OnlyPosted ==
    /\ \A m \in Messages :
          posted[m] = 0 => ~ Pending(m) /\ claims[m] = Unclaimed
    /\ \A b \in Backends : hand[b].at # "idle" => posted[hand[b].msg] > 0

IInv == TypeOK /\ AtMostOnce /\ ClaimCovers /\ ClaimFresh /\ HandFresh /\ OnlyPosted

-----------------------------------------------------------------------------
(* The type invariant, of every behaviour of the feed.                     *)
THEOREM TypeCorrect == Spec => []TypeOK
<1> USE BoundsAssumption, SetsAssumption DEF TypeOK, feed
<1>1. Init => TypeOK
  BY DEF Init, Hands, Surfaces, Idle, Unclaimed
<1>2. TypeOK /\ [Next]_vars => TypeOK'
  <2> SUFFICES ASSUME TypeOK, [Next]_vars PROVE TypeOK'
    OBVIOUS
  <2>1. CASE Tick
    BY <2>1 DEF Tick
  <2>2. ASSUME NEW m \in Messages, Post(m) PROVE TypeOK'
    BY <2>2 DEF Post
  <2>3. ASSUME NEW m \in Messages, Edit(m) PROVE TypeOK'
    BY <2>3 DEF Edit
  <2>4. ASSUME NEW s \in Surfaces, Toggle(s) PROVE TypeOK'
    BY <2>4 DEF Toggle
  <2>5. ASSUME NEW b \in Backends, Boot(b) PROVE TypeOK'
    BY <2>5 DEF Boot, PruneClaims, Expired, Unclaimed
  <2>6. ASSUME NEW b \in Backends, Crash(b) PROVE TypeOK'
    BY <2>6 DEF Crash, Hands
  <2>7. ASSUME NEW b \in Backends, NEW m \in Messages, IngestFails(b, m) PROVE TypeOK'
    BY <2>7 DEF IngestFails, Hands, Decide
  <2>8. ASSUME NEW b \in Backends, NEW m \in Messages,
               NEW v \in 1..(MaxEdits + 1), Ingest(b, m, v)
        PROVE TypeOK'
    BY <2>8 DEF Ingest, Hands, Decide, MadeQuietly
  <2>9. ASSUME NEW b \in Backends, AskPolicy(b) PROVE TypeOK'
    <3>1. hand[b].msg \in Messages
      BY <2>9 DEF AskPolicy, Hands, Idle
    <3> QED
      BY <2>9, <3>1 DEF AskPolicy, Hands, Claiming
  <2>10. ASSUME NEW b \in Backends, ClaimOnce(b) PROVE TypeOK'
    <3>1. hand[b].msg \in Messages
      BY <2>10 DEF ClaimOnce, Hands, Idle
    <3> QED
      BY <2>10, <3>1 DEF ClaimOnce, Hands
  <2>11. ASSUME NEW b \in Backends, ClaimFails(b) PROVE TypeOK'
    <3>1. hand[b].msg \in Messages
      BY <2>11 DEF ClaimFails, Hands, Idle
    <3> QED
      BY <2>11, <3>1 DEF ClaimFails, Hands
  <2>15. ASSUME NEW b \in Backends, RequestFails(b) PROVE TypeOK'
    BY <2>15 DEF RequestFails, Hands
  <2>12. ASSUME NEW b \in Backends, NEW m \in Messages, Act(b, m) PROVE TypeOK'
    BY <2>12 DEF Act
  <2>13. ASSUME NEW b \in Backends, NEW m \in Messages, PersistPage(b, m) PROVE TypeOK'
    BY <2>13 DEF PersistPage, MadeQuietly
  <2>14. CASE UNCHANGED vars
    BY <2>14 DEF vars
  <2> QED
    BY <2>1, <2>2, <2>3, <2>4, <2>5, <2>6, <2>7, <2>8, <2>9, <2>10, <2>11,
       <2>12, <2>13, <2>14, <2>15 DEF Next, World, Live, Fault
<1> QED
  BY <1>1, <1>2, PTL DEF Spec

-----------------------------------------------------------------------------
(* The inductive invariant.                                                *)

LEMMA IInvInit == Init => IInv
  BY BoundsAssumption, SetsAssumption
     DEF Init, IInv, TypeOK, Hands, Surfaces, Idle, Unclaimed, AtMostOnce,
         ClaimCovers, ClaimFresh, HandFresh, OnlyPosted, Pending

(* What a handler is holding is one of the three shapes of hand.           *)
LEMMA HandMessage ==
  ASSUME TypeOK, NEW b \in Backends, hand[b].at # "idle"
  PROVE  /\ hand[b].msg \in Messages
         /\ hand[b].at = "claim" => hand[b].asked \in Nat
  BY DEF TypeOK, Hands, Idle

LEMMA AgesAreNat == \A m \in Messages : MaxAge(m) \in Nat
  BY BoundsAssumption DEF MaxAge

LEMMA NotPending ==
  ASSUME TypeOK, NEW m \in Messages, ~ Pending(m)
  PROVE  acted[m] = 0 /\ \A b \in Backends : <<b, m>> \notin tasks
<1>1. acted[m] \in Nat
  BY DEF TypeOK
<1> QED
  BY <1>1 DEF Pending

(* Steps of the world: the clock, a new message, an edit, a setting.       *)
LEMMA TickStep == ASSUME IInv, TypeOK', Tick PROVE IInv'
<1> USE BoundsAssumption, AgesAreNat DEF IInv, TypeOK, Tick, Pending
<1>1. AtMostOnce'
  BY DEF AtMostOnce
<1>2. ClaimCovers'
  BY SMTT(20) DEF ClaimCovers, MaxAge
<1>3. ClaimFresh'
  BY DEF ClaimFresh, MaxAge
<1>4. HandFresh'
  <2> SUFFICES ASSUME NEW b \in Backends, hand[b].at = "claim"
               PROVE  /\ hand[b].asked <= now + 1
                      /\ now + 1 <= hand[b].asked + Stall
                      /\ compose[hand[b].msg] <= hand[b].asked + MaxAge(hand[b].msg)
                      /\ hand[b].asked <= compose[hand[b].msg] + MaxAge(hand[b].msg)
    BY DEF HandFresh, MaxAge
  <2> QED
    BY HandMessage DEF HandFresh
<1>5. OnlyPosted'
  BY DEF OnlyPosted
<1> QED
  BY <1>1, <1>2, <1>3, <1>4, <1>5

LEMMA PostStep ==
  ASSUME IInv, TypeOK', NEW n \in Messages, Post(n) PROVE IInv'
<1> USE BoundsAssumption, AgesAreNat DEF IInv, TypeOK, Post, Pending
<1>1. \A m \in Messages : m # n => compose'[m] = compose[m]
  OBVIOUS
<1>2. AtMostOnce'
  BY DEF AtMostOnce
<1>3. ClaimCovers'
  BY <1>1 DEF ClaimCovers, MaxAge, OnlyPosted
<1>4. ClaimFresh'
  BY <1>1 DEF ClaimFresh, MaxAge, OnlyPosted
<1>5. HandFresh'
  <2> SUFFICES ASSUME NEW b \in Backends, hand[b].at = "claim"
               PROVE  hand[b].msg # n
    BY <1>1, HandMessage DEF HandFresh, MaxAge
  <2>1. \A c \in Backends : hand[c].at # "idle" => posted[hand[c].msg] > 0
    BY DEF OnlyPosted
  <2>2. posted[hand[b].msg] > 0 /\ posted[n] = 0
    BY <2>1
  <2> QED
    BY <2>2
<1>6. /\ \A m \in Messages : posted'[m] = IF m = n THEN 1 ELSE posted[m]
      /\ UNCHANGED <<claims, hand, tasks, acted>>
  OBVIOUS
<1>7. \A m \in Messages : Pending(m)' <=> Pending(m)
  OBVIOUS
<1>8. ASSUME NEW m \in Messages, posted'[m] = 0
      PROVE  ~ Pending(m)' /\ claims'[m] = Unclaimed
  BY <1>6, <1>7, <1>8 DEF OnlyPosted
<1>9. ASSUME NEW b \in Backends, hand[b].at # "idle"
      PROVE  posted'[hand[b].msg] > 0
  BY <1>6, <1>9, HandMessage DEF OnlyPosted
<1>10. OnlyPosted'
  BY <1>6, <1>8, <1>9 DEF OnlyPosted
<1> QED
  BY <1>2, <1>3, <1>4, <1>5, <1>10

LEMMA EditStep ==
  ASSUME IInv, TypeOK', NEW n \in Messages, Edit(n) PROVE IInv'
<1> USE BoundsAssumption, HandMessage DEF IInv, TypeOK, Edit, Pending
<1>1. AtMostOnce' /\ ClaimCovers' /\ ClaimFresh' /\ HandFresh'
  BY DEF AtMostOnce, ClaimCovers, ClaimFresh, HandFresh, MaxAge
<1>2. \A m \in Messages : (posted[m] > 0 => posted'[m] > 0) /\ (posted'[m] = 0 => posted[m] = 0)
  OBVIOUS
<1>3. OnlyPosted'
  BY <1>2 DEF OnlyPosted
<1> QED
  BY <1>1, <1>3

(* Nothing the invariant mentions changes but the hand, which is emptied   *)
(* or holds a frame whose policy is still to be asked.                     *)
LEMMA HandStep ==
  ASSUME IInv, TypeOK',
         UNCHANGED <<now, posted, compose, claims, tasks, acted>>,
         NEW b \in Backends, NEW h \in Hands,
         hand' = [hand EXCEPT ![b] = h],
         h = Idle \/ (h.at = "decide" /\ posted[h.msg] > 0)
  PROVE  IInv'
<1> USE DEF IInv, TypeOK, Pending
<1>1. AtMostOnce' /\ ClaimCovers' /\ ClaimFresh'
  BY DEF AtMostOnce, ClaimCovers, ClaimFresh, MaxAge
<1>2. HandFresh'
  BY DEF HandFresh, Idle, MaxAge
<1>3. \A c \in Backends : hand'[c] = IF c = b THEN h ELSE hand[c]
  OBVIOUS
<1>4. OnlyPosted'
  <2>1. \A m \in Messages : posted[m] = 0 => ~ Pending(m)' /\ claims[m] = Unclaimed
    BY DEF OnlyPosted
  <2>2. \A c \in Backends : hand'[c].at # "idle" => posted[hand'[c].msg] > 0
    BY <1>3 DEF OnlyPosted, Idle
  <2> QED
    BY <2>1, <2>2 DEF OnlyPosted
<1> QED
  BY <1>1, <1>2, <1>4

(* A boot prunes: by then a claim is too old for any policy and any hand.  *)
LEMMA BootStep ==
  ASSUME IInv, TypeOK', NEW b \in Backends, Boot(b) PROVE IInv'
<1> USE BoundsAssumption, AgesAreNat DEF IInv, TypeOK, Boot, Pending, feed
<1>1. \A m \in Messages :
        \/ claims'[m] = claims[m]
        \/ /\ claims'[m] = Unclaimed
           /\ claims[m] # Unclaimed
           /\ claims[m] < now - Retention
  BY DEF PruneClaims, Expired
<1>2. AtMostOnce' /\ HandFresh'
  BY DEF AtMostOnce, HandFresh, MaxAge
<1>3. ClaimCovers'
  <2> SUFFICES ASSUME NEW m \in Messages, Pending(m), claims'[m] = Unclaimed,
                      claims[m] # Unclaimed, claims[m] < now - Retention
               PROVE  compose[m] + MaxAge(m) + Stall < now
    BY <1>1 DEF ClaimCovers, MaxAge
  <2>1. claims[m] \in Int /\ compose[m] <= claims[m] + MaxAge(m)
    BY DEF ClaimFresh
  <2>2. Retention >= 2 * MaxAge(m) + Stall
    BY RetentionAssumption DEF MaxAge
  <2> QED
    BY <2>1, <2>2
<1>4. ClaimFresh'
  BY <1>1 DEF ClaimFresh, MaxAge
<1>5. OnlyPosted'
  BY <1>1 DEF OnlyPosted
<1> QED
  BY <1>2, <1>3, <1>4, <1>5

LEMMA CrashStep ==
  ASSUME IInv, TypeOK', NEW b \in Backends, Crash(b) PROVE IInv'
<1> USE DEF IInv, TypeOK, Crash, Pending, feed
<1>1. AtMostOnce' /\ ClaimCovers' /\ ClaimFresh'
  BY DEF AtMostOnce, ClaimCovers, ClaimFresh, MaxAge
<1>2. HandFresh' /\ OnlyPosted'
  BY DEF HandFresh, OnlyPosted, MaxAge, Idle
<1> QED
  BY <1>1, <1>2

LEMMA AskPolicyStep ==
  ASSUME IInv, TypeOK', NEW b \in Backends, AskPolicy(b) PROVE IInv'
<1> DEFINE m == hand[b].msg
<1> USE BoundsAssumption, AgesAreNat DEF IInv, TypeOK, AskPolicy, Pending, feed
<1>1. m \in Messages /\ posted[m] > 0
  BY HandMessage DEF OnlyPosted
<1>2. AtMostOnce' /\ ClaimCovers' /\ ClaimFresh'
  BY DEF AtMostOnce, ClaimCovers, ClaimFresh, MaxAge
<1>3. \/ hand'[b] = Idle
      \/ /\ hand'[b] = Claiming(m, now)
         /\ compose[m] <= now + MaxAge(m)
         /\ now <= compose[m] + MaxAge(m)
  BY <1>1 DEF Fresh
<1>4. \A c \in Backends : c # b => hand'[c] = hand[c]
  OBVIOUS
<1>5. HandFresh'
  BY <1>1, <1>3, <1>4 DEF HandFresh, MaxAge, Idle, Claiming
<1>6. OnlyPosted'
  BY <1>1, <1>3, <1>4 DEF OnlyPosted, Idle, Claiming
<1> QED
  BY <1>2, <1>5, <1>6

(* The claim itself. An unclaimed message that is still in a hand is not   *)
(* stale enough to have been acted on and forgotten.                       *)
LEMMA ClaimOnceStep ==
  ASSUME IInv, TypeOK', NEW b \in Backends, ClaimOnce(b) PROVE IInv'
<1> DEFINE m == hand[b].msg
<1> USE BoundsAssumption, AgesAreNat DEF IInv, TypeOK, ClaimOnce, FreeToClaim, feed
<1>1. m \in Messages /\ hand[b].asked \in Nat /\ posted[m] > 0
  BY HandMessage DEF OnlyPosted
<1>2. CASE claims[m] # Unclaimed
  <2>1. UNCHANGED <<now, posted, compose, claims, tasks, acted>>
    BY <1>2
  <2>2. Idle \in Hands /\ hand' = [hand EXCEPT ![b] = Idle]
    BY DEF Hands
  <2> QED
    BY <2>1, <2>2, HandStep
<1>3. CASE claims[m] = Unclaimed
  <2> USE <1>3
  <2>1. /\ claims' = [claims EXCEPT ![m] = now]
        /\ tasks' = tasks \cup {<<b, m>>}
        /\ hand' = [hand EXCEPT ![b] = Idle]
        /\ UNCHANGED <<now, posted, compose, acted>>
    OBVIOUS
  <2>2. ~ Pending(m)
    <3>1. now <= compose[m] + MaxAge(m) + Stall
      BY <1>1 DEF HandFresh
    <3> QED
      BY <1>1, <3>1 DEF ClaimCovers
  <2>3. AtMostOnce'
    <3>1. acted[m] = 0 /\ \A c \in Backends : <<c, m>> \notin tasks
      BY <1>1, <2>2, NotPending
    <3>2. \A c \in Backends, n \in Messages :
             <<c, n>> \in tasks' <=> <<c, n>> \in tasks \/ (c = b /\ n = m)
      BY <2>1
    <3>3. acted' = acted
      BY <2>1
    <3>4. ASSUME NEW n \in Messages, NEW c \in Backends, NEW d \in Backends,
                 <<c, n>> \in tasks', <<d, n>> \in tasks'
          PROVE  acted[n] = 0 /\ d = c
      BY <1>1, <3>1, <3>2, <3>4 DEF AtMostOnce
    <3>5. \A n \in Messages : acted[n] <= 1
      BY DEF AtMostOnce
    <3> QED
      BY <3>3, <3>4, <3>5 DEF AtMostOnce
  <2>4. claims'[m] = now /\ now # Unclaimed
    BY <1>1, <2>1 DEF Unclaimed
  <2>5. \A n \in Messages : n # m => claims'[n] = claims[n] /\ (Pending(n)' => Pending(n))
    BY <1>1, <2>1 DEF Pending
  <2>6. ClaimCovers'
    BY <1>1, <2>1, <2>4, <2>5 DEF ClaimCovers, MaxAge
  <2>7. ClaimFresh'
    BY <1>1, <2>1, <2>4, <2>5 DEF ClaimFresh, HandFresh, MaxAge
  <2>8. HandFresh'
    BY <2>1 DEF HandFresh, Idle, MaxAge
  <2>9. OnlyPosted'
    BY <1>1, <2>1, <2>5 DEF OnlyPosted, Idle
  <2> QED
    BY <2>3, <2>6, <2>7, <2>8, <2>9
<1> QED
  BY <1>2, <1>3

(* A claim with nothing behind it.                                         *)
LEMMA RequestFailsStep ==
  ASSUME IInv, TypeOK', NEW b \in Backends, RequestFails(b) PROVE IInv'
<1> DEFINE m == hand[b].msg
<1> USE BoundsAssumption, AgesAreNat DEF IInv, TypeOK, RequestFails, FreeToClaim, feed
<1>1. m \in Messages /\ hand[b].asked \in Nat /\ posted[m] > 0
  BY HandMessage DEF OnlyPosted
<1>2. /\ claims' = [claims EXCEPT ![m] = now] /\ hand' = [hand EXCEPT ![b] = Idle]
      /\ UNCHANGED <<now, posted, compose, acted, tasks>>
  OBVIOUS
<1>3. claims'[m] = now /\ now # Unclaimed
  BY <1>1, <1>2 DEF Unclaimed
<1>4. \A n \in Messages : n # m => claims'[n] = claims[n]
  BY <1>1, <1>2
<1>5. AtMostOnce' /\ \A n \in Messages : Pending(n)' <=> Pending(n)
  BY <1>2 DEF AtMostOnce, Pending
<1>6. ClaimCovers'
  <2>1. \A n \in Messages : claims[n] # Unclaimed => claims'[n] # Unclaimed
    BY <1>3, <1>4
  <2>2. \A n \in Messages : compose'[n] + MaxAge(n)' + Stall < now' <=> compose[n] + MaxAge(n) + Stall < now
    BY <1>2 DEF MaxAge
  <2> QED
    BY <1>5, <2>1, <2>2 DEF ClaimCovers
<1>7. ClaimFresh'
  BY <1>1, <1>2, <1>3, <1>4 DEF ClaimFresh, HandFresh, MaxAge
<1>8. HandFresh'
  BY <1>2 DEF HandFresh, Idle, MaxAge
<1>9. OnlyPosted'
  <2>1. \A n \in Messages : posted'[n] = 0 => ~ Pending(n)' /\ claims'[n] = Unclaimed
    BY <1>1, <1>2, <1>4, <1>5 DEF OnlyPosted
  <2>2. \A c \in Backends : hand'[c].at # "idle" => posted'[hand'[c].msg] > 0
    BY <1>2 DEF OnlyPosted, Idle
  <2> QED
    BY <2>1, <2>2 DEF OnlyPosted
<1> QED
  BY <1>5, <1>6, <1>7, <1>8, <1>9

LEMMA ActStep ==
  ASSUME IInv, TypeOK', NEW b \in Backends, NEW n \in Messages, Act(b, n)
  PROVE  IInv'
<1> USE DEF IInv, TypeOK, Act, feed
<1>1. \A m \in Messages : Pending(m)' => Pending(m)
  BY DEF Pending
<1>2. AtMostOnce'
  BY DEF AtMostOnce
<1>3. ClaimCovers' /\ ClaimFresh' /\ HandFresh'
  BY <1>1 DEF ClaimCovers, ClaimFresh, HandFresh, MaxAge
<1>4. OnlyPosted'
  BY <1>1 DEF OnlyPosted
<1> QED
  BY <1>2, <1>3, <1>4

(* A step that touches nothing the invariant reads.                        *)
LEMMA OtherStep ==
  ASSUME IInv, TypeOK',
         UNCHANGED <<now, posted, compose, claims, hand, tasks, acted>>
  PROVE  IInv'
  BY DEF IInv, AtMostOnce, ClaimCovers, ClaimFresh, HandFresh, OnlyPosted,
         Pending, MaxAge

LEMMA IInvNext == IInv /\ TypeOK' /\ [Next]_vars => IInv'
<1> SUFFICES ASSUME IInv, TypeOK', [Next]_vars PROVE IInv'
  OBVIOUS
<1>1. CASE Tick
  BY <1>1, TickStep
<1>2. ASSUME NEW m \in Messages, Post(m) PROVE IInv'
  BY <1>2, PostStep
<1>3. ASSUME NEW m \in Messages, Edit(m) PROVE IInv'
  BY <1>3, EditStep
<1>4. ASSUME NEW s \in Surfaces, Toggle(s) PROVE IInv'
  BY <1>4, OtherStep DEF Toggle, feed
<1>5. ASSUME NEW b \in Backends, Boot(b) PROVE IInv'
  BY <1>5, BootStep
<1>6. ASSUME NEW b \in Backends, Crash(b) PROVE IInv'
  BY <1>6, CrashStep
<1>7. ASSUME NEW b \in Backends, NEW m \in Messages, IngestFails(b, m) PROVE IInv'
  BY <1>7, HandStep DEF IngestFails, feed, Hands, Decide
<1>8. ASSUME NEW b \in Backends, NEW m \in Messages,
             NEW v \in 1..(MaxEdits + 1), Ingest(b, m, v)
      PROVE IInv'
  <2>1. posted[m] > 0
    BY <1>8 DEF Ingest, IInv, TypeOK
  <2> DEFINE h == Decide(m, stored[m] # v)
  <2>2. h \in Hands /\ h.at = "decide" /\ h.msg = m
    BY DEF Hands, Decide
  <2>3. hand' = [hand EXCEPT ![b] = h]
    BY <1>8 DEF Ingest
  <2>4. UNCHANGED <<now, posted, compose, claims, tasks, acted>>
    BY <1>8 DEF Ingest, feed
  <2> HIDE DEF h
  <2> QED
    BY <2>1, <2>2, <2>3, <2>4, HandStep
<1>9. ASSUME NEW b \in Backends, AskPolicy(b) PROVE IInv'
  BY <1>9, AskPolicyStep
<1>10. ASSUME NEW b \in Backends, ClaimOnce(b) PROVE IInv'
  BY <1>10, ClaimOnceStep
<1>11. ASSUME NEW b \in Backends, ClaimFails(b) PROVE IInv'
  BY <1>11, HandStep DEF ClaimFails, feed, Hands
<1>15. ASSUME NEW b \in Backends, RequestFails(b) PROVE IInv'
  BY <1>15, RequestFailsStep
<1>12. ASSUME NEW b \in Backends, NEW m \in Messages, Act(b, m) PROVE IInv'
  BY <1>12, ActStep
<1>13. ASSUME NEW b \in Backends, NEW m \in Messages, PersistPage(b, m) PROVE IInv'
  BY <1>13, OtherStep DEF PersistPage, feed
<1>14. CASE UNCHANGED vars
  BY <1>14, OtherStep DEF vars
<1> QED
  BY <1>1, <1>2, <1>3, <1>4, <1>5, <1>6, <1>7, <1>8, <1>9, <1>10, <1>11,
     <1>12, <1>13, <1>14, <1>15 DEF Next, World, Live, Fault

THEOREM Inductive == Spec => []IInv
<1>1. Spec => []TypeOK
  BY TypeCorrect
<1> QED
  BY <1>1, IInvInit, IInvNext, PTL DEF Spec

-----------------------------------------------------------------------------
(* A message is pushed or answered at most once, whatever the backends, the*)
(* repetitions, the restarts and the pruning.                              *)
THEOREM ActedAtMostOnce == Spec => []AtMostOnce
  BY Inductive, PTL DEF IInv

(* No claim is forgotten while a policy or a handler could still act.      *)
THEOREM PruningIsSafe == Spec => PrunedIsStale
<1>1. IInv /\ [Next]_vars =>
        [\A m \in Messages :
            claims[m] # Unclaimed /\ claims'[m] = Unclaimed
               => /\ ~ Fresh(m)
                  /\ \A b \in Backends : ~ (hand[b].at = "claim" /\ hand[b].msg = m)
        ]_vars
  <2> SUFFICES ASSUME IInv, [Next]_vars, NEW m \in Messages,
                      claims[m] # Unclaimed, claims'[m] = Unclaimed
               PROVE  /\ ~ Fresh(m)
                      /\ \A b \in Backends : ~ (hand[b].at = "claim" /\ hand[b].msg = m)
    OBVIOUS
  <2> USE BoundsAssumption, AgesAreNat DEF IInv, TypeOK
  <2>1. \E b \in Backends : Boot(b)
    <3>1. ASSUME NEW b \in Backends, ClaimOnce(b) PROVE FALSE
      <4>1. hand[b].msg \in Messages
        BY <3>1, HandMessage DEF ClaimOnce
      <4>2. claims'[m] \in {claims[m], now}
        BY <3>1, <4>1 DEF ClaimOnce
      <4> QED
        BY <4>2 DEF Unclaimed
    <3>3. ASSUME NEW b \in Backends, RequestFails(b) PROVE FALSE
      <4>1. hand[b].msg \in Messages
        BY <3>3, HandMessage DEF RequestFails
      <4>2. claims'[m] \in {claims[m], now}
        BY <3>3, <4>1 DEF RequestFails
      <4> QED
        BY <4>2 DEF Unclaimed
    <3>2. claims' # claims
      OBVIOUS
    <3> QED
      BY <3>1, <3>2, <3>3 DEF Next, World, Live, Fault, Tick, Post, Edit, Toggle, Crash,
           IngestFails, Ingest, AskPolicy, ClaimFails, Act, PersistPage, vars, feed
  <2>2. claims[m] < now - Retention
    BY <2>1 DEF Boot, PruneClaims, Expired
  <2>3. compose[m] <= claims[m] + MaxAge(m)
    BY DEF ClaimFresh
  <2>4. Retention >= 2 * MaxAge(m) + Stall
    BY RetentionAssumption DEF MaxAge
  <2>5. compose[m] + MaxAge(m) + Stall < now
    BY <2>2, <2>3, <2>4
  <2>6. ~ Fresh(m)
    BY <2>5 DEF Fresh
  <2>7. ASSUME NEW b \in Backends, hand[b].at = "claim", hand[b].msg = m PROVE FALSE
    <3>1. hand[b].asked \in Nat
      BY <2>7, HandMessage
    <3> QED
      BY <2>5, <2>7, <3>1 DEF HandFresh
  <2> QED
    BY <2>6, <2>7
<1> QED
  BY <1>1, Inductive, PTL DEF Spec, PrunedIsStale

-----------------------------------------------------------------------------
(* Nothing else is missed: the other half of "exactly once", as far as it  *)
(* is a matter of safety.                                                  *)

(* Some backend has the message and will put it to a policy, or claim it.  *)
InHand(m) ==
    \E b \in Backends : Holds(b, m) /\ (hand[b].at = "decide" => hand[b].changed)

(* A row nobody able has heard of was made quietly, and a claim with       *)
(* nothing behind it has lost its action to a named cause.                 *)
MissInv ==
    /\ \A m \in Messages : stored[m] # 0 => m \in heard \cup excused
    /\ \A m \in Messages : claims[m] # Unclaimed => Pending(m) \/ m \in excused
    /\ \A m \in heard \ excused : Pending(m) \/ InHand(m)

LEMMA ExcusesStay ==
  ASSUME TypeOK, [Next]_vars
  PROVE  excused \subseteq excused'
  BY DEF Next, World, Live, Fault, Tick, Post, Edit, Toggle, Boot, Crash, IngestFails, Ingest,
         AskPolicy, ClaimOnce, ClaimFails, RequestFails, Act, PersistPage, vars

(* What is acted on, or about to be, stays so, unless it is killed.        *)
LEMMA PendingStays ==
  ASSUME TypeOK, [Next]_vars, NEW m \in Messages, Pending(m)
  PROVE  Pending(m)' \/ m \in excused'
<1>1. ASSUME NEW b \in Backends, NEW n \in Messages, Act(b, n) PROVE Pending(m)'
  <2>1. acted'[m] = IF n = m THEN acted[m] + 1 ELSE acted[m]
    BY <1>1 DEF Act, TypeOK
  <2>2. acted[m] \in Nat
    BY DEF TypeOK
  <2>3. CASE n = m
    BY <2>1, <2>2, <2>3 DEF Pending
  <2>4. CASE n # m
    BY <1>1, <2>1, <2>4 DEF Pending, Act
  <2> QED
    BY <2>3, <2>4
<1>2. CASE UNCHANGED acted /\ tasks \subseteq tasks'
  BY <1>2 DEF Pending
<1>3. ASSUME NEW b \in Backends, Crash(b) PROVE Pending(m)' \/ m \in excused'
  BY <1>3 DEF Crash, Pending
<1> QED
  BY <1>1, <1>2, <1>3 DEF Next, World, Live, Fault, Tick, Post, Edit, Toggle, Boot, IngestFails,
     Ingest, AskPolicy, ClaimOnce, ClaimFails, RequestFails, PersistPage, vars

(* A frame in hand is decided as it was when it was heard, or for a named  *)
(* cause is not.                                                           *)
LEMMA InHandStays ==
  ASSUME TypeOK, MissInv, [Next]_vars, NEW m \in Messages, InHand(m)
  PROVE  Pending(m)' \/ InHand(m)' \/ m \in excused'
<1>1. PICK b \in Backends : Holds(b, m) /\ (hand[b].at = "decide" => hand[b].changed)
  BY DEF InHand
<1>2. CASE hand'[b] = hand[b]
  BY <1>1, <1>2 DEF InHand, Holds
<1>3. CASE AskPolicy(b)
  <2>1. CASE hand[b].changed /\ Able(b, m) /\ Fresh(m)
    <3>1. hand'[b] = Claiming(m, now)
      BY <1>1, <1>3, <2>1 DEF AskPolicy, Holds, TypeOK
    <3> QED
      BY <3>1 DEF InHand, Holds, Claiming
  <2>2. CASE ~ (hand[b].changed /\ Able(b, m) /\ Fresh(m))
    BY <1>1, <1>3, <2>2 DEF AskPolicy, Holds
  <2> QED
    BY <2>1, <2>2
<1>4. CASE ClaimOnce(b)
  <2>1. CASE FreeToClaim(m)
    BY <1>1, <1>4, <2>1 DEF ClaimOnce, Holds, Pending
  <2>2. CASE ~ FreeToClaim(m)
    <3>1. Pending(m) \/ m \in excused
      BY <2>2 DEF FreeToClaim, MissInv
    <3> QED
      BY <3>1, PendingStays, ExcusesStay
  <2> QED
    BY <2>1, <2>2
<1>5. CASE ClaimFails(b) \/ RequestFails(b) \/ Crash(b)
  BY <1>1, <1>5 DEF ClaimFails, RequestFails, Crash, Holds
<1>6. ASSUME NEW c \in Backends, NEW h, hand' = [hand EXCEPT ![c] = h], c # b
      PROVE  hand'[b] = hand[b]
  BY <1>6 DEF TypeOK
<1>7. ASSUME NEW c \in Backends, NEW n \in Messages,
             IngestFails(c, n) \/ \E v \in 1..(MaxEdits + 1) : Ingest(c, n, v)
      PROVE  c # b
  <2>1. hand[c] = Idle
    BY <1>7 DEF Ingest, IngestFails
  <2> QED
    BY <1>1, <2>1 DEF Idle, Holds
<1>8. ASSUME NEW c \in Backends, Live(c) \/ Fault(c)
      PROVE  \/ hand'[b] = hand[b] \/ AskPolicy(b) \/ ClaimOnce(b)
             \/ ClaimFails(b) \/ RequestFails(b) \/ Crash(b)
  BY <1>6, <1>7, <1>8
     DEF Live, Fault, AskPolicy, ClaimOnce, ClaimFails, RequestFails, Crash, IngestFails, Ingest, Act
<1>9. CASE UNCHANGED hand
  BY <1>2, <1>9
<1> QED
  BY <1>2, <1>3, <1>4, <1>5, <1>8, <1>9
     DEF Next, World, Tick, Post, Edit, Boot, Toggle, PersistPage, vars

(* Rows, as the ingestion and the history pages make them.                 *)
LEMMA RowsAreHeard ==
  ASSUME TypeOK, MissInv, [Next]_vars, NEW m \in Messages, stored'[m] # 0
  PROVE  m \in heard' \cup excused'
<1>1. heard \subseteq heard'
  BY DEF Next, World, Live, Fault, Tick, Post, Edit, Toggle, Boot, Crash, IngestFails, Ingest,
         AskPolicy, ClaimOnce, ClaimFails, RequestFails, Act, PersistPage, vars
<1>2. CASE stored[m] # 0
  BY <1>1, <1>2, ExcusesStay DEF MissInv
<1>3. CASE stored[m] = 0
  <2>1. \E b \in Backends : \/ \E v \in 1..(MaxEdits + 1) : Ingest(b, m, v)
                          \/ PersistPage(b, m)
    <3>1. PICK b \in Backends, n \in Messages :
               (\E v \in 1..(MaxEdits + 1) : Ingest(b, n, v)) \/ PersistPage(b, n)
      BY <1>3 DEF Next, World, Live, Fault, Tick, Post, Edit, Toggle, Boot, Crash,
         IngestFails, AskPolicy, ClaimOnce, ClaimFails, RequestFails, Act, vars
    <3>2. \E v : stored' = [stored EXCEPT ![n] = v]
      BY <3>1 DEF Ingest, PersistPage
    <3>3. n = m
      BY <1>3, <3>2 DEF TypeOK
    <3> QED
      BY <3>1, <3>3
  <2> QED
    BY <2>1 DEF Ingest, PersistPage, MadeQuietly
<1> QED
  BY <1>2, <1>3

LEMMA ClaimsAreKept ==
  ASSUME TypeOK, MissInv, [Next]_vars, NEW m \in Messages, claims'[m] # Unclaimed
  PROVE  Pending(m)' \/ m \in excused'
<1>1. CASE claims[m] # Unclaimed
  BY <1>1, PendingStays, ExcusesStay DEF MissInv
<1>2. CASE claims[m] = Unclaimed
  <2>1. PICK b \in Backends : ClaimOnce(b) \/ RequestFails(b)
    BY <1>2 DEF Next, World, Live, Fault, Tick, Post, Edit, Toggle, Boot, PruneClaims, Crash,
       IngestFails, Ingest, AskPolicy, ClaimFails, Act, PersistPage, vars, TypeOK
  <2>2. CASE ClaimOnce(b)
    <3>1. hand[b].msg = m /\ <<b, m>> \in tasks'
      BY <1>2, <2>2 DEF ClaimOnce, TypeOK
    <3> QED
      BY <3>1 DEF Pending
  <2>3. CASE RequestFails(b)
    BY <1>2, <2>3 DEF RequestFails, TypeOK
  <2> QED
    BY <2>1, <2>2, <2>3
<1> QED
  BY <1>1, <1>2

(* What an able backend has just been handed fresh is in its hand, unless  *)
(* its row was made quietly or the store refused it.                       *)
LEMMA HeardIsMinded ==
  ASSUME TypeOK, MissInv, [Next]_vars, NEW m \in heard' \ excused'
  PROVE  Pending(m)' \/ InHand(m)'
<1>0. m \notin excused /\ heard \subseteq Messages
  BY ExcusesStay DEF TypeOK
<1>1. CASE m \in heard
  BY <1>0, <1>1, PendingStays, InHandStays DEF MissInv
<1>2. CASE m \notin heard
  <2>1. PICK b \in Backends, n \in Messages :
             IngestFails(b, n) \/ \E v \in 1..(MaxEdits + 1) : Ingest(b, n, v)
    BY <1>2 DEF Next, World, Live, Fault, Tick, Post, Edit, Toggle, Boot, Crash, AskPolicy,
       ClaimOnce, ClaimFails, RequestFails, Act, PersistPage, vars
  <2>2. CASE IngestFails(b, n)
    BY <1>2, <2>2 DEF IngestFails
  <2>3. ASSUME NEW v \in 1..(MaxEdits + 1), Ingest(b, n, v) PROVE InHand(m)'
    <3>1. n = m
      BY <1>2, <2>3 DEF Ingest
    <3>2. stored[m] # v
      BY <1>0, <1>2, <2>3, <3>1 DEF Ingest, MissInv
    <3>3. hand'[b] = Decide(m, stored[m] # v) /\ (stored[m] # v) = TRUE
      BY <2>3, <3>1, <3>2 DEF Ingest, TypeOK
    <3>4. hand'[b] = Decide(m, TRUE)
      BY <3>3, Zenon
    <3> QED
      BY <3>4 DEF InHand, Holds, Decide
  <2> QED
    BY <2>1, <2>2, <2>3
<1> QED
  BY <1>1, <1>2

(* Of any number of backends, however their frames interleave, repeat and  *)
(* are pruned: what an able one was handed fresh is acted on or about to   *)
(* be, unless a kill, a store or setting in the way, age, or a row made    *)
(* quietly took it.                                                        *)
THEOREM NothingIsMissed == Spec => []OnlyExcusedMissed
<1>1. Init => MissInv
  BY DEF Init, MissInv
<1>2. TypeOK /\ MissInv /\ [Next]_vars => MissInv'
  BY RowsAreHeard, ClaimsAreKept, HeardIsMinded DEF MissInv
<1>3. TypeOK /\ MissInv => OnlyExcusedMissed
  <2> SUFFICES ASSUME TypeOK, MissInv, NEW m \in heard \ excused
               PROVE  \/ acted[m] > 0
                      \/ \E b \in Backends :
                           \/ <<b, m>> \in tasks
                           \/ Holds(b, m) /\ (hand[b].at = "decide" => hand[b].changed)
    BY DEF OnlyExcusedMissed
  <2> QED
    BY DEF MissInv, Pending, InHand
<1> QED
  BY <1>1, <1>2, <1>3, TypeCorrect, PTL DEF Spec
=============================================================================
