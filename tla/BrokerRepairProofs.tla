------------------------- MODULE BrokerRepairProofs -------------------------
(***************************************************************************)
(* Proofs about BrokerRepair, for any set of backends and any bounds: the  *)
(* floor spaces the automatic repairs, and a page shows a repair exactly   *)
(* while its backend follows one.                                          *)
(***************************************************************************)
EXTENDS BrokerRepair, TLAPS

AskSet    == [by : Backends, who : Whos, at : Steps]
FollowSet == [by : Backends, job : 0..repairs, at : {"watching", "settling"}]

AsksOK(s) == s \subseteq AskSet /\ \A a \in s : a.who = "boot" => a.at = "running"

\* What the store says of the last claim is what was last claimed, by whomever.
FloorKept == claimed.at = floor /\ ~claimed.soon

\* A connected page that was told anything shows a repair exactly while one is followed.
Told == RepairStaysShown /\ RepairingIsFollowed

BrokerInv == BrokerTypeOK /\ FloorKept /\ Told

-----------------------------------------------------------------------------
(* The operators the actions are built from.                               *)

\* What a token call finds is one of the outcomes.
LEMMA FoundType == Found \subseteq Outcomes
  BY DEF Found, Outcomes

\* Adding a request, or moving one on, keeps the requests well formed.
LEMMA AskedOK ==
  ASSUME NEW b \in Backends, NEW who \in Whos, NEW s, AsksOK(s)
  PROVE  AsksOK(Asked(b, who, s))
  BY DEF AsksOK, Asked, AskSet, Whos, Steps

\* The same for its next await.
LEMMA GoesOnOK ==
  ASSUME AsksOK(asks), NEW a \in asks, NEW step \in Steps, a.who # "boot", GoesOn(a, step)
  PROVE  AsksOK(asks')
<1>1. /\ a \in AskSet /\ [a EXCEPT !.at = step] \in AskSet
      /\ [a EXCEPT !.at = step].who = a.who
  BY DEF AsksOK, AskSet
<1>2. QED
  BY <1>1 DEF AsksOK, GoesOn

\* So does the observer, which may ask for a repair.
LEMMA ObservedOK ==
  ASSUME BrokerTypeOK, NEW b \in Backends, NEW found \in Outcomes, Observed(b, found)
  PROVE  state' \in [Backends -> Outcomes] /\ AsksOK(asks')
<1>1. AsksOK(asks)
  BY DEF BrokerTypeOK, AsksOK, AskSet
<1>2. AsksOK(Asked(b, "health", asks))
  BY <1>1, AskedOK DEF Whos
<1>3. QED
  BY <1>1, <1>2 DEF Observed, BrokerTypeOK

\* Telling the page of one backend what its count says keeps every page true, as long as
\* the other backends' counts stay.
LEMMA EmitTells ==
  ASSUME BrokerTypeOK, Told, UNCHANGED up,
         NEW b \in Backends, NEW r \in BOOLEAN, NEW fs, Emit(b, r, fs),
         (r \/ FollowedBy(b, fs) # {}) <=> FollowedBy(b, followers') # {},
         \A c \in Backends \ {b} : FollowedBy(c, followers') = FollowedBy(c, followers)
  PROVE  /\ Told'
         /\ page' \in [Backends -> Flags] /\ uncorrected' \subseteq Backends
<1>1. page' \in [Backends -> Flags] /\ uncorrected' \subseteq Backends
  BY DEF Emit, Payload, BrokerTypeOK, Flags
<1>2. ASSUME NEW c \in Backends \ {b}
      PROVE  page'[c] = page[c] /\ (c \in uncorrected' <=> c \in uncorrected)
  BY DEF Emit, BrokerTypeOK
<1>3. up[b] => /\ page'[b] = Payload(b, r, fs)
               /\ b \notin uncorrected'
  BY DEF Emit, BrokerTypeOK
<1>4. Payload(b, r, fs) = "repairing" <=> FollowedBy(b, followers') # {}
  BY DEF Payload
<1>5. QED
  BY <1>1, <1>2, <1>3, <1>4 DEF Told, RepairStaysShown, RepairingIsFollowed

\* What leaves the pages, the sockets and the counts alone.
LEMMA ToldKept ==
  ASSUME Told, UNCHANGED <<up, page, uncorrected>>,
         \A c \in Backends : FollowedBy(c, followers') = {} <=> FollowedBy(c, followers) = {}
  PROVE  Told'
  BY DEF Told, RepairStaysShown, RepairingIsFollowed

\* Following tells the page of one more follower than before, or of one that was there.
LEMMA FollowOK ==
  ASSUME BrokerTypeOK, Told, UNCHANGED up, NEW b \in Backends, NEW job \in 0..repairs',
         repairs' \in Nat, repairs <= repairs', Follow(b, job)
  PROVE  /\ Told' /\ followers' \subseteq FollowSet'
         /\ page' \in [Backends -> Flags] /\ uncorrected' \subseteq Backends
<1> DEFINE new == [by |-> b, job |-> job, at |-> "watching"]
<1>1. followers' \subseteq FollowSet'
  <2>1. followers \subseteq FollowSet'
    BY DEF BrokerTypeOK, FollowSet
  <2>2. new \in FollowSet'
    BY DEF FollowSet
  <2>3. QED
    BY <2>1, <2>2 DEF Follow
<1>2. FollowedBy(b, followers') # {}
  <2>1. new.by = b
    OBVIOUS
  <2>2. QED
    BY <2>1 DEF Follow, FollowedBy
<1>3. \A c \in Backends \ {b} : FollowedBy(c, followers') = FollowedBy(c, followers)
  BY DEF Follow, FollowedBy
<1>4. Emit(b, TRUE, followers)
  BY DEF Follow
<1>5. QED
  BY <1>1, <1>2, <1>3, <1>4, EmitTells

\* A request that ends with nothing started takes back at most a flag of its own.
LEMMA RefusedOK ==
  ASSUME BrokerTypeOK, Told, UNCHANGED up, NEW a \in asks, Refused(a)
  PROVE  /\ Told' /\ AsksOK(asks')
         /\ page' \in [Backends -> Flags]
         /\ UNCHANGED <<followers, uncorrected>>
<1>1. page' \in [Backends -> Flags] /\ AsksOK(asks') /\ UNCHANGED <<followers, uncorrected>>
  BY DEF Refused, BrokerTypeOK, Flags, AsksOK, AskSet
<1>2. \A c \in Backends : page'[c] = "repairing" <=> page[c] = "repairing"
  BY DEF Refused, BrokerTypeOK
<1>3. Told'
  BY <1>1, <1>2 DEF Told, RepairStaysShown, RepairingIsFollowed
<1>4. QED
  BY <1>1, <1>3

-----------------------------------------------------------------------------
(* The steps.                                                              *)

\* Nobody follows and nothing was claimed.
LEMMA InitInv == BrokerInit => BrokerInv
<1>1. BrokerInit => BrokerTypeOK
  <2> SUFFICES ASSUME BrokerInit PROVE BrokerTypeOK
    OBVIOUS
  <2>1. state \in [Backends -> Outcomes]
    BY FoundType DEF BrokerInit
  <2>2. QED
    BY <2>1, BrokerAssumption DEF BrokerInit, BrokerTypeOK, Flags
<1>2. BrokerInit => FloorKept /\ Told
  BY DEF BrokerInit, FloorKept, Told, RepairStaysShown, RepairingIsFollowed, FollowedBy
<1>3. QED
  BY <1>1, <1>2 DEF BrokerInv

\* The requests: what starts one, and what each of its awaits does.
LEMMA AsksStep ==
  ASSUME BrokerInv, NEW a \in asks,
         FindsRunning(a) \/ AsksKeyring(a) \/ Claims(a) \/ StartsRepair(a)
  PROVE  BrokerInv'
<1> USE DEF BrokerInv
<1>0. /\ a.by \in Backends /\ AsksOK(asks) /\ AsksOK(asks \ {a})
      /\ a.at # "running" => a.who # "boot"
  BY DEF BrokerTypeOK, AsksOK, AskSet
<1>1. CASE FindsRunning(a)
  <2>1. CASE Follow(a.by, 0) /\ asks' = asks \ {a} /\ UNCHANGED faults
    <3>1. /\ Told' /\ followers' \subseteq FollowSet'
          /\ page' \in [Backends -> Flags] /\ uncorrected' \subseteq Backends
      BY <1>0, <1>1, <2>1, FollowOK, BrokerAssumption DEF FindsRunning, machine, BrokerTypeOK
    <3>2. BrokerTypeOK'
      BY <1>0, <1>1, <2>1, <3>1 DEF FindsRunning, machine, BrokerTypeOK, AsksOK, AskSet, FollowSet
    <3>3. QED
      BY <1>1, <3>1, <3>2 DEF FindsRunning, FloorKept
  <2>2. CASE Refused(a) /\ faults' \in Nat
    <3>1. /\ Told' /\ AsksOK(asks') /\ page' \in [Backends -> Flags]
          /\ UNCHANGED <<followers, uncorrected>>
      BY <1>1, <2>2, RefusedOK DEF FindsRunning
    <3>2. BrokerTypeOK'
      BY <1>1, <2>2, <3>1 DEF FindsRunning, machine, BrokerTypeOK, AsksOK, AskSet
    <3>3. QED
      BY <1>1, <3>1, <3>2 DEF FindsRunning, FloorKept
  <2>3. CASE /\ a.who # "boot" /\ GoesOn(a, "keyring") /\ UNCHANGED <<followers, told>>
             /\ faults' \in Nat
    <3>1. AsksOK(asks')
      BY <1>0, <2>3, GoesOnOK DEF Steps
    <3>2. BrokerTypeOK'
      BY <1>1, <2>3, <3>1 DEF FindsRunning, machine, told, BrokerTypeOK, AsksOK, AskSet
    <3>3. Told'
      BY <1>1, <2>3, ToldKept DEF FindsRunning, told
    <3>4. QED
      BY <1>1, <3>2, <3>3 DEF FindsRunning, FloorKept
  <2>4. QED
    BY <1>1, <2>1, <2>2, <2>3 DEF FindsRunning, OnlyFollows, BrokerTypeOK
<1>2. CASE AsksKeyring(a)
  <2>1. CASE Refused(a)
    <3>1. /\ Told' /\ AsksOK(asks') /\ page' \in [Backends -> Flags]
          /\ UNCHANGED <<followers, uncorrected>>
      BY <1>2, <2>1, RefusedOK DEF AsksKeyring
    <3>2. BrokerTypeOK'
      BY <1>2, <3>1 DEF AsksKeyring, machine, BrokerTypeOK, AsksOK, AskSet
    <3>3. QED
      BY <1>2, <3>1, <3>2 DEF AsksKeyring, FloorKept
  <2>2. CASE GoesOn(a, "claim") /\ UNCHANGED <<followers, told>>
    <3>1. AsksOK(asks')
      BY <1>0, <1>2, <2>2, GoesOnOK DEF AsksKeyring, Steps
    <3>2. BrokerTypeOK'
      BY <1>2, <2>2, <3>1 DEF AsksKeyring, machine, told, BrokerTypeOK, AsksOK, AskSet
    <3>3. Told'
      BY <1>2, <2>2, ToldKept DEF AsksKeyring, told
    <3>4. QED
      BY <1>2, <3>2, <3>3 DEF AsksKeyring, FloorKept
  <2>3. QED
    BY <1>2, <2>1, <2>2 DEF AsksKeyring
<1>3. CASE Claims(a)
  <2>1. CASE Refused(a) /\ UNCHANGED <<floor, claimed>>
    <3>1. /\ Told' /\ AsksOK(asks') /\ page' \in [Backends -> Flags]
          /\ UNCHANGED <<followers, uncorrected>>
      BY <1>3, <2>1, RefusedOK DEF Claims
    <3>2. BrokerTypeOK'
      BY <1>3, <2>1, <3>1 DEF Claims, machine, BrokerTypeOK, AsksOK, AskSet
    <3>3. QED
      BY <2>1, <3>1, <3>2 DEF FloorKept
  <2>2. CASE /\ FloorAllows(a) /\ floor' = Moved(a)
             /\ claimed' = [at |-> now, soon |-> claimed.soon \/ TooSoon(a)]
             /\ GoesOn(a, "start") /\ UNCHANGED <<followers, told>>
    <3>1. AsksOK(asks')
      BY <1>0, <1>3, <2>2, GoesOnOK DEF Claims, Steps
    <3>2. ~TooSoon(a)
      BY <2>2, BrokerAssumption DEF FloorAllows, TooSoon, FloorKept, BrokerTypeOK
    <3>3. FloorKept' /\ floor' \in Int /\ claimed' \in [at : Int, soon : BOOLEAN]
      BY <2>2, <3>2 DEF FloorKept, BrokerTypeOK, Moved
    <3>4. BrokerTypeOK'
      BY <1>3, <2>2, <3>1, <3>3 DEF Claims, machine, told, BrokerTypeOK, AsksOK, AskSet
    <3>5. Told'
      BY <1>3, <2>2, ToldKept DEF Claims, told
    <3>6. QED
      BY <3>3, <3>4, <3>5
  <2>3. QED
    BY <1>3, <2>1, <2>2 DEF Claims
<1>4. CASE StartsRepair(a)
  <2>1. CASE Refused(a) /\ UNCHANGED <<unit, repairs>> /\ faults' \in Nat
    <3>1. /\ Told' /\ AsksOK(asks') /\ page' \in [Backends -> Flags]
          /\ UNCHANGED <<followers, uncorrected>>
      BY <1>4, <2>1, RefusedOK DEF StartsRepair
    <3>2. BrokerTypeOK'
      BY <1>4, <2>1, <3>1 DEF StartsRepair, BrokerTypeOK, AsksOK, AskSet
    <3>3. QED
      BY <1>4, <3>1, <3>2 DEF StartsRepair, FloorKept
  <2>2. ASSUME NEW job \in 0..repairs', Follow(a.by, job), asks' = asks \ {a}, UNCHANGED faults,
               \/ UNCHANGED <<unit, repairs>>
               \/ repairs < MaxRepairs /\ unit' = repairs + 1 /\ repairs' = repairs + 1
        PROVE  BrokerInv'
    <3>1. repairs' \in 0..MaxRepairs /\ unit' \in 0..repairs' /\ repairs <= repairs'
      BY <2>2, BrokerAssumption DEF BrokerTypeOK
    <3>2. /\ Told' /\ followers' \subseteq FollowSet'
          /\ page' \in [Backends -> Flags] /\ uncorrected' \subseteq Backends
      BY <1>0, <1>4, <2>2, <3>1, FollowOK, BrokerAssumption DEF StartsRepair
    <3>3. BrokerTypeOK'
      BY <1>0, <1>4, <2>2, <3>1, <3>2 DEF StartsRepair, BrokerTypeOK, AsksOK, AskSet, FollowSet
    <3>4. QED
      BY <1>4, <3>2, <3>3 DEF StartsRepair, FloorKept
  <2>3. CASE Follow(a.by, 0) /\ asks' = asks \ {a} /\ UNCHANGED <<unit, repairs, faults>>
    <3>1. 0 \in 0..repairs'
      BY <2>3, BrokerAssumption DEF BrokerTypeOK
    <3>2. QED
      BY <2>2, <2>3, <3>1
  <2>4. CASE /\ repairs < MaxRepairs /\ unit' = repairs + 1 /\ repairs' = repairs + 1
             /\ Follow(a.by, unit') /\ asks' = asks \ {a} /\ UNCHANGED faults
    <3>1. unit' \in 0..repairs'
      BY <2>4, BrokerAssumption DEF BrokerTypeOK
    <3>2. QED
      BY <2>2, <2>4, <3>1
  <2>5. QED
    BY <1>4, <2>1, <2>3, <2>4 DEF StartsRepair, BrokerTypeOK
<1>5. QED
  BY <1>1, <1>2, <1>3, <1>4

\* The followers: the end of one repair, then its announcement.
LEMMA FollowersStep ==
  ASSUME BrokerInv, NEW f \in followers, Watched(f) \/ Settles(f)
  PROVE  BrokerInv'
<1> USE DEF BrokerInv
<1>0. f \in FollowSet /\ f.by \in Backends
  BY DEF BrokerTypeOK, FollowSet
<1>1. CASE Watched(f)
  <2> DEFINE g == [f EXCEPT !.at = "settling"]
  <2>1. g \in FollowSet /\ g.by = f.by
    BY <1>0 DEF FollowSet
  <2>2. followers' \subseteq FollowSet
    BY <1>1, <2>1 DEF Watched, BrokerTypeOK, FollowSet
  <2>3. BrokerTypeOK'
    BY <1>1, <2>2 DEF Watched, machine, told, BrokerTypeOK, FollowSet
  <2>4. \A c \in Backends : FollowedBy(c, followers') = {} <=> FollowedBy(c, followers) = {}
    BY <1>1, <2>1 DEF Watched, FollowedBy
  <2>5. Told'
    BY <1>1, <2>4, ToldKept DEF Watched, told
  <2>6. QED
    BY <1>1, <2>3, <2>5 DEF Watched, FloorKept
<1>2. CASE Settles(f)
  <2>1. state[f.by] \in Outcomes
    BY <1>0 DEF BrokerTypeOK
  <2>2. state' \in [Backends -> Outcomes] /\ AsksOK(asks')
    <3>1. PICK found \in {state[f.by]} \cup Found : Observed(f.by, found)
      BY <1>2 DEF Settles
    <3>2. found \in Outcomes
      BY <2>1, FoundType
    <3>3. QED
      BY <1>0, <3>1, <3>2, ObservedOK
  <2>3. \A c \in Backends \ {f.by} : FollowedBy(c, followers') = FollowedBy(c, followers)
    BY <1>2 DEF Settles, FollowedBy
  <2>4. Told' /\ page' \in [Backends -> Flags] /\ uncorrected' \subseteq Backends
    BY <1>0, <1>2, <2>3, EmitTells DEF Settles
  <2>5. BrokerTypeOK'
    BY <1>2, <2>2, <2>4 DEF Settles, machine, BrokerTypeOK, AsksOK, AskSet
  <2>6. QED
    BY <1>2, <2>4, <2>5 DEF Settles, FloorKept
<1>3. QED
  BY <1>1, <1>2

\* The pages and the processes behind them.
LEMMA PagesStep ==
  ASSUME BrokerInv, NEW b \in Backends,
         TokenCall(b) \/ Health(b) \/ Press(b) \/ Drop(b) \/ Greets(b) \/ Restarts(b)
  PROVE  BrokerInv'
<1> USE DEF BrokerInv
<1>0. AsksOK(asks) /\ "health" \in Whos /\ "press" \in Whos /\ "boot" \in Whos
  BY DEF BrokerTypeOK, AsksOK, AskSet, Whos
<1>1. CASE TokenCall(b)
  <2>1. state' \in [Backends -> Outcomes] /\ AsksOK(asks')
    <3>1. PICK found \in Found : Observed(b, found)
      BY <1>1 DEF TokenCall
    <3>2. QED
      BY <3>1, FoundType, ObservedOK
  <2>2. Told' /\ page' \in [Backends -> Flags] /\ uncorrected' \subseteq Backends
    BY <1>1, EmitTells DEF TokenCall
  <2>3. BrokerTypeOK'
    BY <1>1, <2>1, <2>2 DEF TokenCall, machine, BrokerTypeOK, AsksOK, AskSet
  <2>4. QED
    BY <1>1, <2>2, <2>3 DEF TokenCall, FloorKept
<1>2. CASE Health(b)
  <2>1. AsksOK(asks')
    BY <1>0, <1>2, AskedOK DEF Health
  <2>2. BrokerTypeOK'
    BY <1>2, <2>1 DEF Health, machine, told, BrokerTypeOK, AsksOK, AskSet
  <2>3. Told'
    BY <1>2, ToldKept DEF Health, told
  <2>4. QED
    BY <1>2, <2>2, <2>3 DEF Health, FloorKept
<1>3. CASE Press(b)
  <2>1. AsksOK(asks')
    BY <1>0, <1>3, AskedOK DEF Press
  <2>2. BrokerTypeOK'
    BY <1>3, <2>1 DEF Press, machine, BrokerTypeOK, AsksOK, AskSet, Flags
  <2>3. Told'
    BY <1>3 DEF Press, BrokerTypeOK, Told, RepairStaysShown, RepairingIsFollowed
  <2>4. QED
    BY <1>3, <2>2, <2>3 DEF Press, FloorKept
<1>4. CASE Drop(b)
  <2>1. AsksOK(asks') /\ repairs' \in 0..MaxRepairs /\ unit' \in 0..repairs' /\ repairs <= repairs'
    BY <1>0, <1>4, BrokerAssumption DEF Drop, AsksOK, AskSet, BrokerTypeOK
  <2>2. BrokerTypeOK'
    BY <1>4, <2>1 DEF Drop, Unplugged, BrokerTypeOK, AsksOK, AskSet, Flags
  <2>3. Told'
    BY <1>4 DEF Drop, Unplugged, BrokerTypeOK, Told, RepairStaysShown, RepairingIsFollowed
  <2>4. QED
    BY <1>4, <2>2, <2>3 DEF Drop, FloorKept
<1>5. CASE Greets(b)
  <2>1. BrokerTypeOK'
    BY <1>5 DEF Greets, machine, Payload, BrokerTypeOK, Flags
  <2>2. Told'
    BY <1>5 DEF Greets, Payload, BrokerTypeOK, Told, RepairStaysShown, RepairingIsFollowed
  <2>3. QED
    BY <1>5, <2>1, <2>2 DEF Greets, FloorKept
<1>6. CASE Restarts(b)
  <2>1. AsksOK({a \in asks : a.by # b})
    BY <1>0 DEF AsksOK
  <2>2. AsksOK(Asked(b, "boot", {a \in asks : a.by # b}))
    BY <1>0, <2>1, AskedOK
  <2>3. AsksOK(Asked(b, "health", Asked(b, "boot", {a \in asks : a.by # b})))
    BY <1>0, <2>2, AskedOK
  <2>4. AsksOK(asks')
    BY <1>6, <2>2, <2>3 DEF Restarts
  <2>5. BrokerTypeOK'
    <3>1. state' \in [Backends -> Outcomes]
      BY <1>6, FoundType DEF Restarts, BrokerTypeOK
    <3>2. QED
      BY <1>6, <2>4, <3>1 DEF Restarts, Unplugged, machine, BrokerTypeOK, AsksOK, AskSet, Flags
  <2>6. /\ \A c \in Backends \ {b} : FollowedBy(c, followers') = FollowedBy(c, followers)
        /\ ~up'[b]
    BY <1>6 DEF Restarts, Unplugged, FollowedBy, BrokerTypeOK
  <2>7. Told'
    BY <1>6, <2>6 DEF Restarts, Unplugged, BrokerTypeOK, Told, RepairStaysShown, RepairingIsFollowed
  <2>8. QED
    BY <1>6, <2>5, <2>7 DEF Restarts, FloorKept
<1>7. QED
  BY <1>1, <1>2, <1>3, <1>4, <1>5, <1>6

\* Every step of the machine, the backends and the pages.
LEMMA StepInv == BrokerInv /\ [BrokerNext]_bvars => BrokerInv'
<1> SUFFICES ASSUME BrokerInv, [BrokerNext]_bvars PROVE BrokerInv'
  OBVIOUS
<1>1. CASE Tick \/ Locks \/ RepairEnds
  <2>1. BrokerTypeOK'
    <3>1. CASE Tick
      BY <3>1 DEF BrokerInv, Tick, machine, told, BrokerTypeOK
    <3>2. CASE Locks
      BY <3>2 DEF BrokerInv, Locks, told, BrokerTypeOK
    <3>3. CASE RepairEnds
      <4>1. repairs \in Nat
        BY <3>3, BrokerAssumption DEF BrokerInv, BrokerTypeOK
      <4>2. unit' \in 0..repairs'
        BY <3>3, <4>1 DEF RepairEnds
      <4>3. QED
        BY <3>3, <4>2 DEF BrokerInv, RepairEnds, told, BrokerTypeOK
    <3>4. QED
      BY <1>1, <3>1, <3>2, <3>3
  <2>2. Told'
    BY <1>1, ToldKept DEF BrokerInv, Tick, Locks, RepairEnds, told
  <2>3. QED
    BY <1>1, <2>1, <2>2 DEF BrokerInv, Tick, Locks, RepairEnds, FloorKept
<1>2. CASE UNCHANGED bvars
  <2>1. BrokerTypeOK'
    BY <1>2 DEF BrokerInv, bvars, BrokerTypeOK
  <2>2. Told'
    BY <1>2, ToldKept DEF BrokerInv, bvars
  <2>3. QED
    BY <1>2, <2>1, <2>2 DEF BrokerInv, bvars, FloorKept
<1>3. QED
  BY <1>1, <1>2, PagesStep, AsksStep, FollowersStep DEF BrokerNext

-----------------------------------------------------------------------------
(* The theorems.                                                           *)

\* The inductive invariant: types, the floor, and the pages against the followers.
THEOREM BrokerSafety == BrokerSpec => []BrokerInv
  BY InitInv, StepInv, PTL DEF BrokerSpec

\* Every reachable state of the repairs, their followers and the pages is well typed.
THEOREM BrokerTypes == BrokerSpec => []BrokerTypeOK
<1>1. BrokerInv => BrokerTypeOK
  BY DEF BrokerInv
<1>2. QED
  BY <1>1, BrokerSafety, PTL

\* Whoever restarts in between, and for any number of backends on the machine: no automatic
\* trigger claims a repair within the interval after another claim.
THEOREM OneClaimPerInterval == BrokerSpec => []AutomaticSpaced
<1>1. BrokerInv => AutomaticSpaced
  BY DEF BrokerInv, FloorKept, AutomaticSpaced
<1>2. QED
  BY <1>1, BrokerSafety, PTL

\* Of several followers the first to end does not take the page's flag from the others.
THEOREM FollowedIsShown == BrokerSpec => []RepairStaysShown
<1>1. BrokerInv => RepairStaysShown
  BY DEF BrokerInv, Told
<1>2. QED
  BY <1>1, BrokerSafety, PTL

\* A page that shows a repair has a follower at work that will take the flag back.
THEOREM ShownIsFollowed == BrokerSpec => []RepairingIsFollowed
<1>1. BrokerInv => RepairingIsFollowed
  BY DEF BrokerInv, Told
<1>2. QED
  BY <1>1, BrokerSafety, PTL
=============================================================================
