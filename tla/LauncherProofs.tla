--------------------------- MODULE LauncherProofs ---------------------------
(***************************************************************************)
(* Proofs about Launcher, for any number of children, faults and requests. *)
(* Shape says who may stand for the current generation; Count, that every  *)
(* backend nobody stops is the current one, or owed to a stop that crossed *)
(* a start or another stop; Clean, what listens while there is none.       *)
(***************************************************************************)
EXTENDS Launcher, FiniteSetTheorems, TLAPS

\* A supervisor awaiting the exit of the current generation's child.
Watched == \E w \in watch : w[2] = generation

Shape ==
  /\ \A w \in watch : w[2] <= generation
  /\ \A mine \in backoff : mine <= generation
  /\ \A s \in starters : s.mine <= generation
  /\ hooked => proc \in Children /\ status[proc] # "none"
  /\ ~hooked => /\ proc = 0 /\ watch = {} /\ backoff = {} /\ awaits = {}
                /\ \A s, t \in starters : s = t
  /\ \A s \in starters : s.who = "first" <=> ~hooked
  /\ ~running => starters = {} /\ watch = {} /\ backoff = {} /\ awaits = {}
  /\ ~running /\ hooked => proc \in doomed
  /\ relaunch # "no" => ~running
  /\ IsFiniteSet(awaits)

\* Whose child is whose: a start's is fresh, and killed children have been started.
Kin ==
  /\ \A c \in doomed : status[c] # "none"
  /\ \A s \in starters : status[s.child] # "none" /\ s.child \notin doomed /\ s.child # proc
  /\ \A s, t \in starters : s.child = t.child => s = t
  /\ \A a \in awaits : a.nr <= asks

\* At most one of these will bring the current child back; a stop takes over from it.
Heirs ==
  /\ generation \in backoff => ~Watched
  /\ \A s \in starters : s.who = "supervisor" /\ s.mine = generation =>
       /\ generation \notin backoff /\ ~Watched
       /\ \A t \in starters : t.who = "supervisor" /\ t.mine = generation => t = s
  /\ Watched => proc \notin doomed

\* The backends in hand beside the current one: being started, or left over.
Hand   == {c \in Children : (c \in Owned /\ c # proc) \/ \E s \in starters : s.child = c}
Mended == generation \in backoff \/ (Watched /\ status[proc] = "dead")
Due    == (IF Mended THEN 1 ELSE 0) + (IF proc \in Owned THEN 1 ELSE 0)

Count ==
  /\ running => Cardinality(Hand) + Cardinality(awaits) + Due <= 1 + crossed
  /\ starters = {} => Cardinality(Hand) <= crossed

Quiet == \A c \in doomed : status[c] # "listening"

Clean ==
  /\ \A c \in doomed : status[c] = "listening" => c = proc
  /\ \A a \in awaits : a.on = proc
  /\ starters # {} \/ generation \in backoff => Quiet
  /\ relaunch # "no" => ~PortOpen /\ relaunch # "attached"

Basis == LauncherTypeOK /\ Shape /\ Kin /\ Heirs

LauncherInv == Basis /\ Count /\ (crossed = 0 => Clean)

-----------------------------------------------------------------------------
(* Finite sets.                                                            *)

\* What the counting needs of the two sets that are counted.
LEMMA HandFinite ==
  /\ IsFiniteSet(Children) /\ 0 \notin Children
  /\ \A S \in SUBSET Children : IsFiniteSet(S) /\ Cardinality(S) \in Nat
<1>1. IsFiniteSet(Children)
  BY LauncherAssumption, FS_Interval DEF Children
<1>2. ASSUME NEW S \in SUBSET Children PROVE IsFiniteSet(S) /\ Cardinality(S) \in Nat
  BY <1>1, FS_Subset, FS_CardinalityType
<1>3. QED
  BY <1>1, <1>2 DEF Children

LEMMA Smaller ==
  ASSUME NEW T \in SUBSET Children, NEW S \in SUBSET T
  PROVE  Cardinality(S) <= Cardinality(T)
BY HandFinite, FS_Subset

\* A set that loses one element is smaller by one, whatever else it loses.
LEMMA OneLess ==
  ASSUME NEW T \in SUBSET Children, NEW c \in T, NEW S \in SUBSET (T \ {c})
  PROVE  Cardinality(S) <= Cardinality(T) - 1
<1>1. Cardinality(T \ {c}) = Cardinality(T) - 1
  BY HandFinite, FS_RemoveElement
<1>2. QED
  BY <1>1, Smaller

LEMMA OneMore ==
  ASSUME NEW T \in SUBSET Children, NEW c \in Children, NEW S \in SUBSET (T \cup {c})
  PROVE  Cardinality(S) <= Cardinality(T) + 1
<1>1. Cardinality(T \cup {c}) <= Cardinality(T) + 1
  <2>1. Cardinality(T \cup {c}) = IF c \in T THEN Cardinality(T) ELSE Cardinality(T) + 1
    BY HandFinite, FS_AddElement
  <2>2. QED
    BY <2>1, HandFinite
<1>2. Cardinality(S) <= Cardinality(T \cup {c})
  BY Smaller
<1>3. QED
  BY <1>1, <1>2, HandFinite

-----------------------------------------------------------------------------
(* Types, and who stands for the current generation.                       *)

\* The children's own steps.
LEMMA ChildrenBasis ==
  ASSUME Basis, NEW c \in Children, Binds(c) \/ Dies(c) \/ Reaped(c)
  PROVE  Basis'
<1> USE LauncherAssumption
<1>1. UNCHANGED <<doomed, running, hooked, proc, generation, starters, watch, backoff,
                  awaits, relaunch, asks, crossed, abandoned>>
  BY DEF Binds, Dies, Reaped
<1>2. PICK x \in {"listening", "dead"} : status' = [status EXCEPT ![c] = x]
  BY DEF Binds, Dies, Reaped
<1>3. status \in [Children -> {"none", "starting", "listening", "dead"}]
  BY DEF Basis, LauncherTypeOK
<1>4. /\ status' \in [Children -> {"none", "starting", "listening", "dead"}]
      /\ \A d \in Children : status[d] # "none" => status'[d] # "none"
  BY <1>2, <1>3
<1>5. faults' \in 0..MaxFaults
  BY DEF Binds, Dies, Reaped, Basis, LauncherTypeOK
<1>6. LauncherTypeOK'
  BY <1>1, <1>4, <1>5 DEF Basis, LauncherTypeOK
<1>7. Shape'
  BY <1>1, <1>4 DEF Basis, Shape
<1>8. Kin'
  <2>1. doomed \subseteq Children /\ \A s \in starters : s.child \in Children
    BY DEF Basis, LauncherTypeOK, Starter
  <2>2. QED
    BY <1>1, <1>4, <2>1 DEF Basis, Kin
<1>9. Heirs'
  BY <1>1 DEF Basis, Heirs, Watched
<1>10. QED
  BY <1>6, <1>7, <1>8, <1>9 DEF Basis

\* A start by whoever is allowed to: of a child that is nobody's yet.
LEMMA Fresh ==
  ASSUME Basis, NEW who \in {"supervisor", "restart"}, NEW mine \in Nat, Spawn(who, mine)
  PROVE  \E c \in Children :
           /\ status[c] = "none" /\ c \notin doomed /\ c # proc
           /\ \A s \in starters : s.child # c
           /\ status' = [status EXCEPT ![c] = "starting"]
           /\ starters' = starters \cup {[child |-> c, who |-> who, mine |-> mine]}
<1>1. PICK c \in Children : /\ status[c] = "none"
                            /\ status' = [status EXCEPT ![c] = "starting"]
                            /\ starters' = starters \cup {[child |-> c, who |-> who, mine |-> mine]}
  BY DEF Spawn
<1>2. c \notin doomed /\ \A s \in starters : s.child # c
  BY <1>1 DEF Basis, Kin
<1>3. c # proc
  <2>1. CASE hooked
    BY <1>1, <2>1 DEF Basis, Shape
  <2>2. CASE ~hooked
    BY <2>2, HandFinite DEF Basis, Shape
  <2>3. QED
    BY <2>1, <2>2
<1>4. QED
  BY <1>1, <1>2, <1>3

\* An exit, the end of a pause, or a stop that is over: at most one start is begun.
LEMMA SpawnBasis ==
  ASSUME Basis, NEW who \in {"supervisor", "restart"}, NEW mine \in Nat, Spawn(who, mine),
         hooked, running, mine <= generation,
         watch' \subseteq watch, backoff' \subseteq backoff, awaits' \subseteq awaits,
         who = "supervisor" =>
           /\ mine = generation /\ generation \notin backoff'
           /\ \A w \in watch' : w[2] # generation
           /\ \A s \in starters : ~(s.who = "supervisor" /\ s.mine = generation),
         UNCHANGED <<doomed, running, hooked, proc, generation, relaunch, asks, faults, crossed,
                     abandoned>>
  PROVE  Basis'
<1> USE LauncherAssumption
<1>1. PICK c \in Children : /\ status[c] = "none" /\ c \notin doomed /\ c # proc
                            /\ \A s \in starters : s.child # c
                            /\ status' = [status EXCEPT ![c] = "starting"]
                            /\ starters' = starters \cup {[child |-> c, who |-> who, mine |-> mine]}
  BY Fresh
<1> DEFINE n == [child |-> c, who |-> who, mine |-> mine]
<1>2. n \in Starter /\ n.child = c /\ n.who = who /\ n.mine = mine
  BY DEF Starter
<1>3. /\ status \in [Children -> {"none", "starting", "listening", "dead"}]
      /\ doomed \subseteq Children /\ starters \subseteq Starter
      /\ IsFiniteSet(awaits)
  BY DEF Basis, LauncherTypeOK, Shape
<1>4. /\ status' \in [Children -> {"none", "starting", "listening", "dead"}]
      /\ status'[c] = "starting"
      /\ \A d \in Children : d # c => status'[d] = status[d]
  BY <1>1, <1>3
<1>5. starters' \subseteq Starter
  BY <1>1, <1>2, <1>3
<1>6. LauncherTypeOK'
  BY <1>4, <1>5 DEF Basis, LauncherTypeOK
<1>7. IsFiniteSet(awaits')
  BY <1>3, FS_Subset
<1>8. Shape'
  <2>1. \A s \in starters' : s.mine <= generation /\ s.who # "first"
    BY <1>1, <1>2 DEF Basis, Shape
  <2>2. status'[proc] # "none"
    BY <1>1, <1>4 DEF Basis, Shape
  <2>3. QED
    BY <1>7, <2>1, <2>2 DEF Basis, Shape
<1>9. Kin'
  <2>1. \A d \in doomed : status'[d] # "none"
    BY <1>3, <1>4 DEF Basis, Kin
  <2>2. \A s \in starters' : status'[s.child] # "none" /\ s.child \notin doomed /\ s.child # proc
    BY <1>1, <1>2, <1>3, <1>4 DEF Basis, Kin, Starter
  <2>3. \A s, t \in starters' : s.child = t.child => s = t
    BY <1>1, <1>2 DEF Basis, Kin
  <2>4. QED
    BY <2>1, <2>2, <2>3 DEF Basis, Kin
<1>10. Heirs'
  <2>1. Watched' => Watched
    BY DEF Watched
  <2>2. CASE who = "restart"
    <3>1. ASSUME NEW s \in starters', s.who = "supervisor", s.mine = generation PROVE s \in starters
      BY <1>1, <1>2, <2>2, <3>1
    <3>2. QED
      BY <2>1, <3>1 DEF Basis, Heirs, Watched
  <2>3. CASE who = "supervisor"
    <3>1. ~Watched' /\ generation \notin backoff'
      BY <2>3 DEF Watched
    <3>2. \A s \in starters' : s.who = "supervisor" /\ s.mine = generation => s = n
      BY <1>1, <2>3
    <3>3. QED
      BY <3>1, <3>2 DEF Heirs
  <2>4. QED
    BY <2>2, <2>3
<1>11. QED
  BY <1>6, <1>8, <1>9, <1>10 DEF Basis

\* A supervisor of an earlier generation stands down.
LEMMA StandsDown ==
  ASSUME Basis, watch' \subseteq watch, backoff' \subseteq backoff,
         UNCHANGED <<status, doomed, running, hooked, proc, generation, starters, awaits, relaunch,
                     faults, asks, crossed, abandoned>>
  PROVE  Basis'
<1>1. LauncherTypeOK'
  BY DEF Basis, LauncherTypeOK
<1>2. Shape'
  BY DEF Basis, Shape
<1>3. Kin'
  BY DEF Basis, Kin
<1>4. Watched' => Watched
  BY DEF Watched
<1>5. Heirs'
  BY <1>4 DEF Basis, Heirs
<1>6. QED
  BY <1>1, <1>2, <1>3, <1>5 DEF Basis

\* The exit of the current child: its supervisor, and no other, starts another one.
LEMMA ExitedHeir ==
  ASSUME Basis, NEW w \in watch, Exited(w), w[2] = generation
  PROVE  /\ Spawn("supervisor", generation) /\ generation \in Nat /\ hooked /\ running
         /\ Mended /\ w[1] = proc /\ generation \notin backoff'
         /\ \A v \in watch' : v[2] # generation
         /\ \A s \in starters : ~(s.who = "supervisor" /\ s.mine = generation)
<1>1. watch \subseteq Children \X Nat /\ \A v \in watch : v[2] = generation => v[1] = proc
  BY DEF Basis, LauncherTypeOK
<1>2. hooked /\ running
  BY DEF Basis, Shape
<1>3. Watched /\ generation \notin backoff
  BY DEF Basis, Heirs, Watched
<1>4. Spawn("supervisor", generation) /\ generation \in Nat
  BY DEF Exited, Pass, Basis, LauncherTypeOK
<1>5. Mended /\ w[1] = proc
  BY <1>1, <1>3 DEF Exited, Mended
<1>6. \A v \in watch : v[2] = generation => v = w
  BY <1>1
<1>7. \A v \in watch' : v[2] # generation
  BY <1>6 DEF Exited
<1>8. \A s \in starters : ~(s.who = "supervisor" /\ s.mine = generation)
  BY <1>3 DEF Basis, Heirs
<1>9. QED
  BY <1>2, <1>3, <1>4, <1>5, <1>7, <1>8 DEF Exited

\* The end of a pause that no stop has overtaken.
LEMMA BackoffHeir ==
  ASSUME Basis, generation \in backoff, BackoffEnds(generation)
  PROVE  /\ Spawn("supervisor", generation) /\ generation \in Nat /\ hooked /\ running
         /\ generation \notin backoff'
         /\ \A v \in watch' : v[2] # generation
         /\ \A s \in starters : ~(s.who = "supervisor" /\ s.mine = generation)
<1>1. hooked /\ running /\ generation \in Nat
  BY DEF Basis, Shape, LauncherTypeOK
<1>2. ~Watched /\ \A s \in starters : ~(s.who = "supervisor" /\ s.mine = generation)
  BY DEF Basis, Heirs
<1>3. QED
  BY <1>1, <1>2 DEF BackoffEnds, Pass, Watched

LEMMA SupervisorsBasis ==
  ASSUME Basis, (\E w \in watch : Exited(w)) \/ \E mine \in backoff : BackoffEnds(mine)
  PROVE  Basis'
<1>1. ASSUME NEW w \in watch, Exited(w) PROVE Basis'
  <2>1. CASE w[2] = generation
    BY <1>1, <2>1, ExitedHeir, SpawnBasis DEF Exited
  <2>2. CASE w[2] # generation
    BY <1>1, <2>2, StandsDown DEF Exited, Pass
  <2>3. QED
    BY <2>1, <2>2
<1>2. ASSUME NEW mine \in backoff, BackoffEnds(mine) PROVE Basis'
  <2>1. CASE mine = generation
    BY <1>2, <2>1, BackoffHeir, SpawnBasis DEF BackoffEnds
  <2>2. CASE mine # generation
    BY <1>2, <2>2, StandsDown DEF BackoffEnds, Pass
  <2>3. QED
    BY <2>1, <2>2
<1>3. QED
  BY <1>1, <1>2

\* A start returns: its child is the current one, of a generation of its own.
LEMMA PolledBasis ==
  ASSUME Basis, NEW s \in starters, Polled(s)
  PROVE  /\ Basis' /\ s \in Starter /\ running
         /\ generation' \notin backoff' /\ generation' \in Nat
         /\ \A w \in watch' : w[2] = generation' => w[1] = s.child
<1> USE LauncherAssumption
<1>1. /\ s \in Starter /\ starters \subseteq Starter /\ watch \subseteq Children \X Nat
      /\ backoff \subseteq Nat /\ generation \in Nat
  BY DEF Basis, LauncherTypeOK
<1>2. s.child \in Children /\ running /\ status[s.child] # "none" /\ s.child \notin doomed
  BY <1>1 DEF Basis, Shape, Kin, Starter
<1>3. generation' \in Nat /\ generation <= generation'
  BY <1>1 DEF Polled
<1>4. \A w \in watch : w[2] # generation'
  <2>1. CASE s.who = "first"
    BY <2>1 DEF Basis, Shape
  <2>2. CASE s.who # "first"
    <3>1. \A w \in watch : w[2] <= generation /\ w[2] \in Nat
      BY <1>1 DEF Basis, Shape
    <3>2. generation' = generation + 1
      BY <2>2 DEF Polled
    <3>3. QED
      BY <1>1, <3>1, <3>2
  <2>3. QED
    BY <2>1, <2>2
<1>5. generation' \notin backoff
  <2>1. CASE s.who = "first"
    BY <2>1 DEF Basis, Shape
  <2>2. CASE s.who # "first"
    BY <1>1, <2>2 DEF Basis, Shape, Polled
  <2>3. QED
    BY <2>1, <2>2
<1>6. \A w \in watch' : w[2] = generation' => w[1] = s.child
  BY <1>4 DEF Polled
<1>7. watch' \subseteq Children \X Nat
  BY <1>1, <1>2, <1>3 DEF Polled
<1>8. LauncherTypeOK'
  <2>1. proc' \in 0..MaxChildren /\ proc' = s.child
    BY <1>2 DEF Polled, Children
  <2>2. starters' \subseteq Starter /\ abandoned' \in BOOLEAN /\ hooked' \in BOOLEAN
    BY <1>1 DEF Polled
  <2>3. QED
    BY <1>3, <1>6, <1>7, <2>1, <2>2 DEF Polled, Basis, LauncherTypeOK
<1>9. Shape'
  <2>1. \A w \in watch' : w[2] <= generation'
    <3>1. \A w \in watch : w[2] <= generation /\ w[2] \in Nat
      BY <1>1 DEF Basis, Shape
    <3>2. QED
      BY <1>1, <1>3, <3>1 DEF Polled
  <2>2. \A mine \in backoff' : mine <= generation'
    BY <1>1, <1>3 DEF Basis, Shape, Polled
  <2>3. \A t \in starters' : t.mine <= generation' /\ t.who # "first"
    <3>1. \A t \in starters : t.mine \in Nat /\ t.mine <= generation
      BY <1>1 DEF Basis, Shape, Starter
    <3>2. \A t \in starters' : t.who # "first"
      <4>1. CASE hooked
        BY <4>1 DEF Basis, Shape, Polled
      <4>2. CASE ~hooked
        BY <4>2 DEF Basis, Shape, Polled
      <4>3. QED
        BY <4>1, <4>2
    <3>3. QED
      BY <1>1, <1>3, <3>1, <3>2 DEF Polled
  <2>4. QED
    BY <1>2, <2>1, <2>2, <2>3 DEF Polled, Basis, Shape
<1>10. Kin'
  BY <1>1, <1>2 DEF Polled, Basis, Kin
<1>11. Heirs'
  <2>1. \A t \in starters' : t.who = "supervisor" => t.mine # generation'
    <3>1. \A t \in starters : t.mine \in Nat /\ t.mine <= generation
      BY <1>1 DEF Basis, Shape, Starter
    <3>2. CASE s.who = "first"
      <4>1. starters' = {}
        BY <3>2 DEF Polled, Basis, Shape
      <4>2. QED
        BY <4>1
    <3>3. CASE s.who # "first"
      BY <1>1, <3>1, <3>3 DEF Polled
    <3>4. QED
      BY <3>2, <3>3
  <2>2. generation' \notin backoff' /\ proc' \notin doomed'
    BY <1>2, <1>5 DEF Polled
  <2>3. QED
    BY <2>1, <2>2 DEF Heirs
<1>12. QED
  BY <1>1, <1>2, <1>3, <1>5, <1>6, <1>8, <1>9, <1>10, <1>11 DEF Basis, Polled

\* A start throws: only a supervisor of the current generation tries again.
LEMMA ThrowsBasis ==
  ASSUME Basis, NEW s \in starters, Throws(s)
  PROVE  Basis'
<1> USE LauncherAssumption
<1>1. /\ s \in Starter /\ starters \subseteq Starter /\ backoff \subseteq Nat
      /\ s.child \in Children /\ s.mine \in Nat
      /\ doomed \subseteq Children
  BY DEF Basis, LauncherTypeOK, Starter
<1>2. /\ doomed' \subseteq doomed \cup {s.child} /\ doomed \subseteq doomed'
      /\ faults' \in 0..MaxFaults
  BY DEF Throws, Basis, LauncherTypeOK
<1>3. /\ backoff' \subseteq backoff \cup {s.mine}
      /\ s.who # "supervisor" => backoff' = backoff
      /\ starters' = starters \ {s} /\ abandoned' \in BOOLEAN /\ running' \in BOOLEAN
  BY DEF Throws, Retried, Basis, LauncherTypeOK
<1>4. LauncherTypeOK'
  <2>1. backoff' \subseteq Nat /\ doomed' \subseteq Children /\ starters' \subseteq Starter
    BY <1>1, <1>2, <1>3
  <2>2. QED
    BY <1>2, <1>3, <2>1 DEF Throws, Basis, LauncherTypeOK
<1>5. Shape'
  <2>1. \A mine \in backoff' : mine <= generation
    BY <1>3 DEF Basis, Shape
  <2>2. CASE s.who = "first"
    <3>1. ~hooked /\ starters' = {} /\ backoff' = {} /\ watch = {} /\ awaits = {}
      BY <1>3, <2>2 DEF Basis, Shape
    <3>2. QED
      BY <2>1, <3>1 DEF Throws, Basis, Shape
  <2>3. CASE s.who # "first"
    <3>1. hooked /\ running
      BY <2>3 DEF Basis, Shape
    <3>2. QED
      BY <1>3, <2>1, <2>3, <3>1 DEF Throws, Basis, Shape
  <2>4. QED
    BY <2>2, <2>3
<1>6. Kin'
  <2>1. \A c \in doomed' : status[c] # "none"
    BY <1>2 DEF Basis, Kin
  <2>2. \A t \in starters' : t.child \notin doomed'
    BY <1>2, <1>3 DEF Basis, Kin
  <2>3. QED
    BY <1>3, <2>1, <2>2 DEF Throws, Basis, Kin
<1>7. Heirs'
  <2>1. Watched' = Watched /\ (Watched => proc \notin doomed')
    BY <1>2 DEF Watched, Throws, Basis, Kin, Heirs
  <2>2. CASE s.who = "supervisor" /\ s.mine = generation
    BY <1>3, <2>1, <2>2 DEF Throws, Basis, Heirs
  <2>3. CASE ~(s.who = "supervisor" /\ s.mine = generation)
    <3>1. generation \in backoff' <=> generation \in backoff
      BY <2>3 DEF Throws, Retried
    <3>2. QED
      BY <1>3, <2>1, <3>1 DEF Throws, Basis, Heirs
  <2>4. QED
    BY <2>2, <2>3
<1>8. QED
  BY <1>4, <1>5, <1>6, <1>7 DEF Basis

\* A stop: whoever stood for the current generation stands down.
LEMMA AskedBasis ==
  ASSUME Basis, NEW then \in {"restart", "update"}, Asked(then)
  PROVE  /\ Basis' /\ ~Watched' /\ generation' \notin backoff' /\ proc \in Children
         /\ [on |-> proc, then |-> then, nr |-> asks'] \notin awaits
<1> USE LauncherAssumption
<1> DEFINE n == [on |-> proc, then |-> then, nr |-> asks']
<1>1. /\ generation \in Nat /\ watch \subseteq Children \X Nat /\ backoff \subseteq Nat
      /\ asks \in Nat /\ asks' = asks + 1 /\ asks' \in 0..MaxAsks
      /\ starters \subseteq Starter /\ IsFiniteSet(awaits)
      /\ generation' = generation + 1 /\ doomed' = doomed \cup {proc}
      /\ awaits' = awaits \cup {n} /\ crossed \in Nat
  BY DEF Asked, Stop, Basis, LauncherTypeOK, Shape
<1>2. proc \in Children /\ status[proc] # "none" /\ running /\ hooked
  BY DEF Asked, Basis, Shape
<1>3. \A a \in awaits : a.nr \in Nat /\ a.nr <= asks
  BY DEF Basis, Kin, LauncherTypeOK
<1>4. n \notin awaits
  BY <1>1, <1>3
<1>5. \A w \in watch : w[2] <= generation /\ w[2] \in Nat
  BY <1>1 DEF Basis, Shape
<1>6. ~Watched' /\ generation' \notin backoff'
  BY <1>1, <1>5 DEF Asked, Watched, Basis, Shape
<1>7. LauncherTypeOK'
  <2>1. awaits' \subseteq [on : Children, then : {"restart", "update"}, nr : Nat]
    BY <1>1, <1>2 DEF Basis, LauncherTypeOK
  <2>2. crossed' \in Nat
    BY <1>1 DEF Asked, Crosses
  <2>3. \A w \in watch' : w[2] # generation'
    BY <1>6 DEF Watched
  <2>4. QED
    BY <1>1, <1>2, <2>1, <2>2, <2>3 DEF Asked, Basis, LauncherTypeOK
<1>8. Shape'
  <2>1. \A w \in watch' : w[2] <= generation'
    BY <1>1, <1>5 DEF Asked
  <2>2. \A mine \in backoff' : mine <= generation'
    BY <1>1 DEF Asked, Basis, Shape
  <2>3. \A s \in starters' : s.mine <= generation'
    BY <1>1 DEF Asked, Basis, Shape, Starter
  <2>4. IsFiniteSet(awaits')
    BY <1>1, FS_AddElement
  <2>5. QED
    BY <1>1, <1>2, <2>1, <2>2, <2>3, <2>4 DEF Asked, Basis, Shape
<1>9. Kin'
  <2>1. \A a \in awaits' : a.nr <= asks'
    BY <1>1, <1>3
  <2>2. QED
    BY <1>1, <1>2, <2>1 DEF Asked, Basis, Kin
<1>10. Heirs'
  <2>1. \A s \in starters' : s.mine # generation'
    BY <1>1 DEF Asked, Basis, Shape, Starter
  <2>2. QED
    BY <1>6, <2>1 DEF Heirs
<1>11. QED
  BY <1>2, <1>4, <1>6, <1>7, <1>8, <1>9, <1>10 DEF Basis

LEMMA RestartBasis ==
  ASSUME Basis, NEW a \in awaits, RestartSpawns(a)
  PROVE  Basis'
<1>1. hooked /\ running /\ 0 \in Nat /\ 0 <= generation
  BY DEF Basis, Shape, LauncherTypeOK
<1>2. QED
  BY <1>1, SpawnBasis DEF RestartSpawns

LEMMA EndBasis ==
  ASSUME Basis, End, running, UNCHANGED <<status, faults, asks>>,
         relaunch' \in {"no", "looking", "attached", "fresh"}
  PROVE  Basis'
<1>1. doomed' \subseteq Children /\ crossed' \in Nat
  BY DEF End, Basis, LauncherTypeOK, Shape
<1>2. LauncherTypeOK'
  BY <1>1 DEF End, Basis, LauncherTypeOK
<1>3. Shape'
  BY FS_EmptySet DEF End, Basis, Shape
<1>4. Kin'
  BY DEF End, Basis, Kin, Shape
<1>5. Heirs'
  BY DEF End, Heirs, Watched
<1>6. QED
  BY <1>2, <1>3, <1>4, <1>5 DEF Basis

LEMMA NewLooksBasis ==
  ASSUME Basis, NewLooks
  PROVE  Basis'
<1>1. LauncherTypeOK' /\ Shape'
  BY DEF NewLooks, Basis, LauncherTypeOK, Shape
<1>2. Kin' /\ Heirs'
  BY DEF NewLooks, Basis, Kin, Heirs, Watched
<1>3. QED
  BY <1>1, <1>2 DEF Basis

-----------------------------------------------------------------------------
(* Every backend in hand is the current one, or owed to a crossing.        *)

\* The sums of Count are sums of natural numbers, before a step and after it.
LEMMA Sums ==
  ASSUME Basis, Basis'
  PROVE  /\ Cardinality(Hand) \in Nat /\ Cardinality(awaits) \in Nat /\ crossed \in Nat
         /\ Due \in 0..2 /\ Hand \subseteq Children
         /\ Cardinality(Hand') \in Nat /\ Cardinality(awaits') \in Nat /\ crossed' \in Nat
         /\ Due' \in 0..2 /\ Hand' \subseteq Children
<1>1. Hand \subseteq Children /\ Hand' \subseteq Children
  BY DEF Hand
<1>2. IsFiniteSet(awaits) /\ IsFiniteSet(awaits') /\ crossed \in Nat /\ crossed' \in Nat
  BY DEF Basis, LauncherTypeOK, Shape
<1>3. Due \in 0..2 /\ Due' \in 0..2
  BY DEF Due
<1>4. QED
  BY <1>1, <1>2, <1>3, HandFinite, FS_CardinalityType

\* Nothing more in hand, awaited or due.
LEMMA NoMore ==
  ASSUME Basis, Basis', Count, Hand' \subseteq Hand, UNCHANGED <<starters, awaits, crossed, running>>,
         Due' <= Due
  PROVE  Count'
<1>1. Cardinality(Hand') <= Cardinality(Hand)
  BY Sums, Smaller
<1>2. QED
  BY <1>1, Sums DEF Count

LEMMA ChildrenCount ==
  ASSUME Basis, Count, NEW c \in Children, Binds(c) \/ Dies(c) \/ Reaped(c)
  PROVE  Count'
<1>1. UNCHANGED <<doomed, running, hooked, proc, generation, starters, watch, backoff,
                  awaits, relaunch, asks, crossed, abandoned>>
  BY DEF Binds, Dies, Reaped
<1>2. Basis'
  BY ChildrenBasis
<1>3. status \in [Children -> {"none", "starting", "listening", "dead"}]
  BY DEF Basis, LauncherTypeOK
<1>4. \A d \in Children : d # c => status'[d] = status[d]
  BY <1>3 DEF Binds, Dies, Reaped
<1>5. /\ c \in Owned' => c \in Owned
      /\ status[c] # "dead" /\ (c \in Owned' <=> c \in Owned) => c \in doomed \/ status'[c] # "dead"
  BY <1>1, <1>3 DEF Binds, Dies, Reaped, Owned, Live
<1>6. /\ \A d \in Children : d # c => (d \in Owned' <=> d \in Owned)
      /\ Hand' \subseteq Hand
  BY <1>1, <1>4, <1>5 DEF Hand, Owned, Live
<1>7. Due' <= Due
  <2>1. CASE proc = c
    <3>1. Mended' => Mended \/ (Watched /\ status'[c] = "dead" /\ status[c] # "dead")
      BY <1>1, <2>1 DEF Mended, Watched
    <3>2. Watched => c \notin doomed
      BY <2>1 DEF Basis, Heirs
    <3>3. CASE c \in Owned' <=> c \in Owned
      BY <1>1, <1>5, <2>1, <3>1, <3>2, <3>3 DEF Due
    <3>4. CASE c \notin Owned' /\ c \in Owned
      BY <1>1, <2>1, <3>4 DEF Due
    <3>5. QED
      BY <1>5, <3>3, <3>4
  <2>2. CASE proc # c
    <3>1. proc \in Owned' <=> proc \in Owned
      BY <1>1, <1>6, <2>2 DEF Owned
    <3>2. Mended' = Mended
      <4>1. Watched => proc \in Children
        BY DEF Basis, Shape, Watched
      <4>2. QED
        BY <1>1, <1>4, <2>2, <4>1 DEF Mended, Watched
    <3>3. QED
      BY <1>1, <3>1, <3>2 DEF Due
  <2>3. QED
    BY <2>1, <2>2
<1>8. QED
  BY <1>1, <1>2, <1>6, <1>7, NoMore

\* A start begun by an heir, or by a stop that is over, takes its place.
LEMMA SpawnCount ==
  ASSUME Basis, Basis', Count, NEW who \in {"supervisor", "restart"}, NEW mine \in Nat,
         Spawn(who, mine), running,
         UNCHANGED <<doomed, running, proc, crossed>>,
         \/ awaits' = awaits /\ Mended /\ ~Mended'
         \/ \E a \in awaits : awaits' = awaits \ {a} /\ (Mended' => Mended)
  PROVE  Count'
<1>1. PICK c \in Children : /\ status[c] = "none" /\ c \notin doomed /\ c # proc
                            /\ \A s \in starters : s.child # c
                            /\ status' = [status EXCEPT ![c] = "starting"]
                            /\ starters' = starters \cup {[child |-> c, who |-> who, mine |-> mine]}
  BY Fresh
<1>2. status \in [Children -> {"none", "starting", "listening", "dead"}]
  BY DEF Basis, LauncherTypeOK
<1>3. \A d \in Children : d # c => (d \in Owned' <=> d \in Owned)
  BY <1>1, <1>2 DEF Owned, Live
<1>4. Hand' \subseteq Hand \cup {c}
  BY <1>1, <1>3 DEF Hand
<1>5. Cardinality(Hand') <= Cardinality(Hand) + 1
  BY <1>4, Sums, OneMore
<1>6. (proc \in Owned') <=> (proc \in Owned)
  BY <1>1, <1>3 DEF Owned
<1>7. Cardinality(awaits') + Due' <= Cardinality(awaits) + Due - 1
  <2>1. CASE awaits' = awaits /\ Mended /\ ~Mended'
    BY <1>6, <2>1, Sums DEF Due
  <2>2. CASE \E a \in awaits : awaits' = awaits \ {a} /\ (Mended' => Mended)
    <3>1. Cardinality(awaits') = Cardinality(awaits) - 1
      BY <2>2, FS_RemoveElement DEF Basis, Shape
    <3>2. Due' <= Due
      BY <1>6, <2>2 DEF Due
    <3>3. QED
      BY <3>1, <3>2, Sums
  <2>3. QED
    BY <2>1, <2>2
<1>8. starters' # {}
  BY <1>1
<1>9. QED
  BY <1>5, <1>7, <1>8, Sums DEF Count

LEMMA SupervisorsCount ==
  ASSUME Basis, Count, (\E w \in watch : Exited(w)) \/ \E mine \in backoff : BackoffEnds(mine)
  PROVE  Count'
<1>0. Basis'
  BY SupervisorsBasis
<1>1. ASSUME watch' \subseteq watch, backoff' \subseteq backoff,
             UNCHANGED <<status, doomed, running, proc, generation, starters, awaits, crossed>>
      PROVE  Count'
  <2>1. (Mended' => Mended) /\ Owned' = Owned
    BY <1>1 DEF Mended, Watched, Owned, Live
  <2>2. Due' <= Due /\ Hand' = Hand
    BY <1>1, <2>1 DEF Due, Hand
  <2>3. QED
    BY <1>0, <1>1, <2>2, NoMore
<1>2. ASSUME NEW w \in watch, Exited(w) PROVE Count'
  <2>1. CASE w[2] = generation
    <3>1. /\ Spawn("supervisor", generation) /\ generation \in Nat /\ running /\ Mended
          /\ ~Mended'
      BY <1>2, <2>1, ExitedHeir DEF Mended, Watched, Exited
    <3>2. UNCHANGED <<doomed, running, proc, crossed, awaits>>
      BY <1>2 DEF Exited
    <3>3. QED
      BY <1>0, <3>1, <3>2, SpawnCount
  <2>2. CASE w[2] # generation
    BY <1>1, <1>2, <2>2 DEF Exited, Pass
  <2>3. QED
    BY <2>1, <2>2
<1>3. ASSUME NEW mine \in backoff, BackoffEnds(mine) PROVE Count'
  <2>1. CASE mine = generation
    <3>1. /\ Spawn("supervisor", generation) /\ generation \in Nat /\ running /\ Mended
          /\ ~Mended'
      BY <1>3, <2>1, BackoffHeir DEF Mended, Watched, BackoffEnds
    <3>2. UNCHANGED <<doomed, running, proc, crossed, awaits>>
      BY <1>3 DEF BackoffEnds
    <3>3. QED
      BY <1>0, <3>1, <3>2, SpawnCount
  <2>2. CASE mine # generation
    BY <1>1, <1>3, <2>2 DEF BackoffEnds, Pass
  <2>3. QED
    BY <2>1, <2>2
<1>4. QED
  BY <1>2, <1>3

\* A start that returns passes its place to the current child, which may leave one over.
LEMMA PolledCount ==
  ASSUME Basis, Count, NEW s \in starters, Polled(s)
  PROVE  Count'
<1>1. /\ Basis' /\ s \in Starter /\ running /\ generation' \notin backoff'
      /\ \A w \in watch' : w[2] = generation' => w[1] = s.child
  BY PolledBasis
<1>2. /\ starters' = starters \ {s} /\ proc' = s.child
      /\ UNCHANGED <<status, doomed, running, awaits, crossed>>
  BY DEF Polled
<1>3. s.child \in Hand /\ proc # s.child
  BY <1>1 DEF Hand, Starter, Basis, Kin
<1>4. Owned' = Owned
  BY <1>2 DEF Owned, Live
<1>5. ~Mended'
  BY <1>1, <1>2 DEF Mended, Watched, Polled
<1>6. Due' <= 1
  BY <1>5 DEF Due
<1>7. Cardinality(Hand') <= Cardinality(Hand) - 1 + Due
  <2>1. CASE proc \in Owned
    <3>1. Hand' \subseteq (Hand \ {s.child}) \cup {proc}
      BY <1>1, <1>2, <1>3, <1>4 DEF Hand, Basis, Kin
    <3>2. Hand \ {s.child} \in SUBSET Children /\ proc \in Children
      BY <2>1 DEF Hand, Owned
    <3>3. Cardinality(Hand \ {s.child}) <= Cardinality(Hand) - 1
      BY <1>1, <1>3, Sums, OneLess
    <3>4. Cardinality(Hand') <= Cardinality(Hand \ {s.child}) + 1
      BY <3>1, <3>2, OneMore
    <3>5. Due >= 1
      BY <2>1 DEF Due
    <3>6. Cardinality(Hand \ {s.child}) \in Nat
      BY <3>2, HandFinite
    <3>7. QED
      BY <1>1, <3>3, <3>4, <3>5, <3>6, Sums
  <2>2. CASE proc \notin Owned
    <3>1. Hand' \subseteq Hand \ {s.child}
      BY <1>1, <1>2, <1>3, <1>4, <2>2 DEF Hand, Basis, Kin
    <3>2. Cardinality(Hand') <= Cardinality(Hand) - 1
      BY <1>1, <1>3, <3>1, Sums, OneLess
    <3>3. QED
      BY <1>1, <3>2, Sums
  <2>3. QED
    BY <2>1, <2>2
<1>8. QED
  BY <1>1, <1>2, <1>6, <1>7, Sums DEF Count

\* A start that throws gives its place up, or to its supervisor's pause.
LEMMA ThrowsCount ==
  ASSUME Basis, Count, NEW s \in starters, Throws(s)
  PROVE  Count'
<1>1. Basis' /\ s \in Starter
  BY ThrowsBasis DEF Basis, LauncherTypeOK
<1>2. /\ starters' = starters \ {s} /\ doomed \subseteq doomed' /\ doomed' \subseteq doomed \cup {s.child}
      /\ UNCHANGED <<status, proc, generation, watch, awaits, crossed>>
  BY DEF Throws
<1>3. s.child \in Hand /\ proc # s.child
  BY <1>1 DEF Hand, Starter, Basis, Kin
<1>4. s.child \notin Owned' /\ Owned' \subseteq Owned /\ (proc \in Owned' <=> proc \in Owned)
  BY <1>2, <1>3 DEF Throws, Owned, Live
<1>5. Hand' \subseteq Hand \ {s.child}
  BY <1>2, <1>3, <1>4 DEF Hand, Basis, Kin
<1>6. Cardinality(Hand') <= Cardinality(Hand) - 1
  BY <1>1, <1>3, <1>5, Sums, OneLess
<1>7. Due' <= Due + 1
  BY <1>2, <1>4 DEF Due
<1>8. running
  BY DEF Basis, Shape
<1>9. QED
  BY <1>1, <1>2, <1>6, <1>7, <1>8, Sums DEF Count

\* A stop takes the place of the current child, or of its heir; a crossing has none to take.
LEMMA AskedCount ==
  ASSUME Basis, Count, NEW then \in {"restart", "update"}, Asked(then)
  PROVE  Count'
<1> DEFINE n == [on |-> proc, then |-> then, nr |-> asks']
<1>1. Basis' /\ ~Watched' /\ generation' \notin backoff' /\ proc \in Children /\ n \notin awaits
  BY AskedBasis
<1>2. /\ awaits' = awaits \cup {n} /\ doomed' = doomed \cup {proc} /\ running
      /\ crossed' = crossed + IF starters # {} \/ awaits # {} THEN 1 ELSE 0
      /\ UNCHANGED <<status, running, proc, starters>>
  BY DEF Asked, Stop, Crosses
<1>3. Cardinality(awaits') = Cardinality(awaits) + 1
  BY <1>1, <1>2, FS_AddElement DEF Basis, Shape
<1>4. Due' = 0
  BY <1>1, <1>2 DEF Due, Mended, Owned
<1>5. Hand' = Hand
  BY <1>2 DEF Hand, Owned, Live
<1>6. awaits = {} => Cardinality(awaits) = 0
  BY FS_EmptySet
<1>7. QED
  BY <1>1, <1>2, <1>3, <1>4, <1>5, <1>6, Sums DEF Count

LEMMA RestartCount ==
  ASSUME Basis, Count, NEW a \in awaits, RestartSpawns(a)
  PROVE  Count'
<1>1. Basis' /\ running /\ 0 \in Nat /\ Spawn("restart", 0)
  BY RestartBasis DEF Basis, Shape, RestartSpawns
<1>2. Mended' => Mended
  <2>1. status[proc] = "dead" \/ status'[proc] # "dead"
    <3>1. PICK c \in Children : c # proc /\ status' = [status EXCEPT ![c] = "starting"]
      BY <1>1, Fresh
    <3>2. QED
      BY <3>1 DEF Basis, LauncherTypeOK
  <2>2. QED
    BY <2>1 DEF RestartSpawns, Mended, Watched
<1>3. UNCHANGED <<doomed, running, proc, crossed>> /\ awaits' = awaits \ {a}
  BY DEF RestartSpawns
<1>4. QED
  BY <1>1, <1>2, <1>3, SpawnCount

\* The end takes the current child with it; a start in hand is left, and counted.
LEMMA EndCount ==
  ASSUME Basis, Basis', Count, End, running, UNCHANGED status
  PROVE  Count'
<1>1. /\ starters' = {} /\ ~running' /\ UNCHANGED proc
      /\ crossed' = crossed + IF starters # {} THEN 1 ELSE 0
      /\ doomed \subseteq doomed'
  BY DEF End
<1>2. Hand' \subseteq Hand
  BY <1>1 DEF Hand, Owned, Live
<1>3. Cardinality(Hand') <= Cardinality(Hand)
  BY <1>2, Sums, Smaller
<1>4. QED
  BY <1>1, <1>3, Sums DEF Count

LEMMA NewLooksCount ==
  ASSUME Basis, Count, NewLooks
  PROVE  Count'
<1>1. Basis' /\ UNCHANGED <<status, doomed, running, proc, generation, starters, watch, backoff,
                            awaits, crossed>>
  BY NewLooksBasis DEF NewLooks
<1>2. Hand' = Hand /\ Due' = Due
  BY <1>1 DEF Hand, Owned, Live, Due, Mended, Watched
<1>3. QED
  BY <1>1, <1>2, NoMore, Sums

-----------------------------------------------------------------------------
(* What listens while no stop has crossed a start or another stop.         *)

\* Without a crossing, a stop that is awaited is alone: no start, nothing due.
LEMMA Alone ==
  ASSUME Basis, Count, crossed = 0, running, awaits # {}
  PROVE  starters = {} /\ ~Mended /\ Owned = {} /\ \A a, b \in awaits : a = b
<1>1. /\ IsFiniteSet(awaits) /\ Cardinality(awaits) \in Nat /\ Cardinality(awaits) # 0
      /\ Cardinality(Hand) \in Nat /\ Due \in 0..2 /\ IsFiniteSet(Hand)
  <2>1. IsFiniteSet(awaits)
    BY DEF Basis, Shape
  <2>2. Hand \in SUBSET Children
    BY DEF Hand
  <2>3. QED
    BY <2>1, <2>2, HandFinite, FS_CardinalityType, FS_EmptySet DEF Due
<1>2. Cardinality(Hand) = 0 /\ Due = 0 /\ Cardinality(awaits) = 1
  BY <1>1 DEF Count
<1>3. Hand = {} /\ ~Mended /\ proc \notin Owned
  BY <1>1, <1>2, FS_EmptySet DEF Due
<1>4. starters = {}
  BY <1>3 DEF Hand, Basis, LauncherTypeOK, Starter
<1>5. Owned = {}
  BY <1>3 DEF Hand, Owned
<1>6. \A a, b \in awaits : a = b
  <2>1. \E x : awaits = {x}
    BY <1>1, <1>2, FS_Singleton
  <2>2. QED
    BY <2>1
<1>7. QED
  BY <1>3, <1>4, <1>5, <1>6

\* A launcher that has ended without one leaves nothing that is not being killed.
LEMMA EndedOwnsNothing ==
  ASSUME Basis, Count, crossed = 0, ~running
  PROVE  Owned = {}
<1>1. starters = {} /\ Hand \in SUBSET Children
  BY DEF Basis, Shape, Hand
<1>2. Cardinality(Hand) = 0
  BY <1>1, HandFinite DEF Count
<1>3. Hand = {}
  BY <1>1, <1>2, HandFinite, FS_EmptySet
<1>4. proc \notin Owned
  BY HandFinite DEF Basis, Shape, Owned
<1>5. QED
  BY <1>3, <1>4 DEF Hand, Owned

LEMMA ChildrenClean ==
  ASSUME Basis, Count, crossed = 0, Clean, NEW c \in Children, Binds(c) \/ Dies(c) \/ Reaped(c)
  PROVE  Clean'
<1>1. UNCHANGED <<doomed, running, proc, generation, starters, backoff, awaits, relaunch>>
  BY DEF Binds, Dies, Reaped
<1>2. status \in [Children -> {"none", "starting", "listening", "dead"}] /\ doomed \subseteq Children
  BY DEF Basis, LauncherTypeOK
<1>3. \A d \in Children : status'[d] = "listening" => status[d] = "listening" \/ d \in Owned
  BY <1>2 DEF Binds, Dies, Reaped, Owned, Live
<1>4. \A d \in doomed : status'[d] = "listening" => status[d] = "listening"
  BY <1>2, <1>3 DEF Owned
<1>5. Quiet => Quiet'
  BY <1>1, <1>4 DEF Quiet
<1>6. relaunch # "no" => ~PortOpen'
  <2>1. relaunch # "no" => Owned = {} /\ ~PortOpen
    BY EndedOwnsNothing DEF Basis, Shape, Clean
  <2>2. QED
    BY <1>3, <2>1 DEF PortOpen
<1>7. QED
  BY <1>1, <1>4, <1>5, <1>6 DEF Clean

\* A start is begun over a current child that does not listen.
LEMMA SpawnClean ==
  ASSUME Basis, Clean, running, NEW who \in {"supervisor", "restart"}, NEW mine \in Nat,
         Spawn(who, mine), Quiet, awaits' \subseteq awaits,
         UNCHANGED <<doomed, running, proc, relaunch>>
  PROVE  Clean'
<1>1. PICK c \in Children : c \notin doomed /\ status' = [status EXCEPT ![c] = "starting"]
  BY Fresh
<1>2. doomed \subseteq Children /\ status \in [Children -> {"none", "starting", "listening", "dead"}]
  BY DEF Basis, LauncherTypeOK
<1>3. \A d \in doomed : status'[d] = status[d]
  BY <1>1, <1>2
<1>4. Quiet'
  BY <1>3 DEF Quiet
<1>5. relaunch = "no"
  BY DEF Basis, Shape
<1>6. QED
  BY <1>4, <1>5 DEF Clean, Quiet

LEMMA SupervisorsClean ==
  ASSUME Basis, Clean, (\E w \in watch : Exited(w)) \/ \E mine \in backoff : BackoffEnds(mine)
  PROVE  Clean'
<1>1. ASSUME backoff' \subseteq backoff,
             UNCHANGED <<status, doomed, proc, generation, starters, awaits, relaunch>>
      PROVE  Clean'
  BY <1>1 DEF Clean, Quiet, PortOpen
<1>2. ASSUME NEW w \in watch, Exited(w) PROVE Clean'
  <2>1. CASE w[2] = generation
    <3>1. /\ Spawn("supervisor", generation) /\ generation \in Nat /\ running /\ w[1] = proc
      BY <1>2, <2>1, ExitedHeir
    <3>2. Quiet
      BY <1>2, <3>1 DEF Exited, Clean, Quiet
    <3>3. UNCHANGED <<doomed, running, proc, awaits, relaunch>>
      BY <1>2 DEF Exited
    <3>4. QED
      BY <3>1, <3>2, <3>3, SpawnClean
  <2>2. CASE w[2] # generation
    BY <1>1, <1>2, <2>2 DEF Exited, Pass
  <2>3. QED
    BY <2>1, <2>2
<1>3. ASSUME NEW mine \in backoff, BackoffEnds(mine) PROVE Clean'
  <2>1. CASE mine = generation
    <3>1. Spawn("supervisor", generation) /\ generation \in Nat /\ running
      BY <1>3, <2>1, BackoffHeir
    <3>2. Quiet
      BY <1>3, <2>1 DEF Clean
    <3>3. UNCHANGED <<doomed, running, proc, awaits, relaunch>>
      BY <1>3 DEF BackoffEnds
    <3>4. QED
      BY <3>1, <3>2, <3>3, SpawnClean
  <2>2. CASE mine # generation
    BY <1>1, <1>3, <2>2 DEF BackoffEnds, Pass
  <2>3. QED
    BY <2>1, <2>2
<1>4. QED
  BY <1>2, <1>3

LEMMA StartersClean ==
  ASSUME Basis, Count, crossed = 0, Clean, NEW s \in starters, Polled(s) \/ Throws(s)
  PROVE  Clean'
<1>1. running /\ awaits = {} /\ Quiet /\ relaunch = "no"
  BY Alone DEF Basis, Shape, Clean
<1>2. UNCHANGED <<status, awaits, relaunch>>
  BY DEF Polled, Throws
<1>3. Quiet'
  BY <1>1, <1>2 DEF Polled, Throws, Quiet
<1>4. QED
  BY <1>1, <1>2, <1>3 DEF Clean, Quiet

LEMMA AskedClean ==
  ASSUME Basis, crossed' = 0, Clean, NEW then \in {"restart", "update"}, Asked(then)
  PROVE  Clean'
<1>1. starters = {} /\ awaits = {} /\ crossed \in Nat
  BY DEF Asked, Crosses, Basis, LauncherTypeOK
<1>2. awaits' = {[on |-> proc, then |-> then, nr |-> asks']} /\ starters' = {}
  BY <1>1 DEF Asked
<1>3. generation' \notin backoff'
  BY AskedBasis
<1>4. relaunch' = "no"
  BY DEF Asked, Basis, Shape
<1>5. \A c \in doomed' : status'[c] = "listening" => c = proc'
  BY DEF Asked, Stop, Clean
<1>6. UNCHANGED proc
  BY DEF Asked
<1>7. QED
  BY <1>2, <1>3, <1>4, <1>5, <1>6 DEF Clean

LEMMA AwaitsClean ==
  ASSUME Basis, Count, crossed = 0, Clean, NEW a \in awaits, RestartSpawns(a) \/ UpdateExits(a)
  PROVE  Clean'
<1>1. running /\ a.on = proc /\ starters = {} /\ Owned = {} /\ proc \in Children /\ hooked
  BY Alone DEF Basis, Shape, Clean
<1>2. status[proc] = "dead"
  BY <1>1 DEF RestartSpawns, UpdateExits, ReallyGone
<1>3. Quiet
  BY <1>2 DEF Clean, Quiet
<1>4. CASE RestartSpawns(a)
  BY <1>1, <1>3, <1>4, SpawnClean DEF RestartSpawns
<1>5. CASE UpdateExits(a)
  <2>1. \A c \in Children : status[c] # "listening"
    BY <1>1, <1>3 DEF Owned, Live, Quiet
  <2>2. UNCHANGED status /\ relaunch' = "looking" /\ starters' = {} /\ awaits' = {} /\ backoff' = {}
    BY <1>5 DEF UpdateExits, End
  <2>3. doomed' \subseteq Children
    BY <1>1, <1>5 DEF UpdateExits, End, Basis, LauncherTypeOK
  <2>4. QED
    BY <2>1, <2>2, <2>3 DEF Clean, PortOpen, Quiet
<1>6. QED
  BY <1>4, <1>5

LEMMA EndingClean ==
  ASSUME Basis, Clean, NewLooks \/ Signalled
  PROVE  Clean'
<1>1. CASE NewLooks
  BY <1>1 DEF NewLooks, Clean, Quiet, PortOpen
<1>2. CASE Signalled
  <2>1. relaunch' = "no" /\ starters' = {} /\ awaits' = {} /\ backoff' = {} /\ UNCHANGED <<status, proc>>
    BY <1>2 DEF Signalled, End, Basis, Shape
  <2>2. \A c \in doomed' : status[c] = "listening" => c = proc
    BY <1>2 DEF Signalled, End, Clean
  <2>3. QED
    BY <2>1, <2>2 DEF Clean
<1>3. QED
  BY <1>1, <1>2

-----------------------------------------------------------------------------
(* The theorems.                                                           *)

LEMMA LauncherStarts == LauncherInit => LauncherInv
<1> SUFFICES ASSUME LauncherInit PROVE LauncherInv
  OBVIOUS
<1> USE LauncherAssumption DEF LauncherInit
<1> DEFINE s == [child |-> 1, who |-> "first", mine |-> 0]
<1>1. 1 \in Children /\ s \in Starter /\ starters = {s}
  BY DEF Children, Starter
<1>2. LauncherTypeOK
  <2>1. status \in [Children -> {"none", "starting", "listening", "dead"}]
    OBVIOUS
  <2>2. starters \subseteq Starter /\ doomed \subseteq Children /\ watch \subseteq Children \X Nat
        /\ backoff \subseteq Nat /\ awaits \subseteq [on : Children, then : {"restart", "update"}, nr : Nat]
    BY <1>1
  <2>3. proc \in 0..MaxChildren /\ faults \in 0..MaxFaults /\ asks \in 0..MaxAsks
    OBVIOUS
  <2>4. QED
    BY <2>1, <2>2, <2>3 DEF LauncherTypeOK
<1>3. Shape
  BY <1>1, FS_EmptySet DEF Shape
<1>4. Kin /\ Heirs
  BY <1>1 DEF Kin, Heirs, Watched
<1>5. Count
  <2>1. Hand = {1} /\ proc \notin Children
    BY <1>1, HandFinite DEF Hand, Owned, Live
  <2>2. Due = 0
    BY <2>1 DEF Due, Mended, Watched, Owned
  <2>3. Cardinality(Hand) = 1 /\ Cardinality(awaits) = 0
    BY <2>1, FS_Singleton, FS_EmptySet
  <2>4. QED
    BY <1>1, <2>2, <2>3 DEF Count
<1>6. Clean
  BY DEF Clean, Quiet
<1>7. QED
  BY <1>2, <1>3, <1>4, <1>5, <1>6 DEF LauncherInv, Basis

LEMMA BasisStep ==
  ASSUME Basis, LauncherNext
  PROVE  Basis'
<1>1. ASSUME NEW a \in awaits, UpdateExits(a) PROVE Basis'
  BY <1>1, EndBasis DEF UpdateExits, Basis, Shape
<1>2. ASSUME Signalled PROVE Basis'
  BY <1>2, EndBasis DEF Signalled, Basis, LauncherTypeOK
<1>3. QED
  BY <1>1, <1>2, ChildrenBasis, SupervisorsBasis, PolledBasis, ThrowsBasis, AskedBasis,
     RestartBasis, NewLooksBasis DEF LauncherNext

LEMMA CountStep ==
  ASSUME Basis, Count, LauncherNext
  PROVE  Count'
<1>1. ASSUME NEW a \in awaits, UpdateExits(a) PROVE Count'
  <2>1. running /\ End /\ UNCHANGED status
    BY <1>1 DEF UpdateExits, Basis, Shape
  <2>2. QED
    BY <2>1, BasisStep, EndCount
<1>2. ASSUME Signalled PROVE Count'
  BY <1>2, BasisStep, EndCount DEF Signalled
<1>3. QED
  BY <1>1, <1>2, ChildrenCount, SupervisorsCount, PolledCount, ThrowsCount, AskedCount,
     RestartCount, NewLooksCount DEF LauncherNext

\* The count of crossings never goes down.
LEMMA CrossedGrows ==
  ASSUME Basis, LauncherNext, crossed' = 0
  PROVE  crossed = 0
<1>1. crossed \in Nat
  BY DEF Basis, LauncherTypeOK
<1>2. crossed' = crossed \/ crossed' = crossed + 1
  BY <1>1 DEF LauncherNext, Binds, Dies, Reaped, Polled, Throws, Exited, BackoffEnds, Asked, Crosses,
     RestartSpawns, UpdateExits, NewLooks, Signalled, End
<1>3. QED
  BY <1>1, <1>2

LEMMA CleanStep ==
  ASSUME LauncherInv, LauncherNext, crossed' = 0
  PROVE  Clean'
<1>1. Basis /\ Count /\ crossed = 0 /\ Clean
  BY CrossedGrows DEF LauncherInv
<1>2. QED
  BY <1>1, ChildrenClean, SupervisorsClean, StartersClean, AskedClean, AwaitsClean, EndingClean
     DEF LauncherNext

LEMMA LauncherStep == LauncherInv /\ [LauncherNext]_lvars => LauncherInv'
<1> SUFFICES ASSUME LauncherInv, [LauncherNext]_lvars PROVE LauncherInv'
  OBVIOUS
<1>1. CASE UNCHANGED lvars
  <2>1. Basis'
    BY <1>1 DEF lvars, LauncherInv, Basis, LauncherTypeOK, Shape, Kin, Heirs, Watched
  <2>2. Hand' = Hand /\ Due' = Due
    BY <1>1 DEF lvars, Hand, Owned, Live, Due, Mended, Watched
  <2>3. Count' /\ (crossed' = 0 => Clean')
    BY <1>1, <2>2 DEF lvars, LauncherInv, Count, Clean, Quiet, PortOpen
  <2>4. QED
    BY <2>1, <2>3 DEF LauncherInv
<1>2. CASE LauncherNext
  BY <1>2, BasisStep, CountStep, CleanStep DEF LauncherInv
<1>3. QED
  BY <1>1, <1>2

\* The inductive invariant.
THEOREM LauncherSafety == LauncherSpec => []LauncherInv
<1>1. LauncherInv /\ [LauncherNext]_lvars => LauncherInv'
  BY LauncherStep
<1>2. QED
  BY <1>1, LauncherStarts, PTL DEF LauncherSpec

\* Every reachable state is well typed, and whoever watches for the current generation
\* watches the current child.
THEOREM LauncherTypes == LauncherSpec => []LauncherTypeOK
<1>1. LauncherInv => LauncherTypeOK
  BY DEF LauncherInv, Basis
<1>2. QED
  BY <1>1, LauncherSafety, PTL

\* However often the child dies, is restarted or updated, whichever starts fail and whenever
\* a request comes: there is one backend that nobody is stopping, and at most one more for
\* each stop that crossed a start or another stop.
THEOREM NeverTwoBackends == LauncherSpec => []OneBackend
<1>1. ASSUME LauncherInv PROVE OneBackend
  <2>1. /\ Owned \subseteq Children /\ Hand \subseteq Children
        /\ Cardinality(Owned) \in Nat /\ Cardinality(Hand) \in Nat /\ crossed \in Nat
        /\ Cardinality(awaits) \in Nat
    BY <1>1, HandFinite, FS_CardinalityType DEF Owned, Hand, LauncherInv, Basis, LauncherTypeOK, Shape
  <2>2. CASE proc \in Owned
    <3>1. Owned \subseteq Hand \cup {proc} /\ proc \in Children
      BY <2>2 DEF Hand, Owned
    <3>2. Cardinality(Owned) <= Cardinality(Hand) + 1
      BY <2>1, <3>1, OneMore
    <3>3. running
      BY <1>1, <2>2, HandFinite DEF LauncherInv, Basis, Shape, Owned
    <3>4. Due >= 1 /\ Due \in 0..2
      BY <2>2 DEF Due
    <3>5. QED
      BY <1>1, <2>1, <3>2, <3>3, <3>4 DEF LauncherInv, Count, OneBackend
  <2>3. CASE proc \notin Owned
    <3>1. Owned \subseteq Hand /\ Due \in 0..2
      BY <2>3 DEF Hand, Owned, Due
    <3>2. Cardinality(Owned) <= Cardinality(Hand)
      BY <2>1, <3>1, Smaller
    <3>3. running \/ starters = {}
      BY <1>1 DEF LauncherInv, Basis, Shape
    <3>4. QED
      BY <1>1, <2>1, <3>1, <3>2, <3>3 DEF LauncherInv, Count, OneBackend
  <2>4. QED
    BY <2>2, <2>3
<1>2. QED
  BY <1>1, LauncherSafety, PTL

\* A launcher that ends, at any moment, has stopped what it started: it leaves at most one
\* backend for each stop, this last one included, that crossed a start or another stop.
THEOREM NothingLeftBehind == LauncherSpec => []NoOrphan
<1>1. ASSUME LauncherInv, ~running PROVE Cardinality(Owned) <= crossed
  <2>1. starters = {} /\ proc \notin Owned
    BY <1>1, HandFinite DEF LauncherInv, Basis, Shape, Owned
  <2>2. Owned = Hand
    BY <2>1 DEF Owned, Hand
  <2>3. QED
    BY <1>1, <2>1, <2>2 DEF LauncherInv, Count
<1>2. QED
  BY <1>1, LauncherSafety, PTL DEF NoOrphan

\* The port is free when the new build looks at it, and it starts a backend of its own,
\* unless a stop crossed a start or another stop.
THEOREM RelaunchIsClean == LauncherSpec => []CleanRelaunch
<1>1. LauncherInv => CleanRelaunch
  BY DEF LauncherInv, Clean, CleanRelaunch, Basis, LauncherTypeOK
<1>2. QED
  BY <1>1, LauncherSafety, PTL

-----------------------------------------------------------------------------
(* Why a backend that dies comes back.                                     *)

\* A launcher that runs has somebody at work on its backend: a start in hand, a stop that
\* is awaited, a supervisor that watches the current child or one in its pause.
Attended ==
  running => \/ starters # {} \/ awaits # {} \/ Watched \/ generation \in backoff
             \/ abandoned

\* The same without the starts nobody will repeat: a supervisor's, overtaken by a stop.
Repeated(s) == s.who # "supervisor" \/ s.mine = generation

AttendedInv ==
  running => \/ \E s \in starters : Repeated(s)
             \/ awaits # {} \/ Watched \/ generation \in backoff \/ abandoned

LEMMA AttendedStep ==
  ASSUME LauncherInv, AttendedInv, [LauncherNext]_lvars
  PROVE  AttendedInv'
<1>0. Basis /\ generation \in Nat
  BY DEF LauncherInv, Basis, LauncherTypeOK
<1>1. CASE UNCHANGED lvars
  BY <1>1 DEF lvars, AttendedInv, Repeated, Watched
<1>2. ASSUME NEW c \in Children, Binds(c) \/ Dies(c) \/ Reaped(c) PROVE AttendedInv'
  <2>1. UNCHANGED <<running, generation, starters, watch, backoff, awaits, abandoned>>
    BY <1>2 DEF Binds, Dies, Reaped
  <2>2. QED
    BY <2>1 DEF AttendedInv, Repeated, Watched
<1>3. ASSUME NEW s \in starters, Polled(s) PROVE AttendedInv'
  <2>1. <<s.child, generation'>> \in watch'
    BY <1>3 DEF Polled
  <2>2. QED
    BY <2>1 DEF AttendedInv, Watched
<1>4. ASSUME NEW s \in starters, Throws(s) PROVE AttendedInv'
  <2>1. starters' = starters \ {s} /\ UNCHANGED <<generation, watch, awaits>>
    BY <1>4 DEF Throws
  <2>2. CASE Repeated(s)
    <3>1. s.who \in {"first", "supervisor", "restart"}
      BY <1>0 DEF Basis, LauncherTypeOK, Starter
    <3>2. ~running' \/ abandoned' \/ generation' \in backoff'
      BY <1>4, <2>1, <2>2, <3>1 DEF Throws, Retried, Repeated
    <3>3. QED
      BY <3>2 DEF AttendedInv
  <2>3. CASE ~Repeated(s)
    <3>1. backoff \subseteq backoff' /\ (abandoned => abandoned') /\ running
      BY <1>0, <1>4, <2>3 DEF Throws, Retried, Repeated, Basis, Shape
    <3>2. \A t \in starters : Repeated(t) => t \in starters' /\ Repeated(t)'
      BY <2>1, <2>3 DEF Repeated
    <3>3. QED
      BY <2>1, <3>1, <3>2 DEF AttendedInv, Watched
  <2>4. QED
    BY <2>2, <2>3
<1>5. ASSUME NEW who \in {"supervisor", "restart"}, NEW mine \in Nat, Spawn(who, mine),
             who = "supervisor" => mine = generation, UNCHANGED generation
      PROVE  AttendedInv'
  <2>1. PICK c \in Children : starters' = starters \cup {[child |-> c, who |-> who, mine |-> mine]}
    BY <1>5 DEF Spawn
  <2>2. [child |-> c, who |-> who, mine |-> mine] \in starters'
    BY <2>1
  <2>3. Repeated([child |-> c, who |-> who, mine |-> mine])'
    BY <1>5 DEF Repeated
  <2>4. QED
    BY <2>2, <2>3 DEF AttendedInv
<1>6. ASSUME NEW w \in watch, Exited(w) PROVE AttendedInv'
  <2>1. CASE w[2] = generation
    BY <1>0, <1>5, <1>6, <2>1 DEF Exited, Pass
  <2>2. CASE w[2] # generation
    <3>1. Watched' = Watched
      BY <1>6, <2>2 DEF Exited, Watched
    <3>2. QED
      BY <1>6, <2>2, <3>1 DEF Exited, Pass, AttendedInv, Repeated
  <2>3. QED
    BY <2>1, <2>2
<1>7. ASSUME NEW mine \in backoff, BackoffEnds(mine) PROVE AttendedInv'
  <2>1. CASE mine = generation
    BY <1>0, <1>5, <1>7, <2>1 DEF BackoffEnds, Pass
  <2>2. CASE mine # generation
    BY <1>7, <2>2 DEF BackoffEnds, Pass, AttendedInv, Repeated, Watched
  <2>3. QED
    BY <2>1, <2>2
<1>8. ASSUME NEW then \in {"restart", "update"}, Asked(then) PROVE AttendedInv'
  BY <1>8 DEF Asked, AttendedInv
<1>9. ASSUME NEW a \in awaits, RestartSpawns(a) PROVE AttendedInv'
  BY <1>5, <1>9 DEF RestartSpawns
<1>10. CASE Signalled \/ \E a \in awaits : UpdateExits(a)
  BY <1>10 DEF Signalled, UpdateExits, End, AttendedInv
<1>11. CASE NewLooks
  BY <1>11 DEF NewLooks, AttendedInv, Repeated, Watched
<1>12. QED
  BY <1>1, <1>2, <1>3, <1>4, <1>6, <1>7, <1>8, <1>9, <1>10, <1>11 DEF LauncherNext

\* Whatever dies, fails or is asked for, at whatever moment: a launcher that runs never
\* stops attending to its backend but by a restart whose own start has failed.
THEOREM AlwaysAttended == LauncherSpec => []Attended
<1>1. LauncherInit => AttendedInv
  BY DEF LauncherInit, AttendedInv, Repeated
<1>2. LauncherInv /\ AttendedInv /\ [LauncherNext]_lvars => AttendedInv'
  BY AttendedStep
<1>3. AttendedInv => Attended
  BY DEF AttendedInv, Attended
<1>4. QED
  BY <1>1, <1>2, <1>3, LauncherSafety, PTL DEF LauncherSpec
=============================================================================
