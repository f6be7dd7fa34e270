------------------------- MODULE AgentRunProofs -------------------------
(* Theorems of AgentRun, for any timing of the beats and of the sweeps,    *)
(* any kills and any calls that fail.                                     *)
EXTENDS AgentRun, TLAPS

-----------------------------------------------------------------------------
(* The inductive invariants.                                               *)

(* A run that has not recorded itself has no row anywhere.                 *)
Unrecorded ==
    \A r \in Runs : at[r] \in {"waiting", "sending", "recording"} =>
        /\ rows[r] = NoRow
        /\ \A b \in Backends : r \notin held[b].run

TableInv == TypeOK /\ OneRepairer /\ Unrecorded

(* A row carries the last sign of life of its run, in the table and in     *)
(* hand; one in hand was quiet for too long.                               *)
HonestRows ==
    /\ \A r \in Runs : rows[r] = NoRow \/ rows[r] = beat[r]
    /\ \A b \in Backends : \A r \in held[b].run :
          held[b].heartbeat = beat[r] /\ beat[r] + AbandonedAfter < now

(* A sweep never judges by a cutoff later than the clock allows.           *)
OldCutoffs ==
    \A b \in Backends : todo[b] # {} => quiet[b] <= now - AbandonedAfter

SweepInv == TableInv /\ HonestRows /\ OldCutoffs

(* A run with a message that no sweep could close any more is lost, be it  *)
(* still writing or dead.                                                  *)
Accounted(r) ==
    \/ r \in lost \/ rows[r] # NoRow
    \/ \E b \in Backends : r \in held[b].run
Recorded(r) ==
    \/ Writing(r)
    \/ at[r] = "dead" /\ body[r] \notin {"none", "interrupted"}
Wordless == \A r \in Runs : at[r] \in {"waiting", "sending"} => body[r] = "none"
OneHand == \A b \in Backends : \A q, r \in held[b].run : q = r
LossInv ==
    /\ TableInv /\ OneHand /\ Wordless
    /\ \A r \in Runs : Recorded(r) => Accounted(r)

-----------------------------------------------------------------------------
(* A failed call only counts.                                              *)
LEMMA FailCounts ==
    ASSUME TypeOK, NEW n \in Nat, Fail(n)
    PROVE  faults' \in Nat
BY DEF TypeOK, Fail

(* Every step keeps the types.                                             *)
LEMMA TypeStep ==
    ASSUME TypeOK, [Next]_vars
    PROVE  TypeOK'
<1> USE BoundsAssumption DEF TypeOK
<1>1. CASE UNCHANGED vars
      BY <1>1 DEF vars
<1>2. CASE Tick
      BY <1>2 DEF Tick, run, sweep, past
<1>3. ASSUME NEW r \in Runs, Start(r) PROVE TypeOK'
      BY <1>3 DEF Start, Places, world, sweep, past
<1>4. ASSUME NEW r \in Runs, SendIsLost(r) PROVE TypeOK'
      BY <1>4 DEF SendIsLost, Fail, world, sweep, past
<1>5. ASSUME NEW r \in Runs, SendFails(r) PROVE TypeOK'
      BY <1>5 DEF SendFails, Fail, Places, world, sweep, past
<1>6. ASSUME NEW r \in Runs, Send(r) PROVE TypeOK'
      BY <1>6 DEF Send, Places, Bodies, world, sweep, past
<1>7. ASSUME NEW r \in Runs, Record(r) PROVE TypeOK'
  <2>1. /\ at' \in [Runs -> Places] /\ beat' \in [Runs -> Nat]
        /\ lost' \subseteq Runs
        BY <1>7 DEF Record, Places
  <2>2. faults' \in Nat
        BY <1>7 DEF Record, Fail
  <2>3. rows' \in [Runs -> Nat \cup {NoRow}]
        BY <1>7 DEF Record
  <2> QED BY <1>7, <2>1, <2>2, <2>3 DEF Record, world, sweep
<1>8. ASSUME NEW r \in Runs, Beat(r) PROVE TypeOK'
      BY <1>8 DEF Beat, Fail, NoRow, world, run, sweep
<1>9. ASSUME NEW r \in Runs, StreamEdit(r) PROVE TypeOK'
      BY <1>9 DEF StreamEdit, Bodies, world, sweep, past
<1>10. ASSUME NEW r \in Runs, RunEnds(r) PROVE TypeOK'
      BY <1>10 DEF RunEnds, Places, world, sweep, past
<1>11. ASSUME NEW r \in Runs, FinalEdit(r) PROVE TypeOK'
  <2>1. at' \in [Runs -> Places]
        BY <1>11 DEF FinalEdit, Places
  <2>2. faults' \in Nat
        BY <1>11 DEF FinalEdit, Fail
  <2>3. body' \in [Runs -> Bodies]
        BY <1>11 DEF FinalEdit, Bodies, Answers
  <2> QED BY <1>11, <2>1, <2>2, <2>3 DEF FinalEdit, world, sweep, past
<1>12. ASSUME NEW r \in Runs, Finish(r) PROVE TypeOK'
      BY <1>12 DEF Finish, Fail, Places, NoRow, world, sweep, past
<1>13. ASSUME NEW b \in Backends, Boot(b) \/ SweepBegins(b) \/ SweepIsIdle(b)
       PROVE  TypeOK'
  <2>1. CASE Boot(b)
        BY <2>1 DEF Boot, run, sweep, past
  <2>2. CASE SweepBegins(b)
        BY <2>2 DEF SweepBegins, Cutoff, world, run, past
  <2>3. CASE SweepIsIdle(b)
        BY <1>1, <2>3 DEF SweepIsIdle
  <2> QED BY <1>13, <2>1, <2>2, <2>3
<1>14. ASSUME NEW b \in Backends, Crash(b)
       PROVE  TypeOK'
       BY <1>14 DEF Crash, Free, Places
<1>15. ASSUME NEW b \in Backends, NEW r \in Runs, Take(b, r)
       PROVE  TypeOK'
  <2>1. CASE MayTake(b, r)
    <3>1. rows[r] \in Nat
          BY <2>1 DEF MayTake, QuietBefore
    <3>2. held' \in [Backends -> [run : SUBSET Runs, heartbeat : Nat]]
      <4> DEFINE h == [run |-> {r}, heartbeat |-> rows[r]]
      <4>1. h \in [run : SUBSET Runs, heartbeat : Nat]
            BY <3>1
      <4>2. held' = [held EXCEPT ![b] = h]
            BY <1>15, <2>1 DEF Take
      <4> HIDE DEF h
      <4> QED BY <4>1, <4>2
    <3>3. rows' \in [Runs -> Nat \cup {NoRow}]
          BY <1>15, <2>1 DEF Take
    <3> QED BY <1>15, <3>2, <3>3 DEF Take, world, run, past
  <2>2. CASE ~ MayTake(b, r)
        BY <1>15, <2>2 DEF Take, world, run, past
  <2> QED BY <2>1, <2>2
<1>16. ASSUME NEW b \in Backends, NEW r \in Runs, TakeFails(b, r)
       PROVE  TypeOK'
       BY <1>16 DEF TakeFails, Fail, world, run, past
<1>17. ASSUME NEW b \in Backends, NEW r \in Runs, Close(b, r)
       PROVE  TypeOK'
       BY <1>17 DEF Close, Free, world, Bodies
<1>18. ASSUME NEW b \in Backends, NEW r \in Runs, CloseFails(b, r)
       PROVE  TypeOK'
  <2>1. /\ held[b].heartbeat \in Nat
        /\ held' \in [Backends -> [run : SUBSET Runs, heartbeat : Nat]]
        /\ body' \in [Runs -> Bodies]
        /\ faults' \in Nat
        BY <1>18 DEF CloseFails, Free, Bodies, Fail
  <2>2. rows' \in [Runs -> Nat \cup {NoRow}]
        BY <1>18, <2>1 DEF CloseFails, Restored
  <2> QED BY <1>18, <2>1, <2>2 DEF CloseFails, world
<1> QED BY <1>1, <1>2, <1>3, <1>4, <1>5, <1>6, <1>7, <1>8, <1>9, <1>10, <1>11,
           <1>12, <1>13, <1>14, <1>15, <1>16, <1>17, <1>18
        DEF Next, RunStep, SweepStep

(* OneRepairer and Unrecorded are kept together: a run may record itself   *)
(* only where no sweeper holds a row of it.                                *)
LEMMA TableStep ==
    ASSUME TableInv, [Next]_vars
    PROVE  TableInv'
<1> USE DEF TableInv, OneRepairer, Unrecorded
<1>0. TypeOK' /\ \A b \in Backends : held[b].run \subseteq Runs
      BY TypeStep DEF TypeOK
<1>1. ASSUME UNCHANGED <<at, rows, held>>
      PROVE  TableInv'
      BY <1>0, <1>1
<1>2. ASSUME NEW r \in Runs,
             at' = [at EXCEPT ![r] = at'[r]],
             at[r] \in {"waiting", "sending", "recording"}
                \/ at'[r] \notin {"waiting", "sending", "recording"},
             UNCHANGED <<rows, held>>
      PROVE  TableInv'
      BY <1>0, <1>2 DEF TypeOK
<1>3. ASSUME NEW r \in Runs, Record(r)
      PROVE  TableInv'
  <2>1. /\ held' = held
        /\ \A b \in Backends : r \notin held[b].run
        /\ at'[r] = "running"
        /\ \A q \in Runs \ {r} : at'[q] = at[q] /\ rows'[q] = rows[q]
        BY <1>3 DEF Record, sweep, TypeOK
  <2> QED BY <1>0, <2>1
<1>4. ASSUME NEW r \in Runs, Beat(r)
      PROVE  TableInv'
  <2>1. /\ held' = held /\ at' = at
        /\ \A q \in Runs : rows[q] = NoRow => rows'[q] = NoRow
        BY <1>4 DEF Beat, run, sweep, TypeOK
  <2> QED BY <1>0, <2>1
<1>5. ASSUME NEW r \in Runs, Finish(r)
      PROVE  TableInv'
  <2>1. /\ held' = held
        /\ at'[r] = "over"
        /\ \A q \in Runs \ {r} : at'[q] = at[q]
        /\ \A q \in Runs : rows[q] = NoRow => rows'[q] = NoRow
        BY <1>5 DEF Finish, sweep, TypeOK
  <2> QED BY <1>0, <2>1
<1>6. ASSUME NEW b \in Backends, Crash(b)
      PROVE  TableInv'
  <2>1. /\ rows' = rows
        /\ \A c \in Backends : held'[c].run \subseteq held[c].run
        /\ \A r \in Runs : at'[r] \in {"waiting", "sending", "recording"}
                            => at'[r] = at[r]
        BY <1>6 DEF Crash, Free, TypeOK
  <2> QED BY <1>0, <2>1
<1>7. ASSUME NEW b \in Backends, NEW r \in Runs, Take(b, r)
      PROVE  TableInv'
  <2>1. CASE MayTake(b, r)
    <3>1. /\ at' = at /\ rows[r] # NoRow /\ rows'[r] = NoRow
          /\ \A q \in Runs \ {r} : rows'[q] = rows[q]
          /\ held'[b].run = {r}
          /\ \A c \in Backends \ {b} : held'[c] = held[c]
          BY <1>7, <2>1 DEF Take, MayTake, QuietBefore, run, TypeOK
    <3>2. /\ \A c \in Backends : r \notin held[c].run
          /\ at[r] \notin {"waiting", "sending", "recording"}
          BY <3>1
    <3>3. OneRepairer'
      <4> SUFFICES ASSUME NEW c \in Backends', NEW q \in held'[c].run,
                          NEW d \in Backends', q \in held'[d].run
                   PROVE  rows'[q] = NoRow /\ d = c
          OBVIOUS
      <4>1. CASE q = r
            BY <4>1, <3>1, <3>2
      <4>2. CASE q # r
            BY <4>2, <3>1, <3>2, SMTT(20) DEF TypeOK
      <4> QED BY <4>1, <4>2
    <3>4. Unrecorded'
          BY <3>1, <3>2
    <3> QED BY <1>0, <3>3, <3>4
  <2>2. CASE ~ MayTake(b, r)
        BY <1>0, <1>7, <2>2 DEF Take, run
  <2> QED BY <2>1, <2>2
<1>8. ASSUME NEW b \in Backends, NEW r \in Runs, Close(b, r)
      PROVE  TableInv'
  <2>1. /\ rows' = rows /\ at' = at
        /\ \A c \in Backends : held'[c].run \subseteq held[c].run
        BY <1>8 DEF Close, Free, TypeOK
  <2> QED BY <1>0, <2>1
<1>9. ASSUME NEW b \in Backends, NEW r \in Runs, CloseFails(b, r)
      PROVE  TableInv'
  <2>1. /\ at' = at /\ r \in held[b].run
        /\ \A q \in Runs \ {r} : rows'[q] = rows[q]
        /\ held'[b].run = {}
        /\ \A c \in Backends \ {b} : held'[c] = held[c]
        BY <1>9 DEF CloseFails, Free, TypeOK
  <2>2. /\ \A c \in Backends : r \notin held'[c].run
        /\ at[r] \notin {"waiting", "sending", "recording"}
        BY <2>1
  <2> QED BY <1>0, <2>1, <2>2
<1>10. CASE Tick \/ UNCHANGED vars
       BY <1>1, <1>10 DEF Tick, run, sweep, vars
<1>11. ASSUME NEW b \in Backends,
              \/ Boot(b) \/ SweepBegins(b) \/ SweepIsIdle(b)
              \/ \E r \in Runs : TakeFails(b, r)
       PROVE  TableInv'
       BY <1>1, <1>11 DEF Boot, SweepBegins, SweepIsIdle, TakeFails, vars, run, sweep
<1>12. ASSUME NEW r \in Runs, SendIsLost(r) \/ StreamEdit(r)
       PROVE  TableInv'
       BY <1>1, <1>12 DEF SendIsLost, StreamEdit, sweep
<1>13. ASSUME NEW r \in Runs,
              Start(r) \/ SendFails(r) \/ Send(r) \/ RunEnds(r) \/ FinalEdit(r)
       PROVE  TableInv'
  <2>1. /\ UNCHANGED <<rows, held>>
        /\ at' = [at EXCEPT ![r] = at'[r]]
        BY <1>13 DEF Start, SendFails, Send, RunEnds, FinalEdit, sweep, TypeOK
  <2>2. \/ at[r] \in {"waiting", "sending", "recording"}
        \/ at'[r] \notin {"waiting", "sending", "recording"}
        BY <1>13 DEF Start, SendFails, Send, RunEnds, FinalEdit, TypeOK
  <2> QED BY <1>2, <2>1, <2>2
<1> QED BY <1>3, <1>4, <1>5, <1>6, <1>7, <1>8, <1>9, <1>10, <1>11, <1>12, <1>13
        DEF Next, RunStep, SweepStep

(* Rows are honest and cutoffs old, whenever the beats come.               *)
LEMMA SweepStepKeeps ==
    ASSUME SweepInv, [Next]_vars
    PROVE  SweepInv'
<1> USE DEF SweepInv, HonestRows, OldCutoffs
<1>0. TableInv'
      BY TableStep
<1>1. /\ TypeOK /\ Unrecorded /\ OneRepairer /\ AbandonedAfter \in Nat
      /\ \A b \in Backends : held[b].run \subseteq Runs
      BY BoundsAssumption DEF TableInv, TypeOK
<1>2. ASSUME UNCHANGED <<now, rows, quiet, todo, held, beat>>
      PROVE  SweepInv'
      BY <1>0, <1>2
<1>3. CASE Tick
  <2>1. UNCHANGED <<rows, quiet, todo, held, beat>> /\ now' = now + 1
        BY <1>3 DEF Tick, sweep, past
  <2>2. OldCutoffs'
    <3> SUFFICES ASSUME NEW b \in Backends, todo[b] # {}
                 PROVE  quiet[b] <= (now + 1) - AbandonedAfter
        BY <2>1
    <3>1. now \in Nat /\ quiet[b] \in Int /\ AbandonedAfter \in Nat
          BY <1>1 DEF TypeOK
    <3>2. quiet[b] <= now - AbandonedAfter
          OBVIOUS
    <3> QED BY <3>1, <3>2
  <2>3. \A b \in Backends : \A r \in held[b].run :
            beat[r] \in Nat /\ now \in Nat
        BY <1>1 DEF TypeOK
  <2>4. HonestRows'
        BY <1>1, <2>1, <2>3
  <2> QED BY <1>0, <2>2, <2>4
<1>4. ASSUME NEW r \in Runs, Record(r) \/ Beat(r)
      PROVE  SweepInv'
  <2>1. /\ UNCHANGED <<now, quiet, todo, held>>
        /\ \A q \in Runs \ {r} : rows'[q] = rows[q] /\ beat'[q] = beat[q]
        /\ \/ rows'[r] = rows[r] /\ beat'[r] = beat[r]
           \/ rows'[r] = beat'[r] /\ \A b \in Backends : r \notin held[b].run
        BY <1>1, <1>4 DEF Record, Beat, Unrecorded, OneRepairer, world, sweep, TypeOK
  <2>2. OldCutoffs'
        BY <2>1
  <2>3. HonestRows'
        BY <1>1, <2>1
  <2> QED BY <1>0, <2>2, <2>3
<1>5. ASSUME NEW r \in Runs, Finish(r)
      PROVE  SweepInv'
  <2>1. /\ UNCHANGED <<now, quiet, todo, held, beat>>
        /\ \A q \in Runs : rows'[q] \in {rows[q], NoRow}
        BY <1>1, <1>5 DEF Finish, world, sweep, past, TypeOK
  <2> QED BY <1>0, <2>1
<1>6. ASSUME NEW b \in Backends, Crash(b)
      PROVE  SweepInv'
  <2>1. /\ UNCHANGED <<now, rows, quiet, beat>>
        /\ held'[b].run = {} /\ todo'[b] = {}
        /\ \A c \in Backends \ {b} : held'[c] = held[c] /\ todo'[c] = todo[c]
        BY <1>1, <1>6 DEF Crash, Free, TypeOK
  <2> QED BY <1>0, <2>1
<1>7. ASSUME NEW b \in Backends, SweepBegins(b)
      PROVE  SweepInv'
  <2>1. /\ UNCHANGED <<now, rows, held, beat>>
        /\ quiet'[b] = now - AbandonedAfter
        /\ \A c \in Backends \ {b} : quiet'[c] = quiet[c] /\ todo'[c] = todo[c]
        BY <1>1, <1>7 DEF SweepBegins, Cutoff, world, past, TypeOK
  <2>2. OldCutoffs'
        BY <1>1, <2>1 DEF TypeOK
  <2> QED BY <1>0, <2>1, <2>2
<1>8. ASSUME NEW b \in Backends, NEW r \in Runs, Take(b, r)
      PROVE  SweepInv'
  <2>1. /\ UNCHANGED <<now, quiet, beat>>
        /\ todo[b] # {}
        /\ \A c \in Backends : todo'[c] \subseteq todo[c]
        BY <1>1, <1>8 DEF Take, world, past, TypeOK
  <2>2. CASE MayTake(b, r)
    <3>1. rows[r] = beat[r] /\ rows[r] + AbandonedAfter < now
      <4>1. rows[r] # NoRow /\ rows[r] < quiet[b]
            BY <2>2 DEF MayTake, QuietBefore
      <4>2. rows[r] \in Nat /\ quiet[b] \in Int /\ now \in Nat
            BY <1>1, <4>1 DEF TypeOK
      <4>3. quiet[b] <= now - AbandonedAfter
            BY <2>1
      <4> QED BY <1>1, <4>1, <4>2, <4>3
    <3>2. /\ held'[b] = [run |-> {r}, heartbeat |-> rows[r]]
          /\ \A c \in Backends \ {b} : held'[c] = held[c]
          /\ \A q \in Runs : rows'[q] \in {rows[q], NoRow}
          BY <1>1, <1>8, <2>2 DEF Take, TypeOK
    <3>3. HonestRows'
          BY <2>1, <3>1, <3>2
    <3>4. OldCutoffs'
          BY <2>1
    <3> QED BY <1>0, <3>3, <3>4
  <2>3. CASE ~ MayTake(b, r)
        BY <1>0, <1>8, <2>1, <2>3 DEF Take
  <2> QED BY <2>2, <2>3
<1>9. ASSUME NEW b \in Backends, NEW r \in Runs,
             \/ TakeFails(b, r) \/ Close(b, r) \/ CloseFails(b, r)
      PROVE  SweepInv'
  <2>1. /\ UNCHANGED <<now, quiet, beat>>
        /\ \A c \in Backends : todo'[c] \subseteq todo[c]
        BY <1>1, <1>9 DEF TakeFails, Close, CloseFails, world, past, TypeOK
  <2>2. \A c \in Backends : held'[c] = held[c] \/ held'[c].run = {}
        BY <1>1, <1>9 DEF TakeFails, Close, CloseFails, Free, TypeOK
  <2>3. \A q \in Runs : rows'[q] \in {rows[q], beat[q]}
        BY <1>1, <1>9 DEF TakeFails, Close, CloseFails, Restored, TypeOK
  <2> QED BY <1>0, <2>1, <2>2, <2>3
<1>10. ASSUME NEW r \in Runs,
              \/ Start(r) \/ SendIsLost(r) \/ SendFails(r) \/ Send(r)
              \/ StreamEdit(r) \/ RunEnds(r) \/ FinalEdit(r)
       PROVE  SweepInv'
       BY <1>2, <1>10 DEF Start, SendIsLost, SendFails, Send, StreamEdit, RunEnds,
                          FinalEdit, world, sweep, past
<1>11. ASSUME UNCHANGED vars \/ \E b \in Backends : Boot(b) \/ SweepIsIdle(b)
       PROVE  SweepInv'
       BY <1>2, <1>11 DEF Boot, SweepIsIdle, vars, sweep, past
<1> QED BY <1>3, <1>4, <1>5, <1>6, <1>7, <1>8, <1>9, <1>10, <1>11
        DEF Next, RunStep, SweepStep

(* A sweeper holds one row at a time.                                      *)
LEMMA OneHandStep ==
    ASSUME TypeOK, OneHand, [Next]_vars
    PROVE  OneHand'
<1> USE DEF OneHand
<1>1. ASSUME NEW b \in Backends, NEW r \in Runs, Take(b, r)
      PROVE  OneHand'
  <2>1. \A c \in Backends : held'[c] = held[c] \/ held'[c].run = {r}
        BY <1>1 DEF Take, TypeOK
  <2> QED BY <2>1
<1>2. ASSUME NEW b \in Backends,
             Crash(b) \/ \E r \in Runs : Close(b, r) \/ CloseFails(b, r)
      PROVE  OneHand'
  <2>1. \A c \in Backends : held'[c] = held[c] \/ held'[c].run = {}
        BY <1>2 DEF Crash, Close, CloseFails, Free, TypeOK
  <2> QED BY <2>1
<1>3. ASSUME UNCHANGED held
      PROVE  OneHand'
      BY <1>3
<1>4. ASSUME \/ UNCHANGED vars \/ Tick \/ \E r \in Runs : RunStep(r)
             \/ \E b \in Backends :
                   \/ Boot(b) \/ SweepBegins(b) \/ SweepIsIdle(b)
                   \/ \E r \in Runs : TakeFails(b, r)
      PROVE  UNCHANGED held
      BY <1>4 DEF vars, Tick, RunStep, Start, SendIsLost, SendFails, Send, Record,
                  Beat, StreamEdit, RunEnds, FinalEdit, Finish, Boot, SweepBegins,
                  SweepIsIdle, TakeFails, sweep
<1> QED BY <1>1, <1>2, <1>3, <1>4 DEF Next, SweepStep

(* Whoever has a message to finish has a row somewhere, or is lost.        *)
LEMMA LossStep ==
    ASSUME LossInv, [Next]_vars
    PROVE  LossInv'
<1> USE DEF LossInv, Wordless, Recorded, Accounted, Writing
<1>0. TableInv' /\ OneHand'
      BY TableStep, OneHandStep DEF TableInv
<1>1. /\ TypeOK
      /\ \A b \in Backends : held[b].run \subseteq Runs
      BY DEF TableInv, TypeOK
<1>2. ASSUME NEW r \in Runs,
             UNCHANGED <<rows, held>>, lost \subseteq lost',
             \A q \in Runs \ {r} : at'[q] = at[q] /\ body'[q] = body[q],
             at'[r] \in {"waiting", "sending"} => body'[r] = "none",
             Recorded(r)' => Recorded(r) \/ r \in lost'
      PROVE  LossInv'
      BY <1>0, <1>2
<1>3. ASSUME UNCHANGED <<at, body, held, lost>>,
             \A r \in Runs : rows[r] # NoRow => rows'[r] # NoRow
      PROVE  LossInv'
      BY <1>0, <1>3
<1>4. ASSUME NEW r \in Runs, Record(r)
      PROVE  LossInv'
  <2>1. /\ UNCHANGED <<body, held>>
        /\ at' = [at EXCEPT ![r] = "running"]
        /\ \/ rows' = [rows EXCEPT ![r] = now] /\ lost' = lost
           \/ rows' = rows /\ lost' = lost \cup {r}
        BY <1>4 DEF Record, sweep
  <2>2. /\ \A q \in Runs \ {r} : at'[q] = at[q] /\ rows'[q] = rows[q]
        /\ at'[r] = "running"
        /\ rows'[r] # NoRow \/ r \in lost'
        BY <1>1, <2>1 DEF TypeOK, NoRow
  <2>3. lost \subseteq lost'
        BY <2>1
  <2> QED BY <1>0, <2>1, <2>2, <2>3
<1>5. ASSUME NEW r \in Runs, Beat(r)
      PROVE  LossInv'
  <2>1. UNCHANGED <<at, body, held, lost>>
        BY <1>5 DEF Beat, run, sweep
  <2>2. \A q \in Runs : rows[q] # NoRow => rows'[q] # NoRow
        BY <1>1, <1>5 DEF Beat, TypeOK, NoRow
  <2> QED BY <1>3, <2>1, <2>2
<1>6. ASSUME NEW r \in Runs,
             \/ Start(r) \/ SendFails(r) \/ Send(r)
             \/ StreamEdit(r) \/ RunEnds(r) \/ FinalEdit(r)
      PROVE  LossInv'
  <2>1. UNCHANGED <<rows, held, lost>>
        BY <1>6 DEF Start, SendFails, Send, StreamEdit, RunEnds, FinalEdit, sweep, past
  <2>2. \A q \in Runs \ {r} : at'[q] = at[q] /\ body'[q] = body[q]
        BY <1>1, <1>6 DEF Start, SendFails, Send, StreamEdit, RunEnds, FinalEdit, TypeOK
  <2>3. /\ at'[r] \in {"waiting", "sending"} => body'[r] = "none"
        /\ Recorded(r)' => Recorded(r)
        BY <1>1, <1>6 DEF Start, SendFails, Send, StreamEdit, RunEnds, FinalEdit, TypeOK
  <2> QED BY <1>2, <2>1, <2>2, <2>3
<1>7. ASSUME NEW r \in Runs, Finish(r)
      PROVE  LossInv'
  <2>1. /\ UNCHANGED <<body, held, lost>>
        /\ at'[r] = "over"
        /\ \A q \in Runs \ {r} : at'[q] = at[q] /\ rows'[q] = rows[q]
        BY <1>1, <1>7 DEF Finish, sweep, past, TypeOK
  <2> QED BY <1>0, <2>1
<1>8. ASSUME NEW b \in Backends, Crash(b)
      PROVE  LossInv'
  <2>1. /\ UNCHANGED <<body, rows>>
        /\ lost \subseteq lost' /\ held[b].run \subseteq lost'
        /\ \A c \in Backends \ {b} : held'[c] = held[c]
        /\ \A r \in Runs : \/ at'[r] = at[r]
                           \/ at'[r] = "dead" /\ at[r] \notin {"recording", "waiting", "over"}
                           \/ r \in lost' /\ at'[r] = "dead"
        BY <1>1, <1>8 DEF Crash, TypeOK
  <2>2. ASSUME NEW r \in Runs, Recorded(r)'
        PROVE  Accounted(r)'
    <3>1. Recorded(r) \/ r \in lost'
          BY <1>1, <2>1, <2>2 DEF TypeOK, Places
    <3> QED BY <2>1, <3>1
  <2> QED BY <1>0, <2>1, <2>2
<1>9. ASSUME NEW b \in Backends, NEW r \in Runs, Take(b, r)
      PROVE  LossInv'
  <2>1. /\ UNCHANGED <<at, body, lost>>
        /\ \A q \in Runs \ {r} : rows'[q] = rows[q]
        /\ \A c \in Backends : held[c].run \subseteq held'[c].run
        /\ r \in held'[b].run \/ rows'[r] = rows[r]
        BY <1>1, <1>9 DEF Take, Free, run, past, TypeOK
  <2> QED BY <1>0, <2>1
<1>10. ASSUME NEW b \in Backends, NEW r \in Runs, Close(b, r)
       PROVE  LossInv'
  <2>1. /\ UNCHANGED <<at, rows>>
        /\ lost \subseteq lost' /\ (Writing(r) => r \in lost')
        /\ body'[r] = "interrupted"
        /\ \A q \in Runs \ {r} : body'[q] = body[q]
        BY <1>1, <1>10 DEF Close, TypeOK
  <2>2. \A c \in Backends : held[c].run \subseteq held'[c].run \cup {r}
    <3>1. /\ held[b].run \subseteq {r}
          /\ \A c \in Backends \ {b} : held'[c] = held[c]
          BY <1>1, <1>10 DEF Close, OneHand, TypeOK
    <3> QED BY <3>1
  <2>3. at[r] \notin {"waiting", "sending"}
        BY <1>10 DEF Close, TableInv, Unrecorded
  <2> QED BY <1>0, <2>1, <2>2, <2>3
<1>11. ASSUME NEW b \in Backends, NEW r \in Runs, CloseFails(b, r)
       PROVE  LossInv'
  <2>1. /\ UNCHANGED at
        /\ lost \subseteq lost'
        /\ r \in lost' \/ rows'[r] # NoRow
        /\ \A q \in Runs \ {r} : body'[q] = body[q] /\ rows'[q] = rows[q]
    <3>1. held[b].heartbeat \in Nat
          BY <1>1 DEF TypeOK
    <3> QED BY <1>1, <1>11, <3>1 DEF CloseFails, Restored, NoRow, TypeOK
  <2>2. \A c \in Backends : held[c].run \subseteq held'[c].run \cup {r}
    <3>1. /\ held[b].run \subseteq {r}
          /\ \A c \in Backends \ {b} : held'[c] = held[c]
          BY <1>1, <1>11 DEF CloseFails, OneHand, TypeOK
    <3> QED BY <3>1
  <2>3. at[r] \notin {"waiting", "sending"}
        BY <1>11 DEF CloseFails, TableInv, Unrecorded
  <2> QED BY <1>0, <2>1, <2>2, <2>3
<1>12. ASSUME \/ UNCHANGED vars \/ Tick
              \/ \E r \in Runs : SendIsLost(r)
              \/ \E b \in Backends :
                    \/ Boot(b) \/ SweepBegins(b) \/ SweepIsIdle(b)
                    \/ \E r \in Runs : TakeFails(b, r)
       PROVE  LossInv'
       BY <1>3, <1>12 DEF Tick, SendIsLost, Boot, SweepBegins, SweepIsIdle, TakeFails,
                          vars, run, sweep, past
<1> QED BY <1>4, <1>5, <1>6, <1>7, <1>8, <1>9, <1>10, <1>11, <1>12
        DEF Next, RunStep, SweepStep

-----------------------------------------------------------------------------
LEMMA StartsRight == Init => SweepInv /\ LossInv
<1> SUFFICES ASSUME Init PROVE SweepInv /\ LossInv
    OBVIOUS
<1>1. TypeOK
      BY DEF Init, TypeOK, Places, Bodies, Free
<1>2. \A b \in Backends : held[b].run = {}
      BY DEF Init, Free
<1>3. TableInv
      BY <1>1, <1>2 DEF Init, TableInv, OneRepairer, Unrecorded
<1>4. SweepInv
      BY <1>2, <1>3 DEF Init, SweepInv, HonestRows, OldCutoffs
<1>5. LossInv
      BY <1>2, <1>3 DEF Init, LossInv, OneHand, Wordless, Recorded, Accounted, Writing
<1> QED BY <1>4, <1>5

(* A row is in the table or in one sweeper's hands, whatever the calls that *)
(* fail, the kills and the timing of the beats.                            *)
THEOREM TakenByOne == Spec => [](TypeOK /\ OneRepairer)
<1>1. Init => TableInv
      BY StartsRight DEF SweepInv
<1>2. TableInv /\ [Next]_vars => TableInv'
      BY TableStep
<1>3. TableInv => TypeOK /\ OneRepairer
      BY DEF TableInv
<1> QED BY <1>1, <1>2, <1>3, PTL DEF Spec

(* Every reachable state of the runs, their rows and the sweeps is well    *)
(* typed.                                                                  *)
THEOREM TypeCorrect == Spec => []TypeOK
<1>1. TypeOK /\ OneRepairer => TypeOK
      OBVIOUS
<1> QED BY <1>1, TakenByOne, PTL

(* However late a beat comes, a sweeper holds no row whose run had given a *)
(* sign of life within AbandonedAfter: a run that beats in time is spared. *)
THEOREM LiveRunsAreSpared == Spec => []RepairSparesLiveRuns
<1>1. Init => SweepInv
      BY StartsRight
<1>2. SweepInv /\ [Next]_vars => SweepInv'
      BY SweepStepKeeps
<1>3. SweepInv => RepairSparesLiveRuns
      BY DEF SweepInv, HonestRows, RepairSparesLiveRuns
<1> QED BY <1>1, <1>2, <1>3, PTL DEF Spec

(* Whatever dies and whatever fails, the message of a dead run is frozen   *)
(* with nobody to close it only where its row is lost.                     *)
THEOREM FrozenAreLost == Spec => []FrozenOnlyIfLost
<1>1. Init => LossInv
      BY StartsRight
<1>2. LossInv /\ [Next]_vars => LossInv'
      BY LossStep
<1>3. LossInv => FrozenOnlyIfLost
      BY DEF LossInv, Recorded, Accounted, FrozenOnlyIfLost
<1> QED BY <1>1, <1>2, <1>3, PTL DEF Spec
=============================================================================
