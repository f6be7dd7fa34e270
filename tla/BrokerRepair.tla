---------------------------- MODULE BrokerRepair ----------------------------
(***************************************************************************)
(* Repairing sign-in on a host: the identity broker lives in a container   *)
(* whose login keyring locks itself now and then, and the cure is one      *)
(* restart of that container for the whole machine, started by a button or *)
(* by any backend that notices (start_broker_repair, follow and the health *)
(* check of bin/server.rs, claim_broker_repair of store.rs, intune.rs).    *)
(* The repair is a unit of the user's systemd manager and outlives whoever *)
(* started it; each backend follows it to tell its own page.               *)
(*                                                                         *)
(* One page per backend.  Times are in units of the clock.                 *)
(***************************************************************************)
EXTENDS Integers, FiniteSets

CONSTANTS Backends,
          Interval,    \* REPAIR_MIN_INTERVAL
          MaxTime,     \* bound: the clock
          MaxRepairs,  \* bound: repairs over a behaviour; further starts fail
          MaxAsks,     \* bound: requests for a repair under way on the machine
          MaxFaults    \* bound: calls to the manager that fail, sockets that drop, restarts

ASSUME BrokerAssumption ==
  /\ Interval \in Nat \ {0} /\ MaxTime \in Nat /\ MaxRepairs \in Nat
  /\ MaxAsks \in Nat /\ MaxFaults \in Nat

VARIABLES now,        \* the machine's clock
          locked,     \* the container's login keyring
          unit,       \* the repair that runs, 0 for none
          repairs,    \* how many there have been
          floor,      \* SETTING_REPAIR_STARTED_MS in the shared store
          state,      \* [Backends -> BROKER_STATE: how its last token call went]
          asks,       \* calls of start_broker_repair under way, each at its next await
          followers,  \* the tasks of follow()
          up,         \* [Backends -> its page's socket is open]
          page,       \* [Backends -> what its page shows of a repair: brokerStatus.repairing]
          faults,
          claimed,    \* history: when the last repair was claimed, and whether ever too soon
          uncorrected \* history: the pages whose last greeting said nothing

bvars == <<now, locked, unit, repairs, floor, state, asks, followers, up, page,
           faults, claimed, uncorrected>>

Outcomes == {"ok", "locked", "down"}
Whos     == {"health", "press", "boot"}          \* the automatic triggers, the button, a start
Steps    == {"running", "keyring", "claim", "start"}
Flags    == {"idle", "pressed", "repairing"}     \* `pressed`: the flag is this press's own

machine == <<locked, unit, repairs>>
told    == <<page, uncorrected>>

\* What a token call may find.  While the container restarts there is no broker to call,
\* or it drops the call it had taken, which looks as a locked keyring does: repairable.
Found == IF unit # 0 THEN {"down", "locked"} ELSE IF locked THEN {"locked"} ELSE {"ok"}

BrokerInit ==
  /\ now = 0 /\ locked \in BOOLEAN /\ unit = 0 /\ repairs = 0 /\ floor = -Interval
  /\ state \in [Backends -> Found]
  /\ asks = {} /\ followers = {}
  /\ up = [b \in Backends |-> TRUE]
  /\ page = [b \in Backends |-> "idle"]
  /\ faults = 0 /\ uncorrected = {}
  /\ claimed = [at |-> -Interval, soon |-> FALSE]

-----------------------------------------------------------------------------
(* What the pages are told.                                                *)

\* BROKER_REPAIRS_FOLLOWED
FollowedBy(b, fs) == {f \in fs : f.by = b}

\* broker_status_payload: `repairing` is said by the caller, or read off the count.
PayloadSaid(b, repairing, fs) ==  \* mutant: only what the caller says
  IF repairing THEN "repairing" ELSE "idle"
Payload(b, repairing, fs) ==
  IF repairing \/ FollowedBy(b, fs) # {} THEN "repairing" ELSE "idle"

\* emit: nobody hears it on a socket that is down.
Emit(b, repairing, fs) ==
  /\ page' = IF up[b] THEN [page EXCEPT ![b] = Payload(b, repairing, fs)] ELSE page
  /\ uncorrected' = IF up[b] THEN uncorrected \ {b} ELSE uncorrected

\* Bound: one request of a kind per backend at a time, MaxAsks of them in all.
Asked(b, who, others) ==
  IF Cardinality(others) = MaxAsks \/ \E a \in others : a.by = b /\ a.who = who THEN others
  ELSE others \cup {[by |-> b, who |-> who, at |-> "running"]}

\* record and its observer: a CHANGE is announced, and a locked keyring asks for a repair.
Observed(b, found) ==
  /\ state' = [state EXCEPT ![b] = found]
  /\ asks' = IF found = "locked" /\ state[b] # "locked" THEN Asked(b, "health", asks) ELSE asks

\* A token call, of any of the backend's loops.
TokenCall(b) ==
  /\ \E found \in Found \ {state[b]} : Observed(b, found)
  /\ Emit(b, FALSE, followers)
  /\ UNCHANGED <<now, machine, floor, followers, up, faults, claimed>>

-----------------------------------------------------------------------------
(* start_broker_repair.                                                    *)

\* The health check found a locked keyring, or the button was pressed: the page marks
\* itself as repairing before it is answered.
Health(b) ==
  /\ unit = 0 /\ locked
  /\ asks' = Asked(b, "health", asks) /\ asks' # asks
  /\ UNCHANGED <<now, machine, floor, state, followers, up, told, faults, claimed>>

\* The button is drawn for the failure last announced, which may be an old one.
Press(b) ==
  /\ up[b] /\ page[b] = "idle"
  /\ state[b] = "locked" \/ b \in uncorrected
  /\ page' = [page EXCEPT ![b] = "pressed"]
  /\ asks' = Asked(b, "press", asks) /\ asks' # asks
  /\ UNCHANGED <<now, machine, floor, state, followers, up, faults, claimed, uncorrected>>

\* The request goes on behind its next await.
GoesOn(a, step) == asks' = (asks \ {a}) \cup {[a EXCEPT !.at = step]}

\* It ends with nothing started: a press takes its own flag back, and nothing newer.
Refused(a) ==
  /\ asks' = asks \ {a}
  /\ page' = IF a.who = "press" /\ page[a.by] = "pressed"
             THEN [page EXCEPT ![a.by] = "idle"] ELSE page
  /\ UNCHANGED <<followers, uncorrected>>

\* follow: the task that will announce the end, unless one already watches and this
\* repair is not the backend's own; the page is told either way.
Follow(b, job) ==
  /\ followers' = IF job = 0 /\ FollowedBy(b, followers) # {} THEN followers
                  ELSE followers \cup {[by |-> b, job |-> job, at |-> "watching"]}
  /\ Emit(b, TRUE, followers)

\* A process that comes up only asks whether a repair is running.
OnlyFollowsNever(a) == FALSE  \* mutant: the start goes on to begin one itself
OnlyFollows(a) == a.who = "boot"

\* `repair_running`, the first question, because everything after it reads wrong during
\* a repair; a manager that cannot be asked is asked again by the start.
FindsRunning(a) ==
  /\ a \in asks /\ a.at = "running"
  /\ \/ /\ unit # 0
        /\ Follow(a.by, 0)
        /\ asks' = asks \ {a}
        /\ UNCHANGED faults
     \/ /\ unit = 0 /\ UNCHANGED faults
        /\ IF OnlyFollows(a) THEN Refused(a)
                             ELSE GoesOn(a, "keyring") /\ UNCHANGED <<followers, told>>
     \/ /\ unit # 0 /\ faults < MaxFaults /\ faults' = faults + 1
        /\ IF OnlyFollows(a) THEN Refused(a)
                             ELSE GoesOn(a, "keyring") /\ UNCHANGED <<followers, told>>
  /\ UNCHANGED <<now, machine, floor, state, up, claimed>>

\* Only a LOCKED keyring is a reason to restart; a container that is down cannot be asked.
AsksKeyring(a) ==
  /\ a \in asks /\ a.at = "keyring"
  /\ IF unit = 0 /\ locked
     THEN GoesOn(a, "claim") /\ UNCHANGED <<followers, told>>
     ELSE Refused(a)
  /\ UNCHANGED <<now, machine, floor, state, up, faults, claimed>>

\* The floor: an automatic trigger waits out the interval, a press always claims, and
\* both move it.
FloorAllows(a) == a.who = "press" \/ floor <= now - Interval

\* Every claim moves it, a press too.
MovedByMachine(a) == IF a.who = "press" THEN floor ELSE now  \* mutant: only automatic ones
Moved(a) == now

\* History: an automatic claim within the interval after the last one.
TooSoon(a) == a.who # "press" /\ now < claimed.at + Interval

Claims(a) ==
  /\ a \in asks /\ a.at = "claim"
  /\ IF FloorAllows(a)
     THEN /\ floor' = Moved(a)
          /\ claimed' = [at |-> now, soon |-> claimed.soon \/ TooSoon(a)]
          /\ GoesOn(a, "start")
          /\ UNCHANGED <<followers, told>>
     ELSE Refused(a) /\ UNCHANGED <<floor, claimed>>
  /\ UNCHANGED <<now, machine, state, up, faults>>

\* start_repair: a transient unit, which exists already when another backend was first.
StartsRepair(a) ==
  /\ a \in asks /\ a.at = "start"
  /\ \/ /\ unit # 0
        /\ asks' = asks \ {a}
        /\ Follow(a.by, 0)
        /\ UNCHANGED <<unit, repairs, faults>>
     \/ /\ unit = 0 /\ repairs < MaxRepairs
        /\ unit' = repairs + 1 /\ repairs' = repairs + 1
        /\ asks' = asks \ {a}
        /\ Follow(a.by, unit')
        /\ UNCHANGED faults
     \/ /\ \/ faults < MaxFaults /\ faults' = faults + 1
           \/ unit = 0 /\ repairs = MaxRepairs /\ UNCHANGED faults
        /\ Refused(a)
        /\ UNCHANGED <<unit, repairs>>
  /\ UNCHANGED <<now, locked, floor, state, up, claimed>>

-----------------------------------------------------------------------------
(* Following.                                                              *)

\* The job's own signal, or a poll that finds nothing running; or the manager cannot be
\* asked any more, and the follower ends as if it had.
Watched(f) ==
  /\ f \in followers /\ f.at = "watching"
  /\ \/ (IF f.job = 0 THEN unit = 0 ELSE unit # f.job) /\ UNCHANGED faults
     \/ faults < MaxFaults /\ faults' = faults + 1
  /\ followers' = (followers \ {f}) \cup {[f EXCEPT !.at = "settling"]}
  /\ UNCHANGED <<now, machine, floor, state, asks, up, told, claimed>>

SettlesUntold(f) ==  \* mutant: the count is handed back and nobody is told
  /\ f \in followers /\ f.at = "settling"
  /\ followers' = followers \ {f}
  /\ \E found \in {state[f.by]} \cup Found : Observed(f.by, found)
  /\ UNCHANGED <<now, machine, floor, up, told, faults, claimed>>

\* The broker is asked once, for a bounded time, and then the end is announced.
Settles(f) ==
  /\ f \in followers /\ f.at = "settling"
  /\ followers' = followers \ {f}
  /\ \E found \in {state[f.by]} \cup Found : Observed(f.by, found)
  /\ Emit(f.by, FALSE, followers')
  /\ UNCHANGED <<now, machine, floor, up, faults, claimed>>

-----------------------------------------------------------------------------
(* The machine, the sockets and the processes.                             *)

Tick ==
  /\ now < MaxTime /\ now' = now + 1
  /\ UNCHANGED <<machine, floor, state, asks, followers, up, told, faults, claimed>>

Locks ==
  /\ unit = 0 /\ ~locked /\ repairs < MaxRepairs /\ locked' = TRUE
  /\ UNCHANGED <<now, unit, repairs, floor, state, asks, followers, up, told, faults, claimed>>

\* It worked, or it did not.
RepairEnds ==
  /\ unit # 0 /\ unit' = 0
  /\ locked' \in BOOLEAN
  /\ UNCHANGED <<now, repairs, floor, state, asks, followers, up, told, faults, claimed>>

\* What the page does when its socket goes: a press in hand is rejected.
Unplugged(b) ==
  /\ up' = [up EXCEPT ![b] = FALSE]
  /\ page' = [page EXCEPT ![b] = IF @ = "pressed" THEN "idle" ELSE @]

\* The connection's task is dropped with the requests it was running; the manager may
\* have taken a start that nobody is left to follow.
Drop(b) ==
  /\ up[b] /\ faults < MaxFaults /\ faults' = faults + 1
  /\ Unplugged(b)
  /\ LET mine == {a \in asks : a.by = b /\ a.who = "press"}
     IN  /\ asks' = asks \ mine
         /\ \/ UNCHANGED <<unit, repairs>>
            \/ /\ \E a \in mine : a.at = "start"
               /\ unit = 0 /\ repairs < MaxRepairs
               /\ unit' = repairs + 1 /\ repairs' = repairs + 1
  /\ UNCHANGED <<now, locked, floor, state, followers, claimed, uncorrected>>

\* The greeting of a connection: only a failure is said.
Greets(b) ==
  /\ ~up[b]
  /\ up' = [up EXCEPT ![b] = TRUE]
  /\ IF state[b] # "ok"
     THEN /\ page' = [page EXCEPT ![b] = Payload(b, FALSE, followers)]
          /\ uncorrected' = uncorrected \ {b}
     ELSE UNCHANGED page /\ uncorrected' = uncorrected \cup {b}
  /\ UNCHANGED <<now, machine, floor, state, asks, followers, faults, claimed>>

\* A new process signs in before it serves a page, and follows a repair it came up in.
Restarts(b) ==
  /\ faults < MaxFaults /\ faults' = faults + 1
  /\ Unplugged(b)
  /\ followers' = followers \ FollowedBy(b, followers)
  /\ \E found \in Found :
       LET boot == Asked(b, "boot", {a \in asks : a.by # b})
       IN  /\ state' = [state EXCEPT ![b] = found]
           /\ asks' = IF found = "locked" THEN Asked(b, "health", boot) ELSE boot
  /\ UNCHANGED <<now, machine, floor, claimed, uncorrected>>

BrokerNext ==
  \/ Tick \/ Locks \/ RepairEnds
  \/ \E b \in Backends :
       TokenCall(b) \/ Health(b) \/ Press(b) \/ Drop(b) \/ Greets(b) \/ Restarts(b)
  \/ \E a \in asks : FindsRunning(a) \/ AsksKeyring(a) \/ Claims(a) \/ StartsRepair(a)
  \/ \E f \in followers : Watched(f) \/ Settles(f)

BrokerSpec == BrokerInit /\ [][BrokerNext]_bvars

-----------------------------------------------------------------------------
(* What must hold.                                                         *)

BrokerTypeOK ==
  /\ now \in Nat /\ locked \in BOOLEAN /\ unit \in 0..repairs /\ repairs \in 0..MaxRepairs
  /\ floor \in Int /\ state \in [Backends -> Outcomes]
  /\ asks \subseteq [by : Backends, who : Whos, at : Steps]
  /\ \A a \in asks : a.who = "boot" => a.at = "running"
  /\ followers \subseteq [by : Backends, job : 0..repairs, at : {"watching", "settling"}]
  /\ up \in [Backends -> BOOLEAN] /\ page \in [Backends -> Flags]
  /\ faults \in Nat
  /\ claimed \in [at : Int, soon : BOOLEAN]
  /\ uncorrected \subseteq Backends

\* No automatic trigger of any backend claims a repair within the interval after another
\* claim on the machine, whoever restarted in between.
AutomaticSpaced == ~claimed.soon

\* While a backend follows a repair its page shows one, whichever of several followers
\* ends first and whatever else is announced meanwhile.
RepairStaysShown ==
  \A b \in Backends : up[b] /\ FollowedBy(b, followers) # {} =>
    page[b] = "repairing" \/ b \in uncorrected

\* "Repairing..." stays on no page that nobody will take it back from: some follower of its
\* backend, which announces the end whether the repair worked or not, is still at work.
RepairingIsFollowed ==
  \A b \in Backends : up[b] /\ page[b] = "repairing" =>
    FollowedBy(b, followers) # {} \/ b \in uncorrected

\* The same for a page that was away when the end was announced.
RepairingIsTrue ==
  \A b \in Backends : up[b] /\ page[b] = "repairing" => FollowedBy(b, followers) # {}
=============================================================================
