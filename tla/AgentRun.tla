---------------------------- MODULE AgentRun ----------------------------
(* The runs of the local agent and the repair of the ones a restart killed *)
(* (src/src/bin/server.rs, agent_reply; the agent_runs table).            *)
(*                                                                        *)
(* A run posts a placeholder in the thread, records itself in a table the *)
(* backends share, edits the message while the agent writes, beats in the *)
(* table, edits the message a last time and deletes its row. Every backend *)
(* sweeps the table: a row that has been quiet for AbandonedAfter is taken *)
(* (deleted) and its message closed as interrupted.                       *)
EXTENDS Integers

CONSTANTS
    Backends,        \* processes that may be up: the service, a dev backend
    Runs,            \* the triggers claimed by the live feed, one run each
    AbandonedAfter,  \* AGENT_RUN_ABANDONED_AFTER
    MaxFaults,       \* bound: how many requests and store writes fail
    MaxCrashes,      \* bound: how many times a backend is killed
    MaxTime          \* bound: the last instant of the clock

ASSUME BoundsAssumption ==
    {AbandonedAfter, MaxFaults, MaxCrashes, MaxTime} \subseteq Nat

VARIABLES
    now,      \* the machine's wall clock, read by every backend on it
    up,       \* the backends that are running
    crashes,  \* how many kills have happened
    faults,   \* how many calls have failed
    at,       \* at[r]: where the task of the run is
    by,       \* by[r]: the backend whose task it is
    body,     \* body[r]: what the message the run knows shows in the thread
    strays,   \* strays[r]: placeholders posted under an id nobody learned
    rows,     \* agent_runs: rows[r] is the heartbeat, NoRow without a row
    quiet,    \* quiet[b]: the cutoff of the sweep b is in
    todo,     \* todo[b]: the rows it listed and has not come to yet
    held,     \* held[b]: the row it took and whose message it is closing
    beat,     \* history: the last sign of life of the run the table was given
    lost      \* history: the runs whose row no sweep can find or trust again

vars == <<now, up, crashes, faults, at, by, body, strays, rows, quiet, todo,
          held, beat, lost>>
world == <<now, up, crashes>>
run == <<at, by, body, strays>>
sweep == <<quiet, todo, held>>
past == <<beat, lost>>

NoRow == -1
Free == [run |-> {}, heartbeat |-> 0]

Places == {"waiting", "sending", "recording", "running", "ending", "clearing",
           "over", "dead"}
Answers == {"answer", "failure", "stopped"}
Bodies == {"none", "thinking", "partial", "interrupted"} \cup Answers

TypeOK ==
    /\ now \in Nat
    /\ up \subseteq Backends
    /\ crashes \in Nat
    /\ faults \in Nat
    /\ at \in [Runs -> Places]
    /\ by \in [Runs -> Backends]
    /\ body \in [Runs -> Bodies]
    /\ strays \in [Runs -> Nat]
    /\ rows \in [Runs -> Nat \cup {NoRow}]
    /\ quiet \in [Backends -> Int]
    /\ todo \in [Backends -> SUBSET Runs]
    /\ held \in [Backends -> [run : SUBSET Runs, heartbeat : Nat]]
    /\ beat \in [Runs -> Nat]
    /\ lost \subseteq Runs

Init ==
    /\ now = 0
    /\ up = Backends
    /\ crashes = 0
    /\ faults = 0
    /\ at = [r \in Runs |-> "waiting"]
    /\ by \in [Runs -> Backends]
    /\ body = [r \in Runs |-> "none"]
    /\ strays = [r \in Runs |-> 0]
    /\ rows = [r \in Runs |-> NoRow]
    /\ quiet = [b \in Backends |-> 0]
    /\ todo = [b \in Backends |-> {}]
    /\ held = [b \in Backends |-> Free]
    /\ beat = [r \in Runs |-> 0]
    /\ lost = {}

(* One more call has failed.                                               *)
Fail(n) == faults + n <= MaxFaults /\ faults' = faults + n

-----------------------------------------------------------------------------
(* Time and the backends.                                                  *)

Writing(r) == at[r] \in {"running", "ending", "clearing"}

(* Time passes, however busy, stuck or suspended the processes are: a beat *)
(* may be late, and the last edit is retried with no deadline of its own.  *)
Tick ==
    /\ now < MaxTime
    /\ now' = now + 1
    /\ UNCHANGED <<up, crashes, faults, run, rows, sweep, past>>

Boot(b) ==
    /\ b \notin up
    /\ up' = up \cup {b}
    /\ UNCHANGED <<now, crashes, faults, run, rows, sweep, past>>

(* A kill takes the runs of the process and the sweep it was in with it.   *)
Crash(b) ==
    /\ b \in up
    /\ crashes < MaxCrashes
    /\ crashes' = crashes + 1
    /\ up' = up \ {b}
    /\ at' = [r \in Runs |->
                 IF by[r] = b /\ at[r] \notin {"waiting", "over"}
                 THEN "dead" ELSE at[r]]
    /\ todo' = [todo EXCEPT ![b] = {}]
    /\ held' = [held EXCEPT ![b] = Free]
    /\ lost' = lost \cup held[b].run
                    \cup {r \in Runs : by[r] = b /\ at[r] = "recording"}
    /\ UNCHANGED <<now, faults, by, body, strays, rows, quiet, beat>>

-----------------------------------------------------------------------------
(* A run: agent_reply and agent_run_to_completion.                         *)

(* The live feed claimed the trigger and spawned the task.                 *)
Start(r) ==
    /\ at[r] = "waiting" /\ by[r] \in up
    /\ at' = [at EXCEPT ![r] = "sending"]
    /\ UNCHANGED <<world, faults, by, body, strays, rows, sweep, past>>

(* agent_send runs under the default retry policy: an answer that was lost *)
(* is a transient failure, and the placeholder is posted again.            *)
SendIsLost(r) ==
    /\ at[r] = "sending" /\ Fail(1)
    /\ strays' = [strays EXCEPT ![r] = @ + 1]
    /\ UNCHANGED <<world, at, by, body, rows, sweep, past>>

(* The last attempt fails, its answer is lost, or it is answered without an *)
(* id: in the last two cases a placeholder stands that nobody records.     *)
SendFails(r) ==
    /\ at[r] = "sending" /\ Fail(1)
    /\ at' = [at EXCEPT ![r] = "over"]
    /\ strays' \in {strays, [strays EXCEPT ![r] = @ + 1]}
    /\ UNCHANGED <<world, by, body, rows, sweep, past>>

Send(r) ==
    /\ at[r] = "sending"
    /\ at' = [at EXCEPT ![r] = "recording"]
    /\ body' = [body EXCEPT ![r] = "thinking"]
    /\ UNCHANGED <<world, faults, by, strays, rows, sweep, past>>

(* begin_agent_run; a store that refuses it leaves a run without a row.    *)
Record(r) ==
    /\ at[r] = "recording"
    /\ at' = [at EXCEPT ![r] = "running"]
    /\ \/ /\ rows' = [rows EXCEPT ![r] = now]
          /\ beat' = [beat EXCEPT ![r] = now]
          /\ UNCHANGED <<faults, lost>>
       \/ Fail(1) /\ lost' = lost \cup {r} /\ UNCHANGED <<rows, beat>>
    /\ UNCHANGED <<world, by, body, strays, sweep>>

(* touch_agent_run: an UPDATE, so it revives no row that was taken. A beat *)
(* the store refuses is logged, and the run goes on with the old one.      *)
Beat(r) ==
    /\ at[r] = "running"
    /\ \/ /\ rows[r] # NoRow
          /\ rows' = [rows EXCEPT ![r] = now]
          /\ beat' = [beat EXCEPT ![r] = now]
          /\ UNCHANGED faults
       \/ rows[r] = NoRow /\ UNCHANGED <<rows, beat, faults>>
       \/ Fail(1) /\ UNCHANGED <<rows, beat>>
    /\ UNCHANGED <<world, run, sweep, lost>>

(* A progress edit; one under way when the agent ends is waited for.       *)
StreamEdit(r) ==
    /\ at[r] \in {"running", "ending"}
    /\ body' = [body EXCEPT ![r] = "partial"]
    /\ UNCHANGED <<world, faults, at, by, strays, rows, sweep, past>>

(* The agent answers, fails or is stopped; the beats end with it.          *)
RunEndsCleared(r) ==            \* mutant: the record is cleared before the edit
    /\ at[r] = "running"
    /\ at' = [at EXCEPT ![r] = "ending"]
    /\ rows' = [rows EXCEPT ![r] = NoRow]
    /\ UNCHANGED <<world, faults, by, body, strays, sweep, past>>
RunEnds(r) ==
    /\ at[r] = "running"
    /\ at' = [at EXCEPT ![r] = "ending"]
    /\ UNCHANGED <<world, faults, by, body, strays, rows, sweep, past>>

(* The last edit reaches the service, or every attempt at it fails; in     *)
(* either case the run goes on to clear its row.                           *)
FinalEdit(r) ==
    /\ at[r] = "ending"
    /\ at' = [at EXCEPT ![r] = "clearing"]
    /\ \/ /\ \E a \in Answers : body' = [body EXCEPT ![r] = a]
          /\ UNCHANGED faults
       \/ Fail(1) /\ UNCHANGED body
    /\ UNCHANGED <<world, by, strays, rows, sweep, past>>

(* finish_agent_run.                                                       *)
Finish(r) ==
    /\ at[r] = "clearing"
    /\ at' = [at EXCEPT ![r] = "over"]
    /\ \/ rows' = [rows EXCEPT ![r] = NoRow] /\ UNCHANGED faults
       \/ Fail(1) /\ UNCHANGED rows
    /\ UNCHANGED <<world, by, body, strays, sweep, past>>

-----------------------------------------------------------------------------
(* The sweep: repair_abandoned_agent_runs.                                 *)

CutoffNow == now                                \* mutant: whoever lags a beat
Cutoff == now - AbandonedAfter

QuietBefore(r, t) == rows[r] # NoRow /\ rows[r] < t

SweepBegins(b) ==
    /\ b \in up /\ todo[b] = {} /\ held[b] = Free
    /\ \E r \in Runs : QuietBefore(r, Cutoff)
    /\ quiet' = [quiet EXCEPT ![b] = Cutoff]
    /\ todo' = [todo EXCEPT ![b] = {r \in Runs : QuietBefore(r, Cutoff)}]
    /\ UNCHANGED <<world, faults, run, rows, held, past>>

(* A sweep that lists nothing changes nothing.                             *)
SweepIsIdle(b) ==
    /\ b \in up /\ todo[b] = {} /\ held[b] = Free
    /\ \A r \in Runs : ~ QuietBefore(r, Cutoff)
    /\ UNCHANGED vars

(* take_abandoned_agent_run: the DELETE re-checks the heartbeat and says   *)
(* whether there was a row to delete.                                      *)
TakenAnyway(b, r) == TRUE                       \* mutant: affected rows ignored
MayTake(b, r) == QuietBefore(r, quiet[b])

Take(b, r) ==
    /\ held[b] = Free /\ r \in todo[b]
    /\ todo' = [todo EXCEPT ![b] = @ \ {r}]
    /\ IF MayTake(b, r)
       THEN /\ held' = [held EXCEPT ![b] =
                          [run |-> {r}, heartbeat |-> rows[r]]]
            /\ rows' = [rows EXCEPT ![r] = NoRow]
       ELSE UNCHANGED <<held, rows>>
    /\ UNCHANGED <<world, faults, run, quiet, past>>

(* The store answers the take with an error: the row stays for a later sweep. *)
TakeFails(b, r) ==
    /\ held[b] = Free /\ r \in todo[b] /\ Fail(1)
    /\ todo' = [todo EXCEPT ![b] = @ \ {r}]
    /\ UNCHANGED <<world, run, rows, quiet, held, past>>

(* The repair's edit is answered; a run that was only late writes on over it *)
(* with no row.                                                            *)
Close(b, r) ==
    /\ r \in held[b].run
    /\ body' = [body EXCEPT ![r] = "interrupted"]
    /\ held' = [held EXCEPT ![b] = Free]
    /\ lost' = IF Writing(r) THEN lost \cup {r} ELSE lost
    /\ UNCHANGED <<world, faults, at, by, strays, rows, quiet, todo, beat>>

DueAtOnce(h) == h - AbandonedAfter              \* mutant: made due, not restored
Forgotten(h) == NoRow                           \* mutant: never put back
Restored(h) == h

(* The repair's edit is refused, or lands and its answer is lost: the row  *)
(* is put back as it was listed, unless the store refuses that too.        *)
CloseFails(b, r) ==
    /\ r \in held[b].run
    /\ held' = [held EXCEPT ![b] = Free]
    /\ body' \in {body, [body EXCEPT ![r] = "interrupted"]}
    /\ \/ /\ Fail(1) /\ UNCHANGED lost
          /\ rows' = [rows EXCEPT ![r] = Restored(held[b].heartbeat)]
       \/ Fail(2) /\ lost' = lost \cup {r} /\ UNCHANGED rows
    /\ UNCHANGED <<world, at, by, strays, quiet, todo, beat>>

-----------------------------------------------------------------------------
RunStep(r) ==
    \/ Start(r) \/ SendIsLost(r) \/ SendFails(r) \/ Send(r) \/ Record(r)
    \/ Beat(r) \/ StreamEdit(r) \/ RunEnds(r) \/ FinalEdit(r) \/ Finish(r)

SweepStep(b) ==
    \/ SweepBegins(b) \/ SweepIsIdle(b)
    \/ \E r \in Runs :
          Take(b, r) \/ TakeFails(b, r) \/ Close(b, r) \/ CloseFails(b, r)

Next ==
    \/ Tick
    \/ \E r \in Runs : RunStep(r)
    \/ \E b \in Backends : Boot(b) \/ Crash(b) \/ SweepStep(b)

Spec == Init /\ [][Next]_vars

(* The clock goes on, the sweep comes round every thirty seconds, and a    *)
(* backend that was killed is started again by its supervisor. Nothing is  *)
(* asked of the runs.                                                      *)
Fairness ==
    /\ WF_vars(Tick)
    /\ \A b \in Backends :
          /\ WF_vars(Boot(b)) /\ WF_vars(SweepBegins(b))
          /\ \A r \in Runs : WF_vars(Take(b, r)) /\ WF_vars(Close(b, r))

FairSpec == Spec /\ Fairness

-----------------------------------------------------------------------------
(* Properties.                                                             *)

(* Taking the row makes exactly one backend edit the message: a row is in  *)
(* the table or in one sweeper's hands, never in two places.               *)
OneRepairer ==
    \A b \in Backends : \A r \in held[b].run :
        /\ rows[r] = NoRow
        /\ \A c \in Backends : r \in held[c].run => c = b

(* "Neither may close a run the other is still writing", in so far as the  *)
(* table can tell: a run a sweeper holds gave the table no sign of life for *)
(* AbandonedAfter, up to the very take, however old the sweep's listing is. *)
RepairSparesLiveRuns ==
    \A b \in Backends : \A r \in held[b].run : beat[r] + AbandonedAfter < now

(* The message of a run that died stays frozen only where nothing could    *)
(* know: it died before its record or the store refused it, its repairer   *)
(* was killed or failed at the edit and at putting the row back, or it had *)
(* been closed while it still wrote. Every other one is on its way.        *)
FrozenOnlyIfLost ==
    \A r \in Runs : at[r] = "dead" /\ body[r] \notin {"none", "interrupted"} =>
        \/ r \in lost \/ rows[r] # NoRow
        \/ \E b \in Backends : r \in held[b].run

(* The agent_runs table exists so that no message is left frozen: a run    *)
(* that died with its row in the table has its message closed, or a sweep  *)
(* lost the row on the way (the last instants of the bounded clock are too *)
(* late to judge it).                                                      *)
Orphaned(r) ==
    at[r] = "dead" /\ rows[r] # NoRow /\ rows[r] + AbandonedAfter < MaxTime
OrphansAreClosed ==
    \A r \in Runs : Orphaned(r) ~> (body[r] = "interrupted" \/ r \in lost)

(* A run that reached its own last edit was not left mid-answer: nothing   *)
(* rewrites an answer that landed.                                         *)
AnswersAreFinal ==
    [][\A r \in Runs : body[r] \in Answers => body'[r] = body[r]]_vars

(* A send creates one message, whatever happens to its answer.             *)
OnePlaceholder ==
    \A r \in Runs : strays[r] + (IF body[r] = "none" THEN 0 ELSE 1) <= 1
=============================================================================
