---------------------------- MODULE LiveFeed ----------------------------
(* Live message ingestion by several backends that share one SQLite store *)
(* (src/src/bin/server.rs, spawn_realtime; src/src/store.rs).             *)
(*                                                                        *)
(* A live frame is stored, and a frame that changed a row is then put to  *)
(* two policies: somebody else's message may deserve a push notification, *)
(* one of ours may summon the local agent. Either action is claimed first *)
(* in the table every backend shares, and then runs in a task of its own. *)
(* The service, the development backend and a read-only backend all hold  *)
(* a feed on the same store; frames are lost, repeated and delayed.       *)
EXTENDS Integers

CONSTANTS
    Backends,        \* processes that may be up, sharing the store
    ReadOnly,        \* those started with TEAMS_LITE_READ_ONLY=1
    Messages,        \* conversation id and message id, as one value
    Triggers,        \* the messages that are ours and address the agent
    PushMaxAge,      \* push_policy::MAX_AGE_MS
    AgentMaxAge,     \* agent_policy::MAX_AGE_MS
    Retention,       \* CLAIM_RETENTION
    Stall,           \* longest suspension between a policy's clock and its claim
    Skew,            \* |the service's clock - this machine's clock|
    MaxEdits,        \* bound: how often a message is edited
    MaxCrashes,      \* bound: how many times a backend is killed
    MaxTime          \* bound: the last instant of the clock

ASSUME SetsAssumption == /\ ReadOnly \subseteq Backends
                         /\ Triggers \subseteq Messages
ASSUME BoundsAssumption ==
    {PushMaxAge, AgentMaxAge, Retention, Stall, Skew,
     MaxEdits, MaxCrashes, MaxTime} \subseteq Nat

(* A claim outlives every reason to act on its message: 24 hours against   *)
(* twice ten minutes (a compose time may also lie ahead of our clock).     *)
ASSUME RetentionAssumption ==
    /\ Retention >= 2 * PushMaxAge + Stall
    /\ Retention >= 2 * AgentMaxAge + Stall

VARIABLES
    now,       \* the machine's wall clock, read by every backend on it
    up,        \* the backends that are running
    crashes,   \* how many kills have happened
    enabled,   \* which surfaces the user's settings let act: "push", "agent"
    posted,    \* posted[m]: versions of m the service holds, 0 before it exists
    compose,   \* compose[m]: its compose time, stamped by the service
    stored,    \* stored[m]: the version in the messages table, 0 for no row
    claims,    \* push_deliveries: when m was claimed, or Unclaimed
    hand,      \* hand[b]: the frame b is in the middle of ingesting
    tasks,     \* <<b, m>>: b spawned the action on m, which has not run yet
    acted,     \* acted[m]: pushes delivered, or replies started, for m
    heard,     \* the messages an able backend has been handed while fresh
    excused    \* history: the messages a named cause may have kept from being acted on

vars == <<now, up, crashes, enabled, posted, compose, stored, claims, hand,
          tasks, acted, heard, excused>>
feed == <<now, posted, compose>>

Unclaimed == -1
Surfaces == {"push", "agent"}
Surface(m) == IF m \in Triggers THEN "agent" ELSE "push"
MaxAge(m) == IF m \in Triggers THEN AgentMaxAge ELSE PushMaxAge

(* hand[b]: Idle, a stored frame whose policies are still to be asked, or  *)
(* an approved message about to be claimed, with the policy's own clock.   *)
Idle == [at |-> "idle"]
Decide(m, changed) == [at |-> "decide", msg |-> m, changed |-> changed]
Horizon(m, asked) ==               \* mutant: keeps the horizon, not the clock
    [at |-> "claim", msg |-> m, asked |-> asked - MaxAge(m)]
Claiming(m, asked) == [at |-> "claim", msg |-> m, asked |-> asked]
Hands == {Idle}
         \cup [at : {"decide"}, msg : Messages, changed : BOOLEAN]
         \cup [at : {"claim"}, msg : Messages, asked : Nat]

TypeOK ==
    /\ now \in Nat
    /\ up \subseteq Backends
    /\ crashes \in Nat
    /\ enabled \subseteq Surfaces
    /\ posted \in [Messages -> Nat]
    /\ compose \in [Messages -> Int]
    /\ stored \in [Messages -> Nat]
    /\ claims \in [Messages -> Int]
    /\ hand \in [Backends -> Hands]
    /\ tasks \subseteq Backends \X Messages
    /\ acted \in [Messages -> Nat]
    /\ heard \subseteq Messages
    /\ excused \subseteq Messages

Init ==
    /\ now = 0
    /\ up = {}
    /\ crashes = 0
    /\ enabled \in SUBSET Surfaces
    /\ posted = [m \in Messages |-> 0]
    /\ compose = [m \in Messages |-> 0]
    /\ stored = [m \in Messages |-> 0]
    /\ claims = [m \in Messages |-> Unclaimed]
    /\ hand = [b \in Backends |-> Idle]
    /\ tasks = {}
    /\ acted = [m \in Messages |-> 0]
    /\ heard = {}
    /\ excused = {}

-----------------------------------------------------------------------------
(* The world around the backends.                                          *)

(* Time passes, except that a backend between its policy's reading of the  *)
(* clock and its claim is not suspended for longer than Stall.             *)
Tick ==
    /\ now < MaxTime
    /\ \A b \in Backends :
          hand[b].at = "claim" => now < hand[b].asked + Stall
    /\ now' = now + 1
    /\ UNCHANGED <<up, crashes, enabled, posted, compose, stored, claims,
                   hand, tasks, acted, heard, excused>>

(* Somebody writes a message; the service stamps it by its own clock.      *)
Post(m) ==
    /\ posted[m] = 0
    /\ \E t \in (now - Skew)..(now + Skew) :
          /\ compose' = [compose EXCEPT ![m] = t]
          /\ posted' = [posted EXCEPT ![m] = 1]
    /\ UNCHANGED <<now, up, crashes, enabled, stored, claims, hand, tasks,
                   acted, heard, excused>>

(* An edit keeps the compose time and changes the body.                    *)
Edit(m) ==
    /\ posted[m] \in 1..MaxEdits
    /\ posted' = [posted EXCEPT ![m] = @ + 1]
    /\ UNCHANGED <<now, up, crashes, enabled, compose, stored, claims, hand,
                   tasks, acted, heard, excused>>

(* A subscription added or removed, an agent mode or provider switched.    *)
Toggle(s) ==
    /\ enabled' = IF s \in enabled THEN enabled \ {s} ELSE enabled \cup {s}
    /\ UNCHANGED <<feed, up, crashes, stored, claims, hand, tasks, acted, heard,
                   excused>>

-----------------------------------------------------------------------------
(* One backend's life.                                                     *)

ExpiredEarly(m) == claims[m] < now - MaxAge(m)      \* mutant: one policy's age
Expired(m) == claims[m] < now - Retention

PruneClaims == [m \in Messages |-> IF Expired(m) THEN Unclaimed ELSE claims[m]]

(* prepare_store at boot: a read-only backend rewrites none of the rows.   *)
Boot(b) ==
    /\ b \notin up
    /\ up' = up \cup {b}
    /\ claims' = IF b \in ReadOnly THEN claims ELSE PruneClaims
    /\ UNCHANGED <<feed, crashes, enabled, stored, hand, tasks, acted, heard, excused>>

Holds(b, m) == hand[b].at # "idle" /\ hand[b].msg = m

(* A kill: the frame in hand and the spawned tasks die with the process.   *)
Crash(b) ==
    /\ b \in up
    /\ crashes < MaxCrashes
    /\ crashes' = crashes + 1
    /\ up' = up \ {b}
    /\ hand' = [hand EXCEPT ![b] = Idle]
    /\ tasks' = {k \in tasks : k[1] # b}
    /\ excused' = excused \cup {m \in Messages : Holds(b, m) \/ <<b, m>> \in tasks}
    /\ UNCHANGED <<feed, enabled, stored, claims, acted, heard>>

-----------------------------------------------------------------------------
(* Ingestion.                                                              *)

Fresh(m) == compose[m] \in (now - MaxAge(m))..(now + MaxAge(m))
Able(b, m) == b \notin ReadOnly /\ Surface(m) \in enabled

(* The store refuses the write (unwrap_or(false)): the frame is taken for  *)
(* one that changed nothing.                                               *)
IngestFails(b, m) ==
    /\ b \in up /\ hand[b] = Idle /\ posted[m] > 0
    /\ hand' = [hand EXCEPT ![b] = Decide(m, FALSE)]
    /\ heard' = IF Able(b, m) /\ Fresh(m) THEN heard \cup {m} ELSE heard
    /\ excused' = excused \cup {m}
    /\ UNCHANGED <<feed, up, crashes, enabled, stored, claims, tasks, acted>>

(* A row made by what puts it to no policy, before any able backend heard  *)
(* of its message: the frame will look like old news.                      *)
MadeQuietly(m) == IF m \in heard' THEN {} ELSE {m}

IngestReadBack(b, m, v) ==  \* mutant: compares with the row it has just written
    /\ b \in up /\ hand[b] = Idle
    /\ v \in 1..posted[m]
    /\ stored' = [stored EXCEPT ![m] = v]
    /\ hand' = [hand EXCEPT ![b] = Decide(m, stored'[m] # v)]
    /\ heard' = IF Able(b, m) /\ Fresh(m) THEN heard \cup {m} ELSE heard
    /\ excused' = excused \cup MadeQuietly(m)
    /\ UNCHANGED <<feed, up, crashes, enabled, claims, tasks, acted>>

(* A frame of any version the service ever sent, in any order, any number  *)
(* of times. insert_message reports whether the row was new or changed.    *)
Ingest(b, m, v) ==
    /\ b \in up /\ hand[b] = Idle
    /\ v \in 1..posted[m]
    /\ stored' = [stored EXCEPT ![m] = v]
    /\ hand' = [hand EXCEPT ![b] = Decide(m, stored[m] # v)]
    /\ heard' = IF Able(b, m) /\ Fresh(m) THEN heard \cup {m} ELSE heard
    /\ excused' = excused \cup MadeQuietly(m)
    /\ UNCHANGED <<feed, up, crashes, enabled, claims, tasks, acted>>

(* push_live_message and agent_live_message, as far as their policies; at  *)
(* most one of the two concerns any message (from_me decides which).       *)
AskPolicy(b) ==
    /\ hand[b].at = "decide"
    /\ LET m == hand[b].msg
           approved == hand[b].changed /\ Able(b, m) /\ Fresh(m)
       IN  /\ hand' = [hand EXCEPT ![b] = IF approved THEN Claiming(m, now) ELSE Idle]
           /\ excused' = IF hand[b].changed /\ ~approved THEN excused \cup {m} ELSE excused
    /\ UNCHANGED <<feed, up, crashes, enabled, stored, claims, tasks, acted, heard>>

FreeHere(m) == \A b \in up : <<b, m>> \notin tasks   \* mutant: no table
FreeChat(m) == \A n \in Messages : claims[n] = Unclaimed  \* mutant: coarse key
FreeToClaim(m) == claims[m] = Unclaimed

(* claim_once: the insert arbitrates, and a win spawns the action.         *)
ClaimOnce(b) ==
    /\ hand[b].at = "claim"
    /\ LET m == hand[b].msg IN
       IF FreeToClaim(m)
       THEN /\ claims' = [claims EXCEPT ![m] = now]
            /\ tasks' = tasks \cup {<<b, m>>}
       ELSE UNCHANGED <<claims, tasks>>
    /\ hand' = [hand EXCEPT ![b] = Idle]
    /\ UNCHANGED <<feed, up, crashes, enabled, stored, acted, heard, excused>>

(* claim_once answered with an error: nothing is claimed, nothing is done. *)
ClaimFails(b) ==
    /\ hand[b].at = "claim"
    /\ hand' = [hand EXCEPT ![b] = Idle]
    /\ excused' = excused \cup {hand[b].msg}
    /\ UNCHANGED <<feed, up, crashes, enabled, stored, claims, tasks, acted, heard>>

(* The trigger is claimed, and what the run needs cannot be read: the      *)
(* claim is kept with nothing behind it.                                   *)
RequestFails(b) ==
    /\ hand[b].at = "claim"
    /\ LET m == hand[b].msg IN
       /\ m \in Triggers /\ FreeToClaim(m)
       /\ claims' = [claims EXCEPT ![m] = now]
       /\ excused' = excused \cup {m}
    /\ hand' = [hand EXCEPT ![b] = Idle]
    /\ UNCHANGED <<feed, up, crashes, enabled, stored, tasks, acted, heard>>

(* The spawned task runs: deliver_push, or agent_reply.                    *)
Act(b, m) ==
    /\ <<b, m>> \in tasks
    /\ tasks' = tasks \ {<<b, m>>}
    /\ acted' = [acted EXCEPT ![m] = @ + 1]
    /\ UNCHANGED <<feed, up, crashes, enabled, stored, claims, hand, heard, excused>>

(* A history page fetched for a view (open, backfill) is stored by the     *)
(* same insert, as old as its fetch, and is put to no policy.              *)
PersistPage(b, m) ==
    /\ b \in up
    /\ \E v \in 1..posted[m] : stored' = [stored EXCEPT ![m] = v]
    /\ UNCHANGED <<feed, up, crashes, enabled, claims, hand, tasks, acted, heard>>
    /\ excused' = excused \cup MadeQuietly(m)

-----------------------------------------------------------------------------
(* Everything that ingests, with a healthy store and no page being read.   *)
Live(b) ==
    \/ AskPolicy(b) \/ ClaimOnce(b)
    \/ \E m \in Messages :
          Act(b, m) \/ \E v \in 1..(MaxEdits + 1) : Ingest(b, m, v)

Fault(b) ==
    \/ Crash(b) \/ ClaimFails(b) \/ RequestFails(b)
    \/ \E m \in Messages : IngestFails(b, m)

World ==
    \/ Tick
    \/ \E m \in Messages : Post(m) \/ Edit(m)
    \/ \E b \in Backends : Boot(b)

Next ==
    \/ World
    \/ \E s \in Surfaces : Toggle(s)
    \/ \E b \in Backends :
          Live(b) \/ Fault(b) \/ \E m \in Messages : PersistPage(b, m)

Spec == Init /\ [][Next]_vars

(* A running process goes on handling what it was handed.                  *)
Fairness ==
    \A b \in Backends :
       /\ WF_vars(AskPolicy(b)) /\ WF_vars(ClaimOnce(b))
       /\ \A m \in Messages : WF_vars(Act(b, m))

(* The calm days: no fault and no setting touched, so that whatever is not *)
(* acted on was lost by the ingestion itself. First nobody reads history   *)
(* either, then somebody does.                                             *)
SettledSpec == Init /\ [][World \/ \E b \in Backends : Live(b)]_vars /\ Fairness

ReadingSpec ==
    /\ Init /\ Fairness
    /\ [][\/ World
          \/ \E b \in Backends :
                Live(b) \/ \E m \in Messages : PersistPage(b, m)]_vars

-----------------------------------------------------------------------------
(* Properties.                                                             *)

(* A message is pushed, or answered, at most once: by any backend, after   *)
(* any repetition, edit, restart and pruning (the push_deliveries note).   *)
AtMostOnce ==
    \A m \in Messages :
        /\ acted[m] <= 1
        /\ \A b \in Backends :
              <<b, m>> \in tasks =>
                 /\ acted[m] = 0
                 /\ \A c \in Backends : <<c, m>> \in tasks => c = b

(* A claim is forgotten only once no policy would approve its message:     *)
(* prune_claims never re-opens a message that a late frame, or a handler   *)
(* already past its policy, could still act on.                            *)
PrunedIsStale ==
    [][\A m \in Messages :
          claims[m] # Unclaimed /\ claims'[m] = Unclaimed
             => /\ ~ Fresh(m)
                /\ \A b \in Backends : ~ (hand[b].at = "claim" /\ hand[b].msg = m)
      ]_vars

(* What an able backend was handed while it was fresh is acted on, or on   *)
(* its way to be, whichever backend holds it, unless a named cause took    *)
(* it: a kill, a store or a setting in the way, too long in hand, or a row *)
(* made by a history page or by a backend that may not act. No repetition, *)
(* edit, pruning or other backend's claim is such a cause.                 *)
OnlyExcusedMissed ==
    \A m \in heard \ excused :
        \/ acted[m] > 0
        \/ \E b \in Backends :
              \/ <<b, m>> \in tasks
              \/ Holds(b, m) /\ (hand[b].at = "decide" => hand[b].changed)

(* The push_deliveries note says a live message is acted on EXACTLY once:  *)
(* what an able backend was handed while it was fresh is acted on.         *)
ExactlyOnce == \A m \in Messages : m \in heard ~> acted[m] = 1
=============================================================================
