------------------------------ MODULE Launcher ------------------------------
(***************************************************************************)
(* The launcher and the backend it owns (launcher/src/backend.ts,          *)
(* backend-restart.ts and update.ts): one child is started, supervised,    *)
(* replaced when it dies, replaced when it asks to be, and stopped when    *)
(* the launcher ends or hands over to a new build.  One port: a child that *)
(* finds it taken does not come up, and a killed one holds it until it is  *)
(* reaped.                                                                 *)
(***************************************************************************)
EXTENDS Naturals, FiniteSets

CONSTANTS MaxChildren,  \* bound: children over a behaviour
          MaxFaults,    \* bound: crashes and starts that fail
          MaxAsks       \* bound: restarts and updates asked for

ASSUME LauncherAssumption == MaxChildren \in Nat \ {0} /\ MaxFaults \in Nat /\ MaxAsks \in Nat

VARIABLES status,      \* each child: "none", "starting", "listening", "dead"
          doomed,      \* the children that were sent SIGKILL
          running,     \* the launcher's process
          hooked,      \* killChildOnExit has been called
          proc,        \* the current child, 0 before the first
          generation,  \* the counter of that name
          starters,    \* the calls of startBackend in hand
          watch,       \* superviseBackend awaiting `exited`: the child, and `mine`
          backoff,     \* superviseBackend in its pause: `mine`
          awaits,      \* restart and stopBackend awaiting proc.exited
          relaunch,    \* the new build: not started, looking at the port, what it found
          faults, asks, \* how many so far
          crossed,     \* history: the stops that found a start, or another stop, in hand
          abandoned    \* history: a restart's start has failed, and none has returned since

lvars == <<status, doomed, running, hooked, proc, generation, starters, watch, backoff,
           awaits, relaunch, faults, asks, crossed, abandoned>>

Children == 1..MaxChildren
Live(c)  == status[c] \in {"starting", "listening"}
Owned    == {c \in Children : Live(c) /\ c \notin doomed}
PortOpen == \E c \in Children : status[c] = "listening"
Starter  == [child : Children, who : {"first", "supervisor", "restart"}, mine : Nat]

LauncherInit ==
  /\ status = [c \in Children |-> IF c = 1 THEN "starting" ELSE "none"]
  /\ doomed = {} /\ running = TRUE /\ hooked = FALSE /\ proc = 0 /\ generation = 0
  /\ starters = {[child |-> 1, who |-> "first", mine |-> 0]}
  /\ watch = {} /\ backoff = {} /\ awaits = {} /\ relaunch = "no"
  /\ faults = 0 /\ asks = 0 /\ crossed = 0 /\ abandoned = FALSE

-----------------------------------------------------------------------------
(* The children.                                                           *)

Binds(c) ==
  /\ status[c] = "starting" /\ c \notin doomed /\ ~PortOpen
  /\ status' = [status EXCEPT ![c] = "listening"]
  /\ UNCHANGED <<doomed, running, hooked, proc, generation, starters, watch, backoff, awaits, relaunch, faults, asks, crossed, abandoned>>

\* It exits on its own: the port is taken, it crashed, it was killed from outside.
Dies(c) ==
  /\ Live(c) /\ c \notin doomed /\ faults < MaxFaults
  /\ status' = [status EXCEPT ![c] = "dead"]
  /\ faults' = faults + 1
  /\ UNCHANGED <<doomed, running, hooked, proc, generation, starters, watch, backoff, awaits, relaunch, asks, crossed, abandoned>>

Reaped(c) ==
  /\ Live(c) /\ c \in doomed
  /\ status' = [status EXCEPT ![c] = "dead"]
  /\ UNCHANGED <<doomed, running, hooked, proc, generation, starters, watch, backoff, awaits, relaunch, faults, asks, crossed, abandoned>>

-----------------------------------------------------------------------------
(* Starting and supervising.                                               *)

\* startBackend begins: the child is spawned, and is nobody's `proc` yet.
Spawn(who, mine) ==
  \E c \in Children :
    /\ status[c] = "none" /\ \A d \in Children : status[d] = "none" => c <= d
    /\ status' = [status EXCEPT ![c] = "starting"]
    /\ starters' = starters \cup {[child |-> c, who |-> who, mine |-> mine]}

PolledUnbound(s) ==  \* mutant: the handlers go on naming the child before it
  /\ s \in starters /\ status[s.child] # "dead" /\ PortOpen
  /\ starters' = starters \ {s}
  /\ proc' = IF s.who = "first" THEN s.child ELSE proc
  /\ hooked' = TRUE
  /\ generation' = IF s.who = "first" THEN generation ELSE generation + 1
  /\ watch' = watch \cup {<<s.child, generation'>>}
  /\ abandoned' = FALSE
  /\ UNCHANGED <<status, doomed, running, backoff, awaits, relaunch, faults, asks, crossed>>

\* startBackend returns: something listens on the port.  The child becomes the current
\* one and is watched.
Polled(s) ==
  /\ s \in starters /\ status[s.child] # "dead" /\ PortOpen
  /\ starters' = starters \ {s}
  /\ proc' = s.child
  /\ hooked' = TRUE
  /\ generation' = IF s.who = "first" THEN generation ELSE generation + 1
  /\ watch' = watch \cup {<<s.child, generation'>>}
  /\ abandoned' = FALSE
  /\ UNCHANGED <<status, doomed, running, backoff, awaits, relaunch, faults, asks, crossed>>

EndFirst ==  \* mutant: the hooks captured the first child
  /\ running' = FALSE
  /\ doomed' = IF hooked THEN doomed \cup {1} ELSE doomed
  /\ starters' = {} /\ watch' = {} /\ backoff' = {} /\ awaits' = {}
  /\ crossed' = crossed + IF starters # {} THEN 1 ELSE 0
  /\ UNCHANGED <<hooked, proc, generation, abandoned>>

\* The launcher's process ends, its exit hooks first: `stop` for the current child.
End ==
  /\ running' = FALSE
  /\ doomed' = IF hooked THEN doomed \cup {proc} ELSE doomed
  /\ starters' = {} /\ watch' = {} /\ backoff' = {} /\ awaits' = {}
  /\ crossed' = crossed + IF starters # {} THEN 1 ELSE 0
  /\ UNCHANGED <<hooked, proc, generation, abandoned>>

GivenUp(s) == UNCHANGED backoff  \* mutant: said, and not retried

\* Who hears that a start failed: a supervisor pauses and tries again, a restart says so.
Retried(s) == backoff' = IF s.who = "supervisor" THEN backoff \cup {s.mine} ELSE backoff

\* startBackend throws: the child is gone, or has not bound its port in a minute.
Throws(s) ==
  /\ s \in starters
  /\ \/ status[s.child] = "dead" /\ UNCHANGED <<doomed, faults>>
     \/ /\ status[s.child] = "starting" /\ ~PortOpen
        /\ faults < MaxFaults /\ faults' = faults + 1
        /\ doomed' = doomed \cup {s.child}
  /\ starters' = starters \ {s}
  /\ Retried(s)
  /\ running' = (s.who # "first")
  /\ abandoned' = (abandoned \/ s.who = "restart")
  /\ UNCHANGED <<status, hooked, proc, generation, watch, awaits, relaunch, asks, crossed>>

\* One pass of superviseBackend: it stands down for an exit somebody asked for.
Pass(mine) ==
  IF mine # generation
  THEN UNCHANGED <<status, starters>>
  ELSE Spawn("supervisor", mine)

Exited(w) ==
  /\ w \in watch /\ status[w[1]] = "dead"
  /\ watch' = watch \ {w}
  /\ Pass(w[2])
  /\ UNCHANGED <<doomed, running, hooked, proc, generation, backoff, awaits, relaunch, faults, asks, crossed, abandoned>>

BackoffEnds(mine) ==
  /\ mine \in backoff
  /\ backoff' = backoff \ {mine}
  /\ Pass(mine)
  /\ UNCHANGED <<doomed, running, hooked, proc, generation, watch, awaits, relaunch, faults, asks, crossed, abandoned>>

-----------------------------------------------------------------------------
(* Restart, update, exit.                                                  *)

StopUncounted ==  \* mutant: the counter is left for the replacement to bump
  doomed' = doomed \cup {proc} /\ UNCHANGED generation

\* stop: the generation first, then the kill of whatever `proc` names.
Stop ==
  /\ generation' = generation + 1
  /\ doomed' = doomed \cup {proc}

\* Nothing looks at what is under way: a start, or another stop that is awaited.
Crosses == crossed' = crossed + IF starters # {} \/ awaits # {} THEN 1 ELSE 0

\* A frame on the keepalive socket, handled whenever it comes: stop, then wait until the
\* child is really gone (restart, and stopBackend of an update).
Asked(then) ==
  /\ running /\ hooked /\ asks < MaxAsks
  /\ asks' = asks + 1
  /\ Stop /\ Crosses
  /\ awaits' = awaits \cup {[on |-> proc, then |-> then, nr |-> asks']}
  /\ UNCHANGED <<status, running, hooked, proc, starters, watch, backoff, relaunch, faults, abandoned>>

SentSignal(a) == TRUE  \* mutant: kill() returned, and the port is still held

\* proc.exited: the kernel has reaped it, and its port is free.
ReallyGone(a) == status[a.on] = "dead"

RestartSpawns(a) ==
  /\ a \in awaits /\ a.then = "restart" /\ ReallyGone(a)
  /\ awaits' = awaits \ {a}
  /\ Spawn("restart", 0)
  /\ UNCHANGED <<doomed, running, hooked, proc, generation, watch, backoff, relaunch, faults, asks, crossed, abandoned>>

\* relaunch: the new build is started, detached, and this process exits.
UpdateExits(a) ==
  /\ a \in awaits /\ a.then = "update" /\ ReallyGone(a)
  /\ relaunch' = "looking"
  /\ End
  /\ UNCHANGED <<status, faults, asks>>

\* ensureBackend of the new build: it attaches to whatever listens on the port.
NewLooks ==
  /\ relaunch = "looking"
  /\ relaunch' = IF PortOpen THEN "attached" ELSE "fresh"
  /\ UNCHANGED <<status, doomed, running, hooked, proc, generation, starters, watch, backoff, awaits, faults, asks, crossed, abandoned>>

\* SIGINT, SIGTERM or SIGHUP, at any time.
Signalled ==
  /\ running
  /\ End
  /\ UNCHANGED <<status, relaunch, faults, asks>>

LauncherNext ==
  \/ \E c \in Children : Binds(c) \/ Dies(c) \/ Reaped(c)
  \/ \E s \in starters : Polled(s) \/ Throws(s)
  \/ \E w \in watch : Exited(w)
  \/ \E mine \in backoff : BackoffEnds(mine)
  \/ \E then \in {"restart", "update"} : Asked(then)
  \/ \E a \in awaits : RestartSpawns(a) \/ UpdateExits(a)
  \/ NewLooks \/ Signalled

Starts    == \E s \in starters : Polled(s) \/ Throws(s)
HasExited == \E w \in watch : Exited(w)
Resumes   == \E mine \in backoff : BackoffEnds(mine)
Continues == \E a \in awaits : RestartSpawns(a) \/ UpdateExits(a)

\* Timers fire, promises resolve and the kernel reaps; a child that does not fail binds.
LauncherFairness ==
  /\ \A c \in Children : WF_lvars(Binds(c)) /\ WF_lvars(Reaped(c))
  /\ WF_lvars(Starts) /\ WF_lvars(HasExited) /\ WF_lvars(Resumes) /\ WF_lvars(Continues)
  /\ WF_lvars(NewLooks)

LauncherSpec == LauncherInit /\ [][LauncherNext]_lvars /\ LauncherFairness

-----------------------------------------------------------------------------
(* What must hold.                                                         *)

\* The types; and whoever watches for the current generation watches the current child.
LauncherTypeOK ==
  /\ status \in [Children -> {"none", "starting", "listening", "dead"}]
  /\ doomed \subseteq Children /\ running \in BOOLEAN /\ hooked \in BOOLEAN
  /\ proc \in 0..MaxChildren /\ generation \in Nat
  /\ starters \subseteq Starter /\ watch \subseteq Children \X Nat /\ backoff \subseteq Nat
  /\ awaits \subseteq [on : Children, then : {"restart", "update"}, nr : Nat]
  /\ relaunch \in {"no", "looking", "attached", "fresh"}
  /\ faults \in 0..MaxFaults /\ asks \in 0..MaxAsks /\ crossed \in Nat /\ abandoned \in BOOLEAN
  /\ \A w \in watch : w[2] = generation => w[1] = proc

\* One backend that nobody is stopping; one more, at most, for each stop that found a
\* start or another stop in hand.
OneBackend == Cardinality(Owned) <= 1 + crossed

\* A launcher that ends leaves no backend behind, but for one for each such stop.
NoOrphan == ~running => Cardinality(Owned) <= crossed

\* The new build attaches to the backend it is there to replace only after such a stop.
CleanRelaunch == relaunch = "attached" => crossed > 0

\* A backend that dies, whatever of, is brought back for as long as the launcher runs,
\* unless a restart's own start has failed and no other has come up since.
ComesBack == []<>(PortOpen \/ ~running \/ abandoned)
=============================================================================
