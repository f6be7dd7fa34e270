---------------------------- MODULE SocketClient ----------------------------
(***************************************************************************)
(* The page's connection to its backend (class Backend of                  *)
(* web/src/lib/ws-client.ts): one WebSocket kept alive by a backoff that   *)
(* gives up and by wake-ups that do not, the requests pending on it, and   *)
(* the write token an outward request carries.  The backend mints a token  *)
(* per process and publishes it in one file, unless its launcher pinned    *)
(* it; a token is the number of the process that minted it.                *)
(***************************************************************************)
EXTENDS Integers, FiniteSets

CONSTANTS Presses,   \* the presses of outward actions (send, edit, react...)
          MaxProcs   \* bound: processes of the backend over a behaviour

ASSUME ProcsAssumption == MaxProcs \in Nat \ {0}

VARIABLES backend,       \* the running process, 0 when there is none
          procs,         \* how many there have been
          file,          \* the token the app's own server can read, 0 for none
          sock,          \* this.ws: its readyState, "dying" while its close event is queued
          peer,          \* the process the socket is connected to
          timer,         \* this.reconnectTimer is set
          reconnecting,  \* this.reconnecting
          failing,       \* this.firstFailureAt: unset, inside the give-up window, past it
          everConnected, \* this.everConnected
          closed,        \* this.closed
          lost,          \* backend_lost was the last word on the connection
          writeToken,    \* this.writeToken
          refresh,       \* tokens read for a reconnect and not handed over yet
          pending,       \* this.pending: the requests waiting for an answer
          wire,          \* requests the backend has not acted on
          answers,       \* answers on their way to the page
          phase,         \* where each writeRequest is
          presented,     \* its local `presented`
          performed,     \* how often the backend acted on each press
          steady         \* history: the file has named the running process since the press

link  == <<sock, peer, timer, reconnecting, failing, everConnected, closed, lost>>
calls == <<pending, wire, answers, phase, presented, performed>>
token == <<writeToken, refresh>>
procv == <<backend, procs, file>>
svars == <<link, calls, token, procv, steady>>

Socks    == {"none", "connecting", "open", "dying"}
Tokens   == 0..MaxProcs
Requests == Presses \X {1, 2}            \* a press's first request and its retry
Busy     == {"first", "fetching", "second"}
Phases   == Busy \cup {"idle", "done", "failed", "refused"}

SocketInit ==
  /\ backend \in {0, 1} /\ procs = backend /\ file \in {0, backend}
  /\ sock = "none" /\ peer = 0 /\ timer = FALSE /\ reconnecting = FALSE
  /\ failing = "no" /\ everConnected = FALSE /\ closed = FALSE /\ lost = FALSE
  /\ writeToken = file /\ refresh = {}
  /\ pending = {} /\ wire = {} /\ answers = {}
  /\ phase = [p \in Presses |-> "idle"]
  /\ presented = [p \in Presses |-> 0]
  /\ performed = [p \in Presses |-> 0]
  /\ steady = {}

-----------------------------------------------------------------------------
(* The socket.                                                             *)

SettleNothing ==  \* mutant: the callers are forgotten with the map that held them
  /\ pending' = {} /\ answers' = {}
  /\ UNCHANGED <<phase, wire, presented, performed>>

\* `p.reject(...)` for every pending request, then `pending.clear()`: no
\* rejection made here names the write token, so none of them is retried.
RejectPending ==
  /\ phase' = [p \in Presses |-> IF \E n \in {1, 2} : <<p, n>> \in pending
                                 THEN "failed" ELSE phase[p]]
  /\ pending' = {}
  /\ answers' = {}
  /\ UNCHANGED <<wire, presented, performed>>

OpenOver ==  \* mutant: the old socket's requests are left to their own devices
  sock' = "connecting" /\ peer' = 0 /\ UNCHANGED calls

\* openSocket: the old socket is dropped with its handlers, then a new handshake.
OpenSocket ==
  /\ sock' = "connecting"
  /\ peer' = 0
  /\ RejectPending

Connect ==
  /\ ~closed
  /\ OpenSocket
  /\ UNCHANGED <<timer, reconnecting, failing, everConnected, closed, lost, token, procv, steady>>

RetryKeepsFlag ==  \* mutant: the wake-up cancels the timer and not the flag
  /\ ~closed /\ sock # "open"
  /\ timer' = FALSE /\ failing' = "no"
  /\ OpenSocket
  /\ UNCHANGED <<reconnecting, everConnected, closed, lost, token, procv, steady>>

\* A wake-up: the tab is visible again, the network is back, the page is restored.
\* It is a no-op on an open socket, and on no other.
RetryNow ==
  /\ ~closed /\ sock # "open"
  /\ timer' = FALSE /\ reconnecting' = FALSE /\ failing' = "no"
  /\ OpenSocket
  /\ UNCHANGED <<everConnected, closed, lost, token, procv, steady>>

TimerFires ==
  /\ timer
  /\ timer' = FALSE /\ reconnecting' = FALSE
  /\ OpenSocket
  /\ UNCHANGED <<failing, everConnected, closed, lost, token, procv, steady>>

\* onopen.  A reopening makes the store read the token file again.
Opened ==
  /\ sock = "connecting" /\ backend # 0
  /\ sock' = "open" /\ peer' = backend
  /\ reconnecting' = FALSE /\ failing' = "no" /\ everConnected' = TRUE /\ lost' = FALSE
  /\ refresh' = refresh \cup (IF everConnected THEN {file} \ {0} ELSE {})
  /\ UNCHANGED <<timer, closed, calls, writeToken, procv, steady>>

\* The connection is gone and its close event is queued: readyState says so already.
SocketDies ==
  /\ sock \in {"connecting", "open"}
  /\ sock' = "dying" /\ peer' = 0
  /\ UNCHANGED <<timer, reconnecting, failing, everConnected, closed, lost, calls, token, procv, steady>>

\* onclose, with scheduleReconnect: an armed timer, or `backend_lost`.
CloseEvent ==
  /\ sock = "dying"
  /\ sock' = "none"
  /\ RejectPending
  /\ IF reconnecting
     THEN UNCHANGED <<timer, reconnecting, failing, lost>>
     ELSE /\ failing' = IF failing = "no" THEN "window" ELSE failing
          /\ timer' = (failing # "past")
          /\ reconnecting' = (failing # "past")
          /\ lost' = (failing = "past")
  /\ UNCHANGED <<peer, everConnected, closed, token, procv, steady>>

\* RECONNECT_GIVE_UP_MS pass since the first failure of the series.
WindowPasses ==
  /\ failing = "window"
  /\ failing' = "past"
  /\ UNCHANGED <<sock, peer, timer, reconnecting, everConnected, closed, lost, calls, token, procv, steady>>

Close ==
  /\ ~closed
  /\ closed' = TRUE
  /\ timer' = FALSE /\ reconnecting' = FALSE
  /\ sock' = "none" /\ peer' = 0
  /\ RejectPending
  /\ UNCHANGED <<failing, everConnected, lost, token, procv, steady>>

-----------------------------------------------------------------------------
(* The requests.                                                           *)

\* request: refused on the spot without an open socket, else sent.  A process
\* that is gone reads nothing: nobody answers on a socket that has not noticed.
Send(p, n, tok) ==
  IF sock = "open"
  THEN /\ pending' = pending \cup {<<p, n>>}
       /\ wire' = wire \cup (IF peer = backend THEN {[id |-> <<p, n>>, tok |-> tok]} ELSE {})
       /\ phase' = [phase EXCEPT ![p] = IF n = 1 THEN "first" ELSE "second"]
  ELSE /\ phase' = [phase EXCEPT ![p] = "failed"]
       /\ UNCHANGED <<pending, wire>>

\* writeRequest, with the token the page holds now.
Press(p) ==
  /\ phase[p] = "idle"
  /\ presented' = [presented EXCEPT ![p] = writeToken]
  /\ steady' = IF backend # 0 /\ file = backend THEN steady \cup {p} ELSE steady
  /\ Send(p, 1, writeToken)
  /\ UNCHANGED <<link, answers, performed, token, procv>>

\* dispatch: the write lock first, and nothing is done for a token it refuses.
Handle(r) ==
  /\ r \in wire
  /\ wire' = wire \ {r}
  /\ performed' = IF r.tok = backend THEN [performed EXCEPT ![r.id[1]] = @ + 1] ELSE performed
  /\ answers' = IF r.id \in pending
                THEN answers \cup {[id |-> r.id, ok |-> r.tok = backend]} ELSE answers
  /\ UNCHANGED <<link, token, procv, steady, pending, phase, presented>>

\* The connection's task is dropped with the handlers it was running.
Drop(r) ==
  /\ r \in wire
  /\ wire' = wire \ {r}
  /\ UNCHANGED <<link, token, procv, steady, pending, answers, phase, presented, performed>>

\* onMessage, for an answer, and writeRequest's catch for the first refusal.
Answered(a) ==
  /\ sock = "open" /\ a \in answers
  /\ answers' = answers \ {a}
  /\ pending' = pending \ {a.id}
  /\ phase' = [phase EXCEPT ![a.id[1]] = IF a.id \notin pending THEN @
                                         ELSE IF a.ok THEN "done"
                                         ELSE IF a.id[2] = 1 THEN "fetching" ELSE "refused"]
  /\ UNCHANGED <<link, token, procv, steady, wire, presented, performed>>

RefetchedAgainstHeld(p) ==  \* mutant: compares with this.writeToken, not `presented`
  /\ phase[p] = "fetching"
  /\ \E fresh \in {0, file} :
       /\ fresh = 0 => p \notin steady
       /\ writeToken' = IF fresh = 0 THEN writeToken ELSE fresh
       /\ IF fresh \in {0, writeToken}
          THEN phase' = [phase EXCEPT ![p] = "refused"] /\ UNCHANGED <<pending, wire>>
          ELSE Send(p, 2, fresh)
  /\ UNCHANGED <<link, answers, presented, performed, refresh, procv, steady>>

\* retryWithAFreshToken: the token source answers, or does not, and only a token
\* that changed is presented, once.
Refetched(p) ==
  /\ phase[p] = "fetching"
  /\ \E fresh \in {0, file} :
       /\ fresh = 0 => p \notin steady          \* the app's own server answers
       /\ writeToken' = IF fresh = 0 THEN writeToken ELSE fresh
       /\ IF fresh \in {0, presented[p]}
          THEN /\ phase' = [phase EXCEPT ![p] = "refused"]
               /\ UNCHANGED <<pending, wire>>
          ELSE Send(p, 2, fresh)
  /\ UNCHANGED <<link, answers, presented, performed, refresh, procv, steady>>

TimesOutRetried(r) ==  \* mutant: a timeout is retried as if it were a refusal
  /\ r \in pending
  /\ pending' = pending \ {r}
  /\ phase' = [phase EXCEPT ![r[1]] = IF r[2] = 1 THEN "fetching" ELSE "failed"]
  /\ UNCHANGED <<link, token, procv, steady, wire, answers, presented, performed>>

\* REQUEST_TIMEOUT_MS, and the longer ceilings of pictures and agent runs.
TimesOut(r) ==
  /\ r \in pending
  /\ pending' = pending \ {r}
  /\ phase' = [phase EXCEPT ![r[1]] = "failed"]
  /\ UNCHANGED <<link, token, procv, steady, wire, answers, presented, performed>>

\* loadWriteToken after a reconnect: the answer may be older than one read since.
TokenArrives(t) ==
  /\ t \in refresh
  /\ refresh' = refresh \ {t}
  /\ writeToken' = t
  /\ UNCHANGED <<link, calls, procv, steady>>

-----------------------------------------------------------------------------
(* The backend's processes.                                                *)

\* The new process publishes its token, or was given a pinned one, which is in no file.
Starts ==
  /\ backend = 0 /\ procs < MaxProcs
  /\ procs' = procs + 1 /\ backend' = procs + 1
  /\ file' \in {file, procs + 1}
  /\ steady' = {}
  /\ UNCHANGED <<link, calls, token>>

\* Its work in hand goes with it, wherever each piece was.
Dies ==
  /\ backend # 0
  /\ backend' = 0 /\ wire' = {} /\ steady' = {}
  /\ UNCHANGED <<link, token, procs, file, pending, answers, phase, presented, performed>>

CallsNext ==
  \/ \E p \in Presses : Press(p) \/ Refetched(p)
  \/ \E r \in wire : Handle(r) \/ Drop(r)
  \/ \E a \in answers : Answered(a)
  \/ \E r \in pending : TimesOut(r)
  \/ \E t \in refresh : TokenArrives(t)
  \/ Starts \/ Dies

LinkNext ==
  \/ Connect \/ RetryNow \/ TimerFires \/ Opened
  \/ SocketDies \/ CloseEvent \/ WindowPasses \/ Close

SocketNext == CallsNext \/ LinkNext

\* A timer fires, a queued event is dispatched, a fetch is answered or fails: the
\* browser's event loop.  Nothing is assumed of the network or of the backend.
SocketFairness ==
  /\ WF_svars(TimerFires)
  /\ WF_svars(CloseEvent)
  /\ \A p \in Presses : WF_svars(Refetched(p)) /\ \A n \in {1, 2} : WF_svars(TimesOut(<<p, n>>))

SocketSpec == SocketInit /\ [][SocketNext]_svars /\ SocketFairness

-----------------------------------------------------------------------------
(* What must hold.                                                         *)

SocketTypeOK ==
  /\ backend \in Tokens /\ procs \in Tokens /\ file \in Tokens
  /\ sock \in Socks /\ peer \in Tokens
  /\ timer \in BOOLEAN /\ reconnecting \in BOOLEAN /\ failing \in {"no", "window", "past"}
  /\ everConnected \in BOOLEAN /\ closed \in BOOLEAN /\ lost \in BOOLEAN
  /\ writeToken \in Tokens /\ refresh \subseteq Tokens
  /\ pending \subseteq Requests /\ wire \subseteq [id : Requests, tok : Tokens]
  /\ answers \subseteq [id : Requests, ok : BOOLEAN]
  /\ phase \in [Presses -> Phases] /\ presented \in [Presses -> Tokens]
  /\ performed \in [Presses -> {0, 1}] /\ steady \subseteq Presses

\* No request waits on a socket that can no longer answer it: a press in hand is
\* on an open socket, on one whose close event will reject it, or reading a token.
NothingOrphaned ==
  \A p \in Presses : phase[p] \in {"first", "second"} =>
    /\ \E n \in {1, 2} : <<p, n>> \in pending
    /\ sock \in {"open", "dying"}

\* The client never falls silent: without a socket it has a retry armed, or has
\* said that the backend is lost, or was closed, or has not begun.
NeverSilent ==
  sock = "none" => \/ timer \/ lost \/ closed
                   \/ failing = "no" /\ ~everConnected

\* A press made while the token file names the running process is not refused for
\* its token, as long as that process runs, whatever stale token the page held and
\* whichever of its reads answers last.
TheFileHeals == \A p \in Presses : phase[p] = "refused" => p \notin steady

\* Each press is performed at most once and answered once (module Calls).
ToldOf(p) == CASE phase[p] = "idle" -> "unpressed"
               [] phase[p] \in Busy -> "waiting"
               [] phase[p] = "done" -> "done"
               [] OTHER -> "failed"

C == INSTANCE Calls WITH told <- [p \in Presses |-> ToldOf(p)],
                         performed <- performed

ImplementsCalls == C!Spec

\* Every press is answered in the end.
EveryPressSettles ==
  \A p \in Presses : (phase[p] \in Busy) ~> (phase[p] \in {"done", "failed", "refused"})
=============================================================================
