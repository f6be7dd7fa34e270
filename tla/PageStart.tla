----------------------------- MODULE PageStart -----------------------------
(***************************************************************************)
(* What the store does with its connection (start, wireEvents and          *)
(* handleLiveRecovery of web/src/lib/store.ts): the first loading of the   *)
(* lists, the splash that hides the page until it has ended one way or the *)
(* other, and the re-reading of everything after a drop, because what      *)
(* happened meanwhile was announced to nobody.                             *)
(***************************************************************************)
EXTENDS SocketClient

VARIABLES start,    \* where start() is
          mine,     \* the socket in place carries start()'s callbacks
          ready,    \* state.ready: the page is shown
          dropped,  \* connectionDropped
          fatal,    \* state.fatal: the "Backend lost" overlay
          loading,  \* the requests of a loading are in hand
          synced,   \* history: the lists were read since the last drop
          deaf,     \* history: the handshake start() waits for was replaced before its end
          missed    \* history: why nobody reads the lists again (Causes), since the last
                    \* drop the page was told of or the last reading it began

past  == <<synced, deaf, missed>>
page  == <<start, mine, ready, dropped, fatal, loading, past>>
pvars == <<svars, page>>

\* The socket was replaced before its close event, opened before the page was shown or
\* opened for the first time without start(), or the reading failed.
Causes == {"unheard", "early", "first", "failed"}

StartPhases == {"token", "connecting", "loading", "failed", "done", "empty"}

PageInit ==
  /\ SocketInit
  /\ start = "token" /\ mine = FALSE /\ ready = FALSE /\ dropped = FALSE
  /\ fatal = FALSE /\ loading = FALSE /\ synced = FALSE
  /\ deaf = FALSE /\ missed = {}

LoadingLeft == UNCHANGED <<start, ready, loading>>  \* mutant: left waiting on a dead socket

\* The requests in hand are rejected with the socket; loadConversations swallows
\* that, so the first loading ends and shows the page over empty lists.
LoadingRejected ==
  /\ loading' = FALSE
  /\ IF loading /\ start = "loading"
     THEN start' = "done" /\ ready' = TRUE
     ELSE UNCHANGED <<start, ready>>

\* start: the wake-ups are watched before the token is read, the socket opened after,
\* in the place of one that a wake-up may have opened meanwhile.
StartConnects ==
  /\ start = "token"
  /\ Connect
  /\ start' = "connecting" /\ mine' = TRUE
  /\ UNCHANGED <<ready, dropped, fatal, loading, past>>

\* A socket replaced under the page: its handlers are gone, start()'s among them.
Replaced ==
  /\ TimerFires \/ RetryNow
  /\ mine' = FALSE
  /\ LoadingRejected
  /\ deaf' = (deaf \/ (mine /\ start = "connecting"))
  /\ synced' = (synced /\ sock \notin {"open", "dying"})
  /\ missed' = missed \cup (IF sock \in {"open", "dying"} THEN {"unheard"} ELSE {})
  /\ UNCHANGED <<dropped, fatal>>

\* onopen: `reconnected` unless it is the first, then start()'s own callback.
SocketOpened ==
  /\ Opened
  /\ LET recover == everConnected /\ dropped /\ ready
     IN  /\ dropped' = (dropped /\ ~everConnected)
         /\ fatal' = (fatal /\ ~everConnected)
         /\ loading' = (mine \/ recover)
         /\ start' = IF mine THEN "loading" ELSE start
         /\ missed' = IF mine \/ recover THEN {}
                      ELSE missed \cup (IF ~everConnected THEN {"first"} ELSE {})
                                  \cup (IF everConnected /\ ~ready THEN {"early"} ELSE {})
  /\ UNCHANGED <<mine, ready, synced, deaf>>

ClosedUnheard ==  \* mutant: nobody tells start() that its handshake failed
  /\ CloseEvent
  /\ dropped' = TRUE /\ synced' = FALSE /\ missed' = {} /\ mine' = FALSE
  /\ fatal' = (fatal \/ lost')
  /\ LoadingRejected
  /\ UNCHANGED deaf

ClosedUnmarked ==  \* mutant: the drop is not remembered
  /\ CloseEvent
  /\ synced' = FALSE /\ missed' = {} /\ mine' = FALSE
  /\ fatal' = (fatal \/ lost')
  /\ IF mine /\ start = "connecting"
     THEN start' = "failed" /\ UNCHANGED <<ready, loading>>
     ELSE LoadingRejected
  /\ UNCHANGED <<dropped, deaf>>

\* onerror for a handshake start() waits for, then onclose.
SocketClosed ==
  /\ CloseEvent
  /\ dropped' = TRUE /\ synced' = FALSE /\ missed' = {} /\ mine' = FALSE
  /\ fatal' = (fatal \/ lost')
  /\ IF mine /\ start = "connecting"
     THEN start' = "failed" /\ UNCHANGED <<ready, loading>>
     ELSE LoadingRejected
  /\ UNCHANGED deaf

\* The empty page is revealed a beat after a start that failed.
Revealed ==
  /\ start = "failed"
  /\ start' = "empty" /\ ready' = TRUE
  /\ UNCHANGED <<svars, mine, dropped, fatal, loading, past>>

\* A loading is over: the first one shows the page, whatever came of it.
LoadingEnds ==
  /\ loading
  /\ loading' = FALSE
  /\ IF start = "loading" THEN start' = "done" /\ ready' = TRUE
                          ELSE UNCHANGED <<start, ready>>
  /\ UNCHANGED <<svars, mine, dropped, fatal, deaf>>

Connected == sock = "open" /\ peer = backend /\ backend # 0

\* The backend answers: the lists are those of now.
Loaded ==
  /\ Connected /\ LoadingEnds
  /\ synced' = TRUE
  /\ UNCHANGED missed

\* A read is refused, fails, or is given up after REQUEST_TIMEOUT_MS: the lists stay
\* as they are, and nothing asks again.
LoadFails ==
  /\ LoadingEnds
  /\ missed' = missed \cup {"failed"}
  /\ UNCHANGED synced

\* realtime_status, from the backend's own feed: its drop counts as one of the
\* connection, and its return makes the page read again.
FeedLost ==
  /\ Connected
  /\ dropped' = TRUE
  /\ UNCHANGED <<svars, start, mine, ready, fatal, loading, past>>

FeedBack ==
  /\ Connected
  /\ dropped' = FALSE
  /\ loading' = (loading \/ (dropped /\ ready))
  /\ missed' = IF dropped /\ ready THEN {} ELSE missed
  /\ UNCHANGED <<svars, start, mine, ready, fatal, synced, deaf>>

PageNext ==
  \/ StartConnects \/ Replaced \/ SocketOpened \/ SocketClosed \/ Revealed
  \/ Loaded \/ LoadFails \/ FeedLost \/ FeedBack
  \/ (SocketDies \/ WindowPasses \/ CallsNext) /\ UNCHANGED page

\* A handshake nothing answers is ended by the browser.
HandshakeFails == sock = "connecting" /\ SocketDies /\ UNCHANGED page

\* The browser's timers and events: the first token is read or fails, a handshake
\* ends, a queued close event is dispatched, a read is answered or given up.
PageFairness ==
  /\ WF_pvars(StartConnects) /\ WF_pvars(HandshakeFails) /\ WF_pvars(SocketClosed)
  /\ WF_pvars(Revealed) /\ WF_pvars(LoadFails)

PageSpec == PageInit /\ [][PageNext]_pvars /\ PageFairness

-----------------------------------------------------------------------------
\* The types; and a loading is in hand only on a socket that can answer or reject it.
PageTypeOK ==
  /\ SocketTypeOK
  /\ start \in StartPhases /\ mine \in BOOLEAN /\ ready \in BOOLEAN /\ dropped \in BOOLEAN
  /\ fatal \in BOOLEAN /\ loading \in BOOLEAN /\ synced \in BOOLEAN
  /\ deaf \in BOOLEAN /\ missed \subseteq Causes
  /\ loading => sock \in {"open", "dying"}

\* The page is shown sooner or later: with its lists, or empty over a status that
\* says why.  One thing keeps the splash for ever, and nothing else: the handshake
\* start() waits for is replaced, by a wake-up or by a wake-up's timer.
PageShows == <>(ready \/ deaf)

\* A page that is shown over an open connection holds lists read since the last drop,
\* or is reading them, whatever it missed meanwhile.  It shows what is gone for one of
\* four causes, and no other: it was never told of the drop, it was not shown yet when
\* the connection came back, the first connection to open was not start()'s, or the
\* reading itself failed.
ReadAgain == sock = "open" /\ ready => loading \/ synced \/ missed # {}
=============================================================================
