# Verification of teams-lite

teams-lite is a Microsoft Teams client: a Rust backend that keeps a live connection to the service and
a SQLite store, a web app that talks to the backend over a local WebSocket, and a launcher that starts
both. This directory models the parts of it in which several actors share state (backends on one store,
tasks that read before a network call and write after it, a page and the backend that feeds it) in TLA+,
checks them with TLC on small instances, and proves what matters most with TLAPS for every instance.

The component models:

| Model | What it covers | Composed with |
| --- | --- | --- |
| `LiveFeed` | live messages stored, then claimed and acted on (push, local agent) by one of several backends | |
| `AgentRun` | one reply of the local agent, its record in the store, the repair of replies a restart killed | starts where `LiveFeed`'s claim of a trigger ends |
| `History` | how far back the store knows a thread | |
| `HistoryView` | the page that reads the thread | extends `History`: one state machine, each backend step with what it tells the page |
| `SocketClient` | the page's connection: back-off, wake-ups, pending requests, the write token and its retry | implements `Calls` |
| `PageStart` | the first load, the splash, and the recovery after a drop | extends `SocketClient` |
| `Composer` | the words of a message: field, drafts, sends, scheduled messages | |
| `Chess` | a game played by rewriting one message per player | |
| `BrokerRepair` | the repair of the sign-in container, and what each backend tells its page of it | |
| `Launcher` | the process that owns the backend: supervision, restart, update, exit | |

`LiveFeedProofs`, `AgentRunProofs`, `HistoryProofs` (with `HistoryView`), `SocketClientProofs` (with
`PageStart`), `BrokerRepairProofs`, `LauncherProofs`, `ComposerProofs` and `ChessProofs` hold the theorems,
the `MC*` modules the small instances.
Run `tlc -config MCLiveFeed.cfg MCLiveFeed` or `tlapm LiveFeedProofs.tla` in this directory.


## 1. Inventory of the system

Paths are under `src/`; `server.rs` is `src/bin/server.rs`. A part marked with a model is modelled as far
as its note in `PROJECT.json` says, and that note lists what is left out.

| Part | State | Operations and interactions | What is hard | What makes it correct | |
| --- | --- | --- | --- | --- | --- |
| live feed (`spawn_realtime` in `server.rs`, `push_policy.rs`, `agent_policy.rs`) | messages table; `push_deliveries` claims | a frame from trouter is stored, broadcast to the pages, put to two policies, claimed, acted on in a task | several backends on one store; frames repeated, late, edited; kills; pruning | a message is acted on at most once, and a fresh one once | `LiveFeed` |
| agent runs (`agent_reply`, `repair_abandoned_agent_runs`) | `agent_runs` table; one task per run | placeholder, record, beats, progress edits, last edit, row deleted; a sweep every 30 s closes what died | crash between any two steps; two sweepers; retries; two clocks | nothing left frozen, no live run closed, an answer stays | `AgentRun` |
| thread history (`teams_read.rs`, "open" and "backfill") | messages; `oldest_cursor`, `has_more_older` per conversation row | background refresh of the newest page; older pages from the cursor; live ingestion | cursor read, page awaited, cursor moved by another handler meanwhile | no gap above the recorded frontier | `History` |
| reading a thread (`web/src/lib/store.ts`, `protocol.ts`) | session cache per thread, `hasMoreOlder`, `loadingOlder` | open, merge by id, trim, evict, scroll, reconcile | answers that arrive after the reader moved on; lost feed | scrolling shows everything; "no more" is true | `HistoryView` |
| web socket client (`ws-client.ts`) | the socket, pending requests, back-off and its deadline, write token | connect, request, time out, retry a refused write once, wake up, give up, close | a socket dying under its requests; wake-ups while it does; a backend that restarts with another token | every press settles once; never silent; one socket | `SocketClient` |
| the page's start and recovery (`store.ts`) | ready, dropped, fatal; the loading in hand | load the lists, show the page, read everything again after a drop | the first connection dies at any point; a drop during a recovery | the page is shown; what was missed is read | `PageStart` |
| sending and scheduling (`store.ts`, `composer.tsx`, `rich-editor.tsx`, `schedule-send.ts`) | draft per conversation and its timer; the field; sends in flight; scheduled messages | type, navigate, send, schedule, cancel, send now, edit | the answer of a send finds a field that was edited or left; saves behind clears | no word is lost, doubled, or in another conversation | `Composer` |
| chess (`chess_wire.rs`, `chess-*.ts`) | one ledger message per player; the move drawn before it lands | fold of all ledgers; every act rewrites one's own | two rewrites of one message cross; two colleagues accept at once | every page folds to one game; seat, moves and a resignation stand | `Chess` |
| broker container repair (`intune.rs`, `server.rs`) | floor in the store, transient unit, followers, what each page shows | automatic and pressed repairs; each backend follows the one that runs | a claim before a start that fails; followers that overlap; drops and restarts | automatic repairs keep their distance; pages see a repair while it runs and its end | `BrokerRepair` |
| launcher, restart and update (`launcher/src/`, `restart.rs`) | the child, a generation counter, exit hooks | start, supervise, restart, hand over to a new build, exit | a deliberate stop looks like a crash; a killed child keeps its port | one backend, none left behind, a dead one comes back | `Launcher` |
| message rows (`store.rs`, `insert_message`) | one row per message | upsert merges columns, each by its own rule | versions out of order; flags learned and never unlearned | the row converges to the newest version | versions only |
| push delivery (`deliver_push`, `push.rs`) | `push_subscriptions` | one POST per device; gone devices dropped, the outcome recorded | one device of several fails | each device is told at most once and a dead one is dropped | as one step |
| retry and credentials (`retry.rs`, `auth.rs`) | token cache | classify, refresh, back off | a creation whose answer is lost | a creation happens once | its effect on the agent's send |
| trouter (`trouter.rs`, `trouter_events.rs`) | connection, registration | connect, ping, reconnect with back-off | frames lost while down | every outage is announced | as `Disconnect`, `Reconnect` |
| list sync (`sync_csa_bg`) | in-flight flag and floor; conversations, channels | snapshot fetched, stored, rows healed | a snapshot older than the live feed's rows | the list never loses a chat | planned |
| sign-in (`signin.rs`, `xwindow.rs`) | one session slot, its helper process | start, watch, cancel | a helper that outlives the backend | at most one window, always released | planned |
| calls (`calling.rs`, `call.ts`) | one call slot, signalling state | place, ring, answer, hang up, share | late frames of an ended call; awaits in handlers | a frame changes only the call it names | planned |
| the backend's half of an update (`update.rs`) | update slot, phases | check, download, apply | timers that judge a later phase | an update never spins forever | planned |
| read state, presence, activity | polled snapshots | replace whole | little | | later |
| mail and calendar | windows of a remote mailbox | replace whole | paging through a moving window | | later |
| GitLab, Linear | short-lived caches | request and answer | little state | | not planned |
| pets (`pet_wire.rs`, `pet-thread.ts`) | as chess, with a smaller fold | | | | after chess |
| sealed conversations (`seal.rs`, `openpgp.rs`) | key generations per chat | announce, rotate, open | a generation used before it arrived | every message opens under the generation it names | planned; cryptography no |
| agent policy, personas, markdown; cards, avatars, previews | none | conversions of text | none a model tells apart | unit tests | not modelled |
| user interface, web server relay, mock, packaging, examples | none of the program's own | presentation, I/O | | | not modelled |

`PROJECT.json` lists the same parts with their files, and the hazards at their lines.

### How the parts interact

    Teams service --frames--> trouter --> spawn_realtime --insert_message--> messages table
                                              |  (inserted or changed?)
                                              |--> broadcast "message" to the pages
                                              |--> push policy  --claim_once--> deliver_push
                                              '--> agent policy --claim_once--> agent_reply --> agent_runs
    page --"open"-----> newest_messages, then a background refresh --persist_page--> messages, frontier
    page --"backfill"-> messages_before, else a page from the service --persist_backfill_page--> same
    page --writeRequest + token--> dispatch (write lock) --> the service;  token file <-- each new backend
    page --set_draft--> drafts            page --"repair"--> start_broker_repair --> one unit per machine
    launcher --spawns, supervises, stops--> backend --"restart"/"update" frame--> launcher

Several backends (the installed service, one run from a checkout, a read-only one for tooling) do all of
this on one store and one wall clock; each has its own trouter connection, so each gets every frame.


## 2. From code to model

Every definition that stands for code has an entry under `map` in `PROJECT.json` with its lines. What a
step is: a stretch of code between two awaits or between two store calls another process can see. One SQLite
statement is atomic, two are not, and nothing is assumed about the order of tasks.

**LiveFeed.** `stored` is the messages table (which version of each message), `claims` the
`push_deliveries` table, `hand[b]` the frame that backend `b`'s loop is in the middle of, `tasks` the
spawned actions. The loop is cut where another backend may come between: `Ingest` (the insert and its
"changed" answer), `AskPolicy` (settings, surface and age), `ClaimOnce`, and `Act`. `IngestFails` is
the `unwrap_or(false)` of the loop, `ClaimFails` a claim answered with an error, `Crash` a kill that takes
the frame and the tasks with it, `Boot` the pruning of `prepare_store`, `PersistPage` a history page
stored by the same insert. A frame may be of any version posted so far, in any order, any number of times.
The text rules of the policies (mentions, mutes, trigger syntax) are data: `Triggers` says which policy a
message concerns, since the sender decides that and no message concerns both. `RequestFails` is the agent's
claim that is kept although its run could not be prepared. `heard` and `excused` are history: what an able
backend was handed while it was fresh, and what a kill, a failing call, a setting, a slow hand or a row made
by somebody else may have kept from being acted on.

**AgentRun.** `at[r]` is how far the task of run `r` got, `body[r]` what its message shows, `rows[r]` its
`agent_runs` heartbeat, `quiet`, `todo` and `held` the locals of one sweep. A send, an edit, a store call
each have their failure as an alternative, a beat included; `SendIsLost` is the retried placeholder and
`SendFails` may leave one that nobody records. Nothing ties the clock to the tasks: a beat, a last edit, a
whole process may be late by any time (a suspended laptop is one way). `held` keeps the heartbeat as it was
listed, because that is what a failed repair puts back. `beat[r]` is history, the last sign of life the
table was given; `lost` are the runs whose row was never written, or was lost by the sweep that took it.

**History.** Messages are numbered by time. `cursor` and `more` are the two columns of the thread's row;
`refreshes` and `pulls` are the handlers between their read, their request and their store call, each
with what it read. Control frames count in the raw page, from which the cursor and "is there more" come,
and are not stored. `Channel` selects a thread with no row, for which the column updates change nothing.
An answer is the service's page at the moment of `RefreshFetch` or `PullFetch`; it is stored later.

**HistoryView** extends `History` with the page: `cache` is its session cache of the thread, `canPage`
and `loading` the two flags of the pane, `inbox` the socket, in order. Every step of `History` is
conjoined with what it tells the page, so a behaviour of `ViewSpec` is one of `Spec` with more variables.
`Reconcile` is what recovery of the feed makes the page do: the request that opens a thread, again.
Nothing keeps the reader in a thread while an older page is on its way: `strayed` says that one has outlived
the visit that asked for it, `misled` that the page was told "nothing older" by such a page, or the store by
a refresh with an older page on its way from the network.

**SocketClient** is class `Backend` of `ws-client.ts`, one action per handler. `sock` adds `"dying"` to the
states of a WebSocket: the connection is gone, `readyState` says so, and the close event is still queued,
which is where wake-ups, reconnections and requests meet. `pending`, `wire` and `answers` are one request at
its three places; `phase[p]` is where the `writeRequest` of press `p` stands. A token is the number of the
process that minted it, `file` the file a backend publishes it in; a pinned token is in no file. A wake-up
(`RetryNow`) comes at any moment and looks at `connected` only, as the code does. `failing` abstracts the
clock of the back-off to the two sides of its deadline. The mapping to **Calls**, what a press is owed by any
transport (performed at most once, answered once, success only of what was performed), forgets everything but
`phase` and `performed`.

**PageStart** extends it with the store's callbacks: each action conjoins a step of `SocketClient` with what
`start()`, `wireEvents` and `handleLiveRecovery` do in it. `mine` says whether the socket in place still
has the callbacks `start()` gave it, because a wake-up replaces the socket and drops them. A loading ends with
the lists read (`Loaded`) or not (`LoadFails`: refused, failed or timed out, which `loadConversations`
swallows). `FeedLost` and `FeedBack` are the backend's own `realtime_status`. `deaf` and `missed` are
history: the handshake `start()` waits for was replaced; why nobody reads the lists again.

**Composer.** A text is the set of its words, each written once, so a word that is lost, doubled or in the
wrong place can be told. `route` (the URL) and `open` (the store's conversation) differ between a
navigation and the effect that follows it (`Reconcile`); `unsaved` are the armed timers of drafts,
`saves` the requests they sent; a flight remembers the draft as submitted and whether the field it left is
still mounted (`here`). `Landed` is the answer of a send with everything it changes: the draft cleared if it
is what was submitted, then the sent words taken out of the field. `Saved` takes any request on its way,
because the backend handles them concurrently, and may fail. The history `home` says where each word was
written and `dropped` what the reader took out; `replaced` and `strayed` are the words an edit of a scheduled
message wrote over, or carried to another conversation; `amiss` the conversations whose last save failed or
was overtaken.

**Chess.** `thread` is what the service holds, `seen[p]` what the page of `p` was delivered of it, `game[p]`
the fold of that. A ledger's moves are the set of plies it claims. `Opponent`, `Applied`, `Settlements`
and `Before` are the fold of `chess-thread.ts` as set expressions; every act rewrites the player's own
ledger from what their page holds. Publishes land, fail, or are reported as failed and land later, and a
player may press again whenever the card offers it. `crossed` is history: the players whose last act was
pressed before everything of theirs had landed and come back (`Clear`).

**BrokerRepair.** `asks` are calls of `start_broker_repair`, cut at its awaits (is a repair running, is
the keyring locked, claim the floor, start the unit); `followers` the tasks that watch a unit for one backend;
`unit` the one the manager of the machine runs. A token call beside a repair finds the broker gone or,
its call dropped, what looks like a locked keyring (`Found`); a follower may lose track of its unit
(`Watched`). `state[b]` is how the last token call of `b` went,
`page[b]` what its page shows. `claimed` and `uncorrected` are history: the last claim, and the pages whose
last greeting was silent.

**Launcher.** `status` and `doomed` are the children as the kernel sees them; a child that was sent
`SIGKILL` listens until it is reaped. `starters`, `watch`, `backoff` and `awaits` are the async functions of
the launcher, each at the await it is suspended in, with the child and the generation it captured. A frame
(`Asked`) and a signal (`Signalled`) come at any moment; the exit hooks exist from the first start on
(`hooked`). `crossed` counts the stops that found a start or another stop in hand; `abandoned` says that a
restart's own start has failed and nothing has come up since.

## 3. What the runs check

| Run | Question | States | Result |
| --- | --- | --- | --- |
| `live_feed` | Can two backends act twice on one message; is a claim pruned too early; is anything missed but for a named cause? | 1.75 million | holds |
| `live_feed_settled` | With no fault and nobody reading history, is every fresh message acted on? | 85 711 | holds |
| `agent_run` | Is a row in one sweeper's hands, taken only after a silence, and every run that died closed unless its row was lost? | 482 348 | holds |
| `history_view` | Is there ever a gap above the frontier, or "nothing older" shown where there is something older, but for two named causes? | 2.82 million | holds |
| `history_view_reading` | Does a reader who scrolls see the whole thread? | 769 | holds |
| `socket_calls` | Is a request ever orphaned, done twice, left unanswered, or refused for a token the file could have replaced; can the client fall silent? | 250 971 | holds |
| `page_start` | Is the page shown unless its first handshake is replaced, and what a drop hid read again unless for a named cause? | 22 247 | holds |
| `chess` | Do the seat, the moves and a resignation stand in every order of publishing and delivery, but for a player whose own acts cross? | 707 334 | holds |
| `composer` | Is a word ever lost, or in another conversation's draft, but by a message taken back; does the store end with the page's draft unless its last save went wrong? | 2.55 million | holds |
| `composer_across` | And is a word ever in another conversation's draft at all? | stops early | violated |
| `broker_repair` | Do automatic repairs keep their distance; does a page show a repair exactly while one is followed? | 3.38 million | holds |
| `launcher` | Are there ever more backends, or more left behind, than one for each stop that found a start in hand; does a dead one come back? | 203 946 | holds |

`composer` and `history_view` take about two minutes, `live_feed` and `broker_repair` more than one, every
other run less.

**Exceptions are history, not guards.** No constant of a model switches off a step the code can take. Where
the code does break what one would wish for, a history variable records the very step at which it can
(`excused`, `lost`, `misled`, `deaf`, `missed`, `crossed`, `abandoned`, `replaced`, `strayed`, `amiss`,
`uncorrected`), the property says that nothing else breaks it, and section 4 says what the exception is. The
run walks the exceptional states as well, and the theorem is about them too. Two runs about progress,
`live_feed_settled` and `history_view_reading`, leave faults out (`SettledSpec`, `ReadingSpec` and their bounds),
and say so.

Each property of a passing run is also tried against a changed definition, a plausible slip in the code
(the claim decided in memory instead of in the table, one key for a whole chat, a cutoff without its minute,
a full page judged by what is displayed, requests of a replaced socket forgotten, a timeout retried like a
refusal, a handshake whose failure nobody hears, the newest acceptance read as the first, a ledger that keeps
only its last move, the whole field cleared by the answer of a send, the floor moved by machines only, a stop
that does not count, hooks that captured the first child); TLC finds every one of them.

### Bounds, and why they are enough

- *LiveFeed.* Two able backends, because the races are between two, and a read-only one that ingests as
  they do; two kills. One message for the safety run (claims of different messages do not meet;
  `live_feed_settled` has two, one per policy, to see that they do not block each other). `MaxEdits` 1 gives
  two versions, enough for every order and every answer of the insert. Ages 1, retention 3 and stall 1 are the
  smallest numbers that keep `RetentionAssumption` tight, so a claim taken at the last fresh instant is pruned
  and its message is asked about again within `MaxTime` 6. `Skew` 1 lets a compose time be ahead of the
  machine.
- *AgentRun.* Two backends and one run, since runs do not touch each other's rows; two kills, so that the
  repairer of a dead run can die too, two failed calls, so that an edit and the putting back of its row can
  both fail, and time to list, take, put back and take again. `AbandonedAfter` 2 stands for 60 s. The
  theorems have any number of runs.
- *HistoryView.* Pages of one message and a trim to one, the smallest sizes at which a trim, an eviction and
  a page boundary differ; a thread that begins with three messages, two openings, one outage, one echo, a
  control frame at a page's edge. `Small` bounds the handlers under way by three (two of them race, and a third
  arrives on what they left) and the socket by three notices. The theorem has pages and threads of any size.
  In `history_view_reading` pages of two in a thread of five, two of them control frames, and one opening
  without outage or echo.
- *SocketClient.* Two presses, which share one token and one socket, and two processes, so that a token is
  replaced under a press. Everything about the socket itself is finite and unbounded in length.
- *PageStart.* No presses (they do not touch the page's start), two processes; reads fail and sockets die
  any number of times. `PageTypeOK` has `SocketTypeOK` as a conjunct, so this run checks the socket's types.
- *Chess.* Three colleagues, because two must be able to answer one challenge; three plies, so that a
  player moves twice and a whole rewrite could lose a move; four publishes. The challenger has White in the
  run (`Colors`); the other colour swaps who moves first. The theorems have both.
- *Composer.* Two conversations, two words, two sends: a word sent and one typed meanwhile, or one left
  elsewhere. `FewSaves` bounds the saves on their way by two.
- *BrokerRepair.* Two interchangeable backends, two repairs (one followed late while the next runs), two
  requests at a time, one fault, and a clock that outlives one interval twice.
- *Launcher.* Six children, two faults, three requests: enough for a restart of a restart under a
  supervisor that is in its pause, with a stop that crosses a start. Only the children bound the length.

Deadlock is checked wherever the program is meant to go on. `LiveFeed` and `AgentRun` never stop under their
bounds (settings are toggled, sweeps find nothing). Elsewhere the check is off because the bounded part may
stop: the last opening of a thread is used up, every press is settled on a closed client, every publish and
every word is spent, the launcher has ended.

### Fairness

- *LiveFeed:* weak fairness of `AskPolicy`, `ClaimOnce` and `Act`: code between two awaits that a running
  task reaches by itself. None of the frames themselves, nor of boots.
- *AgentRun:* the clock, the sweep that comes round every thirty seconds, `Take` and `Close` which follow in its loop, and `Boot`,
  because the launcher or systemd starts a killed backend again. Nothing makes a failed call succeed
  except that `MaxFaults` of them fail.
- *HistoryView:* requests are answered and notices delivered (one task, one ordered socket each); the
  list is synced, as every page asks for it on load; and the reader goes on scrolling, which is the
  premise of the property. Nothing is assumed about sends, openings, leaving or outages.
- *SocketClient:* the browser's event loop and no more: a timer fires, a queued close event is dispatched,
  a fetch is answered or fails. Neither the network nor the backend is assumed to do anything.
- *PageStart:* the same, and that the first token is read or fails, that a handshake nobody answers is ended
  by the browser, and that a read ends, be it by its timeout. No read is assumed to succeed.
- *Launcher:* timers fire, promises resolve, the kernel reaps what was killed, and a child that does not
  fail binds its port.
- *Chess, Composer, BrokerRepair:* none; their properties are about safety.


## 4. Where the code and its own words differ

One of these is a run that TLC finds violated, and a finding in `PROJECT.json` with the lines on both sides:

1. **Words in another conversation's draft** (`composer_across`). The list of scheduled messages holds the
   rows of every conversation. Editing one opens its conversation without touching the URL; the effect that
   follows the URL opens the other one again while the history is awaited, and the words are then written into
   whatever is open. The comments promise "that thread's draft".

The same models show the following. In the first list a property that a run checks excepts it by a history
variable. None of them is idle: strike it from the property and TLC finds the behaviour within seconds.

| The code | Excepted by |
| --- | --- |
| A history page, or a backend that may not act, stores a new message before an able backend is handed it: the insert changes nothing and the policies are not asked. The schema says a live message is acted on exactly once. | `excused` in `OnlyExcusedMissed` |
| The claim comes before the action: a kill, or a request that cannot be prepared (`server.rs:13387`), leaves the message claimed and nothing done. | `excused` |
| Nothing beats between the agent's end and the last edit, whose requests are retried without a deadline, and a suspend or a refused beat silences a run as well: a live run is then taken and closed, which `store.rs:387` says may not happen. | `RepairSparesLiveRuns` is about the beats the table was given |
| The sweep deletes the row and then edits the message; only a failed edit puts the row back, a kill does not, nor does a second failure. | `lost` in `FrozenOnlyIfLost`, `OrphansAreClosed` |
| An older page asked for before leaving comes into the next visit with its "nothing older". | `misled` in `TopIsTop` |
| "backfill" reads its cursor before the request and "is there more" after it: a refresh that finds the end of a short thread meanwhile makes the page it answers with look like the last. | `misled` |
| A wake-up that finds the first handshake replaces the socket and with it the callbacks `start()` waits for (`ws-client.ts:349` looks at `connected` only): the splash stays. | `deaf` in `PageShows` |
| A wake-up that finds a dying or an open socket drops its close event, so nothing remembers that there was a drop; a connection that comes back before the page is shown is read by nothing, nor is one that a wake-up opened before `start()` did; a failed read is swallowed (`store.ts:3594`) and not repeated. | `missed` in `ReadAgain`, one value for each |
| An act pressed while an earlier one of the same player has not come back, a timed-out publish included, rewrites the ledger from what the page held before it. The header of `use-chess-game.ts` says nothing is playable with something of the reader's in flight; only moves are held to it. | `crossed` in `PlayedStands`, `ResignStands`, `NoGhostMove` |
| Nothing forgets the words handed back by an edit of a scheduled message: coming back to their conversation replaces its draft by them, as the edit itself replaces the draft it writes into. | `replaced` in `NothingLost` |
| The words of `composer_across`. | `strayed` in `OnlyStraysAway`, `NothingLost` |
| A save handled late overwrites a newer one (requests are concurrent, `server.rs:5177`), and a failed one is reported and not repeated (`store.ts:5821`). | `amiss` in `DraftsPersist` |
| A page that was away when the end of a repair was announced keeps "Repairing…", and one that comes while the broker reads well is not told of a repair that runs. The doc of `broker_status_payload` (`server.rs:1259`) says every client's greeting carries the status; the greeting (`server.rs:5158`) sends it only when the broker is failing. | `uncorrected`; `RepairingIsTrue` states it without |
| A frame or a signal that finds a start in hand stops the child before it, since the new one is nobody's `proc` yet: two backends, one left behind, or one the new build attaches to. A signal during the first start finds no hooks at all (`backend.ts:263`), though `backend.ts:442` speaks of "whenever this process goes away, for any reason". | `crossed` in `OneBackend`, `NoOrphan`, `CleanRelaunch`, which count one for each |
| A restart whose start throws is logged and not tried again, though the supervisor's own note says a start that fails is "said and retried". | `abandoned` in `ComesBack` |

The second list needs a property that no run checks, or other constants; each is a change of a line or two in
the `.cfg` named.

*Live feed and agent* (`MCLiveFeedSettled`, `MCAgentRun`)

- `ExactlyOnce` under `ReadingSpec`, or with a read-only backend: the first line of the table, as a
  message that is never acted on.
- `AnswersAreFinal`: the row goes after the last edit, and a crash between the two makes the next sweep
  replace the answer by the interrupted notice.
- `OnePlaceholder`: the placeholder is posted under the default retry policy, which repeats an operation
  whose answer was lost, though the policy's own note excludes creations.

*Reading* (`MCHistoryViewReading`, property `ReaderSeesAll`)

- `MaxOutages = 1`, pages of one, two messages before and two sent, no control frames: recovery fetches the
  newest page; what was sent before it during the outage lies above the frontier, where no later page looks.
- `Channel = TRUE`, three messages: paging back asks for the newest page for ever.
- `Before = 3`, `Control = {2, 3}`: a whole newest page is control frames, and the pane has no oldest message
  to page from.
- One echo and two openings, pages of one: the echoed message becomes the oldest on screen and the next
  page starts below it.
- `Retained = 1`, four messages and two openings: an older page asked for before leaving is merged into the
  trimmed page, over a hole.

*Composer* (`MCComposer`)

- `WordsAtHome`: the run `composer_across`.
- A reader who leaves and comes back while a send is on its way finds the words in a new field, which the
  answer no longer reaches: the draft is cleared, the field is not, and the next Enter posts them again
  (`posted[w] <= 1` fails). The comment of `removeSentWords` names just that as a thing that happened and must
  not.

*The page's connection* (`MCPageStart`)

- `fatal` stays: a page whose socket was lost for good before it ever opened keeps the "Backend lost" overlay
  after a wake-up has connected it, because only a *re*opening takes the overlay away.


## 5. What is proved

8 104 obligations, in eight modules, none on trust. The theorems hold for every value of the constants
that satisfies the assumptions: any number of backends, messages, runs, presses, children and concurrent
handlers, any page size, any bounds.

| Theorem | States | Assumes |
| --- | --- | --- |
| `LiveFeedProofs!TypeCorrect` | `Spec => []TypeOK` | the types of the constants |
| `LiveFeedProofs!ActedAtMostOnce` | `Spec => []AtMostOnce` | `RetentionAssumption` |
| `LiveFeedProofs!PruningIsSafe` | `Spec => PrunedIsStale` | the same |
| `LiveFeedProofs!NothingIsMissed` | `Spec => []OnlyExcusedMissed` | the types of the constants, `RetentionAssumption` |
| `AgentRunProofs!TypeCorrect` | `Spec => []TypeOK` | the types of the constants |
| `AgentRunProofs!TakenByOne` | `Spec => [](TypeOK /\ OneRepairer)` | the same |
| `AgentRunProofs!LiveRunsAreSpared` | `Spec => []RepairSparesLiveRuns` | the same |
| `AgentRunProofs!FrozenAreLost` | `Spec => []FrozenOnlyIfLost` | the same |
| `HistoryProofs!NoGapAboveFrontier` | `Spec => [](TypeOK /\ FrontierHolds)` | `SizesAssumption` |
| `HistoryProofs!ViewTypes` | `ViewSpec => []ViewTypeOK` | `SizesAssumption`, `ReaderAssumption` |
| `HistoryProofs!ViewIsHistory` | `ViewSpec => Spec` | the same |
| `HistoryProofs!NoGapUnderAReader` | `ViewSpec => []FrontierHolds` | the same |
| `HistoryProofs!TopIsTopHolds` | `ViewSpec => []TopIsTop` | the same |
| `SocketClientProofs!SocketTypes` | `SocketSpec => []SocketTypeOK` | `ProcsAssumption` |
| `SocketClientProofs!NobodyOrphaned` | `SocketSpec => []NothingOrphaned` | the same |
| `SocketClientProofs!ClientNeverSilent` | `SocketSpec => []NeverSilent` | the same |
| `SocketClientProofs!FileHeals` | `SocketSpec => []TheFileHeals` | the same |
| `SocketClientProofs!CallsImplemented` | `SocketSpec => ImplementsCalls` | the same |
| `SocketClientProofs!PageIsSocket` | `PageSpec => SocketInit /\ [][SocketNext]_svars` | the same |
| `SocketClientProofs!PromisesKeptToThePage` | `PageSpec` keeps the four promises above | the same |
| `SocketClientProofs!PageTypes` | `PageSpec => []PageTypeOK` | the same |
| `SocketClientProofs!ResyncIsUnderWay` | `PageSpec => []ReadAgain` | the same |
| `SocketClientProofs!SplashIsEnding` | `PageSpec => []SplashEnding` | the same |
| `BrokerRepairProofs!BrokerTypes` | `BrokerSpec => []BrokerTypeOK` | `BrokerAssumption` |
| `BrokerRepairProofs!OneClaimPerInterval` | `BrokerSpec => []AutomaticSpaced` | the same |
| `BrokerRepairProofs!FollowedIsShown` | `BrokerSpec => []RepairStaysShown` | the same |
| `BrokerRepairProofs!ShownIsFollowed` | `BrokerSpec => []RepairingIsFollowed` | the same |
| `LauncherProofs!LauncherTypes` | `LauncherSpec => []LauncherTypeOK` | `LauncherAssumption` (the bounds are numbers) |
| `LauncherProofs!NeverTwoBackends` | `LauncherSpec => []OneBackend` | the same |
| `LauncherProofs!NothingLeftBehind` | `LauncherSpec => []NoOrphan` | the same |
| `LauncherProofs!RelaunchIsClean` | `LauncherSpec => []CleanRelaunch` | the same |
| `LauncherProofs!AlwaysAttended` | `LauncherSpec => []Attended` | the same |
| `ComposerProofs!ComposerTypes` | `ComposerSpec => []ComposerTypeOK` | `ComposerAssumption` |
| `ComposerProofs!WordsStayHome` | `ComposerSpec => []OnlyStraysAway` | the same |
| `ComposerProofs!NoWordLost` | `ComposerSpec => []NothingLost` | the same |
| `ComposerProofs!WhatIsSavedIsWhatWasWritten` | `ComposerSpec => []DraftsPersist` | the same |
| `ChessProofs!ChessTypes` | `ChessSpec => []ChessTypeOK` | `ChessAssumption` |
| `ChessProofs!OpponentStandsHolds` | `ChessSpec => OpponentStands` | the same |
| `ChessProofs!PlayedStandsHolds` | `ChessSpec => PlayedStands` | the same |
| `ChessProofs!ResignStandsHolds` | `ChessSpec => ResignStands` | the same |
| `ChessProofs!NoGhostMoveHolds` | `ChessSpec => []NoGhostMove` | the same |

**At most once.** `AtMostOnce` is not inductive, because a claim can be pruned while its message still
exists. `IInv` keeps instead (`ClaimCovers`) that a message acted on, or about to be, is still claimed *or*
has been stale for longer than any handler is suspended. To keep that across `Boot`, the pruning, one must know
how early a claim may have been taken (`ClaimFresh`: not before the compose time less one policy age), and
across `ClaimOnce`, that a handler about to claim read its clock while the message was fresh and not more
than `Stall` ago (`HandFresh`). `RetentionAssumption`, retention at least twice a policy's age plus the
stall, is exactly what makes the two meet: 24 hours against ten and five minutes.

**At least once.** Whatever has a row was heard of by an able backend while it was fresh, or its row was made
for one of the named causes; whatever is claimed is acted on or about to be, or lost its action to one; and
whatever was heard and has no cause is acted on, in a task, or in a hand that will put it to its policy or
claim it (`MissInv`). The second conjunct is what a backend needs that finds the claim taken, and the first
what one needs whose insert changes nothing. That a cause is never taken back is `ExcusesStay`, that an action
once certain stays so unless it is killed is `PendingStays`. The theorem is about every behaviour, kills,
failing calls, toggled settings, history pages and read-only backends among them; it is the safety half of
`ExactlyOnce`, of which remains that tasks run.

**The sweep.** `OneRepairer` needs only that a run which has not recorded itself has no row (`Unrecorded`), as
the take is one `DELETE` and nothing but the repairer that took a row, or the run's first record, puts one
there. That a taken run was silent needs time as well: a row, in the table or in hand, carries the last beat
the table was given (`HonestRows`), and a sweep's cutoff is never later than the clock less
`AbandonedAfter` (`OldCutoffs`), even if the sweep is slow. Nothing is assumed of how late a beat may be.
That a message stays frozen only where its row was lost is proved of more than the dead (`LossInv`): a run that
writes is `Accounted` too, by its row, by its sweeper, or as lost, so that a kill at any step leaves it so.

**The frontier.** What is inductive is a statement about the handlers, not about the row: whatever a
handler has fetched joins what is known above it (`Joins`: every displayed message after the page's top is
stored, on its way, or lost with the feed), and what a pull read as the cursor was a true frontier then.
"Known from b on" is never undone by any step (`KnownStays`), so a statement read before an await still
holds when the page is stored; storing a page extends it down to the page's oldest (`PageExtends`); and the
row may then move there (`RowStaysSound`), whichever of several handlers comes first.

**The reader adds nothing.** `ViewIsHistory` is a refinement step by step: every action of `HistoryView` but
one is an action of `History` with more variables. The one is the request for an older page, made from
whatever message is the oldest on screen. `AnyMessageWillDo` shows that the message does not matter: the
request is answered from the store, and then no step of `History` at all, or it is one `History` makes as
well. The frontier theorem carries over.

**The top of a thread.** `TopIsTop` is about the pane at rest, and nothing about it is inductive until one
says the same of everything that can still reach the pane. A message counts as met (`Met`) when the feed
still has it or lost it, or when something no newer than it is in the page's cache or written to its socket.
"No more" must then be honest wherever it stands: in the cache (`HonestCache`), in an older page on its way
(`HonestOlder`), and in a newest page on its way, which must bring all that is missing together with what
is written behind it (`HonestPages`); and a pane that says it either has it from the cache or has the answer
to its opening still to come (`HonestPane`). `HonestPages` and `HonestPane` hold always, `HonestCache` until
the pane is misled, and what concerns an older page (`OnePull`, `PullsJoin`, `HonestOlder`) while in addition
none has outlived its visit (`Timely`). The hard step is an older page that comes back short: that it ends the
thread is true because what lies from its cursor on had been met when it was asked for (`PullsJoin`), and
stays met as long as the cache is not trimmed under it; because no two are under way (`OnePull`); and because
no refresh has found the end meanwhile, which would make it `misled`. What comes late is let in as `strayed`,
and once the last such page has been received or has failed, everything holds again: nothing is left under
way. The frontier invariant is used throughout: what the store thinks is all of a thread is all of it.

**The connection.** `SocketInv` has three parts beside the types. `PressOK(p)` says where the one request of
a press is: on the wire, answered or dropped, never in two places, pending exactly while its caller waits,
and an answer says the truth about whether it was performed. `LinkOK` ties the pending requests to a socket
that can still answer or reject them, and an announced retry to an armed timer. `HealOK(p)` is about a press
made while the token file named the running process: if it is being retried, its first token was a stale
one, and its second is the process's own. Each action then concerns one part, and the refinement of `Calls`
reads success off `PressOK`. Nothing in that argument uses fairness, so it holds of any behaviour made of
the client's steps, and `PageIsSocket` shows, action by action, that the page's start and recovery make no
others: the store only chooses when to connect. The page's own invariants are that a loading is in hand only
on a socket that can answer or reject it (`StartOK`), and that every connection, shown or not, is being read
over, has been, or has a cause not to be (`AgainOK`). To keep that over a drop, the drop must be remembered from
the close event until the next socket opens, unless nobody heard of it; and a page that is shown because its
start failed must remember it as well. `SplashEnding` says what will end the splash: the first token, a
handshake whose end `start()` will hear of, a loading on a socket that answers or rejects it, the beat before
the empty page; a replaced handshake is the one way out of that chain. It is the safety half of `PageShows`.

**The repair.** `AutomaticSpaced` is not inductive without knowing that the floor in the store *is* the last
claim (`FloorKept`), which every claim keeps since every one moves it, a press included. What the pages show
follows from the shape of the announcements: each is computed from the followers of that moment, so the
first of two that ends says "repairing" and the last one takes it back. The two halves, followed is shown and
shown is followed (`Told`), only hold together.

**The launcher.** `OneBackend` counts, and so does its invariant. `Hand` are the backends beside the current
one, being started or left over; `Due` is what the current generation is owed: the live current child, and the
supervisor that is about to replace it. `Count` says that all of them together with the stops that are awaited
are no more than one and one for each crossing. A stop turns what was due into an awaited stop, and a stop
that is over into a start; only one that finds a start or another stop in hand adds to the sum, and that is a
crossing. For the sum to hold, at most one of those who might replace the current child may do so: a
supervisor in its pause, one that watches, and one whose start is in hand exclude each other in the current
generation (`Heirs`), which is what the counter is for, and nobody's child is another's (`Kin`). As long as
nothing has crossed, no killed backend listens but the current one that is being awaited (`Clean`), hence none
when the new build looks. `AlwaysAttended` adds that a start of the current generation goes back to a
supervisor when it fails, and an overtaken one finds the stop that overtook it, or what came of that: somebody
is at work, or a restart's own start has failed. It is the safety half of `ComesBack`.

**The words.** That they stay home is inductive once everything that carries words, a field, a timer, a
request, a flight, a held message, says whose they are (`BoxHome`, `StoreHome`, `OutHome`); the one step that
does not look at the label is the end of an edit, which writes to whatever is open, and there the words
become strays. That none is lost needs less than `NothingLost` offers: a word is owed its conversation's draft
(`Accounted`), and the field and the flight are never needed. Clearing a draft by an answer is then safe
because what was submitted is no more than what was sent, strays aside (`DraftsShown`), and taking words back
because each was written once, hence for that conversation (`WrittenOnce`). That the store ends with the
page's draft holds because a draft without an armed timer is the last save on its way or stored (`Fresh`).
Since saves overtake each other, "the last" is a matter of bookkeeping: of the saves of one conversation
those overtaken are the first that were sent (`InTurn`), so the newest is overtaken by none, and what is
stored when nothing is left is its text unless it failed or an older one came after it.

**The game.** That the seat stands needs no discipline of the readers: whoever joined first is the one with
the smallest place among those who joined, a message's place never changes (`Placed`), and no rewrite, however
stale the copy it starts from, changes whether its author joined (`Rooted`: every copy and every publish on
its way agrees in that with the message). What was played does need some, since a rewrite from an old copy
would take a move or a resignation back. `Waited` says of every player who is not in `crossed` that one publish
of theirs is under way at a time, which contains the plies and the resignation their message has by now, and
that a ply drawn ahead is in the message or in that publish. Whoever presses before everything of theirs has
come back leaves `Waited`, and returns to it with the first press made in the clear, for which `Clear` is just
strong enough. The rest is the fold: while the ledgers that concern the game only grow, the line of moves that
`Applied` reads off them only grows until the game is settled, and a step at which one of them shrinks is the
landing of a publish of a player who crossed.

Only model-checked: the liveness properties (`ExactlyOnce`, `OrphansAreClosed`, `ReaderSeesAll`,
`EveryPressSettles`, `PageShows`, `ComesBack`), which need fairness and leads-to reasoning
beyond the prover, and the violations, which are counterexamples and need no proof. Every invariant, action
property and refinement that a passing run checks is a theorem.


## 6. Not modelled, and why

Cryptography, media, window capture and package downloads are I/O that a model would have to invent. Text
rules, rendering and formats have no state and have unit tests. Inside the modelled parts:

- *live feed, agent, history:* the policies' text rules, typing and receipt frames, the agent process and
  its stream, unread state of the page, several devices per push and several threads per page (a thread's
  history touches no other thread's). A wall clock set backwards is left out; a suspend is a clock that ticks while
  the tasks do not (`AgentRun`). In
  `HistoryView` the backend's socket to the page is ordered and does not break (`SocketClient` has one that
  does); what breaks is the backend's own feed.
- *connection:* coalesced refreshes (`singleflight.ts`) and the sign-in probe of a refused handshake;
  reads are one request in `PageStart` and only writes in `SocketClient`.
- *Composer:* pictures, titles, replies and thread drafts; reloads; a scheduled message that leaves at the
  very moment it is cancelled; drafts seeded from the backend, taken as read before the reader writes.
- *Chess:* clocks and flags, games against the engine, the older wire with one message per act,
  rematches, sounds, and the text format of a ledger.
- *BrokerRepair:* the embedded mode with its helper slot, boot and portal; what the repair does to the
  container; several pages per backend.
- *Launcher:* attaching to a backend somebody else started, beyond what a new build meets; extraction of
  the embedded binary; development mode; the download and verification of an update.


## 7. Plan

In this order, each with its run, its properties and, where marked, its theorem:

1. `MessageRow`: the merge rules of `insert_message` as a fold over versions in any order, against the
   newest version as reference, with the columns that are learned and never unlearned.
2. `PushDelivery`: the walk over devices, refining the one `Act` of `LiveFeed`; a failed mark must not
   cost the later devices their push.
3. `ListSync`: snapshot against live rows, healing, the floor; composed with `History`'s `SyncList`.
4. `CallSession`: the one call slot against frames of an earlier call.
5. `UpdateSlot`: the backend's phases, the timer that judges a later one; composed with `Launcher`.
6. `SignIn`: the slot, its watchdog and the helper that outlives the backend.
7. `Coalesce`: a trigger during a run is followed by a run, composed with `PageStart`'s recovery.
8. The embedded broker: helper slot and boot, beside `BrokerRepair`.
9. The safety half of `ReaderSeesAll`, as `SplashEnding` is of `PageShows`: what is on screen has no hole,
   when live frames come in order and no old message is edited *(theorem)*.
10. `Pets` and `Seal` as pure reducers, checked against reference definitions on bounded inputs.

Where a later composition asks the question of an earlier run as well, it takes that run's place.
