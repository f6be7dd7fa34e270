---------------------------- MODULE History ----------------------------
(* One thread's history in the local store (src/src/teams_read.rs, the    *)
(* "open" and "backfill" handlers of src/src/bin/server.rs).              *)
(*                                                                        *)
(* The service holds messages 1..sent. The store learns them from the     *)
(* live feed, which carries what is sent while it is connected, and from  *)
(* pages: the newest one when the thread is opened, then older ones from  *)
(* the frontier that the thread's row in the conversations table records. *)
(* A page is fetched over the network and stored later, so a handler acts *)
(* on what it read before.                                                *)
EXTENDS Integers, FiniteSets

CONSTANTS
    Before,       \* how many messages the thread had before the program ran
    MaxSent,      \* bound: how many it ever has
    Control,      \* those of them that are control frames, never displayed
    PageSize,     \* DEFAULT_PAGE_SIZE
    Channel,      \* whether the thread is a team's channel
    MaxOutages,   \* bound: how often the live feed is lost
    MaxEchoes     \* bound: edits of and reactions to messages already sent

ASSUME SizesAssumption ==
    /\ {Before, MaxSent, MaxOutages, MaxEchoes} \subseteq Nat
    /\ Before <= MaxSent
    /\ PageSize \in Nat \ {0}
    /\ Control \subseteq Nat
    /\ Channel \in BOOLEAN

VARIABLES
    sent,       \* the service holds messages 1..sent, numbered by time
    online,     \* the live feed is connected
    outages,    \* how often it was lost
    echoes,     \* how many edits and reactions were carried
    feed,       \* the frames on their way to this backend
    lost,       \* what was sent or under way while the feed was down
    stored,     \* the messages table
    listed,     \* the thread has a row in the conversations table
    cursor,     \* oldest_cursor: how far back we have paged, or NoCursor
    more,       \* has_more_older: the service may hold older ones
    refreshes,  \* background refreshes of an opened thread
    pulls       \* backfill requests that went to the network

world == <<sent, online, outages, echoes, feed, lost>>
row == <<listed, cursor, more>>
vars == <<world, stored, row, refreshes, pulls>>

NoCursor == 0
Asked == -1          \* the page a request is still waiting for
All == 1..MaxSent
Displayable == All \ Control
Refresh == [had : BOOLEAN, top : 0..MaxSent \cup {Asked}]
Pull == [from : All \cup {NoCursor}, top : 0..MaxSent \cup {Asked}]

TypeOK ==
    /\ sent \in 0..MaxSent
    /\ online \in BOOLEAN
    /\ outages \in Nat
    /\ echoes \in Nat
    /\ feed \subseteq Displayable
    /\ lost \subseteq Displayable
    /\ stored \subseteq Displayable
    /\ listed \in BOOLEAN
    /\ cursor \in All \cup {NoCursor}
    /\ more \in BOOLEAN
    /\ refreshes \subseteq Refresh
    /\ pulls \subseteq Pull

Init ==
    /\ sent = Before
    /\ online = TRUE
    /\ outages = 0
    /\ echoes = 0
    /\ feed = {}
    /\ lost = {}
    /\ stored = {}
    /\ listed = FALSE
    /\ cursor = NoCursor
    /\ more = TRUE
    /\ refreshes = {}
    /\ pulls = {}

-----------------------------------------------------------------------------
(* Pages. The raw page that ends at message top holds control frames too;  *)
(* the cursor and "is there more" are taken from it, what is stored is not. *)

Raw(top) == {m \in 1..top : m > top - PageSize}
EveryFrame(top) == Raw(top)                  \* mutant: parse_message drops none
Displayed(top) == Raw(top) \ Control
Oldest(top) == IF top > PageSize THEN top - PageSize + 1 ELSE 1
FullOfText(top) ==                           \* mutant: counts what is displayed
    Cardinality(Displayed(top)) >= PageSize
Full(top) == top >= PageSize

(* persist_page: the frontier only moves into the past, and only a thread  *)
(* with a row has one (set_oldest_cursor is an UPDATE).                    *)
AdvancesOnText(top) ==                       \* mutant: oldest of what is shown
    /\ listed /\ Displayed(top) # {}
    /\ cursor = NoCursor \/ Oldest(top) < cursor
Advances(top) == /\ listed /\ top > 0
                 /\ cursor = NoCursor \/ Oldest(top) < cursor

(* A backfilled page that is empty is the end of history.                  *)
IsTheEnd(top) == listed /\ Displayed(top) = {} /\ ~ Full(top)

StoredBy(top) == stored \cup Displayed(top)
MoreAfter(top) == IF Advances(top) THEN Full(top) ELSE more

(* The newest PageSize of a set of messages, and whether it has others.    *)
Newest(S) == {m \in S : Cardinality({n \in S : n > m}) < PageSize}
Overflows(S) == Cardinality(S) > PageSize

(* newest_history_page and cached_history_page.                            *)
NewestPage == [msgs |-> Newest(stored), more |-> Overflows(stored) \/ more]
OlderThan(b) == {m \in stored : m < b}
CachedPage(b) ==
    [msgs |-> Newest(OlderThan(b)), more |-> Overflows(OlderThan(b)) \/ more]

-----------------------------------------------------------------------------
(* The service and the live feed.                                          *)

Send ==
    /\ sent < MaxSent
    /\ sent' = sent + 1
    /\ LET frame == {sent + 1} \ Control IN
       IF online THEN feed' = feed \cup frame /\ UNCHANGED lost
                 ELSE lost' = lost \cup frame /\ UNCHANGED feed
    /\ UNCHANGED <<online, outages, echoes, stored, row, refreshes, pulls>>

(* The feed is lost, and with it the frames that were under way.           *)
Disconnect ==
    /\ online /\ outages < MaxOutages
    /\ online' = FALSE
    /\ outages' = outages + 1
    /\ lost' = lost \cup feed
    /\ feed' = {}
    /\ UNCHANGED <<sent, echoes, stored, row, refreshes, pulls>>

Reconnect ==
    /\ ~ online
    /\ online' = TRUE
    /\ UNCHANGED <<sent, outages, echoes, feed, lost, stored, row, refreshes, pulls>>

(* A live frame is stored; a chat gets a row, a channel never does.        *)
Ingest(m) ==
    /\ stored' = stored \cup {m}
    /\ listed' = (listed \/ ~ Channel)
    /\ UNCHANGED <<cursor, more, refreshes, pulls>>

Deliver(m) ==
    /\ m \in feed
    /\ feed' = feed \ {m}
    /\ Ingest(m)
    /\ UNCHANGED <<sent, online, outages, echoes, lost>>

(* An edit of, or a reaction to, a message of any age arrives as a frame   *)
(* that carries the whole message.                                         *)
Echo(m) ==
    /\ online /\ echoes < MaxEchoes
    /\ m \in 1..sent \ Control
    /\ echoes' = echoes + 1
    /\ Ingest(m)
    /\ UNCHANGED <<sent, online, outages, feed, lost>>

(* The conversation list is synced: every chat in it gets a row.           *)
SyncList ==
    /\ ~ Channel /\ ~ listed
    /\ listed' = TRUE
    /\ UNCHANGED <<world, stored, cursor, more, refreshes, pulls>>

-----------------------------------------------------------------------------
(* The "open" handler answers NewestPage and refreshes in the background.  *)
Open ==
    /\ refreshes' = refreshes \cup {[had |-> NewestPage.more, top |-> Asked]}
    /\ UNCHANGED <<world, stored, row, pulls>>

RefreshFetch(t) ==
    /\ t \in refreshes /\ t.top = Asked
    /\ refreshes' = (refreshes \ {t}) \cup {[t EXCEPT !.top = sent]}
    /\ UNCHANGED <<world, stored, row, pulls>>

RefreshFails(t) ==
    /\ t \in refreshes /\ t.top = Asked
    /\ refreshes' = refreshes \ {t}
    /\ UNCHANGED <<world, stored, row, pulls>>

RefreshStore(t) ==
    /\ t \in refreshes /\ t.top # Asked
    /\ refreshes' = refreshes \ {t}
    /\ stored' = StoredBy(t.top)
    /\ cursor' = IF Advances(t.top) THEN Oldest(t.top) ELSE cursor
    /\ more' = MoreAfter(t.top)
    /\ UNCHANGED <<world, listed, pulls>>

(* The page is told only when the refresh changed something.               *)
RefreshTells(t) ==
    StoredBy(t.top) # stored
    \/ (Overflows(StoredBy(t.top)) \/ MoreAfter(t.top)) # t.had

-----------------------------------------------------------------------------
(* The "backfill" handler: the store's own older messages first, then the  *)
(* page beyond the frontier.                                               *)
AnswersLocally(b) == CachedPage(b).msgs # {} \/ ~ more

Backfill(b) ==
    /\ pulls' = IF AnswersLocally(b) THEN pulls
                ELSE pulls \cup {[from |-> cursor, top |-> Asked]}
    /\ UNCHANGED <<world, stored, row, refreshes>>

PullFetch(p) ==
    /\ p \in pulls /\ p.top = Asked
    /\ LET top == IF p.from = NoCursor THEN sent ELSE p.from - 1 IN
       pulls' = (pulls \ {p}) \cup {[p EXCEPT !.top = top]}
    /\ UNCHANGED <<world, stored, row, refreshes>>

PullFails(p) ==
    /\ p \in pulls /\ p.top = Asked
    /\ pulls' = pulls \ {p}
    /\ UNCHANGED <<world, stored, row, refreshes>>

MoreAfterPull(top) == IF IsTheEnd(top) THEN FALSE ELSE MoreAfter(top)

PullStore(p) ==
    /\ p \in pulls /\ p.top # Asked
    /\ pulls' = pulls \ {p}
    /\ stored' = StoredBy(p.top)
    /\ cursor' = IF Advances(p.top) THEN Oldest(p.top) ELSE cursor
    /\ more' = MoreAfterPull(p.top)
    /\ UNCHANGED <<world, listed, refreshes>>

-----------------------------------------------------------------------------
Service ==
    \/ Send \/ Disconnect \/ Reconnect \/ SyncList
    \/ \E m \in All : Deliver(m) \/ Echo(m)

Tasks ==
    \/ \E t \in refreshes : RefreshFetch(t) \/ RefreshFails(t) \/ RefreshStore(t)
    \/ \E p \in pulls : PullFetch(p) \/ PullFails(p) \/ PullStore(p)

Next == Service \/ Tasks \/ Open \/ \E b \in All : Backfill(b)

Spec == Init /\ [][Next]_vars

-----------------------------------------------------------------------------
(* The store holds everything the service has from the frontier on, and    *)
(* all of it once it believes there is no more: but for what the feed is   *)
(* still bringing or lost. Otherwise a scroll would skip messages for good, *)
(* for no later page looks above the frontier.                             *)
Paged(m) == ~ more \/ (cursor # NoCursor /\ cursor <= m)
FrontierHolds ==
    \A m \in 1..sent \ Control :
        Paged(m) => m \in stored \/ m \in feed \/ m \in lost
=============================================================================
