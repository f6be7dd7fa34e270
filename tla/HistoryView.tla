--------------------------- MODULE HistoryView ---------------------------
(* A page of the web app reading one thread's history                     *)
(* (src/web/src/lib/store.ts and protocol.ts), composed with History.     *)
(*                                                                        *)
(* The page keeps a session cache of the thread, merges into it by id what *)
(* the backend answers and broadcasts, trims it when the reader leaves and *)
(* asks for what is older than the oldest message it holds.               *)
EXTENDS History, Sequences

CONSTANTS
    Retained,     \* RETAINED_MESSAGES
    MaxOpens      \* bound: how often the reader opens the thread

ASSUME ReaderAssumption == {Retained, MaxOpens} \subseteq Nat

VARIABLES
    opened,     \* the thread is the open one
    opens,      \* how often it was opened
    cache,      \* messageCache: a page, or NoPage
    canPage,    \* hasMoreOlder of the open thread
    loading,    \* loadingOlder
    recovering, \* the feed is back and the thread is about to be reconciled
    inbox,      \* what the backend has written to the socket, in order
    strayed,    \* history: an older page outlived the visit that asked for it
    misled      \* history: what the thread was told of its end was beside it

pane == <<opened, opens, cache, canPage, loading, recovering>>
past == <<strayed, misled>>
view == <<pane, inbox, past>>

NoPage == [msgs |-> {}, more |-> TRUE, held |-> FALSE]
Held(p) == [msgs |-> p.msgs, more |-> p.more, held |-> TRUE]
Notice(kind, p) == [kind |-> kind, msgs |-> p.msgs, more |-> p.more]
Kinds == {"message", "opened", "updated", "older"}
Notices == [kind : Kinds, msgs : SUBSET Displayable, more : BOOLEAN]

ViewTypeOK ==
    /\ opened \in BOOLEAN
    /\ opens \in Nat
    /\ cache \in [msgs : SUBSET Displayable, more : BOOLEAN, held : BOOLEAN]
    /\ canPage \in BOOLEAN
    /\ loading \in BOOLEAN
    /\ recovering \in BOOLEAN
    /\ inbox \in Seq(Notices)
    /\ strayed \in BOOLEAN
    /\ misled \in BOOLEAN

ViewInit ==
    /\ Init
    /\ opened = FALSE
    /\ opens = 0
    /\ cache = NoPage
    /\ canPage = FALSE
    /\ loading = FALSE
    /\ recovering = FALSE
    /\ inbox = << >>
    /\ strayed = FALSE
    /\ misled = FALSE

Tell(notice) == inbox' = Append(inbox, notice)

(* An older page has been asked for and not come.                          *)
UnderWay == pulls # {} \/ \E i \in 1..Len(inbox) : inbox[i].kind = "older"

-----------------------------------------------------------------------------
(* What the backend does, with what it tells the page.                     *)

Live(m) ==
    /\ Deliver(m) \/ Echo(m)
    /\ Tell(Notice("message", [msgs |-> {m}, more |-> TRUE]))
    /\ UNCHANGED <<pane, past>>

Quiet ==
    /\ \/ Send \/ Disconnect \/ SyncList
       \/ \E t \in refreshes : RefreshFetch(t)
       \/ \E p \in pulls : PullFetch(p)
    /\ UNCHANGED view

FailRefresh(t) == RefreshFails(t) /\ UNCHANGED view

(* A refresh may find the end of a short thread while an older page is on   *)
(* its way from the network, which then ends with the refresh's verdict.   *)
StoreRefresh(t) ==
    /\ RefreshStore(t)
    /\ IF RefreshTells(t) THEN Tell(Notice("updated", NewestPage'))
                          ELSE UNCHANGED inbox
    /\ misled' = (misled \/ (pulls # {} /\ more /\ ~ more'))
    /\ UNCHANGED <<pane, strayed>>

StorePull(p) ==
    /\ PullStore(p)
    /\ Tell(Notice("older", [msgs |-> Displayed(p.top), more |-> more']))
    /\ UNCHANGED <<pane, past>>

(* The request fails: the pane shows the error and may ask again.          *)
FailPull(p) ==
    /\ PullFails(p)
    /\ loading' = FALSE
    /\ UNCHANGED <<opened, opens, cache, canPage, recovering, inbox, misled>>
    /\ strayed' = (strayed /\ UnderWay')

(* The feed is back: the open thread is reconciled by the request that     *)
(* opens one, "to pull in changes missed while disconnected".              *)
Recover ==
    /\ Reconnect
    /\ recovering' = opened
    /\ UNCHANGED <<opened, opens, cache, canPage, loading, inbox, past>>

Reconcile ==
    /\ recovering
    /\ recovering' = FALSE
    /\ Open
    /\ Tell(Notice("opened", NewestPage))
    /\ UNCHANGED <<opened, opens, cache, canPage, loading, past>>

-----------------------------------------------------------------------------
(* What the reader does.                                                   *)

OpenThread ==
    /\ ~ opened /\ opens < MaxOpens
    /\ opened' = TRUE
    /\ opens' = opens + 1
    /\ canPage' = (cache.held /\ cache.more)
    /\ loading' = FALSE
    /\ UNCHANGED <<cache, recovering, past>>
    /\ Open
    /\ Tell(Notice("opened", NewestPage))

(* trimHistoryPage, when the reader goes to another thread.                *)
Latest(S) == {m \in S : Cardinality({n \in S : n > m}) < Retained}
TrimmedOnly(p) ==                            \* mutant: "no more" outlives the trim
    [msgs |-> Latest(p.msgs), more |-> p.more, held |-> p.held]
Trimmed(p) ==
    IF Cardinality(p.msgs) <= Retained THEN p
    ELSE [msgs |-> Latest(p.msgs), more |-> TRUE, held |-> TRUE]

LeaveThread ==
    /\ opened
    /\ opened' = FALSE
    /\ cache' = Trimmed(cache)
    /\ canPage' = FALSE
    /\ loading' = FALSE
    /\ strayed' = UnderWay
    /\ UNCHANGED <<vars, opens, recovering, inbox, misled>>

(* The cache of a thread left long ago is dropped.                         *)
Evict ==
    /\ ~ opened /\ cache.held
    /\ cache' = NoPage
    /\ UNCHANGED <<vars, opened, opens, canPage, loading, recovering, inbox, past>>

OldestOf(S) == CHOOSE m \in S : \A n \in S : m <= n

(* loadOlderMessages: pages before the oldest message on screen.           *)
MayPage == opened /\ canPage /\ ~ loading /\ cache.msgs # {}

ScrollUp ==
    /\ MayPage
    /\ loading' = TRUE
    /\ LET b == OldestOf(cache.msgs) IN
       /\ Backfill(b)
       /\ IF AnswersLocally(b) THEN Tell(Notice("older", CachedPage(b)))
                               ELSE UNCHANGED inbox
    /\ UNCHANGED <<opened, opens, cache, canPage, recovering, past>>

-----------------------------------------------------------------------------
(* What the page makes of the backend's notices: every message is merged   *)
(* by id; they differ in what they say of older ones.                      *)

Extends(p, n) ==
    p.msgs # {} /\ (n.msgs = {} \/ OldestOf(p.msgs) < OldestOf(n.msgs))

MoreOf(p, n) ==
    CASE n.kind = "message" -> p.more
      [] n.kind = "older"   -> n.more
      [] OTHER              -> IF Extends(p, n) THEN p.more ELSE n.more

Merged(n) == [msgs |-> cache.msgs \cup n.msgs, more |-> MoreOf(cache, n),
              held |-> TRUE]

Receive ==
    /\ inbox # << >>
    /\ inbox' = Tail(inbox)
    /\ UNCHANGED <<vars, opened, opens, recovering>>
    /\ LET n == Head(inbox) IN
       /\ IF n.kind = "older" /\ ~ opened
          THEN UNCHANGED <<cache, canPage, loading>>
          ELSE /\ cache' = Merged(n)
               /\ canPage' = IF opened /\ n.kind # "message" THEN Merged(n).more
                             ELSE canPage
               /\ loading' = (loading /\ n.kind # "older")
       /\ misled' = (misled \/ (strayed /\ opened /\ n.kind = "older" /\ ~ n.more))
    /\ strayed' = (strayed /\ UnderWay')

-----------------------------------------------------------------------------
Backend ==
    \/ Quiet \/ Recover
    \/ \E m \in All : Live(m)
    \/ \E t \in refreshes : StoreRefresh(t)
    \/ \E p \in pulls : StorePull(p)

Fault ==
    \/ \E t \in refreshes : FailRefresh(t)
    \/ \E p \in pulls : FailPull(p)

Page == OpenThread \/ LeaveThread \/ Evict \/ ScrollUp \/ Reconcile \/ Receive

allvars == <<vars, view>>
ViewSpec == ViewInit /\ [][Backend \/ Fault \/ Page]_allvars

(* Requests are answered, frames and notices delivered, and a reader who   *)
(* can page further back goes on doing so.                                 *)
ViewFairness ==
    /\ WF_allvars(SyncList /\ UNCHANGED view)
    /\ WF_allvars(\E m \in feed : Deliver(m) /\ Live(m))
    /\ WF_allvars(\E t \in refreshes : RefreshFetch(t) /\ UNCHANGED view)
    /\ WF_allvars(\E p \in pulls : PullFetch(p) /\ UNCHANGED view)
    /\ WF_allvars(\E t \in refreshes : StoreRefresh(t))
    /\ WF_allvars(\E p \in pulls : StorePull(p))
    /\ WF_allvars(Recover) /\ WF_allvars(Reconcile)
    /\ WF_allvars(Receive) /\ WF_allvars(ScrollUp)

ReadingSpec == ViewInit /\ [][Backend \/ Page]_allvars /\ ViewFairness

-----------------------------------------------------------------------------
(* Properties.                                                             *)

(* The pane says there is nothing older only where there is nothing older: *)
(* a false "no more" hides history until the app is started again. Two     *)
(* things can tell it so falsely, and nothing else: an older page that     *)
(* outlived its visit, and a refresh that found the end of the thread with *)
(* an older page on its way from the network.                              *)
TopIsTop ==
    opened /\ cache.held /\ ~ canPage /\ inbox = << >> =>
        \/ misled
        \/ \A m \in 1..sent \ Control :
              \/ m \in cache.msgs \/ m \in feed \/ m \in lost
              \/ \E n \in cache.msgs : n < m

(* A reader who stays in a thread and scrolls up reads all of it: what the *)
(* service holds is shown, whatever of it came live, cached or paged.      *)
ReaderSeesAll ==
    \A m \in Displayable :
        opened /\ m <= sent ~> m \in cache.msgs \/ ~ opened
=============================================================================
