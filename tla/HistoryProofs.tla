------------------------- MODULE HistoryProofs -------------------------
(* The frontier of a thread's history is sound, for every size of page,   *)
(* every set of control frames and any number of concurrent handlers;     *)
(* and the store under the page that reads it (HistoryView) is the store  *)
(* on its own: every step of the composition is one of History, or none.  *)
EXTENDS HistoryView, SequenceTheorems, FiniteSetTheorems, WellFoundedInduction, TLAPS

(* Every displayed message from b on is here, on its way, or was lost with *)
(* the feed.                                                               *)
Known(b) ==
    \A m \in 1..sent \ Control :
        m >= b => m \in stored \/ m \in feed \/ m \in lost

(* A handler acts on what it read before it went to the network, so what   *)
(* makes its page join the rest has to hold from the moment it read it.    *)
Joins(task) == task.top # Asked => Known(task.top + 1)

Sound ==
    /\ ~ more => Known(1)
    /\ cursor # NoCursor => Known(cursor)
    /\ \A t \in refreshes : Joins(t)
    /\ \A p \in pulls : Joins(p) /\ (p.from # NoCursor => Known(p.from))

-----------------------------------------------------------------------------
(* What is known stays known: a message is sent into the feed or lost with *)
(* it, and the store only grows.                                           *)
LEMMA KnownStays ==
    ASSUME TypeOK, [Next]_vars, NEW b \in Int, Known(b)
    PROVE  Known(b)'
<1> USE SizesAssumption DEF All, Displayable
<1>1. CASE Send
  BY <1>1 DEF Send, TypeOK, Known, row
<1>2. CASE Disconnect
  BY <1>2 DEF Disconnect, TypeOK, Known, row
<1>3. CASE Reconnect
  BY <1>3 DEF Reconnect, TypeOK, Known, row
<1>4. CASE SyncList
  BY <1>4 DEF SyncList, TypeOK, Known, world
<1>5. ASSUME NEW m \in All, Deliver(m) \/ Echo(m) PROVE Known(b)'
  BY <1>5 DEF Deliver, Echo, Ingest, TypeOK, Known
<1>6. ASSUME NEW t \in refreshes,
             RefreshFetch(t) \/ RefreshFails(t) \/ RefreshStore(t)
      PROVE  Known(b)'
  BY <1>6 DEF RefreshFetch, RefreshFails, RefreshStore, StoredBy, TypeOK, Known,
              world
<1>7. ASSUME NEW p \in pulls, PullFetch(p) \/ PullFails(p) \/ PullStore(p)
      PROVE  Known(b)'
  BY <1>7 DEF PullFetch, PullFails, PullStore, StoredBy, TypeOK, Known, world
<1>8. CASE Open \/ \E a \in All : Backfill(a)
  BY <1>8 DEF Open, Backfill, TypeOK, Known, world
<1>9. CASE UNCHANGED vars
  BY <1>9 DEF vars, world, row, TypeOK, Known
<1> QED BY <1>1, <1>2, <1>3, <1>4, <1>5, <1>6, <1>7, <1>8, <1>9
           DEF Next, Service, Tasks

(* A page that joins what is known extends it to the page's oldest message *)
(* and, when the page reaches the first message, to all of history.        *)
LEMMA PageExtends ==
    ASSUME TypeOK, NEW top \in 0..MaxSent, Known(top + 1),
           stored' = StoredBy(top), UNCHANGED world
    PROVE  /\ Known(Oldest(top))'
           /\ ~ Full(top) => Known(1)'
<1> USE SizesAssumption DEF All, Displayable, TypeOK, world
<1>1. ASSUME NEW m \in 1..sent \ Control, m <= top, m > top - PageSize
      PROVE  m \in stored'
  BY <1>1 DEF StoredBy, Displayed, Raw
<1>2. ASSUME NEW m \in 1..sent \ Control, m > top
      PROVE  m \in stored' \/ m \in feed' \/ m \in lost'
  BY <1>2 DEF Known, StoredBy
<1>3. ASSUME NEW m \in 1..sent \ Control, m >= Oldest(top)
      PROVE  m \in stored' \/ m \in feed' \/ m \in lost'
  BY <1>1, <1>2, <1>3 DEF Oldest
<1>4. ~ Full(top) => Oldest(top) = 1
  BY DEF Full, Oldest
<1> QED BY <1>3, <1>4 DEF Known

-----------------------------------------------------------------------------
LEMMA PageTyped ==
    ASSUME TypeOK, NEW top \in 0..MaxSent
    PROVE  /\ StoredBy(top) \subseteq Displayable
           /\ (IF Advances(top) THEN Oldest(top) ELSE cursor) \in All \cup {NoCursor}
           /\ MoreAfter(top) \in BOOLEAN
           /\ MoreAfterPull(top) \in BOOLEAN
<1> USE SizesAssumption DEF TypeOK, All, Displayable, NoCursor
<1>1. StoredBy(top) \subseteq Displayable
  <2>1. ASSUME NEW m \in Displayed(top) PROVE m \in Displayable
    BY <2>1 DEF Displayed, Raw
  <2> QED BY <2>1 DEF StoredBy
<1>2. top > 0 => Oldest(top) \in All
  BY DEF Oldest
<1>3. MoreAfter(top) \in BOOLEAN
  <2>1. Full(top) \in BOOLEAN
    BY DEF Full
  <2> QED BY <2>1, Zenon DEF MoreAfter
<1> QED BY <1>1, <1>2, <1>3 DEF Advances, MoreAfterPull

LEMMA TypeStep ==
    ASSUME TypeOK, [Next]_vars
    PROVE  TypeOK'
<1> USE SizesAssumption DEF TypeOK, All, Displayable, NoCursor, Asked
<1>1. CASE Send
  <2>1. /\ sent + 1 \in 1..MaxSent
        /\ {sent + 1} \ Control \subseteq Displayable
    BY <1>1 DEF Send
  <2>2. feed' \subseteq Displayable /\ lost' \subseteq Displayable
    BY <1>1, <2>1 DEF Send
  <2> QED BY <1>1, <2>1, <2>2 DEF Send, row
<1>2. CASE Disconnect
  <2>1. outages' \in Nat /\ feed' \subseteq Displayable /\ lost' \subseteq Displayable
    BY <1>2 DEF Disconnect
  <2> QED BY <1>2, <2>1 DEF Disconnect, row
<1>3. CASE Reconnect
  BY <1>3 DEF Reconnect, row
<1>4. CASE SyncList
  BY <1>4 DEF SyncList, world
<1>5. ASSUME NEW m \in All, Deliver(m) PROVE TypeOK'
  BY <1>5 DEF Deliver, Ingest
<1>6. ASSUME NEW m \in All, Echo(m) PROVE TypeOK'
  BY <1>6 DEF Echo, Ingest
<1>7. ASSUME NEW t \in refreshes, RefreshFetch(t) PROVE TypeOK'
  <2>1. [t EXCEPT !.top = sent] \in Refresh
    BY DEF Refresh
  <2> QED BY <1>7, <2>1 DEF RefreshFetch, world, row
<1>8. ASSUME NEW t \in refreshes, RefreshFails(t) PROVE TypeOK'
  BY <1>8 DEF RefreshFails, world, row
<1>9. ASSUME NEW t \in refreshes, RefreshStore(t) PROVE TypeOK'
  <2>1. t.top \in 0..MaxSent
    BY <1>9 DEF RefreshStore, Refresh
  <2> QED BY <1>9, <2>1, PageTyped DEF RefreshStore, world
<1>10. ASSUME NEW p \in pulls, PullFetch(p) PROVE TypeOK'
  <2>1. [p EXCEPT !.top = IF p.from = NoCursor THEN sent ELSE p.from - 1] \in Pull
    BY DEF Pull
  <2> QED BY <1>10, <2>1 DEF PullFetch, world, row
<1>11. ASSUME NEW p \in pulls, PullFails(p) PROVE TypeOK'
  BY <1>11 DEF PullFails, world, row
<1>12. ASSUME NEW p \in pulls, PullStore(p) PROVE TypeOK'
  <2>1. p.top \in 0..MaxSent
    BY <1>12 DEF PullStore, Pull
  <2> QED BY <1>12, <2>1, PageTyped DEF PullStore, world
<1>13. CASE Open
  <2>1. NewestPage.more \in BOOLEAN
    BY DEF NewestPage, Overflows
  <2>2. [had |-> NewestPage.more, top |-> Asked] \in Refresh
    BY <2>1 DEF Refresh
  <2> QED BY <1>13, <2>2 DEF Open, world, row
<1>14. ASSUME NEW b \in All, Backfill(b) PROVE TypeOK'
  <2>1. [from |-> cursor, top |-> Asked] \in Pull
    BY DEF Pull
  <2> QED BY <1>14, <2>1 DEF Backfill, world, row
<1>15. CASE UNCHANGED vars
  BY <1>15 DEF vars, world, row
<1> QED BY <1>1, <1>2, <1>3, <1>4, <1>5, <1>6, <1>7, <1>8, <1>9, <1>10, <1>11,
           <1>12, <1>13, <1>14, <1>15 DEF Next, Service, Tasks

(* The row after a page is stored. The frontier may only move to a page    *)
(* that joins what is known, and "no more" only be said of one that does.  *)
LEMMA RowStaysSound ==
    ASSUME TypeOK, TypeOK', Sound, [Next]_vars, NEW top \in 0..MaxSent,
           Known(top + 1), stored' = StoredBy(top), UNCHANGED world,
           cursor' = IF Advances(top) THEN Oldest(top) ELSE cursor,
           more' \in {MoreAfter(top), MoreAfterPull(top)}
    PROVE  /\ ~ more' => Known(1)'
           /\ cursor' # NoCursor => Known(cursor)'
<1>1. Known(Oldest(top))' /\ (~ Full(top) => Known(1)')
  BY PageExtends
<1>2. ASSUME NEW b \in Int, b = cursor, b # NoCursor PROVE Known(b)'
  BY <1>2, KnownStays DEF Sound
<1>3. ~ more => Known(1)'
  BY KnownStays DEF Sound
<1>4. cursor' # NoCursor => Known(cursor)'
  <2>1. CASE Advances(top)
    <3>1. cursor' = Oldest(top)
      BY <2>1
    <3>2. Oldest(top)' = Oldest(top)
      BY DEF Oldest
    <3> QED BY <1>1, <3>1, <3>2 DEF Known
  <2>2. CASE ~ Advances(top)
    BY <1>2, <2>2, SizesAssumption DEF Known, TypeOK, All, NoCursor
  <2> QED BY <2>1, <2>2
<1>5. ~ more' => Known(1)'
  BY <1>1, <1>3 DEF MoreAfter, MoreAfterPull, IsTheEnd
<1> QED BY <1>4, <1>5

LEMMA SoundStep ==
    ASSUME TypeOK, TypeOK', Sound, [Next]_vars
    PROVE  Sound'
<1> USE DEF NoCursor, Asked
<1> DEFINE RowSound == /\ ~ more' => Known(1)'
                       /\ cursor' # NoCursor => Known(cursor)'
           TasksSound == /\ \A t \in refreshes' : Joins(t)'
                         /\ \A p \in pulls' :
                             Joins(p)' /\ (p.from # NoCursor => Known(p.from)')
<1>a. \A b \in Int : Known(b) => Known(b)'
  BY KnownStays
<1>b. ASSUME UNCHANGED <<cursor, more>> PROVE RowSound
  BY <1>a, <1>b, SizesAssumption DEF Sound, TypeOK, All, Known
<1>c. /\ \A t \in refreshes : t.top \in Int
      /\ \A p \in pulls : p.top \in Int /\ p.from \in Int
  BY SizesAssumption DEF TypeOK, Refresh, Pull, All
<1>d. ASSUME NEW t, t.top \in Int, Joins(t) PROVE Joins(t)'
  BY <1>a, <1>d DEF Joins
<1>e. ASSUME NEW p, p.from \in Int, p.from # NoCursor => Known(p.from)
      PROVE  p.from # NoCursor => Known(p.from)'
  BY <1>a, <1>e
<1>f. /\ \A t \in refreshes : Joins(t)'
      /\ \A p \in pulls : Joins(p)' /\ (p.from # NoCursor => Known(p.from)')
  BY <1>c, <1>d, <1>e DEF Sound
<1>g. ASSUME refreshes' \subseteq refreshes, pulls' \subseteq pulls PROVE TasksSound
  BY <1>f, <1>g
<1>h. ASSUME RowSound, TasksSound PROVE Sound'
  BY <1>h DEF Sound
<1>i. ASSUME NEW x, refreshes' \subseteq refreshes \cup {x}, pulls' \subseteq pulls,
             Joins(x)'
      PROVE  TasksSound
  BY <1>f, <1>i
<1>j. ASSUME NEW x, refreshes' \subseteq refreshes, pulls' \subseteq pulls \cup {x},
             Joins(x)', x.from # NoCursor => Known(x.from)'
      PROVE  TasksSound
  BY <1>f, <1>j
<1> HIDE DEF RowSound, TasksSound
<1>1. CASE Service
  <2>1. UNCHANGED <<cursor, more, refreshes, pulls>>
    BY <1>1 DEF Service, Send, Disconnect, Reconnect, SyncList, Deliver, Echo,
                Ingest, row
  <2> QED BY <2>1, <1>b, <1>g, <1>h
<1>2. ASSUME NEW t \in refreshes, RefreshFetch(t) PROVE Sound'
  <2>1. UNCHANGED <<cursor, more, pulls>>
    BY <1>2 DEF RefreshFetch, row
  <2> PICK x : x = [t EXCEPT !.top = sent]
    OBVIOUS
  <2>2. x.top = sent' /\ refreshes' \subseteq refreshes \cup {x}
    BY <1>2 DEF RefreshFetch, world, TypeOK, Refresh
  <2>3. Joins(x)'
    BY <2>2, SizesAssumption DEF Joins, Known, TypeOK
  <2>4. TasksSound
    BY <1>i, <2>1, <2>2, <2>3
  <2> QED BY <2>1, <2>4, <1>b, <1>h
<1>3. ASSUME NEW t \in refreshes, RefreshFails(t) PROVE Sound'
  <2>1. UNCHANGED <<cursor, more, pulls>> /\ refreshes' \subseteq refreshes
    BY <1>3 DEF RefreshFails, row
  <2> QED BY <2>1, <1>b, <1>g, <1>h
<1>4. ASSUME NEW t \in refreshes, RefreshStore(t) PROVE Sound'
  <2>1. t.top \in 0..MaxSent /\ Known(t.top + 1)
    BY <1>4 DEF RefreshStore, TypeOK, Refresh, Sound, Joins
  <2>2. RowSound
    BY <1>4, <2>1, RowStaysSound DEF RefreshStore, RowSound
  <2>3. TasksSound
    BY <1>4, <1>g DEF RefreshStore
  <2> QED BY <2>2, <2>3, <1>h
<1>5. ASSUME NEW p \in pulls, PullFetch(p) PROVE Sound'
  <2> DEFINE top == IF p.from = NoCursor THEN sent ELSE p.from - 1
             q == [p EXCEPT !.top = top]
  <2>1. UNCHANGED <<cursor, more, refreshes>>
    BY <1>5 DEF PullFetch, row
  <2>2. /\ q.top = top
        /\ q.from = p.from
    BY DEF TypeOK, Pull
  <2>3. Known(top + 1)'
    <3>1. CASE p.from = NoCursor
      BY <1>5, <3>1, SizesAssumption DEF Known, PullFetch, world, TypeOK
    <3>2. CASE p.from # NoCursor
      <4>1. top + 1 = p.from
        BY <1>c, <3>2
      <4> QED BY <1>f, <3>2, <4>1
    <3> QED BY <3>1, <3>2
  <2> PICK x : x = q
    OBVIOUS
  <2>4. x.top + 1 = top + 1 /\ x.from = p.from /\ pulls' \subseteq pulls \cup {x}
    BY <1>5, <2>2 DEF PullFetch
  <2>5. top' = top
    BY <1>5 DEF PullFetch, world
  <2>6. Joins(x)' /\ (x.from # NoCursor => Known(x.from)')
    BY <1>f, <2>3, <2>4, <2>5 DEF Joins
  <2>7. TasksSound
    BY <1>j, <2>1, <2>4, <2>6
  <2> QED BY <2>1, <2>7, <1>b, <1>h
<1>6. ASSUME NEW p \in pulls, PullFails(p) PROVE Sound'
  <2>1. UNCHANGED <<cursor, more, refreshes>> /\ pulls' \subseteq pulls
    BY <1>6 DEF PullFails, row
  <2> QED BY <2>1, <1>b, <1>g, <1>h
<1>7. ASSUME NEW p \in pulls, PullStore(p) PROVE Sound'
  <2>1. p.top \in 0..MaxSent /\ Known(p.top + 1)
    BY <1>7 DEF PullStore, TypeOK, Pull, Sound, Joins
  <2>2. RowSound
    BY <1>7, <2>1, RowStaysSound DEF PullStore, RowSound
  <2>3. TasksSound
    BY <1>7, <1>g DEF PullStore
  <2> QED BY <2>2, <2>3, <1>h
<1>8. CASE Open
  <2> PICK x : x = [had |-> NewestPage.more, top |-> Asked]
    OBVIOUS
  <2>1. UNCHANGED <<cursor, more, pulls>> /\ refreshes' = refreshes \cup {x}
    BY <1>8 DEF Open, row
  <2>2. Joins(x)'
    BY DEF Joins
  <2> QED BY <2>1, <2>2, <1>b, <1>h, <1>i
<1>9. ASSUME NEW b \in All, Backfill(b) PROVE Sound'
  <2> PICK x : x = [from |-> cursor, top |-> Asked]
    OBVIOUS
  <2>1. UNCHANGED <<cursor, more, refreshes>> /\ pulls' \subseteq pulls \cup {x}
    BY <1>9 DEF Backfill, row
  <2>2. x.from \in Int /\ (x.from # NoCursor => Known(x.from))
    BY SizesAssumption DEF Sound, TypeOK, All
  <2>3. Joins(x)' /\ (x.from # NoCursor => Known(x.from)')
    BY <2>2, <1>e DEF Joins
  <2> QED BY <2>1, <2>3, <1>b, <1>h, <1>j
<1>10. CASE UNCHANGED vars
  BY <1>10, <1>b, <1>g, <1>h DEF vars, row
<1> QED BY <1>1, <1>2, <1>3, <1>4, <1>5, <1>6, <1>7, <1>8, <1>9, <1>10
           DEF Next, Tasks

(* The frontier never leaves a gap: whatever order refreshes, pages, live  *)
(* frames and outages come in, the store holds all of a thread from its    *)
(* recorded cursor on, but for what is on its way or was lost.             *)
THEOREM NoGapAboveFrontier == Spec => [](TypeOK /\ FrontierHolds)
<1>1. Init => TypeOK /\ Sound
  <2>1. Init => Sound
    BY DEF Init, Sound
  <2>2. Before \in 0..MaxSent
    BY SizesAssumption
  <2>3. ASSUME Init PROVE TypeOK
    <3>1. outages \in Nat /\ echoes \in Nat
      BY <2>3 DEF Init
    <3> QED BY <2>2, <2>3, <3>1, Zenon DEF Init, TypeOK
  <2> QED BY <2>1, <2>3
<1>2. TypeOK /\ Sound /\ [Next]_vars => (TypeOK /\ Sound)'
  BY TypeStep, SoundStep
<1>3. TypeOK /\ Sound => FrontierHolds
  BY SizesAssumption DEF TypeOK, Sound, FrontierHolds, Paged, Known, All, NoCursor
<1> QED BY <1>1, <1>2, <1>3, PTL DEF Spec

-----------------------------------------------------------------------------
(* The composition of the store and the page is a behaviour of the store,  *)
(* so what the first part says of the store holds under any reader.        *)

Together == Backend \/ Fault \/ Page

-----------------------------------------------------------------------------
(* Where an older page's request goes to the network, it does not matter   *)
(* which message it was asked from: it starts at the frontier.             *)
LEMMA AnyMessageWillDo ==
    ASSUME TypeOK, NEW b, Backfill(b), All # {}
    PROVE  UNCHANGED vars \/ \E a \in All : Backfill(a)
<1>1. CASE AnswersLocally(b)
  BY <1>1 DEF Backfill, vars, world, row
<1>2. CASE ~ AnswersLocally(b)
  <2>1. 1 \in All
    BY SizesAssumption DEF All
  <2>2. OlderThan(1) = {}
    <3>1. stored \subseteq 1..MaxSent
      BY DEF TypeOK, Displayable, All
    <3>2. \A m \in 1..MaxSent : ~ (m < 1)
      BY SizesAssumption
    <3>3. {m \in stored : m < 1} = {}
      BY <3>1, <3>2
    <3> QED BY <3>3 DEF OlderThan
  <2>3. more /\ CachedPage(1).msgs = {}
    BY <1>2, <2>2 DEF AnswersLocally, CachedPage, Newest
  <2>4. ~ AnswersLocally(1)
    BY <2>3 DEF AnswersLocally
  <2>5. Backfill(1)
    BY <1>2, <2>4 DEF Backfill
  <2> QED BY <2>1, <2>5
<1> QED BY <1>1, <1>2

(* Every step of the composition is a step of the store, or none of it.    *)
LEMMA StepsOfTheStore ==
    ASSUME TypeOK, ViewTypeOK, [Together]_allvars
    PROVE  [Next]_vars
<1>1. CASE UNCHANGED allvars
  BY <1>1 DEF allvars
<1>2. CASE Backend \/ Fault
  BY <1>2 DEF Backend, Fault, Quiet, Recover, Live, StoreRefresh, StorePull,
              FailRefresh, FailPull, Next, Service, Tasks
<1>3. CASE OpenThread \/ Reconcile
  BY <1>3 DEF OpenThread, Reconcile, Next
<1>4. CASE LeaveThread \/ Evict \/ Receive
  BY <1>4 DEF LeaveThread, Evict, Receive
<1>5. CASE ScrollUp
  <2>1. All # {}
    BY <1>5 DEF ScrollUp, MayPage, ViewTypeOK, Displayable
  <2>2. Backfill(OldestOf(cache.msgs))
    BY <1>5 DEF ScrollUp
  <2> QED BY <2>1, <2>2, AnyMessageWillDo DEF Next
<1> QED BY <1>1, <1>2, <1>3, <1>4, <1>5 DEF Together, Page

-----------------------------------------------------------------------------
(* Types. A page the backend tells of holds messages of the thread only.   *)

(* Each of the backend's answers is a notice, before or after its step.    *)
LEMMA AnswersAreNotices ==
    ASSUME TypeOK
    PROVE  /\ Notice("opened", NewestPage) \in Notices
           /\ Notice("updated", NewestPage) \in Notices
           /\ \A b : Notice("older", CachedPage(b)) \in Notices
           /\ \A t \in Int : \A still \in BOOLEAN : t <= MaxSent =>
                Notice("older", [msgs |-> Displayed(t), more |-> still]) \in Notices
           /\ \A m \in Displayable :
                Notice("message", [msgs |-> {m}, more |-> TRUE]) \in Notices
<1>1. \A S : Overflows(S) \in BOOLEAN
  BY DEF Overflows
<1>2. \A S : Newest(S) \subseteq S
  BY DEF Newest
<1>3. stored \subseteq Displayable /\ more \in BOOLEAN
  BY DEF TypeOK
<1>4. \A b : OlderThan(b) \subseteq Displayable
  BY <1>3 DEF OlderThan
<1>5. \A t \in Int : t <= MaxSent => Displayed(t) \subseteq Displayable
  BY SizesAssumption DEF Displayed, Raw, Displayable, All
<1>6. /\ NewestPage.msgs \subseteq Displayable /\ NewestPage.more \in BOOLEAN
      /\ \A b : /\ CachedPage(b).msgs \subseteq Displayable
                /\ CachedPage(b).more \in BOOLEAN
  BY <1>1, <1>2, <1>3, <1>4 DEF NewestPage, CachedPage
<1> QED BY <1>3, <1>5, <1>6 DEF Notice, Notices, Kinds

(* Writing a notice to the socket, and taking the first one off it.        *)
LEMMA Telling ==
    ASSUME inbox \in Seq(Notices), NEW n \in Notices, Tell(n)
    PROVE  inbox' \in Seq(Notices)
  BY AppendProperties DEF Tell

LEMMA TypesOfTheView ==
    ASSUME TypeOK, TypeOK', ViewTypeOK, [Together]_allvars
    PROVE  ViewTypeOK'
<1> USE DEF ViewTypeOK
<1>0. strayed' \in BOOLEAN /\ misled' \in BOOLEAN
  <2>1. CASE UNCHANGED past
    BY <2>1 DEF past
  <2>2. CASE LeaveThread
    BY <2>2 DEF LeaveThread, UnderWay
  <2>3. CASE Receive \/ (\E p \in pulls : FailPull(p)) \/ \E t \in refreshes : StoreRefresh(t)
    BY <2>3 DEF Receive, FailPull, StoreRefresh
  <2> QED BY <2>1, <2>2, <2>3 DEF Together, Backend, Fault, Page, Quiet, Recover, Live, StorePull,
             FailRefresh, OpenThread, Evict, ScrollUp, Reconcile, allvars, view
<1>1. CASE UNCHANGED allvars
  BY <1>0, <1>1 DEF allvars, view, pane
<1>2. CASE Quiet \/ Recover
  BY <1>0, <1>2 DEF Quiet, Recover, view, pane
<1>3. ASSUME NEW m \in All, Live(m) PROVE ViewTypeOK'
  <2>1. m \in Displayable
    BY <1>3 DEF Live, Deliver, Echo, TypeOK, Displayable, All
  <2>2. inbox' \in Seq(Notices)
    BY <1>3, <2>1, AnswersAreNotices, Telling DEF Live
  <2> QED BY <1>0, <1>3, <2>2 DEF Live, pane
<1>4. ASSUME NEW t \in refreshes, StoreRefresh(t) \/ FailRefresh(t) PROVE ViewTypeOK'
  <2>1. Notice("updated", NewestPage') \in Notices
    BY AnswersAreNotices DEF TypeOK, NewestPage, Newest, Overflows, Notice, Notices, Kinds
  <2>2. inbox' \in Seq(Notices)
    BY <1>4, <2>1, Telling DEF StoreRefresh, FailRefresh, view
  <2> QED BY <1>0, <1>4, <2>2 DEF StoreRefresh, FailRefresh, view, pane
<1>5. ASSUME NEW p \in pulls, StorePull(p) \/ FailPull(p) PROVE ViewTypeOK'
  <2>1. CASE StorePull(p)
    <3>1. p.top \in Int /\ p.top <= MaxSent /\ more' \in BOOLEAN
      BY <2>1, SizesAssumption DEF StorePull, PullStore, TypeOK, Pull, Asked
    <3>2. Notice("older", [msgs |-> Displayed(p.top), more |-> more']) \in Notices
      BY <3>1, AnswersAreNotices
    <3>3. inbox' \in Seq(Notices)
      BY <2>1, <3>2, Telling DEF StorePull
    <3> QED BY <1>0, <2>1, <3>3 DEF StorePull, pane
  <2>2. CASE FailPull(p)
    BY <1>0, <2>2 DEF FailPull
  <2> QED BY <1>5, <2>1, <2>2
<1>6. CASE OpenThread \/ Reconcile
  <2>1. inbox' \in Seq(Notices)
    BY <1>6, AnswersAreNotices, Telling DEF OpenThread, Reconcile
  <2>2. CASE OpenThread
    <3>1. canPage' \in BOOLEAN /\ opens' \in Nat
      BY <2>2 DEF OpenThread
    <3> QED BY <1>0, <2>1, <2>2, <3>1 DEF OpenThread
  <2>3. CASE Reconcile
    BY <1>0, <2>1, <2>3 DEF Reconcile
  <2> QED BY <1>6, <2>2, <2>3
<1>7. CASE LeaveThread \/ Evict
  <2>1. Latest(cache.msgs) \subseteq cache.msgs
    BY DEF Latest
  <2>2. cache' \in [msgs : SUBSET Displayable, more : BOOLEAN, held : BOOLEAN]
    <3>1. NoPage \in [msgs : SUBSET Displayable, more : BOOLEAN, held : BOOLEAN]
      BY DEF NoPage
    <3>2. Trimmed(cache) \in [msgs : SUBSET Displayable, more : BOOLEAN, held : BOOLEAN]
      BY <2>1 DEF Trimmed
    <3> QED BY <1>7, <3>1, <3>2 DEF LeaveThread, Evict
  <2> QED BY <1>0, <1>7, <2>2 DEF LeaveThread, Evict
<1>8. CASE ScrollUp
  <2>1. inbox' \in Seq(Notices)
    BY <1>8, AnswersAreNotices, Telling DEF ScrollUp
  <2> QED BY <1>0, <1>8, <2>1 DEF ScrollUp
<1>9. CASE Receive
  <2>1. Head(inbox) \in Notices /\ inbox' \in Seq(Notices)
    BY <1>9, HeadTailProperties DEF Receive
  <2>2. Merged(Head(inbox)) \in [msgs : SUBSET Displayable, more : BOOLEAN, held : BOOLEAN]
    BY <2>1 DEF Merged, MoreOf, Notices
  <2> QED BY <1>0, <1>9, <2>1, <2>2 DEF Receive
<1> QED BY <1>1, <1>2, <1>3, <1>4, <1>5, <1>6, <1>7, <1>8, <1>9
        DEF Together, Backend, Fault, Page

-----------------------------------------------------------------------------
(* Theorems.                                                               *)

LEMMA TypesTogether == ViewSpec => [](TypeOK /\ ViewTypeOK)
<1>1. ViewInit => TypeOK /\ ViewTypeOK
  <2> SUFFICES ASSUME ViewInit PROVE TypeOK /\ ViewTypeOK
    OBVIOUS
  <2>1. Before \in 0..MaxSent /\ outages \in Nat /\ echoes \in Nat /\ opens \in Nat
    BY SizesAssumption DEF ViewInit, Init
  <2>2. TypeOK
    BY <2>1, Zenon DEF ViewInit, Init, TypeOK
  <2>3. inbox \in Seq(Notices)
    BY EmptySeq DEF ViewInit
  <2>4. cache \in [msgs : SUBSET Displayable, more : BOOLEAN, held : BOOLEAN]
    BY DEF ViewInit, NoPage
  <2>5. strayed \in BOOLEAN /\ misled \in BOOLEAN
    BY DEF ViewInit
  <2> QED BY <2>1, <2>2, <2>3, <2>4, <2>5, Zenon DEF ViewInit, ViewTypeOK
<1>2. TypeOK /\ ViewTypeOK /\ [Together]_allvars => (TypeOK /\ ViewTypeOK)'
  BY StepsOfTheStore, TypeStep, TypesOfTheView
<1> QED BY <1>1, <1>2, PTL DEF ViewSpec, Together

(* Every reachable state of the page, and what is on its socket, is well   *)
(* typed.                                                                  *)
THEOREM ViewTypes == ViewSpec => []ViewTypeOK
  BY TypesTogether, PTL

(* Whatever the reader does, the composition is a behaviour of the store   *)
(* alone: the page adds no step to it.                                     *)
THEOREM ViewIsHistory == ViewSpec => Spec
<1>1. ViewInit => Init
  BY DEF ViewInit
<1>2. TypeOK /\ ViewTypeOK /\ [Together]_allvars => [Next]_vars
  BY StepsOfTheStore
<1> QED BY <1>1, <1>2, TypesTogether, PTL DEF ViewSpec, Spec, Together

(* So there is no gap above the store's frontier under any reader.         *)
THEOREM NoGapUnderAReader == ViewSpec => []FrontierHolds
  BY ViewIsHistory, NoGapAboveFrontier, PTL
-----------------------------------------------------------------------------
(* The top of a thread.  Where the pane says there is nothing older, what  *)
(* the service has is shown, or is newer than something shown, or has not  *)
(* been carried here.                                                      *)

(* A step that leaves no older page behind and after which the pane was    *)
(* never misled.                                                           *)
PatientStep == Together /\ ~ (LeaveThread /\ UnderWay') /\ ~ misled'

(* What the page has, or has been written to its socket in a notice of some *)
(* kinds; all but an older page are taken in wherever the reader is.       *)
Lasting == {"message", "opened", "updated"}
Sighted(K, n) ==
    \/ n \in cache.msgs
    \/ \E i \in 1..Len(inbox) : inbox[i].kind \in K /\ n \in inbox[i].msgs
Away(m) == m \in feed \/ m \in lost
Met(K, m) == Away(m) \/ \E n \in All : n <= m /\ Sighted(K, n)
Accounted(K) == \A m \in 1..sent \ Control : Met(K, m)
Places(k) == {i \in 1..Len(inbox) : inbox[i].kind = k}

(* One older page at a time, asked of a store that had more, in a thread   *)
(* that stays open until it is answered.                                   *)
OnePull ==
    /\ pulls # {} => opened /\ loading /\ more /\ Places("older") = {}
    /\ Places("older") # {} => opened /\ loading
    /\ \A p, q \in pulls : p = q
    /\ \A i, j \in Places("older") : i = j

(* What an older page will not bring, the page has met.                    *)
Above(p, m) == IF p.top = Asked THEN p.from # NoCursor /\ m >= p.from ELSE m > p.top
PullsJoin ==
    \A p \in pulls : \A m \in 1..sent \ Control : Above(p, m) => Met(Kinds, m)

(* "No more" is true of the cache, of what is on its way to it, and of     *)
(* what the pane shows.                                                    *)
HonestCache == ~ cache.more => Accounted(Lasting)
HonestOlder == \A i \in Places("older") : ~ inbox[i].more => Accounted(Kinds)
Whole(i) ==
    \A m \in 1..sent \ Control :
        Away(m) \/ \E j \in i..Len(inbox) : inbox[j].kind \in Lasting /\ m \in inbox[j].msgs
HonestPages == \A i \in Places("opened") \cup Places("updated") : ~ inbox[i].more => Whole(i)
HonestPane == opened /\ ~ canPage => (cache.held /\ ~ cache.more) \/ Places("opened") # {}

Typed == TypeOK /\ ViewTypeOK /\ Sound
Timely == ~ misled /\ ~ strayed
Honest ==
    /\ Timely => OnePull /\ PullsJoin /\ HonestOlder
    /\ ~ misled => HonestCache
    /\ HonestPages /\ HonestPane

-----------------------------------------------------------------------------
(* Sets of messages: the oldest of some, the newest of few.                *)

Earlier == {p \in Nat \X Nat : p[1] < p[2]}

LEMMA SmallestIs ==
    ASSUME NEW S \in SUBSET Nat, S # {}
    PROVE  \E m \in S : \A n \in S : m <= n
<1>1. IsWellFoundedOn(Earlier, Nat)
  BY NatLessThanWellFounded DEF OpToRel, Earlier
<1>2. PICK m \in S : \A n \in S : ~ (<<n, m>> \in Earlier)
  BY <1>1, WFMin
<1>3. ASSUME NEW n \in S PROVE m <= n
  <2>1. <<n, m>> \notin Earlier
    BY <1>2
  <2> QED BY <2>1 DEF Earlier
<1> QED BY <1>3

LEMMA OldestIsOne ==
    ASSUME NEW S \in SUBSET All, S # {}
    PROVE  OldestOf(S) \in S
<1>1. S \in SUBSET Nat
  BY SizesAssumption DEF All
<1>2. \E m \in S : \A n \in S : m <= n
  BY <1>1, SmallestIs
<1> QED BY <1>2 DEF OldestOf

LEMMA NewestIsSome ==
    ASSUME NEW S \in SUBSET All, S # {}
    PROVE  Newest(S) # {}
<1> DEFINE T == {MaxSent - s : s \in S}
<1>1. \A s \in S : s \in 1..MaxSent
  BY DEF All
<1>2. T \in SUBSET Nat /\ T # {} /\ \A s \in S : MaxSent - s \in T
  BY <1>1, SizesAssumption
<1>3. \A x \in T : \E s \in S : x = MaxSent - s
  OBVIOUS
<1> HIDE DEF T
<1>4. PICK x \in T : \A y \in T : x <= y
  BY <1>2, SmallestIs
<1>5. PICK s \in S : x = MaxSent - s
  BY <1>3
<1>6. \A n \in S : ~ (n > s)
  BY <1>1, <1>2, <1>4, <1>5, SizesAssumption
<1>7. {n \in S : n > s} = {}
  BY <1>6
<1>8. Cardinality({n \in S : n > s}) = 0
  BY <1>7, FS_EmptySet
<1> QED BY <1>5, <1>8, SizesAssumption DEF Newest

LEMMA NewestOfFew ==
    ASSUME NEW S \in SUBSET All, ~ Overflows(S)
    PROVE  Newest(S) = S
<1>1. IsFiniteSet(S)
  <2>1. IsFiniteSet(All) /\ All \subseteq Int
    BY FS_Interval, SizesAssumption DEF All
  <2> QED BY <2>1, FS_Subset
<1>2. Cardinality(S) \in Nat /\ Cardinality(S) <= PageSize
  BY <1>1, FS_CardinalityType, SizesAssumption DEF Overflows
<1>3. ASSUME NEW m \in S
      PROVE  Cardinality({n \in S : n > m}) < PageSize
  <2> DEFINE N == {n \in S : n > m}
  <2>1. N \in SUBSET (S \ {m})
    BY SizesAssumption DEF All
  <2> HIDE DEF N
  <2>2. IsFiniteSet(S \ {m}) /\ Cardinality(S \ {m}) = Cardinality(S) - 1
    BY <1>1, FS_RemoveElement
  <2>3. Cardinality(N) <= Cardinality(S \ {m}) /\ IsFiniteSet(N)
    BY <2>1, <2>2, FS_Subset
  <2>4. Cardinality(N) \in Nat
    BY <2>3, FS_CardinalityType
  <2>5. Cardinality(N) < PageSize
    BY <1>2, <2>2, <2>3, <2>4, SizesAssumption
  <2> QED BY <2>5 DEF N
<1> QED BY <1>3 DEF Newest

(* What the store believes to be all of a thread is all it answers.        *)
LEMMA NewestPageIsAll ==
    ASSUME TypeOK, Sound, ~ NewestPage.more
    PROVE  \A m \in 1..sent \ Control : Away(m) \/ m \in NewestPage.msgs
<1>1. ~ more /\ ~ Overflows(stored) /\ stored \in SUBSET All
  BY DEF NewestPage, TypeOK, Displayable
<1>2. NewestPage.msgs = stored
  BY <1>1, NewestOfFew DEF NewestPage
<1> QED BY <1>1, <1>2 DEF Sound, Known, Away

LEMMA CachedPageIsAll ==
    ASSUME TypeOK, Sound, NEW b \in All, ~ CachedPage(b).more
    PROVE  \A m \in 1..sent \ Control : Away(m) \/ b <= m \/ m \in CachedPage(b).msgs
<1>1. ~ more /\ ~ Overflows(OlderThan(b)) /\ OlderThan(b) \in SUBSET All
  BY DEF CachedPage, TypeOK, Displayable, OlderThan
<1>2. CachedPage(b).msgs = OlderThan(b)
  BY <1>1, NewestOfFew DEF CachedPage
<1>3. \A m \in 1..sent \ Control : Away(m) \/ m \in stored
  BY <1>1 DEF Sound, Known, Away
<1>4. \A m \in stored : m \in Int /\ b \in Int
  BY SizesAssumption DEF TypeOK, Displayable, All
<1> QED BY <1>2, <1>3, <1>4 DEF OlderThan

-----------------------------------------------------------------------------
(* The socket: a notice is written at its end and read at its front.       *)

Written(n) ==
    /\ Len(inbox') = Len(inbox) + 1
    /\ \A i \in 1..Len(inbox) : inbox'[i] = inbox[i]
    /\ inbox'[Len(inbox) + 1] = n

LEMMA TellWrites ==
    ASSUME inbox \in Seq(Notices), NEW n \in Notices, Tell(n)
    PROVE  Len(inbox) \in Nat /\ Written(n)
  BY AppendProperties, LenProperties DEF Tell, Written

LEMMA ReadTakes ==
    ASSUME inbox \in Seq(Notices), inbox # << >>, inbox' = Tail(inbox)
    PROVE  /\ Len(inbox) \in Nat /\ Len(inbox) > 0
           /\ Head(inbox) = inbox[1] /\ Head(inbox) \in Notices
           /\ Len(inbox') = Len(inbox) - 1
           /\ \A i \in 1..Len(inbox') : inbox'[i] = inbox[i + 1]
<1>1. Len(inbox) \in Nat \ {0}
  BY EmptySeq
<1>2. Head(inbox) = inbox[1]
  BY <1>1
<1> QED BY <1>1, <1>2, HeadTailProperties
(* What is written: a live message, the newest page as it then is, or the   *)
(* older page that was asked for.                                          *)
Says(n) ==
    \/ n.kind = "message"
    \/ n.kind \in {"opened", "updated"} /\ n.msgs = NewestPage'.msgs /\ n.more = NewestPage'.more
    \/ n.kind = "older" /\ (ScrollUp \/ \E p \in pulls : StorePull(p))

(* What a step does to the socket: it reads a notice, writes one or leaves it. *)
LEMMA SocketSteps ==
    ASSUME TypeOK, TypeOK', ViewTypeOK, [Together]_allvars
    PROVE  inbox' = inbox \/ Receive \/ \E n \in Notices : Written(n) /\ Says(n)
<1>0. inbox \in Seq(Notices)
  BY DEF ViewTypeOK
<1>1. CASE UNCHANGED allvars
  BY <1>1 DEF allvars, view
<1>2. CASE Quiet \/ Recover \/ LeaveThread \/ Evict
  BY <1>2 DEF Quiet, Recover, LeaveThread, Evict, view
<1>3. ASSUME NEW m \in All, Live(m) PROVE \E n \in Notices : Written(n) /\ Says(n)
  <2> DEFINE n == Notice("message", [msgs |-> {m}, more |-> TRUE])
  <2>1. m \in Displayable
    BY <1>3 DEF Live, Deliver, Echo, TypeOK, Displayable, All
  <2>2. n \in Notices /\ Tell(n)
    BY <1>3, <2>1, AnswersAreNotices DEF Live
  <2>3. Says(n)
    BY DEF Says, Notice
  <2> QED BY <1>0, <2>2, <2>3, TellWrites
<1>4. ASSUME NEW t \in refreshes, StoreRefresh(t) \/ FailRefresh(t)
      PROVE  inbox' = inbox \/ \E n \in Notices : Written(n) /\ Says(n)
  <2>1. Notice("updated", NewestPage') \in Notices
    BY AnswersAreNotices DEF TypeOK, NewestPage, Newest, Overflows, Notice, Notices, Kinds
  <2>2. Says(Notice("updated", NewestPage'))
    BY DEF Says, Notice
  <2>3. inbox' = inbox \/ Tell(Notice("updated", NewestPage'))
    BY <1>4 DEF StoreRefresh, FailRefresh, view
  <2> QED BY <1>0, <2>1, <2>2, <2>3, TellWrites
<1>5. ASSUME NEW p \in pulls, StorePull(p) \/ FailPull(p)
      PROVE  inbox' = inbox \/ \E n \in Notices : Written(n) /\ Says(n)
  <2>1. CASE StorePull(p)
    <3> DEFINE n == Notice("older", [msgs |-> Displayed(p.top), more |-> more'])
    <3>1. p.top \in Int /\ p.top <= MaxSent /\ more' \in BOOLEAN
      BY <2>1, SizesAssumption DEF StorePull, PullStore, TypeOK, Pull, Asked
    <3>2. n \in Notices /\ Tell(n)
      BY <2>1, <3>1, AnswersAreNotices DEF StorePull
    <3>3. Says(n)
      BY <2>1 DEF Says, Notice
    <3> QED BY <1>0, <3>2, <3>3, TellWrites
  <2>2. CASE FailPull(p)
    BY <2>2 DEF FailPull
  <2> QED BY <1>5, <2>1, <2>2
<1>6. CASE OpenThread \/ Reconcile
  <2> DEFINE n == Notice("opened", NewestPage)
  <2>1. n \in Notices /\ Tell(n)
    BY <1>6, AnswersAreNotices DEF OpenThread, Reconcile
  <2>2. NewestPage' = NewestPage
    BY <1>6 DEF OpenThread, Reconcile, Open, NewestPage, row
  <2>3. Says(n)
    BY <2>2 DEF Says, Notice
  <2> QED BY <1>0, <2>1, <2>3, TellWrites
<1>7. CASE ScrollUp
  <2> DEFINE n == Notice("older", CachedPage(OldestOf(cache.msgs)))
  <2>1. n \in Notices /\ (inbox' = inbox \/ Tell(n))
    BY <1>7, AnswersAreNotices DEF ScrollUp
  <2>2. Says(n)
    BY <1>7 DEF Says, Notice
  <2> QED BY <1>0, <2>1, <2>2, TellWrites
<1> QED BY <1>1, <1>2, <1>3, <1>4, <1>5, <1>6, <1>7
        DEF Together, Backend, Fault, Page

Last(m) ==
    /\ Len(inbox') = Len(inbox) + 1 /\ m \in inbox'[Len(inbox) + 1].msgs
    /\ inbox'[Len(inbox) + 1].kind = "message"

(* A message under way stays so, or is written to the socket; a new one is *)
(* under way or lost.                                                      *)
LEMMA Carrying ==
    ASSUME TypeOK, ViewTypeOK, [Together]_allvars
    PROVE  /\ \A m \in 1..sent' \ Control : m \in 1..sent \/ Away(m)'
           /\ \A m : Away(m) => Away(m)' \/ Last(m)
<1> USE DEF Away
<1>1. CASE UNCHANGED <<sent, feed, lost>>
  BY <1>1
<1>2. CASE Send
  BY <1>2 DEF Send, TypeOK
<1>3. CASE Disconnect
  BY <1>3 DEF Disconnect
<1>4. ASSUME NEW m \in All, Live(m) PROVE UNCHANGED sent /\ \A n : Away(n) => Away(n)' \/ Last(n)
  <2>1. UNCHANGED <<sent, lost>> /\ feed' \in {feed, feed \ {m}}
    BY <1>4 DEF Live, Deliver, Echo
  <2>2. m \in Displayable
    BY <1>4 DEF Live, Deliver, Echo, TypeOK, Displayable, All
  <2>3. Written(Notice("message", [msgs |-> {m}, more |-> TRUE])) /\ Len(inbox) \in Nat
    BY <1>4, <2>2, AnswersAreNotices, TellWrites DEF Live, ViewTypeOK
  <2>4. Last(m)
    BY <2>3 DEF Written, Notice, Last
  <2> QED BY <2>1, <2>4
<1>5. CASE UNCHANGED allvars \/ Recover \/ OpenThread \/ LeaveThread \/ Evict \/ ScrollUp
           \/ Reconcile \/ Receive \/ SyncList
           \/ (\E t \in refreshes : RefreshFetch(t) \/ StoreRefresh(t) \/ FailRefresh(t))
           \/ (\E p \in pulls : PullFetch(p) \/ StorePull(p) \/ FailPull(p))
  BY <1>1, <1>5 DEF allvars, vars, world, Recover, Reconnect, OpenThread, LeaveThread, Evict,
     ScrollUp, Reconcile, Receive, SyncList, Open, Backfill, RefreshFetch, StoreRefresh,
     RefreshStore, FailRefresh, RefreshFails, PullFetch, StorePull, PullStore, FailPull, PullFails
<1> QED BY <1>2, <1>3, <1>4, <1>5 DEF Together, Backend, Fault, Page, Quiet

(* As long as the page keeps what it has, what it has met stays met.       *)
LEMMA MetStays ==
    ASSUME TypeOK, TypeOK', ViewTypeOK, [Together]_allvars, cache' = cache \/ Receive,
           NEW K, "message" \in K, "older" \in K => OnePull
    PROVE  /\ \A m : Met(K, m) => Met(K, m)'
           /\ Accounted(K) => Accounted(K)'
<1>1. ASSUME NEW x, Sighted(K, x) PROVE Sighted(K, x)'
  <2>1. CASE Receive
    <3>1. /\ Len(inbox) \in Nat /\ Len(inbox) > 0
          /\ Head(inbox) = inbox[1] /\ Len(inbox') = Len(inbox) - 1
          /\ \A i \in 1..Len(inbox') : inbox'[i] = inbox[i + 1]
      BY <2>1, ReadTakes DEF Receive, ViewTypeOK
    <3>2. inbox[1].kind \in K => ~ (inbox[1].kind = "older" /\ ~ opened)
      BY <3>1 DEF OnePull, Places
    <3>3. cache' = cache \/ cache' = Merged(inbox[1])
      BY <2>1, <3>1 DEF Receive
    <3>4. cache.msgs \subseteq cache'.msgs
      BY <3>3 DEF Merged
    <3>5. ASSUME NEW i \in 1..Len(inbox), inbox[i].kind \in K, x \in inbox[i].msgs
          PROVE  Sighted(K, x)'
      <4>1. CASE i = 1
        <5>1. cache' = Merged(inbox[1])
          BY <2>1, <3>1, <3>2, <3>5, <4>1 DEF Receive
        <5> QED BY <3>5, <4>1, <5>1 DEF Merged, Sighted
      <4>2. CASE i # 1
        <5>1. i - 1 \in 1..Len(inbox') /\ inbox'[i - 1] = inbox[i]
          BY <3>1, <4>2
        <5> QED BY <3>5, <5>1 DEF Sighted
      <4> QED BY <4>1, <4>2
    <3> QED BY <1>1, <3>4, <3>5 DEF Sighted
  <2>2. CASE inbox' = inbox /\ cache' = cache
    BY <1>1, <2>2 DEF Sighted
  <2>3. ASSUME cache' = cache, NEW n \in Notices, Written(n) PROVE Sighted(K, x)'
    <3>1. \A i \in 1..Len(inbox) : i \in 1..Len(inbox') /\ inbox'[i] = inbox[i]
      BY <2>3, LenProperties DEF Written, ViewTypeOK
    <3> QED BY <1>1, <2>3, <3>1 DEF Sighted
  <2> QED BY <2>1, <2>2, <2>3, SocketSteps
<1>2. ASSUME NEW m, Met(K, m) PROVE Met(K, m)'
  <2>1. CASE Away(m)
    <3>1. m \in All
      BY <2>1 DEF Away, TypeOK, Displayable
    <3>2. m <= m
      BY <3>1, SizesAssumption DEF All
    <3>3. Last(m) => Sighted(K, m)'
      <4>1. Len(inbox) \in Nat
        BY LenProperties DEF ViewTypeOK
      <4>2. Last(m) => Len(inbox) + 1 \in 1..Len(inbox')
        BY <4>1 DEF Last
      <4> QED BY <4>2 DEF Last, Sighted
    <3> QED BY <2>1, <3>1, <3>2, <3>3, Carrying DEF Met
  <2>2. CASE \E n \in All : n <= m /\ Sighted(K, n)
    BY <1>1, <2>2 DEF Met
  <2> QED BY <1>2, <2>1, <2>2 DEF Met
<1>3. ASSUME Accounted(K) PROVE Accounted(K)'
  <2>1. \A m \in 1..sent' \ Control : m \in 1..sent \ Control \/ Away(m)'
    BY Carrying
  <2> QED BY <1>2, <1>3, <2>1 DEF Accounted, Met
<1> QED BY <1>2, <1>3
LEMMA PlacesWritten ==
    ASSUME inbox \in Seq(Notices), NEW n, Written(n), NEW k
    PROVE  Places(k)' = IF n.kind = k THEN Places(k) \cup {Len(inbox) + 1} ELSE Places(k)
<1>1. Len(inbox) \in Nat
  BY LenProperties
<1>2. 1..Len(inbox') = 1..Len(inbox) \cup {Len(inbox) + 1}
  BY <1>1 DEF Written
<1>3. Len(inbox) + 1 \notin 1..Len(inbox)
  BY <1>1
<1> QED BY <1>2, <1>3 DEF Written, Places

LEMMA PlacesRead ==
    ASSUME inbox \in Seq(Notices), Receive, NEW k
    PROVE  \A i \in Places(k)' : i + 1 \in Places(k) /\ i \in 1..Len(inbox') /\ inbox'[i] = inbox[i + 1]
<1>1. Len(inbox) \in Nat /\ Len(inbox') = Len(inbox) - 1
      /\ \A i \in 1..Len(inbox') : inbox'[i] = inbox[i + 1]
  BY ReadTakes DEF Receive
<1> QED BY <1>1 DEF Places

LEMMA OnePullStep ==
    ASSUME TypeOK, TypeOK', ViewTypeOK, OnePull, [PatientStep]_allvars
    PROVE  OnePull'
<1>0. inbox \in Seq(Notices) /\ Len(inbox) \in Nat /\ more \in BOOLEAN
  BY LenProperties DEF ViewTypeOK, TypeOK
<1>a. ASSUME UNCHANGED <<pulls, opened, loading>>, pulls # {} /\ more => more',
             inbox' = inbox \/ \E n : n.kind # "older" /\ Written(n)
      PROVE  OnePull'
  <2>1. Places("older")' = Places("older")
    <3>1. CASE inbox' = inbox
      BY <3>1 DEF Places
    <3>2. ASSUME NEW n, n.kind # "older", Written(n) PROVE Places("older")' = Places("older")
      BY <1>0, <3>2, PlacesWritten
    <3> QED BY <1>a, <3>1, <3>2
  <2>2. pulls' = pulls /\ opened' = opened /\ loading' = loading
    BY <1>a
  <2>3. pulls' # {} => opened' /\ loading' /\ more' /\ Places("older")' = {}
    BY <1>a, <2>1, <2>2 DEF OnePull
  <2>4. Places("older")' # {} => opened' /\ loading'
    BY <2>1, <2>2 DEF OnePull
  <2> QED BY <2>1, <2>2, <2>3, <2>4 DEF OnePull
<1>b. ASSUME NEW n \in Notices, n.kind # "older", Tell(n) PROVE \E x : x.kind # "older" /\ Written(x)
  BY <1>0, <1>b, TellWrites
<1>1. CASE UNCHANGED allvars
  BY <1>a, <1>1 DEF allvars, vars, row, view, pane
<1>2. CASE Quiet \/ Recover
  <2>1. UNCHANGED <<opened, loading, inbox, more>>
    BY <1>2 DEF Quiet, Recover, view, pane, Send, Disconnect, SyncList, RefreshFetch, PullFetch,
                Reconnect, row
  <2>2. CASE pulls' = pulls
    BY <1>a, <2>1, <2>2
  <2>3. ASSUME NEW p \in pulls, PullFetch(p) PROVE OnePull'
    <3>1. PICK q : pulls' = (pulls \ {p}) \cup {q}
      BY <2>3 DEF PullFetch
    <3>2. pulls = {p}
      BY <2>3 DEF OnePull
    <3>3. pulls' = {q}
      BY <3>1, <3>2
    <3>4. Places("older")' = Places("older")
      BY <2>1 DEF Places
    <3> QED BY <2>1, <3>2, <3>3, <3>4 DEF OnePull
  <2> QED BY <1>2, <2>2, <2>3 DEF Quiet, Recover, Send, Disconnect, SyncList, RefreshFetch, Reconnect
<1>3. ASSUME NEW m \in All, Live(m) PROVE OnePull'
  <2>1. m \in Displayable
    BY <1>3 DEF Live, Deliver, Echo, TypeOK, Displayable, All
  <2>2. \E x : x.kind # "older" /\ Written(x)
    BY <1>b, <1>3, <2>1, AnswersAreNotices DEF Live, Notice
  <2>3. UNCHANGED <<pulls, opened, loading, more>>
    BY <1>3 DEF Live, Deliver, Echo, Ingest, pane
  <2> QED BY <1>a, <2>2, <2>3
<1>4. ASSUME NEW t \in refreshes, StoreRefresh(t), ~ misled' PROVE OnePull'
  <2>1. Notice("updated", NewestPage') \in Notices
    BY AnswersAreNotices DEF TypeOK, NewestPage, Newest, Overflows, Notice, Notices, Kinds
  <2>2. inbox' = inbox \/ \E x : x.kind # "older" /\ Written(x)
    BY <1>b, <1>4, <2>1 DEF StoreRefresh, Notice
  <2>3. UNCHANGED <<pulls, opened, loading>> /\ (pulls # {} /\ more => more')
    BY <1>4 DEF StoreRefresh, RefreshStore, pane
  <2> QED BY <1>a, <2>2, <2>3
<1>5. ASSUME NEW t \in refreshes, FailRefresh(t) PROVE OnePull'
  BY <1>a, <1>5 DEF FailRefresh, RefreshFails, row, view, pane
<1>6. ASSUME NEW p \in pulls, StorePull(p) PROVE OnePull'
  <2>1. p.top \in Int /\ p.top <= MaxSent /\ more' \in BOOLEAN
    BY <1>6, SizesAssumption DEF StorePull, PullStore, TypeOK, Pull, Asked
  <2>2. Written(Notice("older", [msgs |-> Displayed(p.top), more |-> more']))
    BY <1>0, <1>6, <2>1, AnswersAreNotices, TellWrites DEF StorePull
  <2>3. pulls' = {} /\ Places("older") = {} /\ opened /\ loading /\ UNCHANGED <<opened, loading>>
    BY <1>6 DEF StorePull, PullStore, OnePull, pane
  <2>4. Places("older")' = {Len(inbox) + 1}
    BY <1>0, <2>2, <2>3, PlacesWritten DEF Notice
  <2> QED BY <2>3, <2>4 DEF OnePull
<1>7. ASSUME NEW p \in pulls, FailPull(p) PROVE OnePull'
  <2>1. pulls' = {} /\ Places("older") = {} /\ inbox' = inbox
    BY <1>7 DEF FailPull, PullFails, OnePull
  <2> QED BY <2>1 DEF OnePull, Places
<1>8. CASE OpenThread
  <2>1. pulls' = {} /\ Places("older") = {}
    BY <1>8 DEF OpenThread, Open, OnePull
  <2>2. Written(Notice("opened", NewestPage))
    BY <1>0, <1>8, AnswersAreNotices, TellWrites DEF OpenThread
  <2>3. Places("older")' = {}
    BY <1>0, <2>1, <2>2, PlacesWritten DEF Notice
  <2> QED BY <2>1, <2>3 DEF OnePull
<1>9. CASE LeaveThread /\ ~ UnderWay'
  <2>1. pulls' = {} /\ \A i \in 1..Len(inbox') : inbox'[i].kind # "older"
    BY <1>9 DEF UnderWay
  <2>2. Places("older")' = {}
    BY <2>1 DEF Places
  <2> QED BY <2>1, <2>2 DEF OnePull
<1>10. CASE Evict
  BY <1>a, <1>10 DEF Evict, vars, row
<1>11. CASE ScrollUp
  <2> DEFINE b == OldestOf(cache.msgs)
  <2>1. pulls = {} /\ Places("older") = {} /\ opened /\ opened' /\ loading' /\ more' = more
    BY <1>11 DEF ScrollUp, MayPage, OnePull, Backfill, row
  <2>2. CASE AnswersLocally(b)
    <3>1. pulls' = {}
      BY <1>11, <2>1, <2>2 DEF ScrollUp, Backfill
    <3>2. Written(Notice("older", CachedPage(b)))
      BY <1>0, <1>11, <2>2, AnswersAreNotices, TellWrites DEF ScrollUp
    <3>3. Places("older")' = {Len(inbox) + 1}
      BY <1>0, <2>1, <3>2, PlacesWritten DEF Notice
    <3> QED BY <2>1, <3>1, <3>3 DEF OnePull
  <2>3. CASE ~ AnswersLocally(b)
    <3>1. pulls' = {[from |-> cursor, top |-> Asked]} /\ inbox' = inbox /\ more
      BY <1>11, <2>1, <2>3 DEF ScrollUp, Backfill, AnswersLocally
    <3>2. Places("older")' = {}
      BY <2>1, <3>1 DEF Places
    <3> QED BY <2>1, <3>1, <3>2 DEF OnePull
  <2> QED BY <2>2, <2>3
<1>12. CASE Reconcile
  <2>1. \E x : x.kind # "older" /\ Written(x)
    BY <1>b, <1>12, AnswersAreNotices DEF Reconcile, Notice
  <2>2. UNCHANGED <<pulls, opened, loading, more>>
    BY <1>12 DEF Reconcile, Open, row
  <2> QED BY <1>a, <2>1, <2>2
<1>13. CASE Receive
  <2>1. /\ Len(inbox) > 0 /\ Head(inbox) = inbox[1] /\ 1 \in 1..Len(inbox)
        /\ UNCHANGED <<pulls, opened, more>>
    BY <1>0, <1>13, ReadTakes DEF Receive, vars, row
  <2>2. \A i \in Places("older")' : i + 1 \in Places("older") /\ i \in Nat \ {0}
    BY <1>0, <1>13, PlacesRead
  <2>3. CASE inbox[1].kind = "older"
    <3>1. 1 \in Places("older")
      BY <2>1, <2>3 DEF Places
    <3>2. Places("older")' = {}
      <4>1. \A i \in Places("older")' : i + 1 = 1 /\ i \in Nat \ {0}
        BY <2>2, <3>1 DEF OnePull
      <4> QED BY <4>1
    <3>3. pulls' = {}
      BY <2>1, <3>1 DEF OnePull
    <3> QED BY <3>2, <3>3 DEF OnePull
  <2>4. CASE inbox[1].kind # "older"
    <3>1. loading \in BOOLEAN /\ loading' = loading
      BY <1>13, <2>1, <2>4 DEF Receive, ViewTypeOK
    <3>2. \A i, j \in Places("older")' : i = j
      <4>1. \A i, j \in Places("older")' : i + 1 = j + 1 /\ i \in Nat /\ j \in Nat
        BY <2>2 DEF OnePull
      <4> QED BY <4>1
    <3>3. Places("older")' # {} => Places("older") # {}
      BY <2>2
    <3> QED BY <2>1, <3>1, <3>2, <3>3 DEF OnePull
  <2> QED BY <2>3, <2>4
<1> QED BY <1>1, <1>2, <1>3, <1>4, <1>5, <1>6, <1>7, <1>8, <1>9, <1>10, <1>11, <1>12, <1>13
        DEF PatientStep, Together, Backend, Fault, Page

(* What changes the requests under way: they are fetched, answered, dropped *)
(* or asked; a thread that is not open has none.                            *)
LEMMA PullsJoinStep ==
    ASSUME TypeOK, TypeOK', ViewTypeOK, Sound, OnePull, OnePull', PullsJoin, [PatientStep]_allvars
    PROVE  PullsJoin'
<1>0. [Together]_allvars
  BY DEF PatientStep
<1>1. ASSUME pulls' # {} PROVE cache' = cache \/ Receive
  <2>1. LeaveThread => ~ PatientStep
    BY <1>1 DEF PatientStep, UnderWay
  <2>2. ~ Evict
    BY <1>1 DEF Evict, vars, OnePull
  <2>3. LeaveThread => UNCHANGED cache \/ PatientStep
    BY DEF allvars, view, pane
  <2> QED BY <2>1, <2>2, <2>3 DEF PatientStep, Together, Backend, Fault, Page, Quiet, Recover, Live,
       StoreRefresh, StorePull, FailRefresh, FailPull, OpenThread, ScrollUp, Reconcile,
       allvars, view, pane
<1>2. ASSUME NEW p \in pulls', NEW q \in pulls, NEW m \in 1..sent' \ Control,
             m \in 1..sent => Above(q, m)
      PROVE  Met(Kinds, m)'
  <2>1. m \in 1..sent \ Control \/ Away(m)'
    BY <1>0, Carrying
  <2>2. Met(Kinds, m) => Met(Kinds, m)'
    BY <1>0, <1>1, <1>2, MetStays DEF Kinds
  <2> QED BY <1>2, <2>1, <2>2 DEF PullsJoin, Met
<1>3. ASSUME ScrollUp, NEW p \in pulls', p \notin pulls, NEW m \in 1..sent' \ Control, Above(p, m)
      PROVE  Met(Kinds, m)'
  <2> DEFINE b == OldestOf(cache.msgs)
  <2>1. /\ p = [from |-> cursor, top |-> Asked] /\ ~ AnswersLocally(b)
        /\ UNCHANGED <<sent, feed, lost, cache>>
    BY <1>3 DEF ScrollUp, Backfill, world
  <2>2. b \in cache.msgs /\ b \in All
    BY <1>3, OldestIsOne DEF ScrollUp, MayPage, ViewTypeOK, Displayable
  <2>3. OlderThan(b) = {}
    <3>1. OlderThan(b) \in SUBSET All
      BY DEF OlderThan, TypeOK, Displayable
    <3> QED BY <2>1, <3>1, NewestIsSome DEF AnswersLocally, CachedPage
  <2>4. \A n \in stored : b <= n
    <3>1. \A n \in stored : n \in Int /\ b \in Int
      BY <2>2, SizesAssumption DEF TypeOK, Displayable, All
    <3> QED BY <2>3, <3>1 DEF OlderThan
  <2>5. Sighted(Kinds, b)'
    BY <2>1, <2>2 DEF Sighted
  <2>6. m \in stored \/ Away(m)
    <3>1. cursor # NoCursor /\ m >= cursor /\ m \in 1..sent \ Control
      BY <1>3, <2>1 DEF Above
    <3> QED BY <3>1 DEF Sound, Known, Away
  <2> QED BY <2>1, <2>2, <2>4, <2>5, <2>6 DEF Met, Away
<1>4. ASSUME NEW p \in pulls', ~ ScrollUp
      PROVE  \E q \in pulls : \A m \in 1..sent : Above(p, m) => Above(q, m)
  <2>1. CASE pulls' \subseteq pulls
    BY <1>4, <2>1
  <2>2. ASSUME NEW r \in pulls, PullFetch(r)
        PROVE  \E q \in pulls : \A m \in 1..sent : Above(p, m) => Above(q, m)
    <3> DEFINE top == IF r.from = NoCursor THEN sent ELSE r.from - 1
               f == [r EXCEPT !.top = top]
    <3>1. pulls' = (pulls \ {r}) \cup {f} /\ r \in Pull /\ r.top = Asked
      BY <2>2 DEF PullFetch, TypeOK
    <3>2. f.from = r.from /\ f.top = top /\ (r.from = NoCursor \/ r.from \in 1..MaxSent)
      BY <3>1 DEF Pull, All
    <3>3. ASSUME NEW m \in 1..sent, Above(f, m) PROVE Above(r, m)
      <4>1. top \in Nat /\ sent \in Nat /\ top # Asked
        BY <3>2, SizesAssumption DEF TypeOK, Asked, NoCursor
      <4>2. m > top
        BY <3>2, <3>3, <4>1 DEF Above
      <4>3. r.from # NoCursor /\ m >= r.from
        BY <3>2, <3>3, <4>1, <4>2, SizesAssumption DEF NoCursor
      <4> QED BY <3>1, <4>3 DEF Above
    <3> HIDE DEF f
    <3> QED BY <1>4, <3>1, <3>3
  <2>3. pulls' \subseteq pulls \/ \E r \in pulls : PullFetch(r)
    BY <1>0, <1>4 DEF Together, Backend, Fault, Page, Quiet, Recover, Live,
       StoreRefresh, StorePull, FailRefresh, FailPull, OpenThread, LeaveThread, Evict, Reconcile,
       Receive, allvars, vars, Send, Disconnect, Reconnect, SyncList, Deliver, Echo, Ingest,
       RefreshFails, RefreshStore, RefreshFetch, PullFails, PullStore, Open
  <2> QED BY <2>1, <2>2, <2>3
<1>5. ASSUME NEW p \in pulls', NEW m \in 1..sent' \ Control, Above(p, m)
      PROVE  Met(Kinds, m)'
  <2>1. CASE ScrollUp /\ p \notin pulls
    BY <1>3, <1>5, <2>1
  <2>2. CASE p \in pulls
    BY <1>2, <1>5, <2>2
  <2>3. CASE ~ ScrollUp
    BY <1>2, <1>4, <1>5, <2>3
  <2> QED BY <2>1, <2>2, <2>3
<1>6. \A p : \A m : Above(p, m)' <=> Above(p, m)
  BY DEF Above
<1> QED BY <1>5, <1>6 DEF PullsJoin

(* The page a thread ends with: the store learns there is nothing older    *)
(* only with the page that holds the oldest.                               *)
LEMMA LastPageIsAll ==
    ASSUME TypeOK, TypeOK', ViewTypeOK, OnePull, PullsJoin,
           [PatientStep]_allvars, NEW p \in pulls, StorePull(p), ~ more'
    PROVE  Accounted(Kinds)'
<1>0. inbox \in Seq(Notices) /\ Len(inbox) \in Nat /\ [Together]_allvars
  BY LenProperties DEF ViewTypeOK, PatientStep
<1>1. more /\ p.top # Asked /\ p \in Pull /\ sent' = sent /\ cache' = cache
  BY DEF StorePull, PullStore, OnePull, TypeOK, world, pane
<1>2. p.top \in Nat
  BY <1>1, SizesAssumption DEF Pull, Asked
<1>3. ~ Full(p.top)
  BY <1>1 DEF StorePull, PullStore, MoreAfterPull, MoreAfter, IsTheEnd
<1>4. p.top < PageSize
  BY <1>2, <1>3, SizesAssumption DEF Full
<1>5. ASSUME NEW m \in 1..sent' \ Control PROVE Met(Kinds, m)'
  <2>1. m \in 1..sent \ Control /\ m \in Int
    BY <1>1, <1>5
  <2>2. CASE m > p.top
    <3>1. Met(Kinds, m)
      BY <1>1, <2>1, <2>2 DEF PullsJoin, Above
    <3> QED BY <1>0, <1>1, <3>1, MetStays DEF Kinds
  <2>3. CASE ~ (m > p.top)
    <3>1. m \in 1..p.top /\ m > p.top - PageSize /\ m \in All
      BY <1>2, <1>4, <2>1, <2>3, SizesAssumption DEF TypeOK, All
    <3>2. m \in Displayed(p.top)
      BY <2>1, <3>1 DEF Displayed, Raw
    <3>3. p.top <= MaxSent /\ more' \in BOOLEAN
      BY <1>1, <1>2 DEF TypeOK, Pull, Asked
    <3> DEFINE n == Notice("older", [msgs |-> Displayed(p.top), more |-> more'])
    <3>4. Written(n)
      BY <1>0, <1>2, <3>3, AnswersAreNotices, TellWrites DEF StorePull
    <3>5. n.kind \in Kinds /\ m \in n.msgs
      BY <3>2 DEF Notice, Kinds
    <3> HIDE DEF n
    <3>6. Len(inbox) + 1 \in 1..Len(inbox') /\ inbox'[Len(inbox) + 1] = n
      BY <1>0, <3>4 DEF Written
    <3>7. Sighted(Kinds, m)' /\ m <= m
      BY <2>1, <3>5, <3>6 DEF Sighted
    <3> QED BY <3>1, <3>7 DEF Met
  <2> QED BY <2>2, <2>3
<1> QED BY <1>5 DEF Accounted

(* An older page out of the store, which knows of nothing older than it.   *)
LEMMA LocalPageIsAll ==
    ASSUME TypeOK, TypeOK', ViewTypeOK, Sound, ScrollUp,
           AnswersLocally(OldestOf(cache.msgs)), ~ CachedPage(OldestOf(cache.msgs)).more
    PROVE  Accounted(Kinds)'
<1> DEFINE b == OldestOf(cache.msgs)
           n == Notice("older", CachedPage(b))
<1>0. inbox \in Seq(Notices) /\ Len(inbox) \in Nat
  BY LenProperties DEF ViewTypeOK
<1>1. b \in cache.msgs /\ b \in All
  BY OldestIsOne DEF ScrollUp, MayPage, ViewTypeOK, Displayable
<1>2. Written(n)
  BY <1>0, AnswersAreNotices, TellWrites DEF ScrollUp
<1>3. UNCHANGED <<sent, feed, lost, cache>>
  BY DEF ScrollUp, Backfill, world
<1>4. \A x : x \in CachedPage(b).msgs => Sighted(Kinds, x)'
  <2>1. /\ Len(inbox) + 1 \in 1..Len(inbox') /\ inbox'[Len(inbox) + 1].msgs = CachedPage(b).msgs
        /\ inbox'[Len(inbox) + 1].kind \in Kinds
    BY <1>0, <1>2 DEF Written, Notice, Kinds
  <2> QED BY <2>1 DEF Sighted
<1>5. Sighted(Kinds, b)'
  BY <1>1, <1>3 DEF Sighted
<1>6. ASSUME NEW m \in 1..sent' \ Control PROVE Met(Kinds, m)'
  <2>1. Away(m) \/ b <= m \/ m \in CachedPage(b).msgs
    BY <1>1, <1>3, <1>6, CachedPageIsAll
  <2>2. m \in All /\ m <= m
    BY <1>6, SizesAssumption DEF TypeOK, All
  <2> QED BY <1>1, <1>3, <1>4, <1>5, <2>1, <2>2 DEF Met, Away
<1> QED BY <1>6 DEF Accounted

LEMMA HonestCacheStep ==
    ASSUME TypeOK, TypeOK', ViewTypeOK, HonestCache, HonestPages, [Together]_allvars,
           ~ misled', strayed \/ (OnePull /\ HonestOlder)
    PROVE  HonestCache'
<1>0. cache' = cache \/ Receive => (Accounted(Lasting) => Accounted(Lasting)')
  BY MetStays DEF Lasting
<1>1. CASE cache' = cache
  BY <1>0, <1>1 DEF HonestCache
<1>2. CASE Receive
  <2>1. /\ Len(inbox) \in Nat /\ Len(inbox) > 0
        /\ Head(inbox) = inbox[1] /\ Head(inbox) \in Notices
    BY <1>2, ReadTakes DEF Receive, ViewTypeOK
  <2>2. ASSUME cache' = Merged(inbox[1]), ~ cache'.more, inbox[1].kind # "older" \/ cache.more = FALSE
        PROVE  Accounted(Lasting)
    <3>1. ~ MoreOf(cache, inbox[1])
      BY <2>2 DEF Merged
    <3>2. 1 \in 1..Len(inbox)
      BY <2>1
    <3>3. CASE ~ cache.more
      BY <3>3 DEF HonestCache
    <3>5. CASE inbox[1].kind \in {"opened", "updated"} /\ ~ inbox[1].more
      <4>1. Whole(1) /\ Len(inbox) \in Nat
        BY <2>1, <3>2, <3>5 DEF HonestPages, Places
      <4>2. ASSUME NEW m \in 1..sent \ Control PROVE Met(Lasting, m)
        <5>1. m \in All /\ m <= m
          BY SizesAssumption DEF TypeOK, All
        <5> QED BY <4>1, <4>2, <5>1 DEF Whole, Met, Sighted
      <4> QED BY <4>2 DEF Accounted
    <3> QED BY <2>1, <2>2, <3>1, <3>3, <3>5 DEF MoreOf, Notices, Kinds
  <2>3. ASSUME cache' = Merged(inbox[1]), ~ cache'.more, inbox[1].kind = "older"
        PROVE  Accounted(Lasting)'
    <3>1. ~ inbox[1].more /\ 1 \in Places("older")
      BY <2>1, <2>3 DEF Merged, MoreOf, Places
    <3>2. CASE ~ opened
      BY <1>0, <1>1, <1>2, <2>1, <2>3, <3>2 DEF Receive, HonestCache
    <3>3. CASE opened
      <4>1. ~ strayed
        BY <1>2, <2>1, <2>3, <3>1, <3>3 DEF Receive
      <4>2. OnePull /\ Accounted(Kinds)
        BY <3>1, <4>1 DEF HonestOlder
      <4>3. Accounted(Kinds)'
        BY <1>2, <4>2, MetStays DEF Kinds
      <4>4. Places("older")' = {}
        <5>1. \A i \in Places("older")' : i + 1 \in Places("older") /\ i \in 1..Len(inbox')
          BY <1>2, PlacesRead DEF ViewTypeOK
        <5>2. \A i \in Places("older")' : i + 1 = 1 /\ i \in 1..Len(inbox')
          BY <3>1, <4>2, <5>1 DEF OnePull
        <5>3. Len(inbox') \in Nat
          BY <1>2, <2>1, ReadTakes DEF Receive, ViewTypeOK
        <5> QED BY <5>2, <5>3
      <4>5. \A i \in 1..Len(inbox') : inbox'[i].kind \in Kinds => inbox'[i].kind \in Lasting
        BY <4>4 DEF Places, Kinds, Lasting
      <4> QED BY <4>3, <4>5 DEF Accounted, Met, Sighted
    <3> QED BY <3>2, <3>3
  <2>4. cache' = cache \/ cache' = Merged(inbox[1])
    BY <1>2, <2>1 DEF Receive
  <2> QED BY <1>0, <1>1, <1>2, <2>2, <2>3, <2>4 DEF HonestCache
<1>3. CASE LeaveThread
  <2>1. cache' = cache \/ cache'.more
    BY <1>3 DEF LeaveThread, Trimmed
  <2> QED BY <1>1, <2>1 DEF HonestCache
<1>4. CASE Evict
  BY <1>4 DEF Evict, NoPage, HonestCache
<1> QED BY <1>1, <1>2, <1>3, <1>4 DEF Together, Backend, Fault, Page, Quiet, Recover, Live,
       StoreRefresh, StorePull, FailRefresh, FailPull, OpenThread, ScrollUp, Reconcile,
       allvars, view, pane

LEMMA HonestOlderStep ==
    ASSUME TypeOK, TypeOK', ViewTypeOK, Sound, OnePull, OnePull', PullsJoin,
           HonestOlder, [PatientStep]_allvars
    PROVE  HonestOlder'
<1>0. inbox \in Seq(Notices) /\ Len(inbox) \in Nat
  BY LenProperties DEF ViewTypeOK
<1>t. [Together]_allvars
  BY DEF PatientStep
<1> SUFFICES ASSUME NEW i \in Places("older")', ~ inbox'[i].more PROVE Accounted(Kinds)'
  BY DEF HonestOlder
<1>1. opened'
  BY DEF OnePull
<1>2. cache' = cache \/ Receive
  <2>1. ~ LeaveThread
    BY <1>1 DEF LeaveThread
  <2>2. ~ Evict
    BY <1>1 DEF Evict
  <2> QED BY <2>1, <2>2 DEF PatientStep, Together, Backend, Fault, Page, Quiet, Recover, Live,
       StoreRefresh, StorePull, FailRefresh, FailPull, OpenThread, ScrollUp, Reconcile,
       allvars, view, pane
<1>3. ASSUME NEW j \in Places("older"), inbox'[i] = inbox[j] PROVE Accounted(Kinds)'
  BY <1>t, <1>2, <1>3, MetStays DEF HonestOlder, Kinds
<1>4. CASE inbox' = inbox
  BY <1>3, <1>4 DEF Places
<1>5. CASE Receive
  BY <1>0, <1>3, <1>5, PlacesRead
<1>6. ASSUME NEW n \in Notices, Written(n), Says(n) PROVE Accounted(Kinds)'
  <2>1. CASE i \in Places("older")
    BY <1>3, <1>6, <2>1 DEF Written, Places
  <2>2. CASE i \notin Places("older")
    <3>1. n.kind = "older" /\ i = Len(inbox) + 1 /\ inbox'[i] = n
      BY <1>0, <1>6, <2>2, PlacesWritten DEF Written
    <3>2. ASSUME NEW p \in pulls, StorePull(p) PROVE Accounted(Kinds)'
      <4>1. p.top \in Int /\ p.top <= MaxSent /\ more' \in BOOLEAN
        BY <3>2, SizesAssumption DEF StorePull, PullStore, TypeOK, Pull, Asked
      <4>2. Written(Notice("older", [msgs |-> Displayed(p.top), more |-> more']))
        BY <1>0, <3>2, <4>1, AnswersAreNotices, TellWrites DEF StorePull
      <4>3. ~ more'
        BY <3>1, <4>2 DEF Written, Notice
      <4> QED BY <3>2, <4>3, LastPageIsAll
    <3>3. CASE ScrollUp
      <4> DEFINE b == OldestOf(cache.msgs)
      <4>1. inbox' # inbox
        BY <1>0, <1>6 DEF Written
      <4>2. AnswersLocally(b) /\ Tell(Notice("older", CachedPage(b)))
        BY <3>3, <4>1 DEF ScrollUp
      <4>3. Written(Notice("older", CachedPage(b)))
        BY <1>0, <4>2, AnswersAreNotices, TellWrites
      <4>4. ~ CachedPage(b).more
        BY <3>1, <4>3 DEF Written, Notice
      <4> QED BY <3>3, <4>2, <4>4, LocalPageIsAll
    <3> QED BY <1>6, <3>1, <3>2, <3>3 DEF Says
  <2> QED BY <2>1, <2>2
<1> QED BY <1>t, <1>4, <1>5, <1>6, SocketSteps

ToldAll == NewestPage.more \/ \A m \in 1..sent \ Control : Away(m) \/ m \in NewestPage.msgs

LEMMA NewestPageIsAllNext ==
    TypeOK' /\ Sound' /\ ~ NewestPage'.more =>
      \A m \in 1..sent' \ Control : Away(m)' \/ m \in NewestPage'.msgs
<1>1. TypeOK /\ Sound => ToldAll
  BY NewestPageIsAll DEF ToldAll
<1>2. TypeOK' /\ Sound' => ToldAll'
  BY <1>1, PTL
<1> QED BY <1>2 DEF ToldAll

LEMMA HonestPagesStep ==
    ASSUME TypeOK, TypeOK', ViewTypeOK, Sound', HonestPages, [Together]_allvars
    PROVE  HonestPages'
<1>0. inbox \in Seq(Notices) /\ Len(inbox) \in Nat
  BY LenProperties DEF ViewTypeOK
<1> DEFINE Pages == Places("opened") \cup Places("updated")
<1> SUFFICES ASSUME NEW i \in Pages', ~ inbox'[i].more PROVE Whole(i)'
  BY DEF HonestPages
<1>1. \A m \in 1..sent' \ Control : m \in 1..sent \ Control \/ Away(m)'
  BY Carrying
<1>2. \A m : Away(m) => Away(m)' \/ Last(m)
  BY Carrying
<1>3. CASE Receive
  <2>1. /\ i + 1 \in Pages /\ i \in 1..Len(inbox') /\ inbox'[i] = inbox[i + 1]
    BY <1>0, <1>3, PlacesRead
  <2>2. /\ Len(inbox') = Len(inbox) - 1
        /\ \A j \in 1..Len(inbox') : inbox'[j] = inbox[j + 1]
    BY <1>0, <1>3, ReadTakes DEF Receive
  <2>3. Whole(i + 1)
    BY <2>1 DEF HonestPages
  <2>4. ASSUME NEW m \in 1..sent' \ Control
        PROVE  Away(m)' \/ \E j \in i..Len(inbox') : inbox'[j].kind \in Lasting /\ m \in inbox'[j].msgs
    <3>1. ASSUME NEW k \in (i + 1)..Len(inbox), inbox[k].kind \in Lasting, m \in inbox[k].msgs
          PROVE  \E j \in i..Len(inbox') : inbox'[j].kind \in Lasting /\ m \in inbox'[j].msgs
      <4>1. k - 1 \in i..Len(inbox') /\ k - 1 \in 1..Len(inbox') /\ (k - 1) + 1 = k
        BY <1>0, <2>1, <2>2
      <4>2. inbox'[k - 1] = inbox[k]
        BY <2>2, <4>1
      <4> QED BY <3>1, <4>1, <4>2
    <3>2. ~ Last(m)
      BY <1>0, <2>2 DEF Last
    <3> QED BY <1>1, <1>2, <2>3, <3>1, <3>2 DEF Whole
  <2> QED BY <2>4 DEF Whole
<1>4. ASSUME i \in Pages, Len(inbox') >= Len(inbox), Len(inbox') \in Nat,
             \A j \in 1..Len(inbox) : inbox'[j] = inbox[j]
      PROVE  Whole(i)'
  <2>1. i \in 1..Len(inbox) /\ Whole(i)
    BY <1>4 DEF HonestPages, Places
  <2>2. ASSUME NEW m \in 1..sent' \ Control
        PROVE  Away(m)' \/ \E j \in i..Len(inbox') : inbox'[j].kind \in Lasting /\ m \in inbox'[j].msgs
    <3>1. ASSUME NEW j \in i..Len(inbox), inbox[j].kind \in Lasting, m \in inbox[j].msgs
          PROVE  \E k \in i..Len(inbox') : inbox'[k].kind \in Lasting /\ m \in inbox'[k].msgs
      <4>1. j \in i..Len(inbox') /\ inbox'[j] = inbox[j]
        BY <1>0, <1>4, <2>1
      <4> QED BY <3>1, <4>1
    <3>2. Last(m) => \E k \in i..Len(inbox') : inbox'[k].kind \in Lasting /\ m \in inbox'[k].msgs
      <4>1. Last(m) => Len(inbox) + 1 \in i..Len(inbox')
        BY <1>0, <2>1 DEF Last
      <4> QED BY <4>1 DEF Last, Lasting
    <3> QED BY <1>1, <1>2, <2>1, <3>1, <3>2 DEF Whole
  <2> QED BY <2>2 DEF Whole
<1>5. CASE inbox' = inbox
  <2>1. i \in Pages
    BY <1>5 DEF Places
  <2> QED BY <1>0, <1>4, <1>5, <2>1
<1>6. ASSUME NEW n \in Notices, Written(n), Says(n) PROVE Whole(i)'
  <2>1. CASE i \in Pages
    BY <1>0, <1>4, <1>6, <2>1 DEF Written
  <2>2. CASE i \notin Pages
    <3>1. n.kind \in {"opened", "updated"} /\ i = Len(inbox) + 1 /\ inbox'[i] = n
      BY <1>0, <1>6, <2>2, PlacesWritten DEF Written
    <3>2. n.msgs = NewestPage'.msgs /\ ~ NewestPage'.more
      BY <1>6, <3>1 DEF Says
    <3>3. i \in i..Len(inbox')
      BY <1>0, <1>6, <3>1 DEF Written
    <3> QED BY <3>1, <3>2, <3>3, NewestPageIsAllNext DEF Whole, Lasting
  <2> QED BY <2>1, <2>2
<1> QED BY <1>3, <1>5, <1>6, SocketSteps

LEMMA HonestPaneStep ==
    ASSUME TypeOK, TypeOK', ViewTypeOK, HonestPane, [Together]_allvars
    PROVE  HonestPane'
<1>0. inbox \in Seq(Notices) /\ Len(inbox) \in Nat
  BY LenProperties DEF ViewTypeOK
<1> SUFFICES ASSUME opened', ~ canPage'
             PROVE  (cache'.held /\ ~ cache'.more) \/ Places("opened")' # {}
  BY DEF HonestPane
<1>1. CASE UNCHANGED <<opened, cache, canPage>> /\ ~ Receive
  <2>1. (cache.held /\ ~ cache.more) \/ Places("opened") # {}
    BY <1>1 DEF HonestPane
  <2>2. Places("opened") # {} => Places("opened")' # {}
    <3>1. CASE inbox' = inbox
      BY <3>1 DEF Places
    <3>2. ASSUME NEW n \in Notices, Written(n) PROVE Places("opened") \subseteq Places("opened")'
      BY <1>0, <3>2, PlacesWritten
    <3> QED BY <1>1, <3>1, <3>2, SocketSteps
  <2> QED BY <1>1, <2>1, <2>2
<1>2. CASE Receive
  <2>1. /\ Len(inbox) > 0
        /\ Head(inbox) = inbox[1] /\ Head(inbox) \in Notices
        /\ Len(inbox') = Len(inbox) - 1
        /\ \A i \in 1..Len(inbox') : inbox'[i] = inbox[i + 1]
    BY <1>0, <1>2, ReadTakes DEF Receive
  <2>2. opened /\ cache' = Merged(inbox[1])
    BY <1>2, <2>1 DEF Receive
  <2>3. CASE inbox[1].kind = "message"
    <3>1. cache'.held /\ cache'.more = cache.more /\ canPage' = canPage
      BY <1>2, <2>1, <2>2, <2>3 DEF Receive, Merged, MoreOf
    <3>2. ASSUME NEW j \in Places("opened") PROVE Places("opened")' # {}
      <4>1. j \in 1..Len(inbox) /\ inbox[j].kind = "opened" /\ j # 1
        BY <2>3 DEF Places
      <4>2. j - 1 \in 1..Len(inbox') /\ (j - 1) + 1 = j
        BY <1>0, <2>1, <4>1
      <4>3. inbox'[j - 1] = inbox[j]
        BY <2>1, <4>2
      <4> QED BY <4>1, <4>2, <4>3 DEF Places
    <3> QED BY <2>2, <3>1, <3>2 DEF HonestPane
  <2>4. CASE inbox[1].kind # "message"
    <3>1. canPage' = Merged(inbox[1]).more
      BY <1>2, <2>1, <2>2, <2>4 DEF Receive
    <3> QED BY <2>2, <3>1 DEF Merged
  <2> QED BY <2>3, <2>4
<1>3. CASE OpenThread
  <2>1. Notice("opened", NewestPage) \in Notices
    BY AnswersAreNotices
  <2>2. Written(Notice("opened", NewestPage))
    BY <1>0, <1>3, <2>1, TellWrites DEF OpenThread
  <2>3. Len(inbox) + 1 \in Places("opened")'
    BY <1>0, <2>2, PlacesWritten DEF Notice
  <2> QED BY <2>3
<1>4. CASE LeaveThread \/ Evict
  BY <1>4 DEF LeaveThread, Evict
<1> QED BY <1>1, <1>2, <1>3, <1>4 DEF Together, Backend, Fault, Page, Quiet,
       Recover, Live, StoreRefresh, StorePull, FailRefresh, FailPull, ScrollUp, Reconcile,
       allvars, view, pane

LEMMA HonestAtFirst == ViewInit => Honest
<1> SUFFICES ASSUME ViewInit PROVE Honest
  OBVIOUS
<1>1. pulls = {} /\ inbox = << >> /\ ~ opened /\ cache.more
  BY DEF ViewInit, Init, NoPage
<1>2. \A k : Places(k) = {}
  BY <1>1, EmptySeq DEF Places
<1>3. OnePull /\ PullsJoin
  BY <1>1, <1>2 DEF OnePull, PullsJoin
<1>4. HonestCache /\ HonestOlder /\ HonestPages /\ HonestPane
  BY <1>1, <1>2 DEF HonestCache, HonestOlder, HonestPages, HonestPane
<1> QED BY <1>3, <1>4 DEF Honest

(* An older page is timely again once none is under way.                   *)
LEMMA TimelyAgain ==
    ASSUME [Together]_allvars
    PROVE  /\ misled => misled'
           /\ Timely' => ~ UnderWay' \/ (Timely /\ [PatientStep]_allvars)
<1>1. CASE UNCHANGED past
  <2>1. [Together /\ ~ LeaveThread]_allvars \/ LeaveThread
    OBVIOUS
  <2>2. LeaveThread => strayed' = UnderWay /\ UnderWay' = UnderWay
    BY DEF LeaveThread, UnderWay, vars
  <2> QED BY <1>1, <2>2 DEF past, Timely, PatientStep
<1>2. CASE LeaveThread
  <2>1. strayed' = UnderWay /\ UnderWay' = UnderWay /\ misled' = misled
    BY <1>2 DEF LeaveThread, UnderWay, vars
  <2> QED BY <2>1 DEF Timely
<1>3. CASE Receive \/ \E p \in pulls : FailPull(p)
  <2>0. ASSUME NEW u, strayed' = (strayed /\ u) PROVE ~ strayed' => ~ strayed \/ ~ u
    BY <2>0
  <2>1. (misled => misled') /\ (~ strayed' => ~ strayed \/ ~ UnderWay')
    <3>1. CASE Receive
      <4>1. misled => misled'
        BY <3>1 DEF Receive
      <4>2. strayed' = (strayed /\ UnderWay')
        BY <3>1 DEF Receive
      <4> QED BY <4>1, <4>2, <2>0
    <3>2. CASE \E p \in pulls : FailPull(p)
      <4>1. misled' = misled /\ strayed' = (strayed /\ UnderWay')
        BY <3>2 DEF FailPull
      <4> QED BY <4>1, <2>0
    <3> QED BY <1>3, <3>1, <3>2
  <2>2. LeaveThread => UnderWay' = strayed'
    BY DEF LeaveThread, UnderWay, vars
  <2> QED BY <2>1, <2>2 DEF Timely, PatientStep
<1>4. CASE \E t \in refreshes : StoreRefresh(t)
  <2>1. (misled => misled') /\ strayed' = strayed
    BY <1>4 DEF StoreRefresh
  <2>2. LeaveThread => UnderWay' = strayed'
    BY DEF LeaveThread, UnderWay, vars
  <2> QED BY <2>1, <2>2 DEF Timely, PatientStep
<1> QED BY <1>1, <1>2, <1>3, <1>4 DEF Together, Backend, Fault, Page, Quiet, Recover, Live, StorePull,
           FailRefresh, OpenThread, Evict, ScrollUp, Reconcile, allvars, view

LEMMA HonestStep ==
    ASSUME Typed, Typed', Honest, [Together]_allvars
    PROVE  Honest'
<1> USE DEF Typed
<1>1. ASSUME Timely' PROVE (OnePull /\ PullsJoin /\ HonestOlder)'
  <2>1. CASE ~ UnderWay'
    <3>1. pulls' = {} /\ Places("older")' = {}
      BY <2>1 DEF UnderWay, Places
    <3> QED BY <3>1 DEF OnePull, PullsJoin, HonestOlder
  <2>2. CASE Timely /\ [PatientStep]_allvars
    <3>1. OnePull /\ PullsJoin /\ HonestOlder
      BY <2>2 DEF Honest
    <3>2. OnePull'
      BY <2>2, <3>1, OnePullStep
    <3>3. PullsJoin'
      BY <2>2, <3>1, <3>2, PullsJoinStep
    <3>4. HonestOlder'
      BY <2>2, <3>1, <3>2, HonestOlderStep
    <3> QED BY <3>2, <3>3, <3>4
  <2> QED BY <1>1, <2>1, <2>2, TimelyAgain
<1>2. ASSUME ~ misled' PROVE HonestCache'
  <2>1. ~ misled
    BY <1>2, TimelyAgain
  <2>2. HonestCache /\ HonestPages /\ (strayed \/ (OnePull /\ HonestOlder))
    BY <2>1 DEF Honest, Timely
  <2> QED BY <1>2, <2>2, HonestCacheStep
<1>3. HonestPages'
  BY HonestPagesStep DEF Honest
<1>4. HonestPane'
  BY HonestPaneStep DEF Honest
<1> QED BY <1>1, <1>2, <1>3, <1>4 DEF Honest

(* Whatever the reader, the feed and the network do, in a thread of any    *)
(* length: the pane says there is nothing older only where there is        *)
(* nothing older, unless it was misled by an older page of a visit before  *)
(* or by a refresh that ended the thread under an older page.              *)
THEOREM TopIsTopHolds == ViewSpec => []TopIsTop
<1>1. ViewSpec => [](TypeOK /\ ViewTypeOK)
  BY TypesTogether
<1>2. ViewInit => Sound /\ Honest
  BY HonestAtFirst DEF ViewInit, Init, Sound
<1>3. (TypeOK /\ ViewTypeOK) /\ (TypeOK /\ ViewTypeOK)' /\ Sound /\ Honest /\ [Together]_allvars
        => Sound' /\ Honest'
  <2> SUFFICES ASSUME (TypeOK /\ ViewTypeOK), (TypeOK /\ ViewTypeOK)', Sound, Honest,
                      [Together]_allvars
               PROVE  Sound' /\ Honest'
    OBVIOUS
  <2>1. [Next]_vars
    BY StepsOfTheStore
  <2>2. Sound'
    BY <2>1, SoundStep
  <2> QED BY <2>2, HonestStep DEF Typed
<1>4. (TypeOK /\ ViewTypeOK) /\ Honest => TopIsTop
  <2> SUFFICES ASSUME ViewTypeOK, Honest, opened, ~ canPage, inbox = << >>, ~ misled,
                      NEW m \in 1..sent \ Control
               PROVE  Away(m) \/ m \in cache.msgs \/ \E n \in cache.msgs : n < m
    BY DEF TopIsTop, Away
  <2>1. \A i \in 1..Len(inbox) : FALSE
    BY EmptySeq
  <2>2. Accounted(Lasting)
    BY <2>1 DEF Honest, HonestPane, HonestCache, Places
  <2>3. Away(m) \/ \E n \in All : n <= m /\ n \in cache.msgs
    BY <2>1, <2>2 DEF Accounted, Met, Sighted
  <2>4. \A n \in All : n <= m => n = m \/ n < m
    BY SizesAssumption DEF All
  <2> QED BY <2>3, <2>4
<1> QED BY <1>1, <1>2, <1>3, <1>4, PTL DEF ViewSpec, Together
=============================================================================
