--------------------------- MODULE ComposerProofs ---------------------------
(***************************************************************************)
(* Proofs about Composer, for any number of conversations, words and       *)
(* sends, and every step of the module: saves that fail or are handled out *)
(* of order, edits from another conversation, walks away from one.         *)
(* Whatever carries words says whose they are, unless they have strayed;   *)
(* the parts below add what their theorems need.                           *)
(***************************************************************************)
EXTENDS Composer, FiniteSetTheorems, SequenceTheorems, TLAPS

Saves == [conv : Convs, text : Texts, overtaken : BOOLEAN]

AtHome(text, c) == \A w \in text : <<w, c>> \in home \/ w \in strayed

\* The types, and what makes "at most one" of a set without counting it.
Typed ==
  /\ route \in Convs \cup {Away} /\ open \in Convs \cup {Away} /\ field \in Texts
  /\ draft \in [Convs -> Texts] /\ row \in [Convs -> Texts]
  /\ unsaved \in [Convs -> SUBSET Texts]
  /\ \A c \in Convs : \A t, u \in unsaved[c] : t = u
  /\ saves \in Seq(Saves)
  /\ flight \subseteq Send /\ held \subseteq Held /\ restore \subseteq Held
  /\ sends \in 0..MaxSends
  /\ moving \subseteq [msg : Held, then : {"send", "open", "restore"}]
  /\ home \subseteq Words \X Convs /\ amiss \subseteq Convs
  /\ dropped \in Texts /\ replaced \in Texts /\ strayed \in Texts

\* The send a mounted field waits for is one, and left the conversation that is open.
OneHere ==
  /\ \A f \in flight : f.here => f.conv = open
  /\ \A f, g \in flight : f.here /\ g.here => f = g

\* The page's texts.
BoxHome ==
  /\ AtHome(field, open)
  /\ \A c \in Convs : AtHome(draft[c], c) /\ \A t \in unsaved[c] : AtHome(t, c)

\* The store's, and those on their way to it.
StoreHome ==
  /\ \A c \in Convs : AtHome(row[c], c)
  /\ \A i \in 1..Len(saves) : AtHome(saves[i].text, saves[i].conv)

\* Messages on their way, held, and handed back.
OutHome ==
  /\ \A f \in flight : AtHome(f.words, f.conv)
  /\ \A q \in held \cup restore : AtHome(q.words, q.conv)
  /\ \A m \in moving : AtHome(m.msg.words, m.msg.conv)

ComposerInv == Typed /\ OneHere /\ BoxHome /\ StoreHome /\ OutHome

-----------------------------------------------------------------------------
(* Saves.                                                                  *)

LEMMA OneMore ==
  ASSUME saves \in Seq(Saves), StoreHome, NEW s \in Saves, AtHome(s.text, s.conv),
         saves' = Append(saves, s), UNCHANGED <<row, home, strayed>>
  PROVE  saves' \in Seq(Saves) /\ StoreHome'
<1>1. /\ saves' \in Seq(Saves) /\ Len(saves') = Len(saves) + 1 /\ Len(saves) \in Nat
      /\ \A i \in 1..Len(saves) : saves'[i] = saves[i]
      /\ saves'[Len(saves) + 1] = s
  BY AppendProperties, LenProperties
<1>2. \A i \in 1..Len(saves') : i \in 1..Len(saves) \/ i = Len(saves) + 1
  BY <1>1
<1>3. QED
  BY <1>1, <1>2 DEF StoreHome, AtHome

LEMMA OneLess ==
  ASSUME saves \in Seq(Saves), NEW i \in 1..Len(saves), saves' = Others(i)
  PROVE  /\ saves' \in Seq(Saves) /\ Len(saves') = Len(saves) - 1
         /\ \A j \in 1..Len(saves') :
              IF j < i
              THEN /\ j \in 1..Len(saves)
                   /\ saves'[j].conv = saves[j].conv /\ saves'[j].text = saves[j].text
                   /\ saves'[j].overtaken = (saves[j].overtaken \/ saves[j].conv = saves[i].conv)
              ELSE j + 1 \in 1..Len(saves) /\ saves'[j] = saves[j + 1]
<1> DEFINE n == Len(saves) - 1
           Of(j) == IF j < i
                    THEN [saves[j] EXCEPT !.overtaken = @ \/ saves[j].conv = saves[i].conv]
                    ELSE saves[j + 1]
<1>1. /\ Len(saves) \in Nat /\ n \in Nat /\ saves' = [j \in 1..n |-> Of(j)]
      /\ \A k \in 1..Len(saves) : saves[k] \in Saves
  BY LenProperties, ElementOfSeq DEF Others
<1>2. ASSUME NEW j \in 1..n
      PROVE  /\ Of(j) \in Saves
             /\ j < i => /\ j \in 1..Len(saves)
                         /\ Of(j).conv = saves[j].conv /\ Of(j).text = saves[j].text
                         /\ Of(j).overtaken = (saves[j].overtaken \/ saves[j].conv = saves[i].conv)
             /\ ~(j < i) => j + 1 \in 1..Len(saves) /\ Of(j) = saves[j + 1]
  <2>1. j \in 1..Len(saves) /\ j + 1 \in 1..Len(saves)
    BY <1>1
  <2>2. CASE j < i
    BY <1>1, <2>1, <2>2 DEF Saves
  <2>3. CASE ~(j < i)
    BY <1>1, <2>1, <2>3
  <2>4. QED
    BY <2>2, <2>3
<1>3. saves' \in [1..n -> Saves] /\ \A j \in 1..n : saves'[j] = Of(j)
  BY <1>1, <1>2
<1> HIDE DEF Of
<1>4. saves' \in Seq(Saves)
  BY <1>1, <1>3, SeqDef
<1>5. Len(saves') = n
  BY <1>1, <1>3, <1>4, LenProperties
<1> HIDE DEF n
<1>6. QED
  BY <1>2, <1>3, <1>4, <1>5 DEF n

-----------------------------------------------------------------------------
(* The field and its drafts.                                               *)

LEMMA SetDraftKeeps ==
  ASSUME Typed, BoxHome, NEW text \in Texts, SetDraft(text), home \subseteq home',
         strayed \subseteq strayed',
         open' = open, field' \in Texts, AtHome(field, open)', AtHome(text, open)'
  PROVE  /\ draft' \in [Convs -> Texts] /\ unsaved' \in [Convs -> SUBSET Texts]
         /\ \A c \in Convs : \A t, u \in unsaved'[c] : t = u
         /\ BoxHome'
  BY DEF Typed, BoxHome, AtHome, SetDraft

LEMMA Writing ==
  ASSUME ComposerInv, NEW w \in Words, Type(w) \/ Rewrite(w)
  PROVE  ComposerInv'
<1> USE DEF ComposerInv
<1>1. /\ open # Away /\ open \in Convs /\ home' = home \cup {<<w, open>>}
      /\ field' \in Texts /\ field' \subseteq field \cup {w} /\ SetDraft(field')
      /\ dropped' \in Texts
      /\ UNCHANGED <<route, open, saves, row, out, replaced, strayed, amiss>>
  BY DEF Typed, Type, Rewrite, Texts
<1>2. AtHome(field, open)'
  BY <1>1 DEF BoxHome, AtHome
<1>3. /\ draft' \in [Convs -> Texts] /\ unsaved' \in [Convs -> SUBSET Texts]
      /\ \A c \in Convs : \A t, u \in unsaved'[c] : t = u
      /\ BoxHome'
  BY <1>1, <1>2, SetDraftKeeps
<1>4. Typed'
  BY <1>1, <1>3 DEF Typed, out
<1>5. OneHere'
  BY <1>1 DEF OneHere, out
<1>6. StoreHome' /\ OutHome'
  BY <1>1 DEF StoreHome, OutHome, AtHome, out
<1>7. QED
  BY <1>3, <1>4, <1>5, <1>6

\* What a field is mounted with belongs to its conversation.
LEMMA Seeded ==
  ASSUME ComposerInv, NEW c \in Convs \cup {Away}
  PROVE  Seed(c) \in Texts /\ AtHome(Seed(c), c)
<1>1. CASE Back(c) # {}
  <2>1. \A r \in Back(c) : r.words \in Texts /\ r.conv = c /\ AtHome(r.words, r.conv)
    BY DEF ComposerInv, Typed, OutHome, Back, Held
  <2>2. QED
    BY <1>1, <2>1 DEF Seed, AtHome, Texts
<1>2. CASE Back(c) = {}
  BY <1>2 DEF ComposerInv, Typed, BoxHome, Seed, AtHome, Texts
<1>3. QED
  BY <1>1, <1>2

LEMMA Showing ==
  ASSUME ComposerInv, NEW c \in Convs \cup {Away}, Show(c), UNCHANGED <<home, strayed>>
  PROVE  /\ open' \in Convs \cup {Away} /\ field' \in Texts
         /\ draft' \in [Convs -> Texts] /\ unsaved' \in [Convs -> SUBSET Texts]
         /\ \A d \in Convs : \A t, u \in unsaved'[d] : t = u
         /\ row' = row /\ saves' \in Seq(Saves)
         /\ flight' \subseteq Send /\ \A f \in flight' : ~f.here /\ AtHome(f.words, f.conv)
         /\ BoxHome' /\ StoreHome' /\ replaced' \in Texts
<1> USE DEF ComposerInv
<1>1. open' = c /\ field' = Seed(c) /\ row' = row /\ field' \in Texts /\ AtHome(field', c)
  BY Seeded DEF Show
<1>2. /\ draft' \in [Convs -> Texts]
      /\ \A d \in Convs : draft'[d] = draft[d] \/ (d = c /\ draft'[d] = field')
  BY <1>1 DEF Show, Typed
<1>3. /\ unsaved' \in [Convs -> SUBSET Texts]
      /\ \A d \in Convs : unsaved'[d] = {} \/ unsaved'[d] = unsaved[d]
                             \/ (d = c /\ unsaved'[d] = {field'})
  BY <1>1 DEF Show, Typed
<1>4. \A d \in Convs : \A t, u \in unsaved'[d] : t = u
  BY <1>3 DEF Typed
<1>5. BoxHome'
  BY <1>1, <1>2, <1>3 DEF BoxHome, AtHome
<1>6. saves' \in Seq(Saves) /\ StoreHome'
  <2>1. CASE saves' = saves
    BY <1>1, <2>1 DEF StoreHome, AtHome, Typed
  <2>2. CASE open # Away /\ saves' = Append(saves, Save(open, draft[open]))
    <3>1. /\ Save(open, draft[open]) \in Saves
          /\ AtHome(Save(open, draft[open]).text, Save(open, draft[open]).conv)
      BY <2>2 DEF Typed, BoxHome, Saves, Save
    <3>2. QED
      BY <1>1, <2>2, <3>1, OneMore DEF Typed
  <2>3. QED
    BY <2>1, <2>2 DEF Show
<1>7. ASSUME NEW f \in flight' PROVE f \in Send /\ ~f.here /\ AtHome(f.words, f.conv)'
  <2>1. PICK g \in flight : f = [g EXCEPT !.here = FALSE]
    BY DEF Show
  <2>2. g \in Send /\ AtHome(g.words, g.conv)
    BY DEF Typed, OutHome
  <2>3. QED
    BY <2>1, <2>2 DEF Send, AtHome
<1>8. replaced' \in Texts
  BY <1>1 DEF Show, Typed, Texts
<1>9. QED
  BY <1>1, <1>2, <1>3, <1>4, <1>5, <1>6, <1>7, <1>8 DEF AtHome

-----------------------------------------------------------------------------
(* Saving, walking, sending.                                               *)

LEMMA Saving ==
  ASSUME ComposerInv, NEW c \in Convs, SaveTimer(c)
  PROVE  ComposerInv'
<1> USE DEF ComposerInv
<1> DEFINE t == CHOOSE u \in unsaved[c] : TRUE
           s == Save(c, t)
<1>1. t \in unsaved[c] /\ s \in Saves /\ AtHome(s.text, s.conv)
  BY DEF SaveTimer, Typed, BoxHome, Saves, Save
<1> HIDE DEF t
<1>2. /\ saves' = Append(saves, s) /\ unsaved' = [unsaved EXCEPT ![c] = {}]
      /\ UNCHANGED <<box, draft, row, out, past>>
  BY DEF SaveTimer, t
<1>3. saves' \in Seq(Saves) /\ StoreHome'
  BY <1>1, <1>2, OneMore DEF Typed, past
<1>4. Typed'
  BY <1>2, <1>3 DEF Typed, box, out, past
<1>5. BoxHome' /\ OutHome'
  BY <1>2 DEF BoxHome, OutHome, AtHome, box, out, past, Typed
<1>6. OneHere'
  BY <1>2 DEF OneHere, box, out
<1>7. QED
  BY <1>3, <1>4, <1>5, <1>6

LEMMA Storing ==
  ASSUME ComposerInv, NEW i \in 1..Len(saves), NEW ok \in BOOLEAN, Saved(i, ok)
  PROVE  ComposerInv'
<1> USE DEF ComposerInv
<1>1. /\ saves' = Others(i) /\ amiss' \subseteq Convs
      /\ UNCHANGED <<box, draft, unsaved, out, home, dropped, replaced, strayed>>
      /\ saves[i] \in Saves /\ AtHome(saves[i].text, saves[i].conv)
      /\ row' = row \/ row' = [row EXCEPT ![saves[i].conv] = saves[i].text]
  <2>1. saves[i] \in Saves /\ AtHome(saves[i].text, saves[i].conv)
    BY ElementOfSeq DEF Typed, StoreHome
  <2>2. saves[i].conv \in Convs /\ amiss \subseteq Convs
    BY <2>1 DEF Saves, Typed
  <2>3. QED
    BY <2>1, <2>2 DEF Saved
<1>2. /\ saves' \in Seq(Saves)
      /\ \A j \in 1..Len(saves') : \E k \in 1..Len(saves) :
           saves'[j].conv = saves[k].conv /\ saves'[j].text = saves[k].text
  BY <1>1, OneLess DEF Typed
<1>3. row' \in [Convs -> Texts] /\ \A c \in Convs : AtHome(row'[c], c)
  BY <1>1 DEF Typed, StoreHome, Saves
<1>4. StoreHome'
  BY <1>1, <1>2, <1>3 DEF StoreHome, AtHome
<1>5. Typed'
  BY <1>1, <1>2, <1>3 DEF Typed, box, out
<1>6. BoxHome' /\ OutHome'
  BY <1>1 DEF BoxHome, OutHome, AtHome, box, out
<1>7. OneHere'
  BY <1>1 DEF OneHere, box, out
<1>8. QED
  BY <1>4, <1>5, <1>6, <1>7

LEMMA Walking ==
  ASSUME ComposerInv, NEW c \in Convs \cup {Away},
         Navigate(c) \/ (Reconcile /\ c = route)
  PROVE  ComposerInv'
<1> USE DEF ComposerInv
<1>1. CASE Navigate(c)
  <2>1. route' = c /\ UNCHANGED <<open, field, store, out, past>>
    BY <1>1 DEF Navigate
  <2>2. Typed'
    BY <2>1 DEF Typed, store, out, past
  <2>3. OneHere'
    BY <2>1 DEF OneHere, out
  <2>4. BoxHome' /\ StoreHome' /\ OutHome'
    BY <2>1 DEF BoxHome, StoreHome, OutHome, AtHome, store, out, past
  <2>5. QED
    BY <2>2, <2>3, <2>4
<1>2. CASE Reconcile /\ c = route
  <2>1. /\ open # route /\ Show(c) /\ open' = route
        /\ UNCHANGED <<route, sends, held, moving, restore, posted, home, dropped, strayed, amiss>>
    BY <1>2 DEF Reconcile, Show
  <2>2. /\ open' \in Convs \cup {Away} /\ field' \in Texts
        /\ draft' \in [Convs -> Texts] /\ unsaved' \in [Convs -> SUBSET Texts]
        /\ \A d \in Convs : \A t, u \in unsaved'[d] : t = u
        /\ row' = row /\ saves' \in Seq(Saves)
        /\ flight' \subseteq Send /\ \A f \in flight' : ~f.here /\ AtHome(f.words, f.conv)
        /\ BoxHome' /\ StoreHome' /\ replaced' \in Texts
    BY <2>1, Showing
  <2>3. Typed'
    BY <2>1, <2>2 DEF Typed
  <2>4. OneHere'
    BY <2>1, <2>2 DEF OneHere
  <2>5. OutHome'
    BY <2>1, <2>2 DEF OutHome, AtHome
  <2>6. QED
    BY <2>2, <2>3, <2>4, <2>5
<1>3. QED
  BY <1>1, <1>2

LEMMA Pressing ==
  ASSUME ComposerInv, NEW later \in BOOLEAN, Press(later)
  PROVE  ComposerInv'
<1> USE ComposerAssumption DEF ComposerInv
<1> DEFINE f == [id |-> sends + 1, conv |-> open, words |-> field,
                 submitted |-> draft[open], here |-> TRUE, later |-> later]
<1>1. /\ open \in Convs /\ sends < MaxSends /\ sends' = sends + 1
      /\ flight' = flight \cup {f} /\ \A g \in flight : ~g.here
      /\ UNCHANGED <<box, store, held, moving, restore, posted, past>>
  BY DEF Press, Typed
<1>2. f \in Send /\ f.here /\ f.conv = open /\ AtHome(f.words, f.conv)
  BY <1>1 DEF Send, Typed, BoxHome
<1> HIDE DEF f
<1>3. Typed'
  BY <1>1, <1>2 DEF Typed, box, store, past
<1>4. OneHere'
  BY <1>1, <1>2 DEF OneHere, box
<1>5. BoxHome' /\ StoreHome'
  BY <1>1 DEF BoxHome, StoreHome, AtHome, box, store, past
<1>6. OutHome'
  BY <1>1, <1>2 DEF OutHome, AtHome, past
<1>7. QED
  BY <1>3, <1>4, <1>5, <1>6

\* The answer finds its field, or only its conversation's draft.
LEMMA Landing ==
  ASSUME ComposerInv, NEW f \in flight, Landed(f)
  PROVE  ComposerInv'
<1> USE DEF ComposerInv
<1> DEFINE same  == draft[f.conv] = f.submitted
           taken == Remaining(f) # field
<1>1. f \in Send /\ f.conv \in Convs /\ f.words \in Texts /\ AtHome(f.words, f.conv)
  BY DEF Typed, Send, OutHome
<1>2. field' \subseteq field /\ field' \in Texts /\ (taken => f.conv = open) /\ field' = Remaining(f)
  BY DEF Landed, Remaining, OneHere, Typed, Texts
<1>3. /\ flight' = flight \ {f}
      /\ held' = held \/ held' = held \cup {[id |-> f.id, conv |-> f.conv, words |-> f.words]}
      /\ UNCHANGED <<route, open, row, sends, moving, restore, home, dropped, replaced, strayed, amiss>>
  BY DEF Landed, Taken, past
<1>4. AtHome(field', f.conv) \/ ~taken
  BY <1>2 DEF BoxHome, AtHome
<1>5. /\ draft' = [draft EXCEPT ![f.conv] = IF taken THEN field' ELSE IF same THEN {} ELSE @]
      /\ unsaved' = [unsaved EXCEPT ![f.conv] = IF taken THEN {field'} ELSE IF same THEN {} ELSE @]
      /\ saves' = IF same THEN Append(saves, Save(f.conv, {})) ELSE saves
  BY DEF Landed
<1> HIDE DEF same, taken
<1>6. saves' \in Seq(Saves) /\ StoreHome'
  <2>1. CASE same
    <3>1. Save(f.conv, {}) \in Saves /\ AtHome(Save(f.conv, {}).text, Save(f.conv, {}).conv)
      BY <1>1 DEF Saves, Texts, AtHome, Save
    <3>2. QED
      BY <1>3, <1>5, <2>1, <3>1, OneMore DEF Typed
  <2>2. CASE ~same
    BY <1>3, <1>5, <2>2 DEF StoreHome, AtHome, Typed
  <2>3. QED
    BY <2>1, <2>2
<1>7. /\ draft' \in [Convs -> Texts]
      /\ \A c \in Convs : \/ draft'[c] = draft[c] \/ draft'[c] = {}
                          \/ c = f.conv /\ taken /\ draft'[c] = field'
  BY <1>2, <1>5 DEF Typed, Texts
<1>8. /\ unsaved' \in [Convs -> SUBSET Texts]
      /\ \A c \in Convs : \/ unsaved'[c] = unsaved[c] \/ unsaved'[c] = {}
                          \/ c = f.conv /\ taken /\ unsaved'[c] = {field'}
  <2> DEFINE new == IF taken THEN {field'} ELSE IF same THEN {} ELSE unsaved[f.conv]
  <2>1. unsaved' = [unsaved EXCEPT ![f.conv] = new] /\ unsaved \in [Convs -> SUBSET Texts]
    BY <1>5 DEF Typed
  <2>2. new \in SUBSET Texts /\ (new = unsaved[f.conv] \/ new = {} \/ (taken /\ new = {field'}))
    <3>1. unsaved[f.conv] \in SUBSET Texts /\ {field'} \in SUBSET Texts /\ {} \in SUBSET Texts
      BY <1>1, <1>2, <2>1
    <3>2. CASE taken
      BY <3>1, <3>2
    <3>3. CASE ~taken
      BY <3>1, <3>3
    <3>4. QED
      BY <3>2, <3>3
  <2> HIDE DEF new
  <2>3. QED
    BY <1>1, <2>1, <2>2
<1>9. BoxHome'
  BY <1>2, <1>3, <1>4, <1>7, <1>8 DEF BoxHome, AtHome
<1>10. [id |-> f.id, conv |-> f.conv, words |-> f.words] \in Held
  BY <1>1 DEF Send, Held
<1>11. Typed'
  <2>1. held' \subseteq Held
    BY <1>3, <1>10 DEF Typed
  <2>2. \A c \in Convs : \A t, u \in unsaved'[c] : t = u
    BY <1>8 DEF Typed
  <2>3. QED
    BY <1>2, <1>3, <1>6, <1>7, <1>8, <2>1, <2>2 DEF Typed
<1>12. OneHere'
  BY <1>3 DEF OneHere
<1>13. OutHome'
  BY <1>1, <1>3 DEF OutHome, AtHome
<1>14. QED
  BY <1>6, <1>9, <1>11, <1>12, <1>13

-----------------------------------------------------------------------------
(* Scheduled messages.                                                     *)

\* The ends of a message, and the beginnings of a move.
LEMMA Leaving ==
  ASSUME ComposerInv,
         \/ \E f \in flight : Failed(f)
         \/ \E q \in held : Due(q) \/ Discard(q) \/ NowBegins(q) \/ EditBegins(q)
         \/ \E m \in moving : NowEnds(m)
  PROVE  ComposerInv'
<1> USE DEF ComposerInv
<1>1. UNCHANGED <<box, store, sends, restore, home, replaced, strayed, amiss>>
  BY DEF past, Failed, Due, Discard, NowBegins, EditBegins, Cancel, NowEnds
<1>2. flight' \subseteq flight /\ held' \subseteq held
  BY DEF Failed, Due, Discard, NowBegins, EditBegins, Cancel, NowEnds
<1>3. \A m \in moving' :
        \/ m \in moving
        \/ \E q \in held : m = [msg |-> q, then |-> "send"] \/ m = [msg |-> q, then |-> "open"]
  <2>1. CASE (\E f \in flight : Failed(f)) \/ (\E q \in held : Due(q) \/ Discard(q))
    BY <2>1 DEF Failed, Due, Discard
  <2>2. ASSUME NEW q \in held, NowBegins(q) \/ EditBegins(q)
        PROVE  \/ moving' = {[msg |-> q, then |-> "send"]}
               \/ moving' = {[msg |-> q, then |-> "open"]}
    BY <2>2 DEF NowBegins, EditBegins, Cancel
  <2>3. CASE \E m \in moving : NowEnds(m)
    BY <2>3 DEF NowEnds
  <2>4. ASSUME NEW q \in held, NowBegins(q) \/ EditBegins(q), NEW m \in moving'
        PROVE  \/ m = [msg |-> q, then |-> "send"]
               \/ m = [msg |-> q, then |-> "open"]
    BY <2>2, <2>4
  <2>5. CASE \E q \in held : NowBegins(q) \/ EditBegins(q)
    <3>1. PICK q \in held : NowBegins(q) \/ EditBegins(q)
      BY <2>5
    <3>2. QED
      BY <2>4, <3>1, Zenon
  <2>6. QED
    BY <2>1, <2>3, <2>5, Zenon
<1>4. moving' \subseteq [msg : Held, then : {"send", "open", "restore"}]
  BY <1>3 DEF Typed
<1>5. dropped' \in Texts
  BY DEF past, Typed, Texts, Held, Failed, Due, Discard, NowBegins, EditBegins, Cancel, NowEnds
<1>6. Typed'
  BY <1>1, <1>2, <1>4, <1>5 DEF Typed, box, store
<1>7. OneHere'
  BY <1>1, <1>2 DEF OneHere, box
<1>9. BoxHome' /\ StoreHome'
  BY <1>1 DEF BoxHome, StoreHome, AtHome, box, store
<1>10. OutHome'
  BY <1>1, <1>2, <1>3 DEF OutHome, AtHome
<1>11. QED
  BY <1>6, <1>7, <1>9, <1>10

LEMMA Editing ==
  ASSUME ComposerInv, NEW m \in moving, EditOpens(m) \/ EditRestores(m)
  PROVE  ComposerInv'
<1> USE DEF ComposerInv
<1>0. /\ m.msg \in Held /\ m.msg.conv \in Convs /\ m.msg.words \in Texts
      /\ AtHome(m.msg.words, m.msg.conv)
  BY DEF Typed, OutHome, Held
<1>1. CASE EditOpens(m)
  <2>1. /\ m.then = "open" /\ moving' = {[m EXCEPT !.then = "restore"]}
        /\ UNCHANGED <<route, sends, held, restore, posted, home, dropped, strayed, amiss>>
    BY <1>1 DEF EditOpens
  <2>2. \A n \in moving' : n.msg = m.msg /\ n.then = "restore" /\ n \in [msg : Held, then : {"restore"}]
    <3>1. m \in [msg : Held, then : {"send", "open", "restore"}]
      BY DEF Typed
    <3>2. [m EXCEPT !.then = "restore"] = [msg |-> m.msg, then |-> "restore"]
      BY <3>1
    <3>3. QED
      BY <1>0, <2>1, <3>2
  <2>3. CASE open = m.msg.conv
    <3>1. UNCHANGED <<open, field, store, flight, replaced>>
      BY <1>1, <2>3 DEF EditOpens
    <3>2. Typed'
      BY <1>0, <2>1, <2>2, <3>1 DEF Typed, store
    <3>3. OneHere'
      BY <2>1, <2>2, <2>3, <3>1 DEF OneHere
    <3>4. BoxHome' /\ StoreHome' /\ OutHome'
      BY <1>0, <2>1, <2>2, <3>1 DEF BoxHome, StoreHome, OutHome, AtHome, store
    <3>5. QED
      BY <3>2, <3>3, <3>4
  <2>4. CASE open # m.msg.conv
    <3>1. Show(m.msg.conv) /\ open' = m.msg.conv
      BY <1>1, <2>4 DEF EditOpens, Show
    <3>2. /\ open' \in Convs \cup {Away} /\ field' \in Texts
          /\ draft' \in [Convs -> Texts] /\ unsaved' \in [Convs -> SUBSET Texts]
          /\ \A d \in Convs : \A t, u \in unsaved'[d] : t = u
          /\ row' = row /\ saves' \in Seq(Saves)
          /\ flight' \subseteq Send /\ \A f \in flight' : ~f.here /\ AtHome(f.words, f.conv)
          /\ BoxHome' /\ StoreHome' /\ replaced' \in Texts
      BY <1>0, <2>1, <3>1, Showing
    <3>3. Typed'
      BY <1>0, <2>1, <2>2, <3>2 DEF Typed
    <3>4. OneHere'
      BY <2>1, <2>2, <3>1, <3>2 DEF OneHere
    <3>5. OutHome'
      BY <1>0, <2>1, <2>2, <3>2 DEF OutHome, AtHome
    <3>6. QED
      BY <3>2, <3>3, <3>4, <3>5
  <2>5. QED
    BY <2>3, <2>4
<1>2. CASE EditRestores(m)
  <2>1. /\ moving' = {} /\ restore' = {m.msg} /\ SetDraft(m.msg.words)
        /\ field' = IF open = m.msg.conv THEN m.msg.words ELSE field
        /\ strayed' = IF open = m.msg.conv THEN strayed ELSE strayed \cup m.msg.words
        /\ UNCHANGED <<route, open, saves, row, flight, sends, held, posted, home, dropped, amiss>>
    BY <1>2 DEF EditRestores
  <2>2. strayed \subseteq strayed' /\ strayed' \in Texts /\ field' \in Texts /\ replaced' \in Texts
    BY <1>0, <1>2, <2>1 DEF Typed, Texts, EditRestores
  <2>3. AtHome(field, open)' /\ AtHome(m.msg.words, open)'
    BY <1>0, <2>1 DEF AtHome, BoxHome
  <2>4. /\ draft' \in [Convs -> Texts] /\ unsaved' \in [Convs -> SUBSET Texts]
        /\ \A c \in Convs : \A t, u \in unsaved'[c] : t = u
        /\ BoxHome'
    BY <1>0, <2>1, <2>2, <2>3, SetDraftKeeps
  <2>5. Typed'
    BY <1>0, <2>1, <2>2, <2>4 DEF Typed
  <2>6. OneHere'
    BY <2>1 DEF OneHere
  <2>7. StoreHome' /\ OutHome'
    BY <1>0, <2>1, <2>2 DEF StoreHome, OutHome, AtHome
  <2>8. QED
    BY <2>4, <2>5, <2>6, <2>7
<1>3. QED
  BY <1>1, <1>2

-----------------------------------------------------------------------------
(* The theorems.                                                           *)

LEMMA ComposerInvInit == ComposerInit => ComposerInv
<1> SUFFICES ASSUME ComposerInit PROVE ComposerInv
  OBVIOUS
<1>1. saves = << >> /\ saves \in Seq(Saves) /\ Len(saves) = 0
  BY EmptySeq DEF ComposerInit
<1>2. Typed
  BY <1>1, ComposerAssumption DEF ComposerInit, Typed, Texts
<1>3. OneHere /\ BoxHome /\ StoreHome /\ OutHome
  BY <1>1 DEF ComposerInit, OneHere, BoxHome, StoreHome, OutHome, AtHome
<1>4. QED
  BY <1>2, <1>3 DEF ComposerInv

LEMMA ComposerInvStep ==
  ASSUME ComposerInv, [ComposerNext]_cvars
  PROVE  ComposerInv'
<1>1. CASE UNCHANGED cvars
  <2>1. Typed' /\ OneHere'
    BY <1>1 DEF ComposerInv, Typed, OneHere, cvars, box, store, out, past
  <2>2. BoxHome' /\ StoreHome' /\ OutHome'
    BY <1>1 DEF ComposerInv, BoxHome, StoreHome, OutHome, AtHome, cvars, box, store, out, past
  <2>3. QED
    BY <2>1, <2>2 DEF ComposerInv
<1>2. CASE \E w \in Words : Type(w) \/ Rewrite(w)
  BY <1>2, Writing
<1>3. CASE (\E c \in Convs \cup {Away} : Navigate(c)) \/ Reconcile
  <2>1. route \in Convs \cup {Away}
    BY DEF ComposerInv, Typed
  <2>2. QED
    BY <1>3, <2>1, Walking
<1>4. CASE \E later \in BOOLEAN : Press(later)
  BY <1>4, Pressing
<1>5. CASE \E f \in flight : Landed(f)
  BY <1>5, Landing
<1>6. CASE \/ \E f \in flight : Failed(f)
           \/ \E q \in held : Due(q) \/ Discard(q) \/ NowBegins(q) \/ EditBegins(q)
           \/ \E m \in moving : NowEnds(m)
  BY <1>6, Leaving
<1>7. CASE \E m \in moving : EditOpens(m) \/ EditRestores(m)
  BY <1>7, Editing
<1>8. CASE \E c \in Convs : SaveTimer(c)
  BY <1>8, Saving
<1>9. CASE \E i \in 1..Len(saves) : \E ok \in BOOLEAN : Saved(i, ok)
  BY <1>9, Storing
<1>10. QED
  BY <1>1, <1>2, <1>3, <1>4, <1>5, <1>6, <1>7, <1>8, <1>9 DEF ComposerNext

LEMMA AtMostOneElement ==
  ASSUME NEW S, \A x, y \in S : x = y
  PROVE  Cardinality(S) <= 1
<1>1. CASE S = {}
  BY <1>1, FS_EmptySet
<1>2. CASE S # {}
  <2>1. PICK x : S = {x}
    BY <1>2
  <2>2. QED
    BY <2>1, FS_Singleton
<1>3. QED
  BY <1>1, <1>2

\* Whatever carries words says whose they are, unless they have strayed: the invariant
\* every theorem below rests on.
THEOREM ComposerSafety == ComposerSpec => []ComposerInv
<1>1. ComposerInv /\ [ComposerNext]_cvars => ComposerInv'
  BY ComposerInvStep
<1>2. QED
  BY <1>1, ComposerInvInit, PTL DEF ComposerSpec

\* Every reachable state of the page, its drafts and its sends is well typed, and one
\* mounted field has at most one send on its way.
THEOREM ComposerTypes ==
  ComposerSpec => []ComposerTypeOK
<1>1. ComposerInv => ComposerTypeOK
  <2> SUFFICES ASSUME ComposerInv PROVE ComposerTypeOK
    OBVIOUS
  <2>1. \A c \in Convs : Cardinality(unsaved[c]) <= 1
    BY AtMostOneElement DEF ComposerInv, Typed
  <2>2. Cardinality({f \in flight : f.here}) <= 1
    BY AtMostOneElement DEF ComposerInv, OneHere
  <2>3. QED
    BY <2>1, <2>2 DEF ComposerInv, Typed, ComposerTypeOK, Saves
<1>2. QED
  BY <1>1, ComposerSafety, PTL

\* Words never turn up in the draft of a conversation they were not written for, on the
\* page or in the store, but those whose message was handed back while another
\* conversation was open, whatever is typed, sent, scheduled, taken back or left meanwhile.
THEOREM WordsStayHome == ComposerSpec => []OnlyStraysAway
<1>1. ComposerInv => OnlyStraysAway
  BY DEF ComposerInv, BoxHome, StoreHome, AtHome, OnlyStraysAway
<1>2. QED
  BY <1>1, ComposerSafety, PTL

-----------------------------------------------------------------------------
(* Nothing is lost.  What a word is owed by its conversation is its draft: *)
(* neither the field nor a send on its way is needed to account for it.    *)

Accounted(h) ==
  \/ h[1] \in dropped \cup replaced \cup strayed
  \/ posted[h[1]] > 0 \/ h[1] \in draft[h[2]]
  \/ \E q \in held : h[1] \in q.words
  \/ \E m \in moving : h[1] \in m.msg.words

\* A draft holds no more than its field, and no more was submitted than was sent, but
\* for words that have strayed.
DraftsShown ==
  /\ open # Away => draft[open] \subseteq field \cup strayed
  /\ \A f \in flight : f.submitted \subseteq f.words \cup strayed

WrittenOnce == \A g, h \in home : g[1] = h[1] => g = h

\* One scheduled message is taken back at a time.
OneMoving == \A m, n \in moving : m = n

KeepInv ==
  /\ posted \in [Words -> Nat]
  /\ DraftsShown /\ WrittenOnce /\ OneMoving
  /\ \A h \in home : Accounted(h)

LEMMA KeepWriting ==
  ASSUME ComposerInv, KeepInv, NEW w \in Words, Type(w) \/ Rewrite(w)
  PROVE  KeepInv'
<1> USE DEF KeepInv, ComposerInv
<1>1. /\ open \in Convs /\ open # Away /\ home' = home \cup {<<w, open>>}
      /\ draft' = [draft EXCEPT ![open] = field'] /\ w \in field'
      /\ \A h \in home : h[1] # w
      /\ UNCHANGED <<route, open, out, replaced, strayed>>
  BY DEF Typed, Type, Rewrite, SetDraft
<1>2. \A v \in field : v \in field' \/ v \in dropped'
  BY DEF Type, Rewrite
<1>3. dropped \subseteq dropped'
  BY DEF Type, Rewrite
<1>4. ASSUME NEW h \in home' PROVE Accounted(h)'
  <2>1. CASE h = <<w, open>>
    <3>1. h[1] \in draft'[h[2]]
      BY <1>1, <2>1 DEF Typed
    <3>2. QED
      BY <3>1 DEF Accounted
  <2>2. CASE h \in home
    <3>1. h[2] \in Convs /\ Accounted(h)
      BY <2>2 DEF Typed
    <3>2. CASE h[1] \in draft[h[2]]
      <4>1. CASE h[2] = open
        BY <1>1, <1>2, <3>1, <3>2, <4>1 DEF DraftsShown, Accounted, Typed
      <4>2. CASE h[2] # open
        BY <1>1, <3>1, <3>2, <4>2 DEF Accounted, Typed
      <4>3. QED
        BY <4>1, <4>2
    <3>3. CASE h[1] \notin draft[h[2]]
      BY <1>1, <1>3, <3>1, <3>3 DEF Accounted, out
    <3>4. QED
      BY <3>2, <3>3
  <2>3. QED
    BY <1>1, <2>1, <2>2
<1>5. DraftsShown'
  BY <1>1 DEF DraftsShown, out, Typed
<1>6. WrittenOnce' /\ OneMoving'
  BY <1>1 DEF WrittenOnce, OneMoving, out
<1>7. QED
  BY <1>1, <1>4, <1>5, <1>6 DEF out

\* A conversation is shown with its draft, or with the words handed back in its place.
LEMMA KeepShowing ==
  ASSUME ComposerInv, KeepInv, NEW c \in Convs \cup {Away}, Show(c),
         UNCHANGED <<home, dropped, strayed, posted, held>>,
         \A m \in moving : \E n \in moving' : n.msg = m.msg
  PROVE  /\ \A h \in home' : Accounted(h)'
         /\ DraftsShown'
<1> USE DEF KeepInv, ComposerInv
<1>1. /\ open' = c /\ (c # Away => c \in Convs)
      /\ Back(c) # {} => c \in Convs /\ c # Away
  BY ComposerAssumption DEF Show, Back, Typed, Held, Away
<1>2. \A f \in flight' : \E g \in flight : f = [g EXCEPT !.here = FALSE] /\ g \in Send
  BY DEF Show, Typed
<1>3. CASE Back(c) = {}
  <2>1. draft' = draft /\ replaced' = replaced /\ (c # Away => field' = draft[c])
    BY <1>3 DEF Show, Seed
  <2>2. DraftsShown'
    BY <1>1, <1>2, <2>1 DEF DraftsShown, Send
  <2>3. QED
    BY <2>1, <2>2 DEF Accounted
<1>4. CASE Back(c) # {}
  <2>1. /\ draft' = [draft EXCEPT ![c] = field']
        /\ replaced' = replaced \cup (draft[c] \ field')
    BY <1>1, <1>4 DEF Show
  <2>2. DraftsShown'
    BY <1>1, <1>2, <1>4, <2>1 DEF DraftsShown, Send, Typed
  <2>3. ASSUME NEW h \in home' PROVE Accounted(h)'
    <3>1. h \in home /\ h[2] \in Convs /\ Accounted(h)
      BY DEF Typed
    <3>2. CASE h[1] \in draft[h[2]] /\ h[2] = c
      BY <1>1, <1>4, <2>1, <3>2 DEF Accounted, Typed
    <3>3. CASE h[1] \in draft[h[2]] /\ h[2] # c
      BY <2>1, <3>1, <3>3 DEF Accounted, Typed
    <3>4. CASE h[1] \notin draft[h[2]]
      BY <2>1, <3>1, <3>4 DEF Accounted
    <3>5. QED
      BY <3>2, <3>3, <3>4
  <2>4. QED
    BY <2>2, <2>3
<1>5. QED
  BY <1>3, <1>4

LEMMA KeepWalking ==
  ASSUME ComposerInv, KeepInv, NEW c \in Convs \cup {Away},
         Navigate(c) \/ (Reconcile /\ c = route)
  PROVE  KeepInv'
<1> USE DEF KeepInv, ComposerInv
<1>1. CASE Navigate(c)
  <2>1. UNCHANGED <<open, field, store, out, past>>
    BY <1>1 DEF Navigate
  <2>2. DraftsShown' /\ WrittenOnce' /\ OneMoving' /\ \A h \in home' : Accounted(h)'
    BY <2>1 DEF DraftsShown, WrittenOnce, OneMoving, Accounted, store, out, past
  <2>3. QED
    BY <2>1, <2>2 DEF out
<1>2. CASE Reconcile /\ c = route
  <2>1. /\ Show(c)
        /\ UNCHANGED <<sends, held, moving, restore, posted, home, dropped, strayed>>
    BY <1>2 DEF Reconcile
  <2>2. DraftsShown' /\ \A h \in home' : Accounted(h)'
    BY <2>1, KeepShowing
  <2>3. WrittenOnce' /\ OneMoving'
    BY <2>1 DEF WrittenOnce, OneMoving
  <2>4. QED
    BY <2>1, <2>2, <2>3
<1>3. QED
  BY <1>1, <1>2

LEMMA KeepLanding ==
  ASSUME ComposerInv, KeepInv, NEW f \in flight, Landed(f)
  PROVE  KeepInv'
<1> USE DEF KeepInv, ComposerInv
<1> DEFINE same  == draft[f.conv] = f.submitted
           taken == Remaining(f) # field
<1>1. f \in Send /\ f.conv \in Convs /\ f.words \in Texts /\ f.submitted \subseteq f.words \cup strayed
  BY DEF Typed, Send, DraftsShown
<1>2. /\ \A v \in field : v \in field' \/ v \in f.words
      /\ (taken => f.conv = open) /\ (~taken => field' = field) /\ field' = Remaining(f)
  BY DEF Landed, Remaining, OneHere
<1>3. /\ flight' = flight \ {f} /\ held \subseteq held' /\ posted' \in [Words -> Nat]
      /\ \A v \in Words : posted[v] > 0 => posted'[v] > 0
      /\ \A v \in f.words : posted'[v] > 0 \/ \E q \in held' : v \in q.words
      /\ UNCHANGED <<route, open, row, sends, moving, restore, home, dropped, replaced, strayed>>
  <2>1. CASE f.later
    <3>1. /\ held' = held \cup {[id |-> f.id, conv |-> f.conv, words |-> f.words]}
          /\ posted' = posted /\ flight' = flight \ {f}
      BY <2>1 DEF Landed, Taken
    <3>2. [id |-> f.id, conv |-> f.conv, words |-> f.words].words = f.words
      OBVIOUS
    <3>3. QED
      BY <3>1, <3>2 DEF Landed, past
  <2>2. CASE ~f.later
    <3>1. /\ posted' = [w \in Words |-> posted[w] + IF w \in f.words THEN 1 ELSE 0]
          /\ held' = held /\ flight' = flight \ {f}
      BY <2>2 DEF Landed, Taken
    <3>2. posted' \in [Words -> Nat] /\ \A v \in Words : posted[v] > 0 => posted'[v] > 0
      BY <3>1
    <3>3. \A v \in f.words : posted'[v] > 0
      BY <1>1, <3>1 DEF Texts
    <3>4. QED
      BY <3>1, <3>2, <3>3 DEF Landed, past
  <2>3. QED
    BY <2>1, <2>2
<1>4. draft' = [draft EXCEPT ![f.conv] = IF taken THEN field' ELSE IF same THEN {} ELSE @]
  BY DEF Landed
<1>5. DraftsShown'
  BY <1>1, <1>2, <1>3, <1>4 DEF DraftsShown, Typed
<1>6. ASSUME NEW h \in home PROVE Accounted(h)'
  <2>1. h[1] \in Words /\ h[2] \in Convs /\ Accounted(h)
    BY DEF Typed
  <2>2. CASE h[1] \notin draft[h[2]]
    BY <1>3, <2>1, <2>2 DEF Accounted
  <2>3. CASE h[1] \in draft[h[2]] /\ h[2] # f.conv
    BY <1>1, <1>4, <2>1, <2>3 DEF Accounted, Typed
  <2>4. CASE h[1] \in draft[h[2]] /\ h[2] = f.conv /\ h[1] \in f.words \cup strayed
    BY <1>3, <2>4 DEF Accounted
  <2>5. CASE h[1] \in draft[h[2]] /\ h[2] = f.conv /\ h[1] \notin f.words \cup strayed
    <3>1. CASE taken
      <4>1. h[1] \in field'
        <5>1. open # Away /\ open = h[2]
          BY <1>1, <1>2, <2>5, <3>1, ComposerAssumption DEF Away
        <5>2. QED
          BY <1>2, <2>5, <5>1 DEF DraftsShown
      <4>2. QED
        BY <1>1, <1>4, <2>5, <3>1, <4>1 DEF Accounted, Typed
    <3>2. CASE ~taken
      <4>1. ~same
        BY <1>1, <2>5
      <4>2. draft' = draft
        BY <1>1, <1>4, <3>2, <4>1 DEF Typed
      <4>3. QED
        BY <2>5, <4>2 DEF Accounted
    <3>3. QED
      BY <3>1, <3>2
  <2>6. QED
    BY <2>2, <2>3, <2>4, <2>5
<1>7. WrittenOnce' /\ OneMoving'
  BY <1>3 DEF WrittenOnce, OneMoving
<1>8. QED
  BY <1>3, <1>5, <1>6, <1>7

\* Saving a draft and pressing Enter touch nothing a word is owed.
LEMMA KeepStanding ==
  ASSUME ComposerInv, KeepInv,
         \/ \E c \in Convs : SaveTimer(c)
         \/ \E i \in 1..Len(saves) : \E ok \in BOOLEAN : Saved(i, ok)
         \/ \E later \in BOOLEAN : Press(later)
         \/ \E f \in flight : Failed(f)
  PROVE  KeepInv'
<1> USE DEF KeepInv, ComposerInv
<1>1. UNCHANGED <<box, draft, held, moving, restore, posted, home, dropped, replaced, strayed>>
  BY DEF SaveTimer, Saved, Press, Failed, store, out, past
<1>2. \A f \in flight' : f \in flight \/ (f.submitted = draft[open] /\ f.words = field /\ open # Away)
  <2>1. CASE (\E c \in Convs : SaveTimer(c)) \/ (\E i \in 1..Len(saves) : \E ok \in BOOLEAN : Saved(i, ok))
    BY <2>1 DEF SaveTimer, Saved, out
  <2>2. CASE \E later \in BOOLEAN : Press(later)
    BY <2>2 DEF Press
  <2>3. CASE \E f \in flight : Failed(f)
    BY <2>3 DEF Failed
  <2>4. QED
    BY <2>1, <2>2, <2>3
<1>3. DraftsShown'
  BY <1>1, <1>2 DEF DraftsShown, box
<1>4. WrittenOnce' /\ OneMoving' /\ \A h \in home' : Accounted(h)'
  BY <1>1 DEF WrittenOnce, OneMoving, Accounted, box
<1>5. QED
  BY <1>1, <1>3, <1>4

\* A held message leaves for its thread, for its author's hands, or for good.
LEMMA KeepHeld ==
  ASSUME ComposerInv, KeepInv,
         NEW q \in held, Due(q) \/ Discard(q) \/ NowBegins(q) \/ EditBegins(q)
  PROVE  KeepInv'
<1> USE DEF KeepInv, ComposerInv
<1>1. /\ UNCHANGED <<box, draft, flight, restore, home, replaced, strayed>> /\ held' = held \ {q}
      /\ dropped \subseteq dropped' /\ moving \subseteq moving'
  BY DEF Due, Discard, NowBegins, EditBegins, Cancel, store, past
<1>2. q.words \subseteq Words
  BY DEF Typed, Held, Texts
<1>3. posted' \in [Words -> Nat] /\ \A v \in Words : posted[v] > 0 => posted'[v] > 0
  BY DEF Due, Discard, NowBegins, EditBegins, Cancel
<1>4. OneMoving' /\ \A v \in q.words : \/ v \in dropped' \/ posted'[v] > 0
                                       \/ \E m \in moving' : v \in m.msg.words
  <2>1. CASE Due(q)
    <3>1. moving' = moving /\ \A v \in q.words : posted'[v] > 0
      BY <1>2, <2>1 DEF Due
    <3>2. QED
      BY <3>1 DEF OneMoving
  <2>2. CASE Discard(q)
    BY <2>2 DEF Discard, OneMoving
  <2>3. CASE NowBegins(q) \/ EditBegins(q)
    <3>1. PICK then : moving' = {[msg |-> q, then |-> then]}
      BY <2>3 DEF NowBegins, EditBegins, Cancel
    <3>2. [msg |-> q, then |-> then].msg = q
      OBVIOUS
    <3>3. QED
      BY <3>1, <3>2 DEF OneMoving
  <2>4. QED
    BY <2>1, <2>2, <2>3
<1>5. ASSUME NEW h \in home PROVE Accounted(h)'
  <2>1. h[1] \in Words /\ Accounted(h)
    BY DEF Typed
  <2>2. CASE h[1] \in q.words
    BY <1>4, <2>2 DEF Accounted
  <2>3. CASE h[1] \notin q.words
    BY <1>1, <1>3, <2>1, <2>3 DEF Accounted
  <2>4. QED
    BY <2>2, <2>3
<1>6. DraftsShown' /\ WrittenOnce'
  BY <1>1 DEF DraftsShown, WrittenOnce, box
<1>7. QED
  BY <1>1, <1>3, <1>4, <1>5, <1>6

LEMMA KeepNowEnds ==
  ASSUME ComposerInv, KeepInv, NEW m \in moving, NowEnds(m)
  PROVE  KeepInv'
<1> USE DEF KeepInv, ComposerInv
<1>1. /\ UNCHANGED <<box, draft, flight, restore, held, home, replaced, strayed>> /\ moving' = {}
      /\ dropped \subseteq dropped'
  BY DEF NowEnds, store, past
<1>2. m.msg.words \subseteq Words
  BY DEF Typed, Held, Texts
<1>3. posted' \in [Words -> Nat] /\ \A v \in Words : posted[v] > 0 => posted'[v] > 0
  BY DEF NowEnds
<1>4. \A v \in m.msg.words : v \in dropped' \/ posted'[v] > 0
  BY <1>2 DEF NowEnds
<1>5. ASSUME NEW h \in home PROVE Accounted(h)'
  <2>1. h[1] \in Words /\ Accounted(h)
    BY DEF Typed
  <2>2. CASE h[1] \in m.msg.words
    BY <1>4, <2>2 DEF Accounted
  <2>3. CASE h[1] \notin m.msg.words
    <3>1. \A n \in moving : h[1] \notin n.msg.words
      BY <2>3 DEF OneMoving
    <3>2. QED
      BY <1>1, <1>3, <2>1, <3>1 DEF Accounted
  <2>4. QED
    BY <2>2, <2>3
<1>6. DraftsShown' /\ WrittenOnce' /\ OneMoving'
  BY <1>1 DEF DraftsShown, WrittenOnce, OneMoving, box
<1>7. QED
  BY <1>1, <1>3, <1>5, <1>6

LEMMA KeepEditOpens ==
  ASSUME ComposerInv, KeepInv, NEW m \in moving, EditOpens(m)
  PROVE  KeepInv'
<1> USE DEF KeepInv, ComposerInv
<1>1. m.msg.conv \in Convs /\ UNCHANGED <<held, restore, posted, home, dropped, strayed>>
  BY DEF EditOpens, Typed, Held
<1>2. moving' = {[m EXCEPT !.then = "restore"]} /\ [m EXCEPT !.then = "restore"].msg = m.msg
  BY DEF EditOpens, Typed
<1>3. OneMoving' /\ \A n \in moving : \E k \in moving' : k.msg = n.msg
  BY <1>2 DEF OneMoving
<1>4. DraftsShown' /\ \A h \in home' : Accounted(h)'
  <2>1. CASE open = m.msg.conv
    <3>1. UNCHANGED <<open, field, draft, flight, replaced>>
      BY <2>1 DEF EditOpens, store
    <3>2. QED
      BY <1>1, <1>3, <3>1 DEF DraftsShown, Accounted
  <2>2. CASE open # m.msg.conv
    <3>1. Show(m.msg.conv)
      BY <2>2 DEF EditOpens
    <3>2. QED
      BY <1>1, <1>3, <3>1, KeepShowing
  <2>3. QED
    BY <2>1, <2>2
<1>5. WrittenOnce'
  BY <1>1 DEF WrittenOnce
<1>6. QED
  BY <1>1, <1>3, <1>4, <1>5

\* The words come back to the one conversation they were written for, or are known to
\* have strayed; what they write over is known too.
LEMMA KeepEditRestores ==
  ASSUME ComposerInv, KeepInv, NEW m \in moving, EditRestores(m)
  PROVE  KeepInv'
<1> USE DEF KeepInv, ComposerInv
<1>1. /\ m.msg.conv \in Convs /\ m.msg.words \in Texts
      /\ moving' = {} /\ restore' = {m.msg}
      /\ strayed' = IF open = m.msg.conv THEN strayed ELSE strayed \cup m.msg.words
      /\ open = m.msg.conv => field' = m.msg.words
      /\ open # m.msg.conv => field' = field
      /\ UNCHANGED <<route, open, flight, held, posted, home, dropped>>
  BY DEF EditRestores, Typed, Held
<1>2. open # Away => /\ open \in Convs /\ draft' = [draft EXCEPT ![open] = m.msg.words]
                     /\ replaced' = replaced \cup (draft[open] \ m.msg.words)
  BY DEF EditRestores, SetDraft, Typed
<1>3. open = Away => draft' = draft /\ replaced' = replaced /\ open # m.msg.conv
  BY <1>1, ComposerAssumption DEF EditRestores, SetDraft, Away
<1>4. ASSUME NEW h \in home PROVE Accounted(h)'
  <2>1. h[2] \in Convs /\ Accounted(h)
    BY DEF Typed
  <2>2. CASE h[1] \in m.msg.words
    <3>1. CASE open = m.msg.conv
      <4>1. <<h[1], open>> \in home \/ h[1] \in strayed
        BY <2>2, <3>1 DEF OutHome, AtHome
      <4>2. <<h[1], open>> \in home => h[2] = open
        BY DEF WrittenOnce
      <4>3. open # Away
        BY <1>3, <3>1
      <4>4. h[1] \in draft'[h[2]] \/ h[1] \in strayed'
        BY <1>1, <1>2, <2>1, <2>2, <3>1, <4>1, <4>2, <4>3 DEF Typed
      <4>5. QED
        BY <4>4 DEF Accounted
    <3>2. CASE open # m.msg.conv
      BY <1>1, <2>2, <3>2 DEF Accounted
    <3>3. QED
      BY <3>1, <3>2
  <2>3. CASE h[1] \notin m.msg.words
    <3>1. \A n \in moving : h[1] \notin n.msg.words
      BY <2>3 DEF OneMoving
    <3>2. CASE h[1] \in draft[h[2]] /\ h[2] = open /\ open # Away
      BY <1>2, <2>3, <3>2 DEF Accounted
    <3>3. CASE h[1] \in draft[h[2]] /\ (h[2] # open \/ open = Away)
      BY <1>2, <1>3, <2>1, <3>3 DEF Accounted, Typed
    <3>4. CASE h[1] \notin draft[h[2]]
      <4>1. replaced \subseteq replaced' /\ strayed \subseteq strayed'
        BY <1>1, <1>2, <1>3
      <4>2. QED
        BY <1>1, <2>1, <3>1, <3>4, <4>1 DEF Accounted
    <3>5. QED
      BY <3>2, <3>3, <3>4
  <2>4. QED
    BY <2>2, <2>3
<1>5. DraftsShown'
  BY <1>1, <1>2 DEF DraftsShown, Typed
<1>6. WrittenOnce' /\ OneMoving'
  BY <1>1 DEF WrittenOnce, OneMoving
<1>7. QED
  BY <1>1, <1>4, <1>5, <1>6

LEMMA KeepInvInit == ComposerInit => KeepInv
  BY DEF ComposerInit, KeepInv, DraftsShown, WrittenOnce, OneMoving

LEMMA KeepInvStep ==
  ASSUME ComposerInv, KeepInv, [ComposerNext]_cvars
  PROVE  KeepInv'
<1>1. CASE UNCHANGED cvars
  BY <1>1 DEF KeepInv, DraftsShown, WrittenOnce, OneMoving, Accounted,
              cvars, box, store, out, past
<1>2. CASE \E w \in Words : Type(w) \/ Rewrite(w)
  BY <1>2, KeepWriting
<1>3. CASE (\E c \in Convs \cup {Away} : Navigate(c)) \/ Reconcile
  <2>1. route \in Convs \cup {Away}
    BY DEF ComposerInv, Typed
  <2>2. QED
    BY <1>3, <2>1, KeepWalking
<1>4. CASE \/ \E c \in Convs : SaveTimer(c)
           \/ \E i \in 1..Len(saves) : \E ok \in BOOLEAN : Saved(i, ok)
           \/ \E later \in BOOLEAN : Press(later)
           \/ \E f \in flight : Failed(f)
  BY <1>4, KeepStanding
<1>5. CASE \E f \in flight : Landed(f)
  BY <1>5, KeepLanding
<1>6. CASE \E q \in held : Due(q) \/ Discard(q) \/ NowBegins(q) \/ EditBegins(q)
  BY <1>6, KeepHeld
<1>7. CASE \E m \in moving : NowEnds(m) \/ EditOpens(m) \/ EditRestores(m)
  BY <1>7, KeepNowEnds, KeepEditOpens, KeepEditRestores
<1>8. QED
  BY <1>1, <1>2, <1>3, <1>4, <1>5, <1>6, <1>7 DEF ComposerNext

\* No word the reader wrote is lost but those they took out themselves, those a message
\* taken back wrote over and those it carried to another conversation: not by a walk, an
\* answer that comes late or never, a failed save, or an edit from anywhere.
THEOREM NoWordLost == ComposerSpec => []NothingLost
<1>1. KeepInv => NothingLost
  <2> SUFFICES ASSUME KeepInv, NEW h \in home
               PROVE  \/ h[1] \in dropped \cup replaced \cup strayed \/ posted[h[1]] > 0
                      \/ h[1] \in draft[h[2]] \/ (open = h[2] /\ h[1] \in field)
                      \/ \E m \in flight \cup held \cup {n.msg : n \in moving} : h[1] \in m.words
    BY DEF NothingLost
  <2>1. Accounted(h)
    BY DEF KeepInv
  <2>2. CASE \E m \in moving : h[1] \in m.msg.words
    BY <2>2
  <2>3. QED
    BY <2>1, <2>2 DEF Accounted
<1>2. ComposerInv /\ KeepInv /\ [ComposerNext]_cvars => KeepInv'
  BY KeepInvStep
<1>3. ComposerSpec => []ComposerInv
  BY ComposerSafety
<1>4. QED
  BY <1>1, <1>2, <1>3, KeepInvInit, PTL DEF ComposerSpec

-----------------------------------------------------------------------------
(* What is saved is what was written: of each conversation, either a timer *)
(* is armed with its draft, or the last save on its way carries it, or the *)
(* store has it, unless its last save failed or was written over.          *)

LastOf(i, c) == saves[i].conv = c /\ \A j \in 1..Len(saves) : j > i => saves[j].conv # c

SavedAs(c, text) ==
  /\ \A i \in 1..Len(saves) : LastOf(i, c) => saves[i].overtaken \/ saves[i].text = text
  /\ c \notin amiss /\ (\A i \in 1..Len(saves) : saves[i].conv = c => saves[i].overtaken)
       => row[c] = text

Fresh(c) == /\ \A t \in unsaved[c] : t = draft[c]
            /\ unsaved[c] = {} => SavedAs(c, draft[c])

\* Of the saves of one conversation, those overtaken are the first that were sent.
InTurn ==
  \A i, j \in 1..Len(saves) :
    i < j /\ saves[i].conv = saves[j].conv /\ saves[j].overtaken => saves[i].overtaken

AllFresh == InTurn /\ \A c \in Convs : Fresh(c)

\* A save sent after the others is the last of its conversation, and of no other.
LEMMA SentLast ==
  ASSUME saves \in Seq(Saves), NEW s \in Saves, ~s.overtaken, saves' = Append(saves, s),
         UNCHANGED <<row, amiss>>
  PROVE  /\ SavedAs(s.conv, s.text)'
         /\ \A c, text : c # s.conv /\ SavedAs(c, text) => SavedAs(c, text)'
         /\ InTurn => InTurn'
<1>1. /\ Len(saves') = Len(saves) + 1 /\ Len(saves) \in Nat
      /\ \A i \in 1..Len(saves) : saves'[i] = saves[i]
      /\ saves'[Len(saves) + 1] = s
  BY AppendProperties, LenProperties
<1>2. \A i \in 1..Len(saves') : i \in 1..Len(saves) \/ i = Len(saves) + 1
  BY <1>1
<1>3. Len(saves) + 1 \in 1..Len(saves') /\ \A i \in 1..Len(saves) : i \in 1..Len(saves') /\ i < Len(saves) + 1
  BY <1>1
<1>4. SavedAs(s.conv, s.text)'
  BY <1>1, <1>2, <1>3 DEF SavedAs, LastOf
<1>5. ASSUME NEW c, NEW text, c # s.conv, SavedAs(c, text) PROVE SavedAs(c, text)'
  <2>1. ASSUME NEW i \in 1..Len(saves'), LastOf(i, c)' PROVE i \in 1..Len(saves) /\ LastOf(i, c)
    BY <1>1, <1>2, <1>3, <1>5, <2>1 DEF LastOf
  <2>2. \A i \in 1..Len(saves') : LastOf(i, c)' => saves'[i].overtaken \/ saves'[i].text = text
    BY <1>1, <1>5, <2>1 DEF SavedAs
  <2>3. ASSUME c \notin amiss', \A i \in 1..Len(saves') : saves'[i].conv = c => saves'[i].overtaken
        PROVE  row'[c] = text
    <3>1. c \notin amiss /\ (\A i \in 1..Len(saves) : saves[i].conv = c => saves[i].overtaken)
            => row[c] = text
      BY <1>5 DEF SavedAs
    <3>2. \A i \in 1..Len(saves) : saves[i].conv = c => saves[i].overtaken
      BY <1>1, <1>3, <2>3
    <3>3. QED
      BY <2>3, <3>1, <3>2
  <2>4. QED
    BY <2>2, <2>3 DEF SavedAs
<1>6. InTurn => InTurn'
  BY <1>1, <1>2, <1>3 DEF InTurn
<1>7. QED
  BY <1>4, <1>5, <1>6

\* The i-th save has been handled: it is stored, over whatever was stored after it, or not.
LEMMA FreshSaved ==
  ASSUME Typed, AllFresh, NEW i \in 1..Len(saves), NEW ok \in BOOLEAN, Saved(i, ok)
  PROVE  AllFresh'
<1> DEFINE d == saves[i].conv
<1>1. /\ saves' = Others(i) /\ UNCHANGED <<draft, unsaved>>
      /\ row' = IF ok THEN [row EXCEPT ![d] = saves[i].text] ELSE row
      /\ amiss' = IF ok = saves[i].overtaken THEN amiss \cup {d}
                  ELSE IF ok THEN amiss \ {d} ELSE amiss
  BY DEF Saved
<1>2. /\ Len(saves) \in Nat /\ saves[i] \in Saves /\ d \in Convs /\ saves[i].overtaken \in BOOLEAN
      /\ \A k \in 1..Len(saves) : saves[k].overtaken \in BOOLEAN
  <2>1. saves \in Seq(Saves)
    BY DEF Typed
  <2>2. Len(saves) \in Nat /\ \A k \in 1..Len(saves) : saves[k] \in Saves
    BY <2>1, LenProperties, ElementOfSeq
  <2>3. QED
    BY <2>2 DEF Saves
<1>3. /\ Len(saves') = Len(saves) - 1
      /\ \A j \in 1..Len(saves') :
           IF j < i
           THEN /\ j \in 1..Len(saves)
                /\ saves'[j].conv = saves[j].conv /\ saves'[j].text = saves[j].text
                /\ saves'[j].overtaken = (saves[j].overtaken \/ saves[j].conv = d)
           ELSE j + 1 \in 1..Len(saves) /\ saves'[j] = saves[j + 1]
  BY <1>1, OneLess DEF Typed
<1> DEFINE Was(j) == IF j < i THEN j ELSE j + 1
           Is(k)  == IF k < i THEN k ELSE k - 1
<1>4. ASSUME NEW k \in 1..Len(saves), k # i
      PROVE  /\ Is(k) \in 1..Len(saves') /\ saves'[Is(k)].conv = saves[k].conv
             /\ saves'[Is(k)].text = saves[k].text
             /\ saves'[Is(k)].overtaken = (saves[k].overtaken \/ (k < i /\ saves[k].conv = d))
  <2>1. CASE k < i
    <3>1. k \in 1..Len(saves')
      BY <1>2, <1>3, <2>1
    <3>2. QED
      BY <1>3, <2>1, <3>1
  <2>2. CASE ~(k < i)
    <3>1. k - 1 \in 1..Len(saves') /\ ~(k - 1 < i) /\ k - 1 + 1 = k
      BY <1>2, <1>3, <1>4, <2>2
    <3>2. saves'[k - 1] = saves[k]
      BY <1>3, <3>1
    <3>3. QED
      BY <1>2, <2>2, <3>1, <3>2
  <2>3. QED
    BY <2>1, <2>2
<1>5. ASSUME NEW j \in 1..Len(saves')
      PROVE  /\ Was(j) \in 1..Len(saves) /\ Was(j) # i /\ saves'[j].conv = saves[Was(j)].conv
             /\ saves'[j].text = saves[Was(j)].text
             /\ saves'[j].overtaken = (saves[Was(j)].overtaken \/ (Was(j) < i /\ saves[Was(j)].conv = d))
             /\ \A k \in 1..Len(saves) : k > Was(j) /\ k # i => Is(k) > j
  <2>1. CASE j < i
    BY <1>2, <1>3, <2>1
  <2>2. CASE ~(j < i)
    <3>1. j + 1 \in 1..Len(saves) /\ saves'[j] = saves[j + 1] /\ ~(j + 1 < i)
      BY <1>2, <1>3, <2>2
    <3>2. QED
      BY <1>2, <2>2, <3>1
  <2>3. QED
    BY <2>1, <2>2
<1>6. \A j, l \in 1..Len(saves') : j < l => Was(j) < Was(l)
  BY <1>2, <1>3
<1> HIDE DEF Was, Is, d
<1>7. \A k \in 1..Len(saves) : k < i /\ saves[k].conv = d /\ saves[i].overtaken => saves[k].overtaken
  BY DEF AllFresh, InTurn, d
<1>8. InTurn'
  <2>1. ASSUME NEW j \in 1..Len(saves'), NEW l \in 1..Len(saves'), j < l,
               saves'[j].conv = saves'[l].conv, saves'[l].overtaken
        PROVE  saves'[j].overtaken
    <3>1. Was(j) < Was(l) /\ saves[Was(j)].conv = saves[Was(l)].conv
      BY <1>5, <1>6, <2>1
    <3>2. CASE saves[Was(l)].overtaken
      BY <1>5, <3>1, <3>2 DEF AllFresh, InTurn
    <3>3. CASE Was(l) < i /\ saves[Was(l)].conv = d
      <4>1. Was(j) < i
        BY <1>2, <1>5, <3>1, <3>3
      <4>2. QED
        BY <1>5, <3>1, <3>3, <4>1
    <3>4. QED
      BY <1>5, <2>1, <3>2, <3>3
  <2>2. QED
    BY <2>1 DEF InTurn
<1>9. ASSUME NEW c \in Convs, unsaved[c] = {} PROVE SavedAs(c, draft[c])'
  <2>1. SavedAs(c, draft[c]) /\ draft'[c] = draft[c]
    BY <1>1, <1>9 DEF AllFresh, Fresh
  <2>2. ASSUME NEW j \in 1..Len(saves'), LastOf(j, c)'
        PROVE  saves'[j].overtaken \/ saves'[j].text = draft[c]
    <3>1. saves[Was(j)].conv = c
      BY <1>5, <2>2 DEF LastOf
    <3>2. ASSUME NEW k \in 1..Len(saves), k > Was(j), k # i PROVE saves[k].conv # c
      <4>1. Is(k) \in 1..Len(saves') /\ Is(k) > j /\ saves'[Is(k)].conv = saves[k].conv
        BY <1>4, <1>5, <3>2
      <4>2. QED
        BY <2>2, <4>1 DEF LastOf
    <3>3. CASE c = d /\ i > Was(j)
      BY <1>5, <3>1, <3>3
    <3>4. CASE ~(c = d /\ i > Was(j))
      <4>1. LastOf(Was(j), c)
        BY <3>1, <3>2, <3>4 DEF LastOf, d
      <4>2. QED
        BY <1>5, <2>1, <4>1 DEF SavedAs
    <3>5. QED
      BY <3>3, <3>4
  <2>3. ASSUME c \notin amiss', \A j \in 1..Len(saves') : saves'[j].conv = c => saves'[j].overtaken
        PROVE  row'[c] = draft[c]
    <3>1. CASE c # d
      <4>1. c \notin amiss /\ row'[c] = row[c]
        BY <1>1, <2>3, <3>1 DEF Typed
      <4>2. \A k \in 1..Len(saves) : saves[k].conv = c => k # i
        BY <3>1 DEF d
      <4>3. \A k \in 1..Len(saves) : saves[k].conv = c => saves[k].overtaken
        BY <1>4, <2>3, <3>1, <4>2
      <4>4. QED
        BY <2>1, <4>1, <4>3 DEF SavedAs
    <3>2. CASE c = d /\ ~ok
      <4>1. saves[i].overtaken /\ c \notin amiss /\ row' = row
        BY <1>1, <1>2, <2>3, <3>2
      <4>2. \A k \in 1..Len(saves) : saves[k].conv = c => saves[k].overtaken
        BY <1>4, <1>7, <2>3, <3>2, <4>1
      <4>3. QED
        BY <2>1, <4>1, <4>2 DEF SavedAs
    <3>3. CASE c = d /\ ok
      <4>1. ~saves[i].overtaken /\ row'[c] = saves[i].text
        BY <1>1, <1>2, <2>3, <3>3 DEF Typed
      <4>2. \A k \in 1..Len(saves) : k > i => saves[k].conv # c
        <5>1. ASSUME NEW k \in 1..Len(saves), k > i, saves[k].conv = c PROVE FALSE
          <6>1. k # i /\ ~(k < i)
            BY <1>2, <5>1
          <6>2. saves[k].overtaken
            BY <1>4, <2>3, <5>1, <6>1
          <6>3. saves[i].overtaken
            BY <3>3, <5>1, <6>2 DEF AllFresh, InTurn, d
          <6>4. QED
            BY <4>1, <6>3
        <5>2. QED
          BY <5>1
      <4>3. LastOf(i, c)
        BY <3>3, <4>2 DEF LastOf, d
      <4>4. QED
        BY <2>1, <4>1, <4>3 DEF SavedAs
    <3>4. QED
      BY <3>1, <3>2, <3>3
  <2>4. QED
    BY <2>1, <2>2, <2>3 DEF SavedAs
<1>10. \A c \in Convs : Fresh(c)'
  BY <1>1, <1>9 DEF AllFresh, Fresh
<1>11. QED
  BY <1>8, <1>10 DEF AllFresh

LEMMA FreshUnchanged ==
  ASSUME AllFresh, UNCHANGED <<draft, unsaved, saves, row, amiss>>
  PROVE  AllFresh'
  BY DEF AllFresh, InTurn, Fresh, SavedAs, LastOf

LEMMA FreshSetDraft ==
  ASSUME Typed, AllFresh, NEW text \in Texts, SetDraft(text), UNCHANGED <<saves, row, amiss>>
  PROVE  AllFresh'
<1>1. CASE open = Away
  BY <1>1, FreshUnchanged DEF SetDraft
<1>2. CASE open # Away
  <2>1. /\ open \in Convs /\ draft' = [draft EXCEPT ![open] = text]
        /\ unsaved' = [unsaved EXCEPT ![open] = {text}]
    BY <1>2 DEF SetDraft, Typed
  <2>2. \A c \in Convs : c = open => Fresh(c)'
    BY <2>1 DEF Fresh, Typed
  <2>3. \A c \in Convs : c # open => Fresh(c)'
    BY <2>1 DEF AllFresh, Fresh, SavedAs, LastOf, Typed
  <2>4. QED
    BY <2>2, <2>3 DEF AllFresh, InTurn
<1>3. QED
  BY <1>1, <1>2

LEMMA FreshShow ==
  ASSUME Typed, AllFresh, NEW c \in Convs \cup {Away}, c # open, Show(c), amiss' = amiss
  PROVE  AllFresh'
<1>1. row' = row /\ \A d \in Convs : draft'[d] = IF d = c /\ Back(c) # {} THEN field' ELSE draft[d]
  BY DEF Show, Typed
<1>2. \A d \in Convs : unsaved'[d] = IF d = open THEN {}
                                     ELSE IF d = c /\ Back(c) # {} THEN {field'} ELSE unsaved[d]
  BY DEF Show
<1>3. CASE open # Away /\ unsaved[open] # {}
  <2>1. PICK s \in Saves : /\ s.conv = open /\ s.text = draft[open] /\ ~s.overtaken
                           /\ saves' = Append(saves, s)
    <3>1. open \in Convs /\ saves' = Append(saves, Save(open, draft[open]))
      BY <1>3 DEF Show, Typed
    <3>2. Save(open, draft[open]) \in Saves
      BY <3>1 DEF Typed, Saves, Save
    <3>3. QED
      BY <3>1, <3>2 DEF Save
  <2>2. /\ SavedAs(s.conv, s.text)' /\ InTurn'
        /\ \A d, text : d # s.conv /\ SavedAs(d, text) => SavedAs(d, text)'
    BY <1>1, <2>1, SentLast DEF Typed, AllFresh
  <2>3. ASSUME NEW d \in Convs, d = s.conv PROVE Fresh(d)'
    <3>1. draft'[d] = s.text /\ unsaved'[d] = {}
      BY <1>1, <1>2, <2>1, <2>3
    <3>2. SavedAs(d, draft[d])'
      BY <2>2, <2>3, <3>1 DEF SavedAs, LastOf
    <3>3. QED
      BY <3>1, <3>2 DEF Fresh
  <2>4. ASSUME NEW d \in Convs, d # s.conv PROVE Fresh(d)'
    <3>1. CASE d = c /\ Back(c) # {}
      BY <1>1, <1>2, <2>1, <2>4, <3>1 DEF Fresh
    <3>2. CASE ~(d = c /\ Back(c) # {})
      <4>1. draft'[d] = draft[d] /\ unsaved'[d] = unsaved[d]
        BY <1>1, <1>2, <2>1, <2>4, <3>2
      <4>2. SavedAs(d, draft[d]) => SavedAs(d, draft[d])'
        <5>1. PICK text : text = draft[d]
          OBVIOUS
        <5>2. SavedAs(d, text) => SavedAs(d, text)'
          BY <2>2, <2>4
        <5>3. QED
          BY <4>1, <5>1, <5>2 DEF SavedAs, LastOf
      <4>3. QED
        BY <4>1, <4>2 DEF AllFresh, Fresh
    <3>3. QED
      BY <3>1, <3>2
  <2>5. QED
    BY <2>2, <2>3, <2>4 DEF AllFresh
<1>4. CASE ~(open # Away /\ unsaved[open] # {})
  <2>1. saves' = saves /\ \A d \in Convs : d = open => unsaved[d] = {}
    BY <1>4, ComposerAssumption DEF Show, Away
  <2>2. QED
    BY <1>1, <1>2, <2>1 DEF AllFresh, InTurn, Fresh, SavedAs, LastOf
<1>5. QED
  BY <1>3, <1>4

LEMMA FreshTimer ==
  ASSUME Typed, AllFresh, NEW c \in Convs, SaveTimer(c)
  PROVE  AllFresh'
<1> DEFINE s == Save(c, CHOOSE t \in unsaved[c] : TRUE)
<1>1. /\ s.conv = c /\ s.text = draft[c] /\ ~s.overtaken /\ s \in Saves /\ saves' = Append(saves, s)
      /\ unsaved' = [unsaved EXCEPT ![c] = {}] /\ UNCHANGED <<draft, row, amiss>>
  BY DEF SaveTimer, AllFresh, Fresh, Typed, Saves, Save, past
<1> HIDE DEF s
<1>2. /\ SavedAs(c, draft[c])' /\ InTurn'
      /\ \A d, text : d # c /\ SavedAs(d, text) => SavedAs(d, text)'
  BY <1>1, SentLast DEF Typed, SavedAs, LastOf, AllFresh
<1>3. QED
  BY <1>1, <1>2 DEF AllFresh, Fresh, Typed

LEMMA FreshLanded ==
  ASSUME Typed, AllFresh, NEW f \in flight, Landed(f)
  PROVE  AllFresh'
<1> DEFINE same  == draft[f.conv] = f.submitted
           taken == Remaining(f) # field
           s     == Save(f.conv, {})
<1>1. /\ f.conv \in Convs /\ row' = row /\ amiss' = amiss
      /\ draft' = [draft EXCEPT ![f.conv] = IF taken THEN field' ELSE IF same THEN {} ELSE @]
      /\ unsaved' = [unsaved EXCEPT ![f.conv] = IF taken THEN {field'} ELSE IF same THEN {} ELSE @]
      /\ saves' = IF same THEN Append(saves, s) ELSE saves
  BY DEF Landed, Typed, Send, past
<1>2. s \in Saves /\ s.conv = f.conv /\ s.text = {} /\ ~s.overtaken
  BY <1>1 DEF Saves, Texts, Save
<1> HIDE DEF same, taken, s
<1>3. CASE same
  <2>1. /\ SavedAs(f.conv, {})' /\ InTurn'
        /\ \A d, text : d # f.conv /\ SavedAs(d, text) => SavedAs(d, text)'
    <3>1. /\ SavedAs(s.conv, s.text)' /\ InTurn'
          /\ \A d, text : d # s.conv /\ SavedAs(d, text) => SavedAs(d, text)'
      BY <1>1, <1>2, <1>3, SentLast DEF Typed, AllFresh
    <3>2. QED
      BY <1>2, <3>1 DEF SavedAs, LastOf
  <2>2. Fresh(f.conv)'
    <3>1. CASE taken
      <4>1. draft'[f.conv] = field' /\ unsaved'[f.conv] = {field'}
        BY <1>1, <3>1 DEF Typed
      <4>2. QED
        BY <4>1 DEF Fresh
    <3>2. CASE ~taken
      <4>1. draft'[f.conv] = {} /\ unsaved'[f.conv] = {}
        BY <1>1, <1>3, <3>2 DEF Typed
      <4>2. SavedAs(f.conv, draft[f.conv])'
        BY <2>1, <4>1 DEF SavedAs, LastOf
      <4>3. QED
        BY <4>1, <4>2 DEF Fresh
    <3>3. QED
      BY <3>1, <3>2
  <2>3. \A d \in Convs : d # f.conv => Fresh(d)'
    BY <1>1, <2>1 DEF AllFresh, Fresh, Typed
  <2>4. QED
    BY <2>1, <2>2, <2>3 DEF AllFresh
<1>4. CASE ~same
  <2>1. ASSUME NEW c \in Convs PROVE Fresh(c)'
    <3>1. CASE c = f.conv /\ taken
      <4>1. unsaved'[c] = {field'} /\ draft'[c] = field'
        BY <1>1, <3>1 DEF Typed
      <4>2. QED
        BY <4>1 DEF Fresh
    <3>2. CASE ~(c = f.conv /\ taken)
      <4>1. draft'[c] = draft[c] /\ unsaved'[c] = unsaved[c] /\ saves' = saves /\ row' = row /\ amiss' = amiss
        BY <1>1, <1>4, <3>2 DEF Typed
      <4>2. QED
        BY <4>1 DEF AllFresh, Fresh, SavedAs, LastOf
    <3>3. QED
      BY <3>1, <3>2
  <2>2. QED
    BY <1>1, <1>4, <2>1 DEF AllFresh, InTurn
<1>5. QED
  BY <1>3, <1>4

LEMMA FreshInit == ComposerInit => AllFresh
<1> SUFFICES ASSUME ComposerInit PROVE AllFresh
  OBVIOUS
<1>1. Len(saves) = 0
  BY EmptySeq DEF ComposerInit
<1>2. QED
  BY <1>1 DEF ComposerInit, AllFresh, InTurn, Fresh, SavedAs, LastOf

LEMMA FreshStep ==
  ASSUME ComposerInv, AllFresh, [ComposerNext]_cvars
  PROVE  AllFresh'
<1> USE DEF ComposerInv
<1>1. CASE UNCHANGED <<store, amiss>>
  BY <1>1, FreshUnchanged DEF store
<1>2. ASSUME NEW w \in Words, Type(w) \/ Rewrite(w) PROVE AllFresh'
  <2>1. field' \in Texts /\ SetDraft(field') /\ UNCHANGED <<saves, row, amiss>>
    BY <1>2 DEF Type, Rewrite, Typed, Texts
  <2>2. QED
    BY <2>1, FreshSetDraft
<1>3. CASE Reconcile
  BY <1>3, FreshShow DEF Reconcile, Typed
<1>4. CASE \E f \in flight : Landed(f)
  BY <1>4, FreshLanded
<1>5. CASE \E c \in Convs : SaveTimer(c)
  BY <1>5, FreshTimer
<1>6. CASE \E i \in 1..Len(saves) : \E ok \in BOOLEAN : Saved(i, ok)
  BY <1>6, FreshSaved
<1>7. ASSUME NEW m \in moving, EditOpens(m) \/ EditRestores(m) PROVE AllFresh'
  <2>1. m.msg.conv \in Convs /\ m.msg.words \in Texts
    BY DEF Typed, Held
  <2>2. CASE EditOpens(m)
    BY <1>1, <2>1, <2>2, FreshShow DEF EditOpens
  <2>3. CASE EditRestores(m)
    BY <2>1, <2>3, FreshSetDraft DEF EditRestores
  <2>4. QED
    BY <1>7, <2>2, <2>3
<1>8. CASE \/ \E c \in Convs \cup {Away} : Navigate(c)
           \/ \E later \in BOOLEAN : Press(later)
           \/ \E f \in flight : Failed(f)
           \/ \E q \in held : Due(q) \/ Discard(q) \/ NowBegins(q) \/ EditBegins(q)
           \/ \E m \in moving : NowEnds(m)
           \/ UNCHANGED cvars
  <2>1. UNCHANGED <<store, amiss>>
    BY <1>8 DEF Navigate, Press, Failed, Due, Discard, NowBegins, EditBegins, Cancel, NowEnds, cvars, past
  <2>2. QED
    BY <1>1, <2>1
<1>9. QED
  BY <1>2, <1>3, <1>4, <1>5, <1>6, <1>7, <1>8 DEF ComposerNext

\* Once no timer is armed and nothing is on its way, the store shows the draft the page
\* holds, whatever was typed, sent, taken back or left, and in whatever order saves are
\* handled, unless the last of them failed or an earlier one was stored over it.
THEOREM WhatIsSavedIsWhatWasWritten == ComposerSpec => []DraftsPersist
<1>1. AllFresh => DraftsPersist
  BY DEF AllFresh, Fresh, SavedAs, DraftsPersist
<1>2. ComposerInv /\ AllFresh /\ [ComposerNext]_cvars => AllFresh'
  BY FreshStep
<1>3. ComposerSpec => []ComposerInv
  BY ComposerSafety
<1>4. QED
  BY <1>1, <1>2, <1>3, FreshInit, PTL DEF ComposerSpec
=============================================================================
