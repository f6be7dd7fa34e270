------------------------------ MODULE Composer ------------------------------
(***************************************************************************)
(* The words a reader writes, from the field to the thread (setDraftText,  *)
(* sendDraft and the scheduled list's actions of web/src/lib/store.ts;     *)
(* components/composer.tsx and rich-editor.tsx; the route's effect of      *)
(* app.tsx).  One page holds one field, which is mounted afresh for each   *)
(* conversation and seeded from that conversation's draft; the draft is    *)
(* saved to the backend a beat later, and a send travels while the reader  *)
(* goes on writing or walks away.  A text is the set of its words.         *)
(***************************************************************************)
EXTENDS Naturals, Sequences, FiniteSets

CONSTANTS Convs,         \* conversations
          Words,         \* words the reader may write, each once
          MaxSends       \* bound: sends over a behaviour

ASSUME ComposerAssumption == MaxSends \in Nat /\ "away" \notin Convs

VARIABLES route,    \* the conversation the URL names, or Away
          open,     \* state.openId
          field,    \* the editor's words
          draft,    \* draftCache
          unsaved,  \* draftSaveTimers: the text each armed timer will save, if any
          saves,    \* set_draft requests on their way, in the order they were sent
          row,      \* the drafts the backend has stored
          flight,   \* sends on their way
          sends,    \* how many there have been
          held,     \* scheduled messages Teams is holding
          moving,   \* the scheduled message sendScheduledMessageNow or editScheduledMessage has cancelled
          restore,  \* composerRestore
          posted,   \* how often each word reached its thread
          home,     \* history: the words written so far, each with its conversation
          dropped,  \* history: the words the reader took out
          replaced, \* history: the words a message handed back has written over
          strayed,  \* history: the words handed back to a conversation that is not theirs
          amiss     \* history: the conversations whose last save was not the last stored

box   == <<route, open, field>>
store == <<draft, unsaved, saves, row>>
out   == <<flight, sends, held, moving, restore, posted>>
past  == <<home, dropped, replaced, strayed, amiss>>
cvars == <<box, store, out, past>>

Away  == "away"
Texts == SUBSET Words
Send  == [id : 1..MaxSends, conv : Convs, words : Texts, submitted : Texts, here : BOOLEAN, later : BOOLEAN]
Held  == [id : 1..MaxSends, conv : Convs, words : Texts]

\* overtaken: a later save of its conversation has been handled before it.
Save(c, text) == [conv |-> c, text |-> text, overtaken |-> FALSE]

ComposerInit ==
  /\ route \in Convs /\ open = route
  /\ field = {} /\ draft = [c \in Convs |-> {}] /\ unsaved = [c \in Convs |-> {}]
  /\ saves = <<>> /\ row = draft
  /\ flight = {} /\ sends = 0 /\ held = {} /\ moving = {} /\ restore = {}
  /\ posted = [w \in Words |-> 0] /\ home = {} /\ dropped = {}
  /\ replaced = {} /\ strayed = {} /\ amiss = {}

-----------------------------------------------------------------------------
(* Drafts.                                                                 *)

\* setDraftText: the draft of whatever is open now, and its timer again.
SetDraft(text) ==
  IF open = Away
  THEN UNCHANGED <<draft, unsaved>>
  ELSE /\ draft' = [draft EXCEPT ![open] = text]
       /\ unsaved' = [unsaved EXCEPT ![open] = {text}]

\* DRAFT_SAVE_DELAY_MS after the last change: persistDraft.
SaveTimer(c) ==
  /\ unsaved[c] # {}
  /\ saves' = Append(saves, Save(c, CHOOSE t \in unsaved[c] : TRUE))
  /\ unsaved' = [unsaved EXCEPT ![c] = {}]
  /\ UNCHANGED <<box, draft, row, out, past>>

\* What is still on its way when the i-th has been handled.
Others(i) ==
  [j \in 1..(Len(saves) - 1) |->
     IF j < i THEN [saves[j] EXCEPT !.overtaken = @ \/ saves[j].conv = saves[i].conv]
              ELSE saves[j + 1]]

\* A set_draft the backend has handled, in whatever order: one that fails is reported and
\* not retried.
Saved(i, ok) ==
  LET c == saves[i].conv
  IN  /\ saves' = Others(i)
      /\ row' = IF ok THEN [row EXCEPT ![c] = saves[i].text] ELSE row
      /\ amiss' = IF ok = saves[i].overtaken THEN amiss \cup {c}
                  ELSE IF ok THEN amiss \ {c} ELSE amiss
      /\ UNCHANGED <<box, draft, unsaved, out, home, dropped, replaced, strayed>>

-----------------------------------------------------------------------------
(* The field.                                                              *)

Type(w) ==
  /\ open # Away /\ \A h \in home : h[1] # w
  /\ field' = field \cup {w}
  /\ SetDraft(field')
  /\ home' = home \cup {<<w, open>>}
  /\ UNCHANGED <<route, open, saves, row, out, dropped, replaced, strayed, amiss>>

\* The reader selects everything and writes something else.
Rewrite(w) ==
  /\ open # Away /\ field # {} /\ \A h \in home : h[1] # w
  /\ field' = {w}
  /\ SetDraft(field')
  /\ home' = home \cup {<<w, open>>}
  /\ dropped' = dropped \cup field
  /\ UNCHANGED <<route, open, saves, row, out, replaced, strayed, amiss>>

\* The reader goes somewhere: the URL first.
Navigate(c) ==
  /\ c # route
  /\ route' = c
  /\ UNCHANGED <<open, field, store, out, past>>

Back(c) == {r \in restore : r.conv = c}

SeedKept(c) == field  \* mutant: one field for every conversation

\* What a field mounted for c holds: c's draft, or the words handed back to c, which
\* nothing forgets.
Seed(c) == IF Back(c) # {} THEN UNION {r.words : r \in Back(c)}
           ELSE IF c = Away THEN {} ELSE draft[c]

\* openConversation or closeConversation: the draft of the one left is flushed, and words
\* handed back to the one shown replace its draft.
Show(c) ==
  /\ open' = c /\ field' = Seed(c)
  /\ saves' = IF open # Away /\ unsaved[open] # {}
              THEN Append(saves, Save(open, draft[open])) ELSE saves
  /\ draft' = IF Back(c) # {} THEN [draft EXCEPT ![c] = field'] ELSE draft
  /\ unsaved' = [d \in Convs |-> IF d = open THEN {}
                                 ELSE IF d = c /\ Back(c) # {} THEN {field'} ELSE unsaved[d]]
  /\ flight' = {[f EXCEPT !.here = FALSE] : f \in flight}
  /\ replaced' = IF Back(c) # {} /\ c # Away THEN replaced \cup (draft[c] \ field') ELSE replaced
  /\ UNCHANGED row

\* The effect of app.tsx: the open conversation follows the URL, whoever moved it.
Reconcile ==
  /\ open # route
  /\ Show(route)
  /\ UNCHANGED <<route, sends, held, moving, restore, posted, home, dropped, strayed, amiss>>

-----------------------------------------------------------------------------
(* Sends.                                                                  *)

PressedAgain(later) ==  \* mutant: a press while this field's send is out sends again
  /\ open # Away /\ field # {} /\ sends < MaxSends
  /\ sends' = sends + 1
  /\ flight' = flight \cup {[id |-> sends + 1, conv |-> open, words |-> field,
                             submitted |-> draft[open], here |-> TRUE, later |-> later]}
  /\ UNCHANGED <<box, store, held, moving, restore, posted, past>>

\* Enter, or a moment picked: one send at a time from one mounted field.
Press(later) ==
  /\ open # Away /\ field # {} /\ sends < MaxSends
  /\ \A f \in flight : ~f.here
  /\ sends' = sends + 1
  /\ flight' = flight \cup {[id |-> sends + 1, conv |-> open, words |-> field,
                             submitted |-> draft[open], here |-> TRUE, later |-> later]}
  /\ UNCHANGED <<box, store, held, moving, restore, posted, past>>

\* Teams has taken the message: it is in the thread, or held for its moment.
Taken(f) ==
  /\ flight' = flight \ {f}
  /\ IF f.later
     THEN /\ held' = held \cup {[id |-> f.id, conv |-> f.conv, words |-> f.words]}
          /\ UNCHANGED posted
     ELSE /\ posted' = [w \in Words |-> posted[w] + IF w \in f.words THEN 1 ELSE 0]
          /\ UNCHANGED held

RemainingNone(f) == IF f.here THEN {} ELSE field  \* mutant: the whole field is cleared

\* removeSentWords: nothing goes unless every word that left is still there.
Remaining(f) == IF f.here /\ f.words \subseteq field THEN field \ f.words ELSE field

LandedOverTimer(f) ==  \* mutant: the timer still armed for the sent words is left to fire
  LET same == draft[f.conv] = f.submitted
  IN  /\ f \in flight
      /\ Taken(f)
      /\ field' = Remaining(f)
      /\ saves' = IF same THEN Append(saves, Save(f.conv, {})) ELSE saves
      /\ draft' = [draft EXCEPT ![f.conv] = IF same THEN {} ELSE @]
      /\ UNCHANGED <<route, open, unsaved, row, sends, moving, restore, past>>

\* The draft is cleared if it is still what was submitted, its timer first; then the
\* field loses the words, which is a change of the open draft like any other.
Landed(f) ==
  LET same  == draft[f.conv] = f.submitted
      taken == Remaining(f) # field
  IN  /\ f \in flight
      /\ Taken(f)
      /\ field' = Remaining(f)
      /\ saves' = IF same THEN Append(saves, Save(f.conv, {})) ELSE saves
      /\ draft' = [draft EXCEPT ![f.conv] = IF taken THEN field' ELSE IF same THEN {} ELSE @]
      /\ unsaved' = [unsaved EXCEPT ![f.conv] = IF taken THEN {field'} ELSE IF same THEN {} ELSE @]
      /\ UNCHANGED <<route, open, row, sends, moving, restore, past>>

\* The words stay where they are, under a sentence saying why they did not leave.
Failed(f) ==
  /\ f \in flight
  /\ flight' = flight \ {f}
  /\ UNCHANGED <<box, store, sends, held, moving, restore, posted, past>>

-----------------------------------------------------------------------------
(* Scheduled messages.                                                     *)

Due(q) ==
  /\ q \in held
  /\ held' = held \ {q}
  /\ posted' = [w \in Words |-> posted[w] + IF w \in q.words THEN 1 ELSE 0]
  /\ UNCHANGED <<box, store, flight, sends, moving, restore, past>>

\* cancelScheduledMessage, the row's Delete.
Discard(q) ==
  /\ q \in held /\ moving = {}
  /\ held' = held \ {q}
  /\ dropped' = dropped \cup q.words
  /\ UNCHANGED <<box, store, flight, sends, moving, restore, posted, home, replaced, strayed, amiss>>

\* Send now and Edit begin by cancelling; the list holds the rows of every conversation.
Cancel(q, then) ==
  /\ q \in held /\ moving = {}
  /\ held' = held \ {q}
  /\ moving' = {[msg |-> q, then |-> then]}
  /\ UNCHANGED <<box, store, flight, sends, restore, posted, past>>

NowBegins(q) == Cancel(q, "send")

EditBegins(q) == Cancel(q, "open")

\* "If the send fails the message is simply cancelled."
NowEnds(m) ==
  /\ m \in moving /\ m.then = "send"
  /\ moving' = {}
  /\ \/ /\ posted' = [w \in Words |-> posted[w] + IF w \in m.msg.words THEN 1 ELSE 0]
        /\ UNCHANGED dropped
     \/ dropped' = dropped \cup m.msg.words /\ UNCHANGED posted
  /\ UNCHANGED <<box, store, flight, sends, held, restore, home, replaced, strayed, amiss>>

\* openConversation from the list's Edit, which leaves the URL alone.
EditOpens(m) ==
  /\ m \in moving /\ m.then = "open"
  /\ moving' = {[m EXCEPT !.then = "restore"]}
  /\ IF open = m.msg.conv THEN UNCHANGED <<open, field, store, flight, replaced>> ELSE Show(m.msg.conv)
  /\ UNCHANGED <<route, sends, held, restore, posted, home, dropped, strayed, amiss>>

\* Its history has been read: setDraftText writes into whatever is open by now, and the
\* words replace what the field of their own conversation holds.
EditRestores(m) ==
  /\ m \in moving /\ m.then = "restore"
  /\ moving' = {}
  /\ restore' = {m.msg}
  /\ SetDraft(m.msg.words)
  /\ field' = IF open = m.msg.conv THEN m.msg.words ELSE field
  /\ replaced' = IF open = Away THEN replaced ELSE replaced \cup (draft[open] \ m.msg.words)
  /\ strayed' = IF open = m.msg.conv THEN strayed ELSE strayed \cup m.msg.words
  /\ UNCHANGED <<route, open, saves, row, flight, sends, held, posted, home, dropped, amiss>>

ComposerNext ==
  \/ \E w \in Words : Type(w) \/ Rewrite(w)
  \/ \E c \in Convs \cup {Away} : Navigate(c)
  \/ Reconcile
  \/ \E later \in BOOLEAN : Press(later)
  \/ \E f \in flight : Landed(f) \/ Failed(f)
  \/ \E q \in held : Due(q) \/ Discard(q) \/ NowBegins(q) \/ EditBegins(q)
  \/ \E m \in moving : NowEnds(m) \/ EditOpens(m) \/ EditRestores(m)
  \/ \E c \in Convs : SaveTimer(c)
  \/ \E i \in 1..Len(saves) : \E ok \in BOOLEAN : Saved(i, ok)

ComposerSpec == ComposerInit /\ [][ComposerNext]_cvars

-----------------------------------------------------------------------------
(* What must hold.                                                         *)

\* The types; and one mounted field has at most one send on its way.
ComposerTypeOK ==
  /\ route \in Convs \cup {Away} /\ open \in Convs \cup {Away} /\ field \in Texts
  /\ draft \in [Convs -> Texts] /\ row \in [Convs -> Texts]
  /\ unsaved \in [Convs -> SUBSET Texts] /\ \A c \in Convs : Cardinality(unsaved[c]) <= 1
  /\ saves \in Seq([conv : Convs, text : Texts, overtaken : BOOLEAN])
  /\ flight \subseteq Send /\ held \subseteq Held /\ restore \subseteq Held
  /\ sends \in 0..MaxSends
  /\ moving \subseteq [msg : Held, then : {"send", "open", "restore"}]
  /\ home \subseteq Words \X Convs /\ dropped \in Texts /\ replaced \in Texts /\ strayed \in Texts
  /\ amiss \subseteq Convs
  /\ Cardinality({f \in flight : f.here}) <= 1

\* No word is lost: it is in its conversation's draft or field, on its way, held, or in the
\* thread, unless the reader took it out, or a message taken back for editing wrote over it
\* or carried it to another conversation.
NothingLost ==
  \A h \in home :
    \/ h[1] \in dropped \cup replaced \cup strayed \/ posted[h[1]] > 0
    \/ h[1] \in draft[h[2]] \/ (open = h[2] /\ h[1] \in field)
    \/ \E m \in flight \cup held \cup {n.msg : n \in moving} : h[1] \in m.words

\* A word never turns up in the draft of a conversation it was not written for, on the page
\* or in the store.
WordsAtHome ==
  \A c \in Convs : \A w \in draft[c] \cup row[c] : <<w, c>> \in home

\* The same of every word but those whose message was handed back while another
\* conversation was open.
OnlyStraysAway ==
  \A c \in Convs : \A w \in draft[c] \cup row[c] : <<w, c>> \in home \/ w \in strayed

\* Once nothing is armed or on its way for a conversation, what a reload would show is the
\* draft the page holds, unless its last save failed, or an earlier one was stored after it.
DraftsPersist ==
  \A c \in Convs \ amiss :
    unsaved[c] = {} /\ (\A i \in 1..Len(saves) : saves[i].conv # c) => row[c] = draft[c]
=============================================================================
