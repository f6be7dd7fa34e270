------------------------------- MODULE Chess -------------------------------
(***************************************************************************)
(* A game of chess played by editing messages (web/src/lib/chess-thread.ts,*)
(* chess-act.ts, the store's publishChessLedger and the board's            *)
(* use-chess-game.ts).  Each player has ONE message, a ledger rewritten    *)
(* whole at every act from what their page holds of it; the game is what   *)
(* any page folds out of the ledgers it has been delivered.                *)
(*                                                                         *)
(* One untimed challenge in a thread of colleagues.  A ledger's moves are  *)
(* kept as the set of plies they claim; ply LastPly ends the game on the   *)
(* board.                                                                  *)
(***************************************************************************)
EXTENDS Integers, FiniteSetsExt

CONSTANTS Colleagues,  \* the people in the thread, the challenger among them
          Challenger,
          Colors,      \* the colours the challenge may state, among "w" and "b"
          Nobody,      \* no colleague: the opponent of a challenge nobody has taken up
          LastPly,     \* the ply that mates, or draws by rule
          MaxActs      \* bound: publishes over a behaviour

ASSUME ChessAssumption ==
  /\ IsFiniteSet(Colleagues)
  /\ Challenger \in Colleagues /\ Nobody \notin Colleagues
  /\ Colors \subseteq {"w", "b"}
  /\ LastPly \in Nat \ {0} /\ MaxActs \in Nat

VARIABLES color,    \* the challenger's colour
          thread,   \* [Colleagues -> the ledger message the service holds, or NoLedger]
          seq,      \* [Colleagues -> the place of their message in the thread, 0 for none]
          seen,     \* [Colleagues -> what their page has been delivered of `thread`]
          game,     \* [Colleagues -> the game their page derives from it]
          calls,    \* publishes under way
          acts,     \* how many there have been
          pending,  \* chessPending: the ply drawn before it lands, 0 for none
          premove,  \* chessPremove holds a move
          crossed   \* history: the readers whose last press found an act of theirs on its way

cvars == <<color, thread, seq, seen, game, calls, acts, pending, premove, crossed>>

NoLedger == [kind |-> "none"]
Draft    == [kind |-> "ledger", joined |-> FALSE, declined |-> FALSE, resigned |-> FALSE,
             plies |-> {}, offer |-> -1, accept |-> -1]
Ledgers  == [kind : {"ledger"}, joined : BOOLEAN, declined : BOOLEAN, resigned : BOOLEAN,
             plies : SUBSET (1..LastPly), offer : -1..LastPly, accept : -1..LastPly]

-----------------------------------------------------------------------------
(* The fold: resolve of chess-thread.ts over the ledgers of a view.        *)

Opposite(c) == IF c = "w" THEN "b" ELSE "w"
TurnAt(n)   == IF n % 2 = 0 THEN "w" ELSE "b"
Written(v)  == {p \in Colleagues : v[p] # NoLedger}

\* The first colleague to answer, in the order of the thread's messages.
Joiners(v)  == {p \in Written(v) : v[p].joined}
LastToAnswer(v) ==                           \* mutant: the newest answer read as the first
  IF Joiners(v) = {} THEN Nobody
  ELSE CHOOSE p \in Joiners(v) : \A q \in Joiners(v) : seq[q] <= seq[p]
Opponent(v) == IF Joiners(v) = {} THEN Nobody
               ELSE CHOOSE p \in Joiners(v) : \A q \in Joiners(v) : seq[p] <= seq[q]
ColorOf(p)  == IF p = Challenger THEN color ELSE Opposite(color)

LastIndex(plies) == Max({0} \cup plies) - 1  \* mutant: an index for a ply
LastOf(plies) == Max({0} \cup plies)

\* The claims of the two players, each for its own colour: the run from ply 1.
Applied(v, rival) ==
  LET claims == v[Challenger].plies \cup v[rival].plies
  IN  CHOOSE n \in 0..LastPly : 1..n \subseteq claims /\ n + 1 \notin claims

\* Where a resignation stands: at its author's last ply, so that no later one counts.
ResignedAtPly(v, rival) ==                   \* mutant: it stands at one position, as an offer does
  {q \in {Challenger, rival} : v[q].resigned /\ LastOf(v[q].plies) = Applied(v, rival)}
Resigned(v, rival) == {q \in {Challenger, rival} : v[q].resigned}

\* Everything that may have ended the game, each at its ply.
Settlements(v, rival) ==
  IF rival = Nobody
  THEN {[kind |-> "declined", by |-> p, ply |-> 0] :
          p \in {q \in Written(v) : IF q = Challenger THEN v[q].resigned ELSE v[q].declined}}
  ELSE LET Other(p) == IF p = rival THEN Challenger ELSE rival
       IN  {[kind |-> "resigned", by |-> p, ply |-> LastOf(v[p].plies)] : p \in Resigned(v, rival)}
           \cup {[kind |-> "drawAgreed", by |-> p, ply |-> v[p].accept] :
              p \in {q \in {Challenger, rival} : v[q].accept # -1 /\ v[Other(q)].offer = v[q].accept}}

\* The earliest ends it; at one ply a resignation comes before an agreed draw, and
\* the first message before the second.
Before(s, t) ==
  \/ s.ply < t.ply
  \/ s.ply = t.ply /\ s.kind = "resigned" /\ t.kind = "drawAgreed"
  \/ s.ply = t.ply /\ s.kind = t.kind /\ seq[s.by] <= seq[t.by]

\* One game, as a view of the thread states it.
Game(v) ==
  LET rival == Opponent(v)
      ends  == Settlements(v, rival)
      end   == CHOOSE s \in ends : \A t \in ends : Before(s, t)
      run   == IF rival = Nobody THEN 0 ELSE Applied(v, rival)
  IN  [opponent |-> rival,
       outcome  |-> IF ends = {} THEN "playing" ELSE end.kind,
       by       |-> IF ends = {} THEN Nobody ELSE end.by,
       moves    |-> IF ends = {} THEN run ELSE Min({run, end.ply})]

Settled(g)   == g.outcome # "playing"
Plays(p, g)  == g.opponent # Nobody /\ p \in {Challenger, g.opponent}
Rival(p, g)  == IF p = Challenger THEN g.opponent ELSE Challenger

-----------------------------------------------------------------------------
ChessInit ==
  /\ color \in Colors
  /\ thread = [p \in Colleagues |-> IF p = Challenger THEN Draft ELSE NoLedger]
  /\ seq = [p \in Colleagues |-> IF p = Challenger THEN 1 ELSE 0]
  /\ seen = [p \in Colleagues |-> thread]
  /\ game = [p \in Colleagues |-> Game(seen[p])]
  /\ calls = {} /\ acts = 0
  /\ pending = [p \in Colleagues |-> 0]
  /\ premove = [p \in Colleagues |-> FALSE]
  /\ crossed = {}

Base(p) == seen[p][p]

\* Nothing of the reader's is on its way: no publish that may still land, nothing the
\* thread holds that their page was not delivered, no move drawn ahead of it.
Clear(p) ==
  /\ \A c \in calls : c.by # p
  /\ thread[p] = Base(p)
  /\ pending[p] # 0 => Base(p) # NoLedger /\ pending[p] \in Base(p).plies

\* publishChessLedger: an edit of one's own message, a new message without one.  Nothing
\* makes a press wait for the one before it, whose answer may come late or not at all.
Publish(p, ledger, edit) ==
  /\ acts < MaxActs /\ acts' = acts + 1
  /\ calls' = calls \cup {[by |-> p, ledger |-> ledger, edit |-> edit]}
  /\ crossed' = IF Clear(p) THEN crossed \ {p} ELSE crossed \cup {p}
  /\ UNCHANGED <<color, thread, seq, seen, game>>

Rewrite(p, ledger) == Publish(p, ledger, TRUE)

\* The board as drawn, with the move pending, and what its reader may do on it.
Drawn(p)   == IF pending[p] = game[p].moves + 1 THEN pending[p] ELSE game[p].moves
CanAct(p)  == Plays(p, game[p]) /\ ~Settled(game[p]) /\ Drawn(p) < LastPly
OurMove(p) == CanAct(p) /\ Drawn(p) = game[p].moves /\ TurnAt(game[p].moves) = ColorOf(p)
Offers(q, p) == seen[p][q].offer = game[p].moves       \* q's offer, on p's page

\* An answer to an open challenge: the reader has no colour yet, so no message of theirs to edit.
Answer(p) ==
  /\ p # Challenger /\ game[p].opponent = Nobody /\ ~Settled(game[p])
  /\ \E yes \in BOOLEAN :
       Publish(p, [Draft EXCEPT !.joined = yes, !.declined = ~yes], FALSE)
  /\ UNCHANGED <<pending, premove>>

\* A move: the standing offer is left behind, and the board draws it at once.
MoveAlone(p) ==                              \* mutant: a record of the newest move only
  /\ Rewrite(p, [Base(p) EXCEPT !.plies = {game[p].moves + 1}, !.offer = -1])
  /\ pending' = [pending EXCEPT ![p] = game[p].moves + 1]
PublishMove(p) ==
  LET ply == game[p].moves + 1
  IN  /\ Rewrite(p, [Base(p) EXCEPT !.plies = @ \cup {ply}, !.offer = -1])
      /\ pending' = [pending EXCEPT ![p] = ply]

Move(p) ==
  /\ OurMove(p)
  /\ PublishMove(p)
  /\ UNCHANGED premove

\* A premove is set while the other side thinks, and plays itself when they have moved.
SetPremove(p) ==
  /\ CanAct(p) /\ TurnAt(Drawn(p)) # ColorOf(p)
  /\ premove' = [premove EXCEPT ![p] = ~@]
  /\ UNCHANGED <<color, thread, seq, seen, game, calls, acts, pending, crossed>>

\* The effect that fires it, or drops it when the rules refuse it there.
FirePremove(p) ==
  /\ premove[p] /\ OurMove(p)
  /\ premove' = [premove EXCEPT ![p] = FALSE]
  /\ \/ PublishMove(p)
     \/ UNCHANGED <<color, thread, seq, seen, game, calls, acts, pending, crossed>>

OfferDraw(p) ==
  /\ CanAct(p)
  /\ \A q \in {p, Rival(p, game[p])} : ~Offers(q, p)
  /\ Rewrite(p, [Base(p) EXCEPT !.offer = game[p].moves])
  /\ UNCHANGED <<pending, premove>>

AcceptDraw(p) ==
  /\ CanAct(p) /\ Offers(Rival(p, game[p]), p)
  /\ Rewrite(p, [Base(p) EXCEPT !.accept = game[p].moves])
  /\ UNCHANGED <<pending, premove>>

\* A resignation, or the challenger's withdrawal of an offer nobody took up.
Resign(p) ==
  /\ CanAct(p) \/ (p = Challenger /\ game[p].opponent = Nobody /\ ~Settled(game[p]))
  /\ Rewrite(p, [Base(p) EXCEPT !.resigned = TRUE])
  /\ UNCHANGED <<pending, premove>>

-----------------------------------------------------------------------------
(* The service, and the pages' feeds.                                      *)

\* An edit replaces the message; a second message of one author is a ledger the
\* fold ignores.
Land(c) ==
  /\ c \in calls
  /\ calls' = calls \ {c}
  /\ IF c.edit \/ thread[c.by] = NoLedger
     THEN /\ thread' = [thread EXCEPT ![c.by] = c.ledger]
          /\ seq' = IF c.edit THEN seq
                    ELSE [seq EXCEPT ![c.by] = Cardinality(Written(thread)) + 1]
     ELSE UNCHANGED <<thread, seq>>
  /\ UNCHANGED <<color, seen, game, acts, pending, premove, crossed>>

\* The request fails before it left: a move is taken back.
FailKept(c) ==                               \* mutant: the move is not taken back
  /\ c \in calls
  /\ calls' = calls \ {c}
  /\ UNCHANGED <<color, thread, seq, seen, game, acts, pending, premove, crossed>>
Fail(c) ==
  /\ c \in calls
  /\ calls' = calls \ {c}
  /\ pending' = [pending EXCEPT ![c.by] = 0]
  /\ UNCHANGED <<color, thread, seq, seen, game, acts, premove, crossed>>

\* It is reported as failed and is still under way: nobody answered in time.
Unanswered(c) ==
  /\ c \in calls /\ pending[c.by] # 0
  /\ pending' = [pending EXCEPT ![c.by] = 0]
  /\ UNCHANGED <<color, thread, seq, seen, game, calls, acts, premove, crossed>>

\* A page is delivered what the thread holds of one author, its own echo included: the
\* game is derived again, and settleChessMove forgets a pending move it holds.
Deliver(p, q) ==
  /\ seen[p][q] # thread[q]
  /\ seen' = [seen EXCEPT ![p][q] = thread[q]]
  /\ game' = [game EXCEPT ![p] = Game(seen'[p])]
  /\ pending' = [pending EXCEPT ![p] = IF @ <= game'[p].moves THEN 0 ELSE @]
  /\ UNCHANGED <<color, thread, seq, calls, acts, premove, crossed>>

\* A reload forgets what only the page held.
Reload(p) ==
  /\ pending[p] # 0 \/ premove[p]
  /\ pending' = [pending EXCEPT ![p] = 0]
  /\ premove' = [premove EXCEPT ![p] = FALSE]
  /\ UNCHANGED <<color, thread, seq, seen, game, calls, acts, crossed>>

ChessNext ==
  \/ \E p \in Colleagues :
       \/ Answer(p) \/ Move(p) \/ SetPremove(p) \/ FirePremove(p)
       \/ OfferDraw(p) \/ AcceptDraw(p) \/ Resign(p) \/ Reload(p)
       \/ \E q \in Colleagues : Deliver(p, q)
  \/ \E c \in calls : Land(c) \/ Fail(c) \/ Unanswered(c)

ChessSpec == ChessInit /\ [][ChessNext]_cvars

-----------------------------------------------------------------------------
(* What must hold.                                                         *)

ChessTypeOK ==
  /\ color \in {"w", "b"}
  /\ thread \in [Colleagues -> Ledgers \cup {NoLedger}]
  /\ seq \in [Colleagues -> 0..Cardinality(Colleagues)]
  /\ seen \in [Colleagues -> [Colleagues -> Ledgers \cup {NoLedger}]]
  /\ game \in [Colleagues -> [opponent : Colleagues \cup {Nobody}, moves : 0..LastPly,
                              by : Colleagues \cup {Nobody},
                              outcome : {"playing", "declined", "resigned", "drawAgreed"}]]
  /\ calls \subseteq [by : Colleagues, ledger : Ledgers, edit : BOOLEAN]
  /\ pending \in [Colleagues -> 0..LastPly]
  /\ acts \in 0..MaxActs /\ premove \in [Colleagues -> BOOLEAN]
  /\ crossed \subseteq Colleagues

\* What a page that holds the whole thread shows.
Truth == Game(thread)

\* Whoever took the challenge up keeps the seat, whoever else pressed accept or
\* decline at the same moment, and whatever is rewritten since.
OpponentStands ==
  [][thread' # thread =>
       LET g == Truth IN g.opponent # Nobody => Truth'.opponent = g.opponent]_cvars

\* A ledger is rewritten whole from what its author's page held, so two of an author's
\* acts on their way together may each undo the other.
Crossing(p) == p \in crossed /\ thread'[p] # thread[p]

\* The game as played is shortened by nothing else: every move of a game that still
\* runs stays, whatever the two players and the bystanders press at once.
PlayedStands ==
  [][thread' # thread =>
       LET g == Truth' IN \/ Settled(g) \/ g.moves >= Truth.moves
                          \/ \E p \in {q \in Colleagues : Plays(q, Truth)} : Crossing(p)]_cvars

\* A resignation is taken back by nothing else that is pressed or delivered later.
ResignStands ==
  [][thread' # thread =>
       \A p \in Written(thread) :
         Plays(p, Truth) /\ thread[p].resigned =>
           Crossing(p) \/ (thread'[p].resigned /\ Settled(Truth'))]_cvars

\* When everything published has been delivered, a move a board still draws as its own
\* is one its message holds: none is drawn that never left, and one that was written
\* over was written over by an act of the same reader that crossed it.
NoGhostMove ==
  calls = {} /\ (\A p \in Colleagues : seen[p] = thread) =>
    \A p \in Colleagues : pending[p] # 0 => pending[p] \in thread[p].plies \/ p \in crossed
=============================================================================
