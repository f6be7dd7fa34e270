---------------------------- MODULE ChessProofs ----------------------------
(***************************************************************************)
(* Proofs about Chess, for any thread of colleagues, any length of game    *)
(* and any number of acts, whatever is pressed while an earlier act is     *)
(* still on its way: `crossed` names the readers who did that, and what    *)
(* was played is kept by all the others.                                   *)
(***************************************************************************)
EXTENDS Chess, FiniteSetTheorems, WellFoundedInduction, TLAPS

-----------------------------------------------------------------------------
(* Numbers.  That every set of them has a smallest is the well-foundedness *)
(* of <, stated of a relation the provers can read.                        *)

Less == {p \in Nat \X Nat : p[1] < p[2]}

LEMMA LessIsWellFounded == IsWellFoundedOn(Less, Nat)
  BY NatLessThanWellFounded DEF OpToRel, Less

LEMMA Smallest ==
  ASSUME NEW S \in SUBSET Nat, S # {}
  PROVE  \E n \in S : \A m \in S : n <= m
<1>1. PICK n \in S : \A m \in S : ~(<<m, n>> \in Less)
  BY LessIsWellFounded, WFMin
<1>2. ASSUME NEW m \in S PROVE n <= m
  <2>1. <<m, n>> \notin Less
    BY <1>1
  <2>2. QED
    BY <2>1 DEF Less
<1>3. QED
  BY <1>2

LEMMA SmallestOf ==
  ASSUME NEW S, S # {}, NEW f, \A x \in S : f[x] \in Nat
  PROVE  \E x \in S : \A y \in S : f[x] <= f[y]
<1> DEFINE T == {f[x] : x \in S}
<1>1. T \in SUBSET Nat /\ T # {} /\ \A x \in S : f[x] \in T
  OBVIOUS
<1>2. \A n \in T : \E x \in S : n = f[x]
  OBVIOUS
<1> HIDE DEF T
<1>3. PICK n \in T : \A m \in T : n <= m
  BY <1>1, Smallest
<1>4. QED
  BY <1>1, <1>2, <1>3

LEMMA MaxIs ==
  ASSUME NEW n \in Nat, NEW S \in SUBSET (0..n), S # {}
  PROVE  Max(S) \in S /\ \A m \in S : m <= Max(S)
<1> DEFINE f == [s \in S |-> n - s]
<1>1. \A s \in S : f[s] \in Nat /\ f[s] = n - s
  OBVIOUS
<1> HIDE DEF f
<1>2. PICK x \in S : \A y \in S : f[x] <= f[y]
  BY <1>1, SmallestOf
<1>3. \A y \in S : x >= y
  BY <1>1, <1>2
<1>4. QED
  BY <1>3 DEF Max

LEMMA MinOfTwo ==
  ASSUME NEW m \in Nat, NEW n \in Nat
  PROVE  Min({m, n}) \in {m, n} /\ Min({m, n}) <= m /\ Min({m, n}) <= n
<1>1. \E x \in {m, n} : \A y \in {m, n} : x =< y
  OBVIOUS
<1>2. QED
  BY <1>1 DEF Min

-----------------------------------------------------------------------------
(* The fold, of any view a page may hold.                                  *)

Views == {v \in [Colleagues -> Ledgers \cup {NoLedger}] : v[Challenger] # NoLedger}
Games == [opponent : Colleagues \cup {Nobody}, moves : 0..LastPly,
          by : Colleagues \cup {Nobody},
          outcome : {"playing", "declined", "resigned", "drawAgreed"}]
Ends  == [kind : {"declined", "resigned", "drawAgreed"}, by : Colleagues, ply : 0..LastPly]

LEMMA LedgerIsWritten == NoLedger \notin Ledgers
<1>1. \A x \in Ledgers : x.kind = "ledger"
  BY DEF Ledgers
<1>2. NoLedger.kind = "none"
  BY DEF NoLedger
<1>3. QED
  BY <1>1, <1>2

LEMMA LastOfIs ==
  ASSUME NEW plies \in SUBSET (1..LastPly)
  PROVE  LastOf(plies) \in 0..LastPly
<1>1. {0} \cup plies \in SUBSET (0..LastPly) /\ {0} \cup plies # {} /\ LastPly \in Nat
  BY ChessAssumption
<1>2. QED
  BY <1>1, MaxIs DEF LastOf

\* The run of plies both players claim, from the first.
LEMMA RunIs ==
  ASSUME NEW claims \in SUBSET (1..LastPly)
  PROVE  \E n \in 0..LastPly : 1..n \subseteq claims /\ n + 1 \notin claims
<1> DEFINE S == {n \in Nat : n + 1 \notin claims}
<1>1. LastPly \in S /\ S \in SUBSET Nat
  BY ChessAssumption
<1>2. PICK n \in S : \A m \in S : n <= m
  BY <1>1, Smallest
<1>3. n \in 0..LastPly /\ n + 1 \notin claims
  BY <1>1, <1>2, ChessAssumption
<1>4. ASSUME NEW k \in 1..n PROVE k \in claims
  <2>1. k - 1 \in Nat /\ ~(n <= k - 1) /\ (k - 1) + 1 = k
    BY <1>3
  <2>2. k - 1 \notin S
    BY <1>2, <2>1
  <2>3. QED
    BY <2>1, <2>2
<1>5. QED
  BY <1>3, <1>4

\* Whatever may have ended a game, one of it came first.
LEMMA EarliestIs ==
  ASSUME NEW E \in SUBSET Ends, E # {}, seq \in [Colleagues -> Nat],
         \/ \A s \in E : s.kind = "declined"
         \/ \A s \in E : s.kind \in {"resigned", "drawAgreed"}
  PROVE  \E s \in E : \A t \in E : Before(s, t)
<1>0. \A s \in E : s.ply \in Nat /\ s.by \in Colleagues /\ seq[s.by] \in Nat
  BY ChessAssumption DEF Ends
<1> DEFINE ply == [s \in E |-> s.ply]
           at  == [s \in E |-> seq[s.by]]
<1>1. PICK first \in E : \A t \in E : first.ply <= t.ply
  <2>1. \A s \in E : ply[s] = s.ply /\ ply[s] \in Nat
    BY <1>0
  <2>2. PICK s \in E : \A t \in E : ply[s] <= ply[t]
    BY <2>1, SmallestOf
  <2>3. QED
    BY <2>1, <2>2
<1> DEFINE A == {s \in E : s.ply = first.ply}
           R == {s \in A : s.kind = "resigned"}
           B == IF R = {} THEN A ELSE R
<1>2. first \in A /\ B \subseteq E /\ B # {} /\ B \subseteq A
  OBVIOUS
<1>3. PICK s \in B : \A t \in B : seq[s.by] <= seq[t.by]
  <2>1. \A t \in B : at[t] = seq[t.by] /\ at[t] \in Nat
    BY <1>0, <1>2
  <2>2. PICK x \in B : \A t \in B : at[x] <= at[t]
    <3> HIDE DEF B, at
    <3>1. QED
      BY <1>2, <2>1, SmallestOf
  <2>3. QED
    BY <2>1, <2>2
<1>4. ASSUME NEW t \in E PROVE Before(s, t)
  <2>1. s \in E /\ s.ply = first.ply /\ first.ply <= t.ply
    BY <1>1, <1>2
  <2>2. CASE t.ply # first.ply
    BY <1>0, <2>1, <2>2 DEF Before
  <2>3. CASE t \in B
    <3>1. s.kind = t.kind /\ t.ply = s.ply
      BY <1>2, <2>1, <2>3
    <3>2. QED
      BY <1>3, <2>3, <3>1 DEF Before
  <2>4. CASE t \in A /\ t \notin B
    BY <2>1, <2>4 DEF Before
  <2>5. QED
    BY <2>2, <2>3, <2>4
<1>5. QED
  BY <1>2, <1>4

\* The seat is its first taker's, by the order of the messages.
LEMMA OpponentIs ==
  ASSUME NEW v \in Views, seq \in [Colleagues -> Nat]
  PROVE  /\ Joiners(v) = {} => Opponent(v) = Nobody
         /\ Joiners(v) # {} => /\ Opponent(v) \in Joiners(v)
                               /\ \A q \in Joiners(v) : seq[Opponent(v)] <= seq[q]
<1>1. CASE Joiners(v) = {}
  BY <1>1 DEF Opponent
<1>2. CASE Joiners(v) # {}
  <2>1. \A q \in Joiners(v) : seq[q] \in Nat
    BY DEF Joiners, Written
  <2>2. PICK p \in Joiners(v) : \A q \in Joiners(v) : seq[p] <= seq[q]
    BY <1>2, <2>1, SmallestOf
  <2>3. QED
    BY <1>2, <2>2 DEF Opponent
<1>3. QED
  BY <1>1, <1>2

\* What ends a game is typed, and of one sort or the other.
LEMMA SettlementsAre ==
  ASSUME NEW v \in Views, NEW rival \in Colleagues \cup {Nobody},
         rival # Nobody => v[rival] # NoLedger
  PROVE  /\ Settlements(v, rival) \in SUBSET Ends
         /\ \/ \A s \in Settlements(v, rival) : s.kind = "declined"
            \/ \A s \in Settlements(v, rival) : s.kind \in {"resigned", "drawAgreed"}
<1>1. CASE rival = Nobody
  <2>1. Settlements(v, rival) =
          {[kind |-> "declined", by |-> p, ply |-> 0] :
             p \in {q \in Written(v) : IF q = Challenger THEN v[q].resigned ELSE v[q].declined}}
    BY <1>1 DEF Settlements
  <2>2. 0 \in 0..LastPly
    BY ChessAssumption
  <2>3. QED
    BY <2>1, <2>2 DEF Ends, Written
<1>2. CASE rival # Nobody
  <2> DEFINE Other(p) == IF p = rival THEN Challenger ELSE rival
             R == {[kind |-> "resigned", by |-> p, ply |-> LastOf(v[p].plies)] :
                     p \in Resigned(v, rival)}
             D == {[kind |-> "drawAgreed", by |-> p, ply |-> v[p].accept] :
                     p \in {q \in {Challenger, rival} :
                              v[q].accept # -1 /\ v[Other(q)].offer = v[q].accept}}
  <2>1. Settlements(v, rival) = R \cup D
    BY <1>2 DEF Settlements
  <2>2. \A p \in {Challenger, rival} : p \in Colleagues /\ v[p] \in Ledgers
    BY <1>2, ChessAssumption DEF Views
  <2>3. R \in SUBSET Ends
    <3>1. \A p \in Resigned(v, rival) : p \in Colleagues /\ LastOf(v[p].plies) \in 0..LastPly
      <4>1. ASSUME NEW p \in Resigned(v, rival)
            PROVE  p \in Colleagues /\ v[p].plies \in SUBSET (1..LastPly)
        BY <2>2 DEF Resigned, Ledgers
      <4>2. QED
        BY <4>1, LastOfIs
    <3>2. QED
      BY <3>1 DEF Ends
  <2>4. D \in SUBSET Ends
    <3>1. \A p \in {Challenger, rival} : v[p].accept \in -1..LastPly
      BY <2>2 DEF Ledgers
    <3>2. \A p \in {Challenger, rival} : v[p].accept # -1 => v[p].accept \in 0..LastPly
      BY <3>1, ChessAssumption
    <3>3. QED
      BY <2>2, <3>2 DEF Ends
  <2>5. (\A s \in R : s.kind = "resigned") /\ (\A s \in D : s.kind = "drawAgreed")
    OBVIOUS
  <2> HIDE DEF R, D
  <2>6. QED
    BY <2>1, <2>3, <2>4, <2>5
<1>3. QED
  BY <1>1, <1>2

\* What g says of the view v it was folded out of.
FoldIs(g, v) ==
  LET opp    == g.opponent
      claims == v[Challenger].plies \cup v[opp].plies
  IN  /\ g \in Games
      /\ opp = Nobody => /\ \A q \in Colleagues : v[q] # NoLedger => ~v[q].joined
                         /\ g.moves = 0
      /\ opp # Nobody =>
           /\ v[opp] # NoLedger /\ v[opp].joined
           /\ \A q \in Colleagues : v[q] # NoLedger /\ v[q].joined => seq[opp] <= seq[q]
           /\ v[Challenger].resigned \/ v[opp].resigned => g.outcome # "playing"
           /\ 1..g.moves \subseteq claims
           /\ g.outcome = "playing" => g.moves + 1 \notin claims

LEMMA Folding ==
  seq \in [Colleagues -> Nat] => \A v \in Views : FoldIs(Game(v), v)
<1> SUFFICES ASSUME seq \in [Colleagues -> Nat], NEW v \in Views PROVE FoldIs(Game(v), v)
  OBVIOUS
<1> DEFINE rival == Opponent(v)
           ends  == Settlements(v, rival)
           end   == CHOOSE s \in ends : \A t \in ends : Before(s, t)
           run   == IF rival = Nobody THEN 0 ELSE Applied(v, rival)
           claims == v[Challenger].plies \cup v[rival].plies
           g     == [opponent |-> rival,
                     outcome  |-> IF ends = {} THEN "playing" ELSE end.kind,
                     by       |-> IF ends = {} THEN Nobody ELSE end.by,
                     moves    |-> IF ends = {} THEN run ELSE Min({run, end.ply})]
<1>1. Game(v) = g
  BY DEF Game
<1>2. /\ rival = Nobody => \A q \in Colleagues : v[q] # NoLedger => ~v[q].joined
      /\ rival # Nobody =>
           /\ rival \in Colleagues /\ v[rival] # NoLedger /\ v[rival].joined
           /\ \A q \in Colleagues : v[q] # NoLedger /\ v[q].joined => seq[rival] <= seq[q]
  BY OpponentIs, ChessAssumption DEF Joiners, Written
<1>3. /\ ends \in SUBSET Ends
      /\ \/ \A s \in ends : s.kind = "declined"
         \/ \A s \in ends : s.kind \in {"resigned", "drawAgreed"}
  BY <1>2, SettlementsAre
<1>4. rival # Nobody /\ (v[Challenger].resigned \/ v[rival].resigned) => ends # {}
  BY DEF Settlements, Resigned
<1>5. ends # {} => end \in ends
  <2> SUFFICES ASSUME ends # {} PROVE end \in ends
    OBVIOUS
  <2> HIDE DEF ends
  <2>1. \E s \in ends : \A t \in ends : Before(s, t)
    BY <1>3, EarliestIs
  <2>2. QED
    BY <2>1
<1>6. /\ run \in 0..LastPly
      /\ rival # Nobody => 1..run \subseteq claims /\ run + 1 \notin claims
  <2>1. CASE rival = Nobody
    BY <2>1, ChessAssumption
  <2>2. CASE rival # Nobody
    <3>1. claims \in SUBSET (1..LastPly)
      <4>1. v[Challenger] \in Ledgers /\ v[rival] \in Ledgers
        BY <1>2, <2>2, ChessAssumption DEF Views
      <4>2. QED
        BY <4>1 DEF Ledgers
    <3>2. PICK k \in 0..LastPly : 1..k \subseteq claims /\ k + 1 \notin claims
      <4> HIDE DEF claims
      <4>1. QED
        BY <3>1, RunIs
    <3>3. Applied(v, rival) = CHOOSE n \in 0..LastPly : 1..n \subseteq claims /\ n + 1 \notin claims
      BY DEF Applied
    <3>4. run = CHOOSE n \in 0..LastPly : 1..n \subseteq claims /\ n + 1 \notin claims
      BY <2>2, <3>3
    <3> HIDE DEF run, claims
    <3>5. QED
      BY <3>2, <3>4
  <2>3. QED
    BY <2>1, <2>2
<1> HIDE DEF ends, end, run, claims, rival
<1>7. ends # {} => /\ end.ply \in 0..LastPly /\ end.by \in Colleagues
                   /\ end.kind \in {"declined", "resigned", "drawAgreed"}
  BY <1>3, <1>5 DEF Ends
<1>8. g.moves \in 0..LastPly /\ g.moves <= run /\ (ends = {} => g.moves = run)
  <2>1. CASE ends = {}
    BY <1>6, <2>1, ChessAssumption
  <2>2. CASE ends # {}
    <3>1. run \in Nat /\ end.ply \in Nat
      BY <1>6, <1>7, <2>2
    <3>2. Min({run, end.ply}) \in {run, end.ply} /\ Min({run, end.ply}) <= run
      BY <3>1, MinOfTwo
    <3>3. g.moves = Min({run, end.ply})
      BY <2>2
    <3>4. QED
      BY <1>6, <1>7, <2>2, <3>2, <3>3
  <2>3. QED
    BY <2>1, <2>2
<1>9. g \in Games /\ g.opponent = rival /\ (g.outcome = "playing" <=> ends = {})
  BY <1>2, <1>7, <1>8 DEF Games
<1>10. rival = Nobody => g.moves = 0
  <2>1. rival = Nobody => run = 0
    BY DEF run
  <2>2. QED
    BY <1>8, <2>1
<1>11. rival # Nobody => /\ 1..g.moves \subseteq claims
                         /\ ends = {} => g.moves + 1 \notin claims
  BY <1>6, <1>8
<1>12. claims = v[Challenger].plies \cup v[rival].plies
  BY DEF claims
<1> HIDE DEF g
<1>13. QED
  BY <1>1, <1>2, <1>4, <1>9, <1>10, <1>11, <1>12 DEF FoldIs

-----------------------------------------------------------------------------
(* What holds of the messages and of the pages' copies of them, however    *)
(* the readers press.                                                      *)

\* A copy is of a message that is there, and of one that already said whether its
\* author joined; so is what a publish under way rewrites.
Rooted ==
  /\ \A p \in Colleagues : seen[p][Challenger] # NoLedger
  /\ \A p, q \in Colleagues : seen[p][q] # NoLedger =>
       thread[q] # NoLedger /\ seen[p][q].joined = thread[q].joined
  /\ \A c \in calls : c.edit => thread[c.by] # NoLedger /\ c.ledger.joined = thread[c.by].joined
  /\ \A p \in Colleagues : game[p].opponent # Nobody => seen[p][game[p].opponent] # NoLedger

\* The messages have places of their own, and the next one comes after them.
Placed ==
  \A p \in Written(thread) :
    /\ seq[p] <= Cardinality(Written(thread))
    /\ \A q \in Written(thread) : seq[p] = seq[q] => p = q

Held == ChessTypeOK /\ Rooted /\ Placed

\* The six ways to press, seen as one: a publish whose edit keeps what its base said.
Press(p) ==
  /\ \E ledger \in Ledgers, edit \in BOOLEAN :
       /\ Publish(p, ledger, edit)
       /\ edit => /\ Base(p) # NoLedger /\ ledger.joined = Base(p).joined
                  /\ Base(p).resigned => ledger.resigned
                  /\ Base(p).plies \subseteq ledger.plies
       /\ \/ pending' = pending
          \/ edit /\ \E ply \in ledger.plies : pending' = [pending EXCEPT ![p] = ply]
       /\ premove' \in [Colleagues -> BOOLEAN]

\* And the steps that touch only what the page holds besides.
OnPage(p) ==
  /\ pending' \in {pending, [pending EXCEPT ![p] = 0]}
  /\ premove' \in [Colleagues -> BOOLEAN]
  /\ UNCHANGED <<color, thread, seq, seen, game, calls, acts, crossed>>

LEMMA Rewriting ==
  ASSUME NEW b \in Ledgers
  PROVE  /\ \A ply \in 1..LastPly :
              LET r == [b EXCEPT !.plies = @ \cup {ply}, !.offer = -1]
              IN  /\ r \in Ledgers /\ r.joined = b.joined /\ r.resigned = b.resigned
                  /\ ply \in r.plies /\ b.plies \subseteq r.plies
         /\ \A n \in 0..LastPly :
              LET r == [b EXCEPT !.offer = n]
              IN  r \in Ledgers /\ r.joined = b.joined /\ r.resigned = b.resigned /\ r.plies = b.plies
         /\ \A n \in 0..LastPly :
              LET r == [b EXCEPT !.accept = n]
              IN  r \in Ledgers /\ r.joined = b.joined /\ r.resigned = b.resigned /\ r.plies = b.plies
         /\ LET r == [b EXCEPT !.resigned = TRUE]
            IN  r \in Ledgers /\ r.joined = b.joined /\ r.resigned /\ r.plies = b.plies
<1>1. -1 \in -1..LastPly /\ 0..LastPly \subseteq -1..LastPly
  BY ChessAssumption
<1>2. QED
  BY <1>1 DEF Ledgers

LEMMA Drafting ==
  Draft \in Ledgers /\ \A yes \in BOOLEAN : [Draft EXCEPT !.joined = yes, !.declined = ~yes] \in Ledgers
<1>1. -1 \in -1..LastPly
  BY ChessAssumption
<1>2. QED
  BY <1>1 DEF Ledgers, Draft

\* Whoever may act on a board has a message, and the ply they would claim is in range.
LEMMA ActingIs ==
  ASSUME ChessTypeOK, Rooted, NEW p \in Colleagues
  PROVE  /\ game[p].moves \in 0..LastPly /\ pending[p] \in 0..LastPly
         /\ CanAct(p) => Base(p) \in Ledgers
         /\ p = Challenger => Base(p) \in Ledgers
         /\ OurMove(p) => game[p].moves + 1 \in 1..LastPly
<1>1. game[p] \in Games /\ pending[p] \in 0..LastPly
  BY DEF ChessTypeOK, Games
<1>2. seen[p][p] \in Ledgers \cup {NoLedger}
  BY DEF ChessTypeOK
<1>3. CanAct(p) => Base(p) # NoLedger
  BY DEF CanAct, Plays, Base, Rooted
<1>4. p = Challenger => Base(p) # NoLedger
  BY DEF Base, Rooted
<1>5. OurMove(p) => game[p].moves < LastPly
  BY DEF OurMove, CanAct
<1>6. QED
  BY <1>1, <1>2, <1>3, <1>4, <1>5, ChessAssumption DEF Base, Games

LEMMA Acts ==
  ASSUME ChessTypeOK, Rooted, NEW p \in Colleagues,
         Answer(p) \/ Move(p) \/ FirePremove(p) \/ OfferDraw(p) \/ AcceptDraw(p) \/ Resign(p)
  PROVE  Press(p) \/ OnPage(p)
<1>0. premove \in [Colleagues -> BOOLEAN]
  BY DEF ChessTypeOK
<1>1. ASSUME OurMove(p), PublishMove(p), premove' \in [Colleagues -> BOOLEAN]
      PROVE  Press(p)
  <2> DEFINE ply == game[p].moves + 1
             r   == [Base(p) EXCEPT !.plies = @ \cup {ply}, !.offer = -1]
  <2>1. Base(p) \in Ledgers /\ ply \in 1..LastPly
    BY <1>1, ActingIs DEF OurMove
  <2>2. /\ r \in Ledgers /\ r.joined = Base(p).joined /\ r.resigned = Base(p).resigned
        /\ ply \in r.plies /\ Base(p).plies \subseteq r.plies
    BY <2>1, Rewriting
  <2>3. Publish(p, r, TRUE) /\ pending' = [pending EXCEPT ![p] = ply]
    BY <1>1 DEF PublishMove, Rewrite
  <2> HIDE DEF r, ply
  <2>4. QED
    BY <1>0, <1>1, <2>1, <2>2, <2>3, LedgerIsWritten DEF Press
<1>2. CASE Answer(p)
  <2>1. UNCHANGED <<pending, premove>>
    BY <1>2 DEF Answer
  <2>2. PICK yes \in BOOLEAN : Publish(p, [Draft EXCEPT !.joined = yes, !.declined = ~yes], FALSE)
    BY <1>2 DEF Answer
  <2>3. \E ledger \in Ledgers : Publish(p, ledger, FALSE)
    BY <2>2, Drafting
  <2>4. QED
    BY <1>0, <2>1, <2>3 DEF Press
<1>3. CASE Move(p)
  BY <1>0, <1>1, <1>3 DEF Move
<1>4. CASE FirePremove(p)
  <2>1. OurMove(p) /\ premove' \in [Colleagues -> BOOLEAN]
    BY <1>0, <1>4 DEF FirePremove
  <2>2. CASE PublishMove(p)
    BY <1>1, <2>1, <2>2
  <2>3. CASE UNCHANGED <<color, thread, seq, seen, game, calls, acts, pending, crossed>>
    BY <2>1, <2>3 DEF OnPage
  <2>4. QED
    BY <1>4, <2>2, <2>3 DEF FirePremove
<1>5. ASSUME NEW r \in Ledgers, Base(p) \in Ledgers, Publish(p, r, TRUE),
             r.joined = Base(p).joined, Base(p).resigned => r.resigned, r.plies = Base(p).plies,
             UNCHANGED <<pending, premove>>
      PROVE  Press(p)
  BY <1>0, <1>5, LedgerIsWritten DEF Press
<1>6. CASE OfferDraw(p)
  <2> DEFINE r == [Base(p) EXCEPT !.offer = game[p].moves]
  <2>1. Base(p) \in Ledgers /\ game[p].moves \in 0..LastPly
    BY <1>6, ActingIs DEF OfferDraw
  <2>2. r \in Ledgers /\ r.joined = Base(p).joined /\ r.resigned = Base(p).resigned
        /\ r.plies = Base(p).plies
    BY <2>1, Rewriting
  <2>3. Publish(p, r, TRUE) /\ UNCHANGED <<pending, premove>>
    BY <1>6 DEF OfferDraw, Rewrite
  <2> HIDE DEF r
  <2>4. QED
    BY <1>0, <1>5, <2>1, <2>2, <2>3
<1>7. CASE AcceptDraw(p)
  <2> DEFINE r == [Base(p) EXCEPT !.accept = game[p].moves]
  <2>1. Base(p) \in Ledgers /\ game[p].moves \in 0..LastPly
    BY <1>7, ActingIs DEF AcceptDraw
  <2>2. r \in Ledgers /\ r.joined = Base(p).joined /\ r.resigned = Base(p).resigned
        /\ r.plies = Base(p).plies
    BY <2>1, Rewriting
  <2>3. Publish(p, r, TRUE) /\ UNCHANGED <<pending, premove>>
    BY <1>7 DEF AcceptDraw, Rewrite
  <2> HIDE DEF r
  <2>4. QED
    BY <1>0, <1>5, <2>1, <2>2, <2>3
<1>8. CASE Resign(p)
  <2>1. Base(p) \in Ledgers
    BY <1>8, ActingIs DEF Resign
  <2>2. QED
    BY <1>5, <1>8, <2>1, Rewriting DEF Resign, Rewrite
<1>9. QED
  BY <1>2, <1>3, <1>4, <1>6, <1>7, <1>8

LEMMA HeldInit == ChessInit => Held
<1> SUFFICES ASSUME ChessInit PROVE Held
  OBVIOUS
<1>0. /\ color \in {"w", "b"} /\ calls = {} /\ acts = 0 /\ crossed = {}
      /\ thread = [p \in Colleagues |-> IF p = Challenger THEN Draft ELSE NoLedger]
      /\ seq = [p \in Colleagues |-> IF p = Challenger THEN 1 ELSE 0]
      /\ seen = [p \in Colleagues |-> thread]
      /\ game = [p \in Colleagues |-> Game(seen[p])]
      /\ pending = [p \in Colleagues |-> 0]
      /\ premove = [p \in Colleagues |-> FALSE]
  BY ChessAssumption DEF ChessInit
<1>1. Draft \in Ledgers /\ NoLedger \notin Ledgers
  BY Drafting, LedgerIsWritten
<1>2. Written(thread) = {Challenger} /\ Cardinality(Written(thread)) = 1
      /\ Cardinality(Colleagues) \in Nat /\ 1 <= Cardinality(Colleagues)
  <2>1. Written(thread) = {Challenger}
    BY <1>0, <1>1, ChessAssumption DEF Written
  <2>2. Cardinality({Challenger}) = 1
    BY FS_Singleton
  <2>3. Cardinality({Challenger}) <= Cardinality(Colleagues)
    BY FS_Subset, ChessAssumption
  <2>4. Cardinality(Colleagues) \in Nat
    BY FS_CardinalityType, ChessAssumption
  <2>5. QED
    BY <2>1, <2>2, <2>3, <2>4
<1>3. thread \in Views /\ seq \in [Colleagues -> Nat]
      /\ seq \in [Colleagues -> 0..Cardinality(Colleagues)]
  BY <1>0, <1>1, <1>2, ChessAssumption DEF Views
<1>4. FoldIs(Game(thread), thread)
  BY <1>3, Folding
<1>5. \A p \in Colleagues : game[p] = Game(thread) /\ seen[p] = thread
  BY <1>0
<1>6. game \in [Colleagues -> Games]
  BY <1>0, <1>4, <1>5 DEF FoldIs
<1>7. seen \in [Colleagues -> [Colleagues -> Ledgers \cup {NoLedger}]]
  BY <1>0, <1>3 DEF Views
<1>8. ChessTypeOK
  BY <1>0, <1>3, <1>6, <1>7, ChessAssumption DEF ChessTypeOK, Views, Games
<1>9. Rooted
  <2>1. \A p \in Colleagues : game[p].opponent # Nobody => seen[p][game[p].opponent] # NoLedger
    BY <1>4, <1>5 DEF FoldIs
  <2>2. QED
    BY <1>0, <1>3, <1>5, <2>1, ChessAssumption DEF Rooted, Views
<1>10. Placed
  BY <1>0, <1>2, ChessAssumption DEF Placed
<1>11. QED
  BY <1>8, <1>9, <1>10 DEF Held

LEMMA HeldPress ==
  ASSUME Held, NEW p \in Colleagues, Press(p)
  PROVE  Held'
<1>1. PICK ledger \in Ledgers, edit \in BOOLEAN :
       /\ Publish(p, ledger, edit)
       /\ edit => Base(p) # NoLedger /\ ledger.joined = Base(p).joined
       /\ \/ pending' = pending
          \/ edit /\ \E ply \in ledger.plies : pending' = [pending EXCEPT ![p] = ply]
       /\ premove' \in [Colleagues -> BOOLEAN]
  BY DEF Press
<1>2. /\ calls' = calls \cup {[by |-> p, ledger |-> ledger, edit |-> edit]}
      /\ acts' \in 0..MaxActs
      /\ color' = color /\ thread' = thread /\ seq' = seq /\ seen' = seen /\ game' = game
      /\ crossed' \subseteq Colleagues
  BY <1>1, ChessAssumption DEF Publish, Held, ChessTypeOK
<1>3. pending' \in [Colleagues -> 0..LastPly]
  <2>1. pending \in [Colleagues -> 0..LastPly]
    BY DEF Held, ChessTypeOK
  <2>2. \A ply \in ledger.plies : ply \in 0..LastPly
    BY DEF Ledgers
  <2>3. QED
    BY <1>1, <2>1, <2>2
<1>4. calls' \subseteq [by : Colleagues, ledger : Ledgers, edit : BOOLEAN]
  BY <1>2 DEF Held, ChessTypeOK
<1>5. ChessTypeOK'
  BY <1>1, <1>2, <1>3, <1>4 DEF Held, ChessTypeOK
<1>6. Rooted'
  <2>1. ASSUME NEW c \in calls', c.edit
        PROVE  thread'[c.by] # NoLedger /\ c.ledger.joined = thread'[c.by].joined
    <3>1. CASE c \in calls
      BY <1>2, <2>1, <3>1 DEF Held, Rooted
    <3>2. CASE c = [by |-> p, ledger |-> ledger, edit |-> edit]
      <4>1. c.by = p /\ c.ledger = ledger /\ edit
        BY <2>1, <3>2
      <4>2. seen[p][p] # NoLedger /\ ledger.joined = seen[p][p].joined
        BY <1>1, <4>1 DEF Base
      <4>3. QED
        BY <1>2, <4>1, <4>2 DEF Held, Rooted
    <3>3. QED
      BY <1>2, <3>1, <3>2
  <2>2. QED
    BY <1>2, <2>1 DEF Held, Rooted
<1>7. Placed'
  BY <1>2 DEF Held, Placed, Written
<1>8. QED
  BY <1>5, <1>6, <1>7 DEF Held

\* Nothing written, nothing delivered, no publish that was not under way before.
Quiet ==
  /\ calls' \subseteq calls
  /\ pending' \in [Colleagues -> 0..LastPly] /\ premove' \in [Colleagues -> BOOLEAN]
  /\ UNCHANGED <<color, thread, seq, seen, game, acts, crossed>>

LEMMA HeldQuiet == Held /\ Quiet => Held'
<1> SUFFICES ASSUME Held, Quiet PROVE Held'
  OBVIOUS
<1>1. ChessTypeOK'
  BY DEF Held, Quiet, ChessTypeOK
<1>2. Rooted'
  BY DEF Held, Quiet, Rooted
<1>3. Placed'
  BY DEF Held, Quiet, Placed, Written
<1>4. QED
  BY <1>1, <1>2, <1>3 DEF Held

LEMMA HeldDeliver ==
  ASSUME Held, NEW p \in Colleagues, NEW q \in Colleagues, Deliver(p, q)
  PROVE  Held'
<1>1. /\ seen' = [seen EXCEPT ![p][q] = thread[q]]
      /\ game' = [game EXCEPT ![p] = Game(seen'[p])]
      /\ pending' = [pending EXCEPT ![p] = IF @ <= game'[p].moves THEN 0 ELSE @]
      /\ UNCHANGED <<color, thread, seq, calls, acts, premove, crossed>>
  BY DEF Deliver
<1>2. /\ thread \in [Colleagues -> Ledgers \cup {NoLedger}]
      /\ seen \in [Colleagues -> [Colleagues -> Ledgers \cup {NoLedger}]]
      /\ game \in [Colleagues -> Games] /\ seq \in [Colleagues -> Nat]
      /\ pending \in [Colleagues -> 0..LastPly]
  <2>1. seq \in [Colleagues -> Nat]
    BY DEF Held, ChessTypeOK
  <2>2. QED
    BY <2>1 DEF Held, ChessTypeOK, Games
<1>3. thread[q] # NoLedger
  BY <1>2 DEF Held, Rooted, Deliver
<1>4. seen'[p] \in Views
  <2>1. seen'[p] = [seen[p] EXCEPT ![q] = thread[q]]
    BY <1>1, <1>2
  <2>2. seen[p] \in [Colleagues -> Ledgers \cup {NoLedger}] /\ seen[p][Challenger] # NoLedger
    BY <1>2 DEF Held, Rooted
  <2>3. QED
    BY <1>2, <1>3, <2>1, <2>2, ChessAssumption DEF Views
<1>5. FoldIs(Game(seen'[p]), seen'[p])
  BY <1>2, <1>4, Folding
<1>6. game'[p] = Game(seen'[p]) /\ game'[p] \in Games
  BY <1>1, <1>2, <1>5 DEF FoldIs
<1>7. game' \in [Colleagues -> Games]
  BY <1>1, <1>2, <1>6
<1>8. seen' \in [Colleagues -> [Colleagues -> Ledgers \cup {NoLedger}]]
  BY <1>1, <1>2
<1>9. pending' \in [Colleagues -> 0..LastPly]
  BY <1>1, <1>2, ChessAssumption
<1>10. ChessTypeOK'
  BY <1>1, <1>7, <1>8, <1>9 DEF Held, ChessTypeOK, Games
<1>11. Rooted'
  <2>1. ASSUME NEW x \in Colleagues, NEW y \in Colleagues, seen'[x][y] # NoLedger
        PROVE  thread'[y] # NoLedger /\ seen'[x][y].joined = thread'[y].joined
    <3>1. CASE x = p /\ y = q
      BY <1>1, <1>2, <1>3, <3>1
    <3>2. CASE ~(x = p /\ y = q)
      <4>1. seen'[x][y] = seen[x][y]
        BY <1>1, <1>2, <3>2
      <4>2. QED
        BY <1>1, <2>1, <4>1 DEF Held, Rooted
    <3>3. QED
      BY <3>1, <3>2
  <2>2. ASSUME NEW x \in Colleagues PROVE seen'[x][Challenger] # NoLedger
    BY <1>1, <1>2, <1>3, ChessAssumption DEF Held, Rooted
  <2>3. ASSUME NEW x \in Colleagues, game'[x].opponent # Nobody
        PROVE  seen'[x][game'[x].opponent] # NoLedger
    <3>1. CASE x = p
      BY <1>5, <1>6, <2>3, <3>1 DEF FoldIs
    <3>2. CASE x # p
      <4>1. game'[x] = game[x] /\ seen'[x] = seen[x]
        BY <1>1, <1>2, <3>2
      <4>2. QED
        BY <2>3, <4>1 DEF Held, Rooted
    <3>3. QED
      BY <3>1, <3>2
  <2>4. \A c \in calls' : c.edit => thread'[c.by] # NoLedger /\ c.ledger.joined = thread'[c.by].joined
    BY <1>1 DEF Held, Rooted
  <2>5. QED
    BY <2>1, <2>2, <2>3, <2>4 DEF Rooted
<1>12. Placed'
  BY <1>1 DEF Held, Placed, Written
<1>13. QED
  BY <1>10, <1>11, <1>12 DEF Held

\* The messages counted, before and after one more.
LEMMA WrittenIs ==
  ASSUME Held
  PROVE  /\ Cardinality(Written(thread)) \in Nat
         /\ \A p \in Colleagues : p \notin Written(thread) =>
              /\ Cardinality(Written(thread) \cup {p}) = Cardinality(Written(thread)) + 1
              /\ Cardinality(Written(thread)) + 1 \in 0..Cardinality(Colleagues)
<1> DEFINE W == Written(thread)
<1>1. W \in SUBSET Colleagues
  BY DEF Written
<1> HIDE DEF W
<1>2. IsFiniteSet(W) /\ Cardinality(W) \in Nat
  BY <1>1, FS_Subset, FS_CardinalityType, ChessAssumption
<1>3. ASSUME NEW p \in Colleagues, p \notin W
      PROVE  Cardinality(W \cup {p}) = Cardinality(W) + 1
             /\ Cardinality(W) + 1 \in 0..Cardinality(Colleagues)
  <2>1. Cardinality(W \cup {p}) = Cardinality(W) + 1
    BY <1>2, <1>3, FS_AddElement
  <2>2. W \cup {p} \in SUBSET Colleagues
    BY <1>1
  <2>3. Cardinality(W \cup {p}) <= Cardinality(Colleagues)
    BY <2>2, FS_Subset, ChessAssumption
  <2>4. Cardinality(Colleagues) \in Nat
    BY FS_CardinalityType, ChessAssumption
  <2>5. QED
    BY <1>2, <2>1, <2>3, <2>4
<1>4. QED
  BY <1>2, <1>3 DEF W

\* The three ways a publish lands: over a message, as a message, as one too many.
LEMMA Landing ==
  ASSUME Held, NEW c \in calls, Land(c)
  PROVE  /\ c.by \in Colleagues /\ c.ledger \in Ledgers /\ c.ledger # NoLedger
         /\ calls' = calls \ {c}
         /\ UNCHANGED <<color, seen, game, acts, pending, premove, crossed>>
         /\ \/ /\ c.edit /\ thread[c.by] # NoLedger
               /\ thread' = [thread EXCEPT ![c.by] = c.ledger] /\ seq' = seq
            \/ /\ ~c.edit /\ thread[c.by] = NoLedger
               /\ thread' = [thread EXCEPT ![c.by] = c.ledger]
               /\ seq' = [seq EXCEPT ![c.by] = Cardinality(Written(thread)) + 1]
            \/ thread' = thread /\ seq' = seq
<1>1. c.by \in Colleagues /\ c.ledger \in Ledgers /\ c.edit \in BOOLEAN
  BY DEF Held, ChessTypeOK
<1>2. c.edit => thread[c.by] # NoLedger
  BY DEF Held, Rooted
<1>3. QED
  BY <1>1, <1>2, LedgerIsWritten DEF Land

LEMMA HeldLand ==
  ASSUME Held, NEW c \in calls, Land(c)
  PROVE  Held'
<1>1. /\ c.by \in Colleagues /\ c.ledger \in Ledgers /\ c.ledger # NoLedger
      /\ calls' = calls \ {c}
      /\ UNCHANGED <<color, seen, game, acts, pending, premove, crossed>>
      /\ \/ /\ c.edit /\ thread[c.by] # NoLedger
            /\ thread' = [thread EXCEPT ![c.by] = c.ledger] /\ seq' = seq
         \/ /\ ~c.edit /\ thread[c.by] = NoLedger
            /\ thread' = [thread EXCEPT ![c.by] = c.ledger]
            /\ seq' = [seq EXCEPT ![c.by] = Cardinality(Written(thread)) + 1]
         \/ thread' = thread /\ seq' = seq
  BY Landing
<1>2. /\ thread \in [Colleagues -> Ledgers \cup {NoLedger}]
      /\ seq \in [Colleagues -> 0..Cardinality(Colleagues)]
      /\ \A p \in Colleagues : seq[p] \in Nat
  BY DEF Held, ChessTypeOK
<1>3. Cardinality(Written(thread)) \in Nat
  BY WrittenIs
<1>4. CASE thread' = thread /\ seq' = seq
  <2>1. Quiet
    BY <1>1, <1>4 DEF Quiet, Held, ChessTypeOK
  <2>2. QED
    BY <2>1, HeldQuiet
<1>5. ASSUME thread' = [thread EXCEPT ![c.by] = c.ledger],
             seq' \in [Colleagues -> 0..Cardinality(Colleagues)]
      PROVE  ChessTypeOK'
  <2>1. thread' \in [Colleagues -> Ledgers \cup {NoLedger}]
    BY <1>1, <1>2, <1>5
  <2>2. calls' \subseteq [by : Colleagues, ledger : Ledgers, edit : BOOLEAN]
    BY <1>1 DEF Held, ChessTypeOK
  <2>3. QED
    BY <1>1, <1>5, <2>1, <2>2 DEF Held, ChessTypeOK
<1>6. ASSUME thread' = [thread EXCEPT ![c.by] = c.ledger],
             thread[c.by] # NoLedger => c.ledger.joined = thread[c.by].joined
      PROVE  Rooted'
  <2>1. \A q \in Colleagues : thread[q] # NoLedger =>
          thread'[q] # NoLedger /\ thread'[q].joined = thread[q].joined
    BY <1>1, <1>2, <1>6
  <2>2. \A d \in calls' : d \in calls /\ d.by \in Colleagues
    BY <1>1 DEF Held, ChessTypeOK
  <2>3. QED
    BY <1>1, <2>1, <2>2 DEF Held, Rooted
<1>7. CASE /\ c.edit /\ thread[c.by] # NoLedger
           /\ thread' = [thread EXCEPT ![c.by] = c.ledger] /\ seq' = seq
  <2>1. ChessTypeOK'
    BY <1>2, <1>5, <1>7
  <2>2. Rooted'
    BY <1>6, <1>7 DEF Held, Rooted
  <2>3. Written(thread)' = Written(thread)
    BY <1>1, <1>2, <1>7 DEF Written
  <2>4. Placed'
    BY <1>7, <2>3 DEF Held, Placed
  <2>5. QED
    BY <2>1, <2>2, <2>4 DEF Held
<1>8. CASE /\ ~c.edit /\ thread[c.by] = NoLedger
           /\ thread' = [thread EXCEPT ![c.by] = c.ledger]
           /\ seq' = [seq EXCEPT ![c.by] = Cardinality(Written(thread)) + 1]
  <2>1. c.by \notin Written(thread)
    BY <1>8 DEF Written
  <2>2. /\ Cardinality(Written(thread) \cup {c.by}) = Cardinality(Written(thread)) + 1
        /\ Cardinality(Written(thread)) + 1 \in 0..Cardinality(Colleagues)
    BY <1>1, <2>1, WrittenIs
  <2>3. seq' \in [Colleagues -> 0..Cardinality(Colleagues)]
    BY <1>1, <1>2, <1>8, <2>2
  <2>4. ChessTypeOK' /\ Rooted'
    BY <1>5, <1>6, <1>8, <2>3
  <2>5. Written(thread)' = Written(thread) \cup {c.by}
    BY <1>1, <1>2, <1>8 DEF Written
  <2>6. Cardinality(Written(thread))' = Cardinality(Written(thread)) + 1
    BY <2>2, <2>5
  <2>7. \A p \in Written(thread) : p \in Colleagues /\ seq'[p] = seq[p] /\ seq[p] \in Nat
                                   /\ seq[p] <= Cardinality(Written(thread))
    BY <1>2, <1>8, <2>1 DEF Held, Placed, Written
  <2>8. seq'[c.by] = Cardinality(Written(thread)) + 1
    BY <1>1, <1>2, <1>8
  <2>9. Placed'
    <3>1. ASSUME NEW p \in Written(thread)'
          PROVE  seq'[p] <= Cardinality(Written(thread))'
      BY <1>3, <2>5, <2>6, <2>7, <2>8
    <3>2. ASSUME NEW p \in Written(thread)', NEW q \in Written(thread)', seq'[p] = seq'[q]
          PROVE  p = q
      <4>1. CASE p \in Written(thread) /\ q \in Written(thread)
        BY <2>7, <3>2, <4>1 DEF Held, Placed
      <4>2. CASE p = c.by \/ q = c.by
        BY <1>3, <2>5, <2>7, <2>8, <3>2, <4>2
      <4>3. QED
        BY <2>5, <4>1, <4>2
    <3>3. QED
      BY <3>1, <3>2 DEF Placed
  <2>10. QED
    BY <2>4, <2>9 DEF Held
<1>9. QED
  BY <1>1, <1>4, <1>7, <1>8

LEMMA HeldStep == Held /\ [ChessNext]_cvars => Held'
<1> SUFFICES ASSUME Held, [ChessNext]_cvars PROVE Held'
  OBVIOUS
<1>0. /\ pending \in [Colleagues -> 0..LastPly] /\ premove \in [Colleagues -> BOOLEAN]
      /\ 0 \in 0..LastPly
  BY ChessAssumption DEF Held, ChessTypeOK
<1>1. ASSUME NEW p \in Colleagues, OnPage(p) PROVE Held'
  BY <1>0, <1>1, HeldQuiet DEF OnPage, Quiet
<1>2. ASSUME NEW p \in Colleagues,
             Answer(p) \/ Move(p) \/ FirePremove(p) \/ OfferDraw(p) \/ AcceptDraw(p) \/ Resign(p)
      PROVE  Held'
  BY <1>1, <1>2, Acts, HeldPress DEF Held
<1>3. ASSUME NEW p \in Colleagues, SetPremove(p) \/ Reload(p) PROVE Held'
  <2>1. OnPage(p)
    BY <1>0, <1>3 DEF SetPremove, Reload, OnPage
  <2>2. QED
    BY <1>1, <2>1
<1>4. ASSUME NEW p \in Colleagues, NEW q \in Colleagues, Deliver(p, q) PROVE Held'
  BY <1>4, HeldDeliver
<1>5. ASSUME NEW c \in calls, Land(c) PROVE Held'
  BY <1>5, HeldLand
<1>6. ASSUME NEW c \in calls, Fail(c) \/ Unanswered(c) PROVE Held'
  BY <1>0, <1>6, HeldQuiet DEF Fail, Unanswered, Quiet
<1>7. CASE UNCHANGED cvars
  BY <1>0, <1>7, HeldQuiet DEF cvars, Quiet
<1>8. QED
  BY <1>2, <1>3, <1>4, <1>5, <1>6, <1>7 DEF ChessNext

LEMMA ChessIsHeld == ChessSpec => []Held
<1>1. ChessInit => Held
  BY HeldInit
<1>2. Held /\ [ChessNext]_cvars => Held'
  BY HeldStep
<1>3. QED
  BY <1>1, <1>2, PTL DEF ChessSpec

\* The types, with everything a page derives: a game's opponent is a colleague or
\* nobody, and its moves never run past the ply that ends it.
THEOREM ChessTypes == ChessSpec => []ChessTypeOK
<1>1. Held => ChessTypeOK
  BY DEF Held
<1>2. QED
  BY <1>1, ChessIsHeld, PTL

-----------------------------------------------------------------------------
(* The seat.                                                               *)

LEMMA TruthIs == Held => FoldIs(Truth, thread)
<1> SUFFICES ASSUME Held PROVE FoldIs(Truth, thread)
  OBVIOUS
<1>1. thread \in Views
  BY ChessAssumption DEF Held, ChessTypeOK, Rooted, Views
<1>2. seq \in [Colleagues -> Nat]
  BY DEF Held, ChessTypeOK
<1>3. QED
  BY <1>1, <1>2, Folding DEF Truth

LEMMA TruthIsNext == Held' => FoldIs(Truth, thread)'
  BY TruthIs, PTL

\* Only a publish that lands changes the thread.
LEMMA OnlyLand ==
  ASSUME Held, [ChessNext]_cvars, thread' # thread
  PROVE  \E c \in calls : Land(c)
<1>1. ASSUME NEW p \in Colleagues,
             Answer(p) \/ Move(p) \/ FirePremove(p) \/ OfferDraw(p) \/ AcceptDraw(p) \/ Resign(p)
      PROVE  thread' = thread
  BY <1>1, Acts DEF Held, Press, Publish, OnPage
<1>2. QED
  BY <1>1 DEF ChessNext, cvars, SetPremove, Reload, Deliver, Fail, Unanswered

\* What lands leaves every message its place and its answer, and a new one comes last.
LEMMA Landed ==
  ASSUME Held, NEW c \in calls, Land(c), thread' # thread, NEW p \in Colleagues,
         thread[p] # NoLedger
  PROVE  /\ thread'[p] # NoLedger /\ thread'[p].joined = thread[p].joined /\ seq'[p] = seq[p]
         /\ \A q \in Colleagues : thread[q] = NoLedger /\ thread'[q] # NoLedger => seq'[q] > seq[p]
<1>1. /\ c.by \in Colleagues /\ c.ledger # NoLedger
      /\ thread' = [thread EXCEPT ![c.by] = c.ledger]
      /\ \/ c.edit /\ thread[c.by] # NoLedger /\ seq' = seq
         \/ /\ ~c.edit /\ thread[c.by] = NoLedger
            /\ seq' = [seq EXCEPT ![c.by] = Cardinality(Written(thread)) + 1]
  BY Landing
<1>2. /\ thread \in [Colleagues -> Ledgers \cup {NoLedger}]
      /\ seq \in [Colleagues -> 0..Cardinality(Colleagues)]
      /\ seq[p] \in Nat
  BY DEF Held, ChessTypeOK
<1>3. seq[p] <= Cardinality(Written(thread)) /\ Cardinality(Written(thread)) \in Nat
  BY WrittenIs DEF Held, Placed, Written
<1>4. c.edit => c.ledger.joined = thread[c.by].joined
  BY DEF Held, Rooted
<1>5. QED
  BY <1>1, <1>2, <1>3, <1>4

LEMMA SeatKept ==
  ASSUME Held, [ChessNext]_cvars, thread' # thread, Truth.opponent # Nobody
  PROVE  Truth'.opponent = Truth.opponent
<1>0. Held'
  BY HeldStep
<1>1. PICK c \in calls : Land(c)
  BY OnlyLand
<1>2. FoldIs(Truth, thread)
  BY TruthIs
<1>3. FoldIs(Truth, thread)'
  BY <1>0, TruthIsNext
<1> DEFINE opp  == Truth.opponent
           oppN == Truth'.opponent
<1>4. /\ opp \in Colleagues /\ thread[opp] # NoLedger /\ thread[opp].joined
      /\ \A q \in Colleagues : thread[q] # NoLedger /\ thread[q].joined => seq[opp] <= seq[q]
  BY <1>2 DEF FoldIs, Games
<1>5. thread'[opp] # NoLedger /\ thread'[opp].joined /\ seq'[opp] = seq[opp]
      /\ \A q \in Colleagues : thread[q] = NoLedger /\ thread'[q] # NoLedger => seq'[q] > seq[opp]
  BY <1>1, <1>4, Landed
<1>6. /\ oppN \in Colleagues /\ thread'[oppN] # NoLedger /\ thread'[oppN].joined
      /\ seq'[oppN] <= seq'[opp]
  <2>1. oppN # Nobody
    BY <1>3, <1>4, <1>5 DEF FoldIs
  <2>2. QED
    BY <1>3, <1>4, <1>5, <2>1 DEF FoldIs, Games
<1>7. seq'[oppN] \in Nat /\ seq[opp] \in Nat
  BY <1>0, <1>4, <1>6 DEF Held, ChessTypeOK
<1>8. thread[oppN] # NoLedger
  BY <1>5, <1>6, <1>7
<1>9. thread'[oppN].joined = thread[oppN].joined /\ seq'[oppN] = seq[oppN]
  BY <1>1, <1>6, <1>8, Landed
<1>10. seq[oppN] = seq[opp]
  BY <1>4, <1>5, <1>6, <1>7, <1>8, <1>9
<1>11. QED
  BY <1>4, <1>6, <1>8, <1>10 DEF Held, Placed, Written

\* Whoever joined first plays: however many colleagues answer at once, whatever is
\* rewritten or pressed on a stale board, the seat never changes hands.
THEOREM OpponentStandsHolds == ChessSpec => OpponentStands
<1>1. Held /\ [ChessNext]_cvars =>
        [thread' # thread =>
           LET g == Truth IN g.opponent # Nobody => Truth'.opponent = g.opponent]_cvars
  BY SeatKept
<1>2. QED
  BY <1>1, ChessIsHeld, PTL DEF ChessSpec, OpponentStands

-----------------------------------------------------------------------------
(* What was played, of the readers who are not in `crossed`.               *)

\* One publish of such a reader at a time, keeping what their message already says; a
\* ply their board draws ahead is in their message or in the publish under way.
Waited ==
  /\ \A c, d \in calls : c.by = d.by /\ c.by \notin crossed => c = d
  /\ \A c \in calls : c.edit /\ c.by \notin crossed =>
                         /\ thread[c.by].resigned => c.ledger.resigned
                         /\ thread[c.by].plies \subseteq c.ledger.plies
  /\ \A p \in Colleagues : p \notin crossed /\ pending[p] # 0 =>
       \/ thread[p] # NoLedger /\ pending[p] \in thread[p].plies
       \/ \E c \in calls : c.by = p /\ c.edit /\ pending[p] \in c.ledger.plies

LEMMA WaitedPress ==
  ASSUME Held, Waited, NEW p \in Colleagues, Press(p)
  PROVE  Waited'
<1>1. PICK ledger \in Ledgers, edit \in BOOLEAN :
       /\ Publish(p, ledger, edit)
       /\ edit => /\ Base(p) # NoLedger
                  /\ Base(p).resigned => ledger.resigned
                  /\ Base(p).plies \subseteq ledger.plies
       /\ \/ pending' = pending
          \/ edit /\ \E ply \in ledger.plies : pending' = [pending EXCEPT ![p] = ply]
  BY DEF Press
<1> DEFINE new == [by |-> p, ledger |-> ledger, edit |-> edit]
<1>2. /\ calls' = calls \cup {new} /\ thread' = thread
      /\ crossed' = IF Clear(p) THEN crossed \ {p} ELSE crossed \cup {p}
  BY <1>1 DEF Publish
<1>3. p \notin crossed' =>
        /\ thread[p] = Base(p) /\ \A c \in calls : c.by # p
        /\ pending[p] # 0 => thread[p] # NoLedger /\ pending[p] \in thread[p].plies
  BY <1>2 DEF Clear
<1>4. \A q \in Colleagues \ {p} : q \in crossed' <=> q \in crossed
  BY <1>2
<1>5. new.by = p /\ new.ledger = ledger /\ new.edit = edit
  OBVIOUS
<1>6. \A c \in calls : c.by \in Colleagues
  BY DEF Held, ChessTypeOK
<1> HIDE DEF new
<1>7. ASSUME NEW c \in calls', NEW d \in calls', c.by = d.by, c.by \notin crossed'
      PROVE  c = d
  <2>1. CASE c.by = p
    BY <1>2, <1>3, <1>7, <2>1
  <2>2. CASE c.by # p
    <3>1. c \in calls /\ d \in calls /\ c.by \notin crossed
      BY <1>2, <1>4, <1>5, <1>6, <1>7, <2>2
    <3>2. QED
      BY <1>7, <3>1 DEF Waited
  <2>3. QED
    BY <2>1, <2>2
<1>8. ASSUME NEW c \in calls', c.edit, c.by \notin crossed'
      PROVE  /\ thread'[c.by].resigned => c.ledger.resigned
             /\ thread'[c.by].plies \subseteq c.ledger.plies
  <2>1. CASE c = new
    BY <1>1, <1>2, <1>3, <1>5, <1>8, <2>1
  <2>2. CASE c # new
    <3>1. c \in calls
      BY <1>2, <2>2
    <3>2. c.by # p
      BY <1>3, <1>8, <3>1
    <3>3. c.by \notin crossed
      BY <1>4, <1>6, <1>8, <3>1, <3>2
    <3>4. QED
      BY <1>2, <1>8, <3>1, <3>3 DEF Waited
  <2>3. QED
    BY <2>1, <2>2
<1>9. ASSUME NEW q \in Colleagues, q \notin crossed', pending'[q] # 0
      PROVE  \/ thread'[q] # NoLedger /\ pending'[q] \in thread'[q].plies
             \/ \E c \in calls' : c.by = q /\ c.edit /\ pending'[q] \in c.ledger.plies
  <2>0. pending \in [Colleagues -> 0..LastPly]
    BY DEF Held, ChessTypeOK
  <2>1. CASE q = p /\ pending'[q] = pending[q]
    BY <1>2, <1>3, <1>9, <2>1
  <2>2. CASE pending'[q] # pending[q]
    <3>1. q = p /\ edit /\ pending'[q] \in ledger.plies
      BY <1>1, <2>0, <2>2
    <3>2. QED
      BY <1>2, <1>5, <3>1
  <2>3. CASE q # p /\ pending'[q] = pending[q]
    <3>1. q \notin crossed
      BY <1>4, <1>9, <2>3
    <3>2. QED
      BY <1>2, <1>9, <2>3, <3>1 DEF Waited
  <2>4. QED
    BY <2>1, <2>2, <2>3
<1>10. QED
  BY <1>7, <1>8, <1>9 DEF Waited

\* A step that publishes nothing and lands nothing forgets no call whose ply is drawn.
LEMMA WaitedQuiet ==
  ASSUME Held, Waited, thread' = thread, calls' \subseteq calls, crossed' = crossed,
         \A p \in Colleagues : pending'[p] \in {0, pending[p]},
         \A c \in calls : c \notin calls' => pending'[c.by] = 0
  PROVE  Waited'
<1>1. ASSUME NEW p \in Colleagues, p \notin crossed, pending'[p] # 0
      PROVE  \/ thread'[p] # NoLedger /\ pending'[p] \in thread'[p].plies
             \/ \E c \in calls' : c.by = p /\ c.edit /\ pending'[p] \in c.ledger.plies
  <2>1. pending'[p] = pending[p]
    BY <1>1
  <2>2. CASE \E c \in calls : c.by = p /\ c.edit /\ pending[p] \in c.ledger.plies
    BY <1>1, <2>1, <2>2
  <2>3. CASE thread[p] # NoLedger /\ pending[p] \in thread[p].plies
    BY <2>1, <2>3
  <2>4. QED
    BY <1>1, <2>1, <2>2, <2>3 DEF Waited
<1>2. QED
  BY <1>1 DEF Waited

LEMMA WaitedLand ==
  ASSUME Held, Waited, NEW c \in calls, Land(c)
  PROVE  Waited'
<1>1. /\ c.by \in Colleagues /\ c.ledger # NoLedger
      /\ calls' = calls \ {c} /\ pending' = pending /\ crossed' = crossed
      /\ \/ /\ c.edit /\ thread[c.by] # NoLedger
            /\ thread' = [thread EXCEPT ![c.by] = c.ledger]
         \/ /\ ~c.edit /\ thread[c.by] = NoLedger
            /\ thread' = [thread EXCEPT ![c.by] = c.ledger]
         \/ thread' = thread
  BY Landing
<1>2. thread \in [Colleagues -> Ledgers \cup {NoLedger}]
  BY DEF Held, ChessTypeOK
<1>3. \A d \in calls' : d.by \notin crossed =>
        d \in calls /\ d.by # c.by /\ d.by \in Colleagues /\ thread'[d.by] = thread[d.by]
  BY <1>1, <1>2 DEF Waited, Held, ChessTypeOK
<1>4. ASSUME NEW p \in Colleagues, p \notin crossed, pending'[p] # 0
      PROVE  \/ thread'[p] # NoLedger /\ pending'[p] \in thread'[p].plies
             \/ \E d \in calls' : d.by = p /\ d.edit /\ pending'[p] \in d.ledger.plies
  <2>1. pending[p] # 0 /\ pending'[p] = pending[p]
    BY <1>1, <1>4
  <2>2. CASE thread[p] # NoLedger /\ pending[p] \in thread[p].plies
    <3>1. CASE p = c.by /\ thread' # thread
      <4>1. c.edit /\ thread'[p] = c.ledger
        BY <1>1, <1>2, <2>2, <3>1
      <4>2. QED
        BY <1>1, <1>4, <2>1, <2>2, <3>1, <4>1 DEF Waited
    <3>2. CASE p # c.by \/ thread' = thread
      BY <1>1, <1>2, <2>1, <2>2, <3>2
    <3>3. QED
      BY <3>1, <3>2
  <2>3. CASE \E d \in calls : d.by = p /\ d.edit /\ pending[p] \in d.ledger.plies
    <3>1. PICK d \in calls : d.by = p /\ d.edit /\ pending[p] \in d.ledger.plies
      BY <2>3
    <3>2. CASE d = c
      <4>1. thread[p] # NoLedger
        BY <3>1, <3>2 DEF Held, Rooted
      <4>2. CASE thread' = thread
        <5>1. pending[p] \in thread[p].plies \/ thread'[p] = c.ledger
          BY <1>2, <4>2, <3>1, <3>2, <4>1 DEF Land
        <5>2. QED
          BY <1>1, <2>1, <3>1, <3>2, <4>1, <4>2, <5>1
      <4>3. CASE thread' # thread
        BY <1>1, <1>2, <2>1, <3>1, <3>2, <4>3
      <4>4. QED
        BY <4>2, <4>3
    <3>3. CASE d # c
      BY <1>1, <2>1, <3>1, <3>3
    <3>4. QED
      BY <3>2, <3>3
  <2>4. QED
    BY <1>4, <2>1, <2>2, <2>3 DEF Waited
<1>5. QED
  BY <1>1, <1>3, <1>4 DEF Waited

LEMMA WaitedStep ==
  ASSUME Held, Waited, [ChessNext]_cvars
  PROVE  Waited'
<1>0. pending \in [Colleagues -> 0..LastPly] /\ \A c \in calls : c.by \in Colleagues
  BY DEF Held, ChessTypeOK
<1>1. ASSUME NEW p \in Colleagues, OnPage(p) PROVE Waited'
  BY <1>0, <1>1, WaitedQuiet DEF OnPage
<1>2. ASSUME NEW p \in Colleagues,
             Answer(p) \/ Move(p) \/ FirePremove(p) \/ OfferDraw(p) \/ AcceptDraw(p) \/ Resign(p)
      PROVE  Waited'
  BY <1>1, <1>2, Acts, WaitedPress DEF Held
<1>3. ASSUME NEW p \in Colleagues, SetPremove(p) \/ Reload(p) PROVE Waited'
  BY <1>0, <1>3, WaitedQuiet DEF SetPremove, Reload
<1>4. ASSUME NEW p \in Colleagues, NEW q \in Colleagues, Deliver(p, q) PROVE Waited'
  <2>1. /\ thread' = thread /\ calls' = calls /\ crossed' = crossed
        /\ pending' = [pending EXCEPT ![p] = IF @ <= game'[p].moves THEN 0 ELSE @]
    BY <1>4 DEF Deliver
  <2>2. QED
    BY <1>0, <2>1, WaitedQuiet
<1>5. ASSUME NEW c \in calls, Land(c) PROVE Waited'
  BY <1>5, WaitedLand
<1>6. ASSUME NEW c \in calls, Fail(c) \/ Unanswered(c) PROVE Waited'
  BY <1>0, <1>6, WaitedQuiet DEF Fail, Unanswered
<1>7. CASE UNCHANGED cvars
  BY <1>7, WaitedQuiet DEF cvars
<1>8. QED
  BY <1>2, <1>3, <1>4, <1>5, <1>6, <1>7 DEF ChessNext

LEMMA ChessIsWaited == ChessSpec => []Waited
<1>1. ChessInit => Waited
  BY DEF ChessInit, Waited
<1>2. Held /\ Waited /\ [ChessNext]_cvars => Waited'
  BY WaitedStep
<1>3. QED
  BY <1>1, <1>2, ChessIsHeld, PTL DEF ChessSpec

\* What lands keeps the resignation and the plies of every message, but that of a
\* reader in `crossed`.
LEMMA LandedKeeps ==
  ASSUME Held, Waited, NEW c \in calls, Land(c), NEW p \in Colleagues, thread[p] # NoLedger,
         ~Crossing(p)
  PROVE  /\ thread[p].resigned => thread'[p].resigned
         /\ thread[p].plies \subseteq thread'[p].plies
<1>1. \/ /\ c.edit /\ thread' = [thread EXCEPT ![c.by] = c.ledger]
      \/ /\ ~c.edit /\ thread[c.by] = NoLedger
         /\ thread' = [thread EXCEPT ![c.by] = c.ledger]
      \/ thread' = thread
  BY Landing
<1>2. thread \in [Colleagues -> Ledgers \cup {NoLedger}]
  BY DEF Held, ChessTypeOK
<1>3. CASE thread'[p] = thread[p]
  BY <1>3
<1>4. CASE thread'[p] # thread[p]
  <2>1. p \notin crossed
    BY <1>4 DEF Crossing
  <2>2. p = c.by /\ c.edit /\ thread'[p] = c.ledger
    BY <1>1, <1>2, <1>4
  <2>3. QED
    BY <2>1, <2>2 DEF Waited
<1>5. QED
  BY <1>3, <1>4

LEMMA ResignKept ==
  ASSUME Held, Waited, [ChessNext]_cvars, thread' # thread, NEW p \in Written(thread),
         Plays(p, Truth), thread[p].resigned, ~Crossing(p)
  PROVE  thread'[p].resigned /\ Settled(Truth')
<1>1. PICK c \in calls : Land(c)
  BY OnlyLand
<1>2. p \in Colleagues /\ thread[p] # NoLedger
  BY DEF Written
<1>3. thread'[p].resigned
  BY <1>1, <1>2, LandedKeeps
<1>4. Truth'.opponent = Truth.opponent /\ Truth.opponent # Nobody
      /\ p \in {Challenger, Truth.opponent}
  BY SeatKept DEF Plays
<1>5. FoldIs(Truth, thread)'
  BY HeldStep, TruthIsNext
<1>6. Truth'.outcome # "playing"
  BY <1>3, <1>4, <1>5 DEF FoldIs
<1>7. QED
  BY <1>3, <1>6 DEF Settled

LEMMA PlayedKept ==
  ASSUME Held, Waited, [ChessNext]_cvars, thread' # thread, ~Settled(Truth'),
         \A p \in Colleagues : Plays(p, Truth) => ~Crossing(p)
  PROVE  Truth'.moves >= Truth.moves
<1>1. PICK c \in calls : Land(c)
  BY OnlyLand
<1>2. FoldIs(Truth, thread)
  BY TruthIs
<1>3. FoldIs(Truth, thread)'
  BY HeldStep, TruthIsNext
<1>4. Truth.moves \in Nat /\ Truth'.moves \in Nat
  BY <1>2, <1>3, ChessAssumption DEF FoldIs, Games
<1>5. CASE Truth.opponent = Nobody
  <2>1. Truth.moves = 0
    BY <1>2, <1>5 DEF FoldIs
  <2>2. QED
    BY <1>4, <2>1
<1>6. CASE Truth.opponent # Nobody
  <2> DEFINE opp == Truth.opponent
  <2>1. Truth'.opponent = opp
    BY <1>6, SeatKept
  <2>2. /\ opp \in Colleagues /\ thread[opp] # NoLedger /\ thread[Challenger] # NoLedger
        /\ 1..Truth.moves \subseteq thread[Challenger].plies \cup thread[opp].plies
    BY <1>2, <1>6, ChessAssumption DEF FoldIs, Games, Held, Rooted
  <2>3. ~Crossing(opp) /\ ~Crossing(Challenger)
    BY <1>6, <2>2, ChessAssumption DEF Plays
  <2>4. /\ thread[opp].plies \subseteq thread'[opp].plies
        /\ thread[Challenger].plies \subseteq thread'[Challenger].plies
    BY <1>1, <2>2, <2>3, LandedKeeps, ChessAssumption
  <2>5. Truth'.moves + 1 \notin thread'[Challenger].plies \cup thread'[opp].plies
    BY <1>3, <1>6, <2>1 DEF FoldIs, Settled
  <2>6. Truth'.moves + 1 \notin 1..Truth.moves
    BY <2>2, <2>4, <2>5
  <2>7. QED
    BY <1>4, <2>6
<1>7. QED
  BY <1>5, <1>6

\* A player who resigned has resigned for good and the game stays ended, whatever is
\* pressed or delivered, unless an act of their own crossed the resignation.
THEOREM ResignStandsHolds == ChessSpec => ResignStands
<1>1. Held /\ Waited /\ [ChessNext]_cvars =>
        [thread' # thread =>
           \A p \in Written(thread) :
             Plays(p, Truth) /\ thread[p].resigned =>
               Crossing(p) \/ (thread'[p].resigned /\ Settled(Truth'))]_cvars
  BY ResignKept
<1>2. QED
  BY <1>1, ChessIsHeld, ChessIsWaited, PTL DEF ChessSpec, ResignStands

\* A game that still runs has every move it ever showed, unless a player's act that
\* crossed another of their own lands in that step.
THEOREM PlayedStandsHolds == ChessSpec => PlayedStands
<1>1. Held /\ Waited /\ [ChessNext]_cvars =>
        [thread' # thread =>
           LET g == Truth' IN \/ Settled(g) \/ g.moves >= Truth.moves
                              \/ \E p \in {q \in Colleagues : Plays(q, Truth)} : Crossing(p)]_cvars
  BY PlayedKept
<1>2. QED
  BY <1>1, ChessIsHeld, ChessIsWaited, PTL DEF ChessSpec, PlayedStands

\* Once everything is delivered, a move a board draws as its reader's own is in their
\* message or was crossed by an act of theirs: a publish that failed leaves none behind.
THEOREM NoGhostMoveHolds == ChessSpec => []NoGhostMove
<1>1. Waited => NoGhostMove
  BY DEF Waited, NoGhostMove
<1>2. QED
  BY <1>1, ChessIsWaited, PTL
=============================================================================
