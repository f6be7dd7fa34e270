------------------------- MODULE SocketClientProofs -------------------------
(***************************************************************************)
(* Proofs about SocketClient, for any set of presses, any number of        *)
(* processes and whatever states a wake-up may find.  What a press has in  *)
(* hand is kept by PressOK, what the link owes it by LinkOK, and what a    *)
(* token is worth to it by HealOK.  Then about PageStart: the store that   *)
(* uses the connection takes only the connection's steps.                  *)
(***************************************************************************)
EXTENDS PageStart, TLAPS

\* What is in hand for one press: at most one request or answer on the way, an
\* answer that tells the truth, and pending exactly while it is waited for.
PressOK(p) ==
  /\ \A r \in wire : r.id[1] = p =>
       /\ performed[p] = 0 /\ phase[p] \notin {"idle", "fetching", "done"}
       /\ \A s \in wire : s.id[1] = p => s = r
       /\ \A a \in answers : a.id[1] # p
  /\ \A a \in answers : a.id[1] = p =>
       /\ (a.ok <=> performed[p] = 1) /\ phase[p] \notin {"idle", "fetching", "done"}
       /\ \A b \in answers : b.id[1] = p => b = a
  /\ <<p, 1>> \in pending <=> phase[p] = "first"
  /\ <<p, 2>> \in pending <=> phase[p] = "second"
  /\ phase[p] \in {"idle", "fetching"} => performed[p] = 0
  /\ phase[p] = "done" => performed[p] = 1

\* Requests are pending only on a socket that can answer or reject them, and a
\* retry that is announced is armed.
LinkOK ==
  /\ pending # {} => sock \in {"open", "dying"}
  /\ reconnecting => timer
  /\ NeverSilent

\* A press made while the file named the running process: its first token was stale
\* if it was refused at all, and its second one is the running process's.
HealOK(p) ==
  p \in steady =>
    /\ backend # 0 /\ file = backend /\ phase[p] \notin {"idle", "refused"}
    /\ phase[p] = "fetching" => presented[p] # backend
    /\ \A r \in wire : /\ r.id = <<p, 1>> => r.tok = presented[p]
                       /\ r.id = <<p, 2>> => r.tok = backend
    /\ \A a \in answers : /\ a.id = <<p, 1>> /\ ~a.ok => presented[p] # backend
                          /\ a.id = <<p, 2>> => a.ok

SocketInv == SocketTypeOK /\ LinkOK /\ \A p \in Presses : PressOK(p) /\ HealOK(p)

-----------------------------------------------------------------------------
(* Actions that leave every press where it is.                             *)

\* PressOK speaks only of the calls, HealOK of them, the file and the process too.
LEMMA CallsKept ==
  ASSUME NEW p \in Presses, PressOK(p), HealOK(p), UNCHANGED calls,
         steady' = {} \/ (steady' = steady /\ backend' = backend /\ file' = file)
  PROVE  PressOK(p)' /\ HealOK(p)'
  BY DEF PressOK, HealOK, calls

\* Whatever replaces or ends a socket fails the presses that wait on it, and no other.
LEMMA Rejecting ==
  ASSUME SocketTypeOK, \A p \in Presses : PressOK(p) /\ HealOK(p), RejectPending,
         UNCHANGED <<procv, steady>>
  PROVE  /\ phase' \in [Presses -> Phases] /\ pending' = {} /\ answers' = {}
         /\ \A p \in Presses : PressOK(p)' /\ HealOK(p)'
<1>1. phase' \in [Presses -> Phases]
  BY DEF SocketTypeOK, RejectPending, Phases
<1>2. pending' = {} /\ answers' = {}
  BY DEF RejectPending
<1>3. ASSUME NEW p \in Presses
      PROVE  PressOK(p)' /\ HealOK(p)'
  <2>1. phase'[p] = IF phase[p] \in {"first", "second"} THEN "failed" ELSE phase[p]
    BY DEF RejectPending, PressOK, SocketTypeOK
  <2> QED  BY <1>2, <2>1 DEF RejectPending, PressOK, HealOK, procv
<1> QED BY <1>1, <1>2, <1>3

-----------------------------------------------------------------------------
(* The requests, one lemma per action.                                     *)

LEMMA PressStep ==
  ASSUME SocketInv, NEW q \in Presses, Press(q)
  PROVE  SocketInv'
<1> USE DEF SocketInv
<1>1. phase[q] = "idle" /\ q \notin steady /\ performed[q] = 0
  BY DEF Press, PressOK, HealOK
<1>2. \A r \in wire : r.id[1] # q
  BY <1>1 DEF PressOK
<1>3. \A a \in answers : a.id[1] # q
  BY <1>1 DEF PressOK
<1>4. SocketTypeOK'
  <2>1. <<q, 1>> \in Requests /\ [id |-> <<q, 1>>, tok |-> writeToken] \in [id : Requests, tok : Tokens]
    BY DEF SocketTypeOK, Requests
  <2>2. pending' \subseteq Requests /\ wire' \subseteq [id : Requests, tok : Tokens]
    BY <2>1 DEF SocketTypeOK, Press, Send
  <2>3. phase' \in [Presses -> Phases]
    BY DEF SocketTypeOK, Press, Send, Phases, Busy
  <2>4. presented' \in [Presses -> Tokens] /\ steady' \subseteq Presses
    BY DEF SocketTypeOK, Press
  <2> QED BY <2>2, <2>3, <2>4 DEF SocketTypeOK, Press, link, token, procv
<1>5. LinkOK'
  BY DEF LinkOK, NeverSilent, Press, Send, link
<1>6. ASSUME NEW p \in Presses
      PROVE  PressOK(p)' /\ HealOK(p)'
  <2>1. CASE p # q
    BY <2>1, <1>6 DEF Press, Send, PressOK, HealOK, procv, SocketTypeOK, Requests
  <2>2. CASE p = q
    <3>1. CASE sock = "open"
      BY <2>2, <3>1, <1>1, <1>2, <1>3 DEF Press, Send, PressOK, HealOK, procv, SocketTypeOK, Requests
    <3>2. CASE sock # "open"
      BY <2>2, <3>2, <1>1, <1>2, <1>3 DEF Press, Send, PressOK, HealOK, procv, SocketTypeOK, Requests
    <3> QED BY <3>1, <3>2
  <2> QED BY <2>1, <2>2
<1> QED BY <1>4, <1>5, <1>6

LEMMA HandleStep ==
  ASSUME SocketInv, NEW r \in wire, Handle(r)
  PROVE  SocketInv'
<1> USE DEF SocketInv
<1> DEFINE q == r.id[1]
<1>1. r \in [id : Requests, tok : Tokens] /\ q \in Presses
  BY DEF SocketTypeOK, Requests
<1>2. /\ performed[q] = 0 /\ phase[q] \notin {"idle", "fetching", "done"}
      /\ \A s \in wire : s.id[1] = q => s = r
      /\ \A a \in answers : a.id[1] # q
  BY <1>1 DEF PressOK
<1>3. SocketTypeOK'
  <2>1. performed' \in [Presses -> {0, 1}]
    BY <1>1, <1>2 DEF SocketTypeOK, Handle
  <2>2. wire' \subseteq [id : Requests, tok : Tokens]
    BY DEF SocketTypeOK, Handle
  <2>3. [id |-> r.id, ok |-> r.tok = backend] \in [id : Requests, ok : BOOLEAN]
    BY <1>1
  <2>4. answers' \subseteq [id : Requests, ok : BOOLEAN]
    BY <2>3 DEF SocketTypeOK, Handle
  <2> QED BY <2>1, <2>2, <2>4 DEF SocketTypeOK, Handle, link, token, procv
<1>4. LinkOK'
  BY DEF LinkOK, NeverSilent, Handle, link
<1>5. ASSUME NEW p \in Presses
      PROVE  PressOK(p)' /\ HealOK(p)'
  <2>1. CASE p # q
    BY <2>1, <1>1, <1>5 DEF Handle, PressOK, HealOK, procv, SocketTypeOK
  <2>2. CASE p = q
    <3>1. /\ \A s \in wire' : s.id[1] # q
          /\ performed'[q] = IF r.tok = backend THEN 1 ELSE 0
      BY <1>1, <1>2 DEF Handle, SocketTypeOK
    <3>2. r.id = <<q, 1>> \/ r.id = <<q, 2>>
      BY <1>1 DEF Requests
    <3>3. \A a \in answers' : a.id[1] = q => a.id = r.id /\ (a.ok <=> r.tok = backend)
      <4>1. \A a \in answers' : a.id[1] = q => a = [id |-> r.id, ok |-> r.tok = backend]
        BY <1>2 DEF Handle
      <4>2. /\ [id |-> r.id, ok |-> r.tok = backend].id = r.id
            /\ [id |-> r.id, ok |-> r.tok = backend].ok <=> r.tok = backend
        OBVIOUS
      <4> QED BY <4>1, <4>2
    <3>4. \A a, b \in answers' : a.id[1] = q /\ b.id[1] = q => a = b
      BY <1>1, <1>2 DEF Handle
    <3>5. PressOK(p)'
      <4>1. /\ phase'[p] = phase[p] /\ phase[p] \notin {"idle", "fetching", "done"}
            /\ pending' = pending
        BY <2>2, <1>2 DEF Handle
      <4>2. /\ <<p, 1>> \in pending' <=> phase'[p] = "first"
            /\ <<p, 2>> \in pending' <=> phase'[p] = "second"
        BY <4>1, <1>5 DEF PressOK
      <4>3. \A a \in answers' : a.id[1] = p => (a.ok <=> performed'[p] = 1)
        BY <3>1, <3>3, <2>2
      <4> QED BY <4>1, <4>2, <4>3, <3>1, <3>4, <2>2 DEF PressOK
    <3>6. HealOK(p)'
      <4>1. CASE p \in steady
        <5>1. /\ p \in steady' /\ backend' = backend /\ file' = file /\ phase'[p] = phase[p]
              /\ presented' = presented
          BY <4>1 DEF Handle, procv
        <5>2. /\ r.id = <<p, 1>> => r.tok = presented[p]
              /\ r.id = <<p, 2>> => r.tok = backend
          BY <4>1, <1>5 DEF HealOK
        <5>3. /\ backend # 0 /\ file = backend /\ phase[p] \notin {"idle", "refused"}
              /\ phase[p] = "fetching" => presented[p] # backend
          BY <4>1, <1>5 DEF HealOK
        <5>4. \A s \in wire' : s.id # <<p, 1>> /\ s.id # <<p, 2>>
          BY <3>1, <2>2
        <5>5. \A a \in answers' : /\ a.id = <<p, 1>> /\ ~a.ok => presented[p] # backend
                                  /\ a.id = <<p, 2>> => a.ok
          <6> TAKE a \in answers'
          <6>1. CASE a.id[1] = q
            <7>1. a.id = r.id /\ (a.ok <=> r.tok = backend)
              BY <6>1, <3>3
            <7> QED BY <7>1, <5>2
          <6>2. CASE a.id[1] # q
            BY <6>2, <2>2
          <6> QED BY <6>1, <6>2
        <5>6. /\ \A s \in wire' : /\ s.id = <<p, 1>> => s.tok = presented'[p]
                                  /\ s.id = <<p, 2>> => s.tok = backend'
              /\ \A a \in answers' : /\ a.id = <<p, 1>> /\ ~a.ok => presented'[p] # backend'
                                     /\ a.id = <<p, 2>> => a.ok
          BY <5>1, <5>4, <5>5
        <5>7. /\ backend' # 0 /\ file' = backend' /\ phase'[p] \notin {"idle", "refused"}
              /\ phase'[p] = "fetching" => presented'[p] # backend'
          BY <5>1, <5>3
        <5> QED BY <5>6, <5>7 DEF HealOK
      <4>2. CASE p \notin steady
        BY <4>2 DEF Handle, HealOK
      <4> QED BY <4>1, <4>2
    <3> QED BY <3>5, <3>6
  <2> QED BY <2>1, <2>2
<1> QED BY <1>3, <1>4, <1>5

LEMMA AnsweredStep ==
  ASSUME SocketInv, NEW a \in answers, Answered(a)
  PROVE  SocketInv'
<1> USE DEF SocketInv
<1> DEFINE q == a.id[1]
<1>1. a \in [id : Requests, ok : BOOLEAN] /\ q \in Presses
  BY DEF SocketTypeOK, Requests
<1>2. /\ (a.ok <=> performed[q] = 1) /\ phase[q] \notin {"idle", "fetching", "done"}
      /\ \A b \in answers : b.id[1] = q => b = a
      /\ \A r \in wire : r.id[1] # q
  BY <1>1 DEF PressOK
<1>3. SocketTypeOK'
  <2>1. phase' \in [Presses -> Phases]
    BY <1>1 DEF SocketTypeOK, Answered, Phases, Busy
  <2> QED BY <2>1 DEF SocketTypeOK, Answered, link, token, procv
<1>4. LinkOK'
  BY DEF LinkOK, NeverSilent, Answered, link
<1>5. ASSUME NEW p \in Presses
      PROVE  PressOK(p)' /\ HealOK(p)'
  <2>1. CASE p # q
    BY <2>1, <1>1, <1>5 DEF Answered, PressOK, HealOK, procv, SocketTypeOK
  <2>2. CASE p = q /\ a.id \in pending
    <3>1. \/ a.id = <<q, 1>> /\ phase[q] = "first"
          \/ a.id = <<q, 2>> /\ phase[q] = "second"
      <4>1. a.id = <<q, 1>> \/ a.id = <<q, 2>>
        BY <1>1 DEF Requests
      <4>2. /\ <<q, 1>> \in pending <=> phase[q] = "first"
            /\ <<q, 2>> \in pending <=> phase[q] = "second"
        BY <1>1 DEF PressOK
      <4> QED BY <4>1, <4>2, <2>2
    <3>2. PressOK(p)'
      <4>1. /\ \A b \in answers' : b.id[1] # q
            /\ <<q, 1>> \notin pending' /\ <<q, 2>> \notin pending'
        BY <3>1, <2>2, <1>2, <1>5 DEF Answered, PressOK
      <4>2. phase'[q] = IF a.ok THEN "done" ELSE IF a.id[2] = 1 THEN "fetching" ELSE "refused"
        BY <1>1, <2>2 DEF Answered, SocketTypeOK
      <4>3. performed[q] \in {0, 1}
        BY <1>1 DEF SocketTypeOK
      <4>4. a.ok <=> performed'[p] = 1
        BY <2>2, <1>2 DEF Answered
      <4>5. /\ phase'[p] \in {"done", "fetching", "refused"}
            /\ phase'[p] = "done" <=> a.ok
        BY <4>2, <2>2
      <4>6. \A r \in wire' : r.id[1] # p
        BY <2>2, <1>2 DEF Answered
      <4>7. phase'[p] = "fetching" => performed'[p] = 0
        BY <4>3, <4>4, <4>5, <2>2 DEF Answered
      <4> QED BY <4>1, <4>4, <4>5, <4>6, <4>7, <2>2 DEF PressOK
    <3>3. HealOK(p)'
      <4>1. CASE p \in steady
        <5>1. /\ p \in steady' /\ backend' = backend /\ file' = file
              /\ presented' = presented
              /\ wire' = wire
          BY <4>1 DEF Answered, procv, token
        <5>2. /\ a.id = <<p, 1>> /\ ~a.ok => presented[p] # backend
              /\ a.id = <<p, 2>> => a.ok
          BY <4>1, <1>5 DEF HealOK
        <5>3. phase'[p] = IF a.ok THEN "done" ELSE IF a.id[2] = 1 THEN "fetching" ELSE "refused"
          BY <1>1, <2>2 DEF Answered, SocketTypeOK
        <5>4. CASE a.id = <<q, 1>>
          <6>1. phase'[p] # "refused" /\ phase'[p] # "idle"
            BY <5>3, <5>4
          <6>2. phase'[p] = "fetching" => presented[p] # backend
            BY <5>2, <5>3, <5>4, <2>2
          <6>3. answers' \subseteq answers
            BY DEF Answered
          <6> QED BY <6>1, <6>2, <6>3, <5>1, <4>1, <1>5 DEF HealOK
        <5>5. CASE a.id = <<q, 2>>
          <6>1. phase'[p] = "done"
            BY <5>2, <5>3, <5>5, <2>2
          <6>3. answers' \subseteq answers
            BY DEF Answered
          <6> QED BY <6>1, <6>3, <5>1, <4>1, <1>5 DEF HealOK
        <5> QED BY <5>4, <5>5, <3>1
      <4>2. CASE p \notin steady
        BY <4>2 DEF Answered, HealOK
      <4> QED BY <4>1, <4>2
    <3> QED BY <3>2, <3>3
  <2>3. CASE p = q /\ a.id \notin pending
    BY <2>3, <1>1, <1>2, <1>5 DEF Answered, PressOK, HealOK, procv, SocketTypeOK, Requests
  <2> QED BY <2>1, <2>2, <2>3
<1> QED BY <1>3, <1>4, <1>5

\* In hand while its token is read again: nothing on the way, and nothing done.
LEMMA RefetchedStep ==
  ASSUME SocketInv, NEW q \in Presses, Refetched(q)
  PROVE  SocketInv'
<1> USE DEF SocketInv
<1>1. /\ phase[q] = "fetching" /\ performed[q] = 0
      /\ \A r \in wire : r.id[1] # q
      /\ \A a \in answers : a.id[1] # q
      /\ <<q, 1>> \notin pending /\ <<q, 2>> \notin pending
  BY DEF Refetched, PressOK
<1>2. q \in steady => backend # 0 /\ file = backend /\ presented[q] # backend
  BY <1>1 DEF HealOK
<1>3. PICK fresh \in {0, file} :
        /\ fresh = 0 => q \notin steady
        /\ writeToken' = IF fresh = 0 THEN writeToken ELSE fresh
        /\ IF fresh \in {0, presented[q]}
           THEN phase' = [phase EXCEPT ![q] = "refused"] /\ UNCHANGED <<pending, wire>>
           ELSE Send(q, 2, fresh)
  BY DEF Refetched
<1>4. fresh \in Tokens
  BY <1>3, ProcsAssumption DEF SocketTypeOK, Tokens
<1>5. SocketTypeOK'
  <2>1. <<q, 2>> \in Requests /\ [id |-> <<q, 2>>, tok |-> fresh] \in [id : Requests, tok : Tokens]
    BY <1>4 DEF Requests
  <2>2. pending' \subseteq Requests /\ wire' \subseteq [id : Requests, tok : Tokens]
    BY <1>3, <2>1 DEF SocketTypeOK, Send
  <2>3. phase' \in [Presses -> Phases]
    BY <1>3 DEF SocketTypeOK, Send, Phases, Busy
  <2>4. writeToken' \in Tokens
    BY <1>3, <1>4 DEF SocketTypeOK
  <2> QED BY <2>2, <2>3, <2>4 DEF SocketTypeOK, Refetched, link, procv
<1>6. LinkOK'
  BY <1>3 DEF LinkOK, NeverSilent, Refetched, Send, link
<1>7. ASSUME NEW p \in Presses
      PROVE  PressOK(p)' /\ HealOK(p)'
  <2>1. CASE p # q
    BY <2>1, <1>3, <1>7 DEF Refetched, Send, PressOK, HealOK, procv, SocketTypeOK, Requests
  <2>2. CASE p = q
    <3>1. CASE fresh \in {0, presented[q]}
      BY <2>2, <3>1, <1>1, <1>2, <1>3 DEF Refetched, PressOK, HealOK, procv, SocketTypeOK
    <3>2. CASE fresh \notin {0, presented[q]} /\ sock = "open"
      BY <2>2, <3>2, <1>1, <1>2, <1>3 DEF Refetched, Send, PressOK, HealOK, procv, SocketTypeOK
    <3>3. CASE fresh \notin {0, presented[q]} /\ sock # "open"
      BY <2>2, <3>3, <1>1, <1>2, <1>3 DEF Refetched, Send, PressOK, HealOK, procv, SocketTypeOK
    <3> QED BY <3>1, <3>2, <3>3
  <2> QED BY <2>1, <2>2
<1> QED BY <1>5, <1>6, <1>7

\* A request given up on may still be on the wire, or answered: nothing is pending for it.
LEMMA TimesOutStep ==
  ASSUME SocketInv, NEW r \in pending, TimesOut(r)
  PROVE  SocketInv'
<1> USE DEF SocketInv
<1>1. PICK q \in Presses, n \in {1, 2} : r = <<q, n>>
  BY DEF SocketTypeOK, Requests
<1>2. /\ phase'[q] = "failed"
      /\ \A p \in Presses : p # q => phase'[p] = phase[p]
      /\ phase' \in [Presses -> Phases]
  BY <1>1 DEF TimesOut, SocketTypeOK, Phases
<1>3. phase[q] \in {"first", "second"} /\ <<q, 1>> \notin pending' /\ <<q, 2>> \notin pending'
  BY <1>1 DEF TimesOut, PressOK
<1>4. SocketTypeOK'
  BY <1>2 DEF SocketTypeOK, TimesOut, link, token, procv
<1>5. LinkOK'
  BY DEF LinkOK, NeverSilent, TimesOut, link
<1>6. ASSUME NEW p \in Presses
      PROVE  PressOK(p)' /\ HealOK(p)'
  <2>1. CASE p # q
    BY <2>1, <1>1, <1>2, <1>6 DEF TimesOut, PressOK, HealOK, procv
  <2>2. CASE p = q
    BY <2>2, <1>2, <1>3, <1>6 DEF TimesOut, PressOK, HealOK, procv
  <2> QED BY <2>1, <2>2
<1> QED BY <1>4, <1>5, <1>6

\* What was on the wire is lost, to a connection or to the process that held it.
LEMMA LosingSteps ==
  ASSUME SocketInv, Dies \/ \E r \in wire : Drop(r)
  PROVE  SocketInv'
<1> USE DEF SocketInv
<1>1. /\ wire' \subseteq wire /\ steady' \subseteq steady
      /\ steady' # {} => UNCHANGED procv
      /\ UNCHANGED <<link, token, procs, file, pending, answers, phase, presented, performed>>
      /\ backend' \in {0, backend}
  BY DEF Dies, Drop, procv
<1>2. SocketTypeOK'
  BY <1>1, ProcsAssumption DEF SocketTypeOK, Tokens, link, token
<1>3. LinkOK'
  BY <1>1 DEF LinkOK, NeverSilent, link
<1>4. ASSUME NEW p \in Presses
      PROVE  PressOK(p)' /\ HealOK(p)'
  BY <1>1, <1>4 DEF PressOK, HealOK, procv
<1> QED BY <1>2, <1>3, <1>4

-----------------------------------------------------------------------------
(* The link and the processes.                                             *)

LEMMA ProcessSteps ==
  ASSUME SocketInv, Starts \/ \E t \in refresh : TokenArrives(t)
  PROVE  SocketInv'
<1> USE DEF SocketInv
<1>1. UNCHANGED <<link, calls>>
  BY DEF Starts, TokenArrives
<1>2. SocketTypeOK'
  <2>1. CASE Starts
    BY <2>1, ProcsAssumption DEF SocketTypeOK, Starts, Tokens, link, calls, token
  <2>2. CASE \E t \in refresh : TokenArrives(t)
    BY <2>2 DEF SocketTypeOK, TokenArrives, link, calls, procv
  <2> QED BY <2>1, <2>2
<1>3. LinkOK'
  BY <1>1 DEF LinkOK, NeverSilent, link, calls
<1>4. \A p \in Presses : PressOK(p)' /\ HealOK(p)'
  <2>1. steady' = {} \/ (steady' = steady /\ backend' = backend /\ file' = file)
    BY DEF Starts, TokenArrives, procv
  <2> QED BY <1>1, <2>1, CallsKept
<1> QED BY <1>2, <1>3, <1>4

LEMMA LinkSteps ==
  ASSUME SocketInv, LinkNext
  PROVE  SocketInv'
<1> USE DEF SocketInv
<1>1. UNCHANGED <<procv, steady>>
  BY DEF LinkNext, Connect, RetryNow, TimerFires, Opened, SocketDies, CloseEvent, WindowPasses,
         Close
<1>2. CASE Connect \/ RetryNow \/ TimerFires \/ CloseEvent \/ Close
  <2>1. RejectPending
    BY <1>2 DEF Connect, RetryNow, TimerFires, CloseEvent, Close, OpenSocket
  <2>2. /\ phase' \in [Presses -> Phases] /\ pending' = {} /\ answers' = {}
        /\ \A p \in Presses : PressOK(p)' /\ HealOK(p)'
    BY <1>1, <2>1, Rejecting
  <2>3. sock' \in Socks /\ peer' \in Tokens /\ UNCHANGED token
    BY <1>2, ProcsAssumption
    DEF Connect, RetryNow, TimerFires, CloseEvent, Close, OpenSocket, Socks, Tokens, SocketTypeOK
  <2>4. /\ timer' \in BOOLEAN /\ reconnecting' \in BOOLEAN /\ lost' \in BOOLEAN
        /\ failing' \in {"no", "window", "past"} /\ closed' \in BOOLEAN
        /\ everConnected' \in BOOLEAN
    BY <1>2 DEF Connect, RetryNow, TimerFires, CloseEvent, Close, OpenSocket, SocketTypeOK
  <2>5. SocketTypeOK'
    BY <1>1, <2>1, <2>2, <2>3, <2>4 DEF SocketTypeOK, RejectPending, procv, token
  <2>6. LinkOK'
    <3>1. CASE Connect \/ RetryNow \/ TimerFires
      BY <3>1, <2>2 DEF LinkOK, NeverSilent, Connect, RetryNow, TimerFires, OpenSocket
    <3>2. CASE CloseEvent
      BY <3>2, <2>2 DEF LinkOK, NeverSilent, CloseEvent, SocketTypeOK
    <3>3. CASE Close
      BY <3>3, <2>2 DEF LinkOK, NeverSilent, Close
    <3> QED BY <1>2, <3>1, <3>2, <3>3
  <2> QED BY <2>2, <2>5, <2>6
<1>3. CASE Opened \/ SocketDies \/ WindowPasses
  <2>1. UNCHANGED calls
    BY <1>3 DEF Opened, SocketDies, WindowPasses
  <2>2. \A p \in Presses : PressOK(p)' /\ HealOK(p)'
    BY <1>1, <2>1, CallsKept DEF procv
  <2>3. SocketTypeOK'
    <3>1. CASE Opened
      BY <1>1, <3>1, <2>1 DEF SocketTypeOK, Opened, calls, procv, token, Socks
    <3>2. CASE SocketDies
      BY <1>1, <3>2, <2>1, ProcsAssumption
      DEF SocketTypeOK, SocketDies, calls, procv, token, Socks, Tokens
    <3>3. CASE WindowPasses
      BY <1>1, <3>3, <2>1 DEF SocketTypeOK, WindowPasses, calls, procv, token
    <3> QED BY <1>3, <3>1, <3>2, <3>3
  <2>4. LinkOK'
    BY <1>3, <2>1 DEF LinkOK, NeverSilent, Opened, SocketDies, WindowPasses, calls
  <2> QED BY <2>2, <2>3, <2>4
<1> QED BY <1>2, <1>3 DEF LinkNext

-----------------------------------------------------------------------------
(* The theorems.                                                           *)

LEMMA SocketInvInit ==
  ASSUME SocketInit
  PROVE  SocketInv
<1>1. SocketTypeOK
  <2>1. backend \in Tokens /\ procs \in Tokens /\ file \in Tokens /\ writeToken \in Tokens
    BY ProcsAssumption DEF SocketInit, Tokens
  <2>2. sock \in Socks /\ peer \in Tokens /\ 0 \in Tokens
    BY ProcsAssumption DEF SocketInit, Socks, Tokens
  <2>3. phase \in [Presses -> Phases]
    BY DEF SocketInit, Phases
  <2>4. presented \in [Presses -> Tokens] /\ performed \in [Presses -> {0, 1}]
    BY <2>2 DEF SocketInit
  <2> QED BY <2>1, <2>2, <2>3, <2>4 DEF SocketInit, SocketTypeOK
<1>2. LinkOK
  BY DEF SocketInit, LinkOK, NeverSilent
<1>3. \A p \in Presses : PressOK(p) /\ HealOK(p)
  BY DEF SocketInit, PressOK, HealOK
<1> QED BY <1>1, <1>2, <1>3 DEF SocketInv

LEMMA SocketInvStep ==
  ASSUME SocketInv, [SocketNext]_svars
  PROVE  SocketInv'
<1>1. CASE UNCHANGED svars
  <2>1. SocketTypeOK' /\ LinkOK'
    BY <1>1 DEF SocketInv, SocketTypeOK, LinkOK, NeverSilent, svars, link, calls, token, procv
  <2>2. \A p \in Presses : PressOK(p)' /\ HealOK(p)'
    BY <1>1, CallsKept DEF SocketInv, svars, procv
  <2> QED BY <2>1, <2>2 DEF SocketInv
<1>2. CASE LinkNext
  BY <1>2, LinkSteps
<1>3. ASSUME NEW p \in Presses, Press(p) \/ Refetched(p)
      PROVE  SocketInv'
  BY <1>3, PressStep, RefetchedStep
<1>4. ASSUME NEW r \in wire, Handle(r) \/ Drop(r)
      PROVE  SocketInv'
  BY <1>4, HandleStep, LosingSteps
<1>5. ASSUME NEW a \in answers, Answered(a)
      PROVE  SocketInv'
  BY <1>5, AnsweredStep
<1>6. ASSUME NEW r \in pending, TimesOut(r)
      PROVE  SocketInv'
  BY <1>6, TimesOutStep
<1>7. CASE Starts \/ \E t \in refresh : TokenArrives(t)
  BY <1>7, ProcessSteps
<1>8. CASE Dies
  BY <1>8, LosingSteps
<1> QED BY <1>1, <1>2, <1>3, <1>4, <1>5, <1>6, <1>7, <1>8 DEF SocketNext, CallsNext

\* The inductive invariant holds of every behaviour.
LEMMA SocketInvHolds == SocketInit /\ [][SocketNext]_svars => []SocketInv
  BY SocketInvInit, SocketInvStep, PTL

THEOREM SocketSafety == SocketSpec => []SocketInv
  BY SocketInvHolds, PTL DEF SocketSpec

\* The state is well formed; in particular a press is performed at most once.
THEOREM SocketTypes == SocketSpec => []SocketTypeOK
<1>1. SocketInv => SocketTypeOK
  BY DEF SocketInv
<1> QED BY <1>1, SocketSafety, PTL

\* However sockets, timers, wake-ups and processes follow each other, a press in
\* hand is never left waiting on a socket that cannot answer or reject it.
THEOREM NobodyOrphaned == SocketSpec => []NothingOrphaned
<1>1. SocketInv => NothingOrphaned
  BY DEF SocketInv, NothingOrphaned, PressOK, LinkOK
<1> QED BY <1>1, SocketSafety, PTL

\* Whatever the order of failures, timers and wake-ups, a client without a socket
\* has a retry armed or has said that it gave up.
THEOREM ClientNeverSilent == SocketSpec => []NeverSilent
<1>1. SocketInv => NeverSilent
  BY DEF SocketInv, LinkOK
<1> QED BY <1>1, SocketSafety, PTL

\* A press made while the file names the running process is never refused by that
\* process for its token, for any number of presses sharing the page's token.
THEOREM FileHeals == SocketSpec => []TheFileHeals
<1>1. SocketInv => TheFileHeals
  BY DEF SocketInv, TheFileHeals, HealOK
<1> QED BY <1>1, SocketSafety, PTL

-----------------------------------------------------------------------------
(* The refinement of Calls.                                                *)

LEMMA ToldStaysPut ==
  ASSUME UNCHANGED <<phase, performed>>
  PROVE  UNCHANGED <<[p \in Presses |-> ToldOf(p)], performed>>
  BY DEF ToldOf

\* The presses a step takes from waiting to failed, and no other.
LEMMA FailsSome ==
  ASSUME performed' = performed,
         \A p \in Presses : phase'[p] = phase[p] \/ (phase[p] \in Busy /\ ToldOf(p)' \in {"waiting", "failed"})
  PROVE  C!Fail
<1> DEFINE told == [p \in Presses |-> ToldOf(p)]
           gone == {p \in Presses : told[p] = "waiting" /\ ToldOf(p)' = "failed"}
<1>1. gone \in SUBSET {p \in Presses : told[p] = "waiting"}
  OBVIOUS
<1>2. told' = [p \in Presses |-> IF p \in gone THEN "failed" ELSE told[p]]
  <2> SUFFICES ASSUME NEW p \in Presses
               PROVE  ToldOf(p)' = IF p \in gone THEN "failed" ELSE told[p]
    OBVIOUS
  <2>1. CASE phase'[p] = phase[p]
    BY <2>1 DEF ToldOf
  <2>2. CASE phase[p] \in Busy /\ ToldOf(p)' \in {"waiting", "failed"}
    <3>1. told[p] = "waiting"
      BY <2>2 DEF ToldOf, Busy
    <3> QED BY <3>1, <2>2
  <2> QED BY <2>1, <2>2
<1> QED BY <1>1, <1>2 DEF C!Fail

LEMMA RefinesStep ==
  ASSUME SocketInv, [SocketNext]_svars
  PROVE  [C!Next]_<<[p \in Presses |-> ToldOf(p)], performed>>
<1> DEFINE told == [p \in Presses |-> ToldOf(p)]
<1> USE DEF SocketInv
<1>1. CASE \E p \in Presses : Press(p)
  <2>1. PICK q \in Presses : Press(q)
    BY <1>1
  <2>2. /\ phase[q] = "idle" /\ performed' = performed
        /\ phase' = [phase EXCEPT ![q] = "first"] \/ phase' = [phase EXCEPT ![q] = "failed"]
    BY <2>1 DEF Press, Send
  <2>3. /\ told[q] = "unpressed"
        /\ \E answer \in {"waiting", "failed"} : told' = [told EXCEPT ![q] = answer]
    BY <2>2 DEF ToldOf, Busy, SocketTypeOK
  <2> QED BY <2>2, <2>3 DEF C!Next, C!Press
<1>2. CASE \E r \in wire : Handle(r)
  <2>1. PICK r \in wire : Handle(r)
    BY <1>2
  <2> DEFINE q == r.id[1]
  <2>2. r.id \in Requests /\ q \in Presses
    BY DEF SocketTypeOK, Requests
  <2>3. performed[q] = 0 /\ phase[q] \notin {"idle", "done"}
    BY <2>2 DEF PressOK
  <2>4. told' = told /\ told[q] \notin {"unpressed", "done"}
    BY <2>1, <2>2, <2>3 DEF Handle, ToldOf
  <2>5. performed' = performed \/ performed' = [performed EXCEPT ![q] = 1]
    BY <2>1, <2>2, <2>3 DEF Handle, SocketTypeOK
  <2> QED BY <2>2, <2>3, <2>4, <2>5 DEF C!Next, C!Perform
<1>3. CASE \E a \in answers : Answered(a)
  <2>1. PICK a \in answers : Answered(a)
    BY <1>3
  <2> DEFINE q == a.id[1]
  <2>2. a.id \in Requests /\ q \in Presses
    BY DEF SocketTypeOK, Requests
  <2>3. a.ok <=> performed[q] = 1
    BY <2>2 DEF PressOK
  <2>4. /\ performed' = performed
        /\ \A p \in Presses : p # q => phase'[p] = phase[p]
    BY <2>1, <2>2 DEF Answered, SocketTypeOK
  <2>5. a.id \in pending => phase[q] \in {"first", "second"}
    <3>1. a.id = <<q, 1>> \/ a.id = <<q, 2>>
      BY <2>2 DEF Requests
    <3> QED BY <3>1, <2>2 DEF PressOK
  <2>6. CASE a.id \in pending /\ a.ok
    <3>1. phase' = [phase EXCEPT ![q] = "done"]
      BY <2>1, <2>6 DEF Answered
    <3>2. told[q] = "waiting" /\ told' = [told EXCEPT ![q] = "done"]
      BY <2>2, <2>6, <2>5, <3>1 DEF ToldOf, Busy, SocketTypeOK
    <3> QED BY <2>2, <2>3, <2>4, <2>6, <3>2 DEF C!Next, C!Succeed
  <2>7. CASE a.id \in pending /\ ~a.ok
    <3>1. phase'[q] \in {"fetching", "refused"}
      BY <2>1, <2>2, <2>7 DEF Answered, SocketTypeOK
    <3>2. ToldOf(q)' \in {"waiting", "failed"}
      BY <3>1 DEF ToldOf, Busy
    <3> QED BY <2>4, <2>7, <2>5, <3>2, FailsSome DEF C!Next, Busy
  <2>8. CASE a.id \notin pending
    BY <2>1, <2>8, ToldStaysPut DEF Answered, SocketTypeOK
  <2> QED BY <2>6, <2>7, <2>8
<1>4. CASE \E p \in Presses : Refetched(p)
  <2>1. PICK q \in Presses : Refetched(q)
    BY <1>4
  <2>2. /\ phase[q] = "fetching" /\ performed' = performed
        /\ phase'[q] \in {"refused", "second", "failed"}
        /\ \A p \in Presses : p # q => phase'[p] = phase[p]
    BY <2>1 DEF Refetched, Send, SocketTypeOK
  <2>3. ToldOf(q)' \in {"waiting", "failed"}
    BY <2>2 DEF ToldOf, Busy
  <2> QED BY <2>2, <2>3, FailsSome DEF C!Next, Busy
<1>5. CASE \E r \in pending : TimesOut(r)
  <2>1. PICK r \in pending : TimesOut(r)
    BY <1>5
  <2>2. PICK q \in Presses, n \in {1, 2} : r = <<q, n>>
    BY DEF SocketTypeOK, Requests
  <2>3. phase[q] \in {"first", "second"}
    BY <2>2 DEF PressOK
  <2>4. /\ performed' = performed /\ phase'[q] = "failed"
        /\ \A p \in Presses : p # q => phase'[p] = phase[p]
    BY <2>1, <2>2 DEF TimesOut, SocketTypeOK
  <2>5. ToldOf(q)' \in {"waiting", "failed"}
    BY <2>4 DEF ToldOf, Busy
  <2> QED BY <2>3, <2>4, <2>5, FailsSome DEF C!Next, Busy
<1>6. CASE Connect \/ RetryNow \/ TimerFires \/ CloseEvent \/ Close
  <2>1. RejectPending
    BY <1>6 DEF Connect, RetryNow, TimerFires, CloseEvent, Close, OpenSocket
  <2>2. performed' = performed
    BY <2>1 DEF RejectPending
  <2>3. ASSUME NEW p \in Presses
        PROVE  phase'[p] = phase[p] \/ (phase[p] \in Busy /\ ToldOf(p)' \in {"waiting", "failed"})
    <3>1. phase'[p] = IF phase[p] \in {"first", "second"} THEN "failed" ELSE phase[p]
      BY <2>1, <2>3 DEF RejectPending, PressOK, SocketTypeOK
    <3> QED BY <3>1 DEF ToldOf, Busy
  <2> QED BY <2>2, <2>3, FailsSome DEF C!Next
<1>7. CASE \/ UNCHANGED svars \/ Opened \/ SocketDies \/ WindowPasses \/ Starts \/ Dies
           \/ \E r \in wire : Drop(r)
           \/ \E t \in refresh : TokenArrives(t)
  <2>1. UNCHANGED <<phase, performed>>
    BY <1>7 DEF svars, calls, Opened, SocketDies, WindowPasses, Starts, Dies, Drop, TokenArrives
  <2> QED BY <2>1, ToldStaysPut
<1> QED BY <1>1, <1>2, <1>3, <1>4, <1>5, <1>6, <1>7 DEF SocketNext, CallsNext, LinkNext

LEMMA StepsImplementCalls == SocketInit /\ [][SocketNext]_svars => ImplementsCalls
<1>1. SocketInit => C!Init
  <2> SUFFICES ASSUME SocketInit
               PROVE  C!Init
    OBVIOUS
  <2>1. \A p \in Presses : ToldOf(p) = "unpressed"
    BY DEF SocketInit, ToldOf, Busy
  <2>2. [p \in Presses |-> ToldOf(p)] = [p \in Presses |-> "unpressed"]
    BY <2>1
  <2> QED BY <2>2 DEF SocketInit, C!Init
<1>2. SocketInv /\ [SocketNext]_svars => [C!Next]_<<[p \in Presses |-> ToldOf(p)], performed>>
  BY RefinesStep
<1> QED BY <1>1, <1>2, SocketInvHolds, PTL DEF ImplementsCalls, C!Spec

\* What each press is owed (module Calls) is kept by the client, its sockets, its
\* retries and the backend's processes together: performed at most once, answered
\* once and for good, and never told "done" of what was not performed.
THEOREM CallsImplemented == SocketSpec => ImplementsCalls
  BY StepsImplementCalls, PTL DEF SocketSpec

-----------------------------------------------------------------------------
(* The page over its connection (PageStart).                               *)

LEMMA PageStepIsSocketStep == [PageNext]_pvars => [SocketNext]_svars
<1>1. StartConnects \/ Replaced \/ SocketOpened \/ SocketClosed => LinkNext
  BY DEF StartConnects, Replaced, SocketOpened, SocketClosed, LinkNext
<1>2. SocketDies \/ WindowPasses \/ CallsNext => SocketNext
  BY DEF SocketNext, LinkNext
<1>3. Revealed \/ Loaded \/ LoadFails \/ FeedLost \/ FeedBack \/ UNCHANGED pvars => UNCHANGED svars
  BY DEF Revealed, Loaded, LoadFails, LoadingEnds, FeedLost, FeedBack, pvars
<1> QED BY <1>1, <1>2, <1>3 DEF PageNext, SocketNext

\* The store drives the connection and adds no step to it: whatever SocketClient
\* promises at every step, it promises under the page's start and its recoveries.
THEOREM PageIsSocket == PageSpec => SocketInit /\ [][SocketNext]_svars
<1>1. PageInit => SocketInit
  BY DEF PageInit
<1> QED BY <1>1, PageStepIsSocketStep, PTL DEF PageSpec

LEMMA PageKeepsSocket == PageSpec => []SocketInv
  BY PageIsSocket, SocketInvHolds, PTL

\* What the client promises its callers holds in the page that uses it.
THEOREM PromisesKeptToThePage ==
  PageSpec => [](NothingOrphaned /\ NeverSilent /\ TheFileHeals) /\ ImplementsCalls
<1>1. SocketInv => NothingOrphaned /\ NeverSilent /\ TheFileHeals
  BY DEF SocketInv, NothingOrphaned, TheFileHeals, PressOK, HealOK, LinkOK
<1> QED BY <1>1, PageKeepsSocket, PageIsSocket, StepsImplementCalls, PTL

\* A first loading that has not begun has nothing in hand and shows nothing.
StartOK ==
  /\ start \in {"token", "connecting"} => ~ready /\ ~loading
  /\ start = "token" => ~mine

\* What the calls do to the socket: nothing.
LEMMA CallsLeaveLink == CallsNext => UNCHANGED link
  BY DEF CallsNext, Press, Refetched, Handle, Drop, Answered, TimesOut, TokenArrives, Starts, Dies

LEMMA PageTypeStep ==
  ASSUME SocketTypeOK', PageTypeOK, StartOK, [PageNext]_pvars
  PROVE  PageTypeOK' /\ StartOK'
<1> USE DEF PageTypeOK, StartOK, StartPhases
<1>0. missed' \subseteq Causes /\ deaf' \in BOOLEAN
  BY DEF PageNext, StartConnects, Replaced, SocketOpened, SocketClosed, Revealed, LoadingEnds,
         Loaded, LoadFails, FeedLost, FeedBack, page, past, pvars, Causes
<1>1. CASE StartConnects
  BY <1>0, <1>1 DEF StartConnects, Connect, OpenSocket, past
<1>2. CASE Replaced
  BY <1>0, <1>2 DEF Replaced, LoadingRejected
<1>3. CASE SocketOpened
  BY <1>0, <1>3 DEF SocketOpened, Opened
<1>4. CASE SocketClosed
  <2>1. lost' \in BOOLEAN
    BY DEF SocketTypeOK
  <2> QED BY <1>0, <1>4, <2>1 DEF SocketClosed, LoadingRejected
<1>5. CASE Revealed
  BY <1>0, <1>5 DEF Revealed, svars, link, past
<1>6. CASE Loaded \/ LoadFails
  <2>1. sock' = sock
    BY <1>6 DEF Loaded, LoadFails, LoadingEnds, svars, link
  <2> QED BY <1>0, <1>6, <2>1 DEF Loaded, LoadFails, LoadingEnds
<1>9. CASE FeedLost \/ FeedBack
  <2>1. sock' = sock /\ sock = "open"
    BY <1>9 DEF FeedLost, FeedBack, Connected, svars, link
  <2>2. CASE FeedLost
    BY <1>0, <2>1, <2>2 DEF FeedLost, past
  <2>3. CASE FeedBack
    <3>1. loading' \in BOOLEAN /\ dropped' \in BOOLEAN
      BY <2>3 DEF FeedBack
    <3>2. start \in {"token", "connecting"} => ~loading'
      BY <2>3 DEF FeedBack
    <3> QED BY <1>0, <2>1, <2>3, <3>1, <3>2 DEF FeedBack
  <2> QED BY <1>9, <2>2, <2>3
<1>7. CASE (SocketDies \/ WindowPasses \/ CallsNext) /\ UNCHANGED page
  BY <1>0, <1>7, CallsLeaveLink DEF SocketDies, WindowPasses, page, past, link
<1>8. CASE UNCHANGED pvars
  BY <1>8 DEF pvars, page, past, svars, link
<1> QED BY <1>1, <1>2, <1>3, <1>4, <1>5, <1>6, <1>7, <1>8, <1>9 DEF PageNext

LEMMA PageWellFormed == PageSpec => [](PageTypeOK /\ StartOK)
<1>1. PageInit /\ SocketInv => PageTypeOK /\ StartOK
  BY DEF PageInit, PageTypeOK, StartOK, StartPhases, SocketInv
<1>2. SocketInv' /\ PageTypeOK /\ StartOK /\ [PageNext]_pvars => (PageTypeOK /\ StartOK)'
  <2>1. SocketInv => SocketTypeOK
    BY DEF SocketInv
  <2>2. SocketInv' => SocketTypeOK'
    BY <2>1, PTL
  <2> QED BY <2>2, PageTypeStep
<1> QED BY <1>1, <1>2, PageKeepsSocket, PTL DEF PageSpec

\* The page's own state is well formed, and a loading is in hand only on a socket
\* that can answer it or reject it: the splash does not wait on a dead one.
THEOREM PageTypes == PageSpec => []PageTypeOK
  BY PageWellFormed, PTL

-----------------------------------------------------------------------------
(* Why the lists are read again after a drop.                              *)

\* Every connection, shown or not, is read over or has a cause not to be; between two
\* of them the drop is remembered; and the page that is shown because its start failed
\* remembers it too.
AgainOK ==
  /\ sock = "open" => loading \/ synced \/ missed # {}
  /\ sock \in {"none", "connecting"} =>
       /\ ~everConnected \/ dropped \/ missed # {} \/ ~ready
       /\ mine => start = "connecting"
  /\ start = "failed" =>
       /\ ~loading /\ ~synced /\ ~ready
       /\ missed # {} \/ (dropped /\ sock # "open")

LEMMA AgainStep ==
  ASSUME PageTypeOK, StartOK, AgainOK, [PageNext]_pvars
  PROVE  AgainOK'
<1> USE DEF AgainOK
<1>0. start \in StartPhases /\ sock \in Socks /\ (loading => sock \in {"open", "dying"})
  BY DEF PageTypeOK, SocketTypeOK
<1>1. CASE StartConnects
  BY <1>1 DEF StartConnects, Connect, OpenSocket, StartOK, past
<1>2. CASE Replaced
  <2>1. /\ sock' = "connecting" /\ everConnected' = everConnected /\ ~mine' /\ dropped' = dropped
        /\ sock \in {"open", "dying"} => missed' # {}
        /\ sock \notin {"open", "dying"} => missed' = missed
        /\ synced' => synced
    BY <1>2 DEF Replaced, RetryNow, TimerFires, OpenSocket
  <2>2. CASE sock \in {"open", "dying"}
    BY <1>2, <2>1, <2>2 DEF Replaced, LoadingRejected
  <2>3. CASE sock \in {"none", "connecting"}
    <3>1. ~loading /\ ready' = ready /\ start' = start /\ ~loading'
      BY <1>0, <1>2, <2>3 DEF Replaced, LoadingRejected
    <3> QED BY <2>1, <2>3, <3>1
  <2> QED BY <1>0, <2>2, <2>3 DEF Socks
<1>3. CASE SocketOpened
  <2>1. sock = "connecting" /\ sock' = "open" /\ ready' = ready /\ synced' = synced
    BY <1>3 DEF SocketOpened, Opened
  <2>2. loading' \/ missed' # {}
    <3>1. CASE mine \/ (everConnected /\ dropped /\ ready)
      BY <1>3, <3>1 DEF SocketOpened
    <3>2. CASE ~mine /\ ~everConnected
      BY <1>3, <3>2 DEF SocketOpened
    <3>3. CASE ~mine /\ everConnected /\ ~ready
      BY <1>3, <3>3 DEF SocketOpened
    <3>4. CASE ~mine /\ everConnected /\ ready /\ ~dropped
      BY <1>3, <2>1, <3>4 DEF SocketOpened
    <3> QED BY <3>1, <3>2, <3>3, <3>4
  <2>3. start' = "failed" => start = "failed" /\ ~loading'
    BY <1>3, <2>1 DEF SocketOpened
  <2> QED BY <2>1, <2>2, <2>3
<1>4. CASE SocketClosed
  <2>1. sock' = "none" /\ dropped' /\ ~mine' /\ ~synced'
    BY <1>4 DEF SocketClosed, CloseEvent
  <2>2. start' = "failed" => ~loading' /\ ~ready'
    BY <1>4 DEF SocketClosed, LoadingRejected, StartOK
  <2> QED BY <2>1, <2>2
<1>5. CASE Revealed
  BY <1>5 DEF Revealed, svars, link, past
<1>6. CASE Loaded \/ LoadFails
  <2>1. /\ sock' = sock /\ sock \in {"open", "dying"}
        /\ synced' \/ missed' # {}
        /\ start' = "failed" => start = "failed"
    BY <1>0, <1>6 DEF Loaded, LoadFails, LoadingEnds, svars, link
  <2> QED BY <1>6, <2>1 DEF Loaded, LoadFails, LoadingEnds
<1>7. CASE FeedLost \/ FeedBack
  <2>1. /\ sock = "open" /\ sock' = sock /\ synced' = synced /\ ready' = ready /\ start' = start
        /\ (loading => loading')
    <3>1. CASE FeedLost
      BY <3>1 DEF FeedLost, Connected, svars, link, past
    <3>2. CASE FeedBack
      BY <3>2 DEF FeedBack, Connected, svars, link
    <3> QED BY <1>7, <3>1, <3>2
  <2>2. \/ missed' = missed
        \/ loading' /\ ready
    BY <1>7 DEF FeedLost, FeedBack, past
  <2>3. ~ready => (loading' => loading) /\ missed' = missed
    <3>1. CASE FeedLost
      BY <3>1 DEF FeedLost, past
    <3>2. CASE FeedBack
      BY <3>2 DEF FeedBack
    <3> QED BY <1>7, <3>1, <3>2
  <2> QED BY <2>1, <2>2, <2>3
<1>8. CASE (SocketDies \/ WindowPasses \/ CallsNext) /\ UNCHANGED page
  BY <1>8, CallsLeaveLink DEF SocketDies, WindowPasses, page, past, link
<1>9. CASE UNCHANGED pvars
  BY <1>9 DEF pvars, page, past, svars, link
<1> QED BY <1>1, <1>2, <1>3, <1>4, <1>5, <1>6, <1>7, <1>8, <1>9 DEF PageNext

\* However often the connection drops, whatever wakes the page and whenever, and
\* whatever the backend does, a page that is connected again never shows what it missed
\* as if it were the present, unless it is reading it or for one of the named causes.
THEOREM ResyncIsUnderWay == PageSpec => []ReadAgain
<1>1. PageInit => AgainOK
  BY DEF PageInit, SocketInit, AgainOK
<1>2. PageTypeOK /\ StartOK /\ AgainOK /\ [PageNext]_pvars => AgainOK'
  BY AgainStep
<1>3. AgainOK => ReadAgain
  BY DEF AgainOK, ReadAgain
<1> QED BY <1>1, <1>2, <1>3, PageWellFormed, PTL DEF PageSpec

-----------------------------------------------------------------------------
(* Why the splash ends.                                                    *)

\* While the page is not shown there is something in hand that will show it: the first
\* token, a handshake that start() will hear the end of, a first loading on a socket that
\* will answer or reject it, or the beat before the empty page is revealed; unless that
\* handshake was replaced.
SplashEnding ==
  ~ready => \/ deaf
            \/ start \in {"token", "failed"}
            \/ start = "connecting" /\ mine /\ sock \in {"connecting", "dying"}
            \/ start = "loading" /\ loading

FirstOK ==
  /\ start \in {"done", "empty"} => ready
  /\ SplashEnding

LEMMA FirstStep ==
  ASSUME PageTypeOK, StartOK, FirstOK, [PageNext]_pvars
  PROVE  FirstOK'
<1> USE DEF FirstOK, SplashEnding
<1>0. start \in StartPhases /\ sock \in Socks
  BY DEF PageTypeOK, SocketTypeOK
<1>1. CASE StartConnects
  BY <1>1 DEF StartConnects, Connect, OpenSocket, past
<1>2. CASE Replaced
  BY <1>0, <1>2 DEF Replaced, LoadingRejected
<1>3. CASE SocketOpened
  BY <1>3 DEF SocketOpened, Opened, PageTypeOK
<1>4. CASE SocketClosed
  BY <1>4 DEF SocketClosed, CloseEvent, LoadingRejected
<1>5. CASE Revealed \/ Loaded \/ LoadFails
  BY <1>5 DEF Revealed, Loaded, LoadFails, LoadingEnds, svars, link, past
<1>6. CASE FeedLost \/ FeedBack
  BY <1>6 DEF FeedLost, FeedBack, svars, link, past
<1>7. CASE (SocketDies \/ WindowPasses \/ CallsNext) /\ UNCHANGED page
  BY <1>7, CallsLeaveLink DEF SocketDies, WindowPasses, page, past, link
<1>8. CASE UNCHANGED pvars
  BY <1>8 DEF pvars, page, past, svars, link
<1> QED BY <1>1, <1>2, <1>3, <1>4, <1>5, <1>6, <1>7, <1>8 DEF PageNext

\* Whatever becomes of the first connection, and of the backend meanwhile, the splash
\* never waits for something that will not come, unless a wake-up took the handshake
\* start() was listening to.
THEOREM SplashIsEnding == PageSpec => []SplashEnding
<1>1. PageInit => FirstOK
  BY DEF PageInit, SocketInit, FirstOK, SplashEnding
<1>2. PageTypeOK /\ StartOK /\ FirstOK /\ [PageNext]_pvars => FirstOK'
  BY FirstStep
<1>3. FirstOK => SplashEnding
  BY DEF FirstOK
<1> QED BY <1>1, <1>2, <1>3, PageWellFormed, PTL DEF PageSpec
=============================================================================
