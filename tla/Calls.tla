------------------------------- MODULE Calls -------------------------------
(***************************************************************************)
(* What one press of an outward action is owed, whatever the socket under  *)
(* it does: it is performed at most once, its answer is given once and     *)
(* never taken back, and a success is only ever said of a press that was   *)
(* performed.  A failure promises nothing: the backend may perform a press *)
(* whose page has already given up on it.                                  *)
(***************************************************************************)

CONSTANT Presses    \* the presses of outward actions

VARIABLES told,     \* [Presses -> what the page has been told]
          performed \* [Presses -> how often the backend has acted on it]

Told == {"unpressed", "waiting", "done", "failed"}

Init == /\ told = [p \in Presses |-> "unpressed"]
        /\ performed = [p \in Presses |-> 0]

Press(p) == /\ told[p] = "unpressed"
            /\ \E answer \in {"waiting", "failed"} :
                 told' = [told EXCEPT ![p] = answer]
            /\ UNCHANGED performed

Perform(p) == /\ told[p] \notin {"unpressed", "done"}
              /\ performed[p] = 0
              /\ performed' = [performed EXCEPT ![p] = 1]
              /\ UNCHANGED told

Succeed(p) == /\ told[p] = "waiting"
              /\ performed[p] = 1
              /\ told' = [told EXCEPT ![p] = "done"]
              /\ UNCHANGED performed

\* One event may fail every press that waits: the socket they were sent on went.
Fail == \E lost \in SUBSET {p \in Presses : told[p] = "waiting"} :
          /\ told' = [p \in Presses |-> IF p \in lost THEN "failed" ELSE told[p]]
          /\ UNCHANGED performed

Next == Fail \/ \E p \in Presses : Press(p) \/ Perform(p) \/ Succeed(p)

Spec == Init /\ [][Next]_<<told, performed>>
=============================================================================
