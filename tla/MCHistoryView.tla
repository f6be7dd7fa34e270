-------------------------- MODULE MCHistoryView --------------------------
(* Small instances of HistoryView: one thread, one page reading it.       *)
EXTENDS HistoryView

(* Bounds: the requests under way, and the notices waiting for the page.   *)
Small == /\ Cardinality(refreshes) + Cardinality(pulls) <= 3
         /\ Len(inbox) <= 3
=============================================================================
