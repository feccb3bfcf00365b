-------------------------------- MODULE Ledger --------------------------------
(***************************************************************************)
(* What the storage path promises of the rows it accepts, without saying   *)
(* how: rows are numbered in the order they are accepted, each is in time  *)
(* stored or given up, nothing that is stored is lost again, and a row is  *)
(* given up only when Cap newer ones have been accepted.                   *)
(*                                                                         *)
(* Module HistoryBuffer is shown to implement it.                          *)
(***************************************************************************)
EXTENDS Naturals

CONSTANT Cap
VARIABLES accepted, stored, dropped

ledger == <<accepted, stored, dropped>>

Init == accepted = 0 /\ stored = {} /\ dropped = {}

\* More rows are accepted.
Accept ==
  /\ accepted' \in Nat /\ accepted' > accepted
  /\ UNCHANGED <<stored, dropped>>

\* Accepted rows are stored, and rows that Cap newer ones followed are given up.
Settle ==
  /\ accepted' = accepted
  /\ stored \subseteq stored' /\ stored' \subseteq stored \cup 1..accepted
  /\ dropped \subseteq dropped'
  /\ \A row \in dropped' \ dropped : row \in Nat \ {0} /\ row + Cap <= accepted

Next == Accept \/ Settle

Spec == Init /\ [][Next]_ledger
===============================================================================
