------------------------------ MODULE StageLedger ------------------------------
(***************************************************************************)
(* What the gated pipeline promises about its gates, with nothing said of  *)
(* how: a ledger of approved stages that only grows, one stage at a time,  *)
(* and a position that may be any stage all of whose predecessors are in   *)
(* the ledger.  A stage is entered in the ledger only when the position    *)
(* could be at it, that is when its predecessors already are.              *)
(***************************************************************************)
EXTENDS Transition

VARIABLES position, ledger

Init ==
  /\ position \in GatedStage
  /\ ledger = Before(position)

Sign(s) ==
  /\ Before(s) \subseteq ledger
  /\ ledger' = ledger \cup {s}
  /\ UNCHANGED position

Move(s) ==
  /\ Before(s) \subseteq ledger
  /\ position' = s
  /\ UNCHANGED ledger

Next == \/ \E s \in ValidStages : Sign(s)
        \/ \E s \in GatedStage : Move(s)

Spec == Init /\ [][Next]_<<position, ledger>>
=============================================================================
