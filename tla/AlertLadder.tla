------------------------------ MODULE AlertLadder ------------------------------
(***************************************************************************)
(* What an operator is promised for one (target, kind, port) tuple: one    *)
(* alert at a time, and a change of severity shows as a recovery followed  *)
(* by a new problem, never as one severity turning into another.           *)
(***************************************************************************)
CONSTANT Severities

VARIABLE alert

NoAlert == "NONE"

Init == alert = NoAlert

Raise(s) == alert = NoAlert /\ alert' = s

Resolve == alert # NoAlert /\ alert' = NoAlert

Next == Resolve \/ \E s \in Severities : Raise(s)

Spec == Init /\ [][Next]_alert
===============================================================================
