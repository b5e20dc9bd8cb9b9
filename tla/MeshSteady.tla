------------------------------ MODULE MeshSteady ------------------------------
(***************************************************************************)
(* Mesh in the regime the templates are documented for: every vantage has  *)
(* joined before the aggregator starts, and every item, of the vantages    *)
(* and of the aggregator alike, is taken once per {$DPI.INTERVAL} at its   *)
(* own fixed offset in the cycle.                                          *)
(***************************************************************************)
EXTENDS Mesh

\* Every calculated item has an offset of its own.
ASSUME OffsetsAssumption ==
  \A i, j \in Items : i # j => <<i, j>> \in Before \/ <<j, i>> \in Before

VARIABLES
  offset,      \* offset[v]: the calculated item v's probe comes just before
  published    \* vantages whose probe has run in this cycle

steadyVars == <<vars, offset, published>>

SteadyInit ==
  /\ verdict \in [Vantages -> Reports]
  /\ hist = [i \in Items |-> <<>>]
  /\ pending = Items
  /\ stale = FALSE
  /\ tier = [t \in Tiers |-> FALSE]
  /\ unsynced = {}
  /\ changes = 0
  /\ upsets = 0
  /\ fpSeen = (\E v \in Vantages : verdict[v] \in Fingerprints)
  /\ offset \in [Vantages -> Items]
  /\ published = {}

\* Item i is the next one of the cycle.
Due(i) == i \in pending /\ \A j \in pending : <<j, i>> \notin Before

\* Faulty variant: the probe drifts, at times to just before dpi.peers_ok.
PublishDrifting(v, code) ==
  /\ Due(offset[v]) \/ Due("peers_ok")
  /\ v \notin published
  /\ Publish(v, code)
  /\ published' = published \cup {v}
  /\ UNCHANGED offset

\* The probe of v runs at its offset; a verdict that repeats is no step.
PublishOnSchedule(v, code) ==
  /\ Due(offset[v])
  /\ v \notin published
  /\ Publish(v, code)
  /\ published' = published \cup {v}
  /\ UNCHANGED offset

SampleOnSchedule(i) ==
  /\ Sample(i)
  /\ published' = IF pending = {i} THEN {} ELSE published
  /\ UNCHANGED offset

SteadyNext ==
  \/ \E v \in Vantages, code \in Reports : PublishOnSchedule(v, code)
  \/ \E i \in Items : SampleOnSchedule(i)

SteadySpec == SteadyInit /\ [][SteadyNext]_steadyVars

Shown == IF ActiveTiers = {} THEN "NONE" ELSE CHOOSE t \in Tiers : tier[t]

Promise == INSTANCE AlertLadder WITH Severities <- Tiers, alert <- Shown

\* The triggers implement one alert at a time: an escalation passes through a
\* state without an alert, whatever the counts jump by.
OneAlert == Promise!Spec
===============================================================================
