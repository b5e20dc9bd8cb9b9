--------------------------------- MODULE Mesh ---------------------------------
(***************************************************************************)
(* The consensus layer for one (target, kind, port) tuple: the dpi.verdict *)
(* item of every vantage, the four calculated items of the aggregator host *)
(* that read them with last_foreach, and the five triggers over them.      *)
(*                                                                         *)
(* The four items are sampled one by one, each once per {$DPI.INTERVAL}    *)
(* cycle, so a trigger mixes counts taken at different instants.  Vantages *)
(* publish, join and leave at any instant in between.                      *)
(***************************************************************************)
EXTENDS Naturals, Sequences, FiniteSets, Verdicts

CONSTANTS
  Vantages,   \* the hosts linked to the vantage template
  Reports,    \* the verdicts they may publish
  Before,     \* <<i, j>>: item i is always sampled before j in a cycle, as
              \* the offsets the server gives the items' schedules have it
  MaxChanges, \* bound: verdicts that change in one cycle
  MaxUpsets   \* bound: silences of peers_ok and closings by hand

Items == {"affected", "peers_ok", "vantages_total", "discriminator_any"}

ASSUME VantagesAssumption == IsFiniteSet(Vantages)
ASSUME ReportsAssumption == Reports \subseteq VerdictCode
ASSUME BeforeAssumption == Before \subseteq Items \X Items
ASSUME BoundsAssumption == MaxChanges \in Nat /\ MaxUpsets \in Nat

VARIABLES
  verdict,    \* last value of each vantage's dpi.verdict item, or NoData
  hist,       \* last values of each calculated item, newest last
  pending,    \* calculated items still to be sampled in this cycle
  stale,      \* the "DPI Mesh stale" trigger is in PROBLEM
  tier,       \* tier[t]: the trigger of tier t is in PROBLEM
  unsynced,   \* tiers whose state need not follow their expression: an
              \* evaluation was suppressed by stale, or closed by hand
  changes,    \* verdicts that have changed in this cycle
  upsets,     \* silences and closings by hand so far
  fpSeen      \* history: some vantage has published a fingerprint

vars == <<verdict, hist, pending, stale, tier, unsynced, changes, upsets, fpSeen>>

NoData == "NO_DATA"

Tiers == {"INFO", "WARNING", "AVERAGE", "HIGH"}

-------------------------------------------------------------------------------
(***************************************************************************)
(* The calculated items.                                                   *)
(***************************************************************************)

\* How many values the triggers look back on: #3, or last().
Depth(i) == IF i \in {"affected", "peers_ok"} THEN 3 ELSE 1

\* The largest count a trigger tells apart from its successor.
Cap(i) == CASE i = "affected"          -> 3
            [] i = "peers_ok"          -> 1
            [] i = "vantages_total"    -> 4
            [] i = "discriminator_any" -> 1

\* Faulty variant: values that are absent are counted like non-OK ones.
CountedWithAbsent(i) ==
  CASE i = "affected"          -> {v \in Vantages : verdict[v] # "OK"}
    [] i = "peers_ok"          -> {v \in Vantages : verdict[v] = "OK"}
    [] i = "vantages_total"    -> {v \in Vantages : verdict[v] # NoData}
    [] i = "discriminator_any" -> {v \in Vantages : verdict[v] \in Fingerprints}

\* The vantages an item's count() matches; last_foreach skips those without
\* a value.
Counted(i) ==
  {v \in Vantages :
     /\ verdict[v] # NoData
     /\ CASE i = "affected"          -> verdict[v] # "OK"
          [] i = "peers_ok"          -> verdict[v] = "OK"
          [] i = "vantages_total"    -> TRUE
          [] i = "discriminator_any" -> verdict[v] \in Fingerprints}

\* The value an item takes when it is sampled now.
Sampled(i) ==
  LET n == Cardinality(Counted(i)) IN IF n < Cap(i) THEN n ELSE Cap(i)

\* Faulty variant: one value too many is kept.
PushOneMore(h, x, d) == IF Len(h) <= d THEN Append(h, x) ELSE Append(Tail(h), x)

\* History h after one more value, cut to the last d.
Push(h, x, d) == IF Len(h) < d THEN Append(h, x) ELSE Append(Tail(h), x)

-------------------------------------------------------------------------------
(***************************************************************************)
(* The trigger expressions, over a history of the items.                   *)
(***************************************************************************)

\* Faulty variant: one matching value is enough.
EqLast(h, i, n) == Len(h[i]) > 0 /\ h[i][Len(h[i])] = n

\* count(item,#3,"eq",n)=3, count(item,#3,"ge",n)=3 and last(item)>=n.
Eq3(h, i, n) == Len(h[i]) = 3 /\ \A k \in 1..3 : h[i][k] = n
Ge3(h, i, n) == Len(h[i]) = 3 /\ \A k \in 1..3 : h[i][k] >= n
LastGe(h, i, n) == Len(h[i]) > 0 /\ h[i][Len(h[i])] >= n

\* A condition a trigger puts on one item, and whether history h meets it.
Eq3If(i, n) == [fn |-> "eq3", item |-> i, n |-> n]
Ge3If(i, n) == [fn |-> "ge3", item |-> i, n |-> n]
LastIf(i, n) == [fn |-> "last", item |-> i, n |-> n]

Meets(h, c) ==
  CASE c.fn = "eq3"  -> Eq3(h, c.item, c.n)
    [] c.fn = "ge3"  -> Ge3(h, c.item, c.n)
    [] c.fn = "last" -> LastGe(h, c.item, c.n)

\* Some vantage shows a fingerprint: the gate of every tier.
Gate == LastIf("discriminator_any", 1)

\* Faulty variant: no tier waits for a fingerprint.
ExpressionWithoutFingerprint(t) ==
  CASE t = "INFO"    -> {Eq3If("affected", 1), LastIf("vantages_total", 2)}
    [] t = "WARNING" -> {Eq3If("affected", 2), LastIf("vantages_total", 3)}
    [] t = "AVERAGE" -> {Ge3If("affected", 3), Ge3If("peers_ok", 1),
                         LastIf("vantages_total", 4)}
    [] t = "HIGH"    -> {Eq3If("peers_ok", 0)}

\* Faulty variant: the majority tier does not ask for a vantage that is OK.
ExpressionWithoutPeersOk(t) ==
  {Gate} \cup
  CASE t = "INFO"    -> {Eq3If("affected", 1), LastIf("vantages_total", 2)}
    [] t = "WARNING" -> {Eq3If("affected", 2), LastIf("vantages_total", 3)}
    [] t = "AVERAGE" -> {Ge3If("affected", 3), LastIf("vantages_total", 4)}
    [] t = "HIGH"    -> {Eq3If("peers_ok", 0)}

\* Faulty variant: the two-vantage tier compares with "ge".
ExpressionWarningGe(t) ==
  {Gate} \cup
  CASE t = "INFO"    -> {Eq3If("affected", 1), LastIf("vantages_total", 2)}
    [] t = "WARNING" -> {Ge3If("affected", 2), LastIf("vantages_total", 3)}
    [] t = "AVERAGE" -> {Ge3If("affected", 3), Ge3If("peers_ok", 1),
                         LastIf("vantages_total", 4)}
    [] t = "HIGH"    -> {Eq3If("peers_ok", 0)}

\* Faulty variant: the gates on the mesh size are off by one.
ExpressionLowGate(t) ==
  {Gate} \cup
  CASE t = "INFO"    -> {Eq3If("affected", 1), LastIf("vantages_total", 1)}
    [] t = "WARNING" -> {Eq3If("affected", 2), LastIf("vantages_total", 2)}
    [] t = "AVERAGE" -> {Ge3If("affected", 3), Ge3If("peers_ok", 1),
                         LastIf("vantages_total", 3)}
    [] t = "HIGH"    -> {Eq3If("peers_ok", 0)}

\* The conditions tier t's trigger is the conjunction of.
Expression(t) ==
  {Gate} \cup
  CASE t = "INFO"    -> {Eq3If("affected", 1), LastIf("vantages_total", 2)}
    [] t = "WARNING" -> {Eq3If("affected", 2), LastIf("vantages_total", 3)}
    [] t = "AVERAGE" -> {Ge3If("affected", 3), Ge3If("peers_ok", 1),
                         LastIf("vantages_total", 4)}
    [] t = "HIGH"    -> {Eq3If("peers_ok", 0)}

Holds(t, h) == \A c \in Expression(t) : Meets(h, c)

\* The items tier t's expression reads: a new value of one of them, and only
\* that, has the trigger evaluated.
Referred(t) == {c.item : c \in Expression(t)}

-------------------------------------------------------------------------------
Init ==
  /\ verdict = [v \in Vantages |-> NoData]
  /\ hist = [i \in Items |-> <<>>]
  /\ pending = Items
  /\ stale = FALSE
  /\ tier = [t \in Tiers |-> FALSE]
  /\ unsynced = {}
  /\ changes = 0
  /\ upsets = 0
  /\ fpSeen = FALSE

\* The dpi_probe item of vantage v stores a JSON verdict and its dependent
\* item dpi.verdict takes the code.  The first publication joins the mesh;
\* repeating the code changes nothing here.
Publish(v, code) ==
  /\ verdict[v] # code
  /\ changes < MaxChanges
  /\ changes' = changes + 1
  /\ verdict' = [verdict EXCEPT ![v] = code]
  /\ fpSeen' = (fpSeen \/ code \in Fingerprints)
  /\ UNCHANGED <<hist, pending, stale, tier, unsynced, upsets>>

\* Vantage v is disabled or its item removed: last_foreach no longer sees it.
Leave(v) ==
  /\ verdict[v] # NoData
  /\ changes < MaxChanges
  /\ changes' = changes + 1
  /\ verdict' = [verdict EXCEPT ![v] = NoData]
  /\ UNCHANGED <<hist, pending, stale, tier, unsynced, upsets, fpSeen>>

\* The triggers in ts are evaluated on hist'.  While the stale trigger they
\* depend on is in PROBLEM their state does not change.
Evaluate(ts) ==
  \/ /\ stale'
     /\ unsynced' = unsynced \cup ts
     /\ UNCHANGED tier
  \/ /\ ~stale'
     /\ unsynced' = unsynced \ ts
     /\ tier' = [t \in Tiers |-> IF t \in ts THEN Holds(t, hist') ELSE tier[t]]

\* Calculated item i is due: it takes its value, and the triggers that read
\* it are evaluated.  A value of peers_ok ends nodata().
Sample(i) ==
  /\ i \in pending
  /\ \A j \in pending : <<j, i>> \notin Before
  /\ \/ /\ pending = {i}
        /\ pending' = Items
        /\ changes' = 0
     \/ /\ pending # {i}
        /\ pending' = pending \ {i}
        /\ UNCHANGED changes
  /\ hist' = [hist EXCEPT ![i] = Push(@, Sampled(i), Depth(i))]
  /\ stale' = (stale /\ i # "peers_ok")
  /\ Evaluate({t \in Tiers : i \in Referred(t)})
  /\ UNCHANGED <<verdict, upsets, fpSeen>>

Upset ==
  /\ upsets < MaxUpsets
  /\ upsets' = upsets + 1

\* peers_ok has had no value for {$DPI.NODATA_WINDOW}.
NoDataFires ==
  /\ ~stale
  /\ stale' = TRUE
  /\ Upset
  /\ UNCHANGED <<verdict, hist, pending, tier, unsynced, changes, fpSeen>>

\* An operator closes the problem of tier t, or of the stale trigger, by hand.
CloseTier(t) ==
  /\ tier[t]
  /\ tier' = [tier EXCEPT ![t] = FALSE]
  /\ unsynced' = unsynced \cup {t}
  /\ Upset
  /\ UNCHANGED <<verdict, hist, pending, stale, changes, fpSeen>>

CloseStale ==
  /\ stale
  /\ stale' = FALSE
  /\ Upset
  /\ UNCHANGED <<verdict, hist, pending, tier, unsynced, changes, fpSeen>>

Next ==
  \/ \E v \in Vantages, code \in Reports : Publish(v, code)
  \/ \E v \in Vantages : Leave(v)
  \/ \E i \in Items : Sample(i)
  \/ NoDataFires
  \/ \E t \in Tiers : CloseTier(t)
  \/ CloseStale

Spec == Init /\ [][Next]_vars

\* The server keeps taking the calculated items: their delay is a plain
\* interval, so each of them comes due again and again.
FairSpec == Spec /\ WF_vars(\E i \in Items : Sample(i))

-------------------------------------------------------------------------------
(***************************************************************************)
(* Properties.                                                             *)
(***************************************************************************)

\* Type invariant.
TypeOK ==
  /\ verdict \in [Vantages -> Reports \cup {NoData}]
  /\ hist \in [Items -> Seq(0..4)]
  /\ \A i \in Items : Len(hist[i]) <= Depth(i)
  /\ pending \in (SUBSET Items) \ {{}}
  /\ stale \in BOOLEAN
  /\ tier \in [Tiers -> BOOLEAN]
  /\ unsynced \in SUBSET Tiers
  /\ changes \in 0..MaxChanges
  /\ upsets \in 0..MaxUpsets
  /\ fpSeen \in BOOLEAN

\* "peers_ok >= 1 keeps this distinct from HIGH": the majority and the
\* all-vantages tier are never in PROBLEM together, in any order of samples,
\* with vantages joining and leaving, stale periods and manual closing.
NeverAverageAndHigh == ~(tier["AVERAGE"] /\ tier["HIGH"])

\* The three directional tiers are pairwise exclusive, whatever instants their
\* counts were taken at, unless an evaluation of one of them was suppressed.
DirectionalTiersExclusive ==
  \A s, t \in {"INFO", "WARNING", "AVERAGE"} \ unsynced :
    tier[s] /\ tier[t] => s = t

\* The promise of the discriminator gate: a mesh where no vantage ever saw a
\* DPI fingerprint (dead targets, filtered ports, broken vantages, timeouts)
\* raises no tier at all.
NoFingerprintNoAlert == ~fpSeen => \A t \in Tiers : ~tier[t]

\* Every item has the value it would take now, and had it #3 times.
Settled ==
  \A i \in Items :
    /\ Len(hist[i]) = Depth(i)
    /\ \A k \in 1..Depth(i) : hist[i][k] = Sampled(i)

\* The severity the README's mesh-size table assigns to a mesh of n reporting
\* vantages of which a are not OK and f show a fingerprint.
Ladder(n, a, f) ==
  IF f = 0 THEN {}
  ELSE IF a = n THEN {"HIGH"}
  ELSE IF a = 1 THEN {"INFO"}
  ELSE IF a = 2 THEN {"WARNING"} ELSE {"AVERAGE"}

ActiveTiers == {t \in Tiers : tier[t]}

MeshLadder ==
  Ladder(Cardinality(Counted("vantages_total")), Cardinality(Counted("affected")),
         Cardinality(Counted("discriminator_any")))

\* Once the counts have held for the debounce window, the alert shown is the
\* one of the README's table for the mesh as it is: one tier, the right one,
\* for every mesh size.
SettledShowsLadder ==
  Settled /\ unsynced = {} => ActiveTiers = MeshLadder

\* Whatever happened before (vantages joining, leaving and flapping, a silent
\* aggregator, problems closed by hand): if the verdicts stop changing, the
\* alert becomes the table's for the mesh as it is, and stays.
LadderConverges == <>[][FALSE]_verdict => <>[](ActiveTiers = MeshLadder)

\* The gates "keep the tiers mutually exclusive".
TiersExclusive == \A s, t \in Tiers : tier[s] /\ tier[t] => s = t

\* A vantage whose control probe failed is left out of dpi.affected and
\* dpi.vantages_total: the settled alert is the table's for the vantages that
\* measured the target.
UnavailableExcluded ==
  LET measuring(i) == {v \in Counted(i) : verdict[v] # "VANTAGE_UNAVAILABLE"}
  IN  Settled /\ unsynced = {} =>
        ActiveTiers = Ladder(Cardinality(measuring("vantages_total")),
                             Cardinality(measuring("affected")),
                             Cardinality(measuring("discriminator_any")))
===============================================================================
