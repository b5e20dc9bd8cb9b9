------------------------------ MODULE MeshProofs ------------------------------
(***************************************************************************)
(* Proofs about Mesh, for every finite set of vantages, every alphabet of  *)
(* verdicts, every order of sampling and every value of the bounds.        *)
(***************************************************************************)
EXTENDS Mesh, FiniteSetTheorems, TLAPS

\* A history stays a history of at most d values.
LEMMA PushType ==
  ASSUME NEW S, NEW h \in Seq(S), NEW x \in S, NEW d \in Nat, d > 0, Len(h) <= d
  PROVE  Push(h, x, d) \in Seq(S) /\ Len(Push(h, x, d)) <= d
<1>1. CASE Len(h) < d
  BY <1>1 DEF Push
<1>2. CASE Len(h) = d
  <2>1. Push(h, x, d) = Append(Tail(h), x) BY <1>2 DEF Push
  <2>2. h # <<>> BY <1>2
  <2>3. Tail(h) \in Seq(S) /\ Len(Tail(h)) = Len(h) - 1 BY <2>2
  <2> QED BY <1>2, <2>1, <2>3
<1> QED BY <1>1, <1>2

\* The value pushed is the last one.
LEMMA PushLast ==
  ASSUME NEW S, NEW h \in Seq(S), NEW x \in S, NEW d \in Nat, d > 0, Len(h) <= d
  PROVE  Push(h, x, d)[Len(Push(h, x, d))] = x
<1>1. \A q \in Seq(S) : Append(q, x)[Len(Append(q, x))] = x
  OBVIOUS
<1>2. CASE Len(h) < d
  BY <1>1, <1>2 DEF Push
<1>3. CASE Len(h) = d
  <2>1. h # <<>> BY <1>3
  <2>2. Tail(h) \in Seq(S) BY <2>1
  <2> QED BY <1>1, <1>3, <2>2 DEF Push
<1> QED BY <1>2, <1>3

\* What an item counts is a finite set of vantages.
LEMMA CountedFinite ==
  ASSUME NEW i \in Items
  PROVE  IsFiniteSet(Counted(i)) /\ Cardinality(Counted(i)) \in Nat
<1>1. Counted(i) \subseteq Vantages BY DEF Counted
<1>2. IsFiniteSet(Counted(i)) BY <1>1, VantagesAssumption, FS_Subset
<1> QED BY <1>2, FS_CardinalityType

\* A sampled value stays below the item's cap.
LEMMA SampledType ==
  ASSUME NEW i \in Items
  PROVE  Sampled(i) \in 0..4
<1>1. Cardinality(Counted(i)) \in Nat BY CountedFinite
<1>2. Cap(i) \in 0..4 BY DEF Cap, Items
<1> QED BY <1>1, <1>2 DEF Sampled

LEMMA InitType == Init => TypeOK
<1> SUFFICES ASSUME Init PROVE TypeOK
  OBVIOUS
<1>1. verdict \in [Vantages -> Reports \cup {NoData}] BY DEF Init
<1>2. hist \in [Items -> Seq(0..4)] BY DEF Init
<1>3. \A i \in Items : Len(hist[i]) <= Depth(i) BY DEF Init, Depth
<1>4. pending \in (SUBSET Items) \ {{}} BY DEF Init, Items
<1>5. tier \in [Tiers -> BOOLEAN] BY DEF Init
<1>6. stale \in BOOLEAN /\ unsynced \in SUBSET Tiers /\ fpSeen \in BOOLEAN
  BY DEF Init
<1>7. changes \in 0..MaxChanges /\ upsets \in 0..MaxUpsets
  BY BoundsAssumption DEF Init
<1> QED BY <1>1, <1>2, <1>3, <1>4, <1>5, <1>6, <1>7 DEF TypeOK

\* Sampling an item keeps the histories well formed and bounded.
LEMMA SampleHist ==
  ASSUME TypeOK, NEW i \in Items, Sample(i)
  PROVE  /\ hist' \in [Items -> Seq(0..4)]
         /\ \A j \in Items : Len(hist'[j]) <= Depth(j)
<1> DEFINE p == Push(hist[i], Sampled(i), Depth(i))
<1>1. hist' = [hist EXCEPT ![i] = p] BY DEF Sample
<1>2. Depth(i) \in Nat /\ Depth(i) > 0 BY DEF Depth
<1>3. hist[i] \in Seq(0..4) /\ Len(hist[i]) <= Depth(i) BY DEF TypeOK
<1>4. p \in Seq(0..4) /\ Len(p) <= Depth(i)
  BY <1>2, <1>3, SampledType, PushType
<1> QED BY <1>1, <1>4 DEF TypeOK

LEMMA EvaluateType ==
  ASSUME TypeOK, NEW ts \in SUBSET Tiers, Evaluate(ts)
  PROVE  tier' \in [Tiers -> BOOLEAN] /\ unsynced' \in SUBSET Tiers
<1>1. CASE stale' BY <1>1 DEF Evaluate, TypeOK
<1>2. CASE ~stale'
  <2>1. \A t \in Tiers : Holds(t, hist') \in BOOLEAN
    BY DEF Holds
  <2> QED BY <1>2, <2>1 DEF Evaluate, TypeOK
<1> QED BY <1>1, <1>2

LEMMA UpsetType == TypeOK /\ Upset => upsets' \in 0..MaxUpsets
BY BoundsAssumption DEF TypeOK, Upset

LEMMA NextType == TypeOK /\ [Next]_vars => TypeOK'
<1> SUFFICES ASSUME TypeOK, [Next]_vars PROVE TypeOK'
  OBVIOUS
<1>1. ASSUME NEW v \in Vantages, NEW code \in Reports, Publish(v, code)
      PROVE  TypeOK'
  BY <1>1, BoundsAssumption DEF Publish, TypeOK
<1>2. ASSUME NEW v \in Vantages, Leave(v) PROVE TypeOK'
  BY <1>2, BoundsAssumption DEF Leave, TypeOK
<1>3. ASSUME NEW i \in Items, Sample(i) PROVE TypeOK'
  <2>1. /\ pending' \in (SUBSET Items) \ {{}}
        /\ changes' \in 0..MaxChanges
    <3>1. CASE pending = {i}
      <4>1. pending' = Items /\ changes' = 0 BY <1>3, <3>1 DEF Sample
      <4>2. Items # {} BY DEF Items
      <4> QED BY <4>1, <4>2, BoundsAssumption
    <3>2. CASE pending # {i}
      <4>1. pending' = pending \ {i} /\ changes' = changes
        BY <1>3, <3>2 DEF Sample
      <4>2. i \in pending /\ pending \in SUBSET Items /\ changes \in 0..MaxChanges
        BY <1>3 DEF Sample, TypeOK
      <4>3. pending \ {i} # {} BY <3>2, <4>2
      <4> QED BY <4>1, <4>2, <4>3
    <3> QED BY <3>1, <3>2
  <2>2. stale' \in BOOLEAN BY <1>3 DEF Sample, TypeOK
  <2>3. tier' \in [Tiers -> BOOLEAN] /\ unsynced' \in SUBSET Tiers
    BY <1>3, EvaluateType DEF Sample
  <2>4. UNCHANGED <<verdict, upsets, fpSeen>> BY <1>3 DEF Sample
  <2> QED BY <1>3, <2>1, <2>2, <2>3, <2>4, SampleHist DEF TypeOK
<1>4. CASE NoDataFires
  BY <1>4, UpsetType DEF NoDataFires, TypeOK
<1>5. ASSUME NEW t \in Tiers, CloseTier(t) PROVE TypeOK'
  <2>1. tier' \in [Tiers -> BOOLEAN] /\ unsynced' \in SUBSET Tiers
    BY <1>5 DEF CloseTier, TypeOK
  <2>2. upsets' \in 0..MaxUpsets BY <1>5, UpsetType DEF CloseTier
  <2> QED BY <1>5, <2>1, <2>2 DEF CloseTier, TypeOK
<1>6. CASE CloseStale
  BY <1>6, UpsetType DEF CloseStale, TypeOK
<1>7. CASE UNCHANGED vars
  BY <1>7 DEF vars, TypeOK
<1> QED BY <1>1, <1>2, <1>3, <1>4, <1>5, <1>6, <1>7 DEF Next

\* The type invariant holds in every instance.
THEOREM TypeCorrect == Spec => []TypeOK
BY InitType, NextType, PTL DEF Spec

-------------------------------------------------------------------------------
(***************************************************************************)
(* A trigger's state against the histories it was evaluated on.            *)
(***************************************************************************)

\* Every tier's expression, written out.
LEMMA HoldsOf ==
  ASSUME NEW h
  PROVE  /\ Holds("INFO", h) <=>
              /\ LastGe(h, "discriminator_any", 1)
              /\ Eq3(h, "affected", 1) /\ LastGe(h, "vantages_total", 2)
         /\ Holds("WARNING", h) <=>
              /\ LastGe(h, "discriminator_any", 1)
              /\ Eq3(h, "affected", 2) /\ LastGe(h, "vantages_total", 3)
         /\ Holds("AVERAGE", h) <=>
              /\ LastGe(h, "discriminator_any", 1)
              /\ Ge3(h, "affected", 3) /\ Ge3(h, "peers_ok", 1)
              /\ LastGe(h, "vantages_total", 4)
         /\ Holds("HIGH", h) <=>
              LastGe(h, "discriminator_any", 1) /\ Eq3(h, "peers_ok", 0)
<1>1. \A i, n : /\ Meets(h, Eq3If(i, n)) <=> Eq3(h, i, n)
                /\ Meets(h, Ge3If(i, n)) <=> Ge3(h, i, n)
                /\ Meets(h, LastIf(i, n)) <=> LastGe(h, i, n)
  BY DEF Meets, Eq3If, Ge3If, LastIf, Eq3, Ge3, LastGe
<1>2. /\ Expression("INFO") =
           {Gate, Eq3If("affected", 1), LastIf("vantages_total", 2)}
      /\ Expression("WARNING") =
           {Gate, Eq3If("affected", 2), LastIf("vantages_total", 3)}
      /\ Expression("AVERAGE") =
           {Gate, Ge3If("affected", 3), Ge3If("peers_ok", 1),
            LastIf("vantages_total", 4)}
      /\ Expression("HIGH") = {Gate, Eq3If("peers_ok", 0)}
  BY DEF Expression
<1>3. Meets(h, Gate) <=> LastGe(h, "discriminator_any", 1) BY <1>1 DEF Gate
<1> QED BY <1>1, <1>2, <1>3 DEF Holds

\* The items each of them reads.
LEMMA ReferredOf ==
  /\ Referred("INFO") = {"affected", "vantages_total", "discriminator_any"}
  /\ Referred("WARNING") = {"affected", "vantages_total", "discriminator_any"}
  /\ Referred("AVERAGE") = Items
  /\ Referred("HIGH") = {"peers_ok", "discriminator_any"}
BY DEF Referred, Expression, Gate, Eq3If, Ge3If, LastIf, Items

LEMMA ReferredItems == \A t \in Tiers : Referred(t) \subseteq Items
BY ReferredOf DEF Items, Tiers

\* An expression only depends on the items it refers to.
LEMMA HoldsDependsOnReferred ==
  ASSUME NEW t, NEW g, NEW h, \A i \in Referred(t) : g[i] = h[i]
  PROVE  Holds(t, g) <=> Holds(t, h)
<1>1. ASSUME NEW c \in Expression(t) PROVE Meets(g, c) <=> Meets(h, c)
  <2>1. g[c.item] = h[c.item] BY DEF Referred
  <2> QED BY <2>1 DEF Meets, Eq3, Ge3, LastGe
<1> QED BY <1>1 DEF Holds

\* A tier whose last evaluation was not suppressed is in PROBLEM exactly when
\* its expression holds of the recorded histories.
TiersTrackHistory ==
  \A t \in Tiers \ unsynced : tier[t] <=> Holds(t, hist)

LEMMA TrackSample ==
  ASSUME TypeOK, TiersTrackHistory, NEW i \in Items, Sample(i)
  PROVE  TiersTrackHistory'
<1> DEFINE ts == {t \in Tiers : i \in Referred(t)}
<1>1. Evaluate(ts) BY DEF Sample
<1> SUFFICES ASSUME NEW t \in Tiers, t \notin unsynced'
             PROVE  tier'[t] <=> Holds(t, hist')
  BY DEF TiersTrackHistory
<1>2. CASE t \in ts
  <2>1. ~stale' BY <1>1, <1>2 DEF Evaluate
  <2> QED BY <1>1, <1>2, <2>1 DEF Evaluate
<1>3. CASE t \notin ts
  <2>1. tier'[t] = tier[t] /\ t \notin unsynced
    BY <1>1, <1>3 DEF Evaluate, TypeOK
  <2>2. \A j \in Referred(t) : hist'[j] = hist[j]
    <3>1. Referred(t) \subseteq Items BY ReferredItems
    <3>2. i \notin Referred(t) BY <1>3
    <3>3. \A j \in Items \ {i} : hist'[j] = hist[j] BY DEF Sample, TypeOK
    <3> QED BY <3>1, <3>2, <3>3
  <2>3. Holds(t, hist') <=> Holds(t, hist)
    BY <2>2, HoldsDependsOnReferred
  <2> QED BY <2>1, <2>3 DEF TiersTrackHistory
<1> QED BY <1>2, <1>3

LEMMA TrackNext ==
  TypeOK /\ TiersTrackHistory /\ [Next]_vars => TiersTrackHistory'
<1> SUFFICES ASSUME TypeOK, TiersTrackHistory, [Next]_vars
             PROVE  TiersTrackHistory'
  OBVIOUS
<1>1. ASSUME NEW i \in Items, Sample(i) PROVE TiersTrackHistory'
  BY <1>1, TrackSample
<1>2. ASSUME NEW t \in Tiers, CloseTier(t) PROVE TiersTrackHistory'
  BY <1>2 DEF CloseTier, TypeOK, TiersTrackHistory
<1>3. ASSUME NEW v \in Vantages, NEW code \in Reports, Publish(v, code)
      PROVE  TiersTrackHistory'
  BY <1>3 DEF Publish, TiersTrackHistory
<1>4. ASSUME NEW v \in Vantages, Leave(v) PROVE TiersTrackHistory'
  BY <1>4 DEF Leave, TiersTrackHistory
<1>5. CASE NoDataFires \/ CloseStale
  BY <1>5 DEF NoDataFires, CloseStale, TiersTrackHistory
<1>6. CASE UNCHANGED vars
  BY <1>6 DEF vars, TiersTrackHistory
<1> QED BY <1>1, <1>2, <1>3, <1>4, <1>5, <1>6 DEF Next

LEMMA TrackInit == Init => TiersTrackHistory
<1> SUFFICES ASSUME Init, NEW t \in Tiers PROVE tier[t] <=> Holds(t, hist)
  BY DEF TiersTrackHistory
<1>1. hist["discriminator_any"] = <<>> BY DEF Init, Items
<1>2. ~LastGe(hist, "discriminator_any", 1) BY <1>1 DEF LastGe
<1>3. ~Holds(t, hist) BY <1>2, HoldsOf DEF Tiers
<1> QED BY <1>3 DEF Init

\* An unsuppressed trigger shows what the recorded histories say.
LEMMA TiersTrackHistoryCorrect == Spec => []TiersTrackHistory
<1>1. TypeOK /\ TiersTrackHistory /\ [Next]_vars => TiersTrackHistory'
  BY TrackNext
<1> QED BY <1>1, TrackInit, TypeCorrect, PTL DEF Spec

-------------------------------------------------------------------------------
(***************************************************************************)
(* Exclusive tiers.                                                        *)
(***************************************************************************)

\* Three of the tiers read the same count and compare it with 1, 2 and >= 3,
\* so no history satisfies two of them: tracking the history is enough.
THEOREM DirectionalTiersExclusiveCorrect == Spec => []DirectionalTiersExclusive
<1>1. TiersTrackHistory => DirectionalTiersExclusive
  <2> SUFFICES ASSUME TiersTrackHistory,
                      NEW s \in {"INFO", "WARNING", "AVERAGE"} \ unsynced,
                      NEW t \in {"INFO", "WARNING", "AVERAGE"} \ unsynced,
                      tier[s], tier[t]
               PROVE  s = t
    BY DEF DirectionalTiersExclusive
  <2>1. Holds(s, hist) /\ Holds(t, hist) BY DEF TiersTrackHistory, Tiers
  <2> DEFINE a == hist["affected"][3]
  <2>2. ASSUME NEW u \in {"INFO", "WARNING", "AVERAGE"}, Holds(u, hist)
        PROVE  u = IF a = 1 THEN "INFO" ELSE IF a = 2 THEN "WARNING" ELSE "AVERAGE"
    <3>1. u = "INFO" => a = 1 BY <2>2, HoldsOf DEF Eq3
    <3>2. u = "WARNING" => a = 2 BY <2>2, HoldsOf DEF Eq3
    <3>3. u = "AVERAGE" => a >= 3 BY <2>2, HoldsOf DEF Ge3
    <3> QED BY <3>1, <3>2, <3>3
  <2> QED BY <2>1, <2>2
<1> QED BY <1>1, TiersTrackHistoryCorrect, PTL

\* A tier closed by hand or left over from a stale period no longer follows
\* its expression.  HIGH and AVERAGE still contradict each other: both read
\* peers_ok, whose new value ends the stale period and so always has both
\* evaluated, which makes the following invariant inductive.
PeersOkWitness ==
  /\ tier["HIGH"] => Eq3(hist, "peers_ok", 0)
  /\ tier["AVERAGE"] => Ge3(hist, "peers_ok", 1)

LEMMA WitnessSample ==
  ASSUME TypeOK, PeersOkWitness, NEW i \in Items, Sample(i)
  PROVE  PeersOkWitness'
<1> DEFINE ts == {t \in Tiers : i \in Referred(t)}
<1>1. Evaluate(ts) BY DEF Sample
<1>2. \A t \in ts : ~stale' => (tier'[t] <=> Holds(t, hist'))
  BY <1>1 DEF Evaluate
<1>3. \A t \in Tiers : stale' \/ t \notin ts => tier'[t] = tier[t]
  BY <1>1 DEF Evaluate, TypeOK
<1>4. Holds("HIGH", hist') => Eq3(hist', "peers_ok", 0) BY HoldsOf
<1>5. Holds("AVERAGE", hist') => Ge3(hist', "peers_ok", 1) BY HoldsOf
<1>6. CASE i = "peers_ok"
  <2>1. ~stale' BY <1>6 DEF Sample
  <2>2. "HIGH" \in ts /\ "AVERAGE" \in ts
    BY <1>6, ReferredOf DEF Items, Tiers
  <2> QED BY <1>2, <1>4, <1>5, <2>1, <2>2 DEF PeersOkWitness
<1>7. CASE i # "peers_ok"
  <2>1. hist'["peers_ok"] = hist["peers_ok"]
    BY <1>7 DEF Sample, TypeOK, Items
  <2>2. Eq3(hist, "peers_ok", 0) => Eq3(hist', "peers_ok", 0) BY <2>1 DEF Eq3
  <2>3. Ge3(hist, "peers_ok", 1) => Ge3(hist', "peers_ok", 1) BY <2>1 DEF Ge3
  <2>4. "HIGH" \in Tiers /\ "AVERAGE" \in Tiers BY DEF Tiers
  <2>5. tier'["HIGH"] => Eq3(hist', "peers_ok", 0)
    BY <1>2, <1>3, <1>4, <2>2, <2>4 DEF PeersOkWitness
  <2>6. tier'["AVERAGE"] => Ge3(hist', "peers_ok", 1)
    BY <1>2, <1>3, <1>5, <2>3, <2>4 DEF PeersOkWitness
  <2> QED BY <2>5, <2>6 DEF PeersOkWitness
<1> QED BY <1>6, <1>7

LEMMA WitnessNext == TypeOK /\ PeersOkWitness /\ [Next]_vars => PeersOkWitness'
<1> SUFFICES ASSUME TypeOK, PeersOkWitness, [Next]_vars PROVE PeersOkWitness'
  OBVIOUS
<1>1. ASSUME NEW i \in Items, Sample(i) PROVE PeersOkWitness'
  BY <1>1, WitnessSample
<1>2. ASSUME NEW t \in Tiers, CloseTier(t) PROVE PeersOkWitness'
  <2>1. hist' = hist /\ \A s \in Tiers : tier'[s] => tier[s]
    BY <1>2 DEF CloseTier, TypeOK
  <2> QED BY <2>1 DEF PeersOkWitness, Eq3, Ge3, Tiers
<1>3. ASSUME UNCHANGED <<hist, tier>> PROVE PeersOkWitness'
  BY <1>3 DEF PeersOkWitness, Eq3, Ge3
<1>4. CASE \E v \in Vantages, code \in Reports : Publish(v, code)
  BY <1>3, <1>4 DEF Publish
<1>5. CASE \E v \in Vantages : Leave(v)
  BY <1>3, <1>5 DEF Leave
<1>6. CASE NoDataFires \/ CloseStale
  BY <1>3, <1>6 DEF NoDataFires, CloseStale
<1>7. CASE UNCHANGED vars
  BY <1>3, <1>7 DEF vars
<1> QED BY <1>1, <1>2, <1>4, <1>5, <1>6, <1>7 DEF Next

\* "Majority" and "all vantages" are never shown together.
THEOREM NeverAverageAndHighCorrect == Spec => []NeverAverageAndHigh
<1>1. Init => PeersOkWitness BY DEF Init, PeersOkWitness, Tiers
<1>2. PeersOkWitness => NeverAverageAndHigh
  BY DEF PeersOkWitness, NeverAverageAndHigh, Eq3, Ge3
<1> QED BY <1>1, <1>2, WitnessNext, TypeCorrect, PTL DEF Spec

-------------------------------------------------------------------------------
(***************************************************************************)
(* No fingerprint, no alert.                                               *)
(***************************************************************************)

\* As long as no fingerprint was published, none is on record, no count of
\* them was positive, and the gate on that count kept every tier down.
FingerprintFree ==
  ~fpSeen =>
    /\ \A v \in Vantages : verdict[v] \notin Fingerprints
    /\ ~LastGe(hist, "discriminator_any", 1)
    /\ \A t \in Tiers : ~tier[t]

LEMMA FingerprintFreeInit == Init => FingerprintFree
<1> SUFFICES ASSUME Init PROVE FingerprintFree
  OBVIOUS
<1>1. \A v \in Vantages : verdict[v] \notin Fingerprints
  BY DEF Init, NoData, Fingerprints
<1>2. hist["discriminator_any"] = <<>> BY DEF Init, Items
<1>3. ~LastGe(hist, "discriminator_any", 1) BY <1>2 DEF LastGe
<1> QED BY <1>1, <1>3 DEF Init, FingerprintFree

LEMMA FingerprintFreeSample ==
  ASSUME TypeOK, FingerprintFree, NEW i \in Items, Sample(i)
  PROVE  FingerprintFree'
<1> SUFFICES ASSUME ~fpSeen
             PROVE  /\ \A v \in Vantages : verdict'[v] \notin Fingerprints
                    /\ ~LastGe(hist', "discriminator_any", 1)
                    /\ \A t \in Tiers : ~tier'[t]
  BY DEF FingerprintFree, Sample
<1>1. \A v \in Vantages : verdict[v] \notin Fingerprints BY DEF FingerprintFree
<1>2. verdict' = verdict BY DEF Sample
<1>3. ~LastGe(hist', "discriminator_any", 1)
  <2>1. CASE i = "discriminator_any"
    <3>1. Counted(i) = {} BY <1>1, <2>1 DEF Counted
    <3>2. Cardinality(Counted(i)) = 0 BY <3>1, FS_EmptySet
    <3>3. Cap(i) = 1 /\ Depth(i) = 1 BY <2>1 DEF Cap, Depth
    <3>4. Sampled(i) = 0 BY <3>2, <3>3 DEF Sampled
    <3>5. hist'[i] = Push(hist[i], 0, 1) BY <3>3, <3>4 DEF Sample, TypeOK
    <3>6. hist[i] \in Seq(0..4) /\ Len(hist[i]) <= 1 BY <3>3 DEF TypeOK
    <3>7. 0 \in 0..4 /\ 1 \in Nat /\ 1 > 0 OBVIOUS
    <3>8. Push(hist[i], 0, 1)[Len(Push(hist[i], 0, 1))] = 0
      BY <3>6, <3>7, PushLast
    <3>9. hist'[i][Len(hist'[i])] = 0 BY <3>5, <3>8
    <3> QED BY <2>1, <3>9 DEF LastGe
  <2>2. CASE i # "discriminator_any"
    <3>1. hist'["discriminator_any"] = hist["discriminator_any"]
      BY <2>2 DEF Sample, TypeOK, Items
    <3> QED BY <3>1 DEF FingerprintFree, LastGe
  <2> QED BY <2>1, <2>2
<1>4. \A t \in Tiers : ~Holds(t, hist') BY <1>3, HoldsOf DEF Tiers
<1>5. \A t \in Tiers : ~tier'[t]
  BY <1>4 DEF Sample, Evaluate, FingerprintFree
<1> QED BY <1>1, <1>2, <1>3, <1>5

LEMMA FingerprintFreeNext ==
  TypeOK /\ FingerprintFree /\ [Next]_vars => FingerprintFree'
<1> SUFFICES ASSUME TypeOK, FingerprintFree, [Next]_vars PROVE FingerprintFree'
  OBVIOUS
<1>1. ASSUME NEW i \in Items, Sample(i) PROVE FingerprintFree'
  BY <1>1, FingerprintFreeSample
<1>2. ASSUME NEW t \in Tiers, CloseTier(t) PROVE FingerprintFree'
  BY <1>2 DEF CloseTier, FingerprintFree, TypeOK, LastGe
<1>3. ASSUME NEW v \in Vantages, NEW code \in Reports, Publish(v, code)
      PROVE  FingerprintFree'
  <2>1. ~fpSeen' => ~fpSeen /\ code \notin Fingerprints BY <1>3 DEF Publish
  <2>2. \A w \in Vantages : verdict'[w] = IF w = v THEN code ELSE verdict[w]
    BY <1>3 DEF Publish, TypeOK
  <2> QED BY <1>3, <2>1, <2>2 DEF Publish, FingerprintFree, LastGe
<1>4. ASSUME NEW v \in Vantages, Leave(v) PROVE FingerprintFree'
  <2>1. \A w \in Vantages : verdict'[w] = IF w = v THEN NoData ELSE verdict[w]
    BY <1>4 DEF Leave, TypeOK
  <2>2. NoData \notin Fingerprints BY DEF NoData, Fingerprints
  <2> QED BY <1>4, <2>1, <2>2 DEF Leave, FingerprintFree, LastGe
<1>5. CASE NoDataFires \/ CloseStale
  BY <1>5 DEF NoDataFires, CloseStale, FingerprintFree, LastGe
<1>6. CASE UNCHANGED vars
  BY <1>6 DEF vars, FingerprintFree, LastGe
<1> QED BY <1>1, <1>2, <1>3, <1>4, <1>5, <1>6 DEF Next

\* A mesh that never saw a DPI fingerprint never alerts.
THEOREM NoFingerprintNoAlertCorrect == Spec => []NoFingerprintNoAlert
<1>1. FingerprintFree => NoFingerprintNoAlert
  BY DEF FingerprintFree, NoFingerprintNoAlert
<1> QED BY <1>1, FingerprintFreeInit, FingerprintFreeNext, TypeCorrect, PTL DEF Spec

-------------------------------------------------------------------------------
(***************************************************************************)
(* The severity ladder for every size of mesh.                             *)
(***************************************************************************)

\* Every reporting vantage is OK or affected, and a fingerprint affects it.
LEMMA CountsAddUp ==
  /\ Cardinality(Counted("vantages_total")) =
       Cardinality(Counted("affected")) + Cardinality(Counted("peers_ok"))
  /\ Cardinality(Counted("discriminator_any")) <= Cardinality(Counted("affected"))
<1> DEFINE T == Counted("vantages_total")  A == Counted("affected")
           O == Counted("peers_ok")        D == Counted("discriminator_any")
<1>1. T = A \cup O /\ A \cap O = {} BY DEF Counted
<1>2. D \subseteq A BY DEF Counted, Fingerprints
<1>3. IsFiniteSet(A) /\ IsFiniteSet(O) BY CountedFinite DEF Items
<1>4. Cardinality(A) \in Nat /\ Cardinality(O) \in Nat
  BY CountedFinite DEF Items
<1>5. Cardinality(T) = Cardinality(A) + Cardinality(O)
  <2>1. Cardinality(A \cup O) =
          Cardinality(A) + Cardinality(O) - Cardinality(A \cap O)
    BY <1>3, FS_Union
  <2>2. Cardinality(A \cap O) = 0 BY <1>1, FS_EmptySet
  <2> QED BY <1>1, <1>4, <2>1, <2>2
<1>6. Cardinality(D) <= Cardinality(A) BY <1>2, <1>3, FS_Subset
<1> QED BY <1>5, <1>6

\* With every sample equal to the present counts, the four expressions select
\* the row of the table, whatever the size of the mesh.
LEMMA SettledSelectsRow ==
  ASSUME Settled
  PROVE  {t \in Tiers : Holds(t, hist)} = MeshLadder
<1> DEFINE n == Cardinality(Counted("vantages_total"))
           a == Cardinality(Counted("affected"))
           o == Cardinality(Counted("peers_ok"))
           f == Cardinality(Counted("discriminator_any"))
<1>1. n \in Nat /\ a \in Nat /\ o \in Nat /\ f \in Nat
  BY CountedFinite DEF Items
<1>2. n = a + o /\ f <= a BY CountsAddUp
<1>3. /\ Sampled("affected") = IF a < 3 THEN a ELSE 3
      /\ Sampled("peers_ok") = IF o < 1 THEN o ELSE 1
      /\ Sampled("vantages_total") = IF n < 4 THEN n ELSE 4
      /\ Sampled("discriminator_any") = IF f < 1 THEN f ELSE 1
  BY DEF Sampled, Cap
<1>4. /\ Len(hist["affected"]) = 3 /\ Len(hist["peers_ok"]) = 3
      /\ Len(hist["vantages_total"]) = 1 /\ Len(hist["discriminator_any"]) = 1
      /\ \A k \in 1..3 : hist["affected"][k] = Sampled("affected")
      /\ \A k \in 1..3 : hist["peers_ok"][k] = Sampled("peers_ok")
      /\ hist["vantages_total"][1] = Sampled("vantages_total")
      /\ hist["discriminator_any"][1] = Sampled("discriminator_any")
  BY DEF Settled, Depth, Items
<1>5. LastGe(hist, "discriminator_any", 1) <=> f >= 1
  BY <1>1, <1>3, <1>4 DEF LastGe
<1>6. \A m \in {2, 3, 4} : LastGe(hist, "vantages_total", m) <=> n >= m
  BY <1>1, <1>3, <1>4 DEF LastGe
<1>7. /\ \A m \in {1, 2} : Eq3(hist, "affected", m) <=> a = m
      /\ Ge3(hist, "affected", 3) <=> a >= 3
  BY <1>1, <1>3, <1>4 DEF Eq3, Ge3
<1>8. /\ Eq3(hist, "peers_ok", 0) <=> o = 0
      /\ Ge3(hist, "peers_ok", 1) <=> o >= 1
  BY <1>1, <1>3, <1>4 DEF Eq3, Ge3
<1>9. /\ Holds("INFO", hist) <=> f >= 1 /\ a = 1 /\ n >= 2
      /\ Holds("WARNING", hist) <=> f >= 1 /\ a = 2 /\ n >= 3
      /\ Holds("AVERAGE", hist) <=> f >= 1 /\ a >= 3 /\ o >= 1 /\ n >= 4
      /\ Holds("HIGH", hist) <=> f >= 1 /\ o = 0
  BY <1>5, <1>6, <1>7, <1>8, HoldsOf
<1>10. MeshLadder = Ladder(n, a, f) BY DEF MeshLadder
<1>11. CASE f = 0
  <2>1. \A t \in Tiers : ~Holds(t, hist) BY <1>9, <1>11 DEF Tiers
  <2> QED BY <1>10, <1>11, <2>1 DEF Ladder
<1>12. CASE f >= 1 /\ o = 0
  <2>1. /\ Holds("HIGH", hist) /\ ~Holds("AVERAGE", hist)
        /\ ~Holds("WARNING", hist) /\ ~Holds("INFO", hist)
    BY <1>1, <1>2, <1>9, <1>12
  <2>2. Ladder(n, a, f) = {"HIGH"} BY <1>1, <1>2, <1>12 DEF Ladder
  <2> QED BY <1>10, <2>1, <2>2 DEF Tiers
<1>13. CASE f >= 1 /\ o >= 1
  <2>1. a >= 1 /\ a # n BY <1>1, <1>2, <1>13
  <2>2. CASE a = 1
    <3>1. Ladder(n, a, f) = {"INFO"} BY <1>13, <2>1, <2>2 DEF Ladder
    <3> QED BY <1>1, <1>2, <1>9, <1>10, <1>13, <2>2, <3>1 DEF Tiers
  <2>3. CASE a = 2
    <3>1. Ladder(n, a, f) = {"WARNING"} BY <1>13, <2>1, <2>3 DEF Ladder
    <3> QED BY <1>1, <1>2, <1>9, <1>10, <1>13, <2>3, <3>1 DEF Tiers
  <2>4. CASE a >= 3
    <3>1. Ladder(n, a, f) = {"AVERAGE"}
      BY <1>1, <1>13, <2>1, <2>4 DEF Ladder
    <3> QED BY <1>1, <1>2, <1>9, <1>10, <1>13, <2>4, <3>1 DEF Tiers
  <2> QED BY <1>1, <2>1, <2>2, <2>3, <2>4
<1> QED BY <1>1, <1>11, <1>12, <1>13

LEMMA TrackingShowsLadder == TiersTrackHistory /\ TypeOK => SettledShowsLadder
<1> SUFFICES ASSUME TiersTrackHistory, TypeOK, Settled, unsynced = {}
             PROVE  ActiveTiers = MeshLadder
  BY DEF SettledShowsLadder
<1>1. \A t \in Tiers : tier[t] <=> Holds(t, hist) BY DEF TiersTrackHistory
<1> QED BY <1>1, SettledSelectsRow DEF ActiveTiers

\* A settled mesh of any size shows the README table's alert and no other.
THEOREM SettledShowsLadderCorrect == Spec => []SettledShowsLadder
BY TrackingShowsLadder, TiersTrackHistoryCorrect, TypeCorrect, PTL

\* A vantage whose control probe failed is all that keeps UnavailableExcluded from
\* holding: while none says so, the settled alert is the table's.
THEOREM OnlyUnavailableCounts ==
  Spec => []((\A v \in Vantages : verdict[v] # "VANTAGE_UNAVAILABLE") =>
               UnavailableExcluded)
<1>1. ASSUME SettledShowsLadder, \A v \in Vantages : verdict[v] # "VANTAGE_UNAVAILABLE"
      PROVE  UnavailableExcluded
  <2> DEFINE measuring(i) == {v \in Counted(i) : verdict[v] # "VANTAGE_UNAVAILABLE"}
  <2>1. \A i : measuring(i) = Counted(i)
    BY <1>1 DEF Counted
  <2>2. MeshLadder = Ladder(Cardinality(measuring("vantages_total")),
                            Cardinality(measuring("affected")),
                            Cardinality(measuring("discriminator_any")))
    BY <2>1 DEF MeshLadder
  <2> QED BY <1>1, <2>2 DEF SettledShowsLadder, UnavailableExcluded
<1> QED BY <1>1, SettledShowsLadderCorrect, PTL

-------------------------------------------------------------------------------
(***************************************************************************)
(* Towards the ladder: what LadderConverges needs beside fairness.         *)
(***************************************************************************)

\* The last k values of h are x.
EndsIn(h, k, x) ==
  k <= Len(h) /\ \A m \in 1..Len(h) : m + k > Len(h) => h[m] = x

\* The last k values of item i are the one it would take now.
Agree(i, k) == EndsIn(hist[i], k, Sampled(i))

\* While no verdict changes, what agrees goes on to agree, and every sample of an
\* item that does not agree yet in all the values kept makes one more agree.
AgreementGrows ==
  [][verdict' = verdict =>
       \A i \in Items, k \in 0..3 : k <= Depth(i) /\ Agree(i, k) =>
         /\ Agree(i, k)'
         /\ Sample(i) /\ k < Depth(i) => Agree(i, k + 1)']_vars

LEMMA AgreedIsSettled ==
  TypeOK => (Settled <=> \A i \in Items : Agree(i, Depth(i)))
<1> SUFFICES ASSUME TypeOK, NEW i \in Items
             PROVE  Agree(i, Depth(i)) <=>
                      /\ Len(hist[i]) = Depth(i)
                      /\ \A k \in 1..Depth(i) : hist[i][k] = Sampled(i)
  BY DEF Settled
<1>1. Len(hist[i]) \in Nat /\ Len(hist[i]) <= Depth(i) BY DEF TypeOK
<1>2. Depth(i) \in 1..3 BY DEF Depth
<1> QED BY <1>1, <1>2 DEF Agree, EndsIn

\* One value more, where the history is what Push makes of it.
LEMMA PushAgrees ==
  ASSUME NEW S, NEW h \in Seq(S), NEW x \in S, NEW d \in {1, 3}, Len(h) <= d,
         NEW k \in 0..3, EndsIn(h, k, x), NEW l \in {k, k + 1}, l <= d
  PROVE  EndsIn(Push(h, x, d), l, x)
<1> USE DEF EndsIn
<1> DEFINE p == Push(h, x, d)
<1>1. CASE Len(h) < d
  <2>1. p = Append(h, x) /\ Len(p) = Len(h) + 1 BY <1>1 DEF Push
  <2>2. p[Len(h) + 1] = x /\ \A m \in 1..Len(h) : p[m] = h[m] BY <2>1
  <2> QED BY <2>1, <2>2
<1>2. CASE Len(h) = d
  <2>1. h # <<>> BY <1>2
  <2>2. Tail(h) \in Seq(S) /\ Len(Tail(h)) = d - 1 BY <1>2, <2>1
  <2>3. p = Append(Tail(h), x) /\ Len(p) = d BY <1>2, <2>2 DEF Push
  <2>4. p[d] = x BY <2>2, <2>3
  <2>5. \A m \in 1..(d - 1) : p[m] = h[m + 1] BY <1>2, <2>1, <2>2, <2>3
  <2>6. \A m \in 1..(d - 1) : m + l > d => h[m + 1] = x BY <1>2
  <2> QED BY <2>3, <2>4, <2>5, <2>6
<1> QED BY <1>1, <1>2

LEMMA AgreeSample ==
  ASSUME TypeOK, NEW i \in Items, NEW k \in 0..3, k <= Depth(i), Agree(i, k),
         NEW j \in Items, Sample(j)
  PROVE  /\ Agree(i, k)'
         /\ i = j /\ k < Depth(i) => Agree(i, k + 1)'
<1>1. Sampled(i)' = Sampled(i) BY DEF Sample, Sampled, Counted
<1>2. CASE i # j
  <2>1. hist'[i] = hist[i] BY <1>2 DEF Sample, TypeOK
  <2> QED BY <1>1, <1>2, <2>1 DEF Agree
<1>3. CASE i = j
  <2>1. hist'[i] = Push(hist[i], Sampled(i), Depth(i)) BY <1>3 DEF Sample, TypeOK
  <2>2. /\ hist[i] \in Seq(0..4) /\ Len(hist[i]) <= Depth(i)
        /\ Sampled(i) \in 0..4 /\ Depth(i) \in {1, 3}
    BY SampledType DEF TypeOK, Depth
  <2>3. ASSUME NEW l \in {k, k + 1}, l <= Depth(i) PROVE Agree(i, l)'
    <3>1. EndsIn(Push(hist[i], Sampled(i), Depth(i)), l, Sampled(i))
      BY <2>2, <2>3, PushAgrees DEF Agree
    <3> QED BY <1>1, <2>1, <3>1 DEF Agree
  <2> QED BY <2>2, <2>3
<1> QED BY <1>2, <1>3

\* For meshes of any size, and with any other event in between.
THEOREM AgreementGrowsCorrect == Spec => AgreementGrows
<1>1. ASSUME TypeOK, [Next]_vars, verdict' = verdict,
             NEW i \in Items, NEW k \in 0..3, k <= Depth(i), Agree(i, k)
      PROVE  /\ Agree(i, k)'
             /\ Sample(i) /\ k < Depth(i) => Agree(i, k + 1)'
  <2>1. CASE \E j \in Items : Sample(j)
    BY <1>1, <2>1, AgreeSample
  <2>2. CASE hist' = hist /\ ~ \E j \in Items : Sample(j)
    BY <1>1, <2>2 DEF Agree, Sampled, Counted
  <2>3. hist' = hist \/ \E j \in Items : Sample(j)
    BY <1>1 DEF Next, Publish, Leave, NoDataFires, CloseTier, CloseStale, vars
  <2> QED BY <2>1, <2>2, <2>3
<1>2. TypeOK /\ [Next]_vars
      => [verdict' = verdict =>
            \A i \in Items, k \in 0..3 : k <= Depth(i) /\ Agree(i, k) =>
              /\ Agree(i, k)'
              /\ Sample(i) /\ k < Depth(i) => Agree(i, k + 1)']_vars
  BY <1>1
<1> QED BY <1>2, TypeCorrect, PTL DEF Spec, AgreementGrows

\* Tier t shows what the table says.
Right(t) == tier[t] <=> t \in MeshLadder

\* A settled mesh stays settled while no verdict changes; unless an operator
\* interferes a tier that is right stays right, although suppressed or not
\* evaluated; and a tier becomes right when an item it reads is sampled and the
\* aggregator is not stale, which the samples of peers_ok see to.
TiersSettle ==
  [][verdict' = verdict /\ Settled =>
       /\ Settled'
       /\ \A t \in Tiers :
            /\ upsets' = upsets /\ Right(t) => Right(t)'
            /\ \A i \in Referred(t) : Sample(i) /\ ~stale' => Right(t)'
       /\ Sample("peers_ok") => ~stale']_vars

SelectsRow == Settled => {t \in Tiers : Holds(t, hist)} = MeshLadder

LEMMA TiersSettleStep ==
  ASSUME TypeOK, TypeOK', SelectsRow', [Next]_vars, verdict' = verdict, Settled, Settled'
  PROVE  /\ \A t \in Tiers :
              /\ upsets' = upsets /\ Right(t) => Right(t)'
              /\ \A i \in Referred(t) : Sample(i) /\ ~stale' => Right(t)'
         /\ Sample("peers_ok") => ~stale'
<1>1. MeshLadder' = MeshLadder
  <2>1. \A i \in Items : Counted(i)' = Counted(i) BY DEF Counted
  <2> QED BY <2>1 DEF MeshLadder, Items
<1>2. ASSUME NEW i \in Items, Sample(i), NEW t \in Tiers
      PROVE  IF i \in Referred(t) /\ ~stale' THEN Right(t)' ELSE tier'[t] = tier[t]
  <2>1. CASE i \in Referred(t) /\ ~stale'
    <3>1. tier'[t] <=> Holds(t, hist') BY <1>2, <2>1 DEF Sample, Evaluate
    <3>2. t \in MeshLadder' <=> Holds(t, hist') BY DEF SelectsRow
    <3> QED BY <2>1, <3>1, <3>2 DEF Right
  <2>2. CASE ~(i \in Referred(t) /\ ~stale')
    BY <1>2, <2>2 DEF Sample, Evaluate, TypeOK
  <2> QED BY <2>1, <2>2
<1>3. ASSUME NEW t \in Tiers, tier'[t] = tier[t], Right(t) PROVE Right(t)'
  BY <1>1, <1>3 DEF Right
<1>4. ASSUME NEW t \in Tiers, upsets' = upsets, Right(t) PROVE Right(t)'
  <2>1. CASE \E i \in Items : Sample(i) BY <1>2, <1>3, <1>4, <2>1
  <2>2. CASE tier' = tier BY <1>3, <1>4, <2>2
  <2>3. upsets \in Nat BY BoundsAssumption DEF TypeOK
  <2>4. tier' = tier \/ \E i \in Items : Sample(i)
    BY <1>4, <2>3 DEF Next, Publish, Leave, NoDataFires, CloseTier, CloseStale, Upset, vars
  <2> QED BY <2>1, <2>2, <2>4
<1>5. ASSUME NEW t \in Tiers, NEW i \in Referred(t), Sample(i), ~stale'
      PROVE  Right(t)'
  <2>1. i \in Items BY ReferredItems
  <2> QED BY <1>2, <1>5, <2>1
<1>6. Sample("peers_ok") => ~stale' BY DEF Sample
<1> QED BY <1>4, <1>5, <1>6

LEMMA SettledStays ==
  ASSUME TypeOK, [Next]_vars, verdict' = verdict, Settled,
         (\A i \in Items : Agree(i, Depth(i)))' => Settled'
  PROVE  Settled'
<1>1. ASSUME NEW i \in Items PROVE Agree(i, Depth(i))'
  <2>1. Agree(i, Depth(i)) /\ Depth(i) \in 0..3 /\ Depth(i)' = Depth(i)
    BY AgreedIsSettled DEF Depth
  <2>2. CASE \E j \in Items : Sample(j) BY <2>1, <2>2, AgreeSample
  <2>3. CASE hist' = hist BY <2>1, <2>3 DEF Agree, Sampled, Counted
  <2>4. hist' = hist \/ \E j \in Items : Sample(j)
    BY DEF Next, Publish, Leave, NoDataFires, CloseTier, CloseStale, vars
  <2> QED BY <2>2, <2>3, <2>4
<1> QED BY <1>1

\* Whatever the mesh's size, samples alone lead a settled mesh to the table's
\* alert and keep it there.
THEOREM TiersSettleCorrect == Spec => TiersSettle
<1>1. TypeOK => ((\A i \in Items : Agree(i, Depth(i))) => Settled)
  BY AgreedIsSettled
<1>2. SelectsRow BY SettledSelectsRow DEF SelectsRow
<1>3. /\ TypeOK /\ TypeOK' /\ SelectsRow' /\ [Next]_vars
      /\ (\A i \in Items : Agree(i, Depth(i)))' => Settled'
      => [verdict' = verdict /\ Settled =>
            /\ Settled'
            /\ \A t \in Tiers :
                 /\ upsets' = upsets /\ Right(t) => Right(t)'
                 /\ \A i \in Referred(t) : Sample(i) /\ ~stale' => Right(t)'
            /\ Sample("peers_ok") => ~stale']_vars
  BY SettledStays, TiersSettleStep
<1> QED BY <1>1, <1>2, <1>3, TypeCorrect, PTL DEF Spec, TiersSettle
===============================================================================
