--------------------------- MODULE MeshSteadyProofs ---------------------------
(***************************************************************************)
(* Proofs about MeshSteady: the four tiers exclude one another, and the    *)
(* triggers implement AlertLadder, for every finite set of vantages, every *)
(* alphabet of verdicts, every order and every assignment of offsets.      *)
(***************************************************************************)
EXTENDS MeshSteady, MeshProofs

-------------------------------------------------------------------------------
(***************************************************************************)
(* The invariant.                                                          *)
(***************************************************************************)

Last(h) == h[Len(h)]

\* Every vantage reports throughout, and no evaluation is suppressed.
SteadyTypeOK ==
  /\ TypeOK
  /\ verdict \in [Vantages -> Reports]
  /\ offset \in [Vantages -> Items]
  /\ published \in SUBSET Vantages
  /\ stale = FALSE
  /\ unsynced = {}

\* The items of a cycle are taken in the order of their offsets.
InOrder ==
  \A i \in Items \ pending, j \in pending : <<j, i>> \notin Before

\* The turn of dpi.affected: dpi.peers_ok has been sampled since dpi.affected
\* was, or neither has been.
AffectedIsNext ==
  IF <<"affected", "peers_ok">> \in Before
    THEN "affected" \in pending <=> "peers_ok" \in pending
    ELSE "affected" \in pending /\ "peers_ok" \notin pending

\* The probe of v does not run again before peers_ok is sampled: the offset of
\* v has gone by in this cycle, or comes after that of peers_ok.
Frozen(v) ==
  /\ "peers_ok" \notin pending => <<"peers_ok", offset[v]>> \in Before
  /\ \/ v \in published \/ offset[v] \notin pending
     \/ "peers_ok" \in pending /\ <<"peers_ok", offset[v]>> \in Before

OkAndFrozen(v) == verdict[v] = "OK" /\ Frozen(v)

\* What dpi.affected takes while no vantage is OK.
AllAffected == LET n == Cardinality(Vantages) IN IF n < 3 THEN n ELSE 3

NoneOk(h) == Len(h) > 0 /\ Last(h) = 0
NoneOkTwice(h) == Len(h) > 1 /\ Last(h) = 0 /\ h[Len(h) - 1] = 0

\* Between two samples of peers_ok lies one sample of affected, and each
\* vantage changes at most once.  So if neither sample found a vantage OK, the
\* one between them found all affected: a vantage that was OK then had changed
\* already, and would have been OK at the second as well.
AllAffectedBetween ==
  LET a == hist["affected"]
      p == hist["peers_ok"]
  IN  /\ AffectedIsNext /\ NoneOk(p) =>
           \A v \in Vantages : verdict[v] = "OK" => Frozen(v)
      /\ AffectedIsNext /\ NoneOkTwice(p) => Len(a) > 0 /\ Last(a) = AllAffected
      /\ ~AffectedIsNext /\ NoneOk(p) =>
           /\ Len(a) > 0
           /\ Last(a) = AllAffected \/ \E v \in Vantages : OkAndFrozen(v)
      /\ ~AffectedIsNext /\ NoneOkTwice(p) => Len(a) > 1 /\ a[Len(a) - 1] = AllAffected

\* Every vantage is counted in dpi.vantages_total.
AllCounted ==
  LET t == hist["vantages_total"]
  IN  Len(t) > 0 => Last(t) = IF Cardinality(Vantages) < 4 THEN Cardinality(Vantages) ELSE 4

SteadyInv ==
  SteadyTypeOK /\ TiersTrackHistory /\ InOrder /\ AllAffectedBetween /\ AllCounted

-------------------------------------------------------------------------------
(***************************************************************************)
(* Steps, types and order.                                                 *)
(***************************************************************************)

\* A scheduled step is a step of Mesh.
LEMMA SteadyNextIsNext == [SteadyNext]_steadyVars => [Next]_vars
<1>1. ASSUME NEW v \in Vantages, NEW code \in Reports, PublishOnSchedule(v, code)
      PROVE  Next
  BY <1>1 DEF PublishOnSchedule, Next
<1>2. ASSUME NEW i \in Items, SampleOnSchedule(i) PROVE Next
  BY <1>2 DEF SampleOnSchedule, Next
<1>3. UNCHANGED steadyVars => UNCHANGED vars BY DEF steadyVars
<1> QED BY <1>1, <1>2, <1>3 DEF SteadyNext

LEMMA NoReportIsNoData == NoData \notin Reports
BY ReportsAssumption
   DEF NoData, VerdictCode, HighConfidence, MediumConfidence, LowConfidence

LEMMA SteadyTypeInit == SteadyInit => SteadyTypeOK
<1> SUFFICES ASSUME SteadyInit PROVE SteadyTypeOK
  OBVIOUS
<1>1. verdict \in [Vantages -> Reports \cup {NoData}] BY DEF SteadyInit
<1>2. hist \in [Items -> Seq(0..4)] BY DEF SteadyInit
<1>3. \A i \in Items : Len(hist[i]) <= Depth(i) BY DEF SteadyInit, Depth
<1>4. pending \in (SUBSET Items) \ {{}} BY DEF SteadyInit, Items
<1>5. tier \in [Tiers -> BOOLEAN] BY DEF SteadyInit
<1>6. stale \in BOOLEAN /\ unsynced \in SUBSET Tiers BY DEF SteadyInit
<1>7. fpSeen \in BOOLEAN BY DEF SteadyInit
<1>8. changes \in 0..MaxChanges /\ upsets \in 0..MaxUpsets
  BY BoundsAssumption DEF SteadyInit
<1>9. TypeOK
  BY <1>1, <1>2, <1>3, <1>4, <1>5, <1>6, <1>7, <1>8 DEF TypeOK
<1> QED BY <1>9 DEF SteadyInit, SteadyTypeOK

LEMMA SteadyTypeNext ==
  SteadyTypeOK /\ [SteadyNext]_steadyVars => SteadyTypeOK'
<1> SUFFICES ASSUME SteadyTypeOK, [SteadyNext]_steadyVars PROVE SteadyTypeOK'
  OBVIOUS
<1>1. TypeOK' BY SteadyNextIsNext, NextType DEF SteadyTypeOK
<1>2. ASSUME NEW v \in Vantages, NEW code \in Reports, PublishOnSchedule(v, code)
      PROVE  SteadyTypeOK'
  BY <1>1, <1>2 DEF PublishOnSchedule, Publish, SteadyTypeOK
<1>3. ASSUME NEW i \in Items, SampleOnSchedule(i) PROVE SteadyTypeOK'
  <2>1. Sample(i) BY <1>3 DEF SampleOnSchedule
  <2>2. stale' = FALSE BY <2>1 DEF Sample, SteadyTypeOK
  <2>3. unsynced' = {} BY <2>1, <2>2 DEF Sample, Evaluate, SteadyTypeOK
  <2>4. verdict' = verdict BY <2>1 DEF Sample
  <2>5. offset' = offset /\ published' \in SUBSET Vantages
    BY <1>3 DEF SampleOnSchedule, SteadyTypeOK
  <2> QED BY <1>1, <2>2, <2>3, <2>4, <2>5 DEF SteadyTypeOK
<1>4. CASE UNCHANGED steadyVars
  BY <1>1, <1>4 DEF steadyVars, vars, SteadyTypeOK
<1> QED BY <1>2, <1>3, <1>4 DEF SteadyNext

LEMMA InOrderNext == InOrder /\ [SteadyNext]_steadyVars => InOrder'
<1> SUFFICES ASSUME InOrder, [SteadyNext]_steadyVars PROVE InOrder'
  OBVIOUS
<1>1. ASSUME NEW v \in Vantages, NEW code \in Reports, PublishOnSchedule(v, code)
      PROVE  InOrder'
  BY <1>1 DEF PublishOnSchedule, Publish, InOrder
<1>2. ASSUME NEW i \in Items, SampleOnSchedule(i) PROVE InOrder'
  <2>1. CASE pending = {i}
    <3>1. pending' = Items BY <1>2, <2>1 DEF SampleOnSchedule, Sample
    <3> QED BY <3>1 DEF InOrder
  <2>2. CASE pending # {i}
    <3>1. pending' = pending \ {i} BY <1>2, <2>2 DEF SampleOnSchedule, Sample
    <3>2. \A j \in pending : <<j, i>> \notin Before
      BY <1>2 DEF SampleOnSchedule, Sample
    <3> QED BY <3>1, <3>2 DEF InOrder
  <2> QED BY <2>1, <2>2
<1>3. CASE UNCHANGED steadyVars
  BY <1>3 DEF steadyVars, vars, InOrder
<1> QED BY <1>1, <1>2, <1>3 DEF SteadyNext

-------------------------------------------------------------------------------
(***************************************************************************)
(* What a sample says of the vantages.                                     *)
(***************************************************************************)

LEMMA SteadyCounts ==
  ASSUME SteadyTypeOK
  PROVE  /\ Sampled("peers_ok") = 0 <=> \A v \in Vantages : verdict[v] # "OK"
         /\ (\A v \in Vantages : verdict[v] # "OK") => Sampled("affected") = AllAffected
         /\ Sampled("vantages_total") =
              IF Cardinality(Vantages) < 4 THEN Cardinality(Vantages) ELSE 4
<1>1. \A v \in Vantages : verdict[v] # NoData BY NoReportIsNoData DEF SteadyTypeOK
<1>2. Counted("peers_ok") = {v \in Vantages : verdict[v] = "OK"}
  BY <1>1 DEF Counted
<1>3. Counted("affected") = {v \in Vantages : verdict[v] # "OK"}
  BY <1>1 DEF Counted
<1>4. Counted("vantages_total") = Vantages BY <1>1 DEF Counted
<1>5. IsFiniteSet(Counted("peers_ok")) /\ Cardinality(Counted("peers_ok")) \in Nat
  BY CountedFinite DEF Items
<1>6. Sampled("peers_ok") = 0 <=> Cardinality(Counted("peers_ok")) = 0
  BY <1>5 DEF Sampled, Cap
<1>7. Cardinality(Counted("peers_ok")) = 0 <=> Counted("peers_ok") = {}
  BY <1>5, FS_EmptySet
<1>8. ASSUME \A v \in Vantages : verdict[v] # "OK"
      PROVE  Sampled("affected") = AllAffected
  <2>1. Counted("affected") = Vantages BY <1>3, <1>8
  <2> QED BY <2>1 DEF Sampled, Cap, AllAffected
<1>9. Sampled("vantages_total") =
        IF Cardinality(Vantages) < 4 THEN Cardinality(Vantages) ELSE 4
  BY <1>4 DEF Sampled, Cap
<1> QED BY <1>2, <1>6, <1>7, <1>8, <1>9

\* What a further value leaves before it.
LEMMA PushBeforeLast ==
  ASSUME NEW S, NEW h \in Seq(S), NEW x \in S, NEW d \in Nat, d > 1, Len(h) <= d
  PROVE  /\ Len(Push(h, x, d)) > 0
         /\ Len(h) > 0 => /\ Len(Push(h, x, d)) > 1
                          /\ Push(h, x, d)[Len(Push(h, x, d)) - 1] = Last(h)
         /\ Len(Push(h, x, d)) > 1 => Len(h) > 0
<1>1. CASE Len(h) < d
  <2>1. Push(h, x, d) = Append(h, x) BY <1>1 DEF Push
  <2>2. Len(Append(h, x)) = Len(h) + 1 OBVIOUS
  <2>3. Len(h) > 0 => Append(h, x)[Len(h)] = h[Len(h)] OBVIOUS
  <2> QED BY <2>1, <2>2, <2>3 DEF Last
<1>2. CASE Len(h) = d
  <2>1. Push(h, x, d) = Append(Tail(h), x) BY <1>2 DEF Push
  <2>2. h # <<>> BY <1>2
  <2>3. Tail(h) \in Seq(S) /\ Len(Tail(h)) = Len(h) - 1 BY <2>2
  <2>4. Len(Append(Tail(h), x)) = Len(h) BY <2>3
  <2>5. Append(Tail(h), x)[Len(h) - 1] = Tail(h)[Len(h) - 1] BY <1>2, <2>3
  <2>6. Tail(h)[Len(h) - 1] = h[Len(h)] BY <1>2, <2>2, <2>3
  <2> QED BY <1>2, <2>1, <2>4, <2>5, <2>6 DEF Last
<1> QED BY <1>1, <1>2

\* A sampled item ends in its new value, after the one it had before; the
\* other items are as they were.
LEMMA SampleAppends ==
  ASSUME TypeOK, NEW i \in Items, Sample(i)
  PROVE  /\ Len(hist'[i]) > 0 /\ Last(hist'[i]) = Sampled(i)
         /\ \A j \in Items \ {i} : hist'[j] = hist[j]
         /\ Depth(i) = 3 =>
              /\ Len(hist'[i]) > 1 <=> Len(hist[i]) > 0
              /\ Len(hist[i]) > 0 => hist'[i][Len(hist'[i]) - 1] = Last(hist[i])
<1> DEFINE p == Push(hist[i], Sampled(i), Depth(i))
<1>1. hist' = [hist EXCEPT ![i] = p] /\ i \in DOMAIN hist BY DEF Sample, TypeOK
<1>2. hist'[i] = p /\ \A j \in Items \ {i} : hist'[j] = hist[j]
  BY <1>1 DEF TypeOK
<1>3. hist[i] \in Seq(0..4) /\ Len(hist[i]) <= Depth(i) BY DEF TypeOK
<1>4. Depth(i) \in Nat /\ Depth(i) > 0 BY DEF Depth
<1>5. Sampled(i) \in 0..4 BY SampledType
<1>6. p[Len(p)] = Sampled(i) BY <1>3, <1>4, <1>5, PushLast
<1>7. Len(p) > 0
  <2>1. CASE Len(hist[i]) < Depth(i) BY <1>3, <1>5, <2>1 DEF Push
  <2>2. CASE Len(hist[i]) = Depth(i)
    <3>1. hist[i] # <<>> BY <1>4, <2>2
    <3>2. Tail(hist[i]) \in Seq(0..4) BY <1>3, <3>1
    <3> QED BY <1>3, <1>5, <2>2, <3>2 DEF Push
  <2> QED BY <1>3, <1>4, <2>1, <2>2
<1>8. ASSUME Depth(i) = 3
      PROVE  /\ Len(p) > 1 <=> Len(hist[i]) > 0
             /\ Len(hist[i]) > 0 => p[Len(p) - 1] = Last(hist[i])
  <2>1. Depth(i) \in Nat /\ Depth(i) > 1 BY <1>8
  <2>2. /\ Len(p) > 1 => Len(hist[i]) > 0
        /\ Len(hist[i]) > 0 => Len(p) > 1 /\ p[Len(p) - 1] = Last(hist[i])
    BY <1>3, <1>5, <2>1, PushBeforeLast
  <2> QED BY <2>2
<1> QED BY <1>2, <1>6, <1>7, <1>8 DEF Last

-------------------------------------------------------------------------------
(***************************************************************************)
(* One sample of affected, and one probe of each vantage, between two      *)
(* samples of peers_ok.                                                    *)
(***************************************************************************)

\* How a sample changes what is pending.
LEMMA SamplePending ==
  ASSUME NEW i \in Items, SampleOnSchedule(i)
  PROVE  /\ i \in pending /\ \A j \in pending : <<j, i>> \notin Before
         /\ \/ pending = {i} /\ pending' = Items /\ published' = {}
            \/ pending # {i} /\ pending' = pending \ {i} /\ published' = published
         /\ offset' = offset /\ verdict' = verdict
BY DEF SampleOnSchedule, Sample

\* The two counts are sampled in turn.
LEMMA Turns ==
  ASSUME SteadyTypeOK, InOrder, NEW i \in Items, SampleOnSchedule(i)
  PROVE  /\ i = "affected" => AffectedIsNext /\ ~AffectedIsNext'
         /\ i = "peers_ok" => ~AffectedIsNext /\ AffectedIsNext'
         /\ i \notin {"affected", "peers_ok"} => (AffectedIsNext' <=> AffectedIsNext)
<1> DEFINE A == "affected"  P == "peers_ok"
<1>1. A \in Items /\ P \in Items /\ A # P BY DEF Items
<1>2. CASE <<A, P>> \in Before
  <2>1. ~(A \in pending /\ P \notin pending) BY <1>1, <1>2 DEF InOrder
  <2>2. i = P => A \notin pending BY <1>2, SamplePending
  <2>3. AffectedIsNext <=> (A \in pending <=> P \in pending)
    BY <1>2 DEF AffectedIsNext
  <2>4. AffectedIsNext' <=> (A \in pending' <=> P \in pending')
    BY <1>2 DEF AffectedIsNext
  <2> QED BY <1>1, <2>1, <2>2, <2>3, <2>4, SamplePending
<1>3. CASE <<A, P>> \notin Before
  <2>1. <<P, A>> \in Before BY <1>1, <1>3, OffsetsAssumption
  <2>2. ~(P \in pending /\ A \notin pending) BY <1>1, <2>1 DEF InOrder
  <2>3. i = A => P \notin pending BY <2>1, SamplePending
  <2>4. AffectedIsNext <=> A \in pending /\ P \notin pending
    BY <1>3 DEF AffectedIsNext
  <2>5. AffectedIsNext' <=> A \in pending' /\ P \notin pending'
    BY <1>3 DEF AffectedIsNext
  <2> QED BY <1>1, <2>2, <2>3, <2>4, <2>5, SamplePending
<1> QED BY <1>2, <1>3

\* A probe that runs was not frozen and is now.
LEMMA PublishFreezes ==
  ASSUME SteadyTypeOK, InOrder, NEW v \in Vantages, NEW code \in Reports,
         PublishOnSchedule(v, code)
  PROVE  ~Frozen(v) /\ Frozen(v)'
<1>1. /\ offset[v] \in pending /\ \A j \in pending : <<j, offset[v]>> \notin Before
      /\ v \notin published /\ published' = published \cup {v}
      /\ offset' = offset /\ pending' = pending
  BY DEF PublishOnSchedule, Due, Publish
<1>2. ~Frozen(v) BY <1>1 DEF Frozen
<1>3. ASSUME "peers_ok" \notin pending
      PROVE  <<"peers_ok", offset[v]>> \in Before
  <2>1. "peers_ok" \in Items /\ offset[v] \in Items /\ offset[v] # "peers_ok"
    BY <1>1, <1>3 DEF Items, SteadyTypeOK
  <2>2. <<offset[v], "peers_ok">> \notin Before BY <1>1, <1>3, <2>1 DEF InOrder
  <2> QED BY <2>1, <2>2, OffsetsAssumption
<1> QED BY <1>1, <1>2, <1>3 DEF Frozen

\* What is frozen stays so until peers_ok is sampled.
LEMMA FrozenUntilPeersOk ==
  ASSUME SteadyTypeOK, NEW w \in Vantages, Frozen(w)
  PROVE  /\ \A v \in Vantages, code \in Reports : PublishOnSchedule(v, code) => Frozen(w)'
         /\ \A i \in Items \ {"peers_ok"} : SampleOnSchedule(i) => Frozen(w)'
<1>1. ASSUME NEW v \in Vantages, NEW code \in Reports, PublishOnSchedule(v, code)
      PROVE  Frozen(w)'
  BY <1>1 DEF PublishOnSchedule, Publish, Frozen
<1>2. ASSUME NEW i \in Items \ {"peers_ok"}, SampleOnSchedule(i)
      PROVE  Frozen(w)'
  <2>1. CASE pending = {i}
    <3>1. <<"peers_ok", offset[w]>> \in Before BY <2>1 DEF Frozen
    <3>2. pending' = Items /\ offset' = offset BY <1>2, <2>1, SamplePending
    <3>3. "peers_ok" \in Items BY DEF Items
    <3> QED BY <3>1, <3>2, <3>3 DEF Frozen
  <2>2. CASE pending # {i}
    <3>1. pending' = pending \ {i} /\ published' = published /\ offset' = offset
      BY <1>2, <2>2, SamplePending
    <3> QED BY <3>1 DEF Frozen
  <2> QED BY <2>1, <2>2
<1> QED BY <1>1, <1>2

LEMMA BetweenPublish ==
  ASSUME SteadyTypeOK, InOrder, AllAffectedBetween,
         NEW v \in Vantages, NEW code \in Reports, PublishOnSchedule(v, code)
  PROVE  AllAffectedBetween'
<1>1. hist' = hist /\ (AffectedIsNext' <=> AffectedIsNext)
  BY DEF PublishOnSchedule, Publish, AffectedIsNext
<1>2. \A w \in Vantages \ {v} : verdict'[w] = verdict[w]
  BY DEF PublishOnSchedule, Publish, SteadyTypeOK
<1>3. \A w \in Vantages : Frozen(w) => Frozen(w)'
  <2> SUFFICES ASSUME NEW w \in Vantages, Frozen(w) PROVE Frozen(w)'
    OBVIOUS
  <2> QED BY FrozenUntilPeersOk
<1>4. ASSUME AffectedIsNext, NoneOk(hist["peers_ok"]),
             NEW w \in Vantages, verdict'[w] = "OK"
      PROVE  Frozen(w)'
  <2>1. CASE w = v BY <2>1, PublishFreezes
  <2>2. CASE w # v BY <1>2, <1>3, <1>4, <2>2 DEF AllAffectedBetween
  <2> QED BY <2>1, <2>2
<1>5. ASSUME NEW w \in Vantages, OkAndFrozen(w)
      PROVE  OkAndFrozen(w)'
  <2>1. w # v BY <1>5, PublishFreezes DEF OkAndFrozen
  <2> QED BY <1>2, <1>3, <1>5, <2>1 DEF OkAndFrozen
<1>6. AllAffected' = AllAffected BY DEF AllAffected
<1> QED BY <1>1, <1>4, <1>5, <1>6 DEF AllAffectedBetween, NoneOk, NoneOkTwice, Last

LEMMA BetweenSample ==
  ASSUME SteadyTypeOK, InOrder, AllAffectedBetween,
         NEW i \in Items, SampleOnSchedule(i)
  PROVE  AllAffectedBetween'
<1> DEFINE a == hist["affected"]  p == hist["peers_ok"]
<1>1. TypeOK /\ Sample(i) BY DEF SteadyTypeOK, SampleOnSchedule
<1>2. verdict' = verdict BY SamplePending
<1>3. AllAffected' = AllAffected BY DEF AllAffected
<1>4. ASSUME NEW w \in Vantages, Frozen(w), i # "peers_ok" PROVE Frozen(w)'
  BY <1>4, FrozenUntilPeersOk
<1>5. Depth("affected") = 3 /\ Depth("peers_ok") = 3 BY DEF Depth
<1>6. CASE i = "affected"
  <2>1. AffectedIsNext /\ ~AffectedIsNext' BY <1>6, Turns
  <2>2. p' = p BY <1>1, <1>6, SampleAppends DEF Items
  <2>3. /\ Len(a') > 0 /\ Last(a') = Sampled("affected")
        /\ Len(a) > 0 => Len(a') > 1 /\ a'[Len(a') - 1] = Last(a)
    BY <1>1, <1>5, <1>6, SampleAppends
  <2>4. ASSUME NoneOk(p)
        PROVE  Last(a') = AllAffected \/ \E v \in Vantages : OkAndFrozen(v)'
    <3>1. CASE \A v \in Vantages : verdict[v] # "OK"
      BY <2>3, <3>1, SteadyCounts
    <3>2. ASSUME NEW v \in Vantages, verdict[v] = "OK" PROVE OkAndFrozen(v)'
      <4>1. Frozen(v) BY <2>1, <2>4, <3>2 DEF AllAffectedBetween
      <4>2. Frozen(v)' BY <1>4, <1>6, <4>1
      <4> QED BY <1>2, <3>2, <4>2 DEF OkAndFrozen
    <3> QED BY <3>1, <3>2
  <2>5. ASSUME NoneOkTwice(p)
        PROVE  Len(a') > 1 /\ a'[Len(a') - 1] = AllAffected
    BY <2>1, <2>3, <2>5 DEF AllAffectedBetween
  <2> QED BY <1>3, <2>1, <2>2, <2>3, <2>4, <2>5
          DEF AllAffectedBetween, NoneOk, NoneOkTwice, Last
<1>7. CASE i = "peers_ok"
  <2>1. ~AffectedIsNext /\ AffectedIsNext' BY <1>7, Turns
  <2>2. a' = a BY <1>1, <1>7, SampleAppends DEF Items
  <2>3. /\ Len(p') > 0 /\ Last(p') = Sampled("peers_ok")
        /\ Len(p') > 1 => Len(p) > 0 /\ p'[Len(p') - 1] = Last(p)
    BY <1>1, <1>5, <1>7, SampleAppends
  <2>4. NoneOk(p') => \A v \in Vantages : verdict'[v] # "OK"
    BY <1>2, <2>3, SteadyCounts DEF NoneOk
  <2>5. ASSUME NoneOkTwice(p')
        PROVE  Len(a) > 0 /\ Last(a) = AllAffected
    <3>1. NoneOk(p') /\ NoneOk(p) BY <2>3, <2>5 DEF NoneOk, NoneOkTwice
    <3>2. \A v \in Vantages : ~OkAndFrozen(v) BY <1>2, <2>4, <3>1 DEF OkAndFrozen
    <3> QED BY <2>1, <3>1, <3>2 DEF AllAffectedBetween
  <2> QED BY <1>3, <2>1, <2>2, <2>4, <2>5 DEF AllAffectedBetween, Last
<1>8. CASE i \notin {"affected", "peers_ok"}
  <2>1. AffectedIsNext' <=> AffectedIsNext BY <1>8, Turns
  <2>2. a' = a /\ p' = p BY <1>1, <1>8, SampleAppends DEF Items
  <2>3. \A w \in Vantages : Frozen(w) => Frozen(w)' BY <1>4, <1>8
  <2>4. \A w \in Vantages : OkAndFrozen(w) => OkAndFrozen(w)'
    BY <1>2, <2>3 DEF OkAndFrozen
  <2> QED BY <1>2, <1>3, <2>1, <2>2, <2>3, <2>4
          DEF AllAffectedBetween, NoneOk, NoneOkTwice, Last
<1> QED BY <1>6, <1>7, <1>8

LEMMA AllCountedNext ==
  ASSUME SteadyTypeOK, AllCounted, NEW i \in Items, SampleOnSchedule(i)
  PROVE  AllCounted'
<1>1. TypeOK /\ Sample(i) BY DEF SteadyTypeOK, SampleOnSchedule
<1>2. CASE i = "vantages_total"
  <2>1. Last(hist'["vantages_total"]) = Sampled("vantages_total")
    BY <1>1, <1>2, SampleAppends
  <2> QED BY <2>1, SteadyCounts DEF AllCounted, Last
<1>3. CASE i # "vantages_total"
  <2>1. hist'["vantages_total"] = hist["vantages_total"]
    BY <1>1, <1>3, SampleAppends DEF Items
  <2> QED BY <2>1 DEF AllCounted, Last
<1> QED BY <1>2, <1>3

LEMMA SteadyInvInit == SteadyInit => SteadyInv
<1> SUFFICES ASSUME SteadyInit PROVE SteadyInv
  OBVIOUS
<1>1. \A i \in Items : hist[i] = <<>> BY DEF SteadyInit
<1>2. \A i \in Items : Len(hist[i]) = 0 BY <1>1
<1>3. TiersTrackHistory
  <2>1. ~LastGe(hist, "discriminator_any", 1) BY <1>2 DEF LastGe, Items
  <2>2. \A t \in Tiers : ~Holds(t, hist) BY <2>1, HoldsOf DEF Tiers
  <2> QED BY <2>2 DEF SteadyInit, TiersTrackHistory
<1>4. InOrder BY DEF SteadyInit, InOrder
<1>5. AllAffectedBetween
  BY <1>2 DEF AllAffectedBetween, NoneOk, NoneOkTwice, Items
<1>6. AllCounted BY <1>2 DEF AllCounted, Items
<1> QED BY SteadyTypeInit, <1>3, <1>4, <1>5, <1>6 DEF SteadyInv

LEMMA SteadyInvNext == SteadyInv /\ [SteadyNext]_steadyVars => SteadyInv'
<1> SUFFICES ASSUME SteadyInv, [SteadyNext]_steadyVars PROVE SteadyInv'
  OBVIOUS
<1>1. SteadyTypeOK' BY SteadyTypeNext DEF SteadyInv
<1>2. TiersTrackHistory'
  BY SteadyNextIsNext, TrackNext DEF SteadyInv, SteadyTypeOK
<1>3. InOrder' BY InOrderNext DEF SteadyInv
<1>4. AllAffectedBetween' /\ AllCounted'
  <2>1. ASSUME NEW v \in Vantages, NEW code \in Reports, PublishOnSchedule(v, code)
        PROVE  AllAffectedBetween' /\ AllCounted'
    <3>1. AllCounted' BY <2>1 DEF PublishOnSchedule, Publish, SteadyInv, AllCounted, Last
    <3> QED BY <2>1, <3>1, BetweenPublish DEF SteadyInv
  <2>2. ASSUME NEW i \in Items, SampleOnSchedule(i)
        PROVE  AllAffectedBetween' /\ AllCounted'
    BY <2>2, BetweenSample, AllCountedNext DEF SteadyInv
  <2>3. CASE UNCHANGED steadyVars
    BY <2>3 DEF steadyVars, vars, SteadyInv, AllAffectedBetween, AllCounted,
                AffectedIsNext, AllAffected, OkAndFrozen, Frozen, NoneOk,
                NoneOkTwice, Last
  <2> QED BY <2>1, <2>2, <2>3 DEF SteadyNext
<1> QED BY <1>1, <1>2, <1>3, <1>4 DEF SteadyInv

LEMMA SteadyInvariant == SteadySpec => []SteadyInv
BY SteadyInvInit, SteadyInvNext, PTL DEF SteadySpec

-------------------------------------------------------------------------------
(***************************************************************************)
(* Exclusive tiers.                                                        *)
(***************************************************************************)

\* The counts that tell the tiers apart.
LEMMA HoldsCounts ==
  ASSUME NEW t \in Tiers, NEW h, Holds(t, h)
  PROVE  /\ t = "INFO" => Eq3(h, "affected", 1)
         /\ t = "WARNING" => Eq3(h, "affected", 2)
         /\ t = "AVERAGE" => Ge3(h, "affected", 3) /\ Ge3(h, "peers_ok", 1)
         /\ t = "HIGH" => Eq3(h, "peers_ok", 0)
<1>1. t = "INFO" => Eq3(h, "affected", 1) BY HoldsOf
<1>2. t = "WARNING" => Eq3(h, "affected", 2) BY HoldsOf
<1>3. t = "AVERAGE" => Ge3(h, "affected", 3) /\ Ge3(h, "peers_ok", 1) BY HoldsOf
<1>4. t = "HIGH" => Eq3(h, "peers_ok", 0) BY HoldsOf
<1> QED BY <1>1, <1>2, <1>3, <1>4

\* One or two vantages out of more were not OK three times, or none was OK
\* three times: the sample of affected in between decides.
LEMMA SomeOrAll ==
  ASSUME SteadyInv, NEW t \in {"INFO", "WARNING"}, Holds(t, hist)
  PROVE  ~Eq3(hist, "peers_ok", 0)
<1> SUFFICES ASSUME Eq3(hist, "peers_ok", 0) PROVE FALSE
  OBVIOUS
<1> DEFINE a == hist["affected"]  p == hist["peers_ok"]  n == Cardinality(Vantages)
           m == IF t = "INFO" THEN 1 ELSE 2
<1>1. Len(p) = 3 /\ p[2] = 0 /\ p[3] = 0 BY DEF Eq3
<1>2. NoneOkTwice(p) BY <1>1 DEF NoneOkTwice, Last
<1>3. Len(a) = 3 /\ \A k \in 1..3 : a[k] = m BY HoldsOf DEF Eq3
<1>4. AllAffected = m BY <1>2, <1>3 DEF SteadyInv, AllAffectedBetween, Last
<1>5. n \in Nat BY VantagesAssumption, FS_CardinalityType
<1>6. n = m BY <1>4, <1>5 DEF AllAffected
<1>7. Len(hist["vantages_total"]) > 0 /\ Last(hist["vantages_total"]) >= m + 1
  <2>1. t = "INFO" => LastGe(hist, "vantages_total", 2) BY HoldsOf
  <2>2. t = "WARNING" => LastGe(hist, "vantages_total", 3) BY HoldsOf
  <2>3. LastGe(hist, "vantages_total", m + 1) BY <2>1, <2>2
  <2> QED BY <2>3 DEF LastGe, Last
<1>8. Last(hist["vantages_total"]) = n
  BY <1>5, <1>6, <1>7 DEF SteadyInv, AllCounted
<1> QED BY <1>6, <1>7, <1>8

LEMMA ExpressionsExclude ==
  SteadyInv => \A s, t \in Tiers : Holds(s, hist) /\ Holds(t, hist) => s = t
<1> SUFFICES ASSUME SteadyInv, NEW s \in Tiers, NEW t \in Tiers,
                    Holds(s, hist), Holds(t, hist)
             PROVE  s = t
  OBVIOUS
<1> DEFINE a == hist["affected"][3]  p == hist["peers_ok"][3]
<1>1. ASSUME NEW u \in Tiers, Holds(u, hist)
      PROVE  /\ u = "INFO" => a = 1
             /\ u = "WARNING" => a = 2
             /\ u = "AVERAGE" => a >= 3 /\ p >= 1
             /\ u = "HIGH" => p = 0
  BY <1>1, HoldsCounts DEF Eq3, Ge3
<1>2. ASSUME NEW u \in {"INFO", "WARNING"}, Holds(u, hist)
      PROVE  ~Holds("HIGH", hist)
  BY <1>2, SomeOrAll, HoldsCounts DEF Tiers
<1> QED BY <1>1, <1>2 DEF Tiers

LEMMA InvExclusive == SteadyInv => TiersExclusive
BY ExpressionsExclude DEF SteadyInv, SteadyTypeOK, TiersTrackHistory, TiersExclusive

\* With a fixed membership and fixed offsets at most one of the four tiers is
\* in PROBLEM.
THEOREM TiersExclusiveCorrect == SteadySpec => []TiersExclusive
BY SteadyInvariant, InvExclusive, PTL

-------------------------------------------------------------------------------
(***************************************************************************)
(* One alert at a time.                                                    *)
(***************************************************************************)

\* The one active tier is what is shown.
ShownFits ==
  /\ ActiveTiers = {} => Shown = "NONE"
  /\ \A t \in Tiers : tier[t] => Shown = t

LEMMA ShownIsTheTier == TiersExclusive => ShownFits
<1> SUFFICES ASSUME TiersExclusive, NEW t \in Tiers, tier[t] PROVE Shown = t
  BY DEF ShownFits, Shown
<1>1. ActiveTiers # {} BY DEF ActiveTiers
<1>2. Shown = CHOOSE s \in Tiers : tier[s] BY <1>1 DEF Shown
<1>3. Shown \in Tiers /\ tier[Shown] BY <1>2
<1> QED BY <1>3 DEF TiersExclusive

\* The three values an expression looks back on share two with those before:
\* a new value never turns the count of one tier into that of another.
LEMMA NoJumpOnSample ==
  ASSUME SteadyInv, SteadyInv', TiersExclusive, TiersExclusive',
         NEW i \in Items, SampleOnSchedule(i),
         NEW s \in Tiers, NEW t \in Tiers, tier[s], tier'[t]
  PROVE  s = t
<1> DEFINE a == hist["affected"]  p == hist["peers_ok"]
<1>1. TypeOK /\ Sample(i) BY DEF SteadyInv, SteadyTypeOK, SampleOnSchedule
<1>2. \A j \in Items \ {i} : hist'[j] = hist[j] BY <1>1, SampleAppends
<1>3. \A u \in Tiers : (tier[u] <=> Holds(u, hist)) /\ (tier'[u] <=> Holds(u, hist'))
  BY DEF SteadyInv, SteadyTypeOK, TiersTrackHistory
<1>4. ASSUME NEW u \in Tiers, i \notin Referred(u)
      PROVE  tier[u] <=> tier'[u]
  <2>1. Referred(u) \subseteq Items BY ReferredItems
  <2>2. \A j \in Referred(u) : hist'[j] = hist[j] BY <1>2, <1>4, <2>1
  <2> QED BY <1>3, <2>2, HoldsDependsOnReferred
<1>5. CASE i \notin Referred(s) \/ i \notin Referred(t)
  BY <1>4, <1>5 DEF TiersExclusive
<1>6. ASSUME i \in {"affected", "peers_ok"}, Len(hist[i]) = 3, Len(hist'[i]) = 3
      PROVE  hist'[i][2] = hist[i][3]
  BY <1>1, <1>6, SampleAppends DEF Depth, Last
<1>7. ASSUME i \in {"affected", "vantages_total"}, i \in Referred(s) \cap Referred(t)
      PROVE  s = t
  <2>1. s # "HIGH" /\ t # "HIGH" BY <1>7, ReferredOf
  <2>2. Len(a) = 3 /\ Len(a') = 3
    BY <1>3, <2>1, HoldsCounts DEF Eq3, Ge3, Tiers
  <2>3. PICK k \in 1..3 : a'[2] = a[k]
    BY <1>2, <1>6, <1>7, <2>2 DEF Items
  <2>4. /\ s = "INFO" => a[k] = 1
        /\ s = "WARNING" => a[k] = 2
        /\ s = "AVERAGE" => a[k] >= 3
    BY <1>3, HoldsCounts DEF Eq3, Ge3
  <2>5. /\ t = "INFO" => a'[2] = 1
        /\ t = "WARNING" => a'[2] = 2
        /\ t = "AVERAGE" => a'[2] >= 3
    BY <1>3, HoldsCounts DEF Eq3, Ge3
  <2> QED BY <2>1, <2>3, <2>4, <2>5 DEF Tiers
<1>8. ASSUME i = "peers_ok", i \in Referred(s) \cap Referred(t)
      PROVE  s = t
  <2>1. s \in {"AVERAGE", "HIGH"} /\ t \in {"AVERAGE", "HIGH"}
    BY <1>8, ReferredOf DEF Tiers
  <2>2. Len(p) = 3 /\ Len(p') = 3
    BY <1>3, <2>1, HoldsCounts DEF Eq3, Ge3
  <2>3. p'[2] = p[3] BY <1>6, <1>8, <2>2
  <2>4. (s = "AVERAGE" => p[3] >= 1) /\ (s = "HIGH" => p[3] = 0)
    BY <1>3, HoldsCounts DEF Eq3, Ge3
  <2>5. (t = "AVERAGE" => p'[2] >= 1) /\ (t = "HIGH" => p'[2] = 0)
    BY <1>3, HoldsCounts DEF Eq3, Ge3
  <2> QED BY <2>1, <2>3, <2>4, <2>5
<1>9. ASSUME i = "discriminator_any" PROVE s = t
  <2>1. LastGe(hist, "discriminator_any", 1) BY <1>3, HoldsOf DEF Tiers
  <2>2. \A j \in {"affected", "peers_ok", "vantages_total"} : hist'[j] = hist[j]
    BY <1>2, <1>9 DEF Items
  <2>3. \A j \in {"affected", "peers_ok", "vantages_total"}, n \in Nat :
          /\ Eq3(hist', j, n) => Eq3(hist, j, n)
          /\ Ge3(hist', j, n) => Ge3(hist, j, n)
          /\ LastGe(hist', j, n) => LastGe(hist, j, n)
    BY <2>2 DEF Eq3, Ge3, LastGe
  <2>4. Holds(t, hist') BY <1>3
  <2>5. t = "INFO" => Holds(t, hist) BY <2>1, <2>3, <2>4, HoldsOf
  <2>6. t = "WARNING" => Holds(t, hist) BY <2>1, <2>3, <2>4, HoldsOf
  <2>7. t = "AVERAGE" => Holds(t, hist) BY <2>1, <2>3, <2>4, HoldsOf
  <2>8. t = "HIGH" => Holds(t, hist) BY <2>1, <2>3, <2>4, HoldsOf
  <2>9. Holds(t, hist) => s = t BY <1>3 DEF TiersExclusive
  <2> QED BY <2>5, <2>6, <2>7, <2>8, <2>9 DEF Tiers
<1> QED BY <1>5, <1>7, <1>8, <1>9 DEF Items

\* A step of the templates raises an alert, resolves one, or shows what was
\* shown before.
LEMMA PromiseStep ==
  ASSUME SteadyInv, SteadyInv', TiersExclusive, TiersExclusive', ShownFits, ShownFits',
         [SteadyNext]_steadyVars
  PROVE  [Promise!Next]_Shown
<1>1. ASSUME UNCHANGED tier PROVE UNCHANGED Shown
  BY <1>1 DEF Shown, ActiveTiers
<1>2. ASSUME NEW i \in Items, SampleOnSchedule(i) PROVE [Promise!Next]_Shown
  <2>1. Shown = "NONE" \/ \E s \in Tiers : tier[s] /\ Shown = s
    BY DEF ShownFits, ActiveTiers
  <2>2. Shown' = "NONE" \/ \E t \in Tiers : tier'[t] /\ Shown' = t
    BY DEF ShownFits, ActiveTiers
  <2>3. CASE \E s, t \in Tiers : tier[s] /\ Shown = s /\ tier'[t] /\ Shown' = t
    BY <1>2, <2>3, NoJumpOnSample
  <2>4. CASE Shown = "NONE" /\ Shown' \in Tiers
    BY <2>4 DEF Promise!Next, Promise!Raise, Promise!NoAlert
  <2>5. CASE Shown \in Tiers /\ Shown' = "NONE"
    BY <2>5 DEF Promise!Next, Promise!Resolve, Promise!NoAlert, Tiers
  <2> QED BY <2>1, <2>2, <2>3, <2>4, <2>5
<1>3. CASE \E v \in Vantages, code \in Reports : PublishOnSchedule(v, code)
  BY <1>1, <1>3 DEF PublishOnSchedule, Publish
<1>4. CASE UNCHANGED steadyVars
  BY <1>1, <1>4 DEF steadyVars, vars
<1> QED BY <1>2, <1>3, <1>4 DEF SteadyNext

\* The triggers implement AlertLadder: one alert at a time, and no severity
\* turns into another without a recovery in between.
THEOREM OneAlertCorrect == SteadySpec => OneAlert
<1>1. SteadyInit => Promise!Init
  <2> SUFFICES ASSUME SteadyInit PROVE Promise!Init
    OBVIOUS
  <2>1. ActiveTiers = {} BY DEF SteadyInit, ActiveTiers
  <2> QED BY <2>1 DEF Promise!Init, Promise!NoAlert, Shown
<1>2. /\ SteadyInv /\ TiersExclusive /\ ShownFits
      /\ SteadyInv' /\ TiersExclusive' /\ ShownFits'
      /\ [SteadyNext]_steadyVars
      => [Promise!Next]_Shown
  BY PromiseStep
<1>3. SteadySpec => [](SteadyInv /\ TiersExclusive /\ ShownFits)
  BY SteadyInvariant, InvExclusive, ShownIsTheTier, PTL
<1> QED BY <1>1, <1>2, <1>3, PTL DEF SteadySpec, OneAlert, Promise!Spec

\* The regime loses nothing of what Mesh promises: once the counts have held for
\* the debounce window, the one alert is the table's.
THEOREM SteadyShowsLadder == SteadySpec => []SettledShowsLadder
<1>1. SteadyInv => SettledShowsLadder
  BY TrackingShowsLadder DEF SteadyInv, SteadyTypeOK
<1> QED BY <1>1, SteadyInvariant, PTL
===============================================================================
