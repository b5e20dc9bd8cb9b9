------------------------------ MODULE KindsProofs ------------------------------
(***************************************************************************)
(* Proofs about TspuLiveness, for any number of canaries, any paths and    *)
(* changes of them, and every override of the quorum; then about           *)
(* OtherKinds: what is proved of each probe by itself holds of every run   *)
(* that main dispatches to it.                                             *)
(***************************************************************************)
EXTENDS OtherKinds, AppProofs, OneShotProofs, FiniteSetTheorems, TLAPS

-------------------------------------------------------------------------------
(***************************************************************************)
(* TspuLiveness: quorums.                                                  *)
(***************************************************************************)

LEMMA CeilDivBounds ==
  ASSUME NEW n \in Nat, NEW k \in 1..100
  PROVE  /\ n * k \in Nat
         /\ CeilDiv(n * k, 100) \in Nat /\ CeilDiv(n * k, 100) <= n
<1>1. PICK d \in Nat : k + d = 100
  <2>1. 100 - k \in Nat /\ k + (100 - k) = 100 OBVIOUS
  <2> QED BY <2>1
<1>2. n * k \in Nat /\ n * d \in Nat /\ n * k + n * d = n * 100
  BY <1>1, SMT
<1>3. n * k + 99 < n * 100 + 100 /\ n * k \in Nat BY <1>2
<1>4. (n * k + 100 - 1) \div 100 \in Nat /\ (n * k + 100 - 1) \div 100 <= n
  <2> DEFINE m == n * k
  <2>1. m \in Nat /\ m + 99 < n * 100 + 100 BY <1>3
  <2> HIDE DEF m
  <2>2. (m + 100 - 1) \div 100 \in Nat /\ (m + 100 - 1) \div 100 <= n BY <2>1
  <2> QED BY <2>2 DEF m
<1> QED BY <1>2, <1>4 DEF CeilDiv

LEMMA QuorumWithin ==
  ASSUME canaries \in Nat, canaries > 0, setting \in Setting
  PROVE  /\ Quorum \in Nat
         /\ canaries >= 2 \/ setting.by = "absolute" => Quorum <= canaries
<1>1. setting.value \in Int BY DEF Setting
<1>2. CASE setting.by = "absolute"
  BY <1>1, <1>2 DEF Quorum, AtLeast
<1>3. CASE setting.by = "ratio" /\ setting.value \in 1..100
  <2>1. /\ CeilDiv(canaries * setting.value, 100) \in Nat
        /\ CeilDiv(canaries * setting.value, 100) <= canaries
    BY <1>3, CeilDivBounds
  <2> QED BY <1>3, <2>1 DEF Quorum, AtLeast
<1>4. CASE ~(setting.by = "absolute") /\ ~(setting.by = "ratio" /\ setting.value \in 1..100)
  <2>1. CeilDiv(canaries, 2) \in Nat /\ CeilDiv(canaries, 2) <= canaries
    BY DEF CeilDiv
  <2> QED BY <1>4, <2>1 DEF Quorum, AtLeast
<1> QED BY <1>2, <1>3, <1>4

-------------------------------------------------------------------------------
(***************************************************************************)
(* The invariant: each blocked canary has a session that does not come     *)
(* about, or a change of the path while it was probed.                     *)
(***************************************************************************)

Caused ==
  blocked + (IF disturbed THEN 1 ELSE 0)
    <= Cardinality(obstructed \cap (1..probed)) + flips

Counted ==
  tspuCode \in {"OK", "TSPU_ACTIVE"} =>
    /\ canaries > 0 /\ probed = canaries
    /\ tspuCode = "TSPU_ACTIVE" <=> blocked >= Quorum

TspuInv == TspuTypeOK /\ Caused /\ Counted

LEMMA ObstructedFinite ==
  ASSUME TspuTypeOK, NEW n \in Nat
  PROVE  /\ IsFiniteSet(obstructed \cap (1..n))
         /\ Cardinality(obstructed \cap (1..n)) \in Nat
<1>1. IsFiniteSet(1..n) BY FS_Interval
<1>2. IsFiniteSet(obstructed \cap (1..n)) BY <1>1, FS_Subset
<1> QED BY <1>2, FS_CardinalityType

LEMMA TspuInitInv == TspuInit => TspuInv
<1> SUFFICES ASSUME TspuInit PROVE TspuInv
  OBVIOUS
<1>1. TspuTypeOK
  <2>1. /\ canaries \in 0..MaxCanaries /\ setting \in Settings /\ obstructed \subseteq 1..canaries
        /\ disturbed \in BOOLEAN
    BY DEF TspuInit
  <2>2. /\ probed \in 0..canaries /\ blocked \in 0..probed /\ flips \in 0..MaxFlips
        /\ tspuCode = None
    BY <2>1, TspuAssumption DEF TspuInit
  <2> QED BY <2>1, <2>2 DEF TspuTypeOK
<1>2. Caused
  <2>1. obstructed \cap (1..probed) = {} BY DEF TspuInit
  <2>2. Cardinality(obstructed \cap (1..probed)) = 0 BY <2>1, FS_EmptySet
  <2> QED BY <2>2 DEF TspuInit, Caused
<1>3. Counted BY DEF TspuInit, Counted, None
<1> QED BY <1>1, <1>2, <1>3 DEF TspuInv

LEMMA CodesType ==
  {"ERROR_INTERNAL", "TSPU_ACTIVE", "OK"} \subseteq VerdictCode
BY DEF VerdictCode, HighConfidence, MediumConfidence, LowConfidence

LEMMA TspuStep ==
  ASSUME TspuInv, [TspuNext]_tspuVars
  PROVE  TspuInv'
<1> USE DEF TspuInv, TspuTypeOK, Caused, Counted, tspuVars, tspuSetup
<1>1. /\ canaries \in Nat /\ probed \in Nat /\ blocked \in Nat /\ flips \in Nat
      /\ Cardinality(obstructed \cap (1..probed)) \in Nat
  BY TspuAssumption, ObstructedFinite
<1>2. CASE Flip
  BY <1>1, <1>2, TspuAssumption DEF Flip, None
<1>3. CASE NoCanaries \/ CanaryRaises
  <2>1. /\ UNCHANGED <<canaries, setting, obstructed, probed, blocked, flips, disturbed>>
        /\ tspuCode' \in {"ERROR_INTERNAL", "raised"}
    BY <1>3 DEF NoCanaries, CanaryRaises
  <2>2. TspuTypeOK' BY <2>1, CodesType
  <2>3. Caused' BY <2>1
  <2>4. Counted' BY <2>1
  <2> QED BY <2>2, <2>3, <2>4
<1>4. CASE ProbeCanary
  <2>1. /\ probed' = probed + 1 /\ probed < canaries /\ disturbed' = FALSE
        /\ UNCHANGED <<canaries, setting, obstructed, flips, tspuCode>> /\ tspuCode = None
        /\ blocked' \in {blocked, blocked + 1}
    BY <1>4 DEF ProbeCanary
  <2>2. TspuTypeOK'
    <3>1. probed' \in 0..canaries /\ blocked' \in 0..probed' BY <1>1, <2>1
    <3> QED BY <2>1, <3>1
  <2>6. Counted' BY <2>1 DEF None
  <2>3. Cardinality(obstructed \cap (1..probed')) =
          Cardinality(obstructed \cap (1..probed))
            + (IF probed + 1 \in obstructed THEN 1 ELSE 0)
    <3>1. CASE probed + 1 \in obstructed
      <4>1. obstructed \cap (1..probed') = (obstructed \cap (1..probed)) \cup {probed + 1}
        BY <1>1, <2>1, <3>1
      <4>2. probed + 1 \notin obstructed \cap (1..probed) BY <1>1
      <4> QED BY <1>1, <3>1, <4>1, <4>2, ObstructedFinite, FS_AddElement
    <3>2. CASE probed + 1 \notin obstructed
      <4>1. obstructed \cap (1..probed') = obstructed \cap (1..probed)
        BY <1>1, <2>1, <3>2
      <4> QED BY <1>1, <3>2, <4>1
    <3> QED BY <3>1, <3>2
  <2>4. ASSUME probed + 1 \notin obstructed, ~disturbed
        PROVE  blocked' = blocked
    <3>1. CanaryOutcomes = NameUntouched BY <2>4 DEF CanaryOutcomes
    <3>2. \A c \in CanaryOutcomes : c \notin BlockedCodes
      BY <3>1 DEF NameUntouched, BlockedCodes
    <3> QED BY <1>4, <3>2 DEF ProbeCanary
  <2>5. Caused' BY <1>1, <2>1, <2>3, <2>4
  <2> QED BY <2>2, <2>5, <2>6
<1>5. CASE Count
  <2>1. setting \in Setting BY SettingsAssumption
  <2>2. Quorum' = Quorum BY <1>5 DEF Count, Quorum
  <2>3. Quorum \in Nat BY <1>1, <1>5, <2>1, QuorumWithin DEF Count
  <2> QED BY <1>1, <1>5, <2>2, <2>3, CodesType DEF Count
<1>6. CASE UNCHANGED tspuVars BY <1>6 DEF Quorum
<1> QED BY <1>2, <1>3, <1>4, <1>5, <1>6 DEF TspuNext

LEMMA TspuInvariant == TspuSpec => []TspuInv
BY TspuInitInv, TspuStep, PTL DEF TspuSpec

\* Type correctness.
THEOREM TspuTypeCorrect == TspuSpec => []TspuTypeOK
<1>1. TspuInv => TspuTypeOK BY DEF TspuInv
<1> QED BY <1>1, TspuInvariant, PTL

\* TSPU_ACTIVE takes a quorum of blocked sessions or of changes of the path.
THEOREM ActiveHasCauseCorrect == TspuSpec => []ActiveHasCause
<1>1. TspuInv => ActiveHasCause
  <2> SUFFICES ASSUME TspuInv, tspuCode = "TSPU_ACTIVE"
               PROVE  Cardinality(obstructed) + flips >= Quorum
    BY DEF ActiveHasCause
  <2>1. /\ canaries \in Nat /\ canaries > 0 /\ probed = canaries /\ blocked >= Quorum
        /\ blocked \in Nat /\ flips \in Nat /\ setting \in Setting
    BY TspuAssumption, SettingsAssumption DEF TspuInv, TspuTypeOK, Counted
  <2>2. obstructed \cap (1..probed) = obstructed BY <2>1 DEF TspuInv, TspuTypeOK
  <2>3. Cardinality(obstructed) \in Nat BY <2>1, <2>2, ObstructedFinite DEF TspuInv
  <2>4. Quorum \in Nat BY <2>1, QuorumWithin
  <2>5. blocked <= Cardinality(obstructed) + flips
    BY <2>1, <2>2, <2>3 DEF TspuInv, Caused
  <2> QED BY <2>1, <2>3, <2>4, <2>5
<1> QED BY <1>1, TspuInvariant, PTL

\* Canaries that are all blocked are a quorum.
THEOREM UnanimityActiveCorrect == TspuSpec => []UnanimityActive
<1>1. TspuInv => UnanimityActive
  <2> SUFFICES ASSUME TspuInv, tspuCode \in {"OK", "TSPU_ACTIVE"}, blocked = canaries,
                      canaries >= 2 \/ setting.by = "absolute"
               PROVE  tspuCode = "TSPU_ACTIVE"
    BY DEF UnanimityActive
  <2>1. /\ canaries \in Nat /\ canaries > 0 /\ setting \in Setting
        /\ tspuCode = "TSPU_ACTIVE" <=> blocked >= Quorum
    BY TspuAssumption, SettingsAssumption DEF TspuInv, TspuTypeOK, Counted
  <2>2. Quorum \in Nat /\ Quorum <= canaries BY <2>1, QuorumWithin
  <2> QED BY <2>1, <2>2
<1> QED BY <1>1, TspuInvariant, PTL

-------------------------------------------------------------------------------
(***************************************************************************)
(* A run of OtherKinds is a run of one probe, of which the two others see  *)
(* nothing: each of the three either keeps its own specification or is     *)
(* over from the start and stays so.                                       *)
(***************************************************************************)

LEMMA KindsStep ==
  [KindsNext]_kindVars =>
    [AppNext]_appVars /\ [OneShotNext]_oneShotVars /\ [TspuNext]_tspuVars
BY DEF KindsNext, kindVars

LEMMA KindsStart ==
  KindsInit =>
    /\ AppInit \/ NoAppProbe
    /\ ProbesInit \/ NoOneShotProbe
    /\ TspuInit \/ NoTspuProbe
BY DEF KindsInit

LEMMA NoAppProbeStays ==
  NoAppProbe /\ [AppNext]_appVars => NoAppProbe'
<1> SUFFICES ASSUME NoAppProbe, [AppNext]_appVars PROVE NoAppProbe'
  OBVIOUS
<1>1. phase = "done" BY DEF NoAppProbe
<1>2. ~AppNext
  BY <1>1
  DEF AppNext, Resolve, ResolveFailed, ResolveDone, ResolveRaised, ConnectFails,
      Connected, HandshakeFails, HandshakeRaises, Handshaken, SendFails, Sent, BannerReset,
      BannerTimesOut, BannerError, BannerRead, BannerEnds, AppTick, Blocking,
      JudgeTarget, JudgeFollowup, TimedOut
<1> QED
  BY <1>2 DEF NoAppProbe, LookupInit, appVars, lookupVars, probeVars, setup, outcomeVars

LEMMA NoOneShotProbeStays ==
  NoOneShotProbe /\ [OneShotNext]_oneShotVars => NoOneShotProbe'
<1> SUFFICES ASSUME NoOneShotProbe, [OneShotNext]_oneShotVars PROVE NoOneShotProbe'
  OBVIOUS
<1>1. step = "done" BY DEF NoOneShotProbe
<1>2. UNCHANGED oneShotVars BY <1>1, DoneStands
<1> QED
  BY <1>2
  DEF NoOneShotProbe, Dns!LookupInit, DatagramInit, StreamInit, oneShotVars, dnsState,
      attemptVars, streamVars, peerVars

LEMMA NoTspuProbeStays ==
  NoTspuProbe /\ [TspuNext]_tspuVars => NoTspuProbe'
<1> SUFFICES ASSUME NoTspuProbe, [TspuNext]_tspuVars PROVE NoTspuProbe'
  OBVIOUS
<1>1. tspuCode # None BY DEF NoTspuProbe, None
<1>2. ~TspuNext
  BY <1>1 DEF TspuNext, Flip, NoCanaries, ProbeCanary, CanaryRaises, Count
<1> QED BY <1>2 DEF NoTspuProbe, tspuVars, tspuSetup

\* Every run that main dispatches keeps the specification of each probe that it
\* is about: main adds no behaviour to theirs.
THEOREM KindsImplementProbes ==
  KindsSpec => /\ AppSpec \/ []NoAppProbe
               /\ OneShotSpec \/ []NoOneShotProbe
               /\ TspuSpec \/ []NoTspuProbe
BY KindsStep, KindsStart, NoAppProbeStays, NoOneShotProbeStays, NoTspuProbeStays, PTL
DEF KindsSpec, AppSpec, OneShotSpec, TspuSpec

-------------------------------------------------------------------------------
(***************************************************************************)
(* What is proved of each probe holds of every run.                        *)
(***************************************************************************)

LEMMA NoAppProbeKeeps ==
  ASSUME NoAppProbe
  PROVE  /\ AppTypeOK /\ OkMeansThrough /\ FingerprintHasEvidence
         /\ SmtpsDiscriminatorPossible /\ AppWorstCase /\ AppFollowupsEndSoon
<1>1. AppTypeOK
  <2>1. kind \in Kinds /\ net \in Networks
    BY KindsAssumption DEF NoAppProbe
  <2>2. attempt \in Attempt BY LookupAssumption DEF NoAppProbe, Attempt
  <2>3. chunks \in 0..BannerReads /\ followed \in 0..MaxDohFollowups
    BY AppAssumption DEF NoAppProbe
  <2> QED BY <2>1, <2>2, <2>3 DEF NoAppProbe, LookupInit, AppTypeOK
<1>2. OkMeansThrough /\ FingerprintHasEvidence /\ SmtpsDiscriminatorPossible
  BY DEF NoAppProbe, OkMeansThrough, FingerprintHasEvidence,
         SmtpsDiscriminatorPossible, None
<1>3. AppWorstCase
  <2>1. now = 0 BY DEF NoAppProbe, LookupInit
  <2> QED BY <1>1, <2>1, LimitOfKind DEF AppWorstCase, Limit
<1>4. AppFollowupsEndSoon BY DEF NoAppProbe, AppFollowupsEndSoon
<1> QED BY <1>1, <1>2, <1>3, <1>4

LEMMA NoOneShotProbeKeeps ==
  ASSUME NoOneShotProbe
  PROVE  /\ OneShotTypeOK /\ SilenceIsWaitedOut /\ ResetClassified
         /\ OkMeansPushed /\ ResetHasEvidence /\ OneShotWorstCase
<1>1. OneShotTypeOK
  <2>1. proto \in Protocols BY KindsAssumption DEF NoOneShotProbe
  <2>2. unsent \in 0..Fragments /\ reads \in 0..HandshakeReads
    BY StreamAssumption DEF NoOneShotProbe, StreamInit
  <2> QED
    BY <2>1, <2>2
    DEF NoOneShotProbe, Dns!LookupInit, DatagramInit, StreamInit, OneShotTypeOK
<1>2. SilenceIsWaitedOut /\ ResetClassified /\ OkMeansPushed /\ ResetHasEvidence
  BY DEF NoOneShotProbe, DatagramInit, SilenceIsWaitedOut, ResetClassified,
         OkMeansPushed, ResetHasEvidence, None
<1>3. OneShotWorstCase
  <2>1. clock = 0 BY DEF NoOneShotProbe, Dns!LookupInit
  <2>2. /\ HandshakeReads * PerRead \in Nat
        /\ Chunk * (Base + 2 * Timeout) \in Nat
        /\ (Body + Chunk) * PerChunk \in Nat
    BY <1>1, TimeType, Products
  <2>3. Chunk * clock = 0 BY <1>1, <2>1, TimeType
  <2>4. Base \in Nat /\ Timeout \in Nat BY <1>1, TimeType
  <2> QED BY <2>1, <2>2, <2>3, <2>4 DEF OneShotWorstCase, Base, PerChunk, PerRead
<1> QED BY <1>1, <1>2, <1>3

LEMMA NoTspuProbeKeeps ==
  ASSUME NoTspuProbe
  PROVE  TspuTypeOK /\ ActiveHasCause /\ UnanimityActive
<1>1. setting \in Settings BY KindsAssumption DEF NoTspuProbe
<1>2. /\ canaries \in 0..MaxCanaries /\ probed \in 0..canaries /\ blocked \in 0..probed
      /\ flips \in 0..MaxFlips
  BY TspuAssumption DEF NoTspuProbe
<1>3. TspuTypeOK BY <1>1, <1>2, CodesType DEF NoTspuProbe, TspuTypeOK
<1> QED BY <1>3 DEF NoTspuProbe, ActiveHasCause, UnanimityActive

\* smtp, smtps, ssh and rdp: no OK, no fingerprint and no accusation that the
\* network does not bear out, and in time.
THEOREM KindsKeepAppPromises ==
  KindsSpec => [](/\ AppTypeOK /\ OkMeansThrough /\ FingerprintHasEvidence
                  /\ SmtpsDiscriminatorPossible /\ AppWorstCase /\ AppFollowupsEndSoon)
BY KindsImplementProbes, NoAppProbeKeeps, AppTypeCorrect, OkMeansThroughCorrect,
   FingerprintHasEvidenceCorrect, SmtpsDiscriminatorPossibleCorrect,
   AppWorstCaseCorrect, AppFollowupsEndSoonCorrect, PTL

\* The probes of one attempt: silence is waited out, a reset is what its position
\* makes it, OK is a push that went through, accusations have evidence, in time.
THEOREM KindsKeepOneShotPromises ==
  KindsSpec => [](/\ OneShotTypeOK /\ SilenceIsWaitedOut /\ ResetClassified
                  /\ OkMeansPushed /\ ResetHasEvidence /\ OneShotWorstCase)
BY KindsImplementProbes, NoOneShotProbeKeeps, OneShotTypeCorrect,
   SilenceIsWaitedOutCorrect, ResetClassifiedCorrect, OkMeansPushedCorrect,
   ResetHasEvidenceCorrect, OneShotWorstCaseCorrect, PTL

\* tspu-liveness: TSPU_ACTIVE has a quorum's cause, and unanimity is a quorum.
THEOREM KindsKeepTspuPromises ==
  KindsSpec => [](TspuTypeOK /\ ActiveHasCause /\ UnanimityActive)
BY KindsImplementProbes, NoTspuProbeKeeps, TspuTypeCorrect, ActiveHasCauseCorrect,
   UnanimityActiveCorrect, PTL

LEMMA TspuCodes ==
  TspuSpec => [](tspuCode \in {None, "raised", "ERROR_INTERNAL", "TSPU_ACTIVE", "OK"})
<1> DEFINE CodeGiven == tspuCode \in {None, "raised", "ERROR_INTERNAL", "TSPU_ACTIVE", "OK"}
<1>1. TspuInit => CodeGiven BY DEF TspuInit
<1>2. CodeGiven /\ [TspuNext]_tspuVars => CodeGiven'
  BY DEF TspuNext, Flip, NoCanaries, ProbeCanary, CanaryRaises, Count, tspuVars
<1> HIDE DEF CodeGiven
<1>3. TspuSpec => []CodeGiven BY <1>1, <1>2, PTL DEF TspuSpec
<1> QED BY <1>3 DEF CodeGiven

\* What has come back, and what it says.
AnswersOf(c) ==
  \/ phase = "done" /\ c = verdict
  \/ step = "done" /\ c = code
  \/ tspuCode \notin {None, "raised"} /\ c = tspuCode

\* Only the control probe says that the vantage is down: whichever of these
\* probes main dispatches to, what comes back of the target is another verdict.
THEOREM NobodyElseSaysUnavailable ==
  KindsSpec =>
    [](\A c : AnswersOf(c) /\ c # None => c \in VerdictCode \ {"VANTAGE_UNAVAILABLE"})
<1> DEFINE App == phase = "done" => verdict \in VerdictCode \ {"VANTAGE_UNAVAILABLE"}
           OneShotCode == step = "done" => code \in VerdictCode \ {"VANTAGE_UNAVAILABLE"}
           TspuOwn == tspuCode \in {None, "raised", "ERROR_INTERNAL", "TSPU_ACTIVE", "OK"}
           Goal == \A c : AnswersOf(c) /\ c # None => c \in VerdictCode \ {"VANTAGE_UNAVAILABLE"}
<1>1. NoAppProbe => verdict = None BY DEF NoAppProbe
<1>2. NoOneShotProbe => code = None BY DEF NoOneShotProbe
<1>3. NoTspuProbe => TspuOwn BY DEF NoTspuProbe
<1>4. /\ App \/ verdict = None
      /\ OneShotCode \/ code = None
      /\ TspuOwn
      => Goal
  <2>1. {"ERROR_INTERNAL", "TSPU_ACTIVE", "OK"} \subseteq VerdictCode \ {"VANTAGE_UNAVAILABLE"}
    BY CodesType
  <2> QED BY <2>1 DEF AnswersOf
<1>5. AppSpec => []App BY AppVerdictGiven
<1>6. OneShotSpec => []OneShotCode BY OneShotVerdictGiven
<1>7. TspuSpec => []TspuOwn BY TspuCodes
<1> HIDE DEF App, OneShotCode, TspuOwn, Goal
<1>8. KindsSpec => []Goal
  BY <1>1, <1>2, <1>3, <1>4, <1>5, <1>6, <1>7, KindsImplementProbes, PTL
<1> QED BY <1>8 DEF Goal
===============================================================================
