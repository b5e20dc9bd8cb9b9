------------------------------- MODULE CliProofs -------------------------------
(***************************************************************************)
(* Proofs about DpiProbe: the command line runs the https probe as it is,  *)
(* so what holds of the probe holds of the run, and its own promises to    *)
(* Zabbix, for every set of invocations, networks and timeouts.            *)
(***************************************************************************)
EXTENDS DpiProbe, HttpsProofs

allVars == <<cliVars, httpsVars>>

\* A step of the run is one of the probe or leaves the probe alone.
THEOREM CliImplementsHttps == CliSpec => HttpsSpec
<1>1. CliInit => HttpsInit BY DEF CliInit
<1>2. ASSUME [CliNext]_allVars PROVE [HttpsNext]_httpsVars
  <2>1. CASE Main
    BY <2>1
    DEF Main, BadArguments, BadConfig, Begin, ControlConnectFails, ControlConnected,
        ControlHandshake, ControlRaises, ControlOnlyDone, ControlRefuses,
        ControlAdmits, TargetReport, OtherReport, UnknownKind
  <2>2. CASE TargetProbe BY <2>2 DEF TargetProbe
  <2>3. CASE UNCHANGED allVars BY <2>3 DEF allVars
  <2> QED BY <1>2, <2>1, <2>2, <2>3 DEF CliNext
<1> QED BY <1>1, <1>2, PTL DEF CliSpec, HttpsSpec, allVars

\* What the resolver and the https probe promise, of a whole run: answers in
\* time are used, a lie has a witness, a diagnosis is possible, follow-ups end
\* soon, a handshake that succeeded stays a success, and Lookup is implemented.
THEOREM RunKeepsProbePromises ==
  CliSpec => /\ [](/\ AnswerInTimeIsKept /\ LieNeedsWitness
                   /\ DiscriminatorPossible /\ FollowupsEndSoon)
             /\ HandshakeIsOK
             /\ KeepsLookupPromise
BY CliImplementsHttps, AnswerInTimeIsKeptCorrect, LieNeedsWitnessCorrect,
   DiscriminatorPossibleCorrect, FollowupsEndSoonCorrect, HandshakeIsOKCorrect,
   HttpsImplementsLookup, PTL

\* A run's probe ends within the four timeouts and the DoH wait.
THEOREM RunWorstCase ==
  ASSUME 2 * MinScan <= Timeout
  PROVE  CliSpec => []WorstCase
BY CliImplementsHttps, WorstCaseCorrect, PTL

-------------------------------------------------------------------------------
(***************************************************************************)
(* The line and the exit status.                                           *)
(***************************************************************************)

\* Nothing is printed before the exit, and the exit prints.
LineAtExit ==
  /\ cli # "exited" => lines = <<>> /\ status = None /\ lost = FALSE
  /\ cli = "exited" =>
       \/ status = "0" /\ lost = FALSE /\ \E code \in VerdictCode : lines = <<code>>
       \/ status \in {"0", "120"} /\ lost = TRUE /\ lines = <<>>
       \/ status = "1" /\ lost = FALSE /\ lines = <<>>
  /\ cli = "control_done" => control \in VerdictCode

LEMMA ControlCodes ==
  {"TCP_RST_HANDSHAKE", "PORT_FILTERED", "REMOTE_DOWN", "ROUTE_BLACKHOLE", "OK",
   "TLS_RESET_POST_HELLO", "TLS_TIMEOUT", "ERROR_INTERNAL", "VANTAGE_UNAVAILABLE"}
    \subseteq VerdictCode
BY DEF VerdictCode, HighConfidence, MediumConfidence, LowConfidence

LEMMA EmitOnce ==
  ASSUME LineAtExit, cli # "exited", NEW code \in VerdictCode, Emit(code)
  PROVE  LineAtExit' /\ lines' \in {<<>>, <<code>>}
BY DEF LineAtExit, Emit, None

LEMMA LineAtExitStep ==
  ASSUME LineAtExit, HttpsInv, VerdictGiven, [CliNext]_allVars
  PROVE  LineAtExit'
<1>1. CASE BadArguments
  BY <1>1, EmitOnce, ControlCodes DEF BadArguments
<1>2. CASE BadConfig BY <1>2, EmitOnce, ControlCodes DEF BadConfig
<1>3. CASE Begin BY <1>3 DEF Begin, LineAtExit, output
<1>4. CASE ControlConnectFails \/ ControlConnected \/ ControlHandshake
  BY <1>4, ControlCodes
  DEF ControlConnectFails, ControlConnected, ControlHandshake, ControlReturns,
      LineAtExit, output
<1>5. CASE ControlRaises
  <2>1. CASE status' = "1" /\ cli' = "exited" /\ UNCHANGED <<lines, lost>>
    BY <1>5, <2>1 DEF ControlRaises, LineAtExit
  <2>2. CASE Emit("ERROR_INTERNAL")
    BY <1>5, <2>2, EmitOnce, ControlCodes DEF ControlRaises
  <2> QED BY <1>5, <2>1, <2>2 DEF ControlRaises
<1>6. CASE ControlOnlyDone
  BY <1>6, EmitOnce DEF ControlOnlyDone, LineAtExit
<1>7. CASE ControlRefuses
  BY <1>7, EmitOnce, ControlCodes DEF ControlRefuses
<1>8. CASE ControlAdmits BY <1>8 DEF ControlAdmits, LineAtExit, output
<1>9. CASE TargetReport
  <2>1. (IF phase = "raised" THEN "ERROR_INTERNAL" ELSE verdict) \in VerdictCode
    BY <1>9, ControlCodes
    DEF TargetReport, Finished, VerdictGiven, HttpsInv, HttpsTypeOK
  <2> QED BY <1>9, <2>1, EmitOnce DEF TargetReport
<1>10. CASE OtherReport
  <2>1. PICK code \in VerdictCode : Emit(code) BY <1>10 DEF OtherReport
  <2> QED BY <1>10, <2>1, EmitOnce DEF OtherReport
<1>11. CASE UnknownKind BY <1>11, EmitOnce, ControlCodes DEF UnknownKind
<1>12. CASE TargetProbe
  <2>1. UNCHANGED cliVars BY <1>12 DEF TargetProbe
  <2> QED BY <2>1 DEF cliVars, LineAtExit, output
<1>13. CASE UNCHANGED allVars BY <1>13 DEF allVars, cliVars, LineAtExit, output
<1> QED
  BY <1>1, <1>2, <1>3, <1>4, <1>5, <1>6, <1>7, <1>8, <1>9, <1>10, <1>11, <1>12,
     <1>13 DEF CliNext, Main

LEMMA LineAtExitInvariant == CliSpec => []LineAtExit
<1>1. CliInit => LineAtExit BY DEF CliInit, LineAtExit
<1>2. CliSpec => [](HttpsInv /\ VerdictGiven)
  BY CliImplementsHttps, VerdictGivenInvariant, PTL
<1> QED BY <1>1, <1>2, LineAtExitStep, PTL DEF CliSpec, allVars

LEMMA Printed ==
  ASSUME LineAtExit
  PROVE  /\ lines \in Seq(VerdictCode) /\ Len(lines) <= 1
         /\ lost \in BOOLEAN /\ status \in {None, "0", "1", "120"}
         /\ status = "0" => lost \/ Len(lines) = 1
         /\ cli = "exited" /\ Len(lines) = 1 => status = "0" /\ ~lost
<1>1. lost \in BOOLEAN /\ status \in {None, "0", "1", "120"}
  BY DEF LineAtExit
<1>2. CASE lines = <<>> /\ (status = "0" => lost)
  <2>1. Len(lines) = 0 /\ lines \in Seq(VerdictCode) BY <1>2
  <2> QED BY <1>1, <1>2, <2>1
<1>3. CASE cli = "exited" /\ status = "0" /\ ~lost
  <2>1. PICK code \in VerdictCode : lines = <<code>>
    BY <1>3 DEF LineAtExit
  <2>2. Len(lines) = 1 /\ lines \in Seq(VerdictCode) BY <2>1
  <2> QED BY <1>1, <1>3, <2>2
<1>4. \/ lines = <<>> /\ (status = "0" => lost)
      \/ cli = "exited" /\ status = "0" /\ ~lost
  BY DEF LineAtExit, None
<1> QED BY <1>2, <1>3, <1>4

\* One verdict per run.
THEOREM OneVerdictCorrect == CliSpec => []OneVerdict
<1>1. LineAtExit => OneVerdict BY Printed DEF OneVerdict
<1> QED BY <1>1, LineAtExitInvariant, PTL

\* The state of a run keeps its types.
THEOREM CliTypeCorrect == CliSpec => []CliTypeOK
<1> DEFINE Shape ==
      /\ call \in Invocations /\ uplink \in BOOLEAN
      /\ cli \in {"start", "control_connect", "control_tls", "control_done",
                  "target", "exited"}
      /\ control \in VerdictCode \cup {None}
<1>1. CliInit => Shape BY DEF CliInit
<1>2. ASSUME Shape, [CliNext]_allVars PROVE Shape'
  <2>1. CASE BadArguments \/ BadConfig \/ ControlOnlyDone \/ ControlRefuses
             \/ TargetReport \/ OtherReport \/ UnknownKind
    BY <1>2, <2>1
    DEF BadArguments, BadConfig, ControlOnlyDone, ControlRefuses, TargetReport,
        OtherReport, UnknownKind, Emit
  <2>2. CASE Begin \/ ControlConnected \/ ControlRaises \/ ControlAdmits
    BY <1>2, <2>2 DEF Begin, ControlConnected, ControlRaises, ControlAdmits, Emit
  <2>3. CASE ControlConnectFails \/ ControlHandshake
    BY <1>2, <2>3, ControlCodes
    DEF ControlConnectFails, ControlHandshake, ControlReturns
  <2>4. CASE TargetProbe \/ UNCHANGED allVars
    <3>1. UNCHANGED cliVars BY <2>4 DEF TargetProbe, allVars
    <3> QED BY <1>2, <3>1 DEF cliVars
  <2> QED BY <1>2, <2>1, <2>2, <2>3, <2>4 DEF CliNext, Main
<1>3. LineAtExit => lines \in Seq(VerdictCode) /\ lost \in BOOLEAN
                      /\ status \in {None, "0", "1", "120"}
  BY Printed
<1>4. CliSpec => []HttpsTypeOK BY CliImplementsHttps, HttpsTypeCorrect, PTL
<1>5. HttpsTypeOK /\ Shape /\ LineAtExit => CliTypeOK BY <1>3 DEF CliTypeOK
<1> HIDE DEF Shape
<1> QED BY <1>1, <1>2, <1>4, <1>5, LineAtExitInvariant, PTL DEF CliSpec, allVars

-------------------------------------------------------------------------------
(***************************************************************************)
(* A vantage without uplink.                                               *)
(***************************************************************************)

\* It never gets past the control probe.
HeldBack ==
  ~uplink /\ call.mode = "with_control" =>
    /\ cli \notin {"control_tls", "target"}
    /\ control # "OK"
    /\ \A n \in DOMAIN lines : lines[n] \in {"VANTAGE_UNAVAILABLE", "ERROR_INTERNAL"}

\* It accuses nobody.
THEOREM DownVantageAccusesNobodyCorrect == CliSpec => []DownVantageAccusesNobody
<1>1. CliInit => HeldBack BY DEF CliInit, HeldBack, None
<1>2. ASSUME HeldBack, LineAtExit, [CliNext]_allVars PROVE HeldBack'
  <2> SUFFICES ASSUME ~uplink', call'.mode = "with_control" PROVE HeldBack'
    BY DEF HeldBack
  <2>1. ~uplink /\ call.mode = "with_control"
    BY <1>2
    DEF CliNext, Main, BadArguments, BadConfig, Begin, ControlConnectFails,
        ControlConnected, ControlHandshake, ControlRaises, ControlOnlyDone,
        ControlRefuses, ControlAdmits, TargetReport, OtherReport, UnknownKind,
        TargetProbe, allVars, cliVars
  <2> USE <2>1 DEF HeldBack
  <2>2. ASSUME NEW code \in {"VANTAGE_UNAVAILABLE", "ERROR_INTERNAL"},
               Emit(code), cli # "exited", UNCHANGED control
        PROVE  HeldBack'
    <3>1. lines' \in {<<>>, <<code>>} /\ cli' = "exited"
      BY <1>2, <2>2 DEF Emit, LineAtExit
    <3> QED BY <1>2, <2>2, <3>1
  <2>3. CASE BadArguments \/ BadConfig \/ ControlRefuses
    BY <2>2, <2>3 DEF BadArguments, BadConfig, ControlRefuses
  <2>4. CASE Begin \/ ControlConnectFails
    BY <1>2, <2>4 DEF Begin, ControlConnectFails, ControlReturns, output
  <2>5. CASE ControlRaises BY <2>2, <2>5 DEF ControlRaises
  <2>6. ~(ControlConnected \/ ControlHandshake \/ ControlOnlyDone \/ ControlAdmits)
    BY <1>2 DEF ControlConnected, ControlHandshake, ControlOnlyDone, ControlAdmits
  <2>7. ~(TargetReport \/ OtherReport \/ UnknownKind \/ TargetProbe)
    BY <1>2 DEF TargetReport, OtherReport, UnknownKind, TargetProbe
  <2>8. CASE UNCHANGED allVars BY <1>2, <2>8 DEF allVars, cliVars, output
  <2> QED BY <1>2, <2>3, <2>4, <2>5, <2>6, <2>7, <2>8 DEF CliNext, Main
<1>3. HeldBack => DownVantageAccusesNobody
  BY DEF HeldBack, DownVantageAccusesNobody
<1> QED BY <1>1, <1>2, <1>3, LineAtExitInvariant, PTL DEF CliSpec, allVars
===============================================================================
