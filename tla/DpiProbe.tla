------------------------------- MODULE DpiProbe -------------------------------
(***************************************************************************)
(* One run of dpi_probe: arguments and control configuration, the control  *)
(* probe that decides whether this vantage can measure at all, the probe   *)
(* of the target (HttpsProbe for https and rdgw), and the one JSON line    *)
(* and exit status that Zabbix takes.                                      *)
(***************************************************************************)
EXTENDS HttpsProbe, Sequences

CONSTANT Invocations  \* how dpi_probe is called, see Invocation

\* mode: no flag, --with-control or --control-only; kind: one that HttpsProbe
\* probes, another one, or an unknown one; args: whether argparse accepts them;
\* config: whether the DPI_CONTROL_* variables do parse.
Invocation ==
  [mode : {"plain", "with_control", "control_only"},
   kind : {"https", "other", "unknown"},
   args : {"good", "bad"}, config : {"good", "bad"}]

ASSUME InvocationsAssumption == Invocations \subseteq Invocation

VARIABLES
  call,     \* this run's invocation
  uplink,   \* the vantage reaches the control host; fixed during a run
  cli,      \* where main is
  control,  \* the control probe's verdict
  lines,    \* the verdicts printed
  lost,     \* a verdict could not be written to standard output
  status    \* the exit status

output == <<lines, lost, status>>

cliVars == <<call, uplink, cli, control, output>>

CliInit ==
  /\ HttpsInit
  /\ call \in Invocations
  /\ uplink \in BOOLEAN
  /\ cli = "start"
  /\ control = None
  /\ lines = <<>>
  /\ lost = FALSE
  /\ status = None

\* _emit: print the line, whatever comes of it, and raise SystemExit(0).  Where
\* the write failed the interpreter's own last flush fails as well and makes the
\* status 120, unless standard output was closed from the start.
Emit(code) ==
  /\ \/ lines' = Append(lines, code) /\ status' = "0" /\ UNCHANGED lost
     \/ lost' = TRUE /\ status' \in {"0", "120"} /\ UNCHANGED lines
  /\ cli' = "exited"

-------------------------------------------------------------------------------
(***************************************************************************)
(* main, up to the control probe.                                          *)
(***************************************************************************)

BadArguments ==
  /\ cli = "start" /\ call.args = "bad"
  /\ Emit("ERROR_INTERNAL")
  /\ UNCHANGED <<call, uplink, control, httpsVars>>

\* The configuration is read always, but only matters to a control probe.
BadConfig ==
  /\ cli = "start" /\ call.args = "good"
  /\ call.mode # "plain" /\ call.config = "bad"
  /\ Emit("ERROR_INTERNAL")
  /\ UNCHANGED <<call, uplink, control, httpsVars>>

Begin ==
  /\ cli = "start" /\ call.args = "good"
  /\ call.mode = "plain" \/ call.config = "good"
  /\ cli' = IF call.mode = "plain" THEN "target" ELSE "control_connect"
  /\ UNCHANGED <<call, uplink, control, output, httpsVars>>

-------------------------------------------------------------------------------
(***************************************************************************)
(* probe_control.                                                          *)
(***************************************************************************)

ControlReturns(code) ==
  /\ control' = code
  /\ cli' = "control_done"

\* Reset, timeout, refused, any other OSError.
ControlConnectFails ==
  /\ cli = "control_connect"
  /\ \E code \in {"TCP_RST_HANDSHAKE", "PORT_FILTERED", "REMOTE_DOWN",
                  "ROUTE_BLACKHOLE"} : ControlReturns(code)
  /\ UNCHANGED <<call, uplink, output, httpsVars>>

ControlConnected ==
  /\ cli = "control_connect" /\ uplink
  /\ cli' = "control_tls"
  /\ UNCHANGED <<call, uplink, control, output, httpsVars>>

\* The handshake completes; reset, timeout, SSL error, any other OSError.
ControlHandshake ==
  /\ cli = "control_tls"
  /\ \E code \in {"OK", "TLS_RESET_POST_HELLO", "TLS_TIMEOUT", "ERROR_INTERNAL"} :
       ControlReturns(code)
  /\ UNCHANGED <<call, uplink, output, httpsVars>>

\* An exception that is no OSError (a host name that cannot be encoded), or one
\* of socket() itself: main's except clause has it, unless --control-only.
ControlRaises ==
  /\ cli = "control_connect"
  /\ IF call.mode = "control_only"
       THEN status' = "1" /\ cli' = "exited" /\ UNCHANGED <<lines, lost>>
       ELSE Emit("ERROR_INTERNAL")
  /\ UNCHANGED <<call, uplink, control, httpsVars>>

ControlOnlyDone ==
  /\ cli = "control_done" /\ call.mode = "control_only"
  /\ Emit(control)
  /\ UNCHANGED <<call, uplink, control, httpsVars>>

\* Faulty variant: the run goes on to the target after VANTAGE_UNAVAILABLE.
ControlRefusesAndGoesOn ==
  /\ cli = "control_done" /\ call.mode = "with_control" /\ control # "OK"
  /\ lines' = Append(lines, "VANTAGE_UNAVAILABLE")
  /\ cli' = "target"
  /\ UNCHANGED <<call, uplink, control, lost, status, httpsVars>>

ControlRefuses ==
  /\ cli = "control_done" /\ call.mode = "with_control" /\ control # "OK"
  /\ Emit("VANTAGE_UNAVAILABLE")
  /\ UNCHANGED <<call, uplink, control, httpsVars>>

\* Faulty variant: only an unreachable control host stops the run.
ControlAdmitsTlsFailure ==
  /\ cli = "control_done" /\ call.mode = "with_control"
  /\ control \notin {"PORT_FILTERED", "ROUTE_BLACKHOLE"}
  /\ cli' = "target"
  /\ UNCHANGED <<call, uplink, control, output, httpsVars>>

ControlAdmits ==
  /\ cli = "control_done" /\ call.mode = "with_control" /\ control = "OK"
  /\ cli' = "target"
  /\ UNCHANGED <<call, uplink, control, output, httpsVars>>

-------------------------------------------------------------------------------
(***************************************************************************)
(* main, the target.                                                       *)
(***************************************************************************)

TargetProbe ==
  /\ cli = "target" /\ call.kind = "https"
  /\ HttpsNext
  /\ UNCHANGED cliVars

\* The probe's verdict, or the exception it lets through, is reported.
TargetReport ==
  /\ cli = "target" /\ call.kind = "https" /\ Finished
  /\ Emit(IF phase = "raised" THEN "ERROR_INTERNAL" ELSE verdict)
  /\ UNCHANGED <<call, uplink, control, httpsVars>>

\* Another probe answers anything, or raises.
OtherReport ==
  /\ cli = "target" /\ call.kind = "other"
  /\ \E code \in VerdictCode \ {"VANTAGE_UNAVAILABLE"} : Emit(code)
  /\ UNCHANGED <<call, uplink, control, httpsVars>>

UnknownKind ==
  /\ cli = "target" /\ call.kind = "unknown"
  /\ Emit("ERROR_INTERNAL")
  /\ UNCHANGED <<call, uplink, control, httpsVars>>

Main ==
  \/ BadArguments \/ BadConfig \/ Begin
  \/ ControlConnectFails \/ ControlConnected \/ ControlHandshake \/ ControlRaises
  \/ ControlOnlyDone \/ ControlRefuses \/ ControlAdmits
  \/ TargetReport \/ OtherReport \/ UnknownKind

CliNext == Main \/ TargetProbe

CliSpec == CliInit /\ [][CliNext]_<<cliVars, httpsVars>>

\* As in FairHttpsSpec; the control host need not answer either, but the control
\* probe's socket has a timeout, and so have the other probes'.
FairCliSpec ==
  /\ CliSpec
  /\ WF_<<cliVars, httpsVars>>(TargetProbe /\ Computes)
  /\ WF_<<cliVars, httpsVars>>(Main)

-------------------------------------------------------------------------------
(***************************************************************************)
(* Properties.                                                             *)
(***************************************************************************)

\* Type invariant.
CliTypeOK ==
  /\ HttpsTypeOK
  /\ call \in Invocations
  /\ uplink \in BOOLEAN
  /\ cli \in {"start", "control_connect", "control_tls", "control_done", "target",
              "exited"}
  /\ control \in VerdictCode \cup {None}
  /\ lines \in Seq(VerdictCode)
  /\ lost \in BOOLEAN
  /\ status \in {None, "0", "1", "120"}

\* "Prints one JSON line": a probe that exits with the status 0 Zabbix asks for
\* has printed exactly one verdict, unless it could not be written, no run
\* prints two, and a verdict printed is never spoilt by another status; although
\* _emit is called from inside the try whose except clause leads to another
\* _emit.  (--help probes nothing and is no run of this model.)
OneVerdict ==
  /\ Len(lines) <= 1
  /\ status = "0" => lost \/ Len(lines) = 1
  /\ cli = "exited" /\ Len(lines) = 1 => status = "0" /\ ~lost

\* A vantage that cannot reach the control host never passes judgement on a
\* target: whatever the target's probe would have seen, the line says that the
\* vantage is unavailable, or that the prober itself failed.
DownVantageAccusesNobody ==
  ~uplink /\ call.mode = "with_control" =>
    \A n \in DOMAIN lines : lines[n] \in {"VANTAGE_UNAVAILABLE", "ERROR_INTERNAL"}

\* The run ends, whoever stays silent.
Exits == <>(cli = "exited")
===============================================================================
