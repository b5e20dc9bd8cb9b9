----------------------------- MODULE TspuLiveness -----------------------------
(***************************************************************************)
(* probe_tspu_liveness: probes one canary after the other, names known to  *)
(* be blocked, and says TSPU_ACTIVE when enough of them are.  A canary's   *)
(* probe is HttpsProbe's; here it is one step, of which only the code      *)
(* matters, and the path may change while it runs.                         *)
(***************************************************************************)
EXTENDS Integers, FiniteSets, Verdicts

CONSTANTS
  MaxCanaries,  \* bound on the canaries configured
  MaxFlips,     \* bound on the changes of the path during a run
  Settings      \* the overrides of the quorum, see Setting

ASSUME TspuAssumption == MaxCanaries \in Nat /\ MaxFlips \in Nat

\* The override that decides; one that does not parse is passed over.  A ratio
\* is in percent.
Setting == [by : {"default", "absolute", "ratio"}, value : Int]

ASSUME SettingsAssumption == Settings \subseteq Setting

VARIABLES
  canaries,    \* how many are configured
  setting,     \* how their quorum is
  obstructed,  \* the canaries whose sessions do not come about on this path
  probed,      \* canaries probed so far
  blocked,     \* of these, the blocked ones
  flips,       \* how often the path has changed during the run
  disturbed,   \* it has while the present canary was probed
  tspuCode     \* the verdict, or that there is none

tspuSetup == <<canaries, setting, obstructed>>
tspuVars == <<tspuSetup, probed, blocked, flips, disturbed, tspuCode>>

TspuInit ==
  /\ canaries \in 0..MaxCanaries
  /\ setting \in Settings
  /\ obstructed \in SUBSET (1..canaries)
  /\ probed = 0
  /\ blocked = 0
  /\ flips = 0
  /\ disturbed = FALSE
  /\ tspuCode = None

\* Faulty variant: a canary that cannot be reached counts as blocked.
BlockedOrUnreachable ==
  {"TLS_TIMEOUT", "TLS_RESET_POST_HELLO", "TCP_RST_MID_STREAM", "DNS_LIE",
   "HTTP_STUB", "PORT_FILTERED"}

\* _BLOCKED_CODES
BlockedCodes ==
  {"TLS_TIMEOUT", "TLS_RESET_POST_HELLO", "TCP_RST_MID_STREAM", "DNS_LIE",
   "HTTP_STUB"}

\* What a canary's probe says of a path that lets its session through, and of
\* one that lets nothing through: nothing of its name.
NameUntouched ==
  {"OK", "REMOTE_DOWN", "PORT_FILTERED", "ROUTE_BLACKHOLE", "ERROR_INTERNAL"}

CanaryOutcomes ==
  IF probed + 1 \in obstructed \/ disturbed
    THEN NameUntouched \cup BlockedCodes \cup {"TCP_RST_HANDSHAKE", "CERT_MISMATCH"}
    ELSE NameUntouched

AtLeast(low, n) == IF n < low THEN low ELSE n

CeilDiv(n, d) == (n + d - 1) \div d

\* Faulty variant: more than all canaries may be asked for.
QuorumUnclamped ==
  CASE setting.by = "absolute" -> AtLeast(1, setting.value)
    [] setting.by = "ratio" /\ setting.value \in 1..100 ->
         AtLeast(1, CeilDiv(canaries * setting.value, 100))
    [] OTHER -> AtLeast(2, CeilDiv(canaries, 2))

\* _quorum
Quorum ==
  CASE setting.by = "absolute" ->
         AtLeast(1, IF setting.value < canaries THEN setting.value ELSE canaries)
    [] setting.by = "ratio" /\ setting.value \in 1..100 ->
         AtLeast(1, CeilDiv(canaries * setting.value, 100))
    [] OTHER -> AtLeast(2, CeilDiv(canaries, 2))

\* The path goes down, or comes up again.
Flip ==
  /\ tspuCode = None /\ flips < MaxFlips
  /\ flips' = flips + 1
  /\ disturbed' = TRUE
  /\ UNCHANGED <<tspuSetup, probed, blocked, tspuCode>>

NoCanaries ==
  /\ tspuCode = None /\ canaries = 0
  /\ tspuCode' = "ERROR_INTERNAL"
  /\ UNCHANGED <<tspuSetup, probed, blocked, flips, disturbed>>

ProbeCanary ==
  /\ tspuCode = None /\ probed < canaries
  /\ \E c \in CanaryOutcomes :
       blocked' = IF c \in BlockedCodes THEN blocked + 1 ELSE blocked
  /\ probed' = probed + 1
  /\ disturbed' = FALSE
  /\ UNCHANGED <<tspuSetup, flips, tspuCode>>

\* What one canary's probe raises ends the run, whatever the others gave.
CanaryRaises ==
  /\ tspuCode = None /\ probed < canaries
  /\ tspuCode' = "raised"
  /\ UNCHANGED <<tspuSetup, probed, blocked, flips, disturbed>>

Count ==
  /\ tspuCode = None /\ probed = canaries /\ canaries > 0
  /\ tspuCode' = IF blocked >= Quorum THEN "TSPU_ACTIVE" ELSE "OK"
  /\ UNCHANGED <<tspuSetup, probed, blocked, flips, disturbed>>

TspuNext == Flip \/ NoCanaries \/ ProbeCanary \/ CanaryRaises \/ Count

TspuSpec == TspuInit /\ [][TspuNext]_tspuVars

-------------------------------------------------------------------------------
(***************************************************************************)
(* Properties.                                                             *)
(***************************************************************************)

\* Type invariant.
TspuTypeOK ==
  /\ canaries \in 0..MaxCanaries /\ setting \in Settings
  /\ obstructed \subseteq 1..canaries
  /\ probed \in 0..canaries /\ blocked \in 0..probed
  /\ flips \in 0..MaxFlips /\ disturbed \in BOOLEAN
  /\ tspuCode \in VerdictCode \cup {None, "raised"}

\* TSPU_ACTIVE, which raises the vantage's own trigger, takes as many blocked
\* sessions as its quorum, or changes of the path to mistake for them, each
\* for one at most: a vantage that has lost its network does not say so.
ActiveHasCause ==
  tspuCode = "TSPU_ACTIVE" => Cardinality(obstructed) + flips >= Quorum

\* When every canary is blocked the verdict is TSPU_ACTIVE, however the quorum
\* is configured, but for a single canary and the default quorum of two.
UnanimityActive ==
  tspuCode \in {"OK", "TSPU_ACTIVE"} /\ blocked = canaries
    /\ (canaries >= 2 \/ setting.by = "absolute")
  => tspuCode = "TSPU_ACTIVE"
===============================================================================
