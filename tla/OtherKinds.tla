------------------------------ MODULE OtherKinds ------------------------------
(***************************************************************************)
(* What main dispatches to beside https and rdgw (dpi_probe.py:217-310): a *)
(* run of dpi_probe is a run of AppProbe, of a one-shot probe or of        *)
(* TspuLiveness.  The two that a run is not about are over from the start. *)
(***************************************************************************)
EXTENDS AppProbe, OneShotProbes, TspuLiveness

\* main dispatches to probes of each of the three families.
ASSUME KindsAssumption ==
  Kinds # {} /\ Networks # {} /\ Protocols # {} /\ Settings # {}

kindVars == <<appVars, oneShotVars, tspuVars>>

NoAppProbe ==
  /\ LookupInit
  /\ kind = CHOOSE k \in Kinds : TRUE
  /\ certFp = FALSE
  /\ net = CHOOSE n \in Networks : TRUE
  /\ phase = "done"
  /\ attempt = [kind |-> "target", ip |-> NoAddr, timeout |-> Timeout]
  /\ expires = 0 /\ chunks = 0 /\ followed = 0 /\ untried = {}
  /\ result = None /\ verdict = None /\ discriminator = None

NoOneShotProbe ==
  /\ Dns!LookupInit
  /\ proto = CHOOSE p \in Protocols : TRUE
  /\ step = "done"
  /\ began = 0 /\ deadline = 0
  /\ code = None /\ accused = None
  /\ DatagramInit /\ StreamInit

NoTspuProbe ==
  /\ canaries = 0 /\ obstructed = {}
  /\ setting = CHOOSE s \in Settings : TRUE
  /\ probed = 0 /\ blocked = 0 /\ flips = 0 /\ disturbed = FALSE
  /\ tspuCode = "ERROR_INTERNAL"

KindsInit ==
  \/ AppInit /\ NoOneShotProbe /\ NoTspuProbe
  \/ NoAppProbe /\ ProbesInit /\ NoTspuProbe
  \/ NoAppProbe /\ NoOneShotProbe /\ TspuInit

KindsNext ==
  \/ AppNext /\ UNCHANGED <<oneShotVars, tspuVars>>
  \/ OneShotNext /\ UNCHANGED <<appVars, tspuVars>>
  \/ TspuNext /\ UNCHANGED <<appVars, oneShotVars>>

KindsSpec == KindsInit /\ [][KindsNext]_kindVars

\* Fair to whichever runs.
FairKindsSpec ==
  KindsSpec /\ WF_kindVars(\/ Computes /\ UNCHANGED <<oneShotVars, tspuVars>>
                           \/ ComesBack /\ UNCHANGED <<appVars, tspuVars>>)
===============================================================================
