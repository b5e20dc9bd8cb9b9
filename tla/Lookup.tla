-------------------------------- MODULE Lookup --------------------------------
(***************************************************************************)
(* What resolve_with_doh_check promises the probes that call it, without   *)
(* its threads: it returns within the timeout and the wait for DoH, once,  *)
(* with or without an address and with what DoH knows, all in one step;    *)
(* only a lookup that has used up the timeout may raise instead.           *)
(* HttpsProbe, with the threads of Resolver, implements it.                *)
(***************************************************************************)
EXTENDS Naturals, LookupInput

CONSTANT Addr  \* IPv4 addresses

NoAddr == "NO_ADDR"

ASSUME LookupAssumption ==
  Timeout \in Nat \ {0} /\ DohWait \in Nat \ {0} /\ NoAddr \notin Addr

VARIABLES
  now,       \* the clock, from the start of the call
  returned,  \* "no", "yes" or "raised"
  ip,        \* the address returned, res.ip
  known      \* the addresses DoH knows, res.doh_ips

lookupVars == <<now, returned, ip, known>>

LookupInit ==
  /\ now = 0
  /\ returned = "no"
  /\ ip = NoAddr
  /\ known = {}

Wait ==
  /\ returned = "no"
  /\ now < Timeout + DohWait
  /\ now' = now + 1
  /\ UNCHANGED <<returned, ip, known>>

Answer ==
  /\ returned = "no"
  /\ returned' = "yes"
  /\ ip' \in Addr \cup {NoAddr}
  /\ known' \in SUBSET Addr
  /\ UNCHANGED now

Raise ==
  /\ returned = "no"
  /\ now >= Timeout
  /\ returned' = "raised"
  /\ UNCHANGED <<now, ip, known>>

\* The caller goes on, and keeps what it was given.
Elapse ==
  /\ returned # "no"
  /\ now' = now + 1
  /\ UNCHANGED <<returned, ip, known>>

LookupNext == Wait \/ Answer \/ Raise \/ Elapse

LookupSpec == LookupInit /\ [][LookupNext]_lookupVars
===============================================================================
