------------------------------- MODULE OneShot -------------------------------
(***************************************************************************)
(* What the probes have in common that make one attempt, with no follow-up *)
(* and no certificate to check: wireguard, wg-handshake, openvpn,          *)
(* https-bytes and tls-frag.  The DNS phase is Lookup's, on the probe's    *)
(* clock; the blocking calls after it come one by one, each with a timeout *)
(* of its own.                                                             *)
(***************************************************************************)
EXTENDS Naturals, LookupInput, Verdicts

CONSTANTS
  Hosts,     \* IPv4 addresses the target's name may resolve to
  Protocols  \* the probes of this family; openvpn has two transports

Datagrams == {"wireguard", "wg-handshake", "openvpn-udp"}
Streams == {"openvpn-tcp", "https-bytes", "tls-frag"}

ASSUME OneShotAssumption ==
  /\ Timeout \in Nat \ {0} /\ DohWait \in Nat \ {0} /\ "NO_ADDR" \notin Hosts
  /\ Protocols \subseteq Datagrams \cup Streams

VARIABLES
  clock,     \* the time since the start of the probe
  answered,  \* whether the lookup has returned
  addr,      \* the address it gave, res.ip
  dohIps,    \* the addresses DoH knows, res.doh_ips
  proto,     \* the probe that runs
  step,      \* the blocking call it is at
  began,     \* when this call began
  deadline,  \* when this call times out
  code,      \* the verdict's code
  accused    \* the verdict's discriminator

Dns == INSTANCE Lookup
         WITH Addr <- Hosts, now <- clock, returned <- answered, ip <- addr,
              known <- dohIps

dnsState == <<clock, answered, addr, dohIps>>
attemptVars == <<step, began, deadline, code, accused>>

OneShotInit ==
  /\ Dns!LookupInit
  /\ proto \in Protocols
  /\ step = "resolve"
  /\ began = 0
  /\ deadline = Timeout
  /\ code = None
  /\ accused = None

-------------------------------------------------------------------------------
(***************************************************************************)
(* Pieces of steps.                                                        *)
(***************************************************************************)

\* The next blocking call starts, with this timeout.
Begin(call, timeout) ==
  /\ step' = call
  /\ began' = clock
  /\ deadline' = clock + timeout
  /\ UNCHANGED <<code, accused>>

\* The probe returns its verdict.
Accuse(c, discriminator) ==
  /\ step' = "done"
  /\ code' = c
  /\ accused' = discriminator
  /\ UNCHANGED <<began, deadline>>

Give(c) == Accuse(c, None)

\* An exception that no except clause of the probe names; main reports it.
GiveUp ==
  /\ step' = "raised"
  /\ UNCHANGED <<began, deadline, code, accused>>

Expired(call) == step = call /\ clock >= deadline

-------------------------------------------------------------------------------
(***************************************************************************)
(* The resolve phase: probe_wireguard.py:70-82, probe_wg_handshake.py:36-47,*)
(* probe_openvpn.py:38-50, probe_https_bytes.py:78-88, probe_tls_frag.py:29-39.*)
(***************************************************************************)

LookUp ==
  /\ step = "resolve"
  /\ Dns!Wait \/ Dns!Answer \/ Dns!Raise
  /\ UNCHANGED <<proto, attemptVars>>

\* Without an address: DoH knows the name, so it is a lie; or nobody does.
NoAddress ==
  /\ step = "resolve" /\ answered = "yes" /\ addr = Dns!NoAddr
  /\ Give(IF dohIps # {} THEN "DNS_LIE" ELSE "ERROR_INTERNAL")
  /\ UNCHANGED <<dnsState, proto>>

\* A stream is connected at once, a datagram prepared.
GotAddress ==
  /\ step = "resolve" /\ answered = "yes" /\ addr # Dns!NoAddr
  /\ Begin(IF proto \in Streams THEN "connect" ELSE "prepare", Timeout)
  /\ UNCHANGED <<dnsState, proto>>

LookUpRaised ==
  /\ step = "resolve" /\ answered = "raised"
  /\ GiveUp
  /\ UNCHANGED <<dnsState, proto>>

ResolvePhase == LookUp \/ NoAddress \/ GotAddress \/ LookUpRaised
===============================================================================
