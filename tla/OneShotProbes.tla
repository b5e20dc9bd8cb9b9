----------------------------- MODULE OneShotProbes -----------------------------
(***************************************************************************)
(* A run of one of the probes that make a single attempt: the resolve      *)
(* phase they share, then the calls of a datagram or of a stream probe.    *)
(***************************************************************************)
EXTENDS DatagramProbe, StreamProbe

oneShotVars == <<dnsState, proto, attemptVars, inbox, streamVars>>

ProbesInit == OneShotInit /\ DatagramInit /\ StreamInit

\* The calls that wait.
Waiting == {"connect", "handshake", "header", "push", "drain", "fragments",
            "answer", "reply"} \cup VpnCalls

OneShotTick ==
  /\ step \in Waiting /\ clock < deadline
  /\ clock' = clock + 1
  /\ UNCHANGED <<answered, addr, dohIps, proto, attemptVars, inbox, streamVars>>

OneShotNext ==
  \/ ResolvePhase /\ UNCHANGED <<inbox, streamVars>>
  \/ DatagramNext /\ UNCHANGED streamVars
  \/ StreamNext /\ UNCHANGED inbox
  \/ OneShotTick

OneShotSpec == ProbesInit /\ [][OneShotNext]_oneShotVars

\* The process is scheduled and time passes, and the lookup returns as Lookup
\* promises.  Nobody else has to act: a call comes back for certain only when
\* its timeout is over, a call that does not wait at once, and what has been
\* received is read.
ComesBack ==
  \/ ResolvePhase /\ UNCHANGED <<inbox, streamVars>>
  \/ (BlindSend \/ KeysRejected \/ Send \/ NoReply \/ Reply) /\ UNCHANGED streamVars
  \/ (FragmentSent \/ FragmentFails) /\ step = "fragments" /\ UNCHANGED inbox
  \/ /\ step \in Waiting /\ clock >= deadline
     /\ StreamNext /\ step' # step
     /\ UNCHANGED inbox
  \/ OneShotTick

FairOneShotSpec == OneShotSpec /\ WF_oneShotVars(ComesBack)

-------------------------------------------------------------------------------
(***************************************************************************)
(* Properties.                                                             *)
(***************************************************************************)

\* Type invariant.
OneShotTypeOK ==
  /\ clock \in Nat
  /\ answered \in {"no", "yes", "raised"}
  /\ addr \in Hosts \cup {Dns!NoAddr}
  /\ dohIps \in SUBSET Hosts
  /\ proto \in Protocols
  /\ step \in Waiting \cup {"resolve", "prepare", "done", "raised"}
  /\ began \in Nat /\ deadline \in Nat
  /\ code \in VerdictCode \cup {None}
  /\ accused \in Discriminator \cup {None}
  /\ inbox \in Packet \cup {None}
  /\ peer \in {"open", "reset", "closed", "hungup"}
  /\ rst \in BOOLEAN /\ sawEnd \in BOOLEAN
  /\ cutAt \in Nat /\ pushed \in Nat
  /\ unsent \in 0..Fragments
  /\ reads \in 0..HandshakeReads

\* Silence is not a verdict before it has been waited out: no datagram came
\* within the whole timeout from the send, and the SNI of a fragmented
\* ClientHello is not blamed for a peer that is still open before the budget is
\* used up.  A right answer that came in that time is never lost.
SilenceIsWaitedOut ==
  /\ proto \in Datagrams /\ code \in {"PORT_FILTERED", "WG_HANDSHAKE_BLOCKED"} =>
       inbox = None /\ clock >= began + Timeout
  /\ inbox = "right" /\ step = "done" => code = Welcome
  /\ proto = "tls-frag" /\ accused = "sni_based" /\ ~rst =>
       peer = "open" /\ clock >= Timeout

\* A reset that ends the push before its end is reported, and as what its
\* position makes it: the byte counter's signature inside of the window, its
\* ends included, and only there.
ResetClassified ==
  /\ code \in {"OK", "THROTTLE_DETECTED", "TCP_RST_MID_STREAM"}
  /\ proto = "https-bytes" /\ peer = "reset" /\ cutAt < Body
  => code = IF cutAt \in Lo..Hi THEN "THROTTLE_DETECTED" ELSE "TCP_RST_MID_STREAM"

\* "pushed without RST": the whole body went through, or the peer closed the
\* session itself.
OkMeansPushed ==
  code = "OK" /\ proto = "https-bytes" => pushed >= Body \/ peer = "closed"

\* The codes that count as fingerprints of interference, and the SNI accused,
\* never come without their evidence on an established connection: a reset, a
\* bare FIN that has been read, or silence.
ResetHasEvidence ==
  /\ code = "DNS_LIE" => dohIps # {} /\ addr = Dns!NoAddr
  /\ code = "TLS_RESET_POST_HELLO" => rst
  /\ code \in {"TCP_RST_MID_STREAM", "THROTTLE_DETECTED"} =>
       rst \/ (peer = "hungup" /\ sawEnd)
  /\ accused = "sni_based" /\ code = "TLS_TIMEOUT" => peer = "open"

\* However slowly every party answers, a probe ends after the timeouts of its
\* calls and the DoH wait: one more for an answer by datagram; four more for
\* openvpn; for https-bytes one and a drain for each of Body/Chunk + 1 chunks;
\* for tls-frag, whose reads share the budget, a floor for each of its reads
\* and the pauses of a flight before it.
OneShotWorstCase ==
  LET base == 2 * Timeout + DohWait
  IN  /\ proto \in Datagrams => clock <= base
      /\ proto = "openvpn-tcp" => clock <= base + 3 * Timeout
      /\ proto = "tls-frag" =>
           clock <= base + HandshakeReads * (MinWait + Fragments * Pause)
      /\ proto = "https-bytes" =>
           Chunk * clock <= Chunk * (base + 2 * Timeout)
                            + (Body + Chunk) * (Timeout + DrainWait)

\* The probe comes back, with a verdict or an exception, whoever stays silent
\* or goes on sending.
OneShotEnds == <>(step \in {"done", "raised"})

\* "RST after ClientHello" is what TLS_RESET_POST_HELLO stands for: a reset in
\* answer to the fragmented ClientHello is reported as one, and not raised.
ResetIsReported ==
  proto = "tls-frag" /\ step = "raised" => ~rst
===============================================================================
