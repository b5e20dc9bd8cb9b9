------------------------------ MODULE HttpsProbe ------------------------------
(***************************************************************************)
(* probe_https.probe: one attempt at the target (resolve, connect,         *)
(* handshake, body scan, shutdown) and, when it fails, the follow-up       *)
(* attempts that tell an SNI block from a DNS one, all against a network   *)
(* that may filter the target's SNI, block addresses and answer for others *)
(* with a page or certificate of its own.                                  *)
(*                                                                         *)
(* The DNS phase is Resolver's, on the same clock.  Later phases are       *)
(* sequential; a blocking call waits until it is answered or expires.      *)
(***************************************************************************)
EXTENDS Resolver, Verdicts

CONSTANTS
  FollowupCap,     \* _FOLLOWUP_TIMEOUT_CAP, in ticks
  MaxDohFollowups, \* _MAX_DOH_FOLLOWUPS
  MinScan,         \* the 0.5 s a body scan always gets, in ticks
  BodyChunks,      \* bound: reads that fill _BODY_SCAN_BYTES
  Networks         \* what the network does, see Network

ASSUME HttpsAssumption ==
  /\ FollowupCap \in Nat \ {0} /\ MinScan \in Nat \ {0}
  /\ MaxDohFollowups \in Nat /\ BodyChunks \in Nat \ {0}

\* Handshakes with the target's SNI fail; connections to the blocked addresses
\* fail; behind a forged address is a stub page with another certificate.
Network == [sniFiltered : BOOLEAN, blocked : SUBSET Addr, forged : SUBSET Addr]

ASSUME NetworksAssumption == Networks \subseteq Network

VARIABLES
  net,          \* the network, fixed for the duration of a probe
  options,      \* which of expect_cert_fp and read_body are given
  phase,        \* the blocking call or decision the probe is at
  attempt,      \* the running _probe_once
  sockTimeout,  \* the socket's timeout
  chunks,       \* reads in the scan buffer
  marked,       \* the buffer holds a stub marker
  scanEnds,     \* deadline_at of the scan
  stub,         \* _scan_for_stub returned a marker
  result,       \* the code the attempt ends with
  verdict,      \* the code of the target's attempt
  followed,     \* DoH follow-ups started
  untried,      \* addresses of extra["doh_ips"] still to be followed up
  discriminator

setup == <<net, options>>
scanVars == <<chunks, marked, scanEnds, stub>>
outcomeVars == <<verdict, followed, untried, discriminator>>
probeVars == <<setup, phase, attempt, sockTimeout, scanVars, result, outcomeVars>>

httpsVars == <<resolverVars, probeVars>>

Attempt == [kind : {"target", "wrong_sni", "doh"}, ip : Addr \cup {NoAddr},
            timeout : Nat]

HttpsInit ==
  /\ ResolverInit
  /\ net \in Networks
  /\ options \in SUBSET {"cert_fp", "body"}
  /\ phase = "resolve"
  /\ attempt = [kind |-> "target", ip |-> NoAddr, timeout |-> Timeout]
  /\ sockTimeout = Timeout
  /\ chunks = 0
  /\ marked = FALSE
  /\ scanEnds = 0
  /\ stub = FALSE
  /\ result = None
  /\ verdict = None
  /\ followed = 0
  /\ untried = {}
  /\ discriminator = None

Forged == attempt.ip \in net.forged

\* Only the target's attempt sends a request and checks the certificate.
Wants(option) == attempt.kind = "target" /\ option \in options

-------------------------------------------------------------------------------
(***************************************************************************)
(* Pieces of steps.                                                        *)
(***************************************************************************)

\* The attempt opens its socket and connects.
Connect(a) ==
  /\ attempt' = a
  /\ sockTimeout' = a.timeout
  /\ expires' = now + a.timeout
  /\ phase' = "connect"

\* The attempt returns its verdict.
Return(code) ==
  /\ result' = code
  /\ phase' = "judge"

\* The calls that wait for the peer.
Blocking == {"connect", "handshake", "recv", "unwrap"}

TimedOut(p) == phase = p /\ now >= expires

-------------------------------------------------------------------------------
(***************************************************************************)
(* _probe_once.                                                            *)
(***************************************************************************)

Resolve ==
  /\ phase = "resolve"
  /\ ResolverNext
  /\ UNCHANGED probeVars

\* Faulty variant: a failed lookup is a lie by itself.
ResolveFailedIsLie ==
  /\ phase = "resolve" /\ main = "done" /\ answer = NoAddr
  /\ Return("DNS_LIE")
  /\ untried' = dohSeen
  /\ UNCHANGED <<now, expires, attempt, sockTimeout, verdict, followed,
                 discriminator, dnsVars, setup, scanVars>>

\* No address: DoH knows the name, so it is a lie; or nobody does.
ResolveFailed ==
  /\ phase = "resolve" /\ main = "done" /\ answer = NoAddr
  /\ Return(IF dohSeen # {} THEN "DNS_LIE" ELSE "ERROR_INTERNAL")
  /\ untried' = dohSeen
  /\ UNCHANGED <<now, expires, attempt, sockTimeout, verdict, followed,
                 discriminator, dnsVars, setup, scanVars>>

ResolveDone ==
  /\ phase = "resolve" /\ main = "done" /\ answer # NoAddr
  /\ Connect([attempt EXCEPT !.ip = answer])
  /\ untried' = dohSeen
  /\ UNCHANGED <<now, result, verdict, followed, discriminator, dnsVars, setup,
                 scanVars>>

\* The resolver's KeyError passes through the probe.
ResolveRaised ==
  /\ phase = "resolve" /\ main = "raised"
  /\ phase' = "raised"
  /\ UNCHANGED <<now, expires, attempt, sockTimeout, result, dnsVars, setup,
                 scanVars, outcomeVars>>

\* Silence; or refused, reset, any other OSError.
ConnectFails ==
  /\ \/ TimedOut("connect") /\ Return("PORT_FILTERED")
     \/ /\ phase = "connect"
        /\ \E code \in {"REMOTE_DOWN", "TCP_RST_HANDSHAKE", "ROUTE_BLACKHOLE"} :
             Return(code)
  /\ UNCHANGED <<now, expires, attempt, sockTimeout, dnsVars, setup, scanVars,
                 outcomeVars>>

Connected ==
  /\ phase = "connect"
  /\ attempt.ip \notin net.blocked
  /\ phase' = "handshake"
  /\ expires' = now + sockTimeout
  /\ UNCHANGED <<now, attempt, sockTimeout, result, dnsVars, setup, scanVars,
                 outcomeVars>>

\* Reset; timeout or SSL error; any other OSError.
HandshakeFails ==
  /\ \/ TimedOut("handshake") /\ Return("TLS_TIMEOUT")
     \/ /\ phase = "handshake"
        /\ \E code \in {"TLS_RESET_POST_HELLO", "TLS_TIMEOUT", "ERROR_INTERNAL"} :
             Return(code)
  /\ UNCHANGED <<now, expires, attempt, sockTimeout, dnsVars, setup, scanVars,
                 outcomeVars>>

\* The target's SNI cannot be encoded: a ValueError, which no clause names.
HandshakeRaises ==
  /\ phase = "handshake" /\ attempt.kind = "target" /\ expires = now + sockTimeout
  /\ phase' = "raised"
  /\ UNCHANGED <<now, expires, attempt, sockTimeout, result, dnsVars, setup,
                 scanVars, outcomeVars>>

\* The finally clause: unwrap waits for the peer's close_notify.
Unwrap ==
  /\ phase' = "unwrap"
  /\ expires' = now + sockTimeout

\* Faulty variant: the DoH follow-ups carry the made-up SNI too.
CarriesTargetSniOnce == attempt.kind = "target"

\* The attempt shows the target's SNI.
CarriesTargetSni == attempt.kind # "wrong_sni"

\* After the handshake, the scan gets the rest of the timeout, and at least
\* MinScan.  Its clock started when the attempt did: at 0.
Handshaken ==
  /\ phase = "handshake"
  /\ CarriesTargetSni => ~net.sniFiltered
  /\ IF Wants("body")
       THEN LET left == IF now + MinScan < Timeout THEN Timeout - now ELSE MinScan
            IN /\ phase' = "scan"
               /\ scanEnds' = now + left
               /\ UNCHANGED expires
       ELSE Unwrap /\ UNCHANGED scanEnds
  /\ UNCHANGED <<now, attempt, sockTimeout, chunks, marked, stub, result,
                 dnsVars, setup, outcomeVars>>

\* The scan stops; the marker counts if the buffer is looked at.
StopScan(looksAtBuffer) ==
  /\ stub' = (looksAtBuffer /\ marked)
  /\ Unwrap

\* Faulty variant: a failed request is reported instead of the handshake.
SendFailsReported ==
  /\ phase = "scan" /\ chunks = 0
  /\ Return("TCP_RST_MID_STREAM")
  /\ UNCHANGED <<now, expires, attempt, sockTimeout, dnsVars, setup, scanVars,
                 outcomeVars>>

\* sendall fails.
SendFails ==
  /\ phase = "scan" /\ chunks = 0
  /\ StopScan(FALSE)
  /\ UNCHANGED <<now, attempt, sockTimeout, chunks, marked, scanEnds, result,
                 dnsVars, setup, outcomeVars>>

\* The head of the loop: the buffer is full or the time is up, or the socket
\* gets what is left as its timeout and a read starts.
ScanOn ==
  /\ phase = "scan"
  /\ \/ /\ chunks = BodyChunks \/ scanEnds <= now
        /\ StopScan(TRUE)
        /\ UNCHANGED sockTimeout
     \/ /\ chunks < BodyChunks /\ now < scanEnds
        /\ sockTimeout' = scanEnds - now
        /\ phase' = "recv"
        /\ expires' = scanEnds
        /\ UNCHANGED stub
  /\ UNCHANGED <<now, attempt, chunks, marked, scanEnds, result, dnsVars,
                 setup, outcomeVars>>

\* A read brings a chunk, of a stub page if the address is forged.
ReadChunk ==
  /\ phase = "recv"
  /\ chunks' = chunks + 1
  /\ \E completes \in BOOLEAN : marked' = (marked \/ (completes /\ Forged))
  /\ phase' = "scan"
  /\ UNCHANGED <<now, expires, attempt, sockTimeout, scanEnds, stub, result,
                 dnsVars, setup, outcomeVars>>

\* A read brings the end of the body; or it fails or expires, and what has
\* been read is not looked at.
ReadEnds ==
  /\ \/ phase = "recv" /\ StopScan(TRUE)
     \/ phase = "recv" /\ StopScan(FALSE)
  /\ UNCHANGED <<now, attempt, sockTimeout, chunks, marked, scanEnds, result,
                 dnsVars, setup, outcomeVars>>

\* unwrap returns, fails or expires, and is not asked which.
Unwrapped ==
  /\ phase = "unwrap"
  /\ Return(IF Wants("cert_fp") /\ Forged THEN "CERT_MISMATCH"
            ELSE IF stub THEN "HTTP_STUB" ELSE "OK")
  /\ UNCHANGED <<now, expires, attempt, sockTimeout, dnsVars, setup, scanVars,
                 outcomeVars>>

\* The running call waits.
ProbeTick ==
  /\ phase \in Blocking /\ now < expires
  /\ now' = now + 1
  /\ UNCHANGED <<expires, probeVars, dnsVars>>

-------------------------------------------------------------------------------
(***************************************************************************)
(* probe.                                                                  *)
(***************************************************************************)

\* Faulty variant: a follow-up does not look at what is left of the budget.
FollowupTimeoutUnbounded == FollowupCap

\* _remaining_followup_timeout, where 0 stands for None.
FollowupTimeout ==
  IF now >= Timeout THEN 0 ELSE Smaller(FollowupCap, Timeout - now)

Finish(d) ==
  /\ phase' = "done"
  /\ discriminator' = d
  /\ UNCHANGED <<expires, attempt, sockTimeout, followed, untried>>

\* Faulty variant: the bound on the follow-ups is off by one.
NextDohOneMore ==
  LET rest == untried \ {answer}
  IN  IF rest = {} \/ FollowupTimeout = 0 \/ followed > MaxDohFollowups
        THEN Finish("inconclusive")
        ELSE \E ip \in rest :
               /\ Connect([kind |-> "doh", timeout |-> FollowupTimeout, ip |-> ip])
               /\ untried' = rest \ {ip}
               /\ followed' = followed + 1
               /\ UNCHANGED discriminator

\* The loop over the DoH addresses goes on with the next one that is not the
\* system's answer (the sorted order is left open), or gives up.
NextDoh ==
  LET rest == untried \ {answer}
  IN  IF rest = {} \/ FollowupTimeout = 0 \/ followed >= MaxDohFollowups
        THEN Finish("inconclusive")
        ELSE \E ip \in rest :
               /\ Connect([kind |-> "doh", timeout |-> FollowupTimeout, ip |-> ip])
               /\ untried' = rest \ {ip}
               /\ followed' = followed + 1
               /\ UNCHANGED discriminator

\* The target's attempt has returned: an OK is final; a failure with an address
\* is followed up with a made-up SNI on it, if time is left.
JudgeTarget ==
  /\ phase = "judge" /\ attempt.kind = "target"
  /\ verdict' = result
  /\ IF result = "OK" THEN Finish(None)
     ELSE IF answer # NoAddr /\ FollowupTimeout # 0
       THEN /\ Connect([kind |-> "wrong_sni", timeout |-> FollowupTimeout,
                        ip |-> answer])
            /\ UNCHANGED <<followed, untried, discriminator>>
       ELSE NextDoh
  /\ UNCHANGED <<now, result, dnsVars, setup, scanVars>>

JudgeFollowup(kind, d) ==
  /\ phase = "judge" /\ attempt.kind = kind
  /\ IF result = "OK" THEN Finish(d) ELSE NextDoh
  /\ UNCHANGED <<now, result, verdict, dnsVars, setup, scanVars>>

HttpsNext ==
  \/ Resolve \/ ResolveFailed \/ ResolveDone \/ ResolveRaised
  \/ ConnectFails \/ Connected
  \/ HandshakeFails \/ HandshakeRaises \/ Handshaken
  \/ SendFails \/ ScanOn \/ ReadChunk \/ ReadEnds
  \/ Unwrapped
  \/ ProbeTick
  \/ JudgeTarget
  \/ JudgeFollowup("wrong_sni", "sni_based")
  \/ JudgeFollowup("doh", "dns_based")

Finished == phase \in {"done", "raised"}

HttpsSpec == HttpsInit /\ [][HttpsNext]_httpsVars

\* The process is scheduled and time passes.  Nobody has to answer: a call
\* comes back for certain only when it has timed out.
Computes ==
  \/ phase = "resolve" /\ Threads /\ UNCHANGED probeVars
  \/ ResolveFailed \/ ResolveDone \/ ResolveRaised
  \/ phase \in {"scan", "judge"} /\ HttpsNext
  \/ phase \in Blocking /\ now >= expires /\ HttpsNext
  \/ ProbeTick

FairHttpsSpec == HttpsSpec /\ WF_httpsVars(Computes)

-------------------------------------------------------------------------------
(***************************************************************************)
(* Properties.                                                             *)
(***************************************************************************)

\* Type invariant.
HttpsTypeOK ==
  /\ ResolverTypeOK
  /\ net \in Networks
  /\ options \in SUBSET {"cert_fp", "body"}
  /\ phase \in {"resolve", "connect", "handshake", "scan", "recv", "unwrap",
                "judge", "done", "raised"}
  /\ attempt \in Attempt
  /\ sockTimeout \in Nat /\ scanEnds \in Nat
  /\ chunks \in 0..BodyChunks
  /\ marked \in BOOLEAN /\ stub \in BOOLEAN
  /\ result \in VerdictCode \cup {None} /\ verdict \in VerdictCode \cup {None}
  /\ followed \in 0..MaxDohFollowups
  /\ untried \in SUBSET Addr
  /\ discriminator \in Discriminator \cup {None}

\* "DoH success means the name is valid -> likely locally blocked": DNS_LIE is
\* only reported when DoH knows the name and getaddrinfo did not deliver in
\* time, whatever the order in which the threads store and the caller reads.
LieNeedsWitness ==
  verdict = "DNS_LIE" => dohResult # {} /\ ~inTime

\* "failure should never override a successful TLS verdict": once a target that
\* nobody forges has completed the handshake, nothing that goes wrong in the
\* request, the reads or the shutdown makes its verdict anything but OK.
HandshakeIsOK ==
  [][/\ phase \in {"scan", "recv", "unwrap"} /\ phase' \notin {"scan", "recv", "unwrap"}
     /\ attempt.kind = "target" /\ ~Forged
     => result' = "OK" /\ phase' = "judge"]_httpsVars

\* A discriminator never accuses what the network does not do: "dns_based" is
\* out of the question where the target's SNI is filtered, and "sni_based"
\* where the resolved address is blocked.
DiscriminatorPossible ==
  /\ discriminator = "dns_based" => ~net.sniFiltered
  /\ discriminator = "sni_based" => answer \notin net.blocked

\* However slowly every party answers, the probe ends after four timeouts (DNS,
\* connect, handshake, shutdown) and the DoH wait ...
WorstCase == now <= 4 * Timeout + DohCap

\* ... and the follow-ups add at most two follow-up timeouts to the budget.
FollowupsEndSoon == attempt.kind # "target" => now <= Timeout + 2 * FollowupCap

\* The resolver without its threads, as the other probes see it.
Promised == INSTANCE Lookup WITH
  DohWait <- Smaller(Timeout, DohCap),
  returned <- IF main = "done" THEN "yes" ELSE IF main = "raised" THEN "raised" ELSE "no",
  ip <- IF main = "done" THEN answer ELSE NoAddr,
  known <- IF main = "done" THEN dohSeen ELSE {}

\* Three threads, two joins that expire together and two dictionaries read piece
\* by piece look to the caller like one step that happens in time: what it is
\* given does not change afterwards, and it is only let down by an exception when
\* the timeout is over.
KeepsLookupPromise == Promised!LookupSpec

\* The probe comes back.
Terminates == <>Finished

\* "total budget in seconds for resolve + connect + handshake".
BudgetKept == phase \in {"resolve", "connect", "handshake"} => now <= Timeout
===============================================================================
