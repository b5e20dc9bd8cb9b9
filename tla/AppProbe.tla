-------------------------------- MODULE AppProbe --------------------------------
(***************************************************************************)
(* The probes of protocols whose server speaks first, or after one         *)
(* request: probe_smtp (smtp, smtps), probe_ssh and probe_rdp.  Resolve,   *)
(* connect, the TLS handshake of smtps or the request of rdp, the banner,  *)
(* and the follow-ups of smtps.  Unlike probe_https they let exceptions of *)
(* some calls through.                                                     *)
(*                                                                         *)
(* The DNS phase is Lookup's, on the same clock.  Steps that the three     *)
(* files have in common are one definition here; the comments name the     *)
(* lines of each.                                                          *)
(***************************************************************************)
EXTENDS Lookup, Verdicts, FiniteSets

CONSTANTS
  Kinds,           \* the kinds of probe
  FollowupCap,     \* _FOLLOWUP_TIMEOUT_CAP, in ticks
  MaxDohFollowups, \* _MAX_DOH_FOLLOWUPS
  BannerReads,     \* bound: reads that fill the 512 bytes of an ssh banner
  Networks         \* what the network does, see Network

ASSUME AppAssumption ==
  /\ Kinds \subseteq {"smtp", "smtps", "ssh", "rdp"}
  /\ FollowupCap \in Nat \ {0}
  /\ MaxDohFollowups \in Nat /\ BannerReads \in Nat \ {0}

\* Handshakes with the target's SNI fail; connections to the blocked addresses
\* fail; behind a forged address is another certificate.
Network == [sniFiltered : BOOLEAN, blocked : SUBSET Addr, forged : SUBSET Addr]

ASSUME NetworksAssumption == Networks \subseteq Network

VARIABLES
  kind,     \* the kind of this probe
  certFp,   \* smtps: expect_cert_fp is given
  net,      \* the network, fixed for the duration of a probe
  phase,    \* the blocking call or decision the probe is at
  attempt,  \* the running _probe_once
  expires,  \* when its present blocking call times out
  chunks,   \* reads in the banner
  result,   \* the code the attempt ends with
  verdict,  \* the code of the target's attempt
  followed, \* DoH follow-ups started
  untried,  \* addresses of extra["doh_ips"] still to be followed up
  discriminator

setup == <<kind, certFp, net>>
dnsVars == <<returned, ip, known>>
outcomeVars == <<verdict, followed, untried, discriminator>>
probeVars == <<setup, phase, attempt, expires, chunks, result, outcomeVars>>

appVars == <<lookupVars, probeVars>>

Attempt == [kind : {"target", "wrong_sni", "doh"}, ip : Addr \cup {NoAddr},
            timeout : Nat]

AppInit ==
  /\ LookupInit
  /\ kind \in Kinds
  /\ certFp \in IF kind = "smtps" THEN BOOLEAN ELSE {FALSE}
  /\ net \in Networks
  /\ phase = "resolve"
  /\ attempt = [kind |-> "target", ip |-> NoAddr, timeout |-> Timeout]
  /\ expires = Timeout
  /\ chunks = 0
  /\ result = None
  /\ verdict = None
  /\ followed = 0
  /\ untried = {}
  /\ discriminator = None

-------------------------------------------------------------------------------
(***************************************************************************)
(* Pieces of steps.                                                        *)
(***************************************************************************)

\* The attempt opens its socket and connects.
Connect(a) ==
  /\ attempt' = a
  /\ expires' = now + a.timeout
  /\ phase' = "connect"

\* The next blocking call of the attempt starts, with the timeout once more.
Call(p) ==
  /\ phase' = p
  /\ expires' = now + attempt.timeout

\* The attempt returns its verdict.
Return(code) ==
  /\ result' = code
  /\ phase' = "judge"
  /\ UNCHANGED expires

\* An exception that no except clause of the probe names.
Escape ==
  /\ phase' = "raised"
  /\ UNCHANGED <<expires, result>>

\* The calls that wait for the peer.
Blocking == {"connect", "handshake", "send", "banner"}

TimedOut(p) == phase = p /\ now >= expires

\* What a step within an attempt leaves alone.
Within == UNCHANGED <<lookupVars, setup, attempt, outcomeVars>>

-------------------------------------------------------------------------------
(***************************************************************************)
(* _probe_once of smtp and smtps, probe of ssh and rdp.                    *)
(***************************************************************************)

Resolve ==
  /\ phase = "resolve"
  /\ Wait \/ Answer \/ Raise
  /\ UNCHANGED probeVars

\* probe_smtp.py:47-56, probe_ssh.py:16-25, probe_rdp.py:42-51.
\* No address: DoH knows the name, so it is a lie; or nobody does.
ResolveFailed ==
  /\ phase = "resolve" /\ returned = "yes" /\ ip = NoAddr
  /\ Return(IF known # {} THEN "DNS_LIE" ELSE "ERROR_INTERNAL")
  /\ untried' = known
  /\ UNCHANGED <<lookupVars, setup, attempt, chunks, verdict, followed,
                 discriminator>>

ResolveDone ==
  /\ phase = "resolve" /\ returned = "yes" /\ ip # NoAddr
  /\ Connect([attempt EXCEPT !.ip = ip])
  /\ untried' = known
  /\ UNCHANGED <<lookupVars, setup, chunks, result, verdict, followed,
                 discriminator>>

ResolveRaised ==
  /\ phase = "resolve" /\ returned = "raised"
  /\ Escape
  /\ UNCHANGED chunks
  /\ Within

\* probe_smtp.py:71-102, probe_ssh.py:35-62, probe_rdp.py:63-90.
\* Silence; or refused, reset, any other OSError.
ConnectFails ==
  /\ \/ TimedOut("connect") /\ Return("PORT_FILTERED")
     \/ /\ phase = "connect"
        /\ \E code \in {"REMOTE_DOWN", "TCP_RST_HANDSHAKE", "ROUTE_BLACKHOLE"} :
             Return(code)
  /\ UNCHANGED chunks
  /\ Within

Connected ==
  /\ phase = "connect"
  /\ attempt.ip \notin net.blocked
  /\ Call(CASE kind = "smtps" -> "handshake"
            [] kind = "rdp" -> "send"
            [] OTHER -> "banner")
  /\ chunks' = 0
  /\ UNCHANGED result
  /\ Within

-------------------------------------------------------------------------------
(***************************************************************************)
(* smtps: the TLS handshake.                                               *)
(***************************************************************************)

\* Faulty variant: the DoH follow-ups carry the made-up SNI too.
CarriesTargetSniOnce == attempt.kind = "target"

\* The attempt shows the target's SNI.
CarriesTargetSni == attempt.kind # "wrong_sni"

\* Timeout; reset or SSL error, which may name a timeout; any other OSError.
HandshakeFails ==
  /\ \/ TimedOut("handshake") /\ Return("TLS_TIMEOUT")
     \/ /\ phase = "handshake"
        /\ \E code \in {"TLS_RESET_POST_HELLO", "TLS_TIMEOUT", "ERROR_INTERNAL"} :
             Return(code)
  /\ UNCHANGED chunks
  /\ Within

\* The target's SNI cannot be encoded: a ValueError, which no clause names.
HandshakeRaises ==
  /\ phase = "handshake" /\ attempt.kind = "target" /\ expires = now + attempt.timeout
  /\ Escape
  /\ UNCHANGED chunks
  /\ Within

\* Only the target's attempt knows a fingerprint to check.
WrongCertificate ==
  certFp /\ attempt.kind = "target" /\ attempt.ip \in net.forged

\* Faulty variant: the fingerprint is not compared.
HandshakenUnchecked ==
  /\ phase = "handshake"
  /\ CarriesTargetSni => ~net.sniFiltered
  /\ Call("banner")
  /\ UNCHANGED <<chunks, result>>
  /\ Within

Handshaken ==
  /\ phase = "handshake"
  /\ CarriesTargetSni => ~net.sniFiltered
  /\ \/ WrongCertificate /\ Return("CERT_MISMATCH")
     \/ ~WrongCertificate /\ Call("banner") /\ UNCHANGED result
  /\ UNCHANGED chunks
  /\ Within

-------------------------------------------------------------------------------
(***************************************************************************)
(* rdp: the Connection Request.                                            *)
(***************************************************************************)

\* sendall: only a reset is caught; a timeout or any other OSError is not.
SendFails ==
  /\ phase = "send"
  /\ Return("TCP_RST_HANDSHAKE") \/ Escape
  /\ UNCHANGED chunks
  /\ Within

Sent ==
  /\ phase = "send"
  /\ Call("banner")
  /\ UNCHANGED <<chunks, result>>
  /\ Within

-------------------------------------------------------------------------------
(***************************************************************************)
(* The banner, or rdp's Connection Confirm.                                *)
(***************************************************************************)

\* probe_smtp.py:204-221, probe_ssh.py:109-126, probe_rdp.py:141-164.
\* What has been read is what the protocol says, or is not.
JudgeBanner == \E code \in {"OK", "BANNER_MISMATCH"} : Return(code)

\* Faulty variant: a reset before the first byte is one in mid-stream.
BannerResetMidStream ==
  /\ phase = "banner"
  /\ Return("TCP_RST_MID_STREAM")
  /\ UNCHANGED chunks
  /\ Within

\* probe_smtp.py:171-179 (where nothing has been read), probe_ssh.py:71-78,
\* probe_rdp.py:106-113 (likewise).
BannerReset ==
  /\ phase = "banner"
  /\ Return(IF chunks = 0 THEN "TCP_RST_HANDSHAKE" ELSE "TCP_RST_MID_STREAM")
  /\ UNCHANGED chunks
  /\ Within

\* Faulty variant: the TLS stream is read without a timeout.
BannerTimesOutPlain ==
  /\ TimedOut("banner") /\ kind # "smtps"
  /\ Return("PORT_FILTERED")
  /\ UNCHANGED chunks
  /\ Within

\* probe_smtp.py:180-188, probe_ssh.py:79-86, probe_rdp.py:114-120.
BannerTimesOut ==
  /\ TimedOut("banner")
  /\ Return(IF kind = "smtps" THEN "TLS_TIMEOUT" ELSE "PORT_FILTERED")
  /\ UNCHANGED chunks
  /\ Within

\* probe_ssh.py:87-94, probe_rdp.py:121-128; probe_smtp.py:167-191.
\* Any other OSError, for smtps also an SSL error: ssh and rdp have a clause for
\* it, smtp and smtps have none.
BannerError ==
  /\ phase = "banner"
  /\ IF kind \in {"ssh", "rdp"} THEN Return("ROUTE_BLACKHOLE") ELSE Escape
  /\ UNCHANGED chunks
  /\ Within

\* Faulty variant: the ssh banner is read up to a newline, however long it is.
BannerReadUnbounded ==
  /\ phase = "banner"
  /\ chunks' = IF chunks < BannerReads THEN chunks + 1 ELSE chunks
  /\ JudgeBanner \/ (kind = "ssh" /\ Call("banner") /\ UNCHANGED result)
  /\ Within

\* A read brings bytes: one read is all there is, but ssh goes on until a
\* newline or 512 bytes, each read with the whole timeout.
BannerRead ==
  /\ phase = "banner"
  /\ chunks' = chunks + 1
  /\ \/ JudgeBanner
     \/ /\ kind = "ssh" /\ chunks' < BannerReads
        /\ Call("banner")
        /\ UNCHANGED result
  /\ Within

\* A read brings the end of the stream: of an empty one (probe_smtp.py:194-202,
\* probe_ssh.py:99-107, probe_rdp.py:133-140), or of an ssh banner cut short.
BannerEnds ==
  /\ phase = "banner"
  /\ \/ chunks = 0 /\ Return("REMOTE_HUNGUP_AFTER_CONNECT")
     \/ chunks > 0 /\ JudgeBanner
  /\ UNCHANGED chunks
  /\ Within

\* The running call waits.
AppTick ==
  /\ phase \in Blocking /\ now < expires
  /\ now' = now + 1
  /\ UNCHANGED <<dnsVars, probeVars>>

-------------------------------------------------------------------------------
(***************************************************************************)
(* probe.  ssh and rdp return the attempt's verdict as it is.              *)
(***************************************************************************)

\* Faulty variant: a follow-up does not look at what is left of the budget.
FollowupTimeoutUnbounded == FollowupCap

\* _remaining_followup_timeout, where 0 stands for None.
FollowupTimeout ==
  CASE now >= Timeout -> 0
    [] now < Timeout /\ Timeout - now < FollowupCap -> Timeout - now
    [] OTHER -> FollowupCap

Finish(d) ==
  /\ phase' = "done"
  /\ discriminator' = d
  /\ UNCHANGED <<expires, attempt, followed, untried>>

\* Faulty variant: the bound on the follow-ups is off by one.
NextDohOneMore ==
  LET rest == untried \ {ip}
  IN  IF rest = {} \/ FollowupTimeout = 0 \/ followed > MaxDohFollowups
        THEN Finish("inconclusive")
        ELSE \E a \in rest :
               /\ Connect([kind |-> "doh", ip |-> a, timeout |-> FollowupTimeout])
               /\ untried' = rest \ {a}
               /\ followed' = followed + 1
               /\ UNCHANGED discriminator

\* The loop over the DoH addresses goes on with the next one that is not the
\* system's answer (the sorted order is left open), or gives up.
NextDoh ==
  LET rest == untried \ {ip}
  IN  IF rest = {} \/ FollowupTimeout = 0 \/ followed >= MaxDohFollowups
        THEN Finish("inconclusive")
        ELSE \E a \in rest :
               /\ Connect([kind |-> "doh", ip |-> a, timeout |-> FollowupTimeout])
               /\ untried' = rest \ {a}
               /\ followed' = followed + 1
               /\ UNCHANGED discriminator

\* The target's attempt has returned: an OK is final, and so is any verdict of
\* a kind other than smtps; a failure with an address is followed up with a
\* made-up SNI on it, if time is left.
JudgeTarget ==
  /\ phase = "judge" /\ attempt.kind = "target"
  /\ verdict' = result
  /\ IF kind # "smtps" \/ result = "OK" THEN Finish(None)
     ELSE IF ip # NoAddr /\ FollowupTimeout # 0
       THEN /\ Connect([kind |-> "wrong_sni", ip |-> ip,
                        timeout |-> FollowupTimeout])
            /\ UNCHANGED <<followed, untried, discriminator>>
       ELSE NextDoh
  /\ UNCHANGED <<lookupVars, setup, chunks, result>>

JudgeFollowup(k, d) ==
  /\ phase = "judge" /\ attempt.kind = k
  /\ IF result = "OK" THEN Finish(d) ELSE NextDoh
  /\ UNCHANGED <<lookupVars, setup, chunks, result, verdict>>

AppNext ==
  \/ Resolve \/ ResolveFailed \/ ResolveDone \/ ResolveRaised
  \/ ConnectFails \/ Connected
  \/ HandshakeFails \/ HandshakeRaises \/ Handshaken
  \/ SendFails \/ Sent
  \/ BannerReset \/ BannerTimesOut \/ BannerError \/ BannerRead \/ BannerEnds
  \/ AppTick
  \/ JudgeTarget
  \/ JudgeFollowup("wrong_sni", "sni_based")
  \/ JudgeFollowup("doh", "dns_based")

AppSpec == AppInit /\ [][AppNext]_appVars

\* The process is scheduled and time passes, and the lookup returns as Lookup
\* promises.  Nobody else has to answer: a call comes back for certain only
\* when its timeout is over.
Computes ==
  \/ phase \in {"resolve", "judge"} /\ AppNext
  \/ now >= expires /\ (ConnectFails \/ HandshakeFails \/ SendFails \/ BannerTimesOut)
  \/ AppTick

FairAppSpec == AppSpec /\ WF_appVars(Computes)

-------------------------------------------------------------------------------
(***************************************************************************)
(* Properties.                                                             *)
(***************************************************************************)

\* Type invariant.
AppTypeOK ==
  /\ now \in Nat
  /\ returned \in {"no", "yes", "raised"}
  /\ ip \in Addr \cup {NoAddr}
  /\ known \in SUBSET Addr
  /\ kind \in Kinds /\ certFp \in BOOLEAN /\ net \in Networks
  /\ phase \in Blocking \cup {"resolve", "judge", "done", "raised"}
  /\ attempt \in Attempt
  /\ expires \in Nat
  /\ chunks \in 0..BannerReads
  /\ result \in VerdictCode \cup {None} /\ verdict \in VerdictCode \cup {None}
  /\ followed \in 0..MaxDohFollowups
  /\ untried \in SUBSET Addr
  /\ discriminator \in Discriminator \cup {None}

\* OK clears the path: a target reported OK is not behind a blocked address, and
\* over TLS neither its name is filtered nor, where its certificate is known,
\* its address forged, though check, banner and follow-ups come one by one.
OkMeansThrough ==
  verdict = "OK" =>
    /\ ip \notin net.blocked
    /\ kind = "smtps" => ~net.sniFiltered
    /\ certFp => ip \notin net.forged

\* The codes that open the aggregator's discriminator_any gate are never given
\* without their evidence: DoH's word, bytes before the reset, a TLS session
\* cut on an address that accepted the connection, a certificate of another.
FingerprintHasEvidence ==
  /\ verdict = "DNS_LIE" => known # {} /\ ip = NoAddr
  /\ verdict = "TCP_RST_MID_STREAM" => kind = "ssh" /\ chunks > 0
  /\ verdict = "TLS_RESET_POST_HELLO" => kind = "smtps" /\ ip \notin net.blocked
  /\ verdict = "CERT_MISMATCH" => certFp /\ ip \in net.forged

\* A discriminator never accuses what the network does not do: "dns_based" is
\* out of the question where the target's SNI is filtered, and "sni_based"
\* where the resolved address is blocked.
SmtpsDiscriminatorPossible ==
  /\ discriminator = "dns_based" => ~net.sniFiltered
  /\ discriminator = "sni_based" => ip \notin net.blocked

\* The timeouts that the calls after connect may take: the handshake and the
\* banner of smtps, the request and the answer of rdp, every read of ssh.
CallsAfterConnect ==
  CASE kind = "smtp" -> 1
    [] kind = "ssh" -> BannerReads
    [] OTHER -> 2

\* However slowly every party answers, the probe ends after the timeouts of its
\* calls and the DoH wait: the follow-ups of smtps do not prolong it.
AppWorstCase == now <= (2 + CallsAfterConnect) * Timeout + DohWait

\* The follow-ups of smtps add at most two follow-up timeouts to the budget.
AppFollowupsEndSoon ==
  attempt.kind # "target" => now <= Timeout + 2 * FollowupCap

\* The probe comes back, with a verdict or an exception, whoever stays silent
\* or goes on sending.
AppEnds == <>(phase \in {"done", "raised"})

\* "For HTTPS and SMTPS non-OK verdicts probe runs short follow-ups [...] the
\* result is recorded in the optional field discriminator": what goes wrong in a
\* follow-up does not cost the verdict the target's attempt has given.
VerdictSurvives == phase = "raised" => verdict = None
===============================================================================
