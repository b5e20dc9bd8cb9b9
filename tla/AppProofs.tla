------------------------------- MODULE AppProofs -------------------------------
(***************************************************************************)
(* Proofs about AppProbe, for every set of kinds, addresses and networks   *)
(* and all timeouts, bounds and numbers of follow-ups.                     *)
(***************************************************************************)
EXTENDS AppProbe, TLAPS

-------------------------------------------------------------------------------
(***************************************************************************)
(* Types.                                                                  *)
(***************************************************************************)

\* The codes these probes give.
GivenCodes ==
  {"DNS_LIE", "ERROR_INTERNAL", "PORT_FILTERED", "REMOTE_DOWN",
   "TCP_RST_HANDSHAKE", "TCP_RST_MID_STREAM", "ROUTE_BLACKHOLE", "TLS_TIMEOUT",
   "TLS_RESET_POST_HELLO", "CERT_MISMATCH", "REMOTE_HUNGUP_AFTER_CONNECT",
   "BANNER_MISMATCH", "OK"}

LEMMA GivenCodesType == GivenCodes \subseteq VerdictCode \ {"VANTAGE_UNAVAILABLE"}
BY DEF GivenCodes, VerdictCode, HighConfidence, MediumConfidence, LowConfidence

LEMMA FollowupTimeoutType ==
  now \in Nat => FollowupTimeout \in Nat
BY LookupAssumption, AppAssumption DEF FollowupTimeout

\* What Connect sets up is an attempt, and its deadline a time.
LEMMA ConnectType ==
  ASSUME now \in Nat, NEW a \in Attempt, Connect(a)
  PROVE  attempt' \in Attempt /\ expires' \in Nat /\ phase' = "connect"
BY DEF Connect, Attempt

\* The loop over the DoH addresses.
LEMMA NextDohType ==
  ASSUME AppTypeOK, NextDoh
  PROVE  /\ attempt' \in Attempt /\ expires' \in Nat
         /\ phase' \in {"connect", "done"}
         /\ followed' \in 0..MaxDohFollowups /\ untried' \in SUBSET Addr
         /\ discriminator' \in Discriminator \cup {None}
<1> DEFINE rest == untried \ {ip}
<1>1. now \in Nat BY DEF AppTypeOK
<1>2. CASE Finish("inconclusive")
  BY <1>2 DEF Finish, AppTypeOK, Discriminator
<1>3. CASE ~Finish("inconclusive")
  <2>1. ~(rest = {} \/ FollowupTimeout = 0 \/ followed >= MaxDohFollowups)
    BY <1>3 DEF NextDoh
  <2>2. PICK a \in rest :
          /\ Connect([kind |-> "doh", ip |-> a, timeout |-> FollowupTimeout])
          /\ untried' = rest \ {a}
          /\ followed' = followed + 1
          /\ UNCHANGED discriminator
    BY <2>1 DEF NextDoh
  <2>3. a \in Addr BY DEF AppTypeOK
  <2>4. [kind |-> "doh", ip |-> a, timeout |-> FollowupTimeout] \in Attempt
    BY <1>1, <2>3, FollowupTimeoutType DEF Attempt
  <2>5. attempt' \in Attempt /\ expires' \in Nat /\ phase' = "connect"
    BY <1>1, <2>2, <2>4, ConnectType
  <2>6. followed' \in 0..MaxDohFollowups
    BY <2>1, <2>2, AppAssumption DEF AppTypeOK
  <2>7. untried' \in SUBSET Addr /\ discriminator' \in Discriminator \cup {None}
    BY <2>2 DEF AppTypeOK
  <2> QED BY <2>5, <2>6, <2>7
<1> QED BY <1>2, <1>3

\* Every attempt that goes on after a judgement goes on like this.
LEMMA NextDohAttempt ==
  ASSUME NextDoh
  PROVE  \/ /\ phase' = "done" /\ UNCHANGED <<attempt, expires>>
            /\ discriminator' = "inconclusive"
         \/ /\ phase' = "connect" /\ FollowupTimeout # 0
            /\ attempt'.kind = "doh" /\ attempt'.timeout = FollowupTimeout
            /\ expires' = now + FollowupTimeout
            /\ discriminator' = discriminator
BY DEF NextDoh, Finish, Connect

\* The banner of kinds other than ssh is one read, and the banner of ssh is read
\* only while it has room: without it AppTypeOK is not inductive.
BannerHasRoom ==
  /\ phase \in {"handshake", "send", "banner"} => chunks < BannerReads
  /\ phase \in {"handshake", "send"} => chunks = 0
  /\ phase = "banner" /\ kind # "ssh" => chunks = 0

LEMMA AppInitType == AppInit => AppTypeOK /\ BannerHasRoom
<1> SUFFICES ASSUME AppInit PROVE AppTypeOK /\ BannerHasRoom
  OBVIOUS
<1>1. now \in Nat /\ expires \in Nat /\ attempt \in Attempt
  BY LookupAssumption DEF AppInit, LookupInit, Attempt
<1>2. chunks \in 0..BannerReads /\ followed \in 0..MaxDohFollowups
  BY AppAssumption DEF AppInit
<1>3. certFp \in BOOLEAN BY DEF AppInit
<1>4. /\ returned \in {"no", "yes", "raised"} /\ ip \in Addr \cup {NoAddr}
      /\ known \in SUBSET Addr /\ untried \in SUBSET Addr
      /\ kind \in Kinds /\ net \in Networks /\ phase = "resolve"
      /\ result \in VerdictCode \cup {None} /\ verdict \in VerdictCode \cup {None}
      /\ discriminator \in Discriminator \cup {None}
  BY DEF AppInit, LookupInit
<1> QED BY <1>1, <1>2, <1>3, <1>4 DEF AppTypeOK, BannerHasRoom

LEMMA AppStepType ==
  ASSUME AppTypeOK, BannerHasRoom, [AppNext]_appVars
  PROVE  AppTypeOK' /\ BannerHasRoom'
<1> USE DEF AppTypeOK, BannerHasRoom, Within, setup, outcomeVars, lookupVars,
            Blocking
<1>1. GivenCodes \subseteq VerdictCode BY GivenCodesType
<1>2. attempt.timeout \in Nat BY DEF Attempt
<1>3. CASE Resolve
  BY <1>3 DEF Resolve, Wait, Answer, Raise, probeVars
<1>4. CASE ResolveFailed
  BY <1>1, <1>4 DEF ResolveFailed, Return, GivenCodes
<1>5. CASE ResolveDone
  <2>1. [attempt EXCEPT !.ip = ip] \in Attempt BY DEF Attempt
  <2>2. attempt' \in Attempt /\ expires' \in Nat /\ phase' = "connect"
    BY <1>5, <2>1, ConnectType DEF ResolveDone
  <2> QED BY <1>5, <2>2 DEF ResolveDone
<1>6. CASE ResolveRaised BY <1>6 DEF ResolveRaised, Escape
<1>7. CASE ConnectFails
  BY <1>1, <1>7 DEF ConnectFails, Return, GivenCodes
<1>8. CASE Connected
  BY <1>2, <1>8, AppAssumption DEF Connected, Call
<1>9. CASE HandshakeFails \/ HandshakeRaises
  BY <1>1, <1>9 DEF HandshakeFails, HandshakeRaises, Return, Escape, GivenCodes
<1>10. CASE Handshaken
  BY <1>1, <1>2, <1>10 DEF Handshaken, Return, Call, GivenCodes
<1>11. CASE SendFails
  BY <1>1, <1>11 DEF SendFails, Return, Escape, GivenCodes
<1>12. CASE Sent BY <1>2, <1>12 DEF Sent, Call
<1>13. CASE BannerReset \/ BannerTimesOut \/ BannerError \/ BannerEnds
  BY <1>1, <1>13
  DEF BannerReset, BannerTimesOut, BannerError, BannerEnds, JudgeBanner, Return,
      Escape, TimedOut, GivenCodes
<1>14. CASE BannerRead
  BY <1>1, <1>2, <1>14, AppAssumption
  DEF BannerRead, JudgeBanner, Return, Call, GivenCodes
<1>15. CASE AppTick BY <1>15 DEF AppTick, dnsVars, probeVars
<1>16. CASE JudgeTarget
  <2>1. verdict' \in VerdictCode \cup {None} BY <1>16 DEF JudgeTarget
  <2>2. CASE Finish(None) BY <1>16, <2>1, <2>2 DEF JudgeTarget, Finish
  <2>3. CASE /\ ip # NoAddr
             /\ Connect([kind |-> "wrong_sni", ip |-> ip, timeout |-> FollowupTimeout])
             /\ UNCHANGED <<followed, untried, discriminator>>
    <3>1. [kind |-> "wrong_sni", ip |-> ip, timeout |-> FollowupTimeout] \in Attempt
      BY FollowupTimeoutType DEF Attempt
    <3>2. attempt' \in Attempt /\ expires' \in Nat /\ phase' = "connect"
      BY <2>3, <3>1, ConnectType
    <3> QED BY <1>16, <2>1, <2>3, <3>2 DEF JudgeTarget
  <2>4. CASE NextDoh
    BY <1>16, <2>1, <2>4, NextDohType DEF JudgeTarget
  <2> QED BY <1>16, <2>2, <2>3, <2>4 DEF JudgeTarget
<1>17. ASSUME NEW k, NEW d \in Discriminator, JudgeFollowup(k, d)
       PROVE  AppTypeOK' /\ BannerHasRoom'
  <2>1. CASE Finish(d) BY <1>17, <2>1 DEF JudgeFollowup, Finish
  <2>2. CASE NextDoh BY <1>17, <2>2, NextDohType DEF JudgeFollowup
  <2> QED BY <1>17, <2>1, <2>2 DEF JudgeFollowup
<1>18. CASE UNCHANGED appVars BY <1>18 DEF appVars, probeVars
<1>19. {"sni_based", "dns_based"} \subseteq Discriminator BY DEF Discriminator
<1> QED
  BY <1>3, <1>4, <1>5, <1>6, <1>7, <1>8, <1>9, <1>10, <1>11, <1>12, <1>13, <1>14,
     <1>15, <1>16, <1>17, <1>18, <1>19 DEF AppNext

LEMMA AppTypeRoom == AppSpec => [](AppTypeOK /\ BannerHasRoom)
BY AppInitType, AppStepType, PTL DEF AppSpec

\* The probe's state keeps its types, for all kinds, timeouts and networks.
THEOREM AppTypeCorrect == AppSpec => []AppTypeOK
BY AppTypeRoom, PTL

-------------------------------------------------------------------------------
(***************************************************************************)
(* What a verdict proves.                                                  *)
(***************************************************************************)

\* What a code of the target's attempt says of the network and of DoH.
Evidence(code) ==
  /\ code = "OK" =>
       /\ ip \notin net.blocked
       /\ kind = "smtps" => ~net.sniFiltered
       /\ certFp => ip \notin net.forged
  /\ code = "DNS_LIE" => known # {} /\ ip = NoAddr
  /\ code = "TCP_RST_MID_STREAM" => kind = "ssh" /\ chunks > 0
  /\ code = "TLS_RESET_POST_HELLO" => kind = "smtps" /\ ip \notin net.blocked
  /\ code = "CERT_MISMATCH" => certFp /\ ip \in net.forged

\* Which attempt is made where.
AttemptInPlace ==
  /\ phase = "resolve" =>
       attempt.kind = "target" /\ attempt.ip = NoAddr /\ verdict = None
  /\ phase \notin {"resolve", "raised"} /\ attempt.kind # "doh" => attempt.ip = ip
  /\ attempt.kind # "target" \/ phase = "handshake" \/ certFp => kind = "smtps"
  /\ phase = "send" => kind = "rdp"
  /\ verdict # None /\ kind # "smtps" => phase = "done"
  /\ discriminator # None => phase = "done"

\* What an open connection and a TLS session prove of the network.
PathProven ==
  /\ phase \in {"handshake", "send", "banner"} => attempt.ip \notin net.blocked
  /\ \/ phase = "banner"
     \/ phase = "judge" /\ result = "OK"
     => /\ attempt.ip \notin net.blocked
        /\ kind = "smtps" /\ CarriesTargetSni => ~net.sniFiltered
        /\ ~WrongCertificate

\* Codes are what these probes give, with their evidence.
VerdictProven ==
  /\ phase = "judge" => result \in GivenCodes
  /\ phase = "judge" /\ attempt.kind = "target" => Evidence(result)
  /\ phase = "done" \/ attempt.kind # "target" => verdict \in GivenCodes
  /\ Evidence(verdict)

LEMMA AttemptInPlaceStep ==
  ASSUME AppTypeOK, AttemptInPlace, [AppNext]_appVars
  PROVE  AttemptInPlace'
<1> USE DEF AttemptInPlace, Within, setup, outcomeVars, lookupVars, Blocking, None
<1>1. attempt \in Attempt BY DEF AppTypeOK
<1>2. CASE Resolve \/ AppTick
  BY <1>2 DEF Resolve, AppTick, Wait, Answer, Raise, dnsVars, probeVars
<1>3. CASE ResolveFailed BY <1>3 DEF ResolveFailed, Return
<1>4. CASE ResolveDone
  <2>1. attempt'.kind = attempt.kind /\ attempt'.ip = ip /\ phase' = "connect"
    BY <1>1, <1>4 DEF ResolveDone, Connect, Attempt
  <2> QED BY <1>4, <2>1 DEF ResolveDone
<1>5. CASE Connected
  <2>1. phase' \in {"handshake", "send", "banner"}
        /\ (phase' = "handshake" => kind = "smtps")
        /\ (phase' = "send" => kind = "rdp")
    BY <1>5 DEF Connected, Call
  <2> QED BY <1>5, <2>1 DEF Connected
<1>6. CASE ResolveRaised \/ ConnectFails \/ HandshakeFails \/ HandshakeRaises \/ SendFails
  BY <1>6 DEF ResolveRaised, ConnectFails, HandshakeFails, HandshakeRaises, SendFails,
              Return, Escape, TimedOut
<1>7. CASE Handshaken \/ Sent
  BY <1>7 DEF Handshaken, Sent, Return, Call
<1>8. CASE BannerReset \/ BannerTimesOut \/ BannerError \/ BannerRead \/ BannerEnds
  BY <1>8 DEF BannerReset, BannerTimesOut, BannerError, BannerRead, BannerEnds,
              JudgeBanner, Return, Escape, Call, TimedOut
<1>9. CASE JudgeTarget
  <2>1. CASE Finish(None) BY <1>9, <2>1 DEF JudgeTarget, Finish
  <2>2. CASE kind = "smtps" /\ ~Finish(None)
    <3>1. CASE /\ Connect([kind |-> "wrong_sni", ip |-> ip, timeout |-> FollowupTimeout])
               /\ UNCHANGED discriminator
      BY <1>9, <2>2, <3>1 DEF JudgeTarget, Connect
    <3>2. CASE NextDoh BY <1>9, <2>2, <3>2, NextDohAttempt DEF JudgeTarget
    <3> QED BY <1>9, <2>2, <3>1, <3>2 DEF JudgeTarget
  <2> QED BY <1>9, <2>1, <2>2 DEF JudgeTarget
<1>10. ASSUME NEW k \in {"wrong_sni", "doh"}, NEW d, JudgeFollowup(k, d)
       PROVE  AttemptInPlace'
  <2>1. kind = "smtps" BY <1>10 DEF JudgeFollowup
  <2>2. CASE Finish(d) BY <1>10, <2>1, <2>2 DEF JudgeFollowup, Finish
  <2>3. CASE NextDoh BY <1>10, <2>1, <2>3, NextDohAttempt DEF JudgeFollowup
  <2> QED BY <1>10, <2>2, <2>3 DEF JudgeFollowup
<1>11. CASE UNCHANGED appVars BY <1>11 DEF appVars, probeVars
<1> QED
  BY <1>2, <1>3, <1>4, <1>5, <1>6, <1>7, <1>8, <1>9, <1>10, <1>11 DEF AppNext

LEMMA PathProvenStep ==
  ASSUME AppTypeOK, AttemptInPlace, PathProven, [AppNext]_appVars
  PROVE  PathProven'
<1> USE DEF PathProven, CarriesTargetSni, WrongCertificate, Within, setup, lookupVars
<1>1. CASE phase' \notin {"handshake", "send", "banner", "judge"}
  BY <1>1
<1>2. CASE phase' = phase /\ UNCHANGED <<attempt, setup, result>>
  BY <1>2
<1>3. CASE Connected
  <2>1. UNCHANGED <<attempt, net, kind, certFp>> BY <1>3 DEF Connected
  <2>2. phase' = "banner" => kind # "smtps"
    BY <1>3 DEF Connected, Call
  <2>3. attempt.ip \notin net.blocked /\ phase' \in {"handshake", "send", "banner"}
    BY <1>3 DEF Connected, Call
  <2>4. kind # "smtps" => ~certFp BY DEF AttemptInPlace
  <2> QED BY <2>1, <2>2, <2>3, <2>4
<1>4. CASE Handshaken
  BY <1>4 DEF Handshaken, Call, Return
<1>5. CASE Sent
  <2>1. kind # "smtps" /\ ~certFp
    BY <1>5 DEF Sent, AttemptInPlace
  <2> QED BY <1>5, <2>1 DEF Sent, Call
<1>6. CASE \/ ResolveFailed \/ ResolveRaised \/ ConnectFails
           \/ HandshakeFails \/ HandshakeRaises \/ SendFails
  BY <1>1, <1>6 DEF ResolveFailed, ConnectFails, HandshakeFails, HandshakeRaises,
                    SendFails, ResolveRaised, Return, Escape, TimedOut
<1>7. CASE BannerReset \/ BannerTimesOut \/ BannerError \/ BannerRead \/ BannerEnds
  BY <1>7 DEF BannerReset, BannerTimesOut, BannerError, BannerRead, BannerEnds,
              JudgeBanner, Return, Escape, Call, TimedOut
<1>8. CASE Resolve \/ AppTick
  BY <1>2, <1>8 DEF Resolve, AppTick, probeVars
<1>9. CASE ResolveDone BY <1>1, <1>9 DEF ResolveDone, Connect
<1>10. CASE \/ JudgeTarget
            \/ JudgeFollowup("wrong_sni", "sni_based")
            \/ JudgeFollowup("doh", "dns_based")
  BY <1>1, <1>10, NextDohAttempt DEF JudgeTarget, JudgeFollowup, Finish, Connect
<1>11. CASE UNCHANGED appVars BY <1>2, <1>11 DEF appVars, probeVars
<1> QED
  BY <1>3, <1>4, <1>5, <1>6, <1>7, <1>8, <1>9, <1>10, <1>11 DEF AppNext

\* A verdict on record keeps its evidence: only smtps goes on after it, and a
\* reset in the middle of a banner is not one of its codes.
LEMMA VerdictKept ==
  ASSUME AttemptInPlace, VerdictProven, phase # "done",
         UNCHANGED <<verdict, ip, known, setup>>
  PROVE  Evidence(verdict)'
<1>1. verdict = None \/ kind = "smtps" BY DEF AttemptInPlace
<1> QED BY <1>1 DEF VerdictProven, Evidence, setup, None

LEMMA VerdictProvenStep ==
  ASSUME AppTypeOK, BannerHasRoom, AttemptInPlace, PathProven, VerdictProven,
         [AppNext]_appVars
  PROVE  VerdictProven'
<1> USE DEF Within, setup, outcomeVars, lookupVars, GivenCodes
<1>1. CASE Resolve
  <2>1. verdict' = None /\ phase' = "resolve" /\ attempt'.kind = "target"
    BY <1>1 DEF Resolve, probeVars, AttemptInPlace
  <2> QED BY <2>1 DEF VerdictProven, Evidence, None
<1>2. CASE ResolveFailed
  <2>1. /\ phase' = "judge" /\ attempt'.kind = "target" /\ verdict' = None
        /\ result' \in {"DNS_LIE", "ERROR_INTERNAL"}
        /\ result' = "DNS_LIE" => known' # {} /\ ip' = NoAddr
    BY <1>2 DEF ResolveFailed, Return, AttemptInPlace
  <2> QED BY <2>1 DEF VerdictProven, Evidence, None
<1>3. CASE ResolveDone
  <2>1. attempt'.kind = "target" /\ verdict' = None /\ phase' = "connect"
    BY <1>3 DEF ResolveDone, Connect, AttemptInPlace, AppTypeOK, Attempt
  <2> QED BY <2>1 DEF VerdictProven, Evidence, None
<1>4. ASSUME Within, phase \notin {"done", "judge"}, phase' # "done",
             phase' = "judge" => result' \in GivenCodes,
             phase' = "judge" /\ attempt.kind = "target" => Evidence(result)'
      PROVE  VerdictProven'
  <2>1. Evidence(verdict)' BY <1>4, VerdictKept
  <2> QED BY <1>4, <2>1 DEF VerdictProven
<1>5. CASE ConnectFails \/ HandshakeFails
  <2>1. phase' = "judge" /\ phase \in {"connect", "handshake"}
    BY <1>5 DEF ConnectFails, HandshakeFails, Return, TimedOut
  <2>2. /\ result' \in GivenCodes \ {"OK", "DNS_LIE", "TCP_RST_MID_STREAM", "CERT_MISMATCH"}
        /\ result' = "TLS_RESET_POST_HELLO" => phase = "handshake"
    BY <1>5 DEF ConnectFails, HandshakeFails, Return, TimedOut
  <2>3. phase = "handshake" /\ attempt.kind = "target" =>
          kind = "smtps" /\ ip \notin net.blocked
    BY DEF AttemptInPlace, PathProven
  <2>4. Within BY <1>5 DEF ConnectFails, HandshakeFails
  <2>5. attempt.kind = "target" => Evidence(result)'
    BY <2>2, <2>3, <2>4 DEF Evidence
  <2> QED BY <1>4, <2>1, <2>2, <2>4, <2>5
<1>6. CASE ResolveRaised \/ Connected \/ HandshakeRaises \/ Sent
  <2>1. Within /\ phase \notin {"done", "judge"}
    BY <1>6 DEF ResolveRaised, Connected, HandshakeRaises, Sent
  <2>2. phase' \notin {"done", "judge"}
    BY <1>6 DEF ResolveRaised, Connected, HandshakeRaises, Sent, Escape, Call
  <2> QED BY <1>4, <2>1, <2>2
<1>7. CASE Handshaken
  <2>1. CASE WrongCertificate /\ Return("CERT_MISMATCH")
    <3>1. attempt.ip = ip /\ certFp /\ ip \in net.forged
      BY <1>7, <2>1 DEF WrongCertificate, AttemptInPlace, Handshaken
    <3>2. Evidence(result)'
      BY <1>7, <2>1, <3>1 DEF Handshaken, Return, Evidence
    <3> QED BY <1>4, <1>7, <2>1, <3>2 DEF Handshaken, Return
  <2>2. CASE Call("banner")
    <3>1. Within /\ phase = "handshake" /\ phase' = "banner"
      BY <1>7, <2>2 DEF Handshaken, Call
    <3> QED BY <1>4, <3>1
  <2> QED BY <1>7, <2>1, <2>2 DEF Handshaken
<1>8. CASE SendFails
  <2>1. /\ phase = "send" /\ Within /\ phase' \in {"judge", "raised"}
        /\ phase' = "judge" => result' = "TCP_RST_HANDSHAKE"
    BY <1>8 DEF SendFails, Return, Escape
  <2>2. phase' = "judge" => Evidence(result)' BY <2>1 DEF Evidence
  <2> QED BY <1>4, <2>1, <2>2
<1>9. CASE BannerReset \/ BannerTimesOut \/ BannerError \/ BannerRead \/ BannerEnds
  <2>1. phase = "banner" /\ Within
    BY <1>9 DEF BannerReset, BannerTimesOut, BannerError, BannerRead, BannerEnds,
                TimedOut
  <2>2. \/ phase' \in {"banner", "raised"}
        \/ /\ phase' = "judge"
           /\ result' \in GivenCodes \ {"DNS_LIE", "TLS_RESET_POST_HELLO", "CERT_MISMATCH"}
           /\ result' = "TCP_RST_MID_STREAM" => chunks # 0 /\ chunks' = chunks
    BY <1>9 DEF BannerReset, BannerTimesOut, BannerError, BannerRead, BannerEnds,
                JudgeBanner, Return, Escape, Call
  <2>3. attempt.kind = "target" =>
          /\ ip \notin net.blocked
          /\ kind = "smtps" => ~net.sniFiltered
          /\ certFp => ip \notin net.forged
    BY <2>1 DEF PathProven, AttemptInPlace, CarriesTargetSni, WrongCertificate
  <2>4. chunks # 0 => kind = "ssh" /\ chunks > 0
    BY <2>1 DEF BannerHasRoom, AppTypeOK
  <2>5. phase' = "judge" /\ attempt.kind = "target" => Evidence(result)'
    BY <2>1, <2>2, <2>3, <2>4 DEF Evidence
  <2>6. phase' # "done" /\ (phase' = "judge" => result' \in GivenCodes) BY <2>2
  <2> QED BY <1>4, <2>1, <2>5, <2>6
<1>10. CASE AppTick
  BY <1>10, VerdictKept DEF AppTick, dnsVars, probeVars, VerdictProven, Blocking
<1>11. CASE JudgeTarget
  <2>1. /\ verdict' = result /\ result \in GivenCodes /\ Evidence(result)
        /\ UNCHANGED <<ip, known, setup, chunks>>
    BY <1>11 DEF JudgeTarget, VerdictProven
  <2>2. Evidence(verdict)' BY <2>1 DEF Evidence
  <2>3. phase' # "judge"
    BY <1>11, NextDohAttempt DEF JudgeTarget, Finish, Connect
  <2> QED BY <2>1, <2>2, <2>3 DEF VerdictProven
<1>12. ASSUME NEW k \in {"wrong_sni", "doh"}, NEW d, JudgeFollowup(k, d)
       PROVE  VerdictProven'
  <2>1. verdict \in GivenCodes /\ Evidence(verdict)'
    BY <1>12, VerdictKept DEF JudgeFollowup, VerdictProven
  <2>2. phase' # "judge" /\ verdict' = verdict
    BY <1>12, NextDohAttempt DEF JudgeFollowup, Finish
  <2> QED BY <2>1, <2>2 DEF VerdictProven
<1>13. CASE UNCHANGED appVars
  BY <1>13 DEF appVars, probeVars, VerdictProven, Evidence
<1> QED
  BY <1>1, <1>2, <1>3, <1>5, <1>6, <1>7, <1>8, <1>9, <1>10, <1>11, <1>12, <1>13
  DEF AppNext

\* All of the above is an invariant of the probe.
AppInv ==
  AppTypeOK /\ BannerHasRoom /\ AttemptInPlace /\ PathProven /\ VerdictProven

LEMMA AppInvariant ==
  /\ AppInit => AppInv
  /\ AppInv /\ [AppNext]_appVars => AppInv'
<1>1. AppInit => AttemptInPlace
  <2>1. AppInit => (certFp => kind = "smtps") BY DEF AppInit
  <2>2. AppInit => /\ phase = "resolve" /\ attempt.kind = "target"
                   /\ attempt.ip = NoAddr /\ verdict = None /\ discriminator = None
    BY DEF AppInit
  <2> QED BY <2>1, <2>2 DEF AttemptInPlace
<1>2. AppInit => PathProven /\ VerdictProven
  BY DEF AppInit, PathProven, VerdictProven, Evidence, None
<1> QED
  BY <1>1, <1>2, AppInitType, AppStepType, AttemptInPlaceStep, PathProvenStep,
     VerdictProvenStep
  DEF AppInv

\* OK clears the path of the target, for all networks and any order of checks.
THEOREM OkMeansThroughCorrect == AppSpec => []OkMeansThrough
<1>1. AppInv => OkMeansThrough
  BY DEF AppInv, VerdictProven, Evidence, OkMeansThrough
<1> QED BY <1>1, AppInvariant, PTL DEF AppSpec

\* A code that opens the aggregator's gate has its evidence.
THEOREM FingerprintHasEvidenceCorrect == AppSpec => []FingerprintHasEvidence
<1>1. AppInv => FingerprintHasEvidence
  BY DEF AppInv, VerdictProven, Evidence, FingerprintHasEvidence
<1> QED BY <1>1, AppInvariant, PTL DEF AppSpec

\* A probe that comes back without an exception has a verdict, and it is never
\* the one reserved to the control probe: what DpiProbe assumes of other kinds.
THEOREM AppVerdictGiven ==
  AppSpec => [](phase = "done" => verdict \in VerdictCode \ {"VANTAGE_UNAVAILABLE"})
<1>1. AppInv => (phase = "done" => verdict \in VerdictCode \ {"VANTAGE_UNAVAILABLE"})
  BY GivenCodesType DEF AppInv, VerdictProven
<1> QED BY <1>1, AppInvariant, PTL DEF AppSpec

LEMMA DiagnosisStep ==
  ASSUME AppInv, SmtpsDiscriminatorPossible, [AppNext]_appVars
  PROVE  SmtpsDiscriminatorPossible'
<1> USE DEF SmtpsDiscriminatorPossible
<1>1. None \notin {"sni_based", "dns_based", "inconclusive"} BY DEF None
<1>2. ASSUME discriminator' = discriminator,
             discriminator = None \/ UNCHANGED <<ip, net>>
      PROVE  SmtpsDiscriminatorPossible'
  BY <1>1, <1>2
<1>3. phase # "done" => discriminator = None
  BY DEF AppInv, AttemptInPlace
<1>4. CASE Resolve
  BY <1>2, <1>3, <1>4 DEF Resolve, probeVars, outcomeVars
<1>5. CASE ResolveFailed \/ ResolveDone
  BY <1>2, <1>3, <1>5 DEF ResolveFailed, ResolveDone
<1>6. CASE ResolveRaised \/ ConnectFails \/ Connected \/ HandshakeFails
           \/ HandshakeRaises \/ Handshaken \/ SendFails \/ Sent \/ BannerReset \/ BannerTimesOut
           \/ BannerError \/ BannerRead \/ BannerEnds
  <2>1. Within
    BY <1>6 DEF ResolveRaised, ConnectFails, Connected, HandshakeFails,
                HandshakeRaises, Handshaken, SendFails, Sent, BannerReset, BannerTimesOut, BannerError, BannerRead,
                BannerEnds
  <2> QED BY <1>2, <2>1 DEF Within, outcomeVars, lookupVars, setup
<1>7. CASE AppTick \/ UNCHANGED appVars
  BY <1>2, <1>7 DEF AppTick, appVars, dnsVars, probeVars, outcomeVars, setup,
                    lookupVars
<1>8. CASE JudgeTarget
  <2>1. phase = "judge" BY <1>8 DEF JudgeTarget
  <2>2. discriminator' \in {None, "inconclusive"}
    BY <1>3, <1>8, <2>1, NextDohAttempt DEF JudgeTarget, Finish
  <2> QED BY <1>1, <2>2
<1>9. CASE JudgeFollowup("wrong_sni", "sni_based")
  <2>1. phase = "judge" /\ attempt.ip = ip /\ UNCHANGED <<ip, net>>
    BY <1>9 DEF JudgeFollowup, AppInv, AttemptInPlace, lookupVars, setup
  <2>2. CASE result = "OK"
    <3>1. discriminator' = "sni_based" BY <1>9, <2>2 DEF JudgeFollowup, Finish
    <3> QED BY <2>1, <2>2, <3>1 DEF AppInv, PathProven
  <2>3. CASE result # "OK"
    BY <1>1, <1>3, <1>9, <2>1, <2>3, NextDohAttempt DEF JudgeFollowup
  <2> QED BY <2>2, <2>3
<1>10. CASE JudgeFollowup("doh", "dns_based")
  <2>1. /\ phase = "judge" /\ kind = "smtps" /\ CarriesTargetSni
        /\ UNCHANGED <<ip, net>>
    BY <1>10 DEF JudgeFollowup, AppInv, AttemptInPlace, lookupVars, setup,
                 CarriesTargetSni
  <2>2. CASE result = "OK"
    <3>1. discriminator' = "dns_based" BY <1>10, <2>2 DEF JudgeFollowup, Finish
    <3> QED BY <2>1, <2>2, <3>1 DEF AppInv, PathProven
  <2>3. CASE result # "OK"
    BY <1>1, <1>3, <1>10, <2>1, <2>3, NextDohAttempt DEF JudgeFollowup
  <2> QED BY <2>2, <2>3
<1> QED
  BY <1>4, <1>5, <1>6, <1>7, <1>8, <1>9, <1>10 DEF AppNext

\* The follow-ups of smtps never accuse what the network does not do.
THEOREM SmtpsDiscriminatorPossibleCorrect == AppSpec => []SmtpsDiscriminatorPossible
<1>1. AppInit => SmtpsDiscriminatorPossible
  BY DEF AppInit, SmtpsDiscriminatorPossible, None
<1> QED BY <1>1, DiagnosisStep, AppInvariant, PTL DEF AppSpec

-------------------------------------------------------------------------------
(***************************************************************************)
(* Time.                                                                   *)
(***************************************************************************)

Limit == (2 + CallsAfterConnect) * Timeout + DohWait

\* Multiples of the timeout, for the solver.
LEMMA Multiples ==
  /\ \A n \in Nat : n * Timeout \in Nat /\ (n + 1) * Timeout = n * Timeout + Timeout
  /\ \A m, n \in Nat : m <= n => m * Timeout <= n * Timeout
<1>1. Timeout \in Nat BY LookupAssumption
<1>2. ASSUME NEW n \in Nat
      PROVE  n * Timeout \in Nat /\ (n + 1) * Timeout = n * Timeout + Timeout
  BY <1>1, <1>2, SMT
<1>3. ASSUME NEW m \in Nat, NEW n \in Nat, m <= n
      PROVE  m * Timeout <= n * Timeout
  <2>1. PICK k \in Nat : n = m + k
    <3>1. n - m \in Nat /\ n = m + (n - m) BY <1>3
    <3> QED BY <3>1
  <2>2. n * Timeout = m * Timeout + k * Timeout BY <1>1, <2>1
  <2>3. k * Timeout \in Nat /\ m * Timeout \in Nat BY <1>1
  <2> QED BY <2>2, <2>3
<1> QED BY <1>2, <1>3

\* The limit, kind by kind.
LEMMA LimitOfKind ==
  ASSUME AppTypeOK
  PROVE  /\ kind \in {"smtps", "rdp"} => Limit = 4 * Timeout + DohWait
         /\ kind = "smtp" => Limit = 3 * Timeout + DohWait
         /\ kind = "ssh" => Limit = (2 + BannerReads) * Timeout + DohWait
         /\ Limit \in Nat /\ 3 * Timeout + DohWait <= Limit
<1>1. kind \in {"smtp", "smtps", "ssh", "rdp"} BY AppAssumption DEF AppTypeOK
<1>2. Timeout \in Nat /\ DohWait \in Nat BY LookupAssumption
<1>3. CASE kind \in {"smtps", "rdp"}
  <2>1. CallsAfterConnect = 2 BY <1>3 DEF CallsAfterConnect
  <2> QED BY <1>2, <1>3, <2>1 DEF Limit
<1>4. CASE kind = "smtp"
  <2>1. CallsAfterConnect = 1 BY <1>4 DEF CallsAfterConnect
  <2> QED BY <1>2, <1>4, <2>1 DEF Limit
<1>5. CASE kind = "ssh"
  <2>1. CallsAfterConnect = BannerReads BY <1>5 DEF CallsAfterConnect
  <2>2. 2 + BannerReads \in Nat /\ 3 <= 2 + BannerReads BY AppAssumption
  <2>3. /\ (2 + BannerReads) * Timeout \in Nat
        /\ 3 * Timeout <= (2 + BannerReads) * Timeout
    BY <2>2, Multiples
  <2> QED BY <1>2, <1>5, <2>1, <2>3 DEF Limit
<1> QED BY <1>1, <1>3, <1>4, <1>5

\* How late the deadline of each call of the target's attempt can be.
TargetClock ==
  /\ attempt.timeout = Timeout
  /\ phase \in Blocking => now <= expires
  /\ phase = "connect" => expires <= 2 * Timeout + DohWait
  /\ phase \in {"handshake", "send"} => expires <= 3 * Timeout + DohWait
  /\ phase = "banner" /\ kind \in {"smtps", "rdp"} => expires <= 4 * Timeout + DohWait
  /\ phase = "banner" /\ kind \notin {"smtps", "rdp"} =>
       expires <= (3 + chunks) * Timeout + DohWait
  /\ now <= Limit

\* A follow-up starts inside the budget, with no more than what is left of it.
FollowupClock ==
  /\ attempt.timeout <= FollowupCap /\ attempt.timeout <= Timeout
  /\ phase \in Blocking => now <= expires
  /\ phase = "connect" => expires <= Timeout
  /\ phase = "handshake" => expires <= Timeout + attempt.timeout
  /\ phase = "banner" => expires <= Timeout + 2 * attempt.timeout
  /\ now <= Timeout + 2 * attempt.timeout

Clock ==
  /\ phase = "resolve" => attempt.timeout = Timeout /\ now <= Timeout + DohWait
  /\ attempt.kind = "target" /\ phase # "resolve" => TargetClock
  /\ attempt.kind # "target" => FollowupClock

LEMMA FollowupTimeoutFits ==
  ASSUME now \in Nat, FollowupTimeout # 0
  PROVE  /\ FollowupTimeout <= FollowupCap /\ FollowupTimeout <= Timeout
         /\ now + FollowupTimeout <= Timeout
BY LookupAssumption, AppAssumption DEF FollowupTimeout

\* Whatever an attempt ends with, the next one starts in time or none does.
LEMMA NextAttemptClock ==
  ASSUME now \in Nat, now' = now, FollowupTimeout # 0,
         attempt'.kind # "target", attempt'.timeout = FollowupTimeout,
         expires' = now + FollowupTimeout, phase' = "connect"
  PROVE  Clock'
<1>1. FollowupTimeout \in Nat BY FollowupTimeoutType
<1> QED
  BY <1>1, FollowupTimeoutFits, LookupAssumption
  DEF Clock, FollowupClock, Blocking

\* The clock stands, and the attempt returns, lets an exception through or ends.
LEMMA ClockStands ==
  ASSUME Clock, now' = now, UNCHANGED <<attempt, kind>>, phase # "resolve",
         phase' \in {"judge", "done", "raised"}
  PROVE  Clock'
BY DEF Clock, TargetClock, FollowupClock, Blocking, Limit, CallsAfterConnect

LEMMA ClockStep ==
  ASSUME AppInv, Clock, [AppNext]_appVars
  PROVE  Clock'
<1> USE DEF Within, setup
<1>1. /\ now \in Nat /\ expires \in Nat /\ chunks \in Nat /\ attempt \in Attempt
      /\ attempt.timeout \in Nat
  BY DEF AppInv, AppTypeOK, Attempt
<1>2. /\ Timeout \in Nat /\ DohWait \in Nat /\ FollowupCap \in Nat
      /\ Limit \in Nat /\ 3 * Timeout + DohWait <= Limit
      /\ kind \in {"smtps", "rdp"} => Limit = 4 * Timeout + DohWait
  BY LookupAssumption, AppAssumption, LimitOfKind DEF AppInv
<1>3. phase = "resolve" => attempt.kind = "target"
  BY DEF AppInv, AttemptInPlace
<1>4. UNCHANGED kind => Limit' = Limit BY DEF Limit, CallsAfterConnect
<1>5. attempt.kind # "target" \/ phase = "handshake" => kind = "smtps"
  BY DEF AppInv, AttemptInPlace
<1>6. phase = "send" => kind = "rdp"
  BY DEF AppInv, AttemptInPlace
<1>7. CASE Resolve
  <2>1. now' <= Timeout + DohWait
    BY <1>1, <1>2, <1>7 DEF Resolve, Wait, Answer, Raise, Clock
  <2> QED BY <1>3, <1>7, <2>1 DEF Resolve, probeVars, Clock
<1>8. CASE ResolveFailed \/ ResolveRaised
  <2>1. /\ phase = "resolve" /\ UNCHANGED <<now, attempt, kind>>
        /\ phase' \in {"judge", "raised"}
    BY <1>8 DEF ResolveFailed, ResolveRaised, Return, Escape, lookupVars
  <2> QED BY <1>1, <1>2, <1>3, <1>4, <2>1 DEF Clock, TargetClock, Blocking
<1>9. CASE ResolveDone
  <2>1. /\ phase = "resolve" /\ UNCHANGED <<now, kind>> /\ phase' = "connect"
        /\ attempt'.kind = attempt.kind /\ attempt'.timeout = attempt.timeout
        /\ expires' = now + attempt.timeout
    BY <1>1, <1>9 DEF ResolveDone, Connect, Attempt, lookupVars
  <2> QED BY <1>1, <1>2, <1>3, <1>4, <2>1 DEF Clock, TargetClock, Blocking
<1>10. ASSUME UNCHANGED <<now, attempt, kind>>, phase # "resolve",
              phase' \in {"judge", "raised"}
       PROVE  Clock'
  BY <1>10, ClockStands
<1>11. CASE ConnectFails \/ HandshakeFails \/ HandshakeRaises \/ SendFails
  BY <1>10, <1>11 DEF ConnectFails, HandshakeFails, HandshakeRaises, SendFails, Return, Escape,
                      TimedOut, lookupVars
<1>12. CASE BannerReset \/ BannerTimesOut \/ BannerError \/ BannerEnds
  BY <1>10, <1>12 DEF BannerReset, BannerTimesOut, BannerError, BannerEnds,
                      JudgeBanner, Return, Escape, TimedOut, lookupVars
<1>13. CASE Connected
  <2>1. /\ phase = "connect" /\ UNCHANGED <<now, attempt, kind>> /\ chunks' = 0
        /\ expires' = now + attempt.timeout
        /\ phase' \in {"handshake", "send", "banner"}
        /\ phase' = "banner" => kind \notin {"smtps", "rdp"}
        /\ phase' = "send" => kind = "rdp"
    BY <1>13 DEF Connected, Call, lookupVars
  <2>2. (3 + 0) * Timeout = 3 * Timeout BY <1>2
  <2> QED
    BY <1>1, <1>2, <1>4, <1>5, <2>1, <2>2
    DEF Clock, TargetClock, FollowupClock, Blocking
<1>14. CASE Handshaken \/ Sent
  <2>1. CASE phase' = "banner"
    <3>1. /\ phase \in {"handshake", "send"} /\ UNCHANGED <<now, attempt, kind>>
          /\ expires' = now + attempt.timeout
      BY <1>14, <2>1 DEF Handshaken, Sent, Call, Return, lookupVars
    <3>2. kind \in {"smtps", "rdp"} BY <1>5, <1>6, <3>1
    <3> QED
      BY <1>1, <1>2, <1>4, <1>5, <1>6, <2>1, <3>1, <3>2
      DEF Clock, TargetClock, FollowupClock, Blocking
  <2>2. CASE phase' # "banner"
    BY <1>10, <1>14, <2>2 DEF Handshaken, Sent, Call, Return, lookupVars
  <2> QED BY <2>1, <2>2
<1>15. CASE BannerRead
  <2>1. CASE JudgeBanner
    BY <1>10, <1>15, <2>1 DEF BannerRead, JudgeBanner, Return, lookupVars
  <2>2. CASE kind = "ssh" /\ Call("banner")
    <3>1. /\ phase = "banner" /\ phase' = "banner" /\ UNCHANGED <<now, attempt, kind>>
          /\ expires' = now + attempt.timeout /\ chunks' = chunks + 1
      BY <1>15, <2>2 DEF BannerRead, Call, lookupVars
    <3>2. attempt.kind = "target" BY <1>5, <2>2
    <3>3. (3 + chunks') * Timeout = (3 + chunks) * Timeout + Timeout
      <4>1. 3 + chunks \in Nat /\ 3 + chunks' = (3 + chunks) + 1 BY <1>1, <3>1
      <4> QED BY <4>1, Multiples
    <3>4. (3 + chunks) * Timeout \in Nat
      <4>1. 3 + chunks \in Nat BY <1>1
      <4> QED BY <4>1, Multiples
    <3> QED
      BY <1>1, <1>2, <1>4, <2>2, <3>1, <3>2, <3>3, <3>4
      DEF Clock, TargetClock, Blocking
  <2> QED BY <1>15, <2>1, <2>2 DEF BannerRead
<1>16. CASE AppTick
  <2>1. /\ phase \in Blocking /\ now < expires /\ now' = now + 1
        /\ UNCHANGED <<phase, attempt, kind, expires, chunks>>
    BY <1>16 DEF AppTick, probeVars
  <2>2. CASE attempt.kind = "target"
    <3>1. CASE phase = "banner" /\ kind \notin {"smtps", "rdp"}
      <4>1. kind \in {"smtp", "ssh"}
        BY <3>1, AppAssumption DEF AppInv, AppTypeOK
      <4>2. chunks < BannerReads /\ (kind = "smtp" => chunks = 0)
        BY <3>1 DEF AppInv, BannerHasRoom
      <4>3. kind = "ssh" => expires <= (2 + BannerReads) * Timeout + DohWait
        <5>1. /\ 3 + chunks \in Nat /\ 2 + BannerReads \in Nat
              /\ 3 + chunks <= 2 + BannerReads
          BY <1>1, <4>2, AppAssumption
        <5>2. /\ (3 + chunks) * Timeout <= (2 + BannerReads) * Timeout
              /\ (3 + chunks) * Timeout \in Nat /\ (2 + BannerReads) * Timeout \in Nat
          BY <5>1, Multiples
        <5>3. expires <= (3 + chunks) * Timeout + DohWait
          BY <2>2, <3>1 DEF Clock, TargetClock
        <5> QED BY <1>1, <1>2, <5>2, <5>3
      <4>4. kind = "smtp" => expires <= 3 * Timeout + DohWait
        BY <1>2, <2>2, <3>1, <4>2 DEF Clock, TargetClock
      <4>5. expires <= Limit BY <1>1, <1>2, <4>1, <4>3, <4>4, LimitOfKind DEF AppInv
      <4> QED
        BY <1>1, <1>2, <1>4, <2>1, <2>2, <3>1, <4>5 DEF Clock, TargetClock, Blocking
    <3>2. CASE ~(phase = "banner" /\ kind \notin {"smtps", "rdp"})
      BY <1>1, <1>2, <1>4, <2>1, <2>2, <3>2 DEF Clock, TargetClock, Blocking
    <3> QED BY <3>1, <3>2
  <2>3. CASE attempt.kind # "target"
    <3>1. phase # "send" BY <1>5, <1>6, <2>3
    <3> QED BY <1>1, <1>2, <2>1, <2>3, <3>1 DEF Clock, FollowupClock, Blocking
  <2> QED BY <2>2, <2>3
<1>17. CASE JudgeTarget
  <2>1. phase = "judge" /\ UNCHANGED <<now, kind>>
    BY <1>17 DEF JudgeTarget, lookupVars
  <2>2. CASE Finish(None)
    BY <1>17, <2>1, <2>2, ClockStands DEF Finish
  <2>3. CASE /\ FollowupTimeout # 0
             /\ Connect([kind |-> "wrong_sni", ip |-> ip, timeout |-> FollowupTimeout])
    BY <1>1, <2>1, <2>3, NextAttemptClock DEF Connect
  <2>4. CASE NextDoh
    BY <1>1, <2>1, <2>4, NextDohAttempt, NextAttemptClock, ClockStands
  <2> QED BY <1>17, <2>2, <2>3, <2>4 DEF JudgeTarget
<1>18. ASSUME NEW k, NEW d, JudgeFollowup(k, d)
       PROVE  Clock'
  <2>1. phase = "judge" /\ UNCHANGED <<now, kind>>
    BY <1>18 DEF JudgeFollowup, lookupVars
  <2>2. CASE Finish(d) BY <2>1, <2>2, ClockStands DEF Finish
  <2>3. CASE NextDoh
    BY <1>1, <2>1, <2>3, NextDohAttempt, NextAttemptClock, ClockStands
  <2> QED BY <1>18, <2>2, <2>3 DEF JudgeFollowup
<1>19. CASE UNCHANGED appVars
  <2>1. UNCHANGED <<now, phase, attempt, kind, expires, chunks>>
    BY <1>19 DEF appVars, lookupVars, probeVars
  <2> QED
    BY <1>4, <2>1 DEF Clock, TargetClock, FollowupClock
<1> QED
  BY <1>7, <1>8, <1>9, <1>11, <1>12, <1>13, <1>14, <1>15, <1>16, <1>17, <1>18, <1>19
  DEF AppNext

LEMMA ClockInvariant == AppSpec => [](AppInv /\ Clock)
<1>1. AppInit => Clock
  <2>1. AppInit => /\ phase = "resolve" /\ attempt.kind = "target"
                   /\ attempt.timeout = Timeout /\ now = 0
    BY DEF AppInit, LookupInit
  <2> QED BY <2>1, LookupAssumption DEF Clock
<1> QED BY <1>1, ClockStep, AppInvariant, PTL DEF AppSpec

\* The timeouts of its calls and the DoH wait bound every run.
THEOREM AppWorstCaseCorrect == AppSpec => []AppWorstCase
<1>1. ASSUME AppInv, Clock PROVE AppWorstCase
  <2>1. /\ now \in Nat /\ attempt.timeout \in Nat
        /\ Timeout \in Nat /\ DohWait \in Nat
        /\ Limit \in Nat /\ 3 * Timeout + DohWait <= Limit
    BY <1>1, LookupAssumption, LimitOfKind DEF AppInv, AppTypeOK, Attempt
  <2>2. now <= Limit
    BY <1>1, <2>1 DEF Clock, TargetClock, FollowupClock
  <2> QED BY <2>2 DEF Limit, AppWorstCase
<1> QED BY <1>1, ClockInvariant, PTL

\* The follow-ups outlast the budget by two of their timeouts at most.
THEOREM AppFollowupsEndSoonCorrect == AppSpec => []AppFollowupsEndSoon
<1>1. ASSUME AppInv, Clock PROVE AppFollowupsEndSoon
  <2>1. /\ now \in Nat /\ attempt.timeout \in Nat
        /\ Timeout \in Nat /\ FollowupCap \in Nat
    BY <1>1, LookupAssumption, AppAssumption DEF AppInv, AppTypeOK, Attempt
  <2> QED BY <1>1, <2>1 DEF Clock, FollowupClock, AppFollowupsEndSoon
<1> QED BY <1>1, ClockInvariant, PTL

-------------------------------------------------------------------------------
(***************************************************************************)
(* Refinement: the lookup that the probe carries with it keeps Lookup's    *)
(* promise to the end of the run.                                          *)
(***************************************************************************)

\* Past the resolve phase the lookup has returned, so time that goes by is the
\* caller's.
LookedUp == phase # "resolve" => returned # "no"

LEMMA LookedUpStep ==
  ASSUME LookedUp, [AppNext]_appVars
  PROVE  LookedUp' /\ [LookupNext]_lookupVars
<1> USE DEF LookedUp, LookupNext
<1>1. CASE Resolve
  BY <1>1 DEF Resolve, Wait, Answer, Raise, probeVars
<1>2. CASE ResolveFailed \/ ResolveDone \/ ResolveRaised
  BY <1>2 DEF ResolveFailed, ResolveDone, ResolveRaised, Within, lookupVars
<1>3. CASE AppTick
  BY <1>3 DEF AppTick, Blocking, Elapse, dnsVars, probeVars
<1>4. ASSUME UNCHANGED lookupVars, phase # "resolve"
      PROVE  LookedUp' /\ [LookupNext]_lookupVars
  BY <1>4 DEF lookupVars
<1>5. CASE \/ ConnectFails \/ Connected \/ HandshakeFails \/ HandshakeRaises
           \/ Handshaken \/ SendFails \/ Sent
  BY <1>4, <1>5 DEF ConnectFails, Connected, HandshakeFails, HandshakeRaises, Handshaken,
                    SendFails, Sent, TimedOut, Within
<1>6. CASE BannerReset \/ BannerTimesOut \/ BannerError \/ BannerRead \/ BannerEnds
  BY <1>4, <1>6 DEF BannerReset, BannerTimesOut, BannerError, BannerRead, BannerEnds,
                    TimedOut, Within
<1>7. CASE \/ JudgeTarget
           \/ JudgeFollowup("wrong_sni", "sni_based")
           \/ JudgeFollowup("doh", "dns_based")
  BY <1>4, <1>7 DEF JudgeTarget, JudgeFollowup
<1>8. CASE UNCHANGED appVars BY <1>8 DEF appVars, lookupVars, probeVars
<1> QED BY <1>1, <1>2, <1>3, <1>5, <1>6, <1>7, <1>8 DEF AppNext

\* The probe implements Lookup: it takes the answer once, keeps it while the
\* attempt and its follow-ups run, and goes on only after it.
THEOREM AppImplementsLookup == AppSpec => LookupSpec
<1>1. AppInit => LookupInit /\ LookedUp BY DEF AppInit, LookedUp
<1>2. LookedUp /\ [AppNext]_appVars => LookedUp' /\ [LookupNext]_lookupVars
  BY LookedUpStep
<1> QED BY <1>1, <1>2, PTL DEF AppSpec, LookupSpec
===============================================================================
