------------------------------ MODULE HttpsProofs ------------------------------
(***************************************************************************)
(* Proofs about HttpsProbe and the Resolver phase it starts with, for      *)
(* every set of addresses and networks and all timeouts.                   *)
(***************************************************************************)
EXTENDS HttpsProbe, TLAPS

-------------------------------------------------------------------------------
(***************************************************************************)
(* Types.                                                                  *)
(***************************************************************************)

\* The DoH wait is a number of ticks that its cap bounds.
LEMMA DohTimeoutType == DohTimeout \in Nat /\ DohTimeout <= DohCap
BY TimeAssumption DEF DohTimeout, Smaller

\* A step of the resolver's threads or of those it asks keeps their types.
LEMMA ResolverStepType ==
  ASSUME ResolverTypeOK, ResolverNext
  PROVE  ResolverTypeOK'
<1> USE DEF ResolverTypeOK, lookupVars, callerVars, resultVars
<1>1. ASSUME NEW a \in Addr, LookupAnswers(a) PROVE ResolverTypeOK'
  BY <1>1 DEF LookupAnswers
<1>2. CASE LookupFails BY <1>2 DEF LookupFails
<1>3. ASSUME NEW ips \in SUBSET Addr, DohAnswers(ips) PROVE ResolverTypeOK'
  BY <1>3 DEF DohAnswers
<1>4. CASE SysJoined BY <1>4 DEF SysJoined
<1>5. CASE SysStoresResult BY <1>5 DEF SysStoresResult, SysStores
<1>6. CASE StartCall BY <1>6 DEF StartCall
<1>7. CASE JoinSys BY <1>7, DohTimeoutType DEF JoinSys
<1>8. CASE JoinDoh BY <1>8 DEF JoinDoh
<1>9. CASE ReadDoh BY <1>9 DEF ReadDoh
<1>10. CASE ReadErr BY <1>10 DEF ReadErr
<1>11. CASE ReadIp BY <1>11 DEF ReadIp
<1>12. CASE ReadMs BY <1>12 DEF ReadMs
<1>13. CASE Tick BY <1>13 DEF Tick
<1> QED
  BY <1>1, <1>2, <1>3, <1>4, <1>5, <1>6, <1>7, <1>8, <1>9, <1>10, <1>11, <1>12,
     <1>13 DEF ResolverNext, Answers, Threads

LEMMA ResolverInitType == ResolverInit => ResolverTypeOK
<1> SUFFICES ASSUME ResolverInit PROVE ResolverTypeOK
  OBVIOUS
<1>1. now \in Nat /\ expires \in Nat BY TimeAssumption DEF ResolverInit
<1>2. literal \in BOOLEAN /\ inTime \in BOOLEAN BY DEF ResolverInit
<1> QED BY <1>1, <1>2 DEF ResolverInit, ResolverTypeOK

\* Outside the resolve phase only the clock and the deadline move.
LEMMA OtherPhaseType ==
  ASSUME ResolverTypeOK, UNCHANGED dnsVars, now' \in Nat, expires' \in Nat
  PROVE  ResolverTypeOK'
BY DEF ResolverTypeOK, dnsVars, lookupVars, resultVars

LEMMA FollowupTimeoutType ==
  now \in Nat => FollowupTimeout \in Nat
BY TimeAssumption, HttpsAssumption DEF FollowupTimeout, Smaller

LEMMA ConnectType ==
  ASSUME now \in Nat, NEW a \in Attempt, Connect(a)
  PROVE  /\ attempt' \in Attempt /\ sockTimeout' \in Nat /\ expires' \in Nat
         /\ phase' = "connect"
BY DEF Connect, Attempt

\* The codes an attempt may return, and where.
LEMMA Codes ==
  {"DNS_LIE", "ERROR_INTERNAL", "PORT_FILTERED", "REMOTE_DOWN",
   "TCP_RST_HANDSHAKE", "ROUTE_BLACKHOLE", "TLS_TIMEOUT", "TLS_RESET_POST_HELLO",
   "CERT_MISMATCH", "HTTP_STUB", "OK"} \subseteq VerdictCode
BY DEF VerdictCode, HighConfidence, MediumConfidence, LowConfidence

\* The loop over the DoH addresses.
LEMMA NextDohType ==
  ASSUME HttpsTypeOK, NextDoh
  PROVE  /\ attempt' \in Attempt /\ sockTimeout' \in Nat /\ expires' \in Nat
         /\ phase' \in {"connect", "done"}
         /\ followed' \in 0..MaxDohFollowups /\ untried' \in SUBSET Addr
         /\ discriminator' \in Discriminator \cup {None}
<1> DEFINE rest == untried \ {answer}
<1>1. now \in Nat BY DEF HttpsTypeOK, ResolverTypeOK
<1>2. CASE Finish("inconclusive")
  BY <1>2 DEF Finish, HttpsTypeOK, ResolverTypeOK, Discriminator
<1>3. CASE ~Finish("inconclusive")
  <2>1. ~(rest = {} \/ FollowupTimeout = 0 \/ followed >= MaxDohFollowups)
    BY <1>3 DEF NextDoh
  <2>2. PICK ip \in rest :
          /\ Connect([kind |-> "doh", timeout |-> FollowupTimeout, ip |-> ip])
          /\ untried' = rest \ {ip}
          /\ followed' = followed + 1
          /\ UNCHANGED discriminator
    BY <2>1 DEF NextDoh
  <2>3. ip \in Addr BY DEF HttpsTypeOK
  <2>4. [kind |-> "doh", timeout |-> FollowupTimeout, ip |-> ip] \in Attempt
    BY <1>1, <2>3, FollowupTimeoutType DEF Attempt
  <2>5. /\ attempt' \in Attempt /\ sockTimeout' \in Nat /\ expires' \in Nat
        /\ phase' = "connect"
    BY <1>1, <2>2, <2>4, ConnectType
  <2>6. followed' \in 0..MaxDohFollowups
    BY <2>1, <2>2, HttpsAssumption DEF HttpsTypeOK
  <2>7. untried' \in SUBSET Addr /\ discriminator' \in Discriminator \cup {None}
    BY <2>2 DEF HttpsTypeOK
  <2> QED BY <2>5, <2>6, <2>7
<1> QED BY <1>2, <1>3

LEMMA HttpsInitType == HttpsInit => HttpsTypeOK
<1> SUFFICES ASSUME HttpsInit PROVE HttpsTypeOK
  OBVIOUS
<1>1. ResolverTypeOK BY ResolverInitType DEF HttpsInit
<1>2. attempt \in Attempt /\ sockTimeout \in Nat /\ scanEnds \in Nat
  BY TimeAssumption DEF HttpsInit, Attempt
<1>3. chunks \in 0..BodyChunks /\ followed \in 0..MaxDohFollowups
  BY HttpsAssumption DEF HttpsInit
<1>4. /\ net \in Networks /\ options \in SUBSET {"cert_fp", "body"}
      /\ phase \in {"resolve", "connect", "handshake", "scan", "recv", "unwrap",
                    "judge", "done", "raised"}
      /\ marked \in BOOLEAN /\ stub \in BOOLEAN
      /\ result \in VerdictCode \cup {None} /\ verdict \in VerdictCode \cup {None}
      /\ untried \in SUBSET Addr
      /\ discriminator \in Discriminator \cup {None}
  BY DEF HttpsInit
<1> QED BY <1>1, <1>2, <1>3, <1>4 DEF HttpsTypeOK

\* A read is only started with room in the buffer, which the read itself does
\* not check again: without it HttpsTypeOK is not inductive.
ReadHasRoom == phase = "recv" => chunks < BodyChunks

LEMMA ReadHasRoomStep ==
  ASSUME ReadHasRoom, [HttpsNext]_httpsVars
  PROVE  ReadHasRoom'
<1>1. CASE phase' # "recv" BY <1>1 DEF ReadHasRoom
<1>2. CASE phase' = phase /\ chunks' = chunks BY <1>2 DEF ReadHasRoom
<1>3. CASE ScanOn
  BY <1>3 DEF ScanOn, StopScan, Unwrap, ReadHasRoom
<1>4. CASE Resolve \/ ProbeTick
  BY <1>2, <1>4 DEF Resolve, ProbeTick, probeVars, scanVars
<1>5. CASE \/ ResolveFailed \/ ResolveDone \/ ResolveRaised \/ ConnectFails
           \/ Connected \/ HandshakeFails \/ HandshakeRaises \/ Handshaken \/ SendFails
           \/ ReadChunk \/ ReadEnds \/ Unwrapped
  BY <1>1, <1>5
  DEF ResolveFailed, ResolveDone, ResolveRaised, ConnectFails, Connected,
      HandshakeFails, HandshakeRaises, Handshaken, SendFails, ReadChunk, ReadEnds,
      Unwrapped,
      Return, Connect, Unwrap, StopScan
<1>6. CASE \/ JudgeTarget
           \/ JudgeFollowup("wrong_sni", "sni_based")
           \/ JudgeFollowup("doh", "dns_based")
  <2>1. phase' # "recv"
    BY <1>6 DEF JudgeTarget, JudgeFollowup, NextDoh, Finish, Connect
  <2> QED BY <1>1, <2>1
<1>7. CASE UNCHANGED httpsVars
  BY <1>2, <1>7 DEF httpsVars, probeVars, scanVars
<1> QED BY <1>3, <1>4, <1>5, <1>6, <1>7 DEF HttpsNext

LEMMA HttpsStepType ==
  ASSUME HttpsTypeOK, ReadHasRoom, [HttpsNext]_httpsVars
  PROVE  HttpsTypeOK'
<1>1. /\ ResolverTypeOK /\ now \in Nat /\ expires \in Nat
      /\ sockTimeout \in Nat /\ answer \in Addr \cup {NoAddr}
      /\ dohSeen \in SUBSET Addr
  BY DEF HttpsTypeOK, ResolverTypeOK
<1> USE DEF setup, scanVars, outcomeVars
<1>2. CASE Resolve
  <2>1. ResolverTypeOK' BY <1>1, <1>2, ResolverStepType DEF Resolve
  <2>2. UNCHANGED probeVars BY <1>2 DEF Resolve
  <2> QED BY <2>1, <2>2 DEF HttpsTypeOK, probeVars
<1>3. CASE ResolveFailed
  <2>1. ResolverTypeOK' BY <1>1, <1>3, OtherPhaseType DEF ResolveFailed
  <2> QED BY <1>1, <1>3, <2>1, Codes DEF ResolveFailed, Return, HttpsTypeOK
<1>4. CASE ResolveDone
  <2>1. [attempt EXCEPT !.ip = answer] \in Attempt
    BY <1>1 DEF HttpsTypeOK, Attempt
  <2>2. /\ attempt' \in Attempt /\ sockTimeout' \in Nat /\ expires' \in Nat
        /\ phase' = "connect"
    BY <1>1, <1>4, <2>1, ConnectType DEF ResolveDone
  <2>3. ResolverTypeOK' BY <1>1, <1>4, <2>2, OtherPhaseType DEF ResolveDone
  <2> QED BY <1>1, <1>4, <2>2, <2>3 DEF ResolveDone, HttpsTypeOK
<1>5. CASE ResolveRaised \/ HandshakeRaises
  <2>1. ResolverTypeOK'
    BY <1>1, <1>5, OtherPhaseType DEF ResolveRaised, HandshakeRaises
  <2> QED BY <1>5, <2>1 DEF ResolveRaised, HandshakeRaises, HttpsTypeOK
<1>6. CASE ConnectFails
  <2>1. ResolverTypeOK' BY <1>1, <1>6, OtherPhaseType DEF ConnectFails
  <2> QED BY <1>6, <2>1, Codes DEF ConnectFails, Return, HttpsTypeOK
<1>7. CASE Connected
  <2>1. expires' \in Nat BY <1>1, <1>7 DEF Connected
  <2>2. ResolverTypeOK' BY <1>1, <1>7, <2>1, OtherPhaseType DEF Connected
  <2> QED BY <1>7, <2>2 DEF Connected, HttpsTypeOK
<1>8. CASE HandshakeFails
  <2>1. ResolverTypeOK' BY <1>1, <1>8, OtherPhaseType DEF HandshakeFails
  <2> QED BY <1>8, <2>1, Codes DEF HandshakeFails, Return, HttpsTypeOK
<1>9. CASE Handshaken
  <2>1. expires' \in Nat /\ scanEnds' \in Nat /\ phase' \in {"scan", "unwrap"}
    BY <1>1, <1>9, TimeAssumption, HttpsAssumption
    DEF Handshaken, Unwrap, HttpsTypeOK
  <2>2. ResolverTypeOK' BY <1>1, <1>9, <2>1, OtherPhaseType DEF Handshaken
  <2> QED BY <1>9, <2>1, <2>2 DEF Handshaken, HttpsTypeOK
<1>10. ASSUME NEW looks \in BOOLEAN, StopScan(looks)
       PROVE  stub' \in BOOLEAN /\ phase' = "unwrap" /\ expires' \in Nat
  BY <1>1, <1>10 DEF StopScan, Unwrap, HttpsTypeOK
<1>11. CASE SendFails
  <2>1. stub' \in BOOLEAN /\ phase' = "unwrap" /\ expires' \in Nat
    BY <1>10, <1>11 DEF SendFails
  <2>2. ResolverTypeOK' BY <1>1, <1>11, <2>1, OtherPhaseType DEF SendFails
  <2> QED BY <1>11, <2>1, <2>2 DEF SendFails, HttpsTypeOK
<1>12. CASE ScanOn
  <2>1. /\ stub' \in BOOLEAN /\ phase' \in {"unwrap", "recv"}
        /\ expires' \in Nat /\ sockTimeout' \in Nat
    <3>1. chunks \in 0..BodyChunks /\ scanEnds \in Nat /\ stub \in BOOLEAN
      BY DEF HttpsTypeOK
    <3>2. CASE StopScan(TRUE) /\ UNCHANGED sockTimeout
      BY <1>1, <1>10, <3>2
    <3>3. CASE /\ now < scanEnds /\ sockTimeout' = scanEnds - now
               /\ phase' = "recv" /\ expires' = scanEnds /\ UNCHANGED stub
      BY <1>1, <3>1, <3>3
    <3> QED BY <1>12, <3>2, <3>3 DEF ScanOn
  <2>2. ResolverTypeOK' BY <1>1, <1>12, <2>1, OtherPhaseType DEF ScanOn
  <2> QED BY <1>12, <2>1, <2>2 DEF ScanOn, HttpsTypeOK
<1>13. CASE ReadChunk
  <2>1. ResolverTypeOK' BY <1>1, <1>13, OtherPhaseType DEF ReadChunk
  <2>2. chunks' \in 0..BodyChunks
    BY <1>13, HttpsAssumption DEF ReadChunk, HttpsTypeOK, ReadHasRoom
  <2>3. marked' \in BOOLEAN BY <1>13 DEF ReadChunk, HttpsTypeOK
  <2> QED BY <1>13, <2>1, <2>2, <2>3 DEF ReadChunk, HttpsTypeOK
<1>14. CASE ReadEnds
  <2>1. stub' \in BOOLEAN /\ phase' = "unwrap" /\ expires' \in Nat
    BY <1>10, <1>14 DEF ReadEnds
  <2>2. ResolverTypeOK' BY <1>1, <1>14, <2>1, OtherPhaseType DEF ReadEnds
  <2> QED BY <1>14, <2>1, <2>2 DEF ReadEnds, HttpsTypeOK
<1>15. CASE Unwrapped
  <2>1. ResolverTypeOK' BY <1>1, <1>15, OtherPhaseType DEF Unwrapped
  <2> QED BY <1>15, <2>1, Codes DEF Unwrapped, Return, HttpsTypeOK
<1>16. CASE ProbeTick
  <2>1. ResolverTypeOK' BY <1>1, <1>16, OtherPhaseType DEF ProbeTick
  <2> QED BY <1>16, <2>1 DEF ProbeTick, HttpsTypeOK, probeVars
<1>17. CASE JudgeTarget
  <2>1. /\ attempt' \in Attempt /\ sockTimeout' \in Nat /\ expires' \in Nat
        /\ phase' \in {"connect", "done"}
        /\ followed' \in 0..MaxDohFollowups /\ untried' \in SUBSET Addr
        /\ discriminator' \in Discriminator \cup {None}
    <3>1. CASE Finish(None)
      BY <1>1, <3>1 DEF Finish, HttpsTypeOK
    <3>2. CASE /\ answer # NoAddr
               /\ Connect([kind |-> "wrong_sni", timeout |-> FollowupTimeout,
                           ip |-> answer])
               /\ UNCHANGED <<followed, untried, discriminator>>
      <4>1. [kind |-> "wrong_sni", timeout |-> FollowupTimeout, ip |-> answer]
              \in Attempt
        BY <1>1, FollowupTimeoutType DEF Attempt
      <4>2. /\ attempt' \in Attempt /\ sockTimeout' \in Nat /\ expires' \in Nat
            /\ phase' = "connect"
        BY <1>1, <3>2, <4>1, ConnectType
      <4> QED BY <3>2, <4>2 DEF HttpsTypeOK
    <3>3. CASE NextDoh BY <3>3, NextDohType
    <3> QED BY <1>17, <3>1, <3>2, <3>3 DEF JudgeTarget
  <2>2. ResolverTypeOK' BY <1>1, <1>17, <2>1, OtherPhaseType DEF JudgeTarget
  <2> QED BY <1>17, <2>1, <2>2 DEF JudgeTarget, HttpsTypeOK
<1>18. ASSUME NEW kind, NEW d \in Discriminator, JudgeFollowup(kind, d)
       PROVE  HttpsTypeOK'
  <2>1. /\ attempt' \in Attempt /\ sockTimeout' \in Nat /\ expires' \in Nat
        /\ phase' \in {"connect", "done"}
        /\ followed' \in 0..MaxDohFollowups /\ untried' \in SUBSET Addr
        /\ discriminator' \in Discriminator \cup {None}
    <3>1. CASE Finish(d)
      BY <1>1, <3>1 DEF Finish, HttpsTypeOK
    <3>2. CASE NextDoh BY <3>2, NextDohType
    <3> QED BY <1>18, <3>1, <3>2 DEF JudgeFollowup
  <2>2. ResolverTypeOK' BY <1>1, <1>18, <2>1, OtherPhaseType DEF JudgeFollowup
  <2> QED BY <1>18, <2>1, <2>2 DEF JudgeFollowup, HttpsTypeOK
<1>19. CASE UNCHANGED httpsVars
  BY <1>19 DEF httpsVars, resolverVars, dnsVars, lookupVars, resultVars, probeVars,
               HttpsTypeOK, ResolverTypeOK
<1>20. "sni_based" \in Discriminator /\ "dns_based" \in Discriminator
  BY DEF Discriminator
<1> QED
  BY <1>2, <1>3, <1>4, <1>5, <1>6, <1>7, <1>8, <1>9, <1>11, <1>12, <1>13, <1>14,
     <1>15, <1>16, <1>17, <1>18, <1>19, <1>20 DEF HttpsNext

LEMMA HttpsTypeRoom == HttpsSpec => [](HttpsTypeOK /\ ReadHasRoom)
<1>1. HttpsInit => ReadHasRoom BY DEF HttpsInit, ReadHasRoom
<1> QED BY <1>1, HttpsInitType, HttpsStepType, ReadHasRoomStep, PTL DEF HttpsSpec

\* The probe's state keeps its types, for all timeouts and networks.
THEOREM HttpsTypeCorrect == HttpsSpec => []HttpsTypeOK
BY HttpsTypeRoom, PTL

-------------------------------------------------------------------------------
(***************************************************************************)
(* The resolver's races.                                                   *)
(***************************************************************************)

\* What the system thread has stored where it is, and that it never stores a
\* failure for a lookup that was answered.
SysStored ==
  /\ sys \in {"join", "storeIp", "storeErr"} => sysResult = {}
  /\ sys = "storeMs" => sysResult = {"ip"}
  /\ lookup = "answered" => found \in Addr /\ sys # "storeErr"
  /\ lookup = "answered" /\ sys = "done" => sysResult = {"ip", "ms"}

\* The two joins expire together, so an answer in time is always stored while
\* the caller still waits.
StoredInTime ==
  /\ main \in {"start", "joinSys"} => expires = Timeout
  /\ inTime => lookup = "answered"
  /\ inTime /\ sys # "done" => main = "joinSys" /\ now < Timeout
  /\ ~literal /\ sys = "join" /\ now < Timeout => main \in {"start", "joinSys"}
  /\ main \in {"readMs", "done"} /\ inTime /\ ~literal => answer = found

\* The caller's snapshot of the DoH answer is the last word on it.
DohSnapshot ==
  /\ literal => main \in {"start", "done"}
  /\ literal /\ main = "done" => answer \in Addr
  /\ main \in {"start", "joinSys", "joinDoh", "readDoh"} => dohSeen = {}
  /\ main \notin {"start", "joinSys", "joinDoh", "readDoh"} => dohSeen = dohResult
  /\ main = "start" => dohResult = {}

ResolverInv == SysStored /\ StoredInTime /\ DohSnapshot

LEMMA ResolverInvInit == ResolverInit => ResolverInv
BY DEF ResolverInit, ResolverInv, SysStored, StoredInTime, DohSnapshot

LEMMA ResolverInvStep ==
  ASSUME ResolverTypeOK, ResolverInv, ResolverNext
  PROVE  ResolverInv'
<1> USE DEF ResolverInv, SysStored, StoredInTime, DohSnapshot, ResolverTypeOK,
            lookupVars, callerVars, resultVars
<1>1. ASSUME NEW a \in Addr, LookupAnswers(a) PROVE ResolverInv'
  BY <1>1, TimeAssumption DEF LookupAnswers, Started
<1>2. CASE LookupFails BY <1>2 DEF LookupFails, Started
<1>3. ASSUME NEW ips \in SUBSET Addr, DohAnswers(ips) PROVE ResolverInv'
  BY <1>3 DEF DohAnswers
<1>4. CASE SysJoined BY <1>4 DEF SysJoined, Started
<1>5. CASE SysStoresResult
  <2>1. CASE SysStores("storeIp", "ip", "storeMs")
    <3>1. sysResult' = {"ip"} BY <2>1 DEF SysStores
    <3> QED BY <2>1, <3>1 DEF SysStores
  <2>2. CASE SysStores("storeMs", "ms", "done")
    <3>1. sysResult' = {"ip", "ms"} BY <2>2 DEF SysStores
    <3> QED BY <2>2, <3>1 DEF SysStores
  <2>3. CASE SysStores("storeErr", "err", "done") BY <2>3 DEF SysStores
  <2> QED BY <1>5, <2>1, <2>2, <2>3 DEF SysStoresResult
<1>6. CASE StartCall BY <1>6 DEF StartCall
<1>7. CASE JoinSys BY <1>7, TimeAssumption DEF JoinSys
<1>8. CASE JoinDoh BY <1>8 DEF JoinDoh
<1>9. CASE ReadDoh BY <1>9 DEF ReadDoh
<1>10. CASE ReadErr BY <1>10 DEF ReadErr
<1>11. CASE ReadIp BY <1>11 DEF ReadIp
<1>12. CASE ReadMs BY <1>12 DEF ReadMs
<1>13. CASE Tick BY <1>13, TimeAssumption DEF Tick
<1> QED
  BY <1>1, <1>2, <1>3, <1>4, <1>5, <1>6, <1>7, <1>8, <1>9, <1>10, <1>11, <1>12,
     <1>13 DEF ResolverNext, Answers, Threads

\* A step of the probe is one of the resolver, or it leaves the resolver's state
\* alone, which then has come to its end.
LEMMA StepKinds ==
  ASSUME [HttpsNext]_httpsVars
  PROVE  \/ phase = "resolve" /\ ResolverNext /\ UNCHANGED probeVars
         \/ /\ UNCHANGED dnsVars
            /\ phase = "resolve" => main \in {"done", "raised"}
            /\ phase' # "resolve"
            /\ now' \in {now, now + 1}
         \/ UNCHANGED httpsVars
<1>1. CASE Resolve BY <1>1 DEF Resolve
<1>2. CASE \/ ResolveFailed \/ ResolveDone \/ ResolveRaised \/ ConnectFails
           \/ Connected \/ HandshakeFails \/ HandshakeRaises \/ Handshaken \/ SendFails
           \/ ScanOn \/ ReadChunk \/ ReadEnds \/ Unwrapped
  BY <1>2
  DEF ResolveFailed, ResolveDone, ResolveRaised, ConnectFails, Connected,
      HandshakeFails, HandshakeRaises, Handshaken, SendFails, ScanOn, ReadChunk,
      ReadEnds, Unwrapped,
      Return, Connect, Unwrap, StopScan, TimedOut
<1>3. CASE ProbeTick BY <1>3 DEF ProbeTick, Blocking, probeVars
<1>4. CASE \/ JudgeTarget
           \/ JudgeFollowup("wrong_sni", "sni_based")
           \/ JudgeFollowup("doh", "dns_based")
  BY <1>4 DEF JudgeTarget, JudgeFollowup, NextDoh, Finish, Connect
<1>5. CASE UNCHANGED httpsVars BY <1>5
<1> QED BY <1>1, <1>2, <1>3, <1>4, <1>5 DEF HttpsNext

\* The probe leaves the resolve phase only when the resolver has returned.
ResolvedFirst == phase # "resolve" => main \in {"done", "raised"}

LEMMA ResolverInvKept ==
  ASSUME HttpsTypeOK, ResolverInv, ResolvedFirst, [HttpsNext]_httpsVars
  PROVE  ResolverInv' /\ ResolvedFirst'
<1>1. CASE phase = "resolve" /\ ResolverNext /\ UNCHANGED probeVars
  <2>1. ResolverInv' BY <1>1, ResolverInvStep DEF HttpsTypeOK
  <2> QED BY <1>1, <2>1 DEF ResolvedFirst, probeVars
<1>2. CASE /\ UNCHANGED dnsVars
           /\ phase = "resolve" => main \in {"done", "raised"}
           /\ phase' # "resolve"
           /\ now' \in {now, now + 1}
  <2>1. main \in {"done", "raised"} BY <1>2 DEF ResolvedFirst
  <2>2. inTime => sys = "done"
    BY <2>1 DEF ResolverInv, StoredInTime
  <2>3. UNCHANGED <<literal, lookup, found, inTime, sys, doh, sysResult, dohResult,
                    main, dohSeen, answer>>
    BY <1>2 DEF dnsVars, lookupVars, resultVars
  <2>4. ~literal /\ sys = "join" => ~(now' < Timeout)
    BY <1>2, <2>1, TimeAssumption
    DEF ResolverInv, StoredInTime, HttpsTypeOK, ResolverTypeOK, dnsVars, lookupVars
  <2>5. SysStored' BY <2>3 DEF ResolverInv, SysStored
  <2>6. StoredInTime'
    BY <2>1, <2>2, <2>3, <2>4 DEF ResolverInv, StoredInTime
  <2>7. DohSnapshot' BY <2>3 DEF ResolverInv, DohSnapshot
  <2> QED BY <2>1, <2>3, <2>5, <2>6, <2>7 DEF ResolverInv, ResolvedFirst
<1>3. CASE UNCHANGED httpsVars
  BY <1>3 DEF httpsVars, resolverVars, dnsVars, lookupVars, resultVars, probeVars,
              ResolverInv, SysStored, StoredInTime, DohSnapshot, ResolvedFirst
<1> QED BY <1>1, <1>2, <1>3, StepKinds

\* All of the above is an invariant of the probe.
HttpsInv == HttpsTypeOK /\ ReadHasRoom /\ ResolverInv /\ ResolvedFirst

LEMMA HttpsInvariant ==
  /\ HttpsInit => HttpsInv
  /\ HttpsInv /\ [HttpsNext]_httpsVars => HttpsInv'
<1>1. HttpsInit => ReadHasRoom /\ ResolvedFirst
  BY DEF HttpsInit, ReadHasRoom, ResolvedFirst
<1>2. HttpsInit => HttpsInv
  BY <1>1, HttpsInitType, ResolverInvInit DEF HttpsInit, HttpsInv
<1> QED
  BY <1>2, HttpsStepType, ReadHasRoomStep, ResolverInvKept DEF HttpsInv

\* An answer in time is the one that is used, whichever thread runs when the
\* joins expire.
THEOREM AnswerInTimeIsKeptCorrect == HttpsSpec => []AnswerInTimeIsKept
<1>1. HttpsInv => AnswerInTimeIsKept
  BY DEF HttpsInv, ResolverInv, StoredInTime, AnswerInTimeIsKept
<1> QED BY <1>1, HttpsInvariant, PTL DEF HttpsSpec

-------------------------------------------------------------------------------
(***************************************************************************)
(* DNS_LIE.                                                                *)
(***************************************************************************)

Witnessed == phase # "resolve" /\ dohResult # {} /\ ~inTime

LieOnRecord == "DNS_LIE" \in {result, verdict} => Witnessed

\* Only a failed lookup is called a lie.
LEMMA LieSource ==
  ASSUME [HttpsNext]_httpsVars
  PROVE  \/ {result', verdict'} \subseteq {result, verdict}
         \/ ResolveFailed
         \/ result' # "DNS_LIE" /\ verdict' \in {result, verdict}
<1>1. CASE Resolve \/ ProbeTick
  BY <1>1 DEF Resolve, ProbeTick, probeVars, outcomeVars
<1>2. CASE ResolveFailed BY <1>2
<1>3. CASE \/ ResolveDone \/ ResolveRaised \/ ConnectFails
           \/ Connected \/ HandshakeFails \/ HandshakeRaises \/ Handshaken \/ SendFails
           \/ ScanOn \/ ReadChunk \/ ReadEnds \/ Unwrapped
  BY <1>3
  DEF ResolveDone, ResolveRaised, ConnectFails, Connected, HandshakeFails,
      HandshakeRaises, Handshaken, SendFails, ScanOn, ReadChunk, ReadEnds, Unwrapped, Return,
      outcomeVars
<1>4. CASE \/ JudgeTarget
           \/ JudgeFollowup("wrong_sni", "sni_based")
           \/ JudgeFollowup("doh", "dns_based")
  BY <1>4 DEF JudgeTarget, JudgeFollowup
<1>5. CASE UNCHANGED httpsVars
  BY <1>5 DEF httpsVars, probeVars, outcomeVars
<1> QED BY <1>1, <1>2, <1>3, <1>4, <1>5 DEF HttpsNext

LEMMA LieStep ==
  ASSUME HttpsInv, LieOnRecord, [HttpsNext]_httpsVars
  PROVE  LieOnRecord'
<1>1. Witnessed => Witnessed'
  BY StepKinds
  DEF Witnessed, dnsVars, lookupVars, resultVars, httpsVars, resolverVars, probeVars
<1>2. CASE ResolveFailed
  <2>1. main = "done" /\ answer = NoAddr /\ result' \in {"DNS_LIE", "ERROR_INTERNAL"}
    BY <1>2 DEF ResolveFailed, Return
  <2>2. ~literal
    BY <2>1, AddrAssumption DEF HttpsInv, ResolverInv, DohSnapshot
  <2>3. ~inTime
    BY <2>1, <2>2, AddrAssumption
    DEF HttpsInv, ResolverInv, StoredInTime, SysStored
  <2>4. result' = "DNS_LIE" => dohResult # {}
    BY <1>2, <2>1 DEF ResolveFailed, Return, HttpsInv, ResolverInv, DohSnapshot
  <2>5. UNCHANGED <<dohResult, inTime, verdict>> /\ phase' # "resolve"
    BY <1>2 DEF ResolveFailed, Return, dnsVars, lookupVars, resultVars
  <2> QED BY <1>1, <2>3, <2>4, <2>5 DEF LieOnRecord, Witnessed
<1>3. CASE ~ResolveFailed
  BY <1>1, <1>3, LieSource DEF LieOnRecord
<1> QED BY <1>2, <1>3

\* DNS_LIE always has DoH's word behind it and no timely answer against it.
THEOREM LieNeedsWitnessCorrect == HttpsSpec => []LieNeedsWitness
<1>1. HttpsInit => LieOnRecord BY DEF HttpsInit, LieOnRecord, None
<1>2. LieOnRecord => LieNeedsWitness
  BY DEF LieOnRecord, Witnessed, LieNeedsWitness
<1> QED BY <1>1, <1>2, LieStep, HttpsInvariant, PTL DEF HttpsSpec

-------------------------------------------------------------------------------
(***************************************************************************)
(* Diagnoses.                                                              *)
(***************************************************************************)

InSession ==
  \/ phase \in {"scan", "recv", "unwrap"}
  \/ phase = "judge" /\ result = "OK"

\* What a connection and a session prove of the network.
AttemptPossible ==
  /\ phase = "handshake" \/ InSession => attempt.ip \notin net.blocked
  /\ InSession /\ CarriesTargetSni => ~net.sniFiltered
  /\ attempt.kind = "wrong_sni" => phase # "resolve" /\ attempt.ip = answer
  /\ discriminator # None => phase = "done"

LEMMA NextDohAttempt ==
  ASSUME HttpsTypeOK, NextDoh
  PROVE  \/ /\ phase' = "done" /\ attempt' = attempt
            /\ discriminator' = "inconclusive"
         \/ /\ phase' = "connect" /\ attempt'.kind = "doh"
            /\ discriminator' = discriminator
BY DEF NextDoh, Finish, Connect

LEMMA DiagnosisStep ==
  ASSUME HttpsInv, AttemptPossible, DiscriminatorPossible, [HttpsNext]_httpsVars
  PROVE  AttemptPossible' /\ DiscriminatorPossible'
<1> USE DEF AttemptPossible, DiscriminatorPossible, InSession, CarriesTargetSni
<1>1. HttpsTypeOK /\ attempt \in Attempt BY DEF HttpsInv, HttpsTypeOK
<1>2. None \notin {"sni_based", "dns_based", "inconclusive"} BY DEF None
<1>3. CASE Resolve
  BY <1>2, <1>3 DEF Resolve, probeVars, setup, outcomeVars
<1>4. CASE ResolveFailed \/ ConnectFails \/ HandshakeFails
  BY <1>2, <1>4
  DEF ResolveFailed, ConnectFails, HandshakeFails, Return, TimedOut, dnsVars, setup,
      outcomeVars
<1>5. CASE ResolveDone
  <2>1. attempt'.kind = attempt.kind
    BY <1>1, <1>5 DEF ResolveDone, Connect, Attempt
  <2> QED BY <1>2, <1>5, <2>1 DEF ResolveDone, Connect, dnsVars, setup
<1>6. CASE ResolveRaised \/ HandshakeRaises
  BY <1>2, <1>6 DEF ResolveRaised, HandshakeRaises, dnsVars, setup, outcomeVars
<1>7. CASE Connected
  BY <1>2, <1>7 DEF Connected, dnsVars, setup, outcomeVars
<1>8. CASE Handshaken
  BY <1>2, <1>8 DEF Handshaken, Unwrap, dnsVars, setup, outcomeVars
<1>9. CASE SendFails \/ ScanOn \/ ReadChunk \/ ReadEnds
  BY <1>2, <1>9
  DEF SendFails, ScanOn, ReadChunk, ReadEnds, StopScan, Unwrap, dnsVars, setup,
      outcomeVars
<1>10. CASE Unwrapped
  BY <1>2, <1>10 DEF Unwrapped, Return, dnsVars, setup, outcomeVars
<1>11. CASE ProbeTick
  BY <1>2, <1>11 DEF ProbeTick, probeVars, dnsVars, setup, outcomeVars
<1>12. CASE JudgeTarget
  <2>1. UNCHANGED <<net, answer, result>> /\ phase = "judge"
    BY <1>12 DEF JudgeTarget, dnsVars, setup
  <2>2. CASE Finish(None) BY <1>12, <2>1, <2>2 DEF JudgeTarget, Finish
  <2>3. CASE /\ Connect([kind |-> "wrong_sni", timeout |-> FollowupTimeout,
                         ip |-> answer])
             /\ UNCHANGED <<followed, untried, discriminator>>
    BY <1>2, <2>1, <2>3 DEF Connect
  <2>4. CASE NextDoh
    BY <1>1, <1>2, <1>12, <2>1, <2>4, NextDohAttempt DEF JudgeTarget
  <2> QED BY <1>12, <2>2, <2>3, <2>4 DEF JudgeTarget
<1>13. CASE JudgeFollowup("wrong_sni", "sni_based")
  <2>1. UNCHANGED <<net, answer, result>> /\ phase = "judge"
    BY <1>13 DEF JudgeFollowup, dnsVars, setup
  <2>2. CASE result = "OK" /\ Finish("sni_based")
    BY <1>13, <2>1, <2>2 DEF JudgeFollowup, Finish
  <2>3. CASE NextDoh BY <1>1, <1>2, <1>13, <2>1, <2>3, NextDohAttempt DEF JudgeFollowup
  <2> QED BY <1>13, <2>2, <2>3 DEF JudgeFollowup
<1>14. CASE JudgeFollowup("doh", "dns_based")
  <2>1. UNCHANGED <<net, answer, result>> /\ phase = "judge"
    BY <1>14 DEF JudgeFollowup, dnsVars, setup
  <2>2. CASE result = "OK" /\ Finish("dns_based")
    BY <1>14, <2>1, <2>2 DEF JudgeFollowup, Finish
  <2>3. CASE NextDoh BY <1>1, <1>2, <1>14, <2>1, <2>3, NextDohAttempt DEF JudgeFollowup
  <2> QED BY <1>14, <2>2, <2>3 DEF JudgeFollowup
<1>15. CASE UNCHANGED httpsVars
  BY <1>15 DEF httpsVars, resolverVars, dnsVars, probeVars, setup, outcomeVars
<1> QED
  BY <1>3, <1>4, <1>5, <1>6, <1>7, <1>8, <1>9, <1>10, <1>11, <1>12, <1>13, <1>14,
     <1>15 DEF HttpsNext

\* A discriminator is never at odds with what the network does.
THEOREM DiscriminatorPossibleCorrect == HttpsSpec => []DiscriminatorPossible
<1>1. HttpsInit => AttemptPossible /\ DiscriminatorPossible
  BY DEF HttpsInit, AttemptPossible, InSession, DiscriminatorPossible, None
<1> QED BY <1>1, DiagnosisStep, HttpsInvariant, PTL DEF HttpsSpec

-------------------------------------------------------------------------------
(***************************************************************************)
(* A handshake that succeeded.                                             *)
(***************************************************************************)

\* A marker in the target's buffer comes from a forged address.
StubIsForged ==
  /\ phase \in {"resolve", "connect", "handshake"} /\ attempt.kind = "target"
       => ~marked /\ ~stub
  /\ attempt.kind = "target" /\ ~Forged => ~marked /\ ~stub

LEMMA StubIsForgedStep ==
  ASSUME HttpsInv, StubIsForged, [HttpsNext]_httpsVars
  PROVE  StubIsForged'
<1> USE DEF StubIsForged, Forged
<1>1. HttpsTypeOK /\ attempt \in Attempt BY DEF HttpsInv, HttpsTypeOK
<1>2. CASE Resolve \/ ProbeTick
  BY <1>2 DEF Resolve, ProbeTick, probeVars, setup, scanVars, dnsVars
<1>3. CASE ResolveFailed \/ ResolveRaised \/ ConnectFails \/ HandshakeFails
           \/ HandshakeRaises
  BY <1>3 DEF ResolveFailed, ResolveRaised, ConnectFails, HandshakeFails,
              HandshakeRaises, Return,
              setup, scanVars
<1>4. CASE ResolveDone
  <2>1. attempt'.kind = attempt.kind
    BY <1>1, <1>4 DEF ResolveDone, Connect, Attempt
  <2> QED BY <1>4, <2>1 DEF ResolveDone, Connect, setup, scanVars
<1>5. CASE Connected
  BY <1>5 DEF Connected, setup, scanVars
<1>6. CASE Handshaken
  BY <1>6 DEF Handshaken, Unwrap, setup, scanVars
<1>7. CASE SendFails \/ ScanOn \/ ReadEnds
  <2>1. UNCHANGED <<net, attempt, marked>> /\ phase' \in {"unwrap", "recv"}
    BY <1>7 DEF SendFails, ScanOn, ReadEnds, StopScan, Unwrap, setup
  <2>2. ~marked /\ ~stub => ~stub'
    BY <1>7 DEF SendFails, ScanOn, ReadEnds, StopScan
  <2> QED BY <2>1, <2>2
<1>8. CASE ReadChunk BY <1>8 DEF ReadChunk, setup
<1>9. CASE Unwrapped BY <1>9 DEF Unwrapped, Return, setup, scanVars
<1>10. CASE JudgeTarget
  <2>1. UNCHANGED <<net, marked, stub>> BY <1>10 DEF JudgeTarget, setup, scanVars
  <2>2. CASE Finish(None) BY <1>10, <2>1, <2>2 DEF JudgeTarget, Finish
  <2>3. CASE Connect([kind |-> "wrong_sni", timeout |-> FollowupTimeout,
                      ip |-> answer])
    BY <2>1, <2>3 DEF Connect
  <2>4. CASE NextDoh
    BY <1>1, <1>10, <2>1, <2>4, NextDohAttempt DEF JudgeTarget
  <2> QED BY <1>10, <2>2, <2>3, <2>4 DEF JudgeTarget
<1>11. ASSUME NEW kind \in {"wrong_sni", "doh"}, NEW d, JudgeFollowup(kind, d)
       PROVE  StubIsForged'
  <2>1. attempt'.kind # "target"
    BY <1>1, <1>11, NextDohAttempt DEF JudgeFollowup, Finish
  <2> QED BY <2>1
<1>12. CASE UNCHANGED httpsVars
  BY <1>12 DEF httpsVars, probeVars, setup, scanVars
<1> QED
  BY <1>2, <1>3, <1>4, <1>5, <1>6, <1>7, <1>8, <1>9, <1>10, <1>11, <1>12
  DEF HttpsNext

\* Nothing after the handshake turns the verdict of an unforged target into
\* anything but OK.
THEOREM HandshakeIsOKCorrect == HttpsSpec => HandshakeIsOK
<1> DEFINE InScan == phase \in {"scan", "recv", "unwrap"}
<1>1. ASSUME StubIsForged, [HttpsNext]_httpsVars, InScan, ~InScan',
             attempt.kind = "target", ~Forged
      PROVE  result' = "OK" /\ phase' = "judge"
  <2>1. Unwrapped
    <3>1. CASE Resolve \/ ResolveFailed \/ ResolveDone \/ ResolveRaised
      BY <1>1, <3>1 DEF Resolve, ResolveFailed, ResolveDone, ResolveRaised
    <3>2. CASE \/ ConnectFails \/ Connected
               \/ HandshakeFails \/ HandshakeRaises \/ Handshaken
      BY <1>1, <3>2
      DEF ConnectFails, Connected, HandshakeFails, HandshakeRaises, Handshaken, TimedOut
    <3>3. CASE SendFails \/ ScanOn \/ ReadChunk \/ ReadEnds
      BY <1>1, <3>3
      DEF SendFails, ScanOn, ReadChunk, ReadEnds, StopScan, Unwrap
    <3>4. CASE ProbeTick BY <1>1, <3>4 DEF ProbeTick, probeVars
    <3>5. CASE \/ JudgeTarget
               \/ JudgeFollowup("wrong_sni", "sni_based")
               \/ JudgeFollowup("doh", "dns_based")
      BY <1>1, <3>5 DEF JudgeTarget, JudgeFollowup
    <3>6. CASE UNCHANGED httpsVars BY <1>1, <3>6 DEF httpsVars, probeVars
    <3> QED BY <1>1, <3>1, <3>2, <3>3, <3>4, <3>5, <3>6 DEF HttpsNext
  <2> QED BY <1>1, <2>1 DEF Unwrapped, Return, StubIsForged
<1>2. StubIsForged /\ [HttpsNext]_httpsVars
        => [/\ phase \in {"scan", "recv", "unwrap"}
            /\ phase' \notin {"scan", "recv", "unwrap"}
            /\ attempt.kind = "target" /\ ~Forged
            => result' = "OK" /\ phase' = "judge"]_httpsVars
  BY <1>1
<1>3. HttpsInit => StubIsForged BY DEF HttpsInit, StubIsForged
<1> QED
  BY <1>2, <1>3, StubIsForgedStep, HttpsInvariant, PTL DEF HttpsSpec, HandshakeIsOK

-------------------------------------------------------------------------------
(***************************************************************************)
(* Time.                                                                   *)
(***************************************************************************)

\* Resolve, connect and handshake, then what is waited for after them: one
\* timeout for the shutdown, or the scan's minimum for the scan and again for
\* the shutdown.
Limit ==
  3 * Timeout + DohCap + IF 2 * MinScan <= Timeout THEN Timeout ELSE 2 * MinScan

\* The resolver's part of the clock.
ResolveClock ==
  /\ main \in {"start", "joinSys"} => expires = Timeout /\ now <= Timeout
  /\ main = "joinDoh" => expires <= Timeout + DohTimeout /\ now <= expires
  /\ now <= Timeout + DohTimeout

\* How late each phase of the target's attempt can be.  While it scans, the
\* shutdown may still take the timeout of the last read after the scan ends.
TargetClock ==
  /\ phase = "connect" =>
       sockTimeout = Timeout /\ expires <= 2 * Timeout + DohCap /\ now <= expires
  /\ phase = "handshake" =>
       sockTimeout = Timeout /\ expires <= 3 * Timeout + DohCap /\ now <= expires
  /\ phase = "scan" => /\ now <= scanEnds
                       /\ 2 * scanEnds <= Limit + now
                       /\ now + sockTimeout <= Limit
  /\ phase = "recv" => /\ expires = scanEnds /\ now <= scanEnds
                       /\ scanEnds + sockTimeout <= Limit
                       /\ 2 * scanEnds <= Limit + now
  /\ phase = "unwrap" => now <= expires /\ expires <= Limit
  /\ now <= Limit

\* A follow-up starts inside the budget, with no more than what is left of it.
FollowupClock ==
  /\ phase \in {"connect", "handshake", "unwrap", "judge", "done"}
  /\ sockTimeout <= FollowupCap /\ sockTimeout <= Timeout
  /\ phase = "connect" => now <= expires /\ expires <= Timeout
  /\ phase = "handshake" => now <= expires /\ expires <= Timeout + sockTimeout
  /\ phase = "unwrap" => now <= expires /\ expires <= Timeout + 2 * sockTimeout
  /\ now <= Timeout + 2 * sockTimeout

Clock ==
  /\ phase = "resolve" =>
       ResolveClock /\ attempt.kind = "target" /\ attempt.timeout = Timeout
  /\ attempt.kind = "target" /\ phase # "resolve" => TargetClock
  /\ attempt.kind # "target" => FollowupClock

LEMMA ResolveClockStep ==
  ASSUME ResolverTypeOK, ResolveClock, ResolverNext
  PROVE  ResolveClock'
<1> USE DohTimeoutType, TimeAssumption
    DEF ResolveClock, ResolverTypeOK, lookupVars, callerVars, resultVars
<1>1. ASSUME NEW a \in Addr, LookupAnswers(a) PROVE ResolveClock'
  BY <1>1 DEF LookupAnswers
<1>2. CASE LookupFails BY <1>2 DEF LookupFails
<1>3. ASSUME NEW ips \in SUBSET Addr, DohAnswers(ips) PROVE ResolveClock'
  BY <1>3 DEF DohAnswers
<1>4. CASE SysJoined BY <1>4 DEF SysJoined
<1>5. CASE SysStoresResult BY <1>5 DEF SysStoresResult, SysStores
<1>6. CASE StartCall BY <1>6 DEF StartCall
<1>7. CASE JoinSys BY <1>7 DEF JoinSys
<1>8. CASE JoinDoh BY <1>8 DEF JoinDoh
<1>9. CASE ReadDoh BY <1>9 DEF ReadDoh
<1>10. CASE ReadErr BY <1>10 DEF ReadErr
<1>11. CASE ReadIp BY <1>11 DEF ReadIp
<1>12. CASE ReadMs BY <1>12 DEF ReadMs
<1>13. CASE Tick BY <1>13 DEF Tick
<1> QED
  BY <1>1, <1>2, <1>3, <1>4, <1>5, <1>6, <1>7, <1>8, <1>9, <1>10, <1>11, <1>12,
     <1>13 DEF ResolverNext, Answers, Threads

LEMMA FollowupTimeoutFits ==
  ASSUME now \in Nat, FollowupTimeout # 0
  PROVE  /\ FollowupTimeout <= FollowupCap /\ FollowupTimeout <= Timeout
         /\ now + FollowupTimeout <= Timeout
BY TimeAssumption, HttpsAssumption DEF FollowupTimeout, Smaller

\* Whatever an attempt ends with, the next one starts in time or none does.
LEMMA NextAttemptClock ==
  ASSUME HttpsTypeOK, now' = now,
         \/ \E ip \in Addr, kind \in {"wrong_sni", "doh"} :
              /\ FollowupTimeout # 0
              /\ Connect([kind |-> kind, timeout |-> FollowupTimeout, ip |-> ip])
         \/ NextDoh
  PROVE  \/ attempt'.kind # "target" /\ FollowupClock'
         \/ phase' = "done" /\ UNCHANGED <<attempt, sockTimeout, expires>>
<1>1. now \in Nat BY DEF HttpsTypeOK, ResolverTypeOK
<1>2. ASSUME NEW ip \in Addr, NEW kind \in {"wrong_sni", "doh"},
             FollowupTimeout # 0,
             Connect([kind |-> kind, timeout |-> FollowupTimeout, ip |-> ip])
      PROVE  attempt'.kind # "target" /\ FollowupClock'
  <2>1. /\ attempt'.kind = kind /\ sockTimeout' = FollowupTimeout
        /\ expires' = now + FollowupTimeout /\ phase' = "connect"
    BY <1>2 DEF Connect
  <2>2. FollowupTimeout \in Nat BY <1>1, FollowupTimeoutType
  <2> QED
    BY <1>1, <1>2, <2>1, <2>2, FollowupTimeoutFits, TimeAssumption, HttpsAssumption
    DEF FollowupClock
<1>3. CASE NextDoh
  <2>1. CASE Finish("inconclusive") BY <2>1 DEF Finish
  <2>2. CASE ~Finish("inconclusive")
    <3>1. PICK ip \in untried \ {answer} :
            /\ FollowupTimeout # 0
            /\ Connect([kind |-> "doh", timeout |-> FollowupTimeout, ip |-> ip])
      BY <1>3, <2>2 DEF NextDoh
    <3>2. ip \in Addr BY DEF HttpsTypeOK
    <3> QED BY <1>2, <3>1, <3>2
  <2> QED BY <2>1, <2>2
<1> QED BY <1>2, <1>3

LEMMA ClockStep ==
  ASSUME HttpsInv, Clock, [HttpsNext]_httpsVars
  PROVE  Clock'
<1>1. HttpsTypeOK /\ ResolverTypeOK /\ ResolvedFirst
  BY DEF HttpsInv, HttpsTypeOK
<1>2. /\ now \in Nat /\ expires \in Nat /\ sockTimeout \in Nat /\ scanEnds \in Nat
      /\ attempt \in Attempt /\ attempt.timeout \in Nat
      /\ Timeout \in Nat /\ Timeout > 0 /\ DohCap \in Nat /\ MinScan \in Nat
      /\ FollowupCap \in Nat /\ DohTimeout \in Nat /\ DohTimeout <= DohCap
  BY <1>1, TimeAssumption, HttpsAssumption, DohTimeoutType
  DEF HttpsTypeOK, ResolverTypeOK, Attempt
<1> DEFINE Target == attempt.kind = "target"
<1>3. phase = "resolve" => Target /\ ResolveClock /\ attempt.timeout = Timeout
  BY DEF Clock
<1>4. phase # "resolve" /\ Target => TargetClock BY DEF Clock
<1>5. ~Target => FollowupClock BY DEF Clock
<1>6. CASE Resolve
  <2>1. ResolveClock' BY <1>1, <1>3, <1>6, ResolveClockStep DEF Resolve
  <2>2. UNCHANGED <<phase, attempt>> /\ phase = "resolve"
    BY <1>6 DEF Resolve, probeVars
  <2> QED BY <1>3, <2>1, <2>2 DEF Clock
<1>7. ASSUME phase = "resolve", UNCHANGED <<now, attempt>>,
             phase' \in {"judge", "raised"}
      PROVE  Clock'
  <2>1. now <= Timeout + DohTimeout BY <1>3, <1>7 DEF ResolveClock
  <2>2. TargetClock' BY <1>2, <1>7, <2>1 DEF TargetClock, Limit
  <2> QED BY <1>3, <1>7, <2>2 DEF Clock
<1>8. CASE ResolveFailed \/ ResolveRaised
  BY <1>7, <1>8 DEF ResolveFailed, ResolveRaised, Return
<1>9. CASE ResolveDone
  <2>1. now <= Timeout + DohTimeout BY <1>3, <1>9 DEF ResolveClock, ResolveDone
  <2>2. /\ attempt'.kind = attempt.kind /\ sockTimeout' = Timeout
        /\ expires' = now + Timeout /\ phase' = "connect" /\ now' = now
    BY <1>2, <1>3, <1>9 DEF ResolveDone, Connect, Attempt
  <2>3. TargetClock' BY <1>2, <2>1, <2>2 DEF TargetClock, Limit
  <2> QED BY <1>3, <1>9, <2>2, <2>3 DEF Clock, ResolveDone
<1>10. ASSUME phase # "resolve", UNCHANGED <<now, attempt, sockTimeout>>,
              phase' \in {"judge", "done"} \/ (phase' = "raised" /\ Target)
       PROVE  Clock'
  <2>1. Target => TargetClock' BY <1>4, <1>10 DEF TargetClock
  <2>2. ~Target => FollowupClock' BY <1>5, <1>10 DEF FollowupClock
  <2> QED BY <1>10, <2>1, <2>2 DEF Clock
<1>11. CASE ConnectFails \/ HandshakeFails \/ HandshakeRaises \/ Unwrapped
  BY <1>10, <1>11
  DEF ConnectFails, HandshakeFails, HandshakeRaises, Unwrapped, Return, TimedOut
<1>12. CASE Connected
  <2>1. /\ phase = "connect" /\ phase' = "handshake" /\ expires' = now + sockTimeout
        /\ UNCHANGED <<now, attempt, sockTimeout>>
    BY <1>12 DEF Connected
  <2>2. Target => TargetClock'
    BY <1>2, <1>4, <2>1 DEF TargetClock, Limit
  <2>3. ~Target => FollowupClock'
    BY <1>2, <1>5, <2>1 DEF FollowupClock
  <2> QED BY <2>1, <2>2, <2>3 DEF Clock
<1>13. CASE Handshaken
  <2>1. phase = "handshake" /\ UNCHANGED <<now, attempt, sockTimeout>>
    BY <1>13 DEF Handshaken
  <2>2. CASE Wants("body")
    <3>1. Target BY <2>2 DEF Wants
    <3>2. /\ sockTimeout = Timeout /\ now <= 3 * Timeout + DohCap /\ now <= Limit
      BY <1>2, <1>4, <2>1, <3>1 DEF TargetClock
    <3>3. /\ phase' = "scan"
          /\ scanEnds' = IF now + MinScan < Timeout THEN Timeout ELSE now + MinScan
      BY <1>2, <1>13, <2>2 DEF Handshaken
    <3>4. TargetClock'
      BY <1>2, <2>1, <3>2, <3>3 DEF TargetClock, Limit
    <3> QED BY <2>1, <3>1, <3>3, <3>4 DEF Clock
  <2>3. CASE ~Wants("body")
    <3>1. phase' = "unwrap" /\ expires' = now + sockTimeout
      BY <1>13, <2>3 DEF Handshaken, Unwrap
    <3>2. Target => TargetClock'
      BY <1>2, <1>4, <2>1, <3>1 DEF TargetClock, Limit
    <3>3. ~Target => FollowupClock'
      BY <1>2, <1>5, <2>1, <3>1 DEF FollowupClock
    <3> QED BY <2>1, <3>1, <3>2, <3>3 DEF Clock
  <2> QED BY <2>2, <2>3
<1>14. ASSUME phase \in {"scan", "recv"} PROVE Target /\ TargetClock
  BY <1>4, <1>5, <1>14 DEF FollowupClock
<1>15. ASSUME NEW looks \in BOOLEAN, phase \in {"scan", "recv"}, StopScan(looks),
              UNCHANGED <<now, attempt, sockTimeout, scanEnds>>
       PROVE  Clock'
  <2>1. phase' = "unwrap" /\ expires' = now + sockTimeout
    BY <1>15 DEF StopScan, Unwrap
  <2>2. TargetClock' BY <1>2, <1>14, <1>15, <2>1 DEF TargetClock, Limit
  <2> QED BY <1>14, <1>15, <2>1, <2>2 DEF Clock
<1>16. CASE SendFails BY <1>15, <1>16 DEF SendFails
<1>17. CASE ScanOn
  <2>1. CASE StopScan(TRUE) /\ UNCHANGED sockTimeout
    BY <1>15, <1>17, <2>1 DEF ScanOn
  <2>2. CASE /\ now < scanEnds /\ sockTimeout' = scanEnds - now
             /\ phase' = "recv" /\ expires' = scanEnds
    <3>1. phase = "scan" /\ UNCHANGED <<now, attempt, scanEnds>>
      BY <1>17 DEF ScanOn
    <3>2. TargetClock' BY <1>2, <1>14, <2>2, <3>1 DEF TargetClock, Limit
    <3> QED BY <1>14, <2>2, <3>1, <3>2 DEF Clock
  <2> QED BY <1>17, <2>1, <2>2 DEF ScanOn
<1>18. CASE ReadChunk
  <2>1. /\ phase = "recv" /\ phase' = "scan"
        /\ UNCHANGED <<now, attempt, sockTimeout, scanEnds>>
    BY <1>18 DEF ReadChunk
  <2>2. TargetClock' BY <1>2, <1>14, <2>1 DEF TargetClock, Limit
  <2> QED BY <1>14, <2>1, <2>2 DEF Clock
<1>19. CASE ReadEnds BY <1>15, <1>19 DEF ReadEnds
<1>20. CASE ProbeTick
  <2>1. /\ phase \in Blocking /\ now < expires /\ now' = now + 1
        /\ UNCHANGED <<expires, phase, attempt, sockTimeout, scanEnds>>
    BY <1>20 DEF ProbeTick, probeVars, scanVars
  <2>2. Target => TargetClock'
    BY <1>2, <1>4, <2>1 DEF TargetClock, Limit, Blocking
  <2>3. ~Target => FollowupClock'
    BY <1>2, <1>5, <2>1 DEF FollowupClock, Blocking
  <2> QED BY <2>1, <2>2, <2>3 DEF Clock, Blocking
<1>21. ASSUME phase = "judge", now' = now,
              \/ attempt'.kind # "target" /\ FollowupClock'
              \/ phase' = "done" /\ UNCHANGED <<attempt, sockTimeout, expires>>
       PROVE  Clock'
  <2>1. CASE attempt'.kind # "target" /\ FollowupClock'
    BY <2>1 DEF Clock, FollowupClock
  <2>2. CASE phase' = "done" /\ UNCHANGED <<attempt, sockTimeout, expires>>
    BY <1>10, <1>21, <2>2
  <2> QED BY <1>21, <2>1, <2>2
<1>22. CASE JudgeTarget
  <2>1. phase = "judge" /\ now' = now BY <1>22 DEF JudgeTarget
  <2>2. CASE Finish(None)
    BY <1>21, <2>1, <2>2 DEF Finish
  <2>3. CASE /\ answer # NoAddr /\ FollowupTimeout # 0
             /\ Connect([kind |-> "wrong_sni", timeout |-> FollowupTimeout,
                         ip |-> answer])
    <3>1. answer \in Addr BY <1>1, <2>3 DEF ResolverTypeOK
    <3> QED BY <1>1, <1>21, <2>1, <2>3, <3>1, NextAttemptClock
  <2>4. CASE NextDoh BY <1>1, <1>21, <2>1, <2>4, NextAttemptClock
  <2> QED BY <1>22, <2>2, <2>3, <2>4 DEF JudgeTarget
<1>23. ASSUME NEW kind, NEW d, JudgeFollowup(kind, d) PROVE Clock'
  <2>1. phase = "judge" /\ now' = now BY <1>23 DEF JudgeFollowup
  <2>2. CASE Finish(d) BY <1>21, <2>1, <2>2 DEF Finish
  <2>3. CASE NextDoh BY <1>1, <1>21, <2>1, <2>3, NextAttemptClock
  <2> QED BY <1>23, <2>2, <2>3 DEF JudgeFollowup
<1>24. CASE UNCHANGED httpsVars
  BY <1>24 DEF httpsVars, resolverVars, dnsVars, probeVars, scanVars, Clock,
               ResolveClock, TargetClock, FollowupClock
<1> QED
  BY <1>6, <1>8, <1>9, <1>11, <1>12, <1>13, <1>16, <1>17, <1>18, <1>19, <1>20,
     <1>22, <1>23, <1>24 DEF HttpsNext

LEMMA ClockInvariant == HttpsSpec => [](HttpsInv /\ Clock)
<1>1. HttpsInit => Clock
  BY TimeAssumption, DohTimeoutType
  DEF HttpsInit, ResolverInit, Clock, ResolveClock
<1>2. HttpsInv /\ Clock /\ [HttpsNext]_httpsVars => Clock'
  BY ClockStep
<1> QED BY <1>1, <1>2, HttpsInvariant, PTL DEF HttpsSpec

\* The four timeouts and the DoH wait bound every run, provided the scan's
\* minimum, which is paid twice, is at most half the timeout.
THEOREM WorstCaseCorrect ==
  ASSUME 2 * MinScan <= Timeout
  PROVE  HttpsSpec => []WorstCase
<1>1. HttpsInv /\ Clock => WorstCase
  BY TimeAssumption, HttpsAssumption, DohTimeoutType
  DEF Clock, ResolveClock, TargetClock, FollowupClock, WorstCase, Limit, HttpsInv,
      HttpsTypeOK, ResolverTypeOK
<1> QED BY <1>1, ClockInvariant, PTL

\* The follow-ups outlast the budget by two of their timeouts at most.
THEOREM FollowupsEndSoonCorrect == HttpsSpec => []FollowupsEndSoon
<1>1. HttpsInv /\ Clock => FollowupsEndSoon
  BY TimeAssumption, HttpsAssumption
  DEF Clock, FollowupClock, FollowupsEndSoon, HttpsInv, HttpsTypeOK, ResolverTypeOK
<1> QED BY <1>1, ClockInvariant, PTL

-------------------------------------------------------------------------------
(***************************************************************************)
(* A finished probe has a verdict.                                         *)
(***************************************************************************)

VerdictGiven ==
  /\ phase = "judge" => result # None
  /\ phase = "done" \/ attempt.kind # "target" => verdict # None

LEMMA VerdictGivenStep ==
  ASSUME HttpsInv, VerdictGiven, [HttpsNext]_httpsVars
  PROVE  VerdictGiven'
<1> USE DEF VerdictGiven, None
<1>1. HttpsTypeOK /\ attempt \in Attempt BY DEF HttpsInv, HttpsTypeOK
<1>2. CASE Resolve \/ ProbeTick
  BY <1>2 DEF Resolve, ProbeTick, Blocking, probeVars, outcomeVars
<1>3. CASE \/ ResolveFailed \/ ResolveRaised \/ ConnectFails
           \/ HandshakeFails \/ HandshakeRaises \/ Unwrapped
  BY <1>3
  DEF ResolveFailed, ResolveRaised, ConnectFails, HandshakeFails, HandshakeRaises,
      Unwrapped, Return,
      outcomeVars
<1>4. CASE ResolveDone
  <2>1. attempt'.kind = attempt.kind
    BY <1>1, <1>4 DEF ResolveDone, Connect, Attempt
  <2> QED BY <1>4, <2>1 DEF ResolveDone, Connect
<1>5. CASE Connected \/ Handshaken \/ SendFails \/ ScanOn \/ ReadChunk \/ ReadEnds
  BY <1>5
  DEF Connected, Handshaken, SendFails, ScanOn, ReadChunk, ReadEnds, StopScan, Unwrap,
      outcomeVars
<1>6. CASE JudgeTarget
  <2>1. verdict' # None BY <1>6 DEF JudgeTarget
  <2>2. phase' # "judge"
    BY <1>6 DEF JudgeTarget, Finish, Connect, NextDoh
  <2> QED BY <2>1, <2>2
<1>7. ASSUME NEW kind \in {"wrong_sni", "doh"}, NEW d, JudgeFollowup(kind, d)
      PROVE  VerdictGiven'
  <2>1. verdict' # None BY <1>7 DEF JudgeFollowup
  <2>2. phase' # "judge"
    BY <1>7 DEF JudgeFollowup, Finish, Connect, NextDoh
  <2> QED BY <2>1, <2>2
<1>8. CASE UNCHANGED httpsVars
  BY <1>8 DEF httpsVars, probeVars, outcomeVars
<1> QED
  BY <1>2, <1>3, <1>4, <1>5, <1>6, <1>7, <1>8 DEF HttpsNext

LEMMA VerdictGivenInvariant == HttpsSpec => [](HttpsInv /\ VerdictGiven)
<1>1. HttpsInit => VerdictGiven BY DEF HttpsInit, VerdictGiven
<1> QED BY <1>1, VerdictGivenStep, HttpsInvariant, PTL DEF HttpsSpec

-------------------------------------------------------------------------------
(***************************************************************************)
(* The resolver implements Lookup.                                         *)
(***************************************************************************)

\* Only a caller whose join has expired can overtake the system thread, and it
\* looks for the latency only when there is an address.
Overtaking ==
  /\ sys \in {"storeIp", "storeMs"} \/ "ip" \in sysResult => lookup = "answered"
  /\ main = "readMs" => "ip" \in sysResult
  /\ ~literal /\ main \notin {"start", "joinSys"} /\ sys # "done" => now >= Timeout

LEMMA OvertakingResolverStep ==
  ASSUME ResolverTypeOK, ResolverInv, Overtaking, ResolverNext
  PROVE  Overtaking'
<1> USE DEF Overtaking, ResolverInv, SysStored, StoredInTime, DohSnapshot,
            ResolverTypeOK, lookupVars, callerVars, resultVars
<1>1. ASSUME NEW a \in Addr, LookupAnswers(a) PROVE Overtaking'
  BY <1>1 DEF LookupAnswers, Started
<1>2. CASE LookupFails BY <1>2 DEF LookupFails, Started
<1>3. ASSUME NEW ips \in SUBSET Addr, DohAnswers(ips) PROVE Overtaking'
  BY <1>3 DEF DohAnswers
<1>4. CASE SysJoined BY <1>4 DEF SysJoined, Started
<1>5. CASE SysStoresResult
  <2>1. ASSUME NEW from, NEW key, NEW to, SysStores(from, key, to)
        PROVE  /\ sys = from /\ sys' = to /\ sysResult' = sysResult \cup {key}
               /\ UNCHANGED <<now, literal, lookup, main>>
    BY <2>1 DEF SysStores
  <2>2. CASE SysStores("storeIp", "ip", "storeMs") BY <2>1, <2>2
  <2>3. CASE SysStores("storeMs", "ms", "done") BY <2>1, <2>3
  <2>4. CASE SysStores("storeErr", "err", "done") BY <2>1, <2>4
  <2> QED BY <1>5, <2>2, <2>3, <2>4 DEF SysStoresResult
<1>6. CASE StartCall BY <1>6 DEF StartCall
<1>7. CASE JoinSys BY <1>7, TimeAssumption DEF JoinSys
<1>8. CASE JoinDoh BY <1>8 DEF JoinDoh
<1>9. CASE ReadDoh BY <1>9 DEF ReadDoh
<1>10. CASE ReadErr BY <1>10 DEF ReadErr
<1>11. CASE ReadIp BY <1>11 DEF ReadIp
<1>12. CASE ReadMs BY <1>12 DEF ReadMs
<1>13. CASE Tick BY <1>13, TimeAssumption DEF Tick
<1> QED
  BY <1>1, <1>2, <1>3, <1>4, <1>5, <1>6, <1>7, <1>8, <1>9, <1>10, <1>11, <1>12,
     <1>13 DEF ResolverNext, Answers, Threads

LEMMA OvertakingStep ==
  ASSUME HttpsInv, Overtaking, [HttpsNext]_httpsVars
  PROVE  Overtaking'
<1>1. CASE ResolverNext
  BY <1>1, OvertakingResolverStep DEF HttpsInv, HttpsTypeOK
<1>2. CASE UNCHANGED dnsVars /\ now' \in {now, now + 1}
  BY <1>2, TimeAssumption
  DEF Overtaking, dnsVars, lookupVars, resultVars, HttpsInv, HttpsTypeOK,
      ResolverTypeOK
<1>3. CASE UNCHANGED httpsVars
  BY <1>3 DEF httpsVars, resolverVars, dnsVars, lookupVars, resultVars, Overtaking
<1> QED BY <1>1, <1>2, <1>3, StepKinds

\* A step of the resolver is one of Lookup, or the caller does not see it.
LEMMA ResolverStepMaps ==
  ASSUME ResolverTypeOK, ResolverInv, Overtaking, ResolveClock, ResolverNext
  PROVE  [Promised!LookupNext]_Promised!lookupVars
<1> USE DEF Promised!LookupNext, Promised!lookupVars, lookupVars, callerVars,
            resultVars
<1>1. ASSUME UNCHANGED <<now, main, answer, dohSeen>>
      PROVE  UNCHANGED Promised!lookupVars
  BY <1>1
<1>2. CASE \/ \E a \in Addr : LookupAnswers(a)
           \/ LookupFails
           \/ \E ips \in SUBSET Addr : DohAnswers(ips)
           \/ SysJoined \/ SysStoresResult
  BY <1>1, <1>2
  DEF LookupAnswers, LookupFails, DohAnswers, SysJoined, SysStoresResult, SysStores
<1>3. ASSUME now' = now, {main, main'} \cap {"done", "raised"} = {}
      PROVE  UNCHANGED Promised!lookupVars
  BY <1>3
<1>4. CASE JoinSys \/ JoinDoh \/ ReadDoh
  BY <1>3, <1>4 DEF JoinSys, JoinDoh, ReadDoh
<1>5. ASSUME now' = now, main \notin {"done", "raised"}, main' = "done",
             answer' \in Addr \cup {NoAddr}, dohSeen' \in SUBSET Addr
      PROVE  Promised!LookupNext
  BY <1>5 DEF Promised!Answer, Promised!NoAddr, NoAddr
<1>6. CASE StartCall \/ ReadErr \/ ReadIp
  <2>1. CASE main' = "done"
    BY <1>5, <1>6, <2>1 DEF StartCall, ReadErr, ReadIp, ResolverTypeOK
  <2>2. CASE main' # "done"
    BY <1>3, <1>6, <2>2 DEF StartCall, ReadErr, ReadIp
  <2> QED BY <2>1, <2>2
<1>7. CASE ReadMs
  <2>1. CASE main' = "done"
    BY <1>5, <1>7, <2>1 DEF ReadMs, ResolverTypeOK
  <2>2. CASE main' # "done"
    <3>1. /\ main = "readMs" /\ main' = "raised" /\ "ms" \notin sysResult
          /\ now' = now
      BY <1>7, <2>2 DEF ReadMs
    <3>2. ~literal /\ lookup = "answered"
      BY <3>1 DEF ResolverInv, DohSnapshot, Overtaking
    <3>3. sys # "done" BY <3>1, <3>2 DEF ResolverInv, SysStored
    <3>4. now >= Timeout BY <3>1, <3>2, <3>3 DEF Overtaking
    <3> QED BY <3>1, <3>4 DEF Promised!Raise
  <2> QED BY <2>1, <2>2
<1>8. CASE Tick
  <2>1. /\ main \in {"joinSys", "joinDoh"} /\ now < expires /\ now' = now + 1
        /\ UNCHANGED <<main, answer, dohSeen>>
    BY <1>8 DEF Tick
  <2>2. now < Timeout + Smaller(Timeout, DohCap)
    BY <2>1, DohTimeoutType, TimeAssumption
    DEF ResolveClock, ResolverTypeOK, DohTimeout
  <2> QED BY <2>1, <2>2 DEF Promised!Wait
<1> QED
  BY <1>2, <1>4, <1>6, <1>7, <1>8 DEF ResolverNext, Answers, Threads

\* To the probe, the threads, joins and dictionaries of the resolver are one step
\* of Lookup, in time; and what it was given does not change afterwards.
THEOREM HttpsImplementsLookup == HttpsSpec => KeepsLookupPromise
<1>1. HttpsInit => Promised!LookupInit /\ Overtaking
  BY DEF HttpsInit, ResolverInit, Promised!LookupInit, Promised!NoAddr, NoAddr,
         Overtaking
<1>2. ASSUME HttpsInv, Clock, Overtaking, [HttpsNext]_httpsVars
      PROVE  [Promised!LookupNext]_Promised!lookupVars
  <2>1. CASE phase = "resolve" /\ ResolverNext
    BY <1>2, <2>1, ResolverStepMaps DEF HttpsInv, HttpsTypeOK, Clock
  <2>2. CASE /\ UNCHANGED dnsVars
             /\ phase = "resolve" => main \in {"done", "raised"}
             /\ now' \in {now, now + 1}
    <3>1. main \in {"done", "raised"} /\ UNCHANGED <<main, answer, dohSeen>>
      BY <1>2, <2>2 DEF HttpsInv, ResolvedFirst, dnsVars
    <3> QED
      BY <2>2, <3>1
      DEF Promised!LookupNext, Promised!Elapse, Promised!lookupVars
  <2>3. CASE UNCHANGED httpsVars
    BY <2>3 DEF httpsVars, resolverVars, dnsVars, Promised!lookupVars
  <2> QED BY <1>2, <2>1, <2>2, <2>3, StepKinds
<1> QED
  BY <1>1, <1>2, OvertakingStep, HttpsInvariant, ClockInvariant, PTL
  DEF HttpsSpec, KeepsLookupPromise, Promised!LookupSpec
===============================================================================
