----------------------------- MODULE OneShotProofs -----------------------------
(***************************************************************************)
(* Proofs about OneShotProbes, for every set of these probes, all          *)
(* addresses, timeouts, sizes of body, chunk and window, and numbers of    *)
(* fragments and reads.                                                    *)
(***************************************************************************)
EXTENDS OneShotProbes, TLAPS

-------------------------------------------------------------------------------
(***************************************************************************)
(* Types, and which probe can be at which call.                            *)
(***************************************************************************)

\* The codes these probes give.
OneShotCodes ==
  {"DNS_LIE", "ERROR_INTERNAL", "UDP_BLIND", "ROUTE_BLACKHOLE", "PORT_FILTERED",
   "WG_HANDSHAKE_BLOCKED", "WG_HANDSHAKE_PASS", "REMOTE_DOWN", "BANNER_MISMATCH",
   "OK", "TCP_RST_MID_STREAM", "TCP_RST_HANDSHAKE", "TLS_RESET_POST_HELLO",
   "TLS_TIMEOUT", "THROTTLE_DETECTED", "REMOTE_HUNGUP_AFTER_CONNECT",
   "TSPU_BYPASS_OK"}

LEMMA OneShotCodesType ==
  OneShotCodes \subseteq VerdictCode \ {"VANTAGE_UNAVAILABLE"} /\ None \notin VerdictCode
    /\ "sni_based" \in Discriminator /\ None \notin Discriminator
BY DEF OneShotCodes, VerdictCode, HighConfidence, MediumConfidence, LowConfidence,
       Discriminator, None

\* Which probe is where, and that a verdict ends the run.  The bounds on what is
\* unsent and on the reads are what makes OneShotTypeOK inductive.
InPlace ==
  /\ step \in {"prepare", "reply"} => proto \in Datagrams
  /\ step = "connect" => proto \in Streams
  /\ step \in InSession \cup {"handshake"} => proto = "https-bytes"
  /\ step \in {"fragments", "answer"} => proto = "tls-frag"
  /\ step \in {"resolve", "connect", "fragments", "answer"} => reads < HandshakeReads
  /\ step \in VpnCalls => proto = "openvpn-tcp"
  /\ step = "done" <=> code # None
  /\ accused # None => step = "done"

LEMMA RemainingType == clock \in Nat => Remaining \in Nat
BY OneShotAssumption, StreamAssumption DEF Remaining

LEMMA InitType == ProbesInit => OneShotTypeOK /\ InPlace
<1> SUFFICES ASSUME ProbesInit PROVE OneShotTypeOK /\ InPlace
  OBVIOUS
<1> USE DEF ProbesInit, OneShotInit, DatagramInit, StreamInit, Dns!LookupInit
<1>1. unsent \in 0..Fragments /\ reads \in 0..HandshakeReads
  BY StreamAssumption
<1>2. deadline \in Nat BY OneShotAssumption
<1>3. clock \in Nat /\ began \in Nat /\ cutAt \in Nat /\ pushed \in Nat
  OBVIOUS
<1>4. reads < HandshakeReads BY StreamAssumption
<1>5. InPlace BY <1>4 DEF InPlace, InSession, VpnCalls
<1>6. OneShotTypeOK BY <1>1, <1>2, <1>3 DEF OneShotTypeOK
<1> QED BY <1>5, <1>6

LEMMA StepType ==
  ASSUME OneShotTypeOK, InPlace, [OneShotNext]_oneShotVars
  PROVE  OneShotTypeOK' /\ InPlace'
<1> USE DEF OneShotTypeOK, InPlace, oneShotVars, dnsState, attemptVars, streamVars,
            peerVars, StayPut, Expired, InSession, VpnCalls, Waiting, Datagrams, Streams
<1>1. OneShotCodes \subseteq VerdictCode /\ None \notin VerdictCode
      /\ "sni_based" \in Discriminator
  BY OneShotCodesType
<1>2. /\ Timeout \in Nat /\ DohWait \in Nat
      /\ Protocols \subseteq Datagrams \cup Streams
  BY OneShotAssumption
<1>3. /\ Header \in Nat /\ Chunk \in Nat /\ Body \in Nat /\ DrainWait \in Nat
      /\ Fragments \in Nat \ {0} /\ HandshakeReads \in Nat \ {0}
  BY StreamAssumption
<1>4. Remaining \in Nat BY RemainingType
<1>5. CASE ResolvePhase /\ UNCHANGED <<inbox, streamVars>>
  <2>1. CASE LookUp
    BY <1>5, <2>1 DEF LookUp, Dns!Wait, Dns!Answer, Dns!Raise
  <2>2. CASE NoAddress \/ GotAddress \/ LookUpRaised
    BY <1>1, <1>2, <1>5, <2>2
    DEF NoAddress, GotAddress, LookUpRaised, Give, Accuse, GiveUp, Begin, OneShotCodes
  <2> QED BY <1>5, <2>1, <2>2 DEF ResolvePhase
<1>6. CASE DatagramNext /\ UNCHANGED streamVars
  BY <1>1, <1>2, <1>6
  DEF DatagramNext, PacketArrives, KeysMissing, BlindSend, KeysRejected, Send, NoReply,
      ReplyFails, Reply, Welcome, Packet, Give, Accuse, GiveUp, Begin, OneShotCodes
<1>7. CASE StreamNext /\ UNCHANGED inbox
  <2>1. CASE PeerEnds \/ PeerResets
    <3>1. peer' \in {"open", "reset", "closed", "hungup"} /\ rst' \in BOOLEAN
          /\ cutAt' \in Nat
      BY <2>1 DEF PeerEnds, PeerResets
    <3>2. UNCHANGED <<dnsState, proto, attemptVars, inbox, sawEnd, pushed, unsent, reads>>
      BY <1>7, <2>1 DEF PeerEnds, PeerResets
    <3> QED BY <3>1, <3>2
  <2>2. CASE StreamConnectFails \/ StreamConnectReset \/ StreamConnects
    <3>1. CASE StreamConnectFails \/ StreamConnectReset
      BY <1>1, <1>7, <2>2, <3>1
      DEF StreamConnectFails, StreamConnectReset, Give, Accuse, OneShotCodes
    <3>2. CASE StreamConnects
      BY <1>1, <1>2, <1>3, <1>7, <3>2 DEF StreamConnects, Flight, Begin
    <3> QED BY <2>2, <3>1, <3>2
  <2>3. CASE BytesHandshakeReset \/ BytesHandshakeFails \/ BytesHandshaken
    BY <1>1, <1>2, <1>7, <2>3
    DEF BytesHandshakeReset, BytesHandshakeFails, BytesHandshaken, Give, Accuse, Begin,
        OneShotCodes
  <2>4. CASE HeaderSent \/ ChunkSent
    BY <1>1, <1>2, <1>3, <1>7, <2>4
    DEF HeaderSent, ChunkSent, GoOn, Give, Accuse, Begin, OneShotCodes
  <2>5. CASE PushBroken \/ PushMeetsClose \/ PushFails \/ Drained \/ DrainBroken
    <3>1. CASE PushBroken \/ PushMeetsClose \/ PushFails \/ DrainBroken
      BY <1>1, <1>7, <3>1
      DEF PushBroken, PushMeetsClose, PushFails, DrainBroken, Classify, Give, Accuse,
          GiveUp, OneShotCodes
    <3>2. CASE Drained
      <4>1. sawEnd' \in BOOLEAN BY <3>2 DEF Drained
      <4> QED BY <1>1, <1>2, <1>7, <3>2, <4>1 DEF Drained, GoOn, Give, Accuse, Begin, OneShotCodes
    <3> QED BY <2>5, <3>1, <3>2
  <2>6. CASE FragmentSent \/ FlightSent \/ FragmentFails
    <3>1. CASE FragmentSent
      <4>1. unsent' \in 0..Fragments BY <1>3, <3>1 DEF FragmentSent
      <4> QED BY <1>3, <1>7, <3>1, <4>1, StreamAssumption DEF FragmentSent, Begin
    <3>2. CASE FlightSent BY <1>4, <1>7, <3>2 DEF FlightSent, Begin
    <3>3. CASE FragmentFails BY <1>7, <3>3 DEF FragmentFails, GiveUp
    <3> QED BY <2>6, <3>1, <3>2, <3>3
  <2>7. CASE NoAnswer \/ AnswerReset \/ AnswerEnds
    BY <1>1, <1>7, <2>7
    DEF NoAnswer, AnswerReset, AnswerEnds, Give, Accuse, OneShotCodes
  <2>8. CASE AnswerRead
    BY <1>1, <1>3, <1>4, <1>7, <2>8 DEF AnswerRead, Flight, Give, Accuse, Begin, OneShotCodes
  <2>9. CASE VpnFails \/ RequestSent \/ PrefixRead \/ PacketRead
    BY <1>1, <1>2, <1>7, <2>9
    DEF VpnFails, RequestSent, PrefixRead, PacketRead, Give, Accuse, Begin, OneShotCodes
  <2> QED BY <1>7, <2>1, <2>2, <2>3, <2>4, <2>5, <2>6, <2>7, <2>8, <2>9 DEF StreamNext
<1>8. CASE OneShotTick BY <1>8 DEF OneShotTick
<1>9. CASE UNCHANGED oneShotVars BY <1>9
<1> QED BY <1>5, <1>6, <1>7, <1>8, <1>9 DEF OneShotNext

LEMMA TypeInPlace == OneShotSpec => [](OneShotTypeOK /\ InPlace)
BY InitType, StepType, PTL DEF OneShotSpec

\* Types, for any values of the constants.
THEOREM OneShotTypeCorrect == OneShotSpec => []OneShotTypeOK
BY TypeInPlace, PTL

-------------------------------------------------------------------------------
(***************************************************************************)
(* Verdicts and their evidence.                                            *)
(***************************************************************************)

\* What a probe that is still at work has on record: a reset has arrived only of
\* an end; nothing is pushed after it; a datagram is only read where one is
\* expected; and the deadlines of the two calls whose silence is an answer.
OnRecord ==
  /\ peer = "open" => ~rst
  /\ peer = "reset" => rst
  /\ proto = "https-bytes" /\ peer = "reset" => cutAt = pushed
  /\ inbox # None => step \in {"reply", "done", "raised"} /\ proto \in Datagrams
  /\ step = "reply" => deadline = began + Timeout
  /\ step = "answer" => deadline >= Timeout

\* What a verdict keeps.
Judged == SilenceIsWaitedOut /\ ResetClassified /\ OkMeansPushed /\ ResetHasEvidence

LEMMA RemainingEnd ==
  clock \in Nat => clock + Remaining >= Timeout
BY OneShotAssumption, StreamAssumption DEF Remaining

LEMMA OnRecordStep ==
  ASSUME OneShotTypeOK, InPlace, OnRecord, [OneShotNext]_oneShotVars
  PROVE  OnRecord'
<1> USE DEF InPlace, OnRecord, oneShotVars, dnsState, attemptVars, streamVars,
            peerVars, StayPut, Expired, InSession, VpnCalls, Datagrams, Streams
<1>1. Timeout \in Nat /\ proto \in Datagrams \cup Streams /\ clock \in Nat
  BY OneShotAssumption DEF OneShotTypeOK
<1>2. clock + Remaining >= Timeout BY <1>1, RemainingEnd
<1>3. CASE ResolvePhase /\ UNCHANGED <<inbox, streamVars>>
  BY <1>1, <1>3
  DEF ResolvePhase, LookUp, NoAddress, GotAddress, LookUpRaised, Give, Accuse, GiveUp,
      Begin
<1>4. CASE DatagramNext /\ UNCHANGED streamVars
  BY <1>1, <1>4
  DEF DatagramNext, PacketArrives, KeysMissing, BlindSend, KeysRejected, Send, NoReply,
      ReplyFails, Reply, Give, Accuse, GiveUp, Begin
<1>5. CASE StreamNext /\ UNCHANGED inbox
  <2>1. CASE PeerEnds \/ PeerResets
    <3>1. inbox = None BY <2>1 DEF PeerEnds, PeerResets, Established
    <3>2. CASE PeerEnds
      <4>1. rst' = (peer' = "reset") /\ cutAt' = pushed' BY <3>2 DEF PeerEnds
      <4>2. UNCHANGED <<inbox, step, deadline, began>> BY <1>5, <3>2 DEF PeerEnds
      <4> QED BY <3>1, <4>1, <4>2
    <3>3. CASE PeerResets
      <4>1. peer' \notin {"open", "reset"} /\ UNCHANGED <<inbox, step, deadline, began>>
        BY <1>5, <3>3 DEF PeerResets
      <4> QED BY <3>1, <4>1
    <3> QED BY <2>1, <3>2, <3>3
  <2>2. CASE StreamConnectFails \/ StreamConnectReset \/ StreamConnects
    BY <1>5, <2>2
    DEF StreamConnectFails, StreamConnectReset, StreamConnects, Flight, Give, Accuse, Begin
  <2>3. CASE BytesHandshakeReset \/ BytesHandshakeFails \/ BytesHandshaken
    BY <1>5, <2>3
    DEF BytesHandshakeReset, BytesHandshakeFails, BytesHandshaken, Give, Accuse, Begin
  <2>4. CASE HeaderSent \/ ChunkSent
    <3>1. peer # "reset" BY <2>4 DEF HeaderSent, ChunkSent, WriteBreaks
    <3>2. UNCHANGED <<peer, rst, inbox>> /\ inbox = None /\ step' \notin {"reply", "answer"}
      BY <1>5, <2>4 DEF HeaderSent, ChunkSent, GoOn, Give, Accuse, Begin
    <3> QED BY <3>1, <3>2
  <2>5. CASE PushBroken \/ PushMeetsClose \/ PushFails \/ Drained \/ DrainBroken
    <3>1. UNCHANGED <<proto, peer, rst, cutAt, pushed, inbox>> /\ inbox = None
      BY <1>5, <2>5 DEF PushBroken, PushMeetsClose, PushFails, Drained, DrainBroken
    <3>2. step' \notin {"reply", "answer"}
      BY <2>5
      DEF PushBroken, PushMeetsClose, PushFails, Drained, DrainBroken, Classify, GoOn,
          Give, Accuse, GiveUp, Begin
    <3> QED BY <3>1, <3>2
  <2>6. CASE FragmentSent \/ FlightSent \/ FragmentFails
    BY <1>2, <1>5, <2>6 DEF FragmentSent, FlightSent, FragmentFails, GiveUp, Begin
  <2>7. CASE NoAnswer \/ AnswerReset \/ AnswerEnds
    BY <1>5, <2>7 DEF NoAnswer, AnswerReset, AnswerEnds, Give, Accuse
  <2>8. CASE AnswerRead
    BY <1>2, <1>5, <2>8 DEF AnswerRead, Flight, Give, Accuse, Begin
  <2>9. CASE VpnFails \/ RequestSent \/ PrefixRead \/ PacketRead
    BY <1>5, <2>9
    DEF VpnFails, RequestSent, PrefixRead, PacketRead, Give, Accuse, Begin
  <2> QED BY <1>5, <2>1, <2>2, <2>3, <2>4, <2>5, <2>6, <2>7, <2>8, <2>9 DEF StreamNext
<1>6. CASE OneShotTick BY <1>6 DEF OneShotTick
<1>7. CASE UNCHANGED oneShotVars BY <1>7
<1> QED BY <1>3, <1>4, <1>5, <1>6, <1>7 DEF OneShotNext

\* Before there is a verdict there is nothing to keep.
LEMMA NothingJudged ==
  ASSUME InPlace', step' # "done"
  PROVE  Judged'
BY OneShotCodesType
DEF Judged, InPlace, SilenceIsWaitedOut, ResetClassified, OkMeansPushed,
    ResetHasEvidence, None

\* After it nothing happens any more.
LEMMA DoneStands ==
  ASSUME step = "done", [OneShotNext]_oneShotVars
  PROVE  UNCHANGED oneShotVars
BY DEF OneShotNext, ResolvePhase, LookUp, NoAddress, GotAddress, LookUpRaised,
       DatagramNext, PacketArrives, KeysMissing, BlindSend, KeysRejected, Send, NoReply,
       ReplyFails, Reply, StreamNext, PeerEnds, PeerResets, Established, InSession,
       StreamConnectFails, StreamConnectReset, StreamConnects, Flight, BytesHandshakeReset,
       BytesHandshakeFails, BytesHandshaken, HeaderSent, ChunkSent, PushBroken,
       PushMeetsClose, PushFails, Drained, DrainBroken, FragmentSent, FlightSent, FragmentFails,
       NoAnswer, AnswerReset, AnswerEnds, AnswerRead, VpnFails, RequestSent, PrefixRead,
       PacketRead, VpnCalls, OneShotTick, Waiting, Expired

LEMMA JudgedStep ==
  ASSUME OneShotTypeOK, InPlace, InPlace', OnRecord, Judged, [OneShotNext]_oneShotVars
  PROVE  Judged'
<1> USE DEF Judged, SilenceIsWaitedOut, ResetClassified, OkMeansPushed, ResetHasEvidence
<1>1. CASE step' # "done" BY <1>1, NothingJudged
<1>2. CASE step = "done"
  <2>1. UNCHANGED oneShotVars BY <1>2, DoneStands
  <2> QED BY <2>1
      DEF oneShotVars, dnsState, attemptVars, streamVars, peerVars, Welcome
<1>3. CASE step # "done" /\ step' = "done"
  <2> USE DEF InPlace, OnRecord, dnsState, attemptVars, streamVars, peerVars, StayPut,
              Expired, InSession, VpnCalls, Datagrams, Streams, Give, Accuse, Begin, GiveUp
  <2>1. OneShotNext BY <1>3 DEF oneShotVars
  <2>2. accused = None BY <1>3
  <2>7. /\ pushed \in Nat /\ cutAt \in Nat /\ clock \in Nat /\ deadline \in Nat
        /\ Timeout \in Nat /\ Body \in Nat /\ Header \in Nat /\ Lo \in Nat /\ Hi \in Nat
    BY OneShotAssumption, StreamAssumption DEF OneShotTypeOK
  <2>3. CASE ResolvePhase /\ UNCHANGED <<inbox, streamVars>>
    BY <1>3, <2>2, <2>3
    DEF ResolvePhase, LookUp, NoAddress, GotAddress, LookUpRaised, None
  <2>4. CASE DatagramNext /\ UNCHANGED streamVars
    BY <1>3, <2>2, <2>4
    DEF DatagramNext, PacketArrives, KeysMissing, BlindSend, KeysRejected, Send, NoReply,
        ReplyFails, Reply, Welcome, None
  <2>5. CASE StreamNext /\ UNCHANGED inbox
    <3>1. CASE StreamConnectFails \/ StreamConnectReset
      BY <1>3, <2>5, <3>1 DEF StreamConnectFails, StreamConnectReset, None
    <3>2. CASE BytesHandshakeReset \/ BytesHandshakeFails
      BY <1>3, <2>5, <3>2 DEF BytesHandshakeReset, BytesHandshakeFails, None
    <3>3. CASE HeaderSent \/ Drained
      <4>1. code' = "OK" /\ accused' = None /\ pushed' >= Body
        <5>1. CASE HeaderSent BY <1>3, <2>2, <2>7, <5>1 DEF HeaderSent, GoOn
        <5>2. CASE Drained BY <1>3, <2>2, <2>7, <5>2 DEF Drained, GoOn
        <5> QED BY <3>3, <5>1, <5>2
      <4>2. proto' = "https-bytes" /\ UNCHANGED <<peer, cutAt>> /\ inbox' = None
        BY <2>5, <3>3 DEF HeaderSent, Drained
      <4>3. peer = "reset" => cutAt' >= Body
        <5>1. CASE HeaderSent BY <5>1 DEF HeaderSent, WriteBreaks
        <5>2. CASE Drained BY <3>3, <4>1, <4>2, <5>2 DEF Drained
        <5> QED BY <3>3, <5>1, <5>2
      <4> QED BY <2>7, <4>1, <4>2, <4>3 DEF None
    <3>4. CASE PushBroken \/ DrainBroken
      BY <1>3, <2>5, <2>7, <3>4 DEF PushBroken, DrainBroken, Classify, WriteBreaks, None
    <3>5. CASE PushMeetsClose
      BY <1>3, <2>5, <3>5 DEF PushMeetsClose, WriteMeetsClose, None
    <3>6. CASE NoAnswer \/ AnswerReset \/ AnswerEnds \/ AnswerRead
      BY <1>3, <2>5, <2>7, <3>6 DEF NoAnswer, AnswerReset, AnswerEnds, AnswerRead, Flight, None
    <3>7. CASE VpnFails \/ PrefixRead \/ PacketRead
      BY <1>3, <2>5, <3>7 DEF VpnFails, PrefixRead, PacketRead, None
    <3>8. ~(\/ PeerEnds \/ PeerResets \/ StreamConnects \/ BytesHandshaken \/ ChunkSent
            \/ PushFails \/ FragmentSent \/ FlightSent \/ FragmentFails \/ RequestSent)
      BY <1>3
      DEF PeerEnds, PeerResets, StreamConnects, Flight, BytesHandshaken, ChunkSent, PushFails,
          FragmentSent, FlightSent, FragmentFails, RequestSent
    <3> QED BY <2>5, <3>1, <3>2, <3>3, <3>4, <3>5, <3>6, <3>7, <3>8 DEF StreamNext
  <2>6. ~OneShotTick BY <1>3 DEF OneShotTick
  <2> QED BY <2>1, <2>3, <2>4, <2>5, <2>6 DEF OneShotNext
<1> QED BY <1>1, <1>2, <1>3

OneShotInv == OneShotTypeOK /\ InPlace /\ OnRecord /\ Judged

LEMMA InitInv == ProbesInit => OneShotInv
<1> SUFFICES ASSUME ProbesInit PROVE OneShotInv
  OBVIOUS
<1>1. OneShotTypeOK /\ InPlace BY InitType
<1>2. OnRecord
  BY DEF ProbesInit, OneShotInit, DatagramInit, StreamInit, OnRecord
<1>3. Judged
  BY DEF ProbesInit, OneShotInit, StreamInit, DatagramInit, Judged, SilenceIsWaitedOut,
         ResetClassified, OkMeansPushed, ResetHasEvidence, None
<1> QED BY <1>1, <1>2, <1>3 DEF OneShotInv

LEMMA OneShotInvariant == OneShotSpec => []OneShotInv
<1>1. OneShotInv /\ [OneShotNext]_oneShotVars => OneShotInv'
  BY StepType, OnRecordStep, JudgedStep DEF OneShotInv
<1> QED BY InitInv, <1>1, PTL DEF OneShotSpec

\* Silence is waited out before it is a verdict, and a right answer is not lost.
THEOREM SilenceIsWaitedOutCorrect == OneShotSpec => []SilenceIsWaitedOut
<1>1. OneShotInv => SilenceIsWaitedOut BY DEF OneShotInv, Judged
<1> QED BY <1>1, OneShotInvariant, PTL

\* A reset that ends the push is reported as what its position makes it.
THEOREM ResetClassifiedCorrect == OneShotSpec => []ResetClassified
<1>1. OneShotInv => ResetClassified BY DEF OneShotInv, Judged
<1> QED BY <1>1, OneShotInvariant, PTL

\* OK of https-bytes: all is pushed, or the peer has closed the session.
THEOREM OkMeansPushedCorrect == OneShotSpec => []OkMeansPushed
<1>1. OneShotInv => OkMeansPushed BY DEF OneShotInv, Judged
<1> QED BY <1>1, OneShotInvariant, PTL

\* No fingerprint of interference, and no accusation, without its evidence.
THEOREM ResetHasEvidenceCorrect == OneShotSpec => []ResetHasEvidence
<1>1. OneShotInv => ResetHasEvidence BY DEF OneShotInv, Judged
<1> QED BY <1>1, OneShotInvariant, PTL

LEMMA CodeStep ==
  ASSUME code \in OneShotCodes \cup {None}, [OneShotNext]_oneShotVars
  PROVE  code' \in OneShotCodes \cup {None}
<1> USE DEF OneShotCodes, Give, Accuse, GiveUp, Begin, attemptVars
<1>1. CASE ResolvePhase
  BY <1>1 DEF ResolvePhase, LookUp, NoAddress, GotAddress, LookUpRaised
<1>2. CASE DatagramNext
  BY <1>2 DEF DatagramNext, PacketArrives, KeysMissing, BlindSend, KeysRejected, Send,
              NoReply, ReplyFails, Reply, Welcome
<1>3. CASE StreamNext
  <2>1. CASE PeerEnds \/ PeerResets \/ StreamConnectFails \/ StreamConnectReset \/ StreamConnects
    BY <2>1 DEF PeerEnds, PeerResets, StreamConnectFails, StreamConnectReset, StreamConnects,
                Flight
  <2>2. CASE \/ BytesHandshakeReset \/ BytesHandshakeFails \/ BytesHandshaken
             \/ HeaderSent \/ ChunkSent \/ PushBroken \/ PushMeetsClose \/ PushFails
             \/ Drained \/ DrainBroken
    BY <2>2 DEF BytesHandshakeReset, BytesHandshakeFails, BytesHandshaken, HeaderSent,
                ChunkSent, PushBroken, PushMeetsClose, PushFails, Drained, DrainBroken,
                GoOn, Classify
  <2>3. CASE FragmentSent \/ FlightSent \/ FragmentFails \/ NoAnswer \/ AnswerReset \/ AnswerEnds \/ AnswerRead
    BY <2>3 DEF FragmentSent, FlightSent, FragmentFails, NoAnswer, AnswerReset, AnswerEnds, AnswerRead,
                Flight
  <2>4. CASE VpnFails \/ RequestSent \/ PrefixRead \/ PacketRead
    BY <2>4 DEF VpnFails, RequestSent, PrefixRead, PacketRead
  <2> QED BY <1>3, <2>1, <2>2, <2>3, <2>4 DEF StreamNext
<1>4. CASE OneShotTick \/ UNCHANGED oneShotVars
  BY <1>4 DEF OneShotTick, oneShotVars
<1> QED BY <1>1, <1>2, <1>3, <1>4 DEF OneShotNext

\* A probe that comes back without an exception has a verdict, and it is never
\* the one reserved to the control probe: what DpiProbe assumes of other kinds.
THEOREM OneShotVerdictGiven ==
  OneShotSpec =>
    [](step = "done" => code \in VerdictCode \ {"VANTAGE_UNAVAILABLE"})
<1> DEFINE CodeGiven == code \in OneShotCodes \cup {None}
<1>1. ProbesInit => CodeGiven BY DEF ProbesInit, OneShotInit
<1>2. CodeGiven /\ [OneShotNext]_oneShotVars => CodeGiven' BY CodeStep
<1>3. OneShotInv /\ CodeGiven =>
        (step = "done" => code \in VerdictCode \ {"VANTAGE_UNAVAILABLE"})
  BY OneShotCodesType DEF OneShotInv, InPlace
<1> HIDE DEF CodeGiven
<1> QED BY <1>1, <1>2, <1>3, OneShotInvariant, PTL DEF OneShotSpec

-------------------------------------------------------------------------------
(***************************************************************************)
(* Time.  Only a lookup that waits and a tick move the clock, and neither  *)
(* past what is due; what is due is bounded call by call.                  *)
(***************************************************************************)

Base == 2 * Timeout + DohWait

\* A chunk's write and its drain.
PerChunk == Timeout + DrainWait

\* A read of the fragmented handshake, and the pauses of the flight before it.
PerRead == MinWait + Fragments * Pause

\* How late a flight can be that has a part unsent.
FlightDue == deadline + unsent * Pause <= Base + reads * PerRead + Fragments * Pause

\* How late the deadline of each call can be, and the time between two calls.
Due ==
  /\ step \in {"resolve", "prepare"} => clock <= Timeout + DohWait
  /\ step \in Waiting => clock <= deadline
  /\ step \in {"connect", "reply"} => deadline <= Base
  /\ step \in {"request", "handshake"} => deadline <= Base + Timeout
  /\ step \in {"prefix", "header"} => deadline <= Base + 2 * Timeout
  /\ step = "packet" => deadline <= Base + 3 * Timeout
  /\ step = "fragments" => FlightDue
  /\ step = "answer" => deadline <= Base + (reads + 1) * PerRead
  /\ step = "push" =>
       /\ pushed < Body
       /\ Chunk * deadline <= Chunk * (Base + 2 * Timeout) + Chunk * Timeout
                              + pushed * PerChunk
  /\ step = "drain" =>
       Chunk * deadline <= Chunk * (Base + 2 * Timeout)
         + (IF pushed < Body THEN pushed ELSE Body + Chunk) * PerChunk

\* Products, for the solver.
LEMMA Products ==
  ASSUME NEW k \in Nat, NEW m \in Nat, NEW n \in Nat
  PROVE  /\ k * m \in Nat
         /\ k * (m + n) = k * m + k * n /\ (m + n) * k = m * k + n * k
         /\ m <= n => k * m <= k * n /\ m * k <= n * k
<1>1. k * m \in Nat /\ k * (m + n) = k * m + k * n /\ (m + n) * k = m * k + n * k
  BY SMT
<1>2. ASSUME m <= n PROVE k * m <= k * n /\ m * k <= n * k
  <2>1. PICK d \in Nat : n = m + d
    <3>1. n - m \in Nat /\ n = m + (n - m) BY <1>2
    <3> QED BY <3>1
  <2>2. k * n = k * m + k * d /\ n * k = m * k + d * k BY <2>1, SMT
  <2>3. k * m \in Nat /\ k * d \in Nat /\ m * k \in Nat /\ d * k \in Nat BY SMT
  <2> QED BY <2>2, <2>3
<1> QED BY <1>1, <1>2

LEMMA TimeType ==
  OneShotTypeOK =>
    /\ Timeout \in Nat \ {0} /\ DohWait \in Nat /\ Chunk \in Nat \ {0} /\ Body \in Nat
    /\ Header \in Nat /\ DrainWait \in Nat /\ MinWait \in Nat /\ HandshakeReads \in Nat
    /\ Base \in Nat /\ PerChunk \in Nat /\ Timeout <= PerChunk
    /\ clock \in Nat /\ deadline \in Nat /\ pushed \in Nat /\ reads \in Nat
    /\ Pause \in Nat /\ Fragments \in Nat /\ unsent \in 0..Fragments
    /\ PerRead \in Nat /\ PerRead = MinWait + Fragments * Pause
    /\ Fragments * Pause \in Nat
<1> SUFFICES ASSUME OneShotTypeOK
             PROVE  /\ Base \in Nat /\ PerChunk \in Nat /\ Timeout <= PerChunk
                    /\ PerRead \in Nat /\ Fragments * Pause \in Nat
  BY OneShotAssumption, StreamAssumption DEF OneShotTypeOK, PerRead
<1>1. Fragments * Pause \in Nat
  <2>1. Fragments \in Nat /\ Pause \in Nat BY StreamAssumption
  <2> QED BY <2>1, Products
<1>2. PerRead \in Nat BY <1>1, StreamAssumption DEF PerRead
<1> QED BY <1>1, <1>2, OneShotAssumption, StreamAssumption DEF Base, PerChunk

\* What is due in time for the call is due in time for the probe.
LEMMA DueFits ==
  ASSUME OneShotTypeOK, InPlace, Due, step \in Waiting, NEW c \in Nat, c <= deadline
  PROVE  /\ proto \in Datagrams => c <= Base
         /\ proto = "openvpn-tcp" => c <= Base + 3 * Timeout
         /\ proto = "tls-frag" => c <= Base + HandshakeReads * PerRead
         /\ proto = "https-bytes" =>
              Chunk * c <= Chunk * (Base + 2 * Timeout) + (Body + Chunk) * PerChunk
<1> USE TimeType DEF InPlace, Due, Waiting, VpnCalls, InSession, Datagrams, Streams
<1>1. ASSUME proto \in Datagrams PROVE c <= Base BY <1>1
<1>2. ASSUME proto = "openvpn-tcp" PROVE c <= Base + 3 * Timeout BY <1>2
<1>3. ASSUME proto = "tls-frag" PROVE c <= Base + HandshakeReads * PerRead
  <2>1. HandshakeReads * PerRead \in Nat BY Products
  <2>2. CASE step = "connect" BY <2>1, <2>2
  <2>3. CASE step \in {"fragments", "answer"}
    <3>1. reads + 1 <= HandshakeReads /\ reads + 1 \in Nat BY <2>3
    <3>2. (reads + 1) * PerRead <= HandshakeReads * PerRead BY <3>1, Products
    <3>3. /\ (reads + 1) * PerRead \in Nat /\ reads * PerRead \in Nat
          /\ (reads + 1) * PerRead = reads * PerRead + PerRead
          /\ unsent * Pause \in Nat
      BY Products
    <3>4. deadline <= Base + (reads + 1) * PerRead BY <2>3, <3>3 DEF FlightDue
    <3> QED BY <2>1, <3>2, <3>3, <3>4
  <2> QED BY <1>3, <2>2, <2>3
<1>4. ASSUME proto = "https-bytes"
      PROVE  Chunk * c <= Chunk * (Base + 2 * Timeout) + (Body + Chunk) * PerChunk
  <2>1. Chunk * c \in Nat /\ Chunk * deadline \in Nat /\ Chunk * c <= Chunk * deadline
    BY Products
  <2>2. /\ Chunk * (Base + 2 * Timeout) \in Nat /\ (Body + Chunk) * PerChunk \in Nat
        /\ Body * PerChunk \in Nat /\ Chunk * PerChunk \in Nat
        /\ (Body + Chunk) * PerChunk = Body * PerChunk + Chunk * PerChunk
    BY Products
  <2>3. CASE step \in {"connect", "handshake", "header"}
    <3>1. c <= Base + 2 * Timeout BY <2>3
    <3>2. Chunk * c <= Chunk * (Base + 2 * Timeout) BY <3>1, Products
    <3> QED BY <2>1, <2>2, <3>2
  <2>4. CASE step = "push"
    <3>1. Chunk * Timeout <= Chunk * PerChunk /\ Chunk * Timeout \in Nat BY Products
    <3>2. pushed * PerChunk <= Body * PerChunk /\ pushed * PerChunk \in Nat
      BY <2>4, Products
    <3> QED BY <2>1, <2>2, <2>4, <3>1, <3>2
  <2>5. CASE step = "drain"
    <3>1. CASE pushed < Body
      <4>1. pushed * PerChunk <= Body * PerChunk /\ pushed * PerChunk \in Nat
        BY <3>1, Products
      <4> QED BY <2>1, <2>2, <2>5, <3>1, <4>1
    <3>2. CASE ~(pushed < Body) BY <2>1, <2>2, <2>5, <3>2
    <3> QED BY <3>1, <3>2
  <2> QED BY <1>4, <2>3, <2>4, <2>5
<1> QED BY <1>1, <1>2, <1>3, <1>4

\* A flight that starts in time ends in time.
LEMMA FlightStarts ==
  ASSUME OneShotTypeOK, reads' \in Nat, clock <= Base + reads' * PerRead,
         clock' = clock, Flight
  PROVE  FlightDue'
<1> USE TimeType
<1>1. deadline' = clock /\ unsent' \in 1..Fragments BY DEF Flight, Begin
<1>2. unsent' * Pause <= Fragments * Pause /\ unsent' * Pause \in Nat
  BY <1>1, Products
<1>3. reads' * PerRead \in Nat BY Products
<1> QED BY <1>1, <1>2, <1>3 DEF FlightDue, Base

\* A read that starts after a flight in time is due in time.
LEMMA ReadStarts ==
  ASSUME OneShotTypeOK, NEW r \in Nat, clock <= Base + r * PerRead + Fragments * Pause
  PROVE  clock + Remaining <= Base + (r + 1) * PerRead
<1> USE TimeType
<1>1. /\ r * PerRead \in Nat /\ (r + 1) * PerRead = r * PerRead + PerRead
  BY Products
<1>2. /\ Remaining \in Nat
      /\ clock + Remaining <= Timeout \/ clock + Remaining = clock + MinWait
  BY RemainingType DEF Remaining
<1> QED BY <1>1, <1>2 DEF Base

LEMMA DueStep ==
  ASSUME OneShotTypeOK, InPlace, InPlace', Due, [OneShotNext]_oneShotVars
  PROVE  Due'
<1> USE TimeType
    DEF Due, InPlace, oneShotVars, dnsState, attemptVars, streamVars, peerVars, StayPut,
        Expired, InSession, VpnCalls, Waiting, Datagrams, Streams
<1>1. CASE ResolvePhase /\ UNCHANGED <<inbox, streamVars>>
  <2>1. CASE LookUp
    BY <1>1, <2>1 DEF LookUp, Dns!Wait, Dns!Answer, Dns!Raise
  <2>2. CASE NoAddress \/ LookUpRaised
    BY <1>1, <2>2 DEF NoAddress, LookUpRaised, Give, Accuse, GiveUp
  <2>3. CASE GotAddress
    <3>1. clock + Timeout <= Base BY <2>3 DEF GotAddress, Base
    <3> QED BY <1>1, <2>3, <3>1 DEF GotAddress, Begin
  <2> QED BY <1>1, <2>1, <2>2, <2>3 DEF ResolvePhase
<1>2. CASE DatagramNext /\ UNCHANGED streamVars
  <2>1. CASE Send
    <3>1. clock + Timeout <= Base BY <2>1 DEF Send, Base
    <3> QED BY <1>2, <2>1, <3>1 DEF Send, Begin, Give, Accuse
  <2>2. CASE PacketArrives BY <1>2, <2>2 DEF PacketArrives
  <2>3. CASE KeysMissing \/ BlindSend \/ KeysRejected \/ NoReply \/ ReplyFails \/ Reply
    BY <1>2, <2>3
    DEF KeysMissing, BlindSend, KeysRejected, NoReply, ReplyFails, Reply, Give, Accuse,
        GiveUp
  <2> QED BY <1>2, <2>1, <2>2, <2>3 DEF DatagramNext
<1>3. CASE StreamNext /\ UNCHANGED inbox
  <2>1. CASE PeerEnds \/ PeerResets
    <3>1. UNCHANGED <<dnsState, proto, attemptVars, pushed, unsent, reads>>
      BY <2>1 DEF PeerEnds, PeerResets
    <3> QED BY <3>1 DEF FlightDue
  <2>2. CASE StreamConnects \/ BytesHandshaken \/ RequestSent
    <3>1. CASE StreamConnects
      <4>1. CASE Flight
        <5>1. clock <= Base /\ reads' = reads BY <3>1 DEF StreamConnects
        <5>2. FlightDue' BY <3>1, <4>1, <5>1, FlightStarts DEF StreamConnects
        <5>3. step' = "fragments" /\ clock' = clock /\ clock' = deadline'
          BY <3>1, <4>1 DEF StreamConnects, Flight, Begin
        <5> QED BY <5>2, <5>3
      <4>2. CASE ~Flight
        BY <3>1, <4>2 DEF StreamConnects, Begin
      <4> QED BY <4>1, <4>2
    <3>2. CASE BytesHandshaken \/ RequestSent
      BY <3>2 DEF BytesHandshaken, RequestSent, Begin
    <3> QED BY <2>2, <3>1, <3>2
  <2>3. CASE PrefixRead BY <2>3 DEF PrefixRead, Begin, Give, Accuse
  <2>4. CASE HeaderSent \/ Drained
    <3>1. CASE pushed' < Body
      <4>1. step' = "push" /\ deadline' = clock + Timeout /\ UNCHANGED clock
        BY <2>4, <3>1 DEF HeaderSent, Drained, GoOn, Begin
      <4>2. Chunk * deadline' = Chunk * clock + Chunk * Timeout BY <4>1, Products
      <4>3. Chunk * clock <= Chunk * (Base + 2 * Timeout) + pushed' * PerChunk
        <5>1. CASE HeaderSent
          <6>1. Chunk * clock <= Chunk * (Base + 2 * Timeout)
            BY <5>1, Products DEF HeaderSent
          <6>2. /\ Chunk * clock \in Nat /\ Chunk * (Base + 2 * Timeout) \in Nat
                /\ pushed' * PerChunk \in Nat
            BY <5>1, Products DEF HeaderSent
          <6> QED BY <6>1, <6>2
        <5>2. CASE Drained
          <6>1. pushed' = pushed /\ clock <= deadline BY <5>2 DEF Drained
          <6>2. Chunk * clock <= Chunk * deadline BY <6>1, Products
          <6>3. Chunk * deadline <= Chunk * (Base + 2 * Timeout) + pushed * PerChunk
            BY <3>1, <5>2, <6>1 DEF Drained
          <6>4. /\ Chunk * clock \in Nat /\ Chunk * deadline \in Nat
                /\ Chunk * (Base + 2 * Timeout) \in Nat /\ pushed * PerChunk \in Nat
            BY Products
          <6> QED BY <6>1, <6>2, <6>3, <6>4
        <5> QED BY <2>4, <5>1, <5>2
      <4>4. /\ Chunk * clock \in Nat /\ Chunk * Timeout \in Nat
            /\ Chunk * (Base + 2 * Timeout) \in Nat
            /\ pushed' \in Nat /\ pushed' * PerChunk \in Nat
        <5>1. pushed' \in Nat BY <2>4 DEF HeaderSent, Drained
        <5> QED BY <5>1, Products
      <4>5. Chunk * deadline' <= Chunk * (Base + 2 * Timeout) + Chunk * Timeout
                                 + pushed' * PerChunk
        BY <4>2, <4>3, <4>4
      <4> QED BY <3>1, <4>1, <4>5
    <3>2. CASE ~(pushed' < Body)
      <4>1. step' = "done" BY <2>4, <3>2 DEF HeaderSent, Drained, GoOn, Give, Accuse
      <4> QED BY <4>1
    <3> QED BY <3>1, <3>2
  <2>5. CASE ChunkSent
    <3>1. /\ step' = "drain" /\ deadline' = clock + DrainWait /\ UNCHANGED clock
          /\ clock <= deadline /\ pushed < Body
          /\ pushed' = IF Body - pushed < Chunk THEN Body ELSE pushed + Chunk
      BY <2>5 DEF ChunkSent, Begin
    <3>2. /\ Chunk * deadline' = Chunk * clock + Chunk * DrainWait
          /\ Chunk * clock <= Chunk * deadline
      BY <3>1, Products
    <3>3. /\ (pushed + Chunk) * PerChunk = pushed * PerChunk + Chunk * PerChunk
          /\ Chunk * PerChunk = Chunk * Timeout + Chunk * DrainWait
      BY Products DEF PerChunk
    <3>4. (pushed + Chunk) * PerChunk <=
            (IF pushed' < Body THEN pushed' ELSE Body + Chunk) * PerChunk
      <4>1. CASE pushed' < Body BY <3>1, <4>1
      <4>2. CASE ~(pushed' < Body)
        <5>1. pushed + Chunk <= Body + Chunk BY <3>1
        <5>2. pushed + Chunk \in Nat /\ Body + Chunk \in Nat OBVIOUS
        <5>3. (pushed + Chunk) * PerChunk <= (Body + Chunk) * PerChunk
          BY <5>1, <5>2, Products
        <5> QED BY <4>2, <5>3
      <4> QED BY <4>1, <4>2
    <3>5. /\ Chunk * clock \in Nat /\ Chunk * deadline \in Nat /\ Chunk * DrainWait \in Nat
          /\ Chunk * Timeout \in Nat /\ Chunk * (Base + 2 * Timeout) \in Nat
          /\ pushed * PerChunk \in Nat /\ (pushed + Chunk) * PerChunk \in Nat
      BY Products
    <3>6. pushed' \in Nat BY <3>1
    <3>7. (IF pushed' < Body THEN pushed' ELSE Body + Chunk) * PerChunk \in Nat
      BY <3>6, Products
    <3>8. Chunk * deadline <= Chunk * (Base + 2 * Timeout) + Chunk * Timeout
                              + pushed * PerChunk
      BY <2>5 DEF ChunkSent
    <3>9. Chunk * deadline' <= Chunk * (Base + 2 * Timeout)
            + (IF pushed' < Body THEN pushed' ELSE Body + Chunk) * PerChunk
      BY <3>2, <3>3, <3>4, <3>5, <3>7, <3>8
    <3> QED BY <3>1, <3>9
  <2>6. CASE FragmentSent \/ FlightSent
    <3>1. clock = deadline /\ FlightDue BY <2>6 DEF FragmentSent, FlightSent
    <3>2. CASE FragmentSent
      <4>1. /\ step' = "fragments" /\ deadline' = clock + Pause /\ unsent' = unsent - 1
            /\ UNCHANGED <<clock, reads>> /\ unsent > 0
        BY <3>2 DEF FragmentSent, Begin
      <4>2. unsent' \in Nat /\ unsent = unsent' + 1 BY <4>1
      <4>3. unsent * Pause = unsent' * Pause + Pause /\ unsent' * Pause \in Nat
        BY <4>2, Products
      <4>4. FlightDue' BY <3>1, <4>1, <4>3 DEF FlightDue
      <4> QED BY <3>1, <4>1, <4>4
    <3>3. CASE FlightSent
      <4>1. /\ step' = "answer" /\ deadline' = clock + Remaining
            /\ UNCHANGED <<clock, reads>> /\ unsent = 0
        BY <3>3 DEF FlightSent, Begin
      <4>2. clock <= Base + reads * PerRead + Fragments * Pause
        <5>1. 0 * Pause = 0 OBVIOUS
        <5> QED BY <3>1, <4>1, <5>1 DEF FlightDue
      <4>3. deadline' <= Base + (reads + 1) * PerRead BY <4>1, <4>2, ReadStarts
      <4>4. clock' <= deadline' BY <4>1, RemainingType
      <4> QED BY <4>1, <4>3, <4>4
    <3> QED BY <2>6, <3>2, <3>3
  <2>7. CASE AnswerRead
    <3>1. CASE step' = "done" BY <3>1
    <3>2. CASE step' # "done"
      <4>1. /\ clock <= deadline /\ deadline <= Base + (reads + 1) * PerRead
            /\ reads' = reads + 1 /\ UNCHANGED clock
        BY <2>7 DEF AnswerRead
      <4>2. clock <= Base + reads' * PerRead /\ reads' \in Nat
        <5>1. reads' \in Nat /\ (reads + 1) * PerRead \in Nat BY <4>1, Products
        <5> QED BY <4>1, <5>1
      <4>3. CASE Flight
        <5>1. FlightDue' BY <4>1, <4>2, <4>3, FlightStarts
        <5>2. step' = "fragments" /\ clock' = deadline' BY <4>1, <4>3 DEF Flight, Begin
        <5> QED BY <4>1, <5>1, <5>2
      <4>4. CASE ~Flight
        <5>1. step' = "answer" /\ deadline' = clock + Remaining
          BY <2>7, <3>2, <4>4 DEF AnswerRead, Flight, Give, Accuse, Begin
        <5>2. reads' * PerRead \in Nat BY <4>2, Products
        <5>3. clock + Remaining <= Base + (reads' + 1) * PerRead
          BY <4>2, <5>2, ReadStarts
        <5>4. clock' <= deadline' BY <4>1, <5>1, RemainingType
        <5> QED BY <5>1, <5>3, <5>4
      <4> QED BY <4>3, <4>4
    <3> QED BY <3>1, <3>2
  <2>8. CASE \/ StreamConnectFails \/ StreamConnectReset
             \/ BytesHandshakeReset \/ BytesHandshakeFails
             \/ PushBroken \/ PushMeetsClose \/ PushFails \/ DrainBroken
             \/ FragmentFails \/ NoAnswer \/ AnswerReset \/ AnswerEnds
             \/ VpnFails \/ PacketRead
    <3>1. step' \in {"done", "raised"}
      BY <2>8
      DEF StreamConnectFails, StreamConnectReset, BytesHandshakeReset, BytesHandshakeFails,
          PushBroken, PushMeetsClose, PushFails, DrainBroken, Classify, FragmentFails,
          NoAnswer, AnswerReset, AnswerEnds, VpnFails, PacketRead, Give, Accuse, GiveUp
    <3> QED BY <3>1
  <2> QED BY <1>3, <2>1, <2>2, <2>3, <2>4, <2>5, <2>6, <2>7, <2>8 DEF StreamNext
<1>4. CASE OneShotTick BY <1>4 DEF OneShotTick, FlightDue
<1>5. CASE UNCHANGED oneShotVars BY <1>5 DEF FlightDue
<1> QED BY <1>1, <1>2, <1>3, <1>4, <1>5 DEF OneShotNext

\* Only time that passes can make a probe late.
LEMMA WorstCaseStep ==
  ASSUME OneShotTypeOK, InPlace, Due, OneShotWorstCase, [OneShotNext]_oneShotVars
  PROVE  OneShotWorstCase'
<1> USE TimeType DEF OneShotWorstCase, oneShotVars, dnsState, streamVars, peerVars
<1>1. CASE UNCHANGED <<clock, proto>> BY <1>1
<1>2. CASE LookUp /\ UNCHANGED streamVars
  <2>1. CASE Dns!Wait
    <3>1. clock' \in Nat /\ clock' <= Timeout + DohWait /\ UNCHANGED proto
      BY <1>2, <2>1 DEF LookUp, Dns!Wait
    <3>2. clock' <= Base /\ clock' <= Base + 2 * Timeout BY <3>1 DEF Base
    <3>3. HandshakeReads * PerRead \in Nat BY Products
    <3>4. /\ Chunk * clock' <= Chunk * (Base + 2 * Timeout)
          /\ Chunk * clock' \in Nat /\ Chunk * (Base + 2 * Timeout) \in Nat
          /\ (Body + Chunk) * PerChunk \in Nat
      BY <3>1, <3>2, Products
    <3> QED BY <3>1, <3>2, <3>3, <3>4 DEF Base, PerChunk, PerRead
  <2>2. CASE Dns!Answer \/ Dns!Raise
    BY <1>1, <1>2, <2>2 DEF LookUp, Dns!Answer, Dns!Raise
  <2> QED BY <1>2, <2>1, <2>2 DEF LookUp
<1>3. CASE OneShotTick
  <2>1. /\ step \in Waiting /\ clock' \in Nat /\ clock' <= deadline
        /\ UNCHANGED proto
    BY <1>3 DEF OneShotTick
  <2> QED BY <2>1, DueFits DEF Base, PerChunk, PerRead
<1>4. CASE (NoAddress \/ GotAddress \/ LookUpRaised)
  BY <1>1, <1>4 DEF NoAddress, GotAddress, LookUpRaised
<1>5. CASE DatagramNext
  BY <1>1, <1>5
  DEF DatagramNext, PacketArrives, KeysMissing, BlindSend, KeysRejected, Send, NoReply,
      ReplyFails, Reply
<1>6. CASE StreamNext
  BY <1>1, <1>6
  DEF StreamNext, StayPut, PeerEnds, PeerResets, StreamConnectFails, StreamConnectReset,
      StreamConnects, Flight, BytesHandshakeReset, BytesHandshakeFails, BytesHandshaken,
      HeaderSent, ChunkSent, PushBroken, PushMeetsClose, PushFails, Drained, DrainBroken,
      FragmentSent, FlightSent, FragmentFails, NoAnswer, AnswerReset, AnswerEnds, AnswerRead,
      VpnFails, RequestSent, PrefixRead, PacketRead
<1> QED BY <1>1, <1>2, <1>3, <1>4, <1>5, <1>6 DEF OneShotNext, ResolvePhase

\* However slowly every party answers, a probe ends in time.
THEOREM OneShotWorstCaseCorrect == OneShotSpec => []OneShotWorstCase
<1>1. ProbesInit => Due /\ OneShotWorstCase
  <2> SUFFICES ASSUME ProbesInit PROVE Due /\ OneShotWorstCase
    OBVIOUS
  <2>1. clock = 0 /\ step = "resolve" /\ OneShotTypeOK
    BY InitType DEF ProbesInit, OneShotInit, Dns!LookupInit
  <2>2. Due BY <2>1, TimeType DEF Due, Waiting, VpnCalls
  <2>3. /\ HandshakeReads * PerRead \in Nat /\ Chunk * 0 = 0
        /\ Chunk * (Base + 2 * Timeout) \in Nat /\ (Body + Chunk) * PerChunk \in Nat
    <3>1. Base + 2 * Timeout \in Nat /\ Body + Chunk \in Nat BY <2>1, TimeType
    <3> QED BY <2>1, <3>1, TimeType, Products
  <2>4. OneShotWorstCase BY <2>1, <2>3, TimeType DEF OneShotWorstCase, Base, PerChunk, PerRead
  <2> QED BY <2>2, <2>4
<1>2. OneShotInv /\ OneShotInv' /\ Due /\ OneShotWorstCase /\ [OneShotNext]_oneShotVars
      => Due' /\ OneShotWorstCase'
  BY DueStep, WorstCaseStep DEF OneShotInv
<1> QED BY <1>1, <1>2, OneShotInvariant, PTL DEF OneShotSpec

-------------------------------------------------------------------------------
(***************************************************************************)
(* Refinement: the lookup that the probe carries with it keeps Lookup's    *)
(* promise to the end of the run.                                          *)
(***************************************************************************)

\* Past the resolve phase the lookup has returned, so time that goes by is the
\* caller's; but a run without the keys of wg-handshake ends before it.
Answered == step \notin {"resolve", "done"} => answered # "no"

LEMMA AnsweredStep ==
  ASSUME Answered, [OneShotNext]_oneShotVars
  PROVE  Answered' /\ [Dns!LookupNext]_(Dns!lookupVars)
<1> USE DEF Answered, Dns!LookupNext, Dns!lookupVars
<1>1. CASE ResolvePhase
  BY <1>1 DEF ResolvePhase, LookUp, NoAddress, GotAddress, LookUpRaised, Dns!Wait,
              Dns!Answer, Dns!Raise, attemptVars, dnsState, Give, Accuse
<1>2. CASE OneShotTick
  BY <1>2 DEF OneShotTick, Waiting, VpnCalls, Dns!Elapse, attemptVars
<1>3. ASSUME UNCHANGED dnsState, step \notin {"resolve", "done"} \/ step' = "done" \/ step' = step
      PROVE  Answered' /\ [Dns!LookupNext]_(Dns!lookupVars)
  BY <1>3 DEF dnsState
<1>4. CASE DatagramNext
  BY <1>3, <1>4 DEF DatagramNext, PacketArrives, KeysMissing, BlindSend, KeysRejected,
                    Send, NoReply, ReplyFails, Reply, Expired, Give, Accuse
<1>5. CASE StreamNext
  <2>1. UNCHANGED dnsState
    BY <1>5 DEF StreamNext, PeerEnds, PeerResets, StreamConnectFails, StreamConnectReset,
                StreamConnects, Flight, BytesHandshakeReset, BytesHandshakeFails, BytesHandshaken,
                HeaderSent, ChunkSent, PushBroken, PushMeetsClose, PushFails, Drained,
                DrainBroken, FragmentSent, FlightSent, FragmentFails, NoAnswer, AnswerReset,
                AnswerEnds, AnswerRead, VpnFails, RequestSent, PrefixRead, PacketRead,
                StayPut
  <2>2. step \notin {"resolve", "done"}
    BY <1>5 DEF StreamNext, PeerEnds, PeerResets, Established, InSession,
                StreamConnectFails, StreamConnectReset, StreamConnects,
                BytesHandshakeReset, BytesHandshakeFails, BytesHandshaken, HeaderSent,
                ChunkSent, PushBroken, PushMeetsClose, PushFails, Drained, DrainBroken,
                FragmentSent, FlightSent, FragmentFails, NoAnswer, AnswerReset, AnswerEnds,
                AnswerRead, VpnFails, VpnCalls, RequestSent, PrefixRead, PacketRead,
                Expired
  <2> QED BY <1>3, <2>1, <2>2
<1>6. CASE UNCHANGED oneShotVars
  BY <1>6 DEF oneShotVars, dnsState, attemptVars
<1> QED BY <1>1, <1>2, <1>4, <1>5, <1>6 DEF OneShotNext

\* The probe implements Lookup: it takes the answer once, keeps it while its
\* calls run, and goes on only after it.
THEOREM OneShotImplementsLookup == OneShotSpec => Dns!LookupSpec
<1>1. ProbesInit => Dns!LookupInit /\ Answered BY DEF ProbesInit, OneShotInit, Answered
<1>2. Answered /\ [OneShotNext]_oneShotVars =>
        Answered' /\ [Dns!LookupNext]_(Dns!lookupVars)
  BY AnsweredStep
<1> QED BY <1>1, <1>2, PTL DEF OneShotSpec, Dns!LookupSpec
===============================================================================
