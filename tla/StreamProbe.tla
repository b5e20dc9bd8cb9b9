------------------------------ MODULE StreamProbe ------------------------------
(***************************************************************************)
(* The probes that use one TCP connection: https-bytes (push a body and    *)
(* watch for the reset of a byte counter), tls-frag (a handshake whose     *)
(* ClientHello goes out in fragments) and openvpn in its TCP mode.         *)
(*                                                                         *)
(* The peer, or a middlebox in its name, may end the connection between    *)
(* any two steps: with a reset, with a TLS close_notify, or with a bare    *)
(* FIN, and a reset may come after either of the last two.  What the probe *)
(* has read of this is sawEnd: the kernel hands out what was queued before *)
(* a reset when it is read, but a write after the reset fails at once.     *)
(*                                                                         *)
(* Sizes are in units of bytes.  A fragment is sent without waiting (a     *)
(* ClientHello fits into any send buffer); the pause after it is not       *)
(* nothing: a flight has as many as it has fragments.                      *)
(***************************************************************************)
EXTENDS OneShot

CONSTANTS
  Header, Chunk, Body,  \* https-bytes: the HTTP header, chunk_size, push_bytes
  Lo, Hi,               \* https-bytes: expect_rst_window
  DrainWait,            \* https-bytes: interleave_read_timeout, in ticks
  MinWait,              \* tls-frag: the 1 ms a read always gets, in ticks
  Pause,                \* tls-frag: the 1 ms after each fragment, in ticks
  Fragments,            \* tls-frag: bound on the fragments of a flight
  HandshakeReads        \* tls-frag: bound on the reads a handshake takes

ASSUME StreamAssumption ==
  /\ Header \in Nat \ {0} /\ Chunk \in Nat \ {0} /\ Body \in Nat
  /\ Lo \in Nat /\ Hi \in Nat
  /\ DrainWait \in Nat \ {0} /\ MinWait \in Nat \ {0} /\ Pause \in Nat \ {0}
  /\ Fragments \in Nat \ {0} /\ HandshakeReads \in Nat \ {0}

VARIABLES
  peer,    \* "open", or how the peer has ended the connection
  rst,     \* a reset has arrived
  cutAt,   \* what was pushed when the peer ended it
  sawEnd,  \* the end that came before a reset has been read
  pushed,  \* https-bytes: cumulative
  unsent,  \* tls-frag: fragments of this flight still to be sent
  reads    \* tls-frag: reads of the handshake

peerVars == <<peer, rst, cutAt>>
streamVars == <<peerVars, sawEnd, pushed, unsent, reads>>

StreamInit ==
  /\ peer = "open"
  /\ rst = FALSE
  /\ cutAt = 0
  /\ sawEnd = FALSE
  /\ pushed = 0
  /\ unsent = 0
  /\ reads = 0

-------------------------------------------------------------------------------
(***************************************************************************)
(* The peer.                                                               *)
(***************************************************************************)

InSession == {"header", "push", "drain"}

Established == InSession \cup {"handshake", "fragments", "answer", "request",
                               "prefix", "packet"}

PeerEnds ==
  /\ step \in Established /\ peer = "open"
  /\ peer' \in {"reset", "hungup"} \cup
               IF step \in InSession THEN {"closed"} ELSE {}
  /\ rst' = (peer' = "reset")
  /\ cutAt' = pushed
  /\ UNCHANGED <<dnsState, proto, attemptVars, sawEnd, pushed, unsent, reads>>

\* What is sent to a peer that has closed its socket is answered by a reset.
PeerResets ==
  /\ step \in Established /\ peer \in {"closed", "hungup"} /\ ~rst
  /\ rst' = TRUE
  /\ UNCHANGED <<dnsState, proto, attemptVars, peer, cutAt, sawEnd, pushed,
                 unsent, reads>>

-------------------------------------------------------------------------------
(***************************************************************************)
(* connect, of all three.                                                  *)
(***************************************************************************)

StayPut == UNCHANGED <<dnsState, proto, streamVars>>

StreamConnectFails ==
  /\ \/ Expired("connect") /\ Give("PORT_FILTERED")
     \/ step = "connect" /\ (Give("REMOTE_DOWN") \/ Give("ROUTE_BLACKHOLE"))
  /\ StayPut

\* A reset has a clause of its own in openvpn, the one meant for later calls.
StreamConnectReset ==
  /\ step = "connect" /\ proto = "openvpn-tcp"
  /\ peer' = "reset" /\ rst' = TRUE
  /\ Give("TCP_RST_MID_STREAM")
  /\ UNCHANGED <<dnsState, proto, cutAt, sawEnd, pushed, unsent, reads>>

\* The first flight of a handshake is one fragment at least; it is sent at once.
Flight == unsent' \in 1..Fragments /\ Begin("fragments", 0)

StreamConnects ==
  /\ step = "connect"
  /\ \/ proto = "https-bytes" /\ Begin("handshake", Timeout) /\ unsent' = 0
     \/ proto = "tls-frag" /\ Flight
     \/ proto = "openvpn-tcp" /\ Begin("request", Timeout) /\ unsent' = 0
  /\ UNCHANGED <<dnsState, proto, peerVars, sawEnd, pushed, reads>>

-------------------------------------------------------------------------------
(***************************************************************************)
(* https-bytes: the handshake.                                             *)
(***************************************************************************)

\* Faulty variant: whatever ends the handshake is a reset.
BytesHandshakeCut ==
  /\ step = "handshake" /\ peer # "open"
  /\ Accuse("TLS_RESET_POST_HELLO", "sni_based")
  /\ StayPut

BytesHandshakeReset ==
  /\ step = "handshake" /\ rst
  /\ Accuse("TLS_RESET_POST_HELLO", "sni_based")
  /\ StayPut

\* Silence, a hang-up, an SSL error or any other OSError.
BytesHandshakeFails ==
  /\ step = "handshake"
  /\ Give("TLS_TIMEOUT")
  /\ StayPut

BytesHandshaken ==
  /\ step = "handshake" /\ peer = "open"
  /\ Begin("header", Timeout)
  /\ StayPut

-------------------------------------------------------------------------------
(***************************************************************************)
(* https-bytes: the push.  A write fails like after a reset when one has   *)
(* come or a bare FIN has been read (SSLEOFError); after a close_notify    *)
(* has been read, a write that fails says that the peer had closed.        *)
(***************************************************************************)

WriteBreaks ==
  \/ rst /\ ~(peer = "closed" /\ sawEnd)
  \/ peer = "hungup" /\ sawEnd

WriteMeetsClose == rst /\ peer = "closed" /\ sawEnd

\* Faulty variant: the ends of the window are outside of it.
ClassifyStrictly(at) ==
  Give(IF Lo < at /\ at < Hi THEN "THROTTLE_DETECTED" ELSE "TCP_RST_MID_STREAM")

\* _classify, where there was a reset.
Classify(at) ==
  Give(IF Lo <= at /\ at <= Hi THEN "THROTTLE_DETECTED" ELSE "TCP_RST_MID_STREAM")

\* The loop's head: another chunk, or all is pushed.
GoOn(sum) == IF sum < Body THEN Begin("push", Timeout) ELSE Give("OK")

HeaderSent ==
  /\ step = "header" /\ ~WriteBreaks
  /\ pushed' = Header
  /\ GoOn(pushed')
  /\ UNCHANGED <<dnsState, proto, peerVars, sawEnd, unsent, reads>>

ChunkSent ==
  /\ step = "push" /\ ~WriteBreaks /\ ~WriteMeetsClose
  /\ pushed' = IF Body - pushed < Chunk THEN Body ELSE pushed + Chunk
  /\ Begin("drain", DrainWait)
  /\ UNCHANGED <<dnsState, proto, peerVars, sawEnd, unsent, reads>>

PushBroken ==
  /\ step \in {"header", "push"} /\ WriteBreaks
  /\ Classify(pushed)
  /\ StayPut

PushMeetsClose ==
  /\ step = "push" /\ WriteMeetsClose
  /\ Give("OK")
  /\ StayPut

\* A write that takes the whole timeout, or an error that is no reset.
PushFails ==
  /\ step \in InSession
  /\ step # "drain" => ~WriteBreaks
  /\ GiveUp
  /\ StayPut

\* Faulty variant: the end of the stream ends the push, whichever end it is.
DrainedUntilEnd ==
  /\ step = "drain"
  /\ \/ peer \in {"closed", "hungup"} /\ Give("OK")
     \/ peer = "open" /\ GoOn(pushed)
  /\ StayPut

\* No echo within the short timeout, an echo, or the end of the stream.
Drained ==
  /\ step = "drain"
  /\ GoOn(pushed)
  /\ sawEnd' \in {sawEnd} \cup IF peer \in {"closed", "hungup"} THEN {TRUE} ELSE {}
  /\ UNCHANGED <<dnsState, proto, peerVars, pushed, unsent, reads>>

DrainBroken ==
  /\ step = "drain" /\ peer = "reset"
  /\ Classify(pushed)
  /\ StayPut

-------------------------------------------------------------------------------
(***************************************************************************)
(* tls-frag: flights of fragments, and reads, until the handshake is done. *)
(* At "fragments" the deadline is the end of the last fragment's pause.    *)
(***************************************************************************)

\* Faulty variant: every read gets the whole timeout.
RemainingAll == Timeout

\* What is left of the timeout, but not less than the floor.
Remaining == IF clock + MinWait < Timeout THEN Timeout - clock ELSE MinWait

\* Faulty variant: the loop goes past the last fragment.
FragmentSentPast ==
  /\ Expired("fragments") /\ ~rst
  /\ unsent' = unsent - 1
  /\ Begin("fragments", Pause)
  /\ UNCHANGED <<dnsState, proto, peerVars, sawEnd, pushed, reads>>

FragmentSent ==
  /\ Expired("fragments") /\ unsent > 0 /\ ~rst
  /\ unsent' = unsent - 1
  /\ Begin("fragments", Pause)
  /\ UNCHANGED <<dnsState, proto, peerVars, sawEnd, pushed, reads>>

\* The last one has its pause too.
FlightSent ==
  /\ Expired("fragments") /\ unsent = 0
  /\ Begin("answer", Remaining)
  /\ StayPut

\* A reset or any other OSError of sendall, or one of recv that is neither a
\* timeout nor a reset: only SSL errors are named around the loop.  Or, before
\* it, a name that wrap_bio does not take.
FragmentFails ==
  /\ step = "answer" \/ (Expired("fragments") /\ unsent > 0)
  /\ GiveUp
  /\ StayPut

NoAnswer ==
  /\ Expired("answer") /\ peer = "open"
  /\ Accuse("TLS_TIMEOUT", "sni_based")
  /\ StayPut

AnswerReset ==
  /\ step = "answer" /\ peer = "reset"
  /\ Accuse("TLS_RESET_POST_HELLO", "sni_based")
  /\ StayPut

AnswerEnds ==
  /\ step = "answer" /\ peer = "hungup"
  /\ Give("REMOTE_HUNGUP_AFTER_CONNECT")
  /\ StayPut

\* The handshake is done, is none, or takes another read, after another flight
\* or not.
AnswerRead ==
  /\ step = "answer"
  /\ reads' = reads + 1
  /\ \/ Give("TSPU_BYPASS_OK") /\ UNCHANGED unsent
     \/ Give("TLS_TIMEOUT") /\ UNCHANGED unsent
     \/ /\ reads' < HandshakeReads
        /\ Flight \/ (Begin("answer", Remaining) /\ UNCHANGED unsent)
  /\ UNCHANGED <<dnsState, proto, peerVars, sawEnd, pushed>>

-------------------------------------------------------------------------------
(***************************************************************************)
(* openvpn over TCP: the request, two bytes of length, the packet.         *)
(***************************************************************************)

VpnCalls == {"request", "prefix", "packet"}

VpnFails ==
  /\ step \in VpnCalls
  /\ \/ rst /\ (step = "request" \/ peer = "reset") /\ Give("TCP_RST_MID_STREAM")
     \/ Expired(step) /\ Give("PORT_FILTERED")
     \/ Give("ROUTE_BLACKHOLE")
  /\ StayPut

RequestSent ==
  /\ step = "request" /\ ~rst
  /\ Begin("prefix", Timeout)
  /\ StayPut

\* Less than two bytes: the end of the stream, or one byte that came alone.
PrefixRead ==
  /\ step = "prefix"
  /\ Begin("packet", Timeout) \/ Give("TCP_RST_HANDSHAKE")
  /\ StayPut

\* Whatever came, and be it nothing.
PacketRead ==
  /\ step = "packet"
  /\ Give("OK") \/ Give("BANNER_MISMATCH")
  /\ StayPut

StreamNext ==
  \/ PeerEnds \/ PeerResets
  \/ StreamConnectFails \/ StreamConnectReset \/ StreamConnects
  \/ BytesHandshakeReset \/ BytesHandshakeFails \/ BytesHandshaken
  \/ HeaderSent \/ ChunkSent \/ PushBroken \/ PushMeetsClose \/ PushFails
  \/ Drained \/ DrainBroken
  \/ FragmentSent \/ FlightSent \/ FragmentFails
  \/ NoAnswer \/ AnswerReset \/ AnswerEnds \/ AnswerRead
  \/ VpnFails \/ RequestSent \/ PrefixRead \/ PacketRead
===============================================================================
