----------------------------- MODULE DatagramProbe -----------------------------
(***************************************************************************)
(* The probes of UDP services: wireguard, wg-handshake and openvpn.  One   *)
(* datagram goes out; the first that comes back is the answer, and silence *)
(* for the whole timeout is an answer, too.  The packets are abstracted to *)
(* what the probe makes of their first byte and length.                    *)
(***************************************************************************)
EXTENDS OneShot

VARIABLE inbox  \* the first datagram the socket has received

Packet == {"right", "wrong", "empty"}

DatagramInit == inbox = None

\* The peer, or anybody: the socket is not connected.
PacketArrives ==
  /\ step = "reply" /\ inbox = None
  /\ inbox' \in Packet
  /\ UNCHANGED <<dnsState, proto, attemptVars>>

-------------------------------------------------------------------------------

\* main, before it calls the probe: an environment without the keys.
KeysMissing ==
  /\ step = "resolve" /\ proto = "wg-handshake" /\ answered = "no" /\ clock = 0
  /\ Give("ERROR_INTERNAL")
  /\ UNCHANGED <<dnsState, proto, inbox>>

\* wireguard without the server's key: nobody would answer, so it only sends.
BlindSend ==
  /\ step = "prepare" /\ proto = "wireguard"
  /\ Give("UDP_BLIND") \/ Give("ROUTE_BLACKHOLE")
  /\ UNCHANGED <<dnsState, proto, inbox>>

\* The keys given are no keys, or no handshake can be built from them.
KeysRejected ==
  /\ step = "prepare" /\ proto \in {"wireguard", "wg-handshake"}
  /\ Give("ERROR_INTERNAL")
  /\ UNCHANGED <<dnsState, proto, inbox>>

\* Faulty variant: the answer is awaited until the budget is used up.
SendOnBudget ==
  /\ step = "prepare" /\ proto \in Datagrams
  /\ \/ Begin("reply", IF clock < Timeout THEN Timeout - clock ELSE 0)
     \/ Give("ROUTE_BLACKHOLE")
  /\ UNCHANGED <<dnsState, proto, inbox>>

\* sendto does not wait; recvfrom has the whole timeout.
Send ==
  /\ step = "prepare" /\ proto \in Datagrams
  /\ Begin("reply", Timeout) \/ Give("ROUTE_BLACKHOLE")
  /\ UNCHANGED <<dnsState, proto, inbox>>

\* Faulty variant: openvpn waits without a timeout.
NoReplyPlain ==
  /\ Expired("reply") /\ inbox = None /\ proto # "openvpn-udp"
  /\ Give(IF proto = "wg-handshake" THEN "WG_HANDSHAKE_BLOCKED"
                                    ELSE "PORT_FILTERED")
  /\ UNCHANGED <<dnsState, proto, inbox>>

\* Silence for the whole timeout.
NoReply ==
  /\ Expired("reply") /\ inbox = None
  /\ Give(IF proto = "wg-handshake" THEN "WG_HANDSHAKE_BLOCKED"
                                    ELSE "PORT_FILTERED")
  /\ UNCHANGED <<dnsState, proto, inbox>>

\* An ICMP error that the kernel passes on, or any other OSError.
ReplyFails ==
  /\ step = "reply" /\ inbox = None
  /\ \/ Give("ROUTE_BLACKHOLE")
     \/ proto = "wg-handshake" /\ Give("REMOTE_DOWN")
  /\ UNCHANGED <<dnsState, proto, inbox>>

\* What tells a probe that the server is there.
Welcome == IF proto = "wg-handshake" THEN "WG_HANDSHAKE_PASS" ELSE "OK"

\* An empty datagram is a mismatch for openvpn; the two others look at the
\* first byte of it while they word the mismatch, and raise IndexError.
Reply ==
  /\ step = "reply"
  /\ \/ inbox = "right" /\ Give(Welcome)
     \/ inbox = "wrong" /\ Give("BANNER_MISMATCH")
     \/ inbox = "empty" /\ proto = "openvpn-udp" /\ Give("BANNER_MISMATCH")
     \/ inbox = "empty" /\ proto # "openvpn-udp" /\ GiveUp
  /\ UNCHANGED <<dnsState, proto, inbox>>

DatagramNext ==
  \/ PacketArrives \/ KeysMissing \/ BlindSend \/ KeysRejected \/ Send
  \/ NoReply \/ ReplyFails \/ Reply
===============================================================================
