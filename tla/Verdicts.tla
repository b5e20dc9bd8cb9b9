------------------------------- MODULE Verdicts -------------------------------
(***************************************************************************)
(* The classification vocabulary every part of the prober shares: what     *)
(* probe/lib/verdict.py declares and what the Zabbix templates match on.   *)
(***************************************************************************)

Confidence == {"HIGH", "MEDIUM", "LOW"}

\* The verdicts whose default confidence is HIGH, MEDIUM and LOW.
HighConfidence ==
  {"OK", "DNS_LIE", "TCP_RST_MID_STREAM", "TLS_RESET_POST_HELLO",
   "CERT_MISMATCH", "HTTP_STUB", "TSPU_ACTIVE", "TSPU_BYPASS_OK",
   "THROTTLE_DETECTED", "WG_HANDSHAKE_PASS"}

MediumConfidence ==
  {"WG_HANDSHAKE_BLOCKED", "TCP_RST_HANDSHAKE", "TLS_TIMEOUT",
   "BANNER_MISMATCH", "ROUTE_BLACKHOLE"}

LowConfidence ==
  {"REMOTE_HUNGUP_AFTER_CONNECT", "VANTAGE_UNAVAILABLE", "PORT_FILTERED",
   "REMOTE_DOWN", "UDP_BLIND", "ERROR_INTERNAL"}

VerdictCode == HighConfidence \cup MediumConfidence \cup LowConfidence

DefaultConfidence(code) ==
  CASE code \in HighConfidence   -> "HIGH"
    [] code \in MediumConfidence -> "MEDIUM"
    [] code \in LowConfidence    -> "LOW"

\* No verdict, or no discriminator.
None == "NONE"

\* Where a follow-up probe says the block lives. No probe answers "ip_based".
Discriminator == {"sni_based", "ip_based", "dns_based", "inconclusive"}

\* The verdicts the aggregator's discriminator_any expression matches.
Fingerprints ==
  {"DNS_LIE", "TCP_RST_MID_STREAM", "TLS_RESET_POST_HELLO", "CERT_MISMATCH",
   "HTTP_STUB"}
===============================================================================
