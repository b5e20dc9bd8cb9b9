--------------------------------- MODULE MCApp ---------------------------------
\* Model-checking instance of OtherKinds and of its parts.
EXTENDS OtherKinds

CONSTANTS a1, a2

AllKinds == {"smtp", "smtps", "ssh", "rdp"}

\* No interference, each of the three kinds alone, and all three at once.
Interferences ==
  {[sniFiltered |-> FALSE, blocked |-> {}, forged |-> {}],
   [sniFiltered |-> TRUE, blocked |-> {}, forged |-> {}],
   [sniFiltered |-> FALSE, blocked |-> {a1}, forged |-> {}],
   [sniFiltered |-> FALSE, blocked |-> {}, forged |-> {a1}],
   [sniFiltered |-> TRUE, blocked |-> {a1}, forged |-> {a1}]}

AllProtocols == Datagrams \cup Streams

\* No override; quorums below, within and above the number of canaries; ratios
\* that round up, that ask for all and that are out of range.
Overrides ==
  {[by |-> "default", value |-> 0]}
    \cup [by : {"absolute"}, value : {-1, 0, 1, 3, 9}]
    \cup [by : {"ratio"}, value : {0, 34, 50, 100, 101}]
===============================================================================
