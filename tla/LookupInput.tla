------------------------------ MODULE LookupInput ------------------------------
\* The waits of a lookup, which every probe that resolves its target gives it.
CONSTANTS
  Timeout,  \* the probe's timeout argument, in ticks
  DohWait   \* the timeout of the join of the DoH thread, in ticks
===============================================================================
