------------------------------ MODULE MCInstaller ------------------------------
\* Model-checking instance of Installer.
EXTENDS Installer, TLC

CONSTANTS d1, d2, d3, p1, p2

Candidates == <<d1, d2>>

Later == p1 :> {p2} @@ p2 :> {}

\* An empty host; a known directory; a configured one; overrides that differ
\* from the configuration, the known directories or both; a relative one.
Hosts ==
  {[external |-> None, config |-> None, known |-> {}],
   [external |-> None, config |-> None, known |-> {d2}],
   [external |-> None, config |-> d3, known |-> {d2}],
   [external |-> d1, config |-> d2, known |-> {}],
   [external |-> d2, config |-> None, known |-> {d1}],
   [external |-> d3, config |-> None, known |-> {}],
   [external |-> None, config |-> "relative", known |-> {d1}]}
===============================================================================
