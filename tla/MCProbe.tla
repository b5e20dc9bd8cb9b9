-------------------------------- MODULE MCProbe --------------------------------
\* Model-checking instance of DpiProbe: one kind of interference at a time; the
\* https probe under --with-control, as the vantage template calls it, and the
\* other ways to call dpi_probe with the cheap kinds.
EXTENDS DpiProbe

CONSTANTS a1, a2

Interference(filtered, blocked, forged) ==
  [sniFiltered |-> filtered, blocked |-> blocked, forged |-> forged]

Interferences ==
  {Interference(FALSE, {}, {}), Interference(TRUE, {}, {}),
   Interference(FALSE, {a1}, {}), Interference(FALSE, {}, {a1})}

TemplateCall ==
  [mode |-> "with_control", kind |-> "https", args |-> "good", config |-> "good"]

Calls == {TemplateCall} \cup {c \in Invocation : c.kind # "https"}
===============================================================================
