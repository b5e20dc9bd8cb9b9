------------------------------- MODULE Resolver -------------------------------
(***************************************************************************)
(* resolve_with_doh_check: the system lookup and the DoH query run in two  *)
(* daemon threads, the caller joins each with a timeout and then reads     *)
(* what they have stored.  The lookup thread of resolve_a is a third one,  *)
(* joined with the same timeout by the system thread.                      *)
(*                                                                         *)
(* Time is counted in ticks from the start of the call.  Computation takes *)
(* no time, but the threads interleave at every access to the results they *)
(* share; the clock only moves when all of them wait.                      *)
(***************************************************************************)
EXTENDS Naturals, FiniteSets

CONSTANTS
  Addr,      \* IPv4 addresses
  Timeout,   \* the probe's timeout argument, in ticks
  DohCap     \* the 5 s cap on the DoH query, in ticks

NoAddr == "NO_ADDR"

ASSUME TimeAssumption == Timeout \in Nat \ {0} /\ DohCap \in Nat \ {0}
ASSUME AddrAssumption == NoAddr \notin Addr

VARIABLES
  now,        \* the clock
  literal,    \* the host argument is an IP literal
  lookup,     \* getaddrinfo: "pending", "failed" or "answered"
  sys,        \* the _system thread
  found,      \* the address resolve_a returns in _system
  doh,        \* the _doh thread: "query" or "done"
  main,       \* the caller
  expires,    \* when the caller's present blocking call times out
  sysResult,  \* system_result: which of "ip", "ms", "err" are stored
  dohResult,  \* doh_result["ips"]
  dohSeen,    \* the caller's snapshot of it, doh_ips
  answer,     \* the address the caller returns
  inTime      \* history: getaddrinfo answered before the deadline

lookupVars == <<literal, lookup, found, inTime>>
callerVars == <<main, expires, dohSeen, answer>>
resultVars == <<sysResult, dohResult>>
dnsVars == <<lookupVars, sys, doh, resultVars, main, dohSeen, answer>>

resolverVars == <<now, expires, dnsVars>>

Smaller(a, b) == IF a < b THEN a ELSE b

\* Faulty variant: the DoH query may take the whole timeout again.
DohTimeoutUncapped == Timeout

DohTimeout == Smaller(Timeout, DohCap)

ResolverInit ==
  /\ now = 0
  /\ literal \in BOOLEAN
  /\ lookup = "pending"
  /\ sys = "join"
  /\ found = NoAddr
  /\ doh = "query"
  /\ main = "start"
  /\ expires = Timeout
  /\ sysResult = {}
  /\ dohResult = {}
  /\ dohSeen = {}
  /\ answer = NoAddr
  /\ inTime = FALSE

-------------------------------------------------------------------------------
(***************************************************************************)
(* The lookup thread and the _system thread.                               *)
(***************************************************************************)

\* The threads have been started; an IP literal needs none.
Started == main # "start" /\ ~literal

\* getaddrinfo returns with addresses, or without any, or raises.  Once
\* resolve_a has given up, nobody looks at it.
LookupAnswers(a) ==
  /\ Started /\ lookup = "pending" /\ sys = "join"
  /\ lookup' = "answered"
  /\ found' = a
  /\ inTime' = (now < Timeout)
  /\ UNCHANGED <<now, literal, sys, doh, callerVars, resultVars>>

LookupFails ==
  /\ Started /\ lookup = "pending" /\ sys = "join"
  /\ lookup' = "failed"
  /\ UNCHANGED <<now, literal, sys, found, doh, inTime, callerVars,
                 resultVars>>

\* resolve_a's join returns: the lookup thread has ended, or the timeout has
\* passed and is_alive() raises ResolveError.
SysJoined ==
  /\ Started /\ sys = "join"
  /\ \/ lookup = "answered" /\ sys' = "storeIp"
     \/ lookup = "failed" /\ sys' = "storeErr"
     \/ lookup = "pending" /\ now >= Timeout /\ sys' = "storeErr"
  /\ UNCHANGED <<now, doh, lookupVars, callerVars, resultVars>>

\* system_result["ip"] = ip_, then system_result["ms"] = ms_.
SysStores(from, key, to) ==
  /\ sys = from
  /\ sysResult' = sysResult \cup {key}
  /\ sys' = to
  /\ UNCHANGED <<now, doh, dohResult, lookupVars, callerVars>>

\* Faulty variant: the latency is stored first and the address is forgotten.
SysStoresMsOnly ==
  \/ SysStores("storeIp", "ms", "done")
  \/ SysStores("storeErr", "err", "done")

SysStoresResult ==
  \/ SysStores("storeIp", "ip", "storeMs")
  \/ SysStores("storeMs", "ms", "done")
  \/ SysStores("storeErr", "err", "done")

-------------------------------------------------------------------------------
(***************************************************************************)
(* The _doh thread.  resolve_doh answers the empty set when it fails; its  *)
(* timeout bounds one socket operation, so the answer may be late; after   *)
(* the caller has read doh_result nobody looks at it.                      *)
(***************************************************************************)
DohAnswers(ips) ==
  /\ main \in {"joinSys", "joinDoh", "readDoh"} /\ doh = "query"
  /\ doh' = "done"
  /\ dohResult' = ips
  /\ UNCHANGED <<now, sys, sysResult, lookupVars, callerVars>>

-------------------------------------------------------------------------------
(***************************************************************************)
(* The caller.                                                             *)
(***************************************************************************)

\* An IP literal is returned as it is and no thread is started.
StartCall ==
  /\ main = "start"
  /\ \/ /\ literal
        /\ main' = "done"
        /\ \E a \in Addr : answer' = a
     \/ /\ ~literal
        /\ main' = "joinSys"
        /\ UNCHANGED answer
  /\ UNCHANGED <<now, sys, doh, expires, dohSeen, lookupVars, resultVars>>

JoinSys ==
  /\ main = "joinSys"
  /\ sys = "done" \/ now >= expires
  /\ main' = "joinDoh"
  /\ expires' = now + DohTimeout
  /\ UNCHANGED <<now, sys, doh, dohSeen, answer, lookupVars, resultVars>>

\* Faulty variant: the DoH answer is waited for without a timeout.
JoinDohForever ==
  /\ main = "joinDoh"
  /\ doh = "done"
  /\ main' = "readDoh"
  /\ UNCHANGED <<now, sys, doh, expires, dohSeen, answer, lookupVars,
                 resultVars>>

JoinDoh ==
  /\ main = "joinDoh"
  /\ doh = "done" \/ now >= expires
  /\ main' = "readDoh"
  /\ UNCHANGED <<now, sys, doh, expires, dohSeen, answer, lookupVars,
                 resultVars>>

ReadDoh ==
  /\ main = "readDoh"
  /\ dohSeen' = dohResult
  /\ main' = "readErr"
  /\ UNCHANGED <<now, sys, doh, expires, answer, lookupVars, resultVars>>

\* "err" in system_result, then "ip" not in system_result: no address.
ReadErr ==
  /\ main = "readErr"
  /\ main' = IF "err" \in sysResult THEN "done" ELSE "readIp"
  /\ UNCHANGED <<now, sys, doh, expires, dohSeen, answer, lookupVars,
                 resultVars>>

ReadIp ==
  /\ main = "readIp"
  /\ \/ "ip" \notin sysResult /\ main' = "done" /\ UNCHANGED answer
     \/ "ip" \in sysResult /\ main' = "readMs" /\ answer' = found
  /\ UNCHANGED <<now, sys, doh, expires, dohSeen, lookupVars, resultVars>>

\* float(system_result["ms"]): a KeyError while only "ip" is stored.
ReadMs ==
  /\ main = "readMs"
  /\ main' = IF "ms" \in sysResult THEN "done" ELSE "raised"
  /\ UNCHANGED <<now, sys, doh, expires, dohSeen, answer, lookupVars,
                 resultVars>>

\* All threads wait: the caller in a join that has not expired, the system
\* thread in its own or at its end.
Tick ==
  /\ \/ main = "joinSys" /\ sys # "done"
     \/ main = "joinDoh" /\ doh # "done"
  /\ now < expires
  /\ sys = "done" \/ (sys = "join" /\ lookup = "pending" /\ now < Timeout)
  /\ now' = now + 1
  /\ UNCHANGED <<sys, doh, lookupVars, callerVars, resultVars>>

\* What others do: the system's resolver and the DoH server.
Answers ==
  \/ \E a \in Addr : LookupAnswers(a)
  \/ LookupFails
  \/ \E ips \in SUBSET Addr : DohAnswers(ips)

\* What the process does by itself, the expiry of a join included.
Threads ==
  \/ SysJoined \/ SysStoresResult
  \/ StartCall \/ JoinSys \/ JoinDoh \/ ReadDoh \/ ReadErr \/ ReadIp \/ ReadMs
  \/ Tick

ResolverNext == Answers \/ Threads

-------------------------------------------------------------------------------
ResolverTypeOK ==
  /\ now \in Nat
  /\ literal \in BOOLEAN
  /\ lookup \in {"pending", "failed", "answered"}
  /\ sys \in {"join", "storeIp", "storeMs", "storeErr", "done"}
  /\ found \in Addr \cup {NoAddr}
  /\ doh \in {"query", "done"}
  /\ main \in {"start", "joinSys", "joinDoh", "readDoh", "readErr", "readIp",
               "readMs", "done", "raised"}
  /\ expires \in Nat
  /\ sysResult \in SUBSET {"ip", "ms", "err"}
  /\ dohResult \in SUBSET Addr
  /\ dohSeen \in SUBSET Addr
  /\ answer \in Addr \cup {NoAddr}
  /\ inTime \in BOOLEAN

\* "Does NOT raise: a system-resolver failure is reported on the result".
NeverRaises == main # "raised"

\* An address getaddrinfo delivered before the deadline is the one the caller
\* returns: neither the nested timeouts nor the wait for DoH lose it or turn it
\* into a failure, which the probe would report as DNS_LIE.
AnswerInTimeIsKept ==
  main = "done" /\ ~literal /\ inTime => answer = found
===============================================================================
