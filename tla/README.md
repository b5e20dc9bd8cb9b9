# A TLA+ model of zabbix-dpi-checker

This directory holds TLA+ specifications of the DPI prober and of the Zabbix
templates that turn its verdicts into alerts, TLC configurations that check them
on small instances, and TLAPS proofs of the results that matter most for meshes
of any size. Paths such as `probe/lib/resolver.py` are relative to the repository
(`src/` in PROJECT.json).

## 1. The system

A *vantage* is a Zabbix host that runs `dpi_probe.py` once per `{$DPI.INTERVAL}`
for each discovered (target, kind, port) tuple. The script prints one JSON line;
a dependent item extracts the verdict code (`dpi.verdict`). An *aggregator* host
reads the `dpi.verdict` of all vantages with `last_foreach`, keeps four counts,
and raises one of four severities. Everything between a TLS handshake in
a probe and a HIGH alert in Zabbix is in these two halves.

| Component | State | Operations | Talks to |
|---|---|---|---|
| Verdict vocabulary (`probe/lib/verdict.py`) | none | codes, default confidence, discriminators, JSON form | every probe, both templates (which match on the codes) |
| Aggregator items and triggers (`template/dpi-mesh-aggregator.yaml:18-147`) | last 3 values of two counts and last value of two others; trigger states | sample an item, evaluate the triggers that read it, nodata, manual close | `dpi.verdict` of each vantage |
| Vantage items (`template/dpi-mesh-blocking-detection.yaml`) | last verdict per vantage; stale trigger | run the probe, store, extract, go silent, be disabled | the command line, the aggregator |
| Discovery (both templates: master item, LLD rules, JavaScript) | discovered tuples | expand `{$DPI.KINDS}`, filter, create or drop items | the two items above |
| Command line (`probe/dpi_probe.py`) | none between runs | parse, control probe, dispatch, emit one line, exit | probes, Zabbix |
| Control probe (`probe/lib/probe_control.py`) | one socket | connect, handshake, classify | the command line |
| Resolver (`probe/lib/resolver.py`, `doh_resolver.py`) | two result dictionaries, three daemon threads | system lookup, DoH query, two joins | all probes of targets |
| https probe (`probe_https.py`; `probe_rdgw.py` calls it) | one socket at a time, a scan buffer, what is left of the budget | resolve, connect, handshake, request and body scan, shutdown, wrong-SNI and DoH follow-ups | resolver, the network |
| smtp/smtps, ssh, rdp probes | one socket, a banner | connect, banner, STARTTLS, follow-ups | resolver, the network |
| wireguard, wg-handshake, openvpn probes | one socket | check the keys, send, wait, compare; openvpn over TCP | resolver, the network |
| https-bytes, tls-frag probes | bytes pushed, memory BIO, what is left of the budget | interleaved push, fragmented handshake, classify the reset | resolver, the network |
| tspu-liveness probe | results of the canaries | probe each canary, quorum | https probe |
| Installer, remote deployment (`deploy/*.sh`) | files of the installation | interpreter, venv, dependencies, libraries, entry point, directory, link, permissions, smoke tests | the running prober (same files) |
| Logger, crypto, dashboards, packaging | none that matters here | wording, key exchange data, layout | - |

### What is hard here, and what makes each part correct

* **The aggregator never sees the mesh at one instant.** Its four counts are
  sampled one by one, each trigger looks back three samples of some of them and
  one of others, and vantages publish, join and leave in between. A trigger is
  evaluated only when one of *its own* items takes a value, not while the stale
  trigger it depends on is in PROBLEM, and operators close problems by hand.
  Correct: the tiers do not contradict each other, no fingerprint means no alert,
  and once the verdicts stand still the alert is the one of the README's table for
  that mesh size, and stays it.
* **Three threads and four nested timeouts make up one DNS lookup.** Two deadlines
  (the join of `_system` and the join inside `resolve_a`) expire at the same
  instant, the result is stored and read in several steps, and DoH may answer at
  any time. Correct: an answer that came in time is used, a failure is reported and
  not raised, and DNS_LIE has DoH's word behind it.
* **A probe is a chain of blocking calls with a timeout each**, any of which may
  fail in several ways after earlier ones succeeded, followed by further attempts
  in what is left of the budget. Correct: the run ends in bounded time with one
  line, a handshake that succeeded stays a success, a discriminator never blames
  what cannot be to blame, and a vantage without network accuses no one.
* **A reset, a close_notify and a bare FIN are told apart by when they are noticed.** The
  https-bytes and tls-frag probes write and read in turns while the peer, or a middlebox
  in its name, ends the connection between any two of these calls, and a reset may
  follow a close. Correct: a reset is classified by the byte at which it came, nothing
  else passes for it, and silence is a verdict only when it has been waited out.
* **The canaries are counted as if probed at once**, on a path that may go down or come
  up between two of them. Correct: TSPU_ACTIVE has a cause for every canary it counts.
* **The installer is re-run over whatever an earlier run left**, on hosts whose Python
  is upgraded and whose permissions drift. Correct: a run that completes leaves one
  version, usable by zabbix, whatever it found; a re-run gets through wherever the
  first could have; a run that stops early breaks nothing that worked.

## 2. Modules

| Module | Models | State | Actions |
|---|---|---|---|
| `Verdicts` | `verdict.py`, fingerprint set of `discriminator_any` | - | - |
| `Mesh` | calculated items and triggers of the aggregator, publication by vantages, for one tuple | `verdict`, `hist`, `pending`, `stale`, `tier` (and the history variables `unsynced`, `fpSeen`) | `Publish`, `Leave`, `Sample`, `NoDataFires`, `CloseTier`, `CloseStale` |
| `MeshSteady` | `Mesh` with a fixed membership and every item at its own offset in the cycle | plus `offset`, `published` | `PublishOnSchedule`, `SampleOnSchedule` |
| `AlertLadder` | the abstract promise: one alert at a time, severities change through "no alert" | `alert` | `Raise`, `Resolve` |
| `MeshProofs`, `MeshSteadyProofs` | theorems about `Mesh` and `MeshSteady` | | |
| `Resolver` | `resolve_with_doh_check`, `resolve_a`, `resolve_doh` | the program counters and dictionaries of the threads, the clock | one action per access to shared results, per join, per answer |
| `HttpsProbe` | `probe_https.py`, on `Resolver`'s clock | `phase`, `attempt`, scan and follow-up state, the network's behaviour | one action per outcome of each blocking call, and `JudgeTarget`, `JudgeFollowup` |
| `DpiProbe` | `dpi_probe.main`, `probe_control`, composed with `HttpsProbe` | `cli`, `control`, `lines`, `lost`, `status` | one action per branch of `main` and outcome of the control probe |
| `Lookup` | what `resolve_with_doh_check` promises its callers, in one step | the clock, the returned address, what DoH knows | `Wait`, `Answer`, `Raise`, `Elapse` |
| `AppProbe` | `probe_smtp.py` (smtp, smtps), `probe_ssh.py`, `probe_rdp.py`, on `Lookup` | `kind`, `phase`, `attempt`, the banner's reads, follow-up state, the network | one action per outcome of each blocking call, and `JudgeTarget`, `JudgeFollowup` |
| `OneShot` | what the probes with a single attempt share: the resolve phase on `Lookup`, a call with its deadline, the verdict | `clock`, `proto`, `step`, `began`, `deadline`, `code`, `accused` | `LookUp`, `NoAddress`, `GotAddress`, `LookUpRaised` |
| `DatagramProbe` | `probe_wireguard.py`, `probe_wg_handshake.py`, `probe_openvpn.py` over UDP | `inbox` | send, answer, silence, errors, missing or rejected keys |
| `StreamProbe` | `probe_https_bytes.py`, `probe_tls_frag.py`, `probe_openvpn.py` over TCP | `peer`, `rst`, `cutAt`, `sawEnd`, `pushed`, `unsent`, `reads` | one action per outcome of each call, and `PeerEnds`, `PeerResets` |
| `OneShotProbes` | the two composed with the clock | - | `OneShotTick` |
| `TspuLiveness` | `probe_tspu_liveness.py` | `canaries`, `setting`, `probed`, `blocked`, `tspuCode`; the path's `obstructed`, `flips`, `disturbed` | `ProbeCanary`, `CanaryRaises`, `Count`, `NoCanaries`, `Flip` |
| `OtherKinds` | the dispatch of `main` to the kinds beside https and rdgw | - | - |
| `Installer` | `install-prober.sh`, `deploy-to.sh` | the venv (`link`, `pip`, `deps`), the program (`lib`, `entry`, `shebang`, `links`), `open`, the host, the run | one action per step of `main`, `Start`, `FallBack`, `RemoteSmokeTest`, and `Interrupted`, `UpgradeOs`, `Drift` |
| `LookupInput` | the two waits that every caller of a lookup gives it | - | - |
| `HttpsProofs`, `CliProofs`, `AppProofs`, `OneShotProofs`, `KindsProofs`, `InstallerProofs` | theorems about `HttpsProbe` with its resolver, `DpiProbe`, `AppProbe`, `OneShotProbes`, `TspuLiveness` with `OtherKinds`, and `Installer` | | |
| `MCMesh`, `MCMeshSteady`, `MCProbe`, `MCApp`, `MCInstaller` | instances for TLC | | |

`DpiProbe` extends `HttpsProbe`, which extends `Resolver`: a step of the command
line's target phase is a step of the probe, whose `resolve` phase is a step of the
resolver, all on one clock. `MeshSteady` extends `Mesh`: a scheduled step is a
`Mesh` step with a stronger guard. The two halves meet in `Publish`, which takes
any verdict of `Reports`: what `DpiProbe` prints is a member of that set.

`Lookup` is the resolver seen from a probe, an abstract specification with two
uses. `HttpsProbe`, which runs on the resolver's threads, implements it
(`KeepsLookupPromise`, checked and proved), and `AppProbe` and `OneShot`, which call the
same function, use it instead of repeating the threads: `AppProbe` extends it, `OneShot`
instantiates it on variables of its own, so that both can be composed. The three files of `AppProbe`
share the order resolve, connect, (handshake or request), banner: a step that they
have in common is one definition, whose comment names the lines in the other files. In
`DpiProbe` all kinds beside https and rdgw are one step, `OtherReport`, which takes any
code except `VANTAGE_UNAVAILABLE` (`NobodyElseSaysUnavailable` proves that it is one of
those, whichever probe runs). `OtherKinds` is the step seen from inside: a run of
`dpi_probe` is a run of one of `AppProbe`, `OneShotProbes` and `TspuLiveness`. A canary of
`TspuLiveness` is a run of `HttpsProbe`, of which only the code matters there.

Operators commented "Faulty variant" are not used by any specification. Each is a
plausible bug in one definition; PROJECT.json pairs it with the property that
notices it when it replaces the definition.

### How `Mesh` corresponds to the template

`Counted(i)` is the `count(last_foreach(...))` of item `i`. `hist[i]` keeps as many
values as the triggers read (`#3` or `last()`). A count is capped where no
expression distinguishes it from a larger one (`affected` at 3, `vantages_total` at
4, the other two at 1), which keeps the state finite without changing any
expression. `pending` is the set of items still to be sampled in the cycle, `Before`
the order their schedules fix. `Expression` is the four expressions, as the sets of
conditions they are conjunctions of: `Holds` is read off them, and so are the items on
whose values a trigger is evaluated (`Referred`), as Zabbix does. `Evaluate` is the
evaluation with the dependency on the stale trigger.

Zabbix itself is not in the repository; the following is taken from how the
templates use it. `last_foreach` leaves out items without values and disabled items
and keeps the last value of silent ones. A trigger is evaluated on a new value of an
item it references. While the trigger it depends on is in PROBLEM its status stays
what it was. `manual_close: YES` puts it to OK until the next evaluation. `nodata()`
ends with a new value. A calculated item with a plain delay is taken once per delay,
at a fixed offset.

### How the probe modules correspond to the code

A program counter (`main`, `sys`, `doh`, `phase`, `cli`) names the statement a
thread is at; there is one action per access to state that threads share and one per
outcome of a call. Time is in ticks, and computation takes none: the clock moves
only when every thread waits. A blocking call has a deadline `expires`; until it, an
answer may or may not come, at it the call may time out. So "the caller reads between
the two stores" is possible at the instant a join expires, which is what happens when
both threads wake up together. `net` describes the interference for the duration of a
probe: the target's SNI is filtered, addresses are blocked, or addresses are
forged, with a stub page and another certificate behind them. A genuine address shows the
expected certificate and no marker. `ssl.SSLSocket.unwrap` waits for the peer's
`close_notify` up to the socket timeout. In `AppProbe` a step that lets an exception
out of the probe leads to phase `raised`; where the code has an except clause for it, it
ends in a verdict. Of `HttpsProbe` the lookup and `wrap_socket` do the same: a TLS name that cannot be
encoded is a ValueError, which none of its clauses names (`HandshakeRaises`). What a banner says is left open (`JudgeBanner`); how many reads it
takes is not. `rdgw` is a call of the https probe and adds no
state.

In `StreamProbe` the end of a connection has three parts: how the peer ended it (`peer`),
whether a reset has arrived (`rst`), and whether the end before a reset has been read
(`sawEnd`). They differ because the kernel hands out what was queued before a reset when
it is read, while a write after a reset fails at once, and because OpenSSL reports a write
after a bare FIN that was read as `SSLEOFError` and after a close_notify as
`SSLZeroReturnError`. `_is_rst_error` sees the former as a reset. Sizes are positions in
the stream of the push; the window and the chunks are constants.

In `Installer` a version of the program, an interpreter and a directory are model
values, and a file of `probe/lib` is known by its version. `Interrupted` is both a command
that fails (`set -e`) and a kill, possible before every step; `install` unlinks a file
before it writes it, so that one interrupted in between, of the library or the entry
script, is missing. The interpreter may be wanting altogether (`python` is `None`): the family of the
distribution is unknown, or apt's fallback (install-prober.sh:126-127) installs one older than 3.11, as on
Debian 11, and the run ends in the FATAL of the next step without any command having failed. `python -m venv`, which
is not in the repository, is two steps, because the check of the next run
(`VenvAnswers`) looks only at the first: the link to the interpreter. `UpgradeOs` replaces
the interpreter by a later one between runs, which leaves that link dangling.
`faulted` is a history variable: whether the present run was interrupted.

## 3. Runs

| Run | Question | Result |
|---|---|---|
| `mesh` | Which alerts can be shown together, is the alert right once the counts settled, while vantages join, leave and change between samples, the aggregator goes silent and operators close problems? | holds |
| `mesh_live` | Once verdicts stop changing, does the alert become the table's and stay, even after a suppressed evaluation or a manual close? | holds |
| `mesh_steady` | With fixed membership and offsets, are all four tiers exclusive and is `AlertLadder` implemented? | holds |
| `probe` | Does one run of `dpi_probe` give one verdict, in time, with a diagnosis that cannot be wrong in the ways listed? | holds |
| `app` | Do all kinds of probe beside https come back in bounded time, with an OK that clears the path, fingerprints that have their evidence, resets classified by their position, a discriminator that can be right, and a quorum that has causes? | holds |
| `installer` | Is what a run completed usable, does a re-run repair what an earlier one left, does a run that stops early break nothing? | holds |
| `mesh_growth` | README.md:208-209: do the `vantages_total` gates keep the tiers exclusive? | violated |
| `mesh_unavailable` | README.md:154-156: is VANTAGE_UNAVAILABLE left out of the counts? | violated |
| `probe_budget` | probe_https.py:81: is `timeout` the total budget of resolve, connect and handshake? | violated |
| `probe_raises` | resolver.py:103: does `resolve_with_doh_check` never raise? | violated |
| `app_escape` | README.md:341-343: do the smtps follow-ups add to the target's verdict (and never replace it)? | violated |
| `frag_escape` | README.md:301, verdict.py:17: is a reset in answer to the fragmented ClientHello reported as one? | violated |

### Properties

*Mesh.* `NeverAverageAndHigh` holds always, suppressed and
manually closed tiers included, because both tiers read `peers_ok` and that same
item's value ends the stale period. `DirectionalTiersExclusive`: INFO, WARNING and
AVERAGE read one count and cannot coincide. `NoFingerprintNoAlert`: the promise of
the `discriminator_any` gate, over all of history. `SettledShowsLadder` and
`LadderConverges` compare with the README's table written down independently
(`Ladder`), for mesh sizes 1 to 4 and, by the proof, all others.

`TiersExclusive` over all four tiers is where the regime matters. INFO or WARNING and
HIGH read different items (`affected` and `peers_ok`), so a verdict changing between
their samples, or a vantage joining, lets both hold (`mesh_growth`). With fixed
membership, a probe at a fixed place between the same two samples makes
`affected + peers_ok` of matching samples move together, and
three equal samples cannot contradict the other three (`mesh_steady`). A
probe that drifts within the cycle (the mutant) brings the overlap back.

*Probe.* `AnswerInTimeIsKept` and `LieNeedsWitness` are about the resolver's races.
`HandshakeIsOK` is an action property: whatever fails after the handshake, an
unforged target's verdict is OK. `DiscriminatorPossible` relates the
diagnosis to what the network does. `WorstCase` and `FollowupsEndSoon` bound the
real duration of one https probe: four timeouts and the DoH wait for the target's attempt, two
follow-up caps beyond the budget for the rest. `OneVerdict`, `DownVantageAccusesNobody`
and `Exits` are the command line's contract with Zabbix; `OneVerdict` leaves out a verdict that could
not be written, and `--help`, which probes nothing. `KeepsLookupPromise` is the refinement:
threads, joins and dictionaries of the resolver are one step of `Lookup`, within
timeout plus DoH wait, and what was returned does not change afterwards, although the
daemon threads go on writing.

*The other kinds (run `app`).* `OkMeansThrough`: an OK clears the path of everything that the network can do to
it. `FingerprintHasEvidence` covers the codes that open `discriminator_any` in the
aggregator, which is why a wrong one costs an alert. `SmtpsDiscriminatorPossible`
is the twin of `DiscriminatorPossible`. `AppWorstCase` counts the timeouts of each
kind: every read of an ssh banner has the whole timeout again. `AppFollowupsEndSoon`
bounds the follow-ups; `AppEnds` says that the probe comes back, whether by a verdict
or by an exception.

Of the probes with a single attempt: `SilenceIsWaitedOut` relates a verdict of silence to the
time since the send (since the start for tls-frag, whose reads share the budget), and says that a
right answer in that time is not lost. `ResetClassified` is the promise of
https-bytes: a reset of an otherwise open session that ends the push is reported, and as
`THROTTLE_DETECTED` exactly when the byte at which it came is in the window, although it
is noticed by a later read or write. `OkMeansPushed` is its counterpart for OK, which must
not come of a hang-up. `ResetHasEvidence` says the same of these probes' fingerprints as
`FingerprintHasEvidence` of the others. `OneShotWorstCase` bounds each kind by its
calls, for tls-frag with the pause after every fragment, which runs on when nothing is left of the
budget; `OneShotEnds` says that all of them come back. `ActiveHasCause`: changes of the path
between canaries count for one each, so a vantage that loses its network does not reach the
quorum by that alone (`BlockedCodes` leaves out what an unreachable canary gives).
`UnanimityActive` is the quorum's arithmetic at its upper end.

*Installer.* `CompletedIsUsable` is stronger than the smoke test at the end of a run, which
only loads the command line: every file is of this run's version, for the interpreter of
the venv, with the dependencies, linked and readable. `RerunRepairs` states
deploy/README.md's "Re-running the installer is safe" with its three exceptions, a
distribution without a Python that is new enough, a venv whose interpreter is gone and a host
without a directory. `KeepsWorking` is about every
step of a run up to the first file it replaces.

### Bounds

* `mesh`: four vantages, the size at which the last gate (`vantages_total >= 4`)
  opens, so every row of the table is reached; three reports, one each of OK, not
  OK, and fingerprint, which is all the expressions distinguish. `MaxChanges = 1`
  verdict changes per cycle, `MaxUpsets = 2` silences or manual closings: enough for one
  to fall into the consequences of another. The cycle itself is unbounded.
  `affected` and `peers_ok` are sampled in either order, the gates after them.
* `mesh_live`: no symmetry (it is unsound for liveness), two reports, one upset.
* `mesh_steady`: `MaxChanges = 4`, every vantage may change in every cycle; one
  offset per vantage, all assignments; the four items in one fixed order, since each is
  taken at an offset of its own (`OffsetsAssumption`), with the gates and `peers_ok`
  before `affected`. The theorems cover the other orders.
* `mesh_growth`: two vantages are enough for the counterexample.
* `probe`: timeout 3, DoH cap 2, follow-up cap 1, minimum scan 1, in ticks: the
  code's order 8 or 10 s > 5 s > 2 s > 0.5 s is kept (the two shortest
  coincide). Two addresses, so that the system's answer and DoH's may agree or
  differ; one DoH follow-up at most (`MaxDohFollowups`; the code has 2) and two reads to
  fill the scan buffer. One kind of interference at a time. The https kind is run
  under `--with-control`, as the template calls it, all other invocations with the kinds
  that are answered in one step.
* `app`: timeout 3, DoH wait 2, follow-up cap 2, so that a follow-up may have its whole
  cap or what is left of it; one DoH follow-up; three reads of an ssh banner (in the
  code 512 bytes, at most 512 reads), the least with a read between the first and the
  last; two addresses, no interference, each of the three kinds alone and all three at
  once, with and without an expected fingerprint. One address for the probes with a single
  attempt, which never compare two. Header 1, chunk 2, body 6, window 3 to 5: chunks end at
  1, 3, 5 and 6, so a reset falls before the window, on both of its ends and, for the last
  chunk, which is shorter, behind it. The drain and the floor of tls-frag are a tick, the shortest
  wait there is, and so is the pause after a fragment; two fragments in a flight and three
  reads, the least with one between the first and the last. Up to five canaries and two changes of the path; no override, absolute ones below,
  within and above the number of canaries, ratios (in percent) that round up, ask for all, or are out of
  range.
* `installer`: two versions, so that a mixture can be seen; two interpreters, of which a
  host may be upgraded from the first to the second (in the code three, always upwards);
  two files of `probe/lib`; seven hosts: an empty one, known directories, a configured
  one, overrides that differ from the configuration or from what is known, a relative
  path. The numbers of runs, interruptions, and disturbances are unbounded.

Deadlock is checked in the mesh and installer runs. The probe and app runs switch it off:
the process exits.

### Fairness

`FairSpec` of `Mesh` assumes only that the server goes on taking calculated items
(weak fairness of `Sample`): their delay is a plain interval. Nothing is assumed of
the vantages or operators. `FairCliSpec` assumes that the process is scheduled and
that time passes: weak fairness of what the process does by itself and of the clock.
No peer is assumed to answer: a call comes back for certain only by its timeout,
which is why the sockets' timeouts and the joins matter to `Exits`. The steps of the
control probe and of the kinds that are not modelled in detail are fair as a
whole, because their sockets have timeouts. `FairAppSpec` assumes the same of the
process and the clock (`Computes`), and that the lookup returns, as `Lookup` has it and
`Exits` shows for the threads behind it. In particular `Connected`, `Handshaken`,
`BannerRead` and `BannerEnds` are not fair: peers may stay silent. `ComesBack` is its
counterpart for the probes with a single attempt: what the process does without waiting, a call
whose time is over, what has been received, and the clock. `FairKindsSpec` is fair to whichever of the
two runs. Nothing of `Installer` is fair: its properties are about what a run has done, not
that it ends.

## 4. Proofs

### `MeshProofs`

About `Spec` of `Mesh`, for every finite set of vantages, every set
of reports, every sampling order `Before` and all values of the bounds. Assumed are
the ASSUMEs of `Mesh` (`VantagesAssumption`, `ReportsAssumption`,
`BeforeAssumption`, `BoundsAssumption`), nothing else.

| Theorem | Argument |
|---|---|
| `TypeCorrect` | `TypeOK` is inductive; `PushType` and `SampledType` bound what is recorded |
| `DirectionalTiersExclusiveCorrect` | follows from `TiersTrackHistory`: no history satisfies two expressions |
| `NeverAverageAndHighCorrect` | `TiersTrackHistory` is silent about suppressed tiers, so it needs its own invariant `PeersOkWitness`: HIGH in PROBLEM means `peers_ok` was 0 three times, AVERAGE that it was not. A new `peers_ok` value ends the stale period and has both evaluated; other samples leave it alone |
| `NoFingerprintNoAlertCorrect` | inductive invariant `FingerprintFree`: without a published fingerprint, none is among the verdicts, none in the last count, and no tier is up. The middle conjunct is what carries a step of `Sample` |
| `SettledShowsLadderCorrect` | `TiersTrackHistory` and lemma `SettledSelectsRow`: by `CountsAddUp` (every reporting vantage is OK or affected, and a fingerprint affects), the four expressions on settled counts select exactly the row of the table, for any mesh size |
| `OnlyUnavailableCounts` | from the above: the counterexample of `mesh_unavailable` takes a vantage whose verdict is `VANTAGE_UNAVAILABLE` now, nothing else violates `UnavailableExcluded` |
| `AgreementGrowsCorrect` | while the verdicts stand still, values that agree with the mesh stay, and each sample adds one (`PushAgrees`), up to what the triggers read (`AgreedIsSettled`) |
| `TiersSettleCorrect` | settled counts stay settled, a right tier stays right unless an operator interferes, a sample makes right every tier that reads it unless the stale trigger suppresses the evaluation, and a sample of `peers_ok` ends the suppression |

`TiersTrackHistory` is the auxiliary invariant that a tier whose last evaluation was not
suppressed is in PROBLEM exactly when its expression holds of what is on record. It holds
of any expressions, since a trigger is evaluated on each item that its expression
reads, and therefore is a lemma, not a result.

The last two of the table are what `LadderConverges` says step by step: no step leads away from the
table's alert and each sample leads towards it. What remains of it, that the samples go on
coming, is fairness.

### `MeshSteadyProofs`

About `SteadySpec`, for every finite set of vantages, every set of reports, every order of
the items and every assignment of offsets to probes. To the assumptions of `Mesh` comes
`OffsetsAssumption`, that no two calculated items of a tuple are taken at once: they are
items of their own, and the offset of an item in its delay follows from its id.

| Theorem | Argument |
|---|---|
| `TiersExclusiveCorrect` | by `SteadyInv`, see below; with it `ExpressionsExclude`: no two expressions hold of one history |
| `OneAlertCorrect` | step simulation of `AlertLadder`: a publication is a stutter, and a sample changes the alert only to or from "none" (`NoJumpOnSample`): two windows of three samples that follow on each other share two, which already decide between INFO, WARNING and AVERAGE, and against HIGH as well |
| `SteadyShowsLadder` | `SteadyInv` contains what `SettledShowsLadder` rests on |

INFO or WARNING and HIGH read different items, so neither types nor `TiersTrackHistory`
exclude the two. What does is the schedule: between two samples of `peers_ok` lies exactly
one of `affected` (`AffectedIsNext`, from `InOrder`), and each vantage publishes at most
once (`Frozen`: its probe does not run again before the next `peers_ok`). If both samples
of `peers_ok` found nobody OK, the one of `affected` between them found everybody affected:
a vantage that was OK at that moment had already published and would still be OK at the second
(`AllAffectedBetween`). HIGH has three samples of `peers_ok` without an OK behind it, hence two of
the last three values of `affected` are all vantages; INFO or WARNING have one or two
affected in all three and, by `AllCounted` and their `vantages_total` gate, more
vantages than that. The invariant was checked on instances before it was proved, with
`peers_ok` taken first and last.

### `HttpsProofs`

About `HttpsSpec`, for every set of addresses and networks, all timeouts and caps,
any number of follow-ups and reads. Assumed are `TimeAssumption`,
`AddrAssumption`, `HttpsAssumption` and `NetworksAssumption`.

The base is `HttpsInv`, inductive (`HttpsInvariant`): the types, with `ReadHasRoom` (a
read does not check again that the buffer has room; the loop head did), the
resolver's `ResolverInv` and `ResolvedFirst` (the probe leaves the resolve phase only
when the resolver has returned). `ResolverInv` has three parts: `SysStored` (what the
system thread has stored where it is), `StoredInTime` (after an answer in
time the caller is still waiting until everything is stored, because both joins
expire together and the clock stands while a thread computes) and `DohSnapshot` (what
the caller has read of the DoH answer is the last word).

| Theorem | Argument |
|---|---|
| `AnswerInTimeIsKeptCorrect` | from `StoredInTime` |
| `LieNeedsWitnessCorrect` | `LieOnRecord`; `LieSource` says that only `ResolveFailed` introduces the code, where `DohSnapshot` and `StoredInTime` give the two halves, which nothing disturbs after the resolve phase |
| `DiscriminatorPossibleCorrect` | `AttemptPossible`: what an open connection and a session prove of the network, carried from the attempt to the judgement |
| `HandshakeIsOKCorrect` | `StubIsForged`: no marker in the buffer of an unforged target; then the only way out of the scan is `Unwrapped` |
| `WorstCaseCorrect`, `FollowupsEndSoonCorrect` | `Clock`: a bound on the deadline of each phase. `WorstCase` needs twice the scan's minimum to fit into the timeout (0.5 s against timeouts of a second or more): both the scan and the shutdown after it may take that minimum; the general bound is `Limit` |
| `HttpsTypeCorrect` | from `HttpsInv` |
| `HttpsImplementsLookup` | step simulation: the steps of the threads and the joins are stutters, a tick is `Wait`, the step that returns (`StartCall`, `ReadErr`, `ReadIp`, `ReadMs`) is `Answer`, and `ReadMs` without a latency is `Raise`. It needs `Overtaking` (only a caller whose join has expired can be ahead of the system thread, and it reads the latency only after an address): otherwise `Raise` could come before the timeout |

### `CliProofs`

About `CliSpec`, the specification that run `probe` checks, for every set of invocations.
`CliImplementsHttps` (every step of a run is a step of the probe or leaves
it alone) carries the results above over: `RunKeepsProbePromises` (with
`KeepsLookupPromise`), `RunWorstCase`, `CliTypeCorrect`. `OneVerdictCorrect` rests on `LineAtExit` (nothing is printed before the
exit; the exit prints a verdict, loses it, or has status 1), which needs `VerdictGiven`
from `HttpsProofs`: a finished probe has a verdict. `DownVantageAccusesNobodyCorrect` rests
on `HeldBack`: such a run never gets past the control probe.

### `AppProofs`

About `AppSpec`, for every subset of the four kinds, all addresses, networks,
timeouts, caps and numbers of reads and follow-ups. Assumed are `LookupAssumption`,
`AppAssumption` and `NetworksAssumption`.

| Theorem | Argument |
|---|---|
| `AppTypeCorrect` | inductive with `BannerHasRoom`: a read starts only while the banner has room |
| `OkMeansThroughCorrect`, `FingerprintHasEvidenceCorrect`, `AppVerdictGiven` | `AppInv`: `AttemptInPlace` (which attempt can be at which call, on which address), `PathProven` (an open connection shows that the address is not blocked, a session that the SNI shown is not filtered and the certificate is the expected one, a code that its evidence was seen) and `VerdictProven`, the same of the target's verdict, which no follow-up changes |
| `SmtpsDiscriminatorPossibleCorrect` | from `AppInv` at the judgement of a follow-up |
| `AppWorstCaseCorrect`, `AppFollowupsEndSoonCorrect` | `Clock`: a bound on the deadline of each phase and attempt; `Multiples` does the arithmetic of products of the timeout, which the solver does not |
| `AppImplementsLookup` | step simulation with `LookedUp` (past the resolve phase the lookup has returned): a tick of a later call is `Elapse`, and no step of an attempt or follow-up touches the answer |

### `OneShotProofs`

About `OneShotSpec`, for every set of addresses and probes, all timeouts and waits, sizes,
windows, numbers of fragments and reads. Assumed are `OneShotAssumption` and `StreamAssumption`.

The base is `OneShotInv`, in four parts: the types; `InPlace` (which probe can be at which
call, with fragments left to send and reads to spare, and a verdict exactly at the end);
`OnRecord` (an open connection has seen no reset, nothing is pushed after a reset, a datagram is
there only from the wait for it on, and that wait has its whole time); `Judged` (the four properties
of a verdict, inductive together with the rest).

| Theorem | Argument |
|---|---|
| `OneShotTypeCorrect`, `OkMeansPushedCorrect`, `ResetHasEvidenceCorrect`, `SilenceIsWaitedOutCorrect` | from `OneShotInv` |
| `ResetClassifiedCorrect` | from `OnRecord` and `Judged`: between the reset and the call that notices it nothing more is pushed, unless the write came before the reset |
| `OneShotWorstCaseCorrect` | `Due`: a bound on the deadline of each call, for https-bytes in terms of what has been pushed, for tls-frag of the reads and of the fragments still to be sent (`FlightDue`); `DueFits` and `DueStep` carry it over a step, `Products` does the arithmetic of products |
| `OneShotVerdictGiven` | `CodeStep`: a code is one of those these probes give, and by `InPlace` a run that is done has one |
| `OneShotImplementsLookup` | as `AppImplementsLookup`, with `Answered`; a run of wg-handshake without its keys is over before the lookup returns |

### `KindsProofs`

About `TspuSpec`, for any number of canaries and changes of the path and any set of settings (`TspuAssumption`,
`SettingsAssumption`). `TspuInv` is the types with `Caused` (each blocked canary
is an obstructed one among those probed, or has a change of the path to itself) and
`Counted` (what the verdict says of the counts). `ActiveHasCauseCorrect` follows from the
first by counting; `UnanimityActiveCorrect` from the second with `QuorumWithin`: no
setting asks for more than all canaries, but for a single one and the default.
`CeilDivBounds` is the arithmetic of the ratio.

About `KindsSpec`, the specification that run `app` checks, under the assumptions of its
parts and `KindsAssumption` (each family has a member; that the parts out of use
have a type needs it). `KindsImplementProbes`: a run of `OtherKinds` keeps
`AppSpec`, `OneShotSpec` and `TspuSpec`, each unless that probe is not the one that runs,
and then it is over for good. The results above thereby hold of every run
that main dispatches: `KindsKeepAppPromises`, `KindsKeepOneShotPromises` and
`KindsKeepTspuPromises` are together all the invariants of the run `app`.
`NobodyElseSaysUnavailable` is what `DpiProbe` assumes in `OtherReport`.

### `InstallerProofs`

About `InstallerSpec`, for every set of versions, interpreters and their successors, files,
directories and hosts (`InstallerAssumption`). `InstallerInv` is the types with `Equipped` (a run
has a version, an interpreter and a directory from the steps on that find them), `VenvHistory` (how link, pip and dependencies of the venv can
stand to the interpreter the host has now: it is always later than what they
were made for, or the same), `RunHistory` (what the run has put in place at each step:
files, entry, shebang, link, permissions) and `RerunRepairs` itself. `CompletedIsUsableCorrect` follows from
`RunHistory`, `KeepsWorkingCorrect` from `VenvHistory` for the steps before deployment. That the first of the known directories
exists (`FirstOfSet`) uses that a non-empty finite set of positions has a
least one.

### Only model-checked

Liveness (`LadderConverges`, `Exits`, `AppEnds`, `OneShotEnds`), which with ENABLED is out
of the prover's reach. The safety half of `LadderConverges` is proved (`AgreementGrows`,
`TiersSettle`), and that of the other three is that a bound on the clock holds (`WorstCase`,
`AppWorstCase`, `OneShotWorstCase`). Every invariant and action property of a passing run, and
both refinements, is a theorem. Nothing proved here depends on a recursive definition, whose values
for all inputs the prover could not establish.

## 5. Divergences met while modelling

Six have a run (section 3, and "findings" in PROJECT.json). Others, without one:

* README.md:118-122 draws "DoH differs from the system's address" as DNS_LIE; the
  code treats a mismatch as information only (probe_https.py:107-109).
* A stub page read in part is forgotten when a later read times out
  (probe_https.py:366), and such a target is OK.
* For a host that DNS poisoning sends to a stub or to another certificate, the wrong-SNI
  attempt on the same address succeeds first, and the discriminator is `sni_based`
  (probe_https.py:286-295). `DiscriminatorPossible` therefore says only what a
  discriminator rules out.
* A DNS_LIE found by timeout leaves no budget for the DoH follow-ups: it is
  `inconclusive`. `ip_based` is declared, and no probe assigns it.
* A line that cannot be written is lost with status 120, not 0 as the comment at
  dpi_probe.py:68-70 has it: `_emit` passes over the error, and the interpreter's own
  flush at its exit fails again. Only when standard output is closed from the start is
  the status 0 (`Emit` has both).
* A silent vantage's last verdict stays in the aggregator's counts until the item is
  disabled or removed.
* `PORT_FILTERED` and `TCP_RST_HANDSHAKE` are described as outcomes of the TCP handshake
  (verdict.py:15,27, README.md:299,310), but smtp, ssh and rdp also give them when a
  connection was accepted and the banner did not come (probe_smtp.py:180-188,
  probe_ssh.py:71-86, probe_rdp.py:106-120).
* `timeout` of probe_rdp.py:38 is "total budget"; each call has the whole of it
  (`AppWorstCase`). The branches for `TCP_RST_MID_STREAM` at probe_smtp.py:173 and
  probe_rdp.py:108 cannot be reached: nothing has been read there.
* The wrong-SNI follow-up of smtps does not pass `expect_banner_prefix` on. The command
  line never sets it, so this has no effect today.
* `--control-only` calls `probe_control` outside main's try (dpi_probe.py:170): what that
  does not catch, such as a host name that cannot be encoded, ends the run with a traceback
  and status 1, where dpi_probe.py:5-6 says "Always exits 0".
* A peer that hangs up without a close_notify in the middle of a push is
  THROTTLE_DETECTED when a later write notices it (`WriteBreaks`), and so is one whose
  reset comes before its close_notify has been read. test_probe_https_bytes.py:192 says
  "Clean close mid-stream must NOT be classified as THROTTLE_DETECTED".
* The reason of an OK of https-bytes is "pushed 65536B without RST" also when the peer
  closed earlier (`OkMeansPushed` has both cases).
* https-bytes and tls-frag set `sni_based` on a reset or a timeout without a wrong-SNI
  attempt (README.md:341-347 defines it by one). A slow lookup or connect leaves tls-frag only
  the floor of 1 ms for its read, after which the SNI is accused (`SilenceIsWaitedOut`
  counts from the start, not from the ClientHello).
* openvpn over TCP, which the command line does not reach, gives TCP_RST_MID_STREAM for a
  reset of the connect, and TCP_RST_HANDSHAKE for a length of which one byte came alone.
* wireguard and wg-handshake index an empty datagram (probe_wireguard.py:166,
  probe_wg_handshake.py:131,135), which ends in ERROR_INTERNAL. The clause of wg-handshake for
  ConnectionRefusedError has nothing to catch on a socket that is not connected; the
  model keeps it.
* TSPU_BYPASS_OK and WG_HANDSHAKE_PASS, the good outcomes of their kinds, are not "OK" and are
  counted in `dpi.affected`; THROTTLE_DETECTED is not among the fingerprints of
  `discriminator_any`.
* A canary whose probe raises ends the tspu-liveness run, whatever the others gave. The
  template says "at least two canaries" (dpi-mesh-blocking-detection.yaml:300); an override may
  make it one, and five canaries need three. With one canary and no override the quorum of two cannot be met.
* deploy/README.md:66 lists Debian 11, where the installer ends for want of a Python 3.11 unless one has
  been installed by other means (`InstallPython`, `EnsureVenv`).
* deploy/README.md:58 calls a re-run safe: after the distribution has dropped the interpreter of the
  venv none succeeds until the venv is removed by hand (`RerunRepairs`). Line 42 says "no
  pip packages", and cryptography is installed.
* "Catches import failures" (install-prober.sh:335): `--help` does not import the kinds
  that are loaded lazily, nor cryptography.
* deploy-to's smoke test ignores `EXTERNAL_DIR` (deploy-to.sh:126-154), so that a deployment
  by that override (deploy/README.md:45) may be rejected after it succeeded.

## 6. Not modelled

* The logger (it suppresses its own failures), the WireGuard key exchange
  (`wg_crypto.py`: cryptographic data without control), wording and layout of the JSON
  line, dashboards, tests and packaging.
* The clock of the control probe: its host is looked up inside `connect()`, which no
  socket timeout bounds when the host is a name.
* The vantage's own stale trigger, target discovery.
* The clock of a tspu-liveness run: how long all the canaries take together.
* `frag_size` and the parameters of https-bytes beyond their constants: the command line
  does not set them.
* In `Installer`: two runs at once, a probe that starts while files are replaced, the log
  file, and what precedes a run (the checks of the download, rsync, the clone). Nothing locks the tree, and
  the code promises nothing for the moment in which files are copied.

## 7. Plan

Done: `Verdicts`, `Mesh`, `MeshSteady`, `AlertLadder`, `Resolver`, `HttpsProbe`, `DpiProbe`,
`Lookup`, `AppProbe`, `OneShot` with `DatagramProbe` and `StreamProbe`, `TspuLiveness`, `OtherKinds`,
`Installer`, and the proofs about all of them. Next, in this order:

1. `MeshStale`: the vantage's nodata trigger and its last value in the counts.
2. `Discovery`: the expansion of `{$DPI.KINDS}` and the LLD filters; every tuple a
   vantage probes is one the aggregator watches.
