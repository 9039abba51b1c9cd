# A TLA+ verification project for sonic-formal-infra

The repository tests the BGP daemon of FRRouting against executable models:
Python models say what RFC 4724 (graceful restart), RFC 4271 (route selection),
RFC 7606 (error handling) and bgpd's nexthop tracking require; generators derive
test cases from them; runners replay the cases over TCP against a live daemon
and compare what they observe. A wrong model gives wrong verdicts, and a wrong
runner gives wrong verdicts now and then, which is worse. This project states
what makes both right, model-checks it with TLC and proves the part that can be
proved with TLAPS.

Paths below are relative to the repository; `M/` stands for
`models/bgpd/malformed_packets/` and `X/` for `examples/bgpd_nexthop_mgmt/`.

## 1. Inventory

### Components, their state and their operations

| Component | State | Operations | Modules |
| --- | --- | --- | --- |
| GR reference model (`M/gr_model.py`) | `GrState`: absent/active/stale per route, `gr_enabled`, `connected` | `step` (8 events), `enabled_events`, `checked_step`, `check_bounded_invariants`, `generate_traces` | `GrModel`, `GrHistory`, `GrProofs` |
| Generated GR runner (`M/gr_stateful.py`) | the reference state, a socket, the result of the trace, the poll of `observe_gr` | `run_generated_scenarios`, `run_generated_trace`, `observe_gr`, `_connect`, `_send`, `validate_packet` | `GrExec`, `GrProofs`, `MCGrExec`; `Packets` |
| Directed GR scenarios (`M/gr_stateful.py`) | as above, per scenario, and the checks so far | `run_scenarios`, `run_scenario` (six scripts), `_check` | `GrScenarios`, `MCGrExec` |
| Route reference model (`M/route_model.py`) | `State`: a candidate per peer and prefix | `step`, `winner`, `check_properties`, `explore` | `RouteModel`, `LabProofs` |
| Route lab (`M/route_stateful.py`) | three sessions, the observer's routes, the poll of `converge`, the report | `Lab.__init__`, `pump`, `converge`, `reset`, `run_report` | `RouteLab`, `LabProofs`, `MCRouteLab` |
| Route wire adapter (`M/route_wire.py`) | receive buffer, handshake flags and routes of a `Peer` | `feed`, `parse_update`, `update`, `decode_update`, `oracle_transition` | `PeerMessages`, `PeerPromise`, `PeerStream`, `PeerProofs`, `MCPeerStream`; `Builders`, `Packets` |
| Nexthop model (`X/api_bgp_nh_update.py`) | `rib`, `nexthop_cache_table` | `api_bgp_nh_update`, `invariant` | `NexthopTables`, `Nexthop`, `NexthopPromise`, `NexthopProofs`, `MCNexthop` |
| Nexthop test generation (`X/crosshair_target.py`, `X/format_tests.py`) | none: seeds in, canonical cases out | `_dedup_rib_seed`, `_build_cache_seed`, `canonicalize` | `NexthopSeeds`, `NexthopProofs` |
| UPDATE suites (`M/run_parity_fuzzer.py`, `M/frr_backend.py`) | `BgpSession.sock`, the prefix counter, the tally, the discrepancies | `run_update_suite`, `ensure`, `invalidate`, `send_update_and_monitor`, `check_if_route_installed`, `evaluate_case` | `ParityTables`, `ParityRunner`, `ParityProofs`, `MCParityRunner` |
| Handshake (`M/run_parity_fuzzer.py`) | receive buffer, `got_open`, `got_keepalive` | `perform_bgp_handshake` | `ByteStream`, `Handshake`, `HandshakeProofs` |
| OPEN suites and orchestration (`M/run_parity_fuzzer.py`) | the plan, the tally, the discrepancies, the report | `run_opencap_suite`, `execute_comprehensive_suite`, `record_stateful_results` | `Campaign`, `CampaignProofs`, `MCCampaign` |
| RFC oracle (`M/bgp_oracle.py`) | `final_result` and the four `seen_...` flags, within a call | `parse_attributes`, `scan_as_path`, `parse_capabilities` | `OracleBytes`, `Oracle`, `Packets`, `OracleProofs`, `MCOracle` |
| Packet builders (`M/packet_builders.py`, `M/graceful_restart.py`, parts of `M/run_parity_fuzzer.py` and `M/route_wire.py`) | none | builders of UPDATEs and of the parameters of an OPEN; reading attributes back | `Builders`, `Packets`, `OracleProofs` |
| Suite generators (`M/seed_structural_suites.py`, the corpora of `M/graceful_restart.py` and `M/route_model.py`) | none | enumeration of spaces, selection, files | `SuiteSpace` (the spaces) |
| Coverage tools, lab scripts, C++ test reader | none | lcov, Docker, JSON | not modelled |

### How they interact

* `generate_traces` and `explore` walk the reference models and hand shortest
  traces to the runners. A runner keeps a reference state beside the daemon and
  moves both by the same events.
* The runners and the daemon share nothing but TCP connections. Every session is
  opened by `perform_bgp_handshake` (or, in the route lab, by `Peer`), and the
  RIB is read out of band by `vtysh` (`FrrBackend.paths`).
* A packet is judged before it is sent: the oracle's verdict becomes the
  expectation (`expected_observations`, `oracle_transition`). What is judged are objects
  that the builders return beside the bytes (the suites), or what is read back from
  the bytes (the lab).
* CrossHair invents arguments; the coercion of `crosshair_target.py` makes
  admissible states of them; the nexthop model gives the expected answer.
* `execute_comprehensive_suite` runs the suites one behind the other against one daemon:
  they share its state, the address it knows the tester by, one prefix counter and one tally.
  `record_stateful_results` and `evaluate_case` collect all outcomes in one report, whose
  figures decide the exit status.

### What is hard

* **Asynchrony.** The daemon handles a message, tears down a session, selects a
  path, exports it, and shows all this in its RIB at moments of its own. The
  runners bridge this by polling until the RIB agrees *twice in a row*, by
  deadlines, and by sleeps.
* **Torn reads.** A poll reads one prefix after the other, and the lab compares
  the RIB with exports received earlier.
* **Isolation.** Traces and cases share a daemon; what one leaves must not be
  taken for the work of the next, also after failures.
* **Partial failure.** Connections break, handshakes fail in the middle, `sendall`
  succeeds on a dead connection, a clean-up fails after the trace it cleans up.
* **Framing.** TCP cuts messages anywhere; an OPEN or a path attribute can end anywhere.
* **Combined faults.** Many things can be wrong with one UPDATE; the verdict is for all of them.
* **Suites in a row.** A suite can meet the session that the suite before it left, count twice or
  not at all what failed outside of a case, or announce a prefix that another still has.
* **Two pictures of a packet.** The bytes and the objects that are judged are built side by
  side; a fill, a cut or a default that only one of them has makes the verdict one of another packet.
* **Coercion.** A test case is only worth something if coerced inputs are
  admissible, and duplicates are recognised only if coercion is stable.

### What makes each component right

* GR model: the helper holds a route for a reason (`HeldForAReason`), exactly as
  long as RFC 4724 lets it (`RetentionExact`), and each loss can be seen in the
  RIB (`LossIsObservable`).
* GR runner: traces start on a clean daemon (`CleanStart`), never reconnect
  into the old session (`NoSessionCollision`), go on only when the daemon is where the model is (`Agreement`),
  pass only for a conforming daemon (`PassedIsConformant`), fail no conforming one
  (`NoFalseAlarm`), and end (`SuiteEnds`).
* Directed scenarios: likewise `PassedIsConformant`, `NoFalseAlarm` and
  `SuiteEnds`, and no scenario starts with what an earlier one left (`IsolatedStart`).
* Route model: the winner is the one that path selection, told criterion by criterion, arrives at
  (`DecisionIsWinner`); `NoFalseAlarm` of the lab rests on it.
* Route lab: `Agreement`, `Isolation`, `PassedIsConformant`, `NoFalseAlarm`, `RunEnds`.
* Session of the lab: every whole message is handled (`NothingLeft`), the routes are the last word on
  each prefix wherever the stream is cut and wherever it raises (`KeepsPromise`), and no conforming
  daemon is refused (`NoFalseAlarm`).
* Nexthop model: `Invariant`, `MessagesSound`, and the promise to zebra (`KeepsPromise`).
* Seeds: `Admissible`, `Idempotent`, `FirstWins`.
* Handshake: `SeenWhatCame`, `ResultsAreTrue`, `HandshakeEnds`; `FalseMeansIncomplete` fails, see section 6.
* UPDATE suites: `InstalledIsOwn`, `JudgedRight`, `NoCollision`, `SuiteEnds`.
* Campaign: `BooksBalance`, `ExitIsTrue`, `NoCollision`, `PrefixIsOwn`; `EveryCaseItsOwn` fails, see section 6.
* Oracle: `VerdictIsMostSevere`, `VerdictIsRequired`, `OnlyDuplicatesReset`, `OpenVerdict`;
  `FlagConflictsWithdraw` fails, see section 6.
* Builders and oracle together: `WireIsJudged`, `AdapterAgrees`.

## 2. The modules

```
GrModel ──── GrHistory ──────────────┬─ GrProofs
   └─────── GrExec ─ GrScenarios ─────┴─ (GrProofs), MCGrExec
RouteModel ─ RouteLab ───── LabProofs, MCRouteLab
NexthopTables ─ Nexthop ─── NexthopProofs, MCNexthop
   │               └ INSTANCE NexthopPromise
   └─────── NexthopSeeds ── (NexthopProofs)
PeerMessages ─ PeerStream ─ PeerProofs, MCPeerStream
   │               └ INSTANCE PeerPromise
   └─────── PeerPromise
ByteStream ── Handshake ── HandshakeProofs
ParityTables ─ ParityRunner ─ ParityProofs, MCParityRunner
   └─────── Campaign ────── CampaignProofs, MCCampaign
OracleBytes ── Oracle ───── Packets ─┬─ OracleProofs
   │                          │      └─ MCOracle
   └─────── Builders ─┬───────┘         │
                      └─ SuiteSpace ────┘
```

**GrModel** is `gr_model.py`. The operators `Learned`, `Disconnected`,
`ReconnectedKeeping`, `ReconnectedClearing`, `Swept` and `Notified` are the branches
of `step`; the guards `Can...` are `enabled_events`. `WalkSpec` is every walk of
`step`, whatever the state (`check_bounded_invariants`), and `Spec` the walks along
enabled events (`generate_traces`). The set of routes is a parameter.

**GrHistory** adds history variables to the walks: how many sessions were lost since
a route was last heard, and whether the helper was told to clear since the last loss.
They let `Held` say what RFC 4724 allows in terms of *when* a route was learned,
independently of the three-valued state of the code.

**GrExec** is the live runner of the generated traces. `pc` is where
`run_generated_trace` is; `state` and `after` are the code's variables of that name;
`sock` is whether the socket is not `None`; `seen` and `matched` are a poll of
`observe_gr` in progress and its `stable`. A connection is a queue of messages (`inbox`)
that ends with a `close`, and a flag that it still carries anything (`link`). The daemon
(`up`, `dgr`, `table`, `left`) is external: it is what the runner expects,
with `GrModel`'s own operators, or, in a mode with faults, what a non-conforming one does.
`table` holds the prefixes of the current trace, `left` the states of routes of
earlier traces. One action is one call that can be overtaken by the daemon: a
`sendall`, the short `recv` of `_send`, one `vtysh` query, one sleep. `BeginTrace`
lets the trace be any sequence of enabled events, a superset of the 33
generated ones; timer events occur only in traces that were given a short restart time.

**GrScenarios** is `run_scenario`. A scenario is a sequence of operations, written in the order of the
code's statements under its conditions; `at` is the next one. They act on the daemon and the connection of `GrExec`
with its own actions for what is the same code (`_connect`, `_send`). A check is up to as many queries
as `check_if_route_installed` makes. `run_scenarios` goes on after a failed scenario,
where the generated traces stop. `SSpec` has the steps of both, and the mode says which of them run.

**RouteModel** is `route_model.py`; **RouteLab** is `Lab` and `run_report`. Candidate
routes travel in per-peer queues (`inbox`), the daemon handles, selects (`dirty`, `best`)
and exports (`exported`, `outbox`) in separate steps, the observer receives in `Pump`. The daemon selects by an
account of its own (`Decision`: the shortest, among them the best ORIGIN, among them the lowest router ID), not by the model's `winner`.
`converge` is `Pump`, one `ReadRib` per prefix, then `PollAgain`, `ConvergeOk` or `ConvergeRaises`.

**PeerMessages** is what `Peer.feed` and `parse_update` tell apart: kinds of messages, whether each is good, and
what the body of an UPDATE says. **PeerStream** is `Peer.feed` under `Lab.pump`. Of the bytes received it keeps two things:
how many messages are whole, and whether the next header is there, since marker and length are checked
before the body has come; one action is one chunk (`Receive`) or one round of the loop in `feed`. **PeerPromise** is a
receiver of whole messages, one at a time, without buffer or flags: after `taken` messages the route of each prefix
is `LastWord`. `PeerStream` implements it with `taken <- handled`, `view <- rib` and the session read off the flags.

**NexthopTables** has the two tables and `invariant`; **Nexthop** the call, as the
two actions `Nothing` (the early returns) and `Reevaluate` (the rest of the body, in
one step, since nothing interrupts it). **NexthopPromise** is the abstract
specification: without cache, messages or early returns, the route zebra has for a
prefix goes over exactly the nexthops that are up. `Nexthop` implements it under the
mapping `up <- Valid(nexthop_cache_table)`, `installed <- fib`.

**NexthopSeeds** grows the two generated lists entry by entry and states what the
coercion promises about every pair.

**ByteStream** describes a peer's messages by type and length, positions in bytes.
**Handshake** is `perform_bgp_handshake` on it: `recv` returns any number of the bytes
that are there, the deadline or a timeout may come at any moment, the second loop is as
the code has it, and any call can raise. `r_len < 19`, wrong markers and buffers over
64 KiB cannot occur with a peer that speaks BGP, and are not modelled.

**ParityTables** has the observations and what each verdict allows. **ParityRunner** is `run_update_suite` with the session it reuses. A case is its
verdict and whether it has IPv4 NLRI. `effect` is the history of what the daemon did
with the UPDATE of each case. `Chat` is anything else the daemon sends (`chat`: some of it waits to be received): it tells
the runner nothing, but the receive loop goes round once more for it (`MonitorOther`), and ends by silence only while there is
none (`MonitorTimeout`).

**Campaign** is `execute_comprehensive_suite`. A case, a scenario or a trace is one step with any outcome that its suite
can have (the modules above say which); what is kept is what the suites share: the session (`sock`, `held`), the prefixes
(`used`, and whether one was announced that had been announced before: `reused`, or even `borrowed`, if it is
then looked up in the RIB), the sleeps (`Rest`), the tally and its way into the report and the exit status. An
UPDATE suite and an OPEN suite differ in when the session ends, the stateful ones in how a failure becomes
a result (`Results`, `record_stateful_results`). What an UPDATE announces is `Reachable`: its own prefix where it has IPv4 NLRI,
and in the mpreach suite nothing or `MpReachPrefix`, the constant 10.16.1.0/24 that `_well_formed_nlri` puts in every
MP_REACH_NLRI for IPv4 unicast with a well-formed NLRI.

**OracleBytes** has what the oracle reads byte by byte: recursive functions of a position, one call for
each round of the code's loops. Beside them stand the grammars they ought to decide, as a reference:
a path, a parameter list and a list of capabilities are pieces one behind the other, for *some* set of
cuts. **Oracle** is `parse_attributes` as a machine: `ParseAttribute` and `DiscardDuplicate` are a round of
its loop, `CheckMandatory` what follows the loop; `ParseOpen` is `parse_capabilities`, in one step. The
faults of a round are a set, folded into `final_result` at once. `value=None` is the empty set of values,
`impl_choice=None` the choice `IMPL_CHOICE`, and the two bits of `flags` that are read are Booleans.
`Required` says a second time what is to be done, by aspect instead of by type: a rule on flags, one on lengths, one on contents,
each for all types, and AS paths by their grammar. The rules are those that the comments of the code cite. What is independent
of the branches is the shape; which types are discarded when their *length* is wrong (`DISCARDED`) is taken from the comments at
the types, and is no second reading of the RFCs (type 22 has no comment; RFC 9234 itself asks for treat-as-withdraw where
the comment at type 33 names the default of RFC 7606). For *flags* the rule is the one quoted at lines 285-286, which
five branches do not follow: `Lenient` names them, `VerdictIsRequired` excepts them, `FlagConflictsWithdraw` does not.

**Builders** has the builders as operators from the arguments of a case to path attributes and to bytes, and
`decode_update_attributes` back. **SuiteSpace** has the spaces of arguments. **Packets** has the cases, a builder with its
arguments (`Arguments` are all that it can have), and starts the oracle on what the builder returns: the UPDATEs of the
suites and the lab, the route and the OPENs of the graceful-restart runners (`_route`, `_gr_open`, `validate_packet`). It
states that reading the bytes gives the attributes that were judged, and the event that was meant. `Sendable` is
what `struct.pack` accepts: each length fits in its field, as does the length of the message.

**Modes.** The three runners can be run in several ways: with observations or for
coverage only, against a daemon that is in time or late, with faults or without. A
`mode`, chosen from the constant `Modes` in the initial state and never changed, says
which, and bounds the run; a property that needs a mode has it as its condition.

**MCGrExec**, **MCRouteLab** and **MCParityRunner** list the modes that TLC explores;
**MCNexthop** runs `Nexthop` and `NexthopSeeds` side by side and adds the symmetry of prefixes and addresses; **MCPeerStream** has the scripts, **MCCampaign** the
command lines and **MCOracle** the packets.

## 3. What TLC checks

| Run | Shows | Bounds |
| --- | --- | --- |
| `gr_walk` | `RetentionExact` for every walk of `step` | 3 routes; complete |
| `gr_exec` | see the table of modes | 2 routes, 3 traces of 5 events; all six scenarios |
| `route_lab` | see the table of modes | 2 prefixes, 2 path lengths, 2 ORIGINs |
| `nexthop` | `Invariant`, `MessagesSound`, `KeepsPromise`; `Admissible`, `Idempotent`, `FirstWins` | 2 prefixes, 3 addresses, lists up to 2 entries of up to 2 nexthops, cache up to 3, 2 cache tuples; complete |
| `handshake` | `SeenWhatCame`, `ResultsAreTrue`, `HandshakeEnds` | every script of up to 3 messages, every cut |
| `handshake_late_keepalive` | `FalseMeansIncomplete` is violated | the same |
| `parity` | see the table of modes | see the table of modes |
| `oracle` | `VerdictIsMostSevere`, `VerdictIsRequired`, `OnlyDuplicatesReset`, `OpenVerdict` | one attribute of each type with each flags and 10 lengths; every AS path up to 5 bytes of 5 values; lists up to 4 of 8 attributes; OPENs of up to 2 parameters with up to 2 capabilities; 4 contexts; and what the suites build, see below |
| `oracle_flag_conflicts` | `FlagConflictsWithdraw` is violated | the same |
| `peer_stream` | `NothingLeft`, `NoFalseAlarm`, `KeepsPromise` | every script of 2 messages, also behind a handshake; 2 prefixes, 2 values; every cut |
| `campaign` | `BooksBalance`, `ExitIsTrue`, `NoCollision`, `PrefixIsOwn` | every suite name, live, dry, for coverage, without a local daemon; up to 1 case a suite, 9 prefixes |
| `campaign_mpreach_prefix` | `EveryCaseItsOwn` is violated | the mpreach suite alone, 2 cases |

The modes, and the properties that say something in each:

| Run | Mode | Daemon | Bounds | Properties |
| --- | --- | --- | --- | --- |
| `gr_exec` | `AnyTiming` | late, 2 broken connections or handshakes | | `CleanStart`, `NoSessionCollision`, `Agreement`, `SuiteEnds` |
| | `Faulty` | late, both faults | | the same and `PassedIsConformant` |
| | `InTime` | conforming, in time | | the same and `NoFalseAlarm` |
| | `Directed(m)` for each | as `m` | 6 scenarios | `IsolatedStart`, `SuiteEnds`, and as `m` says `PassedIsConformant` and `NoFalseAlarm` |
| | `Covering` | in time, not observed | | `CleanStart`, `NoSessionCollision`, `NoFalseAlarm`, `SuiteEnds` |
| `route_lab` | `AnyTiming` | late | 1 trace of 2 events, 2 prefixes, 2 rival routes | `Agreement`, `Isolation`, `RunEnds` |
| | `Breaking` | late, 1 break | 1 trace of 2 events about one prefix | the same |
| | `Covering`, `Hurrying` | the same (`Hurrying`: no break), RIB not read | 2 traces of 1 event; of 2 events | `Isolation`, `RunEnds` |
| | `InTime` | conforming, in time | 1 trace of 3 events; also any of 4 routes of one prefix | the same, `Agreement`, `NoFalseAlarm` |
| | `Faulty` | in time, three faults | the same | `Agreement`, `PassedIsConformant`, `RunEnds` |
| | `Worst` | late, three faults, 1 break | 1 trace of 1 event | `Isolation`, `RunEnds` |
| `parity` | `AnyTiming` | late, 1 broken connection or handshake | 3 cases of 3 verdicts | `InstalledIsOwn`, `SuiteEnds` |
| | `Faulty`, `Covering` | late, 1 break, does anything | 2 cases of 2 verdicts | the same |
| | `InTime` | in time, does anything | 2 cases of all 6 verdicts | the same, `JudgedRight`, `NoCollision` |

`oracle` starts further from what the suites and the lab send (`WireIsJudged`, `AdapterAgrees`): every
point of the AS_PATH and MP_REACH spaces and of the OPEN corpora, the legacy suite over its flag classes,
eight types, five declared lengths and three payloads, each event of the lab, and the route and every OPEN of the
graceful-restart runners.

Types are not model-checked where they are proved, which is in every module of proofs (`Types` or `TypeOK`, and
`HTypes` of the handshake).

**Why the bounds are enough.** No generated GR trace has more than five events, and
the code uses two routes. Two traces are the least that can disturb each other; three let the
leftovers of one pass through another. One break shows each place where a connection can
break, two let the clean-up of a broken trace break as well. Route traces are short because a
single event is what `converge` compares before and after. The rival routes of the lab are a shorter path with a worse ORIGIN, and a
longer one with a better: each criterion decides somewhere, and in the right order. Two updates of the nexthop
tables reach every state, since the reachable states are the admissible ones; two entries and two tuples
of a seed are the least among which a first one can win, and the theorems of section 4 are for any number. Three
messages hold an OPEN, a KEEPALIVE and one that comes between, before or after. Two
messages behind a handshake are one that goes before and one that raises or follows. Three
cases let the RIB of one case outlive a second one. In the oracle attributes interact only by
the maximum of their severities and by their types being there already, for which lists of four are
enough, and the proofs do not depend on it; a path of five bytes holds a segment of 2-byte
AS numbers and the beginning of a second one, AS4_PATHs one or two AS numbers of four bytes.
In a campaign the suites meet only at their boundaries, so one case each (or none: a missing file) is enough for
every pair of neighbours; `Space`, `StateBase` and `GeneratedBase` are the 65536, 55000 and 60000 of the
code, made as small as four UPDATE suites of one case, a scenario and a trace allow, and `MpReachPrefix`, 4097 in the code, is
then the prefix of a case of an earlier suite.

**Two modes of time.** In a mode that is not `patient` deadlines and sleeps can end at any moment, so
nothing is assumed about the speed of the daemon: the safety properties that must hold
whatever the timing (`CleanStart`, `Agreement`, `Isolation`, `InstalledIsOwn`, ...) are
checked so. In a `patient` mode a deadline or a sleep ends only when the daemon has
done what it can; this is what the constants of the code (3s, 4s, 0.2s, 0.3s, 0.15s)
are meant for, and the claims about verdicts (`NoFalseAlarm`, `JudgedRight`, `NoCollision`,
and `PassedIsConformant` of the lab) need it.

**Fairness.** The daemon goes on handling what it received. The runner goes on: its
sockets have timeouts (3s, 0.3s, 2s) and its queries too (5s), so each call
returns or raises; and each deadline passes, so the action that raises at a deadline is weakly fair by
itself (`ObserveRaises \/ FinalRaises`, `ConvergeRaises`, `LoopEnds`). Every poll of
the lab begins by receiving what has come (`pump`), hence the strong fairness of `Pump`. Nothing
assumes that an observation ever succeeds or that a connection breaks.

The receive loop of `send_update_and_monitor` (`M/run_parity_fuzzer.py:365-379`) has no deadline: it ends by 0.3s of silence or
by the end of the connection. `ParityRunner` does not assume that the silence comes. Fair is only that `recv` returns with
what there is (`Listen`), and `SuiteEnds` has the rest in its statement: the suite ends, *or* messages that are no NOTIFICATION keep
coming for ever. A daemon whose KEEPALIVEs are a minute apart does not do this; a peer that sends something
every 0.2s would hold the suite for ever. The same loop ends `_send` of the GR runner (with 0.01s) and `run_opencap_suite`; `GrExec` and
`Campaign` take it as a call that ends.

**What the runs leave open on purpose**, each visible as a condition of the property:

* A GR trace with a timer event has a restart time of 2s and observations of up to 3s: the
  timer can repair a fault before the poll gives up. A broken connection can repair one as well.
  Hence `~timed` and `breaks = 0` in `PassedIsConformant` and `Agreement`.
* In coverage mode nothing is observed; `CleanStart` and `NoSessionCollision` then depend on the sleeps alone.
* An event that changes neither the best path nor the export agrees at once; the lab notices a
  fault only within its 0.2s of stable agreement.
* The scripts of `Handshake` are finite, so `HandshakeEnds` does not speak of a peer that sends messages for ever: the first
  loop has a deadline for that, the second only a timeout for each `recv`.
* A reset that the daemon makes later than 0.3s after an UPDATE is met by the next case. `JudgedRight` excludes it by its condition
  (`PATIENT`), and without this condition only `InstalledIsOwn` and `SuiteEnds` are claimed.
* The suite of generated traces stops behind a trace that fails, so `CleanStart` says nothing of what a failed
  trace leaves to the suites behind it.
* An error of the RIB query in `check_if_route_installed` ends the whole run of the UPDATE suites
  without a report (`PollRaises`); `SuiteEnds` counts this as an end.

**Mutants.** Every property of a passing run is violated when one definition is replaced by
a plausible bug (the definitions marked so in the modules, paired with their originals in
`PROJECT.json`).

## 4. What is proved

TLAPS proves for all values of the constants:

* `GrProofs`: `WalkTypeCorrect`, `TypeCorrect`; `RoutesAreHeldForAReason`; `LossesAreObservable`;
  `RetentionIsExact`. Assumption: none beyond a set of routes. The
  second and third are properties of the model alone, and no run repeats them. Traces are walks
  (`TracesAreWalks`), so invariants of `step` carry over. `RetentionExact` alone is
  not inductive: from a state in which a route counts as heard while the session is down, a
  disconnect, which then changes nothing, would leave it active. The inductive invariant `HInv`
  adds `HeardOnlyConnected`; the step is proved route by route (`RouteStep`), with one case per event.
  `LossesAreObservable` is an action property: it follows from the types and from the guard that
  some route is present, since a loss never leaves a present route as it was (`LossChangesRoute`).
  The same module proves the live runner of the generated traces, for any routes, modes, bounds and number of traces:
  `TracesStartClean` (`CleanStart`), `ReconnectsFindNoSession` (`NoSessionCollision`), `ModelsAgree` (`Agreement`), `FaultsAreNoticed`
  (`PassedIsConformant`) and `NoTraceFailsWrongly` (`NoFalseAlarm`). The invariant `XInv` has a conjunct for each thing the
  runner relies on at each place. `Agreement` says something when an event was observed only, so the invariant says all along what the
  messages under way still do to the daemon's routes: nothing between events (`InStep`); behind an announcement or an End-of-RIB the last
  message moves them from the old state to the new, and no other moves them (`Sending`, `OneMove`); behind a close nothing moves them until
  the close is handled (`Closing`). `Clean` keeps messages of earlier traces out of the queue, `Finishing` makes the two polls at the end of a
  trace one fact: a prefix read as gone stays gone. For the verdicts, `Progress` says that a daemon in time is where it should be once it
  has nothing to do, and `Noticed` that what a fault changed stands out until the observation fails. The proof found that `CleanStart`
  was stated for too many modes: in coverage mode, where nothing is observed, it needs a conforming daemon whose connections hold.
  The last two theorems are of both suites. For the directed scripts there is an invariant of its own, `DInv` (`DirectedInvariant`); it also gives
  `ScenariosAreIsolated` (`IsolatedStart`). A script is a list of operations that depends on the scenario, so the proof first says where in it
  each operation is (`Places`: the places of the first pause, the loss, the restart, the End-of-RIB and the farewell). The invariant goes by
  these places. A scenario that goes on (`Going`: not failed, no connection broken) is in its first session or behind that session's end
  (`FirstHalf`), or in the session after a restart (`SecondHalf`); for each the invariant says what is under way (`FirstNet`, `SecondNet`), what
  the daemon holds (`FirstTable`, `SecondTable`) and what the reference state holds (`Reference`). A route that was seen once, or that
  had the time of the pause to come, is there for the rest of the session and outlives it (`FirstHeld`), so the scenario tests what it says it tests;
  what a fault changed stands out until the last check (`SecondSeen`). `Between` and `Isolated` keep a scenario's messages and routes
  out of the next one. Assumption: `TwoRoutes`, that there are the two prefixes of the code.

* `LabProofs`: `TypeCorrect` and `DecisionIsWinner`, for any prefixes, lengths and origins
  (natural numbers): comparing one criterion after the other, each among what the one before has left, gives the minimum of the three
  that the model takes at once. The core is that the ranking of two candidates is total (`OneIsBetter`), so
  that the `CHOOSE` in `winner` has a witness (`WinnerWins`), and that no two are equal. The invariant of the lab needs it at each
  selection of the daemon.
* `NexthopProofs`: `InvariantHolds`, `AnswersAreSound`, `TypeCorrect`, and the refinement
  `ThePromiseIsKept`, for tables of any size. The inductive invariant is the types, `invariant`,
  and that zebra's routes are the valid nexthops of each prefix (`FibAgrees`); the latter is needed since
  a call only answers for the entries that use the endpoint, and is silent when it returns
  early: the routes it does not mention must already be right. A step of the code maps to `Turn` when
  the reachability of the endpoint changed, and to a stutter otherwise (also when only
  the resolution changed and messages were sent).

  For the coercion of seeds: `EveryCaseIsAdmissible` (`Admissible`), `CoercingTwiceIsOnce` (`Idempotent`) and `FirstOfEachWins`
  (`FirstWins`), for lists of any length. That the inputs are lists is invariant at once; the work is in the loops, folds of the library that
  take off the last index. They are unfolded to one round per element (`IterWorks`, `Rounds`), and each loop has its own invariant over
  the rounds (`Deduping`, `Offering`), which says what was kept, in which order, and that a list without anything to drop was copied.
  The last part makes the coercion idempotent: its result is such a list (`DedupedIs`, `RibIs`, `CacheIs`).

* `OracleProofs`: `TypeCorrect`, `VerdictIsAlwaysMostSevere` and `ResetsAreForDuplicates`, for UPDATEs of any
  length, any values, and any contexts in their types. The inductive invariant is `SevereSoFar`: in the loop
  the verdict is the most severe of the faults of the attributes so far, and the flags say which mandatory attributes were among
  them (`SeenSoFar`), without which `CheckMandatory` would not ask for what is missing of *all* attributes.
  `FaultsOfAttribute` bounds what any attribute can cause, from which the second theorem follows.

* `PeerProofs`: `NothingIsLeft`, `PromiseIsKept` (the refinement) and `ConformingIsTaken`, for any scripts, prefixes and values. The
  inductive invariant `PeerInv` is the types, `ViewRight` (the routes are the last word of the messages handled) and `FlagsRight`
  (the two flags are what those messages open and confirm). That some message is the last to mention a prefix
  (`LastExists`) needs the least-number principle, taken from `WellFoundedInduction` without an operator parameter (`WFMin`).
* `ParityProofs`: `TypeCorrect`, `InstalledIsAlwaysOwn`, `NothingCollides` and `EveryCaseIsJudgedRight`, for any modes, any number of cases and of
  breaks. The inductive invariant adds to the types, each checked by TLC first: UPDATEs travel in the order of
  their cases and none twice (`InOrder`, `SentOnce`), the RIB holds only what was sent (`Kept`), what a poll has seen was there (`Seen`), and
  for a daemon in time: one session at a time (`Alone`), an observation is made when the daemon has answered (`Answered`), and the
  cases judged so far were judged right (`Judged`). `InstalledIsOwn` alone says nothing of the queue, from which
  an UPDATE of an earlier case could still reach the RIB.

* `LabProofs`: `TracesAreIsolated`, that is `Isolation`, for any finite set of prefixes, any modes, traces, events and breaks, with faults
  and in coverage runs too. `Isolation` speaks of one moment, when a trace begins; the invariant carries it there from the reset:
  while the lab clears, each peer and prefix is `Gone`, that is, the daemon has no candidate and nothing about it is on its way, or
  the last word on its way is a withdrawal, which no fault of the daemon keeps. It needs that a peer that is not
  connected has left nothing behind (`DeadIsGone`), and that a trace with an event sent has counted it (`SentIsCounted`).

  `ModelsAgree` (`Agreement`), `FaultsAreNoticed` (`PassedIsConformant`) and `NoTraceFailsWrongly` (`NoFalseAlarm`) are proved from one
  invariant, `AInv` (`LabInvariant`), which follows the daemon from the event to the agreement. With a conforming daemon (`Conforming`, and
  `Following` where the RIB is read): the last word on each prefix on its way from a peer is its candidate of the goal (`LastWord`), on
  its way to the observer it is the goal's export (`LastExport`); and since an event changes one candidate, candidates, selections and
  exports pass from old to new once and never back (`Rising`), so that two polls that agree are of a daemon that is done. With a daemon in time
  (`Watched`): where it went wrong something stays wrong that no later step makes good (`Spoilt`: a candidate not taken, a wrong best,
  an export not made), and by the second poll, at least `PATIENT`'s 0.2s later, nothing is under way, so that the polls would have seen it.

* `HandshakeProofs`: `SeesWhatCame` (`SeenWhatCame`) and `ResultsAreAlwaysTrue` (`ResultsAreTrue`), for any script and any chunks. The invariant
  `HInv` says that in the first loop the buffer begins behind the last whole message, so that a chunk completes just the messages
  whose end it reaches (`ChunkCompletes`). The ends are sums over the script; that they are, and grow, is shown by induction (`EndIs`).

* `CampaignProofs`: `NothingCollides` (`NoCollision`), `PrefixesAreOwn` (`PrefixIsOwn`), `ExitTells` (`ExitIsTrue`) and `BooksAlwaysBalance`
  (`BooksBalance`), for any command line, any numbers of cases, scenarios and traces and any outcome of each. The invariant `CInv` adds: where a session
  may be open at all (`Closed`: in and behind the UPDATE suites, and not behind the OPEN suite if a suite that connects follows); that what
  went wrong is in the figures or in the results still to be entered (`Blamed`); that the prefixes taken lie behind the suites, each in its part
  of the space or the shared one of the mpreach suite, which is taken only when no suite that looks up a prefix below `StateBase` is
  left (`Apart`). `PrefixesAreOwn` is thus about prefixes that are looked up; that *no* prefix is announced twice is false. `BooksBalance` sums rows with a fold over sets, so its steps need that counting in one row adds one to the sum.

* `OracleProofs`, again: `OpenVerdictIsRight` (`OpenVerdict`) and `VerdictIsAsRequired` (`VerdictIsRequired`), for UPDATEs and OPENs of any bytes and
  length. Two results carry them. `FaultsAreAsRequired`: the long case distinction raises what the rules on flags, length and
  content ask for, type by type, unless the attribute is `Lenient`; an AS4_PATH with wrong flags differs, since its content is not looked at,
  but there the withdrawal is the more severe. The theorem is a statement about the form of the code (twenty branches against three rules and a
  grammar), under the rules it cites; it says nothing of whether these are what the RFCs ask for. `ScanIsGrammar` and `ParametersAreGrammar`: the loops over bytes accept the strings of the grammars and no others.
  The loop is a function that recurs to the end of the bytes, the grammar one that recurs to their beginning. That either exists is
  shown with the least set closed under the pieces (`LeadsExists`); that both agree by induction on the distance (`ThereAndBack`).

* `OracleProofs`, on `Packets`: `WireIsAlwaysJudged` (`WireIsJudged`), `AdapterAlwaysAgrees` (`AdapterAgrees`) and `PacketsAreJudged` (the
  properties of the oracle, where it starts from a packet of the runners). TLC checks the corpora; the theorems are for *any* arguments of
  the builders: any flags, type, declared length and payload of a legacy case, any segments and cut of an AS_PATH, any
  fields of an MP_REACH_NLRI, any path length of an event of the lab. The one assumption is `PacketsAssumption`: the arguments are of these types,
  and the UPDATE is `Sendable`, without which the builder itself raises. From it follows that the count of a path of the lab is a byte.

  The core is `UpdateIsRead`: `decode_update_attributes` inverts `wire` on every UPDATE whose attributes are as long as they say. In what
  `FlattenSeq` joins each attribute begins at the sum of the lengths before it and nothing behind moves it (`Placed`); at that offset the decoder
  reads its header (one or two bytes of length, by the flag) and finds its end, which is the offset of the next (`AttributesAreRead`). That all
  builders return such UPDATEs is shown builder by builder (`BuiltIsUpdate`); for `build_legacy_update` it is `NormalizedLength` that matters, the
  padding and cutting whose absence in the mutant lets the declared length run into the attribute behind.

  The invariant `PInv` ties the case to the state (`CaseInv`): what is judged are the builder's attributes in the context of its suite. The verdict on
  a lab packet follows from `VerdictIsMostSevere`, not from running the loop: if each type comes once and the
  mandatory ones are there, the verdict says whether some attribute has a fault (`VerdictOfDistinct`), and the AS path of a packet has one just
  when its count is not the number of its ASes (`SequenceIsScanned`). `LabEffect` then reads the path length and origin back out of the bytes. The OPENs
  go through `ParametersAreGrammar`.

Each invariant was checked by TLC, on the modes of the runs and variants of them, before it was proved.

The provers cannot instantiate the library's induction rules, which take an operator. Where a proof needs induction it is over
a *set* of numbers that holds 0 and is closed under successor, from the well-foundedness of `<` (`Induction`), and a recursive function is
unfolded from the `CHOOSE` that defines it, after a proof that some function satisfies the equation. This reaches `ByteStream`,
the folds of `Campaign`, the loops of the coercion and the scans of the oracle, at the price of a lemma for each definition.

Only model-checked: liveness (`SuiteEnds`, `RunEnds`, `HandshakeEnds`) and everything about `ENABLED`, which the prover does not
support. Every other property of a passing run is a theorem. `Agreement` of `RouteLab` excepts
a late daemon with faults: one that selects without the ORIGIN can do so again behind two agreeing polls.

## 5. What is not modelled, and why

* FRR itself: not in the repository. It appears as the environment, by what the runners
  expect of it, with arbitrary delays and, in some runs, faults.
* The BGP header in the builders: 16 constant bytes, a length and a type. `Handshake` and `PeerStream` model its effect.
* `gr_obligations` and `obligations` and the choice of witnesses: any enabled trace is allowed instead.
* The selection in `seed_structural_suites.py` (caps per class, removal of duplicates, files), the entry points for symbolic execution:
  what is selected is a part of the spaces, all of which `oracle` judges.
* The menu, `--help`, the formatting of reports, colours: printing.
* Most of `mbt/modeling_primitives.py` and `examples/lib`: types, rendering, and predicates that the modelled code does not use.
* The C++ stub, the coverage and Docker scripts: no state or protocol.
* More cases than the 2^16 prefixes: `Campaign` has the wrap (`prefix`), and `PrefixIsOwn` says up to which numbers
  no prefix is used twice (`InBounds`); the suites as seeded stay below.

## 6. Disagreements between code and documentation

Three are runs of their own. `handshake_late_keepalive`: the peer's OPEN arrives, then nothing until `recv` times out; the
runner answers and waits for the missing KEEPALIVE in a second loop. That loop searches each chunk by
itself at the offsets `range(len(extra) - 19)` (`M/run_parity_fuzzer.py:329`). A KEEPALIVE is exactly 19 bytes, so in
a chunk of its own it is looked for nowhere; nor is one at the end of a chunk, or one cut by a chunk.
The function returns `False`, although it says that this means that "the exchange did not complete"
(lines 280-282), and the case counts as a connection failure of the daemon.

`oracle_flag_conflicts`: a comment in `parse_attributes` has it that by RFC 7606 §3.c "an Optional/Transitive flag conflict makes the
entire UPDATE treat-as-withdraw" (`M/bgp_oracle.py:285-286`). For ATOMIC_AGGREGATE, AGGREGATOR, AS4_AGGREGATOR, PMSI_TUNNEL and OTC
the flags are tested in one condition with the length, and the answer to both is `ATTRIBUTE_DISCARD`
(lines 236, 240, 294, 298, 306). The expectation is then that the route is installed (`M/run_parity_fuzzer.py:75`): a daemon that follows the
comment is reported. The counterexample is a packet of the legacy suite, an AGGREGATOR with flags 0.

`campaign_mpreach_prefix`: "every test case sends its own `10.a.b.0/24` prefix" (`M/README.md:298`; likewise
`M/run_parity_fuzzer.py:17-18`). `build_mpreach_update` ignores the prefix of its case (line 196), and 17 of the 222 cases of `mpreach_argdict.txt`
(among them lines 37, 38 and 82-87) carry 10.16.1.0/24 (`M/packet_builders.py:152`), which is also the prefix of the case with number 4097.
A route can so pass from one case to the next; but no verdict depends on it as the suites are ordered, since no case of mpreach looks
its route up and no later one can have this prefix. This is `PrefixIsOwn`.

Others were met while modelling; the modules follow the code:

* `M/route_wire.py:4` says that unexpected messages fail the run. `Peer.feed` accepts an UPDATE
  before the handshake is complete, and a second OPEN (`Belongs` in `PeerMessages`).
* The docstring of `build_as_path_value` (`M/packet_builders.py:124`) says that a negative `extra_len` truncates. `out[:-extra_len]`
  (line 142) keeps the first `|extra_len|` bytes instead of dropping as many, so the points `-1 .. -3` of the AS_PATH space are
  all paths of at most three bytes. They are built and judged alike, so `WireIsJudged` holds.
* `M/seed_structural_suites.py` removes duplicates by wire bytes and verdict, with the cases of 2-byte AS numbers
  first, while the live run skips those cases (`M/run_parity_fuzzer.py:725`). 240 of the 3,472 distinct points with 4-byte
  numbers are so kept only as their 2-byte twin and never run. The same file speaks of "3,500 raw points" (line 49);
  `aspath_space` has 17,500. And as the last point of a class is always added (lines 122-127), a class can have one case more than its cap.
* An error of the RIB query in `run_scenario` and in `check_if_route_installed` is caught nowhere and ends the
  whole campaign without a report (`Abort` in `Campaign`).

## 7. Plan

Done, in this order: `GrModel`, `GrHistory`, `GrProofs`; `GrExec`; `RouteModel`, `RouteLab`; the nexthop modules;
`ParityRunner`; `ByteStream`, `Handshake`; `OracleBytes`, `Oracle`, `OracleProofs`;
then `PeerMessages`, `PeerPromise`, `PeerStream`, `PeerProofs`; `ParityTables`, `Campaign`; `GrScenarios`; `Builders`,
`SuiteSpace`, `Packets`; `ParityProofs`, `LabProofs`; then the proofs about the runner of `GrExec`, the agreement of the lab, `CampaignProofs`,
`HandshakeProofs`, the grammars of the oracle and the coercion of `NexthopSeeds`, the directed scripts of `GrScenarios`, and that
`decode_update_attributes` inverts the builders.

Left to model: `generate_traces` and `explore` as a breadth-first search (the visited set is closed, each witness is a shortest one).
