------------------------------ MODULE Packets ------------------------------
(***************************************************************************)
(* The builders and the oracle together: what the suites send and what the *)
(* oracle judges are two results of one builder, and the lab lets the      *)
(* oracle judge what it reads back from the wire (oracle_transition of     *)
(* route_wire.py).                                                         *)
(***************************************************************************)
EXTENDS Oracle, Builders

CONSTANT Suites    \* sets of cases: [builder, args]

VARIABLE case      \* the case that is judged: a singleton, or empty for none

pvars == <<vars, case>>

(***************************************************************************)
(* Cases: the arguments of the builders                                    *)
(***************************************************************************)
Below(n) == {k \in Nat : k < n}

LegacyArgs ==
  [flags : Byte, type : Byte, len : Nat, payload : Seq(Byte), version : 1 .. 3, slot : 1 .. 4]

AsPathArgs ==
  [seg1_type : Byte, seg1_count : Byte, seg2_type : Byte, seg2_count : Byte,
   asn_4byte : BOOLEAN, with_as4_path : BOOLEAN, extra_len : Int]

MpReachArgs ==
  [afi : Below(65536), safi : Byte, nh_len : Byte, fill_nh : BOOLEAN, reserved_present : BOOLEAN,
   nlri_wf : BOOLEAN, flags : Byte]

(* An event without a route has length 1 and origin 0, as update has it.   *)
LabArgs ==
  [kind : {"announce"}, peer : 0 .. 2, prefix : Byte, length : Nat \ {0}, origin : 0 .. 2]
  \cup [kind : {"withdraw", "bad_origin", "bad_aspath"}, peer : 0 .. 2, prefix : Byte,
        length : {1}, origin : {0}]

(* The OPENs of the graceful-restart runners, without and with a restart.  *)
GrOpenArgs == [gr : BOOLEAN, restart : BOOLEAN, forwarding : BOOLEAN, restart_time : Below(4096)]

Arguments ==
  [legacy |-> LegacyArgs, aspath |-> AsPathArgs, mpreach |-> MpReachArgs, lab |-> LabArgs,
   gr_route |-> {<<>>}, gr_open |-> GrOpenArgs]

Built(c) ==
  CASE c.builder = "legacy"   -> build_legacy_update(c.args, c.args.version, c.args.slot)
    [] c.builder = "aspath"   -> build_aspath_update(c.args)
    [] c.builder = "mpreach"  -> build_mpreach_update(c.args)
    [] c.builder = "lab"      -> update(c.args)
    [] c.builder = "gr_route" -> _route

BuiltOpen(c) ==
  IF c.args.gr THEN _gr_open(c.args.restart, c.args.forwarding, c.args.restart_time)
  ELSE default_opt_params

ASSUME PacketsAssumption ==
  \A suite \in Suites : \A c \in suite :
    /\ c.builder \in DOMAIN Arguments /\ c.args \in Arguments[c.builder]
    /\ c.builder # "gr_open" => Sendable(Built(c))

Received(c) == decode_update_attributes(wire(Built(c)))

(***************************************************************************)
(* How the oracle is asked                                                 *)
(***************************************************************************)
Judged(as) ==
  [k \in 1 .. Len(as) |->
     [type_code |-> as[k].type_code, optional |-> Optional(as[k].flags),
      transitive |-> Transitive(as[k].flags), length |-> as[k].length, value |-> {as[k].value}]]

FirstAs(c) ==
  CASE c.builder \in {"aspath", "gr_route"} -> {65002}
    [] c.builder = "lab" -> {ASNS[c.args.peer + 1]}
    [] OTHER -> {}

ContextOf(c) ==
  [is_ibgp |-> FALSE, asn_4byte |-> c.builder = "aspath" => c.args.asn_4byte,
   has_ipv4_nlri |-> c.builder # "mpreach", allow_confed |-> FALSE,
   enforce_first_as |-> FirstAs(c), impl_choice |-> "IMPL_CHOICE"]

(* The suites judge the attributes of the builder, the lab and the         *)
(* graceful-restart runners those they read (what the oracle makes of a    *)
(* withdrawal is not used).  WireIsJudged says that they can be read.      *)
Judges(c) ==
  IF c.builder \in {"lab", "gr_route"} /\ Received(c) # {} THEN Received(c) ELSE {Built(c)}

InitBuilt ==
  \E suite \in Suites : \E c \in suite :
    /\ c.builder # "gr_open" /\ case = {c} /\ context = ContextOf(c)
    /\ pc = "attributes" /\ opt_params = <<>> /\ \E u \in Judges(c) : attrs = Judged(u.attrs)
    /\ i = 1 /\ seen = {} /\ final_result = "VALID"

InitBuiltOpen ==
  \E suite \in Suites : \E c \in suite :
    /\ c.builder = "gr_open" /\ case = {c} /\ context = ContextOf(c)
    /\ pc = "open" /\ opt_params = BuiltOpen(c) /\ attrs = <<>>
    /\ i = 1 /\ seen = {} /\ final_result = "VALID"

PInit == InitBuilt \/ InitBuiltOpen \/ (Init /\ case = {})

PSpec == PInit /\ [][Next /\ UNCHANGED case]_pvars

(***************************************************************************)
(* oracle_transition                                                       *)
(***************************************************************************)
Event(kind, event, length, origin) ==
  [kind |-> kind, peer |-> event.peer, prefix |-> event.prefix,
   length |-> length, origin |-> origin]

Withdrawal(event) == Event("withdraw", event, 1, 0)

(* step: what is malformed withdraws.                                      *)
Meaning(event) ==
  IF event.kind = "announce" THEN event ELSE Withdrawal(event)

Verdict(event) == IF event.kind = "withdraw" THEN "WITHDRAW" ELSE final_result

AttrValue(as, type_code) == (CHOOSE a \in Range(as) : a.type_code = type_code).value

(* The effect of the packet by its verdict; {} if this raises.             *)
AnnouncedRoute(event, u) ==
  LET path == AttrValue(u.attrs, AS_PATH) IN
  IF Len(path) < 2 \/ path[1] # 2 \/ Len(path) # 2 + 4 * path[2] THEN {}
  ELSE {Event("announce", event, path[2], AttrValue(u.attrs, ORIGIN)[1])}

Effect(event, u) ==
  LET target == lab_nlri(event.prefix) IN
  CASE event.kind = "withdraw" -> IF u = AnUpdate(target, <<>>, <<>>) THEN {event} ELSE {}
    [] event.kind # "withdraw" /\ (u.withdrawn # <<>> \/ u.announced # target) -> {}
    [] OTHER -> CASE final_result = "TREAT_AS_WITHDRAW" -> {Withdrawal(event)}
                  [] final_result = "VALID" -> AnnouncedRoute(event, u)
                  [] OTHER -> {}

expected_verdict(event) ==
  CASE event.kind = "withdraw" -> "WITHDRAW"
    [] event.kind = "announce" -> "VALID"
    [] OTHER -> "TREAT_AS_WITHDRAW"

(***************************************************************************)
(* Properties                                                              *)
(***************************************************************************)

(* What the oracle judges is what the daemon reads: the bytes of a case,   *)
(* read back by their own framing, are the attributes of its builder, with *)
(* nothing left over ("the symbolic verdict and the wire bytes can never   *)
(* diverge", packet_builders.py:6-7), so that a damaged attribute damages  *)
(* none behind it.                                                         *)
WireIsJudged ==
  pc = "attributes" /\ i = 1 => \A c \in case : Received(c) = {Built(c)}

(* The lab's builder, the oracle and the route model agree: what the       *)
(* oracle makes of the packet of an event, read back from the wire, is     *)
(* what the model makes of the event, so that oracle_transition does not   *)
(* raise for any event of the model; nor does validate_packet for a packet *)
(* of the graceful-restart runners.                                        *)
AdapterAgrees ==
  pc \in {"update_done", "open_done"} =>
    \A c \in case :
      /\ c.builder = "lab" =>
           \E u \in Received(c) :
             /\ Verdict(c.args) = expected_verdict(c.args)
             /\ Effect(c.args, u) = {Meaning(c.args)}
      /\ c.builder \in {"gr_route", "gr_open"} => final_result = "VALID"

=============================================================================
