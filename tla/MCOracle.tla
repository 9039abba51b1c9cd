------------------------------ MODULE MCOracle ------------------------------
(***************************************************************************)
(* Packets for TLC: the packets of the suites and the lab; packets with    *)
(* one attribute of every kind, lists of a few attributes, every short AS  *)
(* path, and OPENs cut in the wrong places.                                *)
(***************************************************************************)
EXTENDS Packets, SuiteSpace

Strings(alphabet, n) == UNION {[1 .. k -> alphabet] : k \in 0 .. n}
Zeros(n) == [k \in 1 .. n |-> 0]

Attr(t, o, tr, n, v) ==
  [type_code |-> t, optional |-> o, transitive |-> tr, length |-> n, value |-> v]
With(t, o, tr, v) == Attr(t, o, tr, Len(v), {v})

GoodOrigin == With(1, FALSE, TRUE, <<0>>)
GoodPath == With(2, FALSE, TRUE, <<2, 1, 0, 7>>)
GoodNextHop == With(3, FALSE, TRUE, <<10, 0, 0, 1>>)

(* One attribute of each type, with each flags and length, and no value.   *)
Lengths == {0, 1, 4, 5, 6, 8, 12, 20, 24, 40}
Single ==
  {Attr(t, o, tr, n, {}) : t \in RECOGNIZED \cup {99}, o \in BOOLEAN, tr \in BOOLEAN,
                           n \in Lengths}

(* Attributes with values: every short path, and some next hops and frames.*)
Paths == {With(2, FALSE, TRUE, v) : v \in Strings({0, 1, 2, 3, 5}, 5)}
As4Paths == {With(17, TRUE, TRUE, <<t, n>> \o Zeros(k)) :
               t \in {0, 1, 3}, n \in 0 .. 2, k \in {0, 3, 4, 8}}
Origins == {With(1, FALSE, TRUE, v) : v \in Strings({0, 2, 3}, 1)}
NextHops == {With(3, FALSE, TRUE, <<v, 0, 0, w>>) : v \in {0, 10, 223, 224, 240}, w \in {0, 1}}
Reaches ==
  {With(14, o, FALSE, <<0, afi, safi, nh>> \o Zeros(k)) :
     o \in BOOLEAN, afi \in 1 .. 2, safi \in {1, 4, 128}, nh \in {4, 12, 16, 24, 32},
     k \in {4, 5, 16, 17, 33}}
Unreaches == {With(15, o, FALSE, Zeros(k)) : o \in BOOLEAN, k \in 0 .. 3}
AttrSets == {With(128, TRUE, TRUE, <<0, 1, 0, n>> \o Zeros(k)) : n \in 0 .. 2, k \in 0 .. 2}

(* Whatever may be wrong, next to what is right.                           *)
Framing(x) == <<GoodOrigin, x, GoodPath, GoodNextHop>>
One == {Framing(x) : x \in Single \cup As4Paths \cup Reaches \cup Unreaches \cup AttrSets}
       \cup {<<x, GoodOrigin, GoodNextHop>> : x \in Paths}
       \cup {<<x, GoodPath, GoodNextHop>> : x \in Origins}
       \cup {<<x, GoodPath, GoodOrigin>> : x \in NextHops}

(* Lists of a few attributes, with duplicates and with some missing.       *)
Few == {GoodOrigin, GoodPath, GoodNextHop, With(1, FALSE, TRUE, <<3>>),
        With(14, TRUE, FALSE, <<0, 1, 1, 4, 10, 0, 0, 1, 0>>), With(14, FALSE, FALSE, <<0>>),
        Attr(5, FALSE, TRUE, 4, {}), Attr(99, FALSE, TRUE, 1, {})}
Lists == UNION {[1 .. n -> Few] : n \in 0 .. 4}

MCUpdates == One \cup Lists

(* What the runners use, and each parameter the other way.                 *)
External == [is_ibgp |-> FALSE, asn_4byte |-> FALSE, has_ipv4_nlri |-> TRUE,
             allow_confed |-> FALSE, enforce_first_as |-> {}, impl_choice |-> "IMPL_CHOICE"]
MCContexts ==
  {External,
   [External EXCEPT !.is_ibgp = TRUE, !.allow_confed = TRUE, !.impl_choice = "SESSION_RESET"],
   [External EXCEPT !.asn_4byte = TRUE, !.has_ipv4_nlri = FALSE],
   [External EXCEPT !.enforce_first_as = {258}, !.impl_choice = "TREAT_AS_WITHDRAW"]}

(* Capabilities, right and wrong, in parameters whose length is right or   *)
(* not, one or two in an OPEN.                                             *)
Capabilities ==
  {<<65, 4>> \o Zeros(4), <<65, 3>> \o Zeros(3), <<64, 2, 0, 0>>, <<79, 1, 0>>, <<79, 0>>,
   <<1, 4>> \o Zeros(4), <<200, 0>>, <<200, 1>>, <<200>>}
Bodies == {<<>>} \cup Capabilities \cup {x \o y : x, y \in Capabilities}
Parameters ==
  UNION {{<<t, n>> \o body : t \in {1, 2}, n \in {Len(body), Len(body) + 1}} : body \in Bodies}
MCOpens ==
  {build_opencap_open(caps) : caps \in opencap_space} \cup
  {build_graceful_restart_open(args) : args \in graceful_restart_cases} \cup
  {<<>>} \cup Parameters \cup
  {x \o y : x \in {<<1, 0>>, <<2, 2, 200, 0>>, <<2>>}, y \in Parameters}

(***************************************************************************)
(* What the suites and the lab build                                       *)
(***************************************************************************)
Cases(builder, args) == {[builder |-> builder, args |-> a] : a \in args}

Payloads == {<<>>, <<0, 1, 0, 1>>, <<2, 1, 0, 0, 253, 234, 2, 1>>}
LegacySpace ==
  {a \in [flags : ATTR_FLAG_CLASSES, type : {1, 2, 3, 7, 8, 14, 17, 99}, len : {0, 1, 4, 6, 300},
          payload : Payloads, version : 1 .. 3, slot : 1 .. 4] :
     /\ Encodable([length |-> a.len, flags |-> a.flags])
     /\ <<a.version, a.slot>> \in {<<1, 1>>, <<1, 2>>, <<1, 3>>, <<2, 1>>, <<2, 4>>, <<3, 4>>}}

GrOpens ==
  [gr : BOOLEAN, restart : BOOLEAN, forwarding : BOOLEAN, restart_time : {1, 2, 90}]

MCSuites ==
  {Cases("legacy", LegacySpace), Cases("aspath", aspath_space), Cases("mpreach", mpreach_space),
   Cases("lab", EVENTS), Cases("gr_route", {<<>>}), Cases("gr_open", GrOpens)}

=============================================================================
