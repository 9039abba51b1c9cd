----------------------------- MODULE SuiteSpace -----------------------------
(***************************************************************************)
(* The cases of the structural suites: the bounded spaces that             *)
(* seed_structural_suites.py enumerates, the directed corpus of            *)
(* graceful_restart.py, and the events of the lab (route_model.py).        *)
(***************************************************************************)
EXTENDS Builders

MP_AFIS == 0 .. 2
MP_SAFIS == {0, 1, 2, 4, 128}
MP_NH_LENS == {0, 4, 16, 24, 32}
ATTR_FLAG_CLASSES == {0, 16, 64, 80, 128, 144, 192, 208, 240}

CAP_CODES == <<1, 2, 3, 4, 5, 6, 7, 8, 9, 64, 65, 69, 70, 71, 73, 78, 79, 130, 255>>

aspath_space ==
  [seg1_type : 0 .. 4, seg1_count : 0 .. 4, seg2_type : 0 .. 4, seg2_count : 0 .. 4,
   asn_4byte : BOOLEAN, with_as4_path : BOOLEAN, extra_len : -3 .. 3]

mpreach_space ==
  [afi : MP_AFIS, safi : MP_SAFIS, nh_len : MP_NH_LENS, fill_nh : BOOLEAN,
   reserved_present : BOOLEAN, nlri_wf : BOOLEAN, flags : ATTR_FLAG_CLASSES]

Cap(idx, len, fill) == [code |-> CAP_CODES[idx + 1], len |-> len, fill |-> fill]

cap_points == {Cap(idx, len, fill) : idx \in 0 .. 18, len \in 0 .. 6, fill \in BOOLEAN}

(* One capability; one behind an anchor; and both with broken framing.     *)
opencap_space ==
  {<<cap>> : cap \in cap_points}
  \cup {<<Cap(10, 4, TRUE), cap>> : cap \in cap_points}
  \cup {<<Cap(18, 6, FALSE), Cap(18, 6, FALSE)>>, <<Cap(18, 6, FALSE), Cap(18, 4, TRUE)>>,
        <<Cap(18, 4, TRUE), Cap(18, 6, FALSE)>>}

Family(afi, safi, flags) == [afi |-> afi, safi |-> safi, flags |-> flags]
IPV4_UNICAST    == Family(1, 1, 0)
IPV4_FORWARDING == Family(1, 1, 128)
IPV6_FORWARDING == Family(2, 1, 128)

(* Each case departs from the plain one in one respect, or in two.         *)
plain_case == [flags |-> 0, time |-> 90, families |-> <<IPV4_UNICAST>>, trim |-> 0,
               duplicate |-> FALSE, extra_len |-> 0]

graceful_restart_cases ==
  {plain_case, [plain_case EXCEPT !.duplicate = TRUE]}
  \cup {[plain_case EXCEPT !.flags = f] : f \in {7, 8, 15}}
  \cup {[plain_case EXCEPT !.families = fs] :
          fs \in {<<>>, <<IPV4_FORWARDING>>, <<Family(1, 1, 127)>>,
                  <<IPV4_FORWARDING, IPV6_FORWARDING>>, <<Family(65535, 255, 128)>>,
                  <<IPV4_UNICAST, IPV4_FORWARDING>>}}
  \cup {[plain_case EXCEPT !.time = t] : t \in {0, 1, 4095}}
  \cup {[plain_case EXCEPT !.trim = n] : n \in 1 .. 6}
  \cup {[plain_case EXCEPT !.families = fs, !.extra_len = n] :
          fs \in {<<>>, <<IPV4_UNICAST>>, <<IPV4_UNICAST, IPV6_FORWARDING>>}, n \in 1 .. 3}

(* The events of the route model.                                          *)
EVENTS ==
  [kind : {"announce"}, peer : 0 .. 1, prefix : 0 .. 1, length : 1 .. 2, origin : {0, 2}]
  \cup [kind : {"withdraw", "bad_origin", "bad_aspath"}, peer : 0 .. 1, prefix : 0 .. 1,
        length : {1}, origin : {0}]

=============================================================================
