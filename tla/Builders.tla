------------------------------ MODULE Builders ------------------------------
(***************************************************************************)
(* The packets of the suites (packet_builders.py, graceful_restart.py, the *)
(* wire builders of run_parity_fuzzer.py, update of route_wire.py): from   *)
(* the parameters of a case to the path attributes and to their bytes, and *)
(* back.  The 19 bytes of the BGP header are left out.                     *)
(***************************************************************************)
EXTENDS OracleBytes, SequencesExt

Word(n) == <<n \div 256, n % 256>>
Fill(byte, n) == [k \in 1 .. n |-> byte]
Copies(bytes, n) == [k \in 1 .. n * Len(bytes) |-> bytes[1 + ((k - 1) % Len(bytes))]]
When(condition, bytes) == IF condition THEN bytes ELSE <<>>

AS65002 == <<0, 0, 253, 234>>

(***************************************************************************)
(* Path attributes                                                         *)
(***************************************************************************)
Optional(flags)       == flags >= 128
Transitive(flags)     == (flags \div 64) % 2 = 1
ExtendedLength(flags) == (flags \div 16) % 2 = 1

PathAttr(flags, type_code, value) ==
  [flags |-> flags, type_code |-> type_code, length |-> Len(value), value |-> value]

encode_attr(flags, type_code, length) ==
  <<flags, type_code>> \o (IF ExtendedLength(flags) THEN Word(length) ELSE <<length>>)

_attr_wire(a) == encode_attr(a.flags, a.type_code, a.length) \o a.value

(* struct.pack raises for a length that does not fit in its field.         *)
Encodable(a) == a.length <= (IF ExtendedLength(a.flags) THEN 65535 ELSE 255)

origin_obj   == PathAttr(64, 1, <<0>>)
as_path_obj  == PathAttr(64, 2, <<2, 1>> \o AS65002)
next_hop_obj == PathAttr(64, 3, <<1, 1, 1, 1>>)

(* A plausible bug of normalize_payload, which the code once had: a long   *)
(* payload is not cut.                                                     *)
NormalizeUncut(payload, declared_len) ==
  payload \o When(Len(payload) < declared_len, Fill(0, declared_len - Len(payload)))

normalize_payload(payload, declared_len) ==
  SubSeq(payload \o When(Len(payload) < declared_len, Fill(0, declared_len - Len(payload))),
         1, declared_len)

build_as_path_value(args) ==
  LET asn == IF args.asn_4byte THEN AS65002 ELSE SubSeq(AS65002, 3, 4)
      segment(type, count) == When(type # 0, <<type, count>> \o Copies(asn, count))
      out == segment(args.seg1_type, args.seg1_count) \o segment(args.seg2_type, args.seg2_count)
      n == -args.extra_len
  IN  IF n <= 0 THEN out \o Fill(0, -n) ELSE When(n < Len(out), SubSeq(out, 1, n))

build_as4_path_attr == PathAttr(192, 17, <<1, 1>> \o AS65002)

_well_formed_nlri(afi, safi) ==
  When(safi = 128, <<0, 2>> \o AS65002 \o <<0, 1>>)
  \o (IF afi = 2 THEN <<64, 32, 1, 13, 184, 0, 0, 0, 0>> ELSE <<24, 10, 16, 1>>)

build_mp_reach_value(args) ==
  Word(args.afi) \o <<args.safi, args.nh_len>>
  \o When(args.fill_nh, Fill(17, args.nh_len))
  \o When(args.reserved_present, <<0>>)
  \o When(args.nlri_wf, _well_formed_nlri(args.afi, args.safi))

(***************************************************************************)
(* UPDATEs                                                                 *)
(***************************************************************************)
NLRI == <<24, 10, 0, 1>>

AnUpdate(withdrawn, attrs, announced) ==
  [withdrawn |-> withdrawn, attrs |-> attrs, announced |-> announced]

(* The attribute that is tried, in one of four slots among the others.     *)
build_legacy_update(args, version, slot) ==
  LET takes_origin == version = 2 /\ slot = 1
      fuzz_obj == [flags |-> args.flags, type_code |-> IF takes_origin THEN 1 ELSE args.type,
                   length |-> args.len, value |-> normalize_payload(args.payload, args.len)]
      fuzz_at(k) == When(slot = k, <<fuzz_obj>>)
  IN  AnUpdate(<<>>, fuzz_at(1) \o <<as_path_obj>> \o fuzz_at(2) \o <<next_hop_obj>> \o fuzz_at(3)
                     \o When(~takes_origin, <<origin_obj>>) \o fuzz_at(4), NLRI)

build_aspath_update(args) ==
  AnUpdate(<<>>, <<origin_obj, PathAttr(64, 2, build_as_path_value(args)), next_hop_obj>>
                 \o When(args.with_as4_path, <<build_as4_path_attr>>), NLRI)

build_mpreach_update(args) ==
  AnUpdate(<<>>, <<origin_obj, as_path_obj, PathAttr(args.flags, 14, build_mp_reach_value(args))>>,
           <<>>)

(* update of route_wire.py: the events of the route-competition lab.  A    *)
(* bad path counts an AS that is not there.                                *)
ASNS == <<65002, 65003, 65004>>
lab_nlri(prefix) == <<24, 198, 18, prefix>>

(* A plausible bug of PathCount: the path of a bad_aspath is intact.       *)
PathCountIntact(event) == event.length

PathCount(event) == event.length + (IF event.kind = "bad_aspath" THEN 1 ELSE 0)

update(event) ==
  LET path == Copies(Word(0) \o Word(ASNS[event.peer + 1]), event.length)
      origin == IF event.kind = "bad_origin" THEN 3 ELSE event.origin
      target == lab_nlri(event.prefix)
  IN  IF event.kind = "withdraw" THEN AnUpdate(target, <<>>, <<>>)
      ELSE AnUpdate(<<>>, <<PathAttr(64, 1, <<origin>>),
                            PathAttr(64, 2, <<2, PathCount(event)>> \o path),
                            PathAttr(64, 3, <<192, 0, 2, event.peer + 2>>)>>, target)

(* The body of the UPDATE.                                                 *)
wire(u) ==
  LET attrs == FlattenSeq([k \in 1 .. Len(u.attrs) |-> _attr_wire(u.attrs[k])])
  IN  Word(Len(u.withdrawn)) \o u.withdrawn \o Word(Len(attrs)) \o attrs \o u.announced

(* The lengths of an UPDATE fit in their fields, with the header's.        *)
Sendable(u) ==
  /\ \A k \in 1 .. Len(u.attrs) : Encodable(u.attrs[k])
  /\ 19 + Len(wire(u)) <= 65535

(***************************************************************************)
(* decode_update_attributes: what is read back; {} if it raises.           *)
(***************************************************************************)
Raised == PathAttr(256, 256, <<>>)   \* no attribute: its flags are no byte

DecodedAttrs(raw) ==
  LET at[o \in 0 .. Len(raw)] ==
        IF o = Len(raw) THEN <<>>
        ELSE LET header == o + (IF ExtendedLength(raw[o + 1]) THEN 4 ELSE 3)
                 length == Number(SubSeq(raw, o + 3, header))
             IN  IF header > Len(raw) THEN <<Raised>>
                 ELSE IF header + length > Len(raw) THEN <<Raised>>
                 ELSE <<[flags |-> raw[o + 1], type_code |-> raw[o + 2], length |-> length,
                         value |-> SubSeq(raw, header + 1, header + length)]>>
                      \o at[header + length]
  IN  at[0]

decode_update_attributes(body) ==
  LET offset == 2 + Number(SubSeq(body, 1, 2))
      end == offset + 2 + Number(SubSeq(body, offset + 1, offset + 2))
      attrs == DecodedAttrs(SubSeq(body, offset + 3, end))
  IN  IF offset + 2 > Len(body) THEN {}
      ELSE IF end > Len(body) \/ Contains(attrs, Raised) THEN {}
      ELSE {AnUpdate(SubSeq(body, 3, offset), attrs, SubSeq(body, end + 1, Len(body)))}

(***************************************************************************)
(* The optional parameters of OPENs                                        *)
(***************************************************************************)
build_capability_value(code, cap_len, fill) == <<code, cap_len>> \o When(fill, Fill(66, cap_len))

wrap_capability(cap_body) == <<2, Len(cap_body)>> \o cap_body

(* A case is the sequence of its capabilities, one or two.                 *)
build_opencap_open(caps) ==
  FlattenSeq([k \in 1 .. Len(caps) |->
                wrap_capability(build_capability_value(caps[k].code, caps[k].len, caps[k].fill))])

build_graceful_restart_value(restart_flags, restart_time, families) ==
  Word(restart_flags * 4096 + restart_time)
  \o FlattenSeq([k \in 1 .. Len(families) |->
                   Word(families[k].afi) \o <<families[k].safi, families[k].flags>>])

build_graceful_restart_open(args) ==
  LET whole == build_graceful_restart_value(args.flags, args.time, args.families)
               \o Fill(66, args.extra_len)
      value == SubSeq(whole, 1, Len(whole) - args.trim)
      gr == wrap_capability(<<64, Len(value)>> \o value)
  IN  wrap_capability(<<1, 4, 0, 1, 0, 1>>) \o wrap_capability(<<1, 4, 0, 2, 0, 1>>)
      \o wrap_capability(<<65, 4>> \o AS65002)
      \o gr \o When(args.duplicate, gr)

(* build_bgp_open without parameters.                                      *)
default_opt_params ==
  FlattenSeq([k \in 1 .. 7 |-> wrap_capability(
    <<<<1, 4, 0, 1, 0, 1>>, <<1, 4, 0, 2, 0, 1>>, <<1, 4, 0, 1, 0, 128>>, <<128, 0>>, <<2, 0>>,
      <<70, 0>>, <<65, 4>> \o AS65002>>[k])])

(***************************************************************************)
(* The packets of the graceful-restart runners (gr_stateful.py)            *)
(***************************************************************************)
ROUTE_ARGS == [flags |-> 192, type |-> 8, len |-> 4, payload |-> <<0, 1, 0, 1>>]

_route == build_legacy_update(ROUTE_ARGS, 3, 4)

_gr_open(restart, forwarding, restart_time) ==
  build_graceful_restart_open(
    [flags |-> IF restart THEN 8 ELSE 0, time |-> restart_time,
     families |-> <<[afi |-> 1, safi |-> 1, flags |-> IF forwarding THEN 128 ELSE 0]>>,
     trim |-> 0, duplicate |-> FALSE, extra_len |-> 0])

=============================================================================
