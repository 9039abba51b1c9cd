---------------------------- MODULE OracleBytes ----------------------------
(***************************************************************************)
(* What bgp_oracle.py reads byte by byte: the AS_PATH, the structure of    *)
(* MP_REACH_NLRI and ATTR_SET, and the optional parameters of an OPEN.     *)
(*                                                                         *)
(* Positions count the bytes that were read, as in the code.               *)
(***************************************************************************)
EXTENDS Integers, Sequences

Byte == 0 .. 255

Number(bytes) ==
  LET upto[n \in 0 .. Len(bytes)] == IF n = 0 THEN 0 ELSE upto[n - 1] * 256 + bytes[n]
  IN  upto[Len(bytes)]

(***************************************************************************)
(* scan_as_path                                                            *)
(***************************************************************************)

(* A configured first AS is a singleton; the empty set is None.            *)
FirstAsEnforced(value, asn_size, enforce_first_as) ==
  \A first \in enforce_first_as :
    /\ Len(value) >= 2 + asn_size
    /\ value[1] = 2 /\ value[2] # 0
    /\ Number(SubSeq(value, 3, 2 + asn_size)) = first

(* A plausible bug of scan_as_path: empty segments are let through.        *)
ScanTakingEmpty(value, asn_size, allow_confed, enforce_first_as) ==
  LET scan[idx \in 0 .. Len(value)] ==
        \/ idx = Len(value)
        \/ /\ idx + 2 <= Len(value)
           /\ value[idx + 1] \in 1 .. 4
           /\ value[idx + 1] \in {3, 4} => allow_confed
           /\ LET next == idx + 2 + value[idx + 2] * asn_size
              IN  next <= Len(value) /\ scan[next]
  IN  FirstAsEnforced(value, asn_size, enforce_first_as) /\ scan[0]

scan_as_path(value, asn_size, allow_confed, enforce_first_as) ==
  LET scan[idx \in 0 .. Len(value)] ==
        \/ idx = Len(value)
        \/ /\ idx + 2 <= Len(value)
           /\ value[idx + 1] \in 1 .. 4
           /\ value[idx + 2] # 0
           /\ value[idx + 1] \in {3, 4} => allow_confed
           /\ LET next == idx + 2 + value[idx + 2] * asn_size
              IN  next <= Len(value) /\ scan[next]
  IN  FirstAsEnforced(value, asn_size, enforce_first_as) /\ scan[0]

(***************************************************************************)
(* MP_REACH_NLRI and ATTR_SET                                              *)
(***************************************************************************)
MP_NH_LENGTHS(afi, safi) ==
  CASE <<afi, safi>> \in {<<1, 1>>, <<1, 2>>} -> {4}
    [] <<afi, safi>> \in {<<2, 1>>, <<2, 2>>} -> {16, 32}
    [] <<afi, safi>> = <<1, 128>>             -> {12}
    [] <<afi, safi>> = <<2, 128>>             -> {24}
    [] <<afi, safi>> = <<1, 4>>               -> {4, 12}
    [] <<afi, safi>> = <<2, 4>>               -> {16}
    [] OTHER                                  -> {}

mp_reach_structurally_valid(value) ==
  /\ Len(value) >= 4
  /\ value[4] \in MP_NH_LENGTHS(Number(SubSeq(value, 1, 2)), value[3])
  /\ Len(value) >= 4 + value[4] + 1

attr_set_structurally_valid(value) ==
  /\ Len(value) >= 4
  /\ Number(SubSeq(value, 3, 4)) = Len(value) - 4

(***************************************************************************)
(* parse_capabilities                                                      *)
(***************************************************************************)
CAP_SEMANTIC_LEN(code, n) ==
  CASE code \in {1, 73} -> n >= 4 /\ n % 4 = 0
    [] code = 64        -> n >= 2 /\ (n - 2) % 4 = 0
    [] code = 65        -> n = 4
    [] code = 79        -> n = 1
    [] OTHER            -> TRUE

(* A plausible bug of capabilities: a capability may end anywhere in the   *)
(* OPEN, not only in its parameter.                                        *)
CapabilitiesUnconfined(opt_params, from, cap_end) ==
  LET scan[cidx \in 0 .. Len(opt_params)] ==
        \/ cidx >= cap_end
        \/ /\ cidx + 2 <= cap_end
           /\ LET next == cidx + 2 + opt_params[cidx + 2] IN
                /\ next <= Len(opt_params)
                /\ CAP_SEMANTIC_LEN(opt_params[cidx + 1], opt_params[cidx + 2])
                /\ scan[next]
  IN  scan[from]

(* The inner loop, over the capabilities of a parameter.                   *)
capabilities(opt_params, from, cap_end) ==
  LET scan[cidx \in 0 .. Len(opt_params)] ==
        \/ cidx >= cap_end
        \/ /\ cidx + 2 <= cap_end
           /\ LET next == cidx + 2 + opt_params[cidx + 2] IN
                /\ next <= cap_end
                /\ CAP_SEMANTIC_LEN(opt_params[cidx + 1], opt_params[cidx + 2])
                /\ scan[next]
  IN  scan[from]

(* TRUE is VALID, FALSE is SESSION_RESET.                                  *)
parse_capabilities(opt_params) ==
  LET scan[idx \in 0 .. Len(opt_params)] ==
        \/ idx = Len(opt_params)
        \/ /\ idx + 2 <= Len(opt_params)
           /\ LET param_len == opt_params[idx + 2]
                  next == idx + 2 + param_len
              IN  /\ next <= Len(opt_params)
                  /\ opt_params[idx + 1] = 2 =>
                       param_len >= 2 /\ capabilities(opt_params, idx + 2, next)
                  /\ scan[next]
  IN  scan[0]

(***************************************************************************)
(* The grammars, as a reference, which reads backwards: the bytes from     *)
(* `from' to `to' are pieces one behind the other, without a gap.          *)
(***************************************************************************)
Pieces(from, to, Piece(_, _)) ==
  LET cut[j \in from .. to] ==
        j = from \/ \E i \in from .. j - 1 : Piece(i, j) /\ cut[i]
  IN  cut[to]

(* A segment has a type, a count, and as many AS numbers, at least one.    *)
Segment(value, asn_size, allow_confed, i, j) ==
  /\ j >= i + 2 + asn_size
  /\ value[i + 1] \in (IF allow_confed THEN {1, 2, 3, 4} ELSE {1, 2})
  /\ value[i + 2] * asn_size = j - i - 2

IsAsPath(value, asn_size, allow_confed) ==
  LET Piece(i, j) == Segment(value, asn_size, allow_confed, i, j)
  IN  Pieces(0, Len(value), Piece)

(* A capability and a parameter have a code, a length and a body.          *)
Framed(bytes, i, j) == j >= i + 2 /\ bytes[i + 2] = j - i - 2

IsOptParams(bytes) ==
  LET Capability(i, j) ==
        Framed(bytes, i, j) /\ CAP_SEMANTIC_LEN(bytes[i + 1], bytes[i + 2])
      Parameter(i, j) ==
        /\ Framed(bytes, i, j)
        /\ bytes[i + 1] = 2 => j >= i + 4 /\ Pieces(i + 2, j, Capability)
  IN  Pieces(0, Len(bytes), Parameter)

=============================================================================
