----------------------------- MODULE ByteStream -----------------------------
(***************************************************************************)
(* What a BGP peer sends on a connection, as the two receivers of this     *)
(* repository see it: a stream of messages of which recv returns any       *)
(* number of bytes that are there.  A message is its type and its length;  *)
(* a position is a number of bytes from the start of the stream.           *)
(***************************************************************************)
EXTENDS Naturals, Sequences

OPEN == "OPEN"
UPDATE == "UPDATE"
NOTIFICATION == "NOTIFICATION"
KEEPALIVE == "KEEPALIVE"
MessageType == {OPEN, UPDATE, NOTIFICATION, KEEPALIVE}

HEADER == 19

(* The shortest messages of each type (RFC 4271, section 4).               *)
Size(type) ==
  CASE type = OPEN         -> HEADER + 10
    [] type = UPDATE       -> HEADER + 4
    [] type = NOTIFICATION -> HEADER + 2
    [] type = KEEPALIVE    -> HEADER

(* Where the message k of a script ends; message k + 1 starts there.       *)
End(script, k) ==
  LET upTo[i \in 0 .. k] == IF i = 0 THEN 0 ELSE upTo[i - 1] + Size(script[i])
  IN  upTo[k]

Total(script) == End(script, Len(script))

(* How many messages are complete in the first n bytes.                    *)
Whole(script, n) ==
  CHOOSE k \in 0 .. Len(script) :
    /\ End(script, k) <= n
    /\ k = Len(script) \/ n < End(script, k + 1)

(* The types of messages i + 1 .. j.                                       *)
Types(script, i, j) == {script[k] : k \in i + 1 .. j}

=============================================================================
