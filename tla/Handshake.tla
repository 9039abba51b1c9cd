----------------------------- MODULE Handshake -----------------------------
(***************************************************************************)
(* perform_bgp_handshake of run_parity_fuzzer.py, which opens the sessions *)
(* of the malformed-packet suites.  It sends an OPEN, reads what the peer  *)
(* sends until it has seen an OPEN and a KEEPALIVE or 3s have passed,      *)
(* answers with a KEEPALIVE, and, if the peer's KEEPALIVE is missing, goes *)
(* on to look for it in what else it receives.                             *)
(***************************************************************************)
EXTENDS ByteStream

CONSTANT MaxMessages         \* bound: messages the peer sends

ASSUME HandshakeAssumption == MaxMessages \in Nat

VARIABLES
  script,          \* what the peer sends before it waits or closes
  read,            \* bytes that recv has returned
  start,           \* where buf starts: the messages parsed so far
  got_open,
  got_keepalive,
  pc,              \* the loop, the answer, the second loop, the end
  result           \* what the function returned or raised

vars == <<script, read, start, got_open, got_keepalive, pc, result>>

Init ==
  /\ script \in UNION {[1 .. n -> MessageType] : n \in 0 .. MaxMessages}
  /\ read = 0 /\ start = 0
  /\ got_open = FALSE /\ got_keepalive = FALSE
  /\ pc = "loop" /\ result = "none"

Left == Total(script) - read

Return(value) == pc' = "end" /\ result' = value

(***************************************************************************)
(* The first loop                                                          *)
(***************************************************************************)

(* A plausible bug of Parsed: what is incomplete is not kept.              *)
ParsedUnbuffered(n) ==
  IF read = End(script, start) THEN Whole(script, read + n) ELSE start

(* The message up to which `buf + chunk' is parsed, when the chunk has n   *)
(* bytes: an incomplete message waits for the next chunk.                  *)
Parsed(n) == Whole(script, read + n)

Receive(n) ==
  /\ pc = "loop" /\ ~(got_open /\ got_keepalive)
  /\ n \in 1 .. Left
  /\ read' = read + n
  /\ start' = Parsed(n)
  /\ LET types == Types(script, start, start') IN
       IF NOTIFICATION \in types
       THEN Return("ConnectionError") /\ UNCHANGED <<got_open, got_keepalive>>
       ELSE /\ got_open' = (got_open \/ OPEN \in types)
            /\ got_keepalive' = (got_keepalive \/ KEEPALIVE \in types)
            /\ UNCHANGED <<pc, result>>
  /\ UNCHANGED script

(* The peer has closed the connection.                                     *)
ReceiveEnd ==
  /\ pc = "loop" /\ ~(got_open /\ got_keepalive) /\ Left = 0
  /\ Return("False")
  /\ UNCHANGED <<script, read, start, got_open, got_keepalive>>

(* A plausible bug of LoopEnds: the loop has no deadline.                  *)
LoopEndsComplete ==
  /\ pc = "loop" /\ got_open /\ got_keepalive
  /\ pc' = "answer"
  /\ UNCHANGED <<script, read, start, got_open, got_keepalive, result>>

(* The loop is left when both were seen, after 3s or a timeout.            *)
LoopEnds ==
  /\ pc = "loop"
  /\ pc' = "answer"
  /\ UNCHANGED <<script, read, start, got_open, got_keepalive, result>>

(***************************************************************************)
(* The answer, and the second loop                                         *)
(***************************************************************************)
Answer ==
  /\ pc = "answer"
  /\ IF ~got_open THEN Return("False")
     ELSE IF got_keepalive THEN Return("True")
     ELSE pc' = "extra" /\ UNCHANGED result
  /\ UNCHANGED <<script, read, start, got_open, got_keepalive>>

(* A plausible bug of Found: any message is taken for the KEEPALIVE.       *)
FoundAny(n) ==
  \E k \in 1 .. Len(script) :
    read <= End(script, k - 1) /\ End(script, k - 1) + HEADER <= read + n

(* The chunk is searched by itself, for off in range(len(extra) - 19).     *)
Found(n) ==
  \E k \in 1 .. Len(script) :
    /\ script[k] = KEEPALIVE
    /\ read <= End(script, k - 1)
    /\ End(script, k - 1) + HEADER < read + n

ReceiveExtra(n) ==
  /\ pc = "extra" /\ n \in 1 .. Left
  /\ read' = read + n
  /\ IF Found(n) THEN got_keepalive' = TRUE /\ Return("True")
                 ELSE UNCHANGED <<got_keepalive, pc, result>>
  /\ UNCHANGED <<script, start, got_open>>

(* The peer has closed the connection, or 2s have passed.                  *)
ExtraEnds ==
  /\ pc = "extra"
  /\ Return("False")
  /\ UNCHANGED <<script, read, start, got_open, got_keepalive>>

(* sendall or recv raises.                                                 *)
Raise ==
  /\ pc # "end"
  /\ Return("OSError")
  /\ UNCHANGED <<script, read, start, got_open, got_keepalive>>

Done == pc = "end" /\ UNCHANGED vars

Next ==
  \/ \E n \in 1 .. Left : Receive(n) \/ ReceiveExtra(n)
  \/ ReceiveEnd \/ LoopEnds \/ Answer \/ ExtraEnds \/ Raise
  \/ Done

(* The timeouts of recv and the deadline of the loop.                      *)
Spec == Init /\ [][Next]_vars /\ WF_vars(LoopEnds) /\ WF_vars(Answer) /\ WF_vars(ExtraEnds)

(***************************************************************************)
(* Properties                                                              *)
(***************************************************************************)

Received == Types(script, 0, Whole(script, read))

(* However the stream is cut into chunks, the first loop has seen just the *)
(* messages that arrived whole ("handling TCP fragmentation",              *)
(* run_parity_fuzzer.py:280), and has gone on past no NOTIFICATION.        *)
SeenWhatCame ==
  pc = "loop" =>
    /\ got_open <=> OPEN \in Received
    /\ got_keepalive <=> KEEPALIVE \in Received
    /\ NOTIFICATION \notin Received

(* A session is only used after the peer's OPEN and KEEPALIVE came whole,  *)
(* and a NOTIFICATION is only reported if one came.                        *)
ResultsAreTrue ==
  /\ result = "True" => {OPEN, KEEPALIVE} \subseteq Received
  /\ result = "ConnectionError" => NOTIFICATION \in Received

(* "Returns False if the exchange did not complete"                        *)
(* (run_parity_fuzzer.py:281): when the peer's OPEN and KEEPALIVE have     *)
(* come the exchange is complete, and False is not the answer.             *)
FalseMeansIncomplete ==
  result = "False" => ~({OPEN, KEEPALIVE} \subseteq Received)

(* The handshake comes to an end.                                          *)
HandshakeEnds == <>(pc = "end")

=============================================================================
