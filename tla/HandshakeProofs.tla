-------------------------- MODULE HandshakeProofs --------------------------
(***************************************************************************)
(* Proofs about the handshake of the malformed-packet suites, for a peer   *)
(* that sends any number of messages, cut into chunks anywhere.            *)
(***************************************************************************)
EXTENDS Handshake, SequenceTheorems, WellFoundedInduction, TLAPS

(***************************************************************************)
(* Where the messages of a stream end                                      *)
(***************************************************************************)

(* Induction on natural numbers, as a property of sets of them.            *)
LEMMA Induction ==
  ASSUME NEW T \in SUBSET Nat, 0 \in T, \A n \in T : n + 1 \in T
  PROVE  T = Nat
<1> DEFINE Less == OpToRel(<, Nat)
           U == Nat \ T
<1> SUFFICES ASSUME U # {} PROVE FALSE
  OBVIOUS
<1>1. IsWellFoundedOn(Less, Nat)
  BY NatLessThanWellFounded
<1>2. \A x, y \in Nat : <<x, y>> \in Less <=> x < y
  BY DEF OpToRel
<1> HIDE DEF Less
<1>3. PICK m \in U : \A k \in U : ~ (<<k, m>> \in Less)
  <2>1. U \subseteq Nat
    OBVIOUS
  <2> HIDE DEF U
  <2> QED
    BY <1>1, <2>1, WFMin
<1>4. m \in Nat /\ m # 0 /\ m - 1 \in Nat /\ m - 1 < m
  BY <1>3
<1>5. m - 1 \in T
  BY <1>2, <1>3, <1>4
<1>6. (m - 1) + 1 \in T
  BY <1>5
<1> QED
  BY <1>3, <1>4, <1>6

(* The next sum, which the function f has in front of it.                  *)
Next0(s, f, i) == IF i = 0 THEN 0 ELSE f[i - 1] + Size(s[i])

SumsTo(s, k, f) == f = [i \in 0 .. k |-> Next0(s, f, i)]

(* Sums of sizes exist up to any message.                                  *)
LEMMA SumsExist == ASSUME NEW s PROVE \A k \in Nat : \E f : SumsTo(s, k, f)
<1> DEFINE T == {k \in Nat : \E f : SumsTo(s, k, f)}
<1>1. 0 \in T
  <2> DEFINE f == [i \in 0 .. 0 |-> 0]
  <2>1. SumsTo(s, 0, f)
    BY DEF SumsTo, Next0
  <2> QED
    BY <2>1
<1>2. ASSUME NEW k \in T PROVE k + 1 \in T
  <2>1. PICK f : SumsTo(s, k, f)
    OBVIOUS
  <2> DEFINE g == [i \in 0 .. k + 1 |-> Next0(s, f, i)]
  <2>2. ASSUME NEW i \in 0 .. k + 1 PROVE Next0(s, f, i) = Next0(s, g, i)
    <3>1. CASE i = 0
      BY <3>1 DEF Next0
    <3>2. CASE i # 0
      <4>1. i - 1 \in 0 .. k /\ i - 1 \in 0 .. k + 1
        BY <3>2
      <4>2. f[i - 1] = g[i - 1]
        BY <2>1, <4>1 DEF SumsTo
      <4> QED
        BY <3>2, <4>2 DEF Next0
    <3> QED
      BY <3>1, <3>2
  <2>3. g = [i \in 0 .. k + 1 |-> Next0(s, g, i)]
    BY <2>2, Zenon
  <2>4. SumsTo(s, k + 1, g)
    BY <2>3 DEF SumsTo
  <2> QED
    BY <2>4
<1> HIDE DEF T
<1>3. T = Nat
  <2>1. T \in SUBSET Nat
    BY DEF T
  <2> QED
    BY <1>1, <1>2, <2>1, Induction
<1> QED
  BY <1>3 DEF T

(* They are the same sums, however far they go.                            *)
LEMMA SumsAgree ==
  ASSUME NEW s, NEW k \in Nat, NEW m \in Nat, k <= m, NEW f, NEW g,
         SumsTo(s, k, f), SumsTo(s, m, g)
  PROVE  \A i \in 0 .. k : f[i] = g[i]
<1> DEFINE T == {i \in Nat : i <= k => f[i] = g[i]}
<1>1. \A i \in 0 .. k : f[i] = Next0(s, f, i) /\ g[i] = Next0(s, g, i)
  <2>1. \A i \in 0 .. k : i \in 0 .. m
    OBVIOUS
  <2>2. \A i \in 0 .. k : f[i] = Next0(s, f, i)
    BY Zenon DEF SumsTo
  <2>3. \A i \in 0 .. m : g[i] = Next0(s, g, i)
    BY Zenon DEF SumsTo
  <2> QED
    BY <2>1, <2>2, <2>3
<1>2. 0 \in T
  BY <1>1 DEF Next0
<1>3. ASSUME NEW i \in T PROVE i + 1 \in T
  <2>1. CASE i + 1 <= k
    <3>1. f[i] = g[i] /\ i + 1 \in 0 .. k /\ i + 1 # 0 /\ (i + 1) - 1 = i
      BY <2>1
    <3>2. f[i + 1] = f[i] + Size(s[i + 1]) /\ g[i + 1] = g[i] + Size(s[i + 1])
      BY <1>1, <3>1 DEF Next0
    <3> QED
      BY <3>1, <3>2
  <2>2. CASE ~(i + 1 <= k)
    BY <2>2
  <2> QED
    BY <2>1, <2>2
<1> HIDE DEF T
<1>4. T = Nat
  <2>1. T \in SUBSET Nat
    BY DEF T
  <2> QED
    BY <1>2, <1>3, <2>1, Induction
<1> QED
  BY <1>4 DEF T

(* Where a message ends the next one starts.                               *)
LEMMA EndIs ==
  ASSUME NEW s
  PROVE  /\ End(s, 0) = 0
         /\ \A k \in Nat : End(s, k + 1) = End(s, k) + Size(s[k + 1])
<1> DEFINE F(k) == CHOOSE f : SumsTo(s, k, f)
<1>1. \A k : End(s, k) = F(k)[k]
  BY DEF End, SumsTo, Next0
<1>2. \A k \in Nat : SumsTo(s, k, F(k))
  BY SumsExist
<1> HIDE DEF F
<1>3. \A k \in Nat : \A i \in 0 .. k : F(k)[i] = Next0(s, F(k), i)
  BY <1>2, Zenon DEF SumsTo
<1>4. End(s, 0) = 0
  BY <1>1, <1>3 DEF Next0
<1>5. ASSUME NEW k \in Nat PROVE End(s, k + 1) = End(s, k) + Size(s[k + 1])
  <2>1. k + 1 \in Nat /\ k + 1 \in 0 .. k + 1 /\ k \in 0 .. k /\ (k + 1) - 1 = k /\ k + 1 # 0
        /\ k <= k + 1
    OBVIOUS
  <2>2. F(k + 1)[k + 1] = F(k + 1)[k] + Size(s[k + 1])
    BY <1>3, <2>1 DEF Next0
  <2>3. F(k)[k] = F(k + 1)[k]
    BY <1>2, <2>1, SumsAgree
  <2> QED
    BY <1>1, <2>2, <2>3
<1> QED
  BY <1>4, <1>5

(* A message is not shorter than its header; a KEEPALIVE is not longer.    *)
LEMMA SizeTypes ==
  \A t \in MessageType : Size(t) \in Nat /\ Size(t) >= HEADER /\ (t = KEEPALIVE => Size(t) = HEADER)
BY DEF MessageType, Size, HEADER, OPEN, UPDATE, NOTIFICATION, KEEPALIVE

(* The ends are numbers, and each lies behind the one before.              *)
LEMMA EndTypes ==
  ASSUME NEW s \in Seq(MessageType)
  PROVE  \A k \in 0 .. Len(s) : End(s, k) \in Nat
<1> DEFINE T == {k \in Nat : k <= Len(s) => End(s, k) \in Nat}
<1>1. 0 \in T
  BY EndIs
<1>2. ASSUME NEW k \in T PROVE k + 1 \in T
  <2> SUFFICES ASSUME k + 1 <= Len(s) PROVE End(s, k + 1) \in Nat
    OBVIOUS
  <2>1. End(s, k) \in Nat /\ s[k + 1] \in MessageType /\ k \in Nat
    OBVIOUS
  <2>2. End(s, k + 1) = End(s, k) + Size(s[k + 1]) /\ Size(s[k + 1]) \in Nat
    BY <2>1, EndIs, SizeTypes
  <2> QED
    BY <2>1, <2>2
<1> HIDE DEF T
<1>3. T = Nat
  <2>1. T \in SUBSET Nat
    BY DEF T
  <2> QED
    BY <1>1, <1>2, <2>1, Induction
<1> QED
  BY <1>3 DEF T

(* A message that is behind another one ends behind it.                    *)
LEMMA EndGrows ==
  ASSUME NEW s \in Seq(MessageType), NEW i \in 0 .. Len(s)
  PROVE  \A j \in 0 .. Len(s) : i < j => End(s, i) + HEADER <= End(s, j)
<1> DEFINE T == {j \in Nat : i < j /\ j <= Len(s) => End(s, i) + HEADER <= End(s, j)}
<1>1. 0 \in T
  OBVIOUS
<1>2. ASSUME NEW j \in T PROVE j + 1 \in T
  <2> SUFFICES ASSUME i < j + 1, j + 1 <= Len(s) PROVE End(s, i) + HEADER <= End(s, j + 1)
    OBVIOUS
  <2>1. s[j + 1] \in MessageType /\ i \in 0 .. Len(s) /\ j \in 0 .. Len(s)
    OBVIOUS
  <2>2. /\ End(s, j + 1) = End(s, j) + Size(s[j + 1]) /\ Size(s[j + 1]) \in Nat
        /\ Size(s[j + 1]) >= HEADER /\ End(s, i) \in Nat /\ End(s, j) \in Nat
    BY <2>1, EndIs, EndTypes, SizeTypes
  <2>3. i = j \/ (i < j /\ End(s, i) + HEADER <= End(s, j))
    OBVIOUS
  <2> QED
    BY <2>2, <2>3 DEF HEADER
<1> HIDE DEF T
<1>3. T = Nat
  <2>1. T \in SUBSET Nat
    BY DEF T
  <2> QED
    BY <1>1, <1>2, <2>1, Induction
<1> QED
  BY <1>3 DEF T

(***************************************************************************)
(* How many messages came whole                                            *)
(***************************************************************************)

(* It is the last message that ends in the first n bytes.                  *)
LEMMA WholeIs ==
  ASSUME NEW s \in Seq(MessageType), NEW n \in Nat
  PROVE  /\ Whole(s, n) \in 0 .. Len(s) /\ End(s, Whole(s, n)) <= n
         /\ Whole(s, n) = Len(s) \/ n < End(s, Whole(s, n) + 1)
<1> DEFINE Is(k) == End(s, k) <= n /\ (k = Len(s) \/ n < End(s, k + 1))
           T == {k \in Nat : k <= Len(s) => End(s, k) <= n}
<1>1. \E k \in 0 .. Len(s) : Is(k)
  <2> SUFFICES ASSUME \A k \in 0 .. Len(s) : ~Is(k) PROVE FALSE
    OBVIOUS
  <2>1. 0 \in T
    BY EndIs
  <2>2. ASSUME NEW k \in T PROVE k + 1 \in T
    <3> SUFFICES ASSUME k + 1 <= Len(s) PROVE End(s, k + 1) <= n
      OBVIOUS
    <3>1. /\ k \in 0 .. Len(s) /\ k + 1 \in 0 .. Len(s) /\ k # Len(s)
          /\ End(s, k) <= n /\ End(s, k + 1) \in Nat
      BY EndTypes
    <3>2. ~Is(k)
      BY <3>1
    <3> QED
      BY <3>1, <3>2
  <2> HIDE DEF T
  <2>3. T = Nat
    <3>1. T \in SUBSET Nat
      BY DEF T
    <3> QED
      BY <2>1, <2>2, <3>1, Induction
  <2>4. Len(s) \in T /\ Len(s) \in 0 .. Len(s)
    BY <2>3
  <2> QED
    BY <2>4 DEF T
<1>2. Whole(s, n) = CHOOSE k \in 0 .. Len(s) : Is(k)
  BY DEF Whole
<1> HIDE DEF Is
<1>3. Whole(s, n) \in 0 .. Len(s) /\ Is(Whole(s, n))
  BY <1>1, <1>2
<1> QED
  BY <1>3 DEF Is

(* A message that ends there is one of them.                               *)
LEMMA WholeHas ==
  ASSUME NEW s \in Seq(MessageType), NEW n \in Nat, NEW k \in 0 .. Len(s), End(s, k) <= n
  PROVE  k <= Whole(s, n)
<1> DEFINE w == Whole(s, n)
<1>1. w \in 0 .. Len(s) /\ (w = Len(s) \/ n < End(s, w + 1))
  BY WholeIs
<1> HIDE DEF w
<1> SUFFICES ASSUME w < k PROVE FALSE
  BY <1>1 DEF w
<1>2. w + 1 \in 0 .. Len(s) /\ n < End(s, w + 1) /\ (w + 1 = k \/ w + 1 < k)
  BY <1>1
<1>3. End(s, w + 1) \in Nat /\ End(s, k) \in Nat
  BY <1>2, EndTypes
<1>4. End(s, w + 1) <= End(s, k)
  <2>1. CASE w + 1 = k
    BY <1>3, <2>1
  <2>2. CASE w + 1 < k
    <3>1. End(s, w + 1) + HEADER <= End(s, k)
      BY <1>2, <2>2, EndGrows
    <3> QED
      BY <1>3, <3>1 DEF HEADER
  <2> QED
    BY <1>2, <2>1, <2>2
<1> QED
  BY <1>2, <1>3, <1>4

(* What came is not taken back.                                            *)
LEMMA WholeGrows ==
  ASSUME NEW s \in Seq(MessageType), NEW n \in Nat, NEW m \in Nat, n <= m
  PROVE  Whole(s, n) <= Whole(s, m)
<1>1. Whole(s, n) \in 0 .. Len(s) /\ End(s, Whole(s, n)) <= n
  BY WholeIs
<1>2. End(s, Whole(s, n)) \in Nat
  BY <1>1, EndTypes
<1>3. End(s, Whole(s, n)) <= m
  BY <1>1, <1>2
<1> QED
  BY <1>1, <1>3, WholeHas

(* The types of what came, in two parts.                                   *)
LEMMA TypesJoin ==
  ASSUME NEW s, NEW i \in Nat, NEW j \in Nat, i <= j
  PROVE  Types(s, 0, j) = Types(s, 0, i) \cup Types(s, i, j)
<1>1. 0 + 1 .. j = (0 + 1 .. i) \cup (i + 1 .. j)
  OBVIOUS
<1> QED
  BY <1>1 DEF Types

(***************************************************************************)
(* The handshake                                                           *)
(***************************************************************************)
HTypes ==
  /\ script \in Seq(MessageType) /\ read \in Nat
  /\ pc \in {"loop", "answer", "extra", "end"}
  /\ result \in {"none", "False", "True", "ConnectionError", "OSError"}

(* In the first loop the buffer starts behind the last whole message, and  *)
(* the flags tell all; behind it they still tell nothing that is not so.   *)
HInv ==
  /\ HTypes
  /\ pc = "loop" => start = Whole(script, read)
  /\ SeenWhatCame
  /\ got_open => OPEN \in Received
  /\ got_keepalive => KEEPALIVE \in Received
  /\ pc = "extra" => got_open
  /\ pc # "end" => result = "none"
  /\ ResultsAreTrue

(* What is received is what was received and what the chunk completes.     *)
LEMMA ChunkCompletes ==
  ASSUME HTypes, NEW n \in 1 .. Left, read' = read + n, UNCHANGED script
  PROVE  /\ read' \in Nat
         /\ Received' = Received \cup Types(script, Whole(script, read), Whole(script, read'))
<1>1. script \in Seq(MessageType) /\ read \in Nat
  BY DEF HTypes
<1>2. read' \in Nat /\ read <= read'
  <2>1. n \in Nat
    OBVIOUS
  <2> QED
    BY <1>1, <2>1
<1>3. Whole(script, read) \in Nat /\ Whole(script, read') \in Nat
  <2>1. Whole(script, read) \in 0 .. Len(script) /\ Whole(script, read') \in 0 .. Len(script)
    BY <1>1, <1>2, WholeIs
  <2> QED
    BY <2>1
<1>4. Whole(script, read) <= Whole(script, read')
  BY <1>1, <1>2, WholeGrows
<1>5. Received' = Types(script, 0, Whole(script, read'))
  BY DEF Received
<1>6. Received = Types(script, 0, Whole(script, read))
  BY DEF Received
<1>7. Types(script, 0, Whole(script, read')) =
        Types(script, 0, Whole(script, read))
          \cup Types(script, Whole(script, read), Whole(script, read'))
  BY <1>3, <1>4, TypesJoin
<1> QED
  BY <1>2, <1>5, <1>6, <1>7

(* Nothing is received before the first chunk.                             *)
LEMMA HandshakeStarts == Init => HInv
<1> SUFFICES ASSUME Init PROVE HInv
  OBVIOUS
<1>1. script \in Seq(MessageType)
  <2>1. PICK n \in 0 .. MaxMessages : script \in [1 .. n -> MessageType]
    BY DEF Init
  <2>2. n \in Nat
    BY HandshakeAssumption
  <2> QED
    BY <2>1, <2>2, SeqDef
<1>2. Whole(script, 0) = 0
  <2> DEFINE w == Whole(script, 0)
  <2>1. w \in 0 .. Len(script) /\ End(script, w) <= 0 /\ End(script, w) \in Nat
    BY <1>1, WholeIs, EndTypes
  <2>2. 0 \in 0 .. Len(script) /\ End(script, 0) = 0
    BY <1>1, EndIs
  <2> HIDE DEF w
  <2>3. ASSUME 0 < w PROVE FALSE
    <3>1. End(script, 0) + HEADER <= End(script, w)
      BY <1>1, <2>1, <2>2, <2>3, EndGrows
    <3> QED
      BY <2>1, <2>2, <3>1 DEF HEADER
  <2> QED
    BY <1>1, <2>1, <2>3 DEF w
<1>3. Received = {}
  BY <1>2 DEF Received, Types, Init
<1> QED
  BY <1>1, <1>2, <1>3 DEF HInv, HTypes, SeenWhatCame, ResultsAreTrue, Init

(* A chunk of the first loop.                                              *)
LEMMA ReceiveStep ==
  ASSUME HInv, NEW n \in 1 .. Left, Receive(n)
  PROVE  HInv'
<1> DEFINE types == Types(script, start, start')
<1>1. /\ pc = "loop" /\ read' = read + n /\ script' = script /\ HTypes
      /\ start = Whole(script, read) /\ start' = Whole(script, read') /\ result = "none"
  BY DEF Receive, Parsed, HInv
<1>2. read' \in Nat /\ Received' = Received \cup types
  BY <1>1, ChunkCompletes
<1>3. /\ got_open <=> OPEN \in Received
      /\ got_keepalive <=> KEEPALIVE \in Received
      /\ NOTIFICATION \notin Received
  BY <1>1 DEF HInv, SeenWhatCame
<1>4. CASE NOTIFICATION \in types
  <2>1. /\ pc' = "end" /\ result' = "ConnectionError"
        /\ got_open' = got_open /\ got_keepalive' = got_keepalive
    BY <1>4 DEF Receive, Return
  <2> QED
    BY <1>1, <1>2, <1>3, <1>4, <2>1 DEF HInv, HTypes, SeenWhatCame, ResultsAreTrue
<1>5. CASE NOTIFICATION \notin types
  <2>1. /\ pc' = "loop" /\ result' = "none"
        /\ got_open' = (got_open \/ OPEN \in types)
        /\ got_keepalive' = (got_keepalive \/ KEEPALIVE \in types)
    BY <1>1, <1>5 DEF Receive
  <2>2. /\ got_open' <=> OPEN \in Received'
        /\ got_keepalive' <=> KEEPALIVE \in Received'
        /\ NOTIFICATION \notin Received'
    BY <1>2, <1>3, <1>5, <2>1
  <2>3. pc' # "end" /\ pc' # "extra"
    BY <2>1
  <2> QED
    BY <1>1, <1>2, <2>1, <2>2, <2>3 DEF HInv, HTypes, SeenWhatCame, ResultsAreTrue
<1> QED
  BY <1>4, <1>5

(* A chunk of the second loop: the KEEPALIVE that is found came whole.     *)
LEMMA ReceiveExtraStep ==
  ASSUME HInv, NEW n \in 1 .. Left, ReceiveExtra(n)
  PROVE  HInv'
<1>1. /\ pc = "extra" /\ read' = read + n /\ UNCHANGED <<script, got_open>> /\ HTypes /\ got_open
      /\ result = "none"
  BY DEF ReceiveExtra, HInv
<1>2. read' \in Nat /\ Received \subseteq Received'
  BY <1>1, ChunkCompletes
<1>3. CASE Found(n)
  <2>1. PICK k \in 1 .. Len(script) :
          /\ script[k] = KEEPALIVE
          /\ read <= End(script, k - 1) /\ End(script, k - 1) + HEADER < read + n
    BY <1>3 DEF Found
  <2>2. script \in Seq(MessageType) /\ read \in Nat /\ n \in Nat
    BY <1>1 DEF HTypes
  <2>3. k \in 0 .. Len(script) /\ k - 1 \in 0 .. Len(script) /\ k - 1 \in Nat /\ (k - 1) + 1 = k
    BY <2>2
  <2>4. End(script, k) = End(script, k - 1) + HEADER
    <3>1. End(script, k) = End(script, k - 1) + Size(script[k])
      BY <2>3, EndIs
    <3>2. KEEPALIVE \in MessageType
      BY DEF MessageType
    <3> QED
      BY <2>1, <3>1, <3>2, SizeTypes
  <2>5. End(script, k) <= read'
    <3>1. End(script, k) \in Nat
      BY <2>2, <2>3, EndTypes
    <3> QED
      BY <1>1, <1>2, <2>1, <2>2, <2>4, <3>1
  <2>6. k <= Whole(script, read') /\ Whole(script, read') \in 0 .. Len(script)
    BY <1>2, <2>2, <2>3, <2>5, WholeHas, WholeIs
  <2>7. KEEPALIVE \in Received'
    <3>1. k \in 0 + 1 .. Whole(script, read')
      BY <2>6
    <3>2. script[k] \in Types(script, 0, Whole(script, read'))
      BY <3>1 DEF Types
    <3> QED
      BY <1>1, <2>1, <3>2 DEF Received
  <2>8. pc' = "end" /\ result' = "True" /\ got_keepalive' = TRUE
    BY <1>3 DEF ReceiveExtra, Return
  <2>9. OPEN \in Received'
    BY <1>1, <1>2 DEF HInv
  <2> QED
    BY <1>1, <1>2, <2>7, <2>8, <2>9 DEF HInv, HTypes, SeenWhatCame, ResultsAreTrue
<1>4. CASE ~Found(n)
  <2>1. UNCHANGED <<got_keepalive, pc, result>>
    BY <1>4 DEF ReceiveExtra
  <2> QED
    BY <1>1, <1>2, <2>1 DEF HInv, HTypes, SeenWhatCame, ResultsAreTrue
<1> QED
  BY <1>3, <1>4

(* Every step.                                                             *)
LEMMA HandshakeGoesOn == HInv /\ [Next]_vars => HInv'
<1> SUFFICES ASSUME HInv, [Next]_vars PROVE HInv'
  OBVIOUS
<1>1. ASSUME UNCHANGED <<script, read, start, got_open, got_keepalive>>,
             pc' \in {"answer", "extra", "end"}, pc' = "extra" => got_open,
             result' \in {"none", "False", "True", "OSError"}, pc' # "end" => result' = "none",
             result' = "True" => got_open /\ got_keepalive
      PROVE  HInv'
  <2>1. Received' = Received
    BY <1>1 DEF Received
  <2> QED
    BY <1>1, <2>1 DEF HInv, HTypes, SeenWhatCame, ResultsAreTrue
<1>2. CASE ReceiveEnd
  BY <1>1, <1>2 DEF ReceiveEnd, Return
<1>3. CASE LoopEnds
  BY <1>1, <1>3 DEF LoopEnds, HInv
<1>4. CASE Answer
  BY <1>1, <1>4 DEF Answer, Return, HInv
<1>5. CASE ExtraEnds
  BY <1>1, <1>5 DEF ExtraEnds, Return
<1>6. CASE Raise
  BY <1>1, <1>6 DEF Raise, Return
<1>7. CASE UNCHANGED vars
  <2>1. Received' = Received
    BY <1>7 DEF Received, vars
  <2> QED
    BY <1>7, <2>1 DEF vars, HInv, HTypes, SeenWhatCame, ResultsAreTrue
<1> QED
  BY <1>2, <1>3, <1>4, <1>5, <1>6, <1>7, ReceiveStep, ReceiveExtraStep DEF Next, Done

(* The invariant of the handshake.                                         *)
LEMMA HandshakeInvariant == Spec => []HInv
BY HandshakeStarts, HandshakeGoesOn, PTL DEF Spec

(* However the stream is cut into chunks, the first loop of                *)
(* perform_bgp_handshake has seen just the messages that came whole, and   *)
(* no NOTIFICATION among them.                                             *)
THEOREM SeesWhatCame == Spec => []SeenWhatCame
<1>1. HInv => SeenWhatCame
  BY DEF HInv
<1> QED
  BY <1>1, HandshakeInvariant, PTL

(* perform_bgp_handshake returns True only after the peer's OPEN and its   *)
(* KEEPALIVE came whole, also where the second loop found the KEEPALIVE,   *)
(* and reports a NOTIFICATION only if one came.                            *)
THEOREM ResultsAreAlwaysTrue == Spec => []ResultsAreTrue
<1>1. HInv => ResultsAreTrue
  BY DEF HInv
<1> QED
  BY <1>1, HandshakeInvariant, PTL

=============================================================================
