-------------------------- MODULE CallbackPayload --------------------------
(***************************************************************************)
(* What a button says (infrastructure/max/payloads.py) and how the handlers *)
(* take it apart.  A payload is the sequence of its parts between colons; a *)
(* part is any string without a colon, the empty one included.  An argument *)
(* has one part or more, so None is the empty sequence here.                *)
(***************************************************************************)
EXTENDS Integers, Sequences, SequenceTheorems, TLAPS

None == << >>
NoAction == ""

encode(action, arg) == <<"gp", "v1", action>> \o arg

(* A payload of another origin decodes to the empty action, which           *)
(* on_callback answers with nothing.                                        *)
decode(payload) ==
  IF Len(payload) < 3 \/ payload[1] # "gp" \/ payload[2] # "v1"
  THEN [action |-> NoAction, arg |-> None]
  ELSE [action |-> payload[3], arg |-> SubSeq(payload, 4, Len(payload))]

(* The handlers of a request's buttons cut their argument at its first      *)
(* colon: a kind and the request's id, or the id and a reason.              *)
split(arg) == <<arg[1], SubSeq(arg, 2, Len(arg))>>

-----------------------------------------------------------------------------
LEMMA Encoded ==
  ASSUME NEW S, NEW action, NEW arg \in Seq(S)
  PROVE  /\ Len(encode(action, arg)) = Len(arg) + 3
         /\ encode(action, arg)[1] = "gp" /\ encode(action, arg)[2] = "v1"
         /\ encode(action, arg)[3] = action
         /\ \A i \in 1..Len(arg) : encode(action, arg)[i + 3] = arg[i]
<1> QED
  BY DEF encode

LEMMA Rest ==
  ASSUME NEW S, NEW p \in Seq(S), Len(p) >= 3
  PROVE  /\ SubSeq(p, 4, Len(p)) \in Seq(S)
         /\ Len(SubSeq(p, 4, Len(p))) = Len(p) - 3
         /\ \A i \in 1..(Len(p) - 3) : SubSeq(p, 4, Len(p))[i] = p[i + 3]
<1> DEFINE n == Len(p)
<1>1. n \in Int /\ \A i \in 4..n : p[i] \in S
  OBVIOUS
<1> HIDE DEF n
<1>2. SubSeq(p, 4, n) \in Seq(S)
      /\ Len(SubSeq(p, 4, n)) = (IF 4 <= n THEN n - 4 + 1 ELSE 0)
      /\ \A i \in 1..(n - 4 + 1) : SubSeq(p, 4, n)[i] = p[4 + i - 1]
  BY <1>1, SubSeqProperties
<1>3. n >= 3
  BY DEF n
<1>4. Len(SubSeq(p, 4, n)) = n - 3
      /\ \A i \in 1..(n - 3) : SubSeq(p, 4, n)[i] = p[i + 3]
  BY <1>1, <1>2, <1>3
<1> QED
  BY <1>2, <1>4 DEF n

LEMMA Decoded ==
  ASSUME NEW p, Len(p) \in Nat
  PROVE  /\ Len(p) >= 3 /\ p[1] = "gp" /\ p[2] = "v1" =>
              decode(p) = [action |-> p[3], arg |-> SubSeq(p, 4, Len(p))]
         /\ ~ (Len(p) >= 3 /\ p[1] = "gp" /\ p[2] = "v1") =>
              decode(p) = [action |-> NoAction, arg |-> None]
<1> QED
  BY DEF decode

(* Whatever was put into a button comes out of it: the action and the whole *)
(* argument, colons in it included.                                         *)
THEOREM RoundTrip ==
  ASSUME NEW S, NEW action \in S, NEW arg \in Seq(S)
  PROVE  decode(encode(action, arg)) = [action |-> action, arg |-> arg]
<1> DEFINE p == encode(action, arg)
           rest == SubSeq(p, 4, Len(p))
<1>1. p \in Seq(S \cup {"gp", "v1"})
  BY DEF encode
<1>2. Len(p) = Len(arg) + 3 /\ Len(arg) \in Nat
  BY Encoded
<1>3. Len(rest) = Len(arg) /\ rest \in Seq(S \cup {"gp", "v1"})
      /\ \A i \in 1..Len(arg) : rest[i] = p[i + 3]
  <2> HIDE DEF p
  <2> QED
    BY <1>1, <1>2
<1>4. \A i \in 1..Len(arg) : rest[i] = arg[i]
  BY <1>3, Encoded
<1>5. rest = arg
  <2> HIDE DEF rest
  <2> QED
    BY <1>3, <1>4
<1>6. Len(p) >= 3 /\ p[1] = "gp" /\ p[2] = "v1" /\ p[3] = action
  BY <1>2, Encoded
<1>7. decode(p) = [action |-> p[3], arg |-> rest]
  BY <1>6, Decoded
<1> QED
  BY <1>5, <1>6, <1>7

(* No other payload is taken for a button: what decodes to an action is the *)
(* encoding of what it decodes to.                                          *)
THEOREM OnlyEncoded ==
  ASSUME NEW S, NEW p \in Seq(S), decode(p).action # NoAction
  PROVE  p = encode(decode(p).action, decode(p).arg)
<1> DEFINE rest == SubSeq(p, 4, Len(p))
           q == encode(p[3], rest)
<1>1. Len(p) >= 3 /\ p[1] = "gp" /\ p[2] = "v1"
      /\ decode(p) = [action |-> p[3], arg |-> rest]
  <2>1. CASE Len(p) >= 3 /\ p[1] = "gp" /\ p[2] = "v1"
    BY <2>1, Decoded
  <2>2. CASE ~ (Len(p) >= 3 /\ p[1] = "gp" /\ p[2] = "v1")
    <3>1. decode(p) = [action |-> NoAction, arg |-> None]
      BY <2>2, Decoded
    <3> QED
      BY <3>1
  <2> QED
    BY <2>1, <2>2
<1>2. rest \in Seq(S) /\ Len(rest) = Len(p) - 3 /\ Len(p) \in Nat
      /\ \A i \in 1..(Len(p) - 3) : rest[i] = p[i + 3]
  BY <1>1, Rest
<1> HIDE DEF rest
<1>3. q \in Seq(S \cup {"gp", "v1"})
  BY <1>1, <1>2 DEF encode
<1>4. Len(q) = Len(rest) + 3 /\ q[1] = "gp" /\ q[2] = "v1" /\ q[3] = p[3]
      /\ \A i \in 1..Len(rest) : q[i + 3] = rest[i]
  BY <1>2, Encoded
<1> HIDE DEF q
<1>5. ASSUME NEW i \in 1..Len(p) PROVE q[i] = p[i]
  <2>1. CASE i \in {1, 2, 3}
    BY <1>1, <1>4, <2>1
  <2>2. CASE i > 3
    <3>1. i - 3 \in 1..Len(rest) /\ (i - 3) + 3 = i
      BY <1>2, <2>2
    <3> QED
      BY <1>2, <1>4, <3>1
  <2> QED
    BY <1>2, <2>1, <2>2
<1>6. q = p
  BY <1>2, <1>3, <1>4, <1>5
<1> QED
  BY <1>1, <1>6 DEF q

(* The buttons of a request: the kind and the id, or the id and the reason, *)
(* that keyboards.py glued together reach the handler apart.                *)
THEOREM PartsArrive ==
  ASSUME NEW S, NEW action \in S, NEW first \in S, NEW second \in S
  PROVE  split(decode(encode(action, <<first, second>>)).arg) = <<first, <<second>>>>
<1> DEFINE a == <<first, second>>
           d == decode(encode(action, a))
<1>1. a \in Seq(S)
  OBVIOUS
<1>2. split(a) = <<first, <<second>>>>
  <2> DEFINE rest == SubSeq(a, 2, 2)
  <2>1. a[1] = first /\ a[2] = second /\ Len(a) = 2
    OBVIOUS
  <2>2. rest \in Seq(S) /\ Len(rest) = 1 /\ rest[1] = a[2]
    <3> HIDE DEF a
    <3>1. rest \in Seq(S) /\ Len(rest) = 2 - 2 + 1
          /\ \A i \in 1..(2 - 2 + 1) : rest[i] = a[2 + i - 1]
      BY <1>1, <2>1, SubSeqProperties
    <3> HIDE DEF rest
    <3> QED
      BY <3>1
  <2> HIDE DEF rest
  <2>3. rest = <<second>>
    BY <2>1, <2>2
  <2> QED
    BY <2>1, <2>3 DEF split, rest
<1>3. d = [action |-> action, arg |-> a]
  BY <1>1, RoundTrip
<1> HIDE DEF d
<1>4. d.arg = a
  BY <1>3
<1>5. split(d.arg) = <<first, <<second>>>>
  BY <1>2, <1>4
<1> QED
  BY <1>5, Zenon DEF d
=============================================================================
