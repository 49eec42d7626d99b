------------------------------ MODULE UsbRules ------------------------------
(***************************************************************************)
(* The injection rules of the USB proxy (proxy.cpp): which rules apply to  *)
(* a transfer, and what a matching rule does to the packet.  A packet is a *)
(* sequence of bytes.  Operations read one byte, or two in little-endian   *)
(* order, as a signed number.                                              *)
(***************************************************************************)
EXTENDS Integers, Sequences, SequencesExt, Bitwise

CONSTANTS Byte,       \* 256 in the code: the number of values of a byte
          MaxLength   \* 1023: the longest packet a replacement may produce

\* The largest signed number of so many bytes, and the two's complement.
Top(size) == (IF size = 2 THEN Byte * Byte ELSE Byte) \div 2 - 1
Signed(v, size) == IF v > Top(size) THEN v - 2 * (Top(size) + 1) ELSE v
Unsigned(v, size) == v % (2 * (Top(size) + 1))
Limited(v, size) == IF v > Top(size) THEN Top(size)
                    ELSE IF v < -Top(size) - 1 THEN -Top(size) - 1 ELSE v

\* Offsets count from 0.
At(data, offset) == data[offset + 1]
Put(data, offset, v) == [data EXCEPT ![offset + 1] = v]
Inside(data, offset, size) == offset >= 0 /\ offset + size <= Len(data)

Value(data, op) ==
    Signed(At(data, op.offset) + (IF op.size = 2 THEN Byte * At(data, op.offset + 1) ELSE 0), op.size)
Store(data, op, v) ==
    LET u == Unsigned(v, op.size)
    IN IF op.size = 2 THEN Put(Put(data, op.offset, u % Byte), op.offset + 1, u \div Byte)
       ELSE Put(data, op.offset, u)

\* C's conversion of a product to int: towards zero.  A factor is num/den.
Scaled(v, op) == IF v * op.num >= 0 THEN (v * op.num) \div op.den
                 ELSE -((-(v * op.num)) \div op.den)
AtLeast(v, low) == IF v < low THEN low ELSE v
AtMost(v, high) == IF v > high THEN high ELSE v

\* The number an operation computes.  The negation of one byte is not
\* limited: the least value keeps its sign.
Computed(op, v) ==
    CASE op.type = "negate" -> IF op.size = 2 THEN Limited(-v, 2) ELSE -v
      [] op.type = "scale"  -> Limited(Scaled(v, op), op.size)
      [] op.type = "add"    -> Limited(v + op.value, op.size)
      [] op.type = "clamp"  -> AtLeast(AtMost(v, op.max), op.min)

\* apply_operations: what lies outside the packet is left alone.
Apply(data, op) ==
    CASE op.type \in {"negate", "scale", "add", "clamp"} ->
            IF Inside(data, op.offset, op.size) THEN Store(data, op, Computed(op, Value(data, op))) ELSE data
      [] op.type = "xor" ->
            IF Inside(data, op.offset, 1) THEN Put(data, op.offset, At(data, op.offset) ^^ op.value) ELSE data
      [] op.type = "swap" ->
            IF Inside(data, op.offset, 1) /\ Inside(data, op.other, 1)
            THEN Put(Put(data, op.offset, At(data, op.other)), op.other, At(data, op.offset)) ELSE data
      [] op.type = "copy" ->
            IF Inside(data, op.offset, 1) /\ Inside(data, op.other, 1)
            THEN Put(data, op.other, At(data, op.offset)) ELSE data
      [] op.type = "set" -> IF Inside(data, op.offset, 1) THEN Put(data, op.offset, op.value % Byte) ELSE data
      [] OTHER -> data
Operated(data, ops) == FoldLeft(Apply, data, ops)

-----------------------------------------------------------------------------
(* Replacement *)

\* The first place a pattern is found, or 0.
Found(data, pattern) ==
    LET at == {i \in 1 .. Len(data) - Len(pattern) + 1 : SubSeq(data, i, i + Len(pattern) - 1) = pattern}
    IN IF at = {} THEN 0 ELSE CHOOSE i \in at : \A j \in at : i <= j

Replaced(data, pattern, new) ==
    LET i == Found(data, pattern)
    IN SubSeq(data, 1, i - 1) \o new \o SubSeq(data, i + Len(pattern), Len(data))

\* The loop of one pattern stops when it is found no more, or the packet
\* would become too long; fuel bounds it, because a pattern that its
\* replacement brings back keeps it going.
Stops(data, pattern, new) ==
    Found(data, pattern) = 0 \/ Len(data) - Len(pattern) + Len(new) > MaxLength
Step(pattern, new, data) == IF Stops(data, pattern, new) THEN data ELSE Replaced(data, pattern, new)
Rounds(data, pattern, new, fuel) ==
    FoldLeft(LAMBDA d, i : Step(pattern, new, d), data, [i \in 1 .. fuel |-> i])
Ends(data, pattern, new, fuel) == Stops(Rounds(data, pattern, new, fuel), pattern, new)

-----------------------------------------------------------------------------
(* Rules *)

\* apply_injection_pipeline: the replacement, then the operations.
Piped(rule, data, fuel) ==
    LET patched == IF rule.new = <<>> THEN data
                   ELSE FoldLeft(LAMBDA d, pattern : Rounds(d, pattern, rule.new, fuel), data, rule.patterns)
    IN [data |-> Operated(patched, rule.ops), modified |-> patched # data \/ rule.ops # <<>>]

\* injection of an endpoint transfer: the first enabled rule of the endpoint
\* that changes anything ends the search.
Endpoint(rules, ep, data, fuel) ==
    FoldLeft(LAMBDA s, rule :
                IF s.modified \/ ~rule.enabled \/ rule.ep # ep THEN s ELSE Piped(rule, s.data, fuel),
             [data |-> data, modified |-> FALSE], rules)

\* injection of a control transfer: all enabled modify rules of the request,
\* in order, then the last word of the ignore and the stall rules.  A rule
\* names the length too, and a modified OUT request takes on that of its data:
\* the rules after it are compared with the new one.
Matches(rule, request) == rule.enabled /\ rule.id = request.id /\ rule.length = request.length
Modify(s, rule, fuel) ==
    IF ~Matches(rule, s.request) THEN s
    ELSE LET data == Piped(rule, s.data, fuel).data
         IN [data |-> data,
             request |-> IF s.request.in THEN s.request ELSE [s.request EXCEPT !.length = Len(data)]]
Flag(rules, request) ==
    IF \E i \in DOMAIN rules.stall : Matches(rules.stall[i], request) THEN "stall"
    ELSE IF \E i \in DOMAIN rules.ignore : Matches(rules.ignore[i], request) THEN "ignore" ELSE "none"
Control(rules, request, data, fuel) ==
    LET s == FoldLeft(LAMBDA t, rule : Modify(t, rule, fuel), [data |-> data, request |-> request], rules.modify)
    IN [data |-> s.data, flag |-> Flag(rules, s.request)]
=============================================================================
