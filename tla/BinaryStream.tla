---------------------------- MODULE BinaryStream ----------------------------
(***************************************************************************)
(* The numbers in the byte code of the game, as the library reads them     *)
(* (BinaryStream of do_lib/binary_stream.h), and as a compiler writes      *)
(* them.  Those of variable length have 30 bits, as in the format.         *)
(***************************************************************************)
EXTENDS Integers, SequencesExt

VARIABLES
  data,       \* the bytes
  position    \* the next one to be read

(* Past the bytes known there may be any, here 0.                          *)
Byte(p) == IF p < Len(data) THEN data[p + 1] ELSE 0

Pow == <<1, 128, 128^2, 128^3, 128^4>>

(* read_u32: seven bits of each byte; the next byte is read if the eighth  *)
(* is set.  Of the fifth there are two bits in a number of 30.             *)
More(p) ==
  CHOOSE k \in 0..4 : /\ k = 4 \/ Byte(p + k) < 128
                      /\ \A l \in 0..k - 1 : Byte(p + l) >= 128

Part(p, k) ==
  IF k > More(p) THEN 0 ELSE (Byte(p + k) % IF k = 4 THEN 4 ELSE 128) * Pow[k + 1]

U32At(p) ==
  [v |-> Part(p, 0) + Part(p, 1) + Part(p, 2) + Part(p, 3) + Part(p, 4),
   next |-> p + More(p) + 1]

S24At(p) ==
  LET b == Byte(p + 2)
      high == IF b < 128 THEN b ELSE b - 256
  IN [v |-> Byte(p) + 256 * Byte(p + 1) + 65536 * high, next |-> p + 3]

ByteAt(p) == [v |-> Byte(p), next |-> p + 1]

NumberAt(kind, p) ==
  CASE kind = "U30" -> U32At(p)
    [] kind = "S24" -> S24At(p)
    [] kind = "Byte" -> ByteAt(p)

(* Numbers of these kinds, one after the other.                            *)
NumbersAt(kinds, p) ==
  LET from[k \in 0..Len(kinds)] ==
        IF k = 0 THEN p ELSE NumberAt(kinds[k], from[k - 1]).next
  IN [v |-> [k \in 1..Len(kinds) |-> NumberAt(kinds[k], from[k - 1]).v],
      next |-> from[Len(kinds)]]

All(kind, n) == [k \in 1..n |-> kind]

-----------------------------------------------------------------------------
(* The format: seven bits a byte, the eighth says that another follows; or *)
(* three bytes; or one.                                                    *)
Unsigned30(v) == v \in Nat /\ v < 1073741824
Signed24(v) == v \in Int /\ -8388608 <= v /\ v < 8388608

Numeral(kind, v) ==
  CASE kind = "U30" -> Unsigned30(v)
    [] kind = "S24" -> Signed24(v)
    [] kind = "Byte" -> v \in 0..255

Width(v) == CHOOSE k \in 1..5 : /\ k = 5 \/ v < Pow[k + 1]
                                /\ \A l \in 1..k - 1 : v >= Pow[l + 1]

U30Bytes(v) ==
  [k \in 1..Width(v) |-> ((v \div Pow[k]) % 128) + IF k < Width(v) THEN 128 ELSE 0]

S24Bytes(v) ==
  LET u == IF v < 0 THEN v + 16777216 ELSE v
  IN <<u % 256, (u \div 256) % 256, u \div 65536>>

NumberBytes(kind, v) ==
  CASE kind = "U30" -> U30Bytes(v)
    [] kind = "S24" -> S24Bytes(v)
    [] kind = "Byte" -> <<v>>

Written(kinds, values) ==
  FlattenSeq([k \in 1..Len(kinds) |-> NumberBytes(kinds[k], values[k])])

U30s(values) == Written(All("U30", Len(values)), values)

=============================================================================
