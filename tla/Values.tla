------------------------------- MODULE Values -------------------------------
(***************************************************************************)
(* Machine values, scaled down.  A byte has ByteBits bits, so an i32 has   *)
(* 4 * ByteBits and an i64 has 8 * ByteBits; every width-dependent case    *)
(* (sign bits, wrap-around, truncation, shift masks) survives the scaling. *)
(* A float is <<kind, n>>: a number n in units of 2^-FracBits, a signed    *)
(* zero, a signed infinity or a NaN.  A format is its precision in bits;   *)
(* as in the real formats, f32 is too narrow for an i32 and f64 is wide    *)
(* enough for an i32 but not for an i64.                                   *)
(***************************************************************************)
EXTENDS Integers, SequencesExt, Bitwise

CONSTANTS ByteBits, FracBits, F32Prec, F64Prec

ASSUME ValuesAssumption ==
  /\ ByteBits \in Nat \ {0} /\ FracBits \in Nat \ {0}
  /\ F32Prec \in Nat /\ F64Prec \in Nat
  /\ F32Prec < 4 * ByteBits /\ 4 * ByteBits < F64Prec /\ F64Prec < 8 * ByteBits
  /\ \E k \in 0 .. 3 : ByteBits = 2^k

(***************************************************************************)
(* Widths.  Bytes gives the size of a type of the Rust code on the guest   *)
(* stack; IsSigned tells i32 from u32.                                     *)
(***************************************************************************)
Bytes == [i8 |-> 1, u8 |-> 1, i16 |-> 2, u16 |-> 2, i32 |-> 4, u32 |-> 4,
          f32 |-> 4, i64 |-> 8, u64 |-> 8, f64 |-> 8, u128 |-> 16]
Bits(t) == Bytes[t] * ByteBits
IsSigned(t) == t \in {"i8", "i16", "i32", "i64"}
IsFloat(t) == t \in {"f32", "f64"}
Word(t) == 0 .. (2^Bits(t) - 1)

Wrap(n, v) == v % 2^n
Signed(n, v) == IF v >= 2^(n - 1) THEN v - 2^n ELSE v

MinOf(t) == IF IsSigned(t) THEN -(2^(Bits(t) - 1)) ELSE 0
MaxOf(t) == IF IsSigned(t) THEN 2^(Bits(t) - 1) - 1 ELSE 2^Bits(t) - 1
InRange(t, v) == MinOf(t) <= v /\ v <= MaxOf(t)
Saturate(t, v) == IF v < MinOf(t) THEN MinOf(t) ELSE IF v > MaxOf(t) THEN MaxOf(t) ELSE v

(* Stored bits read as a value of type t, and back.                        *)
ReadAs(t, v) == IF IsSigned(t) THEN Signed(Bits(t), v) ELSE v
StoreAs(t, v) == IF IsFloat(t) THEN v ELSE Wrap(Bits(t), v)

BitSet(n, v) == {i \in 0 .. (n - 1) : (v \div 2^i) % 2 = 1}
MaxBit(bits) == CHOOSE i \in bits : \A j \in bits : j <= i
MinBit(bits) == CHOOSE i \in bits : \A j \in bits : i <= j
AbsInt(v) == IF v < 0 THEN -v ELSE v
SignOf(v) == IF v < 0 THEN -1 ELSE 1
TruncDiv(a, b) == SignOf(a) * SignOf(b) * (AbsInt(a) \div AbsInt(b))
FloorDiv2(a, k) == a \div 2^k

(***************************************************************************)
(* The guest stack, in cells of four bytes.  A cell is <<v, i, n>>: the    *)
(* i-th of the n cells of the value v.  Operands finds the values a        *)
(* handler pops, in the order of its pops; a cell that is not where the    *)
(* handler expects it, or of another width, makes the result Garbled.      *)
(***************************************************************************)
Cells(t) == Bytes[t] \div 4
CellsOf(t, v) == [i \in 1 .. Cells(t) |-> <<StoreAs(t, v), i, Cells(t)>>]
Total(ts, n) == FoldLeft(LAMBDA acc, t : acc + Cells(t), 0, SubSeq(ts, 1, n))
Found(stack, ts) ==
  /\ Total(ts, Len(ts)) <= Len(stack)
  /\ \A i \in 1 .. Len(ts) : \A k \in 1 .. Cells(ts[i]) :
       LET c == stack[Len(stack) - Total(ts, i) + k]
       IN c[2] = k /\ c[3] = Cells(ts[i])
Operands(stack, ts) ==
  [i \in 1 .. Len(ts) |-> ReadAs(ts[i], stack[Len(stack) - Total(ts, i) + 1][1])]
Popped(stack, ts) == SubSeq(stack, 1, Len(stack) - Total(ts, Len(ts)))

(***************************************************************************)
(* Floats.                                                                 *)
(***************************************************************************)
NaN == <<"nan", 0>>
Inf(s) == <<"inf", s>>
Zero(s) == <<"zero", s>>
One == 2^FracBits
Huge == 2^(8 * ByteBits + FracBits + 2)
Prec(t) == IF t = "f32" THEN F32Prec ELSE F64Prec

IsNaN(f) == f[1] = "nan"
FloatSign(f) == CASE f[1] = "num" -> SignOf(f[2]) [] f[1] = "nan" -> 1 [] OTHER -> f[2]
Magnitude(f) == CASE f[1] = "num" -> f[2] [] f[1] = "inf" -> f[2] * Huge [] OTHER -> 0
Float(n, s) == IF n = 0 THEN Zero(s) ELSE <<"num", n>>

(* Numbers of p significant bits, and rounding to nearest, ties to even.   *)
Ulp(p, n) ==
  2^(CHOOSE k \in 0 .. (8 * ByteBits + FracBits + 2) :
       /\ AbsInt(n) < 2^(p + k)
       /\ k = 0 \/ AbsInt(n) >= 2^(p + k - 1))
Representable(p, n) == n % Ulp(p, n) = 0
TieToEven(q, r, u) == IF 2 * r > u \/ (2 * r = u /\ q % 2 = 1) THEN q + 1 ELSE q
RoundBy(u, n) == SignOf(n) * u * TieToEven(AbsInt(n) \div u, AbsInt(n) % u, u)
RoundTo(p, n) == RoundBy(Ulp(p, n), n)
FloatsOf(t, S) ==
  {NaN, Inf(1), Inf(-1), Zero(1), Zero(-1)}
    \cup {<<"num", n>> : n \in {m \in S : m # 0 /\ Representable(Prec(t), m)}}

(* The integer part of a finite number, in units of 1, toward zero.        *)
IntPart(n) == SignOf(n) * (AbsInt(n) \div One)
=============================================================================
