----------------------------- MODULE BitVectors ------------------------------
(* Words as sets: the positions of the bits that are 1.  The codecs' checks and *)
(* and error corrections are linear over GF(2); addition there is Plus.        *)
EXTENDS Integers, FiniteSets, FiniteSetsExt

\* The sum of a set of words.
Total(words) == FoldSet(SymDiff, {}, words)

ShiftUp(a, k) == {i + k : i \in a}

Parity(a) == Cardinality(a) % 2

\* Bits from..from+n-1 as a word of their own, and a word turned around.
Field(a, from, n) == {i - from : i \in {j \in a : from <= j /\ j < from + n}}
Reversed(a, n) == {n - 1 - i : i \in a}

WordOf(x, n) == {i \in 0..(n - 1) : (x \div 2^i) % 2 = 1}

\* The whitening register of both air interfaces, x^7 + x^4 + 1: the word of the
\* first n bits it puts out.
WhiteningBits(register, n) ==
  LET reg[k \in 0..n] ==
        IF k = 0 THEN register
        ELSE LET r == reg[k - 1]
             IN  ShiftUp(IF 0 \in r THEN SymDiff(r, {0, 3, 7}) ELSE r, -1)
  IN  {k \in 0..(n - 1) : 0 \in reg[k]}
=============================================================================
