------------------------------ MODULE FeeRates ------------------------------
(***************************************************************************)
(* Fee rates as the crate decodes them (custom_serde.rs): a decimal number *)
(* in BTC/kvB or sat/vB is read into an f32, multiplied in f32 by the      *)
(* factor to sat/kwu, and truncated to an integer.                         *)
(*                                                                         *)
(* A rate of n sat/kvB is sent as n/D, with D = 10^8 in BTC/kvB and        *)
(* D = 10^3 in sat/vB.  An f32 is [m |-> m, e |-> e] for m / 2^e, where m  *)
(* has 24 bits unless it is zero.  TLC's integers have 32: the product of  *)
(* two of 24 is put together from halves.                                  *)
(***************************************************************************)
EXTENDS Integers, SequencesExt

SatPerBtc == 100000000
VbPerKvb == 1000

\* n/D = (m + rem/D) / 2^e with the 24 bits of m significant: long division,
\* bit after bit until the first one that is set is the 24th.
Significant(n, D) ==
  FoldLeft(LAMBDA v, bit :
             IF v.m >= 2 ^ 23 THEN v
             ELSE [m |-> 2 * v.m + (2 * v.rem) \div D, rem |-> (2 * v.rem) % D, e |-> v.e + 1],
           [m |-> n \div D, rem |-> n % D, e |-> 0], [bit \in 1 .. 60 |-> bit])

\* m + rest/whole to the nearest integer, a half to the even one.
Rounded(m, rest, whole) ==
  IF 2 * rest > whole \/ (2 * rest = whole /\ m % 2 = 1) THEN m + 1 ELSE m

\* The f32 nearest to n/D, for n/D below 2^24.
Nearest(n, D) ==
  LET v == Significant(n, D)
  IN IF n = 0 THEN [m |-> 0, e |-> 0] ELSE [m |-> Rounded(v.m, v.rem, D), e |-> v.e]

\* The product of two f32 is an integer of 48 bits, high * 2^24 + low, which
\* is cut to its first 24, of which high has all or all but one.
Times(a, b) ==
  LET half == 2 ^ 12
      lows == (a.m % half) * (b.m % half)
      mids == (a.m \div half) * (b.m % half) + (a.m % half) * (b.m \div half) + (lows \div half)
      high == (a.m \div half) * (b.m \div half) + (mids \div half)
      low == (mids % half) * half + (lows % half)
  IN IF high >= 2 ^ 23 THEN [m |-> Rounded(high, low, 2 ^ 24), e |-> a.e + b.e - 24]
     ELSE [m |-> Rounded(2 * high + (low \div 2 ^ 23), low % 2 ^ 23, 2 ^ 23), e |-> a.e + b.e - 23]

\* The cast of an f32 to an integer.
Truncated(a) == IF a.e >= 0 THEN a.m \div 2 ^ a.e ELSE a.m * 2 ^ (-a.e)

\* Mutant: the factor is that of BTC to sat, not divided by four.
SatPerKvbFromBtc(n) == Truncated(Times(Nearest(n, SatPerBtc), [m |-> 12500000, e |-> -3]))

\* From BTC/kvB, by 100_000_000 / 4.
SatPerKwuFromBtc(n) == Truncated(Times(Nearest(n, SatPerBtc), [m |-> 12500000, e |-> -1]))

\* From sat/vB, by 1000 / 4.
SatPerKwuFromByte(n) == Truncated(Times(Nearest(n, VbPerKvb), [m |-> 16384000, e |-> 16]))

=============================================================================
