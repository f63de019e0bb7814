------------------------------- MODULE RadioUtils ------------------------------
(* core/src/utils/radio_utils.cpp: the bands, the tuning rates, the tiers of    *)
(* the spectrum's span and the S-meter, as functions.  The search loops of the  *)
(* code appear as what they find.  Spans are within 500 kHz of the range of     *)
(* int32_t, beyond which the differences that snapToSpanTier() takes overflow.  *)
EXTENDS Integers, Sequences

\* s_bands, by id + 1: the lower and the upper edge.
Bands ==
  << <<1800000, 2000000>>, <<3500000, 4000000>>, <<5330500, 5403500>>, <<7000000, 7300000>>,
     <<10100000, 10150000>>, <<14000000, 14350000>>, <<18068000, 18168000>>,
     <<21000000, 21450000>>, <<24890000, 24990000>>, <<28000000, 29700000>>,
     <<50000000, 54000000>> >>

BandIds == 0..10
Lower(id) == Bands[id + 1][1]
Upper(id) == Bands[id + 1][2]

IsFreqInBand(hz, id) == id \in BandIds /\ Lower(id) <= hz /\ hz <= Upper(id)

\* The first band with the frequency, or -1.
FreqToBand(hz) ==
  IF \E id \in BandIds : IsFreqInBand(hz, id)
    THEN CHOOSE id \in BandIds :
           /\ IsFreqInBand(hz, id)
           /\ \A other \in BandIds : IsFreqInBand(hz, other) => id <= other
    ELSE -1

TuningRates == <<1, 10, 20, 50, 100, 200, 500, 1000, 2000, 5000, 10000>>

IsRate(hz) == \E i \in 1..11 : TuningRates[i] = hz
Place(hz) == CHOOSE i \in 1..11 : TuningRates[i] = hz

\* Around the table; from what is no rate, to its first or its last.
NextTuningRate(hz) == IF IsRate(hz) THEN TuningRates[(Place(hz) % 11) + 1] ELSE TuningRates[1]
PrevTuningRate(hz) ==
  IF IsRate(hz) /\ Place(hz) > 1 THEN TuningRates[Place(hz) - 1] ELSE TuningRates[11]

SpanTiers == {2000, 3000, 4000, 5000, 7000, 10000, 15000, 20000, 30000, 50000, 75000,
              100000, 150000, 200000, 300000, 500000}
Narrowest == 2000
Widest    == 500000

Distance(a, b) == IF a < b THEN b - a ELSE a - b

\* The nearest tier, the lower of two as near.
SnapToSpanTier(hz) ==
  CHOOSE t \in SpanTiers : \A u \in SpanTiers :
    \/ Distance(hz, t) < Distance(hz, u)
    \/ Distance(hz, t) = Distance(hz, u) /\ t <= u

Least(S)    == CHOOSE t \in S : \A u \in S : t <= u
Greatest(S) == CHOOSE t \in S : \A u \in S : u <= t

\* The tier after the first that is not below hz: from between two tiers, that is the
\* second one up.
NextSpanTier(hz) ==
  LET from == {t \in SpanTiers \ {Widest} : hz <= t}
  IN IF from = {} THEN Widest ELSE Least({t \in SpanTiers : Least(from) < t})

PrevSpanTier(hz) ==
  LET from == {t \in SpanTiers \ {Narrowest} : t <= hz}
  IN IF from = {} THEN Narrowest ELSE Greatest({t \in SpanTiers : t < Greatest(from)})

Within(low, x, high) == IF x < low THEN low ELSE IF x > high THEN high ELSE x

\* smeterToUnits(): S-units, and dB over S9 in steps of ten.
SmeterToUnits(raw) ==
  LET r == Within(0, raw, 120) IN
    IF r <= 54 THEN [s |-> r \div 6, over |-> 0]
               ELSE [s |-> 9, over |-> ((r - 54) \div 10) * 10]

\* clampCenter(), of a span that is not negative.
ClampCenter(center, span, lower, upper) ==
  LET half == span \div 2 IN
    IF lower + half > upper - half THEN (lower + upper) \div 2
                                   ELSE Within(lower + half, center, upper - half)
================================================================================
