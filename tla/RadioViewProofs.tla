----------------------------- MODULE RadioViewProofs ----------------------------
EXTENDS RadioView, SequenceTheorems, WellFoundedInduction, TLAPS

--------------------------------------------------------------------------------
(* Bands                                                                        *)

\* The table, row by row, as the provers read it.
LEMMA Edges ==
  /\ Lower(0) = 1800000   /\ Upper(0) = 2000000
  /\ Lower(1) = 3500000   /\ Upper(1) = 4000000
  /\ Lower(2) = 5330500   /\ Upper(2) = 5403500
  /\ Lower(3) = 7000000   /\ Upper(3) = 7300000
  /\ Lower(4) = 10100000  /\ Upper(4) = 10150000
  /\ Lower(5) = 14000000  /\ Upper(5) = 14350000
  /\ Lower(6) = 18068000  /\ Upper(6) = 18168000
  /\ Lower(7) = 21000000  /\ Upper(7) = 21450000
  /\ Lower(8) = 24890000  /\ Upper(8) = 24990000
  /\ Lower(9) = 28000000  /\ Upper(9) = 29700000
  /\ Lower(10) = 50000000 /\ Upper(10) = 54000000
BY SMTT(60) DEF Bands, Lower, Upper

\* No frequency is in two bands: the search of s_bands may stop at the first.
LEMMA BandsDisjoint ==
  ASSUME NEW hz \in Int, NEW id \in BandIds, NEW other \in BandIds,
         IsFreqInBand(hz, id), IsFreqInBand(hz, other)
  PROVE  id = other
<1>1. id \in {0, 1, 2, 3, 4, 5, 6, 7, 8, 9, 10} /\ other \in {0, 1, 2, 3, 4, 5, 6, 7, 8, 9, 10}
  BY DEF BandIds
<1>2. Lower(id) <= hz /\ hz <= Upper(id) /\ Lower(other) <= hz /\ hz <= Upper(other)
  BY DEF IsFreqInBand
<1> QED BY <1>1, <1>2, Edges, SMTT(60)

\* freqToBand() finds the band a frequency is in, whichever it is, and answers -1 only
\* when no band has it.
THEOREM BandOfFrequency ==
  ASSUME NEW hz \in Int
  PROVE  /\ \A id \in BandIds : IsFreqInBand(hz, id) => FreqToBand(hz) = id
         /\ (\A id \in BandIds : ~IsFreqInBand(hz, id)) => FreqToBand(hz) = -1
<1>1. ASSUME NEW id \in BandIds, IsFreqInBand(hz, id)
      PROVE  FreqToBand(hz) = id
  <2>1. \A other \in BandIds : IsFreqInBand(hz, other) => other = id
    BY <1>1, BandsDisjoint
  <2>2. id <= id
    BY DEF BandIds
  <2>3. \A x \in BandIds :
          (IsFreqInBand(hz, x) /\ \A other \in BandIds : IsFreqInBand(hz, other) => x <= other)
            <=> x = id
    BY <1>1, <2>1, <2>2
  <2> HIDE DEF BandIds
  <2> QED BY <1>1, <2>3 DEF FreqToBand
<1> QED BY <1>1 DEF FreqToBand

--------------------------------------------------------------------------------
(* Tuning rates                                                                 *)

\* The rates differ, so that a rate has one place in the table.
LEMMA RatesDistinct ==
  ASSUME NEW i \in 1..11
  PROVE  TuningRates[i] \in Int /\ \A j \in 1..11 : TuningRates[i] = TuningRates[j] => i = j
<1>1. i \in {1, 2, 3, 4, 5, 6, 7, 8, 9, 10, 11}
  OBVIOUS
<1> QED BY <1>1, SMTT(60) DEF TuningRates

LEMMA PlaceOfRate ==
  ASSUME NEW i \in 1..11
  PROVE  IsRate(TuningRates[i]) /\ Place(TuningRates[i]) = i
<1>1. \A j \in 1..11 : TuningRates[j] = TuningRates[i] <=> j = i
  BY RatesDistinct
<1> QED BY <1>1 DEF IsRate, Place

\* The button that lowers the rate undoes the one that raises it, and the reverse, around
\* the ends of the table too.
THEOREM RatesRoundTrip ==
  ASSUME NEW hz \in Int, IsRate(hz)
  PROVE  PrevTuningRate(NextTuningRate(hz)) = hz /\ NextTuningRate(PrevTuningRate(hz)) = hz
<1>1. PICK i \in 1..11 : TuningRates[i] = hz
  BY DEF IsRate
<1>2. Place(hz) = i
  BY <1>1, PlaceOfRate
<1>3. (i % 11) + 1 \in 1..11
  OBVIOUS
<1>4. NextTuningRate(hz) = TuningRates[(i % 11) + 1]
  BY <1>2 DEF NextTuningRate
<1>5. PrevTuningRate(hz) = IF i > 1 THEN TuningRates[i - 1] ELSE TuningRates[11]
  BY <1>2 DEF PrevTuningRate
<1>6. PrevTuningRate(NextTuningRate(hz)) = hz
  <2>1. IsRate(NextTuningRate(hz)) /\ Place(NextTuningRate(hz)) = (i % 11) + 1
    BY <1>3, <1>4, PlaceOfRate
  <2>2. CASE i = 11
    BY <1>1, <2>1, <2>2 DEF PrevTuningRate
  <2>3. CASE i < 11
    <3>1. i % 11 = i /\ i + 1 > 1 /\ (i + 1) - 1 = i
      BY <2>3
    <3> QED BY <1>1, <2>1, <3>1 DEF PrevTuningRate
  <2> QED BY <2>2, <2>3
<1>7. NextTuningRate(PrevTuningRate(hz)) = hz
  <2>1. CASE i = 1
    <3>1. IsRate(PrevTuningRate(hz)) /\ Place(PrevTuningRate(hz)) = 11
      BY <1>5, <2>1, PlaceOfRate
    <3> QED BY <1>1, <2>1, <3>1 DEF NextTuningRate
  <2>2. CASE i > 1
    <3>1. i - 1 \in 1..11 /\ ((i - 1) % 11) + 1 = i
      BY <2>2
    <3>2. IsRate(PrevTuningRate(hz)) /\ Place(PrevTuningRate(hz)) = i - 1
      BY <1>5, <2>2, <3>1, PlaceOfRate
    <3> QED BY <1>1, <3>1, <3>2 DEF NextTuningRate
  <2> QED BY <2>1, <2>2
<1> QED BY <1>6, <1>7

--------------------------------------------------------------------------------
(* Meter and window                                                             *)

\* Any reading shows as S0 to S9, and over S9 only from S9, by 60 dB at the most.
THEOREM SmeterInRange ==
  ASSUME NEW raw \in Int
  PROVE  /\ SmeterToUnits(raw).s \in 0..9
         /\ SmeterToUnits(raw).over \in {0, 10, 20, 30, 40, 50, 60}
         /\ SmeterToUnits(raw).over > 0 => SmeterToUnits(raw).s = 9
BY DEF SmeterToUnits, Within

\* clampCenter() stays within the band, and its window does where the span fits.
THEOREM ClampedWindow ==
  ASSUME NEW center \in Int, NEW span \in Nat, NEW lower \in Int, NEW upper \in Int,
         lower <= upper
  PROVE  LET c == ClampCenter(center, span, lower, upper) IN
           /\ c \in lower..upper
           /\ 2 * (span \div 2) <= upper - lower =>
                lower <= c - span \div 2 /\ c + span \div 2 <= upper
BY DEF ClampCenter, Within
--------------------------------------------------------------------------------
(* Fields, and the steps that calls and frames are made of                      *)

\* The range of a field, where it has one.
InRange(f, x) ==
  /\ f[2] = "mode" => x \in 0..7
  /\ f[2] \in {"main_vol", "sub_vol"} => x \in 0..100
  /\ f[2] = "sidetone" => x \in 400..1000
  /\ f[2] = "lvl" => x \in 1..10
  /\ f[2] = "speed" => x \in 5..60
  /\ f[2] = "span" => x \in SpanTiers

Typed(f, x) ==
  /\ f \in Flags => x \in BOOLEAN
  /\ f \in Numbers => x \in Int /\ InRange(f, x)

ActiveA == <<"vfo.a", "active">>
ActiveB == <<"vfo.b", "active">>

\* Steps of the application: setters for what the radio does not report, and commands.
LocalNumbers == {n \in Numbers \X Int : n[1] \notin Settings /\ InRange(n[1], n[2])}

LocalSteps ==
  {Set(n[1], n[2]) : n \in LocalNumbers}
  \cup {Set(f, on) : f \in Flags \ (Settings \cup {ActiveA, ActiveB, Kpa}), on \in BOOLEAN}
  \cup {SetActiveVfo(v) : v \in {0, 1}}
  \cup {SetKpaState(on) : on \in BOOLEAN}
  \cup {SetCatState(on, n) : on \in BOOLEAN, n \in Int}
  \cup {SetDxClusterState(on, n) : on \in BOOLEAN, n \in Int}

FrequenciesA == {Send("FA", hz, <<"vfo.a", "freq">>, hz) : hz \in Int}
FrequenciesB == {Send("FB", hz, <<"vfo.b", "freq">>, hz) : hz \in Int}
ModesA == {Send("MD", n, <<"vfo.a", "mode">>, RadioModes[n]) : n \in DOMAIN RadioModes}
ModesB == {Send("MD", n, <<"vfo.a", "mode">>, Open) : n \in DOMAIN RadioModes}
Powers == {Send("PC", watts, <<"tx", "power">>, watts) : watts \in Int}
Cuts == {SendCut(f) : f \in { <<"vfo.a", "freq">>, <<"vfo.b", "freq">>, <<"tx", "power">> }}
Ptts == {Send("TX", 0, <<"tx", "ptt">>, TRUE), Send("RX", 0, <<"tx", "ptt">>, FALSE)}
NotReported ==
  {SendOnly(name, n) : name \in {"SWH", "GT", "BW", "NT", "KS", "KY", "#SPN", "#REF"}, n \in Int}

Requests ==
  FrequenciesA \cup FrequenciesB \cup ModesA \cup ModesB \cup Powers \cup Ptts
  \cup Cuts \cup NotReported

AppSteps == LocalSteps \cup Requests

\* Steps of the read thread, for a frame and for a connection state.
FrameNumbers ==
  {n \in Numbers \X Int : n[1] \in Settings \cup {<<"spectrum", "bins">>} /\ InRange(n[1], n[2])}

FrameSteps == {Set(n[1], n[2]) : n \in FrameNumbers} \cup {SetPtt(on) : on \in BOOLEAN}

LinkSteps == {SetConnectionState(status, attempts) :
                status \in {"CONNECTED", "RECONNECTING"}, attempts \in {0, 1}}

Keys == Fields \cup {<<"vfo", "active">>}

LEMMA Kinds ==
  /\ Flags \cap Numbers = {} /\ Settings \subseteq Fields
  /\ ReadBack \subseteq Shown /\ Shown \subseteq Fields /\ <<"vfo.a", "rate">> \in Shown
  /\ <<"tx", "ptt">> \in Flags \cap Settings /\ Settings \cap Flags \subseteq {<<"tx", "ptt">>}
  /\ Settings \ {<<"tx", "ptt">>} \subseteq Numbers
  /\ <<"spectrum", "bins">> \in Numbers /\ <<"vfo.a", "rate">> \in Numbers
  /\ {ActiveA, ActiveB, Kpa} \subseteq Flags /\ {Connection, Cat, DxCluster} \subseteq Fields
  /\ {ActiveA, ActiveB, Kpa} \cap (Settings \cup ReadBack \cup {Connection}) = {}
  /\ {Connection, Cat, DxCluster} \cap (Flags \cup Numbers \cup Settings) = {}
<1>1. Flags \cap Numbers = {}
  BY Zenon DEF Flags, Numbers
<1>2. Settings \subseteq Fields
  BY Zenon DEF Settings, Fields, Numbers, Flags
<1>3. Settings \ {<<"tx", "ptt">>} \subseteq Numbers
  <2>1. ASSUME NEW f \in {"tx"} \X {"ptt", "power"}, f # <<"tx", "ptt">>
        PROVE  f \in {"tx"} \X {"power", "swr"}
    BY <2>1, SMT
  <2> QED BY <2>1, Zenon DEF Settings, Numbers
<1>4. ReadBack \subseteq Numbers \cup {Connection}
  BY Zenon DEF ReadBack, Numbers
<1>5. <<"tx", "ptt">> \in Flags /\ <<"tx", "ptt">> \in Settings
      /\ <<"spectrum", "bins">> \in Numbers /\ <<"vfo.a", "rate">> \in Numbers
  BY Zenon DEF Flags, Settings, Numbers
<1>6. ActiveA \in Flags /\ ActiveB \in Flags /\ Kpa \in Flags
  BY Zenon DEF Flags, ActiveA, ActiveB, Kpa
<1>7. ActiveA \notin Settings /\ ActiveB \notin Settings /\ Kpa \notin Settings
  BY Zenon DEF Settings, ActiveA, ActiveB, Kpa
<1>8. /\ Connection \in {"connection", "cat", "dxcluster"} \X {""}
      /\ Cat \in {"connection", "cat", "dxcluster"} \X {""}
      /\ DxCluster \in {"connection", "cat", "dxcluster"} \X {""}
  BY Zenon DEF Connection, Cat, DxCluster
<1>9. ({"connection", "cat", "dxcluster"} \X {""}) \cap (Flags \cup Numbers \cup Settings) = {}
  BY Zenon DEF Flags, Numbers, Settings
<1>10. ReadBack \subseteq Shown /\ Shown \subseteq Fields /\ {Connection, Cat, DxCluster} \subseteq Fields
  <2>1. {"vfo.a", "vfo.b"} \X {"freq", "mode", "smeter", "rate"} \subseteq Numbers
        /\ {"vfo.a", "vfo.b"} \X {"active"} \subseteq Flags
        /\ <<"vfo.b", "sub_on">> \in Flags
        /\ {"tx"} \X {"power", "swr"} \subseteq Numbers /\ {"tx"} \X {"ptt", "tune"} \subseteq Flags
    BY Zenon DEF Flags, Numbers
  <2>2. {"vfo.a", "vfo.b"} \X {"freq", "mode", "smeter", "rate", "active"}
          = ({"vfo.a", "vfo.b"} \X {"freq", "mode", "smeter", "rate"})
              \cup ({"vfo.a", "vfo.b"} \X {"active"})
    OBVIOUS
  <2>3. {"tx"} \X {"ptt", "tune", "power", "swr"}
          = ({"tx"} \X {"power", "swr"}) \cup ({"tx"} \X {"ptt", "tune"})
    OBVIOUS
  <2>4. Shown \subseteq Flags \cup Numbers \cup {Connection}
    <3>1. ASSUME NEW f \in Shown PROVE f \in Flags \cup Numbers \cup {Connection}
      BY <2>1, <2>2, <2>3, Zenon DEF Shown
    <3> QED BY <3>1
  <2>5. ReadBack \subseteq Shown
    BY Zenon DEF ReadBack, Shown
  <2> QED BY <1>8, <2>4, <2>5 DEF Fields
<1>11. \A f \in {Connection, Cat, DxCluster} : f \notin Flags /\ f \notin Numbers /\ f \notin Settings
  BY <1>8, <1>9
<1>12. \A f \in {ActiveA, ActiveB, Kpa} : f \notin ReadBack /\ f # Connection
  BY <1>1, <1>4, <1>6, <1>11
<1>13. Settings \cap Flags \subseteq {<<"tx", "ptt">>}
  BY <1>1, <1>3
<1>14. <<"vfo.a", "rate">> \in Shown
  BY Zenon DEF Shown
<1> QED BY <1>1, <1>2, <1>3, <1>5, <1>6, <1>7, <1>10, <1>11, <1>12, <1>13, <1>14

LEMMA ConstructedTyped ==
  ASSUME NEW f \in Fields
  PROVE  Typed(f, Constructed[f])
<1>1. ASSUME f \in Flags PROVE Constructed[f] \in BOOLEAN
  <2>1. Flag(f) \in BOOLEAN
    BY DEF Flag
  <2>2. Constructed[f] = Flag(f)
    BY <1>1 DEF Constructed
  <2> QED BY <2>1, <2>2
<1>2. ASSUME f \in Numbers PROVE Constructed[f] \in Int /\ InRange(f, Constructed[f])
  <2>1. Constructed[f] = Number(f)
    BY <1>2, Kinds DEF Constructed
  <2>2. Number(f) \in Int
    BY SMT DEF Number
  <2>3. /\ f[2] = "mode" => Number(f) \in 0..7
        /\ f[2] = "lvl" => Number(f) \in 1..10
        /\ f[2] = "speed" => Number(f) \in 5..60
    <3>1. f[2] = "mode" => Number(f) \in 0..7
      BY SMT DEF Number
    <3>2. f[2] = "lvl" => Number(f) \in 1..10
      BY SMT DEF Number
    <3>3. f[2] = "speed" => Number(f) \in 5..60
      BY SMT DEF Number
    <3> QED BY <3>1, <3>2, <3>3
  <2>6. f[2] = "sidetone" => Number(f) \in 400..1000
    BY SMT DEF Number
  <2>7. f[2] \in {"main_vol", "sub_vol"} => Number(f) \in 0..100
    <3>1. ASSUME f[2] \in {"main_vol", "sub_vol"} PROVE Number(f) = 50
      BY <3>1, SMT DEF Number
    <3> QED BY <3>1
  <2>4. f[2] = "span" => Number(f) \in SpanTiers
    BY SMT DEF Number, SpanTiers
  <2>5. InRange(f, Number(f))
    BY <2>3, <2>4, <2>6, <2>7 DEF InRange
  <2> QED BY <2>1, <2>2, <2>5
<1> QED BY <1>1, <1>2 DEF Typed

LEMMA RefreshOfReadBack ==
  ASSUME NEW f \in ReadBack, f # Connection
  PROVE  Refreshes(f) = {f[1]} /\ f[1] \in {"vfo.a", "vfo.b"} /\ f = <<f[1], f[2]>>
         /\ f[2] \in {"freq", "mode", "smeter"}
<1>1. f \in {"vfo.a", "vfo.b"} \X {"freq", "mode", "smeter"}
  BY DEF ReadBack
<1>2. f[1] \in {"vfo.a", "vfo.b"} /\ f = <<f[1], f[2]>> /\ f[2] \in {"freq", "mode", "smeter"}
  BY <1>1, SMT
<1> QED BY <1>2 DEF Refreshes

LEMMA Refreshed ==
  ASSUME NEW k
  PROVE  Refreshes(k) \in {{}, {"vfo.a"}, {"vfo.b"}}
BY DEF Refreshes

\* What a step of the application or of a frame may set, and how it is notified.
SetsOnly(s) ==
  /\ s.does = "set" /\ s.key \in Keys
  /\ DOMAIN s.to \subseteq Fields \ {Connection}
  /\ \A f \in DOMAIN s.to : Typed(f, s.to[f])
  /\ \A f \in DOMAIN s.to \cap ReadBack : Refreshes(s.key) = {f[1]}
  /\ ActiveA \in DOMAIN s.to <=> ActiveB \in DOMAIN s.to
  /\ ActiveA \in DOMAIN s.to => s.to[ActiveA] # s.to[ActiveB]

LEMMA OneFieldSet ==
  ASSUME NEW f \in Fields \ {Connection, ActiveA, ActiveB}, NEW x, Typed(f, x),
         NEW s \in {Set(f, x), SetAggregate(f, x)}
  PROVE  SetsOnly(s) /\ DOMAIN s.to = {f}
<1>1. s.does = "set" /\ s.key = f /\ s.to = [g \in {f} |-> x]
  BY DEF Set, SetAggregate
<1>2. DOMAIN s.to = {f} /\ s.to[f] = x
  BY <1>1
<1>3. f \in ReadBack => Refreshes(f) = {f[1]}
  BY RefreshOfReadBack
<1> QED BY <1>1, <1>2, <1>3 DEF SetsOnly, Keys

LEMMA FrameSets ==
  ASSUME NEW s \in FrameSteps
  PROVE  SetsOnly(s) /\ s.does = "set"
<1>1. CASE \E n \in FrameNumbers : s = Set(n[1], n[2])
  <2>1. PICK n \in FrameNumbers : s = Set(n[1], n[2])
    BY <1>1
  <2>2. n[1] \in Fields \ {Connection, ActiveA, ActiveB} /\ Typed(n[1], n[2])
    BY Kinds DEF FrameNumbers, Typed, Fields
  <2>3. s \in {Set(n[1], n[2]), SetAggregate(n[1], n[2])}
    BY <2>1
  <2>4. SetsOnly(s)
    BY <2>2, <2>3, OneFieldSet
  <2> QED BY <2>4 DEF SetsOnly
<1>2. CASE \E on \in BOOLEAN : s = SetPtt(on)
  <2>1. PICK on \in BOOLEAN : s = SetPtt(on)
    BY <1>2
  <2>2. <<"tx", "ptt">> \in Fields \ {Connection, ActiveA, ActiveB} /\ Typed(<<"tx", "ptt">>, on)
    BY Kinds DEF Typed, ActiveA, ActiveB
  <2>3. s \in {Set(<<"tx", "ptt">>, on), SetAggregate(<<"tx", "ptt">>, on)}
    BY <2>1 DEF SetPtt
  <2>4. SetsOnly(s)
    BY <2>2, <2>3, OneFieldSet
  <2> QED BY <2>4 DEF SetsOnly
<1> QED BY <1>1, <1>2 DEF FrameSteps

LEMMA LocalSets ==
  ASSUME NEW s \in LocalSteps
  PROVE  SetsOnly(s) /\ s.does = "set" /\ DOMAIN s.to \cap Settings = {}
<1>1. CASE \E n \in LocalNumbers : s = Set(n[1], n[2])
  <2>1. PICK n \in LocalNumbers : s = Set(n[1], n[2])
    BY <1>1
  <2>2. /\ n[1] \in Fields \ {Connection, ActiveA, ActiveB} /\ Typed(n[1], n[2])
        /\ n[1] \notin Settings
    BY Kinds DEF LocalNumbers, Typed, Fields
  <2>3. SetsOnly(s) /\ DOMAIN s.to = {n[1]}
    BY <2>1, <2>2, OneFieldSet
  <2> QED BY <2>2, <2>3 DEF SetsOnly
<1>2. CASE \E f \in Flags \ (Settings \cup {ActiveA, ActiveB, Kpa}), on \in BOOLEAN : s = Set(f, on)
  <2>1. PICK f \in Flags \ (Settings \cup {ActiveA, ActiveB, Kpa}), on \in BOOLEAN : s = Set(f, on)
    BY <1>2
  <2>2. f \in Fields \ {Connection, ActiveA, ActiveB} /\ Typed(f, on)
    BY Kinds DEF Typed, Fields
  <2>3. SetsOnly(s) /\ DOMAIN s.to = {f}
    BY <2>1, <2>2, OneFieldSet
  <2> QED BY <2>1, <2>3 DEF SetsOnly
<1>3. CASE \E f \in {Kpa, Cat, DxCluster} : \E x : s = SetAggregate(f, x) /\ (f = Kpa => x \in BOOLEAN)
  <2>1. PICK f \in {Kpa, Cat, DxCluster} : \E x : s = SetAggregate(f, x) /\ (f = Kpa => x \in BOOLEAN)
    BY <1>3
  <2>2. PICK x : s = SetAggregate(f, x) /\ (f = Kpa => x \in BOOLEAN)
    BY <2>1
  <2>3. f \notin {Connection, ActiveA, ActiveB} \cup Settings
    <3>1. /\ Kpa # Connection /\ Kpa # ActiveA /\ Kpa # ActiveB
          /\ Cat # Connection /\ DxCluster # Connection
      BY DEF Kpa, Cat, DxCluster, Connection, ActiveA, ActiveB
    <3> QED BY <3>1, Kinds
  <2>4. f \in Fields /\ Typed(f, x)
    BY <2>2, Kinds DEF Typed, Fields
  <2>5. SetsOnly(s) /\ DOMAIN s.to = {f}
    BY <2>2, <2>3, <2>4, OneFieldSet
  <2> QED BY <2>3, <2>5 DEF SetsOnly
<1>4. CASE \E v \in {0, 1} : s = SetActiveVfo(v)
  <2>1. PICK v \in {0, 1} : s = SetActiveVfo(v)
    BY <1>4
  <2>2. /\ s.does = "set" /\ s.key = <<"vfo", "active">>
        /\ s.to = [f \in {"vfo.a", "vfo.b"} \X {"active"} |-> (f[1] = "vfo.a") = (v = 0)]
    BY <2>1 DEF SetActiveVfo
  <2>3. DOMAIN s.to = {ActiveA, ActiveB}
    BY <2>2 DEF ActiveA, ActiveB
  <2>4. s.to[ActiveA] = (v = 0) /\ s.to[ActiveB] = ~(v = 0)
    <3>1. CASE v = 0
      BY <2>2, <3>1 DEF ActiveA, ActiveB
    <3>2. CASE v = 1
      BY <2>2, <3>2 DEF ActiveA, ActiveB
    <3> QED BY <3>1, <3>2
  <2>5. {ActiveA, ActiveB} \cap (Settings \cup ReadBack \cup {Connection}) = {}
    BY Kinds
  <2>6. s.to[ActiveA] \in BOOLEAN /\ s.to[ActiveB] \in BOOLEAN /\ s.to[ActiveA] # s.to[ActiveB]
    BY <2>4
  <2>7. \A f \in DOMAIN s.to : f \in Fields \ {Connection} /\ Typed(f, s.to[f])
    BY <2>3, <2>5, <2>6, Kinds DEF Typed, Fields
  <2>8. DOMAIN s.to \cap ReadBack = {} /\ DOMAIN s.to \cap Settings = {}
    BY <2>3, <2>5
  <2> QED BY <2>2, <2>3, <2>6, <2>7, <2>8 DEF Keys, SetsOnly
<1>5. CASE \E on \in BOOLEAN : s = SetKpaState(on)
  BY <1>3, <1>5 DEF SetKpaState
<1>6. CASE \E on \in BOOLEAN, n \in Int : s = SetCatState(on, n) \/ s = SetDxClusterState(on, n)
  <2>1. Cat # Kpa /\ DxCluster # Kpa
    BY DEF Cat, DxCluster, Kpa
  <2>2. \E f \in {Cat, DxCluster} : \E x : s = SetAggregate(f, x)
    BY <1>6 DEF SetCatState, SetDxClusterState
  <2> QED BY <1>3, <2>1, <2>2
<1> QED BY <1>1, <1>2, <1>4, <1>5, <1>6 DEF LocalSteps

--------------------------------------------------------------------------------
(* The calls of the API, as steps                                               *)

LEMMA LeastOf ==
  ASSUME NEW S, S \subseteq Nat, S # {}
  PROVE  \E m \in S : \A n \in S : m <= n
<1>1. \A m, n \in Nat : m < n => <<m, n>> \in OpToRel(<, Nat)
  BY DEF OpToRel
<1>2. PICK m \in S : \A n \in S : ~(<<n, m>> \in OpToRel(<, Nat))
  BY NatLessThanWellFounded, WFMin
<1>3. ASSUME NEW n \in S PROVE m <= n
  <2>1. m \in Nat /\ n \in Nat /\ ~(n < m)
    BY <1>1, <1>2
  <2> QED BY <2>1
<1> QED BY <1>3

\* snapToSpanTier() answers a tier, whatever it is asked for.
LEMMA SnapIsTier ==
  ASSUME NEW hz \in Int
  PROVE  SnapToSpanTier(hz) \in SpanTiers
<1> DEFINE D == {Distance(hz, t) : t \in SpanTiers}
<1>1. SpanTiers \subseteq Nat /\ SpanTiers # {}
  BY SMT DEF SpanTiers
<1>2. \A t \in SpanTiers : Distance(hz, t) \in Nat
  BY <1>1 DEF Distance
<1>3. PICK d \in D : \A e \in D : d <= e
  BY <1>1, <1>2, LeastOf
<1> DEFINE T == {t \in SpanTiers : Distance(hz, t) = d}
<1>4. T \subseteq Nat /\ T # {}
  BY <1>1, <1>3
<1>5. PICK t \in T : \A u \in T : t <= u
  BY <1>4, LeastOf
<1>6. ASSUME NEW u \in SpanTiers
      PROVE  Distance(hz, t) < Distance(hz, u) \/ (Distance(hz, t) = Distance(hz, u) /\ t <= u)
  <2>1. Distance(hz, t) = d /\ d <= Distance(hz, u)
    BY <1>3
  <2>2. CASE Distance(hz, u) = d
    BY <1>5, <2>1, <2>2
  <2>3. CASE Distance(hz, u) # d
    BY <1>2, <2>1, <2>3
  <2> QED BY <2>2, <2>3
<1>7. t \in SpanTiers
  OBVIOUS
<1> HIDE DEF T, D
<1> QED BY <1>6, <1>7, Zenon DEF SnapToSpanTier

LEMMA OneStep ==
  ASSUME NEW s \in AppSteps
  PROVE  <<s>> \in Seq(AppSteps)
OBVIOUS

LEMMA TwoSteps ==
  ASSUME NEW s \in AppSteps, NEW r \in AppSteps
  PROVE  <<s, r>> \in Seq(AppSteps)
OBVIOUS

LEMMA NumberStep ==
  ASSUME NEW f \in Numbers, f \notin Settings, NEW x \in Int, InRange(f, x)
  PROVE  Set(f, x) \in AppSteps
<1>1. <<f, x>> \in LocalNumbers /\ <<f, x>>[1] = f /\ <<f, x>>[2] = x
  BY DEF LocalNumbers
<1>2. Set(<<f, x>>[1], <<f, x>>[2]) \in LocalSteps
  BY <1>1 DEF LocalSteps
<1> QED BY <1>1, <1>2 DEF AppSteps

\* The numbering of the modes, by two tables of the code and one of the radio.
LEMMA ModeTables ==
  /\ \A mode \in 0..7 : ModeMap[mode + 1] \in DOMAIN RadioModes
                        /\ RadioModes[ModeMap[mode + 1]] = Modes[mode + 1]
  /\ \A n \in DOMAIN RadioModes : ParsedMode[n] \in 0..7 /\ RadioModes[n] = Modes[ParsedMode[n] + 1]
  /\ DOMAIN RadioModes = {1, 2, 3, 4, 5, 6, 7, 9} /\ DOMAIN ParsedMode = {1, 2, 3, 4, 5, 6, 7, 9}
<1>1. DOMAIN RadioModes = {1, 2, 3, 4, 5, 6, 7, 9} /\ DOMAIN ParsedMode = {1, 2, 3, 4, 5, 6, 7, 9}
  BY DEF RadioModes, ParsedMode
<1>2. /\ RadioModes[1] = "LSB" /\ RadioModes[2] = "USB" /\ RadioModes[3] = "CW"
      /\ RadioModes[4] = "FM" /\ RadioModes[5] = "AM" /\ RadioModes[6] = "DATA"
      /\ RadioModes[7] = "CW-R" /\ RadioModes[9] = "DATA-R"
  BY DEF RadioModes, ParsedMode
<1>3. /\ ParsedMode[1] = 0 /\ ParsedMode[2] = 1 /\ ParsedMode[3] = 2 /\ ParsedMode[4] = 7
      /\ ParsedMode[5] = 6 /\ ParsedMode[6] = 4 /\ ParsedMode[7] = 3 /\ ParsedMode[9] = 5
  BY DEF ParsedMode
<1>4. /\ Modes[1] = "LSB" /\ Modes[2] = "USB" /\ Modes[3] = "CW" /\ Modes[4] = "CW-R"
      /\ Modes[5] = "DATA" /\ Modes[6] = "DATA-R" /\ Modes[7] = "AM" /\ Modes[8] = "FM"
  BY DEF Modes
<1>5. /\ ModeMap[1] = 1 /\ ModeMap[2] = 2 /\ ModeMap[3] = 3 /\ ModeMap[4] = 7
      /\ ModeMap[5] = 6 /\ ModeMap[6] = 9 /\ ModeMap[7] = 5 /\ ModeMap[8] = 4
  BY DEF ModeMap
<1>6. ASSUME NEW n \in DOMAIN RadioModes
      PROVE  ParsedMode[n] \in 0..7 /\ RadioModes[n] = Modes[ParsedMode[n] + 1]
  BY <1>1, <1>2, <1>3, <1>4
<1>7. ASSUME NEW mode \in 0..7
      PROVE  ModeMap[mode + 1] \in DOMAIN RadioModes
             /\ RadioModes[ModeMap[mode + 1]] = Modes[mode + 1]
  <2>1. mode \in {0, 1, 2, 3, 4, 5, 6, 7}
    OBVIOUS
  <2> QED BY <1>1, <1>2, <1>4, <1>5, <2>1
<1> QED BY <1>1, <1>6, <1>7

LEMMA FrequencyCall ==
  ASSUME NEW v \in {0, 1}, NEW hz \in Int
  PROVE  RequestFrequency(v, hz) \in Seq(AppSteps)
<1>1. Send("FA", hz, <<"vfo.a", "freq">>, hz) \in AppSteps
  BY DEF AppSteps, Requests, FrequenciesA
<1>2. Send("FB", hz, <<"vfo.b", "freq">>, hz) \in AppSteps
  BY DEF AppSteps, Requests, FrequenciesB
<1>3. SendCut(<<"vfo.a", "freq">>) \in AppSteps /\ SendCut(<<"vfo.b", "freq">>) \in AppSteps
  BY DEF AppSteps, Requests, Cuts
<1>4. CASE v = 0
  BY <1>1, <1>3, <1>4, OneStep DEF RequestFrequency, Vfo
<1>5. CASE v = 1
  BY <1>2, <1>3, <1>5, OneStep DEF RequestFrequency, Vfo
<1> QED BY <1>4, <1>5

\* Every call of the API is made of these steps, whatever its arguments: what it sets
\* is in range, by the clamps and the tiers of the span, and what it sends is for the
\* setting it is about, or, for the mode of VFO B and for a number that does not fit its
\* text, leaves open what becomes of it.
LEMMA EveryCall ==
  ASSUME NEW v \in {0, 1}, NEW a \in {0, 1}, NEW on \in BOOLEAN, NEW n \in Int
  PROVE  /\ {RequestFrequency(v, n), RequestMode(v, n), RequestBand(n)} \subseteq Seq(AppSteps)
         /\ {RequestPtt(on), RequestTune(on), RequestPower(n)} \subseteq Seq(AppSteps)
         /\ {RequestAgc(n), RequestFilterBw(n), RequestNotch(on, n)} \subseteq Seq(AppSteps)
         /\ {SetNr(v, a, on, n), SetVolume(v, n)} \subseteq Seq(AppSteps)
         /\ {CwSetSpeed(n), CwSetIambicMode(n), CwKey(n)} \subseteq Seq(AppSteps)
         /\ {SetSidetonePitch(n), SetSpectrumSpan(n)} \subseteq Seq(AppSteps)
         /\ {SetSpectrumCenter(n), SetSpectrumRefLevel(n)} \subseteq Seq(AppSteps)
         /\ <<SetActiveVfo(v)>> \in Seq(AppSteps)
<1> DEFINE Others == {"SWH", "GT", "BW", "NT", "KS", "KY", "#SPN", "#REF"}
<1>1. \A name \in Others, k \in Int : SendOnly(name, k) \in AppSteps
  BY DEF AppSteps, Requests, NotReported
<1>2. <<>> \in Seq(AppSteps)
  OBVIOUS
<1>3. RequestMode(v, n) \in Seq(AppSteps)
  <2>1. CASE n \in 0..7
    <3>1. ModeMap[n + 1] \in DOMAIN RadioModes /\ RadioModes[ModeMap[n + 1]] = Modes[n + 1]
      BY <2>1, ModeTables
    <3>2. Send("MD", ModeMap[n + 1], <<"vfo.a", "mode">>, Modes[n + 1]) \in AppSteps
      BY <3>1 DEF AppSteps, Requests, ModesA
    <3>3. Send("MD", ModeMap[n + 1], <<"vfo.a", "mode">>, Open) \in AppSteps
      BY <3>1 DEF AppSteps, Requests, ModesB
    <3>4. CASE v = 0
      BY <2>1, <3>2, <3>4, OneStep DEF RequestMode
    <3>5. CASE v = 1
      BY <2>1, <3>3, <3>5, OneStep DEF RequestMode
    <3> QED BY <3>4, <3>5
  <2> QED BY <1>2, <2>1 DEF RequestMode
<1>4. RequestBand(n) \in Seq(AppSteps)
  <2>1. CASE n \in BandIds
    <3>1. (Lower(n) + Upper(n)) \div 2 \in Int
      <4>1. n \in {0, 1, 2, 3, 4, 5, 6, 7, 8, 9, 10}
        BY <2>1 DEF BandIds
      <4>2. Lower(n) \in Int /\ Upper(n) \in Int
        BY <4>1, Edges, SMT
      <4> QED BY <4>2
    <3> QED BY <2>1, <3>1, FrequencyCall DEF RequestBand
  <2> QED BY <1>2, <2>1 DEF RequestBand
<1>5. RequestPtt(on) \in Seq(AppSteps)
  <2>1. Send("TX", 0, <<"tx", "ptt">>, TRUE) \in AppSteps /\ Send("RX", 0, <<"tx", "ptt">>, FALSE) \in AppSteps
    BY DEF AppSteps, Requests, Ptts
  <2>2. CASE on = TRUE
    BY <2>1, <2>2, OneStep DEF RequestPtt
  <2>3. CASE on = FALSE
    BY <2>1, <2>3, OneStep DEF RequestPtt
  <2> QED BY <2>2, <2>3
<1>6. RequestPower(n) \in Seq(AppSteps)
  <2>1. Send("PC", n, <<"tx", "power">>, n) \in AppSteps
    BY DEF AppSteps, Requests, Powers
  <2>2. SendCut(<<"tx", "power">>) \in AppSteps
    BY DEF AppSteps, Requests, Cuts
  <2> QED BY <2>1, <2>2, OneStep DEF RequestPower
<1>7. RequestTune(on) \in Seq(AppSteps)
  <2>1. SendOnly("SWH", IF on THEN 16 ELSE 0) \in AppSteps
    BY <1>1
  <2> QED BY <2>1, OneStep DEF RequestTune
<1>8. RequestAgc(n) \in Seq(AppSteps)
  <2>1. CASE n \in 0..2
    <3>1. <<0, 2, 4>>[n + 1] \in Int
      BY <2>1
    <3>2. SendOnly("GT", <<0, 2, 4>>[n + 1]) \in AppSteps
      BY <1>1, <3>1
    <3> QED BY <2>1, <3>2, OneStep DEF RequestAgc
  <2> QED BY <1>2, <2>1 DEF RequestAgc
<1>9. RequestFilterBw(n) \in Seq(AppSteps)
  <2>1. SendOnly("BW", n \div 10) \in AppSteps
    BY <1>1
  <2> QED BY <2>1, OneStep DEF RequestFilterBw
<1>10. RequestNotch(on, n) \in Seq(AppSteps)
  <2>1. SendOnly("NT", IF on THEN n \div 10 ELSE 0) \in AppSteps
    BY <1>1
  <2> QED BY <2>1, OneStep DEF RequestNotch
<1>11. SetNr(v, a, on, n) \in Seq(AppSteps)
  <2>1. Nr(v, a) \in NrNames
    BY DEF Nr, NrNames
  <2>2. SetNrEnabled(v, a, on) \in AppSteps
    <3>1. <<Nr(v, a), "en">> \in Flags
      BY <2>1, Zenon DEF Flags
    <3>2. <<Nr(v, a), "en">> \notin Settings \cup {ActiveA, ActiveB, Kpa}
      BY <2>1 DEF Settings, ActiveA, ActiveB, Kpa
    <3> QED BY <3>1, <3>2 DEF SetNrEnabled, AppSteps, LocalSteps
  <2>3. SetNrLevel(v, a, n) \in AppSteps
    <3>1. <<Nr(v, a), "lvl">> \in Numbers
      BY <2>1, Zenon DEF Numbers
    <3>2. <<Nr(v, a), "lvl">> \notin Settings
      BY DEF Settings
    <3>3. Clamp(n, 1, 10) \in 1..10
      BY DEF Clamp
    <3>4. InRange(<<Nr(v, a), "lvl">>, Clamp(n, 1, 10))
      BY <3>3 DEF InRange
    <3> QED BY <3>1, <3>2, <3>3, <3>4, NumberStep DEF SetNrLevel
  <2>4. CASE on = TRUE
    <3>1. SetNr(v, a, on, n) = <<SetNrEnabled(v, a, on)>> \o <<SetNrLevel(v, a, n)>>
      BY <2>4 DEF SetNr
    <3> QED BY <2>2, <2>3, <3>1, OneStep, ConcatProperties
  <2>5. CASE on = FALSE
    <3>1. SetNr(v, a, on, n) = <<SetNrEnabled(v, a, on)>> \o <<>>
      BY <2>5 DEF SetNr
    <3> QED BY <1>2, <2>2, <3>1, OneStep, ConcatProperties
  <2> QED BY <2>4, <2>5
<1>12. SetVolume(v, n) \in Seq(AppSteps)
  <2>1. Clamp(n, 0, 100) \in 0..100
    BY DEF Clamp
  <2>2. SetMainVolume(n) \in AppSteps
    <3>1. <<"audio", "main_vol">> \in Numbers /\ <<"audio", "main_vol">> \notin Settings
      BY Zenon DEF Numbers, Settings
    <3>2. InRange(<<"audio", "main_vol">>, Clamp(n, 0, 100))
      BY <2>1 DEF InRange
    <3> QED BY <2>1, <3>1, <3>2, NumberStep DEF SetMainVolume
  <2>3. SetSubVolume(n) \in AppSteps
    <3>1. <<"audio", "sub_vol">> \in Numbers /\ <<"audio", "sub_vol">> \notin Settings
      BY Zenon DEF Numbers, Settings
    <3>2. InRange(<<"audio", "sub_vol">>, Clamp(n, 0, 100))
      BY <2>1 DEF InRange
    <3> QED BY <2>1, <3>1, <3>2, NumberStep DEF SetSubVolume
  <2>4. CASE v = 0
    BY <2>2, <2>4, OneStep DEF SetVolume
  <2>5. CASE v = 1
    BY <2>3, <2>5, OneStep DEF SetVolume
  <2> QED BY <2>4, <2>5
<1>13. CwSetSpeed(n) \in Seq(AppSteps)
  <2>1. <<"cw", "speed">> \in Numbers /\ <<"cw", "speed">> \notin Settings
    BY Zenon DEF Numbers, Settings
  <2>2. Clamp(n, 5, 60) \in 5..60
    BY DEF Clamp
  <2>3. InRange(<<"cw", "speed">>, Clamp(n, 5, 60))
    BY <2>2 DEF InRange
  <2>4. SetCwSpeed(n) \in AppSteps
    BY <2>1, <2>2, <2>3, NumberStep DEF SetCwSpeed
  <2>5. SendOnly("KS", n) \in AppSteps
    BY <1>1
  <2> QED BY <2>4, <2>5, TwoSteps DEF CwSetSpeed
<1>14. CwSetIambicMode(n) \in Seq(AppSteps)
  <2>1. <<"cw", "iambic">> \in Numbers /\ <<"cw", "iambic">> \notin Settings
    BY Zenon DEF Numbers, Settings
  <2>2. InRange(<<"cw", "iambic">>, n)
    BY DEF InRange
  <2>3. SetCwIambicMode(n) \in AppSteps
    BY <2>1, <2>2, NumberStep DEF SetCwIambicMode
  <2> QED BY <2>3, OneStep DEF CwSetIambicMode
<1>15. CwKey(n) \in Seq(AppSteps)
  <2>1. SendOnly("KY", n) \in AppSteps
    BY <1>1
  <2> QED BY <1>2, <2>1, OneStep DEF CwKey
<1>16. SetSidetonePitch(n) \in Seq(AppSteps)
  <2>1. <<"audio", "sidetone">> \in Numbers /\ <<"audio", "sidetone">> \notin Settings
    BY Zenon DEF Numbers, Settings
  <2>2. Clamp(n, 400, 1000) \in 400..1000
    BY DEF Clamp
  <2>3. InRange(<<"audio", "sidetone">>, Clamp(n, 400, 1000))
    BY <2>2 DEF InRange
  <2>4. SetSidetone(n) \in AppSteps
    BY <2>1, <2>2, <2>3, NumberStep DEF SetSidetone
  <2> QED BY <2>4, OneStep DEF SetSidetonePitch
<1>17. SetSpectrumSpan(n) \in Seq(AppSteps)
  <2>1. <<"spectrum", "span">> \in Numbers /\ <<"spectrum", "span">> \notin Settings
    BY Zenon DEF Numbers, Settings
  <2>2. SnapToSpanTier(n) \in SpanTiers /\ SnapToSpanTier(n) \in Int
    <3>1. SpanTiers \subseteq Int
      BY SMT DEF SpanTiers
    <3> QED BY <3>1, SnapIsTier
  <2>3. InRange(<<"spectrum", "span">>, SnapToSpanTier(n))
    BY <2>2 DEF InRange
  <2>4. SetSpan(SnapToSpanTier(n)) \in AppSteps
    BY <2>1, <2>2, <2>3, NumberStep DEF SetSpan
  <2>5. SendOnly("#SPN", SnapToSpanTier(n)) \in AppSteps
    BY <1>1, <2>2
  <2> QED BY <2>4, <2>5, TwoSteps DEF SetSpectrumSpan
<1>18. SetSpectrumCenter(n) \in Seq(AppSteps)
  <2>1. <<"spectrum", "center">> \in Numbers /\ <<"spectrum", "center">> \notin Settings
    BY Zenon DEF Numbers, Settings
  <2>2. InRange(<<"spectrum", "center">>, n)
    BY DEF InRange
  <2>3. SetCenter(n) \in AppSteps
    BY <2>1, <2>2, NumberStep DEF SetCenter
  <2> QED BY <2>3, OneStep DEF SetSpectrumCenter
<1>19. SetSpectrumRefLevel(n) \in Seq(AppSteps)
  <2>1. <<"spectrum", "ref">> \in Numbers /\ <<"spectrum", "ref">> \notin Settings
    BY Zenon DEF Numbers, Settings
  <2>2. InRange(<<"spectrum", "ref">>, n)
    BY DEF InRange
  <2>3. SetRefLevel(n) \in AppSteps
    BY <2>1, <2>2, NumberStep DEF SetRefLevel
  <2>4. SendOnly("#REF", n) \in AppSteps
    BY <1>1
  <2> QED BY <2>3, <2>4, TwoSteps DEF SetSpectrumRefLevel
<1>20. <<SetActiveVfo(v)>> \in Seq(AppSteps)
  <2>1. SetActiveVfo(v) \in AppSteps
    BY DEF AppSteps, LocalSteps
  <2> QED BY <2>1, OneStep
<1> HIDE DEF Others
<1> QED BY FrequencyCall, <1>3, <1>4, <1>5, <1>6, <1>7, <1>8, <1>9, <1>10, <1>11, <1>12, <1>13,
           <1>14, <1>15, <1>16, <1>17, <1>18, <1>19, <1>20

--------------------------------------------------------------------------------
(* Commands and frames                                                          *)

SettingCommands == {"FA", "FB", "MD", "TX", "RX", "PC"}
Concerns(c, s) == c.name \in SettingCommands /\ Meaning(c)[1] = s

Command(s) == [name |-> s.name, value |-> s.value]
Commands == {Command(s) : s \in Requests}

\* The radio makes of a command what its caller wants, unless that is left open.
LEMMA CommandMeans ==
  ASSUME NEW s \in Requests
  PROVE  /\ s.does = "send"
         /\ s.setting # Connection => s.setting \in Settings
         /\ s.setting # Connection /\ s.wanted # Open =>
              Command(s).name \in SettingCommands /\ Meaning(Command(s))[2] = s.wanted
         /\ Command(s).name \in SettingCommands =>
              /\ s.setting # Connection /\ Meaning(Command(s))[1] = s.setting
              /\ IsOfRadio(s.setting, Meaning(Command(s))[2])
<1>1. \A f \in Settings : f # Connection
  BY Kinds
<1>2. CASE s \in FrequenciesA
  <2>1. PICK hz \in Int : s = Send("FA", hz, <<"vfo.a", "freq">>, hz)
    BY <1>2 DEF FrequenciesA
  <2>2. s.does = "send" /\ s.name = "FA" /\ s.value = hz /\ s.setting = <<"vfo.a", "freq">> /\ s.wanted = hz
    BY <2>1 DEF Send
  <2>3. Command(s).name = "FA" /\ Command(s).value = hz
    BY <2>2 DEF Command
  <2>4. Meaning(Command(s)) = << <<"vfo.a", "freq">>, hz>>
    BY <2>3 DEF Meaning
  <2>5. <<"vfo.a", "freq">> \in Settings /\ IsOfRadio(<<"vfo.a", "freq">>, hz)
    BY DEF Settings, IsOfRadio
  <2> QED BY <1>1, <2>2, <2>3, <2>4, <2>5 DEF SettingCommands
<1>3. CASE s \in FrequenciesB
  <2>1. PICK hz \in Int : s = Send("FB", hz, <<"vfo.b", "freq">>, hz)
    BY <1>3 DEF FrequenciesB
  <2>2. s.does = "send" /\ s.name = "FB" /\ s.value = hz /\ s.setting = <<"vfo.b", "freq">> /\ s.wanted = hz
    BY <2>1 DEF Send
  <2>3. Command(s).name = "FB" /\ Command(s).value = hz
    BY <2>2 DEF Command
  <2>4. Meaning(Command(s)) = << <<"vfo.b", "freq">>, hz>>
    BY <2>3 DEF Meaning
  <2>5. <<"vfo.b", "freq">> \in Settings /\ IsOfRadio(<<"vfo.b", "freq">>, hz)
    BY DEF Settings, IsOfRadio
  <2> QED BY <1>1, <2>2, <2>3, <2>4, <2>5 DEF SettingCommands
<1>4. CASE s \in ModesA
  <2>1. PICK n \in DOMAIN RadioModes : s = Send("MD", n, <<"vfo.a", "mode">>, RadioModes[n])
    BY <1>4 DEF ModesA
  <2>2. s.does = "send" /\ s.name = "MD" /\ s.value = n /\ s.setting = <<"vfo.a", "mode">> /\ s.wanted = RadioModes[n]
    BY <2>1 DEF Send
  <2>3. Command(s).name = "MD" /\ Command(s).value = n
    BY <2>2 DEF Command
  <2>4. Meaning(Command(s)) = << <<"vfo.a", "mode">>, RadioModes[n]>>
    BY <2>3 DEF Meaning
  <2>5. <<"vfo.a", "mode">> \in Settings /\ IsOfRadio(<<"vfo.a", "mode">>, RadioModes[n])
    BY DEF Settings, IsOfRadio
  <2> QED BY <1>1, <2>2, <2>3, <2>4, <2>5 DEF SettingCommands
<1>5. CASE s \in ModesB
  <2>1. PICK n \in DOMAIN RadioModes : s = Send("MD", n, <<"vfo.a", "mode">>, Open)
    BY <1>5 DEF ModesB
  <2>2. s.does = "send" /\ s.name = "MD" /\ s.value = n /\ s.setting = <<"vfo.a", "mode">> /\ s.wanted = Open
    BY <2>1 DEF Send
  <2>3. Command(s).name = "MD" /\ Command(s).value = n
    BY <2>2 DEF Command
  <2>4. Meaning(Command(s)) = << <<"vfo.a", "mode">>, RadioModes[n]>>
    BY <2>3 DEF Meaning
  <2>5. <<"vfo.a", "mode">> \in Settings /\ IsOfRadio(<<"vfo.a", "mode">>, RadioModes[n])
    BY DEF Settings, IsOfRadio
  <2> QED BY <1>1, <2>2, <2>3, <2>4, <2>5 DEF SettingCommands
<1>6. CASE s \in Powers
  <2>1. PICK watts \in Int : s = Send("PC", watts, <<"tx", "power">>, watts)
    BY <1>6 DEF Powers
  <2>2. s.does = "send" /\ s.name = "PC" /\ s.value = watts /\ s.setting = <<"tx", "power">> /\ s.wanted = watts
    BY <2>1 DEF Send
  <2>3. Command(s).name = "PC" /\ Command(s).value = watts
    BY <2>2 DEF Command
  <2>4. Meaning(Command(s)) = << <<"tx", "power">>, watts>>
    BY <2>3 DEF Meaning
  <2>5. <<"tx", "power">> \in Settings /\ IsOfRadio(<<"tx", "power">>, watts)
    BY DEF Settings, IsOfRadio
  <2> QED BY <1>1, <2>2, <2>3, <2>4, <2>5 DEF SettingCommands
<1>7. CASE s \in Ptts
  <2>1. <<"tx", "ptt">> \in Settings /\ IsOfRadio(<<"tx", "ptt">>, TRUE) /\ IsOfRadio(<<"tx", "ptt">>, FALSE)
    BY DEF Settings, IsOfRadio
  <2>2. CASE s = Send("TX", 0, <<"tx", "ptt">>, TRUE)
    <3>1. s.does = "send" /\ s.name = "TX" /\ s.setting = <<"tx", "ptt">> /\ s.wanted = TRUE
      BY <2>2 DEF Send
    <3>2. Command(s).name = "TX"
      BY <3>1 DEF Command
    <3>3. Meaning(Command(s)) = << <<"tx", "ptt">>, TRUE>>
      BY <3>2 DEF Meaning
    <3>4. Meaning(Command(s))[1] = <<"tx", "ptt">> /\ Meaning(Command(s))[2] = TRUE
      BY <3>3
    <3>5. Command(s).name \in SettingCommands
      BY <3>2 DEF SettingCommands
    <3> QED BY <1>1, <2>1, <3>1, <3>4, <3>5, Zenon
  <2>3. CASE s = Send("RX", 0, <<"tx", "ptt">>, FALSE)
    <3>1. s.does = "send" /\ s.name = "RX" /\ s.setting = <<"tx", "ptt">> /\ s.wanted = FALSE
      BY <2>3 DEF Send
    <3>2. Command(s).name = "RX"
      BY <3>1 DEF Command
    <3>3. Meaning(Command(s)) = << <<"tx", "ptt">>, FALSE>>
      BY <3>2 DEF Meaning
    <3>4. Meaning(Command(s))[1] = <<"tx", "ptt">> /\ Meaning(Command(s))[2] = FALSE
      BY <3>3
    <3>5. Command(s).name \in SettingCommands
      BY <3>2 DEF SettingCommands
    <3> QED BY <1>1, <2>1, <3>1, <3>4, <3>5, Zenon
  <2> QED BY <1>7, <2>2, <2>3 DEF Ptts
<1>8. CASE s \in Cuts
  <2>1. PICK f \in { <<"vfo.a", "freq">>, <<"vfo.b", "freq">>, <<"tx", "power">> } : s = SendCut(f)
    BY <1>8 DEF Cuts
  <2>2. s.does = "send" /\ s.name = "cut" /\ s.setting = f /\ s.wanted = Open
    BY <2>1 DEF SendCut, Send
  <2>3. f \in Settings
    BY DEF Settings
  <2>4. Command(s).name = "cut"
    BY <2>2 DEF Command
  <2> QED BY <2>2, <2>3, <2>4 DEF SettingCommands
<1>9. CASE s \in NotReported
  <2>1. PICK name \in {"SWH", "GT", "BW", "NT", "KS", "KY", "#SPN", "#REF"}, n \in Int : s = SendOnly(name, n)
    BY <1>9 DEF NotReported
  <2>2. s.does = "send" /\ s.setting = Connection /\ s.name = name
    BY <2>1 DEF SendOnly, Send
  <2>3. Command(s).name = name
    BY <2>2 DEF Command
  <2> QED BY <2>2, <2>3 DEF SettingCommands
<1> QED BY <1>2, <1>3, <1>4, <1>5, <1>6, <1>7, <1>8, <1>9 DEF Requests

LEMMA CommandIsOfRadio ==
  ASSUME NEW c \in Commands, c.name \in SettingCommands
  PROVE  Meaning(c)[1] \in Settings /\ IsOfRadio(Meaning(c)[1], Meaning(c)[2])
<1>1. PICK s \in Requests : c = Command(s)
  BY DEF Commands
<1> QED BY <1>1, CommandMeans

\* parseCatCommand(), name by name.
LEMMA ParseCases ==
  ASSUME NEW c
  PROVE  /\ c.name = "TQ" /\ c.width > 0 => Parse(c) = <<SetPtt(c.value = 1)>>
         /\ c.name \in {"FA", "FB", "MD", "SM", "PC"} /\ c.value = NotANumber => Parse(c) = <<>>
         /\ c.value # NotANumber =>
              /\ c.name = "FA" /\ c.width >= 11 => Parse(c) = <<SetFrequency(0, c.value)>>
              /\ c.name = "FB" /\ c.width >= 11 => Parse(c) = <<SetFrequency(1, c.value)>>
              /\ c.name = "MD" /\ c.value \in DOMAIN ParsedMode =>
                   Parse(c) = <<SetMode(0, ParsedMode[c.value])>>
              /\ c.name = "SM" /\ c.width >= 4 /\ c.vfo \in {0, 1} =>
                   Parse(c) = <<SetSmeter(c.vfo, c.value)>>
              /\ c.name = "PC" => Parse(c) = <<SetPower(c.value)>>
<1>1. ASSUME c.name = "TQ", c.width > 0 PROVE Parse(c) = <<SetPtt(c.value = 1)>>
  BY <1>1, Zenon DEF Parse
<1>2. ASSUME c.name \in {"FA", "FB", "MD", "SM", "PC"}, c.value = NotANumber PROVE Parse(c) = <<>>
  <2>1. c.name # "TQ"
    BY <1>2
  <2> QED BY <1>2, <2>1, Zenon DEF Parse
<1>3. ASSUME c.value # NotANumber, c.name = "FA", c.width >= 11
      PROVE  Parse(c) = <<SetFrequency(0, c.value)>>
  BY <1>3, SMT DEF Parse
<1>4. ASSUME c.value # NotANumber, c.name = "FB", c.width >= 11
      PROVE  Parse(c) = <<SetFrequency(1, c.value)>>
  BY <1>4, SMT DEF Parse
<1>5. ASSUME c.value # NotANumber, c.name = "MD", c.value \in DOMAIN ParsedMode
      PROVE  Parse(c) = <<SetMode(0, ParsedMode[c.value])>>
  BY <1>5, SMT DEF Parse
<1>6. ASSUME c.value # NotANumber, c.name = "SM", c.width >= 4, c.vfo \in {0, 1}
      PROVE  Parse(c) = <<SetSmeter(c.vfo, c.value)>>
  BY <1>6, SMT DEF Parse
<1>7. ASSUME c.value # NotANumber, c.name = "PC"
      PROVE  Parse(c) = <<SetPower(c.value)>>
  BY <1>7, SMT DEF Parse
<1> QED BY <1>1, <1>2, <1>3, <1>4, <1>5, <1>6, <1>7

\* A frame that reports setting s.
About(c, s) == \E x : IsOfRadio(s, x) /\ c = Report(s, x)

IsFrame(c) == c \in Noise \/ \E s \in Settings : About(c, s)

LEMMA SevenSettings ==
  ASSUME NEW s \in Settings
  PROVE  s \in { <<"vfo.a", "freq">>, <<"vfo.b", "freq">>, <<"vfo.a", "mode">>, <<"vfo.a", "smeter">>,
                 <<"vfo.b", "smeter">>, <<"tx", "ptt">>, <<"tx", "power">> }
<1>1. CASE s \in {"vfo.a", "vfo.b"} \X {"freq", "smeter"}
  BY <1>1
<1>2. CASE s \in {"vfo.a"} \X {"mode"}
  BY <1>2
<1>3. CASE s \in {"tx"} \X {"ptt", "power"}
  BY <1>3
<1> QED BY <1>1, <1>2, <1>3 DEF Settings

\* What the radio reports of a setting becomes, in the read thread, the setter of that
\* setting with the same value in RadioState's terms.
LEMMA Dispatched ==
  ASSUME NEW s \in Settings, NEW x, IsOfRadio(s, x)
  PROVE  \E y : /\ Typed(s, y) /\ Set(s, y) \in FrameSteps
                /\ Dispatch(Report(s, x)) = <<Set(s, y)>> /\ AsRadio(s, y) = x
<1> DEFINE c == Report(s, x)
<1>1. SUFFICES \E y : Typed(s, y) /\ Set(s, y) \in FrameSteps /\ Dispatch(c) = <<Set(s, y)>> /\ AsRadio(s, y) = x
  OBVIOUS
<1>2. \A f \in Settings, y \in Int :
        f # <<"tx", "ptt">> /\ InRange(f, y) => Typed(f, y) /\ Set(f, y) \in FrameSteps
  <2>1. SUFFICES ASSUME NEW f \in Settings, NEW y \in Int, f # <<"tx", "ptt">>, InRange(f, y)
                 PROVE  Typed(f, y) /\ Set(f, y) \in FrameSteps
    OBVIOUS
  <2>2. f \in Numbers /\ f \notin Flags
    BY <2>1, Kinds
  <2>3. <<f, y>> \in FrameNumbers /\ <<f, y>>[1] = f /\ <<f, y>>[2] = y
    BY <2>1, <2>2 DEF FrameNumbers
  <2>4. Set(<<f, y>>[1], <<f, y>>[2]) \in FrameSteps
    BY <2>3 DEF FrameSteps
  <2> QED BY <2>1, <2>2, <2>3, <2>4 DEF Typed
<1>3. NotANumber \notin Int
  BY Nothing
<1>4. CASE s = <<"vfo.a", "freq">>
  <2>1. x \in Int /\ AsRadio(s, x) = x /\ InRange(s, x)
    BY <1>4 DEF IsOfRadio, AsRadio, InRange
  <2>2. c = Text("FA", 11, 0, x)
    BY <1>4, SMT DEF Report
  <2> HIDE DEF c
  <2>3. c.name = "FA" /\ c.width = 11 /\ c.value = x
    BY <2>2 DEF Text
  <2>4. Parse(c) = <<SetFrequency(0, x)>>
    BY <1>3, <2>1, <2>3, ParseCases
  <2>5. Dispatch(c) = <<Set(s, x)>>
    BY <1>4, <2>3, <2>4 DEF Dispatch, SetFrequency, Vfo
  <2> QED BY <1>2, <1>4, <2>1, <2>5
<1>5. CASE s = <<"vfo.b", "freq">>
  <2>1. x \in Int /\ AsRadio(s, x) = x /\ InRange(s, x)
    BY <1>5 DEF IsOfRadio, AsRadio, InRange
  <2>2. c = Text("FB", 11, 0, x)
    BY <1>5, SMT DEF Report
  <2> HIDE DEF c
  <2>3. c.name = "FB" /\ c.width = 11 /\ c.value = x
    BY <2>2 DEF Text
  <2>4. Parse(c) = <<SetFrequency(1, x)>>
    BY <1>3, <2>1, <2>3, ParseCases
  <2>5. Dispatch(c) = <<Set(s, x)>>
    BY <1>5, <2>3, <2>4 DEF Dispatch, SetFrequency, Vfo
  <2> QED BY <1>2, <1>5, <2>1, <2>5
<1>6. CASE s = <<"vfo.a", "mode">>
  <2> DEFINE n == CHOOSE m \in DOMAIN RadioModes : RadioModes[m] = x
  <2>1. n \in DOMAIN RadioModes /\ RadioModes[n] = x
    <3>1. \E m \in DOMAIN RadioModes : RadioModes[m] = x
      BY <1>6 DEF IsOfRadio
    <3> QED BY <3>1
  <2>2. c = Text("MD", 1, 0, n)
    BY <1>6, SMT DEF Report
  <2> HIDE DEF c, n
  <2>3. c.name = "MD" /\ c.width = 1 /\ c.value = n
    BY <2>2 DEF Text
  <2>4. n \in Int /\ n \in DOMAIN ParsedMode /\ ParsedMode[n] \in 0..7 /\ x = Modes[ParsedMode[n] + 1]
    BY <2>1, ModeTables
  <2>5. Parse(c) = <<SetMode(0, ParsedMode[n])>>
    BY <1>3, <2>3, <2>4, ParseCases
  <2>6. Dispatch(c) = <<Set(s, ParsedMode[n])>>
    BY <1>6, <2>3, <2>5 DEF Dispatch, SetMode, Vfo
  <2>7. AsRadio(s, ParsedMode[n]) = x /\ InRange(s, ParsedMode[n]) /\ ParsedMode[n] \in Int
    BY <1>6, <2>4 DEF AsRadio, InRange
  <2> QED BY <1>2, <1>6, <2>6, <2>7
<1>7. CASE s = <<"vfo.a", "smeter">>
  <2>1. x \in Int /\ AsRadio(s, x) = x /\ InRange(s, x)
    BY <1>7 DEF IsOfRadio, AsRadio, InRange
  <2>2. c = Text("SM", 5, 0, x)
    BY <1>7, SMT DEF Report
  <2> HIDE DEF c
  <2>3. c.name = "SM" /\ c.width = 5 /\ c.vfo = 0 /\ c.value = x
    BY <2>2 DEF Text
  <2>4. Parse(c) = <<SetSmeter(0, x)>>
    BY <1>3, <2>1, <2>3, ParseCases
  <2>5. Dispatch(c) = <<Set(s, x)>>
    BY <1>7, <2>3, <2>4 DEF Dispatch, SetSmeter, Vfo
  <2> QED BY <1>2, <1>7, <2>1, <2>5
<1>8. CASE s = <<"vfo.b", "smeter">>
  <2>1. x \in Int /\ AsRadio(s, x) = x /\ InRange(s, x)
    BY <1>8 DEF IsOfRadio, AsRadio, InRange
  <2>2. c = Text("SM", 5, 1, x)
    BY <1>8, SMT DEF Report
  <2> HIDE DEF c
  <2>3. c.name = "SM" /\ c.width = 5 /\ c.vfo = 1 /\ c.value = x
    BY <2>2 DEF Text
  <2>4. Parse(c) = <<SetSmeter(1, x)>>
    BY <1>3, <2>1, <2>3, ParseCases
  <2>5. Dispatch(c) = <<Set(s, x)>>
    BY <1>8, <2>3, <2>4 DEF Dispatch, SetSmeter, Vfo
  <2> QED BY <1>2, <1>8, <2>1, <2>5
<1>9. CASE s = <<"tx", "ptt">>
  <2>1. x \in BOOLEAN /\ AsRadio(s, x) = x
    BY <1>9 DEF IsOfRadio, AsRadio
  <2>2. c = Text("TQ", 1, 0, IF x THEN 1 ELSE 0)
    BY <1>9, SMT DEF Report
  <2> HIDE DEF c
  <2>3. c.name = "TQ" /\ c.width = 1 /\ c.value = IF x THEN 1 ELSE 0
    BY <2>2 DEF Text
  <2>4. Parse(c) = <<SetPtt(c.value = 1)>>
    BY <2>3, ParseCases
  <2>5. (c.value = 1) = x
    BY <2>1, <2>3
  <2>6. Dispatch(c) = <<Set(s, x)>>
    BY <1>9, <2>3, <2>4, <2>5, Zenon DEF Dispatch, SetPtt
  <2>7. Set(s, x) \in FrameSteps
    BY <1>9, <2>1 DEF FrameSteps, SetPtt
  <2>8. Typed(s, x)
    BY <1>9, <2>1, Kinds DEF Typed
  <2> QED BY <2>1, <2>6, <2>7, <2>8
<1>10. CASE s = <<"tx", "power">>
  <2>1. x \in Int /\ AsRadio(s, x) = x /\ InRange(s, x)
    BY <1>10 DEF IsOfRadio, AsRadio, InRange
  <2>2. c = Text("PC", 3, 0, x)
    BY <1>10, SMT DEF Report
  <2> HIDE DEF c
  <2>3. c.name = "PC" /\ c.width = 3 /\ c.value = x
    BY <2>2 DEF Text
  <2>4. Parse(c) = <<SetPower(x)>>
    BY <1>3, <2>1, <2>3, ParseCases
  <2>5. Dispatch(c) = <<Set(s, x)>>
    BY <1>10, <2>3, <2>4 DEF Dispatch, SetPower
  <2> QED BY <1>2, <1>10, <2>1, <2>5
<1> QED BY <1>4, <1>5, <1>6, <1>7, <1>8, <1>9, <1>10, SevenSettings

\* What the radio says without meaning a setting becomes no setter of one.
LEMMA NoiseDispatched ==
  ASSUME NEW c \in Noise
  PROVE  \/ Dispatch(c) = <<>>
         \/ Dispatch(c) = <<SetBinCount(c.value)>> /\ SetBinCount(c.value) \in FrameSteps
<1>1. CASE c.name = "spectrum"
  <2>1. c.value \in Int
    BY <1>1, Nothing
  <2>2. << <<"spectrum", "bins">>, c.value>> \in FrameNumbers
    BY <2>1, Kinds DEF FrameNumbers, InRange
  <2>3. SetBinCount(c.value) = Set(<< <<"spectrum", "bins">>, c.value>>[1], << <<"spectrum", "bins">>, c.value>>[2])
    BY DEF SetBinCount
  <2> QED BY <1>1, <2>2, <2>3 DEF Dispatch, FrameSteps
<1>2. CASE c.name # "spectrum"
  <2>1. Dispatch(c) = Parse(c)
    BY <1>2 DEF Dispatch
  <2>2. CASE c.name = "TQ"
    <3>1. ~(c.width > 0)
      BY <2>2, Nothing
    <3> QED BY <2>1, <2>2, <3>1, Zenon DEF Parse
  <2>3. CASE c.name # "TQ" /\ c.value = NotANumber
    BY <2>1, <2>3, Zenon DEF Parse
  <2>4. CASE c.name # "TQ" /\ c.value # NotANumber
    <3>1. c.width \in Nat
      BY Nothing
    <3>2. c.name \in {"FA", "FB"} => ~(c.width >= 11)
      BY <2>4, <3>1, Nothing
    <3>3. c.name = "MD" => ~(c.value \in DOMAIN ParsedMode)
      BY <2>4, Nothing
    <3>4. c.name = "SM" => ~(c.width >= 4) \/ ~(c.vfo \in {0, 1})
      BY <2>4, <3>1, Nothing
    <3>5. c.name # "PC"
      BY <2>4, Nothing
    <3> QED BY <2>1, <2>4, <3>2, <3>3, <3>4, <3>5, SMT DEF Parse
  <2> QED BY <2>2, <2>3, <2>4
<1> QED BY <1>1, <1>2

LEMMA FrameDispatched ==
  ASSUME NEW c, IsFrame(c)
  PROVE  Dispatch(c) = <<>> \/ \E step \in FrameSteps : Dispatch(c) = <<step>>
<1>1. CASE c \in Noise
  BY <1>1, NoiseDispatched
<1>2. CASE \E s \in Settings : About(c, s)
  <2>1. PICK s \in Settings : \E x : IsOfRadio(s, x) /\ c = Report(s, x)
    BY <1>2 DEF About
  <2>2. PICK x : IsOfRadio(s, x) /\ c = Report(s, x)
    BY <2>1
  <2> QED BY <2>2, Dispatched
<1> QED BY <1>1, <1>2 DEF IsFrame

\* A frame reports one setting at most.
LEMMA AboutOne ==
  ASSUME NEW c, NEW s \in Settings, About(c, s)
  PROVE  c \notin Noise /\ \A r \in Settings : About(c, r) => r = s
<1>1. PICK y : Dispatch(c) = <<Set(s, y)>>
  BY Dispatched DEF About
<1>2. Set(s, y).key = s
  BY DEF Set
<1>3. c \notin Noise
  <2>1. SUFFICES ASSUME c \in Noise PROVE FALSE
    OBVIOUS
  <2>2. <<Set(s, y)>> # <<>>
    OBVIOUS
  <2>3. <<Set(s, y)>> = <<SetBinCount(c.value)>>
    BY <1>1, <2>1, <2>2, NoiseDispatched
  <2>4. Set(s, y).key = SetBinCount(c.value).key
    BY <2>3
  <2>5. s = <<"spectrum", "bins">>
    BY <1>2, <2>4 DEF SetBinCount, Set
  <2> QED BY <2>5 DEF Settings
<1>4. ASSUME NEW r \in Settings, About(c, r) PROVE r = s
  <2>1. PICK z : Dispatch(c) = <<Set(r, z)>>
    BY <1>4, Dispatched DEF About
  <2>2. Set(r, z).key = Set(s, y).key
    BY <1>1, <2>1
  <2>3. Set(r, z).key = r
    BY DEF Set
  <2> QED BY <1>2, <2>2, <2>3
<1> QED BY <1>3, <1>4

--------------------------------------------------------------------------------
(* Types                                                                        *)

\* Whatever the radio may say, as a set.
Values == Int \cup BOOLEAN \cup {RadioModes[n] : n \in DOMAIN RadioModes}
Frames == {c \in Noise \cup {Report(s, x) : s \in Settings, x \in Values} : IsFrame(c)}

Posts == {[kind |-> "key", of |-> k] : k \in Keys}
         \cup {[kind |-> "connection", of |-> <<status, attempts>>] :
                 status \in {"CONNECTED", "RECONNECTING"}, attempts \in {0, 1}}

\* RadioState: every field has a value of its kind and in its range, and one VFO is active.
DataInv ==
  /\ DOMAIN data = Fields /\ \A f \in Fields : Typed(f, data[f])
  /\ data[ActiveA] # data[ActiveB]

\* A caller is in a call of the API; the read thread dispatches one frame or notifies
\* one connection state.
ThreadInv ==
  /\ at \in [Threads -> Places] /\ DOMAIN todo = Threads
  /\ \A u \in Callers : at[u] \in {"ready", "callback"} /\ todo[u] \in Seq(AppSteps)
  /\ \/ /\ at[Reader] \in {"ready", "callback"}
        /\ todo[Reader] = <<>> \/ \E s \in FrameSteps : todo[Reader] = <<s>>
     \/ /\ at[Reader] \in {"notified", "relock"}
        /\ \E s \in LinkSteps : todo[Reader] = <<s>>
  /\ \A t \in Threads : at[t] = "callback" => todo[t] # <<>> /\ Head(todo[t]).does = "set"

RadioInv ==
  /\ up \in BOOLEAN /\ DOMAIN radio = Settings /\ \A s \in Settings : IsOfRadio(s, radio[s])
  /\ told \subseteq Settings /\ DOMAIN asked \subseteq Settings

QueueInv == posts \in Seq(Posts) /\ toRadio \in Seq(Commands) /\ frames \in Seq(Frames)

ViewInv ==
  /\ DOMAIN ui = Shown
  /\ \A f \in DOMAIN ui \ {Connection} : Typed(f, ui[f])
  /\ main \in [at : {"idle", "freq", "mode", "smeter"}, vfo : {"vfo.a", "vfo.b"},
               freq : Int, mode : 0..7]

TypeInv == DataInv /\ ThreadInv /\ RadioInv /\ QueueInv /\ ViewInv

LEMMA FramesAre ==
  ASSUME NEW c
  PROVE  c \in Frames <=> IsFrame(c)
<1>1. ASSUME IsFrame(c) PROVE c \in Frames
  <2>1. CASE c \in Noise
    BY <1>1, <2>1 DEF Frames
  <2>2. CASE \E s \in Settings : About(c, s)
    <3>0. PICK s \in Settings : \E x : IsOfRadio(s, x) /\ c = Report(s, x)
      BY <2>2 DEF About
    <3>1. PICK x : IsOfRadio(s, x) /\ c = Report(s, x)
      BY <3>0
    <3>2. x \in Values
      <4>1. CASE s[2] = "mode"
        BY <3>1, <4>1 DEF IsOfRadio, Values
      <4>2. CASE s[2] = "ptt"
        BY <3>1, <4>2 DEF IsOfRadio, Values
      <4>3. CASE s[2] # "mode" /\ s[2] # "ptt"
        BY <3>1, <4>3 DEF IsOfRadio, Values
      <4> QED BY <4>1, <4>2, <4>3
    <3>3. Report(s, x) \in {Report(r, v) : r \in Settings, v \in Values}
      <4> HIDE DEF Values
      <4> QED BY <3>1, <3>2
    <3> QED BY <1>1, <3>1, <3>3 DEF Frames
  <2> QED BY <1>1, <2>1, <2>2 DEF IsFrame
<1> QED BY <1>1 DEF Frames

\* A setter at the head of a thread's steps, and a command.
LEMMA HeadSets ==
  ASSUME ThreadInv, NEW t \in Threads, at[t] \in {"ready", "callback"},
         todo[t] # <<>>, Head(todo[t]).does = "set"
  PROVE  /\ SetsOnly(Head(todo[t]))
         /\ t \in Callers => Head(todo[t]) \in LocalSteps
         /\ t = Reader => Head(todo[t]) \in FrameSteps /\ todo[t] = <<Head(todo[t])>>
<1>1. CASE t \in Callers
  <2>1. Head(todo[t]) \in AppSteps
    BY <1>1, HeadTailProperties DEF ThreadInv
  <2>2. Head(todo[t]) \notin Requests
    <3>1. SUFFICES ASSUME Head(todo[t]) \in Requests PROVE FALSE
      OBVIOUS
    <3>2. Head(todo[t]).does = "send"
      BY <3>1, CommandMeans
    <3> QED BY <3>2
  <2>3. t # Reader
    BY <1>1, ControlThreads
  <2> QED BY <2>1, <2>2, <2>3, LocalSets DEF AppSteps
<1>2. CASE t = Reader
  <2>1. PICK s \in FrameSteps : todo[t] = <<s>>
    BY <1>2 DEF ThreadInv
  <2>2. Head(todo[t]) = s
    BY <2>1
  <2>3. t \notin Callers
    BY <1>2, ControlThreads
  <2> QED BY <2>1, <2>2, <2>3, FrameSets
<1> QED BY <1>1, <1>2, ControlThreads

LEMMA HeadSends ==
  ASSUME ThreadInv, NEW t \in Threads, at[t] = "ready", todo[t] # <<>>, Head(todo[t]).does = "send"
  PROVE  t \in Callers /\ Head(todo[t]) \in Requests
<1>1. CASE t = Reader
  <2>1. PICK s \in FrameSteps : todo[t] = <<s>>
    BY <1>1 DEF ThreadInv
  <2>2. Head(todo[t]) = s /\ s.does = "set"
    BY <2>1, FrameSets
  <2> QED BY <2>2
<1>2. CASE t \in Callers
  <2>1. Head(todo[t]) \in AppSteps
    BY <1>2, HeadTailProperties DEF ThreadInv
  <2>2. Head(todo[t]) \notin LocalSteps
    <3>1. SUFFICES ASSUME Head(todo[t]) \in LocalSteps PROVE FALSE
      OBVIOUS
    <3>2. Head(todo[t]).does = "set"
      BY <3>1, LocalSets
    <3> QED BY <3>2
  <2> QED BY <1>2, <2>1, <2>2 DEF AppSteps
<1> QED BY <1>1, <1>2, ControlThreads

\* A thread at the end of a step goes on to the next.
LEMMA FinishKeeps ==
  ASSUME ThreadInv, NEW t \in Threads, at[t] \in {"ready", "callback"}, todo[t] # <<>>,
         Finish(t), at' = [at EXCEPT ![t] = "ready"]
  PROVE  ThreadInv'
<1>1. at' \in [Threads -> Places] /\ DOMAIN todo' = Threads
  BY DEF ThreadInv, Places, Finish
<1>2. at'[t] = "ready" /\ todo'[t] = Tail(todo[t])
      /\ \A r \in Threads \ {t} : at'[r] = at[r] /\ todo'[r] = todo[r]
  BY DEF ThreadInv, Finish
<1>3. \A r \in Threads : at'[r] = "callback" => todo'[r] # <<>> /\ Head(todo'[r]).does = "set"
  BY <1>2 DEF ThreadInv
<1>4. CASE t \in Callers
  <2>1. t # Reader
    BY <1>4, ControlThreads
  <2>2. Tail(todo[t]) \in Seq(AppSteps)
    BY <1>4, HeadTailProperties DEF ThreadInv
  <2>3. \A u \in Callers : at'[u] \in {"ready", "callback"} /\ todo'[u] \in Seq(AppSteps)
    BY <1>2, <2>2, ControlThreads DEF ThreadInv
  <2>4. at'[Reader] = at[Reader] /\ todo'[Reader] = todo[Reader]
    BY <1>2, <2>1, ControlThreads
  <2> QED BY <1>1, <1>3, <2>3, <2>4 DEF ThreadInv
<1>5. CASE t = Reader
  <2>1. \A u \in Callers : u # t /\ u \in Threads
    BY <1>5, ControlThreads
  <2>2. \A u \in Callers : at'[u] \in {"ready", "callback"} /\ todo'[u] \in Seq(AppSteps)
    BY <1>2, <2>1 DEF ThreadInv
  <2>3. PICK s \in FrameSteps : todo[t] = <<s>>
    BY <1>5 DEF ThreadInv
  <2>4. Tail(todo[t]) = <<>>
    BY <2>3
  <2> QED BY <1>1, <1>2, <1>3, <1>5, <2>2, <2>4 DEF ThreadInv
<1> QED BY <1>4, <1>5, ControlThreads

\* The data after a step: what the setter sets has the types, and the rest is kept.
LEMMA AssignedData ==
  ASSUME DataInv, NEW to, DOMAIN to \subseteq Fields, \A f \in DOMAIN to : Typed(f, to[f]),
         ActiveA \in DOMAIN to <=> ActiveB \in DOMAIN to,
         ActiveA \in DOMAIN to => to[ActiveA] # to[ActiveB],
         data' = Assigned(to)
  PROVE  DataInv'
<1>1. DOMAIN data' = Fields
  BY DEF Assigned
<1>2. \A f \in Fields : data'[f] = IF f \in DOMAIN to THEN to[f] ELSE data[f]
  BY DEF Assigned
<1>3. \A f \in Fields : Typed(f, data'[f])
  BY <1>2 DEF DataInv
<1>4. ActiveA \in Fields /\ ActiveB \in Fields
  BY Kinds DEF Fields
<1>5. data'[ActiveA] # data'[ActiveB]
  BY <1>2, <1>4 DEF DataInv
<1> QED BY <1>1, <1>3, <1>5 DEF DataInv

\* A field read by the main thread.
LEMMA FieldRead ==
  ASSUME DataInv, NEW v \in {"vfo.a", "vfo.b"}
  PROVE  /\ GetVfo(v, "freq") \in Int /\ GetVfo(v, "mode") \in 0..7 /\ GetVfo(v, "smeter") \in Int
         /\ \A f \in {"freq", "mode", "smeter"} :
              <<v, f>> \in Numbers /\ Typed(<<v, f>>, GetVfo(v, f)) /\ <<v, f>> \in ReadBack
<1>1. \A f \in {"freq", "mode", "smeter"} : <<v, f>> \in Numbers /\ <<v, f>> \in ReadBack
  BY Zenon DEF Numbers, ReadBack
<1>2. \A f \in {"freq", "mode", "smeter"} : Typed(<<v, f>>, GetVfo(v, f))
  BY <1>1 DEF DataInv, GetVfo, Fields
<1>3. Typed(<<v, "freq">>, GetVfo(v, "freq")) /\ Typed(<<v, "mode">>, GetVfo(v, "mode"))
      /\ Typed(<<v, "smeter">>, GetVfo(v, "smeter"))
  BY <1>2
<1>4. GetVfo(v, "freq") \in Int /\ GetVfo(v, "mode") \in 0..7 /\ GetVfo(v, "smeter") \in Int
  <2>1. <<v, "freq">> \in Numbers /\ <<v, "mode">> \in Numbers /\ <<v, "smeter">> \in Numbers
    BY <1>1
  <2>2. <<v, "mode">>[2] = "mode"
    OBVIOUS
  <2> QED BY <1>3, <2>1, <2>2 DEF Typed, InRange
<1> QED BY <1>1, <1>2, <1>4

LEMMA RateTyped ==
  ASSUME NEW hz
  PROVE  NextTuningRate(hz) \in Int
<1>1. CASE IsRate(hz)
  <2>1. Place(hz) \in 1..11
    BY <1>1 DEF IsRate, Place
  <2>2. (Place(hz) % 11) + 1 \in 1..11
    BY <2>1
  <2> QED BY <1>1, <2>2, RatesDistinct DEF NextTuningRate
<1>2. CASE ~IsRate(hz)
  <2>1. 1 \in 1..11
    OBVIOUS
  <2> QED BY <1>2, <2>1, RatesDistinct DEF NextTuningRate
<1> QED BY <1>1, <1>2

LEMMA InitTypes ==
  ASSUME Init
  PROVE  TypeInv
<1> DEFINE Initial == [Constructed EXCEPT ![Connection] = <<"CONNECTED", 0>>]
<1>1. data = Initial /\ todo = [t \in Threads |-> <<>>] /\ at = [t \in Threads |-> "ready"]
      /\ posts = <<>> /\ up = TRUE /\ toRadio = <<>> /\ frames = <<>> /\ radio = RadioInit
      /\ told = {} /\ asked = <<>>
      /\ ui = [f \in Shown |-> data[f]] /\ main = AtRest
  BY DEF Init, ControlInit, StateInit
<1>2. DOMAIN Constructed = Fields
  BY DEF Constructed
<1>3. DOMAIN Initial = Fields /\ \A f \in Fields \ {Connection} : Initial[f] = Constructed[f]
  BY <1>2
<1>4. \A f \in Fields : Typed(f, Initial[f])
  <2>1. Connection \notin Flags /\ Connection \notin Numbers
    BY Kinds
  <2> QED BY <1>3, <2>1, ConstructedTyped DEF Typed
<1>5. Initial[ActiveA] # Initial[ActiveB]
  <2>1. ActiveA \in Flags /\ ActiveB \in Flags /\ ActiveA # Connection /\ ActiveB # Connection
    BY Kinds
  <2>2. Constructed[ActiveA] = Flag(ActiveA) /\ Constructed[ActiveB] = Flag(ActiveB)
    BY <2>1 DEF Constructed, Fields
  <2>3. Flag(ActiveA) = TRUE /\ Flag(ActiveB) = FALSE
    BY DEF Flag, ActiveA, ActiveB
  <2>4. Initial[ActiveA] = Constructed[ActiveA] /\ Initial[ActiveB] = Constructed[ActiveB]
    BY <1>3, <2>1 DEF Fields
  <2> QED BY <2>2, <2>3, <2>4
<1> HIDE DEF Initial
<1>6. DataInv
  BY <1>1, <1>3, <1>4, <1>5 DEF DataInv
<1>7. ThreadInv
  BY <1>1, ControlThreads DEF ThreadInv, Places
<1>8. RadioInv
  <2>1. DOMAIN radio = Settings
    BY <1>1 DEF RadioInit
  <2>2. ASSUME NEW s \in Settings PROVE IsOfRadio(s, radio[s])
    <3>1. CASE s = <<"vfo.a", "mode">>
      <4>1. RadioModes[2] = "USB" /\ 2 \in DOMAIN RadioModes
        BY DEF RadioModes, ParsedMode
      <4>2. radio[s] = "USB" /\ s[2] = "mode"
        BY <1>1, <3>1 DEF RadioInit
      <4> QED BY <4>1, <4>2 DEF IsOfRadio
    <3>2. CASE s # <<"vfo.a", "mode">>
      <4>1. radio[s] = Constructed[s]
        BY <1>1, <3>2 DEF RadioInit
      <4>2. s[2] # "mode" /\ (s[2] = "ptt" => s = <<"tx", "ptt">>)
        BY <3>2, SevenSettings
      <4>3. Typed(s, Constructed[s])
        BY Kinds, ConstructedTyped
      <4>4. CASE s[2] = "ptt"
        BY <4>1, <4>2, <4>3, <4>4, Kinds DEF Typed, IsOfRadio
      <4>5. CASE s[2] # "ptt"
        <5>1. s # <<"tx", "ptt">>
          BY <4>5
        <5>2. s \in Numbers
          BY <5>1, Kinds
        <5> QED BY <4>1, <4>2, <4>3, <4>5, <5>2 DEF Typed, IsOfRadio
      <4> QED BY <4>4, <4>5
    <3> QED BY <3>1, <3>2
  <2> QED BY <1>1, <2>1, <2>2 DEF RadioInv
<1>9. QueueInv
  BY <1>1 DEF QueueInv
<1>10. ViewInv
  <2>1. \A f \in Shown : f \in Fields
    BY Kinds DEF Fields
  <2>2. \A f \in DOMAIN ui \ {Connection} : Typed(f, ui[f])
    BY <1>1, <1>6, <2>1 DEF DataInv
  <2>3. DOMAIN ui = Shown
    BY <1>1
  <2>4. main \in [at : {"idle", "freq", "mode", "smeter"}, vfo : {"vfo.a", "vfo.b"},
                  freq : Int, mode : 0..7]
    BY <1>1 DEF AtRest
  <2> QED BY <2>2, <2>3, <2>4 DEF ViewInv
<1> QED BY <1>6, <1>7, <1>8, <1>9, <1>10 DEF TypeInv

Kept == UNCHANGED <<ui, main>>

\* The steps of Next, one by one.  tuneUp() is one of the calls.
LEMMA NextSteps ==
  ASSUME TypeInv, Next, Calls \subseteq Seq(AppSteps)
  PROVE  \/ \E t \in Threads : Apply(t) /\ UNCHANGED <<link, others>> /\ Kept
         \/ \E t \in Threads : Callback(t) /\ UNCHANGED <<link, others>> /\ Kept
         \/ \E t \in Threads : Transmit(t) /\ Kept
         \/ \E u \in Callers, call \in Seq(AppSteps) : Enter(u, call) /\ Kept
         \/ (Receive \/ StoreConnectionState \/ Relock \/ Retry \/ Redialled) /\ Kept
         \/ (RadioTakes \/ RadioTurns \/ RadioMumbles \/ Lose) /\ Kept
         \/ TakePost \/ ReadField("freq", "mode") \/ ReadField("mode", "smeter") \/ Refresh
         \/ CycleTuningRate
<1>1. CASE \E u \in Callers : ThreadStep(u) /\ Kept
  BY <1>1, ControlThreads DEF ThreadStep
<1>2. CASE \E u \in Callers : Call(u) /\ Kept
  BY <1>2 DEF Call
<1>3. CASE ReaderStep /\ Kept
  BY <1>3, ControlThreads DEF ReaderStep, ThreadStep
<1>4. CASE Environment /\ Kept
  BY <1>4 DEF Environment
<1>5. CASE MainStep \/ CycleTuningRate
  BY <1>5 DEF MainStep
<1>6. CASE \E u \in Callers : TuneUp(u)
  <2>1. PICK u \in Callers : TuneUp(u)
    BY <1>6
  <2> DEFINE call == RequestFrequency(0, ui[<<"vfo.a", "freq">>] + ui[<<"vfo.a", "rate">>])
  <2>2. Enter(u, call) /\ Kept
    BY <2>1 DEF TuneUp, Kept
  <2>3. <<"vfo.a", "freq">> \in Numbers /\ <<"vfo.a", "rate">> \in Numbers
        /\ <<"vfo.a", "freq">> \in ReadBack
    BY Zenon DEF Numbers, ReadBack
  <2>4. ui[<<"vfo.a", "freq">>] \in Int /\ ui[<<"vfo.a", "rate">>] \in Int
    BY <2>3, Kinds DEF TypeInv, ViewInv, Typed
  <2>5. ui[<<"vfo.a", "freq">>] + ui[<<"vfo.a", "rate">>] \in Int
    BY <2>4
  <2>6. call \in Seq(AppSteps)
    BY <2>5, FrequencyCall
  <2> QED BY <2>2, <2>6
<1> QED BY <1>1, <1>2, <1>3, <1>4, <1>5, <1>6, Zenon DEF Next, Working, Kept

LEMMA NotifyTypes ==
  ASSUME ThreadInv, posts \in Seq(Posts),
         NEW status \in {"CONNECTED", "RECONNECTING"}, NEW attempts \in {0, 1},
         NotifyConnectionState(status, attempts)
  PROVE  ThreadInv' /\ posts' \in Seq(Posts) /\ data' = data
<1> DEFINE step == SetConnectionState(status, attempts)
<1>1. todo' = [todo EXCEPT ![Reader] = <<step>>] /\ at' = [at EXCEPT ![Reader] = "notified"]
      /\ data' = data
      /\ posts' = Append(posts, [kind |-> "connection", of |-> <<status, attempts>>])
  BY DEF NotifyConnectionState, Move
<1>2. step \in LinkSteps
  BY DEF LinkSteps
<1>3. [kind |-> "connection", of |-> <<status, attempts>>] \in Posts
  BY DEF Posts
<1> HIDE DEF step
<1>4. posts' \in Seq(Posts)
  BY <1>1, <1>3, AppendProperties
<1>5. Reader \in Threads /\ \A u \in Callers : u \in Threads /\ u # Reader
  BY ControlThreads
<1>6. at' \in [Threads -> Places] /\ DOMAIN todo' = Threads
  BY <1>1 DEF ThreadInv, Places
<1>7. at'[Reader] = "notified" /\ todo'[Reader] = <<step>>
      /\ \A t \in Threads \ {Reader} : at'[t] = at[t] /\ todo'[t] = todo[t]
  BY <1>1, <1>5 DEF ThreadInv
<1>8. \A u \in Callers : at'[u] \in {"ready", "callback"} /\ todo'[u] \in Seq(AppSteps)
  BY <1>5, <1>7 DEF ThreadInv
<1>9. \A t \in Threads : at'[t] = "callback" => todo'[t] # <<>> /\ Head(todo'[t]).does = "set"
  BY <1>7 DEF ThreadInv
<1> QED BY <1>1, <1>2, <1>4, <1>6, <1>7, <1>8, <1>9 DEF ThreadInv

\* A setting of the radio becomes something that it may be, and is reported.
LEMMA BecomesTypes ==
  ASSUME RadioInv, frames \in Seq(Frames), NEW s \in Settings, NEW x, IsOfRadio(s, x), Becomes(s, x)
  PROVE  /\ DOMAIN radio' = Settings /\ \A r \in Settings : IsOfRadio(r, radio'[r])
         /\ told' \subseteq Settings /\ frames' \in Seq(Frames) /\ Report(s, x) \in Frames
<1>1. radio' = [radio EXCEPT ![s] = x] /\ frames' = Append(frames, Report(s, x))
      /\ told' = told \cup {s}
  BY DEF Becomes
<1>2. About(Report(s, x), s)
  BY DEF About
<1>3. Report(s, x) \in Frames
  BY <1>2, FramesAre DEF IsFrame
<1>4. frames' \in Seq(Frames)
  BY <1>1, <1>3, AppendProperties
<1>5. DOMAIN radio' = Settings /\ \A r \in Settings : radio'[r] = IF r = s THEN x ELSE radio[r]
  BY <1>1 DEF RadioInv
<1>6. \A r \in Settings : IsOfRadio(r, radio'[r])
  BY <1>5 DEF RadioInv
<1> QED BY <1>1, <1>3, <1>4, <1>5, <1>6 DEF RadioInv

\* The operator's choices are settings and what they may be.
LEMMA KnobIsOfRadio ==
  ASSUME NEW k \in Knobs
  PROVE  k[1] \in Settings /\ IsOfRadio(k[1], k[2])
BY Operator

\* What is asked once a command is sent: the caller's wish of its setting, unless that is
\* left open, and of every other setting what was asked before.
LEMMA AskingIs ==
  ASSUME NEW c
  PROVE  /\ c.setting = Connection => Asking(c) = asked
         /\ c.setting # Connection /\ c.wanted = Open => DOMAIN Asking(c) = DOMAIN asked \ {c.setting}
         /\ c.setting # Connection /\ c.wanted # Open =>
              /\ DOMAIN Asking(c) = DOMAIN asked \cup {c.setting}
              /\ Asking(c)[c.setting] = c.wanted
         /\ \A s \in DOMAIN Asking(c) :
              c.setting = Connection \/ s # c.setting => s \in DOMAIN asked /\ Asking(c)[s] = asked[s]
<1>1. CASE c.setting = Connection
  BY <1>1 DEF Asking
<1>2. CASE c.setting # Connection /\ c.wanted = Open
  BY <1>2 DEF Asking
<1>3. CASE c.setting # Connection /\ c.wanted # Open
  BY <1>3 DEF Asking
<1> QED BY <1>1, <1>2, <1>3

LEMMA TypeStep ==
  ASSUME TypeInv, [Next]_vars, Calls \subseteq Seq(AppSteps)
  PROVE  TypeInv'
<1> USE DEF Kept
<1>0. /\ DataInv /\ ThreadInv /\ RadioInv /\ ViewInv
      /\ posts \in Seq(Posts) /\ toRadio \in Seq(Commands) /\ frames \in Seq(Frames)
  BY DEF TypeInv, QueueInv
<1>1. ASSUME NEW t \in Threads, Apply(t), UNCHANGED <<link, others>>, Kept
      PROVE  TypeInv'
  <2> DEFINE s == Head(todo[t])
  <2>1. at[t] = "ready" /\ todo[t] # <<>> /\ s.does = "set" /\ posts' = posts
    BY <1>1 DEF Apply
  <2>2. SetsOnly(s)
    BY <1>0, <2>1, HeadSets
  <2>3. QueueInv' /\ RadioInv' /\ ViewInv'
    BY <1>0, <1>1, <2>1 DEF QueueInv, RadioInv, ViewInv, link
  <2>4. CASE Changes(s)
    <3>1. data' = Assigned(s.to) /\ at' = [at EXCEPT ![t] = "callback"] /\ todo' = todo
      BY <1>1, <2>4 DEF Apply, Move
    <3>2. DataInv'
      BY <1>0, <2>2, <3>1, AssignedData DEF SetsOnly
    <3>3. at' \in [Threads -> Places]
      BY <1>0, <3>1 DEF ThreadInv, Places
    <3>4. at'[t] = "callback" /\ \A r \in Threads \ {t} : at'[r] = at[r]
      BY <1>0, <3>1 DEF ThreadInv
    <3>5. \A r \in Threads : at'[r] = "callback" => todo'[r] # <<>> /\ Head(todo'[r]).does = "set"
      BY <1>0, <2>1, <3>1, <3>4 DEF ThreadInv
    <3>6. ThreadInv'
      BY <1>0, <2>1, <3>1, <3>3, <3>4, <3>5, ControlThreads DEF ThreadInv
    <3> QED BY <2>3, <3>2, <3>6 DEF TypeInv
  <2>5. CASE ~Changes(s)
    <3>1. Finish(t) /\ data' = data /\ at' = at
      BY <1>1, <2>5 DEF Apply
    <3>2. at' = [at EXCEPT ![t] = "ready"]
      BY <1>0, <2>1, <3>1 DEF ThreadInv
    <3>3. ThreadInv'
      BY <1>0, <2>1, <3>1, <3>2, FinishKeeps
    <3>4. DataInv'
      BY <1>0, <3>1 DEF DataInv
    <3> QED BY <2>3, <3>3, <3>4 DEF TypeInv
  <2> QED BY <2>4, <2>5
<1>2. ASSUME NEW t \in Threads, Callback(t), UNCHANGED <<link, others>>, Kept
      PROVE  TypeInv'
  <2> DEFINE k == Head(todo[t]).key
  <2>1. at[t] = "callback" /\ posts' = Append(posts, [kind |-> "key", of |-> k])
        /\ Finish(t) /\ at' = [at EXCEPT ![t] = "ready"] /\ data' = data
    BY <1>2 DEF Callback, Move
  <2>2. todo[t] # <<>> /\ Head(todo[t]).does = "set"
    BY <1>0, <2>1 DEF ThreadInv
  <2>3. SetsOnly(Head(todo[t]))
    BY <1>0, <2>1, <2>2, HeadSets
  <2>4. [kind |-> "key", of |-> k] \in Posts
    BY <2>3 DEF SetsOnly, Posts
  <2>5. posts' \in Seq(Posts)
    BY <1>0, <2>1, <2>4, AppendProperties
  <2>6. ThreadInv'
    BY <1>0, <2>1, <2>2, FinishKeeps
  <2> QED BY <1>0, <1>2, <2>1, <2>5, <2>6 DEF TypeInv, QueueInv, RadioInv, ViewInv, DataInv, link
<1>3. ASSUME NEW t \in Threads, Transmit(t), Kept
      PROVE  TypeInv'
  <2> DEFINE c == Head(todo[t])
  <2>1. at[t] = "ready" /\ todo[t] # <<>> /\ c.does = "send" /\ Finish(t)
        /\ UNCHANGED <<data, at, posts, up, frames, radio, told>>
    BY <1>3 DEF Transmit
  <2>2. t \in Callers /\ c \in Requests
    BY <1>0, <2>1, HeadSends
  <2>3. at' = [at EXCEPT ![t] = "ready"]
    BY <1>0, <2>1 DEF ThreadInv
  <2>4. ThreadInv'
    BY <1>0, <2>1, <2>3, FinishKeeps
  <2>5. toRadio' \in Seq(Commands) /\ DOMAIN asked' \subseteq Settings
    <3>1. CASE up
      <4>1. toRadio' = Append(toRadio, Command(c))
        BY <1>3, <3>1 DEF Transmit, Command
      <4>2. Command(c) \in Commands
        BY <2>2 DEF Commands
      <4>3. asked' = Asking(c)
        BY <1>3, <3>1 DEF Transmit
      <4>4. c.setting # Connection => c.setting \in Settings
        BY <2>2, CommandMeans
      <4>5. \/ DOMAIN Asking(c) \subseteq DOMAIN asked
            \/ c.setting # Connection /\ DOMAIN Asking(c) = DOMAIN asked \cup {c.setting}
        <5> HIDE DEF c
        <5> QED BY AskingIs
      <4>6. DOMAIN asked' \subseteq Settings
        BY <1>0, <4>3, <4>4, <4>5 DEF RadioInv
      <4> QED BY <1>0, <4>1, <4>2, <4>6, AppendProperties
    <3>2. CASE ~up
      BY <1>0, <1>3, <3>2 DEF Transmit, RadioInv
    <3> QED BY <3>1, <3>2
  <2> QED BY <1>0, <1>3, <2>1, <2>4, <2>5 DEF TypeInv, QueueInv, RadioInv, ViewInv, DataInv
<1>4. ASSUME NEW u \in Callers, NEW call \in Seq(AppSteps), Enter(u, call), Kept
      PROVE  TypeInv'
  <2>1. at[u] = "ready" /\ todo' = [todo EXCEPT ![u] = call]
        /\ UNCHANGED <<data, at, posts, link>>
    BY <1>4 DEF Enter, Idle
  <2>2. u # Reader /\ u \in Threads /\ Reader \in Threads /\ \A r \in Callers : r \in Threads
    BY ControlThreads
  <2>3. todo'[u] = call /\ DOMAIN todo' = Threads /\ \A r \in Threads \ {u} : todo'[r] = todo[r]
    BY <1>0, <2>1, <2>2 DEF ThreadInv
  <2>4. ThreadInv'
    BY <1>0, <2>1, <2>2, <2>3 DEF ThreadInv
  <2> QED BY <1>0, <1>4, <2>1, <2>4 DEF TypeInv, QueueInv, RadioInv, ViewInv, DataInv, link
<1>5. ASSUME Receive, Kept
      PROVE  TypeInv'
  <2>1. at[Reader] = "ready" /\ frames # <<>> /\ frames' = Tail(frames)
        /\ todo' = [todo EXCEPT ![Reader] = Dispatch(Head(frames))]
        /\ UNCHANGED <<data, at, posts, up, toRadio, radio, told, asked>>
    BY <1>5 DEF Receive, Idle
  <2>2. Head(frames) \in Frames /\ Tail(frames) \in Seq(Frames)
    BY <1>0, <2>1, HeadTailProperties
  <2>3. Dispatch(Head(frames)) = <<>> \/ \E step \in FrameSteps : Dispatch(Head(frames)) = <<step>>
    BY <2>2, FramesAre, FrameDispatched
  <2>4. Reader \in Threads /\ \A r \in Callers : r \in Threads /\ r # Reader
    BY ControlThreads
  <2>5. todo'[Reader] = Dispatch(Head(frames)) /\ DOMAIN todo' = Threads
        /\ \A r \in Threads \ {Reader} : todo'[r] = todo[r]
    BY <1>0, <2>1, <2>4 DEF ThreadInv
  <2>6. ThreadInv'
    BY <1>0, <2>1, <2>3, <2>4, <2>5 DEF ThreadInv
  <2> QED BY <1>0, <1>5, <2>1, <2>2, <2>6 DEF TypeInv, QueueInv, RadioInv, ViewInv, DataInv
<1>6. ASSUME StoreConnectionState, Kept
      PROVE  TypeInv'
  <2>1. at[Reader] = "notified" /\ data' = Assigned(Head(todo[Reader]).to)
        /\ at' = [at EXCEPT ![Reader] = "relock"] /\ UNCHANGED <<todo, posts, link>>
    BY <1>6 DEF StoreConnectionState, Move
  <2>2. PICK s \in LinkSteps : todo[Reader] = <<s>>
    BY <1>0, <2>1 DEF ThreadInv
  <2>3. Head(todo[Reader]) = s /\ DOMAIN s.to = {Connection}
    BY <2>2 DEF LinkSteps, SetConnectionState, SetAggregate
  <2>4. Connection \in Fields /\ Connection \notin Flags /\ Connection \notin Numbers
        /\ Connection # ActiveA /\ Connection # ActiveB
    BY Kinds
  <2>5. DataInv'
    BY <1>0, <2>1, <2>3, <2>4, AssignedData DEF Typed
  <2>6. Reader \in Threads /\ \A r \in Callers : r \in Threads /\ r # Reader
    BY ControlThreads
  <2>7. at' \in [Threads -> Places] /\ at'[Reader] = "relock"
        /\ \A r \in Threads \ {Reader} : at'[r] = at[r]
    BY <1>0, <2>1, <2>6 DEF ThreadInv, Places
  <2>8. ThreadInv'
    BY <1>0, <2>1, <2>2, <2>6, <2>7 DEF ThreadInv
  <2> QED BY <1>0, <1>6, <2>1, <2>5, <2>8 DEF TypeInv, QueueInv, RadioInv, ViewInv, link
<1>7. ASSUME Relock, Kept
      PROVE  TypeInv'
  <2>1. at[Reader] = "relock" /\ Finish(Reader) /\ at' = [at EXCEPT ![Reader] = "ready"]
        /\ posts' = Append(posts, [kind |-> "key", of |-> Connection]) /\ UNCHANGED <<data, link>>
    BY <1>7 DEF Relock, Move
  <2>2. [kind |-> "key", of |-> Connection] \in Posts
    BY Kinds DEF Posts, Keys
  <2>3. posts' \in Seq(Posts)
    BY <1>0, <2>1, <2>2, AppendProperties
  <2>4. PICK s \in LinkSteps : todo[Reader] = <<s>>
    BY <1>0, <2>1 DEF ThreadInv
  <2>5. Reader \in Threads /\ \A r \in Callers : r \in Threads /\ r # Reader
    BY ControlThreads
  <2>6. at' \in [Threads -> Places] /\ at'[Reader] = "ready" /\ DOMAIN todo' = Threads
        /\ todo'[Reader] = Tail(todo[Reader])
        /\ \A r \in Threads \ {Reader} : at'[r] = at[r] /\ todo'[r] = todo[r]
    BY <1>0, <2>1, <2>5 DEF ThreadInv, Places, Finish
  <2>7. todo'[Reader] = <<>>
    BY <2>4, <2>6
  <2>8. ThreadInv'
    BY <1>0, <2>5, <2>6, <2>7 DEF ThreadInv
  <2> QED BY <1>0, <1>7, <2>1, <2>3, <2>8 DEF TypeInv, QueueInv, RadioInv, ViewInv, DataInv, link
<1>8. ASSUME Retry, Kept
      PROVE  TypeInv'
  <2>1. NotifyConnectionState("RECONNECTING", 1) /\ UNCHANGED link
    BY <1>8 DEF Retry
  <2>2. ThreadInv' /\ posts' \in Seq(Posts) /\ data' = data
    BY <1>0, <2>1, NotifyTypes
  <2> QED BY <1>0, <1>8, <2>1, <2>2 DEF TypeInv, QueueInv, RadioInv, ViewInv, DataInv, link
<1>9. ASSUME Redialled, Kept
      PROVE  TypeInv'
  <2>1. NotifyConnectionState("CONNECTED", 0) /\ up' = TRUE
        /\ UNCHANGED <<toRadio, frames, radio, told, asked>>
    BY <1>9 DEF Redialled
  <2>2. ThreadInv' /\ posts' \in Seq(Posts) /\ data' = data
    BY <1>0, <2>1, NotifyTypes
  <2> QED BY <1>0, <1>9, <2>1, <2>2 DEF TypeInv, QueueInv, RadioInv, ViewInv, DataInv
<1>10. ASSUME RadioTakes, Kept
       PROVE  TypeInv'
  <2> DEFINE c == Head(toRadio)
  <2>1. toRadio # <<>> /\ toRadio' = Tail(toRadio) /\ UNCHANGED <<data, todo, at, posts, up, asked>>
    BY <1>10 DEF RadioTakes, state
  <2>2. c \in Commands /\ toRadio' \in Seq(Commands)
    BY <1>0, <2>1, HeadTailProperties
  <2>3. RadioInv' /\ frames' \in Seq(Frames)
    <3>1. CASE c.name \in SettingCommands
      <4>1. Becomes(Meaning(c)[1], Meaning(c)[2])
        BY <1>10, <3>1 DEF RadioTakes, SettingCommands
      <4>2. Meaning(c)[1] \in Settings /\ IsOfRadio(Meaning(c)[1], Meaning(c)[2])
        BY <2>2, <3>1, CommandIsOfRadio
      <4> HIDE DEF c
      <4>3. /\ DOMAIN radio' = Settings /\ \A r \in Settings : IsOfRadio(r, radio'[r])
            /\ told' \subseteq Settings /\ frames' \in Seq(Frames)
        BY <1>0, <4>1, <4>2, BecomesTypes
      <4> QED BY <1>0, <2>1, <4>3 DEF RadioInv
    <3>2. CASE c.name \notin SettingCommands
      <4>1. UNCHANGED <<radio, frames, told>>
        BY <1>10, <3>2 DEF RadioTakes, SettingCommands
      <4> QED BY <1>0, <2>1, <4>1 DEF RadioInv
    <3> QED BY <3>1, <3>2
  <2> QED BY <1>0, <1>10, <2>1, <2>2, <2>3 DEF TypeInv, QueueInv, ThreadInv, ViewInv, DataInv
<1>11. ASSUME RadioTurns, Kept
       PROVE  TypeInv'
  <2>1. UNCHANGED <<data, todo, at, posts, up, toRadio>>
    BY <1>11 DEF RadioTurns, Turning, state
  <2>2. PICK k \in Knobs : /\ Becomes(k[1], k[2])
                           /\ asked' = [s \in DOMAIN asked \ {k[1]} |-> asked[s]]
    BY <1>11 DEF RadioTurns
  <2>3. k[1] \in Settings /\ IsOfRadio(k[1], k[2])
    BY KnobIsOfRadio
  <2>4. /\ DOMAIN radio' = Settings /\ \A r \in Settings : IsOfRadio(r, radio'[r])
        /\ told' \subseteq Settings /\ frames' \in Seq(Frames)
    BY <1>0, <2>2, <2>3, BecomesTypes
  <2>5. DOMAIN asked' \subseteq Settings
    BY <1>0, <2>2 DEF RadioInv
  <2> QED BY <1>0, <1>11, <2>1, <2>4, <2>5 DEF TypeInv, QueueInv, ThreadInv, RadioInv, ViewInv, DataInv
<1>12. ASSUME RadioMumbles, Kept
       PROVE  TypeInv'
  <2>1. UNCHANGED <<data, todo, at, posts, up, toRadio, radio, told, asked>>
    BY <1>12 DEF RadioMumbles, Turning, state
  <2>2. PICK c \in Noise : frames' = Append(frames, c)
    BY <1>12 DEF RadioMumbles
  <2>3. c \in Frames
    BY <2>2, FramesAre DEF IsFrame
  <2>4. frames' \in Seq(Frames)
    BY <1>0, <2>2, <2>3, AppendProperties
  <2> QED BY <1>0, <1>12, <2>1, <2>4 DEF TypeInv, QueueInv, ThreadInv, RadioInv, ViewInv, DataInv
<1>13. ASSUME Lose, Kept
       PROVE  TypeInv'
  <2>1. NotifyConnectionState("RECONNECTING", 0) /\ up' = FALSE /\ toRadio' = <<>> /\ frames' = <<>>
        /\ told' = {} /\ asked' = <<>> /\ radio' = radio
    BY <1>13 DEF Lose
  <2>2. ThreadInv' /\ posts' \in Seq(Posts) /\ data' = data
    BY <1>0, <2>1, NotifyTypes
  <2>3. RadioInv'
    <3>1. DOMAIN asked' = {}
      BY <2>1
    <3> QED BY <1>0, <2>1, <3>1 DEF RadioInv
  <2> QED BY <1>0, <1>13, <2>1, <2>2, <2>3 DEF TypeInv, QueueInv, ViewInv, DataInv
<1>14. ASSUME TakePost
       PROVE  TypeInv'
  <2>1. posts # <<>> /\ posts' = Tail(posts) /\ UNCHANGED <<data, todo, at, link>>
    BY <1>14 DEF TakePost
  <2>2. posts' \in Seq(Posts)
    BY <1>0, <2>1, HeadTailProperties
  <2>3. ViewInv'
    <3>1. CASE Head(posts).kind = "connection"
      <4>1. ui' = [ui EXCEPT ![Connection] = Head(posts).of] /\ main' = main
        BY <1>14, <3>1 DEF TakePost
      <4> QED BY <1>0, <4>1 DEF ViewInv
    <3>2. CASE Head(posts).kind # "connection"
      <4>1. ui' = ui
        BY <1>14, <3>2 DEF TakePost
      <4>2. CASE \E v \in Refreshes(Head(posts).of) : main' = [main EXCEPT !.at = "freq", !.vfo = v]
        <5>1. PICK v \in Refreshes(Head(posts).of) : main' = [main EXCEPT !.at = "freq", !.vfo = v]
          BY <4>2
        <5>2. v \in {"vfo.a", "vfo.b"}
          BY Refreshed
        <5> QED BY <1>0, <4>1, <5>1, <5>2 DEF ViewInv
      <4>3. CASE main' = main
        BY <1>0, <4>1, <4>3 DEF ViewInv
      <4> QED BY <1>14, <3>2, <4>2, <4>3 DEF TakePost
    <3> QED BY <3>1, <3>2
  <2> QED BY <1>0, <2>1, <2>2, <2>3 DEF TypeInv, QueueInv, ThreadInv, RadioInv, DataInv, link
<1>15. ASSUME ReadField("freq", "mode")
       PROVE  TypeInv'
  <2>1. main' = [main EXCEPT !.at = "mode", !.freq = GetVfo(main.vfo, "freq")]
        /\ UNCHANGED <<data, todo, at, posts, link, ui>>
    BY <1>15 DEF ReadField, controlVars, state
  <2>2. GetVfo(main.vfo, "freq") \in Int
    BY <1>0, FieldRead DEF ViewInv
  <2>3. ViewInv'
    BY <1>0, <2>1, <2>2 DEF ViewInv
  <2> QED BY <1>0, <2>1, <2>3 DEF TypeInv, QueueInv, ThreadInv, RadioInv, DataInv, link
<1>16. ASSUME ReadField("mode", "smeter")
       PROVE  TypeInv'
  <2>1. main' = [main EXCEPT !.at = "smeter", !.mode = GetVfo(main.vfo, "mode")]
        /\ UNCHANGED <<data, todo, at, posts, link, ui>>
    BY <1>16 DEF ReadField, controlVars, state
  <2>2. GetVfo(main.vfo, "mode") \in 0..7
    BY <1>0, FieldRead DEF ViewInv
  <2>3. ViewInv'
    BY <1>0, <2>1, <2>2 DEF ViewInv
  <2> QED BY <1>0, <2>1, <2>3 DEF TypeInv, QueueInv, ThreadInv, RadioInv, DataInv, link
<1>17. ASSUME Refresh
       PROVE  TypeInv'
  <2> DEFINE v == main.vfo
  <2>1. main' = AtRest /\ UNCHANGED <<data, todo, at, posts, link>>
        /\ ui' = [ui EXCEPT ![<<v, "freq">>] = main.freq, ![<<v, "mode">>] = main.mode,
                            ![<<v, "smeter">>] = GetVfo(v, "smeter")]
    BY <1>17 DEF Refresh, controlVars, state
  <2>2. v \in {"vfo.a", "vfo.b"} /\ main.freq \in Int /\ main.mode \in 0..7
    BY <1>0 DEF ViewInv
  <2>3. Typed(<<v, "freq">>, main.freq) /\ Typed(<<v, "mode">>, main.mode)
        /\ Typed(<<v, "smeter">>, GetVfo(v, "smeter"))
    <3>1. \A f \in {"freq", "mode", "smeter"} : <<v, f>> \notin Flags
      BY <1>0, <2>2, FieldRead, Kinds
    <3>2. Typed(<<v, "freq">>, main.freq)
      BY <2>2, <3>1 DEF Typed, InRange
    <3>3. Typed(<<v, "mode">>, main.mode)
      BY <2>2, <3>1 DEF Typed, InRange
    <3>4. Typed(<<v, "smeter">>, GetVfo(v, "smeter"))
      BY <1>0, <2>2, FieldRead
    <3> QED BY <3>2, <3>3, <3>4
  <2>4. DOMAIN ui' = DOMAIN ui
        /\ \A f \in DOMAIN ui : ui'[f] = IF f = <<v, "smeter">> THEN GetVfo(v, "smeter")
                                         ELSE IF f = <<v, "mode">> THEN main.mode
                                         ELSE IF f = <<v, "freq">> THEN main.freq ELSE ui[f]
    BY <2>1
  <2>5. main' \in [at : {"idle", "freq", "mode", "smeter"}, vfo : {"vfo.a", "vfo.b"},
                   freq : Int, mode : 0..7]
    BY <2>1 DEF AtRest
  <2>6. \A f \in DOMAIN ui' \ {Connection} : Typed(f, ui'[f])
    BY <1>0, <2>3, <2>4 DEF ViewInv
  <2>7. ViewInv'
    BY <1>0, <2>4, <2>5, <2>6 DEF ViewInv
  <2> QED BY <1>0, <2>1, <2>7 DEF TypeInv, QueueInv, ThreadInv, RadioInv, DataInv, link
<1>18. ASSUME CycleTuningRate
       PROVE  TypeInv'
  <2> DEFINE rate == <<"vfo.a", "rate">>
  <2>1. ui' = [ui EXCEPT ![rate] = NextTuningRate(ui[rate])]
        /\ UNCHANGED <<data, todo, at, posts, link, main>>
    BY <1>18 DEF CycleTuningRate, state
  <2>2. DOMAIN ui' = DOMAIN ui
        /\ \A f \in DOMAIN ui : ui'[f] = IF f = rate THEN NextTuningRate(ui[rate]) ELSE ui[f]
    BY <2>1
  <2>3. Typed(rate, NextTuningRate(ui[rate]))
    BY RateTyped, Kinds DEF Typed, InRange
  <2>4. ViewInv'
    BY <1>0, <2>1, <2>2, <2>3 DEF ViewInv
  <2> QED BY <1>0, <2>1, <2>4 DEF TypeInv, QueueInv, ThreadInv, RadioInv, DataInv, link
<1>19. CASE UNCHANGED vars
  BY <1>0, <1>19 DEF TypeInv, DataInv, ThreadInv, RadioInv, QueueInv, ViewInv, vars, controlVars,
                     state, link
<1>20. CASE Next
  <2> HIDE DEF Kept
  <2> QED BY <1>1, <1>2, <1>3, <1>4, <1>5, <1>6, <1>7, <1>8, <1>9, <1>10, <1>11, <1>12, <1>13,
             <1>14, <1>15, <1>16, <1>17, <1>18, <1>20, NextSteps
<1> QED BY <1>19, <1>20

\* What TypeOK says, field by field, is part of TypeInv.
LEMMA TypesFollow ==
  ASSUME TypeInv
  PROVE  TypeOK
<1> USE DEF TypeInv
<1>1. DOMAIN data = Fields /\ \A f \in Fields : Typed(f, data[f])
  BY DEF DataInv
<1>2. \A f \in Numbers : data[f] \in Int /\ InRange(f, data[f])
  BY <1>1 DEF Typed, Fields
<1>3. \A f \in Flags : data[f] \in BOOLEAN
  BY <1>1 DEF Typed, Fields
<1>4. ASSUME NEW v \in {"vfo.a", "vfo.b"}
      PROVE  /\ data[<<v, "mode">>] \in 0..7 /\ data[<<v, "active">>] \in BOOLEAN
             /\ {data[<<v, "freq">>], data[<<v, "smeter">>], data[<<v, "rate">>]} \subseteq Int
  <2>1. <<v, "mode">> \in Numbers /\ <<v, "freq">> \in Numbers /\ <<v, "smeter">> \in Numbers
        /\ <<v, "rate">> \in Numbers /\ <<v, "active">> \in Flags
    BY Zenon DEF Numbers, Flags
  <2>2. InRange(<<v, "mode">>, data[<<v, "mode">>])
    BY <1>2, <2>1
  <2>3. data[<<v, "mode">>] \in 0..7
    BY <2>2 DEF InRange
  <2> QED BY <1>2, <1>3, <2>1, <2>3
<1>5. {data[<<"audio", "main_vol">>], data[<<"audio", "sub_vol">>]} \subseteq 0..100
  <2>1. <<"audio", "main_vol">> \in Numbers /\ <<"audio", "sub_vol">> \in Numbers
    BY Zenon DEF Numbers
  <2>2. InRange(<<"audio", "main_vol">>, data[<<"audio", "main_vol">>])
        /\ InRange(<<"audio", "sub_vol">>, data[<<"audio", "sub_vol">>])
    BY <1>2, <2>1
  <2> QED BY <2>2 DEF InRange
<1>6. data[<<"audio", "sidetone">>] \in 400..1000
  <2>1. <<"audio", "sidetone">> \in Numbers
    BY Zenon DEF Numbers
  <2>2. InRange(<<"audio", "sidetone">>, data[<<"audio", "sidetone">>])
    BY <1>2, <2>1
  <2> QED BY <2>2 DEF InRange
<1>7. ASSUME NEW r \in {0, 1}, NEW a \in {0, 1} PROVE data[<<Nr(r, a), "lvl">>] \in 1..10
  <2>1. Nr(r, a) \in NrNames
    BY DEF Nr, NrNames
  <2>2. <<Nr(r, a), "lvl">> \in Numbers
    BY <2>1, Zenon DEF Numbers
  <2>3. InRange(<<Nr(r, a), "lvl">>, data[<<Nr(r, a), "lvl">>])
    BY <1>2, <2>2
  <2> QED BY <2>3 DEF InRange
<1>8. data[<<"cw", "speed">>] \in 5..60 /\ data[<<"spectrum", "span">>] \in SpanTiers
  <2>1. <<"cw", "speed">> \in Numbers /\ <<"spectrum", "span">> \in Numbers
    BY Zenon DEF Numbers
  <2>2. InRange(<<"cw", "speed">>, data[<<"cw", "speed">>])
        /\ InRange(<<"spectrum", "span">>, data[<<"spectrum", "span">>])
    BY <1>2, <2>1
  <2> QED BY <2>2 DEF InRange
<1>9. data[<<"vfo.a", "active">>] # data[<<"vfo.b", "active">>]
  BY DEF DataInv, ActiveA, ActiveB
<1>10. ui[<<"vfo.a", "mode">>] \in 0..7 /\ ui[<<"vfo.b", "mode">>] \in 0..7
  <2>1. \A v \in {"vfo.a", "vfo.b"} : <<v, "mode">> \in Numbers /\ <<v, "mode">> \in ReadBack
    BY Zenon DEF Numbers, ReadBack
  <2>2. \A v \in {"vfo.a", "vfo.b"} : InRange(<<v, "mode">>, ui[<<v, "mode">>])
    BY <2>1, Kinds DEF ViewInv, Typed
  <2> QED BY <2>2 DEF InRange
<1>11. DOMAIN data = DOMAIN Constructed /\ DOMAIN asked \subseteq DOMAIN Constructed
       /\ told \subseteq DOMAIN radio /\ up \in BOOLEAN
  BY <1>1, Kinds DEF Constructed, RadioInv
<1>12. at \in [Threads -> Places] /\ DOMAIN todo = Threads
  BY DEF ThreadInv
<1>13. main.at \in {"idle", "freq", "mode", "smeter"} /\ main.vfo \in {"vfo.a", "vfo.b"}
  BY DEF ViewInv
<1> QED BY <1>4, <1>5, <1>6, <1>7, <1>8, <1>9, <1>10, <1>11, <1>12, <1>13 DEF TypeOK

\* The ranges that the clamps, the parser and the span tiers promise, for any calls of the
\* API, any number of threads, and whatever the radio and its operator do.
THEOREM RadioTypeCorrect ==
  ASSUME Calls \subseteq Seq(AppSteps)
  PROVE  Spec => []TypeOK
<1>1. Init => TypeInv
  BY InitTypes
<1>2. TypeInv /\ [Next]_vars => TypeInv'
  BY TypeStep
<1>3. TypeInv => TypeOK
  BY TypesFollow
<1> QED BY <1>1, <1>2, <1>3, PTL DEF Spec

--------------------------------------------------------------------------------
(* The radio obeys                                                              *)

LastFor(i, s) ==
  /\ i \in 1..Len(toRadio) /\ Concerns(toRadio[i], s)
  /\ \A j \in 1..Len(toRadio) : j > i => ~Concerns(toRadio[j], s)

Obeyed(s) ==
  \/ radio[s] = asked[s] /\ \A i \in 1..Len(toRadio) : ~Concerns(toRadio[i], s)
  \/ \E i \in 1..Len(toRadio) : LastFor(i, s) /\ Meaning(toRadio[i])[2] = asked[s]

\* What is asked of a setting is what the last command about it on its way to the radio
\* means, or, when there is none, what the radio has.
ObeyInv == \A s \in DOMAIN asked : Obeyed(s)

\* A command sent: the last one about its setting, and not one about another.
LEMMA SentIsLast ==
  ASSUME TypeInv, ObeyInv, NEW t \in Threads, Transmit(t)
  PROVE  ObeyInv'
<1> DEFINE c == Head(todo[t])
<1>0. ThreadInv /\ RadioInv /\ toRadio \in Seq(Commands)
  BY DEF TypeInv, QueueInv
<1>1. at[t] = "ready" /\ todo[t] # <<>> /\ c.does = "send" /\ radio' = radio
  BY DEF Transmit
<1>2. c \in Requests
  BY <1>0, <1>1, HeadSends
<1>3. CASE ~up
  BY <1>1, <1>3 DEF Transmit, ObeyInv, Obeyed, LastFor
<1>4. CASE up
  <2>1. toRadio' = Append(toRadio, Command(c)) /\ Command(c) \in Commands
    BY <1>2, <1>4 DEF Transmit, Command, Commands
  <2>2. asked' = Asking(c)
    BY <1>4 DEF Transmit
  <2> HIDE DEF c
  <2>7. PICK n : n = Len(toRadio)
    OBVIOUS
  <2>3. /\ n \in Nat /\ Len(toRadio') = n + 1 /\ toRadio'[n + 1] = Command(c)
        /\ \A i \in 1..n : toRadio'[i] = toRadio[i]
    BY <1>0, <2>1, <2>7, AppendProperties, LenProperties
  <2>4. SUFFICES ASSUME NEW s \in DOMAIN asked' PROVE Obeyed(s)'
    BY DEF ObeyInv
  <2>5. CASE c.setting # Connection /\ s = c.setting
    <3>1. c.wanted # Open
      BY <2>2, <2>4, <2>5, AskingIs
    <3>2. Concerns(Command(c), s) /\ Meaning(Command(c))[2] = c.wanted
      BY <1>2, <2>5, <3>1, CommandMeans DEF Concerns
    <3>3. asked'[s] = c.wanted
      BY <2>2, <2>5, <3>1, AskingIs
    <3>4. LastFor(n + 1, s)'
      BY <2>3, <3>2 DEF LastFor
    <3> QED BY <2>3, <3>2, <3>3, <3>4 DEF Obeyed
  <2>6. CASE c.setting = Connection \/ s # c.setting
    <3>1. s \in DOMAIN asked /\ asked'[s] = asked[s]
      BY <2>2, <2>6, AskingIs
    <3>2. ~Concerns(Command(c), s)
      BY <1>2, <2>6, CommandMeans DEF Concerns
    <3>3. CASE radio[s] = asked[s] /\ \A i \in 1..n : ~Concerns(toRadio[i], s)
      <4>1. \A i \in 1..(n + 1) : ~Concerns(toRadio'[i], s)
        BY <2>3, <3>2, <3>3
      <4> QED BY <1>1, <2>3, <3>1, <3>3, <4>1 DEF Obeyed
    <3>4. CASE \E i \in 1..n : LastFor(i, s) /\ Meaning(toRadio[i])[2] = asked[s]
      <4>1. PICK i \in 1..n : LastFor(i, s) /\ Meaning(toRadio[i])[2] = asked[s]
        BY <3>4
      <4>2. LastFor(i, s)'
        BY <2>3, <2>7, <3>2, <4>1 DEF LastFor
      <4>3. Meaning(toRadio'[i])[2] = asked'[s]
        BY <2>3, <3>1, <4>1
      <4> QED BY <2>3, <4>1, <4>2, <4>3 DEF Obeyed
    <3>5. Obeyed(s)
      BY <3>1 DEF ObeyInv
    <3> QED BY <2>7, <3>3, <3>4, <3>5 DEF Obeyed
  <2> QED BY <2>5, <2>6
<1> QED BY <1>3, <1>4

\* A command taken: the radio's setting becomes what it means.
LEMMA TakenIsObeyed ==
  ASSUME TypeInv, ObeyInv, RadioTakes
  PROVE  ObeyInv'
<1> DEFINE c == Head(toRadio)   n == Len(toRadio)
<1>0. RadioInv /\ toRadio \in Seq(Commands)
  BY DEF TypeInv, QueueInv
<1>1. toRadio # <<>> /\ toRadio' = Tail(toRadio) /\ asked' = asked
  BY DEF RadioTakes
<1>2. /\ c \in Commands /\ c = toRadio[1] /\ n \in Nat /\ n >= 1 /\ Len(toRadio') = n - 1
      /\ \A i \in 1..(n - 1) : toRadio'[i] = toRadio[i + 1]
  BY <1>0, <1>1, HeadTailProperties, LenProperties
<1>3. IF c.name \in SettingCommands
        THEN radio' = [radio EXCEPT ![Meaning(c)[1]] = Meaning(c)[2]] /\ Meaning(c)[1] \in Settings
        ELSE radio' = radio
  BY <1>2, CommandIsOfRadio DEF RadioTakes, SettingCommands, Becomes
<1> HIDE DEF c
<1>4. \A s \in Settings : radio'[s] = IF Concerns(c, s) THEN Meaning(c)[2] ELSE radio[s]
  BY <1>0, <1>3 DEF Concerns, RadioInv
<1>5. SUFFICES ASSUME NEW s \in DOMAIN asked PROVE Obeyed(s)'
  BY <1>1 DEF ObeyInv
<1>6. s \in Settings
  BY <1>0 DEF RadioInv
<1>7. CASE radio[s] = asked[s] /\ \A i \in 1..n : ~Concerns(toRadio[i], s)
  <2>1. ~Concerns(c, s) /\ \A i \in 1..(n - 1) : ~Concerns(toRadio'[i], s)
    BY <1>2, <1>7
  <2> QED BY <1>1, <1>2, <1>4, <1>6, <1>7, <2>1 DEF Obeyed
<1>8. CASE LastFor(1, s) /\ Meaning(toRadio[1])[2] = asked[s]
  <2>1. \A i \in 1..(n - 1) : ~Concerns(toRadio'[i], s)
    BY <1>2, <1>8 DEF LastFor
  <2>2. radio'[s] = asked[s]
    BY <1>2, <1>4, <1>6, <1>8 DEF LastFor
  <2> QED BY <1>1, <1>2, <2>1, <2>2 DEF Obeyed
<1>9. CASE \E i \in 2..n : LastFor(i, s) /\ Meaning(toRadio[i])[2] = asked[s]
  <2>1. PICK i \in 2..n : LastFor(i, s) /\ Meaning(toRadio[i])[2] = asked[s]
    BY <1>9
  <2>2. i - 1 \in 1..(n - 1) /\ toRadio'[i - 1] = toRadio[i]
    BY <1>2, <2>1
  <2>3. \A j \in 1..(n - 1) : j > i - 1 => ~Concerns(toRadio'[j], s)
    BY <1>2, <2>1 DEF LastFor
  <2>4. LastFor(i - 1, s)'
    BY <1>2, <2>1, <2>2, <2>3 DEF LastFor
  <2> QED BY <1>1, <1>2, <2>1, <2>2, <2>4 DEF Obeyed
<1>10. Obeyed(s)
  BY DEF ObeyInv
<1>11. \A i \in 1..n : i = 1 \/ i \in 2..n
  BY <1>2
<1> QED BY <1>7, <1>8, <1>9, <1>10, <1>11 DEF Obeyed

LEMMA ObeyStep ==
  ASSUME TypeInv, ObeyInv, [Next]_vars, Calls \subseteq Seq(AppSteps)
  PROVE  ObeyInv'
<1>1. CASE UNCHANGED <<toRadio, radio, asked>>
  BY <1>1 DEF ObeyInv, Obeyed, LastFor
<1>2. ASSUME RadioTurns PROVE ObeyInv'
  <2>1. PICK k \in Knobs : Becomes(k[1], k[2]) /\ asked' = [s \in DOMAIN asked \ {k[1]} |-> asked[s]]
    BY <1>2 DEF RadioTurns
  <2>2. toRadio' = toRadio /\ radio' = [radio EXCEPT ![k[1]] = k[2]]
    BY <1>2, <2>1 DEF RadioTurns, Turning, Becomes
  <2>3. SUFFICES ASSUME NEW s \in DOMAIN asked \ {k[1]} PROVE Obeyed(s)'
    BY <2>1 DEF ObeyInv
  <2>4. radio'[s] = radio[s] /\ asked'[s] = asked[s]
    BY <2>1, <2>2 DEF TypeInv, RadioInv
  <2>5. Obeyed(s)
    BY <2>3 DEF ObeyInv
  <2> QED BY <2>2, <2>4, <2>5 DEF Obeyed, LastFor
<1>3. ASSUME Lose PROVE ObeyInv'
  <2>1. DOMAIN asked' = {}
    BY <1>3 DEF Lose
  <2> QED BY <2>1 DEF ObeyInv
<1>4. CASE UNCHANGED vars
  BY <1>1, <1>4 DEF vars, controlVars, link
<1>5. CASE Next
  <2>1. ASSUME NEW t \in Threads, Apply(t) \/ Callback(t), UNCHANGED <<link, others>> PROVE ObeyInv'
    BY <1>1, <2>1 DEF link
  <2>2. ASSUME NEW u \in Callers, NEW call, Enter(u, call) PROVE ObeyInv'
    BY <1>1, <2>2 DEF Enter, link
  <2>3. ASSUME Receive \/ StoreConnectionState \/ Relock \/ Retry \/ Redialled PROVE ObeyInv'
    BY <1>1, <2>3 DEF Receive, StoreConnectionState, Relock, Retry, Redialled, link
  <2>4. ASSUME RadioMumbles PROVE ObeyInv'
    BY <1>1, <2>4 DEF RadioMumbles, Turning
  <2>5. ASSUME TakePost \/ ReadField("freq", "mode") \/ ReadField("mode", "smeter") \/ Refresh
               \/ CycleTuningRate
        PROVE  ObeyInv'
    BY <1>1, <2>5 DEF TakePost, ReadField, Refresh, CycleTuningRate, controlVars, link
  <2> QED BY <1>2, <1>3, <1>5, <2>1, <2>2, <2>3, <2>4, <2>5, NextSteps, SentIsLast, TakenIsObeyed
<1> QED BY <1>4, <1>5

\* Once the radio has taken all commands, every setting is what the last call that
\* concerns it asked for, unless the operator of the radio has turned it since, however
\* calls, commands and the radio interleave.  AppSteps has every call of the API (EveryCall):
\* the mode is left open by a call for VFO B, whose command the radio takes for VFO A, and a
\* setting by a call whose number does not fit its text.
THEOREM ObeysAlways ==
  ASSUME Calls \subseteq Seq(AppSteps)
  PROVE  Spec => []RadioObeys
<1>1. Init => TypeInv /\ ObeyInv
  <2>1. SUFFICES ASSUME Init PROVE TypeInv /\ ObeyInv
    OBVIOUS
  <2>2. DOMAIN asked = {}
    BY <2>1 DEF Init, ControlInit
  <2> QED BY <2>1, <2>2, InitTypes DEF ObeyInv
<1>2. TypeInv /\ ObeyInv /\ [Next]_vars => (TypeInv /\ ObeyInv)'
  BY TypeStep, ObeyStep
<1>3. TypeInv /\ ObeyInv => RadioObeys
  BY DEF ObeyInv, Obeyed, RadioObeys
<1> QED BY <1>1, <1>2, <1>3, PTL DEF Spec

--------------------------------------------------------------------------------
(* RadioState mirrors the radio                                                 *)

Pending(s) == \E y : todo[Reader] = <<Set(s, y)>>

\* The setter that the read thread is in will leave the radio's value, or, when it is in
\* none of s, the field has it.
Held(s) ==
  IF Pending(s)
    THEN \A y : todo[Reader] = <<Set(s, y)>> =>
           AsRadio(s, y) = radio[s] /\ (at[Reader] = "callback" => data[s] = y)
    ELSE AsRadio(s, data[s]) = radio[s]

NoFrame(s) == \A j \in 1..Len(frames) : ~About(frames[j], s)

LastReport(i, s) ==
  /\ i \in 1..Len(frames) /\ frames[i] = Report(s, radio[s])
  /\ \A j \in 1..Len(frames) : j > i => ~About(frames[j], s)

Mirrored(s) == (\E i \in 1..Len(frames) : LastReport(i, s)) \/ (NoFrame(s) /\ Held(s))

\* Of every setting reported, the last frame about it that is not dispatched says what the
\* radio has, or, when there is none, RadioState has it or the read thread is about to.
MirrorInv == \A s \in told : Mirrored(s)

LEMMA SetIsOne ==
  ASSUME NEW f, NEW x, NEW g, NEW y, <<Set(f, x)>> = <<Set(g, y)>>
  PROVE  f = g /\ x = y
<1>1. Set(f, x).key = f /\ Set(g, y).key = g /\ Set(f, x) = Set(g, y)
  BY DEF Set
<1>2. f = g
  BY <1>1
<1>3. Set(f, x).to[f] = x /\ Set(g, y).to[g] = y
  BY DEF Set
<1> QED BY <1>1, <1>2, <1>3

LEMMA LinkIsNotSet ==
  ASSUME NEW step \in LinkSteps, NEW s \in Settings, NEW y
  PROVE  <<step>> # <<Set(s, y)>>
<1>1. step.key = Connection
  BY DEF LinkSteps, SetConnectionState, SetAggregate
<1>2. Set(s, y).key = s /\ s # Connection
  BY Kinds DEF Set
<1> QED BY <1>1, <1>2

LEMMA FrameIsSet ==
  ASSUME NEW step \in FrameSteps
  PROVE  \E f, x : step = Set(f, x)
BY DEF FrameSteps, SetPtt

\* The step has to do with no frame, and no setting that is held is let go.
LEMMA MirrorKept ==
  ASSUME MirrorInv, frames' = frames, told' = told,
         \A s \in told : radio'[s] = radio[s] /\ (Held(s) => Held(s)')
  PROVE  MirrorInv'
<1>1. SUFFICES ASSUME NEW s \in told PROVE Mirrored(s)'
  BY DEF MirrorInv
<1>2. Mirrored(s) /\ radio'[s] = radio[s]
  BY DEF MirrorInv
<1> QED BY <1>2 DEF Mirrored, LastReport, NoFrame

\* The step leaves the read thread and what the radio reports alone.
LEMMA HeldKept ==
  ASSUME MirrorInv, frames' = frames, told' = told, told \subseteq Settings,
         radio' = radio, todo'[Reader] = todo[Reader], at'[Reader] = at[Reader],
         \A s \in Settings : data'[s] = data[s]
  PROVE  MirrorInv'
<1>1. \A s \in told : Held(s) => Held(s)'
  BY DEF Held, Pending
<1> QED BY <1>1, MirrorKept

\* The read thread begins, or ends, the notification of a connection state.
LEMMA HeldAtRest ==
  ASSUME MirrorInv, frames' = frames, told' = told, told \subseteq Settings,
         radio' = radio, \A s \in Settings : data'[s] = data[s],
         \A s \in Settings : ~Pending(s) /\ ~Pending(s)'
  PROVE  MirrorInv'
<1>1. \A s \in told : Held(s) => Held(s)'
  BY DEF Held
<1> QED BY <1>1, MirrorKept

LEMMA ApplyMirrors ==
  ASSUME TypeInv, MirrorInv, NEW t \in Threads, Apply(t), UNCHANGED link
  PROVE  MirrorInv'
<1> DEFINE step == Head(todo[t])
<1>0. DataInv /\ ThreadInv /\ told \subseteq Settings /\ Settings \subseteq Fields
  BY Kinds DEF TypeInv, RadioInv
<1>1. at[t] = "ready" /\ todo[t] # <<>> /\ step.does = "set"
      /\ frames' = frames /\ told' = told /\ radio' = radio
  BY DEF Apply, link
<1>2. SetsOnly(step)
  BY <1>0, <1>1, HeadSets
<1>3. IF Changes(step) THEN data' = Assigned(step.to) /\ at' = [at EXCEPT ![t] = "callback"] /\ todo' = todo
                       ELSE data' = data /\ at' = at /\ todo' = [todo EXCEPT ![t] = Tail(@)]
  BY DEF Apply, Move, Finish
<1>4. CASE t \in Callers
  <2>1. t # Reader /\ Reader \in Threads
    BY <1>4, ControlThreads
  <2>2. step \in LocalSteps
    BY <1>0, <1>1, <1>4, HeadSets
  <2>3. DOMAIN step.to \cap Settings = {}
    BY <2>2, LocalSets
  <2> HIDE DEF step
  <2>4. \A s \in Settings : data'[s] = data[s]
    BY <1>0, <1>3, <2>3 DEF Assigned
  <2>5. todo'[Reader] = todo[Reader] /\ at'[Reader] = at[Reader]
    BY <1>0, <1>3, <2>1 DEF ThreadInv
  <2> QED BY <1>0, <1>1, <2>4, <2>5, HeldKept
<1>5. CASE t = Reader
  <2>1. step \in FrameSteps /\ todo[Reader] = <<step>>
    BY <1>0, <1>1, <1>5, HeadSets
  <2>2. PICK f, x : step = Set(f, x)
    BY <2>1, FrameIsSet
  <2>3. step.compares = {f} /\ DOMAIN step.to = {f} /\ step.to[f] = x
    BY <2>2 DEF Set
  <2> HIDE DEF step
  <2>4. ASSUME NEW s \in told, Held(s) PROVE Held(s)'
    <3>1. s \in Settings /\ s \in Fields
      BY <1>0
    <3>2. CASE Changes(step)
      <4>1. data' = Assigned(step.to) /\ at'[Reader] = "callback" /\ todo'[Reader] = <<step>>
        BY <1>0, <1>3, <1>5, <2>1, <3>2 DEF ThreadInv
      <4>2. CASE f = s
        <5>1. Pending(s) /\ Pending(s)' /\ data'[s] = x
          BY <2>1, <2>2, <2>3, <3>1, <4>1, <4>2 DEF Pending, Assigned
        <5>2. AsRadio(s, x) = radio[s]
          BY <2>1, <2>2, <2>4, <4>2, <5>1 DEF Held
        <5>3. \A y : todo'[Reader] = <<Set(s, y)>> => y = x
          BY <2>2, <4>1, SetIsOne
        <5> QED BY <1>1, <5>1, <5>2, <5>3 DEF Held
      <4>3. CASE f # s
        <5>1. ~Pending(s) /\ ~Pending(s)'
          BY <2>1, <2>2, <4>1, <4>3, SetIsOne DEF Pending
        <5>2. data'[s] = data[s]
          BY <2>3, <3>1, <4>1, <4>3 DEF Assigned
        <5> QED BY <1>1, <2>4, <5>1, <5>2 DEF Held
      <4> QED BY <4>2, <4>3
    <3>3. CASE ~Changes(step)
      <4>1. data' = data /\ todo'[Reader] = <<>>
        BY <1>0, <1>3, <1>5, <2>1, <3>3 DEF ThreadInv
      <4>2. ~Pending(s)'
        BY <4>1 DEF Pending
      <4>3. CASE f = s
        <5>1. data[s] = x
          BY <2>3, <3>3, <4>3 DEF Changes
        <5>2. AsRadio(s, x) = radio[s]
          BY <2>1, <2>2, <2>4, <4>3 DEF Held, Pending
        <5> QED BY <1>1, <4>1, <4>2, <5>1, <5>2 DEF Held
      <4>4. CASE f # s
        <5>1. ~Pending(s)
          BY <2>1, <2>2, <4>4, SetIsOne DEF Pending
        <5> QED BY <1>1, <2>4, <4>1, <4>2, <5>1 DEF Held
      <4> QED BY <4>3, <4>4
    <3> QED BY <3>2, <3>3
  <2> QED BY <1>1, <2>4, MirrorKept
<1> QED BY <1>4, <1>5, ControlThreads

LEMMA CallbackMirrors ==
  ASSUME TypeInv, MirrorInv, NEW t \in Threads, Callback(t), UNCHANGED link
  PROVE  MirrorInv'
<1>0. ThreadInv /\ told \subseteq Settings
  BY DEF TypeInv, RadioInv
<1>1. at[t] = "callback" /\ todo' = [todo EXCEPT ![t] = Tail(@)] /\ at' = [at EXCEPT ![t] = "ready"]
      /\ data' = data /\ frames' = frames /\ told' = told /\ radio' = radio
  BY DEF Callback, Finish, Move, link
<1>2. CASE t # Reader
  <2>1. todo'[Reader] = todo[Reader] /\ at'[Reader] = at[Reader]
    BY <1>0, <1>1, <1>2, ControlThreads DEF ThreadInv
  <2> QED BY <1>0, <1>1, <2>1, HeldKept
<1>3. CASE t = Reader
  <2>1. todo[Reader] # <<>> /\ Head(todo[Reader]).does = "set"
    BY <1>0, <1>1, <1>3 DEF ThreadInv
  <2>2. PICK step \in FrameSteps : todo[Reader] = <<step>>
    BY <1>0, <1>1, <1>3, <2>1 DEF ThreadInv
  <2>3. todo'[Reader] = <<>>
    BY <1>0, <1>1, <1>3, <2>2 DEF ThreadInv
  <2>4. ASSUME NEW s \in told, Held(s) PROVE Held(s)'
    <3>1. ~Pending(s)'
      BY <2>3 DEF Pending
    <3>2. AsRadio(s, data[s]) = radio[s]
      <4>1. CASE Pending(s)
        BY <1>1, <1>3, <2>4, <4>1 DEF Held, Pending
      <4>2. CASE ~Pending(s)
        BY <2>4, <4>2 DEF Held
      <4> QED BY <4>1, <4>2
    <3> QED BY <1>1, <3>1, <3>2 DEF Held
  <2> QED BY <1>1, <2>4, MirrorKept
<1> QED BY <1>2, <1>3

\* The read thread takes a frame: what the last frame about a setting said is in its hands.
LEMMA ReceiveMirrors ==
  ASSUME TypeInv, MirrorInv, Receive
  PROVE  MirrorInv'
<1> DEFINE c == Head(frames)
<1>0. ThreadInv /\ told \subseteq Settings /\ frames \in Seq(Frames)
      /\ \A s \in Settings : IsOfRadio(s, radio[s])
  BY DEF TypeInv, RadioInv, QueueInv
<1>1. at[Reader] = "ready" /\ todo[Reader] = <<>> /\ frames # <<>> /\ frames' = Tail(frames)
      /\ todo' = [todo EXCEPT ![Reader] = Dispatch(c)]
      /\ data' = data /\ at' = at /\ radio' = radio /\ told' = told
  BY DEF Receive, Idle
<1>2. PICK n : n = Len(frames)
  OBVIOUS
<1>3. /\ c \in Frames /\ c = frames[1] /\ n \in Nat /\ n >= 1 /\ Len(frames') = n - 1
      /\ \A i \in 1..(n - 1) : frames'[i] = frames[i + 1]
  BY <1>0, <1>1, <1>2, HeadTailProperties, LenProperties
<1>4. todo'[Reader] = Dispatch(c)
  BY <1>0, <1>1, ControlThreads DEF ThreadInv
<1> HIDE DEF c
<1>5. SUFFICES ASSUME NEW s \in told PROVE Mirrored(s)'
  BY <1>1 DEF MirrorInv
<1>6. s \in Settings /\ IsOfRadio(s, radio[s])
  BY <1>0
<1>7. CASE LastReport(1, s)
  <2>1. c = Report(s, radio[s]) /\ \A j \in 2..n : ~About(frames[j], s)
    BY <1>2, <1>3, <1>7 DEF LastReport
  <2>2. PICK y : Dispatch(c) = <<Set(s, y)>> /\ AsRadio(s, y) = radio[s]
    BY <1>6, <2>1, Dispatched
  <2>3. Held(s)'
    <3>1. \A z : todo'[Reader] = <<Set(s, z)>> => z = y
      BY <1>4, <2>2, SetIsOne
    <3>2. Pending(s)'
      BY <1>4, <2>2 DEF Pending
    <3> QED BY <1>1, <2>2, <3>1, <3>2 DEF Held
  <2>4. NoFrame(s)'
    <3>1. \A j \in 1..(n - 1) : j + 1 \in 2..n
      BY <1>3
    <3> QED BY <1>3, <2>1, <3>1 DEF NoFrame
  <2> QED BY <2>3, <2>4 DEF Mirrored
<1>8. CASE \E i \in 2..n : LastReport(i, s)
  <2>1. PICK i \in 2..n : LastReport(i, s)
    BY <1>8
  <2>2. i - 1 \in 1..(n - 1) /\ frames'[i - 1] = frames[i]
    BY <1>3, <2>1
  <2>3. \A j \in 1..(n - 1) : j > i - 1 => ~About(frames'[j], s)
    <3>1. SUFFICES ASSUME NEW j \in 1..(n - 1), j > i - 1 PROVE ~About(frames'[j], s)
      OBVIOUS
    <3>2. j + 1 \in 1..n /\ j + 1 > i /\ frames'[j] = frames[j + 1]
      BY <1>3, <2>1, <3>1
    <3> QED BY <1>2, <2>1, <3>2 DEF LastReport
  <2>4. frames[i] = Report(s, radio[s])
    BY <2>1 DEF LastReport
  <2>5. LastReport(i - 1, s)'
    BY <1>1, <1>3, <2>2, <2>3, <2>4 DEF LastReport
  <2> QED BY <1>3, <2>2, <2>5 DEF Mirrored
<1>9. CASE NoFrame(s) /\ Held(s)
  <2>1. ~About(c, s)
    BY <1>2, <1>3, <1>9 DEF NoFrame
  <2>2. NoFrame(s)'
    <3>1. \A j \in 1..(n - 1) : j + 1 \in 1..n
      BY <1>3
    <3> QED BY <1>2, <1>3, <1>9, <3>1 DEF NoFrame
  <2>3. ~Pending(s)
    BY <1>1 DEF Pending
  <2>4. ~Pending(s)'
    <3>1. SUFFICES ASSUME NEW y, Dispatch(c) = <<Set(s, y)>> PROVE FALSE
      BY <1>4 DEF Pending
    <3>2. CASE c \in Noise
      <4>1. Dispatch(c) # <<>>
        BY <3>1
      <4>2. <<Set(<<"spectrum", "bins">>, c.value)>> = <<Set(s, y)>>
        BY <3>1, <3>2, <4>1, NoiseDispatched DEF SetBinCount
      <4>3. s = <<"spectrum", "bins">>
        BY <4>2, SetIsOne
      <4> QED BY <1>6, <4>3 DEF Settings
    <3>3. CASE c \notin Noise
      <4>0. PICK r \in Settings : \E x : IsOfRadio(r, x) /\ c = Report(r, x)
        BY <1>3, <3>3, FramesAre DEF IsFrame, About
      <4>1. PICK x : IsOfRadio(r, x) /\ c = Report(r, x)
        BY <4>0
      <4>2. PICK z : Dispatch(c) = <<Set(r, z)>>
        BY <4>1, Dispatched
      <4>3. r = s
        BY <3>1, <4>2, SetIsOne
      <4> QED BY <2>1, <4>1, <4>3 DEF About
    <3> QED BY <3>2, <3>3
  <2>5. Held(s)'
    BY <1>1, <1>9, <2>3, <2>4 DEF Held
  <2> QED BY <2>2, <2>5 DEF Mirrored
<1>10. Mirrored(s) /\ \A i \in 1..n : i = 1 \/ i \in 2..n
  BY <1>3 DEF MirrorInv
<1> QED BY <1>2, <1>7, <1>8, <1>9, <1>10 DEF Mirrored

\* The radio reports a setting, or says something else: the last frame about every other
\* setting is still the last.
LEMMA MoreFrames ==
  ASSUME TypeInv, MirrorInv, NEW c \in Frames, frames' = Append(frames, c),
         data' = data, todo' = todo, at' = at,
         NEW s \in told, radio'[s] = radio[s], ~About(c, s)
  PROVE  Mirrored(s)'
<1>1. PICK n : n = Len(frames)
  OBVIOUS
<1>2. /\ n \in Nat /\ Len(frames') = n + 1 /\ frames'[n + 1] = c
      /\ \A i \in 1..n : frames'[i] = frames[i]
  BY <1>1, AppendProperties, LenProperties DEF TypeInv, QueueInv
<1>3. CASE \E i \in 1..n : LastReport(i, s)
  <2>1. PICK i \in 1..n : LastReport(i, s)
    BY <1>3
  <2>2. LastReport(i, s)'
    BY <1>1, <1>2, <2>1 DEF LastReport
  <2> QED BY <1>2, <2>1, <2>2 DEF Mirrored
<1>4. CASE NoFrame(s) /\ Held(s)
  <2>1. NoFrame(s)'
    BY <1>1, <1>2, <1>4 DEF NoFrame
  <2>2. Held(s)'
    BY <1>4 DEF Held, Pending
  <2> QED BY <2>1, <2>2 DEF Mirrored
<1> QED BY <1>1, <1>3, <1>4 DEF MirrorInv, Mirrored

LEMMA BecomesMirrors ==
  ASSUME TypeInv, MirrorInv, NEW s \in Settings, NEW x, IsOfRadio(s, x), Becomes(s, x),
         data' = data, todo' = todo, at' = at
  PROVE  MirrorInv'
<1>0. RadioInv /\ frames \in Seq(Frames)
  BY DEF TypeInv, QueueInv
<1>1. radio' = [radio EXCEPT ![s] = x] /\ frames' = Append(frames, Report(s, x))
      /\ told' = told \cup {s}
  BY DEF Becomes
<1>2. Report(s, x) \in Frames
  BY <1>0, BecomesTypes
<1>3. Mirrored(s)'
  <2>1. PICK n : n = Len(frames)
    OBVIOUS
  <2>2. n \in Nat /\ Len(frames') = n + 1 /\ frames'[n + 1] = Report(s, x)
    BY <1>0, <1>1, <1>2, <2>1, AppendProperties, LenProperties
  <2>3. radio'[s] = x
    BY <1>0, <1>1 DEF RadioInv
  <2>4. LastReport(n + 1, s)'
    BY <2>2, <2>3 DEF LastReport
  <2> QED BY <2>2, <2>4 DEF Mirrored
<1>4. ASSUME NEW r \in told, r # s PROVE Mirrored(r)'
  <2>1. r \in Settings /\ radio'[r] = radio[r]
    BY <1>0, <1>1, <1>4 DEF RadioInv
  <2>2. About(Report(s, x), s)
    BY DEF About
  <2>3. ~About(Report(s, x), r)
    BY <1>4, <2>1, <2>2, AboutOne
  <2> QED BY <1>1, <1>2, <2>1, <2>3, MoreFrames
<1> QED BY <1>1, <1>3, <1>4 DEF MirrorInv

LEMMA MirrorStep ==
  ASSUME TypeInv, MirrorInv, [Next]_vars, Calls \subseteq Seq(AppSteps)
  PROVE  MirrorInv'
<1>0. DataInv /\ ThreadInv /\ RadioInv /\ told \subseteq Settings /\ Reader \in Threads
      /\ Settings \subseteq Fields /\ Connection \notin Settings /\ toRadio \in Seq(Commands)
  BY Kinds, ControlThreads DEF TypeInv, RadioInv, QueueInv
<1>1. CASE UNCHANGED <<data, todo, at, frames, told, radio>>
  <2>1. todo'[Reader] = todo[Reader] /\ at'[Reader] = at[Reader] /\ \A s \in Settings : data'[s] = data[s]
    BY <1>1
  <2> QED BY <1>0, <1>1, <2>1, HeldKept
<1>2. ASSUME NEW t \in Threads, Transmit(t) PROVE MirrorInv'
  <2>1. at[t] = "ready" /\ todo[t] # <<>> /\ Head(todo[t]).does = "send" /\ Finish(t)
        /\ UNCHANGED <<data, at, frames, told, radio>>
    BY <1>2 DEF Transmit
  <2>2. t # Reader
    BY <1>0, <2>1, HeadSends, ControlThreads
  <2>3. todo'[Reader] = todo[Reader]
    BY <1>0, <2>1, <2>2 DEF Finish, ThreadInv
  <2> QED BY <1>0, <2>1, <2>3, HeldKept
<1>3. ASSUME NEW u \in Callers, NEW call, Enter(u, call) PROVE MirrorInv'
  <2>1. todo' = [todo EXCEPT ![u] = call] /\ UNCHANGED <<data, at, frames, told, radio>>
    BY <1>3 DEF Enter, link
  <2>2. todo'[Reader] = todo[Reader]
    BY <1>0, <2>1, ControlThreads DEF ThreadInv
  <2> QED BY <1>0, <2>1, <2>2, HeldKept
<1>4. ASSUME StoreConnectionState PROVE MirrorInv'
  <2>1. at[Reader] = "notified" /\ data' = Assigned(Head(todo[Reader]).to)
        /\ UNCHANGED <<todo, frames, told, radio>>
    BY <1>4 DEF StoreConnectionState, link
  <2>2. PICK step \in LinkSteps : todo[Reader] = <<step>>
    BY <1>0, <2>1 DEF ThreadInv
  <2>3. Head(todo[Reader]) = step /\ DOMAIN step.to = {Connection}
    BY <2>2 DEF LinkSteps, SetConnectionState, SetAggregate
  <2>4. \A s \in Settings : data'[s] = data[s]
    BY <1>0, <2>1, <2>3 DEF Assigned
  <2>5. \A s \in Settings : ~Pending(s) /\ ~Pending(s)'
    BY <2>1, <2>2, LinkIsNotSet DEF Pending
  <2> QED BY <1>0, <2>1, <2>4, <2>5, HeldAtRest
<1>5. ASSUME Relock PROVE MirrorInv'
  <2>1. at[Reader] = "relock" /\ Finish(Reader) /\ UNCHANGED <<data, frames, told, radio>>
    BY <1>5 DEF Relock, link
  <2>2. PICK step \in LinkSteps : todo[Reader] = <<step>>
    BY <1>0, <2>1 DEF ThreadInv
  <2>3. todo'[Reader] = <<>>
    BY <1>0, <2>1, <2>2 DEF Finish, ThreadInv
  <2>4. \A s \in Settings : ~Pending(s) /\ ~Pending(s)'
    BY <2>2, <2>3, LinkIsNotSet DEF Pending
  <2> QED BY <1>0, <2>1, <2>4, HeldAtRest
<1>6. ASSUME Retry \/ Redialled PROVE MirrorInv'
  <2>1. PICK status \in {"CONNECTED", "RECONNECTING"}, attempts \in {0, 1} :
          NotifyConnectionState(status, attempts)
    BY <1>6 DEF Retry, Redialled
  <2>2. UNCHANGED <<frames, told, radio>>
    BY <1>6 DEF Retry, Redialled, link
  <2> DEFINE step == SetConnectionState(status, attempts)
  <2>3. todo[Reader] = <<>> /\ todo' = [todo EXCEPT ![Reader] = <<step>>] /\ data' = data
    BY <2>1 DEF NotifyConnectionState, Idle
  <2>4. step \in LinkSteps
    BY DEF LinkSteps
  <2> HIDE DEF step
  <2>5. todo'[Reader] = <<step>>
    BY <1>0, <2>3 DEF ThreadInv
  <2>6. \A s \in Settings : ~Pending(s) /\ ~Pending(s)'
    BY <2>3, <2>4, <2>5, LinkIsNotSet DEF Pending
  <2> QED BY <1>0, <2>2, <2>3, <2>6, HeldAtRest
<1>7. ASSUME Lose PROVE MirrorInv'
  BY <1>7 DEF Lose, MirrorInv
<1>8. ASSUME RadioTakes PROVE MirrorInv'
  <2> DEFINE c == Head(toRadio)
  <2>1. toRadio # <<>> /\ UNCHANGED <<data, todo, at>>
    BY <1>8 DEF RadioTakes, state
  <2>2. c \in Commands
    BY <1>0, <2>1, HeadTailProperties
  <2>3. CASE c.name \in SettingCommands
    <3>1. Becomes(Meaning(c)[1], Meaning(c)[2])
      BY <1>8, <2>3 DEF RadioTakes, SettingCommands
    <3>2. Meaning(c)[1] \in Settings /\ IsOfRadio(Meaning(c)[1], Meaning(c)[2])
      BY <2>2, <2>3, CommandIsOfRadio
    <3> HIDE DEF c
    <3> QED BY <2>1, <3>1, <3>2, BecomesMirrors
  <2>4. CASE c.name \notin SettingCommands
    BY <1>1, <1>8, <2>1, <2>4 DEF RadioTakes, SettingCommands
  <2> QED BY <2>3, <2>4
<1>9. ASSUME RadioTurns PROVE MirrorInv'
  <2>1. UNCHANGED <<data, todo, at>>
    BY <1>9 DEF RadioTurns, Turning, state
  <2>2. PICK k \in Knobs : Becomes(k[1], k[2])
    BY <1>9 DEF RadioTurns
  <2> QED BY <2>1, <2>2, KnobIsOfRadio, BecomesMirrors
<1>10. ASSUME RadioMumbles PROVE MirrorInv'
  <2>1. UNCHANGED <<data, todo, at, radio, told>>
    BY <1>10 DEF RadioMumbles, Turning, state
  <2>2. PICK c \in Noise : frames' = Append(frames, c)
    BY <1>10 DEF RadioMumbles
  <2>3. c \in Frames
    BY <2>2, FramesAre DEF IsFrame
  <2>4. ASSUME NEW s \in told PROVE Mirrored(s)'
    <3>1. ~About(c, s)
      BY <1>0, <2>2, AboutOne
    <3> QED BY <2>1, <2>2, <2>3, <3>1, MoreFrames
  <2> QED BY <2>1, <2>4 DEF MirrorInv
<1>11. CASE UNCHANGED vars
  BY <1>1, <1>11 DEF vars, controlVars, state, link
<1>12. CASE Next
  <2>1. ASSUME TakePost \/ ReadField("freq", "mode") \/ ReadField("mode", "smeter") \/ Refresh
               \/ CycleTuningRate
        PROVE  MirrorInv'
    BY <1>1, <2>1 DEF TakePost, ReadField, Refresh, CycleTuningRate, controlVars, state, link
  <2>2. ASSUME NEW t \in Threads, Apply(t) \/ Callback(t), UNCHANGED <<link, others>> PROVE MirrorInv'
    BY <2>2, ApplyMirrors, CallbackMirrors
  <2> QED BY <1>2, <1>3, <1>4, <1>5, <1>6, <1>7, <1>8, <1>9, <1>10, <1>12, <2>1, <2>2,
             NextSteps, ReceiveMirrors
<1> QED BY <1>11, <1>12

\* Once all frames are dispatched, RadioState has what the radio has of every setting it
\* reported: no frame, no number of a mode and no local setter comes between.
THEOREM MirrorsAlways ==
  ASSUME Calls \subseteq Seq(AppSteps)
  PROVE  Spec => []MirrorsRadio
<1>1. Init => TypeInv /\ MirrorInv
  <2>1. SUFFICES ASSUME Init PROVE TypeInv /\ MirrorInv
    OBVIOUS
  <2>2. told = {}
    BY <2>1 DEF Init, ControlInit
  <2> QED BY <2>1, <2>2, InitTypes DEF MirrorInv
<1>2. TypeInv /\ MirrorInv /\ [Next]_vars => (TypeInv /\ MirrorInv)'
  BY TypeStep, MirrorStep
<1>3. MirrorInv => MirrorsRadio
  <2>1. SUFFICES ASSUME MirrorInv, Settled, NEW s \in told PROVE AsRadio(s, data[s]) = radio[s]
    BY DEF MirrorsRadio
  <2>2. frames = <<>> /\ todo[Reader] = <<>>
    BY <2>1, ControlThreads DEF Settled, Idle
  <2>3. Held(s) /\ ~Pending(s)
    BY <2>1, <2>2 DEF MirrorInv, Mirrored, Pending
  <2> QED BY <2>3 DEF Held
<1> QED BY <1>1, <1>2, <1>3, PTL DEF Spec

--------------------------------------------------------------------------------
(* The view is current                                                          *)

\* The connection state that was notified last, stored already or about to be.
Target == IF at[Reader] = "notified" THEN Head(todo[Reader]).to[Connection] ELSE data[Connection]

LastNews(i) ==
  /\ posts[i].kind = "connection" /\ posts[i].of = Target
  /\ \A j \in 1..Len(posts) : j > i => posts[j].kind # "connection"

ConnectionFresh ==
  \/ ui[Connection] = Target /\ \A j \in 1..Len(posts) : posts[j].kind # "connection"
  \/ \E i \in 1..Len(posts) : LastNews(i)

Notifying(f) == \E t \in Threads : at[t] = "callback" /\ Refreshes(Head(todo[t]).key) = {f[1]}
Posted(f) == \E i \in 1..Len(posts) : posts[i].kind = "key" /\ Refreshes(posts[i].of) = {f[1]}
Reading(f) == main.at # "idle" /\ main.vfo = f[1]
Unread(f) == f[2] = "smeter" \/ main.at = "freq" \/ (f[2] = "mode" /\ main.at = "mode")
Seen(f) == IF Reading(f) THEN Unread(f) \/ main[f[2]] = data[f] ELSE ui[f] = data[f]

\* A field of a VFO is shown as it is, or it is being read and was not read too early, or
\* somebody is about to make the main thread read it.
FreshInv ==
  /\ ConnectionFresh
  /\ \A f \in ReadBack \ {Connection} : Notifying(f) \/ Posted(f) \/ Seen(f)

\* A post more.
LEMMA PostMore ==
  ASSUME posts \in Seq(Posts), NEW p \in Posts, posts' = Append(posts, p), Target' = Target \/ p.kind = "connection"
  PROVE  /\ \A f : Posted(f) => Posted(f)'
         /\ \A f : p.kind = "key" /\ Refreshes(p.of) = {f[1]} => Posted(f)'
         /\ p.kind # "connection" /\ ui'[Connection] = ui[Connection] /\ ConnectionFresh => ConnectionFresh'
         /\ p.kind = "connection" /\ p.of = Target' => ConnectionFresh'
<1>1. PICK n : n = Len(posts)
  OBVIOUS
<1>2. /\ n \in Nat /\ Len(posts') = n + 1 /\ posts'[n + 1] = p
      /\ \A i \in 1..n : posts'[i] = posts[i]
  BY <1>1, AppendProperties, LenProperties
<1>3. ASSUME NEW f, Posted(f) PROVE Posted(f)'
  <2>1. PICK i \in 1..n : posts[i].kind = "key" /\ Refreshes(posts[i].of) = {f[1]}
    BY <1>1, <1>3 DEF Posted
  <2>2. i \in 1..(n + 1) /\ posts'[i] = posts[i]
    BY <1>2
  <2> QED BY <1>2, <2>1, <2>2 DEF Posted
<1>4. ASSUME NEW f, p.kind = "key", Refreshes(p.of) = {f[1]} PROVE Posted(f)'
  BY <1>2, <1>4 DEF Posted
<1>5. ASSUME p.kind # "connection", ui'[Connection] = ui[Connection], ConnectionFresh
      PROVE  ConnectionFresh'
  <2>1. Target' = Target
    BY <1>5
  <2>2. CASE ui[Connection] = Target /\ \A j \in 1..n : posts[j].kind # "connection"
    <3>1. \A j \in 1..(n + 1) : posts'[j].kind # "connection"
      BY <1>2, <1>5, <2>2
    <3> QED BY <1>2, <1>5, <2>1, <2>2, <3>1 DEF ConnectionFresh
  <2>3. CASE \E i \in 1..n : LastNews(i)
    <3>1. PICK i \in 1..n : LastNews(i)
      BY <2>3
    <3>2. /\ posts[i].kind = "connection" /\ posts[i].of = Target
          /\ \A j \in 1..n : j > i => posts[j].kind # "connection"
      BY <1>1, <3>1 DEF LastNews
    <3>3. posts'[i] = posts[i]
      BY <1>2, <3>1
    <3>4. \A j \in 1..(n + 1) : j > i => posts'[j].kind # "connection"
      <4>1. \A j \in 1..(n + 1) : j \in 1..n \/ j = n + 1
        BY <1>2
      <4> QED BY <1>2, <1>5, <3>2, <4>1
    <3>5. LastNews(i)'
      BY <1>2, <2>1, <3>2, <3>3, <3>4 DEF LastNews
    <3> QED BY <1>2, <3>1, <3>5 DEF ConnectionFresh
  <2> QED BY <1>1, <1>5, <2>2, <2>3 DEF ConnectionFresh
<1>6. ASSUME p.kind = "connection", p.of = Target' PROVE ConnectionFresh'
  <2>1. LastNews(n + 1)'
    BY <1>2, <1>6 DEF LastNews
  <2> QED BY <1>2, <2>1 DEF ConnectionFresh
<1> QED BY <1>3, <1>4, <1>5, <1>6

\* The step takes no notification away and changes no field that is shown.
LEMMA FreshKept ==
  ASSUME FreshInv, UNCHANGED <<ui, main>>, ConnectionFresh',
         \A t \in Threads : at[t] = "callback" => at'[t] = "callback" /\ todo'[t] = todo[t],
         \A f \in ReadBack \ {Connection} : data'[f] = data[f],
         \A f : Posted(f) => Posted(f)'
  PROVE  FreshInv'
<1>1. SUFFICES ASSUME NEW f \in ReadBack \ {Connection}
               PROVE  Notifying(f)' \/ Posted(f)' \/ Seen(f)'
  BY DEF FreshInv
<1>2. CASE Notifying(f)
  BY <1>2 DEF Notifying
<1>3. CASE Posted(f)
  BY <1>3
<1>4. CASE Seen(f)
  BY <1>4 DEF Seen, Reading, Unread
<1> QED BY <1>2, <1>3, <1>4 DEF FreshInv

LEMMA ConnectionKept ==
  ASSUME ConnectionFresh, posts' = posts, Target' = Target, ui'[Connection] = ui[Connection]
  PROVE  ConnectionFresh'
BY DEF ConnectionFresh, LastNews

LEMMA ApplyFresh ==
  ASSUME TypeInv, FreshInv, NEW t \in Threads, Apply(t), Kept
  PROVE  FreshInv'
<1> DEFINE step == Head(todo[t])
<1>0. DataInv /\ ThreadInv /\ Reader \in Threads /\ Connection \in Fields /\ ReadBack \subseteq Fields
  BY Kinds, ControlThreads DEF TypeInv
<1>1. at[t] = "ready" /\ todo[t] # <<>> /\ step.does = "set" /\ posts' = posts /\ UNCHANGED <<ui, main>>
  BY DEF Apply, Kept
<1>2. SetsOnly(step)
  BY <1>0, <1>1, HeadSets
<1>3. IF Changes(step) THEN data' = Assigned(step.to) /\ at' = [at EXCEPT ![t] = "callback"] /\ todo' = todo
                       ELSE data' = data /\ at' = at /\ todo' = [todo EXCEPT ![t] = Tail(@)]
  BY DEF Apply, Move, Finish
<1>4. Target' = Target
  <2>1. data'[Connection] = data[Connection]
    BY <1>0, <1>2, <1>3 DEF SetsOnly, Assigned
  <2>2. at'[Reader] = "notified" <=> at[Reader] = "notified"
    BY <1>0, <1>1, <1>3 DEF ThreadInv
  <2>3. at[Reader] = "notified" => todo'[Reader] = todo[Reader]
    BY <1>0, <1>1, <1>3 DEF ThreadInv
  <2> QED BY <2>1, <2>2, <2>3 DEF Target
<1>5. ConnectionFresh'
  BY <1>1, <1>4, ConnectionKept DEF FreshInv
<1>6. \A r \in Threads : at[r] = "callback" => at'[r] = "callback" /\ todo'[r] = todo[r]
  BY <1>0, <1>1, <1>3 DEF ThreadInv
<1>7. \A f : Posted(f) => Posted(f)'
  BY <1>1 DEF Posted
<1>8. CASE Changes(step)
  <2>1. data' = Assigned(step.to) /\ at'[t] = "callback" /\ todo'[t] = todo[t]
    BY <1>0, <1>3, <1>8 DEF ThreadInv
  <2>2. SUFFICES ASSUME NEW f \in ReadBack \ {Connection}
                 PROVE  Notifying(f)' \/ Posted(f)' \/ Seen(f)'
    BY <1>5 DEF FreshInv
  <2>3. CASE f \in DOMAIN step.to
    BY <1>2, <2>1, <2>3 DEF SetsOnly, Notifying
  <2>4. CASE f \notin DOMAIN step.to
    <3>1. data'[f] = data[f]
      BY <1>0, <2>1, <2>4 DEF Assigned
    <3>2. Notifying(f) => Notifying(f)'
      BY <1>6 DEF Notifying
    <3>3. Seen(f) => Seen(f)'
      BY <1>1, <3>1 DEF Seen, Reading, Unread
    <3> QED BY <1>7, <3>2, <3>3 DEF FreshInv
  <2> QED BY <2>3, <2>4
<1>9. CASE ~Changes(step)
  BY <1>1, <1>3, <1>5, <1>6, <1>7, <1>9, FreshKept
<1> QED BY <1>8, <1>9

LEMMA CallbackFresh ==
  ASSUME TypeInv, FreshInv, NEW t \in Threads, Callback(t), Kept
  PROVE  FreshInv'
<1> DEFINE k == Head(todo[t]).key   p == [kind |-> "key", of |-> k]
<1>0. DataInv /\ ThreadInv /\ Reader \in Threads /\ posts \in Seq(Posts)
  BY ControlThreads DEF TypeInv, QueueInv
<1>1. at[t] = "callback" /\ posts' = Append(posts, p) /\ data' = data /\ UNCHANGED <<ui, main>>
      /\ todo' = [todo EXCEPT ![t] = Tail(@)] /\ at' = [at EXCEPT ![t] = "ready"]
  BY DEF Callback, Finish, Move, Kept
<1>2. p \in Posts
  <2>1. SetsOnly(Head(todo[t]))
    BY <1>0, <1>1, HeadSets DEF ThreadInv
  <2> QED BY <2>1 DEF SetsOnly, Posts
<1>3. p.kind = "key" /\ p.of = k
  OBVIOUS
<1> HIDE DEF p
<1>4. Target' = Target
  BY <1>0, <1>1 DEF Target, ThreadInv
<1>5. /\ \A f : Posted(f) => Posted(f)'
      /\ \A f : Refreshes(k) = {f[1]} => Posted(f)'
      /\ ConnectionFresh'
  BY <1>0, <1>1, <1>2, <1>3, <1>4, PostMore DEF FreshInv
<1>6. SUFFICES ASSUME NEW f \in ReadBack \ {Connection}
               PROVE  Notifying(f)' \/ Posted(f)' \/ Seen(f)'
  BY <1>5 DEF FreshInv
<1>7. CASE Notifying(f)
  <2>1. PICK r \in Threads : at[r] = "callback" /\ Refreshes(Head(todo[r]).key) = {f[1]}
    BY <1>7 DEF Notifying
  <2>2. CASE r = t
    BY <1>5, <2>1, <2>2
  <2>3. CASE r # t
    BY <1>0, <1>1, <2>1, <2>3 DEF Notifying, ThreadInv
  <2> QED BY <2>2, <2>3
<1>8. CASE Seen(f)
  BY <1>1, <1>8 DEF Seen, Reading, Unread
<1> QED BY <1>5, <1>7, <1>8 DEF FreshInv

LEMMA NotifyFresh ==
  ASSUME TypeInv, FreshInv, Kept, NEW status \in {"CONNECTED", "RECONNECTING"},
         NEW attempts \in {0, 1}, NotifyConnectionState(status, attempts)
  PROVE  FreshInv'
<1> DEFINE p == [kind |-> "connection", of |-> <<status, attempts>>]
           step == SetConnectionState(status, attempts)
<1>0. ThreadInv /\ Reader \in Threads /\ posts \in Seq(Posts)
  BY ControlThreads DEF TypeInv, QueueInv
<1>1. at[Reader] = "ready" /\ posts' = Append(posts, p) /\ data' = data /\ UNCHANGED <<ui, main>>
      /\ todo' = [todo EXCEPT ![Reader] = <<step>>] /\ at' = [at EXCEPT ![Reader] = "notified"]
  BY DEF NotifyConnectionState, Move, Idle, Kept
<1>2. p \in Posts /\ p.kind = "connection" /\ p.of = <<status, attempts>>
  BY DEF Posts
<1>3. step.to[Connection] = <<status, attempts>>
  BY DEF SetConnectionState, SetAggregate
<1> HIDE DEF p, step
<1>4. Target' = <<status, attempts>>
  BY <1>0, <1>1, <1>3 DEF Target, ThreadInv
<1>5. ConnectionFresh' /\ \A f : Posted(f) => Posted(f)'
  BY <1>0, <1>1, <1>2, <1>4, PostMore
<1>6. \A t \in Threads : at[t] = "callback" => at'[t] = "callback" /\ todo'[t] = todo[t]
  BY <1>0, <1>1 DEF ThreadInv
<1> QED BY <1>1, <1>5, <1>6, FreshKept

LEMMA StoreFresh ==
  ASSUME TypeInv, FreshInv, Kept, StoreConnectionState
  PROVE  FreshInv'
<1>0. ThreadInv /\ Reader \in Threads /\ Connection \in Fields /\ ReadBack \subseteq Fields
  BY Kinds, ControlThreads DEF TypeInv
<1>1. at[Reader] = "notified" /\ data' = Assigned(Head(todo[Reader]).to) /\ UNCHANGED <<ui, main>>
      /\ at' = [at EXCEPT ![Reader] = "relock"] /\ UNCHANGED <<todo, posts>>
  BY DEF StoreConnectionState, Move, Kept
<1>2. PICK step \in LinkSteps : todo[Reader] = <<step>>
  BY <1>0, <1>1 DEF ThreadInv
<1>3. Head(todo[Reader]) = step /\ DOMAIN step.to = {Connection}
  BY <1>2 DEF LinkSteps, SetConnectionState, SetAggregate
<1>4. data'[Connection] = step.to[Connection] /\ \A f \in ReadBack \ {Connection} : data'[f] = data[f]
  BY <1>0, <1>1, <1>3 DEF Assigned
<1>5. Target' = Target
  BY <1>0, <1>1, <1>3, <1>4 DEF Target, ThreadInv
<1>6. ConnectionFresh'
  BY <1>1, <1>5, ConnectionKept DEF FreshInv
<1>7. \A t \in Threads : at[t] = "callback" => at'[t] = "callback" /\ todo'[t] = todo[t]
  BY <1>0, <1>1 DEF ThreadInv
<1>8. \A f : Posted(f) => Posted(f)'
  BY <1>1 DEF Posted
<1> QED BY <1>1, <1>4, <1>6, <1>7, <1>8, FreshKept

LEMMA RelockFresh ==
  ASSUME TypeInv, FreshInv, Kept, Relock
  PROVE  FreshInv'
<1> DEFINE p == [kind |-> "key", of |-> Connection]
<1>0. ThreadInv /\ Reader \in Threads /\ posts \in Seq(Posts)
  BY ControlThreads DEF TypeInv, QueueInv
<1>1. at[Reader] = "relock" /\ Finish(Reader) /\ at' = [at EXCEPT ![Reader] = "ready"]
      /\ posts' = Append(posts, p) /\ data' = data /\ UNCHANGED <<ui, main>>
  BY DEF Relock, Move, Kept
<1>2. p \in Posts /\ p.kind = "key"
  BY Kinds DEF Posts, Keys
<1> HIDE DEF p
<1>3. Target' = Target
  BY <1>0, <1>1 DEF Target, ThreadInv
<1>4. ConnectionFresh' /\ \A f : Posted(f) => Posted(f)'
  BY <1>0, <1>1, <1>2, <1>3, PostMore DEF FreshInv
<1>5. \A t \in Threads : at[t] = "callback" => at'[t] = "callback" /\ todo'[t] = todo[t]
  BY <1>0, <1>1 DEF ThreadInv, Finish
<1> QED BY <1>1, <1>4, <1>5, FreshKept

\* The main thread takes a post: what it announced is shown, or is going to be read.
LEMMA TakePostFresh ==
  ASSUME TypeInv, FreshInv, TakePost
  PROVE  FreshInv'
<1> DEFINE p == Head(posts)
<1>0. posts \in Seq(Posts) /\ DOMAIN ui = Shown /\ Connection \in ReadBack /\ ReadBack \subseteq Shown
      /\ main \in [at : {"idle", "freq", "mode", "smeter"}, vfo : {"vfo.a", "vfo.b"},
                   freq : Int, mode : 0..7]
  BY Kinds DEF TypeInv, QueueInv, ViewInv, ReadBack
<1>1. main.at = "idle" /\ posts # <<>> /\ posts' = Tail(posts) /\ UNCHANGED <<data, todo, at>>
  BY DEF TakePost
<1>2. PICK n : n = Len(posts)
  OBVIOUS
<1>3. /\ p \in Posts /\ p = posts[1] /\ n \in Nat /\ n >= 1 /\ Len(posts') = n - 1
      /\ \A i \in 1..(n - 1) : posts'[i] = posts[i + 1]
  BY <1>0, <1>1, <1>2, HeadTailProperties, LenProperties
<1>4. IF p.kind = "connection"
        THEN ui' = [ui EXCEPT ![Connection] = p.of] /\ main' = main
        ELSE /\ \/ \E v \in Refreshes(p.of) : main' = [main EXCEPT !.at = "freq", !.vfo = v]
                \/ Refreshes(p.of) = {} /\ main' = main
             /\ ui' = ui
  BY DEF TakePost
<1>5. p.kind \in {"key", "connection"}
  BY <1>3 DEF Posts
<1> HIDE DEF p
<1>6. Target' = Target
  BY <1>1 DEF Target
<1>7. ConnectionFresh'
  <2>1. CASE ui[Connection] = Target /\ \A j \in 1..n : posts[j].kind # "connection"
    <3>1. p.kind # "connection"
      BY <1>3, <2>1
    <3>2. \A j \in 1..(n - 1) : posts'[j].kind # "connection"
      <4>1. \A j \in 1..(n - 1) : j + 1 \in 1..n
        BY <1>3
      <4> QED BY <1>3, <2>1, <4>1
    <3> QED BY <1>3, <1>4, <1>6, <2>1, <3>1, <3>2 DEF ConnectionFresh
  <2>2. CASE LastNews(1)
    <3>1. p.kind = "connection" /\ p.of = Target
      BY <1>3, <2>2 DEF LastNews
    <3>2. ui'[Connection] = Target
      BY <1>0, <1>4, <3>1
    <3>3. \A j \in 1..(n - 1) : posts'[j].kind # "connection"
      <4>1. \A j \in 1..(n - 1) : j + 1 \in 1..n /\ j + 1 > 1
        BY <1>3
      <4> QED BY <1>2, <1>3, <2>2, <4>1 DEF LastNews
    <3> QED BY <1>3, <1>6, <3>2, <3>3 DEF ConnectionFresh
  <2>3. CASE \E i \in 2..n : LastNews(i)
    <3>1. PICK i \in 2..n : LastNews(i)
      BY <2>3
    <3>2. i - 1 \in 1..(n - 1) /\ posts'[i - 1] = posts[i]
      BY <1>3, <3>1
    <3>3. \A j \in 1..(n - 1) : j > i - 1 => posts'[j].kind # "connection"
      <4>1. SUFFICES ASSUME NEW j \in 1..(n - 1), j > i - 1 PROVE posts'[j].kind # "connection"
        OBVIOUS
      <4>2. j + 1 \in 1..n /\ j + 1 > i /\ posts'[j] = posts[j + 1]
        BY <1>3, <3>1, <4>1
      <4> QED BY <1>2, <3>1, <4>2 DEF LastNews
    <3>4. posts[i].kind = "connection" /\ posts[i].of = Target
      BY <3>1 DEF LastNews
    <3>5. LastNews(i - 1)'
      BY <1>3, <1>6, <3>2, <3>3, <3>4 DEF LastNews
    <3> QED BY <1>3, <3>2, <3>5 DEF ConnectionFresh
  <2>4. \A i \in 1..n : i = 1 \/ i \in 2..n
    BY <1>3
  <2> QED BY <1>2, <2>1, <2>2, <2>3, <2>4 DEF FreshInv, ConnectionFresh
<1>8. ASSUME NEW f, Posted(f), ~(p.kind = "key" /\ Refreshes(p.of) = {f[1]})
      PROVE  Posted(f)'
  <2>1. PICK i \in 1..n : posts[i].kind = "key" /\ Refreshes(posts[i].of) = {f[1]}
    BY <1>2, <1>8 DEF Posted
  <2>2. i # 1
    BY <1>3, <1>8, <2>1
  <2>3. i - 1 \in 1..(n - 1) /\ posts'[i - 1] = posts[i]
    BY <1>3, <2>1, <2>2
  <2> QED BY <1>3, <2>1, <2>3 DEF Posted
<1>9. SUFFICES ASSUME NEW f \in ReadBack \ {Connection}
               PROVE  Notifying(f)' \/ Posted(f)' \/ Seen(f)'
  BY <1>7 DEF FreshInv
<1>10. Notifying(f) => Notifying(f)'
  BY <1>1 DEF Notifying
<1>11. ui'[f] = ui[f] /\ data'[f] = data[f]
  BY <1>0, <1>1, <1>4
<1>12. CASE p.kind = "key" /\ Refreshes(p.of) = {f[1]}
  <2>1. main' = [main EXCEPT !.at = "freq", !.vfo = f[1]]
    BY <1>4, <1>12
  <2>2. main'.at = "freq" /\ main'.vfo = f[1]
    BY <1>0, <2>1
  <2> QED BY <2>2 DEF Seen, Reading, Unread
<1>13. CASE ~(p.kind = "key" /\ Refreshes(p.of) = {f[1]})
  <2>1. ~Reading(f)'
    <3>1. CASE \E v \in Refreshes(p.of) : main' = [main EXCEPT !.at = "freq", !.vfo = v]
               /\ p.kind = "key"
      <4>1. PICK v \in Refreshes(p.of) : main' = [main EXCEPT !.at = "freq", !.vfo = v]
        BY <3>1
      <4>2. Refreshes(p.of) = {v}
        BY Refreshed
      <4>3. main'.vfo = v /\ v # f[1]
        BY <1>0, <1>13, <3>1, <4>1, <4>2
      <4> QED BY <4>3 DEF Reading
    <3>2. CASE main' = main
      BY <1>1, <3>2 DEF Reading
    <3> QED BY <1>4, <1>5, <3>1, <3>2
  <2>2. ~Reading(f)
    BY <1>1 DEF Reading
  <2>3. Seen(f) => Seen(f)'
    BY <1>11, <2>1, <2>2 DEF Seen
  <2> QED BY <1>8, <1>10, <1>13, <2>3 DEF FreshInv
<1> QED BY <1>12, <1>13

\* The main thread reads: what it has read is what RadioState has, as long as nobody is
\* about to notify the contrary.
LEMMA ReadFresh ==
  ASSUME TypeInv, FreshInv,
         ReadField("freq", "mode") \/ ReadField("mode", "smeter") \/ Refresh
  PROVE  FreshInv'
<1>0. /\ DOMAIN ui = Shown /\ Connection \in ReadBack /\ ReadBack \subseteq Shown
      /\ main \in [at : {"idle", "freq", "mode", "smeter"}, vfo : {"vfo.a", "vfo.b"},
                   freq : Int, mode : 0..7]
  BY Kinds DEF TypeInv, ViewInv, ReadBack
<1>1. UNCHANGED <<data, todo, at, posts>>
  BY DEF ReadField, Refresh, controlVars, state
<1>2. ui'[Connection] = ui[Connection]
  <2>1. CASE Refresh
    <3>1. \A v : <<v, "freq">> # Connection /\ <<v, "mode">> # Connection /\ <<v, "smeter">> # Connection
      BY DEF Connection
    <3> QED BY <1>0, <2>1, <3>1 DEF Refresh
  <2>2. CASE ~Refresh
    BY <2>2 DEF ReadField
  <2> QED BY <2>1, <2>2
<1>3. ConnectionFresh'
  <2>1. Target' = Target
    BY <1>1 DEF Target
  <2> QED BY <1>1, <1>2, <2>1, ConnectionKept DEF FreshInv
<1>4. SUFFICES ASSUME NEW f \in ReadBack \ {Connection}, Seen(f)
               PROVE  Seen(f)'
  BY <1>1, <1>3 DEF FreshInv, Notifying, Posted
<1>5. f = <<f[1], f[2]>> /\ f[2] \in {"freq", "mode", "smeter"}
  BY RefreshOfReadBack
<1>6. CASE ReadField("freq", "mode")
  <2>1. main.at = "freq" /\ main' = [main EXCEPT !.at = "mode", !.freq = data[<<main.vfo, "freq">>]]
        /\ ui' = ui
    BY <1>6 DEF ReadField, GetVfo
  <2>2. main'.at = "mode" /\ main'.vfo = main.vfo /\ main'.freq = data[<<main.vfo, "freq">>]
    BY <1>0, <2>1
  <2>3. CASE main.vfo = f[1]
    <3>1. CASE f[2] = "freq"
      <4>1. main'[f[2]] = main'.freq
        BY <3>1
      <4>2. main'.freq = data'[f]
        BY <1>1, <1>5, <2>2, <2>3, <3>1
      <4> QED BY <2>2, <2>3, <4>1, <4>2 DEF Seen, Reading
    <3>2. CASE f[2] \in {"mode", "smeter"}
      BY <2>2, <2>3, <3>2 DEF Seen, Reading, Unread
    <3> QED BY <1>5, <3>1, <3>2
  <2>4. CASE main.vfo # f[1]
    BY <1>1, <1>4, <2>1, <2>2, <2>4 DEF Seen, Reading
  <2> QED BY <2>3, <2>4
<1>7. CASE ReadField("mode", "smeter")
  <2>1. main.at = "mode" /\ main' = [main EXCEPT !.at = "smeter", !.mode = data[<<main.vfo, "mode">>]]
        /\ ui' = ui
    BY <1>7 DEF ReadField, GetVfo
  <2>2. main'.at = "smeter" /\ main'.vfo = main.vfo /\ main'.mode = data[<<main.vfo, "mode">>]
        /\ main'.freq = main.freq
    BY <1>0, <2>1
  <2>3. CASE main.vfo = f[1]
    <3>1. CASE f[2] = "freq"
      <4>1. main'[f[2]] = main'.freq /\ main[f[2]] = main.freq
        BY <3>1
      <4>2. main.freq = data[f]
        BY <1>4, <2>1, <2>3, <3>1, <4>1 DEF Seen, Reading, Unread
      <4> QED BY <1>1, <2>2, <2>3, <4>1, <4>2 DEF Seen, Reading
    <3>2. CASE f[2] = "mode"
      <4>1. main'[f[2]] = main'.mode
        BY <3>2
      <4>2. main'.mode = data'[f]
        BY <1>1, <1>5, <2>2, <2>3, <3>2
      <4> QED BY <2>2, <2>3, <4>1, <4>2 DEF Seen, Reading
    <3>3. CASE f[2] = "smeter"
      BY <2>2, <2>3, <3>3 DEF Seen, Reading, Unread
    <3> QED BY <1>5, <3>1, <3>2, <3>3
  <2>4. CASE main.vfo # f[1]
    BY <1>1, <1>4, <2>1, <2>2, <2>4 DEF Seen, Reading
  <2> QED BY <2>3, <2>4
<1>8. CASE Refresh
  <2> DEFINE v == main.vfo
  <2>1. main.at = "smeter" /\ main'.at = "idle"
        /\ ui' = [ui EXCEPT ![<<v, "freq">>] = main.freq, ![<<v, "mode">>] = main.mode,
                            ![<<v, "smeter">>] = data[<<v, "smeter">>]]
    BY <1>8 DEF Refresh, GetVfo, AtRest
  <2>2. ~Reading(f)'
    BY <2>1 DEF Reading
  <2>3. CASE v = f[1]
    <3>1. CASE f[2] = "freq"
      <4>1. f = <<v, "freq">> /\ main[f[2]] = main.freq
        BY <1>5, <2>3, <3>1
      <4>2. main.freq = data[f]
        BY <1>4, <2>1, <2>3, <3>1, <4>1 DEF Seen, Reading, Unread
      <4>3. ui'[f] = main.freq
        BY <1>0, <2>1, <4>1
      <4> QED BY <1>1, <2>2, <4>2, <4>3 DEF Seen
    <3>2. CASE f[2] = "mode"
      <4>1. f = <<v, "mode">> /\ main[f[2]] = main.mode
        BY <1>5, <2>3, <3>2
      <4>2. main.mode = data[f]
        BY <1>4, <2>1, <2>3, <3>2, <4>1 DEF Seen, Reading, Unread
      <4>3. ui'[f] = main.mode
        BY <1>0, <2>1, <4>1
      <4> QED BY <1>1, <2>2, <4>2, <4>3 DEF Seen
    <3>3. CASE f[2] = "smeter"
      <4>1. f = <<v, "smeter">>
        BY <1>5, <2>3, <3>3
      <4>2. ui'[f] = data[f]
        BY <1>0, <2>1, <4>1
      <4> QED BY <1>1, <2>2, <4>2 DEF Seen
    <3> QED BY <1>5, <3>1, <3>2, <3>3
  <2>4. CASE v # f[1]
    <3>1. ui'[f] = ui[f]
      <4>1. f # <<v, "freq">> /\ f # <<v, "mode">> /\ f # <<v, "smeter">>
        BY <2>4
      <4> HIDE DEF v
      <4> QED BY <1>0, <2>1, <4>1
    <3>2. ~Reading(f)
      BY <2>4 DEF Reading
    <3> QED BY <1>1, <1>4, <2>2, <3>1, <3>2 DEF Seen
  <2> QED BY <2>3, <2>4
<1> QED BY <1>6, <1>7, <1>8

LEMMA FreshStep ==
  ASSUME TypeInv, FreshInv, [Next]_vars, Calls \subseteq Seq(AppSteps)
  PROVE  FreshInv'
<1>0. ThreadInv /\ Reader \in Threads /\ Connection \in ReadBack
      /\ DOMAIN ui = Shown /\ <<"vfo.a", "rate">> \notin ReadBack
  BY ControlThreads DEF TypeInv, ViewInv, ReadBack, Connection
\* Steps in which no thread is left or comes to a callback, and nothing is posted.
<1>1. ASSUME UNCHANGED <<data, posts, ui, main>>, Target' = Target,
             \A t \in Threads : at[t] = "callback" => at'[t] = "callback" /\ todo'[t] = todo[t]
      PROVE  FreshInv'
  <2>1. ConnectionFresh'
    BY <1>1, ConnectionKept DEF FreshInv
  <2>2. \A f : Posted(f) => Posted(f)'
    BY <1>1 DEF Posted
  <2> QED BY <1>1, <2>1, <2>2, FreshKept
<1>2. ASSUME UNCHANGED <<data, todo, at, posts>>, Kept PROVE FreshInv'
  BY <1>1, <1>2 DEF Kept, Target
<1>3. ASSUME NEW t \in Threads, Transmit(t), Kept PROVE FreshInv'
  <2>1. at[t] = "ready" /\ todo' = [todo EXCEPT ![t] = Tail(@)] /\ UNCHANGED <<data, at, posts>>
    BY <1>3 DEF Transmit, Finish
  <2>2. \A r \in Threads : at[r] \in {"callback", "notified"} => todo'[r] = todo[r]
    BY <1>0, <2>1 DEF ThreadInv
  <2>3. Target' = Target
    BY <1>0, <2>1, <2>2 DEF Target
  <2> QED BY <1>1, <1>3, <2>1, <2>2, <2>3 DEF Kept
<1>4. ASSUME NEW u \in Callers, NEW call, Enter(u, call), Kept PROVE FreshInv'
  <2>1. at[u] = "ready" /\ todo' = [todo EXCEPT ![u] = call] /\ UNCHANGED <<data, at, posts>>
    BY <1>4 DEF Enter, Idle
  <2>2. \A r \in Threads : at[r] \in {"callback", "notified"} => todo'[r] = todo[r]
    BY <1>0, <2>1 DEF ThreadInv
  <2>3. Target' = Target
    BY <1>0, <2>1, <2>2 DEF Target
  <2> QED BY <1>1, <1>4, <2>1, <2>2, <2>3 DEF Kept
<1>5. ASSUME Receive, Kept PROVE FreshInv'
  <2>1. at[Reader] = "ready" /\ todo' = [todo EXCEPT ![Reader] = Dispatch(Head(frames))]
        /\ UNCHANGED <<data, at, posts>>
    BY <1>5 DEF Receive, Idle
  <2>2. \A r \in Threads : at[r] \in {"callback", "notified"} => todo'[r] = todo[r]
    BY <1>0, <2>1 DEF ThreadInv
  <2>3. Target' = Target
    BY <1>0, <2>1, <2>2 DEF Target
  <2> QED BY <1>1, <1>5, <2>1, <2>2, <2>3 DEF Kept
<1>6. ASSUME Retry \/ Redialled \/ Lose, Kept PROVE FreshInv'
  <2>1. PICK status \in {"CONNECTED", "RECONNECTING"}, attempts \in {0, 1} :
          NotifyConnectionState(status, attempts)
    BY <1>6 DEF Retry, Redialled, Lose
  <2> QED BY <1>6, <2>1, NotifyFresh
<1>7. ASSUME RadioTakes \/ RadioTurns \/ RadioMumbles, Kept PROVE FreshInv'
  BY <1>2, <1>7 DEF RadioTakes, RadioTurns, RadioMumbles, Turning, state
<1>8. ASSUME CycleTuningRate PROVE FreshInv'
  <2>1. ui' = [ui EXCEPT ![<<"vfo.a", "rate">>] = NextTuningRate(ui[<<"vfo.a", "rate">>])]
        /\ UNCHANGED <<data, todo, at, posts, main>>
    BY <1>8 DEF CycleTuningRate, state
  <2>2. \A f \in ReadBack : ui'[f] = ui[f]
    BY <1>0, <2>1, Kinds
  <2>3. Target' = Target
    BY <2>1 DEF Target
  <2>4. ConnectionFresh'
    BY <1>0, <2>1, <2>2, <2>3, ConnectionKept DEF FreshInv
  <2>5. ASSUME NEW f \in ReadBack \ {Connection} PROVE Notifying(f)' \/ Posted(f)' \/ Seen(f)'
    BY <2>1, <2>2 DEF FreshInv, Notifying, Posted, Seen, Reading, Unread
  <2> QED BY <2>4, <2>5 DEF FreshInv
<1>9. CASE UNCHANGED vars
  BY <1>2, <1>9 DEF vars, controlVars, state, Kept
<1>10. CASE Next
  <2>1. ASSUME NEW t \in Threads, Apply(t) \/ Callback(t), Kept PROVE FreshInv'
    BY <2>1, ApplyFresh, CallbackFresh
  <2> QED BY <1>3, <1>4, <1>5, <1>6, <1>7, <1>8, <1>10, <2>1, NextSteps, StoreFresh, RelockFresh,
             TakePostFresh, ReadFresh
<1> QED BY <1>9, <1>10

\* Once nothing is in progress, the user is shown the frequencies, modes, meters and
\* connection state that RadioState has, though the main thread reads a VFO in three pieces
\* and the connection state takes another way.  What empty functions leave out, the
\* transmitter, the active VFO and the sub receiver, is shown, but is not part of this.
THEOREM ViewAlwaysCurrent ==
  ASSUME Calls \subseteq Seq(AppSteps)
  PROVE  Spec => []ViewIsCurrent
<1>1. Init => TypeInv /\ FreshInv
  <2>1. SUFFICES ASSUME Init PROVE TypeInv /\ FreshInv
    OBVIOUS
  <2>2. TypeInv
    BY <2>1, InitTypes
  <2>3. posts = <<>> /\ main.at = "idle" /\ at[Reader] = "ready" /\ \A f \in ReadBack : ui[f] = data[f]
    BY <2>1, ControlThreads, Kinds DEF Init, ControlInit, StateInit, AtRest
  <2>4. Connection \in ReadBack
    BY DEF ReadBack
  <2>5. ConnectionFresh
    BY <2>3, <2>4 DEF ConnectionFresh, Target
  <2>6. \A f \in ReadBack : Seen(f)
    BY <2>3 DEF Seen, Reading
  <2> QED BY <2>2, <2>5, <2>6 DEF FreshInv
<1>2. TypeInv /\ FreshInv /\ [Next]_vars => (TypeInv /\ FreshInv)'
  BY TypeStep, FreshStep
<1>3. FreshInv => ViewIsCurrent
  <2>1. SUFFICES ASSUME FreshInv, Settled, posts = <<>>, main.at = "idle", NEW f \in ReadBack
                 PROVE  ui[f] = data[f]
    BY DEF ViewIsCurrent
  <2>2. \A t \in Threads : at[t] = "ready"
    BY <2>1 DEF Settled, Idle
  <2>3. CASE f = Connection
    BY <2>1, <2>2, <2>3, ControlThreads DEF FreshInv, ConnectionFresh, Target
  <2>4. CASE f # Connection
    BY <2>1, <2>2, <2>4 DEF FreshInv, Notifying, Posted, Seen, Reading
  <2> QED BY <2>3, <2>4
<1> QED BY <1>1, <1>2, <1>3, PTL DEF Spec

====
