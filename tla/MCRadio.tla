-------------------------------- MODULE MCRadio --------------------------------
(* Values for RadioView: calls for both VFOs and for each setting that the radio *)
(* reports, some of those for the rest, with arguments inside and outside of     *)
(* their ranges; settings that the radio's operator chooses; and commands of the *)
(* radio that are cut short, unknown or without a number.                        *)
EXTENDS RadioView

\* The functions of RadioUtils against their descriptions in radio_utils.h: the tiers are
\* climbed one by one and descended the same way, "current if already at max" or min; a
\* snap changes no tier; a band's middle is in that band and in no other.
ASSUME SpanTiersAreAStair ==
  /\ \A t \in SpanTiers \ {Widest} :
       /\ PrevSpanTier(NextSpanTier(t)) = t
       /\ ~\E u \in SpanTiers : t < u /\ u < NextSpanTier(t)
  /\ NextSpanTier(Widest) = Widest /\ PrevSpanTier(Narrowest) = Narrowest
  /\ \A t \in SpanTiers : SnapToSpanTier(t) = t
ASSUME BandsAreFound ==
  \A id \in BandIds : FreqToBand((Lower(id) + Upper(id)) \div 2) = id

\* The last is a setter that Engine does not call yet, as
\* core/tests/test_radio_state.cpp does.
MCCalls ==
  { RequestFrequency(1, 7100000), RequestMode(0, 3), RequestMode(1, 4), RequestBand(3),
    RequestPtt(TRUE), RequestPower(5), RequestPower(2000000000), CwSetSpeed(70),
    SetNr(1, 1, TRUE, 0), RequestAgc(2), SetVolume(0, 150), CwKey(1), SetSpectrumSpan(6000),
    <<SetActiveVfo(1)>> }

MCKnobs == { << <<"vfo.a", "freq">>, 14100000>>, << <<"vfo.a", "mode">>, "DATA-R">>,
             << <<"vfo.b", "smeter">>, 54>> }

MCNoise == { Text("FA", 5, 0, 14150), Text("FB", 11, 0, NotANumber), Text("spectrum", 0, 0, 960) }
================================================================================
