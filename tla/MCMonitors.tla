----------------------------- MODULE MCMonitors -----------------------------
(* An instance of Monitors for TLC: sizes in units of 4096 octets.         *)
EXTENDS Monitors

Frame(type, rate, sizes, extra) ==
  [kind |-> type, rate |-> rate, sizes |-> sizes, says |-> Total(sizes) - 1 - extra]

\* Frames of one packet and of two, with and without the benign surplus, one
\* whose length is wrong, sound of an unknown rate and an unknown type.
MCShapes ==
  {Frame("I", 25, <<4, 3>>, 0), Frame("P", 0, <<2, 4>>, 1), Frame("P", 0, <<3>>, 2),
   Frame("Audio", 8000, <<2>>, 0), Frame("Audio", 0, <<3>>, 0), Frame("Other", 0, <<3>>, 0),
   Frame("I", 30, <<3>>, 0)}

MCAccessUnits ==
  {<<"VPS", "SPS", "PPS">>, <<"AUD", "SPS", "IDR_W_RADL">>, <<"VPS", "PPS", "CRA">>, <<"TRAIL_R">>}

MCFrameRates == 4 .. 255

\* The theorems of MonitorsProofs are about cameras of which this is one.
ASSUME MCMonitorsAssumption == PrefixesDiffer /\ IntervalsFit
=============================================================================
