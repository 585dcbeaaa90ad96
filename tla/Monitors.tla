------------------------------ MODULE Monitors ------------------------------
(***************************************************************************)
(* The two kinds of monitor a stream may have (camera/stream.go,           *)
(* tryToMakeMonitor): rtsp.Monitor for a BITVISION camera or when RTSP is  *)
(* asked for, dvrip.Monitor otherwise.  Both are made, asked for frames    *)
(* and shut down by the stream's task.                                     *)
(***************************************************************************)
EXTENDS DvripMonitor, RtspMonitor

CONSTANTS
  Kinds,       \* which of the two a configuration may ask for: dvrip, rtsp
  FrameRates   \* bound: the frame rates at which durations are checked

\* A frame of more than 250 ms, at less than four a second, has no duration
\* that fits an uint8.
ASSUME MonitorsAssumption == Kinds \subseteq {"dvrip", "rtsp"} /\ FrameRates \subseteq 4 .. 255

VARIABLE kind

vars == <<kind, dvripVars, rtspVars>>

Init == kind \in Kinds /\ DvripInit /\ RtspInit

Next ==
  \/ kind = "dvrip" /\ DvripNext /\ UNCHANGED <<kind, rtspVars>>
  \/ kind = "rtsp" /\ RtspNext /\ UNCHANGED <<kind, dvripVars>>

Spec == Init /\ [][Next]_vars

\* The stream's task goes on calling whatever the camera does: every wait in
\* it has a timeout.  Neither the camera nor the clock owes it anything.
FairSpec ==
  Spec /\ WF_vars(kind = "dvrip" /\ DvripTask /\ UNCHANGED <<kind, rtspVars>>)
       /\ WF_vars(kind = "rtsp" /\ RtspTask /\ UNCHANGED <<kind, dvripVars>>)

----------------------------------------------------------------------------
(* Properties *)

Total(sizes) == Ends(sizes)[Len(sizes)]

\* A frame that GetFrame returned has all the cells the camera cut it into,
\* in order, and none of another frame.
Whole(data) ==
  data = [j \in 1 .. Total(ShapeOf(data).sizes) |-> <<data[1][1], j - 1>>]

\* DVRIP frames come whole and in order, and GetFrame skips a frame only when
\* the camera has sent a reply between its packets: GetMessage drops what it
\* has read of a media message at a packet of another kind.
FramesAreWhole ==
  \A i \in DOMAIN delivered :
    LET n == delivered[i][1][1]
        before == IF i = 1 THEN 0 ELSE delivered[i - 1][1][1]
    IN  before < n /\ Whole(delivered[i]) /\ before + 1 .. n - 1 \subseteq cut

\* While frames are read, the camera hears from the client every interval, plus
\* the time of the message being read then (two waits of half a second a packet)
\* and of handling a frame, although seconds are compared as uint8s.
KeepAliveInTime ==
  claimDone /\ conn = "open" => \E s \in Shapes : silent <= interval + Len(s.sizes) + 1

\* Over any number of frames, the whole milliseconds that NewPTS and Next give
\* are never behind the frame rate and at most fps / 4 ms ahead of it.  (Nothing
\* but the rate matters to a clock, so all rates are looked at before the start;
\* after fps frames the clock is where it was at first.)
DurationsFollowTheClock ==
  kind = "dvrip" /\ pc = "new" => \A fps \in FrameRates :
    LET after[k \in 0 .. fps] ==
          IF k = 0 THEN [clock |-> NewPTS(fps), ahead |-> 0]
          ELSE LET before == after[k - 1]
               IN  [clock |-> Advance(before.clock),
                    ahead |-> before.ahead + fps * NextDuration(before.clock) - 1000]
    IN  /\ \A k \in 0 .. fps : 0 <= after[k].ahead /\ 4 * after[k].ahead <= fps * fps
        /\ after[fps] = after[0]

\* The last parameter set of type t among the first n access units.
LatestUpTo(n, t) ==
  LET with == {m \in 1 .. n : \E i \in DOMAIN units[m].types : units[m].types[i] = t}
  IN  IF with = {} THEN <<>> ELSE <<t, CHOOSE m \in with : \A k \in with : k <= m>>

\* The n-th frame GetFrame returns is made of the n-th access unit; it is a key
\* frame, with the latest parameter sets before it, if that has a random access
\* picture; and its duration takes the clock from the access unit before.
FramesDescribeTheStream ==
  \A n \in DOMAIN returned :
    LET f == returned[n]  au == NalusOf(n)
    IN  f # Nil =>
          /\ f.key = IsRandomAccess(au)
          /\ f.data = (IF f.key THEN <<LatestUpTo(n, "VPS"), LatestUpTo(n, "SPS"), LatestUpTo(n, "PPS")>>
                                ELSE <<>>) \o Filtered(au)
          /\ f.duration = units[n].pts - (IF n = 1 THEN 0 ELSE units[n - 1].pts)

\* A call of GetFrame returns, with a frame or an error, once the camera has
\* fallen silent if not before; a frame type or sample rate that is not known
\* ends the program.
GetFrameReturns ==
  /\ pc \in {"raw", "header", "data"} ~> pc \in {"idle", "failed", "ended", "crashed"}
  /\ task = "waiting" ~> task \in {"idle", "failed"}

----------------------------------------------------------------------------
(* What the theorems ask of the frames and intervals of a camera *)

\* No header of a frame says the length of the frame's first packets without
\* the others, or of those less Benign.
PrefixesDiffer ==
  \A s \in Shapes : \A k \in 1 .. Len(s.sizes) - 1 : Ends(s.sizes)[k] - 1 - s.says \notin {0, Benign}

\* Seconds fit the octet they are compared as: those of the claim, and those of
\* an interval and the longest frame after it.
IntervalsFit ==
  ByteValues > 4 /\ \A a \in Intervals, s \in Shapes : a + Len(s.sizes) + 1 < ByteValues
=============================================================================
