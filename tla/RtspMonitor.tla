---------------------------- MODULE RtspMonitor -----------------------------
(***************************************************************************)
(* The monitor of an RTSP camera: rtsp/monitor.go.  Two goroutines: the    *)
(* stream's task, which makes the monitor, calls GetFrame and shuts it     *)
(* down, and the one of gortsplib in which the packet callback runs.  They *)
(* meet at frameChannel, which has no buffer.  The camera sends H.265      *)
(* access units; gortsplib and its decoder are external.                   *)
(***************************************************************************)
EXTENDS Integers, Sequences, SequencesExt

CONSTANTS
  AccessUnits, \* what a camera may send at a time: sequences of NAL unit types
  Steps,       \* by how much its clock may advance between two of them
  MaxUnits     \* bound: access units sent

ParameterSets == {"VPS", "SPS", "PPS"}
RandomAccess == {"IDR_W_RADL", "IDR_N_LP", "CRA"}

ASSUME RtspAssumption ==
  /\ MaxUnits \in Nat /\ Steps \subseteq Nat
  /\ AccessUnits \subseteq Seq(STRING) /\ <<>> \notin AccessUnits

VARIABLES
  task,        \* the stream's task: new, idle, waiting, failed, closing, ended, crashed
  playing,     \* the client of gortsplib has been told to play and is not closed
  callback,    \* ready, or sending the frame
  frame,       \* what the callback has made of the last access unit
  prevPTS,
  params,      \* m.vps, m.sps, m.pps: NAL units, nil being <<>>
  closeWaits,  \* Client.Close waits for a callback that is running
  units,       \* history: the access units decoded, with their times
  returned     \* history: what GetFrame returned

rtspVars == <<task, playing, callback, frame, prevPTS, params, closeWaits, units, returned>>

Nil == [data |-> <<>>, key |-> FALSE, duration |-> 0]

RtspInit ==
  /\ task = "new" /\ playing = FALSE /\ callback = "ready" /\ frame = Nil
  /\ prevPTS = 0 /\ params = [t \in ParameterSets |-> <<>>]
  /\ closeWaits = FALSE /\ units = <<>> /\ returned = <<>>

\* Start, Describe and FindFormat, CreateDecoder or Play fail, and nobody
\* closes the client; or Setup fails, which panics.
NewMonitorFails ==
  /\ task = "new" /\ task' \in {"ended", "crashed"}
  /\ UNCHANGED <<playing, callback, frame, prevPTS, params, closeWaits, units, returned>>

NewMonitorPlays ==
  /\ task = "new" /\ task' = "idle" /\ playing' = TRUE /\ closeWaits' \in BOOLEAN
  /\ UNCHANGED <<callback, frame, prevPTS, params, units, returned>>

\* The NAL units of the n-th access unit.
NalusOf(n) == [i \in DOMAIN units[n].types |-> <<units[n].types[i], n>>]

\* Mutant: the first one counts; a later one does not replace it.
FirstOf(t, au, before) ==
  LET of == {i \in DOMAIN au : au[i][1] = t}
  IN  IF of = {} \/ before # <<>> THEN before ELSE au[Min(of)]

\* The last NAL unit of type t, or what was there before.
LatestOf(t, au, before) ==
  LET of == {i \in DOMAIN au : au[i][1] = t}
  IN  IF of = {} THEN before ELSE au[Max(of)]

\* Parameter sets and delimiters are taken out; a random access unit gets all
\* three parameter sets known put before it; a unit of nothing else is a nil
\* frame without an error.
Filtered(au) == SelectSeq(au, LAMBDA nalu : nalu[1] \notin ParameterSets \cup {"AUD"})

IsRandomAccess(au) == \E i \in DOMAIN au : au[i][1] \in RandomAccess

BuildH265Frame(au, p, duration) ==
  IF Filtered(au) = <<>> THEN Nil
  ELSE [data |-> (IF IsRandomAccess(au) THEN <<p["VPS"], p["SPS"], p["PPS"]>> ELSE <<>>) \o Filtered(au),
        key |-> IsRandomAccess(au), duration |-> duration]

\* The callback has decoded a whole access unit whose time is known.  (Of other
\* packets it makes nothing.)
AccessUnit ==
  /\ playing /\ callback = "ready" /\ Len(units) < MaxUnits
  /\ \E types \in AccessUnits, step \in Steps :
       LET pts == prevPTS + step
           au == [i \in DOMAIN types |-> <<types[i], Len(units) + 1>>]
           p == [t \in ParameterSets |-> LatestOf(t, au, params[t])]
       IN  /\ units' = Append(units, [types |-> types, pts |-> pts])
           /\ params' = p /\ prevPTS' = pts
           /\ frame' = BuildH265Frame(au, p, pts - prevPTS)
  /\ callback' = "sending"
  /\ UNCHANGED <<task, playing, closeWaits, returned>>

RtspGetFrame ==
  /\ task = "idle" /\ task' = "waiting"
  /\ UNCHANGED <<playing, callback, frame, prevPTS, params, closeWaits, units, returned>>

\* The two goroutines meet.
FrameReceived ==
  /\ task = "waiting" /\ callback = "sending"
  /\ task' = "idle" /\ callback' = "ready" /\ returned' = Append(returned, frame)
  /\ UNCHANGED <<playing, frame, prevPTS, params, closeWaits, units>>

\* Five seconds without a frame, or the context is done.
RtspTimeout ==
  /\ task = "waiting" /\ task' = "failed"
  /\ UNCHANGED <<playing, callback, frame, prevPTS, params, closeWaits, units, returned>>

RtspShutDown ==
  /\ task \in {"failed", "idle"}
  /\ task' = "closing" /\ playing' = FALSE
  /\ UNCHANGED <<callback, frame, prevPTS, params, closeWaits, units, returned>>

\* Client.Close returns.
Closed ==
  /\ task = "closing" /\ (closeWaits => callback = "ready")
  /\ task' = "ended"
  /\ UNCHANGED <<playing, callback, frame, prevPTS, params, closeWaits, units, returned>>

RtspTask == NewMonitorFails \/ NewMonitorPlays \/ RtspGetFrame \/ FrameReceived \/ RtspTimeout \/ RtspShutDown \/ Closed

RtspNext == RtspTask \/ AccessUnit
=============================================================================
