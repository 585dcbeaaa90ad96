--------------------------- MODULE MonitorsProofs ---------------------------
(***************************************************************************)
(* Proofs about Monitors.                                                  *)
(* RTSP: what the callback has made of the access units so far (RtspInv).  *)
(* DVRIP: the types (DvripInv); what is on its way until the claim is      *)
(* answered, one command and its reply at a time (ClaimInv); how many      *)
(* packets of which frame have been sent, are on the way and have been     *)
(* read (FlightInv); the frames returned (WholeInv); how long ago the last *)
(* ping was, where the task is (TimeInv); and, for any rate, what a cycle  *)
(* of durations adds up to.                                                *)
(***************************************************************************)
EXTENDS Monitors, Induction

----------------------------------------------------------------------------
(* RTSP *)

Unit == [types : Seq(STRING), pts : Nat]

\* The definitions of FramesDescribeTheStream, of any access units.
AuOf(us, n) == [i \in DOMAIN us[n].types |-> <<us[n].types[i], n>>]
Having(us, n, t) == {m \in 1 .. n : \E i \in DOMAIN us[m].types : us[m].types[i] = t}
LatestIn(us, n, t) ==
  IF Having(us, n, t) = {} THEN <<>>
  ELSE <<t, CHOOSE m \in Having(us, n, t) : \A k \in Having(us, n, t) : k <= m>>
StartOf(us, n) == IF n = 0 THEN 0 ELSE us[n].pts
Describes(f, us, n) ==
  f # Nil =>
    /\ f.key = IsRandomAccess(AuOf(us, n))
    /\ f.data = (IF f.key THEN <<LatestIn(us, n, "VPS"), LatestIn(us, n, "SPS"), LatestIn(us, n, "PPS")>>
                          ELSE <<>>) \o Filtered(AuOf(us, n))
    /\ f.duration = us[n].pts - StartOf(us, n - 1)

LEMMA LatestSame ==
  ASSUME NEW us, NEW vs, NEW n, NEW m, NEW t, Having(us, n, t) = Having(vs, m, t)
  PROVE  LatestIn(us, n, t) = LatestIn(vs, m, t)
<1>1. PICK H : H = Having(us, n, t)
  OBVIOUS
<1>2. Having(us, n, t) = H /\ Having(vs, m, t) = H
  BY <1>1
<1>3. LatestIn(us, n, t) = IF H = {} THEN <<>> ELSE <<t, CHOOSE k \in H : \A i \in H : i <= k>>
  BY <1>2 DEF LatestIn
<1>4. LatestIn(vs, m, t) = IF H = {} THEN <<>> ELSE <<t, CHOOSE k \in H : \A i \in H : i <= k>>
  BY <1>2 DEF LatestIn
<1> QED BY <1>3, <1>4

\* A further access unit leaves those before it alone.
LEMMA LatestStays ==
  ASSUME NEW us \in Seq(Unit), NEW u \in Unit, NEW n \in 0 .. Len(us)
  PROVE  /\ \A t : LatestIn(Append(us, u), n, t) = LatestIn(us, n, t)
         /\ StartOf(Append(us, u), n) = StartOf(us, n)
         /\ n > 0 => AuOf(Append(us, u), n) = AuOf(us, n)
<1>1. \A m \in 1 .. n : Append(us, u)[m] = us[m]
  OBVIOUS
<1>2. \A t : Having(Append(us, u), n, t) = Having(us, n, t)
  BY <1>1 DEF Having
<1>3. \A t : LatestIn(Append(us, u), n, t) = LatestIn(us, n, t)
  BY <1>2, LatestSame
<1>4. n > 0 => Append(us, u)[n] = us[n]
  BY <1>1
<1>5. StartOf(Append(us, u), n) = StartOf(us, n)
  BY <1>4 DEF StartOf
<1> QED BY <1>3, <1>4, <1>5 DEF AuOf

\* LatestOf of the next access unit and of what was the latest is the latest.
LEMMA LatestNext ==
  ASSUME NEW us, NEW vs, NEW N, N \in Nat \ {0}, NEW t, NEW types, types \in Seq(STRING),
         vs[N].types = types, \A m \in 1 .. N - 1 : vs[m] = us[m]
  PROVE  LatestOf(t, AuOf(vs, N), LatestIn(us, N - 1, t)) = LatestIn(vs, N, t)
<1>1. vs[N].types = types /\ \A m \in 1 .. N - 1 : vs[m] = us[m]
  OBVIOUS
<1>2. PICK au : au = [i \in 1 .. Len(types) |-> <<types[i], N>>]
  OBVIOUS
<1>3. AuOf(vs, N) = au
  BY <1>1, <1>2 DEF AuOf
<1>4. PICK of : of = {i \in DOMAIN au : au[i][1] = t}
  OBVIOUS
<1>5. of = {i \in 1 .. Len(types) : types[i] = t}
  BY <1>2, <1>4
<1>6. Having(vs, N, t) = Having(us, N - 1, t) \cup (IF of = {} THEN {} ELSE {N})
  <2>1. \A m \in 1 .. N - 1 : m \in Having(vs, N, t) <=> m \in Having(us, N - 1, t)
    BY <1>1 DEF Having
  <2>2. N \in Having(vs, N, t) <=> of # {}
    <3>1. N \in Having(vs, N, t) <=> \E i \in DOMAIN types : types[i] = t
      <4>1. N \in 1 .. N
        OBVIOUS
      <4> QED BY <1>1, <4>1 DEF Having
    <3>2. DOMAIN types = 1 .. Len(types)
      OBVIOUS
    <3> QED BY <1>5, <3>1, <3>2
  <2>3. Having(vs, N, t) \subseteq 1 .. N /\ Having(us, N - 1, t) \subseteq 1 .. N - 1
    BY DEF Having
  <2> QED BY <2>1, <2>2, <2>3
<1>7. CASE of = {}
  <2>1. LatestOf(t, au, LatestIn(us, N - 1, t)) = LatestIn(us, N - 1, t)
    BY <1>4, <1>7, Zenon DEF LatestOf
  <2>2. Having(vs, N, t) = Having(us, N - 1, t)
    BY <1>6, <1>7
  <2>3. LatestIn(vs, N, t) = LatestIn(us, N - 1, t)
    BY <2>2, LatestSame
  <2> QED BY <1>3, <2>1, <2>3
<1>8. CASE of # {}
  <2>1. Max(of) \in of
    <3>1. Len(types) \in Nat /\ of \subseteq 1 .. Len(types)
      BY <1>5
    <3> QED BY <1>8, <3>1, GreatestIn
  <2>2. PICK i \in 1 .. Len(types) : i = Max(of) /\ types[i] = t
    BY <1>5, <2>1
  <2>3. LatestOf(t, au, LatestIn(us, N - 1, t)) = au[i]
    BY <1>4, <1>8, <2>2, Zenon DEF LatestOf
  <2>4. au[i] = <<t, N>>
    BY <1>2, <2>2
  <2>5. PICK H : H = Having(vs, N, t)
    OBVIOUS
  <2>6. N \in H /\ \A k \in H : k <= N
    <3>1. N \in H
      BY <1>6, <1>8, <2>5
    <3> QED BY <2>5, <3>1 DEF Having
  <2>7. H \subseteq 1 .. N
    BY <2>5 DEF Having
  <2>8. (CHOOSE m \in H : \A k \in H : k <= m) = N
    <3>1. \A m \in H : (\A k \in H : k <= m) => m = N
      BY <2>6, <2>7
    <3> QED BY <2>6, <3>1
  <2>9. LatestIn(vs, N, t) = <<t, N>>
    BY <2>5, <2>6, <2>8 DEF LatestIn
  <2> QED BY <1>3, <2>3, <2>4, <2>9
<1> QED BY <1>7, <1>8

RtspInv ==
  /\ units \in Seq(Unit) /\ prevPTS = StartOf(units, Len(units)) /\ prevPTS \in Nat
  /\ params = [t \in ParameterSets |-> LatestIn(units, Len(units), t)]
  /\ callback \in {"ready", "sending"}
  /\ \E S : returned \in Seq(S)
  /\ Len(units) = Len(returned) + (IF callback = "sending" THEN 1 ELSE 0)
  /\ callback = "sending" => Describes(frame, units, Len(units))
  /\ \A n \in 1 .. Len(returned) : Describes(returned[n], units, n)

LEMMA DescribesStays ==
  ASSUME NEW us \in Seq(Unit), NEW u \in Unit, NEW n \in 1 .. Len(us), NEW f, Describes(f, us, n)
  PROVE  Describes(f, Append(us, u), n)
<1>1. PICK vs : vs = Append(us, u)
  OBVIOUS
<1>2. vs[n] = us[n]
  BY <1>1
<1>3. \A t : LatestIn(vs, n, t) = LatestIn(us, n, t)
  BY <1>1, LatestStays
<1>4. AuOf(vs, n) = AuOf(us, n)
  BY <1>2 DEF AuOf
<1>5. StartOf(vs, n - 1) = StartOf(us, n - 1)
  <2>1. n - 1 \in 0 .. Len(us)
    OBVIOUS
  <2> QED BY <1>1, <2>1, LatestStays
<1>6. Describes(f, vs, n)
  BY <1>2, <1>3, <1>4, <1>5 DEF Describes
<1> QED BY <1>1, <1>6

\* What buildH265Frame makes of the next access unit.
LEMMA BuiltDescribes ==
  ASSUME NEW us \in Seq(Unit), NEW types \in Seq(STRING), NEW at \in Nat,
         NEW N \in Nat, N = Len(us) + 1, NEW vs, vs = Append(us, [types |-> types, pts |-> at]),
         NEW p, p = [t \in ParameterSets |-> LatestIn(vs, N, t)]
  PROVE  Describes(BuildH265Frame(AuOf(vs, N), p, at - StartOf(us, N - 1)), vs, N)
<1>1. PICK au : au = AuOf(vs, N)
  OBVIOUS
<1>2. PICK f : f = BuildH265Frame(au, p, at - StartOf(us, N - 1))
  OBVIOUS
<1>3. vs[N].pts = at /\ StartOf(vs, N - 1) = StartOf(us, N - 1)
  <2>1. vs[N].pts = at
    OBVIOUS
  <2>2. [types |-> types, pts |-> at] \in Unit
    BY Zenon DEF Unit
  <2>3. N - 1 \in 0 .. Len(us)
    OBVIOUS
  <2> QED BY <2>1, <2>2, <2>3, LatestStays
<1>4. /\ p["VPS"] = LatestIn(vs, N, "VPS") /\ p["SPS"] = LatestIn(vs, N, "SPS")
      /\ p["PPS"] = LatestIn(vs, N, "PPS")
  BY DEF ParameterSets
<1>5. CASE Filtered(au) = <<>>
  BY <1>1, <1>2, <1>5 DEF BuildH265Frame, Describes
<1>6. CASE Filtered(au) # <<>>
  <2>1. /\ f.key = IsRandomAccess(au) /\ f.duration = at - StartOf(us, N - 1)
        /\ f.data = (IF IsRandomAccess(au) THEN <<p["VPS"], p["SPS"], p["PPS"]>> ELSE <<>>) \o Filtered(au)
    BY <1>2, <1>6 DEF BuildH265Frame
  <2>2. Describes(f, vs, N)
    BY <1>1, <1>3, <1>4, <2>1, Zenon DEF Describes
  <2> QED BY <1>1, <1>2, <2>2
<1> QED BY <1>5, <1>6

LEMMA AccessUnitStep ==
  ASSUME RtspInv, AccessUnit
  PROVE  RtspInv'
<1>1. PICK types \in AccessUnits, step \in Steps :
        LET at == prevPTS + step
            au == [i \in DOMAIN types |-> <<types[i], Len(units) + 1>>]
            p == [t \in ParameterSets |-> LatestOf(t, au, params[t])]
        IN  /\ units' = Append(units, [types |-> types, pts |-> at])
            /\ params' = p /\ prevPTS' = at
            /\ frame' = BuildH265Frame(au, p, at - prevPTS)
  BY DEF AccessUnit
<1>2. callback = "ready" /\ callback' = "sending" /\ returned' = returned
  BY DEF AccessUnit
<1>3. PICK us \in Seq(Unit) : us = units
  BY DEF RtspInv
<1>4. types \in Seq(STRING) /\ step \in Nat /\ prevPTS \in Nat /\ prevPTS = StartOf(us, Len(us))
  BY <1>3, RtspAssumption DEF RtspInv
<1>5. PICK at \in Nat : at = prevPTS + step
  BY <1>4
<1>6. PICK N \in Nat : N = Len(us) + 1 /\ N - 1 = Len(us)
  OBVIOUS
<1>7. PICK u : u = [types |-> types, pts |-> at]
  OBVIOUS
<1>8. u \in Unit
  BY <1>4, <1>7, Zenon DEF Unit
<1>9. PICK vs \in Seq(Unit) : vs = Append(us, u)
  <2>1. Append(us, u) \in Seq(Unit)
    BY <1>8
  <2> QED BY <2>1, Zenon
<1>10. Len(vs) = N /\ vs[N] = u /\ units' = vs
  BY <1>1, <1>3, <1>5, <1>6, <1>7, <1>8, <1>9
<1>11. PICK au : au = AuOf(vs, N)
  OBVIOUS
<1>12. au = [i \in DOMAIN types |-> <<types[i], Len(units) + 1>>]
  BY <1>3, <1>6, <1>7, <1>10, <1>11 DEF AuOf
<1>13. PICK p : p = [t \in ParameterSets |-> LatestIn(vs, N, t)]
  OBVIOUS
<1>14. p = [t \in ParameterSets |-> LatestOf(t, au, params[t])]
  <2>1. ASSUME NEW t \in ParameterSets PROVE LatestOf(t, au, params[t]) = LatestIn(vs, N, t)
    <3>1. params[t] = LatestIn(us, N - 1, t)
      BY <1>3, <1>6 DEF RtspInv
    <3>2. LatestOf(t, AuOf(vs, N), LatestIn(us, N - 1, t)) = LatestIn(vs, N, t)
      <4>1. N \in Nat \ {0} /\ types \in Seq(STRING)
        BY <1>4, <1>6
      <4>2. vs[N].types = types
        BY <1>7, <1>10
      <4>3. \A m \in 1 .. N - 1 : vs[m] = us[m]
        BY <1>3, <1>6, <1>9
      <4> QED BY <4>1, <4>2, <4>3, LatestNext, SMTT(30)
    <3> QED BY <1>11, <3>1, <3>2
  <2> QED BY <1>13, <2>1
<1>15. params' = p /\ prevPTS' = at /\ frame' = BuildH265Frame(au, p, at - prevPTS)
  BY <1>1, <1>5, <1>12, <1>14, Zenon
<1>16. Describes(frame', vs, N)
  <2>1. Describes(BuildH265Frame(AuOf(vs, N), p, at - StartOf(us, N - 1)), vs, N)
    BY <1>4, <1>6, <1>7, <1>9, <1>13, BuiltDescribes
  <2>2. StartOf(us, N - 1) = prevPTS
    BY <1>4, <1>6
  <2> QED BY <1>11, <1>15, <2>1, <2>2, Zenon
<1>17. PICK rs : rs = returned
  OBVIOUS
<1>18. (\E S : rs \in Seq(S)) /\ Len(rs) = N - 1
  BY <1>2, <1>3, <1>6, <1>17 DEF RtspInv
<1>19. ASSUME NEW n \in 1 .. Len(rs) PROVE Describes(rs[n], vs, n)
  <2>1. Describes(rs[n], us, n) /\ n \in 1 .. Len(us)
    BY <1>3, <1>6, <1>17, <1>18 DEF RtspInv
  <2>2. Describes(rs[n], Append(us, u), n)
    BY <1>8, <2>1, DescribesStays
  <2> QED BY <1>9, <2>2
<1>20. prevPTS' = StartOf(vs, N)
  BY <1>6, <1>7, <1>10, <1>15 DEF StartOf
<1> QED BY <1>2, <1>5, <1>9, <1>10, <1>13, <1>15, <1>16, <1>17, <1>18, <1>19, <1>20 DEF RtspInv

LEMMA RtspOtherStep ==
  ASSUME RtspInv, UNCHANGED <<units, prevPTS, params, callback, returned, frame>>
  PROVE  RtspInv'
<1>1. PICK us, pv, ps, cb, rs, fr :
        us = units /\ pv = prevPTS /\ ps = params /\ cb = callback /\ rs = returned /\ fr = frame
  OBVIOUS
<1> QED BY DEF RtspInv

LEMMA FrameReceivedStep ==
  ASSUME RtspInv, FrameReceived
  PROVE  RtspInv'
<1>1. /\ callback = "sending" /\ callback' = "ready" /\ returned' = Append(returned, frame)
      /\ UNCHANGED <<units, prevPTS, params, frame>>
  BY DEF FrameReceived
<1>2. PICK rs : rs = returned
  OBVIOUS
<1>3. PICK S : rs \in Seq(S)
  BY <1>2 DEF RtspInv
<1>4. PICK T : T = S \cup {frame}
  OBVIOUS
<1>5. frame \in T /\ rs \in Seq(T)
  BY <1>3, <1>4
<1>6. PICK ts : ts = Append(rs, frame)
  OBVIOUS
<1>7. ts \in Seq(T) /\ Len(ts) = Len(rs) + 1 /\ ts[Len(rs) + 1] = frame /\ \A n \in 1 .. Len(rs) : ts[n] = rs[n]
  BY <1>5, <1>6
<1>8. Len(rs) \in Nat /\ Len(units) = Len(rs) + 1 /\ Describes(frame, units, Len(units))
  BY <1>1, <1>2, <1>3 DEF RtspInv
<1>9. ASSUME NEW n \in 1 .. Len(ts) PROVE Describes(ts[n], units, n)
  <2>1. CASE n \in 1 .. Len(rs)
    BY <1>2, <1>7, <2>1 DEF RtspInv
  <2>2. CASE n = Len(rs) + 1
    BY <1>7, <1>8, <2>2
  <2> QED BY <1>7, <1>8, <2>1, <2>2
<1>10. returned' = ts
  BY <1>1, <1>2, <1>6
<1>11. \E X : ts \in Seq(X)
  BY <1>7
<1> QED BY <1>1, <1>7, <1>8, <1>9, <1>10, <1>11 DEF RtspInv

LEMMA RtspStep == RtspInv /\ [Next]_vars => RtspInv'
<1> SUFFICES ASSUME RtspInv, [Next]_vars PROVE RtspInv'
  OBVIOUS
<1>1. CASE AccessUnit
  BY <1>1, AccessUnitStep
<1>2. CASE FrameReceived
  BY <1>2, FrameReceivedStep
<1>3. CASE UNCHANGED rtspVars
  BY <1>3, RtspOtherStep DEF rtspVars
<1>4. CASE NewMonitorFails \/ NewMonitorPlays \/ RtspGetFrame \/ RtspTimeout \/ RtspShutDown \/ Closed
  BY <1>4, RtspOtherStep
     DEF NewMonitorFails, NewMonitorPlays, RtspGetFrame, RtspTimeout, RtspShutDown, Closed
<1> QED BY <1>1, <1>2, <1>3, <1>4 DEF Next, vars, RtspNext, RtspTask

\* Each frame of an RTSP camera is made of one access unit, marked and completed with
\* the latest parameter sets as it says (rtsp/monitor.go, buildH265Frame), for any
\* access units and however the callback and the stream's task interleave.
THEOREM FramesAreDescribed == Spec => []FramesDescribeTheStream
<1>1. Init => RtspInv
  <2> SUFFICES ASSUME Init PROVE RtspInv
    OBVIOUS
  <2>1. /\ units = <<>> /\ returned = <<>> /\ prevPTS = 0 /\ callback = "ready"
        /\ params = [t \in ParameterSets |-> <<>>]
    BY DEF Init, RtspInit
  <2>2. units \in Seq(Unit) /\ Len(units) = 0 /\ returned \in Seq({}) /\ Len(returned) = 0
    BY <2>1
  <2>3. \A t : LatestIn(units, 0, t) = <<>>
    BY DEF LatestIn, Having
  <2>4. prevPTS = StartOf(units, 0) /\ prevPTS \in Nat
    BY <2>1 DEF StartOf
  <2>5. \E S : returned \in Seq(S)
    BY <2>2
  <2> QED BY <2>1, <2>2, <2>3, <2>4, <2>5 DEF RtspInv
<1>2. RtspInv => FramesDescribeTheStream
  <2> SUFFICES ASSUME RtspInv, NEW n \in DOMAIN returned, returned[n] # Nil
               PROVE  LET f == returned[n]  au == NalusOf(n)
                      IN  /\ f.key = IsRandomAccess(au)
                          /\ f.data = (IF f.key THEN <<LatestUpTo(n, "VPS"), LatestUpTo(n, "SPS"), LatestUpTo(n, "PPS")>>
                                                ELSE <<>>) \o Filtered(au)
                          /\ f.duration = units[n].pts - (IF n = 1 THEN 0 ELSE units[n - 1].pts)
    BY DEF FramesDescribeTheStream
  <2>1. n \in 1 .. Len(returned)
    BY DEF RtspInv
  <2>2. Describes(returned[n], units, n)
    BY <2>1 DEF RtspInv
  <2>3. \A t : LatestUpTo(n, t) = LatestIn(units, n, t)
    BY DEF LatestUpTo, LatestIn, Having
  <2>4. NalusOf(n) = AuOf(units, n)
    BY DEF NalusOf, AuOf
  <2>5. (IF n = 1 THEN 0 ELSE units[n - 1].pts) = StartOf(units, n - 1)
    BY <2>1 DEF StartOf
  <2>6. PICK f : f = returned[n]
    OBVIOUS
  <2>7. PICK au : au = AuOf(units, n)
    OBVIOUS
  <2>8. /\ f.key = IsRandomAccess(au) /\ f.duration = units[n].pts - StartOf(units, n - 1)
        /\ f.data = (IF f.key THEN <<LatestIn(units, n, "VPS"), LatestIn(units, n, "SPS"), LatestIn(units, n, "PPS")>>
                              ELSE <<>>) \o Filtered(au)
    BY <2>2, <2>6, <2>7, Zenon DEF Describes
  <2>9. /\ LatestUpTo(n, "VPS") = LatestIn(units, n, "VPS") /\ LatestUpTo(n, "SPS") = LatestIn(units, n, "SPS")
        /\ LatestUpTo(n, "PPS") = LatestIn(units, n, "PPS")
    BY <2>3
  <2> QED BY <2>4, <2>5, <2>6, <2>7, <2>8, <2>9
<1> QED BY <1>1, <1>2, RtspStep, PTL DEF Spec

----------------------------------------------------------------------------
(* DVRIP: packets and pieces of a frame *)

Cell == Nat \X Nat
Replies == {"LOGIN_RSP", "CLAIM_RSP", "KEEPALIVE_RSP"}
Codes == Replies \cup {"MONITOR_DATA", "ZERO"}
Rets == {"", "ok", "refused", "password"}
Packet == [code : Codes, total : Nat, cur : Nat, ret : Rets, data : Seq(Cell)]
Sizes == {sizes \in Seq(Nat) : sizes # <<>> /\ \A i \in 1 .. Len(sizes) : sizes[i] > 0}

\* Ends adds the sizes up.
LEMMA EndsAre ==
  ASSUME NEW sizes \in Seq(Nat)
  PROVE  /\ Ends(sizes) \in [0 .. Len(sizes) -> Nat] /\ Ends(sizes)[0] = 0
         /\ \A i \in 1 .. Len(sizes) : Ends(sizes)[i] = Ends(sizes)[i - 1] + sizes[i]
<1>1. PICK N \in Nat : N = Len(sizes)
  OBVIOUS
<1>2. PICK step : step = [k \in 1 .. N |-> [m \in Nat |-> m + sizes[k]]]
  OBVIOUS
<1>3. step \in [1 .. N -> [Nat -> Nat]]
  <2>1. ASSUME NEW k \in 1 .. N, NEW m \in Nat PROVE m + sizes[k] \in Nat
    <3>1. sizes[k] \in Nat
      BY <1>1
    <3> QED BY <3>1
  <2> QED BY <1>2, <2>1
<1>4. PICK f \in [0 .. N -> Nat] : f[0] = 0 /\ \A k \in 1 .. N : f[k] = step[k][f[k - 1]]
  <2>1. Recursion(N, Nat, 0, step)
    BY <1>3, FunctionFromZero
  <2> QED BY <2>1 DEF Recursion
<1>5. ASSUME NEW k \in 1 .. N PROVE f[k] = f[k - 1] + sizes[k]
  <2>1. f[k - 1] \in Nat
    <3>1. k - 1 \in 0 .. N
      OBVIOUS
    <3> QED BY <1>4, <3>1
  <2>2. step[k] = [m \in Nat |-> m + sizes[k]]
    BY <1>2
  <2>3. step[k][f[k - 1]] = f[k - 1] + sizes[k]
    BY <2>1, <2>2
  <2> QED BY <1>4, <2>3
<1> DEFINE Is(g) == g = [i \in 0 .. Len(sizes) |-> IF i = 0 THEN 0 ELSE g[i - 1] + sizes[i]]
           ends == CHOOSE g : Is(g)
<1>6. Ends(sizes) = ends
  BY DEF Ends
<1>7. \E g : Is(g)
  <2>1. \A i \in 0 .. N : f[i] = IF i = 0 THEN 0 ELSE f[i - 1] + sizes[i]
    BY <1>4, <1>5
  <2>2. f = [i \in 0 .. N |-> IF i = 0 THEN 0 ELSE f[i - 1] + sizes[i]]
    BY <1>4, <2>1
  <2> QED BY <1>1, <2>2
<1>8. Is(ends)
  <2> HIDE DEF Is
  <2> QED BY <1>7, Zenon
<1> HIDE DEF ends
<1>9. ends[0] = 0 /\ \A i \in 1 .. N : ends[i] = ends[i - 1] + sizes[i]
  <2>1. ends = [i \in 0 .. N |-> IF i = 0 THEN 0 ELSE ends[i - 1] + sizes[i]]
    BY <1>1, <1>8, Zenon
  <2>2. \A i \in 0 .. N : ends[i] = IF i = 0 THEN 0 ELSE ends[i - 1] + sizes[i]
    BY <2>1, Zenon
  <2>3. 0 \in 0 .. N /\ \A i \in 1 .. N : i \in 0 .. N /\ i # 0
    OBVIOUS
  <2>4. ends[0] = 0
    BY <2>2, <2>3, Zenon
  <2>5. \A i \in 1 .. N : ends[i] = ends[i - 1] + sizes[i]
    BY <2>2, <2>3, Zenon
  <2> QED BY <2>4, <2>5
<1> DEFINE T == {i \in Nat : i <= N => ends[i] \in Nat}
<1>10. 0 \in T
  BY <1>9
<1>11. ASSUME NEW n \in Nat, n \in T PROVE n + 1 \in T
  <2> SUFFICES ASSUME n + 1 <= N PROVE ends[n + 1] \in Nat
    OBVIOUS
  <2>1. n + 1 \in 1 .. N /\ (n + 1) - 1 = n /\ ends[n] \in Nat
    BY <1>11
  <2>2. sizes[n + 1] \in Nat
    BY <1>1, <2>1
  <2>3. ends[n + 1] = ends[n] + sizes[n + 1]
    BY <1>9, <2>1
  <2>4. PICK a \in Nat, b \in Nat : a = ends[n] /\ b = sizes[n + 1]
    BY <2>1, <2>2
  <2>5. ends[n + 1] = a + b
    BY <2>3, <2>4, Zenon
  <2> QED BY <2>5
<1> HIDE DEF T
<1>12. \A n \in Nat : n \in T
  BY <1>10, <1>11, NumbersFromZero
<1>13. \A i \in 0 .. N : ends[i] \in Nat
  BY <1>12 DEF T
<1>14. ends = [i \in 0 .. N |-> ends[i]]
  BY <1>1, <1>8
<1>15. ends \in [0 .. N -> Nat]
  BY <1>13, <1>14
<1> QED BY <1>1, <1>6, <1>9, <1>15

LEMMA ElementIn == ASSUME NEW S, NEW s \in Seq(S), NEW i \in 1 .. Len(s) PROVE s[i] \in S
  OBVIOUS

LEMMA EndsType == ASSUME NEW sizes \in Seq(Nat), NEW i \in 0 .. Len(sizes) PROVE Ends(sizes)[i] \in Nat
<1>1. PICK e, N : e = Ends(sizes) /\ N = 0 .. Len(sizes)
  OBVIOUS
<1>2. e \in [N -> Nat] /\ i \in N
  BY <1>1, EndsAre, Zenon
<1>3. e[i] \in Nat
  BY ONLY <1>2
<1> QED BY <1>1, <1>3, Zenon

\* The sums grow: a number is before the end of the packets after its own.
LEMMA EndsGrow ==
  ASSUME NEW sizes \in Sizes, NEW i \in 1 .. Len(sizes)
  PROVE  Ends(sizes)[i] > 0
<1>1. sizes \in Seq(Nat) /\ \A k \in 1 .. Len(sizes) : sizes[k] > 0
  BY DEF Sizes
<1>2. sizes[i] > 0 /\ sizes[i] \in Nat /\ i - 1 \in 0 .. Len(sizes)
  BY <1>1
<1>3. Ends(sizes)[i] = Ends(sizes)[i - 1] + sizes[i] /\ Ends(sizes)[i - 1] \in Nat
  BY <1>1, <1>2, EndsAre
<1> QED BY <1>2, <1>3

\* k packets of P after the first a.
Piece(P, a, k) == [x \in 1 .. k |-> P[a + x]]

\* P is a sequence of L packets, of which these are some.
Within(P, L, a, k) == L \in Nat /\ P \in [1 .. L -> Packet] /\ a \in Nat /\ k \in Nat /\ a + k <= L

\* The b-th packet is the one after those, with which there are n.
Follows(L, a, k, n, b) == n \in Nat /\ n = k + 1 /\ b \in 1 .. L /\ b = a + n

IsPiece(q, P, a, k) == q \in Seq(Packet) /\ Len(q) = k /\ \A x \in 1 .. k : q[x] = P[a + x]

LEMMA PieceType ==
  ASSUME NEW L, NEW P, NEW a, NEW k, Within(P, L, a, k)
  PROVE  IsPiece(Piece(P, a, k), P, a, k)
<1> USE DEF Within
<1> DEFINE S == Packet
<1>1. L \in Nat /\ P \in [1 .. L -> S] /\ a \in Nat /\ k \in Nat /\ a + k <= L
  OBVIOUS
<1> HIDE DEF S
<1>2. \A x \in 1 .. k : P[a + x] \in S
  <2>1. \A x \in 1 .. k : a + x \in 1 .. L
    BY <1>1
  <2> QED BY <1>1, <2>1
<1>3. PICK q : q = [x \in 1 .. k |-> P[a + x]]
  OBVIOUS
<1>4. q \in Seq(S) /\ Len(q) = k /\ \A x \in 1 .. k : q[x] = P[a + x]
  BY <1>1, <1>2, <1>3
<1> QED BY <1>3, <1>4 DEF Piece, IsPiece, S

LEMMA PieceNone == ASSUME NEW P, NEW a PROVE Piece(P, a, 0) = <<>>
  BY DEF Piece

LEMMA PieceAppend ==
  ASSUME NEW L, NEW P, NEW a, NEW k, Within(P, L, a, k), NEW n, NEW b, Follows(L, a, k, n, b)
  PROVE  /\ Append(Piece(P, a, k), P[b]) = Piece(P, a, n)
         /\ Within(P, L, a, n)
<1> DEFINE S == Packet
<1>1. L \in Nat /\ P \in [1 .. L -> S] /\ a \in Nat /\ k \in Nat /\ a + k <= L
      /\ n \in Nat /\ n = k + 1 /\ b \in 1 .. L /\ b = a + n
  BY DEF Within, Follows
<1>2. Within(P, L, a, n)
  <2>1. a + n <= L
    BY <1>1
  <2> QED BY <1>1, <2>1 DEF Within
<1>3. PICK q \in Seq(S) : q = Piece(P, a, k) /\ Len(q) = k /\ \A x \in 1 .. k : q[x] = P[a + x]
  BY PieceType DEF IsPiece
<1>4. PICK w \in Seq(S) : w = Piece(P, a, n) /\ Len(w) = n /\ \A x \in 1 .. n : w[x] = P[a + x]
  BY <1>2, PieceType DEF IsPiece
<1> HIDE DEF S
<1>5. PICK p \in S : p = P[b]
  BY <1>1
<1>6. PICK t : t = Append(q, p)
  OBVIOUS
<1>7. t \in Seq(S) /\ Len(t) = n /\ t[n] = p /\ \A x \in 1 .. k : t[x] = q[x]
  BY <1>1, <1>3, <1>5, <1>6
<1>8. ASSUME NEW x \in 1 .. n PROVE t[x] = w[x]
  <2>1. CASE x \in 1 .. k
    BY <1>3, <1>4, <1>7, <2>1
  <2>2. CASE x = n
    <3>1. w[x] = P[a + x] /\ a + x = b
      BY <1>1, <1>4, <2>2
    <3> QED BY <1>5, <1>7, <2>2, <3>1
  <2> QED BY <1>1, <2>1, <2>2
<1>9. t = w
  BY <1>1, <1>4, <1>7, <1>8
<1> QED BY <1>2, <1>3, <1>4, <1>5, <1>6, <1>9, Zenon

\* Without the first of the packets there are m after the first b.
Leaves(a, k, b, m) == k > 0 /\ b = a + 1 /\ m = k - 1
Peels(P, a, k, b, m) == Head(Piece(P, a, k)) = P[b] /\ Tail(Piece(P, a, k)) = Piece(P, b, m)

LEMMA PieceTail ==
  ASSUME NEW L, NEW P, NEW a, NEW k, Within(P, L, a, k), NEW b, NEW m, Leaves(a, k, b, m)
  PROVE  Peels(P, a, k, b, m)
<1> DEFINE S == Packet
<1>1. L \in Nat /\ P \in [1 .. L -> S] /\ a \in Nat /\ k \in Nat /\ a + k <= L /\ k > 0 /\ b = a + 1 /\ m = k - 1
  BY DEF Within, Leaves
<1>2. Within(P, L, b, m)
  <2>1. b \in Nat /\ m \in Nat /\ b + m <= L
    BY <1>1
  <2> QED BY <1>1, <2>1 DEF Within
<1>3. PICK q \in Seq(S) : q = Piece(P, a, k) /\ Len(q) = k /\ \A x \in 1 .. k : q[x] = P[a + x]
  BY PieceType DEF IsPiece
<1>4. PICK w \in Seq(S) : w = Piece(P, b, m) /\ Len(w) = m /\ \A x \in 1 .. m : w[x] = P[b + x]
  BY <1>2, PieceType DEF IsPiece
<1> HIDE DEF S
<1>5. PICK t : t = Tail(q)
  OBVIOUS
<1>6. t \in Seq(S) /\ Len(t) = m /\ \A x \in 1 .. m : t[x] = q[x + 1]
  BY <1>1, <1>3, <1>5
<1>7. ASSUME NEW x \in 1 .. m PROVE t[x] = w[x]
  <2>1. b + x = a + (x + 1) /\ x + 1 \in 1 .. k
    BY <1>1
  <2> QED BY <1>3, <1>4, <1>6, <2>1
<1>8. t = w
  BY <1>1, <1>4, <1>6, <1>7
<1>9. Head(q) = P[b]
  <2>1. Head(q) = q[1] /\ 1 \in 1 .. k
    BY <1>1, <1>3
  <2>2. q[1] = P[a + 1]
    BY <1>3, <2>1
  <2> QED BY <1>1, <2>1, <2>2
<1> QED BY <1>3, <1>4, <1>5, <1>8, <1>9, Zenon DEF Peels

LEMMA PieceAll ==
  ASSUME NEW L \in Nat, NEW P \in [1 .. L -> Packet] PROVE Piece(P, 0, L) = P /\ Within(P, L, 0, L)
<1> DEFINE S == Packet
<1> HIDE DEF S
<1>1. P \in [1 .. L -> S]
  BY DEF S
<1>2. PICK q : q = [x \in 1 .. L |-> P[0 + x]]
  OBVIOUS
<1>3. q = P
  <2>1. q \in [1 .. L -> S] /\ \A x \in 1 .. L : q[x] = P[x]
    BY <1>1, <1>2
  <2> QED BY <1>1, <2>1
<1> QED BY <1>2, <1>3 DEF Piece, Within

Pk(fs, n) == IF n = 0 THEN <<>> ELSE PacketsOf(n, fs[n].sizes)
LenOf(fs, n) == IF n = 0 THEN 0 ELSE Len(fs[n].sizes)

LEMMA ShapeSizes == ASSUME NEW s \in Shapes PROVE s.sizes \in Sizes /\ s.sizes \in Seq(Nat) /\ Len(s.sizes) \in Nat \ {0}
<1>1. s.sizes \in Seq(1 .. FullSize) /\ s.sizes # <<>> /\ FullSize \in Nat
  BY DvripAssumption
<1>2. PICK z \in Seq(1 .. FullSize) : z = s.sizes
  BY <1>1
<1>3. z \in Seq(Nat) /\ z # <<>> /\ Len(z) \in Nat \ {0} /\ \A i \in 1 .. Len(z) : z[i] > 0
  BY <1>1, <1>2
<1> QED BY <1>2, <1>3 DEF Sizes

CellsOfNumber(c, m) == c \in Seq(Cell) /\ Len(c) = m

LEMMA CellsType ==
  ASSUME NEW n \in Nat, NEW a \in Nat, NEW m \in Nat
  PROVE  CellsOfNumber([j \in 1 .. m |-> <<n, a + j - 1>>], m)
<1> DEFINE c == [j \in 1 .. m |-> <<n, a + j - 1>>]
<1>1. \A j \in 1 .. m : a + j - 1 \in Nat
  OBVIOUS
<1>2. \A j \in 1 .. m : <<n, a + j - 1>> \in Cell
  BY <1>1 DEF Cell
<1> HIDE DEF Cell
<1>3. c \in [1 .. m -> Cell]
  BY <1>2
<1>4. ASSUME NEW S, NEW q \in [1 .. m -> S] PROVE q \in Seq(S) /\ Len(q) = m
  OBVIOUS
<1> HIDE DEF c
<1>5. c \in Seq(Cell) /\ Len(c) = m
  BY <1>3, <1>4, Zenon
<1>6. CellsOfNumber(c, m)
  BY <1>5, Zenon DEF CellsOfNumber
<1> QED BY <1>6 DEF c

PacketIs(p, n, s, i) ==
  /\ p \in Packet /\ IsMedia(p) /\ (IsLast(p) <=> i = Len(s.sizes)) /\ (IsSingle(p) => i = Len(s.sizes))
  /\ p.data = [j \in 1 .. s.sizes[i] |-> <<n, Ends(s.sizes)[i - 1] + j - 1>>]

LEMMA PacketsAre ==
  ASSUME NEW n \in Nat, NEW s \in Shapes, NEW i \in 1 .. Len(s.sizes)
  PROVE  PacketIs(PacketsOf(n, s.sizes)[i], n, s, i)
<1>1. PICK z \in Seq(Nat) : z = s.sizes /\ Len(z) \in Nat \ {0} /\ z \in Sizes
  BY ShapeSizes
<1>2. PICK c : c = [j \in 1 .. z[i] |-> <<n, Ends(z)[i - 1] + j - 1>>]
  OBVIOUS
<1>3. PICK end \in {0, 1} : end = (IF i = Len(z) THEN 1 ELSE 0)
  OBVIOUS
<1>4. PICK p : p = Media(c, end)
  OBVIOUS
<1>5. PacketsOf(n, z)[i] = p
  BY <1>1, <1>2, <1>3, <1>4 DEF PacketsOf
<1>6. c \in Seq(Cell) /\ Len(c) = z[i]
  <2>1. i - 1 \in 0 .. Len(z)
    BY <1>1
  <2>2. PICK a \in Nat : a = Ends(z)[i - 1]
    BY <1>1, <2>1, EndsType
  <2>3. PICK m \in Nat : m = z[i]
    BY <1>1
  <2>4. c = [j \in 1 .. m |-> <<n, a + j - 1>>]
    BY <1>2, <2>2, <2>3, Zenon
  <2>5. c \in Seq(Cell) /\ Len(c) = m
    <3>1. CellsOfNumber(c, m)
      BY <2>2, <2>3, <2>4, CellsType, Zenon
    <3> QED BY <3>1, Zenon DEF CellsOfNumber
  <2> QED BY <2>3, <2>5
<1>7. p.code = "MONITOR_DATA" /\ p.data = c /\ p.cur = end /\ p.total = 0 /\ p.ret = ""
  BY <1>4 DEF Media
<1>8. p \in Packet
  <2>1. p = [code |-> "MONITOR_DATA", total |-> 0, cur |-> end, ret |-> "", data |-> c]
    BY <1>4, Zenon DEF Media
  <2>2. "MONITOR_DATA" \in Codes /\ "" \in Rets /\ 0 \in Nat /\ end \in Nat
    BY <1>3 DEF Codes, Rets
  <2> QED BY <1>6, <2>1, <2>2, Zenon DEF Packet
<1>9. IsMedia(p)
  BY <1>7 DEF IsMedia
<1>10. i < Len(z) => z[i] \in {OtherSize, FullSize}
  BY <1>1, DvripAssumption
<1>11. IsSingle(p) => i = Len(z)
  <2>1. IsSingle(p) => Len(c) < FullSize /\ Len(c) # OtherSize
    BY <1>7, <1>9, Zenon DEF IsSingle
  <2>2. FullSize \in Nat
    BY DvripAssumption
  <2>3. i < Len(z) => ~(z[i] < FullSize /\ z[i] # OtherSize)
    BY <1>10, <2>2
  <2> QED BY <1>1, <1>6, <2>1, <2>3
<1>12. IsLast(p) <=> i = Len(z)
  <2>1. IsLast(p) <=> (IsSingle(p) \/ p.cur = 1)
    BY <1>9, Zenon DEF IsLast
  <2>2. p.cur = 1 <=> i = Len(z)
    <3>1. CASE i = Len(z)
      BY <1>3, <1>7, <3>1
    <3>2. CASE i # Len(z)
      <4>1. end = 0
        BY <1>3, <3>2, Zenon
      <4>2. p.cur = 0
        BY <1>7, <4>1, Zenon
      <4>3. p.cur # 1
        BY <4>2
      <4> QED BY <3>2, <4>3, Zenon
    <3> QED BY <3>1, <3>2
  <2> QED BY <1>11, <2>1, <2>2
<1>13. PacketIs(p, n, s, i)
  <2>1. p.data = [j \in 1 .. s.sizes[i] |-> <<n, Ends(s.sizes)[i - 1] + j - 1>>]
    BY <1>1, <1>2, <1>7, Zenon
  <2> QED BY <1>1, <1>8, <1>9, <1>11, <1>12, <2>1, Zenon DEF PacketIs
<1> QED BY <1>1, <1>5, <1>13, Zenon

LEMMA PkAre ==
  ASSUME NEW fs \in Seq(Shapes), NEW n \in 0 .. Len(fs)
  PROVE  LenOf(fs, n) \in Nat /\ Pk(fs, n) \in [1 .. LenOf(fs, n) -> Packet] /\ (n # 0 => LenOf(fs, n) > 0)
<1>1. CASE n = 0
  BY <1>1 DEF Pk, LenOf
<1>2. CASE n # 0
  <2>1. PICK s \in Shapes : s = fs[n]
    BY <1>2
  <2>2. Len(s.sizes) \in Nat \ {0} /\ s.sizes \in Seq(Nat)
    BY ShapeSizes
  <2>3. ASSUME NEW i \in 1 .. Len(s.sizes) PROVE PacketsOf(n, s.sizes)[i] \in Packet
    <3>1. n \in Nat
      OBVIOUS
    <3> QED BY <3>1, PacketsAre, Zenon DEF PacketIs
  <2>4. PICK q : q = PacketsOf(n, s.sizes)
    OBVIOUS
  <2>5. q = [i \in 1 .. Len(s.sizes) |-> q[i]]
    <3>1. DOMAIN s.sizes = 1 .. Len(s.sizes)
      BY <2>2
    <3> QED BY <2>4, <3>1 DEF PacketsOf
  <2>6. q \in [1 .. Len(s.sizes) -> Packet]
    BY <2>3, <2>4, <2>5
  <2>7. Pk(fs, n) = q /\ LenOf(fs, n) = Len(s.sizes)
    BY <1>2, <2>1, <2>4 DEF Pk, LenOf
  <2> QED BY <2>2, <2>6, <2>7
<1> QED BY <1>1, <1>2

LEMMA PkStays ==
  ASSUME NEW fs \in Seq(Shapes), NEW s \in Shapes, NEW n \in 0 .. Len(fs)
  PROVE  Pk(Append(fs, s), n) = Pk(fs, n) /\ LenOf(Append(fs, s), n) = LenOf(fs, n)
<1>1. n # 0 => Append(fs, s)[n] = fs[n]
  OBVIOUS
<1> QED BY <1>1 DEF Pk, LenOf

----------------------------------------------------------------------------
(* DVRIP: types *)

DvripTypes ==
  /\ pc \in {"new", "idle", "raw", "header", "data", "failed", "ended", "crashed"}
  /\ wants \in {"login", "claim", "frame"}
  /\ message \in Seq(Packet) /\ wire \in Seq(Packet) /\ Len(wire) <= 1 /\ sending \in Seq(Packet)
  /\ pc = "data" => head \in Packet
  /\ aligned \in BOOLEAN /\ claimDone \in BOOLEAN /\ ticked \in BOOLEAN
  /\ interval \in Nat /\ elapsed \in Nat /\ silent \in Nat
  /\ owes \in Seq(Replies) /\ frames \in Seq(Shapes) /\ cut \in SUBSET Nat
  /\ delivered \in Seq(Seq(Cell))
  /\ conn \in {"none", "open", "lost", "closed"}

Phases ==
  /\ pc \in {"header", "data"} => (claimDone <=> wants = "frame")
  /\ pc = "raw" => claimDone
  /\ pc = "new" => ~claimDone /\ conn = "none"
  /\ pc \in {"idle", "raw", "header", "data"} => conn \in {"open", "lost"}
  /\ pc \in {"raw", "idle"} => message = <<>>
  /\ pc \in {"header", "data"} /\ wants = "login" => message = <<>>
  /\ ~claimDone => frames = <<>> /\ delivered = <<>>

LEMMA DataType == ASSUME NEW ps \in Seq(Packet) PROVE DataOf(ps) \in Seq(Cell)
<1>1. PICK ss : ss = [i \in DOMAIN ps |-> ps[i].data]
  OBVIOUS
<1>2. ss \in Seq(Seq(Cell))
  <2>1. \A i \in DOMAIN ps : ps[i].data \in Seq(Cell)
    <3>1. \A p \in Packet : p.data \in Seq(Cell)
      BY Zenon DEF Packet
    <3>2. \A i \in DOMAIN ps : ps[i] \in Packet
      OBVIOUS
    <3> QED BY <3>1, <3>2
  <2>2. DOMAIN ps = 1 .. Len(ps) /\ Len(ps) \in Nat
    OBVIOUS
  <2> QED BY <1>1, <2>1, <2>2
<1>3. FlattenSeq(ss) \in Seq(Cell)
  BY <1>2, FlattenType
<1> QED BY <1>1, <1>3 DEF DataOf

LEMMA ReplyType ==
  ASSUME NEW r, NEW q \in ReplyPackets(r), r \in Replies
  PROVE  q \in Seq(Packet) /\ Len(q) \in {1, 2} /\ q # <<>>
<1>1. <<>> \in Seq(Cell)
  OBVIOUS
<1>2. \A code \in Replies, total \in Nat, cur \in Nat, ret \in Rets : Control(code, total, cur, ret) \in Packet
  <2>1. \A code \in Replies : code \in Codes
    BY DEF Codes
  <2> QED BY <1>1, <2>1, Zenon DEF Control, Packet
<1>3. \A a \in Packet, b \in Packet : <<a>> \in Seq(Packet) /\ <<a, b>> \in Seq(Packet)
  OBVIOUS
<1>4. CASE r = "LOGIN_RSP"
  <2>1. PICK ret \in {"ok", "password", "refused"} : q = <<Control(r, 0, 0, ret)>>
    BY <1>4 DEF ReplyPackets
  <2>2. Control(r, 0, 0, ret) \in Packet
    <3>1. 0 \in Nat /\ ret \in Rets
      BY DEF Rets
    <3> QED BY <1>2, <3>1, Zenon
  <2> QED BY <1>3, <2>1, <2>2
<1>5. CASE r = "CLAIM_RSP"
  <2>1. q = <<Control(r, 1, 0, "ok")>> \/ q = <<Control(r, 2, 0, "ok"), Control(r, 2, 1, "ok")>>
    BY <1>5 DEF ReplyPackets
  <2>2. /\ Control(r, 1, 0, "ok") \in Packet /\ Control(r, 2, 0, "ok") \in Packet
        /\ Control(r, 2, 1, "ok") \in Packet
    <3>1. 0 \in Nat /\ 1 \in Nat /\ 2 \in Nat /\ "ok" \in Rets
      BY DEF Rets
    <3> QED BY <1>2, <3>1, Zenon
  <2>3. /\ <<Control(r, 1, 0, "ok")>> \in Seq(Packet)
        /\ <<Control(r, 2, 0, "ok"), Control(r, 2, 1, "ok")>> \in Seq(Packet)
    BY <1>3, <2>2, Zenon
  <2>4. CASE q = <<Control(r, 1, 0, "ok")>>
    BY <2>3, <2>4
  <2>5. CASE q = <<Control(r, 2, 0, "ok"), Control(r, 2, 1, "ok")>>
    BY <2>3, <2>5
  <2> QED BY <2>1, <2>4, <2>5
<1>6. CASE r = "KEEPALIVE_RSP"
  <2>1. q = <<Control(r, 0, 0, "ok")>>
    BY <1>6 DEF ReplyPackets
  <2>2. Control(r, 0, 0, "ok") \in Packet
    <3>1. 0 \in Nat /\ "ok" \in Rets
      BY DEF Rets
    <3> QED BY <1>2, <3>1, Zenon
  <2> QED BY <1>3, <2>1, <2>2
<1> QED BY <1>4, <1>5, <1>6 DEF Replies

LEMMA AppendReply == ASSUME NEW S, NEW q \in Seq(S), NEW a \in S PROVE Append(q, a) \in Seq(S)
  OBVIOUS

LEMMA HeadTail == ASSUME NEW S, NEW q \in Seq(S), q # <<>> PROVE q[1] \in S /\ Head(q) \in S /\ <<Head(q)>> \in Seq(S) /\ <<q[1]>> \in Seq(S) /\ Tail(q) \in Seq(S)
  OBVIOUS

LEMMA NewFrame ==
  ASSUME NEW n \in Nat, NEW s \in Shapes
  PROVE  PacketsOf(n, s.sizes) \in Seq(Packet) /\ PacketsOf(n, s.sizes) # <<>> /\ Len(PacketsOf(n, s.sizes)) = Len(s.sizes)
<1>1. Len(s.sizes) \in Nat \ {0} /\ s.sizes \in Seq(Nat)
  BY ShapeSizes
<1>2. PICK q : q = PacketsOf(n, s.sizes)
  OBVIOUS
<1>3. q = [i \in 1 .. Len(s.sizes) |-> q[i]]
  <2>1. DOMAIN s.sizes = 1 .. Len(s.sizes)
    BY <1>1
  <2> QED BY <1>2, <2>1 DEF PacketsOf
<1>4. ASSUME NEW i \in 1 .. Len(s.sizes) PROVE q[i] \in Packet
  BY <1>2, PacketsAre, Zenon DEF PacketIs
<1>5. q \in Seq(Packet) /\ Len(q) = Len(s.sizes)
  <2>1. PICK L \in Nat : L = Len(s.sizes)
    BY <1>1
  <2>2. q \in [1 .. L -> Packet]
    BY <1>3, <1>4, <2>1
  <2> QED BY <2>1, <2>2
<1> QED BY <1>1, <1>2, <1>5

\* What ReadData does, as far as these proofs need it.
Packets == Append(message, head)
Kept ==
  /\ pc = "data" /\ ticked' = FALSE /\ wants' = wants
  /\ UNCHANGED <<aligned, conn, elapsed, wire, owes, frames, sending, cut>>

LoginRead ==
  /\ wants = "login" /\ message' = message /\ UNCHANGED <<claimDone, delivered, silent>>
  /\ \/ pc' = "ended" /\ interval' = interval
     \/ pc' = "idle" /\ interval' \in Intervals

\* It failed, or the program ended.
FailedRead ==
  /\ wants # "login" /\ pc' \in {"failed", "crashed"} /\ message' \in {message, <<>>}
  /\ UNCHANGED <<claimDone, delivered, silent, interval>>

MoreRead ==
  /\ wants # "login" /\ ~WrongOrdinal(Packets) /\ ~MessageEnds(Packets)
  /\ pc' = "header" /\ message' = Packets /\ UNCHANGED <<claimDone, delivered, silent, interval>>

ClaimRead ==
  /\ wants = "claim" /\ MessageEnds(Packets) /\ conn = "open"
  /\ pc' = "raw" /\ message' = <<>> /\ claimDone' = TRUE /\ silent' = 0
  /\ UNCHANGED <<delivered, interval>>

SkipRead ==
  /\ wants = "frame" /\ MessageEnds(Packets)
  /\ \/ head.code = "KEEPALIVE_RSP"
     \/ head.code = "MONITOR_DATA" /\ DataOf(Packets) # <<>> /\ ~Heads(DataOf(Packets))
  /\ pc' = "raw" /\ message' = <<>> /\ UNCHANGED <<claimDone, delivered, silent, interval>>

FrameRead ==
  /\ wants = "frame" /\ MessageEnds(Packets)
  /\ head.code = "MONITOR_DATA" /\ Heads(DataOf(Packets)) /\ LengthFits(DataOf(Packets))
  /\ pc' = "idle" /\ message' = <<>> /\ delivered' = Append(delivered, DataOf(Packets))
  /\ UNCHANGED <<claimDone, silent, interval>>

LEMMA TakeDoes ==
  ASSUME NEW code, NEW data, TakeMessage(code, data)
  PROVE  \/ pc' = "raw" /\ delivered' = delivered
            /\ (code = "KEEPALIVE_RSP" \/ (code = "MONITOR_DATA" /\ data # <<>> /\ ~Heads(data)))
         \/ pc' \in {"failed", "crashed"} /\ delivered' = delivered
         \/ pc' = "idle" /\ delivered' = Append(delivered, data)
            /\ code = "MONITOR_DATA" /\ Heads(data) /\ LengthFits(data)
<1>1. ASSUME MakeFrame(data)
      PROVE  \/ pc' \in {"failed", "crashed"} /\ delivered' = delivered
             \/ pc' = "idle" /\ delivered' = Append(delivered, data)
  <2>1. Refuse \/ Panic \/ \E p : Return(data, p)
    BY <1>1, Zenon DEF MakeFrame
  <2> QED BY <2>1, Zenon DEF Refuse, Fail, Panic, Return
<1>2. CASE code \notin {"KEEPALIVE_RSP", "MONITOR_DATA"} /\ Refuse
  BY <1>2, Zenon DEF Refuse, Fail
<1>3. CASE code = "MONITOR_DATA" /\ data = <<>> /\ Refuse
  BY <1>3, Zenon DEF Refuse, Fail
<1>4. CASE code = "MONITOR_DATA" /\ Heads(data) /\ (Panic \/ Refuse)
  BY <1>4, Zenon DEF Refuse, Fail, Panic
<1>5. CASE code = "MONITOR_DATA" /\ Heads(data) /\ LengthFits(data) /\ MakeFrame(data)
  BY <1>1, <1>5, Zenon
<1>6. CASE /\ code = "KEEPALIVE_RSP" \/ (code = "MONITOR_DATA" /\ data # <<>> /\ ~Heads(data))
           /\ pc' = "raw" /\ UNCHANGED <<err, delivered, pts>>
  BY <1>6, Zenon
<1> QED BY <1>2, <1>3, <1>4, <1>5, <1>6, Zenon DEF TakeMessage

LEMMA ReadDataDoes ==
  ASSUME ReadData
  PROVE  Kept /\ (LoginRead \/ FailedRead \/ MoreRead \/ ClaimRead \/ SkipRead \/ FrameRead)
<1>1. /\ pc = "data" /\ ticked' = FALSE
      /\ UNCHANGED <<aligned, conn, elapsed, wire, owes, frames, sending, cut>>
  BY DEF ReadData, camVars
<1>2. PICK ps : ps = Append(message, head)
  OBVIOUS
<1>3. \/ /\ wants = "login" /\ LoginAnswered(head)
         /\ UNCHANGED <<claimDone, pts, delivered, silent>>
      \/ /\ wants # "login" /\ WrongOrdinal(ps)
         /\ Fail("error") /\ UNCHANGED <<claimDone, pts, delivered, silent, interval, message, wants>>
      \/ /\ wants # "login" /\ ~WrongOrdinal(ps) /\ ~MessageEnds(ps)
         /\ message' = ps /\ pc' = "header"
         /\ UNCHANGED <<err, claimDone, pts, delivered, silent, interval, wants>>
      \/ /\ wants = "claim" /\ ~WrongOrdinal(ps) /\ MessageEnds(ps) /\ Claimed
         /\ message' = <<>> /\ UNCHANGED <<pts, delivered, interval, wants>>
      \/ /\ wants = "frame" /\ ~WrongOrdinal(ps) /\ MessageEnds(ps)
         /\ TakeMessage(head.code, DataOf(ps))
         /\ message' = <<>> /\ UNCHANGED <<claimDone, silent, interval, wants>>
  BY <1>2, Zenon DEF ReadData
<1>4. ps = Packets
  BY <1>2 DEF Packets
<1>5. CASE wants = "login" /\ LoginAnswered(head) /\ UNCHANGED <<claimDone, pts, delivered, silent>>
  <2>1. /\ wants' = wants /\ message' = message
        /\ \/ pc' = "ended" /\ interval' = interval
           \/ pc' = "idle" /\ interval' \in Intervals
    BY <1>5, Zenon DEF LoginAnswered, LoginFails
  <2> QED BY <1>1, <1>5, <2>1 DEF Kept, LoginRead
<1>6. CASE /\ wants # "login" /\ WrongOrdinal(ps)
           /\ Fail("error") /\ UNCHANGED <<claimDone, pts, delivered, silent, interval, message, wants>>
  BY <1>1, <1>6 DEF Kept, FailedRead, Fail
<1>7. CASE /\ wants # "login" /\ ~WrongOrdinal(ps) /\ ~MessageEnds(ps)
           /\ message' = ps /\ pc' = "header"
           /\ UNCHANGED <<err, claimDone, pts, delivered, silent, interval, wants>>
  BY <1>1, <1>4, <1>7 DEF Kept, MoreRead
<1>8. CASE /\ wants = "claim" /\ ~WrongOrdinal(ps) /\ MessageEnds(ps) /\ Claimed
           /\ message' = <<>> /\ UNCHANGED <<pts, delivered, interval, wants>>
  <2>1. \/ conn = "open" /\ claimDone' = TRUE /\ silent' = 0 /\ pc' = "raw"
        \/ pc' = "failed" /\ UNCHANGED <<claimDone, silent>>
    BY <1>8 DEF Claimed, Fail
  <2> QED BY <1>1, <1>4, <1>8, <2>1 DEF Kept, ClaimRead, FailedRead
<1>9. CASE /\ wants = "frame" /\ ~WrongOrdinal(ps) /\ MessageEnds(ps)
           /\ TakeMessage(head.code, DataOf(ps))
           /\ message' = <<>> /\ UNCHANGED <<claimDone, silent, interval, wants>>
  <2>1. PICK d : d = DataOf(ps)
    OBVIOUS
  <2>2. TakeMessage(head.code, d)
    BY <1>9, <2>1
  <2>3. CASE /\ pc' = "raw" /\ delivered' = delivered
             /\ (head.code = "KEEPALIVE_RSP" \/ (head.code = "MONITOR_DATA" /\ d # <<>> /\ ~Heads(d)))
    BY <1>1, <1>4, <1>9, <2>1, <2>3, Zenon DEF Kept, SkipRead
  <2>4. CASE pc' \in {"failed", "crashed"} /\ delivered' = delivered
    BY <1>1, <1>4, <1>9, <2>4 DEF Kept, FailedRead
  <2>5. CASE /\ pc' = "idle" /\ delivered' = Append(delivered, d)
             /\ head.code = "MONITOR_DATA" /\ Heads(d) /\ LengthFits(d)
    BY <1>1, <1>4, <1>9, <2>1, <2>5, Zenon DEF Kept, FrameRead
  <2> QED BY <2>2, <2>3, <2>4, <2>5, TakeDoes, Zenon
<1> QED BY <1>3, <1>5, <1>6, <1>7, <1>8, <1>9, Zenon

DvripInv == DvripTypes /\ Phases

LEMMA DialTypes == ASSUME DvripInv, DialFails \/ Dial PROVE DvripInv'
<1>1. CASE DialFails
  BY <1>1 DEF DialFails, DvripInv, DvripTypes, Phases, readVars, clockVars, camVars
<1>2. CASE Dial
  <2>1. owes' \in Seq(Replies) /\ silent' = 0
    BY <1>2 DEF Dial, Sent, DvripInv, DvripTypes, Replies
  <2>2. /\ pc = "new" /\ conn' = "open" /\ pc' = "header" /\ wants' = "login" /\ message' = <<>> /\ ticked' = FALSE
        /\ UNCHANGED <<head, aligned, err, claimDone, pts, interval, elapsed, wire, frames, sending, cut, delivered>>
    BY <1>2 DEF Dial, Expect
  <2>3. <<>> \in Seq(Packet)
    OBVIOUS
  <2>4. DvripTypes'
    BY <2>1, <2>2, <2>3 DEF DvripInv, DvripTypes
  <2>5. Phases'
    BY <2>2 DEF DvripInv, Phases
  <2> QED BY <2>4, <2>5 DEF DvripInv
<1> QED BY <1>1, <1>2

LEMMA CallTypes == ASSUME DvripInv, Claim \/ NextFrame \/ GetRawFrame PROVE DvripInv'
<1>1. CASE Claim
  <2>1. pc = "idle" /\ ~claimDone
        /\ UNCHANGED <<head, aligned, conn, claimDone, pts, interval, elapsed, wire, frames, sending, cut, delivered>>
    BY <1>1 DEF Claim
  <2>2. CASE conn = "open" /\ Expect("claim") /\ Sent("CLAIM_RSP") /\ UNCHANGED err
    <3>1. owes' \in Seq(Replies) /\ silent' = 0
      BY <2>2 DEF Sent, DvripInv, DvripTypes, Replies
    <3>2. pc' = "header" /\ wants' = "claim" /\ message' = <<>> /\ ticked' = FALSE
      BY <2>2 DEF Expect
    <3> QED BY <2>1, <3>1, <3>2 DEF DvripInv, DvripTypes, Phases
  <2>3. CASE Fail("error") /\ UNCHANGED <<wants, message, owes, silent, ticked>>
    BY <2>1, <2>3 DEF Fail, DvripInv, DvripTypes, Phases
  <2> QED BY <1>1, <2>2, <2>3, Zenon DEF Claim
<1>2. CASE NextFrame
  BY <1>2 DEF NextFrame, DvripInv, DvripTypes, Phases, readVars, camVars
<1>3. CASE GetRawFrame
  <2>1. owes' \in Seq(Replies) /\ silent' \in Nat /\ elapsed' \in Nat
    <3>1. CASE PingIsDue /\ conn = "open"
      <4>1. owes' = Append(owes, "KEEPALIVE_RSP") /\ silent' = 0 /\ elapsed' = 0
        BY <1>3, <3>1 DEF GetRawFrame, Sent
      <4> QED BY <4>1, AppendReply DEF DvripInv, DvripTypes, Replies
    <3>2. CASE ~(PingIsDue /\ conn = "open")
      BY <1>3, <3>2 DEF GetRawFrame, DvripInv, DvripTypes
    <3> QED BY <3>1, <3>2
  <2>2. /\ pc = "raw" /\ pc' = "header" /\ wants' = "frame" /\ message' = <<>> /\ ticked' = FALSE
        /\ UNCHANGED <<head, aligned, err, conn, claimDone, pts, interval, wire, frames, sending, cut, delivered>>
    BY <1>3 DEF GetRawFrame, Expect
  <2> QED BY <2>1, <2>2 DEF DvripInv, DvripTypes, Phases
<1> QED BY <1>1, <1>2, <1>3

LEMMA HeaderTypes ==
  ASSUME DvripInv, HeadFlagIsWrong \/ ReadHeader \/ ShortHeader \/ Timeout \/ ShutDown
  PROVE  DvripInv'
<1>1. CASE HeadFlagIsWrong \/ Timeout
  <2>1. /\ pc' \in {"ended", "failed"}
        /\ UNCHANGED <<readVars, conn, claimDone, pts, clockVars, camVars, delivered>>
    BY <1>1 DEF HeadFlagIsWrong, Timeout, Fail
  <2> QED BY <2>1 DEF DvripInv, DvripTypes, Phases, readVars, clockVars, camVars
<1>2. CASE ReadHeader
  <2>1. wire[1] \in Packet
    BY <1>2, HeadTail DEF ReadHeader, DvripInv, DvripTypes
  <2> QED BY <1>2, <2>1 DEF ReadHeader, DvripInv, DvripTypes, Phases
<1>3. CASE ShortHeader
  <2>1. wire[1] \in Packet
    BY <1>3, HeadTail DEF ShortHeader, DvripInv, DvripTypes
  <2>2. <<>> \in Seq(Cell) /\ "" \in Rets /\ "ZERO" \in Codes /\ 0 \in Nat
    BY DEF Rets, Codes
  <2>3. [wire[1] EXCEPT !.data = <<>>, !.ret = ""] \in Packet
    BY <2>1, <2>2, Zenon DEF Packet
  <2>4. Control("ZERO", 0, 0, "") \in Packet
    BY <2>2, Zenon DEF Control, Packet
  <2>5. head' \in Packet
    BY <1>3, <2>3, <2>4, Zenon DEF ShortHeader
  <2>6. /\ pc = "header" /\ aligned' = FALSE /\ wire' = <<>> /\ pc' = "data"
        /\ UNCHANGED <<wants, message, err, conn, claimDone, pts, interval, elapsed, silent, ticked,
                       owes, frames, sending, cut, delivered>>
    BY <1>3, Zenon DEF ShortHeader
  <2>7. wire' \in Seq(Packet) /\ Len(wire') <= 1
    BY <2>6
  <2>8. DvripTypes'
    BY <2>5, <2>6, <2>7 DEF DvripInv, DvripTypes
  <2>9. Phases'
    BY <2>6 DEF DvripInv, Phases
  <2> QED BY <2>8, <2>9 DEF DvripInv
<1>4. CASE ShutDown
  BY <1>4 DEF ShutDown, DvripInv, DvripTypes, Phases, readVars, clockVars, camVars
<1> QED BY <1>1, <1>2, <1>3, <1>4

LEMMA ReadTypes == ASSUME DvripInv, ReadData PROVE DvripInv'
<1>1. Kept
  BY ReadDataDoes
<1>2. Packets \in Seq(Packet)
  BY <1>1, AppendReply DEF Kept, Packets, DvripInv, DvripTypes
<1>3. delivered' \in Seq(Seq(Cell)) /\ interval' \in Nat /\ silent' \in Nat
  <2>1. CASE FrameRead
    <3>1. DataOf(Packets) \in Seq(Cell)
      BY <1>2, DataType
    <3>2. delivered' \in Seq(Seq(Cell))
      BY <2>1, <3>1, AppendReply DEF FrameRead, DvripInv, DvripTypes
    <3> QED BY <2>1, <3>2 DEF FrameRead, DvripInv, DvripTypes
  <2>2. CASE LoginRead
    <3>1. \A i \in Intervals : i \in Nat
      BY DvripAssumption
    <3> QED BY <2>2, <3>1 DEF LoginRead, DvripInv, DvripTypes
  <2>3. CASE FailedRead \/ MoreRead \/ ClaimRead \/ SkipRead
    BY <2>3 DEF FailedRead, MoreRead, ClaimRead, SkipRead, DvripInv, DvripTypes
  <2> QED BY <2>1, <2>2, <2>3, ReadDataDoes
<1>4. /\ pc' \in {"ended", "idle", "failed", "crashed", "header", "raw"} /\ message' \in Seq(Packet)
      /\ claimDone' \in BOOLEAN
  <2>1. <<>> \in Seq(Packet)
    OBVIOUS
  <2>2. CASE LoginRead
    BY <2>2 DEF LoginRead, DvripInv, DvripTypes
  <2>3. CASE FailedRead
    BY <2>1, <2>3 DEF FailedRead, DvripInv, DvripTypes
  <2>4. CASE MoreRead
    BY <1>2, <2>4 DEF MoreRead, DvripInv, DvripTypes
  <2>5. CASE ClaimRead \/ SkipRead \/ FrameRead
    BY <2>1, <2>5 DEF ClaimRead, SkipRead, FrameRead, DvripInv, DvripTypes
  <2> QED BY <2>2, <2>3, <2>4, <2>5, ReadDataDoes, Zenon
<1>5. DvripTypes'
  BY <1>1, <1>3, <1>4 DEF Kept, DvripInv, DvripTypes
<1>6. Phases'
  <2>1. pc = "data" /\ wants' = wants /\ frames' = frames /\ conn' = conn
    BY <1>1 DEF Kept
  <2>2. CASE LoginRead
    BY <2>1, <2>2 DEF LoginRead, DvripInv, Phases
  <2>3. CASE FailedRead
    BY <2>1, <2>3 DEF FailedRead, DvripInv, Phases
  <2>4. CASE MoreRead
    BY <2>1, <2>4 DEF MoreRead, DvripInv, Phases
  <2>5. CASE ClaimRead
    BY <2>1, <2>5 DEF ClaimRead, DvripInv, Phases
  <2>6. CASE SkipRead \/ FrameRead
    BY <2>1, <2>6 DEF SkipRead, FrameRead, DvripInv, Phases
  <2> QED BY <2>2, <2>3, <2>4, <2>5, <2>6, ReadDataDoes, Zenon
<1> QED BY <1>5, <1>6 DEF DvripInv

LEMMA CameraTypes ==
  ASSUME DvripInv, CameraSends \/ CameraReplies \/ ReplyGoesOn \/ ConnectionLost \/ Tick
  PROVE  DvripInv'
<1>1. CASE CameraSends
  <2>1. /\ claimDone
        /\ UNCHANGED <<pc, readVars, err, conn, claimDone, pts, clockVars, owes, cut, delivered>>
    BY <1>1 DEF CameraSends, Streaming
  <2>2. CASE /\ sending # <<>>
             /\ wire' = <<Head(sending)>> /\ sending' = Tail(sending) /\ UNCHANGED frames
    <3>1. wire' \in Seq(Packet) /\ Len(wire') <= 1 /\ sending' \in Seq(Packet) /\ frames' \in Seq(Shapes)
      BY <2>2, HeadTail DEF DvripInv, DvripTypes
    <3> QED BY <2>1, <3>1 DEF DvripInv, DvripTypes, Phases, readVars, clockVars
  <2>3. ASSUME NEW s \in Shapes, frames' = Append(frames, s),
               wire' = <<Head(PacketsOf(Len(frames) + 1, s.sizes))>>,
               sending' = Tail(PacketsOf(Len(frames) + 1, s.sizes))
        PROVE  DvripInv'
    <3>1. PICK q : q = PacketsOf(Len(frames) + 1, s.sizes)
      OBVIOUS
    <3>2. Len(frames) + 1 \in Nat
      BY DEF DvripInv, DvripTypes
    <3>3. q \in Seq(Packet) /\ q # <<>>
      BY <3>1, <3>2, NewFrame
    <3>4. wire' \in Seq(Packet) /\ Len(wire') <= 1 /\ sending' \in Seq(Packet)
      BY <2>3, <3>1, <3>3, HeadTail
    <3>5. frames' \in Seq(Shapes)
      BY <2>3, AppendReply DEF DvripInv, DvripTypes
    <3> QED BY <2>1, <3>4, <3>5 DEF DvripInv, DvripTypes, Phases, readVars, clockVars
  <2> QED BY <1>1, <2>2, <2>3, Zenon DEF CameraSends
<1>2. CASE CameraReplies
  <2>1. PICK p \in ReplyPackets(owes[1]) : wire' = <<p[1]>> /\ sending' = Tail(p) \o sending
    BY <1>2 DEF CameraReplies
  <2>2. owes # <<>> /\ owes' = Tail(owes)
        /\ UNCHANGED <<pc, readVars, err, conn, claimDone, pts, clockVars, frames, delivered>>
    BY <1>2 DEF CameraReplies
  <2>3. owes[1] \in Replies /\ owes' \in Seq(Replies)
    BY <2>2, HeadTail DEF DvripInv, DvripTypes
  <2>4. p \in Seq(Packet) /\ p # <<>>
    BY <2>3, ReplyType
  <2>5. <<p[1]>> \in Seq(Packet) /\ Tail(p) \in Seq(Packet)
    BY <2>4, HeadTail
  <2>6. Tail(p) \o sending \in Seq(Packet)
    BY <2>5 DEF DvripInv, DvripTypes
  <2>7. cut' \in SUBSET Nat
    <3>1. Len(frames) \in Nat /\ cut \in SUBSET Nat
      BY DEF DvripInv, DvripTypes
    <3>2. cut' = cut \/ cut' = cut \cup {Len(frames)}
      BY <1>2 DEF CameraReplies
    <3> QED BY <3>1, <3>2
  <2> QED BY <2>1, <2>2, <2>3, <2>5, <2>6, <2>7 DEF DvripInv, DvripTypes, Phases, readVars, clockVars
<1>3. CASE ReplyGoesOn
  <2>1. wire' \in Seq(Packet) /\ sending' \in Seq(Packet)
    BY <1>3, HeadTail DEF ReplyGoesOn, DvripInv, DvripTypes
  <2> QED BY <1>3, <2>1 DEF ReplyGoesOn, DvripInv, DvripTypes, Phases, readVars, clockVars
<1>4. CASE ConnectionLost
  BY <1>4 DEF ConnectionLost, DvripInv, DvripTypes, Phases, readVars, clockVars
<1>5. CASE Tick
  BY <1>5 DEF Tick, DvripInv, DvripTypes, Phases, readVars, camVars
<1> QED BY <1>1, <1>2, <1>3, <1>4, <1>5

LEMMA DvripTypeInit == Init => DvripInv
<1> SUFFICES ASSUME Init PROVE DvripInv
  OBVIOUS
<1>1. Len(<<>>) <= 1 /\ \A S : <<>> \in Seq(S)
  OBVIOUS
<1> QED BY <1>1 DEF Init, DvripInit, DvripInv, DvripTypes, Phases

LEMMA DvripTypeStep == ASSUME DvripInv, DvripNext \/ UNCHANGED dvripVars PROVE DvripInv'
<1>1. CASE UNCHANGED dvripVars
  BY <1>1 DEF dvripVars, DvripInv, DvripTypes, Phases, readVars, clockVars, camVars
<1>2. CASE DvripNext
  BY <1>2, DialTypes, CallTypes, HeaderTypes, ReadTypes, CameraTypes, Zenon DEF DvripNext, DvripTask
<1> QED BY <1>1, <1>2

----------------------------------------------------------------------------
(* DVRIP: before the claim is answered *)

Plain == {p \in Packet : ~IsMedia(p) /\ p.total <= 2}
Totals(t) == {p \in Plain : p.total = t}
Hand(at, h) == IF at = "data" THEN <<h>> ELSE <<>>

\* The reply to the claim, its packets in these places, all of total t.
ReplyIs(t, ms, hand, wi, sd) ==
  /\ ms \in Seq(Totals(t)) /\ hand \in Seq(Totals(t)) /\ wi \in Seq(Totals(t)) /\ sd \in Seq(Totals(t))
  /\ Len(ms) + Len(hand) + Len(wi) + Len(sd) = t

Counted(at, what, ow, ms, hand, wi, sd) ==
  /\ at \in {"new", "idle"} => ow = <<>> /\ wi = <<>> /\ sd = <<>>
  /\ at \in {"header", "data"} /\ what = "login" =>
       /\ sd = <<>> /\ Len(ow) + Len(wi) + Len(hand) = 1
       /\ ow # <<>> => ow[1] = "LOGIN_RSP"
  /\ at \in {"header", "data"} /\ what = "claim" =>
       \/ /\ at = "header" /\ ow = <<"CLAIM_RSP">> /\ wi = <<>> /\ sd = <<>> /\ ms = <<>>
       \/ ow = <<>> /\ (ReplyIs(1, ms, hand, wi, sd) \/ ReplyIs(2, ms, hand, wi, sd))

Claiming == ~claimDone /\ pc \in {"new", "idle", "header", "data"}

ClaimInv ==
  Claiming =>
    /\ wire \in Seq(Plain) /\ sending \in Seq(Plain) /\ message \in Seq(Plain)
    /\ pc = "data" => head \in Plain
    /\ message # <<>> => Len(message) = 1 /\ message[1].total = 2
    /\ aligned /\ conn \in {"none", "open"} => Counted(pc, wants, owes, message, Hand(pc, head), wire, sending)

LEMMA ReplyPlain ==
  ASSUME NEW r, NEW q \in ReplyPackets(r), r \in Replies
  PROVE  /\ q \in Seq(Plain)
         /\ r # "CLAIM_RSP" => Len(q) = 1
         /\ r = "CLAIM_RSP" => \E t \in {1, 2} : q \in Seq(Totals(t)) /\ Len(q) = t
<1>1. ASSUME NEW code \in Replies, NEW total \in 0 .. 2, NEW cur \in Nat, NEW ret \in Rets
      PROVE  Control(code, total, cur, ret) \in Totals(total)
  <2>1. <<>> \in Seq(Cell) /\ code \in Codes /\ total \in Nat
    BY DEF Codes
  <2>2. PICK p : p = Control(code, total, cur, ret)
    OBVIOUS
  <2>3. p \in Packet /\ p.code = code /\ p.total = total
    BY <2>1, <2>2, Zenon DEF Control, Packet
  <2>4. ~IsMedia(p)
    BY <2>3 DEF IsMedia, Replies
  <2>5. p \in Plain
    BY <2>3, <2>4 DEF Plain
  <2> QED BY <2>2, <2>3, <2>5 DEF Totals
<1>2. \A t : \A a \in Totals(t), b \in Totals(t) : <<a>> \in Seq(Totals(t)) /\ <<a, b>> \in Seq(Totals(t))
  OBVIOUS
<1>3. \A t : \A w \in Seq(Totals(t)) : w \in Seq(Plain)
  BY DEF Totals
<1>4. "ok" \in Rets /\ 0 \in Nat /\ 1 \in Nat /\ 0 \in 0 .. 2 /\ 1 \in 0 .. 2 /\ 2 \in 0 .. 2
  BY DEF Rets
<1>5. CASE r = "LOGIN_RSP"
  <2>1. PICK ret \in {"ok", "password", "refused"} : q = <<Control(r, 0, 0, ret)>>
    BY <1>5 DEF ReplyPackets
  <2>2. ret \in Rets
    BY DEF Rets
  <2>3. Control(r, 0, 0, ret) \in Totals(0)
    BY <1>1, <1>4, <2>2
  <2> QED BY <1>2, <1>3, <1>5, <2>1, <2>3
<1>6. CASE r = "CLAIM_RSP"
  <2>1. q = <<Control(r, 1, 0, "ok")>> \/ q = <<Control(r, 2, 0, "ok"), Control(r, 2, 1, "ok")>>
    BY <1>6 DEF ReplyPackets
  <2>2. Control(r, 1, 0, "ok") \in Totals(1)
    BY <1>1, <1>4
  <2>3. Control(r, 2, 0, "ok") \in Totals(2) /\ Control(r, 2, 1, "ok") \in Totals(2)
    BY <1>1, <1>4
  <2>4. CASE q = <<Control(r, 1, 0, "ok")>>
    BY <1>2, <1>3, <1>6, <2>2, <2>4
  <2>5. CASE q = <<Control(r, 2, 0, "ok"), Control(r, 2, 1, "ok")>>
    BY <1>2, <1>3, <1>6, <2>3, <2>5
  <2> QED BY <2>1, <2>4, <2>5
<1>7. CASE r = "KEEPALIVE_RSP"
  <2>1. q = <<Control(r, 0, 0, "ok")>>
    BY <1>7 DEF ReplyPackets
  <2>2. Control(r, 0, 0, "ok") \in Totals(0)
    BY <1>1, <1>4
  <2> QED BY <1>2, <1>3, <1>7, <2>1, <2>2
<1> QED BY <1>5, <1>6, <1>7 DEF Replies

LEMMA ClaimDial == ASSUME DvripInv, ClaimInv, DialFails \/ Dial \/ Claim \/ NextFrame \/ GetRawFrame PROVE ClaimInv'
<1>0. <<>> \in Seq(Plain) /\ Len(<<>>) = 0
  OBVIOUS
<1>1. CASE DialFails \/ NextFrame \/ GetRawFrame
  <2>1. ~Claiming'
    <3>1. CASE DialFails
      BY <3>1 DEF DialFails, Claiming
    <3>2. CASE NextFrame \/ GetRawFrame
      BY <3>2 DEF NextFrame, GetRawFrame, Claiming, DvripInv, Phases
    <3> QED BY <1>1, <3>1, <3>2
  <2> QED BY <2>1 DEF ClaimInv
<1>2. CASE Dial
  <2>1. /\ pc = "new" /\ pc' = "header" /\ wants' = "login" /\ message' = <<>>
        /\ owes' = Append(owes, "LOGIN_RSP") /\ UNCHANGED <<aligned, wire, sending, claimDone>>
    BY <1>2 DEF Dial, Expect, Sent
  <2>2. Claiming
    BY <2>1 DEF Claiming, DvripInv, Phases
  <2>3. /\ wire' \in Seq(Plain) /\ sending' \in Seq(Plain) /\ message' \in Seq(Plain)
    BY <1>0, <2>1, <2>2 DEF ClaimInv
  <2>4. ASSUME aligned, conn = "none"
        PROVE  Counted(pc', wants', owes', message', Hand(pc', head'), wire', sending')
    <3>1. owes = <<>> /\ wire = <<>> /\ sending = <<>>
      BY <2>1, <2>2, <2>4 DEF ClaimInv, Counted
    <3>2. owes' = <<"LOGIN_RSP">> /\ Len(owes') = 1 /\ owes'[1] = "LOGIN_RSP"
      BY <2>1, <3>1
    <3>3. Hand(pc', head') = <<>>
      BY <2>1 DEF Hand
    <3> QED BY <1>0, <2>1, <3>1, <3>2, <3>3 DEF Counted
  <2>5. conn = "none"
    BY <1>2 DEF Dial, DvripInv, Phases
  <2> QED BY <2>1, <2>3, <2>4, <2>5 DEF ClaimInv
<1>3. CASE Claim
  <2>1. pc = "idle" /\ UNCHANGED <<aligned, wire, sending, claimDone, conn>>
    BY <1>3 DEF Claim
  <2>2. CASE Fail("error")
    BY <2>2 DEF Fail, ClaimInv, Claiming
  <2>3. CASE conn = "open" /\ Expect("claim") /\ Sent("CLAIM_RSP") /\ UNCHANGED err
    <3>1. pc' = "header" /\ wants' = "claim" /\ message' = <<>> /\ owes' = Append(owes, "CLAIM_RSP")
      BY <2>3 DEF Expect, Sent
    <3>2. CASE ~claimDone
      <4>1. Claiming
        BY <2>1, <3>2 DEF Claiming
      <4>2. wire' \in Seq(Plain) /\ sending' \in Seq(Plain) /\ message' \in Seq(Plain)
        BY <1>0, <2>1, <3>1, <4>1 DEF ClaimInv
      <4>3. ASSUME aligned
            PROVE  Counted(pc', wants', owes', message', Hand(pc', head'), wire', sending')
        <5>1. owes = <<>> /\ wire = <<>> /\ sending = <<>>
          BY <2>1, <2>3, <4>1, <4>3 DEF ClaimInv, Counted
        <5>2. owes' = <<"CLAIM_RSP">>
          BY <3>1, <5>1
        <5> QED BY <2>1, <3>1, <5>1, <5>2 DEF Counted
      <4> QED BY <2>1, <3>1, <4>2, <4>3 DEF ClaimInv
    <3>3. CASE claimDone
      BY <2>1, <3>3 DEF ClaimInv, Claiming
    <3> QED BY <3>2, <3>3
  <2> QED BY <1>3, <2>2, <2>3, Zenon DEF Claim
<1> QED BY <1>1, <1>2, <1>3

LEMMA ClaimHeader ==
  ASSUME DvripInv, ClaimInv, HeadFlagIsWrong \/ ReadHeader \/ ShortHeader \/ Timeout \/ ShutDown
  PROVE  ClaimInv'
<1>1. CASE HeadFlagIsWrong \/ Timeout \/ ShutDown
  <2>1. pc' \in {"ended", "failed"}
    BY <1>1 DEF HeadFlagIsWrong, Timeout, Fail, ShutDown
  <2> QED BY <2>1 DEF ClaimInv, Claiming
<1>2. CASE ReadHeader
  <2>1. /\ pc = "header" /\ aligned /\ wire # <<>> /\ head' = wire[1] /\ wire' = <<>> /\ pc' = "data"
        /\ UNCHANGED <<wants, message, aligned, conn, claimDone, owes, sending>>
    BY <1>2 DEF ReadHeader
  <2> SUFFICES ASSUME Claiming PROVE ClaimInv'
    BY <2>1 DEF ClaimInv, Claiming
  <2>2. head' \in Plain /\ wire' \in Seq(Plain)
    BY <2>1, HeadTail DEF ClaimInv
  <2>3. ASSUME conn \in {"none", "open"}
        PROVE  Counted(pc', wants', owes', message', Hand(pc', head'), wire', sending')
    <3>1. Counted(pc, wants, owes, message, Hand(pc, head), wire, sending)
      BY <2>1, <2>3 DEF ClaimInv
    <3>2. PICK hand : hand = Hand(pc', head')
      OBVIOUS
    <3>3. hand = <<head'>> /\ Len(hand) = 1 /\ Hand(pc, head) = <<>> /\ Len(Hand(pc, head)) = 0 /\ Len(wire') = 0
      BY <2>1, <3>2 DEF Hand
    <3>4. Len(wire) = 1
      <4>1. Len(wire) \in Nat /\ Len(wire) <= 1 /\ (Len(wire) = 0 => wire = <<>>)
        BY DEF DvripInv, DvripTypes
      <4>2. wire # <<>>
        BY <2>1
      <4>3. PICK n \in Nat : n = Len(wire)
        BY <4>1
      <4>4. n <= 1 /\ n # 0
        BY <4>1, <4>2, <4>3
      <4>5. n = 1
        BY <4>4
      <4> QED BY <4>3, <4>5, Zenon
    <3>5. CASE wants = "login"
      <4>1. sending = <<>> /\ Len(owes) + 1 + 0 = 1 /\ (owes # <<>> => owes[1] = "LOGIN_RSP")
        BY <2>1, <3>1, <3>3, <3>4, <3>5 DEF Counted
      <4>2. Len(owes) + 0 + 1 = 1
        BY <4>1
      <4> QED BY <2>1, <3>2, <3>3, <3>5, <4>1, <4>2 DEF Counted
    <3>6. CASE wants = "claim"
      <4>1. owes = <<>> /\ \E t \in {1, 2} : ReplyIs(t, message, Hand(pc, head), wire, sending)
        BY <2>1, <3>1, <3>6 DEF Counted
      <4>2. PICK t \in {1, 2} : ReplyIs(t, message, Hand(pc, head), wire, sending)
        BY <4>1
      <4>3. head' \in Totals(t)
        BY <2>1, <4>2, HeadTail DEF ReplyIs
      <4>4. hand \in Seq(Totals(t)) /\ wire' \in Seq(Totals(t))
        BY <2>1, <3>3, <4>3
      <4>5. Len(message) + Len(hand) + Len(wire') + Len(sending) = t
        BY <3>3, <3>4, <4>2 DEF ReplyIs, DvripInv, DvripTypes
      <4>6. ReplyIs(t, message, hand, wire', sending)
        BY <4>2, <4>4, <4>5 DEF ReplyIs
      <4> QED BY <2>1, <3>2, <3>6, <4>1, <4>2, <4>6 DEF Counted
    <3>7. CASE wants = "frame"
      BY <2>1, <3>7 DEF Counted
    <3> QED BY <3>5, <3>6, <3>7 DEF DvripInv, DvripTypes
  <2> QED BY <2>1, <2>2, <2>3 DEF ClaimInv, Claiming
<1>3. CASE ShortHeader
  <2>1. /\ pc = "header" /\ wire # <<>> /\ wire' = <<>> /\ pc' = "data" /\ aligned' = FALSE
        /\ UNCHANGED <<wants, message, conn, claimDone, owes, sending>>
        /\ head' \in {Control("ZERO", 0, 0, ""), [wire[1] EXCEPT !.data = <<>>, !.ret = ""]}
    BY <1>3, Zenon DEF ShortHeader
  <2> SUFFICES ASSUME Claiming PROVE ClaimInv'
    BY <2>1 DEF ClaimInv, Claiming
  <2>2. DvripTypes'
    BY HeaderTypes, <1>3 DEF DvripInv
  <2>3. head' \in Packet
    BY <2>1, <2>2 DEF DvripTypes
  <2>4. wire[1] \in Plain /\ wire[1] \in Packet
    <3>1. wire[1] \in Plain
      BY <2>1, HeadTail DEF ClaimInv
    <3> QED BY <3>1 DEF Plain
  <2>5. head' \in Plain
    <3>1. CASE head' = Control("ZERO", 0, 0, "")
      <4>1. head'.code = "ZERO" /\ head'.total = 0
        BY <3>1 DEF Control
      <4> QED BY <2>3, <4>1 DEF Plain, IsMedia
    <3>2. CASE head' = [wire[1] EXCEPT !.data = <<>>, !.ret = ""]
      <4>1. head'.code = wire[1].code /\ head'.total = wire[1].total
        BY <2>4, <3>2 DEF Packet
      <4> QED BY <2>3, <2>4, <4>1 DEF Plain, IsMedia
    <3> QED BY <2>1, <3>1, <3>2
  <2>6. wire' \in Seq(Plain)
    <3>1. <<>> \in Seq(Plain)
      OBVIOUS
    <3> QED BY <2>1, <3>1, Zenon
  <2> QED BY <2>1, <2>5, <2>6 DEF ClaimInv, Claiming
<1> QED BY <1>1, <1>2, <1>3

\* What there is when the claim has been answered.
Quiet == owes = <<>> /\ wire = <<>> /\ sending = <<>>

LEMMA ClaimRead1 ==
  ASSUME DvripInv, ClaimInv, ReadData
  PROVE  ClaimInv' /\ (ClaimRead /\ aligned => Quiet)
<1>1. Kept
  BY ReadDataDoes
<1>2. /\ pc = "data" /\ wants' = wants /\ UNCHANGED <<aligned, conn, wire, owes, sending>>
  BY <1>1 DEF Kept
<1>3. CASE pc' \notin {"new", "idle", "header", "data"} /\ ~ClaimRead
  BY <1>3 DEF ClaimInv, Claiming
<1>4. CASE claimDone
  BY <1>2, <1>4, ReadDataDoes
     DEF ClaimInv, Claiming, ClaimRead, LoginRead, FailedRead, MoreRead, SkipRead, FrameRead, DvripInv, Phases
<1>5. PICK hand : hand = Hand(pc, head)
  OBVIOUS
<1>6. hand = <<head>> /\ Len(hand) = 1
  BY <1>2, <1>5 DEF Hand
<1>7. CASE LoginRead /\ ~claimDone /\ pc' = "idle"
  <2>1. Claiming /\ wants = "login" /\ message' = message /\ message = <<>> /\ claimDone' = claimDone
    BY <1>2, <1>7 DEF Claiming, LoginRead, DvripInv, Phases
  <2>2. ASSUME aligned, conn \in {"none", "open"} PROVE owes = <<>> /\ wire = <<>> /\ sending = <<>>
    <3>1. sending = <<>> /\ Len(owes) + Len(wire) + 1 = 1
      BY <1>2, <1>5, <1>6, <2>1, <2>2 DEF ClaimInv, Counted
    <3>2. Len(owes) \in Nat /\ Len(wire) \in Nat /\ (Len(owes) = 0 => owes = <<>>) /\ (Len(wire) = 0 => wire = <<>>)
      BY DEF DvripInv, DvripTypes
    <3> QED BY <3>1, <3>2
  <2> QED BY <1>2, <1>7, <2>1, <2>2 DEF ClaimInv, Counted, ClaimRead
<1>8. CASE MoreRead /\ ~claimDone
  <2>1. Claiming /\ wants = "claim" /\ message' = Packets /\ pc' = "header" /\ claimDone' = claimDone
        /\ ~MessageEnds(Packets)
    BY <1>2, <1>8 DEF Claiming, MoreRead, DvripInv, DvripTypes, Phases
  <2>2. PICK ps : ps = Packets
    OBVIOUS
  <2>3. head \in Plain /\ head \in Packet /\ ~IsMedia(head)
    <3>1. head \in Plain
      BY <1>2, <2>1 DEF ClaimInv
    <3> QED BY <3>1 DEF Plain
  <2>4. ps \in Seq(Plain)
    BY <2>1, <2>2, <2>3 DEF ClaimInv, Packets
  <2>5. Len(ps) = Len(message) + 1 /\ ps # <<>>
    BY <2>2, <2>3 DEF DvripInv, DvripTypes, Packets
  <2>6. ~IsSingle(ps[1]) /\ ~IsMedia(ps[1]) /\ Len(ps) # ps[1].total
    <3>1. ps[1] \in Plain
      BY <2>4, <2>5, HeadTail
    <3>2. ~IsMedia(ps[1])
      BY <3>1 DEF Plain
    <3> QED BY <2>1, <2>2, <3>2 DEF MessageEnds
  <2>7. ps[1].total = 2
    <3>1. ps[1] \in Plain
      BY <2>4, <2>5, HeadTail
    <3>2. ps[1].total \in Nat /\ ps[1].total <= 2
      BY <3>1, Zenon DEF Plain, Packet
    <3>3. ~(ps[1].total < 2)
      BY <2>6, Zenon DEF IsSingle
    <3> QED BY <3>2, <3>3
  <2>8. Len(ps) = 1
    <3>1. message # <<>> => Len(message) = 1
      BY <2>1 DEF ClaimInv
    <3>2. Len(message) = 0 \/ Len(message) = 1
      BY <3>1
    <3>3. Len(ps) # 2
      BY <2>6, <2>7, Zenon
    <3>4. PICK n \in Nat : n = Len(message)
      BY DEF DvripInv, DvripTypes
    <3>5. PICK m : m = Len(ps)
      OBVIOUS
    <3>6. m = n + 1 /\ m # 2 /\ (n = 0 \/ n = 1)
      BY <2>5, <3>2, <3>3, <3>4, <3>5
    <3>7. m = 1
      BY <3>6
    <3> QED BY <3>5, <3>7, Zenon
  <2>9. ASSUME aligned, conn \in {"none", "open"}
        PROVE  Counted(pc', wants', owes', message', Hand(pc', head'), wire', sending')
    <3>1. Counted(pc, wants, owes, message, hand, wire, sending)
      BY <1>5, <2>1, <2>9 DEF ClaimInv
    <3>2. owes = <<>> /\ (ReplyIs(1, message, hand, wire, sending) \/ ReplyIs(2, message, hand, wire, sending))
      BY <1>2, <2>1, <3>1 DEF Counted
    <3>3. PICK t \in {1, 2} : ReplyIs(t, message, hand, wire, sending)
      BY <3>2
    <3>4. head \in Totals(t)
      <4>1. hand \in Seq(Totals(t)) /\ hand # <<>> /\ hand[1] = head
        BY <1>6, <3>3 DEF ReplyIs
      <4> QED BY <4>1, HeadTail
    <3>5. ps \in Seq(Totals(t))
      BY <2>2, <3>3, <3>4, AppendReply DEF ReplyIs, Packets
    <3>6. PICK none : none = Hand(pc', head')
      OBVIOUS
    <3>7. none = <<>> /\ Len(none) = 0 /\ none \in Seq(Totals(t))
      BY <2>1, <3>6 DEF Hand
    <3>8. Len(ps) + Len(none) + Len(wire) + Len(sending) = t
      BY <1>6, <2>5, <3>3, <3>7 DEF ReplyIs, DvripInv, DvripTypes
    <3>9. ReplyIs(t, ps, none, wire, sending)
      BY <3>3, <3>5, <3>7, <3>8 DEF ReplyIs
    <3> QED BY <1>2, <2>1, <2>2, <3>2, <3>3, <3>6, <3>9 DEF Counted
  <2> QED BY <1>2, <1>8, <2>1, <2>2, <2>4, <2>7, <2>8, <2>9 DEF ClaimInv, ClaimRead, MoreRead
<1>9. CASE ClaimRead /\ ~claimDone
  <2>1. Claiming /\ wants = "claim" /\ conn = "open" /\ pc' = "raw" /\ MessageEnds(Packets)
    BY <1>2, <1>9 DEF Claiming, ClaimRead
  <2>2. ASSUME aligned PROVE Quiet
    <3>1. Counted(pc, wants, owes, message, hand, wire, sending)
      BY <1>5, <2>1, <2>2 DEF ClaimInv
    <3>2. owes = <<>> /\ (ReplyIs(1, message, hand, wire, sending) \/ ReplyIs(2, message, hand, wire, sending))
      BY <1>2, <2>1, <3>1 DEF Counted
    <3>3. PICK t \in {1, 2} : ReplyIs(t, message, hand, wire, sending)
      BY <3>2
    <3>4. head \in Totals(t) /\ head.total = t /\ ~IsMedia(head)
      <4>1. hand \in Seq(Totals(t)) /\ hand # <<>> /\ hand[1] = head
        BY <1>6, <3>3 DEF ReplyIs
      <4>2. head \in Totals(t)
        BY <4>1, HeadTail
      <4> QED BY <4>2 DEF Totals, Plain
    <3>5. PICK ps : ps = Packets
      OBVIOUS
    <3>6. ps \in Seq(Totals(t)) /\ Len(ps) = Len(message) + 1 /\ ps # <<>>
      BY <3>3, <3>4, <3>5, AppendReply DEF ReplyIs, Packets
    <3>7. ps[1].total = t /\ ~IsMedia(ps[1])
      <4>1. ps[1] \in Totals(t)
        BY <3>6, HeadTail
      <4> QED BY <4>1 DEF Totals, Plain
    <3>8. Len(ps) = t \/ t < 2
      BY <2>1, <3>5, <3>7 DEF MessageEnds, IsSingle
    <3>9. Len(message) + 1 + Len(wire) + Len(sending) = t
      BY <1>6, <3>3 DEF ReplyIs
    <3>10. Len(message) \in Nat /\ Len(wire) \in Nat /\ Len(sending) \in Nat
      BY DEF DvripInv, DvripTypes
    <3>11. Len(wire) = 0 /\ Len(sending) = 0
      BY <3>3, <3>6, <3>8, <3>9, <3>10
    <3>12. wire = <<>> /\ sending = <<>>
      BY <3>11 DEF DvripInv, DvripTypes
    <3> QED BY <3>2, <3>12 DEF Quiet
  <2> QED BY <2>1, <2>2 DEF ClaimInv, Claiming
<1> QED BY <1>2, <1>3, <1>4, <1>7, <1>8, <1>9, ReadDataDoes
     DEF LoginRead, FailedRead, MoreRead, ClaimRead, SkipRead, FrameRead, DvripInv, Phases

LEMMA ClaimCamera ==
  ASSUME DvripInv, ClaimInv, CameraSends \/ CameraReplies \/ ReplyGoesOn \/ ConnectionLost \/ Tick
  PROVE  ClaimInv'
<1>1. CASE CameraSends
  BY <1>1 DEF CameraSends, Streaming, ClaimInv, Claiming
<1>2. CASE ConnectionLost
  <2>1. conn' = "lost" /\ wire' = <<>> /\ UNCHANGED <<pc, readVars, claimDone, sending>>
    BY <1>2 DEF ConnectionLost
  <2>2. wire' \in Seq(Plain)
    BY <2>1
  <2> QED BY <2>1, <2>2 DEF ClaimInv, Claiming, readVars
<1>3. CASE Tick
  <2>1. UNCHANGED <<pc, readVars, conn, claimDone, camVars>>
    BY <1>3 DEF Tick
  <2> QED BY <2>1 DEF ClaimInv, Claiming, readVars, camVars
<1>4. CASE CameraReplies \/ ReplyGoesOn
  <2>1. conn = "open" /\ wire = <<>> /\ UNCHANGED <<pc, wants, head, message, aligned, conn, claimDone>>
    BY <1>4 DEF CameraReplies, ReplyGoesOn, readVars
  <2> SUFFICES ASSUME Claiming PROVE ClaimInv'
    BY <2>1 DEF ClaimInv, Claiming
  <2>2. PICK hand : hand = Hand(pc, head)
    OBVIOUS
  <2>3. aligned => Counted(pc, wants, owes, message, hand, <<>>, sending)
    BY <2>1, <2>2 DEF ClaimInv
  <2>4. CASE ReplyGoesOn
    <3>1. sending # <<>> /\ wire' = <<sending[1]>> /\ sending' = Tail(sending) /\ owes' = owes
      BY <2>4 DEF ReplyGoesOn
    <3>2. wire' \in Seq(Plain) /\ sending' \in Seq(Plain)
      BY <3>1, HeadTail DEF ClaimInv
    <3>3. ASSUME aligned PROVE Counted(pc, wants, owes, message, hand, wire', sending')
      <4>1. pc \in {"header", "data"} /\ wants = "claim"
        BY <2>3, <3>1, <3>3 DEF Counted, Claiming, DvripInv, DvripTypes, Phases
      <4>2. owes = <<>> /\ (ReplyIs(1, message, hand, <<>>, sending) \/ ReplyIs(2, message, hand, <<>>, sending))
        BY <2>3, <3>1, <3>3, <4>1 DEF Counted
      <4>3. PICK t \in {1, 2} : ReplyIs(t, message, hand, <<>>, sending)
        BY <4>2
      <4>4. wire' \in Seq(Totals(t)) /\ sending' \in Seq(Totals(t))
        BY <3>1, <4>3, HeadTail DEF ReplyIs
      <4>5. Len(sending) \in Nat /\ Len(sending') = Len(sending) - 1 /\ Len(wire') = 1 /\ Len(<<>>) = 0
        BY <3>1 DEF DvripInv, DvripTypes
      <4>6. hand \in Seq(Totals(t)) /\ message \in Seq(Totals(t))
            /\ Len(message) + Len(hand) + Len(<<>>) + Len(sending) = t
        BY <4>3 DEF ReplyIs
      <4>7. Len(message) + Len(hand) + Len(wire') + Len(sending') = t
        BY <4>5, <4>6
      <4>8. ReplyIs(t, message, hand, wire', sending')
        BY <4>4, <4>6, <4>7 DEF ReplyIs
      <4> QED BY <4>1, <4>2, <4>3, <4>8 DEF Counted
    <3> QED BY <2>1, <2>2, <3>1, <3>2, <3>3 DEF ClaimInv
  <2>5. CASE CameraReplies
    <3>1. PICK p \in ReplyPackets(owes[1]) : wire' = <<p[1]>> /\ sending' = Tail(p) \o sending
      BY <2>5 DEF CameraReplies
    <3>2. owes # <<>> /\ owes' = Tail(owes)
      BY <2>5 DEF CameraReplies
    <3>3. owes[1] \in Replies
      BY <3>2, HeadTail DEF DvripInv, DvripTypes
    <3>4. p \in Seq(Plain) /\ p # <<>> /\ Len(p) \in {1, 2}
      BY <3>3, ReplyPlain, ReplyType
    <3>5. wire' \in Seq(Plain) /\ sending' \in Seq(Plain)
      <4>1. <<p[1]>> \in Seq(Plain) /\ Tail(p) \in Seq(Plain)
        BY <3>4, HeadTail
      <4>2. sending \in Seq(Plain)
        BY DEF ClaimInv
      <4> QED BY <3>1, <4>1, <4>2
    <3>6. ASSUME aligned PROVE Counted(pc, wants, owes', message, hand, wire', sending')
      <4>1. pc \in {"header", "data"} /\ wants \in {"login", "claim"}
        BY <2>3, <3>2, <3>6 DEF Counted, Claiming, DvripInv, DvripTypes, Phases
      <4>2. CASE wants = "login"
        <5>1. sending = <<>> /\ Len(owes) + Len(<<>>) + Len(hand) = 1 /\ owes[1] = "LOGIN_RSP"
          BY <2>3, <3>2, <3>6, <4>1, <4>2 DEF Counted
        <5>2. Len(p) = 1
          BY <3>3, <5>1, ReplyPlain
        <5>3. Tail(p) = <<>>
          <6>1. Tail(p) \in Seq(Plain) /\ Len(Tail(p)) = 0
            BY <3>4, <5>2
          <6>2. PICK q \in Seq(Plain) : q = Tail(p) /\ Len(q) = 0
            BY <6>1
          <6>3. q = <<>>
            BY <6>2
          <6> QED BY <6>2, <6>3, Zenon
        <5>4. sending' = <<>> /\ Len(wire') = 1
          BY <3>1, <5>1, <5>3
        <5>5. Len(owes) \in Nat \ {0} /\ Len(owes') = Len(owes) - 1 /\ Len(<<>>) = 0
          BY <3>2 DEF DvripInv, DvripTypes
        <5>6. Len(hand) \in Nat
          BY DEF Hand
        <5>7. Len(hand) = 0 /\ Len(owes') = 0
          BY <5>1, <5>5, <5>6
        <5>8. owes' = <<>>
          BY <3>2, <5>7 DEF DvripInv, DvripTypes
        <5> QED BY <4>1, <4>2, <5>4, <5>7, <5>8 DEF Counted
      <4>3. CASE wants = "claim"
        <5>1. /\ pc = "header" /\ owes = <<"CLAIM_RSP">> /\ sending = <<>> /\ message = <<>>
          BY <2>3, <3>2, <3>6, <4>1, <4>3 DEF Counted
        <5>2. PICK t \in {1, 2} : p \in Seq(Totals(t)) /\ Len(p) = t
          BY <3>3, <5>1, ReplyPlain
        <5>3. hand = <<>> /\ owes' = <<>>
          BY <2>2, <3>2, <5>1 DEF Hand
        <5>4. wire' \in Seq(Totals(t)) /\ Len(wire') = 1 /\ Tail(p) \in Seq(Totals(t)) /\ Len(Tail(p)) = t - 1
          BY <3>1, <3>4, <5>2, HeadTail
        <5>5. sending' = Tail(p)
          BY <3>1, <5>1, <5>4
        <5>6. <<>> \in Seq(Totals(t)) /\ Len(<<>>) = 0
          OBVIOUS
        <5>7. ReplyIs(t, message, hand, wire', sending')
          BY <5>1, <5>3, <5>4, <5>5, <5>6 DEF ReplyIs
        <5> QED BY <4>1, <4>3, <5>1, <5>2, <5>3, <5>7 DEF Counted
      <4> QED BY <4>1, <4>2, <4>3
    <3> QED BY <2>1, <2>2, <3>5, <3>6 DEF ClaimInv
  <2> QED BY <1>4, <2>4, <2>5
<1> QED BY <1>1, <1>2, <1>3, <1>4

LEMMA ClaimInit == Init => ClaimInv
<1> SUFFICES ASSUME Init PROVE ClaimInv
  OBVIOUS
<1>1. \A S : <<>> \in Seq(S)
  OBVIOUS
<1> QED BY <1>1 DEF Init, DvripInit, ClaimInv, Claiming, Counted

LEMMA ClaimStep == ASSUME DvripInv, ClaimInv, DvripNext \/ UNCHANGED dvripVars PROVE ClaimInv'
<1>1. CASE UNCHANGED dvripVars
  BY <1>1 DEF dvripVars, ClaimInv, Claiming, readVars, clockVars, camVars
<1>2. CASE DvripNext
  BY <1>2, ClaimDial, ClaimHeader, ClaimRead1, ClaimCamera, Zenon DEF DvripNext, DvripTask
<1> QED BY <1>1, <1>2

----------------------------------------------------------------------------
(* DVRIP: where the packets of the frames are *)

Answers == {p \in Packet : p.code = "KEEPALIVE_RSP" /\ p.total = 0}

\* i packets of frame r have been read; those of ms are the message so far.
ReaderAt(fs, r, i, ms) ==
  /\ r \in 0 .. Len(fs) /\ i \in 0 .. LenOf(fs, r) /\ Len(ms) <= i
  /\ ms = Piece(Pk(fs, r), i - Len(ms), Len(ms))
  /\ ms # <<>> => i < LenOf(fs, r)

\* j packets of the last frame have been sent; w: one of them is on the wire.
CameraAt(fs, j, w, wi, sd, ct) ==
  /\ j \in 0 .. LenOf(fs, Len(fs)) /\ sd = Piece(Pk(fs, Len(fs)), j, LenOf(fs, Len(fs)) - j)
  /\ \/ w = 0 /\ wi = <<>>
     \/ /\ w = 0 /\ \E a \in Answers : wi = <<a>>
        /\ 0 < j /\ j < LenOf(fs, Len(fs)) => Len(fs) \in ct
     \/ w = 1 /\ j > 0 /\ wi = <<Pk(fs, Len(fs))[j]>>

\* h: the packet whose header has been read is one of the frame's.
HeadAt(fs, r, i, h, at, hd, ct) ==
  \/ at # "data" /\ h = 0
  \/ at = "data" /\ h = 0 /\ hd \in Answers /\ (0 < i /\ i < LenOf(fs, r) => r \in ct)
  \/ at = "data" /\ h = 1 /\ i < LenOf(fs, r) /\ hd = Pk(fs, r)[i + 1]

\* What is sent is read, or is of the frame after.
LinkAt(fs, r, i, j, h, w) ==
  \/ r = Len(fs) /\ j = i + h + w
  \/ r + 1 = Len(fs) /\ i + h = LenOf(fs, r) /\ j = 1 /\ w = 1

\* d: the last frame returned; one that was not, nor will be, is in ct.
ProgressAt(fs, r, i, k, ct, d) ==
  /\ d \in Nat /\ d <= r /\ (d = r => i = LenOf(fs, r))
  /\ \A m \in d + 1 .. r - 1 : m \in ct
  /\ r # d /\ i > k => r \in ct

LastOf(dl) == IF dl = <<>> THEN 0 ELSE dl[Len(dl)][1][1]

FlightAt(fs, r, i, j, h, w, ms, wi, sd, at, hd, ct, d, cn) ==
  /\ ReaderAt(fs, r, i, ms) /\ CameraAt(fs, j, w, wi, sd, ct) /\ HeadAt(fs, r, i, h, at, hd, ct)
  /\ ProgressAt(fs, r, i, Len(ms), ct, d)
  /\ IF cn = "open" THEN LinkAt(fs, r, i, j, h, w) ELSE wi = <<>>

Bit == {0, 1}
LEMMA Bits == 0 \in Bit /\ 1 \in Bit /\ \A b \in Bit : b \in Nat /\ (b = 0 \/ b = 1)
  BY DEF Bit

InFlight(fs, ms, wi, sd, at, hd, ct, d, cn) ==
  \E r \in Nat, i \in Nat, j \in Nat, h \in Bit, w \in Bit :
    FlightAt(fs, r, i, j, h, w, ms, wi, sd, at, hd, ct, d, cn)

Live == claimDone /\ pc \in {"idle", "raw", "header", "data"}

\* A packet of which only the header's beginning was read.
Short(p) == p.data = <<>> /\ IsSingle(p)

FlightInv ==
  /\ Live /\ aligned =>
       /\ owes \in Seq({"KEEPALIVE_RSP"})
       /\ InFlight(frames, message, wire, sending, pc, head, cut, LastOf(delivered), conn)
  /\ Live /\ ~aligned /\ pc = "header" => message = <<>>
  /\ Live /\ ~aligned /\ pc = "data" => Short(head) /\ \E r \in Nat, i \in Nat : ReaderAt(frames, r, i, message)

\* Reading a packet that is the next of the frame: the message grows.
GrownTo(fs, r, i1, ms, ps) ==
  /\ ps \in Seq(Packet) /\ Len(ps) = Len(ms) + 1 /\ Len(ps) <= i1
  /\ ps = Piece(Pk(fs, r), i1 - Len(ps), Len(ps))
  /\ ps[Len(ps)] = Pk(fs, r)[i1] /\ ps[1] = Pk(fs, r)[i1 - Len(ms)]

LEMMA MessageGrows ==
  ASSUME NEW fs \in Seq(Shapes), NEW r \in Nat, NEW i \in Nat, NEW ms \in Seq(Packet), ReaderAt(fs, r, i, ms),
         i < LenOf(fs, r), NEW i1 \in Nat, i1 = i + 1, NEW ps, ps = Append(ms, Pk(fs, r)[i1])
  PROVE  GrownTo(fs, r, i1, ms, ps)
<1>1. PICK L \in Nat : L = LenOf(fs, r) /\ Pk(fs, r) \in [1 .. L -> Packet]
  BY PkAre DEF ReaderAt
<1>2. PICK P \in [1 .. L -> Packet] : P = Pk(fs, r)
  BY <1>1
<1>3. PICK k \in Nat : k = Len(ms) /\ k <= i /\ ms = Piece(P, i - k, k)
  BY <1>2 DEF ReaderAt
<1>4. PICK a \in Nat : a = i - k
  <2>1. i - k \in Nat
    BY <1>3
  <2> QED BY <2>1
<1>5. PICK n \in Nat : n = k + 1
  BY <1>3
<1>6. i1 \in 1 .. L /\ i1 = a + n /\ n <= i1 /\ a = i1 - n /\ a + k <= L
  <2>1. i < L /\ k <= i
    BY <1>1, <1>3
  <2>2. i \in Nat /\ L \in Nat /\ k \in Nat /\ a = i - k /\ n = k + 1 /\ i1 = i + 1 /\ i1 \in Nat
    BY <1>4, <1>5
  <2> QED BY <2>1, <2>2
<1>7. Within(P, L, a, k) /\ Follows(L, a, k, n, i1)
  BY <1>1, <1>2, <1>3, <1>4, <1>5, <1>6 DEF Within, Follows
<1>8. Append(Piece(P, a, k), P[i1]) = Piece(P, a, n) /\ Within(P, L, a, n)
  BY <1>7, PieceAppend, SMT
<1>9. ps = Piece(P, a, n)
  BY <1>2, <1>3, <1>4, <1>8, Zenon
<1>10. ps \in Seq(Packet) /\ Len(ps) = n /\ \A x \in 1 .. n : ps[x] = P[a + x]
  <2>1. IsPiece(Piece(P, a, n), P, a, n)
    BY <1>8, PieceType, Zenon
  <2>2. IsPiece(ps, P, a, n)
    BY <1>9, <2>1, Zenon
  <2> QED BY <2>2, Zenon DEF IsPiece
<1>11. ps[n] = P[i1] /\ ps[1] = P[i1 - k]
  <2>1. n \in 1 .. n /\ 1 \in 1 .. n /\ a + n = i1 /\ a + 1 = i1 - k
    <3>1. k \in Nat /\ n = k + 1 /\ i1 = a + n /\ a \in Nat /\ a = i1 - n
      BY <1>3, <1>5, <1>6
    <3> QED BY <3>1
  <2> QED BY <1>10, <2>1, Zenon
<1>12. ps = Piece(P, i1 - Len(ps), Len(ps))
  BY <1>6, <1>9, <1>10, Zenon
<1> QED BY <1>2, <1>3, <1>5, <1>6, <1>10, <1>11, <1>12, Zenon DEF GrownTo

----------------------------------------------------------------------------
(* DVRIP: the data of a message *)

Begins(data, c) == data # <<>> /\ data[1] = c
Parts(ss, ps) == ss \in Seq(Seq(Cell)) /\ Len(ss) = Len(ps) /\ \A i \in 1 .. Len(ps) : ss[i] = ps[i].data

LEMMA PartsAre ==
  ASSUME NEW ps \in Seq(Packet) PROVE \E ss : Parts(ss, ps) /\ DataOf(ps) = FlattenSeq(ss)
<1>1. PICK ss : ss = [i \in DOMAIN ps |-> ps[i].data]
  OBVIOUS
<1>2. DOMAIN ps = 1 .. Len(ps) /\ Len(ps) \in Nat
  OBVIOUS
<1>3. \A i \in DOMAIN ps : ps[i].data \in Seq(Cell)
  <2>1. \A p \in Packet : p.data \in Seq(Cell)
    BY Zenon DEF Packet
  <2>2. \A i \in DOMAIN ps : ps[i] \in Packet
    OBVIOUS
  <2> QED BY <2>1, <2>2
<1>4. ss \in Seq(Seq(Cell)) /\ Len(ss) = Len(ps) /\ \A i \in 1 .. Len(ps) : ss[i] = ps[i].data
  BY <1>1, <1>2, <1>3
<1> QED BY <1>1, <1>4, Zenon DEF DataOf, Parts

\* The data begins with that of the first packet.
LEMMA DataBegins ==
  ASSUME NEW ps \in Seq(Packet), ps # <<>>, NEW c, Begins(ps[1].data, c)
  PROVE  Begins(DataOf(ps), c)
<1>1. PICK ss : Parts(ss, ps) /\ DataOf(ps) = FlattenSeq(ss)
  BY PartsAre
<1>2. PICK N \in Nat : N = Len(ps) /\ N > 0
  OBVIOUS
<1>3. ss \in Seq(Seq(Cell)) /\ Len(ss) = N /\ Begins(ss[1], c)
  BY <1>1, <1>2 DEF Parts
<1>4. PICK f \in [0 .. N -> Seq(Cell)] : Flattens(f, ss)
  BY <1>3, FlattenExists DEF Flattening
<1>5. DataOf(ps) = f[N]
  BY <1>1, <1>3, <1>4, FlattenIs
<1>6. f[0] = <<>> /\ \A k \in 1 .. N : f[k] = f[k - 1] \o ss[k]
  BY <1>3, <1>4 DEF Flattens
<1> DEFINE T == {k \in Nat : k < N => Begins(f[k + 1], c)}
<1>7. 0 \in T
  <2>1. f[1] = <<>> \o ss[1]
    <3>1. 1 \in 1 .. N /\ 1 - 1 = 0
      BY <1>2
    <3>2. f[1] = f[1 - 1] \o ss[1]
      BY <1>6, <3>1, Zenon
    <3> QED BY <1>6, <3>1, <3>2, Zenon
  <2>2. ss[1] \in Seq(Cell)
    BY <1>2, <1>3
  <2>3. f[1] = ss[1]
    BY <2>1, <2>2, EmptyFirst
  <2> QED BY <1>3, <2>3
<1>8. ASSUME NEW k \in Nat, k \in T PROVE k + 1 \in T
  <2> SUFFICES ASSUME k + 1 < N PROVE Begins(f[(k + 1) + 1], c)
    OBVIOUS
  <2>1. Begins(f[k + 1], c)
    BY <1>2, <1>8
  <2>2. PICK q \in Seq(Cell) : q = f[k + 1]
    BY <1>2, <1>4
  <2>3. PICK t \in Seq(Cell) : t = ss[(k + 1) + 1]
    BY <1>2, <1>3
  <2>4. f[(k + 1) + 1] = q \o t
    <3>1. (k + 1) + 1 \in 1 .. N /\ ((k + 1) + 1) - 1 = k + 1
      BY <1>2
    <3> QED BY <1>6, <2>2, <2>3, <3>1
  <2>5. q # <<>> /\ q[1] = c
    BY <2>1, <2>2 DEF Begins
  <2>6. q \o t # <<>> /\ (q \o t)[1] = c
    BY <2>5
  <2> QED BY <2>4, <2>6 DEF Begins
<1> HIDE DEF T
<1>9. \A k \in Nat : k \in T
  BY <1>7, <1>8, NumbersFromZero
<1>10. Begins(f[N], c)
  <2>1. N - 1 \in Nat /\ N - 1 < N /\ (N - 1) + 1 = N
    BY <1>2
  <2>2. N - 1 \in T
    BY <1>9, <2>1
  <2> QED BY <2>1, <2>2 DEF T
<1> QED BY <1>5, <1>10, Zenon

\* b cells of frame n after the first a.
CellsOf(n, a, b) == [j \in 1 .. b |-> <<n, a + j - 1>>]

\* b values of c after the first a.
Run(c, a, b) == [j \in 1 .. b |-> c[a + j - 1]]

IsRun(q, S, c, a, b) == q \in Seq(S) /\ Len(q) = b /\ \A j \in 1 .. b : q[j] = c[a + j - 1]

LEMMA RunIs ==
  ASSUME NEW S, NEW c \in [Nat -> S], NEW a \in Nat, NEW b \in Nat
  PROVE  IsRun(Run(c, a, b), S, c, a, b)
<1>1. \A j \in 1 .. b : c[a + j - 1] \in S
  <2>1. \A j \in 1 .. b : a + j - 1 \in Nat
    OBVIOUS
  <2> QED BY <2>1
<1>2. PICK q : q = [j \in 1 .. b |-> c[a + j - 1]]
  OBVIOUS
<1>3. q \in Seq(S) /\ Len(q) = b /\ \A j \in 1 .. b : q[j] = c[a + j - 1]
  BY <1>1, <1>2
<1> QED BY <1>2, <1>3 DEF Run, IsRun

LEMMA ConcatIs ==
  ASSUME NEW S, NEW u, NEW t, u \in Seq(S), t \in Seq(S)
  PROVE  u \o t \in Seq(S) /\ Len(u \o t) = Len(u) + Len(t)
  OBVIOUS

LEMMA RunsJoin ==
  ASSUME NEW S, NEW c \in [Nat -> S], NEW a \in Nat, NEW b \in Nat
  PROVE  Run(c, 0, a) \o Run(c, a, b) = Run(c, 0, a + b)
<1>0. 0 \in Nat
  OBVIOUS
<1>1. PICK u : u = Run(c, 0, a) /\ u \in Seq(S) /\ Len(u) = a /\ \A j \in 1 .. a : u[j] = c[0 + j - 1]
  <2>1. IsRun(Run(c, 0, a), S, c, 0, a)
    BY <1>0, RunIs, Zenon
  <2> QED BY <2>1 DEF IsRun
<1>2. PICK t : t = Run(c, a, b) /\ t \in Seq(S) /\ Len(t) = b /\ \A j \in 1 .. b : t[j] = c[a + j - 1]
  <2>1. IsRun(Run(c, a, b), S, c, a, b)
    BY RunIs, Zenon
  <2> QED BY <2>1 DEF IsRun
<1>3. PICK m \in Nat : m = a + b
  OBVIOUS
<1>4. PICK v : v = Run(c, 0, m) /\ v \in Seq(S) /\ Len(v) = m /\ \A j \in 1 .. m : v[j] = c[0 + j - 1]
  <2>1. IsRun(Run(c, 0, m), S, c, 0, m)
    BY <1>0, RunIs, Zenon
  <2> QED BY <2>1 DEF IsRun
<1>5. PICK w : w = u \o t
  OBVIOUS
<1>6. w \in Seq(S) /\ Len(w) = m
  <2>1. u \in Seq(S) /\ t \in Seq(S) /\ Len(u) = a /\ Len(t) = b
    BY <1>1, <1>2
  <2>2. w \in Seq(S) /\ Len(w) = Len(u) + Len(t)
    BY <1>5, <2>1, ConcatIs, Zenon
  <2> QED BY <1>3, <2>1, <2>2
<1>7. ASSUME NEW j \in 1 .. m, j <= a PROVE w[j] = v[j]
  <2>1. w[j] = u[j] /\ j \in 1 .. a
    BY <1>1, <1>2, <1>3, <1>5, <1>7
  <2> QED BY <1>1, <1>4, <2>1
<1>8. ASSUME NEW j \in 1 .. m, j > a PROVE w[j] = v[j]
  <2>1. j - a \in 1 .. b /\ a + (j - a) - 1 = 0 + j - 1
    BY <1>3, <1>8
  <2>2. w[j] = t[j - a]
    BY <1>1, <1>2, <1>3, <1>5, <1>8
  <2> QED BY <1>2, <1>4, <2>1, <2>2
<1>9. w = v
  <2>1. \A j \in 1 .. m : j <= a \/ j > a
    OBVIOUS
  <2>2. \A j \in 1 .. m : w[j] = v[j]
    BY <1>7, <1>8, <2>1
  <2> QED BY <1>4, <1>6, <2>2
<1> QED BY <1>1, <1>2, <1>3, <1>4, <1>5, <1>9, Zenon

Joins(n, a, b) == CellsOf(n, 0, a) \o CellsOf(n, a, b) = CellsOf(n, 0, a + b)

LEMMA CellsJoin ==
  ASSUME NEW n \in Nat, NEW a \in Nat, NEW b \in Nat
  PROVE  Joins(n, a, b)
<1>1. PICK c : c = [i \in Nat |-> <<n, i>>]
  OBVIOUS
<1>2. c \in [Nat -> Cell]
  <2>1. \A i \in Nat : <<n, i>> \in Cell
    BY DEF Cell
  <2> QED BY <1>1, <2>1
<1>3. ASSUME NEW o \in Nat, NEW m \in Nat PROVE CellsOf(n, o, m) = Run(c, o, m)
  <2>1. \A j \in 1 .. m : o + j - 1 \in Nat
    OBVIOUS
  <2>2. \A j \in 1 .. m : <<n, o + j - 1>> = c[o + j - 1]
    BY <1>1, <2>1
  <2> QED BY <2>2 DEF CellsOf, Run
<1>4. PICK m \in Nat : m = a + b
  OBVIOUS
<1>5. CellsOf(n, 0, a) = Run(c, 0, a) /\ CellsOf(n, a, b) = Run(c, a, b) /\ CellsOf(n, 0, m) = Run(c, 0, m)
  <2>1. 0 \in Nat
    OBVIOUS
  <2> QED BY <1>3, <2>1, Zenon
<1>6. Run(c, 0, a) \o Run(c, a, b) = Run(c, 0, a + b)
  BY <1>2, RunsJoin
<1> QED BY <1>4, <1>5, <1>6, Zenon DEF Joins

\* The data of a frame's first packets.
LEMMA DataOfFirst ==
  ASSUME NEW n \in Nat, NEW s \in Shapes, NEW k \in 0 .. Len(s.sizes)
  PROVE  DataOf(Piece(PacketsOf(n, s.sizes), 0, k)) = [j \in 1 .. Ends(s.sizes)[k] |-> <<n, j - 1>>]
<1>1. PICK L \in Nat : L = Len(s.sizes) /\ L > 0
  BY ShapeSizes
<1>2. PICK z \in Seq(Nat) : z = s.sizes /\ Len(z) = L
  BY <1>1, ShapeSizes
<1>3. PICK P : P = PacketsOf(n, z)
  OBVIOUS
<1>4. \A i \in 1 .. L : /\ P[i] \in Packet
                        /\ P[i].data = [j \in 1 .. z[i] |-> <<n, Ends(z)[i - 1] + j - 1>>]
  <2> SUFFICES ASSUME NEW i \in 1 .. Len(s.sizes)
               PROVE  P[i] \in Packet /\ P[i].data = [j \in 1 .. z[i] |-> <<n, Ends(z)[i - 1] + j - 1>>]
    BY <1>1, Zenon
  <2>1. PacketIs(P[i], n, s, i)
    BY <1>2, <1>3, PacketsAre, Zenon
  <2> QED BY <1>2, <2>1, Zenon DEF PacketIs
<1>5. P \in [1 .. L -> Packet]
  <2>1. DOMAIN z = 1 .. L
    BY <1>2
  <2>2. P = [i \in 1 .. L |-> P[i]]
    BY <1>3, <2>1 DEF PacketsOf
  <2> QED BY <1>4, <2>2
<1>6. PICK ps : ps = Piece(P, 0, k)
  OBVIOUS
<1>7. k \in Nat /\ Within(P, L, 0, k)
  BY <1>1, <1>5 DEF Within
<1>8. ps \in Seq(Packet) /\ Len(ps) = k /\ \A x \in 1 .. k : ps[x] = P[x]
  <2>1. IsPiece(ps, P, 0, k)
    BY <1>6, <1>7, PieceType, Zenon
  <2>2. \A x \in 1 .. k : 0 + x = x
    BY <1>7
  <2> QED BY <2>1, <2>2 DEF IsPiece
<1>9. PICK ss : Parts(ss, ps) /\ DataOf(ps) = FlattenSeq(ss)
  BY <1>8, PartsAre
<1>10. ss \in Seq(Seq(Cell)) /\ Len(ss) = k /\ \A i \in 1 .. k : ss[i] = P[i].data
  BY <1>8, <1>9 DEF Parts
<1>11. PICK f \in [0 .. k -> Seq(Cell)] : Flattens(f, ss)
  BY <1>10, FlattenExists DEF Flattening
<1>12. DataOf(ps) = f[k]
  BY <1>9, <1>10, <1>11, FlattenIs
<1>13. f[0] = <<>> /\ \A m \in 1 .. k : f[m] = f[m - 1] \o ss[m]
  BY <1>10, <1>11 DEF Flattens
<1>14. PICK e \in [0 .. L -> Nat] : e = Ends(z) /\ e[0] = 0 /\ \A i \in 1 .. L : e[i] = e[i - 1] + z[i]
  BY <1>2, EndsAre
<1> DEFINE Upto(m) == [j \in 1 .. m |-> <<n, j - 1>>]
           T == {m \in Nat : m <= k => f[m] = Upto(e[m])}
<1>15. 0 \in T
  BY <1>13, <1>14
<1>16. ASSUME NEW m \in Nat, m \in T PROVE m + 1 \in T
  <2> SUFFICES ASSUME m + 1 <= k PROVE f[m + 1] = Upto(e[m + 1])
    OBVIOUS
  <2>1. m + 1 \in 1 .. k /\ m + 1 \in 1 .. L /\ (m + 1) - 1 = m /\ m \in 0 .. L
    BY <1>1, <1>7
  <2>2. f[m] = Upto(e[m])
    BY <1>16, <2>1
  <2>3. PICK a \in Nat : a = e[m]
    BY <1>14, <2>1
  <2>4. PICK b \in Nat : b = z[m + 1]
    <3>1. m + 1 \in 1 .. Len(z) /\ z \in Seq(Nat)
      BY <1>2, <2>1, Zenon
    <3>2. z[m + 1] \in Nat
      BY ONLY <3>1, ElementIn
    <3> QED BY <3>2
  <2>5. e[m + 1] = a + b
    BY <1>14, <2>1, <2>3, <2>4
  <2>6. PICK t : t = [j \in 1 .. b |-> <<n, a + j - 1>>]
    OBVIOUS
  <2>7. ss[m + 1] = t
    <3>1. Ends(z)[(m + 1) - 1] = a
      BY <1>14, <2>1, <2>3, Zenon
    <3>2. P[m + 1].data = [j \in 1 .. z[m + 1] |-> <<n, Ends(z)[(m + 1) - 1] + j - 1>>]
      BY <1>4, <2>1, Zenon
    <3> QED BY <1>10, <2>1, <2>4, <2>6, <3>1, <3>2
  <2>8. f[m + 1] = Upto(a) \o t
    BY <1>13, <2>1, <2>2, <2>3, <2>7
  <2>9. Upto(a) \o t = Upto(a + b)
    <3>1. \A j \in Nat : 0 + j - 1 = j - 1
      OBVIOUS
    <3>2. \A m1 \in Nat : Upto(m1) = CellsOf(n, 0, m1)
      BY <3>1 DEF CellsOf
    <3>3. t = CellsOf(n, a, b)
      BY <2>6 DEF CellsOf
    <3>4. CellsOf(n, 0, a) \o CellsOf(n, a, b) = CellsOf(n, 0, a + b) /\ a + b \in Nat
      <4>1. Joins(n, a, b)
        BY CellsJoin, Zenon
      <4>2. a \in Nat /\ b \in Nat
        BY <2>3, <2>4
      <4>3. a + b \in Nat
        BY <4>2
      <4> QED BY <4>1, <4>3, Zenon DEF Joins
    <3> HIDE DEF Upto, T
    <3> QED BY <3>2, <3>3, <3>4
  <2> QED BY <2>5, <2>8, <2>9, Zenon
<1> HIDE DEF T
<1>17. \A m \in Nat : m \in T
  BY <1>15, <1>16, NumbersFromZero
<1>18. f[k] = Upto(e[k])
  <2>1. k \in T /\ k <= k
    BY <1>7, <1>17
  <2> QED BY <2>1 DEF T
<1> QED BY <1>2, <1>3, <1>6, <1>12, <1>14, <1>18, Zenon

----------------------------------------------------------------------------
(* DVRIP: the steps of the packets *)

FirstCell(fs, r, b) == <<r, Ends(fs[r].sizes)[b - 1]>>

LEMMA PacketAt ==
  ASSUME NEW fs \in Seq(Shapes), NEW r \in 1 .. Len(fs), NEW b \in 1 .. LenOf(fs, r)
  PROVE  /\ Pk(fs, r)[b] \in Packet /\ IsMedia(Pk(fs, r)[b])
         /\ IsLast(Pk(fs, r)[b]) <=> b = LenOf(fs, r)
         /\ IsSingle(Pk(fs, r)[b]) => b = LenOf(fs, r)
         /\ Begins(Pk(fs, r)[b].data, FirstCell(fs, r, b))
<1>1. PICK s \in Shapes : s = fs[r]
  OBVIOUS
<1>2. PICK L \in Nat : L = Len(s.sizes) /\ LenOf(fs, r) = L /\ Pk(fs, r) = PacketsOf(r, s.sizes)
  <2>1. r # 0
    OBVIOUS
  <2> QED BY <1>1, <2>1, ShapeSizes DEF LenOf, Pk
<1>3. r \in Nat /\ b \in 1 .. L
  BY <1>2
<1>4. PICK p : p = PacketsOf(r, s.sizes)[b]
  OBVIOUS
<1>5. /\ p \in Packet /\ IsMedia(p) /\ (IsLast(p) <=> b = L) /\ (IsSingle(p) => b = L)
      /\ p.data = [j \in 1 .. s.sizes[b] |-> <<r, Ends(s.sizes)[b - 1] + j - 1>>]
  <2>1. b \in 1 .. Len(s.sizes)
    BY <1>2, <1>3, Zenon
  <2>2. /\ p \in Packet /\ IsMedia(p) /\ (IsLast(p) <=> b = Len(s.sizes)) /\ (IsSingle(p) => b = Len(s.sizes))
        /\ p.data = [j \in 1 .. s.sizes[b] |-> <<r, Ends(s.sizes)[b - 1] + j - 1>>]
    <3>1. PacketIs(p, r, s, b)
      BY <1>3, <1>4, <2>1, PacketsAre, Zenon
    <3> QED BY <3>1, Zenon DEF PacketIs
  <2> QED BY <1>2, <2>2, Zenon
<1>6. Begins(p.data, <<r, Ends(s.sizes)[b - 1]>>)
  <2>1. PICK z \in Seq(Nat) : z = s.sizes /\ z \in Sizes
    BY ShapeSizes
  <2>2. PICK m \in Nat : m = z[b] /\ m > 0
    BY <1>2, <1>3, <2>1 DEF Sizes
  <2>3. PICK e \in Nat : e = Ends(z)[b - 1]
    <3>1. b - 1 \in 0 .. Len(z)
      BY <1>2, <1>3, <2>1
    <3> QED BY <2>1, <3>1, EndsType
  <2>4. p.data = [j \in 1 .. m |-> <<r, e + j - 1>>]
    BY <1>5, <2>1, <2>2, <2>3
  <2>5. 1 \in 1 .. m /\ e + 1 - 1 = e
    BY <2>2, <2>3
  <2>6. p.data[1] = <<r, e>>
    BY <2>4, <2>5
  <2>7. p.data # <<>>
    BY <2>2, <2>4
  <2> QED BY <2>1, <2>3, <2>6, <2>7 DEF Begins
<1> QED BY <1>1, <1>2, <1>4, <1>5, <1>6 DEF FirstCell

LEMMA FlightRead ==
  ASSUME NEW fs \in Seq(Shapes), NEW ms \in Seq(Packet), NEW wi \in Seq(Packet), NEW sd, NEW hd, NEW ct, NEW d, NEW cn,
         wi # <<>>, InFlight(fs, ms, wi, sd, "header", hd, ct, d, cn)
  PROVE  InFlight(fs, ms, <<>>, sd, "data", wi[1], ct, d, cn)
<1>1. PICK r \in Nat, i \in Nat, j \in Nat, h \in Bit, w \in Bit :
        FlightAt(fs, r, i, j, h, w, ms, wi, sd, "header", hd, ct, d, cn)
  BY DEF InFlight
<1>2. /\ ReaderAt(fs, r, i, ms) /\ CameraAt(fs, j, w, wi, sd, ct) /\ HeadAt(fs, r, i, h, "header", hd, ct)
      /\ ProgressAt(fs, r, i, Len(ms), ct, d) /\ cn = "open" /\ LinkAt(fs, r, i, j, h, w)
  BY <1>1 DEF FlightAt
<1>3. h = 0
  BY <1>2 DEF HeadAt
<1>4. PICK N \in Nat : N = Len(fs)
  OBVIOUS
<1>5. j \in 0 .. LenOf(fs, N) /\ sd = Piece(Pk(fs, N), j, LenOf(fs, N) - j)
  BY <1>2, <1>4 DEF CameraAt
<1>6. CameraAt(fs, j, 0, <<>>, sd, ct)
  BY <1>4, <1>5 DEF CameraAt
<1>7. CASE w = 0
  <2>1. PICK a \in Answers : wi = <<a>> /\ (0 < j /\ j < LenOf(fs, N) => N \in ct)
    BY <1>2, <1>4, <1>7 DEF CameraAt
  <2>2. r = N /\ j = i
    BY <1>2, <1>3, <1>4, <1>7 DEF LinkAt
  <2>3. wi[1] = a
    BY <2>1
  <2>4. HeadAt(fs, r, i, 0, "data", wi[1], ct)
    BY <2>1, <2>2, <2>3 DEF HeadAt
  <2>5. LinkAt(fs, r, i, j, 0, 0)
    BY <1>4, <2>2 DEF LinkAt
  <2>6. FlightAt(fs, r, i, j, 0, 0, ms, <<>>, sd, "data", wi[1], ct, d, cn)
    BY <1>2, <1>6, <2>4, <2>5 DEF FlightAt
  <2> QED BY <2>6, Bits DEF InFlight
<1>8. CASE w = 1
  <2>1. j > 0 /\ wi = <<Pk(fs, N)[j]>> /\ wi[1] = Pk(fs, N)[j]
    BY <1>2, <1>4, <1>8 DEF CameraAt
  <2>2. CASE r = N /\ j = i + h + w
    <3>1. j = i + 1
      BY <1>3, <1>8, <2>2
    <3>2. LenOf(fs, r) = LenOf(fs, N) /\ Pk(fs, r) = Pk(fs, N)
      BY <2>2
    <3>3. i < LenOf(fs, r) /\ wi[1] = Pk(fs, r)[i + 1]
      <4>1. PICK l : l = LenOf(fs, N)
        OBVIOUS
      <4>2. j \in 0 .. l /\ LenOf(fs, r) = l
        BY <1>5, <3>2, <4>1, Zenon
      <4>3. l \in Nat
        BY <1>4, <4>1, PkAre
      <4>4. i < l
        BY <3>1, <4>2, <4>3
      <4> QED BY <2>1, <3>1, <3>2, <4>2, <4>4, Zenon
    <3>4. HeadAt(fs, r, i, 1, "data", wi[1], ct)
      BY <3>3 DEF HeadAt
    <3>5. LinkAt(fs, r, i, j, 1, 0)
      BY <1>4, <2>2, <3>1 DEF LinkAt
    <3>6. FlightAt(fs, r, i, j, 1, 0, ms, <<>>, sd, "data", wi[1], ct, d, cn)
      BY <1>2, <1>6, <3>4, <3>5 DEF FlightAt
    <3> QED BY <3>6, Bits DEF InFlight
  <2>3. CASE r + 1 = N /\ i + h = LenOf(fs, r) /\ j = 1
    <3>1. i = LenOf(fs, r) /\ ms = <<>> /\ Len(ms) = 0
      BY <1>2, <1>3, <2>3 DEF ReaderAt
    <3>2. N \in 0 .. Len(fs) /\ LenOf(fs, N) \in Nat
      BY <1>4, PkAre
    <3>3. ReaderAt(fs, N, 0, ms)
      <4>1. ms = Piece(Pk(fs, N), 0 - Len(ms), Len(ms))
        <5>1. 0 - Len(ms) = 0
          <6>1. 0 - 0 = 0
            OBVIOUS
          <6> QED BY <3>1, <6>1, Zenon
        <5>2. Piece(Pk(fs, N), 0, 0) = <<>>
          BY PieceNone
        <5>3. Piece(Pk(fs, N), 0 - Len(ms), Len(ms)) = Piece(Pk(fs, N), 0, 0)
          BY <3>1, <5>1, Zenon
        <5> QED BY <3>1, <5>2, <5>3, Zenon
      <4>2. N \in 0 .. Len(fs) /\ 0 \in 0 .. LenOf(fs, N) /\ Len(ms) <= 0
        BY <3>1, <3>2
      <4> QED BY <3>1, <4>1, <4>2 DEF ReaderAt
    <3>4. HeadAt(fs, N, 0, 1, "data", wi[1], ct)
      <4>1. 0 < LenOf(fs, N) /\ wi[1] = Pk(fs, N)[0 + 1]
        BY <1>5, <2>1, <2>3, <3>2
      <4> QED BY <4>1 DEF HeadAt
    <3>5. LinkAt(fs, N, 0, j, 1, 0)
      BY <1>4, <2>3 DEF LinkAt
    <3>6. ProgressAt(fs, N, 0, Len(ms), ct, d)
      <4>1. PICK l \in Nat : l = LenOf(fs, r)
        BY <3>1
      <4>2. d \in Nat /\ d <= r /\ (\A m \in d + 1 .. r - 1 : m \in ct) /\ (r # d /\ i > 0 => r \in ct)
        BY <1>2, <3>1 DEF ProgressAt
      <4>3. r # 0 => i > 0
        <5>1. r \in 0 .. Len(fs)
          BY <1>2 DEF ReaderAt
        <5>2. r # 0 => LenOf(fs, r) > 0
          BY <5>1, PkAre
        <5> QED BY <3>1, <5>2
      <4>4. r # d => r \in ct
        BY <4>2, <4>3
      <4>5. \A m \in d + 1 .. N - 1 : m \in ct
        <5> SUFFICES ASSUME NEW m \in d + 1 .. N - 1 PROVE m \in ct
          OBVIOUS
        <5>1. m \in d + 1 .. r - 1 \/ (m = r /\ r # d)
          BY <2>3, <4>2
        <5> QED BY <4>2, <4>4, <5>1
      <4>6. d <= N /\ d # N
        BY <2>3, <4>2
      <4> QED BY <3>1, <4>2, <4>5, <4>6 DEF ProgressAt
    <3>7. FlightAt(fs, N, 0, j, 1, 0, ms, <<>>, sd, "data", wi[1], ct, d, cn)
      BY <1>2, <1>6, <3>3, <3>4, <3>5, <3>6 DEF FlightAt
    <3> QED BY <3>7, Bits DEF InFlight
  <2> QED BY <1>2, <1>4, <2>2, <2>3 DEF LinkAt
<1> QED BY <1>7, <1>8, Bits

\* Between messages: nothing of the flight changes.
LEMMA FlightCalls ==
  ASSUME NEW fs, NEW ms, NEW wi, NEW sd, NEW at, NEW hd, NEW ct, NEW d, NEW cn, NEW at1, NEW hd1,
         at # "data", at1 # "data", InFlight(fs, ms, wi, sd, at, hd, ct, d, cn)
  PROVE  InFlight(fs, ms, wi, sd, at1, hd1, ct, d, cn)
<1>1. PICK r \in Nat, i \in Nat, j \in Nat, h \in Bit, w \in Bit :
        FlightAt(fs, r, i, j, h, w, ms, wi, sd, at, hd, ct, d, cn)
  BY DEF InFlight
<1>2. HeadAt(fs, r, i, h, at1, hd1, ct)
  BY <1>1 DEF FlightAt, HeadAt
<1>3. FlightAt(fs, r, i, j, h, w, ms, wi, sd, at1, hd1, ct, d, cn)
  BY <1>1, <1>2 DEF FlightAt
<1> QED BY <1>3, Bits DEF InFlight

LEMMA FlightLost ==
  ASSUME NEW fs, NEW ms, NEW wi, NEW sd, NEW at, NEW hd, NEW ct, NEW d, NEW cn,
         InFlight(fs, ms, wi, sd, at, hd, ct, d, cn)
  PROVE  InFlight(fs, ms, <<>>, sd, at, hd, ct, d, "lost")
<1>1. PICK r \in Nat, i \in Nat, j \in Nat, h \in Bit, w \in Bit :
        FlightAt(fs, r, i, j, h, w, ms, wi, sd, at, hd, ct, d, cn)
  BY DEF InFlight
<1>2. CameraAt(fs, j, 0, <<>>, sd, ct)
  BY <1>1 DEF FlightAt, CameraAt
<1>3. FlightAt(fs, r, i, j, h, 0, ms, <<>>, sd, at, hd, ct, d, "lost")
  BY <1>1, <1>2 DEF FlightAt
<1> QED BY <1>3, Bits DEF InFlight

\* Nothing is on the wire, so what has been sent has been read.
CaughtUp(fs, r, i, h, L, k, ms, sd, at, hd, ct, d) ==
  /\ r = Len(fs) /\ L = LenOf(fs, r) /\ i + h <= L /\ k = L - (i + h)
  /\ ReaderAt(fs, r, i, ms) /\ HeadAt(fs, r, i, h, at, hd, ct) /\ ProgressAt(fs, r, i, Len(ms), ct, d)
  /\ sd = Piece(Pk(fs, r), i + h, k) /\ Within(Pk(fs, r), L, i + h, k)

Caught(fs, ms, sd, at, hd, ct, d) ==
  \E r \in Nat, i \in Nat, h \in Bit, L \in Nat, k \in Nat :
    CaughtUp(fs, r, i, h, L, k, ms, sd, at, hd, ct, d)

LEMMA NothingOnTheWire ==
  ASSUME NEW fs \in Seq(Shapes), NEW ms, NEW sd, NEW at, NEW hd, NEW ct, NEW d,
         InFlight(fs, ms, <<>>, sd, at, hd, ct, d, "open")
  PROVE  Caught(fs, ms, sd, at, hd, ct, d)
<1>1. PICK r \in Nat, i \in Nat, j \in Nat, h \in Bit, w \in Bit :
        FlightAt(fs, r, i, j, h, w, ms, <<>>, sd, at, hd, ct, d, "open")
  BY DEF InFlight
<1>2. /\ ReaderAt(fs, r, i, ms) /\ CameraAt(fs, j, w, <<>>, sd, ct) /\ HeadAt(fs, r, i, h, at, hd, ct)
      /\ ProgressAt(fs, r, i, Len(ms), ct, d) /\ LinkAt(fs, r, i, j, h, w)
  BY <1>1 DEF FlightAt
<1>3. w = 0
  BY <1>2 DEF CameraAt
<1>4. r = Len(fs) /\ j = i + h
  BY <1>2, <1>3 DEF LinkAt
<1>5. PICK L \in Nat : L = LenOf(fs, r) /\ Pk(fs, r) \in [1 .. L -> Packet]
  BY <1>2, PkAre DEF ReaderAt
<1>6. j \in 0 .. L /\ sd = Piece(Pk(fs, r), j, L - j)
  BY <1>2, <1>4, <1>5 DEF CameraAt
<1>7. PICK k \in Nat : k = L - j
  BY <1>5, <1>6
<1>8. Within(Pk(fs, r), L, j, k)
  BY <1>5, <1>6, <1>7 DEF Within
<1>9. i + h <= L /\ k = L - (i + h) /\ sd = Piece(Pk(fs, r), i + h, k) /\ Within(Pk(fs, r), L, i + h, k)
  BY <1>4, <1>6, <1>7, <1>8
<1>10. CaughtUp(fs, r, i, h, L, k, ms, sd, at, hd, ct, d)
  BY <1>2, <1>4, <1>5, <1>9 DEF CaughtUp
<1> QED BY <1>10 DEF Caught

\* The next packet of the frame.
LEMMA FlightNext ==
  ASSUME NEW fs \in Seq(Shapes), NEW ms, NEW sd, NEW at, NEW hd, NEW ct, NEW d,
         sd # <<>>, InFlight(fs, ms, <<>>, sd, at, hd, ct, d, "open")
  PROVE  InFlight(fs, ms, <<Head(sd)>>, Tail(sd), at, hd, ct, d, "open")
<1>1. PICK r \in Nat, i \in Nat, h \in Bit, L \in Nat, k \in Nat :
        CaughtUp(fs, r, i, h, L, k, ms, sd, at, hd, ct, d)
  <2>1. Caught(fs, ms, sd, at, hd, ct, d)
    BY NothingOnTheWire, Zenon
  <2> QED BY <2>1 DEF Caught
<1>0. /\ r = Len(fs) /\ L = LenOf(fs, r) /\ i + h <= L /\ k = L - (i + h)
      /\ ReaderAt(fs, r, i, ms) /\ HeadAt(fs, r, i, h, at, hd, ct) /\ ProgressAt(fs, r, i, Len(ms), ct, d)
      /\ sd = Piece(Pk(fs, r), i + h, k) /\ Within(Pk(fs, r), L, i + h, k)
  BY <1>1 DEF CaughtUp
<1>2. k > 0
  <2>1. k = 0 => sd = <<>>
    BY <1>0, PieceNone
  <2> QED BY <2>1
<1>3. PICK a \in Nat : a = i + h
  BY Bits
<1>4. PICK j \in Nat : j = a + 1
  BY <1>3
<1>5. PICK m \in Nat : m = k - 1
  BY <1>2
<1>6. PICK P : P = Pk(fs, r)
  OBVIOUS
<1>7. Within(P, L, a, k) /\ sd = Piece(P, a, k)
  BY <1>0, <1>3, <1>6
<1>8. Head(sd) = P[j] /\ Tail(sd) = Piece(P, j, m)
  <2>1. Leaves(a, k, j, m)
    BY <1>2, <1>4, <1>5 DEF Leaves
  <2>2. Peels(P, a, k, j, m)
    BY <1>7, <2>1, PieceTail, Zenon
  <2> QED BY <1>7, <2>2, Zenon DEF Peels
<1>9. j \in 0 .. L /\ j > 0 /\ m = L - j
  <2>1. a <= L /\ k = L - a
    BY <1>0, <1>3, Zenon
  <2>2. L \in Nat /\ a \in Nat /\ j = a + 1 /\ m = k - 1 /\ k > 0
    BY <1>2, <1>3, <1>4, <1>5
  <2> QED BY <2>1, <2>2
<1>10. CameraAt(fs, j, 1, <<Head(sd)>>, Tail(sd), ct)
  BY <1>0, <1>6, <1>8, <1>9 DEF CameraAt
<1>11. LinkAt(fs, r, i, j, h, 1)
  BY <1>0, <1>3, <1>4 DEF LinkAt
<1>12. FlightAt(fs, r, i, j, h, 1, ms, <<Head(sd)>>, Tail(sd), at, hd, ct, d, "open")
  BY <1>0, <1>10, <1>11 DEF FlightAt
<1>13. 1 \in Bit
  BY DEF Bit
<1> QED BY <1>12, <1>13, Zenon DEF InFlight

\* A new frame.
LEMMA FlightNew ==
  ASSUME NEW fs \in Seq(Shapes), NEW ms, NEW at, NEW hd, NEW ct, NEW d, NEW s \in Shapes, NEW P,
         InFlight(fs, ms, <<>>, <<>>, at, hd, ct, d, "open"), P = PacketsOf(Len(fs) + 1, s.sizes)
  PROVE  InFlight(Append(fs, s), ms, <<Head(P)>>, Tail(P), at, hd, ct, d, "open")
<1>1. PICK r \in Nat, i \in Nat, h \in Bit, L \in Nat, k \in Nat :
        CaughtUp(fs, r, i, h, L, k, ms, <<>>, at, hd, ct, d)
  <2>1. Caught(fs, ms, <<>>, at, hd, ct, d)
    BY NothingOnTheWire, Zenon
  <2> QED BY <2>1 DEF Caught
<1>0. /\ r = Len(fs) /\ L = LenOf(fs, r) /\ i + h <= L /\ k = L - (i + h)
      /\ ReaderAt(fs, r, i, ms) /\ HeadAt(fs, r, i, h, at, hd, ct) /\ ProgressAt(fs, r, i, Len(ms), ct, d)
      /\ <<>> = Piece(Pk(fs, r), i + h, k) /\ Within(Pk(fs, r), L, i + h, k)
  BY <1>1 DEF CaughtUp
<1>2. k = 0
  <2>1. IsPiece(<<>>, Pk(fs, r), i + h, k)
    BY <1>0, PieceType, Zenon
  <2> QED BY <2>1 DEF IsPiece
<1>3. PICK gs : gs = Append(fs, s)
  OBVIOUS
<1>4. PICK N \in Nat : N = r + 1
  BY <1>0
<1>5. gs \in Seq(Shapes) /\ Len(gs) = N /\ gs[N] = s
  BY <1>0, <1>3, <1>4
<1>6. PICK M \in Nat : M = Len(s.sizes) /\ M > 0
  BY ShapeSizes
<1>7. Pk(gs, N) = P /\ LenOf(gs, N) = M
  BY <1>0, <1>4, <1>5, <1>6 DEF Pk, LenOf
<1>8. P \in [1 .. M -> Packet]
  <2>1. N \in 0 .. Len(gs)
    BY <1>4, <1>5
  <2> QED BY <1>5, <1>7, <2>1, PkAre
<1>9. Head(P) = P[1] /\ Tail(P) = Piece(P, 1, M - 1)
  <2>1. PICK m \in Nat : m = M - 1
    BY <1>6
  <2>2. Piece(P, 0, M) = P /\ Within(P, M, 0, M)
    BY <1>8, PieceAll
  <2>3. Leaves(0, M, 1, m)
    BY <1>6, <2>1 DEF Leaves
  <2>4. Head(Piece(P, 0, M)) = P[1] /\ Tail(Piece(P, 0, M)) = Piece(P, 1, m)
    <3>1. Peels(P, 0, M, 1, m)
      BY <2>2, <2>3, PieceTail, Zenon
    <3> QED BY <3>1 DEF Peels
  <2> QED BY <2>1, <2>2, <2>4
<1>10. CameraAt(gs, 1, 1, <<Head(P)>>, Tail(P), ct)
  <2>1. 1 \in 0 .. M
    BY <1>6
  <2> QED BY <1>5, <1>7, <1>9, <2>1 DEF CameraAt
<1>11. r \in 0 .. Len(fs) /\ Pk(gs, r) = Pk(fs, r) /\ LenOf(gs, r) = LenOf(fs, r)
  BY <1>0, <1>3, PkStays
<1>12. ReaderAt(gs, r, i, ms)
  <2>1. r \in 0 .. Len(gs)
    BY <1>4, <1>5
  <2> QED BY <1>0, <1>11, <2>1 DEF ReaderAt
<1>13. HeadAt(gs, r, i, h, at, hd, ct)
  BY <1>0, <1>11 DEF HeadAt
<1>14. ProgressAt(gs, r, i, Len(ms), ct, d)
  BY <1>0, <1>11 DEF ProgressAt
<1>15. LinkAt(gs, r, i, 1, h, 1)
  <2>1. i + h = L
    BY <1>0, <1>2, Bits
  <2> QED BY <1>0, <1>4, <1>5, <1>11, <2>1 DEF LinkAt
<1>16. FlightAt(gs, r, i, 1, h, 1, ms, <<Head(P)>>, Tail(P), at, hd, ct, d, "open")
  BY <1>10, <1>12, <1>13, <1>14, <1>15 DEF FlightAt
<1>17. InFlight(gs, ms, <<Head(P)>>, Tail(P), at, hd, ct, d, "open")
  <2>1. 1 \in Bit /\ 1 \in Nat
    BY DEF Bit
  <2> QED BY <1>16, <2>1, Zenon DEF InFlight
<1> QED BY <1>3, <1>17, Zenon

\* A reply to a ping; between the packets of a frame it cuts the frame.
LEMMA FlightAnswered ==
  ASSUME NEW fs \in Seq(Shapes), NEW ms, NEW sd, NEW at, NEW hd, NEW ct, NEW d, NEW a \in Answers, NEW ct1,
         InFlight(fs, ms, <<>>, sd, at, hd, ct, d, "open"), ct \subseteq ct1, sd # <<>> => Len(fs) \in ct1
  PROVE  InFlight(fs, ms, <<a>>, sd, at, hd, ct1, d, "open")
<1>1. PICK r \in Nat, i \in Nat, h \in Bit, L \in Nat, k \in Nat :
        CaughtUp(fs, r, i, h, L, k, ms, sd, at, hd, ct, d)
  <2>1. Caught(fs, ms, sd, at, hd, ct, d)
    BY NothingOnTheWire, Zenon
  <2> QED BY <2>1 DEF Caught
<1>0. /\ r = Len(fs) /\ L = LenOf(fs, r) /\ i + h <= L /\ k = L - (i + h)
      /\ ReaderAt(fs, r, i, ms) /\ HeadAt(fs, r, i, h, at, hd, ct) /\ ProgressAt(fs, r, i, Len(ms), ct, d)
      /\ sd = Piece(Pk(fs, r), i + h, k) /\ Within(Pk(fs, r), L, i + h, k)
  BY <1>1 DEF CaughtUp
<1>2. PICK j \in Nat : j = i + h
  BY Bits
<1>3. j < L => Len(fs) \in ct1
  <2> SUFFICES ASSUME j < L PROVE sd # <<>>
    OBVIOUS
  <2>1. k > 0
    BY <1>0, <1>2
  <2>2. IsPiece(sd, Pk(fs, r), i + h, k)
    BY <1>0, PieceType, Zenon
  <2> QED BY <2>1, <2>2 DEF IsPiece
<1>4. CameraAt(fs, j, 0, <<a>>, sd, ct1)
  BY <1>0, <1>2, <1>3 DEF CameraAt
<1>5. HeadAt(fs, r, i, h, at, hd, ct1)
  BY <1>0 DEF HeadAt
<1>6. ProgressAt(fs, r, i, Len(ms), ct1, d)
  BY <1>0 DEF ProgressAt
<1>7. LinkAt(fs, r, i, j, h, 0)
  BY <1>0, <1>2 DEF LinkAt
<1>8. FlightAt(fs, r, i, j, h, 0, ms, <<a>>, sd, at, hd, ct1, d, "open")
  BY <1>0, <1>4, <1>5, <1>6, <1>7 DEF FlightAt
<1> QED BY <1>8, Bits DEF InFlight

----------------------------------------------------------------------------
(* DVRIP: what a message comes to *)

\* A reply ends the message, whatever has been read of it.
LEMMA AnswerEnds ==
  ASSUME NEW fs \in Seq(Shapes), NEW r \in Nat, NEW i \in Nat, NEW ms \in Seq(Packet), ReaderAt(fs, r, i, ms),
         NEW a \in Packet, IsSingle(a)
  PROVE  MessageEnds(Append(ms, a))
<1>1. PICK ps : ps = Append(ms, a)
  OBVIOUS
<1>2. PICK k \in Nat : k = Len(ms)
  OBVIOUS
<1>3. ps \in Seq(Packet) /\ Len(ps) = k + 1 /\ ps[k + 1] = a /\ (k > 0 => ps[1] = ms[1])
  BY <1>1, <1>2
<1>4. ps[Len(ps)] = a
  BY <1>3
<1>5. CASE k = 0
  <2>1. ps[1] = a
    BY <1>3, <1>5
  <2> QED BY <1>1, <2>1 DEF MessageEnds
<1>6. CASE k > 0
  <2>1. IsMedia(ms[1])
    <3>1. ms # <<>> /\ i < LenOf(fs, r)
      BY <1>2, <1>6 DEF ReaderAt
    <3>2. PICK L \in Nat : L = LenOf(fs, r)
      BY PkAre DEF ReaderAt
    <3>3. r \in 0 .. Len(fs) /\ k <= i /\ i <= L /\ ms = Piece(Pk(fs, r), i - k, k)
      BY <1>2, <3>2 DEF ReaderAt
    <3>4. r # 0
      BY <3>1, <3>2 DEF LenOf
    <3>5. PICK c \in Nat : c = i - k
      BY <3>3
    <3>6. ms[1] = Pk(fs, r)[c + 1] /\ c + 1 \in 1 .. L
      <4>1. ms = [x \in 1 .. k |-> Pk(fs, r)[c + x]]
        BY <3>3, <3>5 DEF Piece
      <4>2. 1 \in 1 .. k /\ c + 1 <= L
        BY <1>6, <3>3, <3>5
      <4> QED BY <4>1, <4>2
    <3>7. r \in 1 .. Len(fs)
      BY <3>3, <3>4
    <3> QED BY <3>2, <3>6, <3>7, PacketAt
  <2>2. IsMedia(ps[1])
    BY <1>3, <1>6, <2>1
  <2>3. IsLast(a)
    BY DEF IsLast
  <2> QED BY <1>1, <1>4, <2>2, <2>3, Zenon DEF MessageEnds
<1> QED BY <1>2, <1>5, <1>6

LEMMA FirstCellIs ==
  ASSUME NEW fs \in Seq(Shapes), NEW r \in 1 .. Len(fs), NEW b \in 1 .. LenOf(fs, r)
  PROVE  FirstCell(fs, r, b)[1] = r /\ (FirstCell(fs, r, b)[2] = 0 <=> b = 1)
<1>1. PICK s \in Shapes : s = fs[r]
  OBVIOUS
<1>2. PICK z \in Seq(Nat) : z = s.sizes /\ z \in Sizes
  BY ShapeSizes
<1>3. PICK L \in Nat : L = Len(z) /\ LenOf(fs, r) = L
  <2>1. r # 0
    OBVIOUS
  <2> QED BY <1>1, <1>2, <2>1 DEF LenOf
<1>4. b \in 1 .. L
  BY <1>3
<1>5. FirstCell(fs, r, b) = <<r, Ends(z)[b - 1]>>
  BY <1>1, <1>2 DEF FirstCell
<1>6. Ends(z)[b - 1] = 0 <=> b = 1
  <2>1. CASE b = 1
    <3>1. Ends(z)[0] = 0 /\ b - 1 = 0
      BY <1>2, <2>1, EndsAre
    <3> QED BY <2>1, <3>1
  <2>2. CASE b # 1
    <3>1. b - 1 \in 1 .. Len(z)
      BY <1>3, <1>4, <2>2
    <3>2. Ends(z)[b - 1] > 0
      BY <1>2, <3>1, EndsGrow
    <3> QED BY <2>2, <3>2
  <2> QED BY <2>1, <2>2
<1> QED BY <1>5, <1>6

\* The message of which the packet read last is one more of the frame's.
Grown(fs, r, i, ms, ps) ==
  /\ r \in 1 .. Len(fs) /\ LenOf(fs, r) \in Nat /\ i < LenOf(fs, r) /\ Len(ms) \in Nat /\ Len(ms) <= i
  /\ ps \in Seq(Packet) /\ Len(ps) = Len(ms) + 1 /\ ps = Piece(Pk(fs, r), (i + 1) - Len(ps), Len(ps))
  /\ MessageEnds(ps) <=> i + 1 = LenOf(fs, r)
  /\ DataOf(ps) # <<>> /\ DataOf(ps)[1][1] = r
  /\ Heads(DataOf(ps)) <=> i = Len(ms)

LEMMA MessageIsGrown ==
  ASSUME NEW fs \in Seq(Shapes), NEW r \in Nat, NEW i \in Nat, NEW ms \in Seq(Packet), ReaderAt(fs, r, i, ms),
         i < LenOf(fs, r), NEW hd, hd = Pk(fs, r)[i + 1], NEW ps, ps = Append(ms, hd)
  PROVE  Grown(fs, r, i, ms, ps)
<1>1. PICK L \in Nat : L = LenOf(fs, r) /\ r \in 0 .. Len(fs)
  BY PkAre DEF ReaderAt
<1>2. i < L
  BY <1>1
<1>3. r \in 1 .. Len(fs)
  <2>1. r # 0
    BY <1>1, <1>2 DEF LenOf
  <2> QED BY <1>1, <2>1
<1>4. PICK i1 \in Nat : i1 = i + 1
  OBVIOUS
<1>5. PICK k \in Nat : k = Len(ms) /\ k <= i
  BY DEF ReaderAt
<1>6. /\ ps \in Seq(Packet) /\ Len(ps) = Len(ms) + 1 /\ Len(ps) <= i1
      /\ ps = Piece(Pk(fs, r), i1 - Len(ps), Len(ps))
      /\ ps[Len(ps)] = Pk(fs, r)[i1] /\ ps[1] = Pk(fs, r)[i1 - Len(ms)]
  <2>1. ps = Append(ms, Pk(fs, r)[i1]) /\ i < LenOf(fs, r)
    BY <1>4, Zenon
  <2>2. GrownTo(fs, r, i1, ms, ps)
    BY <1>4, <2>1, MessageGrows, Zenon
  <2> QED BY <2>2, Zenon DEF GrownTo
<1>7. PICK b \in 1 .. L : b = i1 - k
  <2>1. i1 - k \in 1 .. L
    BY <1>2, <1>4, <1>5
  <2> QED BY <2>1
<1>8. i1 \in 1 .. L
  BY <1>2, <1>4
<1>9. PICK p : p = ps[1]
  OBVIOUS
<1>10. PICK q : q = ps[Len(ps)]
  OBVIOUS
<1>11. p = Pk(fs, r)[b] /\ q = Pk(fs, r)[i1]
  BY <1>5, <1>6, <1>7, <1>9, <1>10, Zenon
<1>12. IsMedia(p) /\ (IsSingle(p) => b = L) /\ Begins(p.data, FirstCell(fs, r, b))
  BY <1>1, <1>3, <1>7, <1>11, PacketAt
<1>13. IsMedia(q) /\ (IsLast(q) <=> i1 = L)
  BY <1>1, <1>3, <1>8, <1>11, PacketAt
<1>14. MessageEnds(ps) <=> i1 = L
  <2>1. MessageEnds(ps) <=> IsSingle(p) \/ IsLast(q)
    BY <1>9, <1>10, <1>12, <1>13, Zenon DEF MessageEnds
  <2>2. b = L => i1 = L
    BY <1>5, <1>7, <1>8
  <2>3. IsSingle(p) => i1 = L
    BY <1>12, <2>2, Zenon
  <2>4. IsLast(q) <=> i1 = L
    BY <1>13, Zenon
  <2> QED BY <2>1, <2>3, <2>4, Zenon
<1>15. Begins(DataOf(ps), FirstCell(fs, r, b))
  <2>1. ps # <<>>
    <3>1. Len(ps) = k + 1
      BY <1>5, <1>6, Zenon
    <3>2. ps = <<>> => Len(ps) = 0
      OBVIOUS
    <3> QED BY ONLY <3>1, <3>2, k \in Nat
  <2> QED BY <1>6, <1>9, <1>12, <2>1, DataBegins
<1>16. FirstCell(fs, r, b)[1] = r /\ (FirstCell(fs, r, b)[2] = 0 <=> b = 1)
  BY <1>1, <1>3, <1>7, FirstCellIs
<1>17. DataOf(ps) # <<>> /\ DataOf(ps)[1][1] = r /\ (Heads(DataOf(ps)) <=> b = 1)
  BY <1>15, <1>16, Zenon DEF Begins, Heads
<1>18. b = 1 <=> i = k
  BY <1>4, <1>5, <1>7
<1> QED BY <1>1, <1>2, <1>3, <1>4, <1>5, <1>6, <1>14, <1>17, <1>18, Zenon DEF Grown

LEMMA FlightAnswer ==
  ASSUME NEW fs \in Seq(Shapes), NEW r \in Nat, NEW i \in Nat, NEW j \in Nat, NEW w \in Bit, NEW ms, NEW wi, NEW sd,
         NEW hd, NEW ct, NEW d, NEW cn, NEW hd1, FlightAt(fs, r, i, j, 0, w, ms, wi, sd, "data", hd, ct, d, cn)
  PROVE  hd \in Answers /\ InFlight(fs, <<>>, wi, sd, "raw", hd1, ct, d, cn)
<1>1. /\ ReaderAt(fs, r, i, ms) /\ CameraAt(fs, j, w, wi, sd, ct)
      /\ ProgressAt(fs, r, i, Len(ms), ct, d)
      /\ IF cn = "open" THEN LinkAt(fs, r, i, j, 0, w) ELSE wi = <<>>
  BY DEF FlightAt
<1>2. hd \in Answers /\ (0 < i /\ i < LenOf(fs, r) => r \in ct)
  BY DEF FlightAt, HeadAt
<1>3. ReaderAt(fs, r, i, <<>>)
  <2>1. Len(<<>>) = 0 /\ i - 0 = i
    OBVIOUS
  <2>2. Piece(Pk(fs, r), i - Len(<<>>), Len(<<>>)) = <<>>
    BY <2>1, PieceNone
  <2> QED BY <1>1, <2>1, <2>2 DEF ReaderAt
<1>4. ProgressAt(fs, r, i, Len(<<>>), ct, d)
  <2>1. Len(<<>>) = 0
    OBVIOUS
  <2>2. PICK L \in Nat : L = LenOf(fs, r) /\ i <= L
    BY <1>1, PkAre DEF ReaderAt
  <2>3. i = L => ms = <<>>
    BY <1>1, <2>2 DEF ReaderAt
  <2>4. i = L /\ r # d /\ i > 0 => r \in ct
    BY <1>1, <2>1, <2>3 DEF ProgressAt
  <2>5. i < L /\ i > 0 => r \in ct
    BY <1>2, <2>2
  <2>6. r # d /\ i > 0 => r \in ct
    BY <2>2, <2>4, <2>5
  <2> QED BY <1>1, <2>1, <2>6 DEF ProgressAt
<1>5. HeadAt(fs, r, i, 0, "raw", hd1, ct)
  BY DEF HeadAt
<1>6. FlightAt(fs, r, i, j, 0, w, <<>>, wi, sd, "raw", hd1, ct, d, cn)
  BY <1>1, <1>3, <1>4, <1>5, Zenon DEF FlightAt
<1> QED BY <1>2, <1>6, Bits DEF InFlight

\* What is true of the camera once a packet of the frame has been read.
PacketRead(fs, r, i, j, w, ms, wi, sd, ct, d, cn, ps, i1) ==
  /\ Grown(fs, r, i, ms, ps) /\ CameraAt(fs, j, w, wi, sd, ct)
  /\ IF cn = "open" THEN LinkAt(fs, r, i1, j, 0, w) ELSE wi = <<>>
  /\ ProgressAt(fs, r, i, Len(ms), ct, d) /\ d < r

LEMMA FlightPacket ==
  ASSUME NEW fs \in Seq(Shapes), NEW r \in Nat, NEW i \in Nat, NEW j \in Nat, NEW w \in Bit, NEW ms \in Seq(Packet),
         NEW wi, NEW sd, NEW hd, NEW ct, NEW d, NEW cn, NEW ps, ps = Append(ms, hd), NEW i1, i1 = i + 1,
         FlightAt(fs, r, i, j, 1, w, ms, wi, sd, "data", hd, ct, d, cn)
  PROVE  PacketRead(fs, r, i, j, w, ms, wi, sd, ct, d, cn, ps, i1)
<1>1. /\ ReaderAt(fs, r, i, ms) /\ CameraAt(fs, j, w, wi, sd, ct)
      /\ ProgressAt(fs, r, i, Len(ms), ct, d)
      /\ IF cn = "open" THEN LinkAt(fs, r, i, j, 1, w) ELSE wi = <<>>
  BY DEF FlightAt
<1>2. i < LenOf(fs, r) /\ hd = Pk(fs, r)[i + 1]
  BY DEF FlightAt, HeadAt
<1>3. Grown(fs, r, i, ms, ps)
  BY <1>1, <1>2, MessageIsGrown
<1>4. LinkAt(fs, r, i, j, 1, w) => LinkAt(fs, r, i1, j, 0, w)
  <2>1. i + 1 + w = i1 + 0 + w /\ i + 1 = i1 + 0
    BY Bits
  <2> QED BY <2>1 DEF LinkAt
<1>5. d < r
  <2>1. PICK L \in Nat : L = LenOf(fs, r)
    BY <1>3 DEF Grown
  <2>2. d \in Nat /\ d <= r /\ (d = r => i = L)
    BY <1>1, <2>1 DEF ProgressAt
  <2>3. i < L
    BY <1>2, <2>1
  <2> QED BY <2>2, <2>3
<1> QED BY <1>1, <1>3, <1>4, <1>5 DEF PacketRead

LEMMA FlightMore ==
  ASSUME NEW fs \in Seq(Shapes), NEW r \in Nat, NEW i \in Nat, NEW j \in Nat, NEW w \in Bit, NEW ms \in Seq(Packet),
         NEW wi, NEW sd, NEW hd, NEW ct, NEW d, NEW cn, NEW ps, ps = Append(ms, hd), NEW hd1,
         FlightAt(fs, r, i, j, 1, w, ms, wi, sd, "data", hd, ct, d, cn), ~MessageEnds(ps)
  PROVE  InFlight(fs, ps, wi, sd, "header", hd1, ct, d, cn)
<1>1. PICK i1 \in Nat : i1 = i + 1
  OBVIOUS
<1>2. /\ Grown(fs, r, i, ms, ps) /\ CameraAt(fs, j, w, wi, sd, ct)
      /\ IF cn = "open" THEN LinkAt(fs, r, i1, j, 0, w) ELSE wi = <<>>
      /\ ProgressAt(fs, r, i, Len(ms), ct, d) /\ d < r
  <2>1. PacketRead(fs, r, i, j, w, ms, wi, sd, ct, d, cn, ps, i1)
    BY <1>1, FlightPacket, Zenon
  <2> QED BY <2>1, Zenon DEF PacketRead
<1>3. PICK L \in Nat : L = LenOf(fs, r) /\ i < L /\ i1 # L
  BY <1>1, <1>2 DEF Grown
<1>4. PICK k \in Nat : k = Len(ms) /\ k <= i /\ Len(ps) = k + 1
  BY <1>2 DEF Grown
<1>5. ReaderAt(fs, r, i1, ps)
  <2>1. i1 \in 0 .. L /\ i1 < L /\ Len(ps) <= i1
    BY <1>1, <1>3, <1>4
  <2>2. r \in 1 .. Len(fs) /\ ps = Piece(Pk(fs, r), i1 - Len(ps), Len(ps))
    BY <1>1, <1>2 DEF Grown
  <2>3. r \in 0 .. Len(fs)
    BY <2>2
  <2> QED BY <1>3, <2>1, <2>2, <2>3 DEF ReaderAt
<1>6. ProgressAt(fs, r, i1, Len(ps), ct, d)
  <2>1. i1 > Len(ps) => i > Len(ms)
    BY <1>1, <1>4
  <2> QED BY <1>2, <2>1 DEF ProgressAt
<1>7. HeadAt(fs, r, i1, 0, "header", hd1, ct)
  BY DEF HeadAt
<1>8. FlightAt(fs, r, i1, j, 0, w, ps, wi, sd, "header", hd1, ct, d, cn)
  BY <1>2, <1>5, <1>6, <1>7, Zenon DEF FlightAt
<1> QED BY <1>8, Bits DEF InFlight

\* The message ends; the frame is returned, its number is d1, or is not.
LEMMA FlightEnd ==
  ASSUME NEW fs \in Seq(Shapes), NEW r \in Nat, NEW i \in Nat, NEW j \in Nat, NEW w \in Bit, NEW ms \in Seq(Packet),
         NEW wi, NEW sd, NEW hd, NEW ct, NEW d, NEW cn, NEW ps, ps = Append(ms, hd), NEW hd1, NEW at, at # "data", NEW d1,
         FlightAt(fs, r, i, j, 1, w, ms, wi, sd, "data", hd, ct, d, cn), MessageEnds(ps),
         IF Heads(DataOf(ps)) THEN d1 = r ELSE d1 = d
  PROVE  InFlight(fs, <<>>, wi, sd, at, hd1, ct, d1, cn)
<1>1. PICK i1 \in Nat : i1 = i + 1
  OBVIOUS
<1>2. /\ Grown(fs, r, i, ms, ps) /\ CameraAt(fs, j, w, wi, sd, ct)
      /\ IF cn = "open" THEN LinkAt(fs, r, i1, j, 0, w) ELSE wi = <<>>
      /\ ProgressAt(fs, r, i, Len(ms), ct, d) /\ d < r
  <2>1. PacketRead(fs, r, i, j, w, ms, wi, sd, ct, d, cn, ps, i1)
    BY <1>1, FlightPacket, Zenon
  <2> QED BY <2>1, Zenon DEF PacketRead
<1>3. PICK L \in Nat : L = LenOf(fs, r) /\ i1 = L
  BY <1>1, <1>2 DEF Grown
<1>4. PICK k \in Nat : k = Len(ms) /\ k <= i
  BY <1>2 DEF Grown
<1>5. Len(<<>>) = 0
  OBVIOUS
<1>6. ReaderAt(fs, r, i1, <<>>)
  <2>1. i1 - 0 = i1
    OBVIOUS
  <2>2. Piece(Pk(fs, r), i1 - Len(<<>>), Len(<<>>)) = <<>>
    BY <1>5, <2>1, PieceNone
  <2>3. r \in 0 .. Len(fs) /\ i1 \in 0 .. L
    <3>1. r \in 1 .. Len(fs)
      BY <1>2 DEF Grown
    <3> QED BY <1>3, <3>1
  <2> QED BY <1>3, <1>5, <2>2, <2>3 DEF ReaderAt
<1>7. ProgressAt(fs, r, i1, 0, ct, d1)
  <2>1. CASE Heads(DataOf(ps))
    <3>1. d1 = r /\ \A m \in r + 1 .. r - 1 : m \in ct
      BY <2>1
    <3> QED BY <1>3, <3>1 DEF ProgressAt
  <2>2. CASE ~Heads(DataOf(ps))
    <3>1. d1 = d /\ i # k
      BY <1>2, <1>4, <2>2 DEF Grown
    <3>2. i > Len(ms)
      BY <1>4, <3>1
    <3>3. r # d => r \in ct
      BY <1>2, <3>2 DEF ProgressAt
    <3> QED BY <1>2, <1>3, <3>1, <3>3 DEF ProgressAt
  <2> QED BY <2>1, <2>2
<1>8. HeadAt(fs, r, i1, 0, at, hd1, ct)
  BY DEF HeadAt
<1>9. FlightAt(fs, r, i1, j, 0, w, <<>>, wi, sd, at, hd1, ct, d1, cn)
  BY <1>2, <1>5, <1>6, <1>7, <1>8, Zenon DEF FlightAt
<1> QED BY <1>9, Bits DEF InFlight

----------------------------------------------------------------------------
(* DVRIP: FlightInv is inductive *)

LEMMA FlightStart == ASSUME NEW hd, NEW ct PROVE InFlight(<<>>, <<>>, <<>>, <<>>, "raw", hd, ct, 0, "open")
<1>1. Len(<<>>) = 0 /\ 0 \in 0 .. 0 /\ 0 - 0 = 0 /\ 0 <= 0 /\ 0 \in Nat
  OBVIOUS
<1>2. Pk(<<>>, 0) = <<>> /\ LenOf(<<>>, 0) = 0
  BY DEF Pk, LenOf
<1>3. Piece(<<>>, 0, 0) = <<>>
  BY PieceNone
<1>4. ReaderAt(<<>>, 0, 0, <<>>)
  BY <1>1, <1>2, <1>3 DEF ReaderAt
<1>5. CameraAt(<<>>, 0, 0, <<>>, <<>>, ct)
  BY <1>1, <1>2, <1>3 DEF CameraAt
<1>6. HeadAt(<<>>, 0, 0, 0, "raw", hd, ct)
  BY DEF HeadAt
<1>7. LinkAt(<<>>, 0, 0, 0, 0, 0)
  BY <1>1 DEF LinkAt
<1>8. ProgressAt(<<>>, 0, 0, Len(<<>>), ct, 0)
  BY <1>1, <1>2 DEF ProgressAt
<1>9. FlightAt(<<>>, 0, 0, 0, 0, 0, <<>>, <<>>, <<>>, "raw", hd, ct, 0, "open")
  BY <1>4, <1>5, <1>6, <1>7, <1>8, Zenon DEF FlightAt
<1> QED BY <1>1, <1>9, Bits, Zenon DEF InFlight

\* What arrives is a reply or media.
LEMMA WireIs ==
  ASSUME NEW fs \in Seq(Shapes), NEW ms, NEW wi, NEW sd, NEW at, NEW hd, NEW ct, NEW d, NEW cn, wi # <<>>,
         InFlight(fs, ms, wi, sd, at, hd, ct, d, cn)
  PROVE  wi[1] \in Answers \/ IsMedia(wi[1])
<1>1. PICK r \in Nat, i \in Nat, j \in Nat, h \in Bit, w \in Bit :
        FlightAt(fs, r, i, j, h, w, ms, wi, sd, at, hd, ct, d, cn)
  BY DEF InFlight
<1>2. PICK N \in Nat : N = Len(fs)
  OBVIOUS
<1>3. j \in 0 .. LenOf(fs, N) /\ ((j > 0 /\ wi = <<Pk(fs, N)[j]>>) \/ \E a \in Answers : wi = <<a>>)
  BY <1>1, <1>2 DEF FlightAt, CameraAt
<1>4. CASE j > 0 /\ wi = <<Pk(fs, N)[j]>>
  <2>1. LenOf(fs, N) \in Nat
    BY <1>2, PkAre
  <2>2. j \in 1 .. LenOf(fs, N)
    BY <1>3, <1>4, <2>1
  <2>3. N \in 1 .. Len(fs)
    <3>1. N # 0
      BY <1>4, <2>2 DEF LenOf
    <3> QED BY <1>2, <3>1
  <2>4. IsMedia(Pk(fs, N)[j])
    BY <2>2, <2>3, PacketAt
  <2> QED BY <1>4, <2>4
<1> QED BY <1>3, <1>4

LEMMA HeadIsMedia ==
  ASSUME NEW fs \in Seq(Shapes), NEW r \in Nat, NEW i \in Nat, NEW j \in Nat, NEW w \in Bit, NEW ms,
         NEW wi, NEW sd, NEW hd, NEW ct, NEW d, NEW cn,
         FlightAt(fs, r, i, j, 1, w, ms, wi, sd, "data", hd, ct, d, cn)
  PROVE  IsMedia(hd)
<1>1. r \in 0 .. Len(fs) /\ i < LenOf(fs, r) /\ hd = Pk(fs, r)[i + 1]
  BY DEF FlightAt, ReaderAt, HeadAt
<1>2. LenOf(fs, r) \in Nat
  BY <1>1, PkAre
<1>3. r \in 1 .. Len(fs)
  <2>1. r # 0
    BY <1>1 DEF LenOf
  <2> QED BY <1>1, <2>1
<1>4. i + 1 \in 1 .. LenOf(fs, r)
  BY <1>1, <1>2
<1> QED BY <1>1, <1>3, <1>4, PacketAt

LEMMA ReaderStays ==
  ASSUME NEW fs \in Seq(Shapes), NEW s \in Shapes, NEW r, NEW i, NEW ms, ReaderAt(fs, r, i, ms)
  PROVE  ReaderAt(Append(fs, s), r, i, ms)
<1>1. r \in 0 .. Len(fs) /\ r \in 0 .. Len(Append(fs, s))
  BY DEF ReaderAt
<1>2. Pk(Append(fs, s), r) = Pk(fs, r) /\ LenOf(Append(fs, s), r) = LenOf(fs, r)
  BY <1>1, PkStays
<1> QED BY <1>1, <1>2 DEF ReaderAt

\* The state is in flight: the packets are where InFlight has them.
Aloft == InFlight(frames, message, wire, sending, pc, head, cut, LastOf(delivered), conn)

LEMMA FlightCallsStep ==
  ASSUME DvripInv, FlightInv, DialFails \/ Dial \/ Claim \/ NextFrame \/ GetRawFrame PROVE FlightInv'
<1>1. CASE DialFails \/ Dial \/ Claim
  <2>1. ~claimDone'
    BY <1>1 DEF DialFails, Dial, Claim, DvripInv, Phases
  <2> QED BY <2>1 DEF FlightInv, Live
<1>2. CASE NextFrame \/ GetRawFrame
  <2>1. /\ pc \in {"idle", "raw"} /\ pc' \in {"raw", "header"} /\ claimDone /\ message = <<>> /\ message' = <<>>
        /\ UNCHANGED <<head, aligned, conn, claimDone, wire, frames, sending, cut, delivered>>
    <3>1. CASE NextFrame
      BY <3>1 DEF NextFrame, readVars, camVars, DvripInv, Phases
    <3>2. CASE GetRawFrame
      BY <3>2 DEF GetRawFrame, Expect, DvripInv, Phases
    <3> QED BY <1>2, <3>1, <3>2
  <2>2. Live
    BY <2>1 DEF Live
  <2>3. ASSUME aligned PROVE owes' \in Seq({"KEEPALIVE_RSP"})
    <3>1. owes \in Seq({"KEEPALIVE_RSP"})
      BY <2>2, <2>3 DEF FlightInv
    <3>2. owes' = owes \/ owes' = Append(owes, "KEEPALIVE_RSP")
      BY <1>2 DEF NextFrame, GetRawFrame, Sent, camVars
    <3> QED BY <3>1, <3>2, AppendReply
  <2>4. ASSUME aligned PROVE Aloft'
    <3>1. pc # "data" /\ pc' # "data"
      BY <2>1
    <3>2. InFlight(frames, message, wire, sending, pc, head, cut, LastOf(delivered), conn)
      BY <2>2, <2>4 DEF FlightInv
    <3>3. InFlight(frames, message, wire, sending, pc', head', cut, LastOf(delivered), conn)
      BY <3>1, <3>2, FlightCalls
    <3> QED BY <2>1, <3>3, Zenon DEF Aloft, LastOf
  <2>5. pc' # "data"
    BY <2>1
  <2> QED BY <2>1, <2>3, <2>4, <2>5 DEF FlightInv, Aloft
<1> QED BY <1>1, <1>2

LEMMA FlightHeader ==
  ASSUME DvripInv, FlightInv, HeadFlagIsWrong \/ ReadHeader \/ ShortHeader \/ Timeout \/ ShutDown
  PROVE  FlightInv'
<1>1. CASE HeadFlagIsWrong \/ Timeout \/ ShutDown
  <2>1. pc' \in {"ended", "failed"}
    BY <1>1 DEF HeadFlagIsWrong, Timeout, Fail, ShutDown
  <2> QED BY <2>1 DEF FlightInv, Live
<1>2. CASE ReadHeader
  <2>1. /\ pc = "header" /\ aligned /\ wire # <<>> /\ head' = wire[1] /\ wire' = <<>> /\ pc' = "data"
        /\ UNCHANGED <<message, aligned, conn, claimDone, owes, frames, sending, cut, delivered>>
    BY <1>2 DEF ReadHeader
  <2> SUFFICES ASSUME Live PROVE FlightInv'
    BY <2>1 DEF FlightInv, Live
  <2>2. InFlight(frames, message, wire, sending, pc, head, cut, LastOf(delivered), conn)
    BY <2>1 DEF FlightInv
  <2>3. frames \in Seq(Shapes) /\ message \in Seq(Packet) /\ wire \in Seq(Packet)
    BY DEF DvripInv, DvripTypes
  <2>4. InFlight(frames, message, wire, sending, "header", head, cut, LastOf(delivered), conn)
    BY <2>1, <2>2, Zenon
  <2>5. InFlight(frames, message, <<>>, sending, "data", wire[1], cut, LastOf(delivered), conn)
    BY <2>1, <2>3, <2>4, FlightRead
  <2>6. Aloft'
    BY <2>1, <2>5, Zenon DEF Aloft, LastOf
  <2> QED BY <2>1, <2>6 DEF FlightInv, Aloft
<1>3. CASE ShortHeader
  <2>1. /\ pc = "header" /\ aligned /\ wire # <<>> /\ wire' = <<>> /\ pc' = "data" /\ aligned' = FALSE
        /\ UNCHANGED <<message, conn, claimDone, frames>>
        /\ head' \in {Control("ZERO", 0, 0, ""), [wire[1] EXCEPT !.data = <<>>, !.ret = ""]}
    BY <1>3, Zenon DEF ShortHeader
  <2> SUFFICES ASSUME Live PROVE FlightInv'
    BY <2>1 DEF FlightInv, Live
  <2>2. InFlight(frames, message, wire, sending, pc, head, cut, LastOf(delivered), conn)
    BY <2>1 DEF FlightInv
  <2>3. frames \in Seq(Shapes) /\ wire[1] \in Packet
    BY <2>1, HeadTail DEF DvripInv, DvripTypes
  <2>4. PICK p \in Packet : p = wire[1] /\ (p \in Answers \/ IsMedia(p))
    BY <2>1, <2>2, <2>3, WireIs
  <2>5. PICK q : q = head'
    OBVIOUS
  <2>6. q.data = <<>> /\ IsSingle(q)
    <3>1. CASE q = Control("ZERO", 0, 0, "")
      <4>1. q.code = "ZERO" /\ q.total = 0 /\ q.data = <<>>
        BY <3>1 DEF Control
      <4>2. ~IsMedia(q)
        BY <4>1 DEF IsMedia
      <4>3. q.total < 2
        BY <4>1
      <4> QED BY <4>1, <4>2, <4>3, Zenon DEF IsSingle
    <3>2. CASE q = [p EXCEPT !.data = <<>>, !.ret = ""]
      <4>1. q.code = p.code /\ q.total = p.total /\ q.data = <<>>
        BY <3>2 DEF Packet
      <4>2. CASE p \in Answers
        <5>1. q.code = "KEEPALIVE_RSP" /\ q.total < 2
          BY <4>1, <4>2 DEF Answers
        <5>2. ~IsMedia(q)
          BY <5>1 DEF IsMedia
        <5> QED BY <4>1, <5>1, <5>2, Zenon DEF IsSingle
      <4>3. CASE IsMedia(p)
        <5>1. IsMedia(q)
          BY <4>1, <4>3 DEF IsMedia
        <5>2. Len(<<>>) < FullSize /\ Len(<<>>) # OtherSize
          BY DvripAssumption
        <5> QED BY <4>1, <5>1, <5>2, Zenon DEF IsSingle
      <4> QED BY <2>4, <4>2, <4>3
    <3> QED BY <2>1, <2>4, <2>5, <3>1, <3>2
  <2>7. \E r \in Nat, i \in Nat : ReaderAt(frames, r, i, message)
    BY <2>2 DEF InFlight, FlightAt
  <2>8. Short(head')
    BY <2>5, <2>6 DEF Short
  <2>9. (\E r \in Nat, i \in Nat : ReaderAt(frames, r, i, message))'
    BY <2>1, <2>7
  <2> QED BY <2>1, <2>8, <2>9, Zenon DEF FlightInv, Short
<1> QED BY <1>1, <1>2, <1>3

\* A packet of which only the beginning was read ends the message, too.
LEMMA ShortEnds == ASSUME DvripInv, FlightInv, Live, pc = "data", ~aligned PROVE MessageEnds(Packets)
<1>1. IsSingle(head) /\ \E r \in Nat, i \in Nat : ReaderAt(frames, r, i, message)
  BY DEF FlightInv, Short
<1>2. PICK r \in Nat, i \in Nat : ReaderAt(frames, r, i, message)
  BY <1>1
<1>3. frames \in Seq(Shapes) /\ message \in Seq(Packet) /\ head \in Packet
  BY DEF DvripInv, DvripTypes
<1> QED BY <1>1, <1>2, <1>3, AnswerEnds DEF Packets

LEMMA AnswersAre == ASSUME NEW a \in Answers PROVE a \in Packet /\ IsSingle(a) /\ ~IsMedia(a) /\ a.code = "KEEPALIVE_RSP"
<1>1. a \in Packet /\ a.code = "KEEPALIVE_RSP" /\ a.total < 2
  BY DEF Answers
<1>2. ~IsMedia(a)
  BY <1>1 DEF IsMedia
<1> QED BY <1>1, <1>2, Zenon DEF IsSingle

LEMMA FlightReads == ASSUME DvripInv, ClaimInv, FlightInv, ReadData PROVE FlightInv'
<1>1. /\ pc = "data" /\ wants' = wants
      /\ UNCHANGED <<aligned, conn, wire, owes, frames, sending, cut>>
  BY ReadDataDoes DEF Kept
<1>2. frames \in Seq(Shapes) /\ message \in Seq(Packet) /\ head \in Packet
  BY <1>1 DEF DvripInv, DvripTypes
<1>3. ASSUME Live, aligned
      PROVE  \E r \in Nat, i \in Nat, j \in Nat, h \in Bit, w \in Bit :
               FlightAt(frames, r, i, j, h, w, message, wire, sending, "data", head, cut, LastOf(delivered), conn)
  <2>1. InFlight(frames, message, wire, sending, "data", head, cut, LastOf(delivered), conn)
    BY <1>1, <1>3, Zenon DEF FlightInv
  <2> QED BY <2>1, Zenon DEF InFlight
<1>4. CASE LoginRead
  <2>1. ~claimDone'
    BY <1>1, <1>4 DEF LoginRead, DvripInv, Phases
  <2> QED BY <2>1 DEF FlightInv, Live
<1>5. CASE FailedRead
  BY <1>5 DEF FailedRead, FlightInv, Live
<1>6. CASE ClaimRead
  <2>1. /\ pc' = "raw" /\ message' = <<>> /\ delivered' = delivered /\ conn = "open"
        /\ frames = <<>> /\ delivered = <<>>
    BY <1>1, <1>6 DEF ClaimRead, DvripInv, Phases
  <2>2. ASSUME aligned PROVE owes' \in Seq({"KEEPALIVE_RSP"}) /\ Aloft'
    <3>1. owes = <<>> /\ wire = <<>> /\ sending = <<>>
      BY <1>6, <2>2, ClaimRead1 DEF Quiet
    <3>2. InFlight(<<>>, <<>>, <<>>, <<>>, "raw", head', cut, 0, "open")
      BY FlightStart
    <3>3. LastOf(delivered') = 0
      BY <2>1 DEF LastOf
    <3>4. Aloft'
      BY <1>1, <2>1, <3>1, <3>2, <3>3, Zenon DEF Aloft
    <3> QED BY <1>1, <3>1, <3>4
  <2> QED BY <1>1, <2>1, <2>2 DEF FlightInv, Aloft
<1>7. CASE MoreRead
  <2>1. /\ pc' = "header" /\ message' = Packets /\ UNCHANGED <<claimDone, delivered>>
        /\ ~MessageEnds(Packets)
    BY <1>7 DEF MoreRead
  <2> SUFFICES ASSUME Live PROVE FlightInv'
    BY <1>1, <2>1 DEF FlightInv, Live
  <2>2. aligned
    BY <1>1, <2>1, ShortEnds
  <2>3. PICK r \in Nat, i \in Nat, j \in Nat, h \in Bit, w \in Bit :
          FlightAt(frames, r, i, j, h, w, message, wire, sending, "data", head, cut, LastOf(delivered), conn)
    BY <1>3, <2>2
  <2>4. PICK ps : ps = Append(message, head)
    OBVIOUS
  <2>5. h # 0
    <3> SUFFICES ASSUME h = 0 PROVE FALSE
      OBVIOUS
    <3>1. head \in Answers
      BY <2>3 DEF FlightAt, HeadAt
    <3>2. ReaderAt(frames, r, i, message) /\ head \in Packet /\ IsSingle(head)
      BY <2>3, <3>1, AnswersAre DEF FlightAt
    <3>3. MessageEnds(Append(message, head))
      BY <1>2, <3>2, AnswerEnds
    <3> QED BY <2>1, <3>3 DEF Packets
  <2>6. FlightAt(frames, r, i, j, 1, w, message, wire, sending, "data", head, cut, LastOf(delivered), conn)
    BY <2>3, <2>5, Bits
  <2>7. ~MessageEnds(ps) /\ ps = Packets
    BY <2>1, <2>4 DEF Packets
  <2>8. InFlight(frames, ps, wire, sending, "header", head', cut, LastOf(delivered), conn)
    BY <1>2, <2>4, <2>6, <2>7, FlightMore, Zenon
  <2>9. Aloft'
    BY <1>1, <2>1, <2>7, <2>8, Zenon DEF Aloft, LastOf
  <2>10. owes' \in Seq({"KEEPALIVE_RSP"})
    BY <1>1, <2>2 DEF FlightInv
  <2> QED BY <1>1, <2>1, <2>2, <2>9, <2>10 DEF FlightInv, Aloft
<1>8. CASE SkipRead \/ FrameRead
  <2>1. /\ pc' \in {"raw", "idle"} /\ message' = <<>> /\ claimDone' = claimDone /\ MessageEnds(Packets)
        /\ head.code = "KEEPALIVE_RSP" => SkipRead
    BY <1>8 DEF SkipRead, FrameRead
  <2> SUFFICES ASSUME Live PROVE FlightInv'
    BY <1>1, <2>1 DEF FlightInv, Live
  <2> SUFFICES ASSUME aligned PROVE Aloft'
    BY <1>1, <2>1 DEF FlightInv, Aloft
  <2>2. PICK r \in Nat, i \in Nat, j \in Nat, h \in Bit, w \in Bit :
          FlightAt(frames, r, i, j, h, w, message, wire, sending, "data", head, cut, LastOf(delivered), conn)
    BY <1>3
  <2>3. PICK d : d = LastOf(delivered)
    OBVIOUS
  <2>4. CASE h = 0
    <3>1. FlightAt(frames, r, i, j, 0, w, message, wire, sending, "data", head, cut, d, conn)
      BY <2>2, <2>3, <2>4, Zenon
    <3>2. head \in Answers /\ InFlight(frames, <<>>, wire, sending, "raw", head', cut, d, conn)
      BY <1>2, <3>1, FlightAnswer, Zenon
    <3>3. SkipRead
      BY <2>1, <3>2, AnswersAre
    <3>4. pc' = "raw" /\ delivered' = delivered
      BY <3>3 DEF SkipRead
    <3> QED BY <1>1, <2>1, <2>3, <3>2, <3>4, Zenon DEF Aloft, LastOf
  <2>5. CASE h = 1
    <3>1. FlightAt(frames, r, i, j, 1, w, message, wire, sending, "data", head, cut, d, conn)
      BY <2>2, <2>3, <2>5, Zenon
    <3>2. PICK ps : ps = Append(message, head) /\ ps = Packets
      BY DEF Packets
    <3>3. PacketRead(frames, r, i, j, w, message, wire, sending, cut, d, conn, ps, i + 1)
      BY <1>2, <3>1, <3>2, FlightPacket, Zenon
    <3>4. DataOf(ps) # <<>> /\ DataOf(ps)[1][1] = r
      BY <3>3 DEF PacketRead, Grown
    <3>5. PICK d1 : IF Heads(DataOf(ps)) THEN d1 = r ELSE d1 = d
      OBVIOUS
    <3>6. MessageEnds(ps) /\ pc' # "data"
      BY <2>1, <3>2
    <3>7. InFlight(frames, <<>>, wire, sending, pc', head', cut, d1, conn)
      BY <1>2, <3>1, <3>2, <3>5, <3>6, FlightEnd
    <3>8. LastOf(delivered') = d1
      <4>1. CASE SkipRead
        <5>1. delivered' = delivered
          BY <4>1 DEF SkipRead
        <5>2. IsMedia(head)
          BY <1>2, <3>1, HeadIsMedia
        <5>3. ~Heads(DataOf(ps))
          BY <3>2, <4>1, <5>2 DEF SkipRead, IsMedia
        <5> QED BY <2>3, <3>5, <5>1, <5>3
      <4>2. CASE FrameRead
        <5>1. PICK data \in Seq(Cell) : data = DataOf(ps)
          <6>1. ps \in Seq(Packet)
            BY <3>3 DEF PacketRead, Grown
          <6> QED BY <6>1, DataType
        <5>2. delivered' = Append(delivered, data) /\ Heads(data)
          BY <3>2, <4>2, <5>1 DEF FrameRead
        <5>3. delivered \in Seq(Seq(Cell))
          BY DEF DvripInv, DvripTypes
        <5>4. delivered' # <<>> /\ delivered'[Len(delivered')] = data
          BY <5>2, <5>3
        <5>5. LastOf(delivered') = data[1][1]
          BY <5>4 DEF LastOf
        <5> QED BY <3>4, <3>5, <5>1, <5>2, <5>5
      <4> QED BY <1>8, <4>1, <4>2
    <3> QED BY <1>1, <2>1, <3>7, <3>8, Zenon DEF Aloft
  <2> QED BY <2>4, <2>5, Bits
<1> QED BY <1>4, <1>5, <1>6, <1>7, <1>8, ReadDataDoes, Zenon

LEMMA FlightCamera ==
  ASSUME DvripInv, FlightInv, CameraSends \/ CameraReplies \/ ReplyGoesOn \/ ConnectionLost \/ Tick
  PROVE  FlightInv'
<1>1. CASE CameraSends
  <2>1. /\ claimDone /\ conn = "open" /\ wire = <<>>
        /\ UNCHANGED <<pc, message, head, aligned, conn, claimDone, owes, cut, delivered>>
    BY <1>1 DEF CameraSends, Streaming, readVars
  <2> SUFFICES ASSUME Live PROVE FlightInv'
    BY <2>1 DEF FlightInv, Live
  <2>2. frames \in Seq(Shapes)
    BY DEF DvripInv, DvripTypes
  <2>3. aligned => InFlight(frames, message, <<>>, sending, pc, head, cut, LastOf(delivered), "open")
    BY <2>1, Zenon DEF FlightInv
  <2>4. CASE sending # <<>> /\ wire' = <<Head(sending)>> /\ sending' = Tail(sending) /\ UNCHANGED frames
    <3>1. ASSUME aligned PROVE Aloft'
      <4>1. InFlight(frames, message, <<Head(sending)>>, Tail(sending), pc, head, cut, LastOf(delivered), "open")
        BY <2>2, <2>3, <2>4, <3>1, FlightNext, Zenon
      <4> QED BY <2>1, <2>4, <4>1, Zenon DEF Aloft, LastOf
    <3> QED BY <2>1, <2>4, <3>1 DEF FlightInv, Aloft
  <2>5. ASSUME NEW s \in Shapes, sending = <<>>, frames' = Append(frames, s),
               wire' = <<Head(PacketsOf(Len(frames) + 1, s.sizes))>>,
               sending' = Tail(PacketsOf(Len(frames) + 1, s.sizes))
        PROVE  FlightInv'
    <3>1. PICK P : P = PacketsOf(Len(frames) + 1, s.sizes)
      OBVIOUS
    <3>2. ASSUME aligned PROVE Aloft'
      <4>1. InFlight(frames, message, <<>>, <<>>, pc, head, cut, LastOf(delivered), "open")
        BY <2>3, <2>5, <3>2, Zenon
      <4>2. InFlight(Append(frames, s), message, <<Head(P)>>, Tail(P), pc, head, cut, LastOf(delivered), "open")
        BY <2>2, <3>1, <4>1, FlightNew, Zenon
      <4> QED BY <2>1, <2>5, <3>1, <4>2, Zenon DEF Aloft, LastOf
    <3>3. ASSUME NEW r \in Nat, NEW i \in Nat, ReaderAt(frames, r, i, message)
          PROVE  ReaderAt(frames', r, i, message')
      <4>1. ReaderAt(Append(frames, s), r, i, message)
        BY <2>2, <3>3, ReaderStays, Zenon
      <4> QED BY <2>1, <2>5, <4>1, Zenon
    <3>4. (\E r \in Nat, i \in Nat : ReaderAt(frames, r, i, message))
          => \E r \in Nat, i \in Nat : ReaderAt(frames', r, i, message')
      BY <3>3, Zenon
    <3>5. Short(head) => Short(head')
      BY <2>1
    <3> QED BY <2>1, <3>2, <3>4, <3>5 DEF FlightInv, Aloft
  <2> QED BY <1>1, <2>4, <2>5, Zenon DEF CameraSends
<1>2. CASE CameraReplies
  <2>1. /\ conn = "open" /\ wire = <<>> /\ owes # <<>> /\ owes' = Tail(owes)
        /\ cut' = IF sending = <<>> THEN cut ELSE cut \cup {Len(frames)}
        /\ UNCHANGED <<pc, message, head, aligned, conn, claimDone, frames, delivered>>
    BY <1>2 DEF CameraReplies, readVars
  <2>2. PICK p \in ReplyPackets(owes[1]) : wire' = <<p[1]>> /\ sending' = Tail(p) \o sending
    BY <1>2 DEF CameraReplies
  <2> SUFFICES ASSUME Live PROVE FlightInv'
    BY <2>1 DEF FlightInv, Live
  <2>3. ASSUME aligned PROVE owes' \in Seq({"KEEPALIVE_RSP"}) /\ Aloft'
    <3>1. owes \in Seq({"KEEPALIVE_RSP"})
      BY <2>3 DEF FlightInv
    <3>2. owes[1] = "KEEPALIVE_RSP" /\ owes' \in Seq({"KEEPALIVE_RSP"})
      BY <2>1, <3>1, HeadTail
    <3>3. PICK a : a = Control("KEEPALIVE_RSP", 0, 0, "ok")
      OBVIOUS
    <3>4. p = <<a>>
      BY <3>2, <3>3 DEF ReplyPackets
    <3>5. a \in Answers
      <4>1. "KEEPALIVE_RSP" \in Replies /\ "ok" \in Rets /\ 0 \in Nat /\ <<>> \in Seq(Cell)
        BY DEF Replies, Rets
      <4>2. "KEEPALIVE_RSP" \in Codes
        BY <4>1, Zenon DEF Codes
      <4>3. a \in Packet
        BY <3>3, <4>1, <4>2, Zenon DEF Control, Packet
      <4>4. a.code = "KEEPALIVE_RSP" /\ a.total = 0
        BY <3>3 DEF Control
      <4> QED BY <4>3, <4>4 DEF Answers
    <3>6. wire' = <<a>> /\ sending' = sending
      <4>1. sending \in Seq(Packet)
        BY DEF DvripInv, DvripTypes
      <4>2. p[1] = a /\ Tail(p) = <<>>
        BY <3>4
      <4>3. <<>> \o sending = sending
        BY <4>1, EmptyFirst
      <4> QED BY <2>2, <4>2, <4>3, Zenon
    <3>7. cut \subseteq cut' /\ (sending # <<>> => Len(frames) \in cut')
      BY <2>1
    <3>8. InFlight(frames, message, <<>>, sending, pc, head, cut, LastOf(delivered), "open")
      BY <2>1, <2>3, Zenon DEF FlightInv
    <3>9. frames \in Seq(Shapes)
      BY DEF DvripInv, DvripTypes
    <3>10. InFlight(frames, message, <<a>>, sending, pc, head, cut', LastOf(delivered), "open")
      BY <3>5, <3>7, <3>8, <3>9, FlightAnswered, Zenon
    <3> QED BY <2>1, <3>2, <3>6, <3>10, Zenon DEF Aloft, LastOf
  <2> QED BY <2>1, <2>3 DEF FlightInv, Aloft
<1>3. CASE ReplyGoesOn
  <2>1. ~claimDone'
    BY <1>3 DEF ReplyGoesOn
  <2> QED BY <2>1 DEF FlightInv, Live
<1>4. CASE ConnectionLost
  <2>1. /\ conn' = "lost" /\ wire' = <<>>
        /\ UNCHANGED <<pc, message, head, aligned, claimDone, owes, frames, sending, cut, delivered>>
    BY <1>4 DEF ConnectionLost, readVars
  <2> SUFFICES ASSUME Live PROVE FlightInv'
    BY <2>1 DEF FlightInv, Live
  <2>2. ASSUME aligned PROVE Aloft'
    <3>1. InFlight(frames, message, wire, sending, pc, head, cut, LastOf(delivered), conn)
      BY <2>2 DEF FlightInv
    <3>2. InFlight(frames, message, <<>>, sending, pc, head, cut, LastOf(delivered), "lost")
      BY <3>1, FlightLost, Zenon
    <3> QED BY <2>1, <3>2, Zenon DEF Aloft, LastOf
  <2> QED BY <2>1, <2>2 DEF FlightInv, Aloft
<1>5. CASE Tick
  <2>1. UNCHANGED <<pc, message, head, aligned, conn, claimDone, wire, owes, frames, sending, cut, delivered>>
    BY <1>5 DEF Tick, readVars, camVars
  <2>2. LastOf(delivered') = LastOf(delivered)
    BY <2>1
  <2> QED BY <2>1, <2>2 DEF FlightInv, Live, Short
<1> QED BY <1>1, <1>2, <1>3, <1>4, <1>5

LEMMA FlightInit == Init => FlightInv
  BY DEF Init, DvripInit, FlightInv, Live

LEMMA FlightStep == ASSUME DvripInv, ClaimInv, FlightInv, DvripNext \/ UNCHANGED dvripVars PROVE FlightInv'
<1>1. CASE UNCHANGED dvripVars
  <2>1. UNCHANGED <<pc, message, head, aligned, conn, claimDone, wire, owes, frames, sending, cut, delivered>>
    BY <1>1 DEF dvripVars, readVars, camVars
  <2>2. LastOf(delivered') = LastOf(delivered)
    BY <2>1
  <2> QED BY <2>1, <2>2 DEF FlightInv, Live, Short
<1>2. CASE DvripNext
  BY <1>2, FlightCallsStep, FlightHeader, FlightReads, FlightCamera, Zenon DEF DvripNext, DvripTask
<1> QED BY <1>1, <1>2

----------------------------------------------------------------------------
(* DVRIP: the frames that GetFrame returned *)

FirstOfFrame(n, z, k) == [j \in 1 .. Ends(z)[k] |-> <<n, j - 1>>]

\* data is all of a frame after the one numbered before, and those between are cut.
NextWhole(fs, ct, before, data) ==
  /\ data # <<>> /\ data[1][1] \in 1 .. Len(fs) /\ before < data[1][1]
  /\ data = FirstOfFrame(data[1][1], fs[data[1][1]].sizes, Len(fs[data[1][1]].sizes))
  /\ before + 1 .. data[1][1] - 1 \subseteq ct

NumberOf(dl, i) == IF i = 0 THEN 0 ELSE dl[i][1][1]

AllWhole(dl, fs, ct) == \A i \in 1 .. Len(dl) : NextWhole(fs, ct, NumberOf(dl, i - 1), dl[i])

WholeInv == AllWhole(delivered, frames, cut)

LEMMA PkOf ==
  ASSUME NEW fs \in Seq(Shapes), NEW r \in 1 .. Len(fs)
  PROVE  /\ fs[r] \in Shapes /\ r \in Nat /\ Pk(fs, r) = PacketsOf(r, fs[r].sizes)
         /\ LenOf(fs, r) = Len(fs[r].sizes) /\ LenOf(fs, r) \in Nat
<1>1. r # 0 /\ fs[r] \in Shapes
  OBVIOUS
<1> QED BY <1>1, ShapeSizes DEF Pk, LenOf

LEMMA DataOfPrefix ==
  ASSUME NEW fs \in Seq(Shapes), NEW r \in 1 .. Len(fs), NEW k \in 0 .. LenOf(fs, r)
  PROVE  DataOf(Piece(Pk(fs, r), 0, k)) = FirstOfFrame(r, fs[r].sizes, k)
<1>1. /\ fs[r] \in Shapes /\ r \in Nat /\ Pk(fs, r) = PacketsOf(r, fs[r].sizes)
      /\ LenOf(fs, r) = Len(fs[r].sizes)
  BY PkOf
<1>2. PICK s \in Shapes : s = fs[r]
  BY <1>1
<1>3. k \in 0 .. Len(s.sizes)
  BY <1>1, <1>2
<1>4. DataOf(Piece(PacketsOf(r, s.sizes), 0, k)) = FirstOfFrame(r, s.sizes, k)
  BY <1>1, <1>3, DataOfFirst DEF FirstOfFrame
<1> QED BY <1>1, <1>2, <1>4, Zenon

LEMMA FrameIsNext ==
  ASSUME DvripInv, FlightInv, Live, aligned, pc = "data", FrameRead
  PROVE  NextWhole(frames, cut, LastOf(delivered), DataOf(Packets))
<1>1. frames \in Seq(Shapes) /\ message \in Seq(Packet)
  BY DEF DvripInv, DvripTypes
<1>2. PICK d : d = LastOf(delivered)
  OBVIOUS
<1>3. PICK r \in Nat, i \in Nat, j \in Nat, h \in Bit, w \in Bit :
        FlightAt(frames, r, i, j, h, w, message, wire, sending, "data", head, cut, d, conn)
  <2>1. InFlight(frames, message, wire, sending, "data", head, cut, d, conn)
    BY <1>2, Zenon DEF FlightInv
  <2> QED BY <2>1, Zenon DEF InFlight
<1>4. h # 0
  <2> SUFFICES ASSUME h = 0 PROVE FALSE
    OBVIOUS
  <2>1. head \in Answers
    BY <1>3 DEF FlightAt, HeadAt
  <2> QED BY <2>1, AnswersAre DEF FrameRead
<1>5. FlightAt(frames, r, i, j, 1, w, message, wire, sending, "data", head, cut, d, conn)
  BY <1>3, <1>4, Bits
<1>6. PICK ps : ps = Append(message, head) /\ ps = Packets
  BY DEF Packets
<1>7. PICK i1 \in Nat : i1 = i + 1
  OBVIOUS
<1>8. PacketRead(frames, r, i, j, w, message, wire, sending, cut, d, conn, ps, i1)
  BY <1>1, <1>5, <1>6, <1>7, FlightPacket, Zenon
<1>9. Grown(frames, r, i, message, ps) /\ d < r /\ ProgressAt(frames, r, i, Len(message), cut, d)
  BY <1>8 DEF PacketRead
<1>10. r \in 1 .. Len(frames) /\ DataOf(ps) # <<>> /\ DataOf(ps)[1][1] = r
  BY <1>9 DEF Grown
<1>11. MessageEnds(ps) /\ Heads(DataOf(ps))
  BY <1>6 DEF FrameRead
<1>12. PICK L \in Nat : L = LenOf(frames, r) /\ i1 = L /\ i = Len(message)
  BY <1>7, <1>9, <1>11 DEF Grown
<1>13. ps = Piece(Pk(frames, r), 0, L)
  <2>1. Len(ps) = Len(message) + 1 /\ ps = Piece(Pk(frames, r), (i + 1) - Len(ps), Len(ps))
    BY <1>9 DEF Grown
  <2>2. Len(ps) = L
    BY <1>7, <1>12, <2>1
  <2>3. (i + 1) - Len(ps) = 0
    BY <1>7, <1>12, <2>2
  <2> QED BY <2>1, <2>2, <2>3, Zenon
<1>14. DataOf(ps) = FirstOfFrame(r, frames[r].sizes, Len(frames[r].sizes))
  <2>1. L = Len(frames[r].sizes) /\ L \in 0 .. LenOf(frames, r)
    BY <1>1, <1>10, <1>12, PkOf
  <2>2. DataOf(Piece(Pk(frames, r), 0, L)) = FirstOfFrame(r, frames[r].sizes, L)
    BY <1>1, <1>10, <2>1, DataOfPrefix
  <2> QED BY <1>13, <2>1, <2>2, Zenon
<1>15. d + 1 .. r - 1 \subseteq cut
  BY <1>9 DEF ProgressAt
<1>16. NextWhole(frames, cut, d, DataOf(ps))
  BY <1>9, <1>10, <1>14, <1>15, Zenon DEF NextWhole
<1> QED BY <1>2, <1>6, <1>16, Zenon

LEMMA EmptyIn == \A S : <<>> \in Seq(S)
  OBVIOUS

LEMMA AppendIs ==
  ASSUME NEW S, NEW s \in Seq(S), NEW e \in S, NEW k \in Nat, k = Len(s)
  PROVE  /\ Append(s, e) \in Seq(S) /\ Len(Append(s, e)) = k + 1 /\ Append(s, e)[k + 1] = e
         /\ \A x \in 1 .. k : Append(s, e)[x] = s[x]
<1> QED OBVIOUS

\* What GetFrame takes for a frame but is only the beginning of one is refused.
LEMMA ShortIsRefused ==
  ASSUME PrefixesDiffer, DvripInv, FlightInv, Live, ~aligned, pc = "data"
  PROVE  ~FrameRead
<1> SUFFICES ASSUME FrameRead PROVE FALSE
  OBVIOUS
<1>1. frames \in Seq(Shapes) /\ message \in Seq(Packet) /\ head \in Packet
  BY DEF DvripInv, DvripTypes
<1>2. PICK r \in Nat, i \in Nat : ReaderAt(frames, r, i, message)
  BY DEF FlightInv
<1>3. head.data = <<>>
  BY DEF FlightInv, Short
<1>4. PICK data \in Seq(Cell) : data = DataOf(message)
  BY <1>1, DataType
<1>5. DataOf(Packets) = data
  <2>1. PICK ss : Parts(ss, message) /\ data = FlattenSeq(ss)
    BY <1>1, <1>4, PartsAre
  <2>2. PICK ts : Parts(ts, Packets) /\ DataOf(Packets) = FlattenSeq(ts)
    <3>1. Packets \in Seq(Packet)
      BY <1>1 DEF Packets
    <3> QED BY <3>1, PartsAre
  <2>3. PICK k \in Nat : k = Len(message)
    BY <1>1
  <2>4. PICK ps \in Seq(Packet) : ps = Packets /\ Len(ps) = k + 1 /\ ps[k + 1] = head /\ \A x \in 1 .. k : ps[x] = message[x]
    <3>1. /\ Append(message, head) \in Seq(Packet) /\ Len(Append(message, head)) = k + 1
          /\ Append(message, head)[k + 1] = head /\ \A x \in 1 .. k : Append(message, head)[x] = message[x]
      BY <1>1, <2>3, AppendIs
    <3> QED BY <3>1, Zenon DEF Packets
  <2>5. ss \in Seq(Seq(Cell)) /\ Len(ss) = k /\ \A x \in 1 .. k : ss[x] = message[x].data
    BY <2>1, <2>3 DEF Parts
  <2>6. ts \in Seq(Seq(Cell)) /\ Parts(ts, ps)
    BY <2>2, <2>4, Zenon DEF Parts
  <2> HIDE DEF Packets
  <2>15. \A x \in 1 .. k + 1 : ts[x] = ps[x].data
    BY <2>4, <2>6 DEF Parts
  <2>16. Len(ts) = k + 1
    <3>1. Len(ts) = Len(ps)
      BY <2>6, Zenon DEF Parts
    <3>2. Len(ps) = k + 1
      BY <2>4, Zenon
    <3> QED BY ONLY <3>1, <3>2, Zenon
  <2>7. PICK e \in Seq(Cell) : e = <<>>
    BY EmptyIn, Zenon
  <2>8. PICK us : us = Append(ss, e)
    OBVIOUS
  <2>9. us \in Seq(Seq(Cell)) /\ Len(us) = k + 1 /\ us[k + 1] = e /\ \A x \in 1 .. k : us[x] = ss[x]
    BY <2>5, <2>8
  <2>10. ASSUME NEW x \in 1 .. k + 1 PROVE us[x] = ts[x]
    <3>1. CASE x \in 1 .. k
      BY <2>4, <2>5, <2>15, <2>9, <3>1
    <3>2. CASE x = k + 1
      BY <1>3, <2>4, <2>15, <2>7, <2>9, <3>2
    <3> QED BY <3>1, <3>2
  <2>11. us = ts
    BY <2>6, <2>16, <2>9, <2>10
  <2>12. FlattenSeq(us) = FlattenSeq(ss) \o e
    BY <2>5, <2>8, FlattenAppend
  <2>13. data \o e = data
    BY <1>4, <2>7
  <2> QED BY <2>1, <2>2, <2>11, <2>12, <2>13, Zenon
<1>6. Heads(data) /\ LengthFits(data)
  BY <1>5 DEF FrameRead
<1>7. message # <<>>
  <2>1. message = <<>> => data = <<>>
    <3> SUFFICES ASSUME message = <<>> PROVE data = <<>>
      OBVIOUS
    <3>1. PICK ss : Parts(ss, message) /\ data = FlattenSeq(ss)
      BY <1>1, <1>4, PartsAre
    <3>2. ss \in Seq(Seq(Cell)) /\ Len(ss) = 0
      BY <3>1 DEF Parts
    <3>3. PICK f \in [0 .. Len(ss) -> Seq(Cell)] : Flattens(f, ss)
      BY <3>2, FlattenExists DEF Flattening
    <3>4. FlattenSeq(ss) = f[0]
      BY <3>2, <3>3, FlattenIs
    <3> QED BY <3>1, <3>3, <3>4 DEF Flattens
  <2> QED BY <1>6, <2>1 DEF Heads
<1>8. PICK L \in Nat : L = LenOf(frames, r) /\ r \in 1 .. Len(frames) /\ i < L
  <2>1. r \in 0 .. Len(frames) /\ i < LenOf(frames, r)
    BY <1>2, <1>7 DEF ReaderAt
  <2>2. LenOf(frames, r) \in Nat
    BY <1>1, <2>1, PkAre
  <2>3. r # 0
    BY <2>1 DEF LenOf
  <2> QED BY <2>1, <2>2, <2>3
<1>9. PICK k \in Nat : k = Len(message) /\ k > 0 /\ k <= i /\ message = Piece(Pk(frames, r), i - k, k)
  BY <1>1, <1>2, <1>7 DEF ReaderAt
<1>10. PICK a \in Nat : a = i - k
  BY <1>9
<1>11. PICK b \in 1 .. L : b = a + 1
  <2>1. a \in Nat /\ a = i - k /\ k > 0 /\ k <= i /\ i < L /\ k \in Nat /\ i \in Nat /\ L \in Nat
    BY <1>8, <1>9, <1>10, Zenon
  <2>2. a + 1 \in 1 .. L
    BY ONLY <2>1
  <2> QED BY <2>2
<1>12. message[1] = Pk(frames, r)[b]
  <2>1. message = [x \in 1 .. k |-> Pk(frames, r)[a + x]]
    BY <1>9, <1>10 DEF Piece
  <2>2. 1 \in 1 .. k
    BY <1>9
  <2> QED BY <1>11, <2>1, <2>2
<1>13. Begins(data, FirstCell(frames, r, b))
  <2>1. Begins(message[1].data, FirstCell(frames, r, b))
    BY <1>1, <1>8, <1>11, <1>12, PacketAt
  <2> QED BY <1>1, <1>4, <1>7, <2>1, DataBegins
<1>14. data[1][1] = r /\ b = 1
  <2>1. FirstCell(frames, r, b)[1] = r /\ (FirstCell(frames, r, b)[2] = 0 <=> b = 1)
    BY <1>1, <1>8, <1>11, FirstCellIs
  <2> QED BY <1>6, <1>13, <2>1 DEF Begins, Heads
<1>15. a = 0 /\ i = k
  <2>1. a \in Nat /\ a = i - k /\ k \in Nat /\ i \in Nat /\ b = a + 1 /\ b = 1
    BY <1>9, <1>10, <1>11, <1>14, Zenon
  <2> QED BY ONLY <2>1
<1>16. data = FirstOfFrame(r, frames[r].sizes, k)
  <2>1. message = Piece(Pk(frames, r), 0, k)
    BY <1>9, <1>10, <1>15, Zenon
  <2>2. k \in 0 .. LenOf(frames, r)
    BY <1>8, <1>15
  <2> QED BY <1>1, <1>4, <1>8, <2>1, <2>2, DataOfPrefix
<1>17. PICK s \in Shapes : s = frames[r]
  BY <1>1, <1>8
<1>18. k \in 1 .. Len(s.sizes) - 1
  <2>1. L = Len(s.sizes)
    BY <1>1, <1>8, <1>17, PkOf
  <2> QED BY <1>8, <1>9, <1>15, <2>1
<1>19. PICK e \in Nat : e = Ends(s.sizes)[k]
  <2>1. s.sizes \in Seq(Nat) /\ k \in 0 .. Len(s.sizes)
    BY <1>18, ShapeSizes
  <2>2. Ends(s.sizes) \in [0 .. Len(s.sizes) -> Nat]
    BY <2>1, EndsAre
  <2> QED BY <2>1, <2>2
<1>20. Len(data) = e
  <2>1. data = [j \in 1 .. e |-> <<r, j - 1>>]
    BY <1>16, <1>17, <1>19, Zenon DEF FirstOfFrame
  <2> QED BY <1>4, <2>1
<1>21. e - 1 - s.says \in {0, Benign}
  <2>1. ShapeOf(data) = s
    BY <1>14, <1>17 DEF ShapeOf
  <2> QED BY <1>6, <1>20, <2>1 DEF LengthFits
<1> QED BY <1>18, <1>19, <1>21 DEF PrefixesDiffer

MoreSent(fs, gs) == gs = fs \/ \E s \in Shapes : gs = Append(fs, s)
MoreCut(ct, dt) == ct \subseteq dt

LEMMA NextStays ==
  ASSUME NEW fs \in Seq(Shapes), NEW gs \in Seq(Shapes), MoreSent(fs, gs),
         NEW ct, NEW dt, MoreCut(ct, dt), NEW before, NEW data, NextWhole(fs, ct, before, data)
  PROVE  NextWhole(gs, dt, before, data)
<1>1. PICK n : n = data[1][1]
  OBVIOUS
<1>2. n \in 1 .. Len(fs)
  BY <1>1 DEF NextWhole
<1>3. n \in 1 .. Len(gs) /\ gs[n] = fs[n]
  BY <1>2 DEF MoreSent
<1>4. data # <<>> /\ before < n /\ data = FirstOfFrame(n, fs[n].sizes, Len(fs[n].sizes)) /\ before + 1 .. n - 1 \subseteq ct
  BY <1>1, Zenon DEF NextWhole
<1>5. before + 1 .. n - 1 \subseteq dt
  BY <1>4, Zenon DEF MoreCut
<1> QED BY <1>1, <1>3, <1>4, <1>5, Zenon DEF NextWhole

\* What the steps do to the histories: frames and cut grow, and delivered when
\* a frame has been read.
LEMMA HistoryGrows ==
  ASSUME DvripInv, DvripNext \/ UNCHANGED dvripVars
  PROVE  /\ cut \subseteq cut' /\ (frames' = frames \/ \E s \in Shapes : frames' = Append(frames, s))
         /\ \/ delivered' = delivered
            \/ ReadData /\ FrameRead /\ frames' = frames /\ cut' = cut
<1>1. CASE UNCHANGED dvripVars \/ Timeout \/ ShutDown \/ HeadFlagIsWrong \/ DialFails \/ NextFrame \/ Tick
  BY <1>1 DEF dvripVars, camVars, Timeout, ShutDown, HeadFlagIsWrong, DialFails, NextFrame, Tick
<1>2. CASE Dial \/ Claim \/ GetRawFrame \/ ReadHeader \/ ShortHeader
  BY <1>2 DEF Dial, Claim, GetRawFrame, ReadHeader, ShortHeader
<1>3. CASE ReadData
  <2>1. UNCHANGED <<frames, cut>>
    BY <1>3, ReadDataDoes DEF Kept
  <2>2. delivered' = delivered \/ FrameRead
    BY <1>3, ReadDataDoes DEF LoginRead, FailedRead, MoreRead, ClaimRead, SkipRead
  <2> QED BY <1>3, <2>1, <2>2
<1>4. CASE CameraSends
  BY <1>4 DEF CameraSends
<1>5. CASE CameraReplies
  BY <1>5 DEF CameraReplies
<1>6. CASE ReplyGoesOn \/ ConnectionLost
  BY <1>6 DEF ReplyGoesOn, ConnectionLost
<1> QED BY <1>1, <1>2, <1>3, <1>4, <1>5, <1>6, Zenon DEF DvripNext, DvripTask

\* The one frame more is the next.
LEMMA OneMore ==
  ASSUME NEW fs, NEW ct, NEW dl \in Seq(Seq(Cell)), NEW data \in Seq(Cell),
         AllWhole(dl, fs, ct), NextWhole(fs, ct, LastOf(dl), data)
  PROVE  AllWhole(Append(dl, data), fs, ct)
<1>1. PICK k \in Nat : k = Len(dl)
  OBVIOUS
<1>2. PICK el : el = Append(dl, data) /\ el \in Seq(Seq(Cell)) /\ Len(el) = k + 1 /\ el[k + 1] = data
                /\ \A x \in 1 .. k : el[x] = dl[x]
  <2>1. /\ Append(dl, data) \in Seq(Seq(Cell)) /\ Len(Append(dl, data)) = k + 1
        /\ Append(dl, data)[k + 1] = data /\ \A x \in 1 .. k : Append(dl, data)[x] = dl[x]
    BY <1>1, AppendIs
  <2> QED BY <2>1, Zenon
<1>3. ASSUME NEW i \in 0 .. k PROVE NumberOf(el, i) = NumberOf(dl, i)
  BY <1>2 DEF NumberOf
<1>4. NumberOf(dl, k) = LastOf(dl)
  BY <1>1 DEF NumberOf, LastOf
<1>5. ASSUME NEW i \in 1 .. k + 1 PROVE NextWhole(fs, ct, NumberOf(el, i - 1), el[i])
  <2>1. CASE i \in 1 .. k
    <3>1. NextWhole(fs, ct, NumberOf(dl, i - 1), dl[i])
      BY <1>1, <2>1 DEF AllWhole
    <3>2. PICK x \in 0 .. k : x = i - 1
      BY <2>1
    <3>3. NumberOf(el, i - 1) = NumberOf(dl, i - 1)
      BY <1>3, <3>2, Zenon
    <3>4. el[i] = dl[i]
      BY <1>2, <2>1
    <3> QED BY <3>1, <3>3, <3>4, Zenon
  <2>2. CASE i = k + 1
    <3>1. PICK x \in 0 .. k : x = i - 1 /\ x = k
      BY <1>1, <2>2
    <3>2. NumberOf(el, i - 1) = LastOf(dl)
      BY <1>3, <1>4, <3>1, Zenon
    <3>3. el[i] = data
      BY <1>2, <2>2
    <3> QED BY <3>2, <3>3, Zenon
  <2> QED BY <2>1, <2>2
<1>6. Len(el) = k + 1
  BY <1>2
<1>7. AllWhole(el, fs, ct)
  BY <1>5, <1>6, Zenon DEF AllWhole
<1> QED BY <1>2, <1>7, Zenon

LEMMA WholeInit == Init => WholeInv
<1> SUFFICES ASSUME Init PROVE WholeInv
  OBVIOUS
<1>1. delivered = <<>>
  BY DEF Init, DvripInit
<1>2. Len(delivered) = 0
  BY <1>1
<1> QED BY <1>2 DEF WholeInv, AllWhole

LEMMA WholeStep ==
  ASSUME PrefixesDiffer, DvripInv, DvripInv', FlightInv, WholeInv, DvripNext \/ UNCHANGED dvripVars
  PROVE  WholeInv'
<1>1. frames \in Seq(Shapes) /\ frames' \in Seq(Shapes) /\ delivered \in Seq(Seq(Cell)) /\ message \in Seq(Packet)
  BY DEF DvripInv, DvripTypes
<1>2. /\ cut \subseteq cut' /\ (frames' = frames \/ \E s \in Shapes : frames' = Append(frames, s))
      /\ delivered' = delivered \/ (ReadData /\ FrameRead /\ frames' = frames /\ cut' = cut)
  BY HistoryGrows
<1>3. CASE delivered' = delivered
  <2>1. PICK gs \in Seq(Shapes) : gs = frames'
    BY <1>1
  <2>4. PICK dt : dt = cut'
    OBVIOUS
  <2>2. ASSUME NEW i \in 1 .. Len(delivered) PROVE NextWhole(gs, dt, NumberOf(delivered, i - 1), delivered[i])
    <3>1. NextWhole(frames, cut, NumberOf(delivered, i - 1), delivered[i])
      BY Zenon DEF WholeInv, AllWhole
    <3>2. MoreSent(frames, gs) /\ MoreCut(cut, dt)
      BY <1>2, <2>1, <2>4, Zenon DEF MoreSent, MoreCut
    <3>3. PICK b, c : b = NumberOf(delivered, i - 1) /\ c = delivered[i]
      OBVIOUS
    <3>4. PICK fs \in Seq(Shapes), ct \in SUBSET Nat : fs = frames /\ ct = cut
      BY DEF DvripInv, DvripTypes
    <3>5. NextWhole(fs, ct, b, c) /\ MoreSent(fs, gs) /\ MoreCut(ct, dt)
      BY <3>1, <3>2, <3>3, <3>4, Zenon
    <3>6. NextWhole(gs, dt, b, c)
      BY <2>1, <3>5, NextStays, Zenon
    <3> QED BY <3>3, <3>6, Zenon
  <2>3. AllWhole(delivered, gs, dt)
    BY <2>2, Zenon DEF AllWhole
  <2> QED BY <1>3, <2>1, <2>4, <2>3, Zenon DEF WholeInv
<1>4. CASE ReadData /\ FrameRead /\ frames' = frames /\ cut' = cut
  <2>1. pc = "data" /\ head \in Packet
    BY <1>4 DEF ReadData, DvripInv, DvripTypes
  <2>2. Live
    BY <1>4, <2>1 DEF Live, FrameRead, DvripInv, Phases
  <2>3. aligned
    BY <1>4, <2>1, <2>2, ShortIsRefused
  <2>4. NextWhole(frames, cut, LastOf(delivered), DataOf(Packets))
    BY <1>4, <2>1, <2>2, <2>3, FrameIsNext
  <2>5. DataOf(Packets) \in Seq(Cell)
    <3>1. Packets \in Seq(Packet)
      BY <1>1, <2>1, AppendReply DEF Packets
    <3> QED BY <3>1, DataType
  <2>6. AllWhole(Append(delivered, DataOf(Packets)), frames, cut)
    BY <1>1, <2>4, <2>5, OneMore, Zenon DEF WholeInv
  <2>7. delivered' = Append(delivered, DataOf(Packets))
    BY <1>4 DEF FrameRead
  <2> QED BY <1>4, <2>6, <2>7, Zenon DEF WholeInv
<1> QED BY <1>2, <1>3, <1>4

LEMMA WholeIs == WholeInv => FramesAreWhole
<1> SUFFICES ASSUME WholeInv, NEW i \in 1 .. Len(delivered)
             PROVE  LET n == delivered[i][1][1]
                        before == IF i = 1 THEN 0 ELSE delivered[i - 1][1][1]
                    IN  before < n /\ Whole(delivered[i]) /\ before + 1 .. n - 1 \subseteq cut
  <2>1. DOMAIN delivered = 1 .. Len(delivered)
    OBVIOUS
  <2> QED BY <2>1, Zenon DEF FramesAreWhole
<1>1. PICK n : n = delivered[i][1][1]
  OBVIOUS
<1>2. PICK before : before = IF i = 1 THEN 0 ELSE delivered[i - 1][1][1]
  OBVIOUS
<1>3. NumberOf(delivered, i - 1) = before
  BY <1>2 DEF NumberOf
<1>4. NextWhole(frames, cut, before, delivered[i])
  BY <1>3, Zenon DEF WholeInv, AllWhole
<1>5. before < n /\ before + 1 .. n - 1 \subseteq cut
  BY <1>1, <1>4, Zenon DEF NextWhole
<1>6. Whole(delivered[i])
  BY <1>4, Zenon DEF NextWhole, Whole, FirstOfFrame, ShapeOf, Total
<1> QED BY <1>1, <1>2, <1>5, <1>6, Zenon

\* The frames that GetFrame returns come whole and in order, and it skips one
\* only when a reply came between its packets (dvr/client.go: GetMessage,
\* getRawFrame, GetFrame), if no header says the length of a part of its frame.
THEOREM FramesComeWhole == ASSUME PrefixesDiffer PROVE Spec => []FramesAreWhole
<1>1. Init => DvripInv /\ ClaimInv /\ FlightInv /\ WholeInv
  BY DvripTypeInit, ClaimInit, FlightInit, WholeInit
<1>2. ASSUME DvripInv, ClaimInv, FlightInv, WholeInv, [Next]_vars
      PROVE  DvripInv' /\ ClaimInv' /\ FlightInv' /\ WholeInv'
  <2>1. DvripNext \/ UNCHANGED dvripVars
    BY <1>2 DEF Next, vars
  <2>2. DvripInv' /\ ClaimInv' /\ FlightInv'
    BY <1>2, <2>1, DvripTypeStep, ClaimStep, FlightStep
  <2> QED BY <1>2, <2>1, <2>2, WholeStep
<1> QED BY <1>1, <1>2, WholeIs, PTL DEF Spec

----------------------------------------------------------------------------
(* DVRIP: the keep-alives *)

Ticks == IF ticked THEN 1 ELSE 0
InTime(x, a, t) == \E s \in Shapes : x <= a + Len(s.sizes) + t

Reading(what) == pc \in {"header", "data"} /\ wants = what

\* How long ago the last ping was, where the task is.
TimeInv ==
  conn \in {"none", "open"} =>
    /\ silent <= elapsed
    /\ pc = "new" => elapsed = 0
    /\ Reading("login") => elapsed <= Ticks
    /\ pc = "idle" /\ ~claimDone => elapsed <= 1 + Ticks /\ interval \in Intervals
    /\ Reading("claim") => elapsed <= 2 + Len(message) + Ticks /\ interval \in Intervals
    /\ pc = "raw" => elapsed < ByteValues
    /\ Reading("frame") => elapsed <= interval + Len(message) + Ticks
    /\ pc = "idle" /\ claimDone => InTime(elapsed, interval, Ticks)
    /\ claimDone => InTime(silent, interval, 1) /\ interval \in Intervals

LEMMA ShapesAre ==
  /\ \E s \in Shapes : 1 <= Len(s.sizes)
  /\ \A s \in Shapes : Len(s.sizes) \in Nat
  /\ \A a \in Intervals : a \in Nat
<1>1. \A s \in Shapes : Len(s.sizes) \in Nat \ {0}
  BY ShapeSizes
<1>2. Shapes # {}
  BY DvripAssumption
<1>3. \A a \in Intervals : a \in Nat
  BY DvripAssumption
<1> QED BY <1>1, <1>2, <1>3

\* What is read of a message lacks a packet of some frame.
LEMMA MessageIsShort ==
  ASSUME DvripInv, FlightInv, Live, pc \in {"header", "data"}
  PROVE  \E s \in Shapes : Len(message) + 1 <= Len(s.sizes)
<1>1. frames \in Seq(Shapes) /\ message \in Seq(Packet)
  BY DEF DvripInv, DvripTypes
<1>2. PICK k \in Nat : k = Len(message)
  BY <1>1
<1>3. CASE message = <<>>
  <2>1. k = 0
    BY <1>2, <1>3
  <2> QED BY <1>2, <2>1, ShapesAre
<1>4. CASE message # <<>>
  <2>1. \E r \in Nat, i \in Nat : ReaderAt(frames, r, i, message)
    BY <1>4 DEF FlightInv, InFlight, FlightAt
  <2>2. PICK r \in Nat, i \in Nat : ReaderAt(frames, r, i, message)
    BY <2>1
  <2>3. r \in 0 .. Len(frames) /\ k <= i /\ i < LenOf(frames, r)
    BY <1>2, <1>4, <2>2 DEF ReaderAt
  <2>4. r # 0
    BY <2>3 DEF LenOf
  <2>5. r \in 1 .. Len(frames)
    BY <2>3, <2>4
  <2>6. PICK s \in Shapes : s = frames[r] /\ LenOf(frames, r) = Len(s.sizes)
    BY <1>1, <2>5, PkOf
  <2>7. PICK n \in Nat : n = Len(s.sizes)
    BY ShapesAre
  <2>8. k + 1 <= n
    BY <2>3, <2>6, <2>7
  <2> QED BY <1>2, <2>7, <2>8
<1> QED BY <1>3, <1>4

LEMMA TicksAre == Ticks \in {0, 1}
  BY DEF Ticks

\* Whoever is in time for the packet being read is in time for the frame.
LEMMA PacketInTime ==
  ASSUME DvripInv, FlightInv, Live, Reading("frame"), NEW x \in Nat, x <= interval + Len(message) + 1, NEW t \in Nat
  PROVE  InTime(x, interval, t)
<1>1. PICK s \in Shapes : Len(message) + 1 <= Len(s.sizes)
  BY MessageIsShort DEF Reading
<1>2. PICK k \in Nat : k = Len(message)
  BY DEF DvripInv, DvripTypes
<1>3. PICK n \in Nat : n = Len(s.sizes)
  BY ShapesAre
<1>4. PICK a \in Nat : a = interval
  BY DEF DvripInv, DvripTypes
<1>5. x <= a + n + t
  <2>1. x <= a + k + 1 /\ k + 1 <= n
    BY <1>1, <1>2, <1>3, <1>4
  <2> QED BY <2>1
<1> QED BY <1>3, <1>4, <1>5 DEF InTime

LEMMA LaterInTime ==
  ASSUME NEW x \in Nat, NEW a \in Nat, NEW t \in Nat, NEW y \in Nat, NEW u \in Nat, InTime(x, a, t), y + t <= x + u
  PROVE  InTime(y, a, u)
<1>1. PICK s \in Shapes : x <= a + Len(s.sizes) + t
  BY DEF InTime
<1>2. PICK n \in Nat : n = Len(s.sizes)
  BY ShapesAre
<1>3. y <= a + n + u
  BY <1>1, <1>2
<1> QED BY <1>2, <1>3 DEF InTime

LEMMA TimeInit == Init => TimeInv
<1> SUFFICES ASSUME Init PROVE TimeInv
  OBVIOUS
<1>1. pc = "new" /\ ~claimDone /\ silent = 0 /\ elapsed = 0
  BY DEF Init, DvripInit
<1> QED BY <1>1 DEF TimeInv, Reading

\* A step that leaves the clock alone and ends the connection or the reading.
LEMMA TimeStops ==
  ASSUME TimeInv, pc' \in {"failed", "ended", "crashed"}, conn' = conn \/ conn' = "closed",
         UNCHANGED <<claimDone, interval, elapsed, silent>>
  PROVE  TimeInv'
<1> SUFFICES ASSUME conn' \in {"none", "open"} PROVE TimeInv'
  BY DEF TimeInv
<1>1. TimeInv /\ conn \in {"none", "open"}
  OBVIOUS
<1>2. silent' <= elapsed' /\ (claimDone' => InTime(silent', interval', 1) /\ interval' \in Intervals)
  BY <1>1 DEF TimeInv
<1>3. ~Reading("login")' /\ ~Reading("claim")' /\ ~Reading("frame")' /\ pc' \notin {"new", "idle", "raw"}
  BY DEF Reading
<1> QED BY <1>2, <1>3 DEF TimeInv

LEMMA TimeDial == ASSUME DvripInv, TimeInv, DialFails \/ Dial PROVE TimeInv'
<1>1. CASE DialFails
  <2>1. pc' = "ended" /\ UNCHANGED <<conn, claimDone, interval, elapsed, silent>>
    BY <1>1 DEF DialFails, clockVars
  <2> QED BY <2>1, TimeStops
<1>2. CASE Dial
  <2>1. /\ pc = "new" /\ pc' = "header" /\ wants' = "login" /\ silent' = 0 /\ ticked' = FALSE
        /\ UNCHANGED <<claimDone, interval, elapsed>>
    BY <1>2 DEF Dial, Expect, Sent
  <2>2. ~claimDone /\ elapsed = 0
    BY <2>1 DEF TimeInv, DvripInv, Phases
  <2>3. Ticks' = 0
    BY <2>1 DEF Ticks
  <2> QED BY <2>1, <2>2, <2>3 DEF TimeInv, Reading
<1> QED BY <1>1, <1>2

LEMMA TimeClaim == ASSUME DvripInv, TimeInv, Claim PROVE TimeInv'
<1>1. pc = "idle" /\ ~claimDone /\ UNCHANGED <<claimDone, interval, elapsed, conn>>
  BY DEF Claim
<1>2. CASE Fail("error") /\ UNCHANGED silent
  <2>1. pc' = "failed"
    BY <1>2 DEF Fail
  <2> QED BY <1>1, <1>2, <2>1, TimeStops
<1>3. CASE conn = "open" /\ Expect("claim") /\ Sent("CLAIM_RSP")
  <2>1. pc' = "header" /\ wants' = "claim" /\ message' = <<>> /\ ticked' = FALSE /\ silent' = 0
    BY <1>3 DEF Expect, Sent
  <2>2. elapsed <= 1 + Ticks /\ interval \in Intervals /\ elapsed \in Nat
    BY <1>1, <1>3 DEF TimeInv, DvripInv, DvripTypes
  <2>3. elapsed' <= 2 /\ elapsed' \in Nat /\ Ticks' = 0 /\ Len(message') = 0
    BY <1>1, <2>1, <2>2, TicksAre DEF Ticks
  <2>4. elapsed' <= 2 + Len(message') + Ticks' /\ silent' <= elapsed'
    BY <2>1, <2>3
  <2> QED BY <1>1, <2>1, <2>2, <2>4 DEF TimeInv, Reading
<1> QED BY <1>2, <1>3 DEF Claim

LEMMA TimeNext == ASSUME IntervalsFit, DvripInv, TimeInv, NextFrame PROVE TimeInv'
<1>1. pc = "idle" /\ claimDone /\ pc' = "raw" /\ UNCHANGED <<claimDone, conn, interval, elapsed, silent>>
  BY DEF NextFrame
<1> SUFFICES ASSUME conn \in {"none", "open"} PROVE TimeInv'
  BY <1>1 DEF TimeInv
<1>2. silent <= elapsed /\ InTime(elapsed, interval, Ticks) /\ InTime(silent, interval, 1) /\ interval \in Intervals
  BY <1>1 DEF TimeInv
<1>3. elapsed < ByteValues
  <2>1. PICK s \in Shapes : elapsed <= interval + Len(s.sizes) + Ticks
    BY <1>2 DEF InTime
  <2>2. PICK n \in Nat : n = Len(s.sizes)
    BY ShapesAre
  <2>3. PICK a \in Nat : a = interval
    BY DEF DvripInv, DvripTypes
  <2>4. a + n + 1 < ByteValues
    BY <1>2, <2>2, <2>3 DEF IntervalsFit
  <2>5. elapsed <= a + n + Ticks /\ elapsed \in Nat /\ ByteValues \in Nat
    BY <2>1, <2>2, <2>3, DvripAssumption DEF DvripInv, DvripTypes
  <2> QED BY <2>4, <2>5, TicksAre
<1>4. ~Reading("login")' /\ ~Reading("claim")' /\ ~Reading("frame")'
  BY <1>1 DEF Reading
<1> QED BY <1>1, <1>2, <1>3, <1>4 DEF TimeInv

LEMMA TimeRaw == ASSUME DvripInv, TimeInv, GetRawFrame PROVE TimeInv'
<1>1. /\ pc = "raw" /\ claimDone /\ pc' = "header" /\ wants' = "frame" /\ message' = <<>> /\ ticked' = FALSE
      /\ UNCHANGED <<claimDone, conn, interval>>
  BY DEF GetRawFrame, Expect, DvripInv, Phases
<1> SUFFICES ASSUME conn = "open" PROVE TimeInv'
  BY <1>1 DEF TimeInv, DvripInv, Phases
<1>2. silent <= elapsed /\ elapsed < ByteValues /\ InTime(silent, interval, 1) /\ interval \in Intervals
  BY <1>1 DEF TimeInv
<1>3. elapsed \in Nat /\ silent \in Nat /\ interval \in Nat /\ ByteValues \in Nat
  BY DvripAssumption DEF DvripInv, DvripTypes
<1>4. elapsed' <= interval /\ silent' <= elapsed' /\ elapsed' \in Nat /\ InTime(silent', interval, 1)
  <2>1. CASE PingIsDue
    <3>1. elapsed' = 0 /\ silent' = 0
      BY <2>1 DEF GetRawFrame, Sent
    <3>2. InTime(0, interval, 1)
      BY <1>2, <1>3, LaterInTime
    <3> QED BY <1>3, <3>1, <3>2
  <2>2. CASE ~PingIsDue
    <3>1. elapsed' = elapsed /\ silent' = silent
      BY <2>2 DEF GetRawFrame
    <3>2. elapsed % ByteValues = elapsed
      BY <1>2, <1>3
    <3>3. elapsed <= interval
      BY <1>3, <2>2, <3>2 DEF PingIsDue
    <3> QED BY <1>2, <1>3, <3>1, <3>3
  <2> QED BY <2>1, <2>2
<1>5. Ticks' = 0 /\ Len(message') = 0
  BY <1>1 DEF Ticks
<1>6. elapsed' <= interval' + Len(message') + Ticks'
  BY <1>1, <1>3, <1>4, <1>5
<1> QED BY <1>1, <1>2, <1>4, <1>6 DEF TimeInv, Reading

LEMMA TimeHeader ==
  ASSUME DvripInv, TimeInv, HeadFlagIsWrong \/ ReadHeader \/ ShortHeader \/ Timeout \/ ShutDown
  PROVE  TimeInv'
<1>1. CASE HeadFlagIsWrong \/ Timeout \/ ShutDown
  <2>1. /\ pc' \in {"ended", "failed"} /\ (conn' = conn \/ conn' = "closed")
        /\ UNCHANGED <<claimDone, interval, elapsed, silent>>
    BY <1>1 DEF HeadFlagIsWrong, Timeout, Fail, ShutDown, clockVars
  <2> QED BY <2>1, TimeStops
<1>2. CASE ReadHeader \/ ShortHeader
  <2>1. /\ pc = "header" /\ pc' = "data"
        /\ UNCHANGED <<wants, message, conn, claimDone, interval, elapsed, silent, ticked>>
    BY <1>2 DEF ReadHeader, ShortHeader
  <2>2. Ticks' = Ticks
    BY <2>1 DEF Ticks
  <2> QED BY <2>1, <2>2 DEF TimeInv, Reading
<1> QED BY <1>1, <1>2

\* A message that ends with the packet read was in time.
LEMMA FrameInTime ==
  ASSUME IntervalsFit, DvripInv, FlightInv, TimeInv, conn \in {"none", "open"}, pc = "data", wants = "frame"
  PROVE  /\ InTime(elapsed, interval, 0) /\ elapsed < ByteValues
         /\ silent <= elapsed /\ InTime(silent, interval, 1) /\ interval \in Intervals
<1>1. Live /\ Reading("frame")
  BY DEF Live, Reading, DvripInv, Phases
<1>2. /\ elapsed <= interval + Len(message) + Ticks
      /\ silent <= elapsed /\ InTime(silent, interval, 1) /\ interval \in Intervals
  BY <1>1 DEF TimeInv, Live
<1>3. PICK k \in Nat : k = Len(message)
  BY DEF DvripInv, DvripTypes
<1>4. elapsed \in Nat /\ interval \in Nat /\ ByteValues \in Nat
  BY DvripAssumption DEF DvripInv, DvripTypes
<1>5. elapsed <= interval + Len(message) + 1
  <2>1. elapsed <= interval + k + 1
    BY <1>2, <1>3, <1>4, TicksAre
  <2> QED BY <1>3, <2>1
<1>6. InTime(elapsed, interval, 0)
  BY <1>1, <1>4, <1>5, PacketInTime
<1>7. elapsed < ByteValues
  <2>1. PICK s \in Shapes : elapsed <= interval + Len(s.sizes) + 0
    BY <1>6 DEF InTime
  <2>2. PICK n \in Nat : n = Len(s.sizes)
    BY ShapesAre
  <2>3. interval + n + 1 < ByteValues
    BY <1>2, <2>2 DEF IntervalsFit
  <2> QED BY <1>4, <2>1, <2>2, <2>3
<1> QED BY <1>2, <1>6, <1>7

LEMMA TimeRead == ASSUME IntervalsFit, DvripInv, ClaimInv, FlightInv, TimeInv, ReadData PROVE TimeInv'
<1>1. pc = "data" /\ ticked' = FALSE /\ wants' = wants /\ conn' = conn /\ elapsed' = elapsed
  BY ReadDataDoes DEF Kept
<1>2. Ticks' = 0
  BY <1>1 DEF Ticks
<1> SUFFICES ASSUME conn \in {"none", "open"} PROVE TimeInv'
  BY <1>1 DEF TimeInv
<1>3. elapsed \in Nat /\ silent \in Nat /\ interval \in Nat /\ ByteValues \in Nat
  BY DvripAssumption DEF DvripInv, DvripTypes
<1>4. PICK k \in Nat : k = Len(message)
  BY DEF DvripInv, DvripTypes
<1>5. silent <= elapsed
  BY DEF TimeInv
<1>6. CASE LoginRead
  <2>1. ~claimDone /\ UNCHANGED <<claimDone, silent>> /\ Reading("login")
    BY <1>1, <1>6 DEF LoginRead, Reading, DvripInv, Phases
  <2>2. elapsed <= 1
    BY <1>3, <2>1, TicksAre DEF TimeInv
  <2>3. CASE pc' = "ended" /\ interval' = interval
    BY <1>1, <2>1, <2>3, TimeStops
  <2>4. CASE pc' = "idle" /\ interval' \in Intervals
    <3>1. elapsed' <= 1 + Ticks' /\ silent' <= elapsed'
      BY <1>1, <1>2, <1>3, <1>5, <2>1, <2>2
    <3> QED BY <2>1, <2>4, <3>1 DEF TimeInv, Reading
  <2> QED BY <1>6, <2>3, <2>4 DEF LoginRead
<1>7. CASE FailedRead
  <2>1. pc' \in {"failed", "crashed"} /\ UNCHANGED <<claimDone, silent, interval>>
    BY <1>7 DEF FailedRead
  <2> QED BY <1>1, <2>1, TimeStops
<1>8. CASE MoreRead
  <2>1. /\ wants # "login" /\ pc' = "header" /\ message' = Packets
        /\ UNCHANGED <<claimDone, silent, interval>>
    BY <1>8 DEF MoreRead
  <2>2. Len(message') = k + 1
    <3>1. message \in Seq(Packet) /\ head \in Packet
      BY <1>1 DEF DvripInv, DvripTypes
    <3>2. Len(Append(message, head)) = k + 1
      BY <1>4, <3>1, AppendIs
    <3> QED BY <2>1, <3>2, Zenon DEF Packets
  <2>3. ASSUME wants = "claim" PROVE elapsed' <= 2 + Len(message') + Ticks' /\ interval' \in Intervals
    <3>1. elapsed <= 2 + k + Ticks /\ interval \in Intervals
      BY <1>1, <1>4, <2>3 DEF TimeInv, Reading
    <3> QED BY <1>1, <1>2, <1>3, <2>1, <2>2, <3>1, TicksAre
  <2>4. ASSUME wants = "frame" PROVE elapsed' <= interval' + Len(message') + Ticks'
    <3>1. elapsed <= interval + k + Ticks
      BY <1>1, <1>4, <2>4 DEF TimeInv, Reading
    <3> QED BY <1>1, <1>2, <1>3, <2>1, <2>2, <3>1, TicksAre
  <2>5. silent' <= elapsed' /\ (claimDone' => InTime(silent', interval', 1) /\ interval' \in Intervals)
    BY <1>1, <2>1 DEF TimeInv
  <2>6. wants' # "login" /\ pc' \notin {"new", "idle", "raw"}
    BY <1>1, <2>1
  <2> QED BY <1>1, <2>3, <2>4, <2>5, <2>6 DEF TimeInv, Reading
<1>9. CASE ClaimRead
  <2>1. wants = "claim" /\ pc' = "raw" /\ claimDone' = TRUE /\ silent' = 0 /\ interval' = interval
    BY <1>9 DEF ClaimRead
  <2>2. elapsed <= 2 + k + Ticks /\ interval \in Intervals
    BY <1>1, <1>4, <2>1 DEF TimeInv, Reading
  <2>3. k <= 1
    <3>1. Claiming
      BY <1>1, <2>1 DEF Claiming, DvripInv, Phases
    <3>2. message = <<>> \/ Len(message) = 1
      BY <3>1 DEF ClaimInv
    <3> QED BY <1>4, <3>2
  <2>4. elapsed' < ByteValues /\ silent' <= elapsed'
    BY <1>1, <1>3, <2>1, <2>2, <2>3, TicksAre DEF IntervalsFit
  <2>5. InTime(0, interval, 1)
    <3>1. PICK s \in Shapes : 1 <= Len(s.sizes)
      BY ShapesAre
    <3>2. PICK n \in Nat : n = Len(s.sizes)
      BY ShapesAre
    <3>3. 0 <= interval + n + 1
      BY <1>3
    <3> QED BY <3>2, <3>3 DEF InTime
  <2>6. ~Reading("login")' /\ ~Reading("claim")' /\ ~Reading("frame")'
    BY <2>1 DEF Reading
  <2> QED BY <2>1, <2>2, <2>4, <2>5, <2>6 DEF TimeInv
<1>10. CASE SkipRead \/ FrameRead
  <2>1. wants = "frame" /\ pc' \in {"raw", "idle"} /\ UNCHANGED <<claimDone, silent, interval>>
    BY <1>10 DEF SkipRead, FrameRead
  <2>2. /\ InTime(elapsed, interval, 0) /\ elapsed < ByteValues
        /\ silent <= elapsed /\ InTime(silent, interval, 1) /\ interval \in Intervals
    BY <1>1, <2>1, FrameInTime
  <2>3. InTime(elapsed', interval', Ticks')
    BY <1>1, <1>2, <2>1, <2>2, Zenon
  <2>4. claimDone'
    BY <1>1, <2>1 DEF DvripInv, Phases
  <2>5. ~Reading("login")' /\ ~Reading("claim")' /\ ~Reading("frame")' /\ pc' # "new"
    BY <2>1 DEF Reading
  <2> QED BY <1>1, <2>1, <2>2, <2>3, <2>4, <2>5 DEF TimeInv
<1> QED BY <1>6, <1>7, <1>8, <1>9, <1>10, ReadDataDoes, Zenon

LEMMA TimeTick == ASSUME DvripInv, FlightInv, TimeInv, Tick PROVE TimeInv'
<1>1. /\ pc \in {"header", "data", "idle"} /\ ~ticked /\ ticked' = TRUE /\ elapsed' = elapsed + 1
      /\ silent' = silent + 1 /\ UNCHANGED <<pc, wants, message, conn, claimDone, interval>>
  BY DEF Tick, readVars
<1> SUFFICES ASSUME conn \in {"none", "open"} PROVE TimeInv'
  BY <1>1 DEF TimeInv
<1>2. Ticks = 0 /\ Ticks' = 1
  BY <1>1 DEF Ticks
<1>3. elapsed \in Nat /\ silent \in Nat /\ interval \in Nat
  BY DEF DvripInv, DvripTypes
<1>4. PICK k \in Nat : k = Len(message) /\ k = Len(message')
  BY <1>1 DEF DvripInv, DvripTypes
<1>5. silent <= elapsed /\ silent' <= elapsed'
  BY <1>1, <1>3 DEF TimeInv
<1>6. ASSUME Reading("login") PROVE elapsed' <= Ticks'
  BY <1>1, <1>2, <1>3, <1>6 DEF TimeInv
<1>7. ASSUME pc = "idle", ~claimDone PROVE elapsed' <= 1 + Ticks' /\ interval' \in Intervals
  BY <1>1, <1>2, <1>3, <1>7 DEF TimeInv
<1>8. ASSUME Reading("claim") PROVE elapsed' <= 2 + Len(message') + Ticks' /\ interval' \in Intervals
  <2>1. elapsed <= 2 + k + 0 /\ interval \in Intervals
    BY <1>2, <1>4, <1>8 DEF TimeInv
  <2> QED BY <1>1, <1>2, <1>3, <1>4, <2>1
<1>9. ASSUME Reading("frame") PROVE elapsed' <= interval' + Len(message') + Ticks'
  <2>1. elapsed <= interval + k + 0
    BY <1>2, <1>4, <1>9 DEF TimeInv
  <2> QED BY <1>1, <1>2, <1>3, <1>4, <2>1
<1>10. ASSUME claimDone PROVE InTime(silent', interval', 1) /\ interval' \in Intervals /\ (pc = "idle" => InTime(elapsed', interval', Ticks'))
  <2>1. interval \in Intervals
    BY <1>10 DEF TimeInv
  <2>2. CASE pc = "idle"
    <3>1. InTime(elapsed, interval, 0)
      BY <1>2, <1>10, <2>2 DEF TimeInv
    <3>2. InTime(silent + 1, interval, 1) /\ InTime(elapsed + 1, interval, 1)
      BY <1>3, <1>5, <3>1, LaterInTime
    <3> QED BY <1>1, <1>2, <2>1, <3>2, Zenon
  <2>3. CASE pc \in {"header", "data"}
    <3>1. Live /\ Reading("frame")
      BY <1>10, <2>3 DEF Live, Reading, DvripInv, Phases
    <3>2. silent + 1 <= interval + Len(message) + 1
      <4>1. elapsed <= interval + k + 0
        BY <1>2, <1>4, <3>1 DEF TimeInv
      <4>2. silent + 1 <= interval + k + 1
        BY <1>3, <1>5, <4>1
      <4> QED BY <1>4, <4>2
    <3>3. InTime(silent + 1, interval, 1)
      BY <1>3, <3>1, <3>2, PacketInTime
    <3>4. pc # "idle"
      BY <2>3
    <3> QED BY <1>1, <2>1, <3>3, <3>4, Zenon
  <2> QED BY <1>1, <2>2, <2>3
<1>11. (\A what \in {"login", "claim", "frame"} : Reading(what)' => Reading(what)) /\ pc' \notin {"new", "raw"}
  BY <1>1 DEF Reading
<1> QED BY <1>1, <1>5, <1>6, <1>7, <1>8, <1>9, <1>10, <1>11 DEF TimeInv

LEMMA TimeCamera ==
  ASSUME DvripInv, TimeInv, CameraSends \/ CameraReplies \/ ReplyGoesOn \/ ConnectionLost \/ UNCHANGED dvripVars
  PROVE  TimeInv'
<1>1. CASE ConnectionLost
  BY <1>1 DEF ConnectionLost, TimeInv
<1>2. CASE CameraSends \/ CameraReplies \/ ReplyGoesOn \/ UNCHANGED dvripVars
  <2>1. UNCHANGED <<pc, wants, message, conn, claimDone, interval, elapsed, silent, ticked>>
    BY <1>2 DEF CameraSends, CameraReplies, ReplyGoesOn, dvripVars, readVars, clockVars
  <2>2. Ticks' = Ticks
    BY <2>1 DEF Ticks
  <2> QED BY <2>1, <2>2 DEF TimeInv, Reading
<1> QED BY <1>1, <1>2

LEMMA TimeStep ==
  ASSUME IntervalsFit, DvripInv, ClaimInv, FlightInv, TimeInv, DvripNext \/ UNCHANGED dvripVars
  PROVE  TimeInv'
<1> QED BY TimeDial, TimeClaim, TimeNext, TimeRaw, TimeHeader, TimeRead, TimeTick, TimeCamera, Zenon
        DEF DvripNext, DvripTask

LEMMA TimeIs == ASSUME DvripInv, TimeInv PROVE KeepAliveInTime
<1> SUFFICES ASSUME claimDone, conn = "open" PROVE \E s \in Shapes : silent <= interval + Len(s.sizes) + 1
  BY DEF KeepAliveInTime
<1>1. InTime(silent, interval, 1)
  BY DEF TimeInv
<1> QED BY <1>1 DEF InTime

\* The camera hears from the client in time (dvr/client.go, keepAlive in
\* getRawFrame), if an interval and the longest frame after it fit an octet.
THEOREM CameraHearsInTime == ASSUME IntervalsFit PROVE Spec => []KeepAliveInTime
<1>1. Init => DvripInv /\ ClaimInv /\ FlightInv /\ TimeInv
  BY DvripTypeInit, ClaimInit, FlightInit, TimeInit
<1>2. ASSUME DvripInv, ClaimInv, FlightInv, TimeInv, [Next]_vars
      PROVE  DvripInv' /\ ClaimInv' /\ FlightInv' /\ TimeInv'
  <2>1. DvripNext \/ UNCHANGED dvripVars
    BY <1>2 DEF Next, vars
  <2>2. DvripInv' /\ ClaimInv' /\ FlightInv'
    BY <1>2, <2>1, DvripTypeStep, ClaimStep, FlightStep
  <2> QED BY <1>2, <2>1, <2>2, TimeStep
<1>3. DvripInv /\ TimeInv => KeepAliveInTime
  BY TimeIs
<1> QED BY <1>1, <1>2, <1>3, PTL DEF Spec

----------------------------------------------------------------------------
(* DVRIP: the durations of frames *)

\* What a product of natural numbers is, for the provers.
LEMMA ProductIsNatural == ASSUME NEW x \in Nat, NEW y \in Nat PROVE x * y \in Nat
  OBVIOUS

LEMMA Difference == ASSUME NEW x \in Nat, NEW y \in Nat, x <= y PROVE \E u \in Nat : y = x + u
<1>1. y - x \in Nat /\ y = x + (y - x)
  OBVIOUS
<1> QED BY <1>1

LEMMA ProductGrows ==
  ASSUME NEW x \in Nat, NEW y \in Nat, NEW z \in Nat, x <= y PROVE x * z <= y * z
<1>1. PICK u \in Nat : y = x + u
  BY Difference
<1>2. y * z = x * z + u * z
  BY <1>1
<1>3. PICK a \in Nat, c \in Nat : a = x * z /\ c = u * z
  BY ProductIsNatural
<1> QED BY <1>2, <1>3

LEMMA QuotientAndRest ==
  ASSUME NEW x \in Nat, NEW y \in Nat \ {0}
  PROVE  \E q \in Nat : \E r \in 0 .. y - 1 : x = q * y + r /\ r = x % y /\ q = x \div y
  OBVIOUS

LEMMA Quotient == ASSUME NEW n \in Nat, NEW y \in Nat \ {0} PROVE (n * y) \div y = n
  OBVIOUS

\* What is left of b, and of a number below it, without what they have in common.
LEMMA GcdDivides ==
  ASSUME NEW b \in Nat \ {0}, NEW a \in 0 .. b - 1
  PROVE  /\ Gcd(a, b) \in 1 .. b
         /\ \E n \in 0 .. b - 1, d \in 1 .. b :
              n < d /\ a = n * Gcd(a, b) /\ b = d * Gcd(a, b) /\ a \div Gcd(a, b) = n /\ b \div Gcd(a, b) = d
<1>1. PICK T : T = {n \in 1 .. b : a % n = 0 /\ b % n = 0}
  OBVIOUS
<1>2. T \subseteq 1 .. b /\ 1 \in T
  BY <1>1
<1>3. PICK G \in T : G = Gcd(a, b)
  BY <1>1, <1>2, GreatestIn DEF Gcd
<1>4. G \in Nat \ {0} /\ G \in 1 .. b /\ a % G = 0 /\ b % G = 0 /\ a \in Nat
  BY <1>1, <1>3
<1>5. PICK n \in Nat : a = n * G /\ n = a \div G
  <2>1. PICK q \in Nat, r \in 0 .. G - 1 : a = q * G + r /\ r = a % G /\ q = a \div G
    BY <1>4, QuotientAndRest
  <2>2. a = q * G + 0
    BY <1>4, <2>1
  <2> QED BY <1>4, <2>1, <2>2
<1>6. PICK d \in Nat : b = d * G /\ d = b \div G
  <2>1. PICK q \in Nat, r \in 0 .. G - 1 : b = q * G + r /\ r = b % G /\ q = b \div G
    BY <1>4, QuotientAndRest
  <2>2. b = q * G + 0
    BY <1>4, <2>1
  <2> QED BY <1>4, <2>1, <2>2
<1>7. n < d
  <2> SUFFICES ASSUME d <= n PROVE FALSE
    OBVIOUS
  <2>1. d * G <= n * G
    BY <1>4, ProductGrows
  <2> QED BY <1>5, <1>6, <2>1
<1>8. d <= b
  <2>1. 1 * d <= G * d /\ G * d = d * G
    BY <1>4, ProductGrows
  <2> QED BY <1>6, <2>1
<1>9. n \in 0 .. b - 1 /\ d \in 1 .. b
  BY <1>7, <1>8
<1> QED BY <1>3, <1>4, <1>5, <1>6, <1>7, <1>9

\* A rate's cycle of d frames, the first n of them a millisecond longer than lo;
\* a is what lo a frame leaves over in a second.
Cycle(fps, lo, a, n, d, G) ==
  /\ fps \in 4 .. 255 /\ lo \in Nat /\ a \in 0 .. fps - 1 /\ n \in 0 .. a /\ d \in 1 .. fps /\ G \in Nat
  /\ 1000 = lo * fps + a /\ n < d /\ n * fps = d * a /\ fps = G * d

At(fps, lo, n, d, i) == [FPS |-> fps, loSpf |-> lo, currentIndex |-> i, numerator |-> n, denominator |-> d]

LEMMA ProductCommutes == ASSUME NEW x \in Nat, NEW y \in Nat, NEW z \in Nat PROVE x * (y * z) = y * (x * z) /\ x * y = y * x
  OBVIOUS

LEMMA FitsAnOctet == ASSUME NEW x \in 0 .. 255 PROVE x % 256 = x
  OBVIOUS

LEMMA ClockIs ==
  ASSUME NEW fps \in 4 .. 255
  PROVE  \E lo, a, n, d, G : Cycle(fps, lo, a, n, d, G) /\ NewPTS(fps) = At(fps, lo, n, d, 1)
<1>1. PICK lo \in Nat, a \in 0 .. fps - 1 : 1000 = lo * fps + a /\ a = 1000 % fps /\ lo = 1000 \div fps
  <2>1. 1000 \in Nat /\ fps \in Nat \ {0}
    OBVIOUS
  <2> QED BY <2>1, QuotientAndRest
<1>2. PICK G \in 1 .. fps, n \in 0 .. fps - 1, d \in 1 .. fps :
        /\ n < d /\ a = n * G /\ fps = d * G
        /\ (1000 % fps) \div Gcd(1000 % fps, fps) = n /\ fps \div Gcd(1000 % fps, fps) = d
  <2>1. fps \in Nat \ {0} /\ 1000 % fps \in 0 .. fps - 1
    BY <1>1
  <2>5. ASSUME NEW x \in 0 .. fps - 1
        PROVE  /\ Gcd(x, fps) \in 1 .. fps
               /\ \E n \in 0 .. fps - 1, d \in 1 .. fps :
                    n < d /\ x = n * Gcd(x, fps) /\ fps = d * Gcd(x, fps) /\ x \div Gcd(x, fps) = n /\ fps \div Gcd(x, fps) = d
    BY <2>1, GcdDivides
  <2>2. PICK G \in 1 .. fps : G = Gcd(1000 % fps, fps)
    BY <2>1, <2>5
  <2>3. PICK n \in 0 .. fps - 1, d \in 1 .. fps :
           /\ n < d /\ 1000 % fps = n * Gcd(1000 % fps, fps) /\ fps = d * Gcd(1000 % fps, fps)
           /\ (1000 % fps) \div Gcd(1000 % fps, fps) = n /\ fps \div Gcd(1000 % fps, fps) = d
    BY <2>1, <2>5
  <2>4. a = n * G /\ fps = d * G
    BY <1>1, <2>2, <2>3
  <2> QED BY <2>2, <2>3, <2>4
<1>3. lo < 256
  <2> SUFFICES ASSUME 256 <= lo PROVE FALSE
    BY <1>1
  <2>1. 256 * fps <= lo * fps
    BY ProductGrows
  <2> QED BY <1>1, <2>1
<1>4. n \in 0 .. a
  <2>1. 1 * n <= G * n /\ G * n = n * G
    BY ProductGrows
  <2> QED BY <1>2, <2>1
<1>5. n * fps = d * a /\ fps = G * d
  BY <1>2, ProductCommutes
<1>6. Cycle(fps, lo, a, n, d, G)
  BY <1>1, <1>2, <1>4, <1>5 DEF Cycle
<1>7. lo % 256 = lo /\ n % 256 = n /\ d % 256 = d
  <2>1. lo \in 0 .. 255 /\ n \in 0 .. 255 /\ d \in 0 .. 255
    BY <1>1, <1>3
  <2> QED BY <2>1, FitsAnOctet
<1>8. NewPTS(fps) = At(fps, lo, n, d, 1)
  <2>0. lo = 1000 \div fps
    BY <1>1, SMTT(20)
  <2>1. (1000 \div fps) % 256 = lo
    BY <1>7, <2>0, Zenon
  <2>2. ((1000 % fps) \div Gcd(1000 % fps, fps)) % 256 = n
    BY <1>2, <1>7
  <2>3. (fps \div Gcd(1000 % fps, fps)) % 256 = d
    BY <1>2, <1>7
  <2> QED BY ONLY <2>1, <2>2, <2>3 DEF NewPTS, At
<1> QED BY <1>6, <1>8

\* How far c frames of a cycle are ahead of the rate, in units of 1 / fps ms.
Ahead(fps, a, n, c) == (IF c <= n THEN c ELSE n) * fps - c * a

LEMMA AheadIsBounded ==
  ASSUME NEW fps, NEW lo, NEW a, NEW n, NEW d, NEW G, Cycle(fps, lo, a, n, d, G), NEW c \in 0 .. d - 1
  PROVE  Ahead(fps, a, n, c) \in Int /\ 0 <= Ahead(fps, a, n, c) /\ 4 * Ahead(fps, a, n, c) <= fps * fps
<1>1. fps \in Nat /\ a \in Nat /\ n \in Nat /\ d \in Nat /\ c \in Nat /\ n <= a /\ a <= fps /\ c <= d
  BY DEF Cycle
<1>2. PICK u \in Nat : fps = a + u
  BY <1>1, Difference
<1>3. n * u <= a * u
  BY <1>1, ProductGrows
<1>4. 4 * (a * u) <= fps * fps
  <2>1. fps * fps - 4 * (a * u) = (a - u) * (a - u)
    BY <1>1, <1>2
  <2>2. (a - u) * (a - u) >= 0
    BY <1>1
  <2>3. PICK x \in Int, y \in Int : x = fps * fps /\ y = a * u
    BY <1>1
  <2> QED BY <2>1, <2>2, <2>3
<1>5. CASE c <= n
  <2>1. Ahead(fps, a, n, c) = c * fps - c * a
    BY <1>5 DEF Ahead
  <2>2. c * fps = c * a + c * u
    BY <1>1, <1>2
  <2>3. c * u <= n * u
    BY <1>1, <1>5, ProductGrows
  <2>4. PICK x \in Nat, y \in Nat, z \in Nat, v \in Nat, w \in Nat :
          x = c * u /\ y = c * a /\ z = n * u /\ v = a * u /\ w = fps * fps
    BY <1>1, ProductIsNatural
  <2>5. Ahead(fps, a, n, c) = x
    BY <2>1, <2>2, <2>4
  <2> QED BY <1>3, <1>4, <2>3, <2>4, <2>5
<1>6. CASE ~(c <= n)
  <2>1. Ahead(fps, a, n, c) = n * fps - c * a
    BY <1>6 DEF Ahead
  <2>2. n * fps = n * a + n * u
    BY <1>1, <1>2
  <2>3. n * a <= c * a /\ c * a <= d * a
    BY <1>1, <1>6, ProductGrows
  <2>4. PICK x \in Nat, y \in Nat, z \in Nat, v \in Nat, w \in Nat, p \in Nat :
          x = c * a /\ y = n * a /\ z = n * u /\ v = a * u /\ w = fps * fps /\ p = d * a
    BY <1>1, ProductIsNatural
  <2>5. Ahead(fps, a, n, c) = y + z - x /\ y + z = p
    BY <2>1, <2>2, <2>4 DEF Cycle
  <2> QED BY <1>3, <1>4, <2>3, <2>4, <2>5
<1> QED BY <1>5, <1>6

LEMMA AheadStep ==
  ASSUME NEW fps, NEW lo, NEW a, NEW n, NEW d, NEW G, Cycle(fps, lo, a, n, d, G), NEW i \in 1 .. d
  PROVE  Ahead(fps, a, n, i - 1) + fps * NextDuration(At(fps, lo, n, d, i)) - 1000
           = IF i = d THEN 0 ELSE Ahead(fps, a, n, i)
<1>1. fps \in Nat /\ a \in Nat /\ n \in Nat /\ d \in Nat /\ i \in Nat /\ lo \in Nat
  BY DEF Cycle
<1>2. 1000 = lo * fps + a /\ n * fps = d * a /\ n < d
  BY DEF Cycle
<1>3. i * a = (i - 1) * a + a /\ i * fps = (i - 1) * fps + fps /\ fps * (lo + 1) = lo * fps + fps /\ fps * lo = lo * fps
  BY <1>1
<1>4. i - 1 \in Nat
  BY <1>1
<1>5. PICK w \in Nat, x \in Nat, y \in Nat, z \in Nat :
        x = (i - 1) * a /\ y = (i - 1) * fps /\ z = lo * fps /\ w = n * fps
  BY <1>1, <1>4, ProductIsNatural
<1>6. CASE i <= n
  <2>1. NextDuration(At(fps, lo, n, d, i)) = lo + 1
    BY <1>6 DEF NextDuration, At
  <2>2. Ahead(fps, a, n, i - 1) = (i - 1) * fps - (i - 1) * a /\ Ahead(fps, a, n, i) = i * fps - i * a
    BY <1>1, <1>6 DEF Ahead
  <2>3. Ahead(fps, a, n, i - 1) = y - x
    BY <1>5, <2>2, Zenon
  <2>5. Ahead(fps, a, n, i) = (y + fps) - (x + a)
    BY <1>3, <1>5, <2>2, Zenon
  <2>4. fps * NextDuration(At(fps, lo, n, d, i)) = z + fps /\ 1000 = z + a /\ i # d
    BY <1>1, <1>2, <1>3, <1>5, <1>6, <2>1
  <2> QED BY <1>1, <2>3, <2>4, <2>5
<1>7. CASE ~(i <= n)
  <2>1. NextDuration(At(fps, lo, n, d, i)) = lo
    BY <1>7 DEF NextDuration, At
  <2>2. Ahead(fps, a, n, i) = n * fps - i * a
    BY <1>7 DEF Ahead
  <2>3. Ahead(fps, a, n, i - 1) = n * fps - (i - 1) * a
    <3>1. CASE i - 1 = n
      BY <3>1 DEF Ahead
    <3>2. CASE i - 1 # n
      <4>1. ~(i - 1 <= n)
        BY <1>1, <1>7, <3>2
      <4> QED BY <4>1 DEF Ahead
    <3> QED BY <3>1, <3>2
  <2>4. Ahead(fps, a, n, i - 1) = w - x /\ Ahead(fps, a, n, i) = w - (x + a)
    BY <1>3, <1>5, <2>2, <2>3
  <2>5. fps * NextDuration(At(fps, lo, n, d, i)) = z /\ 1000 = z + a
    BY <1>1, <1>2, <1>3, <1>5, <2>1
  <2>6. i = d => w = x + a
    BY <1>2, <1>3, <1>5
  <2> QED BY <1>1, <2>4, <2>5, <2>6
<1> QED BY <1>6, <1>7

\* The clock at place i of its cycle of d frames.
Ticking(fps, lo, a, n, d, i) == [clock |-> At(fps, lo, n, d, i), ahead |-> Ahead(fps, a, n, i - 1)]
TickOf(fps, s) == [clock |-> Advance(s.clock), ahead |-> s.ahead + fps * NextDuration(s.clock) - 1000]

LEMMA TickingNext ==
  ASSUME NEW fps, NEW lo, NEW a, NEW n, NEW d, NEW G, Cycle(fps, lo, a, n, d, G), NEW i \in 1 .. d
  PROVE  TickOf(fps, Ticking(fps, lo, a, n, d, i)) = Ticking(fps, lo, a, n, d, IF i = d THEN 1 ELSE i + 1)
<1>1. Ahead(fps, a, n, i - 1) + fps * NextDuration(At(fps, lo, n, d, i)) - 1000
           = IF i = d THEN 0 ELSE Ahead(fps, a, n, i)
  BY AheadStep
<1>2. Advance(At(fps, lo, n, d, i)) = At(fps, lo, n, d, IF i = d THEN 1 ELSE i + 1)
  BY DEF Advance, At
<1>3. fps \in Nat /\ a \in Nat /\ n \in Nat /\ d \in Nat /\ i \in Nat
  BY DEF Cycle
<1>4. (1 - 1 = 0) /\ (i + 1) - 1 = i
  BY <1>3
<1>5. Ahead(fps, a, n, 0) = 0
  BY <1>3 DEF Ahead
<1> DEFINE j == IF i = d THEN 1 ELSE i + 1
<1>6. Ahead(fps, a, n, i - 1) + fps * NextDuration(At(fps, lo, n, d, i)) - 1000 = Ahead(fps, a, n, j - 1)
  <2>1. CASE i = d
    <3>1. j - 1 = 0
      BY <2>1
    <3> HIDE DEF j
    <3> QED BY <1>1, <1>5, <2>1, <3>1
  <2>2. CASE i # d
    <3>1. j - 1 = i
      BY <1>3, <2>2
    <3> HIDE DEF j
    <3> QED BY <1>1, <2>2, <3>1
  <2> QED BY <2>1, <2>2
<1> HIDE DEF j
<1>7. TickOf(fps, Ticking(fps, lo, a, n, d, i)) = Ticking(fps, lo, a, n, d, j)
  <2>1. Advance(At(fps, lo, n, d, i)) = At(fps, lo, n, d, j)
    BY <1>2, Zenon DEF j
  <2> QED BY <1>6, <2>1, Zenon DEF TickOf, Ticking
<1> QED BY <1>7, Zenon DEF j

\* The function of DurationsFollowTheClock.
IsClock(g, fps) ==
  g = [k \in 0 .. fps |-> IF k = 0 THEN [clock |-> NewPTS(fps), ahead |-> 0] ELSE TickOf(fps, g[k - 1])]

\* After k frames r cycles are over.
Place(k, r, d, i) == r \in Nat /\ i \in 1 .. d /\ k = r * d + i - 1

LEMMA PlaceNext ==
  ASSUME NEW k \in Nat, NEW d \in Nat, NEW r, NEW i, Place(k, r, d, i)
  PROVE  \E q : Place(k + 1, q, d, IF i = d THEN 1 ELSE i + 1)
<1>1. r \in Nat /\ i \in 1 .. d /\ k = r * d + i - 1
  BY DEF Place
<1>2. (r + 1) * d = r * d + d /\ r + 1 \in Nat
  BY <1>1
<1>3. PICK x \in Nat : x = r * d
  BY <1>1, ProductIsNatural
<1>4. CASE i = d
  <2>1. Place(k + 1, r + 1, d, 1)
    BY <1>1, <1>2, <1>3, <1>4 DEF Place
  <2> QED BY <1>4, <2>1
<1>5. CASE i # d
  <2>1. Place(k + 1, r, d, i + 1)
    BY <1>1, <1>3, <1>5 DEF Place
  <2> QED BY <1>5, <2>1
<1> QED BY <1>4, <1>5

\* At the end of a cycle the next one begins.
LEMMA PlaceAtEnd ==
  ASSUME NEW G \in Nat, NEW d \in Nat, NEW r, NEW i, Place(G * d, r, d, i) PROVE i = 1
<1>1. r \in Nat /\ i \in 1 .. d /\ G * d = r * d + i - 1
  BY DEF Place
<1>2. PICK x \in Nat, y \in Nat : x = r * d /\ y = G * d
  BY <1>1, ProductIsNatural
<1>3. CASE G <= r
  <2>1. G * d <= r * d
    BY <1>1, <1>3, ProductGrows
  <2> QED BY <1>1, <1>2, <2>1
<1>4. CASE ~(G <= r)
  <2>1. (r + 1) * d <= G * d
    BY <1>1, <1>4, ProductGrows
  <2>2. (r + 1) * d = r * d + d
    BY <1>1
  <2> QED BY <1>1, <1>2, <2>1, <2>2
<1> QED BY <1>3, <1>4

LEMMA ClockRuns ==
  ASSUME NEW fps, NEW lo, NEW a, NEW n, NEW d, NEW G, Cycle(fps, lo, a, n, d, G),
         NewPTS(fps) = At(fps, lo, n, d, 1), NEW g, IsClock(g, fps)
  PROVE  \A k \in 0 .. fps : \E r, i : Place(k, r, d, i) /\ g[k] = Ticking(fps, lo, a, n, d, i)
<1> DEFINE Runs(k) == \E r, i : Place(k, r, d, i) /\ g[k] = Ticking(fps, lo, a, n, d, i)
           T == {k \in Nat : k <= fps => Runs(k)}
<1>1. fps \in Nat /\ d \in Nat \ {0} /\ a \in Nat /\ n \in Nat
  BY DEF Cycle
<1>2. g[0] = Ticking(fps, lo, a, n, d, 1)
  <2>1. 0 \in 0 .. fps
    BY <1>1
  <2>2. g[0] = [clock |-> NewPTS(fps), ahead |-> 0]
    BY <2>1, Zenon DEF IsClock
  <2>3. Ahead(fps, a, n, 1 - 1) = 0
    BY <1>1 DEF Ahead
  <2> QED BY <2>2, <2>3, Zenon DEF Ticking
<1>3. 0 \in T
  <2>1. Place(0, 0, d, 1)
    BY <1>1 DEF Place
  <2> QED BY <1>2, <2>1
<1>4. ASSUME NEW k \in Nat, k \in T PROVE k + 1 \in T
  <2> SUFFICES ASSUME k + 1 <= fps PROVE Runs(k + 1)
    OBVIOUS
  <2>1. Runs(k)
    BY <1>1, <1>4
  <2>2. PICK r, i : Place(k, r, d, i) /\ g[k] = Ticking(fps, lo, a, n, d, i)
    BY <2>1
  <2>3. k + 1 \in 0 .. fps /\ k + 1 # 0 /\ (k + 1) - 1 = k
    BY <1>1
  <2>4. g[k + 1] = TickOf(fps, g[(k + 1) - 1])
    BY <2>3, Zenon DEF IsClock
  <2>5. i \in 1 .. d
    BY <2>2 DEF Place
  <2> DEFINE j == IF i = d THEN 1 ELSE i + 1
  <2>6. TickOf(fps, g[k]) = Ticking(fps, lo, a, n, d, j)
    BY <2>2, <2>5, TickingNext
  <2>7. \E q : Place(k + 1, q, d, j)
    BY <1>1, <2>2, PlaceNext
  <2> HIDE DEF j
  <2>8. g[k + 1] = Ticking(fps, lo, a, n, d, j)
    BY <2>3, <2>4, <2>6, Zenon
  <2> QED BY <2>7, <2>8
<1> HIDE DEF T
<1>5. \A k \in Nat : k \in T
  BY <1>3, <1>4, NumbersFromZero
<1> QED BY <1>1, <1>5 DEF T

\* The function exists.
LEMMA ClockExists ==
  ASSUME NEW fps, NEW lo, NEW a, NEW n, NEW d, NEW G, Cycle(fps, lo, a, n, d, G),
         NewPTS(fps) = At(fps, lo, n, d, 1)
  PROVE  \E g : IsClock(g, fps)
<1> DEFINE S == {Ticking(fps, lo, a, n, d, i) : i \in 1 .. d}
<1>1. fps \in Nat /\ d \in Nat \ {0} /\ a \in Nat /\ n \in Nat
  BY DEF Cycle
<1>2. ASSUME NEW s \in S PROVE TickOf(fps, s) \in S
  <2>1. PICK i \in 1 .. d : s = Ticking(fps, lo, a, n, d, i)
    OBVIOUS
  <2> DEFINE j == IF i = d THEN 1 ELSE i + 1
  <2>2. TickOf(fps, s) = Ticking(fps, lo, a, n, d, j)
    BY <2>1, TickingNext
  <2>3. j \in 1 .. d
    BY <1>1
  <2> HIDE DEF j
  <2> QED BY <2>2, <2>3
<1>3. PICK step : step = [k \in 1 .. fps |-> [s \in S |-> TickOf(fps, s)]]
  OBVIOUS
<1>4. PICK first : first = Ticking(fps, lo, a, n, d, 1)
  OBVIOUS
<1>5. first = [clock |-> NewPTS(fps), ahead |-> 0]
  <2>1. Ahead(fps, a, n, 1 - 1) = 0
    BY <1>1 DEF Ahead
  <2> QED BY <1>4, <2>1, Zenon DEF Ticking
<1>6. first \in S
  <2>1. 1 \in 1 .. d
    BY <1>1
  <2> QED BY <1>4, <2>1
<1> HIDE DEF S
<1>7. step \in [1 .. fps -> [S -> S]]
  BY <1>2, <1>3
<1>8. PICK f \in [0 .. fps -> S] : f[0] = first /\ \A k \in 1 .. fps : f[k] = step[k][f[k - 1]]
  <2>1. Recursion(fps, S, first, step)
    BY <1>1, <1>6, <1>7, FunctionFromZero
  <2> QED BY <2>1 DEF Recursion
<1>9. ASSUME NEW k \in 0 .. fps PROVE f[k] = IF k = 0 THEN [clock |-> NewPTS(fps), ahead |-> 0] ELSE TickOf(fps, f[k - 1])
  <2>1. CASE k = 0
    BY <1>5, <1>8, <2>1
  <2>2. CASE k # 0
    <3>1. k \in 1 .. fps /\ k - 1 \in 0 .. fps
      BY <1>1, <2>2
    <3>2. f[k - 1] \in S /\ step[k] = [s \in S |-> TickOf(fps, s)]
      BY <1>3, <1>8, <3>1
    <3>3. step[k][f[k - 1]] = TickOf(fps, f[k - 1])
      BY <3>2
    <3> QED BY <1>8, <2>2, <3>1, <3>3
  <2> QED BY <2>1, <2>2
<1>10. f = [k \in 0 .. fps |-> IF k = 0 THEN [clock |-> NewPTS(fps), ahead |-> 0] ELSE TickOf(fps, f[k - 1])]
  BY <1>8, <1>9
<1> QED BY <1>10 DEF IsClock

\* What the property says of one rate.
KeepsUp(g, fps) ==
  (\A k \in 0 .. fps : 0 <= g[k].ahead /\ 4 * g[k].ahead <= fps * fps) /\ g[fps] = g[0]

LEMMA RateIsFollowed == ASSUME NEW fps \in 4 .. 255 PROVE KeepsUp(CHOOSE g : IsClock(g, fps), fps)
<1>1. PICK lo, a, n, d, G : Cycle(fps, lo, a, n, d, G) /\ NewPTS(fps) = At(fps, lo, n, d, 1)
  BY ClockIs
<1>2. PICK g : g = CHOOSE h : IsClock(h, fps)
  OBVIOUS
<1>3. IsClock(g, fps)
  BY <1>1, <1>2, ClockExists, Zenon
<1>4. \A k \in 0 .. fps : \E r, i : Place(k, r, d, i) /\ g[k] = Ticking(fps, lo, a, n, d, i)
  BY <1>1, <1>3, ClockRuns
<1>5. ASSUME NEW k \in 0 .. fps PROVE 0 <= g[k].ahead /\ 4 * g[k].ahead <= fps * fps
  <2>1. PICK r, i : Place(k, r, d, i) /\ g[k] = Ticking(fps, lo, a, n, d, i)
    BY <1>4
  <2>2. i - 1 \in 0 .. d - 1
    BY <1>1, <2>1 DEF Place, Cycle
  <2>3. g[k].ahead = Ahead(fps, a, n, i - 1)
    BY <2>1 DEF Ticking
  <2> QED BY <1>1, <2>2, <2>3, AheadIsBounded
<1>6. g[fps] = g[0]
  <2>1. 0 \in 0 .. fps /\ fps \in 0 .. fps
    OBVIOUS
  <2>2. ASSUME NEW k \in 0 .. fps, NEW H \in Nat, k = H * d PROVE g[k] = Ticking(fps, lo, a, n, d, 1)
    <3>1. PICK r, i : Place(k, r, d, i) /\ g[k] = Ticking(fps, lo, a, n, d, i)
      BY <1>4
    <3>2. d \in Nat
      BY <1>1 DEF Cycle
    <3>3. i = 1
      BY <2>2, <3>1, <3>2, PlaceAtEnd
    <3> QED BY <3>1, <3>3
  <2>3. G \in Nat /\ fps = G * d /\ d \in Nat
    BY <1>1 DEF Cycle
  <2>4. g[fps] = Ticking(fps, lo, a, n, d, 1)
    BY <2>1, <2>2, <2>3
  <2>5. 0 = 0 * d
    BY <2>3
  <2>6. g[0] = Ticking(fps, lo, a, n, d, 1)
    BY <2>1, <2>2, <2>5
  <2> QED BY <2>4, <2>6
<1> QED BY <1>2, <1>5, <1>6 DEF KeepsUp

\* Whatever the rate, the durations keep up with it (dvr/monitor.go, NewPTS and Next).
THEOREM DurationsKeepUp == Spec => []DurationsFollowTheClock
<1>1. DurationsFollowTheClock
  <2> SUFFICES ASSUME NEW fps \in FrameRates
               PROVE  LET after[k \in 0 .. fps] ==
                            IF k = 0 THEN [clock |-> NewPTS(fps), ahead |-> 0]
                            ELSE LET before == after[k - 1]
                                 IN  [clock |-> Advance(before.clock),
                                      ahead |-> before.ahead + fps * NextDuration(before.clock) - 1000]
                      IN  /\ \A k \in 0 .. fps : 0 <= after[k].ahead /\ 4 * after[k].ahead <= fps * fps
                          /\ after[fps] = after[0]
    BY Zenon DEF DurationsFollowTheClock
  <2>1. KeepsUp(CHOOSE g : IsClock(g, fps), fps)
    BY MonitorsAssumption, RateIsFollowed
  <2> QED BY <2>1 DEF KeepsUp, IsClock, TickOf
<1> QED BY <1>1, PTL
=============================================================================
