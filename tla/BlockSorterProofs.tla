------------------------- MODULE BlockSorterProofs -------------------------
(***************************************************************************)
(* Proofs about BlockSorter, for any number of tracks, timestamps and      *)
(* limits: what is written is sorted, and nothing is dropped as long as no *)
(* frame had to be written because of a limit.                             *)
(***************************************************************************)
EXTENDS BlockSorter, SequenceTheorems, FiniteSetTheorems, TLAPS

\* Timestamps are numbers.
LEMMA TsNat == ASSUME NEW f \in Frames PROVE f.ts \in Nat
  BY BlockSorterAssumption DEF Frames

\* A step of Next is one of these.
LEMMA Steps ==
  ASSUME [Next]_vars
  PROVE  \/ \E t \in Tracks : End(t) \/ Receive(t) \/ \E ts \in Timestamps : Read(t, ts)
         \/ SeeClosed \/ WriteOldest \/ FlushDone \/ UNCHANGED vars
  BY DEF Next, Intercept

----------------------------------------------------------------------------
\* The head of a non-empty buffer, and what is left without it.
LEMMA HeadAndTail ==
  ASSUME NEW s \in Seq(Frames), s # <<>>
  PROVE  /\ s[1] \in Frames /\ Tail(s) \in Seq(Frames)
         /\ DOMAIN Tail(s) = 1 .. Len(s) - 1 /\ DOMAIN s = 1 .. Len(s) /\ Len(s) \in Nat \ {0}
         /\ \A i \in DOMAIN Tail(s) : i \in DOMAIN s /\ i + 1 \in DOMAIN s /\ Tail(s)[i] = s[i + 1]
<1>1. Len(s) \in Nat \ {0} /\ DOMAIN s = 1 .. Len(s)
  BY EmptySeq
<1>2. Tail(s) \in Seq(Frames) /\ Len(Tail(s)) = Len(s) - 1
      /\ \A i \in 1 .. Len(s) - 1 : Tail(s)[i] = s[i + 1]
  BY HeadTailProperties
<1>3. DOMAIN Tail(s) = 1 .. Len(s) - 1
  BY <1>2
<1> QED BY <1>1, <1>2, <1>3

\* Appending to a sequence of frames.
LEMMA AppendFrames ==
  ASSUME NEW s \in Seq(Frames), NEW f \in Frames
  PROVE  /\ Append(s, f) \in Seq(Frames) /\ Len(s) \in Nat
         /\ DOMAIN s = 1 .. Len(s) /\ DOMAIN Append(s, f) = 1 .. Len(s) + 1
         /\ Append(s, f)[Len(s) + 1] = f
         /\ \A i \in 1 .. Len(s) : Append(s, f)[i] = s[i]
  BY AppendProperties

LEMMA TypeStep == TypeOK /\ [Next]_vars => TypeOK'
<1> SUFFICES ASSUME TypeOK, [Next]_vars PROVE TypeOK'
  OBVIOUS
<1> USE DEF TypeOK
<1>1. ASSUME NEW t \in Tracks, End(t) PROVE TypeOK'
  BY <1>1 DEF End
<1>2. ASSUME NEW t \in Tracks, NEW ts \in Timestamps, Read(t, ts) PROVE TypeOK'
  <2> DEFINE f == [id |-> Len(read) + 1, track |-> t, ts |-> ts]
  <2>1. f \in Frames
    BY DEF Frames
  <2>2. <<f>> \in Seq(Frames) /\ Len(<<f>>) = 1
    BY <2>1
  <2>3. read' \in Seq(Frames)
    BY <1>2, <2>1, AppendFrames DEF Read
  <2>4. hand' = [hand EXCEPT ![t] = <<f>>]
    BY <1>2 DEF Read
  <2> HIDE DEF f
  <2> QED BY <1>2, <2>2, <2>3, <2>4 DEF Read
<1>3. ASSUME NEW t \in Tracks, Receive(t) PROVE TypeOK'
  <2>1. hand[t] \in Seq(Frames) /\ hand[t] # <<>> /\ buf[t] \in Seq(Frames)
    BY <1>3 DEF Receive
  <2>2. hand[t][1] \in Frames /\ hand[t][1].id \in Nat
    BY <2>1, HeadAndTail DEF Frames
  <2>3. Append(buf[t], hand[t][1]) \in Seq(Frames)
    BY <2>1, <2>2, AppendFrames
  <2>4. hand' \in [Tracks -> Seq(Frames)] /\ \A u \in Tracks : Len(hand'[u]) <= 1
    BY <1>3 DEF Receive
  <2>5. buf' \in [Tracks -> Seq(Frames)]
    BY <1>3, <2>3 DEF Receive
  <2> QED BY <1>3, <2>2, <2>4, <2>5 DEF Receive
<1>4. CASE SeeClosed
  BY <1>4 DEF SeeClosed
<1>5. CASE WriteOldest
  <2>1. PICK t \in Tracks : /\ IsOldest(t) /\ out' = Append(out, buf[t][1])
                            /\ tDone' = HeadTs(t) /\ buf' = [buf EXCEPT ![t] = Tail(@)]
    BY <1>5 DEF WriteOldest
  <2>2. buf[t] \in Seq(Frames) /\ buf[t] # <<>>
    BY <2>1 DEF IsOldest, Filled
  <2>3. buf[t][1] \in Frames /\ Tail(buf[t]) \in Seq(Frames)
    BY <2>2, HeadAndTail
  <2>4. tDone' \in Nat
    BY <2>1, <2>3, TsNat DEF HeadTs
  <2>5. out' \in Seq(Frames)
    BY <2>1, <2>3, AppendFrames
  <2>6. forced' \in BOOLEAN
    BY <1>5 DEF WriteOldest
  <2>7. buf' \in [Tracks -> Seq(Frames)]
    BY <2>1, <2>3
  <2> QED BY <1>5, <2>4, <2>5, <2>6, <2>7 DEF WriteOldest
<1>6. CASE FlushDone
  BY <1>6 DEF FlushDone
<1>7. CASE UNCHANGED vars
  BY <1>7 DEF vars
<1> QED BY <1>1, <1>2, <1>3, <1>4, <1>5, <1>6, <1>7, Steps

LEMMA TypeInit == Init => TypeOK
<1> SUFFICES ASSUME Init PROVE TypeOK
  OBVIOUS
<1>1. <<>> \in Seq(Frames) /\ Len(<<>>) = 0
  OBVIOUS
<1>2. \A t \in Tracks : hand[t] = <<>>
  BY DEF Init
<1>3. \A t \in Tracks : Len(hand[t]) <= 1
  BY <1>1, <1>2
<1>4. hand \in [Tracks -> Seq(Frames)] /\ buf \in [Tracks -> Seq(Frames)]
  BY <1>1 DEF Init
<1> QED BY <1>1, <1>3, <1>4 DEF Init, TypeOK

\* The sorter's variables keep their types, and a reader offers one frame at most.
THEOREM TypeCorrect == Spec => []TypeOK
  BY TypeInit, TypeStep, PTL DEF Spec

----------------------------------------------------------------------------
\* Each buffer is sorted, a reader's frame is not older than what its track has in
\* the buffer, and both were read.
TracksSorted ==
  /\ \A t \in Tracks : \A i, j \in DOMAIN buf[t] : i < j => buf[t][i].ts <= buf[t][j].ts
  /\ \A t \in Tracks : \A i \in DOMAIN buf[t], k \in DOMAIN hand[t] : buf[t][i].ts <= hand[t][k].ts
  /\ \A t \in Tracks : \A i \in DOMAIN buf[t] :
       \E r \in DOMAIN read : read[r].track = t /\ read[r].ts = buf[t][i].ts
  /\ \A t \in Tracks : \A k \in DOMAIN hand[t] :
       \E r \in DOMAIN read : read[r].track = t /\ read[r].ts = hand[t][k].ts

LEMMA TracksSortedStep == TypeOK /\ TracksSorted /\ [Next]_vars => TracksSorted'
<1> SUFFICES ASSUME TypeOK, TracksSorted, [Next]_vars PROVE TracksSorted'
  OBVIOUS
<1> USE DEF TracksSorted
<1>1. ASSUME NEW t \in Tracks, End(t) PROVE TracksSorted'
  BY <1>1 DEF End
<1>2. ASSUME NEW t \in Tracks, NEW ts \in Timestamps, Read(t, ts) PROVE TracksSorted'
  <2> DEFINE f == [id |-> Len(read) + 1, track |-> t, ts |-> ts]
  <2>1. f \in Frames /\ f.ts = ts /\ f.track = t /\ read \in Seq(Frames)
    BY DEF Frames, TypeOK
  <2>2. /\ read' = Append(read, f) /\ buf' = buf
        /\ hand' = [hand EXCEPT ![t] = <<f>>]
        /\ \A i \in DOMAIN read : read[i].track = t => read[i].ts <= ts
    BY <1>2 DEF Read
  <2>3. /\ DOMAIN read = 1 .. Len(read) /\ Len(read) \in Nat /\ DOMAIN read' = 1 .. Len(read) + 1
        /\ \A r \in DOMAIN read : read'[r] = read[r]
        /\ read'[Len(read) + 1] = f
    BY <2>1, <2>2, AppendFrames
  <2>4. hand'[t] = <<f>> /\ \A u \in Tracks \ {t} : hand'[u] = hand[u]
    BY <2>2 DEF TypeOK
  <2>5. DOMAIN <<f>> = {1} /\ <<f>>[1] = f
    OBVIOUS
  <2> HIDE DEF f
  <2>6. \A r \in DOMAIN read : r \in DOMAIN read' /\ read'[r] = read[r]
    BY <2>3
  <2>7. \A i \in DOMAIN buf[t] : buf[t][i].ts <= ts
    BY <2>2
  <2>8. \A u \in Tracks : \A i \in DOMAIN buf[u], k \in DOMAIN hand'[u] : buf[u][i].ts <= hand'[u][k].ts
    BY <2>1, <2>4, <2>5, <2>7
  <2>9. \A u \in Tracks : \A i \in DOMAIN buf[u] :
          \E r \in DOMAIN read' : read'[r].track = u /\ read'[r].ts = buf[u][i].ts
    BY <2>6
  <2>10. \A u \in Tracks : \A k \in DOMAIN hand'[u] :
           \E r \in DOMAIN read' : read'[r].track = u /\ read'[r].ts = hand'[u][k].ts
    <3> SUFFICES ASSUME NEW u \in Tracks, NEW k \in DOMAIN hand'[u]
                 PROVE  \E r \in DOMAIN read' : read'[r].track = u /\ read'[r].ts = hand'[u][k].ts
      OBVIOUS
    <3>1. CASE u = t
      <4>1. Len(read) + 1 \in DOMAIN read' /\ hand'[u][k] = f
        BY <2>3, <2>4, <2>5, <3>1
      <4> QED BY <2>1, <2>3, <3>1, <4>1
    <3>2. CASE u # t
      BY <2>4, <2>6, <3>2
    <3> QED BY <3>1, <3>2
  <2> QED BY <2>2, <2>8, <2>9, <2>10
<1>3. ASSUME NEW t \in Tracks, Receive(t) PROVE TracksSorted'
  <2>1. hand[t] \in Seq(Frames) /\ hand[t] # <<>> /\ buf[t] \in Seq(Frames)
    BY <1>3 DEF Receive, TypeOK
  <2>2. hand[t][1] \in Frames /\ 1 \in DOMAIN hand[t]
    BY <2>1, HeadAndTail
  <2>3. hand'[t] = <<>> /\ (\A u \in Tracks \ {t} : hand'[u] = hand[u]) /\ read' = read
    BY <1>3 DEF Receive, TypeOK
  <2>4. \A u \in Tracks : \A k \in DOMAIN hand'[u] : k \in DOMAIN hand[u] /\ hand'[u][k] = hand[u][k]
    BY <2>3
  <2>5. CASE buf' = buf
    BY <2>3, <2>4, <2>5
  <2>6. CASE buf' = [buf EXCEPT ![t] = Append(@, hand[t][1])]
    <3> DEFINE n == Len(buf[t])
    <3>1. buf'[t] = Append(buf[t], hand[t][1]) /\ \A u \in Tracks \ {t} : buf'[u] = buf[u]
      BY <2>6 DEF TypeOK
    <3>2. /\ DOMAIN buf[t] = 1 .. n /\ n \in Nat /\ DOMAIN buf'[t] = 1 .. n + 1
          /\ buf'[t][n + 1] = hand[t][1] /\ \A i \in 1 .. n : buf'[t][i] = buf[t][i]
      BY <2>1, <2>2, <3>1, AppendFrames
    <3>3. \A i \in 1 .. n : buf[t][i].ts <= hand[t][1].ts
      BY <2>2, <3>2
    <3>4. \A i, j \in DOMAIN buf'[t] : i < j => buf'[t][i].ts <= buf'[t][j].ts
      <4> SUFFICES ASSUME NEW i \in DOMAIN buf'[t], NEW j \in DOMAIN buf'[t], i < j
                   PROVE  buf'[t][i].ts <= buf'[t][j].ts
        OBVIOUS
      <4>1. CASE j = n + 1
        <5>1. i \in 1 .. n
          BY <3>2, <4>1
        <5> QED BY <3>2, <3>3, <4>1, <5>1
      <4>2. CASE j # n + 1
        <5>1. i \in 1 .. n /\ j \in 1 .. n
          BY <3>2, <4>2
        <5> QED BY <3>2, <5>1
      <4> QED BY <4>1, <4>2
    <3>5. \A i \in DOMAIN buf'[t] : \E r \in DOMAIN read : read[r].track = t /\ read[r].ts = buf'[t][i].ts
      <4> SUFFICES ASSUME NEW i \in DOMAIN buf'[t]
                   PROVE  \E r \in DOMAIN read : read[r].track = t /\ read[r].ts = buf'[t][i].ts
        OBVIOUS
      <4>1. i = n + 1 \/ i \in 1 .. n
        BY <3>2
      <4> QED BY <2>2, <3>2, <4>1
    <3>6. \A u \in Tracks : \A i, j \in DOMAIN buf'[u] : i < j => buf'[u][i].ts <= buf'[u][j].ts
      <4>1. \A u \in Tracks \ {t} : \A i, j \in DOMAIN buf'[u] : i < j => buf'[u][i].ts <= buf'[u][j].ts
        BY <3>1
      <4> QED BY <3>4, <4>1
    <3>7. \A u \in Tracks : \A i \in DOMAIN buf'[u], k \in DOMAIN hand'[u] : buf'[u][i].ts <= hand'[u][k].ts
      BY <2>3, <3>1
    <3>8. \A u \in Tracks : \A i \in DOMAIN buf'[u] :
            \E r \in DOMAIN read' : read'[r].track = u /\ read'[r].ts = buf'[u][i].ts
      BY <2>3, <3>1, <3>5
    <3> QED BY <2>3, <2>4, <3>6, <3>7, <3>8
  <2> QED BY <1>3, <2>5, <2>6 DEF Receive
<1>4. CASE SeeClosed
  BY <1>4 DEF SeeClosed
<1>5. CASE WriteOldest
  <2>1. PICK t \in Tracks : IsOldest(t) /\ buf' = [buf EXCEPT ![t] = Tail(@)]
    BY <1>5 DEF WriteOldest
  <2>2. buf[t] \in Seq(Frames) /\ buf[t] # <<>>
    BY <2>1 DEF IsOldest, Filled, TypeOK
  <2>3. buf'[t] = Tail(buf[t]) /\ \A u \in Tracks \ {t} : buf'[u] = buf[u]
    BY <2>1 DEF TypeOK
  <2>4. hand' = hand /\ read' = read
    BY <1>5 DEF WriteOldest
  <2>5. \A i \in DOMAIN buf'[t] : i \in Int /\ i + 1 \in DOMAIN buf[t] /\ buf'[t][i] = buf[t][i + 1]
    BY <2>2, <2>3, HeadAndTail
  <2>6. \A i, j \in DOMAIN buf'[t] : i < j => buf'[t][i].ts <= buf'[t][j].ts
    BY <2>5
  <2>7. \A u \in Tracks : \A i, j \in DOMAIN buf'[u] : i < j => buf'[u][i].ts <= buf'[u][j].ts
    <3>1. \A u \in Tracks \ {t} : \A i, j \in DOMAIN buf'[u] : i < j => buf'[u][i].ts <= buf'[u][j].ts
      BY <2>3
    <3> QED BY <2>6, <3>1
  <2>8. \A u \in Tracks : \A i \in DOMAIN buf'[u] : \E j \in DOMAIN buf[u] : buf'[u][i] = buf[u][j]
    <3> SUFFICES ASSUME NEW u \in Tracks, NEW i \in DOMAIN buf'[u]
                 PROVE  \E j \in DOMAIN buf[u] : buf'[u][i] = buf[u][j]
      OBVIOUS
    <3>1. CASE u = t
      BY <2>5, <3>1
    <3>2. CASE u # t
      BY <2>3, <3>2
    <3> QED BY <3>1, <3>2
  <2>9. \A u \in Tracks : \A i \in DOMAIN buf'[u], k \in DOMAIN hand[u] : buf'[u][i].ts <= hand[u][k].ts
    BY <2>8
  <2>10. \A u \in Tracks : \A i \in DOMAIN buf'[u] :
           \E r \in DOMAIN read : read[r].track = u /\ read[r].ts = buf'[u][i].ts
    <3> SUFFICES ASSUME NEW u \in Tracks, NEW i \in DOMAIN buf'[u]
                 PROVE  \E r \in DOMAIN read : read[r].track = u /\ read[r].ts = buf'[u][i].ts
      OBVIOUS
    <3>1. PICK j \in DOMAIN buf[u] : buf'[u][i] = buf[u][j]
      BY <2>8
    <3>2. PICK r \in DOMAIN read : read[r].track = u /\ read[r].ts = buf[u][j].ts
      OBVIOUS
    <3> QED BY <3>1, <3>2
  <2> QED BY <2>4, <2>7, <2>9, <2>10
<1>6. CASE FlushDone
  BY <1>6 DEF FlushDone
<1>7. CASE UNCHANGED vars
  BY <1>7 DEF vars
<1> QED BY <1>1, <1>2, <1>3, <1>4, <1>5, <1>6, <1>7, Steps

LEMMA TracksSortedInit == Init => TracksSorted
  BY DEF Init, TracksSorted

----------------------------------------------------------------------------
\* tDone is between what was written and what waits.
Watermark ==
  DropOutdated =>
    /\ \A t \in Tracks : \A i \in DOMAIN buf[t] : tDone <= buf[t][i].ts
    /\ \A i \in DOMAIN out : out[i].ts <= tDone
    /\ OutputIsSorted

\* The oldest head is not newer than anything that waits.
LEMMA OldestIsMinimal ==
  ASSUME TypeOK, TracksSorted, NEW t \in Tracks, IsOldest(t)
  PROVE  \A u \in Tracks : \A i \in DOMAIN buf[u] : HeadTs(t) <= buf[u][i].ts
<1> SUFFICES ASSUME NEW u \in Tracks, NEW i \in DOMAIN buf[u] PROVE HeadTs(t) <= buf[u][i].ts
  OBVIOUS
<1>1. buf[u] \in Seq(Frames) /\ buf[u] # <<>> /\ u \in Filled /\ t \in Filled
  BY DEF TypeOK, Filled, IsOldest
<1>2. buf[t] \in Seq(Frames) /\ buf[t] # <<>>
  BY <1>1 DEF TypeOK, Filled
<1>3. HeadTs(t) \in Nat /\ HeadTs(u) \in Nat /\ buf[u][i] \in Frames /\ buf[u][i].ts \in Nat
  BY <1>1, <1>2, HeadAndTail, TsNat DEF HeadTs
<1>4. HeadTs(t) <= HeadTs(u)
  BY <1>1, <1>3 DEF IsOldest
<1>5. 1 \in DOMAIN buf[u] /\ i \in Nat \ {0}
  BY <1>1, HeadAndTail
<1>6. HeadTs(u) <= buf[u][i].ts
  BY <1>3, <1>5 DEF TracksSorted, HeadTs
<1> QED BY <1>3, <1>4, <1>6

LEMMA WatermarkStep == TypeOK /\ TracksSorted /\ Watermark /\ [Next]_vars => Watermark'
<1> SUFFICES ASSUME TypeOK, TracksSorted, Watermark, [Next]_vars, DropOutdated PROVE Watermark'
  BY DEF Watermark
<1> USE DEF Watermark, OutputIsSorted
<1>1. CASE UNCHANGED <<buf, tDone, out>>
  BY <1>1
<1>2. ASSUME NEW t \in Tracks, Receive(t), buf' # buf PROVE Watermark'
  <2>1. /\ buf' = [buf EXCEPT ![t] = Append(@, hand[t][1])] /\ ~Outdated(hand[t][1])
        /\ tDone' = tDone /\ out' = out
    BY <1>2 DEF Receive
  <2>2. hand[t] \in Seq(Frames) /\ hand[t] # <<>> /\ buf[t] \in Seq(Frames)
    BY <1>2 DEF Receive, TypeOK
  <2>3. hand[t][1] \in Frames /\ hand[t][1].ts \in Nat /\ tDone \in Nat
    BY <2>2, HeadAndTail, TsNat DEF TypeOK
  <2>4. tDone <= hand[t][1].ts
    BY <2>1, <2>3 DEF Outdated
  <2>5. buf'[t] = Append(buf[t], hand[t][1]) /\ \A u \in Tracks \ {t} : buf'[u] = buf[u]
    BY <2>1 DEF TypeOK
  <2>6. \A i \in DOMAIN buf'[t] : (i \in DOMAIN buf[t] /\ buf'[t][i] = buf[t][i]) \/ buf'[t][i] = hand[t][1]
    BY <2>2, <2>3, <2>5, AppendFrames
  <2> QED BY <2>1, <2>4, <2>5, <2>6
<1>3. CASE WriteOldest
  <2>1. PICK t \in Tracks : /\ IsOldest(t) /\ out' = Append(out, buf[t][1])
                            /\ tDone' = HeadTs(t) /\ buf' = [buf EXCEPT ![t] = Tail(@)]
    BY <1>3 DEF WriteOldest
  <2>2. buf[t] \in Seq(Frames) /\ buf[t] # <<>> /\ out \in Seq(Frames)
    BY <2>1 DEF IsOldest, Filled, TypeOK
  <2>3. 1 \in DOMAIN buf[t] /\ buf[t][1] \in Frames /\ buf[t][1].ts \in Nat /\ tDone \in Nat
    BY <2>2, HeadAndTail, TsNat DEF TypeOK
  <2>4. tDone <= tDone' /\ tDone' = buf[t][1].ts
    BY <2>1, <2>3 DEF HeadTs
  <2>5. buf'[t] = Tail(buf[t]) /\ \A u \in Tracks \ {t} : buf'[u] = buf[u]
    BY <2>1 DEF TypeOK
  <2>6. \A u \in Tracks : \A i \in DOMAIN buf'[u] : tDone' <= buf'[u][i].ts
    <3>1. \A u \in Tracks : \A i \in DOMAIN buf[u] : tDone' <= buf[u][i].ts
      BY <2>1, OldestIsMinimal
    <3>2. \A i \in DOMAIN buf'[t] : \E j \in DOMAIN buf[t] : buf'[t][i] = buf[t][j]
      BY <2>2, <2>5, HeadAndTail
    <3> QED BY <2>5, <3>1, <3>2
  <2> DEFINE n == Len(out)
  <2>7. /\ DOMAIN out = 1 .. n /\ n \in Nat /\ DOMAIN out' = 1 .. n + 1
        /\ out'[n + 1] = buf[t][1] /\ \A i \in 1 .. n : out'[i] = out[i]
    BY <2>1, <2>2, <2>3, AppendFrames
  <2>8. \A i \in 1 .. n : out[i].ts \in Nat /\ out[i].ts <= tDone'
    <3> SUFFICES ASSUME NEW i \in 1 .. n PROVE out[i].ts \in Nat /\ out[i].ts <= tDone'
      OBVIOUS
    <3>1. out[i] \in Frames
      BY <2>2, <2>7
    <3>2. out[i].ts \in Nat
      BY <3>1, TsNat
    <3> QED BY <2>3, <2>4, <2>7, <3>2
  <2>9. \A i \in DOMAIN out' : out'[i].ts <= tDone'
    BY <2>3, <2>4, <2>7, <2>8
  <2>10. \A i, j \in DOMAIN out' : i < j => out'[i].ts <= out'[j].ts
    <3> SUFFICES ASSUME NEW i \in DOMAIN out', NEW j \in DOMAIN out', i < j
                 PROVE  out'[i].ts <= out'[j].ts
      OBVIOUS
    <3>1. i \in 1 .. n
      BY <2>7
    <3>2. CASE j = n + 1
      BY <2>4, <2>7, <2>8, <3>1, <3>2
    <3>3. CASE j # n + 1
      <4>1. j \in 1 .. n
        BY <2>7, <3>3
      <4> QED BY <2>7, <3>1, <4>1
    <3> QED BY <3>2, <3>3
  <2> QED BY <2>6, <2>9, <2>10
<1> QED BY <1>1, <1>2, <1>3, Steps DEF End, Read, Receive, SeeClosed, FlushDone, vars

\* Under BlockSorterDropOutdated the frames are written in the order of their
\* timestamps (interceptor.go lines 213-218 and 228).
THEOREM SorterSorts == Spec => []OutputIsSorted
<1>1. Init => Watermark
  BY DEF Init, Watermark, OutputIsSorted
<1>2. Watermark => OutputIsSorted
  BY DEF Watermark, OutputIsSorted
<1> QED
  BY <1>1, <1>2, TypeInit, TypeStep, TracksSortedInit, TracksSortedStep, WatermarkStep, PTL DEF Spec
----------------------------------------------------------------------------
\* A frame its reader still offers is the newest of its track; and while nothing
\* had to be written early, every track has read a frame that is not older than
\* the watermark.
NewestInHand ==
  \A t \in Tracks : \A k \in DOMAIN hand[t] :
    \A r \in DOMAIN read : read[r].track = t => read[r].ts <= hand[t][k].ts

AllPastWatermark ==
  tDone = 0 \/ \A t \in Tracks : \E r \in DOMAIN read : read[r].track = t /\ tDone <= read[r].ts

KeepUpInv ==
  /\ NewestInHand
  /\ ~forced => dropped = {} /\ (pc \in {"select", "flush"} => AllPastWatermark)

LEMMA KeepUpStep == TypeOK /\ TracksSorted /\ KeepUpInv /\ [Next]_vars => KeepUpInv'
<1> SUFFICES ASSUME TypeOK, TracksSorted, KeepUpInv, [Next]_vars PROVE KeepUpInv'
  OBVIOUS
<1>q. ASSUME UNCHANGED <<read, tDone, forced, dropped>>, pc' \in {"select", "flush"} => pc \in {"select", "flush"},
             \A t \in Tracks : hand'[t] = hand[t] \/ hand'[t] = <<>>
      PROVE  KeepUpInv'
  BY <1>q DEF KeepUpInv, NewestInHand, AllPastWatermark
<1>1. ASSUME NEW t \in Tracks, End(t) PROVE KeepUpInv'
  BY <1>1, <1>q DEF End
<1>2. ASSUME NEW t \in Tracks, NEW ts \in Timestamps, Read(t, ts) PROVE KeepUpInv'
  <2> DEFINE f == [id |-> Len(read) + 1, track |-> t, ts |-> ts]
  <2>1. f \in Frames /\ f.ts = ts /\ f.track = t /\ read \in Seq(Frames) /\ ts \in Nat
    BY BlockSorterAssumption DEF Frames, TypeOK
  <2>2. /\ read' = Append(read, f) /\ hand' = [hand EXCEPT ![t] = <<f>>]
        /\ \A i \in DOMAIN read : read[i].track = t => read[i].ts <= ts
        /\ UNCHANGED <<tDone, forced, dropped, pc>>
    BY <1>2 DEF Read
  <2> HIDE DEF f
  <2>3. /\ DOMAIN read = 1 .. Len(read) /\ Len(read) \in Nat /\ DOMAIN read' = 1 .. Len(read) + 1
        /\ \A r \in DOMAIN read : read'[r] = read[r]
        /\ read'[Len(read) + 1] = f
    BY <2>1, <2>2, AppendFrames
  <2>4. \A u \in Tracks : hand'[u] = IF u = t THEN <<f>> ELSE hand[u]
    BY <2>2 DEF TypeOK
  <2>5. NewestInHand'
    <3> SUFFICES ASSUME NEW u \in Tracks, NEW k \in DOMAIN hand'[u],
                        NEW r \in DOMAIN read', read'[r].track = u
                 PROVE  read'[r].ts <= hand'[u][k].ts
      BY DEF NewestInHand
    <3>1. r \in DOMAIN read \/ r = Len(read) + 1
      BY <2>3
    <3>2. CASE u = t
      <4>1. hand'[u][k] = f
        BY <2>4, <3>2
      <4> QED BY <2>1, <2>2, <2>3, <3>1, <3>2, <4>1
    <3>3. CASE u # t
      <4>1. r \in DOMAIN read /\ read'[r] = read[r]
        BY <2>1, <2>3, <3>1, <3>3
      <4> QED BY <2>4, <3>3, <4>1 DEF KeepUpInv, NewestInHand
    <3> QED BY <3>2, <3>3
  <2>6. AllPastWatermark => AllPastWatermark'
    <3>1. \A r \in DOMAIN read : r \in DOMAIN read' /\ read'[r] = read[r]
      BY <2>3
    <3> QED BY <2>2, <3>1 DEF AllPastWatermark
  <2> QED BY <2>2, <2>5, <2>6 DEF KeepUpInv
<1>3. ASSUME NEW t \in Tracks, Receive(t) PROVE KeepUpInv'
  <2>1. hand[t] \in Seq(Frames) /\ hand[t] # <<>>
    BY <1>3 DEF Receive, TypeOK
  <2>2. hand[t][1] \in Frames /\ hand[t][1].ts \in Nat /\ 1 \in DOMAIN hand[t]
    BY <2>1, HeadAndTail, TsNat
  <2>3. UNCHANGED <<read, tDone, forced>> /\ pc = "select"
        /\ \A u \in Tracks : hand'[u] = hand[u] \/ hand'[u] = <<>>
    BY <1>3 DEF Receive, TypeOK
  <2>4. NewestInHand'
    BY <2>3 DEF KeepUpInv, NewestInHand
  <2>5. ASSUME ~forced PROVE dropped' = {}
    <3>1. AllPastWatermark /\ dropped = {}
      BY <2>3, <2>5 DEF KeepUpInv
    <3>2. tDone <= hand[t][1].ts
      <4>1. CASE tDone = 0
        BY <2>2, <4>1
      <4>2. CASE tDone # 0
        <5>1. PICK r \in DOMAIN read : read[r].track = t /\ tDone <= read[r].ts
          BY <3>1, <4>2 DEF AllPastWatermark
        <5>2. read[r].ts <= hand[t][1].ts
          BY <2>2, <5>1 DEF KeepUpInv, NewestInHand
        <5>3. read[r] \in Frames
          BY DEF TypeOK
        <5>4. tDone \in Nat /\ read[r].ts \in Nat
          BY <5>3, TsNat DEF TypeOK
        <5> QED BY <2>2, <5>1, <5>2, <5>4
      <4> QED BY <4>1, <4>2
    <3>3. ~Outdated(hand[t][1])
      BY <2>2, <3>2 DEF Outdated, TypeOK
    <3> QED BY <1>3, <3>1, <3>3 DEF Receive
  <2>6. ~forced => AllPastWatermark'
    BY <2>3 DEF KeepUpInv, AllPastWatermark
  <2> QED BY <2>3, <2>4, <2>5, <2>6 DEF KeepUpInv
<1>4. CASE SeeClosed
  BY <1>4, <1>q DEF SeeClosed
<1>5. CASE WriteOldest
  <2>1. PICK t \in Tracks : IsOldest(t) /\ tDone' = HeadTs(t)
    BY <1>5 DEF WriteOldest
  <2>2. UNCHANGED <<hand, read, dropped, pc>>
    BY <1>5 DEF WriteOldest
  <2>3. ASSUME ~forced', pc' \in {"select", "flush"} PROVE AllPastWatermark'
    <3>1. Filled = Tracks
      BY <1>5, <2>2, <2>3 DEF WriteOldest, EnoughTracks
    <3> SUFFICES ASSUME NEW u \in Tracks
                 PROVE  \E r \in DOMAIN read : read[r].track = u /\ HeadTs(t) <= read[r].ts
      BY <2>1, <2>2 DEF AllPastWatermark
    <3>2. buf[u] \in Seq(Frames) /\ buf[u] # <<>>
      BY <3>1 DEF Filled, TypeOK
    <3>3. 1 \in DOMAIN buf[u]
      BY <3>2, HeadAndTail
    <3>4. PICK r \in DOMAIN read : read[r].track = u /\ read[r].ts = buf[u][1].ts
      BY <3>3 DEF TracksSorted
    <3>5. HeadTs(t) <= buf[u][1].ts
      BY <2>1, <3>3, OldestIsMinimal
    <3> QED BY <3>4, <3>5
  <2>4. ~forced' => ~forced
    BY <1>5 DEF WriteOldest
  <2> QED BY <2>2, <2>3, <2>4 DEF KeepUpInv, NewestInHand
<1>6. CASE FlushDone
  BY <1>6, <1>q DEF FlushDone
<1>7. CASE UNCHANGED vars
  BY <1>7, <1>q DEF vars
<1> QED BY <1>1, <1>2, <1>3, <1>4, <1>5, <1>6, <1>7, Steps

----------------------------------------------------------------------------
\* Where the read frame i is: the places of its track's hand and buffer and of out,
\* and its own if it was dropped.
InHand(i) == {k \in DOMAIN hand[read[i].track] : hand[read[i].track][k] = read[i]}
InBuf(i) == {k \in DOMAIN buf[read[i].track] : buf[read[i].track][k] = read[i]}
InOut(i) == {k \in DOMAIN out : out[k] = read[i]}
Gone(i) == dropped \cap {i}

At(i, w, k) ==
  \/ w = "hand" /\ k \in InHand(i)
  \/ w = "buf" /\ k \in InBuf(i)
  \/ w = "out" /\ k \in InOut(i)
  \/ w = "dropped" /\ k \in Gone(i)

OnlyAt(i, w, k) == At(i, w, k) /\ \A v, m : At(i, v, m) => v = w /\ m = k

\* A frame's id is its place in read, frames keep to their track, and nothing was
\* taken that was not read.
IdsAreRead ==
  /\ \A i \in DOMAIN read : read[i].id = i
  /\ \A t \in Tracks : \A k \in DOMAIN hand[t] :
       hand[t][k].track = t /\ hand[t][k].id \in DOMAIN read /\ read[hand[t][k].id] = hand[t][k]
  /\ \A t \in Tracks : \A k \in DOMAIN buf[t] :
       buf[t][k].track = t /\ buf[t][k].id \in DOMAIN read /\ read[buf[t][k].id] = buf[t][k]
  /\ \A k \in DOMAIN out : out[k].id \in DOMAIN read /\ read[out[k].id] = out[k]
  /\ dropped \subseteq DOMAIN read

PlaceInv == IdsAreRead /\ \A i \in DOMAIN read : \E w, k : OnlyAt(i, w, k)

\* Pairs of the name of a list and a place in it.
LEMMA NamedPlaces ==
  ASSUME NEW H, NEW B, NEW O, NEW D, NEW S,
         S = ({"hand"} \X H) \cup ({"buf"} \X B) \cup ({"out"} \X O) \cup ({"dropped"} \X D)
  PROVE  /\ \A v \in H : <<"hand", v>> \in S
         /\ \A v \in B : <<"buf", v>> \in S
         /\ \A v \in O : <<"out", v>> \in S
         /\ \A v \in D : <<"dropped", v>> \in S
         /\ \A x \in S : \/ \E v \in H : x = <<"hand", v>>
                         \/ \E v \in B : x = <<"buf", v>>
                         \/ \E v \in O : x = <<"out", v>>
                         \/ \E v \in D : x = <<"dropped", v>>
  OBVIOUS

\* A frame that is in one place only is counted once.
LEMMA OnePlaceCounts == PlaceInv => FramesAreInOnePlace
<1> SUFFICES ASSUME PlaceInv, NEW i \in DOMAIN read
             PROVE  Cardinality(({"hand"} \X InHand(i)) \cup ({"buf"} \X InBuf(i))
                                \cup ({"out"} \X InOut(i)) \cup ({"dropped"} \X Gone(i))) = 1
  BY DEF FramesAreInOnePlace, InHand, InBuf, InOut, Gone
<1>1. PICK w, k : OnlyAt(i, w, k)
  BY DEF PlaceInv
<1>2. PICK S : S = ({"hand"} \X InHand(i)) \cup ({"buf"} \X InBuf(i))
                     \cup ({"out"} \X InOut(i)) \cup ({"dropped"} \X Gone(i))
  OBVIOUS
<1>3. <<w, k>> \in S
  BY <1>1, <1>2, NamedPlaces DEF OnlyAt, At
<1>4. ASSUME NEW x \in S PROVE x = <<w, k>>
  <2>1. \E v, m : x = <<v, m>> /\ At(i, v, m)
    BY <1>2, NamedPlaces DEF At
  <2> QED BY <1>1, <2>1 DEF OnlyAt
<1>5. S = {<<w, k>>}
  BY <1>3, <1>4
<1>6. Cardinality(S) = 1
  BY <1>5, FS_Singleton
<1> QED BY <1>2, <1>6

\* A step that does not disturb the places of frame i.
LEMMA SamePlace ==
  ASSUME NEW i, \E w, k : OnlyAt(i, w, k), \A v, m : At(i, v, m)' <=> At(i, v, m)
  PROVE  \E w, k : OnlyAt(i, w, k)'
  BY DEF OnlyAt

LEMMA PlaceStep == TypeOK /\ PlaceInv /\ [Next]_vars => PlaceInv'
<1> SUFFICES ASSUME TypeOK, PlaceInv, [Next]_vars PROVE PlaceInv'
  OBVIOUS
<1>0. /\ IdsAreRead /\ read \in Seq(Frames) /\ DOMAIN read = 1 .. Len(read) /\ Len(read) \in Nat
      /\ \A i \in DOMAIN read : read[i] \in Frames /\ read[i].track \in Tracks /\ read[i].id = i
  <2>1. IdsAreRead /\ read \in Seq(Frames)
    BY DEF PlaceInv, TypeOK
  <2>2. DOMAIN read = 1 .. Len(read) /\ Len(read) \in Nat /\ \A i \in DOMAIN read : read[i] \in Frames
    BY <2>1
  <2> QED BY <2>1, <2>2 DEF IdsAreRead, Frames
<1>q. ASSUME UNCHANGED <<hand, buf, out, read, dropped>> PROVE PlaceInv'
  BY <1>q DEF PlaceInv, IdsAreRead, OnlyAt, At, InHand, InBuf, InOut, Gone
<1>2. ASSUME NEW t \in Tracks, NEW ts \in Timestamps, Read(t, ts) PROVE PlaceInv'
  <2>a. PICK n \in Nat : n = Len(read) + 1
    BY <1>0
  <2> DEFINE f == [id |-> n, track |-> t, ts |-> ts]
  <2>1. f \in Frames /\ f.track = t /\ f.id = n
    BY <1>0 DEF Frames
  <2>2. /\ read' = Append(read, f) /\ hand' = [hand EXCEPT ![t] = <<f>>] /\ hand[t] = <<>>
        /\ UNCHANGED <<buf, out, dropped>>
    BY <1>2, <2>a DEF Read
  <2> HIDE DEF f
  <2>3. /\ n \in Nat /\ n \notin DOMAIN read /\ DOMAIN read' = DOMAIN read \cup {n}
        /\ read'[n] = f /\ \A i \in DOMAIN read : read'[i] = read[i]
    BY <1>0, <2>1, <2>2, <2>a, AppendFrames
  <2>4. /\ \A u \in Tracks \ {t} : hand'[u] = hand[u]
        /\ DOMAIN hand'[t] = {1} /\ hand'[t][1] = f /\ DOMAIN hand[t] = {}
    BY <2>2 DEF TypeOK
  <2>5. IdsAreRead'
    <3>1. \A i \in DOMAIN read' : read'[i].id = i
      BY <1>0, <2>1, <2>3
    <3>2. \A u \in Tracks : \A k \in DOMAIN hand'[u] :
            hand'[u][k].track = u /\ hand'[u][k].id \in DOMAIN read' /\ read'[hand'[u][k].id] = hand'[u][k]
      BY <1>0, <2>1, <2>3, <2>4 DEF IdsAreRead
    <3>3. \A u \in Tracks : \A k \in DOMAIN buf[u] :
            buf[u][k].track = u /\ buf[u][k].id \in DOMAIN read' /\ read'[buf[u][k].id] = buf[u][k]
      BY <1>0, <2>3 DEF IdsAreRead
    <3>4. \A k \in DOMAIN out : out[k].id \in DOMAIN read' /\ read'[out[k].id] = out[k]
      BY <1>0, <2>3 DEF IdsAreRead
    <3>5. dropped \subseteq DOMAIN read'
      BY <1>0, <2>3 DEF IdsAreRead
    <3> QED BY <2>2, <3>1, <3>2, <3>3, <3>4, <3>5 DEF IdsAreRead
  <2>6. ASSUME NEW i \in DOMAIN read PROVE \E w, k : OnlyAt(i, w, k)'
    <3>1. read'[i] = read[i] /\ read[i] # f
      BY <1>0, <2>1, <2>3
    <3>2. \A v, m : At(i, v, m)' <=> At(i, v, m)
      BY <1>0, <2>2, <2>4, <3>1 DEF At, InHand, InBuf, InOut, Gone
    <3>3. \E w, k : OnlyAt(i, w, k)
      BY DEF PlaceInv
    <3> QED BY <3>2, <3>3, SamePlace
  <2>7. OnlyAt(n, "hand", 1)'
    <3>1. At(n, "hand", 1)'
      BY <2>1, <2>3, <2>4 DEF At, InHand, InBuf, InOut, Gone
    <3>2. \A u \in Tracks : \A k \in DOMAIN buf[u] : buf[u][k] # f
      BY <1>0, <2>1, <2>3 DEF IdsAreRead
    <3>3. \A k \in DOMAIN out : out[k] # f
      BY <1>0, <2>1, <2>3 DEF IdsAreRead
    <3>4. n \notin dropped
      BY <1>0, <2>3 DEF IdsAreRead
    <3>5. \A v, m : At(n, v, m)' => v = "hand" /\ m = 1
      BY <2>1, <2>2, <2>3, <2>4, <3>2, <3>3, <3>4 DEF At, InHand, InBuf, InOut, Gone
    <3> QED BY <3>1, <3>5 DEF OnlyAt
  <2> QED BY <2>3, <2>5, <2>6, <2>7 DEF PlaceInv
<1>3. ASSUME NEW t \in Tracks, Receive(t) PROVE PlaceInv'
  <2>f. PICK f : f = hand[t][1]
    OBVIOUS
  <2>e. PICK e : e = f.id
    OBVIOUS
  <2>1. hand[t] \in Seq(Frames) /\ hand[t] # <<>> /\ Len(hand[t]) <= 1 /\ buf[t] \in Seq(Frames)
    BY <1>3 DEF Receive, TypeOK
  <2>2. f \in Frames /\ DOMAIN hand[t] = {1}
    BY <2>1, <2>f, HeadAndTail
  <2>3. /\ f.track = t /\ e \in DOMAIN read /\ read[e] = f
    BY <1>0, <2>2, <2>e, <2>f DEF IdsAreRead
  <2>4. /\ \A u \in Tracks \ {t} : hand'[u] = hand[u]
        /\ DOMAIN hand'[t] = {} /\ UNCHANGED <<read, out>>
    BY <1>3 DEF Receive, TypeOK
  <2>5. At(e, "hand", 1) /\ \A v, m : At(e, v, m) => v = "hand" /\ m = 1
    <3>1. At(e, "hand", 1)
      BY <2>2, <2>3, <2>f DEF At, InHand, InBuf, InOut, Gone
    <3>2. PICK w, k : OnlyAt(e, w, k)
      BY <2>3 DEF PlaceInv
    <3> QED BY <3>1, <3>2 DEF OnlyAt
  <2>6. \A i \in DOMAIN read : i # e => read[i] # f
    BY <1>0, <2>3
  <2>7. CASE Outdated(f)
    <3>1. dropped' = dropped \cup {e} /\ UNCHANGED buf
      BY <1>3, <2>7, <2>e, <2>f DEF Receive
    <3>2. IdsAreRead'
      BY <1>0, <2>3, <2>4, <3>1 DEF IdsAreRead
    <3>3. ASSUME NEW i \in DOMAIN read, i # e PROVE \E w, k : OnlyAt(i, w, k)'
      <4>1. \A v, m : At(i, v, m)' <=> At(i, v, m)
        BY <1>0, <2>2, <2>4, <2>6, <2>f, <3>1, <3>3 DEF At, InHand, InBuf, InOut, Gone
      <4>2. \E w, k : OnlyAt(i, w, k)
        BY DEF PlaceInv
      <4> QED BY <4>1, <4>2, SamePlace
    <3>4. OnlyAt(e, "dropped", e)'
      <4>1. At(e, "dropped", e)'
        BY <3>1 DEF At, InHand, InBuf, InOut, Gone
      <4>2. \A v, m : At(e, v, m)' => v = "dropped" /\ m = e
        BY <2>3, <2>4, <2>5, <3>1 DEF At, InHand, InBuf, InOut, Gone
      <4> QED BY <4>1, <4>2 DEF OnlyAt
    <3> QED BY <2>4, <3>2, <3>3, <3>4 DEF PlaceInv
  <2>8. CASE ~Outdated(f)
    <3>a. PICK n : n = Len(buf[t]) + 1
      OBVIOUS
    <3>1. dropped' = dropped /\ buf' = [buf EXCEPT ![t] = Append(@, f)]
      BY <1>3, <2>8, <2>f DEF Receive
    <3>2. buf'[t] = Append(buf[t], f) /\ \A u \in Tracks \ {t} : buf'[u] = buf[u]
      BY <3>1 DEF TypeOK
    <3>3. /\ n \notin DOMAIN buf[t] /\ DOMAIN buf'[t] = DOMAIN buf[t] \cup {n}
          /\ buf'[t][n] = f /\ \A k \in DOMAIN buf[t] : buf'[t][k] = buf[t][k]
      BY <2>1, <2>2, <3>2, <3>a, AppendFrames
    <3>4. IdsAreRead'
      <4>1. \A u \in Tracks : \A k \in DOMAIN buf'[u] :
              buf'[u][k].track = u /\ buf'[u][k].id \in DOMAIN read /\ read[buf'[u][k].id] = buf'[u][k]
        <5> SUFFICES ASSUME NEW u \in Tracks, NEW k \in DOMAIN buf'[u]
                     PROVE  buf'[u][k].track = u /\ buf'[u][k].id \in DOMAIN read
                              /\ read[buf'[u][k].id] = buf'[u][k]
          OBVIOUS
        <5>1. (u = t /\ buf'[u][k] = f) \/ \E j \in DOMAIN buf[u] : buf'[u][k] = buf[u][j]
          BY <3>2, <3>3
        <5> QED BY <1>0, <2>3, <2>e, <5>1 DEF IdsAreRead
      <4>2. \A u \in Tracks : \A k \in DOMAIN hand'[u] : k \in DOMAIN hand[u] /\ hand'[u][k] = hand[u][k]
        BY <2>4
      <4> QED BY <1>0, <2>4, <3>1, <4>1, <4>2 DEF IdsAreRead
    <3>5. ASSUME NEW i \in DOMAIN read, i # e PROVE \E w, k : OnlyAt(i, w, k)'
      <4>1. \A v, m : At(i, v, m)' <=> At(i, v, m)
        <5>1. read[i] # f /\ read[i].track \in Tracks
          BY <1>0, <2>6, <3>5
        <5>2. \A m : (m \in DOMAIN hand[read[i].track] /\ hand[read[i].track][m] = read[i])
                       <=> (m \in DOMAIN hand'[read[i].track] /\ hand'[read[i].track][m] = read[i])
          BY <2>2, <2>4, <2>f, <5>1
        <5>3. \A m : (m \in DOMAIN buf[read[i].track] /\ buf[read[i].track][m] = read[i])
                       <=> (m \in DOMAIN buf'[read[i].track] /\ buf'[read[i].track][m] = read[i])
          BY <3>2, <3>3, <5>1
        <5> QED BY <2>4, <3>1, <5>2, <5>3 DEF At, InHand, InBuf, InOut, Gone
      <4>2. \E w, k : OnlyAt(i, w, k)
        BY DEF PlaceInv
      <4> QED BY <4>1, <4>2, SamePlace
    <3>6. OnlyAt(e, "buf", n)'
      <4>1. At(e, "buf", n)'
        BY <2>3, <2>4, <3>3 DEF At, InHand, InBuf, InOut, Gone
      <4>2. \A v, m : At(e, v, m)' => v = "buf" /\ m = n
        <5>1. (\A m \in DOMAIN buf[t] : buf[t][m] # f) /\ (\A m \in DOMAIN out : out[m] # f)
              /\ e \notin dropped
          BY <2>3, <2>5 DEF At, InHand, InBuf, InOut, Gone
        <5>2. \A m \in DOMAIN buf'[t] : buf'[t][m] = f => m = n
          BY <3>3, <5>1
        <5> QED BY <2>3, <2>4, <3>1, <5>1, <5>2 DEF At, InHand, InBuf, InOut, Gone
      <4> QED BY <4>1, <4>2 DEF OnlyAt
    <3> QED BY <2>4, <3>4, <3>5, <3>6 DEF PlaceInv
  <2> QED BY <2>7, <2>8
<1>5. CASE WriteOldest
  <2>1. PICK t \in Tracks : IsOldest(t) /\ out' = Append(out, buf[t][1]) /\ buf' = [buf EXCEPT ![t] = Tail(@)]
    BY <1>5 DEF WriteOldest
  <2>f. PICK f : f = buf[t][1]
    OBVIOUS
  <2>e. PICK e : e = f.id
    OBVIOUS
  <2>n. PICK n : n = Len(out) + 1
    OBVIOUS
  <2>2. buf[t] \in Seq(Frames) /\ buf[t] # <<>> /\ out \in Seq(Frames)
    BY <2>1 DEF IsOldest, Filled, TypeOK
  <2>3. /\ f \in Frames /\ DOMAIN buf[t] = 1 .. Len(buf[t]) /\ Len(buf[t]) \in Nat \ {0}
        /\ DOMAIN Tail(buf[t]) = 1 .. Len(buf[t]) - 1
        /\ \A k \in DOMAIN Tail(buf[t]) : Tail(buf[t])[k] = buf[t][k + 1]
    BY <2>2, <2>f, HeadAndTail
  <2>4. buf'[t] = Tail(buf[t]) /\ \A u \in Tracks \ {t} : buf'[u] = buf[u]
    BY <2>1 DEF TypeOK
  <2>5. UNCHANGED <<hand, read, dropped>>
    BY <1>5 DEF WriteOldest
  <2>6. f.track = t /\ e \in DOMAIN read /\ read[e] = f
    BY <1>0, <2>3, <2>e, <2>f DEF IdsAreRead
  <2>7. /\ n \notin DOMAIN out /\ DOMAIN out' = DOMAIN out \cup {n}
        /\ out'[n] = f /\ \A k \in DOMAIN out : out'[k] = out[k]
    BY <2>1, <2>2, <2>3, <2>f, <2>n, AppendFrames
  <2>8. At(e, "buf", 1) /\ \A v, m : At(e, v, m) => v = "buf" /\ m = 1
    <3>1. At(e, "buf", 1)
      BY <2>3, <2>6, <2>f DEF At, InHand, InBuf, InOut, Gone
    <3>2. PICK w, k : OnlyAt(e, w, k)
      BY <2>6 DEF PlaceInv
    <3> QED BY <3>1, <3>2 DEF OnlyAt
  <2>9. \A k \in DOMAIN buf'[t] : k \in Int /\ k + 1 \in DOMAIN buf[t] /\ k + 1 # 1 /\ buf'[t][k] = buf[t][k + 1]
    BY <2>3, <2>4
  <2>10. IdsAreRead'
    <3>1. \A u \in Tracks : \A k \in DOMAIN buf'[u] :
            buf'[u][k].track = u /\ buf'[u][k].id \in DOMAIN read /\ read[buf'[u][k].id] = buf'[u][k]
      <4> SUFFICES ASSUME NEW u \in Tracks, NEW k \in DOMAIN buf'[u]
                   PROVE  buf'[u][k].track = u /\ buf'[u][k].id \in DOMAIN read /\ read[buf'[u][k].id] = buf'[u][k]
        OBVIOUS
      <4>1. \E j \in DOMAIN buf[u] : buf'[u][k] = buf[u][j]
        BY <2>4, <2>9
      <4> QED BY <1>0, <4>1 DEF IdsAreRead
    <3>2. \A k \in DOMAIN out' : out'[k].id \in DOMAIN read /\ read[out'[k].id] = out'[k]
      BY <1>0, <2>6, <2>7 DEF IdsAreRead
    <3> QED BY <1>0, <2>5, <3>1, <3>2 DEF IdsAreRead
  <2>11. ASSUME NEW i \in DOMAIN read, i # e PROVE \E w, k : OnlyAt(i, w, k)'
    <3>1. read[i] # f /\ read[i].track \in Tracks
      BY <1>0, <2>6, <2>11
    <3>2. PICK w, k : OnlyAt(i, w, k)
      BY DEF PlaceInv
    <3>3. \A m : (m \in DOMAIN out /\ out[m] = read[i]) <=> (m \in DOMAIN out' /\ out'[m] = read[i])
      BY <2>7, <3>1
    <3>4. CASE read[i].track # t
      <4>1. \A v, m : At(i, v, m)' <=> At(i, v, m)
        BY <2>4, <2>5, <3>1, <3>3, <3>4 DEF At, InHand, InBuf, InOut, Gone
      <4> QED BY <3>2, <4>1, SamePlace
    <3>5. CASE read[i].track = t /\ w # "buf"
      <4>1. \A v, m : At(i, v, m) => v # "buf"
        BY <3>2, <3>5 DEF OnlyAt
      <4>2. \A m \in DOMAIN buf[t] : buf[t][m] # read[i]
        BY <3>5, <4>1 DEF At, InHand, InBuf, InOut, Gone
      <4>3. \A m \in DOMAIN buf'[t] : buf'[t][m] # read[i]
        BY <2>9, <4>2
      <4>4. \A v, m : At(i, v, m)' <=> At(i, v, m)
        BY <2>5, <3>3, <3>5, <4>2, <4>3 DEF At, InHand, InBuf, InOut, Gone
      <4> QED BY <3>2, <4>4, SamePlace
    <3>6. CASE read[i].track = t /\ w = "buf"
      <4>1. k \in DOMAIN buf[t] /\ buf[t][k] = read[i] /\ \A v, m : At(i, v, m) => v = "buf" /\ m = k
        BY <3>2, <3>6 DEF OnlyAt, At, InHand, InBuf, InOut, Gone
      <4>2. k # 1
        BY <2>f, <3>1, <4>1
      <4>3. k \in Int /\ k - 1 \in DOMAIN buf'[t] /\ (k - 1) + 1 = k
        BY <2>3, <2>4, <4>1, <4>2
      <4>4. buf'[t][k - 1] = read[i]
        BY <2>9, <4>1, <4>3
      <4>5. At(i, "buf", k - 1)'
        BY <2>5, <3>6, <4>3, <4>4 DEF At, InHand, InBuf, InOut, Gone
      <4>6. ASSUME NEW v, NEW m, At(i, v, m)' PROVE v = "buf" /\ m = k - 1
        <5>1. CASE v = "buf"
          <6>1. m \in DOMAIN buf'[t] /\ buf'[t][m] = read[i]
            BY <2>5, <3>6, <4>6, <5>1 DEF At, InHand, InBuf, InOut, Gone
          <6>2. m \in Int /\ m + 1 \in DOMAIN buf[t] /\ buf[t][m + 1] = read[i]
            BY <2>9, <6>1
          <6>3. At(i, "buf", m + 1)
            BY <3>6, <6>2 DEF At, InHand, InBuf, InOut, Gone
          <6>4. m + 1 = k
            BY <4>1, <6>3
          <6> QED BY <4>3, <5>1, <6>2, <6>4
        <5>2. CASE v # "buf"
          <6>1. At(i, v, m)
            BY <2>5, <3>3, <4>6, <5>2 DEF At, InHand, InBuf, InOut, Gone
          <6> QED BY <4>1, <5>2, <6>1
        <5> QED BY <5>1, <5>2
      <4> QED BY <4>5, <4>6 DEF OnlyAt
    <3> QED BY <3>4, <3>5, <3>6
  <2>12. OnlyAt(e, "out", n)'
    <3>1. At(e, "out", n)'
      BY <2>5, <2>6, <2>7 DEF At, InHand, InBuf, InOut, Gone
    <3>2. \A m \in DOMAIN buf[t] : buf[t][m] = f => m = 1
      BY <2>6, <2>8 DEF At, InHand, InBuf, InOut, Gone
    <3>3. \A m \in DOMAIN buf'[t] : buf'[t][m] # f
      BY <2>9, <3>2
    <3>4. (\A m \in DOMAIN out : out[m] # f) /\ (\A m \in DOMAIN hand[t] : hand[t][m] # f) /\ e \notin dropped
      BY <2>6, <2>8 DEF At, InHand, InBuf, InOut, Gone
    <3>5. \A v, m : At(e, v, m)' => v = "out" /\ m = n
      BY <2>5, <2>6, <2>7, <3>3, <3>4 DEF At, InHand, InBuf, InOut, Gone
    <3> QED BY <3>1, <3>5 DEF OnlyAt
  <2> QED BY <2>5, <2>10, <2>11, <2>12 DEF PlaceInv
<1> QED BY <1>q, <1>2, <1>3, <1>5, Steps DEF End, SeeClosed, FlushDone, vars

\* Intercept loses no frame and writes none twice (interceptor.go lines 161-235),
\* and drops one only when an earlier frame was written because of a limit: for any
\* number of tracks, whatever their readers do.
THEOREM FramesAreKept == Spec => []EveryFrameIsSomewhere
<1>1. Init => PlaceInv
  BY DEF Init, PlaceInv, IdsAreRead
<1>2. Init => KeepUpInv
  BY DEF Init, KeepUpInv, NewestInHand, AllPastWatermark
<1>3. TypeOK /\ PlaceInv /\ KeepUpInv => EveryFrameIsSomewhere
  BY OnePlaceCounts DEF EveryFrameIsSomewhere, KeepUpInv, TypeOK
<1> QED
  BY <1>1, <1>2, <1>3, TypeInit, TypeStep, TracksSortedInit, TracksSortedStep, KeepUpStep, PlaceStep,
     PTL DEF Spec
============================================================================
