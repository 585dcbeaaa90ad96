---------------------------- MODULE MCContainer ----------------------------
EXTENDS Container

B(t, tc, key, lacing, data) ==
  [track |-> t, timecode |-> tc, keyframe |-> key, invisible |-> FALSE, lacing |-> lacing,
   discardable |-> FALSE, data |-> data]
Simple(t, tc, key, n) == B(t, tc, key, LacingNo, << <<n>> >>)
Group(size, block, priority) == [size |-> size, block |-> block, priority |-> priority]
Cl(ts, size, items) == [timestamp |-> ts, size |-> size, items |-> items]

C1(size) == Cl(3, size, <<Simple(1, 0, TRUE, 1), Simple(2, -1, FALSE, 2)>>)
C2(size) == Cl(40, size, <<Simple(1, 2, FALSE, 3)>>)

\* Recorded clusters have known sizes and blocks without lacing.
MCRecorded == <<C1(0), C2(0)>>

\* Nothing recorded; clusters of unknown size; laced blocks and groups; a
\* group of unknown size.
MCOthers ==
  {<<Cl(0, 0, <<>>)>>, <<C1(SizeUnknown), C2(SizeUnknown)>>,
   <<Cl(3, 0, <<B(1, 0, TRUE, LacingXiph, << <<1>>, <<2, 2>> >>), Group(0, Simple(2, 1, TRUE, 3), 0)>>), Cl(9, 0, <<>>),
     Cl(12, 0, <<Group(0, B(2, 0, FALSE, LacingEBML, << <<4>>, <<5>>, <<6>> >>), 1)>>)>>,
   <<Cl(3, SizeUnknown, <<Group(SizeUnknown, Simple(1, 0, TRUE, 1), 1), Simple(2, 0, TRUE, 2)>>), C2(SizeUnknown)>>}

MCCutOffs == {0, 1, 8, 17, 90}
MCPrivates == {3, 8}

MCNumbers == 0 .. Base + 2 \cup {Limit(1) - 1, Limit(2) - 2, Limit(2) - 1, Limit(2), Power(2) - 1}

\* Frames at the edges of what the octets of a size can say.
Frames == {[i \in 1 .. n |-> i % Base] : n \in {0, 1, Base - 1, Base, 2 * (Base - 1)}}
MCSamples ==
  {B(t, tc, TRUE, l, d) : t \in {1, Limit(1)}, tc \in {-1, 5, Power(2) \div 2 - 1}, l \in 0 .. 3,
                          d \in UNION {[1 .. k -> Frames] : k \in 0 .. 2}}
  \cup {B(1, 0, FALSE, l, d) : l \in 0 .. 3, d \in [1 .. 3 -> Frames]}
=============================================================================
