---------------------------- MODULE SegmentHeader ----------------------------
(***************************************************************************)
(* The header of a recording (muxer/ebml/mkvcore/blockwriter.go, writeHeader*)
(* and the end of writeTrack; seekhead.go; webm/webm.go): written when the *)
(* file is begun, before its duration, its clusters or the codec of its    *)
(* video are known, and written over itself when the file ends, which is   *)
(* right only if it has the same length again.  TrackEntry and Video hold  *)
(* Void elements for that.  All files share one Info.                      *)
(*                                                                         *)
(* Sizes are scaled: PrivateVoid for 253, VideoVoid for 8, HeaderVoid for  *)
(* 160 octets of Void.                                                     *)
(***************************************************************************)
EXTENDS EbmlElements

CONSTANTS Files,       \* files being written, each by goroutines of its own
          TaggedFiles, \* those that were given tags
          Privates,    \* lengths of CodecPrivate that key frames ask for
          Widths,      \* widths and heights of pictures
          Durations,   \* timestamps of last frames
          PrivateVoid, VideoVoid, HeaderVoid

ASSUME SegmentHeaderAssumption ==
  /\ TaggedFiles \subseteq Files
  /\ Durations \subseteq Nat
  /\ {PrivateVoid, VideoVoid, HeaderVoid} \subseteq Nat

VARIABLES info,   \* mkv.DefaultSegmentInfo
          header  \* of each file

headerVars == <<info, header>>

NoInfo == [duration |-> 0, dateUTC |-> 0]
NewHeader == [pc |-> "new", private |-> 2, void |-> PrivateVoid, size |-> 1, videoVoid |-> VideoVoid,
              seek |-> <<>>, first |-> <<>>, final |-> <<>>, duration |-> 0, clusters |-> <<>>, cues |-> <<>>]

SegmentHeaderInit == info = NoInfo /\ header = [f \in Files |-> NewHeader]

----------------------------------------------------------------------------
(* What is written *)

ebmlHeader == Marshal(<<Field("EBML", << <<Field("EBMLVersion", <<1>>)>> >>)>>).octets

\* Where the content of the Segment begins, the origin of the positions in it.
offsetSeekHeader == Len(ebmlHeader) + Len(Bytes("Segment")) + OctetBits

Info(i) == <<Field("TimecodeScale", <<1>>), OmitEmpty("Duration", <<i.duration>>), OmitEmpty("DateUTC", <<i.dateUTC>>)>>

Video(size, void) == <<Field("PixelWidth", <<size>>), Field("PixelHeight", <<size>>), OmitEmpty("Void", <<Zeros(void)>>)>>
Private(n, void) == <<OmitEmpty("CodecPrivate", <<Zeros(n)>>), OmitEmpty("Void", <<Zeros(void)>>)>>

TrackEntry(number, h) ==
  <<Field("TrackNumber", <<number>>), Field("Video", <<Video(h.size, h.videoVoid)>>)>> \o Private(h.private, h.void)

\* The video track of h, and one whose codec is known from the start.
Tracks(h) == Field("Tracks", << <<Field("TrackEntry", <<TrackEntry(1, h), TrackEntry(2, NewHeader)>>)>> >>)

Seek(entry) == <<Field("SeekID", <<Bytes(entry.name)>>), Sized("SeekPosition", OctetBits, <<entry.pos>>)>>

\* The Segment of file f, whose SeekHead has the entries of h.
Segment(f, h) ==
  <<Sized("Segment", SizeUnknown, << <<
      Field("SeekHead", << <<Field("Seek", [i \in DOMAIN h.seek |-> Seek(h.seek[i])])>> >>),
      Field("Info", <<Info(info)>>),
      Tracks(h),
      OmitEmpty("Tags", IF f \in TaggedFiles THEN << <<Field("Tag", << <<>> >>)>> >> ELSE <<>>)
    >> >>)>>

EndVoid == Marshal(<<OmitEmpty("Void", <<Zeros(HeaderVoid)>>)>>).octets
HeaderOctets(f, h) == ebmlHeader \o Marshal(Segment(f, h)).octets \o EndVoid

\* Where the hooks were told that an element is, from where the SeekHead is.
Told(hooks, name) == hooks[SelectInSeq(hooks, LAMBDA e : e.name = name)].pos
Offset(hooks, name) == Told(hooks, name) - Told(hooks, "SeekHead")

Entries(names, hooks, clusterPos, cuesPos) ==
  LET pos(name) == CASE name = "Cluster" -> clusterPos [] name = "Cues" -> cuesPos [] OTHER -> Offset(hooks, name)
  IN  [i \in DOMAIN names |-> [name |-> names[i], pos |-> pos(names[i])]]

\* The entries of a SeekHead, with the positions a trial run of Marshal tells.
setSeekHead2(f, clusterPos, cuesPos) ==
  LET names == <<"Info", "Tracks">> \o (IF f \in TaggedFiles THEN <<"Tags">> ELSE <<>>) \o <<"Cluster", "Cues">>
      blank == [i \in DOMAIN names |-> [name |-> names[i], pos |-> 0]]
  IN  Entries(names, Marshal(Segment(f, [header[f] EXCEPT !.seek = blank])).hooks, clusterPos, cuesPos)

----------------------------------------------------------------------------
(* Steps of the writers *)

Goes(f, pc, to) == header[f].pc = pc /\ header' = [header EXCEPT ![f].pc = to]

\* NewSimpleBlockWriter: a duration of 5 and the date, until more is known.
SetInfo(f) == Goes(f, "new", "seek") /\ info' = [duration |-> 5, dateUTC |-> 1]

\* There are no positions of clusters and cues yet.
SetSeekHead(f) ==
  /\ header[f].pc = "seek"
  /\ header' = [header EXCEPT ![f].pc = "write", ![f].seek = setSeekHead2(f, 0, 0)]
  /\ UNCHANGED info

WriteHeader(f) ==
  /\ header[f].pc = "write"
  /\ header' = [header EXCEPT ![f].pc = "open", ![f].first = HeaderOctets(f, header[f])]
  /\ UNCHANGED info

\* The Void that makes up for the octets that what is set takes, less its own
\* ID and size.
Rest(old, new) == Len(Marshal(old).octets) - Len(Marshal(new).octets) - Len(Bytes("Void")) - ElementVoidSize

\* A longer CodecPrivate would ask for a Void of negative length, which panics.
ASSUME PrivatesFit ==
  \A n \in Privates : n > 0 /\ Rest(Private(NewHeader.private, NewHeader.void), Private(n, 0)) >= 0

\* Mutant: the Void of the track keeps its length.
SetParameterSetsOnly(f, n, size) ==
  LET h == header[f]
      videoVoid == Rest(Video(h.size, h.videoVoid), Video(size, 0))
  IN  /\ h.pc = "open"
      /\ header' = [header EXCEPT ![f].size = size, ![f].videoVoid = IF videoVoid > 0 THEN videoVoid ELSE 0,
                                  ![f].private = n]
      /\ UNCHANGED info

\* Video.Set and SetCodecPrivate: a key frame brings parameter sets, with the size
\* of the picture.
SetParameterSets(f, n, size) ==
  LET h == header[f]
      videoVoid == Rest(Video(h.size, h.videoVoid), Video(size, 0))
  IN  /\ h.pc = "open"
      /\ header' = [header EXCEPT ![f].size = size, ![f].videoVoid = IF videoVoid > 0 THEN videoVoid ELSE 0,
                                  ![f].private = n, ![f].void = Rest(Private(h.private, h.void), Private(n, 0))]
      /\ UNCHANGED info

\* The end of writeTrack, after the clusters and the cues: the duration is set,
\* the date of the file is not.
Finalize(f, d, clusters, cues) ==
  /\ header[f].pc = "open"
  /\ header' = [header EXCEPT ![f].pc = "finalSeek", ![f].duration = d,
                              ![f].clusters = clusters, ![f].cues = cues]
  /\ info' = [info EXCEPT !.duration = d]

FinalSeekHead(f) ==
  LET h == header[f]
      clusterPos == Len(h.first) - offsetSeekHeader
  IN  /\ h.pc = "finalSeek"
      /\ header' = [header EXCEPT ![f].pc = "finalWrite",
                                  ![f].seek = setSeekHead2(f, clusterPos, clusterPos + Len(h.clusters))]
      /\ UNCHANGED info

FinalHeader(f) ==
  /\ header[f].pc = "finalWrite"
  /\ header' = [header EXCEPT ![f].pc = "ended", ![f].final = HeaderOctets(f, header[f])]
  /\ UNCHANGED info

\* Each file gets its parameter sets at most once; later ones have the same sizes.
SegmentHeaderStep(f, Ends(_)) ==
  \/ SetInfo(f) \/ SetSeekHead(f) \/ WriteHeader(f)
  \/ \E n \in Privates, size \in Widths : header[f].size = NewHeader.size /\ SetParameterSets(f, n, size)
  \/ Ends(f)
  \/ FinalSeekHead(f) \/ FinalHeader(f)

----------------------------------------------------------------------------
(* The file *)

\* What file f holds: the last header over what was written before.
Overlay(new, old) == new \o SubSeq(old, Len(new) + 1, Len(old))
FileOf(f) == LET h == header[f] IN Overlay(h.final, h.first \o h.clusters \o h.cues)

Ended(f) == header[f].pc = "ended"

\* A duration of zero is left out of Info, by this or by another file's writer,
\* and a CodecPrivate as long as its room leaves an empty Void, also left out.
NothingIsLeftOut(f) ==
  /\ \A g \in Files : header[g].pc \in {"finalSeek", "finalWrite", "ended"} => header[g].duration # 0
  /\ header[f].void # 0
=============================================================================
