---------------------------- MODULE EbmlElements ----------------------------
(***************************************************************************)
(* EBML elements: the element table (muxer/ebml/elementtable.go,           *)
(* elementtype.go), the tags of struct fields (tag.go) and what Marshal    *)
(* writes for a struct (marshal.go).  A struct is a sequence of fields, a  *)
(* field a record [name, size, omitEmpty, vals]: the name and the options  *)
(* of its tag, and the values the field holds (none for a nil pointer, one *)
(* for each element of a slice).  The value of a master element is a       *)
(* struct; the contents of numbers, strings and dates are what matters to  *)
(* the size.  The IDs of the table have their real lengths in octets, and  *)
(* numbers that differ.                                                    *)
(***************************************************************************)
EXTENDS EbmlValues

\* Name, octets of the ID, type of data, and whether it is a top level element
\* of a Segment: the elements a recording is made of.
table == <<
  <<"BlockGroup", 1, "Master", FALSE>>, <<"Block", 1, "Block", FALSE>>,
  <<"SimpleBlock", 1, "Block", FALSE>>, <<"ReferencePriority", 1, "UInt", FALSE>>,
  <<"Timestamp", 1, "UInt", FALSE>>, <<"PrevSize", 1, "UInt", FALSE>>,
  <<"TrackEntry", 1, "Master", FALSE>>, <<"TrackNumber", 1, "UInt", FALSE>>,
  <<"Video", 1, "Master", FALSE>>, <<"PixelWidth", 1, "UInt", FALSE>>,
  <<"PixelHeight", 1, "UInt", FALSE>>, <<"Void", 1, "Binary", FALSE>>, <<"CuePoint", 1, "Master", FALSE>>,
  <<"CueTime", 1, "UInt", FALSE>>, <<"EBMLVersion", 2, "UInt", FALSE>>,
  <<"Duration", 2, "Float", FALSE>>, <<"DateUTC", 2, "Date", FALSE>>,
  <<"Seek", 2, "Master", FALSE>>, <<"SeekID", 2, "Binary", FALSE>>,
  <<"SeekPosition", 2, "UInt", FALSE>>, <<"CodecPrivate", 2, "Binary", FALSE>>,
  <<"Tag", 2, "Master", FALSE>>, <<"TimecodeScale", 3, "UInt", FALSE>>,
  <<"EBML", 4, "Master", FALSE>>, <<"Segment", 4, "Master", FALSE>>,
  <<"SeekHead", 4, "Master", TRUE>>, <<"Info", 4, "Master", TRUE>>,
  <<"Tracks", 4, "Master", TRUE>>, <<"Tags", 4, "Master", TRUE>>,
  <<"Cluster", 4, "Master", TRUE>>, <<"Cues", 4, "Master", TRUE>> >>

\* The row of a name, and of the number that is left of an ID without its marker.
ElementTypeFromString(name) == CHOOSE i \in DOMAIN table : table[i][1] = name
revTable(number) == IF number \in DOMAIN table THEN table[number] ELSE <<"unknown", 0, "none", FALSE>>

\* The octets of the ID of an element, and its type of data.
Bytes(name) == LET i == ElementTypeFromString(name) IN Marked(i, table[i][2])
DataType(name) == table[ElementTypeFromString(name)][3]

----------------------------------------------------------------------------
(* Fields with their tags *)

Field(name, vals) == [name |-> name, size |-> 0, omitEmpty |-> FALSE, vals |-> vals]
OmitEmpty(name, vals) == [Field(name, vals) EXCEPT !.omitEmpty = TRUE]
Sized(name, size, vals) == [Field(name, vals) EXCEPT !.size = size]

----------------------------------------------------------------------------
(* Marshal *)

\* The octets of the size of a Void element.
ElementVoidSize == 4

deepIsZero(name, v) == IF DataType(name) \in {"Binary", "String"} THEN v = <<>> ELSE v = 0

\* The values of a field that are written.
pealElem(field) ==
  IF field.omitEmpty /\ DataType(field.name) # "Master"
  THEN SelectSeq(field.vals, LAMBDA v : ~deepIsZero(field.name, v))
  ELSE field.vals

perTypeEncoder(name, v, size) ==
  LET t == DataType(name)
  IN  IF t = "UInt" THEN encodeUInt(v, size)
      ELSE IF t = "Block" THEN MarshalBlock(v)
      ELSE IF t \in {"Float", "Date"} THEN Octets(v, OctetBits)
      ELSE encodeBinary(v, size)

Written(octets, hooks) == [octets |-> octets, hooks |-> hooks]

\* The size of what is in an element is written last: before it, unless the
\* size is unknown and already part of the head.
Element(field, pos, head, body) ==
  LET size == IF field.size = SizeUnknown THEN <<>>
              ELSE encodeDataSize(Len(body.octets), IF field.name = "Void" THEN ElementVoidSize ELSE 0)
  IN  Written(head \o size \o body.octets, Append(body.hooks, [name |-> field.name, pos |-> pos]))

Then(w, n) == Written(w.octets \o n.octets, w.hooks \o n.hooks)

\* The octets before the contents of an element.
ElementHead(field) == Bytes(field.name) \o (IF field.size = SizeUnknown THEN UnknownSize ELSE <<>>)

\* The values of a struct, each with its field.
ValuesOf(fields) ==
  LET one(field) == LET lst == pealElem(field) IN [j \in DOMAIN lst |-> <<field, lst[j]>>]
  IN  FlattenSeq([i \in DOMAIN fields |-> one(fields[i])])

\* One value of a field at position pos: the octets, and what the hooks are told,
\* the name and the position of each element, children first.  A child is told a
\* position that leaves out the size of its parent, which is not yet known.
\* Struct marshals the value of a master element.
writeOne(Struct(_, _), field, v, pos) ==
  Element(field, pos, ElementHead(field),
          IF DataType(field.name) = "Master" THEN Struct(v, pos + Len(ElementHead(field)))
          ELSE Written(perTypeEncoder(field.name, v, field.size), <<>>))

\* A struct: its fields in order, each value after the one before.
marshalImpl(Struct(_, _), fields, pos) ==
  LET next(w, fv) == Then(w, writeOne(Struct, fv[1], fv[2], pos + Len(w.octets)))
  IN  FoldLeft(next, Written(<<>>, <<>>), ValuesOf(fields))

\* marshalImpl calls itself for the structs in a struct, named after one of them,
\* from the innermost; no element of a recording is deeper.
NoStruct(fields, pos) == Written(<<>>, <<>>)
marshalVideo(fields, pos) == marshalImpl(NoStruct, fields, pos)
marshalTrackEntry(fields, pos) == marshalImpl(marshalVideo, fields, pos)
marshalTracks(fields, pos) == marshalImpl(marshalTrackEntry, fields, pos)
marshalSegment(fields, pos) == marshalImpl(marshalTracks, fields, pos)

Marshal(fields) == marshalImpl(marshalSegment, fields, 0)
=============================================================================
