----------------------------- MODULE MKVWriter -----------------------------
(***************************************************************************)
(* The node that records one stream, camera/mkvwriter.go, with the part of *)
(* muxer/ebml/matroska it drives: frames go into one file after another,   *)
(* a file is left at the first key frame that would not fit into           *)
(* chunkDuration, files are closed by goroutines of their own, and the     *)
(* video track holds an IDR picture back until the next picture comes.     *)
(*                                                                         *)
(* writeFrame runs in the one goroutine of the node's chunk handler and    *)
(* shares nothing with the goroutines that close older files: it is one    *)
(* action per outcome.  Node.Stop is external: it lets the handler finish  *)
(* the queue and then emits "stop", perhaps for more than one caller.      *)
(* The inside of a file (clusters, cues) is the module BlockWriter's, that  *)
(* of a frame the module NalUnits'.                                        *)
(***************************************************************************)
EXTENDS NalUnits, FiniteSetsExt

CONSTANTS
  ChunkDuration,  \* chunkDuration, in ticks
  Durations,      \* the durations of frames (f.Duration)
  Hevc,           \* is the stream H.265
  HasAudio,       \* the camera's HasAudio
  Closers,        \* the goroutines in which "stop" is emitted
  NoCloser,       \* the owner of a free closeMutex
  MaxFrames,      \* bound: frames handed to the writer
  MaxFailures     \* bound: files that cannot be created

ASSUME MKVWriterAssumption ==
  /\ ChunkDuration \in Nat \ {0} /\ Durations \subseteq Nat \ {0} /\ Durations # {}
  /\ Hevc \in BOOLEAN /\ HasAudio \in BOOLEAN
  /\ NoCloser \notin Closers /\ MaxFrames \in Nat /\ MaxFailures \in Nat

VARIABLES
  isHEVC,          \* w.IsHEVC
  mkv,             \* w.mkv: the number of the current file, 0 for nil
  vPos, vLast,     \* videoTimePosition, lastVideoTimePosition
  aPos,            \* audioTimePosition
  lastFrameAudio,
  files,           \* the files created, in order
  handed,          \* history: the frames handed to writeFrame
  refused,         \* history: the numbers of those it returned an error for
  failures,
  stopping, closer, closeMutex   \* the stop event and its goroutines

positions == <<vPos, vLast, aPos, lastFrameAudio>>
stopVars == <<stopping, closer, closeMutex>>
vars == <<isHEVC, mkv, positions, files, handed, refused, failures, stopVars>>

\* "idr" is an IDR picture (IDR_W_RADL in H.265), "cra" another random access
\* picture of H.265: both are IsVideoKeyFrame, the track marks the first only.
Kinds == {"idr", "delta", "audio"} \cup (IF Hevc THEN {"cra"} ELSE {})
Frame == [kind : Kinds, duration : Durations]
IsVideo(f) == f.kind # "audio"
IsKey(f) == f.kind \in {"idr", "cra"}

\* A monitor's first frame is a picture.
NextFrames == IF handed = <<>> THEN {f \in Frame : IsVideo(f)} ELSE Frame

\* createMKVFile; base is the position of the file's first frame (history).
NewFile(hevc, base) ==
  [hevc |-> hevc, base |-> base, blocks |-> <<>>, idr |-> <<>>, closes |-> 0, closed |-> FALSE]

Block(frames, at, key) == [frames |-> frames, at |-> at, key |-> key]

\* Mutant: the picture held back stays where it is.
VideoWrittenNoFlush(file, n, f, at) ==
  IF f.kind = "idr" THEN [file EXCEPT !.idr = Append(@, n)]
  ELSE [file EXCEPT !.blocks = Append(@, Block(<<n>>, at, FALSE))]

\* track.Write of frame n: an IDR picture is held back and goes out, with the
\* next picture's timestamp, when that is written.
VideoWritten(file, n, f, at) ==
  IF f.kind = "idr" THEN [file EXCEPT !.idr = Append(@, n)]
  ELSE [file EXCEPT !.idr = <<>>,
                    !.blocks = @ \o (IF file.idr = <<>> THEN <<>> ELSE <<Block(file.idr, at, TRUE)>>)
                                 \o <<Block(<<n>>, at, FALSE)>>]

AudioWritten(file, n, at) ==
  [file EXCEPT !.blocks = Append(@, Block(<<n>>, at, TRUE))]

\* matroska.Close is called on the file; Closed follows.
CloseCalled(file) == [file EXCEPT !.closes = @ + 1]

Init ==
  /\ isHEVC = FALSE /\ mkv = 0 /\ files = <<>>
  /\ vPos = 0 /\ vLast = 0 /\ aPos = 0 /\ lastFrameAudio = FALSE
  /\ handed = <<>> /\ refused = {} /\ failures = 0
  /\ stopping = FALSE /\ closer = [c \in Closers |-> "waiting"] /\ closeMutex = NoCloser

----------------------------------------------------------------------------
(* writeFrame *)

\* Mutant: only key frames are looked at.
SawHevcInKeyframes(f) == isHEVC \/ (Hevc /\ IsKey(f))

SawHevc(f) == isHEVC \/ (Hevc /\ IsVideo(f))

\* The files once there is a current one, and its number.
Opened(f) == IF mkv = 0 THEN Append(files, NewFile(SawHevc(f), vPos)) ELSE files
Current(f) == IF mkv = 0 THEN Len(files) + 1 ELSE mkv

NeedsRotation(f) == IsKey(f) /\ vPos + f.duration > ChunkDuration

Handed(f) ==
  /\ ~stopping /\ Len(handed) < MaxFrames
  /\ handed' = Append(handed, f)
  /\ isHEVC' = SawHevc(f)
  /\ UNCHANGED stopVars

CreationFails(f) ==
  /\ failures < MaxFailures /\ failures' = failures + 1
  /\ refused' = refused \cup {Len(handed) + 1}
  /\ mkv' = 0
  /\ UNCHANGED positions

\* There is no file and none can be created.
NoFile(f) ==
  /\ Handed(f) /\ mkv = 0
  /\ CreationFails(f)
  /\ UNCHANGED files

\* The current file is given up and the next one cannot be created.
RotationFails(f) ==
  /\ Handed(f) /\ NeedsRotation(f)
  /\ CreationFails(f)
  /\ files' = [Opened(f) EXCEPT ![Current(f)] = CloseCalled(@)]

\* Mutant: the file that is given up is not closed.
RotateLeavesOpen(f) ==
  /\ Handed(f) /\ NeedsRotation(f)
  /\ files' = Append(Opened(f), VideoWritten(NewFile(SawHevc(f), 0), Len(handed'), f, 0))
  /\ mkv' = Len(files')
  /\ vLast' = 0 /\ vPos' = f.duration /\ aPos' = 0 /\ lastFrameAudio' = FALSE
  /\ UNCHANGED <<refused, failures>>

Rotate(f) ==
  /\ Handed(f) /\ NeedsRotation(f)
  /\ LET old == [Opened(f) EXCEPT ![Current(f)] = CloseCalled(@)]
     IN  files' = Append(old, VideoWritten(NewFile(SawHevc(f), 0), Len(handed'), f, 0))
  /\ mkv' = Len(files')
  /\ vLast' = 0 /\ vPos' = f.duration /\ aPos' = 0 /\ lastFrameAudio' = FALSE
  /\ UNCHANGED <<refused, failures>>

WriteVideo(f) ==
  /\ Handed(f) /\ IsVideo(f) /\ ~NeedsRotation(f)
  /\ mkv' = Current(f)
  /\ files' = [Opened(f) EXCEPT ![Current(f)] = VideoWritten(@, Len(handed'), f, vPos)]
  /\ vLast' = vPos /\ vPos' = vPos + f.duration /\ lastFrameAudio' = FALSE
  /\ UNCHANGED <<aPos, refused, failures>>

\* Mutant: the audio clock goes on from where it was.
AudioStartGoesOn == aPos

\* Audio that follows a picture starts where that picture starts.
AudioStart == IF lastFrameAudio THEN aPos ELSE vLast

WriteAudio(f) ==
  /\ Handed(f) /\ f.kind = "audio"
  /\ mkv' = Current(f)
  /\ IF HasAudio
     THEN /\ files' = [Opened(f) EXCEPT ![Current(f)] = AudioWritten(@, Len(handed'), AudioStart)]
          /\ aPos' = AudioStart + f.duration /\ lastFrameAudio' = TRUE
     ELSE files' = Opened(f) /\ UNCHANGED <<aPos, lastFrameAudio>>
  /\ UNCHANGED <<vPos, vLast, refused, failures>>

writeFrame(f) == NoFile(f) \/ RotationFails(f) \/ Rotate(f) \/ WriteVideo(f) \/ WriteAudio(f)

----------------------------------------------------------------------------
(* Closing *)

\* matroska.Close returns: the tracks' writers and the file are closed.
FileClosed(i) ==
  /\ files[i].closes > 0 /\ ~files[i].closed
  /\ files' = [files EXCEPT ![i].closed = TRUE]
  /\ UNCHANGED <<isHEVC, mkv, positions, handed, refused, failures, stopVars>>

\* Node.Stop: the queue is flushed, no frame follows.
Stop ==
  /\ ~stopping /\ stopping' = TRUE
  /\ UNCHANGED <<isHEVC, mkv, positions, files, handed, refused, failures, closer, closeMutex>>

\* Mutant: close does not take closeMutex.
CloseWithoutMutex(c) ==
  /\ stopping /\ closer[c] = "waiting"
  /\ IF mkv = 0
     THEN closer' = [closer EXCEPT ![c] = "done"] /\ UNCHANGED files
     ELSE /\ closer' = [closer EXCEPT ![c] = "closing"]
          /\ files' = [files EXCEPT ![mkv] = CloseCalled(@)]
  /\ UNCHANGED <<isHEVC, mkv, positions, handed, refused, failures, stopping, closeMutex>>

\* close() gets the mutex; with a file it keeps the mutex while the file closes.
Close(c) ==
  /\ stopping /\ closer[c] = "waiting" /\ closeMutex = NoCloser
  /\ IF mkv = 0
     THEN closer' = [closer EXCEPT ![c] = "done"] /\ UNCHANGED <<files, closeMutex>>
     ELSE /\ closer' = [closer EXCEPT ![c] = "closing"] /\ closeMutex' = c
          /\ files' = [files EXCEPT ![mkv] = CloseCalled(@)]
  /\ UNCHANGED <<isHEVC, mkv, positions, handed, refused, failures, stopping>>

CloseReturns(c) ==
  /\ closer[c] = "closing" /\ files[mkv].closed
  /\ closer' = [closer EXCEPT ![c] = "done"]
  /\ mkv' = 0 /\ closeMutex' = NoCloser
  /\ UNCHANGED <<isHEVC, positions, files, handed, refused, failures, stopping>>

Next ==
  \/ \E f \in NextFrames : writeFrame(f)
  \/ \E i \in DOMAIN files : FileClosed(i)
  \/ Stop \/ \E c \in Closers : Close(c) \/ CloseReturns(c)

Spec == Init /\ [][Next]_vars

\* The goroutines that close run to their end; nobody has to send frames or stop.
\* Each frame, and each failure, accounts for at most one file.
FairSpec ==
  /\ Spec
  /\ \A i \in 1 .. MaxFrames + MaxFailures : WF_vars(i \in DOMAIN files /\ FileClosed(i))
  /\ \A c \in Closers : WF_vars(Close(c) \/ CloseReturns(c))

----------------------------------------------------------------------------
(* Properties *)

\* The frames of a file: those in its blocks, and those held back.
FramesIn(file) ==
  FlattenSeq([b \in DOMAIN file.blocks |-> file.blocks[b].frames]) \o file.idr
NumbersIn(file) == Range(FramesIn(file))
PicturesIn(file) == {n \in NumbersIn(file) : IsVideo(handed[n])}

Wanted(n) == IsVideo(handed[n]) \/ HasAudio

FramesAreInOneFile ==
  /\ {n \in DOMAIN handed : Wanted(n)} \ refused
       = UNION {NumbersIn(files[i]) : i \in DOMAIN files}
  /\ \A i \in DOMAIN files : IsInjective(FramesIn(files[i]))
  /\ \A i, j \in DOMAIN files : i < j =>
       \A m \in NumbersIn(files[i]), n \in NumbersIn(files[j]) : m < n

OnlyTrailingKeyframesAreLost ==
  \A i \in DOMAIN files : \A n \in Range(files[i].idr) :
    handed[n].kind = "idr" /\ \A m \in PicturesIn(files[i]) : m > n => m \in Range(files[i].idr)

\* Every frame handed over is in one file, once, except those that writeFrame
\* reported and audio of a camera without audio; later files hold later frames;
\* and what a file holds back when it is closed, and so loses, is a run of IDR
\* pictures that no picture followed.
EveryFrameIsInOneFile == FramesAreInOneFile /\ OnlyTrailingKeyframesAreLost

FilesBeginWithKeyframe ==
  \A i \in DOMAIN files : i > 1 /\ NumbersIn(files[i]) # {} =>
    LET first == Min(NumbersIn(files[i]))
    IN  \/ IsKey(handed[first])
        \/ \E n \in refused : n < first /\ \A m \in n + 1 .. first - 1 : ~Wanted(m)

\* A file has the video track of the stream's codec and begins at a key frame,
\* unless it is the stream's first or replaces one that could not be created.
FilesCanBePlayed ==
  /\ \A i \in DOMAIN files : files[i].hevc = Hevc
  /\ FilesBeginWithKeyframe

\* How long the frames with these numbers last.
DurationOf(frames, numbers) ==
  LET upTo[n \in 0 .. Len(frames)] ==
        IF n = 0 THEN 0
        ELSE upTo[n - 1] + (IF n \in numbers THEN frames[n].duration ELSE 0)
  IN  upTo[Len(frames)]

\* A picture's place in its file: the durations of the pictures before it.
StartOf(i, n) == files[i].base + DurationOf(handed, {m \in PicturesIn(files[i]) : m < n})

\* Timestamps are media time: a picture is stored at its place (one held back, at
\* the place of the one after it), audio at the place of the picture before it or
\* right behind the audio before it.
TimestampsAreMediaTime ==
  \A i \in DOMAIN files : \A b \in DOMAIN files[i].blocks :
    LET block == files[i].blocks[b]
        n == block.frames[1]
        f == handed[n]
    IN  IF IsVideo(f) THEN block.at = StartOf(i, IF f.kind = "idr" THEN
                                 1 + Max(Range(block.frames)) ELSE n)
        ELSE n - 1 \in NumbersIn(files[i]) =>
               IF IsVideo(handed[n - 1]) THEN block.at = StartOf(i, n - 1)
               ELSE block.at = files[i].blocks[b - 1].at + handed[n - 1].duration

\* The units of a frame are found, whole and in order and with their lengths in
\* front, as the track stores them; unless one in Annex B loses its header, or the
\* first unit in AVCC has one octet, whose length is the start code.  A frame whose
\* first start code is 00 00 01 may be taken for AVCC, panic, or be looked at for ever.
AreFound(units, codes) ==
  LET stored == [i \in DOMAIN units |-> PutUint32(Len(units[i])) \o units[i]]
      frame == AnnexB(units, codes)
      format == GetNALUFormatType(frame)
  IN  /\ codes[1] = startCode4 => format = "AnnexB"
      /\ format = "AnnexB" =>
           (EmitNALUData(frame, "AVCC") = stored <=> \A i \in DOMAIN units : ~LosesItsHeader(units[i]))
      /\ Len(units[1]) # 1 /\ Len(AVCC(units)) < Words => EmitNALUData(AVCC(units), "AVCC") = stored

UnitsAreFound ==
  handed = <<>> =>
  \A n \in 1 .. 3 : \A units \in [1 .. n -> Units], codes \in [1 .. n -> {startCode3, startCode4}] :
    AreFound(units, codes)

ClosedOnce ==
  \A i \in DOMAIN files : files[i].closes <= 1 /\ (i # mkv => files[i].closes = 1)

ClosedFilesAreFinal ==
  \A i \in DOMAIN files : files[i].closes > 0 =>
    files'[i].blocks = files[i].blocks /\ files'[i].idr = files[i].idr

\* A file is closed at most once, only the current file is open, and nothing is
\* written to a file that has been closed.
EachFileIsClosedOnce == [][ClosedOnce' /\ ClosedFilesAreFinal]_vars

\* After a stop all files get closed and the stop event's goroutines return.
StopClosesEverything ==
  stopping ~> (\A i \in DOMAIN files : files[i].closed) /\ \A c \in Closers : closer[c] = "done"
============================================================================
