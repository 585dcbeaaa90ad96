-------------------------- MODULE MKVWriterProofs --------------------------
(***************************************************************************)
(* Proofs about MKVWriter.  FilesInv: files are closed once and closed     *)
(* files are final.  It ties the number of times Close was called on the   *)
(* current file to closeMutex: one exactly while a goroutine of the stop   *)
(* event holds the mutex, so the next one finds w.mkv nil; a file that is  *)
(* not the current one any more was closed by the rotation.  FramesInv:    *)
(* which frames are in which file.  BeginInv: what a file begins with.     *)
(* TimeInv: where the frames are in their file.  A step of writeFrame is   *)
(* looked at as what it does to the files that it finds or opens.          *)
(* Last, the units that a track finds in a frame (NalUnits), by induction  *)
(* over the octets and the units of the frame.                             *)
(***************************************************************************)
EXTENDS MKVWriter, TLAPS, Induction

BlockSet == [frames : Seq(Nat), at : Nat, key : BOOLEAN]
FileSet == [hevc : BOOLEAN, base : Nat, blocks : Seq(BlockSet), idr : Seq(Nat), closes : Nat, closed : BOOLEAN]

Types ==
  /\ isHEVC \in BOOLEAN /\ files \in Seq(FileSet) /\ mkv \in 0 .. Len(files)
  /\ vPos \in Nat /\ vLast \in Nat /\ aPos \in Nat /\ lastFrameAudio \in BOOLEAN
  /\ handed \in Seq(Frame) /\ stopping \in BOOLEAN
  /\ closer \in [Closers -> {"waiting", "closing", "done"}]
  /\ closeMutex \in Closers \cup {NoCloser}

\* A goroutine that waits for the file to close holds the mutex, after the stop.
MutexIsHeldWhileClosing ==
  /\ \A c \in Closers : closer[c] = "closing" => closeMutex = c
  /\ closeMutex # NoCloser => mkv # 0 /\ stopping /\ closer[closeMutex] = "closing"

CloseCounts(fs, current, n) ==
  \A i \in DOMAIN fs : fs[i].closes = IF i = current THEN n ELSE 1

FilesInv ==
  /\ Types /\ MutexIsHeldWhileClosing
  /\ CloseCounts(files, mkv, IF closeMutex = NoCloser THEN 0 ELSE 1)

LEMMA FrameTypes == \A f \in NextFrames : f \in Frame /\ f.duration \in Nat /\ f.kind \in Kinds
  BY MKVWriterAssumption DEF NextFrames, Frame

LEMMA SawHevcType == ASSUME isHEVC \in BOOLEAN, NEW f PROVE SawHevc(f) \in BOOLEAN
  BY MKVWriterAssumption, Zenon DEF SawHevc

LEMMA NewFileType ==
  ASSUME NEW h \in BOOLEAN, NEW b \in Nat
  PROVE  NewFile(h, b) \in FileSet /\ NewFile(h, b).closes = 0
  BY DEF NewFile, FileSet

\* What is written to a file leaves its closing alone.
LEMMA WrittenFile ==
  ASSUME NEW file \in FileSet, NEW n \in Nat, NEW f \in Frame, NEW at \in Nat
  PROVE  /\ VideoWritten(file, n, f, at) \in FileSet /\ VideoWritten(file, n, f, at).closes = file.closes
         /\ AudioWritten(file, n, at) \in FileSet /\ AudioWritten(file, n, at).closes = file.closes
<1>1. ASSUME NEW frames \in Seq(Nat), NEW key \in BOOLEAN
      PROVE  Block(frames, at, key) \in BlockSet /\ <<Block(frames, at, key)>> \in Seq(BlockSet)
  <2>1. Block(frames, at, key) \in BlockSet
    BY Zenon DEF Block, BlockSet
  <2> QED BY <2>1
<1>2. file.idr \in Seq(Nat) /\ file.blocks \in Seq(BlockSet)
  BY Zenon DEF FileSet
<1>3. <<n>> \in Seq(Nat) /\ <<>> \in Seq(Nat) /\ Append(file.idr, n) \in Seq(Nat)
  BY <1>2
<1> DEFINE held == IF file.idr = <<>> THEN <<>> ELSE <<Block(file.idr, at, TRUE)>>
           new == <<Block(<<n>>, at, FALSE)>>
           blocks == file.blocks \o held \o new
<1>4. held \in Seq(BlockSet) /\ new \in Seq(BlockSet)
  <2>1. <<Block(file.idr, at, TRUE)>> \in Seq(BlockSet) /\ new \in Seq(BlockSet)
    BY <1>1, <1>2, <1>3
  <2>2. <<>> \in Seq(BlockSet)
    OBVIOUS
  <2> QED BY <2>1, <2>2, Zenon
<1>5. blocks \in Seq(BlockSet)
  <2> HIDE DEF held, new
  <2> QED BY <1>2, <1>4
<1>6. ASSUME f.kind = "idr"
      PROVE  VideoWritten(file, n, f, at) \in FileSet /\ VideoWritten(file, n, f, at).closes = file.closes
  <2>1. VideoWritten(file, n, f, at) = [file EXCEPT !.idr = Append(file.idr, n)]
    BY <1>6 DEF VideoWritten
  <2>2. [file EXCEPT !.idr = Append(file.idr, n)] \in FileSet
    BY <1>3, Zenon DEF FileSet
  <2>3. [file EXCEPT !.idr = Append(file.idr, n)].closes = file.closes
    BY DEF FileSet
  <2> QED BY <2>1, <2>2, <2>3, Zenon
<1>7. ASSUME f.kind # "idr"
      PROVE  VideoWritten(file, n, f, at) \in FileSet /\ VideoWritten(file, n, f, at).closes = file.closes
  <2>1. VideoWritten(file, n, f, at) = [file EXCEPT !.idr = <<>>, !.blocks = blocks]
    BY <1>7 DEF VideoWritten, FileSet
  <2> HIDE DEF blocks
  <2>2. [file EXCEPT !.idr = <<>>, !.blocks = blocks] \in FileSet
    BY <1>3, <1>5, Zenon DEF FileSet
  <2>3. [file EXCEPT !.idr = <<>>, !.blocks = blocks].closes = file.closes
    BY DEF FileSet
  <2> QED BY <2>1, <2>2, <2>3, Zenon
<1>8. Append(file.blocks, Block(<<n>>, at, TRUE)) \in Seq(BlockSet)
  <2>1. Block(<<n>>, at, TRUE) \in BlockSet
    BY <1>1, <1>3
  <2>2. \A s \in Seq(BlockSet) : \A b \in BlockSet : Append(s, b) \in Seq(BlockSet)
    OBVIOUS
  <2> QED BY <1>2, <2>1, <2>2, Zenon
<1>9. AudioWritten(file, n, at) \in FileSet
  BY <1>8, Zenon DEF AudioWritten, FileSet
<1>10. AudioWritten(file, n, at).closes = file.closes
  BY DEF AudioWritten, FileSet
<1> QED BY <1>6, <1>7, <1>9, <1>10, Zenon

LEMMA ClosedFile ==
  ASSUME NEW file \in FileSet
  PROVE  /\ CloseCalled(file) \in FileSet /\ CloseCalled(file).closes = file.closes + 1
         /\ CloseCalled(file).blocks = file.blocks /\ CloseCalled(file).idr = file.idr
         /\ CloseCalled(file).hevc = file.hevc /\ CloseCalled(file).base = file.base
<1>1. file.closes + 1 \in Nat
  BY DEF FileSet
<1>2. CloseCalled(file) \in FileSet
  BY <1>1, Zenon DEF CloseCalled, FileSet
<1> QED BY <1>2 DEF CloseCalled, FileSet

\* While frames are handed over, the files and the one a frame goes to: it has
\* not been closed, and all the others have.
LEMMA OpenedFiles ==
  ASSUME FilesInv, ~stopping, NEW f \in NextFrames
  PROVE  /\ closeMutex = NoCloser
         /\ Opened(f) \in Seq(FileSet) /\ Current(f) \in 1 .. Len(Opened(f))
         /\ Len(files) <= Len(Opened(f))
         /\ CloseCounts(Opened(f), Current(f), 0)
         /\ \A i \in DOMAIN files : Opened(f)[i] = files[i]
         /\ \A i \in DOMAIN files : files[i].closes > 0 => i # Current(f)
<1> USE DEF FilesInv, Types
<1>1. closeMutex = NoCloser
  BY DEF MutexIsHeldWhileClosing
<1>2. NewFile(SawHevc(f), vPos) \in FileSet /\ NewFile(SawHevc(f), vPos).closes = 0
  BY SawHevcType, NewFileType
<1>3. CASE mkv = 0
  BY <1>1, <1>2, <1>3 DEF Opened, Current, CloseCounts
<1>4. CASE mkv # 0
  BY <1>1, <1>4 DEF Opened, Current, CloseCounts
<1> QED BY <1>1, <1>3, <1>4

\* The invariant and the closed files after a step of writeFrame that puts new in
\* place of the current one of the opened files.
LEMMA FilesStep ==
  ASSUME FilesInv, NEW f \in NextFrames, Handed(f), NEW new \in FileSet,
         NEW at \in 1 .. Len(Opened(f)), at = Current(f)
  PROVE  LET fs == [Opened(f) EXCEPT ![at] = new]
         IN  /\ fs \in Seq(FileSet) /\ Len(fs) = Len(Opened(f))
             /\ CloseCounts(fs, at, new.closes)
             /\ \A i \in DOMAIN files : files[i].closes > 0 => i \in DOMAIN fs /\ fs[i] = files[i]
<1>1. ~stopping
  BY DEF Handed
<1> QED BY <1>1, OpenedFiles DEF CloseCounts

LEMMA FilesInit == Init => FilesInv
<1> SUFFICES ASSUME Init PROVE FilesInv
  OBVIOUS
<1>1. files \in Seq(FileSet) /\ handed \in Seq(Frame) /\ Len(files) = 0
  BY DEF Init
<1>2. closer \in [Closers -> {"waiting", "closing", "done"}]
  BY DEF Init
<1>3. mkv \in 0 .. Len(files) /\ vPos \in Nat /\ vLast \in Nat /\ aPos \in Nat
  BY <1>1 DEF Init
<1>4. Types
  BY <1>1, <1>2, <1>3, Zenon DEF Init, Types
<1> QED BY <1>1, <1>4, MKVWriterAssumption DEF Init, FilesInv, MutexIsHeldWhileClosing, CloseCounts

\* The rest of the invariant when a frame is handed over.
LEMMA HandedStep ==
  ASSUME FilesInv, NEW f \in NextFrames, Handed(f),
         files' \in Seq(FileSet), mkv' \in 0 .. Len(files'), CloseCounts(files', mkv', 0),
         vPos' \in Nat, vLast' \in Nat, aPos' \in Nat, lastFrameAudio' \in BOOLEAN
  PROVE  FilesInv'
<1>1. isHEVC' \in BOOLEAN
  BY SawHevcType DEF Handed, FilesInv, Types
<1>2. handed' \in Seq(Frame)
  BY FrameTypes DEF Handed, FilesInv, Types
<1>3. closeMutex = NoCloser
  BY DEF Handed, FilesInv, Types, MutexIsHeldWhileClosing
<1> QED BY <1>1, <1>2, <1>3 DEF Handed, stopVars, FilesInv, Types, MutexIsHeldWhileClosing

LEMMA WriteStep ==
  ASSUME FilesInv, NEW f \in NextFrames, writeFrame(f)
  PROVE  FilesInv' /\ ClosedFilesAreFinal
<1>1. /\ isHEVC \in BOOLEAN /\ files \in Seq(FileSet)
      /\ vPos \in Nat /\ vLast \in Nat /\ aPos \in Nat /\ lastFrameAudio \in BOOLEAN
      /\ Len(handed) \in Nat
  BY DEF FilesInv, Types
<1>2. f \in Frame
  BY FrameTypes
<1>3. CASE NoFile(f)
  <2>1. Handed(f) /\ mkv' = 0 /\ mkv = 0 /\ files' = files /\ UNCHANGED positions
    BY <1>3 DEF NoFile, CreationFails
  <2>2. CloseCounts(files', 0, 0)
    BY <2>1, OpenedFiles DEF Handed, FilesInv
  <2>3. FilesInv'
    BY <1>1, <2>1, <2>2, HandedStep DEF positions
  <2> QED BY <2>1, <2>3 DEF ClosedFilesAreFinal
<1>4. ASSUME Handed(f)
      PROVE  /\ Current(f) \in 1 .. Len(Opened(f)) /\ Opened(f)[Current(f)] \in FileSet
             /\ Opened(f)[Current(f)].closes = 0 /\ Len(handed') \in Nat /\ f \in Frame
             /\ f.duration \in Nat /\ Len(files) <= Len(Opened(f)) /\ Len(Opened(f)) \in Nat
             /\ Opened(f) \in Seq(FileSet)
  <2>1. ~stopping /\ Len(handed') = Len(handed) + 1
    BY <1>4 DEF Handed, FilesInv, Types
  <2>2. /\ Opened(f) \in Seq(FileSet) /\ Current(f) \in 1 .. Len(Opened(f))
        /\ Len(files) <= Len(Opened(f)) /\ CloseCounts(Opened(f), Current(f), 0)
    BY <2>1, OpenedFiles
  <2> QED BY <1>1, <2>1, <2>2, FrameTypes DEF CloseCounts
<1> DEFINE was == Opened(f)[Current(f)]
           old == [Opened(f) EXCEPT ![Current(f)] = CloseCalled(was)]
<1>5. ASSUME Handed(f)
      PROVE  /\ old \in Seq(FileSet) /\ Len(old) = Len(Opened(f)) /\ CloseCounts(old, Current(f), 1)
             /\ \A i \in DOMAIN files : files[i].closes > 0 => i \in DOMAIN old /\ old[i] = files[i]
  <2>1. CloseCalled(was) \in FileSet /\ CloseCalled(was).closes = 1
    BY <1>4, <1>5, ClosedFile
  <2> QED BY <1>4, <1>5, <2>1, FilesStep
<1> HIDE DEF old
<1>6. ASSUME Handed(f) PROVE was \in FileSet /\ was.closes = 0
  BY <1>4, <1>6
<1> HIDE DEF was
<1>7. CASE RotationFails(f)
  <2>1. Handed(f) /\ mkv' = 0 /\ files' = old /\ UNCHANGED positions
    BY <1>7 DEF RotationFails, CreationFails, old, was
  <2>2. CloseCounts(files', 0, 0)
    BY <1>5, <2>1 DEF CloseCounts
  <2>3. FilesInv'
    BY <1>1, <1>5, <2>1, <2>2, HandedStep DEF positions
  <2> QED BY <1>5, <2>1, <2>3 DEF ClosedFilesAreFinal
<1>8. CASE Rotate(f)
  <2> DEFINE new == VideoWritten(NewFile(SawHevc(f), 0), Len(handed'), f, 0)
  <2>1. Handed(f) /\ files' = Append(old, new) /\ mkv' = Len(files')
        /\ vLast' = 0 /\ vPos' = f.duration /\ aPos' = 0 /\ lastFrameAudio' = FALSE
    BY <1>8 DEF Rotate, old, was
  <2>2. new \in FileSet /\ new.closes = 0
    <3>1. NewFile(SawHevc(f), 0) \in FileSet /\ NewFile(SawHevc(f), 0).closes = 0
      BY <1>1, SawHevcType, NewFileType
    <3>2. \A n \in Nat : LET file == VideoWritten(NewFile(SawHevc(f), 0), n, f, 0)
                         IN  file \in FileSet /\ file.closes = 0
      <4>1. 0 \in Nat
        OBVIOUS
      <4> QED BY <1>2, <3>1, <4>1, WrittenFile, Zenon
    <3> QED BY <1>4, <2>1, <3>2
  <2> HIDE DEF new, old
  <2>3. files' \in Seq(FileSet) /\ Len(files') = Len(old) + 1 /\ CloseCounts(files', mkv', 0)
    BY <1>5, <2>1, <2>2 DEF CloseCounts
  <2>4. FilesInv'
    <3>1. mkv' \in 0 .. Len(files') /\ vPos' \in Nat /\ vLast' \in Nat /\ aPos' \in Nat
      BY <1>4, <2>1, <2>3
    <3> QED BY <2>1, <2>3, <3>1, HandedStep
  <2> QED BY <1>5, <2>1, <2>4 DEF ClosedFilesAreFinal
<1>9. ASSUME Handed(f), mkv' = Current(f), NEW new \in FileSet, new.closes = 0,
             files' = [Opened(f) EXCEPT ![Current(f)] = new],
             vPos' \in Nat, vLast' \in Nat, aPos' \in Nat, lastFrameAudio' \in BOOLEAN
      PROVE  FilesInv' /\ ClosedFilesAreFinal
  <2>1. /\ files' \in Seq(FileSet) /\ Len(files') = Len(Opened(f))
        /\ CloseCounts(files', mkv', 0)
        /\ \A i \in DOMAIN files : files[i].closes > 0 => i \in DOMAIN files' /\ files'[i] = files[i]
    BY <1>4, <1>9, FilesStep
  <2>2. FilesInv'
    <3>1. mkv' \in 0 .. Len(files')
      BY <1>4, <1>9, <2>1
    <3> QED BY <1>9, <2>1, <3>1, HandedStep
  <2> QED BY <2>1, <2>2 DEF ClosedFilesAreFinal
<1>10. CASE WriteVideo(f)
  <2> DEFINE new == VideoWritten(was, Len(handed'), f, vPos)
  <2>1. Handed(f) /\ mkv' = Current(f) /\ files' = [Opened(f) EXCEPT ![Current(f)] = new]
        /\ vLast' = vPos /\ vPos' = vPos + f.duration /\ lastFrameAudio' = FALSE /\ aPos' = aPos
    BY <1>10 DEF WriteVideo, was
  <2>2. new \in FileSet /\ new.closes = 0
    <3>1. \A n \in Nat : VideoWritten(was, n, f, vPos) \in FileSet /\ VideoWritten(was, n, f, vPos).closes = 0
      <4>1. was \in FileSet /\ was.closes = 0 /\ vPos \in Nat
        BY <1>1, <1>6, <2>1
      <4> QED BY <1>2, <4>1, WrittenFile, Zenon
    <3> QED BY <1>4, <2>1, <3>1
  <2> HIDE DEF new
  <2>3. vPos + f.duration \in Nat
    BY <1>1, <1>4, <2>1
  <2> QED BY <1>1, <1>9, <2>1, <2>2, <2>3
<1>11. CASE WriteAudio(f)
  <2>1. Handed(f) /\ mkv' = Current(f) /\ vPos' = vPos /\ vLast' = vLast
    BY <1>11 DEF WriteAudio
  <2>2. CASE HasAudio
    <3> DEFINE new == AudioWritten(was, Len(handed'), AudioStart)
    <3>1. files' = [Opened(f) EXCEPT ![Current(f)] = new]
          /\ aPos' = AudioStart + f.duration /\ lastFrameAudio' = TRUE
      BY <1>11, <2>2 DEF WriteAudio, was
    <3>2. AudioStart \in Nat
      BY <1>1 DEF AudioStart
    <3>3. new \in FileSet /\ new.closes = 0
      <4>1. was \in FileSet /\ was.closes = 0 /\ Len(handed') \in Nat
        BY <1>4, <1>6, <2>1
      <4> QED BY <1>2, <3>2, <4>1, WrittenFile, Zenon
    <3> HIDE DEF new
    <3>4. AudioStart + f.duration \in Nat
      BY <1>4, <2>1, <3>2
    <3> QED BY <1>1, <1>9, <2>1, <3>1, <3>3, <3>4
  <2>3. CASE ~HasAudio
    <3>1. files' = Opened(f) /\ aPos' = aPos /\ lastFrameAudio' = lastFrameAudio
      BY <1>11, <2>3 DEF WriteAudio
    <3>2. files' = [Opened(f) EXCEPT ![Current(f)] = was]
      BY <1>4, <2>1, <3>1 DEF was
    <3> QED BY <1>1, <1>6, <1>9, <2>1, <3>1, <3>2
  <2> QED BY <2>2, <2>3
<1> QED BY <1>3, <1>7, <1>8, <1>10, <1>11 DEF writeFrame

LEMMA FileClosedStep ==
  ASSUME FilesInv, NEW i \in DOMAIN files, FileClosed(i)
  PROVE  FilesInv' /\ ClosedFilesAreFinal
<1> USE DEF FilesInv, Types
<1>1. [files[i] EXCEPT !.closed = TRUE] \in FileSet
      /\ \A j \in DOMAIN files : files[j] \in FileSet
  <2>1. \A j \in DOMAIN files : files[j] \in FileSet
    OBVIOUS
  <2>2. \A file \in FileSet : [file EXCEPT !.closed = TRUE] \in FileSet
    BY Zenon DEF FileSet
  <2> QED BY <2>1, <2>2
<1>2. /\ files' = [files EXCEPT ![i] = [files[i] EXCEPT !.closed = TRUE]]
      /\ UNCHANGED <<isHEVC, mkv, positions, handed, stopVars>>
  BY DEF FileClosed
<1>3. /\ files' \in Seq(FileSet) /\ Len(files') = Len(files)
      /\ \A j \in DOMAIN files : files'[j].closes = files[j].closes
                                 /\ files'[j].blocks = files[j].blocks /\ files'[j].idr = files[j].idr
  <2>1. files' \in Seq(FileSet) /\ Len(files') = Len(files)
    BY <1>1, <1>2
  <2>2. LET file == [files[i] EXCEPT !.closed = TRUE]
        IN  file.closes = files[i].closes /\ file.blocks = files[i].blocks /\ file.idr = files[i].idr
    BY <1>1 DEF FileSet
  <2> QED BY <1>2, <2>1, <2>2
<1>4. ClosedFilesAreFinal
  BY <1>3 DEF ClosedFilesAreFinal
<1>5. Types' /\ MutexIsHeldWhileClosing'
  <2>1. UNCHANGED <<isHEVC, mkv, vPos, vLast, aPos, lastFrameAudio, handed, stopping, closer, closeMutex>>
    BY <1>2 DEF positions, stopVars
  <2>2. Types'
    BY <1>3, <2>1
  <2> QED BY <2>1, <2>2 DEF MutexIsHeldWhileClosing
<1>6. CloseCounts(files', mkv, IF closeMutex = NoCloser THEN 0 ELSE 1)
  BY <1>3 DEF CloseCounts
<1>7. mkv' = mkv /\ closeMutex' = closeMutex
  BY <1>2 DEF stopVars
<1> QED BY <1>4, <1>5, <1>6, <1>7

LEMMA StopEventStep ==
  ASSUME FilesInv, NEW c \in Closers, Close(c) \/ CloseReturns(c)
  PROVE  FilesInv' /\ ClosedFilesAreFinal
<1> USE MKVWriterAssumption DEF FilesInv, Types
<1>1. CASE Close(c) /\ mkv = 0
  <2>1. closer' = [closer EXCEPT ![c] = "done"] /\ files' = files /\ closeMutex' = closeMutex
        /\ closeMutex = NoCloser
        /\ UNCHANGED <<isHEVC, mkv, positions, handed, stopping>>
    BY <1>1 DEF Close
  <2> QED BY <2>1 DEF positions, MutexIsHeldWhileClosing, CloseCounts, ClosedFilesAreFinal
<1>2. CASE Close(c) /\ mkv # 0
  <2>1. closer' = [closer EXCEPT ![c] = "closing"] /\ closeMutex' = c /\ closeMutex = NoCloser /\ stopping
        /\ files' = [files EXCEPT ![mkv] = CloseCalled(files[mkv])]
        /\ UNCHANGED <<isHEVC, mkv, positions, handed, stopping>>
    BY <1>2 DEF Close
  <2>2. files[mkv] \in FileSet /\ mkv \in DOMAIN files
    BY <1>2
  <2>3. files' \in Seq(FileSet) /\ Len(files') = Len(files)
        /\ CloseCounts(files', mkv, 1) /\ ClosedFilesAreFinal
    BY <2>1, <2>2, ClosedFile DEF CloseCounts, ClosedFilesAreFinal
  <2>4. MutexIsHeldWhileClosing' /\ Types'
    BY <1>2, <2>1, <2>3 DEF positions, MutexIsHeldWhileClosing
  <2> QED BY <2>1, <2>3, <2>4
<1>3. CASE CloseReturns(c)
  <2>1. closer[c] = "closing" /\ closer' = [closer EXCEPT ![c] = "done"] /\ mkv' = 0 /\ closeMutex' = NoCloser
        /\ UNCHANGED <<isHEVC, positions, files, handed, stopping>>
    BY <1>3 DEF CloseReturns
  <2>2. closeMutex = c /\ c # NoCloser
    BY <2>1 DEF MutexIsHeldWhileClosing
  <2>3. CloseCounts(files', 0, 0)
    BY <2>1, <2>2 DEF CloseCounts
  <2>4. MutexIsHeldWhileClosing' /\ Types'
    BY <2>1, <2>2 DEF positions, MutexIsHeldWhileClosing
  <2> QED BY <2>1, <2>3, <2>4 DEF ClosedFilesAreFinal
<1> QED BY <1>1, <1>2, <1>3

LEMMA FilesStepInv == FilesInv /\ [Next]_vars => FilesInv' /\ ClosedFilesAreFinal
<1> SUFFICES ASSUME FilesInv, [Next]_vars PROVE FilesInv' /\ ClosedFilesAreFinal
  OBVIOUS
<1>1. CASE Stop
  BY <1>1 DEF Stop, positions, FilesInv, Types, MutexIsHeldWhileClosing, CloseCounts, ClosedFilesAreFinal
<1>2. CASE UNCHANGED vars
  BY <1>2 DEF vars, positions, stopVars, FilesInv, Types, MutexIsHeldWhileClosing, CloseCounts, ClosedFilesAreFinal
<1> QED BY <1>1, <1>2, WriteStep, FileClosedStep, StopEventStep DEF Next

\* Close is called on a file at most once and on each file that is left, and no
\* block or held back picture of a file changes after that (camera/mkvwriter.go
\* lines 49 and 68), for any number of frames, failures and stop goroutines.
THEOREM FilesAreClosedOnce == Spec => EachFileIsClosedOnce
<1>1. FilesInv => ClosedOnce
  BY DEF FilesInv, Types, CloseCounts, ClosedOnce
<1>2. FilesInv /\ [Next]_vars => [ClosedOnce' /\ ClosedFilesAreFinal]_vars
  BY <1>1, FilesStepInv DEF FilesInv, ClosedOnce, CloseCounts, Types
<1> QED BY <1>2, FilesInit, FilesStepInv, PTL DEF Spec, EachFileIsClosedOnce

----------------------------------------------------------------------------
(* Which frames are in which file *)

\* new is file with frame n of kind as its last: whichever block it is in, and
\* whatever is held back.
Gains(new, file, n, kind) ==
  /\ new.hevc = file.hevc
  /\ NumbersIn(new) = NumbersIn(file) \cup {n}
  /\ IsInjective(FramesIn(file)) /\ n \notin NumbersIn(file) => IsInjective(FramesIn(new))
  /\ new.idr = IF kind = "idr" THEN Append(file.idr, n)
               ELSE IF kind = "audio" THEN file.idr ELSE <<>>

FramesOf(blocks) == [b \in DOMAIN blocks |-> blocks[b].frames]

LEMMA FramesOfBlocks ==
  ASSUME NEW blocks \in Seq(BlockSet), NEW b \in BlockSet
  PROVE  /\ FramesOf(blocks) \in Seq(Seq(Nat)) /\ b.frames \in Seq(Nat)
         /\ FramesOf(Append(blocks, b)) = Append(FramesOf(blocks), b.frames)
<1>1. \A c \in BlockSet : c.frames \in Seq(Nat)
  BY Zenon DEF BlockSet
<1>2. FramesOf(blocks) \in Seq(Seq(Nat))
  BY <1>1 DEF FramesOf
<1>3. FramesOf(Append(blocks, b)) = Append(FramesOf(blocks), b.frames)
  BY <1>1 DEF FramesOf
<1> QED BY <1>1, <1>2, <1>3

LEMMA BlockFrames == \A blocks \in Seq(BlockSet) : FramesOf(blocks) \in Seq(Seq(Nat))
<1>1. \A c \in BlockSet : c.frames \in Seq(Nat)
  BY Zenon DEF BlockSet
<1> QED BY <1>1 DEF FramesOf

\* The frames of a file with one more block.
LEMMA MoreFrames ==
  ASSUME NEW blocks \in Seq(BlockSet), NEW b \in BlockSet
  PROVE  /\ FlattenSeq(FramesOf(blocks)) \in Seq(Nat)
         /\ FlattenSeq(FramesOf(Append(blocks, b))) = FlattenSeq(FramesOf(blocks)) \o b.frames
<1>1. /\ FramesOf(blocks) \in Seq(Seq(Nat)) /\ b.frames \in Seq(Nat)
      /\ FramesOf(Append(blocks, b)) = Append(FramesOf(blocks), b.frames)
  BY FramesOfBlocks
<1> QED BY <1>1, FlattenType, FlattenAppend

LEMMA RangeOfThree ==
  ASSUME NEW s \in Seq(Nat), NEW t \in Seq(Nat), NEW n \in Nat
  PROVE  /\ Range((s \o <<n>>) \o t) = Range(s \o t) \cup {n}
         /\ IsInjective(s \o t) /\ n \notin Range(s \o t) => IsInjective((s \o <<n>>) \o t)
<1>0. \A u, v \in Seq(Nat) : u \o v \in Seq(Nat)
  OBVIOUS
<1>1. PICK r \in Seq(Nat) : r = s \o t
  BY <1>0, Zenon
<1>d. PICK sn \in Seq(Nat) : sn = s \o <<n>>
  <2>1. <<n>> \in Seq(Nat)
    OBVIOUS
  <2> QED BY <1>0, <2>1, Zenon
<1>2. PICK e \in Seq(Nat) : e = sn \o t
  BY <1>0, Zenon
<1>3. PICK k \in Nat : k = Len(s)
  OBVIOUS
<1>4. PICK m \in Nat : m = Len(t)
  OBVIOUS
<1>a. PICK l \in Nat : l = k + m
  OBVIOUS
<1>b. Len(sn) = k + 1
  BY <1>3, <1>d
<1>c. Len(r) = l /\ Len(e) = (k + 1) + m
  BY <1>1, <1>2, <1>3, <1>4, <1>a, <1>b
<1>5. DOMAIN r = 1 .. l /\ DOMAIN e = 1 .. l + 1 /\ k <= l
  <2>1. (k + 1) + m = l + 1 /\ k <= l
    BY <1>a
  <2> QED BY <1>c, <2>1
<1>6. \A i \in 1 .. k : r[i] = s[i] /\ e[i] = s[i]
  BY <1>1, <1>d, <1>2, <1>3, <1>b
<1>7. e[k + 1] = n
  BY <1>d, <1>2, <1>3, <1>b
<1>8. \A i \in k + 1 .. l : r[i] = t[i - k] /\ e[i + 1] = t[i - k]
  <2> SUFFICES ASSUME NEW i \in k + 1 .. l PROVE r[i] = t[i - k] /\ e[i + 1] = t[i - k]
    OBVIOUS
  <2>1. i \in 1 .. l /\ i + 1 \in 1 .. l + 1 /\ i > k /\ i + 1 > k + 1 /\ (i + 1) - (k + 1) = i - k
    OBVIOUS
  <2>2. r[i] = t[i - k]
    <3>1. i \in 1 .. k + m /\ ~(i <= k)
      BY <1>a, <2>1
    <3>2. \A x \in 1 .. k + m : ~(x <= k) => r[x] = t[x - k]
      BY <1>1, <1>3, <1>4
    <3> QED BY <3>1, <3>2
  <2>3. e[i + 1] = t[(i + 1) - (k + 1)]
    <3>1. i + 1 \in 1 .. (k + 1) + m /\ ~(i + 1 <= k + 1)
      BY <1>a, <2>1
    <3>2. \A x \in 1 .. (k + 1) + m : ~(x <= k + 1) => e[x] = t[x - (k + 1)]
      BY <1>2, <1>4, <1>b
    <3> QED BY <3>1, <3>2, Zenon
  <2> QED BY <2>1, <2>2, <2>3
\* Each place of e but the new one is a place of r.
<1>9. \A i \in 1 .. l : (i <= k => e[i] = r[i]) /\ (i > k => e[i + 1] = r[i])
  <2> SUFFICES ASSUME NEW i \in 1 .. l PROVE (i <= k => e[i] = r[i]) /\ (i > k => e[i + 1] = r[i])
    OBVIOUS
  <2>1. i <= k => i \in 1 .. k
    OBVIOUS
  <2>2. i > k => i \in k + 1 .. l
    OBVIOUS
  <2> QED BY <1>6, <1>8, <2>1, <2>2
<1>10. \A j \in 1 .. l + 1 :
         \/ j = k + 1
         \/ j <= k /\ j \in 1 .. l /\ e[j] = r[j]
         \/ j > k + 1 /\ j - 1 \in 1 .. l /\ e[j] = r[j - 1]
  <2> SUFFICES ASSUME NEW j \in 1 .. l + 1, j # k + 1
               PROVE  \/ j <= k /\ j \in 1 .. l /\ e[j] = r[j]
                      \/ j > k + 1 /\ j - 1 \in 1 .. l /\ e[j] = r[j - 1]
    OBVIOUS
  <2>1. CASE j <= k
    <3>1. j \in 1 .. l
      BY <1>5, <2>1
    <3> QED BY <1>9, <2>1, <3>1
  <2>2. CASE j > k + 1
    <3>1. j - 1 \in 1 .. l /\ j - 1 > k /\ (j - 1) + 1 = j
      BY <2>2
    <3> QED BY <1>9, <2>2, <3>1
  <2> QED BY <2>1, <2>2
<1> DEFINE R == {r[i] : i \in 1 .. l}
           E == {e[j] : j \in 1 .. l + 1}
<1>11. Range(r) = R /\ Range(e) = E
  BY <1>5 DEF Range
<1>12. E = R \cup {n}
  <2>1. ASSUME NEW j \in 1 .. l + 1 PROVE e[j] \in R \cup {n}
    BY <1>7, <1>10
  <2>2. n \in E
    <3>1. k + 1 \in 1 .. l + 1
      BY <1>5
    <3> QED BY <1>7, <3>1, Zenon
  <2>3. ASSUME NEW i \in 1 .. l PROVE r[i] \in E
    <3>1. i \in 1 .. l + 1 /\ i + 1 \in 1 .. l + 1 /\ (i <= k \/ i > k)
      OBVIOUS
    <3>2. r[i] = e[i] \/ r[i] = e[i + 1]
      BY <1>9, <3>1
    <3> QED BY <3>1, <3>2, Zenon
  <2> QED BY <2>1, <2>2, <2>3
<1>13. ASSUME IsInjective(r), n \notin R PROVE IsInjective(e)
  <2>1. \A i \in 1 .. l : r[i] # n
    BY <1>13
  <2>2. \A i, j \in 1 .. l : r[i] = r[j] => i = j
    BY <1>5, <1>13 DEF IsInjective
  <2>3. ASSUME NEW i \in 1 .. l + 1, NEW j \in 1 .. l + 1, e[i] = e[j] PROVE i = j
    <3>0. \A x \in 1 .. l + 1 : x # k + 1 => e[x] # n
      BY <1>10, <2>1
    <3>1. CASE i = k + 1 \/ j = k + 1
      BY <1>7, <2>3, <3>0, <3>1
    <3>2. CASE i # k + 1 /\ j # k + 1
      <4>1. ASSUME NEW x \in 1 .. l + 1, x # k + 1
            PROVE  \E y \in 1 .. l : e[x] = r[y] /\ x = IF y <= k THEN y ELSE y + 1
        <5>1. CASE x <= k
          <6>1. x \in 1 .. l /\ e[x] = r[x]
            BY <1>10, <4>1, <5>1
          <6> QED BY <5>1, <6>1
        <5>2. CASE x > k
          <6>1. x - 1 \in 1 .. l /\ e[x] = r[x - 1]
            BY <1>10, <4>1, <5>2
          <6>2. x = IF x - 1 <= k THEN x - 1 ELSE (x - 1) + 1
            BY <4>1, <5>2
          <6> QED BY <6>1, <6>2
        <5> QED BY <5>1, <5>2
      <4>2. PICK y \in 1 .. l : e[i] = r[y] /\ i = IF y <= k THEN y ELSE y + 1
        BY <3>2, <4>1
      <4>3. PICK z \in 1 .. l : e[j] = r[z] /\ j = IF z <= k THEN z ELSE z + 1
        BY <3>2, <4>1
      <4>4. y = z
        BY <2>2, <2>3, <4>2, <4>3
      <4> QED BY <4>2, <4>3, <4>4
    <3> QED BY <3>1, <3>2
  <2> QED BY <1>5, <2>3 DEF IsInjective
<1> HIDE DEF R, E
<1> QED BY <1>1, <1>2, <1>d, <1>11, <1>12, <1>13

LEMMA FramesType == ASSUME NEW file \in FileSet PROVE FramesIn(file) \in Seq(Nat)
<1>1. file.blocks \in Seq(BlockSet) /\ file.idr \in Seq(Nat)
  BY Zenon DEF FileSet
<1>2. FramesOf(file.blocks) \in Seq(Seq(Nat))
  BY <1>1, Zenon, BlockFrames
<1>3. FlattenSeq(FramesOf(file.blocks)) \in Seq(Nat)
  BY <1>2, FlattenType
<1> QED BY <1>1, <1>3 DEF FramesIn, FramesOf

\* A new file has no frames.
LEMMA NewFileFrames ==
  ASSUME NEW h, NEW b
  PROVE  FramesIn(NewFile(h, b)) = <<>> /\ NewFile(h, b).blocks = <<>> /\ NewFile(h, b).idr = <<>>
<1>1. NewFile(h, b).blocks = <<>> /\ NewFile(h, b).idr = <<>>
  BY DEF NewFile
<1>2. FlattenSeq([c \in DOMAIN <<>> |-> <<>>[c].frames]) = <<>>
  BY DEF FlattenSeq
<1> QED BY <1>1, <1>2 DEF FramesIn

\* A new last frame, in a block or held back.
LEMMA LastFrame ==
  ASSUME NEW s \in Seq(Nat), NEW n \in Nat
  PROVE  /\ Range(Append(s, n)) = Range(s) \cup {n}
         /\ IsInjective(s) /\ n \notin Range(s) => IsInjective(Append(s, n))
<1>1. (s \o <<n>>) \o <<>> = Append(s, n) /\ s \o <<>> = s /\ <<>> \in Seq(Nat)
  OBVIOUS
<1>2. /\ Range((s \o <<n>>) \o <<>>) = Range(s \o <<>>) \cup {n}
      /\ IsInjective(s \o <<>>) /\ n \notin Range(s \o <<>>) => IsInjective((s \o <<n>>) \o <<>>)
  BY <1>1, RangeOfThree, Zenon
<1> QED BY <1>1, <1>2

\* A picture that is written, and one that is held back.
LEMMA VideoGains ==
  ASSUME NEW file \in FileSet, NEW n \in Nat, NEW f \in Frame, IsVideo(f), NEW at \in Nat
  PROVE  Gains(VideoWritten(file, n, f, at), file, n, f.kind)
<1> DEFINE new == VideoWritten(file, n, f, at)
           flat == FlattenSeq(FramesOf(file.blocks))
           held == Block(file.idr, at, TRUE)
           last == Block(<<n>>, at, FALSE)
<1>1. /\ file.idr \in Seq(Nat) /\ file.blocks \in Seq(BlockSet) /\ <<n>> \in Seq(Nat)
      /\ FramesIn(file) \in Seq(Nat)
  <2>1. file.idr \in Seq(Nat) /\ file.blocks \in Seq(BlockSet)
    BY Zenon DEF FileSet
  <2>2. <<n>> \in Seq(Nat)
    OBVIOUS
  <2> QED BY <2>1, <2>2, FramesType, Zenon
<1>2. flat \in Seq(Nat) /\ FramesIn(file) = flat \o file.idr
  BY <1>1, FlattenType, BlockFrames DEF FramesIn, FramesOf
<1>3. FramesIn(new) = Append(FramesIn(file), n)
  <2>1. CASE f.kind = "idr"
    <3>1. new.blocks = file.blocks /\ new.idr = Append(file.idr, n)
      BY <2>1 DEF VideoWritten, FileSet
    <3>2. FramesIn(new) = flat \o Append(file.idr, n)
      BY <3>1 DEF FramesIn, FramesOf
    <3>3. \A u, v \in Seq(Nat) : u \o Append(v, n) = Append(u \o v, n)
      OBVIOUS
    <3> HIDE DEF flat, new
    <3> QED BY <1>1, <1>2, <3>2, <3>3
  <2>2. CASE f.kind # "idr"
    <3>1. held \in BlockSet /\ held.frames = file.idr /\ last \in BlockSet /\ last.frames = <<n>>
      BY <1>1 DEF Block, BlockSet
    <3>2. /\ new.idr = <<>>
          /\ new.blocks = file.blocks \o (IF file.idr = <<>> THEN <<>> ELSE <<held>>) \o <<last>>
      BY <2>2 DEF VideoWritten, FileSet
    <3> HIDE DEF held, last
    <3>3. FlattenSeq(FramesOf(new.blocks)) = (flat \o file.idr) \o <<n>>
      <4>1. CASE file.idr = <<>>
        <5>1. new.blocks = Append(file.blocks, last)
          BY <1>1, <3>1, <3>2, <4>1
        <5>2. FlattenSeq(FramesOf(new.blocks)) = flat \o <<n>>
          BY <1>1, <3>1, <5>1, MoreFrames
        <5>3. flat \o file.idr = flat
          <6> HIDE DEF flat
          <6> QED BY <1>2, <4>1
        <5> QED BY <5>2, <5>3
      <4>2. CASE file.idr # <<>>
        <5>1. /\ new.blocks = Append(Append(file.blocks, held), last)
              /\ Append(file.blocks, held) \in Seq(BlockSet)
          <6>1. \A u \in Seq(BlockSet), v, w \in BlockSet :
                  u \o <<v>> \o <<w>> = Append(Append(u, v), w) /\ Append(u, v) \in Seq(BlockSet)
            OBVIOUS
          <6> QED BY <1>1, <3>1, <3>2, <4>2, <6>1
        <5>2. FlattenSeq(FramesOf(Append(file.blocks, held))) = flat \o file.idr
          BY <1>1, <3>1, MoreFrames
        <5>3. FlattenSeq(FramesOf(new.blocks))
                = FlattenSeq(FramesOf(Append(file.blocks, held))) \o <<n>>
          BY <3>1, <5>1, MoreFrames
        <5> QED BY <5>2, <5>3
      <4> QED BY <4>1, <4>2
    <3>4. FramesIn(new) = ((flat \o file.idr) \o <<n>>) \o <<>>
      BY <3>2, <3>3 DEF FramesIn, FramesOf
    <3> HIDE DEF flat, new
    <3> QED BY <1>1, <1>2, <3>4
  <2> QED BY <2>1, <2>2
<1>4. new.hevc = file.hevc /\ new.idr = IF f.kind = "idr" THEN Append(file.idr, n) ELSE <<>>
  BY DEF VideoWritten, FileSet
<1>5. f.kind # "audio"
  BY DEF IsVideo
<1> HIDE DEF new
<1>6. /\ Range(FramesIn(new)) = Range(FramesIn(file)) \cup {n}
      /\ IsInjective(FramesIn(file)) /\ n \notin Range(FramesIn(file)) => IsInjective(FramesIn(new))
  BY <1>1, <1>3, LastFrame
<1> QED BY <1>4, <1>5, <1>6 DEF Gains, NumbersIn, new

LEMMA AudioGains ==
  ASSUME NEW file \in FileSet, NEW n \in Nat, NEW at \in Nat
  PROVE  Gains(AudioWritten(file, n, at), file, n, "audio")
<1> DEFINE new == AudioWritten(file, n, at)
           flat == FlattenSeq(FramesOf(file.blocks))
           last == Block(<<n>>, at, TRUE)
<1>1. file.idr \in Seq(Nat) /\ file.blocks \in Seq(BlockSet) /\ <<n>> \in Seq(Nat)
  <2>1. file.idr \in Seq(Nat) /\ file.blocks \in Seq(BlockSet)
    BY Zenon DEF FileSet
  <2>2. <<n>> \in Seq(Nat)
    OBVIOUS
  <2> QED BY <2>1, <2>2
<1>2. flat \in Seq(Nat) /\ FramesIn(file) = flat \o file.idr
  BY <1>1, FlattenType, BlockFrames DEF FramesIn, FramesOf
<1>3. last \in BlockSet /\ last.frames = <<n>>
  BY <1>1 DEF Block, BlockSet
<1>4. new.blocks = Append(file.blocks, last) /\ new.idr = file.idr /\ new.hevc = file.hevc
  BY DEF AudioWritten, FileSet
<1> HIDE DEF last, new
<1>5. FlattenSeq(FramesOf(new.blocks)) = flat \o <<n>>
  BY <1>1, <1>3, <1>4, MoreFrames
<1>6. FramesIn(new) = (flat \o <<n>>) \o file.idr
  BY <1>4, <1>5 DEF FramesIn, FramesOf
<1> HIDE DEF flat
<1>7. /\ Range(FramesIn(new)) = Range(FramesIn(file)) \cup {n}
      /\ IsInjective(FramesIn(file)) /\ n \notin Range(FramesIn(file)) => IsInjective(FramesIn(new))
  BY <1>1, <1>2, <1>6, RangeOfThree
<1>8. new.idr = IF "audio" = "idr" THEN Append(file.idr, n)
                ELSE IF "audio" = "audio" THEN file.idr ELSE <<>>
  BY <1>4
<1> QED BY <1>4, <1>7, <1>8 DEF Gains, NumbersIn, new

Keeps(new, file) ==
  /\ FramesIn(new) = FramesIn(file) /\ new.blocks = file.blocks /\ new.idr = file.idr
  /\ new.hevc = file.hevc /\ new.base = file.base

IsNew(file, hevc) ==
  FramesIn(file) = <<>> /\ file.blocks = <<>> /\ file.idr = <<>> /\ file.hevc = hevc

\* The files that a step of writeFrame writes to: those there are, and new ones.
Extends(fs, f) ==
  /\ fs \in Seq(FileSet) /\ Len(fs) >= Len(files)
  /\ \A i \in 1 .. Len(fs) :
       IF i <= Len(files) THEN Keeps(fs[i], files[i]) ELSE IsNew(fs[i], SawHevc(f))

CurrentIsLast == mkv = 0 \/ mkv = Len(files)

LEMMA OpenedExtends ==
  ASSUME FilesInv, CurrentIsLast, NEW f \in NextFrames, Handed(f)
  PROVE  Extends(Opened(f), f) /\ Current(f) = Len(Opened(f)) /\ Current(f) \in 1 .. Len(Opened(f))
<1>1. /\ Opened(f) \in Seq(FileSet) /\ Current(f) \in 1 .. Len(Opened(f))
      /\ Len(files) <= Len(Opened(f)) /\ \A i \in DOMAIN files : Opened(f)[i] = files[i]
  BY OpenedFiles DEF Handed
<1>2. files \in Seq(FileSet)
  BY DEF FilesInv, Types
<1>3. CASE mkv = 0
  <2>1. Opened(f) = Append(files, NewFile(SawHevc(f), vPos)) /\ Current(f) = Len(files) + 1
    BY <1>3 DEF Opened, Current
  <2>2. IsNew(NewFile(SawHevc(f), vPos), SawHevc(f))
    <3>1. NewFile(SawHevc(f), vPos).hevc = SawHevc(f)
      BY DEF NewFile
    <3> QED BY <3>1, NewFileFrames DEF IsNew
  <2> QED BY <1>1, <1>2, <2>1, <2>2 DEF Extends, Keeps
<1>4. CASE mkv # 0
  <2>1. Opened(f) = files /\ Current(f) = Len(files)
    BY <1>4 DEF Opened, Current, CurrentIsLast
  <2> QED BY <1>1, <1>2, <2>1 DEF Extends, Keeps
<1> QED BY <1>3, <1>4

LEMMA ClosedKeeps == ASSUME NEW file \in FileSet PROVE Keeps(CloseCalled(file), file)
  BY ClosedFile DEF Keeps, FramesIn

\* A file whose Close is called keeps its frames.
LEMMA GivenUpExtends ==
  ASSUME NEW f, NEW fs, Extends(fs, f), NEW at \in 1 .. Len(fs)
  PROVE  Extends([fs EXCEPT ![at] = CloseCalled(fs[at])], f)
<1> DEFINE gs == [fs EXCEPT ![at] = CloseCalled(fs[at])]
<1>1. fs \in Seq(FileSet) /\ fs[at] \in FileSet
  BY DEF Extends
<1>2. CloseCalled(fs[at]) \in FileSet /\ Keeps(CloseCalled(fs[at]), fs[at])
  BY <1>1, ClosedFile, ClosedKeeps
<1>3. gs \in Seq(FileSet) /\ Len(gs) = Len(fs) /\ \A i \in 1 .. Len(fs) : Keeps(gs[i], fs[i])
  BY <1>1, <1>2 DEF Keeps
<1> HIDE DEF gs
<1>4. \A i \in 1 .. Len(gs) :
        IF i <= Len(files) THEN Keeps(gs[i], files[i]) ELSE IsNew(gs[i], SawHevc(f))
  BY <1>3 DEF Extends, Keeps, IsNew
<1>5. Extends(gs, f)
  BY <1>3, <1>4 DEF Extends
<1> QED BY <1>5 DEF gs

\* What a step of writeFrame does with the n-th frame.
Number == Len(handed) + 1
Refuses(fs) == files' = fs /\ mkv' = 0 /\ refused' = refused \cup {Number}
Skips(fs, f) ==
  /\ files' = fs /\ mkv' = Len(fs) /\ Len(fs) # 0 /\ refused' = refused
  /\ f.kind = "audio" /\ ~HasAudio
Stores(fs, f) ==
  /\ files' \in Seq(FileSet) /\ Len(files') = Len(fs)
  /\ mkv' = Len(fs) /\ Len(fs) # 0 /\ refused' = refused
  /\ IsVideo(f) \/ HasAudio
  /\ \A i \in 1 .. Len(fs) - 1 : files'[i] = fs[i]
  /\ Gains(files'[Len(fs)], fs[Len(fs)], Number, f.kind)

\* It goes on with the current file, opens the first, or another where a key frame
\* begins or none could be created.
GoesOn(f) == mkv' = 0 \/ mkv' = mkv \/ mkv' = 1 \/ IsKey(f) \/ (mkv = 0 /\ files # <<>>)

Effect(f) ==
  /\ handed' = Append(handed, f) /\ isHEVC' = SawHevc(f) /\ stopping' = stopping /\ ~stopping
  /\ GoesOn(f)
  /\ \E fs : Extends(fs, f) /\ (Refuses(fs) \/ Skips(fs, f) \/ Stores(fs, f))

LEMMA WriteEffect ==
  ASSUME FilesInv, CurrentIsLast, NEW f \in NextFrames, writeFrame(f)
  PROVE  Effect(f)
<1>1. /\ files \in Seq(FileSet) /\ Len(files) \in Nat /\ vPos \in Nat /\ vLast \in Nat /\ aPos \in Nat
      /\ isHEVC \in BOOLEAN /\ Len(handed) \in Nat /\ Number \in Nat /\ handed \in Seq(Frame)
  BY DEF FilesInv, Types, Number
<1>2. f \in Frame /\ (IsKey(f) => IsVideo(f)) /\ (~IsVideo(f) <=> f.kind = "audio")
  BY FrameTypes DEF IsKey, IsVideo
<1>3. Handed(f)
  BY DEF writeFrame, NoFile, RotationFails, Rotate, WriteVideo, WriteAudio
<1>4. /\ handed' = Append(handed, f) /\ isHEVC' = SawHevc(f) /\ stopping' = stopping /\ ~stopping
      /\ Len(handed') = Number
  BY <1>1, <1>3 DEF Handed, stopVars, Number
<1>5. PICK fs : fs = Opened(f)
  OBVIOUS
<1>6. /\ Extends(fs, f) /\ Current(f) = Len(fs) /\ Len(fs) \in 1 .. Len(fs)
      /\ fs \in Seq(FileSet) /\ fs[Len(fs)] \in FileSet /\ Len(fs) \in Nat
  <2>1. Extends(fs, f) /\ Current(f) = Len(fs) /\ Len(fs) \in 1 .. Len(fs)
    BY <1>3, <1>5, OpenedExtends
  <2> QED BY <2>1 DEF Extends
<1>7. PICK gs : gs = [fs EXCEPT ![Len(fs)] = CloseCalled(fs[Len(fs)])]
  OBVIOUS
<1>8. Extends(gs, f)
  BY <1>6, <1>7, GivenUpExtends
<1>9. Current(f) = mkv \/ Current(f) = 1 \/ (mkv = 0 /\ files # <<>>)
  BY <1>1 DEF Current
<1>10. CASE NoFile(f)
  <2>1. files' = files /\ mkv' = 0 /\ refused' = refused \cup {Number}
    BY <1>10 DEF NoFile, CreationFails, Number
  <2>2. Extends(files, f)
    BY <1>1 DEF Extends, Keeps
  <2> QED BY <1>4, <2>1, <2>2 DEF Effect, Refuses, GoesOn
<1>11. CASE RotationFails(f)
  <2>1. files' = gs /\ mkv' = 0 /\ refused' = refused \cup {Number}
    BY <1>5, <1>6, <1>7, <1>11 DEF RotationFails, CreationFails, Number
  <2> QED BY <1>4, <1>8, <2>1 DEF Effect, Refuses, GoesOn
<1>12. CASE Rotate(f)
  <2>1. PICK new : new = NewFile(SawHevc(f), 0)
    OBVIOUS
  <2>2. IsKey(f) /\ files' = Append(gs, VideoWritten(new, Number, f, 0)) /\ mkv' = Len(files') /\ refused' = refused
    BY <1>4, <1>5, <1>6, <1>7, <1>12, <2>1 DEF Rotate, NeedsRotation
  <2>3. new \in FileSet /\ IsNew(new, SawHevc(f))
    <3>1. SawHevc(f) \in BOOLEAN
      BY <1>1, SawHevcType
    <3>2. new.hevc = SawHevc(f)
      BY <2>1 DEF NewFile
    <3> QED BY <2>1, <3>1, <3>2, NewFileType, NewFileFrames DEF IsNew
  <2>4. PICK hs : hs = Append(gs, new)
    OBVIOUS
  <2>5. gs \in Seq(FileSet) /\ Len(gs) \in Nat /\ Len(gs) >= Len(files)
    BY <1>8 DEF Extends
  <2>6. hs \in Seq(FileSet) /\ Len(hs) = Len(gs) + 1 /\ hs[Len(gs) + 1] = new /\ \A i \in 1 .. Len(gs) : hs[i] = gs[i]
    BY <2>3, <2>4, <2>5
  <2>7. Extends(hs, f)
    <3>1. ASSUME NEW i \in 1 .. Len(hs)
          PROVE  IF i <= Len(files) THEN Keeps(hs[i], files[i]) ELSE IsNew(hs[i], SawHevc(f))
      <4>1. CASE i \in 1 .. Len(gs)
        BY <1>8, <2>6, <4>1 DEF Extends
      <4>2. CASE i = Len(gs) + 1
        BY <1>1, <2>3, <2>5, <2>6, <4>2
      <4> QED BY <2>5, <2>6, <4>1, <4>2
    <3>2. Len(hs) >= Len(files)
      BY <1>1, <2>5, <2>6
    <3> QED BY <2>6, <3>1, <3>2 DEF Extends
  <2>8. PICK w : w = VideoWritten(new, Number, f, 0)
    OBVIOUS
  <2>9. w \in FileSet /\ Gains(w, new, Number, f.kind)
    <3>1. 0 \in Nat
      OBVIOUS
    <3>2. w \in FileSet
      BY <1>1, <1>2, <2>3, <2>8, <3>1, WrittenFile
    <3> QED BY <1>1, <1>2, <2>2, <2>3, <2>8, <3>1, <3>2, VideoGains
  <2>10. files' \in Seq(FileSet) /\ Len(files') = Len(hs) /\ files'[Len(hs)] = w
         /\ \A i \in 1 .. Len(hs) - 1 : files'[i] = hs[i]
    BY <2>2, <2>5, <2>6, <2>8, <2>9
  <2>11. Stores(hs, f)
    <3>1. Len(hs) # 0 /\ hs[Len(hs)] = new /\ mkv' = Len(hs)
      BY <2>2, <2>5, <2>6, <2>10
    <3> QED BY <1>2, <2>2, <2>9, <2>10, <3>1 DEF Stores
  <2> QED BY <1>4, <2>2, <2>7, <2>11 DEF Effect, GoesOn
<1>13. ASSUME mkv' = Current(f), refused' = refused, IsVideo(f) \/ HasAudio,
              NEW new \in FileSet, Gains(new, fs[Len(fs)], Number, f.kind),
              files' = [fs EXCEPT ![Len(fs)] = new]
       PROVE  Effect(f)
  <2>1. files' \in Seq(FileSet) /\ Len(files') = Len(fs) /\ files'[Len(fs)] = new
        /\ \A i \in 1 .. Len(fs) - 1 : files'[i] = fs[i]
    BY <1>6, <1>13
  <2>2. Stores(fs, f)
    <3>1. Len(fs) # 0 /\ mkv' = Len(fs)
      BY <1>6, <1>13
    <3> QED BY <1>13, <2>1, <3>1 DEF Stores
  <2>3. GoesOn(f)
    BY <1>9, <1>13 DEF GoesOn
  <2> QED BY <1>4, <1>6, <2>2, <2>3 DEF Effect
<1>14. CASE WriteVideo(f)
  <2>1. PICK w : w = VideoWritten(fs[Len(fs)], Number, f, vPos)
    OBVIOUS
  <2>2. w \in FileSet /\ Gains(w, fs[Len(fs)], Number, f.kind)
    <3>1. w \in FileSet
      BY <1>1, <1>2, <1>6, <2>1, WrittenFile
    <3>2. IsVideo(f)
      BY <1>14 DEF WriteVideo
    <3> QED BY <1>1, <1>2, <1>6, <2>1, <3>1, <3>2, VideoGains
  <2>3. /\ mkv' = Current(f) /\ refused' = refused /\ IsVideo(f)
        /\ files' = [fs EXCEPT ![Len(fs)] = w]
    BY <1>4, <1>5, <1>6, <1>14, <2>1 DEF WriteVideo
  <2> QED BY <1>13, <2>2, <2>3
<1>15. CASE WriteAudio(f)
  <2>1. mkv' = Current(f) /\ refused' = refused /\ f.kind = "audio"
    BY <1>15 DEF WriteAudio
  <2>2. CASE HasAudio
    <3>1. PICK w : w = AudioWritten(fs[Len(fs)], Number, AudioStart)
      OBVIOUS
    <3>2. AudioStart \in Nat
      BY <1>1 DEF AudioStart
    <3>3. w \in FileSet /\ Gains(w, fs[Len(fs)], Number, f.kind)
      <4>1. w \in FileSet
        BY <1>1, <1>2, <1>6, <3>1, <3>2, WrittenFile
      <4> QED BY <1>1, <1>6, <2>1, <3>1, <3>2, <4>1, AudioGains
    <3>4. files' = [fs EXCEPT ![Len(fs)] = w]
      BY <1>4, <1>5, <1>6, <1>15, <2>2, <3>1 DEF WriteAudio
    <3> QED BY <1>13, <2>1, <2>2, <3>3, <3>4
  <2>3. CASE ~HasAudio
    <3>1. files' = fs
      BY <1>5, <1>15, <2>3 DEF WriteAudio
    <3>2. Skips(fs, f)
      BY <1>6, <2>1, <2>3, <3>1 DEF Skips
    <3>3. GoesOn(f)
      BY <1>9, <2>1 DEF GoesOn
    <3> QED BY <1>4, <1>6, <3>2, <3>3 DEF Effect
  <2> QED BY <2>2, <2>3
<1> QED BY <1>10, <1>11, <1>12, <1>14, <1>15 DEF writeFrame

\* EveryFrameIsInOneFile, of any files, frames handed over and refused.
NumbersAll(fs) == UNION {NumbersIn(fs[i]) : i \in 1 .. Len(fs)}
Expected(hs, rs) == {n \in 1 .. Len(hs) : IsVideo(hs[n]) \/ HasAudio} \ rs
InOrder(fs) ==
  \A i, j \in 1 .. Len(fs) : i < j => \A m \in NumbersIn(fs[i]), n \in NumbersIn(fs[j]) : m < n
HeldBack(file, hs) ==
  \A n \in Range(file.idr) :
    /\ n \in NumbersIn(file) /\ hs[n].kind = "idr"
    /\ \A m \in NumbersIn(file) : IsVideo(hs[m]) /\ m > n => m \in Range(file.idr)

AllPlaced(fs, hs, rs) ==
  /\ NumbersAll(fs) = Expected(hs, rs) /\ InOrder(fs)
  /\ \A i \in 1 .. Len(fs) : IsInjective(FramesIn(fs[i])) /\ HeldBack(fs[i], hs)

LEMMA PlacedIsProperty ==
  ASSUME FilesInv, AllPlaced(files, handed, refused)
  PROVE  EveryFrameIsInOneFile
<1>1. DOMAIN files = 1 .. Len(files) /\ DOMAIN handed = 1 .. Len(handed)
  BY DEF FilesInv, Types
<1>2. FramesAreInOneFile
  BY <1>1 DEF AllPlaced, NumbersAll, Expected, InOrder, FramesAreInOneFile, Wanted
<1>3. OnlyTrailingKeyframesAreLost
  BY <1>1 DEF AllPlaced, HeldBack, OnlyTrailingKeyframesAreLost, PicturesIn
<1> QED BY <1>2, <1>3 DEF EveryFrameIsInOneFile

Grows(gs, fs) ==
  /\ Len(gs) \in Nat /\ Len(fs) \in Nat /\ Len(gs) >= Len(fs)
  /\ \A i \in 1 .. Len(gs) :
       IF i <= Len(fs) THEN Keeps(gs[i], fs[i]) ELSE FramesIn(gs[i]) = <<>> /\ gs[i].idr = <<>>

LEMMA GrowsPlaced ==
  ASSUME NEW fs, NEW gs, NEW hs, NEW rs, Grows(gs, fs), AllPlaced(fs, hs, rs)
  PROVE  AllPlaced(gs, hs, rs)
<1>0. Len(gs) \in Nat /\ Len(fs) \in Nat /\ Len(gs) >= Len(fs)
  BY DEF Grows
<1>1. \A i \in 1 .. Len(gs) :
        \/ i \in 1 .. Len(fs) /\ FramesIn(gs[i]) = FramesIn(fs[i]) /\ gs[i].idr = fs[i].idr
           /\ NumbersIn(gs[i]) = NumbersIn(fs[i])
        \/ FramesIn(gs[i]) = <<>> /\ gs[i].idr = <<>> /\ NumbersIn(gs[i]) = {}
  <2> SUFFICES ASSUME NEW i \in 1 .. Len(gs)
               PROVE  \/ i \in 1 .. Len(fs) /\ FramesIn(gs[i]) = FramesIn(fs[i]) /\ gs[i].idr = fs[i].idr
                         /\ NumbersIn(gs[i]) = NumbersIn(fs[i])
                      \/ FramesIn(gs[i]) = <<>> /\ gs[i].idr = <<>> /\ NumbersIn(gs[i]) = {}
    OBVIOUS
  <2>1. Range(<<>>) = {}
    BY DEF Range
  <2>2. CASE i <= Len(fs)
    <3>1. i \in 1 .. Len(fs) /\ Keeps(gs[i], fs[i])
      BY <1>0, <2>2 DEF Grows
    <3> QED BY <3>1 DEF Keeps, NumbersIn
  <2>3. CASE ~(i <= Len(fs))
    <3>1. FramesIn(gs[i]) = <<>> /\ gs[i].idr = <<>>
      BY <2>3 DEF Grows
    <3> QED BY <2>1, <3>1 DEF NumbersIn
  <2> QED BY <2>2, <2>3
<1>2. \A i \in 1 .. Len(fs) : i \in 1 .. Len(gs) /\ NumbersIn(gs[i]) = NumbersIn(fs[i])
  <2> SUFFICES ASSUME NEW i \in 1 .. Len(fs)
               PROVE  i \in 1 .. Len(gs) /\ NumbersIn(gs[i]) = NumbersIn(fs[i])
    OBVIOUS
  <2>1. i \in 1 .. Len(gs) /\ i <= Len(fs)
    BY <1>0
  <2> QED BY <2>1 DEF Grows, Keeps, NumbersIn
<1>3. NumbersAll(gs) = NumbersAll(fs)
  <2>1. \A n \in NumbersAll(gs) : n \in NumbersAll(fs)
    BY <1>1 DEF NumbersAll
  <2>2. \A n \in NumbersAll(fs) : n \in NumbersAll(gs)
    BY <1>2 DEF NumbersAll
  <2> QED BY <2>1, <2>2
<1>4. InOrder(gs)
  BY <1>1 DEF AllPlaced, InOrder
<1>5. IsInjective(<<>>) /\ Range(<<>>) = {}
  BY DEF IsInjective, Range
<1>6. ASSUME NEW i \in 1 .. Len(gs) PROVE IsInjective(FramesIn(gs[i])) /\ HeldBack(gs[i], hs)
  BY <1>1, <1>5 DEF AllPlaced, HeldBack
<1> QED BY <1>3, <1>4, <1>6 DEF AllPlaced

\* A frame that is in no file, being refused or not wanted.
LEMMA NoFramePlaced ==
  ASSUME NEW fs, NEW hs \in Seq(Frame), NEW f \in Frame, NEW rs, NEW rt, AllPlaced(fs, hs, rs),
         rt \in {rs, rs \cup {Len(hs) + 1}},
         Len(hs) + 1 \in rt \/ ~(IsVideo(f) \/ HasAudio)
  PROVE  AllPlaced(fs, Append(hs, f), rt)
<1>1. PICK gs \in Seq(Frame) : gs = Append(hs, f)
  <2>1. Append(hs, f) \in Seq(Frame)
    OBVIOUS
  <2> QED BY <2>1, Zenon
<1>2. Len(hs) \in Nat /\ Len(gs) = Len(hs) + 1 /\ gs[Len(hs) + 1] = f /\ \A n \in 1 .. Len(hs) : gs[n] = hs[n]
  BY <1>1
<1>3. Expected(gs, rt) = Expected(hs, rs)
  <2>1. ASSUME NEW n \in Expected(gs, rt) PROVE n \in Expected(hs, rs)
    BY <1>2 DEF Expected
  <2>2. ASSUME NEW n \in Expected(hs, rs) PROVE n \in Expected(gs, rt)
    BY <1>2 DEF Expected
  <2> QED BY <2>1, <2>2
<1>4. ASSUME NEW i \in 1 .. Len(fs) PROVE HeldBack(fs[i], gs)
  <2>1. NumbersIn(fs[i]) \subseteq 1 .. Len(hs)
    BY DEF AllPlaced, NumbersAll, Expected
  <2> QED BY <1>2, <2>1 DEF AllPlaced, HeldBack
<1>5. AllPlaced(fs, gs, rt)
  BY <1>3, <1>4 DEF AllPlaced
<1> QED BY <1>1, <1>5

\* A frame that is stored in the last file.
LEMMA StoredFramePlaced ==
  ASSUME NEW fs, NEW gs, NEW hs \in Seq(Frame), NEW f \in Frame, NEW rs, AllPlaced(fs, hs, rs),
         rs \subseteq 1 .. Len(hs), NEW l \in Nat \ {0}, Len(fs) = l, Len(gs) = l,
         \A i \in 1 .. l - 1 : gs[i] = fs[i],
         fs[l] \in FileSet, gs[l] \in FileSet, Gains(gs[l], fs[l], Len(hs) + 1, f.kind),
         IsVideo(f) \/ HasAudio
  PROVE  AllPlaced(gs, Append(hs, f), rs)
<1>1. PICK ks \in Seq(Frame) : ks = Append(hs, f)
  <2>1. Append(hs, f) \in Seq(Frame)
    OBVIOUS
  <2> QED BY <2>1, Zenon
<1>2. PICK N \in Nat : N = Len(hs) + 1
  OBVIOUS
<1>3. Len(ks) = N /\ ks[N] = f /\ \A n \in 1 .. N - 1 : ks[n] = hs[n]
  BY <1>1, <1>2
<1>4. \A i \in 1 .. l : NumbersIn(fs[i]) \subseteq 1 .. N - 1
  BY <1>2 DEF AllPlaced, NumbersAll, Expected
<1>5. \A i \in 1 .. l : i # l => gs[i] = fs[i]
  OBVIOUS
<1>6. NumbersIn(gs[l]) = NumbersIn(fs[l]) \cup {N}
  BY <1>2 DEF Gains
<1>7. NumbersAll(gs) = NumbersAll(fs) \cup {N}
  <2>1. ASSUME NEW i \in 1 .. l PROVE NumbersIn(gs[i]) \subseteq NumbersAll(fs) \cup {N}
    BY <1>5, <1>6 DEF NumbersAll
  <2>2. ASSUME NEW i \in 1 .. l PROVE NumbersIn(fs[i]) \subseteq NumbersAll(gs)
    BY <1>5, <1>6 DEF NumbersAll
  <2>3. N \in NumbersAll(gs)
    BY <1>6 DEF NumbersAll
  <2>4. NumbersAll(gs) \subseteq NumbersAll(fs) \cup {N}
    BY <2>1 DEF NumbersAll
  <2>5. NumbersAll(fs) \subseteq NumbersAll(gs)
    BY <2>2 DEF NumbersAll
  <2> QED BY <2>3, <2>4, <2>5
<1>8. Expected(ks, rs) = Expected(hs, rs) \cup {N}
  <2>1. N \in Expected(ks, rs)
    <3>1. N \in 1 .. Len(ks) /\ N \notin rs
      BY <1>2, <1>3
    <3> QED BY <1>3, <3>1 DEF Expected
  <2>2. ASSUME NEW n \in 1 .. N - 1 PROVE n \in Expected(ks, rs) <=> n \in Expected(hs, rs)
    BY <1>2, <1>3 DEF Expected
  <2>3. \A n \in Expected(ks, rs) : n = N \/ n \in 1 .. N - 1
    BY <1>3 DEF Expected
  <2>4. \A n \in Expected(hs, rs) : n \in 1 .. N - 1
    BY <1>2 DEF Expected
  <2> QED BY <2>1, <2>2, <2>3, <2>4
<1>9. InOrder(gs)
  <2> SUFFICES ASSUME NEW i \in 1 .. l, NEW j \in 1 .. l, i < j,
                      NEW m \in NumbersIn(gs[i]), NEW n \in NumbersIn(gs[j])
               PROVE  m < n
    BY DEF InOrder
  <2>1. m \in NumbersIn(fs[i])
    BY <1>5
  <2>2. n \in NumbersIn(fs[j]) \/ n = N
    BY <1>5, <1>6
  <2>3. m \in 1 .. N - 1
    BY <1>4, <2>1
  <2> QED BY <2>1, <2>2, <2>3 DEF AllPlaced, InOrder
<1>10. ASSUME NEW i \in 1 .. l PROVE IsInjective(FramesIn(gs[i]))
  <2>1. CASE i # l
    BY <1>5, <2>1 DEF AllPlaced
  <2>2. CASE i = l
    <3>1. N \notin NumbersIn(fs[l])
      BY <1>4
    <3>2. IsInjective(FramesIn(fs[l]))
      BY DEF AllPlaced
    <3> QED BY <1>2, <2>2, <3>1, <3>2 DEF Gains
  <2> QED BY <2>1, <2>2
<1>11. ASSUME NEW i \in 1 .. l PROVE HeldBack(gs[i], ks)
  <2>1. HeldBack(fs[i], ks)
    BY <1>2, <1>3, <1>4 DEF AllPlaced, HeldBack
  <2>2. CASE i # l
    BY <1>5, <2>1, <2>2
  <2>3. CASE i = l
    <3>1. CASE f.kind = "idr"
      <4>1. fs[l].idr \in Seq(Nat)
        BY Zenon DEF FileSet
      <4>2. Range(gs[l].idr) = Range(fs[l].idr) \cup {N}
        <5>1. gs[l].idr = Append(fs[l].idr, N)
          BY <1>2, <3>1 DEF Gains
        <5> QED BY <4>1, <5>1, LastFrame
      <4>3. \A n \in Range(fs[l].idr) :
              /\ n \in NumbersIn(fs[l]) /\ ks[n].kind = "idr"
              /\ \A m \in NumbersIn(fs[l]) : IsVideo(ks[m]) /\ m > n => m \in Range(fs[l].idr)
        BY <2>1, <2>3 DEF HeldBack
      <4>4. \A m \in NumbersIn(gs[l]) : ~(m > N)
        BY <1>4, <1>6
      <4>5. ks[N].kind = "idr"
        BY <1>3, <3>1
      <4>6. ASSUME NEW n \in Range(gs[l].idr)
            PROVE  /\ n \in NumbersIn(gs[l]) /\ ks[n].kind = "idr"
                   /\ \A m \in NumbersIn(gs[l]) : IsVideo(ks[m]) /\ m > n => m \in Range(gs[l].idr)
        <5>1. CASE n = N
          BY <1>6, <4>4, <4>5, <5>1, Zenon
        <5>2. CASE n # N
          BY <1>6, <4>2, <4>3, <5>2, Zenon
        <5> QED BY <5>1, <5>2
      <4> QED BY <2>3, <4>6, Zenon DEF HeldBack
    <3>2. CASE f.kind = "audio"
      <4>1. gs[l].idr = fs[l].idr
        BY <3>2 DEF Gains
      <4>2. ~IsVideo(ks[N])
        BY <1>3, <3>2 DEF IsVideo
      <4> QED BY <1>6, <2>1, <2>3, <4>1, <4>2 DEF HeldBack
    <3>3. CASE f.kind # "idr" /\ f.kind # "audio"
      <4>1. gs[l].idr = <<>>
        BY <3>3 DEF Gains
      <4>2. Range(gs[l].idr) = {}
        BY <4>1 DEF Range
      <4> QED BY <2>3, <4>2 DEF HeldBack
    <3> QED BY <3>1, <3>2, <3>3
  <2> QED BY <2>2, <2>3
<1>12. NumbersAll(gs) = Expected(ks, rs)
  BY <1>7, <1>8 DEF AllPlaced
<1> QED BY <1>1, <1>9, <1>10, <1>11, <1>12 DEF AllPlaced

FramesInv == CurrentIsLast /\ refused \subseteq 1 .. Len(handed) /\ AllPlaced(files, handed, refused)

LEMMA FramesStep ==
  ASSUME FilesInv, FilesInv', FramesInv, NEW f \in NextFrames, Effect(f)
  PROVE  FramesInv'
<1>1. PICK fs : Extends(fs, f) /\ (Refuses(fs) \/ Skips(fs, f) \/ Stores(fs, f))
  BY DEF Effect
<1>2. /\ handed \in Seq(Frame) /\ f \in Frame /\ handed' = Append(handed, f) /\ Number = Len(handed) + 1
      /\ Len(handed) \in Nat /\ Len(handed') = Number
  BY FrameTypes DEF FilesInv, Types, Effect, Number
<1>3. fs \in Seq(FileSet) /\ files \in Seq(FileSet) /\ files' \in Seq(FileSet) /\ Len(fs) \in Nat
  BY <1>1 DEF Extends, FilesInv, Types
<1>4. Grows(fs, files)
  BY <1>1, <1>3 DEF Extends, Grows, IsNew
<1>5. AllPlaced(fs, handed, refused)
  BY <1>4, GrowsPlaced DEF FramesInv
<1>6. refused \subseteq 1 .. Len(handed)
  BY DEF FramesInv
<1>7. CASE Refuses(fs)
  <2>1. files' = fs /\ mkv' = 0 /\ refused' = refused \cup {Number}
    BY <1>7 DEF Refuses
  <2>2. AllPlaced(fs, handed', refused')
    <3>1. refused' \in {refused, refused \cup {Len(handed) + 1}} /\ Len(handed) + 1 \in refused'
      BY <1>2, <2>1
    <3> QED BY <1>2, <1>5, <2>1, <3>1, NoFramePlaced
  <2>3. refused' \subseteq 1 .. Len(handed')
    <3>1. 1 .. Len(handed) \subseteq 1 .. Number /\ Number \in 1 .. Number
      BY <1>2
    <3>2. Len(handed') = Number
      BY <1>2
    <3> QED BY <1>6, <2>1, <3>1, <3>2
  <2> QED BY <2>1, <2>2, <2>3 DEF FramesInv, CurrentIsLast
<1>8. CASE Skips(fs, f)
  <2>1. files' = fs /\ mkv' = Len(fs) /\ refused' = refused /\ ~(IsVideo(f) \/ HasAudio)
    BY <1>8 DEF Skips, IsVideo
  <2>2. AllPlaced(fs, handed', refused')
    <3>1. refused' \in {refused, refused \cup {Len(handed) + 1}}
      BY <2>1
    <3> QED BY <1>2, <1>5, <2>1, <3>1, NoFramePlaced
  <2>3. refused' \subseteq 1 .. Len(handed')
    BY <1>2, <1>6, <2>1
  <2> QED BY <2>1, <2>2, <2>3 DEF FramesInv, CurrentIsLast
<1>9. CASE Stores(fs, f)
  <2>1. /\ Len(files') = Len(fs) /\ mkv' = Len(fs) /\ Len(fs) # 0 /\ refused' = refused
        /\ IsVideo(f) \/ HasAudio
        /\ \A i \in 1 .. Len(fs) - 1 : files'[i] = fs[i]
        /\ Gains(files'[Len(fs)], fs[Len(fs)], Len(handed) + 1, f.kind)
    BY <1>2, <1>9 DEF Stores
  <2>2. PICK l \in Nat \ {0} : l = Len(fs)
    BY <1>3, <2>1
  <2>3. PICK gs \in Seq(FileSet) : gs = files'
    BY <1>3
  <2>4. fs[l] \in FileSet /\ gs[l] \in FileSet
    BY <1>3, <2>1, <2>2, <2>3
  <2>5. AllPlaced(gs, Append(handed, f), refused)
    BY <1>2, <1>5, <1>6, <2>1, <2>2, <2>3, <2>4, StoredFramePlaced
  <2>6. refused' \subseteq 1 .. Len(handed')
    BY <1>2, <1>6, <2>1
  <2> QED BY <1>2, <2>1, <2>3, <2>5, <2>6 DEF FramesInv, CurrentIsLast
<1> QED BY <1>1, <1>7, <1>8, <1>9

\* The goroutines that close files: they leave the frames alone.
LEMMA ClosingKeepsFrames ==
  ASSUME FilesInv, [Next]_vars, \A f \in NextFrames : ~writeFrame(f)
  PROVE  /\ Len(files') = Len(files) /\ \A i \in 1 .. Len(files) : Keeps(files'[i], files[i])
         /\ UNCHANGED <<handed, refused, isHEVC>>
         /\ mkv' = mkv \/ (mkv' = 0 /\ stopping')
         /\ stopping' = stopping \/ stopping'
<1>0. /\ files \in Seq(FileSet) /\ mkv \in 0 .. Len(files) /\ stopping \in BOOLEAN
      /\ \A i \in 1 .. Len(files) : files[i] \in FileSet
  BY DEF FilesInv, Types
<1> USE DEF Keeps, FramesIn, positions, stopVars
<1>1. ASSUME NEW i \in DOMAIN files, FileClosed(i)
      PROVE  /\ Len(files') = Len(files) /\ \A j \in 1 .. Len(files) : Keeps(files'[j], files[j])
             /\ UNCHANGED <<handed, refused, isHEVC, mkv, stopping>>
  <2>1. /\ files' = [files EXCEPT ![i] = [files[i] EXCEPT !.closed = TRUE]]
        /\ UNCHANGED <<handed, refused, isHEVC, mkv, stopping>>
    BY <1>1 DEF FileClosed
  <2>2. files[i] \in FileSet
    BY <1>0
  <2>3. PICK file : file = [files[i] EXCEPT !.closed = TRUE]
    OBVIOUS
  <2>4. /\ file.blocks = files[i].blocks /\ file.idr = files[i].idr
        /\ file.hevc = files[i].hevc /\ file.base = files[i].base
    BY <2>2, <2>3 DEF FileSet
  <2>5. Keeps(file, files[i])
    BY <2>4
  <2>6. \A j \in 1 .. Len(files) : files'[j] = IF j = i THEN file ELSE files[j]
    BY <1>0, <2>1, <2>3
  <2>7. Len(files') = Len(files)
    BY <1>0, <2>1
  <2> HIDE DEF FramesIn
  <2> QED BY <2>1, <2>5, <2>6, <2>7
<1>2. ASSUME NEW c \in Closers, Close(c)
      PROVE  /\ Len(files') = Len(files) /\ \A j \in 1 .. Len(files) : Keeps(files'[j], files[j])
             /\ UNCHANGED <<handed, refused, isHEVC, mkv, stopping>>
  <2>1. UNCHANGED <<handed, refused, isHEVC, mkv, stopping>>
    BY <1>2 DEF Close
  <2>2. CASE mkv = 0
    BY <1>2, <2>1, <2>2 DEF Close
  <2>3. CASE mkv # 0
    <3>1. mkv \in 1 .. Len(files) /\ files' = [files EXCEPT ![mkv] = CloseCalled(files[mkv])]
      BY <1>0, <1>2, <2>3 DEF Close
    <3>2. Keeps(CloseCalled(files[mkv]), files[mkv])
      BY <1>0, <3>1, ClosedKeeps
    <3>3. \A j \in 1 .. Len(files) : files'[j] = IF j = mkv THEN CloseCalled(files[mkv]) ELSE files[j]
      BY <1>0, <3>1
    <3>4. Len(files') = Len(files)
      BY <1>0, <3>1
    <3> HIDE DEF FramesIn
    <3> QED BY <2>1, <3>2, <3>3, <3>4
  <2> QED BY <2>2, <2>3
<1>3. ASSUME NEW c \in Closers, CloseReturns(c)
      PROVE  UNCHANGED <<files, handed, refused, isHEVC, stopping>> /\ mkv' = 0 /\ stopping
  <2>1. closeMutex = c /\ closeMutex # NoCloser
    BY <1>3, MKVWriterAssumption DEF CloseReturns, FilesInv, MutexIsHeldWhileClosing
  <2> QED BY <1>3, <2>1 DEF CloseReturns, FilesInv, MutexIsHeldWhileClosing
<1>4. CASE Stop
  BY <1>4 DEF Stop
<1>5. CASE UNCHANGED vars
  BY <1>5 DEF vars
<1> QED BY <1>1, <1>2, <1>3, <1>4, <1>5 DEF Next

LEMMA FramesInvariant == Spec => [](FilesInv /\ FramesInv)
<1>1. Init => FilesInv /\ FramesInv
  <2> SUFFICES ASSUME Init PROVE FramesInv
    BY FilesInit
  <2>1. files = <<>> /\ handed = <<>> /\ refused = {} /\ mkv = 0
    BY DEF Init
  <2>2. NumbersAll(files) = {} /\ Expected(handed, refused) = {}
    BY <2>1 DEF NumbersAll, Expected
  <2>3. Len(files) = 0 /\ Len(handed) = 0 /\ 1 .. 0 = {}
    BY <2>1
  <2>4. InOrder(files)
    BY <2>3 DEF InOrder
  <2>5. AllPlaced(files, handed, refused)
    BY <2>2, <2>3, <2>4 DEF AllPlaced
  <2> QED BY <2>1, <2>5 DEF FramesInv, CurrentIsLast
<1>2. FilesInv /\ FramesInv /\ [Next]_vars => FilesInv' /\ FramesInv'
  <2> SUFFICES ASSUME FilesInv, FramesInv, [Next]_vars PROVE FramesInv'
    BY FilesStepInv
  <2>0. FilesInv'
    BY FilesStepInv
  <2>1. CASE \E f \in NextFrames : writeFrame(f)
    <3>1. PICK f \in NextFrames : writeFrame(f)
      BY <2>1
    <3>2. Effect(f)
      BY <3>1, WriteEffect DEF FramesInv
    <3> QED BY <2>0, <3>2, FramesStep
  <2>2. CASE \A f \in NextFrames : ~writeFrame(f)
    <3>1. /\ Len(files') = Len(files) /\ \A i \in 1 .. Len(files) : Keeps(files'[i], files[i])
          /\ UNCHANGED <<handed, refused>> /\ mkv' \in {0, mkv}
      BY <2>2, ClosingKeepsFrames
    <3>2. PICK gs : gs = files'
      OBVIOUS
    <3>3. Len(files) \in Nat
      BY DEF FilesInv, Types
    <3>4. Grows(gs, files)
      BY <3>1, <3>2, <3>3 DEF Grows
    <3>5. AllPlaced(gs, handed, refused)
      BY <3>4, GrowsPlaced DEF FramesInv
    <3> QED BY <3>1, <3>2, <3>5 DEF FramesInv, CurrentIsLast
  <2> QED BY <2>1, <2>2
<1> QED BY <1>1, <1>2, PTL DEF Spec

\* Each frame that writeFrame took is in one file, once, the files follow each
\* other, and what a file holds back is a run of IDR pictures at its end
\* (mkvwriter.go, track_h264.go and track_h265.go), for any number of frames, any
\* failed creations and any chunkDuration.
THEOREM FramesAreFiled == Spec => []EveryFrameIsInOneFile
<1>1. FilesInv /\ FramesInv => EveryFrameIsInOneFile
  BY PlacedIsProperty DEF FramesInv
<1> QED BY <1>1, FramesInvariant, PTL

----------------------------------------------------------------------------
(* Where files begin *)

\* Frame k comes after one that was refused and others that are in no file.
AfterRefused(hs, rs, k) ==
  \E n \in rs : n < k /\ \A m \in n + 1 .. k - 1 : ~(IsVideo(hs[m]) \/ HasAudio)

Begins(file, hs, rs) ==
  NumbersIn(file) # {} =>
    \E first \in NumbersIn(file) :
      /\ \A m \in NumbersIn(file) : first <= m
      /\ IsKey(hs[first]) \/ AfterRefused(hs, rs, first)

Playable(fs, hs, rs) ==
  \A i \in 1 .. Len(fs) : fs[i].hevc = Hevc /\ (i > 1 => Begins(fs[i], hs, rs))

\* With no file there is nothing to be begun, or the last frame was refused; a
\* current file without frames waits for the first frame after one refused.
BeginInv ==
  /\ IF handed = <<>> THEN files = <<>> /\ isHEVC = FALSE ELSE isHEVC = Hevc
  /\ Playable(files, handed, refused)
  /\ ~stopping /\ mkv = 0 /\ files # <<>> => Len(handed) \in refused
  /\ ~stopping /\ mkv > 1 /\ NumbersIn(files[mkv]) = {} => AfterRefused(handed, refused, Number)

LEMMA PlayableIsProperty ==
  ASSUME FilesInv, FramesInv, Playable(files, handed, refused)
  PROVE  FilesCanBePlayed
<1>1. DOMAIN files = 1 .. Len(files) /\ DOMAIN handed = 1 .. Len(handed) /\ Len(handed) \in Nat
  BY DEF FilesInv, Types
<1>2. ASSUME NEW i \in DOMAIN files, i > 1, NumbersIn(files[i]) # {}
      PROVE  LET first == Min(NumbersIn(files[i]))
             IN  \/ IsKey(handed[first])
                 \/ \E n \in refused : n < first /\ \A m \in n + 1 .. first - 1 : ~Wanted(m)
  <2>1. Begins(files[i], handed, refused)
    BY <1>1, <1>2 DEF Playable
  <2>2. PICK first \in NumbersIn(files[i]) :
          /\ \A m \in NumbersIn(files[i]) : first <= m
          /\ IsKey(handed[first]) \/ AfterRefused(handed, refused, first)
    BY <1>2, <2>1 DEF Begins
  <2>3. NumbersIn(files[i]) \subseteq Nat
    <3>1. NumbersIn(files[i]) \subseteq NumbersAll(files)
      BY <1>1 DEF NumbersAll
    <3>2. NumbersAll(files) \subseteq 1 .. Len(handed)
      BY DEF FramesInv, AllPlaced, Expected
    <3> QED BY <1>1, <3>1, <3>2
  <2>4. first = Min(NumbersIn(files[i]))
    <3>1. PICK T : T = NumbersIn(files[i])
      OBVIOUS
    <3>2. T \subseteq Nat /\ first \in T /\ \A m \in T : first <= m
      BY <2>2, <2>3, <3>1
    <3>3. \A x \in T : (\A y \in T : x <= y) => x = first
      BY <3>2
    <3>4. first = Min(T)
      BY <3>2, <3>3 DEF Min
    <3> QED BY <3>1, <3>4
  <2> QED BY <2>2, <2>4 DEF AfterRefused, Wanted
<1>3. FilesBeginWithKeyframe
  BY <1>2 DEF FilesBeginWithKeyframe
<1> QED BY <1>1, <1>3 DEF FilesCanBePlayed, Playable

LEMMA AfterRefusedStays ==
  ASSUME NEW hs \in Seq(Frame), NEW f \in Frame, NEW rs, rs \subseteq 1 .. Len(hs), NEW rt, rs \subseteq rt,
         NEW k \in 1 .. Len(hs) + 1, AfterRefused(hs, rs, k)
  PROVE  AfterRefused(Append(hs, f), rt, k)
<1>1. PICK n \in rs : n < k /\ \A m \in n + 1 .. k - 1 : ~(IsVideo(hs[m]) \/ HasAudio)
  BY DEF AfterRefused
<1>2. \A m \in 1 .. Len(hs) : Append(hs, f)[m] = hs[m]
  OBVIOUS
<1>3. n \in rt /\ n + 1 .. k - 1 \subseteq 1 .. Len(hs)
  BY <1>1
<1> QED BY <1>1, <1>2, <1>3 DEF AfterRefused

\* Frames that are added, or refused, leave the beginnings of files alone.
LEMMA BeginsStays ==
  ASSUME NEW file, NEW hs \in Seq(Frame), NEW f \in Frame, NEW rs, rs \subseteq 1 .. Len(hs), NEW rt, rs \subseteq rt,
         NumbersIn(file) \subseteq 1 .. Len(hs), Begins(file, hs, rs)
  PROVE  Begins(file, Append(hs, f), rt)
<1> SUFFICES ASSUME NumbersIn(file) # {}
             PROVE  \E first \in NumbersIn(file) :
                      /\ \A m \in NumbersIn(file) : first <= m
                      /\ IsKey(Append(hs, f)[first]) \/ AfterRefused(Append(hs, f), rt, first)
  BY DEF Begins
<1>1. PICK first \in NumbersIn(file) :
        /\ \A m \in NumbersIn(file) : first <= m
        /\ IsKey(hs[first]) \/ AfterRefused(hs, rs, first)
  BY DEF Begins
<1>2. first \in 1 .. Len(hs) /\ first \in 1 .. Len(hs) + 1
  OBVIOUS
<1>3. Append(hs, f)[first] = hs[first]
  BY <1>2
<1>4. AfterRefused(hs, rs, first) => AfterRefused(Append(hs, f), rt, first)
  BY <1>2, AfterRefusedStays
<1> QED BY <1>1, <1>3, <1>4

LEMMA BeginStep ==
  ASSUME FilesInv, FilesInv', FramesInv, BeginInv, NEW f \in NextFrames, Effect(f)
  PROVE  BeginInv'
<1>1. PICK fs : Extends(fs, f) /\ (Refuses(fs) \/ Skips(fs, f) \/ Stores(fs, f))
  BY DEF Effect
<1>2. /\ handed \in Seq(Frame) /\ f \in Frame /\ handed' = Append(handed, f) /\ Number = Len(handed) + 1
      /\ Len(handed) \in Nat /\ Len(handed') = Number /\ handed' \in Seq(Frame) /\ handed' # <<>>
      /\ handed'[Number] = f /\ ~stopping /\ isHEVC' = SawHevc(f)
  BY FrameTypes DEF FilesInv, Types, Effect, Number
<1>3. PICK hs \in Seq(Frame) : hs = handed
  BY <1>2
<1>4. PICK ks \in Seq(Frame) : ks = handed'
  BY <1>2
<1>5. PICK N \in Nat : N = Number /\ N = Len(hs) + 1
  BY <1>2, <1>3
<1>6. ks = Append(hs, f) /\ ks[N] = f /\ Len(ks) = N
  BY <1>2, <1>3, <1>4, <1>5
<1>7. SawHevc(f) = Hevc
  <2>1. CASE handed = <<>>
    <3>1. IsVideo(f) /\ isHEVC = FALSE
      BY <2>1 DEF NextFrames, BeginInv
    <3> QED BY <3>1, MKVWriterAssumption, Zenon DEF SawHevc
  <2>2. CASE handed # <<>>
    <3>1. isHEVC = Hevc
      BY <2>2 DEF BeginInv
    <3> QED BY <3>1, MKVWriterAssumption, Zenon DEF SawHevc
  <2> QED BY <2>1, <2>2
<1>8. /\ files \in Seq(FileSet) /\ Len(files) \in Nat /\ fs \in Seq(FileSet) /\ Len(fs) \in Nat
      /\ Len(fs) >= Len(files)
  BY <1>1 DEF Extends, FilesInv, Types
<1>9. PICK rs : rs = refused
  OBVIOUS
<1>10. PICK rt : rt = refused'
  OBVIOUS
<1>11. rs \subseteq 1 .. Len(hs) /\ rs \subseteq rt
  <2>1. refused \subseteq 1 .. Len(handed)
    BY DEF FramesInv
  <2> QED BY <1>1, <1>3, <1>9, <1>10, <2>1 DEF Refuses, Skips, Stores
<1>12. ASSUME NEW i \in 1 .. Len(fs)
       PROVE  /\ fs[i].hevc = Hevc /\ NumbersIn(fs[i]) \subseteq 1 .. Len(hs)
              /\ i > 1 => Begins(fs[i], ks, rt)
  <2>1. CASE i \in 1 .. Len(files)
    <3>1. fs[i].hevc = files[i].hevc /\ NumbersIn(fs[i]) = NumbersIn(files[i])
      BY <1>1, <2>1 DEF Extends, Keeps, NumbersIn
    <3>2. files[i].hevc = Hevc /\ (i > 1 => Begins(files[i], hs, rs))
      BY <1>3, <1>9, <2>1 DEF BeginInv, Playable
    <3>3. NumbersIn(files[i]) \subseteq 1 .. Len(hs)
      <4>1. NumbersIn(files[i]) \subseteq NumbersAll(files)
        BY <2>1 DEF NumbersAll
      <4>2. NumbersAll(files) \subseteq 1 .. Len(handed)
        BY DEF FramesInv, AllPlaced, Expected
      <4> QED BY <1>3, <4>1, <4>2
    <3>4. Begins(fs[i], hs, rs) <=> Begins(files[i], hs, rs)
      BY <3>1 DEF Begins
    <3>5. i > 1 => Begins(fs[i], ks, rt)
      <4> SUFFICES ASSUME i > 1 PROVE Begins(fs[i], ks, rt)
        OBVIOUS
      <4>1. Begins(fs[i], hs, rs) /\ NumbersIn(fs[i]) \subseteq 1 .. Len(hs)
        BY <3>1, <3>2, <3>3, <3>4
      <4>2. Begins(fs[i], Append(hs, f), rt)
        BY <1>2, <1>11, <4>1, BeginsStays, Zenon
      <4> QED BY <1>6, <4>2, Zenon
    <3> QED BY <3>1, <3>2, <3>3, <3>5
  <2>2. CASE i \notin 1 .. Len(files)
    <3>1. FramesIn(fs[i]) = <<>> /\ fs[i].hevc = SawHevc(f)
      BY <1>1, <1>8, <2>2 DEF Extends, IsNew
    <3>2. NumbersIn(fs[i]) = {}
      BY <3>1 DEF NumbersIn, Range
    <3> QED BY <1>7, <3>1, <3>2 DEF Begins
  <2> QED BY <2>1, <2>2
\* A file without frames that is not the first is there for a key frame, or after
\* a refused frame.
<1>13. ASSUME NEW l \in Nat, l = Len(fs), mkv' = l, l > 1, NumbersIn(fs[l]) = {}, refused' = refused
       PROVE  IsKey(f) \/ AfterRefused(ks, rt, N)
  <2>1. GoesOn(f)
    BY DEF Effect
  <2>2. CASE mkv' = mkv
    <3>1. l \in 1 .. Len(files) /\ mkv = l
      BY <1>8, <1>13, <2>2 DEF FilesInv, Types
    <3>2. NumbersIn(files[mkv]) = {}
      BY <1>1, <1>13, <3>1 DEF Extends, Keeps, NumbersIn
    <3>3. AfterRefused(hs, rs, N)
      BY <1>2, <1>3, <1>5, <1>9, <1>13, <3>1, <3>2 DEF BeginInv
    <3>4. N \in 1 .. Len(hs) + 1
      BY <1>5
    <3>5. AfterRefused(Append(hs, f), rt, N)
      BY <1>2, <1>11, <3>3, <3>4, AfterRefusedStays, Zenon
    <3> QED BY <1>6, <3>5, Zenon
  <2>3. CASE mkv = 0 /\ files # <<>>
    <3>1. N - 1 \in rt /\ N - 1 < N /\ (N - 1) + 1 .. N - 1 = {}
      BY <1>2, <1>3, <1>5, <1>10, <1>13, <2>3 DEF BeginInv
    <3> QED BY <3>1 DEF AfterRefused
  <2> QED BY <1>13, <2>1, <2>2, <2>3 DEF GoesOn
<1>14. CASE Refuses(fs)
  <2>1. files' = fs /\ mkv' = 0 /\ Len(handed') \in refused'
    BY <1>2, <1>14 DEF Refuses
  <2>2. Playable(files', handed', refused')
    BY <1>4, <1>10, <1>12, <2>1 DEF Playable
  <2> QED BY <1>2, <1>7, <2>1, <2>2 DEF BeginInv
<1>15. CASE Skips(fs, f)
  <2>1. /\ files' = fs /\ mkv' = Len(fs) /\ Len(fs) # 0 /\ refused' = refused
        /\ ~(IsVideo(f) \/ HasAudio) /\ ~IsKey(f)
    BY <1>15 DEF Skips, IsVideo, IsKey
  <2>2. Playable(files', handed', refused')
    BY <1>4, <1>10, <1>12, <2>1 DEF Playable
  <2>3. ASSUME mkv' > 1, NumbersIn(fs[mkv']) = {} PROVE AfterRefused(ks, rt, N + 1)
    <3>1. AfterRefused(ks, rt, N)
      BY <1>8, <1>13, <2>1, <2>3
    <3>2. PICK n \in rt : n < N /\ \A m \in n + 1 .. N - 1 : ~(IsVideo(ks[m]) \/ HasAudio)
      BY <3>1 DEF AfterRefused
    <3>3. n \in Nat
      BY <1>9, <1>10, <1>11, <2>1, <3>2
    <3>4. \A m \in n + 1 .. (N + 1) - 1 : m \in n + 1 .. N - 1 \/ m = N
      BY <3>3
    <3>5. n < N + 1
      BY <3>2, <3>3
    <3> QED BY <1>6, <2>1, <3>2, <3>4, <3>5 DEF AfterRefused
  <2>4. Number' = N + 1 /\ files'[mkv'] = fs[mkv']
    BY <1>2, <1>5, <2>1 DEF Number
  <2> QED BY <1>2, <1>4, <1>7, <1>10, <2>1, <2>2, <2>3, <2>4 DEF BeginInv
<1>16. CASE Stores(fs, f)
  <2>1. /\ Len(files') = Len(fs) /\ mkv' = Len(fs) /\ Len(fs) # 0 /\ refused' = refused
        /\ \A i \in 1 .. Len(fs) - 1 : files'[i] = fs[i]
        /\ Gains(files'[Len(fs)], fs[Len(fs)], Number, f.kind)
    BY <1>16 DEF Stores
  <2>2. PICK l \in Nat \ {0} : l = Len(fs)
    BY <1>8, <2>1
  <2>3. PICK gs : gs = files'
    OBVIOUS
  <2>4. NumbersIn(gs[l]) = NumbersIn(fs[l]) \cup {N} /\ gs[l].hevc = fs[l].hevc
    BY <1>5, <2>1, <2>2, <2>3 DEF Gains
  <2>5. l > 1 => Begins(gs[l], ks, rt)
    <3> SUFFICES ASSUME l > 1 PROVE Begins(gs[l], ks, rt)
      OBVIOUS
    <3>1. CASE NumbersIn(fs[l]) = {}
      <4>1. NumbersIn(gs[l]) = {N} /\ N <= N
        BY <2>4, <3>1
      <4>2. IsKey(ks[N]) \/ AfterRefused(ks, rt, N)
        BY <1>6, <1>13, <2>1, <2>2, <3>1
      <4> QED BY <4>1, <4>2 DEF Begins
    <3>2. CASE NumbersIn(fs[l]) # {}
      <4>1. l \in 1 .. Len(fs)
        BY <2>2
      <4>2. PICK first \in NumbersIn(fs[l]) :
              /\ \A m \in NumbersIn(fs[l]) : first <= m
              /\ IsKey(ks[first]) \/ AfterRefused(ks, rt, first)
        BY <1>12, <3>2, <4>1 DEF Begins
      <4>3. first <= N /\ first \in NumbersIn(gs[l])
        <5>1. first \in 1 .. Len(hs)
          BY <1>12, <4>1
        <5> QED BY <1>5, <2>4, <5>1
      <4> QED BY <2>4, <4>2, <4>3 DEF Begins
    <3> QED BY <3>1, <3>2
  <2>6. \A i \in 1 .. l : i # l => gs[i] = fs[i]
    BY <2>1, <2>2, <2>3
  <2>7. Playable(gs, ks, rt)
    <3>1. ASSUME NEW i \in 1 .. l PROVE gs[i].hevc = Hevc /\ (i > 1 => Begins(gs[i], ks, rt))
      <4>1. CASE i = l
        BY <1>12, <2>2, <2>4, <2>5, <4>1
      <4>2. CASE i # l
        BY <1>12, <2>2, <2>6, <4>2
      <4> QED BY <4>1, <4>2
    <3> QED BY <2>1, <2>2, <2>3, <3>1 DEF Playable
  <2>8. NumbersIn(files'[mkv']) # {}
    BY <2>1, <2>2, <2>3, <2>4
  <2> QED BY <1>2, <1>4, <1>7, <1>10, <2>1, <2>3, <2>7, <2>8 DEF BeginInv
<1> QED BY <1>1, <1>14, <1>15, <1>16

\* Every file has the codec of the stream, and one that is not the first begins at
\* a key frame or after a frame that was refused (mkvwriter.go, writeFrame), for
\* any number of frames and failed creations.
THEOREM FilesArePlayable == Spec => []FilesCanBePlayed
<1>1. Init => BeginInv
  BY DEF Init, BeginInv, Playable
<1>2. FilesInv /\ FramesInv /\ BeginInv /\ [Next]_vars => BeginInv'
  <2> SUFFICES ASSUME FilesInv, FramesInv, BeginInv, [Next]_vars PROVE BeginInv'
    OBVIOUS
  <2>0. FilesInv'
    BY FilesStepInv
  <2>1. CASE \E f \in NextFrames : writeFrame(f)
    <3>1. PICK f \in NextFrames : writeFrame(f)
      BY <2>1
    <3>2. Effect(f)
      BY <3>1, WriteEffect DEF FramesInv
    <3> QED BY <2>0, <3>2, BeginStep
  <2>2. CASE \A f \in NextFrames : ~writeFrame(f)
    <3>1. /\ Len(files') = Len(files) /\ \A i \in 1 .. Len(files) : Keeps(files'[i], files[i])
          /\ UNCHANGED <<handed, refused, isHEVC>>
          /\ mkv' = mkv \/ (mkv' = 0 /\ stopping')
          /\ stopping' = stopping \/ stopping'
      BY <2>2, ClosingKeepsFrames
    <3>2. files \in Seq(FileSet) /\ files' \in Seq(FileSet) /\ mkv \in 0 .. Len(files) /\ Len(files) \in Nat
      BY <2>0 DEF FilesInv, Types
    <3>3. files = <<>> <=> files' = <<>>
      BY <3>1, <3>2
    <3>4. PICK gs : gs = files'
      OBVIOUS
    <3>5. \A i \in 1 .. Len(files) : NumbersIn(gs[i]) = NumbersIn(files[i]) /\ gs[i].hevc = files[i].hevc
      BY <3>1, <3>4 DEF Keeps, NumbersIn
    <3>6. Playable(gs, handed, refused)
      <4>1. \A i \in 1 .. Len(files) : Begins(gs[i], handed, refused) <=> Begins(files[i], handed, refused)
        BY <3>5 DEF Begins
      <4> QED BY <3>1, <3>4, <3>5, <4>1 DEF BeginInv, Playable
    <3>7. ~stopping' => mkv' = mkv /\ ~stopping
      BY <3>1
    <3>8. ~stopping' /\ mkv' > 1 => NumbersIn(files'[mkv']) = NumbersIn(files[mkv])
      BY <3>2, <3>4, <3>5, <3>7
    <3>9. Number' = Number
      BY <3>1 DEF Number
    <3>10. IF handed' = <<>> THEN files' = <<>> /\ isHEVC' = FALSE ELSE isHEVC' = Hevc
      BY <3>1, <3>3 DEF BeginInv
    <3>11. ~stopping' /\ mkv' = 0 /\ files' # <<>> => Len(handed') \in refused'
      BY <3>1, <3>3, <3>7 DEF BeginInv
    <3>12. ~stopping' /\ mkv' > 1 /\ NumbersIn(files'[mkv']) = {} => AfterRefused(handed', refused', Number')
      BY <3>1, <3>7, <3>8, <3>9 DEF BeginInv
    <3> QED BY <3>1, <3>4, <3>6, <3>10, <3>11, <3>12 DEF BeginInv
  <2> QED BY <2>1, <2>2
<1>3. FilesInv /\ FramesInv /\ BeginInv => FilesCanBePlayed
  BY PlayableIsProperty DEF BeginInv
<1> QED BY <1>1, <1>2, <1>3, FramesInvariant, PTL DEF Spec

----------------------------------------------------------------------------
(* Sums of durations *)

LEMMA Lasts == \A f \in Frame : f.duration \in Nat
  BY MKVWriterAssumption DEF Frame

\* u[n] is how long the first n frames last, those in S counted.
Lasting(hs, S, n) == IF n \in S THEN hs[n].duration ELSE 0
Sums(u, hs, S) == u[0] = 0 /\ \A n \in 1 .. Len(hs) : u[n] = u[n - 1] + Lasting(hs, S, n)

LEMMA LastingType == ASSUME NEW hs \in Seq(Frame), NEW S, NEW n \in 1 .. Len(hs) PROVE Lasting(hs, S, n) \in Nat
<1>1. hs[n] \in Frame
  OBVIOUS
<1> QED BY <1>1, Lasts DEF Lasting

LEMMA SumIs ==
  ASSUME NEW hs \in Seq(Frame), NEW S, NEW u \in [0 .. Len(hs) -> Nat], Sums(u, hs, S)
  PROVE  DurationOf(hs, S) = u[Len(hs)]
<1>0. PICK N \in Nat : N = Len(hs)
  OBVIOUS
<1> DEFINE Is(g) == g = [n \in 0 .. Len(hs) |->
                          IF n = 0 THEN 0 ELSE g[n - 1] + (IF n \in S THEN hs[n].duration ELSE 0)]
           upTo == CHOOSE g : Is(g)
<1>1. DurationOf(hs, S) = upTo[Len(hs)]
  BY DEF DurationOf
<1>2. \E g : Is(g)
  <2>1. ASSUME NEW n \in 0 .. N
        PROVE  u[n] = IF n = 0 THEN 0 ELSE u[n - 1] + (IF n \in S THEN hs[n].duration ELSE 0)
    BY <1>0 DEF Sums, Lasting
  <2>2. u = [n \in 0 .. N |-> u[n]]
    BY <1>0
  <2>3. Is(u)
    BY <1>0, <2>1, <2>2
  <2> QED BY <2>3
<1>3. Is(upTo)
  BY <1>2
<1> HIDE DEF upTo
<1>4. upTo[0] = 0 /\ \A n \in 1 .. N : upTo[n] = upTo[n - 1] + Lasting(hs, S, n)
  BY <1>0, <1>3 DEF Lasting
<1> DEFINE T == {n \in Nat : n <= N => upTo[n] = u[n]}
<1>5. 0 \in T
  BY <1>4 DEF Sums
<1>6. ASSUME NEW n \in Nat, n \in T PROVE n + 1 \in T
  <2> SUFFICES ASSUME n + 1 <= N PROVE upTo[n + 1] = u[n + 1]
    OBVIOUS
  <2>1. n + 1 \in 1 .. N /\ (n + 1) - 1 = n /\ n <= N
    OBVIOUS
  <2>2. u[n + 1] = u[n] + Lasting(hs, S, n + 1)
    BY <1>0, <2>1 DEF Sums
  <2>3. upTo[n + 1] = upTo[n] + Lasting(hs, S, n + 1)
    BY <1>4, <2>1
  <2> QED BY <1>6, <2>1, <2>2, <2>3
<1> HIDE DEF T
<1>7. N \in T
  BY <1>5, <1>6, NumbersFromZero
<1> QED BY <1>0, <1>1, <1>7 DEF T

Summing(hs, S) == \E u \in [0 .. Len(hs) -> Nat] : Sums(u, hs, S)

LEMMA SumExists == ASSUME NEW hs \in Seq(Frame), NEW S PROVE Summing(hs, S)
<1>1. PICK N \in Nat : N = Len(hs)
  OBVIOUS
<1>2. PICK step : step = [k \in 1 .. N |-> [s \in Nat |-> s + Lasting(hs, S, k)]]
  OBVIOUS
<1>3. step \in [1 .. N -> [Nat -> Nat]]
  BY <1>1, <1>2, LastingType
<1>4. PICK u \in [0 .. N -> Nat] : u[0] = 0 /\ \A k \in 1 .. N : u[k] = step[k][u[k - 1]]
  <2>1. Recursion(N, Nat, 0, step)
    BY <1>3, FunctionFromZero
  <2> QED BY <2>1 DEF Recursion
<1>5. ASSUME NEW k \in 1 .. N PROVE u[k] = u[k - 1] + Lasting(hs, S, k)
  <2>1. u[k - 1] \in Nat
    BY <1>4
  <2>2. step[k] = [s \in Nat |-> s + Lasting(hs, S, k)]
    BY <1>2
  <2> QED BY <1>4, <2>1, <2>2
<1> QED BY <1>1, <1>4, <1>5 DEF Sums, Summing

LEMMA DurationType == ASSUME NEW hs \in Seq(Frame), NEW S PROVE DurationOf(hs, S) \in Nat
<1>1. PICK u \in [0 .. Len(hs) -> Nat] : Sums(u, hs, S)
  BY SumExists DEF Summing
<1> QED BY <1>1, SumIs

LEMMA DurationOfNone == ASSUME NEW hs \in Seq(Frame) PROVE DurationOf(hs, {}) = 0
<1>1. PICK u : u = [n \in 0 .. Len(hs) |-> 0]
  OBVIOUS
<1>2. u \in [0 .. Len(hs) -> Nat] /\ Len(hs) \in Nat /\ \A n \in 0 .. Len(hs) : u[n] = 0
  BY <1>1
<1>3. \A n \in 1 .. Len(hs) : Lasting(hs, {}, n) = 0
  BY DEF Lasting
<1>4. Sums(u, hs, {})
  BY <1>2, <1>3 DEF Sums
<1> QED BY <1>2, <1>4, SumIs

\* One more frame adds its duration, if it is counted.
LEMMA DurationAppend ==
  ASSUME NEW hs \in Seq(Frame), NEW f \in Frame, NEW S, S \subseteq 1 .. Len(hs), NEW T
  PROVE  /\ T = S => DurationOf(Append(hs, f), T) = DurationOf(hs, S)
         /\ T = S \cup {Len(hs) + 1} => DurationOf(Append(hs, f), T) = DurationOf(hs, S) + f.duration
<1> SUFFICES ASSUME T = S \/ T = S \cup {Len(hs) + 1}
             PROVE  DurationOf(Append(hs, f), T)
                      = DurationOf(hs, S) + (IF Len(hs) + 1 \in T THEN f.duration ELSE 0)
  <2>1. Len(hs) + 1 \notin S /\ DurationOf(hs, S) \in Nat
    BY DurationType
  <2> QED BY <2>1
<1>1. PICK N \in Nat : N = Len(hs)
  OBVIOUS
<1>2. PICK ks \in Seq(Frame) : ks = Append(hs, f)
  <2>1. Append(hs, f) \in Seq(Frame)
    OBVIOUS
  <2> QED BY <2>1, Zenon
<1>3. Len(ks) = N + 1 /\ ks[N + 1] = f /\ \A n \in 1 .. N : ks[n] = hs[n]
  BY <1>1, <1>2
<1>4. PICK u \in [0 .. N -> Nat] : Sums(u, hs, S)
  BY <1>1, SumExists DEF Summing
<1>5. PICK d \in Nat : d = Lasting(ks, T, N + 1)
  <2>1. N + 1 \in 1 .. Len(ks)
    BY <1>3
  <2> QED BY <2>1, LastingType
<1> DEFINE v == [n \in 0 .. N + 1 |-> IF n <= N THEN u[n] ELSE u[N] + d]
<1>6. v \in [0 .. N + 1 -> Nat]
  <2>1. u[N] \in Nat /\ u[N] + d \in Nat
    OBVIOUS
  <2> QED BY <2>1
<1>7. v[N + 1] = u[N] + d /\ \A n \in 0 .. N : v[n] = u[n]
  OBVIOUS
<1> HIDE DEF v
<1>8. \A n \in 1 .. N : Lasting(ks, T, n) = Lasting(hs, S, n)
  <2>1. \A n \in 1 .. N : n \in T <=> n \in S
    BY <1>1
  <2> QED BY <1>3, <2>1 DEF Lasting
<1>9. ASSUME NEW n \in 1 .. N + 1 PROVE v[n] = v[n - 1] + Lasting(ks, T, n)
  <2>1. CASE n \in 1 .. N
    <3>1. n \in 0 .. N /\ n - 1 \in 0 .. N
      BY <2>1
    <3>2. u[n] = u[n - 1] + Lasting(hs, S, n)
      BY <1>1, <1>4, <2>1 DEF Sums
    <3> QED BY <1>7, <1>8, <2>1, <3>1, <3>2
  <2>2. CASE n = N + 1
    <3>1. n - 1 = N /\ N \in 0 .. N
      BY <2>2
    <3> QED BY <1>5, <1>7, <2>2, <3>1
  <2>3. n \in 1 .. N \/ n = N + 1
    OBVIOUS
  <2> QED BY <2>1, <2>2, <2>3
<1>10. Sums(v, ks, T)
  <2>1. v[0] = 0
    BY <1>4, <1>7 DEF Sums
  <2> QED BY <1>3, <1>9, <2>1 DEF Sums
<1>11. DurationOf(ks, T) = v[N + 1]
  BY <1>3, <1>6, <1>10, SumIs
<1>12. DurationOf(hs, S) = u[N]
  BY <1>1, <1>4, SumIs
<1>13. d = IF N + 1 \in T THEN f.duration ELSE 0
  BY <1>3, <1>5 DEF Lasting
<1> QED BY <1>1, <1>2, <1>7, <1>11, <1>12, <1>13

----------------------------------------------------------------------------
(* Media time *)

\* TimestampsAreMediaTime, of any file and frames handed over.
Pictures(file, hs) == {m \in NumbersIn(file) : IsVideo(hs[m])}
StartIn(file, hs, n) == file.base + DurationOf(hs, {m \in Pictures(file, hs) : m < n})

TimedBlock(file, b, hs) ==
  LET block == file.blocks[b]
      n == block.frames[1]
  IN  /\ Range(block.frames) \subseteq 1 .. Len(hs) /\ n \in Range(block.frames)
      /\ IF IsVideo(hs[n])
         THEN block.at = StartIn(file, hs, IF hs[n].kind = "idr" THEN 1 + Max(Range(block.frames)) ELSE n)
         ELSE n - 1 \in NumbersIn(file) =>
                IF IsVideo(hs[n - 1]) THEN block.at = StartIn(file, hs, n - 1)
                ELSE b > 1 /\ block.at = file.blocks[b - 1].at + hs[n - 1].duration

Timed(file, hs) == \A b \in 1 .. Len(file.blocks) : TimedBlock(file, b, hs)

\* A new frame does not move those before it.
LEMMA StartStays ==
  ASSUME NEW file, NEW new, NEW hs \in Seq(Frame), NEW f \in Frame, NEW k \in Int, k <= Len(hs) + 1,
         new.base = file.base, NumbersIn(file) \subseteq 1 .. Len(hs),
         NumbersIn(new) \in {NumbersIn(file), NumbersIn(file) \cup {Len(hs) + 1}}
  PROVE  StartIn(new, Append(hs, f), k) = StartIn(file, hs, k)
<1>1. PICK ks : ks = Append(hs, f)
  OBVIOUS
<1>2. \A n \in 1 .. Len(hs) : ks[n] = hs[n]
  BY <1>1
<1>3. PICK S : S = {m \in Pictures(file, hs) : m < k}
  OBVIOUS
<1>4. {m \in Pictures(new, ks) : m < k} = S
  <2>1. \A m \in NumbersIn(file) : IsVideo(ks[m]) <=> IsVideo(hs[m])
    BY <1>2
  <2>2. \A m \in NumbersIn(new) : m < k => m \in NumbersIn(file)
    OBVIOUS
  <2>3. NumbersIn(file) \subseteq NumbersIn(new)
    OBVIOUS
  <2> QED BY <1>3, <2>1, <2>2, <2>3 DEF Pictures
<1>5. S \subseteq 1 .. Len(hs)
  BY <1>3 DEF Pictures
<1>6. DurationOf(ks, S) = DurationOf(hs, S)
  BY <1>1, <1>5, DurationAppend
<1> QED BY <1>1, <1>3, <1>4, <1>6 DEF StartIn

\* After the last frame comes what follows it: later by its duration, if it is a
\* picture of the file.
LEMMA StartAfter ==
  ASSUME NEW file, NEW new, NEW hs \in Seq(Frame), NEW f \in Frame,
         file.base \in Nat, new.base = file.base, NumbersIn(file) \subseteq 1 .. Len(hs),
         NumbersIn(new) \in {NumbersIn(file), NumbersIn(file) \cup {Len(hs) + 1}}
  PROVE  /\ IsVideo(f) /\ Len(hs) + 1 \in NumbersIn(new) =>
               StartIn(new, Append(hs, f), Len(hs) + 2) = StartIn(file, hs, Len(hs) + 1) + f.duration
         /\ ~(IsVideo(f) /\ Len(hs) + 1 \in NumbersIn(new)) =>
               StartIn(new, Append(hs, f), Len(hs) + 2) = StartIn(file, hs, Len(hs) + 1)
         /\ StartIn(file, hs, Len(hs) + 1) \in Nat
<1>1. PICK ks : ks = Append(hs, f)
  OBVIOUS
<1>2. PICK N \in Nat : N = Len(hs) + 1
  OBVIOUS
<1>3. ks[N] = f /\ \A n \in 1 .. N - 1 : ks[n] = hs[n]
  BY <1>1, <1>2
<1>4. PICK S : S = {m \in Pictures(file, hs) : m < N}
  OBVIOUS
<1>5. S \subseteq 1 .. Len(hs) /\ S = Pictures(file, hs)
  BY <1>2, <1>4 DEF Pictures
<1>6. PICK T : T = {m \in Pictures(new, ks) : m < N + 1}
  OBVIOUS
<1>7. T = Pictures(new, ks)
  BY <1>2, <1>6 DEF Pictures
<1>8. \A m \in NumbersIn(file) : m # N /\ (IsVideo(ks[m]) <=> IsVideo(hs[m]))
  BY <1>2, <1>3
<1>9. T = IF IsVideo(f) /\ N \in NumbersIn(new) THEN S \cup {N} ELSE S
  BY <1>2, <1>3, <1>5, <1>7, <1>8 DEF Pictures
<1>10. DurationOf(hs, S) \in Nat /\ f.duration \in Nat
  BY DurationType, Lasts
<1>11. /\ T = S => DurationOf(ks, T) = DurationOf(hs, S)
       /\ T = S \cup {N} => DurationOf(ks, T) = DurationOf(hs, S) + f.duration
  BY <1>1, <1>2, <1>5, DurationAppend
<1>12. StartIn(file, hs, N) = file.base + DurationOf(hs, S)
  BY <1>4 DEF StartIn
<1>13. StartIn(new, ks, N + 1) = file.base + DurationOf(ks, T)
  BY <1>6 DEF StartIn
<1>14. N + 1 = Len(hs) + 2
  BY <1>2
<1> QED BY <1>1, <1>2, <1>9, <1>10, <1>11, <1>12, <1>13, <1>14

LEMMA TimedBlockStays ==
  ASSUME NEW file, NEW new, NEW hs \in Seq(Frame), NEW f \in Frame, NEW b \in Nat \ {0},
         new.base = file.base, NumbersIn(file) \subseteq 1 .. Len(hs),
         NumbersIn(new) \in {NumbersIn(file), NumbersIn(file) \cup {Len(hs) + 1}},
         new.blocks[b] = file.blocks[b], b > 1 => new.blocks[b - 1] = file.blocks[b - 1],
         TimedBlock(file, b, hs)
  PROVE  TimedBlock(new, b, Append(hs, f))
<1>1. PICK ks : ks = Append(hs, f)
  OBVIOUS
<1>2. PICK N \in Nat : N = Len(hs) + 1
  OBVIOUS
<1>3. Len(ks) = N /\ \A n \in 1 .. N - 1 : ks[n] = hs[n]
  BY <1>1, <1>2
<1>4. PICK block : block = file.blocks[b]
  OBVIOUS
<1>5. PICK n : n = block.frames[1]
  OBVIOUS
<1>6. PICK R : R = Range(block.frames)
  OBVIOUS
<1>7. /\ R \subseteq 1 .. N - 1 /\ n \in R
      /\ IsVideo(hs[n]) => block.at = StartIn(file, hs, IF hs[n].kind = "idr" THEN 1 + Max(R) ELSE n)
      /\ ~IsVideo(hs[n]) /\ n - 1 \in NumbersIn(file) =>
           IF IsVideo(hs[n - 1]) THEN block.at = StartIn(file, hs, n - 1)
           ELSE b > 1 /\ block.at = file.blocks[b - 1].at + hs[n - 1].duration
  BY <1>2, <1>4, <1>5, <1>6 DEF TimedBlock
<1>8. \A k \in Int : k <= N => StartIn(new, ks, k) = StartIn(file, hs, k)
  BY <1>1, <1>2, StartStays
<1>9. Max(R) \in R
  <2>1. N - 1 \in Nat
    BY <1>2
  <2> QED BY <1>7, <2>1, GreatestIn
<1>10. n \in 1 .. N - 1 /\ Max(R) \in 1 .. N - 1 /\ ks[n] = hs[n]
  BY <1>3, <1>7, <1>9
<1>11. IsVideo(ks[n]) => block.at = StartIn(new, ks, IF ks[n].kind = "idr" THEN 1 + Max(R) ELSE n)
  <2> SUFFICES ASSUME IsVideo(ks[n])
               PROVE  block.at = StartIn(new, ks, IF ks[n].kind = "idr" THEN 1 + Max(R) ELSE n)
    OBVIOUS
  <2>1. CASE ks[n].kind = "idr"
    <3>1. 1 + Max(R) \in Int /\ 1 + Max(R) <= N
      BY <1>2, <1>10
    <3>2. block.at = StartIn(file, hs, 1 + Max(R))
      BY <1>7, <1>10, <2>1
    <3> QED BY <1>8, <2>1, <3>1, <3>2
  <2>2. CASE ks[n].kind # "idr"
    <3>1. n \in Int /\ n <= N
      BY <1>10
    <3>2. block.at = StartIn(file, hs, n)
      BY <1>7, <1>10, <2>2
    <3> QED BY <1>8, <2>2, <3>1, <3>2
  <2> QED BY <2>1, <2>2
<1>12. ~IsVideo(ks[n]) /\ n - 1 \in NumbersIn(new) =>
         IF IsVideo(ks[n - 1]) THEN block.at = StartIn(new, ks, n - 1)
         ELSE b > 1 /\ block.at = new.blocks[b - 1].at + ks[n - 1].duration
  <2> SUFFICES ASSUME ~IsVideo(ks[n]), n - 1 \in NumbersIn(new)
               PROVE  IF IsVideo(ks[n - 1]) THEN block.at = StartIn(new, ks, n - 1)
                      ELSE b > 1 /\ block.at = new.blocks[b - 1].at + ks[n - 1].duration
    OBVIOUS
  <2>1. n - 1 \in NumbersIn(file) /\ n - 1 \in 1 .. N - 1
    BY <1>2, <1>10
  <2>2. ks[n - 1] = hs[n - 1] /\ n - 1 \in Int /\ n - 1 <= N
    BY <1>3, <2>1
  <2>3. StartIn(new, ks, n - 1) = StartIn(file, hs, n - 1)
    BY <1>8, <2>2
  <2> QED BY <1>7, <1>10, <2>1, <2>2, <2>3
<1>13. R \subseteq 1 .. Len(ks)
  BY <1>2, <1>3, <1>7
<1>14. new.blocks[b] = block
  BY <1>4
<1>15. TimedBlock(new, b, ks)
  BY <1>5, <1>6, <1>7, <1>11, <1>12, <1>13, <1>14 DEF TimedBlock
<1> QED BY <1>1, <1>15

LEMMA TimedStays ==
  ASSUME NEW file, NEW new, NEW hs \in Seq(Frame), NEW f \in Frame, Len(file.blocks) \in Nat,
         new.base = file.base, NumbersIn(file) \subseteq 1 .. Len(hs),
         NumbersIn(new) \in {NumbersIn(file), NumbersIn(file) \cup {Len(hs) + 1}},
         \A b \in 1 .. Len(file.blocks) : new.blocks[b] = file.blocks[b],
         Timed(file, hs), NEW b \in 1 .. Len(file.blocks)
  PROVE  TimedBlock(new, b, Append(hs, f))
<1>1. b \in Nat \ {0} /\ (b > 1 => b - 1 \in 1 .. Len(file.blocks))
  OBVIOUS
<1>2. TimedBlock(file, b, hs)
  BY DEF Timed
<1> QED BY <1>1, <1>2, TimedBlockStays

\* The pictures held back go out at the place of the picture that follows them.
LEMMA HeldBackTime ==
  ASSUME NEW file, NEW hs \in Seq(Frame), NumbersIn(file) \subseteq 1 .. Len(hs), HeldBack(file, hs),
         Range(file.idr) # {}
  PROVE  /\ Max(Range(file.idr)) \in Range(file.idr) /\ Range(file.idr) \subseteq 1 .. Len(hs)
         /\ StartIn(file, hs, 1 + Max(Range(file.idr))) = StartIn(file, hs, Len(hs) + 1)
<1>1. PICK R : R = Range(file.idr)
  OBVIOUS
<1>2. R \subseteq 1 .. Len(hs) /\ \A n \in R : \A m \in Pictures(file, hs) : m > n => m \in R
  BY <1>1 DEF HeldBack, Pictures
<1>3. Max(R) \in R /\ \A k \in R : k <= Max(R)
  <2>1. Len(hs) \in Nat /\ R # {}
    BY <1>1
  <2> QED BY <1>2, <2>1, GreatestIn
<1>4. PICK x \in 1 .. Len(hs) : x = Max(R)
  BY <1>2, <1>3
<1>5. Pictures(file, hs) \subseteq 1 .. Len(hs)
  BY DEF Pictures
<1>6. ASSUME NEW m \in Pictures(file, hs) PROVE m < 1 + x /\ m < Len(hs) + 1
  <2>1. m <= x
    BY <1>2, <1>3, <1>4, <1>5
  <2> QED BY <1>5, <2>1
<1>7. {m \in Pictures(file, hs) : m < 1 + x} = {m \in Pictures(file, hs) : m < Len(hs) + 1}
  BY <1>6
<1>8. StartIn(file, hs, 1 + x) = StartIn(file, hs, Len(hs) + 1)
  BY <1>7 DEF StartIn
<1> QED BY <1>1, <1>2, <1>3, <1>4, <1>8

LEMMA AppendedBlock ==
  ASSUME NEW blocks \in Seq(BlockSet), NEW block \in BlockSet
  PROVE  /\ Len(Append(blocks, block)) = Len(blocks) + 1
         /\ Append(blocks, block)[Len(blocks) + 1] = block
         /\ \A b \in 1 .. Len(blocks) : Append(blocks, block)[b] = blocks[b]
OBVIOUS

LEMMA VideoTimed ==
  ASSUME NEW file \in FileSet, NEW hs \in Seq(Frame), NEW f \in Frame, IsVideo(f),
         NEW N \in Nat, N = Len(hs) + 1,
         NumbersIn(file) \subseteq 1 .. Len(hs), HeldBack(file, hs), Timed(file, hs),
         NEW at \in Nat, at = StartIn(file, hs, N), NEW new, new = VideoWritten(file, N, f, at)
  PROVE  /\ Timed(new, Append(hs, f))
         /\ new.base = file.base /\ NumbersIn(new) = NumbersIn(file) \cup {N}
<1>1. PICK ks : ks = Append(hs, f)
  OBVIOUS
<1>2. ks[N] = f /\ Len(ks) = N /\ \A n \in 1 .. N - 1 : ks[n] = hs[n]
  BY <1>1
<1>3. NumbersIn(new) = NumbersIn(file) \cup {N}
  <2>1. Gains(new, file, N, f.kind)
    BY VideoGains
  <2> QED BY <2>1 DEF Gains
<1>4. new.base = file.base
  BY DEF VideoWritten, FileSet
<1>5. file.blocks \in Seq(BlockSet) /\ file.idr \in Seq(Nat)
  BY Zenon DEF FileSet
<1>6. PICK l \in Nat : l = Len(file.blocks)
  BY <1>5
<1>7. \A k \in Int : k <= N => StartIn(new, ks, k) = StartIn(file, hs, k)
  BY <1>1, <1>3, <1>4, StartStays
<1>8. ASSUME \A b \in 1 .. l : new.blocks[b] = file.blocks[b], NEW b \in 1 .. l
      PROVE  TimedBlock(new, b, ks)
  BY <1>1, <1>3, <1>4, <1>6, <1>8, TimedStays
<1>9. CASE f.kind = "idr"
  <2>1. new.blocks = file.blocks
    BY <1>9 DEF VideoWritten, FileSet
  <2>2. Timed(new, ks)
    BY <1>6, <1>8, <2>1 DEF Timed
  <2> QED BY <1>1, <1>3, <1>4, <2>2
<1>10. CASE f.kind # "idr"
  <2>1. PICK last : last = Block(<<N>>, at, FALSE)
    OBVIOUS
  <2>2. PICK held : held = Block(file.idr, at, TRUE)
    OBVIOUS
  <2>3. new.blocks = file.blocks \o (IF file.idr = <<>> THEN <<>> ELSE <<held>>) \o <<last>>
    BY <1>10, <2>1, <2>2 DEF VideoWritten, FileSet
  <2>4. last.frames = <<N>> /\ last.at = at /\ held.frames = file.idr /\ held.at = at
    BY <2>1, <2>2 DEF Block
  <2>a. last \in BlockSet /\ held \in BlockSet
    <3>1. <<N>> \in Seq(Nat)
      OBVIOUS
    <3> QED BY <1>5, <2>1, <2>2, <3>1, Zenon DEF Block, BlockSet
  <2>5. ASSUME NEW b \in Nat, new.blocks[b] = last PROVE TimedBlock(new, b, ks)
    <3>1. Range(<<N>>) = {N} /\ <<N>>[1] = N
      BY DEF Range
    <3>2. at = StartIn(new, ks, N)
      BY <1>7
    <3>3. ks[N].kind # "idr" /\ IsVideo(ks[N]) /\ N \in 1 .. Len(ks)
      BY <1>2, <1>10
    <3> QED BY <2>4, <2>5, <3>1, <3>2, <3>3 DEF TimedBlock
  <2>6. ASSUME NEW b \in Nat, file.idr # <<>>, new.blocks[b] = held PROVE TimedBlock(new, b, ks)
    <3>1. file.idr[1] \in Range(file.idr)
      BY <1>5, <2>6 DEF Range
    <3>2. PICK R : R = Range(file.idr)
      OBVIOUS
    <3>3. Max(R) \in R /\ R \subseteq 1 .. Len(hs) /\ StartIn(file, hs, 1 + Max(R)) = at
      <4>1. R # {}
        BY <3>1, <3>2
      <4>2. Range(file.idr) # {}
        BY <3>2, <4>1
      <4>3. /\ Max(Range(file.idr)) \in Range(file.idr) /\ Range(file.idr) \subseteq 1 .. Len(hs)
            /\ StartIn(file, hs, 1 + Max(Range(file.idr))) = StartIn(file, hs, Len(hs) + 1)
        BY <4>2, HeldBackTime, Zenon
      <4>4. at = StartIn(file, hs, Len(hs) + 1)
        OBVIOUS
      <4> QED BY <3>2, <4>3, <4>4, Zenon
    <3>4. 1 + Max(R) \in Int /\ 1 + Max(R) <= N
      <4>1. PICK x \in 1 .. Len(hs) : x = Max(R)
        BY <3>3, Zenon
      <4>2. 1 + x \in Int /\ 1 + x <= N
        OBVIOUS
      <4> QED BY <4>1, <4>2
    <3>5. StartIn(new, ks, 1 + Max(R)) = at
      BY <1>7, <3>3, <3>4
    <3>6. PICK n \in 1 .. Len(hs) : n = file.idr[1]
      BY <3>1, <3>2, <3>3
    <3>7. ks[n] = hs[n] /\ hs[n].kind = "idr"
      <4>1. hs[n].kind = "idr"
        BY <3>1, <3>6 DEF HeldBack
      <4>2. n \in 1 .. N - 1
        OBVIOUS
      <4> QED BY <1>2, <4>1, <4>2
    <3>8. IsVideo(ks[n]) /\ R \subseteq 1 .. Len(ks) /\ n \in R
      BY <1>2, <3>1, <3>2, <3>3, <3>6, <3>7 DEF IsVideo
    <3> QED BY <2>4, <2>6, <3>2, <3>5, <3>6, <3>7, <3>8 DEF TimedBlock
  <2>7. CASE file.idr = <<>>
    <3>1. new.blocks = Append(file.blocks, last)
      <4>1. \A u \in Seq(BlockSet) : u \o <<>> \o <<last>> = Append(u, last)
        BY <2>a
      <4> QED BY <1>5, <2>3, <2>7, <4>1
    <3>2. Len(new.blocks) = l + 1 /\ new.blocks[l + 1] = last /\ \A b \in 1 .. l : new.blocks[b] = file.blocks[b]
      <4>1. /\ Len(Append(file.blocks, last)) = Len(file.blocks) + 1
            /\ Append(file.blocks, last)[Len(file.blocks) + 1] = last
            /\ \A b \in 1 .. Len(file.blocks) : Append(file.blocks, last)[b] = file.blocks[b]
        BY <1>5, <2>a, AppendedBlock, Zenon
      <4> QED BY <1>6, <3>1, <4>1, Zenon
    <3>3. ASSUME NEW b \in 1 .. l + 1 PROVE TimedBlock(new, b, ks)
      <4>1. b \in 1 .. l \/ b = l + 1
        OBVIOUS
      <4> QED BY <1>8, <2>5, <3>2, <4>1
    <3> QED BY <1>1, <1>3, <1>4, <3>2, <3>3 DEF Timed
  <2>8. CASE file.idr # <<>>
    <3>1. new.blocks = Append(Append(file.blocks, held), last)
      <4>1. \A u \in Seq(BlockSet) : u \o <<held>> \o <<last>> = Append(Append(u, held), last)
        BY <2>a
      <4> QED BY <1>5, <2>3, <2>8, <4>1
    <3>a. Append(file.blocks, held) \in Seq(BlockSet)
      BY <1>5, <2>a
    <3>2. /\ Len(new.blocks) = l + 2 /\ new.blocks[l + 1] = held /\ new.blocks[l + 2] = last
          /\ \A b \in 1 .. l : new.blocks[b] = file.blocks[b]
      <4>1. PICK us \in Seq(BlockSet) : us = Append(file.blocks, held)
        BY <3>a, Zenon
      <4>2. Len(us) = l + 1 /\ us[l + 1] = held /\ \A b \in 1 .. l : us[b] = file.blocks[b]
        BY <1>5, <1>6, <2>a, <4>1, AppendedBlock
      <4>3. new.blocks = Append(us, last)
        BY <3>1, <4>1
      <4>4. /\ Len(new.blocks) = l + 1 + 1 /\ new.blocks[l + 1 + 1] = last
            /\ \A b \in 1 .. l + 1 : new.blocks[b] = us[b]
        <5>1. /\ Len(Append(us, last)) = Len(us) + 1 /\ Append(us, last)[Len(us) + 1] = last
              /\ \A b \in 1 .. Len(us) : Append(us, last)[b] = us[b]
          BY <2>a, AppendedBlock, Zenon
        <5> QED BY <4>2, <4>3, <5>1, Zenon
      <4> QED BY <4>2, <4>4
    <3>3. ASSUME NEW b \in 1 .. l + 2 PROVE TimedBlock(new, b, ks)
      <4>1. b \in 1 .. l \/ b = l + 1 \/ b = l + 2
        OBVIOUS
      <4> QED BY <1>8, <2>5, <2>6, <2>8, <3>2, <4>1
    <3> QED BY <1>1, <1>3, <1>4, <3>2, <3>3 DEF Timed
  <2> QED BY <2>7, <2>8
<1> QED BY <1>9, <1>10

\* What audio that is stored in the file at that time must come after.
Follows(file, hs, at) ==
  Len(hs) \in NumbersIn(file) =>
    IF IsVideo(hs[Len(hs)]) THEN at = StartIn(file, hs, Len(hs))
    ELSE Len(file.blocks) > 0 /\ at = file.blocks[Len(file.blocks)].at + hs[Len(hs)].duration

LEMMA AudioTimed ==
  ASSUME NEW file \in FileSet, NEW hs \in Seq(Frame), NEW f \in Frame, ~IsVideo(f),
         NEW N \in Nat, N = Len(hs) + 1,
         NumbersIn(file) \subseteq 1 .. Len(hs), Timed(file, hs),
         NEW at \in Nat, Follows(file, hs, at), NEW new, new = AudioWritten(file, N, at)
  PROVE  /\ Timed(new, Append(hs, f))
         /\ new.base = file.base /\ NumbersIn(new) = NumbersIn(file) \cup {N}
         /\ Len(new.blocks) > 0 /\ new.blocks[Len(new.blocks)].at = at
<1>1. PICK ks : ks = Append(hs, f)
  OBVIOUS
<1>2. ks[N] = f /\ Len(ks) = N /\ \A n \in 1 .. N - 1 : ks[n] = hs[n]
  BY <1>1
<1>3. NumbersIn(new) = NumbersIn(file) \cup {N}
  <2>1. Gains(new, file, N, "audio")
    BY AudioGains
  <2> QED BY <2>1 DEF Gains
<1>4. new.base = file.base
  BY DEF AudioWritten, FileSet
<1>5. file.blocks \in Seq(BlockSet)
  BY Zenon DEF FileSet
<1>6. PICK l \in Nat : l = Len(file.blocks)
  BY <1>5
<1>7. PICK last : last = Block(<<N>>, at, TRUE)
  OBVIOUS
<1>8. new.blocks = Append(file.blocks, last)
  BY <1>7 DEF AudioWritten, FileSet
<1>9. Len(new.blocks) = l + 1 /\ new.blocks[l + 1] = last /\ \A b \in 1 .. l : new.blocks[b] = file.blocks[b]
  <2>1. <<N>> \in Seq(Nat)
    OBVIOUS
  <2>2. last \in BlockSet
    BY <1>7, <2>1, Zenon DEF Block, BlockSet
  <2>3. /\ Len(Append(file.blocks, last)) = Len(file.blocks) + 1
        /\ Append(file.blocks, last)[Len(file.blocks) + 1] = last
        /\ \A b \in 1 .. Len(file.blocks) : Append(file.blocks, last)[b] = file.blocks[b]
    BY <1>5, <2>2, AppendedBlock, Zenon
  <2> QED BY <1>6, <1>8, <2>3, Zenon
<1>10. last.frames = <<N>> /\ last.at = at
  BY <1>7 DEF Block
<1>11. ASSUME NEW b \in 1 .. l PROVE TimedBlock(new, b, ks)
  BY <1>1, <1>3, <1>4, <1>6, <1>9, TimedStays
<1>12. TimedBlock(new, l + 1, ks)
  <2>1. Range(<<N>>) = {N} /\ <<N>>[1] = N
    BY DEF Range
  <2>2. ~IsVideo(ks[N]) /\ N \in 1 .. Len(ks)
    BY <1>2
  <2>3. ASSUME N - 1 \in NumbersIn(new)
        PROVE  IF IsVideo(ks[N - 1]) THEN at = StartIn(new, ks, N - 1)
               ELSE l + 1 > 1 /\ at = new.blocks[l].at + ks[N - 1].duration
    <3>1. N - 1 = Len(hs) /\ Len(hs) \in NumbersIn(file) /\ N - 1 \in 1 .. N - 1
      BY <1>3, <2>3
    <3>2. ks[N - 1] = hs[Len(hs)]
      BY <1>2, <3>1
    <3>3. StartIn(new, ks, N - 1) = StartIn(file, hs, N - 1)
      BY <1>1, <1>3, <1>4, <3>1, StartStays
    <3>4. l > 0 => new.blocks[l] = file.blocks[l]
      BY <1>9
    <3> QED BY <1>6, <3>1, <3>2, <3>3, <3>4 DEF Follows
  <2>4. (l + 1) - 1 = l
    OBVIOUS
  <2> QED BY <1>9, <1>10, <2>1, <2>2, <2>3, <2>4 DEF TimedBlock
<1>13. Timed(new, ks)
  <2>1. ASSUME NEW b \in 1 .. l + 1 PROVE TimedBlock(new, b, ks)
    <3>1. b \in 1 .. l \/ b = l + 1
      OBVIOUS
    <3> QED BY <1>11, <1>12, <3>1
  <2> QED BY <1>9, <2>1 DEF Timed
<1> QED BY <1>1, <1>3, <1>4, <1>9, <1>10, <1>13

\* Where the writer stands in a file: after the last frame, with what audio that
\* comes next needs.
Stands(file, hs, vp, vl, ap, la) ==
  /\ vp = StartIn(file, hs, Len(hs) + 1)
  /\ Len(hs) \in NumbersIn(file) =>
       IF IsVideo(hs[Len(hs)]) THEN ~la /\ vl = StartIn(file, hs, Len(hs))
       ELSE la /\ Len(file.blocks) > 0 /\ ap = file.blocks[Len(file.blocks)].at + hs[Len(hs)].duration

LEMMA VideoStands ==
  ASSUME NEW file \in FileSet, NEW hs \in Seq(Frame), NEW f \in Frame, IsVideo(f),
         NEW N \in Nat, N = Len(hs) + 1, NumbersIn(file) \subseteq 1 .. Len(hs),
         NEW at \in Nat, at = StartIn(file, hs, N), NEW new,
         new.base = file.base, NumbersIn(new) = NumbersIn(file) \cup {N}, NEW ap
  PROVE  Stands(new, Append(hs, f), at + f.duration, at, ap, FALSE)
<1>1. PICK ks : ks = Append(hs, f)
  OBVIOUS
<1>2. ks[N] = f /\ Len(ks) = N /\ N + 1 = Len(hs) + 2
  BY <1>1
<1>3. file.base \in Nat
  BY DEF FileSet
<1>4. StartIn(new, ks, N + 1) = at + f.duration
  BY <1>1, <1>2, <1>3, StartAfter
<1>5. StartIn(new, ks, N) = at
  BY <1>1, StartStays
<1>6. Stands(new, ks, at + f.duration, at, ap, FALSE)
  BY <1>2, <1>4, <1>5 DEF Stands
<1> QED BY <1>1, <1>6

LEMMA AudioStands ==
  ASSUME NEW file \in FileSet, NEW hs \in Seq(Frame), NEW f \in Frame, ~IsVideo(f),
         NEW N \in Nat, N = Len(hs) + 1, NumbersIn(file) \subseteq 1 .. Len(hs),
         NEW vp, vp = StartIn(file, hs, N), NEW new, new.base = file.base, NEW vl, NEW ap, NEW la,
         \/ NumbersIn(new) = NumbersIn(file)
         \/ /\ NumbersIn(new) = NumbersIn(file) \cup {N}
            /\ la /\ Len(new.blocks) > 0 /\ ap = new.blocks[Len(new.blocks)].at + f.duration
  PROVE  Stands(new, Append(hs, f), vp, vl, ap, la)
<1>1. PICK ks : ks = Append(hs, f)
  OBVIOUS
<1>2. ks[N] = f /\ Len(ks) = N /\ N + 1 = Len(hs) + 2
  BY <1>1
<1>3. file.base \in Nat
  BY DEF FileSet
<1>4. StartIn(new, ks, N + 1) = vp
  <2>1. NumbersIn(new) \in {NumbersIn(file), NumbersIn(file) \cup {Len(hs) + 1}}
    OBVIOUS
  <2>2. StartIn(new, Append(hs, f), Len(hs) + 2) = StartIn(file, hs, Len(hs) + 1)
    BY <1>3, <2>1, StartAfter
  <2> QED BY <1>1, <1>2, <2>2
<1>5. N \notin NumbersIn(file)
  OBVIOUS
<1>6. Stands(new, ks, vp, vl, ap, la)
  BY <1>2, <1>4, <1>5 DEF Stands
<1> QED BY <1>1, <1>6

\* A file that keeps its frames keeps their times.
LEMMA KeptTimed ==
  ASSUME NEW file, NEW new, Keeps(new, file), NEW hs
  PROVE  /\ Timed(file, hs) => Timed(new, hs)
         /\ \A vp, vl, ap, la : Stands(file, hs, vp, vl, ap, la) => Stands(new, hs, vp, vl, ap, la)
<1>1. new.blocks = file.blocks /\ new.base = file.base /\ NumbersIn(new) = NumbersIn(file)
  BY DEF Keeps, NumbersIn
<1>2. \A n : StartIn(new, hs, n) = StartIn(file, hs, n)
  BY <1>1 DEF StartIn, Pictures
<1> QED BY <1>1, <1>2 DEF Timed, TimedBlock, Stands

LEMMA NewFileTimed ==
  ASSUME NEW file, FramesIn(file) = <<>>, file.blocks = <<>>, file.idr = <<>>, NEW hs \in Seq(Frame),
         file.base \in Nat
  PROVE  /\ NumbersIn(file) = {} /\ HeldBack(file, hs) /\ Timed(file, hs)
         /\ \A vl, ap, la : Stands(file, hs, file.base, vl, ap, la)
<1>1. NumbersIn(file) = {} /\ Range(file.idr) = {}
  BY DEF NumbersIn, Range
<1>2. StartIn(file, hs, Len(hs) + 1) = file.base
  <2>1. {m \in Pictures(file, hs) : m < Len(hs) + 1} = {}
    BY <1>1 DEF Pictures
  <2>2. StartIn(file, hs, Len(hs) + 1) = file.base + DurationOf(hs, {})
    BY <2>1, Zenon DEF StartIn
  <2>3. DurationOf(hs, {}) = 0
    BY DurationOfNone
  <2> QED BY <2>2, <2>3
<1> QED BY <1>1, <1>2 DEF HeldBack, Timed, Stands

LEMMA OldFileTimed ==
  ASSUME NEW file \in FileSet, NEW hs \in Seq(Frame), NEW f \in Frame,
         NumbersIn(file) \subseteq 1 .. Len(hs), Timed(file, hs)
  PROVE  Timed(file, Append(hs, f))
<1>1. PICK l \in Nat : l = Len(file.blocks)
  <2>1. file.blocks \in Seq(BlockSet)
    BY Zenon DEF FileSet
  <2> QED BY <2>1
<1>2. ASSUME NEW b \in 1 .. l PROVE TimedBlock(file, b, Append(hs, f))
  BY <1>1, TimedStays
<1> QED BY <1>1, <1>2 DEF Timed

\* The files have the times of the frames handed over, and the positions are those
\* of the current file.
AllTimed(fs, hs) == \A i \in 1 .. Len(fs) : Timed(fs[i], hs)
TimeInv ==
  /\ AllTimed(files, handed)
  /\ mkv # 0 => Stands(files[mkv], handed, vPos, vLast, aPos, lastFrameAudio)

\* A file that frames can be added to.
Ready(file, hs) ==
  file \in FileSet /\ NumbersIn(file) \subseteq 1 .. Len(hs) /\ HeldBack(file, hs) /\ Timed(file, hs)

LEMMA OpenedTimed ==
  ASSUME FilesInv, FramesInv, TimeInv, NEW f \in NextFrames, Handed(f),
         NEW fs, fs = Opened(f)
  PROVE  /\ \A i \in 1 .. Len(fs) : Ready(fs[i], handed)
         /\ Stands(fs[Len(fs)], handed, vPos, vLast, aPos, lastFrameAudio)
<1>1. /\ files \in Seq(FileSet) /\ handed \in Seq(Frame) /\ vPos \in Nat /\ mkv \in 0 .. Len(files)
      /\ isHEVC \in BOOLEAN
  BY DEF FilesInv, Types
<1>2. ASSUME NEW i \in 1 .. Len(files) PROVE Ready(files[i], handed)
  <2>1. NumbersIn(files[i]) \subseteq NumbersAll(files)
    BY DEF NumbersAll
  <2>2. NumbersAll(files) \subseteq 1 .. Len(handed) /\ HeldBack(files[i], handed)
    BY DEF FramesInv, AllPlaced, Expected
  <2>3. files[i] \in FileSet /\ Timed(files[i], handed)
    BY <1>1 DEF TimeInv, AllTimed
  <2> QED BY <2>1, <2>2, <2>3 DEF Ready
<1>3. CASE mkv # 0
  <2>1. fs = files /\ mkv = Len(files)
    BY <1>3 DEF Opened, FramesInv, CurrentIsLast
  <2> QED BY <1>2, <1>3, <2>1 DEF TimeInv
<1>4. CASE mkv = 0
  <2>1. PICK new : new = NewFile(SawHevc(f), vPos)
    OBVIOUS
  <2>2. new \in FileSet /\ new.base = vPos /\ FramesIn(new) = <<>> /\ new.blocks = <<>> /\ new.idr = <<>>
    <3>1. new \in FileSet
      BY <1>1, <2>1, SawHevcType, NewFileType
    <3>2. new.base = vPos
      BY <2>1 DEF NewFile
    <3> QED BY <2>1, <3>1, <3>2, NewFileFrames
  <2>3. Ready(new, handed) /\ Stands(new, handed, vPos, vLast, aPos, lastFrameAudio)
    <3>1. /\ NumbersIn(new) = {} /\ HeldBack(new, handed) /\ Timed(new, handed)
          /\ \A vl, ap, la : Stands(new, handed, new.base, vl, ap, la)
      BY <1>1, <2>2, NewFileTimed
    <3> QED BY <2>2, <3>1 DEF Ready
  <2>4. fs = Append(files, new)
    BY <1>4, <2>1 DEF Opened
  <2>5. Len(fs) = Len(files) + 1 /\ fs[Len(files) + 1] = new /\ \A i \in 1 .. Len(files) : fs[i] = files[i]
    BY <1>1, <2>4
  <2>6. ASSUME NEW i \in 1 .. Len(fs) PROVE Ready(fs[i], handed)
    <3>1. i \in 1 .. Len(files) \/ i = Len(files) + 1
      BY <1>1, <2>5
    <3> QED BY <1>2, <2>3, <2>5, <3>1
  <2> QED BY <2>3, <2>5, <2>6
<1> QED BY <1>3, <1>4

LEMMA TimeStep ==
  ASSUME FilesInv, FramesInv, TimeInv, NEW f \in NextFrames, writeFrame(f)
  PROVE  TimeInv'
<1>1. /\ files \in Seq(FileSet) /\ vPos \in Nat /\ vLast \in Nat /\ aPos \in Nat /\ isHEVC \in BOOLEAN
  BY DEF FilesInv, Types
<1>2. f \in Frame /\ (IsKey(f) => IsVideo(f)) /\ (~IsVideo(f) <=> f.kind = "audio") /\ f.duration \in Nat
  BY FrameTypes DEF IsKey, IsVideo
<1>3. Handed(f)
  BY DEF writeFrame, NoFile, RotationFails, Rotate, WriteVideo, WriteAudio
<1>4. PICK hs \in Seq(Frame) : hs = handed
  BY DEF FilesInv, Types
<1>5. PICK N \in Nat : N = Len(hs) + 1
  BY <1>4
<1>6. PICK ks : ks = handed'
  OBVIOUS
<1>7. ks = Append(hs, f) /\ Len(ks) = N /\ Len(handed') = N
  BY <1>3, <1>4, <1>5, <1>6 DEF Handed
<1>8. PICK fs : fs = Opened(f)
  OBVIOUS
<1>9. PICK l \in Nat \ {0} : l = Len(fs) /\ Current(f) = l /\ fs \in Seq(FileSet)
  <2>1. Extends(fs, f) /\ Current(f) = Len(fs) /\ Len(fs) \in 1 .. Len(fs)
    BY <1>3, <1>8, OpenedExtends DEF FramesInv
  <2> QED BY <2>1 DEF Extends
<1>10. /\ \A i \in 1 .. l : Ready(fs[i], hs)
       /\ Stands(fs[l], hs, vPos, vLast, aPos, lastFrameAudio)
  BY <1>3, <1>4, <1>8, <1>9, OpenedTimed
<1>11. ASSUME NEW i \in 1 .. l PROVE Timed(fs[i], ks)
  <2>1. Ready(fs[i], hs)
    BY <1>10
  <2> QED BY <1>2, <1>7, <2>1, OldFileTimed DEF Ready
<1>12. PICK cur : cur = fs[l]
  OBVIOUS
<1>13. /\ cur \in FileSet /\ NumbersIn(cur) \subseteq 1 .. Len(hs) /\ HeldBack(cur, hs) /\ Timed(cur, hs)
       /\ vPos = StartIn(cur, hs, N)
  BY <1>5, <1>9, <1>10, <1>12 DEF Ready, Stands
<1>14. PICK gs : gs = [fs EXCEPT ![l] = CloseCalled(cur)]
  OBVIOUS
<1>15. Len(gs) = l /\ \A i \in 1 .. l : Timed(gs[i], ks)
  <2>1. Keeps(CloseCalled(cur), cur)
    BY <1>13, ClosedKeeps
  <2>2. Timed(CloseCalled(cur), ks)
    <3>1. l \in 1 .. l
      OBVIOUS
    <3> QED BY <1>11, <1>12, <2>1, <3>1, KeptTimed
  <2>3. Len(gs) = l /\ \A i \in 1 .. l : gs[i] = IF i = l THEN CloseCalled(cur) ELSE fs[i]
    BY <1>9, <1>14
  <2> QED BY <1>11, <2>2, <2>3
\* It suffices to look at the current file afterwards.
<1>16. ASSUME mkv' = l, NEW new, files' = [fs EXCEPT ![l] = new], Timed(new, ks),
              Stands(new, ks, vPos', vLast', aPos', lastFrameAudio')
       PROVE  TimeInv'
  <2>1. PICK ns : ns = files'
    OBVIOUS
  <2>2. Len(ns) = l /\ ns[l] = new /\ \A i \in 1 .. l : i # l => ns[i] = fs[i]
    BY <1>9, <1>16, <2>1
  <2>3. AllTimed(ns, ks)
    BY <1>11, <1>16, <2>2 DEF AllTimed
  <2> QED BY <1>6, <1>16, <2>1, <2>2, <2>3 DEF TimeInv
<1>17. CASE NoFile(f)
  <2>1. files' = files /\ mkv' = 0
    BY <1>17 DEF NoFile, CreationFails
  <2>2. AllTimed(files, ks)
    <3>1. ASSUME NEW i \in 1 .. Len(files) PROVE Timed(files[i], ks)
      <4>1. Len(files) <= Len(Opened(f)) /\ Opened(f)[i] = files[i]
        BY <1>1, <1>3, OpenedFiles DEF Handed
      <4>2. i \in 1 .. l
        BY <1>1, <1>8, <1>9, <4>1
      <4> QED BY <1>8, <1>11, <4>1, <4>2
    <3> QED BY <3>1 DEF AllTimed
  <2> QED BY <1>6, <2>1, <2>2 DEF TimeInv
<1>18. CASE RotationFails(f)
  <2>1. files' = gs /\ mkv' = 0
    BY <1>8, <1>9, <1>12, <1>14, <1>18 DEF RotationFails, CreationFails
  <2> QED BY <1>6, <1>15, <2>1 DEF TimeInv, AllTimed
<1>19. CASE Rotate(f)
  <2>1. PICK new : new = NewFile(SawHevc(f), 0)
    OBVIOUS
  <2>2. PICK w : w = VideoWritten(new, N, f, 0)
    OBVIOUS
  <2>3. /\ IsVideo(f) /\ files' = Append(gs, w) /\ mkv' = Len(files')
        /\ vLast' = 0 /\ vPos' = f.duration /\ aPos' = 0 /\ lastFrameAudio' = FALSE
    BY <1>2, <1>7, <1>8, <1>9, <1>12, <1>14, <1>19, <2>1, <2>2 DEF Rotate, NeedsRotation
  <2>4. /\ new \in FileSet /\ new.base = 0 /\ FramesIn(new) = <<>> /\ new.blocks = <<>> /\ new.idr = <<>>
    <3>1. new \in FileSet
      BY <1>1, <2>1, SawHevcType, NewFileType
    <3>2. new.base = 0
      BY <2>1 DEF NewFile
    <3> QED BY <2>1, <3>1, <3>2, NewFileFrames
  <2>5. /\ NumbersIn(new) = {} /\ HeldBack(new, hs) /\ Timed(new, hs)
        /\ \A vl, ap, la : Stands(new, hs, 0, vl, ap, la)
    BY <2>4, NewFileTimed
  <2>6. 0 \in Nat /\ 0 = StartIn(new, hs, N)
    BY <1>5, <2>5 DEF Stands
  <2>7. NumbersIn(new) \subseteq 1 .. Len(hs)
    BY <2>5
  <2>8. Timed(w, ks) /\ w.base = new.base /\ NumbersIn(w) = NumbersIn(new) \cup {N}
    BY <1>2, <1>5, <1>7, <2>2, <2>3, <2>4, <2>5, <2>6, <2>7, VideoTimed
  <2>9. Stands(w, ks, f.duration, 0, 0, FALSE)
    <3>1. Stands(w, Append(hs, f), 0 + f.duration, 0, 0, FALSE)
      BY <1>2, <1>5, <2>3, <2>4, <2>6, <2>7, <2>8, VideoStands
    <3>2. 0 + f.duration = f.duration
      BY <1>2
    <3> QED BY <1>7, <3>1, <3>2
  <2>10. PICK ns : ns = files'
    OBVIOUS
  <2>11. gs \in Seq(FileSet)
    BY <1>9, <1>13, <1>14, ClosedFile
  <2>12. Len(ns) = l + 1 /\ ns[l + 1] = w /\ \A i \in 1 .. l : ns[i] = gs[i]
    BY <1>15, <2>3, <2>10, <2>11
  <2>13. ASSUME NEW i \in 1 .. l + 1 PROVE Timed(ns[i], ks)
    <3>1. i \in 1 .. l \/ i = l + 1
      OBVIOUS
    <3> QED BY <1>15, <2>8, <2>12, <3>1
  <2>14. AllTimed(ns, ks)
    BY <2>12, <2>13 DEF AllTimed
  <2>15. Stands(ns[l + 1], ks, vPos', vLast', aPos', lastFrameAudio')
    BY <2>3, <2>9, <2>12
  <2> QED BY <1>6, <2>3, <2>10, <2>12, <2>14, <2>15 DEF TimeInv
<1>20. CASE WriteVideo(f)
  <2>1. PICK w : w = VideoWritten(cur, N, f, vPos)
    OBVIOUS
  <2>2. /\ IsVideo(f) /\ mkv' = l /\ files' = [fs EXCEPT ![l] = w]
        /\ vLast' = vPos /\ vPos' = vPos + f.duration /\ lastFrameAudio' = FALSE /\ aPos' = aPos
    BY <1>7, <1>8, <1>9, <1>12, <1>20, <2>1 DEF WriteVideo
  <2>3. PICK at \in Nat : at = vPos
    BY <1>1
  <2>4. Timed(w, ks) /\ w.base = cur.base /\ NumbersIn(w) = NumbersIn(cur) \cup {N}
    BY <1>2, <1>5, <1>7, <1>13, <2>1, <2>2, <2>3, VideoTimed
  <2>5. Stands(w, ks, at + f.duration, at, aPos, FALSE)
    BY <1>2, <1>5, <1>7, <1>13, <2>2, <2>3, <2>4, VideoStands
  <2>6. Stands(w, ks, vPos', vLast', aPos', lastFrameAudio')
    BY <2>2, <2>3, <2>5
  <2> QED BY <1>16, <2>2, <2>4, <2>6
<1>21. CASE WriteAudio(f)
  <2>1. /\ ~IsVideo(f) /\ mkv' = l /\ vPos' = vPos /\ vLast' = vLast
    BY <1>2, <1>9, <1>21 DEF WriteAudio
  <2>2. CASE HasAudio
    <3>1. PICK at \in Nat : at = AudioStart
      BY <1>1 DEF AudioStart
    <3>2. PICK w : w = AudioWritten(cur, N, at)
      OBVIOUS
    <3>3. files' = [fs EXCEPT ![l] = w] /\ aPos' = at + f.duration /\ lastFrameAudio' = TRUE
      BY <1>7, <1>8, <1>9, <1>12, <1>21, <2>2, <3>1, <3>2 DEF WriteAudio
    <3>4. Follows(cur, hs, at)
      BY <1>10, <1>12, <3>1 DEF Stands, Follows, AudioStart
    <3>5. /\ Timed(w, ks) /\ w.base = cur.base /\ NumbersIn(w) = NumbersIn(cur) \cup {N}
          /\ Len(w.blocks) > 0 /\ w.blocks[Len(w.blocks)].at = at
      BY <1>2, <1>5, <1>7, <1>13, <2>1, <3>2, <3>4, AudioTimed
    <3>6. Stands(w, ks, vPos, vLast, at + f.duration, TRUE)
      BY <1>2, <1>5, <1>7, <1>13, <2>1, <3>5, AudioStands
    <3>7. Stands(w, ks, vPos', vLast', aPos', lastFrameAudio')
      BY <2>1, <3>3, <3>6
    <3> QED BY <1>16, <2>1, <3>3, <3>5, <3>7
  <2>3. CASE ~HasAudio
    <3>1. files' = fs /\ aPos' = aPos /\ lastFrameAudio' = lastFrameAudio
      BY <1>8, <1>21, <2>3 DEF WriteAudio
    <3>2. files' = [fs EXCEPT ![l] = cur]
      BY <1>9, <1>12, <3>1
    <3>3. Timed(cur, ks)
      <4>1. l \in 1 .. l
        OBVIOUS
      <4> QED BY <1>11, <1>12, <4>1
    <3>4. Stands(cur, ks, vPos, vLast, aPos, lastFrameAudio)
      BY <1>2, <1>5, <1>7, <1>13, <2>1, AudioStands
    <3>5. Stands(cur, ks, vPos', vLast', aPos', lastFrameAudio')
      BY <2>1, <3>1, <3>4
    <3> QED BY <1>16, <2>1, <3>2, <3>3, <3>5
  <2> QED BY <2>2, <2>3
<1> QED BY <1>17, <1>18, <1>19, <1>20, <1>21 DEF writeFrame

LEMMA ClosingKeepsPositions ==
  ASSUME [Next]_vars, \A f \in NextFrames : ~writeFrame(f)
  PROVE  UNCHANGED <<vPos, vLast, aPos, lastFrameAudio>>
<1>1. \A i \in DOMAIN files : FileClosed(i) => UNCHANGED positions
  BY DEF FileClosed
<1>2. \A c \in Closers : Close(c) \/ CloseReturns(c) => UNCHANGED positions
  BY DEF Close, CloseReturns
<1>3. Stop => UNCHANGED positions
  BY DEF Stop
<1> QED BY <1>1, <1>2, <1>3 DEF Next, vars, positions

LEMMA TimedIsProperty ==
  ASSUME FilesInv, AllTimed(files, handed)
  PROVE  TimestampsAreMediaTime
<1>1. files \in Seq(FileSet)
  BY DEF FilesInv, Types
<1>2. ASSUME NEW i \in DOMAIN files, NEW b \in DOMAIN files[i].blocks
      PROVE  TimedBlock(files[i], b, handed)
  <2>1. files[i].blocks \in Seq(BlockSet)
    <3>1. files[i] \in FileSet
      BY <1>1
    <3> QED BY <3>1, Zenon DEF FileSet
  <2>2. i \in 1 .. Len(files) /\ b \in 1 .. Len(files[i].blocks)
    BY <1>1, <2>1
  <2> QED BY <2>2 DEF AllTimed, Timed
<1>3. \A i, n : StartOf(i, n) = StartIn(files[i], handed, n)
  BY Zenon DEF StartOf, StartIn, PicturesIn, Pictures
<1> QED BY <1>2, <1>3 DEF TimestampsAreMediaTime, TimedBlock

\* Blocks carry media time (mkvwriter.go, writeFrame and track.Write): what an IDR
\* picture that is held back, a rotation, a creation that fails and audio between
\* pictures do to the three positions, for any durations and number of frames.
THEOREM TimestampsFollowMediaTime == Spec => []TimestampsAreMediaTime
<1>1. Init => TimeInv
  BY DEF Init, TimeInv, AllTimed
<1>2. FilesInv /\ FramesInv /\ TimeInv /\ [Next]_vars => TimeInv'
  <2> SUFFICES ASSUME FilesInv, FramesInv, TimeInv, [Next]_vars PROVE TimeInv'
    OBVIOUS
  <2>1. CASE \E f \in NextFrames : writeFrame(f)
    BY <2>1, TimeStep
  <2>2. CASE \A f \in NextFrames : ~writeFrame(f)
    <3>1. /\ Len(files') = Len(files) /\ \A i \in 1 .. Len(files) : Keeps(files'[i], files[i])
          /\ handed' = handed /\ mkv' \in {0, mkv}
      BY <2>2, ClosingKeepsFrames
    <3>2. UNCHANGED <<vPos, vLast, aPos, lastFrameAudio>>
      BY <2>2, ClosingKeepsPositions
    <3>3. PICK gs : gs = files'
      OBVIOUS
    <3>4. AllTimed(gs, handed)
      BY <3>1, <3>3, KeptTimed DEF TimeInv, AllTimed
    <3>5. mkv' # 0 => Stands(gs[mkv], handed, vPos, vLast, aPos, lastFrameAudio)
      <4> SUFFICES ASSUME mkv' # 0 PROVE Stands(gs[mkv], handed, vPos, vLast, aPos, lastFrameAudio)
        OBVIOUS
      <4>1. mkv # 0 /\ mkv \in 1 .. Len(files)
        BY <3>1 DEF FilesInv, Types
      <4>2. Keeps(gs[mkv], files[mkv])
        BY <3>1, <3>3, <4>1
      <4>3. Stands(files[mkv], handed, vPos, vLast, aPos, lastFrameAudio)
        BY <4>1 DEF TimeInv
      <4> QED BY <4>2, <4>3, KeptTimed
    <3>6. mkv' # 0 => mkv' = mkv
      BY <3>1
    <3> QED BY <3>1, <3>2, <3>3, <3>4, <3>5, <3>6 DEF TimeInv
  <2> QED BY <2>1, <2>2
<1>3. FilesInv /\ TimeInv => TimestampsAreMediaTime
  BY TimedIsProperty DEF TimeInv
<1> QED BY <1>1, <1>2, <1>3, FramesInvariant, PTL DEF Spec
----------------------------------------------------------------------------
(* The units of a frame *)

Octet == 0 .. Base - 1
States == [zeroCount : Nat, found : BOOLEAN, nalu : Seq(Octet), emitted : Seq(Seq(Octet))]
Before(z, u, e) == [zeroCount |-> z, found |-> FALSE, nalu |-> u, emitted |-> e]
Found(z, u, e) == [zeroCount |-> z, found |-> TRUE, nalu |-> u, emitted |-> e]

LEMMA OctetType == Octet \subseteq Nat /\ 0 \in Octet /\ 1 \in Octet /\ Base \in Nat /\ Base >= 4
  BY NalUnitsAssumption DEF Octet

LEMMA StatesAre ==
  ASSUME NEW s \in States
  PROVE  \E z \in Nat, u \in Seq(Octet), e \in Seq(Seq(Octet)) : s = Before(z, u, e) \/ s = Found(z, u, e)
<1>1. s.zeroCount \in Nat /\ s.found \in BOOLEAN /\ s.nalu \in Seq(Octet) /\ s.emitted \in Seq(Seq(Octet))
  BY Zenon DEF States
<1>2. s = [zeroCount |-> s.zeroCount, found |-> s.found, nalu |-> s.nalu, emitted |-> s.emitted]
  BY Zenon DEF States
<1>3. s.found = TRUE \/ s.found = FALSE
  BY <1>1
<1>4. s = Before(s.zeroCount, s.nalu, s.emitted) \/ s = Found(s.zeroCount, s.nalu, s.emitted)
  BY <1>2, <1>3 DEF Before, Found
<1> QED BY <1>1, <1>4, Zenon

LEMMA StIsState ==
  ASSUME NEW z \in Nat, NEW u \in Seq(Octet), NEW e \in Seq(Seq(Octet))
  PROVE  Before(z, u, e) \in States /\ Found(z, u, e) \in States
  BY DEF States, Before, Found

\* What ReadByte does, one case after the other.
EndsUnit(z, b) == b = 1 /\ z >= 2
Counted(z, b) == IF b = 0 THEN z + 1 ELSE 0
Cut(e, v, z) == IF Len(v) > z + 1 THEN Append(e, SubSeq(v, 1, Len(v) - (z + 1))) ELSE e

LEMMA ReadBefore ==
  ASSUME NEW z \in Nat, NEW u, NEW e, NEW b \in Nat
  PROVE  /\ ~EndsUnit(z, b) => ReadByte(Before(z, u, e), b) = Before(Counted(z, b), u, e)
         /\ EndsUnit(z, b) => ReadByte(Before(z, u, e), b) = Found(z, <<>>, Cut(e, u, z))
  BY DEF ReadByte, Before, Found, EndsUnit, Counted, Cut, startCodeCount

LEMMA ReadFound ==
  ASSUME NEW z \in Nat, NEW u, NEW e, NEW b \in Nat
  PROVE  /\ ~EndsUnit(z, b) => ReadByte(Found(z, u, e), b) = Found(Counted(z, b), Append(u, b), e)
         /\ EndsUnit(z, b) => ReadByte(Found(z, u, e), b) = Found(z, <<>>, Cut(e, Append(u, b), z))
  BY DEF ReadByte, Before, Found, EndsUnit, Counted, Cut, startCodeCount

LEMMA CutType ==
  ASSUME NEW e \in Seq(Seq(Octet)), NEW v \in Seq(Octet), NEW z \in Nat PROVE Cut(e, v, z) \in Seq(Seq(Octet))
<1>1. PICK n \in Nat : n = Len(v)
  OBVIOUS
<1>2. CASE n > z + 1
  <2>1. PICK w \in Seq(Octet) : w = SubSeq(v, 1, n - (z + 1))
    <3>1. SubSeq(v, 1, n - (z + 1)) \in Seq(Octet)
      BY <1>1, <1>2
    <3> QED BY <3>1, Zenon
  <2>2. Append(e, w) \in Seq(Seq(Octet))
    OBVIOUS
  <2> QED BY <1>1, <1>2, <2>1, <2>2 DEF Cut
<1>3. CASE ~(n > z + 1)
  BY <1>1, <1>3 DEF Cut
<1> QED BY <1>2, <1>3

LEMMA ReadByteType == ASSUME NEW s \in States, NEW b \in Octet PROVE ReadByte(s, b) \in States
<1>0. b \in Nat
  BY OctetType
<1>1. PICK z \in Nat, u \in Seq(Octet), e \in Seq(Seq(Octet)) : s = Before(z, u, e) \/ s = Found(z, u, e)
  BY StatesAre, Zenon
<1>2. PICK v \in Seq(Octet) : v = Append(u, b)
  <2>1. Append(u, b) \in Seq(Octet)
    OBVIOUS
  <2> QED BY <2>1, Zenon
<1>3. Counted(z, b) \in Nat
  BY DEF Counted
<1>4. Cut(e, u, z) \in Seq(Seq(Octet)) /\ Cut(e, v, z) \in Seq(Seq(Octet))
  BY CutType, Zenon
<1>5. <<>> \in Seq(Octet)
  OBVIOUS
<1>6. CASE s = Before(z, u, e)
  <2>1. ReadByte(s, b) = Before(Counted(z, b), u, e) \/ ReadByte(s, b) = Found(z, <<>>, Cut(e, u, z))
    <3>1. \/ ReadByte(Before(z, u, e), b) = Before(Counted(z, b), u, e)
          \/ ReadByte(Before(z, u, e), b) = Found(z, <<>>, Cut(e, u, z))
      BY <1>0, ReadBefore, Zenon
    <3> QED BY <1>6, <3>1
  <2> QED BY <1>3, <1>4, <1>5, <2>1, StIsState, Zenon
<1>7. CASE s = Found(z, u, e)
  <2>1. ReadByte(s, b) = Found(Counted(z, b), v, e) \/ ReadByte(s, b) = Found(z, <<>>, Cut(e, v, z))
    <3>1. \/ ReadByte(Found(z, u, e), b) = Found(Counted(z, b), Append(u, b), e)
          \/ ReadByte(Found(z, u, e), b) = Found(z, <<>>, Cut(e, Append(u, b), z))
      BY <1>0, ReadFound
    <3> QED BY <1>2, <1>7, <3>1
  <2> QED BY <1>3, <1>4, <1>5, <2>1, StIsState, Zenon
<1> QED BY <1>1, <1>6, <1>7

\* The recursive function of ReadBytes.
IsReading(g, data) == g = [p \in 0 .. Len(data) |-> IF p = 0 THEN NothingRead ELSE ReadByte(g[p - 1], data[p])]
Reads(g, data, n) == g[0] = NothingRead /\ \A p \in 1 .. n : g[p] = ReadByte(g[p - 1], data[p])

LEMMA NothingReadType == NothingRead \in States /\ NothingRead = Before(0, <<>>, <<>>)
<1>1. 0 \in Nat /\ <<>> \in Seq(Octet) /\ <<>> \in Seq(Seq(Octet))
  OBVIOUS
<1> QED BY <1>1, StIsState DEF NothingRead, Before

LEMMA ReadingExists == ASSUME NEW data \in Seq(Octet) PROVE \E g : IsReading(g, data)
<1>1. PICK N \in Nat : N = Len(data)
  OBVIOUS
<1>2. PICK step : step = [k \in 1 .. N |-> [s \in States |-> ReadByte(s, data[k])]]
  OBVIOUS
<1>3. step \in [1 .. N -> [States -> States]]
  <2>1. \A k \in 1 .. N : data[k] \in Octet
    BY <1>1
  <2> QED BY <1>2, <2>1, ReadByteType
<1>4. PICK f \in [0 .. N -> States] : f[0] = NothingRead /\ \A k \in 1 .. N : f[k] = step[k][f[k - 1]]
  <2>1. Recursion(N, States, NothingRead, step)
    BY <1>3, NothingReadType, FunctionFromZero
  <2> QED BY <2>1 DEF Recursion
<1>5. ASSUME NEW k \in 0 .. N PROVE f[k] = IF k = 0 THEN NothingRead ELSE ReadByte(f[k - 1], data[k])
  <2>1. CASE k = 0
    BY <1>4, <2>1
  <2>2. CASE k # 0
    <3>1. k \in 1 .. N /\ k - 1 \in 0 .. N
      BY <2>2
    <3>2. step[k] = [s \in States |-> ReadByte(s, data[k])] /\ f[k - 1] \in States
      BY <1>2, <1>4, <3>1
    <3>3. step[k][f[k - 1]] = ReadByte(f[k - 1], data[k])
      BY <3>2
    <3> QED BY <1>4, <2>2, <3>1, <3>3
  <2> QED BY <2>1, <2>2
<1>6. f = [k \in 0 .. N |-> IF k = 0 THEN NothingRead ELSE ReadByte(f[k - 1], data[k])]
  BY <1>4, <1>5
<1> QED BY <1>1, <1>6 DEF IsReading

LEMMA ReadingIs ==
  ASSUME NEW data \in Seq(Octet) PROVE \E g : Reads(g, data, Len(data)) /\ ReadBytes(data) = g[Len(data)]
<1>1. PICK N \in Nat : N = Len(data)
  OBVIOUS
<1>2. PICK g : g = CHOOSE h : IsReading(h, data)
  OBVIOUS
<1>3. IsReading(g, data)
  BY <1>2, ReadingExists, Zenon
<1>4. ReadBytes(data) = g[N]
  BY <1>1, <1>2 DEF ReadBytes, IsReading
<1>5. g[0] = NothingRead /\ \A p \in 1 .. N : g[p] = ReadByte(g[p - 1], data[p])
  <2>1. \A p \in 0 .. N : g[p] = IF p = 0 THEN NothingRead ELSE ReadByte(g[p - 1], data[p])
    BY <1>1, <1>3, Zenon DEF IsReading
  <2>2. 0 \in 0 .. N /\ \A p \in 1 .. N : p \in 0 .. N /\ p # 0
    OBVIOUS
  <2>3. g[0] = NothingRead
    BY <2>1, <2>2, Zenon
  <2>4. \A p \in 1 .. N : g[p] = ReadByte(g[p - 1], data[p])
    BY <2>1, <2>2, Zenon
  <2> QED BY <2>3, <2>4
<1> QED BY <1>1, <1>4, <1>5 DEF Reads

\* As a fold: nothing, and one octet more.
LEMMA ReadNothing == ReadBytes(<<>>) = NothingRead
<1>1. <<>> \in Seq(Octet) /\ Len(<<>>) = 0
  OBVIOUS
<1>2. PICK g : Reads(g, <<>>, Len(<<>>)) /\ ReadBytes(<<>>) = g[Len(<<>>)]
  BY <1>1, ReadingIs
<1> QED BY <1>1, <1>2 DEF Reads

LEMMA ReadMore ==
  ASSUME NEW s \in Seq(Octet), NEW b \in Octet PROVE ReadBytes(Append(s, b)) = ReadByte(ReadBytes(s), b)
<1>1. PICK N \in Nat : N = Len(s)
  OBVIOUS
<1>2. PICK t \in Seq(Octet) : t = Append(s, b)
  <2>1. Append(s, b) \in Seq(Octet)
    OBVIOUS
  <2> QED BY <2>1, Zenon
<1>3. Len(t) = N + 1 /\ t[N + 1] = b /\ \A p \in 1 .. N : t[p] = s[p]
  BY <1>1, <1>2
<1>4. PICK g : Reads(g, s, N) /\ ReadBytes(s) = g[N]
  BY <1>1, ReadingIs
<1>5. PICK h : Reads(h, t, N + 1) /\ ReadBytes(t) = h[N + 1]
  BY <1>3, ReadingIs
<1> DEFINE T == {p \in Nat : p <= N => g[p] = h[p]}
<1>6. 0 \in T
  BY <1>4, <1>5 DEF Reads
<1>7. ASSUME NEW p \in Nat, p \in T PROVE p + 1 \in T
  <2> SUFFICES ASSUME p + 1 <= N PROVE g[p + 1] = h[p + 1]
    OBVIOUS
  <2>1. p + 1 \in 1 .. N /\ p + 1 \in 1 .. N + 1 /\ (p + 1) - 1 = p
    OBVIOUS
  <2>2. g[p] = h[p]
    BY <1>7
  <2>3. g[p + 1] = ReadByte(g[p], s[p + 1])
    BY <1>4, <2>1 DEF Reads
  <2>4. h[p + 1] = ReadByte(h[p], t[p + 1])
    BY <1>5, <2>1 DEF Reads
  <2>5. t[p + 1] = s[p + 1]
    BY <1>3, <2>1
  <2> QED BY <2>2, <2>3, <2>4, <2>5
<1> HIDE DEF T
<1>8. \A p \in Nat : p \in T
  BY <1>6, <1>7, NumbersFromZero
<1>9. g[N] = h[N]
  BY <1>8 DEF T
<1>10. h[N + 1] = ReadByte(h[N], t[N + 1])
  <2>1. N + 1 \in 1 .. N + 1 /\ (N + 1) - 1 = N
    OBVIOUS
  <2> QED BY <1>5, <2>1 DEF Reads
<1> QED BY <1>2, <1>3, <1>4, <1>5, <1>9, <1>10

(* What has been read gives no unit that loses its header. *)
Whole(u) == u # <<>> /\ ~LosesItsHeader(u)
AllWhole(e) == \A i \in 1 .. Len(e) : Whole(e[i])

\* The octets after a start code: none, a 00, or a beginning that loses nothing.
JustZero(u) == Len(u) = 1 /\ u[1] = 0
Pending(z, u) ==
  \/ u = <<>> /\ z >= 2
  \/ JustZero(u) /\ z >= 2
  \/ Whole(u) /\ ~JustZero(u)

IsBefore(s) == \E z \in Nat : s = Before(z, <<>>, <<>>)
IsFound(s) ==
  \E z \in Nat, u \in Seq(Octet), e \in Seq(Seq(Octet)) : s = Found(z, u, e) /\ Pending(z, u) /\ AllWhole(e)

LEMMA CutNothing ==
  ASSUME NEW z \in Nat, NEW e, NEW v \in Seq(Octet), Len(v) <= z + 1 PROVE Cut(e, v, z) = e
  BY DEF Cut

LEMMA WholeAppend ==
  ASSUME NEW e \in Seq(Seq(Octet)), NEW w \in Seq(Octet), AllWhole(e), Whole(w)
  PROVE  AllWhole(Append(e, w)) /\ Append(e, w) \in Seq(Seq(Octet))
<1>1. PICK n \in Nat : n = Len(e)
  OBVIOUS
<1>2. Len(Append(e, w)) = n + 1 /\ Append(e, w)[n + 1] = w /\ \A i \in 1 .. n : Append(e, w)[i] = e[i]
  BY <1>1
<1>3. Append(e, w) \in Seq(Seq(Octet))
  OBVIOUS
<1>4. ASSUME NEW i \in 1 .. n + 1 PROVE Whole(Append(e, w)[i])
  <2>1. CASE i \in 1 .. n
    BY <1>1, <1>2, <2>1 DEF AllWhole
  <2>2. CASE i = n + 1
    BY <1>2, <2>2
  <2>3. i \in 1 .. n \/ i = n + 1
    OBVIOUS
  <2> QED BY <2>1, <2>2, <2>3
<1> QED BY <1>2, <1>3, <1>4 DEF AllWhole

\* What a start code leaves of a unit.
LEMMA CutIsWhole ==
  ASSUME NEW z \in Nat, z >= 2, NEW u \in Seq(Octet), NEW e \in Seq(Seq(Octet)), Pending(z, u), AllWhole(e)
  PROVE  AllWhole(Cut(e, Append(u, 1), z)) /\ Cut(e, Append(u, 1), z) \in Seq(Seq(Octet))
<1>1. PICK n \in Nat : n = Len(u)
  OBVIOUS
<1>2. PICK v \in Seq(Octet) : v = Append(u, 1)
  <2>1. Append(u, 1) \in Seq(Octet)
    BY OctetType
  <2> QED BY <2>1, Zenon
<1>3. Len(v) = n + 1 /\ v[n + 1] = 1 /\ \A i \in 1 .. n : v[i] = u[i]
  BY <1>1, <1>2
<1>4. CASE n + 1 <= z + 1
  BY <1>2, <1>3, <1>4, CutNothing
<1>5. CASE ~(n + 1 <= z + 1)
  <2>1. Whole(u)
    <3>1. u # <<>> /\ ~JustZero(u)
      BY <1>1, <1>5 DEF JustZero
    <3> QED BY <3>1 DEF Pending
  <2>2. PICK m \in 1 .. n : m = (n + 1) - (z + 1)
    BY <1>5
  <2>3. PICK w \in Seq(Octet) : w = SubSeq(v, 1, m)
    <3>1. SubSeq(v, 1, m) \in Seq(Octet)
      BY <1>3
    <3> QED BY <3>1, Zenon
  <2>4. Len(w) = m /\ \A i \in 1 .. m : w[i] = u[i]
    BY <1>3, <2>3
  <2>5. Whole(w)
    <3>1. w # <<>>
      BY <2>4
    <3>2. w[1] = u[1] /\ u[1] # 1
      BY <2>1, <2>4 DEF Whole, LosesItsHeader
    <3>3. ASSUME m > 1, w[1] = 0, w[2] = 1 PROVE FALSE
      BY <1>1, <2>1, <2>4, <3>3 DEF Whole, LosesItsHeader
    <3> QED BY <2>4, <3>1, <3>2, <3>3 DEF Whole, LosesItsHeader
  <2>6. Cut(e, v, z) = Append(e, w)
    BY <1>3, <1>5, <2>2, <2>3 DEF Cut
  <2> QED BY <1>2, <2>5, <2>6, WholeAppend
<1> QED BY <1>4, <1>5

\* What another octet makes of it.
LEMMA PendingAppend ==
  ASSUME NEW z \in Nat, NEW u \in Seq(Octet), NEW b \in Octet, Pending(z, u), ~EndsUnit(z, b)
  PROVE  Pending(Counted(z, b), Append(u, b)) /\ Append(u, b) \in Seq(Octet)
<1>1. PICK n \in Nat : n = Len(u)
  OBVIOUS
<1>2. PICK v \in Seq(Octet) : v = Append(u, b)
  <2>1. Append(u, b) \in Seq(Octet)
    OBVIOUS
  <2> QED BY <2>1, Zenon
<1>3. Len(v) = n + 1 /\ v[n + 1] = b /\ \A i \in 1 .. n : v[i] = u[i]
  BY <1>1, <1>2
<1>4. b \in Nat
  BY OctetType
<1>5. CASE u = <<>> /\ z >= 2
  <2>1. v = <<b>> /\ b # 1 /\ v # <<>>
    BY <1>2, <1>4, <1>5 DEF EndsUnit
  <2>2. CASE b = 0
    <3>1. Counted(z, b) >= 2
      BY <1>5, <2>2 DEF Counted
    <3>2. JustZero(v)
      BY <1>1, <1>3, <1>5, <2>2 DEF JustZero
    <3> QED BY <1>2, <3>1, <3>2 DEF Pending
  <2>3. CASE b # 0
    <3>1. v[1] = b /\ Len(v) = 1
      BY <2>1
    <3>2. ~JustZero(v)
      BY <2>3, <3>1 DEF JustZero
    <3>3. Whole(v)
      BY <2>1, <3>1 DEF Whole, LosesItsHeader
    <3> QED BY <1>2, <3>2, <3>3 DEF Pending
  <2> QED BY <2>2, <2>3
<1>6. CASE JustZero(u) /\ z >= 2
  <2>1. Len(v) = 2 /\ v[1] = 0 /\ v[2] = b /\ b # 1
    BY <1>1, <1>3, <1>4, <1>6 DEF EndsUnit, JustZero
  <2>3. v # <<>>
    BY <1>3
  <2>2. Whole(v) /\ ~JustZero(v)
    BY <2>1, <2>3 DEF Whole, LosesItsHeader, JustZero
  <2> QED BY <1>2, <2>2 DEF Pending
<1>7. CASE Whole(u) /\ ~JustZero(u)
  <2>1. n >= 1 /\ u[1] # 1 /\ (n > 1 /\ u[1] = 0 => u[2] # 1)
    BY <1>1, <1>7 DEF Whole, LosesItsHeader
  <2>2. n = 1 => u[1] # 0
    BY <1>1, <1>7 DEF JustZero
  <2>3. v[1] = u[1] /\ (n > 1 => v[2] = u[2]) /\ v # <<>> /\ ~JustZero(v)
    BY <1>3, <2>1 DEF JustZero
  <2>4. Whole(v)
    BY <1>3, <2>1, <2>2, <2>3 DEF Whole, LosesItsHeader
  <2> QED BY <1>2, <2>3, <2>4 DEF Pending
<1> QED BY <1>5, <1>6, <1>7 DEF Pending

ReadsWhole(s) == IsBefore(s) \/ IsFound(s)

LEMMA ReadByteKeepsWhole ==
  ASSUME NEW s, NEW b \in Octet, ReadsWhole(s) PROVE ReadsWhole(ReadByte(s, b))
<1>0. b \in Nat
  BY OctetType
<1>1. CASE IsBefore(s)
  <2>1. PICK z \in Nat : s = Before(z, <<>>, <<>>)
    BY <1>1 DEF IsBefore
  <2>2. CASE EndsUnit(z, b)
    <3>1. ReadByte(s, b) = Found(z, <<>>, Cut(<<>>, <<>>, z))
      BY <1>0, <2>1, <2>2, ReadBefore
    <3>2. <<>> \in Seq(Octet) /\ <<>> \in Seq(Seq(Octet)) /\ Len(<<>>) = 0 /\ Len(<<>>) <= z + 1
      OBVIOUS
    <3>3. Cut(<<>>, <<>>, z) = <<>>
      BY <3>2, CutNothing
    <3>4. Pending(z, <<>>) /\ AllWhole(<<>>)
      BY <2>2, <3>2 DEF Pending, AllWhole, EndsUnit
    <3> QED BY <3>1, <3>2, <3>3, <3>4 DEF ReadsWhole, IsFound
  <2>3. CASE ~EndsUnit(z, b)
    <3>1. ReadByte(s, b) = Before(Counted(z, b), <<>>, <<>>)
      BY <1>0, <2>1, <2>3, ReadBefore
    <3>2. Counted(z, b) \in Nat
      BY DEF Counted
    <3> QED BY <3>1, <3>2 DEF ReadsWhole, IsBefore
  <2> QED BY <2>2, <2>3
<1>2. CASE IsFound(s)
  <2>1. PICK z \in Nat, u \in Seq(Octet), e \in Seq(Seq(Octet)) : s = Found(z, u, e) /\ Pending(z, u) /\ AllWhole(e)
    BY <1>2 DEF IsFound
  <2>2. CASE EndsUnit(z, b)
    <3>1. b = 1 /\ z >= 2
      BY <2>2 DEF EndsUnit
    <3>2. ReadByte(s, b) = Found(z, <<>>, Cut(e, Append(u, 1), z))
      BY <1>0, <2>1, <2>2, <3>1, ReadFound
    <3>3. AllWhole(Cut(e, Append(u, 1), z)) /\ Cut(e, Append(u, 1), z) \in Seq(Seq(Octet))
      BY <2>1, <3>1, CutIsWhole
    <3>4. <<>> \in Seq(Octet) /\ Pending(z, <<>>)
      BY <3>1 DEF Pending
    <3> QED BY <3>2, <3>3, <3>4, Zenon DEF ReadsWhole, IsFound
  <2>3. CASE ~EndsUnit(z, b)
    <3>1. ReadByte(s, b) = Found(Counted(z, b), Append(u, b), e)
      BY <1>0, <2>1, <2>3, ReadFound
    <3>2. Counted(z, b) \in Nat
      BY DEF Counted
    <3>3. Pending(Counted(z, b), Append(u, b)) /\ Append(u, b) \in Seq(Octet)
      BY <2>1, <2>3, PendingAppend
    <3> QED BY <2>1, <3>1, <3>2, <3>3, Zenon DEF ReadsWhole, IsFound
  <2> QED BY <2>2, <2>3
<1> QED BY <1>1, <1>2 DEF ReadsWhole

LEMMA ReadBytesWhole == \A data \in Seq(Octet) : ReadsWhole(ReadBytes(data))
<1> DEFINE T == {s \in Seq(Octet) : ReadsWhole(ReadBytes(s))}
<1>1. <<>> \in T
  <2>1. IsBefore(NothingRead)
    BY NothingReadType DEF IsBefore
  <2>2. <<>> \in Seq(Octet)
    OBVIOUS
  <2> QED BY <2>1, <2>2, ReadNothing, Zenon DEF ReadsWhole
<1>2. ASSUME NEW s \in Seq(Octet), NEW b \in Octet, s \in T PROVE Append(s, b) \in T
  <2>1. Append(s, b) \in Seq(Octet)
    OBVIOUS
  <2>2. ReadsWhole(ReadByte(ReadBytes(s), b))
    BY <1>2, ReadByteKeepsWhole, Zenon
  <2>3. ReadsWhole(ReadBytes(Append(s, b)))
    BY <2>2, ReadMore
  <2> QED BY <2>1, <2>3
<1> HIDE DEF T
<1>3. \A s \in Seq(Octet) : s \in T
  BY <1>1, <1>2, SequencesGrow
<1> QED BY <1>3 DEF T

\* The units that are emitted, the last one at the end of the frame.
All(s) == IF s.nalu = <<>> THEN s.emitted ELSE Append(s.emitted, s.nalu)

LEMMA AllAreWhole ==
  ASSUME NEW s, ReadsWhole(s) PROVE All(s) \in Seq(Seq(Octet)) /\ AllWhole(All(s))
<1>1. CASE IsBefore(s)
  <2>1. s.nalu = <<>> /\ s.emitted = <<>>
    BY <1>1 DEF IsBefore, Before
  <2>2. <<>> \in Seq(Seq(Octet)) /\ AllWhole(<<>>)
    BY DEF AllWhole
  <2> QED BY <2>1, <2>2 DEF All
<1>2. CASE IsFound(s)
  <2>1. PICK z \in Nat, u \in Seq(Octet), e \in Seq(Seq(Octet)) : s = Found(z, u, e) /\ Pending(z, u) /\ AllWhole(e)
    BY <1>2 DEF IsFound
  <2>2. s.nalu = u /\ s.emitted = e
    BY <2>1 DEF Found
  <2>3. CASE u = <<>>
    BY <2>1, <2>2, <2>3 DEF All
  <2>4. CASE u # <<>>
    <3>1. Whole(u)
      BY <2>1, <2>4 DEF Pending, Whole, JustZero, LosesItsHeader
    <3> QED BY <2>1, <2>2, <2>4, <3>1, WholeAppend, Zenon DEF All
  <2> QED BY <2>3, <2>4
<1> QED BY <1>1, <1>2 DEF ReadsWhole

(* A frame in Annex B is read one start code and one unit after the other. *)

\* The first j octets of t, behind s.
Upto(s, t, j) == s \o SubSeq(t, 1, j)

LEMMA UptoIs ==
  ASSUME NEW s \in Seq(Octet), NEW t \in Seq(Octet)
  PROVE  /\ Upto(s, t, 0) = s /\ Upto(s, t, Len(t)) = s \o t
         /\ \A j \in 0 .. Len(t) : Upto(s, t, j) \in Seq(Octet)
<1>1. PICK N \in Nat : N = Len(t)
  OBVIOUS
<1>2. SubSeq(t, 1, 0) = <<>> /\ SubSeq(t, 1, N) = t
  BY <1>1
<1>3. s \o <<>> = s
  OBVIOUS
<1>4. ASSUME NEW j \in 0 .. N PROVE Upto(s, t, j) \in Seq(Octet)
  <2>1. SubSeq(t, 1, j) \in Seq(Octet)
    BY <1>1
  <2> QED BY <2>1 DEF Upto
<1> QED BY <1>1, <1>2, <1>3, <1>4 DEF Upto

LEMMA ReadNext ==
  ASSUME NEW s \in Seq(Octet), NEW t \in Seq(Octet), NEW j \in 0 .. Len(t) - 1
  PROVE  ReadBytes(Upto(s, t, j + 1)) = ReadByte(ReadBytes(Upto(s, t, j)), t[j + 1])
<1>1. PICK N \in Nat : N = Len(t)
  OBVIOUS
<1>2. t[j + 1] \in Octet
  BY <1>1
<1>3. Upto(s, t, j) \in Seq(Octet)
  BY <1>1, UptoIs
<1>4. PICK x \in Seq(Octet) : x = SubSeq(t, 1, j)
  <2>1. SubSeq(t, 1, j) \in Seq(Octet)
    BY <1>1
  <2> QED BY <2>1, Zenon
<1>5. SubSeq(t, 1, j + 1) = Append(x, t[j + 1])
  BY <1>1, <1>2, <1>4
<1>6. s \o Append(x, t[j + 1]) = Append(s \o x, t[j + 1])
  BY <1>2
<1>7. Upto(s, t, j + 1) = Append(Upto(s, t, j), t[j + 1])
  BY <1>4, <1>5, <1>6 DEF Upto
<1> QED BY <1>2, <1>3, <1>7, ReadMore

\* A unit as frames have them.
IsUnit(u) ==
  /\ u \in Seq(Octet) /\ Len(u) >= 1 /\ u[Len(u)] # 0
  /\ \A i \in 1 .. Len(u) : i > 2 /\ u[i - 2] = 0 /\ u[i - 1] = 0 => u[i] > 2

\* The count of zeros after the first j octets of a unit.
Zeros(u, j, z) ==
  /\ j >= 1 /\ u[j] # 0 => z = 0
  /\ z >= 2 => \/ j = 0
               \/ j = 1 /\ u[1] = 0
               \/ j >= 2 /\ u[j - 1] = 0 /\ u[j] = 0

LEMMA ZerosAtEnd == ASSUME NEW u, NEW j \in Nat, j >= 1 /\ u[j] # 0, NEW z, Zeros(u, j, z) PROVE z = 0
  BY Zenon DEF Zeros

LEMMA ZerosNext ==
  ASSUME NEW u, IsUnit(u), ~LosesItsHeader(u), NEW j \in 0 .. Len(u) - 1, NEW z \in Nat, Zeros(u, j, z)
  PROVE  ~EndsUnit(z, u[j + 1]) /\ Zeros(u, j + 1, Counted(z, u[j + 1])) /\ Counted(z, u[j + 1]) \in Nat
<1>1. PICK N \in Nat : N = Len(u)
  BY DEF IsUnit
<1>2. PICK b \in Nat : b = u[j + 1]
  <2>1. u[j + 1] \in Octet
    BY <1>1 DEF IsUnit
  <2> QED BY <2>1, OctetType
<1>3. u[1] # 1 /\ (N > 1 /\ u[1] = 0 => u[2] # 1)
  BY <1>1 DEF LosesItsHeader
<1>4. ASSUME b = 1, z >= 2 PROVE FALSE
  <2>1. CASE j = 0
    <3>1. j + 1 = 1
      BY <2>1
    <3> QED BY <1>2, <1>3, <1>4, <3>1
  <2>2. CASE j = 1 /\ u[1] = 0
    <3>1. j + 1 = 2 /\ N > 1
      BY <1>1, <2>2
    <3> QED BY <1>2, <1>3, <1>4, <2>2, <3>1
  <2>3. CASE j >= 2 /\ u[j - 1] = 0 /\ u[j] = 0
    <3>1. j + 1 \in 1 .. N /\ j + 1 > 2 /\ (j + 1) - 2 = j - 1 /\ (j + 1) - 1 = j
      BY <1>1, <2>3
    <3>2. u[j + 1] > 2
      BY <1>1, <2>3, <3>1 DEF IsUnit
    <3> QED BY <1>2, <1>4, <3>2
  <2> QED BY <1>4, <2>1, <2>2, <2>3 DEF Zeros
<1>5. Counted(z, b) \in Nat
  BY DEF Counted
<1>6. (j + 1) - 1 = j
  OBVIOUS
<1>7. Zeros(u, j + 1, Counted(z, b))
  <2>1. CASE b # 0
    <3>1. Counted(z, b) = 0
      BY <2>1 DEF Counted
    <3> QED BY <3>1 DEF Zeros
  <2>2. CASE b = 0
    <3>1. Counted(z, b) = z + 1
      BY <2>2 DEF Counted
    <3>2. CASE j = 0
      <4>0. j + 1 = 1
        BY <3>2
      <4>1. j + 1 = 1 /\ u[1] = 0
        BY <1>2, <2>2, <4>0
      <4> QED BY <3>1, <4>1 DEF Zeros
    <3>3. CASE j >= 1
      <4>1. z >= 1 => u[j] = 0
        BY <3>3 DEF Zeros
      <4>2. j + 1 >= 2
        BY <3>3
      <4> QED BY <1>2, <1>6, <2>2, <3>1, <4>1, <4>2 DEF Zeros
    <3> QED BY <3>2, <3>3
  <2> QED BY <2>1, <2>2
<1> QED BY <1>2, <1>4, <1>5, <1>7 DEF EndsUnit

LEMMA ReadUnit ==
  ASSUME NEW s \in Seq(Octet), NEW u, IsUnit(u), ~LosesItsHeader(u), NEW z \in Nat, z >= 2, NEW e,
         ReadBytes(s) = Found(z, <<>>, e)
  PROVE  ReadBytes(s \o u) = Found(0, u, e)
<1>1. PICK N \in Nat : N = Len(u)
  BY DEF IsUnit
<1>2. u \in Seq(Octet)
  BY DEF IsUnit
<1> DEFINE R(j) == \E y \in Nat : Zeros(u, j, y) /\ ReadBytes(Upto(s, u, j)) = Found(y, SubSeq(u, 1, j), e)
           T == {j \in Nat : j <= N => R(j)}
<1>3. 0 \in T
  <2>1. Upto(s, u, 0) = s /\ SubSeq(u, 1, 0) = <<>>
    BY <1>2, UptoIs
  <2>2. Zeros(u, 0, z)
    BY DEF Zeros
  <2> QED BY <2>1, <2>2
<1>4. ASSUME NEW j \in Nat, j \in T PROVE j + 1 \in T
  <2> SUFFICES ASSUME j + 1 <= N PROVE R(j + 1)
    OBVIOUS
  <2>1. j \in 0 .. Len(u) - 1
    BY <1>1
  <2>2. PICK y \in Nat : Zeros(u, j, y) /\ ReadBytes(Upto(s, u, j)) = Found(y, SubSeq(u, 1, j), e)
    BY <1>1, <1>4, <2>1
  <2> HIDE DEF T, R
  <2>3. ~EndsUnit(y, u[j + 1]) /\ Zeros(u, j + 1, Counted(y, u[j + 1])) /\ Counted(y, u[j + 1]) \in Nat
    BY <2>1, <2>2, ZerosNext
  <2>4. u[j + 1] \in Octet /\ u[j + 1] \in Nat
    <3>1. u[j + 1] \in Octet
      BY <1>1, <1>2, <2>1
    <3> QED BY <3>1, OctetType
  <2>5. ReadBytes(Upto(s, u, j + 1)) = ReadByte(ReadBytes(Upto(s, u, j)), u[j + 1])
    BY <1>2, <2>1, ReadNext
  <2>6. ReadByte(Found(y, SubSeq(u, 1, j), e), u[j + 1])
          = Found(Counted(y, u[j + 1]), Append(SubSeq(u, 1, j), u[j + 1]), e)
    BY <2>3, <2>4, ReadFound
  <2>7. Append(SubSeq(u, 1, j), u[j + 1]) = SubSeq(u, 1, j + 1)
    BY <1>1, <1>2, <2>1, <2>4
  <2> QED BY <2>2, <2>3, <2>5, <2>6, <2>7 DEF R
<1> HIDE DEF T
<1>5. \A j \in Nat : j \in T
  BY <1>3, <1>4, NumbersFromZero
<1>6. R(N)
  BY <1>5 DEF T
<1>7. PICK y \in Nat : Zeros(u, N, y) /\ ReadBytes(Upto(s, u, N)) = Found(y, SubSeq(u, 1, N), e)
  BY <1>6
<1>8. y = 0
  <2>1. N >= 1 /\ u[N] # 0
    BY <1>1 DEF IsUnit
  <2>2. Zeros(u, N, y)
    BY <1>7
  <2> QED BY <2>1, <2>2, ZerosAtEnd, Zenon
<1>9. SubSeq(u, 1, N) = u /\ Upto(s, u, N) = s \o u
  <2>1. SubSeq(u, 1, Len(u)) = u
    BY <1>2
  <2> QED BY <1>1, <1>2, <2>1, UptoIs, Zenon
<1> QED BY <1>7, <1>8, <1>9

\* A start code before the first unit, or behind a unit.
Codes == {startCode3, startCode4}

LEMMA CodesAre ==
  /\ \A c \in Codes : c \in Seq(Octet) /\ (c = <<0, 0, 1>> \/ c = <<0, 0, 0, 1>>)
  /\ <<0, 0, 1>> \in Seq(Octet) /\ <<0, 0, 0, 1>> \in Seq(Octet)
<1>1. <<0, 0, 1>> \in Seq(Octet) /\ <<0, 0, 0, 1>> \in Seq(Octet)
  BY OctetType
<1> QED BY <1>1 DEF Codes, startCode3, startCode4

LEMMA Read3 ==
  ASSUME NEW s \in Seq(Octet)
  PROVE  ReadBytes(s \o <<0, 0, 1>>) = ReadByte(ReadByte(ReadByte(ReadBytes(s), 0), 0), 1)
<1>1. PICK c \in Seq(Octet) : c = <<0, 0, 1>>
  BY CodesAre
<1>2. Len(c) = 3 /\ c[1] = 0 /\ c[2] = 0 /\ c[3] = 1
  BY <1>1
<1>0. 0 \in 0 .. Len(c) - 1 /\ 1 \in 0 .. Len(c) - 1 /\ 2 \in 0 .. Len(c) - 1
  BY <1>2
<1>3. Upto(s, c, 0) = s /\ Upto(s, c, 3) = s \o c
  BY <1>2, UptoIs
<1>4. ReadBytes(Upto(s, c, 0 + 1)) = ReadByte(ReadBytes(Upto(s, c, 0)), c[0 + 1])
  BY <1>0, ReadNext
<1>5. ReadBytes(Upto(s, c, 1 + 1)) = ReadByte(ReadBytes(Upto(s, c, 1)), c[1 + 1])
  BY <1>0, ReadNext
<1>6. ReadBytes(Upto(s, c, 2 + 1)) = ReadByte(ReadBytes(Upto(s, c, 2)), c[2 + 1])
  BY <1>0, ReadNext
<1>7. 0 + 1 = 1 /\ 1 + 1 = 2 /\ 2 + 1 = 3
  OBVIOUS
<1> QED BY <1>1, <1>2, <1>3, <1>4, <1>5, <1>6, <1>7

LEMMA Read4 ==
  ASSUME NEW s \in Seq(Octet)
  PROVE  ReadBytes(s \o <<0, 0, 0, 1>>) = ReadByte(ReadByte(ReadByte(ReadByte(ReadBytes(s), 0), 0), 0), 1)
<1>1. PICK c \in Seq(Octet) : c = <<0, 0, 0, 1>>
  BY CodesAre
<1>2. Len(c) = 4 /\ c[1] = 0 /\ c[2] = 0 /\ c[3] = 0 /\ c[4] = 1
  BY <1>1
<1>0. 0 \in 0 .. Len(c) - 1 /\ 1 \in 0 .. Len(c) - 1 /\ 2 \in 0 .. Len(c) - 1 /\ 3 \in 0 .. Len(c) - 1
  BY <1>2
<1>3. Upto(s, c, 0) = s /\ Upto(s, c, 4) = s \o c
  BY <1>2, UptoIs
<1>4. ReadBytes(Upto(s, c, 0 + 1)) = ReadByte(ReadBytes(Upto(s, c, 0)), c[0 + 1])
  BY <1>0, ReadNext
<1>5. ReadBytes(Upto(s, c, 1 + 1)) = ReadByte(ReadBytes(Upto(s, c, 1)), c[1 + 1])
  BY <1>0, ReadNext
<1>6. ReadBytes(Upto(s, c, 2 + 1)) = ReadByte(ReadBytes(Upto(s, c, 2)), c[2 + 1])
  BY <1>0, ReadNext
<1>7. ReadBytes(Upto(s, c, 3 + 1)) = ReadByte(ReadBytes(Upto(s, c, 3)), c[3 + 1])
  BY <1>0, ReadNext
<1>8. 0 + 1 = 1 /\ 1 + 1 = 2 /\ 2 + 1 = 3 /\ 3 + 1 = 4
  OBVIOUS
<1> QED BY <1>1, <1>2, <1>3, <1>4, <1>5, <1>6, <1>7, <1>8

LEMMA ReadZero ==
  ASSUME NEW z \in Nat, NEW u, NEW e
  PROVE  /\ ReadByte(Before(z, u, e), 0) = Before(z + 1, u, e)
         /\ ReadByte(Found(z, u, e), 0) = Found(z + 1, Append(u, 0), e)
<1>1. ~EndsUnit(z, 0) /\ Counted(z, 0) = z + 1 /\ 0 \in Nat
  BY DEF EndsUnit, Counted
<1>2. ReadByte(Before(z, u, e), 0) = Before(Counted(z, 0), u, e)
  BY <1>1, ReadBefore
<1>3. ReadByte(Found(z, u, e), 0) = Found(Counted(z, 0), Append(u, 0), e)
  BY <1>1, ReadFound
<1> QED BY <1>1, <1>2, <1>3

LEMMA ReadOne ==
  ASSUME NEW z \in Nat, z >= 2, NEW u, NEW e
  PROVE  /\ ReadByte(Before(z, u, e), 1) = Found(z, <<>>, Cut(e, u, z))
         /\ ReadByte(Found(z, u, e), 1) = Found(z, <<>>, Cut(e, Append(u, 1), z))
<1>1. EndsUnit(z, 1)
  BY DEF EndsUnit
<1> QED BY <1>1, ReadBefore, ReadFound

LEMMA ReadFirst ==
  ASSUME NEW c \in Codes PROVE \E z \in Nat : z >= 2 /\ ReadBytes(c) = Found(z, <<>>, <<>>)
<1>0. <<>> \in Seq(Octet)
  OBVIOUS
<1>1. PICK s \in Seq(Octet) : s = <<>>
  BY <1>0, Zenon
<1>2. ReadBytes(s) = Before(0, <<>>, <<>>)
  BY <1>1, ReadNothing, NothingReadType
<1>3. Len(<<>>) = 0 /\ <<>> \in Seq(Octet)
  OBVIOUS
<1>4. CASE c = <<0, 0, 1>>
  <2>1. ReadBytes(s \o c) = ReadByte(ReadByte(ReadByte(Before(0, <<>>, <<>>), 0), 0), 1)
    BY <1>2, <1>4, Read3
  <2>2. ReadByte(ReadByte(Before(0, <<>>, <<>>), 0), 0) = Before(2, <<>>, <<>>)
    BY ReadZero
  <2>3. ReadByte(Before(2, <<>>, <<>>), 1) = Found(2, <<>>, Cut(<<>>, <<>>, 2))
    BY ReadOne
  <2>4. Cut(<<>>, <<>>, 2) = <<>>
    BY <1>3 DEF Cut
  <2>5. s \o c = c
    BY <1>1, CodesAre, EmptyFirst
  <2> QED BY <2>1, <2>2, <2>3, <2>4, <2>5
<1>5. CASE c = <<0, 0, 0, 1>>
  <2>1. ReadBytes(s \o c) = ReadByte(ReadByte(ReadByte(ReadByte(Before(0, <<>>, <<>>), 0), 0), 0), 1)
    BY <1>2, <1>5, Read4
  <2>2. ReadByte(ReadByte(ReadByte(Before(0, <<>>, <<>>), 0), 0), 0) = Before(3, <<>>, <<>>)
    BY ReadZero
  <2>3. ReadByte(Before(3, <<>>, <<>>), 1) = Found(3, <<>>, Cut(<<>>, <<>>, 3))
    BY ReadOne
  <2>4. Cut(<<>>, <<>>, 3) = <<>>
    BY <1>3 DEF Cut
  <2>5. s \o c = c
    BY <1>1, CodesAre, EmptyFirst
  <2> QED BY <2>1, <2>2, <2>3, <2>4, <2>5
<1> QED BY <1>4, <1>5, CodesAre

\* The octets of the start code are cut off the unit before it.
LEMMA CutCode ==
  ASSUME NEW u \in Seq(Octet), Len(u) >= 1, NEW e
  PROVE  /\ Cut(e, Append(Append(Append(u, 0), 0), 1), 2) = Append(e, u)
         /\ Cut(e, Append(Append(Append(Append(u, 0), 0), 0), 1), 3) = Append(e, u)
<1>1. PICK n \in Nat : n = Len(u)
  OBVIOUS
<1> DEFINE Behind(x, m) == x \in Seq(Octet) /\ Len(x) = m /\ SubSeq(x, 1, n) = u
<1>2. ASSUME NEW b \in Octet, NEW x, NEW m \in Nat, m >= n, Behind(x, m) PROVE Behind(Append(x, b), m + 1)
  <2>1. x \in Seq(Octet) /\ Len(x) = m
    BY <1>2
  <2>2. Append(x, b) \in Seq(Octet) /\ Len(Append(x, b)) = m + 1
    BY <2>1
  <2>3. SubSeq(Append(x, b), 1, n) = SubSeq(x, 1, n)
    BY <1>2, <2>1
  <2> QED BY <1>2, <2>2, <2>3
<1>3. 0 \in Octet /\ 1 \in Octet
  BY OctetType
<1>4. Behind(u, n)
  BY <1>1
<1>a. n \in Nat /\ n + 1 \in Nat /\ n + 2 \in Nat /\ n + 3 \in Nat
  OBVIOUS
<1>b. n >= n /\ n + 1 >= n /\ n + 2 >= n /\ n + 3 >= n
  OBVIOUS
<1>c. (n + 1) + 1 = n + 2 /\ (n + 2) + 1 = n + 3 /\ (n + 3) + 1 = n + 4
  OBVIOUS
<1> HIDE DEF Behind
<1>5. PICK x : x = Append(u, 0) /\ Behind(x, n + 1)
  BY <1>2, <1>3, <1>4, <1>a, <1>b, Zenon
<1>6. PICK y : y = Append(x, 0) /\ Behind(y, n + 2)
  BY <1>2, <1>3, <1>5, <1>a, <1>b, <1>c, Zenon
<1>7. PICK v : v = Append(y, 1) /\ Behind(v, n + 3)
  BY <1>2, <1>3, <1>6, <1>a, <1>b, <1>c, Zenon
<1>8. PICK w : w = Append(y, 0) /\ Behind(w, n + 3)
  BY <1>2, <1>3, <1>6, <1>a, <1>b, <1>c, Zenon
<1>9. PICK t : t = Append(w, 1) /\ Behind(t, n + 4)
  BY <1>2, <1>3, <1>8, <1>a, <1>b, <1>c, Zenon
<1>10. Cut(e, v, 2) = Append(e, u)
  <2>1. Len(v) = n + 3 /\ SubSeq(v, 1, n) = u
    BY <1>7 DEF Behind
  <2>2. Len(v) > 2 + 1 /\ Len(v) - (2 + 1) = n
    BY <1>1, <2>1
  <2> QED BY <2>1, <2>2, Zenon DEF Cut
<1>11. Cut(e, t, 3) = Append(e, u)
  <2>1. Len(t) = n + 4 /\ SubSeq(t, 1, n) = u
    BY <1>9 DEF Behind
  <2>2. Len(t) > 3 + 1 /\ Len(t) - (3 + 1) = n
    BY <1>1, <2>1
  <2> QED BY <2>1, <2>2, Zenon DEF Cut
<1> QED BY <1>5, <1>6, <1>7, <1>8, <1>9, <1>10, <1>11

LEMMA ReadCode ==
  ASSUME NEW s \in Seq(Octet), NEW c \in Codes, NEW u \in Seq(Octet), Len(u) >= 1, NEW e,
         ReadBytes(s) = Found(0, u, e)
  PROVE  \E z \in Nat : z >= 2 /\ ReadBytes(s \o c) = Found(z, <<>>, Append(e, u))
<1>1. CASE c = <<0, 0, 1>>
  <2>1. ReadBytes(s \o c) = ReadByte(ReadByte(ReadByte(Found(0, u, e), 0), 0), 1)
    BY <1>1, Read3
  <2>2. ReadByte(ReadByte(Found(0, u, e), 0), 0) = Found(2, Append(Append(u, 0), 0), e)
    BY ReadZero
  <2>3. ReadByte(Found(2, Append(Append(u, 0), 0), e), 1) = Found(2, <<>>, Cut(e, Append(Append(Append(u, 0), 0), 1), 2))
    BY ReadOne
  <2>4. Cut(e, Append(Append(Append(u, 0), 0), 1), 2) = Append(e, u)
    BY CutCode
  <2>5. ReadBytes(s \o c) = Found(2, <<>>, Append(e, u))
    BY <2>1, <2>2, <2>3, <2>4
  <2> QED BY <2>5
<1>2. CASE c = <<0, 0, 0, 1>>
  <2>1. ReadBytes(s \o c) = ReadByte(ReadByte(ReadByte(ReadByte(Found(0, u, e), 0), 0), 0), 1)
    BY <1>2, Read4
  <2>2. ReadByte(ReadByte(ReadByte(Found(0, u, e), 0), 0), 0) = Found(3, Append(Append(Append(u, 0), 0), 0), e)
    BY ReadZero
  <2>3. ReadByte(Found(3, Append(Append(Append(u, 0), 0), 0), e), 1)
          = Found(3, <<>>, Cut(e, Append(Append(Append(Append(u, 0), 0), 0), 1), 3))
    BY ReadOne
  <2>4. Cut(e, Append(Append(Append(Append(u, 0), 0), 0), 1), 3) = Append(e, u)
    BY CutCode
  <2>5. ReadBytes(s \o c) = Found(3, <<>>, Append(e, u))
    BY <2>1, <2>2, <2>3, <2>4
  <2> QED BY <2>5
<1> QED BY <1>1, <1>2, CodesAre

(* Frames of any number of units *)

LEMMA UnitsAre == ASSUME NEW u \in Units PROVE IsUnit(u)
<1>1. u \in Seq(Octet) /\ u # <<>> /\ Last(u) # 0
  BY NalUnitsAssumption DEF Octet
<1>2. PICK n \in Nat : n = Len(u)
  BY <1>1
<1>3. n >= 1 /\ DOMAIN u = 1 .. n
  BY <1>1, <1>2
<1>4. u[n] # 0
  BY <1>1, <1>2 DEF Last
<1>5. \A i \in 1 .. n : i > 2 /\ u[i - 2] = 0 /\ u[i - 1] = 0 => u[i] > 2
  BY <1>3, NalUnitsAssumption
<1> QED BY <1>1, <1>2, <1>3, <1>4, <1>5 DEF IsUnit

\* What goes before the units, and the pieces that a frame is put together from.
Joined(n, before, units) == [i \in 1 .. n |-> before[i] \o units[i]]
Pieces(f, n, before, units) ==
  /\ f \in [0 .. n -> Seq(Octet)] /\ f[0] = <<>>
  /\ \A k \in 1 .. n : f[k] = f[k - 1] \o (before[k] \o units[k])

LEMMA PiecesExist ==
  ASSUME NEW n \in Nat, NEW units \in [1 .. n -> Units], NEW before \in [1 .. n -> Seq(Octet)]
  PROVE  \E f : Pieces(f, n, before, units) /\ FlattenSeq(Joined(n, before, units)) = f[n]
<1>1. PICK ss : ss = Joined(n, before, units)
  OBVIOUS
<1>2. ASSUME NEW i \in 1 .. n PROVE before[i] \o units[i] \in Seq(Octet)
  <2>1. units[i] \in Seq(Octet) /\ before[i] \in Seq(Octet)
    BY UnitsAre DEF IsUnit
  <2> QED BY <2>1
<1>3. ss \in [1 .. n -> Seq(Octet)]
  BY <1>1, <1>2 DEF Joined
<1>4. ss \in Seq(Seq(Octet)) /\ Len(ss) = n
  BY <1>3
<1>5. PICK f \in [0 .. n -> Seq(Octet)] : Flattens(f, ss)
  BY <1>4, FlattenExists DEF Flattening
<1>6. FlattenSeq(ss) = f[n]
  BY <1>4, <1>5, FlattenIs
<1>7. Pieces(f, n, before, units)
  BY <1>1, <1>4, <1>5 DEF Pieces, Flattens, Joined
<1> QED BY <1>1, <1>6, <1>7

LEMMA ReadPieces ==
  ASSUME NEW n \in Nat \ {0}, NEW units \in [1 .. n -> Units], NEW codes \in [1 .. n -> Codes],
         \A i \in 1 .. n : ~LosesItsHeader(units[i]), NEW f, Pieces(f, n, codes, units)
  PROVE  ReadBytes(f[n]) = Found(0, units[n], SubSeq(units, 1, n - 1))
<1>1. ASSUME NEW k \in 1 .. n
      PROVE  /\ IsUnit(units[k]) /\ units[k] \in Seq(Octet) /\ Len(units[k]) >= 1
             /\ ~LosesItsHeader(units[k]) /\ codes[k] \in Codes /\ codes[k] \in Seq(Octet)
             /\ k - 1 \in 0 .. n /\ f[k - 1] \in Seq(Octet) /\ f[k - 1] \o codes[k] \in Seq(Octet)
             /\ f[k] = (f[k - 1] \o codes[k]) \o units[k]
  <2>1. IsUnit(units[k])
    BY UnitsAre
  <2>2. units[k] \in Seq(Octet) /\ Len(units[k]) >= 1
    BY <2>1 DEF IsUnit
  <2>3. codes[k] \in Codes
    OBVIOUS
  <2>4. codes[k] \in Seq(Octet)
    BY <2>3, CodesAre
  <2>5. k - 1 \in 0 .. n
    OBVIOUS
  <2>6. f[k - 1] \in Seq(Octet) /\ f[k] = f[k - 1] \o (codes[k] \o units[k])
    BY <2>5 DEF Pieces
  <2>7. \A x, y, z \in Seq(Octet) : x \o (y \o z) = (x \o y) \o z /\ x \o y \in Seq(Octet)
    OBVIOUS
  <2> QED BY <2>1, <2>2, <2>3, <2>4, <2>5, <2>6, <2>7
<1>2. units \in Seq(Seq(Octet)) /\ Len(units) = n
  BY <1>1
<1> DEFINE R(k) == ReadBytes(f[k]) = Found(0, units[k], SubSeq(units, 1, k - 1))
           T == {k \in Nat : k + 1 <= n => R(k + 1)}
<1>3. ASSUME NEW k \in 1 .. n, NEW z \in Nat, z >= 2, NEW e, ReadBytes(f[k - 1] \o codes[k]) = Found(z, <<>>, e)
      PROVE  ReadBytes(f[k]) = Found(0, units[k], e)
  <2>1. ReadBytes((f[k - 1] \o codes[k]) \o units[k]) = Found(0, units[k], e)
    <3>1. PICK s \in Seq(Octet) : s = f[k - 1] \o codes[k]
      BY <1>1, Zenon
    <3>2. ReadBytes(s) = Found(z, <<>>, e)
      BY <1>3, <3>1
    <3>3. IsUnit(units[k]) /\ ~LosesItsHeader(units[k])
      BY <1>1
    <3>4. ReadBytes(s \o units[k]) = Found(0, units[k], e)
      BY <1>3, <3>2, <3>3, ReadUnit, Zenon
    <3> QED BY <3>1, <3>4
  <2> QED BY <1>1, <2>1
<1>4. 0 \in T
  <2>1. 1 \in 1 .. n /\ 0 + 1 = 1
    OBVIOUS
  <2>2. f[0] \o codes[1] = codes[1]
    BY <1>1, <2>1, EmptyFirst DEF Pieces
  <2>3. PICK z \in Nat : z >= 2 /\ ReadBytes(codes[1]) = Found(z, <<>>, <<>>)
    BY <1>1, <2>1, ReadFirst
  <2>4. ReadBytes(f[1 - 1] \o codes[1]) = Found(z, <<>>, <<>>)
    <3>1. 1 - 1 = 0
      OBVIOUS
    <3> QED BY <2>2, <2>3, <3>1
  <2>5. ReadBytes(f[1]) = Found(0, units[1], <<>>)
    BY <1>3, <2>1, <2>3, <2>4
  <2>6. SubSeq(units, 1, 1 - 1) = <<>>
    BY <1>2
  <2> QED BY <2>1, <2>5, <2>6
<1>5. ASSUME NEW k \in Nat, k \in T PROVE k + 1 \in T
  <2> SUFFICES ASSUME (k + 1) + 1 <= n PROVE R((k + 1) + 1)
    OBVIOUS
  <2>1. PICK i \in 1 .. n : i = k + 1
    OBVIOUS
  <2>2. i + 1 \in 1 .. n /\ (i + 1) - 1 = i
    BY <2>1
  <2>3. R(i)
    BY <1>5, <2>1
  <2> HIDE DEF T
  <2>4. PICK z \in Nat : z >= 2 /\ ReadBytes(f[i] \o codes[i + 1]) = Found(z, <<>>, Append(SubSeq(units, 1, i - 1), units[i]))
    <3>1. f[i] \in Seq(Octet) /\ codes[i + 1] \in Codes
      BY <1>1, <2>2
    <3>2. units[i] \in Seq(Octet) /\ Len(units[i]) >= 1
      BY <1>1
    <3> QED BY <2>3, <3>1, <3>2, ReadCode
  <2>5. ReadBytes(f[i + 1]) = Found(0, units[i + 1], Append(SubSeq(units, 1, i - 1), units[i]))
    BY <1>3, <2>2, <2>4
  <2>6. Append(SubSeq(units, 1, i - 1), units[i]) = SubSeq(units, 1, i)
    BY <1>2
  <2> QED BY <2>1, <2>2, <2>5, <2>6
<1> HIDE DEF T
<1>6. \A k \in Nat : k \in T
  BY <1>4, <1>5, NumbersFromZero
<1>7. n - 1 \in Nat /\ (n - 1) + 1 = n
  OBVIOUS
<1>8. n - 1 \in T
  BY <1>6, <1>7
<1> QED BY <1>7, <1>8 DEF T

(* Lengths *)

LEMMA QuotientIs ==
  ASSUME NEW x \in Nat
  PROVE  /\ Shift(x) \in Nat /\ x % Base \in Octet /\ x = Shift(x) * Base + (x % Base)
         /\ \A m \in Nat : x < m * Base => Shift(x) < m
<1>1. Base \in Nat \ {0}
  BY OctetType
<1>2. PICK q \in Nat, r \in 0 .. Base - 1 : x = q * Base + r /\ q = x \div Base /\ r = x % Base
  BY <1>1
<1>3. ASSUME NEW m \in Nat, x < m * Base PROVE q < m
  <2> SUFFICES ASSUME q >= m PROVE FALSE
    OBVIOUS
  <2>1. PICK d \in Nat : q = m + d
    <3>1. q - m \in Nat /\ q = m + (q - m)
      OBVIOUS
    <3> QED BY <3>1
  <2>2. PICK s \in Nat, t \in Nat : s = m * Base /\ t = d * Base
    <3>1. m * Base \in Nat /\ d * Base \in Nat
      BY <1>1
    <3> QED BY <3>1
  <2>3. q * Base = s + t
    BY <1>1, <2>1, <2>2
  <2>4. x < s
    BY <1>3, <2>2
  <2> QED BY ONLY <1>2, <2>2, <2>3, <2>4, <1>1
<1>4. Shift(x) = q
  BY <1>2 DEF Shift
<1>5. x % Base \in Octet
  BY <1>2 DEF Octet
<1>6. x = Shift(x) * Base + (x % Base)
  BY <1>2, <1>4
<1>7. \A m \in Nat : x < m * Base => Shift(x) < m
  BY <1>3, <1>4
<1> QED BY <1>2, <1>4, <1>5, <1>6, <1>7

LEMMA PutType == ASSUME NEW n \in Nat PROVE PutUint32(n) \in Seq(Octet) /\ Len(PutUint32(n)) = 4
<1>1. Shift(n) \in Nat /\ n % Base \in Octet
  BY QuotientIs
<1>2. Shift(Shift(n)) \in Nat /\ Shift(n) % Base \in Octet
  BY <1>1, QuotientIs
<1>3. Shift(Shift(Shift(n))) \in Nat /\ Shift(Shift(n)) % Base \in Octet
  BY <1>2, QuotientIs
<1>4. Shift(Shift(Shift(n))) % Base \in Octet
  BY <1>3, QuotientIs
<1> QED BY <1>1, <1>2, <1>3, <1>4 DEF PutUint32

LEMMA LengthsComeBack == ASSUME NEW n \in Nat, n < Words PROVE Uint32(PutUint32(n)) = n
<1>0. Base \in Nat /\ Base * Base \in Nat /\ Base * Base * Base \in Nat /\ 1 \in Nat
  BY OctetType
<1>1. PICK x \in Nat : x = Shift(n) /\ n = x * Base + (n % Base) /\ x < Base * Base * Base
  <2>1. n < (Base * Base * Base) * Base
    BY DEF Words
  <2> QED BY <1>0, <2>1, QuotientIs
<1>2. PICK y \in Nat : y = Shift(x) /\ x = y * Base + (x % Base) /\ y < Base * Base
  <2>1. x < (Base * Base) * Base
    BY <1>1
  <2> QED BY <1>0, <2>1, QuotientIs
<1>3. PICK z \in Nat : z = Shift(y) /\ y = z * Base + (y % Base) /\ z < Base
  BY <1>0, <1>2, QuotientIs
<1>4. PICK a \in Octet, b \in Octet, c \in Octet : a = n % Base /\ b = x % Base /\ c = y % Base
  BY <1>1, <1>2, QuotientIs
<1>5. z % Base = z
  <2>1. z \in 0 .. Base - 1 /\ Base \in Nat \ {0}
    BY <1>3, OctetType
  <2> QED BY <2>1
<1>6. PutUint32(n) = <<z, c, b, a>>
  BY <1>1, <1>2, <1>3, <1>4, <1>5 DEF PutUint32
<1>7. Uint32(<<z, c, b, a>>) = ((z * Base + c) * Base + b) * Base + a
  BY DEF Uint32
<1> QED BY <1>1, <1>2, <1>3, <1>4, <1>6, <1>7

LEMMA StartCodeIsOne == Uint32(<<0, 0, 0, 1>>) = 1
<1>1. Uint32(<<0, 0, 0, 1>>) = ((0 * Base + 0) * Base + 0) * Base + 1
  BY DEF Uint32
<1>2. 0 * Base = 0
  BY OctetType
<1> QED BY <1>1, <1>2

(* The units of a frame in Annex B *)

Stored(units) == [i \in DOMAIN units |-> PutUint32(Len(units[i])) \o units[i]]

LEMMA ConcatIs ==
  ASSUME NEW A, NEW x \in Seq(A), NEW u \in Seq(A), NEW m, NEW n, m = Len(x), n = Len(u)
  PROVE  /\ x \o u \in Seq(A) /\ m \in Nat /\ n \in Nat /\ Len(x \o u) = m + n
         /\ \A i \in 1 .. m : (x \o u)[i] = x[i]
         /\ \A i \in 1 .. n : (x \o u)[m + i] = u[i]
<1>1. m \in Nat /\ n \in Nat
  OBVIOUS
<1>2. x \o u \in Seq(A) /\ Len(x \o u) = Len(x) + Len(u)
  OBVIOUS
<1>3. ASSUME NEW i \in 1 .. m PROVE (x \o u)[i] = x[i]
  OBVIOUS
<1>4. ASSUME NEW i \in 1 .. n PROVE (x \o u)[m + i] = u[i]
  <2>1. PICK j : j = m + i
    OBVIOUS
  <2>2. j \in 1 .. m + n /\ ~(j <= m) /\ j - m = i
    BY <1>1, <2>1
  <2>3. (x \o u)[j] = u[j - m]
    BY <1>1, <1>2, <2>2
  <2> QED BY <2>1, <2>2, <2>3
<1> QED BY <1>1, <1>2, <1>3, <1>4

\* s is m octets, and then u.
EndsWith(s, m, u) == Len(s) = m + Len(u) /\ \A i \in 1 .. Len(u) : s[m + i] = u[i]

LEMMA ConcatEnds ==
  ASSUME NEW x \in Seq(Octet), NEW u \in Seq(Octet) PROVE EndsWith(x \o u, Len(x), u)
  BY ConcatIs DEF EndsWith

LEMMA SameEnd ==
  ASSUME NEW s, NEW k \in Nat, NEW u \in Seq(Octet), NEW v \in Seq(Octet), EndsWith(s, k, u), EndsWith(s, k, v)
  PROVE  u = v
<1>1. PICK m \in Nat : m = Len(u)
  OBVIOUS
<1>2. PICK n \in Nat : n = Len(v)
  OBVIOUS
<1>3. Len(s) = k + m /\ \A i \in 1 .. m : s[k + i] = u[i]
  BY <1>1 DEF EndsWith
<1>4. Len(s) = k + n /\ \A i \in 1 .. n : s[k + i] = v[i]
  BY <1>2 DEF EndsWith
<1>5. m = n
  BY <1>3, <1>4
<1>6. \A i \in 1 .. m : u[i] = v[i]
  BY <1>3, <1>4, <1>5
<1>7. DOMAIN u = 1 .. m /\ DOMAIN v = 1 .. n
  BY <1>1, <1>2
<1> QED BY <1>5, <1>6, <1>7

LEMMA SameUnits ==
  ASSUME NEW all \in Seq(Seq(Octet)), NEW units \in Seq(Seq(Octet)), Stored(all) = Stored(units)
  PROVE  all = units
<1>1. DOMAIN all = DOMAIN units
  BY DEF Stored
<1>2. ASSUME NEW i \in DOMAIN all PROVE all[i] = units[i]
  <2>1. all[i] \in Seq(Octet) /\ units[i] \in Seq(Octet)
    BY <1>1
  <2>2. PutUint32(Len(all[i])) \o all[i] = PutUint32(Len(units[i])) \o units[i]
    BY <1>1 DEF Stored
  <2>3. Len(all[i]) \in Nat /\ Len(units[i]) \in Nat
    BY <2>1
  <2>4. /\ PutUint32(Len(all[i])) \in Seq(Octet) /\ Len(PutUint32(Len(all[i]))) = 4
        /\ PutUint32(Len(units[i])) \in Seq(Octet) /\ Len(PutUint32(Len(units[i]))) = 4
    BY <2>3, PutType
  <2>5. PICK s : s = PutUint32(Len(all[i])) \o all[i] /\ s = PutUint32(Len(units[i])) \o units[i]
    BY <2>2, Zenon
  <2>6. EndsWith(s, 4, all[i]) /\ EndsWith(s, 4, units[i])
    BY <2>1, <2>4, <2>5, ConcatEnds, Zenon
  <2> QED BY <2>1, <2>6, SameEnd
<1> QED BY <1>1, <1>2

LEMMA EmittedIs == ASSUME NEW data PROVE EmitNALUReaderAnnexB(data, "AVCC") = Stored(All(ReadBytes(data)))
  BY DEF EmitNALUReaderAnnexB, All, Stored, Prefix

Frames(n, units, codes) == n \in Nat \ {0} /\ units \in [1 .. n -> Units] /\ codes \in [1 .. n -> Codes]
KeepsItsUnits(units) == \A i \in DOMAIN units : ~LosesItsHeader(units[i])

LEMMA FramesAre ==
  ASSUME NEW n, NEW units, NEW codes, Frames(n, units, codes)
  PROVE  /\ units \in Seq(Seq(Octet)) /\ Len(units) = n /\ DOMAIN units = 1 .. n
         /\ \E f : Pieces(f, n, codes, units) /\ AnnexB(units, codes) = f[n]
<1>1. n \in Nat /\ units \in [1 .. n -> Units] /\ codes \in [1 .. n -> Codes]
  BY DEF Frames
<1>2. \A i \in 1 .. n : units[i] \in Seq(Octet)
  BY <1>1, UnitsAre DEF IsUnit
<1>3. codes \in [1 .. n -> Seq(Octet)]
  BY <1>1, CodesAre
<1>4. AnnexB(units, codes) = FlattenSeq(Joined(n, codes, units))
  BY <1>1 DEF AnnexB, Joined
<1>5. units \in Seq(Seq(Octet)) /\ Len(units) = n /\ DOMAIN units = 1 .. n
  BY <1>1, <1>2
<1>6. PICK f : Pieces(f, n, codes, units) /\ FlattenSeq(Joined(n, codes, units)) = f[n]
  BY <1>1, <1>3, PiecesExist
<1> QED BY <1>4, <1>5, <1>6

LEMMA AnnexBIsRead ==
  ASSUME NEW n, NEW units, NEW codes, Frames(n, units, codes)
  PROVE  EmitNALUReaderAnnexB(AnnexB(units, codes), "AVCC") = Stored(units) <=> KeepsItsUnits(units)
<1>1. units \in Seq(Seq(Octet)) /\ Len(units) = n /\ DOMAIN units = 1 .. n /\ n \in Nat \ {0}
  BY FramesAre DEF Frames
<1>2. PICK f : Pieces(f, n, codes, units) /\ AnnexB(units, codes) = f[n]
  BY FramesAre
<1>3. f[n] \in Seq(Octet)
  BY <1>1, <1>2 DEF Pieces
<1>4. EmitNALUReaderAnnexB(f[n], "AVCC") = Stored(All(ReadBytes(f[n])))
  BY EmittedIs
<1>5. ASSUME Stored(All(ReadBytes(f[n]))) = Stored(units) PROVE KeepsItsUnits(units)
  <2>1. All(ReadBytes(f[n])) \in Seq(Seq(Octet)) /\ AllWhole(All(ReadBytes(f[n])))
    BY <1>3, ReadBytesWhole, AllAreWhole
  <2>2. All(ReadBytes(f[n])) = units
    BY <1>1, <1>5, <2>1, SameUnits
  <2> QED BY <1>1, <2>1, <2>2 DEF AllWhole, Whole, KeepsItsUnits
<1>6. ASSUME KeepsItsUnits(units) PROVE Stored(All(ReadBytes(f[n]))) = Stored(units)
  <2>1. ReadBytes(f[n]) = Found(0, units[n], SubSeq(units, 1, n - 1))
    BY <1>1, <1>2, <1>6, ReadPieces DEF KeepsItsUnits, Frames
  <2>2. units[n] # <<>>
    <3>1. IsUnit(units[n])
      BY <1>1, UnitsAre DEF Frames
    <3> QED BY <3>1 DEF IsUnit
  <2>3. All(ReadBytes(f[n])) = Append(SubSeq(units, 1, n - 1), units[n])
    <3>1. PICK s, u, e : s = ReadBytes(f[n]) /\ u = units[n] /\ e = SubSeq(units, 1, n - 1)
      OBVIOUS
    <3>2. s = Found(0, u, e)
      BY <2>1, <3>1
    <3>3. s.nalu = u /\ s.emitted = e
      BY <3>2 DEF Found
    <3>4. All(s) = Append(e, u)
      BY <2>2, <3>1, <3>3 DEF All
    <3> QED BY <3>1, <3>4
  <2>4. Append(SubSeq(units, 1, n - 1), units[n]) = units
    BY <1>1
  <2> QED BY <2>3, <2>4
<1> QED BY <1>2, <1>4, <1>5, <1>6

(* Where the pieces of a frame are *)

IsBeginningOf(s, t) == Len(s) <= Len(t) /\ \A i \in 1 .. Len(s) : t[i] = s[i]

LEMMA BeginsTransitive ==
  ASSUME NEW s \in Seq(Octet), NEW t \in Seq(Octet), NEW u \in Seq(Octet), IsBeginningOf(s, t), IsBeginningOf(t, u)
  PROVE  IsBeginningOf(s, u)
<1>1. PICK k \in Nat, m \in Nat, n \in Nat : k = Len(s) /\ m = Len(t) /\ n = Len(u)
  OBVIOUS
<1>2. k <= m /\ \A i \in 1 .. k : t[i] = s[i]
  BY <1>1 DEF IsBeginningOf
<1>3. m <= n /\ \A i \in 1 .. m : u[i] = t[i]
  BY <1>1 DEF IsBeginningOf
<1>4. k <= n /\ \A i \in 1 .. k : u[i] = s[i]
  BY <1>2, <1>3
<1> QED BY <1>1, <1>4 DEF IsBeginningOf

Puts(n, before, units, f) ==
  /\ n \in Nat /\ units \in [1 .. n -> Units] /\ before \in [1 .. n -> Seq(Octet)] /\ Pieces(f, n, before, units)

IsPiece(n, before, units, f, k) ==
  /\ k - 1 \in 0 .. n /\ f[k - 1] \in Seq(Octet) /\ f[k] \in Seq(Octet)
  /\ before[k] \in Seq(Octet) /\ units[k] \in Seq(Octet)
  /\ before[k] \o units[k] \in Seq(Octet) /\ f[k] = f[k - 1] \o (before[k] \o units[k])

LEMMA PieceIs ==
  ASSUME NEW n, NEW before, NEW units, NEW f, Puts(n, before, units, f), NEW k \in 1 .. n
  PROVE  IsPiece(n, before, units, f, k)
<1>1. k - 1 \in 0 .. n /\ k \in 0 .. n
  BY DEF Puts
<1>2. f[k - 1] \in Seq(Octet) /\ f[k] \in Seq(Octet) /\ f[k] = f[k - 1] \o (before[k] \o units[k])
  BY <1>1 DEF Puts, Pieces
<1>3. before[k] \in Seq(Octet) /\ units[k] \in Seq(Octet)
  BY UnitsAre DEF Puts, IsUnit
<1>4. before[k] \o units[k] \in Seq(Octet)
  BY <1>3
<1> QED BY <1>1, <1>2, <1>3, <1>4 DEF IsPiece

LEMMA FrameBegins ==
  ASSUME NEW n, NEW before, NEW units, NEW f, Puts(n, before, units, f), NEW k \in 0 .. n
  PROVE  f[k] \in Seq(Octet) /\ f[n] \in Seq(Octet) /\ IsBeginningOf(f[k], f[n])
<1>0. n \in Nat /\ \A m \in 0 .. n : f[m] \in Seq(Octet)
  BY DEF Puts, Pieces
<1> DEFINE T == {d \in Nat : k + d <= n => IsBeginningOf(f[k], f[k + d])}
<1>1. 0 \in T
  <2>1. k + 0 = k
    BY <1>0
  <2> QED BY <1>0, <2>1 DEF IsBeginningOf
<1>2. ASSUME NEW d \in Nat, d \in T PROVE d + 1 \in T
  <2> SUFFICES ASSUME k + (d + 1) <= n PROVE IsBeginningOf(f[k], f[k + (d + 1)])
    OBVIOUS
  <2>1. PICK m \in 1 .. n : m = k + (d + 1) /\ m - 1 = k + d
    <3>1. k + (d + 1) \in 1 .. n /\ (k + (d + 1)) - 1 = k + d
      BY <1>0
    <3> QED BY <3>1, Zenon
  <2>2. IsBeginningOf(f[k], f[m - 1])
    BY <1>0, <1>2, <2>1
  <2> HIDE DEF T
  <2>3. /\ f[m - 1] \in Seq(Octet) /\ f[m] \in Seq(Octet) /\ before[m] \o units[m] \in Seq(Octet)
        /\ f[m] = f[m - 1] \o (before[m] \o units[m])
    <3>1. IsPiece(n, before, units, f, m)
      BY PieceIs, Zenon
    <3> QED BY <3>1 DEF IsPiece
  <2>4. IsBeginningOf(f[m - 1], f[m])
    <3>1. PICK x \in Seq(Octet), y \in Seq(Octet) : x = f[m - 1] /\ y = before[m] \o units[m]
      BY <2>3, Zenon
    <3>2. Len(x \o y) = Len(x) + Len(y) /\ Len(x) \in Nat /\ Len(y) \in Nat /\ \A i \in 1 .. Len(x) : (x \o y)[i] = x[i]
      BY ConcatIs
    <3>3. IsBeginningOf(x, x \o y)
      BY <3>2 DEF IsBeginningOf
    <3> QED BY <2>3, <3>1, <3>3
  <2>5. IsBeginningOf(f[k], f[m])
    BY <1>0, <2>2, <2>3, <2>4, BeginsTransitive
  <2> QED BY <2>1, <2>5
<1> HIDE DEF T
<1>3. \A d \in Nat : d \in T
  BY <1>1, <1>2, NumbersFromZero
<1>4. n - k \in Nat /\ k + (n - k) = n
  BY <1>0
<1>5. IsBeginningOf(f[k], f[n])
  BY <1>3, <1>4 DEF T
<1> QED BY <1>0, <1>5

\* From p on, data has b and then u.
Holds(data, p, b, u) ==
  /\ p + Len(b) + Len(u) <= Len(data)
  /\ SubSeq(data, p + 1, p + Len(b)) = b
  /\ SubSeq(data, p + Len(b) + 1, p + Len(b) + Len(u)) = u

LEMMA SubSeqIs ==
  ASSUME NEW data \in Seq(Octet), NEW p \in Nat, NEW b \in Seq(Octet), p + Len(b) <= Len(data),
         \A i \in 1 .. Len(b) : data[p + i] = b[i]
  PROVE  SubSeq(data, p + 1, p + Len(b)) = b
<1>1. PICK m \in Nat : m = Len(b)
  OBVIOUS
<1>2. PICK s : s = SubSeq(data, p + 1, p + m)
  OBVIOUS
<1>3. DOMAIN s = 1 .. m
  BY <1>1, <1>2
<1>4. ASSUME NEW i \in 1 .. m PROVE s[i] = b[i]
  <2>1. s[i] = data[p + i]
    BY <1>1, <1>2
  <2> QED BY <1>1, <2>1
<1>5. DOMAIN b = 1 .. m
  BY <1>1
<1>6. s \in Seq(Octet)
  BY <1>1, <1>2
<1>7. s = b
  BY <1>3, <1>4, <1>5, <1>6
<1> QED BY <1>1, <1>2, <1>7

IsAt(n, before, units, f, k) ==
  /\ Holds(f[n], Len(f[k - 1]), before[k], units[k])
  /\ Len(f[k]) = Len(f[k - 1]) + Len(before[k]) + Len(units[k])
  /\ Len(f[k]) <= Len(f[n]) /\ f[n] \in Seq(Octet)

LEMMA PieceAt ==
  ASSUME NEW n, NEW before, NEW units, NEW f, Puts(n, before, units, f), NEW k \in 1 .. n
  PROVE  IsAt(n, before, units, f, k)
<1>0. n \in Nat
  BY DEF Puts
<1>1. PICK x \in Seq(Octet), b \in Seq(Octet), u \in Seq(Octet) :
        x = f[k - 1] /\ b = before[k] /\ u = units[k] /\ f[k] = x \o (b \o u)
  <2>1. IsPiece(n, before, units, f, k)
    BY PieceIs, Zenon
  <2> QED BY <2>1, Zenon DEF IsPiece
<1>2. PICK p \in Nat, l \in Nat, m \in Nat : p = Len(x) /\ l = Len(b) /\ m = Len(u)
  OBVIOUS
<1>3. PICK y : y = b \o u
  OBVIOUS
<1>4. y \in Seq(Octet) /\ Len(y) = l + m /\ (\A i \in 1 .. l : y[i] = b[i]) /\ \A i \in 1 .. m : y[l + i] = u[i]
  BY <1>2, <1>3, ConcatIs
<1>5. PICK d \in Seq(Octet) : d = f[n] /\ IsBeginningOf(f[k], d)
  <2>1. k \in 0 .. n
    BY <1>0
  <2> QED BY <2>1, FrameBegins
<1>6. PICK t : t = f[k]
  OBVIOUS
<1>7. Len(t) = p + (l + m) /\ \A i \in 1 .. l + m : t[p + i] = y[i]
  <2>1. t = x \o y
    BY <1>1, <1>3, <1>6
  <2>2. PICK h : h = Len(y)
    OBVIOUS
  <2>3. Len(x \o y) = p + h /\ \A i \in 1 .. h : (x \o y)[p + i] = y[i]
    <3>1. y \in Seq(Octet) /\ p = Len(x) /\ h = Len(y)
      BY <1>2, <1>4, <2>2
    <3> QED BY ONLY <3>1, x \in Seq(Octet), ConcatIs
  <2> QED BY <1>4, <2>1, <2>2, <2>3
<1>8. Len(t) <= Len(d) /\ \A i \in 1 .. Len(t) : d[i] = t[i]
  BY <1>5, <1>6 DEF IsBeginningOf
<1>9. p + l + m <= Len(d) /\ Len(t) = p + l + m
  BY <1>7, <1>8
<1>10. ASSUME NEW i \in 1 .. l + m PROVE d[p + i] = y[i]
  <2>1. p + i \in 1 .. Len(t)
    BY <1>7
  <2> QED BY <1>7, <1>8, <2>1
<1>11. SubSeq(d, p + 1, p + l) = b
  <2>1. p + Len(b) <= Len(d)
    BY <1>2, <1>9
  <2>2. \A i \in 1 .. Len(b) : d[p + i] = b[i]
    BY <1>2, <1>4, <1>10
  <2> QED BY <1>2, <2>1, <2>2, SubSeqIs
<1>12. SubSeq(d, (p + l) + 1, (p + l) + m) = u
  <2>1. p + l \in Nat /\ (p + l) + Len(u) <= Len(d)
    BY <1>2, <1>9
  <2>2. ASSUME NEW i \in 1 .. m PROVE d[(p + l) + i] = u[i]
    <3>1. l + i \in 1 .. l + m /\ p + (l + i) = (p + l) + i
      OBVIOUS
    <3>2. d[p + (l + i)] = y[l + i]
      BY <1>10, <3>1
    <3> QED BY <1>4, <3>1, <3>2
  <2> QED BY <1>2, <2>1, <2>2, SubSeqIs
<1>13. Holds(d, p, b, u)
  BY <1>2, <1>9, <1>11, <1>12 DEF Holds
<1> QED BY <1>1, <1>2, <1>5, <1>6, <1>8, <1>9, <1>13 DEF IsAt

(* The format of a frame *)

LEMMA ElementOf == ASSUME NEW A, NEW s \in Seq(A), NEW i \in 1 .. Len(s) PROVE s[i] \in A
  OBVIOUS

LEMMA ShortFrames ==
  ASSUME NEW data \in Seq(Octet), NEW p \in Nat, p + 4 <= Len(data)
  PROVE  Uint32(SubSeq(data, p + 1, p + LengthSize)) \in Nat
<1>1. PICK s : s = SubSeq(data, p + 1, p + 4)
  OBVIOUS
<1>2. s \in Seq(Octet) /\ Len(s) = 4
  BY <1>1
<1>3. s[1] \in Octet /\ s[2] \in Octet /\ s[3] \in Octet /\ s[4] \in Octet
  <2>1. 1 \in 1 .. 4 /\ 2 \in 1 .. 4 /\ 3 \in 1 .. 4 /\ 4 \in 1 .. 4
    OBVIOUS
  <2>2. \A i \in 1 .. Len(s) : s[i] \in Octet
    BY <1>2, ElementOf
  <2> QED BY <1>2, <2>1, <2>2
<1>4. PICK a \in Nat, b \in Nat, c \in Nat, d \in Nat : a = s[1] /\ b = s[2] /\ c = s[3] /\ d = s[4]
  BY <1>3, OctetType
<1>5. Uint32(s) = ((a * Base + b) * Base + c) * Base + d
  BY <1>4 DEF Uint32
<1>6. \A x, y \in Nat : x * Base + y \in Nat
  BY OctetType
<1>7. a * Base + b \in Nat
  BY <1>6
<1>8. (a * Base + b) * Base + c \in Nat
  BY <1>6, <1>7
<1>9. ((a * Base + b) * Base + c) * Base + d \in Nat
  BY <1>6, <1>8
<1> QED BY <1>1, <1>5, <1>9 DEF LengthSize

Off(data, p) == (Uint32(SubSeq(data, p + 1, p + LengthSize)) + LengthSize) % Words
Verdicts == {"panic", "valid", "invalid", "loops"}

LEMMA WordsType == Words \in Nat \ {0}
<1>1. \A x \in Nat \ {0} : x * Base \in Nat \ {0}
  BY OctetType
<1>2. Base \in Nat \ {0}
  BY OctetType
<1>3. Base * Base \in Nat \ {0}
  BY <1>1, <1>2
<1>4. Base * Base * Base \in Nat \ {0}
  BY <1>1, <1>3
<1>5. Base * Base * Base * Base \in Nat \ {0}
  BY <1>1, <1>4
<1> QED BY <1>5 DEF Words

LEMMA OffType == ASSUME NEW data \in Seq(Octet), NEW p \in Nat, p + 4 <= Len(data) PROVE Off(data, p) \in Nat
<1>1. PICK x \in Nat : x = Uint32(SubSeq(data, p + 1, p + LengthSize)) + LengthSize
  BY ShortFrames DEF LengthSize
<1>2. x % Words \in Nat
  BY WordsType
<1> QED BY <1>1, <1>2 DEF Off

Verdict(data, g, p) ==
  LET left == Len(data) - p
      off == (Uint32(SubSeq(data, p + 1, p + LengthSize)) + LengthSize) % Words
      offset == (p + off) % Words
  IN  IF left < LengthSize THEN "panic"
      ELSE IF offset = Len(data) THEN "valid" ELSE IF offset > Len(data) THEN "invalid"
      ELSE IF off = 0 THEN "loops" ELSE IF off > left THEN "panic" ELSE g[p + off]
IsValid(g, data) == g = [p \in 0 .. Len(data) |-> Verdict(data, g, p)]

\* The cases of the verdict, in terms of numbers.
LEMMA VerdictIs ==
  ASSUME NEW data, NEW g, NEW p
  PROVE  \/ Verdict(data, g, p) \in Verdicts /\ \A h : Verdict(data, h, p) = Verdict(data, g, p)
         \/ /\ ~(Len(data) - p < LengthSize) /\ Off(data, p) # 0 /\ ~(Off(data, p) > Len(data) - p)
            /\ \A h : Verdict(data, h, p) = h[p + Off(data, p)]
<1>1. CASE Len(data) - p < LengthSize
  BY <1>1 DEF Verdict, Verdicts
<1>2. CASE (p + Off(data, p)) % Words = Len(data)
  BY <1>2 DEF Verdict, Verdicts, Off
<1>3. CASE (p + Off(data, p)) % Words > Len(data)
  BY <1>3 DEF Verdict, Verdicts, Off
<1>4. CASE Off(data, p) = 0
  BY <1>4 DEF Verdict, Verdicts, Off
<1>5. CASE Off(data, p) > Len(data) - p
  BY <1>5 DEF Verdict, Verdicts, Off
<1>6. CASE /\ ~(Len(data) - p < LengthSize) /\ (p + Off(data, p)) % Words # Len(data)
           /\ ~((p + Off(data, p)) % Words > Len(data)) /\ Off(data, p) # 0 /\ ~(Off(data, p) > Len(data) - p)
  BY <1>6 DEF Verdict, Off
<1> QED BY <1>1, <1>2, <1>3, <1>4, <1>5, <1>6

LEMMA ValidExists == ASSUME NEW data \in Seq(Octet) PROVE \E g : IsValid(g, data)
<1>1. PICK L \in Nat : L = Len(data)
  OBVIOUS
<1>2. ASSUME NEW p \in 0 .. L, NEW g \in [0 .. L -> Verdicts]
      PROVE  /\ Verdict(data, g, p) \in Verdicts
             /\ \A h \in [0 .. L -> Verdicts] : (\A q \in p + 1 .. L : g[q] = h[q]) => Verdict(data, g, p) = Verdict(data, h, p)
  <2>1. CASE Verdict(data, g, p) \in Verdicts /\ \A h : Verdict(data, h, p) = Verdict(data, g, p)
    BY <2>1
  <2>2. CASE /\ ~(Len(data) - p < LengthSize) /\ Off(data, p) # 0 /\ ~(Off(data, p) > Len(data) - p)
             /\ \A h : Verdict(data, h, p) = h[p + Off(data, p)]
    <3>1. p + 4 <= L
      BY <1>1, <2>2 DEF LengthSize
    <3>2. PICK off \in Nat : off = Off(data, p)
      BY <1>1, <3>1, OffType
    <3>3. p + off \in p + 1 .. L /\ p + off \in 0 .. L
      BY <1>1, <2>2, <3>2
    <3>4. Verdict(data, g, p) = g[p + off] /\ \A h : Verdict(data, h, p) = h[p + off]
      BY <2>2, <3>2
    <3> QED BY <3>3, <3>4
  <2> QED BY <2>1, <2>2, VerdictIs
<1>3. PICK rule : rule = [p \in 0 .. L |-> [g \in [0 .. L -> Verdicts] |-> Verdict(data, g, p)]]
  OBVIOUS
<1>4. rule \in [0 .. L -> [[0 .. L -> Verdicts] -> Verdicts]]
  BY <1>2, <1>3
<1>5. \A p \in 0 .. L : \A g \in [0 .. L -> Verdicts] : rule[p][g] = Verdict(data, g, p)
  BY <1>3
<1>6. FromAbove(L, Verdicts, rule)
  BY <1>2, <1>5 DEF FromAbove
<1>7. "panic" \in Verdicts
  BY DEF Verdicts
<1>8. PICK f \in [0 .. L -> Verdicts] : Solves(f, L, rule)
  BY <1>4, <1>6, <1>7, FunctionFromAbove
<1>9. \A p \in 0 .. L : f[p] = Verdict(data, f, p)
  BY <1>5, <1>8 DEF Solves
<1>10. f = [p \in 0 .. L |-> Verdict(data, f, p)]
  BY <1>9
<1> QED BY <1>1, <1>10 DEF IsValid

LEMMA ValidIs ==
  ASSUME NEW data \in Seq(Octet)
  PROVE  \E g : NALUAVCCFormatValid(data) = g[0] /\ \A p \in 0 .. Len(data) : g[p] = Verdict(data, g, p)
<1>1. PICK g : g = CHOOSE h : IsValid(h, data)
  OBVIOUS
<1>2. IsValid(g, data)
  BY <1>1, ValidExists, Zenon
<1>3. NALUAVCCFormatValid(data) = g[0]
  BY <1>1 DEF NALUAVCCFormatValid, IsValid, Verdict
<1>4. \A p \in 0 .. Len(data) : g[p] = Verdict(data, g, p)
  BY <1>2, Zenon DEF IsValid
<1> QED BY <1>3, <1>4

\* The frames are looked at as pieces.
LEMMA AnnexBFormat ==
  ASSUME NEW n, NEW units, NEW codes, Frames(n, units, codes), codes[1] = startCode4
  PROVE  GetNALUFormatType(AnnexB(units, codes)) = "AnnexB"
<1>1. PICK f : Pieces(f, n, codes, units) /\ AnnexB(units, codes) = f[n]
  BY FramesAre
<1>2. Puts(n, codes, units, f)
  BY <1>1, CodesAre DEF Frames, Puts
<1>3. 1 \in 1 .. n /\ 1 - 1 = 0
  BY DEF Frames
<1>4. Len(f[0]) = 0
  BY <1>1 DEF Pieces
<1>a. IsAt(n, codes, units, f, 1)
  BY <1>2, <1>3, PieceAt
<1>5. PICK data \in Seq(Octet) : data = f[n]
  BY <1>a DEF IsAt
<1>6. Holds(data, 0, startCode4, units[1])
  BY <1>3, <1>4, <1>5, <1>a DEF IsAt
<1>7. PICK l \in Nat : l = Len(units[1])
  <2>1. units[1] \in Seq(Octet)
    BY <1>3, UnitsAre DEF Frames, IsUnit
  <2> QED BY <2>1
<1>8. Len(startCode4) = 4 /\ SubSeq(startCode4, 1, 4) = startCode4
  <2>1. PICK c \in Seq(Octet) : c = startCode4 /\ Len(c) = 4
    BY CodesAre DEF startCode4
  <2>2. SubSeq(c, 1, Len(c)) = c
    OBVIOUS
  <2> QED BY <2>1, <2>2
<1>9. 4 + l <= Len(data) /\ SubSeq(data, 1, 4) = startCode4
  BY <1>6, <1>7, <1>8 DEF Holds
<1>10. IsPrefix(startCode4, data) /\ ~(Len(data) < 4)
  BY <1>5, <1>7, <1>8, <1>9 DEF IsPrefix
<1> QED BY <1>1, <1>5, <1>10 DEF GetNALUFormatType

LEMMA AnnexBEmits == ASSUME NEW data, GetNALUFormatType(data) = "AnnexB"
                     PROVE  EmitNALUData(data, "AVCC") = EmitNALUReaderAnnexB(data, "AVCC")
  BY DEF EmitNALUData

LEMMA AVCCEmits == ASSUME NEW data, GetNALUFormatType(data) = "AVCC"
                   PROVE  EmitNALUData(data, "AVCC") = EmitNALUReaderAVCC(data, "AVCC")
  BY DEF EmitNALUData

Lengths(n, units) == [i \in 1 .. n |-> PutUint32(Len(units[i]))]

LEMMA AVCCIs ==
  ASSUME NEW n \in Nat \ {0}, NEW units \in [1 .. n -> Units]
  PROVE  \E f : Puts(n, Lengths(n, units), units, f) /\ AVCC(units) = f[n]
<1>1. ASSUME NEW i \in 1 .. n PROVE PutUint32(Len(units[i])) \in Seq(Octet)
  <2>1. Len(units[i]) \in Nat
    BY UnitsAre DEF IsUnit
  <2> QED BY <2>1, PutType
<1>2. Lengths(n, units) \in [1 .. n -> Seq(Octet)]
  BY <1>1 DEF Lengths
<1>3. PICK before : before = Lengths(n, units)
  OBVIOUS
<1>4. PICK f : Pieces(f, n, before, units) /\ FlattenSeq(Joined(n, before, units)) = f[n]
  BY <1>2, <1>3, PiecesExist
<1>5. AVCC(units) = FlattenSeq(Joined(n, before, units))
  BY <1>3 DEF AVCC, Joined, Lengths
<1>6. Puts(n, before, units, f)
  BY <1>2, <1>3, <1>4 DEF Puts
<1> QED BY <1>3, <1>4, <1>5, <1>6

\* Where the pieces of a frame in AVCC are.
At4(data, p, u) ==
  /\ p + 4 + Len(u) <= Len(data)
  /\ SubSeq(data, p + 1, p + LengthSize) = PutUint32(Len(u))
  /\ SubSeq(data, p + LengthSize + 1, p + LengthSize + Len(u)) = u

IsAt4(n, units, f, k) ==
  /\ At4(f[n], Len(f[k - 1]), units[k]) /\ Len(f[k]) = Len(f[k - 1]) + 4 + Len(units[k])
  /\ Len(f[k]) <= Len(f[n]) /\ f[n] \in Seq(Octet) /\ Len(f[k - 1]) \in Nat /\ Len(units[k]) \in Nat

LEMMA PieceAt4 ==
  ASSUME NEW n, NEW units, NEW f, Puts(n, Lengths(n, units), units, f), NEW k \in 1 .. n
  PROVE  IsAt4(n, units, f, k)
<1>1. PICK before : before = Lengths(n, units)
  OBVIOUS
<1>2. /\ Holds(f[n], Len(f[k - 1]), before[k], units[k])
      /\ Len(f[k]) = Len(f[k - 1]) + Len(before[k]) + Len(units[k])
      /\ Len(f[k]) <= Len(f[n]) /\ f[n] \in Seq(Octet)
  <2>1. IsAt(n, before, units, f, k)
    BY <1>1, PieceAt, Zenon
  <2> QED BY <2>1, Zenon DEF IsAt
<1>3. IsPiece(n, before, units, f, k)
  BY <1>1, PieceIs
<1>4. PICK p \in Nat, m \in Nat : p = Len(f[k - 1]) /\ m = Len(units[k])
  BY <1>3 DEF IsPiece
<1>5. before[k] = PutUint32(m) /\ Len(before[k]) = 4
  BY <1>1, <1>4, PutType DEF Lengths
<1>6. At4(f[n], p, units[k])
  BY <1>2, <1>4, <1>5 DEF Holds, At4, LengthSize
<1> QED BY <1>2, <1>4, <1>5, <1>6 DEF IsAt4

\* A step of the check of the lengths.
LEMMA VerdictAt ==
  ASSUME NEW data \in Seq(Octet), Len(data) < Words, NEW p \in Nat, NEW u, Len(u) \in Nat, At4(data, p, u), NEW g
  PROVE  Verdict(data, g, p) = IF p + 4 + Len(u) = Len(data) THEN "valid" ELSE g[p + 4 + Len(u)]
<1>1. PICK m \in Nat, L \in Nat : m = Len(u) /\ L = Len(data)
  OBVIOUS
<1>2. p + 4 + m <= L /\ L < Words /\ SubSeq(data, p + 1, p + LengthSize) = PutUint32(m)
  BY <1>1 DEF At4
<1>3. PICK W \in Nat : W = Words
  BY WordsType
<1>4. Uint32(PutUint32(m)) = m
  BY <1>1, <1>2, <1>3, LengthsComeBack
<1>5. (m + 4) % W = m + 4 /\ (p + (m + 4)) % W = p + (m + 4)
  <2>1. \A x \in 0 .. W - 1 : x % W = x
    BY <1>3, WordsType
  <2>2. m + 4 \in 0 .. W - 1 /\ p + (m + 4) \in 0 .. W - 1
    BY <1>2, <1>3
  <2> QED BY <2>1, <2>2
<1>6. (Uint32(SubSeq(data, p + 1, p + LengthSize)) + LengthSize) % Words = m + 4
  BY <1>2, <1>3, <1>4, <1>5 DEF LengthSize
<1>7. (p + (m + 4)) % Words = p + (m + 4) /\ p + (m + 4) = p + 4 + m
  BY <1>3, <1>5
<1>8. /\ ~(Len(data) - p < LengthSize) /\ ~(p + 4 + m > Len(data)) /\ m + 4 # 0 /\ ~(m + 4 > Len(data) - p)
  BY <1>1, <1>2 DEF LengthSize
<1>9. Verdict(data, g, p) = IF p + 4 + m = Len(data) THEN "valid" ELSE g[p + 4 + m]
  BY <1>6, <1>7, <1>8 DEF Verdict
<1> QED BY <1>1, <1>9

LEMMA AVCCIsValid ==
  ASSUME NEW n \in Nat \ {0}, NEW units, NEW f, Puts(n, Lengths(n, units), units, f), Len(f[n]) < Words
  PROVE  NALUAVCCFormatValid(f[n]) = "valid"
<1>1. PICK data \in Seq(Octet) : data = f[n]
  <2>1. n \in 1 .. n
    OBVIOUS
  <2> QED BY <2>1, PieceAt4 DEF IsAt4
<1>2. PICK g : NALUAVCCFormatValid(data) = g[0] /\ \A p \in 0 .. Len(data) : g[p] = Verdict(data, g, p)
  BY ValidIs
<1>3. ASSUME NEW k \in 1 .. n
      PROVE  /\ Len(f[k]) = Len(f[n]) => g[Len(f[k - 1])] = "valid"
             /\ Len(f[k]) # Len(f[n]) => g[Len(f[k - 1])] = g[Len(f[k])]
  <2>1. /\ At4(data, Len(f[k - 1]), units[k]) /\ Len(f[k]) = Len(f[k - 1]) + 4 + Len(units[k])
        /\ Len(f[k]) <= Len(data) /\ Len(f[k - 1]) \in Nat /\ Len(units[k]) \in Nat
    <3>1. IsAt4(n, units, f, k)
      BY PieceAt4, Zenon
    <3> QED BY <1>1, <3>1 DEF IsAt4
  <2>2. PICK p, u : p \in Nat /\ p = Len(f[k - 1]) /\ u = units[k]
    BY <2>1
  <2>3. p \in 0 .. Len(data)
    <3>1. PICK m \in Nat, l \in Nat : m = Len(units[k]) /\ l = Len(data)
      BY <1>1, <2>1
    <3>2. p + 4 + m <= l
      <4>1. PICK t : t = Len(f[k])
        OBVIOUS
      <4>2. t = p + 4 + m
        BY <2>1, <2>2, <3>1, <4>1
      <4>3. t <= l
        BY <2>1, <3>1, <4>1
      <4> QED BY <4>2, <4>3
    <3>3. p \in 0 .. l
      <4>1. p \in Nat /\ m \in Nat /\ l \in Nat
        BY <2>2
      <4> QED BY ONLY <4>1, <3>2
    <3> QED BY <3>1, <3>3
  <2>4. Verdict(data, g, p) = IF p + 4 + Len(u) = Len(data) THEN "valid" ELSE g[p + 4 + Len(u)]
    <3>1. Len(data) < Words /\ p \in Nat /\ Len(u) \in Nat /\ At4(data, p, u)
      BY <1>1, <2>1, <2>2
    <3> QED BY <3>1, VerdictAt
  <2>5. g[p] = Verdict(data, g, p)
    BY <1>2, <2>3
  <2> QED BY <1>1, <2>1, <2>2, <2>4, <2>5
<1> DEFINE T == {d \in Nat : d < n => g[Len(f[(n - 1) - d])] = "valid"}
<1>4. 0 \in T
  <2>1. n \in 1 .. n /\ (n - 1) - 0 = n - 1
    OBVIOUS
  <2> QED BY <1>3, <2>1
<1>5. ASSUME NEW d \in Nat, d \in T PROVE d + 1 \in T
  <2> SUFFICES ASSUME d + 1 < n PROVE g[Len(f[(n - 1) - (d + 1)])] = "valid"
    OBVIOUS
  <2>1. PICK k \in 1 .. n : k = (n - 1) - d
    OBVIOUS
  <2>2. g[Len(f[k])] = "valid"
    BY <1>5, <2>1
  <2>3. (n - 1) - (d + 1) = k - 1
    BY <2>1
  <2> HIDE DEF T
  <2>4. g[Len(f[k - 1])] = "valid"
    BY <1>3, <2>2
  <2> QED BY <2>3, <2>4
<1> HIDE DEF T
<1>6. \A d \in Nat : d \in T
  BY <1>4, <1>5, NumbersFromZero
<1>7. n - 1 \in Nat /\ n - 1 < n /\ (n - 1) - (n - 1) = 0
  OBVIOUS
<1>8. g[Len(f[0])] = "valid"
  BY <1>6, <1>7 DEF T
<1>9. Len(f[0]) = 0
  BY DEF Puts, Pieces
<1> QED BY <1>1, <1>2, <1>8, <1>9

\* The lengths of a frame in AVCC are not taken for a start code.
LEMMA AVCCFormat ==
  ASSUME NEW n \in Nat \ {0}, NEW units \in [1 .. n -> Units], Len(units[1]) # 1, Len(AVCC(units)) < Words
  PROVE  GetNALUFormatType(AVCC(units)) = "AVCC"
<1>1. PICK f : Puts(n, Lengths(n, units), units, f) /\ AVCC(units) = f[n]
  BY AVCCIs
<1>2. NALUAVCCFormatValid(f[n]) = "valid"
  BY <1>1, AVCCIsValid
<1>3. 1 \in 1 .. n /\ 1 - 1 = 0
  OBVIOUS
<1>4. IsAt4(n, units, f, 1)
  BY <1>1, <1>3, PieceAt4
<1>5. Len(f[0]) = 0
  BY <1>1 DEF Puts, Pieces
<1>6. PICK data \in Seq(Octet), m \in Nat : data = f[n] /\ m = Len(units[1])
  BY <1>4 DEF IsAt4
<1>7. At4(data, 0, units[1])
  BY <1>3, <1>4, <1>5, <1>6 DEF IsAt4
<1>8. 4 + m <= Len(data) /\ SubSeq(data, 1, 4) = PutUint32(m)
  BY <1>6, <1>7 DEF At4, LengthSize
<1>9. ~IsPrefix(startCode4, data)
  <2> SUFFICES ASSUME IsPrefix(startCode4, data) PROVE FALSE
    OBVIOUS
  <2>1. PICK c \in Seq(Octet) : c = startCode4 /\ Len(c) = 4 /\ c = <<0, 0, 0, 1>>
    BY CodesAre DEF startCode4
  <2>2. SubSeq(c, 1, Len(c)) = c
    OBVIOUS
  <2>3. SubSeq(c, 1, 4) = SubSeq(data, 1, 4)
    BY <2>1 DEF IsPrefix
  <2>4. PutUint32(m) = <<0, 0, 0, 1>>
    BY <1>8, <2>1, <2>2, <2>3
  <2>5. m < Words
    <3>1. PICK L \in Nat, W \in Nat : L = Len(data) /\ W = Words
      BY WordsType
    <3>2. 4 + m <= L /\ L < W
      BY <1>1, <1>6, <1>8, <3>1
    <3> QED BY <3>1, <3>2
  <2>6. m = 1
    BY <2>4, <2>5, LengthsComeBack, StartCodeIsOne
  <2> QED BY <1>6, <2>6
<1>10. ~(Len(data) < 4)
  BY <1>6, <1>8
<1> QED BY <1>1, <1>2, <1>6, <1>9, <1>10 DEF GetNALUFormatType

(* The units of a frame in AVCC *)

ReadFrom(data, g, p) ==
  LET n == Uint32(SubSeq(data, p + 1, p + LengthSize))
      unit == SubSeq(data, p + LengthSize + 1, p + LengthSize + n)
  IN  IF Len(data) - p < LengthSize \/ Len(data) - p - LengthSize < n THEN <<>>
      ELSE <<Prefix("AVCC", n) \o unit>> \o g[p + LengthSize + n]
IsFrom(g, data) == g = [p \in 0 .. Len(data) |-> ReadFrom(data, g, p)]

LEMMA ReadFromIs ==
  ASSUME NEW data \in Seq(Octet), NEW p \in 0 .. Len(data)
  PROVE  \/ \A h : ReadFrom(data, h, p) = <<>>
         \/ \E q \in p + 1 .. Len(data), u \in Seq(Octet) : \A h : ReadFrom(data, h, p) = <<u>> \o h[q]
<1>1. PICK L \in Nat : L = Len(data)
  OBVIOUS
<1>2. CASE L - p < 4
  <2>1. \A h : ReadFrom(data, h, p) = <<>>
    BY <1>1, <1>2 DEF ReadFrom, LengthSize
  <2> QED BY <2>1
<1>3. CASE ~(L - p < 4)
  <2>1. PICK n \in Nat : n = Uint32(SubSeq(data, p + 1, p + LengthSize))
    BY <1>1, <1>3, ShortFrames
  <2>2. CASE L - p - 4 < n
    <3>1. \A h : ReadFrom(data, h, p) = <<>>
      BY <1>1, <2>1, <2>2 DEF ReadFrom, LengthSize
    <3> QED BY <3>1
  <2>3. CASE ~(L - p - 4 < n)
    <3>1. PICK x \in Seq(Octet) : x = SubSeq(data, p + 4 + 1, p + 4 + n)
      <4>1. SubSeq(data, p + 4 + 1, p + 4 + n) \in Seq(Octet)
        BY <1>1, <1>3, <2>3
      <4> QED BY <4>1, Zenon
    <3>2. PICK y \in Seq(Octet) : y = PutUint32(n)
      BY PutType
    <3>3. y \o x \in Seq(Octet)
      OBVIOUS
    <3>4. \A h : ReadFrom(data, h, p) = <<y \o x>> \o h[p + 4 + n]
      BY <1>1, <1>3, <2>1, <2>3, <3>1, <3>2 DEF ReadFrom, LengthSize, Prefix
    <3>5. p + 4 + n \in p + 1 .. L
      BY <2>3
    <3> QED BY <1>1, <3>3, <3>4, <3>5
  <2> QED BY <2>2, <2>3
<1> QED BY <1>2, <1>3

LEMMA FromExists == ASSUME NEW data \in Seq(Octet) PROVE \E g : IsFrom(g, data)
<1>1. PICK L \in Nat : L = Len(data)
  OBVIOUS
<1>2. PICK V : V = Seq(Seq(Octet))
  OBVIOUS
<1>3. <<>> \in V /\ \A u \in Seq(Octet), v \in V : <<u>> \o v \in V
  BY <1>2
<1>4. ASSUME NEW p \in 0 .. L, NEW g \in [0 .. L -> V]
      PROVE  /\ ReadFrom(data, g, p) \in V
             /\ \A h \in [0 .. L -> V] : (\A q \in p + 1 .. L : g[q] = h[q]) => ReadFrom(data, g, p) = ReadFrom(data, h, p)
  <2>1. CASE \A h : ReadFrom(data, h, p) = <<>>
    BY <1>3, <2>1
  <2>2. ASSUME NEW q \in p + 1 .. L, NEW u \in Seq(Octet), \A h : ReadFrom(data, h, p) = <<u>> \o h[q]
        PROVE  /\ ReadFrom(data, g, p) \in V
               /\ \A h \in [0 .. L -> V] : (\A y \in p + 1 .. L : g[y] = h[y]) => ReadFrom(data, g, p) = ReadFrom(data, h, p)
    <3>1. g[q] \in V
      <4>1. q \in 0 .. L
        BY <2>2
      <4> QED BY <4>1
    <3>2. ReadFrom(data, g, p) \in V
      BY <1>3, <2>2, <3>1
    <3>3. ASSUME NEW h \in [0 .. L -> V], \A y \in p + 1 .. L : g[y] = h[y]
          PROVE  ReadFrom(data, g, p) = ReadFrom(data, h, p)
      <4>1. g[q] = h[q]
        BY <3>3
      <4> QED BY <2>2, <4>1
    <3> QED BY <3>2, <3>3
  <2> QED BY <1>1, <2>1, <2>2, ReadFromIs
<1>5. PICK rule : rule = [p \in 0 .. L |-> [g \in [0 .. L -> V] |-> ReadFrom(data, g, p)]]
  OBVIOUS
<1>6. rule \in [0 .. L -> [[0 .. L -> V] -> V]]
  BY <1>4, <1>5
<1>7. \A p \in 0 .. L : \A g \in [0 .. L -> V] : rule[p][g] = ReadFrom(data, g, p)
  BY <1>5
<1>8. FromAbove(L, V, rule)
  BY <1>4, <1>7 DEF FromAbove
<1>9. PICK f \in [0 .. L -> V] : Solves(f, L, rule)
  BY <1>3, <1>6, <1>8, FunctionFromAbove
<1>10. \A p \in 0 .. L : f[p] = ReadFrom(data, f, p)
  BY <1>7, <1>9 DEF Solves
<1>11. f = [p \in 0 .. L |-> ReadFrom(data, f, p)]
  BY <1>10
<1> QED BY <1>1, <1>11 DEF IsFrom

LEMMA FromIs ==
  ASSUME NEW data \in Seq(Octet)
  PROVE  \E g : EmitNALUReaderAVCC(data, "AVCC") = g[0] /\ \A p \in 0 .. Len(data) : g[p] = ReadFrom(data, g, p)
<1>1. PICK g : g = CHOOSE h : IsFrom(h, data)
  OBVIOUS
<1>2. IsFrom(g, data)
  BY <1>1, FromExists, Zenon
<1>3. EmitNALUReaderAVCC(data, "AVCC") = g[0]
  BY <1>1 DEF EmitNALUReaderAVCC, IsFrom, ReadFrom
<1>4. \A p \in 0 .. Len(data) : g[p] = ReadFrom(data, g, p)
  BY <1>2, Zenon DEF IsFrom
<1> QED BY <1>3, <1>4

LEMMA ReadFromAt ==
  ASSUME NEW data \in Seq(Octet), Len(data) < Words, NEW p \in Nat, NEW u, Len(u) \in Nat, At4(data, p, u), NEW g
  PROVE  ReadFrom(data, g, p) = <<PutUint32(Len(u)) \o u>> \o g[p + 4 + Len(u)]
<1>1. PICK m \in Nat, L \in Nat : m = Len(u) /\ L = Len(data)
  OBVIOUS
<1>2. /\ p + 4 + m <= L /\ SubSeq(data, p + 1, p + LengthSize) = PutUint32(m)
      /\ SubSeq(data, p + LengthSize + 1, p + LengthSize + m) = u
  BY <1>1 DEF At4
<1>3. m < Words
  <2>1. PICK W \in Nat : W = Words
    BY WordsType
  <2>2. L < W
    BY <1>1, <2>1
  <2> QED BY <1>2, <2>1, <2>2
<1>4. Uint32(SubSeq(data, p + 1, p + LengthSize)) = m
  BY <1>2, <1>3, LengthsComeBack
<1>5. ~(L - p < 4) /\ ~(L - p - 4 < m)
  BY <1>2
<1> QED BY <1>1, <1>2, <1>4, <1>5 DEF ReadFrom, LengthSize, Prefix

LEMMA AVCCIsRead ==
  ASSUME NEW n \in Nat \ {0}, NEW units \in [1 .. n -> Units], Len(AVCC(units)) < Words
  PROVE  EmitNALUReaderAVCC(AVCC(units), "AVCC") = Stored(units)
<1>1. PICK f : Puts(n, Lengths(n, units), units, f) /\ AVCC(units) = f[n]
  BY AVCCIs
<1>2. PICK data \in Seq(Octet) : data = f[n]
  <2>1. n \in 1 .. n
    OBVIOUS
  <2> QED BY <1>1, <2>1, PieceAt4 DEF IsAt4
<1>3. PICK g : EmitNALUReaderAVCC(data, "AVCC") = g[0] /\ \A p \in 0 .. Len(data) : g[p] = ReadFrom(data, g, p)
  BY FromIs
<1>4. PICK stored \in [1 .. n -> Seq(Octet)] :
        stored = Stored(units) /\ \A k \in 1 .. n : stored[k] = PutUint32(Len(units[k])) \o units[k]
  <2>1. ASSUME NEW k \in 1 .. n PROVE PutUint32(Len(units[k])) \o units[k] \in Seq(Octet)
    <3>1. PICK u \in Seq(Octet) : u = units[k]
      BY UnitsAre DEF IsUnit
    <3>2. PICK x \in Seq(Octet) : x = PutUint32(Len(u))
      BY PutType
    <3>3. x \o u \in Seq(Octet)
      OBVIOUS
    <3> QED BY <3>1, <3>2, <3>3
  <2>2. Stored(units) = [k \in 1 .. n |-> PutUint32(Len(units[k])) \o units[k]]
    BY DEF Stored
  <2> QED BY <2>1, <2>2
<1>5. stored \in Seq(Seq(Octet)) /\ Len(stored) = n
  OBVIOUS
<1>6. ASSUME NEW k \in 1 .. n PROVE g[Len(f[k - 1])] = <<stored[k]>> \o g[Len(f[k])]
  <2>1. IsAt4(n, units, f, k)
    BY <1>1, PieceAt4, Zenon
  <2>a. PICK l \in Nat : l = Len(data)
    OBVIOUS
  <2>b. Len(f[k - 1]) \in Nat /\ Len(units[k]) \in Nat
    BY <2>1, Zenon DEF IsAt4
  <2>2. PICK p \in Nat, m \in Nat : p = Len(f[k - 1]) /\ m = Len(units[k]) /\ l = Len(data)
    BY <2>a, <2>b, Zenon
  <2>3. Len(f[k]) = p + 4 + m /\ At4(data, p, units[k])
    BY <1>2, <2>1, <2>2 DEF IsAt4
  <2>4. p + 4 + m <= l
    BY <2>2, <2>3 DEF At4
  <2>5. p \in 0 .. Len(data)
    BY <2>2, <2>4
  <2>6. PICK u : u = units[k]
    OBVIOUS
  <2>7. ReadFrom(data, g, p) = <<PutUint32(Len(u)) \o u>> \o g[p + 4 + Len(u)]
    <3>1. Len(data) < Words /\ Len(u) \in Nat /\ At4(data, p, u)
      BY <1>1, <1>2, <2>2, <2>3, <2>6
    <3>2. p \in Nat /\ data \in Seq(Octet)
      OBVIOUS
    <3> QED BY <3>1, <3>2, ReadFromAt, ZenonT(30)
  <2>8. g[p] = ReadFrom(data, g, p)
    BY <1>3, <2>5
  <2>9. stored[k] = PutUint32(m) \o u
    BY <1>4, <2>2, <2>6
  <2> QED BY <2>2, <2>3, <2>6, <2>7, <2>8, <2>9
<1> DEFINE T == {d \in Nat : d <= n => g[Len(f[n - d])] = SubSeq(stored, (n - d) + 1, n)}
<1>7. 0 \in T
  <2>1. PICK l \in Nat : l = Len(data)
    OBVIOUS
  <2>2. ReadFrom(data, g, l) = <<>>
    BY <2>1 DEF ReadFrom, LengthSize
  <2>3. g[l] = <<>>
    BY <1>3, <2>1, <2>2
  <2>4. n - 0 = n /\ SubSeq(stored, n + 1, n) = <<>>
    BY <1>5
  <2> QED BY <1>2, <2>1, <2>3, <2>4
<1>8. ASSUME NEW d \in Nat, d \in T PROVE d + 1 \in T
  <2> SUFFICES ASSUME d + 1 <= n PROVE g[Len(f[n - (d + 1)])] = SubSeq(stored, (n - (d + 1)) + 1, n)
    OBVIOUS
  <2>1. PICK k \in 1 .. n : k = n - d
    OBVIOUS
  <2>2. g[Len(f[k])] = SubSeq(stored, k + 1, n)
    BY <1>8, <2>1
  <2>3. n - (d + 1) = k - 1 /\ (k - 1) + 1 = k
    BY <2>1
  <2> HIDE DEF T
  <2>4. g[Len(f[k - 1])] = <<stored[k]>> \o SubSeq(stored, k + 1, n)
    BY <1>6, <2>2
  <2>5. <<stored[k]>> \o SubSeq(stored, k + 1, n) = SubSeq(stored, k, n)
    BY <1>5
  <2> QED BY <2>3, <2>4, <2>5
<1> HIDE DEF T
<1>9. \A d \in Nat : d \in T
  BY <1>7, <1>8, NumbersFromZero
<1>10. n \in Nat /\ n - n = 0 /\ 0 + 1 = 1
  OBVIOUS
<1>11. g[Len(f[0])] = SubSeq(stored, 1, n)
  BY <1>9, <1>10 DEF T
<1>12. SubSeq(stored, 1, n) = stored
  BY <1>5
<1>13. Len(f[0]) = 0
  BY <1>1 DEF Puts, Pieces
<1> QED BY <1>1, <1>2, <1>3, <1>4, <1>11, <1>12, <1>13

----------------------------------------------------------------------------
(* Every frame *)

\* What the track takes out of a frame of any number of units is right: see AreFound.
THEOREM EveryFrameIsRead ==
  ASSUME NEW n \in Nat \ {0}, NEW units \in [1 .. n -> Units], NEW codes \in [1 .. n -> {startCode3, startCode4}]
  PROVE  AreFound(units, codes)
<1>1. Frames(n, units, codes) /\ DOMAIN units = 1 .. n
  BY DEF Frames, Codes
<1>2. codes[1] = startCode4 => GetNALUFormatType(AnnexB(units, codes)) = "AnnexB"
  BY <1>1, AnnexBFormat
<1>3. ASSUME GetNALUFormatType(AnnexB(units, codes)) = "AnnexB"
      PROVE  EmitNALUData(AnnexB(units, codes), "AVCC") = Stored(units) <=> KeepsItsUnits(units)
  <2>1. EmitNALUData(AnnexB(units, codes), "AVCC") = EmitNALUReaderAnnexB(AnnexB(units, codes), "AVCC")
    BY <1>3, AnnexBEmits
  <2> QED BY <1>1, <2>1, AnnexBIsRead
<1>4. ASSUME Len(units[1]) # 1, Len(AVCC(units)) < Words
      PROVE  EmitNALUData(AVCC(units), "AVCC") = Stored(units)
  <2>1. GetNALUFormatType(AVCC(units)) = "AVCC"
    BY <1>4, AVCCFormat
  <2>2. EmitNALUData(AVCC(units), "AVCC") = EmitNALUReaderAVCC(AVCC(units), "AVCC")
    BY <2>1, AVCCEmits
  <2> QED BY <1>4, <2>2, AVCCIsRead
<1> QED BY <1>2, <1>3, <1>4 DEF AreFound, Stored, KeepsItsUnits

\* UnitsAreFound, the frames of up to three units that TLC looks at.
THEOREM UnitsFound == Spec => []UnitsAreFound
<1>1. UnitsAreFound
  BY EveryFrameIsRead DEF UnitsAreFound
<1> QED BY <1>1, PTL
=============================================================================
