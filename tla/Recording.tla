----------------------------- MODULE Recording -----------------------------
(***************************************************************************)
(* What a recording file promises the caller of NewSimpleBlockWriter       *)
(* (muxer/ebml/mkvcore/blockwriter.go): the frames it accepts reach the    *)
(* file in the order they were accepted and none is skipped; a file that   *)
(* is closed in good order holds all of them, and accepts no more.  A      *)
(* recording may be cut by an error: it then holds a prefix.               *)
(***************************************************************************)
EXTENDS Naturals, Sequences

CONSTANT Frames

VARIABLES
  accepted,   \* the frames accepted so far
  stored,     \* the frames whose clusters are in the file
  phase       \* recording, complete or cut

vars == <<accepted, stored, phase>>

Init == accepted = <<>> /\ stored = <<>> /\ phase = "recording"

Accept(f) ==
  /\ phase # "complete"
  /\ accepted' = Append(accepted, f)
  /\ UNCHANGED <<stored, phase>>

\* A cluster, a run of the next frames, is written.
Store ==
  /\ phase # "complete"
  /\ \E n \in Len(stored) + 1 .. Len(accepted) : stored' = SubSeq(accepted, 1, n)
  /\ UNCHANGED <<accepted, phase>>

Complete ==
  /\ phase = "recording" /\ stored = accepted
  /\ phase' = "complete"
  /\ UNCHANGED <<accepted, stored>>

Cut ==
  /\ phase = "recording"
  /\ phase' = "cut"
  /\ UNCHANGED <<accepted, stored>>

\* The last cluster may fail to be written: the recording is cut with it.
Next == (\E f \in Frames : Accept(f)) \/ Store \/ Complete \/ Cut

Spec == Init /\ [][Next]_vars
============================================================================
