-------------------------- MODULE MCCameraStreams --------------------------
(* Instances of CameraStreams for TLC: the lists of streams to save.       *)
EXTENDS CameraStreams

SaveNone == <<>>
SaveMain == <<0>>
SaveBoth == <<0, 1>>
============================================================================
