--------------------------- MODULE MCBlockWriter ---------------------------
(* Instances of BlockWriter for TLC; the constants are in the .cfg files.  *)
EXTENDS BlockWriter
============================================================================
