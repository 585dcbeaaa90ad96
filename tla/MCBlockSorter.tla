--------------------------- MODULE MCBlockSorter ---------------------------
(* Instances of BlockSorter for TLC; the constants are in the .cfg files.  *)
EXTENDS BlockSorter
============================================================================
