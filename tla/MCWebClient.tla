---------------------------- MODULE MCWebClient ----------------------------
(* Instances of WebClient for TLC; the constants are in the .cfg files.    *)
EXTENDS WebClient
============================================================================
