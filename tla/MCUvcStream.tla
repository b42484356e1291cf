----------------------------- MODULE MCUvcStream -----------------------------
(* Instances of the video stream for TLC; the bounds are in the .cfg files. *)
EXTENDS UvcStream
=============================================================================
