-------------------------- MODULE MCWindowTransfer --------------------------
(***************************************************************************)
(* WindowTransfer with constants for TLC, see the cfg files.  A window of  *)
(* 7 bytes in a ring of 8 and packets of 4: the window holds two packets,  *)
(* one of them shortened by the window, and the file's 12 bytes go around  *)
(* the ring once and a half.                                               *)
(***************************************************************************)
EXTENDS WindowTransfer

\* The sequence number wraps, and with it the ring, five bytes into the file.
MCInitSNs == {SNSpace - 5}
=============================================================================
