----------------------------- MODULE MCWebChat -----------------------------
(* WebChat with constants for TLC, see MCWebChat.cfg. *)
EXTENDS WebChat
=============================================================================
