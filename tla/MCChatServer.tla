---------------------------- MODULE MCChatServer ----------------------------
(* ChatServer with constants for TLC, see MCChatServer.cfg. *)
EXTENDS ChatServer
=============================================================================
