---------------------------- MODULE MCMessenger ----------------------------
(* A hub and two peers; a table of one request is full whenever one waits. *)
EXTENDS Messenger
=============================================================================
