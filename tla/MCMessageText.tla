---------------------------- MODULE MCMessageText ----------------------------
(* "2" and "0" are a letter and, alone or together, codes of the protocol. *)
EXTENDS MessageText

Letters == {"2", "0"}
=============================================================================
