-------------------------------- MODULE Pipe --------------------------------
(***************************************************************************)
(* One direction of a proxied connection: what comes out has gone in, in   *)
(* the same order, each item once.  Nothing is promised about the rest     *)
(* when the pipe is closed.                                                *)
(***************************************************************************)
EXTENDS Sequences, SequencesExt

VARIABLES inp, outp     \* everything that has gone in, and come out, so far

Init == inp = <<>> /\ outp = <<>>

Put  == IsStrictPrefix(inp, inp') /\ UNCHANGED outp
Take == IsStrictPrefix(outp, outp') /\ IsPrefix(outp', inp) /\ UNCHANGED inp

Spec == Init /\ [][Put \/ Take]_<<inp, outp>>
=============================================================================
