--------------------------- MODULE MCLegacyServer ---------------------------
(* Connections and nicknames are alike. *)
EXTENDS LegacyServer, TLC

Symmetry == Permutations(Conn) \cup Permutations(Name)
=============================================================================
