----------------------------- MODULE MCWebClient -----------------------------
(* Constants for model checking WebClient: two pages, of which one may     *)
(* have its nickname refused twice and try another.                        *)
EXTENDS WebClient, TLC

CONSTANTS p1, p2, n1, n2

Pages == {p1, p2}
Names == {n1, n2}
FirstChoice == (p1 :> <<n1, n1, n2>>) @@ (p2 :> <<n1>>)
=============================================================================
