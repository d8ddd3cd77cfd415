-------------------------------- MODULE MCTidy --------------------------------
EXTENDS Tidy

CONSTANTS s1, s2

InitialOutput(i, ada, tok) == [ref |-> <<0, i>>, ada |-> ada, tok |-> tok, own |-> TRUE]

(* Two payments' change: all of the wallet's ADA is with its tokens. *)
Folded == {InitialOutput(1, 5, 1), InitialOutput(2, 4, 1)}
===============================================================================
