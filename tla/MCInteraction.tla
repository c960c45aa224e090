----------------------------- MODULE MCInteraction -----------------------------
(***************************************************************************)
(* InteractionService for TLC: requests of one web page, alone or with     *)
(* one of the extension itself, of the first message version and of an     *)
(* unknown window.                                                         *)
(***************************************************************************)
EXTENDS InteractionService

CONSTANTS w1, t1

PageKinds == {[v2 |-> TRUE, internal |-> FALSE, tab |-> t1, window |-> w] : w \in Windows}

MixedKinds == PageKinds \cup
              {[v2 |-> FALSE, internal |-> TRUE, tab |-> None, window |-> None]}
=============================================================================
