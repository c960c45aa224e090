------------------------------- MODULE MCKeyRing -------------------------------
(***************************************************************************)
(* KeyRingService for TLC.  User passwords are interchangeable, and so are *)
(* the slots of calls in flight.                                           *)
(***************************************************************************)
EXTENDS KeyRingService

Symmetry == Permutations(UserPasswords) \cup Permutations(Calls)
=============================================================================
