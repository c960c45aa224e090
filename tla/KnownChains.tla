------------------------------ MODULE KnownChains ------------------------------
(***************************************************************************)
(* What the other services rely on of the chains service: which chains are *)
(* known, and which chain id each has now.  A chain is a chain identifier, *)
(* the part of a chain id that stays when the network upgrades; the rest,  *)
(* its version, may be renewed while the chain is known.                   *)
(***************************************************************************)
EXTENDS Naturals

CONSTANTS
    Chains,      \* chain identifiers
    Embedded,    \* those that come with the wallet
    MaxVersion,  \* bound of the versions of a chain id
    None

Versions == 0..MaxVersion

ASSUME ChainsAssumption ==
    /\ Embedded \subseteq Chains
    /\ MaxVersion \in Nat
    /\ None \notin Versions \cup [base : Versions, now : Versions]

VARIABLE
    chains  \* of each chain: None, or the version it was added with and its version now

Known == {c \in Chains : chains[c] # None}

Added(n) == [base |-> n, now |-> n]

ChainsInit == chains = [c \in Chains |-> IF c \in Embedded THEN Added(0) ELSE None]

Suggested(c, n) ==
    /\ c \notin Known
    /\ chains' = [chains EXCEPT ![c] = Added(n)]

Removed(cs) ==
    /\ cs \subseteq Known \ Embedded
    /\ chains' = [c \in Chains |-> IF c \in cs THEN None ELSE chains[c]]

Renewed(c, n) ==
    /\ c \in Known
    /\ chains' = [chains EXCEPT ![c].now = n]

ChainsNext ==
    \/ \E c \in Chains, n \in Versions : Suggested(c, n) \/ Renewed(c, n)
    \/ \E cs \in SUBSET (Chains \ Embedded) : Removed(cs)

ChainsSpec == ChainsInit /\ [][ChainsNext]_chains
=============================================================================
