----------------------------- MODULE ChainsService -----------------------------
(***************************************************************************)
(* The chains of the wallet and their updates (chains/service.ts,          *)
(* chains-update/service.ts).  A chain is embedded or was suggested; on top *)
(* of that lie what the repository of chain registrations says and what    *)
(* the chain's node says.  Updates fetch both, one after the other, while  *)
(* chains are removed and suggested again.                                 *)
(*                                                                         *)
(* A chain info is reduced to the version of its chain id; the features    *)
(* that the node is found to have count only as an entry that is written.  *)
(***************************************************************************)
EXTENDS Naturals

CONSTANTS
    Chains, Embedded, MaxVersion, None,   \* as in KnownChains
    Updates                               \* updates that may be in flight together

Versions == 0..MaxVersion

ASSUME ServiceAssumption ==
    /\ Embedded \subseteq Chains
    /\ MaxVersion \in Nat
    /\ None \notin Versions \cup [base : Versions, now : Versions]

VARIABLES
    suggested,  \* suggestedChainInfos: the version each chain was suggested with, or None
    repo,       \* repoChainInfos: the version the repository has, or None
    updated,    \* updatedChainInfos: the version the node has, or None
    recent,     \* lastUpdateStartTimeMap: chains whose update began in the last 5 minutes
    update      \* the updates in flight

vars == <<suggested, repo, updated, recent, update>>

Idle == [at |-> "idle"]

Base(c) == IF c \in Embedded THEN 0 ELSE suggested[c]

Known == {c \in Chains : Base(c) # None}

\* mergeChainInfosWithDynamics: the node's word covers the repository's.
IdOver(registry, c) == CASE updated[c] # None -> updated[c]
                         [] updated[c] = None /\ registry[c] # None -> registry[c]
                         [] OTHER -> Base(c)

ChainId(c) == IdOver(repo, c)

TypeOK ==
    /\ suggested \in [Chains -> Versions \cup {None}]
    /\ repo      \in [Chains -> Versions \cup {None}]
    /\ updated   \in [Chains -> Versions \cup {None}]
    /\ recent \subseteq Chains
    /\ update \in [Updates -> {Idle} \cup [at : {"repo", "features"}, chain : Chains]
                                     \cup [at : {"status"}, chain : Chains, seen : Versions]]
    /\ \A c \in Embedded : suggested[c] = None

Init ==
    /\ suggested = [c \in Chains |-> None]
    /\ repo      = [c \in Chains |-> None]
    /\ updated   = [c \in Chains |-> None]
    /\ recent    = {}
    /\ update    = [u \in Updates |-> Idle]

-----------------------------------------------------------------------------
\* updateChainInfo: the time is noted whether or not the chain is known, and a second
\* update within 5 minutes does nothing.
UpdateChainInfo(c, isKnown) ==
    /\ recent' = recent \cup {c}
    /\ IF c \notin recent /\ isKnown
         THEN \E u \in Updates :
                 /\ update[u] = Idle
                 /\ update' = [update EXCEPT ![u] = [at |-> "repo", chain |-> c]]
         ELSE UNCHANGED update

\* One of the two loops, or a message of the UI.
StartUpdate(c) ==
    /\ c \in Known
    /\ UpdateChainInfo(c, TRUE)
    /\ UNCHANGED <<suggested, repo, updated>>

\* The time passes the throttle.
Expire(c) ==
    /\ c \in recent
    /\ recent' = recent \ {c}
    /\ UNCHANGED <<suggested, repo, updated, update>>

\* An approved suggestion; the updating service hears of it at once.
Suggest(c, n) ==
    /\ c \notin Known
    /\ suggested' = [suggested EXCEPT ![c] = n]
    /\ UpdateChainInfo(c, TRUE)
    /\ UNCHANGED <<repo, updated>>

Dropped(info, cs) == [c \in Chains |-> IF c \in cs THEN None ELSE info[c]]

\* Mutant: one of the maps is forgotten.
Remove_KeepsUpdated(cs) ==
    /\ cs # {} /\ cs \subseteq Known \ Embedded
    /\ suggested' = Dropped(suggested, cs)
    /\ repo'      = Dropped(repo, cs)
    /\ recent'    = recent \cup cs
    /\ UNCHANGED <<updated, update>>

\* A removed chain takes along what was fetched for it.  The updating service hears of
\* it too, tries to update the chain and notes the time.
Remove(cs) ==
    /\ cs # {} /\ cs \subseteq Known \ Embedded
    /\ suggested' = Dropped(suggested, cs)
    /\ repo'      = Dropped(repo, cs)
    /\ updated'   = Dropped(updated, cs)
    /\ recent'    = recent \cup cs
    /\ UNCHANGED update

ClearAll == Remove(Known \ Embedded)

-----------------------------------------------------------------------------
\* Mutant: the chain is not looked up after the fetch.
WriteRepo_Unchecked(c, n) == repo' = [repo EXCEPT ![c] = n]

\* The repository answers, or fails: the node is asked next, if the chain is still known.
WriteRepo(c, n) == IF c \in Known THEN repo' = [repo EXCEPT ![c] = n] ELSE UNCHANGED repo

\* Mutant: the node's answer is compared with the repository's.
AskNode_ComparesRepo(u, c) ==
    update' = [update EXCEPT ![u] = IF c \in Known
                                    THEN [at |-> "status", chain |-> c, seen |-> repo'[c]]
                                    ELSE Idle]

AskNode(u, c) ==
    update' = [update EXCEPT ![u] = IF c \in Known
                                    THEN [at |-> "status", chain |-> c, seen |-> IdOver(repo', c)]
                                    ELSE Idle]

RepoAnswers(u, n) ==
    /\ update[u].at = "repo"
    /\ WriteRepo(update[u].chain, n)
    /\ UNCHANGED <<suggested, updated, recent>>
    /\ AskNode(u, update[u].chain)

RepoFails(u) ==
    /\ update[u].at = "repo"
    /\ UNCHANGED <<suggested, repo, updated, recent>>
    /\ AskNode(u, update[u].chain)

\* The node says its chain id; what differs from the id before the fetch is written.
StatusAnswers(u, n) ==
    LET c == update[u].chain
        writes == n # update[u].seen
    IN  /\ update[u].at = "status"
        /\ updated' = IF writes /\ c \in Known THEN [updated EXCEPT ![c] = n] ELSE updated
        /\ update'  = [update EXCEPT ![u] = IF writes /\ c \notin Known THEN Idle
                                            ELSE [at |-> "features", chain |-> c]]
        /\ UNCHANGED <<suggested, repo, recent>>

\* Features are found: the first entry written for a chain keeps the id it has now.
FeaturesFound(u) ==
    LET c == update[u].chain
    IN  /\ update[u].at = "features"
        /\ updated' = IF c \in Known THEN [updated EXCEPT ![c] = ChainId(c)] ELSE updated
        /\ update' = [update EXCEPT ![u] = Idle]
        /\ UNCHANGED <<suggested, repo, recent>>

\* The node is not reached, is of another network, or has no further feature.
UpdateEnds(u) ==
    /\ update[u].at \in {"status", "features"}
    /\ update' = [update EXCEPT ![u] = Idle]
    /\ UNCHANGED <<suggested, repo, updated, recent>>

\* The worker ends and starts: what was fetched is stored, the rest was memory.
Restart ==
    /\ recent' = {}
    /\ update' = [u \in Updates |-> Idle]
    /\ UNCHANGED <<suggested, repo, updated>>

UpdateStep(u) ==
    \/ \E n \in Versions : RepoAnswers(u, n) \/ StatusAnswers(u, n)
    \/ RepoFails(u)
    \/ FeaturesFound(u)
    \/ UpdateEnds(u)

Next ==
    \/ \E c \in Chains : StartUpdate(c) \/ Expire(c) \/ Remove({c})
    \/ \E c \in Chains, n \in Versions : Suggest(c, n)
    \/ ClearAll
    \/ \E u \in Updates : UpdateStep(u)
    \/ Restart

Spec == Init /\ [][Next]_vars

-----------------------------------------------------------------------------
\* "Became unregistered after fetching": what a repository or a node has said is kept of
\* known chains only, however long the fetch took and whatever was removed meanwhile.
UpdatesOfKnownChains ==
    \A c \in Chains : repo[c] # None \/ updated[c] # None => c \in Known

\* The chains service is what the other services take it for: a chain that is suggested
\* has the id it was suggested with, even if it was known, updated and removed before.
Shown == [c \in Chains |-> IF c \in Known THEN [base |-> Base(c), now |-> ChainId(c)] ELSE None]

Promise == INSTANCE KnownChains WITH chains <- Shown

KeepsKnown == Promise!ChainsSpec
=============================================================================
