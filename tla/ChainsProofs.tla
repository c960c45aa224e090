------------------------------ MODULE ChainsProofs ------------------------------
(***************************************************************************)
(* ChainsService, for any chains, versions and updates in flight: nothing  *)
(* that was fetched is kept of an unknown chain, and therefore the service *)
(* implements KnownChains.                                                 *)
(***************************************************************************)
EXTENDS ChainsService, TLAPS

USE DEF Idle

\* What an update writes about the chains, and that it changes nothing else of them.
LEMMA RepoType == ASSUME TypeOK, NEW u \in Updates, update[u].at = "repo"
                  PROVE  update[u].chain \in Chains
  BY DEF TypeOK

LEMMA FetchType == ASSUME TypeOK, NEW u \in Updates, update[u].at \in {"status", "features"}
                   PROVE  update[u].chain \in Chains
  BY DEF TypeOK

LEMMA EmbeddedKnown == \A c \in Chains \ Known : c \notin Embedded
  BY ServiceAssumption DEF Known, Base, Versions

LEMMA IdType ==
  ASSUME TypeOK, NEW c \in Known, NEW r \in [Chains -> Versions \cup {None}]
  PROVE  IdOver(r, c) \in Versions
<1>1. Base(c) \in Versions
  BY ServiceAssumption DEF Base, Known, TypeOK, Versions
<1>. QED BY <1>1 DEF IdOver, TypeOK, Known

\* The type of the variables is kept by every step.
LEMMA TypeStep == TypeOK /\ [Next]_vars => TypeOK'
<1>. SUFFICES ASSUME TypeOK, [Next]_vars PROVE TypeOK'
  OBVIOUS
<1>. USE DEF TypeOK
<1>1. ASSUME NEW c \in Chains, UpdateChainInfo(c, TRUE)
      PROVE  /\ recent' \subseteq Chains
             /\ update' \in [Updates -> {Idle} \cup [at : {"repo", "features"}, chain : Chains]
                                     \cup [at : {"status"}, chain : Chains, seen : Versions]]
  BY <1>1 DEF UpdateChainInfo
<1>2. CASE \E c \in Chains : StartUpdate(c)
  BY <1>1, <1>2 DEF StartUpdate
<1>3. CASE \E c \in Chains : Expire(c)
  BY <1>3 DEF Expire
<1>4. ASSUME NEW cs, Remove(cs) PROVE TypeOK'
  <2>1. cs \subseteq Chains BY <1>4 DEF Remove, Known
  <2>2. ASSUME NEW info \in [Chains -> Versions \cup {None}]
        PROVE  Dropped(info, cs) \in [Chains -> Versions \cup {None}]
    BY DEF Dropped
  <2>3. \A c \in Embedded : suggested'[c] = None
    BY <1>4, ServiceAssumption DEF Remove, Dropped
  <2>. QED BY <1>4, <2>1, <2>2, <2>3 DEF Remove
<1>5. CASE \E c \in Chains, n \in Versions : Suggest(c, n)
  <2>. PICK c \in Chains, n \in Versions : Suggest(c, n) BY <1>5
  <2>1. c \notin Embedded
    BY EmbeddedKnown DEF Suggest
  <2>2. /\ suggested' \in [Chains -> Versions \cup {None}]
        /\ \A d \in Embedded : suggested'[d] = None
        /\ UNCHANGED <<repo, updated>>
    BY <2>1, ServiceAssumption DEF Suggest
  <2>3. UpdateChainInfo(c, TRUE)
    BY DEF Suggest
  <2>. QED BY <1>1, <2>2, <2>3
<1>6. ASSUME NEW u \in Updates, UpdateStep(u) PROVE TypeOK'
  <2>1. ASSUME NEW c \in Chains, AskNode(u, c), repo' \in [Chains -> Versions \cup {None}]
        PROVE  update' \in [Updates -> {Idle} \cup [at : {"repo", "features"}, chain : Chains]
                                     \cup [at : {"status"}, chain : Chains, seen : Versions]]
    <3>1. c \in Known => IdOver(repo', c) \in Versions BY <2>1, IdType
    <3>. QED BY <2>1, <3>1 DEF AskNode
  <2>2. CASE \E n \in Versions : RepoAnswers(u, n)
    BY <2>1, <2>2, RepoType DEF RepoAnswers, WriteRepo
  <2>3. CASE RepoFails(u)
    BY <2>1, <2>3, RepoType DEF RepoFails
  <2>4. CASE \E n \in Versions : StatusAnswers(u, n)
    BY <2>4, FetchType DEF StatusAnswers
  <2>5. CASE FeaturesFound(u)
    <3>1. update[u].chain \in Known => ChainId(update[u].chain) \in Versions
      BY IdType DEF ChainId
    <3>. QED BY <2>5, <3>1 DEF FeaturesFound
  <2>6. CASE UpdateEnds(u)
    BY <2>6 DEF UpdateEnds
  <2>. QED BY <1>6, <2>2, <2>3, <2>4, <2>5, <2>6 DEF UpdateStep
<1>7. CASE Restart
  BY <1>7 DEF Restart
<1>8. CASE UNCHANGED vars
  BY <1>8 DEF vars
<1>. QED BY <1>2, <1>3, <1>4, <1>5, <1>6, <1>7, <1>8 DEF Next, ClearAll

THEOREM TypeCorrect == Spec => []TypeOK
<1>1. Init => TypeOK
  BY ServiceAssumption DEF Init, TypeOK
<1>. QED BY <1>1, TypeStep, PTL DEF Spec

\* Whatever is removed while it is fetched: what is written is written of known chains.
LEMMA KnownStep ==
  ASSUME TypeOK, UpdatesOfKnownChains, [Next]_vars PROVE UpdatesOfKnownChains'
<1>. USE DEF UpdatesOfKnownChains
<1>1. ASSUME UNCHANGED <<suggested, repo, updated>> PROVE UpdatesOfKnownChains'
  BY <1>1 DEF Known, Base
<1>2. CASE \E c \in Chains, n \in Versions : Suggest(c, n)
  BY <1>2, ServiceAssumption DEF Suggest, Known, Base, TypeOK, Versions
<1>3. ASSUME NEW cs, Remove(cs) PROVE UpdatesOfKnownChains'
  BY <1>3 DEF Remove, Dropped, Known, Base, TypeOK
<1>4. ASSUME NEW u \in Updates, UpdateStep(u) PROVE UpdatesOfKnownChains'
  <2>. USE DEF Known, Base, TypeOK
  <2>1. CASE \E n \in Versions : RepoAnswers(u, n)
    BY <2>1 DEF RepoAnswers, WriteRepo
  <2>2. CASE RepoFails(u)
    BY <2>2 DEF RepoFails
  <2>3. CASE \E n \in Versions : StatusAnswers(u, n)
    BY <2>3 DEF StatusAnswers
  <2>4. CASE FeaturesFound(u)
    BY <2>4 DEF FeaturesFound
  <2>5. CASE UpdateEnds(u)
    BY <2>5 DEF UpdateEnds
  <2>. QED BY <1>4, <2>1, <2>2, <2>3, <2>4, <2>5 DEF UpdateStep
<1>5. CASE \E c \in Chains : StartUpdate(c) \/ Expire(c)
  BY <1>1, <1>5 DEF StartUpdate, Expire
<1>6. CASE Restart
  BY <1>1, <1>6 DEF Restart
<1>7. CASE UNCHANGED vars
  BY <1>1, <1>7 DEF vars
<1>. QED BY <1>2, <1>3, <1>4, <1>5, <1>6, <1>7 DEF Next, ClearAll

\* Nothing fetched is kept of a chain that is not known.
THEOREM OnlyKnownUpdated == Spec => []UpdatesOfKnownChains
<1>1. Init => UpdatesOfKnownChains
  BY DEF Init, UpdatesOfKnownChains
<1>. QED BY <1>1, KnownStep, TypeCorrect, PTL DEF Spec

-----------------------------------------------------------------------------
\* What the mapping shows of a chain is a record, hence not None, exactly when it is known.
LEMMA ShownType ==
  ASSUME TypeOK
  PROVE  /\ \A c \in Known : Shown[c] \in [base : Versions, now : Versions]
         /\ \A c \in Chains \ Known : Shown[c] = None
         /\ Promise!Known = Known
<1>1. ASSUME NEW c \in Known PROVE Base(c) \in Versions /\ ChainId(c) \in Versions
  <2>1. ChainId(c) \in Versions BY IdType DEF ChainId, TypeOK
  <2>2. Base(c) \in Versions
    BY ServiceAssumption DEF Base, Known, TypeOK, Versions
  <2>. QED BY <2>1, <2>2
<1>2. Known \subseteq Chains BY DEF Known
<1>3. \A c \in Known : Shown[c] \in [base : Versions, now : Versions]
  BY <1>1, <1>2 DEF Shown
<1>4. \A c \in Chains \ Known : Shown[c] = None
  BY DEF Shown
<1>. QED BY <1>2, <1>3, <1>4, ServiceAssumption DEF Promise!Known

\* A step that leaves alone what is known of the chains but of one, renews that one.
LEMMA RenewStep ==
  ASSUME TypeOK, TypeOK', NEW c \in Known, UNCHANGED suggested,
         \A d \in Chains \ {c} : repo'[d] = repo[d] /\ updated'[d] = updated[d]
  PROVE  Promise!ChainsNext
<1>1. Known' = Known /\ c \in Chains
  BY DEF Known, Base
<1>2. /\ \A d \in Chains : Base(d)' = Base(d)
      /\ \A d \in Chains \ {c} : ChainId(d)' = ChainId(d)
  BY DEF Base, ChainId, IdOver
<1>3. ChainId(c)' \in Versions
  <2>1. Base(c) # None /\ Base(c)' = Base(c) BY <1>2, <1>1 DEF Known
  <2>2. Base(c)' \in Versions
    BY <2>1, <1>1, ServiceAssumption DEF Base, TypeOK, Versions
  <2>. QED BY <2>2, <1>1 DEF TypeOK, ChainId, IdOver
<1>4. Shown' = [Shown EXCEPT ![c].now = ChainId(c)']
  BY <1>1, <1>2 DEF Shown
<1>5. Promise!Renewed(c, ChainId(c)')
  BY <1>4, ShownType DEF Promise!Renewed
<1>. QED BY <1>1, <1>3, <1>5 DEF Promise!ChainsNext, Promise!Versions, Versions

LEMMA StutterStep ==
  ASSUME UNCHANGED <<suggested, repo, updated>> PROVE UNCHANGED Shown
  BY DEF Shown, Known, Base, ChainId, IdOver

LEMMA RefinementStep ==
  ASSUME TypeOK, TypeOK', UpdatesOfKnownChains, [Next]_vars
  PROVE  [Promise!ChainsNext]_Shown
<1>1. CASE \E c \in Chains, n \in Versions : Suggest(c, n)
  <2>. PICK c \in Chains, n \in Versions : Suggest(c, n) BY <1>1
  <2>1. /\ c \notin Known /\ c \notin Embedded
        /\ suggested' = [suggested EXCEPT ![c] = n] /\ UNCHANGED <<repo, updated>>
    BY EmbeddedKnown DEF Suggest
  <2>2. repo[c] = None /\ updated[c] = None
    BY <2>1 DEF UpdatesOfKnownChains
  <2>3. n # None BY ServiceAssumption
  <2>4. Base(c)' = n /\ ChainId(c)' = n
    BY <2>1, <2>2 DEF Base, ChainId, IdOver, TypeOK
  <2>5. \A d \in Chains \ {c} : Base(d)' = Base(d) /\ ChainId(d)' = ChainId(d)
    BY <2>1 DEF Base, ChainId, IdOver, TypeOK
  <2>6. Known' = Known \cup {c}
    BY <2>3, <2>4, <2>5 DEF Known
  <2>7. Shown' = [Shown EXCEPT ![c] = [base |-> n, now |-> n]]
    BY <2>4, <2>5, <2>6 DEF Shown
  <2>8. Promise!Suggested(c, n)
    BY <2>1, <2>7, ShownType DEF Promise!Suggested, Promise!Added
  <2>. QED BY <2>8 DEF Promise!ChainsNext, Promise!Versions, Versions
<1>2. ASSUME NEW cs, Remove(cs) PROVE Promise!ChainsNext
  <2>1. cs \subseteq Known \ Embedded /\ Known \subseteq Chains
    BY <1>2 DEF Remove, Known
  <2>2. \A d \in cs : Base(d)' = None
    BY <1>2, <2>1 DEF Remove, Base, Dropped
  <2>3. \A d \in Chains \ cs : Base(d)' = Base(d) /\ ChainId(d)' = ChainId(d)
    BY <1>2, <2>1 DEF Remove, Base, Dropped, ChainId, IdOver, TypeOK
  <2>4. Known' = Known \ cs
    BY <2>1, <2>2, <2>3 DEF Known
  <2>5. Shown' = [c \in Chains |-> IF c \in cs THEN None ELSE Shown[c]]
    BY <2>3, <2>4 DEF Shown
  <2>6. Promise!Removed(cs) /\ cs \in SUBSET (Chains \ Embedded)
    BY <2>1, <2>5, ShownType DEF Promise!Removed
  <2>. QED BY <2>6 DEF Promise!ChainsNext
<1>3. ASSUME NEW u \in Updates, UpdateStep(u) PROVE Promise!ChainsNext \/ UNCHANGED Shown
  <2>1. CASE \E n \in Versions : RepoAnswers(u, n)
    <3>1. CASE update[u].chain \in Known
      BY <2>1, <3>1, RenewStep, RepoType DEF RepoAnswers, WriteRepo, TypeOK
    <3>2. CASE update[u].chain \notin Known
      BY <2>1, <3>2, StutterStep DEF RepoAnswers, WriteRepo
    <3>. QED BY <3>1, <3>2
  <2>2. CASE RepoFails(u)
    BY <2>2, StutterStep DEF RepoFails
  <2>3. CASE \E n \in Versions : StatusAnswers(u, n)
    <3>1. CASE update[u].chain \in Known
      BY <2>3, <3>1, RenewStep DEF StatusAnswers, TypeOK
    <3>2. CASE update[u].chain \notin Known
      BY <2>3, <3>2, StutterStep DEF StatusAnswers
    <3>. QED BY <3>1, <3>2
  <2>4. CASE FeaturesFound(u)
    <3>1. CASE update[u].chain \in Known
      BY <2>4, <3>1, RenewStep DEF FeaturesFound, TypeOK
    <3>2. CASE update[u].chain \notin Known
      BY <2>4, <3>2, StutterStep DEF FeaturesFound
    <3>. QED BY <3>1, <3>2
  <2>5. CASE UpdateEnds(u)
    BY <2>5, StutterStep DEF UpdateEnds
  <2>. QED BY <1>3, <2>1, <2>2, <2>3, <2>4, <2>5 DEF UpdateStep
<1>4. CASE \E c \in Chains : StartUpdate(c) \/ Expire(c)
  BY <1>4, StutterStep DEF StartUpdate, Expire
<1>5. CASE Restart
  BY <1>5, StutterStep DEF Restart
<1>6. CASE UNCHANGED vars
  BY <1>6, StutterStep DEF vars
<1>. QED BY <1>1, <1>2, <1>3, <1>4, <1>5, <1>6 DEF Next, ClearAll

\* The chains service implements KnownChains.
THEOREM Implements == Spec => KeepsKnown
<1>1. Init => Promise!ChainsInit
  BY ServiceAssumption
     DEF Init, Promise!ChainsInit, Promise!Added, Shown, Known, Base, ChainId, IdOver, Versions
<1>2. TypeOK /\ TypeOK' /\ UpdatesOfKnownChains /\ [Next]_vars => [Promise!ChainsNext]_Shown
  BY RefinementStep
<1>. QED BY <1>1, <1>2, TypeCorrect, OnlyKnownUpdated, PTL
         DEF Spec, KeepsKnown, Promise!ChainsSpec
=============================================================================
