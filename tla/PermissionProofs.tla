--------------------------- MODULE PermissionProofs ---------------------------
(***************************************************************************)
(* Proofs about PermissionInteractive: its types, that only known chains   *)
(* are permitted and the stored current chain of EVM is one of them, and   *)
(* that a request of a page is carried out only when the page is entitled. *)
(***************************************************************************)
EXTENDS PermissionInteractive, TLAPS

RequestType ==
    [at : Stages, origin : Origins, what : Whats, chains : SUBSET Chains, asked : SUBSET Chains]

\* What is asked for at last by a provider that switches is what it switches to.
RegrantsTheSame ==
    \A r \in Requests : request[r].at = "regrant" => request[r].asked = request[r].chains

PermissionInv == PermissionTypeOK /\ PermittedIsKnown /\ EVMCurrentIsPermitted

IInv == TypeOK /\ PermittedIsKnown /\ EVMCurrentIsPermitted /\ RegrantsTheSame

-----------------------------------------------------------------------------
LEMMA RequestBecomes ==
    ASSUME TypeOK, NEW r \in Requests, NEW q \in {Idle} \cup RequestType, Becomes(r, q)
    PROVE  /\ request' \in [Requests -> {Idle} \cup RequestType]
           /\ request'[r] = q
           /\ \A r2 \in Requests \ {r} : request'[r2] = request[r2]
BY DEF TypeOK, Becomes, RequestType

\* A request that is not idle is a record of what was asked for.
LEMMA RequestOf ==
    ASSUME TypeOK, NEW r \in Requests, request[r].at # "idle"
    PROVE  request[r] \in RequestType
BY DEF TypeOK, RequestType, Idle

LEMMA IdleOrRun ==
    /\ Idle.at = "idle"
    /\ \A q \in RequestType : q.at \in Stages
BY DEF Idle, RequestType

-----------------------------------------------------------------------------
\* The permissions under each change of them, while the chains stay.
LEMMA AddsPermissionsInv ==
    ASSUME PermissionInv, NEW o \in Origins, NEW cs \in SUBSET Chains, AddsPermissions(o, cs),
           UNCHANGED <<chains, globals, current>>
    PROVE  PermissionInv'
BY DEF PermissionInv, PermissionTypeOK, PermittedIsKnown, EVMCurrentIsPermitted, HasPermission,
       AddsPermissions, Known

LEMMA AddsCurrentInv ==
    ASSUME PermissionInv, NEW o \in Origins, NEW k \in Kinds, NEW c \in Chains,
           AddsCurrent(o, k, c), UNCHANGED <<chains, globals>>
    PROVE  PermissionInv'
<1> USE DEF PermissionInv, PermissionTypeOK, PermittedIsKnown, EVMCurrentIsPermitted,
            HasPermission, Known
<1>1. CASE c \notin Known
  BY <1>1 DEF AddsCurrent
<1>2. CASE c \in Known
  <2>1. permitted' = permitted \cup {<<o, c>>} /\ current' = [current EXCEPT ![o][k] = c]
    BY <1>2 DEF AddsCurrent
  <2>2. PermissionTypeOK'
    BY <2>1
  <2>3. PermittedIsKnown'
    BY <1>2, <2>1
  <2>4. ASSUME NEW o2 \in Origins
        PROVE  \/ current'[o2]["evm"] = current[o2]["evm"]
               \/ current'[o2]["evm"] = c /\ o2 = o
    BY <2>1, PermissionAssumption
  <2>5. EVMCurrentIsPermitted'
    BY <1>2, <2>1, <2>4
  <2> QED
    BY <2>2, <2>3, <2>5
<1> QED
  BY <1>1, <1>2

LEMMA SetsCurrentInv ==
    ASSUME PermissionInv, NEW o \in Origins, NEW k \in Kinds, NEW c \in Chains \cup {None},
           c # None => HasPermission(o, c),
           current' = [current EXCEPT ![o][k] = c], UNCHANGED <<chains, permitted, globals>>
    PROVE  PermissionInv'
BY DEF PermissionInv, PermissionTypeOK, PermittedIsKnown, EVMCurrentIsPermitted, HasPermission,
       Known

LEMMA CurrentType ==
    ASSUME PermissionTypeOK, NEW o \in Origins, NEW k \in Kinds
    PROVE  /\ Current(o, k) \in Chains \cup {None}
           /\ Current(o, k) # None => HasPermission(o, Current(o, k))
BY PermissionAssumption DEF PermissionTypeOK, Current, HasPermission

LEMMA ReadCurrentInv ==
    ASSUME PermissionInv, NEW o \in Origins, NEW k \in Kinds, ReadCurrent(o, k),
           UNCHANGED <<chains, permitted, globals>>
    PROVE  PermissionInv'
BY CurrentType, SetsCurrentInv DEF ReadCurrent, PermissionInv

LEMMA AddsGlobalInv ==
    ASSUME PermissionInv, NEW o \in Origins, NEW type \in GlobalTypes, AddsGlobal(o, type),
           UNCHANGED <<chains, permitted, current>>
    PROVE  PermissionInv'
BY DEF PermissionInv, PermissionTypeOK, PermittedIsKnown, EVMCurrentIsPermitted, HasPermission,
       AddsGlobal, Known

LEMMA UnchangedInv ==
    ASSUME PermissionInv, UNCHANGED <<chains, permissionVars>>
    PROVE  PermissionInv'
BY DEF PermissionInv, PermissionTypeOK, PermittedIsKnown, EVMCurrentIsPermitted, HasPermission,
       permissionVars, Known

LEMMA PermissionNextInv ==
    ASSUME PermissionInv, PermissionNext
    PROVE  PermissionInv'
<1> USE DEF PermissionInv, PermissionTypeOK, PermittedIsKnown, EVMCurrentIsPermitted,
            HasPermission, Known
<1>0. UNCHANGED chains
  BY DEF PermissionNext
<1>1. CASE ClearAllPermissions
  BY <1>0, <1>1, PermissionAssumption DEF ClearAllPermissions, Unset
<1>2. ASSUME NEW o \in Origins, RemoveOrigin(o), globals' \subseteq globals
      PROVE  PermissionInv'
  BY <1>0, <1>2, PermissionAssumption DEF RemoveOrigin, Unset
<1>3. ASSUME NEW o \in Origins, Disconnect(o)
      PROVE  PermissionInv'
  BY <1>2, <1>3 DEF Disconnect
<1>4. ASSUME NEW o \in Origins, ClearOrigin(o)
      PROVE  PermissionInv'
  BY <1>2, <1>4 DEF ClearOrigin, RemoveGlobals
<1>5. ASSUME NEW o \in Origins, NEW type \in GlobalTypes, RemoveGlobalPermission(o, type)
      PROVE  PermissionInv'
  BY <1>0, <1>5 DEF RemoveGlobalPermission, RemoveGlobals
<1>6. ASSUME NEW o \in Origins, NEW cs \in SUBSET Chains, RemoveFromChains(o, cs)
      PROVE  PermissionInv'
  <2>1. CASE cs \cap Known = {}
    BY <1>0, <1>6, <2>1 DEF RemoveFromChains
  <2>2. CASE cs \cap Known # {}
    <3> DEFINE kept == Without([k \in Kinds |-> Current(o, k)], cs)
    <3>1. current' = [current EXCEPT ![o] = kept] /\ globals' = globals
          /\ permitted' = permitted \ ({o} \X (cs \cap Known))
      BY <1>6, <2>2 DEF RemoveFromChains
    <3>2. \A k \in Kinds : /\ kept[k] \in Chains \cup {None}
                           /\ kept[k] # None => HasPermission(o, kept[k]) /\ kept[k] \notin cs
      BY CurrentType DEF Without
    <3>3. kept \in [Kinds -> Chains \cup {None}]
      BY <3>2 DEF Without
    <3> HIDE DEF kept
    <3> QED
      BY <1>0, <3>1, <3>2, <3>3, PermissionAssumption
  <2> QED
    BY <2>1, <2>2
<1>7. ASSUME NEW o \in Origins, NEW c \in Chains, RemovePermission(o, c)
      PROVE  PermissionInv'
  <2> DEFINE kept == IF current[o]["evm"] = c THEN None ELSE Current(o, "evm")
  <2>1. /\ kept \in Chains \cup {None}
        /\ kept # None => HasPermission(o, kept) /\ kept # c
    BY CurrentType, PermissionAssumption DEF Current
  <2>2. /\ current' = [current EXCEPT ![o]["evm"] = kept]
        /\ permitted' = permitted \ {<<o, c>>}
        /\ globals' = globals
    BY <1>7, PermissionAssumption DEF RemovePermission
  <2> HIDE DEF kept
  <2> QED
    BY <1>0, <2>1, <2>2, PermissionAssumption
<1>8. ASSUME NEW o \in Origins, NEW c \in Chains, AddPermissionFromUI(o, c)
      PROVE  PermissionInv'
  BY <1>0, <1>8, AddsPermissionsInv DEF AddPermissionFromUI
<1>9. ASSUME NEW o \in Origins, NEW k \in Kinds, NEW c \in Chains, UpdateCurrentFromUI(o, k, c)
      PROVE  PermissionInv'
  BY <1>0, <1>9, AddsCurrentInv DEF UpdateCurrentFromUI
<1>10. ASSUME NEW o \in Origins, NEW k \in Kinds, AnyPageReads(o, k)
       PROVE  PermissionInv'
  BY <1>0, <1>10, ReadCurrentInv DEF AnyPageReads
<1> QED
  BY <1>1, <1>3, <1>4, <1>5, <1>6, <1>7, <1>8, <1>9, <1>10 DEF PermissionNext

-----------------------------------------------------------------------------
ChainsTypeOK == chains \in [Chains -> {None} \cup [base : Versions, now : Versions]]

\* A step of one request keeps the invariant when it keeps that of the permissions.
LEMMA StepTo ==
    ASSUME IInv, NEW r \in Requests, NEW q \in {Idle} \cup RequestType, Becomes(r, q),
           q.at = "regrant" => q.asked = q.chains,
           PermissionInv', ChainsTypeOK', LockTypeOK'
    PROVE  IInv' /\ request'[r] = q
<1>1. /\ request' \in [Requests -> {Idle} \cup RequestType]
      /\ request'[r] = q
      /\ \A r2 \in Requests \ {r} : request'[r2] = request[r2]
  BY RequestBecomes DEF IInv
<1>2. RegrantsTheSame'
  BY <1>1 DEF IInv, RegrantsTheSame
<1>3. TypeOK'
  BY <1>1 DEF TypeOK, RequestType, PermissionInv, ChainsTypeOK
<1> QED
  BY <1>1, <1>2, <1>3 DEF IInv, PermissionInv

\* The invariant after a step of a request, which is entitled if the step carries it out.
StepIsRight(r) ==
    IInv' /\ (request[r].at # "run" /\ request'[r].at = "run" => Entitled(request[r])')

LEMMA Throwing ==
    ASSUME IInv, NEW r \in Requests, Throws(r), PermissionInv', ChainsTypeOK', LockTypeOK'
    PROVE  StepIsRight(r)
BY StepTo, IdleOrRun DEF Throws, StepIsRight

\* A step to another stage.
LEMMA Going ==
    ASSUME IInv, NEW r \in Requests, request[r].at # "idle", NEW stage \in Stages \ {"regrant"},
           GoesTo(r, stage), PermissionInv', ChainsTypeOK', LockTypeOK',
           stage = "run" => Entitled(request[r])'
    PROVE  StepIsRight(r)
<1> DEFINE q == [request[r] EXCEPT !.at = stage]
<1>1. request[r] \in RequestType
  BY RequestOf DEF IInv
<1>2. q \in RequestType /\ q.at = stage
  BY <1>1 DEF RequestType
<1>3. Becomes(r, q)
  BY DEF GoesTo
<1> HIDE DEF q
<1> QED
  BY <1>2, <1>3, StepTo DEF StepIsRight

LEMMA Fields ==
    ASSUME TypeOK, NEW r \in Requests, request[r].at # "idle", NEW stage \in Stages,
           GoesTo(r, stage)
    PROVE  /\ request[r] \in RequestType
           /\ request'[r].origin = request[r].origin
           /\ request'[r].what = request[r].what
           /\ request'[r].chains = request[r].chains
BY RequestOf, RequestBecomes DEF GoesTo, Becomes, RequestType, TypeOK

LEMMA Waiting ==
    ASSUME IInv, NEW r \in Requests, request[r].at # "idle", NEW cs \in SUBSET Chains,
           NEW stage \in Stages \ {"run"}, stage = "regrant" => cs = request[r].chains,
           WaitsForGrant(r, stage, cs), PermissionInv', ChainsTypeOK', LockTypeOK'
    PROVE  StepIsRight(r)
<1> DEFINE q == [request[r] EXCEPT !.at = stage, !.asked = cs]
<1>1. request[r] \in RequestType
  BY RequestOf DEF IInv
<1>2. q \in RequestType /\ q.at = stage /\ q.asked = cs /\ q.chains = request[r].chains
  BY <1>1 DEF RequestType
<1>3. Becomes(r, q)
  BY DEF WaitsForGrant
<1> HIDE DEF q
<1> QED
  BY <1>2, <1>3, StepTo DEF StepIsRight

\* What most steps of a request leave alone.
LEMMA Frame ==
    ASSUME IInv
    PROVE  /\ PermissionInv
           /\ UNCHANGED chains => ChainsTypeOK'
           /\ UNCHANGED lockVars => LockTypeOK'
BY DEF IInv, PermissionInv, TypeOK, ChainsTypeOK, LockTypeOK, lockVars

\* When a request is entitled, by what it asks for.
LEMMA EntitledChains ==
    ASSUME NEW r \in Requests, NEW o, NEW cs,
           request'[r].what \in {"enable", "suggest"},
           request'[r].origin = o, request'[r].chains = cs,
           \A c \in cs : HasPermission(o, c)'
    PROVE  Entitled(request[r])'
<1>1. request'[r].what \notin Kinds
  BY AskedAssumption
<1>2. \A c \in request'[r].chains : HasPermission(request[r].origin, c)'
  BY DEF HasPermission
<1> QED
  BY <1>1, <1>2 DEF Entitled

LEMMA EntitledKind ==
    ASSUME NEW r \in Requests, NEW k \in Kinds, NEW o, NEW cs,
           request'[r].what = k, request'[r].origin = o, request'[r].chains = cs,
           HasPermission(o, CurrentOrDefault(o, k))',
           cs # {} => Current(o, k)' \in cs
    PROVE  Entitled(request[r])'
<1>1. k \notin {"enable", "suggest"}
  BY AskedAssumption
<1>2. HasPermission(request[r].origin, CurrentOrDefault(request[r].origin, request[r].what))'
  BY DEF HasPermission, CurrentOrDefault, Current
<1>3. request'[r].chains # {} =>
        Current(request[r].origin, request[r].what)' \in request'[r].chains
  BY DEF HasPermission, Current
<1> QED
  BY <1>1, <1>2, <1>3 DEF Entitled

LEMMA AskIsRight ==
    ASSUME IInv, NEW r \in Requests, NEW o \in Origins, NEW what \in Whats,
           NEW cs \in SUBSET Chains, Ask(r, o, what, cs)
    PROVE  StepIsRight(r)
<1>1. PICK stage \in {"grant", "check", "unlock"} :
        Becomes(r, [at |-> stage, origin |-> o, what |-> what, chains |-> cs, asked |-> {}])
  BY DEF Ask
<1>2. PermissionInv' /\ ChainsTypeOK' /\ LockTypeOK'
  BY Frame, UnchangedInv DEF Ask
<1>3. [at |-> stage, origin |-> o, what |-> what, chains |-> cs, asked |-> {}] \in RequestType
  BY DEF RequestType, Stages
<1> QED
  BY <1>1, <1>2, <1>3, StepTo DEF StepIsRight

\* The fields of a request that waits, as constants of the step.
LEMMA Fixed ==
    ASSUME TypeOK, NEW r \in Requests, request[r].at # "idle"
    PROVE  \E o \in Origins, cs \in SUBSET Chains, asked \in SUBSET Chains :
              request[r].origin = o /\ request[r].chains = cs /\ request[r].asked = asked
BY RequestOf DEF RequestType

LEMMA CheckEnableIsRight ==
    ASSUME IInv, NEW r \in Requests, CheckEnable(r)
    PROVE  StepIsRight(r)
<1>1. PermissionInv' /\ ChainsTypeOK' /\ LockTypeOK'
  BY Frame, UnchangedInv DEF CheckEnable
<1>2. request[r].at # "idle" /\ request[r].what = "enable" /\ TypeOK
  BY DEF CheckEnable, IsFor, IInv
<1>3. PICK o \in Origins, cs \in SUBSET Chains :
        request[r].origin = o /\ request[r].chains = cs
  BY <1>2, Fixed
<1> DEFINE ungranted == {c \in cs : ~HasPermission(o, c)}
<1>4. CASE Throws(r)
  BY <1>1, <1>4, Throwing
<1>5. CASE ungranted = {} /\ GoesTo(r, "run")
  <2>1. \A c \in cs : HasPermission(o, c)'
    BY <1>5 DEF CheckEnable, permissionVars, HasPermission, Known
  <2>2. request'[r].origin = o /\ request'[r].what = "enable" /\ request'[r].chains = cs
    BY <1>2, <1>3, <1>5, Fields DEF Stages
  <2>3. Entitled(request[r])'
    BY <2>1, <2>2, EntitledChains
  <2> QED
    BY <1>1, <1>2, <1>5, <2>3, Going DEF Stages
<1>6. CASE WaitsForGrant(r, "grant", ungranted)
  BY <1>1, <1>2, <1>6, Waiting DEF Stages
<1> QED
  BY <1>3, <1>4, <1>5, <1>6 DEF CheckEnable

\* What is read stays what is read.
LEMMA ReadStays ==
    ASSUME PermissionTypeOK, NEW o \in Origins, NEW k \in Kinds, ReadCurrent(o, k),
           UNCHANGED <<chains, permitted>>
    PROVE  Current(o, k)' = Current(o, k)
<1>1. current'[o][k] = Current(o, k)
  BY DEF ReadCurrent, PermissionTypeOK
<1> QED
  BY <1>1, CurrentType DEF Current, HasPermission, Known

LEMMA CheckKindIsRight ==
    ASSUME IInv, NEW r \in Requests, NEW k \in Kinds, CheckKind(r, k)
    PROVE  StepIsRight(r)
<1>0. TypeOK /\ PermissionInv /\ PermissionTypeOK
  BY Frame DEF IInv, PermissionInv
<1>1. /\ request[r].at # "idle" /\ request[r].what = k
      /\ UNCHANGED <<chains, permitted, globals, lockVars>>
  BY DEF CheckKind, IsFor
<1>2. PICK o \in Origins, cs \in SUBSET Chains :
        request[r].origin = o /\ request[r].chains = cs
  BY <1>0, <1>1, Fixed
<1> DEFINE c == IF cs = {} THEN CurrentOrDefault(o, k) ELSE CHOOSE d \in cs : TRUE
<1>3. c \in Chains
  BY <1>0, CurrentType, PermissionAssumption, ChainsAssumption DEF CurrentOrDefault
<1>4. PermissionInv' /\ ChainsTypeOK' /\ LockTypeOK'
  <2>1. CASE cs = {}
    BY <1>0, <1>1, <1>2, <2>1, Frame, ReadCurrentInv DEF CheckKind
  <2>2. CASE cs # {}
    BY <1>0, <1>1, <1>2, <2>2, Frame, UnchangedInv DEF CheckKind, permissionVars
  <2> QED
    BY <2>1, <2>2
<1>5. CASE Throws(r)
  BY <1>4, <1>5, Throwing
<1>6. CASE HasPermission(o, c) /\ Proceeds(r)
  <2>1. CASE cs # {}
    BY <1>1, <1>2, <1>4, <1>6, <2>1, Going DEF Proceeds, Stages
  <2>2. CASE cs = {}
    <3>1. GoesTo(r, "run")
      BY <1>2, <1>6, <2>2 DEF Proceeds
    <3>2. Current(o, k)' = Current(o, k)
      BY <1>0, <1>1, <1>2, <2>2, ReadStays DEF CheckKind
    <3>3. HasPermission(o, CurrentOrDefault(o, k))'
      BY <1>1, <1>6, <2>2, <3>2 DEF CurrentOrDefault, HasPermission, Known
    <3>4. request'[r].origin = o /\ request'[r].what = k /\ request'[r].chains = cs
      BY <1>0, <1>1, <1>2, <3>1, Fields DEF Stages
    <3>5. Entitled(request[r])'
      BY <2>2, <3>3, <3>4, EntitledKind
    <3> QED
      BY <1>1, <1>4, <3>1, <3>5, Going DEF Stages
  <2> QED
    BY <2>1, <2>2
<1>7. CASE WaitsForGrant(r, "grant", {c})
  BY <1>1, <1>3, <1>4, <1>7, Waiting DEF Stages
<1> QED
  BY <1>2, <1>5, <1>6, <1>7 DEF CheckKind

LEMMA ApproveEnableIsRight ==
    ASSUME IInv, NEW r \in Requests, ApproveEnable(r)
    PROVE  StepIsRight(r)
<1>1. TypeOK /\ request[r].at # "idle" /\ request[r].what = "enable"
  BY DEF ApproveEnable, IsFor, IInv
<1>2. PICK o \in Origins, cs \in SUBSET Chains, asked \in SUBSET Chains :
        request[r].origin = o /\ request[r].chains = cs /\ request[r].asked = asked
  BY <1>1, Fixed
<1>3. PermissionInv' /\ ChainsTypeOK' /\ LockTypeOK'
  BY <1>2, Frame, AddsPermissionsInv DEF ApproveEnable
<1>4. CASE Throws(r)
  BY <1>3, <1>4, Throwing
<1>5. CASE cs \subseteq Known /\ {o} \X cs \subseteq permitted' /\ GoesTo(r, "run")
  <2>1. \A c \in cs : HasPermission(o, c)'
    BY <1>5 DEF ApproveEnable, HasPermission, Known
  <2>2. request'[r].origin = o /\ request'[r].what = "enable" /\ request'[r].chains = cs
    BY <1>1, <1>2, <1>5, Fields DEF Stages
  <2>3. Entitled(request[r])'
    BY <2>1, <2>2, EntitledChains
  <2> QED
    BY <1>1, <1>3, <1>5, <2>3, Going DEF Stages
<1> QED
  BY <1>2, <1>4, <1>5 DEF ApproveEnable

\* A chain that has been made current and permitted is what is read.
LEMMA CurrentIsSet ==
    ASSUME PermissionTypeOK, NEW o \in Origins, NEW k \in Kinds, NEW c \in Chains,
           HasPermission(o, c)', current' = [current EXCEPT ![o][k] = c]
    PROVE  Current(o, k)' = c /\ HasPermission(o, CurrentOrDefault(o, k))'
<1>1. current'[o][k] = c /\ c # None
  BY PermissionAssumption DEF PermissionTypeOK
<1>2. Current(o, k)' = c
  BY <1>1 DEF Current, HasPermission
<1> QED
  BY <1>1, <1>2 DEF CurrentOrDefault, HasPermission

LEMMA ApproveKindIsRight ==
    ASSUME IInv, NEW r \in Requests, NEW k \in Kinds, NEW c \in Chains, ApproveKind(r, k, c)
    PROVE  StepIsRight(r)
<1>1. TypeOK /\ PermissionTypeOK /\ request[r].at # "idle" /\ request[r].what = k
  BY DEF ApproveKind, IsFor, IInv, TypeOK
<1>2. PICK o \in Origins, cs \in SUBSET Chains :
        request[r].origin = o /\ request[r].chains = cs
  BY <1>1, Fixed
<1>3. PermissionInv' /\ ChainsTypeOK' /\ LockTypeOK'
  BY <1>2, Frame, AddsCurrentInv DEF ApproveKind
<1>4. CASE Throws(r)
  BY <1>3, <1>4, Throwing
<1>5. CASE c \in Known /\ Proceeds(r)
  <2>1. CASE cs # {}
    BY <1>1, <1>2, <1>3, <1>5, <2>1, Going DEF Proceeds, Stages
  <2>2. CASE cs = {}
    <3>1. GoesTo(r, "run")
      BY <1>2, <1>5, <2>2 DEF Proceeds
    <3>2. HasPermission(o, c)' /\ current' = [current EXCEPT ![o][k] = c]
      BY <1>2, <1>5 DEF ApproveKind, AddsCurrent, HasPermission, Known
    <3>3. request'[r].origin = o /\ request'[r].what = k /\ request'[r].chains = cs
      BY <1>1, <1>2, <3>1, Fields DEF Stages
    <3>4. Entitled(request[r])'
      BY <1>1, <2>2, <3>2, <3>3, CurrentIsSet, EntitledKind
    <3> QED
      BY <1>1, <1>3, <3>1, <3>4, Going DEF Stages
  <2> QED
    BY <2>1, <2>2
<1> QED
  BY <1>4, <1>5 DEF ApproveKind

LEMMA SwitchIsRight ==
    ASSUME IInv, NEW r \in Requests, NEW k \in Kinds, Switch(r, k)
    PROVE  StepIsRight(r)
<1>1. TypeOK /\ PermissionTypeOK /\ PermissionInv /\ request[r].at # "idle" /\ request[r].what = k
  BY Frame DEF Switch, IsFor, IInv, TypeOK
<1>2. PICK o \in Origins, cs \in SUBSET Chains :
        request[r].origin = o /\ request[r].chains = cs
  BY <1>1, Fixed
<1>3. PICK c \in cs :
        \/ Current(o, k) = c /\ GoesTo(r, "run") /\ ReadCurrent(o, k)
        \/ /\ HasPermission(o, c)
           /\ GoesTo(r, "run") /\ current' = [current EXCEPT ![o][k] = c]
        \/ WaitsForGrant(r, "regrant", cs) /\ ReadCurrent(o, k)
  BY <1>2 DEF Switch
<1>4. c \in Chains /\ UNCHANGED <<chains, permitted, globals, lockVars>>
  BY <1>3 DEF Switch
<1>5. PermissionInv' /\ ChainsTypeOK' /\ LockTypeOK'
  BY <1>1, <1>3, <1>4, Frame, ReadCurrentInv, SetsCurrentInv
<1>6. CASE WaitsForGrant(r, "regrant", cs)
  BY <1>1, <1>2, <1>5, <1>6, Waiting DEF Stages
<1>7. ASSUME GoesTo(r, "run"), Current(o, k)' = c, HasPermission(o, CurrentOrDefault(o, k))'
      PROVE  StepIsRight(r)
  <2>1. request'[r].origin = o /\ request'[r].what = k /\ request'[r].chains = cs
    BY <1>1, <1>2, <1>7, Fields DEF Stages
  <2>2. Entitled(request[r])'
    BY <1>3, <1>7, <2>1, EntitledKind
  <2> QED
    BY <1>1, <1>5, <1>7, <2>2, Going DEF Stages
<1>8. CASE Current(o, k) = c /\ GoesTo(r, "run") /\ ReadCurrent(o, k)
  <2>1. Current(o, k)' = c
    BY <1>1, <1>4, <1>8, ReadStays
  <2>2. HasPermission(o, c) /\ c # None
    BY <1>1, <1>4, <1>8, CurrentType, PermissionAssumption
  <2>3. HasPermission(o, CurrentOrDefault(o, k))'
    BY <1>4, <2>1, <2>2 DEF CurrentOrDefault, HasPermission, Known
  <2> QED
    BY <1>7, <1>8, <2>1, <2>3
<1>9. CASE HasPermission(o, c) /\ GoesTo(r, "run") /\ current' = [current EXCEPT ![o][k] = c]
  <2>1. HasPermission(o, c)'
    BY <1>4, <1>9 DEF HasPermission, Known
  <2> QED
    BY <1>1, <1>4, <1>7, <1>9, <2>1, CurrentIsSet
<1> QED
  BY <1>3, <1>6, <1>8, <1>9

LEMMA ApproveSwitchIsRight ==
    ASSUME IInv, NEW r \in Requests, NEW k \in Kinds, ApproveSwitch(r, k)
    PROVE  StepIsRight(r)
<1>1. /\ TypeOK /\ PermissionTypeOK /\ request[r].at # "idle" /\ request[r].what = k
      /\ request[r].asked = request[r].chains
  BY DEF ApproveSwitch, IsFor, IInv, TypeOK, RegrantsTheSame
<1>2. PICK o \in Origins, cs \in SUBSET Chains :
        request[r].origin = o /\ request[r].chains = cs
  BY <1>1, Fixed
<1>3. PICK c \in cs : /\ AddsCurrent(o, k, c)
                      /\ IF c \in Known THEN GoesTo(r, "run") ELSE Throws(r)
  BY <1>1, <1>2 DEF ApproveSwitch
<1>4. PermissionInv' /\ ChainsTypeOK' /\ LockTypeOK'
  BY <1>3, Frame, AddsCurrentInv DEF ApproveSwitch
<1>5. CASE Throws(r)
  BY <1>4, <1>5, Throwing
<1>6. CASE c \in Known /\ GoesTo(r, "run")
  <2>1. HasPermission(o, c)' /\ current' = [current EXCEPT ![o][k] = c]
    BY <1>3, <1>6 DEF ApproveSwitch, AddsCurrent, HasPermission, Known
  <2>2. request'[r].origin = o /\ request'[r].what = k /\ request'[r].chains = cs
    BY <1>1, <1>2, <1>6, Fields DEF Stages
  <2>3. Current(o, k)' = c /\ HasPermission(o, CurrentOrDefault(o, k))'
    BY <1>1, <2>1, CurrentIsSet
  <2>4. Entitled(request[r])'
    BY <1>3, <2>2, <2>3, EntitledKind
  <2> QED
    BY <1>1, <1>4, <1>6, <2>4, Going DEF Stages
<1> QED
  BY <1>3, <1>5, <1>6

\* The permissions that concern no chain.
LEMMA EntitledGlobal ==
    ASSUME NEW r \in Requests, NEW o, NEW type, type \in Serving(request'[r].what),
           request'[r].what \in {"infos"} \cup PlainTypes,
           request'[r].origin = o, <<o, type>> \in globals'
    PROVE  Entitled(request[r])'
<1>1. request'[r].what \notin Kinds \cup {"enable", "suggest"}
  BY AskedAssumption
<1>2. HasGlobal(request[r].origin, request[r].what)'
  BY DEF HasGlobal, Serving
<1> QED
  BY <1>1, <1>2 DEF Entitled

LEMMA CheckGlobalIsRight ==
    ASSUME IInv, NEW r \in Requests, CheckGlobal(r)
    PROVE  StepIsRight(r)
<1>1. TypeOK /\ request[r].at # "idle" /\ request[r].what \in {"infos"} \cup PlainTypes
  BY DEF CheckGlobal, IInv
<1>2. PermissionInv' /\ ChainsTypeOK' /\ LockTypeOK'
  BY Frame, UnchangedInv DEF CheckGlobal
<1>3. CASE GoesTo(r, "grant")
  BY <1>1, <1>2, <1>3, Going DEF Stages
<1>4. CASE GoesTo(r, "run") /\ HasGlobal(request[r].origin, request[r].what)
  <2>1. PICK type \in Serving(request[r].what) : <<request[r].origin, type>> \in globals
    BY <1>4 DEF HasGlobal
  <2>2. request'[r].origin = request[r].origin /\ request'[r].what = request[r].what
    BY <1>1, <1>4, Fields DEF Stages
  <2>3. PICK o : o = request[r].origin
    OBVIOUS
  <2>4. globals' = globals
    BY DEF CheckGlobal, permissionVars
  <2>5. Entitled(request[r])'
    BY <1>1, <2>1, <2>2, <2>3, <2>4, EntitledGlobal
  <2> QED
    BY <1>1, <1>2, <1>4, <2>5, Going DEF Stages
<1> QED
  BY <1>3, <1>4 DEF CheckGlobal

\* Granting a type that serves what was asked for, and carrying it out.
LEMMA GrantingGlobal ==
    ASSUME IInv, NEW r \in Requests, request[r].at # "idle",
           request[r].what \in {"infos"} \cup PlainTypes,
           NEW type \in Serving(request[r].what), AddsGlobal(request[r].origin, type),
           GoesTo(r, "run"), UNCHANGED <<chains, permitted, current, lockVars>>
    PROVE  StepIsRight(r)
<1>1. TypeOK
  BY DEF IInv
<1>2. PICK o \in Origins, cs \in SUBSET Chains : request[r].origin = o
  BY <1>1, Fixed
<1>3. type \in GlobalTypes
  BY DEF Serving, GlobalTypes
<1>4. PermissionInv' /\ ChainsTypeOK' /\ LockTypeOK'
  BY <1>2, <1>3, Frame, AddsGlobalInv
<1>5. request'[r].origin = o /\ request'[r].what = request[r].what
  BY <1>1, <1>2, Fields DEF Stages
<1>6. <<o, type>> \in globals'
  BY <1>2 DEF AddsGlobal
<1>7. Entitled(request[r])'
  BY <1>5, <1>6, EntitledGlobal
<1> QED
  BY <1>4, <1>7, Going DEF Stages

LEMMA ApproveGlobalIsRight ==
    ASSUME IInv, NEW r \in Requests, ApproveGlobal(r)
    PROVE  StepIsRight(r)
<1> DEFINE type == IF request[r].what = "infos" THEN "get-all-keyring-infos" ELSE request[r].what
<1>1. type \in Serving(request[r].what)
  BY DEF Serving
<1>2. AddsGlobal(request[r].origin, type)
  BY DEF ApproveGlobal
<1> HIDE DEF type
<1> QED
  BY <1>1, <1>2, GrantingGlobal DEF ApproveGlobal

LEMMA RejectIsRight ==
    ASSUME IInv, NEW r \in Requests, Reject(r)
    PROVE  StepIsRight(r)
<1>1. CASE IsFor(r, "grant", "infos")
  <2>1. "get-current-keyring-info" \in Serving(request[r].what)
    BY <1>1 DEF IsFor, Serving
  <2> QED
    BY <1>1, <2>1, GrantingGlobal DEF Reject, IsFor
<1>2. CASE ~IsFor(r, "grant", "infos")
  <2>1. PermissionInv' /\ ChainsTypeOK' /\ LockTypeOK'
    BY <1>2, Frame, UnchangedInv DEF Reject, permissionVars
  <2> QED
    BY <1>2, <2>1, Throwing DEF Reject
<1> QED
  BY <1>1, <1>2

LEMMA AnswerUnlockIsRight ==
    ASSUME IInv, NEW r \in Requests, AnswerUnlock(r)
    PROVE  StepIsRight(r)
<1>1. PermissionInv' /\ ChainsTypeOK' /\ LockTypeOK'
  BY Frame, UnchangedInv DEF AnswerUnlock
<1> QED
  BY <1>1, Going DEF AnswerUnlock, Stages

LEMMA ApproveSuggestIsRight ==
    ASSUME IInv, NEW r \in Requests, ApproveSuggest(r)
    PROVE  StepIsRight(r)
<1>1. PermissionInv' /\ ChainsTypeOK' /\ LockTypeOK'
  BY Frame, UnchangedInv DEF ApproveSuggest
<1>2. request[r].at # "idle"
  BY DEF ApproveSuggest, IsFor
<1>3. PICK stage \in {"add", "added"} : GoesTo(r, stage)
  BY DEF ApproveSuggest
<1> QED
  BY <1>1, <1>2, <1>3, Going DEF Stages

\* More known chains take no permission away.
LEMMA SuggestedInv ==
    ASSUME PermissionInv, ChainsTypeOK, NEW c \in Chains, Suggested(c, 0),
           UNCHANGED permissionVars
    PROVE  PermissionInv' /\ ChainsTypeOK'
<1>1. 0 \in Versions /\ Added(0) \in [base : Versions, now : Versions] /\ Added(0) # None
  BY ChainsAssumption DEF Versions, Added
<1>2. ChainsTypeOK'
  BY <1>1 DEF ChainsTypeOK, Suggested
<1>3. Known \subseteq Known'
  BY <1>1 DEF ChainsTypeOK, Suggested, Known
<1> QED
  BY <1>2, <1>3 DEF PermissionInv, PermissionTypeOK, PermittedIsKnown, EVMCurrentIsPermitted,
                    HasPermission, permissionVars

LEMMA AddSuggestedIsRight ==
    ASSUME IInv, NEW r \in Requests, NEW c \in Chains, AddSuggested(r, c)
    PROVE  StepIsRight(r)
<1>1. /\ request[r].at # "idle" /\ PermissionInv /\ ChainsTypeOK /\ LockTypeOK'
  BY Frame DEF AddSuggested, IsFor, IInv, TypeOK, ChainsTypeOK
<1>2. CASE Throws(r) /\ UNCHANGED chains
  <2>1. PermissionInv' /\ ChainsTypeOK'
    BY <1>2, Frame, UnchangedInv DEF AddSuggested
  <2> QED
    BY <1>1, <1>2, <2>1, Throwing
<1>3. CASE GoesTo(r, "added") /\ Suggested(c, 0)
  <2>1. PermissionInv' /\ ChainsTypeOK'
    BY <1>1, <1>3, SuggestedInv DEF AddSuggested
  <2> QED
    BY <1>1, <1>3, <2>1, Going DEF Stages
<1> QED
  BY <1>2, <1>3 DEF AddSuggested

LEMMA PermitSuggestedIsRight ==
    ASSUME IInv, NEW r \in Requests, PermitSuggested(r)
    PROVE  StepIsRight(r)
<1>1. TypeOK /\ request[r].at # "idle" /\ request[r].what = "suggest"
  BY DEF PermitSuggested, IsFor, IInv
<1>2. PICK o \in Origins, cs \in SUBSET Chains :
        request[r].origin = o /\ request[r].chains = cs
  BY <1>1, Fixed
<1>3. PermissionInv' /\ ChainsTypeOK' /\ LockTypeOK'
  BY <1>2, Frame, AddsPermissionsInv DEF PermitSuggested
<1>4. CASE Throws(r)
  BY <1>3, <1>4, Throwing
<1>5. CASE cs \subseteq Known /\ GoesTo(r, "run")
  <2>1. \A c \in cs : HasPermission(o, c)'
    BY <1>2, <1>5 DEF PermitSuggested, AddsPermissions, HasPermission, Known
  <2>2. request'[r].origin = o /\ request'[r].what = "suggest" /\ request'[r].chains = cs
    BY <1>1, <1>2, <1>5, Fields DEF Stages
  <2>3. Entitled(request[r])'
    BY <2>1, <2>2, EntitledChains
  <2> QED
    BY <1>1, <1>3, <1>5, <2>3, Going DEF Stages
<1> QED
  BY <1>2, <1>4, <1>5 DEF PermitSuggested

LEMMA ReturnIsRight ==
    ASSUME IInv, NEW r \in Requests, Return(r)
    PROVE  StepIsRight(r)
<1>1. PermissionInv' /\ ChainsTypeOK' /\ LockTypeOK'
  BY Frame, UnchangedInv DEF Return
<1> QED
  BY <1>1, Throwing DEF Return

-----------------------------------------------------------------------------
LEMMA RequestStepIsRight ==
    ASSUME IInv, NEW r \in Requests, RequestStep(r)
    PROVE  StepIsRight(r)
BY AskIsRight, AnswerUnlockIsRight, CheckEnableIsRight, CheckGlobalIsRight, CheckKindIsRight,
   SwitchIsRight, ApproveSwitchIsRight, ApproveKindIsRight, ApproveEnableIsRight,
   ApproveGlobalIsRight, ApproveSuggestIsRight, AddSuggestedIsRight, PermitSuggestedIsRight,
   RejectIsRight, ReturnIsRight
   DEF RequestStep

\* The other requests stay as they are.
LEMMA OthersStay ==
    ASSUME IInv, NEW r \in Requests, RequestStep(r), NEW r2 \in Requests \ {r}
    PROVE  request'[r2] = request[r2]
BY DEF RequestStep, Ask, AnswerUnlock, CheckEnable, CheckGlobal, CheckKind, Switch,
       ApproveSwitch, ApproveKind, ApproveEnable, ApproveGlobal, ApproveSuggest, AddSuggested,
       PermitSuggested, Reject, Return, Proceeds, Throws, GoesTo, WaitsForGrant, Becomes,
       IInv, TypeOK

\* A step that leaves the requests alone.
LEMMA Beside ==
    ASSUME IInv, UNCHANGED request, PermissionInv', ChainsTypeOK', LockTypeOK'
    PROVE  IInv'
BY DEF IInv, TypeOK, PermissionInv, ChainsTypeOK, RegrantsTheSame

LEMMA RemoveChainInv ==
    ASSUME IInv, NEW c \in Chains, RemoveChain(c)
    PROVE  IInv'
<1>1. /\ chains' = [d \in Chains |-> IF d \in {c} THEN None ELSE chains[d]]
      /\ permitted' = permitted \ (Origins \X {c})
      /\ current' = [o \in Origins |-> Unset]
      /\ globals' = globals /\ request' = request /\ LockTypeOK'
  BY Frame DEF RemoveChain, Removed, ForgetChain
<1>2. ChainsTypeOK'
  BY <1>1 DEF IInv, TypeOK, ChainsTypeOK
<1>3. \A d \in Known : d # c => d \in Known'
  BY <1>1 DEF Known
<1>4. PermissionTypeOK' /\ PermittedIsKnown'
  BY <1>1, <1>3 DEF IInv, TypeOK, PermissionTypeOK, PermittedIsKnown, Unset
<1>5. EVMCurrentIsPermitted'
  BY <1>1, PermissionAssumption DEF EVMCurrentIsPermitted, Unset
<1> QED
  BY <1>1, <1>2, <1>4, <1>5, Beside DEF PermissionInv

LEMMA LockTypes ==
    ASSUME LockTypeOK, LockNext \/ WorkerEnds \/ WorkerStarts
    PROVE  LockTypeOK'
BY DEF LockTypeOK, LockNext, WorkerEnds, WorkerStarts, Unlock, LockByUser,
       StartAppStateCheckTimer, TimerFires, DeviceLocked, SetDuration

LEMMA NextInv ==
    ASSUME IInv, [Next]_vars
    PROVE  /\ IInv'
           /\ \A r \in Requests :
                 request[r].at # "run" /\ request'[r].at = "run" => Entitled(request[r])'
<1>0. LockTypeOK
  BY DEF IInv, TypeOK
<1>1. ASSUME NEW r \in Requests, RequestStep(r)
      PROVE  /\ IInv'
             /\ \A r2 \in Requests :
                   request[r2].at # "run" /\ request'[r2].at = "run" => Entitled(request[r2])'
  BY <1>1, RequestStepIsRight, OthersStay DEF StepIsRight
<1>2. ASSUME NEW c \in Chains, RemoveChain(c)
      PROVE  IInv' /\ UNCHANGED request
  BY <1>2, RemoveChainInv DEF RemoveChain
<1>3. CASE PermissionNext /\ UNCHANGED <<lockVars, request>>
  BY <1>3, Frame, PermissionNextInv, Beside DEF PermissionNext
<1>4. CASE LockNext /\ UNCHANGED <<chains, permissionVars, request>>
  BY <1>0, <1>4, Frame, UnchangedInv, LockTypes, Beside
<1>5. CASE EndOfWorker
  <2>1. PermissionInv' /\ ChainsTypeOK' /\ LockTypeOK'
    BY <1>0, <1>5, Frame, UnchangedInv, LockTypes DEF EndOfWorker
  <2>2. request' = [r \in Requests |-> Idle]
    BY <1>5 DEF EndOfWorker
  <2>3. IInv'
    BY <2>1, <2>2, IdleOrRun DEF IInv, TypeOK, PermissionInv, ChainsTypeOK, RegrantsTheSame
  <2> QED
    BY <2>2, <2>3, IdleOrRun
<1>6. CASE StartOfWorker
  BY <1>0, <1>6, Frame, UnchangedInv, LockTypes, Beside DEF StartOfWorker
<1>7. CASE UNCHANGED vars
  BY <1>0, <1>7, Frame, UnchangedInv, Beside DEF vars, permissionVars, lockVars
<1> QED
  BY <1>1, <1>2, <1>3, <1>4, <1>5, <1>6, <1>7 DEF Next

LEMMA InitInv == Init => IInv
<1> SUFFICES ASSUME Init PROVE IInv
  OBVIOUS
<1>1. 0 \in Versions /\ Added(0) \in [base : Versions, now : Versions]
  BY ChainsAssumption DEF Versions, Added
<1>2. ChainsTypeOK
  BY <1>1 DEF Init, ChainsInit, ChainsTypeOK
<1>3. PermissionInv
  BY PermissionAssumption DEF Init, PermissionInit, PermissionInv, PermissionTypeOK,
     PermittedIsKnown, EVMCurrentIsPermitted, Unset
<1>4. LockTypeOK
  BY DEF Init, LockInit, LockTypeOK
<1> QED
  BY <1>2, <1>3, <1>4, IdleOrRun
     DEF Init, IInv, TypeOK, ChainsTypeOK, PermissionInv, RegrantsTheSame

THEOREM Invariant == Spec => []IInv
BY InitInv, NextInv, PTL DEF Spec

\* The variables of PermissionInteractive keep their types.
THEOREM TypeCorrect == Spec => []TypeOK
BY Invariant, PTL DEF IInv

\* Only known chains are permitted, whatever is removed while a request waits for its
\* grant or a suggested chain for its permission (addPermission, removeAllPermissions).
THEOREM OnlyKnownPermitted == Spec => []PermittedIsKnown
BY Invariant, PTL DEF IInv

\* The stored current chain of EVM is a permitted one, by whichever of the removals a
\* permission has gone (removePermission, removeAllTypePermission, disable).
THEOREM CurrentPermitted == Spec => []EVMCurrentIsPermitted
BY Invariant, PTL DEF IInv

\* A request of a page is carried out only when the page is entitled at that moment
\* (ensureEnabled and its likes, updateCurrentChainIdForEVM).
THEOREM OnlyEntitledRun == Spec => RunsPermitted
<1>1. IInv /\ [Next]_vars =>
        [\A r \in Requests :
            request[r].at # "run" /\ request'[r].at = "run" => Entitled(request[r])']_vars
  BY NextInv
<1> QED
  BY <1>1, Invariant, PTL DEF Spec, RunsPermitted

LEMMA RequestsLeaveLock ==
    ASSUME NEW r \in Requests, RequestStep(r)
    PROVE  UNCHANGED lockVars
BY DEF RequestStep, Ask, AnswerUnlock, CheckEnable, CheckGlobal, CheckKind, Switch,
   ApproveSwitch, ApproveKind, ApproveEnable, ApproveGlobal, ApproveSuggest, AddSuggested,
   PermitSuggested, Reject, Return

\* A timer runs only while the automatic lock is on (setDuration, startAutoLockTimer).
THEOREM OffNeverLocks == Spec => []TimerIsWanted
<1>1. Init => TimerIsWanted
  BY DEF Init, LockInit, TimerIsWanted
<1>2. ASSUME TimerIsWanted, UNCHANGED lockVars
      PROVE  TimerIsWanted'
  BY <1>2 DEF TimerIsWanted, lockVars
<1>4. ASSUME TimerIsWanted, LockNext \/ WorkerEnds \/ WorkerStarts
      PROVE  TimerIsWanted'
  <2>1. CASE StartAppStateCheckTimer
    BY <2>1, Zenon DEF TimerIsWanted, StartAppStateCheckTimer
  <2>2. ASSUME NEW positive \in BOOLEAN, SetDuration(positive)
        PROVE  TimerIsWanted'
    BY <2>2, Zenon DEF TimerIsWanted, SetDuration
  <2>3. CASE Unlock \/ LockByUser \/ TimerFires \/ DeviceLocked \/ WorkerEnds \/ WorkerStarts
    BY <1>4, <2>3 DEF TimerIsWanted, Unlock, LockByUser, TimerFires, DeviceLocked, WorkerEnds,
       WorkerStarts
  <2> QED
    BY <1>4, <2>1, <2>2, <2>3 DEF LockNext
<1>5. ASSUME NEW c \in Chains, RemoveChain(c)
      PROVE  UNCHANGED lockVars
  BY <1>5 DEF RemoveChain
<1>6. UNCHANGED vars => UNCHANGED lockVars
  BY DEF vars, lockVars
<1>7. TimerIsWanted /\ [Next]_vars => TimerIsWanted'
  BY <1>2, <1>4, <1>5, <1>6, RequestsLeaveLock DEF Next, EndOfWorker, StartOfWorker
<1> QED
  BY <1>1, <1>7, PTL DEF Spec

\* The running timer of an unlocked wallet goes only with a lock, with the setting or with
\* the worker (startAppStateCheckTimer, setDuration, onDeviceLocked).
THEOREM NotLostTimer == Spec => TimerKept
<1> DEFINE Kept == timer /\ unlocked /\ ~timer' => ~unlocked' \/ ~limited' \/ ~awake'
<1>1. ASSUME LockNext \/ WorkerEnds \/ WorkerStarts
      PROVE  Kept
  <2>1. CASE StartAppStateCheckTimer
    BY <2>1, Zenon DEF StartAppStateCheckTimer
  <2>2. ASSUME NEW positive \in BOOLEAN, SetDuration(positive)
        PROVE  Kept
    BY <2>2, Zenon DEF SetDuration
  <2>3. CASE DeviceLocked
    BY <2>3, Zenon DEF DeviceLocked
  <2>4. CASE Unlock \/ LockByUser \/ TimerFires \/ WorkerEnds \/ WorkerStarts
    BY <2>4, Zenon DEF Unlock, LockByUser, TimerFires, WorkerEnds, WorkerStarts
  <2> QED
    BY <1>1, <2>1, <2>2, <2>3, <2>4 DEF LockNext
<1>2. ASSUME NEW c \in Chains, RemoveChain(c)
      PROVE  UNCHANGED lockVars
  BY <1>2 DEF RemoveChain
<1>3. UNCHANGED vars => UNCHANGED lockVars
  BY DEF vars, lockVars
<1>4. [Next]_vars => [Kept]_lockVars
  <2>1. Next => Kept \/ UNCHANGED lockVars
    BY <1>1, <1>2, RequestsLeaveLock DEF Next, EndOfWorker, StartOfWorker
  <2> QED
    BY <1>3, <2>1
<1> QED
  BY <1>4, PTL DEF Spec, TimerKept
=============================================================================
