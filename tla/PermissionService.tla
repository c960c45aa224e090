--------------------------- MODULE PermissionService ---------------------------
(***************************************************************************)
(* What the pages of an origin may do (permission/service.ts), over the    *)
(* known chains: the chains it may use, the permissions that concern no    *)
(* chain, and its current chain of each kind of provider that has one.     *)
(* A permission is for a chain identifier, so that it outlives an upgrade. *)
(* Privileged origins, which may do anything, are left out.                *)
(***************************************************************************)
EXTENDS KnownChains

CONSTANTS
    Origins,
    Kinds,     \* kinds of providers with a current chain, "evm" among them
    Default,   \* of each kind, the embedded chain that stands for an unset current one
    PlainTypes \* types of permission that concern no chain and are simply granted

ASSUME PermissionAssumption ==
    /\ "evm" \in Kinds
    /\ Default \in [Kinds -> Embedded]
    /\ None \notin Chains

\* The names of the accounts: of all, or of the current one.
GlobalTypes == {"get-all-keyring-infos", "get-current-keyring-info"} \cup PlainTypes

VARIABLES
    permitted,  \* permissionMap: pairs of an origin and a chain, ...
    globals,    \* ... and of an origin and a type without chain
    current     \* the stored current chain of each origin and kind, or None

permissionVars == <<permitted, globals, current>>

PermissionTypeOK ==
    /\ permitted \subseteq Origins \X Chains
    /\ globals \subseteq Origins \X GlobalTypes
    /\ current \in [Origins -> [Kinds -> Chains \cup {None}]]

Unset == [k \in Kinds |-> None]

PermissionInit ==
    /\ permitted = {}
    /\ globals   = {}
    /\ current   = [o \in Origins |-> Unset]

HasPermission(o, c) == c \in Known /\ <<o, c>> \in permitted

\* getCurrentChainIdForEVM and its likes: what is read ...
Current(o, k) ==
    LET c == current[o][k] IN IF c # None /\ HasPermission(o, c) THEN c ELSE None

\* ... while what is not permitted any more is forgotten on reading.
ReadCurrent(o, k) == current' = [current EXCEPT ![o][k] = Current(o, k)]

\* forceGetCurrentChainId of the providers, and the chain ensureEnabledFor... asks for.
CurrentOrDefault(o, k) == IF Current(o, k) = None THEN Default[k] ELSE Current(o, k)

-----------------------------------------------------------------------------
\* Mutant: chains are not looked up.
AddsPermissions_Unchecked(o, cs) == permitted' = permitted \cup ({o} \X cs)

\* addPermission goes from chain to chain and throws at the first that is not known:
\* what came before it stays granted.
AddsPermissions(o, cs) ==
    IF cs \subseteq Known
    THEN permitted' = permitted \cup ({o} \X cs)
    ELSE \E before \in SUBSET (cs \cap Known) : permitted' = permitted \cup ({o} \X before)

\* addPermission and then the chain becomes the current one.
AddsCurrent(o, k, c) ==
    IF c \in Known
    THEN /\ permitted' = permitted \cup {<<o, c>>}
         /\ current'   = [current EXCEPT ![o][k] = c]
    ELSE UNCHANGED <<permitted, current>>

AddsGlobal(o, type) == globals' = globals \cup {<<o, type>>}

\* What is kept of the current chains when some chains are no more permitted.
Without(stored, cs) == [k \in Kinds |-> IF stored[k] \in cs THEN None ELSE stored[k]]

\* Mutant: the current chain stays.
RemovePermission_KeepsCurrent(o, c) ==
    /\ c \in Known
    /\ permitted' = permitted \ {<<o, c>>}
    /\ UNCHANGED <<globals, current>>

\* removePermission, for the list of connected pages: of the current chains it looks at
\* the one of EVM only.
RemovePermission(o, c) ==
    /\ c \in Known
    /\ permitted' = permitted \ {<<o, c>>}
    /\ current'   = [current EXCEPT ![o]["evm"] = IF @ = c THEN None ELSE Current(o, "evm")]
    /\ UNCHANGED globals

\* removeAllTypePermissionToChainId, of one chain after the other: reading the current
\* chains to compare them forgets those that are not permitted.
RemoveFromChains(o, cs) ==
    /\ permitted' = permitted \ ({o} \X (cs \cap Known))
    /\ IF cs \cap Known = {}
       THEN UNCHANGED current
       ELSE current' = [current EXCEPT ![o] =
                          Without([k \in Kinds |-> Current(o, k)], cs)]
    /\ UNCHANGED globals

\* removeAllTypePermission: the loop over the map forgets the current chains, so an
\* empty map leaves them.
RemoveOrigin(o) ==
    /\ permitted' = permitted \ ({o} \X Chains)
    /\ IF permitted = {} /\ globals = {}
       THEN UNCHANGED current
       ELSE current' = [current EXCEPT ![o] = Unset]

RemoveGlobals(o, types) == globals' = globals \ ({o} \X types)

-----------------------------------------------------------------------------
\* keplr_disconnect and wallet_revokePermissions of a page.
Disconnect(o) ==
    /\ RemoveOrigin(o)
    /\ UNCHANGED globals

\* disable without chains, and the list of connected pages.
ClearOrigin(o) ==
    /\ RemoveOrigin(o)
    /\ RemoveGlobals(o, GlobalTypes)

RemoveGlobalPermission(o, type) ==
    /\ RemoveGlobals(o, {type})
    /\ UNCHANGED <<permitted, current>>

ClearAllPermissions ==
    /\ permitted' = {}
    /\ globals'   = {}
    /\ current'   = [o \in Origins |-> Unset]

\* updateCurrentChainIdFor... of the extension's own pages: it is granted unasked.
UpdateCurrentFromUI(o, k, c) ==
    /\ AddsCurrent(o, k, c)
    /\ UNCHANGED globals

AddPermissionFromUI(o, c) ==
    /\ AddsPermissions(o, {c})
    /\ UNCHANGED <<globals, current>>

AnyPageReads(o, k) ==
    /\ ReadCurrent(o, k)
    /\ UNCHANGED <<permitted, globals>>

\* removeAllPermissions, the handler of removed chains: it clears the current chains of
\* every origin.
ForgetChain(c) ==
    /\ permitted' = permitted \ (Origins \X {c})
    /\ current'   = [o \in Origins |-> Unset]
    /\ UNCHANGED globals

PermissionNext ==
    /\ \/ ClearAllPermissions
       \/ \E o \in Origins :
             \/ Disconnect(o)
             \/ ClearOrigin(o)
             \/ \E type \in GlobalTypes : RemoveGlobalPermission(o, type)
             \/ \E cs \in SUBSET Chains \ {{}} : RemoveFromChains(o, cs)
             \/ \E c \in Chains : RemovePermission(o, c) \/ AddPermissionFromUI(o, c)
             \/ \E k \in Kinds, c \in Chains : UpdateCurrentFromUI(o, k, c)
             \/ \E k \in Kinds : AnyPageReads(o, k)
    /\ UNCHANGED chains

-----------------------------------------------------------------------------
\* Permissions are for known chains only: a chain that is removed while a page waits for
\* its grant, or while the page that suggested it does, takes them all along, and an
\* answer that comes later gives none (addPermission, onChainRemoved).
PermittedIsKnown == \A p \in permitted : p[2] \in Known

\* The stored current chain of EVM is a permitted one, by whichever of the removals a
\* permission goes.  The getter would hide one that is not; but it would come back
\* with the next grant of the same chain, when nobody has chosen it.
EVMCurrentIsPermitted ==
    \A o \in Origins :
        current[o]["evm"] # None => HasPermission(o, current[o]["evm"])
=============================================================================
