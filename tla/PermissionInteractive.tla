------------------------- MODULE PermissionInteractive -------------------------
(***************************************************************************)
(* The requests of pages and what stands before them                       *)
(* (permission-interactive/service.ts, the handlers of chains): the wallet *)
(* is unlocked, the permission asked for if there is none yet, and checked *)
(* again; while a request waits for the user, permissions and chains come  *)
(* and go, and so do other requests of the same page.                      *)
(*                                                                         *)
(* A waiting request is answered as ApprovalRequests says; what the answer *)
(* does, up to the next await, is one step with it.                        *)
(***************************************************************************)
EXTENDS PermissionService, AutoLock

CONSTANTS
    Requests,  \* requests that may be in flight together
    Asked      \* the sets of chains that pages enable, connect or switch to

ASSUME AskedAssumption ==
    /\ Asked \subseteq SUBSET Chains
    /\ Kinds \cap ({"enable", "suggest", "infos"} \cup PlainTypes) = {}
    /\ PlainTypes \cap {"enable", "suggest", "infos"} = {}

VARIABLE request  \* those in flight

vars == <<chains, permitted, globals, current, unlocked, limited, timer, awake, request>>

\* What a page asks for: chains, a chain it suggests, the names of the accounts, what a
\* plain type is for ("get-chain-infos"), a provider with a current chain.
Whats == {"enable", "suggest", "infos"} \cup PlainTypes \cup Kinds

Idle == [at |-> "idle"]

Stages == {"check", "unlock", "grant", "switch", "regrant", "add", "added", "run"}

TypeOK ==
    /\ chains \in [Chains -> {None} \cup [base : Versions, now : Versions]]
    /\ PermissionTypeOK
    /\ LockTypeOK
    /\ request \in [Requests -> {Idle} \cup
          [at : Stages, origin : Origins, what : Whats, chains : SUBSET Chains,
           asked : SUBSET Chains]]

Init ==
    /\ ChainsInit
    /\ PermissionInit
    /\ LockInit
    /\ request = [r \in Requests |-> Idle]

Becomes(r, q) == request' = [request EXCEPT ![r] = q]

GoesTo(r, stage) == Becomes(r, [request[r] EXCEPT !.at = stage])

\* Mutant: the chains the page has named are lost.
WaitsForGrant_ForgetsChains(r, stage, cs) ==
    Becomes(r, [at |-> stage, origin |-> request[r].origin, what |-> request[r].what, asked |-> cs])

WaitsForGrant(r, stage, cs) == Becomes(r, [request[r] EXCEPT !.at = stage, !.asked = cs])

Throws(r) == Becomes(r, Idle)

IsFor(r, stage, what) == request[r].at = stage /\ request[r].what = what

-----------------------------------------------------------------------------
\* The message of a page.  A provider with a current chain is called with no chain, or to
\* switch to one.
Ask(r, o, what, cs) ==
    /\ request[r] = Idle
    /\ CASE what = "enable"  -> cs \in Asked \ {{}}
         [] what \in Kinds   -> cs = {} \/ \E c \in Chains : cs = {c} /\ cs \in Asked
         [] what = "suggest" -> \E c \in Chains \ Known : cs = {c}
         [] OTHER            -> cs = {}
    /\ Becomes(r, [at |-> CASE what = "suggest" -> "grant"
                            [] what # "suggest" /\ unlocked -> "check"
                            [] OTHER -> "unlock",
                   origin |-> o, what |-> what, chains |-> cs, asked |-> {}])
    /\ UNCHANGED <<chains, permissionVars, lockVars>>

\* ensureUnlockInteractive: the page that unlocks the wallet answers.
AnswerUnlock(r) ==
    /\ request[r].at = "unlock" /\ unlocked
    /\ GoesTo(r, "check")
    /\ UNCHANGED <<chains, permissionVars, lockVars>>

\* What follows a permission that is there: the request is carried out, or the provider
\* goes on to switch its chain.
Proceeds(r) ==
    GoesTo(r, IF request[r].what \in Kinds /\ request[r].chains # {} THEN "switch" ELSE "run")

\* checkOrGrantBasicAccessPermission for chains: only those without permission are asked
\* for.
CheckEnable(r) ==
    LET o == request[r].origin  cs == request[r].chains
        ungranted == {c \in cs : ~HasPermission(o, c)}
    IN  /\ IsFor(r, "check", "enable")
        /\ CASE ~(cs \subseteq Known) -> Throws(r)
             [] cs \subseteq Known /\ ungranted = {} -> GoesTo(r, "run")
             [] OTHER -> WaitsForGrant(r, "grant", ungranted)
        /\ UNCHANGED <<chains, permissionVars, lockVars>>

\* ensureEnabledForEVM and its likes.
CheckKind(r, k) ==
    LET o == request[r].origin
        c == IF request[r].chains = {} THEN CurrentOrDefault(o, k)
                                       ELSE CHOOSE d \in request[r].chains : TRUE
    IN  /\ IsFor(r, "check", k)
        /\ IF request[r].chains = {} THEN ReadCurrent(o, k) ELSE UNCHANGED current
        /\ CASE c \notin Known -> Throws(r)
             [] c \in Known /\ HasPermission(o, c) -> Proceeds(r)
             [] OTHER -> WaitsForGrant(r, "grant", {c})
        /\ UNCHANGED <<chains, permitted, globals, lockVars>>

\* The types one of which is enough; the name of the current account comes by a refusal.
Serving(what) == IF what = "infos" THEN {"get-all-keyring-infos", "get-current-keyring-info"}
                                   ELSE {what}

HasGlobal(o, what) == \E type \in Serving(what) : <<o, type>> \in globals

\* checkOrGrantGetAllKeyRingInfosPermission, checkOrGrantGlobalPermission
CheckGlobal(r) ==
    LET o == request[r].origin  what == request[r].what
    IN  /\ request[r].at = "check" /\ what \in {"infos"} \cup PlainTypes
        /\ GoesTo(r, IF HasGlobal(o, what) THEN "run" ELSE "grant")
        /\ UNCHANGED <<chains, permissionVars, lockVars>>

-----------------------------------------------------------------------------
\* Mutant: no second check.
ApproveEnable_Unchecked(r) ==
    /\ IsFor(r, "grant", "enable")
    /\ AddsPermissions(request[r].origin, request[r].asked)
    /\ IF request[r].asked \subseteq Known THEN GoesTo(r, "run") ELSE Throws(r)
    /\ UNCHANGED <<chains, globals, current, lockVars>>

\* The user grants the chains that were asked for; all that are needed are checked
\* again, for one that was there before may have been revoked since.
ApproveEnable(r) ==
    LET o == request[r].origin  cs == request[r].chains
    IN  /\ IsFor(r, "grant", "enable")
        /\ AddsPermissions(o, request[r].asked)
        /\ IF cs \subseteq Known /\ {o} \X cs \subseteq permitted'
           THEN GoesTo(r, "run")
           ELSE Throws(r)
        /\ UNCHANGED <<chains, globals, current, lockVars>>

\* The user may grant another chain than the one asked for, which becomes current; what
\* was asked for is not checked again.
ApproveKind(r, k, c) ==
    /\ IsFor(r, "grant", k)
    /\ AddsCurrent(request[r].origin, k, c)
    /\ IF c \in Known THEN Proceeds(r) ELSE Throws(r)
    /\ UNCHANGED <<chains, globals, lockVars>>

\* updateCurrentChainIdFor..., for a provider that switches.
Switch(r, k) ==
    LET o == request[r].origin  cs == request[r].chains
    IN  /\ IsFor(r, "switch", k)
        /\ \E c \in cs :
              CASE Current(o, k) = c ->
                     GoesTo(r, "run") /\ ReadCurrent(o, k)
                [] Current(o, k) # c /\ HasPermission(o, c) ->
                     GoesTo(r, "run") /\ current' = [current EXCEPT ![o][k] = c]
                [] OTHER ->
                     WaitsForGrant(r, "regrant", cs) /\ ReadCurrent(o, k)
        /\ UNCHANGED <<chains, permitted, globals, lockVars>>

\* Here the user cannot choose another chain.
ApproveSwitch(r, k) ==
    /\ IsFor(r, "regrant", k)
    /\ \E c \in request[r].asked :
          /\ AddsCurrent(request[r].origin, k, c)
          /\ IF c \in Known THEN GoesTo(r, "run") ELSE Throws(r)
    /\ UNCHANGED <<chains, globals, lockVars>>

ApproveGlobal(r) ==
    /\ request[r].at = "grant" /\ request[r].what \in {"infos"} \cup PlainTypes
    /\ AddsGlobal(request[r].origin, IF request[r].what = "infos" THEN "get-all-keyring-infos"
                                                                 ELSE request[r].what)
    /\ GoesTo(r, "run")
    /\ UNCHANGED <<chains, permitted, current, lockVars>>

\* A refusal ends the request; that of all names leaves the page the current one.
Reject(r) ==
    /\ request[r].at \in {"unlock", "grant", "regrant"}
    /\ IF IsFor(r, "grant", "infos")
       THEN /\ AddsGlobal(request[r].origin, "get-current-keyring-info")
            /\ GoesTo(r, "run")
       ELSE /\ UNCHANGED globals
            /\ Throws(r)
    /\ UNCHANGED <<chains, permitted, current, lockVars>>

-----------------------------------------------------------------------------
\* suggestChainInfo: what another suggestion has added meanwhile is not added again.
ApproveSuggest(r) ==
    /\ IsFor(r, "grant", "suggest")
    /\ GoesTo(r, IF request[r].chains \subseteq Known THEN "added" ELSE "add")
    /\ UNCHANGED <<chains, permissionVars, lockVars>>

\* addSuggestedChainInfo throws for a chain that came during the validation.
AddSuggested(r, c) ==
    /\ IsFor(r, "add", "suggest") /\ request[r].chains = {c}
    /\ IF c \in Known THEN Throws(r) /\ UNCHANGED chains
                      ELSE GoesTo(r, "added") /\ Suggested(c, 0)
    /\ UNCHANGED <<permissionVars, lockVars>>

\* The handlers of the suggestion have been waited for; the chain may be gone again.
PermitSuggested(r) ==
    /\ IsFor(r, "added", "suggest")
    /\ AddsPermissions(request[r].origin, request[r].chains)
    /\ IF request[r].chains \subseteq Known THEN GoesTo(r, "run") ELSE Throws(r)
    /\ UNCHANGED <<chains, globals, current, lockVars>>

Return(r) ==
    /\ request[r].at = "run"
    /\ Throws(r)
    /\ UNCHANGED <<chains, permissionVars, lockVars>>

-----------------------------------------------------------------------------
\* A chain is removed, with the handler of the permissions.
RemoveChain(c) ==
    /\ Removed({c})
    /\ ForgetChain(c)
    /\ UNCHANGED <<lockVars, request>>

\* Memory is lost, and so is every request; permissions and chains are stored.
EndOfWorker ==
    /\ WorkerEnds
    /\ request' = [r \in Requests |-> Idle]
    /\ UNCHANGED <<chains, permissionVars>>

StartOfWorker ==
    /\ WorkerStarts
    /\ UNCHANGED <<chains, permissionVars, request>>

RequestStep(r) ==
    \/ \E o \in Origins, what \in Whats, cs \in SUBSET Chains : Ask(r, o, what, cs)
    \/ AnswerUnlock(r)
    \/ CheckEnable(r)
    \/ CheckGlobal(r)
    \/ \E k \in Kinds : CheckKind(r, k) \/ Switch(r, k) \/ ApproveSwitch(r, k)
    \/ \E k \in Kinds, c \in Chains : ApproveKind(r, k, c)
    \/ ApproveEnable(r)
    \/ ApproveGlobal(r)
    \/ ApproveSuggest(r)
    \/ \E c \in Chains : AddSuggested(r, c)
    \/ PermitSuggested(r)
    \/ Reject(r)
    \/ Return(r)

Next ==
    \/ /\ awake
       /\ \/ \E r \in Requests : RequestStep(r)
          \/ \E c \in Chains : RemoveChain(c)
          \/ PermissionNext /\ UNCHANGED <<lockVars, request>>
    \/ LockNext /\ UNCHANGED <<chains, permissionVars, request>>
    \/ EndOfWorker
    \/ StartOfWorker

Spec == Init /\ [][Next]_vars

-----------------------------------------------------------------------------
\* What a request that is carried out acts on is permitted at that moment.
Entitled(q) ==
    LET o == q.origin  what == q.what
    IN  CASE what = "enable" \/ what = "suggest" ->
               \A c \in q.chains : HasPermission(o, c)
          [] what \in Kinds ->
               /\ HasPermission(o, CurrentOrDefault(o, what))
               /\ q.chains # {} => Current(o, what) \in q.chains
          [] OTHER -> HasGlobal(o, what)

\* A request of a page is carried out only when the page is permitted, at that moment,
\* all that the request acts on, whatever was granted, revoked, switched or removed
\* while it waited: each of the chains it has named, or the chain its provider acts on,
\* which is the one it has asked to switch to (ensureEnabled, ensureEnabledForEVM).
RunsPermitted ==
    [][\A r \in Requests :
          request[r].at # "run" /\ request'[r].at = "run" => Entitled(request[r])']_vars
=============================================================================
