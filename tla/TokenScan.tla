------------------------------- MODULE TokenScan -------------------------------
(***************************************************************************)
(* The scans for tokens on chains that are not enabled                     *)
(* (token-scan/service.ts), composed with the known chains and the enabled *)
(* ones.  After a chain was suggested, all key rings are scanned one after *)
(* the other, and those with tokens at one address have the chain turned   *)
(* on.  The scans wait for nodes while chains and key rings come and go.   *)
(***************************************************************************)
EXTENDS ChainsUIService

CONSTANTS
    Tasks,      \* scans that may be in flight together
    Retired,    \* a chain that the wallet has taken out of the suggested ones
    Upgrading   \* whether the wallet was set up before it was

ASSUME ScanAssumption == Upgrading \in BOOLEAN

VARIABLES
    scans,    \* vaultToMap: of each id and chain, the last result or None
    task,     \* the scans in flight
    migrated  \* "migration/remove-injective-evm"

vars == <<chains, vault, ui, scans, task, migrated>>

Idle == [at |-> "idle"]

\* A result with tokens: the chain id it was made for, and whether at one address only.
Results == [now : Versions, single : BOOLEAN]

TypeOK ==
    /\ chains \in [Chains -> {None} \cup [base : Versions, now : Versions]]
    /\ UITypeOK
    /\ scans \in [Vaults -> [Chains -> {None} \cup Results]]
    /\ task \in [Tasks -> {Idle}
          \cup [at : {"suggested"}, chain : Chains, now : Versions]
          \cup [at : {"scanning"}, chain : Chains, now : Versions, todo : SUBSET Vaults,
                excluded : Vaults \cup {None}]
          \cup [at : {"fetching"}, chain : Chains, now : Versions, todo : SUBSET Vaults,
                excluded : Vaults \cup {None}, vault : Vaults]
          \cup [at : {"all"}, vault : Vaults, ids : UNION {[D -> Versions] : D \in SUBSET Chains}]]
    /\ migrated \in BOOLEAN

Init ==
    /\ ChainsInit
    /\ UIInit
    /\ scans    = [v \in Vaults |-> [c \in Chains |-> None]]
    /\ task     = [t \in Tasks |-> Idle]
    /\ migrated = ~Upgrading

Becomes(t, s) == task' = [task EXCEPT ![t] = s]

\* Mutant: the id of the chain is not kept.
Found_WithoutId(v, c, now, single) == scans' = [scans EXCEPT ![v][c] = [single |-> single]]

Found(v, c, now, single) ==
    scans' = [scans EXCEPT ![v][c] = [now |-> now, single |-> single]]

-----------------------------------------------------------------------------
\* A chain is added; the handler of the scans comes after others that wait.
Suggest(c, n, t) ==
    /\ Suggested(c, n)
    /\ task[t] = Idle
    /\ Becomes(t, [at |-> "suggested", chain |-> c, now |-> n])
    /\ UNCHANGED <<vault, ui, scans, migrated>>

\* The handler leaves out the selected key ring of a suggestion of the extension
\* itself (else None).  A locked wallet has no scan to wait for.
ScanAfterSuggestion(t, excluded) ==
    /\ task[t].at = "suggested"
    /\ excluded \in Live \cup {None}
    /\ \E todo \in {Live, {}} :
          IF todo # {} /\ task[t].chain \notin Known
          THEN Becomes(t, Idle)
          ELSE Becomes(t, [at |-> "scanning", chain |-> task[t].chain, now |-> task[t].now,
                           todo |-> todo, excluded |-> excluded])
    /\ UNCHANGED <<chains, vault, ui, scans, migrated>>

\* scan, of the next key ring: it waits for the node ...
ScanBegins(t, v) ==
    /\ task[t].at = "scanning" /\ v \in task[t].todo \cap Live
    /\ task[t].chain \in Known /\ ~IsEnabled(v, task[t].chain)
    /\ Becomes(t, [at |-> "fetching", chain |-> task[t].chain, now |-> task[t].now,
                   todo |-> task[t].todo \ {v}, excluded |-> task[t].excluded, vault |-> v])
    /\ UNCHANGED <<chains, vault, ui, scans, migrated>>

\* ... or there is nothing to do, the wallet is locked, or the chain or the key ring is gone.
ScanSkips(t, v) ==
    /\ task[t].at = "scanning" /\ v \in task[t].todo
    /\ Becomes(t, [task[t] EXCEPT !.todo = @ \ {v}])
    /\ UNCHANGED <<chains, vault, ui, scans, migrated>>

NextScan(t) ==
    Becomes(t, [at |-> "scanning", chain |-> task[t].chain, now |-> task[t].now,
                todo |-> task[t].todo, excluded |-> task[t].excluded])

ScanFinds(t, single) ==
    LET v == task[t].vault  c == task[t].chain
    IN  /\ task[t].at = "fetching"
        /\ IF IsEnabled(v, c) THEN UNCHANGED scans ELSE Found(v, c, task[t].now, single)
        /\ NextScan(t)
        /\ UNCHANGED <<chains, vault, ui, migrated>>

ScanFindsNothing(t) ==
    /\ task[t].at = "fetching"
    /\ NextScan(t)
    /\ UNCHANGED <<chains, vault, ui, scans, migrated>>

\* getTokenScans, of one chain
Shown(v, c) ==
    /\ scans[v][c] # None
    /\ c \in Known
    /\ ~IsEnabled(v, c)

\* When all are scanned, the chain is turned on where it has tokens at one address.
TurnsOn(t, v) ==
    LET c == task[t].chain
    IN  /\ v \in Live \ {task[t].excluded}
        /\ Shown(v, c)
        /\ scans[v][c] = [now |-> task[t].now, single |-> TRUE]

TurnOnFound(t) ==
    /\ task[t].at = "scanning" /\ task[t].todo = {}
    /\ ui' = [v \in Vaults |-> IF TurnsOn(t, v) THEN EnableChain(ui[v], {task[t].chain})
                                                ELSE ui[v]]
    /\ Becomes(t, Idle)
    /\ UNCHANGED <<chains, vault, scans, migrated>>

\* scanAll, for the main page of a key ring: all chains that are not enabled at once.
ScanAll(t, v) ==
    /\ task[t] = Idle
    /\ v \in Live
    /\ Becomes(t, [at |-> "all", vault |-> v,
                   ids |-> [c \in {c \in Known : ~IsEnabled(v, c)} |-> chains[c].now]])
    /\ UNCHANGED <<chains, vault, ui, scans, migrated>>

\* What it found is written whatever has changed.
AllScanned(t) ==
    /\ task[t].at = "all"
    /\ LET v == task[t].vault  ids == task[t].ids
       IN  \E found \in SUBSET DOMAIN ids, single \in BOOLEAN :
              scans' = [scans EXCEPT ![v] =
                          [c \in Chains |-> IF c \in found THEN [now |-> ids[c], single |-> single]
                                            ELSE @[c]]]
    /\ Becomes(t, Idle)
    /\ UNCHANGED <<chains, vault, ui, migrated>>

-----------------------------------------------------------------------------
\* Chains are removed: results for the chain id they had now are forgotten.
RemoveChains(cs) ==
    /\ cs # {} /\ Removed(cs)
    /\ ForgetChains(cs)
    /\ scans' = [v \in Vaults |->
                   [c \in Chains |-> IF c \in cs /\ scans[v][c] # None
                                        /\ scans[v][c].now = chains[c].now
                                     THEN None ELSE scans[v][c]]]
    /\ UNCHANGED <<vault, task, migrated>>

\* An update of the chains service.
Renew(c, n) ==
    /\ Renewed(c, n)
    /\ UNCHANGED <<vault, ui, scans, task, migrated>>

RemoveKeyRing(v) ==
    /\ RemoveVault(v)
    /\ scans' = [scans EXCEPT ![v] = [c \in Chains |-> None]]
    /\ UNCHANGED <<task, migrated>>

\* The worker ends and starts.  The first start after the upgrade takes out the retired
\* chain, when none of the services has registered its handler yet.
Restart ==
    /\ task' = [t \in Tasks |-> Idle]
    /\ migrated' = TRUE
    /\ IF ~migrated /\ Retired \in Known THEN Removed({Retired}) ELSE UNCHANGED chains
    /\ UNCHANGED <<vault, ui, scans>>

TaskStep(t) ==
    \/ \E c \in Chains, n \in Versions : Suggest(c, n, t)
    \/ \E v \in Vaults \cup {None} : ScanAfterSuggestion(t, v)
    \/ \E v \in Vaults : ScanBegins(t, v) \/ ScanSkips(t, v) \/ ScanAll(t, v)
    \/ \E single \in BOOLEAN : ScanFinds(t, single)
    \/ ScanFindsNothing(t)
    \/ TurnOnFound(t)
    \/ AllScanned(t)

Next ==
    \/ UINext /\ UNCHANGED <<scans, task, migrated>>
    \/ \E t \in Tasks : TaskStep(t)
    \/ \E c \in Chains : RemoveChains({c})
    \/ RemoveChains(Known \ Embedded)
    \/ \E c \in Chains, n \in Versions : Renew(c, n)
    \/ \E v \in Vaults : RemoveKeyRing(v)
    \/ Restart

Spec == Init /\ [][Next]_vars
=============================================================================
