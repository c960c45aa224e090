---------------------------- MODULE ChainsUIService ----------------------------
(***************************************************************************)
(* The chains each key ring has turned on, and the tokens it has hidden on *)
(* them (chains-ui/service.ts, manage-view-asset-token/service.ts), over   *)
(* the known chains.  A list of enabled chains that has no known chain     *)
(* stands for the first chain of the wallet, which is not stored.          *)
(*                                                                         *)
(* One coin of each chain can be hidden: what matters is that an entry is  *)
(* there, and goes with its chain and its key ring.                        *)
(***************************************************************************)
EXTENDS KnownChains

CONSTANTS
    First,   \* the first chain info, an embedded one
    Vaults   \* ids of key rings, used once each

ASSUME UIAssumption == First \in Embedded

VARIABLES
    vault,  \* of each id: "new", "live" or "gone"
    ui      \* of each id: the stored list of enabled chains and the chains with a hidden coin

Live == {v \in Vaults : vault[v] = "live"}

Nothing == [enabled |-> {}, hidden |-> {}]

UITypeOK ==
    /\ vault \in [Vaults -> {"new", "live", "gone"}]
    /\ ui \in [Vaults -> [enabled : SUBSET Chains, hidden : SUBSET Chains]]

UIInit ==
    /\ vault = [v \in Vaults |-> "new"]
    /\ ui    = [v \in Vaults |-> Nothing]

\* enabledChainIdentifiersForVault
View(stored) == IF stored \cap Known = {} THEN {First} ELSE stored \cap Known

IsEnabled(v, c) == c \in View(ui[v].enabled)

\* Mutant: the handlers run before the list is stored.
Store_HandlersComeFirst(entry, list) ==
    [enabled |-> list, hidden |-> entry.hidden \cap View(entry.enabled)]

\* Storing a list; the handlers of the change drop hidden coins of what is not on.
Store(entry, list) == [enabled |-> list, hidden |-> entry.hidden \cap View(list)]

\* Mutant: chains are not looked up.
EnableChain_Unfiltered(entry, cs) == Store(entry, View(entry.enabled) \cup cs)

\* The list starts from the view, so a stand-in is stored once something is added to it.
EnableChain(entry, cs) == Store(entry, View(entry.enabled) \cup (cs \cap Known))

DisableChain(entry, cs) == Store(entry, View(entry.enabled) \ (cs \cap Known))

\* One chain of toggleChain; what was enabled is looked up before the first of them.
ToggleOne(entry, c, wasOn) ==
    CASE c \notin Known -> entry
      [] c \in Known /\ c \in wasOn -> DisableChain(entry, {c})
      [] OTHER -> EnableChain(entry, {c})

-----------------------------------------------------------------------------
\* The messages of the UI: each throws for a vault that is gone.
Enable(v, cs) ==
    /\ v \in Live
    /\ ui' = [ui EXCEPT ![v] = EnableChain(@, cs)]
    /\ UNCHANGED <<chains, vault>>

Disable(v, cs) ==
    /\ v \in Live
    /\ ui' = [ui EXCEPT ![v] = DisableChain(@, cs)]
    /\ UNCHANGED <<chains, vault>>

\* Lists of one (c = d) or two chains.
Toggle(v, c, d) ==
    LET wasOn == View(ui[v].enabled)
    IN  /\ v \in Live
        /\ ui' = [ui EXCEPT ![v] = LET once == ToggleOne(@, c, wasOn)
                                   IN  IF c = d THEN once ELSE ToggleOne(once, d, wasOn)]
        /\ UNCHANGED <<chains, vault>>

DisableViewAssetToken(v, c) ==
    /\ v \in Live
    /\ ui' = [ui EXCEPT ![v].hidden = @ \cup {c}]
    /\ UNCHANGED <<chains, vault>>

EnableViewAssetToken(v, c) ==
    /\ v \in Live
    /\ ui' = [ui EXCEPT ![v].hidden = @ \ {c}]
    /\ UNCHANGED <<chains, vault>>

\* The key ring service adds a vault, or removes one and tells its handlers.
AddVault(v) ==
    /\ vault[v] = "new"
    /\ vault' = [vault EXCEPT ![v] = "live"]
    /\ UNCHANGED <<chains, ui>>

\* Mutant: only one of the services hears of it.
ForgetVault_KeepsHidden(v) == ui' = [ui EXCEPT ![v].enabled = {}]

ForgetVault(v) == ui' = [ui EXCEPT ![v] = Nothing]

RemoveVault(v) ==
    /\ v \in Live
    /\ vault' = [vault EXCEPT ![v] = "gone"]
    /\ ForgetVault(v)
    /\ UNCHANGED chains

\* What the two services do when chains are removed.
ForgetChains(cs) ==
    ui' = [v \in Vaults |-> [enabled |-> ui[v].enabled \ cs, hidden |-> ui[v].hidden \ cs]]

UINext ==
    \/ \E v \in Vaults, cs \in SUBSET Chains : Enable(v, cs) \/ Disable(v, cs)
    \/ \E v \in Vaults, c \in Chains, d \in Chains : Toggle(v, c, d)
    \/ \E v \in Vaults, c \in Chains : DisableViewAssetToken(v, c) \/ EnableViewAssetToken(v, c)
    \/ \E v \in Vaults : AddVault(v)

-----------------------------------------------------------------------------
\* Only known chains are stored as enabled: an auto-enabling scan, a list that starts from
\* the stand-in or a removal in between leaves no chain that comes back enabled by itself.
EnabledIsKnown == \A v \in Vaults : ui[v].enabled \subseteq Known

\* Nothing is kept, nor written later, for a key ring that is gone or not there yet.
KeptForLiveVaults == \A v \in Vaults \ Live : ui[v] = Nothing

\* A chain that is turned off, or removed, takes along the tokens hidden on it, also the
\* first chain when it has only stood in for an empty list.
TurnedOffForgetsHidden ==
    [][\A v \in Vaults, c \in Chains :
          IsEnabled(v, c) /\ ~IsEnabled(v, c)' => c \notin ui'[v].hidden]_<<chains, ui>>
=============================================================================
