----------------------------- MODULE TokenScanProofs -----------------------------
(***************************************************************************)
(* Enabled chains under scans, removals and restarts, for any chains, key  *)
(* rings and scans in flight: what is stored as enabled is known, nothing  *)
(* is stored for a key ring that is gone, and everything keeps its type.   *)
(***************************************************************************)
EXTENDS TokenScan, TLAPS

Entries == [enabled : SUBSET Chains, hidden : SUBSET Chains]

UIShape ==
    /\ vault \in [Vaults -> {"new", "live", "gone"}]
    /\ ui \in [Vaults -> Entries]
    /\ chains \in [Chains -> {None} \cup [base : Versions, now : Versions]]

\* Embedded chains stay, so the first chain can always stand in.
EmbeddedStay == Embedded \subseteq Known

IInv == UIShape /\ EmbeddedStay /\ KeptForLiveVaults

\* Each change of a list keeps the known ones of it.
KnownEntry(entry) == entry \in Entries /\ entry.enabled \subseteq Known

LEMMA KnownChainsAreChains == Known \subseteq Chains
  BY DEF Known

LEMMA ViewKnown == ASSUME EmbeddedStay, NEW list PROVE View(list) \subseteq Known
  BY UIAssumption DEF EmbeddedStay, View

LEMMA StoreKnown ==
  ASSUME NEW entry \in Entries, NEW list \in SUBSET Known
  PROVE  KnownEntry(Store(entry, list))
<1>1. list \subseteq Chains /\ entry.hidden \subseteq Chains
  BY KnownChainsAreChains DEF Entries
<1>. QED BY <1>1 DEF Store, KnownEntry, Entries

LEMMA ChangeKnown ==
  ASSUME EmbeddedStay, NEW entry \in Entries, NEW cs
  PROVE  KnownEntry(EnableChain(entry, cs)) /\ KnownEntry(DisableChain(entry, cs))
  BY ViewKnown, StoreKnown DEF EnableChain, DisableChain

LEMMA ToggleKnown ==
  ASSUME EmbeddedStay, NEW entry \in Entries, NEW c, NEW on
  PROVE  /\ ToggleOne(entry, c, on) \in Entries
         /\ KnownEntry(entry) => KnownEntry(ToggleOne(entry, c, on))
<1>1. ToggleOne(entry, c, on) \in {entry, DisableChain(entry, {c}), EnableChain(entry, {c})}
  BY Zenon DEF ToggleOne
<1>. QED BY <1>1, ChangeKnown DEF KnownEntry

\* A message of the UI changes the entry of one live key ring.
LEMMA UIStep ==
  ASSUME IInv, UINext
  PROVE  /\ UNCHANGED chains
         /\ vault' \in [Vaults -> {"new", "live", "gone"}]
         /\ \A v \in Vaults : v \notin Live => vault'[v] \in {vault[v], "live"} /\ ui'[v] = ui[v]
         /\ Live \subseteq Live'
         /\ ui' \in [Vaults -> Entries]
         /\ EnabledIsKnown => EnabledIsKnown'
<1>. USE DEF IInv, UIShape, Live
<1>0. ASSUME NEW v \in Live, NEW e, ui' = [ui EXCEPT ![v] = e], UNCHANGED <<chains, vault>>,
             e \in Entries, KnownEntry(ui[v]) => KnownEntry(e)
      PROVE  /\ UNCHANGED chains
             /\ vault' \in [Vaults -> {"new", "live", "gone"}]
             /\ \A w \in Vaults : w \notin Live => vault'[w] \in {vault[w], "live"} /\ ui'[w] = ui[w]
             /\ Live \subseteq Live'
             /\ ui' \in [Vaults -> Entries]
             /\ EnabledIsKnown => EnabledIsKnown'
  <2>1. EnabledIsKnown => EnabledIsKnown'
    BY <1>0 DEF EnabledIsKnown, KnownEntry, Known
  <2>. QED BY <1>0, <2>1
<1>1. \A v \in Live : ui[v] \in Entries
  OBVIOUS
<1>2. ASSUME NEW v \in Vaults, NEW cs \in SUBSET Chains, Enable(v, cs) \/ Disable(v, cs)
      PROVE  \E e \in Entries : /\ v \in Live /\ ui' = [ui EXCEPT ![v] = e] /\ UNCHANGED <<chains, vault>>
                                /\ KnownEntry(ui[v]) => KnownEntry(e)
  BY <1>1, <1>2, ChangeKnown DEF Enable, Disable, KnownEntry
<1>3. ASSUME NEW v \in Vaults, NEW c \in Chains, NEW d \in Chains, Toggle(v, c, d)
      PROVE  \E e \in Entries : /\ v \in Live /\ ui' = [ui EXCEPT ![v] = e] /\ UNCHANGED <<chains, vault>>
                                /\ KnownEntry(ui[v]) => KnownEntry(e)
  <2>. DEFINE on   == View(ui[v].enabled)
              once == ToggleOne(ui[v], c, on)
              twice == ToggleOne(once, d, on)
              new == IF c = d THEN once ELSE twice
  <2>1. /\ v \in Live /\ UNCHANGED <<chains, vault>>
        /\ ui' = [ui EXCEPT ![v] = new]
    BY <1>3 DEF Toggle
  <2>2. once \in Entries /\ (KnownEntry(ui[v]) => KnownEntry(once))
    BY <1>1, <2>1, ToggleKnown
  <2>3. twice \in Entries /\ (KnownEntry(once) => KnownEntry(twice))
    BY <2>2, ToggleKnown
  <2>4. new \in Entries /\ (KnownEntry(ui[v]) => KnownEntry(new))
    BY <2>2, <2>3
  <2>. HIDE DEF new
  <2>. QED BY <2>1, <2>4
<1>4. ASSUME NEW v \in Vaults, NEW c \in Chains,
             DisableViewAssetToken(v, c) \/ EnableViewAssetToken(v, c)
      PROVE  \E e \in Entries : /\ v \in Live /\ ui' = [ui EXCEPT ![v] = e] /\ UNCHANGED <<chains, vault>>
                                /\ KnownEntry(ui[v]) => KnownEntry(e)
  <2>. DEFINE more == [ui[v] EXCEPT !.hidden = @ \cup {c}]
              less == [ui[v] EXCEPT !.hidden = @ \ {c}]
  <2>1. more \in Entries /\ less \in Entries /\ more.enabled = ui[v].enabled /\ less.enabled = ui[v].enabled
    BY DEF Entries
  <2>2. /\ v \in Live /\ UNCHANGED <<chains, vault>>
        /\ ui' = [ui EXCEPT ![v] = more] \/ ui' = [ui EXCEPT ![v] = less]
    BY <1>4 DEF DisableViewAssetToken, EnableViewAssetToken
  <2>. HIDE DEF more, less
  <2>. QED BY <2>1, <2>2 DEF KnownEntry
<1>5. CASE \E v \in Vaults : AddVault(v)
  <2>. PICK v \in Vaults : AddVault(v) BY <1>5
  <2>1. EnabledIsKnown => EnabledIsKnown'
    BY DEF AddVault, EnabledIsKnown, Known
  <2>. QED BY <2>1 DEF AddVault
<1>. QED BY <1>0, <1>2, <1>3, <1>4, <1>5 DEF UINext

\* A scan changes lists only when it is over: it enables known chains of live key rings.
LEMMA TaskUIStep ==
  ASSUME IInv, NEW t \in Tasks, TurnOnFound(t)
  PROVE  IInv' /\ (EnabledIsKnown => EnabledIsKnown')
<1>. USE DEF IInv, UIShape
<1>1. UNCHANGED <<chains, vault>>
      /\ ui' = [v \in Vaults |-> IF TurnsOn(t, v) THEN EnableChain(ui[v], {task[t].chain})
                                                  ELSE ui[v]]
  BY DEF TurnOnFound
<1>2. \A v \in Vaults : TurnsOn(t, v) => v \in Live
  BY DEF TurnsOn
<1>3. ASSUME NEW v \in Vaults
      PROVE  ui'[v] \in Entries /\ (ui[v].enabled \subseteq Known => ui'[v].enabled \subseteq Known)
  <2>1. KnownEntry(EnableChain(ui[v], {task[t].chain}))
    BY ChangeKnown
  <2>. QED BY <1>1, <2>1 DEF KnownEntry
<1>4. Known' = Known /\ Live' = Live
  BY <1>1 DEF Known, Live
<1>5. KeptForLiveVaults'
  BY <1>1, <1>2, <1>4 DEF KeptForLiveVaults
<1>6. EnabledIsKnown => EnabledIsKnown'
  BY <1>3, <1>4 DEF EnabledIsKnown
<1>7. ui' \in [Vaults -> Entries]
  BY <1>1, <1>3
<1>. QED BY <1>1, <1>4, <1>5, <1>6, <1>7 DEF EmbeddedStay

\* Removed chains are taken out of every list in the same step.
LEMMA RemoveStep ==
  ASSUME IInv, NEW cs, RemoveChains(cs) PROVE IInv' /\ (EnabledIsKnown => EnabledIsKnown')
<1>. USE DEF IInv, UIShape
<1>1. /\ cs \subseteq Known \ Embedded /\ UNCHANGED vault
      /\ chains' = [c \in Chains |-> IF c \in cs THEN None ELSE chains[c]]
      /\ ui' = [v \in Vaults |-> [enabled |-> ui[v].enabled \ cs, hidden |-> ui[v].hidden \ cs]]
  BY DEF RemoveChains, Removed, ForgetChains
<1>2. Known' = Known \ cs /\ Live' = Live
  BY <1>1 DEF Known, Live
<1>3. UIShape'
  BY <1>1 DEF Entries
<1>4. EmbeddedStay'
  BY <1>1, <1>2 DEF EmbeddedStay
<1>5. KeptForLiveVaults'
  <2>1. Nothing = [enabled |-> {} \ cs, hidden |-> {} \ cs]
    BY DEF Nothing
  <2>2. \A v \in Vaults \ Live : ui[v].enabled = {} /\ ui[v].hidden = {}
    BY DEF KeptForLiveVaults, Nothing
  <2>. QED BY <1>1, <1>2, <2>1, <2>2 DEF KeptForLiveVaults
<1>6. EnabledIsKnown => EnabledIsKnown'
  BY <1>1, <1>2 DEF EnabledIsKnown
<1>. QED BY <1>3, <1>4, <1>5, <1>6

LEMMA ComesToKnown ==
  ASSUME IInv, NEW c \in Chains, NEW n \in Versions, Suggested(c, n) \/ Renewed(c, n)
  PROVE  Known \subseteq Known'
<1>. USE DEF IInv, UIShape, Known
<1>1. CASE Suggested(c, n)
  BY <1>1 DEF Suggested
<1>2. CASE Renewed(c, n)
  <2>1. chains[c] \in [base : Versions, now : Versions]
    BY <1>2 DEF Renewed
  <2>2. [chains[c] EXCEPT !.now = n] \in [base : Versions, now : Versions]
    BY <2>1
  <2>3. chains' = [chains EXCEPT ![c] = [chains[c] EXCEPT !.now = n]]
    BY <1>2 DEF Renewed
  <2>. HIDE DEF Renewed
  <2>. QED BY <2>2, <2>3, ChainsAssumption
<1>. QED BY <1>1, <1>2

LEMMA ChainsMayGrow ==
  ASSUME IInv, NEW c \in Chains, NEW n \in Versions, Suggested(c, n) \/ Renewed(c, n),
         UNCHANGED <<vault, ui>>
  PROVE  IInv' /\ (EnabledIsKnown => EnabledIsKnown')
<1>. USE DEF IInv, UIShape
<1>1. chains' \in [Chains -> {None} \cup [base : Versions, now : Versions]] /\ Known \subseteq Known'
  <2>1. CASE Suggested(c, n)
    BY <2>1, ChainsAssumption DEF Suggested, Added, Known
  <2>2. CASE Renewed(c, n)
    <3>1. chains[c] \in [base : Versions, now : Versions]
      BY <2>2 DEF Renewed, Known
    <3>2. [chains[c] EXCEPT !.now = n] \in [base : Versions, now : Versions]
      BY <3>1
    <3>3. chains' = [chains EXCEPT ![c] = [chains[c] EXCEPT !.now = n]]
      BY <2>2 DEF Renewed
    <3>. HIDE DEF Renewed
    <3>. QED BY <3>2, <3>3, ChainsAssumption DEF Known
  <2>. QED BY <2>1, <2>2
<1>2. Live' = Live BY DEF Live
<1>. QED BY <1>1, <1>2 DEF EmbeddedStay, KeptForLiveVaults, EnabledIsKnown

\* The one step that takes a chain and not its entries is the start after the upgrade.
LEMMA RestartStep ==
  ASSUME IInv, Restart PROVE IInv' /\ (migrated /\ EnabledIsKnown => EnabledIsKnown')
<1>. USE DEF IInv, UIShape
<1>1. UNCHANGED <<vault, ui>> /\ (migrated => UNCHANGED chains)
      /\ (UNCHANGED chains \/ Removed({Retired}))
  BY DEF Restart
<1>2. chains' \in [Chains -> {None} \cup [base : Versions, now : Versions]] /\ EmbeddedStay'
  <2>1. CASE UNCHANGED chains BY <2>1 DEF EmbeddedStay, Known
  <2>2. CASE Removed({Retired})
    BY <2>2, ChainsAssumption DEF EmbeddedStay, Known, Removed
  <2>. QED BY <1>1, <2>1, <2>2
<1>3. migrated => Known' = Known
  BY <1>1 DEF Known
<1>. QED BY <1>1, <1>2, <1>3 DEF KeptForLiveVaults, Live, EnabledIsKnown

LEMMA KeyRingStep ==
  ASSUME IInv, NEW v \in Vaults, RemoveKeyRing(v) PROVE IInv' /\ (EnabledIsKnown => EnabledIsKnown')
<1>. USE DEF IInv, UIShape
<1>1. /\ vault' = [vault EXCEPT ![v] = "gone"] /\ ui' = [ui EXCEPT ![v] = Nothing]
      /\ UNCHANGED chains
  BY DEF RemoveKeyRing, RemoveVault, ForgetVault
<1>2. Known' = Known BY <1>1 DEF Known
<1>3. Nothing \in Entries BY DEF Nothing, Entries
<1>4. UIShape' BY <1>1, <1>3
<1>5. KeptForLiveVaults' BY <1>1 DEF KeptForLiveVaults, Live
<1>6. EnabledIsKnown => EnabledIsKnown'
  BY <1>1, <1>2 DEF EnabledIsKnown, Nothing
<1>. QED BY <1>2, <1>4, <1>5, <1>6 DEF EmbeddedStay

LEMMA Unchanged ==
  ASSUME IInv, UNCHANGED <<chains, vault, ui>> PROVE IInv' /\ (EnabledIsKnown => EnabledIsKnown')
  BY DEF IInv, UIShape, EmbeddedStay, KeptForLiveVaults, EnabledIsKnown, Known, Live

LEMMA Step ==
  ASSUME IInv, [Next]_vars
  PROVE  IInv' /\ (migrated => migrated') /\ (migrated /\ EnabledIsKnown => EnabledIsKnown')
<1>1. CASE UINext /\ UNCHANGED <<scans, task, migrated>>
  <2>1. IInv'
    <3>1. Known' = Known BY <1>1, UIStep DEF Known
    <3>2. UIShape' BY <1>1, UIStep DEF IInv, UIShape
    <3>3. KeptForLiveVaults'
      BY <1>1, UIStep DEF IInv, KeptForLiveVaults, Live
    <3>. QED BY <3>1, <3>2, <3>3 DEF IInv, EmbeddedStay
  <2>. QED BY <1>1, <2>1, UIStep
<1>2. ASSUME NEW t \in Tasks, TaskStep(t)
      PROVE  IInv' /\ UNCHANGED migrated /\ (EnabledIsKnown => EnabledIsKnown')
  <2>1. CASE TurnOnFound(t)
    BY <2>1, TaskUIStep DEF TurnOnFound
  <2>2. CASE \E c \in Chains, n \in Versions : Suggest(c, n, t)
    BY <2>2, ChainsMayGrow DEF Suggest
  <2>3. CASE UNCHANGED <<chains, vault, ui, migrated>>
    BY <2>3, Unchanged
  <2>4. TaskStep(t) => \/ TurnOnFound(t)
                       \/ \E c \in Chains, n \in Versions : Suggest(c, n, t)
                       \/ UNCHANGED <<chains, vault, ui, migrated>>
    BY DEF TaskStep, ScanAfterSuggestion, ScanBegins, ScanSkips, ScanAll, ScanFinds,
           ScanFindsNothing, AllScanned
  <2>. QED BY <1>2, <2>1, <2>2, <2>3, <2>4
<1>3. ASSUME NEW cs, RemoveChains(cs)
      PROVE  IInv' /\ UNCHANGED migrated /\ (EnabledIsKnown => EnabledIsKnown')
  BY <1>3, RemoveStep DEF RemoveChains
<1>4. CASE \E c \in Chains, n \in Versions : Renew(c, n)
  BY <1>4, ChainsMayGrow DEF Renew
<1>5. ASSUME NEW v \in Vaults, RemoveKeyRing(v)
      PROVE  IInv' /\ UNCHANGED migrated /\ (EnabledIsKnown => EnabledIsKnown')
  BY <1>5, KeyRingStep DEF RemoveKeyRing
<1>6. CASE Restart
  BY <1>6, RestartStep DEF Restart
<1>7. CASE UNCHANGED vars
  BY <1>7, Unchanged DEF vars
<1>. QED BY <1>1, <1>2, <1>3, <1>4, <1>5, <1>6, <1>7 DEF Next

LEMMA Start == Init => IInv /\ EnabledIsKnown /\ (~Upgrading => migrated)
<1>. SUFFICES ASSUME Init PROVE IInv /\ EnabledIsKnown /\ (~Upgrading => migrated)
  OBVIOUS
<1>1. ~Upgrading => migrated
  BY Zenon DEF Init
<1>2. 0 \in Versions
  BY ChainsAssumption DEF Versions
<1>3. chains \in [Chains -> {None} \cup [base : Versions, now : Versions]] /\ EmbeddedStay
  <2>. DEFINE zero == [base |-> 0, now |-> 0]
  <2>1. zero \in [base : Versions, now : Versions] /\ zero # None
    BY <1>2, ChainsAssumption
  <2>2. chains = [c \in Chains |-> IF c \in Embedded THEN zero ELSE None]
    BY DEF Init, ChainsInit, Added
  <2>. HIDE DEF zero
  <2>. QED BY <2>1, <2>2, ChainsAssumption DEF EmbeddedStay, Known
<1>4. Nothing \in Entries /\ Nothing.enabled = {}
  BY DEF Nothing, Entries
<1>5. /\ vault \in [Vaults -> {"new", "live", "gone"}] /\ ui \in [Vaults -> Entries]
      /\ \A v \in Vaults : ui[v] = Nothing
  BY <1>4 DEF Init, UIInit
<1>. QED BY <1>1, <1>3, <1>4, <1>5
         DEF IInv, UIShape, KeptForLiveVaults, EnabledIsKnown

\* Nothing is kept for a key ring that is gone, whatever was in flight for it.
THEOREM NothingForGone == Spec => []KeptForLiveVaults
<1>1. Init => IInv BY Start
<1>2. IInv /\ [Next]_vars => IInv' BY Step
<1>3. IInv => KeptForLiveVaults BY DEF IInv
<1>. QED BY <1>1, <1>2, <1>3, PTL DEF Spec

\* In a wallet that was set up after the chain had been retired, only known chains are
\* stored as enabled.
THEOREM OnlyKnownEnabled == ASSUME ~Upgrading PROVE Spec => []EnabledIsKnown
<1>. DEFINE Inv == IInv /\ migrated /\ EnabledIsKnown
<1>1. Init => Inv BY Start
<1>2. Inv /\ [Next]_vars => Inv' BY Step
<1>3. Inv => EnabledIsKnown OBVIOUS
<1>. HIDE DEF Inv
<1>. QED BY <1>1, <1>2, <1>3, PTL DEF Spec

-----------------------------------------------------------------------------
\* What a message or a scan leaves of an entry: the same list, or nothing hidden but on
\* what is on.
Settled(old, new) == new.enabled = old.enabled \/ new.hidden \subseteq View(new.enabled)

LEMMA ChangeSettles ==
  ASSUME NEW old, NEW entry, NEW cs
  PROVE  Settled(old, EnableChain(entry, cs)) /\ Settled(old, DisableChain(entry, cs))
  BY DEF EnableChain, DisableChain, Store, Settled

LEMMA ToggleSettles ==
  ASSUME NEW old, NEW entry, Settled(old, entry), NEW c, NEW on
  PROVE  Settled(old, ToggleOne(entry, c, on))
<1>1. ToggleOne(entry, c, on) \in {entry, DisableChain(entry, {c}), EnableChain(entry, {c})}
  BY Zenon DEF ToggleOne
<1>. QED BY <1>1, ChangeSettles

\* With the same chains known, an entry that is settled hides nothing on what went off.
LEMMA SettledForgets ==
  ASSUME Known' = Known, NEW v \in Vaults, Settled(ui[v], ui'[v]), NEW c \in Chains,
         IsEnabled(v, c), ~IsEnabled(v, c)'
  PROVE  c \notin ui'[v].hidden
<1>1. IsEnabled(v, c)' <=> c \in View(ui'[v].enabled)
  BY DEF IsEnabled, View
<1>. QED BY <1>1 DEF IsEnabled, Settled

LEMMA UISettles ==
  ASSUME IInv, UINext, NEW v \in Vaults
  PROVE  Settled(ui[v], ui'[v])
<1>. USE DEF IInv, UIShape
<1>1. ASSUME NEW w \in Vaults, NEW e, ui' = [ui EXCEPT ![w] = e], Settled(ui[w], e)
      PROVE  Settled(ui[v], ui'[v])
  <2>1. Settled(ui[v], ui[v]) BY DEF Settled
  <2>2. ui'[v] = IF v = w THEN e ELSE ui[v] BY <1>1
  <2>. QED BY <1>1, <2>1, <2>2
<1>2. ASSUME NEW w \in Vaults, NEW cs \in SUBSET Chains, Enable(w, cs) \/ Disable(w, cs)
      PROVE  Settled(ui[v], ui'[v])
  BY <1>1, <1>2, ChangeSettles DEF Enable, Disable
<1>3. ASSUME NEW w \in Vaults, NEW c \in Chains, NEW d \in Chains, Toggle(w, c, d)
      PROVE  Settled(ui[v], ui'[v])
  <2>. DEFINE on    == View(ui[w].enabled)
              once  == ToggleOne(ui[w], c, on)
              twice == ToggleOne(once, d, on)
              new   == IF c = d THEN once ELSE twice
  <2>1. ui' = [ui EXCEPT ![w] = new]
    BY <1>3 DEF Toggle
  <2>2. Settled(ui[w], once)
    <3>1. Settled(ui[w], ui[w]) BY DEF Settled
    <3>. QED BY <3>1, ToggleSettles
  <2>3. Settled(ui[w], twice)
    BY <2>2, ToggleSettles
  <2>4. Settled(ui[w], new)
    BY <2>2, <2>3
  <2>. HIDE DEF new
  <2>. QED BY <1>1, <2>1, <2>4
<1>4. ASSUME NEW w \in Vaults, NEW c \in Chains,
             DisableViewAssetToken(w, c) \/ EnableViewAssetToken(w, c)
      PROVE  Settled(ui[v], ui'[v])
  <2>. DEFINE more == [ui[w] EXCEPT !.hidden = @ \cup {c}]
              less == [ui[w] EXCEPT !.hidden = @ \ {c}]
  <2>1. Settled(ui[w], more) /\ Settled(ui[w], less)
    BY DEF Settled, Entries
  <2>2. ui' = [ui EXCEPT ![w] = more] \/ ui' = [ui EXCEPT ![w] = less]
    BY <1>4 DEF DisableViewAssetToken, EnableViewAssetToken
  <2>. HIDE DEF more, less
  <2>. QED BY <1>1, <2>1, <2>2
<1>5. ASSUME NEW w \in Vaults, AddVault(w)
      PROVE  Settled(ui[v], ui'[v])
  BY <1>5 DEF AddVault, Settled
<1>. QED BY <1>2, <1>3, <1>4, <1>5 DEF UINext

\* Chains that come leave every view as it is, when only known ones are stored.
LEMMA ComingKeepsViews ==
  ASSUME EnabledIsKnown, Known \subseteq Known', UNCHANGED ui, NEW v \in Vaults, NEW c,
         IsEnabled(v, c)
  PROVE  IsEnabled(v, c)'
  BY DEF EnabledIsKnown, IsEnabled, View

LEMMA RemovalForgets ==
  ASSUME IInv, NEW cs, RemoveChains(cs), NEW v \in Vaults, NEW c \in Chains,
         IsEnabled(v, c), ~IsEnabled(v, c)'
  PROVE  c \notin ui'[v].hidden
<1>. USE DEF IInv, UIShape
<1>1. /\ cs \subseteq Known \ Embedded
      /\ chains' = [d \in Chains |-> IF d \in cs THEN None ELSE chains[d]]
      /\ ui'[v] = [enabled |-> ui[v].enabled \ cs, hidden |-> ui[v].hidden \ cs]
  BY DEF RemoveChains, Removed, ForgetChains
<1>2. Known' = Known \ cs
  BY <1>1 DEF Known
<1>3. First \notin cs
  BY <1>1, UIAssumption
<1>4. View(ui[v].enabled)' = IF (ui[v].enabled \cap Known) \ cs = {} THEN {First}
                             ELSE (ui[v].enabled \cap Known) \ cs
  <2>1. (ui[v].enabled \ cs) \cap (Known \ cs) = (ui[v].enabled \cap Known) \ cs
    OBVIOUS
  <2>2. ui'[v].enabled = ui[v].enabled \ cs
    BY <1>1
  <2>. QED BY <1>2, <2>1, <2>2 DEF View
<1>5. c \in cs
  BY <1>3, <1>4 DEF IsEnabled, View
<1>. QED BY <1>1, <1>5

\* What goes off takes along what was hidden on it, in a wallet that was set up after the
\* chain had been retired: a chain that comes back enabled would end the stand-in.
THEOREM OffForgetsHidden == ASSUME ~Upgrading PROVE Spec => TurnedOffForgetsHidden
<1>. DEFINE Inv == IInv /\ migrated /\ EnabledIsKnown
            Forgets == \A v \in Vaults, c \in Chains :
                         IsEnabled(v, c) /\ ~IsEnabled(v, c)' => c \notin ui'[v].hidden
<1>1. Init => Inv BY Start
<1>2. Inv /\ [Next]_vars => Inv' BY Step
<1>3. Inv /\ [Next]_vars => [Forgets]_<<chains, ui>>
  <2>. SUFFICES ASSUME Inv, Next, NEW v \in Vaults, NEW c \in Chains,
                       IsEnabled(v, c), ~IsEnabled(v, c)'
                PROVE  c \notin ui'[v].hidden
    BY DEF vars
  <2>1. CASE UINext
    <3>1. Known' = Known BY <2>1, UIStep DEF Known
    <3>. QED BY <2>1, <3>1, UISettles, SettledForgets
  <2>2. ASSUME NEW t \in Tasks, TurnOnFound(t)
        PROVE  c \notin ui'[v].hidden
    <3>1. /\ Known' = Known
          /\ ui'[v] = IF TurnsOn(t, v) THEN EnableChain(ui[v], {task[t].chain}) ELSE ui[v]
      BY <2>2 DEF TurnOnFound, Known
    <3>2. Settled(ui[v], EnableChain(ui[v], {task[t].chain}))
      BY ChangeSettles
    <3>3. Settled(ui[v], ui[v])
      BY DEF Settled
    <3>4. Settled(ui[v], ui'[v])
      BY <3>1, <3>2, <3>3
    <3>. QED BY <3>1, <3>4, SettledForgets
  <2>3. ASSUME NEW t \in Tasks, TaskStep(t), ~TurnOnFound(t)
        PROVE  FALSE
    <3>1. UNCHANGED ui /\ Known \subseteq Known'
      <4>1. CASE \E d \in Chains, n \in Versions : Suggest(d, n, t)
        BY <4>1, ComesToKnown DEF Suggest
      <4>2. CASE UNCHANGED <<chains, ui>>
        BY <4>2 DEF Known
      <4>. QED BY <2>3, <4>1, <4>2
               DEF TaskStep, ScanAfterSuggestion, ScanBegins, ScanSkips, ScanAll, ScanFinds,
                   ScanFindsNothing, AllScanned
    <3>. QED BY <3>1, ComingKeepsViews
  <2>4. ASSUME NEW cs, RemoveChains(cs)
        PROVE  c \notin ui'[v].hidden
    BY <2>4, RemovalForgets
  <2>5. ASSUME NEW d \in Chains, NEW n \in Versions, Renew(d, n)
        PROVE  FALSE
    <3>1. UNCHANGED ui /\ Known \subseteq Known'
      BY <2>5, ComesToKnown DEF Renew
    <3>. QED BY <3>1, ComingKeepsViews
  <2>6. ASSUME NEW w \in Vaults, RemoveKeyRing(w)
        PROVE  c \notin ui'[v].hidden
    <3>1. ui' = [ui EXCEPT ![w] = Nothing] /\ UNCHANGED chains
      BY <2>6 DEF RemoveKeyRing, RemoveVault, ForgetVault
    <3>2. v # w => UNCHANGED <<chains, ui[v]>>
      BY <3>1
    <3>3. v = w
      BY <3>2 DEF IsEnabled, View, Known
    <3>. QED BY <3>1, <3>3 DEF IInv, UIShape, Nothing
  <2>7. ~Restart
    <3>1. Restart => UNCHANGED <<chains, ui>>
      BY DEF Restart
    <3>. QED BY <3>1 DEF IsEnabled, View, Known
  <2>. QED BY <2>1, <2>2, <2>3, <2>4, <2>5, <2>6, <2>7 DEF Next
<1>. HIDE DEF Inv, Forgets
<1>4. Spec => [][Forgets]_<<chains, ui>>
  BY <1>1, <1>2, <1>3, PTL DEF Spec
<1>. QED BY <1>4 DEF TurnedOffForgetsHidden, Forgets

-----------------------------------------------------------------------------
\* The scans in flight, by where they are.
Suggesting == [at : {"suggested"}, chain : Chains, now : Versions]
Scanning   == [at : {"scanning"}, chain : Chains, now : Versions, todo : SUBSET Vaults,
               excluded : Vaults \cup {None}]
Fetching   == [at : {"fetching"}, chain : Chains, now : Versions, todo : SUBSET Vaults,
               excluded : Vaults \cup {None}, vault : Vaults]
AllOf      == [at : {"all"}, vault : Vaults, ids : UNION {[D -> Versions] : D \in SUBSET Chains}]
TaskType   == {Idle} \cup Suggesting \cup Scanning \cup Fetching \cup AllOf
ResultType == [Chains -> {None} \cup Results]

Types == scans \in [Vaults -> ResultType] /\ task \in [Tasks -> TaskType] /\ migrated \in BOOLEAN

\* A scan of this kind is in flight where it says it is.
LEMMA TaskOf ==
  ASSUME Types, NEW t \in Tasks
  PROVE  /\ task[t].at = "suggested" => task[t] \in Suggesting
         /\ task[t].at = "scanning" => task[t] \in Scanning
         /\ task[t].at = "fetching" => task[t] \in Fetching
         /\ task[t].at = "all" => task[t] \in AllOf
<1>1. task[t] \in TaskType
  BY DEF Types
<1>. QED BY <1>1 DEF TaskType, Idle, Suggesting, Scanning, Fetching, AllOf

\* A step of one scan that leaves the results alone.
LEMMA TaskKeepsTypes ==
  ASSUME Types, NEW t \in Tasks, NEW s \in TaskType, Becomes(t, s), UNCHANGED <<scans, migrated>>
  PROVE  Types'
  BY DEF Types, Becomes

\* A step of one scan that writes the results of one key ring.
LEMMA ResultsKeepTypes ==
  ASSUME Types, NEW t \in Tasks, NEW s \in TaskType, Becomes(t, s), NEW v, NEW r \in ResultType,
         scans' = [scans EXCEPT ![v] = r], UNCHANGED migrated
  PROVE  Types'
  BY DEF Types, Becomes

LEMMA TaskTypes == ASSUME IInv, Types, NEW t \in Tasks, TaskStep(t) PROVE Types'
<1>0. Idle \in TaskType
  BY DEF TaskType
<1>1. ASSUME NEW c \in Chains, NEW n \in Versions, Suggest(c, n, t) PROVE Types'
  <2>. DEFINE s == [at |-> "suggested", chain |-> c, now |-> n]
  <2>1. s \in TaskType BY DEF TaskType, Suggesting
  <2>. HIDE DEF s
  <2>2. Becomes(t, s) /\ UNCHANGED <<scans, migrated>> BY <1>1 DEF Suggest, s
  <2>. QED BY <2>1, <2>2, TaskKeepsTypes
<1>2. ASSUME NEW x \in Vaults \cup {None}, ScanAfterSuggestion(t, x) PROVE Types'
  <2>. DEFINE s(todo) == [at |-> "scanning", chain |-> task[t].chain, now |-> task[t].now,
                          todo |-> todo, excluded |-> x]
  <2>1. task[t] \in Suggesting
    BY <1>2, TaskOf DEF ScanAfterSuggestion
  <2>2. \A todo \in SUBSET Vaults : s(todo) \in TaskType
    BY <2>1 DEF Suggesting, Scanning, TaskType
  <2>3. Live \in SUBSET Vaults /\ {} \in SUBSET Vaults
    BY DEF Live
  <2>4. PICK todo \in {Live, {}} : Becomes(t, Idle) \/ Becomes(t, s(todo))
    BY <1>2 DEF ScanAfterSuggestion
  <2>5. s(todo) \in TaskType
    BY <2>2, <2>3
  <2>6. UNCHANGED <<scans, migrated>>
    BY <1>2 DEF ScanAfterSuggestion
  <2>. HIDE DEF s
  <2>. QED BY <1>0, <2>4, <2>5, <2>6, TaskKeepsTypes
<1>3. ASSUME NEW v \in Vaults, ScanBegins(t, v) PROVE Types'
  <2>. DEFINE s == [at |-> "fetching", chain |-> task[t].chain, now |-> task[t].now,
                    todo |-> task[t].todo \ {v}, excluded |-> task[t].excluded, vault |-> v]
  <2>1. task[t] \in Scanning
    BY <1>3, TaskOf DEF ScanBegins
  <2>2. s \in TaskType
    BY <2>1 DEF Scanning, Fetching, TaskType
  <2>3. Becomes(t, s) /\ UNCHANGED <<scans, migrated>>
    BY <1>3 DEF ScanBegins
  <2>. HIDE DEF s
  <2>. QED BY <2>2, <2>3, TaskKeepsTypes
<1>4. ASSUME NEW v \in Vaults, ScanSkips(t, v) PROVE Types'
  <2>. DEFINE s == [task[t] EXCEPT !.todo = @ \ {v}]
  <2>1. task[t] \in Scanning
    BY <1>4, TaskOf DEF ScanSkips
  <2>2. s \in TaskType
    BY <2>1 DEF Scanning, TaskType
  <2>3. Becomes(t, s) /\ UNCHANGED <<scans, migrated>>
    BY <1>4 DEF ScanSkips
  <2>. HIDE DEF s
  <2>. QED BY <2>2, <2>3, TaskKeepsTypes
<1>5. ASSUME NEW v \in Vaults, ScanAll(t, v) PROVE Types'
  <2>. DEFINE D == {c \in Known : ~IsEnabled(v, c)}
              f == [c \in D |-> chains[c].now]
              s == [at |-> "all", vault |-> v, ids |-> f]
  <2>1. \A c \in Known : chains[c].now \in Versions
    BY DEF IInv, UIShape, Known
  <2>2. D \in SUBSET Chains /\ f \in [D -> Versions]
    BY <2>1 DEF Known
  <2>. HIDE DEF D, f
  <2>3. s \in TaskType
    BY <2>2 DEF AllOf, TaskType
  <2>4. Becomes(t, s) /\ UNCHANGED <<scans, migrated>>
    BY <1>5 DEF ScanAll, D, f
  <2>. HIDE DEF s
  <2>. QED BY <2>3, <2>4, TaskKeepsTypes
<1>6. ASSUME NEW single \in BOOLEAN, ScanFinds(t, single) PROVE Types'
  <2>. DEFINE s == [at |-> "scanning", chain |-> task[t].chain, now |-> task[t].now,
                    todo |-> task[t].todo, excluded |-> task[t].excluded]
              v == task[t].vault
              r == [scans[v] EXCEPT ![task[t].chain] = [now |-> task[t].now, single |-> single]]
  <2>1. task[t] \in Fetching
    BY <1>6, TaskOf DEF ScanFinds
  <2>2. s \in TaskType
    BY <2>1 DEF Scanning, Fetching, TaskType
  <2>3. v \in Vaults /\ r \in ResultType
    BY <2>1 DEF Types, Fetching, ResultType, Results
  <2>4. /\ Becomes(t, s) /\ UNCHANGED migrated
        /\ UNCHANGED scans \/ scans' = [scans EXCEPT ![v] = r]
    BY <1>6 DEF ScanFinds, NextScan, Found
  <2>. HIDE DEF s, v, r
  <2>. QED BY <2>2, <2>3, <2>4, TaskKeepsTypes, ResultsKeepTypes
<1>7. ASSUME ScanFindsNothing(t) PROVE Types'
  <2>. DEFINE s == [at |-> "scanning", chain |-> task[t].chain, now |-> task[t].now,
                    todo |-> task[t].todo, excluded |-> task[t].excluded]
  <2>1. task[t] \in Fetching
    BY <1>7, TaskOf DEF ScanFindsNothing
  <2>2. s \in TaskType
    BY <2>1 DEF Scanning, Fetching, TaskType
  <2>3. Becomes(t, s) /\ UNCHANGED <<scans, migrated>>
    BY <1>7 DEF ScanFindsNothing, NextScan
  <2>. HIDE DEF s
  <2>. QED BY <2>2, <2>3, TaskKeepsTypes
<1>8. ASSUME TurnOnFound(t) PROVE Types'
  BY <1>0, <1>8, TaskKeepsTypes DEF TurnOnFound
<1>9. ASSUME AllScanned(t) PROVE Types'
  <2>. DEFINE v == task[t].vault
              ids == task[t].ids
              r(found, single) == [c \in Chains |->
                                     IF c \in found THEN [now |-> ids[c], single |-> single]
                                     ELSE scans[v][c]]
  <2>1. task[t] \in AllOf
    BY <1>9, TaskOf DEF AllScanned
  <2>2. v \in Vaults /\ scans[v] \in ResultType
    BY <2>1 DEF Types, AllOf
  <2>3. \A c \in DOMAIN ids : ids[c] \in Versions
    BY <2>1 DEF AllOf
  <2>4. PICK found \in SUBSET DOMAIN ids, single \in BOOLEAN :
           scans' = [scans EXCEPT ![v] = r(found, single)]
    BY <1>9 DEF AllScanned
  <2>5. r(found, single) \in ResultType
    BY <2>2, <2>3 DEF ResultType, Results
  <2>6. Becomes(t, Idle) /\ UNCHANGED migrated
    BY <1>9 DEF AllScanned
  <2>. HIDE DEF v, ids, r
  <2>. QED BY <1>0, <2>4, <2>5, <2>6, ResultsKeepTypes
<1>. QED BY <1>1, <1>2, <1>3, <1>4, <1>5, <1>6, <1>7, <1>8, <1>9 DEF TaskStep

LEMMA StepTypes == ASSUME IInv, Types, [Next]_vars PROVE Types'
<1>1. CASE UNCHANGED <<scans, task, migrated>>
  BY <1>1 DEF Types
<1>2. ASSUME NEW cs, RemoveChains(cs) PROVE Types'
  <2>1. /\ UNCHANGED <<task, migrated>>
        /\ scans' = [v \in Vaults |->
                       [c \in Chains |-> IF c \in cs /\ scans[v][c] # None
                                            /\ scans[v][c].now = chains[c].now
                                         THEN None ELSE scans[v][c]]]
    BY <1>2 DEF RemoveChains
  <2>. QED BY <2>1 DEF Types, ResultType
<1>3. ASSUME NEW v \in Vaults, RemoveKeyRing(v) PROVE Types'
  BY <1>3 DEF RemoveKeyRing, Types, ResultType
<1>4. CASE Restart
  BY <1>4 DEF Restart, Types, TaskType
<1>5. ASSUME NEW c \in Chains, NEW n \in Versions, Renew(c, n) PROVE Types'
  BY <1>1, <1>5 DEF Renew
<1>6. CASE UNCHANGED vars
  BY <1>1, <1>6 DEF vars
<1>7. CASE UINext /\ UNCHANGED <<scans, task, migrated>>
  BY <1>1, <1>7
<1>. QED BY <1>2, <1>3, <1>4, <1>5, <1>6, <1>7, TaskTypes DEF Next

\* Chains, lists of enabled chains, results and scans in flight keep their types, for any
\* chains, key rings and scans.
THEOREM TypeCorrect == Spec => []TypeOK
<1>. DEFINE Inv == IInv /\ Types
<1>1. Init => Inv
  <2>1. Init => Types
    BY ScanAssumption DEF Init, Types, ResultType, TaskType
  <2>. QED BY <2>1, Start
<1>2. Inv /\ [Next]_vars => Inv'
  BY Step, StepTypes
<1>3. Inv => TypeOK
  BY DEF IInv, UIShape, UITypeOK, Entries, Types, TaskType, ResultType, TypeOK,
         Suggesting, Scanning, Fetching, AllOf
<1>. HIDE DEF Inv
<1>. QED BY <1>1, <1>2, <1>3, PTL DEF Spec
=============================================================================
