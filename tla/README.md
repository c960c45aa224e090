# Specifications of the Keplr wallet's background services

TLA+ models of the services that run in the background of the Keplr browser
extension, the TLC configurations that check them on small instances, and proofs
of their main properties for instances of every size.

Contents: [the system](#the-system), [its components](#components),
[modules](#modules), [how the code maps to state and actions](#correspondence),
[runs](#runs), [where code and words disagree](#findings), [proofs](#proofs),
[what is not modelled](#limits), [plan](#plan).

Paths are relative to `src/packages/background/src` unless they start with
`src/`.

## The system

Keplr is a wallet in a browser extension. The repository is a monorepo: the
*background* (`src/packages/background`, 40,000 lines) keeps keys, permissions,
chains and histories and does everything that has an effect; the extension
(`src/apps/extension`) runs it in a worker and shows the user interface; the
other packages carry messages (`router*`, `provider*`, `wc-client`), cache what
the nodes say (`stores*`, `hooks*`) or compute (`unit`, `crypto`, `cosmos`,
`proto-types`). The wallet's own logic over time is in the background.

The background is one JavaScript worker. Its services are objects with maps and
flags in memory, most of them mobx observables that an autorun writes to
`browser.storage.local` at each change. `index.ts:405-447` starts them one after
the other: side panel, interaction, chains, vault, chains UI, chain updates, key
ring, permissions, tokens, transactions, phishing list, automatic lock, Secret
Network, token scan, histories (431), settings, then the unlocking by the
session password, the handlers that follow it, and the executor (441). Messages
are answered only after that.

What makes the services hard to get right is the same everywhere:

* **Awaits.** Code between two awaits runs alone; at an await any other message,
  timer, listener or autorun may run. What a method read before the await may be
  stale after it. There are no locks.
* **The end of the worker.** The browser ends an idle worker at any time and
  starts it again for the next message. Writes that were issued arrive,
  continuations, timers and memory are lost, `storage.session` stays. When the
  browser itself ends, the session is lost too.
* **The user interface.** A request of a web page waits for a user who may
  answer, close the popup, close the side panel, close the page, or switch the
  kind of interface, in any order. Nothing reports these reliably, so the
  background pings.
* **Other machines.** A provider of swaps or a node reports what it likes, late,
  out of order, or not at all.

### How the components interact

```
web page --message--> router --> permissionInteractive --> interaction --> UI
                                   |                          ^  |         |
                                   v                          |  +--ping---+
                              keyring <----- unlock ----------+
                                |  \ selection, creation, deletion
                                v
                              vault ---- storage.local, storage.session
                                ^
                              autoLock

UI --recordAndExecuteTxs/resumeTx--> txExecutor --sign--> keyring-cosmos/-ethereum
                                       |   ^  \--broadcast, trace--> tx, tx-ethereum
                 recordTxWithSwapV2,   |   | tx-executable, remove (event bus)
                 set/clear/show ...    v   |
                                  recentSendHistory <--- provider of the swap
chains --removed chain--> recentSendHistory, chainsUI, permission, tokens, tokenScan
```

Five relations carry more than a call and its answer, and are what the models are
about: key rings over the vault and the storage; requests over the UI that is to
answer them; the executor with the histories over the event bus; the services that
keep something per chain over the chains that come and go; and the requests of a page
over permissions, chains and the lock.

## Components

What each keeps, does, finds hard and must guarantee. *Status* says whether it is
modelled: yes, in part, or planned.

| Component | State | Operations | Hard | Correct when | Status |
| --- | --- | --- | --- | --- | --- |
| Vault `vault/service.ts` | signed up, vault password and AES counter in memory, vault map; three credentials and the map in storage; password and counter in the session | signUp, unlock, lock, checkUserPassword, changeUserPassword, addVault, removeVault, clearAll, init, unlockWithSessionPasswordIfPossible | every method awaits derivations and writes; two unawaited session removals | locked after a lock; every vault decryptable; signed up means some password unlocks; no vault lost | in part |
| Key rings `keyring/service.ts` | selected vault id, migration flags | create x4, select, unlock, lock, delete, migrate | deletion checks the password twice; map and selection are written apart | selection survives; deleting all signs out | in part |
| Automatic lock `auto-lock-account` | duration, lock on sleep, timer | start and stop of the timer, changes of the settings, device locked | the timer dies with the worker, the session password does not | a timer runs as long as the setting and the unlocked wallet ask for it | yes |
| Interaction requests `interaction/service.ts` | maps of waiting data, resolvers, listeners of the end, shown ids; ping loops | waitApprove(V2), approve(V2), reject(V2), ping loops, page, popup and panel closing | five parties end a request; data read before a ping | one answer, heard by its asker and by the UI at the right moment; nobody waits on a UI that is gone | yes |
| Popups and panels `src/apps/extension/src/background/background.ts`, `router-extension` | open popup, panels | open, close, toggle | reported by listeners, or not at all | (part of the above) | in part |
| UI interaction store | data it shows | fetch, approve, reject, close | acts on a copy | (part of the above) | in part |
| Executor `tx-executor/service.ts` | executions, sequence, blocked ones in storage | recordAndExecuteTxs, resumeTx, executeTxs, events, clean-up | awaits signature, broadcast and trace; resumed from copies; forgotten with the worker | each transaction once and in order; resumable when blocked | yes |
| Swap histories `recent-send-history/service.ts` (SwapV2) | map, sequence, trackers | record, track, publish, hide, remove, clear, set links | trackers poll a provider; two-way links with the executor | executor knows every chain the asset reached; links agree | in part |
| IBC and Skip histories (same file) | maps, sequences, trackers over websockets | record, track hop by hop, timeout, rewind | three queries race subscriptions per hop | what a history shows of a packet has happened; nothing it waits for is missed | in part |
| Event bus `src/packages/common/src/async/event-bus.ts` | buffer, handlers, queue | publish, subscribe, flush | events before the subscription | each event once, in order | in part (as a queue) |
| Retry `src/packages/common/src/retry` | attempts | run, wait, give up | a promise that never settles | gives up only after the bound | in part |
| Permissions `permission/service.ts` | grants per chain, type and origin; current chain per origin and family | check or grant, grant, remove, clear, current chain | granted after a wait for the user; chains vanish | nothing is granted unasked; current chain is known and permitted | in part |
| Checks of provider messages `permission-interactive` | time of the last register page | ensureEnabled x4, ensureKeyRingNotEmpty | unlock, then grant, each a request; both may be stale at the end | a message proceeds only with what it acts on granted | in part |
| Chains `chains/service.ts` | embedded, suggested, updated, repository infos, endpoints | suggest, remove, update, set endpoint, clear, migration | fetches while a chain is removed and suggested again | infos only of known chains; removal reaches every service | in part |
| Enabled chains `chains-ui` | enabled identifiers per vault | toggle, enable, disable, removals | an empty list stands for the first chain | only known chains enabled; what is hidden on a chain goes when it is turned off | yes |
| Chain updates `chains-update` | last update times, windows, date of the first | two loops, update, window listeners | date kept while the worker lives | at most one update of a chain in its interval | in part |
| Token scan `token-scan` | results per vault | scan, scanAll, dismiss, removals | fetches outlive the vault and the chain | no chain is turned on for what is gone | in part |
| Rate limiter `keyring-bitcoin/rate-limiter.ts` | queue, window of times | execute, process, time out | a request found by its millisecond | at most N in a window; each settles once | planned |
| Phishing list `phishing-list` | lists, temporary allowances, timer | start, stop, fetch, allow | fetches overlap, timer of the last only | one chain of fetches; none after stop | planned |
| Cosmos tracing `tx`, `src/packages/cosmos/src/tx-tracer` | websocket, subscriptions, pending queries | send, trace | query races subscription, polling and reconnection | an event is reported once | in part (in the packet trackers); confirmed or failed in the executor |
| Ethereum transactions `tx-ethereum` | none | send, receipt | a receipt that never comes | as above | confirmed or failed in the executor |
| Tokens `token-cw20`, `token-erc20`, `manage-view-asset-token` | maps per chain and vault | set, remove, hide, removals | as enabled chains | nothing kept for what is gone | the hidden coins |
| Kinds of key rings, signing per chain family | none of their own | derive, sign | only the request in front of them | pure over a vault | no |
| Side panel, settings, analytics | a value each | get, set | none but the panel's toggle | stored value is the shown one | the toggle |
| Secret Network | caches of seeds | encrypt, decrypt | two seeds drawn at once | same seed for the same key | no |
| Start-up `index.ts` | none | the order of the inits | what runs before what | no message before the end; see the bus | in part |
| Key-value storage | entries | get, set | order and fate of writes | (environment) | in part |
| Routers, providers | ports | send, receive | transport | (environment) | no |
| Stores, hooks, UI | caches | queries, views | views | (environment) | no |
| Amounts, types, crypto, assets, generated code | none | pure | none | unit tests | no |

## Modules

| Module | Models |
| --- | --- |
| `VaultService` | storage with issued and settled writes, cryptography as equality of keys, the methods of the vault |
| `KeyRingService` | extends it with key rings, automatic locking, the ends of worker and browser; `Init`, `Next`, `Spec`, properties |
| `KeyRingProofs` | locked stays locked, type correctness, the selection is kept, for calls that run together |
| `Wallet` | what the user relies on: who opens the wallet, changes its password, deletes or signs out, and what an end of the program leaves |
| `KeyRingSerialProofs` | four safety properties for one call at a time, and that it implements `Wallet` |
| `InteractionService` | requests, both ping loops, the UI around them; `Spec` with fairness, properties |
| `InteractionProofs` | type correctness, three safety properties, and that it implements `ApprovalRequests` |
| `ApprovalRequests` | what a request is to the services that ask and to the UI: pending, answered once, over |
| `KnownChains` | what the chains service is to the other services: a chain is unknown, or known with an id that may be renewed |
| `ChainsService` | the chains service and its updates in flight; shown to implement `KnownChains` |
| `ChainsProofs` | type correctness, updates of known chains only, and that implementation |
| `ChainsUIService` | extends `KnownChains` with the enabled chains and the hidden coins of each key ring |
| `TokenScan` | extends it with scans in flight, removed chains and key rings, the retired chain; `Spec`, properties |
| `TokenScanProofs` | type correctness; nothing is kept for key rings that are gone, only known chains are enabled, what goes off takes its hidden coins along |
| `PermissionService` | extends `KnownChains` with grants and current chains of each origin |
| `AutoLock` | the timer that locks the wallet, its setting, the end of the worker |
| `PermissionInteractive` | extends both with the requests of pages; `Spec`, properties |
| `PermissionProofs` | type correctness and five safety properties |
| `SwapV2History` | histories, trackers, the event bus, removals, chains |
| `PacketForwarding` | the history of an IBC transfer or swap, its packet on the chains, the trackers and their retries; `Spec` with fairness, properties |
| `PacketProofs` | type correctness and four safety properties |
| `TxExecutor` | extends the swap histories with the executor, start-up and end of the worker; `Spec`, properties |
| `TxExecutorProofs` | type correctness, no transaction twice and in order, no wake-up lost, the links between executions and histories |
| `MCKeyRing`, `MCInteraction`, `MCTxExecutor`, `MCChains`, `MCTokenScan`, `MCAccess`, `MCPackets` | symmetry, kinds of requests, plans of swaps, default chains for TLC |

A module that composes others extends them, since the composed services call each
other within one segment: deleting the last key ring starts `clearAll`, a confirmed
trace records a history, the removal of a chain runs the handlers of the services that
follow it. A definition that ends in `_Something` and is marked
*Mutant* is a plausible bug of the definition that follows it; no module uses it.
Each property has one that breaks it.

## Correspondence

### Vault and key rings

An action is a *segment*: the code of a method from one await to the next. `call[c]`
is a call in flight: its method (`op`), where it waits (`pc`) and what it read
before the wait (`user`, `newUser`, `id`, `key`, `cred`). Reads of several storage
keys at the start of a method are one read. Everything that is not a `call` step
may run between two segments: `Lock`, `SelectKeyRing`, a storage write arriving,
the end of the worker.

| Code | Model |
| --- | --- |
| `_isSignedUp`, `password`, `aesCounter`, `vaultMap` | `signedUp`, `password` (0 is locked), `aesCounter`, `vaults` |
| `kvStore.set` and its promise | `writes`: issued; `store`: what a get sees; `disk`: what survives the browser |
| `browser.storage.session` | `session` |
| `lock()` | `Lock`, and `RemoveSessionCounter` for the second, unawaited removal (`removals`) |
| `signUp` | `SignUpFrom`, `SignUpWritesCipher`, `...Mac`, `...Counter`, `SignUpUnlocks` |
| `unlock` | `Unlock`/`UnlockFrom`, `UnlockAccepted` or `UnlockRejected`, `UnlockReturns` |
| `changeUserPassword` | `ChangePassword`, `ChangeEncrypts`, `ChangeWritesCipher`, `ChangeWritesMac`, `ChangeReturns` |
| `checkUserPassword` | `CheckFrom`, `Checked`, `CheckRejected`: always the head of another method |
| `clearAll` | `ClearAllErases`, `ClearAllErased`, `ClearAllReturns` |
| `create*KeyRing` | `Create`, (sign-up and unlock), `CreateAdds` or `CreateRejected` |
| `selectKeyRing`, `deleteKeyRing` | `SelectKeyRing`; `DeleteKeyRing`, `DeleteRemoves` or `DeleteRejected` |
| autoruns of both `init`s | the un-awaited writes issued by the action that changes the map or the selection |
| `init`, `unlockWithSessionPasswordIfPossible` | `StartOver`, `Restart` |
| the wallet as its user sees it | `Wallet`, by the mapping below |

Keys are numbers in the order they are drawn; decrypting with the wrong key gives
`Garbage`. The mac covers the user password and the cipher, so it is represented by
the cipher it was made with, and matches if that is the stored one and the password
is the one of it. `Kill` ends the worker: writes already issued arrive, the session
stays. `Exit` ends the browser: writes on the way and the session are lost.
`TearCredentials` says whether an end may come between the writes of new credentials, by
a sign-up or a change of the password; the disagreement that shows has a run of its own,
and the other runs look at what holds apart from it. An end while `clearAll` is erasing
credentials comes in every run. `sealed` is a history variable: no password has
been accepted since the last lock.

`Promise == INSTANCE Wallet` maps a call to the step of its request that is still to be
done, with the passwords and the key ring it names (`asked`); the password of the stored
mac, while the wallet is signed up, to `opener`; a key in memory to `open`; the ids in the
vault map to `keyRings`; and the ids in the vault maps that are on the disk, in the
storage or on their way to it to `stored`. The password of a `clearAll` whose erasures have
not arrived is `leaving`: an end of the browser may undo such a sign-out, an end of the
worker may leave the wallet open, and after it has settled (`Settles`) neither may. Keys, counters, the credentials a call has read,
the session and the order of the writes are hidden. The abstract step of a method is
done in one of its segments: an unlock in `UnlockAccepted`, a sign-up in `SignUpUnlocks`,
a change of password in `ChangeWritesMac`, a sign-out in `ClearAllErases`, a creation
in `CreateAdds`, a deletion in `DeleteRemoves`. `KeepsWallet` is its specification.

### Interaction requests

Nothing of this service is stored, so the model has no restart: the end of the
worker is `Init`. The variables are the service's maps (`waiting`, `resolver`,
`resolverV2`, `uiOpened`), the two ping loops (`loop[l]` for all windows, `idLoop[id]`
for one interaction), the requests (`request[id].pc`), the UI's messages that wait
for their answer (`caller`), and the world outside: `panels`, `popup`, `sidePanel`.

| Code | Model |
| --- | --- |
| `waitApprove`, `waitApproveV2` up to the id of the window | `Ask` |
| `addDataToMap`, `wait` | `AddData`, which starts the loops for the first entry (`StartLoops`) |
| `approve`, `reject`, `approveV2`, `rejectV2` | `Answer`, `AnswerV2`; the shared part is `Settle` |
| the code after `await this.wait(...)`, `returnFn`, `finally` | `Return` |
| `startCheckPingOnUIWithWindowId` | `LoopWakes`, then one `LoopAnswered` or `LoopUnanswered` per window; `Onward` is the head of its `for` and `while` |
| `startCheckPingOnUI` | `IdLoopAnswered`, `IdLoopUnanswered` |
| listener of closing tabs | `PageCloses` |
| `setIsEnabled` of the side panel and its listener | `ToggleSidePanel` |
| listener of the popup's closing | `PopupCloses` |

The window loop reads the data of a window *before* the ping and acts on it after,
which `loop[l].data` keeps; the loop of one interaction reads it after, so a turn is
one step. Panels, popups, pages and the user move whenever they like. `shown` is a
history variable: requests a UI of theirs was open for while they waited.

`Promise == INSTANCE ApprovalRequests` maps `request[id].pc` to the phase of a request
and a message of the UI that waits for the end of a request to `awaits`; `KeepsPromise`
is its specification. The other modules take an interaction as what it says: pending
until it is approved or rejected, once, at a time nobody chooses.

### Executor and histories

`execs[id]` is the object an execution is, `recent` the keys of the map: a removal
deletes the key while a running loop keeps the object, so both are needed. `loop[id]`
says where the running `executeTxs` awaits: signing, broadcasting or tracing.
`hists`, `hseq` and `tracker[h]` are the histories and where their tracking waits,
`bus` the published events, `known` the chains of the chains service.

| Code | Model |
| --- | --- |
| `recordAndExecuteTxs` | `RecordAndExecuteTxs`, `NewExecution` |
| `resumeTx` | `ResumeTx`: the page names a transaction by its own copy |
| `executeTxs` to its next await | `Proceeds`: `Completes`, `Blocks` or goes on |
| `executePendingTx` | `SignSucceeds`, `BroadcastSucceeds`, `TraceConfirms`, `TxFails` |
| `recordHistoryIfNeeded` | `NeedsHistory`, `WithHistory`, `Recorded` |
| `handleTxExecutionEvent` and the removal event | `HandleEvent` |
| `init`, `cleanupOldExecutions`, the end of the worker | `Subscribe`, `Kill` |
| `trackSwapV2Recursive` | `FirstTxSucceeds`, `FirstTxFails`, `Poll`, `PollFails`, `TrackerStops` |
| `processSwapV2StatusResponse` | `StatusWithoutSteps`, `StatusInProgress`, `StatusUnknownTooLong`, `StatusRetried`, `StatusWithAsset`, `StatusWithoutAsset` |
| `trackSwapV2ReleasedAssetAmount`, `trackSwapV2AdditionalRecursive` | `AssetTracked`, `ExtraTracked` |
| removing, hiding, clearing, a removed chain | `RemoveHistory`, `HideHistory`, `ClearAllHistories`, `ChainRemoved` |

A segment of `executeTxs` calls the histories several times; these calls are
operators on a record `[hists, hseq, tracker]` that the action composes and assigns
once. A provider answers anything: each status action takes its result from all the
values the response may have. Executions and histories are stored by autoruns at
each change and a write that was issued arrives, so the storage is the memory, with
one exception the code makes: only blocked executions are written (`Kill` forgets
the others). Trackers start again before the executor subscribes to the bus
(`subscribed`). `sent` counts broadcasts; `missed` names executions whose event was
lost by an end of the worker in that window.

### Chains, enabled chains and scans

A *chain* is a chain identifier, the part of a chain id that an upgrade of the network
leaves alone (`ChainIdHelper.parse`). `suggested`, `repo` and `updated` are the three maps
of the chains service, a chain info being reduced to the version of its id; `update[u]`
is an update in flight with what it read before its fetch (`seen`); `recent` are the
chains within the throttle. To the services that follow, a chain is `chains[c]`: unknown,
or the version it was added with and the one it has now (`KnownChains`).

| Code | Model |
| --- | --- |
| `mergeChainInfosWithDynamics`, `getChainInfoOrThrow` | `IdOver`, `ChainId` |
| `suggestChainInfo`, `addSuggestedChainInfo` | `Suggest` |
| `removeSuggestedChainInfo`, `clearAllSuggestedChainInfos`, `onChainRemoved` | `Remove`, `ClearAll` |
| `updateChainInfo` up to its first fetch | `StartUpdate`, `UpdateChainInfo` (also called by `Suggest` and `Remove`, as its handlers) |
| `tryUpdateChainInfoFromRepo` | `RepoAnswers`, `RepoFails` |
| `tryUpdateChainInfoFromRpcOrRest` | `AskNode`, `StatusAnswers`, `FeaturesFound`, `UpdateEnds` |
| `enabledChainIdentifiersForVault` | `View`: a list without a known chain stands for the first chain |
| `enableChain`, `disableChain`, `toggleChain` | `Enable`, `Disable`, `Toggle` of one or two chains |
| `disableViewAssetToken`, `enableViewAssetToken`, the handler of turned off chains | `DisableViewAssetToken`, `EnableViewAssetToken`, inside `Store` |
| handlers of removed chains and key rings | `ForgetChains`, `ForgetVault`, inside `RemoveChains`, `RemoveKeyRing` |
| the handler of a suggestion in `token-scan` | `Suggest` of `TokenScan`, `ScanAfterSuggestion`, one `ScanBegins` and `ScanFinds` per key ring, `TurnOnFound` |
| `scanAll` | `ScanAll`, `AllScanned` |
| the migration in `ChainsService.init` | `Restart` when not `migrated` |

`Upgrading` says whether the wallet was set up before the chain was retired: the run
that shows what then happens has it, the other has not.

### Permissions, requests of pages and the lock

`permitted` is the permission map for chains, `globals` the one for what concerns no
chain, `current[o][k]` the stored current chain of an origin for each kind of provider
(EVM, Starknet, Bitcoin). `request[r]` is a message of a page in flight: where it
waits (`at`), what it asks for (`what`), the chains it named (`chains`) and those the
user was asked for (`asked`).

| Code | Model |
| --- | --- |
| `hasPermission`, `getCurrentChainIdFor...` | `HasPermission`; `Current`, and `ReadCurrent` since reading forgets what is not permitted |
| `addPermission`, `setCurrentChainIdFor...` | `AddsPermissions`, `AddsCurrent` |
| `removePermission`, `removeAllTypePermission(ToChainId)`, `removeAllTypeGlobalPermission`, `clearAllPermissions`, `removeAllPermissions` | `RemovePermission`, `RemoveOrigin`, `RemoveFromChains`, `RemoveGlobals`, `ClearAllPermissions`, `ForgetChain` |
| `ensureUnlockInteractive` | `Ask`, `AnswerUnlock` |
| `ensureEnabled`, `checkOrGrantBasicAccessPermission` | `CheckEnable`, `ApproveEnable` |
| `ensureEnabledForEVM`, `-Starknet`, `-Bitcoin` | `CheckKind`, `ApproveKind` |
| `wallet_switchEthereumChain`, `updateCurrentChainIdFor...` | `Switch`, `ApproveSwitch` after the above |
| `checkOrGrantGetAllKeyRingInfosPermission`, `checkOrGrantGlobalPermission` | `CheckGlobal`, `ApproveGlobal`, and `Reject` for the first, which gives the lesser name |
| the handler of a suggested chain | `ApproveSuggest`, `AddSuggested`, `PermitSuggested` |
| `startAppStateCheckTimer`, its timer, `setDuration`, `onDeviceLocked` | `StartAppStateCheckTimer`, `TimerFires`, `SetDuration`, `DeviceLocked` |

What follows the answer of the user up to the next await is one step with it: the
grant and the second check of `ensureEnabled`. A request that is `at` "run" is carried
out: its handler does what it was asked for. Permissions are stored by autoruns, so the
end of the worker takes the requests and the timer, and nothing else.

### IBC packets

One history (`h`) and the packet it is about. The chains are external: the transaction
(`tx`), where the packet is on its route (`pkt`), and which hops were refunded by an
acknowledgement (`refunded`). Of the history, `seq` are the hops whose packet sequence is
known, `completed`, `error`, `rewound` and `blocked` the hops with `completed`, `error`,
`rewound` and `rewoundButNextRewindingBlocked`, `timeout` the `packetTimeout` of the
history, and `res` counts the entries of `resAmount`. `tracker[t]` is a call of
`trackIBCPacketForwardingRecursiveInternal` under its `retry`: the event it is `on`;
whether it is "watching" its socket, "closing" (the 500 ms after a close), "waiting" for
its next try or "over"; the `tries`; and whether the event was seen and is in the
100 ms before its handler (`got`).

| Code | Model |
| --- | --- |
| the branches of `trackIBCPacketForwardingRecursiveInternal` | `Awaited`, with `NextHop` and `RewindTarget`; `Following` starts the tracker of that branch |
| `traceTx`, `queryTx` and their subscriptions, the promise they resolve | `Arrive` |
| the handler of the transaction | `AfterTx` |
| the handler of a hop: acknowledged with an error, timed out, last, next | `AfterHop`: `Refused`, `TimedOut`, `AllCompleted`, `Continued` |
| the handler of a refund | `AfterRefund` |
| `onFulfill`, `onError`, `onClose` | `Handle`, `Error`, `Close` and `RejectClosed` |
| `retry` | `Reject`, `TryAgain` |
| `removeRecentIBCHistory`, a removed chain | `RemoveHistory` |
| `initRecentIBCHistory`, the end of the worker | `Restart` |

A handler runs to its end in one segment: it writes the history and starts the next
tracker, whether or not its own tracker was rejected meanwhile. An autorun stores the
history at each change, so `Restart` keeps it. `late` and `gaveUp` are history variables: a
socket failed while its event was on the way to the handler; a tracker has used up
its tries.

## Runs

Every run finishes its state space. Sizes are distinct states, rounded.

| Run | Question | Properties | States |
| --- | --- | --- | --- |
| `MCKeyRingSerial` | One call at a time; locks anywhere; worker and browser end anywhere, also within `clearAll`, but between the writes of new credentials | `TypeOK`, `VaultsDecryptable`, `SignedUpIsUnlockable`, `SignedOutCanSignUp`, `KeyRingsKept`, `KeepsWallet` | 150,000 |
| `MCKeyRingConcurrent` | Two calls in flight, locks and ends of the worker | `LockHolds`, `SelectionKept` | 970,000 |
| `MCKeyRingTorn` | The worker ends between two writes of credentials | `SignedUpIsUnlockable` fails | |
| `MCInteraction` | Requests of a page and of the extension, of both versions, in a window and in an unknown one; under fairness, is every answer returned and every closed UI noticed? | `TypeOK`, `PendingIsAnswerable`, `PanelIsWatched`, `UIHearsTheEnd`, `KeepsPromise`, `AnswerReturns`, `ClosedUIRejects` | 120,000 |
| `MCInteractionLate` | Is a UI that opens late awaited? | `LateUIIsAwaited` fails | |
| `MCTxExecutor` | Plans of every kind, a provider that says anything, removals, ends of the worker | `TypeOK`, `SentOnce`, `TxsInOrder`, `NoLostWakeup`, `BlockedIsFound`, `CompletedIsCleared` | 420,000 |
| `MCTxExecutorCrash` | Is an execution that does not sign by itself kept? | `PreventedIsKept` fails | |
| `MCChains` | Two updates in flight over removals and suggestions of the same chain, the throttle, restarts | `TypeOK`, `UpdatesOfKnownChains`, `KeepsKnown` | 175,000 |
| `MCTokenScan` | A scan in flight while its chain is removed, renewed and comes back, its key ring is deleted, and chains are turned on and off | `TypeOK`, `EnabledIsKnown`, `KeptForLiveVaults`, `TurnedOffForgetsHidden` | 50,000 |
| `MCTokenScanRetired` | The first start after the wallet has taken out a suggested chain | `EnabledIsKnown` fails | |
| `MCAccess` | Two requests of a page while permissions are revoked, chains removed and suggested again, the wallet locks and the worker ends | `TypeOK`, `PermittedIsKnown`, `EVMCurrentIsPermitted`, `RunsPermitted`, `TimerKept` | 870,000 |
| `MCPackets` | A swap over three channels whose packet is received, refused or times out anywhere, over sockets that close and fail, retries, a restart, a removal | `TypeOK`, `ShownIsTrue`, `NotifiedIsDelivered`, `StillFollowed`, `CountedOnce`, `DeliveryIsShown`, `RefundIsShown` | 120,000 |

### Bounds

*Key rings.* `MaxKeys` (sign-ups) 2: a wallet is signed up, erased and signed up
again, so keys of two sign-ups can be confused. `MaxVaults` 3 serially: a deletion at
the head, of the selected one and of the last; 2 when concurrent. Two user passwords
suffice to be right or wrong and to change. `MaxRemovals` 1 outstanding removal of
`lock`, `MaxWrites` 1 outstanding write when the user selects: longer queues only
repeat selections. `MaxSignUps` 1: one sign-up at a time. `Calls` is
one slot in the serial run because `KeyRingsKept` and the properties about a quiet
wallet are claimed of calls made one after the other; what two windows at once do to
them is told [below](#findings). The properties that survive concurrency are checked with
two slots. Passwords and call slots are symmetric:
nothing compares them but by equality.

*Interaction.* Two requests, so that one arrives while another is watched, answered
or has just been rejected; one message of the UI in flight; a window, and a request that
has none; one window loop: `AddData` waits for a loop that has not yet noticed that the
map was empty. Kinds: a second-version request of a web page in the window and a
first-version one of the extension without a window. There is no symmetry, as liveness
requires; a second window, with the fairness, makes the run too long. The
proofs cover any number of windows, loops and requests for the safety properties.

*Executor.* One execution of each kind of plan: an approval the page has already
sent, a swap and a swap at the far end; two transactions on one chain, signed as they
come; the same with a hardware wallet; two transactions without a history. Two
chains, a history, one retry of a final status, two ends of the worker: one inside
the start-up that follows another. Executions share the sequence of histories, the
bus and the known chains; a second execution or a third chain makes the run many times
longer. The proofs below cover any number of them for `SentOnce` and `TxsInOrder`, not
for the other properties. Deadlock is not checked: when
everything is over and the ends of the worker are used up, the system may stop.

*Chains.* An embedded chain and a suggested one, for only the second is removed; three
versions, so that the repository, the node and a suggestion can each say their own; two
updates, so that one outlives the removal and meets the other of the chain's next life.

*Scans.* A chain that stands in and one that comes and goes, two versions of the latter's
id so that a result may be for another one, a key ring (two in the run of the retired
chain) and a scan. A second key ring or a second scan adds orders of independent
entries; the theorems hold for any number.

*Access.* Two requests of one origin, since permissions of different origins meet only
where a chain is removed for all; an embedded chain, the default of both kinds, and one
that is suggested and removed; two kinds, as EVM is treated unlike the others.
`PlainTypes` is empty: `infos` passes the same steps. Versions play no part (0).

*Packets.* Three channels, and a swap on the chain after the first: a refund from the
last channel goes back over one channel and stops at the swap, one from the first
goes back to the sender. Two trackers, as at most one event is handled late (`late`), and
its handler starts a second. `MaxRetries` 1 (10 in the code): a first try, a second and
giving up. One restart. Deadlock is not checked: a packet that has arrived leaves nothing
to do. The proofs cover any route, numbers of trackers, tries and restarts.

### Fairness

`MCInteraction`: weak fairness of `AddData` (the id of a window is answered), `Return` (a
`returnFn` comes to an end), and the steps of both loops (a timer fires, and the
promise of a ping settles: a panel answers, or the browser rejects the message, since
nobody listens or the port has closed; the code sets no time of its own around
`interaction/service.ts:362`). The user, panels, popups and
pages owe nothing. `ClosedUIRejects` therefore allows for a UI that comes back.

`MCPackets`: weak fairness of `Progress(t)`: timers fire, handlers run, and an event that
has happened is found by the query that `TxTracer` repeats every ten seconds while its
socket is open. The chains owe nothing, and a socket may fail as often as there are tries:
both liveness properties end in `gaveUp` when these are used up.

### Deep ends of the properties

* `LockHolds` ranges over the second removal of `lock`, which nobody awaits, and over
  a worker that starts between the two.
* `VaultsDecryptable` relates every stored vault to keys that were derived, stored,
  re-encrypted by password changes and restored from the session.
* `KeepsWallet` relates what was checked before a wait to the step taken after it: a call
  that checked a password, and goes on after a lock, must not delete or sign out.
* `SignedOutCanSignUp` relates four entries of storage, two of the session and the memory
  over ends that come between any two of the writes of `clearAll`: which of them leave a
  wallet that refuses a sign-up, and until when.
* `SelectionKept` relates a getter with a stand-in, two entries of storage written by
  two autoruns, and a deletion.
* `UIHearsTheEnd` and `AnswerReturns` bound the return of `approveV2` from both
  sides: not before the request is over, and not never.
* `NoLostWakeup` relates what a history has seen, what an execution has been told and
  what is on the way between them.
* `BlockedIsFound` and `CompletedIsCleared` are the two directions of a link that is
  stored in two maps.
* `KeepsPromise` covers answers that come twice, late, or for a request that was rejected
  by a ping, and the lists of messages that are released together.
* `UpdatesOfKnownChains` and `KeepsKnown` relate a fetch that began in one life of a chain
  to what a later life starts from.
* `EnabledIsKnown` and `TurnedOffForgetsHidden` reach through the stand-in of an empty
  list, which is turned off without ever having been stored.
* `RunsPermitted` relates the moment a request goes on to grants, revocations, switches
  and removals made while it waited, once for the unlocking, once or twice for a grant.
* `EVMCurrentIsPermitted` relates two stored maps over six ways to lose a permission.
* `TimerKept` relates the timer to messages of pages, settings and locks.
* `NotifiedIsDelivered` depends on the code behind a refused hop running on: it has to stop
  at the failure it has just written, in the same handler.
* `StillFollowed` relates each of the ways a tracker ends to what the history waits for then,
  over handlers that run after their tracker was rejected.
* `CountedOnce` is a race of 100 ms against 500: a close rejects only when the event on
  the way has been handled.
* `DeliveryIsShown` and `RefundIsShown` have every hop of a route tracked in turn, forth and
  back, through retries and restarts.

## Findings

Four runs reach a state that the code, a comment or a test rules out. Each checks
that one property; its trace is the scenario.

* **Torn credentials** (`vault/service.ts:375`). Cipher, mac and counter of the
  password are three awaited writes. A worker that ends after the mac and before the
  counter, or between cipher and mac of a changed password, leaves a wallet that
  reports `isSignedUp` and that no password opens. `vault/service.spec.ts:51` expects
  a restored service that is signed up to unlock.
* **UI that opens late** (`interaction/service.ts:376`). The comment at 297-299 wants a
  request rejected only if a ping of its UI has succeeded. The state of a window's pings
  outlives its panel, so a request that comes after the panel was closed, while
  another keeps the loop alive, is rejected at the next ping.
* **Forgotten execution** (`tx-executor/service.ts:118`). `types.ts:155` says an execution
  with `preventAutoSign` is persisted. Only blocked ones are: one that is being traced
  when the worker ends is forgotten, and its history goes on naming it. The branch of
  `cleanupOldExecutions` for stored executions in progress (1063) is never reached.
* **Retired chain** (`chains/service.ts:301`). The migration that takes out
  `eip155:1776` runs in the `init` of the chains service, before the services that follow
  removed chains have registered their handlers (`chains-ui/service.ts:65`, started later
  by `index.ts:408-410`). The comment at 289-290 expects the removal to clean up enabled
  chains, tokens and permissions; the chain stays in the stored list of enabled chains,
  and comes back enabled if it is suggested again.

Further states the models reach, or the code does outside their bounds, with no run of
their own:

* **Signed up with nothing** (`keyring/service.ts:1149`). `deleteKeyRing` removes the
  last vault and then calls `clearAll`, which awaits a second password check. A lock
  during it makes the check throw, and the wallet stays signed up without a key ring;
  the comment above says it signs out.
* **Erasure cut short** (`vault/service.ts:430-438`). `clearAll` erases three credentials
  and then the session password. A worker that ends in between starts again signed out but
  unlocked, by the password it finds in the session (594-621): `signUp` throws ("Vault is
  already unlocked", 97) until the next lock. A browser that ends with the cipher erased and
  the counter not comes back with a counter alone: it is not signed up, and `signUp`
  throws (109-115) for ever. `vault/service.spec.ts:448-453` expects a wallet to sign
  up again after `clearAll`. Both ends are steps of `MCKeyRingSerial`;
  `SignedOutCanSignUp` excepts just these two and says that nothing else makes a wallet
  refuse, and that only the browser's leaves one that refuses while it is locked.
* **Erased key ring** (`vault/service.ts:419`). The same wait, with a key ring created
  during it: `clearAll` replaces the whole map.
* **Two sign-ups** (`vault/service.ts:109`). The check that refuses a second sign-up
  precedes the derivation and the writes.
* **Closing page** (`interaction/service.ts:450`). Requests that came after the first
  successful ping of their window are not marked as shown, so they are rejected when
  their page closes although the open panel shows them; the comment at 445-446 leaves
  these to the UI.
* **Lost timer** (`auto-lock-account/service.ts:81`). A worker that ends takes the timer
  along, and one that starts unlocks itself from the session: the wallet stays unlocked
  until a page of the extension has been opened and closed again.
* **Forgotten only for EVM** (`permission/service.ts:563`). `removePermission` leaves the
  current chains of Starknet and Bitcoin, which come back with the next grant.
* **Doubled trackers** (`recent-send-history/service.ts:699-704`). The error of a socket
  rejects its tracker at once, while an event is 100 ms away from its handler. The handler
  starts the next tracker, and the retry another; of a swap, `resAmount` gets an entry
  twice. A hop has two sockets, and the closing of the second while it still connects is
  an error too. `late` marks these states, which `CountedOnce` excepts.
* **Timeout that sticks** (`recent-send-history/service.ts:3094`). `packetTimeout`
  is of the history, not of the hop: once a hop has timed out, the hops before it wait for
  timeouts of their own packets, though they are refunded by acknowledgement.
  They are never shown as rewound; `RefundIsShown` excepts routes with an expired hop.
* **Notified after the removal.** Trackers keep the object of their history: one that was
  removed may still notify its success.

## Proofs

All theorems are checked by TLAPS with no assumption but those the modules state of
their constants.

| Theorem | For | Argument |
| --- | --- | --- |
| `LockedStaysLocked` (`KeyRingProofs`): `Spec => []LockHolds` | any number of calls, passwords, vaults, sign-ups, removals and ends, torn or not | `SessionSealed` |
| `TypeCorrect`, `SelectionIsKept` (`KeyRingProofs`) | the same | `TypeInv`; with it `SelectionInv` |
| `UnlockedDecryptsAll`, `KeyRingsAreKept` (`KeyRingSerialProofs`) | one call at a time; any passwords, vaults, sign-ups, removals and ends, torn or not | `IInv`: those two and `SerialInv` |
| `RestingUnlocks`, `RestingSignsUp` (`KeyRingSerialProofs`) | the same, but no end between the writes of new credentials; ends within `clearAll` | `IInv` and `RestInv` |
| `Implements` (`KeyRingSerialProofs`): `Spec => KeepsWallet` | the same | the two, `AskedInv` and `LeavingInv`, step by step |
| `TypeCorrect`, `Answerable`, `Watched`, `HearsTheEnd` (`InteractionProofs`) | any requests, kinds, windows, messages and loops | `IInv` |
| `NoDoubleSpend`, `InOrder` (`TxExecutorProofs`) | any executions, plans, chains, histories, ends of the worker | `IInv` |
| `TypeCorrect`, `HearsOfChains`, `BlockedAreFound`, `CompletedAreCleared` (`TxExecutorProofs`) | the same; finitely many plans | `LInv`: `IInv`, `Typed` and `Links` |
| `Implements` (`InteractionProofs`): `Spec => KeepsPromise` | as for `InteractionProofs` | `IInv` of the interaction and `AwaitsListed` |
| `TypeCorrect`, `OnlyKnownUpdated`, `Implements` (`ChainsProofs`) | any chains, versions and updates in flight | `TypeOK` and `UpdatesOfKnownChains` |
| `TypeCorrect`, `NothingForGone`, `OnlyKnownEnabled`, `OffForgetsHidden` (`TokenScanProofs`) | any chains, key rings and scans; the last two for a wallet that does not upgrade | `IInv`, with `Types` for the first |
| `TypeCorrect`, `OnlyKnownPermitted`, `CurrentPermitted`, `OnlyEntitledRun`, `OffNeverLocks`, `NotLostTimer` (`PermissionProofs`) | any origins, kinds, chains, requests | `IInv` |
| `TypeCorrect`, `Shown`, `Notified`, `NotLost`, `CountsOnce` (`PacketProofs`) | any route, place of the swap, trackers, tries and restarts | `IInv`; `Once` for the last |

**Locked.** `LockHolds` is not inductive: a worker that starts unlocks itself from the
session. `SessionSealed` adds that a sealed wallet has no password in the session
either, and that outside a service worker the session is empty. `Lock` clears memory
and session entry in one segment; the second removal touches only the counter, so its
delay does not matter; `UnlockAccepted` alone puts a password anywhere, and unseals.

**Types and selection of the key rings.** `TypeOK` is not inductive: a call that goes
on after a wait uses what it read before it. `TypeInv` adds `CallReady`: a call that
derives holds credentials that were there when it read them, and one that signs up or
changes the password holds a password of the user. `SelectionIsKept` is about memory,
storage and disk at once, for a restart reads back what the autoruns wrote:
`SelectionInv` says that a read sees the last write under way, or the disk when there is
none (`Coherent`), that what a read sees of map and selection is what the memory has
(`StoreIsMemory`), and that no map that is stored or on its way has an id twice or one
that was not handed out (`UniqueIds`). Every step issues writes or lets some arrive
(`Moves`), and `MovesStorage` is the one lemma about both. Nothing is assumed of the
calls, so this holds for any that run together.

**One call at a time.** The key under which the wallet encrypts is drawn by a sign-up, and
two sign-ups that run together, or one and a change of the password, mix two keys (see
*Two sign-ups* above): the next five theorems assume `OneCall`. Locks, writes under way
and ends still come between any two steps. `SerialInv` says that every vault, mac and
counter, in memory, in a call, in the storage, on the disk and on its way, is of the
key that was drawn last (`StoredUnderKey`, `HeldUnderKey`); how much of the credentials
is stored at each wait (`StepsOK`, `ErasingOK`, `SignedUpOK`, `MacHasCipher`); which
write a call waits for (`QueueOK`); that a locked wallet starts over locked
(`LockedInSession`); and that no vault is anywhere before a sign-up is complete
(`NoVaultsYet`), or the key of the next sign-up would not open it. A torn write of
credentials keeps all of it, since cipher and mac are both of that key whatever password
they are of. It does not keep that they are of one password: `RestingUnlocks` and
`RestingSignsUp` assume `~TearCredentials`, and the run `MCKeyRingTorn` shows that
the first is false otherwise. Their `WholeInv` says where cipher and mac agree, which is
everywhere but between the two writes of a call. An end within `clearAll` breaks it, so they
keep `RestInv`: `WholeInv` holds, or the wallet is `Cut`, signed out and at rest, with
either a password in memory and no credential left, or no password, no cipher and a counter.
`EraseOrder` is what makes these the only two: the erasures reach the disk in the order
of their issue, so a browser that ends between them leaves the credentials whole as long as
the cipher is there, and no key ring once it is not. `RestingSignsUp` is an action property:
`CutStep` says what a wallet that was cut may become, `EraseKilled` and `EraseExited`
which ends cut it, `WholeStep` that no other step does.

**Wallet.** `Implements` maps every step of `KeyRingService` to one of `Wallet` or to a
stutter, under the hypotheses of the last two theorems. What the mapping needs beyond their
invariants is `AskedInv`: what a call has read before a wait is still so when it goes on
(the credentials it checks are those stored, of a wallet that is signed up; one that writes
credentials finds the stored mac of the password it was given, of the previous one if it
changes it); and `LeavingInv`, that one which waits for its erasures was given the password it
erases. That is where `OneCall` enters: another call could write between the two. `CheckedKnows` then turns
the check of the cipher and the mac, which the code makes with what it read, into
knowing the `opener` of now. `RestIs` and `BecomesIs` say what a request is after a
segment, so that a step is done once. `StoresMap`, a conclusion of the lemmas about
writes of `KeyRingProofs`, gives `Stores`: every vault map in the storage was the one in
memory, and the newest is. A torn write breaks the mapping: after an end between cipher and
mac, `opener` is a password that does not open. Its only fact about the constants is
`AbsentAssumption`: `Null`, the code's `undefined`, is neither a password nor a request.

**Interaction.** `IInv` is five named parts: `TypeOK`; `KindKnown`, a request that was
asked has a kind; `PendingIsAnswerable`; `PanelIsWatched`; and `ListedWaits`, a
message listed in `resolverV2` waits for that very request. The first four
parts are disturbed only by `AddData`, `Settle` and the end of a round of the loop, and
each is a lemma. Requests that a loop read before its ping may be over when it acts:
`Settle` gets by with any set of ids. `Watched` holds because the loop that finds the map
empty ends in the very step that reads it, and `AddData` starts one in the step that fills
the map. `HearsTheEnd` follows from `ListedWaits`: a message is released only by
`Return` of its own request.

**Executor.** `SentOnce` is not inductive: that a transaction was sent once says nothing of
whether it may be sent again. `IInv` adds `LoopOK`, a running loop is at the first
transaction that is not confirmed, of an execution that is being processed; and
`Spent`, a transaction that was broadcast is confirmed, or is the one being traced, or
has failed in an execution that is processing and has no loop (which `resumeTx`
refuses for ever), or its execution is forgotten. `Proceeds`, the loop of `executeTxs`, is
one lemma for its three callers. The end of the worker keeps `Spent` because only
blocked executions survive it, and a blocked one has no loop, hence no trace: this is
where *persist only when blocked*, which the crash run shows to forget executions,
is what saves them from being sent twice. Typing of histories is not needed: the
invariant carries only the shape of the records it updates (`Shapes`).

**Executions and histories.** `NoLostWakeup`, `BlockedIsFound` and `CompletedIsCleared`
relate two maps that two services change and only events connect, and none of them is
inductive by itself. `Links` is four parts. `Names`: a history that names an
execution is the history of just that execution, which has been started and, unless
the worker has forgotten it, has a transaction that is not confirmed. `Owned`: the history of
an execution was recorded, and names no other. `Linked`: an execution that is there and
its history name each other, or the removal is on the bus; a removed chain excepts
it for good. `Hears`: `NoLostWakeup`, of one history. They need each other: the
end of a loop clears the one history that `Names` knows of; a new history is no one else's
because `Owned` bounds the ids; and `Hears` survives a new execution because `Names` says
that no history names an id that was not drawn. The steps of `SwapV2History` are reduced to
two kinds first (`HistoryMoves`): one history `Moves`, and publishes all chains that
are new in it, or histories are `Removes`d, and tell their executions unless a chain
has gone. So are the three entries into the loop of `executeTxs` and its failure:
each is a run (`Runs`, `ProceedsRuns`), after which at most one history is new and at
most one has lost its execution. `RunsKeepLinks`, `HistoryKeepsLinks`,
`EventKeepsLinks` and `KillKeepsLinks` then keep the links; an end of the worker loses
only events of executions that `missed` takes in.
`CompletedAreCleared` excepts executions that the worker has forgotten, as the crash
run shows it must.

The proofs need three facts of the constants: `None` is neither the id of an execution nor of
a history, of which the code's `undefined` is neither; and plans are finitely many, for
`MaxTxs` is the length of the longest. The library's induction cannot be used with these
provers, but induction over sets of numbers can: `NaturalsAreAll` is derived from the
well-foundedness of `<`, and gives the bound of a finite set of plans (`LengthsAreBounded`)
and what a flattened sequence holds (`Flattens`, for the events of
`ClearAllHistories`).

**Requests.** The refinement maps each action of the interaction service to one of
`ApprovalRequests` or to a stutter. `AwaitsListed` is what the mapping needs: a message
that waits for the end of a request is listed in its `resolverV2`, so that the `Return`
which releases the list is the `Finish` which releases all who wait. `SettleMaps` is the
lemma for the seven parties that end requests: those already over are not pending, so the
step is a `Settle` of the others.

**Chains.** `OnlyKnownUpdated` holds because every write looks again after its fetch
(`WriteRepo`, `StatusAnswers`, `FeaturesFound`) and a removal drops both maps. It is what
makes `Implements` true: a chain that is suggested again must start from the id it was
suggested with, and would start from its former update otherwise. `RenewStep` is the
lemma for the three writes, `StutterStep` for the rest.

**Enabled chains and scans.** `NothingForGone` rests on the shape of the entries
(`UIShape`) and on the `Live` check of every message, and of the auto-enabling after its
wait. `OnlyKnownEnabled` assumes `~Upgrading`, which is what the run of the retired chain
shows to be needed; it rests on `EmbeddedStay`, by which the view of any list has known
chains only, also the stand-in.
`OffForgetsHidden` needs it too: a chain of a stored list that becomes known again
would end the stand-in and leave what is hidden on the first chain. Every other step leaves
an entry `Settled`: its list as it was, or nothing hidden but on what is on. `TypeCorrect`
takes `Types` along: tasks, results and lists are of chains and key rings there are.

**Permissions.** `IInv` adds `RegrantsTheSame` to the types and the two safety properties:
what the user is asked for a second time is what the page named, so that the grant
makes the very chain current. `OnlyEntitledRun` is an action property: one lemma per
action shows that the invariant is kept and that a request which starts to run is
entitled (`CheckEnableIsRight` and the like), and `Beside` that no other step starts one.
`CurrentPermitted` is kept by each way of removal for its own reason, `RemovePermission`
and `ForgetChain` among them; it would fail for the kinds other than EVM.

**Packets.** `IInv` adds to the types and `ShownIsTrue` what the chains do and what is on
the way: `InOrder`, a packet is sent on a channel when the one before has received it;
`GotHappened`, what a tracker has seen has happened; and `NotifiedIsReceived`. Since a
refusal or a timeout is final, each conjunct is stable under the chains
(`ChainStepKeeps`), and the handlers are one lemma (`AfterShows`). `NotifiedIsDelivered`
follows with `InOrder`: the last hop received, so did all, and none failed.
`NotLost` needs no strengthening but the types: a handler that runs leaves a tracker for
what is awaited after it, and every other step leaves the history as it is. `CountsOnce` rests
on `OneTracker`: unless a socket has failed late, one tracker is there at a time, so that
what it has seen is not counted yet.

**Only model-checked.** Liveness (`AnswerReturns`, `ClosedUIRejects`, `DeliveryIsShown`,
`RefundIsShown`): it is outside this prover's reach, as is ENABLED. Every other property of
a passing run is a theorem; `VaultsDecryptable`, `KeyRingsKept`,
`SignedUpIsUnlockable`, `SignedOutCanSignUp` and `KeepsWallet` under the hypotheses above, which are
those of their run. No run checks `TimerIsWanted`, which is proved (`OffNeverLocks`).

## Limits

* The order of storage writes is that of their issue, and a worker that ends loses no
  write that was issued. This is how Chrome's storage behaves; the code relies on it.
* Histories and executions are stored in three entries by three autoruns; the model
  treats them as one. A sequence number written later than its history is not explored.
* The page of swaps gives no `historyTxIndex` (`src/apps/extension/src/pages/ibc-swap/index.tsx:876`),
  so a history is always recorded for a transaction that `findHistoryTxIndex` looks for.
* A removed chain does not come back in the executor's model: `known` only shrinks there.
* `RemoveHistory` abstracts the UI's rule (`shouldHideOnRemove`): what the provider
  promises about a swap is reduced to the link, the release and the asset's place.
* What a transaction is, fees, memos, signing documents, amounts: success or failure.
* Time: timers and pings come at any later moment. The growing delay of
  `interaction/service.ts:404`, whose bound is an argument of `setTimeout` and not of
  `Math.min`, is therefore not visible.
* Vault: insensitive data, sub vaults' metadata, the migration of the first key store
  (`keyring/service.ts:250-545`), exports, names.
* Chains: a chain info is its id; features count as an entry that is written; endpoints set
  by the user, and messages that clear the endpoints or the updates of all chains, are
  left out. A chain that is not updated from the repository, or has no Cosmos node, is one
  whose fetch fails.
* Enabled chains: lists of one or two chains for `toggleChain`, any for the others; one
  hidden coin per chain. Scans: key rings in any order; dismissed and revalidated
  results are left out, as is what the tokens are worth.
* Permissions: one type of permission per chain, basic access; privileged origins and
  messages of the extension's own pages, which are granted everything at once, are left out
  but for the current chain and the grants they make. The register page
  and the page that connects a Ledger come before the check and change none of this.
  `wallet_addEthereumChain` is a suggestion followed by a switch, and both are there.
* The chains `keyring/handler.ts:490` reads before it waits for the names of the accounts,
  and uses after, are not followed: what it then returns may be of a page that was
  disconnected during the wait.
* Packets: one history at a time, for histories share nothing but the map. A chain
  between forwards a packet in the transaction that receives it, as the code expects:
  where it does not, `getIBCPacketSequenceFromTx` throws in the handler and nothing follows
  the packet. The three ways a trace learns of its event (query, repeated query,
  subscription) are one arrival. The Skip histories (`trackSkipSwapRecursive`, a status
  that is polled) and hops that a provider adds while a SwapV2 history is tracked are left out.
* The components marked planned or *no* above. Routers, providers, stores, hooks and UI
  are transport or views; kinds of key rings, signing, amounts and crypto are functions
  that unit tests serve better.

## Plan

Done: vault and key rings; interaction requests with their abstract specification; executor
with histories; chains with their updates, enabled chains and scans; permissions with the
requests of pages and the automatic lock; IBC packets with their trackers. In order:

1. **`EventBus`**: buffer, flush and promise queue, shown to refine the queue of `SwapV2History`.
2. **`TxTracer`**: query, subscription, polling and reconnection report once, shown to
   implement the `Arrive` of `PacketForwarding`.
3. **Skip histories**, and the additional tracking of SwapV2 by `PacketForwarding`.
4. **`RateLimiter`** and the windows of **`ChainsUpdate`**.
5. **Key ring migration**, as further calls of `KeyRingService`.
6. **Tokens**: the added tokens, with the handlers of `ChainsUIService`.

Abstract specifications: the queue above.

Theorems next: that the events of `SwapV2History` are those of the `EventBus`, once that
is modelled; what may run beside a call without taking part of `OneCall` (a second unlock).

Hazards known and not listed with a property because they belong to these modules:
two starts of the migration (`keyring/service.ts:241`), a shorter lock duration that leaves
the running timer (`auto-lock-account/service.ts:109`), an update that is not tried again
within its interval after it has failed (`chains-update/service.ts:229`), the date of the first
update, forgotten when the last window closes (`chains-update/service.ts:90`), a request that blocks the rate limiter
(`rate-limiter.ts:84`), promises that never settle (`tx-ethereum/service.ts:142`,
`recent-send-history/service.ts:1009`).
