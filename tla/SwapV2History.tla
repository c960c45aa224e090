------------------------------ MODULE SwapV2History ------------------------------
(***************************************************************************)
(* The tracking of swaps that go through several chains: the SwapV2 part   *)
(* of packages/background/src/recent-send-history/service.ts.  A history   *)
(* follows the status a provider reports, and tells the executor of the    *)
(* transactions over the event bus which chains the asset has reached.     *)
(*                                                                         *)
(* The histories are kept in the storage at every change, and a write that *)
(* was issued is not lost by the end of the worker; the trackers and the   *)
(* bus are memory.                                                         *)
(***************************************************************************)
EXTENDS Integers, Sequences, SequencesExt

CONSTANTS
    Executions,           \* ids of the executions of TxExecutor
    Chains,
    MaxHistories,         \* bound: swaps recorded
    FinalizationRetries,  \* polls of a final status whose step is still in progress
    None

ASSUME HistoryAssumption ==
    /\ MaxHistories \in Nat /\ FinalizationRetries \in Nat
    /\ None \notin Executions /\ None \notin 0..MaxHistories

VARIABLES
    hists,    \* recentSwapV2HistoryMap
    hseq,     \* recentSwapV2HistorySeq
    tracker,  \* where the tracking of a history is
    bus,      \* events published and not yet handled by the executor
    known     \* chains of ChainsService; one that was removed does not come back

historyVars == <<hists, hseq, tracker>>

HistoryIds == 0..(MaxHistories - 1)
Statuses   == {"in_progress", "success", "partial_success", "failed"}
Nowhere    == [type |-> "none", chain |-> None]

\* routeIndex + 1: how much of the route has been reached.
NewHistory(route, exec) ==
    [route |-> route, exec |-> exec, index |-> 0, status |-> "in_progress", asset |-> Nowhere,
     released |-> FALSE, done |-> FALSE, failed |-> FALSE, hidden |-> FALSE, extra |-> "none",
     retries |-> 0]

HistoryInit ==
    /\ hists = <<>>
    /\ hseq = 0
    /\ tracker = [h \in HistoryIds |-> "off"]
    /\ bus = <<>>
    /\ known = Chains
-----------------------------------------------------------------------------
(* What the executor calls, on the histories w = [hists, hseq, tracker].     *)

Histories == [hists |-> hists, hseq |-> hseq, tracker |-> tracker]

HistoriesBecome(w) == hists' = w.hists /\ hseq' = w.hseq /\ tracker' = w.tracker

Changed(w, h, hist) == [w EXCEPT !.hists = [@ EXCEPT ![h] = hist]]

\* Mutant: two histories get the same id.
Recorded_SameSeq(w, route, exec) ==
    [hists   |-> [h \in DOMAIN w.hists \cup {w.hseq} |->
                    IF h = w.hseq THEN NewHistory(route, exec) ELSE w.hists[h]],
     hseq    |-> w.hseq,
     tracker |-> [w.tracker EXCEPT ![w.hseq] = "fulfil"]]

\* recordTxWithSwapV2, whose tracking first waits for the transaction.
Recorded(w, route, exec) ==
    [hists   |-> [h \in DOMAIN w.hists \cup {w.hseq} |->
                    IF h = w.hseq THEN NewHistory(route, exec) ELSE w.hists[h]],
     hseq    |-> w.hseq + 1,
     tracker |-> [w.tracker EXCEPT ![w.hseq] = "fulfil"]]

\* setSwapV2HistoryError, clearSwapV2HistoryBackgroundExecutionId, showSwapV2History and
\* setSwapV2AdditionalTrackingData do nothing for a history that is gone.
WithError(w, h) ==
    IF h \in DOMAIN w.hists
    THEN Changed(w, h, [w.hists[h] EXCEPT !.failed = TRUE, !.done = TRUE]) ELSE w

WithoutExecution(w, h) ==
    IF h \in DOMAIN w.hists THEN Changed(w, h, [w.hists[h] EXCEPT !.exec = None]) ELSE w

Shown(w, h) ==
    IF h \in DOMAIN w.hists THEN Changed(w, h, [w.hists[h] EXCEPT !.hidden = FALSE]) ELSE w

WithExtraTracking(w, h) ==
    IF h \in DOMAIN w.hists THEN Changed(w, h, [w.hists[h] EXCEPT !.extra = "tracking"]) ELSE w
-----------------------------------------------------------------------------
(* The event bus.                                                           *)

\* getExecutableChainIdsFromSwapV2History.
ExecutableChains(hist) ==
    {hist.route[i] : i \in 1..hist.index}
        \cup (IF hist.asset.type = "intermediate" THEN {hist.asset.chain} ELSE {})

Published(hist, chains) ==
    IF hist.exec = None THEN <<>>
    ELSE <<[type |-> "executable", exec |-> hist.exec, chains |-> chains]>>

\* Mutant: the executor is not told of a removal.
Removal_Silent(hist) == <<>>

Removal(hist) ==
    IF hist.exec = None THEN <<>> ELSE <<[type |-> "remove", exec |-> hist.exec, chains |-> {}]>>
-----------------------------------------------------------------------------
(* Removing and hiding.                                                     *)

RemoveHistories(hs, events) ==
    /\ hists'   = [h \in DOMAIN hists \ hs |-> hists[h]]
    /\ tracker' = [h \in HistoryIds |-> IF h \in hs THEN "off" ELSE tracker[h]]
    /\ bus'     = bus \o events
    /\ hseq'    = hseq

\* The user removes a swap that is over or has left something on a chain; another
\* one that has transactions left is hidden instead.
RemoveHistory(h) ==
    /\ h \in DOMAIN hists
    /\ hists[h].exec = None \/ hists[h].released \/ hists[h].asset # Nowhere
    /\ RemoveHistories({h}, Removal(hists[h]))

HideHistory(h) ==
    /\ h \in DOMAIN hists
    /\ hists[h].exec # None
    /\ hists' = [hists EXCEPT ![h].hidden = TRUE]
    /\ UNCHANGED <<hseq, tracker, bus>>

ClearAllHistories ==
    /\ hists # <<>>
    /\ RemoveHistories(DOMAIN hists,
                       FlattenSeq([i \in 1..hseq |-> IF i - 1 \in DOMAIN hists
                                                     THEN Removal(hists[i - 1]) ELSE <<>>]))

\* A chain is removed: its swaps go, and the executor is not told.
ChainRemoved(chain) ==
    LET hs == {h \in DOMAIN hists : \/ \E i \in DOMAIN hists[h].route : hists[h].route[i] = chain
                                    \/ hists[h].asset.chain = chain} IN
    /\ chain \in known
    /\ known' = known \ {chain}
    /\ RemoveHistories(hs, <<>>)
-----------------------------------------------------------------------------
(* trackSwapV2Recursive: wait for the first transaction, then poll.         *)

FirstTxSucceeds(h) ==
    /\ tracker[h] = "fulfil"
    /\ tracker' = [tracker EXCEPT ![h] = "poll"]
    /\ UNCHANGED <<hists, hseq, bus>>

FirstTxFails(h) ==
    /\ tracker[h] = "fulfil"
    /\ RemoveHistories({h}, Removal(hists[h]))

\* An error of the first wait ends the tracking, and so do 60 failed polls.
TrackerStops(h) ==
    /\ tracker[h] \in {"fulfil", "poll"}
    /\ tracker' = [tracker EXCEPT ![h] = "off"]
    /\ UNCHANGED <<hists, hseq, bus>>

\* A poll asks for the status unless the tracking was ended meanwhile.
Poll(h) ==
    /\ tracker[h] = "poll"
    /\ tracker' = [tracker EXCEPT ![h] = IF hists[h].done THEN "off" ELSE "status"]
    /\ UNCHANGED <<hists, hseq, bus>>

PollFails(h) ==
    /\ tracker[h] = "status"
    /\ tracker' = [tracker EXCEPT ![h] = "poll"]
    /\ UNCHANGED <<hists, hseq, bus>>

\* The history becomes hist, the tracking goes on at pc, the events are published.
Tracked(h, hist, pc, events) ==
    /\ hists'   = [hists EXCEPT ![h] = hist]
    /\ tracker' = [tracker EXCEPT ![h] = pc]
    /\ bus'     = bus \o events
    /\ hseq'    = hseq
-----------------------------------------------------------------------------
(* processSwapV2StatusResponse.                                             *)

\* No steps: the tracking is early, or the swap was one transaction.
StatusWithoutSteps(h, status) ==
    /\ tracker[h] = "status"
    /\ Tracked(h, [hists[h] EXCEPT !.status = status, !.failed = FALSE,
                                   !.done = @ \/ status # "in_progress"],
               IF status = "in_progress" THEN "poll" ELSE "off", <<>>)

\* The index of the furthest step, or the old one when no step is on the route.
UpdatedIndex(hist, reached) == IF reached > 0 THEN reached ELSE IF hist.index = 0 THEN 1 ELSE hist.index

\* Mutant: the index moves without an event.
StatusInProgress_Silent(h, reached) ==
    LET old  == hists[h]
        new  == [old EXCEPT !.status = "in_progress", !.failed = FALSE,
                            !.index = IF UpdatedIndex(old, reached) > @
                                      THEN UpdatedIndex(old, reached) ELSE @]
    IN
    /\ tracker[h] = "status"
    /\ Tracked(h, new, "poll", <<>>)

\* The chains are published when the index grows.
StatusInProgress(h, reached) ==
    LET old  == hists[h]
        new  == [old EXCEPT !.status = "in_progress", !.failed = FALSE,
                            !.index = IF UpdatedIndex(old, reached) > @
                                      THEN UpdatedIndex(old, reached) ELSE @]
    IN
    /\ tracker[h] = "status"
    /\ Tracked(h, new, "poll",
               IF new.index > old.index THEN Published(new, ExecutableChains(new)) ELSE <<>>)

\* The status, or a step of a final one, has been unknown for too long.
StatusUnknownTooLong(h, status) ==
    /\ tracker[h] = "status"
    /\ Tracked(h, [hists[h] EXCEPT !.status = status, !.done = TRUE, !.failed = FALSE], "off", <<>>)

\* A final status, while its step is in progress.
StatusRetried(h, status) ==
    /\ tracker[h] = "status"
    /\ status # "in_progress"
    /\ hists[h].retries < FinalizationRetries
    /\ Tracked(h, [hists[h] EXCEPT !.status = status, !.failed = FALSE, !.retries = @ + 1],
               "poll", <<>>)

RouteIndexOf(hist, chain) ==
    LET at == {i \in DOMAIN hist.route : hist.route[i] = chain} IN
    IF at = {} THEN 0 ELSE CHOOSE i \in at : \A j \in at : i <= j

\* The asset has arrived: at the destination, or, if chain is not None, elsewhere,
\* from where the next transaction goes on if there is one.
StatusWithAsset(h, status, reached, chain) ==
    LET old    == [hists[h] EXCEPT !.failed = FALSE]
        type   == IF status = "success" /\ old.exec # None THEN "intermediate" ELSE "refund"
        at     == RouteIndexOf(old, chain)
        there  == [old EXCEPT !.status = IF type = "refund" THEN "failed" ELSE status,
                              !.asset = [type |-> type, chain |-> chain], !.done = TRUE,
                              !.index = IF at > UpdatedIndex(old, reached) THEN at ELSE @]
        home   == [old EXCEPT !.status = status, !.index = Len(old.route), !.released = TRUE,
                              !.done = TRUE]
    IN
    /\ tracker[h] = "status"
    /\ status # "in_progress"
    /\ IF chain = None
       THEN Tracked(h, home, "off", Published(home, ExecutableChains(home)))
       ELSE Tracked(h, there, "off", Published(there, ExecutableChains(there)))

\* No asset is reported: a success has reached the whole route.  At the destination
\* the released amount is read from its transaction, if that is known.
StatusWithoutAsset(h, status, atDestination, txKnown) ==
    LET old     == [hists[h] EXCEPT !.status = status, !.failed = FALSE]
        new     == [old EXCEPT !.index = IF status = "success" THEN Len(hists[h].route) ELSE @]
        tracked == new.released \/ new.asset # Nowhere
        events  == Published(new, ExecutableChains(new))
    IN
    /\ tracker[h] = "status"
    /\ status # "in_progress"
    /\ IF atDestination /\ txKnown /\ ~tracked
       THEN Tracked(h, new, "asset", events)
       ELSE Tracked(h, [new EXCEPT !.done = TRUE,
                                   !.status = IF status = "success" /\ ~tracked /\ ~atDestination
                                              THEN "failed" ELSE @], "off", events)

\* trackSwapV2ReleasedAssetAmount.
AssetTracked(h, outcome) ==
    LET old == [hists[h] EXCEPT !.done = TRUE] IN
    /\ tracker[h] = "asset"
    /\ Tracked(h, CASE outcome = "released" -> [old EXCEPT !.released = TRUE]
                    [] outcome = "refund"   -> [old EXCEPT !.failed = TRUE, !.asset =
                                                  [type |-> "refund", chain |-> Last(old.route)]]
                    [] outcome = "unknown"  -> old,
               "off", <<>>)

\* trackSwapV2AdditionalRecursive, for the transaction the executor has sent last.
ExtraTracked(h, outcome) ==
    LET old == [hists[h] EXCEPT !.extra = "done"] IN
    /\ h \in DOMAIN hists /\ hists[h].extra = "tracking"
    /\ Tracked(h, CASE outcome = "released" -> [old EXCEPT !.released = TRUE, !.asset = Nowhere]
                    [] outcome = "refund"   -> [old EXCEPT !.asset =
                                                  [type |-> "refund", chain |-> Last(old.route)]]
                    [] outcome = "unknown"  -> old,
               tracker[h], <<>>)

Outcomes == {"released", "refund", "unknown"}

TrackerStep(h) ==
    \/ FirstTxSucceeds(h) \/ FirstTxFails(h) \/ TrackerStops(h) \/ Poll(h) \/ PollFails(h)
    \/ \E status \in Statuses :
           StatusWithoutSteps(h, status) \/ StatusUnknownTooLong(h, status) \/ StatusRetried(h, status)
    \/ \E reached \in 0..Len(hists[h].route) :
           \/ StatusInProgress(h, reached)
           \/ \E status \in Statuses, chain \in Chains \cup {None} :
                  StatusWithAsset(h, status, reached, chain)
    \/ \E status \in Statuses, atDestination, txKnown \in BOOLEAN :
           StatusWithoutAsset(h, status, atDestination, txKnown)
    \/ \E outcome \in Outcomes : AssetTracked(h, outcome) \/ ExtraTracked(h, outcome)

HistoryStep ==
    \/ /\ \E h \in DOMAIN hists : TrackerStep(h) \/ RemoveHistory(h) \/ HideHistory(h)
       /\ known' = known
    \/ ClearAllHistories /\ known' = known
    \/ \E chain \in Chains : ChainRemoved(chain)

HistoryRecord ==
    [route : Seq(Chains), exec : Executions \cup {None}, index : Nat, status : Statuses,
     asset : [type : {"none", "intermediate", "refund"}, chain : Chains \cup {None}],
     released : BOOLEAN, done : BOOLEAN, failed : BOOLEAN, hidden : BOOLEAN,
     extra : {"none", "tracking", "done"}, retries : 0..FinalizationRetries]

EventRecord == [type : {"executable", "remove"}, exec : Executions, chains : SUBSET Chains]

HistoryTypeOK ==
    /\ hseq \in 0..MaxHistories
    /\ DOMAIN hists \subseteq 0..(hseq - 1)
    /\ \A h \in DOMAIN hists : hists[h] \in HistoryRecord /\ hists[h].index <= Len(hists[h].route)
    /\ tracker \in [HistoryIds -> {"off", "fulfil", "poll", "status", "asset"}]
    /\ \A h \in HistoryIds : tracker[h] # "off" => h \in DOMAIN hists
    /\ bus \in Seq(EventRecord)
    /\ known \in SUBSET Chains
=============================================================================
