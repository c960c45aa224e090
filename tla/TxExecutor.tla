-------------------------------- MODULE TxExecutor --------------------------------
(***************************************************************************)
(* The executor of the transactions of a swap                              *)
(* (packages/background/src/tx-executor/service.ts): it signs, sends and   *)
(* traces them one after the other, stops at the first that has to wait    *)
(* for its chain or for a signature of the user, and is resumed by the     *)
(* user once the history of the swap has seen the asset arrive.            *)
(*                                                                         *)
(* Only blocked executions are in the storage.  The worker may end while   *)
(* it waits for a signature, a node or a provider, and not within a step:  *)
(* the events of a step are handled before it may end.                     *)
(***************************************************************************)
EXTENDS SwapV2History, FiniteSetsExt

CONSTANTS
    Plans,      \* what the swap page asks for: [chains, ready, sent, hardware, route]
    MaxKills    \* bound: ends of the worker

ASSUME PlansAssumption ==
    /\ Plans # {} /\ IsFiniteSet(Plans)
    /\ MaxKills \in Nat
    /\ \A p \in Plans :
          /\ p.chains \in Seq(Chains) \ {<<>>}
          /\ p.ready \subseteq Chains
          /\ p.sent \subseteq DOMAIN p.chains
          /\ p.hardware \in BOOLEAN /\ p.route \in Seq(Chains)

VARIABLES
    execs,       \* the executions; one that was removed lives on in its loop
    recent,      \* keys of recentTxExecutionMap
    loop,        \* the running executeTxs of an execution
    subscribed,  \* the executor's init has subscribed to the bus
    kills,       \* ends of the worker so far
    sent,        \* history: how often each transaction was broadcast
    missed       \* history: executions an event for which was lost by an end of the worker

vars == <<historyVars, bus, known, execs, recent, loop, subscribed, kills, sent, missed>>

Idle == [pc |-> "off", i |-> 0, given |-> 0]

\* An id that was not drawn yet, or whose execution the worker has forgotten.
NoExecution(status) ==
    [status |-> status, chains |-> <<>>, tx |-> <<>>, signed |-> {}, executable |-> {},
     prevent |-> FALSE, swap |-> FALSE, route |-> <<>>, hid |-> None]

MaxTxs == Max({Len(p.chains) : p \in Plans})

Init ==
    /\ HistoryInit
    /\ execs  = [id \in Executions |-> NoExecution("unused")]
    /\ recent = {}
    /\ loop   = [id \in Executions |-> Idle]
    /\ subscribed = TRUE
    /\ kills  = 0
    /\ sent   = [id \in Executions |-> [i \in 1..MaxTxs |-> 0]]
    /\ missed = {}
-----------------------------------------------------------------------------
(* executeTxs.                                                              *)

\* recordHistoryIfNeeded: some executable transaction is confirmed.  No page names the
\* transaction of the history itself (historyTxIndex), so the code looks for it.
NeedsHistory(ex) ==
    /\ ex.swap /\ ex.hid = None /\ ex.route # <<>>
    /\ \E i \in DOMAIN ex.tx : ex.tx[i] = "confirmed" /\ ex.chains[i] \in ex.executable

\* The history names the execution only if a transaction of it is blocked.
WithHistory(w, id, ex) ==
    IF NeedsHistory(ex)
    THEN Recorded(w, ex.route, IF \E i \in DOMAIN ex.tx : ex.tx[i] = "blocked" THEN id ELSE None)
    ELSE w

HistoryOf(w, ex) == IF NeedsHistory(ex) THEN w.hseq ELSE ex.hid

\* Mutant: the link of a completed execution stays.
Completes_KeepsLink(w, keys, id, ex) ==
    LET hid == HistoryOf(w, ex) IN
    /\ NeedsHistory(ex) => hseq < MaxHistories
    /\ HistoriesBecome(WithHistory(w, id, ex))
    /\ execs'  = [execs EXCEPT ![id] = [ex EXCEPT !.hid = hid]]
    /\ recent' = keys \ {id}
    /\ loop'   = [loop EXCEPT ![id] = Idle]

\* All transactions are confirmed: the history no longer names the execution.
Completes(w, keys, id, ex) ==
    LET hid == HistoryOf(w, ex) IN
    /\ NeedsHistory(ex) => hseq < MaxHistories
    /\ HistoriesBecome(IF ex.swap THEN WithoutExecution(WithHistory(w, id, ex), hid) ELSE w)
    /\ execs'  = [execs EXCEPT ![id] = [ex EXCEPT !.hid = hid]]
    /\ recent' = keys \ {id}
    /\ loop'   = [loop EXCEPT ![id] = Idle]

\* Transaction i has to wait: the execution stops here until it is resumed.
Blocks(w, keys, id, ex, i) ==
    LET blocked == [ex EXCEPT !.tx = [@ EXCEPT ![i] = "blocked"], !.signed = @ \ {i}, !.status = "blocked"]
        hid     == HistoryOf(w, blocked)
    IN
    /\ NeedsHistory(blocked) => hseq < MaxHistories
    /\ HistoriesBecome(WithHistory(w, id, blocked))
    /\ execs' = [execs EXCEPT ![id] = [blocked EXCEPT !.hid = hid, !.route = <<>>]]
    /\ loop'  = [loop EXCEPT ![id] = Idle]
    /\ recent' = keys

HasToWait(ex, i, given) ==
    \/ ex.chains[i] \notin ex.executable
    \/ ex.prevent /\ i \notin ex.signed /\ i # given

\* The loop of executeTxs from transaction i up to its next await, with the keys of
\* recentTxExecutionMap.  A signed transaction that the user gave, once confirmed, is
\* tracked by the history.
Proceeds(keys, id, ex, i, given, tracked) ==
    LET left == {j \in DOMAIN ex.tx : j >= i /\ ex.tx[j] # "confirmed"}
        w    == IF given # 0 /\ given \notin left /\ ex.swap /\ tracked
                THEN WithExtraTracking(Histories, ex.hid) ELSE Histories
        run  == [ex EXCEPT !.status = "processing"]
    IN
    \/ left = {} /\ Completes(w, keys, id, run)
    \/ \E next \in left :
          /\ \A j \in left : next <= j
          /\ \/ HasToWait(ex, next, given) /\ Blocks(w, keys, id, run, next)
             \/ /\ ~HasToWait(ex, next, given)
                /\ HistoriesBecome(w)
                /\ execs' = [execs EXCEPT ![id] = run]
                /\ loop'  = [loop EXCEPT ![id] =
                               [pc |-> IF next \in ex.signed \cup {given} THEN "broadcast" ELSE "sign",
                                i |-> next, given |-> IF next = given THEN given ELSE 0]]
                /\ recent' = keys

\* The page signs what is executable when not everything is, or for hardware.
NewExecution(plan) ==
    LET prevent == plan.hardware \/ \E i \in DOMAIN plan.chains : plan.chains[i] \notin plan.ready IN
    [status |-> "pending", chains |-> plan.chains,
     tx |-> [i \in DOMAIN plan.chains |-> IF i \in plan.sent THEN "confirmed" ELSE "pending"],
     signed |-> {i \in DOMAIN plan.chains \ plan.sent : prevent /\ plan.chains[i] \in plan.ready},
     executable |-> plan.ready, prevent |-> prevent, swap |-> plan.route # <<>>,
     route |-> plan.route, hid |-> None]

\* recordAndExecuteTxs: without automatic signing, something must be signed.
RecordAndExecuteTxs(id, plan) ==
    LET ex == NewExecution(plan) IN
    /\ subscribed
    /\ execs[id].status = "unused"
    /\ ex.prevent => ex.signed # {}
    /\ \E next \in DOMAIN ex.tx : ex.tx[next] # "confirmed"
    /\ Proceeds(recent \cup {id}, id, ex, 1, 0, FALSE)
    /\ UNCHANGED <<bus, known, subscribed, kills, sent, missed>>

\* Mutant: an execution that is being processed is executed once more.
ResumeTx_WhileProcessing(id, i, tracked) ==
    LET ex == execs[id] IN
    /\ subscribed /\ id \in recent
    /\ i \in DOMAIN ex.tx /\ ex.tx[i] # "pending"
    /\ \A j \in 1..(i - 1) : ex.tx[j] = "confirmed"
    /\ Proceeds(recent, id, ex, i, i, tracked)
    /\ UNCHANGED <<bus, known, subscribed, kills, sent, missed>>

\* The page signs the first blocked transaction of its copy of the execution, which
\* may be confirmed by now.
ResumeTx(id, i, tracked) ==
    LET ex == execs[id] IN
    /\ subscribed /\ id \in recent
    /\ ex.status = "blocked"
    /\ i \in DOMAIN ex.tx /\ ex.tx[i] # "pending"
    /\ \A j \in 1..(i - 1) : ex.tx[j] = "confirmed"
    /\ Proceeds(recent, id, ex, i, i, tracked)
    /\ UNCHANGED <<bus, known, subscribed, kills, sent, missed>>
-----------------------------------------------------------------------------
(* executePendingTx, between its awaits.                                     *)

AwaitsResult(id) ==
    /\ loop[id].pc # "off"
    /\ UNCHANGED <<bus, known, subscribed, kills, missed>>

\* The chain must be known to sign and to broadcast.
SignSucceeds(id) ==
    /\ AwaitsResult(id)
    /\ loop[id].pc = "sign"
    /\ execs[id].chains[loop[id].i] \in known
    /\ loop' = [loop EXCEPT ![id].pc = "broadcast"]
    /\ UNCHANGED <<historyVars, execs, recent, sent>>

BroadcastSucceeds(id) ==
    /\ AwaitsResult(id)
    /\ loop[id].pc = "broadcast"
    /\ execs[id].chains[loop[id].i] \in known
    /\ loop' = [loop EXCEPT ![id].pc = "trace"]
    /\ sent' = [sent EXCEPT ![id][loop[id].i] = @ + 1]
    /\ UNCHANGED <<historyVars, execs, recent>>

WithTx(ex, i, status) ==
    [ex EXCEPT !.tx = [@ EXCEPT ![i] = status], !.signed = @ \ {i}]

TraceConfirms(id, tracked) ==
    LET i == loop[id].i IN
    /\ AwaitsResult(id)
    /\ loop[id].pc = "trace"
    /\ Proceeds(recent, id, WithTx(execs[id], i, "confirmed"), i, loop[id].given, tracked)
    /\ sent' = sent

\* Mutant: the loop goes on after a failure.
TxFails_GoesOn(id) ==
    /\ AwaitsResult(id)
    /\ Proceeds(recent, id, WithTx(execs[id], loop[id].i, "failed"), loop[id].i + 1, 0, FALSE)
    /\ sent' = sent

\* Signing, broadcasting or tracing has failed: the execution is over, whatever
\* becomes of a transaction that was broadcast.
TxFails(id) ==
    LET ex == execs[id] IN
    /\ AwaitsResult(id)
    /\ HistoriesBecome(IF ex.swap THEN WithError(Histories, ex.hid) ELSE Histories)
    /\ execs'  = [execs EXCEPT ![id] = WithTx(ex, loop[id].i, "failed")]
    /\ recent' = recent \ {id}
    /\ loop'   = [loop EXCEPT ![id] = Idle]
    /\ sent'   = sent
-----------------------------------------------------------------------------
(* The bus, and the life of the worker.                                     *)

\* handleTxExecutionEvent of an execution that is still there.
HandleEvent ==
    LET event == Head(bus)
        id    == event.exec
        ex    == [execs[id] EXCEPT !.executable = @ \cup event.chains]
        wakes == /\ ex.swap /\ ex.hid # None
                 /\ ~(event.chains \subseteq execs[id].executable)
                 /\ \E i \in DOMAIN ex.tx : /\ ex.tx[i] \in {"pending", "blocked"}
                                            /\ ex.chains[i] \in ex.executable
    IN
    /\ subscribed /\ bus # <<>>
    /\ bus' = Tail(bus)
    /\ IF event.type = "remove" \/ id \notin recent
       THEN recent' = recent \ (IF event.type = "remove" THEN {id} ELSE {}) /\ UNCHANGED <<historyVars, execs>>
       ELSE /\ execs' = [execs EXCEPT ![id] = ex]
            /\ HistoriesBecome(IF wakes THEN Shown(Histories, ex.hid) ELSE Histories)
            /\ recent' = recent
    /\ UNCHANGED <<known, loop, subscribed, kills, sent, missed>>

\* The executor's init is the last of the start-up, after that of the histories.
Subscribe ==
    /\ ~subscribed
    /\ subscribed' = TRUE
    /\ UNCHANGED <<historyVars, bus, known, execs, recent, loop, kills, sent, missed>>

\* The worker ends and starts again: the blocked executions are loaded, the others
\* forgotten, and the tracking of every history begins anew.
Kill ==
    /\ kills < MaxKills
    /\ subscribed => bus = <<>>
    /\ kills' = kills + 1
    /\ recent' = {id \in recent : execs[id].status = "blocked"}
    /\ execs' = [id \in Executions |->
                   IF id \in recent' \/ execs[id].status = "unused" THEN execs[id]
                   ELSE NoExecution("gone")]
    /\ loop' = [id \in Executions |-> Idle]
    /\ tracker' = [h \in HistoryIds |-> IF h \in DOMAIN hists THEN "fulfil" ELSE "off"]
    /\ bus' = <<>>
    /\ missed' = missed \cup {bus[k].exec : k \in DOMAIN bus}
    /\ subscribed' = FALSE
    /\ UNCHANGED <<hists, hseq, known, sent>>

Next ==
    \/ \E id \in Executions, plan \in Plans : RecordAndExecuteTxs(id, plan)
    \/ \E id \in Executions, tracked \in BOOLEAN :
           \/ \E i \in 1..MaxTxs : ResumeTx(id, i, tracked)
           \/ TraceConfirms(id, tracked)
    \/ \E id \in Executions : SignSucceeds(id) \/ BroadcastSucceeds(id) \/ TxFails(id)
    \/ HandleEvent
    \/ Subscribe
    \/ Kill
    \/ HistoryStep /\ UNCHANGED <<execs, recent, loop, subscribed, kills, sent, missed>>

Spec == Init /\ [][Next]_vars
-----------------------------------------------------------------------------
ExecutionRecord ==
    [status : {"unused", "pending", "processing", "blocked", "gone"}, chains : Seq(Chains),
     tx : Seq({"pending", "blocked", "confirmed", "failed"}), signed : SUBSET (1..MaxTxs),
     executable : SUBSET Chains, prevent : BOOLEAN, swap : BOOLEAN, route : Seq(Chains),
     hid : HistoryIds \cup {None}]

TypeOK ==
    /\ HistoryTypeOK
    /\ execs \in [Executions -> ExecutionRecord]
    /\ recent \in SUBSET Executions
    /\ loop \in [Executions -> [pc : {"off", "sign", "broadcast", "trace"}, i : 0..MaxTxs,
                                given : 0..MaxTxs]]
    /\ subscribed \in BOOLEAN /\ kills \in 0..MaxKills
    /\ sent \in [Executions -> [1..MaxTxs -> Nat]]
    /\ missed \in SUBSET Executions

\* No transaction is broadcast twice, whatever is resumed, removed or forgotten when the
\* worker ends: executeTxs refuses an execution in progress, and one is stored only
\* while nothing of it is under way.
SentOnce == \A id \in Executions, i \in 1..MaxTxs : sent[id][i] <= 1

\* A transaction spends what the ones before it have brought: it is broadcast only
\* when all of them are confirmed, though the page may resume by a stale copy.
TxsInOrder ==
    [][\A id \in Executions, i \in 1..MaxTxs :
          sent'[id][i] # sent[id][i] => \A j \in 1..(i - 1) : execs[id].tx[j] = "confirmed"]_vars

\* Every chain a history has seen the asset reach is one its execution may go on at, or
\* will once the bus is read: trackers publish whenever their index grows, so the user is
\* not kept from the next transaction.  Only a worker that ends between the start of the
\* trackers and the executor's init loses an event.
NoLostWakeup ==
    \A h \in DOMAIN hists :
        LET id == hists[h].exec IN
        id \in recent \ missed =>
            ExecutableChains(hists[h]) \subseteq
                execs[id].executable \cup UNION {event.chains : event \in
                                               {e \in Range(bus) : e.exec = id}}

\* A blocked swap that has a history is found from it, or is about to be removed: the
\* links between the two maps, which are stored apart, agree.  A chain that is removed
\* takes the history and leaves the execution.
BlockedIsFound ==
    \A id \in recent \ missed :
        execs[id].status = "blocked" /\ execs[id].hid # None /\ known = Chains =>
            \/ execs[id].hid \in DOMAIN hists /\ hists[execs[id].hid].exec = id
            \/ \E event \in Range(bus) : event.type = "remove" /\ event.exec = id

\* The history of a swap all of whose transactions are confirmed names no execution, or
\* the page would take it for unfinished for ever.
CompletedIsCleared ==
    \A h \in DOMAIN hists :
        hists[h].exec # None =>
            LET ex == execs[hists[h].exec] IN
            ex.status = "gone" \/ \E i \in DOMAIN ex.tx : ex.tx[i] # "confirmed"

\* types.ts: an execution that does not sign by itself is persisted.  One that is
\* being processed is not, though all that is left of it may be a trace.
PreventedIsKept ==
    [][\A id \in recent : kills' # kills /\ execs[id].prevent => id \in recent']_vars
=============================================================================
