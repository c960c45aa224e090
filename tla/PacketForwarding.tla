---------------------------- MODULE PacketForwarding ----------------------------
(***************************************************************************)
(* The history of one IBC transfer or swap (recent-send-history/service.ts)*)
(* and the trackers that follow its packet from chain to chain.  A tracker *)
(* waits for one event over a websocket, is tried again when the socket    *)
(* fails, and starts the next tracker when the event has been handled.     *)
(* The chains are outside: a packet is received, refused with an error, or *)
(* times out, and is then refunded hop by hop back to its sender.          *)
(***************************************************************************)
EXTENDS Integers, FiniteSets

CONSTANTS
    N,            \* channels the packet goes through
    Leaving,      \* of a swap, the channel that leaves its chain (swapChannelIndex + 2), else 0
    Trackers,     \* trackers that may be there together
    MaxRetries,   \* 10 in the code
    MaxRestarts   \* bound: ends of the worker

ASSUME PacketAssumption ==
    /\ N \in Nat \ {0}
    /\ Leaving \in 0..N + 1
    /\ IsFiniteSet(Trackers) /\ Trackers # {}
    /\ MaxRetries \in Nat
    /\ MaxRestarts \in Nat

VARIABLES
    tx,        \* the transaction on the source chain
    pkt,       \* the packet at each hop
    refunded,  \* hops refunded by an acknowledgement of their packet
    h,         \* the history
    tracker,
    late,      \* whether a socket failed while its event was on the way to the handler
    gaveUp,    \* whether a tracker has used up its tries since the start
    restarts

chain == <<tx, pkt, refunded>>
vars == <<chain, h, tracker, late, gaveUp, restarts>>

Hops == 1..N

Events == {[what |-> "tx", hop |-> 0]} \cup [what : {"hop", "ack", "timeout"}, hop : Hops]

Free == [at |-> "free"]

Trackings == [at : {"watching", "closing", "waiting", "over"}, on : Events, got : BOOLEAN,
              tries : 0..MaxRetries]

Histories == [kept : BOOLEAN, fulfilled : BOOLEAN, timeout : BOOLEAN, notified : BOOLEAN,
              seq : SUBSET Hops, completed : SUBSET Hops, error : SUBSET Hops,
              rewound : SUBSET Hops, blocked : SUBSET Hops, res : Nat]

TypeOK ==
    /\ tx \in {"pending", "included", "failed"}
    /\ pkt \in [Hops -> {"unsent", "sent", "received", "refused", "expired"}]
    /\ refunded \in SUBSET Hops
    /\ h \in Histories
    /\ tracker \in [Trackers -> {Free} \cup Trackings]
    /\ late \in BOOLEAN /\ gaveUp \in BOOLEAN
    /\ restarts \in 0..MaxRestarts

-----------------------------------------------------------------------------
(* What a history waits for. *)

First(S) == {i \in S : \A j \in S : i <= j}

\* Mutant: the refund is followed to the first chain only.
RewindTarget_Once(x) == IF x.rewound # {} THEN {} ELSE First(x.error) \cap x.seq

\* The refund goes back from the failed hop, and ends at the chain of the swap.
RewindTarget(x) ==
    IF x.blocked # {} THEN {}
    ELSE IF x.rewound # {} THEN {i \in x.seq : i + 1 \in First(x.rewound)}
    ELSE First(x.error) \cap x.seq

NextHop(x) == First(Hops \ x.completed) \cap x.seq

\* At most one event; none when all is done.
Awaited(x) ==
    IF ~x.fulfilled THEN {[what |-> "tx", hop |-> 0]}
    ELSE IF x.error # {}
         THEN {[what |-> IF x.timeout THEN "timeout" ELSE "ack", hop |-> i] : i \in RewindTarget(x)}
         ELSE {[what |-> "hop", hop |-> i] : i \in NextHop(x)}

Watching(e, n) == [at |-> "watching", on |-> e, got |-> FALSE, tries |-> n]

\* The tracker of a history that has been tried n times again.
Following(x, n) ==
    IF ~x.kept \/ Awaited(x) = {} THEN {Free} ELSE {Watching(e, n) : e \in Awaited(x)}

Happened(e) ==
    CASE e.what = "tx"      -> tx # "pending"
      [] e.what = "hop"     -> pkt[e.hop] \in {"received", "refused", "expired"}
      [] e.what = "ack"     -> e.hop \in refunded
      [] e.what = "timeout" -> pkt[e.hop] = "expired"

-----------------------------------------------------------------------------
(* The history after an event. *)

\* A swap counts the amounts it has seen arrive.
Amount == IF Leaving = 0 THEN 0 ELSE 1

AfterTx(x) ==
    IF tx = "failed" THEN [x EXCEPT !.kept = FALSE]
    ELSE [x EXCEPT !.fulfilled = TRUE, !.seq = @ \cup {1}, !.res = @ + Amount]

Arrived(x, i) == [x EXCEPT !.completed = @ \cup {i}, !.res = @ + Amount]

TimedOut(x, i) == [x EXCEPT !.error = @ \cup {i}, !.timeout = TRUE]

\* The acknowledgement written with the packet is an error.
Refused(x, i) == [Arrived(x, i) EXCEPT !.error = @ \cup {i}]

\* Mutant: the sequence of the packet on its next channel is not read.
Continued_WithoutSequence(x, i) == Arrived(x, i)

Continued(x, i) == [Arrived(x, i) EXCEPT !.seq = @ \cup {i + 1}]

\* The last hop: the user is notified, once.
AllCompleted(x, i) == [Arrived(x, i) EXCEPT !.notified = TRUE]

\* Mutant: a refused packet goes on like a received one.
AfterHop_WithoutFailure(x, i) ==
    IF pkt[i] = "expired" THEN TimedOut(x, i)
    ELSE IF i = N THEN AllCompleted(x, i) ELSE Continued(x, i)

AfterHop(x, i) ==
    IF pkt[i] = "expired" THEN TimedOut(x, i)
    ELSE IF pkt[i] = "refused" THEN Refused(x, i)
    ELSE IF i = N THEN AllCompleted(x, i) ELSE Continued(x, i)

\* Mutant: all hops before the refunded one count as refunded.
AfterRefund_OfAll(x, i) ==
    [x EXCEPT !.rewound = @ \cup 1..i, !.blocked = IF i = Leaving THEN @ \cup {i} ELSE @]

AfterRefund(x, i) ==
    [x EXCEPT !.rewound = @ \cup {i}, !.blocked = IF i = Leaving THEN @ \cup {i} ELSE @]

After(x, e) ==
    CASE e.what = "tx"  -> AfterTx(x)
      [] e.what = "hop" -> AfterHop(x, e.hop)
      [] OTHER          -> AfterRefund(x, e.hop)

-----------------------------------------------------------------------------
NewHistory ==
    [kept |-> TRUE, fulfilled |-> FALSE, timeout |-> FALSE, notified |-> FALSE, seq |-> {},
     completed |-> {}, error |-> {}, rewound |-> {}, blocked |-> {}, res |-> 0]

\* The transaction was broadcast, its history recorded and the first tracker started.
Init ==
    /\ tx = "pending"
    /\ pkt = [i \in Hops |-> "unsent"]
    /\ refunded = {}
    /\ h = NewHistory
    /\ \E t \in Trackers, s \in Following(h, 0) : tracker = [u \in Trackers |-> IF u = t THEN s ELSE Free]
    /\ late = FALSE
    /\ gaveUp = FALSE
    /\ restarts = 0

-----------------------------------------------------------------------------
(* The chains *)

Include ==
    /\ tx = "pending"
    /\ \/ tx' = "included" /\ pkt' = [pkt EXCEPT ![1] = "sent"]
       \/ tx' = "failed" /\ UNCHANGED pkt
    /\ UNCHANGED refunded

\* A chain in between receives a packet and sends it on in one transaction.
Deliver(i) ==
    /\ pkt[i] = "sent"
    /\ pkt' = [j \in Hops |-> IF j = i THEN "received" ELSE IF j = i + 1 THEN "sent" ELSE pkt[j]]
    /\ UNCHANGED <<tx, refunded>>

Fail(i) ==
    /\ pkt[i] = "sent"
    /\ \E how \in {"refused", "expired"} : pkt' = [pkt EXCEPT ![i] = how]
    /\ UNCHANGED <<tx, refunded>>

Refund(i) ==
    /\ i \notin refunded
    /\ \/ pkt[i] = "refused"
       \/ /\ i < N /\ i + 1 # Leaving
          /\ i + 1 \in refunded \/ pkt[i + 1] = "expired"
    /\ refunded' = refunded \cup {i}
    /\ UNCHANGED <<tx, pkt>>

-----------------------------------------------------------------------------
(* The trackers *)

Becomes(t, s) == tracker' = [tracker EXCEPT ![t] = s]

\* The event is seen by the subscription or by a query; the handler comes 100 ms later.
Arrive(t) ==
    /\ tracker[t].at = "watching" /\ ~tracker[t].got
    /\ Happened(tracker[t].on)
    /\ Becomes(t, [tracker[t] EXCEPT !.got = TRUE])
    /\ UNCHANGED <<chain, h, late, gaveUp, restarts>>

\* The handler of the event.  The tracker it belongs to is settled, unless the socket
\* failed before and it waits for its next try; the next tracker starts in either case.
Handle(t) ==
    /\ tracker[t].at # "free" /\ tracker[t].got
    /\ h' = After(h, tracker[t].on)
    /\ \E s \in Following(h', 0) :
          \/ /\ tracker[t].at # "waiting"
             /\ Becomes(t, s)
          \/ /\ tracker[t].at = "waiting"
             /\ \E u \in Trackers :
                   /\ tracker[u] = Free
                   /\ tracker' = [tracker EXCEPT ![t].got = FALSE, ![u] = s]
    /\ UNCHANGED <<chain, late, gaveUp, restarts>>

\* Mutant: one try too many.
Reject_OffByOne(t) ==
    \/ /\ tracker[t].tries <= MaxRetries
       /\ Becomes(t, [tracker[t] EXCEPT !.at = "waiting", !.tries = @ + 1])
       /\ UNCHANGED gaveUp
    \/ /\ tracker[t].tries > MaxRetries
       /\ Becomes(t, Free)
       /\ gaveUp' = TRUE

\* retry: the promise of the tracker is rejected.
Reject(t) ==
    \/ /\ tracker[t].tries < MaxRetries
       /\ Becomes(t, [tracker[t] EXCEPT !.at = "waiting", !.tries = @ + 1])
       /\ UNCHANGED gaveUp
    \/ /\ tracker[t].tries = MaxRetries
       /\ Becomes(t, IF tracker[t].got THEN [tracker[t] EXCEPT !.at = "over"] ELSE Free)
       /\ gaveUp' = (gaveUp \/ ~tracker[t].got)

\* Mutant: the close of a socket rejects at once, like its error.
Close_Rejects(t) ==
    /\ tracker[t].at = "watching"
    /\ Reject(t)
    /\ UNCHANGED <<chain, h, late, restarts>>

\* A socket is closed by the node; it is not the tracker's own close, after its event.
Close(t) ==
    /\ tracker[t].at = "watching"
    /\ Becomes(t, [tracker[t] EXCEPT !.at = "closing"])
    /\ UNCHANGED <<chain, h, late, gaveUp, restarts>>

\* 500 ms after a close: an event on the way has been handled by then.
RejectClosed(t) ==
    /\ tracker[t].at = "closing" /\ ~tracker[t].got
    /\ Reject(t)
    /\ UNCHANGED <<chain, h, late, restarts>>

\* A socket fails.  A hop has two sockets: when one is closed the other is, which is an
\* error if it was still connecting.  Bound: once, an event is on the way then.
Error(t) ==
    /\ \/ tracker[t].at = "watching"
       \/ tracker[t].at = "closing" /\ tracker[t].on.what = "hop"
    /\ tracker[t].got => ~late
    /\ Reject(t)
    /\ late' = (late \/ tracker[t].got)
    /\ UNCHANGED <<chain, h, restarts>>

\* Seconds later: an event on the way has been handled by then.
TryAgain(t) ==
    /\ tracker[t].at = "waiting" /\ ~tracker[t].got
    /\ \E s \in Following(h, tracker[t].tries) : Becomes(t, s)
    /\ UNCHANGED <<chain, h, late, gaveUp, restarts>>

-----------------------------------------------------------------------------
\* By the user, or with a chain of the route.  Trackers keep the object they follow.
RemoveHistory ==
    /\ h.kept
    /\ h' = [h EXCEPT !.kept = FALSE]
    /\ UNCHANGED <<chain, tracker, late, gaveUp, restarts>>

\* Mutant: only what is not on its way yet is followed after a restart.
Restart_Partly ==
    /\ restarts < MaxRestarts
    /\ restarts' = restarts + 1
    /\ gaveUp' = FALSE
    /\ \E t \in Trackers, s \in IF h.fulfilled THEN {Free} ELSE Following(h, 0) :
          tracker' = [u \in Trackers |-> IF u = t THEN s ELSE Free]
    /\ UNCHANGED <<chain, h, late>>

\* The worker ends and starts: a history is stored by each change of it.
Restart ==
    /\ restarts < MaxRestarts
    /\ restarts' = restarts + 1
    /\ gaveUp' = FALSE
    /\ \E t \in Trackers, s \in Following(h, 0) :
          tracker' = [u \in Trackers |-> IF u = t THEN s ELSE Free]
    /\ UNCHANGED <<chain, h, late>>

ChainStep ==
    /\ \/ Include
       \/ \E i \in Hops : Deliver(i) \/ Fail(i) \/ Refund(i)
    /\ UNCHANGED <<h, tracker, late, gaveUp, restarts>>

Progress(t) == Arrive(t) \/ Handle(t) \/ RejectClosed(t) \/ TryAgain(t)

Next ==
    \/ ChainStep
    \/ \E t \in Trackers : Progress(t) \/ Close(t) \/ Error(t)
    \/ RemoveHistory
    \/ Restart

\* Timers fire and handlers run; a node that has seen an event answers the query that is
\* repeated every ten seconds while the socket stays open.
Spec == Init /\ [][Next]_vars /\ \A t \in Trackers : WF_vars(Progress(t))

-----------------------------------------------------------------------------
\* What the history shows of each hop has happened on the chains.
ShownIsTrue ==
    /\ \A i \in h.completed : pkt[i] \in {"received", "refused"}
    /\ \A i \in h.error : pkt[i] \in {"refused", "expired"}
    /\ \A i \in h.rewound : i \in refunded \/ pkt[i] = "expired"
    /\ h.blocked \subseteq {Leaving}

\* Success is notified only of a packet that every chain of its route has received: no
\* failed hop, removal or restart leads to the notification.
NotifiedIsDelivered ==
    h.notified => h.error = {} /\ \A i \in Hops : pkt[i] = "received"

\* A history in which something is still to come has a tracker: one that waits for just
\* that, one whose event has come and will be handled, or one that will look again.
Follows(t) ==
    /\ tracker[t] # Free
    /\ tracker[t].got \/ tracker[t].at = "waiting" \/ tracker[t].on \in Awaited(h)

StillFollowed ==
    h.kept /\ Awaited(h) # {} => gaveUp \/ \E t \in Trackers : Follows(t)

\* The amounts of a swap are those of the transaction and of each hop that was completed,
\* once each, over retries and restarts; the error of a socket with an event on the way is
\* the exception.
CountedOnce ==
    ~late => h.res = Amount * ((IF h.fulfilled THEN 1 ELSE 0) + Cardinality(h.completed))

\* A delivered packet is shown and notified in the end.
DeliveryIsShown ==
    (h.kept /\ \A i \in Hops : pkt[i] = "received") ~> (h.notified \/ ~h.kept \/ gaveUp)

\* The refund of a refused packet is shown in the end, at every hop it goes back.
RefundIsShown ==
    \A i \in Hops :
       (h.kept /\ i \in refunded /\ \A j \in Hops : pkt[j] # "expired")
          ~> (i \in h.rewound \/ ~h.kept \/ gaveUp)
=============================================================================
