------------------------------ MODULE PacketProofs ------------------------------
(***************************************************************************)
(* The history of a packet, for any number of hops, trackers, tries and    *)
(* restarts: what it shows is true, success is notified only of what was   *)
(* delivered, it is followed until it is over, and a swap counts each      *)
(* amount once.                                                            *)
(***************************************************************************)
EXTENDS PacketForwarding, FiniteSetTheorems, TLAPS

\* A packet is sent by its transaction, and what has come to a hop was received before.
InOrder ==
    /\ tx = "pending" => \A i \in Hops : pkt[i] = "unsent"
    /\ \A i \in Hops : pkt[i] # "unsent" => \A j \in Hops : j < i => pkt[j] = "received"

\* An event on the way to its handler has happened.
GotHappened == \A t \in Trackers : tracker[t] # Free /\ tracker[t].got => Happened(tracker[t].on)

NotifiedIsReceived == h.notified => pkt[N] = "received"

IInv == TypeOK /\ InOrder /\ GotHappened /\ ShownIsTrue /\ NotifiedIsReceived

LEMMA Bounds == N \in Hops /\ 1 \in Hops /\ Amount \in {0, 1}
  BY PacketAssumption DEF Hops, Amount

LEMMA EventForms ==
  ASSUME NEW e \in Events
  PROVE  \/ e.what = "tx"
         \/ e.what \in {"hop", "ack", "timeout"} /\ e.hop \in Hops
  BY DEF Events

LEMMA TargetType == ASSUME NEW x \in Histories PROVE RewindTarget(x) \subseteq Hops /\ NextHop(x) \subseteq Hops
<1>1. x.seq \subseteq Hops
  BY DEF Histories
<1>. QED BY <1>1 DEF RewindTarget, NextHop, First

LEMMA AwaitedType == ASSUME NEW x \in Histories PROVE Awaited(x) \subseteq Events
  BY TargetType DEF Awaited, Events

LEMMA FollowingType ==
  ASSUME NEW x \in Histories, NEW n \in 0..MaxRetries
  PROVE  Following(x, n) \subseteq {Free} \cup Trackings
<1>1. ASSUME NEW e \in Awaited(x) PROVE Watching(e, n) \in Trackings
  BY AwaitedType DEF Watching, Trackings
<1>. QED BY <1>1 DEF Following

LEMMA FreshTracker ==
  ASSUME NEW x \in Histories, NEW n \in 0..MaxRetries, NEW s \in Following(x, n), s # Free
  PROVE  s.at = "watching" /\ ~s.got /\ s.on \in Awaited(x)
  BY DEF Following, Watching

LEMMA AfterType ==
  ASSUME NEW x \in Histories, NEW e \in Events
  PROVE  After(x, e) \in Histories
<1>0. x.seq \cup {1} \in SUBSET Hops /\ x.res + Amount \in Nat
  BY Bounds DEF Histories
<1>1. AfterTx(x) \in Histories
  BY <1>0 DEF AfterTx, Histories
<1>2. ASSUME NEW i \in Hops PROVE AfterHop(x, i) \in Histories
  <2>1. Arrived(x, i) \in Histories
    BY <1>0 DEF Arrived, Histories
  <2>2. i # N => i + 1 \in Hops
    BY PacketAssumption DEF Hops
  <2>. QED BY <2>1, <2>2 DEF AfterHop, TimedOut, Refused, Continued, AllCompleted, Histories
<1>3. ASSUME NEW i \in Hops PROVE AfterRefund(x, i) \in Histories
  BY DEF AfterRefund, Histories
<1>. QED BY <1>1, <1>2, <1>3, EventForms DEF After

\* What has happened stays so.
Stays ==
    /\ pkt' \in [Hops -> {"unsent", "sent", "received", "refused", "expired"}]
    /\ \A i \in Hops : pkt[i] \in {"received", "refused", "expired"} => pkt'[i] = pkt[i]

LEMMA ChainStepStays ==
  ASSUME TypeOK, InOrder, ChainStep
  PROVE  Stays /\ InOrder'
<1>1. CASE Include
  <2>1. \A i \in Hops : pkt[i] = "unsent"
    BY <1>1 DEF Include, InOrder
  <2>2. pkt' = pkt \/ pkt' = [pkt EXCEPT ![1] = "sent"]
    BY <1>1 DEF Include
  <2>3. tx' # "pending"
    BY <1>1 DEF Include
  <2>4. \A i \in Hops : pkt'[i] # "unsent" => i = 1
    BY <2>1, <2>2 DEF TypeOK
  <2>5. \A j \in Hops : ~(j < 1)
    BY DEF Hops
  <2>. QED BY <2>1, <2>2, <2>3, <2>4, <2>5 DEF InOrder, Stays, TypeOK
<1>2. ASSUME NEW i \in Hops, Deliver(i) PROVE Stays /\ InOrder'
  <2>1. /\ pkt[i] = "sent" /\ tx' = tx
        /\ pkt' = [j \in Hops |-> IF j = i THEN "received" ELSE IF j = i + 1 THEN "sent" ELSE pkt[j]]
    BY <1>2 DEF Deliver
  <2>2. i + 1 \in Hops => pkt[i + 1] = "unsent"
    BY <2>1 DEF InOrder, Hops
  <2>3. Stays
    BY <2>1, <2>2 DEF Stays, TypeOK
  <2>4. ASSUME NEW k \in Hops, pkt'[k] # "unsent", NEW j \in Hops, j < k PROVE pkt'[j] = "received"
    <3>1. CASE k = i + 1
      <4>1. j = i \/ j < i
        BY <2>4, <3>1 DEF Hops
      <4>. QED BY <2>1, <2>3, <4>1 DEF InOrder, Stays
    <3>2. CASE k # i + 1
      <4>1. pkt[k] # "unsent"
        BY <2>1, <2>4, <3>2
      <4>. QED BY <2>3, <2>4, <4>1 DEF InOrder, Stays
    <3>. QED BY <3>1, <3>2
  <2>. QED BY <2>1, <2>3, <2>4 DEF InOrder
<1>3. ASSUME NEW i \in Hops, Fail(i) PROVE Stays /\ InOrder'
  <2>1. PICK how \in {"refused", "expired"} : pkt' = [pkt EXCEPT ![i] = how]
    BY <1>3 DEF Fail
  <2>2. pkt[i] = "sent" /\ tx' = tx
    BY <1>3 DEF Fail
  <2>. QED BY <2>1, <2>2 DEF InOrder, Stays, TypeOK
<1>4. ASSUME NEW i \in Hops, Refund(i) PROVE Stays /\ InOrder'
  BY <1>4 DEF Refund, InOrder, Stays, TypeOK
<1>. QED BY <1>1, <1>2, <1>3, <1>4 DEF ChainStep

LEMMA ChainStepKeeps ==
  ASSUME IInv, ChainStep
  PROVE  IInv'
<1>. USE DEF IInv
<1>1. Stays /\ InOrder'
  BY ChainStepStays
<1>2. /\ refunded \subseteq refunded' /\ refunded' \subseteq Hops
      /\ tx' \in {"pending", "included", "failed"} /\ (tx # "pending" => tx' = tx)
      /\ UNCHANGED <<h, tracker, late, gaveUp, restarts>>
  BY DEF ChainStep, Include, Deliver, Fail, Refund, TypeOK
<1>3. TypeOK'
  BY <1>1, <1>2 DEF TypeOK, Stays
<1>4. ASSUME NEW e \in Events, Happened(e) PROVE Happened(e)'
  <2>1. e.what \in {"tx", "hop", "ack", "timeout"} /\ (e.what # "tx" => e.hop \in Hops)
    BY EventForms
  <2>. QED BY <1>1, <1>2, <1>4, <2>1 DEF Happened, Stays
<1>5. \A t \in Trackers : tracker[t] # Free => tracker[t].on \in Events
  BY DEF TypeOK, Trackings
<1>6. GotHappened'
  BY <1>2, <1>4, <1>5 DEF GotHappened
<1>7. h \in Histories
  BY DEF TypeOK
<1>8. ShownIsTrue' /\ NotifiedIsReceived'
  BY <1>1, <1>2, <1>7, Bounds DEF ShownIsTrue, NotifiedIsReceived, Histories, Stays
<1>. QED BY <1>1, <1>3, <1>6, <1>8

LEMMA TrackerForms ==
  ASSUME TypeOK, NEW t \in Trackers
  PROVE  /\ tracker[t] = Free \/ tracker[t] \in Trackings
         /\ tracker[t] = Free <=> tracker[t].at = "free"
         /\ tracker[t] # Free => tracker[t].on \in Events
BY DEF TypeOK, Trackings, Free

\* A tracker that starts or starts again has nothing on the way.
LEMMA StartKeeps ==
  ASSUME IInv, NEW n \in 0..MaxRetries, NEW s \in Following(h, n), NEW t \in Trackers,
         UNCHANGED <<chain, h>>, late' \in BOOLEAN, gaveUp' \in BOOLEAN, restarts' \in 0..MaxRestarts,
         \/ tracker' = [tracker EXCEPT ![t] = s]
         \/ tracker' = [u \in Trackers |-> IF u = t THEN s ELSE Free]
  PROVE  IInv'
<1>. USE DEF IInv
<1>1. s \in {Free} \cup Trackings
  BY FollowingType DEF TypeOK
<1>2. TypeOK'
  BY <1>1 DEF TypeOK, chain
<1>3. \A e : Happened(e)' <=> Happened(e)
  BY DEF Happened, chain
<1>4. s = Free \/ ~s.got
  BY FreshTracker DEF TypeOK
<1>5. GotHappened'
  BY <1>3, <1>4 DEF GotHappened, TypeOK
<1>. QED BY <1>2, <1>5 DEF chain, InOrder, ShownIsTrue, NotifiedIsReceived

\* A handler shows what has happened, and no more.
LEMMA AfterShows ==
  ASSUME IInv, NEW e \in Events, Happened(e), UNCHANGED chain, h' = After(h, e)
  PROVE  ShownIsTrue' /\ NotifiedIsReceived'
<1>. USE DEF IInv, chain
<1>0. h \in Histories
  BY DEF TypeOK
<1>1. CASE e.what = "tx"
  <2>1. h' = AfterTx(h)
    BY <1>1 DEF After
  <2>2. /\ h'.completed = h.completed /\ h'.error = h.error /\ h'.rewound = h.rewound
        /\ h'.blocked = h.blocked /\ h'.notified = h.notified
    BY <2>1, <1>0 DEF AfterTx, Histories
  <2>. QED BY <2>2 DEF ShownIsTrue, NotifiedIsReceived
<1>2. CASE e.what = "hop"
  <2>1. h' = AfterHop(h, e.hop) /\ e.hop \in Hops /\ pkt[e.hop] \in {"received", "refused", "expired"}
    BY <1>2, EventForms DEF After, Happened
  <2>2. /\ h'.rewound = h.rewound /\ h'.blocked = h.blocked
        /\ h'.completed = IF pkt[e.hop] = "expired" THEN h.completed ELSE h.completed \cup {e.hop}
        /\ h'.error = IF pkt[e.hop] = "received" THEN h.error ELSE h.error \cup {e.hop}
        /\ h'.notified => h.notified \/ (e.hop = N /\ pkt[N] = "received")
    BY <2>1, <1>0 DEF AfterHop, TimedOut, Refused, Continued, AllCompleted, Arrived, Histories
  <2>. QED BY <2>1, <2>2 DEF ShownIsTrue, NotifiedIsReceived
<1>3. CASE e.what \in {"ack", "timeout"}
  <2>1. h' = AfterRefund(h, e.hop) /\ (e.hop \in refunded \/ pkt[e.hop] = "expired")
    BY <1>3 DEF After, Happened
  <2>2. /\ h'.completed = h.completed /\ h'.error = h.error /\ h'.notified = h.notified
        /\ h'.rewound = h.rewound \cup {e.hop}
        /\ h'.blocked \subseteq h.blocked \cup {Leaving}
    BY <2>1, <1>0 DEF AfterRefund, Histories
  <2>. QED BY <2>1, <2>2 DEF ShownIsTrue, NotifiedIsReceived
<1>. QED BY <1>1, <1>2, <1>3, EventForms

LEMMA HandleKeeps ==
  ASSUME IInv, NEW t \in Trackers, Handle(t)
  PROVE  IInv'
<1>. USE DEF IInv
<1>. DEFINE e == tracker[t].on
<1>1. e \in Events /\ Happened(e) /\ h' = After(h, e)
  BY TrackerForms DEF Handle, GotHappened
<1>2. UNCHANGED <<chain, late, gaveUp, restarts>>
  BY DEF Handle
<1>3. h' \in Histories
  BY <1>1, AfterType DEF TypeOK
<1>4. PICK s \in Following(h', 0) :
         \/ tracker' = [tracker EXCEPT ![t] = s]
         \/ \E u \in Trackers : tracker' = [tracker EXCEPT ![t].got = FALSE, ![u] = s]
  BY DEF Handle, Becomes
<1>5. s \in {Free} \cup Trackings /\ (s = Free \/ ~s.got)
  BY <1>3, FollowingType, FreshTracker, PacketAssumption
<1>6. tracker[t] \in Trackings /\ [tracker[t] EXCEPT !.got = FALSE] \in Trackings
  BY TrackerForms DEF Handle, Trackings
<1>7. TypeOK'
  BY <1>2, <1>3, <1>4, <1>5, <1>6 DEF TypeOK, chain
<1>8. \A x : Happened(x)' <=> Happened(x)
  BY <1>2 DEF Happened, chain
<1>9. ASSUME NEW u \in Trackers, tracker'[u] # Free, tracker'[u].got PROVE tracker'[u] = tracker[u]
  BY <1>4, <1>5, <1>6, <1>9 DEF TypeOK, Trackings
<1>10. GotHappened'
  BY <1>8, <1>9 DEF GotHappened
<1>11. ShownIsTrue' /\ NotifiedIsReceived'
  BY <1>1, <1>2, AfterShows
<1>. QED BY <1>2, <1>7, <1>10, <1>11 DEF chain, InOrder

\* The other steps of a tracker leave the history alone, and what is on its way.
LEMMA TrackerOnlyKeeps ==
  ASSUME IInv, NEW t \in Trackers, NEW s \in {Free} \cup Trackings, Becomes(t, s),
         UNCHANGED <<chain, h, restarts>>, late' \in BOOLEAN, gaveUp' \in BOOLEAN,
         s # Free /\ s.got => Happened(s.on)
  PROVE  IInv'
<1>. USE DEF IInv
<1>1. TypeOK'
  BY DEF TypeOK, Becomes, chain
<1>2. \A x : Happened(x)' <=> Happened(x)
  BY DEF Happened, chain
<1>3. GotHappened'
  BY <1>2 DEF GotHappened, Becomes, TypeOK
<1>. QED BY <1>1, <1>3 DEF chain, InOrder, ShownIsTrue, NotifiedIsReceived

LEMMA ArriveKeeps ==
  ASSUME IInv, NEW t \in Trackers, Arrive(t)
  PROVE  IInv'
<1>. DEFINE s == [tracker[t] EXCEPT !.got = TRUE]
<1>1. s \in Trackings /\ s.on = tracker[t].on
  BY TrackerForms DEF IInv, Arrive, Trackings
<1>2. Becomes(t, s) /\ Happened(s.on) /\ UNCHANGED <<chain, h, late, gaveUp, restarts>>
  BY <1>1 DEF Arrive
<1>. HIDE DEF s
<1>. QED BY <1>1, <1>2, TrackerOnlyKeeps DEF IInv, TypeOK

LEMMA CloseKeeps ==
  ASSUME IInv, NEW t \in Trackers, Close(t)
  PROVE  IInv'
<1>. DEFINE s == [tracker[t] EXCEPT !.at = "closing"]
<1>1. s \in Trackings /\ s.on = tracker[t].on /\ s.got = tracker[t].got /\ tracker[t] # Free
  BY TrackerForms DEF IInv, Close, Trackings
<1>2. Becomes(t, s) /\ UNCHANGED <<chain, h, late, gaveUp, restarts>>
  BY DEF Close
<1>3. s.got => Happened(s.on)
  BY <1>1 DEF IInv, GotHappened
<1>. HIDE DEF s
<1>. QED BY <1>1, <1>2, <1>3, TrackerOnlyKeeps DEF IInv, TypeOK

LEMMA RejectKeeps ==
  ASSUME IInv, NEW t \in Trackers, tracker[t].at # "free", Reject(t),
         UNCHANGED <<chain, h, restarts>>, late' \in BOOLEAN
  PROVE  IInv'
<1>0. tracker[t] \in Trackings /\ (tracker[t].got => Happened(tracker[t].on))
  BY TrackerForms DEF IInv, GotHappened
<1>01. tracker[t].tries \in 0..MaxRetries /\ ~(MaxRetries < MaxRetries)
  BY <1>0, PacketAssumption DEF Trackings
<1>1. CASE tracker[t].tries < MaxRetries
  <2>. DEFINE s == [tracker[t] EXCEPT !.at = "waiting", !.tries = @ + 1]
  <2>0. tracker[t].tries + 1 \in 0..MaxRetries
    BY <1>0, <1>1, PacketAssumption DEF Trackings
  <2>1. s \in Trackings /\ s.on = tracker[t].on /\ s.got = tracker[t].got
    BY <1>0, <2>0 DEF Trackings
  <2>2. Becomes(t, s) /\ UNCHANGED gaveUp
    BY <1>1, <1>01 DEF Reject
  <2>. HIDE DEF s
  <2>. QED BY <1>0, <2>1, <2>2, TrackerOnlyKeeps DEF IInv, TypeOK
<1>2. CASE tracker[t].tries = MaxRetries
  <2>. DEFINE s == IF tracker[t].got THEN [tracker[t] EXCEPT !.at = "over"] ELSE Free
  <2>1. s \in {Free} \cup Trackings /\ (s # Free => s.on = tracker[t].on /\ s.got = tracker[t].got)
    BY <1>0 DEF Trackings
  <2>2. Becomes(t, s) /\ gaveUp' = (gaveUp \/ ~tracker[t].got)
    BY <1>2, <1>01 DEF Reject
  <2>3. gaveUp' \in BOOLEAN
    BY <1>0, <2>2 DEF Trackings, IInv, TypeOK
  <2>. HIDE DEF s
  <2>. QED BY <1>0, <2>1, <2>2, <2>3, TrackerOnlyKeeps
<1>. QED BY <1>0, <1>1, <1>2, PacketAssumption DEF Trackings, Reject

THEOREM Inductive == Spec => []IInv
<1>1. Init => IInv
  <2>. SUFFICES ASSUME Init PROVE IInv
    OBVIOUS
  <2>1. h \in Histories
    BY DEF Init, NewHistory, Histories
  <2>2. PICK t \in Trackers, s \in Following(h, 0) : tracker = [u \in Trackers |-> IF u = t THEN s ELSE Free]
    BY DEF Init
  <2>3. s \in {Free} \cup Trackings /\ (s = Free \/ ~s.got)
    BY <2>1, FollowingType, FreshTracker, PacketAssumption
  <2>4. tracker \in [Trackers -> {Free} \cup Trackings] /\ GotHappened
    BY <2>2, <2>3 DEF GotHappened
  <2>6. 0 \in 0..MaxRestarts
    BY PacketAssumption
  <2>7. pkt \in [Hops -> {"unsent", "sent", "received", "refused", "expired"}]
    BY DEF Init
  <2>8. TypeOK
    BY <2>1, <2>4, <2>6, <2>7 DEF Init, TypeOK
  <2>5. InOrder /\ ShownIsTrue /\ NotifiedIsReceived
    BY DEF Init, NewHistory, InOrder, ShownIsTrue, NotifiedIsReceived
  <2>. QED BY <2>4, <2>5, <2>8 DEF IInv
<1>2. IInv /\ [Next]_vars => IInv'
  <2>. SUFFICES ASSUME IInv, [Next]_vars PROVE IInv'
    OBVIOUS
  <2>1. ASSUME NEW t \in Trackers, Progress(t) PROVE IInv'
    <3>1. CASE RejectClosed(t)
      BY <3>1, RejectKeeps DEF RejectClosed, IInv, TypeOK
    <3>2. CASE TryAgain(t)
      <4>1. tracker[t].tries \in 0..MaxRetries
        BY <3>2, TrackerForms DEF IInv, TryAgain, Trackings
      <4>2. PICK s \in Following(h, tracker[t].tries) : tracker' = [tracker EXCEPT ![t] = s]
        BY <3>2 DEF TryAgain, Becomes
      <4>. QED BY <3>2, <4>1, <4>2, StartKeeps DEF TryAgain, IInv, TypeOK
    <3>. QED BY <2>1, <3>1, <3>2, ArriveKeeps, HandleKeeps DEF Progress
  <2>2. ASSUME NEW t \in Trackers, Error(t) PROVE IInv'
    <3>1. late' \in BOOLEAN
      BY <2>2 DEF Error, IInv, TypeOK
    <3>. QED BY <2>2, <3>1, RejectKeeps DEF Error
  <2>3. CASE RemoveHistory
    <3>1. h' \in Histories /\ UNCHANGED <<chain, tracker, late, gaveUp, restarts>>
      BY <2>3 DEF RemoveHistory, IInv, TypeOK, Histories
    <3>2. /\ h'.completed = h.completed /\ h'.error = h.error /\ h'.rewound = h.rewound
          /\ h'.blocked = h.blocked /\ h'.notified = h.notified
      BY <2>3 DEF RemoveHistory, IInv, TypeOK, Histories
    <3>3. \A x : Happened(x)' <=> Happened(x)
      BY <3>1 DEF Happened, chain
    <3>. QED BY <3>1, <3>2, <3>3
         DEF IInv, TypeOK, chain, GotHappened, InOrder, ShownIsTrue, NotifiedIsReceived
  <2>4. CASE Restart
    <3>1. PICK t \in Trackers, s \in Following(h, 0) :
             tracker' = [u \in Trackers |-> IF u = t THEN s ELSE Free]
      BY <2>4 DEF Restart
    <3>2. restarts < MaxRestarts /\ restarts' = restarts + 1 /\ gaveUp' = FALSE
          /\ UNCHANGED <<chain, h>> /\ late' \in BOOLEAN
      BY <2>4 DEF Restart, IInv, TypeOK
    <3>3. restarts' \in 0..MaxRestarts
      BY <3>2, PacketAssumption DEF IInv, TypeOK
    <3>4. 0 \in 0..MaxRetries
      BY PacketAssumption
    <3>. QED BY <3>1, <3>2, <3>3, <3>4, StartKeeps
  <2>5. CASE UNCHANGED vars
    BY <2>5 DEF vars, chain, IInv, TypeOK, GotHappened, Happened, InOrder, ShownIsTrue,
                NotifiedIsReceived
  <2>. QED BY <2>1, <2>2, <2>3, <2>4, <2>5, ChainStepKeeps, CloseKeeps DEF Next
<1>. QED BY <1>1, <1>2, PTL DEF Spec

\* The chains, the history and the trackers keep their types.
THEOREM TypeCorrect == Spec => []TypeOK
  BY Inductive, PTL DEF IInv

\* What the history shows of a hop has happened there.
THEOREM Shown == Spec => []ShownIsTrue
  BY Inductive, PTL DEF IInv

\* Success is notified only of what all chains have received.
THEOREM Notified == Spec => []NotifiedIsDelivered
<1>1. IInv => NotifiedIsDelivered
  <2>. SUFFICES ASSUME IInv, h.notified PROVE h.error = {} /\ \A i \in Hops : pkt[i] = "received"
    BY DEF NotifiedIsDelivered
  <2>1. ASSUME NEW i \in Hops PROVE pkt[i] = "received"
    <3>1. i = N \/ i < N
      BY PacketAssumption DEF Hops
    <3>. QED BY <3>1, Bounds DEF IInv, NotifiedIsReceived, InOrder
  <2>2. h.error \subseteq Hops
    BY DEF IInv, TypeOK, Histories
  <2>. QED BY <2>1, <2>2 DEF IInv, ShownIsTrue
<1>. QED BY <1>1, Inductive, PTL

-----------------------------------------------------------------------------
\* Each step that changes what is awaited starts a tracker for what is awaited then.
LEMMA Started ==
  ASSUME NEW n, NEW s \in Following(h, n)', NEW t \in Trackers, tracker'[t] = s
  PROVE  StillFollowed'
<1>1. h'.kept /\ Awaited(h)' # {} => s.at = "watching" /\ s.on \in Awaited(h)' /\ s.got = FALSE
  BY DEF Following, Watching
<1>2. s.at = "watching" => s # Free
  BY DEF Free
<1>. QED BY <1>1, <1>2 DEF StillFollowed, Follows

LEMMA AllFollowed ==
  ASSUME StillFollowed, UNCHANGED <<h, tracker, gaveUp>>
  PROVE  StillFollowed'
<1>1. Awaited(h)' = Awaited(h)
  BY DEF Awaited, RewindTarget, NextHop
<1>2. \A t \in Trackers : Follows(t)' <=> Follows(t)
  BY <1>1 DEF Follows
<1>. QED BY <1>1, <1>2 DEF StillFollowed

\* A tracker that changes neither its event nor whether it has come goes on following.
LEMMA Followed ==
  ASSUME StillFollowed, UNCHANGED h, gaveUp => gaveUp', NEW t \in Trackers, NEW s, Becomes(t, s),
         TypeOK,
         Follows(t) => gaveUp' \/ (s # Free /\ (s.got \/ s.at = "waiting" \/ s.on \in Awaited(h)))
  PROVE  StillFollowed'
<1>1. tracker' = [tracker EXCEPT ![t] = s] /\ tracker' \in [Trackers -> {Free, s} \cup Trackings]
  BY DEF Becomes, TypeOK
<1>2. Awaited(h)' = Awaited(h)
  BY DEF Awaited, RewindTarget, NextHop
<1>3. ASSUME NEW u \in Trackers, Follows(u), ~gaveUp' PROVE Follows(u)'
  BY <1>1, <1>2, <1>3 DEF Follows, TypeOK
<1>. QED BY <1>2, <1>3 DEF StillFollowed

LEMMA RejectFollowed ==
  ASSUME IInv, StillFollowed, UNCHANGED h, NEW t \in Trackers, tracker[t].at # "free", Reject(t)
  PROVE  StillFollowed'
<1>0. tracker[t] \in Trackings
  BY TrackerForms DEF IInv
<1>1. CASE Becomes(t, [tracker[t] EXCEPT !.at = "waiting", !.tries = @ + 1]) /\ UNCHANGED gaveUp
  <2>. DEFINE s == [tracker[t] EXCEPT !.at = "waiting", !.tries = @ + 1]
  <2>1. s.at = "waiting" /\ s # Free
    BY <1>0 DEF Trackings, Free
  <2>2. Becomes(t, s) /\ UNCHANGED gaveUp
    BY <1>1
  <2>. HIDE DEF s
  <2>. QED BY <2>1, <2>2, Followed DEF IInv
<1>2. CASE /\ Becomes(t, IF tracker[t].got THEN [tracker[t] EXCEPT !.at = "over"] ELSE Free)
           /\ gaveUp' = (gaveUp \/ ~tracker[t].got)
  <2>. DEFINE s == IF tracker[t].got THEN [tracker[t] EXCEPT !.at = "over"] ELSE Free
  <2>1. tracker[t].got => s.got /\ s # Free
    BY <1>0 DEF Trackings, Free
  <2>2. Becomes(t, s) /\ (gaveUp => gaveUp') /\ (~tracker[t].got => gaveUp')
    BY <1>2
  <2>. HIDE DEF s
  <2>. QED BY <2>1, <2>2, Followed DEF IInv
<1>. QED BY <1>1, <1>2 DEF Reject

\* A history is followed until nothing is to come, unless a tracker has used up its tries.
THEOREM NotLost == Spec => []StillFollowed
<1>1. Init => StillFollowed
  <2>. SUFFICES ASSUME Init PROVE StillFollowed
    OBVIOUS
  <2>1. PICK t \in Trackers, s \in Following(h, 0) : tracker = [u \in Trackers |-> IF u = t THEN s ELSE Free]
    BY DEF Init
  <2>2. h.kept /\ Awaited(h) # {} => s.at = "watching" /\ s.on \in Awaited(h) /\ s.got = FALSE
    BY DEF Following, Watching
  <2>3. s.at = "watching" => s # Free
    BY DEF Free
  <2>. QED BY <2>1, <2>2, <2>3 DEF StillFollowed, Follows
<1>2. IInv /\ StillFollowed /\ [Next]_vars => StillFollowed'
  <2>. SUFFICES ASSUME IInv, StillFollowed, [Next]_vars PROVE StillFollowed'
    OBVIOUS
  <2>1. CASE ChainStep
    <3>1. UNCHANGED <<h, tracker, gaveUp>>
      BY <2>1 DEF ChainStep
    <3>. QED BY <3>1, AllFollowed
  <2>2. ASSUME NEW t \in Trackers, Arrive(t) PROVE StillFollowed'
    <3>. DEFINE s == [tracker[t] EXCEPT !.got = TRUE]
    <3>1. s.got /\ s # Free /\ Becomes(t, s) /\ UNCHANGED <<h, gaveUp>>
      BY <2>2, TrackerForms DEF Arrive, IInv, Trackings, Free
    <3>. HIDE DEF s
    <3>. QED BY <3>1, Followed DEF IInv
  <2>3. ASSUME NEW t \in Trackers, Handle(t) PROVE StillFollowed'
    <3>1. PICK s \in Following(h', 0) :
             \/ tracker' = [tracker EXCEPT ![t] = s]
             \/ \E u \in Trackers : tracker' = [tracker EXCEPT ![t].got = FALSE, ![u] = s]
      BY <2>3 DEF Handle, Becomes
    <3>2. \E u \in Trackers : tracker'[u] = s
      BY <3>1 DEF IInv, TypeOK
    <3>. QED BY <3>2, Started
  <2>4. ASSUME NEW t \in Trackers, Close(t) PROVE StillFollowed'
    <3>. DEFINE s == [tracker[t] EXCEPT !.at = "closing"]
    <3>1. /\ s.got = tracker[t].got /\ s.on = tracker[t].on /\ s # Free /\ Becomes(t, s)
          /\ tracker[t].at # "waiting" /\ UNCHANGED <<h, gaveUp>>
      BY <2>4, TrackerForms DEF Close, IInv, Trackings, Free
    <3>. HIDE DEF s
    <3>. QED BY <3>1, Followed DEF IInv, Follows
  <2>5. ASSUME NEW t \in Trackers, RejectClosed(t) \/ Error(t) PROVE StillFollowed'
    BY <2>5, RejectFollowed DEF RejectClosed, Error
  <2>6. ASSUME NEW t \in Trackers, TryAgain(t) PROVE StillFollowed'
    <3>1. PICK s \in Following(h, tracker[t].tries) : tracker' = [tracker EXCEPT ![t] = s]
      BY <2>6 DEF TryAgain, Becomes
    <3>2. tracker'[t] = s /\ h' = h
      BY <3>1, <2>6 DEF TryAgain, IInv, TypeOK
    <3>. QED BY <3>2, Started
  <2>7. CASE RemoveHistory
    <3>1. ~h'.kept
      BY <2>7 DEF RemoveHistory, IInv, TypeOK, Histories
    <3>. QED BY <3>1 DEF StillFollowed
  <2>8. CASE Restart
    <3>1. PICK t \in Trackers, s \in Following(h, 0) :
             tracker' = [u \in Trackers |-> IF u = t THEN s ELSE Free]
      BY <2>8 DEF Restart
    <3>2. tracker'[t] = s /\ h' = h
      BY <2>8, <3>1 DEF Restart
    <3>. QED BY <3>2, Started
  <2>9. CASE UNCHANGED vars
    BY <2>9, AllFollowed DEF vars
  <2>. QED BY <2>1, <2>2, <2>3, <2>4, <2>5, <2>6, <2>7, <2>8, <2>9 DEF Next, Progress
<1>. QED BY <1>1, <1>2, Inductive, PTL DEF Spec

-----------------------------------------------------------------------------
\* As long as no event was overtaken by an error there is one tracker, which waits for
\* what is to come: no event is handled twice.
OneTracker ==
    /\ \A t, u \in Trackers : tracker[t] # Free /\ tracker[u] # Free => t = u
    /\ \A t \in Trackers : tracker[t] # Free /\ tracker[t].at \in {"watching", "closing"}
                              => tracker[t].on \in Awaited(h)
    /\ \A t \in Trackers : tracker[t] # Free /\ tracker[t].got
                              => tracker[t].at \in {"watching", "closing"}

Number(x) == (IF x.fulfilled THEN 1 ELSE 0) + Cardinality(x.completed)

Counted(x) == x.res = Amount * Number(x)

Once == ~late => OneTracker /\ Counted(h)

LEMMA NumberType == ASSUME NEW x \in Histories PROVE IsFiniteSet(x.completed) /\ Number(x) \in Nat
<1>1. IsFiniteSet(Hops)
  BY FS_Interval, PacketAssumption DEF Hops
<1>2. x.completed \in SUBSET Hops
  BY DEF Histories
<1>3. IsFiniteSet(x.completed)
  BY <1>1, <1>2, FS_Subset
<1>. QED BY <1>3, FS_CardinalityType DEF Number

LEMMA Adds ==
  ASSUME NEW x \in Histories, NEW y \in Histories, Counted(x),
         y.res = x.res + Amount, Number(y) = Number(x) + 1
  PROVE  Counted(y)
<1>. Number(x) \in Nat
  BY NumberType
<1>1. CASE Amount = 0
  BY <1>1 DEF Counted
<1>2. CASE Amount = 1
  BY <1>2 DEF Counted
<1>. QED BY <1>1, <1>2, Bounds

\* The handler of what was awaited counts it.
LEMMA AfterCounts ==
  ASSUME NEW x \in Histories, NEW e \in Awaited(x), Counted(x)
  PROVE  Counted(After(x, e))
<1>. DEFINE y == After(x, e)
<1>. SUFFICES Counted(y)
  OBVIOUS
<1>0. e \in Events /\ y \in Histories
  BY AwaitedType, AfterType
<1>1. CASE e.what = "tx"
  <2>1. ~x.fulfilled
    BY <1>1 DEF Awaited
  <2>2. y = AfterTx(x)
    BY <1>1 DEF After
  <2>3. CASE tx = "failed"
    <3>1. y.res = x.res /\ y.fulfilled = x.fulfilled /\ y.completed = x.completed
      BY <2>2, <2>3 DEF AfterTx, Histories
    <3>. HIDE DEF y
    <3>. QED BY <3>1 DEF Counted, Number
  <2>4. CASE tx # "failed"
    <3>1. y.res = x.res + Amount /\ y.fulfilled /\ y.completed = x.completed
      BY <2>2, <2>4 DEF AfterTx, Histories
    <3>2. Cardinality(x.completed) \in Nat
      BY NumberType, FS_CardinalityType
    <3>. HIDE DEF y
    <3>3. Number(y) = Number(x) + 1
      BY <2>1, <3>1, <3>2 DEF Number
    <3>. QED BY <1>0, <3>1, <3>3, Adds
  <2>. QED BY <2>3, <2>4
<1>2. CASE e.what = "hop"
  <2>1. e.hop \in Hops /\ e.hop \notin x.completed
    BY <1>2 DEF Awaited, NextHop, First
  <2>2. y = AfterHop(x, e.hop)
    BY <1>2 DEF After
  <2>3. CASE pkt[e.hop] = "expired"
    <3>1. y.res = x.res /\ y.fulfilled = x.fulfilled /\ y.completed = x.completed
      BY <2>2, <2>3 DEF AfterHop, TimedOut, Refused, Continued, AllCompleted, Histories
    <3>. HIDE DEF y
    <3>. QED BY <3>1 DEF Counted, Number
  <2>4. CASE pkt[e.hop] # "expired"
    <3>1. y.res = x.res + Amount /\ y.fulfilled = x.fulfilled /\ y.completed = x.completed \cup {e.hop}
      BY <2>2, <2>4 DEF AfterHop, TimedOut, Refused, Continued, AllCompleted, Arrived, Histories
    <3>2. Cardinality(x.completed \cup {e.hop}) = Cardinality(x.completed) + 1
          /\ Cardinality(x.completed) \in Nat
      BY <2>1, NumberType, FS_AddElement, FS_CardinalityType
    <3>. HIDE DEF y
    <3>3. Number(y) = Number(x) + 1
      BY <3>1, <3>2 DEF Number
    <3>. QED BY <1>0, <3>1, <3>3, Adds
  <2>. QED BY <2>3, <2>4
<1>3. CASE e.what \in {"ack", "timeout"}
  <2>1. y.res = x.res /\ y.fulfilled = x.fulfilled /\ y.completed = x.completed
    BY <1>3 DEF After, AfterRefund, Histories
  <2>. HIDE DEF y
  <2>. QED BY <2>1 DEF Counted, Number
<1>. QED BY <1>0, <1>1, <1>2, <1>3, EventForms

LEMMA SameAwaited == ASSUME UNCHANGED h PROVE Awaited(h)' = Awaited(h) /\ (Counted(h)' <=> Counted(h))
  BY DEF Awaited, RewindTarget, NextHop, Counted, Number

\* The one tracker goes on as it should.
LEMMA OneGoesOn ==
  ASSUME TypeOK, OneTracker, NEW t \in Trackers, tracker[t] # Free, NEW s, Becomes(t, s),
         s # Free => /\ s.at \in {"watching", "closing"} => s.on \in Awaited(h)'
                     /\ s.got => s.at \in {"watching", "closing"}
  PROVE  OneTracker'
<1>1. \A u \in Trackers : tracker'[u] = IF u = t THEN s ELSE Free
  BY DEF TypeOK, Becomes, OneTracker
<1>. QED BY <1>1 DEF OneTracker

LEMMA RejectOnce ==
  ASSUME IInv, Once, NEW t \in Trackers, tracker[t].at # "free", Reject(t), UNCHANGED h,
         late' <=> late \/ tracker[t].got
  PROVE  Once'
<1>. SUFFICES ASSUME ~late' PROVE OneTracker' /\ Counted(h)'
  BY DEF Once
<1>1. OneTracker /\ Counted(h) /\ tracker[t].got = FALSE /\ tracker[t] \in Trackings
  BY TrackerForms DEF Once, IInv, Trackings
<1>2. CASE Becomes(t, [tracker[t] EXCEPT !.at = "waiting", !.tries = @ + 1])
  <2>. DEFINE s == [tracker[t] EXCEPT !.at = "waiting", !.tries = @ + 1]
  <2>1. s.at = "waiting" /\ s.got = FALSE
    BY <1>1 DEF Trackings
  <2>2. Becomes(t, s) /\ tracker[t] # Free
    BY <1>1, <1>2 DEF Free
  <2>. HIDE DEF s
  <2>. QED BY <1>1, <2>1, <2>2, OneGoesOn, SameAwaited DEF IInv
<1>3. CASE Becomes(t, IF tracker[t].got THEN [tracker[t] EXCEPT !.at = "over"] ELSE Free)
  <2>1. Becomes(t, Free) /\ tracker[t] # Free
    BY <1>1, <1>3 DEF Free
  <2>. QED BY <1>1, <2>1, OneGoesOn, SameAwaited DEF IInv
<1>. QED BY <1>2, <1>3 DEF Reject

\* Without such an error, a swap counts what has arrived once each.
THEOREM CountsOnce == Spec => []CountedOnce
<1>1. Init => Once
  <2>. SUFFICES ASSUME Init PROVE OneTracker /\ Counted(h)
    BY DEF Once
  <2>1. PICK t \in Trackers, s \in Following(h, 0) : tracker = [u \in Trackers |-> IF u = t THEN s ELSE Free]
    BY DEF Init
  <2>2. s # Free => s.on \in Awaited(h) /\ s.got = FALSE
    BY DEF Following, Watching
  <2>3. OneTracker
    BY <2>1, <2>2 DEF OneTracker
  <2>4. h.res = 0 /\ ~h.fulfilled /\ h.completed = {}
    BY DEF Init, NewHistory
  <2>5. Number(h) = 0
    BY <2>4, FS_EmptySet DEF Number
  <2>. QED BY <2>3, <2>4, <2>5, Bounds DEF Counted
<1>2. IInv /\ Once /\ [Next]_vars => Once'
  <2>. SUFFICES ASSUME IInv, Once, [Next]_vars PROVE Once'
    OBVIOUS
  <2>1. ASSUME UNCHANGED <<h, tracker, late>> PROVE Once'
    BY <2>1, SameAwaited DEF Once, OneTracker
  <2>2. ASSUME NEW t \in Trackers, Arrive(t) PROVE Once'
    <3>. SUFFICES ASSUME ~late PROVE OneTracker' /\ Counted(h)'
      BY <2>2 DEF Once, Arrive
    <3>. DEFINE s == [tracker[t] EXCEPT !.got = TRUE]
    <3>1. s.at = "watching" /\ s.on = tracker[t].on /\ tracker[t] # Free /\ Becomes(t, s) /\ UNCHANGED h
      BY <2>2, TrackerForms DEF Arrive, IInv, Trackings, Free
    <3>2. OneTracker /\ Counted(h) /\ s.on \in Awaited(h)
      BY <2>2, <3>1 DEF Once, OneTracker, Arrive
    <3>. HIDE DEF s
    <3>. QED BY <3>1, <3>2, OneGoesOn, SameAwaited DEF IInv
  <2>3. ASSUME NEW t \in Trackers, Handle(t) PROVE Once'
    <3>. SUFFICES ASSUME ~late PROVE OneTracker' /\ Counted(h)'
      BY <2>3 DEF Once, Handle
    <3>1. tracker[t] # Free /\ tracker[t].at # "waiting" /\ tracker[t].on \in Awaited(h)
      BY <2>3 DEF Handle, Once, OneTracker, Free
    <3>2. PICK s \in Following(h', 0) : Becomes(t, s)
      BY <2>3, <3>1 DEF Handle
    <3>3. s # Free => s.on \in Awaited(h)' /\ s.got = FALSE
      BY DEF Following, Watching
    <3>4. OneTracker'
      BY <3>1, <3>2, <3>3, OneGoesOn DEF Once, IInv
    <3>5. h' = After(h, tracker[t].on) /\ h \in Histories /\ Counted(h)
      BY <2>3 DEF Handle, IInv, TypeOK, Once
    <3>6. Counted(After(h, tracker[t].on))
      BY <3>1, <3>5, AfterCounts
    <3>7. Amount' = Amount
      BY DEF Amount
    <3>. QED BY <3>4, <3>5, <3>6, <3>7 DEF Counted, Number
  <2>4. ASSUME NEW t \in Trackers, Close(t) PROVE Once'
    <3>. SUFFICES ASSUME ~late PROVE OneTracker' /\ Counted(h)'
      BY <2>4 DEF Once, Close
    <3>. DEFINE s == [tracker[t] EXCEPT !.at = "closing"]
    <3>1. s.at = "closing" /\ s.on = tracker[t].on /\ tracker[t] # Free /\ Becomes(t, s) /\ UNCHANGED h
      BY <2>4, TrackerForms DEF Close, IInv, Trackings, Free
    <3>2. OneTracker /\ Counted(h) /\ s.on \in Awaited(h)
      BY <2>4, <3>1 DEF Once, OneTracker, Close
    <3>. HIDE DEF s
    <3>. QED BY <3>1, <3>2, OneGoesOn, SameAwaited DEF IInv
  <2>5. ASSUME NEW t \in Trackers, RejectClosed(t) PROVE Once'
    <3>1. late' <=> late \/ tracker[t].got
      BY <2>5 DEF RejectClosed
    <3>. QED BY <2>5, <3>1, RejectOnce DEF RejectClosed
  <2>6. ASSUME NEW t \in Trackers, Error(t) PROVE Once'
    BY <2>6, RejectOnce DEF Error
  <2>7. ASSUME NEW t \in Trackers, TryAgain(t) PROVE Once'
    <3>. SUFFICES ASSUME ~late PROVE OneTracker' /\ Counted(h)'
      BY <2>7 DEF Once, TryAgain
    <3>1. PICK s \in Following(h, tracker[t].tries) : Becomes(t, s)
      BY <2>7 DEF TryAgain
    <3>2. s # Free => s.on \in Awaited(h) /\ s.got = FALSE
      BY DEF Following, Watching
    <3>3. tracker[t] # Free /\ UNCHANGED h /\ OneTracker /\ Counted(h)
      BY <2>7 DEF TryAgain, Once, Free
    <3>. QED BY <3>1, <3>2, <3>3, OneGoesOn, SameAwaited DEF IInv
  <2>8. CASE RemoveHistory
    <3>1. /\ UNCHANGED <<tracker, late>>
          /\ h'.fulfilled = h.fulfilled /\ h'.timeout = h.timeout /\ h'.seq = h.seq
          /\ h'.completed = h.completed /\ h'.error = h.error /\ h'.rewound = h.rewound
          /\ h'.blocked = h.blocked /\ h'.res = h.res
      BY <2>8 DEF RemoveHistory, IInv, TypeOK, Histories
    <3>2. Awaited(h)' = Awaited(h) /\ (Counted(h)' <=> Counted(h))
      BY <3>1 DEF Awaited, RewindTarget, NextHop, Counted, Number
    <3>. QED BY <3>1, <3>2 DEF Once, OneTracker
  <2>9. CASE Restart
    <3>1. PICK t \in Trackers, s \in Following(h, 0) :
             tracker' = [u \in Trackers |-> IF u = t THEN s ELSE Free]
      BY <2>9 DEF Restart
    <3>2. s # Free => s.on \in Awaited(h) /\ s.got = FALSE
      BY DEF Following, Watching
    <3>3. UNCHANGED <<h, late>>
      BY <2>9 DEF Restart
    <3>4. OneTracker'
      BY <3>1, <3>2, <3>3, SameAwaited DEF OneTracker
    <3>. QED BY <3>3, <3>4, SameAwaited DEF Once
  <2>10. CASE UNCHANGED vars
    BY <2>1, <2>10 DEF vars
  <2>11. CASE ChainStep
    BY <2>1, <2>11 DEF ChainStep
  <2>. QED BY <2>2, <2>3, <2>4, <2>5, <2>6, <2>7, <2>8, <2>9, <2>10, <2>11 DEF Next, Progress
<1>3. Once => CountedOnce
  BY DEF Once, Counted, Number, CountedOnce
<1>. QED BY <1>1, <1>2, <1>3, Inductive, PTL DEF Spec
=============================================================================
