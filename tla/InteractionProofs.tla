---------------------------- MODULE InteractionProofs ----------------------------
(***************************************************************************)
(* Theorems about the interaction service, for any number of requests,     *)
(* windows, messages of the UI and ping loops.                             *)
(***************************************************************************)
EXTENDS InteractionService, TLAPS

\* The kind of a request that has been made is one of Kinds.
KindKnown == \A id \in Ids : request[id].pc # "unused" => Kind(id) \in Kinds

\* A message waits for the interaction whose resolvers it is listed in.
ListedWaits == \A c \in Callers, id \in Ids : c \in resolverV2[id] => caller[c] = id

\* The inductive invariant.
IInv ==
    /\ TypeOK
    /\ KindKnown
    /\ PendingIsAnswerable
    /\ PanelIsWatched
    /\ ListedWaits

RequestType == [Ids -> [pc : RequestPcs, kind : Kinds \cup {None}]]

LoopType == [pc : {"off", "sleep", "ping"}, succeeded : SUBSET Windows,
             todo : SUBSET Windows, at : Windows \cup {None}, data : SUBSET Ids]
-----------------------------------------------------------------------------
\* Answering interactions moves each pending one of them to its answer, and keeps the
\* data and the resolvers those of the pending ones.
LEMMA SettleKeeps ==
    ASSUME TypeOK, KindKnown, PendingIsAnswerable,
           NEW ids, NEW answer \in Answers, Settle(ids, answer)
    PROVE  /\ request' \in RequestType
           /\ waiting' \subseteq Ids /\ resolver' \subseteq Ids /\ uiOpened' \subseteq Ids
           /\ KindKnown'
           /\ PendingIsAnswerable'
           /\ waiting' \subseteq waiting
<1>1. \A id \in Ids : /\ request'[id] = IF id \in ids \cap resolver
                                        THEN [request[id] EXCEPT !.pc = answer] ELSE request[id]
                      /\ request[id] \in [pc : RequestPcs, kind : Kinds \cup {None}]
  BY DEF Settle, TypeOK
<1>2. \A id \in Ids : /\ request'[id].kind = request[id].kind
                      /\ request'[id].pc = IF id \in ids \cap resolver THEN answer ELSE request[id].pc
                      /\ request'[id] \in [pc : RequestPcs, kind : Kinds \cup {None}]
  BY <1>1 DEF Answers, RequestPcs
<1>3. request' \in RequestType
  BY <1>2 DEF Settle, RequestType
<1>4. KindKnown'
  BY <1>2 DEF KindKnown, Kind, Answers, PendingIsAnswerable
<1>5. PendingIsAnswerable'
  <2>1. resolver' = resolver \ ids /\ waiting' = waiting \ ids
    BY DEF Settle
  <2>2. answer # "waiting"
    BY DEF Answers
  <2> QED
    BY <1>2, <2>1, <2>2 DEF PendingIsAnswerable
<1> QED
  BY <1>3, <1>4, <1>5 DEF Settle, TypeOK

\* So does a rejection by the service, which adds no message of the UI.
LEMMA RejectKeeps ==
    ASSUME TypeOK, KindKnown, PendingIsAnswerable, ListedWaits,
           NEW ids, RejectV2(ids), caller' = caller
    PROVE  /\ request' \in RequestType
           /\ waiting' \subseteq Ids /\ resolver' \subseteq Ids /\ uiOpened' \subseteq Ids
           /\ resolverV2' \in [Ids -> SUBSET Listeners]
           /\ KindKnown'
           /\ PendingIsAnswerable'
           /\ ListedWaits'
           /\ waiting' \subseteq waiting
<1>1. Settle(ids, "rejected")
  BY DEF RejectV2
<1>2. "rejected" \in Answers
  BY DEF Answers
<1>3. resolverV2' \in [Ids -> SUBSET Listeners]
  BY DEF RejectV2, TypeOK, Listeners
<1>4. ListedWaits'
  BY NamesAssumption DEF RejectV2, ListedWaits, TypeOK
<1> QED
  BY <1>1, <1>2, <1>3, <1>4, SettleKeeps

\* The next part of a round is a loop record, and a loop that sees a pending
\* interaction of the service goes on.
LEMMA OnwardKeeps ==
    ASSUME loop \in [Loops -> LoopType], waiting' \subseteq Ids,
           NEW l \in Loops, NEW todo \in SUBSET Windows, NEW succeeded \in SUBSET Windows,
           Onward(l, todo, succeeded)
    PROVE  /\ loop' \in [Loops -> LoopType]
           /\ waiting' # {} => loop'[l].pc # "off"
<1>1. CASE todo # {}
  <2> DEFINE data(w) == {id \in waiting' : Kind(id).window = w}
  <2>1. PICK w \in todo :
           loop' = [loop EXCEPT ![l] = [pc |-> "ping", succeeded |-> succeeded,
                                        todo |-> todo \ {w}, at |-> w, data |-> data(w)]]
    BY <1>1 DEF Onward
  <2>2. data(w) \subseteq Ids
    OBVIOUS
  <2> HIDE DEF data
  <2>3. [pc |-> "ping", succeeded |-> succeeded, todo |-> todo \ {w}, at |-> w, data |-> data(w)]
           \in LoopType
    BY <2>2 DEF LoopType
  <2>4. loop' \in [Loops -> LoopType]
    BY <2>1, <2>3
  <2>5. loop'[l].pc # "off"
    BY <2>1
  <2> QED
    BY <2>4, <2>5
<1>2. CASE todo = {}
  <2> DEFINE rest == [NoLoop EXCEPT !.pc = "sleep", !.succeeded = succeeded]
  <2>1. loop' = [loop EXCEPT ![l] = IF waiting' = {} THEN NoLoop ELSE rest]
    BY <1>2 DEF Onward
  <2>2. NoLoop \in LoopType
    BY DEF NoLoop, LoopType
  <2>3. rest \in LoopType /\ rest.pc # "off"
    BY DEF NoLoop, LoopType
  <2> HIDE DEF rest
  <2> QED
    BY <2>1, <2>2, <2>3
<1> QED
  BY <1>1, <1>2
-----------------------------------------------------------------------------
LEMMA IInvInit == Init => IInv
BY DEF Init, IInv, TypeOK, KindKnown, PendingIsAnswerable, PanelIsWatched, ListedWaits,
       NoRequest, NoLoop, RequestPcs, Kind

\* A step of a window loop.
LEMMA LoopStepKeeps ==
    ASSUME IInv, NEW l \in Loops, LoopStep(l)
    PROVE  IInv'
<1> USE DEF IInv
<1>0. /\ loop \in [Loops -> LoopType]
      /\ loop[l].todo \in SUBSET Windows /\ loop[l].succeeded \in SUBSET Windows
  BY DEF TypeOK, LoopType
<1>1. CASE LoopWakes(l)
  <2>1. waiting' \subseteq Ids /\ UNCHANGED <<request, service>>
    BY <1>1 DEF LoopWakes, TypeOK, service
  <2>2. PingedWindows \in SUBSET Windows
    BY KindsAssumption DEF PingedWindows, TypeOK, KindKnown, PendingIsAnswerable, Kind
  <2>3. Onward(l, IF sidePanel THEN PingedWindows ELSE {}, loop[l].succeeded)
    BY <1>1 DEF LoopWakes
  <2>4. loop' \in [Loops -> LoopType] /\ (waiting' # {} => loop'[l].pc # "off")
    BY <1>0, <2>1, <2>2, <2>3, OnwardKeeps
  <2>5. TypeOK'
    BY <1>1, <2>1, <2>4 DEF LoopWakes, TypeOK, LoopType, service, world
  <2> QED
    BY <1>1, <2>1, <2>4, <2>5
       DEF LoopWakes, KindKnown, Kind, PendingIsAnswerable, PanelIsWatched, ListedWaits, service
<1>2. CASE LoopAnswered(l)
  <2>1. /\ waiting' \subseteq Ids /\ loop[l].at \in Windows /\ uiOpened' \subseteq Ids
        /\ UNCHANGED <<request, waiting, resolver, resolverV2>>
    BY <1>0, <1>2 DEF LoopAnswered, TypeOK, LoopType
  <2>3. Onward(l, loop[l].todo, loop[l].succeeded \cup {loop[l].at})
    BY <1>2 DEF LoopAnswered
  <2>4. loop' \in [Loops -> LoopType] /\ (waiting' # {} => loop'[l].pc # "off")
    BY <1>0, <2>1, <2>3, OnwardKeeps
  <2>5. TypeOK'
    BY <1>2, <2>1, <2>4 DEF LoopAnswered, TypeOK, LoopType, world
  <2> QED
    BY <1>2, <2>1, <2>4, <2>5
       DEF LoopAnswered, KindKnown, Kind, PendingIsAnswerable, PanelIsWatched, ListedWaits
<1>3. CASE LoopUnanswered(l)
  <2> DEFINE closed == loop[l].at \in loop[l].succeeded
  <2>1. caller' = caller /\ (RejectV2(loop[l].data) \/ UNCHANGED <<request, service>>)
    BY <1>3 DEF LoopUnanswered
  <2>2. /\ request' \in RequestType
        /\ waiting' \subseteq Ids /\ resolver' \subseteq Ids /\ uiOpened' \subseteq Ids
        /\ resolverV2' \in [Ids -> SUBSET Listeners]
        /\ KindKnown' /\ PendingIsAnswerable' /\ ListedWaits'
        /\ waiting' \subseteq waiting
    <3>1. CASE RejectV2(loop[l].data)
      BY <2>1, <3>1, RejectKeeps
    <3>2. CASE UNCHANGED <<request, service>>
      BY <2>1, <3>2 DEF TypeOK, RequestType, KindKnown, Kind, PendingIsAnswerable, ListedWaits, service
    <3> QED
      BY <2>1, <3>1, <3>2
  <2>3. Onward(l, IF closed THEN {} ELSE loop[l].todo, loop[l].succeeded)
    BY <1>3 DEF LoopUnanswered
  <2>4. loop' \in [Loops -> LoopType] /\ (waiting' # {} => loop'[l].pc # "off")
    BY <1>0, <2>2, <2>3, OnwardKeeps
  <2>5. TypeOK'
    BY <1>3, <2>2, <2>4 DEF LoopUnanswered, TypeOK, LoopType, RequestType, world
  <2> QED
    BY <1>3, <2>2, <2>4, <2>5 DEF LoopUnanswered, PanelIsWatched
<1> QED
  BY <1>1, <1>2, <1>3 DEF LoopStep

\* A step of the loop of one interaction.
LEMMA IdLoopStepKeeps ==
    ASSUME IInv, NEW i \in Ids, IdLoopStep(i)
    PROVE  IInv'
<1> USE DEF IInv
<1>1. CASE IdLoopAnswered(i)
  <2>1. TypeOK'
    BY <1>1 DEF IdLoopAnswered, TypeOK, service, world
  <2> QED
    BY <1>1, <2>1 DEF IdLoopAnswered, KindKnown, Kind, PendingIsAnswerable, PanelIsWatched,
                      ListedWaits, service
<1>2. CASE IdLoopUnanswered(i)
  <2>1. caller' = caller /\ (RejectV2({i} \cap waiting) \/ UNCHANGED <<request, service>>)
    BY <1>2 DEF IdLoopUnanswered
  <2>2. /\ request' \in RequestType
        /\ waiting' \subseteq Ids /\ resolver' \subseteq Ids /\ uiOpened' \subseteq Ids
        /\ resolverV2' \in [Ids -> SUBSET Listeners]
        /\ KindKnown' /\ PendingIsAnswerable' /\ ListedWaits'
        /\ waiting' \subseteq waiting
    <3>1. CASE RejectV2({i} \cap waiting)
      BY <2>1, <3>1, RejectKeeps
    <3>2. CASE UNCHANGED <<request, service>>
      BY <2>1, <3>2 DEF TypeOK, RequestType, KindKnown, Kind, PendingIsAnswerable, ListedWaits, service
    <3> QED
      BY <2>1, <3>1, <3>2
  <2>3. TypeOK'
    BY <1>2, <2>2 DEF IdLoopUnanswered, TypeOK, RequestType, world
  <2> QED
    BY <1>2, <2>2, <2>3 DEF IdLoopUnanswered, PanelIsWatched
<1> QED
  BY <1>1, <1>2 DEF IdLoopStep

\* Every step keeps the invariant.
LEMMA IInvStep == IInv /\ [Next]_vars => IInv'
<1> SUFFICES ASSUME IInv, [Next]_vars PROVE IInv'
  OBVIOUS
<1> USE DEF IInv
<1>1. ASSUME NEW i \in Ids, NEW k \in Kinds, Ask(i, k) PROVE IInv'
  <2>1. /\ request' \in RequestType
        /\ request'[i] = [pc |-> "window", kind |-> k]
        /\ \A j \in Ids \ {i} : request'[j] = request[j]
    BY <1>1 DEF Ask, TypeOK, RequestType, RequestPcs
  <2>2. TypeOK'
    BY <1>1, <2>1 DEF Ask, TypeOK, RequestType, service, ping, world
  <2> QED
    BY <1>1, <2>1, <2>2 DEF Ask, KindKnown, Kind, PendingIsAnswerable, PanelIsWatched, ListedWaits,
                            service, ping
<1>2. ASSUME NEW i \in Ids, AddData(i) PROVE IInv'
  <2>1. /\ request' \in RequestType
        /\ request'[i].pc = "waiting" /\ request'[i].kind = request[i].kind
        /\ request[i].pc = "window"
        /\ \A j \in Ids \ {i} : request'[j] = request[j]
    BY <1>2 DEF AddData, TypeOK, RequestType, RequestPcs
  <2>2. /\ loop' \in [Loops -> LoopType]
        /\ sidePanel => \E l \in Loops : loop'[l].pc # "off"
    <3>1. CASE waiting # {}
      BY <1>2, <3>1 DEF AddData, StartLoops, ping, TypeOK, LoopType, PanelIsWatched
    <3>2. CASE waiting = {} /\ sidePanel
      <4>1. PICK l \in Loops : loop' = [loop EXCEPT ![l] = [NoLoop EXCEPT !.pc = "sleep"]]
        BY <1>2, <3>2 DEF AddData, StartLoops
      <4>2. [NoLoop EXCEPT !.pc = "sleep"] \in LoopType /\ [NoLoop EXCEPT !.pc = "sleep"].pc # "off"
        BY DEF NoLoop, LoopType
      <4> QED
        BY <4>1, <4>2 DEF TypeOK, LoopType
    <3>3. CASE waiting = {} /\ ~sidePanel
      BY <1>2, <3>3 DEF AddData, StartLoops, TypeOK, LoopType
    <3> QED
      BY <3>1, <3>2, <3>3
  <2>3. idLoop' \in [Ids -> {"off", "unseen", "seen"}]
    BY <1>2 DEF AddData, StartLoops, ping, TypeOK
  <2>4. TypeOK'
    BY <1>2, <2>1, <2>2, <2>3 DEF AddData, TypeOK, RequestType, LoopType, world
  <2>5. KindKnown' /\ PendingIsAnswerable'
    BY <1>2, <2>1 DEF AddData, KindKnown, Kind, PendingIsAnswerable
  <2> QED
    BY <1>2, <2>2, <2>4, <2>5 DEF AddData, PanelIsWatched, ListedWaits
<1>3. ASSUME NEW i \in Ids, NEW answer \in Answers, Answer(i, answer) PROVE IInv'
  <2>1. Settle({i}, answer)
    BY <1>3 DEF Answer
  <2>2. /\ request' \in RequestType
        /\ waiting' \subseteq Ids /\ resolver' \subseteq Ids /\ uiOpened' \subseteq Ids
        /\ KindKnown' /\ PendingIsAnswerable'
        /\ waiting' \subseteq waiting
    BY <2>1, SettleKeeps
  <2>3. TypeOK'
    BY <1>3, <2>2 DEF Answer, TypeOK, RequestType, ping, world
  <2> QED
    BY <1>3, <2>2, <2>3 DEF Answer, PanelIsWatched, ListedWaits, ping
<1>4. ASSUME NEW c \in Callers, NEW i \in Ids, NEW answer \in Answers, AnswerV2(c, i, answer)
      PROVE IInv'
  <2>1. Settle({i}, answer)
    BY <1>4 DEF AnswerV2
  <2>2. /\ request' \in RequestType
        /\ waiting' \subseteq Ids /\ resolver' \subseteq Ids /\ uiOpened' \subseteq Ids
        /\ KindKnown' /\ PendingIsAnswerable'
        /\ waiting' \subseteq waiting
    BY <2>1, SettleKeeps
  <2>3. TypeOK'
    BY <1>4, <2>2 DEF AnswerV2, TypeOK, RequestType, Listeners, ping, world
  <2>4. ListedWaits'
    BY <1>4, NamesAssumption DEF AnswerV2, TypeOK, ListedWaits
  <2> QED
    BY <1>4, <2>2, <2>3, <2>4 DEF AnswerV2, PanelIsWatched, ping
<1>5. ASSUME NEW i \in Ids, Return(i) PROVE IInv'
  <2>1. /\ request' \in RequestType
        /\ request'[i].pc = "done" /\ request'[i].kind = request[i].kind
        /\ request[i].pc \in {"approved", "rejected"}
        /\ \A j \in Ids \ {i} : request'[j] = request[j]
    BY <1>5 DEF Return, TypeOK, RequestType, RequestPcs
  <2>2. TypeOK'
    BY <1>5, <2>1 DEF Return, TypeOK, RequestType, ping, world
  <2>3. ListedWaits'
    BY <1>5 DEF Return, TypeOK, ListedWaits
  <2> QED
    BY <1>5, <2>1, <2>2, <2>3
       DEF Return, KindKnown, Kind, PendingIsAnswerable, PanelIsWatched, ping
<1>6. ASSUME NEW tab \in Tabs, PageCloses(tab) PROVE IInv'
  <2> DEFINE ids == {id \in waiting : Kind(id).tab = tab /\ id \notin uiOpened}
  <2>1. RejectV2(ids) /\ caller' = caller
    BY <1>6 DEF PageCloses
  <2> HIDE DEF ids
  <2>2. /\ request' \in RequestType
        /\ waiting' \subseteq Ids /\ resolver' \subseteq Ids /\ uiOpened' \subseteq Ids
        /\ resolverV2' \in [Ids -> SUBSET Listeners]
        /\ KindKnown' /\ PendingIsAnswerable' /\ ListedWaits'
        /\ waiting' \subseteq waiting
    BY <2>1, RejectKeeps
  <2>3. TypeOK'
    BY <1>6, <2>2 DEF PageCloses, TypeOK, RequestType, ping, world
  <2> QED
    BY <1>6, <2>2, <2>3 DEF PageCloses, PanelIsWatched, ping
<1>7. CASE ToggleSidePanel
  <2>1. RejectV2(waiting) /\ caller' = caller
    BY <1>7 DEF ToggleSidePanel
  <2>2. /\ request' \in RequestType
        /\ waiting' \subseteq Ids /\ resolver' \subseteq Ids /\ uiOpened' \subseteq Ids
        /\ resolverV2' \in [Ids -> SUBSET Listeners]
        /\ KindKnown' /\ PendingIsAnswerable' /\ ListedWaits'
    BY <2>1, RejectKeeps
  <2>3. waiting' = {}
    BY <2>1 DEF RejectV2, Settle
  <2>4. TypeOK'
    BY <1>7, <2>2 DEF ToggleSidePanel, TypeOK, RequestType, ping
  <2> QED
    BY <2>2, <2>3, <2>4 DEF PanelIsWatched
<1>8. ASSUME NEW w \in Windows, TogglePanel(w) PROVE IInv'
  <2>1. TypeOK'
    BY <1>8 DEF TogglePanel, TypeOK, service, ping
  <2> QED
    BY <1>8, <2>1 DEF TogglePanel, KindKnown, Kind, PendingIsAnswerable, PanelIsWatched,
                      ListedWaits, service, ping
<1>9. ASSUME NEW i \in Ids, PopupOpens(i) PROVE IInv'
  <2>1. TypeOK'
    BY <1>9 DEF PopupOpens, TypeOK, service, ping
  <2> QED
    BY <1>9, <2>1 DEF PopupOpens, KindKnown, Kind, PendingIsAnswerable, PanelIsWatched,
                      ListedWaits, service, ping
<1>10. CASE PopupCloses
  <2> DEFINE ids == {id \in popup : ~Kind(id).internal}
  <2>1. Settle(ids, "rejected") /\ "rejected" \in Answers
    BY <1>10 DEF PopupCloses, Answers
  <2> HIDE DEF ids
  <2>2. /\ request' \in RequestType
        /\ waiting' \subseteq Ids /\ resolver' \subseteq Ids /\ uiOpened' \subseteq Ids
        /\ KindKnown' /\ PendingIsAnswerable'
        /\ waiting' \subseteq waiting
    BY <2>1, SettleKeeps
  <2>3. TypeOK'
    BY <1>10, <2>2 DEF PopupCloses, TypeOK, RequestType, ping
  <2> QED
    BY <1>10, <2>2, <2>3 DEF PopupCloses, PanelIsWatched, ListedWaits, ping
<1>11. CASE UNCHANGED vars
  BY <1>11 DEF vars, service, ping, world, TypeOK, KindKnown, Kind, PendingIsAnswerable,
               PanelIsWatched, ListedWaits
<1> QED
  BY <1>1, <1>2, <1>3, <1>4, <1>5, <1>6, <1>7, <1>8, <1>9, <1>10, <1>11,
     LoopStepKeeps, IdLoopStepKeeps DEF Next
-----------------------------------------------------------------------------
LEMMA Invariance == Spec => []IInv
BY IInvInit, IInvStep, PTL DEF Spec

\* The maps, loops and calls keep their types.
THEOREM TypeCorrect == Spec => []TypeOK
BY Invariance, PTL DEF IInv

\* Whatever answers a request, and however often, the request is in the data the UI
\* fetches and can be answered exactly while it waits.
THEOREM Answerable == Spec => []PendingIsAnswerable
BY Invariance, PTL DEF IInv

\* With the side panel on, no request waits without a loop that pings its window.
THEOREM Watched == Spec => []PanelIsWatched
BY Invariance, PTL DEF IInv

\* No message of the UI returns before the request it answers is over.
THEOREM HearsTheEnd == Spec => UIHearsTheEnd
<1>1. ASSUME IInv, [Next]_vars, NEW c \in Callers, caller[c] # None, caller'[c] # caller[c]
      PROVE  request'[caller[c]].pc = "done"
  <2> USE <1>1 DEF IInv
  <2>1. ASSUME NEW i \in Ids, Return(i) PROVE request'[caller[c]].pc = "done"
    <3>1. c \in resolverV2[i]
      BY <2>1 DEF Return
    <3>2. caller[c] = i
      BY <3>1 DEF ListedWaits
    <3> QED
      BY <2>1, <3>2 DEF Return, TypeOK
  <2>2. ASSUME NEW d \in Callers, NEW i \in Ids, NEW answer \in Answers, AnswerV2(d, i, answer)
        PROVE  FALSE
    BY <2>2 DEF AnswerV2, TypeOK
  <2> QED
    BY <2>1, <2>2
       DEF Next, vars, world, Ask, AddData, Answer, LoopStep, LoopWakes, LoopAnswered,
           LoopUnanswered, IdLoopStep, IdLoopAnswered, IdLoopUnanswered, PageCloses,
           ToggleSidePanel, TogglePanel, PopupOpens, PopupCloses
<1>2. IInv /\ [Next]_vars =>
        [\A c \in Callers : caller[c] # None /\ caller'[c] # caller[c]
                              => request'[caller[c]].pc = "done"]_vars
  BY <1>1
<1> QED
  BY <1>2, Invariance, PTL DEF Spec, UIHearsTheEnd
-----------------------------------------------------------------------------
(***************************************************************************)
(* The interaction service implements ApprovalRequests: every step maps to *)
(* a step of it or to a stutter.                                           *)
(***************************************************************************)

\* A message that waits for a request that is not over is listed with it, and the
\* request is of the second message version and has been pending.
AwaitsListed ==
    \A c \in Callers, id \in Ids :
        caller[c] = id /\ request[id].pc # "done" =>
            c \in resolverV2[id] /\ Kind(id).v2 /\ Known(id)

PhaseMap == [id \in Ids |-> Phase(request[id].pc)]

\* What answering does to each request.
LEMMA SettleMoves ==
    ASSUME TypeOK, PendingIsAnswerable, NEW ids, NEW answer \in Answers, Settle(ids, answer)
    PROVE  \A id \in Ids :
              /\ request'[id].kind = request[id].kind
              /\ request'[id].pc = IF id \in ids \cap waiting THEN answer ELSE request[id].pc
<1>1. \A id \in Ids : /\ request'[id] = IF id \in ids \cap resolver
                                        THEN [request[id] EXCEPT !.pc = answer] ELSE request[id]
                      /\ request[id] \in [pc : RequestPcs, kind : Kinds \cup {None}]
                      /\ id \in resolver <=> id \in waiting
  BY DEF Settle, TypeOK, PendingIsAnswerable
<1> QED
  BY <1>1

\* It is the abstract answer to the pending requests among them.
LEMMA SettleMaps ==
    ASSUME TypeOK, PendingIsAnswerable, NEW ids, NEW answer \in Answers, Settle(ids, answer)
    PROVE  Promise!Settle(ids \cap waiting, answer)
<1>1. \A id \in Ids : Phase(request'[id].pc) =
                         IF id \in ids \cap waiting THEN answer ELSE Phase(request[id].pc)
  BY SettleMoves DEF Phase, Answers
<1>2. \A id \in Ids : id \in waiting => Phase(request[id].pc) = "pending"
  BY DEF PendingIsAnswerable, Phase
<1>3. waiting \subseteq Ids
  BY DEF TypeOK
<1> QED
  BY <1>1, <1>2, <1>3 DEF Promise!Settle

\* A rejection by the service is an abstract step, and keeps AwaitsListed.
LEMMA RejectMaps ==
    ASSUME IInv, AwaitsListed, NEW ids, RejectV2(ids), caller' = caller
    PROVE  [Promise!Next]_Promise!vars /\ AwaitsListed'
<1> USE DEF IInv
<1>1. Settle(ids, "rejected") /\ "rejected" \in Answers
  BY DEF RejectV2, Answers
<1>2. Promise!Settle(ids \cap waiting, "rejected") /\ UNCHANGED caller
  BY <1>1, SettleMaps
<1>3. ids \cap waiting \in SUBSET Ids
  BY DEF TypeOK
<1>4. Promise!Next
  BY <1>2, <1>3 DEF Promise!Next
<1>5. AwaitsListed'
  <2>1. \A id \in Ids : resolverV2[id] \subseteq resolverV2'[id]
    BY DEF RejectV2, TypeOK
  <2> QED
    BY <1>1, <2>1, SettleMoves DEF AwaitsListed, Kind, Known, PendingIsAnswerable
<1> QED
  BY <1>4, <1>5

\* A step that leaves the requests and the messages alone.
LEMMA OtherMaps ==
    ASSUME AwaitsListed, UNCHANGED <<request, resolverV2, caller>>
    PROVE  [Promise!Next]_Promise!vars /\ AwaitsListed'
BY DEF AwaitsListed, Kind, Known, Promise!vars, Phase
-----------------------------------------------------------------------------
LEMMA ApprovalInit == Init => Promise!Init /\ AwaitsListed
BY NamesAssumption DEF Init, Promise!Init, AwaitsListed, NoRequest, Phase

\* Every step of the service is a step of ApprovalRequests or a stutter.
LEMMA ApprovalStep ==
    ASSUME IInv, AwaitsListed, [Next]_vars
    PROVE  [Promise!Next]_Promise!vars /\ AwaitsListed'
<1> USE DEF IInv
<1>1. ASSUME NEW i \in Ids, NEW k \in Kinds, Ask(i, k)
      PROVE  [Promise!Next]_Promise!vars /\ AwaitsListed'
  <2>1. /\ request[i].pc = "unused" /\ request'[i].pc = "window"
        /\ \A j \in Ids \ {i} : request'[j] = request[j]
        /\ UNCHANGED <<caller, resolverV2>>
    BY <1>1 DEF Ask, TypeOK, service
  <2>2. \A j \in Ids : Phase(request'[j].pc) = Phase(request[j].pc)
    BY <2>1 DEF Phase
  <2> QED
    BY <2>1, <2>2 DEF AwaitsListed, Kind, Known, Promise!vars
<1>2. ASSUME NEW i \in Ids, AddData(i)
      PROVE  [Promise!Next]_Promise!vars /\ AwaitsListed'
  <2>1. /\ request[i].pc = "window" /\ request'[i].pc = "waiting"
        /\ \A j \in Ids \ {i} : request'[j] = request[j]
        /\ UNCHANGED <<caller, resolverV2>>
    BY <1>2 DEF AddData, TypeOK
  <2>2. \A j \in Ids : Phase(request'[j].pc) = IF j = i THEN "pending" ELSE Phase(request[j].pc)
    BY <2>1 DEF Phase
  <2>3. Promise!Pend(i)
    BY <2>1, <2>2 DEF Promise!Pend, Phase
  <2>4. AwaitsListed'
    BY <2>1 DEF AwaitsListed, Kind, Known
  <2> QED
    BY <2>3, <2>4 DEF Promise!Next
<1>3. ASSUME NEW i \in Ids, NEW answer \in Answers, Answer(i, answer)
      PROVE  [Promise!Next]_Promise!vars /\ AwaitsListed'
  <2>1. Settle({i}, answer) /\ UNCHANGED <<caller, resolverV2>>
    BY <1>3 DEF Answer
  <2>2. Promise!Settle({i} \cap waiting, answer)
    BY <2>1, SettleMaps
  <2>3. [Promise!Next]_Promise!vars
    <3>1. CASE i \in waiting
      <4>1. {i} \cap waiting = {i}
        BY <3>1
      <4>2. Promise!Settle({i}, answer)
        BY <2>2, <4>1
      <4> QED
        BY <2>1, <4>2 DEF Promise!Next, Promise!Answers, Answers
    <3>2. CASE i \notin waiting
      <4>1. \A j \in Ids : request'[j].pc = request[j].pc
        BY <2>1, <3>2, SettleMoves
      <4> QED
        BY <2>1, <4>1 DEF Promise!vars
    <3> QED
      BY <3>1, <3>2
  <2>4. AwaitsListed'
    BY <2>1, SettleMoves DEF AwaitsListed, Kind, Known, Answers, PendingIsAnswerable
  <2> QED
    BY <2>3, <2>4
<1>4. ASSUME NEW c \in Callers, NEW i \in Ids, NEW answer \in Answers, AnswerV2(c, i, answer)
      PROVE  [Promise!Next]_Promise!vars /\ AwaitsListed'
  <2>1. /\ Settle({i}, answer) /\ Known(i) /\ Kind(i).v2 /\ caller[c] = None
        /\ caller' = [caller EXCEPT ![c] = i]
        /\ resolverV2' = [resolverV2 EXCEPT ![i] = @ \cup {c}]
    BY <1>4 DEF AnswerV2
  <2>2. Promise!Settle({i} \cap waiting, answer)
    BY <2>1, SettleMaps
  <2>3. /\ Phase(request[i].pc) # "none"
        /\ Phase(request[i].pc) = "pending" <=> i \in waiting
    BY <2>1 DEF Known, Phase, PendingIsAnswerable, TypeOK, RequestPcs
  <2>4. IF Phase(request[i].pc) = "pending" THEN Promise!Settle({i}, answer)
        ELSE [id \in Ids |-> Phase(request'[id].pc)] = [id \in Ids |-> Phase(request[id].pc)]
    <3>1. CASE i \in waiting
      <4>1. {i} \cap waiting = {i}
        BY <3>1
      <4> QED
        BY <2>2, <2>3, <3>1, <4>1
    <3>2. CASE i \notin waiting
      BY <2>1, <2>3, <3>2, SettleMoves
    <3> QED
      BY <3>1, <3>2
  <2>5. Promise!Receive(c, i, answer)
    BY <2>1, <2>3, <2>4 DEF Promise!Receive
  <2>6. AwaitsListed'
    <3>1. /\ \A j \in Ids : resolverV2[j] \subseteq resolverV2'[j]
          /\ c \in resolverV2'[i] /\ caller'[c] = i
          /\ \A d \in Callers \ {c} : caller'[d] = caller[d]
      BY <2>1 DEF TypeOK
    <3>2. Kind(i)'.v2 /\ Known(i)'
      BY <2>1, SettleMoves DEF Kind, Known, Answers
    <3>3. \A j \in Ids : /\ Kind(j)' = Kind(j) /\ (Known(j) => Known(j)')
                         /\ request'[j].pc # "done" => request[j].pc # "done"
      BY <2>1, SettleMoves DEF Kind, Known, Answers, PendingIsAnswerable
    <3> QED
      BY <3>1, <3>2, <3>3 DEF AwaitsListed
  <2> QED
    BY <2>5, <2>6 DEF Promise!Next, Promise!Answers, Answers
<1>5. ASSUME NEW i \in Ids, Return(i)
      PROVE  [Promise!Next]_Promise!vars /\ AwaitsListed'
  <2>1. /\ request[i].pc \in {"approved", "rejected"} /\ request'[i].pc = "done"
        /\ \A j \in Ids \ {i} : request'[j] = request[j]
    BY <1>5 DEF Return, TypeOK
  <2>2. caller' = [c \in Callers |-> IF caller[c] = i THEN None ELSE caller[c]]
    <3>1. caller = [c \in Callers |-> caller[c]]
      BY DEF TypeOK
    <3>2. CASE Kind(i).v2
      <4>1. \A c \in Callers : c \in resolverV2[i] <=> caller[c] = i
        BY <2>1 DEF AwaitsListed, ListedWaits
      <4> QED
        BY <1>5, <3>2, <4>1 DEF Return
    <3>3. CASE ~Kind(i).v2
      <4>1. \A c \in Callers : caller[c] # i
        BY <2>1, <3>3 DEF AwaitsListed
      <4> QED
        BY <1>5, <3>1, <3>3, <4>1 DEF Return
    <3> QED
      BY <3>2, <3>3
  <2>3. \A j \in Ids : Phase(request'[j].pc) = IF j = i THEN "done" ELSE Phase(request[j].pc)
    BY <2>1 DEF Phase
  <2>4. Promise!Finish(i)
    BY <2>1, <2>2, <2>3 DEF Promise!Finish, Phase
  <2>5. \A j \in Ids \ {i} : resolverV2'[j] = resolverV2[j]
    BY <1>5 DEF Return, TypeOK
  <2>6. AwaitsListed'
    BY <2>1, <2>2, <2>5, NamesAssumption DEF AwaitsListed, Kind, Known
  <2> QED
    BY <2>4, <2>6 DEF Promise!Next
<1>6. ASSUME NEW l \in Loops, LoopStep(l)
      PROVE  [Promise!Next]_Promise!vars /\ AwaitsListed'
  <2>1. caller' = caller /\ (RejectV2(loop[l].data) \/ UNCHANGED <<request, resolverV2>>)
    BY <1>6 DEF LoopStep, LoopWakes, LoopAnswered, LoopUnanswered, service
  <2> QED
    BY <2>1, RejectMaps, OtherMaps
<1>7. ASSUME NEW i \in Ids, IdLoopStep(i)
      PROVE  [Promise!Next]_Promise!vars /\ AwaitsListed'
  <2>1. caller' = caller /\ (RejectV2({i} \cap waiting) \/ UNCHANGED <<request, resolverV2>>)
    BY <1>7 DEF IdLoopStep, IdLoopAnswered, IdLoopUnanswered, service
  <2> QED
    BY <2>1, RejectMaps, OtherMaps
<1>8. ASSUME NEW tab \in Tabs, PageCloses(tab)
      PROVE  [Promise!Next]_Promise!vars /\ AwaitsListed'
  <2> DEFINE ids == {id \in waiting : Kind(id).tab = tab /\ id \notin uiOpened}
  <2>1. RejectV2(ids) /\ caller' = caller
    BY <1>8 DEF PageCloses
  <2> HIDE DEF ids
  <2> QED
    BY <2>1, RejectMaps
<1>9. CASE ToggleSidePanel
  BY <1>9, RejectMaps DEF ToggleSidePanel
<1>10. ASSUME NEW w \in Windows, TogglePanel(w)
       PROVE  [Promise!Next]_Promise!vars /\ AwaitsListed'
  BY <1>10, OtherMaps DEF TogglePanel, service
<1>11. ASSUME NEW i \in Ids, PopupOpens(i)
       PROVE  [Promise!Next]_Promise!vars /\ AwaitsListed'
  BY <1>11, OtherMaps DEF PopupOpens, service
<1>12. CASE PopupCloses
  <2> DEFINE ids == {id \in popup : ~Kind(id).internal}
  <2>1. Settle(ids, "rejected") /\ "rejected" \in Answers /\ UNCHANGED <<caller, resolverV2>>
    BY <1>12 DEF PopupCloses, Answers
  <2> HIDE DEF ids
  <2>2. Promise!Settle(ids \cap waiting, "rejected") /\ ids \cap waiting \in SUBSET Ids
    BY <2>1, SettleMaps DEF TypeOK
  <2>3. AwaitsListed'
    BY <2>1, SettleMoves DEF AwaitsListed, Kind, Known, PendingIsAnswerable
  <2> QED
    BY <2>1, <2>2, <2>3 DEF Promise!Next
<1>13. CASE UNCHANGED vars
  BY <1>13, OtherMaps DEF vars, service
<1> QED
  BY <1>1, <1>2, <1>3, <1>4, <1>5, <1>6, <1>7, <1>8, <1>9, <1>10, <1>11, <1>12, <1>13 DEF Next
-----------------------------------------------------------------------------
\* The maps, the resolvers and the watchers of the service implement ApprovalRequests,
\* for any number of requests, windows, messages and loops.
THEOREM Implements == Spec => KeepsPromise
<1>1. Init => Promise!Init /\ AwaitsListed
  BY ApprovalInit
<1>2. IInv /\ AwaitsListed /\ [Next]_vars => [Promise!Next]_Promise!vars /\ AwaitsListed'
  BY ApprovalStep
<1> QED
  BY <1>1, <1>2, Invariance, PTL DEF Spec, KeepsPromise, Promise!Spec
=============================================================================
