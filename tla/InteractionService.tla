---------------------------- MODULE InteractionService ----------------------------
(***************************************************************************)
(* Requests that wait for the user (packages/background/src/interaction):  *)
(* a service calls waitApprove or waitApproveV2, the UI answers with       *)
(* approve or reject, and three watchers reject what no UI will answer:    *)
(* the ping loop of the side panels, the ping loop of one interaction, and *)
(* the closing of the web page or of the popup.                            *)
(*                                                                         *)
(* An action is a segment of code between two awaits.  The world outside   *)
(* the worker (panels, popup, web pages, the user) moves on its own.       *)
(***************************************************************************)
EXTENDS Integers, FiniteSets

CONSTANTS
    Ids,        \* interaction ids, each drawn once
    Kinds,      \* what a request may be: [v2, internal, tab, window]
    Windows,    \* browser windows
    Callers,    \* approve and reject messages of the UI that may be in flight
    Loops,      \* bound: side panel ping loops alive together
    None

ASSUME NamesAssumption == None \notin Ids \cup Windows /\ "service" \notin Callers

ASSUME KindsAssumption ==
    \A k \in Kinds : k.v2 \in BOOLEAN /\ k.internal \in BOOLEAN /\ k.window \in Windows \cup {None}

VARIABLES
    request,    \* the calls of waitApprove: what each asks and where it waits
    waiting,    \* keys of waitingMap
    resolver,   \* keys of resolverMap
    resolverV2, \* resolverV2Map: who waits for the end of an interaction
    uiOpened,   \* keys of isUIOpenedOnSidePanelMap
    sidePanel,  \* SidePanelService.getIsEnabled()
    loop,       \* startCheckPingOnUIWithWindowId, one record per running loop
    idLoop,     \* startCheckPingOnUI, for the interaction it was started with
    caller,     \* the approve and reject messages of the UI
    panels,     \* windows whose side panel is open
    popup,      \* interactions whose popup tab is open, with the close listener
    shown       \* history: interactions a UI of theirs was open for while they waited

service == <<waiting, resolver, resolverV2, uiOpened>>
ping    == <<loop, idLoop>>
world   == <<panels, popup>>
vars == <<request, service, sidePanel, ping, caller, world, shown>>

Kind(id) == request[id].kind

NoLoop    == [pc |-> "off", succeeded |-> {}, todo |-> {}, at |-> None, data |-> {}]
NoRequest == [pc |-> "unused", kind |-> None]

Init ==
    /\ request    = [id \in Ids |-> NoRequest]
    /\ waiting    = {}
    /\ resolver   = {}
    /\ resolverV2 = [id \in Ids |-> {}]
    /\ uiOpened   = {}
    /\ sidePanel \in BOOLEAN
    /\ loop   = [l \in Loops |-> NoLoop]
    /\ idLoop = [id \in Ids |-> "off"]
    /\ caller = [c \in Callers |-> None]
    /\ panels = {}
    /\ popup  = {}
    /\ shown  = {}
-----------------------------------------------------------------------------
(* Asking: waitApprove and waitApproveV2.                                   *)

\* The call waits for the id of its window.
Ask(id, k) ==
    /\ request[id].pc = "unused"
    /\ request' = [request EXCEPT ![id] = [pc |-> "window", kind |-> k]]
    /\ UNCHANGED <<service, sidePanel, ping, caller, world, shown>>

\* addDataToMap starts the loops for the first entry only.
StartLoops(id) ==
    IF waiting # {} THEN UNCHANGED ping
    ELSE /\ idLoop' = [idLoop EXCEPT ![id] = "unseen"]
         /\ IF sidePanel
            THEN \E l \in Loops :
                    /\ loop[l].pc = "off"
                    /\ loop' = [loop EXCEPT ![l] = [NoLoop EXCEPT !.pc = "sleep"]]
            ELSE loop' = loop

\* addDataToMap, then wait, which registers the resolver and sends the UI the data.
AddData(id) ==
    /\ request[id].pc = "window"
    /\ request'  = [request EXCEPT ![id].pc = "waiting"]
    /\ waiting'  = waiting \cup {id}
    /\ resolver' = resolver \cup {id}
    /\ StartLoops(id)
    /\ shown' = IF Kind(id).window \in panels THEN shown \cup {id} ELSE shown
    /\ UNCHANGED <<resolverV2, uiOpened, sidePanel, caller, world>>
-----------------------------------------------------------------------------
(* Answering.                                                               *)

\* Mutant: an interaction that some UI shows stays in the data.
Settle_KeepsShown(ids, answer) ==
    /\ request' = [id \in Ids |-> IF id \in ids \cap resolver
                                  THEN [request[id] EXCEPT !.pc = answer] ELSE request[id]]
    /\ resolver' = resolver \ ids
    /\ waiting'  = waiting \ (ids \ uiOpened)
    /\ uiOpened' = uiOpened \ ids

\* Mutant: the resolver stays in its map after it has been called.
Settle_KeepsResolver(ids, answer) ==
    /\ request' = [id \in Ids |-> IF id \in ids \cap resolver
                                  THEN [request[id] EXCEPT !.pc = answer] ELSE request[id]]
    /\ UNCHANGED resolver
    /\ waiting'  = waiting \ ids
    /\ uiOpened' = uiOpened \ ids

\* The interactions ids are answered: a resolver is called at most once, the data is
\* dropped whether there was a resolver or not.
Settle(ids, answer) ==
    /\ request' = [id \in Ids |-> IF id \in ids \cap resolver
                                  THEN [request[id] EXCEPT !.pc = answer] ELSE request[id]]
    /\ resolver' = resolver \ ids
    /\ waiting'  = waiting \ ids
    /\ uiOpened' = uiOpened \ ids

\* rejectV2 called by the service itself, which does not wait for it.
RejectV2(ids) ==
    /\ Settle(ids, "rejected")
    /\ resolverV2' = [id \in Ids |->
          IF id \in ids THEN resolverV2[id] \cup {"service"} ELSE resolverV2[id]]

\* The UI knows an interaction once it is pending, and may answer it late.
Known(id) == request[id].pc \notin {"unused", "window"}

\* approve and reject.
Answer(id, answer) ==
    /\ Known(id) /\ ~Kind(id).v2
    /\ Settle({id}, answer)
    /\ UNCHANGED <<resolverV2, sidePanel, ping, caller, world, shown>>

\* approveV2 and rejectV2: the message is answered when the request is over.
AnswerV2(c, id, answer) ==
    /\ Known(id) /\ Kind(id).v2
    /\ caller[c] = None
    /\ caller' = [caller EXCEPT ![c] = id]
    /\ Settle({id}, answer)
    /\ resolverV2' = [resolverV2 EXCEPT ![id] = @ \cup {c}]
    /\ UNCHANGED <<sidePanel, ping, world, shown>>

\* Mutant: the resolvers are forgotten without being called.
Return_DropsResolvers(id) ==
    /\ request[id].pc \in {"approved", "rejected"}
    /\ request' = [request EXCEPT ![id].pc = "done"]
    /\ resolverV2' = IF Kind(id).v2 THEN [resolverV2 EXCEPT ![id] = {}] ELSE resolverV2
    /\ UNCHANGED <<waiting, resolver, uiOpened, sidePanel, ping, caller, world, shown>>

\* Mutant: one list of resolvers for all interactions.
Return_CallsEveryResolver(id) ==
    /\ request[id].pc \in {"approved", "rejected"}
    /\ request' = [request EXCEPT ![id].pc = "done"]
    /\ IF Kind(id).v2
       THEN /\ resolverV2' = [i \in Ids |-> {}]
            /\ caller' = [c \in Callers |-> None]
       ELSE UNCHANGED <<resolverV2, caller>>
    /\ UNCHANGED <<waiting, resolver, uiOpened, sidePanel, ping, world, shown>>

\* waitApprove goes on; waitApproveV2 has run returnFn, unless the answer was a
\* rejection, and its finally block.
Return(id) ==
    /\ request[id].pc \in {"approved", "rejected"}
    /\ request' = [request EXCEPT ![id].pc = "done"]
    /\ IF Kind(id).v2
       THEN /\ resolverV2' = [resolverV2 EXCEPT ![id] = {}]
            /\ caller' = [c \in Callers |-> IF c \in resolverV2[id] THEN None ELSE caller[c]]
       ELSE UNCHANGED <<resolverV2, caller>>
    /\ UNCHANGED <<waiting, resolver, uiOpened, sidePanel, ping, world, shown>>
-----------------------------------------------------------------------------
(* startCheckPingOnUIWithWindowId.                                          *)

\* The round goes on with a window of todo, whose data is read before it is pinged;
\* without one it is over: another sleep while something waits, else the loop ends.
Onward(l, todo, succeeded) ==
    IF todo # {}
    THEN \E w \in todo :
            loop' = [loop EXCEPT ![l] =
                        [pc |-> "ping", succeeded |-> succeeded, todo |-> todo \ {w}, at |-> w,
                         data |-> {id \in waiting' : Kind(id).window = w}]]
    ELSE loop' = [loop EXCEPT ![l] = IF waiting' = {} THEN NoLoop
                                     ELSE [NoLoop EXCEPT !.pc = "sleep", !.succeeded = succeeded]]

\* Mutant: an unknown window is pinged like the others.
PingedWindows_WithUnknown == {Kind(id).window : id \in waiting}

PingedWindows == {Kind(id).window : id \in waiting} \ {None}

\* The sleep is over: the windows of this round.  Without a side panel there is
\* one pseudo window, of which no interaction is: the round is empty.
LoopWakes(l) ==
    /\ loop[l].pc = "sleep"
    /\ UNCHANGED <<request, service>>
    /\ Onward(l, IF sidePanel THEN PingedWindows ELSE {}, loop[l].succeeded)
    /\ UNCHANGED <<sidePanel, idLoop, caller, world, shown>>

\* A UI answered: only the first time are the interactions of the window marked.
LoopAnswered(l) ==
    LET w == loop[l].at IN
    /\ loop[l].pc = "ping"
    /\ w \in panels
    /\ uiOpened' = IF w \in loop[l].succeeded THEN uiOpened ELSE uiOpened \cup loop[l].data
    /\ UNCHANGED <<request, waiting, resolver, resolverV2>>
    /\ Onward(l, loop[l].todo, loop[l].succeeded \cup {w})
    /\ UNCHANGED <<sidePanel, idLoop, caller, world, shown>>

\* Mutant: a closed UI ends the loop, not only its round.
LoopUnanswered_EndsLoop(l) ==
    LET w == loop[l].at
        closed == w \in loop[l].succeeded
    IN
    /\ loop[l].pc = "ping"
    /\ w \notin panels
    /\ IF closed
       THEN RejectV2(loop[l].data) /\ loop' = [loop EXCEPT ![l] = NoLoop]
       ELSE UNCHANGED <<request, service>> /\ Onward(l, loop[l].todo, loop[l].succeeded)
    /\ UNCHANGED <<sidePanel, idLoop, caller, world, shown>>

\* No UI answered a window that has answered before: its interactions are
\* rejected and the round ends.  The window stays marked as having answered.
LoopUnanswered(l) ==
    LET w == loop[l].at
        closed == w \in loop[l].succeeded
    IN
    /\ loop[l].pc = "ping"
    /\ w \notin panels
    /\ IF closed THEN RejectV2(loop[l].data) ELSE UNCHANGED <<request, service>>
    /\ Onward(l, IF closed THEN {} ELSE loop[l].todo, loop[l].succeeded)
    /\ UNCHANGED <<sidePanel, idLoop, caller, world, shown>>
-----------------------------------------------------------------------------
(* startCheckPingOnUI.                                                      *)

\* A UI that holds the interaction answers; others ignore the message.
UIHolds(id) == id \in popup \/ (sidePanel /\ Kind(id).window \in panels)

\* The data is read after the ping, so a turn of the loop is one step.
IdLoopAnswered(id) ==
    /\ idLoop[id] # "off"
    /\ UIHolds(id)
    /\ idLoop' = [idLoop EXCEPT ![id] = IF id \in waiting THEN "seen" ELSE "off"]
    /\ UNCHANGED <<request, service, sidePanel, loop, caller, world, shown>>

IdLoopUnanswered(id) ==
    /\ idLoop[id] # "off"
    /\ ~UIHolds(id)
    /\ IF idLoop[id] = "seen"
       THEN RejectV2({id} \cap waiting)
       ELSE UNCHANGED <<request, service>>
    /\ idLoop' = [idLoop EXCEPT ![id] = IF id \in waiting' THEN @ ELSE "off"]
    /\ UNCHANGED <<sidePanel, loop, caller, world, shown>>
-----------------------------------------------------------------------------
(* The world outside.                                                       *)

\* A web page is closed: with the side panel on, the interactions of its tab that
\* no UI was seen to show are rejected.
PageCloses(tab) ==
    /\ sidePanel
    /\ RejectV2({id \in waiting : Kind(id).tab = tab /\ id \notin uiOpened})
    /\ UNCHANGED <<sidePanel, ping, caller, world, shown>>

\* Switching the side panel on or off rejects everything; the UI closes its views.
ToggleSidePanel ==
    /\ sidePanel' = ~sidePanel
    /\ RejectV2(waiting)
    /\ panels' = {}
    /\ UNCHANGED <<ping, caller, popup, shown>>

TogglePanel(w) ==
    /\ sidePanel
    /\ panels' = IF w \in panels THEN panels \ {w} ELSE panels \cup {w}
    /\ shown'  = shown \cup {id \in waiting : Kind(id).window \in panels'}
    /\ UNCHANGED <<request, service, sidePanel, ping, caller, popup>>

\* requestInteraction has brought the request to a popup: a new one for an external
\* request, the popup that asked for an internal one.
PopupOpens(id) ==
    /\ ~sidePanel
    /\ request[id].pc = "waiting"
    /\ popup' = popup \cup {id}
    /\ shown' = shown \cup {id}
    /\ UNCHANGED <<request, service, sidePanel, ping, caller, panels>>

\* The popup is closed: the listener of every external request it served rejects.
PopupCloses ==
    /\ popup # {}
    /\ popup' = {}
    /\ Settle({id \in popup : ~Kind(id).internal}, "rejected")
    /\ UNCHANGED <<resolverV2, sidePanel, ping, caller, panels, shown>>
-----------------------------------------------------------------------------
Tabs == {k.tab : k \in Kinds} \ {None}

Answers == {"approved", "rejected"}

LoopStep(l) == LoopWakes(l) \/ LoopAnswered(l) \/ LoopUnanswered(l)

IdLoopStep(id) == IdLoopAnswered(id) \/ IdLoopUnanswered(id)

Next ==
    \/ \E id \in Ids, k \in Kinds : Ask(id, k)
    \/ \E id \in Ids : AddData(id)
    \/ \E id \in Ids, answer \in Answers : Answer(id, answer)
    \/ \E c \in Callers, id \in Ids, answer \in Answers : AnswerV2(c, id, answer)
    \/ \E id \in Ids : Return(id)
    \/ \E l \in Loops : LoopStep(l)
    \/ \E id \in Ids : IdLoopStep(id)
    \/ \E tab \in Tabs : PageCloses(tab)
    \/ ToggleSidePanel
    \/ \E w \in Windows : TogglePanel(w)
    \/ \E id \in Ids : PopupOpens(id)
    \/ PopupCloses

\* Timers fire, pings are answered or time out, and a returnFn comes to an end;
\* the user and the pages owe nothing.
Fairness ==
    /\ \A id \in Ids : WF_vars(AddData(id)) /\ WF_vars(Return(id)) /\ WF_vars(IdLoopStep(id))
    /\ \A l \in Loops : WF_vars(LoopStep(l))

Spec == Init /\ [][Next]_vars /\ Fairness
-----------------------------------------------------------------------------
RequestPcs == {"unused", "window", "waiting", "approved", "rejected", "done"}

Listeners == Callers \cup {"service"}

\* The types of the service's maps, of the loops and of the calls.
TypeOK ==
    /\ request \in [Ids -> [pc : RequestPcs, kind : Kinds \cup {None}]]
    /\ waiting \subseteq Ids /\ resolver \subseteq Ids /\ uiOpened \subseteq Ids
    /\ resolverV2 \in [Ids -> SUBSET Listeners]
    /\ sidePanel \in BOOLEAN
    /\ loop \in [Loops -> [pc : {"off", "sleep", "ping"}, succeeded : SUBSET Windows,
                           todo : SUBSET Windows, at : Windows \cup {None}, data : SUBSET Ids]]
    /\ idLoop \in [Ids -> {"off", "unseen", "seen"}]
    /\ caller \in [Callers -> Ids \cup {None}]
    /\ panels \subseteq Windows /\ popup \subseteq Ids /\ shown \subseteq Ids

\* A request that waits for the user is in the data the UI fetches and has a
\* resolver to answer it with; one that has been answered is in neither.
PendingIsAnswerable ==
    \A id \in Ids :
        /\ id \in waiting <=> request[id].pc = "waiting"
        /\ id \in resolver <=> request[id].pc = "waiting"

\* While something waits, a loop that can notice the closing of the side panel runs
\* for it: one of the window loops, or, for requests of a popup, none is needed.
PanelIsWatched ==
    sidePanel /\ waiting # {} => \E l \in Loops : loop[l].pc # "off"

\* An approveV2 or rejectV2 sent before the request is over returns to the UI.
AnswerReturns ==
    \A c \in Callers, id \in Ids :
        caller[c] = id /\ request[id].pc # "done" ~> caller[c] = None

\* approveV2 and rejectV2 return to the UI only after the request they answer is over:
\* the UI goes on, and may close, when nothing of the request is left to do.
UIHearsTheEnd ==
    [][\A c \in Callers : caller[c] # None /\ caller'[c] # caller[c]
                            => request'[caller[c]].pc = "done"]_vars

Phase(pc) == CASE pc \in {"unused", "window"} -> "none"
               [] pc = "waiting"              -> "pending"
               [] OTHER                       -> pc

Promise == INSTANCE ApprovalRequests
           WITH phase <- [id \in Ids |-> Phase(request[id].pc)], awaits <- caller

\* A request is answered once, whoever else answers it, and every message that answered
\* it before it was over returns when it is: maps, resolvers and watchers implement
\* ApprovalRequests.
KeepsPromise == Promise!Spec

\* A loop knows that a UI of the interaction has answered.
Seen(id) ==
    \/ idLoop[id] = "seen"
    \/ sidePanel /\ \E l \in Loops : Kind(id).window \in loop[l].succeeded

\* A request whose UI was seen is rejected once that UI is gone, unless it comes back
\* first: the web page that asked is not left waiting.
ClosedUIRejects ==
    \A id \in Ids :
        id \in waiting /\ Seen(id) /\ ~UIHolds(id) ~> id \notin waiting \/ UIHolds(id)

\* "A ping must have succeeded at least once", lest a request fails because its UI
\* opens late: the window loop rejects only requests that some UI was open for.
LateUIIsAwaited ==
    [][(\E l \in Loops : LoopUnanswered(l)) => waiting \ waiting' \subseteq shown]_vars
=============================================================================
