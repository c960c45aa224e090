-------------------------------- MODULE AutoLock --------------------------------
(***************************************************************************)
(* The automatic lock (auto-lock-account/service.ts).  A page of the       *)
(* extension that is open sends a message every ten seconds, which starts  *)
(* the timer again; when the last page has been closed for the duration of *)
(* the setting, the timer locks the wallet.  Time is left out: the timer   *)
(* fires at any moment.                                                    *)
(***************************************************************************)

VARIABLES
    unlocked,  \* keyRingStatus: the wallet is unlocked, or locked
    limited,   \* autoLockDuration > 0
    timer,     \* autoLockTimer # null
    awake      \* the worker of the extension runs

lockVars == <<unlocked, limited, timer, awake>>

LockTypeOK == {unlocked, limited, timer, awake} \subseteq BOOLEAN

LockInit == awake = TRUE /\ unlocked = FALSE /\ limited = FALSE /\ timer = FALSE

\* Unlocking and locking by the user leave the timer to itself.
Unlock == unlocked' = TRUE /\ UNCHANGED <<limited, timer, awake>>

LockByUser == unlocked' = FALSE /\ UNCHANGED <<limited, timer, awake>>

\* Mutant: a message while the timer runs stops it.
StartAppStateCheckTimer_StopsRunning ==
    /\ timer' = (unlocked /\ limited /\ ~timer)
    /\ UNCHANGED <<unlocked, limited, awake>>

\* StartAutoLockMonitoringMsg: it stops the timer, and throws when the wallet is locked.
StartAppStateCheckTimer ==
    /\ timer' = (unlocked /\ limited)
    /\ UNCHANGED <<unlocked, limited, awake>>

TimerFires ==
    /\ timer
    /\ timer'    = FALSE
    /\ unlocked' = FALSE
    /\ UNCHANGED <<limited, awake>>

\* The device goes to sleep: without a duration the second setting, lockOnSleep, decides.
DeviceLocked ==
    /\ IF limited
       THEN timer' = FALSE /\ unlocked' = FALSE
       ELSE UNCHANGED timer /\ unlocked' \in {unlocked, FALSE}
    /\ UNCHANGED <<limited, awake>>

\* A new duration is not told to a timer that runs, unless it is zero.
SetDuration(positive) ==
    /\ unlocked
    /\ limited' = positive
    /\ timer'   = (timer /\ positive)
    /\ UNCHANGED <<unlocked, awake>>

\* The worker ends, and the timer with it.
WorkerEnds ==
    /\ awake
    /\ awake' = FALSE
    /\ timer' = FALSE
    /\ UNCHANGED <<unlocked, limited>>

\* It starts: the settings are stored, and the session password unlocks the wallet again
\* unless the browser has ended too; no timer is started.
WorkerStarts ==
    /\ ~awake
    /\ awake' = TRUE
    /\ unlocked' \in {unlocked, FALSE}
    /\ UNCHANGED <<limited, timer>>

LockNext ==
    /\ awake
    /\ \/ Unlock
       \/ LockByUser
       \/ StartAppStateCheckTimer
       \/ TimerFires
       \/ DeviceLocked
       \/ \E positive \in BOOLEAN : SetDuration(positive)

-----------------------------------------------------------------------------
\* A timer runs only while the setting asks for it: who has turned the automatic lock
\* off is never locked out by a timer of before (setDuration, startAutoLockTimer).
TimerIsWanted == timer => limited

\* A timer that runs while the wallet is unlocked is not lost: no message, no setting but
\* zero and no answer to a page takes it away without locking the wallet, except the
\* end of the worker.
TimerKept ==
    [][timer /\ unlocked /\ ~timer' => ~unlocked' \/ ~limited' \/ ~awake']_lockVars
=============================================================================
