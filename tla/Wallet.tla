--------------------------------- MODULE Wallet ---------------------------------
(***************************************************************************)
(* What the user relies on of the wallet: nothing opens it, changes its    *)
(* password, deletes a key ring or signs out unless somebody has asked for *)
(* that with the password that was set last; it comes back from the end of *)
(* the worker as it was, and from the end of the browser locked, with one  *)
(* of the sets of key rings it has held.  Only an end that comes before a  *)
(* sign-out has settled may leave it open, or signed up as it was.         *)
(* KeyRingService implements this specification.                           *)
(*                                                                         *)
(* A request has a step that waits to be done.  The request that creates a *)
(* key ring in a wallet nobody has signed up to signs up and enters first. *)
(***************************************************************************)
CONSTANTS Callers, Passwords, KeyRings, None

VARIABLES
    asked,     \* of each caller: its request, or None
    opener,    \* the password that opens the wallet, None when it is signed out
    leaving,   \* the password of a sign-out that has not settled, or None
    open,      \* whether it is unlocked
    keyRings,  \* the key rings in it
    stored     \* the sets of key rings the storage may come back with

vars == <<asked, opener, leaving, open, keyRings, stored>>

Requests ==
    [step : {"signUp", "enter", "unlock", "create", "change", "delete", "signOut"},
     password : Passwords \cup {None}, new : Passwords \cup {None},
     keyRing : KeyRings \cup {None}]

Init ==
    /\ asked = [c \in Callers |-> None]
    /\ opener = None
    /\ leaving = None
    /\ open = FALSE
    /\ keyRings = {}
    /\ stored = {{}}

\* What is left of a request when its step is done.
Rest(r) ==
    CASE r.step = "signUp" -> [r EXCEPT !.step = "enter"]
      [] r.step = "enter"  -> [r EXCEPT !.step = "create"]
      [] r.step = "delete" -> [r EXCEPT !.step = "signOut"]
      [] OTHER -> None

Ask(c) ==
    /\ asked[c] = None
    /\ asked'[c] \in Requests
    /\ asked' = [asked EXCEPT ![c] = asked'[c]]
    /\ UNCHANGED <<opener, open, keyRings>>

Drop(c) ==
    /\ asked' = [asked EXCEPT ![c] = None]
    /\ UNCHANGED <<opener, open, keyRings>>

\* c has asked for this step, which is done once.
Does(c, step) ==
    /\ asked[c] # None
    /\ asked[c].step = step
    /\ \E rest \in {Rest(asked[c]), None} : asked' = [asked EXCEPT ![c] = rest]

\* c knows the password of the wallet.
Knows(c) == opener # None /\ asked[c].password = opener

SignUp(c) ==
    /\ Does(c, "signUp")
    /\ opener = None
    /\ opener' = asked[c].password
    /\ UNCHANGED <<open, keyRings>>

Unlock(c) ==
    /\ Does(c, "enter") \/ Does(c, "unlock")
    /\ Knows(c)
    /\ open' = TRUE
    /\ UNCHANGED <<opener, keyRings>>

Create(c, id) ==
    /\ Does(c, "create")
    /\ open
    /\ id \notin keyRings
    /\ keyRings' = keyRings \cup {id}
    /\ UNCHANGED <<opener, open>>

\* The wallet may have been locked since the password was checked.
Change(c) ==
    /\ Does(c, "change")
    /\ Knows(c)
    /\ opener' = asked[c].new
    /\ UNCHANGED <<open, keyRings>>

Delete(c) ==
    /\ Does(c, "delete")
    /\ open
    /\ Knows(c)
    /\ asked[c].keyRing \in keyRings
    /\ keyRings' = keyRings \ {asked[c].keyRing}
    /\ UNCHANGED <<opener, open>>

SignOut(c) ==
    /\ Does(c, "signOut")
    /\ open
    /\ Knows(c)
    /\ keyRings = {}
    /\ opener' = None
    /\ leaving' = opener
    /\ open' = FALSE
    /\ UNCHANGED keyRings

Lock ==
    /\ open' = FALSE
    /\ UNCHANGED <<asked, opener, keyRings>>

\* The worker starts again: requests are forgotten, and a wallet that is locked stays
\* so unless a sign-out has not settled.
WorkerEnds ==
    /\ asked' = [c \in Callers |-> None]
    /\ open' => open \/ leaving # None
    /\ leaving' = None
    /\ UNCHANGED <<opener, keyRings>>

\* A sign-out that has not settled may be undone.
BrowserEnds ==
    /\ asked' = [c \in Callers |-> None]
    /\ open' = FALSE
    /\ opener' = opener \/ (leaving # None /\ opener' = leaving)
    /\ leaving' = None
    /\ keyRings' \in stored
    /\ opener' = None => keyRings' = {}
    /\ stored' = {keyRings'}

\* A sign-out under way goes on or settles.
Settles == leaving' \in {leaving, None}

\* The storage has the key rings of now and may still have those of earlier.
Stores ==
    /\ stored' \subseteq stored \cup {keyRings'}
    /\ keyRings' \in stored'

Next ==
    /\ \/ /\ \/ \E c \in Callers :
                   \/ Ask(c) \/ Drop(c)
                   \/ SignUp(c) \/ Unlock(c) \/ Change(c) \/ Delete(c)
                   \/ \E id \in KeyRings : Create(c, id)
             \/ Lock
             \/ UNCHANGED <<asked, opener, open, keyRings>>
          /\ Settles
       \/ \E c \in Callers : SignOut(c)
       \/ WorkerEnds
       \/ BrowserEnds
    /\ Stores

Spec == Init /\ [][Next]_vars
=============================================================================
