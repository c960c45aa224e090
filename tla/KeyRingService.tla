----------------------------- MODULE KeyRingService -----------------------------
(***************************************************************************)
(* The key rings of the wallet (packages/background/src/keyring) over the  *)
(* vault service: the calls the UI makes, automatic locking, and the ends  *)
(* of the worker and of the browser.                                       *)
(*                                                                         *)
(* The four create methods differ in what they store: one action stands    *)
(* for them.                                                               *)
(***************************************************************************)
EXTENDS VaultService

CONSTANTS
    MaxVaults,        \* bound on the key rings created in a behaviour
    MaxSignUps,       \* sign-ups that may be in flight together
    MaxWrites,        \* writes outstanding when the user selects a key ring
    MaxRemovals,      \* bound on the outstanding session removals of lock()
    RestartKinds,     \* subset of {"kill", "exit"}: how the program may end
    TearCredentials   \* whether it may end between the writes of new credentials

ASSUME MaxVaultsAssumption   == MaxVaults \in Nat
ASSUME MaxSignUpsAssumption  == MaxSignUps \in Nat
ASSUME MaxWritesAssumption   == MaxWrites \in Nat
ASSUME MaxRemovalsAssumption == MaxRemovals \in Nat
ASSUME RestartKindsAssumption == RestartKinds \subseteq {"kill", "exit"}
ASSUME TearAssumption == TearCredentials \in BOOLEAN

VARIABLES
    selected,     \* _selectedVaultId, 0 when undefined
    vaultsMade    \* vault ids handed out

keyRingVars == <<selected, vaultsMade>>
vars == <<memory, session, removals, storage, call, keysDrawn, sealed, keyRingVars>>

VaultIds == 1 .. MaxVaults

StoreKeys == VaultKeys \cup {"selectedVaultId"}

\* The getter selectedVaultId: the first key ring stands in for a missing one.
SelectedVaultId(sel, vs) ==
    IF HasVault(vs, sel) THEN sel ELSE IF vs = <<>> THEN 0 ELSE vs[1].id

EmptyStore == [k \in StoreKeys |->
    CASE k = "vaultMap" -> <<>> [] k = "selectedVaultId" -> 0 [] OTHER -> Null]

Init ==
    /\ signedUp = FALSE /\ password = 0 /\ aesCounter = 0 /\ vaults = <<>>
    /\ session = [password |-> 0, aesCounter |-> 0]
    /\ removals = 0
    /\ store = EmptyStore /\ disk = EmptyStore /\ writes = <<>>
    /\ call = [c \in Calls |-> NoCall]
    /\ keysDrawn = 0
    /\ sealed = TRUE
    /\ selected = 0
    /\ vaultsMade = 0
-----------------------------------------------------------------------------
(* createMnemonicKeyRing, createLedgerKeyRing, createKeystoneKeyRing,       *)
(* createPrivateKeyKeyRing.                                                 *)

SigningUp(c) == call[c].pc \in {"signUp.derive", "signUp.cipher", "signUp.mac", "signUp.counter"}

Create(c, user) ==
    /\ At(c, "idle")
    /\ vaultsMade + Cardinality({d \in Calls : call[d].op = "create"}) < MaxVaults
    /\ \/ /\ ~signedUp
          /\ Cardinality({d \in Calls : SigningUp(d)}) < MaxSignUps
          /\ SignUpFrom(c, [NoCall EXCEPT !.op = "create", !.user = user])
       \/ /\ signedUp
          /\ Start(c, [NoCall EXCEPT !.op = "create", !.pc = "create.vault"])
          /\ UNCHANGED keysDrawn
    /\ UNCHANGED <<memory, session, removals, storage, sealed, keyRingVars>>

\* unlock returns: to the end of a create that signed up, or to the user.
UnlockReturns(c) ==
    /\ At(c, "unlock.session")
    /\ IF call[c].op = "create" THEN Goto(c, "create.vault") ELSE Finish(c)
    /\ UNCHANGED <<memory, session, removals, storage, keysDrawn, sealed, keyRingVars>>

\* createKeyRingVault has answered: addVault, then the new key ring is selected.
CreateAdds(c) ==
    /\ At(c, "create.vault")
    /\ ~Locked /\ vaultsMade < MaxVaults
    /\ vaultsMade' = vaultsMade + 1
    /\ vaults'     = Append(vaults, NewVault(vaultsMade + 1))
    /\ selected'   = vaultsMade + 1
    /\ Issue(<<Write("vaultMap", vaults', Null), Write("selectedVaultId", selected', Null)>>)
    /\ Finish(c)
    /\ UNCHANGED <<signedUp, password, aesCounter, session, removals, keysDrawn, sealed>>

CreateRejected(c) ==
    /\ At(c, "create.vault")
    /\ Locked
    /\ Finish(c)
    /\ UNCHANGED <<memory, session, removals, storage, keysDrawn, sealed, keyRingVars>>
-----------------------------------------------------------------------------
SelectKeyRing(id) ==
    /\ ~Locked
    /\ HasVault(vaults, id)
    /\ Len(writes) < MaxWrites
    /\ selected' = id
    /\ IF id = selected THEN UNCHANGED storage ELSE Issue(<<Write("selectedVaultId", id, Null)>>)
    /\ UNCHANGED <<memory, session, removals, call, keysDrawn, sealed, vaultsMade>>

DeleteKeyRing(c, id, user) ==
    /\ At(c, "idle")
    /\ HasVault(vaults, id)
    /\ CheckFrom(c, [NoCall EXCEPT !.op = "delete", !.pc = "delete.check",
                                  !.user = user, !.id = id])
    /\ UNCHANGED <<memory, session, removals, storage, keysDrawn, sealed, keyRingVars>>

\* The password is right: the vault is removed, the selection moves to the first
\* key ring left, and when none is left clearAll begins with its own check.
DeleteRemoves(c) ==
    LET id == call[c].id IN
    /\ At(c, "delete.check")
    /\ Checked(c)
    /\ HasVault(vaults, id)
    /\ vaults'   = Without(vaults, id)
    /\ selected' = IF SelectedVaultId(selected, vaults) = id
                   THEN SelectedVaultId(0, vaults')
                   ELSE selected
    /\ Issue(<<Write("vaultMap", vaults', Null)>> \o
             IF selected' = selected THEN <<>>
             ELSE <<Write("selectedVaultId", selected', Null)>>)
    /\ IF vaults' = <<>> /\ CanCheck
       THEN call' = [call EXCEPT ![c].pc = "clear.check", ![c].cred = Credentials]
       ELSE Finish(c)
    /\ UNCHANGED <<signedUp, password, aesCounter, session, removals, keysDrawn, sealed, vaultsMade>>

DeleteRejected(c) ==
    /\ At(c, "delete.check")
    /\ Checked(c)
    /\ ~HasVault(vaults, call[c].id)
    /\ Finish(c)
    /\ UNCHANGED <<memory, session, removals, storage, keysDrawn, sealed, keyRingVars>>
-----------------------------------------------------------------------------
(* Ends of the program, each followed by the start of the services.         *)

\* A sign-up or a password change has written only a part of its credentials.
WritingCredentials ==
    \E c \in Calls : call[c].pc \in {"signUp.mac", "signUp.counter",
                                     "change.cipher", "change.mac"}

\* Mutant: the stored selection is not read back.
Restart_ForgetsSelection(s, ses) ==
    /\ TearCredentials \/ ~WritingCredentials
    /\ StartOver(s, ses)
    /\ selected' = 0
    /\ store' = [s EXCEPT !["selectedVaultId"] = 0]
    /\ disk' = store'
    /\ writes' = <<>>
    /\ UNCHANGED vaultsMade

\* Every service starts over the storage s and the session ses; the autorun of
\* the key ring service erases a stored selection that names no key ring.
Restart(s, ses) ==
    /\ TearCredentials \/ ~WritingCredentials
    /\ StartOver(s, ses)
    /\ selected' = IF HasVault(s["vaultMap"], s["selectedVaultId"])
                   THEN s["selectedVaultId"] ELSE 0
    /\ store' = [s EXCEPT !["selectedVaultId"] = selected']
    /\ disk' = store'
    /\ writes' = <<>>
    /\ UNCHANGED vaultsMade

\* The browser ends the worker: writes already issued arrive, the continuations
\* are lost, the session storage stays.
Kill ==
    /\ "kill" \in RestartKinds
    /\ Restart(store, session)
    /\ UNCHANGED sealed

\* The browser ends: writes that have not arrived are lost, and so is the session.
Exit ==
    /\ "exit" \in RestartKinds
    /\ Restart(disk, [password |-> 0, aesCounter |-> 0])
    /\ sealed' = TRUE
-----------------------------------------------------------------------------
VaultStep(c) ==
    \/ \E user \in UserPasswords : Unlock(c, user)
    \/ UnlockAccepted(c)
    \/ UnlockRejected(c)
    \/ SignUpWritesCipher(c)
    \/ SignUpWritesMac(c)
    \/ SignUpWritesCounter(c)
    \/ SignUpUnlocks(c)
    \/ \E prev, new \in UserPasswords : ChangePassword(c, prev, new)
    \/ ChangeEncrypts(c)
    \/ ChangeWritesCipher(c)
    \/ ChangeWritesMac(c)
    \/ ChangeReturns(c)
    \/ CheckRejected(c, "change.check")
    \/ CheckRejected(c, "delete.check")
    \/ CheckRejected(c, "clear.check")
    \/ ClearAllErases(c)
    \/ ClearAllErased(c)
    \/ ClearAllReturns(c)

KeyRingStep(c) ==
    \/ \E user \in UserPasswords : Create(c, user)
    \/ UnlockReturns(c)
    \/ CreateAdds(c)
    \/ CreateRejected(c)
    \/ \E id \in VaultIds, user \in UserPasswords : DeleteKeyRing(c, id, user)
    \/ DeleteRemoves(c)
    \/ DeleteRejected(c)

Next ==
    \/ \E c \in Calls : VaultStep(c) /\ UNCHANGED keyRingVars
    \/ \E c \in Calls : KeyRingStep(c)
    \/ \E id \in VaultIds : SelectKeyRing(id)
    \/ removals < MaxRemovals /\ Lock /\ UNCHANGED keyRingVars
    \/ RemoveSessionCounter /\ UNCHANGED keyRingVars
    \/ FlushWrite /\ UNCHANGED keyRingVars
    \/ Kill
    \/ Exit

Spec == Init /\ [][Next]_vars
-----------------------------------------------------------------------------
CallOps == {"none", "unlock", "change", "create", "delete"}

CallPcs == {"idle", "unlock.derive", "unlock.session",
            "signUp.derive", "signUp.cipher", "signUp.mac", "signUp.counter",
            "change.check", "change.derive", "change.cipher", "change.mac",
            "clear.check", "clear.erased", "clear.session",
            "create.vault", "delete.check"}

Ids(vs) == {v.id : v \in Range(vs)}

\* No call is in flight and no write is outstanding.
AtRest == writes = <<>> /\ \A c \in Calls : call[c] = NoCall

Quiet == AtRest /\ removals = 0

Counters == Keys \cup {Garbage}

Vaults == [id : VaultIds, key : Keys, counter : Counters]

Cipher        == [user : UserPasswords, key : Keys]
CounterCipher == [key : Keys, data : Keys]

\* What the storage may hold under each key.
StoreType(k) ==
    CASE k \in {"passwordCipher", "userPasswordMac"} -> Cipher \cup {Null}
      [] k = "aesCounterCipher" -> CounterCipher \cup {Null}
      [] k = "vaultMap" -> Seq(Vaults)
      [] k = "selectedVaultId" -> VaultIds \cup {0}

StoreOK(s) == DOMAIN s = StoreKeys /\ \A k \in StoreKeys : s[k] \in StoreType(k)

WritesOf(k) == [key : {k}, val : StoreType(k), by : Calls \cup {Null}]

WriteType == WritesOf("passwordCipher") \cup WritesOf("userPasswordMac")
             \cup WritesOf("aesCounterCipher") \cup WritesOf("vaultMap")
             \cup WritesOf("selectedVaultId")

CallType == [op : CallOps, pc : CallPcs,
             user : UserPasswords \cup {Null}, newUser : UserPasswords \cup {Null},
             id : VaultIds \cup {0}, key : Keys,
             cred : [cipher : Cipher \cup {Null}, mac : Cipher \cup {Null},
                     counter : CounterCipher \cup {Null}]]

\* The types of the services' fields, of the storage and of the calls in flight; a
\* call that waits for a key derivation has read the credentials it needs.
TypeOK ==
    /\ signedUp \in BOOLEAN
    /\ password \in Keys
    /\ aesCounter \in Counters
    /\ vaults \in Seq(Vaults)
    /\ session \in [password : Keys, aesCounter : Counters]
    /\ removals \in Nat
    /\ StoreOK(store) /\ StoreOK(disk)
    /\ writes \in Seq(WriteType)
    /\ call \in [Calls -> CallType]
    /\ keysDrawn \in Keys
    /\ sealed \in BOOLEAN
    /\ selected \in VaultIds \cup {0}
    /\ vaultsMade \in 0 .. MaxVaults

\* After lock() the vault stays locked until a password has been accepted again:
\* neither a call that was in flight nor a worker that starts over from the
\* session storage opens it, although lock() does not wait for that storage.
LockHolds == sealed => Locked

\* While the vault is unlocked, every key ring can be decrypted with the password
\* and the counter in memory, whatever sign-ups, locks, password changes and
\* restarts lie between its creation and now.
VaultsDecryptable ==
    ~Locked => \A v \in Range(vaults) : v.key = password /\ v.counter = aesCounter

\* A wallet at rest that says it is signed up can be unlocked by some password,
\* and what that password decrypts opens every stored key ring.
SignedUpIsUnlockable ==
    Quiet /\ signedUp =>
        \E user \in UserPasswords :
            /\ PasswordMatches(user, Credentials)
            /\ store["aesCounterCipher"] # Null
            /\ \A v \in Range(vaults) :
                  /\ v.key = store["passwordCipher"].key
                  /\ v.counter = AesDecrypt(v.key, store["aesCounterCipher"])

RefusesSignUp == AtRest /\ ~signedUp /\ ~CanSignUp

\* A wallet at rest that says it is not signed up holds no key ring, and it accepts
\* a sign-up unless the program has ended while clearAll was erasing: the end of the
\* worker leaves it unlocked until the next lock, and only the end of the browser
\* leaves a locked wallet that refuses.
SignedOutCanSignUp ==
    [][LET erasing == \E c \in Calls : At(c, "clear.erased") IN
       /\ AtRest' /\ ~signedUp' => vaults' = <<>>
       /\ RefusesSignUp' => RefusesSignUp \/ (erasing /\ (Kill \/ Exit))
       /\ (RefusesSignUp /\ Locked)' => (RefusesSignUp /\ Locked) \/ (erasing /\ Exit)]_vars

\* A key ring disappears only because the user deleted that very key ring with
\* the password, or because the browser ended before it had reached the disk.
KeyRingsKept ==
    [][\A id \in Ids(vaults) \ Ids(vaults') :
          \/ \E c \in Calls : At(c, "delete.check") /\ call[c].id = id /\ Checked(c)
          \/ Exit /\ id \notin Ids(disk["vaultMap"])]_vars

\* The selected key ring stays selected as long as it exists, through deletions of
\* others and restarts: it changes only when the user selects or creates another,
\* or when the browser ends before the selection was written.
SelectionKept ==
    [][LET s == SelectedVaultId(selected, vaults) IN
       HasVault(vaults', s) /\ SelectedVaultId(selected', vaults') # s
          => \/ selected' \in Ids(vaults) /\ call' = call
             \/ selected' = vaultsMade' /\ vaultsMade' # vaultsMade
             \/ Exit /\ writes # <<>>]_vars
-----------------------------------------------------------------------------
(* The abstract wallet.                                                     *)

\* The lists of key rings that are stored, or will be.
StoredMaps ==
    {store["vaultMap"], disk["vaultMap"]} \cup
    {writes[i].val : i \in {j \in DOMAIN writes : writes[j].key = "vaultMap"}}

\* The step a call will do next of those the user waits for.
NextStep(r) ==
    CASE r.pc \in {"signUp.derive", "signUp.cipher", "signUp.mac", "signUp.counter"} -> "signUp"
      [] r.pc = "unlock.derive" -> IF r.op = "create" THEN "enter" ELSE "unlock"
      [] r.pc = "create.vault" \/ (r.pc = "unlock.session" /\ r.op = "create") -> "create"
      [] r.pc \in {"change.check", "change.derive", "change.cipher"} -> "change"
      [] r.pc = "delete.check" -> "delete"
      [] r.pc = "clear.check" -> "signOut"
      [] OTHER -> "none"

Request(r) ==
    IF NextStep(r) = "none" THEN Null
    ELSE [step |-> NextStep(r), password |-> r.user, new |-> r.newUser,
          keyRing |-> IF r.id = 0 THEN Null ELSE r.id]

Asked  == [c \in Calls |-> Request(call[c])]
Opener == IF signedUp THEN store["userPasswordMac"].user ELSE Null

\* The password of the clearAll whose erasures have not reached the disk.
Leaving ==
    IF \E c \in Calls : At(c, "clear.erased")
    THEN call[CHOOSE c \in Calls : At(c, "clear.erased")].user
    ELSE Null

Opened == ~Locked
Held   == Ids(vaults)
Stored == {Ids(vs) : vs \in StoredMaps}

Promise == INSTANCE Wallet WITH
    Callers <- Calls, Passwords <- UserPasswords, KeyRings <- VaultIds, None <- Null,
    asked <- Asked, opener <- Opener, leaving <- Leaving, open <- Opened, keyRings <- Held, stored <- Stored

\* The absent value is no password and no request.
ASSUME AbsentAssumption == Null \notin UserPasswords /\ Null \notin Promise!Requests

\* The key rings are a wallet that opens, changes its password, deletes and signs out
\* only for who asked for it with the password set last, once for each request, and
\* that comes back from an end of the program with what it had, or had stored, also
\* when the end cuts a clearAll short.
KeepsWallet == Promise!Spec
=============================================================================
