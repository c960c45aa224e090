------------------------------ MODULE VaultService ------------------------------
(***************************************************************************)
(* The encrypted vault of the wallet (packages/background/src/vault).      *)
(*                                                                         *)
(* The service is a JavaScript object in an extension worker: code between *)
(* two awaits runs to completion, and anything may run while a method      *)
(* waits for storage or for a key derivation.  So an action of this module *)
(* is one such segment of one method, and `call` keeps where each call in  *)
(* flight waits, with the values it read before the wait.                  *)
(*                                                                         *)
(* Storage writes reach the disk in the order they were issued.  `store`   *)
(* is the storage as a read sees it, `disk` what survives the end of the   *)
(* browser and `writes` the writes between the two.                        *)
(*                                                                         *)
(* Data is abstract.  A sign-up draws a random vault password and a random *)
(* AES counter: both are the number of the draw, 0 is the empty array, and *)
(* decrypting with the wrong key gives Garbage.                            *)
(***************************************************************************)
EXTENDS Integers, Sequences, SequencesExt, FiniteSets

CONSTANTS
    Calls,          \* slots for calls that may be in flight together
    UserPasswords,  \* the passwords users type
    MaxKeys,        \* bound on the sign-ups of a behaviour
    ServiceWorker,  \* isServiceWorker(): there is a session storage
    Null            \* the absent value of the storage

ASSUME MaxKeysAssumption == MaxKeys \in Nat
ASSUME ServiceWorkerAssumption == ServiceWorker \in BOOLEAN

VARIABLES
    signedUp,       \* _isSignedUp
    password,       \* password: 0 means locked
    aesCounter,     \* aesCounter
    vaults,         \* vaultMap.get("keyRing"), in order
    session,        \* browser.storage.session: "vault.password" and "vault.aesCounter"
    removals,       \* lock() calls whose second session remove is outstanding
    store, disk, writes,
    call,           \* the calls in flight
    keysDrawn,      \* sign-ups that have drawn a vault password
    sealed          \* history: no password was accepted since the last lock()

memory  == <<signedUp, password, aesCounter, vaults>>
storage == <<store, disk, writes>>

Keys    == 0 .. MaxKeys
Garbage == MaxKeys + 1

\* The absent value is no call and none of the values stored under the keys below.
ASSUME NullAssumption ==
    /\ Null \notin Calls
    /\ Null \notin [user : UserPasswords, key : Keys]
    /\ Null \notin [key : Keys, data : Keys]

Locked == password = 0
-----------------------------------------------------------------------------
(* Storage.  A write is [key, val, by]: `by` is the call that awaits it, or *)
(* Null for the un-awaited write of an autorun.                             *)

Write(key, val, by) == [key |-> key, val |-> val, by |-> by]

Put(s, ws) ==
    [k \in DOMAIN s |->
        IF \E i \in DOMAIN ws : ws[i].key = k
        THEN (CHOOSE w \in Range(ws) : w.key = k).val
        ELSE s[k]]

Issue(ws) ==
    /\ store'  = Put(store, ws)
    /\ writes' = writes \o ws
    /\ UNCHANGED disk

\* The write c awaits has reached the disk; its continuation issues ws.
Settle(c, ws) ==
    /\ writes # <<>>
    /\ Head(writes).by = c
    /\ disk'   = Put(disk, <<Head(writes)>>)
    /\ store'  = Put(store, ws)
    /\ writes' = Tail(writes) \o ws

\* A write nobody awaits reaches the disk.
FlushWrite ==
    /\ Settle(Null, <<>>)
    /\ UNCHANGED <<memory, session, removals, call, keysDrawn, sealed>>

VaultKeys == {"passwordCipher", "userPasswordMac", "aesCounterCipher", "vaultMap"}

CryptoKeys == VaultKeys \ {"vaultMap"}
-----------------------------------------------------------------------------
(* Cryptography.  The cipher of the vault password is [user, key].  The mac *)
(* is taken over the user password and the cipher, so it is represented by  *)
(* the very cipher it was made with.                                        *)

EncryptPassword(user, key) == [user |-> user, key |-> key]

PasswordMatches(user, cred) ==
    /\ cred.mac = cred.cipher
    /\ cred.mac.user = user

AesEncrypt(key, data) == [key |-> key, data |-> data]
AesDecrypt(key, cipher) == IF cipher.key = key THEN cipher.data ELSE Garbage

Credentials == [cipher  |-> store["passwordCipher"],
                mac     |-> store["userPasswordMac"],
                counter |-> store["aesCounterCipher"]]

NoCredentials == [cipher |-> Null, mac |-> Null, counter |-> Null]

HasCryptoState(s) == s["passwordCipher"] # Null /\ s["userPasswordMac"] # Null
-----------------------------------------------------------------------------
(* Calls.                                                                   *)

NoCall == [op |-> "none", pc |-> "idle", user |-> Null, newUser |-> Null,
           id |-> 0, key |-> 0, cred |-> NoCredentials]

At(c, pc) == call[c].pc = pc

Start(c, rec) == call' = [call EXCEPT ![c] = rec]
Goto(c, pc)   == call' = [call EXCEPT ![c].pc = pc]
Finish(c)     == call' = [call EXCEPT ![c] = NoCall]
-----------------------------------------------------------------------------
(* unlock: one segment up to the key derivation, one after it, and the wait *)
(* for the session storage.  The gets at its start are read together.       *)

CanUnlock == Locked /\ HasCryptoState(store) /\ store["aesCounterCipher"] # Null

UnlockFrom(c, rec) == Start(c, [rec EXCEPT !.pc = "unlock.derive", !.cred = Credentials])

Unlock(c, user) ==
    /\ At(c, "idle")
    /\ CanUnlock
    /\ UnlockFrom(c, [NoCall EXCEPT !.op = "unlock", !.user = user])
    /\ UNCHANGED <<memory, session, removals, storage, keysDrawn, sealed>>

UnlockAccepted(c) ==
    LET cred == call[c].cred IN
    /\ At(c, "unlock.derive")
    /\ PasswordMatches(call[c].user, cred)
    /\ password'   = cred.cipher.key
    /\ aesCounter' = AesDecrypt(cred.cipher.key, cred.counter)
    /\ session' = IF ServiceWorker
                  THEN [password |-> password', aesCounter |-> aesCounter']
                  ELSE session
    /\ sealed' = FALSE
    /\ Goto(c, "unlock.session")
    /\ UNCHANGED <<signedUp, vaults, removals, storage, keysDrawn>>

UnlockRejected(c) ==
    /\ At(c, "unlock.derive")
    /\ ~PasswordMatches(call[c].user, call[c].cred)
    /\ Finish(c)
    /\ UNCHANGED <<memory, session, removals, storage, keysDrawn, sealed>>

\* Mutant: only the counter is removed from the session storage.
Lock_KeepsSessionPassword ==
    /\ password' = 0
    /\ sealed'   = TRUE
    /\ removals' = removals + 1
    /\ UNCHANGED <<signedUp, aesCounter, vaults, session, storage, call, keysDrawn>>

\* lock() does not wait for the session storage: the removal of the password is
\* issued at once, the removal of the counter when that has been answered.
Lock ==
    /\ password' = 0
    /\ sealed'   = TRUE
    /\ session'  = IF ServiceWorker THEN [session EXCEPT !.password = 0] ELSE session
    /\ removals' = IF ServiceWorker THEN removals + 1 ELSE removals
    /\ UNCHANGED <<signedUp, aesCounter, vaults, storage, call, keysDrawn>>

\* Mutant: the continuation runs again after it has run.
RemoveSessionCounter_Twice ==
    /\ removals' = removals - 1
    /\ session'  = [session EXCEPT !.aesCounter = 0]
    /\ UNCHANGED <<memory, storage, call, keysDrawn, sealed>>

RemoveSessionCounter ==
    /\ removals > 0
    /\ removals' = removals - 1
    /\ session'  = [session EXCEPT !.aesCounter = 0]
    /\ UNCHANGED <<memory, storage, call, keysDrawn, sealed>>
-----------------------------------------------------------------------------
(* signUp, which ends in unlock.                                            *)

CanSignUp ==
    /\ Locked
    /\ ~signedUp
    /\ ~HasCryptoState(store)
    /\ store["aesCounterCipher"] = Null

\* generatePassword draws the vault password, then waits for the derivation.
SignUpFrom(c, rec) ==
    /\ CanSignUp
    /\ keysDrawn < MaxKeys
    /\ keysDrawn' = keysDrawn + 1
    /\ Start(c, [rec EXCEPT !.pc = "signUp.derive", !.key = keysDrawn + 1])

SignUpWritesCipher(c) ==
    /\ At(c, "signUp.derive")
    /\ Issue(<<Write("passwordCipher", EncryptPassword(call[c].user, call[c].key), c)>>)
    /\ Goto(c, "signUp.cipher")
    /\ UNCHANGED <<memory, session, removals, keysDrawn, sealed>>

SignUpWritesMac(c) ==
    /\ At(c, "signUp.cipher")
    /\ Settle(c, <<Write("userPasswordMac", EncryptPassword(call[c].user, call[c].key), c)>>)
    /\ Goto(c, "signUp.mac")
    /\ UNCHANGED <<memory, session, removals, keysDrawn, sealed>>

SignUpWritesCounter(c) ==
    /\ At(c, "signUp.mac")
    /\ Settle(c, <<Write("aesCounterCipher", AesEncrypt(call[c].key, call[c].key), c)>>)
    /\ Goto(c, "signUp.counter")
    /\ UNCHANGED <<memory, session, removals, keysDrawn, sealed>>

SignUpUnlocks(c) ==
    /\ At(c, "signUp.counter")
    /\ Settle(c, <<>>)
    /\ signedUp' = TRUE
    /\ IF CanUnlock THEN UnlockFrom(c, call[c]) ELSE Finish(c)
    /\ UNCHANGED <<password, aesCounter, vaults, session, removals, keysDrawn, sealed>>
-----------------------------------------------------------------------------
(* checkUserPassword, always the head of another method: CheckFrom starts   *)
(* it, Checked is the condition under which the caller goes on.             *)

CanCheck == ~Locked /\ signedUp /\ HasCryptoState(store)

CheckFrom(c, rec) ==
    /\ CanCheck
    /\ Start(c, [rec EXCEPT !.cred = Credentials])

\* Mutant: the key is not compared with the one in memory, which a lock has dropped.
Checked_MacOnly(c) == PasswordMatches(call[c].user, call[c].cred)

Checked(c) ==
    /\ PasswordMatches(call[c].user, call[c].cred)
    /\ call[c].cred.cipher.key = password

CheckRejected(c, pc) ==
    /\ At(c, pc)
    /\ ~Checked(c)
    /\ Finish(c)
    /\ UNCHANGED <<memory, session, removals, storage, keysDrawn, sealed>>
-----------------------------------------------------------------------------
(* changeUserPassword.                                                      *)

ChangePassword(c, prev, new) ==
    /\ At(c, "idle")
    /\ CheckFrom(c, [NoCall EXCEPT !.op = "change", !.pc = "change.check",
                                  !.user = prev, !.newUser = new])
    /\ UNCHANGED <<memory, session, removals, storage, keysDrawn, sealed>>

ChangeEncrypts(c) ==
    /\ At(c, "change.check")
    /\ Checked(c)
    /\ call' = [call EXCEPT ![c].pc = "change.derive", ![c].key = password]
    /\ UNCHANGED <<memory, session, removals, storage, keysDrawn, sealed>>

ChangeWritesCipher(c) ==
    /\ At(c, "change.derive")
    /\ Issue(<<Write("passwordCipher", EncryptPassword(call[c].newUser, call[c].key), c)>>)
    /\ Goto(c, "change.cipher")
    /\ UNCHANGED <<memory, session, removals, keysDrawn, sealed>>

\* Mutant: the mac is taken with the previous password.
ChangeWritesMac_PrevPassword(c) ==
    /\ At(c, "change.cipher")
    /\ Settle(c, <<Write("userPasswordMac", EncryptPassword(call[c].user, call[c].key), c)>>)
    /\ Goto(c, "change.mac")
    /\ UNCHANGED <<memory, session, removals, keysDrawn, sealed>>

ChangeWritesMac(c) ==
    /\ At(c, "change.cipher")
    /\ Settle(c, <<Write("userPasswordMac", EncryptPassword(call[c].newUser, call[c].key), c)>>)
    /\ Goto(c, "change.mac")
    /\ UNCHANGED <<memory, session, removals, keysDrawn, sealed>>

ChangeReturns(c) ==
    /\ At(c, "change.mac")
    /\ Settle(c, <<>>)
    /\ Finish(c)
    /\ UNCHANGED <<memory, session, removals, keysDrawn, sealed>>
-----------------------------------------------------------------------------
(* The vault map.  Every change of it is written by the autorun of init.    *)

\* addVault: encrypt throws while the vault is locked.
NewVault(id) == [id |-> id, key |-> password, counter |-> aesCounter]

HasVault(vs, id) == \E v \in Range(vs) : v.id = id

\* Mutant: the vault at the head is removed instead of the named one.
Without_Head(vs, id) == Tail(vs)

\* removeVault: ids are random, so the filter drops one vault.
Without(vs, id) == RemoveAt(vs, CHOOSE i \in DOMAIN vs : vs[i].id = id)
-----------------------------------------------------------------------------
(* clearAll.                                                                *)

\* Mutant: the encrypted counter stays in the storage.
ClearAllErases_KeepsCounter(c) ==
    /\ At(c, "clear.check")
    /\ Checked(c)
    /\ vaults'     = <<>>
    /\ signedUp'   = FALSE
    /\ password'   = 0
    /\ aesCounter' = 0
    /\ Issue(<<Write("vaultMap", <<>>, Null),
               Write("passwordCipher", Null, Null),
               Write("userPasswordMac", Null, c)>>)
    /\ Goto(c, "clear.erased")
    /\ UNCHANGED <<session, removals, keysDrawn, sealed>>

\* The memory is emptied, the autorun writes the empty map, the three
\* credentials are erased together.
ClearAllErases(c) ==
    /\ At(c, "clear.check")
    /\ Checked(c)
    /\ vaults'     = <<>>
    /\ signedUp'   = FALSE
    /\ password'   = 0
    /\ aesCounter' = 0
    /\ Issue(<<Write("vaultMap", <<>>, Null),
               Write("passwordCipher", Null, Null),
               Write("userPasswordMac", Null, Null),
               Write("aesCounterCipher", Null, c)>>)
    /\ Goto(c, "clear.erased")
    /\ UNCHANGED <<session, removals, keysDrawn, sealed>>

ClearAllErased(c) ==
    /\ At(c, "clear.erased")
    /\ Settle(c, <<>>)
    /\ IF ServiceWorker
       THEN session' = [session EXCEPT !.password = 0] /\ Goto(c, "clear.session")
       ELSE session' = session /\ Finish(c)
    /\ UNCHANGED <<memory, removals, keysDrawn, sealed>>

ClearAllReturns(c) ==
    /\ At(c, "clear.session")
    /\ session' = [session EXCEPT !.aesCounter = 0]
    /\ Finish(c)
    /\ UNCHANGED <<memory, removals, storage, keysDrawn, sealed>>
-----------------------------------------------------------------------------
(* Start of the service over the storage s and the session ses: init, then  *)
(* unlockWithSessionPasswordIfPossible.                                     *)

\* Mutant: only the password is taken back from the session storage.
StartOver_DropsCounter(s, ses) ==
    /\ signedUp'   = HasCryptoState(s)
    /\ vaults'     = s["vaultMap"]
    /\ password'   = ses.password
    /\ aesCounter' = 0
    /\ session'    = ses
    /\ removals'   = 0
    /\ call'       = [c \in Calls |-> NoCall]
    /\ UNCHANGED keysDrawn

StartOver(s, ses) ==
    LET restored == ServiceWorker /\ ses.password # 0 /\ ses.aesCounter # 0 IN
    /\ signedUp'   = HasCryptoState(s)
    /\ vaults'     = s["vaultMap"]
    /\ password'   = IF restored THEN ses.password ELSE 0
    /\ aesCounter' = IF restored THEN ses.aesCounter ELSE 0
    /\ session'    = ses
    /\ removals'   = 0
    /\ call'       = [c \in Calls |-> NoCall]
    /\ UNCHANGED keysDrawn
=============================================================================
