----------------------------- MODULE KeyRingProofs -----------------------------
(***************************************************************************)
(* Theorems about the key ring service, for any number of calls in flight, *)
(* of passwords and of key rings: its types, that a locked wallet stays    *)
(* locked, and that the selected key ring stays selected.                  *)
(***************************************************************************)
EXTENDS KeyRingService, SequenceTheorems, TLAPS

\* The session storage holds the two values of its type, and a sealed wallet holds
\* its password neither in memory nor in the session.
SessionSealed ==
    /\ session = [password |-> session.password, aesCounter |-> session.aesCounter]
    /\ ~ServiceWorker => session.password = 0
    /\ sealed => password = 0 /\ session.password = 0

LEMMA SessionSealedInit == Init => SessionSealed
BY DEF Init, SessionSealed

\* Every step of the service keeps the password of a sealed wallet out of the
\* memory and out of the session storage.
LEMMA SessionSealedStep == SessionSealed /\ [Next]_vars => SessionSealed'
<1> SUFFICES ASSUME SessionSealed, [Next]_vars PROVE SessionSealed'
  OBVIOUS
<1> USE ServiceWorkerAssumption
<1> USE DEF SessionSealed
<1>1. ASSUME NEW c \in Calls, VaultStep(c) PROVE SessionSealed'
  <2>1. ASSUME NEW user \in UserPasswords, Unlock(c, user) PROVE SessionSealed'
    BY <2>1 DEF Unlock, memory
  <2>2. CASE UnlockAccepted(c)
    BY <2>2 DEF UnlockAccepted
  <2>3. CASE UnlockRejected(c)
    BY <2>3 DEF UnlockRejected, memory
  <2>4. CASE SignUpWritesCipher(c) \/ SignUpWritesMac(c) \/ SignUpWritesCounter(c)
    BY <2>4 DEF SignUpWritesCipher, SignUpWritesMac, SignUpWritesCounter, memory
  <2>5. CASE SignUpUnlocks(c)
    BY <2>5 DEF SignUpUnlocks
  <2>6. ASSUME NEW prev \in UserPasswords, NEW new \in UserPasswords,
               ChangePassword(c, prev, new)
        PROVE SessionSealed'
    BY <2>6 DEF ChangePassword, memory
  <2>7. CASE ChangeEncrypts(c) \/ ChangeWritesCipher(c) \/ ChangeWritesMac(c) \/ ChangeReturns(c)
    BY <2>7 DEF ChangeEncrypts, ChangeWritesCipher, ChangeWritesMac, ChangeReturns, memory
  <2>8. ASSUME NEW pc, CheckRejected(c, pc) PROVE SessionSealed'
    BY <2>8 DEF CheckRejected, memory
  <2>9. CASE ClearAllErases(c)
    BY <2>9 DEF ClearAllErases
  <2>10. CASE ClearAllErased(c)
    BY <2>10 DEF ClearAllErased, memory
  <2>11. CASE ClearAllReturns(c)
    BY <2>11 DEF ClearAllReturns, memory
  <2> QED
    BY <1>1, <2>1, <2>2, <2>3, <2>4, <2>5, <2>6, <2>7, <2>8, <2>9, <2>10, <2>11 DEF VaultStep
<1>2. ASSUME NEW c \in Calls, KeyRingStep(c) PROVE SessionSealed'
  <2>1. ASSUME NEW user \in UserPasswords, Create(c, user) PROVE SessionSealed'
    BY <2>1 DEF Create, memory
  <2>2. CASE UnlockReturns(c) \/ CreateAdds(c) \/ CreateRejected(c)
    BY <2>2 DEF UnlockReturns, CreateAdds, CreateRejected, memory
  <2>3. ASSUME NEW id \in VaultIds, NEW user \in UserPasswords, DeleteKeyRing(c, id, user)
        PROVE SessionSealed'
    BY <2>3 DEF DeleteKeyRing, memory
  <2>4. CASE DeleteRemoves(c) \/ DeleteRejected(c)
    BY <2>4 DEF DeleteRemoves, DeleteRejected, memory
  <2> QED
    BY <1>2, <2>1, <2>2, <2>3, <2>4 DEF KeyRingStep
<1>3. ASSUME NEW id \in VaultIds, SelectKeyRing(id) PROVE SessionSealed'
  BY <1>3 DEF SelectKeyRing, memory
<1>4. CASE Lock
  BY <1>4 DEF Lock
<1>5. CASE RemoveSessionCounter
  BY <1>5 DEF RemoveSessionCounter, memory
<1>6. CASE FlushWrite
  BY <1>6 DEF FlushWrite, memory
<1>7. CASE Kill
  BY <1>7 DEF Kill, Restart, StartOver
<1>8. CASE Exit
  BY <1>8 DEF Exit, Restart, StartOver
<1>9. CASE UNCHANGED vars
  BY <1>9 DEF vars, memory
<1> QED
  BY <1>1, <1>2, <1>3, <1>4, <1>5, <1>6, <1>7, <1>8, <1>9 DEF Next

\* A wallet that was locked stays locked until a password is accepted, across the
\* calls in flight, the un-awaited writes to the session storage and the ends of
\* the worker and of the browser.
THEOREM LockedStaysLocked == Spec => []LockHolds
<1>1. SessionSealed => LockHolds
  BY DEF SessionSealed, LockHolds, Locked
<1> QED
  BY SessionSealedInit, SessionSealedStep, <1>1, PTL DEF Spec

-----------------------------------------------------------------------------
(* The storage.                                                             *)

StorageOK == StoreOK(store) /\ StoreOK(disk) /\ writes \in Seq(WriteType)

LEMMA WriteTypeIs ==
    ASSUME NEW w
    PROVE  w \in WriteType <=> /\ w = [key |-> w.key, val |-> w.val, by |-> w.by]
                               /\ w.key \in StoreKeys
                               /\ w.val \in StoreType(w.key)
                               /\ w.by \in Calls \cup {Null}
BY DEF WriteType, WritesOf, StoreKeys, VaultKeys

\* What a group of writes leaves under a key: the written value if one of them has
\* that key, and no other has it, and else what was there.
LEMMA PutAt ==
    ASSUME NEW s, NEW ws, NEW k \in DOMAIN s
    PROVE  /\ DOMAIN Put(s, ws) = DOMAIN s
           /\ (\A i \in DOMAIN ws : ws[i].key # k) => Put(s, ws)[k] = s[k]
           /\ \A i \in DOMAIN ws :
                 ws[i].key = k /\ (\A j \in DOMAIN ws : ws[j].key = k => j = i)
                     => Put(s, ws)[k] = ws[i].val
<1>1. DOMAIN Put(s, ws) = DOMAIN s
  BY DEF Put
<1>2. ASSUME \A i \in DOMAIN ws : ws[i].key # k PROVE Put(s, ws)[k] = s[k]
  BY <1>2 DEF Put
<1>3. ASSUME NEW i \in DOMAIN ws, ws[i].key = k, \A j \in DOMAIN ws : ws[j].key = k => j = i
      PROVE  Put(s, ws)[k] = ws[i].val
  <2>1. \A w \in Range(ws) : w.key = k <=> w = ws[i]
    BY <1>3 DEF Range
  <2>2. ws[i] \in Range(ws)
    BY <1>3 DEF Range
  <2>3. (CHOOSE w \in Range(ws) : w.key = k) = ws[i]
    BY <2>1, <2>2
  <2> QED
    BY <1>3, <2>3 DEF Put
<1> QED
  BY <1>1, <1>2, <1>3

LEMMA PutTyped ==
    ASSUME NEW s, StoreOK(s), NEW ws \in Seq(WriteType)
    PROVE  StoreOK(Put(s, ws))
<1>1. DOMAIN Put(s, ws) = StoreKeys
  BY DEF Put, StoreOK
<1>2. ASSUME NEW k \in StoreKeys PROVE Put(s, ws)[k] \in StoreType(k)
  <2>1. CASE \E i \in DOMAIN ws : ws[i].key = k
    <3> DEFINE w == CHOOSE w \in Range(ws) : w.key = k
    <3>0. \E x \in Range(ws) : x.key = k
      BY <2>1 DEF Range
    <3>1. w \in Range(ws) /\ w.key = k
      BY <3>0
    <3>2. w \in WriteType
      <4> HIDE DEF w
      <4>1. PICK i \in DOMAIN ws : w = ws[i]
        BY <3>1 DEF Range
      <4> QED
        BY <4>1
    <3>3. w.val \in StoreType(k)
      BY <3>1, <3>2, WriteTypeIs
    <3>4. Put(s, ws)[k] = w.val
      BY <2>1 DEF Put, StoreOK
    <3> QED
      BY <3>3, <3>4
  <2>2. CASE ~ \E i \in DOMAIN ws : ws[i].key = k
    BY <2>2 DEF Put, StoreOK
  <2> QED
    BY <2>1, <2>2
<1> QED
  BY <1>1, <1>2 DEF StoreOK

LEMMA IssueTyped ==
    ASSUME StorageOK, NEW ws \in Seq(WriteType), Issue(ws)
    PROVE  StorageOK'
<1>1. StoreOK(store')
  BY PutTyped DEF StorageOK, Issue
<1>2. writes' \in Seq(WriteType)
  BY DEF StorageOK, Issue
<1> QED
  BY <1>1, <1>2 DEF StorageOK, Issue

LEMMA HeadIsWrite ==
    ASSUME StorageOK, writes # <<>>
    PROVE  /\ Head(writes) \in WriteType
           /\ Head(writes) = writes[1]
           /\ <<Head(writes)>> \in Seq(WriteType)
           /\ Tail(writes) \in Seq(WriteType)
           /\ Len(writes) \in Nat \ {0}
BY DEF StorageOK

LEMMA SettleTyped ==
    ASSUME StorageOK, NEW c, NEW ws \in Seq(WriteType), Settle(c, ws)
    PROVE  StorageOK'
<1>1. writes # <<>>
  BY DEF Settle
<1>2. StoreOK(store') /\ StoreOK(disk')
  BY <1>1, PutTyped, HeadIsWrite DEF StorageOK, Settle
<1>3. writes' \in Seq(WriteType)
  BY <1>1, HeadIsWrite DEF StorageOK, Settle
<1> QED
  BY <1>2, <1>3 DEF StorageOK
-----------------------------------------------------------------------------
(* The types.                                                               *)

SignUpPcs == {"signUp.derive", "signUp.cipher", "signUp.mac", "signUp.counter"}
ChangePcs == {"change.check", "change.derive", "change.cipher", "change.mac"}
CheckPcs  == {"change.check", "delete.check", "clear.check"}

\* What a call that waits has read before the wait, and will use after it.
CallReady(r) ==
    /\ r.pc = "unlock.derive" =>
          /\ r.cred.cipher \in Cipher /\ r.cred.mac \in Cipher
          /\ r.cred.counter \in CounterCipher
    /\ r.pc \in CheckPcs => r.cred.cipher \in Cipher /\ r.cred.mac \in Cipher
    /\ r.pc \in SignUpPcs => r.user \in UserPasswords
    /\ r.pc \in ChangePcs => r.newUser \in UserPasswords

CallsOK ==
    /\ call \in [Calls -> CallType]
    /\ \A c \in Calls : CallReady(call[c])

LEMMA NoCallTyped == NoCall \in CallType /\ CallReady(NoCall) /\ NoCall.pc = "idle"
BY MaxKeysAssumption DEF NoCall, CallType, NoCredentials, CallReady, CallOps, CallPcs, Keys,
   SignUpPcs, ChangePcs, CheckPcs

LEMMA StoreTypes ==
    ASSUME NEW s, StoreOK(s)
    PROVE  /\ DOMAIN s = StoreKeys
           /\ s["passwordCipher"] \in Cipher \cup {Null}
           /\ s["userPasswordMac"] \in Cipher \cup {Null}
           /\ s["aesCounterCipher"] \in CounterCipher \cup {Null}
           /\ s["vaultMap"] \in Seq(Vaults)
           /\ s["selectedVaultId"] \in VaultIds \cup {0}
<1>1. {"passwordCipher", "userPasswordMac", "aesCounterCipher", "vaultMap", "selectedVaultId"}
        \subseteq StoreKeys
  BY DEF StoreKeys, VaultKeys
<1> QED
  BY <1>1 DEF StoreOK, StoreType

LEMMA StartReady ==
    ASSUME CallsOK, NEW c \in Calls, NEW rec \in CallType, CallReady(rec), Start(c, rec)
    PROVE  CallsOK'
BY DEF CallsOK, Start

LEMMA GotoReady ==
    ASSUME CallsOK, NEW c \in Calls, NEW pc \in CallPcs, Goto(c, pc),
           CallReady([call[c] EXCEPT !.pc = pc])
    PROVE  CallsOK'
<1> DEFINE rec == [call[c] EXCEPT !.pc = pc]
<1>1. rec \in CallType
  BY DEF CallsOK, CallType
<1>2. Start(c, rec)
  BY DEF Start, Goto
<1> QED
  BY <1>1, <1>2, StartReady

LEMMA FinishReady ==
    ASSUME CallsOK, NEW c \in Calls, Finish(c)
    PROVE  CallsOK'
BY NoCallTyped, StartReady DEF Finish, Start

\* The fields of the services.
FieldsOK ==
    /\ signedUp \in BOOLEAN
    /\ password \in Keys
    /\ aesCounter \in Counters
    /\ vaults \in Seq(Vaults)
    /\ session \in [password : Keys, aesCounter : Counters]
    /\ removals \in Nat
    /\ keysDrawn \in Keys
    /\ sealed \in BOOLEAN
    /\ selected \in VaultIds \cup {0}
    /\ vaultsMade \in 0 .. MaxVaults

TypeInv == FieldsOK /\ StorageOK /\ CallsOK

LEMMA TypeInvImplies == TypeInv => TypeOK
BY DEF TypeInv, TypeOK, CallsOK, FieldsOK, StorageOK

LEMMA WritesTyped ==
    ASSUME NEW by \in Calls \cup {Null}
    PROVE  /\ \A v \in Cipher \cup {Null} : /\ Write("passwordCipher", v, by) \in WriteType
                                            /\ Write("userPasswordMac", v, by) \in WriteType
           /\ \A v \in CounterCipher \cup {Null} : Write("aesCounterCipher", v, by) \in WriteType
           /\ \A v \in Seq(Vaults) : Write("vaultMap", v, by) \in WriteType
           /\ \A v \in VaultIds \cup {0} : Write("selectedVaultId", v, by) \in WriteType
BY DEF Write, WriteType, WritesOf, StoreType

\* A single write of the right type is a group of writes of the right type.
LEMMA GroupsTyped == <<>> \in Seq(WriteType) /\ \A w \in WriteType : <<w>> \in Seq(WriteType)
OBVIOUS

\* Removing the vault with some id: the vaults after it move down by one place.
LEMMA WithoutIs ==
    ASSUME NEW vs \in Seq(Vaults), NEW id, HasVault(vs, id)
    PROVE  /\ Without(vs, id) \in Seq(Vaults)
           /\ Len(vs) > 0 /\ Len(Without(vs, id)) = Len(vs) - 1
           /\ \E i \in DOMAIN vs :
                 /\ vs[i].id = id
                 /\ \A j \in DOMAIN Without(vs, id) :
                       Without(vs, id)[j] = IF j < i THEN vs[j] ELSE vs[j + 1]
<1> DEFINE i == CHOOSE i \in DOMAIN vs : vs[i].id = id
           a == SubSeq(vs, 1, i - 1)
           b == SubSeq(vs, i + 1, Len(vs))
           w == a \o b
<1>1. \E j \in DOMAIN vs : vs[j].id = id
  BY DEF HasVault, Range
<1>2. i \in DOMAIN vs /\ vs[i].id = id
  BY <1>1
<1>3. Without(vs, id) = w
  BY DEF Without, RemoveAt
<1> HIDE DEF i
<1>4. i \in 1 .. Len(vs) /\ Len(vs) \in Nat
  BY <1>2
<1>5. a \in Seq(Vaults) /\ Len(a) = i - 1 /\ \A j \in 1 .. i - 1 : a[j] = vs[j]
  BY <1>4, SubSeqProperties
<1>6. b \in Seq(Vaults) /\ Len(b) = Len(vs) - i /\ \A j \in 1 .. Len(vs) - i : b[j] = vs[i + j]
  BY <1>4, SubSeqProperties
<1> HIDE DEF a, b
<1>7. /\ w \in Seq(Vaults) /\ Len(w) = Len(vs) - 1
      /\ \A j \in 1 .. Len(vs) - 1 : w[j] = IF j <= i - 1 THEN a[j] ELSE b[j - (i - 1)]
  <2>1. /\ w \in Seq(Vaults) /\ Len(w) = Len(a) + Len(b)
        /\ \A j \in 1 .. Len(a) + Len(b) : w[j] = IF j <= Len(a) THEN a[j] ELSE b[j - Len(a)]
    BY <1>5, <1>6, ConcatProperties
  <2>2. Len(a) = i - 1 /\ Len(a) + Len(b) = Len(vs) - 1
    BY <1>4, <1>5, <1>6
  <2> HIDE DEF w
  <2> QED
    BY <2>1, <2>2
<1> HIDE DEF w
<1>8. \A j \in 1 .. Len(vs) - 1 : w[j] = IF j < i THEN vs[j] ELSE vs[j + 1]
  <2> TAKE j \in 1 .. Len(vs) - 1
  <2>1. CASE j < i
    BY <1>4, <1>5, <1>7, <2>1
  <2>2. CASE ~(j < i)
    <3> DEFINE m == j - (i - 1)
    <3>1. m \in 1 .. Len(vs) - i /\ i + m = j + 1
      BY <1>4, <2>2
    <3>2. w[j] = b[m]
      BY <1>4, <1>7, <2>2
    <3> HIDE DEF m
    <3>3. b[m] = vs[i + m]
      BY <1>6, <3>1
    <3> QED
      BY <1>4, <2>2, <3>1, <3>2, <3>3
  <2> QED
    BY <2>1, <2>2
<1>9. DOMAIN w = 1 .. Len(vs) - 1
  BY <1>7, LenProperties
<1> QED
  <2>1. \A j \in DOMAIN w : w[j] = IF j < i THEN vs[j] ELSE vs[j + 1]
    BY <1>8, <1>9
  <2> QED
    BY <1>2, <1>3, <1>4, <1>7, <2>1

LEMMA SelectedIs ==
    ASSUME NEW sel \in VaultIds \cup {0}, NEW vs \in Seq(Vaults)
    PROVE  SelectedVaultId(sel, vs) \in VaultIds \cup {0}
<1>1. vs # <<>> => vs[1] \in Vaults
  BY EmptySeq, ElementOfSeq
<1> QED
  BY <1>1 DEF SelectedVaultId, Vaults

CredType == [cipher : Cipher \cup {Null}, mac : Cipher \cup {Null},
             counter : CounterCipher \cup {Null}]

LEMMA CredentialsTyped ==
    ASSUME StoreOK(store)
    PROVE  /\ Credentials \in CredType
           /\ HasCryptoState(store) => Credentials.cipher \in Cipher /\ Credentials.mac \in Cipher
           /\ CanUnlock => /\ Credentials.cipher \in Cipher /\ Credentials.mac \in Cipher
                           /\ Credentials.counter \in CounterCipher
BY StoreTypes DEF Credentials, CredType, HasCryptoState, CanUnlock

LEMMA TypeInit == Init => TypeInv
<1> SUFFICES ASSUME Init PROVE TypeInv
  OBVIOUS
<1>1. FieldsOK
  <2>1. 0 \in Keys /\ 0 \in Counters /\ 0 \in 0 .. MaxVaults
    BY MaxKeysAssumption, MaxVaultsAssumption DEF Keys, Counters
  <2>2. <<>> \in Seq(Vaults)
    OBVIOUS
  <2> QED
    BY <2>1, <2>2 DEF Init, FieldsOK
<1>2. StorageOK
  BY DEF Init, StorageOK, StoreOK, EmptyStore, StoreType, StoreKeys, VaultKeys
<1>3. CallsOK
  BY NoCallTyped DEF Init, CallsOK
<1> QED
  BY <1>1, <1>2, <1>3 DEF TypeInv

\* A call that moves on, or ends, while everything it holds stays as it was.
LEMMA MovesOn ==
    ASSUME TypeInv, NEW c \in Calls, NEW pc \in CallPcs, Goto(c, pc),
           pc \in SignUpPcs => call[c].pc \in SignUpPcs,
           pc \in ChangePcs => call[c].pc \in ChangePcs,
           pc # "unlock.derive", pc \notin CheckPcs
    PROVE  CallsOK'
<1>1. CallsOK /\ call[c] \in CallType /\ CallReady(call[c])
  BY DEF TypeInv, CallsOK
<1>2. \A f \in {"user", "newUser", "cred"} : [call[c] EXCEPT !.pc = pc][f] = call[c][f]
  BY <1>1 DEF CallType
<1>3. [call[c] EXCEPT !.pc = pc].pc = pc
  BY <1>1 DEF CallType
<1> QED
  BY <1>1, <1>2, <1>3, GotoReady DEF CallReady

\* A call that moves on with credentials it has just read, or with a key.
WithCred(r, pc, cred) == [r EXCEPT !.pc = pc, !.cred = cred]
WithKey(r, pc, key)   == [r EXCEPT !.pc = pc, !.key = key]

LEMMA CallWith ==
    ASSUME NEW r \in CallType, NEW pc \in CallPcs, NEW cred \in CredType, NEW key \in Keys
    PROVE  /\ WithCred(r, pc, cred) \in CallType
           /\ WithCred(r, pc, cred).pc = pc
           /\ WithCred(r, pc, cred).cred = cred
           /\ WithKey(r, pc, key) \in CallType
           /\ WithKey(r, pc, key).pc = pc
           /\ WithKey(r, pc, key).key = key
           /\ WithKey(r, pc, key).newUser = r.newUser
<1>1. \A q \in CallType : /\ [q EXCEPT !.pc = pc] \in CallType
                         /\ [q EXCEPT !.pc = pc].pc = pc
                         /\ [q EXCEPT !.pc = pc].newUser = q.newUser
  BY DEF CallType
<1>2. \A q \in CallType : /\ [q EXCEPT !.cred = cred] \in CallType
                         /\ [q EXCEPT !.cred = cred].pc = q.pc
                         /\ [q EXCEPT !.cred = cred].cred = cred
  BY DEF CallType, CredType
<1>3. \A q \in CallType : /\ [q EXCEPT !.key = key] \in CallType
                         /\ [q EXCEPT !.key = key].pc = q.pc
                         /\ [q EXCEPT !.key = key].key = key
                         /\ [q EXCEPT !.key = key].newUser = q.newUser
  BY DEF CallType
<1>4. /\ WithCred(r, pc, cred) = [[r EXCEPT !.pc = pc] EXCEPT !.cred = cred]
      /\ WithKey(r, pc, key) = [[r EXCEPT !.pc = pc] EXCEPT !.key = key]
  BY DEF WithCred, WithKey
<1> DEFINE moved == [r EXCEPT !.pc = pc]
<1>5. moved \in CallType /\ moved.pc = pc /\ moved.newUser = r.newUser
  BY <1>1
<1>6. WithCred(r, pc, cred) = [moved EXCEPT !.cred = cred]
  BY <1>4
<1>7. WithKey(r, pc, key) = [moved EXCEPT !.key = key]
  BY <1>4
<1> HIDE DEF moved
<1> QED
  BY <1>2, <1>3, <1>5, <1>6, <1>7

LEMMA VaultStepTyped ==
    ASSUME TypeInv, NEW c \in Calls, VaultStep(c), UNCHANGED keyRingVars
    PROVE  TypeInv'
<1> USE MaxKeysAssumption, ServiceWorkerAssumption
<1>0. FieldsOK /\ StorageOK /\ CallsOK
  BY DEF TypeInv
<1>c. /\ call[c] \in CallType /\ CallReady(call[c])
      /\ \A pc \in CallPcs : [call[c] EXCEPT !.pc = pc] \in CallType
  BY <1>0 DEF CallsOK, CallType
<1>d. /\ Credentials \in CredType
      /\ HasCryptoState(store) => Credentials.cipher \in Cipher /\ Credentials.mac \in Cipher
      /\ CanUnlock => /\ Credentials.cipher \in Cipher /\ Credentials.mac \in Cipher
                      /\ Credentials.counter \in CounterCipher
  BY <1>0, CredentialsTyped DEF StorageOK
<1>e. /\ DOMAIN NoCall = {"op", "pc", "user", "newUser", "id", "key", "cred"}
      /\ NoCall \in CallType /\ 0 \in Keys
  BY NoCallTyped DEF NoCall, Keys
<1> USE <1>0 DEF memory, storage, keyRingVars
<1>1. ASSUME NEW user \in UserPasswords, Unlock(c, user) PROVE TypeInv'
  <2> DEFINE rec == [NoCall EXCEPT !.op = "unlock", !.user = user,
                                   !.pc = "unlock.derive", !.cred = Credentials]
  <2>1. FieldsOK' /\ StorageOK'
    BY <1>1 DEF Unlock, FieldsOK, StorageOK, StoreOK
  <2>2. rec \in CallType
    BY <1>d, <1>e DEF CallType, CredType, CallOps, CallPcs
  <2>3. rec.pc = "unlock.derive" /\ rec.cred = Credentials
    BY <1>e
  <2>4. CallReady(rec)
    BY <1>1, <1>d, <2>3 DEF Unlock, CallReady, CheckPcs, SignUpPcs, ChangePcs
  <2>5. Start(c, rec)
    BY <1>1 DEF Unlock, UnlockFrom, NoCall
  <2> QED
    BY <2>1, <2>2, <2>4, <2>5, StartReady DEF TypeInv
<1>2. CASE UnlockAccepted(c)
  <2>1. /\ call[c].cred.cipher \in Cipher
        /\ call[c].cred.counter \in CounterCipher
    BY <1>2, <1>c DEF UnlockAccepted, At, CallReady
  <2>2. password' \in Keys /\ aesCounter' \in Counters
    BY <1>2, <2>1 DEF UnlockAccepted, Cipher, CounterCipher, AesDecrypt, Counters
  <2>3. FieldsOK' /\ StorageOK'
    BY <1>2, <2>2 DEF UnlockAccepted, FieldsOK, StorageOK, StoreOK
  <2>4. CallsOK'
    BY <1>2, MovesOn DEF UnlockAccepted, CallPcs, SignUpPcs, ChangePcs, CheckPcs
  <2> QED
    BY <2>3, <2>4 DEF TypeInv
<1>3. CASE UnlockRejected(c)
  BY <1>3, FinishReady DEF TypeInv, UnlockRejected, FieldsOK, StorageOK, StoreOK
<1>4. CASE SignUpWritesCipher(c)
  <2>1. EncryptPassword(call[c].user, call[c].key) \in Cipher
    BY <1>4, <1>c DEF SignUpWritesCipher, At, CallReady, SignUpPcs, EncryptPassword, Cipher, CallType
  <2>2. StorageOK'
    <3>1. <<Write("passwordCipher", EncryptPassword(call[c].user, call[c].key), c)>> \in Seq(WriteType)
      BY <2>1, WritesTyped, GroupsTyped
    <3> QED
      BY <1>4, <3>1, IssueTyped DEF SignUpWritesCipher
  <2>3. FieldsOK' /\ CallsOK'
    BY <1>4, MovesOn DEF SignUpWritesCipher, FieldsOK, CallPcs, SignUpPcs, ChangePcs, CheckPcs, At
  <2> QED
    BY <2>2, <2>3 DEF TypeInv
<1>5. CASE SignUpWritesMac(c)
  <2>1. EncryptPassword(call[c].user, call[c].key) \in Cipher
    BY <1>5, <1>c DEF SignUpWritesMac, At, CallReady, SignUpPcs, EncryptPassword, Cipher, CallType
  <2>2. StorageOK'
    <3>1. <<Write("userPasswordMac", EncryptPassword(call[c].user, call[c].key), c)>> \in Seq(WriteType)
      BY <2>1, WritesTyped, GroupsTyped
    <3> QED
      BY <1>5, <3>1, SettleTyped DEF SignUpWritesMac
  <2>3. FieldsOK' /\ CallsOK'
    BY <1>5, MovesOn DEF SignUpWritesMac, FieldsOK, CallPcs, SignUpPcs, ChangePcs, CheckPcs, At
  <2> QED
    BY <2>2, <2>3 DEF TypeInv
<1>6. CASE SignUpWritesCounter(c)
  <2>1. AesEncrypt(call[c].key, call[c].key) \in CounterCipher
    BY <1>c DEF AesEncrypt, CounterCipher, CallType
  <2>2. StorageOK'
    <3>1. <<Write("aesCounterCipher", AesEncrypt(call[c].key, call[c].key), c)>> \in Seq(WriteType)
      BY <2>1, WritesTyped, GroupsTyped
    <3> QED
      BY <1>6, <3>1, SettleTyped DEF SignUpWritesCounter
  <2>3. FieldsOK' /\ CallsOK'
    BY <1>6, MovesOn DEF SignUpWritesCounter, FieldsOK, CallPcs, SignUpPcs, ChangePcs, CheckPcs, At
  <2> QED
    BY <2>2, <2>3 DEF TypeInv
<1>7. CASE SignUpUnlocks(c)
  <2>1. StorageOK'
    BY <1>7, SettleTyped, GroupsTyped DEF SignUpUnlocks
  <2>2. FieldsOK'
    BY <1>7 DEF SignUpUnlocks, FieldsOK
  <2>3. CASE CanUnlock
    <3> DEFINE rec == WithCred(call[c], "unlock.derive", Credentials)
    <3>0. /\ rec \in CallType
          /\ rec.pc = "unlock.derive" /\ rec.cred = Credentials
      <4>1. "unlock.derive" \in CallPcs
        BY DEF CallPcs
      <4> QED
        BY <1>c, <1>d, <1>e, <4>1, CallWith
    <3>1. CallReady(rec)
      BY <1>d, <2>3, <3>0 DEF CallReady, CheckPcs, SignUpPcs, ChangePcs
    <3>2. Start(c, rec)
      BY <1>7, <2>3 DEF SignUpUnlocks, UnlockFrom, WithCred
    <3> QED
      BY <2>1, <2>2, <3>0, <3>1, <3>2, StartReady DEF TypeInv
  <2>4. CASE ~CanUnlock
    BY <1>7, <2>1, <2>2, <2>4, FinishReady DEF TypeInv, SignUpUnlocks
  <2> QED
    BY <2>3, <2>4
<1>8. ASSUME NEW prev \in UserPasswords, NEW new \in UserPasswords, ChangePassword(c, prev, new)
      PROVE  TypeInv'
  <2> DEFINE rec == [NoCall EXCEPT !.op = "change", !.pc = "change.check",
                                   !.user = prev, !.newUser = new, !.cred = Credentials]
  <2>1. FieldsOK' /\ StorageOK'
    BY <1>8 DEF ChangePassword, FieldsOK, StorageOK, StoreOK
  <2>2. rec \in CallType
    BY <1>d, <1>e DEF CallType, CredType, CallOps, CallPcs
  <2>3. rec.pc = "change.check" /\ rec.cred = Credentials /\ rec.newUser = new
    BY <1>e
  <2>4. CallReady(rec)
    BY <1>8, <1>d, <2>3 DEF ChangePassword, CheckFrom, CanCheck, CallReady,
       CheckPcs, SignUpPcs, ChangePcs
  <2>5. Start(c, rec)
    BY <1>8 DEF ChangePassword, CheckFrom, NoCall
  <2> QED
    BY <2>1, <2>2, <2>4, <2>5, StartReady DEF TypeInv
<1>9. CASE ChangeEncrypts(c)
  <2> DEFINE rec == WithKey(call[c], "change.derive", password)
  <2>1. FieldsOK' /\ StorageOK'
    BY <1>9 DEF ChangeEncrypts, FieldsOK, StorageOK, StoreOK
  <2>2. /\ rec \in CallType
        /\ rec.pc = "change.derive" /\ rec.newUser = call[c].newUser
    <3>1. "change.derive" \in CallPcs /\ password \in Keys
      BY DEF CallPcs, FieldsOK
    <3> QED
      BY <1>c, <1>d, <3>1, CallWith
  <2>4. CallReady(rec)
    BY <1>9, <1>c, <2>2 DEF ChangeEncrypts, At, CallReady, CheckPcs, SignUpPcs, ChangePcs
  <2>3. Start(c, rec)
    BY <1>9, <1>c DEF ChangeEncrypts, Start, CallType, CallsOK, WithKey
  <2> QED
    BY <2>1, <2>2, <2>3, <2>4, StartReady DEF TypeInv
<1>10. CASE ChangeWritesCipher(c)
  <2>1. EncryptPassword(call[c].newUser, call[c].key) \in Cipher
    BY <1>10, <1>c DEF ChangeWritesCipher, At, CallReady, ChangePcs, EncryptPassword, Cipher, CallType
  <2>2. StorageOK'
    <3>1. <<Write("passwordCipher", EncryptPassword(call[c].newUser, call[c].key), c)>> \in Seq(WriteType)
      BY <2>1, WritesTyped, GroupsTyped
    <3> QED
      BY <1>10, <3>1, IssueTyped DEF ChangeWritesCipher
  <2>3. FieldsOK' /\ CallsOK'
    BY <1>10, MovesOn DEF ChangeWritesCipher, FieldsOK, CallPcs, SignUpPcs, ChangePcs, CheckPcs, At
  <2> QED
    BY <2>2, <2>3 DEF TypeInv
<1>11. CASE ChangeWritesMac(c)
  <2>1. EncryptPassword(call[c].newUser, call[c].key) \in Cipher
    BY <1>11, <1>c DEF ChangeWritesMac, At, CallReady, ChangePcs, EncryptPassword, Cipher, CallType
  <2>2. StorageOK'
    <3>1. <<Write("userPasswordMac", EncryptPassword(call[c].newUser, call[c].key), c)>> \in Seq(WriteType)
      BY <2>1, WritesTyped, GroupsTyped
    <3> QED
      BY <1>11, <3>1, SettleTyped DEF ChangeWritesMac
  <2>3. FieldsOK' /\ CallsOK'
    BY <1>11, MovesOn DEF ChangeWritesMac, FieldsOK, CallPcs, SignUpPcs, ChangePcs, CheckPcs, At
  <2> QED
    BY <2>2, <2>3 DEF TypeInv
<1>12. CASE ChangeReturns(c)
  BY <1>12, SettleTyped, GroupsTyped, FinishReady DEF TypeInv, ChangeReturns, FieldsOK
<1>13. ASSUME NEW pc, CheckRejected(c, pc) PROVE TypeInv'
  BY <1>13, FinishReady DEF TypeInv, CheckRejected, FieldsOK, StorageOK, StoreOK
<1>14. CASE ClearAllErases(c)
  <2> DEFINE ws == <<Write("vaultMap", <<>>, Null), Write("passwordCipher", Null, Null),
                     Write("userPasswordMac", Null, Null), Write("aesCounterCipher", Null, c)>>
  <2>0. <<>> \in Seq(Vaults)
    OBVIOUS
  <2>1. ws \in Seq(WriteType)
    <3>1. /\ Write("vaultMap", <<>>, Null) \in WriteType
          /\ Write("passwordCipher", Null, Null) \in WriteType
          /\ Write("userPasswordMac", Null, Null) \in WriteType
          /\ Write("aesCounterCipher", Null, c) \in WriteType
      BY <2>0, WritesTyped
    <3> QED
      BY <3>1
  <2>2. StorageOK'
    BY <1>14, <2>1, IssueTyped DEF ClearAllErases
  <2>3. FieldsOK'
    BY <1>14, <1>e, <2>0 DEF ClearAllErases, FieldsOK, Counters
  <2>4. CallsOK'
    BY <1>14, MovesOn DEF ClearAllErases, CallPcs, SignUpPcs, ChangePcs, CheckPcs
  <2> QED
    BY <2>2, <2>3, <2>4 DEF TypeInv
<1>15. CASE ClearAllErased(c)
  <2>1. StorageOK'
    BY <1>15, SettleTyped, GroupsTyped DEF ClearAllErased
  <2>2. FieldsOK'
    BY <1>15 DEF ClearAllErased, FieldsOK, Keys
  <2>3. CallsOK'
    BY <1>15, MovesOn, FinishReady DEF ClearAllErased, CallPcs, SignUpPcs, ChangePcs, CheckPcs
  <2> QED
    BY <2>1, <2>2, <2>3 DEF TypeInv
<1>16. CASE ClearAllReturns(c)
  BY <1>16, FinishReady DEF TypeInv, ClearAllReturns, FieldsOK, StorageOK, StoreOK, Keys, Counters
<1> QED
  BY <1>1, <1>2, <1>3, <1>4, <1>5, <1>6, <1>7, <1>8, <1>9, <1>10, <1>11, <1>12, <1>13, <1>14,
     <1>15, <1>16 DEF VaultStep

\* A new key ring, and the two writes that follow its creation or a deletion.
LEMMA VaultsTyped ==
    ASSUME NEW vs \in Seq(Vaults), NEW id \in VaultIds \cup {0}
    PROVE  /\ <<Write("vaultMap", vs, Null)>> \in Seq(WriteType)
           /\ <<Write("vaultMap", vs, Null)>> \o <<>> = <<Write("vaultMap", vs, Null)>>
           /\ <<Write("selectedVaultId", id, Null)>> \in Seq(WriteType)
           /\ <<Write("vaultMap", vs, Null), Write("selectedVaultId", id, Null)>> \in Seq(WriteType)
           /\ <<Write("vaultMap", vs, Null)>> \o <<Write("selectedVaultId", id, Null)>>
                 = <<Write("vaultMap", vs, Null), Write("selectedVaultId", id, Null)>>
<1> DEFINE v == Write("vaultMap", vs, Null)
           w == Write("selectedVaultId", id, Null)
<1>1. v \in WriteType /\ w \in WriteType
  BY WritesTyped
<1> HIDE DEF v, w
<1>2. <<v>> \in Seq(WriteType) /\ <<w>> \in Seq(WriteType) /\ <<v, w>> \in Seq(WriteType)
  BY <1>1
<1>3. <<v>> \o <<>> = <<v>>
  BY <1>2, ConcatEmptySeq
<1>4. <<v>> \o <<w>> = <<v, w>>
  <2>1. /\ <<v>> \o <<w>> \in Seq(WriteType) /\ Len(<<v>> \o <<w>>) = 2
        /\ (<<v>> \o <<w>>)[1] = v /\ (<<v>> \o <<w>>)[2] = w
    BY <1>2, ConcatProperties
  <2>2. /\ <<v, w>> \in Seq(WriteType) /\ Len(<<v, w>>) = 2
        /\ <<v, w>>[1] = v /\ <<v, w>>[2] = w
    BY <1>2
  <2> DEFINE x == <<v>> \o <<w>>
             y == <<v, w>>
  <2> HIDE DEF x, y
  <2>3. x \in Seq(WriteType) /\ y \in Seq(WriteType) /\ Len(x) = Len(y)
    BY <2>1, <2>2 DEF x, y
  <2>4. \A i \in 1 .. Len(x) : i = 1 \/ i = 2
    BY <2>1 DEF x
  <2>5. \A i \in 1 .. Len(x) : x[i] = y[i]
    BY <2>1, <2>2, <2>4 DEF x, y
  <2>6. x = y
    BY <2>3, <2>5, SeqEqual
  <2> QED
    BY <2>6 DEF x, y
<1> QED
  BY <1>2, <1>3, <1>4 DEF v, w

LEMMA KeyRingStepTyped ==
    ASSUME TypeInv, NEW c \in Calls, KeyRingStep(c)
    PROVE  TypeInv'
<1> USE MaxKeysAssumption, MaxVaultsAssumption, ServiceWorkerAssumption
<1>0. FieldsOK /\ StorageOK /\ CallsOK
  BY DEF TypeInv
<1>c. call[c] \in CallType /\ CallReady(call[c])
  BY <1>0 DEF CallsOK
<1>e. /\ DOMAIN NoCall = {"op", "pc", "user", "newUser", "id", "key", "cred"}
      /\ NoCall \in CallType /\ 0 \in Keys
  BY NoCallTyped DEF NoCall, Keys
<1>f. /\ Credentials \in CredType
      /\ HasCryptoState(store) => Credentials.cipher \in Cipher /\ Credentials.mac \in Cipher
  BY <1>0, CredentialsTyped DEF StorageOK
<1> USE <1>0 DEF memory, storage, keyRingVars
<1>1. ASSUME NEW user \in UserPasswords, Create(c, user) PROVE TypeInv'
  <2>1. StorageOK'
    BY <1>1 DEF Create, StorageOK, StoreOK
  <2>2. CASE signedUp
    <3> DEFINE rec == [NoCall EXCEPT !.op = "create", !.pc = "create.vault"]
    <3>1. rec \in CallType /\ rec.pc = "create.vault"
      BY <1>e DEF CallType, CallOps, CallPcs
    <3>2. CallReady(rec)
      BY <3>1 DEF CallReady, CheckPcs, SignUpPcs, ChangePcs
    <3>3. Start(c, rec) /\ UNCHANGED keysDrawn
      BY <1>1, <2>2 DEF Create
    <3> HIDE DEF rec
    <3>4. FieldsOK'
      BY <1>1, <3>3 DEF Create, FieldsOK
    <3> QED
      BY <2>1, <3>1, <3>2, <3>3, <3>4, StartReady DEF TypeInv
  <2>3. CASE ~signedUp
    <3> DEFINE rec == [NoCall EXCEPT !.op = "create", !.user = user,
                                     !.pc = "signUp.derive", !.key = keysDrawn + 1]
    <3>1. keysDrawn + 1 \in Keys /\ keysDrawn' = keysDrawn + 1
      BY <1>1, <2>3 DEF Create, SignUpFrom, FieldsOK, Keys
    <3>2. rec \in CallType /\ rec.pc = "signUp.derive" /\ rec.user = user
      BY <1>e, <3>1 DEF CallType, CallOps, CallPcs
    <3>3. CallReady(rec)
      BY <3>2 DEF CallReady, CheckPcs, SignUpPcs, ChangePcs
    <3>4. Start(c, rec)
      BY <1>1, <2>3 DEF Create, SignUpFrom, NoCall
    <3> HIDE DEF rec
    <3>5. FieldsOK'
      BY <1>1, <3>1 DEF Create, FieldsOK
    <3> QED
      BY <2>1, <3>2, <3>3, <3>4, <3>5, StartReady DEF TypeInv
  <2> QED
    BY <2>2, <2>3 DEF FieldsOK
<1>2. CASE UnlockReturns(c)
  <2>1. StorageOK' /\ FieldsOK'
    BY <1>2 DEF UnlockReturns, StorageOK, StoreOK, FieldsOK
  <2>2. CallsOK'
    BY <1>2, MovesOn, FinishReady DEF UnlockReturns, CallPcs, SignUpPcs, ChangePcs, CheckPcs
  <2> QED
    BY <2>1, <2>2 DEF TypeInv
<1>3. CASE CreateAdds(c)
  <2>1. vaultsMade' \in 0 .. MaxVaults /\ selected' \in VaultIds
    BY <1>3 DEF CreateAdds, FieldsOK, VaultIds
  <2>2. vaults' \in Seq(Vaults)
    <3>1. NewVault(vaultsMade + 1) \in Vaults
      BY <1>3 DEF CreateAdds, FieldsOK, VaultIds, NewVault, Vaults
    <3> QED
      BY <1>3, <3>1 DEF CreateAdds, FieldsOK
  <2>3. StorageOK'
    <3>1. <<Write("vaultMap", vaults', Null), Write("selectedVaultId", selected', Null)>>
            \in Seq(WriteType)
      BY <2>1, <2>2, VaultsTyped
    <3> QED
      BY <1>3, <3>1, IssueTyped DEF CreateAdds
  <2>4. FieldsOK' /\ CallsOK'
    BY <1>3, <2>1, <2>2, FinishReady DEF CreateAdds, FieldsOK
  <2> QED
    BY <2>3, <2>4 DEF TypeInv
<1>4. CASE CreateRejected(c)
  BY <1>4, FinishReady DEF TypeInv, CreateRejected, FieldsOK, StorageOK, StoreOK
<1>5. ASSUME NEW id \in VaultIds, NEW user \in UserPasswords, DeleteKeyRing(c, id, user)
      PROVE  TypeInv'
  <2> DEFINE rec == [NoCall EXCEPT !.op = "delete", !.pc = "delete.check",
                                   !.user = user, !.id = id, !.cred = Credentials]
  <2>1. FieldsOK' /\ StorageOK'
    BY <1>5 DEF DeleteKeyRing, FieldsOK, StorageOK, StoreOK
  <2>2. rec \in CallType
    BY <1>e, <1>f DEF CallType, CredType, CallOps, CallPcs
  <2>3. rec.pc = "delete.check" /\ rec.cred = Credentials
    BY <1>e
  <2>4. CallReady(rec)
    BY <1>5, <1>f, <2>3 DEF DeleteKeyRing, CheckFrom, CanCheck, CallReady,
       CheckPcs, SignUpPcs, ChangePcs
  <2>5. Start(c, rec)
    BY <1>5 DEF DeleteKeyRing, CheckFrom, NoCall
  <2> QED
    BY <2>1, <2>2, <2>4, <2>5, StartReady DEF TypeInv
<1>6. CASE DeleteRemoves(c)
  <2>1. vaults' \in Seq(Vaults)
    BY <1>6, WithoutIs DEF DeleteRemoves, FieldsOK
  <2>2. selected' \in VaultIds \cup {0}
    BY <1>6, <2>1, SelectedIs DEF DeleteRemoves, FieldsOK
  <2>3. StorageOK'
    <3> DEFINE ws == <<Write("vaultMap", vaults', Null)>> \o
                     IF selected' = selected THEN <<>>
                     ELSE <<Write("selectedVaultId", selected', Null)>>
    <3>1. ws \in Seq(WriteType)
      BY <2>1, <2>2, VaultsTyped
    <3>2. Issue(ws)
      BY <1>6 DEF DeleteRemoves
    <3> QED
      BY <3>1, <3>2, IssueTyped
  <2>4. FieldsOK'
    BY <1>6, <2>1, <2>2 DEF DeleteRemoves, FieldsOK
  <2>5. CASE vaults' = <<>> /\ CanCheck
    <3> DEFINE rec == WithCred(call[c], "clear.check", Credentials)
    <3>1. rec \in CallType /\ rec.pc = "clear.check" /\ rec.cred = Credentials
      <4>1. "clear.check" \in CallPcs
        BY DEF CallPcs
      <4> QED
        BY <1>c, <1>e, <1>f, <4>1, CallWith
    <3>2. CallReady(rec)
      BY <1>f, <2>5, <3>1 DEF CanCheck, CallReady, CheckPcs, SignUpPcs, ChangePcs
    <3>3. Start(c, rec)
      BY <1>6, <2>5 DEF DeleteRemoves, Start, CallsOK, CallType, WithCred
    <3> QED
      BY <2>3, <2>4, <3>1, <3>2, <3>3, StartReady DEF TypeInv
  <2>6. CASE ~(vaults' = <<>> /\ CanCheck)
    BY <1>6, <2>3, <2>4, <2>6, FinishReady DEF DeleteRemoves, TypeInv
  <2> QED
    BY <2>5, <2>6
<1>7. CASE DeleteRejected(c)
  BY <1>7, FinishReady DEF TypeInv, DeleteRejected, FieldsOK, StorageOK, StoreOK
<1> QED
  BY <1>1, <1>2, <1>3, <1>4, <1>5, <1>6, <1>7 DEF KeyRingStep

\* The services start over a storage and a session of the right types.
LEMMA RestartTyped ==
    ASSUME TypeInv, NEW s, StoreOK(s), NEW ses \in [password : Keys, aesCounter : Counters],
           Restart(s, ses), sealed' \in BOOLEAN
    PROVE  TypeInv'
<1>1. s["vaultMap"] \in Seq(Vaults) /\ s["selectedVaultId"] \in VaultIds \cup {0}
  BY StoreTypes
<1>2. selected' \in VaultIds \cup {0} /\ vaults' \in Seq(Vaults)
  BY <1>1 DEF Restart, StartOver
<1>3. 0 \in Keys /\ 0 \in Counters /\ keysDrawn' = keysDrawn /\ vaultsMade' = vaultsMade
  BY MaxKeysAssumption DEF Keys, Counters, Restart, StartOver
<1>4. password' \in Keys /\ aesCounter' \in Counters /\ session' = ses /\ removals' = 0
      /\ signedUp' \in BOOLEAN
  BY <1>3 DEF Restart, StartOver, HasCryptoState
<1>5. FieldsOK'
  BY <1>2, <1>3, <1>4 DEF TypeInv, FieldsOK
<1>6. StoreOK(store') /\ disk' = store' /\ writes' = <<>>
  <2>1. store' = [s EXCEPT !["selectedVaultId"] = selected'] /\ disk' = store' /\ writes' = <<>>
    BY DEF Restart
  <2>2. ASSUME NEW k \in StoreKeys PROVE store'[k] \in StoreType(k)
    BY <1>2, <2>1 DEF StoreOK, StoreType
  <2> QED
    BY <2>1, <2>2 DEF StoreOK
<1>7. StorageOK'
  BY <1>6, GroupsTyped DEF StorageOK
<1>8. CallsOK'
  BY NoCallTyped DEF Restart, StartOver, CallsOK
<1> QED
  BY <1>5, <1>7, <1>8 DEF TypeInv

LEMMA TypeStep == TypeInv /\ [Next]_vars => TypeInv'
<1> SUFFICES ASSUME TypeInv, [Next]_vars PROVE TypeInv'
  OBVIOUS
<1>0. FieldsOK /\ StorageOK /\ CallsOK
  BY DEF TypeInv
<1> USE DEF memory, storage, keyRingVars
<1>1. ASSUME NEW c \in Calls, VaultStep(c), UNCHANGED keyRingVars PROVE TypeInv'
  BY <1>1, VaultStepTyped
<1>2. ASSUME NEW c \in Calls, KeyRingStep(c) PROVE TypeInv'
  BY <1>2, KeyRingStepTyped
<1>3. ASSUME NEW id \in VaultIds, SelectKeyRing(id) PROVE TypeInv'
  <2>1. <<Write("selectedVaultId", id, Null)>> \in Seq(WriteType)
    BY WritesTyped, GroupsTyped
  <2>2. StorageOK'
    BY <1>0, <1>3, <2>1, IssueTyped DEF SelectKeyRing, StorageOK, StoreOK
  <2>3. FieldsOK' /\ CallsOK'
    BY <1>0, <1>3 DEF SelectKeyRing, FieldsOK, CallsOK
  <2> QED
    BY <2>2, <2>3 DEF TypeInv
<1>4. CASE Lock /\ UNCHANGED keyRingVars
  <2>1. 0 \in Keys
    BY MaxKeysAssumption DEF Keys
  <2> QED
    BY <1>0, <1>4, <2>1 DEF Lock, TypeInv, FieldsOK, StorageOK, StoreOK, CallsOK
<1>5. CASE RemoveSessionCounter /\ UNCHANGED keyRingVars
  <2>1. 0 \in Counters
    BY MaxKeysAssumption DEF Keys, Counters
  <2> QED
    BY <1>0, <1>5, <2>1 DEF RemoveSessionCounter, TypeInv, FieldsOK, StorageOK, StoreOK, CallsOK
<1>6. CASE FlushWrite /\ UNCHANGED keyRingVars
  <2>1. StorageOK'
    BY <1>0, <1>6, SettleTyped, GroupsTyped DEF FlushWrite
  <2> QED
    BY <1>0, <1>6, <2>1 DEF FlushWrite, TypeInv, FieldsOK, CallsOK
<1>7. CASE Kill
  BY <1>0, <1>7, RestartTyped DEF Kill, StorageOK, FieldsOK
<1>8. CASE Exit
  <2>1. [password |-> 0, aesCounter |-> 0] \in [password : Keys, aesCounter : Counters]
    BY MaxKeysAssumption DEF Keys, Counters
  <2> QED
    BY <1>0, <1>8, <2>1, RestartTyped DEF Exit, StorageOK
<1>9. CASE UNCHANGED vars
  BY <1>0, <1>9 DEF vars, TypeInv, FieldsOK, StorageOK, StoreOK, CallsOK
<1> QED
  BY <1>1, <1>2, <1>3, <1>4, <1>5, <1>6, <1>7, <1>8, <1>9 DEF Next

\* The fields of the services, the storage and the calls in flight keep their
\* types, whatever calls are in flight together and however the program ends; a
\* call that goes on after a wait holds the credentials it read before it.
THEOREM TypeCorrect == Spec => []TypeOK
BY TypeInit, TypeStep, TypeInvImplies, PTL DEF Spec
-----------------------------------------------------------------------------
(* The selected key ring.  The inductive invariant relates the memory, the  *)
(* storage as a read sees it, the writes under way and the disk.            *)

Distinct(ws) == \A i, j \in DOMAIN ws : ws[i].key = ws[j].key => i = j

Written(ws, k) == {ws[i].val : i \in {j \in DOMAIN ws : ws[j].key = k}}

\* The values of a key that are stored, or will be.
Values(k) == {store[k], disk[k]} \cup Written(writes, k)

IsLast(w, k, i) == w[i].key = k /\ \A j \in DOMAIN w : j > i => w[j].key # k

\* A read sees the last write under way, and what is on the disk when there is none.
Coherent(s, d, w) ==
    \A k \in StoreKeys :
        /\ \A i \in DOMAIN w : IsLast(w, k, i) => s[k] = w[i].val
        /\ (\A i \in DOMAIN w : w[i].key # k) => s[k] = d[k]

LEMMA PutValue ==
    ASSUME NEW s, NEW ws, NEW k \in DOMAIN s
    PROVE  Put(s, ws)[k] = s[k] \/ Put(s, ws)[k] \in Written(ws, k)
<1>1. CASE \E i \in DOMAIN ws : ws[i].key = k
  <2> DEFINE w == CHOOSE w \in Range(ws) : w.key = k
  <2>1. \E x \in Range(ws) : x.key = k
    BY <1>1 DEF Range
  <2>2. w \in Range(ws) /\ w.key = k
    BY <2>1
  <2>3. Put(s, ws)[k] = w.val
    BY <1>1 DEF Put
  <2> HIDE DEF w
  <2>4. PICK i \in DOMAIN ws : w = ws[i]
    BY <2>2 DEF Range
  <2> QED
    BY <2>2, <2>3, <2>4 DEF Written
<1>2. CASE ~ \E i \in DOMAIN ws : ws[i].key = k
  BY <1>2 DEF Put
<1> QED
  BY <1>1, <1>2

LEMMA ConcatAt ==
    ASSUME NEW S, NEW s \in Seq(S), NEW t \in Seq(S)
    PROVE  /\ DOMAIN (s \o t) = 1 .. Len(s) + Len(t)
           /\ \A i \in DOMAIN s : i \in DOMAIN (s \o t) /\ (s \o t)[i] = s[i]
           /\ \A i \in DOMAIN t : Len(s) + i \in DOMAIN (s \o t) /\ (s \o t)[Len(s) + i] = t[i]
           /\ \A i \in DOMAIN (s \o t) : \/ i \in DOMAIN s
                                         \/ i > Len(s) /\ i - Len(s) \in DOMAIN t
<1> DEFINE w == s \o t
<1>1. /\ Len(s) \in Nat /\ Len(t) \in Nat
      /\ DOMAIN s = 1 .. Len(s) /\ DOMAIN t = 1 .. Len(t)
  BY LenProperties
<1>2. /\ w \in Seq(S) /\ Len(w) = Len(s) + Len(t)
      /\ \A i \in 1 .. Len(s) + Len(t) : w[i] = IF i <= Len(s) THEN s[i] ELSE t[i - Len(s)]
  BY ConcatProperties
<1>3. DOMAIN w = 1 .. Len(s) + Len(t)
  BY <1>2, LenProperties
<1> HIDE DEF w
<1>4. \A i \in DOMAIN s : i \in DOMAIN w /\ w[i] = s[i]
  BY <1>1, <1>2, <1>3
<1>5. ASSUME NEW i \in DOMAIN t PROVE Len(s) + i \in DOMAIN w /\ w[Len(s) + i] = t[i]
  <2> DEFINE j == Len(s) + i
  <2>1. j \in 1 .. Len(s) + Len(t) /\ ~(j <= Len(s)) /\ j - Len(s) = i
    BY <1>1
  <2> HIDE DEF j
  <2>2. w[j] = t[i]
    BY <1>2, <2>1
  <2> QED
    BY <1>3, <2>1, <2>2 DEF j
<1>6. \A i \in DOMAIN w : i \in DOMAIN s \/ (i > Len(s) /\ i - Len(s) \in DOMAIN t)
  BY <1>1, <1>3
<1> QED
  BY <1>3, <1>4, <1>5, <1>6 DEF w

LEMMA ConcatWritten ==
    ASSUME NEW s \in Seq(WriteType), NEW t \in Seq(WriteType), NEW k
    PROVE  Written(s \o t, k) = Written(s, k) \cup Written(t, k)
<1> DEFINE w == s \o t
<1>1. /\ \A i \in DOMAIN s : i \in DOMAIN w /\ w[i] = s[i]
      /\ \A i \in DOMAIN t : Len(s) + i \in DOMAIN w /\ w[Len(s) + i] = t[i]
      /\ \A i \in DOMAIN w : i \in DOMAIN s \/ (i > Len(s) /\ i - Len(s) \in DOMAIN t)
      /\ DOMAIN w \subseteq Int /\ Len(s) \in Nat
  <2>1. DOMAIN w = 1 .. Len(s) + Len(t) /\ Len(s) \in Nat /\ Len(t) \in Nat
    BY ConcatAt
  <2> QED
    BY <2>1, ConcatAt
<1> HIDE DEF w
<1>2. ASSUME NEW i \in DOMAIN w, w[i].key = k PROVE w[i].val \in Written(s, k) \cup Written(t, k)
  <2>1. CASE i \in DOMAIN s
    BY <1>1, <1>2, <2>1 DEF Written
  <2>2. CASE i > Len(s) /\ i - Len(s) \in DOMAIN t
    <3> DEFINE j == i - Len(s)
    <3>1. j \in DOMAIN t /\ Len(s) + j = i
      BY <1>1, <2>2
    <3> HIDE DEF j
    <3>2. w[i] = t[j]
      BY <1>1, <3>1
    <3> QED
      BY <1>2, <3>1, <3>2 DEF Written
  <2> QED
    BY <1>1, <2>1, <2>2
<1>3. ASSUME NEW i \in DOMAIN s, s[i].key = k PROVE s[i].val \in Written(w, k)
  BY <1>1, <1>3 DEF Written
<1>4. ASSUME NEW i \in DOMAIN t, t[i].key = k PROVE t[i].val \in Written(w, k)
  BY <1>1, <1>4 DEF Written
<1> QED
  BY <1>2, <1>3, <1>4 DEF Written, w

LEMMA TailWritten ==
    ASSUME NEW s \in Seq(WriteType), s # <<>>, NEW k
    PROVE  Written(Tail(s), k) \subseteq Written(s, k)
<1> DEFINE t == Tail(s)
<1>1. /\ t \in Seq(WriteType) /\ Len(t) = Len(s) - 1
      /\ \A i \in 1 .. Len(t) : t[i] = s[i + 1]
      /\ Len(s) \in Nat /\ DOMAIN t = 1 .. Len(t) /\ DOMAIN s = 1 .. Len(s)
  BY HeadTailProperties, LenProperties
<1> HIDE DEF t
<1>2. \A i \in DOMAIN t : i + 1 \in DOMAIN s /\ t[i] = s[i + 1]
  BY <1>1
<1> QED
  BY <1>2 DEF Written, t

\* A step that issues writes adds no other value to a key than those.
LEMMA IssueValues ==
    ASSUME StorageOK, NEW ws \in Seq(WriteType), Issue(ws), NEW k \in StoreKeys
    PROVE  Values(k)' \subseteq Values(k) \cup Written(ws, k)
<1>1. store'[k] \in {store[k]} \cup Written(ws, k) /\ disk' = disk
  BY PutValue DEF StorageOK, StoreOK, Issue
<1>2. Written(writes', k) = Written(writes, k) \cup Written(ws, k)
  BY ConcatWritten DEF StorageOK, Issue
<1> QED
  BY <1>1, <1>2 DEF Values

LEMMA SettleValues ==
    ASSUME StorageOK, NEW c, NEW ws \in Seq(WriteType), Settle(c, ws), NEW k \in StoreKeys
    PROVE  Values(k)' \subseteq Values(k) \cup Written(ws, k)
<1>1. store'[k] \in {store[k]} \cup Written(ws, k)
  BY PutValue DEF StorageOK, StoreOK, Settle
<1>2. disk'[k] \in {disk[k]} \cup Written(writes, k)
  <2>1. disk'[k] \in {disk[k]} \cup Written(<<Head(writes)>>, k)
    BY PutValue DEF StorageOK, StoreOK, Settle
  <2>2. Written(<<Head(writes)>>, k) \subseteq Written(writes, k)
    BY HeadIsWrite DEF Settle, Written, StorageOK
  <2> QED
    BY <2>1, <2>2
<1>3. Written(writes', k) \subseteq Written(writes, k) \cup Written(ws, k)
  <2>1. writes # <<>> /\ Tail(writes) \in Seq(WriteType) /\ writes' = Tail(writes) \o ws
    BY HeadIsWrite DEF Settle
  <2>2. Written(writes', k) = Written(Tail(writes), k) \cup Written(ws, k)
    BY <2>1, ConcatWritten
  <2> QED
    BY <2>1, <2>2, TailWritten DEF StorageOK
<1> QED
  BY <1>1, <1>2, <1>3 DEF Values

\* What the disk and the writes under way say of a read survives new writes ...
LEMMA CoherentAppend ==
    ASSUME NEW s, NEW d, NEW w \in Seq(WriteType), NEW ws \in Seq(WriteType), Distinct(ws),
           DOMAIN s = StoreKeys, Coherent(s, d, w)
    PROVE  Coherent(Put(s, ws), d, w \o ws)
<1> DEFINE wx == w \o ws
           sx == Put(s, ws)
<1>1. /\ \A i \in DOMAIN w : i \in DOMAIN wx /\ wx[i] = w[i]
      /\ \A i \in DOMAIN ws : Len(w) + i \in DOMAIN wx /\ wx[Len(w) + i] = ws[i]
      /\ \A i \in DOMAIN wx : i \in DOMAIN w \/ (i > Len(w) /\ i - Len(w) \in DOMAIN ws)
      /\ DOMAIN wx \subseteq Int /\ Len(w) \in Nat /\ DOMAIN w = 1 .. Len(w)
      /\ DOMAIN ws \subseteq Nat \ {0}
  <2>1. DOMAIN wx = 1 .. Len(w) + Len(ws) /\ Len(w) \in Nat /\ Len(ws) \in Nat
    BY ConcatAt
  <2> QED
    BY <2>1, ConcatAt
<1>2. \A k \in StoreKeys :
         /\ (\A i \in DOMAIN ws : ws[i].key # k) => sx[k] = s[k]
         /\ \A i \in DOMAIN ws : ws[i].key = k => sx[k] = ws[i].val
  BY PutAt DEF Distinct
<1> HIDE DEF wx, sx
<1> SUFFICES ASSUME NEW k \in StoreKeys
             PROVE  /\ \A i \in DOMAIN wx : IsLast(wx, k, i) => sx[k] = wx[i].val
                    /\ (\A i \in DOMAIN wx : wx[i].key # k) => sx[k] = d[k]
  BY DEF Coherent, wx, sx
<1>3. CASE \E j \in DOMAIN ws : ws[j].key = k
  <2>1. PICK j \in DOMAIN ws : ws[j].key = k
    BY <1>3
  <2>2. sx[k] = ws[j].val /\ Len(w) + j \in DOMAIN wx /\ wx[Len(w) + j] = ws[j]
    BY <1>1, <1>2, <2>1
  <2>3. ASSUME NEW i \in DOMAIN wx, IsLast(wx, k, i) PROVE wx[i] = ws[j]
    <3>1. i >= Len(w) + j /\ i > Len(w) /\ i \in Int
      BY <1>1, <2>1, <2>2, <2>3 DEF IsLast
    <3>2. i - Len(w) \in DOMAIN ws
      BY <1>1, <3>1
    <3> DEFINE m == i - Len(w)
    <3>3. m \in DOMAIN ws /\ Len(w) + m = i
      BY <1>1, <3>1, <3>2
    <3> HIDE DEF m
    <3>4. wx[i] = ws[m]
      BY <1>1, <3>3
    <3>5. m = j
      BY <2>1, <2>3, <3>3, <3>4 DEF Distinct, IsLast
    <3> QED
      BY <3>4, <3>5
  <2> QED
    BY <2>1, <2>2, <2>3
<1>4. CASE ~ \E j \in DOMAIN ws : ws[j].key = k
  <2>1. sx[k] = s[k]
    BY <1>2, <1>4
  <2>2. \A i \in DOMAIN wx : wx[i].key = k => i \in DOMAIN w
    <3> TAKE i \in DOMAIN wx
    <3> HAVE wx[i].key = k
    <3>1. CASE i > Len(w) /\ i - Len(w) \in DOMAIN ws
      <4> DEFINE m == i - Len(w)
      <4>1. m \in DOMAIN ws /\ Len(w) + m = i
        BY <1>1, <3>1
      <4> HIDE DEF m
      <4>2. wx[i] = ws[m]
        BY <1>1, <4>1
      <4> QED
        BY <1>4, <4>1, <4>2
    <3> QED
      BY <1>1, <3>1
  <2>3. ASSUME NEW i \in DOMAIN wx, IsLast(wx, k, i) PROVE sx[k] = wx[i].val
    <3>1. i \in DOMAIN w /\ wx[i] = w[i]
      BY <1>1, <2>2, <2>3 DEF IsLast
    <3>2. IsLast(w, k, i)
      BY <1>1, <2>3, <3>1 DEF IsLast
    <3> QED
      BY <2>1, <3>1, <3>2 DEF Coherent
  <2>4. ASSUME \A i \in DOMAIN wx : wx[i].key # k PROVE sx[k] = d[k]
    BY <1>1, <2>1, <2>4 DEF Coherent
  <2> QED
    BY <2>3, <2>4
<1> QED
  BY <1>3, <1>4

\* ... and the arrival of the first of them.
LEMMA CoherentDrop ==
    ASSUME NEW s, NEW d, NEW w \in Seq(WriteType), w # <<>>,
           DOMAIN d = StoreKeys, Coherent(s, d, w)
    PROVE  Coherent(s, Put(d, <<Head(w)>>), Tail(w))
<1> DEFINE t == Tail(w)
           dx == Put(d, <<Head(w)>>)
<1>1. /\ t \in Seq(WriteType) /\ Len(t) = Len(w) - 1
      /\ \A i \in 1 .. Len(t) : t[i] = w[i + 1]
      /\ Len(w) \in Nat \ {0} /\ DOMAIN t = 1 .. Len(t) /\ DOMAIN w = 1 .. Len(w)
      /\ Head(w) = w[1]
  BY HeadTailProperties, LenProperties, EmptySeq
<1>2. \A k \in StoreKeys : dx[k] = IF w[1].key = k THEN w[1].val ELSE d[k]
  <2>1. DOMAIN <<Head(w)>> = {1} /\ <<Head(w)>>[1] = w[1]
    BY <1>1
  <2> QED
    BY <2>1, PutAt
<1> HIDE DEF t, dx
<1>3. \A i \in DOMAIN t : i + 1 \in DOMAIN w /\ t[i] = w[i + 1] /\ i \in Int
  BY <1>1
<1>4. \A i \in DOMAIN w : i # 1 => i - 1 \in DOMAIN t /\ t[i - 1] = w[i] /\ i \in Int
  <2> TAKE i \in DOMAIN w
  <2> HAVE i # 1
  <2> DEFINE m == i - 1
  <2>1. m \in 1 .. Len(t) /\ m + 1 = i /\ i \in Int
    BY <1>1
  <2> HIDE DEF m
  <2>2. t[m] = w[i]
    BY <1>1, <2>1
  <2> QED
    BY <1>1, <2>1, <2>2 DEF m
<1> SUFFICES ASSUME NEW k \in StoreKeys
             PROVE  /\ \A i \in DOMAIN t : IsLast(t, k, i) => s[k] = t[i].val
                    /\ (\A i \in DOMAIN t : t[i].key # k) => s[k] = dx[k]
  BY DEF Coherent, t, dx
<1>5. ASSUME NEW i \in DOMAIN t, IsLast(t, k, i) PROVE s[k] = t[i].val
  <2>1. i + 1 \in DOMAIN w /\ w[i + 1] = t[i] /\ i \in Int
    BY <1>3
  <2>2. ASSUME NEW j \in DOMAIN w, j > i + 1 PROVE w[j].key # k
    <3>1. j # 1 /\ j \in Int
      BY <1>1, <2>1, <2>2, <1>5
    <3>2. j - 1 \in DOMAIN t /\ t[j - 1] = w[j] /\ j - 1 > i
      BY <1>4, <2>1, <2>2, <3>1
    <3> QED
      BY <1>5, <3>2 DEF IsLast
  <2>3. IsLast(w, k, i + 1)
    BY <1>5, <2>1, <2>2 DEF IsLast
  <2> QED
    BY <2>1, <2>3 DEF Coherent
<1>6. ASSUME \A i \in DOMAIN t : t[i].key # k PROVE s[k] = dx[k]
  <2>1. \A i \in DOMAIN w : i # 1 => w[i].key # k
    BY <1>4, <1>6
  <2>2. CASE w[1].key = k
    <3>1. 1 \in DOMAIN w /\ IsLast(w, k, 1)
      BY <1>1, <2>1, <2>2 DEF IsLast
    <3> QED
      BY <1>2, <2>2, <3>1 DEF Coherent
  <2>3. CASE w[1].key # k
    BY <1>2, <2>1, <2>3 DEF Coherent
  <2> QED
    BY <2>2, <2>3
<1> QED
  BY <1>5, <1>6

LEMMA IssueCoherent ==
    ASSUME StorageOK, NEW ws \in Seq(WriteType), Distinct(ws), Issue(ws),
           Coherent(store, disk, writes)
    PROVE  Coherent(store, disk, writes)'
BY CoherentAppend DEF StorageOK, StoreOK, Issue

LEMMA SettleCoherent ==
    ASSUME StorageOK, NEW c, NEW ws \in Seq(WriteType), Distinct(ws), Settle(c, ws),
           Coherent(store, disk, writes)
    PROVE  Coherent(store, disk, writes)'
<1>1. writes # <<>> /\ Tail(writes) \in Seq(WriteType)
  BY HeadIsWrite DEF Settle
<1>2. Coherent(store, disk', Tail(writes))
  BY <1>1, CoherentDrop DEF StorageOK, StoreOK, Settle
<1> QED
  BY <1>1, <1>2, CoherentAppend DEF StorageOK, StoreOK, Settle

\* A step issues the writes ws, after one under way has reached the disk or not.
Moves(ws) == Issue(ws) \/ \E c \in Calls \cup {Null} : Settle(c, ws)

LEMMA MovesStorage ==
    ASSUME StorageOK, NEW ws \in Seq(WriteType), Moves(ws), NEW k \in StoreKeys
    PROVE  /\ Values(k)' \subseteq Values(k) \cup Written(ws, k)
           /\ (\A i \in DOMAIN ws : ws[i].key # k) => store'[k] = store[k]
           /\ \A i \in DOMAIN ws : ws[i].key = k /\ Distinct(ws) => store'[k] = ws[i].val
           /\ Distinct(ws) /\ Coherent(store, disk, writes) => Coherent(store, disk, writes)'
<1>1. store' = Put(store, ws) /\ DOMAIN store = StoreKeys
  BY DEF Moves, Issue, Settle, StorageOK, StoreOK
<1>2. /\ (\A i \in DOMAIN ws : ws[i].key # k) => store'[k] = store[k]
      /\ \A i \in DOMAIN ws : ws[i].key = k /\ Distinct(ws) => store'[k] = ws[i].val
  BY <1>1, PutAt DEF Distinct
<1>3. Values(k)' \subseteq Values(k) \cup Written(ws, k)
  BY IssueValues, SettleValues DEF Moves
<1>4. Distinct(ws) /\ Coherent(store, disk, writes) => Coherent(store, disk, writes)'
  BY IssueCoherent, SettleCoherent DEF Moves
<1> QED
  BY <1>2, <1>3, <1>4

\* The writes of credentials: all that a vault call issues, but for clearAll.
LEMMA VaultStepWrites ==
    ASSUME TypeInv, NEW c \in Calls, VaultStep(c), ~ClearAllErases(c)
    PROVE  /\ vaults' = vaults
           /\ \/ UNCHANGED storage
              \/ \E w \in WriteType : w.key \in CryptoKeys /\ Moves(<<w>>)
              \/ Moves(<<>>)
<1>0. call[c] \in CallType /\ CallReady(call[c])
  BY DEF TypeInv, CallsOK
<1> USE DEF memory
<1>1. ASSUME NEW user \in UserPasswords, Unlock(c, user)
      PROVE  vaults' = vaults /\ UNCHANGED storage
  BY <1>1 DEF Unlock
<1>2. CASE UnlockAccepted(c) \/ UnlockRejected(c)
  BY <1>2 DEF UnlockAccepted, UnlockRejected
<1>3. CASE SignUpWritesCipher(c)
  <2> DEFINE w == Write("passwordCipher", EncryptPassword(call[c].user, call[c].key), c)
  <2>1. EncryptPassword(call[c].user, call[c].key) \in Cipher
    BY <1>0, <1>3 DEF SignUpWritesCipher, At, CallReady, SignUpPcs, EncryptPassword, Cipher, CallType
  <2>2. w \in WriteType
    BY <2>1, WritesTyped
  <2>3. vaults' = vaults /\ Moves(<<w>>) /\ w.key \in CryptoKeys
    BY <1>3 DEF SignUpWritesCipher, Moves, Write, CryptoKeys, VaultKeys
  <2> QED
    BY <2>2, <2>3
<1>4. CASE SignUpWritesMac(c)
  <2> DEFINE w == Write("userPasswordMac", EncryptPassword(call[c].user, call[c].key), c)
  <2>1. EncryptPassword(call[c].user, call[c].key) \in Cipher
    BY <1>0, <1>4 DEF SignUpWritesMac, At, CallReady, SignUpPcs, EncryptPassword, Cipher, CallType
  <2>2. w \in WriteType
    BY <2>1, WritesTyped
  <2>3. vaults' = vaults /\ Moves(<<w>>) /\ w.key \in CryptoKeys
    BY <1>4 DEF SignUpWritesMac, Moves, Write, CryptoKeys, VaultKeys
  <2> QED
    BY <2>2, <2>3
<1>5. CASE SignUpWritesCounter(c)
  <2> DEFINE w == Write("aesCounterCipher", AesEncrypt(call[c].key, call[c].key), c)
  <2>1. AesEncrypt(call[c].key, call[c].key) \in CounterCipher
    BY <1>0 DEF AesEncrypt, CounterCipher, CallType
  <2>2. w \in WriteType
    BY <2>1, WritesTyped
  <2>3. vaults' = vaults /\ Moves(<<w>>) /\ w.key \in CryptoKeys
    BY <1>5 DEF SignUpWritesCounter, Moves, Write, CryptoKeys, VaultKeys
  <2> QED
    BY <2>2, <2>3
<1>6. CASE SignUpUnlocks(c)
  BY <1>6 DEF SignUpUnlocks, Moves
<1>7. ASSUME NEW prev \in UserPasswords, NEW new \in UserPasswords, ChangePassword(c, prev, new)
      PROVE  vaults' = vaults /\ UNCHANGED storage
  BY <1>7 DEF ChangePassword
<1>8. CASE ChangeEncrypts(c)
  BY <1>8 DEF ChangeEncrypts
<1>9. CASE ChangeWritesCipher(c)
  <2> DEFINE w == Write("passwordCipher", EncryptPassword(call[c].newUser, call[c].key), c)
  <2>1. EncryptPassword(call[c].newUser, call[c].key) \in Cipher
    BY <1>0, <1>9 DEF ChangeWritesCipher, At, CallReady, ChangePcs, EncryptPassword, Cipher, CallType
  <2>2. w \in WriteType
    BY <2>1, WritesTyped
  <2>3. vaults' = vaults /\ Moves(<<w>>) /\ w.key \in CryptoKeys
    BY <1>9 DEF ChangeWritesCipher, Moves, Write, CryptoKeys, VaultKeys
  <2> QED
    BY <2>2, <2>3
<1>10. CASE ChangeWritesMac(c)
  <2> DEFINE w == Write("userPasswordMac", EncryptPassword(call[c].newUser, call[c].key), c)
  <2>1. EncryptPassword(call[c].newUser, call[c].key) \in Cipher
    BY <1>0, <1>10 DEF ChangeWritesMac, At, CallReady, ChangePcs, EncryptPassword, Cipher, CallType
  <2>2. w \in WriteType
    BY <2>1, WritesTyped
  <2>3. vaults' = vaults /\ Moves(<<w>>) /\ w.key \in CryptoKeys
    BY <1>10 DEF ChangeWritesMac, Moves, Write, CryptoKeys, VaultKeys
  <2> QED
    BY <2>2, <2>3
<1>11. CASE ChangeReturns(c)
  BY <1>11 DEF ChangeReturns, Moves
<1>12. ASSUME NEW pc, CheckRejected(c, pc) PROVE vaults' = vaults /\ UNCHANGED storage
  BY <1>12 DEF CheckRejected
<1>13. CASE ClearAllErased(c)
  BY <1>13 DEF ClearAllErased, Moves
<1>14. CASE ClearAllReturns(c)
  BY <1>14 DEF ClearAllReturns
<1> QED
  BY <1>1, <1>2, <1>3, <1>4, <1>5, <1>6, <1>7, <1>8, <1>9, <1>10, <1>11, <1>12, <1>13, <1>14
     DEF VaultStep

\* The vaults of a map, stored or under way to the storage, have different ids,
\* that have been handed out.
UniqueIds(vs) ==
    /\ \A i, j \in DOMAIN vs : vs[i].id = vs[j].id => i = j
    /\ \A i \in DOMAIN vs : vs[i].id \in 1 .. vaultsMade

StoreIsMemory == store["vaultMap"] = vaults /\ store["selectedVaultId"] = selected

SelectionInv ==
    /\ \A vs \in Values("vaultMap") : UniqueIds(vs)
    /\ StoreIsMemory
    /\ Coherent(store, disk, writes)

\* A step stores no other list of key rings than the one it leaves in memory.
StoresMap == Values("vaultMap")' \subseteq Values("vaultMap") \cup {vaults'}

LEMMA SelectionInit == Init => SelectionInv
<1> SUFFICES ASSUME Init PROVE SelectionInv
  OBVIOUS
<1>1. /\ store = EmptyStore /\ disk = EmptyStore /\ writes = <<>>
      /\ EmptyStore["vaultMap"] = <<>> /\ EmptyStore["selectedVaultId"] = 0
  BY DEF Init, EmptyStore, StoreKeys, VaultKeys
<1>2. \A vs \in Values("vaultMap") : vs = <<>>
  BY <1>1 DEF Values, Written
<1>3. UniqueIds(<<>>)
  BY DEF UniqueIds
<1>4. StoreIsMemory /\ Coherent(store, disk, writes)
  BY <1>1 DEF Init, StoreIsMemory, Coherent
<1> QED
  BY <1>2, <1>3, <1>4 DEF SelectionInv

LEMMA TheKeys ==
    /\ "vaultMap" \in StoreKeys /\ "selectedVaultId" \in StoreKeys
    /\ "vaultMap" \notin CryptoKeys /\ "selectedVaultId" \notin CryptoKeys
    /\ CryptoKeys \subseteq StoreKeys
    /\ CryptoKeys = {"passwordCipher", "userPasswordMac", "aesCounterCipher"}
BY DEF StoreKeys, CryptoKeys, VaultKeys

LEMMA UniqueIdsKept ==
    ASSUME NEW vs, UniqueIds(vs), vaultsMade \in Nat, vaultsMade' \in Nat, vaultsMade' >= vaultsMade
    PROVE  UniqueIds(vs)'
BY DEF UniqueIds

\* The steps that change neither the vaults nor the selection.
LEMMA OtherWrites ==
    ASSUME TypeInv, SelectionInv, UNCHANGED <<vaults, selected, vaultsMade>>,
           \/ UNCHANGED storage
           \/ \E w \in WriteType : w.key \in CryptoKeys /\ Moves(<<w>>)
           \/ Moves(<<>>)
    PROVE  SelectionInv' /\ StoresMap
<1>0. StorageOK
  BY DEF TypeInv
<1>1. CASE UNCHANGED storage
  BY <1>1 DEF storage, SelectionInv, StoresMap, Values, Written, UniqueIds, StoreIsMemory, Coherent, IsLast
<1>2. ASSUME NEW ws \in Seq(WriteType), Moves(ws), Distinct(ws),
             \A i \in DOMAIN ws : ws[i].key \in CryptoKeys
      PROVE  SelectionInv' /\ StoresMap
  <2>1. \A i \in DOMAIN ws : ws[i].key # "vaultMap" /\ ws[i].key # "selectedVaultId"
    BY <1>2, TheKeys
  <2>2. store'["vaultMap"] = store["vaultMap"] /\ store'["selectedVaultId"] = store["selectedVaultId"]
    BY <1>0, <1>2, <2>1, TheKeys, MovesStorage
  <2>3. Values("vaultMap")' \subseteq Values("vaultMap")
    <3>1. Written(ws, "vaultMap") = {}
      BY <2>1 DEF Written
    <3> QED
      BY <1>0, <1>2, <3>1, TheKeys, MovesStorage
  <2>4. Coherent(store, disk, writes)'
    BY <1>0, <1>2, TheKeys, MovesStorage DEF SelectionInv
  <2>5. \A vs \in Values("vaultMap") : UniqueIds(vs)'
    BY DEF SelectionInv, UniqueIds
  <2> QED
    BY <2>2, <2>3, <2>4, <2>5 DEF SelectionInv, StoreIsMemory, StoresMap
<1>3. ASSUME NEW w \in WriteType, w.key \in CryptoKeys, Moves(<<w>>) PROVE SelectionInv' /\ StoresMap
  <2>1. <<w>> \in Seq(WriteType) /\ Distinct(<<w>>)
    BY GroupsTyped DEF Distinct
  <2>2. \A i \in DOMAIN <<w>> : <<w>>[i].key \in CryptoKeys
    BY <1>3
  <2> QED
    BY <1>2, <1>3, <2>1, <2>2
<1>4. CASE Moves(<<>>)
  <2>1. <<>> \in Seq(WriteType) /\ Distinct(<<>>) /\ DOMAIN <<>> = {}
    BY GroupsTyped DEF Distinct
  <2> QED
    BY <1>2, <1>4, <2>1
<1> QED
  BY <1>1, <1>3, <1>4

\* The steps that change the vaults, the selection or both write what they change.
LEMMA MapWrites ==
    ASSUME TypeInv, SelectionInv, NEW ws \in Seq(WriteType), Moves(ws), Distinct(ws),
           \A i \in DOMAIN ws : ws[i].key = "vaultMap" => ws[i].val = vaults',
           \A i \in DOMAIN ws : ws[i].key = "selectedVaultId" => ws[i].val = selected',
           vaults' = vaults \/ \E i \in DOMAIN ws : ws[i].key = "vaultMap",
           selected' = selected \/ \E i \in DOMAIN ws : ws[i].key = "selectedVaultId",
           UniqueIds(vaults)', vaultsMade' \in Nat, vaultsMade' >= vaultsMade
    PROVE  SelectionInv' /\ StoresMap
<1>0. StorageOK /\ vaultsMade \in Nat
  BY DEF TypeInv, FieldsOK
<1>1. store'["vaultMap"] = vaults'
  <2>1. CASE \E i \in DOMAIN ws : ws[i].key = "vaultMap"
    BY <1>0, <2>1, TheKeys, MovesStorage
  <2>2. CASE ~ \E i \in DOMAIN ws : ws[i].key = "vaultMap"
    BY <1>0, <2>2, TheKeys, MovesStorage DEF SelectionInv, StoreIsMemory
  <2> QED
    BY <2>1, <2>2
<1>2. store'["selectedVaultId"] = selected'
  <2>1. CASE \E i \in DOMAIN ws : ws[i].key = "selectedVaultId"
    BY <1>0, <2>1, TheKeys, MovesStorage
  <2>2. CASE ~ \E i \in DOMAIN ws : ws[i].key = "selectedVaultId"
    BY <1>0, <2>2, TheKeys, MovesStorage DEF SelectionInv, StoreIsMemory
  <2> QED
    BY <2>1, <2>2
<1>3. \A vs \in Values("vaultMap")' : vs \in Values("vaultMap") \/ vs = vaults'
  <2>1. Written(ws, "vaultMap") \subseteq {vaults'}
    BY DEF Written
  <2> QED
    BY <1>0, <2>1, TheKeys, MovesStorage
<1>4. \A vs \in Values("vaultMap") : UniqueIds(vs)'
  BY <1>0, UniqueIdsKept DEF SelectionInv
<1>5. Coherent(store, disk, writes)'
  BY <1>0, TheKeys, MovesStorage DEF SelectionInv
<1> QED
  BY <1>1, <1>2, <1>3, <1>4, <1>5 DEF SelectionInv, StoreIsMemory, StoresMap

\* A deletion removes the vault with the given id and no other, and leaves the
\* first vault where it is when that is another one.
LEMMA DeletionIs ==
    ASSUME NEW vs \in Seq(Vaults), NEW id, HasVault(vs, id), UniqueIds(vs)
    PROVE  /\ UniqueIds(Without(vs, id))
           /\ \A other : HasVault(Without(vs, id), other) <=> HasVault(vs, other) /\ other # id
           /\ vs[1].id # id => Without(vs, id) # <<>> /\ Without(vs, id)[1] = vs[1]
<1> DEFINE w == Without(vs, id)
<1>1. PICK i \in DOMAIN vs : /\ vs[i].id = id
                             /\ \A j \in DOMAIN w : w[j] = IF j < i THEN vs[j] ELSE vs[j + 1]
  BY WithoutIs
<1>2. /\ Len(vs) \in Nat \ {0} /\ DOMAIN vs = 1 .. Len(vs)
      /\ w \in Seq(Vaults) /\ Len(w) = Len(vs) - 1 /\ DOMAIN w = 1 .. Len(vs) - 1
  BY WithoutIs, LenProperties
<1> HIDE DEF w
<1>3. /\ i \in Int /\ i >= 1 /\ i <= Len(vs)
      /\ \A j \in DOMAIN vs : j \in Int /\ j >= 1 /\ j <= Len(vs)
      /\ \A j \in DOMAIN w : j \in Int /\ j >= 1 /\ j <= Len(vs) - 1
  BY <1>2
<1>4. \A j \in DOMAIN w : /\ j < i => j \in DOMAIN vs /\ w[j] = vs[j]
                          /\ ~(j < i) => j + 1 \in DOMAIN vs /\ w[j] = vs[j + 1]
  BY <1>1, <1>2, <1>3
<1> DEFINE Place(j) == IF j < i THEN j ELSE j + 1
<1>5. \A j \in DOMAIN w : Place(j) \in DOMAIN vs /\ Place(j) # i /\ w[j] = vs[Place(j)]
  BY <1>3, <1>4
<1>6. \A j, k \in DOMAIN w : Place(j) = Place(k) => j = k
  BY <1>3
<1>7. ASSUME NEW m \in DOMAIN vs, m # i PROVE \E j \in DOMAIN w : Place(j) = m
  <2>1. CASE m < i
    <3>1. m \in DOMAIN w
      BY <1>2, <1>3, <2>1
    <3> QED
      BY <2>1, <3>1
  <2>2. CASE ~(m < i)
    <3>1. m - 1 \in DOMAIN w /\ ~(m - 1 < i) /\ m - 1 + 1 = m
      BY <1>2, <1>3, <1>7, <2>2
    <3> QED
      BY <3>1
  <2> QED
    BY <2>1, <2>2
<1> HIDE DEF Place
<1>8. UniqueIds(w)
  <2>1. ASSUME NEW j \in DOMAIN w, NEW k \in DOMAIN w, w[j].id = w[k].id PROVE j = k
    <3>1. Place(j) = Place(k)
      BY <1>5, <2>1 DEF UniqueIds
    <3> QED
      BY <1>6, <3>1
  <2>2. \A j \in DOMAIN w : w[j].id \in 1 .. vaultsMade
    BY <1>5 DEF UniqueIds
  <2> QED
    BY <2>1, <2>2 DEF UniqueIds
<1>9. ASSUME NEW other PROVE HasVault(w, other) <=> HasVault(vs, other) /\ other # id
  <2>1. ASSUME HasVault(w, other) PROVE HasVault(vs, other) /\ other # id
    <3>1. PICK j \in DOMAIN w : w[j].id = other
      BY <2>1 DEF HasVault, Range
    <3> QED
      BY <1>1, <1>5, <3>1 DEF HasVault, Range, UniqueIds
  <2>2. ASSUME HasVault(vs, other), other # id PROVE HasVault(w, other)
    <3>1. PICK m \in DOMAIN vs : vs[m].id = other
      BY <2>2 DEF HasVault, Range
    <3>2. PICK j \in DOMAIN w : Place(j) = m
      BY <1>1, <1>7, <2>2, <3>1
    <3> QED
      BY <1>5, <3>1, <3>2 DEF HasVault, Range
  <2> QED
    BY <2>1, <2>2
<1>10. ASSUME vs[1].id # id PROVE w # <<>> /\ w[1] = vs[1]
  <2>1. 1 < i /\ 1 \in DOMAIN w
    BY <1>1, <1>2, <1>3, <1>10
  <2>2. w[1] = vs[1]
    BY <1>4, <2>1
  <2> QED
    BY <1>2, <2>1, <2>2
<1> QED
  BY <1>8, <1>9, <1>10 DEF w

\* A creation adds the id it hands out.
LEMMA CreationIs ==
    ASSUME TypeInv, UniqueIds(vaults), NEW c \in Calls, CreateAdds(c)
    PROVE  /\ UniqueIds(vaults)'
           /\ \A id : HasVault(vaults', id) <=> HasVault(vaults, id) \/ id = vaultsMade + 1
<1> DEFINE v == NewVault(vaultsMade + 1)
<1>1. /\ vaults \in Seq(Vaults) /\ vaultsMade \in Nat /\ vaultsMade < MaxVaults
      /\ password \in Keys /\ aesCounter \in Counters
  BY DEF TypeInv, FieldsOK, CreateAdds
<1>2. v \in Vaults /\ v.id = vaultsMade + 1
  BY <1>1, MaxVaultsAssumption DEF NewVault, Vaults, VaultIds
<1> HIDE DEF v
<1>3. /\ Len(vaults) \in Nat /\ DOMAIN vaults = 1 .. Len(vaults)
      /\ vaults' \in Seq(Vaults) /\ Len(vaults') = Len(vaults) + 1
      /\ \A i \in 1 .. Len(vaults) : vaults'[i] = vaults[i]
      /\ vaults'[Len(vaults) + 1] = v
      /\ DOMAIN vaults' = 1 .. Len(vaults) + 1
  <2>1. vaults' = Append(vaults, v)
    BY DEF CreateAdds, v
  <2> QED
    BY <1>1, <1>2, <2>1, AppendProperties, LenProperties
<1>4. \A i \in DOMAIN vaults' : \/ i \in DOMAIN vaults /\ vaults'[i] = vaults[i]
                                \/ i = Len(vaults) + 1 /\ vaults'[i].id = vaultsMade + 1
  BY <1>2, <1>3
<1>5. \A i \in DOMAIN vaults : /\ i \in DOMAIN vaults' /\ vaults'[i] = vaults[i]
                               /\ vaults[i].id \in 1 .. vaultsMade
  BY <1>3 DEF UniqueIds
<1>6. Len(vaults) + 1 \in DOMAIN vaults' /\ vaults'[Len(vaults) + 1].id = vaultsMade + 1
  BY <1>2, <1>3
<1>7. \A i, j \in DOMAIN vaults' : vaults'[i].id = vaults'[j].id => i = j
  BY <1>1, <1>4, <1>5 DEF UniqueIds
<1>8. \A i \in DOMAIN vaults' : vaults'[i].id \in 1 .. vaultsMade'
  <2>1. vaultsMade' = vaultsMade + 1
    BY DEF CreateAdds
  <2> QED
    BY <1>1, <1>4, <1>5, <2>1
<1>9. \A id : HasVault(vaults', id) <=> HasVault(vaults, id) \/ id = vaultsMade + 1
  <2>1. \A id : HasVault(vaults, id) <=> \E i \in DOMAIN vaults : vaults[i].id = id
    BY DEF HasVault, Range
  <2>2. \A id : HasVault(vaults', id) <=> \E i \in DOMAIN vaults' : vaults'[i].id = id
    BY DEF HasVault, Range
  <2> QED
    BY <1>4, <1>5, <1>6, <2>1, <2>2
<1> QED
  BY <1>7, <1>8, <1>9 DEF UniqueIds

LEMMA RestartKeeps ==
    ASSUME TypeInv, SelectionInv, NEW s \in {store, disk}, NEW ses, Restart(s, ses)
    PROVE  SelectionInv' /\ StoresMap
<1>1. /\ DOMAIN s = StoreKeys /\ s["vaultMap"] \in Values("vaultMap")
      /\ store' = [s EXCEPT !["selectedVaultId"] = selected'] /\ disk' = store' /\ writes' = <<>>
      /\ vaults' = s["vaultMap"] /\ vaultsMade' = vaultsMade
  BY DEF TypeInv, StorageOK, StoreOK, Values, Restart, StartOver
<1>2. store'["vaultMap"] = vaults' /\ store'["selectedVaultId"] = selected'
  BY <1>1, TheKeys
<1>3. \A vs \in Values("vaultMap")' : vs = vaults'
  BY <1>1, <1>2 DEF Values, Written
<1>4. UniqueIds(vaults)'
  BY <1>1 DEF SelectionInv, UniqueIds
<1>5. Coherent(store, disk, writes)'
  BY <1>1 DEF Coherent
<1> QED
  BY <1>2, <1>3, <1>4, <1>5 DEF SelectionInv, StoreIsMemory, StoresMap

LEMMA PairDistinct ==
    ASSUME NEW vs, NEW id
    PROVE  Distinct(<<Write("vaultMap", vs, Null), Write("selectedVaultId", id, Null)>>)
BY DEF Distinct, Write

LEMMA SelectionStep == TypeInv /\ TypeInv' /\ SelectionInv /\ [Next]_vars => SelectionInv' /\ StoresMap
<1> SUFFICES ASSUME TypeInv, TypeInv', SelectionInv, [Next]_vars PROVE SelectionInv' /\ StoresMap
  OBVIOUS
<1>0. /\ StorageOK /\ vaults \in Seq(Vaults) /\ vaults' \in Seq(Vaults)
      /\ selected \in VaultIds \cup {0} /\ selected' \in VaultIds \cup {0}
      /\ vaultsMade \in Nat /\ vaultsMade' \in Nat /\ StoreIsMemory /\ UniqueIds(vaults)
  BY DEF TypeInv, FieldsOK, SelectionInv, StoreIsMemory, Values
<1> USE DEF memory, keyRingVars
<1>1. ASSUME NEW c \in Calls, VaultStep(c), UNCHANGED keyRingVars PROVE SelectionInv' /\ StoresMap
  <2>1. CASE ~ClearAllErases(c)
    BY <1>1, <2>1, VaultStepWrites, OtherWrites
  <2>2. CASE ClearAllErases(c)
    <3> DEFINE ws == <<Write("vaultMap", <<>>, Null), Write("passwordCipher", Null, Null),
                       Write("userPasswordMac", Null, Null), Write("aesCounterCipher", Null, c)>>
    <3>1. ws \in Seq(WriteType)
      <4>1. /\ Write("vaultMap", <<>>, Null) \in WriteType
            /\ Write("passwordCipher", Null, Null) \in WriteType
            /\ Write("userPasswordMac", Null, Null) \in WriteType
            /\ Write("aesCounterCipher", Null, c) \in WriteType
        BY <1>0, <2>2, WritesTyped DEF ClearAllErases
      <4> QED
        BY <4>1
    <3>2. Distinct(ws)
      BY DEF Distinct, Write
    <3>3. /\ \A i \in DOMAIN ws : ws[i].key = "vaultMap" => ws[i].val = vaults'
          /\ \A i \in DOMAIN ws : ws[i].key # "selectedVaultId"
          /\ 1 \in DOMAIN ws /\ ws[1].key = "vaultMap"
      BY <2>2 DEF ClearAllErases, Write
    <3>4. Moves(ws) /\ selected' = selected /\ vaults' = <<>> /\ vaultsMade' = vaultsMade
      BY <1>1, <2>2 DEF ClearAllErases, Moves
    <3>5. UniqueIds(vaults)'
      BY <3>4 DEF UniqueIds
    <3> HIDE DEF ws
    <3> QED
      BY <1>0, <3>1, <3>2, <3>3, <3>4, <3>5, MapWrites
  <2> QED
    BY <2>1, <2>2
<1>2. ASSUME NEW c \in Calls, KeyRingStep(c) PROVE SelectionInv' /\ StoresMap
  <2>1. CASE CreateAdds(c)
    <3> DEFINE ws == <<Write("vaultMap", vaults', Null), Write("selectedVaultId", selected', Null)>>
    <3>1. ws \in Seq(WriteType) /\ Distinct(ws)
      BY <1>0, VaultsTyped, PairDistinct
    <3>2. /\ \A i \in DOMAIN ws : ws[i].key = "vaultMap" => ws[i].val = vaults'
          /\ \A i \in DOMAIN ws : ws[i].key = "selectedVaultId" => ws[i].val = selected'
          /\ 1 \in DOMAIN ws /\ ws[1].key = "vaultMap"
          /\ 2 \in DOMAIN ws /\ ws[2].key = "selectedVaultId"
      BY DEF Write
    <3>3. Moves(ws) /\ vaultsMade' = vaultsMade + 1
      BY <2>1 DEF CreateAdds, Moves
    <3>4. UniqueIds(vaults)'
      BY <1>0, <2>1, CreationIs
    <3> HIDE DEF ws
    <3> QED
      BY <1>0, <3>1, <3>2, <3>3, <3>4, MapWrites
  <2>2. CASE DeleteRemoves(c)
    <3>1. UniqueIds(vaults)' /\ vaultsMade' = vaultsMade
      BY <1>0, <2>2, DeletionIs DEF DeleteRemoves, UniqueIds
    <3>2. CASE selected' = selected
      <4> DEFINE ws == <<Write("vaultMap", vaults', Null)>>
      <4>1. ws \in Seq(WriteType)
        BY <1>0, VaultsTyped
      <4>1a. Distinct(ws)
        BY DEF Distinct
      <4>2. /\ \A i \in DOMAIN ws : ws[i].key = "vaultMap" /\ ws[i].val = vaults'
            /\ 1 \in DOMAIN ws /\ ws[1].key = "vaultMap"
        BY DEF Write
      <4>3. Moves(ws)
        BY <1>0, <2>2, <3>2, VaultsTyped DEF DeleteRemoves, Moves
      <4> HIDE DEF ws
      <4> QED
        BY <1>0, <3>1, <3>2, <4>1, <4>1a, <4>2, <4>3, MapWrites
    <3>3. CASE selected' # selected
      <4> DEFINE ws == <<Write("vaultMap", vaults', Null), Write("selectedVaultId", selected', Null)>>
      <4>1. ws \in Seq(WriteType) /\ Distinct(ws)
        BY <1>0, VaultsTyped, PairDistinct
      <4>2. /\ \A i \in DOMAIN ws : ws[i].key = "vaultMap" => ws[i].val = vaults'
            /\ \A i \in DOMAIN ws : ws[i].key = "selectedVaultId" => ws[i].val = selected'
            /\ 1 \in DOMAIN ws /\ ws[1].key = "vaultMap"
            /\ 2 \in DOMAIN ws /\ ws[2].key = "selectedVaultId"
        BY DEF Write
      <4>3. Moves(ws)
        BY <1>0, <2>2, <3>3, VaultsTyped DEF DeleteRemoves, Moves
      <4> HIDE DEF ws
      <4> QED
        BY <1>0, <3>1, <4>1, <4>2, <4>3, MapWrites
    <3> QED
      BY <3>2, <3>3
  <2>3. CASE \E user \in UserPasswords : Create(c, user)
    BY <2>3, OtherWrites DEF Create
  <2>4. CASE UnlockReturns(c) \/ CreateRejected(c) \/ DeleteRejected(c)
    BY <2>4, OtherWrites DEF UnlockReturns, CreateRejected, DeleteRejected
  <2>5. CASE \E id \in VaultIds, user \in UserPasswords : DeleteKeyRing(c, id, user)
    BY <2>5, OtherWrites DEF DeleteKeyRing
  <2> QED
    BY <1>2, <2>1, <2>2, <2>3, <2>4, <2>5 DEF KeyRingStep
<1>3. ASSUME NEW id \in VaultIds, SelectKeyRing(id) PROVE SelectionInv' /\ StoresMap
  <2>1. CASE id = selected
    BY <1>3, <2>1, OtherWrites DEF SelectKeyRing
  <2>2. CASE id # selected
    <3> DEFINE ws == <<Write("selectedVaultId", id, Null)>>
    <3>1. ws \in Seq(WriteType) /\ Distinct(ws)
      BY WritesTyped, GroupsTyped DEF Distinct
    <3>2. /\ \A i \in DOMAIN ws : ws[i].key # "vaultMap"
          /\ \A i \in DOMAIN ws : ws[i].val = selected'
          /\ 1 \in DOMAIN ws /\ ws[1].key = "selectedVaultId"
      BY <1>3 DEF SelectKeyRing, Write
    <3>3. Moves(ws) /\ vaults' = vaults /\ vaultsMade' = vaultsMade
      BY <1>3, <2>2 DEF SelectKeyRing, Moves
    <3>4. UniqueIds(vaults)'
      BY <1>0, <3>3, UniqueIdsKept DEF UniqueIds
    <3> HIDE DEF ws
    <3> QED
      BY <1>0, <3>1, <3>2, <3>3, <3>4, MapWrites
  <2> QED
    BY <2>1, <2>2
<1>4. CASE (Lock \/ RemoveSessionCounter) /\ UNCHANGED keyRingVars
  BY <1>4, OtherWrites DEF Lock, RemoveSessionCounter
<1>5. CASE FlushWrite /\ UNCHANGED keyRingVars
  BY <1>5, OtherWrites DEF FlushWrite, Moves
<1>6. CASE Kill
  BY <1>6, RestartKeeps DEF Kill
<1>7. CASE Exit
  BY <1>7, RestartKeeps DEF Exit
<1>8. CASE UNCHANGED vars
  BY <1>8, OtherWrites DEF vars
<1> QED
  BY <1>1, <1>2, <1>3, <1>4, <1>5, <1>6, <1>7, <1>8 DEF Next

\* A step that deselects the key ring s, which stays, is a selection, a creation or
\* the end of the browser while writes are under way.
LEMMA SelectionKeptStep ==
    ASSUME TypeInv, SelectionInv, [Next]_vars, NEW s, s = SelectedVaultId(selected, vaults),
           HasVault(vaults', s), SelectedVaultId(selected', vaults') # s
    PROVE  \/ selected' \in Ids(vaults) /\ call' = call
           \/ selected' = vaultsMade' /\ vaultsMade' # vaultsMade
           \/ Exit /\ writes # <<>>
<1>0. /\ StorageOK /\ vaults \in Seq(Vaults) /\ selected \in VaultIds \cup {0}
      /\ vaultsMade \in Nat /\ StoreIsMemory /\ UniqueIds(vaults)
  BY DEF TypeInv, FieldsOK, SelectionInv, StoreIsMemory, Values
<1>m. ~(vaults' = vaults /\ selected' = selected)
  OBVIOUS
<1>z. ~HasVault(vaults, 0)
  BY <1>0 DEF UniqueIds, HasVault, Range
<1> USE DEF memory, keyRingVars
<1>1. ASSUME NEW c \in Calls, VaultStep(c), UNCHANGED keyRingVars PROVE FALSE
  <2>1. CASE ClearAllErases(c)
    BY <2>1 DEF ClearAllErases, HasVault, Range
  <2>2. CASE ~ClearAllErases(c)
    BY <1>1, <1>m, <2>2, VaultStepWrites
  <2> QED
    BY <2>1, <2>2
<1>2. ASSUME NEW c \in Calls, KeyRingStep(c)
      PROVE  selected' = vaultsMade' /\ vaultsMade' # vaultsMade
  <2>1. CASE CreateAdds(c)
    BY <1>0, <2>1 DEF CreateAdds
  <2>2. CASE DeleteRemoves(c)
    <3> DEFINE id == call[c].id
    <3>1. /\ HasVault(vaults, id) /\ vaults' = Without(vaults, id)
          /\ selected' = IF s = id THEN SelectedVaultId(0, vaults') ELSE selected
      BY <2>2 DEF DeleteRemoves
    <3> HIDE DEF id
    <3>2. /\ \A other : HasVault(vaults', other) <=> HasVault(vaults, other) /\ other # id
          /\ vaults[1].id # id => vaults' # <<>> /\ vaults'[1] = vaults[1]
      BY <1>0, <3>1, DeletionIs
    <3>3. s # id /\ selected' = selected
      BY <3>1, <3>2
    <3>4. CASE HasVault(vaults, selected)
      <4>1. s = selected
        BY <3>4 DEF SelectedVaultId
      <4> QED
        BY <3>3, <4>1 DEF SelectedVaultId
    <3>5. CASE ~HasVault(vaults, selected)
      <4>1. vaults # <<>>
        BY <3>1 DEF HasVault, Range
      <4>2. s = vaults[1].id
        BY <3>5, <4>1 DEF SelectedVaultId
      <4>3. vaults' # <<>> /\ vaults'[1] = vaults[1] /\ ~HasVault(vaults', selected)
        BY <3>2, <3>3, <3>5, <4>2
      <4> QED
        BY <3>3, <4>2, <4>3 DEF SelectedVaultId
    <3> QED
      BY <3>4, <3>5
  <2>3. CASE \E user \in UserPasswords : Create(c, user)
    BY <1>m, <2>3 DEF Create
  <2>4. CASE UnlockReturns(c) \/ CreateRejected(c) \/ DeleteRejected(c)
    BY <1>m, <2>4 DEF UnlockReturns, CreateRejected, DeleteRejected
  <2>5. CASE \E id \in VaultIds, user \in UserPasswords : DeleteKeyRing(c, id, user)
    BY <1>m, <2>5 DEF DeleteKeyRing
  <2> QED
    BY <1>2, <2>1, <2>2, <2>3, <2>4, <2>5 DEF KeyRingStep
<1>3. ASSUME NEW id \in VaultIds, SelectKeyRing(id) PROVE selected' \in Ids(vaults) /\ call' = call
  BY <1>3 DEF SelectKeyRing, HasVault, Ids
<1>4. CASE (Lock \/ RemoveSessionCounter \/ FlushWrite) /\ UNCHANGED keyRingVars
  BY <1>m, <1>4 DEF Lock, RemoveSessionCounter, FlushWrite
<1>5. ASSUME NEW x \in {store, disk}, NEW ses, Restart(x, ses),
             x["vaultMap"] = vaults, x["selectedVaultId"] = selected
      PROVE  FALSE
  <2>1. vaults' = vaults /\ selected' = IF HasVault(vaults, selected) THEN selected ELSE 0
    BY <1>5 DEF Restart, StartOver
  <2> QED
    BY <1>m, <1>z, <2>1 DEF SelectedVaultId
<1>6. CASE Kill
  BY <1>0, <1>5, <1>6 DEF Kill, StoreIsMemory
<1>7. CASE Exit
  <2>1. ASSUME writes = <<>> PROVE FALSE
    <3>1. disk["vaultMap"] = vaults /\ disk["selectedVaultId"] = selected
      BY <1>0, <2>1, TheKeys DEF SelectionInv, Coherent, StoreIsMemory
    <3> QED
      BY <1>5, <1>7, <3>1 DEF Exit
  <2> QED
    BY <1>7, <2>1
<1>8. CASE UNCHANGED vars
  BY <1>m, <1>8 DEF vars
<1> QED
  BY <1>1, <1>2, <1>3, <1>4, <1>6, <1>7, <1>8 DEF Next

\* The selected key ring stays selected as long as it exists, whatever calls are in
\* flight together and however the program ends: only a selection, a creation, or
\* an end of the browser before the selection was written, selects another.
THEOREM SelectionIsKept == Spec => SelectionKept
<1>1. Init => TypeInv /\ SelectionInv
  BY TypeInit, SelectionInit
<1>2. TypeInv /\ SelectionInv /\ [Next]_vars => (TypeInv /\ SelectionInv)'
  BY TypeStep, SelectionStep
<1>3. TypeInv /\ SelectionInv /\ [Next]_vars =>
        [LET s == SelectedVaultId(selected, vaults) IN
         HasVault(vaults', s) /\ SelectedVaultId(selected', vaults') # s
            => \/ selected' \in Ids(vaults) /\ call' = call
               \/ selected' = vaultsMade' /\ vaultsMade' # vaultsMade
               \/ Exit /\ writes # <<>>]_vars
  BY SelectionKeptStep
<1> QED
  BY <1>1, <1>2, <1>3, PTL DEF Spec, SelectionKept
=============================================================================
