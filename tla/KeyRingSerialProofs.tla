--------------------------- MODULE KeyRingSerialProofs ---------------------------
(***************************************************************************)
(* Theorems about the key ring service when one call is in flight at a     *)
(* time, as the pages of the wallet make them: automatic locks, writes     *)
(* under way and the ends of the worker and of the browser still come      *)
(* between any two of its steps.  The vault of a wallet that is unlocked   *)
(* can always be decrypted, and a key ring only goes when the user deletes *)
(* it, even when a write of credentials is torn.  That the password which  *)
(* was set opens a wallet at rest needs a program that does not end        *)
(* between the writes of new credentials, and so do the theorems about a   *)
(* wallet that is signed out and that the key rings implement the Wallet;  *)
(* it may end while clearAll erases them.                                  *)
(***************************************************************************)
EXTENDS KeyRingProofs

OneCall == \A c, d \in Calls : c = d

Doing(pcs) == \E c \in Calls : call[c].pc \in pcs

Erasing == Doing({"clear.erased"})

\* The key whose write a call waits for.
Awaited(pc) ==
    IF pc \in {"signUp.cipher", "change.cipher"} THEN "passwordCipher"
    ELSE IF pc \in {"signUp.mac", "change.mac"} THEN "userPasswordMac"
    ELSE IF pc \in {"signUp.counter", "clear.erased"} THEN "aesCounterCipher"
    ELSE "none"

\* The writes of credentials under way: one at a time, and awaited, but for the
\* erasure of all three, whose last write is the one that is awaited.
QueueOK ==
    /\ \A i \in DOMAIN writes :
          /\ writes[i].by # Null => writes[i].key = Awaited(call[writes[i].by].pc)
          /\ writes[i].key = "aesCounterCipher" => writes[i].by # Null
    /\ ~Erasing => \A i, j \in DOMAIN writes :
          writes[i].key \in CryptoKeys => /\ writes[i].by # Null
                                          /\ writes[j].key \in CryptoKeys => i = j
    /\ Erasing => \A i \in DOMAIN writes :
          /\ writes[i].by # Null => i = Len(writes)
          /\ writes[i].key \in CryptoKeys => writes[i].val = Null

\* The number of the last sign-up is the key of every vault and credential.
OfKey(vs) == \A i \in DOMAIN vs : vs[i].key = keysDrawn /\ vs[i].counter = keysDrawn

MacOfKey(m) == m # Null => m.key = keysDrawn /\ keysDrawn # 0

CounterOfKey(m) == m # Null => m = AesEncrypt(keysDrawn, keysDrawn)

StoredUnderKey ==
    /\ \A vs \in Values("vaultMap") : OfKey(vs)
    /\ \A m \in Values("userPasswordMac") : MacOfKey(m)
    /\ \A m \in Values("aesCounterCipher") : CounterOfKey(m)

HeldUnderKey ==
    /\ password # 0 => password = keysDrawn /\ aesCounter = keysDrawn
    /\ session.password # 0 /\ session.aesCounter # 0 =>
          session.password = keysDrawn /\ session.aesCounter = keysDrawn
    /\ \A c \in Calls :
          /\ MacOfKey(call[c].cred.mac) /\ CounterOfKey(call[c].cred.counter)
          /\ call[c].pc \in SignUpPcs \cup {"change.derive", "change.cipher", "change.mac"} =>
                call[c].key = keysDrawn /\ keysDrawn # 0

\* A wallet that is locked starts over locked, but for one that clearAll is emptying.
LockedInSession ==
    /\ ~ServiceWorker => session.password = 0
    /\ Locked /\ ~Erasing => session.password = 0 \/ session.aesCounter = 0

\* A mac without a counter comes from a sign-up that ended early: it has its cipher.
MacHasCipher(s) ==
    s["userPasswordMac"] # Null /\ s["aesCounterCipher"] = Null => s["passwordCipher"] # Null

\* How far the credentials in the storage are at each wait of a call.
StepsOK ==
    /\ Doing({"signUp.derive", "signUp.cipher"}) =>
          store["userPasswordMac"] = Null /\ store["aesCounterCipher"] = Null
    /\ Doing({"signUp.cipher", "signUp.mac", "signUp.counter"}) => store["passwordCipher"] # Null
    /\ Doing({"signUp.mac", "signUp.counter"}) => store["userPasswordMac"] # Null
    /\ Doing({"signUp.counter"}) => store["aesCounterCipher"] # Null
    /\ Doing(SignUpPcs) => Locked /\ ~signedUp
    /\ Doing({"unlock.derive", "unlock.session", "create.vault", "clear.check"} \cup ChangePcs) => signedUp
    /\ Doing({"clear.check"}) => vaults = <<>>
    /\ \A c \in Calls : At(c, "unlock.derive") => call[c].cred = Credentials

ErasingOK ==
    Erasing => /\ \A k \in CryptoKeys : store[k] = Null
               /\ disk["aesCounterCipher"] # Null
               /\ Locked /\ ~signedUp /\ vaults = <<>>

\* What the service says of itself and what the storage says.
SignedUpOK ==
    /\ signedUp => HasCryptoState(store)
    /\ HasCryptoState(store) /\ ~signedUp => Doing({"signUp.mac", "signUp.counter"})
    /\ signedUp /\ ~Locked => store["aesCounterCipher"] # Null

\* A wallet whose sign-up is not complete has no vault anywhere.
NoVaultsYet ==
    ~Erasing /\ (store["aesCounterCipher"] = Null \/ Doing(SignUpPcs)) =>
        \A vs \in Values("vaultMap") : vs = <<>>

SerialInv ==
    /\ QueueOK
    /\ StoredUnderKey
    /\ HeldUnderKey
    /\ LockedInSession
    /\ MacHasCipher(store) /\ MacHasCipher(disk)
    /\ StepsOK
    /\ ErasingOK
    /\ SignedUpOK
    /\ NoVaultsYet
-----------------------------------------------------------------------------
(* The one call, and the writes of credentials under way.                   *)

LEMMA TheCall ==
    ASSUME OneCall, NEW c \in Calls
    PROVE  /\ \A d \in Calls : d = c
           /\ \A pcs : (Doing(pcs) <=> call[c].pc \in pcs) /\ (Doing(pcs)' <=> call'[c].pc \in pcs)
BY DEF OneCall, Doing

\* No write of credentials is under way.
Clear(w) == \A i \in DOMAIN w : w[i].by = Null /\ w[i].key \notin CryptoKeys

LEMMA WriteAt ==
    ASSUME StorageOK, NEW i \in DOMAIN writes
    PROVE  /\ writes[i].key \in StoreKeys /\ writes[i].by \in Calls \cup {Null}
           /\ writes[i].val \in StoreType(writes[i].key)
           /\ i \in 1 .. Len(writes) /\ Len(writes) \in Nat
<1>1. writes[i] \in WriteType /\ i \in 1 .. Len(writes) /\ Len(writes) \in Nat
  BY DEF StorageOK
<1> QED
  BY <1>1, WriteTypeIs

LEMMA AwaitedIs ==
    /\ "none" \notin StoreKeys
    /\ \A pc : Awaited(pc) \in CryptoKeys \cup {"none"}
BY DEF Awaited, StoreKeys, VaultKeys, CryptoKeys

\* A call that does not wait for a write leaves no credential under way ...
LEMMA NoneAwaited ==
    ASSUME OneCall, StorageOK, QueueOK, NEW c \in Calls, Awaited(call[c].pc) = "none"
    PROVE  Clear(writes) /\ ~Erasing
<1>1. ~Erasing
  BY TheCall DEF Awaited, Erasing
<1>2. ASSUME NEW i \in DOMAIN writes PROVE writes[i].by = Null
  BY <1>2, WriteAt, AwaitedIs, TheCall DEF QueueOK
<1> QED
  BY <1>1, <1>2 DEF QueueOK, Clear

\* ... and so does one whose write has reached the disk.
LEMMA SettledClear ==
    ASSUME OneCall, StorageOK, QueueOK, NEW c \in Calls, NEW ws, Settle(c, ws)
    PROVE  Clear(Tail(writes))
<1>1. /\ writes # <<>> /\ Head(writes) = writes[1] /\ Len(writes) \in Nat \ {0}
      /\ writes[1].by = c /\ c # Null
      /\ DOMAIN writes = 1 .. Len(writes)
  BY HeadIsWrite, NullAssumption DEF Settle, StorageOK
<1>2. /\ \A i \in DOMAIN Tail(writes) : i + 1 \in DOMAIN writes /\ Tail(writes)[i] = writes[i + 1]
                                        /\ i + 1 # 1 /\ i \in 1 .. Len(writes) - 1
  <2> DEFINE t == Tail(writes)
  <2>1. Len(t) = Len(writes) - 1 /\ (\A i \in 1 .. Len(t) : t[i] = writes[i + 1])
        /\ DOMAIN t = 1 .. Len(t)
    BY <1>1, HeadTailProperties, LenProperties DEF StorageOK
  <2> HIDE DEF t
  <2>2. \A i \in DOMAIN t : i + 1 \in DOMAIN writes /\ t[i] = writes[i + 1]
                            /\ i + 1 # 1 /\ i \in 1 .. Len(writes) - 1
    BY <1>1, <2>1
  <2> QED
    BY <2>2 DEF t
<1>3. writes[1].key \in CryptoKeys
  BY <1>1, WriteAt, AwaitedIs DEF QueueOK
<1>4. CASE ~Erasing
  <2>1. \A i \in DOMAIN writes : writes[i].by # Null => writes[i].key \in CryptoKeys
    BY WriteAt, AwaitedIs DEF QueueOK
  <2>2. \A i \in DOMAIN writes : writes[i].key \in CryptoKeys => i = 1
    BY <1>1, <1>3, <1>4 DEF QueueOK
  <2> QED
    BY <1>2, <2>1, <2>2 DEF Clear
<1>5. CASE Erasing
  <2>1. Len(writes) = 1
    BY <1>1, <1>5 DEF QueueOK
  <2> QED
    BY <1>2, <2>1 DEF Clear
<1> QED
  BY <1>4, <1>5

LEMMA ClearValues ==
    ASSUME NEW w, Clear(w), NEW k \in CryptoKeys
    PROVE  Written(w, k) = {} /\ \A i \in DOMAIN w : w[i].key # k
BY DEF Clear, Written

\* What no write under way will change is on the disk as it is read.
LEMMA OnDisk ==
    ASSUME Coherent(store, disk, writes), NEW k \in StoreKeys, \A i \in DOMAIN writes : writes[i].key # k
    PROVE  disk[k] = store[k] /\ Values(k) = {store[k]}
<1>1. disk[k] = store[k] /\ Written(writes, k) = {}
  BY DEF Coherent, Written
<1> QED
  BY <1>1 DEF Values

LEMMA NotAwaited ==
    ASSUME StorageOK, QueueOK, Coherent(store, disk, writes), ~Erasing, NEW k \in CryptoKeys,
           \A c \in Calls : Awaited(call[c].pc) # k
    PROVE  disk[k] = store[k] /\ Values(k) = {store[k]}
<1>1. \A i \in DOMAIN writes : writes[i].key # k
  BY WriteAt DEF QueueOK
<1> QED
  BY <1>1, OnDisk, TheKeys

\* When the write a call waits for has reached the disk, the disk has all the
\* credentials that were stored.
LEMMA SettledOnDisk ==
    ASSUME OneCall, StorageOK, QueueOK, Coherent(store, disk, writes),
           NEW c \in Calls, NEW ws \in Seq(WriteType), Settle(c, ws), NEW k \in CryptoKeys
    PROVE  /\ disk'[k] = store[k]
           /\ Values(k)' \subseteq {store[k]} \cup Written(ws, k)
           /\ (\A i \in DOMAIN ws : ws[i].key # k) => store'[k] = store[k]
           /\ \A i \in DOMAIN ws : ws[i].key = k /\ Distinct(ws) => store'[k] = ws[i].val
<1>1. Clear(Tail(writes)) /\ k \in StoreKeys
  BY SettledClear, TheKeys
<1>2. Coherent(store, disk', Tail(writes))
  BY CoherentDrop DEF Settle, StorageOK, StoreOK
<1>3. disk'[k] = store[k]
  BY <1>1, <1>2, ClearValues DEF Coherent
<1>4. Written(writes', k) = Written(ws, k)
  <2>1. writes' = Tail(writes) \o ws /\ Tail(writes) \in Seq(WriteType)
    BY HeadIsWrite DEF Settle
  <2>2. Written(Tail(writes), k) = {}
    BY <1>1, ClearValues
  <2>3. Written(writes', k) = Written(Tail(writes), k) \cup Written(ws, k)
    BY <2>1, ConcatWritten
  <2> QED
    BY <2>2, <2>3
<1>5. store'[k] \in {store[k]} \cup Written(ws, k)
  BY <1>1, PutValue DEF StorageOK, StoreOK, Settle
<1>6. /\ (\A i \in DOMAIN ws : ws[i].key # k) => store'[k] = store[k]
      /\ \A i \in DOMAIN ws : ws[i].key = k /\ Distinct(ws) => store'[k] = ws[i].val
  BY <1>1, MovesStorage DEF Moves
<1> QED
  BY <1>3, <1>4, <1>5, <1>6 DEF Values
-----------------------------------------------------------------------------
(* The queue of writes stays in order.                                      *)

LEMMA QueueClear ==
    ASSUME Clear(writes')
    PROVE  QueueOK'
BY TheKeys DEF Clear, QueueOK

LEMMA ClearConcat ==
    ASSUME NEW w \in Seq(WriteType), NEW ws \in Seq(WriteType), Clear(w), Clear(ws)
    PROVE  Clear(w \o ws)
<1> DEFINE wx == w \o ws
<1>1. /\ \A i \in DOMAIN w : wx[i] = w[i]
      /\ \A i \in DOMAIN ws : wx[Len(w) + i] = ws[i]
      /\ \A i \in DOMAIN wx : i \in DOMAIN w \/ (i > Len(w) /\ i - Len(w) \in DOMAIN ws)
      /\ DOMAIN wx \subseteq Int /\ Len(w) \in Nat
  <2>1. DOMAIN wx = 1 .. Len(w) + Len(ws) /\ Len(w) \in Nat /\ Len(ws) \in Nat
    BY ConcatAt
  <2> QED
    BY <2>1, ConcatAt
<1> HIDE DEF wx
<1>2. ASSUME NEW i \in DOMAIN wx, i \notin DOMAIN w PROVE \E j \in DOMAIN ws : wx[i] = ws[j]
  <2> DEFINE j == i - Len(w)
  <2>1. j \in DOMAIN ws /\ Len(w) + j = i
    BY <1>1, <1>2
  <2> HIDE DEF j
  <2> QED
    BY <1>1, <2>1
<1>3. \A i \in DOMAIN wx : wx[i].by = Null /\ wx[i].key \notin CryptoKeys
  BY <1>1, <1>2 DEF Clear
<1> QED
  BY <1>3 DEF Clear, wx

\* A sequence and one more write.
LEMMA OneMore ==
    ASSUME NEW w \in Seq(WriteType), NEW x \in WriteType
    PROVE  /\ Len(w) \in Nat /\ DOMAIN w = 1 .. Len(w)
           /\ DOMAIN (w \o <<x>>) = 1 .. Len(w) + 1
           /\ \A i \in DOMAIN w : (w \o <<x>>)[i] = w[i]
           /\ (w \o <<x>>)[Len(w) + 1] = x
<1>1. w \o <<x>> = Append(w, x)
  BY AppendIsConcat
<1>2. /\ Append(w, x) \in Seq(WriteType) /\ Len(Append(w, x)) = Len(w) + 1
      /\ \A i \in 1 .. Len(w) : Append(w, x)[i] = w[i]
      /\ Append(w, x)[Len(w) + 1] = x
  BY AppendProperties
<1> QED
  BY <1>1, <1>2, LenProperties

\* The one write of a credential that a call begins to wait for.
LEMMA QueueOne ==
    ASSUME OneCall, NEW c \in Calls, NEW w \in Seq(WriteType), NEW x \in WriteType, Clear(w),
           writes' = w \o <<x>>, x.by = c, x.key \in CryptoKeys,
           x.key = Awaited(call'[c].pc), call'[c].pc # "clear.erased"
    PROVE  QueueOK'
<1>1. ~Erasing'
  BY TheCall DEF Erasing
<1>2. \A i \in DOMAIN writes' : \/ writes'[i].by = Null /\ writes'[i].key \notin CryptoKeys
                                \/ i = Len(w) + 1 /\ writes'[i] = x
  BY OneMore DEF Clear
<1>3. c # Null
  BY NullAssumption
<1>4. ASSUME NEW i \in DOMAIN writes'
      PROVE  /\ writes'[i].by # Null => writes'[i].key = Awaited(call'[writes'[i].by].pc)
             /\ writes'[i].key = "aesCounterCipher" => writes'[i].by # Null
             /\ writes'[i].key \in CryptoKeys => writes'[i].by # Null
  BY <1>2, <1>3, TheKeys
<1>5. \A i, j \in DOMAIN writes' :
         writes'[i].key \in CryptoKeys /\ writes'[j].key \in CryptoKeys => i = j
  BY <1>2
<1> QED
  BY <1>1, <1>4, <1>5 DEF QueueOK

LEMMA QueueSelect ==
    ASSUME StorageOK, QueueOK, ~Erasing, UNCHANGED call, NEW x \in WriteType,
           writes' = writes \o <<x>>, x.by = Null, x.key \notin CryptoKeys
    PROVE  QueueOK'
<1>1. ~Erasing'
  BY DEF Erasing, Doing
<1>2. \A i \in DOMAIN writes' : \/ i \in DOMAIN writes /\ writes'[i] = writes[i]
                                \/ writes'[i].by = Null /\ writes'[i].key \notin CryptoKeys
  BY OneMore DEF StorageOK
<1>3. ASSUME NEW i \in DOMAIN writes'
      PROVE  /\ writes'[i].by # Null => writes'[i].key = Awaited(call'[writes'[i].by].pc)
             /\ writes'[i].key = "aesCounterCipher" => writes'[i].by # Null
             /\ writes'[i].key \in CryptoKeys => writes'[i].by # Null
  BY <1>2, TheKeys DEF QueueOK
<1>4. \A i, j \in DOMAIN writes' :
         writes'[i].key \in CryptoKeys /\ writes'[j].key \in CryptoKeys => i = j
  BY <1>2 DEF QueueOK
<1> QED
  BY <1>1, <1>3, <1>4 DEF QueueOK

LEMMA QueueFlush ==
    ASSUME StorageOK, QueueOK, FlushWrite
    PROVE  QueueOK'
<1>1. /\ UNCHANGED call /\ writes # <<>>
      /\ writes' = Tail(writes)
  <2>1. /\ UNCHANGED call /\ writes # <<>> /\ writes' = Tail(writes) \o <<>>
        /\ Tail(writes) \in Seq(WriteType)
    BY HeadIsWrite DEF FlushWrite, Settle
  <2> QED
    BY <2>1, ConcatEmptySeq
<1>2. /\ Len(writes) \in Nat \ {0} /\ Len(writes') = Len(writes) - 1
      /\ \A i \in DOMAIN writes' : i + 1 \in DOMAIN writes /\ writes'[i] = writes[i + 1] /\ i \in Int
  <2> DEFINE t == Tail(writes)
  <2>1. Len(t) = Len(writes) - 1 /\ (\A i \in 1 .. Len(t) : t[i] = writes[i + 1])
        /\ DOMAIN t = 1 .. Len(t) /\ DOMAIN writes = 1 .. Len(writes) /\ Len(writes) \in Nat \ {0}
    BY <1>1, HeadIsWrite, HeadTailProperties, LenProperties DEF StorageOK
  <2> HIDE DEF t
  <2>2. \A i \in DOMAIN t : i + 1 \in DOMAIN writes /\ t[i] = writes[i + 1] /\ i \in Int
    BY <2>1
  <2> QED
    BY <1>1, <2>1, <2>2 DEF t
<1>3. Erasing' <=> Erasing
  BY <1>1 DEF Erasing, Doing
<1>4. ASSUME NEW i \in DOMAIN writes'
      PROVE  /\ writes'[i].by # Null => writes'[i].key = Awaited(call'[writes'[i].by].pc)
             /\ writes'[i].key = "aesCounterCipher" => writes'[i].by # Null
  BY <1>1, <1>2 DEF QueueOK
<1>5. ASSUME ~Erasing, NEW i \in DOMAIN writes', NEW j \in DOMAIN writes', writes'[i].key \in CryptoKeys
      PROVE  writes'[i].by # Null /\ (writes'[j].key \in CryptoKeys => i = j)
  <2>1. /\ writes[i + 1].key \in CryptoKeys /\ writes[i + 1].by # Null
        /\ writes[j + 1].key \in CryptoKeys => i + 1 = j + 1
    BY <1>2, <1>5 DEF QueueOK
  <2> QED
    BY <1>2, <2>1
<1>6. ASSUME Erasing, NEW i \in DOMAIN writes'
      PROVE  /\ writes'[i].by # Null => i = Len(writes')
             /\ writes'[i].key \in CryptoKeys => writes'[i].val = Null
  <2>1. /\ writes[i + 1].by # Null => i + 1 = Len(writes)
        /\ writes[i + 1].key \in CryptoKeys => writes[i + 1].val = Null
    BY <1>2, <1>6 DEF QueueOK
  <2> QED
    BY <1>2, <2>1
<1> QED
  BY <1>3, <1>4, <1>5, <1>6 DEF QueueOK

\* A write nobody waits for is one of the maps, or erases a credential that is not
\* the last to go.
LEMMA FlushedIs ==
    ASSUME StorageOK, QueueOK, FlushWrite, NEW k \in CryptoKeys
    PROVE  /\ store'[k] = store[k]
           /\ disk'[k] = disk[k] \/ (Erasing /\ disk'[k] = Null /\ k # "aesCounterCipher")
           /\ Values(k)' \subseteq Values(k)
<1>1. /\ writes # <<>> /\ Head(writes) = writes[1] /\ 1 \in DOMAIN writes
      /\ writes[1].by = Null /\ disk' = Put(disk, <<writes[1]>>) /\ Settle(Null, <<>>)
      /\ k \in DOMAIN disk /\ k \in StoreKeys
  <2>1. Head(writes) = writes[1] /\ 1 \in DOMAIN writes
    BY HeadIsWrite, LenProperties DEF FlushWrite, Settle, StorageOK
  <2> QED
    BY <2>1, TheKeys DEF FlushWrite, Settle, StorageOK, StoreOK
<1>2. disk'[k] = IF writes[1].key = k THEN writes[1].val ELSE disk[k]
  BY <1>1, PutAt
<1>3. writes[1].key \in CryptoKeys =>
         Erasing /\ writes[1].val = Null /\ writes[1].key # "aesCounterCipher"
  BY <1>1 DEF QueueOK
<1>4. store'[k] = store[k]
  <2>1. Moves(<<>>) /\ \A i \in DOMAIN <<>> : <<>>[i].key # k
    BY <1>1 DEF Moves
  <2>2. <<>> \in Seq(WriteType)
    BY GroupsTyped
  <2> QED
    BY <1>1, <2>1, <2>2, MovesStorage
<1>5. Values(k)' \subseteq Values(k)
  <2>1. Written(<<>>, k) = {}
    BY DEF Written
  <2> QED
    BY <1>1, <2>1, GroupsTyped, SettleValues
<1> QED
  BY <1>2, <1>3, <1>4, <1>5

\* The four writes of clearAll.
ErasureOf(c) ==
    <<Write("vaultMap", <<>>, Null), Write("passwordCipher", Null, Null),
      Write("userPasswordMac", Null, Null), Write("aesCounterCipher", Null, c)>>

LEMMA ErasureIs ==
    ASSUME NEW c \in Calls
    PROVE  /\ ErasureOf(c) \in Seq(WriteType) /\ Distinct(ErasureOf(c))
           /\ Len(ErasureOf(c)) = 4 /\ DOMAIN ErasureOf(c) = 1 .. 4
           /\ ErasureOf(c)[1] = Write("vaultMap", <<>>, Null)
           /\ \A i \in 2 .. 4 : ErasureOf(c)[i].val = Null
           /\ ErasureOf(c)[2].key = "passwordCipher" /\ ErasureOf(c)[3].key = "userPasswordMac"
           /\ ErasureOf(c)[4].key = "aesCounterCipher"
           /\ \A i \in 1 .. 3 : ErasureOf(c)[i].by = Null
           /\ ErasureOf(c)[4].by = c
<1>1. /\ Write("vaultMap", <<>>, Null) \in WriteType
      /\ Write("passwordCipher", Null, Null) \in WriteType
      /\ Write("userPasswordMac", Null, Null) \in WriteType
      /\ Write("aesCounterCipher", Null, c) \in WriteType
  <2>1. <<>> \in Seq(Vaults)
    OBVIOUS
  <2> QED
    BY <2>1, WritesTyped
<1>2. ErasureOf(c) \in Seq(WriteType)
  BY <1>1 DEF ErasureOf
<1>3. Len(ErasureOf(c)) = 4 /\ DOMAIN ErasureOf(c) = 1 .. 4
  BY DEF ErasureOf
<1>4. /\ ErasureOf(c)[1] = Write("vaultMap", <<>>, Null)
      /\ ErasureOf(c)[2] = Write("passwordCipher", Null, Null)
      /\ ErasureOf(c)[3] = Write("userPasswordMac", Null, Null)
      /\ ErasureOf(c)[4] = Write("aesCounterCipher", Null, c)
  BY DEF ErasureOf
<1>5. Distinct(ErasureOf(c))
  BY <1>3, <1>4 DEF Distinct, Write
<1> QED
  BY <1>2, <1>3, <1>4, <1>5 DEF Write

LEMMA QueueErase ==
    ASSUME OneCall, NEW c \in Calls, StorageOK, Clear(writes), writes' = writes \o ErasureOf(c),
           call'[c].pc = "clear.erased"
    PROVE  QueueOK'
<1> DEFINE n == Len(writes)
           e == ErasureOf(c)
<1>1. /\ n \in Nat /\ DOMAIN writes' = 1 .. n + 4 /\ Len(writes') = n + 4
      /\ \A i \in DOMAIN writes : writes'[i] = writes[i]
      /\ \A i \in 1 .. 4 : writes'[n + i] = e[i]
      /\ \A i \in DOMAIN writes' : i \in DOMAIN writes \/ (i > n /\ i - n \in 1 .. 4)
  <2>1. writes' \in Seq(WriteType) /\ Len(e) = 4 /\ DOMAIN e = 1 .. 4 /\ e \in Seq(WriteType)
    BY ErasureIs DEF StorageOK
  <2>w. writes \in Seq(WriteType) /\ writes' = writes \o e
    BY DEF StorageOK
  <2>2. Len(writes) \in Nat /\ DOMAIN writes' = 1 .. Len(writes')
    BY <2>1, LenProperties DEF StorageOK
  <2> HIDE DEF e
  <2>3. Len(writes') = n + 4
    <3>1. Len(writes \o e) = Len(writes) + Len(e)
      BY <2>1, <2>w, ConcatProperties
    <3> QED
      BY <2>1, <2>w, <3>1
  <2> QED
    BY <2>1, <2>2, <2>3, ConcatAt DEF StorageOK, e
<1>2. ASSUME NEW i \in DOMAIN writes', i \notin DOMAIN writes
      PROVE  \/ i = n + 4 /\ writes'[i] = e[4]
             \/ i < n + 4 /\ \E j \in 1 .. 3 : writes'[i] = e[j]
  <2> DEFINE j == i - n
  <2>1. j \in 1 .. 4 /\ n + j = i
    BY <1>1, <1>2
  <2>2. writes'[i] = e[j]
    <3> HIDE DEF j, e, n
    <3> QED
      BY <1>1, <2>1
  <2>3. j = 4 \/ j \in 1 .. 3
    BY <2>1
  <2> QED
    BY <1>1, <2>1, <2>2, <2>3
<1>3. /\ Erasing' /\ c # Null
      /\ \A d \in Calls : Awaited(call'[d].pc) = "aesCounterCipher"
  BY TheCall, NullAssumption DEF Erasing, Awaited
<1> HIDE DEF e, n
<1>4. ASSUME NEW i \in DOMAIN writes'
      PROVE  /\ writes'[i].by # Null => /\ writes'[i].key = Awaited(call'[writes'[i].by].pc)
                                        /\ i = Len(writes')
             /\ writes'[i].key = "aesCounterCipher" => writes'[i].by # Null
             /\ writes'[i].key \in CryptoKeys => writes'[i].val = Null
  <2>1. CASE i \in DOMAIN writes
    BY <1>1, <2>1, TheKeys DEF Clear
  <2>2. CASE i = n + 4 /\ writes'[i] = e[4]
    BY <1>1, <1>3, <2>2, ErasureIs DEF e
  <2>3. CASE \E j \in 1 .. 3 : writes'[i] = e[j]
    <3>1. PICK j \in 1 .. 3 : writes'[i] = e[j]
      BY <2>3
    <3>2. CASE j = 1
      BY <3>1, <3>2, ErasureIs, TheKeys DEF e, Write
    <3>3. CASE j = 2 \/ j = 3
      BY <3>1, <3>3, ErasureIs DEF e
    <3> QED
      BY <3>2, <3>3
  <2> QED
    BY <1>2, <2>1, <2>2, <2>3
<1> QED
  BY <1>3, <1>4 DEF QueueOK
-----------------------------------------------------------------------------
(* The steps of a call that leave the storage alone.                        *)

\* No wait of a sign-up and none for a write.
Outside(pc) == pc \notin SignUpPcs /\ Awaited(pc) = "none"

LEMMA CallMoves ==
    ASSUME OneCall, StorageOK, SerialInv, NEW c \in Calls,
           UNCHANGED <<signedUp, vaults, storage, keysDrawn>>,
           Outside(call[c].pc), Outside(call'[c].pc)
    PROVE  /\ QueueOK' /\ StoredUnderKey' /\ MacHasCipher(store)' /\ MacHasCipher(disk)'
           /\ ErasingOK' /\ NoVaultsYet'
           /\ ~Erasing /\ ~Erasing'
           /\ signedUp <=> HasCryptoState(store)
           /\ signedUp' <=> HasCryptoState(store')
<1> USE DEF storage
<1>1. Clear(writes) /\ ~Erasing
  BY NoneAwaited DEF SerialInv, Outside
<1>2. QueueOK' /\ ~Erasing'
  <2>1. Clear(writes')
    BY <1>1
  <2> QED
    BY <2>1, QueueClear, TheCall DEF Erasing, Outside, Awaited
<1>3. \A k : Values(k)' = Values(k)
  BY DEF Values
<1>4. StoredUnderKey' /\ MacHasCipher(store)' /\ MacHasCipher(disk)'
  BY <1>3 DEF SerialInv, StoredUnderKey, MacHasCipher, MacOfKey, CounterOfKey, OfKey
<1>5. ErasingOK'
  BY <1>2 DEF ErasingOK
<1>6. ~Doing(SignUpPcs)' /\ ~Doing(SignUpPcs) /\ ~Doing({"signUp.mac", "signUp.counter"})
  BY TheCall DEF Outside, SignUpPcs
<1>7. NoVaultsYet'
  BY <1>1, <1>3, <1>6 DEF SerialInv, NoVaultsYet
<1>8. signedUp <=> HasCryptoState(store)
  BY <1>6 DEF SerialInv, SignedUpOK
<1> QED
  BY <1>1, <1>2, <1>4, <1>5, <1>7, <1>8

LEMMA StepsVacuous ==
    ASSUME OneCall, NEW c \in Calls,
           call'[c].pc \in {"idle", "delete.check", "clear.session", "clear.erased"}
    PROVE  StepsOK'
BY TheCall DEF StepsOK, SignUpPcs, ChangePcs, At

LEMMA CredentialsOfKey ==
    ASSUME StoredUnderKey
    PROVE  MacOfKey(Credentials.mac) /\ CounterOfKey(Credentials.counter)
BY DEF StoredUnderKey, Values, Credentials

LEMMA NoCallHolds ==
    /\ NoCall.pc = "idle" /\ MacOfKey(NoCall.cred.mac) /\ CounterOfKey(NoCall.cred.counter)
    /\ Outside("idle")
BY DEF NoCall, NoCredentials, MacOfKey, CounterOfKey, Outside, SignUpPcs, Awaited

\* A call that ends: nothing but the call changes.
LEMMA FinishSerial ==
    ASSUME OneCall, TypeInv, SerialInv, NEW c \in Calls, Outside(call[c].pc), Finish(c),
           UNCHANGED <<memory, storage, keysDrawn>>,
           session' = session \/ session' = [session EXCEPT !.aesCounter = 0]
    PROVE  SerialInv'
<1> USE DEF memory
<1>1. /\ StorageOK /\ call'[c] = NoCall /\ call'[c].pc = "idle"
      /\ session' = [password |-> session'.password, aesCounter |-> session'.aesCounter]
      /\ session'.password = session.password
      /\ session'.aesCounter = session.aesCounter \/ session'.aesCounter = 0
  BY NoCallHolds DEF TypeInv, FieldsOK, CallsOK, Finish
<1>2. /\ QueueOK' /\ StoredUnderKey' /\ MacHasCipher(store)' /\ MacHasCipher(disk)'
      /\ ErasingOK' /\ NoVaultsYet' /\ ~Erasing /\ ~Erasing'
      /\ signedUp <=> HasCryptoState(store)
      /\ signedUp' <=> HasCryptoState(store')
  BY <1>1, CallMoves, NoCallHolds
<1>3. HeldUnderKey'
  <2>1. \A d \in Calls : call'[d] = NoCall
    BY <1>1, TheCall
  <2>2. MacOfKey(NoCall.cred.mac)' /\ CounterOfKey(NoCall.cred.counter)'
    BY DEF NoCall, NoCredentials, MacOfKey, CounterOfKey
  <2> QED
    BY <1>1, <2>1, <2>2, NoCallHolds DEF SerialInv, HeldUnderKey, SignUpPcs
<1>4. LockedInSession'
  BY <1>1, <1>2 DEF SerialInv, LockedInSession, Locked
<1>5. SignedUpOK'
  BY <1>2 DEF SerialInv, SignedUpOK, Locked, storage
<1>6. StepsOK'
  BY <1>1, StepsVacuous
<1> QED
  BY <1>2, <1>3, <1>4, <1>5, <1>6 DEF SerialInv

\* A call that begins, or goes on, and holds what it has just read.
LEMMA StartSerial ==
    ASSUME OneCall, TypeInv, SerialInv, NEW c \in Calls, NEW r \in CallType, Start(c, r),
           Outside(call[c].pc), UNCHANGED <<memory, session, storage, keysDrawn>>,
           r.pc \in {"unlock.derive", "create.vault", "change.check", "change.derive", "delete.check"},
           signedUp,
           r.cred \in {Credentials, NoCredentials} \/ r.cred = call[c].cred,
           r.pc = "unlock.derive" => r.cred = Credentials,
           r.pc = "change.derive" => r.key = keysDrawn /\ keysDrawn # 0
    PROVE  SerialInv'
<1> USE DEF memory
<1>1. StorageOK /\ call'[c] = r
  BY DEF TypeInv, CallsOK, Start
<1>2. /\ QueueOK' /\ StoredUnderKey' /\ MacHasCipher(store)' /\ MacHasCipher(disk)'
      /\ ErasingOK' /\ NoVaultsYet' /\ ~Erasing /\ ~Erasing'
      /\ signedUp' <=> HasCryptoState(store')
  BY <1>1, CallMoves DEF Outside, Awaited, SignUpPcs
<1>3. MacOfKey(r.cred.mac) /\ CounterOfKey(r.cred.counter)
  BY CredentialsOfKey DEF SerialInv, HeldUnderKey, NoCredentials, MacOfKey, CounterOfKey
<1>4. HeldUnderKey'
  <2>1. \A d \in Calls : call'[d] = r
    BY <1>1, TheCall
  <2>2. MacOfKey(r.cred.mac)' /\ CounterOfKey(r.cred.counter)'
    BY <1>3 DEF MacOfKey, CounterOfKey
  <2>3. r.pc \in SignUpPcs \cup {"change.derive", "change.cipher", "change.mac"} => r.pc = "change.derive"
    BY DEF SignUpPcs
  <2> QED
    BY <2>1, <2>2, <2>3 DEF SerialInv, HeldUnderKey
<1>5. LockedInSession'
  BY <1>2 DEF SerialInv, LockedInSession, Locked
<1>6. SignedUpOK'
  BY <1>2 DEF SerialInv, SignedUpOK, Locked, storage
<1>7. StepsOK'
  <2>1. \A d \in Calls : At(d, "unlock.derive")' => call'[d].cred = Credentials'
    BY <1>1, TheCall DEF At, Credentials, storage
  <2> QED
    BY <1>1, <2>1, TheCall DEF StepsOK, SignUpPcs, ChangePcs
<1> QED
  BY <1>2, <1>4, <1>5, <1>6, <1>7 DEF SerialInv
-----------------------------------------------------------------------------
(* The steps that write credentials.                                        *)

LEMMA OneWrite ==
    ASSUME NEW x \in WriteType
    PROVE  /\ <<x>> \in Seq(WriteType) /\ Distinct(<<x>>)
           /\ DOMAIN <<x>> = {1} /\ <<x>>[1] = x
           /\ \A k : Written(<<x>>, k) = IF x.key = k THEN {x.val} ELSE {}
<1>1. <<x>> \in Seq(WriteType) /\ DOMAIN <<x>> = {1} /\ <<x>>[1] = x
  OBVIOUS
<1> QED
  BY <1>1 DEF Distinct, Written

LEMMA CredentialWritten ==
    ASSUME OneCall, TypeInv, SelectionInv, SerialInv, UNCHANGED <<memory, session, keysDrawn>>,
           NEW c \in Calls, NEW pc \in CallPcs, Goto(c, pc),
           NEW x \in WriteType, x.by = c, x.key \in CryptoKeys, x.key = Awaited(pc),
           \/ Issue(<<x>>) /\ Awaited(call[c].pc) = "none"
           \/ Settle(c, <<x>>) /\ ~Erasing,
           call[c].pc \in SignUpPcs \cup {"change.derive", "change.cipher", "change.mac"},
           pc # "clear.erased", pc \in SignUpPcs <=> call[c].pc \in SignUpPcs,
           x.val # Null,
           x.key = "userPasswordMac" => MacOfKey(x.val),
           x.key = "aesCounterCipher" => CounterOfKey(x.val)
    PROVE  /\ QueueOK' /\ StoredUnderKey' /\ HeldUnderKey' /\ LockedInSession'
           /\ ErasingOK' /\ NoVaultsYet' /\ ~Erasing
           /\ store'[x.key] = x.val
           /\ \A k \in CryptoKeys : k # x.key => store'[k] = store[k]
           /\ disk' = disk \/ \A k \in CryptoKeys : disk'[k] = store[k]
           /\ call'[c].pc = pc
<1> USE DEF memory
<1>1. /\ StorageOK /\ call[c] \in CallType
      /\ call'[c].pc = pc /\ call'[c].cred = call[c].cred /\ call'[c].key = call[c].key
  BY DEF TypeInv, CallsOK, CallType, Goto
<1>2. ~Erasing /\ ~Erasing'
  <2>1. ~Erasing
    BY <1>1, NoneAwaited DEF SerialInv
  <2>2. ~Erasing'
    BY <1>1, TheCall DEF Erasing
  <2> QED
    BY <2>1, <2>2
<1>3. QueueOK'
  <2>1. CASE Issue(<<x>>) /\ Awaited(call[c].pc) = "none"
    <3>1. Clear(writes) /\ writes \in Seq(WriteType) /\ writes' = writes \o <<x>>
      BY <1>1, <2>1, NoneAwaited DEF SerialInv, Issue, StorageOK
    <3> QED
      BY <1>1, <3>1, QueueOne
  <2>2. CASE Settle(c, <<x>>)
    <3>1. Clear(Tail(writes))
      BY <1>1, <2>2, SettledClear DEF SerialInv
    <3>2. Tail(writes) \in Seq(WriteType) /\ writes' = Tail(writes) \o <<x>>
      BY <1>1, <2>2, HeadIsWrite DEF Settle
    <3> QED
      BY <1>1, <3>1, <3>2, QueueOne
  <2> QED
    BY <2>1, <2>2
<1>4. Moves(<<x>>)
  BY DEF Moves
<1>5. \A k \in StoreKeys :
         /\ Values(k)' \subseteq Values(k) \cup (IF x.key = k THEN {x.val} ELSE {})
         /\ store'[k] = IF x.key = k THEN x.val ELSE store[k]
  <2> TAKE k \in StoreKeys
  <2>1. Values(k)' \subseteq Values(k) \cup Written(<<x>>, k)
    BY <1>1, <1>4, OneWrite, MovesStorage
  <2>2. /\ DOMAIN <<x>> = {1} /\ <<x>>[1] = x /\ Distinct(<<x>>)
        /\ (\A i \in DOMAIN <<x>> : <<x>>[i].key # k) => store'[k] = store[k]
        /\ \A i \in DOMAIN <<x>> : <<x>>[i].key = k /\ Distinct(<<x>>) => store'[k] = <<x>>[i].val
    BY <1>1, <1>4, OneWrite, MovesStorage
  <2>3. store'[k] = IF x.key = k THEN x.val ELSE store[k]
    BY <2>2
  <2> QED
    BY <2>1, <2>3, OneWrite
<1>6. StoredUnderKey'
  <2>1. /\ \A vs \in Values("vaultMap")' : OfKey(vs)
        /\ \A m \in Values("userPasswordMac")' : MacOfKey(m)
        /\ \A m \in Values("aesCounterCipher")' : CounterOfKey(m)
    BY <1>5, TheKeys DEF SerialInv, StoredUnderKey
  <2> QED
    BY <2>1 DEF StoredUnderKey, OfKey, MacOfKey, CounterOfKey
<1>7. HeldUnderKey'
  <2>1. /\ MacOfKey(call[c].cred.mac) /\ CounterOfKey(call[c].cred.counter)
        /\ call[c].key = keysDrawn /\ keysDrawn # 0
    BY DEF SerialInv, HeldUnderKey
  <2>2. \A d \in Calls : call'[d].cred = call[c].cred /\ call'[d].key = call[c].key
    BY <1>1, TheCall
  <2> QED
    BY <2>1, <2>2 DEF SerialInv, HeldUnderKey, MacOfKey, CounterOfKey
<1>8. LockedInSession'
  BY <1>2 DEF SerialInv, LockedInSession, Locked
<1>9. NoVaultsYet'
  <2>1. Values("vaultMap")' \subseteq Values("vaultMap")
    BY <1>5, TheKeys
  <2>2. store'["aesCounterCipher"] = Null => store["aesCounterCipher"] = Null
    BY <1>5, TheKeys
  <2>3. Doing(SignUpPcs)' => Doing(SignUpPcs)
    BY <1>1, TheCall
  <2> QED
    BY <1>2, <2>1, <2>2, <2>3 DEF SerialInv, NoVaultsYet
<1>10. disk' = disk \/ \A k \in CryptoKeys : disk'[k] = store[k]
  <2>1. ASSUME Settle(c, <<x>>), NEW k \in CryptoKeys PROVE disk'[k] = store[k]
    BY <1>1, <2>1, OneWrite, SettledOnDisk DEF SerialInv, SelectionInv
  <2> QED
    BY <2>1 DEF Issue
<1> QED
  BY <1>1, <1>2, <1>3, <1>5, <1>6, <1>7, <1>8, <1>9, <1>10, TheKeys DEF ErasingOK

LEMMA SignUpSerial ==
    ASSUME OneCall, TypeInv, SelectionInv, SerialInv, NEW c \in Calls,
           SignUpWritesCipher(c) \/ SignUpWritesMac(c) \/ SignUpWritesCounter(c)
    PROVE  SerialInv'
<1> DEFINE p == call[c].pc
           pw == EncryptPassword(call[c].user, call[c].key)
<1> USE DEF memory
<1>1. /\ p \in SignUpPcs /\ call[c] \in CallType /\ pw \in Cipher /\ pw.key = call[c].key
      /\ call[c].key = keysDrawn /\ keysDrawn # 0 /\ Null \notin Cipher /\ Null \notin CounterCipher
      /\ AesEncrypt(keysDrawn, keysDrawn) \in CounterCipher
  <2>1. p \in SignUpPcs
    BY DEF SignUpWritesCipher, SignUpWritesMac, SignUpWritesCounter, At, SignUpPcs
  <2>2. call[c] \in CallType /\ call[c].user \in UserPasswords
    BY <2>1 DEF TypeInv, CallsOK, CallReady
  <2>3. call[c].key = keysDrawn /\ keysDrawn # 0 /\ call[c].key \in Keys
    BY <2>1, <2>2 DEF SerialInv, HeldUnderKey, CallType
  <2> QED
    BY <2>1, <2>2, <2>3, NullAssumption DEF EncryptPassword, AesEncrypt, Cipher, CounterCipher
<1>2. ~signedUp /\ Locked
  BY <1>1, TheCall DEF SerialInv, StepsOK
<1>3. /\ \A pcs : (Doing(pcs) <=> p \in pcs) /\ (Doing(pcs)' <=> call'[c].pc \in pcs)
      /\ \A d \in Calls : d = c
  BY TheCall
<1> HIDE DEF pw
<1>4. CASE SignUpWritesCipher(c)
  <2> DEFINE x == Write("passwordCipher", pw, c)
  <2>1. /\ p = "signUp.derive" /\ Goto(c, "signUp.cipher") /\ Issue(<<x>>)
        /\ UNCHANGED <<memory, session, keysDrawn>>
    BY <1>4 DEF SignUpWritesCipher, At, pw
  <2>2. x \in WriteType /\ x.by = c /\ x.key = "passwordCipher" /\ x.val = pw
    BY <1>1, WritesTyped DEF Write
  <2>3. Awaited("signUp.cipher") = "passwordCipher" /\ Awaited("signUp.derive") = "none"
        /\ "signUp.cipher" \in CallPcs /\ "signUp.cipher" \in SignUpPcs
    BY DEF Awaited, CallPcs, SignUpPcs
  <2> HIDE DEF x
  <2>4. /\ QueueOK' /\ StoredUnderKey' /\ HeldUnderKey' /\ LockedInSession'
        /\ ErasingOK' /\ NoVaultsYet'
        /\ store'["passwordCipher"] = pw
        /\ \A k \in CryptoKeys : k # "passwordCipher" => store'[k] = store[k]
        /\ call'[c].pc = "signUp.cipher" /\ disk' = disk
    BY <1>1, <2>1, <2>2, <2>3, TheKeys, CredentialWritten DEF Issue
  <2>5. /\ store'["passwordCipher"] # Null
        /\ store'["userPasswordMac"] = Null /\ store'["aesCounterCipher"] = Null
    BY <1>1, <1>3, <2>1, <2>4, TheKeys DEF SerialInv, StepsOK
  <2>6. StepsOK'
    BY <1>2, <1>3, <2>1, <2>4, <2>5 DEF StepsOK, At, ChangePcs, Locked
  <2>7. SignedUpOK'
    BY <1>2, <2>1, <2>5 DEF SignedUpOK, HasCryptoState
  <2> QED
    BY <2>4, <2>5, <2>6, <2>7 DEF SerialInv, MacHasCipher
<1>5. CASE SignUpWritesMac(c)
  <2> DEFINE x == Write("userPasswordMac", pw, c)
  <2>1. /\ p = "signUp.cipher" /\ Goto(c, "signUp.mac") /\ Settle(c, <<x>>)
        /\ UNCHANGED <<memory, session, keysDrawn>>
    BY <1>5 DEF SignUpWritesMac, At, pw
  <2>2. x \in WriteType /\ x.by = c /\ x.key = "userPasswordMac" /\ x.val = pw /\ MacOfKey(pw)
    BY <1>1, WritesTyped DEF Write, MacOfKey
  <2>3. Awaited("signUp.mac") = "userPasswordMac" /\ ~Erasing
        /\ "signUp.mac" \in CallPcs /\ "signUp.mac" \in SignUpPcs
    BY <1>3, <2>1 DEF Awaited, CallPcs, SignUpPcs, Erasing
  <2> HIDE DEF x
  <2>4. /\ QueueOK' /\ StoredUnderKey' /\ HeldUnderKey' /\ LockedInSession'
        /\ ErasingOK' /\ NoVaultsYet'
        /\ store'["userPasswordMac"] = pw
        /\ \A k \in CryptoKeys : k # "userPasswordMac" => store'[k] = store[k]
        /\ disk' = disk \/ \A k \in CryptoKeys : disk'[k] = store[k]
        /\ call'[c].pc = "signUp.mac"
    BY <1>1, <2>1, <2>2, <2>3, TheKeys, CredentialWritten
  <2>5. /\ store["userPasswordMac"] = Null /\ store["passwordCipher"] # Null
    BY <1>3, <2>1 DEF SerialInv, StepsOK
  <2>6. store'["passwordCipher"] # Null /\ store'["userPasswordMac"] # Null
    BY <1>1, <2>4, <2>5, TheKeys
  <2>7. MacHasCipher(store)' /\ MacHasCipher(disk)'
    BY <2>4, <2>5, <2>6, TheKeys DEF SerialInv, MacHasCipher
  <2>8. StepsOK'
    BY <1>2, <1>3, <2>1, <2>4, <2>6 DEF StepsOK, At, ChangePcs, Locked
  <2>9. SignedUpOK'
    BY <1>2, <1>3, <2>1, <2>4 DEF SignedUpOK
  <2> QED
    BY <2>4, <2>7, <2>8, <2>9 DEF SerialInv
<1>6. CASE SignUpWritesCounter(c)
  <2> DEFINE x == Write("aesCounterCipher", AesEncrypt(keysDrawn, keysDrawn), c)
  <2>1. /\ p = "signUp.mac" /\ Goto(c, "signUp.counter") /\ Settle(c, <<x>>)
        /\ UNCHANGED <<memory, session, keysDrawn>>
    BY <1>1, <1>6 DEF SignUpWritesCounter, At
  <2>2. x \in WriteType /\ x.by = c /\ x.key = "aesCounterCipher"
        /\ x.val = AesEncrypt(keysDrawn, keysDrawn) /\ x.val # Null
        /\ CounterOfKey(x.val)
    BY <1>1, WritesTyped DEF Write, CounterOfKey
  <2>3. Awaited("signUp.counter") = "aesCounterCipher" /\ ~Erasing
        /\ "signUp.counter" \in CallPcs /\ "signUp.counter" \in SignUpPcs
    BY <1>3, <2>1 DEF Awaited, CallPcs, SignUpPcs, Erasing
  <2> HIDE DEF x
  <2>4. /\ QueueOK' /\ StoredUnderKey' /\ HeldUnderKey' /\ LockedInSession'
        /\ ErasingOK' /\ NoVaultsYet'
        /\ store'["aesCounterCipher"] = x.val
        /\ \A k \in CryptoKeys : k # "aesCounterCipher" => store'[k] = store[k]
        /\ disk' = disk \/ \A k \in CryptoKeys : disk'[k] = store[k]
        /\ call'[c].pc = "signUp.counter"
    BY <1>1, <2>1, <2>2, <2>3, TheKeys, CredentialWritten
  <2>5. /\ store["userPasswordMac"] # Null /\ store["passwordCipher"] # Null
    BY <1>3, <2>1 DEF SerialInv, StepsOK
  <2>6. store'["passwordCipher"] # Null /\ store'["userPasswordMac"] # Null
        /\ store'["aesCounterCipher"] # Null
    BY <2>2, <2>4, <2>5, TheKeys
  <2>7. MacHasCipher(store)' /\ MacHasCipher(disk)'
    BY <2>4, <2>5, <2>6, TheKeys DEF SerialInv, MacHasCipher
  <2>8. StepsOK'
    BY <1>2, <1>3, <2>1, <2>4, <2>6 DEF StepsOK, At, ChangePcs, Locked
  <2>9. SignedUpOK'
    BY <1>2, <1>3, <2>1, <2>4 DEF SignedUpOK
  <2> QED
    BY <2>4, <2>7, <2>8, <2>9 DEF SerialInv
<1> QED
  BY <1>4, <1>5, <1>6

LEMMA ChangeSerial ==
    ASSUME OneCall, TypeInv, SelectionInv, SerialInv, NEW c \in Calls,
           ChangeWritesCipher(c) \/ ChangeWritesMac(c)
    PROVE  SerialInv'
<1> DEFINE p == call[c].pc
           pw == EncryptPassword(call[c].newUser, call[c].key)
<1> USE DEF memory
<1>1. /\ p \in {"change.derive", "change.cipher"} /\ p \notin SignUpPcs
      /\ pw \in Cipher /\ pw.key = call[c].key
      /\ call[c].key = keysDrawn /\ keysDrawn # 0 /\ Null \notin Cipher
  <2>1. p \in {"change.derive", "change.cipher"} /\ p \in ChangePcs /\ p \notin SignUpPcs
    BY DEF ChangeWritesCipher, ChangeWritesMac, At, ChangePcs, SignUpPcs
  <2>2. call[c] \in CallType /\ call[c].newUser \in UserPasswords
    BY <2>1 DEF TypeInv, CallsOK, CallReady
  <2>3. call[c].key = keysDrawn /\ keysDrawn # 0 /\ call[c].key \in Keys
    BY <2>1, <2>2 DEF SerialInv, HeldUnderKey, CallType
  <2> QED
    BY <2>1, <2>2, <2>3, NullAssumption DEF EncryptPassword, Cipher
<1>2. /\ \A pcs : (Doing(pcs) <=> p \in pcs) /\ (Doing(pcs)' <=> call'[c].pc \in pcs)
      /\ \A d \in Calls : d = c
  BY TheCall
<1>3. signedUp /\ HasCryptoState(store) /\ ~Erasing
  BY <1>1, <1>2 DEF SerialInv, StepsOK, SignedUpOK, Erasing, ChangePcs
<1> HIDE DEF pw
<1>4. ASSUME NEW pc \in {"change.cipher", "change.mac"}, call'[c].pc = pc, signedUp' = signedUp
      PROVE  StepsOK'
  BY <1>2, <1>3, <1>4 DEF StepsOK, At, SignUpPcs
<1>5. CASE ChangeWritesCipher(c)
  <2> DEFINE x == Write("passwordCipher", pw, c)
  <2>1. /\ p = "change.derive" /\ Goto(c, "change.cipher") /\ Issue(<<x>>)
        /\ UNCHANGED <<memory, session, keysDrawn>>
    BY <1>5 DEF ChangeWritesCipher, At, pw
  <2>2. x \in WriteType /\ x.by = c /\ x.key = "passwordCipher" /\ x.val = pw
    BY <1>1, WritesTyped DEF Write
  <2>3. Awaited("change.cipher") = "passwordCipher" /\ Awaited("change.derive") = "none"
        /\ "change.cipher" \in CallPcs /\ "change.cipher" \notin SignUpPcs
    BY DEF Awaited, CallPcs, SignUpPcs
  <2> HIDE DEF x
  <2>4. /\ QueueOK' /\ StoredUnderKey' /\ HeldUnderKey' /\ LockedInSession'
        /\ ErasingOK' /\ NoVaultsYet'
        /\ store'["passwordCipher"] = pw
        /\ \A k \in CryptoKeys : k # "passwordCipher" => store'[k] = store[k]
        /\ call'[c].pc = "change.cipher" /\ disk' = disk
    BY <1>1, <2>1, <2>2, <2>3, TheKeys, CredentialWritten DEF Issue
  <2>5. /\ store'["passwordCipher"] # Null
        /\ store'["userPasswordMac"] = store["userPasswordMac"]
        /\ store'["aesCounterCipher"] = store["aesCounterCipher"]
    BY <1>1, <2>4, TheKeys
  <2>6. SignedUpOK'
    BY <1>3, <2>1, <2>5 DEF SerialInv, SignedUpOK, HasCryptoState, Locked
  <2> QED
    BY <1>4, <2>1, <2>4, <2>5, <2>6 DEF SerialInv, MacHasCipher
<1>6. CASE ChangeWritesMac(c)
  <2> DEFINE x == Write("userPasswordMac", pw, c)
  <2>1. /\ p = "change.cipher" /\ Goto(c, "change.mac") /\ Settle(c, <<x>>)
        /\ UNCHANGED <<memory, session, keysDrawn>>
    BY <1>6 DEF ChangeWritesMac, At, pw
  <2>2. x \in WriteType /\ x.by = c /\ x.key = "userPasswordMac" /\ x.val = pw /\ MacOfKey(pw)
    BY <1>1, WritesTyped DEF Write, MacOfKey
  <2>3. Awaited("change.mac") = "userPasswordMac"
        /\ "change.mac" \in CallPcs /\ "change.mac" \notin SignUpPcs
    BY DEF Awaited, CallPcs, SignUpPcs
  <2> HIDE DEF x
  <2>4. /\ QueueOK' /\ StoredUnderKey' /\ HeldUnderKey' /\ LockedInSession'
        /\ ErasingOK' /\ NoVaultsYet'
        /\ store'["userPasswordMac"] = pw
        /\ \A k \in CryptoKeys : k # "userPasswordMac" => store'[k] = store[k]
        /\ disk' = disk \/ \A k \in CryptoKeys : disk'[k] = store[k]
        /\ call'[c].pc = "change.mac"
    BY <1>1, <1>3, <2>1, <2>2, <2>3, TheKeys, CredentialWritten
  <2>5. /\ store'["passwordCipher"] = store["passwordCipher"] /\ store'["passwordCipher"] # Null
        /\ store'["userPasswordMac"] # Null
        /\ store'["aesCounterCipher"] = store["aesCounterCipher"]
    BY <1>1, <1>3, <2>4, TheKeys DEF HasCryptoState
  <2>6. MacHasCipher(store)' /\ MacHasCipher(disk)'
    BY <2>4, <2>5, TheKeys DEF SerialInv, MacHasCipher
  <2>7. SignedUpOK'
    BY <1>3, <2>1, <2>5 DEF SerialInv, SignedUpOK, HasCryptoState, Locked
  <2> QED
    BY <1>4, <2>1, <2>4, <2>6, <2>7 DEF SerialInv
<1> QED
  BY <1>5, <1>6
-----------------------------------------------------------------------------
(* The steps that go on when the last write of a call has reached the disk. *)

LEMMA SettledNothing ==
    ASSUME OneCall, TypeInv, SelectionInv, SerialInv, NEW c \in Calls, Settle(c, <<>>),
           keysDrawn' = keysDrawn
    PROVE  /\ QueueOK' /\ StoredUnderKey' /\ MacHasCipher(store)' /\ MacHasCipher(disk)'
           /\ \A k \in StoreKeys : store'[k] = store[k]
           /\ Values("vaultMap")' \subseteq Values("vaultMap")
           /\ Erasing => writes' = <<>>
<1>1. /\ StorageOK /\ writes # <<>> /\ Tail(writes) \in Seq(WriteType)
      /\ writes' = Tail(writes) \o <<>> /\ Len(writes) \in Nat \ {0}
      /\ <<>> \in Seq(WriteType) /\ Moves(<<>>)
      /\ \A k : Written(<<>>, k) = {}
  <2>1. StorageOK /\ writes # <<>>
    BY DEF TypeInv, Settle
  <2>2. Moves(<<>>)
    BY DEF Moves
  <2> QED
    BY <2>1, <2>2, HeadIsWrite DEF Settle, Written
<1>2. writes' = Tail(writes)
  BY <1>1, ConcatEmptySeq
<1>3. QueueOK'
  <2>1. Clear(Tail(writes))
    BY <1>1, SettledClear DEF SerialInv
  <2> QED
    BY <1>2, <2>1, QueueClear
<1>4. \A k \in StoreKeys : store'[k] = store[k]
  <2>1. store' = Put(store, <<>>) /\ DOMAIN store = StoreKeys
    BY <1>1 DEF Settle, StorageOK, StoreOK
  <2> QED
    BY <2>1, PutAt
<1>5. \A k \in StoreKeys : Values(k)' \subseteq Values(k)
  BY <1>1, MovesStorage
<1>6. StoredUnderKey'
  BY <1>5, TheKeys DEF SerialInv, StoredUnderKey, OfKey, MacOfKey, CounterOfKey
<1>7. \A k \in CryptoKeys : disk'[k] = store[k]
  BY <1>1, SettledOnDisk DEF SerialInv, SelectionInv
<1>8. MacHasCipher(store)' /\ MacHasCipher(disk)'
  BY <1>4, <1>7, TheKeys DEF SerialInv, MacHasCipher
<1>9. ASSUME Erasing PROVE writes' = <<>>
  <2>1. Len(writes) = 1
    <3>1. writes[1].by = c /\ c # Null /\ 1 \in DOMAIN writes
      BY <1>1, HeadIsWrite, NullAssumption, LenProperties DEF Settle, StorageOK
    <3> QED
      BY <1>9, <3>1 DEF SerialInv, QueueOK
  <2>2. Len(Tail(writes)) = 0
    BY <1>1, <2>1, HeadTailProperties DEF StorageOK
  <2> QED
    BY <1>1, <1>2, <2>2, EmptySeq
<1> QED
  BY <1>3, <1>4, <1>5, <1>6, <1>8, <1>9, TheKeys

LEMMA NoCallSerial ==
    ASSUME OneCall, HeldUnderKey, NEW c \in Calls, call'[c] \in {NoCall, [call[c] EXCEPT !.pc = "clear.session"]},
           call[c] \in CallType, keysDrawn' = keysDrawn, UNCHANGED <<password, aesCounter>>,
           \/ session' = session
           \/ session' = [session EXCEPT !.password = 0]
              /\ session = [password |-> session.password, aesCounter |-> session.aesCounter]
    PROVE  HeldUnderKey'
<1>1. /\ call'[c].cred \in {NoCredentials, call[c].cred}
      /\ call'[c].pc \in {"idle", "clear.session"}
  BY DEF NoCall, CallType
<1>2. MacOfKey(call'[c].cred.mac) /\ CounterOfKey(call'[c].cred.counter)
  BY <1>1 DEF HeldUnderKey, NoCredentials, MacOfKey, CounterOfKey
<1>3. call'[c].pc \notin SignUpPcs \cup {"change.derive", "change.cipher", "change.mac"}
  BY <1>1 DEF SignUpPcs
<1>4. session' = session \/ session'.password = 0
  OBVIOUS
<1>5. \A d \in Calls : d = c
  BY TheCall
<1> QED
  BY <1>2, <1>3, <1>4, <1>5 DEF HeldUnderKey, MacOfKey, CounterOfKey

LEMMA SettledSerial ==
    ASSUME OneCall, TypeInv, SelectionInv, SerialInv, SelectionInv', NEW c \in Calls,
           SignUpUnlocks(c) \/ ChangeReturns(c) \/ ClearAllErased(c)
    PROVE  SerialInv'
<1> DEFINE p == call[c].pc
<1> USE DEF memory
<1>1. Settle(c, <<>>) /\ UNCHANGED <<vaults, password, aesCounter, keysDrawn>>
  BY DEF SignUpUnlocks, ChangeReturns, ClearAllErased
<1>2. /\ QueueOK' /\ StoredUnderKey' /\ MacHasCipher(store)' /\ MacHasCipher(disk)'
      /\ \A k \in StoreKeys : store'[k] = store[k]
      /\ Values("vaultMap")' \subseteq Values("vaultMap")
      /\ Erasing => writes' = <<>>
  BY <1>1, SettledNothing
<1>3. /\ \A pcs : (Doing(pcs) <=> p \in pcs) /\ (Doing(pcs)' <=> call'[c].pc \in pcs)
      /\ \A d \in Calls : d = c
  BY TheCall
<1>4. /\ store'["passwordCipher"] = store["passwordCipher"]
      /\ store'["userPasswordMac"] = store["userPasswordMac"]
      /\ store'["aesCounterCipher"] = store["aesCounterCipher"]
  BY <1>2, TheKeys
<1>5. /\ call[c] \in CallType /\ NoCall.pc = "idle"
      /\ session = [password |-> session.password, aesCounter |-> session.aesCounter]
  BY DEF TypeInv, FieldsOK, CallsOK, NoCall
<1>6. CASE SignUpUnlocks(c)
  <2>1. p = "signUp.counter" /\ ~Erasing /\ Locked /\ ~signedUp
        /\ HasCryptoState(store) /\ store["aesCounterCipher"] # Null
    BY <1>3, <1>6 DEF SignUpUnlocks, At, SerialInv, StepsOK, HasCryptoState, SignUpPcs, Erasing
  <2>2. CanUnlock /\ signedUp' = TRUE /\ session' = session
        /\ Start(c, WithCred(call[c], "unlock.derive", Credentials))
    BY <1>6, <2>1 DEF SignUpUnlocks, CanUnlock, UnlockFrom, WithCred
  <2>3. Credentials \in CredType /\ "unlock.derive" \in CallPcs
    BY CredentialsTyped DEF TypeInv, StorageOK, CallPcs
  <2>4. call'[c].pc = "unlock.derive" /\ call'[c].cred = Credentials
    <3> DEFINE r == WithCred(call[c], "unlock.derive", Credentials)
    <3>1. r.pc = "unlock.derive" /\ r.cred = Credentials
      <4>1. 0 \in Keys
        BY MaxKeysAssumption DEF Keys
      <4> QED
        BY <1>5, <2>3, <4>1, CallWith
    <3>2. call'[c] = r
      BY <2>2 DEF TypeInv, CallsOK, Start
    <3> QED
      BY <3>1, <3>2
  <2>5. Credentials' = Credentials
    BY <1>4 DEF Credentials
  <2>6. ~Erasing' /\ ErasingOK'
    BY <1>3, <2>4 DEF Erasing, ErasingOK
  <2>7. HeldUnderKey'
    <3>1. MacOfKey(Credentials.mac) /\ CounterOfKey(Credentials.counter)
      BY CredentialsOfKey DEF SerialInv
    <3>2. MacOfKey(Credentials.mac)' /\ CounterOfKey(Credentials.counter)'
      BY <1>1, <2>5, <3>1 DEF MacOfKey, CounterOfKey
    <3>3. "unlock.derive" \notin SignUpPcs \cup {"change.derive", "change.cipher", "change.mac"}
      BY DEF SignUpPcs
    <3> QED
      BY <1>1, <1>3, <2>2, <2>4, <2>5, <3>2, <3>3 DEF SerialInv, HeldUnderKey
  <2>8. LockedInSession'
    BY <1>1, <2>1, <2>2 DEF SerialInv, LockedInSession, Locked
  <2>9. StepsOK'
    BY <1>3, <2>2, <2>4, <2>5 DEF StepsOK, At, SignUpPcs
  <2>10. SignedUpOK'
    BY <1>4, <2>1, <2>2 DEF SignedUpOK, HasCryptoState
  <2>11. NoVaultsYet'
    BY <1>3, <1>4, <2>1, <2>4 DEF NoVaultsYet, SignUpPcs
  <2> QED
    BY <1>2, <2>6, <2>7, <2>8, <2>9, <2>10, <2>11 DEF SerialInv
<1>7. CASE ChangeReturns(c)
  <2>1. p = "change.mac" /\ ~Erasing /\ signedUp /\ p \notin SignUpPcs
    BY <1>3, <1>7 DEF ChangeReturns, At, SerialInv, StepsOK, Erasing, ChangePcs, SignUpPcs
  <2>2. call'[c] = NoCall /\ UNCHANGED <<session, signedUp>>
    BY <1>7 DEF ChangeReturns, Finish, TypeInv, CallsOK
  <2>3. ~Erasing' /\ ErasingOK' /\ StepsOK' /\ ~Doing(SignUpPcs)'
    BY <1>3, <1>5, <2>2, StepsVacuous DEF Erasing, ErasingOK, SignUpPcs
  <2>4. HeldUnderKey'
    BY <1>1, <1>5, <2>2, NoCallSerial DEF SerialInv
  <2>5. LockedInSession'
    BY <1>1, <2>1, <2>2 DEF SerialInv, LockedInSession, Locked
  <2>6. SignedUpOK'
    BY <1>1, <1>4, <2>1, <2>2 DEF SerialInv, SignedUpOK, HasCryptoState, Locked
  <2>7. NoVaultsYet'
    BY <1>2, <1>4, <2>1, <2>3 DEF SerialInv, NoVaultsYet
  <2> QED
    BY <1>2, <2>3, <2>4, <2>5, <2>6, <2>7 DEF SerialInv
<1>8. CASE ClearAllErased(c)
  <2>1. p = "clear.erased" /\ Erasing /\ Locked /\ ~signedUp /\ vaults = <<>>
        /\ \A k \in CryptoKeys : store[k] = Null
    BY <1>3, <1>8 DEF ClearAllErased, At, SerialInv, ErasingOK, Erasing
  <2>2. /\ call'[c] \in {NoCall, [call[c] EXCEPT !.pc = "clear.session"]}
        /\ call'[c].pc \in {"idle", "clear.session"}
        /\ signedUp' = signedUp
        /\ session' = session \/ session' = [session EXCEPT !.password = 0]
    BY <1>5, <1>8 DEF ClearAllErased, Finish, Goto, TypeInv, CallsOK, CallType
  <2>3. ~Erasing' /\ ErasingOK' /\ StepsOK'
    BY <1>3, <2>2, StepsVacuous DEF Erasing, ErasingOK
  <2>4. HeldUnderKey'
    BY <1>1, <1>5, <2>2, NoCallSerial DEF SerialInv
  <2>5. session'.password = 0
    BY <1>5, <1>8, ServiceWorkerAssumption DEF ClearAllErased, SerialInv, LockedInSession
  <2>6. LockedInSession'
    BY <2>5 DEF LockedInSession
  <2>7. SignedUpOK'
    BY <1>4, <2>1, <2>2, TheKeys DEF SignedUpOK, HasCryptoState
  <2>8. NoVaultsYet'
    <3>1. /\ store'["vaultMap"] = <<>> /\ writes' = <<>>
          /\ disk'["vaultMap"] = store'["vaultMap"]
      BY <1>1, <1>2, <2>1, TheKeys DEF SelectionInv, StoreIsMemory, Coherent
    <3>2. \A vs \in Values("vaultMap")' : vs = <<>>
      BY <3>1 DEF Values, Written
    <3> QED
      BY <3>2 DEF NoVaultsYet
  <2> QED
    BY <1>2, <2>3, <2>4, <2>6, <2>7, <2>8 DEF SerialInv
<1> QED
  BY <1>6, <1>7, <1>8
-----------------------------------------------------------------------------
(* The password is accepted, the wallet is locked, a sign-up begins, and     *)
(* clearAll empties the wallet.                                              *)

LEMMA AcceptSerial ==
    ASSUME OneCall, TypeInv, SerialInv, NEW c \in Calls, UnlockAccepted(c)
    PROVE  SerialInv'
<1> USE DEF memory
<1>1. /\ call[c].pc = "unlock.derive" /\ call'[c].pc = "unlock.session"
      /\ call'[c].cred = call[c].cred /\ call[c].cred = Credentials
      /\ StorageOK /\ UNCHANGED <<signedUp, vaults, storage, keysDrawn>>
  BY DEF TypeInv, CallsOK, CallType, UnlockAccepted, At, Goto, SerialInv, StepsOK
<1>2. /\ call[c].cred.mac = call[c].cred.cipher /\ call[c].cred.mac # Null
      /\ call[c].cred.counter # Null /\ call[c].cred.counter \in CounterCipher
  BY <1>1, NullAssumption DEF UnlockAccepted, PasswordMatches, TypeInv, CallsOK, CallReady, Cipher, CounterCipher
<1>3. password' = keysDrawn /\ keysDrawn # 0 /\ aesCounter' = keysDrawn
  <2>1. /\ call[c].cred.cipher.key = keysDrawn /\ keysDrawn # 0
        /\ call[c].cred.counter = AesEncrypt(keysDrawn, keysDrawn)
    BY <1>2 DEF SerialInv, HeldUnderKey, MacOfKey, CounterOfKey
  <2>2. AesDecrypt(keysDrawn, AesEncrypt(keysDrawn, keysDrawn)) = keysDrawn
    BY DEF AesDecrypt, AesEncrypt
  <2> QED
    BY <2>1, <2>2 DEF UnlockAccepted
<1>4. /\ QueueOK' /\ StoredUnderKey' /\ MacHasCipher(store)' /\ MacHasCipher(disk)'
      /\ ErasingOK' /\ NoVaultsYet' /\ ~Erasing /\ ~Erasing'
      /\ signedUp' <=> HasCryptoState(store')
  BY <1>1, CallMoves DEF Outside, Awaited, SignUpPcs
<1>5. HeldUnderKey'
  <2>1. "unlock.session" \notin SignUpPcs \cup {"change.derive", "change.cipher", "change.mac"}
    BY DEF SignUpPcs
  <2>2. \A d \in Calls : call'[d].pc = "unlock.session" /\ call'[d].cred = call[d].cred
    BY <1>1, TheCall
  <2>3. \/ session' = session
        \/ session'.password = keysDrawn /\ session'.aesCounter = keysDrawn
    <3>1. session' = IF ServiceWorker
                     THEN [password |-> password', aesCounter |-> aesCounter'] ELSE session
      BY DEF UnlockAccepted
    <3> QED
      BY <1>3, <3>1
  <2> QED
    BY <1>1, <1>3, <2>1, <2>2, <2>3 DEF SerialInv, HeldUnderKey, MacOfKey, CounterOfKey
<1>6. LockedInSession'
  BY <1>3 DEF UnlockAccepted, SerialInv, LockedInSession, Locked
<1>7. signedUp
  BY <1>1, TheCall DEF SerialInv, StepsOK
<1>8. StepsOK'
  BY <1>1, <1>7, TheCall DEF StepsOK, At, SignUpPcs, ChangePcs
<1>9. SignedUpOK'
  BY <1>1, <1>2, <1>4, <1>7 DEF SignedUpOK, Credentials, storage
<1> QED
  BY <1>4, <1>5, <1>6, <1>8, <1>9 DEF SerialInv

LEMMA LockSerial ==
    ASSUME TypeInv, SerialInv, Lock \/ RemoveSessionCounter
    PROVE  SerialInv'
<1> USE DEF memory, storage
<1>1. /\ UNCHANGED <<signedUp, vaults, storage, keysDrawn, call>>
      /\ \/ password' = 0
         \/ password' = password /\ aesCounter' = aesCounter
      /\ session' \in {session, [session EXCEPT !.password = 0], [session EXCEPT !.aesCounter = 0]}
      /\ session = [password |-> session.password, aesCounter |-> session.aesCounter]
      /\ Locked' => Locked \/ session'.password = 0
  BY ServiceWorkerAssumption DEF Lock, RemoveSessionCounter, TypeInv, FieldsOK, SerialInv, LockedInSession, Locked
<1>2. /\ \A pcs : Doing(pcs)' <=> Doing(pcs)
      /\ Erasing' <=> Erasing
      /\ \A k : Values(k)' = Values(k)
  BY <1>1 DEF Doing, Erasing, Values
<1>3. QueueOK' /\ StoredUnderKey' /\ MacHasCipher(store)' /\ MacHasCipher(disk)' /\ NoVaultsYet'
  <2>1. QueueOK'
    BY <1>1, <1>2 DEF SerialInv, QueueOK
  <2>2. StoredUnderKey'
    BY <1>1, <1>2 DEF SerialInv, StoredUnderKey, OfKey, MacOfKey, CounterOfKey
  <2>3. NoVaultsYet'
    BY <1>1, <1>2 DEF SerialInv, NoVaultsYet
  <2> QED
    BY <1>1, <2>1, <2>2, <2>3 DEF SerialInv, MacHasCipher
<1>4. HeldUnderKey'
  BY <1>1 DEF SerialInv, HeldUnderKey, MacOfKey, CounterOfKey
<1>5. LockedInSession'
  BY <1>1, <1>2 DEF SerialInv, LockedInSession
<1>6. StepsOK'
  BY <1>1, <1>2 DEF SerialInv, StepsOK, Locked, At, Credentials
<1>7. ErasingOK' /\ SignedUpOK'
  <2>1. ErasingOK'
    BY <1>1, <1>2 DEF SerialInv, ErasingOK, Locked
  <2>2. SignedUpOK'
    BY <1>1, <1>2 DEF SerialInv, SignedUpOK, Locked, HasCryptoState
  <2> QED
    BY <2>1, <2>2
<1> QED
  BY <1>3, <1>4, <1>5, <1>6, <1>7 DEF SerialInv

LEMMA SignUpBegins ==
    ASSUME OneCall, TypeInv, SelectionInv, SerialInv, NEW c \in Calls, NEW user \in UserPasswords,
           Create(c, user), ~signedUp
    PROVE  SerialInv'
<1> USE DEF memory, storage
<1>1. /\ call[c].pc = "idle" /\ CanSignUp /\ keysDrawn' = keysDrawn + 1
      /\ UNCHANGED <<memory, session, storage>> /\ StorageOK /\ keysDrawn \in Nat
  BY DEF Create, At, SignUpFrom, TypeInv, FieldsOK, Keys
<1>2. /\ call'[c].pc = "signUp.derive" /\ call'[c].key = keysDrawn' /\ call'[c].cred = NoCredentials
      /\ keysDrawn' # 0
  <2>1. call'[c] = [[NoCall EXCEPT !.op = "create", !.user = user]
                      EXCEPT !.pc = "signUp.derive", !.key = keysDrawn + 1]
    BY DEF Create, SignUpFrom, Start, TypeInv, CallsOK
  <2>2. call'[c].pc = "signUp.derive" /\ call'[c].key = keysDrawn + 1 /\ call'[c].cred = NoCredentials
    BY <2>1 DEF NoCall
  <2> QED
    BY <1>1, <2>2
<1>3. Clear(writes) /\ ~Erasing
  BY <1>1, NoneAwaited DEF SerialInv, Awaited
<1>4. \A k \in CryptoKeys : Values(k) = {store[k]}
  <2> TAKE k \in CryptoKeys
  <2>1. \A i \in DOMAIN writes : writes[i].key # k
    BY <1>3, ClearValues
  <2> QED
    BY <2>1, OnDisk, TheKeys DEF SelectionInv
<1>5. /\ Locked /\ ~signedUp /\ ~HasCryptoState(store)
      /\ store["userPasswordMac"] = Null /\ store["aesCounterCipher"] = Null
  BY <1>1 DEF CanSignUp, SerialInv, MacHasCipher, HasCryptoState
<1>6. \A vs \in Values("vaultMap") : vs = <<>>
  BY <1>3, <1>5 DEF SerialInv, NoVaultsYet
<1>7. \A k : Values(k)' = Values(k)
  BY <1>1 DEF Values
<1>8. ~Erasing' /\ ErasingOK'
  BY <1>2, TheCall DEF Erasing, ErasingOK
<1>9. QueueOK'
  <2>1. Clear(writes')
    BY <1>1, <1>3
  <2> QED
    BY <2>1, QueueClear
<1>10. StoredUnderKey'
  BY <1>4, <1>5, <1>6, <1>7, TheKeys DEF StoredUnderKey, OfKey, MacOfKey, CounterOfKey
<1>11. HeldUnderKey'
  <2>1. password' = 0 /\ (session'.password = 0 \/ session'.aesCounter = 0)
    BY <1>1, <1>3, <1>5 DEF SerialInv, LockedInSession, Locked
  <2>2. \A d \in Calls : call'[d].cred = NoCredentials /\ call'[d].key = keysDrawn'
    BY <1>2, TheCall
  <2> QED
    BY <1>2, <2>1, <2>2 DEF HeldUnderKey, NoCredentials, MacOfKey, CounterOfKey
<1>12. LockedInSession' /\ MacHasCipher(store)' /\ MacHasCipher(disk)' /\ NoVaultsYet'
  BY <1>1, <1>3, <1>6, <1>7 DEF SerialInv, LockedInSession, Locked, MacHasCipher, NoVaultsYet
<1>13. StepsOK'
  BY <1>1, <1>2, <1>5, TheCall DEF StepsOK, ChangePcs, Locked, At
<1>14. SignedUpOK'
  BY <1>1, <1>5 DEF SignedUpOK, HasCryptoState
<1> QED
  BY <1>8, <1>9, <1>10, <1>11, <1>12, <1>13, <1>14 DEF SerialInv

\* A password that was checked is the one in memory.
LEMMA CheckedIs ==
    ASSUME TypeInv, SerialInv, NEW c \in Calls, call[c].pc \in CheckPcs, Checked(c)
    PROVE  password = keysDrawn /\ keysDrawn # 0 /\ ~Locked /\ aesCounter = keysDrawn
<1>1. call[c].cred.mac # Null /\ call[c].cred.mac = call[c].cred.cipher
  BY NullAssumption DEF TypeInv, CallsOK, CallReady, Cipher, Checked, PasswordMatches
<1>2. password = keysDrawn /\ keysDrawn # 0
  BY <1>1 DEF SerialInv, HeldUnderKey, MacOfKey, Checked
<1> QED
  BY <1>2 DEF SerialInv, HeldUnderKey, Locked

LEMMA EraseSerial ==
    ASSUME OneCall, TypeInv, SelectionInv, SerialInv, NEW c \in Calls, ClearAllErases(c)
    PROVE  SerialInv'
<1> DEFINE e == ErasureOf(c)
<1>1. /\ call[c].pc = "clear.check" /\ call'[c].pc = "clear.erased"
      /\ call'[c].cred = call[c].cred /\ UNCHANGED <<session, keysDrawn, disk>>
      /\ vaults' = <<>> /\ signedUp' = FALSE /\ password' = 0
      /\ StorageOK /\ Issue(e)
  BY DEF TypeInv, CallsOK, CallType, ClearAllErases, At, Goto, Issue, ErasureOf
<1>2. Clear(writes) /\ ~Erasing
  BY <1>1, NoneAwaited DEF SerialInv, Awaited
<1>3. ~Locked /\ signedUp /\ store["aesCounterCipher"] # Null
  <2>1. "clear.check" \in CheckPcs /\ Checked(c)
    BY DEF CheckPcs, ClearAllErases
  <2>2. signedUp
    BY <1>1, TheCall DEF SerialInv, StepsOK
  <2> QED
    BY <1>1, <2>1, <2>2, CheckedIs DEF SerialInv, SignedUpOK
<1>4. /\ e \in Seq(WriteType) /\ Distinct(e) /\ DOMAIN e = 1 .. 4
      /\ e[1].key = "vaultMap" /\ e[1].val = <<>>
      /\ \A i \in 2 .. 4 : e[i].val = Null
      /\ e[2].key = "passwordCipher" /\ e[3].key = "userPasswordMac" /\ e[4].key = "aesCounterCipher"
  BY ErasureIs DEF Write
<1> HIDE DEF e
<1>5. Moves(e)
  BY <1>1 DEF Moves
<1>6. QueueOK'
  BY <1>1, <1>2, QueueErase DEF Issue, e
<1>7. \A k \in CryptoKeys : store'[k] = Null /\ Values(k)' \subseteq Values(k) \cup {Null}
  <2> TAKE k \in CryptoKeys
  <2>1. PICK i \in 2 .. 4 : e[i].key = k
    BY <1>4, TheKeys
  <2>2. i \in DOMAIN e /\ k \in StoreKeys
    BY <1>4, TheKeys
  <2>3. store'[k] = Null
    BY <1>1, <1>4, <1>5, <2>1, <2>2, MovesStorage
  <2>4. Values(k)' \subseteq Values(k) \cup Written(e, k)
    BY <1>1, <1>4, <1>5, <2>2, MovesStorage
  <2>5. Written(e, k) \subseteq {Null}
    BY <1>4, <2>2, TheKeys DEF Written
  <2> QED
    BY <2>3, <2>4, <2>5
<1>8. Values("vaultMap")' \subseteq Values("vaultMap") \cup {<<>>}
  <2>1. Values("vaultMap")' \subseteq Values("vaultMap") \cup Written(e, "vaultMap")
    BY <1>1, <1>4, <1>5, TheKeys, MovesStorage
  <2>2. Written(e, "vaultMap") \subseteq {<<>>}
    BY <1>4 DEF Written
  <2> QED
    BY <2>1, <2>2
<1>9. StoredUnderKey'
  BY <1>1, <1>7, <1>8, TheKeys DEF SerialInv, StoredUnderKey, OfKey, MacOfKey, CounterOfKey
<1>10. Erasing' /\ NoVaultsYet'
  BY <1>1, TheCall DEF Erasing, NoVaultsYet
<1>11. ErasingOK'
  <2>1. disk["aesCounterCipher"] = store["aesCounterCipher"]
    <3>1. \A i \in DOMAIN writes : writes[i].key # "aesCounterCipher"
      BY <1>2, TheKeys DEF Clear
    <3> QED
      BY <3>1, OnDisk, TheKeys DEF SelectionInv
  <2> QED
    BY <1>1, <1>3, <1>7, <2>1 DEF ErasingOK, Locked
<1>12. HeldUnderKey'
  <2>1. "clear.erased" \notin SignUpPcs \cup {"change.derive", "change.cipher", "change.mac"}
    BY DEF SignUpPcs
  <2>2. \A d \in Calls : call'[d].pc = "clear.erased" /\ call'[d].cred = call[d].cred
    BY <1>1, TheCall
  <2> QED
    BY <1>1, <2>1, <2>2 DEF SerialInv, HeldUnderKey, MacOfKey, CounterOfKey
<1>13. LockedInSession' /\ MacHasCipher(store)' /\ MacHasCipher(disk)' /\ SignedUpOK'
  BY <1>1, <1>7, <1>10, TheKeys DEF SerialInv, LockedInSession, MacHasCipher, SignedUpOK, HasCryptoState
<1>14. StepsOK'
  BY <1>1, StepsVacuous
<1> QED
  BY <1>6, <1>9, <1>10, <1>11, <1>12, <1>13, <1>14 DEF SerialInv
-----------------------------------------------------------------------------
(* The steps that change the key rings.                                      *)

LEMMA MapSerial ==
    ASSUME TypeInv, SelectionInv, SerialInv, NEW ws \in Seq(WriteType), Issue(ws),
           \A i \in DOMAIN ws : ws[i].key \notin CryptoKeys,
           \A vs \in Written(ws, "vaultMap") : OfKey(vs), keysDrawn' = keysDrawn
    PROVE  /\ StoredUnderKey' /\ MacHasCipher(store)' /\ MacHasCipher(disk)'
           /\ \A k \in CryptoKeys : store'[k] = store[k]
           /\ HasCryptoState(store') <=> HasCryptoState(store)
           /\ Credentials' = Credentials
<1>1. StorageOK /\ Moves(ws) /\ disk' = disk
  BY DEF TypeInv, Moves, Issue
<1>2. \A k \in CryptoKeys : store'[k] = store[k]
  BY <1>1, TheKeys, MovesStorage
<1>3. \A k \in StoreKeys : Values(k)' \subseteq Values(k) \cup Written(ws, k)
  BY <1>1, MovesStorage
<1>4. \A k \in CryptoKeys : Written(ws, k) = {}
  BY DEF Written
<1>5. StoredUnderKey'
  BY <1>3, <1>4, TheKeys DEF SerialInv, StoredUnderKey, OfKey, MacOfKey, CounterOfKey
<1> QED
  BY <1>1, <1>2, <1>5, TheKeys DEF SerialInv, MacHasCipher, HasCryptoState, Credentials

CredentialsKept == \A k \in CryptoKeys : store'[k] = store[k]

\* The writes of the maps, which nobody awaits.
LEMMA MapGroups ==
    ASSUME NEW vs \in Seq(Vaults), NEW id \in VaultIds \cup {0}, NEW ws,
           \/ ws = <<Write("vaultMap", vs, Null)>>
           \/ ws = <<Write("selectedVaultId", id, Null)>>
           \/ ws = <<Write("vaultMap", vs, Null), Write("selectedVaultId", id, Null)>>
    PROVE  /\ ws \in Seq(WriteType) /\ Clear(ws)
           /\ \A i \in DOMAIN ws : ws[i].key \notin CryptoKeys
           /\ Written(ws, "vaultMap") \subseteq {vs}
<1>1. ws \in Seq(WriteType)
  BY VaultsTyped
<1>2. CASE ws = <<Write("vaultMap", vs, Null)>>
  BY <1>1, <1>2, TheKeys DEF Clear, Write, Written
<1>3. CASE ws = <<Write("selectedVaultId", id, Null)>>
  BY <1>1, <1>3, TheKeys DEF Clear, Write, Written
<1>4. CASE ws = <<Write("vaultMap", vs, Null), Write("selectedVaultId", id, Null)>>
  <2>1. DOMAIN ws = 1 .. 2 /\ ws[1].by = Null /\ ws[2].by = Null
        /\ ws[1].key = "vaultMap" /\ ws[2].key = "selectedVaultId" /\ ws[1].val = vs
    BY <1>4 DEF Write
  <2> QED
    BY <1>1, <2>1, TheKeys DEF Clear, Written
<1> QED
  BY <1>2, <1>3, <1>4

\* A creation or a deletion leaves the vaults under the last key.
LEMMA VaultsOfKey ==
    ASSUME NEW vs \in Seq(Vaults), OfKey(vs)
    PROVE  /\ \A id : HasVault(vs, id) => OfKey(Without(vs, id))
           /\ \A v \in Vaults : v.key = keysDrawn /\ v.counter = keysDrawn => OfKey(Append(vs, v))
<1>1. ASSUME NEW id, HasVault(vs, id) PROVE OfKey(Without(vs, id))
  <2> DEFINE w == Without(vs, id)
  <2>1. PICK i \in DOMAIN vs : \A j \in DOMAIN w : w[j] = IF j < i THEN vs[j] ELSE vs[j + 1]
    BY <1>1, WithoutIs
  <2>2. DOMAIN vs = 1 .. Len(vs) /\ DOMAIN w = 1 .. Len(vs) - 1 /\ Len(vs) \in Nat \ {0}
    BY <1>1, WithoutIs, LenProperties
  <2> HIDE DEF w
  <2>3. \A j \in DOMAIN w : \E k \in DOMAIN vs : w[j] = vs[k]
    <3> TAKE j \in DOMAIN w
    <3>1. j \in DOMAIN vs /\ j + 1 \in DOMAIN vs
      BY <2>2
    <3> QED
      BY <2>1, <3>1
  <2> QED
    BY <2>3 DEF OfKey, w
<1>2. ASSUME NEW v \in Vaults, v.key = keysDrawn, v.counter = keysDrawn PROVE OfKey(Append(vs, v))
  <2> DEFINE w == Append(vs, v)
  <2>1. /\ Len(vs) \in Nat /\ DOMAIN vs = 1 .. Len(vs) /\ DOMAIN w = 1 .. Len(vs) + 1
        /\ \A i \in 1 .. Len(vs) : w[i] = vs[i]
        /\ w[Len(vs) + 1] = v
    BY AppendProperties, LenProperties
  <2> HIDE DEF w
  <2>2. \A i \in DOMAIN w : i \in DOMAIN vs \/ i = Len(vs) + 1
    BY <2>1
  <2> QED
    BY <1>2, <2>1, <2>2 DEF OfKey, w
<1> QED
  BY <1>1, <1>2

LEMMA CreateSerial ==
    ASSUME OneCall, TypeInv, TypeInv', SelectionInv, SerialInv, NEW c \in Calls, CreateAdds(c)
    PROVE  SerialInv' /\ CredentialsKept
<1> DEFINE ws == <<Write("vaultMap", vaults', Null), Write("selectedVaultId", selected', Null)>>
           v == NewVault(vaultsMade + 1)
<1>1. /\ call[c].pc = "create.vault" /\ call'[c] = NoCall /\ NoCall.pc = "idle"
      /\ UNCHANGED <<signedUp, password, aesCounter, session, keysDrawn>>
      /\ ~Locked /\ Issue(ws) /\ vaults' = Append(vaults, v)
      /\ vaults \in Seq(Vaults) /\ vaults' \in Seq(Vaults) /\ selected' \in VaultIds \cup {0}
      /\ StorageOK /\ vaultsMade + 1 \in VaultIds
  BY DEF TypeInv, FieldsOK, CallsOK, CreateAdds, At, Finish, NoCall, VaultIds
<1>2. Clear(writes) /\ ~Erasing
  BY <1>1, NoneAwaited DEF SerialInv, Awaited
<1>3. password = keysDrawn /\ aesCounter = keysDrawn /\ v \in Vaults
  BY <1>1 DEF SerialInv, HeldUnderKey, Locked, NewVault, Vaults, TypeInv, FieldsOK
<1>4. signedUp /\ HasCryptoState(store) /\ store["aesCounterCipher"] # Null
  BY <1>1, TheCall DEF SerialInv, StepsOK, SignedUpOK
<1>5. OfKey(vaults')
  <2>1. OfKey(vaults)
    BY DEF SerialInv, StoredUnderKey, Values, SelectionInv, StoreIsMemory
  <2>2. v.key = keysDrawn /\ v.counter = keysDrawn
    BY <1>3 DEF NewVault
  <2> HIDE DEF v
  <2> QED
    BY <1>1, <1>3, <2>1, <2>2, VaultsOfKey
<1>6. /\ ws \in Seq(WriteType) /\ Clear(ws)
      /\ \A i \in DOMAIN ws : ws[i].key \notin CryptoKeys
      /\ Written(ws, "vaultMap") \subseteq {vaults'}
  <2> DEFINE vs == vaults'
             id == selected'
  <2>1. vs \in Seq(Vaults) /\ id \in VaultIds \cup {0}
        /\ ws = <<Write("vaultMap", vs, Null), Write("selectedVaultId", id, Null)>>
    BY <1>1
  <2> HIDE DEF vs, id, ws
  <2>2. /\ ws \in Seq(WriteType) /\ Clear(ws)
        /\ \A i \in DOMAIN ws : ws[i].key \notin CryptoKeys
        /\ Written(ws, "vaultMap") \subseteq {vs}
    BY <2>1, MapGroups
  <2> QED
    BY <2>2 DEF vs
<1> HIDE DEF ws, v
<1>7. /\ StoredUnderKey' /\ MacHasCipher(store)' /\ MacHasCipher(disk)'
      /\ \A k \in CryptoKeys : store'[k] = store[k]
      /\ HasCryptoState(store')
  BY <1>1, <1>4, <1>5, <1>6, MapSerial
<1>8. QueueOK'
  <2>1. Clear(writes')
    BY <1>1, <1>2, <1>6, ClearConcat DEF Issue, StorageOK
  <2> QED
    BY <2>1, QueueClear
<1>9. ErasingOK' /\ ~Erasing' /\ ~Doing(SignUpPcs)'
  BY <1>1, TheCall DEF Erasing, ErasingOK, SignUpPcs
<1>10. HeldUnderKey'
  <2>1. session' = session
    BY <1>1
  <2> QED
    BY <1>1, <2>1, NoCallSerial DEF SerialInv, TypeInv, CallsOK
<1>11. StepsOK'
  BY <1>1, StepsVacuous
<1>12. LockedInSession' /\ SignedUpOK' /\ NoVaultsYet'
  BY <1>1, <1>2, <1>4, <1>7, <1>9, TheKeys
     DEF SerialInv, LockedInSession, SignedUpOK, NoVaultsYet, Locked
<1> QED
  BY <1>7, <1>8, <1>9, <1>10, <1>11, <1>12 DEF SerialInv, CredentialsKept

LEMMA DeleteSerial ==
    ASSUME OneCall, TypeInv, TypeInv', SelectionInv, SerialInv, NEW c \in Calls, DeleteRemoves(c)
    PROVE  SerialInv' /\ CredentialsKept
<1> DEFINE ws == IF selected' = selected THEN <<Write("vaultMap", vaults', Null)>>
                 ELSE <<Write("vaultMap", vaults', Null), Write("selectedVaultId", selected', Null)>>
           id == call[c].id
<1>1. /\ call[c].pc = "delete.check"
      /\ UNCHANGED <<signedUp, password, aesCounter, session, keysDrawn>>
      /\ HasVault(vaults, id) /\ vaults' = Without(vaults, id)
      /\ vaults \in Seq(Vaults) /\ vaults' \in Seq(Vaults) /\ selected' \in VaultIds \cup {0}
      /\ StorageOK /\ call[c] \in CallType
  BY DEF TypeInv, FieldsOK, CallsOK, DeleteRemoves, At
<1>2. Clear(writes) /\ ~Erasing
  BY <1>1, NoneAwaited DEF SerialInv, Awaited
<1>3. ~Locked
  <2>1. "delete.check" \in CheckPcs
    BY DEF CheckPcs
  <2> QED
    BY <1>1, <2>1, CheckedIs DEF DeleteRemoves
<1>4. store["aesCounterCipher"] # Null
  <2>1. vaults # <<>>
    BY <1>1 DEF HasVault, Range
  <2> QED
    BY <1>2, <2>1 DEF SerialInv, NoVaultsYet, SelectionInv, StoreIsMemory, Values
<1>5. OfKey(vaults')
  <2>1. OfKey(vaults)
    BY DEF SerialInv, StoredUnderKey, Values, SelectionInv, StoreIsMemory
  <2> QED
    BY <1>1, <2>1, VaultsOfKey
<1>6. /\ ws \in Seq(WriteType) /\ Clear(ws)
      /\ \A i \in DOMAIN ws : ws[i].key \notin CryptoKeys
      /\ Written(ws, "vaultMap") \subseteq {vaults'}
  BY <1>1, MapGroups
<1>i. Issue(ws)
  BY <1>1, VaultsTyped DEF DeleteRemoves
<1> HIDE DEF ws, id
<1>7. /\ StoredUnderKey' /\ MacHasCipher(store)' /\ MacHasCipher(disk)'
      /\ \A k \in CryptoKeys : store'[k] = store[k]
      /\ HasCryptoState(store') <=> HasCryptoState(store)
      /\ Credentials' = Credentials
  BY <1>1, <1>i, <1>5, <1>6, MapSerial
<1>8. QueueOK'
  <2>1. Clear(writes')
    BY <1>1, <1>i, <1>2, <1>6, ClearConcat DEF Issue, StorageOK
  <2> QED
    BY <2>1, QueueClear
<1>9. /\ call'[c].pc \in {"idle", "clear.check"}
      /\ call'[c].cred \in {NoCredentials, Credentials}
      /\ call'[c].pc = "clear.check" => vaults' = <<>> /\ signedUp
  <2>1. CASE vaults' = <<>> /\ CanCheck
    <3>1. call' = [call EXCEPT ![c] = WithCred(call[c], "clear.check", Credentials)]
      BY <2>1 DEF DeleteRemoves, WithCred, TypeInv, CallsOK
    <3>2. Credentials \in CredType /\ "clear.check" \in CallPcs /\ 0 \in Keys
      BY CredentialsTyped, MaxKeysAssumption DEF TypeInv, StorageOK, CallPcs, Keys
    <3>3. WithCred(call[c], "clear.check", Credentials).pc = "clear.check"
          /\ WithCred(call[c], "clear.check", Credentials).cred = Credentials
      BY <1>1, <3>2, CallWith
    <3>4. call'[c] = WithCred(call[c], "clear.check", Credentials)
      BY <3>1 DEF TypeInv, CallsOK
    <3> QED
      BY <2>1, <3>3, <3>4 DEF CanCheck
  <2>2. CASE ~(vaults' = <<>> /\ CanCheck)
    BY <2>2 DEF DeleteRemoves, Finish, TypeInv, CallsOK, NoCall
  <2> QED
    BY <2>1, <2>2
<1>10. ErasingOK' /\ ~Erasing' /\ ~Doing(SignUpPcs)' /\ ~Doing({"signUp.mac", "signUp.counter"})
  BY <1>1, <1>9, TheCall DEF Erasing, ErasingOK, SignUpPcs
<1>11. HeldUnderKey'
  <2>1. MacOfKey(call'[c].cred.mac) /\ CounterOfKey(call'[c].cred.counter)
    BY <1>9, CredentialsOfKey DEF SerialInv, NoCredentials, MacOfKey, CounterOfKey
  <2>2. call'[c].pc \notin SignUpPcs \cup {"change.derive", "change.cipher", "change.mac"}
    BY <1>9 DEF SignUpPcs
  <2> QED
    BY <1>1, <2>1, <2>2, TheCall DEF SerialInv, HeldUnderKey, MacOfKey, CounterOfKey
<1>12. StepsOK'
  BY <1>1, <1>9, TheCall DEF StepsOK, SignUpPcs, ChangePcs, At
<1>13. SignedUpOK'
  BY <1>1, <1>4, <1>7, <1>10, TheKeys DEF SerialInv, SignedUpOK, Locked
<1>14. LockedInSession' /\ NoVaultsYet'
  BY <1>1, <1>2, <1>4, <1>7, <1>10, TheKeys DEF SerialInv, LockedInSession, NoVaultsYet, Locked
<1> QED
  BY <1>7, <1>8, <1>10, <1>11, <1>12, <1>13, <1>14 DEF SerialInv, CredentialsKept

LEMMA SelectSerial ==
    ASSUME TypeInv, SelectionInv, SerialInv, NEW id \in VaultIds, SelectKeyRing(id)
    PROVE  SerialInv' /\ CredentialsKept
<1> USE DEF memory
<1>1. UNCHANGED <<signedUp, password, aesCounter, vaults, session, call, keysDrawn>> /\ ~Locked
  BY DEF SelectKeyRing
<1>2. ~Erasing /\ StorageOK
  BY <1>1 DEF SerialInv, ErasingOK, TypeInv
<1>3. /\ \A pcs : Doing(pcs)' <=> Doing(pcs)
      /\ Erasing' <=> Erasing
  BY <1>1 DEF Doing, Erasing
<1>4. ErasingOK' /\ HeldUnderKey' /\ LockedInSession' /\ ~Locked'
  <2>1. ErasingOK' /\ ~Locked'
    BY <1>1, <1>2, <1>3 DEF ErasingOK, Locked
  <2>2. HeldUnderKey'
    BY <1>1 DEF SerialInv, HeldUnderKey, MacOfKey, CounterOfKey
  <2>3. LockedInSession'
    BY <1>1, <1>3 DEF SerialInv, LockedInSession, Locked
  <2> QED
    BY <2>1, <2>2, <2>3
<1>5. /\ QueueOK' /\ StoredUnderKey' /\ MacHasCipher(store)' /\ MacHasCipher(disk)'
      /\ \A k \in CryptoKeys : store'[k] = store[k]
      /\ HasCryptoState(store') <=> HasCryptoState(store)
      /\ Credentials' = Credentials
      /\ Values("vaultMap")' \subseteq Values("vaultMap")
  <2>1. CASE id = selected
    <3>1. UNCHANGED <<store, disk, writes>>
      BY <2>1 DEF SelectKeyRing, storage
    <3>2. \A k : Values(k)' = Values(k)
      BY <3>1 DEF Values
    <3>3. QueueOK'
      BY <1>1, <1>3, <3>1 DEF SerialInv, QueueOK
    <3>4. StoredUnderKey'
      BY <1>1, <3>2 DEF SerialInv, StoredUnderKey, OfKey, MacOfKey, CounterOfKey
    <3> QED
      BY <3>1, <3>2, <3>3, <3>4 DEF SerialInv, MacHasCipher, HasCryptoState, Credentials
  <2>2. CASE id # selected
    <3> DEFINE x == Write("selectedVaultId", id, Null)
    <3>1. Issue(<<x>>) /\ x \in WriteType /\ x.by = Null /\ x.key = "selectedVaultId"
      BY <2>2, WritesTyped DEF SelectKeyRing, Write
    <3> HIDE DEF x
    <3>2. QueueOK'
      BY <1>1, <1>2, <3>1, QueueSelect, TheKeys DEF SerialInv, Issue
    <3>3. /\ <<x>> \in Seq(WriteType) /\ Written(<<x>>, "vaultMap") = {}
          /\ \A i \in DOMAIN <<x>> : <<x>>[i].key \notin CryptoKeys
      <4>1. <<x>> \in Seq(WriteType) /\ DOMAIN <<x>> = {1} /\ <<x>>[1] = x
            /\ Written(<<x>>, "vaultMap") = IF x.key = "vaultMap" THEN {x.val} ELSE {}
        BY <3>1, OneWrite
      <4> QED
        BY <3>1, <4>1, TheKeys
    <3>4. Values("vaultMap")' \subseteq Values("vaultMap")
      BY <1>2, <3>1, <3>3, IssueValues, TheKeys
    <3> QED
      BY <1>1, <3>1, <3>2, <3>3, <3>4, MapSerial
  <2> QED
    BY <2>1, <2>2
<1>6. StepsOK'
  BY <1>1, <1>3, <1>4, <1>5, TheKeys DEF SerialInv, StepsOK, At
<1>7. SignedUpOK' /\ NoVaultsYet'
  BY <1>1, <1>3, <1>4, <1>5, TheKeys DEF SerialInv, SignedUpOK, NoVaultsYet
<1> QED
  BY <1>4, <1>5, <1>6, <1>7 DEF SerialInv, CredentialsKept
-----------------------------------------------------------------------------
(* A write reaches the disk, and the program ends.                           *)

LEMMA FlushSerial ==
    ASSUME TypeInv, SelectionInv, SerialInv, FlushWrite
    PROVE  SerialInv'
<1> USE DEF memory
<1>1. UNCHANGED <<signedUp, password, aesCounter, vaults, session, call, keysDrawn>> /\ StorageOK
  BY DEF FlushWrite, TypeInv
<1>2. /\ \A pcs : Doing(pcs)' <=> Doing(pcs)
      /\ Erasing' <=> Erasing
  BY <1>1 DEF Doing, Erasing
<1>3. QueueOK'
  BY <1>1, QueueFlush DEF SerialInv
<1>4. \A k \in CryptoKeys :
         /\ store'[k] = store[k]
         /\ disk'[k] = disk[k] \/ (Erasing /\ disk'[k] = Null /\ k # "aesCounterCipher")
         /\ Values(k)' \subseteq Values(k)
  BY <1>1, FlushedIs DEF SerialInv
<1>5. Values("vaultMap")' \subseteq Values("vaultMap")
  <2>1. Values("vaultMap")' \subseteq Values("vaultMap") \cup Written(<<>>, "vaultMap")
    BY <1>1, GroupsTyped, SettleValues, TheKeys DEF FlushWrite
  <2>2. Written(<<>>, "vaultMap") = {}
    BY DEF Written
  <2> QED
    BY <2>1, <2>2
<1>6. StoredUnderKey' /\ HeldUnderKey'
  <2>1. StoredUnderKey'
    BY <1>1, <1>4, <1>5, TheKeys DEF SerialInv, StoredUnderKey, OfKey, MacOfKey, CounterOfKey
  <2>2. HeldUnderKey'
    BY <1>1 DEF SerialInv, HeldUnderKey, MacOfKey, CounterOfKey
  <2> QED
    BY <2>1, <2>2
<1>7. LockedInSession'
  BY <1>1, <1>2 DEF SerialInv, LockedInSession, Locked
<1>8. disk'["aesCounterCipher"] = disk["aesCounterCipher"]
  BY <1>4, TheKeys
<1>9. MacHasCipher(store)' /\ MacHasCipher(disk)'
  <2>1. MacHasCipher(store)'
    BY <1>4, TheKeys DEF SerialInv, MacHasCipher
  <2>2. CASE Erasing
    <3>1. disk'["aesCounterCipher"] # Null
      BY <1>8, <2>2 DEF SerialInv, ErasingOK
    <3> QED
      BY <2>1, <3>1 DEF MacHasCipher
  <2>3. CASE ~Erasing
    BY <1>4, <2>1, <2>3, TheKeys DEF SerialInv, MacHasCipher
  <2> QED
    BY <2>1, <2>2, <2>3
<1>10. ErasingOK'
  BY <1>1, <1>2, <1>4, <1>8 DEF SerialInv, ErasingOK, Locked
<1>11. StepsOK'
  BY <1>1, <1>2, <1>4, TheKeys DEF SerialInv, StepsOK, At, Locked, Credentials
<1>12. SignedUpOK' /\ NoVaultsYet'
  BY <1>1, <1>2, <1>4, <1>5, TheKeys DEF SerialInv, SignedUpOK, NoVaultsYet, HasCryptoState, Locked
<1> QED
  BY <1>3, <1>6, <1>7, <1>9, <1>10, <1>11, <1>12 DEF SerialInv

\* The services start over what is stored, or on the disk, under the last key.
LEMMA RestartSerial ==
    ASSUME TypeInv, SerialInv, NEW s \in {store, disk},
           NEW ses \in [password : Keys, aesCounter : Counters], Restart(s, ses),
           ses.password # 0 /\ ses.aesCounter # 0 =>
              /\ ses.password = keysDrawn /\ ses.aesCounter = keysDrawn
              /\ HasCryptoState(s) => s["aesCounterCipher"] # Null,
           ~ServiceWorker => ses.password = 0,
           s["aesCounterCipher"] = Null => s["vaultMap"] = <<>>
    PROVE  SerialInv'
<1> DEFINE restored == ServiceWorker /\ ses.password # 0 /\ ses.aesCounter # 0
<1>1. /\ s["vaultMap"] \in Values("vaultMap")
      /\ s["userPasswordMac"] \in Values("userPasswordMac")
      /\ s["aesCounterCipher"] \in Values("aesCounterCipher")
      /\ DOMAIN s = StoreKeys /\ MacHasCipher(s)
  BY DEF Values, TypeInv, StorageOK, StoreOK, SerialInv
<1>2. /\ signedUp' = HasCryptoState(s) /\ vaults' = s["vaultMap"]
      /\ password' = (IF restored THEN ses.password ELSE 0)
      /\ aesCounter' = (IF restored THEN ses.aesCounter ELSE 0)
      /\ session' = ses /\ call' = [c \in Calls |-> NoCall] /\ keysDrawn' = keysDrawn
      /\ store' = [s EXCEPT !["selectedVaultId"] = selected'] /\ disk' = store' /\ writes' = <<>>
  BY DEF Restart, StartOver
<1> HIDE DEF restored
<1>3. /\ store'["vaultMap"] = s["vaultMap"] /\ store'["passwordCipher"] = s["passwordCipher"]
      /\ store'["userPasswordMac"] = s["userPasswordMac"]
      /\ store'["aesCounterCipher"] = s["aesCounterCipher"]
      /\ HasCryptoState(store') <=> HasCryptoState(s)
  BY <1>1, <1>2, TheKeys DEF HasCryptoState
<1>4. \A k : Values(k)' = {store'[k]}
  BY <1>2 DEF Values, Written
<1>5. /\ \A c \in Calls : call'[c] = NoCall
      /\ \A pcs : "idle" \notin pcs => ~Doing(pcs)'
      /\ ~Erasing' /\ ~Doing(SignUpPcs)'
  <2>1. \A c \in Calls : call'[c] = NoCall /\ NoCall.pc = "idle"
    BY <1>2 DEF NoCall
  <2>2. \A pcs : "idle" \notin pcs => ~Doing(pcs)'
    BY <2>1 DEF Doing
  <2> QED
    BY <2>1, <2>2 DEF Erasing, SignUpPcs
<1>6. QueueOK' /\ ErasingOK'
  BY <1>2, <1>5 DEF QueueOK, ErasingOK
<1>7. StoredUnderKey' /\ MacHasCipher(store)' /\ MacHasCipher(disk)'
  BY <1>1, <1>2, <1>3, <1>4 DEF SerialInv, StoredUnderKey, OfKey, MacOfKey, CounterOfKey, MacHasCipher
<1>8. HeldUnderKey'
  <2>1. /\ MacOfKey(NoCall.cred.mac)' /\ CounterOfKey(NoCall.cred.counter)'
        /\ NoCall.pc \notin SignUpPcs \cup {"change.derive", "change.cipher", "change.mac"}
    BY DEF NoCall, NoCredentials, MacOfKey, CounterOfKey, SignUpPcs
  <2>2. password' # 0 => /\ password' = ses.password /\ aesCounter' = ses.aesCounter
                         /\ ses.password # 0 /\ ses.aesCounter # 0
    BY <1>2 DEF restored
  <2> QED
    BY <1>2, <1>5, <2>1, <2>2 DEF HeldUnderKey
<1>9. LockedInSession'
  BY <1>2, ServiceWorkerAssumption DEF LockedInSession, Locked, restored
<1>10. StepsOK'
  <2>1. \A c \in Calls : ~At(c, "unlock.derive")'
    BY <1>5 DEF At, NoCall
  <2> QED
    BY <1>5, <2>1 DEF StepsOK, ChangePcs
<1>11. SignedUpOK' /\ NoVaultsYet'
  <2>1. ~Locked' => restored
    BY <1>2 DEF Locked
  <2>2. SignedUpOK'
    BY <1>2, <1>3, <2>1 DEF SignedUpOK, restored
  <2>3. NoVaultsYet'
    BY <1>3, <1>4, <1>5 DEF NoVaultsYet
  <2> QED
    BY <2>2, <2>3
<1> QED
  BY <1>6, <1>7, <1>8, <1>9, <1>10, <1>11 DEF SerialInv

LEMMA EndSerial ==
    ASSUME OneCall, TypeInv, SelectionInv, SerialInv, Kill \/ Exit
    PROVE  SerialInv'
<1>1. CASE Kill
  <2>1. session.password # 0 /\ session.aesCounter # 0 =>
           /\ session.password = keysDrawn /\ session.aesCounter = keysDrawn
           /\ HasCryptoState(store) => store["aesCounterCipher"] # Null
    <3>1. ASSUME session.password # 0, session.aesCounter # 0, HasCryptoState(store)
          PROVE  store["aesCounterCipher"] # Null
      <4>1. ~Erasing
        BY <3>1, TheKeys DEF SerialInv, ErasingOK, HasCryptoState
      <4>2. ~Locked
        BY <3>1, <4>1 DEF SerialInv, LockedInSession
      <4>3. ~Doing({"signUp.mac", "signUp.counter"})
        BY <4>2 DEF SerialInv, StepsOK, Doing, SignUpPcs
      <4> QED
        BY <3>1, <4>2, <4>3 DEF SerialInv, SignedUpOK
    <3> QED
      BY <3>1 DEF SerialInv, HeldUnderKey
  <2>2. store["aesCounterCipher"] = Null => store["vaultMap"] = <<>>
    BY DEF SerialInv, NoVaultsYet, ErasingOK, SelectionInv, StoreIsMemory, Values
  <2>3. session \in [password : Keys, aesCounter : Counters] /\ (~ServiceWorker => session.password = 0)
    BY DEF TypeInv, FieldsOK, SerialInv, LockedInSession
  <2> QED
    BY <1>1, <2>1, <2>2, <2>3, RestartSerial DEF Kill
<1>2. CASE Exit
  <2> DEFINE none == [password |-> 0, aesCounter |-> 0]
  <2>1. none \in [password : Keys, aesCounter : Counters] /\ none.password = 0
    BY MaxKeysAssumption DEF Keys, Counters
  <2>2. ASSUME disk["aesCounterCipher"] = Null PROVE disk["vaultMap"] = <<>>
    <3>1. ~Erasing
      BY <2>2 DEF SerialInv, ErasingOK
    <3>2. store["aesCounterCipher"] = Null \/ Doing(SignUpPcs)
      <4>1. ASSUME store["aesCounterCipher"] # Null PROVE Doing(SignUpPcs)
        <5>1. PICK i \in DOMAIN writes : writes[i].key = "aesCounterCipher"
          BY <2>2, <4>1, OnDisk, TheKeys DEF SelectionInv
        <5>2. writes[i].by # Null /\ Awaited(call[writes[i].by].pc) = "aesCounterCipher"
          BY <5>1 DEF SerialInv, QueueOK
        <5>3. writes[i].by \in Calls
          BY <5>2, WriteAt DEF TypeInv
        <5>4. call[writes[i].by].pc \in {"signUp.counter", "clear.erased"}
          BY <5>2 DEF Awaited
        <5> QED
          BY <3>1, <5>3, <5>4 DEF Doing, Erasing, SignUpPcs
      <4> QED
        BY <4>1
    <3> QED
      BY <3>1, <3>2 DEF SerialInv, NoVaultsYet, Values
  <2> HIDE DEF none
  <2>3. Restart(disk, none)
    BY <1>2 DEF Exit, none
  <2> QED
    BY <2>1, <2>2, <2>3, RestartSerial
<1> QED
  BY <1>1, <1>2
-----------------------------------------------------------------------------
(* Every step.                                                               *)

LEMMA VaultStepSerial ==
    ASSUME OneCall, TypeInv, TypeInv', SelectionInv, SelectionInv', SerialInv, NEW c \in Calls,
           VaultStep(c)
    PROVE  SerialInv'
<1> USE DEF memory
<1>0. /\ call[c] \in CallType /\ call'[c] \in CallType /\ Credentials \in CredType
      /\ NoCall \in CallType /\ NoCall.cred = NoCredentials /\ NoCall.pc = "idle"
  BY NoCallTyped, CredentialsTyped DEF TypeInv, CallsOK, StorageOK, NoCall
<1>1. ASSUME NEW user \in UserPasswords, Unlock(c, user) PROVE SerialInv'
  <2> DEFINE r == [[NoCall EXCEPT !.op = "unlock", !.user = user]
                      EXCEPT !.pc = "unlock.derive", !.cred = Credentials]
  <2>1. Start(c, r) /\ call'[c] = r
    BY <1>1 DEF Unlock, UnlockFrom, Start, TypeInv, CallsOK
  <2>2. r.pc = "unlock.derive" /\ r.cred = Credentials
    BY DEF NoCall
  <2>3. r \in CallType
    BY <1>0, <2>1
  <2> HIDE DEF r
  <2>4. call[c].pc = "idle" /\ signedUp
    <3>1. call[c].pc = "idle" /\ HasCryptoState(store)
      BY <1>1 DEF Unlock, At, CanUnlock
    <3> QED
      BY <3>1, TheCall DEF SerialInv, SignedUpOK
  <2>5. UNCHANGED <<memory, session, storage, keysDrawn>>
    BY <1>1 DEF Unlock
  <2> QED
    BY <2>1, <2>2, <2>3, <2>4, <2>5, NoCallHolds, StartSerial
<1>2. CASE UnlockAccepted(c)
  BY <1>2, AcceptSerial
<1>3. CASE UnlockRejected(c)
  <2>1. Outside("unlock.derive")
    BY DEF Outside, SignUpPcs, Awaited
  <2> QED
    BY <1>3, <2>1, FinishSerial DEF UnlockRejected, At
<1>4. CASE SignUpWritesCipher(c) \/ SignUpWritesMac(c) \/ SignUpWritesCounter(c)
  BY <1>4, SignUpSerial
<1>5. CASE SignUpUnlocks(c) \/ ChangeReturns(c) \/ ClearAllErased(c)
  BY <1>5, SettledSerial
<1>6. ASSUME NEW prev \in UserPasswords, NEW new \in UserPasswords, ChangePassword(c, prev, new)
      PROVE  SerialInv'
  <2> DEFINE r == [[NoCall EXCEPT !.op = "change", !.pc = "change.check", !.user = prev, !.newUser = new]
                      EXCEPT !.cred = Credentials]
  <2>1. Start(c, r) /\ call'[c] = r /\ signedUp
    BY <1>6 DEF ChangePassword, CheckFrom, CanCheck, Start, TypeInv, CallsOK
  <2>2. r.pc = "change.check" /\ r.cred = Credentials
    BY DEF NoCall
  <2>3. r \in CallType
    BY <1>0, <2>1
  <2> HIDE DEF r
  <2>4. call[c].pc = "idle" /\ UNCHANGED <<memory, session, storage, keysDrawn>>
    BY <1>6 DEF ChangePassword, At
  <2> QED
    BY <2>1, <2>2, <2>3, <2>4, NoCallHolds, StartSerial
<1>7. CASE ChangeEncrypts(c)
  <2> DEFINE r == call'[c]
  <2>1. call[c].pc = "change.check" /\ UNCHANGED <<memory, session, storage, keysDrawn>>
    BY <1>7 DEF ChangeEncrypts, At
  <2>2. password = keysDrawn /\ keysDrawn # 0 /\ password \in Keys
    <3>1. "change.check" \in CheckPcs
      BY DEF CheckPcs
    <3> QED
      BY <1>7, <2>1, <3>1, CheckedIs DEF ChangeEncrypts, TypeInv, FieldsOK
  <2>3. Start(c, r) /\ r.pc = "change.derive" /\ r.key = keysDrawn /\ r.cred = call[c].cred
    <3>1. call' = [call EXCEPT ![c].pc = "change.derive", ![c].key = password]
      BY <1>7 DEF ChangeEncrypts
    <3>2. r.pc = "change.derive" /\ r.key = password /\ r.cred = call[c].cred
      BY <1>0, <3>1 DEF TypeInv, CallsOK, CallType
    <3>3. Start(c, r)
      BY <3>1 DEF Start, TypeInv, CallsOK
    <3> QED
      BY <2>2, <3>2, <3>3
  <2>4. signedUp /\ Outside("change.check")
    BY <2>1, TheCall DEF SerialInv, StepsOK, ChangePcs, Outside, SignUpPcs, Awaited
  <2>5. r \in CallType
    BY <1>0
  <2> HIDE DEF r
  <2> QED
    BY <2>1, <2>2, <2>3, <2>4, <2>5, StartSerial
<1>8. CASE ChangeWritesCipher(c) \/ ChangeWritesMac(c)
  BY <1>8, ChangeSerial
<1>9. ASSUME NEW pc \in CheckPcs, CheckRejected(c, pc) PROVE SerialInv'
  <2>1. Outside(pc) /\ call[c].pc = pc
    BY <1>9 DEF Outside, SignUpPcs, Awaited, CheckPcs, CheckRejected, At
  <2> QED
    BY <1>9, <2>1, FinishSerial DEF CheckRejected
<1>10. CASE ClearAllErases(c)
  BY <1>10, EraseSerial
<1>11. CASE ClearAllReturns(c)
  <2>1. Outside("clear.session") /\ call[c].pc = "clear.session"
    BY <1>11 DEF Outside, SignUpPcs, Awaited, ClearAllReturns, At
  <2> QED
    BY <1>11, <2>1, FinishSerial DEF ClearAllReturns
<1> QED
  <2>1. "change.check" \in CheckPcs /\ "delete.check" \in CheckPcs /\ "clear.check" \in CheckPcs
    BY DEF CheckPcs
  <2> QED
    BY <1>1, <1>2, <1>3, <1>4, <1>5, <1>6, <1>7, <1>8, <1>9, <1>10, <1>11, <2>1 DEF VaultStep

LEMMA KeyRingStepSerial ==
    ASSUME OneCall, TypeInv, TypeInv', SelectionInv, SerialInv, NEW c \in Calls, KeyRingStep(c)
    PROVE  SerialInv'
<1> USE DEF memory
<1>0. /\ call[c] \in CallType /\ call'[c] \in CallType /\ Credentials \in CredType
      /\ NoCall.cred = NoCredentials /\ NoCall.pc = "idle"
  BY CredentialsTyped DEF TypeInv, CallsOK, StorageOK, NoCall
<1>1. ASSUME NEW user \in UserPasswords, Create(c, user) PROVE SerialInv'
  <2>1. CASE ~signedUp
    BY <1>1, <2>1, SignUpBegins
  <2>2. CASE signedUp
    <3> DEFINE r == [NoCall EXCEPT !.op = "create", !.pc = "create.vault"]
    <3>1. Start(c, r) /\ call'[c] = r
      BY <1>1, <2>2 DEF Create, Start, TypeInv, CallsOK
    <3>2. r.pc = "create.vault" /\ r.cred = NoCredentials
      BY DEF NoCall
    <3>3. r \in CallType
      BY <1>0, <3>1
    <3> HIDE DEF r
    <3>4. call[c].pc = "idle" /\ UNCHANGED <<memory, session, storage, keysDrawn>>
      BY <1>1, <2>2 DEF Create, At
    <3> QED
      BY <2>2, <3>1, <3>2, <3>3, <3>4, NoCallHolds, StartSerial
  <2> QED
    BY <2>1, <2>2
<1>2. CASE UnlockReturns(c)
  <2>1. /\ call[c].pc = "unlock.session" /\ UNCHANGED <<memory, session, storage, keysDrawn>>
        /\ Outside("unlock.session") /\ signedUp
    BY <1>2, TheCall DEF UnlockReturns, At, Outside, SignUpPcs, Awaited, SerialInv, StepsOK
  <2>2. CASE call[c].op = "create"
    <3> DEFINE r == call'[c]
    <3>1. Goto(c, "create.vault")
      BY <1>2, <2>2 DEF UnlockReturns
    <3>2. Start(c, r) /\ r.pc = "create.vault" /\ r.cred = call[c].cred
      BY <1>0, <3>1 DEF Goto, Start, TypeInv, CallsOK, CallType
    <3>3. r \in CallType
      BY <1>0
    <3> HIDE DEF r
    <3> QED
      BY <2>1, <3>2, <3>3, StartSerial
  <2>3. CASE call[c].op # "create"
    BY <1>2, <2>1, <2>3, FinishSerial DEF UnlockReturns
  <2> QED
    BY <2>2, <2>3
<1>3. CASE CreateAdds(c)
  BY <1>3, CreateSerial
<1>4. CASE CreateRejected(c) \/ DeleteRejected(c)
  <2>1. call[c].pc \in {"create.vault", "delete.check"} /\ Outside("create.vault") /\ Outside("delete.check")
    BY <1>4 DEF CreateRejected, DeleteRejected, At, Outside, SignUpPcs, Awaited
  <2> QED
    BY <1>4, <2>1, FinishSerial DEF CreateRejected, DeleteRejected
<1>5. ASSUME NEW id \in VaultIds, NEW user \in UserPasswords, DeleteKeyRing(c, id, user)
      PROVE  SerialInv'
  <2> DEFINE r == [[NoCall EXCEPT !.op = "delete", !.pc = "delete.check", !.user = user, !.id = id]
                      EXCEPT !.cred = Credentials]
  <2>1. Start(c, r) /\ call'[c] = r /\ signedUp
    BY <1>5 DEF DeleteKeyRing, CheckFrom, CanCheck, Start, TypeInv, CallsOK
  <2>2. r.pc = "delete.check" /\ r.cred = Credentials
    BY DEF NoCall
  <2>3. r \in CallType
    BY <1>0, <2>1
  <2> HIDE DEF r
  <2>4. call[c].pc = "idle" /\ UNCHANGED <<memory, session, storage, keysDrawn>>
    BY <1>5 DEF DeleteKeyRing, At
  <2> QED
    BY <2>1, <2>2, <2>3, <2>4, NoCallHolds, StartSerial
<1>6. CASE DeleteRemoves(c)
  BY <1>6, DeleteSerial
<1> QED
  BY <1>1, <1>2, <1>3, <1>4, <1>5, <1>6 DEF KeyRingStep

LEMMA SerialStep ==
    ASSUME OneCall, TypeInv, TypeInv', SelectionInv, SelectionInv', SerialInv, [Next]_vars
    PROVE  SerialInv'
<1>1. CASE UNCHANGED vars
  <2>1. UNCHANGED <<signedUp, password, aesCounter, vaults, session, store, disk, writes, call, keysDrawn>>
    BY <1>1 DEF vars, memory, storage
  <2>2. /\ \A pcs : Doing(pcs)' <=> Doing(pcs)
        /\ Erasing' <=> Erasing
        /\ \A k : Values(k)' = Values(k)
    BY <2>1 DEF Doing, Erasing, Values
  <2>3. QueueOK' /\ StoredUnderKey'
    BY <2>1, <2>2 DEF SerialInv, QueueOK, StoredUnderKey, OfKey, MacOfKey, CounterOfKey
  <2>4. HeldUnderKey' /\ LockedInSession' /\ MacHasCipher(store)' /\ MacHasCipher(disk)'
    BY <2>1, <2>2 DEF SerialInv, HeldUnderKey, MacOfKey, CounterOfKey, LockedInSession, Locked, MacHasCipher
  <2>5. StepsOK'
    BY <2>1, <2>2 DEF SerialInv, StepsOK, Locked, At, Credentials
  <2>6. ErasingOK' /\ SignedUpOK' /\ NoVaultsYet'
    BY <2>1, <2>2 DEF SerialInv, ErasingOK, SignedUpOK, NoVaultsYet, HasCryptoState, Locked
  <2> QED
    BY <2>3, <2>4, <2>5, <2>6 DEF SerialInv
<1> QED
  BY <1>1, VaultStepSerial, KeyRingStepSerial, SelectSerial, LockSerial, FlushSerial, EndSerial DEF Next

LEMMA SerialInit == Init => SerialInv
<1> SUFFICES ASSUME Init PROVE SerialInv
  OBVIOUS
<1>1. /\ store["vaultMap"] = <<>> /\ disk["vaultMap"] = <<>>
      /\ \A k \in CryptoKeys : store[k] = Null /\ disk[k] = Null
      /\ writes = <<>> /\ password = 0 /\ ~signedUp
      /\ session.password = 0
  BY TheKeys DEF Init, EmptyStore, StoreKeys, VaultKeys
<1>2. \A c \in Calls : call[c] = NoCall /\ call[c].pc = "idle" /\ call[c].cred = NoCredentials
  BY DEF Init, NoCall
<1>3. \A pcs : "idle" \notin pcs => ~Doing(pcs)
  BY <1>2 DEF Doing
<1>4. ~Erasing /\ ~Doing(SignUpPcs)
  BY <1>3 DEF Erasing, SignUpPcs
<1>5. /\ Values("vaultMap") = {<<>>}
      /\ Values("userPasswordMac") = {Null} /\ Values("aesCounterCipher") = {Null}
  BY <1>1, TheKeys DEF Values, Written
<1>6. QueueOK /\ ErasingOK
  BY <1>1, <1>4 DEF QueueOK, ErasingOK
<1>7. StoredUnderKey /\ NoVaultsYet
  BY <1>5 DEF StoredUnderKey, OfKey, MacOfKey, CounterOfKey, NoVaultsYet
<1>8. HeldUnderKey /\ LockedInSession
  BY <1>1, <1>2 DEF HeldUnderKey, LockedInSession, NoCredentials, MacOfKey, CounterOfKey, SignUpPcs
<1>9. MacHasCipher(store) /\ MacHasCipher(disk) /\ SignedUpOK
  BY <1>1, TheKeys DEF MacHasCipher, SignedUpOK, HasCryptoState
<1>10. StepsOK
  BY <1>2, <1>3, <1>4 DEF StepsOK, ChangePcs, At
<1> QED
  BY <1>6, <1>7, <1>8, <1>9, <1>10 DEF SerialInv
-----------------------------------------------------------------------------
(* The theorems for one call at a time.                                      *)

IInv == TypeInv /\ SelectionInv /\ SerialInv

LEMMA IInvHolds ==
    ASSUME OneCall
    PROVE  /\ Init => IInv
           /\ IInv /\ [Next]_vars => IInv'
<1>1. Init => IInv
  BY TypeInit, SelectionInit, SerialInit DEF IInv
<1>2. ASSUME IInv, [Next]_vars PROVE IInv'
  <2>1. TypeInv'
    BY <1>2, TypeStep DEF IInv
  <2>2. SelectionInv'
    BY <1>2, <2>1, SelectionStep DEF IInv
  <2>3. SerialInv'
    BY <1>2, <2>1, <2>2, SerialStep DEF IInv
  <2> QED
    BY <2>1, <2>2, <2>3 DEF IInv
<1> QED
  BY <1>1, <1>2

\* An unlocked wallet can decrypt all its key rings: with one call at a time, but
\* whatever locks, writes under way and ends of the program come between its steps,
\* even in the middle of the writes of its credentials.
THEOREM UnlockedDecryptsAll ==
    ASSUME OneCall
    PROVE  Spec => []VaultsDecryptable
<1>1. IInv => VaultsDecryptable
  <2> SUFFICES ASSUME IInv, ~Locked, NEW v \in Range(vaults)
               PROVE  v.key = password /\ v.counter = aesCounter
    BY DEF VaultsDecryptable
  <2>1. PICK i \in DOMAIN vaults : v = vaults[i]
    BY DEF Range
  <2>2. OfKey(vaults)
    BY DEF IInv, SerialInv, StoredUnderKey, Values, SelectionInv, StoreIsMemory
  <2> QED
    BY <2>1, <2>2 DEF OfKey, IInv, SerialInv, HeldUnderKey, Locked
<1> QED
  BY <1>1, IInvHolds, PTL DEF Spec

LEMMA KeyRingsKeptStep ==
    ASSUME OneCall, IInv, [Next]_vars, NEW id \in Ids(vaults) \ Ids(vaults')
    PROVE  \/ \E c \in Calls : At(c, "delete.check") /\ call[c].id = id /\ Checked(c)
           \/ Exit /\ id \notin Ids(disk["vaultMap"])
<1> USE DEF memory
<1>0. /\ TypeInv /\ vaults \in Seq(Vaults) /\ store["vaultMap"] = vaults /\ UniqueIds(vaults)
      /\ vaults' # vaults
      /\ \A vs : id \in Ids(vs) <=> HasVault(vs, id)
  BY DEF IInv, TypeInv, FieldsOK, SelectionInv, StoreIsMemory, Values, Ids, HasVault
<1>1. ASSUME NEW c \in Calls, VaultStep(c) PROVE FALSE
  <2>1. CASE ClearAllErases(c)
    <3>1. vaults = <<>> /\ vaults' = <<>>
      BY <2>1, TheCall DEF ClearAllErases, At, IInv, SerialInv, StepsOK
    <3> QED
      BY <1>0, <3>1
  <2>2. CASE ~ClearAllErases(c)
    BY <1>0, <1>1, <2>2, VaultStepWrites
  <2> QED
    BY <2>1, <2>2
<1>2. ASSUME NEW c \in Calls, KeyRingStep(c)
      PROVE  At(c, "delete.check") /\ call[c].id = id /\ Checked(c)
  <2>1. CASE CreateAdds(c)
    BY <1>0, <2>1, CreationIs
  <2>2. CASE DeleteRemoves(c)
    <3>1. At(c, "delete.check") /\ Checked(c) /\ HasVault(vaults, call[c].id)
          /\ vaults' = Without(vaults, call[c].id)
      BY <2>2 DEF DeleteRemoves
    <3> QED
      BY <1>0, <3>1, DeletionIs
  <2>3. CASE ~CreateAdds(c) /\ ~DeleteRemoves(c)
    BY <1>0, <1>2, <2>3
       DEF KeyRingStep, Create, UnlockReturns, CreateRejected, DeleteKeyRing, DeleteRejected
  <2> QED
    BY <2>1, <2>2, <2>3
<1>3. CASE \/ \E i \in VaultIds : SelectKeyRing(i)
           \/ Lock \/ RemoveSessionCounter \/ FlushWrite \/ UNCHANGED vars
  BY <1>0, <1>3 DEF SelectKeyRing, Lock, RemoveSessionCounter, FlushWrite, vars
<1>4. CASE Kill
  BY <1>0, <1>4 DEF Kill, Restart, StartOver
<1>5. CASE Exit
  <2>1. vaults' = disk["vaultMap"]
    BY <1>5 DEF Exit, Restart, StartOver
  <2> QED
    BY <1>5, <2>1
<1> QED
  BY <1>1, <1>2, <1>3, <1>4, <1>5 DEF Next

\* No key ring disappears, with one call at a time, but by the deletion of that very
\* key ring with the password, or by an end of the browser before it was written.
THEOREM KeyRingsAreKept ==
    ASSUME OneCall
    PROVE  Spec => KeyRingsKept
<1>1. IInv /\ [Next]_vars =>
        [\A id \in Ids(vaults) \ Ids(vaults') :
            \/ \E c \in Calls : At(c, "delete.check") /\ call[c].id = id /\ Checked(c)
            \/ Exit /\ id \notin Ids(disk["vaultMap"])]_vars
  BY KeyRingsKeptStep
<1> QED
  BY <1>1, IInvHolds, PTL DEF Spec, KeyRingsKept
-----------------------------------------------------------------------------
(* A wallet at rest, when the program does not end between the writes of new *)
(* credentials: the password that was set opens it, and one that is signed   *)
(* out accepts a sign-up unless its clearAll was cut short.                  *)

\* The waits of the calls that are writing a cipher and its mac.
TearingPcs == {"signUp.cipher", "signUp.mac", "signUp.counter", "change.cipher"}

\* The cipher and the mac in the storage are of one password, but while a call is
\* between the two; a wallet that is not signed up has neither mac nor counter.
WholeInv ==
    /\ ~signedUp => Locked
    /\ signedUp => store["aesCounterCipher"] # Null
    /\ signedUp /\ ~Doing({"change.cipher"}) => store["passwordCipher"] = store["userPasswordMac"]
    /\ ~signedUp /\ ~Doing({"signUp.mac", "signUp.counter"}) =>
          store["userPasswordMac"] = Null /\ store["aesCounterCipher"] = Null
    /\ Doing({"signUp.mac", "signUp.counter"}) => store["passwordCipher"] = store["userPasswordMac"]
    /\ \A c \in Calls :
          /\ At(c, "signUp.cipher") =>
                store["passwordCipher"] = EncryptPassword(call[c].user, call[c].key)
          /\ At(c, "change.cipher") =>
                store["passwordCipher"] = EncryptPassword(call[c].newUser, call[c].key)

\* A clearAll was cut short: the worker ended before the session password was
\* removed, or the browser when the cipher had gone and the counter had not.
Cut ==
    /\ AtRest /\ ~signedUp /\ vaults = <<>>
    /\ \/ ~Locked /\ \A k \in CryptoKeys : store[k] = Null
       \/ Locked /\ store["passwordCipher"] = Null /\ store["aesCounterCipher"] # Null

\* The writes of clearAll reach the disk in order: the vault map before the cipher and
\* the cipher before the mac.
EraseOrder ==
    Erasing =>
        /\ \A c \in Calls : At(c, "clear.erased") => call[c].user \in UserPasswords
        /\ disk["passwordCipher"] # Null =>
              /\ disk["userPasswordMac"] = disk["passwordCipher"]
              /\ \A i \in DOMAIN writes : writes[i].key = "userPasswordMac" =>
                    \E j \in DOMAIN writes : j < i /\ writes[j].key = "passwordCipher"
        /\ disk["passwordCipher"] = Null => \A i \in DOMAIN writes : writes[i].key # "vaultMap"
        /\ \A i, j \in DOMAIN writes :
              writes[i].key = "passwordCipher" /\ writes[j].key = "vaultMap" => j < i

RestInv == (WholeInv \/ Cut) /\ EraseOrder

\* What a step that writes one credential, or none, leaves in the storage.
LEMMA OneStored ==
    ASSUME StorageOK
    PROVE  /\ \A x \in WriteType, k \in CryptoKeys :
                 Moves(<<x>>) => store'[k] = IF x.key = k THEN x.val ELSE store[k]
           /\ Moves(<<>>) => CredentialsKept
<1>1. ASSUME NEW x \in WriteType, NEW k \in CryptoKeys, Moves(<<x>>)
      PROVE  store'[k] = IF x.key = k THEN x.val ELSE store[k]
  <2>1. /\ DOMAIN <<x>> = {1} /\ <<x>>[1] = x /\ Distinct(<<x>>) /\ <<x>> \in Seq(WriteType)
    BY OneWrite
  <2>2. /\ (\A i \in DOMAIN <<x>> : <<x>>[i].key # k) => store'[k] = store[k]
        /\ \A i \in DOMAIN <<x>> : <<x>>[i].key = k /\ Distinct(<<x>>) => store'[k] = <<x>>[i].val
    BY <1>1, <2>1, MovesStorage, TheKeys
  <2> QED
    BY <2>1, <2>2
<1>2. ASSUME Moves(<<>>), NEW k \in CryptoKeys PROVE store'[k] = store[k]
  <2>1. store' = Put(store, <<>>) /\ k \in DOMAIN store
    BY <1>2, TheKeys DEF Moves, Issue, Settle, StorageOK, StoreOK
  <2> QED
    BY <2>1, PutAt
<1> QED
  BY <1>1, <1>2 DEF CredentialsKept

\* A step that leaves the credentials alone and does not enter or leave a tearing wait.
LEMMA WholeKept ==
    ASSUME WholeInv, CredentialsKept, signedUp' = signedUp, ~signedUp => Locked',
           \/ call' = call
           \/ \A c \in Calls : call[c].pc \notin TearingPcs /\ call'[c].pc \notin TearingPcs
    PROVE  WholeInv'
<1>1. /\ store'["passwordCipher"] = store["passwordCipher"]
      /\ store'["userPasswordMac"] = store["userPasswordMac"]
      /\ store'["aesCounterCipher"] = store["aesCounterCipher"]
  BY TheKeys DEF CredentialsKept
<1>2. /\ Doing({"change.cipher"})' <=> Doing({"change.cipher"})
      /\ Doing({"signUp.mac", "signUp.counter"})' <=> Doing({"signUp.mac", "signUp.counter"})
  BY DEF Doing, TearingPcs
<1>3. \A c \in Calls : /\ At(c, "signUp.cipher")' => At(c, "signUp.cipher") /\ call'[c] = call[c]
                       /\ At(c, "change.cipher")' => At(c, "change.cipher") /\ call'[c] = call[c]
  BY DEF At, TearingPcs
<1> QED
  BY <1>1, <1>2, <1>3 DEF WholeInv

LEMMA UnchangedKept ==
    ASSUME UNCHANGED store
    PROVE  CredentialsKept
BY DEF CredentialsKept

\* The steps of a call that write a credential, the other steps of a call, and the
\* ends of the program.
LEMMA WholeWritten ==
    ASSUME OneCall, IInv, WholeInv, NEW c \in Calls,
           \/ SignUpWritesCipher(c) \/ SignUpWritesMac(c) \/ SignUpWritesCounter(c)
           \/ ChangeWritesCipher(c) \/ ChangeWritesMac(c)
    PROVE  WholeInv'
<1> DEFINE p == call[c].pc
           up == EncryptPassword(call[c].user, call[c].key)
           cp == EncryptPassword(call[c].newUser, call[c].key)
           ct == AesEncrypt(call[c].key, call[c].key)
<1> USE DEF memory
<1>1. /\ call[c] \in CallType /\ CallReady(call[c]) /\ StorageOK
      /\ UNCHANGED <<signedUp, password>>
  BY DEF IInv, TypeInv, CallsOK, SignUpWritesCipher, SignUpWritesMac, SignUpWritesCounter,
         ChangeWritesCipher, ChangeWritesMac
<1>2. /\ \A pcs : (Doing(pcs) <=> p \in pcs) /\ (Doing(pcs)' <=> call'[c].pc \in pcs)
      /\ \A d \in Calls : d = c
  BY TheCall
<1>3. ct \in CounterCipher
  BY <1>1 DEF CallType, AesEncrypt, CounterCipher
<1>4. /\ p \in SignUpPcs => up \in Cipher /\ ~signedUp
      /\ p \in ChangePcs => cp \in Cipher /\ signedUp
  BY <1>1, <1>2 DEF CallReady, CallType, EncryptPassword, Cipher, IInv, SerialInv, StepsOK
<1>5. CASE SignUpWritesCipher(c)
  <2> DEFINE x == Write("passwordCipher", up, c)
  <2>1. p = "signUp.derive" /\ p \in SignUpPcs /\ Moves(<<x>>)
        /\ call'[c].pc = "signUp.cipher" /\ call'[c].user = call[c].user /\ call'[c].key = call[c].key
    BY <1>5 DEF SignUpWritesCipher, At, Goto, SignUpPcs, Moves, IInv, TypeInv, CallsOK, CallType
  <2>2. x \in WriteType /\ x.key = "passwordCipher" /\ x.val = up
    BY <1>4, <2>1, WritesTyped DEF Write
  <2> HIDE DEF x, up
  <2>3. /\ store'["passwordCipher"] = up
        /\ store'["userPasswordMac"] = store["userPasswordMac"]
        /\ store'["aesCounterCipher"] = store["aesCounterCipher"]
    BY <1>1, <2>1, <2>2, OneStored, TheKeys
  <2> QED
    BY <1>1, <1>2, <1>4, <2>1, <2>3 DEF WholeInv, At, Locked, up
<1>6. CASE SignUpWritesMac(c)
  <2> DEFINE x == Write("userPasswordMac", up, c)
  <2>1. p = "signUp.cipher" /\ p \in SignUpPcs /\ Moves(<<x>>) /\ call'[c].pc = "signUp.mac"
    BY <1>6 DEF SignUpWritesMac, At, Goto, SignUpPcs, Moves, IInv, TypeInv, CallsOK, CallType
  <2>2. x \in WriteType /\ x.key = "userPasswordMac" /\ x.val = up
    BY <1>4, <2>1, WritesTyped DEF Write
  <2>3. store["passwordCipher"] = up
    BY <2>1 DEF WholeInv, At
  <2> HIDE DEF x, up
  <2>4. store'["passwordCipher"] = up /\ store'["userPasswordMac"] = up
    BY <1>1, <2>1, <2>2, <2>3, OneStored, TheKeys
  <2> QED
    BY <1>1, <1>2, <1>4, <2>1, <2>4 DEF WholeInv, At, Locked
<1>7. CASE SignUpWritesCounter(c)
  <2> DEFINE x == Write("aesCounterCipher", ct, c)
  <2>1. p = "signUp.mac" /\ p \in SignUpPcs /\ Moves(<<x>>) /\ call'[c].pc = "signUp.counter"
    BY <1>7 DEF SignUpWritesCounter, At, Goto, SignUpPcs, Moves, IInv, TypeInv, CallsOK, CallType
  <2>2. x \in WriteType /\ x.key = "aesCounterCipher"
    BY <1>3, WritesTyped DEF Write
  <2> HIDE DEF x
  <2>3. /\ store'["passwordCipher"] = store["passwordCipher"]
        /\ store'["userPasswordMac"] = store["userPasswordMac"]
    BY <1>1, <2>1, <2>2, OneStored, TheKeys
  <2> QED
    BY <1>1, <1>2, <1>4, <2>1, <2>3 DEF WholeInv, At, Locked
<1>8. CASE ChangeWritesCipher(c)
  <2> DEFINE x == Write("passwordCipher", cp, c)
  <2>1. p = "change.derive" /\ p \in ChangePcs /\ Moves(<<x>>)
        /\ call'[c].pc = "change.cipher" /\ call'[c].newUser = call[c].newUser /\ call'[c].key = call[c].key
    BY <1>8 DEF ChangeWritesCipher, At, Goto, ChangePcs, Moves, IInv, TypeInv, CallsOK, CallType
  <2>2. x \in WriteType /\ x.key = "passwordCipher" /\ x.val = cp
    BY <1>4, <2>1, WritesTyped DEF Write
  <2> HIDE DEF x, cp
  <2>3. /\ store'["passwordCipher"] = cp
        /\ store'["aesCounterCipher"] = store["aesCounterCipher"]
    BY <1>1, <2>1, <2>2, OneStored, TheKeys
  <2> QED
    BY <1>1, <1>2, <1>4, <2>1, <2>3 DEF WholeInv, At, Locked, cp
<1>9. CASE ChangeWritesMac(c)
  <2> DEFINE x == Write("userPasswordMac", cp, c)
  <2>1. p = "change.cipher" /\ p \in ChangePcs /\ Moves(<<x>>) /\ call'[c].pc = "change.mac"
    BY <1>9 DEF ChangeWritesMac, At, Goto, ChangePcs, Moves, IInv, TypeInv, CallsOK, CallType
  <2>2. x \in WriteType /\ x.key = "userPasswordMac" /\ x.val = cp
    BY <1>4, <2>1, WritesTyped DEF Write
  <2>3. store["passwordCipher"] = cp
    BY <2>1 DEF WholeInv, At
  <2> HIDE DEF x, cp
  <2>4. /\ store'["passwordCipher"] = cp /\ store'["userPasswordMac"] = cp
        /\ store'["aesCounterCipher"] = store["aesCounterCipher"]
    BY <1>1, <2>1, <2>2, <2>3, OneStored, TheKeys
  <2> QED
    BY <1>1, <1>2, <1>4, <2>1, <2>4 DEF WholeInv, At, Locked
<1> QED
  BY <1>5, <1>6, <1>7, <1>8, <1>9

LEMMA WholeCall ==
    ASSUME OneCall, IInv, IInv', WholeInv, NEW c \in Calls, VaultStep(c) \/ KeyRingStep(c)
    PROVE  WholeInv'
<1> DEFINE p == call[c].pc
           q == call'[c].pc
<1> USE DEF memory, storage
<1>1. /\ TypeInv /\ TypeInv' /\ SelectionInv /\ SerialInv /\ StorageOK
      /\ call[c] \in CallType /\ call'[c] \in CallType
      /\ NoCall.pc \notin TearingPcs
      /\ \A f \in CallType, pc \in CallPcs : [f EXCEPT !.pc = pc].pc = pc
  BY DEF IInv, TypeInv, CallsOK, NoCall, TearingPcs, CallType
<1>2. /\ \A pcs : (Doing(pcs) <=> p \in pcs) /\ (Doing(pcs)' <=> q \in pcs)
      /\ \A d \in Calls : d = c
  BY TheCall
<1>3. CASE SignUpUnlocks(c)
  <2>1. p = "signUp.counter" /\ signedUp' = TRUE /\ Moves(<<>>)
    BY <1>3 DEF SignUpUnlocks, At, Moves
  <2>2. q \in {"unlock.derive", "idle"}
    <3>1. CASE CanUnlock
      <4>1. call' = [call EXCEPT ![c] = WithCred(call[c], "unlock.derive", Credentials)]
        BY <1>3, <3>1 DEF SignUpUnlocks, UnlockFrom, Start, WithCred
      <4>2. Credentials \in CredType /\ "unlock.derive" \in CallPcs /\ 0 \in Keys
        BY <1>1, CredentialsTyped, MaxKeysAssumption DEF StorageOK, CallPcs, Keys
      <4>3. WithCred(call[c], "unlock.derive", Credentials).pc = "unlock.derive"
        BY <1>1, <4>2, CallWith
      <4> QED
        BY <1>1, <4>1, <4>3 DEF TypeInv, CallsOK
    <3>2. CASE ~CanUnlock
      BY <1>1, <1>3, <3>2 DEF SignUpUnlocks, Finish, TypeInv, CallsOK, NoCall
    <3> QED
      BY <3>1, <3>2
  <2>3. /\ store'["passwordCipher"] = store["passwordCipher"]
        /\ store'["userPasswordMac"] = store["userPasswordMac"]
        /\ store'["aesCounterCipher"] = store["aesCounterCipher"]
    BY <1>1, <2>1, OneStored, TheKeys DEF CredentialsKept
  <2>4. store["aesCounterCipher"] # Null
    BY <1>1, <1>2, <2>1 DEF SerialInv, StepsOK
  <2> QED
    BY <1>2, <2>1, <2>2, <2>3, <2>4 DEF WholeInv, At
<1>4. CASE ClearAllErases(c)
  <2>1. signedUp' = FALSE /\ password' = 0 /\ q = "clear.erased"
    BY <1>1, <1>4 DEF ClearAllErases, Goto, TypeInv, CallsOK, CallType
  <2>2. \A k \in CryptoKeys : store'[k] = Null
    BY <1>2, <2>1 DEF IInv, SerialInv, ErasingOK, Erasing
  <2> QED
    BY <1>2, <2>1, <2>2, TheKeys DEF WholeInv, Locked, At
<1>5. ASSUME p \notin TearingPcs, q \notin TearingPcs, CredentialsKept, signedUp' = signedUp,
             signedUp \/ password' = password
      PROVE  WholeInv'
  <2>1. ~signedUp => Locked'
    BY <1>5 DEF WholeInv, Locked
  <2> QED
    BY <1>2, <1>5, <2>1, WholeKept
<1>6. CASE \E user \in UserPasswords : Unlock(c, user)
  <2>1. p = "idle" /\ q = "unlock.derive"
    BY <1>1, <1>6 DEF Unlock, UnlockFrom, Start, At, TypeInv, CallsOK, NoCall
  <2>2. UNCHANGED <<store, signedUp, password>>
    BY <1>6 DEF Unlock
  <2> QED
    BY <1>5, <2>1, <2>2, UnchangedKept DEF TearingPcs
<1>7. CASE UnlockAccepted(c)
  <2>1. p = "unlock.derive" /\ q = "unlock.session" /\ UNCHANGED <<store, signedUp>>
    BY <1>1, <1>7 DEF UnlockAccepted, Goto, At, TypeInv, CallsOK, CallType
  <2>2. signedUp
    BY <1>1, <1>2, <2>1 DEF SerialInv, StepsOK
  <2> QED
    BY <1>5, <2>1, <2>2, UnchangedKept DEF TearingPcs
<1>8. CASE \/ UnlockRejected(c) \/ ClearAllReturns(c) \/ CreateRejected(c) \/ DeleteRejected(c)
           \/ \E pc \in CheckPcs : CheckRejected(c, pc)
  <2>1. /\ p \in {"unlock.derive", "clear.session", "create.vault", "delete.check"} \cup CheckPcs
        /\ Finish(c) /\ UNCHANGED <<store, signedUp, password>>
    BY <1>8 DEF UnlockRejected, ClearAllReturns, CreateRejected, DeleteRejected, CheckRejected, At
  <2>2. q = NoCall.pc
    BY <2>1 DEF Finish, IInv, TypeInv, CallsOK
  <2> QED
    BY <1>1, <1>5, <2>1, <2>2, UnchangedKept DEF TearingPcs, CheckPcs
<1>9. CASE ChangeReturns(c) \/ ClearAllErased(c)
  <2>1. p \in {"change.mac", "clear.erased"} /\ Moves(<<>>) /\ UNCHANGED <<signedUp, password>>
    BY <1>9 DEF ChangeReturns, ClearAllErased, At, Moves
  <2>2. q \in {NoCall.pc, "clear.session"}
    BY <1>1, <1>9 DEF ChangeReturns, ClearAllErased, Finish, Goto, TypeInv, CallsOK, CallType
  <2> QED
    BY <1>1, <1>5, <2>1, <2>2, OneStored DEF TearingPcs
<1>10. CASE \E prev, new \in UserPasswords : ChangePassword(c, prev, new)
  <2>1. p = "idle" /\ q = "change.check"
    BY <1>1, <1>10 DEF ChangePassword, CheckFrom, Start, At, TypeInv, CallsOK, NoCall
  <2>2. UNCHANGED <<store, signedUp, password>>
    BY <1>10 DEF ChangePassword
  <2> QED
    BY <1>5, <2>1, <2>2, UnchangedKept DEF TearingPcs
<1>11. CASE ChangeEncrypts(c)
  <2>1. p = "change.check" /\ q = "change.derive"
    BY <1>1, <1>11 DEF ChangeEncrypts, At, TypeInv, CallsOK, CallType
  <2>2. UNCHANGED <<store, signedUp, password>>
    BY <1>11 DEF ChangeEncrypts
  <2> QED
    BY <1>5, <2>1, <2>2, UnchangedKept DEF TearingPcs
<1>12. CASE \E user \in UserPasswords : Create(c, user)
  <2>1. p = "idle" /\ q \in {"signUp.derive", "create.vault"}
    <3>1. PICK user \in UserPasswords : Create(c, user)
      BY <1>12
    <3>2. \/ call'[c] = [[NoCall EXCEPT !.op = "create", !.user = user]
                           EXCEPT !.pc = "signUp.derive", !.key = keysDrawn + 1]
          \/ call'[c] = [NoCall EXCEPT !.op = "create", !.pc = "create.vault"]
      BY <1>1, <3>1 DEF Create, SignUpFrom, Start, TypeInv, CallsOK
    <3> QED
      BY <3>1, <3>2 DEF Create, At, NoCall
  <2>2. UNCHANGED <<store, signedUp, password>>
    BY <1>12 DEF Create
  <2> QED
    BY <1>5, <2>1, <2>2, UnchangedKept DEF TearingPcs
<1>13. CASE UnlockReturns(c)
  <2>1. p = "unlock.session" /\ q \in {NoCall.pc, "create.vault"}
    BY <1>1, <1>13 DEF UnlockReturns, Finish, Goto, At, TypeInv, CallsOK, CallType
  <2>2. UNCHANGED <<store, signedUp, password>>
    BY <1>13 DEF UnlockReturns
  <2> QED
    BY <1>1, <1>5, <2>1, <2>2, UnchangedKept DEF TearingPcs
<1>14. CASE CreateAdds(c)
  <2>1. p = "create.vault" /\ q = NoCall.pc /\ UNCHANGED <<signedUp, password>>
    BY <1>1, <1>14 DEF CreateAdds, Finish, At, TypeInv, CallsOK
  <2>2. CredentialsKept
    BY <1>1, <1>14, CreateSerial
  <2> QED
    BY <1>1, <1>5, <2>1, <2>2 DEF TearingPcs
<1>15. CASE DeleteRemoves(c)
  <2>1. p = "delete.check" /\ q \in {NoCall.pc, "clear.check"} /\ UNCHANGED <<signedUp, password>>
    BY <1>1, <1>15 DEF DeleteRemoves, Finish, At, TypeInv, CallsOK, CallType
  <2>2. CredentialsKept
    BY <1>1, <1>15, DeleteSerial
  <2> QED
    BY <1>1, <1>5, <2>1, <2>2 DEF TearingPcs
<1>16. CASE \E id \in VaultIds, user \in UserPasswords : DeleteKeyRing(c, id, user)
  <2>1. p = "idle" /\ q = "delete.check"
    BY <1>1, <1>16 DEF DeleteKeyRing, CheckFrom, Start, At, TypeInv, CallsOK, NoCall
  <2>2. UNCHANGED <<store, signedUp, password>>
    BY <1>16 DEF DeleteKeyRing
  <2> QED
    BY <1>5, <2>1, <2>2, UnchangedKept DEF TearingPcs
<1>17. CASE \/ SignUpWritesCipher(c) \/ SignUpWritesMac(c) \/ SignUpWritesCounter(c)
            \/ ChangeWritesCipher(c) \/ ChangeWritesMac(c)
  BY <1>17, WholeWritten
<1> QED
  BY <1>3, <1>4, <1>6, <1>7, <1>8, <1>9, <1>10, <1>11, <1>12, <1>13, <1>14, <1>15, <1>16, <1>17
     DEF VaultStep, KeyRingStep, CheckPcs

\* The services start over a storage with all the credentials of a password or none.
LEMMA WholeRestart ==
    ASSUME OneCall, ~TearCredentials, IInv, WholeInv, ~Erasing, Kill \/ Exit
    PROVE  WholeInv'
<1>0. StorageOK /\ QueueOK /\ Coherent(store, disk, writes) /\ TypeInv /\ SerialInv
  BY DEF IInv, TypeInv, SelectionInv, SerialInv
<1>1. PICK s \in {store, disk}, ses \in {session, [password |-> 0, aesCounter |-> 0]} :
         Restart(s, ses)
  BY DEF Kill, Exit
<1>2. /\ signedUp' = HasCryptoState(s) /\ ~WritingCredentials
      /\ password' = IF ServiceWorker /\ ses.password # 0 /\ ses.aesCounter # 0 THEN ses.password ELSE 0
      /\ call' = [c \in Calls |-> NoCall]
      /\ store' = [s EXCEPT !["selectedVaultId"] = selected']
  BY <1>1 DEF Restart, StartOver
<1>3. /\ \A k \in CryptoKeys : store'[k] = s[k]
      /\ DOMAIN s = StoreKeys
  BY <1>0, <1>2, TheKeys DEF StorageOK, StoreOK
<1>4. /\ \A c \in Calls : call[c].pc \notin {"signUp.mac", "signUp.counter", "change.cipher",
                                             "change.mac", "clear.erased"}
      /\ ~Doing({"change.cipher"}) /\ ~Doing({"signUp.mac", "signUp.counter"}) /\ ~Erasing
  BY <1>2 DEF WritingCredentials, Doing, Erasing
<1>5. \A c \in Calls : Awaited(call[c].pc) \in {"none", "passwordCipher"}
  BY <1>4 DEF Awaited
<1>6. /\ s["userPasswordMac"] = store["userPasswordMac"]
      /\ s["aesCounterCipher"] = store["aesCounterCipher"]
      /\ ~Doing({"signUp.cipher"}) => s["passwordCipher"] = store["passwordCipher"]
  <2>1. ASSUME NEW k \in CryptoKeys, \A c \in Calls : Awaited(call[c].pc) # k PROVE s[k] = store[k]
    BY <1>0, <1>4, <2>1, NotAwaited
  <2>2. ~Doing({"signUp.cipher"}) => \A c \in Calls : Awaited(call[c].pc) # "passwordCipher"
    BY <1>4 DEF Doing, Awaited
  <2> QED
    BY <1>5, <2>1, <2>2, TheKeys
<1>7. \A c \in Calls : call'[c].pc = "idle"
  BY <1>2 DEF NoCall
<1>8. /\ ~Doing({"change.cipher"})' /\ ~Doing({"signUp.mac", "signUp.counter"})'
      /\ \A c \in Calls : ~At(c, "signUp.cipher")' /\ ~At(c, "change.cipher")'
  BY <1>7 DEF Doing, At
<1>9. CASE signedUp
  <2>1. ~Doing({"signUp.cipher"}) /\ HasCryptoState(store)
    BY <1>0, <1>9 DEF SerialInv, StepsOK, SignedUpOK, Doing, SignUpPcs
  <2>2. /\ store["aesCounterCipher"] # Null /\ store["passwordCipher"] = store["userPasswordMac"]
    BY <1>4, <1>9 DEF WholeInv
  <2> QED
    BY <1>2, <1>3, <1>6, <1>8, <2>1, <2>2, TheKeys DEF WholeInv, HasCryptoState
<1>10. CASE ~signedUp
  <2>1. /\ store["userPasswordMac"] = Null /\ store["aesCounterCipher"] = Null /\ Locked
    BY <1>4, <1>10 DEF WholeInv
  <2>2. Locked'
    BY <1>0, <1>2, <1>4, <2>1, ServiceWorkerAssumption DEF SerialInv, LockedInSession, Locked
  <2> QED
    BY <1>2, <1>3, <1>6, <1>8, <2>1, <2>2, TheKeys DEF WholeInv, HasCryptoState
<1> QED
  BY <1>9, <1>10

LEMMA WholeStep ==
    ASSUME OneCall, ~TearCredentials, IInv, IInv', WholeInv, [Next]_vars,
           ~(Erasing /\ (Kill \/ Exit))
    PROVE  WholeInv'
<1> USE DEF memory, storage
<1>0. StorageOK /\ TypeInv /\ SelectionInv /\ SerialInv
  BY DEF IInv, TypeInv
<1>1. ASSUME NEW c \in Calls, VaultStep(c) \/ KeyRingStep(c) PROVE WholeInv'
  BY <1>1, WholeCall
<1>2. ASSUME NEW id \in VaultIds, SelectKeyRing(id) PROVE WholeInv'
  <2>1. CredentialsKept
    BY <1>0, <1>2, SelectSerial
  <2> QED
    BY <1>2, <2>1, WholeKept DEF SelectKeyRing, WholeInv, Locked
<1>3. CASE Lock \/ RemoveSessionCounter \/ UNCHANGED vars
  BY <1>3, UnchangedKept, WholeKept DEF Lock, RemoveSessionCounter, vars, WholeInv, Locked
<1>4. CASE FlushWrite
  <2>1. CredentialsKept
    BY <1>0, <1>4, OneStored DEF FlushWrite, Moves
  <2> QED
    BY <1>4, <2>1, WholeKept DEF FlushWrite, WholeInv, Locked
<1>5. CASE Kill \/ Exit
  BY <1>5, WholeRestart
<1> QED
  BY <1>1, <1>2, <1>3, <1>4, <1>5 DEF Next

-----------------------------------------------------------------------------
(* The ends of the program while clearAll is erasing, and what follows.      *)

\* No other step of a call begins to erase.
LEMMA OnlyErases ==
    ASSUME CallsOK, NEW c \in Calls, VaultStep(c) \/ KeyRingStep(c), call'[c].pc = "clear.erased"
    PROVE  ClearAllErases(c)
<1>1. /\ call \in [Calls -> CallType]
      /\ \A r : call' = [call EXCEPT ![c] = r] => call'[c] = r
      /\ \A pc : Goto(c, pc) => call'[c].pc = pc
      /\ Finish(c) => call'[c].pc = "idle"
  BY DEF CallsOK, CallType, Goto, Finish, NoCall
<1>3. ~(\E user \in UserPasswords : Unlock(c, user)) /\ ~SignUpUnlocks(c)
  <2>1. ASSUME NEW user \in UserPasswords, Unlock(c, user) PROVE FALSE
    BY <1>1, <2>1 DEF Unlock, UnlockFrom, Start, NoCall
  <2>2. ASSUME SignUpUnlocks(c) PROVE FALSE
    <3>1. \/ call'[c] = [call[c] EXCEPT !.pc = "unlock.derive", !.cred = Credentials]
          \/ call'[c].pc = "idle"
      BY <1>1, <2>2 DEF SignUpUnlocks, UnlockFrom, Start
    <3> QED
      BY <1>1, <3>1 DEF CallType
  <2> QED
    BY <2>1, <2>2
<1>4. /\ ~(\E prev, new \in UserPasswords : ChangePassword(c, prev, new))
      /\ ~(\E id \in VaultIds, user \in UserPasswords : DeleteKeyRing(c, id, user))
      /\ ~(\E user \in UserPasswords : Create(c, user))
  <2>1. ASSUME NEW prev \in UserPasswords, NEW new \in UserPasswords, ChangePassword(c, prev, new)
        PROVE  FALSE
    BY <1>1, <2>1 DEF ChangePassword, CheckFrom, Start, NoCall
  <2>2. ASSUME NEW id \in VaultIds, NEW user \in UserPasswords, DeleteKeyRing(c, id, user)
        PROVE  FALSE
    BY <1>1, <2>2 DEF DeleteKeyRing, CheckFrom, Start, NoCall
  <2>3. ASSUME NEW user \in UserPasswords, Create(c, user) PROVE FALSE
    BY <1>1, <2>3 DEF Create, SignUpFrom, Start, NoCall
  <2> QED
    BY <2>1, <2>2, <2>3
<1>5. ~ChangeEncrypts(c) /\ ~DeleteRemoves(c)
  <2>1. ASSUME ChangeEncrypts(c) PROVE FALSE
    BY <1>1, <2>1 DEF ChangeEncrypts, CallType
  <2>2. ASSUME DeleteRemoves(c) PROVE FALSE
    BY <1>1, <2>2 DEF DeleteRemoves, CallType
  <2> QED
    BY <2>1, <2>2
<1> QED
  BY <1>1, <1>3, <1>4, <1>5
     DEF VaultStep, KeyRingStep, UnlockAccepted, UnlockRejected, SignUpWritesCipher, SignUpWritesMac,
         SignUpWritesCounter, ChangeWritesCipher, ChangeWritesMac, ChangeReturns, CheckRejected,
         ClearAllErased, ClearAllReturns, UnlockReturns, CreateAdds, CreateRejected, DeleteRejected

\* A locked wallet without credentials and without calls is as it was at the start.
LEMMA FreshWhole ==
    ASSUME ~signedUp', Locked', \A k \in CryptoKeys : store'[k] = Null, \A c \in Calls : call'[c] = NoCall
    PROVE  WholeInv'
<1>1. \A c \in Calls : call'[c].pc = "idle"
  BY DEF NoCall
<1>2. /\ ~Doing({"change.cipher"})' /\ ~Doing({"signUp.mac", "signUp.counter"})'
      /\ \A c \in Calls : ~At(c, "signUp.cipher")' /\ ~At(c, "change.cipher")'
  BY <1>1 DEF Doing, At
<1> QED
  BY <1>2, TheKeys DEF WholeInv

\* What the services start with.
LEMMA StartsWith ==
    ASSUME IInv, NEW s \in {store, disk}, NEW ses, Restart(s, ses)
    PROVE  /\ signedUp' = HasCryptoState(s) /\ vaults' = s["vaultMap"]
           /\ password' = IF ServiceWorker /\ ses.password # 0 /\ ses.aesCounter # 0
                          THEN ses.password ELSE 0
           /\ \A c \in Calls : call'[c] = NoCall
           /\ writes' = <<>> /\ AtRest' /\ ~Erasing'
           /\ \A k \in VaultKeys : store'[k] = s[k]
<1>1. DOMAIN s = StoreKeys
  BY DEF IInv, TypeInv, StorageOK, StoreOK
<1>2. /\ signedUp' = HasCryptoState(s) /\ vaults' = s["vaultMap"]
      /\ call' = [c \in Calls |-> NoCall]
      /\ store' = [s EXCEPT !["selectedVaultId"] = selected'] /\ writes' = <<>>
      /\ password' = IF ServiceWorker /\ ses.password # 0 /\ ses.aesCounter # 0
                     THEN ses.password ELSE 0
  BY DEF Restart, StartOver
<1>3. \A k \in VaultKeys : store'[k] = s[k]
  BY <1>1, <1>2 DEF StoreKeys, VaultKeys
<1>4. AtRest' /\ ~Erasing'
  BY <1>2 DEF AtRest, Erasing, Doing, NoCall
<1> QED
  BY <1>2, <1>3, <1>4

\* The end of the worker leaves no credential.
LEMMA EraseKilled ==
    ASSUME OneCall, IInv, Erasing, Kill
    PROVE  /\ ~signedUp' /\ vaults' = <<>> /\ AtRest' /\ \A k \in CryptoKeys : store'[k] = Null
           /\ IF Locked' THEN WholeInv' ELSE Cut'
<1>1. /\ \A k \in CryptoKeys : store[k] = Null
      /\ vaults = <<>> /\ store["vaultMap"] = <<>>
  BY DEF IInv, SerialInv, ErasingOK, SelectionInv, StoreIsMemory, Values
<1>2. Restart(store, session)
  BY DEF Kill
<1>3. /\ signedUp' = HasCryptoState(store) /\ vaults' = store["vaultMap"] /\ AtRest'
      /\ \A c \in Calls : call'[c] = NoCall
      /\ \A k \in VaultKeys : store'[k] = store[k]
  BY <1>2, StartsWith
<1>4. ~signedUp' /\ vaults' = <<>> /\ \A k \in CryptoKeys : store'[k] = Null
  BY <1>1, <1>3, TheKeys DEF HasCryptoState, CryptoKeys, VaultKeys
<1>5. Locked' => WholeInv'
  BY <1>3, <1>4, FreshWhole
<1>6. ~Locked' => Cut'
  BY <1>3, <1>4 DEF Cut
<1> QED
  BY <1>3, <1>4, <1>5, <1>6

\* The end of the browser leaves all of them, or some that make no password.
LEMMA EraseExited ==
    ASSUME OneCall, IInv, EraseOrder, Erasing, Exit
    PROVE  /\ Locked'
           /\ \/ Cut'
              \/ /\ WholeInv' /\ signedUp' /\ disk["passwordCipher"] # Null
                 /\ store'["userPasswordMac"] = disk["userPasswordMac"]
<1> DEFINE ses == [password |-> 0, aesCounter |-> 0]
<1> USE DEF VaultKeys
<1>1. disk["aesCounterCipher"] # Null /\ store["vaultMap"] = <<>>
  BY DEF IInv, SerialInv, ErasingOK, SelectionInv, StoreIsMemory, Values
<1>2. Restart(disk, ses) /\ ses.password = 0
  BY DEF Exit
<1> HIDE DEF ses
<1>3. /\ signedUp' = HasCryptoState(disk) /\ vaults' = disk["vaultMap"] /\ AtRest'
      /\ \A c \in Calls : call'[c] = NoCall
      /\ \A k \in VaultKeys : store'[k] = disk[k]
      /\ Locked'
  BY <1>2, StartsWith DEF Locked
<1>4. /\ \A c \in Calls : call'[c].pc = "idle"
      /\ ~Doing({"change.cipher"})' /\ ~Doing({"signUp.mac", "signUp.counter"})'
      /\ \A c \in Calls : ~At(c, "signUp.cipher")' /\ ~At(c, "change.cipher")'
  <2>1. \A c \in Calls : call'[c].pc = "idle"
    BY <1>3 DEF NoCall
  <2> QED
    BY <2>1 DEF Doing, At
<1>5. CASE disk["passwordCipher"] = Null
  <2>1. \A i \in DOMAIN writes : writes[i].key # "vaultMap"
    BY <1>5 DEF EraseOrder
  <2>2. disk["vaultMap"] = <<>>
    BY <1>1, <2>1, OnDisk, TheKeys DEF IInv, SelectionInv
  <2>3. Cut'
    BY <1>1, <1>3, <1>5, <2>2 DEF Cut, HasCryptoState
  <2> QED
    BY <1>3, <2>3
<1>6. CASE disk["passwordCipher"] # Null
  <2>1. disk["userPasswordMac"] = disk["passwordCipher"]
    BY <1>6 DEF EraseOrder
  <2>2. signedUp' /\ WholeInv'
    BY <1>1, <1>3, <1>4, <1>6, <2>1 DEF WholeInv, HasCryptoState
  <2> QED
    BY <1>3, <1>6, <2>2
<1> QED
  BY <1>5, <1>6

\* After that no call of the services begins, until a lock or an end of the program
\* makes the wallet one that can be set up again.
LEMMA CutCalls ==
    ASSUME Cut, NEW c \in Calls
    PROVE  ~VaultStep(c) /\ ~KeyRingStep(c)
<1>1. /\ call[c].pc = "idle" /\ ~signedUp /\ ~HasCryptoState(store) /\ ~CanSignUp
  BY TheKeys DEF Cut, AtRest, NoCall, HasCryptoState, CanSignUp
<1>2. ~CanUnlock /\ ~CanCheck
  BY <1>1 DEF CanUnlock, CanCheck
<1>3. /\ ~\E user \in UserPasswords : Unlock(c, user)
      /\ ~\E prev, new \in UserPasswords : ChangePassword(c, prev, new)
      /\ ~\E user \in UserPasswords : Create(c, user)
      /\ ~\E id \in VaultIds, user \in UserPasswords : DeleteKeyRing(c, id, user)
  <2>1. ASSUME NEW user \in UserPasswords PROVE ~Unlock(c, user)
    BY <1>2 DEF Unlock
  <2>2. ASSUME NEW prev \in UserPasswords, NEW new \in UserPasswords PROVE ~ChangePassword(c, prev, new)
    BY <1>2 DEF ChangePassword, CheckFrom
  <2>3. ASSUME NEW user \in UserPasswords PROVE ~Create(c, user)
    BY <1>1 DEF Create, SignUpFrom
  <2>4. ASSUME NEW id \in VaultIds, NEW user \in UserPasswords PROVE ~DeleteKeyRing(c, id, user)
    BY <1>2 DEF DeleteKeyRing, CheckFrom
  <2> QED
    BY <2>1, <2>2, <2>3, <2>4
<1>4. /\ ~UnlockAccepted(c) /\ ~UnlockRejected(c) /\ ~SignUpWritesCipher(c) /\ ~SignUpWritesMac(c)
      /\ ~SignUpWritesCounter(c) /\ ~SignUpUnlocks(c) /\ ~ChangeEncrypts(c) /\ ~ChangeWritesCipher(c)
      /\ ~ChangeWritesMac(c) /\ ~ChangeReturns(c) /\ \A pc \in CheckPcs : ~CheckRejected(c, pc)
  BY <1>1 DEF At, UnlockAccepted, UnlockRejected, SignUpWritesCipher, SignUpWritesMac, SignUpWritesCounter,
     SignUpUnlocks, ChangeEncrypts, ChangeWritesCipher, ChangeWritesMac, ChangeReturns, CheckRejected, CheckPcs
<1>5. /\ ~ClearAllErases(c) /\ ~ClearAllErased(c) /\ ~ClearAllReturns(c) /\ ~UnlockReturns(c)
      /\ ~CreateAdds(c) /\ ~CreateRejected(c) /\ ~DeleteRemoves(c) /\ ~DeleteRejected(c)
  BY <1>1 DEF At, ClearAllErases, ClearAllErased, ClearAllReturns, UnlockReturns, CreateAdds, CreateRejected,
     DeleteRemoves, DeleteRejected
<1> QED
  BY <1>3, <1>4, <1>5 DEF VaultStep, KeyRingStep, CheckPcs

LEMMA CutStep ==
    ASSUME IInv, Cut, [Next]_vars
    PROVE  /\ WholeInv' \/ Cut'
           /\ (Cut /\ Locked)' => Locked
           /\ ~signedUp' /\ vaults' = <<>> /\ AtRest'
           /\ Locked => Locked'
<1> USE DEF memory, storage
<1>1. /\ writes = <<>> /\ vaults = <<>> /\ ~signedUp /\ ~HasCryptoState(store)
      /\ \A c \in Calls : call[c] = NoCall
  BY TheKeys DEF Cut, AtRest, HasCryptoState
<1>2. /\ ~\E id \in VaultIds : SelectKeyRing(id)
      /\ ~FlushWrite
  BY <1>1 DEF SelectKeyRing, HasVault, Range, FlushWrite, Settle
<1>3. CASE Lock \/ RemoveSessionCounter \/ UNCHANGED vars
  <2>1. UNCHANGED <<signedUp, vaults, store, writes, call>> /\ password' \in {0, password}
    BY <1>3 DEF Lock, RemoveSessionCounter, vars
  <2>2. AtRest' /\ ~signedUp' /\ vaults' = <<>> /\ (Locked => Locked')
    BY <1>1, <2>1 DEF AtRest, Locked
  <2>3. CASE ~Locked'
    BY <2>1, <2>2, <2>3 DEF Cut, Locked
  <2>4. CASE Locked /\ Locked'
    BY <2>1, <2>2, <2>4 DEF Cut
  <2>5. CASE ~Locked /\ Locked'
    <3>1. \A k \in CryptoKeys : store'[k] = Null
      BY <2>1, <2>5 DEF Cut
    <3>2. WholeInv'
      BY <1>1, <2>1, <2>2, <2>5, <3>1, FreshWhole
    <3> QED
      BY <2>2, <2>5, <3>1, <3>2, TheKeys DEF Cut
  <2> QED
    BY <2>2, <2>3, <2>4, <2>5
<1>4. ASSUME NEW s \in {store, disk}, NEW ses \in {session, [password |-> 0, aesCounter |-> 0]}, Restart(s, ses)
      PROVE  /\ WholeInv' \/ Cut'
             /\ (Cut /\ Locked)' => Locked
             /\ ~signedUp' /\ vaults' = <<>> /\ AtRest'
             /\ Locked => Locked'
  <2>1. \A k \in StoreKeys : s[k] = store[k]
    BY <1>1, OnDisk DEF IInv, SelectionInv
  <2>2. /\ signedUp' = HasCryptoState(s) /\ vaults' = s["vaultMap"] /\ AtRest'
        /\ password' = (IF ServiceWorker /\ ses.password # 0 /\ ses.aesCounter # 0 THEN ses.password ELSE 0)
        /\ \A c \in Calls : call'[c] = NoCall
        /\ \A k \in VaultKeys : store'[k] = s[k]
    BY <1>4, StartsWith
  <2>3. /\ ~signedUp' /\ vaults' = <<>>
        /\ \A k \in CryptoKeys : store'[k] = store[k]
    <3>1. store["vaultMap"] = <<>>
      BY <1>1 DEF IInv, SelectionInv, StoreIsMemory
    <3> QED
      BY <1>1, <2>1, <2>2, <3>1, TheKeys DEF HasCryptoState, CryptoKeys, VaultKeys
  <2>4. Locked => Locked'
    <3>1. ~Erasing
      BY <1>1 DEF Erasing, Doing, NoCall
    <3> QED
      BY <2>2, <3>1 DEF IInv, SerialInv, LockedInSession, Locked
  <2>5. CASE Locked
    BY <2>2, <2>3, <2>4, <2>5, TheKeys DEF Cut
  <2>6. CASE ~Locked /\ ~Locked'
    BY <2>2, <2>3, <2>6 DEF Cut
  <2>7. CASE ~Locked /\ Locked'
    <3>1. \A k \in CryptoKeys : store'[k] = Null
      BY <2>3, <2>7 DEF Cut
    <3>2. WholeInv'
      BY <2>2, <2>3, <2>7, <3>1, FreshWhole
    <3> QED
      BY <2>2, <2>3, <2>7, <3>1, <3>2, TheKeys DEF Cut
  <2> QED
    BY <2>2, <2>3, <2>4, <2>5, <2>6, <2>7
<1>5. CASE Kill \/ Exit
  BY <1>4, <1>5 DEF Kill, Exit
<1> QED
  BY <1>2, <1>3, <1>5, CutCalls DEF Next

\* The order of the erasures, from the step that issues them ...
LEMMA EraseOrdered ==
    ASSUME OneCall, IInv, WholeInv, NEW c \in Calls, ClearAllErases(c)
    PROVE  EraseOrder'
<1> DEFINE n == Len(writes)
           e == ErasureOf(c)
<1>1. /\ StorageOK /\ QueueOK /\ Coherent(store, disk, writes) /\ CallsOK /\ CallReady(call[c])
      /\ call[c].pc = "clear.check" /\ Checked(c) /\ UNCHANGED disk /\ writes' = writes \o e
      /\ call'[c].user = call[c].user
  BY DEF IInv, TypeInv, CallsOK, CallType, SelectionInv, SerialInv, ClearAllErases, At, Goto, Issue, ErasureOf
<1>2. Clear(writes) /\ ~Erasing
  BY <1>1, NoneAwaited DEF Awaited
<1>3. call[c].user \in UserPasswords
  BY <1>1, NullAssumption DEF CallReady, Cipher, Checked, PasswordMatches, CheckPcs, CallsOK, CallType
<1>4. /\ disk["userPasswordMac"] = disk["passwordCipher"] /\ disk["passwordCipher"] # Null
  <2>1. signedUp /\ ~Doing({"change.cipher"})
    BY <1>1, TheCall DEF IInv, SerialInv, StepsOK
  <2>2. store["passwordCipher"] = store["userPasswordMac"] /\ store["passwordCipher"] # Null
    BY <2>1 DEF WholeInv, IInv, SerialInv, SignedUpOK, HasCryptoState
  <2>3. \A k \in CryptoKeys : disk[k] = store[k]
    BY <1>1, <1>2, ClearValues, OnDisk, TheKeys
  <2> QED
    BY <2>2, <2>3, TheKeys
<1>5. /\ n \in Nat /\ DOMAIN writes' = 1 .. n + 4
      /\ \A i \in DOMAIN writes : writes'[i] = writes[i] /\ i \in 1 .. n
      /\ \A i \in 1 .. 4 : writes'[n + i] = e[i]
      /\ \A i \in DOMAIN writes' : i \in DOMAIN writes \/ (i > n /\ i - n \in 1 .. 4)
  <2>1. /\ e \in Seq(WriteType) /\ writes \in Seq(WriteType) /\ writes' = writes \o e
        /\ Len(e) = 4 /\ DOMAIN e = 1 .. 4
    BY <1>1, ErasureIs DEF StorageOK
  <2> HIDE DEF e
  <2>2. /\ DOMAIN writes' = 1 .. Len(writes) + 4 /\ Len(writes) \in Nat
        /\ DOMAIN writes = 1 .. Len(writes)
    <3>1. Len(writes \o e) = Len(writes) + Len(e) /\ writes \o e \in Seq(WriteType)
      BY <2>1, ConcatProperties
    <3> QED
      BY <2>1, <3>1, LenProperties
  <2>3. \A i \in DOMAIN writes : writes'[i] = writes[i]
    BY <2>1, ConcatAt
  <2>4. \A i \in 1 .. 4 : writes'[Len(writes) + i] = e[i]
    BY <2>1, ConcatAt
  <2>5. \A i \in DOMAIN writes' : i \in DOMAIN writes \/ (i > Len(writes) /\ i - Len(writes) \in 1 .. 4)
    BY <2>2
  <2> QED
    BY <2>2, <2>3, <2>4, <2>5
<1>6. /\ e[1].key = "vaultMap" /\ e[2].key = "passwordCipher"
      /\ e[3].key = "userPasswordMac" /\ e[4].key = "aesCounterCipher"
  BY ErasureIs DEF Write
<1> HIDE DEF n, e
<1>7. ASSUME NEW i \in DOMAIN writes'
      PROVE  /\ writes'[i].key = "passwordCipher" => i = n + 2
             /\ writes'[i].key = "userPasswordMac" => i = n + 3
             /\ writes'[i].key = "vaultMap" => i < n + 2
  <2>1. CASE i \in DOMAIN writes
    BY <1>2, <1>5, <2>1, TheKeys DEF Clear
  <2>2. CASE i > n /\ i - n \in 1 .. 4
    <3>1. i = n + 1 \/ i = n + 2 \/ i = n + 3 \/ i = n + 4
      BY <1>5, <2>2
    <3> QED
      BY <1>5, <1>6, <3>1
  <2> QED
    BY <1>5, <2>1, <2>2
<1>8. n + 2 \in DOMAIN writes' /\ writes'[n + 2].key = "passwordCipher" /\ n + 2 < n + 3
  BY <1>5, <1>6
<1>9. \A d \in Calls : call'[d].user \in UserPasswords
  BY <1>1, <1>3, TheCall
<1> QED
  BY <1>1, <1>4, <1>7, <1>8, <1>9 DEF EraseOrder

\* ... to the last of them.
LEMMA EraseFlushed ==
    ASSUME IInv, EraseOrder, FlushWrite
    PROVE  EraseOrder'
<1> SUFFICES ASSUME Erasing PROVE EraseOrder'
  BY DEF EraseOrder, Erasing, Doing, FlushWrite
<1> DEFINE t == Tail(writes)
<1>1. /\ StorageOK /\ QueueOK /\ UNCHANGED call /\ writes # <<>> /\ writes' = t
      /\ disk' = Put(disk, <<writes[1]>>) /\ DOMAIN disk = StoreKeys /\ 1 \in DOMAIN writes
  <2>1. /\ UNCHANGED call /\ writes # <<>> /\ writes' = t \o <<>> /\ t \in Seq(WriteType)
        /\ StorageOK /\ QueueOK /\ disk' = Put(disk, <<Head(writes)>>)
    BY HeadIsWrite DEF FlushWrite, Settle, IInv, TypeInv, SerialInv
  <2>2. Head(writes) = writes[1] /\ 1 \in DOMAIN writes
    BY <2>1, HeadIsWrite, LenProperties DEF StorageOK
  <2> HIDE DEF t
  <2> QED
    BY <2>1, <2>2, ConcatEmptySeq DEF StorageOK, StoreOK
<1>2. /\ \A i \in DOMAIN t : i + 1 \in DOMAIN writes /\ t[i] = writes[i + 1] /\ i \in Int
      /\ \A i \in DOMAIN writes : i # 1 => i - 1 \in DOMAIN t /\ i \in Int /\ t[i - 1] = writes[i]
      /\ \A i \in DOMAIN writes : i \in Int /\ i >= 1
  <2>1. Len(t) = Len(writes) - 1 /\ (\A i \in 1 .. Len(t) : t[i] = writes[i + 1])
        /\ DOMAIN t = 1 .. Len(t) /\ DOMAIN writes = 1 .. Len(writes) /\ Len(writes) \in Nat \ {0}
    BY <1>1, HeadIsWrite, HeadTailProperties, LenProperties DEF StorageOK
  <2> HIDE DEF t
  <2>2. \A i \in DOMAIN t : i + 1 \in DOMAIN writes /\ t[i] = writes[i + 1] /\ i \in Int
    BY <2>1
  <2>3. ASSUME NEW i \in DOMAIN writes, i # 1
        PROVE  i - 1 \in DOMAIN t /\ i \in Int /\ t[i - 1] = writes[i]
    <3>1. i - 1 \in 1 .. Len(t) /\ (i - 1) + 1 = i
      BY <2>1, <2>3
    <3> QED
      BY <2>1, <3>1
  <2> QED
    BY <2>1, <2>2, <2>3
<1> HIDE DEF t
<1>3. \A k \in CryptoKeys : disk'[k] = IF writes[1].key = k THEN Null ELSE disk[k]
  <2>1. \A k \in CryptoKeys : disk'[k] = IF writes[1].key = k THEN writes[1].val ELSE disk[k]
    BY <1>1, PutAt, TheKeys
  <2>2. writes[1].key \in CryptoKeys => writes[1].val = Null
    BY <1>1 DEF QueueOK
  <2> QED
    BY <2>1, <2>2
<1>4. \A c \in Calls : At(c, "clear.erased")' => call'[c].user \in UserPasswords
  BY <1>1 DEF EraseOrder, At
<1>5. ASSUME disk'["passwordCipher"] # Null
      PROVE  /\ disk'["userPasswordMac"] = disk'["passwordCipher"]
             /\ \A i \in DOMAIN writes' : writes'[i].key = "userPasswordMac" =>
                   \E j \in DOMAIN writes' : j < i /\ writes'[j].key = "passwordCipher"
  <2>1. writes[1].key # "passwordCipher" /\ disk'["passwordCipher"] = disk["passwordCipher"]
    BY <1>3, <1>5, TheKeys
  <2>2. /\ disk["userPasswordMac"] = disk["passwordCipher"]
        /\ \A i \in DOMAIN writes : writes[i].key = "userPasswordMac" =>
              \E j \in DOMAIN writes : j < i /\ writes[j].key = "passwordCipher"
    BY <1>5, <2>1 DEF EraseOrder
  <2>3. writes[1].key # "userPasswordMac"
    BY <1>1, <1>2, <2>2
  <2>4. disk'["userPasswordMac"] = disk["userPasswordMac"]
    BY <1>3, <2>3, TheKeys
  <2>5. ASSUME NEW i \in DOMAIN t, t[i].key = "userPasswordMac"
        PROVE  \E j \in DOMAIN t : j < i /\ t[j].key = "passwordCipher"
    <3>1. PICK j \in DOMAIN writes : j < i + 1 /\ writes[j].key = "passwordCipher"
      BY <1>2, <2>2, <2>5
    <3>2. j - 1 \in DOMAIN t /\ t[j - 1] = writes[j] /\ j - 1 < i
      BY <1>2, <2>1, <3>1
    <3> QED
      BY <3>1, <3>2
  <2> QED
    BY <1>1, <2>1, <2>2, <2>4, <2>5
<1>6. ASSUME disk'["passwordCipher"] = Null, NEW i \in DOMAIN writes' PROVE writes'[i].key # "vaultMap"
  <2>1. i + 1 \in DOMAIN writes /\ writes'[i] = writes[i + 1] /\ i \in Int /\ i + 1 > 1
    <3>1. i \in DOMAIN t /\ i + 1 \in DOMAIN writes /\ t[i] = writes[i + 1] /\ i \in Int
      BY <1>1, <1>2, <1>6
    <3>2. i + 1 >= 1 /\ i + 1 # 1
      <4>1. i >= 1
        BY <1>1, <3>1, LenProperties DEF t, StorageOK
      <4> QED
        BY <3>1, <4>1
    <3> QED
      BY <1>1, <3>1, <3>2
  <2>2. CASE disk["passwordCipher"] = Null
    BY <2>1, <2>2 DEF EraseOrder
  <2>3. CASE disk["passwordCipher"] # Null
    <3>1. writes[1].key = "passwordCipher"
      BY <1>3, <1>6, <2>3, TheKeys
    <3>2. writes[i + 1].key = "vaultMap" => i + 1 < 1
      BY <1>1, <2>1, <3>1 DEF EraseOrder
    <3> QED
      BY <2>1, <3>2
  <2> QED
    BY <2>2, <2>3
<1>7. ASSUME NEW i \in DOMAIN writes', NEW j \in DOMAIN writes',
             writes'[i].key = "passwordCipher", writes'[j].key = "vaultMap"
      PROVE  j < i
  <2>1. /\ i \in Int /\ j \in Int /\ i + 1 \in DOMAIN writes /\ j + 1 \in DOMAIN writes
        /\ writes[i + 1].key = "passwordCipher" /\ writes[j + 1].key = "vaultMap"
    BY <1>1, <1>2, <1>7
  <2>2. j + 1 < i + 1
    BY <2>1 DEF EraseOrder
  <2> QED
    BY <2>1, <2>2
<1> QED
  BY <1>4, <1>5, <1>6, <1>7 DEF EraseOrder

LEMMA RestStep ==
    ASSUME OneCall, ~TearCredentials, IInv, IInv', RestInv, [Next]_vars
    PROVE  RestInv'
<1> USE DEF memory, storage
<1>1. EraseOrder'
  <2>1. ASSUME NEW c \in Calls, VaultStep(c) \/ KeyRingStep(c) PROVE EraseOrder'
    <3>1. CASE ClearAllErases(c)
      <4>1. WholeInv
        BY <2>1, CutCalls DEF RestInv
      <4> QED
        BY <3>1, <4>1, EraseOrdered
    <3>2. CASE ~ClearAllErases(c)
      <4>1. ~Erasing'
        BY <2>1, <3>2, OnlyErases, TheCall DEF Erasing, IInv, TypeInv
      <4> QED
        BY <4>1 DEF EraseOrder
    <3> QED
      BY <3>1, <3>2
  <2>2. ASSUME NEW id \in VaultIds, SelectKeyRing(id) PROVE EraseOrder'
    <3>1. ~Erasing /\ UNCHANGED call
      BY <2>2 DEF SelectKeyRing, IInv, SerialInv, ErasingOK
    <3> QED
      BY <3>1 DEF EraseOrder, Erasing, Doing
  <2>3. CASE Lock \/ RemoveSessionCounter \/ UNCHANGED vars
    <3>1. UNCHANGED <<call, disk, writes>>
      BY <2>3 DEF Lock, RemoveSessionCounter, vars
    <3> QED
      BY <3>1 DEF RestInv, EraseOrder, Erasing, Doing, At
  <2>4. CASE FlushWrite
    BY <2>4, EraseFlushed DEF RestInv
  <2>5. CASE Kill \/ Exit
    <3>1. ~Erasing'
      BY <2>5, StartsWith DEF Kill, Exit
    <3> QED
      BY <3>1 DEF EraseOrder
  <2> QED
    BY <2>1, <2>2, <2>3, <2>4, <2>5 DEF Next
<1>2. CASE Cut
  BY <1>1, <1>2, CutStep DEF RestInv
<1>3. CASE WholeInv /\ Erasing /\ (Kill \/ Exit)
  BY <1>1, <1>3, EraseKilled, EraseExited DEF RestInv
<1>4. CASE WholeInv /\ ~(Erasing /\ (Kill \/ Exit))
  BY <1>1, <1>4, WholeStep DEF RestInv
<1> QED
  BY <1>2, <1>3, <1>4 DEF RestInv

LEMMA WholeInit == Init => WholeInv
<1> SUFFICES ASSUME Init PROVE WholeInv
  OBVIOUS
<1>1. /\ \A k \in CryptoKeys : store[k] = Null
      /\ ~signedUp /\ password = 0
      /\ \A c \in Calls : call[c].pc = "idle"
  BY TheKeys DEF Init, EmptyStore, StoreKeys, VaultKeys, NoCall
<1> QED
  BY <1>1, TheKeys DEF WholeInv, Locked, Doing, At

LEMMA RestAlways ==
    ASSUME OneCall, ~TearCredentials
    PROVE  /\ Init => IInv /\ RestInv
           /\ IInv /\ RestInv /\ [Next]_vars => (IInv /\ RestInv)'
<1>1. Init => IInv /\ RestInv
  <2>1. Init => ~Erasing
    BY DEF Init, Erasing, Doing, NoCall
  <2> QED
    BY <2>1, IInvHolds, WholeInit DEF RestInv, EraseOrder
<1>2. ASSUME IInv, RestInv, [Next]_vars PROVE (IInv /\ RestInv)'
  <2>1. IInv'
    BY <1>2, IInvHolds
  <2>2. RestInv'
    BY <1>2, <2>1, RestStep
  <2> QED
    BY <2>1, <2>2
<1> QED
  BY <1>1, <1>2

LEMMA RestHolds ==
    ASSUME OneCall, ~TearCredentials
    PROVE  Spec => [](IInv /\ RestInv)
BY RestAlways, PTL DEF Spec

LEMMA NoneDoing ==
    ASSUME AtRest
    PROVE  \A pcs : "idle" \notin pcs => ~Doing(pcs)
BY DEF AtRest, Doing, NoCall

\* The password that was set opens a wallet at rest and all its key rings, with one
\* call at a time and a program that does not end between the writes of new credentials
\* (the run of the torn writes shows what happens otherwise).
THEOREM RestingUnlocks ==
    ASSUME OneCall, ~TearCredentials
    PROVE  Spec => []SignedUpIsUnlockable
<1>1. IInv /\ RestInv => SignedUpIsUnlockable
  <2> SUFFICES ASSUME IInv, RestInv, Quiet, signedUp
               PROVE  \E user \in UserPasswords :
                         /\ PasswordMatches(user, Credentials)
                         /\ store["aesCounterCipher"] # Null
                         /\ \A v \in Range(vaults) :
                               /\ v.key = store["passwordCipher"].key
                               /\ v.counter = AesDecrypt(v.key, store["aesCounterCipher"])
    BY DEF SignedUpIsUnlockable
  <2>1. WholeInv /\ ~Doing({"change.cipher"})
    BY NoneDoing DEF RestInv, Cut, Quiet
  <2>2. /\ store["passwordCipher"] = store["userPasswordMac"]
        /\ store["aesCounterCipher"] # Null /\ HasCryptoState(store)
    BY <2>1 DEF WholeInv, IInv, SerialInv, SignedUpOK
  <2>3. /\ store["userPasswordMac"] \in Cipher
        /\ store["userPasswordMac"].key = keysDrawn
        /\ store["aesCounterCipher"] = AesEncrypt(keysDrawn, keysDrawn)
    BY <2>2, StoreTypes
       DEF IInv, TypeInv, StorageOK, HasCryptoState, SerialInv, StoredUnderKey, Values, MacOfKey, CounterOfKey
  <2>4. AesDecrypt(keysDrawn, AesEncrypt(keysDrawn, keysDrawn)) = keysDrawn
    BY DEF AesDecrypt, AesEncrypt
  <2>5. \A v \in Range(vaults) : v.key = keysDrawn /\ v.counter = keysDrawn
    <3>1. OfKey(vaults)
      BY DEF IInv, SerialInv, StoredUnderKey, Values, SelectionInv, StoreIsMemory
    <3> QED
      BY <3>1 DEF OfKey, Range
  <2>6. store["userPasswordMac"].user \in UserPasswords
    BY <2>3 DEF Cipher
  <2>7. PasswordMatches(store["userPasswordMac"].user, Credentials)
    BY <2>2 DEF PasswordMatches, Credentials
  <2> QED
    BY <2>2, <2>3, <2>4, <2>5, <2>6, <2>7
<1> QED
  BY <1>1, RestHolds, PTL

\* The wallets at rest that refuse a sign-up are those whose clearAll was cut short.
RefusesIfCut ==
    /\ AtRest /\ ~signedUp => vaults = <<>>
    /\ RefusesSignUp <=> Cut
    /\ ~(WholeInv /\ Cut)

LEMMA RefusesIs ==
    ASSUME IInv, RestInv
    PROVE  RefusesIfCut
<1>1. CASE Cut
  BY <1>1, NoneDoing, TheKeys DEF Cut, WholeInv, RefusesSignUp, CanSignUp, RefusesIfCut
<1>2. CASE WholeInv /\ AtRest /\ ~signedUp
  <2>1. ~Doing({"signUp.mac", "signUp.counter"}) /\ ~Erasing
    BY <1>2, NoneDoing DEF Erasing
  <2>2. store["userPasswordMac"] = Null /\ store["aesCounterCipher"] = Null /\ Locked
    BY <1>2, <2>1 DEF WholeInv
  <2>3. vaults = <<>>
    BY <2>1, <2>2 DEF IInv, SerialInv, NoVaultsYet, SelectionInv, StoreIsMemory, Values
  <2>4. CanSignUp
    BY <1>2, <2>2 DEF CanSignUp, HasCryptoState
  <2> QED
    BY <2>2, <2>3, <2>4 DEF RefusesSignUp, Cut, RefusesIfCut
<1>3. CASE ~(AtRest /\ ~signedUp)
  BY <1>3 DEF RefusesSignUp, Cut, RefusesIfCut
<1> QED
  BY <1>1, <1>2, <1>3 DEF RestInv

\* A wallet at rest that is not signed up is empty, and it accepts a sign-up unless
\* the program ended while clearAll was erasing, under the same two conditions: the
\* end of the worker leaves it open until a lock, and only the end of the browser
\* leaves it locked and refusing.
THEOREM RestingSignsUp ==
    ASSUME OneCall, ~TearCredentials
    PROVE  Spec => SignedOutCanSignUp
<1> DEFINE erasing == \E c \in Calls : At(c, "clear.erased")
           A == /\ AtRest' /\ ~signedUp' => vaults' = <<>>
                /\ RefusesSignUp' => RefusesSignUp \/ (erasing /\ (Kill \/ Exit))
                /\ (RefusesSignUp /\ Locked)' => (RefusesSignUp /\ Locked) \/ (erasing /\ Exit)
<1>1. ASSUME IInv, IInv', RestInv, RestInv', RefusesIfCut, RefusesIfCut', [Next]_vars PROVE A
  <2>1. erasing <=> Erasing
    BY DEF Erasing, Doing, At
  <2>2. /\ (RefusesSignUp => Cut) /\ (Cut => RefusesSignUp)
        /\ RefusesSignUp' => Cut' /\ ~WholeInv'
        /\ AtRest' /\ ~signedUp' => vaults' = <<>>
    BY <1>1 DEF RefusesIfCut
  <2>3. CASE Cut
    BY <1>1, <2>2, <2>3, CutStep
  <2>4. CASE ~Cut
    <3>1. WholeInv
      BY <1>1, <2>4 DEF RestInv
    <3>2. RefusesSignUp' => Erasing /\ (Kill \/ Exit)
      BY <1>1, <2>2, <3>1, WholeStep
    <3>3. Erasing /\ Kill => ~(Cut /\ Locked)'
      BY <1>1, EraseKilled, TheKeys DEF Cut
    <3> QED
      BY <2>1, <2>2, <3>2, <3>3
  <2> QED
    BY <2>3, <2>4
<1>2. /\ IInv /\ RestInv => RefusesIfCut
      /\ IInv /\ RestInv /\ RefusesIfCut /\ (IInv /\ RestInv /\ RefusesIfCut)' /\ [Next]_vars => [A]_vars
  BY <1>1, RefusesIs
<1> HIDE DEF A
<1>3. Spec => [][A]_vars
  BY <1>2, RestHolds, PTL DEF Spec
<1> QED
  BY <1>3 DEF SignedOutCanSignUp, A
-----------------------------------------------------------------------------
(* The key rings implement the abstract wallet.  What a call has read before *)
(* it waits is still so when it goes on, because no other call writes it.    *)

AskedInv ==
    \A c \in Calls :
        /\ call[c].pc \in SignUpPcs => call[c].op = "create"
        /\ call[c].pc \in {"signUp.mac", "signUp.counter", "change.derive", "change.cipher"} =>
              store["userPasswordMac"].user = call[c].user
        /\ call[c].pc \in CheckPcs => call[c].cred = Credentials /\ signedUp

\* The mac clearAll has not erased yet is of the password it was called with.
LeavingInv ==
    \A c \in Calls : At(c, "clear.erased") /\ disk["passwordCipher"] # Null =>
        disk["userPasswordMac"].user = call[c].user

LEMMA PcsAre ==
    /\ SignUpPcs \cap CheckPcs = {}
    /\ \A pc \in SignUpPcs \cup CheckPcs \cup {"change.derive", "change.cipher"} :
          pc \notin {"idle", "unlock.derive", "unlock.session", "create.vault", "change.mac",
                     "clear.erased", "clear.session"}
BY DEF SignUpPcs, CheckPcs

\* The request of a call.
LEMMA RequestIs ==
    ASSUME NEW r \in CallType
    PROVE  /\ NextStep(r) = "none" => Request(r) = Null
           /\ NextStep(r) # "none" =>
                 /\ Request(r) \in Promise!Requests /\ Request(r) # Null
                 /\ Request(r).step = NextStep(r) /\ Request(r).password = r.user
                 /\ Request(r).new = r.newUser
                 /\ r.id # 0 => Request(r).keyRing = r.id
<1>1. NextStep(r) \in {"none", "signUp", "enter", "unlock", "create", "change", "delete", "signOut"}
  BY DEF NextStep
<1>2. /\ r.user \in UserPasswords \cup {Null} /\ r.newUser \in UserPasswords \cup {Null}
      /\ (IF r.id = 0 THEN Null ELSE r.id) \in VaultIds \cup {Null}
  BY DEF CallType
<1>3. NextStep(r) # "none" => Request(r) \in Promise!Requests
  BY <1>1, <1>2 DEF Request, Promise!Requests
<1> QED
  BY <1>3, AbsentAssumption DEF Request

\* What is left of a request when its step is done is the request of the call then.
LEMMA RestIs ==
    ASSUME NEW r \in CallType, NEW s \in CallType, NextStep(r) # "none",
           s.user = r.user, s.newUser = r.newUser, s.id = r.id,
           \/ NextStep(r) = "signUp" /\ NextStep(s) = "enter"
           \/ NextStep(r) = "enter"  /\ NextStep(s) = "create"
           \/ NextStep(r) = "delete" /\ NextStep(s) = "signOut"
    PROVE  Request(s) = Promise!Rest(Request(r))
<1>1. Request(r) = [step |-> NextStep(r), password |-> r.user, new |-> r.newUser,
                    keyRing |-> IF r.id = 0 THEN Null ELSE r.id]
  BY DEF Request
<1>2. Request(s) = [step |-> NextStep(s), password |-> r.user, new |-> r.newUser,
                    keyRing |-> IF r.id = 0 THEN Null ELSE r.id]
  BY DEF Request
<1>3. CASE NextStep(r) = "signUp" /\ NextStep(s) = "enter"
  BY <1>1, <1>2, <1>3 DEF Promise!Rest
<1>4. CASE NextStep(r) = "enter" /\ NextStep(s) = "create"
  BY <1>1, <1>2, <1>4 DEF Promise!Rest
<1>5. CASE NextStep(r) = "delete" /\ NextStep(s) = "signOut"
  BY <1>1, <1>2, <1>5 DEF Promise!Rest
<1> QED
  BY <1>3, <1>4, <1>5

\* The call becomes r.
LEMMA BecomesIs ==
    ASSUME OneCall, CallsOK, NEW c \in Calls, NEW r, call' = [call EXCEPT ![c] = r]
    PROVE  /\ call[c] \in CallType /\ call'[c] = r /\ \A d \in Calls : d = c
           /\ Asked[c] = Request(call[c])
           /\ Asked' = [Asked EXCEPT ![c] = Request(r)] /\ Asked'[c] = Request(r)
           /\ Request(r) = Request(call[c]) => Asked' = Asked
<1>1. call[c] \in CallType /\ call'[c] = r /\ \A d \in Calls : d = c
  BY DEF CallsOK, OneCall
<1>2. Asked' = [d \in Calls |-> Request(r)] /\ Asked = [d \in Calls |-> Request(call[c])]
  BY <1>1 DEF Asked
<1> QED
  BY <1>1, <1>2

\* The invariant after a step that only the call c has made.
LEMMA AskedAfter ==
    ASSUME OneCall, NEW c \in Calls,
           call'[c].pc \in SignUpPcs => call'[c].op = "create",
           call'[c].pc \in {"signUp.mac", "signUp.counter", "change.derive", "change.cipher"} =>
              store'["userPasswordMac"].user = call'[c].user,
           call'[c].pc \in CheckPcs => call'[c].cred = Credentials' /\ signedUp'
    PROVE  AskedInv'
<1>1. \A d \in Calls : d = c
  BY DEF OneCall
<1> QED
  BY <1>1 DEF AskedInv

LEMMA CredentialsSame ==
    ASSUME CredentialsKept
    PROVE  Credentials' = Credentials /\ (signedUp' = signedUp => Opener' = Opener)
<1>1. /\ store'["passwordCipher"] = store["passwordCipher"]
      /\ store'["userPasswordMac"] = store["userPasswordMac"]
      /\ store'["aesCounterCipher"] = store["aesCounterCipher"]
  BY TheKeys DEF CredentialsKept
<1> QED
  BY <1>1 DEF Credentials, Opener

\* The password of a wallet that is signed up.
LEMMA OpenerIs ==
    ASSUME IInv, signedUp
    PROVE  /\ Opener = store["userPasswordMac"].user /\ Opener \in UserPasswords /\ Opener # Null
           /\ store["userPasswordMac"] \in Cipher
<1>1. store["userPasswordMac"] \in Cipher
  BY StoreTypes DEF IInv, TypeInv, StorageOK, SerialInv, SignedUpOK, HasCryptoState
<1> QED
  BY <1>1, AbsentAssumption DEF Opener, Cipher

\* Who has been checked knows the password, and the wallet is open.
LEMMA CheckedKnows ==
    ASSUME IInv, AskedInv, NEW c \in Calls, call[c].pc \in CheckPcs, Checked(c)
    PROVE  signedUp /\ call[c].user = Opener /\ Opener # Null /\ Opened
<1>1. signedUp /\ call[c].cred = Credentials
  BY DEF AskedInv
<1>2. /\ store["userPasswordMac"] = store["passwordCipher"]
      /\ store["userPasswordMac"].user = call[c].user
      /\ store["passwordCipher"].key = password
  BY <1>1 DEF Checked, PasswordMatches, Credentials
<1>3. store["userPasswordMac"].key # 0
  BY <1>1, OpenerIs, NullAssumption
     DEF IInv, SerialInv, StoredUnderKey, Values, MacOfKey, SignedUpOK, HasCryptoState
<1> QED
  BY <1>1, <1>2, <1>3, OpenerIs DEF Opened, Locked

\* The storage of the abstract wallet.
LEMMA StoresStep ==
    ASSUME SelectionInv', StoresMap
    PROVE  Promise!Stores
<1>1. Stored = {Ids(vs) : vs \in Values("vaultMap")} /\ Stored' = {Ids(vs) : vs \in Values("vaultMap")'}
  BY DEF Stored, StoredMaps, Values, Written
<1>2. Held = Ids(vaults) /\ Held' = Ids(vaults')
  BY DEF Held, Ids
<1>3. vaults' \in Values("vaultMap")'
  BY DEF SelectionInv, StoreIsMemory, Values
<1> QED
  BY <1>1, <1>2, <1>3 DEF Promise!Stores, StoresMap

\* The sign-out that has not settled.
LEMMA LeavingIs ==
    /\ ~Erasing => Leaving = Null
    /\ OneCall => \A c \in Calls : At(c, "clear.erased") => Leaving = call[c].user
<1>1. ~Erasing => Leaving = Null
  BY DEF Erasing, Doing, Leaving, At
<1>2. ASSUME OneCall, NEW c \in Calls, At(c, "clear.erased") PROVE Leaving = call[c].user
  <2>1. (CHOOSE d \in Calls : At(d, "clear.erased")) = c
    BY <1>2 DEF OneCall
  <2> QED
    BY <1>2, <2>1 DEF Leaving
<1> QED
  BY <1>1, <1>2

LEMMA SettlesIs ==
    ASSUME Leaving' = Leaving \/ ~Erasing'
    PROVE  Promise!Settles
<1>1. ~Erasing' => Leaving' = Null
  BY DEF Erasing, Doing, Leaving, At
<1> QED
  BY <1>1 DEF Promise!Settles

LEMMA PromiseInit == Init => Promise!Init /\ AskedInv /\ LeavingInv
<1> SUFFICES ASSUME Init PROVE Promise!Init /\ AskedInv /\ LeavingInv
  OBVIOUS
<1>1. /\ \A c \in Calls : call[c] = NoCall /\ NextStep(call[c]) = "none"
      /\ \A c \in Calls : call[c].pc = "idle"
  BY DEF Init, NoCall, NextStep
<1>2. Asked = [c \in Calls |-> Null]
  BY <1>1 DEF Asked, Request
<1>3. Opener = Null /\ Opened = FALSE /\ Leaving = Null
  <2>1. ~Erasing
    BY <1>1 DEF Erasing, Doing
  <2> QED
    BY <2>1, LeavingIs DEF Init, Opener, Opened, Locked
<1>4. Ids(<<>>) = {}
  BY DEF Ids, Range
<1>5. Held = {} /\ Stored = {{}}
  <2>1. StoredMaps = {<<>>} /\ vaults = <<>>
    BY DEF Init, EmptyStore, StoreKeys, VaultKeys, StoredMaps
  <2> QED
    BY <1>4, <2>1 DEF Held, Stored
<1>6. AskedInv /\ LeavingInv
  BY <1>1, PcsAre DEF AskedInv, LeavingInv, At
<1> QED
  BY <1>2, <1>3, <1>5, <1>6 DEF Promise!Init
-----------------------------------------------------------------------------
(* The steps of the calls.                                                  *)

LEMMA SameWallet ==
    ASSUME UNCHANGED <<password, vaults>>
    PROVE  Opened' = Opened /\ Held' = Held
BY DEF Opened, Locked, Held, Ids

\* A step the user sees nothing of, a call that begins and one that is given up.
LEMMA Unseen ==
    ASSUME Promise!Stores, Promise!Settles, UNCHANGED <<Opener, Opened, Held>>,
           \/ Asked' = Asked
           \/ \E c \in Calls : Asked' = [Asked EXCEPT ![c] = Null]
           \/ \E c \in Calls : /\ Asked[c] = Null /\ Asked'[c] \in Promise!Requests
                               /\ Asked' = [Asked EXCEPT ![c] = Asked'[c]]
    PROVE  Promise!Next
<1>1. CASE Asked' = Asked
  BY <1>1 DEF Promise!Next
<1>2. ASSUME NEW c \in Calls, Asked' = [Asked EXCEPT ![c] = Null] PROVE Promise!Next
  BY <1>2 DEF Promise!Next, Promise!Drop
<1>3. ASSUME NEW c \in Calls, Asked[c] = Null, Asked'[c] \in Promise!Requests,
             Asked' = [Asked EXCEPT ![c] = Asked'[c]]
      PROVE  Promise!Next
  BY <1>3 DEF Promise!Next, Promise!Ask
<1> QED
  BY <1>1, <1>2, <1>3

\* A call that begins asks for what it will do.
LEMMA Begins ==
    ASSUME OneCall, CallsOK, Promise!Stores, Promise!Settles, NEW c \in Calls, NEW r \in CallType,
           call[c].pc = "idle", Start(c, r), NextStep(r) # "none",
           UNCHANGED <<Opener, Opened, Held>>
    PROVE  Promise!Next
<1>1. NextStep(call[c]) = "none"
  BY DEF NextStep
<1>2. Asked[c] = Null /\ Asked'[c] = Request(r) /\ Asked' = [Asked EXCEPT ![c] = Request(r)]
  BY <1>1, BecomesIs, RequestIs DEF Start
<1> QED
  BY <1>2, RequestIs, Unseen

\* A call that ends, with its request done or given up.
LEMMA Ends ==
    ASSUME OneCall, CallsOK, Promise!Stores, Promise!Settles, NEW c \in Calls, Finish(c),
           UNCHANGED <<Opener, Opened, Held>>
    PROVE  Promise!Next /\ AskedInv'
<1>1. NextStep(NoCall) = "none" /\ NoCall.pc = "idle"
  BY DEF NextStep, NoCall
<1>2. Asked' = [Asked EXCEPT ![c] = Null] /\ call'[c] = NoCall
  BY <1>1, BecomesIs, NoCallTyped, RequestIs DEF Finish
<1>3. AskedInv'
  BY <1>1, <1>2, AskedAfter, PcsAre
<1> QED
  BY <1>2, <1>3, Unseen

\* A call that goes on with the same request.
LEMMA GoesOn ==
    ASSUME OneCall, CallsOK, Promise!Stores, Promise!Settles, NEW c \in Calls, NEW r \in CallType,
           call' = [call EXCEPT ![c] = r], NextStep(r) = NextStep(call[c]),
           r.user = call[c].user, r.newUser = call[c].newUser, r.id = call[c].id,
           UNCHANGED <<Opener, Opened, Held>>
    PROVE  Promise!Next
<1>1. Request(r) = Request(call[c])
  BY DEF Request
<1> QED
  BY <1>1, BecomesIs, Unseen

\* A call goes to another wait.
LEMMA GotoIs ==
    ASSUME CallsOK, NEW c \in Calls, NEW pc \in CallPcs, Goto(c, pc)
    PROVE  \E r \in CallType :
              /\ call' = [call EXCEPT ![c] = r] /\ call'[c] = r
              /\ r.pc = pc /\ r.op = call[c].op /\ r.user = call[c].user
              /\ r.newUser = call[c].newUser /\ r.id = call[c].id /\ r.cred = call[c].cred
<1> DEFINE r == [call[c] EXCEPT !.pc = pc]
<1>1. r \in CallType
  BY DEF CallsOK, CallType
<1>2. call' = [call EXCEPT ![c] = r] /\ call'[c] = r
  BY DEF CallsOK, Goto
<1>3. /\ r.pc = pc /\ r.op = call[c].op /\ r.user = call[c].user
      /\ r.newUser = call[c].newUser /\ r.id = call[c].id /\ r.cred = call[c].cred
  BY DEF CallsOK, CallType
<1> QED
  BY <1>1, <1>2, <1>3

\* The steps that write one credential, up to the sign-up and to the new password.
LEMMA CredentialStep ==
    ASSUME OneCall, IInv, WholeInv, AskedInv, Promise!Stores, Promise!Settles, NEW c \in Calls,
           \/ SignUpWritesCipher(c) \/ SignUpWritesMac(c) \/ SignUpWritesCounter(c)
           \/ ChangeWritesCipher(c)
    PROVE  Promise!Next /\ AskedInv'
<1> USE DEF memory
<1> DEFINE up == EncryptPassword(call[c].user, call[c].key)
           cp == EncryptPassword(call[c].newUser, call[c].key)
           ct == AesEncrypt(call[c].key, call[c].key)
<1>1. /\ call[c] \in CallType /\ CallReady(call[c]) /\ StorageOK /\ CallsOK
      /\ UNCHANGED <<signedUp, password, vaults>>
  BY DEF IInv, TypeInv, CallsOK, SignUpWritesCipher, SignUpWritesMac, SignUpWritesCounter,
         ChangeWritesCipher
<1>2. up.user = call[c].user /\ ct \in CounterCipher
  BY <1>1 DEF CallType, AesEncrypt, CounterCipher, EncryptPassword
<1>3. /\ call[c].pc \in SignUpPcs => up \in Cipher /\ ~signedUp
      /\ call[c].pc \in ChangePcs => cp \in Cipher
  BY <1>1, TheCall DEF CallReady, CallType, EncryptPassword, Cipher, IInv, SerialInv, StepsOK
<1>4. Opened' = Opened /\ Held' = Held
  BY <1>1, SameWallet
<1>5. CASE SignUpWritesCipher(c)
  <2>1. call[c].pc = "signUp.derive" /\ Goto(c, "signUp.cipher") /\ call[c].pc \in SignUpPcs
    BY <1>5 DEF SignUpWritesCipher, At, SignUpPcs
  <2>2. PICK r \in CallType :
           /\ call' = [call EXCEPT ![c] = r] /\ call'[c] = r
           /\ r.pc = "signUp.cipher" /\ r.op = call[c].op /\ r.user = call[c].user
           /\ r.newUser = call[c].newUser /\ r.id = call[c].id
    BY <1>1, <2>1, GotoIs DEF CallPcs
  <2>3. NextStep(r) = NextStep(call[c])
    BY <2>1, <2>2 DEF NextStep
  <2>4. Opener' = Opener
    BY <1>1, <1>3, <2>1 DEF Opener
  <2>5. AskedInv'
    BY <2>1, <2>2, AskedAfter DEF AskedInv, CheckPcs
  <2> QED
    BY <1>1, <1>4, <2>2, <2>3, <2>4, <2>5, GoesOn
<1>6. CASE SignUpWritesMac(c)
  <2> DEFINE x == Write("userPasswordMac", up, c)
  <2>1. call[c].pc = "signUp.cipher" /\ Goto(c, "signUp.mac") /\ call[c].pc \in SignUpPcs /\ Moves(<<x>>)
    BY <1>6 DEF SignUpWritesMac, At, SignUpPcs, Moves
  <2>2. PICK r \in CallType :
           /\ call' = [call EXCEPT ![c] = r] /\ call'[c] = r
           /\ r.pc = "signUp.mac" /\ r.op = call[c].op /\ r.user = call[c].user
           /\ r.newUser = call[c].newUser /\ r.id = call[c].id
    BY <1>1, <2>1, GotoIs DEF CallPcs
  <2>3. NextStep(r) = NextStep(call[c])
    BY <2>1, <2>2 DEF NextStep
  <2>4. Opener' = Opener
    BY <1>1, <1>3, <2>1 DEF Opener
  <2>5. x \in WriteType /\ x.key = "userPasswordMac" /\ x.val = up
    BY <1>3, <2>1, WritesTyped DEF Write
  <2> HIDE DEF x
  <2>6. store'["userPasswordMac"] = up
    BY <1>1, <2>1, <2>5, OneStored, TheKeys
  <2>7. AskedInv'
    BY <1>2, <2>1, <2>2, <2>6, AskedAfter DEF AskedInv, CheckPcs
  <2> QED
    BY <1>1, <1>4, <2>2, <2>3, <2>4, <2>7, GoesOn
<1>7. CASE SignUpWritesCounter(c)
  <2> DEFINE x == Write("aesCounterCipher", ct, c)
  <2>1. call[c].pc = "signUp.mac" /\ Goto(c, "signUp.counter") /\ call[c].pc \in SignUpPcs /\ Moves(<<x>>)
    BY <1>7 DEF SignUpWritesCounter, At, SignUpPcs, Moves
  <2>2. PICK r \in CallType :
           /\ call' = [call EXCEPT ![c] = r] /\ call'[c] = r
           /\ r.pc = "signUp.counter" /\ r.op = call[c].op /\ r.user = call[c].user
           /\ r.newUser = call[c].newUser /\ r.id = call[c].id
    BY <1>1, <2>1, GotoIs DEF CallPcs
  <2>3. NextStep(r) = NextStep(call[c])
    BY <2>1, <2>2 DEF NextStep
  <2>4. Opener' = Opener
    BY <1>1, <1>3, <2>1 DEF Opener
  <2>5. x \in WriteType /\ x.key = "aesCounterCipher"
    BY <1>2, WritesTyped DEF Write
  <2> HIDE DEF x
  <2>6. store'["userPasswordMac"] = store["userPasswordMac"]
    BY <1>1, <2>1, <2>5, OneStored, TheKeys
  <2>7. AskedInv'
    BY <2>1, <2>2, <2>6, AskedAfter DEF AskedInv, CheckPcs
  <2> QED
    BY <1>1, <1>4, <2>2, <2>3, <2>4, <2>7, GoesOn
<1>8. CASE ChangeWritesCipher(c)
  <2> DEFINE x == Write("passwordCipher", cp, c)
  <2>1. call[c].pc = "change.derive" /\ Goto(c, "change.cipher") /\ call[c].pc \in ChangePcs /\ Moves(<<x>>)
    BY <1>8 DEF ChangeWritesCipher, At, ChangePcs, Moves
  <2>2. PICK r \in CallType :
           /\ call' = [call EXCEPT ![c] = r] /\ call'[c] = r
           /\ r.pc = "change.cipher" /\ r.op = call[c].op /\ r.user = call[c].user
           /\ r.newUser = call[c].newUser /\ r.id = call[c].id
    BY <1>1, <2>1, GotoIs DEF CallPcs
  <2>3. NextStep(r) = NextStep(call[c])
    BY <2>1, <2>2 DEF NextStep
  <2>4. x \in WriteType /\ x.key = "passwordCipher"
    BY <1>3, <2>1, WritesTyped DEF Write
  <2> HIDE DEF x
  <2>5. store'["userPasswordMac"] = store["userPasswordMac"]
    BY <1>1, <2>1, <2>4, OneStored, TheKeys
  <2>6. Opener' = Opener
    BY <1>1, <2>5 DEF Opener
  <2>7. AskedInv'
    BY <2>1, <2>2, <2>5, AskedAfter DEF AskedInv, CheckPcs, SignUpPcs
  <2> QED
    BY <1>1, <1>4, <2>2, <2>3, <2>6, <2>7, GoesOn
<1> QED
  BY <1>5, <1>6, <1>7, <1>8

\* A call does the step its request waits for.
LEMMA DoesStep ==
    ASSUME OneCall, CallsOK, NEW c \in Calls, NEW r \in CallType, call' = [call EXCEPT ![c] = r],
           NextStep(call[c]) # "none",
           \/ NextStep(r) = "none"
           \/ /\ r.user = call[c].user /\ r.newUser = call[c].newUser /\ r.id = call[c].id
              /\ \/ NextStep(call[c]) = "signUp" /\ NextStep(r) = "enter"
                 \/ NextStep(call[c]) = "enter"  /\ NextStep(r) = "create"
                 \/ NextStep(call[c]) = "delete" /\ NextStep(r) = "signOut"
    PROVE  /\ Promise!Does(c, NextStep(call[c]))
           /\ Asked[c].password = call[c].user /\ Asked[c].new = call[c].newUser
           /\ call[c].id # 0 => Asked[c].keyRing = call[c].id
<1>1. /\ call[c] \in CallType /\ Asked[c] = Request(call[c])
      /\ Asked' = [Asked EXCEPT ![c] = Request(r)]
  BY BecomesIs
<1>2. Request(r) \in {Promise!Rest(Asked[c]), Null}
  BY <1>1, RequestIs, RestIs
<1> QED
  BY <1>1, <1>2, RequestIs DEF Promise!Does

LEMMA SignUpStep ==
    ASSUME OneCall, IInv, WholeInv, AskedInv, Promise!Stores, Promise!Settles, NEW c \in Calls, SignUpUnlocks(c)
    PROVE  Promise!Next /\ AskedInv'
<1> USE DEF memory
<1>1. /\ StorageOK /\ CallsOK /\ call[c] \in CallType
      /\ call[c].pc = "signUp.counter" /\ call[c].pc \in SignUpPcs /\ Moves(<<>>)
      /\ signedUp' = TRUE /\ UNCHANGED <<password, vaults>>
  BY DEF IInv, TypeInv, CallsOK, SignUpUnlocks, At, SignUpPcs, Moves
<1>2. ~signedUp /\ call[c].op = "create" /\ store["userPasswordMac"].user = call[c].user
  BY <1>1, TheCall DEF IInv, SerialInv, StepsOK, AskedInv
<1>3. Opener = Null /\ Opener' = call[c].user
  <2>1. store'["userPasswordMac"] = store["userPasswordMac"]
    BY <1>1, OneStored, TheKeys DEF CredentialsKept
  <2> QED
    BY <1>1, <1>2, <2>1 DEF Opener
<1>4. NextStep(call[c]) = "signUp"
  BY <1>1 DEF NextStep
<1>5. PICK r \in CallType :
         /\ call' = [call EXCEPT ![c] = r]
         /\ \/ NextStep(r) = "none" /\ r.pc = "idle"
            \/ /\ NextStep(r) = "enter" /\ r.pc = "unlock.derive"
               /\ r.user = call[c].user /\ r.newUser = call[c].newUser /\ r.id = call[c].id
  <2>1. CASE CanUnlock
    <3> DEFINE r == WithCred(call[c], "unlock.derive", Credentials)
    <3>1. call' = [call EXCEPT ![c] = r]
      BY <1>1, <2>1 DEF SignUpUnlocks, UnlockFrom, Start, WithCred
    <3>2. Credentials \in CredType /\ "unlock.derive" \in CallPcs /\ 0 \in Keys
      BY <1>1, CredentialsTyped, MaxKeysAssumption DEF StorageOK, CallPcs, Keys
    <3>3. r \in CallType /\ r.pc = "unlock.derive" /\ r.op = call[c].op /\ r.user = call[c].user
          /\ r.newUser = call[c].newUser /\ r.id = call[c].id
      BY <1>1, <3>2, CallWith DEF WithCred, CallType
    <3> HIDE DEF r
    <3>4. NextStep(r) = "enter"
      BY <1>2, <3>3 DEF NextStep
    <3> QED
      BY <3>1, <3>3, <3>4
  <2>2. CASE ~CanUnlock
    <3>1. NextStep(NoCall) = "none" /\ NoCall.pc = "idle"
      BY DEF NextStep, NoCall
    <3> QED
      BY <2>2, <3>1, NoCallTyped DEF SignUpUnlocks, Finish
  <2> QED
    BY <2>1, <2>2
<1>6. Promise!Does(c, "signUp") /\ Asked[c].password = call[c].user
  BY <1>1, <1>4, <1>5, DoesStep
<1>7. AskedInv'
  BY <1>1, <1>5, BecomesIs, AskedAfter, PcsAre
<1> QED
  BY <1>1, <1>3, <1>6, <1>7, SameWallet DEF Promise!Next, Promise!SignUp

LEMMA UnlockStep ==
    ASSUME OneCall, IInv, WholeInv, AskedInv, Promise!Stores, Promise!Settles, NEW c \in Calls, UnlockAccepted(c)
    PROVE  Promise!Next /\ AskedInv'
<1> USE DEF memory, storage
<1>1. /\ StorageOK /\ CallsOK /\ call[c] \in CallType
      /\ call[c].pc = "unlock.derive" /\ Goto(c, "unlock.session")
      /\ PasswordMatches(call[c].user, call[c].cred) /\ password' = call[c].cred.cipher.key
      /\ UNCHANGED <<signedUp, store, vaults>>
  BY DEF IInv, TypeInv, CallsOK, UnlockAccepted, At
<1>2. signedUp /\ call[c].cred = Credentials
  BY <1>1, TheCall DEF IInv, SerialInv, StepsOK, At
<1>3. call[c].user = Opener /\ Opener # Null /\ password' # 0
  <2>1. /\ store["userPasswordMac"] = store["passwordCipher"]
        /\ store["userPasswordMac"].user = call[c].user
        /\ store["passwordCipher"].key = password'
    BY <1>1, <1>2 DEF PasswordMatches, Credentials
  <2>2. store["userPasswordMac"].key # 0
    BY <1>2 DEF IInv, SerialInv, StoredUnderKey, Values, MacOfKey, SignedUpOK, HasCryptoState
  <2> QED
    BY <1>2, <2>1, <2>2, OpenerIs
<1>4. Opener' = Opener /\ Opened' = TRUE /\ Held' = Held
  BY <1>1, <1>3 DEF Opener, Opened, Locked, Held, Ids
<1>5. PICK r \in CallType :
         /\ call' = [call EXCEPT ![c] = r] /\ call'[c] = r
         /\ r.pc = "unlock.session" /\ r.op = call[c].op /\ r.user = call[c].user
         /\ r.newUser = call[c].newUser /\ r.id = call[c].id
  BY <1>1, GotoIs DEF CallPcs
<1>6. \/ NextStep(call[c]) = "enter"  /\ NextStep(r) = "create"
      \/ NextStep(call[c]) = "unlock" /\ NextStep(r) = "none"
  BY <1>1, <1>5 DEF NextStep
<1>7. (Promise!Does(c, "enter") \/ Promise!Does(c, "unlock")) /\ Asked[c].password = call[c].user
  BY <1>1, <1>5, <1>6, DoesStep
<1>8. AskedInv'
  BY <1>5, AskedAfter, PcsAre
<1> QED
  BY <1>3, <1>4, <1>7, <1>8 DEF Promise!Next, Promise!Unlock, Promise!Knows

LEMMA ChangeStep ==
    ASSUME OneCall, IInv, WholeInv, AskedInv, Promise!Stores, Promise!Settles, NEW c \in Calls, ChangeWritesMac(c)
    PROVE  Promise!Next /\ AskedInv'
<1> USE DEF memory
<1> DEFINE cp == EncryptPassword(call[c].newUser, call[c].key)
           x == Write("userPasswordMac", cp, c)
<1>1. /\ StorageOK /\ CallsOK /\ call[c] \in CallType /\ CallReady(call[c])
      /\ call[c].pc = "change.cipher" /\ call[c].pc \in ChangePcs /\ Goto(c, "change.mac")
      /\ Moves(<<x>>) /\ UNCHANGED <<signedUp, password, vaults>>
  BY DEF IInv, TypeInv, CallsOK, ChangeWritesMac, At, ChangePcs, Moves
<1>2. signedUp /\ store["userPasswordMac"].user = call[c].user
  BY <1>1, TheCall DEF IInv, SerialInv, StepsOK, AskedInv
<1>3. cp \in Cipher /\ cp.user = call[c].newUser
  BY <1>1 DEF CallReady, CallType, EncryptPassword, Cipher
<1>4. x \in WriteType /\ x.key = "userPasswordMac" /\ x.val = cp
  BY <1>3, WritesTyped DEF Write
<1> HIDE DEF x, cp
<1>5. store'["userPasswordMac"] = cp
  BY <1>1, <1>4, OneStored, TheKeys
<1>6. call[c].user = Opener /\ Opener # Null /\ Opener' = call[c].newUser
  BY <1>1, <1>2, <1>3, <1>5, OpenerIs DEF Opener
<1>7. PICK r \in CallType :
         call' = [call EXCEPT ![c] = r] /\ call'[c] = r /\ r.pc = "change.mac"
  BY <1>1, GotoIs DEF CallPcs
<1>8. NextStep(call[c]) = "change" /\ NextStep(r) = "none"
  BY <1>1, <1>7 DEF NextStep
<1>9. Promise!Does(c, "change") /\ Asked[c].password = call[c].user /\ Asked[c].new = call[c].newUser
  BY <1>1, <1>7, <1>8, DoesStep
<1>10. AskedInv'
  BY <1>7, AskedAfter, PcsAre
<1> QED
  BY <1>1, <1>6, <1>9, <1>10, SameWallet DEF Promise!Next, Promise!Change, Promise!Knows

LEMMA SignOutStep ==
    ASSUME OneCall, IInv, WholeInv, AskedInv, Promise!Stores, NEW c \in Calls, ClearAllErases(c)
    PROVE  Promise!Next /\ AskedInv'
<1>1. /\ CallsOK /\ call[c] \in CallType
      /\ call[c].pc = "clear.check" /\ Checked(c) /\ Goto(c, "clear.erased")
      /\ ~signedUp' /\ password' = 0 /\ vaults' = <<>>
  BY DEF IInv, TypeInv, CallsOK, ClearAllErases, At
<1>2. vaults = <<>>
  BY <1>1, TheCall DEF IInv, SerialInv, StepsOK
<1>3. call[c].user = Opener /\ Opener # Null /\ Opened
  BY <1>1, CheckedKnows DEF CheckPcs
<1>4. Opener' = Null /\ Opened' = FALSE /\ Held = {} /\ Held' = {}
  <2>1. Ids(<<>>) = {}
    BY DEF Ids, Range
  <2> QED
    BY <1>1, <1>2, <2>1 DEF Opener, Opened, Locked, Held
<1>5. PICK r \in CallType :
         call' = [call EXCEPT ![c] = r] /\ call'[c] = r /\ r.pc = "clear.erased"
  BY <1>1, GotoIs DEF CallPcs
<1>6. NextStep(call[c]) = "signOut" /\ NextStep(r) = "none"
  BY <1>1, <1>5 DEF NextStep
<1>7. Promise!Does(c, "signOut") /\ Asked[c].password = call[c].user
  BY <1>1, <1>5, <1>6, DoesStep
<1>8. AskedInv'
  BY <1>5, AskedAfter, PcsAre
<1>9. Leaving' = Opener
  <2>1. \A d \in Calls : d = c
    BY DEF OneCall
  <2>2. At(c, "clear.erased")' /\ call'[c].user = call[c].user
    BY <1>1, <1>5 DEF At, Goto, CallsOK, CallType
  <2>3. (CHOOSE d \in Calls : At(d, "clear.erased")') = c
    BY <2>1, <2>2
  <2>4. Leaving' = call'[c].user
    BY <2>2, <2>3 DEF Leaving
  <2> QED
    BY <1>3, <2>2, <2>4
<1> QED
  BY <1>3, <1>4, <1>7, <1>8, <1>9 DEF Promise!Next, Promise!SignOut, Promise!Knows

LEMMA CreateStep ==
    ASSUME OneCall, IInv, IInv', AskedInv, Promise!Stores, Promise!Settles, NEW c \in Calls, CreateAdds(c)
    PROVE  Promise!Next /\ AskedInv'
<1>1. /\ TypeInv /\ UniqueIds(vaults) /\ CallsOK /\ StorageOK /\ call[c] \in CallType
      /\ call[c].pc = "create.vault" /\ Finish(c) /\ ~Locked
      /\ UNCHANGED <<signedUp, password>>
      /\ vaultsMade \in Nat /\ vaultsMade + 1 \in VaultIds
  BY MaxVaultsAssumption
     DEF IInv, TypeInv, FieldsOK, CallsOK, CreateAdds, At, SelectionInv, StoreIsMemory, Values, VaultIds
<1>2. Held' = Held \cup {vaultsMade + 1} /\ vaultsMade + 1 \notin Held
  <2>1. \A id : HasVault(vaults', id) <=> HasVault(vaults, id) \/ id = vaultsMade + 1
    BY <1>1, CreationIs
  <2>2. \A vs, id : id \in Ids(vs) <=> HasVault(vs, id)
    BY DEF Ids, HasVault
  <2>3. ~HasVault(vaults, vaultsMade + 1)
    BY <1>1 DEF UniqueIds, HasVault, Range
  <2> QED
    BY <2>1, <2>2, <2>3 DEF Held
<1>3. Opener' = Opener /\ Opened /\ Opened' = Opened
  <2>1. CredentialsKept
    BY <1>1, CreateSerial DEF IInv
  <2> QED
    BY <1>1, <2>1, CredentialsSame DEF Opened, Locked
<1>4. NextStep(call[c]) = "create" /\ NextStep(NoCall) = "none" /\ NoCall.pc = "idle"
  BY <1>1 DEF NextStep, NoCall
<1>5. Promise!Does(c, "create")
  BY <1>1, <1>4, NoCallTyped, DoesStep DEF Finish
<1>6. AskedInv'
  BY <1>1, <1>4, BecomesIs, AskedAfter, PcsAre DEF Finish
<1> QED
  BY <1>1, <1>2, <1>3, <1>5, <1>6 DEF Promise!Next, Promise!Create

LEMMA DeleteStep ==
    ASSUME OneCall, IInv, IInv', AskedInv, Promise!Stores, Promise!Settles, NEW c \in Calls, DeleteRemoves(c)
    PROVE  Promise!Next /\ AskedInv'
<1> DEFINE id == call[c].id
<1>1. /\ TypeInv /\ UniqueIds(vaults) /\ vaults \in Seq(Vaults) /\ CallsOK /\ StorageOK
      /\ call[c] \in CallType /\ call[c].pc = "delete.check" /\ Checked(c)
      /\ HasVault(vaults, id) /\ vaults' = Without(vaults, id)
      /\ UNCHANGED <<signedUp, password>>
  BY DEF IInv, TypeInv, FieldsOK, CallsOK, DeleteRemoves, At, SelectionInv, StoreIsMemory, Values
<1>2. Held' = Held \ {id} /\ id \in Held /\ id # 0
  <2>1. \A other : HasVault(vaults', other) <=> HasVault(vaults, other) /\ other # id
    BY <1>1, DeletionIs
  <2>2. \A vs, other : other \in Ids(vs) <=> HasVault(vs, other)
    BY DEF Ids, HasVault
  <2>3. id # 0
    <3>1. PICK i \in DOMAIN vaults : vaults[i].id = id
      BY <1>1 DEF HasVault, Range
    <3>2. id \in 1 .. vaultsMade /\ vaultsMade \in Nat
      BY <1>1, <3>1 DEF UniqueIds, TypeInv, FieldsOK
    <3> QED
      BY <3>2
  <2> QED
    BY <1>1, <2>1, <2>2, <2>3 DEF Held
<1>3. call[c].user = Opener /\ Opener # Null /\ Opened /\ signedUp
  BY <1>1, CheckedKnows DEF CheckPcs
<1>4. Opener' = Opener /\ Opened' = Opened /\ Credentials' = Credentials
  <2>1. CredentialsKept
    BY <1>1, DeleteSerial DEF IInv
  <2> QED
    BY <1>1, <2>1, CredentialsSame DEF Opened, Locked
<1>5. PICK r \in CallType :
         /\ call' = [call EXCEPT ![c] = r]
         /\ \/ NextStep(r) = "none" /\ r.pc = "idle"
            \/ /\ NextStep(r) = "signOut" /\ r.pc = "clear.check" /\ r.cred = Credentials
               /\ r.user = call[c].user /\ r.newUser = call[c].newUser /\ r.id = call[c].id
  <2>1. CASE vaults' = <<>> /\ CanCheck
    <3> DEFINE r == WithCred(call[c], "clear.check", Credentials)
    <3>1. call' = [call EXCEPT ![c] = r]
      <4>1. call' = [call EXCEPT ![c].pc = "clear.check", ![c].cred = Credentials]
        BY <2>1 DEF DeleteRemoves
      <4> QED
        BY <1>1, <4>1 DEF WithCred, CallsOK
    <3>2. Credentials \in CredType /\ "clear.check" \in CallPcs /\ 0 \in Keys
      BY <1>1, CredentialsTyped, MaxKeysAssumption DEF StorageOK, CallPcs, Keys
    <3>3. r \in CallType /\ r.pc = "clear.check" /\ r.cred = Credentials /\ r.user = call[c].user
          /\ r.newUser = call[c].newUser /\ r.id = call[c].id
      BY <1>1, <3>2, CallWith DEF WithCred, CallType
    <3> HIDE DEF r
    <3>4. NextStep(r) = "signOut"
      BY <3>3 DEF NextStep
    <3> QED
      BY <3>1, <3>3, <3>4
  <2>2. CASE ~(vaults' = <<>> /\ CanCheck)
    <3>1. NextStep(NoCall) = "none" /\ NoCall.pc = "idle"
      BY DEF NextStep, NoCall
    <3> QED
      BY <2>2, <3>1, NoCallTyped DEF DeleteRemoves, Finish
  <2> QED
    BY <2>1, <2>2
<1>6. NextStep(call[c]) = "delete"
  BY <1>1 DEF NextStep
<1>7. Promise!Does(c, "delete") /\ Asked[c].password = call[c].user /\ Asked[c].keyRing = id
  BY <1>1, <1>2, <1>5, <1>6, DoesStep
<1>8. AskedInv'
  BY <1>1, <1>3, <1>4, <1>5, BecomesIs, AskedAfter, PcsAre DEF SignUpPcs
<1> QED
  BY <1>2, <1>3, <1>4, <1>7, <1>8 DEF Promise!Next, Promise!Delete, Promise!Knows

\* The steps of a call that leave the credentials and the key rings alone.
LEMMA OtherStep ==
    ASSUME OneCall, IInv, IInv', WholeInv, AskedInv, Promise!Stores, Promise!Settles, NEW c \in Calls,
           VaultStep(c) \/ KeyRingStep(c),
           ~(\/ SignUpWritesCipher(c) \/ SignUpWritesMac(c) \/ SignUpWritesCounter(c)
             \/ ChangeWritesCipher(c) \/ SignUpUnlocks(c) \/ UnlockAccepted(c)
             \/ ChangeWritesMac(c) \/ ClearAllErases(c) \/ CreateAdds(c) \/ DeleteRemoves(c))
    PROVE  Promise!Next /\ AskedInv'
<1> USE DEF memory, storage
<1>1. /\ TypeInv /\ StorageOK /\ CallsOK /\ CallsOK' /\ call[c] \in CallType /\ call'[c] \in CallType
      /\ \A s : UNCHANGED <<store, signedUp, password, vaults>> =>
                   UNCHANGED <<Opener, Opened, Held>> /\ Credentials' = Credentials
  BY SameWallet DEF IInv, TypeInv, CallsOK, Opener, Credentials
<1>2. ASSUME NEW user \in UserPasswords, Unlock(c, user) PROVE Promise!Next /\ AskedInv'
  <2> DEFINE r == [[NoCall EXCEPT !.op = "unlock", !.user = user]
                     EXCEPT !.pc = "unlock.derive", !.cred = Credentials]
  <2>1. call[c].pc = "idle" /\ Start(c, r) /\ UNCHANGED <<store, signedUp, password, vaults>>
    BY <1>2 DEF Unlock, UnlockFrom, At
  <2>2. r.pc = "unlock.derive" /\ r.op = "unlock" /\ call'[c] = r
    BY <1>1, <2>1 DEF NoCall, Start, CallsOK
  <2> HIDE DEF r
  <2>3. NextStep(r) = "unlock"
    BY <2>2 DEF NextStep
  <2>4. AskedInv'
    BY <2>2, AskedAfter, PcsAre
  <2> QED
    BY <1>1, <2>1, <2>2, <2>3, <2>4, Begins
<1>3. CASE \/ UnlockRejected(c) \/ CreateRejected(c) \/ DeleteRejected(c)
           \/ ClearAllReturns(c) \/ \E pc \in CheckPcs : CheckRejected(c, pc)
  <2>1. Finish(c) /\ UNCHANGED <<store, signedUp, password, vaults>>
    BY <1>3 DEF UnlockRejected, CreateRejected, DeleteRejected, ClearAllReturns, CheckRejected
  <2> QED
    BY <1>1, <2>1, Ends
<1>4. CASE ChangeReturns(c) \/ ClearAllErased(c)
  <2>1. Moves(<<>>) /\ UNCHANGED <<signedUp, password, vaults>>
    BY <1>4 DEF ChangeReturns, ClearAllErased, Moves
  <2>2. UNCHANGED <<Opener, Opened, Held>>
    BY <1>1, <2>1, OneStored, CredentialsSame, SameWallet
  <2>3. CASE Finish(c)
    BY <1>1, <2>2, <2>3, Ends
  <2>4. CASE ~Finish(c)
    <3>1. call[c].pc = "clear.erased" /\ Goto(c, "clear.session")
      BY <1>4, <2>4 DEF ChangeReturns, ClearAllErased, At
    <3>2. PICK r \in CallType :
             /\ call' = [call EXCEPT ![c] = r] /\ call'[c] = r
             /\ r.pc = "clear.session" /\ r.op = call[c].op /\ r.user = call[c].user
             /\ r.newUser = call[c].newUser /\ r.id = call[c].id
      BY <1>1, <3>1, GotoIs DEF CallPcs
    <3>3. NextStep(r) = NextStep(call[c])
      BY <3>1, <3>2 DEF NextStep
    <3>4. AskedInv'
      BY <3>2, AskedAfter, PcsAre
    <3> QED
      BY <1>1, <2>2, <3>2, <3>3, <3>4, GoesOn
  <2> QED
    BY <2>3, <2>4
<1>5. ASSUME NEW prev \in UserPasswords, NEW new \in UserPasswords, ChangePassword(c, prev, new)
      PROVE  Promise!Next /\ AskedInv'
  <2> DEFINE r == [[NoCall EXCEPT !.op = "change", !.pc = "change.check",
                                  !.user = prev, !.newUser = new] EXCEPT !.cred = Credentials]
  <2>1. /\ call[c].pc = "idle" /\ Start(c, r) /\ UNCHANGED <<store, signedUp, password, vaults>>
        /\ signedUp
    BY <1>5 DEF ChangePassword, CheckFrom, CanCheck, At
  <2>2. r.pc = "change.check" /\ r.cred = Credentials /\ call'[c] = r
    BY <1>1, <2>1 DEF NoCall, Start, CallsOK
  <2> HIDE DEF r
  <2>3. NextStep(r) = "change"
    BY <2>2 DEF NextStep
  <2>4. AskedInv'
    BY <1>1, <2>1, <2>2, AskedAfter DEF SignUpPcs
  <2> QED
    BY <1>1, <2>1, <2>2, <2>3, <2>4, Begins
<1>6. CASE ChangeEncrypts(c)
  <2> DEFINE r == [call[c] EXCEPT !.pc = "change.derive", !.key = password]
  <2>1. /\ call[c].pc = "change.check" /\ Checked(c) /\ UNCHANGED <<store, signedUp, password, vaults>>
        /\ call' = [call EXCEPT ![c] = r]
    BY <1>1, <1>6 DEF ChangeEncrypts, At, CallsOK
  <2>2. /\ r.pc = "change.derive" /\ call'[c] = r /\ r.user = call[c].user
        /\ r.newUser = call[c].newUser /\ r.id = call[c].id
    BY <1>1, <2>1 DEF CallsOK, CallType
  <2>3. r \in CallType
    BY <1>1, <2>2
  <2> HIDE DEF r
  <2>4. NextStep(r) = NextStep(call[c])
    BY <2>1, <2>2 DEF NextStep
  <2>5. store'["userPasswordMac"].user = call[c].user
    BY <2>1, CheckedKnows, OpenerIs DEF CheckPcs
  <2>6. AskedInv'
    BY <2>2, <2>5, AskedAfter DEF SignUpPcs, CheckPcs
  <2> QED
    BY <1>1, <2>1, <2>2, <2>3, <2>4, <2>6, GoesOn
<1>7. ASSUME NEW user \in UserPasswords, Create(c, user) PROVE Promise!Next /\ AskedInv'
  <2>1. call[c].pc = "idle" /\ UNCHANGED <<store, signedUp, password, vaults>>
    BY <1>7 DEF Create, At
  <2>2. \/ Start(c, [[NoCall EXCEPT !.op = "create", !.user = user]
                       EXCEPT !.pc = "signUp.derive", !.key = keysDrawn + 1])
        \/ Start(c, [NoCall EXCEPT !.op = "create", !.pc = "create.vault"])
    BY <1>7 DEF Create, SignUpFrom
  <2>3. PICK r \in CallType :
           Start(c, r) /\ call'[c] = r /\ r.op = "create" /\ r.pc \in {"signUp.derive", "create.vault"}
    <3>1. \A r : Start(c, r) => call'[c] = r /\ r \in CallType
      BY <1>1 DEF Start, CallsOK
    <3> DEFINE a == [[NoCall EXCEPT !.op = "create", !.user = user]
                       EXCEPT !.pc = "signUp.derive", !.key = keysDrawn + 1]
               b == [NoCall EXCEPT !.op = "create", !.pc = "create.vault"]
    <3>2. /\ a.op = "create" /\ a.pc = "signUp.derive"
          /\ b.op = "create" /\ b.pc = "create.vault"
      BY DEF NoCall
    <3>3. Start(c, a) \/ Start(c, b)
      BY <2>2
    <3> HIDE DEF a, b
    <3> QED
      BY <3>1, <3>2, <3>3
  <2>5. NextStep(r) \in {"signUp", "create"}
    BY <2>3 DEF NextStep
  <2>6. AskedInv'
    BY <2>3, AskedAfter DEF CheckPcs
  <2> QED
    BY <1>1, <2>1, <2>3, <2>5, <2>6, Begins
<1>8. CASE UnlockReturns(c)
  <2>1. call[c].pc = "unlock.session" /\ UNCHANGED <<store, signedUp, password, vaults>>
    BY <1>8 DEF UnlockReturns, At
  <2>2. CASE call[c].op = "create"
    <3>1. Goto(c, "create.vault")
      BY <1>8, <2>2 DEF UnlockReturns
    <3>2. PICK r \in CallType :
             /\ call' = [call EXCEPT ![c] = r] /\ call'[c] = r
             /\ r.pc = "create.vault" /\ r.op = call[c].op /\ r.user = call[c].user
             /\ r.newUser = call[c].newUser /\ r.id = call[c].id
      BY <1>1, <3>1, GotoIs DEF CallPcs
    <3>3. NextStep(r) = NextStep(call[c])
      BY <2>1, <2>2, <3>2 DEF NextStep
    <3>4. AskedInv'
      BY <3>2, AskedAfter, PcsAre
    <3> QED
      BY <1>1, <2>1, <3>2, <3>3, <3>4, GoesOn
  <2>3. CASE call[c].op # "create"
    BY <1>1, <1>8, <2>1, <2>3, Ends DEF UnlockReturns
  <2> QED
    BY <2>2, <2>3
<1>9. ASSUME NEW id \in VaultIds, NEW user \in UserPasswords, DeleteKeyRing(c, id, user)
      PROVE  Promise!Next /\ AskedInv'
  <2> DEFINE r == [[NoCall EXCEPT !.op = "delete", !.pc = "delete.check",
                                  !.user = user, !.id = id] EXCEPT !.cred = Credentials]
  <2>1. /\ call[c].pc = "idle" /\ Start(c, r) /\ UNCHANGED <<store, signedUp, password, vaults>>
        /\ signedUp
    BY <1>9 DEF DeleteKeyRing, CheckFrom, CanCheck, At
  <2>2. r.pc = "delete.check" /\ r.cred = Credentials /\ call'[c] = r
    BY <1>1, <2>1 DEF NoCall, Start, CallsOK
  <2> HIDE DEF r
  <2>3. NextStep(r) = "delete"
    BY <2>2 DEF NextStep
  <2>4. AskedInv'
    BY <1>1, <2>1, <2>2, AskedAfter DEF SignUpPcs
  <2> QED
    BY <1>1, <2>1, <2>2, <2>3, <2>4, Begins
<1> QED
  BY <1>2, <1>3, <1>4, <1>5, <1>6, <1>7, <1>8, <1>9 DEF VaultStep, KeyRingStep, CheckPcs
-----------------------------------------------------------------------------
(* The other steps, and the refinement.                                      *)

\* The services start over: no call is left, and who opens the wallet is what the mac says.
LEMMA RestartIs ==
    ASSUME IInv, NEW s \in {store, disk}, NEW ses, Restart(s, ses)
    PROVE  /\ AskedInv' /\ Asked' = [c \in Calls |-> Null] /\ Leaving' = Null
           /\ Stored' = {Held'} /\ Held' = Ids(s["vaultMap"])
           /\ Opener' = IF HasCryptoState(s) THEN s["userPasswordMac"].user ELSE Null
<1>1. /\ signedUp' = HasCryptoState(s) /\ vaults' = s["vaultMap"] /\ writes' = <<>>
      /\ \A c \in Calls : call'[c] = NoCall
      /\ ~Erasing' /\ \A k \in VaultKeys : store'[k] = s[k]
  BY StartsWith
<1>2. disk' = store'
  BY DEF Restart
<1>3. store'["userPasswordMac"] = s["userPasswordMac"] /\ store'["vaultMap"] = vaults'
  BY <1>1 DEF VaultKeys
<1>4. Opener' = IF HasCryptoState(s) THEN s["userPasswordMac"].user ELSE Null
  BY <1>1, <1>3 DEF Opener
<1>5. Stored' = {Held'} /\ Held' = Ids(s["vaultMap"])
  <2>1. StoredMaps' = {vaults'}
    BY <1>1, <1>2, <1>3 DEF StoredMaps
  <2> QED
    BY <1>1, <2>1 DEF Stored, Held, Ids
<1>6. Asked' = [c \in Calls |-> Null] /\ AskedInv'
  <2>1. /\ NextStep(NoCall) = "none" /\ \A c \in Calls : call'[c] = NoCall /\ call'[c].pc = "idle"
    BY <1>1 DEF NextStep, NoCall
  <2> QED
    BY <2>1, PcsAre DEF Asked, Request, AskedInv
<1>7. Leaving' = Null
  BY <1>1 DEF Erasing, Doing, Leaving, At
<1> QED
  BY <1>4, <1>5, <1>6, <1>7

\* The password of a wallet whose credentials are not being written is on the disk.
LEMMA OpenerOnDisk ==
    ASSUME OneCall, ~WritingCredentials, ~Erasing, IInv, WholeInv, NEW s \in {store, disk}
    PROVE  /\ Opener = IF HasCryptoState(s) THEN s["userPasswordMac"].user ELSE Null
           /\ ~signedUp => store["aesCounterCipher"] = Null
<1>1. StorageOK /\ QueueOK /\ Coherent(store, disk, writes) /\ SerialInv
  BY DEF IInv, TypeInv, SelectionInv, SerialInv
<1>2. /\ \A c \in Calls : call[c].pc \notin {"signUp.mac", "signUp.counter", "change.cipher",
                                             "change.mac", "clear.erased"}
      /\ ~Doing({"signUp.mac", "signUp.counter"})
  BY DEF WritingCredentials, Doing, Erasing
<1>3. /\ s["userPasswordMac"] = store["userPasswordMac"]
      /\ ~Doing({"signUp.cipher"}) => s["passwordCipher"] = store["passwordCipher"]
  <2>1. ASSUME NEW k \in CryptoKeys, \A c \in Calls : Awaited(call[c].pc) # k PROVE s[k] = store[k]
    BY <1>1, <2>1, NotAwaited
  <2>2. \A c \in Calls : /\ Awaited(call[c].pc) # "userPasswordMac"
                         /\ call[c].pc # "signUp.cipher" => Awaited(call[c].pc) # "passwordCipher"
    BY <1>2 DEF Awaited
  <2> QED
    BY <2>1, <2>2, TheKeys DEF Doing
<1>4. CASE signedUp
  <2>1. ~Doing({"signUp.cipher"}) /\ HasCryptoState(store)
    BY <1>1, <1>4 DEF SerialInv, StepsOK, SignedUpOK, Doing, SignUpPcs
  <2> QED
    BY <1>3, <1>4, <2>1 DEF HasCryptoState, Opener
<1>5. CASE ~signedUp
  <2>1. store["userPasswordMac"] = Null /\ store["aesCounterCipher"] = Null
    BY <1>2, <1>5 DEF WholeInv
  <2> QED
    BY <1>3, <1>5, <2>1 DEF HasCryptoState, Opener
<1> QED
  BY <1>4, <1>5

\* The worker ends.
LEMMA KillStep ==
    ASSUME OneCall, ~TearCredentials, IInv, RestInv, Promise!Stores, Kill
    PROVE  Promise!Next /\ AskedInv'
<1>1. Restart(store, session) /\ ~WritingCredentials
  BY DEF Kill, Restart
<1>2. /\ AskedInv' /\ Asked' = [c \in Calls |-> Null] /\ Leaving' = Null /\ Held' = Ids(store["vaultMap"])
      /\ Opener' = IF HasCryptoState(store) THEN store["userPasswordMac"].user ELSE Null
  BY <1>1, RestartIs
<1>3. Held' = Held
  BY <1>2 DEF Held, IInv, SelectionInv, StoreIsMemory
<1>4. Opener' = Opener
  <2>1. CASE Erasing
    <3>1. ~HasCryptoState(store) /\ ~signedUp
      BY <2>1, TheKeys DEF IInv, SerialInv, ErasingOK, HasCryptoState
    <3> QED
      BY <1>2, <3>1 DEF Opener
  <2>2. CASE Cut
    <3>1. ~HasCryptoState(store) /\ ~signedUp
      BY <2>2, TheKeys DEF Cut, HasCryptoState
    <3> QED
      BY <1>2, <3>1 DEF Opener
  <2>3. CASE WholeInv /\ ~Erasing
    BY <1>1, <1>2, <2>3, OpenerOnDisk
  <2> QED
    BY <2>1, <2>2, <2>3 DEF RestInv
<1>5. Opened' => Opened \/ Leaving # Null
  <2>1. CASE Erasing
    <3>1. PICK c \in Calls : At(c, "clear.erased")
      BY <2>1 DEF Erasing, Doing, At
    <3> QED
      BY <2>1, <3>1, LeavingIs, AbsentAssumption DEF RestInv, EraseOrder
  <2>2. CASE ~Erasing
    <3>1. password' = IF ServiceWorker /\ session.password # 0 /\ session.aesCounter # 0
                      THEN session.password ELSE 0
      BY <1>1, StartsWith
    <3> QED
      BY <2>2, <3>1 DEF Opened, Locked, IInv, SerialInv, LockedInSession
  <2> QED
    BY <2>1, <2>2
<1> QED
  BY <1>2, <1>3, <1>4, <1>5 DEF Promise!Next, Promise!WorkerEnds

\* The browser ends.
LEMMA ExitStep ==
    ASSUME OneCall, ~TearCredentials, IInv, RestInv, LeavingInv, Promise!Stores, Exit
    PROVE  Promise!Next /\ AskedInv'
<1> DEFINE ses == [password |-> 0, aesCounter |-> 0]
<1>1. Restart(disk, ses) /\ ses.password = 0 /\ ~WritingCredentials
  BY DEF Exit, Restart
<1> HIDE DEF ses
<1>2. /\ AskedInv' /\ Asked' = [c \in Calls |-> Null] /\ Leaving' = Null
      /\ Stored' = {Held'} /\ Held' = Ids(disk["vaultMap"])
      /\ Opener' = IF HasCryptoState(disk) THEN disk["userPasswordMac"].user ELSE Null
  BY <1>1, RestartIs
<1>3. Opened' = FALSE
  BY <1>1, StartsWith DEF Opened, Locked
<1>4. Held' \in Stored
  BY <1>2 DEF Stored, StoredMaps
<1>5. ASSUME vaults' = <<>> PROVE Held' = {}
  BY <1>5 DEF Held, Ids, Range
<1>6. vaults' = disk["vaultMap"]
  BY <1>1, StartsWith
<1>7. /\ Opener' = Opener \/ (Leaving # Null /\ Opener' = Leaving)
      /\ Opener' = Null => vaults' = <<>>
  <2>1. CASE Erasing
    <3>1. PICK c \in Calls : At(c, "clear.erased")
      BY <2>1 DEF Erasing, Doing, At
    <3>2. Leaving = call[c].user /\ Leaving # Null /\ ~signedUp /\ Opener = Null
      BY <2>1, <3>1, LeavingIs, AbsentAssumption
         DEF RestInv, EraseOrder, IInv, SerialInv, ErasingOK, Opener
    <3>3. CASE disk["passwordCipher"] = Null
      <4>1. Opener' = Null
        BY <1>2, <3>3 DEF HasCryptoState
      <4>2. vaults' = <<>>
        BY <2>1, <3>3, EraseExited DEF RestInv, Cut
      <4> QED
        BY <3>2, <4>1, <4>2
    <3>4. CASE disk["passwordCipher"] # Null
      <4>1. HasCryptoState(disk)
        BY <2>1, <3>4 DEF RestInv, EraseOrder, HasCryptoState
      <4>2. Opener' = call[c].user
        BY <1>2, <3>1, <3>4, <4>1 DEF LeavingInv
      <4> QED
        BY <3>2, <4>2
    <3> QED
      BY <3>3, <3>4
  <2>2. CASE Cut
    <3>1. disk["passwordCipher"] = Null /\ disk["vaultMap"] = <<>> /\ ~signedUp
      <4>1. /\ store["passwordCipher"] = Null /\ store["vaultMap"] = <<>> /\ ~signedUp /\ writes = <<>>
        BY <2>2, TheKeys DEF Cut, AtRest, IInv, SelectionInv, StoreIsMemory
      <4> QED
        BY <4>1, OnDisk, TheKeys DEF IInv, SelectionInv
    <3> QED
      BY <1>2, <1>6, <3>1 DEF Opener, HasCryptoState
  <2>3. CASE WholeInv /\ ~Erasing
    <3>1. Opener' = Opener /\ (~signedUp => store["aesCounterCipher"] = Null)
      BY <1>1, <1>2, <2>3, OpenerOnDisk
    <3>2. Opener = Null => ~signedUp
      BY OpenerIs
    <3>3. ~signedUp => vaults' = <<>>
      BY <1>6, <2>3, <3>1 DEF IInv, SerialInv, NoVaultsYet, Values
    <3> QED
      BY <3>1, <3>2, <3>3
  <2> QED
    BY <2>1, <2>2, <2>3 DEF RestInv
<1> QED
  BY <1>2, <1>3, <1>4, <1>5, <1>7 DEF Promise!Next, Promise!BrowserEnds

\* A step that leaves the calls and the credentials alone.
LEMMA CallsAlone ==
    ASSUME AskedInv, CredentialsKept, UNCHANGED <<call, signedUp, vaults>>
    PROVE  AskedInv' /\ UNCHANGED <<Asked, Opener, Held>>
<1>1. /\ store'["userPasswordMac"] = store["userPasswordMac"]
      /\ Credentials' = Credentials /\ Opener' = Opener
  BY CredentialsSame, TheKeys DEF CredentialsKept
<1>2. AskedInv'
  BY <1>1 DEF AskedInv
<1>3. Asked' = Asked /\ Held' = Held
  BY DEF Asked, Held, Ids
<1> QED
  BY <1>1, <1>2, <1>3

\* The invariant on the sign-out that has not settled.
LEMMA LeavingStep ==
    ASSUME OneCall, IInv, RestInv, RestInv', AskedInv, LeavingInv, [Next]_vars
    PROVE  LeavingInv'
<1> USE DEF memory, storage
<1>1. ASSUME NEW c \in Calls, VaultStep(c) \/ KeyRingStep(c) PROVE LeavingInv'
  <2>1. CASE ClearAllErases(c)
    <3>1. /\ CallsOK /\ call[c].pc = "clear.check" /\ call[c].pc \in CheckPcs /\ Checked(c)
          /\ UNCHANGED disk /\ call'[c].user = call[c].user
      BY <2>1 DEF IInv, TypeInv, CallsOK, CallType, ClearAllErases, At, Goto, Issue, CheckPcs
    <3>2. call[c].user = Opener /\ signedUp
      BY <3>1, CheckedKnows
    <3>3. disk["userPasswordMac"] = store["userPasswordMac"]
      BY <3>1, NoneAwaited, ClearValues, OnDisk, TheKeys
         DEF IInv, TypeInv, SelectionInv, SerialInv, Awaited
    <3>4. \A d \in Calls : d = c
      BY DEF OneCall
    <3> QED
      BY <3>1, <3>2, <3>3, <3>4 DEF LeavingInv, Opener
  <2>2. CASE ~ClearAllErases(c)
    <3>1. \A d \in Calls : ~At(d, "clear.erased")'
      BY <1>1, <2>2, OnlyErases, TheCall DEF IInv, TypeInv, At
    <3> QED
      BY <3>1 DEF LeavingInv
  <2> QED
    BY <2>1, <2>2
<1>2. ASSUME UNCHANGED <<call, disk>> PROVE LeavingInv'
  BY <1>2 DEF LeavingInv, At
<1>3. ASSUME NEW id \in VaultIds, SelectKeyRing(id) PROVE LeavingInv'
  BY <1>2, <1>3 DEF SelectKeyRing, Issue
<1>4. CASE Lock \/ RemoveSessionCounter \/ UNCHANGED vars
  BY <1>2, <1>4 DEF Lock, RemoveSessionCounter, vars
<1>5. CASE FlushWrite
  <2>1. /\ UNCHANGED call /\ disk'["passwordCipher"] \in {disk["passwordCipher"], Null}
    BY <1>5, FlushedIs, TheKeys DEF FlushWrite, IInv, TypeInv, SerialInv
  <2>2. ASSUME NEW c \in Calls, At(c, "clear.erased")', disk'["passwordCipher"] # Null
        PROVE  disk'["userPasswordMac"].user = call'[c].user
    <3>1. At(c, "clear.erased") /\ Erasing /\ Erasing' /\ disk["passwordCipher"] = disk'["passwordCipher"]
      BY <2>1, <2>2 DEF At, Erasing, Doing
    <3>2. disk'["userPasswordMac"] = disk["userPasswordMac"]
      BY <2>2, <3>1 DEF RestInv, EraseOrder
    <3> QED
      BY <2>1, <2>2, <3>1, <3>2 DEF LeavingInv
  <2> QED
    BY <2>2 DEF LeavingInv
<1>6. CASE Kill \/ Exit
  <2>1. ~Erasing'
    BY <1>6, StartsWith DEF Kill, Exit
  <2> QED
    BY <2>1 DEF Erasing, Doing, LeavingInv, At
<1> QED
  BY <1>1, <1>3, <1>4, <1>5, <1>6 DEF Next

LEMMA PromiseStep ==
    ASSUME OneCall, ~TearCredentials, IInv, IInv', RestInv, AskedInv, LeavingInv, [Next]_vars
    PROVE  [Promise!Next]_Promise!vars /\ AskedInv'
<1> USE DEF memory, storage
<1>1. StorageOK /\ CallsOK /\ TypeInv /\ TypeInv' /\ SelectionInv /\ SerialInv
  BY DEF IInv, TypeInv
<1>2. Promise!Stores
  BY <1>1, SelectionStep, StoresStep
<1>3. ASSUME NEW c \in Calls, VaultStep(c) \/ KeyRingStep(c) PROVE Promise!Next /\ AskedInv'
  <2>1. WholeInv
    BY <1>3, CutCalls DEF RestInv
  <2>2. CASE ClearAllErases(c)
    BY <1>2, <2>1, <2>2, SignOutStep
  <2>3. CASE ~ClearAllErases(c)
    <3>1. ~Erasing'
      BY <1>1, <1>3, <2>3, OnlyErases, TheCall DEF Erasing
    <3>2. Promise!Settles
      BY <3>1, SettlesIs
    <3> QED
      BY <1>2, <1>3, <2>1, <2>3, <3>2, CredentialStep, SignUpStep, UnlockStep, ChangeStep, CreateStep,
         DeleteStep, OtherStep
  <2> QED
    BY <2>2, <2>3
<1>4. ASSUME UNCHANGED call PROVE Promise!Settles
  <2>1. Leaving' = Leaving
    BY <1>4 DEF Leaving, At
  <2> QED
    BY <2>1, SettlesIs
<1>5. ASSUME NEW id \in VaultIds, SelectKeyRing(id) PROVE Promise!Next /\ AskedInv'
  <2>1. CredentialsKept
    BY <1>1, <1>5, SelectSerial
  <2>2. UNCHANGED <<call, signedUp, vaults, password>>
    BY <1>5 DEF SelectKeyRing
  <2> QED
    BY <1>2, <1>4, <2>1, <2>2, CallsAlone, SameWallet, Unseen
<1>6. CASE RemoveSessionCounter \/ FlushWrite
  <2>1. CredentialsKept
    BY <1>1, <1>6, OneStored, UnchangedKept DEF RemoveSessionCounter, FlushWrite, Moves
  <2>2. UNCHANGED <<call, signedUp, vaults, password>>
    BY <1>6 DEF RemoveSessionCounter, FlushWrite
  <2> QED
    BY <1>2, <1>4, <2>1, <2>2, CallsAlone, SameWallet, Unseen
<1>7. CASE Lock
  <2>1. UNCHANGED <<call, signedUp, vaults, store>> /\ password' = 0
    BY <1>7 DEF Lock
  <2>2. AskedInv' /\ UNCHANGED <<Asked, Opener, Held>> /\ Opened' = FALSE
    BY <2>1, UnchangedKept, CallsAlone DEF Opened, Locked
  <2> QED
    BY <1>2, <1>4, <2>1, <2>2 DEF Promise!Next, Promise!Lock
<1>8. CASE Kill \/ Exit
  BY <1>2, <1>8, KillStep, ExitStep
<1>9. CASE UNCHANGED vars
  <2>1. UNCHANGED <<call, signedUp, vaults, store, password>>
    BY <1>9 DEF vars
  <2> QED
    BY <1>2, <1>4, <2>1, UnchangedKept, CallsAlone, SameWallet, Unseen
<1> QED
  BY <1>3, <1>5, <1>6, <1>7, <1>8, <1>9 DEF Next

\* The key rings implement the abstract wallet, for any number of passwords, sign-ups
\* and key rings, with one call at a time and a program that does not end between the
\* writes of new credentials; it may end while clearAll is erasing them.
THEOREM Implements ==
    ASSUME OneCall, ~TearCredentials
    PROVE  Spec => KeepsWallet
<1>1. Init => Promise!Init /\ AskedInv /\ LeavingInv /\ IInv /\ RestInv
  BY PromiseInit, RestAlways
<1>2. IInv /\ RestInv /\ AskedInv /\ LeavingInv /\ [Next]_vars =>
        [Promise!Next]_Promise!vars /\ (IInv /\ RestInv /\ AskedInv /\ LeavingInv)'
  <2> SUFFICES ASSUME IInv, RestInv, AskedInv, LeavingInv, [Next]_vars
               PROVE  [Promise!Next]_Promise!vars /\ (IInv /\ RestInv /\ AskedInv /\ LeavingInv)'
    OBVIOUS
  <2>1. IInv' /\ RestInv'
    BY RestAlways
  <2> QED
    BY <2>1, PromiseStep, LeavingStep
<1> QED
  BY <1>1, <1>2, PTL DEF Spec, KeepsWallet, Promise!Spec
=============================================================================
