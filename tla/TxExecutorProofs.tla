---------------------------- MODULE TxExecutorProofs ----------------------------
(***************************************************************************)
(* Theorems about the executor and the histories of swaps, for any plans,  *)
(* chains, histories and number of ends of the worker: no transaction is   *)
(* broadcast twice, and none before those it builds on; the executions and *)
(* the histories name each other, and no execution misses a chain that its *)
(* history has seen the asset reach.                                       *)
(*                                                                         *)
(* The first part, up to the theorem InOrder, needs the executions alone.  *)
(* The second needs the histories and the bus as well; the steps of        *)
(* SwapV2History are reduced to two kinds, a history that moves and        *)
(* histories that are removed, and those of the loop of the executor to    *)
(* one, a run.                                                             *)
(***************************************************************************)
EXTENDS TxExecutor, FiniteSetTheorems, WellFoundedInduction, TLAPS

\* The fields of an execution and of a loop, and the indices of the transactions.
IsExecution(ex) ==
    /\ ex = [status |-> ex.status, chains |-> ex.chains, tx |-> ex.tx, signed |-> ex.signed,
             executable |-> ex.executable, prevent |-> ex.prevent, swap |-> ex.swap,
             route |-> ex.route, hid |-> ex.hid]
    /\ \E n \in Nat : DOMAIN ex.tx = 1..n

Shapes ==
    /\ execs = [id \in Executions |-> execs[id]]
    /\ loop  = [id \in Executions |-> loop[id]]
    /\ sent  = [id \in Executions |-> sent[id]]
    /\ \A id \in Executions :
          /\ IsExecution(execs[id])
          /\ loop[id] = [pc |-> loop[id].pc, i |-> loop[id].i, given |-> loop[id].given]
          /\ sent[id] = [i \in 1..MaxTxs |-> sent[id][i]]

ConfirmedBefore(ex, i) == \A j \in 1..(i - 1) : ex.tx[j] = "confirmed"

\* A loop is at the first transaction that is not confirmed.
LoopOK(id) ==
    loop[id].pc # "off" =>
        /\ execs[id].status = "processing"
        /\ loop[id].i \in DOMAIN execs[id].tx
        /\ execs[id].tx[loop[id].i] # "confirmed"
        /\ ConfirmedBefore(execs[id], loop[id].i)

\* What was broadcast is confirmed, or being traced, or will not be executed again.
Spent(id, i) ==
    \/ execs[id].status = "gone"
    \/ /\ i \in DOMAIN execs[id].tx
       /\ \/ execs[id].tx[i] = "confirmed"
          \/ execs[id].tx[i] = "failed" /\ execs[id].status = "processing" /\ loop[id].pc = "off"
          \/ loop[id].pc = "trace" /\ loop[id].i = i

SentOK(id) ==
    /\ \A i \in 1..MaxTxs : sent[id][i] = 0 \/ (sent[id][i] = 1 /\ Spent(id, i))
    /\ execs[id].status = "unused" => \A i \in 1..MaxTxs : sent[id][i] = 0

IInv == Shapes /\ \A id \in Executions : LoopOK(id) /\ SentOK(id)

\* At first nothing has run.
LEMMA InitIInv == Init => IInv
<1> SUFFICES ASSUME Init PROVE IInv
  OBVIOUS
<1> USE DEF Init, NoExecution, Idle
<1>1. Shapes
  <2>1. ASSUME NEW id \in Executions PROVE IsExecution(execs[id])
    BY DOMAIN execs[id].tx = 1..0 DEF IsExecution
  <2> QED
    BY <2>1 DEF Shapes
<1> QED
  BY <1>1 DEF IInv, LoopOK, SentOK

\* Running on from transaction i, with every transaction before it and every
\* transaction that was broadcast confirmed.
LEMMA ProceedsKeeps ==
    ASSUME IInv, NEW keys, NEW id \in Executions, NEW ex, NEW i \in Nat \ {0}, NEW given,
           NEW tracked, IsExecution(ex), i = 1 \/ i \in DOMAIN ex.tx, ConfirmedBefore(ex, i),
           \A k \in 1..MaxTxs : \/ sent[id][k] = 0
                                \/ /\ sent[id][k] = 1
                                   /\ k \in DOMAIN ex.tx /\ ex.tx[k] = "confirmed",
           Proceeds(keys, id, ex, i, given, tracked), sent' = sent
    PROVE  IInv'
<1> DEFINE left == {j \in DOMAIN ex.tx : j >= i /\ ex.tx[j] # "confirmed"}
           run  == [ex EXCEPT !.status = "processing"]
<1>1. /\ IsExecution(run)
      /\ run.tx = ex.tx /\ run.status = "processing"
  BY DEF IsExecution
<1> HIDE DEF run
<1>2. ASSUME NEW w, Completes(w, keys, id, run) PROVE IInv'
  <2> DEFINE done == [run EXCEPT !.hid = HistoryOf(w, run)]
  <2>1. execs' = [execs EXCEPT ![id] = done] /\ loop' = [loop EXCEPT ![id] = Idle]
    BY <1>2 DEF Completes
  <2>2. IsExecution(done) /\ done.tx = ex.tx /\ done.status = "processing"
    BY <1>1 DEF IsExecution
  <2> HIDE DEF done
  <2>3. Shapes'
    BY <2>1, <2>2 DEF IInv, Shapes, Idle
  <2>4. ASSUME NEW d \in Executions PROVE LoopOK(d)' /\ SentOK(d)'
    BY <2>1, <2>2, <2>4 DEF IInv, Shapes, LoopOK, SentOK, Spent, ConfirmedBefore, Idle
  <2> QED
    BY <2>3, <2>4 DEF IInv
<1>3. ASSUME NEW w, NEW next \in left, Blocks(w, keys, id, run, next) PROVE IInv'
  <2> DEFINE mid == [run EXCEPT !.tx = [@ EXCEPT ![next] = "blocked"], !.signed = @ \ {next},
                                 !.status = "blocked"]
             blocked == [mid EXCEPT !.hid = HistoryOf(w, mid), !.route = <<>>]
  <2>1. execs' = [execs EXCEPT ![id] = blocked] /\ loop' = [loop EXCEPT ![id] = Idle]
    BY <1>3 DEF Blocks
  <2>2. /\ IsExecution(mid)
        /\ mid.tx = [ex.tx EXCEPT ![next] = "blocked"] /\ mid.status = "blocked"
    <3> SUFFICES ASSUME NEW m, m = mid
                 PROVE  /\ IsExecution(m)
                        /\ m.tx = [ex.tx EXCEPT ![next] = "blocked"] /\ m.status = "blocked"
      OBVIOUS
    <3>1. m = [status |-> m.status, chains |-> m.chains, tx |-> m.tx, signed |-> m.signed,
               executable |-> m.executable, prevent |-> m.prevent, swap |-> m.swap,
               route |-> m.route, hid |-> m.hid]
      BY <1>1 DEF IsExecution
    <3>2. m.tx = [ex.tx EXCEPT ![next] = "blocked"] /\ m.status = "blocked"
      BY <1>1 DEF IsExecution
    <3>3. DOMAIN m.tx = DOMAIN ex.tx
      BY <3>2
    <3> HIDE DEF mid
    <3> QED
      BY <3>1, <3>2, <3>3 DEF IsExecution
  <2> HIDE DEF mid
  <2>3. /\ IsExecution(blocked)
        /\ blocked.tx = [ex.tx EXCEPT ![next] = "blocked"] /\ blocked.status = "blocked"
    <3> SUFFICES ASSUME NEW b, b = blocked
                 PROVE  IsExecution(b) /\ b.tx = mid.tx /\ b.status = mid.status
      BY <2>2
    <3>1. b = [status |-> b.status, chains |-> b.chains, tx |-> b.tx, signed |-> b.signed,
               executable |-> b.executable, prevent |-> b.prevent, swap |-> b.swap,
               route |-> b.route, hid |-> b.hid]
      BY <2>2 DEF IsExecution
    <3>2. b.tx = mid.tx /\ b.status = mid.status
      BY <2>2 DEF IsExecution
    <3> HIDE DEF blocked
    <3> QED
      BY <2>2, <3>1, <3>2 DEF IsExecution
  <2> HIDE DEF blocked
  <2>4. Shapes'
    BY <2>1, <2>3 DEF IInv, Shapes, Idle
  <2>5. ASSUME NEW d \in Executions PROVE LoopOK(d)' /\ SentOK(d)'
    <3>1. CASE d # id
      BY <2>1, <2>5, <3>1 DEF IInv, Shapes, LoopOK, SentOK, Spent, ConfirmedBefore
    <3>2. CASE d = id
      <4>1. execs'[id] = blocked /\ loop'[id] = Idle
        BY <2>1 DEF IInv, Shapes
      <4>2. next \in DOMAIN ex.tx /\ ex.tx[next] # "confirmed"
        OBVIOUS
      <4>3. \A k \in DOMAIN ex.tx :
               ex.tx[k] = "confirmed" => k \in DOMAIN blocked.tx /\ blocked.tx[k] = "confirmed"
        BY <2>3, <4>2
      <4> QED
        BY <3>2, <2>3, <4>1, <4>3 DEF LoopOK, SentOK, Spent, Idle
    <3> QED
      BY <3>1, <3>2
  <2> QED
    BY <2>4, <2>5 DEF IInv
<1>4. ASSUME NEW next \in left, \A j \in left : next <= j, NEW l,
             l = [pc |-> l.pc, i |-> next, given |-> l.given], l.pc \in {"sign", "broadcast"},
             execs' = [execs EXCEPT ![id] = run], loop' = [loop EXCEPT ![id] = l]
      PROVE  IInv'
  <2>1. ConfirmedBefore(ex, next)
    <3> SUFFICES ASSUME NEW j \in 1..(next - 1) PROVE ex.tx[j] = "confirmed"
      BY DEF ConfirmedBefore
    <3>1. PICK n \in Nat : DOMAIN ex.tx = 1..n
      BY DEF IsExecution
    <3>2. j \in DOMAIN ex.tx /\ j < next
      BY <3>1
    <3>3. CASE j < i
      BY <3>3 DEF ConfirmedBefore
    <3>4. CASE j >= i
      BY <3>1, <3>2, <3>4, <1>4
    <3> QED
      BY <3>1, <3>2, <3>3, <3>4
  <2>2. Shapes'
    BY <1>1, <1>4 DEF IInv, Shapes
  <2>3. ASSUME NEW d \in Executions PROVE LoopOK(d)' /\ SentOK(d)'
    BY <2>1, <2>3, <1>1, <1>4 DEF IInv, Shapes, LoopOK, SentOK, Spent, ConfirmedBefore
  <2> QED
    BY <2>2, <2>3 DEF IInv
<1> QED
  BY <1>2, <1>3, <1>4 DEF Proceeds, run

\* The fields of an execution one of whose transactions has a new status.
LEMMA WithTxFields ==
    ASSUME NEW ex, IsExecution(ex), NEW i, NEW status, NEW w, w = WithTx(ex, i, status)
    PROVE  /\ IsExecution(w)
           /\ w.tx = [ex.tx EXCEPT ![i] = status] /\ w.status = ex.status
           /\ DOMAIN w.tx = DOMAIN ex.tx
<1>1. w = [status |-> w.status, chains |-> w.chains, tx |-> w.tx, signed |-> w.signed,
           executable |-> w.executable, prevent |-> w.prevent, swap |-> w.swap,
           route |-> w.route, hid |-> w.hid]
  BY DEF IsExecution, WithTx
<1>2. w.tx = [ex.tx EXCEPT ![i] = status] /\ w.status = ex.status
  BY DEF IsExecution, WithTx
<1> QED
  BY <1>1, <1>2 DEF IsExecution

\* recordAndExecuteTxs starts the loop at the first transaction.
LEMMA RecordKeeps ==
    ASSUME IInv, NEW id \in Executions, NEW plan \in Plans, RecordAndExecuteTxs(id, plan)
    PROVE  IInv'
<1> DEFINE ex == NewExecution(plan)
<1>1. PICK n \in Nat : DOMAIN plan.chains = 1..n
  BY PlansAssumption
<1>2. IsExecution(ex)
  BY <1>1 DEF NewExecution, IsExecution
<1>3. ConfirmedBefore(ex, 1)
  BY DEF ConfirmedBefore
<1>4. \A k \in 1..MaxTxs : \/ sent[id][k] = 0
                           \/ /\ sent[id][k] = 1
                              /\ k \in DOMAIN ex.tx /\ ex.tx[k] = "confirmed"
  BY DEF RecordAndExecuteTxs, IInv, SentOK
<1>5. Proceeds(recent \cup {id}, id, ex, 1, 0, FALSE) /\ sent' = sent
  BY DEF RecordAndExecuteTxs
<1> HIDE DEF ex
<1>6. 1 \in Nat \ {0}
  OBVIOUS
<1> QED
  BY <1>2, <1>3, <1>4, <1>5, <1>6, ProceedsKeeps

\* resumeTx starts it at a blocked one, with those before it confirmed.
LEMMA ResumeKeeps ==
    ASSUME IInv, NEW id \in Executions, NEW i, NEW tracked, ResumeTx(id, i, tracked)
    PROVE  IInv'
<1> DEFINE ex == execs[id]
<1>1. IsExecution(ex) /\ ex.status = "blocked"
  BY DEF IInv, Shapes, ResumeTx
<1>2. i \in DOMAIN ex.tx /\ i \in Nat \ {0} /\ ConfirmedBefore(ex, i)
  BY <1>1 DEF ResumeTx, IsExecution, ConfirmedBefore
<1>3. \A k \in 1..MaxTxs : \/ sent[id][k] = 0
                           \/ /\ sent[id][k] = 1
                              /\ k \in DOMAIN ex.tx /\ ex.tx[k] = "confirmed"
  BY <1>1 DEF IInv, SentOK, LoopOK, Spent
<1>4. Proceeds(recent, id, ex, i, i, tracked) /\ sent' = sent
  BY DEF ResumeTx
<1> HIDE DEF ex
<1> QED
  BY <1>1, <1>2, <1>3, <1>4, ProceedsKeeps

\* A traced transaction is confirmed, and was the one the loop was at.
LEMMA TraceKeeps ==
    ASSUME IInv, NEW id \in Executions, NEW tracked, TraceConfirms(id, tracked)
    PROVE  IInv'
<1> DEFINE i  == loop[id].i
           ex == WithTx(execs[id], i, "confirmed")
<1>1. /\ IsExecution(execs[id]) /\ execs[id].status = "processing"
      /\ i \in DOMAIN execs[id].tx /\ ConfirmedBefore(execs[id], i)
  BY DEF IInv, Shapes, LoopOK, TraceConfirms
<1>2. /\ IsExecution(ex) /\ ex.tx = [execs[id].tx EXCEPT ![i] = "confirmed"]
      /\ DOMAIN ex.tx = DOMAIN execs[id].tx
  BY <1>1, WithTxFields
<1>3. Proceeds(recent, id, ex, i, loop[id].given, tracked) /\ sent' = sent
  BY DEF TraceConfirms
<1>4. \A k \in 1..MaxTxs : \/ sent[id][k] = 0
                           \/ /\ sent[id][k] = 1
                              /\ k \in DOMAIN ex.tx /\ ex.tx[k] = "confirmed"
  BY <1>1, <1>2 DEF IInv, SentOK, Spent, TraceConfirms
<1> HIDE DEF ex
<1>5. i \in Nat \ {0} /\ i \in DOMAIN ex.tx /\ ConfirmedBefore(ex, i)
  BY <1>1, <1>2 DEF IsExecution, ConfirmedBefore
<1> HIDE DEF i
<1> QED
  BY <1>2, <1>3, <1>4, <1>5, ProceedsKeeps

\* A failed transaction ends the loop.
LEMMA FailKeeps == ASSUME IInv, NEW id \in Executions, TxFails(id) PROVE IInv'
<1> DEFINE i  == loop[id].i
           ex == WithTx(execs[id], i, "failed")
<1>1. /\ IsExecution(execs[id]) /\ execs[id].status = "processing"
      /\ i \in DOMAIN execs[id].tx
  BY DEF IInv, Shapes, LoopOK, TxFails, AwaitsResult
<1>2. /\ IsExecution(ex) /\ ex.tx = [execs[id].tx EXCEPT ![i] = "failed"]
      /\ DOMAIN ex.tx = DOMAIN execs[id].tx /\ ex.status = "processing"
  BY <1>1, WithTxFields
<1>3. execs' = [execs EXCEPT ![id] = ex] /\ loop' = [loop EXCEPT ![id] = Idle] /\ sent' = sent
  BY DEF TxFails
<1> HIDE DEF ex, i
<1>4. Shapes'
  BY <1>2, <1>3 DEF IInv, Shapes, Idle
<1>5. execs'[id] = ex /\ loop'[id] = Idle
  BY <1>3 DEF IInv, Shapes
<1>6. ASSUME NEW d \in Executions, d # id PROVE LoopOK(d)' /\ SentOK(d)'
  BY <1>3, <1>6 DEF IInv, Shapes, LoopOK, SentOK, Spent, ConfirmedBefore
<1>7. ASSUME NEW k \in DOMAIN ex.tx, k = i \/ execs[id].tx[k] = "confirmed"
      PROVE  ex.tx[k] \in {"confirmed", "failed"}
  BY <1>1, <1>2, <1>7
<1>8. SentOK(id)'
  BY <1>1, <1>2, <1>3, <1>5, <1>7 DEF IInv, SentOK, Spent, Idle, TxFails, AwaitsResult, i
<1>9. LoopOK(id)'
  BY <1>5 DEF LoopOK, Idle
<1> QED
  BY <1>4, <1>6, <1>8, <1>9 DEF IInv

\* A signature moves the loop on to the broadcast.
LEMMA SignKeeps == ASSUME IInv, NEW id \in Executions, SignSucceeds(id) PROVE IInv'
<1> DEFINE l == [loop[id] EXCEPT !.pc = "broadcast"]
<1>1. loop' = [loop EXCEPT ![id] = l] /\ execs' = execs /\ sent' = sent /\ loop[id].pc = "sign"
  BY DEF SignSucceeds, IInv, Shapes
<1>2. l = [pc |-> "broadcast", i |-> loop[id].i, given |-> loop[id].given]
  BY DEF IInv, Shapes
<1> HIDE DEF l
<1>3. Shapes'
  BY <1>1, <1>2 DEF IInv, Shapes
<1>4. ASSUME NEW d \in Executions PROVE LoopOK(d)' /\ SentOK(d)'
  BY <1>1, <1>2, <1>4 DEF IInv, Shapes, LoopOK, SentOK, Spent
<1> QED
  BY <1>3, <1>4 DEF IInv

\* A broadcast counts the transaction the loop is at, which was not counted before.
LEMMA BroadcastKeeps == ASSUME IInv, NEW id \in Executions, BroadcastSucceeds(id) PROVE IInv'
<1> DEFINE l == [loop[id] EXCEPT !.pc = "trace"]
           n == [sent[id] EXCEPT ![loop[id].i] = @ + 1]
<1>1. /\ loop' = [loop EXCEPT ![id] = l] /\ execs' = execs /\ loop[id].pc = "broadcast"
      /\ sent' = [sent EXCEPT ![id] = n]
  BY DEF BroadcastSucceeds, IInv, Shapes
<1>2. l = [pc |-> "trace", i |-> loop[id].i, given |-> loop[id].given]
  BY DEF IInv, Shapes
<1>3. /\ n = [i \in 1..MaxTxs |-> n[i]]
      /\ \A i \in 1..MaxTxs : n[i] = IF i = loop[id].i THEN sent[id][i] + 1 ELSE sent[id][i]
  BY DEF IInv, Shapes
<1> HIDE DEF l, n
<1>4. Shapes'
  BY <1>1, <1>2, <1>3 DEF IInv, Shapes
<1>5. ASSUME NEW d \in Executions, d # id PROVE LoopOK(d)' /\ SentOK(d)'
  BY <1>1, <1>5 DEF IInv, Shapes, LoopOK, SentOK, Spent
<1>6. loop'[id] = l /\ sent'[id] = n
  BY <1>1 DEF IInv, Shapes
<1>7. LoopOK(id)'
  BY <1>1, <1>2, <1>6 DEF IInv, LoopOK
<1>8. sent[id][loop[id].i] = 0 \/ loop[id].i \notin 1..MaxTxs
  BY <1>1 DEF IInv, LoopOK, SentOK, Spent
<1>9. SentOK(id)'
  BY <1>1, <1>2, <1>3, <1>6, <1>8 DEF IInv, LoopOK, SentOK, Spent
<1> QED
  BY <1>4, <1>5, <1>7, <1>9 DEF IInv

\* An event leaves the transactions as they are.
LEMMA EventKeeps == ASSUME IInv, HandleEvent PROVE IInv'
<1> DEFINE id == Head(bus).exec
           ex == [execs[id] EXCEPT !.executable = @ \cup Head(bus).chains]
<1>1. loop' = loop /\ sent' = sent /\ (execs' = execs \/ execs' = [execs EXCEPT ![id] = ex])
  BY DEF HandleEvent
<1>2. CASE execs' = execs
  BY <1>1, <1>2 DEF IInv, Shapes, LoopOK, SentOK, Spent
<1>3. CASE id \notin Executions
  BY <1>1, <1>2, <1>3 DEF IInv, Shapes
<1>4. CASE id \in Executions /\ execs' = [execs EXCEPT ![id] = ex]
  <2>1. IsExecution(ex) /\ ex.tx = execs[id].tx /\ ex.status = execs[id].status
    <3> DEFINE chains == Head(bus).chains
    <3> HIDE DEF id, chains
    <3> SUFFICES ASSUME NEW e, e = ex
                 PROVE  IsExecution(e) /\ e.tx = execs[id].tx /\ e.status = execs[id].status
      OBVIOUS
    <3>1. IsExecution(execs[id])
      BY <1>4 DEF IInv, Shapes
    <3>2. e = [status |-> e.status, chains |-> e.chains, tx |-> e.tx, signed |-> e.signed,
               executable |-> e.executable, prevent |-> e.prevent, swap |-> e.swap,
               route |-> e.route, hid |-> e.hid]
      BY <3>1 DEF IsExecution
    <3>3. e.tx = execs[id].tx /\ e.status = execs[id].status
      BY <3>1 DEF IsExecution
    <3> HIDE DEF ex
    <3> QED
      BY <3>1, <3>2, <3>3 DEF IsExecution
  <2> HIDE DEF ex, id
  <2>2. Shapes'
    BY <1>1, <1>4, <2>1 DEF IInv, Shapes
  <2>3. ASSUME NEW d \in Executions PROVE LoopOK(d)' /\ SentOK(d)'
    BY <1>1, <1>4, <2>1, <2>3 DEF IInv, Shapes, LoopOK, SentOK, Spent, ConfirmedBefore
  <2> QED
    BY <2>2, <2>3 DEF IInv
<1> QED
  BY <1>1, <1>2, <1>3, <1>4

\* An end of the worker keeps the executions that no loop is in.
LEMMA KillKeeps == ASSUME IInv, Kill PROVE IInv'
<1>1. /\ loop' = [d \in Executions |-> Idle] /\ sent' = sent
      /\ execs' = [d \in Executions |->
                      IF d \in recent' \/ execs[d].status = "unused" THEN execs[d]
                      ELSE NoExecution("gone")]
      /\ \A d \in recent' : execs[d].status = "blocked"
  BY DEF Kill
<1>2. IsExecution(NoExecution("gone")) /\ NoExecution("gone").status = "gone"
  <2>1. DOMAIN NoExecution("gone").tx = 1..0
    BY DEF NoExecution
  <2> QED
    BY <2>1 DEF IsExecution, NoExecution
<1>3. Shapes'
  BY <1>1, <1>2 DEF IInv, Shapes, Idle
<1>4. ASSUME NEW d \in Executions PROVE LoopOK(d)' /\ SentOK(d)'
  <2>1. loop'[d].pc = "off" /\ LoopOK(d)'
    BY <1>1, <1>4 DEF Idle, LoopOK
  <2>2. CASE execs'[d] = NoExecution("gone")
    BY <1>1, <1>2, <1>4, <2>1, <2>2 DEF IInv, SentOK, Spent
  <2>3. CASE execs'[d] = execs[d] /\ execs[d].status \in {"blocked", "unused"}
    <3>1. loop[d].pc = "off"
      BY <1>4, <2>3 DEF IInv, LoopOK
    <3>2. ASSUME NEW i \in 1..MaxTxs, Spent(d, i) PROVE Spent(d, i)'
      BY <2>3, <3>1, <3>2 DEF Spent
    <3> QED
      BY <1>1, <1>4, <2>1, <2>3, <3>2 DEF IInv, SentOK
  <2> QED
    BY <1>1, <1>4, <2>1, <2>2, <2>3
<1> QED
  BY <1>3, <1>4 DEF IInv

\* Every step keeps the invariant of the executions.
LEMMA StepIInv == IInv /\ [Next]_vars => IInv'
<1> SUFFICES ASSUME IInv, [Next]_vars PROVE IInv'
  OBVIOUS
<1>1. ASSUME execs' = execs, loop' = loop, sent' = sent PROVE IInv'
  BY <1>1 DEF IInv, Shapes, LoopOK, SentOK, Spent
<1>2. CASE Subscribe
  BY <1>1, <1>2 DEF Subscribe
<1>3. CASE HistoryStep /\ UNCHANGED <<execs, recent, loop, subscribed, kills, sent, missed>>
  BY <1>1, <1>3
<1>4. CASE UNCHANGED vars
  BY <1>1, <1>4 DEF vars
<1> QED
  BY <1>2, <1>3, <1>4, RecordKeeps, ResumeKeeps, TraceKeeps, FailKeeps, SignKeeps,
     BroadcastKeeps, EventKeeps, KillKeeps DEF Next

\* No transaction of any plan is broadcast twice, however often the page resumes, the
\* worker ends and histories are removed.
THEOREM NoDoubleSpend == Spec => []SentOnce
<1>1. IInv => SentOnce
  BY DEF IInv, SentOK, SentOnce
<1> QED
  BY InitIInv, StepIInv, <1>1, PTL DEF Spec

\* A transaction is broadcast only when all those before it are confirmed.
THEOREM InOrder == Spec => TxsInOrder
<1> DEFINE Ordered == \A id \in Executions, i \in 1..MaxTxs :
                         sent'[id][i] # sent[id][i] =>
                             \A j \in 1..(i - 1) : execs[id].tx[j] = "confirmed"
<1>1. IInv /\ [Next]_vars => [Ordered]_vars
  <2> SUFFICES ASSUME IInv, [Next]_vars, NEW id \in Executions, NEW i \in 1..MaxTxs,
                      sent'[id][i] # sent[id][i], NEW j \in 1..(i - 1)
               PROVE  execs[id].tx[j] = "confirmed"
    OBVIOUS
  <2>1. PICK d \in Executions : BroadcastSucceeds(d)
    BY DEF Next, vars, RecordAndExecuteTxs, ResumeTx, TraceConfirms, SignSucceeds, TxFails,
           HandleEvent, Subscribe, Kill
  <2>2. /\ sent' = [sent EXCEPT ![d] = [sent[d] EXCEPT ![loop[d].i] = @ + 1]]
        /\ loop[d].pc = "broadcast"
    BY <2>1 DEF BroadcastSucceeds
  <2>3. d = id /\ i = loop[d].i
    BY <2>2 DEF IInv, Shapes
  <2> QED
    BY <2>2, <2>3 DEF IInv, LoopOK, ConfirmedBefore
<1> QED
  BY InitIInv, StepIInv, <1>1, PTL DEF Spec, TxsInOrder
-----------------------------------------------------------------------------
\* The least-number principle, for sets.
LEMMA LeastNatural ==
  ASSUME NEW T, T \subseteq Nat, T # {}
  PROVE  \E x \in T : \A y \in T : x <= y
<1>1. PICK x \in T : \A y \in T : ~(<<y, x>> \in OpToRel(<, Nat))
  BY NatLessThanWellFounded, WFMin
<1>2. \A y \in T : ~(y < x)
  BY <1>1 DEF OpToRel
<1> QED BY <1>2

\* Induction over the natural numbers, for sets.
LEMMA NaturalsAreAll ==
  ASSUME NEW T, 0 \in T, \A n \in Nat : n \in T => n + 1 \in T
  PROVE  Nat \subseteq T
<1> SUFFICES ASSUME Nat \ T # {} PROVE FALSE
  OBVIOUS
<1>1. PICK x \in Nat \ T : \A y \in Nat \ T : x <= y
  BY LeastNatural
<1>2. x # 0 /\ x - 1 \in Nat
  BY <1>1
<1>3. x - 1 \in T
  BY <1>1, <1>2
<1> QED BY <1>1, <1>2, <1>3

\* The largest of a finite set of numbers.
LEMMA LargestNatural ==
  ASSUME NEW T, T \subseteq Nat, T # {}, NEW b \in Nat, \A y \in T : y <= b
  PROVE  Max(T) \in T /\ \A y \in T : y <= Max(T)
<1> DEFINE U == {u \in Nat : \A y \in T : y <= u}
<1>1. PICK u \in U : \A v \in U : u <= v
  BY LeastNatural
<1>2. u \in T
  <2> SUFFICES ASSUME u \notin T PROVE FALSE
    OBVIOUS
  <2>1. PICK t \in T : TRUE
    OBVIOUS
  <2>2. u # 0
    BY <1>1, <2>1
  <2>3. u - 1 \in U
    BY <1>1, <2>2
  <2> QED BY <1>1, <2>3
<1>3. \E x \in T : \A y \in T : x >= y
  BY <1>1, <1>2
<1> QED BY <1>3 DEF Max

\* A joined sequence has the elements of both, and no others.
LEMMA Joins ==
  ASSUME NEW S, NEW s \in Seq(S), NEW t \in Seq(S)
  PROVE  /\ s \o t \in Seq(S)
         /\ Range(s \o t) = Range(s) \cup Range(t)
<1>1. /\ s \o t \in Seq(S) /\ Len(s \o t) = Len(s) + Len(t)
      /\ Len(s) \in Nat /\ Len(t) \in Nat
      /\ DOMAIN s = 1..Len(s) /\ DOMAIN t = 1..Len(t)
  OBVIOUS
<1>2. DOMAIN (s \o t) = 1..(Len(s) + Len(t))
  BY <1>1
<1>3. \A i \in 1..(Len(s) + Len(t)) :
         (s \o t)[i] = IF i <= Len(s) THEN s[i] ELSE t[i - Len(s)]
  BY <1>1
<1>4. ASSUME NEW i \in 1..Len(s) PROVE s[i] \in Range(s \o t)
  <2>1. i \in 1..(Len(s) + Len(t)) /\ (s \o t)[i] = s[i]
    BY <1>1, <1>3
  <2> QED BY <1>2, <2>1 DEF Range
<1>5. ASSUME NEW i \in 1..Len(t) PROVE t[i] \in Range(s \o t)
  <2>1. Len(s) + i \in 1..(Len(s) + Len(t)) /\ (s \o t)[Len(s) + i] = t[i]
    BY <1>1, <1>3
  <2> QED BY <1>2, <2>1 DEF Range
<1>6. ASSUME NEW i \in 1..(Len(s) + Len(t)) PROVE (s \o t)[i] \in Range(s) \cup Range(t)
  <2>1. CASE i <= Len(s)
    BY <1>1, <1>3, <2>1 DEF Range
  <2>2. CASE ~(i <= Len(s))
    <3>1. i - Len(s) \in 1..Len(t) /\ (s \o t)[i] = t[i - Len(s)]
      BY <1>1, <1>3, <2>2
    <3> QED BY <1>1, <3>1 DEF Range
  <2> QED BY <2>1, <2>2
<1>7. /\ \A x \in Range(s) : x \in Range(s \o t)
      /\ \A x \in Range(t) : x \in Range(s \o t)
  BY <1>1, <1>4, <1>5 DEF Range
<1>8. \A x \in Range(s \o t) : x \in Range(s) \cup Range(t)
  BY <1>2, <1>6 DEF Range
<1> QED BY <1>1, <1>7, <1>8

\* What is flattened keeps its type, and has all elements of the sequences.
LEMMA Flattens ==
  ASSUME NEW S, NEW seqs \in Seq(Seq(S))
  PROVE  /\ FlattenSeq(seqs) \in Seq(S)
         /\ \A k \in DOMAIN seqs : Range(seqs[k]) \subseteq Range(FlattenSeq(seqs))
<1> DEFINE n == Len(seqs)
           Def(g, i) == IF i = 1 THEN seqs[i] ELSE g[i - 1] \o seqs[i]
<1>0. /\ n \in Nat /\ DOMAIN seqs = 1..n
      /\ \A i \in 1..n : seqs[i] \in Seq(S)
  OBVIOUS
<1>1. CASE n = 0
  BY <1>1 DEF FlattenSeq
<1>2. ASSUME n # 0, NEW g, g = [i \in 1..n |-> Def(g, i)]
      PROVE  \A i \in 1..n : g[i] \in Seq(S) /\ \A k \in 1..i : Range(seqs[k]) \subseteq Range(g[i])
  <2> DEFINE Has(i) == g[i] \in Seq(S) /\ \A k \in 1..i : Range(seqs[k]) \subseteq Range(g[i])
             T == {i \in Nat : i \in 1..n => Has(i)}
  <2>0. \A i \in 1..n : g[i] = Def(g, i)
    <3> HIDE DEF Def, n
    <3> QED BY <1>2
  <2>1. 0 \in T
    OBVIOUS
  <2>2. ASSUME NEW i \in Nat, i \in T PROVE i + 1 \in T
    <3> SUFFICES ASSUME i + 1 \in 1..n PROVE Has(i + 1)
      OBVIOUS
    <3>1. CASE i = 0
      <4>1. g[1] = seqs[1]
        BY <1>0, <2>0, <3>1
      <4> QED BY <1>0, <4>1, <3>1
    <3>2. CASE i # 0
      <4>1. Has(i) /\ i \in 1..n /\ i + 1 # 1 /\ (i + 1) - 1 = i
        BY <2>2, <3>2, <1>0
      <4>2. g[i + 1] = g[i] \o seqs[i + 1]
        <5>1. g[i + 1] = Def(g, i + 1)
          BY <2>0
        <5> QED BY <5>1, <4>1
      <4>3. g[i] \in Seq(S) /\ seqs[i + 1] \in Seq(S)
        BY <4>1, <1>0
      <4>4. g[i + 1] \in Seq(S) /\ Range(g[i + 1]) = Range(g[i]) \cup Range(seqs[i + 1])
        BY <4>2, <4>3, Joins
      <4>5. ASSUME NEW k \in 1..(i + 1) PROVE Range(seqs[k]) \subseteq Range(g[i + 1])
        <5>1. CASE k = i + 1
          BY <4>4, <5>1
        <5>2. CASE k \in 1..i
          BY <4>1, <4>4, <5>2
        <5> QED BY <5>1, <5>2
      <4> QED BY <4>4, <4>5
    <3> QED BY <3>1, <3>2
  <2> HIDE DEF T
  <2>3. Nat \subseteq T
    BY <2>1, <2>2, NaturalsAreAll
  <2>4. \A i \in 1..n : i \in Nat /\ i \in T
    BY <2>3, <1>0
  <2> HIDE DEF n
  <2> QED BY <2>4 DEF T
<1>3. ASSUME n # 0 PROVE \E g : g = [i \in 1..n |-> Def(g, i)]
  <2> DEFINE Defined(m) == \E g \in [1..m -> Seq(S)] : \A i \in 1..m : g[i] = Def(g, i)
             T == {m \in Nat : m <= n => Defined(m)}
  <2>1. 0 \in T
    <3>1. [i \in 1..0 |-> <<>>] \in [1..0 -> Seq(S)] /\ \A i \in 1..0 : FALSE
      OBVIOUS
    <3> HIDE DEF Def
    <3>2. Defined(0)
      BY <3>1
    <3> HIDE DEF Defined
    <3> QED BY <3>2
  <2>2. ASSUME NEW m \in Nat, m \in T PROVE m + 1 \in T
    <3> SUFFICES ASSUME m + 1 <= n PROVE Defined(m + 1)
      <4> HIDE DEF Defined
      <4> QED OBVIOUS
    <3>0. m <= n
      BY <1>0
    <3>1. PICK g \in [1..m -> Seq(S)] : \A i \in 1..m : g[i] = Def(g, i)
      BY <2>2, <3>0
    <3> DEFINE h == [i \in 1..(m + 1) |-> IF i <= m THEN g[i] ELSE Def(g, i)]
    <3>2. h \in [1..(m + 1) -> Seq(S)]
      <4>1. Def(g, m + 1) \in Seq(S)
        <5>1. CASE m = 0
          BY <5>1, <1>0
        <5>2. CASE m # 0
          <6>1. g[m] \in Seq(S) /\ seqs[m + 1] \in Seq(S)
            BY <5>2, <1>0
          <6> QED BY <6>1, <5>2
        <5> QED BY <5>1, <5>2
      <4>2. \A i \in 1..(m + 1) : h[i] \in Seq(S)
        BY <4>1
      <4> QED BY <4>2
    <3>3. \A i \in 1..(m + 1) : h[i] = Def(h, i)
      <4> SUFFICES ASSUME NEW i \in 1..(m + 1) PROVE h[i] = Def(h, i)
        OBVIOUS
      <4>1. i # 1 => (i - 1 \in 1..m /\ h[i - 1] = g[i - 1])
        OBVIOUS
      <4>2. h[i] = IF i <= m THEN g[i] ELSE Def(g, i)
        OBVIOUS
      <4>3. i <= m => i \in 1..m
        OBVIOUS
      <4>4. h[i] = Def(g, i)
        <5> HIDE DEF h, Def
        <5> QED BY <4>2, <4>3, <3>1
      <4>5. Def(g, i) = Def(h, i)
        <5> HIDE DEF h
        <5> QED BY <4>1
      <4> QED BY <4>4, <4>5
    <3> QED BY <3>2, <3>3
  <2> HIDE DEF T
  <2>3. Nat \subseteq T
    BY <2>1, <2>2, NaturalsAreAll
  <2>4. PICK g \in [1..n -> Seq(S)] : \A i \in 1..n : g[i] = Def(g, i)
    <3>1. n \in T /\ n <= n
      BY <2>3, <1>0
    <3>2. Defined(n)
      <4> HIDE DEF n, Defined
      <4> QED BY <3>1 DEF T
    <3> QED BY <3>2
  <2>5. g = [i \in 1..n |-> Def(g, i)]
    <3>1. g = [i \in 1..n |-> g[i]]
      OBVIOUS
    <3> HIDE DEF Def, n
    <3> QED BY <2>4, <3>1
  <2> QED BY <2>5
<1>4. CASE n # 0
  <2> DEFINE f == CHOOSE g : g = [i \in 1..n |-> Def(g, i)]
  <2>1. FlattenSeq(seqs) = f[n]
    BY <1>4 DEF FlattenSeq
  <2>2. f = [i \in 1..n |-> Def(f, i)]
    BY <1>3, <1>4
  <2> HIDE DEF f
  <2>3. \A i \in 1..n : f[i] \in Seq(S) /\ \A k \in 1..i : Range(seqs[k]) \subseteq Range(f[i])
    BY <1>2, <1>4, <2>2
  <2>4. n \in 1..n
    BY <1>0, <1>4
  <2> HIDE DEF n
  <2>5. f[n] \in Seq(S) /\ \A k \in 1..n : Range(seqs[k]) \subseteq Range(f[n])
    BY <2>3, <2>4
  <2> QED BY <1>0, <2>1, <2>5
<1> QED BY <1>1, <1>4
-----------------------------------------------------------------------------
(***************************************************************************)
(* The histories.                                                          *)
(***************************************************************************)

TrackerStates == {"off", "fulfil", "poll", "status", "asset"}

\* An asset between two transactions is on a chain.
HistOK(hist) ==
    /\ hist \in HistoryRecord
    /\ hist.index <= Len(hist.route) /\ hist.route # <<>>
    /\ hist.asset.type = "intermediate" => hist.asset.chain \in Chains

HistoriesOK(hs, n, tr) ==
    /\ n \in 0..MaxHistories
    /\ DOMAIN hs \subseteq 0..(n - 1)
    /\ \A h \in DOMAIN hs : HistOK(hs[h])
    /\ tr \in [HistoryIds -> TrackerStates]
    /\ \A h \in HistoryIds : tr[h] # "off" => h \in DOMAIN hs

\* The chains the events of a sequence tell an execution of.
Told(events, id) == UNION {event.chains : event \in {e \in Range(events) : e.exec = id}}

\* A history changes, and tells its execution if it has reached another chain.
Moves(h) ==
    \E hist, pc, events :
        /\ DOMAIN hists' = DOMAIN hists
        /\ \A g \in DOMAIN hists : hists'[g] = IF g = h THEN hist ELSE hists[g]
        /\ pc \in TrackerStates /\ tracker' = [tracker EXCEPT ![h] = pc]
        /\ hseq' = hseq
        /\ events \in Seq(EventRecord) /\ bus' = bus \o events
        /\ HistOK(hist) /\ hist.exec = hists[h].exec
        /\ hist.exec # None =>
              ExecutableChains(hist) \subseteq ExecutableChains(hists[h]) \cup Told(events, hist.exec)

\* What a history has reached are chains.
LEMMA ExecutableAreChains ==
  ASSUME NEW hist, HistOK(hist)
  PROVE  ExecutableChains(hist) \in SUBSET Chains
<1>1. /\ hist.route \in Seq(Chains) /\ hist.index \in Nat /\ hist.index <= Len(hist.route)
      /\ hist.asset.type = "intermediate" => hist.asset.chain \in Chains
  BY DEF HistOK, HistoryRecord
<1>2. \A i \in 1..hist.index : hist.route[i] \in Chains
  BY <1>1
<1> QED BY <1>1, <1>2 DEF ExecutableChains

\* A published event tells the execution of the history of the chains.
LEMMA PublishedTells ==
  ASSUME NEW hist, HistOK(hist), NEW chains \in SUBSET Chains
  PROVE  /\ Published(hist, chains) \in Seq(EventRecord)
         /\ hist.exec # None => chains \subseteq Told(Published(hist, chains), hist.exec)
<1>1. CASE hist.exec = None
  BY <1>1 DEF Published
<1>2. CASE hist.exec # None
  <2> DEFINE event == [type |-> "executable", exec |-> hist.exec, chains |-> chains]
  <2>1. hist.exec \in Executions
    BY <1>2 DEF HistOK, HistoryRecord
  <2>2. event \in EventRecord
    BY <2>1 DEF EventRecord
  <2>3. event.exec = hist.exec /\ event.chains = chains
    OBVIOUS
  <2>4. Published(hist, chains) = <<event>>
    BY <1>2 DEF Published
  <2> HIDE DEF event
  <2>5. <<event>> \in Seq(EventRecord) /\ event \in Range(<<event>>)
    BY <2>2 DEF Range
  <2> QED BY <2>3, <2>4, <2>5 DEF Told
<1> QED BY <1>1, <1>2

\* A change of one history with what the tracking publishes of it.
LEMMA TrackedMoves ==
  ASSUME HistoriesOK(hists, hseq, tracker), NEW h \in DOMAIN hists, NEW hist, HistOK(hist),
         hist.exec = hists[h].exec, NEW pc \in TrackerStates, NEW events,
         \/ events = <<>> /\ ExecutableChains(hist) \subseteq ExecutableChains(hists[h])
         \/ events = Published(hist, ExecutableChains(hist)),
         Tracked(h, hist, pc, events)
  PROVE  Moves(h)
<1>1. /\ events \in Seq(EventRecord)
      /\ hist.exec # None =>
            ExecutableChains(hist) \subseteq ExecutableChains(hists[h]) \cup Told(events, hist.exec)
  <2> DEFINE chains == ExecutableChains(hist)
  <2>1. chains \in SUBSET Chains
    BY ExecutableAreChains
  <2> HIDE DEF chains
  <2>2. /\ Published(hist, chains) \in Seq(EventRecord)
        /\ hist.exec # None => chains \subseteq Told(Published(hist, chains), hist.exec)
    BY <2>1, PublishedTells
  <2>3. CASE events = <<>> /\ chains \subseteq ExecutableChains(hists[h])
    BY <2>3 DEF chains
  <2>4. CASE events = Published(hist, chains)
    BY <2>2, <2>4 DEF chains
  <2> QED BY <2>3, <2>4 DEF chains
<1>2. /\ DOMAIN hists' = DOMAIN hists
      /\ \A g \in DOMAIN hists : hists'[g] = IF g = h THEN hist ELSE hists[g]
      /\ tracker' = [tracker EXCEPT ![h] = pc] /\ hseq' = hseq /\ bus' = bus \o events
  BY DEF Tracked
<1> QED BY <1>1, <1>2 DEF Moves

\* A step of the tracking that leaves the histories as they are.
LEMMA WaitsMoves ==
  ASSUME HistoriesOK(hists, hseq, tracker), bus \in Seq(EventRecord), NEW h \in DOMAIN hists,
         NEW pc \in TrackerStates, tracker' = [tracker EXCEPT ![h] = pc],
         UNCHANGED <<hists, hseq, bus>>
  PROVE  Moves(h)
<1>1. <<>> \in Seq(EventRecord) /\ bus' = bus \o <<>>
  OBVIOUS
<1>2. HistOK(hists[h])
  BY DEF HistoriesOK
<1> QED BY <1>1, <1>2 DEF Moves

\* The place of a chain on a route.
LEMMA RouteIndexInRoute ==
  ASSUME NEW hist, HistOK(hist), NEW chain
  PROVE  RouteIndexOf(hist, chain) \in 0..Len(hist.route)
<1> DEFINE at == {i \in DOMAIN hist.route : hist.route[i] = chain}
<1>1. hist.route \in Seq(Chains) /\ Len(hist.route) \in Nat
  BY DEF HistOK, HistoryRecord
<1>2. at \subseteq 1..Len(hist.route) /\ at \subseteq Nat
  BY <1>1
<1>3. CASE at = {}
  BY <1>1, <1>3 DEF RouteIndexOf
<1>4. CASE at # {}
  <2>1. \E i \in at : \A j \in at : i <= j
    BY <1>2, <1>4, LeastNatural
  <2>2. RouteIndexOf(hist, chain) \in at
    BY <1>4, <2>1 DEF RouteIndexOf
  <2> QED BY <1>1, <1>2, <2>2
<1> QED BY <1>3, <1>4

\* The new index of a history is on its route.
LEMMA UpdatedInRoute ==
  ASSUME NEW hist, HistOK(hist), NEW reached \in 0..Len(hist.route)
  PROVE  UpdatedIndex(hist, reached) \in 1..Len(hist.route)
<1>1. /\ hist.route \in Seq(Chains) /\ Len(hist.route) \in Nat /\ Len(hist.route) # 0
      /\ hist.index \in Nat /\ hist.index <= Len(hist.route)
  BY DEF HistOK, HistoryRecord
<1> QED BY <1>1 DEF UpdatedIndex

\* The destination of a route is a chain.
LEMMA LastInRoute ==
  ASSUME NEW hist, HistOK(hist) PROVE Last(hist.route) \in Chains
<1>1. hist.route \in Seq(Chains) /\ hist.route # <<>>
  BY DEF HistOK, HistoryRecord
<1>2. Len(hist.route) \in 1..Len(hist.route)
  BY <1>1
<1> QED BY <1>1, <1>2 DEF Last

\* The fields that decide what a history has reached, and of whom it tells.
SameReach(new, old) ==
    new.route = old.route /\ new.exec = old.exec /\ new.index = old.index /\ new.asset = old.asset

\* Histories that agree on those fields have reached the same chains.
LEMMA SameReachSameChains ==
  ASSUME NEW new, NEW old, SameReach(new, old)
  PROVE  ExecutableChains(new) = ExecutableChains(old)
BY DEF SameReach, ExecutableChains

\* A status without steps reaches no chain.
LEMMA NoStepsMoves ==
  ASSUME HistoriesOK(hists, hseq, tracker), NEW h \in DOMAIN hists, NEW status \in Statuses,
         StatusWithoutSteps(h, status)
  PROVE  Moves(h)
<1> DEFINE old == hists[h]
           new == [old EXCEPT !.status = status, !.failed = FALSE,
                              !.done = @ \/ status # "in_progress"]
           pc  == IF status = "in_progress" THEN "poll" ELSE "off"
<1>1. HistOK(old)
  BY DEF HistoriesOK
<1>2. HistOK(new) /\ SameReach(new, old)
  <2> HIDE DEF old
  <2> QED BY <1>1 DEF HistOK, HistoryRecord, SameReach
<1>3. Tracked(h, new, pc, <<>>) /\ pc \in TrackerStates
  BY DEF StatusWithoutSteps, TrackerStates
<1> HIDE DEF new, pc
<1>4. new.exec = hists[h].exec /\ ExecutableChains(new) \subseteq ExecutableChains(hists[h])
  BY <1>2, SameReachSameChains DEF SameReach
<1> QED BY <1>2, <1>3, <1>4, TrackedMoves

\* A status that stays unknown reaches no chain.
LEMMA TooLongMoves ==
  ASSUME HistoriesOK(hists, hseq, tracker), NEW h \in DOMAIN hists, NEW status \in Statuses,
         StatusUnknownTooLong(h, status)
  PROVE  Moves(h)
<1> DEFINE old == hists[h]
           new == [old EXCEPT !.status = status, !.done = TRUE, !.failed = FALSE]
<1>1. HistOK(old)
  BY DEF HistoriesOK
<1>2. HistOK(new) /\ SameReach(new, old)
  <2> HIDE DEF old
  <2> QED BY <1>1 DEF HistOK, HistoryRecord, SameReach
<1>3. Tracked(h, new, "off", <<>>) /\ "off" \in TrackerStates
  BY DEF StatusUnknownTooLong, TrackerStates
<1> HIDE DEF new
<1>4. new.exec = hists[h].exec /\ ExecutableChains(new) \subseteq ExecutableChains(hists[h])
  BY <1>2, SameReachSameChains DEF SameReach
<1> QED BY <1>2, <1>3, <1>4, TrackedMoves

\* A final status that is asked for again reaches no chain.
LEMMA RetriedMoves ==
  ASSUME HistoriesOK(hists, hseq, tracker), NEW h \in DOMAIN hists, NEW status \in Statuses,
         StatusRetried(h, status)
  PROVE  Moves(h)
<1> DEFINE old == hists[h]
           new == [old EXCEPT !.status = status, !.failed = FALSE, !.retries = @ + 1]
<1>1. HistOK(old)
  BY DEF HistoriesOK
<1>2. HistOK(new) /\ SameReach(new, old)
  <2>1. old.retries < FinalizationRetries
    BY DEF StatusRetried
  <2>2. old.retries + 1 \in 0..FinalizationRetries
    BY <1>1, <2>1, HistoryAssumption DEF HistOK, HistoryRecord
  <2> HIDE DEF old
  <2> QED BY <1>1, <2>2 DEF HistOK, HistoryRecord, SameReach
<1>3. Tracked(h, new, "poll", <<>>) /\ "poll" \in TrackerStates
  BY DEF StatusRetried, TrackerStates
<1> HIDE DEF new
<1>4. new.exec = hists[h].exec /\ ExecutableChains(new) \subseteq ExecutableChains(hists[h])
  BY <1>2, SameReachSameChains DEF SameReach
<1> QED BY <1>2, <1>3, <1>4, TrackedMoves

\* A history in progress publishes when its index grows.
LEMMA InProgressMoves ==
  ASSUME HistoriesOK(hists, hseq, tracker), NEW h \in DOMAIN hists,
         NEW reached \in 0..Len(hists[h].route), StatusInProgress(h, reached)
  PROVE  Moves(h)
<1> DEFINE old == hists[h]
           at  == UpdatedIndex(old, reached)
           new == [old EXCEPT !.status = "in_progress", !.failed = FALSE,
                              !.index = IF at > @ THEN at ELSE @]
           events == IF new.index > old.index THEN Published(new, ExecutableChains(new)) ELSE <<>>
<1>1. HistOK(old)
  BY DEF HistoriesOK
<1>2. at \in 1..Len(old.route)
  BY <1>1, UpdatedInRoute
<1>3. Tracked(h, new, "poll", events) /\ "poll" \in TrackerStates
  BY DEF StatusInProgress, TrackerStates
<1> HIDE DEF at, old
<1>4. old.index \in Nat /\ Len(old.route) \in Nat
  BY <1>1 DEF HistOK, HistoryRecord
<1>5. /\ HistOK(new) /\ new.exec = old.exec /\ new.route = old.route /\ new.asset = old.asset
      /\ new.index = IF at > old.index THEN at ELSE old.index
  <2> DEFINE index == IF at > old.index THEN at ELSE old.index
  <2>1. index \in Nat /\ index <= Len(old.route)
    BY <1>1, <1>2, <1>4 DEF HistOK
  <2>2. new = [old EXCEPT !.status = "in_progress", !.failed = FALSE, !.index = index]
    OBVIOUS
  <2>3. "in_progress" \in Statuses
    BY DEF Statuses
  <2> HIDE DEF index, new
  <2>4. HistOK(new) /\ new.exec = old.exec /\ new.route = old.route /\ new.asset = old.asset
        /\ new.index = index
    BY <1>1, <2>1, <2>2, <2>3 DEF HistOK, HistoryRecord
  <2> QED BY <2>4 DEF index
<1> HIDE DEF new
<1>6. CASE new.index > old.index
  BY <1>3, <1>5, <1>6, TrackedMoves DEF old
<1>7. CASE ~(new.index > old.index)
  <2>1. new.index = old.index
    BY <1>2, <1>4, <1>5, <1>7
  <2>2. SameReach(new, old)
    BY <2>1, <1>5 DEF SameReach
  <2>3. ExecutableChains(new) \subseteq ExecutableChains(hists[h])
    BY <2>2, SameReachSameChains DEF old
  <2> QED BY <1>3, <1>5, <1>7, <2>3, TrackedMoves DEF old
<1> QED BY <1>6, <1>7

\* An asset that has arrived is published.
LEMMA WithAssetMoves ==
  ASSUME HistoriesOK(hists, hseq, tracker), NEW h \in DOMAIN hists, NEW status \in Statuses,
         NEW reached \in 0..Len(hists[h].route), NEW chain \in Chains \cup {None},
         StatusWithAsset(h, status, reached, chain)
  PROVE  Moves(h)
<1> DEFINE was   == hists[h]
           old   == [was EXCEPT !.failed = FALSE]
           type  == IF status = "success" /\ old.exec # None THEN "intermediate" ELSE "refund"
           at    == RouteIndexOf(old, chain)
           upd   == UpdatedIndex(old, reached)
           there == [old EXCEPT !.status = IF type = "refund" THEN "failed" ELSE status,
                                !.asset = [type |-> type, chain |-> chain], !.done = TRUE,
                                !.index = IF at > upd THEN at ELSE @]
           home  == [old EXCEPT !.status = status, !.index = Len(old.route), !.released = TRUE,
                                !.done = TRUE]
<1>1. HistOK(was)
  BY DEF HistoriesOK
<1>2. IF chain = None
      THEN Tracked(h, home, "off", Published(home, ExecutableChains(home)))
      ELSE Tracked(h, there, "off", Published(there, ExecutableChains(there)))
  BY DEF StatusWithAsset
<1>3. "off" \in TrackerStates
  BY DEF TrackerStates
<1> HIDE DEF was
<1>4. HistOK(old) /\ old.exec = was.exec /\ old.route = was.route
  BY <1>1 DEF HistOK, HistoryRecord
<1> HIDE DEF old
<1>5. /\ at \in 0..Len(old.route) /\ upd \in 1..Len(old.route)
      /\ Len(old.route) \in Nat
  <2>1. Len(old.route) \in Nat /\ reached \in 0..Len(old.route)
    BY <1>4 DEF HistOK, HistoryRecord, was
  <2> QED BY <1>4, <2>1, RouteIndexInRoute, UpdatedInRoute
<1> HIDE DEF at, upd
<1>6. CASE chain = None
  <2> DEFINE len == Len(old.route)
  <2>0. home = [old EXCEPT !.status = status, !.index = len, !.released = TRUE, !.done = TRUE]
    OBVIOUS
  <2>1. len \in Nat /\ len <= Len(old.route)
    BY <1>5
  <2> HIDE DEF home, len
  <2>2. HistOK(home) /\ home.exec = old.exec
    BY <1>4, <2>0, <2>1 DEF HistOK, HistoryRecord
  <2> QED BY <1>2, <1>3, <1>4, <1>6, <2>2, TrackedMoves DEF was
<1>7. CASE chain # None
  <2>1. type \in {"intermediate", "refund"} /\ chain \in Chains
    BY <1>7
  <2> DEFINE asset == [type |-> type, chain |-> chain]
             status2 == IF type = "refund" THEN "failed" ELSE status
             index == IF at > upd THEN at ELSE old.index
  <2>2. /\ asset \in [type : {"none", "intermediate", "refund"}, chain : Chains \cup {None}]
        /\ asset.chain \in Chains /\ status2 \in Statuses
    BY <2>1 DEF Statuses
  <2>3. index \in Nat /\ index <= Len(old.route)
    BY <1>4, <1>5 DEF HistOK, HistoryRecord
  <2>4. there = [old EXCEPT !.status = status2, !.asset = asset, !.done = TRUE, !.index = index]
    OBVIOUS
  <2> HIDE DEF type, asset, status2, index, there
  <2>5. HistOK(there) /\ there.exec = old.exec
    BY <1>4, <2>2, <2>3, <2>4 DEF HistOK, HistoryRecord
  <2> QED BY <1>2, <1>3, <1>4, <1>7, <2>5, TrackedMoves DEF was
<1> QED BY <1>6, <1>7

\* A final status without an asset is published.
LEMMA WithoutAssetMoves ==
  ASSUME HistoriesOK(hists, hseq, tracker), NEW h \in DOMAIN hists, NEW status \in Statuses,
         NEW atDestination \in BOOLEAN, NEW txKnown \in BOOLEAN,
         StatusWithoutAsset(h, status, atDestination, txKnown)
  PROVE  Moves(h)
<1> DEFINE was     == hists[h]
           old     == [was EXCEPT !.status = status, !.failed = FALSE]
           new     == [old EXCEPT !.index = IF status = "success" THEN Len(was.route) ELSE @]
           tracked == new.released \/ new.asset # Nowhere
           over    == [new EXCEPT !.done = TRUE,
                                  !.status = IF status = "success" /\ ~tracked /\ ~atDestination
                                             THEN "failed" ELSE @]
           events  == Published(new, ExecutableChains(new))
<1>1. HistOK(was)
  BY DEF HistoriesOK
<1>2. Tracked(h, new, "asset", events) \/ Tracked(h, over, "off", events)
  BY DEF StatusWithoutAsset
<1>3. "off" \in TrackerStates /\ "asset" \in TrackerStates
  BY DEF TrackerStates
<1> HIDE DEF was
<1>4. HistOK(old) /\ old.exec = was.exec /\ old.route = was.route
  BY <1>1 DEF HistOK, HistoryRecord
<1> HIDE DEF old
<1>5. HistOK(new) /\ new.exec = was.exec
  BY <1>4 DEF HistOK, HistoryRecord
<1> HIDE DEF new, tracked
<1>6. HistOK(over) /\ SameReach(over, new)
  <2> DEFINE status2 == IF status = "success" /\ ~tracked /\ ~atDestination
                        THEN "failed" ELSE new.status
  <2>1. status2 \in Statuses
    BY <1>5 DEF HistOK, HistoryRecord, Statuses
  <2>2. over = [new EXCEPT !.done = TRUE, !.status = status2]
    OBVIOUS
  <2> HIDE DEF status2, over
  <2> QED BY <1>5, <2>1, <2>2 DEF HistOK, HistoryRecord, SameReach
<1> HIDE DEF over
<1>7. ExecutableChains(over) = ExecutableChains(new) /\ over.exec = new.exec
  BY <1>6, SameReachSameChains DEF SameReach
<1>8. events = Published(over, ExecutableChains(over))
  BY <1>7 DEF Published
<1>9. CASE Tracked(h, new, "asset", events)
  BY <1>3, <1>5, <1>9, TrackedMoves DEF was
<1>10. CASE Tracked(h, over, "off", events)
  BY <1>3, <1>5, <1>6, <1>7, <1>8, <1>10, TrackedMoves DEF was
<1> QED BY <1>2, <1>9, <1>10

\* The released amount reaches no chain; a refund may be elsewhere, but is not executable.
LEMMA AssetMoves ==
  ASSUME HistoriesOK(hists, hseq, tracker), NEW h \in DOMAIN hists, NEW outcome \in Outcomes,
         AssetTracked(h, outcome)
  PROVE  Moves(h)
<1> DEFINE was    == hists[h]
           old    == [was EXCEPT !.done = TRUE]
           home   == [old EXCEPT !.released = TRUE]
           refund == [old EXCEPT !.failed = TRUE,
                                 !.asset = [type |-> "refund", chain |-> Last(old.route)]]
<1>1. HistOK(was)
  BY DEF HistoriesOK
<1>2. \E new \in {old, home, refund} : Tracked(h, new, "off", <<>>)
  BY DEF AssetTracked, Outcomes
<1>3. "off" \in TrackerStates
  BY DEF TrackerStates
<1> HIDE DEF was
<1>4. HistOK(old) /\ SameReach(old, was)
  BY <1>1 DEF HistOK, HistoryRecord, SameReach
<1> HIDE DEF old
<1>5. HistOK(home) /\ SameReach(home, old)
  BY <1>4 DEF HistOK, HistoryRecord, SameReach
<1>6. HistOK(refund) /\ refund.exec = old.exec /\ refund.asset.type = "refund"
      /\ refund.route = old.route /\ refund.index = old.index
  <2>1. Last(old.route) \in Chains
    BY <1>4, LastInRoute
  <2> QED BY <1>4, <2>1 DEF HistOK, HistoryRecord
<1> HIDE DEF home, refund
<1>7. ExecutableChains(refund) \subseteq ExecutableChains(old)
  BY <1>6 DEF ExecutableChains
<1>8. \A new \in {old, home, refund} :
         HistOK(new) /\ new.exec = was.exec /\ ExecutableChains(new) \subseteq ExecutableChains(was)
  BY <1>4, <1>5, <1>6, <1>7, SameReachSameChains DEF SameReach
<1> QED BY <1>2, <1>3, <1>8, TrackedMoves DEF was

\* Nor does the extra tracking.
LEMMA ExtraMoves ==
  ASSUME HistoriesOK(hists, hseq, tracker), NEW h \in DOMAIN hists, NEW outcome \in Outcomes,
         ExtraTracked(h, outcome)
  PROVE  Moves(h)
<1> DEFINE was    == hists[h]
           old    == [was EXCEPT !.extra = "done"]
           home   == [old EXCEPT !.released = TRUE, !.asset = Nowhere]
           refund == [old EXCEPT !.asset = [type |-> "refund", chain |-> Last(old.route)]]
<1>1. HistOK(was) /\ h \in HistoryIds
  BY HistoryAssumption DEF HistoriesOK, HistoryIds
<1>2. \E new \in {old, home, refund} : Tracked(h, new, tracker[h], <<>>)
  BY DEF ExtraTracked, Outcomes
<1>3. tracker[h] \in TrackerStates
  BY <1>1 DEF HistoriesOK
<1> HIDE DEF was
<1>4. HistOK(old) /\ SameReach(old, was)
  BY <1>1 DEF HistOK, HistoryRecord, SameReach
<1> HIDE DEF old
<1>5. HistOK(home) /\ home.exec = old.exec /\ home.asset.type = "none"
      /\ home.route = old.route /\ home.index = old.index
  BY <1>4 DEF HistOK, HistoryRecord, Nowhere
<1>6. HistOK(refund) /\ refund.exec = old.exec /\ refund.asset.type = "refund"
      /\ refund.route = old.route /\ refund.index = old.index
  <2>1. Last(old.route) \in Chains
    BY <1>4, LastInRoute
  <2> QED BY <1>4, <2>1 DEF HistOK, HistoryRecord
<1> HIDE DEF home, refund
<1>7. /\ ExecutableChains(refund) \subseteq ExecutableChains(old)
      /\ ExecutableChains(home) \subseteq ExecutableChains(old)
  BY <1>5, <1>6 DEF ExecutableChains
<1>8. \A new \in {old, home, refund} :
         HistOK(new) /\ new.exec = was.exec /\ ExecutableChains(new) \subseteq ExecutableChains(was)
  BY <1>4, <1>5, <1>6, <1>7, SameReachSameChains DEF SameReach
<1> QED BY <1>2, <1>3, <1>8, TrackedMoves DEF was

\* Every step of the tracking but the removal moves its history.
LEMMA TrackerMoves ==
  ASSUME HistoriesOK(hists, hseq, tracker), bus \in Seq(EventRecord), NEW h \in DOMAIN hists,
         TrackerStep(h)
  PROVE  FirstTxFails(h) \/ Moves(h)
<1>1. ASSUME FirstTxSucceeds(h) \/ TrackerStops(h) \/ Poll(h) \/ PollFails(h) PROVE Moves(h)
  <2>1. /\ \E pc \in TrackerStates : tracker' = [tracker EXCEPT ![h] = pc]
        /\ UNCHANGED <<hists, hseq, bus>>
    BY <1>1 DEF FirstTxSucceeds, TrackerStops, Poll, PollFails, TrackerStates
  <2> QED BY <2>1, WaitsMoves
<1> QED
  BY <1>1, NoStepsMoves, TooLongMoves, RetriedMoves, InProgressMoves, WithAssetMoves,
     WithoutAssetMoves, AssetMoves, ExtraMoves DEF TrackerStep

\* Histories go, and their executions are told, unless it is for a chain that has gone.
Removes(hs) ==
    \E events \in Seq(EventRecord) :
        /\ RemoveHistories(hs, events)
        /\ known' \subseteq known
        /\ \/ known' # Chains
           \/ /\ known' = known
              /\ \A h \in DOMAIN hists \cap hs :
                    hists[h].exec # None =>
                        \E e \in Range(events) : e.type = "remove" /\ e.exec = hists[h].exec

\* The event of a removal names the execution of the history.
LEMMA RemovalTells ==
  ASSUME NEW hist, HistOK(hist)
  PROVE  /\ Removal(hist) \in Seq(EventRecord)
         /\ hist.exec # None =>
               \E e \in Range(Removal(hist)) : e.type = "remove" /\ e.exec = hist.exec
<1>1. CASE hist.exec = None
  BY <1>1 DEF Removal
<1>2. CASE hist.exec # None
  <2> DEFINE event == [type |-> "remove", exec |-> hist.exec, chains |-> {}]
  <2>1. hist.exec \in Executions
    BY <1>2 DEF HistOK, HistoryRecord
  <2>2. event \in EventRecord /\ event.type = "remove" /\ event.exec = hist.exec
    BY <2>1 DEF EventRecord
  <2>3. Removal(hist) = <<event>>
    BY <1>2 DEF Removal
  <2> HIDE DEF event
  <2>4. <<event>> \in Seq(EventRecord) /\ event \in Range(<<event>>)
    BY <2>2 DEF Range
  <2> QED BY <2>2, <2>3, <2>4
<1> QED BY <1>1, <1>2

\* removeRecentSwapV2History and a failed first transaction remove one history.
LEMMA OneRemoved ==
  ASSUME HistoriesOK(hists, hseq, tracker), NEW h \in DOMAIN hists, known' = known,
         RemoveHistories({h}, Removal(hists[h]))
  PROVE  Removes({h})
<1>1. HistOK(hists[h])
  BY DEF HistoriesOK
<1>2. /\ Removal(hists[h]) \in Seq(EventRecord)
      /\ hists[h].exec # None =>
            \E e \in Range(Removal(hists[h])) : e.type = "remove" /\ e.exec = hists[h].exec
  BY <1>1, RemovalTells
<1> QED BY <1>2 DEF Removes

\* clearAllRecentSwapV2History tells every execution that a history names.
LEMMA AllRemoved ==
  ASSUME HistoriesOK(hists, hseq, tracker), ClearAllHistories, known' = known
  PROVE  Removes(DOMAIN hists)
<1> DEFINE seqs == [i \in 1..hseq |-> IF i - 1 \in DOMAIN hists THEN Removal(hists[i - 1]) ELSE <<>>]
           events == FlattenSeq(seqs)
<1>1. /\ hseq \in Nat /\ DOMAIN hists \subseteq 0..(hseq - 1)
      /\ \A h \in DOMAIN hists : HistOK(hists[h])
  BY HistoryAssumption DEF HistoriesOK
<1>2. RemoveHistories(DOMAIN hists, events)
  BY DEF ClearAllHistories
<1>3. seqs \in Seq(Seq(EventRecord)) /\ DOMAIN seqs = 1..hseq
  <2>1. \A i \in 1..hseq : seqs[i] \in Seq(EventRecord)
    <3> SUFFICES ASSUME NEW i \in 1..hseq PROVE seqs[i] \in Seq(EventRecord)
      OBVIOUS
    <3>1. CASE i - 1 \in DOMAIN hists
      BY <1>1, <3>1, RemovalTells
    <3>2. CASE i - 1 \notin DOMAIN hists
      BY <3>2
    <3> QED BY <3>1, <3>2
  <2>2. DOMAIN seqs = 1..hseq /\ seqs = [i \in 1..hseq |-> seqs[i]]
    OBVIOUS
  <2> HIDE DEF seqs
  <2> QED BY <1>1, <2>1, <2>2
<1>4. /\ events \in Seq(EventRecord)
      /\ \A k \in 1..hseq : Range(seqs[k]) \subseteq Range(events)
  <2> HIDE DEF seqs
  <2> QED BY <1>3, Flattens
<1>5. ASSUME NEW h \in DOMAIN hists, hists[h].exec # None
      PROVE  \E e \in Range(events) : e.type = "remove" /\ e.exec = hists[h].exec
  <2>1. h + 1 \in 1..hseq /\ (h + 1) - 1 = h
    BY <1>1
  <2>2. seqs[h + 1] = Removal(hists[h])
    BY <2>1
  <2>3. PICK e \in Range(Removal(hists[h])) : e.type = "remove" /\ e.exec = hists[h].exec
    BY <1>1, <1>5, RemovalTells
  <2>4. e \in Range(events)
    BY <1>4, <2>1, <2>2, <2>3
  <2> QED BY <2>3, <2>4
<1> HIDE DEF events
<1> QED BY <1>2, <1>4, <1>5 DEF Removes

\* Every step of the histories changes one of them or takes some out.
LEMMA HistoryMoves ==
  ASSUME HistoriesOK(hists, hseq, tracker), bus \in Seq(EventRecord), known \subseteq Chains,
         HistoryStep
  PROVE  \/ \E h \in DOMAIN hists : Moves(h) /\ known' = known
         \/ \E hs : Removes(hs)
<1>1. ASSUME NEW h \in DOMAIN hists, TrackerStep(h), known' = known
      PROVE  Moves(h) \/ Removes({h})
  <2>1. FirstTxFails(h) => Removes({h})
    BY <1>1, OneRemoved DEF FirstTxFails
  <2> QED BY <1>1, <2>1, TrackerMoves
<1>2. ASSUME NEW h \in DOMAIN hists, RemoveHistory(h), known' = known
      PROVE  Removes({h})
  BY <1>2, OneRemoved DEF RemoveHistory
<1>3. ASSUME NEW h \in DOMAIN hists, HideHistory(h)
      PROVE  Moves(h)
  <2> DEFINE old == hists[h]
             new == [old EXCEPT !.hidden = TRUE]
  <2>1. HistOK(old) /\ h \in HistoryIds
    BY HistoryAssumption DEF HistoriesOK, HistoryIds
  <2>2. /\ hists' = [hists EXCEPT ![h] = new]
        /\ UNCHANGED <<hseq, tracker, bus>>
    BY <1>3 DEF HideHistory
  <2> HIDE DEF old
  <2>3. HistOK(new) /\ SameReach(new, old)
    BY <2>1 DEF HistOK, HistoryRecord, SameReach
  <2> HIDE DEF new
  <2>4. new.exec = old.exec /\ ExecutableChains(new) = ExecutableChains(old)
    BY <2>3, SameReachSameChains DEF SameReach
  <2>5. /\ tracker[h] \in TrackerStates /\ tracker' = [tracker EXCEPT ![h] = tracker[h]]
        /\ <<>> \in Seq(EventRecord) /\ bus' = bus \o <<>>
    BY <2>1, <2>2 DEF HistoriesOK
  <2> QED BY <2>2, <2>3, <2>4, <2>5 DEF Moves, old
<1>4. ASSUME NEW chain \in Chains, ChainRemoved(chain) PROVE \E hs : Removes(hs)
  <2> DEFINE hs == {h \in DOMAIN hists : \/ \E i \in DOMAIN hists[h].route : hists[h].route[i] = chain
                                         \/ hists[h].asset.chain = chain}
  <2>1. /\ RemoveHistories(hs, <<>>) /\ known' = known \ {chain} /\ known' # Chains
        /\ <<>> \in Seq(EventRecord)
    BY <1>4 DEF ChainRemoved
  <2> HIDE DEF hs
  <2>2. Removes(hs)
    BY <2>1 DEF Removes
  <2> QED BY <2>2
<1> QED BY <1>1, <1>2, <1>3, <1>4, AllRemoved DEF HistoryStep

\* Every step of the histories keeps their types.
LEMMA HistoriesStayOK ==
  ASSUME HistoriesOK(hists, hseq, tracker), bus \in Seq(EventRecord), known \subseteq Chains,
         HistoryStep
  PROVE  HistoriesOK(hists', hseq', tracker') /\ bus' \in Seq(EventRecord) /\ known' \subseteq Chains
<1>1. ASSUME NEW h \in DOMAIN hists, Moves(h), known' = known
      PROVE  HistoriesOK(hists', hseq', tracker') /\ bus' \in Seq(EventRecord)
  <2>1. PICK hist, pc, events :
          /\ DOMAIN hists' = DOMAIN hists
          /\ \A g \in DOMAIN hists : hists'[g] = IF g = h THEN hist ELSE hists[g]
          /\ pc \in TrackerStates /\ tracker' = [tracker EXCEPT ![h] = pc]
          /\ hseq' = hseq
          /\ events \in Seq(EventRecord) /\ bus' = bus \o events
          /\ HistOK(hist)
    BY <1>1 DEF Moves
  <2>2. bus' \in Seq(EventRecord)
    BY <2>1, Joins
  <2>3. HistoriesOK(hists', hseq', tracker')
    BY <2>1 DEF HistoriesOK
  <2> QED BY <2>2, <2>3
<1>2. ASSUME NEW hs, Removes(hs)
      PROVE  /\ HistoriesOK(hists', hseq', tracker') /\ bus' \in Seq(EventRecord)
             /\ known' \subseteq known
  <2>1. PICK events \in Seq(EventRecord) : RemoveHistories(hs, events) /\ known' \subseteq known
    BY <1>2 DEF Removes
  <2>2. bus' \in Seq(EventRecord)
    BY <2>1, Joins DEF RemoveHistories
  <2>3. HistoriesOK(hists', hseq', tracker')
    BY <2>1 DEF HistoriesOK, RemoveHistories, TrackerStates
  <2> QED BY <2>1, <2>2, <2>3
<1> QED BY <1>1, <1>2, HistoryMoves
-----------------------------------------------------------------------------
(***************************************************************************)
(* What the executor calls of the histories.                               *)
(***************************************************************************)

WOK(w) ==
    /\ w = [hists |-> w.hists, hseq |-> w.hseq, tracker |-> w.tracker]
    /\ HistoriesOK(w.hists, w.hseq, w.tracker)

SameChains(new, old) == ExecutableChains(new) = ExecutableChains(old)

\* The same histories, which tell the same executions of the same chains.
Flagged(w, v) ==
    /\ WOK(v) /\ v.hseq = w.hseq /\ DOMAIN v.hists = DOMAIN w.hists
    /\ \A h \in DOMAIN w.hists : /\ SameChains(v.hists[h], w.hists[h])
                                 /\ v.hists[h].exec = w.hists[h].exec

\* The same but that one history names no execution.
Cleared(w, v, hid) ==
    /\ WOK(v) /\ v.hseq = w.hseq /\ DOMAIN v.hists = DOMAIN w.hists
    /\ \A h \in DOMAIN w.hists :
          /\ SameChains(v.hists[h], w.hists[h])
          /\ v.hists[h].exec = IF h = hid THEN None ELSE w.hists[h].exec

\* One more history, which names exec and has reached no chain.
OneMore(w, v, exec) ==
    /\ WOK(v) /\ v.hseq = w.hseq + 1 /\ DOMAIN v.hists = DOMAIN w.hists \cup {w.hseq}
    /\ w.hseq \notin DOMAIN w.hists /\ w.hseq \in HistoryIds
    /\ v.hists[w.hseq].exec = exec /\ ExecutableChains(v.hists[w.hseq]) = {}
    /\ \A h \in DOMAIN w.hists : v.hists[h] = w.hists[h]

\* The histories of the state are such a record.
LEMMA HistoriesWOK ==
  ASSUME HistoriesOK(hists, hseq, tracker)
  PROVE  /\ WOK(Histories)
         /\ Histories.hists = hists /\ Histories.hseq = hseq /\ Histories.tracker = tracker
BY DEF WOK, Histories

\* Nothing is changed.
LEMMA FlaggedSelf == ASSUME NEW w, WOK(w) PROVE Flagged(w, w)
BY DEF Flagged, SameChains

\* A change of other fields of one history.
LEMMA ChangedFlags ==
  ASSUME NEW w, WOK(w), NEW hid \in DOMAIN w.hists, NEW hist, HistOK(hist),
         SameChains(hist, w.hists[hid]), hist.exec = w.hists[hid].exec
  PROVE  Flagged(w, Changed(w, hid, hist))
<1> DEFINE v == Changed(w, hid, hist)
<1>1. /\ v = [hists |-> v.hists, hseq |-> v.hseq, tracker |-> v.tracker]
      /\ v.hists = [w.hists EXCEPT ![hid] = hist] /\ v.hseq = w.hseq /\ v.tracker = w.tracker
  BY DEF WOK, Changed
<1> HIDE DEF v
<1>2. /\ DOMAIN v.hists = DOMAIN w.hists
      /\ \A h \in DOMAIN w.hists : v.hists[h] = IF h = hid THEN hist ELSE w.hists[h]
  BY <1>1
<1>3. HistoriesOK(v.hists, v.hseq, v.tracker)
  BY <1>1, <1>2 DEF WOK, HistoriesOK
<1>4. Flagged(w, v)
  BY <1>1, <1>2, <1>3 DEF Flagged, WOK, SameChains
<1> QED BY <1>4 DEF v

\* The errors, the showing and the extra tracking change other fields.
LEMMA FlagsChange ==
  ASSUME NEW w, WOK(w), NEW hid
  PROVE  /\ Flagged(w, WithError(w, hid))
         /\ Flagged(w, Shown(w, hid))
         /\ Flagged(w, WithExtraTracking(w, hid))
<1>1. CASE hid \notin DOMAIN w.hists
  BY <1>1, FlaggedSelf DEF WithError, Shown, WithExtraTracking
<1>2. CASE hid \in DOMAIN w.hists
  <2> DEFINE old   == w.hists[hid]
             error == [old EXCEPT !.failed = TRUE, !.done = TRUE]
             shown == [old EXCEPT !.hidden = FALSE]
             extra == [old EXCEPT !.extra = "tracking"]
  <2>1. /\ WithError(w, hid) = Changed(w, hid, error)
        /\ Shown(w, hid) = Changed(w, hid, shown)
        /\ WithExtraTracking(w, hid) = Changed(w, hid, extra)
    BY <1>2 DEF WithError, Shown, WithExtraTracking
  <2>2. HistOK(old)
    BY <1>2 DEF WOK, HistoriesOK
  <2> HIDE DEF old
  <2>3. HistOK(error) /\ SameReach(error, old)
    BY <2>2 DEF HistOK, HistoryRecord, SameReach
  <2>4. HistOK(shown) /\ SameReach(shown, old)
    BY <2>2 DEF HistOK, HistoryRecord, SameReach
  <2>5. HistOK(extra) /\ SameReach(extra, old)
    BY <2>2 DEF HistOK, HistoryRecord, SameReach
  <2> HIDE DEF error, shown, extra
  <2>6. /\ SameChains(error, old) /\ error.exec = old.exec
        /\ SameChains(shown, old) /\ shown.exec = old.exec
        /\ SameChains(extra, old) /\ extra.exec = old.exec
    BY <2>3, <2>4, <2>5, SameReachSameChains DEF SameChains, SameReach
  <2> QED BY <1>2, <2>1, <2>3, <2>4, <2>5, <2>6, ChangedFlags DEF old
<1> QED BY <1>1, <1>2

\* clearSwapV2HistoryBackgroundExecutionId takes the execution out of one history.
LEMMA ExecutionClears ==
  ASSUME NEW w, WOK(w), NEW hid
  PROVE  Cleared(w, WithoutExecution(w, hid), hid)
<1>1. CASE hid \notin DOMAIN w.hists
  BY <1>1 DEF WithoutExecution, Cleared, SameChains
<1>2. CASE hid \in DOMAIN w.hists
  <2> DEFINE old == w.hists[hid]
             new == [old EXCEPT !.exec = None]
             v   == Changed(w, hid, new)
  <2>1. WithoutExecution(w, hid) = v
    BY <1>2 DEF WithoutExecution
  <2>2. HistOK(old)
    BY <1>2 DEF WOK, HistoriesOK
  <2>3. /\ v = [hists |-> v.hists, hseq |-> v.hseq, tracker |-> v.tracker]
        /\ v.hists = [w.hists EXCEPT ![hid] = new] /\ v.hseq = w.hseq /\ v.tracker = w.tracker
    BY DEF WOK, Changed
  <2> HIDE DEF v, old
  <2>4. HistOK(new) /\ new.exec = None
        /\ new.route = old.route /\ new.index = old.index /\ new.asset = old.asset
    BY <2>2 DEF HistOK, HistoryRecord
  <2> HIDE DEF new
  <2>5. SameChains(new, old)
    BY <2>4 DEF SameChains, ExecutableChains
  <2>6. /\ DOMAIN v.hists = DOMAIN w.hists
        /\ \A h \in DOMAIN w.hists : v.hists[h] = IF h = hid THEN new ELSE w.hists[h]
    BY <2>3
  <2>7. HistoriesOK(v.hists, v.hseq, v.tracker)
    BY <2>3, <2>4, <2>6 DEF WOK, HistoriesOK
  <2> QED BY <1>2, <2>1, <2>3, <2>4, <2>5, <2>6, <2>7 DEF Cleared, WOK, SameChains, old
<1> QED BY <1>1, <1>2

\* A new history has reached no chain.
LEMMA NewHistoryOK ==
  ASSUME NEW route \in Seq(Chains), route # <<>>, NEW exec \in Executions \cup {None}
  PROVE  /\ HistOK(NewHistory(route, exec)) /\ NewHistory(route, exec).exec = exec
         /\ ExecutableChains(NewHistory(route, exec)) = {}
<1> DEFINE new == NewHistory(route, exec)
<1>1. /\ new.route = route /\ new.exec = exec /\ new.index = 0
      /\ new.asset.type = "none"
  BY DEF NewHistory, Nowhere
<1>2. new \in HistoryRecord
  BY HistoryAssumption DEF NewHistory, Nowhere, HistoryRecord, Statuses
<1> HIDE DEF new
<1>3. 1..0 = {} /\ Len(route) \in Nat
  OBVIOUS
<1>4. ExecutableChains(new) = {}
  BY <1>1, <1>3 DEF ExecutableChains
<1>5. HistOK(new)
  BY <1>1, <1>2, <1>3 DEF HistOK
<1> QED BY <1>1, <1>4, <1>5 DEF new

\* recordTxWithSwapV2 adds a history under a new id.
LEMMA RecordingAdds ==
  ASSUME NEW w, WOK(w), NEW route \in Seq(Chains), route # <<>>,
         NEW exec \in Executions \cup {None}, w.hseq < MaxHistories
  PROVE  OneMore(w, Recorded(w, route, exec), exec)
<1> DEFINE v   == Recorded(w, route, exec)
           new == NewHistory(route, exec)
<1>1. /\ v = [hists |-> v.hists, hseq |-> v.hseq, tracker |-> v.tracker]
      /\ v.hists = [h \in DOMAIN w.hists \cup {w.hseq} |-> IF h = w.hseq THEN new ELSE w.hists[h]]
      /\ v.hseq = w.hseq + 1 /\ v.tracker = [w.tracker EXCEPT ![w.hseq] = "fulfil"]
  BY DEF Recorded
<1> HIDE DEF v
<1>2. HistOK(new) /\ new.exec = exec /\ ExecutableChains(new) = {}
  BY NewHistoryOK
<1> HIDE DEF new
<1>3. /\ w.hseq \in 0..MaxHistories /\ w.hseq \in HistoryIds /\ w.hseq \notin DOMAIN w.hists
      /\ DOMAIN w.hists \subseteq 0..(w.hseq - 1)
  BY HistoryAssumption DEF WOK, HistoriesOK, HistoryIds
<1>4. /\ DOMAIN v.hists = DOMAIN w.hists \cup {w.hseq}
      /\ v.hists[w.hseq] = new
      /\ \A h \in DOMAIN w.hists : v.hists[h] = w.hists[h]
  BY <1>1, <1>3
<1>5. HistoriesOK(v.hists, v.hseq, v.tracker)
  <2>1. v.hseq \in 0..MaxHistories /\ DOMAIN v.hists \subseteq 0..(v.hseq - 1)
    BY <1>1, <1>3, <1>4, HistoryAssumption
  <2>2. \A h \in DOMAIN v.hists : HistOK(v.hists[h])
    BY <1>2, <1>4 DEF WOK, HistoriesOK
  <2>3. /\ v.tracker \in [HistoryIds -> TrackerStates]
        /\ \A h \in HistoryIds : v.tracker[h] # "off" => h \in DOMAIN v.hists
    BY <1>1, <1>3, <1>4 DEF WOK, HistoriesOK, TrackerStates
  <2> QED BY <2>1, <2>2, <2>3 DEF HistoriesOK
<1> QED BY <1>1, <1>2, <1>3, <1>4, <1>5 DEF OneMore, WOK, v
-----------------------------------------------------------------------------
(***************************************************************************)
(* The executions.                                                         *)
(***************************************************************************)

\* A function of a finite set to the numbers is bounded.
LEMMA LengthsAreBounded ==
  \A S \in SUBSET Plans : \E b \in Nat : \A p \in S : Len(p.chains) <= b
<1> DEFINE Bounded(S) == \E b \in Nat : \A p \in S : Len(p.chains) <= b
           T == {n \in Nat : \A S \in SUBSET Plans : Cardinality(S) = n => Bounded(S)}
<1>0. \A S \in SUBSET Plans : IsFiniteSet(S) /\ Cardinality(S) \in Nat
  BY PlansAssumption, FS_Subset, FS_CardinalityType
<1>1. 0 \in T
  <2> SUFFICES ASSUME NEW S \in SUBSET Plans, Cardinality(S) = 0 PROVE Bounded(S)
    OBVIOUS
  <2>1. S = {}
    BY <1>0, FS_EmptySet
  <2> QED BY <2>1, 0 \in Nat
<1>2. ASSUME NEW n \in Nat, n \in T PROVE n + 1 \in T
  <2> SUFFICES ASSUME NEW S \in SUBSET Plans, Cardinality(S) = n + 1 PROVE Bounded(S)
    <3> HIDE DEF Bounded
    <3> QED OBVIOUS
  <2>1. PICK p \in S : TRUE
    BY <1>0, FS_EmptySet
  <2>2. Cardinality(S \ {p}) = n /\ S \ {p} \in SUBSET Plans
    BY <1>0, FS_RemoveElement
  <2>3. Bounded(S \ {p})
    <3> HIDE DEF Bounded
    <3> QED BY <1>2, <2>2
  <2>4. PICK b \in Nat : \A q \in S \ {p} : Len(q.chains) <= b
    BY <2>3
  <2>5. \A q \in S : Len(q.chains) \in Nat
    BY PlansAssumption
  <2>6. CASE Len(p.chains) <= b
    BY <2>4, <2>6
  <2>7. CASE ~(Len(p.chains) <= b)
    <3>1. \A q \in S : Len(q.chains) <= Len(p.chains)
      BY <2>4, <2>5, <2>7
    <3> QED BY <2>5, <3>1
  <2> QED BY <2>6, <2>7
<1> HIDE DEF T
<1>3. Nat \subseteq T
  BY <1>1, <1>2, NaturalsAreAll
<1> HIDE DEF Bounded
<1>4. \A S \in SUBSET Plans : Bounded(S)
  BY <1>0, <1>3 DEF T
<1> QED BY <1>4 DEF Bounded

\* No plan has more than MaxTxs transactions, and each has one.
LEMMA MaxTxsIsMax ==
  MaxTxs \in Nat /\ \A p \in Plans : Len(p.chains) \in 1..MaxTxs
<1> DEFINE lengths == {Len(p.chains) : p \in Plans}
<1>1. \A p \in Plans : Len(p.chains) \in Nat /\ Len(p.chains) # 0
  BY PlansAssumption
<1>2. PICK b \in Nat : \A p \in Plans : Len(p.chains) <= b
  BY LengthsAreBounded
<1>3. lengths \subseteq Nat /\ lengths # {} /\ \A y \in lengths : y <= b
  BY <1>1, <1>2, PlansAssumption
<1>4. \A p \in Plans : Len(p.chains) \in lengths
  OBVIOUS
<1>5. MaxTxs = Max(lengths)
  BY DEF MaxTxs
<1> HIDE DEF lengths
<1>6. MaxTxs \in lengths /\ \A y \in lengths : y <= MaxTxs
  BY <1>3, <1>5, LargestNatural
<1> QED BY <1>1, <1>3, <1>4, <1>6

TxStatuses == {"pending", "blocked", "confirmed", "failed"}

ExecOK(ex) == ex \in ExecutionRecord /\ Len(ex.tx) <= MaxTxs

\* What the histories see of an execution stays.
SameSwap(new, old) == new.executable = old.executable /\ new.swap = old.swap /\ new.hid = old.hid

\* The indices of the transactions of an execution.
LEMMA TxIndices ==
  ASSUME NEW ex, ExecOK(ex)
  PROVE  /\ ex.tx \in Seq(TxStatuses) /\ DOMAIN ex.tx = 1..Len(ex.tx) /\ Len(ex.tx) \in 0..MaxTxs
         /\ DOMAIN ex.tx \subseteq 1..MaxTxs
<1>1. ex.tx \in Seq(TxStatuses) /\ Len(ex.tx) <= MaxTxs
  BY DEF ExecOK, ExecutionRecord, TxStatuses
<1>2. Len(ex.tx) \in Nat /\ DOMAIN ex.tx = 1..Len(ex.tx)
  BY <1>1
<1> QED BY <1>1, <1>2, MaxTxsIsMax

\* An execution that is being processed.
LEMMA ProcessingOK ==
  ASSUME NEW ex, ExecOK(ex), NEW run, run = [ex EXCEPT !.status = "processing"]
  PROVE  /\ ExecOK(run) /\ SameSwap(run, ex) /\ run.tx = ex.tx /\ run.status = "processing"
<1>1. "processing" \in {"unused", "pending", "processing", "blocked", "gone"}
  OBVIOUS
<1> QED BY <1>1 DEF ExecOK, ExecutionRecord, SameSwap

\* A transaction of a sequence of them has a new status.
LEMMA TxChanges ==
  ASSUME NEW ex, ExecOK(ex), NEW i \in DOMAIN ex.tx, NEW status \in TxStatuses,
         NEW tx, tx = [ex.tx EXCEPT ![i] = status]
  PROVE  /\ tx \in Seq(TxStatuses) /\ Len(tx) = Len(ex.tx) /\ DOMAIN tx = DOMAIN ex.tx
         /\ tx[i] = status
<1>1. ex.tx \in Seq(TxStatuses) /\ DOMAIN ex.tx = 1..Len(ex.tx)
  BY TxIndices
<1> QED BY <1>1

\* An execution one of whose transactions has ended.
LEMMA WithTxOK ==
  ASSUME NEW ex, ExecOK(ex), NEW i \in DOMAIN ex.tx, NEW status \in TxStatuses
  PROVE  LET w == WithTx(ex, i, status) IN
         /\ ExecOK(w) /\ SameSwap(w, ex) /\ w.status = ex.status
         /\ DOMAIN w.tx = DOMAIN ex.tx /\ w.tx[i] = status
<1> DEFINE w  == WithTx(ex, i, status)
           tx == [ex.tx EXCEPT ![i] = status]
<1>1. w = [ex EXCEPT !.tx = tx, !.signed = ex.signed \ {i}]
  BY DEF WithTx, ExecOK, ExecutionRecord
<1>2. tx \in Seq(TxStatuses) /\ Len(tx) = Len(ex.tx) /\ DOMAIN tx = DOMAIN ex.tx /\ tx[i] = status
  BY TxChanges
<1> HIDE DEF tx, w
<1>3. w.tx = tx /\ w \in ExecutionRecord /\ SameSwap(w, ex) /\ w.status = ex.status
  BY <1>1, <1>2 DEF ExecOK, ExecutionRecord, SameSwap, TxStatuses
<1> QED BY <1>2, <1>3 DEF ExecOK, w

\* An execution that stops at one of its transactions.
LEMMA BlockedOK ==
  ASSUME NEW ex, ExecOK(ex), NEW i \in DOMAIN ex.tx, NEW mid,
         mid = [ex EXCEPT !.tx = [@ EXCEPT ![i] = "blocked"], !.signed = @ \ {i},
                          !.status = "blocked"]
  PROVE  /\ ExecOK(mid) /\ SameSwap(mid, ex) /\ mid.status = "blocked"
         /\ i \in DOMAIN mid.tx /\ mid.tx[i] = "blocked"
<1> DEFINE tx == [ex.tx EXCEPT ![i] = "blocked"]
<1>1. mid = [ex EXCEPT !.tx = tx, !.signed = ex.signed \ {i}, !.status = "blocked"]
  BY DEF ExecOK, ExecutionRecord
<1>2. /\ tx \in Seq(TxStatuses) /\ Len(tx) = Len(ex.tx) /\ DOMAIN tx = DOMAIN ex.tx
      /\ tx[i] = "blocked"
  <2>1. "blocked" \in TxStatuses
    BY DEF TxStatuses
  <2> QED BY <2>1, TxChanges
<1>3. "blocked" \in {"unused", "pending", "processing", "blocked", "gone"}
  OBVIOUS
<1> HIDE DEF tx
<1>4. mid.tx = tx /\ mid \in ExecutionRecord /\ SameSwap(mid, ex) /\ mid.status = "blocked"
  BY <1>1, <1>2, <1>3 DEF ExecOK, ExecutionRecord, SameSwap, TxStatuses
<1> QED BY <1>2, <1>4 DEF ExecOK

\* An execution whose history may just have been recorded.
LEMMA LinkedOK ==
  ASSUME NEW ex, ExecOK(ex), NEW hid \in HistoryIds \cup {None}, NEW fin,
         fin = [ex EXCEPT !.hid = hid] \/ fin = [ex EXCEPT !.hid = hid, !.route = <<>>]
  PROVE  /\ ExecOK(fin) /\ fin.hid = hid /\ fin.tx = ex.tx /\ fin.status = ex.status
         /\ fin.executable = ex.executable /\ fin.swap = ex.swap
<1>1. <<>> \in Seq(Chains)
  OBVIOUS
<1> QED BY <1>1 DEF ExecOK, ExecutionRecord

\* An execution as recordAndExecuteTxs makes it.
LEMMA NewExecutionOK ==
  ASSUME NEW plan \in Plans
  PROVE  LET ex == NewExecution(plan) IN
         /\ ExecOK(ex) /\ ex.hid = None /\ ex.executable = plan.ready
<1> DEFINE ex == NewExecution(plan)
           n  == Len(plan.chains)
<1>1. /\ plan.chains \in Seq(Chains) /\ plan.ready \subseteq Chains /\ plan.route \in Seq(Chains)
      /\ plan.hardware \in BOOLEAN
  BY PlansAssumption
<1>2. n \in 1..MaxTxs /\ MaxTxs \in Nat /\ DOMAIN plan.chains = 1..n /\ n \in Nat
  BY <1>1, MaxTxsIsMax
<1> HIDE DEF n
<1>3. /\ ex.status = "pending" /\ ex.chains = plan.chains /\ ex.route = plan.route
      /\ ex.tx = [i \in 1..n |-> IF i \in plan.sent THEN "confirmed" ELSE "pending"]
      /\ ex.signed \subseteq 1..n /\ ex.executable = plan.ready /\ ex.prevent \in BOOLEAN
      /\ ex.swap \in BOOLEAN /\ ex.hid = None
  BY <1>1, <1>2 DEF NewExecution
<1>4. ex = [status |-> ex.status, chains |-> ex.chains, tx |-> ex.tx, signed |-> ex.signed,
            executable |-> ex.executable, prevent |-> ex.prevent, swap |-> ex.swap,
            route |-> ex.route, hid |-> ex.hid]
  BY DEF NewExecution
<1> HIDE DEF ex
<1>5. ex.tx \in Seq(TxStatuses) /\ Len(ex.tx) = n
  <2>1. \A i \in 1..n : ex.tx[i] \in TxStatuses
    BY <1>3 DEF TxStatuses
  <2>2. DOMAIN ex.tx = 1..n /\ ex.tx = [i \in 1..n |-> ex.tx[i]]
    BY <1>3
  <2> QED BY <1>2, <2>1, <2>2
<1>6. ex.signed \in SUBSET (1..MaxTxs)
  BY <1>2, <1>3
<1>7. ex.status \in {"unused", "pending", "processing", "blocked", "gone"}
  BY <1>3
<1>8. ex \in ExecutionRecord
  BY <1>1, <1>3, <1>4, <1>5, <1>6, <1>7 DEF ExecutionRecord, TxStatuses
<1> QED BY <1>2, <1>3, <1>5, <1>8 DEF ExecOK, ex
-----------------------------------------------------------------------------
(***************************************************************************)
(* What a run of the loop does to the executions and the histories.        *)
(***************************************************************************)

\* The execution ex has become fin.  Its history may have been recorded; it names the
\* execution from there on, until the execution is done.
Runs(id, ex, fin, done) ==
    /\ ExecOK(fin) /\ fin.status \in {"processing", "blocked"}
    /\ fin.executable = ex.executable /\ fin.swap = ex.swap
    /\ execs' = [execs EXCEPT ![id] = fin]
    /\ ~done => \E i \in DOMAIN fin.tx : fin.tx[i] # "confirmed"
    /\ HistoriesOK(hists', hseq', tracker')
    /\ \/ hseq' = hseq /\ DOMAIN hists' = DOMAIN hists /\ fin.hid = ex.hid
       \/ /\ hseq \in HistoryIds \ DOMAIN hists /\ hseq' = hseq + 1
          /\ DOMAIN hists' = DOMAIN hists \cup {hseq}
          /\ ex.swap /\ ex.hid = None /\ fin.hid = hseq
          /\ ExecutableChains(hists'[hseq]) = {}
          /\ hists'[hseq].exec = IF done THEN None ELSE id
    /\ \A h \in DOMAIN hists :
          /\ SameChains(hists'[h], hists[h])
          /\ hists'[h].exec = IF done /\ ex.swap /\ h = fin.hid THEN None ELSE hists[h].exec

\* Recording the history of an execution, where that is due.
LEMMA HistoryRecords ==
  ASSUME NEW w, WOK(w), NEW ex, ExecOK(ex), NEW id \in Executions, NEW named,
         named = IF \E i \in DOMAIN ex.tx : ex.tx[i] = "blocked" THEN id ELSE None,
         NeedsHistory(ex) => w.hseq < MaxHistories
  PROVE  LET v == WithHistory(w, id, ex)  hid == HistoryOf(w, ex) IN
         /\ WOK(v) /\ hid \in HistoryIds \cup {None}
         /\ \/ v = w /\ hid = ex.hid
            \/ OneMore(w, v, named) /\ hid = w.hseq /\ ex.swap /\ ex.hid = None
<1>1. ex.hid \in HistoryIds \cup {None} /\ ex.route \in Seq(Chains)
  BY DEF ExecOK, ExecutionRecord
<1>2. CASE ~NeedsHistory(ex)
  BY <1>1, <1>2 DEF WithHistory, HistoryOf
<1>3. CASE NeedsHistory(ex)
  <2>1. WithHistory(w, id, ex) = Recorded(w, ex.route, named) /\ HistoryOf(w, ex) = w.hseq
    BY <1>3 DEF WithHistory, HistoryOf
  <2>2. ex.swap /\ ex.hid = None /\ ex.route # <<>> /\ w.hseq < MaxHistories
    BY <1>3 DEF NeedsHistory
  <2>3. named \in Executions \cup {None}
    OBVIOUS
  <2>4. OneMore(w, Recorded(w, ex.route, named), named)
    BY <1>1, <2>2, <2>3, RecordingAdds
  <2> QED BY <2>1, <2>2, <2>4 DEF OneMore
<1> QED BY <1>2, <1>3

\* The end of the loop is a run that is done.
LEMMA CompletesRuns ==
  ASSUME HistoriesOK(hists, hseq, tracker), NEW w, Flagged(Histories, w), NEW keys,
         NEW id \in Executions, NEW ex, ExecOK(ex), ex.status = "processing",
         \A i \in DOMAIN ex.tx : ex.tx[i] = "confirmed", Completes(w, keys, id, ex)
  PROVE  \E fin : Runs(id, ex, fin, TRUE)
<1> DEFINE v   == WithHistory(w, id, ex)
           hid == HistoryOf(w, ex)
           fin == [ex EXCEPT !.hid = hid]
           u   == IF ex.swap THEN WithoutExecution(v, hid) ELSE w
<1>1. /\ Histories.hists = hists /\ Histories.hseq = hseq
      /\ execs' = [execs EXCEPT ![id] = fin] /\ HistoriesBecome(u)
      /\ NeedsHistory(ex) => hseq < MaxHistories
  BY DEF Completes, Histories
<1>2. /\ WOK(w) /\ w.hseq = hseq /\ DOMAIN w.hists = DOMAIN hists
      /\ \A h \in DOMAIN hists : /\ SameChains(w.hists[h], hists[h])
                                 /\ w.hists[h].exec = hists[h].exec
  BY <1>1 DEF Flagged
<1>3. /\ WOK(v) /\ hid \in HistoryIds \cup {None}
      /\ \/ v = w /\ hid = ex.hid
         \/ OneMore(w, v, None) /\ hid = w.hseq /\ ex.swap /\ ex.hid = None
  <2>1. None = IF \E i \in DOMAIN ex.tx : ex.tx[i] = "blocked" THEN id ELSE None
    OBVIOUS
  <2> QED BY <1>1, <1>2, <2>1, HistoryRecords
<1>4. /\ ExecOK(fin) /\ fin.hid = hid /\ fin.tx = ex.tx /\ fin.status = ex.status
      /\ fin.executable = ex.executable /\ fin.swap = ex.swap
  BY <1>3, LinkedOK
<1>5. ex.swap => Cleared(v, u, hid)
  BY <1>3, ExecutionClears
<1>6. ~ex.swap => u = w /\ v = w /\ hid = ex.hid
  BY <1>3
<1>7. hists' = u.hists /\ hseq' = u.hseq /\ tracker' = u.tracker
  BY <1>1 DEF HistoriesBecome
<1> HIDE DEF v, hid, fin, u
<1>8. WOK(u) /\ HistoriesOK(hists', hseq', tracker')
  BY <1>2, <1>5, <1>6, <1>7 DEF Cleared, WOK
<1>9. CASE v = w /\ hid = ex.hid
  <2>1. /\ hseq' = hseq /\ DOMAIN hists' = DOMAIN hists
        /\ \A h \in DOMAIN hists :
              /\ SameChains(hists'[h], hists[h])
              /\ hists'[h].exec = IF ex.swap /\ h = hid THEN None ELSE hists[h].exec
    BY <1>2, <1>5, <1>6, <1>7, <1>9 DEF Cleared, SameChains
  <2>2. Runs(id, ex, fin, TRUE)
    BY <1>1, <1>4, <1>8, <1>9, <2>1 DEF Runs
  <2> QED BY <2>2
<1>10. CASE OneMore(w, v, None) /\ hid = w.hseq /\ ex.swap /\ ex.hid = None
  <2>1. /\ hseq' = hseq + 1 /\ DOMAIN hists' = DOMAIN hists \cup {hseq}
        /\ hseq \in HistoryIds \ DOMAIN hists
        /\ ExecutableChains(hists'[hseq]) = {} /\ hists'[hseq].exec = None
        /\ \A h \in DOMAIN hists :
              /\ SameChains(hists'[h], hists[h])
              /\ hists'[h].exec = IF ex.swap /\ h = hid THEN None ELSE hists[h].exec
    <3>1. /\ v.hseq = hseq + 1 /\ DOMAIN v.hists = DOMAIN hists \cup {hseq}
          /\ hseq \in HistoryIds \ DOMAIN hists /\ ExecutableChains(v.hists[hseq]) = {}
          /\ \A h \in DOMAIN hists : v.hists[h] = w.hists[h]
      BY <1>2, <1>10 DEF OneMore
    <3>2. /\ hseq' = v.hseq /\ DOMAIN hists' = DOMAIN v.hists
          /\ \A h \in DOMAIN v.hists :
                /\ ExecutableChains(hists'[h]) = ExecutableChains(v.hists[h])
                /\ hists'[h].exec = IF h = hid THEN None ELSE v.hists[h].exec
      BY <1>5, <1>7, <1>10 DEF Cleared, SameChains
    <3>3. \A h \in DOMAIN hists :
             /\ SameChains(hists'[h], hists[h])
             /\ hists'[h].exec = IF ex.swap /\ h = hid THEN None ELSE hists[h].exec
      BY <1>2, <1>10, <3>1, <3>2 DEF SameChains
    <3>4. ExecutableChains(hists'[hseq]) = {} /\ hists'[hseq].exec = None
      BY <1>2, <1>10, <3>1, <3>2
    <3> QED BY <3>1, <3>2, <3>3, <3>4
  <2>2. Runs(id, ex, fin, TRUE)
    BY <1>1, <1>2, <1>4, <1>8, <1>10, <2>1 DEF Runs
  <2> QED BY <2>2
<1> QED BY <1>3, <1>9, <1>10

\* A stop of the loop is a run that is not done.
LEMMA BlocksRuns ==
  ASSUME HistoriesOK(hists, hseq, tracker), NEW w, Flagged(Histories, w), NEW keys,
         NEW id \in Executions, NEW ex, ExecOK(ex), NEW i \in DOMAIN ex.tx,
         Blocks(w, keys, id, ex, i)
  PROVE  \E fin : Runs(id, ex, fin, FALSE)
<1> DEFINE mid == [ex EXCEPT !.tx = [@ EXCEPT ![i] = "blocked"], !.signed = @ \ {i},
                             !.status = "blocked"]
           v   == WithHistory(w, id, mid)
           hid == HistoryOf(w, mid)
           fin == [mid EXCEPT !.hid = hid, !.route = <<>>]
<1>1. /\ Histories.hists = hists /\ Histories.hseq = hseq
      /\ execs' = [execs EXCEPT ![id] = fin]
      /\ hists' = v.hists /\ hseq' = v.hseq /\ tracker' = v.tracker
      /\ NeedsHistory(mid) => hseq < MaxHistories
  BY DEF Blocks, Histories, HistoriesBecome
<1>2. /\ WOK(w) /\ w.hseq = hseq /\ DOMAIN w.hists = DOMAIN hists
      /\ \A h \in DOMAIN hists : /\ SameChains(w.hists[h], hists[h])
                                 /\ w.hists[h].exec = hists[h].exec
  BY <1>1 DEF Flagged
<1>3. /\ ExecOK(mid) /\ SameSwap(mid, ex) /\ mid.status = "blocked"
      /\ i \in DOMAIN mid.tx /\ mid.tx[i] = "blocked"
  BY BlockedOK
<1> HIDE DEF mid
<1>4. /\ WOK(v) /\ hid \in HistoryIds \cup {None}
      /\ \/ v = w /\ hid = mid.hid
         \/ OneMore(w, v, id) /\ hid = w.hseq /\ mid.swap /\ mid.hid = None
  <2>1. id = IF \E j \in DOMAIN mid.tx : mid.tx[j] = "blocked" THEN id ELSE None
    BY <1>3
  <2> QED BY <1>1, <1>2, <1>3, <2>1, HistoryRecords
<1>5. /\ ExecOK(fin) /\ fin.hid = hid /\ fin.tx = mid.tx /\ fin.status = mid.status
      /\ fin.executable = mid.executable /\ fin.swap = mid.swap
  BY <1>3, <1>4, LinkedOK
<1> HIDE DEF v, hid, fin
<1>6. \E j \in DOMAIN fin.tx : fin.tx[j] # "confirmed"
  BY <1>3, <1>5
<1>7. HistoriesOK(hists', hseq', tracker')
  BY <1>1, <1>4 DEF WOK
<1>8. CASE v = w /\ hid = mid.hid
  <2>1. Runs(id, ex, fin, FALSE)
    BY <1>1, <1>2, <1>3, <1>5, <1>6, <1>7, <1>8 DEF Runs, SameSwap
  <2> QED BY <2>1
<1>9. CASE OneMore(w, v, id) /\ hid = w.hseq /\ mid.swap /\ mid.hid = None
  <2>1. /\ hseq' = hseq + 1 /\ DOMAIN hists' = DOMAIN hists \cup {hseq}
        /\ hseq \in HistoryIds \ DOMAIN hists
        /\ ExecutableChains(hists'[hseq]) = {} /\ hists'[hseq].exec = id
        /\ \A h \in DOMAIN hists : SameChains(hists'[h], hists[h]) /\ hists'[h].exec = hists[h].exec
    BY <1>1, <1>2, <1>9 DEF OneMore, SameChains
  <2>2. Runs(id, ex, fin, FALSE)
    BY <1>1, <1>2, <1>3, <1>5, <1>6, <1>7, <1>9, <2>1 DEF Runs, SameSwap
  <2> QED BY <2>2
<1> QED BY <1>4, <1>8, <1>9

LoopRecord == [pc : {"off", "sign", "broadcast", "trace"}, i : 0..MaxTxs, given : 0..MaxTxs]

\* The loop that does not run.
LEMMA IdleOK == Idle \in LoopRecord
BY MaxTxsIsMax DEF Idle, LoopRecord

\* The loop, up to its next await, is a run.
LEMMA ProceedsRuns ==
  ASSUME HistoriesOK(hists, hseq, tracker), NEW keys, NEW id \in Executions, NEW ex, ExecOK(ex),
         NEW i \in Nat \ {0}, ConfirmedBefore(ex, i), NEW given \in 0..MaxTxs, NEW tracked,
         Proceeds(keys, id, ex, i, given, tracked)
  PROVE  \E fin : \E done \in BOOLEAN, l \in LoopRecord :
            /\ Runs(id, ex, fin, done) /\ loop' = [loop EXCEPT ![id] = l]
            /\ recent' = IF done THEN keys \ {id} ELSE keys
<1> DEFINE left == {j \in DOMAIN ex.tx : j >= i /\ ex.tx[j] # "confirmed"}
           w    == IF given # 0 /\ given \notin left /\ ex.swap /\ tracked
                   THEN WithExtraTracking(Histories, ex.hid) ELSE Histories
           run  == [ex EXCEPT !.status = "processing"]
           Goal == \E fin : \E done \in BOOLEAN, l \in LoopRecord :
                      /\ Runs(id, ex, fin, done) /\ loop' = [loop EXCEPT ![id] = l]
                      /\ recent' = IF done THEN keys \ {id} ELSE keys
<1>1. ExecOK(run) /\ SameSwap(run, ex) /\ run.tx = ex.tx /\ run.status = "processing"
  BY ProcessingOK
<1>2. Flagged(Histories, w)
  BY HistoriesWOK, FlaggedSelf, FlagsChange
<1>3. DOMAIN ex.tx = 1..Len(ex.tx) /\ Len(ex.tx) \in Nat /\ DOMAIN ex.tx \subseteq 1..MaxTxs
  BY TxIndices, MaxTxsIsMax
<1>4. ASSUME NEW fin, NEW done \in BOOLEAN, Runs(id, run, fin, done) PROVE Runs(id, ex, fin, done)
  <2> HIDE DEF run
  <2> QED BY <1>1, <1>4 DEF Runs, SameSwap
<1>5. ASSUME left = {}, Completes(w, keys, id, run) PROVE Goal
  <2>1. \A j \in DOMAIN run.tx : run.tx[j] = "confirmed"
    <3> SUFFICES ASSUME NEW j \in DOMAIN ex.tx PROVE ex.tx[j] = "confirmed"
      BY <1>1
    <3>1. CASE j >= i
      BY <1>5, <3>1
    <3>2. CASE ~(j >= i)
      BY <1>3, <3>2 DEF ConfirmedBefore
    <3> QED BY <3>1, <3>2
  <2> HIDE DEF run, w, left
  <2>2. PICK fin : Runs(id, run, fin, TRUE)
    BY <1>1, <1>2, <1>5, <2>1, CompletesRuns
  <2>3. recent' = keys \ {id} /\ loop' = [loop EXCEPT ![id] = Idle]
    BY <1>5 DEF Completes
  <2> QED BY <1>4, <2>2, <2>3, IdleOK
<1>6. ASSUME NEW next \in left, Blocks(w, keys, id, run, next) PROVE Goal
  <2>0. next \in DOMAIN run.tx
    BY <1>1
  <2> HIDE DEF run, w, left
  <2>1. PICK fin : Runs(id, run, fin, FALSE)
    BY <1>1, <1>2, <1>6, <2>0, BlocksRuns
  <2>2. recent' = keys /\ loop' = [loop EXCEPT ![id] = Idle]
    BY <1>6 DEF Blocks
  <2> QED BY <1>4, <2>1, <2>2, IdleOK
<1>7. ASSUME NEW next \in left, HistoriesBecome(w), execs' = [execs EXCEPT ![id] = run],
             recent' = keys,
             loop' = [loop EXCEPT ![id] =
                        [pc |-> IF next \in run.signed \cup {given} THEN "broadcast" ELSE "sign",
                         i |-> next, given |-> IF next = given THEN given ELSE 0]]
      PROVE Goal
  <2> DEFINE l == [pc |-> IF next \in run.signed \cup {given} THEN "broadcast" ELSE "sign",
                   i |-> next, given |-> IF next = given THEN given ELSE 0]
  <2>1. l \in LoopRecord
    <3>1. next \in 0..MaxTxs /\ 0 \in 0..MaxTxs
      BY <1>3, MaxTxsIsMax
    <3> HIDE DEF run, left
    <3> QED BY <3>1 DEF LoopRecord
  <2>2. next \in DOMAIN run.tx /\ run.tx[next] # "confirmed"
    BY <1>1
  <2>3. loop' = [loop EXCEPT ![id] = l]
    BY <1>7
  <2> HIDE DEF run, w, left, l
  <2>4. /\ WOK(w) /\ hseq' = hseq /\ DOMAIN hists' = DOMAIN hists
        /\ hists' = w.hists /\ hseq' = w.hseq /\ tracker' = w.tracker
        /\ \A h \in DOMAIN hists : SameChains(hists'[h], hists[h]) /\ hists'[h].exec = hists[h].exec
    BY <1>2, <1>7, HistoriesWOK DEF Flagged, HistoriesBecome
  <2>5. HistoriesOK(hists', hseq', tracker')
    BY <2>4 DEF WOK
  <2>6. Runs(id, run, run, FALSE)
    BY <1>1, <1>7, <2>2, <2>4, <2>5 DEF Runs
  <2>7. Runs(id, ex, run, FALSE)
    BY <1>4, <2>6
  <2> QED BY <1>7, <2>1, <2>3, <2>7
<1> QED BY <1>1, <1>5, <1>6, <1>7 DEF Proceeds, SameSwap
-----------------------------------------------------------------------------
(***************************************************************************)
(* The links between the executions and the histories.                     *)
(***************************************************************************)

\* A history names an execution of its own, which has something left to do.
Names ==
    \A h \in DOMAIN hists :
        hists[h].exec # None =>
            LET ex == execs[hists[h].exec] IN
            /\ ex.status # "unused"
            /\ \/ ex.status = "gone"
               \/ ex.hid = h /\ ex.swap /\ \E i \in DOMAIN ex.tx : ex.tx[i] # "confirmed"

\* The history of an execution was recorded, and names no other execution.
Owned ==
    \A id \in Executions :
        LET hid == execs[id].hid IN
        hid # None => hid \in 0..(hseq - 1) /\ (hid \in DOMAIN hists => hists[hid].exec \in {id, None})

\* An execution and its history know each other, until the removal of one is read.
Linked ==
    \A id \in recent \ missed :
        LET hid == execs[id].hid IN
        hid # None /\ known = Chains =>
            \/ hid \in DOMAIN hists /\ hists[hid].exec = id
            \/ \E event \in Range(bus) : event.type = "remove" /\ event.exec = id

\* NoLostWakeup, of one history.
Hears(h) ==
    LET id == hists[h].exec IN
    id \in recent \ missed =>
        ExecutableChains(hists[h]) \subseteq execs[id].executable \cup Told(bus, id)

Links == Names /\ Owned /\ Linked /\ \A h \in DOMAIN hists : Hears(h)

Typed ==
    /\ HistoriesOK(hists, hseq, tracker) /\ bus \in Seq(EventRecord) /\ known \in SUBSET Chains
    /\ execs = [id \in Executions |-> execs[id]]
    /\ \A id \in Executions : ExecOK(execs[id])
    /\ recent \in SUBSET Executions
    /\ loop \in [Executions -> LoopRecord]
    /\ subscribed \in BOOLEAN /\ kills \in 0..MaxKills
    /\ sent \in [Executions -> [1..MaxTxs -> Nat]]
    /\ missed \in SUBSET Executions

LInv == IInv /\ Typed /\ Links

\* A history names an execution or none.
LEMMA NamedExecutions ==
  ASSUME Typed
  PROVE  \A h \in DOMAIN hists : hists[h].exec \in Executions \cup {None}
BY DEF Typed, HistoriesOK, HistOK, HistoryRecord

\* A run of the loop, of a new execution or of one that is there.
LEMMA RunsKeepLinks ==
  ASSUME Typed, Links, NEW id \in Executions, NEW ex, NEW keys, NEW fin, NEW done \in BOOLEAN,
         Runs(id, ex, fin, done), recent' \subseteq keys, done => id \notin recent',
         UNCHANGED <<bus, known, missed>>,
         \/ execs[id].status = "unused" /\ ex.hid = None /\ keys = recent \cup {id}
         \/ /\ execs[id].status \notin {"unused", "gone"} /\ SameSwap(ex, execs[id])
            /\ keys = recent
  PROVE  Links'
<1>1. /\ fin.executable = ex.executable /\ fin.swap = ex.swap
      /\ fin.status \in {"processing", "blocked"}
      /\ ~done => \E i \in DOMAIN fin.tx : fin.tx[i] # "confirmed"
      /\ execs'[id] = fin /\ \A d \in Executions : d # id => execs'[d] = execs[d]
      /\ \A h \in DOMAIN hists :
            /\ ExecutableChains(hists'[h]) = ExecutableChains(hists[h])
            /\ hists'[h].exec = IF done /\ ex.swap /\ h = fin.hid THEN None ELSE hists[h].exec
  BY DEF Runs, Typed, SameChains
<1>2. \/ hseq' = hseq /\ DOMAIN hists' = DOMAIN hists /\ fin.hid = ex.hid
      \/ /\ hseq \in HistoryIds \ DOMAIN hists /\ hseq' = hseq + 1
         /\ DOMAIN hists' = DOMAIN hists \cup {hseq}
         /\ ex.swap /\ ex.hid = None /\ fin.hid = hseq
         /\ ExecutableChains(hists'[hseq]) = {}
         /\ hists'[hseq].exec = IF done THEN None ELSE id
  BY DEF Runs
<1>3. /\ hseq \in 0..MaxHistories /\ MaxHistories \in Nat
      /\ None \notin Executions /\ None \notin 0..MaxHistories
      /\ HistoryIds \subseteq 0..MaxHistories /\ DOMAIN hists \subseteq 0..(hseq - 1)
      /\ \A h \in DOMAIN hists : hists[h].exec \in Executions \cup {None}
  BY HistoryAssumption, NamedExecutions DEF Typed, HistoriesOK, HistoryIds
<1>4. execs[id].status = "unused" => \A h \in DOMAIN hists : hists[h].exec # id
  BY <1>3 DEF Links, Names
<1>5. ASSUME NEW h \in DOMAIN hists, hists[h].exec = id
      PROVE  ex.hid = h /\ ex.swap /\ h # None /\ fin.hid = h /\ execs[id].status # "unused"
  <2>1. execs[id].status \notin {"unused", "gone"} /\ SameSwap(ex, execs[id])
    BY <1>4, <1>5
  <2>2. execs[id].hid = h /\ execs[id].swap
    BY <1>3, <1>5, <2>1 DEF Links, Names
  <2>3. h # None
    BY <1>3
  <2> QED BY <1>2, <2>1, <2>2, <2>3 DEF SameSwap
<1>6. Names'
  <2> SUFFICES ASSUME NEW h \in DOMAIN hists', hists'[h].exec # None
               PROVE  LET e == execs'[hists'[h].exec] IN
                      /\ e.status # "unused"
                      /\ \/ e.status = "gone"
                         \/ e.hid = h /\ e.swap /\ \E i \in DOMAIN e.tx : e.tx[i] # "confirmed"
    BY DEF Names
  <2>1. CASE h \notin DOMAIN hists
    BY <1>1, <1>2, <2>1
  <2>2. CASE h \in DOMAIN hists /\ hists[h].exec = id
    BY <1>1, <1>5, <2>2
  <2>3. CASE h \in DOMAIN hists /\ hists[h].exec # id
    BY <1>1, <1>3, <2>3 DEF Links, Names
  <2> QED BY <2>1, <2>2, <2>3
<1>7. Owned'
  <2> SUFFICES ASSUME NEW d \in Executions, execs'[d].hid # None
               PROVE  LET hid == execs'[d].hid IN
                      hid \in 0..(hseq' - 1) /\ (hid \in DOMAIN hists' => hists'[hid].exec \in {d, None})
    BY DEF Owned
  <2>1. CASE d # id
    <3>1. execs'[d] = execs[d]
      BY <1>1, <2>1
    <3>2. execs[d].hid \in 0..(hseq - 1)
      BY <3>1 DEF Links, Owned
    <3>3. execs[d].hid \in 0..(hseq' - 1) /\ execs[d].hid # hseq
      BY <1>2, <1>3, <3>2
    <3> QED BY <1>1, <1>2, <3>1, <3>3 DEF Links, Owned
  <2>2. CASE d = id /\ fin.hid = ex.hid /\ hseq' = hseq /\ DOMAIN hists' = DOMAIN hists
    <3>1. execs[id].hid = fin.hid /\ fin.hid # None /\ execs'[d] = fin
      BY <1>1, <2>2 DEF SameSwap
    <3> QED BY <1>1, <2>2, <3>1 DEF Links, Owned
  <2>3. CASE d = id /\ fin.hid = hseq /\ hseq' = hseq + 1 /\ hists'[hseq].exec \in {id, None}
    BY <1>1, <1>3, <2>3
  <2> QED BY <1>2, <2>1, <2>2, <2>3
<1>8. Linked'
  <2> SUFFICES ASSUME NEW d \in recent' \ missed, execs'[d].hid # None, known = Chains
               PROVE  LET hid == execs'[d].hid IN
                      \/ hid \in DOMAIN hists' /\ hists'[hid].exec = d
                      \/ \E event \in Range(bus) : event.type = "remove" /\ event.exec = d
    BY DEF Linked
  <2>0. d \in Executions
    BY DEF Typed
  <2>1. CASE d # id
    <3>1. execs'[d] = execs[d] /\ d \in recent \ missed
      BY <1>1, <2>0, <2>1
    <3>2. CASE \E event \in Range(bus) : event.type = "remove" /\ event.exec = d
      BY <3>2
    <3>3. CASE execs[d].hid \in DOMAIN hists /\ hists[execs[d].hid].exec = d
      <4> DEFINE hid == execs[d].hid
      <4>1. ~(done /\ ex.swap /\ hid = fin.hid)
        <5> SUFFICES ASSUME hid = fin.hid PROVE FALSE
          OBVIOUS
        <5>1. fin.hid = ex.hid /\ fin.hid # None
          BY <1>2, <1>3, <3>1, <3>3
        <5>2. execs[id].hid = hid
          BY <5>1 DEF SameSwap
        <5> QED BY <1>3, <2>0, <2>1, <3>3, <5>1, <5>2 DEF Links, Owned
      <4> QED BY <1>1, <1>2, <3>1, <3>3, <4>1
    <3> QED BY <3>1, <3>2, <3>3 DEF Links, Linked
  <2>2. CASE d = id
    <3>1. ~done /\ execs'[d] = fin
      BY <1>1, <2>2
    <3>2. CASE fin.hid = hseq /\ hseq \in DOMAIN hists' /\ hists'[hseq].exec = id
      BY <2>2, <3>1, <3>2
    <3>3. CASE fin.hid = ex.hid /\ DOMAIN hists' = DOMAIN hists
      <4>1. execs[id].hid = fin.hid /\ id \in recent \ missed
        BY <2>2, <3>1, <3>3 DEF SameSwap
      <4> QED BY <1>1, <2>2, <3>1, <3>3, <4>1 DEF Links, Linked
    <3> QED BY <1>2, <3>1, <3>2, <3>3
  <2> QED BY <2>1, <2>2
<1>9. ASSUME NEW h \in DOMAIN hists' PROVE Hears(h)'
  <2> SUFFICES ASSUME hists'[h].exec \in recent' \ missed
               PROVE  ExecutableChains(hists'[h])
                          \subseteq execs'[hists'[h].exec].executable \cup Told(bus, hists'[h].exec)
    BY DEF Hears, Told
  <2>1. CASE h \notin DOMAIN hists
    BY <1>2, <2>1
  <2>2. CASE h \in DOMAIN hists
    <3> DEFINE d == hists[h].exec
    <3>1. hists'[h].exec = d /\ d \in Executions
      BY <1>1, <1>3, <2>2 DEF Typed
    <3>2. d \in recent \ missed /\ execs'[d].executable = execs[d].executable
      BY <1>1, <1>5, <2>2, <3>1 DEF SameSwap
    <3> QED BY <1>1, <2>2, <3>1, <3>2 DEF Links, Hears
  <2> QED BY <2>1, <2>2
<1> QED BY <1>6, <1>7, <1>8, <1>9 DEF Links

\* What neither the executions, the histories nor the bus see.
LEMMA LinksStay ==
  ASSUME Links, UNCHANGED <<hists, hseq, bus, known, execs, recent, missed>>
  PROVE  Links'
BY DEF Links, Names, Owned, Linked, Hears, Told

\* What two sequences of events tell.
LEMMA ToldMore ==
  ASSUME NEW s \in Seq(EventRecord), NEW t \in Seq(EventRecord), NEW id
  PROVE  Told(s \o t, id) = Told(s, id) \cup Told(t, id)
<1>1. Range(s \o t) = Range(s) \cup Range(t)
  BY Joins
<1> QED BY <1>1 DEF Told

\* The steps of the histories keep the links: they publish what they reach and remove.
LEMMA HistoryKeepsLinks ==
  ASSUME Typed, Links, HistoryStep, UNCHANGED <<execs, recent, missed>>
  PROVE  Links'
<1>0. /\ HistoriesOK(hists, hseq, tracker) /\ bus \in Seq(EventRecord) /\ known \subseteq Chains
      /\ \A h \in DOMAIN hists : hists[h].exec \in Executions \cup {None}
  BY NamedExecutions DEF Typed
<1>1. ASSUME NEW h \in DOMAIN hists, Moves(h), known' = known PROVE Links'
  <2>1. PICK hist, pc, events :
          /\ DOMAIN hists' = DOMAIN hists
          /\ \A g \in DOMAIN hists : hists'[g] = IF g = h THEN hist ELSE hists[g]
          /\ hseq' = hseq
          /\ events \in Seq(EventRecord) /\ bus' = bus \o events
          /\ hist.exec = hists[h].exec
          /\ hist.exec # None =>
                ExecutableChains(hist) \subseteq ExecutableChains(hists[h]) \cup Told(events, hist.exec)
    BY <1>1 DEF Moves
  <2>2. \A g \in DOMAIN hists : hists'[g].exec = hists[g].exec
    BY <2>1
  <2>3. Range(bus') = Range(bus) \cup Range(events)
    BY <1>0, <2>1, Joins
  <2>4. Names' /\ Owned' /\ Linked'
    BY <1>1, <2>1, <2>2, <2>3 DEF Links, Names, Owned, Linked
  <2>5. ASSUME NEW g \in DOMAIN hists, hists[g].exec \in recent \ missed
        PROVE  ExecutableChains(hists'[g])
                   \subseteq execs[hists[g].exec].executable \cup Told(bus', hists[g].exec)
    <3>1. Told(bus', hists[g].exec) = Told(bus, hists[g].exec) \cup Told(events, hists[g].exec)
      BY <1>0, <2>1, ToldMore
    <3>2. hists[g].exec # None
      BY <2>5, HistoryAssumption DEF Typed
    <3>3. ExecutableChains(hists[g]) \subseteq execs[hists[g].exec].executable \cup Told(bus, hists[g].exec)
      BY <2>5 DEF Links, Hears
    <3>4. CASE g = h
      BY <2>1, <3>1, <3>2, <3>3, <3>4
    <3>5. CASE g # h
      BY <2>1, <3>1, <3>3, <3>5
    <3> QED BY <3>4, <3>5
  <2>6. \A g \in DOMAIN hists' : Hears(g)'
    <3> SUFFICES ASSUME NEW g \in DOMAIN hists' PROVE Hears(g)'
      OBVIOUS
    <3>1. g \in DOMAIN hists /\ hists'[g].exec = hists[g].exec
      BY <2>1, <2>2
    <3>2. Told(bus, hists[g].exec)' = Told(bus', hists'[g].exec)
      BY DEF Told
    <3> QED BY <2>5, <3>1, <3>2 DEF Hears, Told
  <2> QED BY <2>4, <2>6 DEF Links
<1>2. ASSUME NEW hs, Removes(hs) PROVE Links'
  <2>1. PICK events \in Seq(EventRecord) :
          /\ RemoveHistories(hs, events)
          /\ \/ known' # Chains
             \/ /\ known' = known
                /\ \A h \in DOMAIN hists \cap hs :
                      hists[h].exec # None =>
                          \E e \in Range(events) : e.type = "remove" /\ e.exec = hists[h].exec
    BY <1>2 DEF Removes
  <2>2. /\ DOMAIN hists' = DOMAIN hists \ hs
        /\ \A h \in DOMAIN hists \ hs : hists'[h] = hists[h]
        /\ bus' = bus \o events /\ hseq' = hseq
    BY <2>1 DEF RemoveHistories
  <2>3. Range(bus') = Range(bus) \cup Range(events)
    BY <1>0, <2>2, Joins
  <2>4. Names' /\ Owned'
    <3> USE <2>2
    <3>0. \A h \in DOMAIN hists' : h \in DOMAIN hists /\ hists'[h] = hists[h]
      OBVIOUS
    <3>1. Names'
      BY <3>0 DEF Links, Names
    <3>2. Owned'
      BY <3>0 DEF Links, Owned
    <3> QED BY <3>1, <3>2
  <2>5. Linked'
    <3> SUFFICES ASSUME NEW id \in recent \ missed, execs[id].hid # None, known' = Chains
                 PROVE  LET hid == execs[id].hid IN
                        \/ hid \in DOMAIN hists' /\ hists'[hid].exec = id
                        \/ \E event \in Range(bus') : event.type = "remove" /\ event.exec = id
      BY DEF Linked
    <3>1. id \in Executions /\ id # None
      BY HistoryAssumption DEF Typed
    <3>2. /\ known = Chains
          /\ \A h \in DOMAIN hists \cap hs :
                hists[h].exec # None =>
                    \E e \in Range(events) : e.type = "remove" /\ e.exec = hists[h].exec
      BY <2>1
    <3>3. CASE \E event \in Range(bus) : event.type = "remove" /\ event.exec = id
      BY <2>3, <3>3
    <3>4. CASE execs[id].hid \in DOMAIN hists /\ hists[execs[id].hid].exec = id
      BY <2>2, <2>3, <3>1, <3>2, <3>4
    <3> QED BY <3>2, <3>3, <3>4 DEF Links, Linked
  <2>6. \A g \in DOMAIN hists' : Hears(g)'
    <3> SUFFICES ASSUME NEW g \in DOMAIN hists' PROVE Hears(g)'
      OBVIOUS
    <3>1. g \in DOMAIN hists /\ hists'[g] = hists[g]
      BY <2>2
    <3>2. Told(bus, hists[g].exec) \subseteq Told(bus', hists[g].exec)
      BY <1>0, <2>2, ToldMore
    <3>3. Hears(g)
      BY <3>1 DEF Links
    <3> QED BY <3>1, <3>2, <3>3 DEF Hears, Told
  <2> QED BY <2>4, <2>5, <2>6 DEF Links
<1> QED BY <1>0, <1>1, <1>2, HistoryMoves

\* The first event of a bus, and those behind it.
LEMMA HeadAndTail ==
  ASSUME NEW s \in Seq(EventRecord), s # <<>>
  PROVE  /\ Head(s) \in EventRecord /\ Tail(s) \in Seq(EventRecord)
         /\ Range(s) = {Head(s)} \cup Range(Tail(s))
<1>1. /\ Len(s) \in Nat /\ Len(s) # 0 /\ DOMAIN s = 1..Len(s)
      /\ Head(s) = s[1] /\ s[1] \in EventRecord
      /\ Tail(s) \in Seq(EventRecord) /\ Len(Tail(s)) = Len(s) - 1
      /\ DOMAIN Tail(s) = 1..(Len(s) - 1)
      /\ \A i \in 1..(Len(s) - 1) : Tail(s)[i] = s[i + 1]
  OBVIOUS
<1>2. ASSUME NEW i \in 1..Len(s) PROVE s[i] \in {Head(s)} \cup Range(Tail(s))
  <2>1. CASE i = 1
    BY <1>1, <2>1
  <2>2. CASE i # 1
    <3>1. i - 1 \in 1..(Len(s) - 1) /\ Tail(s)[i - 1] = s[i]
      BY <1>1, <2>2
    <3> QED BY <1>1, <3>1 DEF Range
  <2> QED BY <2>1, <2>2
<1>3. \A i \in 1..(Len(s) - 1) : Tail(s)[i] \in Range(s)
  <2> SUFFICES ASSUME NEW i \in 1..(Len(s) - 1) PROVE Tail(s)[i] \in Range(s)
    OBVIOUS
  <2>1. i + 1 \in 1..Len(s) /\ Tail(s)[i] = s[i + 1]
    BY <1>1
  <2> QED BY <1>1, <2>1 DEF Range
<1>4. Head(s) \in Range(s)
  <2>1. 1 \in 1..Len(s)
    BY <1>1
  <2> QED BY <1>1, <2>1 DEF Range
<1>5. \A x \in Range(Tail(s)) : x \in Range(s)
  BY <1>1, <1>3 DEF Range
<1>6. \A x \in Range(s) : x \in {Head(s)} \cup Range(Tail(s))
  BY <1>1, <1>2 DEF Range
<1> QED BY <1>1, <1>4, <1>5, <1>6

\* The executor takes over what an event says as it reads it.
LEMMA EventKeepsLinks == ASSUME Typed, Links, HandleEvent PROVE Links'
<1> DEFINE event == Head(bus)
           id    == event.exec
           ex    == [execs[id] EXCEPT !.executable = @ \cup event.chains]
           gone  == event.type = "remove" \/ id \notin recent
<1>1. /\ event \in EventRecord /\ Tail(bus) \in Seq(EventRecord)
      /\ Range(bus) = {event} \cup Range(Tail(bus)) /\ bus' = Tail(bus)
  BY HeadAndTail DEF HandleEvent, Typed
<1>2. /\ UNCHANGED <<known, missed>>
      /\ gone => recent' = recent \ (IF event.type = "remove" THEN {id} ELSE {})
      /\ gone => UNCHANGED <<hists, hseq, execs>>
  BY DEF HandleEvent, historyVars
<1>3. id \in Executions
  BY <1>1 DEF EventRecord
<1> HIDE DEF event
<1>4. ASSUME NEW d, d # id
      PROVE  /\ Told(Tail(bus), d) = Told(bus, d)
             /\ \A e \in Range(bus) : e.exec = d => e \in Range(Tail(bus))
  BY <1>1, <1>4 DEF Told
<1>5. Told(bus, id) \subseteq event.chains \cup Told(Tail(bus), id)
  BY <1>1 DEF Told
<1>6. CASE gone
  <2>1. recent' \subseteq recent /\ \A d \in recent' : d # id
    BY <1>2, <1>6
  <2>2. Names' /\ Owned'
    BY <1>2, <1>6 DEF Links, Names, Owned
  <2>3. Linked'
    BY <1>1, <1>2, <1>4, <1>6, <2>1 DEF Links, Linked
  <2>4. \A h \in DOMAIN hists' : Hears(h)'
    <3> SUFFICES ASSUME NEW h \in DOMAIN hists, hists[h].exec \in recent' \ missed
                 PROVE  ExecutableChains(hists[h])
                            \subseteq execs[hists[h].exec].executable \cup Told(Tail(bus), hists[h].exec)
      BY <1>1, <1>2, <1>6 DEF Hears, Told
    <3>1. hists[h].exec \in recent \ missed /\ hists[h].exec # id
      BY <1>2, <2>1
    <3> QED BY <1>4, <3>1 DEF Links, Hears
  <2> QED BY <2>2, <2>3, <2>4 DEF Links
<1>7. CASE ~gone
  <2>1. /\ execs' = [execs EXCEPT ![id] = ex] /\ recent' = recent
        /\ \E w : Flagged(Histories, w) /\ hists' = w.hists /\ hseq' = w.hseq
    <3> DEFINE wakes == /\ ex.swap /\ ex.hid # None
                        /\ ~(event.chains \subseteq execs[id].executable)
                        /\ \E i \in DOMAIN ex.tx : /\ ex.tx[i] \in {"pending", "blocked"}
                                                   /\ ex.chains[i] \in ex.executable
               w == IF wakes THEN Shown(Histories, ex.hid) ELSE Histories
    <3>1. execs' = [execs EXCEPT ![id] = ex] /\ recent' = recent /\ HistoriesBecome(w)
      BY <1>7 DEF HandleEvent, event
    <3>2. Flagged(Histories, w)
      BY HistoriesWOK, FlaggedSelf, FlagsChange DEF Typed
    <3> HIDE DEF w
    <3> QED BY <3>1, <3>2 DEF HistoriesBecome
  <2>2. /\ hseq' = hseq /\ DOMAIN hists' = DOMAIN hists
        /\ \A h \in DOMAIN hists : /\ ExecutableChains(hists'[h]) = ExecutableChains(hists[h])
                                   /\ hists'[h].exec = hists[h].exec
    BY <2>1, HistoriesWOK DEF Typed, Flagged, SameChains
  <2>3. /\ ex.executable = execs[id].executable \cup event.chains
        /\ ex.status = execs[id].status /\ ex.hid = execs[id].hid /\ ex.swap = execs[id].swap
        /\ ex.tx = execs[id].tx
    BY <1>3 DEF Typed, ExecOK, ExecutionRecord
  <2> HIDE DEF ex
  <2>4. /\ execs'[id] = ex
        /\ \A d \in Executions : d # id => execs'[d] = execs[d]
    BY <1>3, <2>1 DEF Typed
  <2>5. \A d \in Executions :
           /\ execs'[d].status = execs[d].status /\ execs'[d].hid = execs[d].hid
           /\ execs'[d].swap = execs[d].swap /\ execs'[d].tx = execs[d].tx
           /\ execs[d].executable \subseteq execs'[d].executable
    BY <2>3, <2>4
  <2>6. \A h \in DOMAIN hists : hists[h].exec \in Executions \cup {None}
    BY NamedExecutions
  <2>7. Names'
    BY <2>2, <2>5, <2>6 DEF Links, Names
  <2>8. Owned'
    BY <2>2, <2>5 DEF Links, Owned
  <2>9. Linked'
    <3> SUFFICES ASSUME NEW d \in recent \ missed, execs'[d].hid # None, known = Chains
                 PROVE  LET hid == execs'[d].hid IN
                        \/ hid \in DOMAIN hists' /\ hists'[hid].exec = d
                        \/ \E e \in Range(Tail(bus)) : e.type = "remove" /\ e.exec = d
      BY <1>1, <1>2, <2>1 DEF Linked
    <3>1. d \in Executions /\ execs'[d].hid = execs[d].hid
      BY <2>5 DEF Typed
    <3>2. CASE execs[d].hid \in DOMAIN hists /\ hists[execs[d].hid].exec = d
      BY <2>2, <3>1, <3>2
    <3>3. ASSUME NEW e \in Range(bus), e.type = "remove", e.exec = d
          PROVE  e \in Range(Tail(bus))
      BY <1>1, <1>7, <3>3
    <3> QED BY <3>1, <3>2, <3>3 DEF Links, Linked
  <2>10. \A h \in DOMAIN hists' : Hears(h)'
    <3> SUFFICES ASSUME NEW h \in DOMAIN hists, hists[h].exec \in recent \ missed
                 PROVE  ExecutableChains(hists[h])
                            \subseteq execs'[hists[h].exec].executable \cup Told(Tail(bus), hists[h].exec)
      BY <1>1, <1>2, <2>1, <2>2 DEF Hears, Told
    <3>1. ExecutableChains(hists[h]) \subseteq execs[hists[h].exec].executable \cup Told(bus, hists[h].exec)
      BY DEF Links, Hears
    <3>2. hists[h].exec \in Executions
      BY DEF Typed
    <3>3. CASE hists[h].exec = id
      BY <1>5, <2>3, <2>4, <3>1, <3>3
    <3>4. CASE hists[h].exec # id
      BY <1>4, <2>4, <3>1, <3>2, <3>4
    <3> QED BY <3>3, <3>4
  <2> QED BY <2>7, <2>8, <2>9, <2>10 DEF Links
<1> QED BY <1>6, <1>7

\* An end of the worker loses the events of executions that are then missed.
LEMMA KillKeepsLinks == ASSUME Typed, Links, Kill PROVE Links'
<1>1. /\ UNCHANGED <<hists, hseq, known>> /\ bus' = <<>>
      /\ recent' = {id \in recent : execs[id].status = "blocked"}
      /\ execs' = [id \in Executions |-> IF id \in recent' \/ execs[id].status = "unused" THEN execs[id]
                                         ELSE NoExecution("gone")]
      /\ missed' = missed \cup {bus[k].exec : k \in DOMAIN bus}
  BY DEF Kill
<1>2. ASSUME NEW d \in recent' \ missed'
      PROVE  /\ d \in recent \ missed /\ d \in Executions /\ execs'[d] = execs[d]
             /\ Told(bus, d) = {} /\ \A e \in Range(bus) : e.exec # d
  <2>1. \A e \in Range(bus) : e.exec # d
    BY <1>1, <1>2 DEF Range
  <2>2. d \in recent \ missed /\ d \in Executions
    BY <1>1, <1>2 DEF Typed
  <2> QED BY <1>1, <1>2, <2>1, <2>2 DEF Told
<1>3. /\ NoExecution("gone").status = "gone" /\ NoExecution("gone").hid = None
  BY DEF NoExecution
<1>4. \A d \in Executions : execs'[d] = execs[d] \/ execs'[d] = NoExecution("gone")
  BY <1>1
<1>5. \A h \in DOMAIN hists : hists[h].exec \in Executions \cup {None}
  BY NamedExecutions
<1>6. Names'
  <2>0. hists' = hists
    BY <1>1
  <2> SUFFICES ASSUME NEW h \in DOMAIN hists, hists[h].exec # None
               PROVE  LET e == execs'[hists[h].exec] IN
                      /\ e.status # "unused"
                      /\ \/ e.status = "gone"
                         \/ e.hid = h /\ e.swap /\ \E i \in DOMAIN e.tx : e.tx[i] # "confirmed"
    BY <2>0 DEF Names
  <2>1. hists[h].exec \in Executions
    BY <1>5
  <2>2. CASE execs'[hists[h].exec] = NoExecution("gone")
    BY <1>3, <2>2
  <2>3. CASE execs'[hists[h].exec] = execs[hists[h].exec]
    BY <2>3 DEF Links, Names
  <2> QED BY <1>4, <2>1, <2>2, <2>3
<1>7. Owned'
  <2> SUFFICES ASSUME NEW d \in Executions, execs'[d].hid # None
               PROVE  LET hid == execs'[d].hid IN
                      hid \in 0..(hseq - 1) /\ (hid \in DOMAIN hists => hists[hid].exec \in {d, None})
    BY <1>1 DEF Owned
  <2>1. execs'[d] = execs[d]
    BY <1>3, <1>4
  <2> QED BY <2>1 DEF Links, Owned
<1>8. Linked'
  <2> SUFFICES ASSUME NEW d \in recent' \ missed', execs'[d].hid # None, known = Chains
               PROVE  LET hid == execs'[d].hid IN hid \in DOMAIN hists /\ hists[hid].exec = d
    BY <1>1 DEF Linked
  <2> QED BY <1>2 DEF Links, Linked
<1>9. \A h \in DOMAIN hists' : Hears(h)'
  <2> SUFFICES ASSUME NEW h \in DOMAIN hists, hists[h].exec \in recent' \ missed'
               PROVE  ExecutableChains(hists[h]) \subseteq execs'[hists[h].exec].executable
    BY <1>1 DEF Hears
  <2> QED BY <1>2 DEF Links, Hears
<1> QED BY <1>6, <1>7, <1>8, <1>9 DEF Links

\* What the loop is given to run on with is one of its executions.
LEMMA RecordRuns ==
  ASSUME Typed, NEW id \in Executions, NEW plan \in Plans, RecordAndExecuteTxs(id, plan)
  PROVE  LET ex == NewExecution(plan) IN
         \E fin : \E done \in BOOLEAN, l \in LoopRecord :
            /\ Runs(id, ex, fin, done) /\ loop' = [loop EXCEPT ![id] = l]
            /\ recent' = IF done THEN (recent \cup {id}) \ {id} ELSE recent \cup {id}
<1> DEFINE ex == NewExecution(plan)
<1>1. ExecOK(ex)
  BY NewExecutionOK
<1>2. Proceeds(recent \cup {id}, id, ex, 1, 0, FALSE)
  BY DEF RecordAndExecuteTxs
<1>3. ConfirmedBefore(ex, 1) /\ 1 \in Nat \ {0} /\ 0 \in 0..MaxTxs
  BY MaxTxsIsMax DEF ConfirmedBefore
<1> HIDE DEF ex
<1>4. HistoriesOK(hists, hseq, tracker)
  BY DEF Typed
<1> DEFINE keys == recent \cup {id}
<1> HIDE DEF keys
<1>5. \E fin : \E done \in BOOLEAN, l \in LoopRecord :
            /\ Runs(id, ex, fin, done) /\ loop' = [loop EXCEPT ![id] = l]
            /\ recent' = IF done THEN keys \ {id} ELSE keys
  BY <1>1, <1>2, <1>3, <1>4, ProceedsRuns DEF keys
<1> QED BY <1>5 DEF keys, ex

\* resumeTx is a run of an execution that is there.
LEMMA ResumeRuns ==
  ASSUME Typed, NEW id \in Executions, NEW i \in 1..MaxTxs, NEW tracked \in BOOLEAN,
         ResumeTx(id, i, tracked)
  PROVE  \E fin : \E done \in BOOLEAN, l \in LoopRecord :
            /\ Runs(id, execs[id], fin, done) /\ loop' = [loop EXCEPT ![id] = l]
            /\ recent' = IF done THEN recent \ {id} ELSE recent
<1>1. HistoriesOK(hists, hseq, tracker) /\ ExecOK(execs[id])
  BY DEF Typed
<1>2. Proceeds(recent, id, execs[id], i, i, tracked) /\ ConfirmedBefore(execs[id], i)
  BY DEF ResumeTx, ConfirmedBefore
<1>3. i \in Nat \ {0} /\ i \in 0..MaxTxs
  BY MaxTxsIsMax
<1> QED BY <1>1, <1>2, <1>3, ProceedsRuns

\* So is a confirmation, of the execution with its transaction confirmed.
LEMMA TraceRuns ==
  ASSUME IInv, Typed, NEW id \in Executions, NEW tracked, TraceConfirms(id, tracked)
  PROVE  \E ex, fin : \E done \in BOOLEAN, l \in LoopRecord :
            /\ SameSwap(ex, execs[id])
            /\ Runs(id, ex, fin, done) /\ loop' = [loop EXCEPT ![id] = l]
            /\ recent' = IF done THEN recent \ {id} ELSE recent
<1> DEFINE i  == loop[id].i
           ex == WithTx(execs[id], i, "confirmed")
<1>1. HistoriesOK(hists, hseq, tracker) /\ ExecOK(execs[id]) /\ loop[id] \in LoopRecord
  BY DEF Typed
<1>2. i \in DOMAIN execs[id].tx /\ ConfirmedBefore(execs[id], i)
  BY DEF IInv, LoopOK, TraceConfirms
<1>3. Proceeds(recent, id, ex, i, loop[id].given, tracked)
  BY DEF TraceConfirms
<1>4. DOMAIN execs[id].tx = 1..Len(execs[id].tx) /\ Len(execs[id].tx) \in Nat
  BY <1>1, TxIndices, MaxTxsIsMax
<1>5. i \in Nat \ {0} /\ loop[id].given \in 0..MaxTxs
  BY <1>1, <1>2, <1>4 DEF LoopRecord
<1> HIDE DEF i
<1>6. ExecOK(ex) /\ SameSwap(ex, execs[id])
  BY <1>1, <1>2, WithTxOK DEF TxStatuses
<1>7. ConfirmedBefore(ex, i)
  <2>1. ex.tx = [execs[id].tx EXCEPT ![i] = "confirmed"]
    BY <1>1 DEF WithTx, ExecOK, ExecutionRecord
  <2> QED BY <1>2, <1>4, <1>5, <2>1 DEF ConfirmedBefore
<1> HIDE DEF ex
<1>8. \E fin : \E done \in BOOLEAN, l \in LoopRecord :
            /\ Runs(id, ex, fin, done) /\ loop' = [loop EXCEPT ![id] = l]
            /\ recent' = IF done THEN recent \ {id} ELSE recent
  BY <1>1, <1>3, <1>5, <1>6, <1>7, ProceedsRuns
<1> QED BY <1>6, <1>8

\* A failure is a run that leaves a transaction failed.
LEMMA FailRuns ==
  ASSUME IInv, Typed, NEW id \in Executions, TxFails(id)
  PROVE  /\ \E fin : Runs(id, execs[id], fin, FALSE)
         /\ loop' = [loop EXCEPT ![id] = Idle] /\ recent' = recent \ {id}
<1> DEFINE i   == loop[id].i
           ex  == execs[id]
           fin == WithTx(ex, i, "failed")
           w   == IF ex.swap THEN WithError(Histories, ex.hid) ELSE Histories
<1>1. HistoriesOK(hists, hseq, tracker) /\ ExecOK(ex)
  BY DEF Typed
<1>2. i \in DOMAIN ex.tx /\ ex.status = "processing"
  BY DEF IInv, LoopOK, TxFails, AwaitsResult
<1>3. /\ HistoriesBecome(w) /\ execs' = [execs EXCEPT ![id] = fin]
      /\ recent' = recent \ {id} /\ loop' = [loop EXCEPT ![id] = Idle]
  BY DEF TxFails
<1>4. Flagged(Histories, w)
  BY <1>1, HistoriesWOK, FlaggedSelf, FlagsChange
<1> HIDE DEF i, ex
<1>5. /\ ExecOK(fin) /\ SameSwap(fin, ex) /\ fin.status = "processing"
      /\ i \in DOMAIN fin.tx /\ fin.tx[i] = "failed"
  BY <1>1, <1>2, WithTxOK DEF TxStatuses
<1> HIDE DEF fin, w
<1>6. /\ WOK(w) /\ hseq' = hseq /\ DOMAIN hists' = DOMAIN hists
      /\ hists' = w.hists /\ hseq' = w.hseq /\ tracker' = w.tracker
      /\ \A h \in DOMAIN hists : SameChains(hists'[h], hists[h]) /\ hists'[h].exec = hists[h].exec
  BY <1>1, <1>3, <1>4, HistoriesWOK DEF Flagged, HistoriesBecome
<1>7. HistoriesOK(hists', hseq', tracker')
  BY <1>6 DEF WOK
<1>8. Runs(id, ex, fin, FALSE)
  BY <1>3, <1>5, <1>6, <1>7 DEF Runs, SameSwap
<1> QED BY <1>3, <1>8 DEF ex
-----------------------------------------------------------------------------
(***************************************************************************)
(* The steps keep the types and the links.                                 *)
(***************************************************************************)

\* A run keeps the types.
LEMMA RunsKeepTypes ==
  ASSUME Typed, NEW id \in Executions, NEW ex, NEW fin, NEW done, NEW l \in LoopRecord,
         Runs(id, ex, fin, done), loop' = [loop EXCEPT ![id] = l], recent' \subseteq recent \cup {id},
         sent' = sent, UNCHANGED <<bus, known, subscribed, kills, missed>>
  PROVE  Typed'
<1>1. /\ ExecOK(fin) /\ execs' = [execs EXCEPT ![id] = fin]
      /\ HistoriesOK(hists', hseq', tracker')
  BY DEF Runs
<1>2. HistoriesOK(hists, hseq, tracker)'
  BY <1>1
<1>3. ASSUME NEW d \in Executions PROVE ExecOK(execs[d])'
  <2>1. execs'[d] = IF d = id THEN fin ELSE execs[d]
    BY <1>1 DEF Typed
  <2> QED BY <1>1, <2>1 DEF Typed, ExecOK
<1>4. (execs = [d \in Executions |-> execs[d]])'
  BY <1>1 DEF Typed
<1> QED BY <1>2, <1>3, <1>4 DEF Typed

\* A step of the loop that leaves the executions and the histories.
LEMMA WaitKeeps ==
  ASSUME IInv, Typed, Links, NEW id \in Executions, SignSucceeds(id) \/ BroadcastSucceeds(id)
  PROVE  Typed' /\ Links'
<1>1. UNCHANGED <<hists, hseq, tracker, bus, known, execs, recent, subscribed, kills, missed>>
  BY DEF SignSucceeds, BroadcastSucceeds, AwaitsResult, historyVars
<1>2. Links'
  BY <1>1, LinksStay
<1>3. loop' \in [Executions -> LoopRecord]
  <2>1. PICK pc \in {"broadcast", "trace"} : loop' = [loop EXCEPT ![id].pc = pc]
    BY DEF SignSucceeds, BroadcastSucceeds
  <2> DEFINE l == [loop[id] EXCEPT !.pc = pc]
  <2>2. l \in LoopRecord
    BY DEF Typed, LoopRecord
  <2>3. loop' = [loop EXCEPT ![id] = l]
    BY <2>1
  <2> HIDE DEF l
  <2> QED BY <2>2, <2>3 DEF Typed
<1>4. sent' \in [Executions -> [1..MaxTxs -> Nat]]
  <2>1. CASE sent' = sent
    BY <2>1 DEF Typed
  <2>2. CASE sent' = [sent EXCEPT ![id][loop[id].i] = @ + 1]
    <3> DEFINE n == [sent[id] EXCEPT ![loop[id].i] = @ + 1]
    <3>1. n \in [1..MaxTxs -> Nat]
      <4> DEFINE s == sent[id]
                 k == loop[id].i
      <4>1. s \in [1..MaxTxs -> Nat]
        BY DEF Typed
      <4>2. n = [s EXCEPT ![k] = s[k] + 1]
        OBVIOUS
      <4> HIDE DEF s, k, n
      <4>3. CASE k \in 1..MaxTxs
        <5>1. s[k] + 1 \in Nat
          BY <4>1, <4>3
        <5> QED BY <4>1, <4>2, <5>1
      <4>4. CASE k \notin 1..MaxTxs
        BY <4>1, <4>2, <4>4
      <4> QED BY <4>3, <4>4
    <3>2. sent' = [sent EXCEPT ![id] = n]
      BY <2>2
    <3> HIDE DEF n
    <3> QED BY <3>1, <3>2 DEF Typed
  <2> QED BY <2>1, <2>2 DEF SignSucceeds, BroadcastSucceeds
<1>5. HistoriesOK(hists, hseq, tracker)' /\ \A d \in Executions : ExecOK(execs[d])'
  BY <1>1 DEF Typed, ExecOK
<1> QED BY <1>1, <1>2, <1>3, <1>4, <1>5 DEF Typed

\* An event adds chains to an execution.
LEMMA EventKeepsTypes == ASSUME Typed, HandleEvent PROVE Typed'
<1> DEFINE event == Head(bus)
           id    == event.exec
           ex    == [execs[id] EXCEPT !.executable = @ \cup event.chains]
           wakes == /\ ex.swap /\ ex.hid # None
                    /\ ~(event.chains \subseteq execs[id].executable)
                    /\ \E i \in DOMAIN ex.tx : /\ ex.tx[i] \in {"pending", "blocked"}
                                               /\ ex.chains[i] \in ex.executable
           w     == IF wakes THEN Shown(Histories, ex.hid) ELSE Histories
<1>1. /\ event \in EventRecord /\ Tail(bus) \in Seq(EventRecord) /\ bus' = Tail(bus)
  BY HeadAndTail DEF HandleEvent, Typed
<1>2. id \in Executions /\ event.chains \subseteq Chains
  BY <1>1 DEF EventRecord
<1>3. UNCHANGED <<known, loop, subscribed, kills, sent, missed>> /\ recent' \in SUBSET Executions
  BY DEF HandleEvent, Typed
<1>4. \/ UNCHANGED <<hists, hseq, tracker, execs>>
      \/ execs' = [execs EXCEPT ![id] = ex] /\ HistoriesBecome(w)
  BY DEF HandleEvent, historyVars
<1>5. Flagged(Histories, w) /\ HistoriesOK(hists, hseq, tracker)
  BY HistoriesWOK, FlaggedSelf, FlagsChange DEF Typed
<1> HIDE DEF w, event
<1>6. HistoriesOK(hists', hseq', tracker')
  BY <1>4, <1>5 DEF HistoriesBecome, Flagged, WOK
<1>7. ExecOK(ex)
  <2>1. ExecOK(execs[id])
    BY <1>2 DEF Typed
  <2> DEFINE chains == execs[id].executable \cup event.chains
             e == execs[id]
  <2>2. chains \in SUBSET Chains
    BY <1>2, <2>1 DEF ExecOK, ExecutionRecord
  <2>3. ex = [e EXCEPT !.executable = chains]
    BY <2>1 DEF ExecOK, ExecutionRecord
  <2> HIDE DEF e, chains, ex
  <2> QED BY <2>1, <2>2, <2>3 DEF ExecOK, ExecutionRecord, e
<1> HIDE DEF ex
<1>8. (execs = [d \in Executions |-> execs[d]])' /\ \A d \in Executions : ExecOK(execs[d])'
  <2>1. CASE execs' = execs
    BY <2>1 DEF Typed, ExecOK
  <2>2. CASE execs' = [execs EXCEPT ![id] = ex]
    <3>1. (execs = [d \in Executions |-> execs[d]])'
      BY <2>2 DEF Typed
    <3>2. ASSUME NEW d \in Executions PROVE ExecOK(execs[d])'
      <4>1. execs'[d] = IF d = id THEN ex ELSE execs[d]
        BY <2>2 DEF Typed
      <4> QED BY <1>7, <4>1 DEF Typed, ExecOK
    <3> QED BY <3>1, <3>2
  <2> QED BY <1>4, <2>1, <2>2
<1>9. HistoriesOK(hists, hseq, tracker)'
  BY <1>6
<1> QED BY <1>1, <1>3, <1>8, <1>9 DEF Typed

\* The executions that are not there have their types.
LEMMA NoExecutionOK ==
  ASSUME NEW status \in {"unused", "gone"}
  PROVE  LET ex == NoExecution(status) IN ExecOK(ex) /\ ex.hid = None /\ ex.status = status
<1> DEFINE ex == NoExecution(status)
<1>1. /\ ex.status = status /\ ex.chains = <<>> /\ ex.tx = <<>> /\ ex.signed = {}
      /\ ex.executable = {} /\ ex.prevent = FALSE /\ ex.swap = FALSE /\ ex.route = <<>>
      /\ ex.hid = None
  BY DEF NoExecution
<1>2. ex = [status |-> ex.status, chains |-> ex.chains, tx |-> ex.tx, signed |-> ex.signed,
            executable |-> ex.executable, prevent |-> ex.prevent, swap |-> ex.swap,
            route |-> ex.route, hid |-> ex.hid]
  BY DEF NoExecution
<1> HIDE DEF ex
<1>3. ex.chains \in Seq(Chains) /\ ex.route \in Seq(Chains) /\ ex.tx \in Seq(TxStatuses)
  BY <1>1
<1>4. ex.status \in {"unused", "pending", "processing", "blocked", "gone"}
  BY <1>1
<1>5. ex.signed \in SUBSET (1..MaxTxs) /\ ex.executable \in SUBSET Chains
  BY <1>1
<1>6. ex.prevent \in BOOLEAN /\ ex.swap \in BOOLEAN /\ ex.hid \in HistoryIds \cup {None}
  BY <1>1
<1>7. ex \in ExecutionRecord
  BY <1>2, <1>3, <1>4, <1>5, <1>6 DEF ExecutionRecord, TxStatuses
<1>8. Len(ex.tx) <= MaxTxs
  <2>1. Len(ex.tx) = 0
    BY <1>1
  <2> QED BY <2>1, MaxTxsIsMax
<1> QED BY <1>1, <1>7, <1>8 DEF ExecOK, ex

\* An end of the worker keeps the types.
LEMMA KillKeepsTypes == ASSUME Typed, Kill PROVE Typed'
<1>1. /\ UNCHANGED <<hists, hseq, known, sent>> /\ bus' = <<>> /\ subscribed' = FALSE
      /\ kills < MaxKills /\ kills' = kills + 1
      /\ recent' \subseteq recent
      /\ execs' = [id \in Executions |-> IF id \in recent' \/ execs[id].status = "unused" THEN execs[id]
                                         ELSE NoExecution("gone")]
      /\ loop' = [id \in Executions |-> Idle]
      /\ tracker' = [h \in HistoryIds |-> IF h \in DOMAIN hists THEN "fulfil" ELSE "off"]
      /\ missed' = missed \cup {bus[k].exec : k \in DOMAIN bus}
  BY DEF Kill
<1>2. ExecOK(NoExecution("gone"))
  BY NoExecutionOK
<1>3. (execs = [d \in Executions |-> execs[d]])'
  BY <1>1
<1>4. ASSUME NEW d \in Executions PROVE ExecOK(execs[d])'
  <2>1. execs'[d] = execs[d] \/ execs'[d] = NoExecution("gone")
    BY <1>1
  <2> HIDE DEF NoExecution
  <2> QED BY <1>2, <2>1 DEF Typed, ExecOK
<1>5. missed' \in SUBSET Executions
  <2>1. \A k \in DOMAIN bus : bus[k] \in EventRecord
    BY DEF Typed
  <2> QED BY <1>1, <2>1 DEF Typed, EventRecord
<1>6. kills' \in 0..MaxKills
  BY <1>1, PlansAssumption DEF Typed
<1>7. HistoriesOK(hists, hseq, tracker)'
  BY <1>1 DEF Typed, HistoriesOK, TrackerStates
<1>8. loop' \in [Executions -> LoopRecord]
  BY <1>1, IdleOK
<1>9. bus' \in Seq(EventRecord) /\ recent' \in SUBSET Executions /\ subscribed' \in BOOLEAN
  <2>1. bus' = <<>> /\ recent' \subseteq recent /\ subscribed' = FALSE
    BY <1>1
  <2>2. recent \in SUBSET Executions /\ <<>> \in Seq(EventRecord)
    BY DEF Typed
  <2> QED BY <2>1, <2>2
<1>10. UNCHANGED <<known, sent>>
  BY <1>1
<1> QED BY <1>10, <1>3, <1>4, <1>5, <1>6, <1>7, <1>8, <1>9 DEF Typed

\* At first there is nothing to link.
LEMMA InitLInv == Init => LInv
<1> SUFFICES ASSUME Init PROVE LInv
  OBVIOUS
<1>1. IInv
  BY InitIInv
<1>2. /\ hists = <<>> /\ hseq = 0 /\ tracker = [h \in HistoryIds |-> "off"] /\ bus = <<>>
      /\ known = Chains /\ execs = [id \in Executions |-> NoExecution("unused")]
      /\ recent = {} /\ loop = [id \in Executions |-> Idle] /\ subscribed = TRUE /\ kills = 0
      /\ sent = [id \in Executions |-> [i \in 1..MaxTxs |-> 0]] /\ missed = {}
  BY DEF Init, HistoryInit
<1>3. DOMAIN hists = {}
  BY <1>2
<1>4. HistoriesOK(hists, hseq, tracker)
  BY <1>2, <1>3, HistoryAssumption DEF HistoriesOK, TrackerStates
<1>5. ExecOK(NoExecution("unused")) /\ NoExecution("unused").hid = None
  BY NoExecutionOK
<1>6. \A id \in Executions : ExecOK(execs[id]) /\ execs[id].hid = None
  <2> HIDE DEF NoExecution
  <2> QED BY <1>2, <1>5
<1>7. /\ bus \in Seq(EventRecord) /\ loop \in [Executions -> LoopRecord]
      /\ sent \in [Executions -> [1..MaxTxs -> Nat]] /\ kills \in 0..MaxKills
  BY <1>2, IdleOK, PlansAssumption
<1>8. Typed
  BY <1>2, <1>4, <1>6, <1>7 DEF Typed
<1>9. Links
  BY <1>2, <1>3, <1>6 DEF Links, Names, Owned, Linked
<1> QED BY <1>1, <1>8, <1>9 DEF LInv

\* Every step keeps the types and the links, given the invariant of the executions.
LEMMA StepLInv == LInv /\ [Next]_vars => LInv'
<1> SUFFICES ASSUME LInv, [Next]_vars PROVE LInv'
  OBVIOUS
<1>0. IInv /\ Typed /\ Links /\ IInv'
  BY StepIInv DEF LInv
<1> SUFFICES Typed' /\ Links'
  BY <1>0 DEF LInv
<1>1. ASSUME NEW id \in Executions, NEW plan \in Plans, RecordAndExecuteTxs(id, plan)
      PROVE  Typed' /\ Links'
  <2> DEFINE ex == NewExecution(plan)
  <2>0. PICK fin : \E done \in BOOLEAN, l \in LoopRecord :
            /\ Runs(id, ex, fin, done) /\ loop' = [loop EXCEPT ![id] = l]
            /\ recent' = IF done THEN (recent \cup {id}) \ {id} ELSE recent \cup {id}
    BY <1>0, <1>1, RecordRuns
  <2>1. PICK done \in BOOLEAN, l \in LoopRecord :
            /\ Runs(id, ex, fin, done) /\ loop' = [loop EXCEPT ![id] = l]
            /\ recent' = IF done THEN (recent \cup {id}) \ {id} ELSE recent \cup {id}
    BY <2>0
  <2>2. /\ UNCHANGED <<bus, known, subscribed, kills, sent, missed>>
        /\ execs[id].status = "unused" /\ ex.hid = None
    BY <1>1, NewExecutionOK DEF RecordAndExecuteTxs
  <2> HIDE DEF ex
  <2>3. recent' \subseteq recent \cup {id} /\ (done => id \notin recent')
    BY <2>1
  <2> QED BY <1>0, <2>1, <2>2, <2>3, RunsKeepTypes, RunsKeepLinks
<1>2. ASSUME NEW id \in Executions, NEW ex, NEW fin, NEW done \in BOOLEAN, NEW l \in LoopRecord,
             execs[id].status \notin {"unused", "gone"}, SameSwap(ex, execs[id]),
             Runs(id, ex, fin, done), loop' = [loop EXCEPT ![id] = l],
             recent' \subseteq recent, done => id \notin recent',
             UNCHANGED <<bus, known, subscribed, kills, sent, missed>>
      PROVE  Typed' /\ Links'
  <2>1. recent' \subseteq recent \cup {id}
    BY <1>2
  <2> QED BY <1>0, <1>2, <2>1, RunsKeepTypes, RunsKeepLinks
<1>3. ASSUME NEW id \in Executions, NEW tracked \in BOOLEAN, NEW i \in 1..MaxTxs,
             ResumeTx(id, i, tracked)
      PROVE  Typed' /\ Links'
  <2>0. PICK fin : \E done \in BOOLEAN, l \in LoopRecord :
            /\ Runs(id, execs[id], fin, done) /\ loop' = [loop EXCEPT ![id] = l]
            /\ recent' = IF done THEN recent \ {id} ELSE recent
    BY <1>0, <1>3, ResumeRuns
  <2>1. PICK done \in BOOLEAN, l \in LoopRecord :
            /\ Runs(id, execs[id], fin, done) /\ loop' = [loop EXCEPT ![id] = l]
            /\ recent' = IF done THEN recent \ {id} ELSE recent
    BY <2>0
  <2>2. /\ execs[id].status = "blocked"
        /\ UNCHANGED <<bus, known, subscribed, kills, sent, missed>>
    BY <1>3 DEF ResumeTx
  <2>3. SameSwap(execs[id], execs[id])
    BY DEF SameSwap
  <2>4. recent' \subseteq recent /\ (done => id \notin recent')
    BY <2>1
  <2> QED BY <1>2, <2>1, <2>2, <2>3, <2>4
<1>4. ASSUME NEW id \in Executions, NEW tracked \in BOOLEAN, TraceConfirms(id, tracked)
      PROVE  Typed' /\ Links'
  <2>0. PICK ex, fin : \E done \in BOOLEAN, l \in LoopRecord :
            /\ SameSwap(ex, execs[id])
            /\ Runs(id, ex, fin, done) /\ loop' = [loop EXCEPT ![id] = l]
            /\ recent' = IF done THEN recent \ {id} ELSE recent
    BY <1>0, <1>4, TraceRuns
  <2>1. PICK done \in BOOLEAN, l \in LoopRecord :
            /\ SameSwap(ex, execs[id])
            /\ Runs(id, ex, fin, done) /\ loop' = [loop EXCEPT ![id] = l]
            /\ recent' = IF done THEN recent \ {id} ELSE recent
    BY <2>0
  <2>2. /\ execs[id].status = "processing"
        /\ UNCHANGED <<bus, known, subscribed, kills, sent, missed>>
    BY <1>0, <1>4 DEF TraceConfirms, AwaitsResult, IInv, LoopOK
  <2>3. recent' \subseteq recent /\ (done => id \notin recent')
    BY <2>1
  <2> QED BY <1>2, <2>1, <2>2, <2>3
<1>5. ASSUME NEW id \in Executions, TxFails(id) PROVE Typed' /\ Links'
  <2>1. /\ \E fin : Runs(id, execs[id], fin, FALSE)
        /\ loop' = [loop EXCEPT ![id] = Idle] /\ recent' = recent \ {id}
    BY <1>0, <1>5, FailRuns
  <2>2. /\ execs[id].status = "processing"
        /\ UNCHANGED <<bus, known, subscribed, kills, sent, missed>>
    BY <1>0, <1>5 DEF TxFails, AwaitsResult, IInv, LoopOK
  <2>3. SameSwap(execs[id], execs[id]) /\ FALSE \in BOOLEAN
    BY DEF SameSwap
  <2> QED BY <1>2, <2>1, <2>2, <2>3, IdleOK
<1>6. ASSUME NEW id \in Executions, SignSucceeds(id) \/ BroadcastSucceeds(id)
      PROVE  Typed' /\ Links'
  BY <1>0, <1>6, WaitKeeps
<1>7. CASE HandleEvent
  BY <1>0, <1>7, EventKeepsTypes, EventKeepsLinks
<1>8. CASE Kill
  BY <1>0, <1>8, KillKeepsTypes, KillKeepsLinks
<1>9. ASSUME UNCHANGED <<hists, hseq, tracker, bus, known, execs, recent, loop, kills, sent, missed>>,
             subscribed' \in BOOLEAN
      PROVE  Typed' /\ Links'
  <2>1. Links'
    BY <1>0, <1>9, LinksStay
  <2>2. HistoriesOK(hists, hseq, tracker)' /\ \A id \in Executions : ExecOK(execs[id])'
    BY <1>0, <1>9 DEF Typed, ExecOK
  <2> QED BY <1>0, <1>9, <2>1, <2>2 DEF Typed
<1>10. CASE Subscribe
  BY <1>9, <1>10 DEF Subscribe, historyVars
<1>11. CASE UNCHANGED vars
  BY <1>0, <1>9, <1>11 DEF vars, historyVars, Typed
<1>12. CASE HistoryStep /\ UNCHANGED <<execs, recent, loop, subscribed, kills, sent, missed>>
  <2>1. Links'
    BY <1>0, <1>12, HistoryKeepsLinks
  <2>2. HistoriesOK(hists', hseq', tracker') /\ bus' \in Seq(EventRecord) /\ known' \subseteq Chains
    BY <1>0, <1>12, HistoriesStayOK DEF Typed
  <2>3. HistoriesOK(hists, hseq, tracker)' /\ \A id \in Executions : ExecOK(execs[id])'
    BY <1>0, <1>12, <2>2 DEF Typed, ExecOK
  <2> QED BY <1>0, <1>12, <2>1, <2>2, <2>3 DEF Typed
<1> QED BY <1>1, <1>3, <1>4, <1>5, <1>6, <1>7, <1>8, <1>10, <1>11, <1>12 DEF Next

\* The invariant the theorems below follow from.
LEMMA AlwaysLInv == Spec => []LInv
BY InitLInv, StepLInv, PTL DEF Spec

\* The state always has its types: what the histories, the executions and the bus hold
\* is what the code keeps there.
THEOREM TypeCorrect == Spec => []TypeOK
<1>1. LInv => TypeOK
  <2> SUFFICES ASSUME Typed PROVE TypeOK
    BY DEF LInv
  <2>1. HistoryTypeOK
    BY DEF Typed, HistoriesOK, HistOK, HistoryTypeOK, TrackerStates
  <2>2. execs \in [Executions -> ExecutionRecord]
    BY DEF Typed, ExecOK
  <2> QED BY <2>1, <2>2 DEF Typed, TypeOK, LoopRecord
<1> QED BY AlwaysLInv, <1>1, PTL

\* No wake-up is lost but by an end of the worker before the executor listens.
THEOREM HearsOfChains == Spec => []NoLostWakeup
<1>1. LInv => NoLostWakeup
  BY DEF LInv, Links, Hears, Told, NoLostWakeup
<1> QED BY AlwaysLInv, <1>1, PTL

\* A blocked swap is found from its history, until a removal is read or a chain goes.
THEOREM BlockedAreFound == Spec => []BlockedIsFound
<1>1. LInv => BlockedIsFound
  BY DEF LInv, Links, Linked, BlockedIsFound
<1> QED BY AlwaysLInv, <1>1, PTL

\* A history names no execution that has nothing left to do.
THEOREM CompletedAreCleared == Spec => []CompletedIsCleared
<1>1. LInv => CompletedIsCleared
  BY DEF LInv, Links, Names, CompletedIsCleared
<1> QED BY AlwaysLInv, <1>1, PTL
=============================================================================
