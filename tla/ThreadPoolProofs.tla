-------------------------- MODULE ThreadPoolProofs --------------------------
(***************************************************************************)
(* No task of a ThreadPool ever runs, for any number of workers and        *)
(* callers: a worker leaves its loop test only when its local tail exceeds *)
(* head_, and tail_ starts at 0 and moves only behind that test.           *)
(***************************************************************************)
EXTENDS ThreadPool, FiniteSetTheorems, TLAPS

\* No worker ever gets past the test of ThreadPool.cpp:26: no task is taken or
\* run, whatever is enqueued and however the threads interleave.
NoTaskRuns ==
  /\ ran = {}
  /\ tail = 0
  /\ \A i \in Slots : ~taken[i]

\* The inductive invariant: the program points that workers reach, with the
\* local tail they reach them with.
IdlePoints == {"top", "loadTail", "testWork", "idleTurn", "returned"}

WorkersIdle ==
  /\ wpc \in [Workers -> IdlePoints]
  /\ \A w \in Workers : wtail[w] = 0

\* A caller inside enqueue carries a task.
CallersCarry == \A c \in Callers : cpc[c] # "idle" => cloc[c].task \in Tasks

IInv == TypeOK /\ WorkersIdle /\ CallersCarry /\ NoTaskRuns
-----------------------------------------------------------------------------
\* A task number handed to a caller is one of Tasks.
LEMMA NextTask ==
  ASSUME calls \in 0..MaxCalls, calls < MaxCalls
  PROVE  calls + 1 \in Tasks /\ calls + 1 \in 0..MaxCalls
BY PoolAssumption DEF Tasks

\* A ring index is a slot.
LEMMA HeadSlot == \A h \in Nat : h % MaxTasks \in Slots
BY PoolAssumption DEF Slots

\* A fresh pool satisfies the invariant.
LEMMA InitIInv == PoolInit => IInv
<1> SUFFICES ASSUME PoolInit PROVE IInv
  OBVIOUS
<1>1. TypeOK
  <2>1. 0 \in 0..MaxCalls /\ {} \in SUBSET Tasks
    BY PoolAssumption
  <2>2. /\ taken \in [Slots -> BOOLEAN] /\ func \in [Slots -> Tasks \cup {NoTask}]
        /\ wtail \in [Workers -> Nat]
    BY DEF PoolInit
  <2>3. cloc \in [Callers -> [head : Nat, slot : Slots, task : Tasks \cup {NoTask}]]
    BY PoolAssumption DEF PoolInit, Slots
  <2> QED
    BY <2>1, <2>2, <2>3 DEF PoolInit, TypeOK
<1>2. WorkersIdle
  BY DEF PoolInit, WorkersIdle, IdlePoints
<1>3. NoTaskRuns
  BY DEF PoolInit, NoTaskRuns
<1>4. CallersCarry
  BY DEF PoolInit, CallersCarry
<1> QED
  BY <1>1, <1>2, <1>3, <1>4 DEF IInv

\* A worker goes round its loop without getting past the test for work.
LEMMA WorkerIInv ==
  ASSUME IInv, NEW w \in Workers, Worker(w)
  PROVE  IInv'
<1> USE DEF IdlePoints
<1>1. wpc[w] \in IdlePoints \ {"returned"}
  BY DEF IInv, WorkersIdle, Worker
<1>c. CallersCarry'
  BY DEF IInv, CallersCarry, Worker
<1>2. ASSUME NEW to \in {"top", "loadTail"}, TestStop(w, to)
      PROVE  IInv'
  <2>1. wpc' \in [Workers -> IdlePoints]
    BY <1>2 DEF IInv, WorkersIdle, TestStop, WorkerGoto
  <2>2. TypeOK'
    BY <1>2, <2>1 DEF IInv, TypeOK, TestStop, memberVars, Worker
  <2> QED
    BY <1>c, <1>2, <2>1, <2>2 DEF IInv, WorkersIdle, NoTaskRuns, TestStop, memberVars
<1>3. CASE wpc[w] = "top"
  BY <1>2, <1>3 DEF Worker
<1>4. CASE wpc[w] = "loadTail"
  <2>1. LoadTail(w)
    BY <1>4 DEF Worker
  <2>2. wpc' \in [Workers -> IdlePoints]
    BY <2>1 DEF IInv, WorkersIdle, LoadTail, WorkerGoto
  <2>3. \A v \in Workers : wtail'[v] = 0
    BY <2>1 DEF IInv, TypeOK, WorkersIdle, NoTaskRuns, LoadTail
  <2>4. wtail' \in [Workers -> Nat]
    BY <2>1 DEF IInv, TypeOK, LoadTail
  <2>5. TypeOK'
    BY <2>1, <2>2, <2>4 DEF IInv, TypeOK, LoadTail, memberVars, Worker
  <2> QED
    BY <1>c, <2>1, <2>2, <2>3, <2>5 DEF IInv, WorkersIdle, NoTaskRuns, LoadTail, memberVars
<1>5. CASE wpc[w] = "testWork"
  <2>1. TestWork(w)
    BY <1>5 DEF Worker
  <2>2. NoWork(w)
    BY DEF IInv, TypeOK, WorkersIdle, NoWork
  <2>3. wpc' \in [Workers -> IdlePoints]
    BY <2>1, <2>2 DEF IInv, WorkersIdle, TestWork, WorkerGoto
  <2>4. TypeOK'
    BY <2>1, <2>3 DEF IInv, TypeOK, TestWork, memberVars, Worker
  <2> QED
    BY <1>c, <2>1, <2>3, <2>4 DEF IInv, WorkersIdle, NoTaskRuns, TestWork, memberVars
<1>6. CASE wpc[w] = "idleTurn"
  BY <1>2, <1>6 DEF Worker
<1> QED
  BY <1>1, <1>3, <1>4, <1>5, <1>6

\* An enqueue writes tasks_, head_ and task_count_, and clears taken.
LEMMA EnqueueIInv ==
  ASSUME IInv, NEW c \in Callers, Enqueue(c) \/ EnqueueStep(c)
  PROVE  IInv'
<1>0. TypeOK /\ WorkersIdle /\ CallersCarry /\ NoTaskRuns
  BY DEF IInv
<1>1. CASE Enqueue(c)
  <2>1. calls' \in 0..MaxCalls /\ calls + 1 \in Tasks
    BY <1>0, <1>1, NextTask DEF Enqueue, TypeOK
  <2>2. cloc' \in [Callers -> [head : Nat, slot : Slots, task : Tasks \cup {NoTask}]]
    BY <1>0, <1>1, <2>1 DEF Enqueue, TypeOK
  <2>3. TypeOK'
    BY <1>0, <1>1, <2>1, <2>2 DEF Enqueue, TypeOK, CallerGoto, memberVars
  <2>c. CallersCarry'
    BY <1>0, <1>1, <2>1 DEF Enqueue, CallersCarry, CallerGoto, TypeOK
  <2> QED
    BY <1>0, <2>c, <1>1, <2>3 DEF Enqueue, IInv, WorkersIdle, NoTaskRuns, memberVars
<1>2. CASE EnqueueLoadHead(c)
  <2>1. cloc' \in [Callers -> [head : Nat, slot : Slots, task : Tasks \cup {NoTask}]]
    BY <1>0, <1>2, HeadSlot DEF EnqueueLoadHead, TypeOK
  <2>2. TypeOK'
    BY <1>0, <1>2, <2>1 DEF EnqueueLoadHead, TypeOK, CallerGoto, memberVars
  <2>c. CallersCarry'
    BY <1>0, <1>2 DEF EnqueueLoadHead, CallersCarry, CallerGoto, TypeOK
  <2> QED
    BY <1>0, <2>c, <1>2, <2>2 DEF EnqueueLoadHead, IInv, WorkersIdle, NoTaskRuns, memberVars
<1>3. CASE EnqueueRefuse(c)
  <2>1. TypeOK'
    BY <1>0, <1>3 DEF EnqueueRefuse, TypeOK, CallerGoto, memberVars
  <2>c. CallersCarry'
    BY <1>0, <1>3 DEF EnqueueRefuse, CallersCarry, CallerGoto, TypeOK
  <2> QED
    BY <1>0, <2>c, <1>3, <2>1 DEF EnqueueRefuse, IInv, WorkersIdle, NoTaskRuns, memberVars
<1>4. CASE EnqueueAdmit(c)
  <2>1. TypeOK'
    BY <1>0, <1>4 DEF EnqueueAdmit, TypeOK, CallerGoto, memberVars
  <2>c. CallersCarry'
    BY <1>0, <1>4 DEF EnqueueAdmit, CallersCarry, CallerGoto, TypeOK
  <2> QED
    BY <1>0, <2>c, <1>4, <2>1 DEF EnqueueAdmit, IInv, WorkersIdle, NoTaskRuns, memberVars
<1>5. CASE EnqueueWrite(c)
  <2>1. /\ cloc[c].slot \in Slots /\ cloc[c].task \in Tasks \cup {NoTask}
        /\ ~taken[cloc[c].slot] /\ cpc[c] = "write"
    BY <1>0, <1>5 DEF TypeOK, NoTaskRuns, EnqueueWrite
  <2>2. /\ taken' \in [Slots -> BOOLEAN]
        /\ func' \in [Slots -> Tasks \cup {NoTask}]
    BY <1>0, <1>5, <2>1 DEF EnqueueWrite, TypeOK
  <2>3. TypeOK'
    BY <1>0, <1>5, <2>1, <2>2 DEF EnqueueWrite, TypeOK
  <2>4. \A i \in Slots : ~taken'[i]
    BY <1>0, <1>5, <2>1 DEF EnqueueWrite, NoTaskRuns, TypeOK
  <2>c. CallersCarry'
    BY <1>0, <1>5, <2>1 DEF EnqueueWrite, CallersCarry, TypeOK
  <2> QED
    BY <1>0, <2>c, <1>5, <2>1, <2>3, <2>4 DEF EnqueueWrite, IInv, WorkersIdle, NoTaskRuns
<1>6. CASE EnqueueStoreHead(c)
  <2>1. head' \in Nat
    BY <1>0, <1>6 DEF EnqueueStoreHead, TypeOK
  <2>2. TypeOK'
    BY <1>0, <1>6, <2>1 DEF EnqueueStoreHead, TypeOK, CallerGoto
  <2>c. CallersCarry'
    BY <1>0, <1>6 DEF EnqueueStoreHead, CallersCarry, CallerGoto, TypeOK
  <2> QED
    BY <1>0, <2>c, <1>6, <2>2 DEF EnqueueStoreHead, IInv, WorkersIdle, NoTaskRuns
<1>7. CASE EnqueueCount(c)
  <2>1. cloc[c].task \in Tasks
    BY <1>0, <1>7 DEF CallersCarry, EnqueueCount, CallerGoto
  <2>2. taskCount' \in Nat /\ accepted' \in SUBSET Tasks
    BY <1>0, <1>7, <2>1 DEF EnqueueCount, TypeOK
  <2>3. TypeOK'
    BY <1>0, <1>7, <2>2 DEF EnqueueCount, TypeOK, CallerGoto
  <2>c. CallersCarry'
    BY <1>0, <1>7 DEF EnqueueCount, CallersCarry, CallerGoto, TypeOK
  <2> QED
    BY <1>0, <2>c, <1>7, <2>3 DEF EnqueueCount, IInv, WorkersIdle, NoTaskRuns
<1> QED
  BY <1>1, <1>2, <1>3, <1>4, <1>5, <1>6, <1>7 DEF EnqueueStep

\* The owner writes stop_ only.
LEMMA OwnerIInv ==
  ASSUME IInv, WaitAll \/ WaitAllReturn \/ Destroy \/ JoinWorkers
  PROVE  IInv'
<1>1. TypeOK'
  BY DEF IInv, TypeOK, WaitAll, WaitAllReturn, Destroy, JoinWorkers, OwnerGoto, memberVars
<1> QED
  BY <1>1 DEF IInv, WorkersIdle, CallersCarry, NoTaskRuns, WaitAll, WaitAllReturn, Destroy,
              JoinWorkers, OwnerGoto, memberVars

\* The invariant holds throughout.
THEOREM Invariance == PoolSpec => []IInv
<1>1. IInv /\ [PoolNext]_poolVars => IInv'
  <2> SUFFICES ASSUME IInv, [PoolNext]_poolVars PROVE IInv'
    OBVIOUS
  <2>1. CASE UNCHANGED poolVars
    BY <2>1 DEF IInv, TypeOK, WorkersIdle, CallersCarry, NoTaskRuns, poolVars
  <2>2. CASE PoolNext
    BY <2>2, WorkerIInv, EnqueueIInv, OwnerIInv DEF PoolNext
  <2> QED
    BY <2>1, <2>2
<1> QED
  BY InitIInv, <1>1, PTL DEF PoolSpec

\* The pool's variables keep their types: in particular task_count_ does not
\* wrap below zero, and a ring index stays within tasks_.
THEOREM PoolTypeCorrect == PoolSpec => []TypeOK
<1>1. IInv => TypeOK
  BY DEF IInv
<1> QED
  BY Invariance, <1>1, PTL

\* ThreadPool.cpp:26 keeps every worker from every task.
THEOREM TasksNeverRun == PoolSpec => []NoTaskRuns
<1>1. IInv => NoTaskRuns
  BY DEF IInv
<1> QED
  BY Invariance, <1>1, PTL
-----------------------------------------------------------------------------
(***************************************************************************)
(* task_count_ and MAX_TASKS                                               *)
(***************************************************************************)
\* Callers between the test of task_count_ and its increment: each of them may
\* still add a task to what was below the limit when it looked.
Admitted == {c \in Callers : cpc[c] \in {"write", "storeHead", "count"}}

\* The tasks on their way are new and different, so that each is counted once.
TasksDiffer ==
  /\ \A t \in accepted : t <= calls
  /\ \A c \in Callers : cpc[c] # "idle" => cloc[c].task <= calls /\ cloc[c].task \notin accepted
  /\ \A c, d \in Callers :
       c # d /\ cpc[c] # "idle" /\ cpc[d] # "idle" => cloc[c].task # cloc[d].task

\* The last caller admitted saw a free place and at most all callers at once.
Room == taskCount + Cardinality(Admitted) <= MaxTasks + Cardinality(Callers) - 1

CountInv ==
  /\ TasksDiffer
  /\ IsFiniteSet(accepted)
  /\ taskCount = Cardinality(accepted)
  /\ Room

LEMMA AdmittedFinite ==
  /\ IsFiniteSet(Admitted) /\ Cardinality(Admitted) \in Nat
  /\ IsFiniteSet(Callers) /\ Cardinality(Callers) \in Nat
  /\ Cardinality(Admitted) <= Cardinality(Callers)
<1>1. IsFiniteSet(Callers) /\ Admitted \subseteq Callers
  BY PoolAssumption DEF Admitted
<1>2. IsFiniteSet(Admitted) /\ Cardinality(Admitted) <= Cardinality(Callers)
  BY <1>1, FS_Subset
<1>3. Cardinality(Admitted) \in Nat
  BY <1>2, FS_CardinalityType
<1>4. Cardinality(Callers) \in Nat
  BY <1>1, FS_CardinalityType
<1> QED
  BY <1>1, <1>2, <1>3, <1>4

LEMMA InitCountInv == PoolInit => CountInv
<1> SUFFICES ASSUME PoolInit PROVE CountInv
  OBVIOUS
<1>1. TasksDiffer
  BY DEF PoolInit, TasksDiffer
<1>2. IsFiniteSet(accepted) /\ Cardinality(accepted) = 0
  BY FS_EmptySet DEF PoolInit
<1>3. Cardinality(Admitted) = 0
  <2>1. Admitted = {}
    BY DEF PoolInit, Admitted
  <2> QED
    BY <2>1, FS_EmptySet
<1>4. Room
  BY <1>3, AdmittedFinite, PoolAssumption DEF PoolInit, Room
<1> QED
  BY <1>1, <1>2, <1>4 DEF PoolInit, CountInv

\* What a caller's step does not touch keeps the count.
LEMMA CountUnchanged ==
  ASSUME CountInv, Admitted' = Admitted, TasksDiffer', UNCHANGED <<taskCount, accepted>>
  PROVE  CountInv'
BY DEF CountInv, Room

\* Workers never get to the decrement.
LEMMA WorkerCount ==
  ASSUME IInv, CountInv, NEW w \in Workers, Worker(w)
  PROVE  CountInv'
<1>1. wpc[w] \in {"top", "loadTail", "testWork", "idleTurn"}
  BY DEF IInv, WorkersIdle, IdlePoints, Worker
<1>2. UNCHANGED taskCount
  BY <1>1 DEF Worker, TestStop, LoadTail, TestWork, memberVars
<1>3. UNCHANGED <<cpc, cloc, calls, accepted>>
  BY DEF Worker
<1>4. Admitted' = Admitted /\ TasksDiffer'
  BY <1>3 DEF Admitted, TasksDiffer, CountInv
<1> QED
  BY <1>2, <1>3, <1>4, CountUnchanged

LEMMA CallerCount ==
  ASSUME IInv, CountInv, NEW c \in Callers, Enqueue(c) \/ EnqueueStep(c)
  PROVE  CountInv'
<1>0. /\ TypeOK /\ CallersCarry /\ TasksDiffer /\ Room /\ taskCount = Cardinality(accepted)
      /\ IsFiniteSet(accepted)
  BY DEF IInv, CountInv
<1>1. /\ calls \in Nat /\ taskCount \in Nat /\ MaxTasks \in Nat
      /\ \A d \in Callers : cloc[d].task \in Nat
      /\ \A t \in accepted : t \in Nat
  BY <1>0, PoolAssumption DEF TypeOK, Tasks, NoTask
<1>2. CASE Enqueue(c)
  <2>1. /\ cpc[c] = "idle" /\ cpc'[c] \in {"idle", "loadHead"} /\ calls' = calls + 1
        /\ cloc'[c].task = calls + 1
        /\ \A d \in Callers : d # c => cpc'[d] = cpc[d] /\ cloc'[d] = cloc[d]
        /\ UNCHANGED <<taskCount, accepted>>
    BY <1>0, <1>2 DEF Enqueue, CallerGoto, TypeOK, memberVars
  <2>2. Admitted' = Admitted
    BY <2>1 DEF Admitted
  <2>3. \A d \in Callers : d # c /\ cpc[d] # "idle" =>
          cloc[d].task <= calls /\ cloc[d].task \notin accepted /\ cloc[d].task # calls + 1
    BY <1>0, <1>1 DEF TasksDiffer
  <2>4. calls + 1 \notin accepted
    BY <1>0, <1>1 DEF TasksDiffer
  <2>5. TasksDiffer'
    BY <1>0, <1>1, <2>1, <2>3, <2>4 DEF TasksDiffer
  <2> QED
    BY <2>1, <2>2, <2>5, CountUnchanged
<1>3. ASSUME UNCHANGED <<calls, accepted>>, cpc[c] # "idle",
             \A d \in Callers : d # c => cpc'[d] = cpc[d],
             \A d \in Callers : cloc'[d].task = cloc[d].task
      PROVE  TasksDiffer'
  BY <1>0, <1>3 DEF TasksDiffer
<1>4. CASE EnqueueLoadHead(c)
  <2>1. /\ cpc[c] = "loadHead" /\ cpc'[c] = "testCount"
        /\ \A d \in Callers : d # c => cpc'[d] = cpc[d]
        /\ \A d \in Callers : cloc'[d].task = cloc[d].task
        /\ UNCHANGED <<calls, taskCount, accepted>>
    BY <1>0, <1>4 DEF EnqueueLoadHead, CallerGoto, TypeOK, memberVars
  <2>2. Admitted' = Admitted
    BY <2>1 DEF Admitted
  <2> QED
    BY <1>3, <2>1, <2>2, CountUnchanged
<1>5. CASE EnqueueRefuse(c) \/ EnqueueWrite(c) \/ EnqueueStoreHead(c)
  <2>1. /\ cpc[c] # "idle" /\ \A d \in Callers : d # c => cpc'[d] = cpc[d]
        /\ \/ cpc[c] = "testCount" /\ cpc'[c] = "idle"
           \/ cpc[c] = "write" /\ cpc'[c] = "storeHead"
           \/ cpc[c] = "storeHead" /\ cpc'[c] = "count"
        /\ UNCHANGED <<calls, taskCount, accepted, cloc>>
    <3>1. CASE EnqueueWrite(c)
      <4>1. cpc[c] = "write" /\ ~taken[cloc[c].slot]
        BY <1>0, <3>1 DEF EnqueueWrite, TypeOK, IInv, NoTaskRuns
      <4> QED
        BY <1>0, <3>1, <4>1 DEF EnqueueWrite, TypeOK
    <3>2. CASE EnqueueRefuse(c) \/ EnqueueStoreHead(c)
      BY <1>0, <3>2 DEF EnqueueRefuse, EnqueueStoreHead, CallerGoto, TypeOK, memberVars
    <3> QED
      BY <1>5, <3>1, <3>2
  <2>2. Admitted' = Admitted
    BY <2>1 DEF Admitted
  <2>3. TasksDiffer'
    BY <1>3, <2>1
  <2> QED
    BY <2>1, <2>2, <2>3, CountUnchanged
<1>6. CASE EnqueueAdmit(c)
  <2>1. /\ cpc[c] # "idle" /\ \A d \in Callers : d # c => cpc'[d] = cpc[d]
        /\ UNCHANGED <<calls, taskCount, accepted, cloc>> /\ ~(taskCount >= MaxTasks)
    BY <1>0, <1>6 DEF EnqueueAdmit, PoolFull, CallerGoto, TypeOK, memberVars
  <2>2. TasksDiffer'
    BY <1>3, <2>1
  <2>3. /\ Cardinality(Admitted)' \in Nat /\ Cardinality(Callers) \in Nat
        /\ Cardinality(Admitted)' <= Cardinality(Callers)
    <3>1. Admitted' \subseteq Callers /\ IsFiniteSet(Callers)
      BY PoolAssumption DEF Admitted
    <3>2. IsFiniteSet(Admitted') /\ Cardinality(Admitted') <= Cardinality(Callers)
      BY <3>1, FS_Subset
    <3>3. Cardinality(Admitted') \in Nat /\ Cardinality(Callers) \in Nat
      BY <3>1, <3>2, FS_CardinalityType
    <3> QED
      BY <3>2, <3>3
  <2>4. Room'
    <3>1. taskCount' = taskCount
      BY <2>1
    <3> QED
      BY <1>1, <2>1, <2>3, <3>1 DEF Room
  <2> QED
    BY <1>0, <2>1, <2>2, <2>4 DEF CountInv
<1>7. CASE EnqueueCount(c)
  <2>1. /\ cpc[c] = "count" /\ cpc'[c] = "idle"
        /\ \A d \in Callers : d # c => cpc'[d] = cpc[d]
        /\ UNCHANGED <<calls, cloc>> /\ taskCount' = taskCount + 1
        /\ accepted' = accepted \cup {cloc[c].task}
    BY <1>0, <1>7 DEF EnqueueCount, CallerGoto, TypeOK
  <2>2. cloc[c].task \notin accepted /\ cloc[c].task <= calls
    BY <1>0, <2>1 DEF TasksDiffer
  <2>3. IsFiniteSet(accepted') /\ Cardinality(accepted') = Cardinality(accepted) + 1
    BY <1>0, <2>1, <2>2, FS_AddElement
  <2>4. TasksDiffer'
    BY <1>0, <2>1, <2>2 DEF TasksDiffer
  <2>5. Admitted' = Admitted \ {c} /\ c \in Admitted
    BY <2>1 DEF Admitted
  <2>6. Cardinality(Admitted') = Cardinality(Admitted) - 1
    BY <2>5, AdmittedFinite, FS_RemoveElement
  <2>7. Room'
    <3>1. Cardinality(Admitted)' = Cardinality(Admitted) - 1
      BY <2>6
    <3> QED
      BY <1>0, <1>1, <2>1, <3>1, AdmittedFinite DEF Room
  <2>8. taskCount' = Cardinality(accepted')
    BY <1>0, <2>1, <2>3
  <2> QED
    BY <2>3, <2>4, <2>7, <2>8 DEF CountInv
<1> QED
  BY <1>2, <1>4, <1>5, <1>6, <1>7 DEF EnqueueStep

\* The owner counts nothing.
LEMMA OwnerCount ==
  ASSUME CountInv, WaitAll \/ WaitAllReturn \/ Destroy \/ JoinWorkers
  PROVE  CountInv'
<1>1. UNCHANGED <<cpc, cloc, calls, accepted, taskCount>>
  BY DEF WaitAll, WaitAllReturn, Destroy, JoinWorkers, memberVars
<1>2. Admitted' = Admitted /\ TasksDiffer'
  BY <1>1 DEF Admitted, TasksDiffer, CountInv
<1> QED
  BY <1>1, <1>2, CountUnchanged

\* task_count_ is the number of accepted tasks; callers that are past the test of
\* ThreadPool.h:50 together exceed MAX_TASKS by one each but the first.
THEOREM CountsAccepted == PoolSpec => []CountIsAccepted
<1>1. IInv /\ CountInv /\ [PoolNext]_poolVars => CountInv'
  <2> SUFFICES ASSUME IInv, CountInv, [PoolNext]_poolVars PROVE CountInv'
    OBVIOUS
  <2>1. CASE UNCHANGED poolVars
    <3>1. UNCHANGED <<cpc, cloc, calls, accepted, taskCount>>
      BY <2>1 DEF poolVars
    <3>2. Admitted' = Admitted /\ TasksDiffer'
      BY <3>1 DEF Admitted, TasksDiffer, CountInv
    <3> QED
      BY <3>1, <3>2, CountUnchanged
  <2>2. CASE PoolNext
    BY <2>2, WorkerCount, CallerCount, OwnerCount DEF PoolNext
  <2> QED
    BY <2>1, <2>2
<1>2. IInv /\ CountInv => CountIsAccepted
  <2> SUFFICES ASSUME IInv, CountInv PROVE CountIsAccepted
    OBVIOUS
  <2>1. taskCount \in Nat /\ MaxTasks \in Nat
    BY PoolAssumption DEF IInv, TypeOK
  <2> QED
    BY <2>1, AdmittedFinite DEF CountInv, Room, CountIsAccepted
<1> QED
  BY InitCountInv, Invariance, <1>1, <1>2, PTL DEF PoolSpec
=============================================================================
