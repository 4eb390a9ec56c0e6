----------------------------- MODULE ThreadPool -----------------------------
(***************************************************************************)
(* ThreadPool (include/ThreadPool.h, src/ThreadPool.cpp): any number of    *)
(* threads call enqueue, workers take tasks out of a ring, the owner waits *)
(* for the tasks and destroys the pool.                                    *)
(*                                                                         *)
(* head_ is where enqueue puts the next task and tail_ where a worker      *)
(* takes the next one, so a worker has work when head > tail; the worker   *)
(* loop tests the opposite (ThreadPool.cpp:26).  The part of the loop      *)
(* behind that test is modelled all the same: a worker is one dispatch on  *)
(* its program counter, whichever of its points are reachable.             *)
(***************************************************************************)
EXTENDS Integers, FiniteSets

CONSTANTS
  Workers,     \* workers_
  Callers,     \* threads that call enqueue
  MaxTasks,    \* MAX_TASKS
  MaxCalls     \* bound: calls of enqueue in a behaviour

ASSUME PoolAssumption ==
  /\ IsFiniteSet(Callers)
  /\ MaxTasks \in Nat \ {0}
  /\ MaxCalls \in Nat

Slots == 0..(MaxTasks - 1)
Tasks == 1..MaxCalls
NoTask == 0

VARIABLES
  taken,      \* tasks_[i].taken
  func,       \* tasks_[i].func
  head, tail, \* head_, tail_
  taskCount,  \* task_count_
  stop,       \* stop_
  wpc, wtail, \* workers: program point, local tail
  cpc, cloc,  \* callers: program point; local head, slot (t) and task
  owner,      \* what the pool's owner is doing
  calls,      \* number of enqueue calls so far
  accepted,   \* history: tasks whose enqueue returned true
  ran         \* history: tasks that a worker has run

memberVars == <<taken, func, head, tail, taskCount, stop>>
poolVars == <<taken, func, head, tail, taskCount, stop, wpc, wtail, cpc, cloc, owner,
          calls, accepted, ran>>

PoolInit ==
  /\ taken = [i \in Slots |-> FALSE]
  /\ func = [i \in Slots |-> NoTask]
  /\ head = 0
  /\ tail = 0
  /\ taskCount = 0
  /\ stop = FALSE
  /\ wpc = [w \in Workers |-> "top"]
  /\ wtail = [w \in Workers |-> 0]
  /\ cpc = [c \in Callers |-> "idle"]
  /\ cloc = [c \in Callers |-> [head |-> 0, slot |-> 0, task |-> NoTask]]
  /\ owner = "using"
  /\ calls = 0
  /\ accepted = {}
  /\ ran = {}
-----------------------------------------------------------------------------
(***************************************************************************)
(* worker_thread                                                           *)
(***************************************************************************)
WorkerGoto(w, to) == wpc' = [wpc EXCEPT ![w] = to]

\* while (!stop_): also the second test of stop_ on an idle turn.
TestStop(w, to) ==
  /\ WorkerGoto(w, IF stop THEN "returned" ELSE to)
  /\ UNCHANGED <<memberVars, wtail, ran>>

LoadTail(w) ==
  /\ wtail' = [wtail EXCEPT ![w] = tail]
  /\ WorkerGoto(w, "testWork")
  /\ UNCHANGED <<memberVars, ran>>

\* The load of head_ and the test of line 26.
NoWork(w) == wtail[w] <= head

TestWork(w) ==
  /\ WorkerGoto(w, IF NoWork(w) THEN "idleTurn" ELSE "testTaken")
  /\ UNCHANGED <<memberVars, wtail, ran>>

WorkerSlot(w) == wtail[w] % MaxTasks

TestTaken(w) ==
  /\ WorkerGoto(w, IF taken[WorkerSlot(w)] THEN "top" ELSE "take")
  /\ UNCHANGED <<memberVars, wtail, ran>>

Take(w) ==
  /\ taken' = [taken EXCEPT ![WorkerSlot(w)] = TRUE]
  /\ WorkerGoto(w, "advance")
  /\ UNCHANGED <<func, head, tail, taskCount, stop, wtail, ran>>

Advance(w) ==
  /\ tail' = wtail[w] + 1
  /\ WorkerGoto(w, "run")
  /\ UNCHANGED <<taken, func, head, taskCount, stop, wtail, ran>>

Run(w) ==
  /\ ran' = ran \cup ({func[WorkerSlot(w)]} \ {NoTask})
  /\ WorkerGoto(w, "finish")
  /\ UNCHANGED <<memberVars, wtail>>

Finish(w) ==
  /\ taskCount' = taskCount - 1
  /\ WorkerGoto(w, "top")
  /\ UNCHANGED <<taken, func, head, tail, stop, wtail, ran>>

Worker(w) ==
  /\ wpc[w] # "returned"
  /\ CASE wpc[w] = "top" -> TestStop(w, "loadTail")
       [] wpc[w] = "loadTail" -> LoadTail(w)
       [] wpc[w] = "testWork" -> TestWork(w)
       [] wpc[w] = "idleTurn" -> TestStop(w, "top")
       [] wpc[w] = "testTaken" -> TestTaken(w)
       [] wpc[w] = "take" -> Take(w)
       [] wpc[w] = "advance" -> Advance(w)
       [] wpc[w] = "run" -> Run(w)
       [] wpc[w] = "finish" -> Finish(w)
  /\ UNCHANGED <<cpc, cloc, owner, calls, accepted>>
-----------------------------------------------------------------------------
(***************************************************************************)
(* enqueue                                                                 *)
(***************************************************************************)
CallerGoto(c, from, to) == cpc[c] = from /\ cpc' = [cpc EXCEPT ![c] = to]

Enqueue(c) ==
  /\ owner # "gone"
  /\ calls < MaxCalls
  /\ calls' = calls + 1
  /\ CallerGoto(c, "idle", IF stop THEN "idle" ELSE "loadHead")
  /\ cloc' = [cloc EXCEPT ![c].task = calls + 1]
  /\ UNCHANGED <<memberVars, wpc, wtail, owner, accepted, ran>>

EnqueueLoadHead(c) ==
  /\ CallerGoto(c, "loadHead", "testCount")
  /\ cloc' = [cloc EXCEPT ![c].head = head, ![c].slot = head % MaxTasks]
  /\ UNCHANGED <<memberVars, wpc, wtail, owner, calls, accepted, ran>>

\* Mutant: one task too many.
PoolOverFull == taskCount > MaxTasks

PoolFull == taskCount >= MaxTasks

EnqueueRefuse(c) ==
  /\ CallerGoto(c, "testCount", "idle")
  /\ PoolFull
  /\ UNCHANGED <<memberVars, wpc, wtail, cloc, owner, calls, accepted, ran>>

EnqueueAdmit(c) ==
  /\ CallerGoto(c, "testCount", "write")
  /\ ~PoolFull
  /\ UNCHANGED <<memberVars, wpc, wtail, cloc, owner, calls, accepted, ran>>

\* The spin loop loads head_ again and stays at its slot; once the slot is free the
\* task is written and the slot's flag cleared with it.
EnqueueWrite(c) ==
  /\ cpc[c] = "write"
  /\ IF taken[cloc[c].slot]
     THEN /\ cloc' = [cloc EXCEPT ![c].head = head]
          /\ UNCHANGED <<taken, func, cpc>>
     ELSE /\ cpc' = [cpc EXCEPT ![c] = "storeHead"]
          /\ func' = [func EXCEPT ![cloc[c].slot] = cloc[c].task]
          /\ taken' = [taken EXCEPT ![cloc[c].slot] = FALSE]
          /\ UNCHANGED cloc
  /\ UNCHANGED <<head, tail, taskCount, stop, wpc, wtail, owner, calls, accepted, ran>>

EnqueueStoreHead(c) ==
  /\ CallerGoto(c, "storeHead", "count")
  /\ head' = cloc[c].head + 1
  /\ UNCHANGED <<taken, func, tail, taskCount, stop, wpc, wtail, cloc, owner, calls,
                 accepted, ran>>

EnqueueCount(c) ==
  /\ CallerGoto(c, "count", "idle")
  /\ taskCount' = taskCount + 1
  /\ accepted' = accepted \cup {cloc[c].task}
  /\ UNCHANGED <<taken, func, head, tail, stop, wpc, wtail, cloc, owner, calls, ran>>

EnqueueStep(c) ==
  \/ EnqueueLoadHead(c)
  \/ EnqueueRefuse(c)
  \/ EnqueueAdmit(c)
  \/ EnqueueWrite(c)
  \/ EnqueueStoreHead(c)
  \/ EnqueueCount(c)
-----------------------------------------------------------------------------
(***************************************************************************)
(* wait_all and the destructor                                             *)
(***************************************************************************)
OwnerGoto(from, to) == owner = from /\ owner' = to

AllCallersIdle == \A c \in Callers : cpc[c] = "idle"

WaitAll ==
  /\ OwnerGoto("using", "waiting")
  /\ UNCHANGED <<memberVars, wpc, wtail, cpc, cloc, calls, accepted, ran>>

WaitAllReturn ==
  /\ OwnerGoto("waiting", "using")
  /\ taskCount = 0
  /\ UNCHANGED <<memberVars, wpc, wtail, cpc, cloc, calls, accepted, ran>>

\* Mutant: the destructor joins without stopping.
DestroyUnstopped ==
  /\ OwnerGoto("using", "stopping")
  /\ UNCHANGED <<memberVars, wpc, wtail, cpc, cloc, calls, accepted, ran>>

Destroy ==
  /\ OwnerGoto("using", "stopping")
  /\ stop' = TRUE
  /\ UNCHANGED <<taken, func, head, tail, taskCount, wpc, wtail, cpc, cloc, calls,
                 accepted, ran>>

\* All workers are joined.  That no call of enqueue is left is the callers' duty.
JoinWorkers ==
  /\ OwnerGoto("stopping", "gone")
  /\ \A w \in Workers : wpc[w] = "returned"
  /\ AllCallersIdle
  /\ UNCHANGED <<memberVars, wpc, wtail, cpc, cloc, calls, accepted, ran>>

PoolNext ==
  \/ \E w \in Workers : Worker(w)
  \/ \E c \in Callers : Enqueue(c) \/ EnqueueStep(c)
  \/ WaitAll \/ WaitAllReturn \/ Destroy \/ JoinWorkers

PoolSpec == PoolInit /\ [][PoolNext]_poolVars

\* Threads run: workers loop, a started enqueue and a started wait or join goes
\* on.  Nobody has to call enqueue, wait_all or the destructor.
PoolFairness ==
  /\ \A w \in Workers : WF_poolVars(Worker(w))
  /\ \A c \in Callers : WF_poolVars(EnqueueStep(c))
  /\ WF_poolVars(WaitAllReturn)
  /\ WF_poolVars(JoinWorkers)

PoolFairSpec == PoolSpec /\ PoolFairness
-----------------------------------------------------------------------------
(***************************************************************************)
(* Correctness                                                             *)
(***************************************************************************)
TypeOK ==
  /\ taken \in [Slots -> BOOLEAN]
  /\ func \in [Slots -> Tasks \cup {NoTask}]
  /\ head \in Nat
  /\ tail \in Nat
  /\ taskCount \in Nat
  /\ stop \in BOOLEAN
  /\ wpc \in [Workers -> {"top", "loadTail", "testWork", "idleTurn", "testTaken",
                          "take", "advance", "run", "finish", "returned"}]
  /\ wtail \in [Workers -> Nat]
  /\ cpc \in [Callers -> {"idle", "loadHead", "testCount", "write", "storeHead",
                          "count"}]
  /\ cloc \in [Callers -> [head : Nat, slot : Slots, task : Tasks \cup {NoTask}]]
  /\ owner \in {"using", "waiting", "stopping", "gone"}
  /\ calls \in 0..MaxCalls
  /\ accepted \in SUBSET Tasks
  /\ ran \in SUBSET Tasks

\* task_count_ only grows with the accepted tasks; concurrent callers that all
\* see the last free place exceed MAX_TASKS by at most one each but the first.
CountIsAccepted ==
  /\ taskCount = Cardinality(accepted)
  /\ taskCount <= MaxTasks + Cardinality(Callers) - 1

\* The destructor returns: every worker sees stop_ and ends, provided that the
\* callers' enqueues end.
DestructorReturns == owner = "stopping" ~> owner = "gone"

\* What the tests rely on (test_performance.cpp:193, "pool.wait_all();" followed
\* by assert(counter.load() == 100)): wait_all returns.
WaitAllReturns == owner = "waiting" ~> owner = "using"
=============================================================================
