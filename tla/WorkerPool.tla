----------------------------- MODULE WorkerPool -----------------------------
(***************************************************************************)
(* The worker pools and their manager: a bounded queue and a fixed number  *)
(* of workers per kind of task.  Submit never blocks; Stop cancels the     *)
(* pool's context, closes its queue and waits for the workers, and a       *)
(* worker's select chooses at random between a cancelled context and a     *)
(* task that is still queued.                                              *)
(*                                                                         *)
(* Abstracted: what a task does.  Nothing in the repository submits tasks  *)
(* yet; the callers of Submit are the environment.                         *)
(***************************************************************************)
EXTENDS Naturals, Sequences

CONSTANTS
  Kinds,      \* the kinds of pools, in the order in which Stop stops them
  PoolSize,   \* workers of a pool
  QueueSize,  \* capacity of a queue
  Tasks,      \* the tasks of the model
  KindOf      \* KindOf[t] is the pool t is submitted to

Pools == {Kinds[i] : i \in DOMAIN Kinds}
Workers == Pools \X (1..PoolSize)

ASSUME PoolAssumption ==
  /\ DOMAIN Kinds = 1..Len(Kinds)
  /\ PoolSize \in Nat \ {0} /\ QueueSize \in Nat \ {0}
  /\ KindOf \in [Tasks -> Pools]
  /\ {"off", "idle", "gone"} \cap Tasks = {}

VARIABLES
  pool,    \* each pool: "new", "running", "cancelled", "closed" or "stopped"
  queue,   \* taskChan of each pool
  worker   \* each worker: "off", "idle", "gone" or the task it executes

poolVars == <<pool, queue, worker>>

PoolTypeOK ==
  /\ pool \in [Pools -> {"new", "running", "cancelled", "closed", "stopped"}]
  /\ queue \in [Pools -> Seq(Tasks)]
  /\ \A k \in Pools : Len(queue[k]) <= QueueSize
  /\ worker \in [Workers -> {"off", "idle", "gone"} \cup Tasks]

PoolInit ==
  /\ pool = [k \in Pools |-> "new"]
  /\ queue = [k \in Pools |-> <<>>]
  /\ worker = [w \in Workers |-> "off"]

\* PoolManager.Start
StartPools ==
  /\ pool' = [k \in Pools |-> "running"]
  /\ worker' = [w \in Workers |-> "idle"]
  /\ UNCHANGED queue

\* t waits in a queue or is being executed.
Accepted(t) ==
  \/ \E k \in Pools : \E i \in DOMAIN queue[k] : queue[k][i] = t
  \/ \E w \in Workers : worker[w] = t

\* Faulty: the queue is not checked for room.
SubmitAnyway(k, t) ==
  /\ ~Accepted(t)
  /\ pool[k] \in {"new", "running", "cancelled"}
  /\ queue' = [queue EXCEPT ![k] = Append(@, t)]
  /\ UNCHANGED <<pool, worker>>

\* Submit accepts a task.  (When the queue is full it returns ErrQueueFull,
\* when the channel is closed it panics: neither changes anything here.)
Submit(k, t) ==
  /\ ~Accepted(t)
  /\ pool[k] \in {"new", "running", "cancelled"}
  /\ Len(queue[k]) < QueueSize
  /\ queue' = [queue EXCEPT ![k] = Append(@, t)]
  /\ UNCHANGED <<pool, worker>>

\* SubmitSessionTask, SubmitDeliveryTask, SubmitAckTask and SubmitMailboxTask.
SubmitByKind(t) == Submit(KindOf[t], t)

\* A worker receives a task, of a cancelled or closed pool as well.
Receive(w) ==
  /\ worker[w] = "idle"
  /\ queue[w[1]] # <<>>
  /\ worker' = [worker EXCEPT ![w] = Head(queue[w[1]])]
  /\ queue' = [queue EXCEPT ![w[1]] = Tail(@)]
  /\ UNCHANGED pool

\* Faulty: a worker ends with the first task that fails.
ExecuteOnce(w) ==
  /\ worker[w] \in Tasks
  /\ \E next \in {"idle", "gone"} : worker' = [worker EXCEPT ![w] = next]
  /\ UNCHANGED <<pool, queue>>

\* Execute returns, with or without an error.
Execute(w) ==
  /\ worker[w] \in Tasks
  /\ worker' = [worker EXCEPT ![w] = "idle"]
  /\ UNCHANGED <<pool, queue>>

\* A worker sees the cancelled context.
Leave(w) ==
  /\ worker[w] = "idle"
  /\ pool[w[1]] \in {"cancelled", "closed"}
  /\ worker' = [worker EXCEPT ![w] = "gone"]
  /\ UNCHANGED <<pool, queue>>

\* Faulty: Stop does not wait for the workers.
StopPoolAtOnce(k) ==
  /\ \/ pool[k] = "running" /\ pool' = [pool EXCEPT ![k] = "cancelled"]
     \/ pool[k] = "cancelled" /\ pool' = [pool EXCEPT ![k] = "closed"]
     \/ pool[k] = "closed" /\ pool' = [pool EXCEPT ![k] = "stopped"]
  /\ UNCHANGED <<queue, worker>>

\* Stop: cancel, close, wait.
StopPool(k) ==
  /\ \/ pool[k] = "running" /\ pool' = [pool EXCEPT ![k] = "cancelled"]
     \/ pool[k] = "cancelled" /\ pool' = [pool EXCEPT ![k] = "closed"]
     \/ /\ pool[k] = "closed"
        /\ \A w \in Workers : w[1] = k => worker[w] = "gone"
        /\ pool' = [pool EXCEPT ![k] = "stopped"]
  /\ UNCHANGED <<queue, worker>>

\* PoolManager.Stop stops the pools one after the other.
StopPools ==
  \E i \in DOMAIN Kinds :
    /\ \A j \in 1..i-1 : pool[Kinds[j]] = "stopped"
    /\ StopPool(Kinds[i])

PoolStep(w) == Receive(w) \/ Execute(w) \/ Leave(w)

\* The process ends: a new one has new pools.
PoolExit ==
  /\ pool' = [k \in Pools |-> "new"]
  /\ queue' = [k \in Pools |-> <<>>]
  /\ worker' = [w \in Workers |-> "off"]
=============================================================================
