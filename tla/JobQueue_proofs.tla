--------------------------- MODULE JobQueue_proofs ---------------------------
(***************************************************************************)
(* The safety properties of JobQueue and its refinement of JobService, for *)
(* any clients, pool threads, observers and number of jobs.                *)
(***************************************************************************)
EXTENDS JobQueue, FiniteSetTheorems, FunctionTheorems, TLAPS

\* The places of the pool that wait for a worker.
Waiting == (taken + 1)..Len(pool)

\* No two places, clients or workers have the same job.
HeldOnce ==
    /\ \A k, l \in Waiting : pool[k] = pool[l] => k = l
    /\ \A c, d \in Clients : client[c] = client[d] /\ client[c] # 0 => c = d
    /\ \A v, w \in Workers : worker[v].job = worker[w].job /\ worker[v].job # 0 => v = w
    /\ \A k \in Waiting, c \in Clients : pool[k] # client[c]
    /\ \A k \in Waiting, w \in Workers : pool[k] # worker[w].job
    /\ \A c \in Clients, w \in Workers : client[c] = worker[w].job => client[c] = 0

InPool(j)     == \E k \in Waiting : pool[k] = j
WithClient(j) == \E c \in Clients : client[c] = j
WithWorker(j) == \E w \in Workers : worker[w].job = j

\* The jobs somebody has are those that are registered and not finished.
OpenIsHeld ==
    \A j \in JobIds :
        j <= counter /\ ~jobs[j].finished <=> InPool(j) \/ WithClient(j) \/ WithWorker(j)

\* What a job shows follows from who has it.
StatusOfHolder ==
    /\ \A j \in JobIds : jobs[j].status = "NONE" <=> j > counter
    /\ \A j \in JobIds : InPool(j) \/ WithClient(j) => jobs[j].status = "QUEUED"
    /\ \A j \in JobIds : jobs[j].status = "RUNNING" => WithWorker(j)
    /\ \A w \in Workers :
          /\ worker[w].pc = "idle" <=> worker[w].job = 0
          /\ worker[w].pc = "taken" => jobs[worker[w].job].status = "QUEUED"
          /\ worker[w].pc \in {"running", "raised"} => jobs[worker[w].job].status = "RUNNING"
          /\ worker[w].pc = "raised" => jobs[worker[w].job].error
          /\ worker[w].pc = "closing" => jobs[worker[w].job].status \in {"SUCCESS", "FAILED"}

\* A job is marked as failed after its error is set, and an observer that has read
\* the mark finds the error.
FailedHasError ==
    /\ \A j \in JobIds : jobs[j].status = "FAILED" => jobs[j].error
    /\ \A o \in Observers :
          /\ observer[o].pc # "idle" => observer[o].job >= 1
          /\ observer[o].pc \in {"status", "finished"} =>
                /\ observer[o].job \in 1..counter
                /\ observer[o].entry.status = "FAILED" => jobs[observer[o].job].error

Readings == [pc: {"idle", "next", "status", "finished"}, job: 0..MaxJobs + 1,
             size: 0..MaxJobs, entry: Job]

IInv == TypeOK /\ HeldOnce /\ OpenIsHeld /\ StatusOfHolder /\ FailedHasError
          /\ ErrorSeenWithFailed

LEMMA InitIInv == Init => IInv
<1> SUFFICES ASSUME Init PROVE IInv
    OBVIOUS
<1> USE MaxJobsAssumption DEF Init
<1>1. TypeOK
    BY DEF TypeOK, JobIds, NoJob, Idle, NotReading, Job, Statuses
<1>2. Waiting = {}
    BY DEF Waiting
<1>3. HeldOnce /\ OpenIsHeld
    BY <1>2 DEF HeldOnce, OpenIsHeld, InPool, WithClient, WithWorker, JobIds, Idle, NoJob
<1>4. StatusOfHolder
    BY <1>2 DEF StatusOfHolder, InPool, WithClient, WithWorker, JobIds, Idle, NoJob
<1>5. FailedHasError /\ ErrorSeenWithFailed
    BY DEF FailedHasError, ErrorSeenWithFailed, NoJob, NotReading
<1>6. QED
    BY <1>1, <1>3, <1>4, <1>5 DEF IInv

-----------------------------------------------------------------------------
(* submit *)

LEMMA RegisterKeeps == ASSUME IInv, NEW c \in Clients, Register(c) PROVE IInv'
<1> DEFINE new == counter + 1
<1> USE MaxJobsAssumption DEF IInv, JobIds
<1>1. /\ client[c] = 0 /\ new \in JobIds /\ counter \in Nat /\ counter' = new
      /\ client' = [client EXCEPT ![c] = new]
      /\ jobs' = [jobs EXCEPT ![new] = QueuedJob]
      /\ UNCHANGED <<pool, taken, worker, observer>>
    BY DEF Register, TypeOK
<1>2. jobs[new].status = "NONE" /\ ~InPool(new) /\ ~WithClient(new) /\ ~WithWorker(new)
    BY <1>1 DEF StatusOfHolder, OpenIsHeld
<1>3. TypeOK'
    BY <1>1 DEF TypeOK, QueuedJob, Job, Statuses
<1>4. /\ \A j \in JobIds : InPool(j)' = InPool(j) /\ WithWorker(j)' = WithWorker(j)
      /\ \A j \in JobIds : WithClient(j)' <=> j = new \/ WithClient(j)
      /\ Waiting' = Waiting
    BY <1>1 DEF InPool, WithWorker, WithClient, Waiting, TypeOK
<1>5. HeldOnce'
    BY <1>1, <1>2, <1>4 DEF HeldOnce, InPool, WithClient, WithWorker, TypeOK
<1>6. OpenIsHeld'
    BY <1>1, <1>4 DEF OpenIsHeld, TypeOK, QueuedJob
<1>7. StatusOfHolder'
  <2>1. \A w \in Workers : worker[w].job # new
      BY <1>2 DEF WithWorker
  <2>2. \A j \in JobIds : j # new => jobs'[j] = jobs[j]
      BY <1>1 DEF TypeOK
  <2>3. jobs'[new] = QueuedJob
      BY <1>1 DEF TypeOK
  <2>4. \A w \in Workers : worker[w].job # 0 => jobs'[worker[w].job] = jobs[worker[w].job]
      BY <2>1, <2>2 DEF TypeOK
  <2>5. \A j \in JobIds : jobs'[j].status = "NONE" <=> j > counter'
      BY <1>1, <2>2, <2>3 DEF StatusOfHolder, QueuedJob
  <2>6. QED
      BY <1>1, <1>4, <2>2, <2>3, <2>4, <2>5 DEF StatusOfHolder, QueuedJob
<1>8. FailedHasError' /\ ErrorSeenWithFailed'
  <2>1. \A o \in Observers : observer[o].pc \in {"status", "finished"} =>
            observer[o].job # new /\ observer[o].job \in 1..counter'
      BY <1>1 DEF FailedHasError
  <2>2. QED
      BY <1>1, <2>1 DEF FailedHasError, ErrorSeenWithFailed, TypeOK, QueuedJob
<1>9. QED
    BY <1>3, <1>5, <1>6, <1>7, <1>8

LEMMA EnqueueKeeps == ASSUME IInv, NEW c \in Clients, Enqueue(c) PROVE IInv'
<1> DEFINE new == client[c]
<1> USE MaxJobsAssumption DEF IInv, JobIds
<1>1. /\ new \in JobIds /\ WithClient(new)
      /\ pool' = Append(pool, new) /\ client' = [client EXCEPT ![c] = 0]
      /\ UNCHANGED <<jobs, counter, taken, worker, observer>>
    BY DEF Enqueue, TypeOK, WithClient
<1>2. /\ Len(pool) \in Nat /\ taken \in 0..Len(pool) /\ Len(pool)' = Len(pool) + 1
      /\ pool'[Len(pool) + 1] = new /\ \A k \in 1..Len(pool) : pool'[k] = pool[k]
      /\ pool' \in Seq(JobIds) /\ \A k \in 1..Len(pool) : pool[k] \in JobIds
    BY <1>1 DEF TypeOK
<1>3. /\ Len(pool) + 1 \in Waiting' /\ Waiting \subseteq Waiting' /\ Waiting \subseteq 1..Len(pool)
      /\ \A k \in Waiting' : k = Len(pool) + 1 \/ k \in Waiting
    BY <1>1, <1>2 DEF Waiting
<1>4. TypeOK'
    BY <1>1, <1>2 DEF TypeOK
<1>5. /\ \A k \in Waiting : pool'[k] = pool[k] /\ pool[k] # new
      /\ \A w \in Workers : worker[w].job # new
      /\ \A d \in Clients : d # c => client[d] # new /\ client'[d] = client[d]
      /\ client'[c] = 0
    BY <1>1, <1>2, <1>3 DEF HeldOnce, TypeOK
<1>6. HeldOnce'
  <2>1. \A k, l \in Waiting' : pool'[k] = pool'[l] => k = l
      BY <1>2, <1>3, <1>5 DEF HeldOnce
  <2>2. \A k \in Waiting', d \in Clients : pool'[k] # client'[d]
      BY <1>1, <1>2, <1>3, <1>5 DEF HeldOnce
  <2>3. \A k \in Waiting', w \in Workers : pool'[k] # worker'[w].job
      BY <1>1, <1>2, <1>3, <1>5 DEF HeldOnce
  <2>4. \A d, e \in Clients : client'[d] = client'[e] /\ client'[d] # 0 => d = e
      BY <1>5 DEF HeldOnce
  <2>5. \A d \in Clients, w \in Workers : client'[d] = worker'[w].job => client'[d] = 0
      BY <1>1, <1>5 DEF HeldOnce
  <2>6. \A v, w \in Workers : worker'[v].job = worker'[w].job /\ worker'[v].job # 0 => v = w
      BY <1>1 DEF HeldOnce
  <2>7. QED
      BY <2>1, <2>2, <2>3, <2>4, <2>5, <2>6 DEF HeldOnce
<1>7. /\ \A j \in JobIds : InPool(j)' <=> j = new \/ InPool(j)
      /\ \A j \in JobIds : WithClient(j)' <=> j # new /\ WithClient(j)
      /\ \A j \in JobIds : WithWorker(j)' = WithWorker(j)
  <2>1. \A j \in JobIds : InPool(j)' <=> j = new \/ InPool(j)
      BY <1>2, <1>3, <1>5 DEF InPool
  <2>2. \A j \in JobIds : WithClient(j)' <=> j # new /\ WithClient(j)
      BY <1>5 DEF WithClient
  <2>3. QED
      BY <1>1, <2>1, <2>2 DEF WithWorker
<1>8. OpenIsHeld' /\ StatusOfHolder'
    BY <1>1, <1>7 DEF OpenIsHeld, StatusOfHolder
<1>9. FailedHasError' /\ ErrorSeenWithFailed'
    BY <1>1 DEF FailedHasError, ErrorSeenWithFailed
<1>10. QED
    BY <1>4, <1>6, <1>8, <1>9

-----------------------------------------------------------------------------
(* runner *)

LEMMA TakeKeeps == ASSUME IInv, NEW w \in Workers, Take(w) PROVE IInv'
<1> DEFINE new == pool[taken + 1]
<1> USE MaxJobsAssumption DEF IInv, JobIds
<1>1. /\ worker[w].pc = "idle" /\ taken \in Nat /\ Len(pool) \in Nat /\ taken < Len(pool)
      /\ worker' = [worker EXCEPT ![w] = [pc |-> "taken", job |-> new]]
      /\ taken' = taken + 1
      /\ UNCHANGED <<jobs, counter, client, pool, observer>>
    BY DEF Take, TypeOK
<1>2. /\ taken + 1 \in Waiting /\ new \in JobIds /\ InPool(new)
      /\ Waiting' = Waiting \ {taken + 1}
    BY <1>1 DEF Waiting, InPool, TypeOK
<1>3. TypeOK'
    BY <1>1, <1>2 DEF TypeOK
<1>4. /\ worker[w].job = 0 /\ worker'[w] = [pc |-> "taken", job |-> new]
      /\ \A v \in Workers : v # w => worker'[v] = worker[v]
      /\ \A v \in Workers : worker[v].job # new
      /\ \A c \in Clients : client[c] # new
      /\ \A k \in Waiting' : pool[k] # new
    BY <1>1, <1>2 DEF HeldOnce, StatusOfHolder, TypeOK
<1>5. HeldOnce'
  <2>1. \A u, v \in Workers : worker'[u].job = worker'[v].job /\ worker'[u].job # 0 => u = v
      BY <1>4 DEF HeldOnce
  <2>2. \A k \in Waiting', v \in Workers : pool[k] # worker'[v].job
      BY <1>2, <1>4 DEF HeldOnce
  <2>3. \A c \in Clients, v \in Workers : client[c] = worker'[v].job => client[c] = 0
      BY <1>4 DEF HeldOnce
  <2>4. QED
      BY <1>1, <1>2, <2>1, <2>2, <2>3 DEF HeldOnce
<1>6. /\ \A j \in JobIds : InPool(j)' <=> j # new /\ InPool(j)
      /\ \A j \in JobIds : WithWorker(j)' <=> j = new \/ WithWorker(j)
      /\ \A j \in JobIds : WithClient(j)' = WithClient(j)
  <2>1. \A j \in JobIds : InPool(j)' <=> j # new /\ InPool(j)
      BY <1>1, <1>2, <1>4 DEF InPool
  <2>2. \A j \in JobIds : WithWorker(j)' <=> j = new \/ WithWorker(j)
      BY <1>4 DEF WithWorker
  <2>3. QED
      BY <1>1, <2>1, <2>2 DEF WithClient
<1>7. OpenIsHeld'
    BY <1>1, <1>2, <1>6 DEF OpenIsHeld
<1>8. StatusOfHolder'
    BY <1>1, <1>2, <1>4, <1>6 DEF StatusOfHolder
<1>9. FailedHasError' /\ ErrorSeenWithFailed'
    BY <1>1 DEF FailedHasError, ErrorSeenWithFailed
<1>10. QED
    BY <1>3, <1>5, <1>7, <1>8, <1>9

\* A worker that has a job is the only one to have it, and the job is open.
LEMMA Holding ==
    ASSUME IInv, NEW w \in Workers, worker[w].pc # "idle"
    PROVE  /\ worker[w].job \in JobIds /\ worker[w].job <= counter
           /\ ~jobs[worker[w].job].finished /\ WithWorker(worker[w].job)
           /\ ~InPool(worker[w].job) /\ ~WithClient(worker[w].job)
           /\ \A v \in Workers : v # w => worker[v].job # worker[w].job
<1> USE MaxJobsAssumption DEF IInv, JobIds
<1>1. worker[w].job \in JobIds
    BY DEF StatusOfHolder, TypeOK
<1>2. WithWorker(worker[w].job)
    BY DEF WithWorker
<1>3. ~InPool(worker[w].job) /\ ~WithClient(worker[w].job)
    BY <1>1 DEF HeldOnce, InPool, WithClient
<1>4. \A v \in Workers : v # w => worker[v].job # worker[w].job
    BY <1>1 DEF HeldOnce
<1>5. QED
    BY <1>1, <1>2, <1>3, <1>4 DEF OpenIsHeld

\* A step of a worker within its job: what it must leave of the job.
LEMMA JobSteps ==
    ASSUME IInv, NEW w \in Workers, NEW from, NEW to \in {"running", "raised", "closing"},
           from # "idle", Goto(w, from, to),
           jobs' \in [JobIds -> Job],
           \A i \in JobIds : i # worker[w].job => jobs'[i] = jobs[i],
           ~jobs'[worker[w].job].finished,
           jobs'[worker[w].job].status \notin {"NONE", "QUEUED"},
           to \in {"running", "raised"} => jobs'[worker[w].job].status = "RUNNING",
           to = "raised" => jobs'[worker[w].job].error,
           to = "closing" => jobs'[worker[w].job].status \in {"SUCCESS", "FAILED"},
           jobs'[worker[w].job].status = "FAILED" => jobs'[worker[w].job].error,
           jobs[worker[w].job].error => jobs'[worker[w].job].error,
           UNCHANGED <<counter, client, pool, taken, observer>>
    PROVE  IInv'
<1> DEFINE j == worker[w].job
<1> USE MaxJobsAssumption DEF IInv, JobIds, Goto
<1>1. /\ j \in JobIds /\ j <= counter /\ ~jobs[j].finished /\ WithWorker(j)
      /\ ~InPool(j) /\ ~WithClient(j) /\ \A v \in Workers : v # w => worker[v].job # j
    BY Holding
<1>2. /\ worker'[w].pc = to /\ worker'[w].job = j
      /\ \A v \in Workers : v # w => worker'[v] = worker[v]
    BY <1>1 DEF TypeOK
<1>3. TypeOK'
    BY <1>1 DEF TypeOK
<1>4. /\ Waiting' = Waiting /\ \A v \in Workers : worker'[v].job = worker[v].job
      /\ \A i \in JobIds : /\ InPool(i)' = InPool(i) /\ WithClient(i)' = WithClient(i)
                          /\ WithWorker(i)' = WithWorker(i)
    BY <1>2 DEF Waiting, InPool, WithClient, WithWorker
<1>5. HeldOnce'
    BY <1>4 DEF HeldOnce
<1>6. OpenIsHeld'
    BY <1>1, <1>2, <1>4 DEF OpenIsHeld
<1>7. StatusOfHolder'
  <2>1. \A v \in Workers : v # w /\ worker[v].pc # "idle" =>
            jobs'[worker[v].job] = jobs[worker[v].job]
      BY <1>1, Holding
  <2>2. \A i \in JobIds : jobs'[i].status = "NONE" <=> i > counter'
    <3>1. ~(j > counter)
        BY <1>1 DEF TypeOK
    <3>2. QED
        BY <1>1, <3>1 DEF StatusOfHolder
  <2>3. \A i \in JobIds : InPool(i)' \/ WithClient(i)' => jobs'[i].status = "QUEUED"
      BY <1>1, <1>2, <1>4 DEF StatusOfHolder
  <2>4. \A i \in JobIds : jobs'[i].status = "RUNNING" => WithWorker(i)'
      BY <1>1, <1>2, <1>4 DEF StatusOfHolder
  <2>5. QED
      BY <1>1, <1>2, <1>4, <2>1, <2>2, <2>3, <2>4 DEF StatusOfHolder
<1>8. FailedHasError' /\ ErrorSeenWithFailed'
  <2>1. \A i \in JobIds : /\ jobs'[i].status = "FAILED" => jobs'[i].error
                         /\ jobs[i].error => jobs'[i].error
      BY DEF FailedHasError
  <2>2. \A o \in Observers : observer[o].pc \in {"status", "finished"} => observer[o].job \in JobIds
      BY DEF FailedHasError, TypeOK
  <2>3. QED
      BY <2>1, <2>2 DEF FailedHasError, ErrorSeenWithFailed
<1>9. QED
    BY <1>3, <1>5, <1>6, <1>7, <1>8

LEMMA RunnerKeeps ==
    ASSUME IInv, NEW w \in Workers, Start(w) \/ Return(w) \/ Raise(w) \/ MarkFailed(w)
    PROVE  IInv'
<1> DEFINE j == worker[w].job
<1> USE DEF SetStatus, SetError
<1>1. worker[w].pc # "idle"
    BY DEF Start, Return, Raise, MarkFailed, Goto
<1>2. /\ j \in JobIds /\ jobs[j] \in Job /\ ~jobs[j].finished
      /\ jobs[j].status = "FAILED" => jobs[j].error
      /\ jobs \in [JobIds -> Job]
    BY <1>1, Holding DEF IInv, TypeOK, FailedHasError
<1>3. /\ worker[w].pc \in {"running", "raised"} => jobs[j].status = "RUNNING"
      /\ worker[w].pc = "raised" => jobs[j].error
    BY DEF IInv, StatusOfHolder
<1> HIDE DEF j
<1>4. CASE Start(w)
  <2>1. Goto(w, "taken", "running") /\ jobs' = [jobs EXCEPT ![j].status = "RUNNING"]
        /\ UNCHANGED <<counter, client, pool, taken, observer>>
      BY <1>4 DEF Start, j
  <2>2. /\ jobs' \in [JobIds -> Job] /\ \A i \in JobIds : i # j => jobs'[i] = jobs[i]
        /\ jobs'[j].status = "RUNNING" /\ ~jobs'[j].finished
        /\ jobs'[j].error = jobs[j].error
      BY <1>2, <2>1 DEF Job, Statuses
  <2>3. QED
      BY <2>1, <2>2, JobSteps DEF j
<1>5. CASE Return(w)
  <2>1. Goto(w, "running", "closing") /\ jobs' = [jobs EXCEPT ![j].status = "SUCCESS"]
        /\ UNCHANGED <<counter, client, pool, taken, observer>>
      BY <1>5 DEF Return, j
  <2>2. /\ jobs' \in [JobIds -> Job] /\ \A i \in JobIds : i # j => jobs'[i] = jobs[i]
        /\ jobs'[j].status = "SUCCESS" /\ ~jobs'[j].finished
        /\ jobs'[j].error = jobs[j].error
      BY <1>2, <2>1 DEF Job, Statuses
  <2>3. QED
      BY <2>1, <2>2, JobSteps DEF j
<1>6. CASE Raise(w)
  <2>1. Goto(w, "running", "raised") /\ jobs' = [jobs EXCEPT ![j].error = TRUE]
        /\ UNCHANGED <<counter, client, pool, taken, observer>>
      BY <1>6 DEF Raise, j
  <2>2. /\ jobs' \in [JobIds -> Job] /\ \A i \in JobIds : i # j => jobs'[i] = jobs[i]
        /\ jobs'[j].status = "RUNNING" /\ ~jobs'[j].finished /\ jobs'[j].error
      BY <1>2, <1>3, <2>1 DEF Job, Statuses, Goto
  <2>3. QED
      BY <2>1, <2>2, JobSteps DEF j
<1>7. CASE MarkFailed(w)
  <2>1. Goto(w, "raised", "closing") /\ jobs' = [jobs EXCEPT ![j].status = "FAILED"]
        /\ UNCHANGED <<counter, client, pool, taken, observer>>
      BY <1>7 DEF MarkFailed, j
  <2>2. /\ jobs' \in [JobIds -> Job] /\ \A i \in JobIds : i # j => jobs'[i] = jobs[i]
        /\ jobs'[j].status = "FAILED" /\ ~jobs'[j].finished /\ jobs'[j].error
      BY <1>2, <1>3, <2>1 DEF Job, Statuses, Goto
  <2>3. QED
      BY <2>1, <2>2, JobSteps DEF j
<1>8. QED
    BY <1>4, <1>5, <1>6, <1>7

LEMMA CloseKeeps == ASSUME IInv, NEW w \in Workers, Close(w) PROVE IInv'
<1> DEFINE j == worker[w].job
<1> USE MaxJobsAssumption DEF IInv, JobIds
<1>1. /\ worker[w].pc = "closing" /\ worker' = [worker EXCEPT ![w] = Idle]
      /\ jobs' = [jobs EXCEPT ![j].finished = TRUE]
      /\ UNCHANGED <<counter, client, pool, taken, observer>>
    BY DEF Close, SetFinished
<1>2. /\ j \in JobIds /\ j <= counter /\ ~jobs[j].finished /\ WithWorker(j)
      /\ ~InPool(j) /\ ~WithClient(j) /\ \A v \in Workers : v # w => worker[v].job # j
    BY <1>1, Holding
<1>3. jobs[j].status \in {"SUCCESS", "FAILED"}
    BY <1>1 DEF StatusOfHolder
<1>4. /\ jobs' \in [JobIds -> Job] /\ \A i \in JobIds : i # j => jobs'[i] = jobs[i]
      /\ jobs'[j].finished /\ jobs'[j].status = jobs[j].status
      /\ jobs'[j].error = jobs[j].error
  <2>1. jobs \in [JobIds -> Job]
      BY DEF TypeOK
  <2> HIDE DEF j, IInv, JobIds
  <2>2. QED
      BY <1>1, <1>2, <2>1 DEF Job
<1>5. /\ worker'[w] = Idle /\ \A v \in Workers : v # w => worker'[v] = worker[v]
      /\ worker'[w].job = 0 /\ worker'[w].pc = "idle" /\ Waiting' = Waiting
    BY <1>1 DEF TypeOK, Idle, Waiting
<1> HIDE DEF j
<1>6. TypeOK'
    BY <1>1, <1>4 DEF TypeOK, Idle
<1>7. HeldOnce'
  <2>1. \A v \in Workers : worker'[v].job = worker[v].job \/ (v = w /\ worker'[v].job = 0)
      BY <1>5
  <2>2. \A u, v \in Workers : worker'[u].job = worker'[v].job /\ worker'[u].job # 0 => u = v
      BY <2>1 DEF HeldOnce
  <2>3. \A c \in Clients, v \in Workers : client[c] = worker'[v].job => client[c] = 0
      BY <2>1 DEF HeldOnce
  <2>4. \A k \in Waiting, v \in Workers : pool[k] # worker'[v].job
    <3>1. \A k \in Waiting : pool[k] # 0
        BY DEF Waiting, TypeOK
    <3>2. QED
        BY <2>1, <3>1 DEF HeldOnce
  <2>5. QED
      BY <1>1, <1>5, <2>2, <2>3, <2>4 DEF HeldOnce
<1>8. /\ \A i \in JobIds : InPool(i)' = InPool(i) /\ WithClient(i)' = WithClient(i)
      /\ \A i \in JobIds : WithWorker(i)' <=> i # j /\ WithWorker(i)
  <2>1. \A i \in JobIds : WithWorker(i)' <=> i # j /\ WithWorker(i)
      BY <1>2, <1>5 DEF WithWorker, j
  <2>2. QED
      BY <1>1, <1>5, <2>1 DEF InPool, WithClient
<1>9. OpenIsHeld'
    BY <1>1, <1>2, <1>4, <1>8 DEF OpenIsHeld
<1>10. StatusOfHolder'
  <2>1. \A v \in Workers : v # w /\ worker[v].pc # "idle" =>
            jobs'[worker[v].job] = jobs[worker[v].job]
      BY <1>2, <1>4 DEF StatusOfHolder, TypeOK
  <2>2. /\ \A i \in JobIds : jobs'[i].status = jobs[i].status
        /\ jobs[j].status # "RUNNING"
      BY <1>3, <1>4
  <2>3. QED
      BY <1>1, <1>5, <1>8, <2>1, <2>2 DEF StatusOfHolder
<1>11. FailedHasError' /\ ErrorSeenWithFailed'
    BY <1>1, <1>2, <1>4 DEF FailedHasError, ErrorSeenWithFailed
<1>12. QED
    BY <1>6, <1>7, <1>9, <1>10, <1>11

-----------------------------------------------------------------------------
(* list *)

\* An entry with its error read, and a place further down the list.
LEMMA EntryRead ==
    ASSUME NEW y \in Job, NEW e \in BOOLEAN
    PROVE  /\ [y EXCEPT !.error = e] \in Job
           /\ [y EXCEPT !.error = e].error = e
           /\ [y EXCEPT !.error = e].status = y.status
BY DEF Job

LEMMA Advanced ==
    ASSUME NEW x \in Readings, NEW e \in BOOLEAN, NEW r,
           r = [x EXCEPT !.pc = "next", !.job = x.job + 1, !.entry.error = e]
    PROVE  r = [pc |-> "next", job |-> x.job + 1, size |-> x.size,
                entry |-> [x.entry EXCEPT !.error = e]]
BY DEF Readings

LEMMA NextReading ==
    ASSUME NEW k \in 1..MaxJobs + 1, NEW m \in 0..MaxJobs, NEW y \in Job
    PROVE  [pc |-> "next", job |-> k, size |-> m, entry |-> y] \in Readings
BY MaxJobsAssumption DEF Readings

LEMMA ListKeeps == ASSUME IInv, NEW o \in Observers, List(o) PROVE IInv'
<1> DEFINE Holds(x) ==
        /\ x \in Readings
        /\ x.pc # "idle" => x.job >= 1
        /\ x.pc \in {"status", "finished"} =>
              /\ x.job \in 1..counter
              /\ x.entry.status = "FAILED" => jobs[x.job].error
        /\ x.pc = "next" /\ x.entry.status = "FAILED" => x.entry.error
<1> USE MaxJobsAssumption DEF JobIds, Readings
<1>1. /\ Holds(observer[o]) /\ counter \in 0..MaxJobs /\ jobs \in [JobIds -> Job]
      /\ \A j \in JobIds : jobs[j].status = "FAILED" => jobs[j].error
    BY DEF IInv, TypeOK, FailedHasError, ErrorSeenWithFailed
<1>2. PICK r : SetObserver(o, r) /\ Holds(r)
  <2>1. CASE BeginList(o)
    <3>1. Holds([pc |-> "next", job |-> 1, size |-> counter, entry |-> NoJob])
        BY <1>1 DEF NoJob, Job
    <3>2. QED
        BY <2>1, <3>1 DEF BeginList
  <2>2. CASE ListRaises(o) \/ EndList(o)
    <3>1. Holds(NotReading)
        BY DEF NotReading, NoJob, Job
    <3>2. QED
        BY <2>2, <3>1 DEF ListRaises, EndList
  <2>3. CASE ReadStatus(o)
    <3> DEFINE status == jobs[observer[o].job].status
               entry  == [NoJob EXCEPT !.status = status]
    <3>1. observer[o].job \in 1..counter /\ observer[o].pc = "next"
        BY <1>1, <2>3 DEF ReadStatus
    <3>2. status \in Statuses \union {"NONE"}
          /\ (status = "FAILED" => jobs[observer[o].job].error)
        BY <1>1, <3>1 DEF Job
    <3>3. entry \in Job /\ entry.status = status
        BY <3>2 DEF NoJob, Job
    <3> HIDE DEF entry
    <3>4. Holds([observer[o] EXCEPT !.pc = "status", !.entry = entry])
        BY <1>1, <3>1, <3>2, <3>3
    <3>5. QED
        BY <2>3, <3>4 DEF ReadStatus, entry
  <2>4. CASE ReadFinished(o)
    <3>1. observer[o].job \in 1..counter /\ observer[o].pc = "status"
          /\ jobs[observer[o].job].finished \in BOOLEAN
        BY <1>1, <2>4 DEF ReadFinished, Job
    <3>2. Holds([observer[o] EXCEPT !.pc = "finished",
                     !.entry.finished = jobs[observer[o].job].finished])
        BY <1>1, <3>1 DEF Job
    <3>3. QED
        BY <2>4, <3>2 DEF ReadFinished
  <2>5. CASE ReadError(o)
    <3>1. observer[o].job \in 1..counter /\ observer[o].pc = "finished"
          /\ jobs[observer[o].job].error \in BOOLEAN
        BY <1>1, <2>5 DEF ReadError, Job
    <3> DEFINE error == jobs[observer[o].job].error
               y == [observer[o].entry EXCEPT !.error = error]
               k == observer[o].job + 1
               m == observer[o].size
               r == [pc |-> "next", job |-> k, size |-> m, entry |-> y]
    <3>2. observer[o].entry.status = "FAILED" => error
        BY <1>1, <3>1
    <3>3. /\ k \in 1..MaxJobs + 1 /\ m \in 0..MaxJobs
          /\ observer[o].entry \in Job /\ error \in BOOLEAN
        BY <1>1, <3>1
    <3>4. [observer[o] EXCEPT !.pc = "next", !.job = @ + 1, !.entry.error = error] = r
      <4> DEFINE x == observer[o]
                 f == [x EXCEPT !.pc = "next", !.job = x.job + 1, !.entry.error = error]
      <4>1. x \in Readings /\ error \in BOOLEAN
          BY <1>1, <3>3
      <4> HIDE DEF x, error, f, Readings
      <4>2. f = [pc |-> "next", job |-> x.job + 1, size |-> x.size,
                 entry |-> [x.entry EXCEPT !.error = error]]
          BY <4>1, Advanced DEF f
      <4>3. QED
          BY <4>2 DEF f, x
    <3>5. y \in Job /\ y.error = error /\ y.status = observer[o].entry.status
        BY <3>3, EntryRead
    <3> HIDE DEF k, m, y, error, Readings
    <3>6. r \in Readings
        BY <3>3, <3>5, NextReading
    <3>7. r.pc = "next" /\ r.job = k /\ r.entry = y
        OBVIOUS
    <3> HIDE DEF r
    <3>8. Holds(r)
        BY <3>2, <3>3, <3>5, <3>6, <3>7
    <3>9. QED
        BY <2>5, <3>4, <3>8 DEF ReadError, error
  <2>6. QED
      BY <2>1, <2>2, <2>3, <2>4, <2>5 DEF List
<1>3. UNCHANGED <<jobs, counter, client, pool, taken, worker>>
      /\ observer' = [observer EXCEPT ![o] = r]
    BY <1>2 DEF SetObserver
<1>4. HeldOnce' /\ OpenIsHeld' /\ StatusOfHolder'
    BY <1>3 DEF IInv, HeldOnce, OpenIsHeld, StatusOfHolder, InPool, WithClient, WithWorker,
                Waiting
<1>5. TypeOK' /\ FailedHasError' /\ ErrorSeenWithFailed'
    BY <1>2, <1>3 DEF IInv, TypeOK, FailedHasError, ErrorSeenWithFailed
<1>6. QED
    BY <1>4, <1>5 DEF IInv

LEMMA NextIInv == IInv /\ [Next]_vars => IInv'
<1> SUFFICES ASSUME IInv, [Next]_vars PROVE IInv'
    OBVIOUS
<1>1. CASE UNCHANGED vars
    BY <1>1 DEF IInv, TypeOK, HeldOnce, OpenIsHeld, StatusOfHolder, InPool, WithClient,
                WithWorker, Waiting, FailedHasError, ErrorSeenWithFailed, vars
<1>2. CASE \E c \in Clients : Submit(c)
    BY <1>2, RegisterKeeps, EnqueueKeeps DEF Submit
<1>3. CASE \E w \in Workers : Run(w)
    BY <1>3, TakeKeeps, RunnerKeeps, CloseKeeps DEF Run
<1>4. CASE \E o \in Observers : List(o)
    BY <1>4, ListKeeps
<1>5. QED
    BY <1>1, <1>2, <1>3, <1>4 DEF Next

-----------------------------------------------------------------------------
(* The theorems *)

LEMMA Inductive == Spec => []IInv
<1>1. Init => IInv
    BY InitIInv
<1>2. IInv /\ [Next]_vars => IInv'
    BY NextIInv
<1>3. QED
    BY <1>1, <1>2, PTL DEF Spec

\* Every reachable state has the types of TypeOK.
THEOREM TypeCorrect == Spec => []TypeOK
<1>1. IInv => TypeOK
    BY DEF IInv
<1>2. QED
    BY <1>1, Inductive, PTL

\* A registered job is in exactly one place until it is finished, and in none
\* afterwards: it is neither lost nor run twice.
THEOREM JobsRunOnce == Spec => []RunOnce
<1>1. IInv => RunOnce
  <2> SUFFICES ASSUME IInv, NEW j \in JobIds
               PROVE  Cardinality(Holders(j)) =
                          IF j <= counter /\ ~jobs[j].finished THEN 1 ELSE 0
      BY DEF RunOnce
  <2> USE DEF IInv
  <2>1. j # 0
      BY DEF JobIds
  <2>2. CASE InPool(j)
    <3>1. PICK k \in Waiting : pool[k] = j
        BY <2>2 DEF InPool
    <3>2. Holders(j) = {<<"pool", k>>}
        BY <2>1, <3>1 DEF Holders, HeldOnce, Waiting
    <3>3. Cardinality(Holders(j)) = 1
        BY <3>2, FS_Singleton
    <3>4. QED
        BY <2>2, <3>3 DEF OpenIsHeld
  <2>3. CASE WithClient(j)
    <3>1. PICK c \in Clients : client[c] = j
        BY <2>3 DEF WithClient
    <3>2. Holders(j) = {<<"client", c>>}
        BY <2>1, <3>1 DEF Holders, HeldOnce, Waiting
    <3>3. Cardinality(Holders(j)) = 1
        BY <3>2, FS_Singleton
    <3>4. QED
        BY <2>3, <3>3 DEF OpenIsHeld
  <2>4. CASE WithWorker(j)
    <3>1. PICK w \in Workers : worker[w].job = j
        BY <2>4 DEF WithWorker
    <3>2. Holders(j) = {<<"worker", w>>}
        BY <2>1, <3>1 DEF Holders, HeldOnce, Waiting
    <3>3. Cardinality(Holders(j)) = 1
        BY <3>2, FS_Singleton
    <3>4. QED
        BY <2>4, <3>3 DEF OpenIsHeld
  <2>5. CASE ~(InPool(j) \/ WithClient(j) \/ WithWorker(j))
    <3>1. Holders(j) = {}
        BY <2>5 DEF Holders, InPool, WithClient, WithWorker, Waiting
    <3>2. QED
        BY <2>5, <3>1, FS_EmptySet DEF OpenIsHeld
  <2>6. QED
      BY <2>2, <2>3, <2>4, <2>5
<1>2. QED
    BY <1>1, Inductive, PTL

\* Who lists the jobs while they run never sees FAILED without the error.
THEOREM ErrorsAreSeen == Spec => []ErrorSeenWithFailed
<1>1. IInv => ErrorSeenWithFailed
    BY DEF IInv
<1>2. QED
    BY <1>1, Inductive, PTL

-----------------------------------------------------------------------------
(* The refinement *)

ShownStatus == [j \in JobIds |-> jobs[j].status]

\* A worker that has taken a job and not started it leaves a place free: the jobs
\* that run are with the other workers, each with its own.
LEMMA PlaceForTaken ==
    ASSUME IInv, NEW w \in Workers, worker[w].pc = "taken"
    PROVE  Cardinality(Service!Running) < Cardinality(Workers)
<1> DEFINE R == {j \in JobIds : jobs[j].status = "RUNNING"}
           runner(j) == CHOOSE v \in Workers : worker[v].job = j
           f == [j \in R |-> runner(j)]
           Others == Workers \ {w}
<1>1. Service!Running = R
    BY DEF Service!Running
<1>2. jobs[worker[w].job].status = "QUEUED"
    BY DEF IInv, StatusOfHolder
<1>3. \A j \in R : runner(j) \in Others /\ worker[runner(j)].job = j
  <2> SUFFICES ASSUME NEW j \in R PROVE runner(j) \in Others /\ worker[runner(j)].job = j
      OBVIOUS
  <2>1. \E v \in Workers : worker[v].job = j
      BY DEF IInv, StatusOfHolder, WithWorker
  <2>2. runner(j) \in Workers /\ worker[runner(j)].job = j
      BY <2>1
  <2>3. runner(j) # w
      BY <1>2, <2>2
  <2>4. QED
      BY <2>2, <2>3
<1> HIDE DEF runner
<1>4. f \in Injection(R, Others)
  <2>1. f \in [R -> Others]
      BY <1>3
  <2>2. \A i, j \in R : f[i] = f[j] => i = j
      BY <1>3
  <2> HIDE DEF f, R, Others
  <2>3. QED
      BY <2>1, <2>2, Fun_IsInj
<1>5. IsFiniteSet(Others) /\ Cardinality(Others) = Cardinality(Workers) - 1
    BY WorkersAssumption, FS_RemoveElement
<1>6. Cardinality(Workers) \in Nat /\ Cardinality(Others) \in Nat
    BY <1>5, WorkersAssumption, FS_CardinalityType
<1> HIDE DEF f, R, Others
<1>7. Cardinality(R) <= Cardinality(Others) /\ IsFiniteSet(R)
    BY <1>4, <1>5, FS_Injection
<1>8. Cardinality(R) \in Nat
    BY <1>7, FS_CardinalityType
<1>9. QED
    BY <1>1, <1>5, <1>6, <1>7, <1>8

\* A step that leaves every status alone is none of the abstract queue's.
LEMMA SameStatus ==
    ASSUME \A j \in JobIds : jobs'[j].status = jobs[j].status
    PROVE  ShownStatus' = ShownStatus
BY DEF ShownStatus, JobIds

\* A step that writes the status of the job of worker w and nothing else of jobs.
LEMMA ShowStatus ==
    ASSUME IInv, NEW w \in Workers, worker[w].pc # "idle", NEW status, SetStatus(w, status)
    PROVE  /\ worker[w].job \in JobIds
           /\ ShownStatus' = [ShownStatus EXCEPT ![worker[w].job] = status]
<1> DEFINE j == worker[w].job
<1>1. j \in JobIds
    BY DEF IInv, TypeOK, StatusOfHolder, JobIds
<1>2. /\ jobs'[j].status = status
      /\ \A i \in JobIds : i # j => jobs'[i].status = jobs[i].status
    BY <1>1 DEF SetStatus, IInv, TypeOK, Job
<1>3. QED
    BY <1>1, <1>2 DEF ShownStatus, JobIds

LEMMA ServiceRegister ==
    ASSUME IInv, NEW c \in Clients, Register(c) PROVE Service!SNext
<1>0. PICK new \in JobIds : new = counter + 1
    BY MaxJobsAssumption DEF IInv, TypeOK, JobIds, Register
<1>1. /\ counter \in Nat /\ jobs \in [JobIds -> Job]
      /\ jobs' = [jobs EXCEPT ![new] = QueuedJob]
    BY <1>0 DEF IInv, TypeOK, Register
<1>2. \A j \in JobIds : jobs[j].status = "NONE" <=> j > counter
    BY DEF IInv, StatusOfHolder
<1>3. \A i \in JobIds : i < new => jobs[i].status # "NONE"
    BY <1>0, <1>1, <1>2 DEF JobIds
<1>4. jobs[new].status = "NONE"
    BY <1>0, <1>1, <1>2
<1>5. ShownStatus' = [ShownStatus EXCEPT ![new] = "QUEUED"]
    BY <1>1 DEF ShownStatus, QueuedJob
<1>6. Service!Accept(new)
    BY <1>1, <1>3, <1>4, <1>5 DEF Service!Accept, ShownStatus
<1>7. QED
    BY <1>6 DEF Service!SNext

LEMMA ServiceStart ==
    ASSUME IInv, NEW w \in Workers, Start(w) PROVE Service!SNext
<1>1. worker[w].pc = "taken" /\ SetStatus(w, "RUNNING")
    BY DEF Start, Goto
<1>2. PICK j \in JobIds : /\ j = worker[w].job
                          /\ ShownStatus' = [ShownStatus EXCEPT ![j] = "RUNNING"]
    BY <1>1, ShowStatus
<1>3. jobs[j].status = "QUEUED"
    BY <1>1, <1>2 DEF IInv, StatusOfHolder
<1>4. Service!Cardinality(Service!Running) < Cardinality(Workers)
  <2>1. Service!Cardinality(Service!Running) = Cardinality(Service!Running)
      BY DEF Service!Cardinality, Cardinality
  <2>2. QED
      BY <1>1, <2>1, PlaceForTaken
<1>5. Service!Execute(j)
    BY <1>2, <1>3, <1>4 DEF Service!Execute, ShownStatus
<1>6. QED
    BY <1>5 DEF Service!SNext

LEMMA ServiceEnd ==
    ASSUME IInv, NEW w \in Workers, Return(w) \/ MarkFailed(w) PROVE Service!SNext
<1>1. PICK result \in {"SUCCESS", "FAILED"} :
          worker[w].pc \in {"running", "raised"} /\ SetStatus(w, result)
    BY DEF Return, MarkFailed, Goto
<1>2. PICK j \in JobIds : /\ j = worker[w].job
                          /\ ShownStatus' = [ShownStatus EXCEPT ![j] = result]
    BY <1>1, ShowStatus
<1>3. jobs[j].status = "RUNNING"
    BY <1>1, <1>2 DEF IInv, StatusOfHolder
<1>4. Service!End(j)
    BY <1>2, <1>3 DEF Service!End, ShownStatus
<1>5. QED
    BY <1>4 DEF Service!SNext

LEMMA ServiceStep ==
    ASSUME IInv, [Next]_vars PROVE [Service!SNext]_ShownStatus
<1>1. CASE \E c \in Clients : Register(c)
    BY <1>1, ServiceRegister
<1>2. CASE \E w \in Workers : Start(w)
    BY <1>2, ServiceStart
<1>3. CASE \E w \in Workers : Return(w) \/ MarkFailed(w)
    BY <1>3, ServiceEnd
<1>4. CASE \E w \in Workers : Raise(w) \/ Close(w)
  <2>1. PICK w \in Workers : SetError(w) \/ SetFinished(w)
      BY <1>4 DEF Raise, Close
  <2>2. CASE SetError(w)
      BY <2>2, SameStatus DEF SetError, IInv, TypeOK, Job
  <2>3. CASE SetFinished(w)
      BY <2>3, SameStatus DEF SetFinished, IInv, TypeOK, Job
  <2>4. QED
      BY <2>1, <2>2, <2>3
<1>5. CASE \/ \E c \in Clients : Enqueue(c)
           \/ \E w \in Workers : Take(w)
           \/ \E o \in Observers : List(o)
           \/ UNCHANGED vars
  <2>1. jobs' = jobs
      BY <1>5 DEF Enqueue, Take, List, BeginList, ListRaises, EndList, ReadStatus,
                  ReadFinished, ReadError, SetObserver, vars
  <2>2. QED
      BY <2>1, SameStatus
<1>6. QED
    BY <1>1, <1>2, <1>3, <1>4, <1>5 DEF Next, Submit, Run

\* The thread pool and the attributes written one by one are, seen from the statuses,
\* the service: accepted in order, executed once, never more than there are workers.
THEOREM ServiceImplemented == Spec => RefinesService
<1>1. Init => Service!SInit
    BY DEF Init, Service!SInit, NoJob
<1>2. IInv /\ [Next]_vars => [Service!SNext]_ShownStatus
    BY ServiceStep
<1>3. QED
    BY <1>1, <1>2, Inductive, PTL DEF Spec, RefinesService, Service!SSpec, ShownStatus
=============================================================================
