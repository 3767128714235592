------------------------------ MODULE JobQueue ------------------------------
(***************************************************************************)
(* worker/queue.py: JobQueue and the thread pool under it.  API threads    *)
(* submit audits and retests, at most Cardinality(Workers) pool threads    *)
(* run them, and other API threads read the jobs through JobQueue.list     *)
(* without taking the lock.  The interleaving is the one Python gives:     *)
(* attribute reads and writes are atomic, everything between them is not.  *)
(***************************************************************************)
EXTENDS Naturals, Sequences, FiniteSets

CONSTANTS Clients,      \* API threads that submit
          Workers,      \* threads of the ThreadPoolExecutor (max_workers)
          Observers,    \* API threads that list the jobs
          MaxJobs       \* bound on the number of submitted jobs

ASSUME MaxJobsAssumption == MaxJobs \in Nat \ {0}
ASSUME WorkersAssumption == IsFiniteSet(Workers)

VARIABLES jobs,         \* JobQueue.jobs: job id -> Job
          counter,      \* JobQueue._counter
          client,       \* the job a client has registered but not yet pooled
          pool,         \* every work item given to the executor, in order
          taken,        \* how many of them a worker has taken
          worker,       \* runner() of each pool thread
          observer      \* list() of each observing thread

vars == <<jobs, counter, client, pool, taken, worker, observer>>

JobIds == 1..MaxJobs
Statuses == {"QUEUED", "RUNNING", "SUCCESS", "FAILED"}
Job == [status: Statuses \union {"NONE"}, error: BOOLEAN, finished: BOOLEAN]
NoJob == [status |-> "NONE", error |-> FALSE, finished |-> FALSE]
QueuedJob == [status |-> "QUEUED", error |-> FALSE, finished |-> FALSE]
Idle == [pc |-> "idle", job |-> 0]
NotReading == [pc |-> "idle", job |-> 0, size |-> 0, entry |-> NoJob]

Init ==
    /\ jobs = [j \in JobIds |-> NoJob]
    /\ counter = 0
    /\ client = [c \in Clients |-> 0]
    /\ pool = <<>>
    /\ taken = 0
    /\ worker = [w \in Workers |-> Idle]
    /\ observer = [o \in Observers |-> NotReading]

-----------------------------------------------------------------------------
(* submit *)

\* Bug: the job is numbered before the lock is taken.
RegisterUnlocked(c) ==
    /\ client[c] = 0 /\ counter < MaxJobs
    /\ counter' \in {counter, counter + 1}
    /\ client' = [client EXCEPT ![c] = counter + 1]
    /\ jobs' = [jobs EXCEPT ![counter + 1] = QueuedJob]
    /\ UNCHANGED <<pool, taken, worker, observer>>

\* The block under the lock: number the job and put it in the dictionary.
Register(c) ==
    /\ client[c] = 0 /\ counter < MaxJobs
    /\ counter' = counter + 1
    /\ client' = [client EXCEPT ![c] = counter + 1]
    /\ jobs' = [jobs EXCEPT ![counter + 1] = QueuedJob]
    /\ UNCHANGED <<pool, taken, worker, observer>>

\* self._pool.submit(runner), after the lock is released: two clients can
\* reach the executor in the other order.
Enqueue(c) ==
    /\ client[c] # 0
    /\ pool' = Append(pool, client[c])
    /\ client' = [client EXCEPT ![c] = 0]
    /\ UNCHANGED <<jobs, counter, taken, worker, observer>>

-----------------------------------------------------------------------------
(* runner, on a pool thread *)

\* Worker w goes from one program point to another, on the same job.
Goto(w, from, to) ==
    /\ worker[w].pc = from
    /\ worker' = [worker EXCEPT ![w].pc = to]

\* Write one attribute of the job worker w executes.
SetStatus(w, status) == jobs' = [jobs EXCEPT ![worker[w].job].status = status]
SetError(w)    == jobs' = [jobs EXCEPT ![worker[w].job].error = TRUE]
SetFinished(w) == jobs' = [jobs EXCEPT ![worker[w].job].finished = TRUE]

\* Bug: a work item is read without being removed.
TakePeek(w) ==
    /\ worker[w].pc = "idle" /\ taken < Len(pool)
    /\ worker' = [worker EXCEPT ![w] = [pc |-> "taken", job |-> pool[taken + 1]]]
    /\ taken' \in {taken, taken + 1}
    /\ UNCHANGED <<jobs, counter, client, pool, observer>>

Take(w) ==
    /\ worker[w].pc = "idle" /\ taken < Len(pool)
    /\ worker' = [worker EXCEPT ![w] = [pc |-> "taken", job |-> pool[taken + 1]]]
    /\ taken' = taken + 1
    /\ UNCHANGED <<jobs, counter, client, pool, observer>>

Start(w) ==
    /\ Goto(w, "taken", "running")
    /\ SetStatus(w, "RUNNING")
    /\ UNCHANGED <<counter, client, pool, taken, observer>>

\* fn returned.
Return(w) ==
    /\ Goto(w, "running", "closing")
    /\ SetStatus(w, "SUCCESS")
    /\ UNCHANGED <<counter, client, pool, taken, observer>>

\* Bug: the status is set before the error ("status last", line 47).
RaiseStatusFirst(w) ==
    /\ Goto(w, "running", "raised")
    /\ SetStatus(w, "FAILED")
    /\ UNCHANGED <<counter, client, pool, taken, observer>>

\* fn raised: the error is recorded first, the status after it.
Raise(w) ==
    /\ Goto(w, "running", "raised")
    /\ SetError(w)
    /\ UNCHANGED <<counter, client, pool, taken, observer>>

MarkFailed(w) ==
    /\ Goto(w, "raised", "closing")
    /\ SetStatus(w, "FAILED")
    /\ UNCHANGED <<counter, client, pool, taken, observer>>

\* Bug: the thread ends with its job instead of going back to the pool.
CloseAndExit(w) ==
    /\ Goto(w, "closing", "closed")
    /\ SetFinished(w)
    /\ UNCHANGED <<counter, client, pool, taken, observer>>

\* The finally clause, then back to the executor for the next item.
Close(w) ==
    /\ worker[w].pc = "closing"
    /\ worker' = [worker EXCEPT ![w] = Idle]
    /\ SetFinished(w)
    /\ UNCHANGED <<counter, client, pool, taken, observer>>

-----------------------------------------------------------------------------
(* list: one entry per job, its attributes read one after the other *)

SetObserver(o, r) ==
    /\ observer' = [observer EXCEPT ![o] = r]
    /\ UNCHANGED <<jobs, counter, client, pool, taken, worker>>

BeginList(o) ==
    /\ observer[o].pc = "idle"
    /\ SetObserver(o, [pc |-> "next", job |-> 1, size |-> counter, entry |-> NoJob])

\* A dictionary iterator raises when the size changed under it.
ListRaises(o) ==
    /\ observer[o].pc = "next" /\ observer[o].size # counter
    /\ SetObserver(o, NotReading)

EndList(o) ==
    /\ observer[o].pc = "next" /\ observer[o].size = counter
    /\ observer[o].job > counter
    /\ SetObserver(o, NotReading)

ReadStatus(o) ==
    /\ observer[o].pc = "next" /\ observer[o].size = counter
    /\ observer[o].job <= counter
    /\ SetObserver(o, [observer[o] EXCEPT !.pc = "status",
                        !.entry = [NoJob EXCEPT !.status = jobs[observer[o].job].status]])

ReadFinished(o) ==
    /\ observer[o].pc = "status"
    /\ SetObserver(o, [observer[o] EXCEPT !.pc = "finished",
                        !.entry.finished = jobs[observer[o].job].finished])

ReadError(o) ==
    /\ observer[o].pc = "finished"
    /\ SetObserver(o, [observer[o] EXCEPT !.pc = "next", !.job = @ + 1,
                        !.entry.error = jobs[observer[o].job].error])

-----------------------------------------------------------------------------
Submit(c) == Register(c) \/ Enqueue(c)
Run(w) == Take(w) \/ Start(w) \/ Return(w) \/ Raise(w) \/ MarkFailed(w) \/ Close(w)
List(o) == BeginList(o) \/ ListRaises(o) \/ EndList(o) \/ ReadStatus(o)
              \/ ReadFinished(o) \/ ReadError(o)

Next == \/ \E c \in Clients : Submit(c)
        \/ \E w \in Workers : Run(w)
        \/ \E o \in Observers : List(o)

\* A thread that has registered a job goes on to pool it, and a pool thread
\* runs what it can: the functions submitted are audits, which all terminate.
Fairness == /\ \A c \in Clients : WF_vars(Enqueue(c))
            /\ \A w \in Workers : WF_vars(Run(w))

Spec == Init /\ [][Next]_vars /\ Fairness

-----------------------------------------------------------------------------
(* Properties *)

TypeOK ==
    /\ jobs \in [JobIds -> Job]
    /\ counter \in 0..MaxJobs
    /\ client \in [Clients -> 0..MaxJobs]
    /\ pool \in Seq(JobIds)
    /\ taken \in 0..Len(pool)
    /\ worker \in [Workers -> [pc: {"idle", "taken", "running", "raised", "closing"},
                               job: 0..MaxJobs]]
    /\ observer \in [Observers -> [pc: {"idle", "next", "status", "finished"},
                                   job: 0..MaxJobs + 1, size: 0..MaxJobs, entry: Job]]

\* The job a waiting work item, a client or a worker stands for.
Holders(j) ==
    {<<"pool", i>> : i \in {k \in (taken + 1)..Len(pool) : pool[k] = j}}
        \union {<<"client", c>> : c \in {d \in Clients : client[d] = j}}
        \union {<<"worker", w>> : w \in {v \in Workers : worker[v].job = j}}

\* No job is lost and none is run twice: until its finished_at is set, a job is
\* in exactly one place, and afterwards in none.
RunOnce ==
    \A j \in JobIds :
        Cardinality(Holders(j)) =
            IF j <= counter /\ ~jobs[j].finished THEN 1 ELSE 0

\* "observers see error with FAILED" (queue.py:47), for an observer that reads
\* the attributes one by one while the worker writes them.
ErrorSeenWithFailed ==
    \A o \in Observers :
        observer[o].pc = "next" /\ observer[o].entry.status = "FAILED" =>
            observer[o].entry.error

Service == INSTANCE JobService WITH
    Ids <- JobIds, Capacity <- Cardinality(Workers),
    status <- [j \in JobIds |-> jobs[j].status]

RefinesService == Service!SSpec

\* Every accepted job is executed to its end.
EveryJobFinishes == \A j \in JobIds : j <= counter ~> jobs[j].finished
=============================================================================
