--------------------------- MODULE Platform_proofs ---------------------------
(***************************************************************************)
(* The safety properties of Platform, for any requests and any pool.  What *)
(* carries them is that the place of a thread says which version of its    *)
(* audit is on disk (PhaseOnDisk): an artifact has one thread in charge.   *)
(***************************************************************************)
EXTENDS Platform, FiniteSetTheorems, TLAPS

\* The version on disk, from the place of the thread in charge.
Reached(r) ==
    CASE thread[r].pc \in {"saving", "writing"} -> thread[r].version - 1
      [] thread[r].pc \in {"logging", "submitting", "queued"} -> IF r \in Audits THEN Created ELSE 0
      [] thread[r].pc = "scanning"  -> Running
      [] thread[r].pc = "reporting" -> Correlated
      [] thread[r].pc = "returning" -> Final(r)
      [] OTHER -> 0

\* A save is of a version the audit has, and the next one.
PhaseOnDisk ==
    \A r \in Requests :
        /\ thread[r].pc \in AtWork \union {"idle"} => artifact[r].version = Reached(r)
        /\ thread[r].pc \in {"saving", "writing"} => thread[r].version \in 1..Final(r)
        /\ artifact[r].open => thread[r].pc \in {"writing", "refused", "ended", "lost"}

\* The pool holds every queued request once.
PoolHoldsQueued ==
    /\ \A r \in Requests : thread[r].pc = "queued" => \E i \in DOMAIN pool : pool[i] = r
    /\ \A i \in DOMAIN pool : thread[pool[i]].pc = "queued"
    /\ \A i, j \in DOMAIN pool : pool[i] = pool[j] => i = j

\* A job that has ended on this server says how its audit is left.
JobsTruthful ==
    \A r \in Requests :
        thread[r].pc = "ended" /\ ~crashed =>
            \/ job[r] = "FAILED"
            \/ job[r] = "SUCCESS" /\ ~artifact[r].open /\ artifact[r].version = Final(r)

\* What is answered has been logged and saved, and is still known.
AnswersEarned ==
    /\ \A r \in Requests : thread[r].pc = "submitting" => r \in logged
    /\ \A r \in answered :
          /\ r \in logged
          /\ r \in Audits => artifact[r].version > 0
          /\ job[r] = "none" => crashed

\* Nobody has read or shown more than there is.
ReadingsBehind ==
    /\ \A r \in Requests : report[r] <= artifact[r].version
    /\ command # Nothing => command.version <= artifact[command.audit].version

IInv == TypeOK /\ PhaseOnDisk /\ PoolHoldsQueued /\ JobsTruthful /\ AnswersEarned
          /\ ReadingsBehind

LEMMA Versioned ==
    /\ Created = 1 /\ Running = 2 /\ Correlated = 3 /\ Complete = 4 /\ Compared = 5
    /\ Versions = 0..5
    /\ \A r : Final(r) = IF r \in Audits THEN 4 ELSE 5
BY DEF Created, Running, Correlated, Complete, Compared, Versions, Final

Busy == {r \in Requests : job[r] = "RUNNING"}

\* A step that starts no job keeps within the pool.
LEMMA PoolShrinks ==
    ASSUME Cardinality(Busy) <= max_workers, Busy' \subseteq Busy
    PROVE  Cardinality(Busy') <= max_workers
<1>1. IsFiniteSet(Busy)
    BY RequestAssumption, FS_Subset DEF Busy
<1>2. Cardinality(Busy') <= Cardinality(Busy)
    BY <1>1, FS_Subset
<1>3. Cardinality(Busy) \in Nat /\ Cardinality(Busy') \in Nat
    BY <1>1, FS_Subset, FS_CardinalityType
<1>4. QED
    BY <1>2, <1>3, WorkersAssumption

\* A job starts only when a thread is free.
LEMMA PoolGrows ==
    ASSUME NEW r, Cardinality(Busy) < max_workers, Busy' \subseteq Busy \union {r}
    PROVE  Cardinality(Busy') <= max_workers
<1>1. IsFiniteSet(Busy)
    BY RequestAssumption, FS_Subset DEF Busy
<1>2. Cardinality(Busy) \in Nat
    BY <1>1, FS_CardinalityType
<1>3. /\ IsFiniteSet(Busy \union {r})
      /\ Cardinality(Busy \union {r}) =
            IF r \in Busy THEN Cardinality(Busy) ELSE Cardinality(Busy) + 1
    BY <1>1, FS_AddElement
<1>4. Cardinality(Busy \union {r}) <= Cardinality(Busy) + 1
    BY <1>2, <1>3
<1>5. Cardinality(Busy') <= Cardinality(Busy \union {r})
    BY <1>3, FS_Subset
<1>6. Cardinality(Busy') \in Nat /\ Cardinality(Busy \union {r}) \in Nat
    BY <1>3, FS_Subset, FS_CardinalityType
<1>7. QED
    BY <1>2, <1>4, <1>5, <1>6, WorkersAssumption

LEMMA InitIInv == Init => IInv
<1> SUFFICES ASSUME Init PROVE IInv
    OBVIOUS
<1> USE Versioned DEF Init, At
<1>1. Busy = {}
    BY DEF Busy
<1>2. Cardinality(Busy) <= max_workers
    BY <1>1, FS_EmptySet, WorkersAssumption
<1>3. TypeOK
  <2>1. /\ thread \in [Requests -> [pc: AtWork \union Stopped \union {"lost"},
                                    version: Versions]]
        /\ artifact \in [Requests -> [open: BOOLEAN, version: Versions]]
      BY DEF Stopped
  <2>2. /\ pool \in Seq(Requests)
        /\ job \in [Requests -> {"none", "QUEUED", "RUNNING", "SUCCESS", "FAILED"}]
        /\ report \in [Requests -> Versions]
      OBVIOUS
  <2>3. projects \in [pc: {"idle", "loading", "error", "served"}, unread: SUBSET Saved]
      OBVIOUS
  <2>4. QED
      BY <1>2, <2>1, <2>2, <2>3 DEF TypeOK, Busy
<1>4. PhaseOnDisk /\ PoolHoldsQueued /\ JobsTruthful /\ AnswersEarned /\ ReadingsBehind
    BY DEF PhaseOnDisk, Reached, AtWork, PoolHoldsQueued, JobsTruthful, AnswersEarned,
           ReadingsBehind
<1>5. QED
    BY <1>3, <1>4 DEF IInv

-----------------------------------------------------------------------------
(* The steps *)

\* A step of the thread of r that touches neither the pool nor the jobs, which
\* stays in its phase or goes on to the next: what it leaves of the invariant.
LEMMA ThreadMoves ==
    ASSUME IInv, NEW r \in Requests,
           NEW to \in [pc: (AtWork \ {"queued"}) \union {"refused"}, version: Versions],
           NEW art \in [open: BOOLEAN, version: Versions],
           thread' = [thread EXCEPT ![r] = to],
           artifact' = [artifact EXCEPT ![r] = art],
           thread[r].pc # "queued",
           to.pc = "submitting" => r \in logged',
           to.pc # "refused" => art.version = Reached(r)',
           to.pc \in {"saving", "writing"} => to.version \in 1..Final(r),
           art.open => to.pc \in {"writing", "refused"},
           art.version >= artifact[r].version,
           logged \subseteq logged', logged' \subseteq Requests,
           report' \in [Requests -> Versions],
           \A q \in Requests : report'[q] <= artifact'[q].version,
           UNCHANGED <<pool, job, answered, clientVars, crashed>>
    PROVE  IInv'
<1> USE DEF IInv
<1>1. \A q \in Requests : /\ artifact[q].version \in Nat /\ artifact'[q].version \in Nat
                         /\ artifact'[q].version >= artifact[q].version
  <2>1. Versions \subseteq Nat
      BY Versioned
  <2>2. art.version \in Nat /\ artifact \in [Requests -> [open: BOOLEAN, version: Nat]]
      BY <2>1 DEF TypeOK
  <2>3. QED
      BY <2>2
<1>2. Busy' = Busy /\ Saved \subseteq Saved'
    BY <1>1 DEF Busy, Saved
<1>3. TypeOK'
  <2>1. Cardinality(Busy') <= max_workers
      BY <1>2, PoolShrinks DEF TypeOK, Busy
  <2>2. /\ thread' \in [Requests -> [pc: AtWork \union Stopped \union {"lost"},
                                     version: Versions]]
        /\ artifact' \in [Requests -> [open: BOOLEAN, version: Versions]]
      BY DEF TypeOK, Stopped
  <2>3. projects' \in [pc: {"idle", "loading", "error", "served"}, unread: SUBSET Saved']
      BY <1>2 DEF TypeOK, clientVars
  <2>4. QED
      BY <2>1, <2>2, <2>3 DEF TypeOK, Busy, clientVars
<1>4. PhaseOnDisk'
  <2>1. \A q \in Requests : q # r =>
            thread'[q] = thread[q] /\ artifact'[q] = artifact[q] /\ Reached(q)' = Reached(q)
      BY DEF TypeOK, Reached
  <2>2. thread'[r] = to /\ artifact'[r] = art
      BY DEF TypeOK
  <2>3. QED
      BY <2>1, <2>2 DEF PhaseOnDisk, AtWork
<1>5. PoolHoldsQueued'
    BY DEF PoolHoldsQueued, TypeOK
<1>6. JobsTruthful'
    BY DEF JobsTruthful, TypeOK, AtWork
<1>7. AnswersEarned'
  <2>1. \A q \in Requests : thread'[q].pc = "submitting" => q \in logged'
      BY DEF AnswersEarned, TypeOK
  <2>2. QED
      BY <1>1, <2>1 DEF AnswersEarned, TypeOK
<1>8. ReadingsBehind'
  <2>1. CASE command = Nothing
      BY <2>1 DEF ReadingsBehind, clientVars
  <2>2. CASE command # Nothing
    <3>1. command.audit \in Requests /\ command.version \in Nat
        BY <2>2, Versioned DEF TypeOK
    <3>2. QED
        BY <1>1, <2>2, <3>1 DEF ReadingsBehind, clientVars
  <2>3. QED
      BY <2>1, <2>2
<1>9. QED
    BY <1>3, <1>4, <1>5, <1>6, <1>7, <1>8

\* The artifact of a request that is not in a save is closed, and stays as it is.
LEMMA Closed ==
    ASSUME IInv, NEW r \in Requests, thread[r].pc \notin {"writing", "refused", "ended", "lost"}
    PROVE  ~artifact[r].open /\ artifact = [artifact EXCEPT ![r] = artifact[r]]
              /\ artifact[r] \in [open: BOOLEAN, version: Versions]
              /\ artifact[r].version \in Nat
BY Versioned DEF IInv, PhaseOnDisk, TypeOK

LEMMA OpenArtifactKeeps == ASSUME IInv, NEW r \in Requests, OpenArtifact(r) PROVE IInv'
<1> DEFINE to  == At("writing", thread[r].version)
           art == [open |-> TRUE, version |-> artifact[r].version]
<1>1. /\ thread[r].pc = "saving" /\ thread[r].version \in 1..Final(r)
      /\ thread[r].version \in Versions
      /\ artifact[r] \in [open: BOOLEAN, version: Versions] /\ artifact[r].version \in Nat
    BY Closed DEF OpenArtifact, Goto, IInv, TypeOK, PhaseOnDisk
<1>2. /\ thread' = [thread EXCEPT ![r] = to] /\ artifact' = [artifact EXCEPT ![r] = art]
      /\ UNCHANGED <<pool, job, answered, logged, report, clientVars, crashed>>
  <2>1. \A s \in [open: BOOLEAN, version: Versions], t \in BOOLEAN :
            [s EXCEPT !.open = t] = [open |-> t, version |-> s.version]
      OBVIOUS
  <2>2. [artifact EXCEPT ![r].open = TRUE] = [artifact EXCEPT ![r] = art]
      BY <1>1, <2>1 DEF IInv, TypeOK
  <2>3. QED
      BY <2>2 DEF OpenArtifact, Goto, IInv, TypeOK
<1>3. thread'[r] = to /\ Reached(r)' = Reached(r)
    BY <1>1, <1>2 DEF IInv, TypeOK, Reached, At
<1>4. /\ to \in [pc: (AtWork \ {"queued"}) \union {"refused"}, version: Versions]
      /\ to.pc = "writing" /\ to.version \in 1..Final(r)
    BY <1>1 DEF At, AtWork
<1>5. /\ art \in [open: BOOLEAN, version: Versions]
      /\ art.version = Reached(r)' /\ art.version >= artifact[r].version
    BY <1>1, <1>3 DEF IInv, PhaseOnDisk, AtWork
<1>6. /\ \A q \in Requests : report'[q] <= artifact'[q].version
      /\ report' \in [Requests -> Versions] /\ logged' \subseteq Requests
    BY <1>2 DEF IInv, TypeOK, ReadingsBehind
<1> HIDE DEF to, art
<1>7. QED
    BY <1>1, <1>2, <1>4, <1>5, <1>6, ThreadMoves

\* Where a thread goes from a save: the versions of an audit follow each other.
LEMMA AfterFollows ==
    ASSUME NEW r \in Requests, NEW v \in 1..Final(r), thread'[r] = After(r, v)
    PROVE  /\ After(r, v) \in [pc: AtWork \ {"queued", "writing", "submitting"}, version: Versions]
           /\ After(r, v).pc = "saving" => After(r, v).version \in 1..Final(r)
           /\ Reached(r)' = v
<1>1. r \in Audits <=> r \notin Retests
    BY RequestAssumption DEF Requests
<1>2. v \in 1..5
    BY Versioned
<1>3. CASE v = 1
    BY <1>1, <1>3, Versioned DEF After, Saving, At, Reached, AtWork
<1>4. CASE v = 2
    BY <1>4, Versioned DEF After, Saving, At, Reached, AtWork
<1>5. CASE v = 3
    BY <1>5, Versioned DEF After, Saving, At, Reached, AtWork
<1>6. CASE v = 4
    BY <1>1, <1>6, Versioned DEF After, Saving, At, Reached, AtWork
<1>7. CASE v = 5
    BY <1>1, <1>7, Versioned DEF After, Saving, At, Reached, AtWork
<1>8. QED
    BY <1>2, <1>3, <1>4, <1>5, <1>6, <1>7

LEMMA WriteArtifactKeeps == ASSUME IInv, NEW r \in Requests, WriteArtifact(r) PROVE IInv'
<1> DEFINE v   == thread[r].version
           to  == After(r, v)
           art == [open |-> FALSE, version |-> v]
<1> USE DEF WriteArtifact, Written, Goto
<1>1. /\ thread[r].pc = "writing" /\ v \in 1..Final(r) /\ v \in Versions
      /\ artifact[r].version = v - 1
    BY DEF IInv, TypeOK, PhaseOnDisk, AtWork, Reached
<1>2. thread' = [thread EXCEPT ![r] = to] /\ artifact' = [artifact EXCEPT ![r] = art]
    OBVIOUS
<1>3. thread'[r] = to
    BY <1>2 DEF IInv, TypeOK
<1>4. /\ to \in [pc: AtWork \ {"queued", "writing", "submitting"}, version: Versions]
      /\ to.pc = "saving" => to.version \in 1..Final(r)
      /\ Reached(r)' = v
    BY <1>1, <1>3, AfterFollows
<1>5. art \in [open: BOOLEAN, version: Versions] /\ art.version >= artifact[r].version
    BY <1>1, Versioned
<1>6. \A q \in Requests : report'[q] <= artifact'[q].version
  <2>1. report[r] <= v - 1 /\ report[r] \in Nat
      BY <1>1, Versioned DEF IInv, TypeOK, ReadingsBehind
  <2>2. report[r] <= v
      BY <1>1, <2>1
  <2>3. QED
      BY <1>2, <2>2 DEF IInv, TypeOK, ReadingsBehind
<1>7. /\ report' \in [Requests -> Versions] /\ logged' \subseteq Requests
      /\ UNCHANGED <<pool, job, answered, logged, clientVars, crashed>>
    BY DEF IInv, TypeOK
<1>8. /\ to \in [pc: (AtWork \ {"queued"}) \union {"refused"}, version: Versions]
      /\ to.pc \in {"saving", "writing"} => to.version \in 1..Final(r)
      /\ to.pc = "submitting" => r \in logged'
      /\ art.open => to.pc = "writing"
      /\ art.version = Reached(r)' /\ thread[r].pc # "queued"
    BY <1>1, <1>4
<1> HIDE DEF to, art, v, WriteArtifact, Written, Goto
<1>9. QED
    BY <1>2, <1>5, <1>6, <1>7, <1>8, ThreadMoves

\* The steps that leave the artifact alone and go on to the next phase.
LEMMA GoesOn ==
    ASSUME IInv, NEW r \in Requests, NEW from, NEW pc, NEW v,
           Goto(r, from, At(pc, v)),
           from \in {"idle", "logging", "loading", "scanning", "reporting"},
           pc \in {"saving", "logging", "submitting", "refused"},
           v \in Versions, pc = "saving" => v \in 1..Final(r),
           pc = "submitting" => r \in logged',
           pc # "refused" => artifact[r].version = Reached(r)',
           logged \subseteq logged', logged' \subseteq Requests,
           report' \in [Requests -> Versions],
           \A q \in Requests : report'[q] <= artifact[q].version,
           UNCHANGED <<artifact, pool, job, answered, clientVars, crashed>>
    PROVE  IInv'
<1> DEFINE to == At(pc, v)
<1>1. thread' = [thread EXCEPT ![r] = to] /\ thread[r].pc = from
    BY DEF Goto
<1>2. to \in [pc: (AtWork \ {"queued"}) \union {"refused"}, version: Versions]
      /\ to.pc = pc /\ to.version = v
    BY DEF At, AtWork
<1>3. /\ ~artifact[r].open /\ artifact = [artifact EXCEPT ![r] = artifact[r]]
      /\ artifact[r] \in [open: BOOLEAN, version: Versions] /\ artifact[r].version \in Nat
    BY <1>1, Closed
<1>4. artifact[r].version >= artifact[r].version /\ artifact' = artifact
    BY <1>3
<1> HIDE DEF to
<1>5. QED
    BY <1>1, <1>2, <1>3, <1>4, ThreadMoves

LEMMA PhaseChangesKeep ==
    ASSUME IInv, NEW r \in Requests,
           BeginRequest(r) \/ Log(r) \/ LogFails(r) \/ Correlate(r) \/ WriteReports(r)
    PROVE  IInv'
<1> USE Versioned
<1>1. /\ thread[r].pc \in AtWork \union {"idle"} => artifact[r].version = Reached(r)
      /\ \A q \in Requests : report[q] <= artifact[q].version
      /\ logged \subseteq Requests /\ report \in [Requests -> Versions]
      /\ thread \in [Requests -> [pc: AtWork \union Stopped \union {"lost"}, version: Versions]]
    BY DEF IInv, PhaseOnDisk, ReadingsBehind, TypeOK
<1>2. r \in Audits <=> r \notin Retests
    BY RequestAssumption DEF Requests
<1>3. CASE BeginRequest(r) /\ r \in Audits /\ users # "torn"
  <2>1. Goto(r, "idle", At("saving", 1))
      BY <1>2, <1>3 DEF BeginRequest, Saving
  <2>2. artifact[r].version = 0 /\ Reached(r)' = 0
      BY <1>1, <2>1 DEF Goto, At, Reached
  <2>3. UNCHANGED <<artifact, pool, job, answered, logged, report, clientVars, crashed>>
      BY <1>3 DEF BeginRequest
  <2>4. QED
      BY <1>1, <1>3, <2>1, <2>2, <2>3, GoesOn
<1>4. CASE BeginRequest(r) /\ r \notin Audits /\ users # "torn"
  <2>1. Goto(r, "idle", At("logging", 0))
      BY <1>2, <1>4 DEF BeginRequest
  <2>2. artifact[r].version = 0 /\ Reached(r)' = 0
      BY <1>1, <1>4, <2>1 DEF Goto, At, Reached
  <2>3. UNCHANGED <<artifact, pool, job, answered, logged, report, clientVars, crashed>>
      BY <1>4 DEF BeginRequest
  <2>4. QED
      BY <1>1, <2>1, <2>2, <2>3, GoesOn
<1>10. CASE BeginRequest(r) /\ users = "torn"
  <2>1. Goto(r, "idle", At("refused", 0))
      BY <1>10 DEF BeginRequest
  <2>2. UNCHANGED <<artifact, pool, job, answered, logged, report, clientVars, crashed>>
      BY <1>10 DEF BeginRequest
  <2>3. QED
      BY <1>1, <2>1, <2>2, GoesOn
<1>5. CASE Log(r)
  <2>1. Goto(r, "logging", At("submitting", 0))
      BY <1>5 DEF Log
  <2>2. artifact[r].version = Reached(r)'
      BY <1>1, <2>1 DEF Goto, At, Reached, AtWork
  <2>3. /\ logged' = logged \union {r}
        /\ UNCHANGED <<artifact, pool, job, answered, report, clientVars, crashed>>
      BY <1>5 DEF Log
  <2>4. QED
      BY <1>1, <2>1, <2>2, <2>3, GoesOn
<1>6. CASE LogFails(r)
  <2>1. Goto(r, "logging", At("refused", 0))
      BY <1>6 DEF LogFails
  <2>2. UNCHANGED <<artifact, pool, job, answered, logged, report, clientVars, crashed>>
      BY <1>6 DEF LogFails
  <2>3. QED
      BY <1>1, <2>1, <2>2, GoesOn
<1>7. CASE Correlate(r)
  <2>1. Goto(r, "scanning", At("saving", 3))
      BY <1>7 DEF Correlate, Saving
  <2>2. artifact[r].version = 2 /\ Reached(r)' = 2
      BY <1>1, <2>1 DEF Goto, At, Reached, AtWork
  <2>3. UNCHANGED <<artifact, pool, job, answered, logged, report, clientVars, crashed>>
      BY <1>7 DEF Correlate
  <2>4. QED
      BY <1>1, <2>1, <2>2, <2>3, GoesOn
<1>8. CASE WriteReports(r)
  <2>1. Goto(r, "reporting", At("saving", 4)) /\ report' = [report EXCEPT ![r] = 3]
      BY <1>8 DEF WriteReports, Saving
  <2>2. artifact[r].version = 3 /\ Reached(r)' = 3
      BY <1>1, <2>1 DEF Goto, At, Reached, AtWork
  <2>3. UNCHANGED <<artifact, pool, job, answered, logged, clientVars, crashed>>
      BY <1>8 DEF WriteReports
  <2>4. /\ report' \in [Requests -> Versions]
        /\ \A q \in Requests : report'[q] <= artifact[q].version
      BY <1>1, <2>1, <2>2
  <2>5. QED
      BY <1>1, <2>1, <2>2, <2>3, <2>4, GoesOn
<1>9. QED
    BY <1>3, <1>4, <1>5, <1>6, <1>7, <1>8, <1>10

LEMMA SubmitKeeps == ASSUME IInv, NEW r \in Requests, Submit(r) PROVE IInv'
<1> USE Versioned DEF IInv, Submit, Goto
<1>1. /\ thread[r].pc = "submitting" /\ thread' = [thread EXCEPT ![r] = At("queued", 0)]
      /\ pool' = Append(pool, r)
      /\ job' = [job EXCEPT ![r] = "QUEUED"] /\ answered' = answered \union {r}
      /\ UNCHANGED <<artifact, logged, report, command, projects, client, users, crashed>>
    BY DEF clientVars
<1>2. Busy' \subseteq Busy
    BY <1>1 DEF Busy, TypeOK
<1>3. Cardinality(Busy') <= max_workers
    BY <1>2, PoolShrinks DEF TypeOK, Busy
<1>4. TypeOK'
  <2>1. /\ thread' \in [Requests -> [pc: AtWork \union Stopped \union {"lost"},
                                     version: Versions]]
        /\ pool' \in Seq(Requests) /\ Saved' = Saved
        /\ job' \in [Requests -> {"none", "QUEUED", "RUNNING", "SUCCESS", "FAILED"}]
      BY <1>1 DEF TypeOK, At, AtWork, Saved
  <2>2. QED
      BY <1>1, <1>3, <2>1 DEF TypeOK, Busy
<1>5. PhaseOnDisk'
  <2>1. \A q \in Requests : q # r => thread'[q] = thread[q] /\ Reached(q)' = Reached(q)
      BY <1>1 DEF TypeOK, Reached
  <2>2. thread'[r].pc = "queued" /\ Reached(r)' = Reached(r)
      BY <1>1 DEF TypeOK, At, Reached
  <2>3. QED
      BY <1>1, <2>1, <2>2 DEF PhaseOnDisk, AtWork
<1>6. PoolHoldsQueued'
  <2>1. /\ DOMAIN pool' = 1..(Len(pool) + 1) /\ DOMAIN pool = 1..Len(pool)
        /\ Len(pool) \in Nat /\ pool'[Len(pool) + 1] = r
        /\ \A i \in 1..Len(pool) : pool'[i] = pool[i] /\ pool[i] \in Requests
      BY <1>1 DEF TypeOK
  <2>2. \A q \in Requests : thread'[q].pc = "queued" <=> q = r \/ thread[q].pc = "queued"
      BY <1>1 DEF TypeOK, At
  <2>3. \A i \in 1..Len(pool) : pool[i] # r
      BY <1>1, <2>1 DEF PoolHoldsQueued
  <2>4. \A i \in 1..(Len(pool) + 1) : i = Len(pool) + 1 \/ i \in 1..Len(pool)
      BY <2>1
  <2>5. \A q \in Requests : thread'[q].pc = "queued" => \E i \in DOMAIN pool' : pool'[i] = q
    <3>1. Len(pool) + 1 \in DOMAIN pool' /\ DOMAIN pool \subseteq DOMAIN pool'
        BY <2>1
    <3>2. QED
        BY <2>1, <2>2, <3>1 DEF PoolHoldsQueued
  <2>6. \A i \in DOMAIN pool' : thread'[pool'[i]].pc = "queued"
      BY <2>1, <2>2, <2>4 DEF PoolHoldsQueued
  <2>7. \A i, j \in DOMAIN pool' : pool'[i] = pool'[j] => i = j
      BY <2>1, <2>3, <2>4 DEF PoolHoldsQueued
  <2>8. QED
      BY <2>5, <2>6, <2>7 DEF PoolHoldsQueued
<1>7. JobsTruthful'
    BY <1>1 DEF JobsTruthful, TypeOK, At
<1>8. AnswersEarned'
  <2>1. r \in logged /\ (r \in Audits => artifact[r].version > 0)
      BY <1>1 DEF AnswersEarned, PhaseOnDisk, AtWork, Reached
  <2>2. \A q \in Requests : thread'[q].pc = "submitting" => thread[q].pc = "submitting"
      BY <1>1 DEF TypeOK, At
  <2>3. QED
      BY <1>1, <2>1, <2>2 DEF AnswersEarned, TypeOK
<1>9. ReadingsBehind'
    BY <1>1 DEF ReadingsBehind
<1>10. QED
    BY <1>4, <1>5, <1>6, <1>7, <1>8, <1>9

LEMMA TakeKeeps == ASSUME IInv, NEW r \in Requests, Take(r) PROVE IInv'
<1> DEFINE to == IF r \in Audits THEN Saving(Running) ELSE At("loading", 0)
<1> USE Versioned DEF IInv, Take, Goto
<1>1. /\ thread[r].pc = "queued" /\ thread' = [thread EXCEPT ![r] = to]
      /\ pool # <<>> /\ r = Head(pool) /\ pool' = Tail(pool)
      /\ job' = [job EXCEPT ![r] = "RUNNING"]
      /\ UNCHANGED <<artifact, answered, logged, report, command, projects, client, users, crashed>>
    BY DEF clientVars
<1>2. to.pc \in {"saving", "loading"} /\ to = At(to.pc, to.version)
      /\ to.version \in 0..2
      /\ (to.pc = "saving" => r \in Audits /\ to.version = 2)
      /\ (to.pc = "loading" => r \notin Audits)
    BY DEF Saving, At
<1>3. thread'[r] = to /\ \A q \in Requests : q # r => thread'[q] = thread[q]
    BY <1>1 DEF TypeOK
<1>4. Cardinality(Busy') <= max_workers
  <2>1. Cardinality(Busy) < max_workers
      BY DEF Busy
  <2>2. Busy' \subseteq Busy \union {r}
      BY <1>1 DEF Busy, TypeOK
  <2>3. QED
      BY <2>1, <2>2, PoolGrows
<1>5. TypeOK'
  <2>1. to \in [pc: AtWork \union Stopped \union {"lost"}, version: Versions]
      BY DEF Saving, At, AtWork
  <2>2. /\ thread' \in [Requests -> [pc: AtWork \union Stopped \union {"lost"},
                                     version: Versions]]
        /\ pool' \in Seq(Requests) /\ Saved' = Saved
        /\ job' \in [Requests -> {"none", "QUEUED", "RUNNING", "SUCCESS", "FAILED"}]
      BY <1>1, <2>1 DEF TypeOK, Saved
  <2>3. QED
      BY <1>1, <1>4, <2>2 DEF TypeOK, Busy
<1> HIDE DEF to, Take
<1>6. PhaseOnDisk'
  <2>1. \A q \in Requests : q # r => Reached(q)' = Reached(q)
      BY <1>3 DEF Reached
  <2>2. artifact[r].version = Reached(r)'
      BY <1>1, <1>2, <1>3 DEF PhaseOnDisk, AtWork, Reached
  <2>3. QED
      BY <1>1, <1>2, <1>3, <2>1, <2>2 DEF PhaseOnDisk, AtWork
<1>7. PoolHoldsQueued'
  <2>1. /\ DOMAIN pool = 1..Len(pool) /\ Len(pool) \in Nat \ {0} /\ pool[1] = r
        /\ DOMAIN pool' = 1..(Len(pool) - 1)
        /\ \A i \in 1..(Len(pool) - 1) : pool'[i] = pool[i + 1]
        /\ \A i \in 1..Len(pool) : pool[i] \in Requests
      BY <1>1 DEF TypeOK
  <2>2. \A q \in Requests : thread'[q].pc = "queued" <=> q # r /\ thread[q].pc = "queued"
      BY <1>2, <1>3
  <2>3. \A i \in 1..(Len(pool) - 1) : i + 1 \in 1..Len(pool) /\ pool'[i] # r
      BY <2>1 DEF PoolHoldsQueued
  <2>4. \A q \in Requests : thread'[q].pc = "queued" => \E i \in DOMAIN pool' : pool'[i] = q
    <3>1. SUFFICES ASSUME NEW q \in Requests, thread'[q].pc = "queued"
                   PROVE  \E i \in DOMAIN pool' : pool'[i] = q
        OBVIOUS
    <3>2. PICK j \in 1..Len(pool) : pool[j] = q
        BY <2>1, <2>2, <3>1 DEF PoolHoldsQueued
    <3>3. j # 1
        BY <2>1, <2>2, <3>1, <3>2
    <3>4. j - 1 \in DOMAIN pool' /\ pool'[j - 1] = q
        BY <2>1, <3>2, <3>3
    <3>5. QED
        BY <3>4
  <2>5. \A i \in DOMAIN pool' : thread'[pool'[i]].pc = "queued"
      BY <2>1, <2>2, <2>3 DEF PoolHoldsQueued
  <2>6. \A i, j \in DOMAIN pool' : pool'[i] = pool'[j] => i = j
    <3>1. SUFFICES ASSUME NEW i \in DOMAIN pool', NEW j \in DOMAIN pool', pool'[i] = pool'[j]
                   PROVE  i = j
        OBVIOUS
    <3>2. i + 1 \in DOMAIN pool /\ j + 1 \in DOMAIN pool /\ pool[i + 1] = pool[j + 1]
        BY <2>1, <3>1
    <3>3. i + 1 = j + 1
        BY <3>2 DEF PoolHoldsQueued
    <3>4. QED
        BY <2>1, <3>3
  <2>7. QED
      BY <2>4, <2>5, <2>6 DEF PoolHoldsQueued
<1>8. JobsTruthful'
    BY <1>1, <1>2, <1>3 DEF JobsTruthful, TypeOK
<1>9. AnswersEarned' /\ ReadingsBehind'
    BY <1>1, <1>2, <1>3 DEF AnswersEarned, ReadingsBehind, TypeOK
<1>10. QED
    BY <1>5, <1>6, <1>7, <1>8, <1>9

\* The function of a job ends: with SUCCESS only when all is saved.  A save that
\* has raised may leave the artifact torn, or written.
LEMMA JobEnds ==
    ASSUME IInv, NEW r \in Requests,
           NEW from \in {"loading", "saving", "writing", "scanning", "returning"},
           NEW status \in {"SUCCESS", "FAILED"},
           NEW art \in [open: BOOLEAN, version: Versions],
           Goto(r, from, At("ended", 0)), job' = [job EXCEPT ![r] = status],
           artifact' = [artifact EXCEPT ![r] = art], art.version >= artifact[r].version,
           status = "SUCCESS" => from = "returning" /\ art = artifact[r],
           UNCHANGED <<pool, answered, logged, report, clientVars, crashed>>
    PROVE  IInv'
<1> USE Versioned DEF IInv
<1>1. /\ thread[r].pc = from /\ thread' = [thread EXCEPT ![r] = At("ended", 0)]
      /\ UNCHANGED <<command, projects, client, users>>
    BY DEF Goto, clientVars
<1>2. thread'[r] = At("ended", 0) /\ \A q \in Requests : q # r => thread'[q] = thread[q]
    BY <1>1 DEF TypeOK
<1>3. /\ artifact'[r] = art /\ \A q \in Requests : q # r => artifact'[q] = artifact[q]
      /\ \A q \in Requests : /\ artifact[q].version \in Nat /\ artifact'[q].version \in Nat
                            /\ artifact'[q].version >= artifact[q].version
  <2>1. /\ artifact'[r] = art
        /\ \A q \in Requests : q # r => artifact'[q] = artifact[q]
      BY DEF TypeOK
  <2>2. art.version \in Versions /\ \A q \in Requests : artifact[q].version \in Versions
      BY DEF TypeOK
  <2>3. Versions \subseteq Nat
      OBVIOUS
  <2>4. QED
      BY <2>1, <2>2, <2>3
<1>4. Cardinality(Busy') <= max_workers
  <2>1. Busy' \subseteq Busy
      BY DEF Busy, TypeOK
  <2>2. QED
      BY <2>1, PoolShrinks DEF TypeOK, Busy
<1>5. TypeOK'
  <2>1. /\ thread' \in [Requests -> [pc: AtWork \union Stopped \union {"lost"},
                                     version: Versions]]
        /\ artifact' \in [Requests -> [open: BOOLEAN, version: Versions]]
        /\ job' \in [Requests -> {"none", "QUEUED", "RUNNING", "SUCCESS", "FAILED"}]
      BY <1>1 DEF TypeOK, At, Stopped
  <2>2. Saved \subseteq Saved'
      BY <1>3 DEF Saved
  <2>3. projects' \in [pc: {"idle", "loading", "error", "served"}, unread: SUBSET Saved']
      BY <1>1, <2>2 DEF TypeOK
  <2>4. QED
      BY <1>1, <1>4, <2>1, <2>3 DEF TypeOK, Busy
<1>6. PhaseOnDisk'
  <2>1. \A q \in Requests : q # r => Reached(q)' = Reached(q)
      BY <1>2 DEF Reached
  <2>2. QED
      BY <1>1, <1>2, <1>3, <2>1 DEF PhaseOnDisk, AtWork, At
<1>7. PoolHoldsQueued'
    BY <1>1, <1>2 DEF PoolHoldsQueued, TypeOK, At
<1>8. JobsTruthful'
  <2>1. status = "SUCCESS" => ~art.open /\ art.version = Final(r)
      BY <1>1 DEF PhaseOnDisk, AtWork, Reached
  <2>2. QED
      BY <1>1, <1>2, <1>3, <2>1 DEF JobsTruthful, TypeOK
<1>9. AnswersEarned'
    BY <1>1, <1>2, <1>3 DEF AnswersEarned, TypeOK, At
<1>10. ReadingsBehind'
  <2>1. \A q \in Requests : report[q] \in Nat
    <3>1. report \in [Requests -> Versions]
        BY DEF TypeOK
    <3>2. Versions \subseteq Nat
        OBVIOUS
    <3>3. QED
        BY <3>1, <3>2
  <2>2. command # Nothing => command.audit \in Requests /\ command.version \in Nat
      BY DEF TypeOK
  <2>3. QED
      BY <1>1, <1>3, <2>1, <2>2 DEF ReadingsBehind
<1>11. QED
    BY <1>5, <1>6, <1>7, <1>8, <1>9, <1>10

LEMMA EndKeeps ==
    ASSUME IInv, NEW r \in Requests, NEW from \in {"loading", "scanning", "returning"},
           NEW status \in {"SUCCESS", "FAILED"}, status = "SUCCESS" => from = "returning",
           End(r, from, status)
    PROVE  IInv'
<1>1. thread[r].pc = from
    BY DEF End, Goto
<1>2. /\ artifact = [artifact EXCEPT ![r] = artifact[r]]
      /\ artifact[r] \in [open: BOOLEAN, version: Versions] /\ artifact[r].version \in Nat
    BY <1>1, Closed
<1>3. artifact[r].version >= artifact[r].version
    BY <1>2
<1>4. /\ Goto(r, from, At("ended", 0)) /\ job' = [job EXCEPT ![r] = status]
      /\ artifact' = [artifact EXCEPT ![r] = artifact[r]]
      /\ UNCHANGED <<pool, answered, logged, report, clientVars, crashed>>
    BY <1>2 DEF End
<1>5. status = "SUCCESS" => from = "returning" /\ artifact[r] = artifact[r]
    OBVIOUS
<1>6. from \in {"loading", "saving", "writing", "scanning", "returning"}
    OBVIOUS
<1>7. QED
    BY <1>2, <1>3, <1>4, <1>5, <1>6, JobEnds

LEMMA SaveRaisesKeeps == ASSUME IInv, NEW r \in Requests, SaveRaises(r) PROVE IInv'
<1> DEFINE v == thread[r].version
<1>1. /\ thread[r].pc \in {"saving", "writing"} /\ v \in 1..Final(r) /\ v \in Versions
      /\ artifact[r].version = v - 1
      /\ UNCHANGED <<pool, answered, logged, report, clientVars, crashed>>
    BY DEF SaveRaises, IInv, TypeOK, PhaseOnDisk, AtWork, Reached
<1>2. PICK art \in [open: BOOLEAN, version: Versions] :
          /\ artifact' = [artifact EXCEPT ![r] = art]
          /\ art.version >= artifact[r].version
  <2>1. /\ artifact = [artifact EXCEPT ![r] = artifact[r]]
        /\ artifact[r] \in [open: BOOLEAN, version: Versions] /\ artifact[r].version \in Nat
      BY Versioned DEF IInv, TypeOK
  <2>2. CASE UNCHANGED artifact
      BY <2>1, <2>2
  <2>3. CASE artifact' = Written(r)
    <3>1. [open |-> FALSE, version |-> v] \in [open: BOOLEAN, version: Versions]
          /\ v >= artifact[r].version
        BY <1>1, Versioned
    <3>2. QED
        BY <2>3, <3>1 DEF Written
  <2>4. QED
      BY <2>2, <2>3 DEF SaveRaises
<1> HIDE DEF v
<1>3. CASE Goto(r, thread[r].pc, At("refused", 0)) /\ UNCHANGED job
  <2> DEFINE to == At("refused", 0)
  <2>1. /\ to \in [pc: (AtWork \ {"queued"}) \union {"refused"}, version: Versions]
        /\ to.pc = "refused"
      BY Versioned DEF At
  <2>2. thread' = [thread EXCEPT ![r] = to]
      BY <1>3 DEF Goto
  <2>3. /\ report' \in [Requests -> Versions] /\ logged' \subseteq Requests
        /\ \A q \in Requests : report'[q] <= artifact'[q].version
    <3>1. \A q \in Requests : /\ report[q] \in Nat /\ artifact[q].version \in Nat
                             /\ artifact'[q].version \in Nat
                             /\ artifact'[q].version >= artifact[q].version
      <4>1. artifact'[r] = art /\ \A q \in Requests : q # r => artifact'[q] = artifact[q]
          BY <1>2 DEF IInv, TypeOK
      <4>2. /\ art.version \in Nat
            /\ \A q \in Requests : report[q] \in Nat /\ artifact[q].version \in Nat
        <5>1. Versions \subseteq Nat
            BY Versioned
        <5>2. /\ art.version \in Versions
              /\ \A q \in Requests : report[q] \in Versions /\ artifact[q].version \in Versions
            BY DEF IInv, TypeOK
        <5>3. QED
            BY <5>1, <5>2
      <4>3. QED
          BY <1>2, <4>1, <4>2
    <3>2. QED
        BY <1>1, <3>1 DEF IInv, TypeOK, ReadingsBehind
  <2> HIDE DEF to
  <2>4. QED
      BY <1>1, <1>2, <1>3, <2>1, <2>2, <2>3, ThreadMoves
<1>4. CASE /\ Goto(r, thread[r].pc, At("ended", 0))
           /\ job' = [job EXCEPT ![r] = "FAILED"]
  <2>1. PICK from \in {"saving", "writing"} : from = thread[r].pc
      BY <1>1
  <2>2. QED
      BY <1>1, <1>2, <1>4, <2>1, JobEnds
<1>5. QED
    BY <1>3, <1>4 DEF SaveRaises

LEMMA LoadPreviousKeeps == ASSUME IInv, NEW r \in Requests, LoadPrevious(r) PROVE IInv'
<1> USE Versioned
<1>1. CASE End(r, "loading", "FAILED")
    BY <1>1, EndKeeps
<1>2. CASE ~End(r, "loading", "FAILED")
  <2>1. /\ Goto(r, "loading", At("saving", 1))
        /\ UNCHANGED <<artifact, pool, job, answered, logged, report, clientVars, crashed>>
      BY <1>2 DEF LoadPrevious, Saving
  <2>2. artifact[r].version = 0 /\ Reached(r)' = 0
    <3>1. /\ thread[r].pc \in AtWork => artifact[r].version = Reached(r)
          /\ thread \in [Requests -> [pc: AtWork \union Stopped \union {"lost"},
                                      version: Versions]]
        BY DEF IInv, TypeOK, PhaseOnDisk
    <3>2. QED
        BY <2>1, <3>1 DEF Goto, At, Reached, AtWork
  <2>3. /\ logged \subseteq Requests /\ report \in [Requests -> Versions]
        /\ \A q \in Requests : report[q] <= artifact[q].version
      BY DEF IInv, TypeOK, ReadingsBehind
  <2>4. QED
      BY <2>1, <2>2, <2>3, GoesOn
<1>3. QED
    BY <1>1, <1>2

LEMMA ClientsKeep ==
    ASSUME IInv, LoadForReport \/ Regenerate \/ Projects PROVE IInv'
<1> USE Versioned DEF IInv
<1>1. /\ UNCHANGED <<thread, artifact, pool, job, answered, logged, client, users, crashed>>
      /\ Saved' = Saved
    BY DEF LoadForReport, Regenerate, Projects, ListAudits, LoadNext, AnswerProjects,
           requestVars, Saved
<1>2. command # Nothing => command.audit \in Requests /\ command.version \in Versions
    BY DEF TypeOK
<1>3. /\ report' \in [Requests -> Versions]
      /\ command' \in [audit: Requests, version: Versions] \union {Nothing}
      /\ ReadingsBehind'
  <2>1. CASE LoadForReport
    <3>1. PICK r \in Requests : command' = [audit |-> r, version |-> artifact[r].version]
        BY <2>1, RequestAssumption DEF LoadForReport
    <3>2. QED
        BY <1>1, <2>1, <3>1 DEF LoadForReport, TypeOK, ReadingsBehind
  <2>2. CASE Regenerate
      BY <1>1, <1>2, <2>2 DEF Regenerate, TypeOK, ReadingsBehind
  <2>3. CASE Projects
      BY <1>1, <2>3 DEF Projects, ListAudits, LoadNext, AnswerProjects, TypeOK, ReadingsBehind
  <2>4. QED
      BY <2>1, <2>2, <2>3
<1>4. projects' \in [pc: {"idle", "loading", "error", "served"}, unread: SUBSET Saved']
  <2>1. CASE LoadForReport \/ Regenerate
      BY <1>1, <2>1 DEF LoadForReport, Regenerate, TypeOK
  <2>2. CASE ListAudits
      BY <1>1, <2>2 DEF ListAudits
  <2>3. CASE LoadNext
      BY <1>1, <2>3 DEF LoadNext, TypeOK
  <2>4. CASE AnswerProjects
      BY <1>1, <2>4 DEF AnswerProjects, TypeOK
  <2>5. QED
      BY <2>1, <2>2, <2>3, <2>4 DEF Projects
<1>5. TypeOK'
    BY <1>1, <1>3, <1>4 DEF TypeOK
<1>6. PhaseOnDisk' /\ PoolHoldsQueued' /\ JobsTruthful' /\ AnswersEarned'
    BY <1>1 DEF PhaseOnDisk, Reached, PoolHoldsQueued, JobsTruthful, AnswersEarned
<1>7. QED
    BY <1>3, <1>5, <1>6

LEMMA CrashKeeps == ASSUME IInv, Crash PROVE IInv'
<1> USE Versioned DEF IInv, Crash
<1>1. \A r \in Requests : \/ thread'[r] = thread[r] /\ thread[r].pc \in Stopped
                          \/ thread'[r] = At("lost", 0) /\ thread[r].pc \notin Stopped
  <2>1. thread' = [r \in Requests |->
                      IF thread[r].pc \in Stopped THEN thread[r] ELSE At("lost", 0)]
      OBVIOUS
  <2> HIDE DEF IInv, Crash
  <2>2. QED
      BY <2>1
<1>2. Busy' = {}
    BY DEF Busy
<1>3. Cardinality(Busy') <= max_workers
    BY <1>2, FS_EmptySet, WorkersAssumption
<1>4. TypeOK'
  <2>1. /\ thread' \in [Requests -> [pc: AtWork \union Stopped \union {"lost"},
                                     version: Versions]]
        /\ pool' \in Seq(Requests) /\ Saved' = Saved
        /\ job' \in [Requests -> {"none", "QUEUED", "RUNNING", "SUCCESS", "FAILED"}]
        /\ projects' \in [pc: {"idle", "loading", "error", "served"}, unread: SUBSET Saved']
      BY DEF TypeOK, At, Saved
  <2>2. QED
      BY <1>3, <2>1 DEF TypeOK, Busy
<1>5. PhaseOnDisk'
    BY <1>1 DEF PhaseOnDisk, Reached, AtWork, Stopped, At
<1>6. PoolHoldsQueued'
    BY <1>1 DEF PoolHoldsQueued, Stopped, At
<1>7. JobsTruthful'
    BY DEF JobsTruthful
<1>8. AnswersEarned'
    BY <1>1 DEF AnswersEarned, Stopped, At
<1>9. ReadingsBehind'
    BY DEF ReadingsBehind
<1>10. QED
    BY <1>4, <1>5, <1>6, <1>7, <1>8, <1>9

LEMMA NextIInv == IInv /\ [Next]_vars => IInv'
<1> SUFFICES ASSUME IInv, [Next]_vars PROVE IInv'
    OBVIOUS
<1>1. CASE UNCHANGED vars
    BY <1>1 DEF IInv, TypeOK, Saved, PhaseOnDisk, Reached, PoolHoldsQueued, JobsTruthful,
                AnswersEarned, ReadingsBehind, vars
<1>2. CASE \E r \in Requests : BeginRequest(r) \/ Step(r) \/ StepFails(r)
  <2>1. PICK r \in Requests : BeginRequest(r) \/ Step(r) \/ StepFails(r)
      BY <1>2
  <2>2. CASE BeginRequest(r) \/ Log(r) \/ LogFails(r) \/ Correlate(r) \/ WriteReports(r)
      BY <2>2, PhaseChangesKeep
  <2>3. CASE OpenArtifact(r) \/ WriteArtifact(r)
      BY <2>3, OpenArtifactKeeps, WriteArtifactKeeps
  <2>7. CASE SaveRaises(r)
      BY <2>7, SaveRaisesKeeps
  <2>4. CASE Submit(r) \/ Take(r) \/ LoadPrevious(r)
      BY <2>4, SubmitKeeps, TakeKeeps, LoadPreviousKeeps
  <2>5. CASE Raise(r) \/ Return(r)
      BY <2>5, EndKeeps DEF Raise, Return
  <2>6. QED
      BY <2>1, <2>2, <2>3, <2>4, <2>5, <2>7 DEF Step, StepFails
<1>3. CASE LoadForReport \/ Regenerate \/ Projects \/ Crash
    BY <1>3, ClientsKeep, CrashKeeps
<1>4. QED
    BY <1>1, <1>2, <1>3 DEF Next

-----------------------------------------------------------------------------
(* The theorems *)

LEMMA Inductive == Spec => []IInv
<1>1. Init => IInv
    BY InitIInv
<1>2. IInv /\ [Next]_vars => IInv'
    BY NextIInv
<1>3. QED
    BY <1>1, <1>2, PTL DEF Spec

\* Every reachable state has the types of TypeOK; no more jobs run than the pool
\* has threads.
THEOREM TypeCorrect == Spec => []TypeOK
<1>1. IInv => TypeOK
    BY DEF IInv
<1>2. QED
    BY <1>1, Inductive, PTL

\* Whatever fails, and whenever the server ends, an audit that is not finished on
\* disk is in somebody's hands, or its client can see why not.
THEOREM NothingForgotten == Spec => []NobodyForgotten
<1>1. IInv => NobodyForgotten
  <2> SUFFICES ASSUME IInv, NEW r \in Requests, Unfinished(r)
               PROVE  \/ thread[r].pc \in AtWork \ {"queued"}
                      \/ /\ thread[r].pc = "queued"
                         /\ Cardinality({i \in DOMAIN pool : pool[i] = r}) = 1
                      \/ thread[r].pc = "ended" /\ (job[r] = "FAILED" \/ crashed)
                      \/ thread[r].pc \in {"refused", "lost"}
      BY DEF NobodyForgotten
  <2> USE Versioned DEF IInv
  <2>1. thread[r].pc # "idle"
      BY DEF PhaseOnDisk, Reached, Unfinished
  <2>2. CASE thread[r].pc = "ended"
      BY <2>2 DEF JobsTruthful, Unfinished, TypeOK
  <2>3. CASE thread[r].pc = "queued"
    <3>1. PICK i \in DOMAIN pool : pool[i] = r
        BY <2>3 DEF PoolHoldsQueued
    <3>2. {j \in DOMAIN pool : pool[j] = r} = {i}
        BY <3>1 DEF PoolHoldsQueued
    <3>3. Cardinality({i}) = 1
        BY FS_Singleton
    <3>4. QED
        BY <2>3, <3>2, <3>3
  <2>4. QED
      BY <2>1, <2>2, <2>3 DEF TypeOK, Stopped
<1>2. QED
    BY <1>1, Inductive, PTL

\* An answer is in audit.log and its audit on disk, and its job is known to the
\* server that gave it.
THEOREM AnswersStand == Spec => []AnswersHold
<1>1. IInv => AnswersHold
    BY Versioned DEF IInv, AnswersEarned, AnswersHold, GetAudit, Readable
<1>2. QED
    BY <1>1, Inductive, PTL

\* Report files go back only by a report command that had read an older artifact.
THEOREM ReportsGoForward == Spec => ReportsGoBackByCommand
<1>1. IInv /\ [Next]_vars =>
          [\A r \in Requests : report'[r] < report[r] =>
              command.audit = r /\ command.version < artifact[r].version]_vars
  <2> SUFFICES ASSUME IInv, Next, NEW r \in Requests, report'[r] < report[r]
               PROVE  command.audit = r /\ command.version < artifact[r].version
      OBVIOUS
  <2> USE Versioned DEF IInv
  <2>1. report[r] \in Nat /\ artifact[r].version \in Nat /\ report[r] <= artifact[r].version
      BY DEF TypeOK, ReadingsBehind
  <2>2. CASE Regenerate
    <3>1. command.version \in Nat /\ report' = [report EXCEPT ![command.audit] = command.version]
        BY <2>2 DEF Regenerate, TypeOK
    <3>2. QED
        BY <2>1, <3>1 DEF TypeOK
  <2>3. CASE \E q \in Requests : WriteReports(q)
    <3>1. PICK q \in Requests : WriteReports(q)
        BY <2>3
    <3>2. artifact[q].version = 3 /\ report' = [report EXCEPT ![q] = 3]
        BY <3>1 DEF WriteReports, Goto, PhaseOnDisk, AtWork, Reached
    <3>3. QED
        BY <2>1, <3>2 DEF TypeOK
  <2>4. CASE UNCHANGED report
      BY <2>1, <2>4
  <2>5. QED
      BY <2>2, <2>3, <2>4
      DEF Next, Step, StepFails, BeginRequest, OpenArtifact, WriteArtifact, SaveRaises, Log,
          LogFails, Submit, Take, LoadPrevious, End, Correlate, Raise, Return, LoadForReport, Projects, ListAudits,
          LoadNext, AnswerProjects, Crash
<1>2. QED
    BY <1>1, Inductive, PTL DEF Spec, ReportsGoBackByCommand
=============================================================================
