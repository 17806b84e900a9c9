---------------------------- MODULE Sweeps_proofs ----------------------------
(***************************************************************************)
(* What the hourly sweeps may and may not do: the exports they work on,    *)
(* and the status log they cut short, for every value of the constants.    *)
(*                                                                         *)
(* Exports.  Neither property is inductive.  The chain of sweeps has to    *)
(* know where the holder of the queue stands when no job waits (ChainInv), *)
(* and a finished row is safe because a row with an owner is a processing  *)
(* one (RowInv), whatever a worker that lost its lease still believes.     *)
(*                                                                         *)
(* Uptime.  The invariant is that the log is the history (IsHistory): what *)
(* an interval covers was lived as it says, and every moment the retention *)
(* covers is covered.  An interval keeps the flag it began with, so it can *)
(* only be asked about maintenance while no window begins or ends in it:   *)
(* of the open one that is FlagFits, of a moment it is lived.steady.       *)
(* What the page computes from the log is a loop three times over (the     *)
(* merge of a day's outages, the average of a day of a group, the average  *)
(* of its days); a loop is followed by IntervalInduction on how far it has *)
(* come.                                                                   *)
(***************************************************************************)
EXTENDS DataExports, Uptime, FiniteSetTheorems, FunctionTheorems, SequenceTheorems, TLAPS

-----------------------------------------------------------------------------
(* Exports.                                                                *)

\* Without a waiting job there is a running one that would be repeated, and it
\* has not gone past scheduling its successor.
ChainInv ==
    keyed \/ /\ lock.by \in Workers /\ lock.retryable
             /\ worker[lock.by].pc \in {"scheduling", "down"}

\* Only a processing row is owned, and a finished one has its own archive.
RowInv(j) ==
    /\ jobs[j].owner # None => jobs[j].status = "PROCESSING"
    /\ jobs[j].status = "SUCCEEDED" => /\ jobs[j].file \in files
                                       /\ jobs[j].file[1] = j

\* What a worker has in hand, and that it stored the archive before it
\* completes the export.
InHand(k) ==
    /\ k.pc \in {"building", "storing", "completing", "failing"} =>
          k.job \in JobIds /\ k.attempt \in 1..MaxAttempts
    /\ k.pc = "completing" => <<k.job, k.attempt>> \in files

ExportInv ==
    /\ TypeOK
    /\ ChainInv
    /\ \A j \in JobIds : RowInv(j)
    /\ \A w \in Workers : InHand(worker[w])

\* What a step may do to the rows that are finished.
FinishedStays ==
    \A j \in JobIds :
        jobs[j].status \in {"SUCCEEDED", "FAILED"} =>
            jobs'[j] = jobs[j] \/ jobs'[j].status = "GONE"

USE NoneAssumption, AttemptsAssumption, ExportBoundsAssumption

-----------------------------------------------------------------------------

LEMMA ExportInitInv == Init => ExportInv
  BY DEF Init, ExportInv, TypeOK, ChainInv, RowInv, InHand, JobIds, AbsentJob,
         IdleWorker, Unlocked, Job, Pcs, Files, File

WorkerStates == [pc : Pcs, job : 0..MaxJobs, attempt : 0..MaxAttempts]

\* A step of one worker that leaves rows and archives alone: what matters is
\* the queue and what the worker has in hand afterwards.
LEMMA QueueStepInv ==
  ASSUME ExportInv, UNCHANGED <<org, jobs, files>>, faults' \in 0..MaxFaults,
         NEW w \in Workers, NEW k \in WorkerStates, InHand(k),
         worker' = [worker EXCEPT ![w] = k],
         keyed' \in BOOLEAN, lock' \in [by : Workers \union {None}, retryable : BOOLEAN],
         ChainInv'
  PROVE  ExportInv'
  <1>1. TypeOK'
    BY DEF ExportInv, TypeOK, WorkerStates
  <1>2. ASSUME NEW v \in Workers PROVE InHand(worker[v])'
    <2>1. worker'[v] = k \/ worker'[v] = worker[v]
      BY DEF ExportInv, TypeOK
    <2>2. QED
      BY <2>1 DEF ExportInv, InHand
  <1>3. ASSUME NEW j \in JobIds PROVE RowInv(j)'
    BY DEF ExportInv, RowInv
  <1>4. QED
    BY <1>1, <1>2, <1>3 DEF ExportInv
\* A worker that goes on with what it has in hand, or drops it.
LEMMA GotoState ==
  ASSUME ExportInv, NEW w \in Workers, NEW pc \in Pcs, Goto(w, pc), pc # "completing",
         pc \in {"building", "storing", "failing"} =>
             worker[w].pc \in {"building", "storing", "completing"}
  PROVE  \E k \in WorkerStates : k.pc = pc /\ InHand(k) /\ worker' = [worker EXCEPT ![w] = k]
  <1> DEFINE k == [worker[w] EXCEPT !.pc = pc]
  <1>1. k \in WorkerStates /\ k.pc = pc /\ InHand(k)
    BY DEF ExportInv, TypeOK, WorkerStates, InHand
  <1>2. worker' = [worker EXCEPT ![w] = k]
    BY DEF Goto, ExportInv, TypeOK
  <1>3. QED
    BY <1>1, <1>2

LEMMA IdleState ==
  \A pc \in {"idle", "down"} :
      LET k == [IdleWorker EXCEPT !.pc = pc] IN k \in WorkerStates /\ k.pc = pc /\ InHand(k)
  BY DEF IdleWorker, WorkerStates, InHand, Pcs

\* Releasing the queue keeps the chain: a job that waits still waits, and one
\* that would be repeated waits again.
LEMMA ReleaseChain ==
  ASSUME TypeOK, ChainInv, NEW w, NEW again \in BOOLEAN, Release(w, again),
         again \/ (lock.by = w => keyed),
         \A v \in Workers \ {w} : worker'[v] = worker[v]
  PROVE  /\ ChainInv' /\ keyed' \in BOOLEAN
         /\ lock' \in [by : Workers \union {None}, retryable : BOOLEAN]
  <1>1. CASE lock.by = w
    <2>1. lock' = Unlocked /\ keyed' = (keyed \/ (again /\ lock.retryable))
      BY <1>1 DEF Release
    <2>2. keyed \/ (again /\ lock.retryable)
      BY <1>1 DEF ChainInv
    <2>3. keyed' = TRUE
      BY <2>1, <2>2
    <2>4. QED
      BY <2>1, <2>3 DEF ChainInv, Unlocked
  <1>2. CASE lock.by # w
    BY <1>2 DEF Release, TypeOK, ChainInv
  <1>3. QED
    BY <1>1, <1>2

\* The steps of the queue and of its workers that touch no row.
LEMMA QueueActionInv ==
  ASSUME ExportInv, NEW w \in Workers,
         \/ StartSweep(w) \/ ScheduleNext(w) \/ EndSweep(w) \/ SweepThrows(w)
         \/ Crash(w) \/ Restart(w) \/ Build(w) \/ Throws(w)
  PROVE  ExportInv' /\ UNCHANGED jobs
  <1>1. TypeOK /\ ChainInv
    BY DEF ExportInv
  <1>2. UNCHANGED <<org, jobs, files>> /\ faults' \in 0..MaxFaults
    <2>1. UNCHANGED <<org, jobs, files>>
      BY DEF StartSweep, ScheduleNext, EndSweep, SweepThrows, Crash, Restart, Build, Throws
    <2>2. faults' = faults \/ (faults < MaxFaults /\ faults' = faults + 1)
      BY DEF StartSweep, ScheduleNext, EndSweep, SweepThrows, Crash, Restart, Build, Throws
    <2>3. QED
      BY <1>1, <2>1, <2>2 DEF TypeOK
  <1> SUFFICES /\ \E k \in WorkerStates : InHand(k) /\ worker' = [worker EXCEPT ![w] = k]
               /\ keyed' \in BOOLEAN
               /\ lock' \in [by : Workers \union {None}, retryable : BOOLEAN]
               /\ ChainInv'
    BY <1>2, QueueStepInv
  <1>3. CASE StartSweep(w)
    <2>1. PICK k \in WorkerStates : k.pc = "scheduling" /\ InHand(k) /\ worker' = [worker EXCEPT ![w] = k]
      BY <1>3, GotoState DEF StartSweep, Pcs
    <2>2. keyed' = FALSE /\ lock' = [by |-> w, retryable |-> TRUE]
      BY <1>3 DEF StartSweep
    <2>3. worker'[w].pc = "scheduling"
      BY <1>1, <2>1 DEF TypeOK
    <2>4. QED
      BY <2>1, <2>2, <2>3 DEF ChainInv
  <1>4. CASE ScheduleNext(w) \/ Restart(w)
    <2>1. \E k \in WorkerStates : InHand(k) /\ worker' = [worker EXCEPT ![w] = k]
      BY <1>4, GotoState DEF ScheduleNext, Restart, Pcs
    <2>2. keyed' = TRUE /\ lock' = [lock EXCEPT !.retryable = FALSE]
      BY <1>4 DEF ScheduleNext, Restart, AddJob, WaitsAfterwards
    <2>3. QED
      BY <1>1, <2>1, <2>2 DEF ChainInv, TypeOK
  <1>5. CASE EndSweep(w) \/ SweepThrows(w)
    <2>1. worker' = [worker EXCEPT ![w] = IdleWorker]
      BY <1>5 DEF EndSweep, SweepThrows
    <2>2. IdleWorker \in WorkerStates /\ InHand(IdleWorker)
      BY DEF IdleWorker, WorkerStates, InHand, Pcs
    <2>3. EndSweep(w) => (lock.by = w => keyed)
      BY <1>1 DEF EndSweep, ChainInv
    <2>4. QED
      BY <1>1, <1>5, <2>1, <2>2, <2>3, ReleaseChain DEF EndSweep, SweepThrows, TypeOK
  <1>6. CASE Crash(w)
    <2> DEFINE k == [IdleWorker EXCEPT !.pc = "down"]
    <2>1. k \in WorkerStates /\ InHand(k) /\ k.pc = "down"
      BY IdleState
    <2>2. worker' = [worker EXCEPT ![w] = k] /\ UNCHANGED <<keyed, lock>>
      BY <1>6 DEF Crash
    <2> HIDE DEF k
    <2>3. QED
      BY <1>1, <2>1, <2>2 DEF TypeOK, ChainInv
  <1>7. CASE Build(w) \/ Throws(w)
    <2>1. \E k \in WorkerStates : InHand(k) /\ worker' = [worker EXCEPT ![w] = k]
      BY <1>7, GotoState DEF Build, Throws, Pcs
    <2>2. worker[w].pc \notin {"scheduling", "down"} /\ UNCHANGED <<keyed, lock>>
      BY <1>7 DEF Build, Throws
    <2>3. QED
      BY <1>1, <2>1, <2>2 DEF TypeOK, ChainInv
  <1>8. QED
    BY <1>3, <1>4, <1>5, <1>6, <1>7

\* Unlocking lets the queue repeat the job of a worker that is gone.
LEMMA UnlockInv == ExportInv /\ Unlock => ExportInv' /\ UNCHANGED jobs
  <1> SUFFICES ASSUME ExportInv, Unlock PROVE ExportInv' /\ UNCHANGED jobs
    OBVIOUS
  <1>1. TypeOK /\ ChainInv
    BY DEF ExportInv
  <1>2. UNCHANGED <<org, jobs, files, worker>> /\ faults' \in 0..MaxFaults
    BY <1>1 DEF Unlock, TypeOK
  <1>3. ChainInv' /\ TypeOK'
    BY <1>1, <1>2, ReleaseChain DEF Unlock, TypeOK
  <1>4. QED
    BY <1>2, <1>3 DEF ExportInv, RowInv, InHand

\* A step that changes rows, if at all, into sound ones, and may add archives.
LEMMA RowStepInv ==
  ASSUME ExportInv, TypeOK', ChainInv', files \subseteq files',
         \A j \in JobIds : jobs'[j] = jobs[j] \/ RowInv(j)',
         \A w \in Workers : worker'[w] = worker[w] \/ InHand(worker[w])'
  PROVE  ExportInv'
  <1>1. ASSUME NEW j \in JobIds PROVE RowInv(j)'
    BY DEF ExportInv, RowInv
  <1>2. ASSUME NEW w \in Workers PROVE InHand(worker[w])'
    BY DEF ExportInv, InHand
  <1>3. QED
    BY <1>1, <1>2 DEF ExportInv

LEMMA StoreInv ==
  ASSUME ExportInv, NEW w \in Workers, Store(w)
  PROVE  ExportInv' /\ FinishedStays
  <1>1. files \subseteq files' /\ File(w) \in Files
    BY DEF Store, File, Files, ExportInv, InHand
  <1>2. TypeOK' /\ ChainInv'
    BY <1>1 DEF Store, Goto, ExportInv, TypeOK, ChainInv, Pcs, Files
  <1>3. ASSUME NEW v \in Workers PROVE worker'[v] = worker[v] \/ InHand(worker[v])'
    <2>1. CASE v # w
      BY <2>1 DEF Store, Goto, ExportInv, TypeOK
    <2>2. CASE v = w
      <3>1. /\ worker'[w].job = worker[w].job /\ worker'[w].attempt = worker[w].attempt
            /\ worker'[w].pc = "completing"
        BY DEF Store, Goto, ExportInv, TypeOK
      <3>2. InHand(worker[w]) /\ worker[w].pc = "storing" /\ File(w) \in files'
        BY DEF Store, ExportInv
      <3>3. QED
        BY <2>2, <3>1, <3>2 DEF InHand, File
    <2>3. QED
      BY <2>1, <2>2
  <1>4. UNCHANGED jobs
    BY DEF Store
  <1>5. \A j \in JobIds : jobs'[j] = jobs[j]
    BY <1>4
  <1>6. ExportInv'
    BY <1>1, <1>2, <1>3, <1>5, RowStepInv
  <1>7. QED
    BY <1>5, <1>6 DEF FinishedStays

LEMMA LeasedRow ==
  ASSUME NEW r \in Job, r.attempts + 1 \in 1..MaxAttempts, NEW w \in Workers
  PROVE  LET row == [r EXCEPT !.status = "PROCESSING", !.attempts = @ + 1,
                              !.owner = w, !.live = TRUE]
         IN  row \in Job /\ row.status = "PROCESSING"
  <1> DEFINE n == r.attempts + 1
             row == [r EXCEPT !.status = "PROCESSING", !.attempts = n,
                              !.owner = w, !.live = TRUE]
  <1>1. n \in 0..MaxAttempts
    OBVIOUS
  <1> HIDE DEF n
  <1>2. row \in Job
    BY <1>1 DEF Job
  <1>3. row.status = "PROCESSING"
    BY DEF Job
  <1>4. QED
    BY <1>2, <1>3 DEF n

\* A worker leases only rows that are queued or processing.
LEMMA LeaseInv ==
  ASSUME ExportInv, NEW w \in Workers, Lease(w)
  PROVE  ExportInv' /\ FinishedStays
  <1>1. CASE UNCHANGED jobs /\ Goto(w, "ending")
    <2>1. worker' = [worker EXCEPT ![w] = [worker[w] EXCEPT !.pc = "ending"]]
      BY <1>1 DEF Goto, ExportInv, TypeOK
    <2>0. worker[w].pc = "leasing" /\ UNCHANGED <<org, jobs, files, keyed, lock, faults>>
      BY <1>1 DEF Lease
    <2>2. TypeOK' /\ ChainInv'
      BY <2>1, <2>0 DEF ExportInv, TypeOK, ChainInv, Pcs
    <2>3. \A v \in Workers : worker'[v] = worker[v] \/ InHand(worker[v])'
      BY <2>1 DEF ExportInv, TypeOK, InHand
    <2>4. (\A j \in JobIds : jobs'[j] = jobs[j]) /\ files' = files
      BY <1>1 DEF Lease
    <2>5. ExportInv'
      BY <2>2, <2>3, <2>4, RowStepInv
    <2>6. QED
      BY <2>4, <2>5 DEF FinishedStays
  <1>2. ASSUME NEW j \in JobIds, Leasable(jobs[j]),
               jobs' = [jobs EXCEPT ![j].status = "PROCESSING", ![j].attempts = @ + 1,
                                    ![j].owner = w, ![j].live = TRUE],
               worker' = [worker EXCEPT ![w] =
                            [pc |-> "building", job |-> j, attempt |-> jobs[j].attempts + 1]]
        PROVE  ExportInv' /\ FinishedStays
    <2> DEFINE row == [jobs[j] EXCEPT !.status = "PROCESSING", !.attempts = @ + 1,
                                      !.owner = w, !.live = TRUE]
    <2>1. jobs[j] \in Job /\ jobs[j].attempts + 1 \in 1..MaxAttempts
      BY <1>2 DEF ExportInv, TypeOK, Job, Leasable
    <2>2. row \in Job /\ row.status = "PROCESSING"
      BY <2>1, LeasedRow
    <2>3. jobs' = [jobs EXCEPT ![j] = row]
      BY <1>2, <2>1 DEF ExportInv, TypeOK
    <2> HIDE DEF row
    <2> DEFINE k == [pc |-> "building", job |-> j, attempt |-> jobs[j].attempts + 1]
    <2>10. k \in WorkerStates
      BY <2>1 DEF WorkerStates, Pcs, JobIds
    <2>11. worker' = [worker EXCEPT ![w] = k] /\ UNCHANGED <<org, files, keyed, lock, faults>>
      BY <1>2 DEF Lease
    <2> HIDE DEF k
    <2>4. TypeOK'
      BY <2>2, <2>3, <2>10, <2>11 DEF ExportInv, TypeOK, WorkerStates
    <2>5. ChainInv'
      BY <1>2 DEF Lease, ExportInv, TypeOK, ChainInv
    <2>6. \A i \in JobIds : jobs'[i] = jobs[i] \/ RowInv(i)'
      BY <2>2, <2>3 DEF ExportInv, TypeOK, RowInv
    <2>7. \A v \in Workers : worker'[v] = worker[v] \/ InHand(worker[v])'
      BY <1>2, <2>1 DEF ExportInv, TypeOK, InHand
    <2>8. FinishedStays
      BY <1>2, <2>3 DEF FinishedStays, Leasable, ExportInv, TypeOK
    <2>9. QED
      BY <2>4, <2>5, <2>6, <2>7, <2>8, RowStepInv DEF Lease
  <1>3. QED
    BY <1>1, <1>2 DEF Lease

\* Whoever still owns its row finds it processing, and may finish it.
LEMMA FinishInv ==
  ASSUME ExportInv, NEW w \in Workers, Complete(w) \/ Fail(w)
  PROVE  ExportInv' /\ FinishedStays
  <1> DEFINE j == worker[w].job
             row == IF worker[w].pc = "completing"
                    THEN [jobs[j] EXCEPT !.status = "SUCCEEDED", !.file = File(w),
                                         !.owner = None, !.live = FALSE]
                    ELSE [jobs[j] EXCEPT !.status = AfterFailure(worker[w].attempt),
                                         !.owner = None, !.live = FALSE]
  <1>1. /\ j \in JobIds /\ jobs[j] \in Job /\ File(w) \in Files /\ File(w)[1] = j
        /\ worker[w].pc = "completing" => File(w) \in files
    BY DEF Complete, Fail, ExportInv, TypeOK, InHand, File, Files
  <1>2. /\ row \in Job /\ row.owner = None
        /\ row.status = "SUCCEEDED" => row.file \in files /\ row.file[1] = j
    BY <1>1 DEF Job, AfterFailure, Complete, Fail
  <1>3. /\ jobs' = IF Holds(w) THEN [jobs EXCEPT ![j] = row] ELSE jobs
        /\ worker' = [worker EXCEPT ![w] = [worker[w] EXCEPT !.pc = "ending"]]
        /\ UNCHANGED <<org, files, keyed, lock, faults>>
    BY DEF Complete, Fail, Goto, ExportInv, TypeOK
  <1>4. worker[w].pc \in {"completing", "failing"}
    BY DEF Complete, Fail
  <1> HIDE DEF row
  <1>5. TypeOK'
    BY <1>1, <1>2, <1>3 DEF ExportInv, TypeOK, Pcs
  <1>6. ChainInv'
    BY <1>3, <1>4 DEF ExportInv, TypeOK, ChainInv
  <1>7. \A i \in JobIds : jobs'[i] = jobs[i] \/ RowInv(i)'
    BY <1>1, <1>2, <1>3 DEF ExportInv, TypeOK, RowInv
  <1>8. \A v \in Workers : worker'[v] = worker[v] \/ InHand(worker[v])'
    BY <1>3 DEF ExportInv, TypeOK, InHand
  <1>9. FinishedStays
    <2>1. Holds(w) => jobs[j].status = "PROCESSING"
      BY <1>1 DEF Holds, ExportInv, RowInv
    <2>2. QED
      BY <1>1, <1>3, <2>1 DEF FinishedStays, ExportInv, TypeOK
  <1>10. QED
    BY <1>3, <1>5, <1>6, <1>7, <1>8, <1>9, RowStepInv
\* A request takes a row that nobody has used and adds a sweep.
LEMMA InsertInv ==
  ASSUME ExportInv, NEW o \in Orgs, RequestOrgExport(o) \/ QueueExport(o)
  PROVE  ExportInv' /\ FinishedStays
  <1> DEFINE row == [AbsentJob EXCEPT !.org = o, !.status = "QUEUED"]
  <1>1. Insert(o) /\ UNCHANGED <<org, files, worker, faults>>
    BY DEF RequestOrgExport, QueueExport, Insert
  <1>2. PICK j \in JobIds : jobs[j].status = "ABSENT" /\ jobs' = [jobs EXCEPT ![j] = row]
    BY <1>1 DEF Insert
  <1>3. row \in Job /\ row.owner = None /\ row.status = "QUEUED"
    <2>1. AbsentJob \in Job /\ AbsentJob.owner = None
      BY DEF AbsentJob, Job
    <2>2. row \in Job
      BY <2>1 DEF Job
    <2>3. row.owner = None /\ row.status = "QUEUED"
      BY <2>1 DEF AbsentJob
    <2>4. QED
      BY <2>2, <2>3
  <1> HIDE DEF row
  <1>4. keyed' = TRUE /\ lock' = [lock EXCEPT !.retryable = FALSE]
    BY <1>1 DEF Insert, AddJob, WaitsAfterwards
  <1>5. TypeOK' /\ ChainInv'
    BY <1>1, <1>2, <1>3, <1>4 DEF ExportInv, TypeOK, ChainInv
  <1>6. \A i \in JobIds : jobs'[i] = jobs[i] \/ RowInv(i)'
    BY <1>2, <1>3 DEF ExportInv, TypeOK, RowInv
  <1>7. FinishedStays
    BY <1>2 DEF FinishedStays, ExportInv, TypeOK
  <1>8. QED
    BY <1>1, <1>5, <1>6, <1>7, RowStepInv

\* Deleting the organization takes its rows with it, whoever works on them.
LEMMA PurgeInv ==
  ASSUME ExportInv, NEW o \in Orgs, RequestPurge(o) \/ Purge(o)
  PROVE  ExportInv' /\ FinishedStays
  <1>1. UNCHANGED <<files, worker, keyed, lock, faults>>
    BY DEF RequestPurge, Purge
  <1>2. ASSUME NEW j \in JobIds
        PROVE  jobs'[j] = jobs[j] \/ jobs'[j] = [jobs[j] EXCEPT !.status = "GONE", !.owner = None]
    BY DEF RequestPurge, Purge
  <1>3. ASSUME NEW j \in JobIds
        PROVE  /\ jobs'[j] \in Job
               /\ jobs'[j] = jobs[j] \/ (jobs'[j].status = "GONE" /\ jobs'[j].owner = None)
    <2> DEFINE row == [jobs[j] EXCEPT !.status = "GONE", !.owner = None]
    <2>1. jobs[j] \in Job
      BY DEF ExportInv, TypeOK
    <2>2. row \in Job
      BY <2>1 DEF Job
    <2>3. row.status = "GONE" /\ row.owner = None
      BY <2>1 DEF Job
    <2>4. QED
      BY <1>2, <2>1, <2>2, <2>3
  <1>4. jobs' \in [JobIds -> Job]
    BY <1>3 DEF ExportInv, TypeOK, RequestPurge, Purge
  <1>5. TypeOK' /\ ChainInv'
    BY <1>1, <1>4 DEF ExportInv, TypeOK, ChainInv, RequestPurge, Purge
  <1>6. \A i \in JobIds : jobs'[i] = jobs[i] \/ RowInv(i)'
    BY <1>3 DEF RowInv
  <1>7. QED
    BY <1>1, <1>3, <1>5, <1>6, RowStepInv DEF FinishedStays

LEMMA ExpiryInv ==
  ASSUME ExportInv, NEW j \in JobIds, LeaseExpires(j)
  PROVE  ExportInv' /\ FinishedStays
  <1> DEFINE row == [jobs[j] EXCEPT !.live = FALSE]
  <1>1. /\ jobs' = [jobs EXCEPT ![j] = row] /\ jobs[j].status = "PROCESSING"
        /\ UNCHANGED <<org, files, worker, keyed, lock, faults>>
    BY DEF LeaseExpires, ExportInv, TypeOK
  <1>2. row \in Job /\ row.status = "PROCESSING"
    <2>1. jobs[j] \in Job
      BY DEF ExportInv, TypeOK
    <2>2. row \in Job
      BY <2>1 DEF Job
    <2>3. row.status = "PROCESSING"
      BY <1>1, <2>1 DEF Job
    <2>4. QED
      BY <2>2, <2>3
  <1> HIDE DEF row
  <1>3. TypeOK' /\ ChainInv'
    BY <1>1, <1>2 DEF ExportInv, TypeOK, ChainInv
  <1>4. \A i \in JobIds : jobs'[i] = jobs[i] \/ RowInv(i)'
    BY <1>1, <1>2 DEF ExportInv, TypeOK, RowInv
  <1>5. FinishedStays
    BY <1>1 DEF FinishedStays, ExportInv, TypeOK
  <1>6. QED
    BY <1>1, <1>3, <1>4, <1>5, RowStepInv

LEMMA ExportNextInv == ExportInv /\ [Next]_vars => ExportInv' /\ FinishedStays
  <1> SUFFICES ASSUME ExportInv, [Next]_vars PROVE ExportInv' /\ FinishedStays
    OBVIOUS
  <1>1. UNCHANGED jobs => FinishedStays
    BY DEF FinishedStays
  <1>2. CASE UNCHANGED vars
    BY <1>1, <1>2 DEF vars, ExportInv, TypeOK, ChainInv, RowInv, InHand
  <1>3. ASSUME NEW w \in Workers, WorkerStep(w) \/ StartSweep(w) \/ SweepThrows(w) \/ Crash(w)
        PROVE  ExportInv' /\ FinishedStays
    BY <1>1, <1>3, QueueActionInv, StoreInv, LeaseInv, FinishInv DEF WorkerStep
  <1>4. CASE Unlock
    BY <1>1, <1>4, UnlockInv
  <1>5. ASSUME NEW o \in Orgs,
               RequestOrgExport(o) \/ QueueExport(o) \/ RequestPurge(o) \/ Purge(o)
        PROVE  ExportInv' /\ FinishedStays
    BY <1>5, InsertInv, PurgeInv
  <1>6. QED
    BY <1>2, <1>3, <1>4, <1>5, ExpiryInv DEF Next

-----------------------------------------------------------------------------

\* ExportInv is an invariant of the exports, and with it the types.
THEOREM ExportInvariance == Spec => [](ExportInv /\ TypeOK)
  <1>1. ExportInv => TypeOK
    BY DEF ExportInv
  <1>2. QED
    BY <1>1, ExportInitInv, ExportNextInv, PTL DEF Spec

\* Whatever crashes, stalls and nudges come between, the sweep of the exports
\* never stops for good (scheduleNext before the work, seedContinuousTasks).
THEOREM SweepNeverStops == Spec => []SweepGoesOn
  <1>1. ExportInv => SweepGoesOn
    BY DEF ExportInv, ChainInv, SweepGoesOn
  <1>2. QED
    BY <1>1, ExportInvariance, PTL

\* A worker that lost its lease never touches a finished export, and a finished
\* one has an archive of its own (the lease_owner of Complete and Fail).
THEOREM FinishedExportsStay == Spec => FinishedIsFinal
  <1> DEFINE Kept == FinishedHasFile' /\ FinishedStays
  <1>1. ExportInv' => FinishedHasFile'
    BY DEF ExportInv, RowInv, FinishedHasFile
  <1>2. ExportInv /\ [Next]_vars => [Kept]_vars
    BY <1>1, ExportNextInv
  <1>3. QED
    BY <1>2, ExportInvariance, PTL DEF Spec, FinishedIsFinal, FinishedStays

-----------------------------------------------------------------------------
(* Uptime: loops.                                                          *)

\* A set that holds 0 and with k also k + 1 reaches n: otherwise k |-> k + 1
\* would map it into itself without 0.
LEMMA IntervalInduction ==
    ASSUME NEW n \in Nat, NEW S, S \subseteq 0..n, 0 \in S,
           \A k \in 0..(n - 1) : k \in S => k + 1 \in S
    PROVE  n \in S
  <1>1. SUFFICES ASSUME n \notin S PROVE FALSE
    OBVIOUS
  <1>2. IsFiniteSet(S)
    <2>1. IsFiniteSet(0..n) /\ S \in SUBSET (0..n)
      BY FS_Interval
    <2>2. QED
      BY <2>1, FS_Subset
  <1>3. \A k \in S : k + 1 \in S \ {0}
    BY <1>1
  <1> DEFINE f == [k \in S |-> k + 1]
  <1>4. f \in Injection(S, S \ {0})
    BY <1>3 DEF Injection, IsInjective
  <1>5. /\ IsFiniteSet(S \ {0}) /\ Cardinality(S \ {0}) = Cardinality(S) - 1
        /\ Cardinality(S) \in Nat
    BY <1>2, FS_RemoveElement, FS_CardinalityType
  <1> HIDE DEF f
  <1>6. Cardinality(S) <= Cardinality(S \ {0})
    BY <1>4, <1>5, FS_Injection
  <1>7. QED
    BY <1>5, <1>6

\* What a step of a loop does, n times from a on: there is the function of what
\* it has computed after each.
Runs(s, n, a, g) == s[0] = a /\ \A k \in 1..n : s[k] = g[<<k, s[k - 1]>>]

LEMMA Iteration ==
    ASSUME NEW n \in Nat, NEW V, NEW a \in V, NEW g \in [(1..n) \X V -> V]
    PROVE  \E s \in [0..n -> V] : Runs(s, n, a, g)
  <1> DEFINE S == {k \in 0..n : \E s \in [0..k -> V] : Runs(s, k, a, g)}
  <1>1. 0 \in S
    <2>1. [j \in 0..0 |-> a] \in [0..0 -> V] /\ Runs([j \in 0..0 |-> a], 0, a, g)
      BY DEF Runs
    <2>2. QED
      BY <2>1
  <1>2. ASSUME NEW k \in 0..(n - 1), k \in S PROVE k + 1 \in S
    <2>1. PICK s \in [0..k -> V] : Runs(s, k, a, g)
      BY <1>2
    <2>2. s \in [0..k -> V] /\ s[0] = a /\ \A j \in 1..k : s[j] = g[<<j, s[j - 1]>>]
      BY <2>1 DEF Runs
    <2> DEFINE t == [j \in 0..(k + 1) |-> IF j = k + 1 THEN g[<<k + 1, s[k]>>] ELSE s[j]]
    <2>3. g[<<k + 1, s[k]>>] \in V
      <3>1. <<k + 1, s[k]>> \in (1..n) \X V
        BY <2>2
      <3>2. QED
        BY <3>1
    <2>4. t \in [0..(k + 1) -> V] /\ t[0] = a
      BY <2>2, <2>3
    <2>5. ASSUME NEW j \in 1..(k + 1) PROVE t[j] = g[<<j, t[j - 1]>>]
      <3>1. CASE j = k + 1
        <4>1. t[j] = g[<<k + 1, s[k]>>] /\ t[j - 1] = s[k]
          BY <3>1
        <4>2. QED
          BY <3>1, <4>1
      <3>2. CASE j # k + 1
        <4>1. j \in 1..k /\ t[j] = s[j] /\ t[j - 1] = s[j - 1]
          BY <3>2
        <4>2. QED
          BY <2>2, <4>1
      <3>3. QED
        BY <3>1, <3>2
    <2> HIDE DEF t
    <2>6. Runs(t, k + 1, a, g)
      BY <2>4, <2>5 DEF Runs
    <2>7. QED
      BY <2>4, <2>6
  <1>3. n \in S
    <2>1. S \subseteq 0..n
      OBVIOUS
    <2> HIDE DEF S
    <2>2. QED
      BY <1>1, <1>2, <2>1, IntervalInduction
  <1>4. QED
    BY <1>3

\* A function on 1..n is a sequence of length n.
LEMMA LenOf ==
    ASSUME NEW n \in Nat, NEW V, NEW s \in [1..n -> V]
    PROVE  Len(s) = n /\ DOMAIN s = 1..n
  <1>1. s \in Seq(V)
    BY SeqDef
  <1>2. QED
    BY <1>1, LenProperties

\* Total adds up one number at a time.
LEMMA TotalSteps ==
    ASSUME NEW n \in Nat, NEW f \in [1..n -> Int]
    PROVE  \E s \in [0..n -> Int] : /\ s[0] = 0
                                    /\ \A k \in 1..n : s[k] = s[k - 1] + f[k]
                                    /\ Total(n, f) = s[n]
  <1> DEFINE F(s) == [k \in 0..n |-> IF k = 0 THEN 0 ELSE s[k - 1] + f[k]]
             g == [p \in (1..n) \X Int |-> p[2] + f[p[1]]]
  <1>1. g \in [(1..n) \X Int -> Int] /\ \A k \in 1..n, x \in Int : g[<<k, x>>] = x + f[k]
    OBVIOUS
  <1> HIDE DEF g
  <1>2. 0 \in Int
    OBVIOUS
  <1>3. PICK s \in [0..n -> Int] : s[0] = 0 /\ \A k \in 1..n : s[k] = s[k - 1] + f[k]
    <2>0. PICK s \in [0..n -> Int] : Runs(s, n, 0, g)
      BY <1>1, <1>2, Iteration
    <2>1. s[0] = 0 /\ \A k \in 1..n : s[k] = g[<<k, s[k - 1]>>]
      BY <2>0 DEF Runs
    <2>2. ASSUME NEW k \in 1..n PROVE s[k] = s[k - 1] + f[k]
      <3>1. k - 1 \in 0..n /\ s[k - 1] \in Int
        BY <2>1
      <3>2. QED
        BY <1>1, <2>1, <3>1
    <2>3. QED
      BY <2>1, <2>2
  <1>4. s = F(s)
    <2>1. \A k \in 0..n : s[k] = F(s)[k]
      BY <1>3
    <2>2. QED
      BY <2>1
  <1> DEFINE m == CHOOSE s2 : s2 = F(s2)
  <1>5. m = F(m)
    BY <1>4
  <1>6. Total(n, f) = m[n]
    BY DEF Total
  <1> HIDE DEF m
  <1>7. \A k \in 0..n : m[k] = IF k = 0 THEN 0 ELSE m[k - 1] + f[k]
    BY <1>5
  <1>8. QED
    <2> DEFINE S == {k \in 0..n : m[k] = s[k]}
    <2>1. m[0] = s[0]
      BY <1>3, <1>7
    <2>2. ASSUME NEW k \in 0..(n - 1), m[k] = s[k] PROVE m[k + 1] = s[k + 1]
      BY <1>3, <1>7, <2>2
    <2>3. n \in S
      <3>1. S \subseteq 0..n /\ 0 \in S /\ \A k \in 0..(n - 1) : k \in S => k + 1 \in S
        BY <2>1, <2>2
      <3> HIDE DEF S
      <3>2. QED
        BY <3>1, IntervalInduction
    <2>4. QED
      BY <1>3, <1>6, <2>3

\* One of finitely many intervals comes after all others.
LEMMA LastExists ==
    ASSUME NEW D, IsFiniteSet(D), D # {}, \A e \in D : e.start \in Int /\ e.end \in Int
    PROVE  \E e \in D : \A d \in D : ~Before(e, d)
  <1> DEFINE n == Cardinality(D)
             HasLast(S) == \E e \in S : \A d \in S : ~Before(e, d)
             K == {k \in 0..n : \A S \in SUBSET D : Cardinality(S) = k /\ S # {} => HasLast(S)}
  <1>1. n \in Nat /\ \A S \in SUBSET D : IsFiniteSet(S) /\ Cardinality(S) \in 0..n
    BY FS_CardinalityType, FS_Subset
  <1>2. 0 \in K
    BY <1>1, FS_EmptySet
  <1>3. ASSUME NEW k \in 0..(n - 1), k \in K PROVE k + 1 \in K
    <2>1. SUFFICES ASSUME NEW S \in SUBSET D, Cardinality(S) = k + 1 PROVE HasLast(S)
      BY <1>1, <1>3
    <2>2. PICK x \in S : TRUE
      BY <1>1, <2>1, FS_EmptySet
    <2> DEFINE R == S \ {x}
    <2>3. R \in SUBSET D /\ Cardinality(R) = k
      <3>1. IsFiniteSet(S)
        BY <1>1
      <3>2. Cardinality(R) = Cardinality(S) - 1
        BY <2>2, <3>1, FS_RemoveElement
      <3>3. QED
        BY <2>1, <3>2
    <2>4. CASE R = {}
      <3>1. S = {x} /\ x.start \in Int /\ x.end \in Int
        BY <2>2, <2>4
      <3>2. QED
        BY <3>1 DEF Before
    <2>5. CASE R # {}
      <3>1. PICK e \in R : \A d \in R : ~Before(e, d)
        BY <1>3, <2>3, <2>5
      <3>2. \A d \in S : d.start \in Int /\ d.end \in Int
        OBVIOUS
      <3>3. CASE Before(e, x)
        <4>1. \A d \in S : ~Before(x, d)
          BY <3>1, <3>2, <3>3, <2>2 DEF Before
        <4>2. QED
          BY <4>1, <2>2
      <3>4. CASE ~Before(e, x)
        BY <3>1, <3>4
      <3>5. QED
        BY <3>3, <3>4
    <2>6. QED
      BY <2>4, <2>5
  <1>4. n \in K
    <2>1. K \subseteq 0..n
      OBVIOUS
    <2> HIDE DEF K
    <2>2. QED
      BY <1>1, <1>2, <1>3, <2>1, IntervalInduction
  <1>5. QED
    BY <1>4

Sorts(q, S) ==
    /\ q \in Bijection(1..Cardinality(S), S)
    /\ \A j, k \in DOMAIN q : j < k => ~Before(q[k], q[j])

\* Finitely many intervals can be sorted, and InOrder sorts them.
LEMMA OrderExists ==
    ASSUME NEW D, IsFiniteSet(D), \A e \in D : e.start \in Int /\ e.end \in Int
    PROVE  Sorts(InOrder(D), D)
  <1> DEFINE n == Cardinality(D)
             K == {k \in 0..n : \A S \in SUBSET D : Cardinality(S) = k => \E q : Sorts(q, S)}
  <1>1. n \in Nat /\ \A S \in SUBSET D : IsFiniteSet(S) /\ Cardinality(S) \in 0..n
    BY FS_CardinalityType, FS_Subset
  <1>2. 0 \in K
    <2>1. SUFFICES ASSUME NEW S \in SUBSET D, Cardinality(S) = 0 PROVE \E q : Sorts(q, S)
      BY <1>1
    <2>2. S = {}
      BY <1>1, <2>1, FS_EmptySet
    <2>3. [k \in 1..0 |-> 0] \in Bijection(1..0, {})
      BY DEF Bijection, Injection, Surjection, IsInjective
    <2>4. Sorts([k \in 1..0 |-> 0], S)
      BY <2>1, <2>2, <2>3 DEF Sorts
    <2>5. QED
      BY <2>4
  <1>3. ASSUME NEW k \in 0..(n - 1), k \in K PROVE k + 1 \in K
    <2>1. SUFFICES ASSUME NEW S \in SUBSET D, Cardinality(S) = k + 1 PROVE \E q : Sorts(q, S)
      BY <1>1, <1>3
    <2>2. PICK e \in S : \A d \in S : ~Before(e, d)
      <3>1. S # {} /\ IsFiniteSet(S) /\ \A d \in S : d.start \in Int /\ d.end \in Int
        BY <1>1, <2>1, FS_EmptySet
      <3>2. QED
        BY <3>1, LastExists
    <2> DEFINE R == S \ {e}
    <2>3. R \in SUBSET D /\ Cardinality(R) = k
      <3>1. IsFiniteSet(S)
        BY <1>1
      <3>2. Cardinality(R) = Cardinality(S) - 1
        BY <2>2, <3>1, FS_RemoveElement
      <3>3. QED
        BY <2>1, <3>2
    <2>4. PICK q : Sorts(q, R)
      BY <1>3, <2>3
    <2>5. /\ q \in [1..k -> R]
          /\ \A i, j \in 1..k : q[i] = q[j] => i = j
          /\ \A d \in R : \E j \in 1..k : q[j] = d
          /\ \A i, j \in 1..k : i < j => ~Before(q[j], q[i])
      BY <2>3, <2>4 DEF Sorts, Bijection, Injection, Surjection, IsInjective
    <2> DEFINE t == [j \in 1..(k + 1) |-> IF j = k + 1 THEN e ELSE q[j]]
    <2>6. t \in [1..(k + 1) -> S]
      BY <2>2, <2>5
    <2>7. \A i, j \in 1..(k + 1) : t[i] = t[j] => i = j
      BY <2>5
    <2>8. \A d \in S : \E j \in 1..(k + 1) : t[j] = d
      <3>1. SUFFICES ASSUME NEW d \in S PROVE \E j \in 1..(k + 1) : t[j] = d
        OBVIOUS
      <3>2. CASE d = e
        <4>1. k + 1 \in 1..(k + 1) /\ t[k + 1] = d
          BY <3>2
        <4>2. QED
          BY <4>1
      <3>3. CASE d # e
        <4>1. PICK j \in 1..k : q[j] = d
          BY <2>5, <3>3
        <4>2. j \in 1..(k + 1) /\ t[j] = d
          BY <4>1
        <4>3. QED
          BY <4>2
      <3>4. QED
        BY <3>2, <3>3
    <2>9. \A i, j \in 1..(k + 1) : i < j => ~Before(t[j], t[i])
      <3>1. SUFFICES ASSUME NEW i \in 1..(k + 1), NEW j \in 1..(k + 1), i < j
                     PROVE  ~Before(t[j], t[i])
        OBVIOUS
      <3>2. t[i] = q[i] /\ i \in 1..k /\ q[i] \in S
        BY <2>5, <3>1
      <3>3. CASE j = k + 1
        BY <2>2, <3>2, <3>3
      <3>4. CASE j # k + 1
        BY <2>5, <3>1, <3>2, <3>4
      <3>5. QED
        BY <3>3, <3>4
    <2> HIDE DEF t
    <2>10. t \in Bijection(1..(k + 1), S)
      BY <2>6, <2>7, <2>8 DEF Bijection, Injection, Surjection, IsInjective
    <2>11. Sorts(t, S)
      BY <2>1, <2>6, <2>9, <2>10 DEF Sorts
    <2>12. QED
      BY <2>11
  <1>4. n \in K
    <2>1. K \subseteq 0..n
      OBVIOUS
    <2> HIDE DEF K
    <2>2. QED
      BY <1>1, <1>2, <1>3, <2>1, IntervalInduction
  <1>5. PICK q : Sorts(q, D)
    BY <1>4
  <1>6. QED
    BY <1>5 DEF InOrder, Sorts

\* Max and Min, as the page uses them.
LEMMA MaxOfTwo ==
    ASSUME NEW a \in Int, NEW b \in Int
    PROVE  Max({a, b}) = IF a >= b THEN a ELSE b
  BY DEF Max

LEMMA MinOfTwo ==
    ASSUME NEW a \in Int, NEW b \in Int
    PROVE  Min({a, b}) = IF a <= b THEN a ELSE b
  BY DEF Min

Moments(D) == {t \in Int : \E e \in D : e.start <= t /\ t < e.end}

\* An interval after a set of earlier moments adds its length.
LEMMA Adjacent ==
    ASSUME NEW a \in Int, NEW b \in Int, a <= b, NEW L, IsFiniteSet(L),
           \A t \in L : t \in Int /\ t < a, NEW U, U = L \union (a..(b - 1))
    PROVE  /\ IsFiniteSet(U) /\ Cardinality(U) = Cardinality(L) + b - a
           /\ \A t \in U : t \in Int /\ t < b
  <1> DEFINE T == a..(b - 1)
  <1>1. IsFiniteSet(T) /\ Cardinality(T) = b - a
    <2>1. b - 1 \in Int
      OBVIOUS
    <2>2. IsFiniteSet(T) /\ Cardinality(T) = IF a > b - 1 THEN 0 ELSE (b - 1) - a + 1
      BY <2>1, FS_Interval
    <2>3. QED
      BY <2>2
  <1>2. L \intersect T = {} /\ \A t \in L \union T : t \in Int /\ t < b
    OBVIOUS
  <1>3. Cardinality(L) \in Int /\ Cardinality({}) = 0
    BY FS_CardinalityType, FS_EmptySet
  <1> HIDE DEF T
  <1>4. /\ IsFiniteSet(L \union T)
        /\ Cardinality(L \union T) = Cardinality(L) + Cardinality(T) - Cardinality(L \intersect T)
    BY <1>1, FS_Union
  <1>5. Cardinality(L \union T) = Cardinality(L) + b - a
    <2>1. Cardinality(L \intersect T) = 0
      BY <1>2, <1>3
    <2> DEFINE l == Cardinality(L)
               t == Cardinality(T)
               u == Cardinality(L \union T)
    <2>2. l \in Int /\ t = b - a /\ u = l + t - 0
      BY <1>1, <1>3, <1>4, <2>1
    <2> HIDE DEF l, t, u
    <2>3. u = l + b - a
      BY <2>2
    <2>4. QED
      BY <2>3 DEF l, u
  <1>6. QED
    BY <1>2, <1>4, <1>5 DEF T

\* The merge loop computes the measure of the union.
LEMMA MergedCounts ==
    ASSUME NEW D, IsFiniteSet(D),
           \A e \in D : e.start \in Int /\ e.end \in Int /\ e.start < e.end
    PROVE  IsFiniteSet(Moments(D)) /\ Merged(D) = Cardinality(Moments(D))
  <1> DEFINE n == Cardinality(D)
             q == InOrder(D)
             V == [down : Int, from : Int, to : Int]
             Grow(m, e) == IF e.start <= m.to THEN [m EXCEPT !.to = Max({@, e.end})]
                           ELSE [down |-> m.down + m.to - m.from, from |-> e.start, to |-> e.end]
             first == [down |-> 0, from |-> q[1].start, to |-> q[1].end]
             F(s) == [k \in 1..n |-> IF k = 1 THEN [down |-> 0, from |-> q[k].start, to |-> q[k].end]
                                     ELSE LET m == s[k - 1]
                                          IN  IF q[k].start <= m.to
                                              THEN [m EXCEPT !.to = Max({@, q[k].end})]
                                              ELSE [down |-> m.down + m.to - m.from,
                                                    from |-> q[k].start, to |-> q[k].end]]
  <1>1. CASE D = {}
    <2>1. Moments(D) = {}
      BY <1>1 DEF Moments
    <2>2. QED
      BY <1>1, <2>1, FS_EmptySet DEF Merged
  <1>2. CASE D # {}
    <2>1. n \in Nat \ {0}
      BY <1>2, FS_CardinalityType, FS_EmptySet
    <2>2. /\ q \in [1..n -> D]
          /\ \A d \in D : \E j \in 1..n : q[j] = d
          /\ \A j, k \in 1..n : j < k => ~Before(q[k], q[j])
      BY OrderExists DEF Sorts, Bijection, Injection, Surjection
    <2> HIDE DEF n, q
    <2>3. \A k \in 1..n : q[k].start \in Int /\ q[k].end \in Int /\ q[k].start < q[k].end
      BY <2>2
    <2>4. ASSUME NEW m \in V, NEW k \in 1..n PROVE Grow(m, q[k]) \in V
      <3>1. Max({m.to, q[k].end}) \in Int
        BY <2>3, MaxOfTwo
      <3>2. QED
        BY <2>3, <3>1
    <2>5. \E s : s = F(s)
      <3> DEFINE g == [p \in (1..(n - 1)) \X V |-> Grow(p[2], q[p[1] + 1])]
      <3>1. first \in V
        BY <2>1, <2>3
      <3>2. g \in [(1..(n - 1)) \X V -> V]
        <4> HIDE DEF Grow, V
        <4>1. \A k \in 1..(n - 1) : k + 1 \in 1..n
          BY <2>1
        <4>2. QED
          BY <2>4, <4>1
      <3>3. \A k \in 1..(n - 1), m \in V : g[<<k, m>>] = Grow(m, q[k + 1])
        OBVIOUS
      <3> HIDE DEF g, first, V, Grow
      <3>4. PICK r \in [0..(n - 1) -> V] : Runs(r, n - 1, first, g)
        <4>1. n - 1 \in Nat
          BY <2>1
        <4>2. QED
          BY <3>1, <3>2, <4>1, Iteration
      <3> DEFINE s == [k \in 1..n |-> r[k - 1]]
      <3>5. s[1] = first
        BY <2>1, <3>4 DEF Runs
      <3>6. ASSUME NEW k \in 1..n, k # 1 PROVE s[k] = Grow(s[k - 1], q[k])
        <4>1. k - 1 \in 1..(n - 1) /\ r[k - 2] \in V /\ (k - 1) + 1 = k
          BY <2>1, <3>4, <3>6
        <4>2. r[k - 1] = g[<<k - 1, r[(k - 1) - 1]>>]
          BY <3>4, <4>1 DEF Runs
        <4>3. (k - 1) - 1 = k - 2 /\ s[k] = r[k - 1] /\ s[k - 1] = r[k - 2]
          BY <2>1, <3>6
        <4>4. QED
          BY <3>3, <4>1, <4>2, <4>3
      <3>7. \A k \in 1..n : s[k] = F(s)[k]
        BY <3>5, <3>6 DEF first, Grow
      <3>8. s = F(s)
        BY <3>7
      <3>9. QED
        BY <3>8
    <2> DEFINE m == CHOOSE s : s = F(s)
    <2>6. m = F(m)
      BY <2>5
    <2>7. Merged(D) = m[n].down + m[n].to - m[n].from
      BY <1>2 DEF Merged, n, q
    <2> HIDE DEF m
    <2>8. m[1] = first /\ \A k \in 1..n : k # 1 => m[k] = Grow(m[k - 1], q[k])
      <3>1. \A k \in 1..n : m[k] = F(m)[k]
        BY <2>6
      <3>2. m[1] = first
        <4>1. 1 \in 1..n
          BY <2>1
        <4>2. F(m)[1] = first
          BY <4>1
        <4>3. QED
          BY <3>1, <4>1, <4>2
      <3>3. ASSUME NEW k \in 1..n, k # 1 PROVE m[k] = Grow(m[k - 1], q[k])
        <4>1. m[k] = F(m)[k]
          BY <3>1
        <4>2. QED
          BY <3>3, <4>1
      <3>4. QED
        BY <3>2, <3>3
    <2> DEFINE U(k) == {t \in Int : \E j \in 1..k : q[j].start <= t /\ t < q[j].end}
               Fits(k) == /\ m[k] \in V /\ m[k].from < m[k].to /\ m[k].from <= q[k].start
                          /\ \E L : /\ IsFiniteSet(L) /\ Cardinality(L) = m[k].down
                                    /\ \A t \in L : t \in Int /\ t < m[k].from
                                    /\ U(k) = L \union (m[k].from..(m[k].to - 1))
               K == {k \in 0..n : k = 0 \/ Fits(k)}
    <2>9. Fits(1)
      <3>1. m[1] \in V /\ m[1].from = q[1].start /\ m[1].to = q[1].end /\ m[1].down = 0
        BY <2>1, <2>3, <2>8
      <3>2. U(1) = {} \union (m[1].from..(m[1].to - 1))
        BY <2>1, <2>3, <3>1
      <3>3. IsFiniteSet({}) /\ Cardinality({}) = 0
        BY FS_EmptySet
      <3> HIDE DEF U, V
      <3>4. QED
        BY <2>1, <2>3, <3>1, <3>2, <3>3
    <2>10. ASSUME NEW k \in 1..(n - 1), Fits(k) PROVE Fits(k + 1)
      <3> DEFINE e == q[k + 1]
      <3>1. /\ m[k + 1] = Grow(m[k], e) /\ m[k] \in V /\ m[k + 1] \in V
            /\ e.start \in Int /\ e.end \in Int /\ e.start < e.end
            /\ m[k].from <= e.start
        <4>1. k + 1 \in 1..n /\ k \in 1..n /\ (k + 1) - 1 = k /\ k + 1 # 1
          BY <2>1
        <4>2. m[k + 1] = Grow(m[k], e) /\ m[k] \in V
          BY <2>8, <2>10, <4>1
        <4>3. q[k].start <= e.start
          BY <2>2, <2>3, <4>1 DEF Before
        <4> HIDE DEF Grow
        <4>4. m[k + 1] \in V
          BY <2>4, <4>1, <4>2
        <4>5. QED
          BY <2>3, <2>10, <4>1, <4>2, <4>3, <4>4
      <3>2. U(k + 1) = U(k) \union (e.start..(e.end - 1))
        BY <3>1
      <3>3. PICK L : /\ IsFiniteSet(L) /\ Cardinality(L) = m[k].down
                     /\ \A t \in L : t \in Int /\ t < m[k].from
                     /\ U(k) = L \union (m[k].from..(m[k].to - 1))
        BY <2>10
      <3> HIDE DEF U
      <3>4. CASE e.start <= m[k].to
        <4>1. /\ m[k + 1].from = m[k].from /\ m[k + 1].down = m[k].down
              /\ m[k + 1].to = IF m[k].to >= e.end THEN m[k].to ELSE e.end
          BY <3>1, <3>4, MaxOfTwo
        <4>2. U(k + 1) = L \union (m[k + 1].from..(m[k + 1].to - 1))
          BY <2>10, <3>1, <3>2, <3>3, <3>4, <4>1
        <4>3. m[k + 1].from < m[k + 1].to
          BY <2>10, <3>1, <4>1
        <4> HIDE DEF V, Grow
        <4>4. QED
          BY <3>1, <3>3, <4>1, <4>2, <4>3
      <3>5. CASE ~(e.start <= m[k].to)
        <4>1. /\ m[k + 1].from = e.start /\ m[k + 1].to = e.end
              /\ m[k + 1].down = m[k].down + m[k].to - m[k].from
          BY <3>1, <3>5
        <4>2. /\ IsFiniteSet(U(k)) /\ Cardinality(U(k)) = m[k].down + m[k].to - m[k].from
              /\ \A t \in U(k) : t \in Int /\ t < m[k].to
          <5>1. /\ m[k].from \in Int /\ m[k].to \in Int /\ m[k].down \in Int
                /\ m[k].from <= m[k].to
            BY <2>10, <3>1
          <5> DEFINE S == U(k)
                     a == m[k].from
                     b == m[k].to
          <5>2. IsFiniteSet(L) /\ (\A t \in L : t \in Int /\ t < a) /\ S = L \union (a..(b - 1))
            BY <3>3
          <5>3. a \in Int /\ b \in Int /\ a <= b
            BY <5>1
          <5> HIDE DEF S, a, b
          <5>4. /\ IsFiniteSet(S) /\ Cardinality(S) = Cardinality(L) + b - a
                /\ \A t \in S : t \in Int /\ t < b
            BY <5>2, <5>3, Adjacent
          <5>5. QED
            BY <3>3, <5>4 DEF S, a, b
        <4>3. \A t \in U(k) : t \in Int /\ t < m[k + 1].from
          BY <3>1, <3>5, <4>1, <4>2
        <4> HIDE DEF V, Grow
        <4>4. QED
          BY <3>1, <3>2, <4>1, <4>2, <4>3
      <3>6. QED
        BY <3>4, <3>5
    <2>11. Fits(n)
      <3>1. K \subseteq 0..n /\ 0 \in K
        BY <2>1
      <3> HIDE DEF Fits
      <3>2. ASSUME NEW k \in 0..(n - 1), k \in K PROVE k + 1 \in K
        <4>1. k = 0 \/ (k \in 1..(n - 1) /\ Fits(k))
          BY <2>1, <3>2
        <4>2. CASE k = 0
          BY <2>1, <2>9, <4>2
        <4>3. CASE k \in 1..(n - 1) /\ Fits(k)
          BY <2>1, <2>10, <4>3
        <4>4. QED
          BY <4>1, <4>2, <4>3
      <3> HIDE DEF K
      <3>3. n \in K
        BY <2>1, <3>1, <3>2, IntervalInduction
      <3>4. QED
        BY <2>1, <3>3 DEF K
    <2>12. U(n) = Moments(D)
      BY <2>2 DEF Moments
    <2>13. IsFiniteSet(U(n)) /\ Cardinality(U(n)) = m[n].down + m[n].to - m[n].from
      <3>1. PICK L : /\ IsFiniteSet(L) /\ Cardinality(L) = m[n].down
                     /\ \A t \in L : t \in Int /\ t < m[n].from
                     /\ U(n) = L \union (m[n].from..(m[n].to - 1))
        BY <2>11
      <3>2. m[n].from \in Int /\ m[n].to \in Int /\ m[n].from <= m[n].to
        BY <2>11
      <3> DEFINE S == U(n)
                 a == m[n].from
                 b == m[n].to
      <3>3. IsFiniteSet(L) /\ (\A t \in L : t \in Int /\ t < a) /\ S = L \union (a..(b - 1))
        BY <3>1
      <3>4. a \in Int /\ b \in Int /\ a <= b
        BY <3>2
      <3> HIDE DEF S, a, b, U
      <3>5. IsFiniteSet(S) /\ Cardinality(S) = Cardinality(L) + b - a
        BY <3>3, <3>4, Adjacent
      <3>6. QED
        BY <3>1, <3>5 DEF S, a, b
    <2>14. QED
      BY <2>7, <2>12, <2>13
  <1>3. QED
    BY <1>1, <1>2

-----------------------------------------------------------------------------
(* Uptime: colours.                                                        *)

\* A worst status is one of those given and no other is worse.
LEMMA WorstFacts ==
    ASSUME NEW ss \in SUBSET (DOMAIN Severity)
    PROVE  /\ Worst(ss) \in ss \union {"OPERATIONAL"}
           /\ \A s \in ss : Severity[s] <= Severity[Worst(ss)]
  <1>1. CASE ss = {}
    BY <1>1 DEF Worst
  <1>2. CASE ss # {}
    <2>1. \E s \in ss : \A t \in ss : Severity[t] <= Severity[s]
      <3>1. CASE "MAJOR_OUTAGE" \in ss
        BY <3>1 DEF Severity
      <3>2. CASE "MAJOR_OUTAGE" \notin ss /\ "PARTIAL_OUTAGE" \in ss
        BY <3>2 DEF Severity
      <3>3. CASE {"MAJOR_OUTAGE", "PARTIAL_OUTAGE"} \intersect ss = {}
                 /\ "DEGRADED_PERFORMANCE" \in ss
        BY <3>3 DEF Severity
      <3>4. CASE {"MAJOR_OUTAGE", "PARTIAL_OUTAGE", "DEGRADED_PERFORMANCE"} \intersect ss = {}
                 /\ "UNDER_MAINTENANCE" \in ss
        BY <3>4 DEF Severity
      <3>5. CASE {"MAJOR_OUTAGE", "PARTIAL_OUTAGE", "DEGRADED_PERFORMANCE", "UNDER_MAINTENANCE"}
                   \intersect ss = {}
        BY <1>2, <3>5 DEF Severity
      <3>6. QED
        BY <3>1, <3>2, <3>3, <3>4, <3>5
    <2>2. Worst(ss) \in ss /\ \A s \in ss : Severity[s] <= Severity[Worst(ss)]
      BY <1>2, <2>1 DEF Worst
    <2>3. QED
      BY <2>2
  <1>3. QED
    BY <1>1, <1>2

\* A colour is the worst there is, and operational is no worse than any.
LEMMA OperationalIsNoWorse ==
    ASSUME NEW ss \in SUBSET (DOMAIN Severity)
    PROVE  Worst({"OPERATIONAL"} \union ss) = Worst(ss)
  <1> DEFINE tt == {"OPERATIONAL"} \union ss
  <1>1. tt \in SUBSET (DOMAIN Severity)
    BY DEF Severity
  <1>2. /\ Worst(tt) \in ss \union {"OPERATIONAL"} /\ Worst(ss) \in ss \union {"OPERATIONAL"}
        /\ Severity[Worst(ss)] <= Severity[Worst(tt)]
        /\ \A s \in ss : Severity[s] <= Severity[Worst(ss)]
    <2>1. Worst(tt) \in tt /\ \A s \in tt : Severity[s] <= Severity[Worst(tt)]
      BY <1>1, WorstFacts
    <2>2. Worst(ss) \in ss \union {"OPERATIONAL"} /\ \A s \in ss : Severity[s] <= Severity[Worst(ss)]
      BY WorstFacts
    <2>3. QED
      BY <2>1, <2>2
  <1>3. \A s, t \in DOMAIN Severity : /\ Severity[s] = Severity[t] => s = t
                                      /\ Severity[s] \in Nat /\ Severity["OPERATIONAL"] = 0
    BY DEF Severity
  <1>4. QED
    BY <1>1, <1>2, <1>3

-----------------------------------------------------------------------------
(* Uptime: averages.                                                       *)

Sums == [observed : Int, up : Int \X Int]

Nothing == [observed |-> 0, up |-> <<0, 1>>]

\* One bucket more, field by field.
LEMMA WeighedTyped ==
    ASSUME NEW s \in Sums, NEW b, b.observed \in Int, b.up \in Int \X Int
    PROVE  /\ Weighed(s, b) \in Sums
           /\ Weighed(s, b).observed = s.observed + b.observed
           /\ b.up = Unknown => Weighed(s, b).up = s.up
           /\ b.up # Unknown =>
                 /\ Weighed(s, b).up[1] = s.up[1] * b.up[2] + (b.up[1] * b.observed) * s.up[2]
                 /\ Weighed(s, b).up[2] = s.up[2] * b.up[2]
  <1>1. /\ s.observed \in Int /\ s.up \in Int \X Int /\ s.up[1] \in Int /\ s.up[2] \in Int
        /\ b.up[1] \in Int /\ b.up[2] \in Int
    BY DEF Sums
  <1> DEFINE p == <<b.up[1] * b.observed, b.up[2]>>
             x == s.up[1] * b.up[2] + (b.up[1] * b.observed) * s.up[2]
             y == s.up[2] * b.up[2]
  <1>2. Plus(s.up, p) = <<x, y>>
    BY DEF Plus
  <1>3. x \in Int /\ y \in Int
    BY <1>1
  <1> HIDE DEF p, x, y
  <1>4. Plus(s.up, p) \in Int \X Int /\ Plus(s.up, p)[1] = x /\ Plus(s.up, p)[2] = y
    BY <1>2, <1>3
  <1> DEFINE u == IF b.up = Unknown THEN s.up ELSE Plus(s.up, p)
  <1>5. u \in Int \X Int
    BY <1>1, <1>4
  <1>6. Weighed(s, b) = [observed |-> s.observed + b.observed, up |-> u]
    BY DEF Weighed, p
  <1>7. s.observed + b.observed \in Int
    BY <1>1
  <1>8. b.up # Unknown => u = Plus(s.up, p)
    OBVIOUS
  <1>9. b.up = Unknown => u = s.up
    OBVIOUS
  <1> HIDE DEF u
  <1>10. QED
    BY <1>4, <1>5, <1>6, <1>7, <1>8, <1>9 DEF Sums, x, y

\* The sums s after each of the n buckets b, and what they come to.
Weighing(n, b, s) ==
    /\ s[0] = Nothing /\ \A k \in 1..n : s[k] = Weighed(s[k - 1], b[k])
    /\ WeightedUptime(n, b) = IF s[n].observed = 0 THEN Unknown
                           ELSE <<s[n].up[1], s[n].up[2] * s[n].observed>>

\* WeightedUptime weighs one bucket at a time.
LEMMA WeightedSteps ==
    ASSUME NEW n \in Nat, NEW b,
           \A k \in 1..n : b[k].observed \in Int /\ b[k].up \in Int \X Int
    PROVE  \E s \in [0..n -> Sums] : Weighing(n, b, s)
  <1> DEFINE F(s) == [k \in 0..n |-> IF k = 0 THEN Nothing ELSE Weighed(s[k - 1], b[k])]
             g == [p \in (1..n) \X Sums |-> Weighed(p[2], b[p[1]])]
  <1>1. g \in [(1..n) \X Sums -> Sums] /\ \A k \in 1..n, x \in Sums : g[<<k, x>>] = Weighed(x, b[k])
    <2>1. \A k \in 1..n, x \in Sums : Weighed(x, b[k]) \in Sums
      BY WeighedTyped
    <2>2. \A p \in (1..n) \X Sums : p[1] \in 1..n /\ p[2] \in Sums
      OBVIOUS
    <2>3. QED
      BY <2>1, <2>2
  <1> HIDE DEF g
  <1>2. Nothing \in Sums
    <2>1. <<0, 1>> \in Int \X Int /\ 0 \in Int
      OBVIOUS
    <2>2. QED
      BY <2>1 DEF Nothing, Sums
  <1>3. PICK s \in [0..n -> Sums] : s[0] = Nothing /\ \A k \in 1..n : s[k] = Weighed(s[k - 1], b[k])
    <2>0. PICK s \in [0..n -> Sums] : Runs(s, n, Nothing, g)
      BY <1>1, <1>2, Iteration
    <2>1. s[0] = Nothing /\ \A k \in 1..n : s[k] = g[<<k, s[k - 1]>>]
      BY <2>0 DEF Runs
    <2>2. ASSUME NEW k \in 1..n PROVE s[k] = Weighed(s[k - 1], b[k])
      <3>1. k - 1 \in 0..n
        OBVIOUS
      <3>2. s[k - 1] \in Sums
        BY <3>1
      <3>3. QED
        BY <1>1, <2>1, <3>2
    <2>3. QED
      BY <2>1, <2>2
  <1>4. s = F(s)
    <2>1. \A k \in 0..n : s[k] = F(s)[k]
      BY <1>3
    <2>2. QED
      BY <2>1
  <1> DEFINE m == CHOOSE s2 : s2 = F(s2)
  <1>5. m = F(m)
    BY <1>4
  <1>6. WeightedUptime(n, b) = IF m[n].observed = 0 THEN Unknown
                            ELSE <<m[n].up[1], m[n].up[2] * m[n].observed>>
    BY DEF WeightedUptime, Nothing
  <1> HIDE DEF m
  <1>7. \A k \in 0..n : m[k] = IF k = 0 THEN Nothing ELSE Weighed(m[k - 1], b[k])
    BY <1>5
  <1> DEFINE S == {k \in 0..n : m[k] = s[k]}
  <1>8. n \in S
    <2>1. m[0] = s[0]
      BY <1>3, <1>7
    <2>2. ASSUME NEW k \in 0..(n - 1), m[k] = s[k] PROVE m[k + 1] = s[k + 1]
      BY <1>3, <1>7, <2>2
    <2>3. S \subseteq 0..n /\ 0 \in S /\ \A k \in 0..(n - 1) : k \in S => k + 1 \in S
      BY <2>1, <2>2
    <2> HIDE DEF S
    <2>4. QED
      BY <2>3, IntervalInduction
  <1>9. QED
    BY <1>3, <1>6, <1>8 DEF Weighing

\* A share of up says of the moments M that those of D were down.
Says(observed, up, M, D) ==
    /\ IsFiniteSet(M) /\ D \subseteq M
    /\ observed = Cardinality(M)
    /\ up \in Int \X Int
    /\ observed = 0 => up = Unknown
    /\ observed # 0 => up[2] > 0 /\ up[1] * observed = up[2] * (observed - Cardinality(D))

\* The arithmetic of one bucket more.
LEMMA SumOfShares ==
    ASSUME NEW n \in Int, NEW d \in Int, NEW x \in Int, NEW u \in Int, NEW v \in Int,
           NEW o \in Int, NEW y \in Int, n = d * x, u * o = v * y
    PROVE  n * v + (u * o) * d = (d * v) * (x + y)
  <1>1. n * v = (d * v) * x
    <2>1. (d * x) * v = (d * v) * x
      OBVIOUS
    <2>2. QED
      BY <2>1
  <1>2. (u * o) * d = (d * v) * y
    <2>1. (v * y) * d = (d * v) * y
      OBVIOUS
    <2>2. QED
      BY <2>1
  <1>3. (d * v) * (x + y) = (d * v) * x + (d * v) * y /\ d * v \in Int
    OBVIOUS
  <1>4. QED
    BY <1>1, <1>2, <1>3

\* The sums s have been taken over the moments M, those of D down.
AddUp(s, M, D) ==
    /\ s \in Sums /\ IsFiniteSet(M) /\ D \subseteq M
    /\ s.observed = Cardinality(M)
    /\ s.up[2] > 0 /\ s.up[1] = s.up[2] * (s.observed - Cardinality(D))

\* Parts of a finite set.
LEMMA FiniteParts ==
    ASSUME NEW M, IsFiniteSet(M), NEW D, D \subseteq M
    PROVE  IsFiniteSet(D) /\ Cardinality(M) \in Nat /\ Cardinality(D) \in Nat
           /\ (Cardinality(M) = 0 => M = {} /\ Cardinality(D) = 0)
  <1>1. D \in SUBSET M
    OBVIOUS
  <1>2. IsFiniteSet(D)
    BY <1>1, FS_Subset
  <1>3. Cardinality(M) \in Nat /\ Cardinality(D) \in Nat
    BY <1>2, FS_CardinalityType
  <1>4. Cardinality(M) = 0 => M = {}
    BY FS_EmptySet
  <1>5. Cardinality(M) = 0 => Cardinality(D) = 0
    <2>1. M = {} => D = {}
      OBVIOUS
    <2>2. QED
      BY <1>4, <2>1, FS_EmptySet
  <1>6. QED
    BY <1>2, <1>3, <1>4, <1>5

\* Disjoint sets count together.
LEMMA DisjointUnion ==
    ASSUME NEW M, IsFiniteSet(M), NEW N, IsFiniteSet(N), M \intersect N = {}
    PROVE  IsFiniteSet(M \union N) /\ Cardinality(M \union N) = Cardinality(M) + Cardinality(N)
  <1>1. Cardinality(M \intersect N) = 0
    BY FS_EmptySet
  <1>2. Cardinality(M) \in Nat /\ Cardinality(N) \in Nat
    BY FS_CardinalityType
  <1>3. /\ IsFiniteSet(M \union N)
        /\ Cardinality(M \union N) = Cardinality(M) + Cardinality(N) - Cardinality(M \intersect N)
    BY FS_Union
  <1>4. QED
    BY <1>1, <1>2, <1>3

\* A bucket that says what is logged keeps the sums right.
LEMMA OneMoreShare ==
    ASSUME NEW s, NEW M, NEW D, AddUp(s, M, D), NEW b, NEW N, NEW E,
           Says(b.observed, b.up, N, E), M \intersect N = {}
    PROVE  AddUp(Weighed(s, b), M \union N, D \union E)
  <1>1. /\ s \in Sums /\ IsFiniteSet(M) /\ D \subseteq M /\ s.observed = Cardinality(M)
        /\ IsFiniteSet(D) /\ Cardinality(M) \in Nat /\ Cardinality(D) \in Nat
    BY FiniteParts DEF AddUp
  <1>2. /\ IsFiniteSet(N) /\ E \subseteq N /\ b.observed = Cardinality(N) /\ IsFiniteSet(E)
        /\ Cardinality(N) \in Nat /\ Cardinality(E) \in Nat
        /\ (Cardinality(N) = 0 => Cardinality(E) = 0)
        /\ b.observed \in Int /\ b.up \in Int \X Int
    BY FiniteParts DEF Says
  <1>3. D \intersect E = {} /\ D \union E \subseteq M \union N
    BY <1>1, <1>2
  <1>4. /\ IsFiniteSet(M \union N) /\ Cardinality(M \union N) = Cardinality(M) + Cardinality(N)
        /\ Cardinality(D \union E) = Cardinality(D) + Cardinality(E)
    BY <1>1, <1>2, <1>3, DisjointUnion
  <1> DEFINE w == Weighed(s, b)
             o == b.observed
             x == s.observed - Cardinality(D)
             y == o - Cardinality(E)
             n == s.up[1]
             d == s.up[2]
             u == b.up[1]
             v == b.up[2]
  <1>5. /\ w \in Sums /\ w.observed = s.observed + o
        /\ b.up = Unknown => w.up = s.up
        /\ b.up # Unknown => w.up[1] = n * v + (u * o) * d /\ w.up[2] = d * v
    BY <1>1, <1>2, WeighedTyped
  <1>6. n \in Int /\ d \in Int /\ u \in Int /\ v \in Int /\ x \in Int /\ y \in Int /\ o \in Int
    <2>1. s.up \in Int \X Int
      BY <1>1 DEF Sums
    <2>2. QED
      BY <1>1, <1>2, <2>1
  <1>7. n = d * x /\ d > 0
    BY DEF AddUp
  <1>8. /\ o = 0 => b.up = Unknown
        /\ o # 0 => v > 0 /\ u * o = v * y
    BY DEF Says
  <1>9. o = 0 => y = 0
    BY <1>2
  <1>10. w.observed - Cardinality(D \union E) = x + y /\ w.observed = Cardinality(M \union N)
    BY <1>1, <1>2, <1>4, <1>5
  <1> HIDE DEF w, o, x, y
  <1>11. w.up[2] > 0 /\ w.up[1] = w.up[2] * (x + y)
    <2>1. CASE o = 0
      <3>1. w.up = s.up /\ x + y = x
        BY <1>5, <1>6, <1>8, <1>9, <2>1
      <3>2. QED
        BY <1>7, <3>1
    <2>2. CASE o # 0
      <3>1. v > 0 /\ u * o = v * y
        BY <1>8, <2>2
      <3>2. b.up # Unknown
        BY <3>1 DEF Unknown
      <3>3. w.up[1] = n * v + (u * o) * d /\ w.up[2] = d * v
        BY <1>5, <3>2
      <3> HIDE DEF n, d, u, v
      <3>4. n * v + (u * o) * d = (d * v) * (x + y)
        BY <1>6, <1>7, <3>1, SumOfShares
      <3>5. d * v > 0
        BY <1>6, <1>7, <3>1
      <3>6. QED
        BY <3>3, <3>4, <3>5
    <2>3. QED
      BY <2>1, <2>2
  <1>12. QED
    BY <1>3, <1>4, <1>5, <1>10, <1>11 DEF AddUp, w

\* The sums before the first bucket.
LEMMA NothingYet == AddUp(Nothing, {}, {})
  <1>1. IsFiniteSet({}) /\ Cardinality({}) = 0
    BY FS_EmptySet
  <1>2. Nothing.up = <<0, 1>> /\ Nothing.observed = 0
    BY DEF Nothing
  <1>3. Nothing \in Sums
    <2>1. <<0, 1>> \in Int \X Int /\ 0 \in Int
      OBVIOUS
    <2>2. QED
      BY <2>1 DEF Nothing, Sums
  <1>4. QED
    BY <1>1, <1>2, <1>3 DEF AddUp

\* What the sums come to is the share of all.
LEMMA ShareOfAll ==
    ASSUME NEW s, NEW M, NEW D, AddUp(s, M, D),
           NEW up, up = IF s.observed = 0 THEN Unknown ELSE <<s.up[1], s.up[2] * s.observed>>
    PROVE  Says(s.observed, up, M, D)
  <1> DEFINE n == s.up[1]
             d == s.up[2]
             o == s.observed
             x == o - Cardinality(D)
             z == <<n, d * o>>
  <1>1. /\ s \in Sums /\ IsFiniteSet(M) /\ D \subseteq M /\ o = Cardinality(M)
        /\ Cardinality(M) \in Nat /\ Cardinality(D) \in Nat
    BY FiniteParts DEF AddUp
  <1>2. n \in Int /\ d \in Int /\ o \in Nat /\ x \in Int /\ d > 0 /\ n = d * x
    <2>1. s.up \in Int \X Int
      BY <1>1 DEF Sums
    <2>2. QED
      BY <1>1, <2>1 DEF AddUp
  <1>3. CASE o = 0
    <2>1. Unknown \in Int \X Int
      BY DEF Unknown
    <2>2. QED
      BY <1>1, <1>3, <2>1 DEF Says
  <1>4. CASE o # 0
    <2> HIDE DEF n, d, o, x
    <2>1. d * o \in Int /\ d * o > 0
      BY <1>2, <1>4
    <2>2. z \in Int \X Int /\ z[1] = n /\ z[2] = d * o
      BY <1>2, <2>1
    <2>3. n * o = (d * o) * x
      <3>1. (d * x) * o = (d * o) * x
        BY <1>2
      <3>2. QED
        BY <1>2, <3>1
    <2> HIDE DEF z
    <2>4. Says(o, z, M, D)
      BY <1>1, <1>4, <2>1, <2>2, <2>3 DEF Says, x
    <2>5. QED
      BY <1>4, <2>4 DEF z, n, d, o
  <1>5. QED
    BY <1>3, <1>4

\* The buckets b say of n disjoint sets of moments how much was down.
Family(n, b, M, D) ==
    /\ \A k \in 1..n : Says(b[k].observed, b[k].up, M[k], D[k])
    /\ \A j, k \in 1..n : j # k => M[j] \intersect M[k] = {}

\* The average of shares is the share of all the moments.
LEMMA AverageSays ==
    ASSUME NEW n \in Nat, NEW b, NEW M, NEW D, Family(n, b, M, D),
           NEW observed, observed = [k \in 1..n |-> b[k].observed],
           NEW AllM, AllM = UNION {M[k] : k \in 1..n},
           NEW AllD, AllD = UNION {D[k] : k \in 1..n}
    PROVE  Says(Total(n, observed), WeightedUptime(n, b), AllM, AllD)
  <1>0. /\ \A k \in 1..n : Says(b[k].observed, b[k].up, M[k], D[k])
        /\ \A j, k \in 1..n : j # k => M[j] \intersect M[k] = {}
    BY DEF Family
  <1> DEFINE f == [k \in 1..n |-> b[k].observed]
             U == [k \in 0..n |-> UNION {M[j] : j \in 1..k}]
             W == [k \in 0..n |-> UNION {D[j] : j \in 1..k}]
  <1>1. \A k \in 1..n : b[k].observed \in Int /\ b[k].up \in Int \X Int
    BY <1>0, FiniteParts DEF Says
  <1>2. f \in [1..n -> Int] /\ \A k \in 1..n : f[k] = b[k].observed
    BY <1>1
  <1> HIDE DEF f
  <1>3. PICK r \in [0..n -> Int] : /\ r[0] = 0 /\ \A k \in 1..n : r[k] = r[k - 1] + f[k]
                                   /\ Total(n, f) = r[n]
    BY <1>2, TotalSteps
  <1>4. PICK s \in [0..n -> Sums] : Weighing(n, b, s)
    BY <1>0, <1>1, WeightedSteps
  <1>5. /\ s[0] = Nothing /\ \A k \in 1..n : s[k] = Weighed(s[k - 1], b[k])
        /\ WeightedUptime(n, b) = IF s[n].observed = 0 THEN Unknown
                               ELSE <<s[n].up[1], s[n].up[2] * s[n].observed>>
    BY <1>4 DEF Weighing
  <1>6. U[0] = {} /\ W[0] = {}
    OBVIOUS
  <1>7. \A k \in 1..n : U[k] = U[k - 1] \union M[k] /\ W[k] = W[k - 1] \union D[k]
                        /\ U[k - 1] \intersect M[k] = {}
    <2>1. SUFFICES ASSUME NEW k \in 1..n
                   PROVE  U[k] = U[k - 1] \union M[k] /\ W[k] = W[k - 1] \union D[k]
                          /\ U[k - 1] \intersect M[k] = {}
      OBVIOUS
    <2>2. \A j : j \in 1..k <=> j \in 1..(k - 1) \/ j = k
      OBVIOUS
    <2>3. \A j \in 1..(k - 1) : j \in 1..n /\ j # k
      OBVIOUS
    <2>4. k \in 0..n /\ k - 1 \in 0..n
      OBVIOUS
    <2>5. /\ U[k] = UNION {M[j] : j \in 1..k} /\ U[k - 1] = UNION {M[j] : j \in 1..(k - 1)}
          /\ W[k] = UNION {D[j] : j \in 1..k} /\ W[k - 1] = UNION {D[j] : j \in 1..(k - 1)}
      BY <2>4
    <2> HIDE DEF U, W
    <2>6. QED
      BY <1>0, <2>2, <2>3, <2>5
  <1>8. U[n] = UNION {M[k] : k \in 1..n} /\ W[n] = UNION {D[k] : k \in 1..n}
    OBVIOUS
  <1> HIDE DEF U, W
  <1> DEFINE K == {k \in 0..n : AddUp(s[k], U[k], W[k]) /\ s[k].observed = r[k]}
  <1>9. 0 \in K
    <2>1. Nothing.observed = 0
      BY DEF Nothing
    <2>2. s[0] = Nothing
      BY <1>5
    <2>3. AddUp(s[0], U[0], W[0])
      BY <1>6, <2>2, NothingYet
    <2>4. s[0].observed = r[0]
      BY <1>3, <2>1, <2>2
    <2>5. 0 \in 0..n
      OBVIOUS
    <2>6. QED
      BY <2>3, <2>4, <2>5
  <1>10. ASSUME NEW k \in 0..(n - 1), k \in K PROVE k + 1 \in K
    <2> DEFINE x == k + 1
    <2>1. x \in 1..n /\ x - 1 = k /\ k \in 0..n /\ x \in 0..n
      OBVIOUS
    <2> HIDE DEF x
    <2>2. AddUp(s[k], U[k], W[k]) /\ s[k].observed = r[k] /\ s[k] \in Sums
      BY <1>10, <2>1
    <2>3. /\ s[x] = Weighed(s[k], b[x]) /\ r[x] = r[k] + f[x] /\ f[x] = b[x].observed
          /\ U[x] = U[k] \union M[x] /\ W[x] = W[k] \union D[x] /\ U[k] \intersect M[x] = {}
      BY <1>2, <1>3, <1>5, <1>7, <2>1
    <2>4. Says(b[x].observed, b[x].up, M[x], D[x])
      BY <1>0, <2>1
    <2>5. AddUp(Weighed(s[k], b[x]), U[k] \union M[x], W[k] \union D[x])
      BY <2>2, <2>3, <2>4, OneMoreShare
    <2>6. Weighed(s[k], b[x]).observed = s[k].observed + b[x].observed
      BY DEF Weighed
    <2>7. QED
      BY <2>1, <2>2, <2>3, <2>5, <2>6 DEF x
  <1>11. n \in K
    <2>1. K \subseteq 0..n
      OBVIOUS
    <2> HIDE DEF K
    <2>2. QED
      BY <1>9, <1>10, <2>1, IntervalInduction
  <1>12. AddUp(s[n], U[n], W[n]) /\ s[n].observed = r[n]
    BY <1>11
  <1>13. Says(r[n], WeightedUptime(n, b), U[n], W[n])
    BY <1>5, <1>12, ShareOfAll
  <1>14. QED
    BY <1>3, <1>8, <1>13 DEF f

-----------------------------------------------------------------------------
(* Uptime: the intervals of a day.                                         *)

USE DayAssumption, UptimeBoundsAssumption

Ends(e) == IF e.end = Open THEN now ELSE e.end

\* The interval e was open at t.
Covers(e, t) == e.start <= t /\ t < Ends(e)

\* The numbers of a day, typed and without Max and Min.
LEMMA TimesFacts ==
    ASSUME UptimeTypeOK
    PROVE  /\ now \in Nat /\ \A t \in Times : t \in Nat
           /\ \A i \in ShownDays : /\ i \in Nat /\ DayStart(i) \in Int
                                   /\ EffectiveEnd(i) \in Int
                                   /\ EffectiveEnd(i) = IF DayStart(i) + Day <= now
                                                        THEN DayStart(i) + Day ELSE now
           /\ \A c \in Components, i \in ShownDays :
                 /\ component[c].created \in Int
                 /\ EffectiveStart(c, i) \in Int
                 /\ EffectiveStart(c, i) = IF DayStart(i) >= component[c].created
                                           THEN DayStart(i) ELSE component[c].created
  <1>1. now \in Nat /\ \A t \in Times : t \in Nat
    BY DEF UptimeTypeOK, Times
  <1>2. ASSUME NEW i \in ShownDays
        PROVE  i \in Nat /\ DayStart(i) \in Int
    <2>1. i \in Nat /\ now \div Day \in Int
      BY <1>1 DEF ShownDays
    <2> DEFINE d == now \div Day
    <2> HIDE DEF d
    <2>2. d \in Int /\ DayStart(i) = d * Day - i * Day
      BY <2>1 DEF d, DayStart
    <2>3. QED
      BY <2>1, <2>2
  <1>3. ASSUME NEW i \in ShownDays
        PROVE  EffectiveEnd(i) = IF DayStart(i) + Day <= now THEN DayStart(i) + Day ELSE now
    BY <1>1, <1>2, MinOfTwo DEF EffectiveEnd
  <1>4. ASSUME NEW c \in Components PROVE component[c].created \in Int
    <2>1. component[c].created \in Times \union {Unborn}
      BY DEF UptimeTypeOK, Component
    <2>2. QED
      BY <1>1, <2>1 DEF Unborn
  <1>5. ASSUME NEW c \in Components, NEW i \in ShownDays
        PROVE  EffectiveStart(c, i) = IF DayStart(i) >= component[c].created
                                      THEN DayStart(i) ELSE component[c].created
    BY <1>2, <1>4, MaxOfTwo DEF EffectiveStart
  <1>6. QED
    BY <1>1, <1>2, <1>3, <1>4, <1>5

\* The image of a finite set is finite.
LEMMA FiniteImage ==
    ASSUME NEW S, IsFiniteSet(S), NEW f, DOMAIN f = S
    PROVE  IsFiniteSet({f[x] : x \in S})
  <1> DEFINE g == [x \in S |-> f[x]]
             T == {f[x] : x \in S}
  <1>1. g \in Surjection(S, T)
    BY DEF Surjection
  <1>2. QED
    BY <1>1, FS_Surjection

\* What is left of an interval on a day are the moments of the day it covers.
LEMMA ClippedFacts ==
    ASSUME UptimeTypeOK, NEW c \in Components, NEW i \in ShownDays, NEW d \in events[c]
    PROVE  /\ d \in Event /\ d.start \in Int /\ Ends(d) \in Int
           /\ Clipped(d, c, i).status = d.status /\ Clipped(d, c, i).excluded = d.excluded
           /\ Clipped(d, c, i).start \in Int /\ Clipped(d, c, i).end \in Int
           /\ \A t \in Int : Clipped(d, c, i).start <= t /\ t < Clipped(d, c, i).end
                                 <=> t \in Covered(c, i) /\ Covers(d, t)
  <1>1. d \in Event /\ d.start \in Int /\ Ends(d) \in Int
    BY TimesFacts DEF UptimeTypeOK, Event, Ends
  <1>2. /\ EffectiveStart(c, i) \in Int /\ EffectiveEnd(i) \in Int
    BY TimesFacts
  <1>3. /\ Clipped(d, c, i).start = IF d.start >= EffectiveStart(c, i) THEN d.start
                                    ELSE EffectiveStart(c, i)
        /\ Clipped(d, c, i).end = IF Ends(d) <= EffectiveEnd(i) THEN Ends(d) ELSE EffectiveEnd(i)
    BY <1>1, <1>2, MaxOfTwo, MinOfTwo DEF Clipped, Ends
  <1>4. Clipped(d, c, i).status = d.status /\ Clipped(d, c, i).excluded = d.excluded
    BY DEF Clipped
  <1>5. QED
    BY <1>1, <1>2, <1>3, <1>4 DEF Covered, Covers

\* Clipping and merging count the moments of the day that an outage covers.
LEMMA DownCounts ==
    ASSUME UptimeTypeOK, NEW c \in Components, NEW i \in ShownDays, IsFiniteSet(events[c])
    PROVE  /\ Outages(c, i) = {e \in InDay(c, i) : IsOutage(e)}
           /\ Down(c, i) = Cardinality({t \in Covered(c, i) :
                                          \E e \in events[c] : IsOutage(e) /\ Covers(e, t)})
  <1> DEFINE f == [d \in events[c] |-> Clipped(d, c, i)]
             D == Outages(c, i)
  <1>1. IsFiniteSet(D)
    <2>1. IsFiniteSet({f[d] : d \in events[c]})
      BY FiniteImage
    <2>2. D \in SUBSET {f[d] : d \in events[c]}
      BY DEF Outages, InDay
    <2>3. QED
      BY <2>1, <2>2, FS_Subset
  <1>2. \A e \in D : e.start \in Int /\ e.end \in Int /\ e.start < e.end
    BY ClippedFacts DEF Outages, InDay
  <1>3. Moments(D) = {t \in Covered(c, i) : \E e \in events[c] : IsOutage(e) /\ Covers(e, t)}
    <2>1. ASSUME NEW t \in Moments(D)
          PROVE  t \in Covered(c, i) /\ \E e \in events[c] : IsOutage(e) /\ Covers(e, t)
      <3>1. PICK d \in events[c] : /\ IsOutage(Clipped(d, c, i)) /\ t \in Int
                                   /\ Clipped(d, c, i).start <= t /\ t < Clipped(d, c, i).end
        BY DEF Moments, Outages, InDay
      <3>2. IsOutage(d)
        BY <3>1, ClippedFacts DEF IsOutage
      <3>3. QED
        BY <3>1, <3>2, ClippedFacts
    <2>2. ASSUME NEW t \in Covered(c, i), NEW d \in events[c], IsOutage(d), Covers(d, t)
          PROVE  t \in Moments(D)
      <3>1. t \in Int
        BY TimesFacts DEF Covered
      <3>2. Clipped(d, c, i).start <= t /\ t < Clipped(d, c, i).end
        BY <2>2, <3>1, ClippedFacts
      <3>3. Clipped(d, c, i) \in InDay(c, i)
        BY <3>1, <3>2, ClippedFacts DEF InDay
      <3>4. Clipped(d, c, i) \in D
        BY <2>2, <3>3, ClippedFacts DEF Outages, IsOutage
      <3>5. QED
        BY <3>1, <3>2, <3>4 DEF Moments
    <2>3. QED
      BY <2>1, <2>2
  <1>4. Down(c, i) = Merged(D)
    BY DEF Down
  <1> HIDE DEF D
  <1>5. QED
    BY <1>1, <1>2, <1>3, <1>4, MergedCounts DEF D, Outages

-----------------------------------------------------------------------------
(* Uptime: the log is the history.                                         *)

\* What the interval e says of a moment it covers.
Tells(e, l) == l.alive /\ l.status = e.status /\ (l.steady => (l.excluded <=> e.excluded))

\* The open interval's flag: right for a maintenance that shows, and as long as
\* no window has begun or ended since the interval began.
FlagFits(c) ==
    \A e \in events[c] : e.end = Open =>
        /\ component[c].status = "UNDER_MAINTENANCE" => e.excluded
        /\ steady[c] => (e.excluded <=> component[c].maintenance
                                        \/ component[c].status = "UNDER_MAINTENANCE")

\* With clocks that agree the log is the history: what an interval covers was
\* lived as it says, and what is not older than the retention is covered.
IsHistory(c) ==
    /\ component[c].created <= now
    /\ \A e \in events[c] : /\ component[c].created <= e.start /\ e.start <= now
                            /\ Ends(e) <= now
    /\ \A e \in events[c] : \A t \in Times : Covers(e, t) => Tells(e, lived[c][t])
    /\ \A t \in Times : component[c].created <= t /\ t < now =>
          /\ lived[c][t].alive
          /\ t >= now - RetentionDays * Day => \E e \in events[c] : Covers(e, t)

UptimeInv ==
    /\ UptimeTypeOK
    /\ \A c \in Components : IsFiniteSet(events[c])
    /\ \A c \in Existing : FlagFits(c) /\ (~skewed => IsHistory(c))

\* The open interval of a component.
LEMMA CurrentFacts ==
    ASSUME UptimeTypeOK, NEW c \in Components, Exists(c)
    PROVE  /\ Current(c) \in events[c] /\ Current(c) \in Event
           /\ Current(c).end = Open /\ Current(c).status = component[c].status
           /\ \A d \in events[c] : d.end = Open <=> d = Current(c)
  <1>1. PICK e \in events[c] : /\ e.status = component[c].status
                               /\ \A d \in events[c] : d.end = Open <=> d = e
    BY DEF UptimeTypeOK, Exists
  <1>2. Current(c) = e
    BY <1>1 DEF Current
  <1>3. e \in Event
    BY DEF UptimeTypeOK
  <1>4. QED
    BY <1>1, <1>2, <1>3

\* Closing a log ends what is open and keeps the rest.
LEMMA ClosedFacts ==
    ASSUME NEW log \in SUBSET Event, IsFiniteSet(log), NEW at \in Times
    PROVE  /\ Closed(log, at) \in SUBSET Event /\ IsFiniteSet(Closed(log, at))
           /\ \A e \in Closed(log, at) : e.end # Open
           /\ \A e \in Closed(log, at) : \E d \in log :
                 e = IF d.end = Open THEN [d EXCEPT !.end = at] ELSE d
           /\ \A d \in log : (IF d.end = Open THEN [d EXCEPT !.end = at] ELSE d) \in Closed(log, at)
  <1> DEFINE f == [d \in log |-> IF d.end = Open THEN [d EXCEPT !.end = at] ELSE d]
  <1>1. Closed(log, at) = {f[d] : d \in log}
    BY DEF Closed
  <1>2. IsFiniteSet(Closed(log, at))
    <2>1. DOMAIN f = log
      OBVIOUS
    <2> HIDE DEF f
    <2>2. QED
      BY <1>1, <2>1, FiniteImage
  <1>3. \A d \in log : f[d] \in Event /\ f[d].end # Open
    BY DEF Event, Times, Open
  <1>4. QED
    BY <1>1, <1>2, <1>3

HasCurrent(c) ==
    IF component[c].created = Unborn THEN events[c] = {}
    ELSE \E e \in events[c] : /\ e.status = component[c].status
                              /\ \A d \in events[c] : d.end = Open <=> d = e

\* The invariant after a step, in parts.
LEMMA InvFromParts ==
    ASSUME now' \in Skew..(Skew + MaxTime), component' \in [Components -> Component],
           events' \in [Components -> SUBSET Event], changes' \in 0..MaxChanges,
           skewed' \in BOOLEAN, steady' \in [Components -> BOOLEAN],
           lived' \in [Components -> [Times -> Moment]],
           \A c \in Components : HasCurrent(c)' /\ IsFiniteSet(events'[c]),
           \A c \in Existing' : FlagFits(c)' /\ (~skewed' => IsHistory(c)')
    PROVE  UptimeInv'
  BY DEF UptimeInv, UptimeTypeOK, HasCurrent

\* At first there is no component.
LEMMA UptimeInitInv == UptimeInit => UptimeInv
  <1> SUFFICES ASSUME UptimeInit PROVE UptimeInv
    OBVIOUS
  <1>1. "OPERATIONAL" \in Statuses /\ "OPERATIONAL" \in Statuses \ {"UNDER_MAINTENANCE"}
    BY StatusAssumption
  <1>2. /\ now \in Skew..(Skew + MaxTime) /\ changes \in 0..MaxChanges /\ skewed \in BOOLEAN
        /\ events \in [Components -> SUBSET Event]
    <2>1. now = Skew /\ changes = 0 /\ skewed = FALSE
      BY DEF UptimeInit
    <2>2. events \in [Components -> SUBSET Event]
      BY DEF UptimeInit
    <2>3. now \in Skew..(Skew + MaxTime)
      BY <2>1
    <2>4. changes \in 0..MaxChanges
      BY <2>1
    <2>5. skewed \in BOOLEAN
      BY <2>1
    <2>6. QED
      BY <2>2, <2>3, <2>4, <2>5
  <1>3. component \in [Components -> Component]
    BY <1>1 DEF UptimeInit, Component
  <1>4. lived \in [Components -> [Times -> Moment]] /\ steady \in [Components -> BOOLEAN]
    <2>1. NotLived \in Moment
      BY <1>1 DEF NotLived, Moment
    <2>2. QED
      BY <2>1 DEF UptimeInit
  <1>5. \A c \in Components : HasCurrent(c) /\ IsFiniteSet(events[c])
    BY FS_EmptySet DEF UptimeInit, HasCurrent
  <1>6. Existing = {}
    BY DEF UptimeInit, Existing, Exists
  <1>7. QED
    BY <1>2, <1>3, <1>4, <1>5, <1>6 DEF UptimeInv, UptimeTypeOK, HasCurrent

\* Time passes: the open interval covers the unit that is lived.
LEMMA TickInv == ASSUME UptimeInv, Tick PROVE UptimeInv'
  <1>0. UptimeTypeOK
    BY DEF UptimeInv
  <1>1. /\ now < Skew + MaxTime /\ now' = now + 1 /\ component' = component /\ events' = events
        /\ changes' = changes /\ skewed' = skewed /\ steady' = steady
    BY DEF Tick
  <1>2. now \in Times /\ now' \in Skew..(Skew + MaxTime) /\ Existing' = Existing
    <2>1. now \in Skew..(Skew + MaxTime)
      BY <1>0 DEF UptimeTypeOK
    <2>2. QED
      BY <1>1, <2>1 DEF Times, Existing, Exists
  <1>3. ASSUME NEW c \in Components
        PROVE  /\ lived'[c] \in [Times -> Moment]
               /\ c \in Existing => lived'[c] = [lived[c] EXCEPT ![now] = Present(c)]
    <2>1. lived[c] \in [Times -> Moment]
      BY <1>0 DEF UptimeTypeOK
    <2>2. CASE Exists(c)
      <3>1. Present(c) \in Moment
        <4>1. component[c] \in Component /\ steady[c] \in BOOLEAN
          BY <1>0 DEF UptimeTypeOK
        <4>2. QED
          BY <4>1 DEF Present, Moment, Component
      <3>2. lived'[c] = [lived[c] EXCEPT ![now] = Present(c)]
        BY <2>2 DEF Tick
      <3>3. QED
        BY <1>2, <2>1, <3>1, <3>2
    <2>3. CASE ~Exists(c)
      BY <2>1, <2>3 DEF Tick, Existing
    <2>4. QED
      BY <2>2, <2>3
  <1>4. lived' \in [Components -> [Times -> Moment]]
    <2>1. lived' = [c \in Components |-> lived'[c]]
      BY DEF Tick
    <2>2. QED
      BY <1>3, <2>1
  <1>5. ASSUME NEW c \in Existing, ~skewed PROVE IsHistory(c)'
    <2>1. IsHistory(c) /\ c \in Components /\ Exists(c)
      BY <1>5 DEF UptimeInv, Existing
    <2>2. /\ Current(c) \in events[c] /\ Current(c).end = Open
          /\ Current(c).status = component[c].status
          /\ \A d \in events[c] : d.end = Open <=> d = Current(c)
      BY <1>0, <2>1, CurrentFacts
    <2>3. component[c].created \in Int /\ \A t \in Times : t \in Int
      <3>1. component[c].created \in Times \union {Unborn}
        BY <1>0, <2>1 DEF UptimeTypeOK, Component
      <3>2. QED
        BY <3>1 DEF Times, Unborn
    <2>4. \A e \in events[c] : e.start \in Int /\ (e.end # Open => e.end \in Int)
      BY <1>0, <2>1, <2>3 DEF UptimeTypeOK, Event
    <2>5. now \in Int
      BY <1>0, TimesFacts
    <2>6. \A e \in events[c], t \in Times :
             Covers(e, t)' <=> Covers(e, t) \/ (t = now /\ e = Current(c))
      <3>1. SUFFICES ASSUME NEW e \in events[c], NEW t \in Times
                     PROVE  Covers(e, t)' <=> Covers(e, t) \/ (t = now /\ e = Current(c))
        OBVIOUS
      <3>2. e.start <= now /\ Ends(e) <= now
        BY <2>1 DEF IsHistory
      <3>3. Covers(e, t)' <=> e.start <= t /\ t < (IF e.end = Open THEN now + 1 ELSE e.end)
        BY <1>1 DEF Covers, Ends
      <3>4. QED
        BY <2>2, <2>3, <2>4, <2>5, <3>2, <3>3 DEF Covers, Ends
    <2>7. lived'[c] = [lived[c] EXCEPT ![now] = Present(c)] /\ DOMAIN lived[c] = Times
      BY <1>0, <1>3, <2>1 DEF UptimeTypeOK
    <2>8. \A t \in Times : lived'[c][t] = IF t = now THEN Present(c) ELSE lived[c][t]
      BY <1>2, <2>7
    <2>9. ASSUME NEW e \in events'[c], NEW t \in Times, Covers(e, t)'
          PROVE  Tells(e, lived'[c][t])
      <3>1. CASE t = now
        <4>1. ~Covers(e, t)
          <5>1. Ends(e) <= now /\ Ends(e) \in Int
            BY <1>1, <2>1, <2>4, <2>5 DEF Ends, IsHistory
          <5>2. QED
            BY <2>5, <3>1, <5>1 DEF Covers
        <4>2. e = Current(c)
          BY <1>1, <2>6, <2>9, <4>1
        <4>3. FlagFits(c)
          BY <1>5 DEF UptimeInv
        <4>4. Tells(Current(c), Present(c))
          BY <2>2, <4>3 DEF FlagFits, Tells, Present
        <4>5. QED
          BY <2>8, <3>1, <4>2, <4>4
      <3>2. CASE t # now
        <4>1. Covers(e, t)
          BY <1>1, <2>6, <2>9, <3>2
        <4>2. QED
          BY <1>1, <2>1, <2>8, <3>2, <4>1 DEF IsHistory
      <3>3. QED
        BY <3>1, <3>2
    <2>10. ASSUME NEW t \in Times, component'[c].created <= t, t < now'
           PROVE  /\ lived'[c][t].alive
                  /\ t >= now' - RetentionDays * Day => \E e \in events'[c] : Covers(e, t)'
      <3>1. CASE t = now
        BY <1>1, <2>2, <2>6, <2>8, <3>1 DEF Present
      <3>2. CASE t # now
        <4>1. component[c].created <= t /\ t < now
          BY <1>1, <2>3, <2>5, <2>10, <3>2
        <4>2. lived[c][t].alive /\ (t >= now - RetentionDays * Day => \E e \in events[c] : Covers(e, t))
          BY <2>1, <4>1 DEF IsHistory
        <4>3. RetentionDays * Day \in Int
          OBVIOUS
        <4>4. t >= now' - RetentionDays * Day => t >= now - RetentionDays * Day
          BY <1>1, <2>3, <2>5, <4>3
        <4>5. QED
          BY <1>1, <2>6, <2>8, <3>2, <4>2, <4>4
      <3>3. QED
        BY <3>1, <3>2
    <2>11. /\ component'[c].created <= now'
           /\ \A e \in events'[c] : /\ component'[c].created <= e.start /\ e.start <= now'
                                    /\ Ends(e)' <= now'
      BY <1>1, <2>1, <2>3, <2>4, <2>5 DEF IsHistory, Ends
    <2>12. QED
      BY <2>9, <2>10, <2>11 DEF IsHistory
  <1>6. \A c \in Components : HasCurrent(c)' /\ IsFiniteSet(events'[c])
    BY <1>1 DEF UptimeInv, UptimeTypeOK, HasCurrent
  <1>7. ASSUME NEW c \in Existing PROVE FlagFits(c)'
    BY <1>1, <1>7 DEF UptimeInv, FlagFits
  <1>8. QED
    BY <1>0, <1>1, <1>2, <1>4, <1>5, <1>6, <1>7, InvFromParts DEF UptimeTypeOK

\* A component's row and log change, at the writer's time.
LEMMA RowChangeInv ==
    ASSUME UptimeInv, NEW c \in Components, now' = now, lived' = lived, changes' \in 0..MaxChanges,
           component' = [component EXCEPT ![c] = component'[c]],
           events' = [events EXCEPT ![c] = events'[c]],
           component'[c] \in Component, events'[c] \in SUBSET Event, IsFiniteSet(events'[c]),
           HasCurrent(c)', skewed' \in BOOLEAN, skewed => skewed',
           steady' = [steady EXCEPT ![c] = steady'[c]], steady'[c] \in BOOLEAN, FlagFits(c)',
           ~skewed' /\ c \in Existing' => IsHistory(c)'
    PROVE  UptimeInv'
  <1>1. UptimeTypeOK
    BY DEF UptimeInv
  <1>2. /\ component' \in [Components -> Component] /\ events' \in [Components -> SUBSET Event]
        /\ steady' \in [Components -> BOOLEAN]
    BY <1>1 DEF UptimeTypeOK
  <1>3. \A d \in Components \ {c} : /\ component'[d] = component[d] /\ events'[d] = events[d]
                                    /\ steady'[d] = steady[d]
    BY <1>1 DEF UptimeTypeOK
  <1>4. ASSUME NEW d \in Components PROVE HasCurrent(d)' /\ IsFiniteSet(events'[d])
    <2>1. CASE d = c
      BY <2>1
    <2>2. CASE d # c
      BY <1>1, <1>3, <2>2 DEF UptimeInv, UptimeTypeOK, HasCurrent
    <2>3. QED
      BY <2>1, <2>2
  <1>5. ASSUME NEW d \in Existing' PROVE FlagFits(d)' /\ (~skewed' => IsHistory(d)')
    <2>1. d \in Components
      BY DEF Existing
    <2>2. CASE d = c
      BY <1>5, <2>2
    <2>3. CASE d # c
      <3>1. /\ d \in Existing /\ component'[d] = component[d] /\ events'[d] = events[d]
            /\ steady'[d] = steady[d]
        BY <1>3, <2>1, <2>3 DEF Existing, Exists
      <3>2. FlagFits(d) /\ (~skewed' => IsHistory(d))
        BY <3>1 DEF UptimeInv
      <3>3. FlagFits(d)'
        BY <3>1, <3>2 DEF FlagFits
      <3>4. ~skewed' => IsHistory(d)'
        BY <3>1, <3>2 DEF IsHistory, Covers, Ends
      <3>5. QED
        BY <3>3, <3>4
    <2>4. QED
      BY <2>2, <2>3
  <1>6. QED
    BY <1>1, <1>2, <1>4, <1>5, InvFromParts DEF UptimeTypeOK

\* A component starts with an interval that covers nothing yet.
LEMMA CreateComponentInv ==
    ASSUME UptimeInv, NEW c \in Components, NEW outage \in Statuses \ {"UNDER_MAINTENANCE"},
           NEW at \in (now - Skew)..now, CreateComponent(c, outage, at)
    PROVE  UptimeInv'
  <1> DEFINE e == [status |-> outage, start |-> at, end |-> Open, excluded |-> FALSE]
             row == [created |-> now, status |-> outage, manual |-> "OPERATIONAL",
                     outage |-> outage, maintenance |-> FALSE]
  <1>1. UptimeTypeOK
    BY DEF UptimeInv
  <1>2. at \in Times /\ now \in Times /\ now \in Nat /\ at \in Int
    <2>1. now \in Skew..(Skew + MaxTime)
      BY <1>1 DEF UptimeTypeOK
    <2>2. QED
      BY <2>1 DEF Times
  <1>3. /\ now' = now /\ lived' = lived /\ changes' = changes /\ skewed' = (skewed \/ at # now)
        /\ component[c].created = Unborn /\ steady' = steady
        /\ component' = [component EXCEPT ![c] = component'[c]]
        /\ component'[c] = row
        /\ events' = [events EXCEPT ![c] = events'[c]] /\ events'[c] = {e}
    <2>1. component \in [Components -> Component] /\ events \in [Components -> SUBSET Event]
      BY <1>1 DEF UptimeTypeOK
    <2>2. component' = [component EXCEPT ![c] = row]
      BY <2>1 DEF CreateComponent
    <2>3. events' = [events EXCEPT ![c] = {e}]
      BY DEF CreateComponent
    <2> HIDE DEF row
    <2>4. component' = [component EXCEPT ![c] = component'[c]] /\ component'[c] = row
      BY <2>1, <2>2
    <2>5. events' = [events EXCEPT ![c] = events'[c]] /\ events'[c] = {e}
      BY <2>1, <2>3
    <2>6. QED
      BY <2>4, <2>5 DEF CreateComponent, Exists
  <1>4. /\ component'[c] \in Component /\ component'[c].created = now
        /\ component'[c].status = outage /\ component'[c].maintenance = FALSE
    BY <1>2, <1>3, StatusAssumption DEF Component
  <1>5. e \in Event /\ IsFiniteSet({e}) /\ e.end = Open /\ e.status = outage /\ e.start = at
        /\ e.excluded = FALSE
    <2>1. IsFiniteSet({} \union {e})
      BY FS_EmptySet, FS_AddElement
    <2>2. {} \union {e} = {e}
      OBVIOUS
    <2>3. QED
      BY <1>2, <2>1, <2>2 DEF Event
  <1> HIDE DEF e, row
  <1>6. HasCurrent(c)' /\ FlagFits(c)'
    <2>1. HasCurrent(c)'
      BY <1>2, <1>3, <1>4, <1>5 DEF HasCurrent, Unborn
    <2>2. FlagFits(c)'
      BY <1>3, <1>4, <1>5 DEF FlagFits
    <2>3. QED
      BY <2>1, <2>2
  <1>7. ASSUME ~skewed' PROVE IsHistory(c)'
    <2>1. at = now
      BY <1>3, <1>7
    <2>2. Ends(e)' = now'
      BY <1>3, <1>5 DEF Ends
    <2>3. \A t \in Times : t \in Int
      BY DEF Times
    <2>4. /\ component'[c].created = now /\ now' = now /\ e.start = now /\ now \in Int
          /\ events'[c] = {e}
      BY <1>2, <1>3, <1>4, <1>5, <2>1 DEF Times
    <2>5. \A t \in Times : ~Covers(e, t)'
      BY <2>2, <2>3, <2>4 DEF Covers
    <2>6. \A t \in Times : ~(component'[c].created <= t /\ t < now')
      BY <2>3, <2>4
    <2>7. QED
      BY <2>2, <2>4, <2>5, <2>6 DEF IsHistory
  <1>8. /\ skewed' \in BOOLEAN /\ (skewed => skewed') /\ changes' \in 0..MaxChanges
        /\ steady' = [steady EXCEPT ![c] = steady'[c]] /\ steady'[c] \in BOOLEAN
    BY <1>1, <1>3 DEF UptimeTypeOK
  <1>9. events'[c] \in SUBSET Event /\ IsFiniteSet(events'[c])
    BY <1>3, <1>5
  <1>10. QED
    BY <1>3, <1>4, <1>6, <1>7, <1>8, <1>9, RowChangeInv

\* The sweep takes intervals that cover nothing the retention covers.
LEMMA SweepInv == ASSUME UptimeInv, Sweep PROVE UptimeInv'
  <1>1. UptimeTypeOK
    BY DEF UptimeInv
  <1>2. /\ now' = now /\ component' = component /\ changes' = changes /\ skewed' = skewed
        /\ lived' = lived /\ steady' = steady /\ Existing' = Existing
        /\ events' = [c \in Components |-> {e \in events[c] : ~Expired(e)}]
    BY DEF Sweep, Existing, Exists
  <1>3. \A c \in Components : events'[c] = {e \in events[c] : ~Expired(e)}
    BY <1>2
  <1>4. events' \in [Components -> SUBSET Event]
    BY <1>1, <1>2 DEF UptimeTypeOK
  <1>5. ASSUME NEW c \in Components PROVE HasCurrent(c)' /\ IsFiniteSet(events'[c])
    <2>1. IsFiniteSet(events'[c])
      <3>1. events'[c] \in SUBSET events[c] /\ IsFiniteSet(events[c])
        BY <1>3 DEF UptimeInv
      <3>2. QED
        BY <3>1, FS_Subset
    <2>2. \A e \in events[c] : e.end = Open => e \in events'[c]
      BY <1>3 DEF Expired
    <2>3. HasCurrent(c)
      BY <1>1 DEF UptimeTypeOK, HasCurrent
    <2>4. HasCurrent(c)'
      BY <1>2, <1>3, <2>2, <2>3 DEF HasCurrent
    <2>5. QED
      BY <2>1, <2>4
  <1>6. ASSUME NEW c \in Existing', ~skewed' PROVE IsHistory(c)'
    <2>1. c \in Components /\ IsHistory(c)
      BY <1>2, <1>6 DEF UptimeInv, Existing
    <2>2. \A e, t : Covers(e, t)' <=> Covers(e, t)
      BY <1>2 DEF Covers, Ends
    <2>3. now \in Int /\ RetentionDays * Day \in Int /\ \A t \in Times : t \in Int
      <3>1. now \in Int
        BY <1>1, TimesFacts
      <3>2. QED
        BY <3>1 DEF Times
    <2>4. ASSUME NEW e \in events[c], NEW t \in Times, Covers(e, t), t >= now - RetentionDays * Day
          PROVE  e \in events'[c]
      <3>1. e.end = Open \/ (t < e.end /\ e.end \in Int)
        BY <1>1, <2>1, <2>4 DEF Covers, Ends, UptimeTypeOK, Event, Times
      <3>2. ~Expired(e)
        <4> DEFINE cutoff == now - RetentionDays * Day
        <4>1. cutoff \in Int /\ t >= cutoff
          BY <2>3, <2>4
        <4> HIDE DEF cutoff
        <4>2. ~(e.end # Open /\ e.end < cutoff)
          BY <2>3, <3>1, <4>1
        <4>3. QED
          BY <4>2 DEF Expired, cutoff
      <3>3. QED
        BY <1>3, <2>1, <3>2
    <2>5. \A e \in events'[c] : e \in events[c] /\ Ends(e)' = Ends(e)
      BY <1>2, <1>3, <2>1 DEF Ends
    <2>6. QED
      BY <1>2, <2>1, <2>2, <2>4, <2>5 DEF IsHistory
  <1>7. ASSUME NEW c \in Existing' PROVE FlagFits(c)'
    BY <1>2, <1>3, <1>7 DEF UptimeInv, FlagFits, Existing
  <1>8. QED
    BY <1>1, <1>2, <1>4, <1>5, <1>6, <1>7, InvFromParts DEF UptimeTypeOK

\* Reconciling gives a status.
LEMMA StatusTyped ==
    ASSUME NEW row \in Component
    PROVE  /\ ReconciledStatus(row) \in Statuses
           /\ IsMaintenance(row, ReconciledStatus(row))
                 <=> row.maintenance \/ ReconciledStatus(row) = "UNDER_MAINTENANCE"
  <1> DEFINE ss == {row.manual, row.outage}
                   \union (IF row.maintenance THEN {"UNDER_MAINTENANCE"} ELSE {})
  <1>1. ss \in SUBSET Statuses /\ ss \in SUBSET (DOMAIN Severity)
    BY StatusAssumption DEF Component
  <1>2. Worst(ss) \in Statuses
    BY <1>1, WorstFacts, StatusAssumption
  <1>3. ReconciledStatus(row) = Worst(ss) /\ row.outage # "UNDER_MAINTENANCE"
    BY DEF ReconciledStatus, Component
  <1>4. Worst(ss) = "UNDER_MAINTENANCE" /\ ~row.maintenance => row.manual = "UNDER_MAINTENANCE"
    <2>1. Worst(ss) \in ss \union {"OPERATIONAL"}
      BY <1>1, WorstFacts
    <2>2. QED
      BY <1>3, <2>1
  <1> HIDE DEF ss
  <1>5. QED
    BY <1>2, <1>3, <1>4 DEF IsMaintenance

\* Closing the open interval and opening the next leaves no gap.
LEMMA ReconcileInv ==
    ASSUME UptimeInv, NEW c \in Components, Exists(c), NEW row \in Component,
           row.created = component[c].created, row.status = component[c].status,
           NEW at \in (now - Skew)..now, Reconcile(c, row, at),
           now' = now, lived' = lived, changes' \in 0..MaxChanges
    PROVE  UptimeInv'
  <1> DEFINE status == ReconciledStatus(row)
             e == [status |-> status, start |-> at, end |-> Open,
                   excluded |-> IsMaintenance(row, status)]
             log == Closed(events[c], at)
  <1>1. /\ component \in [Components -> Component] /\ events \in [Components -> SUBSET Event]
        /\ skewed \in BOOLEAN /\ UptimeTypeOK
    BY DEF UptimeInv, UptimeTypeOK
  <1>2. at \in Times /\ now \in Times /\ now \in Nat /\ at \in Int /\ at <= now
    <2>1. now \in Skew..(Skew + MaxTime)
      BY DEF UptimeInv, UptimeTypeOK
    <2>2. QED
      BY <2>1 DEF Times
  <1>3. c \in Existing /\ (~skewed => IsHistory(c)) /\ IsFiniteSet(events[c])
    BY DEF UptimeInv, Existing
  <1>4. component[c].created # Unborn
    BY DEF Exists
  <1>5. CASE status = component[c].status
    <2>1. /\ component' = [component EXCEPT ![c] = row] /\ events' = events /\ skewed' = skewed
          /\ steady' = [steady EXCEPT ![c] = @ /\ row.maintenance = component[c].maintenance]
      BY <1>5 DEF Reconcile
    <2>2. component'[c] = row /\ component' = [component EXCEPT ![c] = component'[c]]
      BY <1>1, <2>1
    <2>3. events'[c] = events[c] /\ events' = [events EXCEPT ![c] = events'[c]]
          /\ events[c] \in SUBSET Event
      BY <1>1, <2>1
    <2>4. HasCurrent(c)'
      <3>1. HasCurrent(c)
        BY <1>1 DEF UptimeTypeOK, HasCurrent
      <3>2. QED
        BY <2>2, <2>3, <3>1 DEF HasCurrent
    <2>5. ~skewed' /\ c \in Existing' => IsHistory(c)'
      BY <1>3, <2>1, <2>2, <2>3 DEF IsHistory, Covers, Ends
    <2>6. /\ steady' = [steady EXCEPT ![c] = steady'[c]] /\ steady'[c] \in BOOLEAN
          /\ steady'[c] => steady[c] /\ row.maintenance = component[c].maintenance
      BY <1>1, <2>1 DEF UptimeTypeOK
    <2>7. FlagFits(c)'
      <3>1. FlagFits(c)
        BY <1>3 DEF UptimeInv
      <3>2. QED
        BY <2>2, <2>3, <2>6, <3>1 DEF FlagFits
    <2>8. QED
      BY <1>1, <1>3, <2>1, <2>2, <2>3, <2>4, <2>5, <2>6, <2>7, RowChangeInv
  <1>6. CASE status # component[c].status
    <2>1. /\ component' = [component EXCEPT ![c] = [row EXCEPT !.status = status]]
          /\ events' = [events EXCEPT ![c] = log \union {e}]
          /\ skewed' = (skewed \/ at # now) /\ steady' = [steady EXCEPT ![c] = TRUE]
      <3>1. events' = [events EXCEPT ![c] = Closed(@, at) \union {e}]
        BY <1>6 DEF Reconcile
      <3>2. QED
        BY <1>1, <1>6, <3>1 DEF Reconcile
    <2>2. /\ status \in Statuses /\ IsMaintenance(row, status) \in BOOLEAN
          /\ IsMaintenance(row, status) <=> row.maintenance \/ status = "UNDER_MAINTENANCE"
      <3>1. row.maintenance \in BOOLEAN
        BY DEF Component
      <3>2. QED
        BY <3>1, StatusTyped DEF IsMaintenance
    <2>3. /\ component'[c] \in Component /\ component'[c].created = component[c].created
          /\ component'[c].status = status /\ component'[c].maintenance = row.maintenance
          /\ component' = [component EXCEPT ![c] = component'[c]]
      <3> HIDE DEF status
      <3>1. [row EXCEPT !.status = status] \in Component
        BY <2>2 DEF Component
      <3>2. component'[c] = [row EXCEPT !.status = status]
        BY <1>1, <2>1
      <3>3. QED
        BY <1>1, <2>1, <3>1, <3>2 DEF Component
    <2>4. /\ e \in Event /\ e.start = at /\ e.end = Open /\ e.status = status
          /\ e.excluded = IsMaintenance(row, status)
      <3> HIDE DEF status
      <3>1. QED
        BY <1>2, <2>2 DEF Event
    <2>5. /\ log \in SUBSET Event /\ IsFiniteSet(log)
          /\ \A d \in log : d.end # Open
          /\ \A d \in log : \E b \in events[c] :
                d = IF b.end = Open THEN [b EXCEPT !.end = at] ELSE b
          /\ \A b \in events[c] : (IF b.end = Open THEN [b EXCEPT !.end = at] ELSE b) \in log
      BY <1>1, <1>2, <1>3, ClosedFacts
    <2> HIDE DEF e, log, status
    <2>6. /\ events'[c] = log \union {e} /\ events' = [events EXCEPT ![c] = events'[c]]
          /\ events'[c] \in SUBSET Event /\ IsFiniteSet(events'[c])
      <3>1. IsFiniteSet(log \union {e})
        BY <2>5, FS_AddElement
      <3>2. QED
        BY <1>1, <2>1, <2>4, <2>5, <3>1
    <2>7. HasCurrent(c)'
      BY <1>4, <2>3, <2>4, <2>5, <2>6 DEF HasCurrent
    <2>8. ASSUME ~skewed' PROVE IsHistory(c)'
      <3>1. at = now /\ IsHistory(c)
        BY <1>3, <2>1, <2>8
      <3>2. component[c].created \in Int /\ \A t \in Times : t \in Int
        <4>1. component[c].created \in Times \union {Unborn}
          BY <1>1 DEF UptimeTypeOK, Component
        <4>2. QED
          BY <4>1 DEF Times, Unborn
      <3>3. \A b \in events[c] : b \in Event
        BY <1>1
      <3>4. ASSUME NEW d \in log
            PROVE  \E b \in events[c] : /\ d.start = b.start /\ d.status = b.status
                                        /\ d.excluded = b.excluded /\ Ends(d)' = Ends(b)
        <4>1. PICK b \in events[c] : d = IF b.end = Open THEN [b EXCEPT !.end = at] ELSE b
          BY <2>5
        <4>2. b \in Event
          BY <3>3
        <4>3. CASE b.end = Open
          <5>1. d = [b EXCEPT !.end = at]
            BY <4>1, <4>3
          <5>2. /\ d.start = b.start /\ d.status = b.status /\ d.excluded = b.excluded
                /\ d.end = at
            BY <4>2, <5>1 DEF Event
          <5>3. d.end # Open /\ Ends(b) = now /\ Ends(d)' = d.end
            BY <2>5, <4>3 DEF Ends
          <5>4. QED
            BY <3>1, <5>2, <5>3
        <4>4. CASE b.end # Open
          BY <4>1, <4>4 DEF Ends
        <4>5. QED
          BY <4>3, <4>4
      <3>5. ASSUME NEW b \in events[c]
            PROVE  \E d \in log : d.start = b.start /\ Ends(d)' = Ends(b)
        <4>1. b \in Event
          BY <3>3
        <4>2. CASE b.end = Open
          <5>1. [b EXCEPT !.end = at] \in log
            BY <2>5, <4>2
          <5> DEFINE d == [b EXCEPT !.end = at]
          <5>2. d.start = b.start /\ d.end = at
            BY <4>1 DEF Event
          <5>3. d.end # Open
            BY <2>5, <5>1
          <5> HIDE DEF d
          <5>4. Ends(d)' = Ends(b)
            BY <3>1, <4>2, <5>2, <5>3 DEF Ends
          <5>5. QED
            BY <5>1, <5>2, <5>4 DEF d
        <4>3. CASE b.end # Open
          <5>1. b \in log
            BY <2>5, <4>3
          <5>2. QED
            BY <4>3, <5>1 DEF Ends
        <4>4. QED
          BY <4>2, <4>3
      <3>6. Ends(e)' = now /\ e.start = now
        BY <2>4, <3>1 DEF Ends
      <3>7. ASSUME NEW d \in events'[c]
            PROVE  /\ component'[c].created <= d.start /\ d.start <= now'
                   /\ Ends(d)' <= now'
        <4>1. CASE d \in log
          BY <2>3, <3>1, <3>4, <4>1 DEF IsHistory
        <4>2. CASE d = e
          BY <1>2, <2>3, <3>1, <3>6, <4>2 DEF IsHistory
        <4>3. QED
          BY <2>6, <4>1, <4>2
      <3>8. ASSUME NEW d \in events'[c], NEW t \in Times, Covers(d, t)'
            PROVE  Tells(d, lived'[c][t])
        <4>1. CASE d \in log
          <5>1. PICK b \in events[c] : /\ d.start = b.start /\ d.status = b.status
                                       /\ d.excluded = b.excluded /\ Ends(d)' = Ends(b)
            BY <3>4, <4>1
          <5>2. Covers(b, t)
            BY <3>8, <5>1 DEF Covers
          <5>3. QED
            BY <3>1, <5>1, <5>2 DEF IsHistory, Tells
        <4>2. CASE d = e
          <5>1. d.start <= t /\ t < Ends(d)'
            BY <3>8 DEF Covers
          <5>2. now <= t /\ t < now
            BY <3>6, <4>2, <5>1
          <5>3. now \in Int /\ t \in Int
            BY <1>2, <3>2
          <5>4. FALSE
            BY <5>2, <5>3
          <5>5. QED
            BY <5>4
        <4>3. QED
          BY <2>6, <4>1, <4>2
      <3>9. ASSUME NEW t \in Times, component'[c].created <= t, t < now'
            PROVE  /\ lived'[c][t].alive
                   /\ t >= now' - RetentionDays * Day => \E d \in events'[c] : Covers(d, t)'
        <4>1. /\ lived[c][t].alive
              /\ t >= now - RetentionDays * Day => \E b \in events[c] : Covers(b, t)
          BY <2>3, <3>1, <3>9 DEF IsHistory
        <4>2. \A b \in events[c] : Covers(b, t) => \E d \in events'[c] : Covers(d, t)'
          BY <2>6, <3>5 DEF Covers
        <4>3. QED
          BY <4>1, <4>2
      <3>10. component'[c].created <= now'
        BY <2>3, <3>1 DEF IsHistory
      <3>11. QED
        BY <3>7, <3>8, <3>9, <3>10 DEF IsHistory
    <2>9. /\ skewed' \in BOOLEAN /\ (skewed => skewed') /\ steady'[c] \in BOOLEAN
          /\ steady' = [steady EXCEPT ![c] = steady'[c]]
      BY <1>1, <2>1 DEF UptimeTypeOK
    <2>10. FlagFits(c)'
      <3>1. \A d \in events'[c] : d.end = Open => d = e
        BY <2>5, <2>6
      <3>2. QED
        BY <2>2, <2>3, <2>4, <3>1 DEF FlagFits
    <2>11. QED
      BY <1>1, <2>3, <2>6, <2>7, <2>8, <2>9, <2>10, RowChangeInv
  <1>7. QED
    BY <1>5, <1>6

\* Whatever source changes.
LEMMA ChangeSourceInv ==
    ASSUME UptimeInv, NEW c \in Components, NEW at \in (now - Skew)..now, ChangeSource(c, at)
    PROVE  UptimeInv'
  <1>1. component[c] \in Component /\ changes \in 0..MaxChanges
    BY DEF UptimeInv, UptimeTypeOK
  <1>2. Exists(c) /\ changes' \in 0..MaxChanges /\ now' = now /\ lived' = lived
    BY <1>1 DEF ChangeSource
  <1>3. ASSUME NEW s \in Statuses, Reconcile(c, [component[c] EXCEPT !.manual = s], at)
        PROVE  UptimeInv'
    <2> DEFINE row == [component[c] EXCEPT !.manual = s]
    <2>1. /\ row \in Component /\ row.created = component[c].created
          /\ row.status = component[c].status
      BY <1>1 DEF Component
    <2> HIDE DEF row
    <2>2. Reconcile(c, row, at)
      BY <1>3 DEF row
    <2>3. QED
      BY <1>2, <2>1, <2>2, ReconcileInv
  <1>4. ASSUME NEW s \in Statuses \ {"UNDER_MAINTENANCE"},
               Reconcile(c, [component[c] EXCEPT !.outage = s], at)
        PROVE  UptimeInv'
    <2> DEFINE row == [component[c] EXCEPT !.outage = s]
    <2>1. /\ row \in Component /\ row.created = component[c].created
          /\ row.status = component[c].status
      BY <1>1 DEF Component
    <2> HIDE DEF row
    <2>2. Reconcile(c, row, at)
      BY <1>4 DEF row
    <2>3. QED
      BY <1>2, <2>1, <2>2, ReconcileInv
  <1>5. ASSUME Reconcile(c, [component[c] EXCEPT !.maintenance = ~@], at)
        PROVE  UptimeInv'
    <2> DEFINE row == [component[c] EXCEPT !.maintenance = ~@]
    <2>1. /\ row \in Component /\ row.created = component[c].created
          /\ row.status = component[c].status
      BY <1>1 DEF Component
    <2> HIDE DEF row
    <2>2. Reconcile(c, row, at)
      BY <1>5 DEF row
    <2>3. QED
      BY <1>2, <2>1, <2>2, ReconcileInv
  <1>6. QED
    BY <1>3, <1>4, <1>5 DEF ChangeSource

\* Every step.
LEMMA UptimeNextInv == UptimeInv /\ [UptimeNext]_uptimeVars => UptimeInv'
  <1> SUFFICES ASSUME UptimeInv, [UptimeNext]_uptimeVars PROVE UptimeInv'
    OBVIOUS
  <1>1. CASE Tick
    BY <1>1, TickInv
  <1>2. CASE Sweep
    BY <1>2, SweepInv
  <1>3. ASSUME NEW c \in Components, NEW at \in (now - Skew)..now, ChangeSource(c, at)
        PROVE  UptimeInv'
    BY <1>3, ChangeSourceInv
  <1>4. ASSUME NEW c \in Components, NEW at \in (now - Skew)..now,
               NEW outage \in Statuses \ {"UNDER_MAINTENANCE"}, CreateComponent(c, outage, at)
        PROVE  UptimeInv'
    BY <1>4, CreateComponentInv
  <1>5. CASE UNCHANGED uptimeVars
    BY <1>5 DEF uptimeVars, UptimeInv, UptimeTypeOK, Existing, Exists, IsHistory, FlagFits, Covers, Ends
  <1>6. QED
    BY <1>1, <1>2, <1>3, <1>4, <1>5 DEF UptimeNext

\* In every reachable state the log is the history, as long as no clock that
\* was behind has written to it (reconcileInTransaction, runRetentionSweep).
THEOREM UptimeInvariance == UptimeSpec => []UptimeInv
  <1>1. QED
    BY UptimeInitInv, UptimeNextInv, PTL DEF UptimeSpec

-----------------------------------------------------------------------------
(* Uptime: the bars.                                                       *)

\* The downtime of a day is what the log says of its moments.
LEMMA DownIsLogged ==
    ASSUME UptimeInv, NEW c \in Existing, NEW i \in ShownDays
    PROVE  /\ \A t \in Covered(c, i) :
                 LoggedDown(c, t) <=> \E e \in events[c] : IsOutage(e) /\ Covers(e, t)
           /\ Down(c, i) = Cardinality({t \in Covered(c, i) : LoggedDown(c, t)})
  <1>1. UptimeTypeOK /\ c \in Components /\ IsFiniteSet(events[c])
    BY DEF Existing, UptimeInv
  <1>2. Down(c, i) = Cardinality({t \in Covered(c, i) :
                                    \E e \in events[c] : IsOutage(e) /\ Covers(e, t)})
    BY <1>1, DownCounts
  <1>3. \A t \in Covered(c, i) : t < now
    <2>1. /\ EffectiveStart(c, i) \in Int /\ EffectiveEnd(i) \in Int /\ now \in Int
          /\ EffectiveEnd(i) <= now
      BY <1>1, TimesFacts
    <2>2. QED
      BY <2>1 DEF Covered
  <1>4. \A t \in Covered(c, i), e \in events[c] :
           Covers(e, t) <=> e.start <= t /\ (e.end = Open \/ t < e.end)
    BY <1>3 DEF Covers, Ends
  <1>5. \A t \in Covered(c, i) :
           LoggedDown(c, t) <=> \E e \in events[c] : IsOutage(e) /\ Covers(e, t)
    BY <1>4 DEF LoggedDown
  <1>6. QED
    BY <1>2, <1>5

\* The downtime of a day is the measure of the union of its outages, in every
\* reachable state and whatever the clocks do.
THEOREM DowntimeCountedOnce == UptimeSpec => [](UptimeTypeOK /\ DownIsCountedOnce)
  <1>1. UptimeInv => UptimeTypeOK /\ DownIsCountedOnce
    BY DownIsLogged DEF UptimeInv, DownIsCountedOnce
  <1>2. QED
    BY <1>1, UptimeInvariance, PTL

\* The sweep keeps every moment of the last RetentionDays days.
LEMMA ShownIsRetained ==
    ASSUME UptimeTypeOK, NEW i \in ShownDays, i < RetentionDays
    PROVE  now - RetentionDays * Day < DayStart(i)
  <1> DEFINE q == now \div Day
  <1>1. now \in Nat /\ i \in Nat /\ i <= UptimeDays - 1 /\ Day \in Nat /\ Day > 0
    BY TimesFacts DEF ShownDays
  <1>2. q \in Int /\ now < q * Day + Day
    BY <1>1
  <1> HIDE DEF q
  <1>3. DayStart(i) = q * Day - i * Day
    BY DEF DayStart, q
  <1>4. RetentionDays \in Nat /\ i + 1 <= RetentionDays
    BY <1>1
  <1>5. (i + 1) * Day <= RetentionDays * Day
    <2>1. PICK k \in Nat : RetentionDays = i + 1 + k
      <3>1. RetentionDays - (i + 1) \in Nat /\ RetentionDays = i + 1 + (RetentionDays - (i + 1))
        BY <1>1, <1>4
      <3>2. QED
        BY <3>1
    <2>2. RetentionDays * Day = (i + 1) * Day + k * Day
      BY <1>1, <2>1
    <2>3. k * Day \in Nat
      BY <1>1, <2>1
    <2>4. (i + 1) * Day \in Nat
      BY <1>1
    <2>5. QED
      BY <2>2, <2>3, <2>4
  <1>6. (i + 1) * Day = i * Day + Day /\ i * Day \in Int /\ q * Day \in Int
        /\ RetentionDays * Day \in Int
    BY <1>1, <1>2, <1>4
  <1>7. QED
    BY <1>1, <1>2, <1>3, <1>5, <1>6

\* A moment a page shows was lived, what is left of the log covers it unless it
\* is older than the retention, and says how it was.
LEMMA ShownWasLived ==
    ASSUME UptimeInv, ~skewed, NEW c \in Existing, NEW i \in ShownDays, NEW t \in Covered(c, i)
    PROVE  /\ t \in Times /\ lived[c][t].alive
           /\ t >= now - RetentionDays * Day => \E e \in events[c] : Covers(e, t)
           /\ \A e \in events[c] : Covers(e, t) => Tells(e, lived[c][t])
  <1>1. UptimeTypeOK /\ IsHistory(c) /\ c \in Components /\ component[c].created # Unborn
    BY DEF UptimeInv, Existing, Exists
  <1>2. /\ EffectiveStart(c, i) \in Int /\ EffectiveEnd(i) \in Int /\ now \in Nat
        /\ EffectiveEnd(i) <= now /\ component[c].created \in Int
        /\ component[c].created <= EffectiveStart(c, i)
    BY <1>1, TimesFacts
  <1>3. t \in Int /\ component[c].created <= t /\ t < now
    BY <1>2 DEF Covered
  <1>4. component[c].created \in Times /\ now \in Times
    BY <1>1 DEF UptimeTypeOK, Component, Times
  <1>5. t \in Times
    BY <1>3, <1>4 DEF Times
  <1>6. QED
    BY <1>1, <1>3, <1>5 DEF IsHistory

\* One interval covers a moment the log can vouch for, and it is an outage just
\* if the moment was one.
LEMMA VouchedIsLogged ==
    ASSUME UptimeInv, ~skewed, NEW c \in Existing, NEW i \in ShownDays, NEW t \in Covered(c, i)
    PROVE  /\ LoggedDown(c, t) /\ lived[c][t].steady => Counts(lived[c][t])
           /\ Counts(lived[c][t]) /\ Vouched(c, t) => LoggedDown(c, t)
  <1>1. LoggedDown(c, t) <=> \E e \in events[c] : IsOutage(e) /\ Covers(e, t)
    BY DownIsLogged
  <1>2. \A e \in events[c] : Covers(e, t) => Tells(e, lived[c][t])
    BY ShownWasLived
  <1>3. ASSUME LoggedDown(c, t), lived[c][t].steady PROVE Counts(lived[c][t])
    <2>1. PICK e \in events[c] : IsOutage(e) /\ Covers(e, t)
      BY <1>1, <1>3
    <2>2. QED
      BY <1>2, <1>3, <2>1 DEF Tells, Counts, IsOutage
  <1>4. ASSUME Counts(lived[c][t]), Vouched(c, t) PROVE LoggedDown(c, t)
    <2>1. PICK e \in events[c] : Covers(e, t)
      BY <1>4, ShownWasLived DEF Vouched
    <2>2. IsOutage(e)
      BY <1>2, <1>4, <2>1 DEF Tells, Counts, IsOutage, Vouched
    <2>3. QED
      BY <1>1, <2>1, <2>2
  <1>5. QED
    BY <1>3, <1>4

\* A day the log can vouch for is covered without a gap, so its worst is found.
LEMMA ColourIsRight ==
    ASSUME UptimeInv, ~skewed, NEW c \in Existing, NEW i \in ShownDays,
           \A t \in Covered(c, i) : Vouched(c, t)
    PROVE  DayStatus(c, i) = Worst({IF lived[c][t].excluded THEN "UNDER_MAINTENANCE"
                                    ELSE lived[c][t].status : t \in Covered(c, i)})
  <1>1. UptimeTypeOK /\ c \in Components
    BY DEF UptimeInv, Existing
  <1>2. \A t \in Covered(c, i) :
           /\ \E e \in events[c] : Covers(e, t)
           /\ \A e \in events[c] : Covers(e, t) =>
                 /\ lived[c][t].status = e.status
                 /\ lived[c][t].excluded <=> e.excluded
    BY ShownWasLived DEF Vouched, Tells
  <1> DEFINE X == {IF lived[c][t].excluded THEN "UNDER_MAINTENANCE"
                   ELSE lived[c][t].status : t \in Covered(c, i)}
             Y == {IF e.excluded THEN "UNDER_MAINTENANCE" ELSE e.status : e \in InDay(c, i)}
  <1>3. X = Y
    <2>1. ASSUME NEW t \in Covered(c, i)
          PROVE  (IF lived[c][t].excluded THEN "UNDER_MAINTENANCE" ELSE lived[c][t].status) \in Y
      <3>1. PICK d \in events[c] : Covers(d, t)
        BY <1>2
      <3>2. t \in Int
        BY <1>1, TimesFacts DEF Covered
      <3>3. /\ Clipped(d, c, i).start <= t /\ t < Clipped(d, c, i).end
            /\ Clipped(d, c, i).start \in Int /\ Clipped(d, c, i).end \in Int
            /\ Clipped(d, c, i).status = d.status /\ Clipped(d, c, i).excluded = d.excluded
        BY <1>1, <3>1, <3>2, ClippedFacts
      <3>4. Clipped(d, c, i) \in InDay(c, i)
        BY <3>2, <3>3 DEF InDay
      <3>5. (lived[c][t].excluded <=> d.excluded) /\ lived[c][t].status = d.status
        BY <1>2, <3>1
      <3>6. QED
        BY <3>3, <3>4, <3>5
    <2>2. ASSUME NEW e \in InDay(c, i)
          PROVE  (IF e.excluded THEN "UNDER_MAINTENANCE" ELSE e.status) \in X
      <3>1. PICK d \in events[c] : e = Clipped(d, c, i) /\ e.start < e.end
        BY DEF InDay
      <3>2. /\ e.start \in Int /\ e.end \in Int
            /\ e.status = d.status /\ e.excluded = d.excluded
        BY <1>1, <3>1, ClippedFacts
      <3>3. e.start \in Covered(c, i) /\ Covers(d, e.start)
        BY <1>1, <3>1, <3>2, ClippedFacts
      <3>4. (lived[c][e.start].excluded <=> d.excluded) /\ lived[c][e.start].status = d.status
        BY <1>2, <3>3
      <3>5. QED
        BY <3>2, <3>3, <3>4
    <2>3. QED
      BY <2>1, <2>2
  <1>4. Y \in SUBSET (DOMAIN Severity)
    <2>1. ASSUME NEW e \in InDay(c, i)
          PROVE  (IF e.excluded THEN "UNDER_MAINTENANCE" ELSE e.status) \in DOMAIN Severity
      <3>1. PICK d \in events[c] : e = Clipped(d, c, i)
        BY DEF InDay
      <3>2. e.status \in Statuses
        BY <1>1, <3>1, ClippedFacts DEF Event
      <3>3. QED
        BY <3>2, StatusAssumption
    <2>2. QED
      BY <2>1
  <1>5. DayStatus(c, i) = Worst({"OPERATIONAL"} \union Y)
    BY DEF DayStatus
  <1> HIDE DEF Y
  <1>6. DayStatus(c, i) = Worst(X)
    BY <1>3, <1>4, <1>5, OperationalIsNoWorse
  <1>7. QED
    BY <1>6

\* All the bars show.
LEMMA ShownFromInv == ASSUME UptimeInv PROVE ShownIsWhatHappened
  BY ShownWasLived, VouchedIsLogged, ColourIsRight DEF ShownIsWhatHappened

\* For every retention and every length of the page: the bars of
\* computeDailyUptime say what happened, with the two exceptions the property
\* names.
THEOREM PagesShowWhatHappened == UptimeSpec => []BarsAreRight
  <1>1. UptimeInv /\ (UptimeTypeOK /\ DownIsCountedOnce) => BarsAreRight
    BY ShownFromInv DEF BarsAreRight
  <1>2. QED
    BY <1>1, UptimeInvariance, DowntimeCountedOnce, PTL

-----------------------------------------------------------------------------
(* Uptime: the groups.                                                     *)

\* The moments a component's bar stands for, and those it was down.
BarMoments(c, i) == {<<c, t>> : t \in Covered(c, i)}
BarDown(c, i) == {m \in BarMoments(c, i) : LoggedDown(m[1], m[2])}

\* Tagging moments with their component does not change their number.
LEMMA PairsCount ==
    ASSUME NEW c, NEW S, IsFiniteSet(S)
    PROVE  IsFiniteSet({<<c, t>> : t \in S}) /\ Cardinality({<<c, t>> : t \in S}) = Cardinality(S)
  <1> DEFINE T == {<<c, t>> : t \in S}
             f == [t \in S |-> <<c, t>>]
  <1>1. ExistsBijection(S, T)
    <2>1. f \in [S -> T] /\ \A t, u \in S : f[t] = f[u] => t = u
      OBVIOUS
    <2>2. \A p \in T : \E t \in S : f[t] = p
      OBVIOUS
    <2> HIDE DEF f, T
    <2>3. QED
      BY <2>1, <2>2 DEF ExistsBijection, Bijection, Injection, Surjection, IsInjective
  <1> HIDE DEF f, T
  <1>2. IsFiniteSet(T) /\ Cardinality(T) = Cardinality(S)
    BY <1>1, FS_Bijection
  <1>3. QED
    BY <1>2 DEF T

\* The bucket of a component says what is logged.
LEMMA BarSays ==
    ASSUME UptimeInv, NEW c \in Existing, NEW i \in ShownDays
    PROVE  Says(Bucket(c, i).observed, Bucket(c, i).up, BarMoments(c, i), BarDown(c, i))
  <1> DEFINE a == EffectiveStart(c, i)
             z == EffectiveEnd(i)
             o == Observed(c, i)
             d == Down(c, i)
             S == {t \in Covered(c, i) : LoggedDown(c, t)}
  <1>1. a \in Int /\ z \in Int
    BY TimesFacts DEF UptimeInv, Existing
  <1>2. o = IF 0 >= z - a THEN 0 ELSE z - a
    BY <1>1, MaxOfTwo DEF Observed
  <1>3. IsFiniteSet(Covered(c, i)) /\ Cardinality(Covered(c, i)) = o
    <2>1. z - 1 \in Int
      BY <1>1
    <2>2. /\ IsFiniteSet(a..(z - 1))
          /\ Cardinality(a..(z - 1)) = IF a > z - 1 THEN 0 ELSE (z - 1) - a + 1
      BY <1>1, <2>1, FS_Interval
    <2> HIDE DEF a, z, o
    <2>3. Cardinality(a..(z - 1)) = o
      BY <1>1, <1>2, <2>2
    <2>4. QED
      BY <2>2, <2>3 DEF Covered, a, z
  <1>4. d = Cardinality(S) /\ S \subseteq Covered(c, i)
    BY DownIsLogged
  <1>5. IsFiniteSet(S) /\ Cardinality(S) \in Nat /\ o \in Nat
    BY <1>3, <1>4, FiniteParts
  <1>6. IsFiniteSet(BarMoments(c, i)) /\ Cardinality(BarMoments(c, i)) = o
    BY <1>3, PairsCount DEF BarMoments
  <1>7. BarDown(c, i) = {<<c, t>> : t \in S} /\ BarDown(c, i) \subseteq BarMoments(c, i)
    BY DEF BarDown, BarMoments
  <1>8. Cardinality(BarDown(c, i)) = d
    <2> HIDE DEF S
    <2>1. Cardinality({<<c, t>> : t \in S}) = Cardinality(S)
      BY <1>5, PairsCount
    <2>2. QED
      BY <1>4, <1>7, <2>1
  <1>9. Bucket(c, i).observed = o /\ Bucket(c, i).up = IF o = 0 THEN Unknown ELSE <<o - d, o>>
    BY DEF Bucket
  <1> HIDE DEF a, z, o, d, S
  <1>10. CASE o = 0
    <2>1. Unknown \in Int \X Int
      BY DEF Unknown
    <2>2. QED
      BY <1>6, <1>7, <1>9, <1>10, <2>1 DEF Says
  <1>11. CASE o # 0
    <2> DEFINE p == <<o - d, o>>
    <2>1. d \in Int /\ o \in Int /\ o > 0
      BY <1>4, <1>5, <1>11
    <2>2. p \in Int \X Int /\ p[1] * o = p[2] * (o - d) /\ p[2] > 0
      BY <2>1
    <2>3. Bucket(c, i).observed = o /\ Bucket(c, i).up = p
      BY <1>9, <1>11
    <2> HIDE DEF p
    <2>4. QED
      BY <1>6, <1>7, <1>8, <1>11, <2>2, <2>3 DEF Says
  <1>12. QED
    BY <1>10, <1>11

\* The moments a day of the group stands for.
DayMoments(i) == UNION {BarMoments(c, i) : c \in Existing}
DayDown(i) == UNION {BarDown(c, i) : c \in Existing}

Listing(cs) == cs \in Bijection(1..Cardinality(Existing), Existing)

\* A listing names every component once.
LEMMA ListingFacts ==
    ASSUME NEW cs, Listing(cs)
    PROVE  \E n \in Nat : /\ cs \in [1..n -> Existing]
                          /\ \A j, k \in 1..n : j # k => cs[j] # cs[k]
                          /\ \A c \in Existing : \E k \in 1..n : cs[k] = c
  <1>1. Existing \in SUBSET Components
    BY DEF Existing
  <1>2. Cardinality(Existing) \in Nat
    BY <1>1, ComponentsAssumption, FS_Subset, FS_CardinalityType
  <1>3. QED
    BY <1>2 DEF Listing, Bijection, Injection, Surjection, IsInjective

\* The bucket of a day of the group says what is logged.
LEMMA DaySays ==
    ASSUME UptimeInv, NEW cs, Listing(cs),
           NEW i \in ShownDays
    PROVE  Says(GroupBucket(cs, i).observed, GroupBucket(cs, i).up, DayMoments(i), DayDown(i))
  <1>1. PICK n \in Nat : /\ cs \in [1..n -> Existing]
                         /\ \A j, k \in 1..n : j # k => cs[j] # cs[k]
                         /\ \A c \in Existing : \E k \in 1..n : cs[k] = c
    BY ListingFacts
  <1> DEFINE b == [k \in 1..n |-> Bucket(cs[k], i)]
             M == [k \in 1..n |-> BarMoments(cs[k], i)]
             D == [k \in 1..n |-> BarDown(cs[k], i)]
             observed == [k \in 1..n |-> b[k].observed]
             AllM == DayMoments(i)
             AllD == DayDown(i)
  <1>2. /\ GroupBucket(cs, i).observed = Total(n, observed)
        /\ GroupBucket(cs, i).up = WeightedUptime(n, b)
    <2>1. Len(cs) = n
      BY <1>1, LenOf
    <2>2. QED
      BY <2>1 DEF GroupBucket
  <1>4. \A k \in 1..n : Says(b[k].observed, b[k].up, M[k], D[k])
    <2>1. SUFFICES ASSUME NEW k \in 1..n PROVE Says(b[k].observed, b[k].up, M[k], D[k])
      OBVIOUS
    <2>2. cs[k] \in Existing
      BY <1>1
    <2>3. QED
      BY <2>2, BarSays
  <1>5. \A j, k \in 1..n : j # k => M[j] \intersect M[k] = {}
    BY <1>1 DEF BarMoments
  <1>6. AllM = UNION {M[k] : k \in 1..n} /\ AllD = UNION {D[k] : k \in 1..n}
    <2>1. {BarMoments(c, i) : c \in Existing} = {M[k] : k \in 1..n}
      BY <1>1
    <2>2. {BarDown(c, i) : c \in Existing} = {D[k] : k \in 1..n}
      BY <1>1
    <2>3. QED
      BY <2>1, <2>2 DEF DayMoments, DayDown
  <1>7. observed = [k \in 1..n |-> b[k].observed]
    OBVIOUS
  <1> HIDE DEF b, M, D, observed, AllM, AllD
  <1>8. Family(n, b, M, D)
    BY <1>4, <1>5 DEF Family
  <1>9. Says(Total(n, observed), WeightedUptime(n, b), AllM, AllD)
    BY <1>6, <1>7, <1>8, AverageSays
  <1>10. QED
    BY <1>2, <1>9 DEF AllM, AllD

\* No moment is in two days.
LEMMA DaysAreDisjoint ==
    ASSUME UptimeInv, NEW i \in ShownDays, NEW j \in ShownDays, i # j
    PROVE  DayMoments(i) \intersect DayMoments(j) = {}
  <1>1. UptimeTypeOK /\ i \in Int /\ j \in Int /\ Day \in Nat /\ Day > 0
    BY TimesFacts DEF UptimeInv
  <1>2. ASSUME NEW x \in ShownDays, NEW y \in ShownDays, x < y
        PROVE  DayStart(y) + Day <= DayStart(x)
    <2> DEFINE q == (now \div Day) * Day
    <2>1. now \div Day \in Int
      BY <1>1, TimesFacts
    <2>2. q \in Int /\ x \in Int /\ y \in Int /\ x + 1 <= y
      BY <1>1, <1>2, <2>1, TimesFacts
    <2> HIDE DEF q
    <2>3. DayStart(x) = q - x * Day /\ DayStart(y) = q - y * Day
      BY DEF DayStart, q
    <2>4. PICK k \in Nat : y = x + 1 + k
      <3>1. y - (x + 1) \in Nat /\ y = x + 1 + (y - (x + 1))
        BY <2>2
      <3>2. QED
        BY <3>1
    <2>5. y * Day = x * Day + Day + k * Day /\ k * Day \in Nat /\ x * Day \in Int
      BY <1>1, <2>2, <2>4
    <2>6. QED
      BY <1>1, <2>2, <2>3, <2>5
  <1>3. ASSUME NEW x \in ShownDays, NEW c \in Existing, NEW t \in Covered(c, x)
        PROVE  t \in Int /\ DayStart(x) <= t /\ t < DayStart(x) + Day /\ DayStart(x) \in Int
    <2>1. /\ EffectiveStart(c, x) \in Int /\ EffectiveEnd(x) \in Int /\ DayStart(x) \in Int
          /\ DayStart(x) <= EffectiveStart(c, x) /\ EffectiveEnd(x) <= DayStart(x) + Day
      BY <1>1, TimesFacts DEF Existing
    <2>2. QED
      BY <1>1, <2>1 DEF Covered
  <1>4. ASSUME NEW m \in DayMoments(i), m \in DayMoments(j) PROVE FALSE
    <2>1. PICK c \in Existing : \E t \in Covered(c, i) : m = <<c, t>>
      BY <1>4 DEF DayMoments, BarMoments
    <2>2. PICK t \in Covered(c, i) : m = <<c, t>>
      BY <2>1
    <2>3. PICK d \in Existing : \E u \in Covered(d, j) : m = <<d, u>>
      BY <1>4 DEF DayMoments, BarMoments
    <2>4. PICK u \in Covered(d, j) : m = <<d, u>>
      BY <2>3
    <2>5. t = u
      BY <2>2, <2>4
    <2>6. /\ t \in Int /\ DayStart(i) <= t /\ t < DayStart(i) + Day /\ DayStart(i) \in Int
          /\ DayStart(j) <= t /\ t < DayStart(j) + Day /\ DayStart(j) \in Int
      BY <1>3, <2>5
    <2>7. i < j \/ j < i
      BY <1>1
    <2>8. QED
      BY <1>1, <1>2, <2>6, <2>7
  <1>5. QED
    BY <1>4

\* The group's average says what is logged.
LEMMA GroupSays ==
    ASSUME UptimeInv, NEW cs, Listing(cs)
    PROVE  \E o : Says(o, GroupUptime(cs), UNION {DayMoments(i) : i \in ShownDays},
                                           UNION {DayDown(i) : i \in ShownDays})
  <1>1. PICK n \in Nat : n = UptimeDays
    OBVIOUS
  <1> DEFINE b == [k \in 1..n |-> GroupBucket(cs, n - k)]
             M == [k \in 1..n |-> DayMoments(n - k)]
             D == [k \in 1..n |-> DayDown(n - k)]
             observed == [k \in 1..n |-> b[k].observed]
             AllM == UNION {DayMoments(i) : i \in ShownDays}
             AllD == UNION {DayDown(i) : i \in ShownDays}
  <1>2. \A k \in 1..n : n - k \in ShownDays
    BY <1>1 DEF ShownDays
  <1>3. \A i \in ShownDays : n - i \in 1..n /\ n - (n - i) = i
    BY <1>1 DEF ShownDays
  <1>5. \A k \in 1..n : Says(b[k].observed, b[k].up, M[k], D[k])
    BY <1>2, DaySays
  <1>6. \A j, k \in 1..n : j # k => M[j] \intersect M[k] = {}
    <2>1. SUFFICES ASSUME NEW j \in 1..n, NEW k \in 1..n, j # k PROVE M[j] \intersect M[k] = {}
      OBVIOUS
    <2>2. n - j # n - k
      BY <1>1, <2>1
    <2>3. QED
      BY <1>2, <2>2, DaysAreDisjoint
  <1>7. AllM = UNION {M[k] : k \in 1..n} /\ AllD = UNION {D[k] : k \in 1..n}
    <2>1. {DayMoments(i) : i \in ShownDays} = {M[k] : k \in 1..n}
      BY <1>2, <1>3
    <2>2. {DayDown(i) : i \in ShownDays} = {D[k] : k \in 1..n}
      BY <1>2, <1>3
    <2>3. QED
      BY <2>1, <2>2
  <1>8. GroupUptime(cs) = WeightedUptime(n, b)
    BY <1>1 DEF GroupUptime
  <1>9. observed = [k \in 1..n |-> b[k].observed]
    OBVIOUS
  <1> HIDE DEF b, M, D, observed, AllM, AllD
  <1>10. Family(n, b, M, D)
    BY <1>5, <1>6 DEF Family
  <1>11. Says(Total(n, observed), WeightedUptime(n, b), AllM, AllD)
    BY <1>7, <1>9, <1>10, AverageSays
  <1>12. QED
    BY <1>8, <1>11 DEF AllM, AllD

\* A share that says what happened is the share of the moments up.
LEMMA SaysTheSame ==
    ASSUME NEW o, NEW p, NEW M, NEW D, Says(o, p, M, D)
    PROVE  Same(p, <<Cardinality(M) - Cardinality(D), Cardinality(M)>>)
  <1> DEFINE x == Cardinality(M)
             y == Cardinality(D)
  <1>1. /\ x \in Nat /\ y \in Nat /\ (x = 0 => y = 0) /\ o = x /\ p \in Int \X Int
        /\ o = 0 => p = Unknown
        /\ o # 0 => p[2] > 0 /\ p[1] * o = p[2] * (o - y)
    BY FiniteParts DEF Says
  <1> HIDE DEF x, y
  <1>2. PICK a \in Int, b \in Int : p = <<a, b>>
    BY <1>1
  <1>3. CASE x = 0
    <2>0. y = 0 /\ p = Unknown
      BY <1>1, <1>3
    <2>1. y = 0 /\ p = <<0, 0>> /\ x - y = 0
      BY <1>3, <2>0 DEF Unknown
    <2>2. Same(<<0, 0>>, <<0, 0>>)
      BY DEF Same
    <2>3. QED
      BY <1>3, <2>1, <2>2 DEF x, y
  <1>4. CASE x # 0
    <2>1. b > 0 /\ a * x = b * (x - y)
      BY <1>1, <1>2, <1>4
    <2>2. a * x = (x - y) * b
      BY <1>1, <2>1
    <2>3. <<a, b>> # Unknown /\ <<x - y, x>> # Unknown
      BY <1>4, <2>1 DEF Unknown
    <2>4. Same(<<a, b>>, <<x - y, x>>)
      BY <2>2, <2>3 DEF Same
    <2>5. QED
      BY <1>2, <2>4 DEF x, y
  <1>5. QED
    BY <1>3, <1>4

\* What a group shows is what its days show, and so is what was down.
LEMMA ShownMoments ==
    /\ Shown = UNION {DayMoments(i) : i \in ShownDays}
    /\ {m \in Shown : LoggedDown(m[1], m[2])} = UNION {DayDown(i) : i \in ShownDays}
  <1>1. \A c, i : {c} \X Covered(c, i) = BarMoments(c, i)
    BY DEF BarMoments
  <1>2. Shown = UNION {DayMoments(i) : i \in ShownDays}
    BY <1>1 DEF Shown, DayMoments
  <1>3. {m \in Shown : LoggedDown(m[1], m[2])} = UNION {DayDown(i) : i \in ShownDays}
    BY <1>2 DEF DayMoments, DayDown, BarDown
  <1>4. QED
    BY <1>2, <1>3

\* All the averages show.
LEMMA AveragesFromInv == ASSUME UptimeInv PROVE AveragesAreShares
  <1> DEFINE down == {m \in Shown : LoggedDown(m[1], m[2])}
  <1>1. /\ Shown = UNION {DayMoments(i) : i \in ShownDays}
        /\ down = UNION {DayDown(i) : i \in ShownDays}
    BY ShownMoments
  <1> HIDE DEF down
  <1>2. ASSUME NEW cs \in Bijection(1..Cardinality(Existing), Existing)
        PROVE  Same(GroupUptime(cs),
                    <<Cardinality(Shown) - Cardinality(down), Cardinality(Shown)>>)
    <2>1. Listing(cs)
      BY DEF Listing
    <2>2. PICK o : Says(o, GroupUptime(cs), Shown, down)
      BY <1>1, <2>1, GroupSays
    <2>3. QED
      BY <2>2, SaysTheSame
  <1>3. QED
    BY <1>2 DEF AveragesAreShares, down

\* For every number of services and days: the average of a group, taken over
\* its services and then over the days, is the share of the time observed.
THEOREM GroupAveragesAreShares == UptimeSpec => []AveragesAreShares
  <1>1. QED
    BY AveragesFromInv, UptimeInvariance, PTL

-----------------------------------------------------------------------------
(* Uptime: the sweep.                                                      *)

\* What the sweep deletes had ended before the days the retention covers.
LEMMA SweptIsNotShown ==
    ASSUME UptimeTypeOK, Sweep, NEW c \in Existing, NEW i \in ShownDays, i < RetentionDays
    PROVE  InDay(c, i)' = InDay(c, i)
  <1>1. /\ now' = now /\ component' = component /\ c \in Components
        /\ events'[c] = {e \in events[c] : ~Expired(e)}
    BY DEF Sweep, Existing
  <1>2. \A e : Clipped(e, c, i)' = Clipped(e, c, i)
    BY <1>1 DEF Clipped, EffectiveStart, EffectiveEnd, DayStart
  <1>3. ASSUME NEW e \in events[c], Expired(e)
        PROVE  ~(Clipped(e, c, i).start < Clipped(e, c, i).end)
    <2> DEFINE cutoff == now - RetentionDays * Day
               x == Clipped(e, c, i)
    <2>1. /\ e.end # Open /\ e.end < cutoff /\ e.end \in Int /\ cutoff \in Int
      <3>1. e.end # Open /\ e.end < cutoff
        BY <1>3 DEF Expired
      <3>2. Ends(e) \in Int /\ Ends(e) = e.end
        BY <1>1, <3>1, ClippedFacts DEF Ends
      <3>3. now \in Int /\ RetentionDays * Day \in Int
        BY TimesFacts
      <3>4. QED
        BY <3>1, <3>2, <3>3
    <2>2. cutoff < DayStart(i)
      BY ShownIsRetained
    <2> HIDE DEF cutoff
    <2>3. DayStart(i) <= EffectiveStart(c, i) /\ EffectiveStart(c, i) \in Int
          /\ DayStart(i) \in Int
      BY <1>1, TimesFacts
    <2>4. x.start \in Int /\ x.end \in Int
          /\ \A t \in Int : x.start <= t /\ t < x.end => t \in Covered(c, i) /\ Covers(e, t)
      BY <1>1, ClippedFacts
    <2>5. \A t \in Covered(c, i) : t \in Int /\ EffectiveStart(c, i) <= t
      BY <1>1, <2>3, TimesFacts DEF Covered
    <2> HIDE DEF x
    <2>6. ASSUME x.start < x.end PROVE FALSE
      <3>1. x.start \in Covered(c, i) /\ Covers(e, x.start)
        BY <2>4, <2>6
      <3>2. x.start < e.end
        BY <2>1, <3>1 DEF Covers, Ends
      <3>3. QED
        BY <2>1, <2>2, <2>3, <2>4, <2>5, <3>1, <3>2
    <2>7. QED
      BY <2>6 DEF x
  <1>4. {e \in {Clipped(d, c, i) : d \in events'[c]} : e.start < e.end}
          = {e \in {Clipped(d, c, i) : d \in events[c]} : e.start < e.end}
    BY <1>1, <1>3
  <1>5. QED
    BY <1>2, <1>4 DEF InDay

\* What the sweep leaves has less downtime than what was there.
LEMMA SweepForgets ==
    ASSUME UptimeInv, DownIsCountedOnce, DownIsCountedOnce', Sweep,
           NEW c \in Existing, NEW i \in ShownDays
    PROVE  Down(c, i)' <= Down(c, i)
  <1>1. /\ now' = now /\ component' = component /\ c \in Components /\ UptimeTypeOK
        /\ events'[c] = {e \in events[c] : ~Expired(e)}
    BY DEF Sweep, Existing, UptimeInv
  <1>2. /\ Covered(c, i)' = Covered(c, i) /\ Outages(c, i)' \subseteq Outages(c, i)
        /\ c \in Existing'
    BY <1>1 DEF Covered, EffectiveStart, EffectiveEnd, DayStart, Existing, Exists, Outages,
                InDay, Clipped, IsOutage
  <1> DEFINE S == {t \in Covered(c, i) : LoggedDown(c, t)}
             T == {t \in Covered(c, i) : LoggedDown(c, t)'}
  <1>3. Down(c, i) = Cardinality(S)
    BY DEF DownIsCountedOnce
  <1>4. Down(c, i)' = Cardinality(T)
    BY <1>2 DEF DownIsCountedOnce
  <1>5. T \subseteq S
    BY <1>1 DEF LoggedDown, IsOutage
  <1>6. IsFiniteSet(S)
    <2>1. EffectiveStart(c, i) \in Int /\ EffectiveEnd(i) - 1 \in Int
      BY <1>1, TimesFacts DEF Existing
    <2>2. IsFiniteSet(Covered(c, i))
      BY <2>1, FS_Interval DEF Covered
    <2>3. S \in SUBSET Covered(c, i)
      OBVIOUS
    <2> HIDE DEF S
    <2>4. QED
      BY <2>2, <2>3, FS_Subset
  <1> HIDE DEF S, T
  <1>7. Cardinality(T) <= Cardinality(S)
    <2>1. T \in SUBSET S
      BY <1>5
    <2>2. QED
      BY <1>6, <2>1, FS_Subset
  <1>8. QED
    BY <1>3, <1>4, <1>7

\* For every retention: a sweep changes no day it covers, and of an older day
\* it can only forget downtime.
THEOREM SweptDaysOnlyForget == UptimeSpec => SweepOnlyForgets
  <1>1. ASSUME UptimeInv, Sweep, NEW c \in Existing, NEW i \in ShownDays, i < RetentionDays
        PROVE  Bucket(c, i)' = Bucket(c, i)
    <2>1. InDay(c, i)' = InDay(c, i)
      BY <1>1, SweptIsNotShown DEF UptimeInv
    <2>2. Outages(c, i)' = Outages(c, i)
      BY <2>1 DEF Outages
    <2>3. Down(c, i)' = Down(c, i) /\ DayStatus(c, i)' = DayStatus(c, i)
      BY <2>1, <2>2 DEF Down, DayStatus
    <2>4. Observed(c, i)' = Observed(c, i)
      BY <1>1 DEF Sweep, Observed, EffectiveStart, EffectiveEnd, DayStart
    <2>5. QED
      BY <2>3, <2>4 DEF Bucket
  <1>2. UptimeInv /\ DownIsCountedOnce /\ DownIsCountedOnce' /\ [UptimeNext]_uptimeVars
          => [Sweep => \A c \in Existing, i \in ShownDays :
                 /\ i < RetentionDays => Bucket(c, i)' = Bucket(c, i)
                 /\ Down(c, i)' <= Down(c, i)]_uptimeVars
    BY <1>1, SweepForgets
  <1>3. QED
    BY <1>2, UptimeInvariance, DowntimeCountedOnce, PTL DEF UptimeSpec, SweepOnlyForgets
=============================================================================
