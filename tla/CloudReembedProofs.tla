-------------------------- MODULE CloudReembedProofs --------------------------
(***************************************************************************)
(* First the worker alone: LocalTenantWorker keeps WorkerInv, for any set  *)
(* of envelopes, requests and concurrent calls of run_one, any retry       *)
(* budget and any number of cancellations and restarts: work is queued     *)
(* once and retried within its budget, and only overlapping calls revise   *)
(* an outcome.  These theorems use WorkerAssumption only.                  *)
(*                                                                         *)
(* Then the composition: the re-embedding job keeps ReembedInv beside any  *)
(* number of clients, runs and backups: no late run leaves a vector of an  *)
(* older content, except where a restore let a version number be used      *)
(* twice.  The proof composes the invariants of the worker and of the      *)
(* encrypted store (EncryptedMemoryProofs).                                *)
(***************************************************************************)
EXTENDS CloudReembed, EncryptedMemoryProofs, FiniteSetTheorems

------------------------------------------------------------------------------
(* TenantWorker *)

\* The runs of a job are finitely many, at most one per call of run_one.
LEMMA ActiveCount ==
  ASSUME NEW e
  PROVE  /\ Cardinality(Runners) \in Nat
         /\ IsFiniteSet(Active(e)) /\ Cardinality(Active(e)) \in Nat
         /\ Cardinality(Active(e)) <= Cardinality(Runners)
  <1>1. IsFiniteSet(Runners)
    BY WorkerAssumption
  <1>2. Active(e) \in SUBSET Runners
    BY DEF Active
  <1> QED BY <1>1, <1>2, FS_Subset, FS_CardinalityType

LEMMA LostType == WorkerTypeOK => Lost \in Nat
  <1>1. Cardinality(Runners) \in Nat
    BY ActiveCount
  <1>2. \A m, n \in Nat : m * n \in Nat
    OBVIOUS
  <1> QED BY <1>1, <1>2, WorkerAssumption DEF WorkerTypeOK, Lost

\* What run_one does to a job: it counts an attempt, records a failure or
\* records a result.
LEMMA JobSteps ==
  ASSUME NEW j \in Job
  PROVE  /\ /\ Counted(j) \in Job /\ Counted(j).key = j.key
            /\ Counted(j).state = j.state /\ Counted(j).attempts = j.attempts + 1
         /\ /\ AfterFailure(j) \in Job /\ AfterFailure(j).key = j.key
            /\ AfterFailure(j).attempts = j.attempts
            /\ AfterFailure(j).state =
                 IF j.attempts >= MaxAttempts THEN "dead_letter" ELSE "failed"
         /\ \A result \in {"ready", "stale"} :
              LET k == [j EXCEPT !.state = result] IN
              /\ k \in Job /\ k.key = j.key /\ k.attempts = j.attempts /\ k.state = result
  <1>1. /\ Counted(j) \in Job /\ Counted(j).key = j.key
        /\ Counted(j).state = j.state /\ Counted(j).attempts = j.attempts + 1
    BY DEF Counted, Job
  <1>2. /\ AfterFailure(j) \in Job /\ AfterFailure(j).key = j.key
        /\ AfterFailure(j).attempts = j.attempts
        /\ AfterFailure(j).state = IF j.attempts >= MaxAttempts THEN "dead_letter" ELSE "failed"
    BY DEF AfterFailure, Job, JobStates
  <1>3. ASSUME NEW result \in {"ready", "stale"}
        PROVE  LET k == [j EXCEPT !.state = result] IN
               /\ k \in Job /\ k.key = j.key /\ k.attempts = j.attempts /\ k.state = result
    BY DEF Job, JobStates
  <1> QED BY <1>1, <1>2, <1>3

LEMMA WorkerInitInv == WorkerInit => WorkerInv
  <1> SUFFICES ASSUME WorkerInit PROVE WorkerInv
    OBVIOUS
  <1>1. WorkerTypeOK
    <2>1. 0 \in 0..MaxCancels /\ 0 \in 0..MaxRestarts
      BY WorkerAssumption
    <2>2. fresh \in BOOLEAN
      BY DEF WorkerInit
    <2>3. Empty \in [Envelopes -> Job \cup {NoJob}]
      BY DEF Empty
    <2> QED BY <2>1, <2>2, <2>3 DEF WorkerInit, WorkerTypeOK
  <1>2. IndexOK /\ SnapshotApart /\ RunsOK /\ BudgetOK /\ SnapshotBudget
    BY DEF WorkerInit, Empty, IndexOK, SnapshotApart, RunsOK, BudgetOK, SnapshotBudget
  <1> QED BY <1>1, <1>2 DEF WorkerInv

\* A step of run_one changes one job, whose key it keeps.
LEMMA JobChanged ==
  ASSUME WorkerInv, NEW e \in Envelopes, jobs[e] # NoJob,
         NEW j \in Job, j.key = jobs[e].key,
         jobs' = [jobs EXCEPT ![e] = j],
         running' \in [Runners -> Envelopes \cup {NoJob}],
         \A r \in Runners : running'[r] \in {running[r], e, NoJob},
         UNCHANGED <<dedupe, nonces, expired, saved, cancels, restarts>>, fresh' = FALSE,
         overlapped' \subseteq Envelopes,
         j.attempts < Lost + Cardinality(Runners),
         j.state \notin Terminal => j.attempts < Lost + Cardinality(Active(e)'),
         j.state = "dead_letter" => j.attempts >= MaxAttempts,
         \A f \in Envelopes \ {e} : Active(f)' = Active(f)
  PROVE  WorkerInv'
  <1>1. /\ jobs'[e] = j /\ j # NoJob
        /\ \A f \in Envelopes \ {e} : jobs'[f] = jobs[f]
    BY WorkerAssumption DEF WorkerInv, WorkerTypeOK
  <1>2. WorkerTypeOK'
    BY DEF WorkerInv, WorkerTypeOK
  <1>3. IndexOK'
    BY <1>1 DEF WorkerInv, IndexOK
  <1>4. SnapshotApart'
    BY DEF WorkerInv, SnapshotApart
  <1>5. RunsOK'
    BY <1>1 DEF WorkerInv, WorkerTypeOK, RunsOK
  <1>6. Lost' = Lost
    BY DEF Lost
  <1>7. BudgetOK'
    BY <1>1, <1>6 DEF WorkerInv, BudgetOK
  <1>8. SnapshotBudget'
    <2>1. ~fresh
      BY DEF WorkerInv, RunsOK, Empty
    <2> QED BY <1>6, <2>1 DEF WorkerInv, SnapshotBudget
  <1> QED BY <1>2, <1>3, <1>4, <1>5, <1>7, <1>8 DEF WorkerInv

\* Time passing, and a snapshot that is taken or refused, leave the queue alone.
LEMMA QuietInv ==
  ASSUME WorkerInv, UNCHANGED <<queue, running, cancels, restarts, overlapped>>,
         expired' \subseteq Envelopes,
         \/ saved' = saved /\ fresh' = fresh
         \/ saved' = jobs /\ fresh' = fresh
         \/ saved' = saved /\ fresh' = FALSE
  PROVE  WorkerInv'
  <1>1. WorkerTypeOK'
    BY DEF WorkerInv, WorkerTypeOK, queue
  <1>2. IndexOK' /\ RunsOK'
    BY DEF WorkerInv, WorkerTypeOK, IndexOK, RunsOK, queue
  <1>3. SnapshotApart'
    BY DEF WorkerInv, IndexOK, SnapshotApart
  <1>4. Lost' = Lost /\ \A e \in Envelopes : Active(e)' = Active(e)
    BY DEF Lost, Active
  <1>5. BudgetOK'
    BY <1>4 DEF WorkerInv, BudgetOK, queue
  <1>6. SnapshotBudget'
    <2>1. Lost \in Nat /\ Cardinality(Runners) \in Nat
      BY LostType, ActiveCount DEF WorkerInv
    <2>2. \A e \in Envelopes : saved[e] # NoJob => saved[e].attempts \in Nat
      BY DEF WorkerInv, WorkerTypeOK, Job
    <2>3. CASE saved' = jobs
      BY <1>4, <2>3 DEF WorkerInv, BudgetOK, RunsOK, Empty, SnapshotBudget
    <2>4. CASE saved' = saved
      BY <1>4, <2>1, <2>2, <2>4 DEF WorkerInv, SnapshotBudget
    <2> QED BY <2>3, <2>4
  <1> QED BY <1>1, <1>2, <1>3, <1>5, <1>6 DEF WorkerInv

\* A new job enters under a key and a nonce that no job has.
LEMMA EnqueueInv ==
  ASSUME WorkerInv, NEW q \in Requests, Enqueue(q)
  PROVE  WorkerInv'
  <1> DEFINE e == q.envelope
             new == [key |-> q.key, ref |-> q.ref, state |-> "pending", attempts |-> 0]
  <1>1. e \in Envelopes /\ q.key \in DedupeKeys /\ q.ref \in Refs
    BY WorkerAssumption
  <1>2. new \in Job /\ new # NoJob
    BY <1>1, WorkerAssumption DEF Job, JobStates
  <1>3. /\ dedupe[q.key] = NoJob /\ nonces[Nonce[e]] = NoJob
        /\ jobs' = [jobs EXCEPT ![e] = new]
        /\ dedupe' = [dedupe EXCEPT ![q.key] = e] /\ nonces' = [nonces EXCEPT ![Nonce[e]] = e]
        /\ fresh' = FALSE
        /\ UNCHANGED <<running, expired, saved, cancels, restarts, overlapped>>
    BY DEF Enqueue, Admitted
  <1>4. /\ jobs'[e] = new /\ \A f \in Envelopes \ {e} : jobs'[f] = jobs[f]
    BY <1>1, <1>3 DEF WorkerInv, WorkerTypeOK
  <1>5. Nonce[e] \in Nonces
    BY <1>1 DEF Nonces
  <1>6. WorkerTypeOK'
    BY <1>1, <1>2, <1>3, <1>5 DEF WorkerInv, WorkerTypeOK
  <1>7. IndexOK'
    <2> SUFFICES ASSUME NEW f \in Envelopes, jobs'[f] # NoJob
                 PROVE  dedupe'[jobs'[f].key] = f /\ nonces'[Nonce[f]] = f
      BY DEF IndexOK
    <2>1. CASE f = e
      BY <1>1, <1>3, <1>4, <1>5, <2>1 DEF WorkerInv, WorkerTypeOK
    <2>2. CASE f # e
      <3>1. /\ jobs[f] \in Job /\ jobs'[f] = jobs[f]
            /\ dedupe[jobs[f].key] = f /\ nonces[Nonce[f]] = f /\ f # NoJob
        BY <1>4, <2>2, WorkerAssumption DEF WorkerInv, WorkerTypeOK, IndexOK
      <3>2. jobs[f].key \in DedupeKeys /\ Nonce[f] \in Nonces
        BY <3>1 DEF Job, Nonces
      <3>3. jobs[f].key # q.key /\ Nonce[f] # Nonce[e]
        BY <1>3, <3>1
      <3> QED BY <1>3, <3>1, <3>2, <3>3 DEF WorkerInv, WorkerTypeOK
    <2> QED BY <2>1, <2>2
  <1>8. SnapshotApart'
    BY <1>3 DEF WorkerInv, SnapshotApart
  <1>9. RunsOK'
    BY <1>2, <1>3, <1>4 DEF WorkerInv, WorkerTypeOK, RunsOK
  <1>10. /\ Lost' = Lost /\ Lost \in Nat /\ MaxAttempts <= Lost
         /\ \A f \in Envelopes : Active(f)' = Active(f)
    <2>1. Cardinality(Runners) * restarts \in Nat
      <3>1. \A m, n \in Nat : m * n \in Nat
        OBVIOUS
      <3> QED BY <3>1, ActiveCount, WorkerAssumption DEF WorkerInv, WorkerTypeOK
    <2> QED BY <1>3, <2>1, LostType, WorkerAssumption
            DEF Lost, Active, WorkerInv, WorkerTypeOK
  <1>11. BudgetOK'
    <2> SUFFICES ASSUME NEW f \in Envelopes, jobs'[f] # NoJob
                 PROVE  /\ jobs'[f].attempts < Lost + Cardinality(Runners)
                        /\ jobs'[f].state \notin Terminal =>
                             jobs'[f].attempts < Lost + Cardinality(Active(f))
                        /\ jobs'[f].state = "dead_letter" => jobs'[f].attempts >= MaxAttempts
      BY <1>10 DEF BudgetOK
    <2>1. CASE f = e
      <3>1. jobs'[f].attempts = 0 /\ jobs'[f].state = "pending"
        BY <1>4, <2>1
      <3>2. 0 < Lost /\ Cardinality(Active(f)) \in Nat /\ Cardinality(Runners) \in Nat
        BY <1>10, ActiveCount, WorkerAssumption
      <3> QED BY <1>10, <3>1, <3>2
    <2>2. CASE f # e
      BY <1>4, <2>2 DEF WorkerInv, BudgetOK
    <2> QED BY <2>1, <2>2
  <1>12. SnapshotBudget'
    <2>1. Cardinality(Runners) \in Nat
      BY ActiveCount
    <2>2. \A f \in Envelopes : saved[f] # NoJob => saved[f].attempts \in Nat
      BY DEF WorkerInv, WorkerTypeOK, Job
    <2> QED BY <1>3, <1>10, <2>1, <2>2 DEF WorkerInv, SnapshotBudget
  <1> QED BY <1>6, <1>7, <1>8, <1>9, <1>11, <1>12 DEF WorkerInv

\* run_one up to the handler: a new run is one more attempt and one more run
\* under way.
LEMMA StartRunInv ==
  ASSUME WorkerInv, NEW r \in Runners, NEW e \in Envelopes, StartRun(r, e)
  PROVE  WorkerInv'
  <1> DEFINE j == jobs[e]
  <1>1. /\ j \in Job /\ j # NoJob /\ j.state \notin Terminal /\ running[r] = NoJob
        /\ e # NoJob
        /\ fresh' = FALSE /\ UNCHANGED <<dedupe, nonces, expired, saved, cancels, restarts>>
        /\ overlapped' \subseteq Envelopes
    BY WorkerAssumption DEF StartRun, Runnable, WorkerInv, WorkerTypeOK
  <1>2. /\ j.attempts \in Nat /\ Lost \in Nat
        /\ j.attempts < Lost + Cardinality(Active(e))
        /\ j.attempts < Lost + Cardinality(Runners)
    BY <1>1, LostType DEF WorkerInv, BudgetOK, Job
  <1>3. CASE /\ jobs' = [jobs EXCEPT ![e] = Counted(j)]
             /\ running' = [running EXCEPT ![r] = e]
    <2>1. /\ Counted(j) \in Job /\ Counted(j).key = j.key
          /\ Counted(j).state = j.state /\ Counted(j).attempts = j.attempts + 1
      BY <1>1, JobSteps
    <2>2. /\ Active(e)' = Active(e) \cup {r} /\ r \notin Active(e)
          /\ \A f \in Envelopes \ {e} : Active(f)' = Active(f)
      BY <1>1, <1>3, WorkerAssumption DEF Active, WorkerInv, WorkerTypeOK
    <2>3. IsFiniteSet(Active(e)) /\ Cardinality(Active(e)) \in Nat
          /\ Cardinality(Runners) \in Nat
      BY ActiveCount
    <2>4. Cardinality(Active(e)') = Cardinality(Active(e)) + 1
      BY <2>2, <2>3, FS_AddElement
    <2>5. Cardinality(Active(e)') <= Cardinality(Runners)
      <3>1. Active(e)' \in SUBSET Runners
        BY DEF Active
      <3> QED BY <3>1, FS_Subset, WorkerAssumption
    <2>6. j.state # "dead_letter"
      BY <1>1 DEF Terminal
    <2>7. running' \in [Runners -> Envelopes \cup {NoJob}]
          /\ \A s \in Runners : running'[s] \in {running[s], e, NoJob}
      BY <1>3 DEF WorkerInv, WorkerTypeOK
    <2>8. /\ Counted(j).attempts < Lost + Cardinality(Active(e)')
          /\ Counted(j).attempts < Lost + Cardinality(Runners)
      BY <1>2, <2>1, <2>3, <2>4, <2>5
    <2> HIDE DEF j
    <2> QED BY <1>1, <1>3, <2>1, <2>2, <2>6, <2>7, <2>8, JobChanged DEF j
  <1>4. CASE jobs' = [jobs EXCEPT ![e] = AfterFailure(j)] /\ UNCHANGED running
    <2>1. /\ AfterFailure(j) \in Job /\ AfterFailure(j).key = j.key
          /\ AfterFailure(j).attempts = j.attempts
          /\ AfterFailure(j).state = IF j.attempts >= MaxAttempts THEN "dead_letter" ELSE "failed"
      BY <1>1, JobSteps
    <2>2. \A f \in Envelopes : Active(f)' = Active(f)
      BY <1>4 DEF Active
    <2>3. running' \in [Runners -> Envelopes \cup {NoJob}]
      BY <1>4 DEF WorkerInv, WorkerTypeOK
    <2> HIDE DEF j
    <2> QED BY <1>1, <1>2, <1>4, <2>1, <2>2, <2>3, JobChanged DEF j, Terminal
  <1> QED BY <1>3, <1>4 DEF StartRun

\* run_one after the handler.  A failure within the budget leaves the job below
\* it, whoever else is running it.
LEMMA EndRunInv ==
  ASSUME WorkerInv, NEW r \in Runners,
         FailRun(r) \/ \E result \in {"ready", "stale"} : FinishRun(r, result)
  PROVE  WorkerInv'
  <1>0. PICK e \in Envelopes : e = running[r] /\ jobs[e] # NoJob
    BY DEF FailRun, FinishRun, EndRun, WorkerInv, WorkerTypeOK, RunsOK
  <1> DEFINE j == jobs[e]
  <1>1. j # NoJob /\ j \in Job /\ ~fresh
    BY <1>0 DEF FailRun, FinishRun, EndRun, WorkerInv, WorkerTypeOK, RunsOK
  <1>2. PICK k : /\ EndRun(r, k)
                 /\ \/ k = AfterFailure(j)
                    \/ \E result \in {"ready", "stale"} : k = [j EXCEPT !.state = result]
    BY <1>0 DEF FailRun, FinishRun
  <1>3. /\ k \in Job /\ k.key = j.key /\ k.attempts = j.attempts
        /\ k.state \in {"ready", "stale"} \/
           k.state = IF j.attempts >= MaxAttempts THEN "dead_letter" ELSE "failed"
    <2> HIDE DEF j
    <2>1. CASE k = AfterFailure(j)
      BY <1>1, <2>1, JobSteps
    <2>2. ASSUME NEW result \in {"ready", "stale"}, k = [j EXCEPT !.state = result]
          PROVE  k \in Job /\ k.key = j.key /\ k.attempts = j.attempts /\ k.state = result
      BY <1>1, <2>2, JobSteps
    <2> QED BY <1>2, <2>1, <2>2
  <1>4. /\ jobs' = [jobs EXCEPT ![e] = k]
        /\ running' = [running EXCEPT ![r] = NoJob]
        /\ UNCHANGED <<dedupe, nonces, expired, saved, cancels, restarts>>
        /\ fresh' = FALSE /\ overlapped' \subseteq Envelopes
    BY <1>0, <1>1, <1>2 DEF EndRun, WorkerInv, WorkerTypeOK
  <1>5. \A f \in Envelopes \ {e} : Active(f)' = Active(f)
    BY <1>0, <1>4, WorkerAssumption DEF Active, WorkerInv, WorkerTypeOK
  <1>6. /\ running' \in [Runners -> Envelopes \cup {NoJob}]
        /\ \A s \in Runners : running'[s] \in {running[s], e, NoJob}
    BY <1>4 DEF WorkerInv, WorkerTypeOK
  <1>7. k.attempts < Lost + Cardinality(Runners)
    BY <1>1, <1>3 DEF WorkerInv, BudgetOK
  <1>8. k.state = "dead_letter" => k.attempts >= MaxAttempts
    BY <1>3
  <1>9. k.state \notin Terminal => k.attempts < Lost + Cardinality(Active(e)')
    <2>1. j.attempts \in Nat /\ Lost \in Nat /\ MaxAttempts \in Nat /\ MaxAttempts <= Lost
      <3>1. \A m, n \in Nat : m * n \in Nat
        OBVIOUS
      <3>2. Cardinality(Runners) * restarts \in Nat
        BY <3>1, ActiveCount, WorkerAssumption DEF WorkerInv, WorkerTypeOK
      <3> QED BY <1>1, <3>2, LostType, WorkerAssumption DEF Lost, Job, WorkerInv, WorkerTypeOK
    <2>2. Cardinality(Active(e)') \in Nat
      <3>1. Active(e)' \in SUBSET Runners
        BY DEF Active
      <3> QED BY <3>1, FS_Subset, FS_CardinalityType, WorkerAssumption
    <2> QED BY <1>3, <2>1, <2>2 DEF Terminal
  <1> HIDE DEF j
  <1> QED BY <1>1, <1>3, <1>4, <1>5, <1>6, <1>7, <1>8, <1>9, JobChanged DEF j

\* A cancelled run moves from the runs under way to those that were lost.
LEMMA CancelRunInv ==
  ASSUME WorkerInv, NEW r \in Runners, CancelRun(r)
  PROVE  WorkerInv'
  <1>1. /\ running[r] # NoJob /\ cancels < MaxCancels /\ cancels' = cancels + 1
        /\ running' = [running EXCEPT ![r] = NoJob]
        /\ UNCHANGED <<jobs, dedupe, nonces, expired, saved, fresh, restarts, overlapped>>
    BY DEF CancelRun, queue
  <1>2. WorkerTypeOK'
    BY <1>1, WorkerAssumption DEF WorkerInv, WorkerTypeOK
  <1>3. IndexOK' /\ SnapshotApart'
    BY <1>1 DEF WorkerInv, IndexOK, SnapshotApart
  <1>4. RunsOK'
    BY <1>1 DEF WorkerInv, WorkerTypeOK, RunsOK
  <1>5. Lost \in Nat /\ Lost' = Lost + 1
    <2>1. Cardinality(Runners) * restarts \in Nat
      <3>1. \A m, n \in Nat : m * n \in Nat
        OBVIOUS
      <3> QED BY <3>1, ActiveCount, WorkerAssumption DEF WorkerInv, WorkerTypeOK
    <2> QED BY <1>1, <2>1, LostType, WorkerAssumption DEF Lost, WorkerInv, WorkerTypeOK
  <1>6. ASSUME NEW f \in Envelopes
        PROVE  /\ Cardinality(Active(f)) \in Nat /\ Cardinality(Active(f)') \in Nat
               /\ Cardinality(Active(f)) <= Cardinality(Active(f)') + 1
    <2>1. IsFiniteSet(Active(f)) /\ Cardinality(Active(f)) \in Nat
      BY ActiveCount
    <2>2. Active(f)' = Active(f) \ {r}
      BY <1>1, WorkerAssumption DEF Active, WorkerInv, WorkerTypeOK
    <2>3. IsFiniteSet(Active(f) \ {r})
          /\ Cardinality(Active(f) \ {r}) =
               IF r \in Active(f) THEN Cardinality(Active(f)) - 1 ELSE Cardinality(Active(f))
      BY <2>1, FS_RemoveElement
    <2>4. Cardinality(Active(f)') \in Nat
      BY <2>2, <2>3, FS_CardinalityType
    <2> QED BY <2>1, <2>2, <2>3, <2>4
  <1>7. Cardinality(Runners) \in Nat
    BY ActiveCount
  <1>8. BudgetOK'
    <2> SUFFICES ASSUME NEW f \in Envelopes, jobs[f] # NoJob
                 PROVE  /\ jobs[f].attempts < Lost + 1 + Cardinality(Runners)
                        /\ jobs[f].state \notin Terminal =>
                             jobs[f].attempts < Lost + 1 + Cardinality(Active(f)')
                        /\ jobs[f].state = "dead_letter" => jobs[f].attempts >= MaxAttempts
      BY <1>1, <1>5 DEF BudgetOK
    <2>1. jobs[f].attempts \in Nat
      BY DEF WorkerInv, WorkerTypeOK, Job
    <2>2. /\ jobs[f].attempts < Lost + Cardinality(Runners)
          /\ jobs[f].state \notin Terminal => jobs[f].attempts < Lost + Cardinality(Active(f))
          /\ jobs[f].state = "dead_letter" => jobs[f].attempts >= MaxAttempts
      BY DEF WorkerInv, BudgetOK
    <2> QED BY <1>5, <1>6, <1>7, <2>1, <2>2
  <1>9. SnapshotBudget'
    <2>1. \A f \in Envelopes : saved[f] # NoJob => saved[f].attempts \in Nat
      BY DEF WorkerInv, WorkerTypeOK, Job
    <2> QED BY <1>1, <1>5, <1>7, <2>1 DEF WorkerInv, SnapshotBudget
  <1> QED BY <1>2, <1>3, <1>4, <1>8, <1>9 DEF WorkerInv

\* A restart loses at most one attempt per call of run_one.
LEMMA RestartInv ==
  ASSUME WorkerInv, Restart
  PROVE  WorkerInv'
  <1>1. /\ jobs' = Empty /\ running' = [r \in Runners |-> NoJob] /\ fresh' = TRUE
        /\ restarts' = restarts + 1 /\ UNCHANGED <<expired, saved, cancels>>
    BY DEF Restart
  <1>2. WorkerTypeOK'
    BY WorkerAssumption DEF Restart, WorkerInv, WorkerTypeOK, Empty
  <1>3. IndexOK' /\ RunsOK' /\ BudgetOK'
    BY <1>1 DEF IndexOK, RunsOK, BudgetOK, Empty
  <1>4. SnapshotApart'
    BY <1>1 DEF WorkerInv, SnapshotApart
  <1>5. Lost' = Lost + Cardinality(Runners)
    <2>1. Cardinality(Runners) \in Nat /\ restarts \in Nat /\ cancels \in Nat
          /\ MaxAttempts \in Nat
      BY ActiveCount, WorkerAssumption DEF WorkerInv, WorkerTypeOK
    <2>2. \A m, n \in Nat : m * n \in Nat /\ m * (n + 1) = m * n + m
      OBVIOUS
    <2> QED BY <1>1, <2>1, <2>2 DEF Lost
  <1>6. SnapshotBudget'
    <2>1. \A e \in Envelopes : saved[e] # NoJob =>
            saved[e].attempts \in Nat /\ saved[e].attempts < Lost + Cardinality(Runners)
      <3>1. Lost \in Nat /\ Cardinality(Runners) \in Nat
        BY LostType, ActiveCount DEF WorkerInv
      <3>2. \A e \in Envelopes : saved[e] # NoJob => saved[e].attempts \in Nat
        BY DEF WorkerInv, WorkerTypeOK, Job
      <3> QED BY <3>1, <3>2 DEF WorkerInv, SnapshotBudget
    <2> QED BY <1>1, <1>5, <2>1 DEF SnapshotBudget
  <1> QED BY <1>2, <1>3, <1>4, <1>6 DEF WorkerInv

\* The entry of an index is the one job that has its key.
LEMMA HolderOfOne ==
  ASSUME NEW S \in SUBSET Envelopes
  PROVE  /\ Holder(S) \in Envelopes \cup {NoJob}
         /\ \A e \in S : (\A f \in S : f = e) => Holder(S) = e
  BY DEF Holder

\* restore() rebuilds both indexes for the jobs that come back.
LEMMA RestoreJobsInv ==
  ASSUME WorkerInv, RestoreJobs
  PROVE  WorkerInv'
  <1> DEFINE back == {e \in Envelopes : saved[e] # NoJob /\ saved[e].state \notin Terminal}
             keyed(d) == {e \in back : saved[e].key = d}
             nonced(n) == {e \in back : Nonce[e] = n}
  <1>1. /\ fresh /\ fresh' = FALSE
        /\ UNCHANGED <<running, expired, saved, cancels, restarts, overlapped>>
        /\ jobs' = [e \in Envelopes |-> IF e \in back THEN saved[e] ELSE NoJob]
        /\ dedupe' = [d \in DedupeKeys |-> Holder(keyed(d))]
        /\ nonces' = [n \in Nonces |-> Holder(nonced(n))]
    <2>1. {e \in {f \in Envelopes : saved[f] # NoJob} : saved[e].state \notin Terminal} = back
      OBVIOUS
    <2> QED BY <2>1 DEF RestoreJobs
  <1>2. back \subseteq Envelopes
    OBVIOUS
  <1>3. \A e \in back : saved[e] \in Job /\ saved[e] # NoJob
    BY DEF WorkerInv, WorkerTypeOK
  <1>4. \A e \in Envelopes : jobs'[e] # NoJob => e \in back /\ jobs'[e] = saved[e]
    BY <1>1
  <1>5. \A e, f \in back : saved[e].key = saved[f].key \/ Nonce[e] = Nonce[f] => e = f
    BY DEF WorkerInv, SnapshotApart
  <1>6. running = [r \in Runners |-> NoJob]
    BY <1>1 DEF WorkerInv, RunsOK
  <1> HIDE DEF back
  <1>7. WorkerTypeOK'
    <2>1. jobs' \in [Envelopes -> Job \cup {NoJob}]
      BY <1>1, <1>3
    <2>2. \A d \in DedupeKeys : Holder(keyed(d)) \in Envelopes \cup {NoJob}
      BY <1>2, HolderOfOne
    <2>3. \A n \in Nonces : Holder(nonced(n)) \in Envelopes \cup {NoJob}
      BY <1>2, HolderOfOne
    <2> HIDE DEF keyed, nonced
    <2> QED BY <1>1, <2>1, <2>2, <2>3 DEF WorkerInv, WorkerTypeOK
  <1>8. IndexOK'
    <2> SUFFICES ASSUME NEW e \in Envelopes, jobs'[e] # NoJob
                 PROVE  dedupe'[jobs'[e].key] = e /\ nonces'[Nonce[e]] = e
      BY DEF IndexOK
    <2>1. e \in back /\ jobs'[e] = saved[e] /\ saved[e].key \in DedupeKeys /\ Nonce[e] \in Nonces
      BY <1>3, <1>4 DEF Job, Nonces
    <2>2. Holder(keyed(saved[e].key)) = e
      <3>1. e \in keyed(saved[e].key) /\ \A f \in keyed(saved[e].key) : f = e
        BY <1>5, <2>1
      <3>2. keyed(saved[e].key) \in SUBSET Envelopes
        BY <1>2
      <3> HIDE DEF keyed
      <3> QED BY <3>1, <3>2, HolderOfOne
    <2>3. Holder(nonced(Nonce[e])) = e
      <3>1. e \in nonced(Nonce[e]) /\ \A f \in nonced(Nonce[e]) : f = e
        BY <1>5, <2>1
      <3>2. nonced(Nonce[e]) \in SUBSET Envelopes
        BY <1>2
      <3> HIDE DEF nonced
      <3> QED BY <3>1, <3>2, HolderOfOne
    <2> HIDE DEF keyed, nonced
    <2> QED BY <1>1, <2>1, <2>2, <2>3
  <1>9. SnapshotApart' /\ RunsOK'
    BY <1>1, <1>6 DEF WorkerInv, SnapshotApart, RunsOK
  <1>10. /\ Lost' = Lost /\ Lost \in Nat /\ Cardinality(Runners) \in Nat
         /\ \A e \in Envelopes : Active(e)' = Active(e) /\ Cardinality(Active(e)) \in Nat
         /\ \A e \in Envelopes : saved[e] # NoJob =>
              saved[e].attempts \in Nat /\ saved[e].attempts < Lost
    BY <1>1, LostType, ActiveCount
    DEF Lost, Active, WorkerInv, WorkerTypeOK, Job, SnapshotBudget
  <1>11. BudgetOK'
    <2> SUFFICES ASSUME NEW e \in Envelopes, jobs'[e] # NoJob
                 PROVE  /\ jobs'[e].attempts < Lost + Cardinality(Runners)
                        /\ jobs'[e].attempts < Lost + Cardinality(Active(e))
                        /\ jobs'[e].state # "dead_letter"
      BY <1>10 DEF BudgetOK
    <2>1. jobs'[e] = saved[e] /\ saved[e].state \notin Terminal /\ saved[e] # NoJob
      BY <1>4 DEF back
    <2>2. jobs'[e].state # "dead_letter"
      BY <2>1 DEF Terminal
    <2> QED BY <1>10, <2>1, <2>2
  <1>12. SnapshotBudget'
    BY <1>1, <1>10 DEF SnapshotBudget
  <1> QED BY <1>7, <1>8, <1>9, <1>11, <1>12 DEF WorkerInv

\* WorkerInv is inductive.
LEMMA WorkerNextInv == WorkerInv /\ [WorkerNext]_worker => WorkerInv'
  <1> SUFFICES ASSUME WorkerInv, [WorkerNext]_worker PROVE WorkerInv'
    OBVIOUS
  <1>1. expired \subseteq Envelopes
    BY DEF WorkerInv, WorkerTypeOK
  <1>2. CASE \E e \in Envelopes : Expire(e)
    BY <1>1, <1>2, QuietInv DEF Expire
  <1>3. CASE \E q \in Requests : Enqueue(q)
    BY <1>3, EnqueueInv
  <1>4. CASE \E r \in Runners : Run(r) \/ CancelRun(r)
    BY <1>4, StartRunInv, EndRunInv, CancelRunInv DEF Run
  <1>5. CASE TakeSnapshot
    BY <1>1, <1>5, QuietInv DEF TakeSnapshot
  <1>6. CASE RejectSnapshot
    BY <1>1, <1>6, QuietInv DEF RejectSnapshot
  <1>7. CASE UNCHANGED worker
    BY <1>1, <1>7, QuietInv DEF worker
  <1> QED BY <1>2, <1>3, <1>4, <1>5, <1>6, <1>7, RestartInv, RestoreJobsInv DEF WorkerNext

\* The invariant holds in every reachable state of the worker.
THEOREM WorkerInvariant == WorkerSpec => []WorkerInv
  BY WorkerInitInv, WorkerNextInv, PTL DEF WorkerSpec

\* Work is queued once: no two jobs share a dedupe key or a nonce, whatever was
\* restored.
THEOREM QueuedOnce == WorkerSpec => []OneJobPerKey
  <1>1. WorkerInv => OneJobPerKey
    BY DEF WorkerInv, IndexOK, OneJobPerKey
  <1> QED BY <1>1, WorkerInvariant, PTL

\* Retries are bounded: a job exceeds its budget only by runs that were cancelled,
\* lost in a restart or overlapping, and is never given up before.
THEOREM RetriesBounded == WorkerSpec => []RetryBudget
  <1>1. WorkerInv => RetryBudget
    <2> SUFFICES ASSUME WorkerInv PROVE RetryBudget
      OBVIOUS
    <2>1. Lost + Cardinality(Runners)
            = MaxAttempts + cancels + Cardinality(Runners) * (restarts + 1)
      <3>1. Cardinality(Runners) \in Nat /\ restarts \in Nat /\ cancels \in Nat
            /\ MaxAttempts \in Nat
        BY ActiveCount, WorkerAssumption DEF WorkerInv, WorkerTypeOK
      <3>2. \A m, n \in Nat : m * n \in Nat /\ m * (n + 1) = m * n + m
        OBVIOUS
      <3> QED BY <3>1, <3>2 DEF Lost
    <2> QED BY <2>1 DEF WorkerInv, BudgetOK, RetryBudget
  <1> QED BY <1>1, WorkerInvariant, PTL

------------------------------------------------------------------------------
(* Outcomes *)

\* The run of a job that never had two is of a job without an outcome, so no
\* step changes the outcome of such a job.
LEMMA OutcomeStep ==
  ASSUME WorkerInv, RunsUnsettled, [WorkerNext]_worker
  PROVE  /\ RunsUnsettled'
         /\ \A e \in Envelopes :
              jobs[e] # NoJob /\ jobs[e].state \in Terminal /\ jobs'[e] # NoJob
                => jobs'[e] = jobs[e] \/ e \in overlapped
  <1> DEFINE Final == \A e \in Envelopes :
                        jobs[e] # NoJob /\ jobs[e].state \in Terminal /\ jobs'[e] # NoJob
                          => jobs'[e] = jobs[e] \/ e \in overlapped
  <1>1. /\ jobs \in [Envelopes -> Job \cup {NoJob}]
        /\ running \in [Runners -> Envelopes \cup {NoJob}] /\ NoJob \notin Envelopes
    BY WorkerAssumption DEF WorkerInv, WorkerTypeOK
  <1>2. CASE UNCHANGED <<jobs, running, overlapped>>
    BY <1>2 DEF RunsUnsettled
  <1>3. ASSUME NEW q \in Requests, Enqueue(q) PROVE RunsUnsettled' /\ Final
    <2>1. q.envelope \in Envelopes /\ nonces[Nonce[q.envelope]] = NoJob
      BY <1>3, WorkerAssumption DEF Enqueue, Admitted
    <2>2. jobs[q.envelope] = NoJob
      BY <1>1, <2>1 DEF WorkerInv, IndexOK
    <2>3. /\ \A e \in Envelopes \ {q.envelope} : jobs'[e] = jobs[e]
          /\ running' = running /\ overlapped' = overlapped
      BY <1>1, <1>3 DEF Enqueue
    <2>4. \A r \in Runners : running[r] # NoJob =>
            running[r] \in Envelopes \ {q.envelope}
      BY <1>1, <2>2 DEF WorkerInv, RunsOK
    <2> QED BY <2>2, <2>3, <2>4 DEF RunsUnsettled
  <1>4. ASSUME NEW r \in Runners, NEW e \in Envelopes, StartRun(r, e)
        PROVE  RunsUnsettled' /\ Final
    <2>1. /\ jobs[e] \in Job /\ jobs[e].state \notin Terminal /\ running[r] = NoJob
          /\ \A f \in Envelopes \ {e} : jobs'[f] = jobs[f]
          /\ overlapped \subseteq overlapped'
          /\ e \notin overlapped' => \A s \in Runners : running[s] # e
      BY <1>1, <1>4 DEF StartRun, Runnable, Active
    <2>2. \/ jobs'[e] = Counted(jobs[e]) /\ running' = [running EXCEPT ![r] = e]
          \/ running' = running
      BY <1>1, <1>4 DEF StartRun
    <2>3. Counted(jobs[e]).state = jobs[e].state
      BY <2>1, JobSteps
    <2>4. RunsUnsettled'
      <3> SUFFICES ASSUME NEW s \in Runners, running'[s] # NoJob, running'[s] \notin overlapped'
                   PROVE  /\ jobs'[running'[s]].state \notin Terminal
                          /\ \A t \in Runners : running'[t] = running'[s] => t = s
        BY DEF RunsUnsettled
      <3>1. CASE running'[s] = e
        BY <1>1, <2>1, <2>2, <2>3, <3>1
      <3>2. CASE running'[s] # e
        <4>1. running'[s] = running[s] /\ running[s] \in Envelopes \ {e}
          BY <1>1, <2>2, <3>2
        <4>2. /\ jobs[running[s]].state \notin Terminal
              /\ \A t \in Runners : running[t] = running[s] => t = s
          BY <2>1, <4>1 DEF RunsUnsettled
        <4>3. \A t \in Runners : running'[t] = running[s] => running[t] = running[s]
          BY <1>1, <2>2, <4>1
        <4> QED BY <2>1, <4>1, <4>2, <4>3
      <3> QED BY <3>1, <3>2
    <2> QED BY <2>1, <2>4
  <1>5. ASSUME NEW r \in Runners, NEW k, EndRun(r, k) PROVE RunsUnsettled' /\ Final
    <2>1. /\ running[r] \in Envelopes /\ overlapped' = overlapped
          /\ \A f \in Envelopes \ {running[r]} : jobs'[f] = jobs[f]
          /\ running'[r] = NoJob /\ \A s \in Runners \ {r} : running'[s] = running[s]
      BY <1>1, <1>5 DEF EndRun
    <2>2. Final
      BY <1>1, <2>1 DEF RunsUnsettled
    <2>3. RunsUnsettled'
      <3> SUFFICES ASSUME NEW s \in Runners, running'[s] # NoJob, running'[s] \notin overlapped
                   PROVE  /\ jobs'[running'[s]].state \notin Terminal
                          /\ \A t \in Runners : running'[t] = running'[s] => t = s
        BY <2>1 DEF RunsUnsettled
      <3>1. s # r /\ running'[s] = running[s] /\ running[s] \in Envelopes
        BY <1>1, <2>1
      <3>2. /\ jobs[running[s]].state \notin Terminal
            /\ \A t \in Runners : running[t] = running[s] => t = s
        BY <3>1 DEF RunsUnsettled
      <3>3. running[s] # running[r]
        BY <3>1, <3>2
      <3>4. jobs'[running[s]] = jobs[running[s]]
        BY <2>1, <3>1, <3>3
      <3>5. \A t \in Runners : running'[t] = running[s] => running[t] = running[s]
        BY <1>1, <2>1, <3>1
      <3> QED BY <3>1, <3>2, <3>4, <3>5
    <2> QED BY <2>2, <2>3
  <1>6. ASSUME NEW r \in Runners, CancelRun(r) PROVE RunsUnsettled' /\ Final
    <2>1. /\ jobs' = jobs /\ overlapped' = overlapped
          /\ \A s \in Runners : running'[s] \in {running[s], NoJob}
      BY <1>1, <1>6 DEF CancelRun, queue
    <2> QED BY <2>1 DEF RunsUnsettled
  <1>7. CASE Restart
    BY <1>7 DEF Restart, Empty, RunsUnsettled
  <1>8. CASE RestoreJobs
    <2>1. /\ running' = running /\ running = [r \in Runners |-> NoJob]
          /\ \A e \in Envelopes : jobs[e] = NoJob
      BY <1>8 DEF RestoreJobs, WorkerInv, RunsOK, Empty
    <2> QED BY <2>1 DEF RunsUnsettled
  <1>9. CASE (\E e \in Envelopes : Expire(e)) \/ TakeSnapshot \/ RejectSnapshot \/ UNCHANGED worker
    BY <1>2, <1>9 DEF Expire, TakeSnapshot, RejectSnapshot, worker, queue
  <1> QED BY <1>3, <1>4, <1>5, <1>6, <1>7, <1>8, <1>9
          DEF WorkerNext, Run, FailRun, FinishRun

\* The outcome of a job is final unless run_one was called for it while another
\* run of it was under way, however many calls run and whatever is cancelled,
\* restarted and restored.
THEOREM OutcomesFinal == WorkerSpec => OnlyOverlapsRevise
  <1>1. WorkerInit => RunsUnsettled
    BY DEF WorkerInit, RunsUnsettled
  <1>2. WorkerInv /\ RunsUnsettled /\ [WorkerNext]_worker => RunsUnsettled'
    BY OutcomeStep
  <1>3. WorkerInv /\ RunsUnsettled /\ [WorkerNext]_worker =>
          [\A e \in Envelopes :
             jobs[e] # NoJob /\ jobs[e].state \in Terminal /\ jobs'[e] # NoJob
               => jobs'[e] = jobs[e] \/ e \in overlapped]_worker
    BY OutcomeStep
  <1> QED BY <1>1, <1>2, <1>3, WorkerInvariant, PTL DEF WorkerSpec, OnlyOverlapsRevise

------------------------------------------------------------------------------
(* CloudReembed *)

\* run_one never changes what a job refers to.
LEMMA JobRefs ==
  ASSUME NEW j \in Job
  PROVE  /\ j.ref[1] \in Ids /\ j.ref[2] \in Nat
         /\ Counted(j).ref = j.ref /\ AfterFailure(j).ref = j.ref
         /\ \A result : [j EXCEPT !.state = result].ref = j.ref
  <1>1. j.ref \in Ids \X Nat
    BY ReembedAssumption DEF Job
  <1>2. Counted(j).ref = j.ref
    BY DEF Counted, Job
  <1>3. AfterFailure(j).ref = j.ref
    BY DEF AfterFailure, Job
  <1>4. \A result : [j EXCEPT !.state = result].ref = j.ref
    BY DEF Job
  <1> QED BY <1>1, <1>2, <1>3, <1>4

------------------------------------------------------------------------------
(* The service beside the worker *)

\* Outside a restore, an issued record never comes back and its content changes
\* only with a higher version.
Forward ==
    \A i \in issued : records'[i] # None =>
        /\ records[i] # None
        /\ \/ records'[i].version > records[i].version
           \/ records'[i].version = records[i].version
              /\ records'[i].content = records[i].content

\* A vector that is kept is that of a record whose content is kept.
VectorsKept ==
    \A i \in Ids : embeddings'[i] # None =>
        embeddings'[i] = embeddings[i] /\ records'[i].content = records[i].content

\* A step of the service that moves forward leaves every run and vector as valid
\* as it was.
LEMMA ForwardInv ==
  ASSUME ReembedInv, CloudInv', Forward, VectorsKept, issued \subseteq issued',
         UNCHANGED <<worker, fetched, crossed, revived>>
  PROVE  ReembedInv'
  <1>1. UNCHANGED <<jobs, dedupe, nonces, running, expired, saved, fresh, cancels, restarts,
                       overlapped>>
    BY DEF worker, queue
  <1>2. WorkerInv'
    BY <1>1, WorkerNextInv DEF ReembedInv, worker, queue
  <1>3. ReembedTypeOK'
    BY DEF ReembedInv, ReembedTypeOK
  <1>4. ReadOK'
    <2> SUFFICES ASSUME NEW r \in Runners, fetched[r] # None
                 PROVE  ReadOf(r)'
      BY DEF ReadOK
    <2> DEFINE j == jobs[running[r]]
    <2>1. /\ running[r] # NoJob /\ j.ref[1] \in issued
          /\ r \notin crossed /\ records[j.ref[1]] # None =>
               /\ records[j.ref[1]].version >= j.ref[2]
               /\ records[j.ref[1]].version = j.ref[2] => records[j.ref[1]].content = fetched[r]
      BY DEF ReembedInv, ReadOK, ReadOf
    <2>2. j \in Job
      BY <2>1 DEF ReembedInv, WorkerInv, WorkerTypeOK, RunsOK
    <2>3. j.ref[1] \in Ids /\ j.ref[2] \in Nat
      BY <2>2, JobRefs
    <2> HIDE DEF j
    <2>4. /\ records[j.ref[1]] # None => records[j.ref[1]].version \in Nat
          /\ records'[j.ref[1]] # None => records'[j.ref[1]].version \in Nat
      BY <2>3 DEF ReembedInv, CloudInv, CloudTypeOK, Record
    <2>5. /\ running[r] # NoJob /\ j.ref[1] \in issued'
          /\ r \notin crossed /\ records'[j.ref[1]] # None =>
               /\ records'[j.ref[1]].version >= j.ref[2]
               /\ records'[j.ref[1]].version = j.ref[2] => records'[j.ref[1]].content = fetched[r]
      BY <2>1, <2>3, <2>4 DEF Forward
    <2> QED BY <1>1, <2>5 DEF j, ReadOf
  <1>5. VectorFresh'
    <2> SUFFICES ASSUME NEW i \in Ids, embeddings'[i] # None
                 PROVE  /\ (Owned(embeddings[i].owner, i))'
                        /\ records'[i].content = embeddings'[i].content \/ i \in revived
      BY DEF VectorFresh
    <2>1. (Owned(embeddings[i].owner, i))'
      BY DEF CloudInv, VectorCurrent
    <2> QED BY <2>1 DEF VectorsKept, ReembedInv, VectorFresh
  <1> QED BY <1>2, <1>3, <1>4, <1>5 DEF ReembedInv

\* The clients of the service
LEMMA ServeForward ==
  ASSUME ReembedInv, CloudServe
  PROVE  Forward /\ VectorsKept /\ issued \subseteq issued'
  <1>1. /\ records \in [Ids -> Record \cup {None}] /\ issued \subseteq Ids
        /\ embeddings \in [Ids -> Embedding \cup {None}] /\ keyVersion \in Nat \ {0}
    BY DEF ReembedInv, CloudInv, CloudTypeOK
  <1>2. ASSUME NEW o \in Owners, NEW k \in WriteKeys, NEW c \in Contents, Write(o, k, c)
        PROVE  Forward /\ VectorsKept /\ issued \subseteq issued'
    <2>1. PICK i \in Ids \ issued :
            /\ \A j \in Ids \ {i} : records'[j] = records[j]
            /\ issued' = issued \cup {i} /\ embeddings' = embeddings
      BY <1>1, <1>2 DEF Write
    <2>2. records[i] = None /\ embeddings[i] = None
      BY DEF ReembedInv, CloudInv, IssuedOnly, VectorCurrent, Owned
    <2>3. Forward
      BY <1>1, <2>1 DEF Forward
    <2> QED BY <2>1, <2>2, <2>3 DEF VectorsKept
  <1>3. ASSUME NEW o \in Owners, NEW i \in Ids, NEW ev \in 1..MaxVersion, NEW p \in Patches,
               Update(o, i, ev, p)
        PROVE  Forward /\ VectorsKept /\ issued \subseteq issued'
    <2>1. /\ records' = [records EXCEPT ![i] = Patched(records[i], p)] /\ records[i] # None
          /\ embeddings' = [embeddings EXCEPT ![i] = None] /\ issued' = issued
      BY <1>3 DEF Update, AfterUpdate, Owned
    <2>2. records[i] \in Record
      BY <1>1, <2>1
    <2>3. Patched(records[i], p).version > records[i].version
      BY <2>2 DEF Patched, Record
    <2> QED BY <1>1, <2>1, <2>3 DEF Forward, VectorsKept
  <1>4. ASSUME NEW o \in Owners, NEW i \in Ids, Forget(o, i)
        PROVE  Forward /\ VectorsKept /\ issued \subseteq issued'
    <2>1. /\ \A j \in Ids : records'[j] \in {records[j], None}
          /\ \A j \in Ids : \/ embeddings'[j] = None
                            \/ embeddings'[j] = embeddings[j] /\ records'[j] = records[j]
          /\ issued' = issued
      BY <1>1, <1>4 DEF Forget, stored
    <2> QED BY <1>1, <2>1 DEF Forward, VectorsKept
  <1>5. ASSUME NEW o \in Owners, DeleteOwner(o)
        PROVE  Forward /\ VectorsKept /\ issued \subseteq issued'
    <2>1. /\ \A j \in Ids : records'[j] \in {records[j], None}
          /\ \A j \in Ids : \/ embeddings'[j] = None
                            \/ embeddings'[j] = embeddings[j] /\ records'[j] = records[j]
          /\ issued' = issued
      BY <1>5 DEF DeleteOwner
    <2> QED BY <1>1, <2>1 DEF Forward, VectorsKept
  <1> QED BY <1>2, <1>3, <1>4, <1>5 DEF CloudServe

LEMMA ServeInv ==
  ASSUME ReembedInv, CloudServe, UNCHANGED <<worker, fetched, crossed, revived>>
  PROVE  ReembedInv'
  <1>1. CloudInv'
    BY CloudNextInv DEF ReembedInv, CloudNext
  <1> QED BY <1>1, ServeForward, ForwardInv

\* A restore overtakes every run that has read a record, and keeps a vector only
\* with a record of the same version, whose content is another one only if the
\* two histories forked.
LEMMA RecoverInv ==
  ASSUME ReembedInv, ReembedRecover
  PROVE  ReembedInv'
  <1>1. CloudInv'
    BY CloudNextInv DEF ReembedInv, CloudNext, CloudRecover, ReembedRecover
  <1>2. CASE TakeBackup /\ UNCHANGED <<worker, fetched, crossed, revived>>
    <2>1. UNCHANGED <<records, embeddings, issued>>
      BY <1>2 DEF TakeBackup, stored
    <2>2. Forward /\ VectorsKept
      BY <2>1 DEF Forward, VectorsKept
    <2> QED BY <1>1, <1>2, <2>1, <2>2, ForwardInv
  <1>3. ASSUME NEW b \in backups, RestoreBackup(b) \/ RestoreIsolated(b),
               crossed' = {r \in Runners : fetched[r] # None},
               revived' = revived \cup Forked(b), UNCHANGED <<worker, fetched>>
        PROVE  ReembedInv'
    <2>1. UNCHANGED <<jobs, dedupe, nonces, running, expired, saved, fresh, cancels, restarts,
                       overlapped>>
      BY <1>3 DEF worker, queue
    <2>2. WorkerInv'
      BY <2>1, WorkerNextInv DEF ReembedInv, worker, queue
    <2>3. ReembedTypeOK'
      BY <1>3 DEF ReembedInv, ReembedTypeOK, Forked
    <2>4. issued' = issued
      BY <1>3 DEF RestoreBackup, RestoreIsolated
    <2>5. ReadOK'
      BY <1>3, <2>1, <2>4 DEF ReembedInv, ReadOK, ReadOf
    <2>6. VectorFresh'
      <3> SUFFICES ASSUME NEW i \in Ids, embeddings'[i] # None
                   PROVE  /\ (Owned(embeddings[i].owner, i))'
                          /\ records'[i].content = embeddings'[i].content \/ i \in revived'
        BY DEF VectorFresh
      <3>1. (Owned(embeddings[i].owner, i))'
        BY <1>1 DEF CloudInv, VectorCurrent
      <3>2. /\ embeddings'[i] = embeddings[i]
            /\ records'[i].version = embeddings[i].version
            /\ records'[i] \in {b.records[i], None}
        BY <1>3 DEF RestoreBackup, RestoreIsolated, KeptVector
      <3>3. records'[i] = b.records[i] /\ b.records[i] # None
        BY <3>1, <3>2 DEF Owned
      <3>4. records[i] # None /\ records[i].version = embeddings[i].version
        BY <3>2 DEF ReembedInv, CloudInv, VectorCurrent, Owned
      <3>5. records[i].content = embeddings[i].content \/ i \in revived
        BY <3>2 DEF ReembedInv, VectorFresh
      <3>6. b.records[i].content = records[i].content \/ i \in Forked(b)
        BY <3>2, <3>3, <3>4 DEF Forked
      <3> QED BY <1>3, <3>1, <3>2, <3>3, <3>5, <3>6
    <2> QED BY <1>1, <2>2, <2>3, <2>5, <2>6 DEF ReembedInv
  <1> QED BY <1>2, <1>3 DEF ReembedRecover

------------------------------------------------------------------------------
(* The worker beside the service *)

\* Jobs stay, with what they refer to.
RefsKept ==
    \A e \in Envelopes : jobs[e] # NoJob => jobs'[e] # NoJob /\ jobs'[e].ref = jobs[e].ref

\* A run that goes on while the record it read stays as it is
LEMMA RunGoesOn ==
  ASSUME ReembedInv, RefsKept, UNCHANGED <<records, issued>>, NEW r \in Runners,
         fetched[r] # None, fetched'[r] = fetched[r], running'[r] = running[r],
         r \in crossed => r \in crossed'
  PROVE  ReadOf(r)'
  <1> DEFINE e == running[r]
  <1>1. ReadOf(r)
    BY DEF ReembedInv, ReadOK
  <1>2. e \in Envelopes /\ e # NoJob /\ jobs[e] # NoJob
    BY <1>1 DEF ReadOf, ReembedInv, WorkerInv, WorkerTypeOK, RunsOK
  <1>3. jobs'[e].ref = jobs[e].ref
    BY <1>2 DEF RefsKept
  <1> QED BY <1>1, <1>3 DEF ReadOf

\* A step of run_one changes one job and keeps what it refers to.
LEMMA OneJobKeepsRefs ==
  ASSUME WorkerInv, NEW e \in Envelopes, jobs[e] # NoJob, NEW j \in Job,
         j.ref = jobs[e].ref, jobs' = [jobs EXCEPT ![e] = j]
  PROVE  RefsKept
  BY WorkerAssumption DEF WorkerInv, WorkerTypeOK, RefsKept

\* Clients and time: no run starts or ends.
LEMMA QueueInv ==
  ASSUME ReembedInv, UNCHANGED <<cloud, fetched, crossed, revived>>,
         (\E q \in Requests : Enqueue(q)) \/ (\E e \in Envelopes : Expire(e))
  PROVE  ReembedInv'
  <1>1. UNCHANGED <<records, embeddings, issued>>
    BY DEF cloud, stored
  <1>2. WorkerInv'
    BY WorkerNextInv DEF ReembedInv, WorkerNext
  <1>3. CloudInv'
    BY CloudNextInv DEF ReembedInv
  <1>4. running' = running
    BY DEF Enqueue, Expire
  <1>5. RefsKept
    <2>1. ASSUME NEW q \in Requests, Enqueue(q) PROVE RefsKept
      <3>1. /\ q.envelope \in Envelopes /\ nonces[Nonce[q.envelope]] = NoJob
            /\ \A f \in Envelopes \ {q.envelope} : jobs'[f] = jobs[f]
        BY <2>1, WorkerAssumption
        DEF Enqueue, Admitted, ReembedInv, WorkerInv, WorkerTypeOK
      <3>2. jobs[q.envelope] = NoJob
        BY <3>1, WorkerAssumption DEF ReembedInv, WorkerInv, IndexOK
      <3> QED BY <3>1, <3>2 DEF RefsKept
    <2>2. ASSUME NEW e \in Envelopes, Expire(e) PROVE RefsKept
      BY <2>2 DEF Expire, queue, RefsKept
    <2> QED BY <2>1, <2>2
  <1>6. ReadOK'
    <2> SUFFICES ASSUME NEW r \in Runners, fetched[r] # None PROVE ReadOf(r)'
      BY DEF ReadOK
    <2> QED BY <1>1, <1>4, <1>5, RunGoesOn
  <1> QED BY <1>1, <1>2, <1>3, <1>6 DEF ReembedInv, ReembedTypeOK, VectorFresh, Owned

\* A run reads the record its job names, in the version it names.
LEMMA StartInv ==
  ASSUME ReembedInv, NEW r \in Runners, NEW e \in Envelopes, StartReembed(r, e)
  PROVE  ReembedInv'
  <1> DEFINE j == jobs[e]
  <1>1. UNCHANGED <<records, embeddings, issued, crossed, revived>>
    BY DEF StartReembed, cloud, stored
  <1>2. WorkerInv'
    BY WorkerNextInv DEF StartReembed, ReembedInv, WorkerNext, Run
  <1>3. CloudInv'
    BY CloudNextInv DEF StartReembed, ReembedInv
  <1>4. /\ running[r] = NoJob /\ j # NoJob /\ j \in Job /\ e # NoJob
        /\ records \in [Ids -> Record \cup {None}]
        /\ fetched \in [Runners -> Contents \cup {None}]
        /\ running \in [Runners -> Envelopes \cup {NoJob}]
    BY WorkerAssumption
    DEF StartReembed, StartRun, Runnable, ReembedInv, WorkerInv, WorkerTypeOK,
        CloudInv, CloudTypeOK, ReembedTypeOK
  <1>5. j.ref[1] \in Ids /\ j.ref[2] \in Nat
    BY <1>4, JobRefs
  <1>6. RefsKept
    <2>1. PICK k \in Job : k.ref = j.ref /\ jobs' = [jobs EXCEPT ![e] = k]
      BY <1>4, JobRefs, JobSteps DEF StartReembed, StartRun
    <2> QED BY <1>4, <2>1, OneJobKeepsRefs DEF ReembedInv
  <1>7. /\ \A s \in Runners \ {r} : fetched'[s] = fetched[s] /\ running'[s] = running[s]
        /\ fetched[r] = None
    BY <1>4 DEF StartReembed, StartRun, ReembedInv, ReadOK, ReadOf
  <1>8. fetched'[r] # None =>
          /\ running'[r] = e /\ records[j.ref[1]] # None
          /\ records[j.ref[1]].version = j.ref[2]
          /\ fetched' = [fetched EXCEPT ![r] = records[j.ref[1]].content]
    BY <1>4, <1>7 DEF StartReembed, StartRun, Owned
  <1>9. ReembedTypeOK'
    <2>1. CASE fetched'[r] = None
      BY <1>1, <1>4, <1>7, <2>1 DEF StartReembed, ReembedInv, ReembedTypeOK
    <2>2. CASE fetched'[r] # None
      <3>1. records[j.ref[1]].content \in Contents
        BY <1>4, <1>5, <1>8, <2>2 DEF Record
      <3> QED BY <1>1, <1>4, <1>8, <2>2, <3>1 DEF ReembedInv, ReembedTypeOK
    <2> QED BY <2>1, <2>2
  <1>10. ReadOK'
    <2> SUFFICES ASSUME NEW s \in Runners, fetched'[s] # None PROVE ReadOf(s)'
      BY DEF ReadOK
    <2>1. CASE s # r
      BY <1>1, <1>6, <1>7, <2>1, RunGoesOn
    <2>2. CASE s = r
      <3>1. running'[r] = e /\ jobs'[e].ref = j.ref /\ e # NoJob
        BY <1>4, <1>6, <1>8, <2>2 DEF RefsKept
      <3>2. j.ref[1] \in issued
        BY <1>5, <1>8, <2>2 DEF ReembedInv, CloudInv, IssuedOnly
      <3>3. /\ records[j.ref[1]].version >= j.ref[2]
            /\ records[j.ref[1]].content = fetched'[r]
        BY <1>4, <1>5, <1>8, <2>2
      <3> QED BY <1>1, <2>2, <3>1, <3>2, <3>3 DEF ReadOf
    <2> QED BY <2>1, <2>2
  <1>11. VectorFresh'
    BY <1>1 DEF ReembedInv, VectorFresh, Owned
  <1> QED BY <1>2, <1>3, <1>9, <1>10, <1>11 DEF ReembedInv

\* A run ends: the other runs go on.
LEMMA RunEnds ==
  ASSUME ReembedInv, WorkerInv', RefsKept, UNCHANGED <<records, issued>>, NEW r \in Runners,
         fetched' = [fetched EXCEPT ![r] = None], crossed' = crossed \ {r},
         running' = [running EXCEPT ![r] = NoJob]
  PROVE  /\ ReadOK'
         /\ fetched' \in [Runners -> Contents \cup {None}] /\ crossed' \subseteq Runners
  <1>1. /\ fetched \in [Runners -> Contents \cup {None}] /\ crossed \subseteq Runners
        /\ running \in [Runners -> Envelopes \cup {NoJob}]
    BY DEF ReembedInv, ReembedTypeOK, WorkerInv, WorkerTypeOK
  <1>2. ASSUME NEW s \in Runners, fetched'[s] # None PROVE ReadOf(s)'
    <2>1. /\ s # r /\ fetched'[s] = fetched[s] /\ running'[s] = running[s]
          /\ s \in crossed => s \in crossed'
      BY <1>1, <1>2
    <2> QED BY <1>2, <2>1, RunGoesOn
  <1> QED BY <1>1, <1>2 DEF ReadOK

\* The provider raised, or the run was cancelled: nothing is stored.
LEMMA BreakInv ==
  ASSUME ReembedInv, NEW r \in Runners, BreakReembed(r)
  PROVE  ReembedInv'
  <1>1. UNCHANGED <<records, embeddings, issued, revived>>
    BY DEF BreakReembed, cloud, stored
  <1>2. WorkerInv'
    BY WorkerNextInv DEF BreakReembed, ReembedInv, WorkerNext, Run
  <1>3. CloudInv'
    BY CloudNextInv DEF BreakReembed, ReembedInv
  <1>4. PICK e \in Envelopes : e = running[r] /\ jobs[e] # NoJob /\ jobs[e] \in Job
    BY DEF BreakReembed, FailRun, EndRun, CancelRun, ReembedInv, WorkerInv, WorkerTypeOK, RunsOK
  <1>5. RefsKept
    <2>1. CASE FailRun(r)
      <3>1. PICK k \in Job : k.ref = jobs[e].ref /\ jobs' = [jobs EXCEPT ![e] = k]
        BY <1>4, <2>1, JobRefs, JobSteps DEF FailRun, EndRun
      <3> QED BY <1>4, <3>1, OneJobKeepsRefs DEF ReembedInv
    <2>2. CASE CancelRun(r)
      BY <2>2 DEF CancelRun, queue, RefsKept
    <2> QED BY <2>1, <2>2 DEF BreakReembed
  <1>6. /\ fetched' = [fetched EXCEPT ![r] = None] /\ crossed' = crossed \ {r}
        /\ running' = [running EXCEPT ![r] = NoJob]
    BY DEF BreakReembed, FailRun, EndRun, CancelRun
  <1>7. /\ ReadOK' /\ fetched' \in [Runners -> Contents \cup {None}]
        /\ crossed' \subseteq Runners
    BY <1>1, <1>2, <1>5, <1>6, RunEnds
  <1> QED
    BY <1>1, <1>2, <1>3, <1>7 DEF ReembedInv, ReembedTypeOK, VectorFresh, Owned

\* A run stores the vector of what it read only in the version it read; unless a
\* restore overtook it, that version has no other content.
LEMMA FinishInv ==
  ASSUME ReembedInv, NEW r \in Runners, FinishReembed(r)
  PROVE  ReembedInv'
  <1>1. PICK e \in Envelopes :
          e = running[r] /\ e # NoJob /\ jobs[e] # NoJob /\ jobs[e] \in Job
    BY DEF FinishReembed, ReembedInv, WorkerInv, WorkerTypeOK, RunsOK
  <1> DEFINE i == jobs[e].ref[1]
             v == jobs[e].ref[2]
             o == Principal[e]
  <1>2. i \in Ids /\ v \in Nat /\ o \in Owners
    BY <1>1, JobRefs, ReembedAssumption
  <1>3. PICK result \in {"ready", "stale"} : FinishRun(r, result)
    BY DEF FinishReembed
  <1>4. WorkerInv'
    BY <1>3, WorkerNextInv DEF ReembedInv, WorkerNext, Run
  <1>5. RefsKept
    <2> DEFINE k == [jobs[e] EXCEPT !.state = result]
    <2>1. jobs' = [jobs EXCEPT ![e] = k]
      BY <1>1, <1>3 DEF FinishRun, EndRun
    <2>2. k \in Job
      BY <1>1, JobSteps
    <2>3. k.ref = jobs[e].ref
      BY <1>1, JobRefs
    <2> HIDE DEF k
    <2> QED BY <1>1, <2>1, <2>2, <2>3, OneJobKeepsRefs DEF ReembedInv
  <1>6. /\ fetched' = [fetched EXCEPT ![r] = None] /\ crossed' = crossed \ {r}
        /\ running' = [running EXCEPT ![r] = NoJob]
    BY <1>3 DEF FinishReembed, FinishRun, EndRun
  <1>7. UNCHANGED <<records, issued>>
    BY DEF FinishReembed, StoreEmbedding, cloud, stored
  <1>8. /\ ReadOK' /\ fetched' \in [Runners -> Contents \cup {None}]
        /\ crossed' \subseteq Runners
    BY <1>4, <1>5, <1>6, <1>7, RunEnds
  <1>9. CASE UNCHANGED <<cloud, revived>>
    <2>1. CloudInv' /\ UNCHANGED embeddings
      BY <1>9, CloudNextInv DEF ReembedInv, cloud, stored
    <2> QED
      BY <1>4, <1>7, <1>8, <1>9, <2>1 DEF ReembedInv, ReembedTypeOK, VectorFresh, Owned
  <1>10. CASE /\ fetched[r] # None /\ StillCurrent(o, i, v)
              /\ StoreEmbedding(o, i, v, fetched[r])
              /\ revived' = IF r \in crossed THEN revived \cup {i} ELSE revived \ {i}
    <2>1. fetched[r] \in Contents /\ revived \subseteq Ids
      BY <1>10 DEF ReembedInv, ReembedTypeOK
    <2>2. records[i] # None /\ records[i].owner = o /\ records[i].version = v
      BY <1>10 DEF StillCurrent, Owned
    <2>3. v \in Nat \ {0}
      BY <1>2, <2>2 DEF ReembedInv, CloudInv, CloudTypeOK, Record
    <2> DEFINE new == [owner |-> o, version |-> v, content |-> fetched[r]]
    <2>4. CloudInv'
      BY <1>2, <1>10, <2>1, <2>3, StoreEmbeddingInv DEF ReembedInv
    <2>5. /\ embeddings'[i] = new
          /\ \A k \in Ids \ {i} : embeddings'[k] = embeddings[k]
      BY <1>2, <1>10 DEF StoreEmbedding, ReembedInv, CloudInv, CloudTypeOK
    <2>6. r \notin crossed => records[i].content = fetched[r]
      BY <1>1, <1>10, <2>2 DEF ReembedInv, ReadOK, ReadOf
    <2>7. VectorFresh'
      <3> SUFFICES ASSUME NEW k \in Ids, embeddings'[k] # None
                   PROVE  /\ (Owned(embeddings[k].owner, k))'
                          /\ \/ records'[k].content = embeddings'[k].content
                             \/ k \in revived'
        BY DEF VectorFresh
      <3>1. (Owned(embeddings[k].owner, k))'
        BY <2>4 DEF CloudInv, VectorCurrent
      <3>2. CASE k = i
        BY <1>7, <1>10, <2>5, <2>6, <3>1, <3>2
      <3>3. CASE k # i
        BY <1>7, <1>10, <2>5, <3>1, <3>3 DEF ReembedInv, VectorFresh
      <3> QED BY <3>2, <3>3
    <2> QED BY <1>2, <1>4, <1>8, <1>10, <2>1, <2>4, <2>7 DEF ReembedInv, ReembedTypeOK
  <1> QED BY <1>1, <1>9, <1>10 DEF FinishReembed

------------------------------------------------------------------------------
(* The composition *)

\* An idle worker beside an empty service
LEMMA ReembedInitInv == ReembedInit => ReembedInv
  <1> SUFFICES ASSUME ReembedInit PROVE ReembedInv
    OBVIOUS
  <1>1. CloudInv /\ WorkerInv
    BY CloudInitInv, WorkerInitInv DEF ReembedInit
  <1> QED
    BY <1>1 DEF ReembedInit, CloudInit, ReembedInv, ReembedTypeOK, ReadOK, VectorFresh

\* ReembedInv is inductive.
LEMMA ReembedNextInv == ReembedInv /\ [ReembedNext]_all => ReembedInv'
  <1> SUFFICES ASSUME ReembedInv, [ReembedNext]_all PROVE ReembedInv'
    OBVIOUS
  <1>1. CASE UNCHANGED all
    <2>1. CloudInv'
      BY <1>1, CloudNextInv DEF ReembedInv, all
    <2>2. Forward /\ VectorsKept /\ issued' = issued
      BY <1>1 DEF all, cloud, stored, Forward, VectorsKept
    <2> QED BY <1>1, <2>1, <2>2, ForwardInv DEF all
  <1>2. CASE ReembedStep
    BY <1>2, QueueInv, StartInv, FinishInv, BreakInv DEF ReembedStep
  <1>3. CASE CloudServe /\ UNCHANGED <<worker, fetched, crossed, revived>>
    BY <1>3, ServeInv
  <1>4. CASE ReembedRecover
    BY <1>4, RecoverInv
  <1> QED BY <1>1, <1>2, <1>3, <1>4 DEF ReembedNext

\* The invariant of the composition holds in every reachable state.
THEOREM ReembedInvariant == ReembedSpec => []ReembedInv
  BY ReembedInitInv, ReembedNextInv, PTL DEF ReembedSpec

\* No stale vector: whatever the clients, the other runs and the operator do while
\* a vector is computed, only a version number that a restore freed for a second
\* use lets one survive that is not of the stored content.
THEOREM VectorsStayFresh == ReembedSpec => []VectorFresh
  <1>1. ReembedInv => VectorFresh
    BY DEF ReembedInv
  <1> QED BY <1>1, ReembedInvariant, PTL
==============================================================================
