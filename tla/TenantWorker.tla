---------------------------- MODULE TenantWorker -----------------------------
(***************************************************************************)
(* LocalTenantWorker of omp.cloud: a queue of signed jobs with dedupe      *)
(* keys, a retry budget and a dead-letter state, whose jobs survive a      *)
(* restart through a snapshot.                                             *)
(*                                                                         *)
(* The event loop runs one callback at a time, so enqueue, snapshot and    *)
(* restore are atomic; run_one suspends in its handler, and other calls,   *)
(* run_one of the same job included, happen in between.  Every envelope    *)
(* has its own job identifier (a UUID), so a job is named by its envelope. *)
(* All jobs are those of one tenant: both maps are keyed by tenant.        *)
(***************************************************************************)
EXTENDS Naturals, FiniteSets

CONSTANTS
    Envelopes,      \* correctly signed envelopes, as often as they are sent
    Nonce,          \* the nonce each envelope carries
    DedupeKeys,
    Refs,           \* payload references
    Requests,       \* the enqueue calls clients make, any number of times
    Runners,        \* concurrent calls of run_one
    MaxAttempts,    \* max_attempts
    MaxCancels,     \* bound: how many runs are cancelled
    MaxRestarts,    \* bound: how many times the process restarts
    NoJob

\* JobState
JobStates == {"pending", "ready", "stale", "failed", "dead_letter"}
Terminal  == {"ready", "stale", "dead_letter"}

\* LocalJob; the envelope is its index
Job == [key : DedupeKeys, ref : Refs, state : JobStates, attempts : Nat]

ASSUME WorkerAssumption ==
    /\ MaxAttempts \in Nat \ {0}
    /\ MaxCancels \in Nat /\ MaxRestarts \in Nat
    /\ IsFiniteSet(Runners)
    /\ NoJob \notin Job /\ NoJob \notin Envelopes
    /\ \A q \in Requests : q.envelope \in Envelopes /\ q.key \in DedupeKeys /\ q.ref \in Refs

VARIABLES
    jobs,       \* _jobs; _dedupe and _nonces are the two indexes of it
    dedupe,
    nonces,
    running,    \* per run_one call: the job its handler is working on
    expired,    \* envelopes whose expires_at has passed
    saved,      \* the last snapshot() an operator kept
    fresh,      \* restarted, and nothing enqueued or run since
    cancels, restarts,
    overlapped  \* history: jobs that run_one was called for while a run was under way

queue  == <<jobs, dedupe, nonces>>
worker == <<queue, running, expired, saved, fresh, cancels, restarts, overlapped>>

Nonces == {Nonce[e] : e \in Envelopes}
Empty  == [e \in Envelopes |-> NoJob]

WorkerTypeOK ==
    /\ jobs \in [Envelopes -> Job \cup {NoJob}]
    /\ dedupe \in [DedupeKeys -> Envelopes \cup {NoJob}]
    /\ nonces \in [Nonces -> Envelopes \cup {NoJob}]
    /\ running \in [Runners -> Envelopes \cup {NoJob}]
    /\ expired \subseteq Envelopes
    /\ saved \in [Envelopes -> Job \cup {NoJob}]
    /\ fresh \in BOOLEAN
    /\ cancels \in 0..MaxCancels /\ restarts \in 0..MaxRestarts
    /\ overlapped \subseteq Envelopes

WorkerInit ==
    /\ jobs = Empty
    /\ dedupe = [d \in DedupeKeys |-> NoJob]
    /\ nonces = [n \in Nonces |-> NoJob]
    /\ running = [r \in Runners |-> NoJob]
    /\ expired = {}
    /\ saved = Empty
    /\ fresh = FALSE
    /\ cancels = 0 /\ restarts = 0
    /\ overlapped = {}

------------------------------------------------------------------------------
\* Time passes the expires_at of an envelope.
Expire(e) ==
    /\ e \notin expired
    /\ expired' = expired \cup {e}
    /\ UNCHANGED <<queue, running, saved, fresh, cancels, restarts, overlapped>>

\* WorkerEnvelope.verify, for an envelope that is correctly signed
Verified(e) == e \notin expired

\* A known dedupe key returns its job and a known nonce is an error: neither
\* changes anything.
Admitted(e, d) == Verified(e) /\ dedupe[d] = NoJob /\ nonces[Nonce[e]] = NoJob

Enqueue(q) ==
    LET e == q.envelope IN
    /\ Admitted(e, q.key)
    /\ jobs' = [jobs EXCEPT ![e] = [key |-> q.key, ref |-> q.ref,
                                    state |-> "pending", attempts |-> 0]]
    /\ dedupe' = [dedupe EXCEPT ![q.key] = e]
    /\ nonces' = [nonces EXCEPT ![Nonce[e]] = e]
    /\ fresh' = FALSE
    /\ UNCHANGED <<running, expired, saved, cancels, restarts, overlapped>>

\* Mutant: the last attempt of the budget is retried once more.
AfterFailure_Late(j) ==
    [j EXCEPT !.state = IF j.attempts > MaxAttempts THEN "dead_letter" ELSE "failed"]

\* The except clause of run_one
AfterFailure(j) ==
    [j EXCEPT !.state = IF j.attempts >= MaxAttempts THEN "dead_letter" ELSE "failed"]

\* Mutant: a job that failed for good is tried again.
Runnable_DeadLetter(e) == jobs[e] # NoJob /\ jobs[e].state \notin {"ready", "stale"}

\* run_one returns a job in a terminal state as it is.
Runnable(e) == jobs[e] # NoJob /\ jobs[e].state \notin Terminal

\* run_one counts the attempt before it calls the handler.
Counted(j) == [j EXCEPT !.attempts = @ + 1]

\* The runs of a job that are under way
Active(e) == {r \in Runners : running[r] = e}

\* run_one up to the handler.  An expired envelope fails before the attempt is
\* counted.
StartRun(r, e) ==
    /\ running[r] = NoJob
    /\ Runnable(e)
    /\ \/ /\ Verified(e)
          /\ jobs' = [jobs EXCEPT ![e] = Counted(@)]
          /\ running' = [running EXCEPT ![r] = e]
       \/ /\ ~Verified(e)
          /\ jobs' = [jobs EXCEPT ![e] = AfterFailure(@)]
          /\ UNCHANGED running
    /\ fresh' = FALSE
    /\ overlapped' = IF Active(e) # {} THEN overlapped \cup {e} ELSE overlapped
    /\ UNCHANGED <<dedupe, nonces, expired, saved, cancels, restarts>>

\* The handler returned a result, or raised.
EndRun(r, job) ==
    /\ running[r] # NoJob
    /\ jobs' = [jobs EXCEPT ![running[r]] = job]
    /\ running' = [running EXCEPT ![r] = NoJob]
    /\ UNCHANGED <<dedupe, nonces, expired, saved, fresh, cancels, restarts, overlapped>>

FinishRun(r, result) ==
    result \in {"ready", "stale"} /\ EndRun(r, [jobs[running[r]] EXCEPT !.state = result])

\* Any other result is an error as well.
FailRun(r) == EndRun(r, AfterFailure(jobs[running[r]]))

\* CancelledError is no Exception: the job keeps its state, the attempt counts.
CancelRun(r) ==
    /\ running[r] # NoJob /\ cancels < MaxCancels
    /\ running' = [running EXCEPT ![r] = NoJob]
    /\ cancels' = cancels + 1
    /\ UNCHANGED <<queue, expired, saved, fresh, restarts, overlapped>>

\* snapshot()
TakeSnapshot ==
    /\ saved' = jobs
    /\ UNCHANGED <<queue, running, expired, fresh, cancels, restarts, overlapped>>

\* The process ends, with the runs that were under way; a new worker is empty.
Restart ==
    /\ restarts < MaxRestarts
    /\ jobs' = Empty
    /\ dedupe' = [d \in DedupeKeys |-> NoJob]
    /\ nonces' = [n \in Nonces |-> NoJob]
    /\ running' = [r \in Runners |-> NoJob]
    /\ fresh' = TRUE
    /\ restarts' = restarts + 1
    /\ overlapped' = {}
    /\ UNCHANGED <<expired, saved, cancels>>

\* Mutant: a restored job is in no index.
Holder_None(es) == NoJob

\* The entry of an index for the jobs that share its key: restore() refuses two.
Holder(es) == IF es = {} THEN NoJob ELSE CHOOSE e \in es : TRUE

\* restore() of the kept snapshot: every entry is verified, the terminal ones
\* too, and one that is refused rejects the snapshot.  The rest is skipped or
\* comes back, with both indexes.
RestoreJobs ==
    LET taken == {e \in Envelopes : saved[e] # NoJob}
        back  == {e \in taken : saved[e].state \notin Terminal}
    IN /\ fresh
       /\ \A e \in taken : Verified(e)
       /\ jobs' = [e \in Envelopes |-> IF e \in back THEN saved[e] ELSE NoJob]
       /\ dedupe' = [d \in DedupeKeys |-> Holder({e \in back : saved[e].key = d})]
       /\ nonces' = [n \in Nonces |-> Holder({e \in back : Nonce[e] = n})]
       /\ fresh' = FALSE
       /\ UNCHANGED <<running, expired, saved, cancels, restarts, overlapped>>

\* A snapshot that is refused leaves the worker empty.
RejectSnapshot ==
    /\ fresh
    /\ \E e \in Envelopes : saved[e] # NoJob /\ ~Verified(e)
    /\ fresh' = FALSE
    /\ UNCHANGED <<queue, running, expired, saved, cancels, restarts, overlapped>>

Run(r) ==
    \/ \E e \in Envelopes : StartRun(r, e)
    \/ \E result \in {"ready", "stale"} : FinishRun(r, result)
    \/ FailRun(r)

WorkerNext ==
    \/ \E e \in Envelopes : Expire(e)
    \/ \E q \in Requests : Enqueue(q)
    \/ \E r \in Runners : Run(r) \/ CancelRun(r)
    \/ TakeSnapshot \/ Restart \/ RestoreJobs \/ RejectSnapshot

WorkerSpec == WorkerInit /\ [][WorkerNext]_worker

------------------------------------------------------------------------------
(* Properties *)

\* Work is queued once: two jobs never share a dedupe key or a nonce, also not
\* when the first came back from a snapshot (enqueue, restore).
OneJobPerKey ==
    \A e, f \in Envelopes :
        /\ jobs[e] # NoJob /\ jobs[f] # NoJob
        /\ jobs[e].key = jobs[f].key \/ Nonce[e] = Nonce[f]
        => e = f

\* An outcome is final unless runs overlapped: a job that is ready, stale or a
\* dead letter changes while the worker knows it only where run_one was called
\* for it while another run of it was under way.  Such a run writes its own
\* result over the first one when it ends, and its failure makes a delivered
\* job one that is tried again (run_one checks the state before the handler
\* only).
OnlyOverlapsRevise ==
    [][\A e \in Envelopes :
         jobs[e] # NoJob /\ jobs[e].state \in Terminal /\ jobs'[e] # NoJob
           => jobs'[e] = jobs[e] \/ e \in overlapped]_worker

\* A job is given up only once its retry budget is spent, and only interrupted
\* runs exceed it, each by one attempt: a run that was cancelled, or that a
\* snapshot had counted when the process ended, and the other runs of the job
\* that were under way at its last attempt.  Every other attempt past the budget
\* makes the job a dead letter (the except clause of run_one, restore).
RetryBudget ==
    /\ WorkerTypeOK
    /\ \A e \in Envelopes : jobs[e] # NoJob =>
         /\ jobs[e].attempts < MaxAttempts + cancels + Cardinality(Runners) * (restarts + 1)
         /\ jobs[e].state = "dead_letter" => jobs[e].attempts >= MaxAttempts

------------------------------------------------------------------------------
(* The inductive invariant behind the safety properties *)

\* Both indexes lead to every job, so that none is queued twice.
IndexOK ==
    \A e \in Envelopes : jobs[e] # NoJob =>
        dedupe[jobs[e].key] = e /\ nonces[Nonce[e]] = e

\* The jobs of a snapshot were queued together.
SnapshotApart ==
    \A e, f \in Envelopes :
        /\ saved[e] # NoJob /\ saved[f] # NoJob
        /\ saved[e].key = saved[f].key \/ Nonce[e] = Nonce[f]
        => e = f

\* A run belongs to a job; a worker that has just started has neither.
RunsOK ==
    /\ \A r \in Runners : running[r] # NoJob => jobs[running[r]] # NoJob
    /\ fresh => jobs = Empty /\ running = [r \in Runners |-> NoJob]

\* What a cancelled run, or those that a restart interrupted, may have added
Lost == MaxAttempts + cancels + Cardinality(Runners) * restarts

\* A job that can still be tried has used up less than its budget and what was
\* lost, not counting the runs under way.
BudgetOK ==
    \A e \in Envelopes : jobs[e] # NoJob =>
        /\ jobs[e].attempts < Lost + Cardinality(Runners)
        /\ jobs[e].state \notin Terminal => jobs[e].attempts < Lost + Cardinality(Active(e))
        /\ jobs[e].state = "dead_letter" => jobs[e].attempts >= MaxAttempts

\* A snapshot has counted the runs that were under way; it comes back only after
\* a restart.
SnapshotBudget ==
    \A e \in Envelopes : saved[e] # NoJob =>
        IF fresh THEN saved[e].attempts < Lost
        ELSE saved[e].attempts < Lost + Cardinality(Runners)

WorkerInv ==
    /\ WorkerTypeOK
    /\ IndexOK
    /\ SnapshotApart
    /\ RunsOK
    /\ BudgetOK
    /\ SnapshotBudget

\* A run of a job that was never run beside another is alone, and the job has
\* no outcome yet.
RunsUnsettled ==
    \A r \in Runners : running[r] # NoJob /\ running[r] \notin overlapped =>
        /\ jobs[running[r]].state \notin Terminal
        /\ \A s \in Runners : running[s] = running[r] => s = r
==============================================================================
