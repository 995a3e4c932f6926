------------------------------- MODULE JobQueue -------------------------------
(***************************************************************************)
(* The database-backed job queue of lib/jobs/adapters/db_adapter.py.       *)
(*                                                                         *)
(* Every application process owns one DBAdapter: a scheduler thread, which *)
(* runs the poll and the sweep one after the other, and a pool of worker   *)
(* threads with an unbounded queue in front of it.  The processes share    *)
(* nothing but the job table, so every database transaction is one step    *)
(* here, or two when it reads rows it does not lock.                       *)
(*                                                                         *)
(* Time is abstracted to one bit per row.  timer[j] becomes TRUE when the  *)
(* instant the row waits for has passed: scheduled_at while the row is to  *)
(* be polled, started_at + STALE_RUNNING_TIMEOUT while it is RUNNING.      *)
(***************************************************************************)
EXTENDS Naturals, FiniteSets

CONSTANTS
  Jobs,        \* rows of the job table, one per perform_later call
  Procs,       \* application processes, each with its own DBAdapter
  Threads,     \* worker threads of one adapter; `workers` is their number
  MaxAttempts, \* max_attempts of every row
  Priority,    \* Priority[j]: the priority column
  Served,      \* rows whose queue the adapters poll
  Kept,        \* rows of classes with discard_on_success = False
  Broken,      \* rows whose class no longer resolves, or whose migrate raises
  SkipLocked,  \* the database supports FOR UPDATE SKIP LOCKED
  MaxSlips,    \* bound: how often work in progress outlasts its row's timer
  MaxCrashes,  \* bound: how many times a process is killed
  Idle         \* what a free worker thread executes

ASSUME JobQueueAssumption ==
  /\ IsFiniteSet(Jobs) /\ IsFiniteSet(Threads)
  /\ MaxAttempts \in Nat \ {0}
  /\ Priority \in [Jobs -> Nat]
  /\ Served \subseteq Jobs /\ Kept \subseteq Jobs /\ Broken \subseteq Jobs
  /\ SkipLocked \in BOOLEAN
  /\ MaxSlips \in Nat /\ MaxCrashes \in Nat

VARIABLES
  status,    \* status[j]: the status column, or whether the row exists at all
  attempts,  \* attempts[j]: the attempts column
  timer,     \* timer[j]: the instant the row waits for has passed
  phase,     \* phase[p]: where the scheduler thread of p is
  batch,     \* batch[p]: the rows that thread read and works on
  spent,     \* spent[p]: those of a sweep that had no attempt left when read
  backlog,   \* backlog[p][j]: how often j waits in the queue of p's pool
  task,      \* task[p][t]: the row thread t executes, as it was loaded
  stopping,  \* stopping[p]: p is being shut down gracefully
  runs,      \* history: how often job.execute was entered for j
  slips,     \* history: how often MaxSlips was drawn on
  crashes    \* history: how many processes were killed

table  == <<status, attempts, timer>>
vars   == <<status, attempts, timer, phase, batch, spent, backlog, task,
            stopping, runs, slips, crashes>>

\* Defective variants of the poll's status list, for the mutants of the checks.
PollableFailed   == {"enqueued", "retrying", "failed"}
PollableEnqueued == {"enqueued"}

Pollable  == {"enqueued", "retrying"}
Terminal  == {"done", "failed", "deleted"}
\* PENDING is left to enlist, in JobOutbox.
Status    == {"absent", "pending", "running"} \cup Pollable \cup Terminal
Phase     == {"idle", "selected", "claimed", "swept"}
Loaded    == [job : Jobs, status : Status, attempts : Nat]

ASSUME IdleAssumption == Idle \notin Loaded

\* A type for every variable; the columns of enums.py and models/job.py.
TypeOK ==
  /\ status \in [Jobs -> Status]
  /\ attempts \in [Jobs -> Nat]
  /\ timer \in [Jobs -> BOOLEAN]
  /\ phase \in [Procs -> Phase]
  /\ batch \in [Procs -> SUBSET Jobs]
  /\ spent \in [Procs -> SUBSET Jobs]
  /\ backlog \in [Procs -> [Jobs -> Nat]]
  /\ task \in [Procs -> [Threads -> Loaded \cup {Idle}]]
  /\ stopping \in [Procs -> BOOLEAN]
  /\ runs \in [Jobs -> Nat]
  /\ slips \in Nat /\ crashes \in Nat

Exists(j) == status[j] \notin {"absent", "deleted"}

\* Mutant of Locked: the poll forgets with_for_update.
LockedNever(j) == FALSE

\* j's row lock is held by a poll between its SELECT FOR UPDATE and its commit.
Locked(j) == SkipLocked /\ \E p \in Procs : phase[p] = "selected" /\ j \in batch[p]

Executes(p, t, j) == task[p][t] # Idle /\ task[p][t].job = j

\* Process p was handed j: it claimed the row, queued it or executes it.
Holds(p, j) ==
  \/ phase[p] = "claimed" /\ j \in batch[p]
  \/ backlog[p][j] > 0
  \/ \E t \in Threads : Executes(p, t, j)

InFlight(j) == \E p \in Procs : Holds(p, j) \/ (phase[p] # "idle" /\ j \in batch[p])

Init ==
  /\ status = [j \in Jobs |-> "absent"]
  /\ attempts = [j \in Jobs |-> 0]
  /\ timer = [j \in Jobs |-> FALSE]
  /\ phase = [p \in Procs |-> "idle"]
  /\ batch = [p \in Procs |-> {}]
  /\ spent = [p \in Procs |-> {}]
  /\ backlog = [p \in Procs |-> [j \in Jobs |-> 0]]
  /\ task = [p \in Procs |-> [t \in Threads |-> Idle]]
  /\ stopping = [p \in Procs |-> FALSE]
  /\ runs = [j \in Jobs |-> 0]
  /\ slips = 0 /\ crashes = 0

(***************************************************************************)
(* The callers and the clock.                                              *)
(***************************************************************************)

\* enqueue: the row is inserted and committed in a session of its own.
Enqueue(j) ==
  /\ status[j] = "absent"
  /\ status' = [status EXCEPT ![j] = "enqueued"]
  /\ UNCHANGED <<attempts, timer, phase, batch, spent, backlog, task, stopping,
                 runs, slips, crashes>>

\* The clock passes scheduled_at, or started_at + 30 minutes.  That it does so
\* while the row's work is still under way costs one of MaxSlips.
TimerPasses(j) ==
  /\ status[j] \in Pollable \cup {"running"}
  /\ ~timer[j]
  /\ IF InFlight(j) THEN slips < MaxSlips /\ slips' = slips + 1
                    ELSE slips' = slips
  /\ timer' = [timer EXCEPT ![j] = TRUE]
  /\ UNCHANGED <<status, attempts, phase, batch, spent, backlog, task, stopping,
                 runs, crashes>>

(***************************************************************************)
(* The scheduler thread: poll.                                             *)
(***************************************************************************)

Eligible == {j \in Served : status[j] \in Pollable /\ timer[j] /\ ~Locked(j)}

\* S is what ORDER BY priority DESC LIMIT workers leaves of the rows E.
IsPage(S, E) ==
  /\ S \subseteq E
  /\ Cardinality(S) <= Cardinality(Threads)
  /\ S = E \/ Cardinality(S) = Cardinality(Threads)
  /\ \A j \in S, k \in E \ S : Priority[j] >= Priority[k]

PollFrom(p, E) ==
  /\ phase[p] = "idle" /\ ~stopping[p]
  /\ \E S \in SUBSET E :
       /\ S # {} /\ IsPage(S, E)
       /\ batch' = [batch EXCEPT ![p] = S]
  /\ phase' = [phase EXCEPT ![p] = "selected"]
  /\ UNCHANGED <<status, attempts, timer, spent, backlog, task, stopping, runs,
                 slips, crashes>>

PollSelect(p) == PollFrom(p, Eligible)

\* The selected rows become RUNNING, with started_at = now.  Nothing can have
\* deleted them where the lock is real; elsewhere the UPDATE finds no row, and
\* StaleDataError undoes the transaction.
PollCommit(p) ==
  /\ phase[p] = "selected"
  /\ IF \A j \in batch[p] : Exists(j)
     THEN /\ status' = [j \in Jobs |-> IF j \in batch[p] THEN "running" ELSE status[j]]
          /\ timer' = [j \in Jobs |-> IF j \in batch[p] THEN FALSE ELSE timer[j]]
          /\ phase' = [phase EXCEPT ![p] = "claimed"]
          /\ UNCHANGED batch
     ELSE /\ phase' = [phase EXCEPT ![p] = "idle"]
          /\ batch' = [batch EXCEPT ![p] = {}]
          /\ UNCHANGED <<status, timer>>
  /\ UNCHANGED <<attempts, spent, backlog, task, stopping, runs, slips, crashes>>

\* The commit expired the loaded rows, so reading r.id loads each again: when
\* one is gone ObjectDeletedError ends the poll with nothing submitted.
Dispatch(p) ==
  /\ phase[p] = "claimed"
  /\ backlog' = [backlog EXCEPT ![p] =
       IF \A j \in batch[p] : Exists(j)
       THEN [j \in Jobs |-> IF j \in batch[p] THEN @[j] + 1 ELSE @[j]]
       ELSE @]
  /\ phase' = [phase EXCEPT ![p] = "idle"]
  /\ batch' = [batch EXCEPT ![p] = {}]
  /\ UNCHANGED <<status, attempts, timer, spent, task, stopping, runs, slips, crashes>>

(***************************************************************************)
(* The scheduler thread: sweep.                                            *)
(***************************************************************************)

\* The stale rows are read without a lock.
SweepSelect(p) ==
  /\ phase[p] = "idle" /\ ~stopping[p]
  /\ LET found == {j \in Jobs : status[j] = "running" /\ timer[j]}
     IN /\ found # {}
        /\ batch' = [batch EXCEPT ![p] = found]
        /\ spent' = [spent EXCEPT ![p] = {j \in found : attempts[j] >= MaxAttempts}]
  /\ phase' = [phase EXCEPT ![p] = "swept"]
  /\ UNCHANGED <<status, attempts, timer, backlog, task, stopping, runs, slips, crashes>>

\* ... and written by primary key, whatever became of them in between.  The
\* UPDATE waits for row locks, and one vanished row rolls the whole sweep back.
SweepCommit(p) ==
  /\ phase[p] = "swept"
  /\ \A j \in batch[p] : ~Locked(j)
  /\ IF \A j \in batch[p] : Exists(j)
     THEN /\ status' = [j \in Jobs |->
                          IF j \in spent[p] THEN "failed"
                          ELSE IF j \in batch[p] THEN "retrying" ELSE status[j]]
          /\ timer' = [j \in Jobs |-> IF j \in batch[p] THEN FALSE ELSE timer[j]]
     ELSE UNCHANGED <<status, timer>>
  /\ phase' = [phase EXCEPT ![p] = "idle"]
  /\ batch' = [batch EXCEPT ![p] = {}]
  /\ spent' = [spent EXCEPT ![p] = {}]
  /\ UNCHANGED <<attempts, backlog, task, stopping, runs, slips, crashes>>

(***************************************************************************)
(* The worker threads: _run_job.                                           *)
(***************************************************************************)

\* Mutant of RunStart: the row is not looked up again.
RunStartBlind(p, t, j) ==
  /\ task[p][t] = Idle /\ backlog[p][j] > 0
  /\ backlog' = [backlog EXCEPT ![p][j] = @ - 1]
  /\ task' = [task EXCEPT ![p][t] =
                 [job |-> j, status |-> status[j], attempts |-> attempts[j]]]
  /\ runs' = [runs EXCEPT ![j] = @ + 1]
  /\ UNCHANGED <<status, attempts, timer, phase, batch, spent, stopping, slips, crashes>>

\* A free thread takes j off the queue and loads its row.  No status is
\* checked.  A missing row, a class that does not resolve and a migrate that
\* raises end the call with nothing written.
RunStart(p, t, j) ==
  /\ task[p][t] = Idle /\ backlog[p][j] > 0
  /\ backlog' = [backlog EXCEPT ![p][j] = @ - 1]
  /\ IF Exists(j) /\ j \notin Broken
     THEN /\ task' = [task EXCEPT ![p][t] =
                        [job |-> j, status |-> status[j], attempts |-> attempts[j]]]
          /\ runs' = [runs EXCEPT ![j] = @ + 1]
     ELSE UNCHANGED <<task, runs>>
  /\ UNCHANGED <<status, attempts, timer, phase, batch, spent, stopping, slips, crashes>>

Outcomes == {"succeeds", "raises", "raises_ineligible"}

\* Mutants of Verdict: one attempt too many; a retry with a status nothing knows.
VerdictLate(r, outcome) ==
  CASE outcome = "succeeds" -> IF r.job \in Kept THEN "done" ELSE "deleted"
    [] outcome = "raises_ineligible" -> "failed"
    [] outcome = "raises" ->
         IF r.attempts >= MaxAttempts THEN "failed" ELSE "retrying"

VerdictQueued(r, outcome) ==
  CASE outcome = "succeeds" -> IF r.job \in Kept THEN "done" ELSE "deleted"
    [] outcome = "raises_ineligible" -> "failed"
    [] outcome = "raises" ->
         IF r.attempts + 1 >= MaxAttempts THEN "failed" ELSE "queued"

\* The status _run_job gives a row that was loaded as r.
Verdict(r, outcome) ==
  CASE outcome = "succeeds" -> IF r.job \in Kept THEN "done" ELSE "deleted"
    [] outcome = "raises_ineligible" -> "failed"
    [] outcome = "raises" ->
         IF r.attempts + 1 >= MaxAttempts THEN "failed" ELSE "retrying"

\* job.execute ends and the row is written: a status equal to the loaded one
\* is no change to the session and is not written, attempts always is.  A row
\* that is gone is not written at all.
RunFinish(p, t, outcome) ==
  /\ task[p][t] # Idle
  /\ LET r == task[p][t]
         j == r.job
         verdict == Verdict(r, outcome)
     IN /\ ~Locked(j)
        /\ IF ~Exists(j) THEN UNCHANGED table
           ELSE /\ attempts' = [attempts EXCEPT ![j] = r.attempts + 1]
                /\ status' = [status EXCEPT ![j] =
                                IF verdict = r.status THEN @ ELSE verdict]
                /\ timer' = [timer EXCEPT ![j] =
                               /\ @ /\ verdict = r.status
                               /\ verdict = "retrying" => status[j] = "running"]
  /\ task' = [task EXCEPT ![p][t] = Idle]
  /\ UNCHANGED <<phase, batch, spent, backlog, stopping, runs, slips, crashes>>

(***************************************************************************)
(* Shutdown and failure of a process.                                      *)
(***************************************************************************)

\* stop: no tick begins any more; the running tick, then the pool, finish.
Stop(p) ==
  /\ ~stopping[p]
  /\ stopping' = [stopping EXCEPT ![p] = TRUE]
  /\ UNCHANGED <<status, attempts, timer, phase, batch, spent, backlog, task,
                 runs, slips, crashes>>

\* A process comes up with a new adapter, which remembers nothing.
NewAdapter(p) ==
  /\ phase' = [phase EXCEPT ![p] = "idle"]
  /\ batch' = [batch EXCEPT ![p] = {}]
  /\ spent' = [spent EXCEPT ![p] = {}]
  /\ backlog' = [backlog EXCEPT ![p] = [j \in Jobs |-> 0]]
  /\ task' = [task EXCEPT ![p] = [t \in Threads |-> Idle]]
  /\ stopping' = [stopping EXCEPT ![p] = FALSE]

\* Mutant of Drained: executor.shutdown does not wait for the pool.
DrainedTicks(p) == phase[p] = "idle"

\* Both shutdown(wait=True) calls of stop have returned.
Drained(p) ==
  /\ phase[p] = "idle"
  /\ \A j \in Jobs : backlog[p][j] = 0
  /\ \A t \in Threads : task[p][t] = Idle

Restart(p) ==
  /\ stopping[p] /\ Drained(p)
  /\ NewAdapter(p)
  /\ UNCHANGED <<status, attempts, timer, runs, slips, crashes>>

\* The process is killed: its open transactions roll back, its locks go.
Crash(p) ==
  /\ crashes < MaxCrashes
  /\ crashes' = crashes + 1
  /\ NewAdapter(p)
  /\ UNCHANGED <<status, attempts, timer, runs, slips>>

Next ==
  \/ \E j \in Jobs : Enqueue(j) \/ TimerPasses(j)
  \/ \E p \in Procs :
       \/ PollSelect(p) \/ PollCommit(p) \/ Dispatch(p)
       \/ SweepSelect(p) \/ SweepCommit(p)
       \/ Stop(p) \/ Restart(p) \/ Crash(p)
       \/ \E t \in Threads, j \in Jobs : RunStart(p, t, j)
       \/ \E t \in Threads, o \in Outcomes : RunFinish(p, t, o)

Spec == Init /\ [][Next]_vars

(***************************************************************************)
(* Properties.                                                             *)
(***************************************************************************)

\* "two workers can never receive the same job even under full concurrency"
\* (_poll_and_dispatch): no two threads of the deployment execute one row.
OneWorkerPerJob ==
  \A j \in Jobs, p, q \in Procs, t, u \in Threads :
    Executes(p, t, j) /\ Executes(q, u, j) => p = q /\ t = u

\* What a poll selected stays selectable and its own until its commit, so the
\* claim never takes a row that a sweep, a worker or another poll has moved.
SelectionHolds ==
  \A p, q \in Procs :
    phase[p] = "selected" =>
      \A j \in batch[p] :
        /\ status[j] \in Pollable
        /\ phase[q] = "selected" /\ j \in batch[q] => p = q

\* The outcome of a job is final: no sweep, poll or worker that read the row
\* earlier changes a row that is done, failed or discarded.
OutcomeIsFinal ==
  [][\A j \in Jobs : status[j] \in Terminal => status'[j] = status[j]]_vars

\* Until a process is killed, whatever stops and restarts there are, a RUNNING
\* row is in the hands of a live process: a graceful stop strands no work.
\* (Rows that cannot be resolved are dropped by _run_job and left RUNNING.)
NothingStranded ==
  crashes = 0 =>
    \A j \in Jobs \ Broken :
      status[j] = "running" => \E p \in Procs : Holds(p, j)

\* attempts never exceeds max_attempts, counts no execution that did not
\* happen, and misses only the one under way and those a crash cut short.
AttemptsLedger ==
  \A j \in Jobs :
    LET busy == \E p \in Procs, t \in Threads : Executes(p, t, j)
    IN /\ attempts[j] <= MaxAttempts
       /\ attempts[j] <= runs[j]
       /\ runs[j] <= attempts[j] + crashes + (IF busy THEN 1 ELSE 0)
===============================================================================
