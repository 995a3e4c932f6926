------------------------------ MODULE JobOutbox ------------------------------
(***************************************************************************)
(* JobHandle.with_session and DBAdapter.enlist: a job tied to the          *)
(* transaction of its caller, composed with the job queue that runs it.    *)
(*                                                                         *)
(* perform_later has already committed the row as ENQUEUED, in a session   *)
(* of its own.  enlist loads it into the caller's session, sets PENDING in *)
(* memory and registers two listeners on the session, each to fire once:   *)
(* after_commit promotes the row, after_rollback deletes it.  A session    *)
(* that is closed without either runs neither.  The UPDATE is sent when    *)
(* the caller's session flushes, and locks the row until its transaction   *)
(* ends.                                                                   *)
(***************************************************************************)
EXTENDS JobQueue

CONSTANTS
  Tied, \* jobs whose callers use with_session
  Home  \* Home[j]: the process of the caller of j

ASSUME JobOutboxAssumption == Tied \subseteq Jobs /\ Home \in [Jobs -> Procs]

VARIABLE caller \* caller[j]: how far the session that enlists j has come

ovars == <<vars, caller>>

\* Uncommitted: it may still commit or roll back.  Deciding: its transaction
\* is over and a listener is at work.  Orphaned: the process was killed before the
\* listener had promoted the row.
Uncommitted == {"enlisted", "flushed"}
Deciding    == {"committed", "promoting", "discarding"}
Open        == {"enqueued", "kept"} \cup Uncommitted \cup Deciding
Caller      == {"away", "unlisted", "gone", "closed", "orphaned"} \cup Open

\* The types of the job queue, and one for caller.
OutboxTypeOK == TypeOK /\ caller \in [Jobs -> Caller]

OutboxInit == Init /\ caller = [j \in Jobs |-> "away"]

Moves(j, from, to) == caller[j] = from /\ caller' = [caller EXCEPT ![j] = to]

(***************************************************************************)
(* The caller's session.                                                   *)
(***************************************************************************)

PerformLater(j) ==
  Moves(j, "away", IF j \in Tied THEN "enqueued" ELSE "unlisted") /\ Enqueue(j)

\* enlist: a row that is gone by now gets no listener.
Enlist(j) ==
  /\ Moves(j, "enqueued", IF Exists(j) THEN "enlisted" ELSE "unlisted")
  /\ UNCHANGED vars

\* The UPDATE waits for a poll that has the row locked.  When the row is gone
\* StaleDataError rolls the caller's transaction back.
Flush(j) ==
  /\ ~Locked(j)
  /\ Moves(j, "enlisted", IF Exists(j) THEN "flushed" ELSE "discarding")
  /\ UNCHANGED vars

\* A session writes column status by primary key, whatever the row has become.
\* scheduled_at has passed unless the row still waited for it.
Write(j, s) ==
  /\ status' = [status EXCEPT ![j] = s]
  /\ timer' = [timer EXCEPT ![j] = @ \/ status[j] \notin Pollable \cup {"pending"}]
  /\ UNCHANGED <<attempts, phase, batch, spent, backlog, task, stopping, runs,
                 slips, crashes>>

CommitCaller(j) == Moves(j, "flushed", "committed") /\ Write(j, "pending")

\* A rollback of the transaction, or of a later one of the same session: the
\* listener for it is still registered after the commit.
RollBack(j) ==
  /\ caller[j] \in Uncommitted \cup {"kept"}
  /\ caller' = [caller EXCEPT ![j] = "discarding"]
  /\ UNCHANGED vars

\* The session is closed.
CloseSession(j) ==
  /\ caller[j] \in Uncommitted \cup {"kept"}
  /\ caller' = [caller EXCEPT ![j] = "closed"]
  /\ UNCHANGED vars

(***************************************************************************)
(* The listeners, each in a session of its own.                            *)
(***************************************************************************)

\* Mutant of PromoteRead: _promote looks for rows that are not PENDING.
PromoteReadInverted(j) ==
  /\ Moves(j, "committed", IF status[j] # "pending" THEN "promoting" ELSE "kept")
  /\ UNCHANGED vars

\* _promote reads the row ...
PromoteRead(j) ==
  /\ Moves(j, "committed", IF status[j] = "pending" THEN "promoting" ELSE "kept")
  /\ UNCHANGED vars

\* ... and writes it, unless it is gone.
PromoteWrite(j) ==
  /\ ~Locked(j)
  /\ Moves(j, "promoting", "kept")
  /\ IF Exists(j) THEN Write(j, "enqueued") ELSE UNCHANGED vars

\* _discard deletes the row whatever its status.
Discard(j) ==
  /\ ~Locked(j)
  /\ Moves(j, "discarding", "gone")
  /\ status' = [status EXCEPT ![j] = "deleted"]
  /\ UNCHANGED <<attempts, timer, phase, batch, spent, backlog, task, stopping,
                 runs, slips, crashes>>

(***************************************************************************)
(* The job queue around it: it skips, or waits for, rows that a caller's   *)
(* session has written and not committed.                                  *)
(***************************************************************************)

Pinned == {j \in Jobs : caller[j] = "flushed"}

Poll(p)  == PollFrom(p, Eligible \ Pinned)
Sweep(p) == batch[p] \cap Pinned = {} /\ SweepCommit(p)

Finish(p, t, outcome) ==
  /\ task[p][t] # Idle /\ task[p][t].job \notin Pinned
  /\ RunFinish(p, t, outcome)

\* The server lets requests end before the adapter is stopped.
RestartDrained(p) ==
  /\ \A j \in Jobs : Home[j] = p => caller[j] \notin Open
  /\ Restart(p)

QueueStep ==
  \/ \E j \in Jobs : TimerPasses(j)
  \/ \E p \in Procs :
       \/ Poll(p) \/ PollCommit(p) \/ Dispatch(p) \/ SweepSelect(p) \/ Sweep(p)
       \/ Stop(p) \/ RestartDrained(p)
       \/ \E t \in Threads, j \in Jobs : RunStart(p, t, j)
       \/ \E t \in Threads, o \in Outcomes : Finish(p, t, o)

\* What a kill makes of a session: a listener that promotes is cut short.
Killed(c) ==
  IF c \in {"committed", "promoting"} THEN "orphaned"
  ELSE IF c \in Open THEN "closed" ELSE c

\* A process that is killed takes its callers' sessions with it.
CrashWithCallers(p) ==
  /\ Crash(p)
  /\ caller' = [j \in Jobs |-> IF Home[j] = p THEN Killed(caller[j]) ELSE caller[j]]

OutboxNext ==
  \/ \E j \in Jobs :
       \/ PerformLater(j) \/ Enlist(j) \/ Flush(j) \/ CommitCaller(j)
       \/ RollBack(j) \/ CloseSession(j)
       \/ PromoteRead(j) \/ PromoteWrite(j) \/ Discard(j)
  \/ QueueStep /\ UNCHANGED caller
  \/ \E p \in Procs : CrashWithCallers(p)

OutboxSpec == OutboxInit /\ [][OutboxNext]_ovars

(***************************************************************************)
(* Fairness.  The two ticks recur for ever, a thread that holds a session  *)
(* commits it, the pool's queue is first in first out, every job.execute   *)
(* returns, and a process being stopped is started again.  Ticks and pool  *)
(* need strong fairness: a stop, the other tick or a busy thread disables  *)
(* them now and then.  A caller enlists what it enqueued and ends its      *)
(* session, and the listeners run.  Nobody needs to enqueue, operators     *)
(* and crashes promise nothing.                                            *)
(***************************************************************************)
CallerGoesOn(j) ==
  \/ Enlist(j) \/ CommitCaller(j) \/ RollBack(j) \/ CloseSession(j)
  \/ PromoteRead(j) \/ PromoteWrite(j) \/ Discard(j)

TickGoesOn(p) == (PollCommit(p) \/ Dispatch(p) \/ Sweep(p)) /\ UNCHANGED caller

OutboxFairness ==
  /\ \A j \in Jobs :
       WF_ovars(TimerPasses(j) /\ UNCHANGED caller) /\ WF_ovars(CallerGoesOn(j))
  /\ \A p \in Procs :
       /\ SF_ovars(Poll(p) /\ UNCHANGED caller)
       /\ SF_ovars(SweepSelect(p) /\ UNCHANGED caller)
       /\ WF_ovars(TickGoesOn(p))
       /\ WF_ovars(RestartDrained(p) /\ UNCHANGED caller)
       /\ \A j \in Jobs : SF_ovars((\E t \in Threads : RunStart(p, t, j)) /\ UNCHANGED caller)
       /\ \A t \in Threads :
            WF_ovars((\E o \in Outcomes : Finish(p, t, o)) /\ UNCHANGED caller)

(***************************************************************************)
(* Properties.                                                             *)
(***************************************************************************)

\* A PENDING row, which no poll and no sweep looks for, is about to be promoted,
\* or its process was killed at just that point: no order of the caller's commit,
\* the poll, a worker and a rollback leaves one behind.
PendingIsOwned ==
  \A j \in Jobs : status[j] = "pending" => caller[j] \in {"committed", "promoting", "orphaned"}

\* Once the rollback has been answered no worker begins to execute the job, not
\* even one that was handed the row before.
RollbackIsRespected ==
  [][\A j \in Jobs : caller[j] = "gone" => runs'[j] = runs[j]]_ovars

\* A job that perform_later stored, tied to a transaction or not, is executed to
\* an outcome or discarded by its caller, however slow it is, whatever becomes of the
\* rows polled together with it and whatever is killed.  Left out is only the row
\* that stays PENDING because its own process was killed between the caller's
\* commit and the promotion, which nobody makes up for.
CommittedJobsSettle ==
  \A j \in Served \ Broken :
    status[j] # "absent"
      ~> status[j] \in Terminal \/ (caller[j] = "orphaned" /\ status[j] = "pending")
================================================================================
