---------------------------- MODULE JobQueueProofs ----------------------------
(***************************************************************************)
(* Proofs about JobQueue, and about JobOutbox which composes it with the   *)
(* callers of its jobs, for every number of processes, threads, rows,      *)
(* callers, attempts and crashes.                                          *)
(***************************************************************************)
EXTENDS JobQueueRefinement, JobOutbox, TLAPS

-------------------------------------------------------------------------------
(***************************************************************************)
(* Type correctness.                                                       *)
(***************************************************************************)

\* The status _run_job decides on is one of the statuses it writes.
LEMMA VerdictType ==
  ASSUME NEW r \in Loaded, NEW o \in Outcomes
  PROVE  Verdict(r, o) \in Terminal \cup {"retrying"}
BY DEF Verdict, Outcomes, Terminal

LEMMA InitType == Init => TypeOK
BY DEF Init, TypeOK, Status, Phase

LEMMA NextType == TypeOK /\ [Next]_vars => TypeOK'
<1> SUFFICES ASSUME TypeOK, [Next]_vars PROVE TypeOK'
    OBVIOUS
<1> USE DEF TypeOK, Status, Phase, Pollable, Terminal
<1>1. ASSUME NEW j \in Jobs, Enqueue(j) PROVE TypeOK'
    BY <1>1 DEF Enqueue
<1>2. ASSUME NEW j \in Jobs, TimerPasses(j) PROVE TypeOK'
    BY <1>2 DEF TimerPasses
<1>3. ASSUME NEW p \in Procs, PollSelect(p) PROVE TypeOK'
    <2>1. Eligible \subseteq Jobs
      BY JobQueueAssumption DEF Eligible
    <2> QED BY <1>3, <2>1 DEF PollSelect, PollFrom
<1>4. ASSUME NEW p \in Procs, PollCommit(p) PROVE TypeOK'
    <2>1. CASE \A j \in batch[p] : Exists(j)
      <3>1. /\ status' = [j \in Jobs |-> IF j \in batch[p] THEN "running" ELSE status[j]]
            /\ timer' = [j \in Jobs |-> IF j \in batch[p] THEN FALSE ELSE timer[j]]
        BY <1>4, <2>1 DEF PollCommit
      <3>2. status' \in [Jobs -> Status]
        BY <3>1
      <3>3. timer' \in [Jobs -> BOOLEAN]
        BY <3>1, Zenon
      <3> QED BY <1>4, <2>1, <3>2, <3>3 DEF PollCommit
    <2>2. CASE ~ \A j \in batch[p] : Exists(j)
      BY <1>4, <2>2 DEF PollCommit
    <2> QED BY <2>1, <2>2
<1>5. ASSUME NEW p \in Procs, Dispatch(p) PROVE TypeOK'
    BY <1>5 DEF Dispatch
<1>6. ASSUME NEW p \in Procs, SweepSelect(p) PROVE TypeOK'
    BY <1>6 DEF SweepSelect
<1>7. ASSUME NEW p \in Procs, SweepCommit(p) PROVE TypeOK'
    BY <1>7 DEF SweepCommit
<1>8. ASSUME NEW p \in Procs, NewAdapter(p), UNCHANGED <<status, attempts, timer, runs, slips>>,
             crashes' \in Nat
      PROVE  TypeOK'
    <2>1. backlog' \in [Procs -> [Jobs -> Nat]]
      <3>1. [j \in Jobs |-> 0] \in [Jobs -> Nat]
        OBVIOUS
      <3> QED BY <1>8, <3>1 DEF NewAdapter
    <2>2. task' \in [Procs -> [Threads -> Loaded \cup {Idle}]]
      <3>1. [t \in Threads |-> Idle] \in [Threads -> Loaded \cup {Idle}]
        OBVIOUS
      <3> QED BY <1>8, <3>1 DEF NewAdapter
    <2> QED BY <1>8, <2>1, <2>2 DEF NewAdapter
<1>9. ASSUME NEW p \in Procs, Stop(p) \/ Restart(p) \/ Crash(p) PROVE TypeOK'
    <2>1. CASE Stop(p)
      BY <2>1 DEF Stop
    <2>2. CASE Restart(p)
      BY <1>8, <2>2 DEF Restart
    <2>3. CASE Crash(p)
      BY <1>8, <2>3 DEF Crash
    <2> QED BY <1>9, <2>1, <2>2, <2>3
<1>10. ASSUME NEW p \in Procs, NEW t \in Threads, NEW j \in Jobs, RunStart(p, t, j)
       PROVE  TypeOK'
    <2>1. backlog' \in [Procs -> [Jobs -> Nat]]
      <3>1. backlog[p] \in [Jobs -> Nat] /\ backlog[p][j] - 1 \in Nat
        BY <1>10 DEF RunStart
      <3>2. backlog' = [backlog EXCEPT ![p] = [backlog[p] EXCEPT ![j] = backlog[p][j] - 1]]
        BY <1>10 DEF RunStart
      <3>3. [backlog[p] EXCEPT ![j] = backlog[p][j] - 1] \in [Jobs -> Nat]
        BY <3>1
      <3> QED
        BY <3>2, <3>3
    <2>2. [job |-> j, status |-> status[j], attempts |-> attempts[j]] \in Loaded
      BY DEF Loaded
    <2>3. runs' \in [Jobs -> Nat]
      <3>1. runs' = runs \/ runs' = [runs EXCEPT ![j] = @ + 1]
        BY <1>10 DEF RunStart
      <3> QED
        BY <3>1
    <2>4. task' \in [Procs -> [Threads -> Loaded \cup {Idle}]]
      <3> DEFINE r == [job |-> j, status |-> status[j], attempts |-> attempts[j]]
      <3>1. task' = [task EXCEPT ![p][t] = r] \/ task' = task
        BY <1>10 DEF RunStart
      <3>2. r \in Loaded
        BY <2>2
      <3> HIDE DEF r
      <3>3. [task[p] EXCEPT ![t] = r] \in [Threads -> Loaded \cup {Idle}]
        BY <3>2
      <3>4. [task EXCEPT ![p][t] = r] = [task EXCEPT ![p] = [task[p] EXCEPT ![t] = r]]
        OBVIOUS
      <3> QED BY <3>1, <3>3, <3>4
    <2> QED BY <1>10, <2>1, <2>3, <2>4 DEF RunStart
<1>11. ASSUME NEW p \in Procs, NEW t \in Threads, NEW o \in Outcomes, RunFinish(p, t, o)
       PROVE  TypeOK'
    <2>1. task[p][t] \in Loaded
      BY <1>11 DEF RunFinish
    <2>2. /\ task[p][t].job \in Jobs /\ task[p][t].attempts \in Nat
          /\ Verdict(task[p][t], o) \in Terminal \cup {"retrying"}
      BY <2>1, VerdictType DEF Loaded
    <2> DEFINE r == task[p][t]
               v == Verdict(r, o)
    <2>3. \/ UNCHANGED table
          \/ /\ attempts' = [attempts EXCEPT ![r.job] = r.attempts + 1]
             /\ status' = [status EXCEPT ![r.job] = IF v = r.status THEN @ ELSE v]
             /\ timer' = [timer EXCEPT ![r.job] =
                            /\ @ /\ v = r.status
                            /\ v = "retrying" => status[r.job] = "running"]
      BY <1>11 DEF RunFinish
    <2>4. r.job \in Jobs /\ r.attempts \in Nat /\ v \in Status
      BY <2>2
    <2> HIDE DEF r, v
    <2>5. /\ status' \in [Jobs -> Status] /\ attempts' \in [Jobs -> Nat]
          /\ timer' \in [Jobs -> BOOLEAN]
      <3>1. CASE UNCHANGED table
        BY <3>1 DEF table
      <3>2. CASE ~ UNCHANGED table
        <4>1. attempts' = [attempts EXCEPT ![r.job] = r.attempts + 1]
          BY <2>3, <3>2
        <4>2. status' = status \/ status' = [status EXCEPT ![r.job] = v]
          BY <2>3, <2>4, <3>2
        <4>3. \E b \in BOOLEAN : timer' = [timer EXCEPT ![r.job] = b]
          BY <2>3, <2>4, <3>2
        <4> QED BY <2>4, <4>1, <4>2, <4>3
      <3> QED BY <3>1, <3>2
    <2>6. task' \in [Procs -> [Threads -> Loaded \cup {Idle}]]
      BY <1>11 DEF RunFinish
    <2> QED BY <1>11, <2>5, <2>6 DEF RunFinish
<1>12. CASE UNCHANGED vars
    BY <1>12 DEF vars
<1> QED
    BY <1>1, <1>2, <1>3, <1>4, <1>5, <1>6, <1>7, <1>9, <1>10, <1>11, <1>12 DEF Next

\* Every variable keeps its type.
THEOREM TypeCorrect == Spec => []TypeOK
<1> QED BY InitType, NextType, PTL DEF Spec

-------------------------------------------------------------------------------
(***************************************************************************)
(* The inductive invariant, action by action.  It holds where the database *)
(* locks rows and nothing in progress outlasts its row's timer.            *)
(***************************************************************************)

\* The assumption under which ownership is exclusive.
Prompt == SkipLocked /\ MaxSlips = 0

LEMMA InitIInv == Init => IInv
<1> SUFFICES ASSUME Init PROVE IInv
    OBVIOUS
<1>1. \A p \in Procs, t \in Threads, j \in Jobs : ~Executes(p, t, j)
    BY DEF Init, Executes
<1>2. \A p \in Procs, j \in Jobs : ~Holds(p, j)
    BY <1>1 DEF Init, Holds
<1>3. \A j \in Jobs : ~Executing(j)
    BY <1>1 DEF Executing
<1>4. OwnershipInv
    BY <1>1, <1>2, JobQueueAssumption
    DEF Init, OwnershipInv, SelectedInv, HeldInv, PlaceInv, SweptInv, AttemptsInv, Pollable
<1>5. NothingStranded /\ LedgerInv
    BY <1>3 DEF Init, NothingStranded, LedgerInv
<1> QED BY <1>4, <1>5 DEF IInv

\* A step that moves no row between hands, and only sets rows that are in no
\* hands to a status they may wait in.
LEMMA EnqueueIInv ==
  ASSUME TypeOK, IInv, NEW j \in Jobs, Enqueue(j)
  PROVE  IInv'
<1> USE DEF TypeOK
<1>1. \A p \in Procs, t \in Threads, k \in Jobs : Executes(p, t, k)' <=> Executes(p, t, k)
    BY DEF Enqueue, Executes
<1>2. \A p \in Procs, k \in Jobs : Holds(p, k)' <=> Holds(p, k)
    BY <1>1 DEF Enqueue, Holds
<1>3. \A k \in Jobs : Executing(k)' <=> Executing(k)
    BY <1>1 DEF Executing
<1> USE DEF Enqueue, IInv, OwnershipInv
<1>4. SelectedInv'
    BY <1>2 DEF SelectedInv, Pollable
<1>5. HeldInv'
    BY <1>2 DEF HeldInv
<1>6. PlaceInv'
    BY <1>1 DEF PlaceInv
<1>7. SweptInv'
    BY DEF SweptInv
<1>8. AttemptsInv'
    BY DEF AttemptsInv, Terminal
<1>9. NothingStranded'
    BY <1>2 DEF NothingStranded
<1>10. LedgerInv'
    BY <1>3 DEF LedgerInv
<1> QED BY <1>4, <1>5, <1>6, <1>7, <1>8, <1>9, <1>10

LEMMA TimerPassesIInv ==
  ASSUME TypeOK, IInv, Prompt, NEW j \in Jobs, TimerPasses(j)
  PROVE  IInv'
<1> USE DEF TypeOK
<1>1. \A p \in Procs, t \in Threads, k \in Jobs : Executes(p, t, k)' <=> Executes(p, t, k)
    BY DEF TimerPasses, Executes
<1>2. \A p \in Procs, k \in Jobs : Holds(p, k)' <=> Holds(p, k)
    BY <1>1 DEF TimerPasses, Holds
<1>3. \A k \in Jobs : Executing(k)' <=> Executing(k)
    BY <1>1 DEF Executing
<1>4. \A p \in Procs : ~Holds(p, j) /\ (phase[p] # "idle" => j \notin batch[p])
    BY DEF TimerPasses, Prompt, InFlight
<1> USE DEF TimerPasses, IInv, OwnershipInv
<1>5. SelectedInv'
    BY <1>2, <1>4 DEF SelectedInv
<1>6. HeldInv'
    BY <1>2, <1>4 DEF HeldInv
<1>7. PlaceInv'
    BY <1>1 DEF PlaceInv
<1>8. SweptInv'
    BY <1>4 DEF SweptInv
<1>9. AttemptsInv'
    BY DEF AttemptsInv
<1>10. NothingStranded'
    BY <1>2 DEF NothingStranded
<1>11. LedgerInv'
    BY <1>3 DEF LedgerInv
<1> QED BY <1>5, <1>6, <1>7, <1>8, <1>9, <1>10, <1>11

LEMMA PollSelectIInv ==
  ASSUME TypeOK, IInv, Prompt, NEW p \in Procs, PollSelect(p)
  PROVE  IInv'
<1> USE DEF TypeOK
<1>0. PICK S \in SUBSET Eligible : batch' = [batch EXCEPT ![p] = S]
    BY DEF PollSelect, PollFrom
<1>1. \A q \in Procs, t \in Threads, k \in Jobs : Executes(q, t, k)' <=> Executes(q, t, k)
    BY DEF PollSelect, PollFrom, Executes
<1>2. \A q \in Procs, k \in Jobs : Holds(q, k)' <=> Holds(q, k)
    BY <1>1, <1>0 DEF PollSelect, PollFrom, Holds
<1>3. \A k \in Jobs : Executing(k)' <=> Executing(k)
    BY <1>1 DEF Executing
<1>4. \A k \in S : /\ k \in Jobs /\ status[k] \in Pollable /\ timer[k]
                   /\ \A q \in Procs : phase[q] = "selected" => k \notin batch[q]
    BY JobQueueAssumption DEF Eligible, Locked, Prompt
<1>5. \A k \in S, q \in Procs : ~Holds(q, k) /\ (phase[q] # "idle" => k \notin batch[q])
    <2> SUFFICES ASSUME NEW k \in S, NEW q \in Procs
                 PROVE  ~Holds(q, k) /\ (phase[q] # "idle" => k \notin batch[q])
        OBVIOUS
    <2>1. ~Holds(q, k)
      BY <1>4 DEF IInv, OwnershipInv, HeldInv, Pollable
    <2>2. phase[q] # "claimed" \/ k \notin batch[q]
      BY <2>1 DEF Holds
    <2>3. phase[q] # "swept" \/ k \notin batch[q]
      BY <1>4 DEF IInv, OwnershipInv, SweptInv, Pollable
    <2> QED BY <1>4, <2>1, <2>2, <2>3 DEF Phase
<1> USE DEF PollSelect, PollFrom, IInv, OwnershipInv
<1>6. SelectedInv'
    BY <1>0, <1>2, <1>4, <1>5 DEF SelectedInv
<1>7. HeldInv'
    BY <1>0, <1>2, <1>5 DEF HeldInv
<1>8. PlaceInv'
    BY <1>0, <1>1 DEF PlaceInv
<1>9. SweptInv'
    BY <1>0 DEF SweptInv
<1>10. AttemptsInv'
    BY DEF AttemptsInv
<1>11. NothingStranded'
    BY <1>2 DEF NothingStranded
<1>12. LedgerInv'
    BY <1>3 DEF LedgerInv
<1> QED BY <1>6, <1>7, <1>8, <1>9, <1>10, <1>11, <1>12

LEMMA PollCommitIInv ==
  ASSUME TypeOK, IInv, NEW p \in Procs, PollCommit(p)
  PROVE  IInv'
<1> USE DEF TypeOK
<1>0. /\ phase[p] = "selected"
      /\ status' = [j \in Jobs |-> IF j \in batch[p] THEN "running" ELSE status[j]]
      /\ timer' = [j \in Jobs |-> IF j \in batch[p] THEN FALSE ELSE timer[j]]
      /\ phase' = [phase EXCEPT ![p] = "claimed"]
      /\ UNCHANGED <<batch, attempts, spent, backlog, task, stopping, runs, slips, crashes>>
    <2>1. phase[p] = "selected"
      BY DEF PollCommit
    <2>2. \A j \in batch[p] : Exists(j)
      BY <2>1 DEF IInv, OwnershipInv, SelectedInv, Exists, Pollable
    <2> QED BY <2>1, <2>2 DEF PollCommit
<1>1. \A q \in Procs, t \in Threads, k \in Jobs : Executes(q, t, k)' <=> Executes(q, t, k)
    BY <1>0 DEF Executes
<1>2. \A q \in Procs, k \in Jobs :
        Holds(q, k)' <=> Holds(q, k) \/ (q = p /\ k \in batch[p])
    BY <1>0, <1>1 DEF Holds
<1>3. \A k \in Jobs : Executing(k)' <=> Executing(k)
    BY <1>1 DEF Executing
<1>4. \A k \in batch[p] :
        /\ k \in Jobs /\ status[k] \in Pollable
        /\ \A q \in Procs : ~Holds(q, k)
        /\ \A q \in Procs \ {p} : phase[q] # "idle" => k \notin batch[q]
    BY <1>0 DEF IInv, OwnershipInv, SelectedInv
<1> USE DEF IInv, OwnershipInv
<1>5. SelectedInv'
    BY <1>0, <1>2, <1>4 DEF SelectedInv
<1>6. HeldInv'
    BY <1>0, <1>2, <1>4 DEF HeldInv
<1>7. PlaceInv'
    BY <1>0, <1>1, <1>4 DEF PlaceInv, Holds
<1>8. SweptInv'
    BY <1>0, <1>4 DEF SweptInv
<1>9. AttemptsInv'
    BY <1>0, <1>4 DEF AttemptsInv, Pollable, Terminal
<1>10. NothingStranded'
    BY <1>0, <1>2 DEF NothingStranded
<1>11. LedgerInv'
    BY <1>0, <1>3 DEF LedgerInv
<1> QED BY <1>5, <1>6, <1>7, <1>8, <1>9, <1>10, <1>11

LEMMA DispatchIInv ==
  ASSUME TypeOK, IInv, NEW p \in Procs, Dispatch(p)
  PROVE  IInv'
<1> USE DEF TypeOK
<1>0. /\ phase[p] = "claimed"
      /\ \A q \in Procs, k \in Jobs : backlog'[q][k] =
           IF q = p /\ k \in batch[p] THEN backlog[q][k] + 1 ELSE backlog[q][k]
      /\ phase' = [phase EXCEPT ![p] = "idle"]
      /\ batch' = [batch EXCEPT ![p] = {}]
      /\ UNCHANGED <<status, attempts, timer, spent, task, stopping, runs, slips, crashes>>
    <2>1. phase[p] = "claimed"
      BY DEF Dispatch
    <2>2. \A j \in batch[p] : Exists(j)
      BY <2>1 DEF IInv, OwnershipInv, HeldInv, Holds, Exists
    <2> QED BY <2>1, <2>2 DEF Dispatch
<1>1. \A q \in Procs, t \in Threads, k \in Jobs : Executes(q, t, k)' <=> Executes(q, t, k)
    BY <1>0 DEF Executes
<1>2. \A q \in Procs, k \in Jobs : Holds(q, k)' <=> Holds(q, k)
    BY <1>0, <1>1 DEF Holds
<1>3. \A k \in Jobs : Executing(k)' <=> Executing(k)
    BY <1>1 DEF Executing
<1> USE DEF IInv, OwnershipInv
<1>4. SelectedInv'
    BY <1>0, <1>2 DEF SelectedInv
<1>5. HeldInv'
    BY <1>0, <1>2 DEF HeldInv
<1>6. PlaceInv'
    BY <1>0, <1>1 DEF PlaceInv
<1>7. SweptInv'
    BY <1>0 DEF SweptInv
<1>8. AttemptsInv'
    BY <1>0 DEF AttemptsInv
<1>9. NothingStranded'
    BY <1>0, <1>2 DEF NothingStranded
<1>10. LedgerInv'
    BY <1>0, <1>3 DEF LedgerInv
<1> QED BY <1>4, <1>5, <1>6, <1>7, <1>8, <1>9, <1>10

LEMMA SweepSelectIInv ==
  ASSUME TypeOK, IInv, NEW p \in Procs, SweepSelect(p)
  PROVE  IInv'
<1> USE DEF TypeOK
<1> DEFINE found == {j \in Jobs : status[j] = "running" /\ timer[j]}
<1>0. /\ phase[p] = "idle"
      /\ phase' = [phase EXCEPT ![p] = "swept"]
      /\ batch' = [batch EXCEPT ![p] = found]
      /\ spent' = [spent EXCEPT ![p] = {}]
      /\ UNCHANGED <<status, attempts, timer, backlog, task, stopping, runs, slips, crashes>>
    <2>1. \A j \in found : attempts[j] < MaxAttempts
      BY DEF IInv, OwnershipInv, AttemptsInv, Terminal
    <2>2. {j \in found : attempts[j] >= MaxAttempts} = {}
      BY <2>1, JobQueueAssumption
    <2> QED BY <2>2 DEF SweepSelect
<1>1. \A q \in Procs, t \in Threads, k \in Jobs : Executes(q, t, k)' <=> Executes(q, t, k)
    BY <1>0 DEF Executes
<1>2. \A q \in Procs, k \in Jobs : Holds(q, k)' <=> Holds(q, k)
    BY <1>0, <1>1 DEF Holds
<1>3. \A k \in Jobs : Executing(k)' <=> Executing(k)
    BY <1>1 DEF Executing
<1> USE DEF IInv, OwnershipInv
<1>4. SelectedInv'
    BY <1>0, <1>2 DEF SelectedInv, Pollable
<1>5. HeldInv'
    BY <1>0, <1>2 DEF HeldInv
<1>6. PlaceInv'
    BY <1>0, <1>1 DEF PlaceInv
<1>7. SweptInv'
    BY <1>0 DEF SweptInv
<1>8. AttemptsInv'
    BY <1>0 DEF AttemptsInv
<1>9. NothingStranded'
    BY <1>0, <1>2 DEF NothingStranded
<1>10. LedgerInv'
    BY <1>0, <1>3 DEF LedgerInv
<1> QED BY <1>4, <1>5, <1>6, <1>7, <1>8, <1>9, <1>10

LEMMA SweepCommitIInv ==
  ASSUME TypeOK, IInv, NEW p \in Procs, SweepCommit(p)
  PROVE  IInv'
<1> USE DEF TypeOK
<1>0. /\ phase[p] = "swept"
      /\ status' = [j \in Jobs |-> IF j \in batch[p] THEN "retrying" ELSE status[j]]
      /\ timer' = [j \in Jobs |-> IF j \in batch[p] THEN FALSE ELSE timer[j]]
      /\ phase' = [phase EXCEPT ![p] = "idle"]
      /\ batch' = [batch EXCEPT ![p] = {}]
      /\ spent' = [spent EXCEPT ![p] = {}]
      /\ UNCHANGED <<attempts, backlog, task, stopping, runs, slips, crashes>>
    <2>1. phase[p] = "swept" /\ spent[p] = {}
      BY DEF SweepCommit, IInv, OwnershipInv, SweptInv
    <2>2. \A j \in batch[p] : Exists(j)
      BY <2>1 DEF IInv, OwnershipInv, SweptInv, Exists
    <2> QED BY <2>1, <2>2 DEF SweepCommit
<1>1. \A q \in Procs, t \in Threads, k \in Jobs : Executes(q, t, k)' <=> Executes(q, t, k)
    BY <1>0 DEF Executes
<1>2. \A q \in Procs, k \in Jobs : Holds(q, k)' <=> Holds(q, k)
    BY <1>0, <1>1 DEF Holds
<1>3. \A k \in Jobs : Executing(k)' <=> Executing(k)
    BY <1>1 DEF Executing
<1>4. \A k \in batch[p], q \in Procs :
        /\ k \in Jobs /\ ~Holds(q, k) /\ status[k] \in {"running", "retrying"}
        /\ phase[q] = "selected" => k \notin batch[q]
    BY <1>0 DEF IInv, OwnershipInv, SweptInv, HeldInv, SelectedInv
<1> USE DEF IInv, OwnershipInv
<1>5. SelectedInv'
    BY <1>0, <1>2, <1>4 DEF SelectedInv
<1>6. HeldInv'
    BY <1>0, <1>2, <1>4 DEF HeldInv
<1>7. PlaceInv'
    BY <1>0, <1>1 DEF PlaceInv
<1>8. SweptInv'
    BY <1>0 DEF SweptInv
<1>9. AttemptsInv'
    BY <1>0, <1>4 DEF AttemptsInv, Terminal
<1>10. NothingStranded'
    BY <1>0, <1>2 DEF NothingStranded
<1>11. LedgerInv'
    BY <1>0, <1>3 DEF LedgerInv
<1> QED BY <1>5, <1>6, <1>7, <1>8, <1>9, <1>10, <1>11

LEMMA RunStartIInv ==
  ASSUME TypeOK, IInv, NEW p \in Procs, NEW t \in Threads, NEW j \in Jobs, RunStart(p, t, j)
  PROVE  IInv'
<1> USE DEF TypeOK
<1> DEFINE r == [job |-> j, status |-> status[j], attempts |-> attempts[j]]
<1>0. /\ task[p][t] = Idle /\ backlog[p][j] = 1
      /\ Holds(p, j) /\ status[j] = "running"
      /\ \A q \in Procs, k \in Jobs : backlog'[q][k] =
           IF q = p /\ k = j THEN 0 ELSE backlog[q][k]
      /\ UNCHANGED <<status, attempts, timer, phase, batch, spent, stopping, slips, crashes>>
    <2>1. task[p][t] = Idle /\ backlog[p][j] = 1
      BY DEF RunStart, IInv, OwnershipInv, PlaceInv
    <2>2. Holds(p, j)
      BY <2>1 DEF Holds
    <2>3. status[j] = "running"
      BY <2>2 DEF IInv, OwnershipInv, HeldInv
    <2> QED BY <2>1, <2>2, <2>3 DEF RunStart
<1>1. r \in Loaded
    BY DEF Loaded
<1>2. CASE j \in Broken
  <2>0. UNCHANGED <<task, runs>>
    BY <1>2 DEF RunStart
  <2>1. \A q \in Procs, u \in Threads, k \in Jobs : Executes(q, u, k)' <=> Executes(q, u, k)
    BY <2>0 DEF Executes
  <2>2. \A q \in Procs, k \in Jobs : Holds(q, k)' => Holds(q, k)
    BY <1>0, <2>1 DEF Holds
  <2>3. \A q \in Procs, k \in Jobs \ Broken : Holds(q, k)' <=> Holds(q, k)
    BY <1>0, <1>2, <2>1 DEF Holds
  <2>4. \A k \in Jobs : Executing(k)' <=> Executing(k)
    BY <2>1 DEF Executing
  <2> USE DEF IInv, OwnershipInv
  <2>5. SelectedInv'
    BY <1>0, <2>2 DEF SelectedInv
  <2>6. HeldInv'
    BY <1>0, <2>2 DEF HeldInv
  <2>7. PlaceInv'
    BY <1>0, <2>1 DEF PlaceInv
  <2>8. SweptInv'
    BY <1>0 DEF SweptInv
  <2>9. AttemptsInv'
    BY <1>0, <2>0 DEF AttemptsInv
  <2>10. NothingStranded'
    BY <1>0, <2>3 DEF NothingStranded
  <2>11. LedgerInv'
    BY <1>0, <2>0, <2>4 DEF LedgerInv
  <2> QED BY <2>5, <2>6, <2>7, <2>8, <2>9, <2>10, <2>11
<1>3. CASE j \notin Broken
  <2>0. /\ runs' = [runs EXCEPT ![j] = @ + 1]
        /\ \A q \in Procs, u \in Threads :
             task'[q][u] = IF q = p /\ u = t THEN r ELSE task[q][u]
    BY <1>0, <1>3 DEF RunStart, Exists
  <2>1. \A q \in Procs, u \in Threads, k \in Jobs :
          Executes(q, u, k)' <=> Executes(q, u, k) \/ (q = p /\ u = t /\ k = j)
    BY <1>0, <1>1, <2>0, IdleAssumption DEF Executes
  <2>2. \A q \in Procs, k \in Jobs : Holds(q, k)' <=> Holds(q, k)
    BY <1>0, <2>1 DEF Holds
  <2>3. \A k \in Jobs : Executing(k)' <=> Executing(k) \/ k = j
    BY <2>1 DEF Executing
  <2>4. \A q \in Procs, u \in Threads : ~Executes(q, u, j)
    <3>1. \A u \in Threads : ~Executes(p, u, j)
      BY <1>0 DEF IInv, OwnershipInv, PlaceInv
    <3>2. \A q \in Procs \ {p} : ~Holds(q, j)
      BY <1>0 DEF IInv, OwnershipInv, HeldInv
    <3> QED BY <3>1, <3>2 DEF Holds
  <2>5. ~Executing(j)
    BY <2>4 DEF Executing
  <2>6. phase[p] = "claimed" => j \notin batch[p]
    BY <1>0 DEF IInv, OwnershipInv, PlaceInv
  <2> USE DEF IInv, OwnershipInv
  <2>7. SelectedInv'
    BY <1>0, <2>2 DEF SelectedInv
  <2>8. HeldInv'
    BY <1>0, <2>2 DEF HeldInv
  <2>9. PlaceInv'
    BY <1>0, <2>1, <2>4, <2>6 DEF PlaceInv
  <2>10. SweptInv'
    BY <1>0 DEF SweptInv
  <2>11. AttemptsInv'
    BY <1>0, <2>0 DEF AttemptsInv
  <2>12. NothingStranded'
    BY <1>0, <2>2 DEF NothingStranded
  <2>13. LedgerInv'
    BY <1>0, <2>0, <2>3, <2>5 DEF LedgerInv
  <2> QED BY <2>7, <2>8, <2>9, <2>10, <2>11, <2>12, <2>13
<1> QED BY <1>2, <1>3

LEMMA RunFinishIInv ==
  ASSUME TypeOK, IInv, NEW p \in Procs, NEW t \in Threads, NEW o \in Outcomes,
         RunFinish(p, t, o)
  PROVE  IInv'
<1> USE DEF TypeOK
<1> DEFINE r == task[p][t]
           j == r.job
           verdict == Verdict(r, o)
<1>1. /\ r \in Loaded /\ j \in Jobs /\ r # Idle
      /\ Executes(p, t, j)
    BY DEF RunFinish, Executes, Loaded
<1>2. Holds(p, j)
    BY <1>1 DEF Holds
<1>3. /\ status[j] = "running" /\ r.status = "running" /\ r.attempts = attempts[j]
      /\ attempts[j] < MaxAttempts
    BY <1>1, <1>2 DEF IInv, OwnershipInv, HeldInv, AttemptsInv, Terminal
<1>4. /\ verdict \in Terminal \cup {"retrying"}
      /\ verdict \notin Terminal => attempts[j] + 1 < MaxAttempts
    <2>1. verdict \in Terminal \cup {"retrying"}
      BY <1>1, VerdictType
    <2>2. verdict \notin Terminal => ~(attempts[j] + 1 >= MaxAttempts)
      BY <1>3 DEF Verdict, Outcomes, Terminal
    <2> QED BY <1>1, <2>1, <2>2, JobQueueAssumption
<1>5. /\ status' = [status EXCEPT ![j] = verdict]
      /\ attempts' = [attempts EXCEPT ![j] = attempts[j] + 1]
      /\ timer' = [timer EXCEPT ![j] = FALSE]
      /\ \A q \in Procs, u \in Threads :
           task'[q][u] = IF q = p /\ u = t THEN Idle ELSE task[q][u]
      /\ UNCHANGED <<phase, batch, spent, backlog, stopping, runs, slips, crashes>>
    <2>1. verdict # r.status /\ Exists(j)
      BY <1>3, <1>4 DEF Terminal, Exists
    <2> QED BY <1>1, <1>3, <2>1 DEF RunFinish
<1> HIDE DEF verdict
<1>6. \A q \in Procs, u \in Threads, k \in Jobs :
        Executes(q, u, k)' <=> Executes(q, u, k) /\ ~(q = p /\ u = t)
    BY <1>5 DEF Executes
<1>7. \A q \in Procs, u \in Threads : Executes(q, u, j) => q = p /\ u = t
    BY <1>1, <1>2 DEF IInv, OwnershipInv, HeldInv, PlaceInv, Holds
<1>8. \A u \in Threads, k \in Jobs : Executes(p, t, k) => k = j
    BY DEF Executes
<1>9. \A q \in Procs, k \in Jobs : Holds(q, k)' <=> Holds(q, k) /\ k # j
    <2>1. \A q \in Procs, k \in Jobs : k = j => ~Holds(q, k)'
      <3>1. \A q \in Procs \ {p} : ~Holds(q, j)
        BY <1>1, <1>2 DEF IInv, OwnershipInv, HeldInv
      <3>2. backlog[p][j] = 0 /\ ~(phase[p] = "claimed" /\ j \in batch[p])
        BY <1>1 DEF IInv, OwnershipInv, PlaceInv
      <3> QED BY <1>5, <1>6, <1>7, <3>1, <3>2 DEF Holds
    <2>2. \A q \in Procs, k \in Jobs : k # j => (Holds(q, k)' <=> Holds(q, k))
      BY <1>5, <1>6, <1>8 DEF Holds
    <2> QED BY <1>1, <2>1, <2>2
<1>10. \A k \in Jobs : Executing(k)' <=> Executing(k) /\ k # j
    BY <1>6, <1>7, <1>8 DEF Executing
<1>11. Executing(j)
    BY <1>1 DEF Executing
<1>12. \A q \in Procs : phase[q] \in {"selected", "swept"} => j \notin batch[q]
    BY <1>1, <1>2 DEF IInv, OwnershipInv, HeldInv
<1> USE DEF IInv, OwnershipInv
<1>13. SelectedInv'
    BY <1>1, <1>5, <1>9, <1>12 DEF SelectedInv
<1>14. HeldInv'
    BY <1>5, <1>9 DEF HeldInv
<1>15. PlaceInv'
    BY <1>5, <1>6 DEF PlaceInv
<1>16. SweptInv'
    BY <1>5, <1>12 DEF SweptInv
<1>17. AttemptsInv'
    <2>1. \A k \in Jobs : attempts'[k] <= MaxAttempts
                          /\ (status'[k] \notin Terminal => attempts'[k] < MaxAttempts)
      BY <1>1, <1>3, <1>4, <1>5, JobQueueAssumption DEF AttemptsInv
    <2>2. ASSUME NEW q \in Procs, NEW u \in Threads, task'[q][u] # Idle
          PROVE  /\ task'[q][u].status = "running"
                 /\ task'[q][u].attempts = attempts'[task'[q][u].job]
      <3>1. task'[q][u] = task[q][u] /\ ~(q = p /\ u = t)
        BY <1>5, <2>2
      <3>2. task[q][u].job \in Jobs \ {j}
        BY <1>7, <2>2, <3>1 DEF Loaded, Executes
      <3> QED BY <1>1, <1>5, <2>2, <3>1, <3>2 DEF AttemptsInv
    <2> QED BY <2>1, <2>2 DEF AttemptsInv
<1>18. NothingStranded'
    BY <1>1, <1>4, <1>5, <1>9 DEF NothingStranded, Terminal
<1>19. LedgerInv'
    BY <1>1, <1>5, <1>10, <1>11 DEF LedgerInv
<1> QED BY <1>13, <1>14, <1>15, <1>16, <1>17, <1>18, <1>19

\* The invariant says nothing of `stopping`.
LEMMA UnchangedIInv ==
  ASSUME TypeOK, IInv,
         UNCHANGED <<status, attempts, timer, phase, batch, spent, backlog, task, runs, crashes>>
  PROVE  IInv'
<1>1. \A q \in Procs, t \in Threads, k \in Jobs : Executes(q, t, k)' <=> Executes(q, t, k)
    BY DEF Executes
<1>2. \A q \in Procs, k \in Jobs : Holds(q, k)' <=> Holds(q, k)
    BY <1>1 DEF Holds
<1>3. \A k \in Jobs : Executing(k)' <=> Executing(k)
    BY <1>1 DEF Executing
<1> USE DEF IInv, OwnershipInv
<1>4. SelectedInv'
    BY <1>2 DEF SelectedInv, TypeOK
<1>5. HeldInv'
    BY <1>2 DEF HeldInv
<1>6. PlaceInv'
    BY <1>1 DEF PlaceInv
<1>7. SweptInv'
    BY DEF SweptInv
<1>8. AttemptsInv'
    BY DEF AttemptsInv
<1>9. NothingStranded'
    BY <1>2 DEF NothingStranded
<1>10. LedgerInv'
    BY <1>3 DEF LedgerInv
<1> QED BY <1>4, <1>5, <1>6, <1>7, <1>8, <1>9, <1>10

\* A new adapter lets go of everything the old one held, and of nothing else.
LEMMA NewAdapterHands ==
  ASSUME TypeOK, NEW p \in Procs, NewAdapter(p)
  PROVE  /\ \A q \in Procs, t \in Threads, k \in Jobs :
              Executes(q, t, k)' <=> Executes(q, t, k) /\ q # p
         /\ \A q \in Procs, k \in Jobs : Holds(q, k)' <=> Holds(q, k) /\ q # p
<1> USE DEF TypeOK
<1>1. \A q \in Procs, t \in Threads, k \in Jobs :
        Executes(q, t, k)' <=> Executes(q, t, k) /\ q # p
    BY DEF NewAdapter, Executes
<1>2. \A q \in Procs, k \in Jobs : Holds(q, k)' <=> Holds(q, k) /\ q # p
    BY <1>1 DEF NewAdapter, Holds
<1> QED BY <1>1, <1>2

LEMMA NewAdapterOwnership ==
  ASSUME TypeOK, OwnershipInv, NEW p \in Procs, NewAdapter(p),
         UNCHANGED <<status, attempts, timer>>
  PROVE  OwnershipInv'
<1> USE DEF TypeOK
<1>1. \A q \in Procs, t \in Threads, k \in Jobs : Executes(q, t, k)' => Executes(q, t, k)
    BY NewAdapterHands
<1>2. \A q \in Procs, k \in Jobs : Holds(q, k)' => Holds(q, k)
    BY NewAdapterHands
<1> USE DEF NewAdapter, OwnershipInv
<1>3. SelectedInv'
    BY <1>2 DEF SelectedInv
<1>4. HeldInv'
    BY <1>2 DEF HeldInv
<1>5. PlaceInv'
    BY <1>1 DEF PlaceInv
<1>6. SweptInv'
    BY DEF SweptInv
<1>7. AttemptsInv'
    BY DEF AttemptsInv
<1> QED BY <1>3, <1>4, <1>5, <1>6, <1>7

LEMMA RestartIInv ==
  ASSUME TypeOK, IInv, NEW p \in Procs, Restart(p)
  PROVE  IInv'
<1>1. NewAdapter(p) /\ UNCHANGED <<status, attempts, timer, runs, slips, crashes>>
    BY DEF Restart
<1>2. OwnershipInv'
    BY <1>1, NewAdapterOwnership DEF IInv
<1>3. \A t \in Threads, k \in Jobs : ~Executes(p, t, k)
    BY DEF Restart, Drained, Executes
<1>4. \A k \in Jobs : ~Holds(p, k)
    BY <1>3 DEF Restart, Drained, Holds, TypeOK
<1>5. \A q \in Procs, k \in Jobs : Holds(q, k)' <=> Holds(q, k)
    BY <1>1, <1>4, NewAdapterHands
<1>6. \A k \in Jobs : Executing(k)' <=> Executing(k)
    BY <1>1, <1>3, NewAdapterHands DEF Executing
<1>7. NothingStranded' /\ LedgerInv'
    BY <1>1, <1>5, <1>6 DEF IInv, NothingStranded, LedgerInv
<1> QED BY <1>2, <1>7 DEF IInv

LEMMA CrashIInv ==
  ASSUME TypeOK, IInv, NEW p \in Procs, Crash(p)
  PROVE  IInv'
<1>1. /\ NewAdapter(p) /\ UNCHANGED <<status, attempts, timer, runs, slips>>
      /\ crashes' = crashes + 1 /\ crashes \in Nat
      /\ attempts \in [Jobs -> Nat] /\ runs \in [Jobs -> Nat]
    BY DEF Crash, TypeOK
<1>2. OwnershipInv'
    BY <1>1, NewAdapterOwnership DEF IInv
<1>3. \A k \in Jobs : Executing(k)' => Executing(k)
    BY <1>1, NewAdapterHands DEF Executing
<1>4. NothingStranded'
    BY <1>1 DEF NothingStranded
<1>5. LedgerInv'
    BY <1>1, <1>3 DEF IInv, LedgerInv
<1> QED BY <1>2, <1>4, <1>5 DEF IInv

LEMMA NextIInv ==
  ASSUME TypeOK, IInv, Prompt, [Next]_vars
  PROVE  IInv'
<1>1. CASE UNCHANGED vars
  BY <1>1, UnchangedIInv DEF vars
<1>2. CASE Next
  <2>1. CASE \E j \in Jobs : Enqueue(j) \/ TimerPasses(j)
    BY <2>1, EnqueueIInv, TimerPassesIInv
  <2>2. CASE \E p \in Procs : \/ PollSelect(p) \/ PollCommit(p) \/ Dispatch(p)
                              \/ SweepSelect(p) \/ SweepCommit(p)
                              \/ Stop(p) \/ Restart(p) \/ Crash(p)
    <3>1. ASSUME NEW p \in Procs, Stop(p) PROVE IInv'
      BY <3>1, UnchangedIInv DEF Stop
    <3> QED
      BY <2>2, <3>1, PollSelectIInv, PollCommitIInv, DispatchIInv, SweepSelectIInv,
         SweepCommitIInv, RestartIInv, CrashIInv
  <2>3. CASE \E p \in Procs, t \in Threads, j \in Jobs : RunStart(p, t, j)
    BY <2>3, RunStartIInv
  <2>4. CASE \E p \in Procs, t \in Threads, o \in Outcomes : RunFinish(p, t, o)
    BY <2>4, RunFinishIInv
  <2> QED BY <1>2, <2>1, <2>2, <2>3, <2>4 DEF Next
<1> QED BY <1>1, <1>2

-------------------------------------------------------------------------------
(***************************************************************************)
(* What follows from the invariant.                                        *)
(***************************************************************************)

\* The inductive invariant holds in every reachable state.
THEOREM Invariance ==
  ASSUME Prompt
  PROVE  Spec => []IInv
<1>1. TypeOK /\ IInv /\ [Next]_vars => (TypeOK /\ IInv)'
    BY NextType, NextIInv
<1> QED BY <1>1, InitType, InitIInv, PTL DEF Spec

\* No two threads of the deployment ever execute one row at the same time.
THEOREM OneWorkerPerJobHolds ==
  ASSUME Prompt
  PROVE  Spec => []OneWorkerPerJob
<1>1. IInv => OneWorkerPerJob
    BY DEF IInv, OwnershipInv, HeldInv, PlaceInv, OneWorkerPerJob, Holds
<1> QED BY <1>1, Invariance, PTL

\* As long as no process is killed every RUNNING row is in live hands.
THEOREM NothingStrandedHolds ==
  ASSUME Prompt
  PROVE  Spec => []NothingStranded
<1>1. IInv => NothingStranded
    BY DEF IInv
<1> QED BY <1>1, Invariance, PTL

\* attempts is max_attempts at most, and off by the crashes and the running
\* execution only.
THEOREM AttemptsLedgerHolds ==
  ASSUME Prompt
  PROVE  Spec => []AttemptsLedger
<1>1. TypeOK /\ IInv => AttemptsLedger
    BY DEF TypeOK, IInv, OwnershipInv, AttemptsInv, LedgerInv, AttemptsLedger, Executing
<1> QED BY <1>1, TypeCorrect, Invariance, PTL

\* The commit of a poll writes the status of its own rows.
LEMMA ClaimWrites ==
  ASSUME NEW p \in Procs, PollCommit(p)
  PROVE  \A k \in Jobs : status'[k] = status[k] \/ (k \in batch[p] /\ status'[k] = "running")
<1>1. \/ status' = status
      \/ status' = [k \in Jobs |-> IF k \in batch[p] THEN "running" ELSE status[k]]
  BY DEF PollCommit
<1> QED
  BY <1>1

\* A done, failed or discarded row is never written again: the rows a sweep or
\* a worker is about to write have no outcome yet.
THEOREM OutcomeIsFinalHolds ==
  ASSUME Prompt
  PROVE  Spec => OutcomeIsFinal
<1>1. TypeOK /\ IInv /\ [Next]_vars =>
        [\A j \in Jobs : status[j] \in Terminal => status'[j] = status[j]]_vars
  <2> SUFFICES ASSUME TypeOK, IInv, Next, NEW j \in Jobs, status[j] \in Terminal
               PROVE  status'[j] = status[j]
      OBVIOUS
  <2> USE DEF TypeOK, Terminal
  <2>1. CASE \E k \in Jobs : Enqueue(k) \/ TimerPasses(k)
    BY <2>1 DEF Enqueue, TimerPasses
  <2>2. ASSUME NEW p \in Procs, PollCommit(p) PROVE status'[j] = status[j]
    <3>1. j \notin batch[p]
      <4>1. phase[p] = "selected" /\ SelectedInv
        BY <2>2 DEF PollCommit, IInv, OwnershipInv
      <4>2. \A k \in batch[p] : status[k] \in Pollable
        BY <4>1 DEF SelectedInv
      <4> QED
        BY <4>2 DEF Pollable
    <3> QED BY <2>2, <3>1, ClaimWrites
  <2>3. ASSUME NEW p \in Procs, SweepCommit(p) PROVE status'[j] = status[j]
    BY <2>3 DEF SweepCommit, IInv, OwnershipInv, SweptInv
  <2>4. ASSUME NEW p \in Procs, NEW t \in Threads, NEW o \in Outcomes, RunFinish(p, t, o)
        PROVE  status'[j] = status[j]
    <3>1. Holds(p, task[p][t].job) /\ task[p][t].job \in Jobs
      BY <2>4 DEF RunFinish, Holds, Executes, Loaded
    <3>2. task[p][t].job # j
      BY <3>1 DEF IInv, OwnershipInv, HeldInv
    <3> QED BY <2>4, <3>2 DEF RunFinish, table
  <2>5. CASE \E p \in Procs : \/ PollSelect(p) \/ Dispatch(p) \/ SweepSelect(p)
                              \/ Stop(p) \/ Restart(p) \/ Crash(p)
                              \/ \E t \in Threads, k \in Jobs : RunStart(p, t, k)
    BY <2>5 DEF PollSelect, PollFrom, Dispatch, SweepSelect, Stop, Restart, Crash, RunStart
  <2> QED BY <2>1, <2>2, <2>3, <2>4, <2>5 DEF Next
<1> QED BY <1>1, TypeCorrect, Invariance, PTL DEF OutcomeIsFinal, Spec

-------------------------------------------------------------------------------
(***************************************************************************)
(* What holds without Prompt, however long a job or a tick takes.          *)
(***************************************************************************)

\* A step of the queue that is not the SELECT of a poll.
QueueMove ==
  \/ \E j \in Jobs : Enqueue(j) \/ TimerPasses(j)
  \/ \E p \in Procs :
       \/ PollCommit(p) \/ Dispatch(p) \/ SweepSelect(p) \/ SweepCommit(p)
       \/ Stop(p) \/ Restart(p) \/ Crash(p)
       \/ \E t \in Threads, j \in Jobs : RunStart(p, t, j)
       \/ \E t \in Threads, o \in Outcomes : RunFinish(p, t, o)

LEMMA NextMoves ==
  ASSUME Next
  PROVE  QueueMove \/ \E p \in Procs : PollSelect(p)
BY DEF Next, QueueMove

\* A sweep gives up on rows that it read, and on no others.
SpentInv ==
  \A p \in Procs :
    /\ spent[p] \subseteq batch[p]
    /\ phase[p] # "swept" => spent[p] = {}

LEMMA PollKeepsSpent ==
  ASSUME TypeOK, SpentInv, NEW p \in Procs, NEW E, PollFrom(p, E)
  PROVE  SpentInv'
BY DEF SpentInv, TypeOK, PollFrom

LEMMA MoveKeepsSpent ==
  ASSUME TypeOK, SpentInv, QueueMove
  PROVE  SpentInv'
<1> USE DEF SpentInv, TypeOK
<1>1. ASSUME UNCHANGED <<phase, batch, spent>> PROVE SpentInv'
  BY <1>1
<1>2. ASSUME NEW p \in Procs, PollCommit(p) \/ Dispatch(p) PROVE SpentInv'
  BY <1>2 DEF PollCommit, Dispatch
<1>3. ASSUME NEW p \in Procs, SweepSelect(p) PROVE SpentInv'
  <2> DEFINE found == {j \in Jobs : status[j] = "running" /\ timer[j]}
  <2>1. /\ batch' = [batch EXCEPT ![p] = found]
        /\ spent' = [spent EXCEPT ![p] = {j \in found : attempts[j] >= MaxAttempts}]
        /\ phase' = [phase EXCEPT ![p] = "swept"]
    BY <1>3 DEF SweepSelect
  <2> HIDE DEF found
  <2> QED BY <2>1
<1>4. ASSUME NEW p \in Procs, SweepCommit(p) PROVE SpentInv'
  <2>1. /\ batch' = [batch EXCEPT ![p] = {}]
        /\ spent' = [spent EXCEPT ![p] = {}]
        /\ phase' = [phase EXCEPT ![p] = "idle"]
    BY <1>4 DEF SweepCommit
  <2> QED BY <2>1
<1>5. ASSUME NEW p \in Procs, Restart(p) \/ Crash(p) PROVE SpentInv'
  BY <1>5 DEF Restart, Crash, NewAdapter
<1>6. ASSUME NEW p \in Procs,
             \/ Stop(p)
             \/ \E t \in Threads, j \in Jobs : RunStart(p, t, j)
             \/ \E t \in Threads, o \in Outcomes : RunFinish(p, t, o)
      PROVE  SpentInv'
  BY <1>1, <1>6 DEF Stop, RunStart, RunFinish
<1>7. ASSUME NEW j \in Jobs, Enqueue(j) \/ TimerPasses(j) PROVE SpentInv'
  BY <1>1, <1>7 DEF Enqueue, TimerPasses
<1> QED
  BY <1>2, <1>3, <1>4, <1>5, <1>6, <1>7 DEF QueueMove

\* No poll begins or changes its selection.
SelectionsKept ==
  \A p \in Procs : phase'[p] = "selected" => phase[p] = "selected" /\ batch'[p] = batch[p]

\* Selections hold as long as the selected rows are left alone.
LEMMA RowsLeftAlone ==
  ASSUME SelectionHolds, SelectionsKept,
         \A p \in Procs : phase'[p] = "selected" => \A j \in batch[p] : status'[j] = status[j]
  PROVE  SelectionHolds'
BY DEF SelectionHolds, SelectionsKept

\* A poll passes over the rows that others have selected.
LEMMA PollKeepsSelection ==
  ASSUME TypeOK, SkipLocked, SelectionHolds, NEW p \in Procs,
         NEW E, E \subseteq Eligible, PollFrom(p, E)
  PROVE  /\ SelectionHolds' /\ phase'[p] = "selected" /\ batch'[p] \subseteq E
         /\ \A q \in Procs \ {p} : phase'[q] = phase[q] /\ batch'[q] = batch[q]
<1>1. PICK S \in SUBSET E : batch' = [batch EXCEPT ![p] = S]
  BY DEF PollFrom
<1>2. phase' = [phase EXCEPT ![p] = "selected"] /\ status' = status /\ phase[p] = "idle"
  BY DEF PollFrom
<1>3. phase \in [Procs -> Phase] /\ batch \in [Procs -> SUBSET Jobs]
  BY DEF TypeOK
<1>4. \A j \in S : /\ status[j] \in Pollable
                   /\ \A q \in Procs : phase[q] = "selected" => j \notin batch[q]
  BY DEF Eligible, Locked
<1>5. /\ phase'[p] = "selected" /\ batch'[p] = S
      /\ \A q \in Procs \ {p} : phase'[q] = phase[q] /\ batch'[q] = batch[q]
  BY <1>1, <1>2, <1>3
<1>6. SelectionHolds'
  <2> SUFFICES ASSUME NEW q \in Procs, NEW r \in Procs, phase'[q] = "selected",
                      NEW j \in batch'[q]
               PROVE  /\ status'[j] \in Pollable
                      /\ phase'[r] = "selected" /\ j \in batch'[r] => q = r
    BY DEF SelectionHolds
  <2>1. CASE q = p
    BY <1>2, <1>4, <1>5, <2>1
  <2>2. CASE q # p
    <3>1. phase[q] = "selected" /\ j \in batch[q]
      BY <1>5, <2>2
    <3>2. status[j] \in Pollable /\ j \notin S
      BY <1>4, <3>1 DEF SelectionHolds
    <3> QED
      BY <1>2, <1>5, <3>1, <3>2 DEF SelectionHolds
  <2> QED
    BY <2>1, <2>2
<1> QED
  BY <1>5, <1>6

\* The row locks keep everything else in the queue away from selected rows.
LEMMA MoveKeepsSelection ==
  ASSUME TypeOK, SkipLocked, SpentInv, SelectionHolds, QueueMove
  PROVE  SelectionsKept /\ SelectionHolds'
<1>0. /\ phase \in [Procs -> Phase] /\ batch \in [Procs -> SUBSET Jobs]
      /\ status \in [Jobs -> Status]
  BY DEF TypeOK
<1>1. ASSUME UNCHANGED <<phase, batch>>,
             \A q \in Procs : phase[q] = "selected" => \A j \in batch[q] : status'[j] = status[j]
      PROVE  SelectionsKept /\ SelectionHolds'
  BY <1>1, RowsLeftAlone DEF SelectionsKept
<1>2. ASSUME NEW p \in Procs, NEW f, f # "selected", phase' = [phase EXCEPT ![p] = f],
             NEW b, batch' = [batch EXCEPT ![p] = b],
             \A q \in Procs \ {p} :
               phase[q] = "selected" => \A j \in batch[q] : status'[j] = status[j]
      PROVE  SelectionsKept /\ SelectionHolds'
  <2>1. /\ phase'[p] # "selected"
        /\ \A q \in Procs \ {p} : phase'[q] = phase[q] /\ batch'[q] = batch[q]
    BY <1>0, <1>2
  <2> QED
    BY <1>2, <2>1, RowsLeftAlone DEF SelectionsKept
<1>3. ASSUME NEW j \in Jobs, Enqueue(j) \/ TimerPasses(j)
      PROVE  SelectionsKept /\ SelectionHolds'
  <2>1. UNCHANGED <<phase, batch>>
    BY <1>3 DEF Enqueue, TimerPasses
  <2>2. \A k \in Jobs : status[k] \in Pollable => status'[k] = status[k]
    BY <1>0, <1>3 DEF Enqueue, TimerPasses, Pollable
  <2>3. \A q \in Procs : phase[q] = "selected" => \A k \in batch[q] : status'[k] = status[k]
    BY <1>0, <2>2 DEF SelectionHolds
  <2> QED
    BY <1>1, <2>1, <2>3
<1>4. ASSUME NEW p \in Procs, PollCommit(p) PROVE SelectionsKept /\ SelectionHolds'
  <2>1. PICK f \in {"claimed", "idle"}, b \in {batch[p], {}} :
          phase' = [phase EXCEPT ![p] = f] /\ batch' = [batch EXCEPT ![p] = b]
    <3>1. UNCHANGED batch => batch' = [batch EXCEPT ![p] = batch[p]]
      BY <1>0
    <3> QED
      BY <1>4, <3>1 DEF PollCommit
  <2>2. phase[p] = "selected" /\ \A j \in Jobs \ batch[p] : status'[j] = status[j]
    BY <1>4 DEF PollCommit
  <2>3. \A q \in Procs \ {p} :
          phase[q] = "selected" => \A j \in batch[q] : status'[j] = status[j]
    BY <1>0, <2>2 DEF SelectionHolds
  <2> QED
    BY <1>2, <2>1, <2>3
<1>5. ASSUME NEW p \in Procs, SweepSelect(p) PROVE SelectionsKept /\ SelectionHolds'
  <2>1. PICK b : batch' = [batch EXCEPT ![p] = b]
    BY <1>5 DEF SweepSelect
  <2>2. phase' = [phase EXCEPT ![p] = "swept"] /\ status' = status
    BY <1>5 DEF SweepSelect
  <2> QED
    BY <1>2, <2>1, <2>2
<1>6. ASSUME NEW p \in Procs, SweepCommit(p) PROVE SelectionsKept /\ SelectionHolds'
  <2>1. phase' = [phase EXCEPT ![p] = "idle"] /\ batch' = [batch EXCEPT ![p] = {}]
    BY <1>6 DEF SweepCommit
  <2>2. \A j \in Jobs \ batch[p] : status'[j] = status[j]
    BY <1>6 DEF SweepCommit, SpentInv
  <2>3. \A q \in Procs \ {p} :
          phase[q] = "selected" => \A j \in batch[q] : status'[j] = status[j]
    BY <1>0, <1>6, <2>2 DEF SweepCommit, Locked
  <2> QED
    BY <1>2, <2>1, <2>3
<1>7. ASSUME NEW p \in Procs, Dispatch(p) \/ Restart(p) \/ Crash(p)
      PROVE  SelectionsKept /\ SelectionHolds'
  <2>1. /\ phase' = [phase EXCEPT ![p] = "idle"] /\ batch' = [batch EXCEPT ![p] = {}]
        /\ status' = status
    BY <1>7 DEF Dispatch, Restart, Crash, NewAdapter
  <2> QED
    BY <1>2, <2>1
<1>8. ASSUME NEW p \in Procs, Stop(p) \/ \E t \in Threads, j \in Jobs : RunStart(p, t, j)
      PROVE  SelectionsKept /\ SelectionHolds'
  BY <1>1, <1>8 DEF Stop, RunStart
<1>9. ASSUME NEW p \in Procs, NEW t \in Threads, NEW o \in Outcomes, RunFinish(p, t, o)
      PROVE  SelectionsKept /\ SelectionHolds'
  <2>1. UNCHANGED <<phase, batch>>
    BY <1>9 DEF RunFinish
  <2>2. ~Locked(task[p][t].job) /\ \A j \in Jobs \ {task[p][t].job} : status'[j] = status[j]
    BY <1>0, <1>9 DEF RunFinish, table
  <2>3. \A q \in Procs : phase[q] = "selected" => \A j \in batch[q] : status'[j] = status[j]
    BY <1>0, <2>2 DEF Locked
  <2> QED
    BY <1>1, <2>1, <2>3
<1> QED
  BY <1>3, <1>4, <1>5, <1>6, <1>7, <1>8, <1>9 DEF QueueMove

\* Where the database locks rows, a poll's selection stays selectable and its own
\* until its claim commits, even while jobs and sweeps outlast the timers of rows.
THEOREM SelectionHoldsHolds ==
  ASSUME SkipLocked
  PROVE  Spec => []SelectionHolds
<1>1. Init => SpentInv /\ SelectionHolds
  BY DEF Init, SpentInv, SelectionHolds
<1>2. TypeOK /\ SpentInv /\ SelectionHolds /\ [Next]_vars => SpentInv' /\ SelectionHolds'
  <2> SUFFICES ASSUME TypeOK, SpentInv, SelectionHolds, [Next]_vars
               PROVE  SpentInv' /\ SelectionHolds'
    OBVIOUS
  <2>1. CASE QueueMove
    BY <2>1, MoveKeepsSpent, MoveKeepsSelection
  <2>2. ASSUME NEW p \in Procs, PollSelect(p) PROVE SpentInv' /\ SelectionHolds'
    BY <2>2, PollKeepsSpent, PollKeepsSelection DEF PollSelect
  <2>3. CASE UNCHANGED vars
    BY <2>3 DEF vars, SpentInv, SelectionHolds
  <2> QED
    BY <2>1, <2>2, <2>3, NextMoves
<1> QED
  BY <1>1, <1>2, TypeCorrect, PTL DEF Spec

\* No row counts more attempts than executions were begun, those of the workers that
\* still execute it included.
RanInv ==
  /\ \A j \in Jobs : attempts[j] <= runs[j]
  /\ \A p \in Procs, t \in Threads :
       task[p][t] # Idle => task[p][t].attempts < runs[task[p][t].job]

LEMMA MoveKeepsRan ==
  ASSUME TypeOK, RanInv, QueueMove
  PROVE  RanInv'
<1>0. /\ attempts \in [Jobs -> Nat] /\ runs \in [Jobs -> Nat]
      /\ task \in [Procs -> [Threads -> Loaded \cup {Idle}]]
  BY DEF TypeOK
<1>1. ASSUME UNCHANGED <<attempts, runs, task>> PROVE RanInv'
  BY <1>1 DEF RanInv
<1>2. ASSUME NEW j \in Jobs, Enqueue(j) \/ TimerPasses(j) PROVE RanInv'
  BY <1>1, <1>2 DEF Enqueue, TimerPasses
<1>3. ASSUME NEW p \in Procs,
             PollCommit(p) \/ Dispatch(p) \/ SweepSelect(p) \/ SweepCommit(p) \/ Stop(p)
      PROVE  RanInv'
  BY <1>1, <1>3 DEF PollCommit, Dispatch, SweepSelect, SweepCommit, Stop
<1>4. ASSUME NEW p \in Procs, Restart(p) \/ Crash(p) PROVE RanInv'
  <2>1. UNCHANGED <<attempts, runs>> /\ task' = [task EXCEPT ![p] = [t \in Threads |-> Idle]]
    BY <1>4 DEF Restart, Crash, NewAdapter
  <2>2. \A q \in Procs, t \in Threads : task'[q][t] \in {task[q][t], Idle}
    BY <1>0, <2>1
  <2> QED
    BY <2>1, <2>2 DEF RanInv
<1>5. ASSUME NEW p \in Procs, NEW t \in Threads, NEW j \in Jobs, RunStart(p, t, j)
      PROVE  RanInv'
  <2>1. CASE UNCHANGED <<task, runs>>
    BY <1>1, <1>5, <2>1 DEF RunStart
  <2>2. CASE ~UNCHANGED <<task, runs>>
    <3> DEFINE r == [job |-> j, status |-> status[j], attempts |-> attempts[j]]
    <3>1. /\ task' = [task EXCEPT ![p] = [task[p] EXCEPT ![t] = r]]
          /\ runs' = [runs EXCEPT ![j] = runs[j] + 1] /\ attempts' = attempts
      BY <1>5, <2>2 DEF RunStart
    <3>2. r.job = j /\ r.attempts = attempts[j]
      OBVIOUS
    <3> HIDE DEF r
    <3>3. \A k \in Jobs : runs[k] <= runs'[k] /\ runs[k] \in Nat /\ runs'[k] \in Nat
      BY <1>0, <3>1
    <3>4. runs'[j] = runs[j] + 1
      BY <1>0, <3>1
    <3>5. \A q \in Procs, u \in Threads : task'[q][u] = IF q = p /\ u = t THEN r ELSE task[q][u]
      BY <1>0, <3>1
    <3>6. ASSUME NEW q \in Procs, NEW u \in Threads, task'[q][u] # Idle
          PROVE  task'[q][u].attempts < runs'[task'[q][u].job]
      <4>1. CASE q = p /\ u = t
        BY <1>0, <3>2, <3>4, <3>5, <4>1 DEF RanInv
      <4>2. CASE ~(q = p /\ u = t)
        <5>1. task'[q][u] = task[q][u] /\ task[q][u] \in Loaded
          BY <1>0, <3>5, <3>6, <4>2
        <5>2. task[q][u].job \in Jobs /\ task[q][u].attempts \in Nat
          BY <5>1 DEF Loaded
        <5>3. task[q][u].attempts < runs[task[q][u].job]
          BY <3>6, <5>1 DEF RanInv
        <5> QED
          BY <3>3, <5>1, <5>2, <5>3
      <4> QED
        BY <4>1, <4>2
    <3>7. \A k \in Jobs : attempts'[k] <= runs'[k]
      BY <1>0, <3>1, <3>3 DEF RanInv
    <3> QED
      BY <3>6, <3>7 DEF RanInv
  <2> QED
    BY <2>1, <2>2
<1>6. ASSUME NEW p \in Procs, NEW t \in Threads, NEW o \in Outcomes, RunFinish(p, t, o)
      PROVE  RanInv'
  <2> DEFINE r == task[p][t]
  <2>1. /\ r # Idle /\ runs' = runs
        /\ task' = [task EXCEPT ![p] = [task[p] EXCEPT ![t] = Idle]]
        /\ attempts' = attempts \/ attempts' = [attempts EXCEPT ![r.job] = r.attempts + 1]
    BY <1>6 DEF RunFinish, table
  <2>2. r \in Loaded /\ r.attempts < runs[r.job]
    BY <1>0, <2>1 DEF RanInv
  <2>3. r.job \in Jobs /\ r.attempts \in Nat
    BY <2>2 DEF Loaded
  <2> HIDE DEF r
  <2>4. \A k \in Jobs : attempts'[k] <= runs'[k]
    BY <1>0, <2>1, <2>2, <2>3 DEF RanInv
  <2>5. \A q \in Procs, u \in Threads : task'[q][u] \in {task[q][u], Idle}
    BY <1>0, <2>1
  <2> QED
    BY <2>1, <2>4, <2>5 DEF RanInv
<1> QED
  BY <1>2, <1>3, <1>4, <1>5, <1>6 DEF QueueMove

\* The counter of attempts never runs ahead of what was executed, with or without row
\* locks, however many workers hold one row at once and whatever is swept or killed.
THEOREM AttemptsWereRuns == Spec => []RanInv
<1>1. Init => RanInv
  BY DEF Init, RanInv
<1>2. TypeOK /\ RanInv /\ [Next]_vars => RanInv'
  <2> SUFFICES ASSUME TypeOK, RanInv, [Next]_vars PROVE RanInv'
    OBVIOUS
  <2>1. ASSUME NEW p \in Procs, PollSelect(p) PROVE RanInv'
    BY <2>1 DEF PollSelect, PollFrom, RanInv
  <2>2. CASE UNCHANGED vars
    BY <2>2 DEF vars, RanInv
  <2> QED
    BY <2>1, <2>2, MoveKeepsRan, NextMoves
<1> QED
  BY <1>1, <1>2, TypeCorrect, PTL DEF Spec

-------------------------------------------------------------------------------
(***************************************************************************)
(* The refinement: JobQueue implements the safety part of JobContract.     *)
(***************************************************************************)

\* Steps that leave statuses and executions alone leave every stage alone.
LEMMA SameStage ==
  ASSUME \A j \in Jobs : (Executing(j)' <=> Executing(j)) /\
           ( status'[j] = status[j]
             \/ /\ {status[j], status'[j]} \subseteq Pollable \cup {"running"} )
  PROVE  stage' = stage
BY DEF stage, Pollable, Terminal

\* A worker that takes a row begins an execution, unless it cannot resolve it.
LEMMA RunStartStage ==
  ASSUME TypeOK, IInv, NEW p \in Procs, NEW t \in Threads, NEW j \in Jobs, RunStart(p, t, j)
  PROVE  Contract!Begin(j) \/ stage' = stage
<1> USE DEF TypeOK
<1>1. /\ Holds(p, j) /\ status[j] = "running" /\ status' = status
      /\ backlog[p][j] # 0 /\ task[p][t] = Idle
    BY DEF RunStart, Holds, IInv, OwnershipInv, HeldInv
<1>2. CASE j \in Broken
  <2>1. \A k \in Jobs : Executing(k)' <=> Executing(k)
    BY <1>2 DEF RunStart, Executing, Executes
  <2> QED BY <1>1, <2>1, SameStage
<1>3. CASE j \notin Broken
  <2> DEFINE r == [job |-> j, status |-> status[j], attempts |-> attempts[j]]
  <2>1. \A q \in Procs, u \in Threads :
          task'[q][u] = IF q = p /\ u = t THEN r ELSE task[q][u]
    BY <1>1, <1>3 DEF RunStart, Exists
  <2>2. r # Idle
    BY IdleAssumption DEF Loaded
  <2>3. \A k \in Jobs : Executing(k)' <=> Executing(k) \/ k = j
    <3>1. \A q \in Procs, u \in Threads, k \in Jobs :
            Executes(q, u, k)' <=> Executes(q, u, k) \/ (q = p /\ u = t /\ k = j)
      BY <1>1, <2>1, <2>2 DEF Executes
    <3> QED BY <3>1 DEF Executing
  <2>4. ~Executing(j)
    <3>1. \A u \in Threads : ~Executes(p, u, j)
      BY <1>1 DEF IInv, OwnershipInv, PlaceInv
    <3>2. \A q \in Procs \ {p} : ~Holds(q, j)
      BY <1>1 DEF IInv, OwnershipInv, HeldInv
    <3> QED BY <3>1, <3>2 DEF Holds, Executing
  <2> QED BY <1>1, <2>3, <2>4 DEF Contract!Begin, Contract!Move, stage, Terminal
<1> QED BY <1>2, <1>3

\* A worker that writes an outcome settles the row or gives it back.
LEMMA RunFinishStage ==
  ASSUME TypeOK, IInv, NEW p \in Procs, NEW t \in Threads, NEW o \in Outcomes,
         RunFinish(p, t, o)
  PROVE  \E j \in Jobs : Contract!Settle(j) \/ Contract!GiveBack({j})
<1> USE DEF TypeOK
<1> DEFINE r == task[p][t]
<1>1. PICK j \in Jobs : j = r.job /\ r \in Loaded /\ r # Idle /\ Executes(p, t, j)
    BY DEF RunFinish, Executes, Loaded
<1>2. Holds(p, j)
    BY <1>1 DEF Holds
<1>3. status[j] = "running" /\ r.status = "running"
    BY <1>1, <1>2 DEF IInv, OwnershipInv, HeldInv, AttemptsInv
<1>4. PICK v \in Terminal \cup {"retrying"} : v = Verdict(r, o)
    BY <1>1, VerdictType
<1>5. /\ status' = [status EXCEPT ![j] = v]
      /\ \A q \in Procs, u \in Threads :
           task'[q][u] = IF q = p /\ u = t THEN Idle ELSE task[q][u]
  <2>1. v # r.status /\ Exists(j)
    BY <1>3 DEF Terminal, Exists
  <2> QED BY <1>1, <1>3, <1>4, <2>1 DEF RunFinish
<1>6. \A q \in Procs, u \in Threads : Executes(q, u, j) => q = p /\ u = t
    BY <1>1, <1>2 DEF IInv, OwnershipInv, HeldInv, PlaceInv, Holds
<1>7. \A k \in Jobs : Executing(k)' <=> Executing(k) /\ k # j
  <2>1. \A q \in Procs, u \in Threads, k \in Jobs :
          Executes(q, u, k)' <=> Executes(q, u, k) /\ ~(q = p /\ u = t)
    BY <1>5 DEF Executes
  <2>2. \A k \in Jobs : Executes(p, t, k) => k = j
    BY <1>1 DEF Executes
  <2> QED BY <1>6, <2>1, <2>2 DEF Executing
<1>8. stage[j] = "executing"
    BY <1>1, <1>3 DEF stage, Executing, Terminal
<1>9. CASE v \in Terminal
  <2>1. stage' = [stage EXCEPT ![j] = "settled"]
    BY <1>5, <1>7, <1>9 DEF stage, Terminal
  <2> QED BY <1>8, <2>1 DEF Contract!Settle, Contract!Move
<1>10. CASE v = "retrying"
  <2>1. stage' = [k \in Jobs |-> IF k \in {j} THEN "waiting" ELSE stage[k]]
    BY <1>5, <1>7, <1>10 DEF stage, Terminal
  <2> QED BY <1>8, <2>1 DEF Contract!GiveBack
<1> QED BY <1>9, <1>10

\* A process that ends gives back what it was executing.
LEMMA NewAdapterStage ==
  ASSUME TypeOK, IInv, NEW p \in Procs, NewAdapter(p), status' = status
  PROVE  \E S \in SUBSET Jobs : Contract!GiveBack(S)
<1> DEFINE S == {j \in Jobs : \E t \in Threads : Executes(p, t, j)}
<1>1. \A j \in S : status[j] = "running" /\ \A q \in Procs \ {p}, t \in Threads : ~Executes(q, t, j)
    BY DEF IInv, OwnershipInv, HeldInv, Holds
<1>2. \A j \in S : stage[j] = "executing"
    BY <1>1 DEF stage, Executing, Terminal
<1>3. \A j \in Jobs : Executing(j)' <=> Executing(j) /\ j \notin S
    BY <1>1, NewAdapterHands DEF Executing
<1>4. stage' = [j \in Jobs |-> IF j \in S THEN "waiting" ELSE stage[j]]
    BY <1>1, <1>3 DEF stage, Terminal
<1> HIDE DEF S
<1>5. S \in SUBSET Jobs
    BY DEF S
<1> QED BY <1>2, <1>4, <1>5 DEF Contract!GiveBack

LEMMA NextStage ==
  ASSUME TypeOK, IInv, [Next]_vars
  PROVE  [Contract!Next]_stage
<1> USE DEF TypeOK
<1>1. ASSUME NEW j \in Jobs, Enqueue(j) PROVE Contract!Next
  <2>1. \A k \in Jobs : Executing(k)' <=> Executing(k)
    BY <1>1 DEF Enqueue, Executing, Executes
  <2>2. stage[j] = "unknown" /\ ~Executing(j)
    BY <1>1 DEF Enqueue, stage, Executing, IInv, OwnershipInv, HeldInv, Holds
  <2>3. stage' = [stage EXCEPT ![j] = "waiting"]
    BY <1>1, <2>1, <2>2 DEF Enqueue, stage, Terminal
  <2> QED BY <2>2, <2>3 DEF Contract!Next, Contract!Submit, Contract!Move
<1>2. CASE \/ \E j \in Jobs : TimerPasses(j)
           \/ \E p \in Procs : PollSelect(p) \/ Dispatch(p) \/ SweepSelect(p) \/ Stop(p)
           \/ UNCHANGED vars
  <2>1. status' = status /\ task' = task
    BY <1>2 DEF TimerPasses, PollSelect, PollFrom, Dispatch, SweepSelect, Stop, vars
  <2>2. \A k \in Jobs : Executing(k)' <=> Executing(k)
    BY <2>1 DEF Executing, Executes
  <2> QED BY <2>1, <2>2, SameStage
<1>3. ASSUME NEW p \in Procs, PollCommit(p) PROVE stage' = stage
  <2>1. \A k \in Jobs : Executing(k)' <=> Executing(k)
    BY <1>3 DEF PollCommit, Executing, Executes
  <2>2. \A k \in Jobs : status'[k] = status[k] \/ {status[k], status'[k]} \subseteq Pollable \cup {"running"}
    <3>1. \A k \in batch[p] : status[k] \in Pollable
      <4>1. phase[p] = "selected" /\ SelectedInv
        BY <1>3 DEF PollCommit, IInv, OwnershipInv
      <4> QED
        BY <4>1 DEF SelectedInv
    <3>2. \A k \in Jobs : status'[k] = status[k] \/ (k \in batch[p] /\ status'[k] = "running")
      BY <1>3, ClaimWrites
    <3> QED BY <3>1, <3>2
  <2> QED BY <2>1, <2>2, SameStage
<1>4. ASSUME NEW p \in Procs, SweepCommit(p) PROVE stage' = stage
  <2>1. \A k \in Jobs : Executing(k)' <=> Executing(k)
    BY <1>4 DEF SweepCommit, Executing, Executes
  <2>2. \A k \in Jobs : status'[k] = status[k] \/ {status[k], status'[k]} \subseteq Pollable \cup {"running"}
    BY <1>4 DEF SweepCommit, IInv, OwnershipInv, SweptInv, Pollable
  <2> QED BY <2>1, <2>2, SameStage
<1>5. ASSUME NEW p \in Procs, Restart(p) \/ Crash(p) PROVE Contract!Next
  <2>1. NewAdapter(p) /\ status' = status
    BY <1>5 DEF Restart, Crash
  <2> QED BY <2>1, NewAdapterStage DEF Contract!Next
<1>6. ASSUME NEW p \in Procs, NEW t \in Threads, NEW j \in Jobs, RunStart(p, t, j)
      PROVE  [Contract!Next]_stage
  BY <1>6, RunStartStage DEF Contract!Next
<1>7. ASSUME NEW p \in Procs, NEW t \in Threads, NEW o \in Outcomes, RunFinish(p, t, o)
      PROVE  Contract!Next
  BY <1>7, RunFinishStage DEF Contract!Next
<1> QED BY <1>1, <1>2, <1>3, <1>4, <1>5, <1>6, <1>7 DEF Next

\* JobQueue keeps perform_later's promise: one execution at a time, and none
\* after the outcome.
THEOREM Refinement ==
  ASSUME Prompt
  PROVE  Spec => KeepsContract
<1>1. Init => Contract!Init
    BY DEF Init, Contract!Init, stage
<1>2. TypeOK /\ IInv /\ [Next]_vars => [Contract!Next]_stage
    BY NextStage
<1> QED BY <1>1, <1>2, TypeCorrect, Invariance, PTL DEF Spec, KeepsContract, Contract!Spec

-------------------------------------------------------------------------------
(***************************************************************************)
(* JobOutbox, whatever outlasts its timer.  Type correctness: most steps   *)
(* are steps of the job queue.                                             *)
(***************************************************************************)

\* What a caller's session or a listener writes leaves the queue well typed.
LEMMA WriteType ==
  ASSUME TypeOK, NEW j \in Jobs, NEW s \in Status, Write(j, s)
  PROVE  TypeOK'
BY DEF TypeOK, Write

\* A poll from any eligible rows leaves the queue well typed.
LEMMA PollType ==
  ASSUME TypeOK, NEW p \in Procs, Poll(p)
  PROVE  TypeOK'
<1>1. Eligible \ Pinned \subseteq Jobs
  BY JobQueueAssumption DEF Eligible
<1> QED BY <1>1 DEF Poll, PollFrom, TypeOK, Phase

\* The steps of JobQueue that JobOutbox takes over as they are.
LEMMA QueueStepIsNext ==
  ASSUME QueueStep
  PROVE  Next \/ \E p \in Procs : Poll(p)
BY DEF QueueStep, Sweep, RestartDrained, Finish, Next

LEMMA QueueStepMoves ==
  ASSUME QueueStep
  PROVE  QueueMove \/ \E p \in Procs : Poll(p)
BY DEF QueueStep, Sweep, RestartDrained, Finish, QueueMove

LEMMA NextOutboxType == OutboxTypeOK /\ [OutboxNext]_ovars => OutboxTypeOK'
<1> SUFFICES ASSUME OutboxTypeOK, [OutboxNext]_ovars PROVE OutboxTypeOK'
  OBVIOUS
<1>0. TypeOK /\ caller \in [Jobs -> Caller]
  BY DEF OutboxTypeOK
<1>1. ASSUME NEW j \in Jobs, NEW c, c \in Caller, caller' = [caller EXCEPT ![j] = c]
      PROVE  caller' \in [Jobs -> Caller]
  BY <1>0, <1>1
<1>2. UNCHANGED vars => TypeOK'
  BY <1>0, NextType
<1> USE DEF Moves, Caller, Open, Uncommitted, Deciding
<1>3. ASSUME NEW j \in Jobs, PerformLater(j) PROVE OutboxTypeOK'
  <2>1. TypeOK'
    BY <1>0, <1>3, NextType DEF PerformLater, Next
  <2> QED BY <2>1, <1>1, <1>3 DEF PerformLater, OutboxTypeOK
<1>4. ASSUME NEW j \in Jobs,
             Enlist(j) \/ Flush(j) \/ RollBack(j) \/ CloseSession(j) \/ PromoteRead(j)
      PROVE  OutboxTypeOK'
  <2>1. UNCHANGED vars
    BY <1>4 DEF Enlist, Flush, RollBack, CloseSession, PromoteRead
  <2>2. caller' \in [Jobs -> Caller]
    BY <1>0, <1>4 DEF Enlist, Flush, RollBack, CloseSession, PromoteRead
  <2> QED BY <1>2, <2>1, <2>2 DEF OutboxTypeOK
<1>5. ASSUME NEW j \in Jobs, CommitCaller(j) PROVE OutboxTypeOK'
  <2>1. TypeOK'
    BY <1>0, <1>5, WriteType DEF CommitCaller, Status
  <2> QED BY <2>1, <1>0, <1>5 DEF CommitCaller, OutboxTypeOK
<1>6. ASSUME NEW j \in Jobs, PromoteWrite(j) PROVE OutboxTypeOK'
  <2>1. TypeOK'
    BY <1>0, <1>2, <1>6, WriteType DEF PromoteWrite, Status, Pollable
  <2> QED BY <2>1, <1>0, <1>6 DEF PromoteWrite, OutboxTypeOK
<1>7. ASSUME NEW j \in Jobs, Discard(j) PROVE OutboxTypeOK'
  <2>1. TypeOK'
    BY <1>0, <1>7 DEF Discard, TypeOK, Status, Terminal
  <2> QED BY <2>1, <1>0, <1>7 DEF Discard, OutboxTypeOK
<1>8. CASE QueueStep /\ UNCHANGED caller
  <2>1. TypeOK'
    BY <1>0, <1>8, QueueStepIsNext, PollType, NextType
  <2> QED BY <2>1, <1>0, <1>8 DEF OutboxTypeOK
<1>9. ASSUME NEW p \in Procs, CrashWithCallers(p) PROVE OutboxTypeOK'
  <2>1. TypeOK'
    BY <1>0, <1>9, NextType DEF CrashWithCallers, Next
  <2>2. caller' \in [Jobs -> Caller]
    BY <1>0, <1>9 DEF CrashWithCallers, Killed
  <2> QED BY <2>1, <2>2 DEF OutboxTypeOK
<1>10. CASE UNCHANGED ovars
  BY <1>0, <1>2, <1>10 DEF ovars, OutboxTypeOK
<1> QED
  BY <1>3, <1>4, <1>5, <1>6, <1>7, <1>8, <1>9, <1>10 DEF OutboxNext

\* Every variable of the composition keeps its type.
THEOREM OutboxTypeCorrect == OutboxSpec => []OutboxTypeOK
<1>1. OutboxInit => OutboxTypeOK
  BY InitType DEF OutboxInit, OutboxTypeOK, Caller
<1> QED BY <1>1, NextOutboxType, PTL DEF OutboxSpec

-------------------------------------------------------------------------------
(***************************************************************************)
(* The inductive invariant: who may write a row that is not there any more *)
(* or is PENDING.                                                          *)
(***************************************************************************)

\* A row exists once its caller has enqueued it, and a discarded one never again.
GoneInv ==
  \A j \in Jobs :
    /\ status[j] = "absent" <=> caller[j] = "away"
    /\ caller[j] = "gone" => status[j] = "deleted"

OutboxInv == GoneInv /\ SpentInv /\ PendingIsOwned

\* No step of the job queue brings a row into being or back, or makes it PENDING.
LEMMA QueueKeepsRows ==
  ASSUME TypeOK, SpentInv, QueueStep \/ \E p \in Procs : Crash(p), NEW j \in Jobs
  PROVE  /\ status'[j] = "absent" <=> status[j] = "absent"
         /\ status[j] = "deleted" => status'[j] = "deleted"
         /\ status'[j] = "pending" => status[j] = "pending"
<1>1. ASSUME UNCHANGED status PROVE status'[j] = status[j]
  BY <1>1
<1>2. CASE \/ \E k \in Jobs : TimerPasses(k)
           \/ \E p \in Procs : \/ Poll(p) \/ Dispatch(p) \/ SweepSelect(p) \/ Stop(p)
                               \/ RestartDrained(p) \/ Crash(p)
           \/ \E p \in Procs, t \in Threads, k \in Jobs : RunStart(p, t, k)
  <2>1. UNCHANGED status
    BY <1>2 DEF TimerPasses, Poll, PollFrom, Dispatch, SweepSelect, Stop,
                RestartDrained, Restart, Crash, RunStart
  <2> QED BY <2>1
<1>3. ASSUME NEW p \in Procs, PollCommit(p)
      PROVE  status'[j] = status[j] \/ (status'[j] = "running" /\ Exists(j))
  <2>1. CASE \A k \in batch[p] : Exists(k)
    <3>1. status' = [k \in Jobs |-> IF k \in batch[p] THEN "running" ELSE status[k]]
      BY <1>3, <2>1 DEF PollCommit
    <3> QED BY <2>1, <3>1
  <2>2. CASE ~ \A k \in batch[p] : Exists(k)
    BY <1>3, <2>2 DEF PollCommit
  <2> QED BY <2>1, <2>2
<1>4. ASSUME NEW p \in Procs, Sweep(p)
      PROVE  \/ status'[j] = status[j]
             \/ status'[j] \in {"failed", "retrying"} /\ Exists(j)
  <2>1. spent[p] \subseteq batch[p]
    BY DEF SpentInv
  <2>2. CASE \A k \in batch[p] : Exists(k)
    <3>1. status' = [k \in Jobs |-> IF k \in spent[p] THEN "failed"
                                  ELSE IF k \in batch[p] THEN "retrying" ELSE status[k]]
      BY <1>4, <2>2 DEF Sweep, SweepCommit
    <3> QED BY <2>1, <2>2, <3>1
  <2>3. CASE ~ \A k \in batch[p] : Exists(k)
    BY <1>4, <2>3 DEF Sweep, SweepCommit
  <2> QED BY <2>2, <2>3
<1>5. ASSUME NEW p \in Procs, NEW t \in Threads, NEW o \in Outcomes, Finish(p, t, o)
      PROVE  \/ status'[j] = status[j]
             \/ status'[j] \in Terminal \cup {"retrying"} /\ Exists(j)
  <2>1. task[p][t] \in Loaded
    BY <1>5 DEF Finish, TypeOK
  <2>2. Verdict(task[p][t], o) \in Terminal \cup {"retrying"}
    BY <2>1, VerdictType
  <2>3. \/ UNCHANGED status
        \/ /\ Exists(task[p][t].job)
           /\ status' = [status EXCEPT ![task[p][t].job] = Verdict(task[p][t], o)]
    BY <1>5 DEF Finish, RunFinish, table, TypeOK
  <2>4. status \in [Jobs -> Status] /\ task[p][t].job \in Jobs
    BY <2>1 DEF TypeOK, Loaded
  <2> HIDE DEF Terminal
  <2> QED BY <2>2, <2>3, <2>4
<1> QED
  BY <1>2, <1>3, <1>4, <1>5 DEF QueueStep, Exists, Terminal

\* Only RunStart counts a run.
LEMMA QueueFrame ==
  ASSUME QueueStep
  PROVE  UNCHANGED runs \/ \E p \in Procs, t \in Threads, j \in Jobs : RunStart(p, t, j)
<1>1. ASSUME NEW j \in Jobs, TimerPasses(j) PROVE UNCHANGED runs
  BY <1>1 DEF TimerPasses
<1>2. ASSUME NEW p \in Procs, Poll(p) \/ PollCommit(p) \/ Dispatch(p)
      PROVE  UNCHANGED runs
  BY <1>2 DEF Poll, PollFrom, PollCommit, Dispatch
<1>3. ASSUME NEW p \in Procs, SweepSelect(p) \/ Sweep(p) \/ Stop(p) \/ RestartDrained(p)
      PROVE  UNCHANGED runs
  BY <1>3 DEF SweepSelect, Sweep, SweepCommit, Stop, RestartDrained, Restart
<1>4. ASSUME NEW p \in Procs, NEW t \in Threads, NEW o \in Outcomes, Finish(p, t, o)
      PROVE  UNCHANGED runs
  BY <1>4 DEF Finish, RunFinish
<1> QED
  BY <1>1, <1>2, <1>3, <1>4 DEF QueueStep

LEMMA NextSpentInv ==
  ASSUME TypeOK, SpentInv, [OutboxNext]_ovars
  PROVE  SpentInv'
<1>1. ASSUME UNCHANGED <<phase, batch, spent>> PROVE SpentInv'
  BY <1>1 DEF SpentInv
<1>2. ASSUME NEW j \in Jobs,
             \/ PerformLater(j) \/ Enlist(j) \/ Flush(j) \/ CommitCaller(j)
             \/ RollBack(j) \/ CloseSession(j)
             \/ PromoteRead(j) \/ PromoteWrite(j) \/ Discard(j)
      PROVE  SpentInv'
  BY <1>1, <1>2 DEF PerformLater, Enqueue, Enlist, Flush, CommitCaller, RollBack,
     CloseSession, PromoteRead, PromoteWrite, Discard, Write, vars
<1>3. CASE QueueStep
  BY <1>3, QueueStepMoves, MoveKeepsSpent, PollKeepsSpent DEF Poll
<1>4. ASSUME NEW p \in Procs, CrashWithCallers(p) PROVE SpentInv'
  BY <1>4, MoveKeepsSpent DEF CrashWithCallers, QueueMove
<1>5. CASE UNCHANGED ovars
  BY <1>1, <1>5 DEF ovars, vars
<1> QED
  BY <1>2, <1>3, <1>4, <1>5 DEF OutboxNext

\* What a step of one caller's session, or of a listener of it, does to the row.
LEMMA CallerStep ==
  ASSUME OutboxTypeOK, GoneInv, PendingIsOwned, NEW j \in Jobs,
         \/ PerformLater(j) \/ Enlist(j) \/ Flush(j) \/ CommitCaller(j)
         \/ RollBack(j) \/ CloseSession(j)
         \/ PromoteRead(j) \/ PromoteWrite(j) \/ Discard(j)
  PROVE  GoneInv' /\ PendingIsOwned'
<1>0. status \in [Jobs -> Status] /\ caller \in [Jobs -> Caller]
  BY DEF OutboxTypeOK, TypeOK
<1> SUFFICES ASSUME NEW k \in Jobs
             PROVE  /\ status'[k] = "absent" <=> caller'[k] = "away"
                    /\ caller'[k] = "gone" => status'[k] = "deleted"
                    /\ status'[k] = "pending"
                         => caller'[k] \in {"committed", "promoting", "orphaned"}
  BY DEF GoneInv, PendingIsOwned
<1>1. CASE k # j
  <2>1. status'[k] = status[k] /\ caller'[k] = caller[k]
    BY <1>0, <1>1 DEF PerformLater, Enqueue, Enlist, Flush, CommitCaller, RollBack,
       CloseSession, PromoteRead, PromoteWrite, Discard, Write, Moves, vars
  <2> QED BY <2>1, <1>0 DEF GoneInv, PendingIsOwned
<1>2. CASE k = j
  <2> USE <1>0, <1>2 DEF GoneInv, PendingIsOwned, Moves
  <2>1. CASE PerformLater(j)
    BY <2>1 DEF PerformLater, Enqueue
  <2>2. CASE Enlist(j) \/ Flush(j)
    BY <2>2 DEF Enlist, Flush, vars
  <2>3. CASE CommitCaller(j)
    BY <2>3 DEF CommitCaller, Write
  <2>4. CASE RollBack(j) \/ CloseSession(j)
    BY <2>4 DEF RollBack, CloseSession, vars, Uncommitted
  <2>5. CASE PromoteRead(j)
    BY <2>5 DEF PromoteRead, vars
  <2>6. CASE PromoteWrite(j)
    BY <2>6 DEF PromoteWrite, Write, Exists, vars
  <2>7. CASE Discard(j)
    BY <2>7 DEF Discard
  <2> QED BY <2>1, <2>2, <2>3, <2>4, <2>5, <2>6, <2>7
<1> QED BY <1>1, <1>2

LEMMA NextOutboxInv == OutboxTypeOK /\ OutboxInv /\ [OutboxNext]_ovars => OutboxInv'
<1> SUFFICES ASSUME OutboxTypeOK, OutboxInv, [OutboxNext]_ovars PROVE OutboxInv'
  OBVIOUS
<1>1. TypeOK /\ GoneInv /\ SpentInv /\ PendingIsOwned /\ caller \in [Jobs -> Caller]
  BY DEF OutboxTypeOK, OutboxInv
<1>2. SpentInv'
  BY <1>1, NextSpentInv
<1>3. CASE QueueStep /\ UNCHANGED caller
  <2>1. GoneInv' /\ PendingIsOwned'
    BY <1>1, <1>3, QueueKeepsRows DEF GoneInv, PendingIsOwned
  <2> QED BY <1>2, <2>1 DEF OutboxInv
<1>4. ASSUME NEW p \in Procs, CrashWithCallers(p) PROVE OutboxInv'
  <2>1. \A j \in Jobs : /\ caller'[j] = "away" <=> caller[j] = "away"
                        /\ caller'[j] = "gone" => caller[j] = "gone"
                        /\ caller[j] \in {"committed", "promoting", "orphaned"} =>
                             caller'[j] \in {caller[j], "orphaned"}
    <3>1. SUFFICES ASSUME NEW j \in Jobs
                   PROVE  /\ caller'[j] = "away" <=> caller[j] = "away"
                          /\ caller'[j] = "gone" => caller[j] = "gone"
                          /\ caller[j] \in {"committed", "promoting", "orphaned"} =>
                               caller'[j] \in {caller[j], "orphaned"}
      OBVIOUS
    <3>2. caller'[j] = Killed(caller[j]) \/ caller'[j] = caller[j]
      BY <1>1, <1>4 DEF CrashWithCallers
    <3> QED BY <3>2 DEF Killed, Open, Uncommitted, Deciding
  <2>2. GoneInv'
    BY <1>1, <1>4, <2>1, QueueKeepsRows DEF GoneInv, CrashWithCallers
  <2>3. status' = status
    BY <1>4 DEF CrashWithCallers, Crash
  <2>4. PendingIsOwned'
    BY <1>1, <2>1, <2>3 DEF PendingIsOwned
  <2> QED BY <1>2, <2>2, <2>4 DEF OutboxInv
<1>5. CASE UNCHANGED ovars
  BY <1>1, <1>2, <1>5 DEF ovars, vars, GoneInv, PendingIsOwned, OutboxInv
<1> QED
  BY <1>1, <1>2, <1>3, <1>4, <1>5, CallerStep DEF OutboxNext, OutboxInv

THEOREM OutboxInvariance == OutboxSpec => [](OutboxTypeOK /\ OutboxInv)
<1>1. OutboxInit => OutboxTypeOK
  BY InitType DEF OutboxInit, OutboxTypeOK, Caller
<1>2. OutboxInit => OutboxInv
  BY DEF OutboxInit, Init, OutboxInv, GoneInv, SpentInv, PendingIsOwned
<1> QED BY <1>1, <1>2, NextOutboxType, NextOutboxInv, PTL DEF OutboxSpec

\* Every PENDING row is about to be promoted, or its process was killed just then.
THEOREM PendingIsOwnedHolds == OutboxSpec => []PendingIsOwned
<1>1. OutboxInv => PendingIsOwned
  BY DEF OutboxInv
<1> QED BY <1>1, OutboxInvariance, PTL

\* No worker begins to execute a job whose caller has rolled back, whatever the
\* order of the poll, the sweep, the rollback and the crashes.
THEOREM RollbackIsRespectedHolds == OutboxSpec => RollbackIsRespected
<1>1. ASSUME OutboxTypeOK, OutboxInv, [OutboxNext]_ovars,
             NEW j \in Jobs, caller[j] = "gone"
      PROVE  runs'[j] = runs[j]
  <2>1. ~Exists(j)
    BY <1>1 DEF OutboxInv, GoneInv, Exists
  <2>2. ASSUME NEW p \in Procs, NEW t \in Threads, NEW k \in Jobs, RunStart(p, t, k)
        PROVE  runs'[j] = runs[j]
    BY <2>1, <2>2, <1>1 DEF RunStart, OutboxTypeOK, TypeOK
  <2>3. \/ UNCHANGED runs
        \/ \E p \in Procs, t \in Threads, k \in Jobs : RunStart(p, t, k)
    <3>1. ASSUME NEW k \in Jobs,
                 \/ PerformLater(k) \/ Enlist(k) \/ Flush(k) \/ CommitCaller(k)
                 \/ RollBack(k) \/ CloseSession(k)
                 \/ PromoteRead(k) \/ PromoteWrite(k) \/ Discard(k)
          PROVE  UNCHANGED runs
      BY <3>1 DEF PerformLater, Enqueue, Enlist, Flush, CommitCaller, Write, RollBack,
         CloseSession, PromoteRead, PromoteWrite, Discard, vars
    <3>2. ASSUME NEW p \in Procs, CrashWithCallers(p) PROVE UNCHANGED runs
      BY <3>2 DEF CrashWithCallers, Crash
    <3> QED BY <1>1, <3>1, <3>2, QueueFrame DEF OutboxNext, ovars, vars
  <2> QED BY <2>2, <2>3
<1>2. OutboxTypeOK /\ OutboxInv /\ [OutboxNext]_ovars
        => [\A j \in Jobs : caller[j] = "gone" => runs'[j] = runs[j]]_ovars
  BY <1>1
<1> QED BY <1>2, OutboxInvariance, PTL DEF OutboxSpec, RollbackIsRespected

-------------------------------------------------------------------------------
(***************************************************************************)
(* What locks alone give, with the callers' sessions and their listeners   *)
(* among those that write the table.                                       *)
(***************************************************************************)

\* No poll has selected a row that a caller's session has written.
SelectedUnpinned == \A p \in Procs : phase[p] = "selected" => batch[p] \cap Pinned = {}

\* A listener or a session writes rows that are its own or not locked.
LEMMA CallerKeepsSelection ==
  ASSUME OutboxTypeOK, GoneInv, SkipLocked, SelectionHolds, SelectedUnpinned, NEW j \in Jobs,
         \/ PerformLater(j) \/ Enlist(j) \/ Flush(j) \/ CommitCaller(j)
         \/ RollBack(j) \/ CloseSession(j)
         \/ PromoteRead(j) \/ PromoteWrite(j) \/ Discard(j)
  PROVE  SelectionHolds' /\ SelectedUnpinned'
<1>0. /\ caller \in [Jobs -> Caller] /\ status \in [Jobs -> Status]
      /\ batch \in [Procs -> SUBSET Jobs]
  BY DEF OutboxTypeOK, TypeOK
<1>1. UNCHANGED <<phase, batch>> /\ \A k \in Jobs \ {j} : status'[k] = status[k]
  BY <1>0 DEF PerformLater, Enqueue, Enlist, Flush, CommitCaller, RollBack, CloseSession,
     PromoteRead, PromoteWrite, Discard, Write, vars
<1>2. status'[j] = status[j] \/ ~\E p \in Procs : phase[p] = "selected" /\ j \in batch[p]
  <2>1. CASE PerformLater(j)
    BY <2>1 DEF PerformLater, Enqueue, SelectionHolds, Pollable
  <2>2. CASE Enlist(j) \/ Flush(j) \/ RollBack(j) \/ CloseSession(j) \/ PromoteRead(j)
    BY <2>2 DEF Enlist, Flush, RollBack, CloseSession, PromoteRead, vars
  <2>3. CASE CommitCaller(j)
    BY <2>3 DEF CommitCaller, Moves, SelectedUnpinned, Pinned
  <2>4. CASE PromoteWrite(j) \/ Discard(j)
    BY <2>4 DEF PromoteWrite, Discard, Locked
  <2> QED
    BY <2>1, <2>2, <2>3, <2>4
<1>3. \A k \in Pinned' : k \in Pinned \/ ~\E p \in Procs : phase[p] = "selected" /\ k \in batch[p]
  <2> TAKE k \in Pinned'
  <2>1. k \in Jobs /\ caller'[k] = "flushed"
    BY DEF Pinned
  <2>2. CASE k = j
    <3>1. Flush(j)
      BY <1>0, <2>1, <2>2 DEF PerformLater, Enlist, Flush, CommitCaller, RollBack,
         CloseSession, PromoteRead, PromoteWrite, Discard, Moves
    <3> QED
      BY <2>2, <3>1 DEF Flush, Locked
  <2>3. CASE k # j
    <3>1. caller'[k] = caller[k]
      BY <1>0, <2>1, <2>3 DEF PerformLater, Enlist, Flush, CommitCaller, RollBack,
         CloseSession, PromoteRead, PromoteWrite, Discard, Moves
    <3> QED
      BY <2>1, <3>1 DEF Pinned
  <2> QED
    BY <2>2, <2>3
<1>4. \A p \in Procs : phase[p] = "selected" => \A k \in batch[p] : status'[k] = status[k]
  BY <1>0, <1>1, <1>2
<1>5. SelectionHolds'
  BY <1>1, <1>4, RowsLeftAlone DEF SelectionsKept
<1>6. SelectedUnpinned'
  BY <1>1, <1>3 DEF SelectedUnpinned
<1> QED
  BY <1>5, <1>6

LEMMA NextSelections ==
  ASSUME OutboxTypeOK, OutboxInv, SkipLocked, SelectionHolds, SelectedUnpinned,
         [OutboxNext]_ovars
  PROVE  SelectionHolds' /\ SelectedUnpinned'
<1>1. TypeOK /\ SpentInv /\ GoneInv /\ caller \in [Jobs -> Caller]
  BY DEF OutboxTypeOK, OutboxInv
<1>2. ASSUME QueueMove, Pinned' \subseteq Pinned PROVE SelectionHolds' /\ SelectedUnpinned'
  BY <1>1, <1>2, MoveKeepsSelection DEF SelectionsKept, SelectedUnpinned
<1>3. CASE QueueStep /\ UNCHANGED caller
  <2>1. Pinned' = Pinned
    BY <1>3 DEF Pinned
  <2>2. ASSUME NEW p \in Procs, Poll(p) PROVE SelectionHolds' /\ SelectedUnpinned'
    <3>1. /\ SelectionHolds' /\ batch'[p] \subseteq Eligible \ Pinned
          /\ \A q \in Procs \ {p} : phase'[q] = phase[q] /\ batch'[q] = batch[q]
      BY <1>1, <2>2, PollKeepsSelection DEF Poll
    <3> QED
      BY <2>1, <3>1 DEF SelectedUnpinned
  <2> QED
    BY <1>2, <1>3, <2>1, <2>2, QueueStepMoves
<1>4. ASSUME NEW p \in Procs, CrashWithCallers(p) PROVE SelectionHolds' /\ SelectedUnpinned'
  <2>1. QueueMove
    BY <1>4 DEF CrashWithCallers, QueueMove
  <2>2. Pinned' \subseteq Pinned
    BY <1>4 DEF CrashWithCallers, Pinned, Killed
  <2> QED
    BY <1>2, <2>1, <2>2
<1>5. CASE UNCHANGED ovars
  BY <1>5 DEF ovars, vars, SelectionHolds, SelectedUnpinned, Pinned
<1> QED
  BY <1>1, <1>3, <1>4, <1>5, CallerKeepsSelection DEF OutboxNext

\* Where the database locks rows, no caller's flush, commit, promotion or rollback takes
\* a row from the poll that has selected it, and no poll selects a row that an open
\* session has written.
THEOREM OutboxSelections ==
  ASSUME SkipLocked
  PROVE  OutboxSpec => [](SelectionHolds /\ SelectedUnpinned)
<1>1. OutboxInit => SelectionHolds /\ SelectedUnpinned
  BY DEF OutboxInit, Init, SelectionHolds, SelectedUnpinned
<1>2. OutboxTypeOK /\ OutboxInv /\ SelectionHolds /\ SelectedUnpinned /\ [OutboxNext]_ovars
        => SelectionHolds' /\ SelectedUnpinned'
  BY NextSelections
<1> QED
  BY <1>1, <1>2, OutboxInvariance, PTL DEF OutboxSpec

-------------------------------------------------------------------------------
(***************************************************************************)
(* The two specifications of the queue agree where no caller uses          *)
(* with_session: what JobQueueProofs establishes holds there as well.      *)
(***************************************************************************)

\* No session has anything enlisted.
NoSession == \A j \in Jobs : caller[j] \in {"away", "unlisted"}

\* Without tied jobs, a step of the composition is a step of the queue, and
\* no session is opened.
LEMMA UntiedStep ==
  ASSUME Tied = {}, OutboxTypeOK, NoSession, [OutboxNext]_ovars
  PROVE  [Next]_vars /\ NoSession'
<1>1. /\ caller \in [Jobs -> Caller] /\ Pinned = {} /\ Eligible \ Pinned = Eligible
      /\ \A j \in Jobs : caller[j] \notin {"enqueued", "kept"} \cup Uncommitted \cup Deciding
  BY DEF OutboxTypeOK, NoSession, Pinned, Uncommitted, Deciding
<1>2. ASSUME NEW j \in Jobs, PerformLater(j) PROVE Next /\ NoSession'
  <2>1. caller' = [caller EXCEPT ![j] = "unlisted"] /\ Enqueue(j)
    BY <1>2 DEF PerformLater, Moves
  <2> QED
    BY <1>1, <2>1 DEF NoSession, Next
<1>3. ASSUME NEW j \in Jobs
      PROVE  ~(\/ Enlist(j) \/ Flush(j) \/ CommitCaller(j) \/ RollBack(j) \/ CloseSession(j)
               \/ PromoteRead(j) \/ PromoteWrite(j) \/ Discard(j))
  BY <1>1 DEF Enlist, Flush, CommitCaller, RollBack, CloseSession, PromoteRead,
     PromoteWrite, Discard, Moves, Uncommitted, Deciding
<1>4. ASSUME QueueStep, UNCHANGED caller PROVE Next /\ NoSession'
  <2>1. \A p \in Procs : Poll(p) => PollSelect(p)
    BY <1>1 DEF Poll, PollSelect
  <2> QED
    BY <1>4, <2>1, QueueStepIsNext DEF NoSession, Next
<1>5. ASSUME NEW p \in Procs, CrashWithCallers(p) PROVE Next /\ NoSession'
  <2>1. Crash(p) /\ \A j \in Jobs : caller'[j] = caller[j]
    BY <1>1, <1>5 DEF CrashWithCallers, Killed, Open, Uncommitted, Deciding
  <2> QED
    BY <2>1 DEF NoSession, Next
<1>6. CASE UNCHANGED ovars
  BY <1>6 DEF ovars, NoSession
<1> QED
  BY <1>2, <1>3, <1>4, <1>5, <1>6 DEF OutboxNext

\* enlist and its listeners are the only code that treats a job otherwise than
\* the queue does: with no job tied to a session, the composition implements
\* the specification of the queue alone, step by step.
THEOREM UntiedIsQueue == Tied = {} => (OutboxSpec => Spec)
<1> SUFFICES ASSUME Tied = {} PROVE OutboxSpec => Spec
  OBVIOUS
<1>1. OutboxInit => Init /\ NoSession
  BY DEF OutboxInit, NoSession
<1>2. OutboxTypeOK /\ NoSession /\ [OutboxNext]_ovars => [Next]_vars /\ NoSession'
  BY UntiedStep
<1> QED
  BY <1>1, <1>2, OutboxTypeCorrect, PTL DEF OutboxSpec, Spec
===============================================================================
