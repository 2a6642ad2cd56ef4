------------------------------ MODULE Generations ------------------------------
(***************************************************************************)
(* The life of index generations: full rebuild jobs of several replicas    *)
(* create, fail and activate them, a session lease per job tells a live    *)
(* job from a dead one, and recovery - at the start of a replica and of    *)
(* every rebuild - fails what dead jobs left behind.  What a rebuild puts  *)
(* into its generation is IndexSync's matter.                              *)
(*                                                                         *)
(* A job has at most one generation, so both bear the job's name.  One     *)
(* statement or transaction of the index database is one step; recovery    *)
(* and activation hold the row lock of the building generation from their  *)
(* first look at it to their commit.                                       *)
(***************************************************************************)
EXTENDS Integers, FiniteSets

CONSTANTS
  Replicas,  \* processes
  Jobs,      \* full rebuild jobs that may be started
  Baseline,  \* the generation the migration created
  PoolSize,  \* index database connections of a process
  MaxFaults  \* bound: crashes, lost sessions and answers, failed statements

ASSUME GenerationsAssumption ==
  /\ Baseline \notin Jobs
  /\ IsFiniteSet(Jobs)
  /\ PoolSize \in Nat \ {0, 1}
  /\ MaxFaults \in Nat

VARIABLES
  status,   \* index_generations: status[g], "none" before the row exists
  row,      \* index_sync_log: row[j], "none" before
  at, home, \* where a job's goroutine is, on which replica
  verdict,  \* what the job will report
  lease,    \* jobs whose session holds pg_advisory_lock(-jobID)
  expired,  \* jobs whose 30 minutes are over
  running,  \* replicas with fullRebuildRunning set
  up,       \* replicas that run
  faults

vars == <<status, row, at, home, verdict, lease, expired, running, up, faults>>

Generation == Jobs \cup {Baseline}

Statuses == {"none", "building", "active", "retired", "failed"}
JobStatuses == {"none", "running", "success", "failed"}

\* Stages between the Acquire and the Release of the lease's connection.
Holding == {"leased", "recovered", "building", "ready", "failing", "ending", "unlocking"}
Stages == Holding \cup {"none", "queued", "admitted", "refused", "clearing", "over", "dead"}

Admitted == Holding \cup {"admitted", "clearing"}

Gone == {"none", "over", "dead"}

Having(s) == {g \in Generation : status[g] = s}

Fault == faults < MaxFaults /\ faults' = faults + 1

\* A statement outside the lease's session needs another connection.
FreeConnection(r) ==
  Cardinality({j \in Jobs : home[j] = r /\ at[j] \in Holding}) < PoolSize

\* A statement under the job's context is carried out.
Runs(j) == j \notin expired /\ FreeConnection(home[j])

\* A statement under the job's context fails; past the deadline it must.
Fails(j) == \/ Fault
            \/ j \in expired /\ UNCHANGED faults

Goto(j, from, to) == at[j] = from /\ at' = [at EXCEPT ![j] = to]

Init ==
  /\ status = [g \in Generation |-> IF g = Baseline THEN "active" ELSE "none"]
  /\ row = [j \in Jobs |-> "none"]
  /\ at = [j \in Jobs |-> "none"]
  /\ home \in [Jobs -> Replicas]
  /\ verdict = [j \in Jobs |-> "failed"]
  /\ lease = {} /\ expired = {} /\ running = {}
  /\ up = Replicas
  /\ faults = 0

-------------------------------------------------------------------------------
(***************************************************************************)
(* RecoverStaleBuilding: one transaction.                                  *)
(***************************************************************************)
Unleased(j) == status[j] = "building"  \* mutant: the status row alone decides

Abandoned(j) == status[j] = "building" /\ j \notin lease

RecoverStaleBuilding ==
  /\ status' = [g \in Generation |->
                  IF g \in Jobs /\ Abandoned(g) THEN "failed" ELSE status[g]]
  /\ row' = [j \in Jobs |->
               IF Abandoned(j) /\ row[j] = "running" THEN "failed" ELSE row[j]]

(***************************************************************************)
(* StartFullRebuild and the first steps of runFullRebuild.                 *)
(***************************************************************************)
StartJob(j) ==
  /\ home[j] \in up
  /\ Goto(j, "none", "queued")
  /\ row' = [row EXCEPT ![j] = "running"]
  /\ UNCHANGED <<status, home, verdict, lease, expired, running, up, faults>>

EveryoneAdmitted(j) ==  \* mutant: rebuilds of one replica are not serialised
  /\ Goto(j, "queued", "admitted")
  /\ running' = running \cup {home[j]}
  /\ UNCHANGED <<status, row, home, verdict, lease, expired, up, faults>>

Admit(j) ==
  /\ home[j] \notin running
  /\ Goto(j, "queued", "admitted")
  /\ running' = running \cup {home[j]}
  /\ UNCHANGED <<status, row, home, verdict, lease, expired, up, faults>>

Reject(j) ==
  /\ home[j] \in running
  /\ Goto(j, "queued", "refused")
  /\ UNCHANGED <<status, row, home, verdict, lease, expired, running, up, faults>>

Lease(j) ==
  /\ Runs(j)
  /\ Goto(j, "admitted", "leased")
  /\ lease' = lease \cup {j}
  /\ UNCHANGED <<status, row, home, verdict, expired, running, up, faults>>

\* No connection in five seconds, or the lock cannot be taken.
LeaseFails(j) ==
  /\ Goto(j, "admitted", "clearing")
  /\ \/ Fails(j)
     \/ ~FreeConnection(home[j]) /\ UNCHANGED faults
  /\ row' \in {row, [row EXCEPT ![j] = "failed"]}
  /\ UNCHANGED <<status, home, verdict, lease, expired, running, up>>

(***************************************************************************)
(* GenerationStore.CreateBuilding: recovery, then the insert, which the    *)
(* unique index on the status refuses while a generation is building.      *)
(***************************************************************************)
SlotIgnored == FALSE  \* mutant: no index_generations_single_building_idx

SlotTaken == Having("building") # {}

RecoverFirst(j) ==
  /\ Runs(j)
  /\ Goto(j, "leased", "recovered")
  /\ RecoverStaleBuilding
  /\ UNCHANGED <<home, verdict, lease, expired, running, up, faults>>

CreateBuilding(j) ==
  /\ Runs(j)
  /\ ~SlotTaken
  /\ Goto(j, "recovered", "building")
  /\ status' = [status EXCEPT ![j] = "building"]
  /\ UNCHANGED <<row, home, verdict, lease, expired, running, up, faults>>

ErrRebuildInProgress(j) ==
  /\ Runs(j)
  /\ SlotTaken
  /\ Goto(j, "recovered", "ending")
  /\ UNCHANGED <<status, row, home, verdict, lease, expired, running, up, faults>>

\* The watermark, the recovery or the insert fails; the insert may yet have
\* been carried out, and then nobody marks its generation failed.
CreateFails(j) ==
  /\ Fails(j)
  /\ \/ Goto(j, "leased", "ending") /\ UNCHANGED status
     \/ Goto(j, "recovered", "ending") /\ UNCHANGED status
     \/ /\ Goto(j, "recovered", "ending")
        /\ j \notin expired /\ ~SlotTaken
        /\ status' = [status EXCEPT ![j] = "building"]
  /\ UNCHANGED <<row, home, verdict, lease, expired, running, up>>

(***************************************************************************)
(* RebuildCoordinator.Run: Build, Validate and CatchUp do not touch the    *)
(* generation's row; Activate and Fail do.                                 *)
(***************************************************************************)
Fill(j) ==
  /\ Runs(j)
  /\ Goto(j, "building", "ready")
  /\ UNCHANGED <<status, row, home, verdict, lease, expired, running, up, faults>>

FillFails(j) ==
  /\ at[j] \in {"building", "ready"}
  /\ Fails(j)
  /\ at' = [at EXCEPT ![j] = "failing"]
  /\ UNCHANGED <<status, row, home, verdict, lease, expired, running, up>>

anyTransition(from, to) == TRUE  \* mutant: the row's status is not looked at

canTransitionGeneration(from, to) ==
  \/ from = "building" /\ to \in {"active", "failed"}
  \/ from = "active" /\ to = "retired"
  \/ from = "retired" /\ to = "active"

activateInTransaction(j) ==
  /\ canTransitionGeneration(status[j], "active")
  /\ status' = [g \in Generation |->
                  IF g = j THEN "active"
                  ELSE IF status[g] = "active" THEN "retired" ELSE status[g]]

Activate(j) ==
  /\ Runs(j)
  /\ Goto(j, "ready", "ending")
  /\ activateInTransaction(j)
  /\ verdict' = [verdict EXCEPT ![j] = "success"]
  /\ UNCHANGED <<row, home, lease, expired, running, up, faults>>

\* The transaction commits, yet the job sees an error: the answer of COMMIT
\* is lost, or runMutation cannot close the cache fence.
ActivateUnheard(j) ==
  /\ Runs(j)
  /\ Fault
  /\ Goto(j, "ready", "failing")
  /\ activateInTransaction(j)
  /\ UNCHANGED <<row, home, verdict, lease, expired, running, up>>

ActivateSwallowed(j) ==  \* mutant: the refusal is not an error
  /\ Runs(j)
  /\ Goto(j, "ready", "ending")
  /\ ~canTransitionGeneration(status[j], "active")
  /\ verdict' = [verdict EXCEPT ![j] = "success"]
  /\ UNCHANGED <<status, row, home, lease, expired, running, up, faults>>

ActivateRefused(j) ==
  /\ Runs(j)
  /\ Goto(j, "ready", "failing")
  /\ ~canTransitionGeneration(status[j], "active")
  /\ UNCHANGED <<status, row, home, verdict, lease, expired, running, up, faults>>

\* Fail has a context of its own and an effect only on a building row.
MarkFailed(j) ==
  /\ FreeConnection(home[j])
  /\ Goto(j, "failing", "ending")
  /\ status' = IF status[j] = "building" THEN [status EXCEPT ![j] = "failed"] ELSE status
  /\ UNCHANGED <<row, home, verdict, lease, expired, running, up, faults>>

MarkFails(j) ==
  /\ Goto(j, "failing", "ending")
  /\ Fault \/ (~FreeConnection(home[j]) /\ UNCHANGED faults)
  /\ UNCHANGED <<status, row, home, verdict, lease, expired, running, up>>

(***************************************************************************)
(* finishJob, the release of the lease and of the admission.               *)
(***************************************************************************)
FinishJob(j) ==
  /\ Runs(j)
  /\ Goto(j, "ending", "unlocking") \/ Goto(j, "refused", "over")
  /\ row' = [row EXCEPT ![j] = verdict[j]]
  /\ UNCHANGED <<status, home, verdict, lease, expired, running, up, faults>>

\* The error of finishJob is dropped.
FinishFails(j) ==
  /\ Fails(j)
  /\ Goto(j, "ending", "unlocking") \/ Goto(j, "refused", "over")
  /\ UNCHANGED <<status, row, home, verdict, lease, expired, running, up>>

\* The lock is released, or its session closed.
Unlock(j) ==
  /\ Goto(j, "unlocking", "clearing")
  /\ lease' = lease \ {j}
  /\ UNCHANGED <<status, row, home, verdict, expired, running, up, faults>>

ClearRunning(j) ==
  /\ Goto(j, "clearing", "over")
  /\ running' = running \ {home[j]}
  /\ UNCHANGED <<status, row, home, verdict, lease, expired, up, faults>>

-------------------------------------------------------------------------------
(***************************************************************************)
(* What happens to jobs.                                                   *)
(***************************************************************************)
Expire(j) ==
  /\ Fault
  /\ at[j] \notin Gone
  /\ expired' = expired \cup {j}
  /\ UNCHANGED <<status, row, at, home, verdict, lease, running, up>>

\* The lease's session breaks; the job does not notice.
LoseLease(j) ==
  /\ Fault
  /\ j \in lease
  /\ lease' = lease \ {j}
  /\ UNCHANGED <<status, row, at, home, verdict, expired, running, up>>

Crash(r) ==
  /\ Fault
  /\ r \in up
  /\ up' = up \ {r}
  /\ at' = [j \in Jobs |-> IF home[j] = r /\ at[j] \notin Gone THEN "dead" ELSE at[j]]
  /\ running' = running \ {r}
  /\ UNCHANGED <<status, row, home, verdict, lease, expired>>

\* PostgreSQL notices that the client of a session has gone.
ReapSession(j) ==
  /\ at[j] = "dead" /\ j \in lease
  /\ lease' = lease \ {j}
  /\ UNCHANGED <<status, row, at, home, verdict, expired, running, up, faults>>

\* main: recovery precedes everything else.
Restart(r) ==
  /\ r \notin up
  /\ up' = up \cup {r}
  /\ RecoverStaleBuilding
  /\ UNCHANGED <<at, home, verdict, lease, expired, running, faults>>

-------------------------------------------------------------------------------
JobStep(j) ==
  \/ Admit(j) \/ Reject(j)
  \/ Lease(j) \/ LeaseFails(j)
  \/ RecoverFirst(j) \/ CreateBuilding(j) \/ ErrRebuildInProgress(j) \/ CreateFails(j)
  \/ Fill(j) \/ FillFails(j)
  \/ Activate(j) \/ ActivateUnheard(j) \/ ActivateRefused(j)
  \/ MarkFailed(j) \/ MarkFails(j)
  \/ FinishJob(j) \/ FinishFails(j)
  \/ Unlock(j) \/ ClearRunning(j)

Next ==
  \/ \E j \in Jobs : StartJob(j) \/ JobStep(j) \/ Expire(j) \/ LoseLease(j) \/ ReapSession(j)
  \/ \E r \in Replicas : Crash(r) \/ Restart(r)

Spec == Init /\ [][Next]_vars

\* A job's goroutine goes on as long as one of its calls can return without
\* a fault.
FairSpec == Spec /\ \A j \in Jobs : WF_vars(JobStep(j) /\ faults' = faults)

-------------------------------------------------------------------------------
TypeOK ==
  /\ status \in [Generation -> Statuses]
  /\ row \in [Jobs -> JobStatuses]
  /\ at \in [Jobs -> Stages]
  /\ home \in [Jobs -> Replicas]
  /\ verdict \in [Jobs -> {"success", "failed"}]
  /\ lease \subseteq Jobs /\ expired \subseteq Jobs
  /\ \A j \in lease : at[j] \in Holding \cup {"dead"}
  /\ \A r \in Replicas : r \in running <=> \E j \in Jobs : home[j] = r /\ at[j] \in Admitted
  /\ running \subseteq Replicas /\ up \subseteq Replicas
  /\ faults \in 0..MaxFaults

(***************************************************************************)
(* Searches always find exactly one active generation, and at most one is  *)
(* being built, whatever jobs of whatever replicas overlap, fail, die or   *)
(* are recovered (activateInTransaction, CreateBuilding).                  *)
(***************************************************************************)
OneActive ==
  /\ \E g \in Generation : Having("active") = {g}
  /\ \A g, h \in Having("building") : g = h

(***************************************************************************)
(* A generation given up as failed, by its job or by another replica's     *)
(* recovery, never serves, though its job may still be at work             *)
(* (canTransitionGeneration, activateInTransaction).                       *)
(***************************************************************************)
FailedStaysFailed ==
  [][\A g \in Generation : status[g] = "failed" => status'[g] = "failed"]_vars

(***************************************************************************)
(* Nobody but its own job fails a generation while the job holds its lease *)
(* (RecoverStaleBuilding: "a status row alone cannot distinguish a crashed *)
(* process from a live job").                                              *)
(***************************************************************************)
LeasedJobsAreLeftAlone ==
  [][\A j \in Jobs :
       status[j] = "building" /\ status'[j] = "failed" /\ j \in lease
         => at[j] = "failing"]_vars

(***************************************************************************)
(* A job is reported successful only if its generation was switched to     *)
(* (runFullRebuild, finishJob).                                            *)
(***************************************************************************)
SuccessWasActivated ==
  \A j \in Jobs : row[j] = "success" => status[j] \in {"active", "retired"}

(***************************************************************************)
(* Every job ends, unless its process dies: the jobs of a replica never    *)
(* wait for each other's connections (runFullRebuild: "admission precedes  *)
(* the session lease").                                                    *)
(***************************************************************************)
JobsEnd == \A j \in Jobs : at[j] = "queued" ~> at[j] \in {"over", "dead"}
===============================================================================
