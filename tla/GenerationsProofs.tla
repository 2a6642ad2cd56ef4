--------------------------- MODULE GenerationsProofs ---------------------------
(***************************************************************************)
(* Proofs about Generations for any number of replicas, jobs, connections  *)
(* and faults.                                                             *)
(***************************************************************************)
EXTENDS Generations, TLAPS

\* Stages before the insert of the job's generation.
Early == {"none", "queued", "admitted", "leased", "recovered", "refused"}

AdmissionInv ==
  \A j, k \in Jobs :
    at[j] \in Admitted /\ at[k] \in Admitted /\ home[j] = home[k] => j = k

StatusInv ==
  /\ status[Baseline] # "failed"
  /\ \A j \in Jobs : at[j] \in Early => status[j] = "none"
  /\ \A j \in Jobs : verdict[j] = "success" => status[j] \in {"active", "retired"}

IInv ==
  /\ TypeOK
  /\ AdmissionInv
  /\ StatusInv
  /\ OneActive
  /\ SuccessWasActivated

-------------------------------------------------------------------------------
(***************************************************************************)
(* The four things a step can do to the generations' statuses.             *)
(***************************************************************************)
GiveUp ==
  \E F \in SUBSET Jobs :
    status' = [g \in Generation |-> IF g \in F /\ status[g] = "building" THEN "failed"
                                    ELSE status[g]]

Create(j) ==
  /\ at[j] = "recovered"
  /\ Having("building") = {}
  /\ status' = [status EXCEPT ![j] = "building"]

StatusChange ==
  \/ status' = status
  \/ GiveUp
  \/ \E j \in Jobs : Create(j) \/ activateInTransaction(j)

\* Recovery gives up generations and fails the rows of running jobs.
LEMMA RecoveryGivesUp ==
  ASSUME TypeOK, RecoverStaleBuilding
  PROVE  /\ GiveUp
         /\ row' \in [Jobs -> JobStatuses]
         /\ \A j \in Jobs : row'[j] = "success" => row[j] = "success"
<1>1. status' = [g \in Generation |->
                   IF g \in {j \in Jobs : j \notin lease} /\ status[g] = "building" THEN "failed"
                   ELSE status[g]]
  BY DEF RecoverStaleBuilding, Abandoned
<1>2. {j \in Jobs : j \notin lease} \in SUBSET Jobs
  OBVIOUS
<1>3. GiveUp
  BY <1>1, <1>2 DEF GiveUp
<1> QED
  BY <1>3 DEF TypeOK, RecoverStaleBuilding, JobStatuses

\* Every step is one of these changes.
LEMMA StatusSteps == TypeOK /\ [Next]_vars => StatusChange
<1> SUFFICES ASSUME TypeOK, [Next]_vars PROVE StatusChange
  OBVIOUS
<1>1. ASSUME NEW j \in Jobs, StartJob(j) \/ Expire(j) \/ LoseLease(j) \/ ReapSession(j)
      PROVE  status' = status
  BY <1>1 DEF StartJob, Expire, LoseLease, ReapSession
<1>2. ASSUME NEW j \in Jobs, JobStep(j) PROVE StatusChange
  <2>1. CASE RecoverFirst(j)
    BY <2>1, RecoveryGivesUp DEF RecoverFirst, StatusChange
  <2>2. CASE CreateBuilding(j) \/ CreateFails(j)
    BY <2>2 DEF CreateBuilding, CreateFails, Goto, SlotTaken, StatusChange, Create
  <2>3. CASE Activate(j) \/ ActivateUnheard(j)
    BY <2>3 DEF Activate, ActivateUnheard, StatusChange
  <2>4. CASE MarkFailed(j)
    <3>1. CASE status[j] = "building"
      <4>1. status' = [g \in Generation |-> IF g \in {j} /\ status[g] = "building" THEN "failed"
                                            ELSE status[g]]
        BY <2>4, <3>1 DEF MarkFailed, TypeOK
      <4>2. {j} \in SUBSET Jobs
        OBVIOUS
      <4> QED
        BY <4>1, <4>2 DEF StatusChange, GiveUp
    <3>2. CASE status[j] # "building"
      BY <2>4, <3>2 DEF MarkFailed, StatusChange
    <3> QED
      BY <3>1, <3>2
  <2>5. CASE \/ Admit(j) \/ Reject(j) \/ Lease(j) \/ LeaseFails(j) \/ ErrRebuildInProgress(j)
             \/ Fill(j) \/ FillFails(j) \/ ActivateRefused(j) \/ MarkFails(j)
             \/ FinishJob(j) \/ FinishFails(j) \/ Unlock(j) \/ ClearRunning(j)
    BY <2>5 DEF Admit, Reject, Lease, LeaseFails, ErrRebuildInProgress, Fill, FillFails,
                ActivateRefused, MarkFails, FinishJob, FinishFails, Unlock, ClearRunning,
                StatusChange
  <2> QED
    BY <1>2, <2>1, <2>2, <2>3, <2>4, <2>5 DEF JobStep
<1>3. ASSUME NEW r \in Replicas, Crash(r) \/ Restart(r) PROVE StatusChange
  BY <1>3, RecoveryGivesUp DEF Crash, Restart, StatusChange
<1> QED
  BY <1>1, <1>2, <1>3 DEF Next, vars, StatusChange

\* What a change of statuses keeps.
LEMMA StatusChangeKeeps ==
  ASSUME IInv, StatusChange
  PROVE  /\ status' \in [Generation -> Statuses]
         /\ OneActive'
         /\ \A g \in Generation : status[g] = "failed" => status'[g] = "failed"
         /\ \A g \in Generation :
              status[g] \in {"active", "retired"} => status'[g] \in {"active", "retired"}
         /\ status'[Baseline] # "failed"
<1> USE GenerationsAssumption DEF Generation, Statuses
<1>a. /\ status \in [Generation -> Statuses]
      /\ OneActive
      /\ status[Baseline] # "failed"
      /\ \A j \in Jobs : at[j] \in Early => status[j] = "none"
  BY DEF IInv, TypeOK, StatusInv
<1>b. PICK a \in Generation : \A g \in Generation : status[g] = "active" <=> g = a
  BY <1>a DEF OneActive, Having
<1>c. \A g, h \in Generation : status[g] = "building" /\ status[h] = "building" => g = h
  BY <1>a DEF OneActive, Having
<1>1. CASE status' = status
  BY <1>1, <1>a DEF OneActive, Having
<1>2. CASE GiveUp
  <2>1. PICK F \in SUBSET Jobs :
          status' = [g \in Generation |-> IF g \in F /\ status[g] = "building" THEN "failed"
                                          ELSE status[g]]
    BY <1>2 DEF GiveUp
  <2>2. \A g \in Generation :
          /\ status'[g] = "active" <=> status[g] = "active"
          /\ status'[g] = "building" => status[g] = "building"
    BY <2>1
  <2>3. OneActive'
    BY <1>b, <1>c, <2>2 DEF OneActive, Having
  <2> QED
    BY <1>a, <2>1, <2>3
<1>3. ASSUME NEW j \in Jobs, Create(j)
      PROVE  /\ status' \in [Generation -> Statuses]
             /\ OneActive'
             /\ \A g \in Generation : status[g] = "failed" => status'[g] = "failed"
             /\ \A g \in Generation :
                  status[g] \in {"active", "retired"} => status'[g] \in {"active", "retired"}
             /\ status'[Baseline] # "failed"
  <2>1. status[j] = "none" /\ status' = [status EXCEPT ![j] = "building"]
    BY <1>a, <1>3 DEF Create, Early
  <2>2. \A g \in Generation : status[g] # "building"
    BY <1>3 DEF Create, Having
  <2>3. \A g \in Generation :
          /\ status'[g] = "active" <=> status[g] = "active"
          /\ status'[g] = "building" => g = j
    BY <1>a, <2>1, <2>2
  <2>4. OneActive'
    BY <1>b, <2>3 DEF OneActive, Having
  <2> QED
    BY <1>a, <2>1, <2>4
<1>4. ASSUME NEW j \in Jobs, activateInTransaction(j)
      PROVE  /\ status' \in [Generation -> Statuses]
             /\ OneActive'
             /\ \A g \in Generation : status[g] = "failed" => status'[g] = "failed"
             /\ \A g \in Generation :
                  status[g] \in {"active", "retired"} => status'[g] \in {"active", "retired"}
             /\ status'[Baseline] # "failed"
  <2>1. /\ status[j] \in {"building", "retired"}
        /\ status' = [g \in Generation |->
                        IF g = j THEN "active"
                        ELSE IF status[g] = "active" THEN "retired" ELSE status[g]]
    BY <1>4 DEF activateInTransaction, canTransitionGeneration
  <2>2. \A g \in Generation :
          /\ status'[g] = "active" <=> g = j
          /\ status'[g] = "building" => status[g] = "building"
    BY <2>1
  <2>3. OneActive'
    BY <1>c, <2>2 DEF OneActive, Having
  <2> QED
    BY <1>a, <2>1, <2>3
<1> QED
  BY <1>1, <1>2, <1>3, <1>4 DEF StatusChange

-------------------------------------------------------------------------------
(***************************************************************************)
(* How a step of a job moves it, admits and releases it.                   *)
(***************************************************************************)
Move(j) ==
  /\ at'[j] \in Stages
  /\ at' = [at EXCEPT ![j] = at'[j]]
  /\ at'[j] \in Admitted => at[j] \in Admitted \/ home[j] \notin running
  /\ running' = IF at'[j] \in Admitted THEN running \cup {home[j]}
                ELSE IF at[j] \in Admitted THEN running \ {home[j]}
                ELSE running
  /\ lease' \subseteq lease \cup {j}
  /\ j \in lease' => at'[j] \in Holding
  /\ home' = home
  /\ at'[j] \in Early => at[j] \in Early /\ status'[j] = status[j]

LEMMA JobMoves ==
  ASSUME TypeOK, StatusInv, NEW j \in Jobs, StartJob(j) \/ JobStep(j)
  PROVE  Move(j)
<1> USE DEF Stages, Admitted, Holding, Early, Goto
<1>a. /\ at \in [Jobs -> Stages] /\ home[j] \in Replicas /\ running \subseteq Replicas
      /\ lease \subseteq Jobs
      /\ j \in lease => at[j] \in Holding \cup {"dead"}
      /\ at[j] \in Admitted => home[j] \in running
  BY DEF TypeOK
<1>1. CASE StartJob(j) \/ Admit(j) \/ Reject(j)
  BY <1>a, <1>1 DEF StartJob, Admit, Reject, Move
<1>2. CASE Lease(j) \/ LeaseFails(j)
  BY <1>a, <1>2 DEF Lease, LeaseFails, Move
<1>3. CASE RecoverFirst(j)
  <2>1. status[j] = "none"
    BY <1>3 DEF RecoverFirst, StatusInv
  <2>2. status'[j] = status[j]
    BY <1>3, <2>1 DEF RecoverFirst, RecoverStaleBuilding, Abandoned, Generation
  <2> QED
    BY <1>a, <1>3, <2>2 DEF RecoverFirst, Move
<1>4. CASE CreateBuilding(j) \/ CreateFails(j) \/ ErrRebuildInProgress(j)
  BY <1>a, <1>4 DEF CreateBuilding, CreateFails, ErrRebuildInProgress, Move
<1>5. CASE Fill(j) \/ FillFails(j) \/ ActivateRefused(j)
  BY <1>a, <1>5 DEF Fill, FillFails, ActivateRefused, Move
<1>6. CASE Activate(j) \/ ActivateUnheard(j)
  BY <1>a, <1>6 DEF Activate, ActivateUnheard, Move
<1>7. CASE MarkFailed(j) \/ MarkFails(j)
  BY <1>a, <1>7 DEF MarkFailed, MarkFails, Move
<1>8. CASE FinishJob(j) \/ FinishFails(j)
  BY <1>a, <1>8 DEF FinishJob, FinishFails, Move
<1>9. CASE Unlock(j) \/ ClearRunning(j)
  BY <1>a, <1>9 DEF Unlock, ClearRunning, Move
<1> QED
  BY <1>1, <1>2, <1>3, <1>4, <1>5, <1>6, <1>7, <1>8, <1>9 DEF JobStep

\* Admission by fullRebuildRunning is kept by every move.
LEMMA MoveKeepsAdmission ==
  ASSUME TypeOK, AdmissionInv, NEW j \in Jobs, Move(j)
  PROVE  /\ at' \in [Jobs -> Stages] /\ running' \subseteq Replicas /\ lease' \subseteq Jobs
         /\ home' \in [Jobs -> Replicas]
         /\ \A k \in lease' : at'[k] \in Holding \cup {"dead"}
         /\ \A r \in Replicas :
              r \in running' <=> \E k \in Jobs : home'[k] = r /\ at'[k] \in Admitted
         /\ AdmissionInv'
<1>a. /\ at \in [Jobs -> Stages] /\ home \in [Jobs -> Replicas]
      /\ running \subseteq Replicas /\ lease \subseteq Jobs
      /\ \A k \in lease : at[k] \in Holding \cup {"dead"}
      /\ \A r \in Replicas : r \in running <=> \E k \in Jobs : home[k] = r /\ at[k] \in Admitted
  BY DEF TypeOK
<1>b. /\ home' = home /\ lease' \subseteq lease \cup {j}
      /\ \A k \in Jobs \ {j} : at'[k] = at[k]
      /\ at' \in [Jobs -> Stages]
  BY <1>a DEF Move
<1>1. /\ at' \in [Jobs -> Stages] /\ running' \subseteq Replicas /\ lease' \subseteq Jobs
      /\ home' \in [Jobs -> Replicas]
  BY <1>a, <1>b DEF Move
<1>2. ASSUME NEW k \in lease' PROVE at'[k] \in Holding \cup {"dead"}
  BY <1>a, <1>b DEF Move
<1>3. AdmissionInv'
  BY <1>a, <1>b DEF AdmissionInv, Move
<1>4. ASSUME NEW r \in Replicas
      PROVE  r \in running' <=> \E k \in Jobs : home'[k] = r /\ at'[k] \in Admitted
  <2>1. CASE at'[j] \in Admitted
    BY <1>a, <1>b, <2>1 DEF Move
  <2>2. CASE at'[j] \notin Admitted /\ at[j] \in Admitted
    BY <1>a, <1>b, <2>2 DEF Move, AdmissionInv
  <2>3. CASE at'[j] \notin Admitted /\ at[j] \notin Admitted
    BY <1>a, <1>b, <2>3 DEF Move
  <2> QED
    BY <2>1, <2>2, <2>3
<1> QED
  BY <1>1, <1>2, <1>3, <1>4

\* The parts of IInv about jobs.
JobInv ==
  /\ at \in [Jobs -> Stages] /\ running \subseteq Replicas /\ lease \subseteq Jobs
  /\ home \in [Jobs -> Replicas]
  /\ \A k \in lease : at[k] \in Holding \cup {"dead"}
  /\ \A r \in Replicas : r \in running <=> \E k \in Jobs : home[k] = r /\ at[k] \in Admitted
  /\ AdmissionInv
  /\ \A k \in Jobs : at[k] \in Early => status[k] = "none"

\* Every step keeps them.
LEMMA JobInvStep == ASSUME IInv, [Next]_vars PROVE JobInv'
<1>a. JobInv /\ TypeOK /\ AdmissionInv /\ StatusInv
  BY DEF IInv, JobInv, TypeOK, StatusInv
<1>1. ASSUME NEW j \in Jobs, StartJob(j) \/ JobStep(j) PROVE JobInv'
  <2>1. Move(j)
    BY <1>a, <1>1, JobMoves
  <2>2. ASSUME NEW k \in Jobs, at'[k] \in Early PROVE status'[k] = "none"
    <3>1. at[k] \in Early /\ status[k] = "none"
      BY <1>a, <2>1, <2>2 DEF Move, JobInv
    <3>2. CASE k = j
      BY <2>1, <2>2, <3>1, <3>2 DEF Move
    <3>3. CASE k # j
      <4>1. at'[k] = at[k]
        BY <1>a, <2>1, <3>3 DEF Move, JobInv
      <4>2. StatusChange
        BY <1>a, <1>1, StatusSteps DEF Next
      <4>3. ASSUME Create(k) PROVE FALSE
        <5>1. status'[k] = "building" /\ at[k] = "recovered"
          BY <1>a, <4>3 DEF Create, TypeOK, Generation
        <5> QED
          BY <1>1, <1>a, <3>1, <3>3, <5>1 DEF StartJob, JobStep, Admit, Reject, Lease, LeaseFails,
                RecoverFirst, CreateBuilding, ErrRebuildInProgress, CreateFails, Fill, FillFails,
                Activate, ActivateUnheard, ActivateRefused, MarkFailed, MarkFails, FinishJob,
                FinishFails, Unlock, ClearRunning, RecoverStaleBuilding, activateInTransaction,
                TypeOK, Generation
      <4> QED
        BY <1>a, <3>1, <4>2, <4>3 DEF StatusChange, GiveUp, Create, activateInTransaction,
                                      canTransitionGeneration, TypeOK, Generation
    <3> QED
      BY <3>2, <3>3
  <2> QED
    BY <1>a, <2>1, <2>2, MoveKeepsAdmission DEF JobInv
<1>2. ASSUME NEW j \in Jobs, Expire(j) \/ LoseLease(j) \/ ReapSession(j) PROVE JobInv'
  BY <1>a, <1>2 DEF Expire, LoseLease, ReapSession, JobInv, AdmissionInv
<1>3. ASSUME NEW r \in Replicas, Crash(r) PROVE JobInv'
  <2> USE <1>3 DEF Crash
  <2>1. /\ home' = home /\ lease' = lease /\ running' = running \ {r} /\ status' = status
        /\ at' \in [Jobs -> Stages]
        /\ \A k \in Jobs : at'[k] = IF home[k] = r /\ at[k] \notin Gone THEN "dead" ELSE at[k]
    BY <1>a DEF JobInv, Stages
  <2>2. "dead" \notin Admitted /\ "dead" \notin Early /\ Gone \cap Admitted = {}
    BY DEF Admitted, Holding, Gone, Early
  <2>3. \A k \in lease' : at'[k] \in Holding \cup {"dead"}
    BY <1>a, <2>1 DEF JobInv
  <2>4. AdmissionInv'
    BY <1>a, <2>1, <2>2 DEF JobInv, AdmissionInv
  <2>5. \A q \in Replicas : q \in running' <=> \E k \in Jobs : home'[k] = q /\ at'[k] \in Admitted
    BY <1>a, <2>1, <2>2 DEF JobInv
  <2>6. \A k \in Jobs : at'[k] \in Early => status'[k] = "none"
    BY <1>a, <2>1, <2>2 DEF JobInv
  <2> QED
    BY <1>a, <2>1, <2>3, <2>4, <2>5, <2>6 DEF JobInv
<1>4. ASSUME NEW r \in Replicas, Restart(r) PROVE JobInv'
  <2>1. \A k \in Jobs : at'[k] \in Early => status'[k] = "none"
    BY <1>a, <1>4 DEF Restart, RecoverStaleBuilding, Abandoned, JobInv, Generation
  <2> QED
    BY <1>a, <1>4, <2>1 DEF Restart, JobInv, AdmissionInv
<1>5. CASE UNCHANGED vars
  BY <1>a, <1>5 DEF vars, JobInv, AdmissionInv
<1> QED
  BY <1>1, <1>2, <1>3, <1>4, <1>5 DEF Next

-------------------------------------------------------------------------------
\* Verdicts and job rows: what becomes a success was one before, or its
\* generation has just been activated.
LEMMA ReportStep ==
  ASSUME TypeOK, [Next]_vars
  PROVE  /\ row' \in [Jobs -> JobStatuses]
         /\ verdict' \in [Jobs -> {"success", "failed"}]
         /\ expired' \subseteq Jobs /\ up' \subseteq Replicas /\ faults' \in 0..MaxFaults
         /\ \A k \in Jobs : row'[k] = "success" => row[k] = "success" \/ verdict[k] = "success"
         /\ \A k \in Jobs :
              verdict'[k] = "success" => verdict[k] = "success" \/ status'[k] = "active"
<1> USE GenerationsAssumption DEF JobStatuses, Fault, Fails
<1>a. /\ row \in [Jobs -> JobStatuses] /\ verdict \in [Jobs -> {"success", "failed"}]
      /\ expired \subseteq Jobs /\ up \subseteq Replicas /\ faults \in 0..MaxFaults
      /\ status \in [Generation -> Statuses]
  BY DEF TypeOK
<1>1. ASSUME NEW j \in Jobs, StartJob(j) \/ Admit(j) \/ Reject(j) \/ Lease(j) \/ LeaseFails(j)
      PROVE  /\ row' \in [Jobs -> JobStatuses] /\ verdict' = verdict
             /\ expired' = expired /\ up' = up /\ faults' \in 0..MaxFaults
             /\ \A k \in Jobs : row'[k] = "success" => row[k] = "success"
  BY <1>a, <1>1 DEF StartJob, Admit, Reject, Lease, LeaseFails
<1>2. ASSUME NEW j \in Jobs, CreateBuilding(j) \/ ErrRebuildInProgress(j) \/ CreateFails(j)
                             \/ Fill(j) \/ FillFails(j) \/ ActivateRefused(j)
      PROVE  /\ row' = row /\ verdict' = verdict
             /\ expired' = expired /\ up' = up /\ faults' \in 0..MaxFaults
  BY <1>a, <1>2 DEF CreateBuilding, ErrRebuildInProgress, CreateFails, Fill, FillFails,
                    ActivateRefused
<1>3. ASSUME NEW j \in Jobs, ActivateUnheard(j) \/ MarkFailed(j) \/ MarkFails(j)
                             \/ FinishFails(j) \/ Unlock(j) \/ ClearRunning(j)
      PROVE  /\ row' = row /\ verdict' = verdict
             /\ expired' = expired /\ up' = up /\ faults' \in 0..MaxFaults
  BY <1>a, <1>3 DEF ActivateUnheard, MarkFailed, MarkFails, FinishFails, Unlock, ClearRunning
<1>4. ASSUME NEW j \in Jobs, Expire(j) \/ LoseLease(j) \/ ReapSession(j)
      PROVE  /\ row' = row /\ verdict' = verdict
             /\ expired' \subseteq Jobs /\ up' = up /\ faults' \in 0..MaxFaults
  BY <1>a, <1>4 DEF Expire, LoseLease, ReapSession
<1>5. ASSUME NEW j \in Jobs, RecoverFirst(j)
      PROVE  /\ row' \in [Jobs -> JobStatuses] /\ verdict' = verdict
             /\ expired' = expired /\ up' = up /\ faults' = faults
             /\ \A k \in Jobs : row'[k] = "success" => row[k] = "success"
  BY <1>5, RecoveryGivesUp DEF RecoverFirst
<1>6. ASSUME NEW j \in Jobs, Activate(j)
      PROVE  /\ row' = row /\ verdict' = [verdict EXCEPT ![j] = "success"]
             /\ status'[j] = "active"
             /\ expired' = expired /\ up' = up /\ faults' = faults
  BY <1>6 DEF Activate, activateInTransaction, Generation
<1>7. ASSUME NEW j \in Jobs, FinishJob(j)
      PROVE  /\ row' = [row EXCEPT ![j] = verdict[j]] /\ verdict' = verdict
             /\ expired' = expired /\ up' = up /\ faults' = faults
  BY <1>7 DEF FinishJob
<1>8. ASSUME NEW r \in Replicas, Crash(r)
      PROVE  /\ row' = row /\ verdict' = verdict
             /\ expired' = expired /\ up' \subseteq Replicas /\ faults' \in 0..MaxFaults
  BY <1>a, <1>8 DEF Crash
<1>9. ASSUME NEW r \in Replicas, Restart(r)
      PROVE  /\ row' \in [Jobs -> JobStatuses] /\ verdict' = verdict
             /\ expired' = expired /\ up' \subseteq Replicas /\ faults' = faults
             /\ \A k \in Jobs : row'[k] = "success" => row[k] = "success"
  BY <1>a, <1>9, RecoveryGivesUp DEF Restart
<1>10. CASE UNCHANGED vars
  BY <1>a, <1>10 DEF vars
<1> HIDE DEF JobStatuses, Fault, Fails
<1>11. ASSUME NEW j \in Jobs, JobStep(j) \/ StartJob(j)
       PROVE  \/ /\ row' \in [Jobs -> JobStatuses] /\ verdict' = verdict
                 /\ expired' = expired /\ up' = up /\ faults' \in 0..MaxFaults
                 /\ \A k \in Jobs : row'[k] = "success" => row[k] = "success"
              \/ Activate(j)
              \/ FinishJob(j)
  BY <1>a, <1>11, <1>1, <1>2, <1>3, <1>5 DEF JobStep
<1>12. ASSUME NEW j \in Jobs, Activate(j) \/ FinishJob(j)
       PROVE  /\ row' \in [Jobs -> JobStatuses]
              /\ verdict' \in [Jobs -> {"success", "failed"}]
              /\ expired' = expired /\ up' = up /\ faults' = faults
              /\ \A k \in Jobs : row'[k] = "success" => row[k] = "success" \/ verdict[k] = "success"
              /\ \A k \in Jobs :
                   verdict'[k] = "success" => verdict[k] = "success" \/ status'[k] = "active"
  BY <1>a, <1>12, <1>6, <1>7 DEF JobStatuses
<1> QED
  BY <1>a, <1>4, <1>8, <1>9, <1>10, <1>11, <1>12 DEF Next

\* The invariant holds initially ...
LEMMA InitIInv == Init => IInv
<1> SUFFICES ASSUME Init PROVE IInv
  OBVIOUS
<1> USE GenerationsAssumption DEF Init, Generation
<1>1. TypeOK
  BY DEF TypeOK, Stages, Statuses, JobStatuses, Admitted, Holding
<1>2. AdmissionInv
  BY DEF AdmissionInv, Admitted, Holding
<1>3. StatusInv
  BY DEF StatusInv
<1>4. OneActive
  <2>1. Having("active") = {Baseline} /\ Having("building") = {}
    BY DEF Having
  <2> QED
    BY <2>1 DEF OneActive
<1> QED
  BY <1>1, <1>2, <1>3, <1>4 DEF IInv, SuccessWasActivated

\* ... and every step keeps it.
LEMMA StepIInv == IInv /\ [Next]_vars => IInv'
<1> SUFFICES ASSUME IInv, [Next]_vars PROVE IInv'
  OBVIOUS
<1>1. TypeOK /\ StatusChange
  BY StatusSteps DEF IInv
<1>2. JobInv'
  BY JobInvStep
<1>3. TypeOK'
  BY <1>1, <1>2, StatusChangeKeeps, ReportStep DEF TypeOK, JobInv
<1>4. StatusInv'
  <2>1. \A k \in Jobs : verdict'[k] = "success" => status'[k] \in {"active", "retired"}
    BY <1>1, StatusChangeKeeps, ReportStep DEF IInv, StatusInv, Generation
  <2> QED
    BY <1>1, <1>2, <2>1, StatusChangeKeeps DEF JobInv, StatusInv
<1>5. SuccessWasActivated'
  BY <1>1, StatusChangeKeeps, ReportStep DEF IInv, StatusInv, SuccessWasActivated, Generation
<1> QED
  BY <1>1, <1>2, <1>3, <1>4, <1>5, StatusChangeKeeps DEF IInv, JobInv

(***************************************************************************)
(* The invariant, for every number of replicas, jobs and faults: the       *)
(* statuses of generations, the admission of jobs and what they report.    *)
(***************************************************************************)
THEOREM LifecycleCorrect == Spec => []IInv
<1>1. Init => IInv
  BY InitIInv
<1>2. IInv /\ [Next]_vars => IInv'
  BY StepIInv
<1> QED
  BY <1>1, <1>2, PTL DEF Spec

(***************************************************************************)
(* There is always exactly one active generation and at most one building  *)
(* (activateInTransaction, CreateBuilding).                                *)
(***************************************************************************)
THEOREM AlwaysOneActive == Spec => []OneActive
<1>1. IInv => OneActive
  BY DEF IInv
<1> QED
  BY <1>1, LifecycleCorrect, PTL

(***************************************************************************)
(* A job reported successful has activated its generation (finishJob).     *)
(***************************************************************************)
THEOREM SuccessIsReal == Spec => []SuccessWasActivated
<1>1. IInv => SuccessWasActivated
  BY DEF IInv
<1> QED
  BY <1>1, LifecycleCorrect, PTL

(***************************************************************************)
(* A failed generation never serves, whatever its job still does           *)
(* (activateInTransaction, canTransitionGeneration).                       *)
(***************************************************************************)
THEOREM FailedNeverReturns == Spec => FailedStaysFailed
<1>1. IInv /\ [Next]_vars =>
        [\A g \in Generation : status[g] = "failed" => status'[g] = "failed"]_vars
  BY StatusSteps, StatusChangeKeeps DEF IInv
<1> QED
  BY <1>1, LifecycleCorrect, PTL DEF Spec, FailedStaysFailed

(***************************************************************************)
(* Recovery leaves the generation of a job that holds its lease alone      *)
(* (RecoverStaleBuilding).                                                 *)
(***************************************************************************)
THEOREM LeaseProtects == Spec => LeasedJobsAreLeftAlone
<1>1. IInv /\ [Next]_vars =>
        [\A j \in Jobs : status[j] = "building" /\ status'[j] = "failed" /\ j \in lease
                           => at[j] = "failing"]_vars
  <2> SUFFICES ASSUME IInv, Next, NEW j \in Jobs,
                      status[j] = "building", status'[j] = "failed", j \in lease
               PROVE  at[j] = "failing"
    OBVIOUS
  <2>a. status \in [Generation -> Statuses]
    BY DEF IInv, TypeOK
  <2>1. ASSUME RecoverStaleBuilding PROVE FALSE
    BY <2>1 DEF RecoverStaleBuilding, Abandoned, Generation
  <2>2. ASSUME NEW k \in Jobs, JobStep(k) PROVE at[j] = "failing"
    <3>1. CASE MarkFailed(k)
      BY <2>a, <3>1 DEF MarkFailed, Goto, Generation
    <3>2. CASE CreateBuilding(k) \/ CreateFails(k)
      BY <2>a, <3>2 DEF CreateBuilding, CreateFails, Generation
    <3>3. CASE Activate(k) \/ ActivateUnheard(k)
      BY <2>a, <3>3 DEF Activate, ActivateUnheard, activateInTransaction, Generation
    <3>4. CASE \/ Admit(k) \/ Reject(k) \/ Lease(k) \/ LeaseFails(k) \/ ErrRebuildInProgress(k)
               \/ Fill(k) \/ FillFails(k) \/ ActivateRefused(k) \/ MarkFails(k)
               \/ FinishJob(k) \/ FinishFails(k) \/ Unlock(k) \/ ClearRunning(k)
      BY <3>4 DEF Admit, Reject, Lease, LeaseFails, ErrRebuildInProgress, Fill, FillFails,
                  ActivateRefused, MarkFails, FinishJob, FinishFails, Unlock, ClearRunning
    <3> QED
      BY <2>1, <2>2, <3>1, <3>2, <3>3, <3>4 DEF JobStep, RecoverFirst
  <2> QED
    BY <2>1, <2>2 DEF Next, StartJob, Expire, LoseLease, ReapSession, Crash, Restart
<1> QED
  BY <1>1, LifecycleCorrect, PTL DEF Spec, LeasedJobsAreLeftAlone
================================================================================
