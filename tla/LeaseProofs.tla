------------------------------ MODULE LeaseProofs ------------------------------
(***************************************************************************)
(* Proofs about the locks that expire: the leases of the background jobs   *)
(* and the editors' sessions.                                              *)
(*                                                                         *)
(* First JobLease, for any set of processes and jobs, any lease duration   *)
(* and any bound on epochs, and ScheduledPublish, which is composed with   *)
(* it.  LeaseTypeOK /\ FencingUnique is inductive; the action properties   *)
(* follow from it and the step taken.  Scheduled publication uses the      *)
(* leases as module JobLease says, so that what is proved there holds      *)
(* here, and it publishes a document once.  Then EditorSession, for any    *)
(* users, sessions and contents and any bounds on uploads, commits in      *)
(* flight and checkpoints.  The two have no variable in common.            *)
(***************************************************************************)
EXTENDS ScheduledPublish, EditorSession, TLAPS, SequenceTheorems

LeaseInv == LeaseTypeOK /\ FencingUnique

(* Leases and runs are records that the markers for "none" are not. *)
LEMMA NotNone ==
  /\ \A x \in Lease : x # NoLease
  /\ \A x \in Run : x # NoRun
BY DEF Lease, NoLease, Run, NoRun

(* Changing what is left of a lease keeps its leader and its epoch. *)
LEMMA LeaseLeft ==
  ASSUME NEW x \in Lease, NEW n \in Int
  PROVE  /\ [x EXCEPT !.left = n] \in Lease
         /\ [x EXCEPT !.left = n].leader = x.leader
         /\ [x EXCEPT !.left = n].epoch = x.epoch
BY DEF Lease

(* Cancelling a run keeps its epoch. *)
LEMMA RunCancelled ==
  ASSUME NEW x \in Run
  PROVE  /\ [x EXCEPT !.cancelled = TRUE] \in Run
         /\ [x EXCEPT !.cancelled = TRUE].epoch = x.epoch
BY DEF Run

-----------------------------------------------------------------------------
(* What any step may do to the row of a job: nothing, insert it with epoch   *)
(* 1, move its expiry, or give an expired one a new epoch.                   *)
RowStep(j) ==
  \/ lease'[j] = lease[j]
  \/ lease[j] = NoLease /\ lease'[j] \in Lease /\ lease'[j].epoch = 1
  \/ /\ lease[j] \in Lease /\ lease'[j] \in Lease
     /\ lease'[j].leader = lease[j].leader /\ lease'[j].epoch = lease[j].epoch
  \/ /\ lease[j] \in Lease /\ lease'[j] \in Lease
     /\ lease[j].left < 0 /\ lease'[j].epoch = lease[j].epoch + 1

(* What any step may do to a run: end it, keep it under its epoch, or start  *)
(* it with the epoch and in the name of the row as the step leaves it.       *)
RunStep(l, j) ==
  \/ run'[l][j] = NoRun
  \/ run[l][j] \in Run /\ run'[l][j] \in Run /\ run'[l][j].epoch = run[l][j].epoch
  \/ /\ run'[l][j] \in Run /\ lease'[j] \in Lease
     /\ run'[l][j].epoch = lease'[j].epoch /\ lease'[j].leader = l

StepShape ==
  /\ LeaseTypeOK'
  /\ \A j \in Jobs : RowStep(j)
  /\ \A l \in Leaders, j \in Jobs : RunStep(l, j)

(* release_lease leaves a row it does not own, and moves the expiry of one   *)
(* it does.                                                                  *)
LEMMA ReleasedRow ==
  ASSUME LeaseTypeOK, NEW l \in Leaders, NEW j \in Jobs, NEW e
  PROVE  \/ Released(l, j, e) = lease[j]
         \/ /\ lease[j] \in Lease /\ Released(l, j, e) \in Lease
            /\ Released(l, j, e).leader = lease[j].leader
            /\ Released(l, j, e).epoch = lease[j].epoch
<1>1. CASE Owns(l, j, e)
  <2>1. lease[j] \in Lease
    BY <1>1 DEF Owns, LeaseTypeOK
  <2> QED BY <1>1, <2>1, LeaseLeft DEF Released
<1>2. CASE ~Owns(l, j, e)
  BY <1>2 DEF Released
<1> QED BY <1>1, <1>2

(* A tick that gets the lease. *)
LEMMA AcquireShape ==
  ASSUME LeaseTypeOK, NEW l \in Leaders, NEW j \in Jobs, AcquireLease(l, j)
  PROVE  StepShape
<1> DEFINE n == NextEpoch(l, j)
           row == [leader |-> l, epoch |-> n, left |-> TTL]
           new == [epoch |-> n, cancelled |-> FALSE]
<1>1. lease[j] = NoLease \/ lease[j] \in Lease
  BY DEF LeaseTypeOK
<1>2. /\ n \in Nat
      /\ lease[j] = NoLease => n = 1
      /\ lease[j] \in Lease =>
           IF lease[j].left < 0 THEN n = lease[j].epoch + 1
           ELSE n = lease[j].epoch /\ lease[j].leader = l
  BY <1>1, NotNone DEF NextEpoch, Expired, AcquireLease, Acquirable, Lease
<1>3. row \in Lease /\ new \in Run
  BY <1>2, LeaseAssumption DEF Lease, Run
<1>4. /\ lease' = [lease EXCEPT ![j] = row]
      /\ run' = [run EXCEPT ![l][j] = new]
      /\ proc' = proc
  BY DEF AcquireLease
<1> HIDE DEF n
<1>5. row.leader = l /\ row.epoch = n /\ new.epoch = n
  OBVIOUS
<1> HIDE DEF row, new
<1>6. LeaseTypeOK'
  BY <1>3, <1>4 DEF LeaseTypeOK
<1>7. lease'[j] = row /\ \A i \in Jobs \ {j} : lease'[i] = lease[i]
  BY <1>4 DEF LeaseTypeOK
<1>8. RowStep(j)
  BY <1>1, <1>2, <1>3, <1>5, <1>7 DEF RowStep
<1>9. /\ run'[l][j] = new
      /\ \A m \in Leaders, i \in Jobs : m # l \/ i # j => run'[m][i] = run[m][i]
  BY <1>4 DEF LeaseTypeOK
<1>10. ASSUME NEW m \in Leaders, NEW i \in Jobs PROVE RunStep(m, i)
  <2>1. CASE m = l /\ i = j
    BY <2>1, <1>3, <1>5, <1>7, <1>9 DEF RunStep
  <2>2. CASE m # l \/ i # j
    BY <2>2, <1>9 DEF RunStep, LeaseTypeOK
  <2> QED BY <2>1, <2>2
<1> QED BY <1>6, <1>7, <1>8, <1>10 DEF StepShape, RowStep

(* A heartbeat. *)
LEMMA HeartbeatShape ==
  ASSUME LeaseTypeOK, NEW l \in Leaders, NEW j \in Jobs, HeartbeatLease(l, j)
  PROVE  StepShape
<1>1. run[l][j] \in Run /\ proc' = proc
  BY DEF HeartbeatLease, Running, LeaseTypeOK
<1>2. CASE /\ Owns(l, j, run[l][j].epoch)
           /\ lease' = [lease EXCEPT ![j].left = TTL]
           /\ UNCHANGED run
  <2>1. lease[j] \in Lease
    BY <1>2 DEF Owns, LeaseTypeOK
  <2> DEFINE row == [lease[j] EXCEPT !.left = TTL]
  <2>2. row \in Lease /\ row.leader = lease[j].leader /\ row.epoch = lease[j].epoch
    BY <2>1, LeaseLeft, LeaseAssumption
  <2>3. lease' = [lease EXCEPT ![j] = row]
    BY <1>2
  <2> HIDE DEF row
  <2>4. LeaseTypeOK'
    BY <1>1, <1>2, <2>2, <2>3 DEF LeaseTypeOK
  <2>5. \A i \in Jobs : RowStep(i)
    BY <2>1, <2>2, <2>3 DEF RowStep, LeaseTypeOK
  <2> QED BY <1>2, <2>4, <2>5 DEF StepShape, RunStep, LeaseTypeOK
<1>3. CASE /\ run' = [run EXCEPT ![l][j].cancelled = TRUE]
           /\ UNCHANGED lease
  <2> DEFINE new == [run[l][j] EXCEPT !.cancelled = TRUE]
  <2>1. new \in Run /\ new.epoch = run[l][j].epoch
    BY <1>1, RunCancelled
  <2>2. run' = [run EXCEPT ![l][j] = new] /\ lease' = lease
    BY <1>3
  <2> HIDE DEF new
  <2>3. LeaseTypeOK'
    BY <1>1, <2>1, <2>2 DEF LeaseTypeOK
  <2>4. \A m \in Leaders, i \in Jobs : RunStep(m, i)
    BY <1>1, <2>1, <2>2 DEF RunStep, LeaseTypeOK
  <2> QED BY <2>2, <2>3, <2>4 DEF StepShape, RowStep
<1> QED BY <1>2, <1>3 DEF HeartbeatLease

(* The job returns. *)
LEMMA FinishShape ==
  ASSUME LeaseTypeOK, NEW l \in Leaders, NEW j \in Jobs, FinishJob(l, j)
  PROVE  StepShape
<1> DEFINE row == Released(l, j, run[l][j].epoch)
<1>1. \/ row = lease[j]
      \/ /\ lease[j] \in Lease /\ row \in Lease
         /\ row.leader = lease[j].leader /\ row.epoch = lease[j].epoch
  BY ReleasedRow
<1>2. /\ lease' = [lease EXCEPT ![j] = row] \/ lease' = lease
      /\ run' = [run EXCEPT ![l][j] = NoRun]
      /\ proc' = proc
  BY DEF FinishJob
<1> HIDE DEF row
<1>3. LeaseTypeOK'
  BY <1>1, <1>2 DEF LeaseTypeOK
<1>4. \A i \in Jobs : RowStep(i)
  BY <1>1, <1>2 DEF RowStep, LeaseTypeOK
<1>5. \A m \in Leaders, i \in Jobs : RunStep(m, i)
  BY <1>2 DEF RunStep, LeaseTypeOK
<1> QED BY <1>3, <1>4, <1>5 DEF StepShape

(* The steps of a shutdown, a crash among them. *)
LEMMA ShutdownShape ==
  ASSUME LeaseTypeOK, NEW l \in Leaders, Shutdown(l)
  PROVE  StepShape
<1>1. CASE BeginDrain(l)
  BY <1>1 DEF BeginDrain, StepShape, RowStep, RunStep, LeaseTypeOK, Phases
<1>2. CASE CancelInFlight(l)
  <2> DEFINE new(j) == IF Running(l, j) THEN [run[l][j] EXCEPT !.cancelled = TRUE]
                       ELSE NoRun
  <2>1. \A j \in Jobs : \/ new(j) = NoRun
                        \/ /\ run[l][j] \in Run /\ new(j) \in Run
                           /\ new(j).epoch = run[l][j].epoch
    BY RunCancelled DEF Running, LeaseTypeOK
  <2>2. /\ run' = [run EXCEPT ![l] = [j \in Jobs |-> new(j)]]
        /\ proc' = [proc EXCEPT ![l] = "cancelled"]
        /\ lease' = lease
    BY <1>2 DEF CancelInFlight
  <2> HIDE DEF new
  <2>3. LeaseTypeOK'
    BY <2>1, <2>2 DEF LeaseTypeOK, Phases
  <2>4. \A m \in Leaders, i \in Jobs : RunStep(m, i)
    BY <2>1, <2>2 DEF RunStep, LeaseTypeOK
  <2> QED BY <2>2, <2>3, <2>4 DEF StepShape, RowStep
<1>3. ASSUME NEW S \in SUBSET Jobs, ForceRelease(l, S) PROVE StepShape
  <2> DEFINE row(j) == Released(l, j, run[l][j].epoch)
  <2>1. \A j \in Jobs : \/ row(j) = lease[j]
                        \/ /\ lease[j] \in Lease /\ row(j) \in Lease
                           /\ row(j).leader = lease[j].leader
                           /\ row(j).epoch = lease[j].epoch
    BY ReleasedRow
  <2>2. /\ lease' = [j \in Jobs |->
             IF j \in S /\ Running(l, j) THEN row(j) ELSE lease[j]]
        /\ proc' = [proc EXCEPT ![l] = "released"]
        /\ run' = run
    BY <1>3 DEF ForceRelease
  <2> HIDE DEF row
  <2>3. LeaseTypeOK'
    BY <2>1, <2>2 DEF LeaseTypeOK, Phases
  <2>4. \A j \in Jobs : RowStep(j)
    BY <2>1, <2>2 DEF RowStep
  <2> QED BY <2>2, <2>3, <2>4 DEF StepShape, RunStep, LeaseTypeOK
<1>4. CASE Exit(l)
  BY <1>4 DEF Exit, StepShape, RowStep, RunStep, LeaseTypeOK, Phases
<1> QED BY <1>1, <1>2, <1>3, <1>4 DEF Shutdown

(* Time passes. *)
LEMMA TickShape ==
  ASSUME LeaseTypeOK, Tick
  PROVE  StepShape
<1> DEFINE row(j) == [lease[j] EXCEPT !.left = @ - 1]
<1>1. \A j \in Jobs : lease[j] # NoLease =>
        /\ lease[j] \in Lease /\ row(j) \in Lease
        /\ row(j).leader = lease[j].leader /\ row(j).epoch = lease[j].epoch
  <2> SUFFICES ASSUME NEW j \in Jobs, lease[j] # NoLease
               PROVE  /\ lease[j] \in Lease /\ row(j) \in Lease
                      /\ row(j).leader = lease[j].leader
                      /\ row(j).epoch = lease[j].epoch
    OBVIOUS
  <2>1. lease[j] \in Lease /\ lease[j].left - 1 \in Int
    BY DEF LeaseTypeOK, Lease
  <2> QED BY <2>1, LeaseLeft
<1>2. /\ lease' = [j \in Jobs |-> IF lease[j] # NoLease /\ lease[j].left >= -ReapAfter
                                  THEN row(j) ELSE lease[j]]
      /\ run' = run /\ proc' = proc
  BY DEF Tick
<1> HIDE DEF row
<1>3. LeaseTypeOK'
  BY <1>1, <1>2 DEF LeaseTypeOK
<1>4. \A j \in Jobs : RowStep(j)
  BY <1>1, <1>2 DEF RowStep
<1> QED BY <1>2, <1>3, <1>4 DEF StepShape, RunStep, LeaseTypeOK

(* Every step, stuttering included, has the shape. *)
LEMMA NextShape ==
  ASSUME LeaseTypeOK, [LeaseNext]_leaseVars
  PROVE  StepShape
<1>1. CASE UNCHANGED leaseVars
  BY <1>1 DEF leaseVars, StepShape, RowStep, RunStep, LeaseTypeOK
<1>2. ASSUME NEW l \in Leaders, NEW j \in Jobs, Loop(l, j) PROVE StepShape
  BY <1>2, AcquireShape, HeartbeatShape DEF Loop
<1>3. ASSUME NEW l \in Leaders, NEW j \in Jobs, FinishJob(l, j) PROVE StepShape
  BY <1>3, FinishShape
<1>4. ASSUME NEW l \in Leaders, RunLeaseReaper(l) PROVE StepShape
  BY <1>4, FinishShape, LeaseAssumption DEF RunLeaseReaper
<1>5. ASSUME NEW l \in Leaders, Shutdown(l) PROVE StepShape
  BY <1>5, ShutdownShape
<1>6. ASSUME NEW l \in Leaders, StartProcess(l) PROVE StepShape
  BY <1>6 DEF StartProcess, StepShape, RowStep, RunStep, LeaseTypeOK, Phases
<1>7. CASE Tick
  BY <1>7, TickShape
<1> QED BY <1>1, <1>2, <1>3, <1>4, <1>5, <1>6, <1>7 DEF LeaseNext

-----------------------------------------------------------------------------
(* FencingUnique survives every step of that shape. *)
LEMMA ShapeFencing ==
  ASSUME LeaseInv, StepShape
  PROVE  FencingUnique'
<1> SUFFICES ASSUME NEW j \in Jobs, NEW l \in Leaders, run'[l][j] # NoRun
             PROVE  /\ lease'[j] # NoLease /\ run'[l][j].epoch <= lease'[j].epoch
                    /\ run'[l][j].epoch = lease'[j].epoch => lease'[j].leader = l
                    /\ \A m \in Leaders \ {l} : run'[m][j] # NoRun =>
                         run'[m][j].epoch # run'[l][j].epoch
  BY DEF FencingUnique, Running
<1> DEFINE Kept(m) == /\ run[m][j] \in Run /\ run'[m][j] \in Run
                      /\ run'[m][j].epoch = run[m][j].epoch
           Started(m) == /\ run'[m][j] \in Run /\ lease'[j] \in Lease
                         /\ run'[m][j].epoch = lease'[j].epoch
                         /\ lease'[j].leader = m
<1>1. \A m \in Leaders : run'[m][j] # NoRun => Kept(m) \/ Started(m)
  BY DEF StepShape, RunStep
<1>2. RowStep(j) /\ (lease[j] = NoLease \/ lease[j] \in Lease)
  BY DEF StepShape, LeaseInv, LeaseTypeOK
<1>3. \A x \in Lease : x.epoch \in Nat /\ x # NoLease
  BY NotNone DEF Lease
<1>4. \A x \in Run : x.epoch \in Nat /\ x # NoRun
  BY NotNone DEF Run
<1>5. \A m \in Leaders : Kept(m) =>
        /\ lease[j] \in Lease /\ run[m][j].epoch <= lease[j].epoch
        /\ run[m][j].epoch = lease[j].epoch => lease[j].leader = m
        /\ \A n \in Leaders \ {m} : Kept(n) => run[n][j].epoch # run[m][j].epoch
  BY <1>2, <1>4 DEF LeaseInv, FencingUnique, Running
<1>6. \A m \in Leaders : Kept(m) =>
        /\ lease'[j] \in Lease /\ run'[m][j].epoch <= lease'[j].epoch
        /\ run'[m][j].epoch = lease'[j].epoch => lease'[j].leader = m
  BY <1>2, <1>3, <1>4, <1>5 DEF RowStep
<1>7. \A m \in Leaders \ {l} : run'[m][j] # NoRun =>
        run'[m][j].epoch # run'[l][j].epoch
  BY <1>1, <1>5, <1>6
<1> QED BY <1>1, <1>3, <1>4, <1>6, <1>7

(* LeaseInv holds in every reachable state. *)
THEOREM LeaseInvariance == LeaseSpec => []LeaseInv
<1>1. LeaseInit => LeaseInv
  BY DEF LeaseInit, LeaseInv, LeaseTypeOK, FencingUnique, Running, Phases
<1>2. LeaseInv /\ [LeaseNext]_leaseVars => LeaseInv'
  BY NextShape, ShapeFencing DEF LeaseInv, StepShape
<1> QED BY <1>1, <1>2, PTL DEF LeaseSpec

(* Leases, runs and process phases keep their types, under any sequence of   *)
(* acquisitions, heartbeats, releases, shutdowns and crashes.                *)
THEOREM LeaseTypeCorrect == LeaseSpec => []LeaseTypeOK
BY LeaseInvariance, PTL DEF LeaseInv

(* No two processes ever run a job under the same epoch, for any number of   *)
(* processes: the token acquire_lease returns does fence.                    *)
THEOREM FencingHolds == LeaseSpec => []FencingUnique
BY LeaseInvariance, PTL DEF LeaseInv

(* lease_epoch never falls, and a lease changes hands only with a new epoch  *)
(* (migration 0149), in every step that is not a run of the reaper.          *)
THEOREM EpochsMonotonic == LeaseSpec => EpochMonotonic
<1> DEFINE Mono(j) ==
      /\ lease'[j].epoch >= lease[j].epoch
      /\ lease[j] # NoLease =>
           /\ lease'[j] # NoLease
           /\ lease'[j].leader # lease[j].leader => lease'[j].epoch > lease[j].epoch
<1>1. ASSUME LeaseInv, LeaseInv', [LeaseNext]_leaseVars, NEW j \in Jobs
      PROVE  Mono(j)
  <2>1. RowStep(j) /\ (lease[j] = NoLease \/ lease[j] \in Lease)
    BY <1>1, NextShape DEF StepShape, LeaseInv, LeaseTypeOK
  <2>2. \A x \in Lease : x.epoch \in Nat /\ x # NoLease
    BY NotNone DEF Lease
  <2>3. NoLease.epoch = 0
    BY DEF NoLease
  <2> QED BY <2>1, <2>2, <2>3 DEF RowStep
<1>2. LeaseInv /\ LeaseInv' /\ [LeaseNext]_leaseVars =>
        [~(\E l \in Leaders : RunLeaseReaper(l)) => \A j \in Jobs : Mono(j)]_leaseVars
  BY <1>1
<1> QED BY <1>2, LeaseInvariance, PTL DEF LeaseSpec, EpochMonotonic

(* Only a lease that has run out changes its leader or its epoch.            *)
THEOREM TakeoverOnlyExpired == LeaseSpec => TakenOnlyExpired
<1> DEFINE Taken(j) == lease[j] # NoLease /\ lease[j].left >= 0 =>
      lease'[j].leader = lease[j].leader /\ lease'[j].epoch = lease[j].epoch
<1>1. ASSUME LeaseInv, [LeaseNext]_leaseVars, NEW j \in Jobs
      PROVE  Taken(j)
  <2>1. RowStep(j) /\ (lease[j] = NoLease \/ lease[j] \in Lease)
    BY <1>1, NextShape DEF StepShape, LeaseInv, LeaseTypeOK
  <2>2. \A x \in Lease : x.left \in Int
    BY DEF Lease
  <2> QED BY <2>1, <2>2 DEF RowStep
<1>2. LeaseInv /\ [LeaseNext]_leaseVars => [\A j \in Jobs : Taken(j)]_leaseVars
  BY <1>1
<1> QED BY <1>2, LeaseInvariance, PTL DEF LeaseSpec, TakenOnlyExpired

(* A run whose lease was taken over leaves the new holder's row alone, in    *)
(* its heartbeats and when it is released, by force too.                     *)
THEOREM StaleRunsHarmless == LeaseSpec => StaleRunHarmless
<1> DEFINE Stale(l, j) == Running(l, j) /\ run[l][j].epoch # lease[j].epoch
<1>1. ASSUME LeaseInv, NEW l \in Leaders, NEW j \in Jobs, Stale(l, j),
             \/ HeartbeatLease(l, j) \/ FinishJob(l, j)
             \/ \E S \in SUBSET Jobs : ForceRelease(l, S)
      PROVE  lease'[j] = lease[j]
  <2>1. ~Owns(l, j, run[l][j].epoch)
    BY <1>1 DEF Owns
  <2>2. CASE HeartbeatLease(l, j)
    BY <2>1, <2>2 DEF HeartbeatLease
  <2>3. Released(l, j, run[l][j].epoch) = lease[j]
    BY <2>1 DEF Released
  <2>4. CASE FinishJob(l, j)
    BY <1>1, <2>3, <2>4 DEF FinishJob, LeaseInv, LeaseTypeOK
  <2>5. ASSUME NEW S \in SUBSET Jobs, ForceRelease(l, S) PROVE lease'[j] = lease[j]
    BY <2>3, <2>5 DEF ForceRelease
  <2> QED BY <1>1, <2>2, <2>4, <2>5
<1>2. LeaseInv /\ [LeaseNext]_leaseVars =>
        [\A l \in Leaders, j \in Jobs :
           /\ Running(l, j) /\ run[l][j].epoch # lease[j].epoch
           /\ \/ HeartbeatLease(l, j) \/ FinishJob(l, j)
              \/ \E S \in SUBSET Jobs : ForceRelease(l, S)
           => lease'[j] = lease[j]]_leaseVars
  BY <1>1
<1> QED BY <1>2, LeaseInvariance, PTL DEF LeaseSpec, StaleRunHarmless

-----------------------------------------------------------------------------
(* Scheduled publication. *)

(* Every step is a step of the leases, or leaves them alone. *)
LEMMA SchedLeaseStep ==
  ASSUME [SchedNext]_schedVars
  PROVE  [LeaseNext]_leaseVars
<1>1. CASE UNCHANGED schedVars
  BY <1>1 DEF schedVars, leaseVars
<1>2. CASE LeaseStep
  <2>1. ASSUME NEW l \in Leaders, NEW S \in SUBSET {Publisher}, ForceRelease(l, S)
        PROVE  LeaseNext
    <3>1. S \in SUBSET Jobs
      BY PublishAssumption
    <3> QED BY <2>1, <3>1 DEF LeaseNext, Shutdown
  <2> QED BY <1>2, <2>1, PublishAssumption DEF LeaseStep, LeaseNext, Shutdown
<1>3. ASSUME NEW l \in Leaders, FetchDue(l) \/ FinishPublisher(l) \/ ExitPublisher(l)
      PROVE  [LeaseNext]_leaseVars
  BY <1>3, PublishAssumption DEF FetchDue, FinishPublisher, ExitPublisher, LeaseNext, Shutdown
<1>4. ASSUME NEW l \in Leaders, NEW r \in Rows(l), PublishRow(l, r) \/ SkipRow(l, r)
      PROVE  UNCHANGED leaseVars
  BY <1>4 DEF PublishRow, SkipRow
<1>5. ASSUME NEW d \in Docs, SchedulePublishHandler(d) \/ PublishApproved(d)
      PROVE  UNCHANGED leaseVars
  BY <1>5 DEF SchedulePublishHandler, SchedulePublish, PublishApproved
<1> QED BY <1>1, <1>2, <1>3, <1>4, <1>5 DEF SchedNext

(* Scheduled publication implements the lease protocol: the publisher's      *)
(* fetches, rows, crashes and batches never touch a lease but through        *)
(* acquire, heartbeat and release.                                           *)
THEOREM ImplementsLease == SchedSpec => LeaseSpec
<1>1. SchedInit => LeaseInit
  BY DEF SchedInit
<1>2. [SchedNext]_schedVars => [LeaseNext]_leaseVars
  BY SchedLeaseStep
<1> QED BY <1>1, <1>2, PTL DEF SchedSpec, LeaseSpec

-----------------------------------------------------------------------------
OncePublished(d) == published[d] = IF docStatus[d] = "published" THEN 1 ELSE 0

(* The types of what is not a lease. *)
PubTypeOK ==
  /\ docStatus \in [Docs -> {"approved", "scheduled", "published"}]
  /\ rev \in [Docs -> Nat]
  /\ batch \in [Leaders -> Batch]
  /\ published \in [Docs -> Nat]
  /\ refused \in SUBSET Docs

LEMMA BatchFields ==
  ASSUME NEW b \in Batch
  PROVE  b.fetched \in BOOLEAN /\ b.rows \in SUBSET Row
BY DEF Batch

(* A document that is not published is, with its event and a new version. *)
LEMMA PublishDoc ==
  ASSUME PubTypeOK, \A e \in Docs : OncePublished(e), NEW d \in Docs,
         docStatus[d] # "published",
         docStatus' = [docStatus EXCEPT ![d] = "published"], rev' = [rev EXCEPT ![d] = @ + 1],
         published' = [published EXCEPT ![d] = @ + 1],
         batch' \in [Leaders -> Batch], refused' = refused
  PROVE  PubTypeOK' /\ \A e \in Docs : OncePublished(e)'
<1>1. /\ docStatus \in [Docs -> {"approved", "scheduled", "published"}]
      /\ rev \in [Docs -> Nat] /\ published \in [Docs -> Nat] /\ refused \in SUBSET Docs
  BY DEF PubTypeOK
<1>2. /\ docStatus' \in [Docs -> {"approved", "scheduled", "published"}]
      /\ rev' \in [Docs -> Nat] /\ published' \in [Docs -> Nat]
  BY <1>1
<1>3. /\ docStatus'[d] = "published" /\ published'[d] = published[d] + 1
      /\ \A e \in Docs \ {d} : docStatus'[e] = docStatus[e] /\ published'[e] = published[e]
  BY <1>1
<1>4. published[d] = 0
  BY DEF OncePublished
<1> QED BY <1>1, <1>2, <1>3, <1>4 DEF PubTypeOK, OncePublished

(* A step that publishes nothing. *)
LEMMA PublishesNothing ==
  ASSUME PubTypeOK, \A e \in Docs : OncePublished(e),
         batch' \in [Leaders -> Batch], UNCHANGED <<docStatus, rev, published>>,
         refused' \in SUBSET Docs
  PROVE  PubTypeOK' /\ \A e \in Docs : OncePublished(e)'
BY DEF PubTypeOK, OncePublished

LEMMA DropType ==
  ASSUME PubTypeOK, NEW l \in Leaders, NEW r, DropRow(l, r)
  PROVE  batch' \in [Leaders -> Batch]
<1>1. batch[l] \in Batch
  BY DEF PubTypeOK
<1>2. [batch[l] EXCEPT !.rows = @ \ {r}] \in Batch
  BY <1>1 DEF Batch
<1>3. batch' = [batch EXCEPT ![l] = [batch[l] EXCEPT !.rows = @ \ {r}]]
  BY DEF DropRow
<1> QED BY <1>2, <1>3 DEF PubTypeOK

LEMMA SchedStep ==
  ASSUME PubTypeOK, \A e \in Docs : OncePublished(e), [SchedNext]_schedVars
  PROVE  PubTypeOK' /\ \A e \in Docs : OncePublished(e)'
<1> DEFINE Good == PubTypeOK' /\ \A e \in Docs : OncePublished(e)'
<1>1. CASE UNCHANGED schedVars \/ UNCHANGED pubVars
  BY <1>1 DEF schedVars, pubVars, PubTypeOK, OncePublished
<1>2. ASSUME NEW l \in Leaders, FetchDue(l) PROVE Good
  <2> DEFINE due == {[doc |-> d, rev |-> rev[d]] : d \in {e \in Docs : docStatus[e] = "scheduled"}}
             b == [fetched |-> TRUE, rows |-> IF run[l][Publisher].cancelled THEN {} ELSE due]
  <2>1. due \in SUBSET Row
    BY DEF Row, PubTypeOK
  <2> HIDE DEF due
  <2>2. b \in Batch
    BY <2>1 DEF Batch
  <2>3. batch' = [batch EXCEPT ![l] = b] /\ UNCHANGED <<docStatus, rev, published, refused>>
    BY <1>2 DEF FetchDue, due
  <2> HIDE DEF b
  <2>4. batch' \in [Leaders -> Batch] /\ refused' \in SUBSET Docs
    BY <2>2, <2>3 DEF PubTypeOK
  <2> QED BY <2>3, <2>4, PublishesNothing
<1>3. ASSUME NEW l \in Leaders, FinishPublisher(l) \/ ExitPublisher(l) PROVE Good
  <2>1. batch' = [batch EXCEPT ![l] = NotFetched] /\ UNCHANGED <<docStatus, rev, published, refused>>
    BY <1>3 DEF FinishPublisher, ExitPublisher
  <2>2. NotFetched \in Batch
    BY DEF NotFetched, Batch
  <2>3. batch' \in [Leaders -> Batch] /\ refused' \in SUBSET Docs
    BY <2>1, <2>2 DEF PubTypeOK
  <2> QED BY <2>1, <2>3, PublishesNothing
<1>4. ASSUME NEW l \in Leaders, NEW r \in Rows(l), PublishRow(l, r) PROVE Good
  <2>1. r \in Row
    BY <1>4, BatchFields DEF Rows, PubTypeOK
  <2>2. r.doc \in Docs
    BY <2>1 DEF Row
  <2>3. batch' \in [Leaders -> Batch]
    BY <1>4, DropType DEF PublishRow
  <2> QED BY <1>4, <2>2, <2>3, PublishDoc DEF PublishRow, RowCurrent
<1>5. ASSUME NEW l \in Leaders, NEW r \in Rows(l), SkipRow(l, r) PROVE Good
  <2>1. batch' \in [Leaders -> Batch] /\ refused' \in SUBSET Docs
    BY <1>5, DropType DEF SkipRow, PubTypeOK
  <2> QED BY <1>5, <2>1, PublishesNothing DEF SkipRow
<1>6. ASSUME NEW d \in Docs, SchedulePublishHandler(d) PROVE Good
  <2>1. ~ScheduleSucceeds(d, d)
    BY DEF ScheduleSucceeds
  <2>2. /\ refused' = refused \cup {d} /\ UNCHANGED <<docStatus, rev, batch, published>>
    BY <1>6, <2>1 DEF SchedulePublishHandler, SchedulePublish
  <2>3. batch' \in [Leaders -> Batch] /\ refused' \in SUBSET Docs
    BY <2>2 DEF PubTypeOK
  <2> QED BY <2>2, <2>3, PublishesNothing
<1>7. ASSUME NEW d \in Docs, PublishApproved(d) PROVE Good
  <2>1. batch' \in [Leaders -> Batch]
    BY <1>7 DEF PublishApproved, PubTypeOK
  <2> QED BY <1>7, <2>1, PublishDoc DEF PublishApproved
<1> QED BY <1>1, <1>2, <1>3, <1>4, <1>5, <1>6, <1>7 DEF SchedNext

(* A document is published at most once, with its event, however many        *)
(* processes hold its row: the WHERE clause of the update decides, not the   *)
(* lease.                                                                    *)
THEOREM PublishedOnceHolds == SchedSpec => []PublishedOnce
<1> DEFINE PubInv == PubTypeOK /\ \A e \in Docs : OncePublished(e)
<1>1. SchedInit => PubInv
  BY PublishAssumption
     DEF SchedInit, PubTypeOK, OncePublished, NotFetched, Batch
<1>2. PubInv /\ [SchedNext]_schedVars => PubInv'
  BY SchedStep
<1>3. PubInv /\ LeaseInv => PublishedOnce
  BY DEF PublishedOnce, SchedTypeOK, LeaseInv, PubTypeOK, OncePublished
<1> HIDE DEF PubInv
<1>4. SchedSpec => []PubInv
  BY <1>1, <1>2, PTL DEF SchedSpec
<1> QED BY <1>3, <1>4, ImplementsLease, LeaseInvariance, PTL


-----------------------------------------------------------------------------
(* The records the state is made of.                                       *)

LEMMA SessionFields ==
  ASSUME NEW x \in Session
  PROVE  /\ x.user \in Users /\ x.ack \in Hashes
         /\ x.status \in {"active", "lapsed", "ended"} /\ x # NoSession
BY DEF Session, NoSession

LEMMA NoSessionStatus == NoSession.status = "none"
BY DEF NoSession

LEMMA SessionStatus ==
  ASSUME NEW x \in Session, NEW st \in {"active", "lapsed", "ended"}
  PROVE  /\ [x EXCEPT !.status = st] \in Session
         /\ [x EXCEPT !.status = st].status = st
         /\ [x EXCEPT !.status = st].ack = x.ack
BY DEF Session

LEMMA SessionAck ==
  ASSUME NEW x \in Session, NEW h \in Hashes
  PROVE  /\ [x EXCEPT !.ack = h] \in Session
         /\ [x EXCEPT !.ack = h].ack = h
         /\ [x EXCEPT !.ack = h].status = x.status
BY DEF Session

LEMMA RowFields ==
  ASSUME NEW x \in PendingRow
  PROVE  /\ [x EXCEPT !.consumed = TRUE] \in PendingRow
         /\ [x EXCEPT !.consumed = TRUE].consumed = TRUE
         /\ [x EXCEPT !.lapsed = TRUE] \in PendingRow
         /\ [x EXCEPT !.lapsed = TRUE].consumed = x.consumed
BY DEF PendingRow

LEMMA UploadFields ==
  ASSUME NEW p \in Upload
  PROVE  p.sid \in Sids /\ p.base \in Hashes /\ p.hash \in Hashes
BY DEF Upload

-----------------------------------------------------------------------------
(* The inductive invariant.                                                *)

(* What is read, acknowledged, checkpointed or built upon is a revision. *)
KnownRevisions ==
  /\ head \in revs
  /\ \A s \in Sids : sess[s] # NoSession => sess[s].ack \in revs
  /\ \A u \in Users : acq[u] \in revs \cup {NoRev}
  /\ \A v \in DOMAIN checkpoints : checkpoints[v] \in revs
  /\ \A p \in DOMAIN pending : p.base \in revs /\ sess[p.sid] # NoSession

(* After a save that came too late no other upload can be committed: the     *)
(* writer has moved past the base of every one, and later sessions have      *)
(* none.                                                                     *)
NothingFits ==
  status = "under_review" /\ head # submitted =>
    \A p \in DOMAIN pending : ~(Active(p.sid) /\ sess[p.sid].ack = p.base)

EditorInv ==
  /\ EditorTypeOK
  /\ \A s \in Sids : Active(s) <=> ptr = s
  /\ UploadsMatchRevisions
  /\ KnownRevisions
  /\ NothingFits

(* What is shown of every step: it keeps the invariant and satisfies the     *)
(* action properties HeadMovedByWriter and OneLateSave.                      *)
HeadStep ==
  /\ revs \subseteq revs'
  /\ \A h \in revs : parent'[h] = parent[h]
  /\ head' # head => \E s \in Sids :
       Active(s) /\ parent'[head'] = sess[s].ack /\ sess'[s].ack = head'

LateStep == status = "under_review" /\ head' # head => head = submitted

GoodStep == EditorInv' /\ HeadStep /\ LateStep

LEMMA SessionOf ==
  ASSUME EditorTypeOK, NEW s \in Sids, sess[s].status \in {"active", "lapsed", "ended"}
  PROVE  sess[s] \in Session
BY NoSessionStatus DEF EditorTypeOK

-----------------------------------------------------------------------------
(* Steps on sessions: one may begin with an acknowledged revision, none      *)
(* becomes active again, and contents stay as they are.                      *)
SessionKept(s) ==
  \/ sess'[s] = sess[s]
  \/ /\ sess[s] \in Session /\ sess'[s] \in Session
     /\ sess'[s].ack = sess[s].ack /\ (Active(s)' => Active(s))
  \/ sess[s] = NoSession /\ sess'[s] \in Session /\ sess'[s].ack \in revs

OnlySessions ==
  /\ UNCHANGED <<status, head, revs, parent, pending, verified, checkpoints, submitted>>
  /\ DOMAIN sess' = Sids /\ sess' = [s \in Sids |-> sess'[s]]
  /\ \A s \in Sids : SessionKept(s)
  /\ ptr' \in Sids \cup {NoSid} /\ \A s \in Sids : Active(s)' <=> ptr' = s
  /\ acq' \in [Users -> Hashes \cup {NoRev}]
  /\ \A u \in Users : acq'[u] \in revs \cup {NoRev}

LEMMA SessionsStep ==
  ASSUME EditorInv, OnlySessions
  PROVE  GoodStep
<1>1. /\ UNCHANGED <<status, head, revs, parent, pending, verified, checkpoints, submitted>>
      /\ \A s \in Sids : Active(s)' <=> ptr' = s
      /\ \A u \in Users : acq'[u] \in revs \cup {NoRev}
  BY DEF OnlySessions
<1>2. \A s \in Sids : sess'[s] \in Session \cup {NoSession}
  BY DEF OnlySessions, SessionKept, EditorInv, EditorTypeOK
<1>3. EditorTypeOK'
  BY <1>2 DEF OnlySessions, EditorInv, EditorTypeOK
<1>4. UploadsMatchRevisions'
  BY <1>1 DEF EditorInv, UploadsMatchRevisions
<1>5. \A p \in DOMAIN pending : p.sid \in Sids /\ sess[p.sid] # NoSession
  BY UploadFields DEF EditorInv, EditorTypeOK, KnownRevisions
<1>6. \A s \in Sids : sess[s] # NoSession =>
        /\ sess'[s] # NoSession /\ sess'[s].ack = sess[s].ack
        /\ Active(s)' => Active(s)
  BY SessionFields DEF OnlySessions, SessionKept, Active
<1>7. \A s \in Sids : sess'[s] # NoSession => sess'[s].ack \in revs
  BY SessionFields DEF OnlySessions, SessionKept, EditorInv, KnownRevisions
<1>8. KnownRevisions'
  BY <1>1, <1>5, <1>6, <1>7 DEF EditorInv, KnownRevisions
<1>9. NothingFits'
  <2>1. ASSUME status = "under_review", head # submitted, NEW p \in DOMAIN pending,
               Active(p.sid)', sess'[p.sid].ack = p.base
        PROVE  FALSE
    BY <1>5, <1>6, <2>1 DEF EditorInv, NothingFits
  <2> QED BY <1>1, <2>1 DEF NothingFits
<1> QED BY <1>1, <1>3, <1>4, <1>8, <1>9 DEF GoodStep, EditorInv, HeadStep, LateStep

LEMMA RefreshStep ==
  ASSUME EditorInv, NEW s \in Sids, Active(s), RefreshSession(s)
  PROVE  GoodStep
<1> DEFINE new == [sess[s] EXCEPT !.status = "active"]
<1>1. sess[s] \in Session
  BY SessionOf DEF Active, EditorInv
<1>2. new \in Session /\ new.status = "active" /\ new.ack = sess[s].ack
  BY <1>1, SessionStatus
<1>3. /\ sess' = [sess EXCEPT ![s] = new]
      /\ UNCHANGED <<status, head, revs, parent, ptr, acq, pending, verified, checkpoints, submitted>>
  BY DEF RefreshSession
<1> HIDE DEF new
<1>4. /\ DOMAIN sess' = Sids /\ sess' = [t \in Sids |-> sess'[t]]
      /\ sess'[s] = new /\ \A t \in Sids \ {s} : sess'[t] = sess[t]
  BY <1>3 DEF EditorInv, EditorTypeOK
<1>5. \A t \in Sids : Active(t)' <=> Active(t)
  BY <1>2, <1>4 DEF Active
<1>6. \A t \in Sids : SessionKept(t)
  BY <1>1, <1>2, <1>4, <1>5 DEF SessionKept
<1>7. OnlySessions
  BY <1>3, <1>4, <1>5, <1>6 DEF OnlySessions, EditorInv, EditorTypeOK, KnownRevisions
<1> QED BY <1>7, SessionsStep

LEMMA LapseSessionStep ==
  ASSUME EditorInv, NEW s \in Sids, LapseSession(s)
  PROVE  GoodStep
<1> DEFINE new == [sess[s] EXCEPT !.status = "lapsed"]
<1>1. sess[s] \in Session /\ Active(s)
  BY SessionOf DEF Active, EditorInv, LapseSession
<1>2. new \in Session /\ new.status = "lapsed" /\ new.ack = sess[s].ack
  BY <1>1, SessionStatus
<1>3. /\ sess' = [sess EXCEPT ![s] = new]
      /\ UNCHANGED <<status, head, revs, parent, ptr, acq, pending, verified, checkpoints, submitted>>
  BY DEF LapseSession
<1> HIDE DEF new
<1>4. /\ DOMAIN sess' = Sids /\ sess' = [t \in Sids |-> sess'[t]]
      /\ sess'[s] = new /\ \A t \in Sids \ {s} : sess'[t] = sess[t]
  BY <1>3 DEF EditorInv, EditorTypeOK
<1>5. \A t \in Sids : Active(t)' <=> Active(t)
  BY <1>1, <1>2, <1>4 DEF Active
<1>6. \A t \in Sids : SessionKept(t)
  BY <1>1, <1>2, <1>4, <1>5 DEF SessionKept
<1>7. OnlySessions
  BY <1>3, <1>4, <1>5, <1>6 DEF OnlySessions, EditorInv, EditorTypeOK, KnownRevisions
<1> QED BY <1>7, SessionsStep

LEMMA BeginAcquireStep ==
  ASSUME EditorInv, NEW u \in Users, BeginAcquire(u) \/ AbortAcquire(u)
  PROVE  GoodStep
<1>1. /\ acq' = [acq EXCEPT ![u] = head] \/ acq' = [acq EXCEPT ![u] = NoRev]
      /\ UNCHANGED <<status, head, revs, parent, sess, ptr, pending, verified, checkpoints, submitted>>
  BY DEF BeginAcquire, AbortAcquire
<1>2. /\ acq' \in [Users -> Hashes \cup {NoRev}]
      /\ \A v \in Users : acq'[v] \in revs \cup {NoRev}
  BY <1>1 DEF EditorInv, EditorTypeOK, KnownRevisions
<1>3. \A t \in Sids : SessionKept(t) /\ (Active(t)' <=> ptr' = t)
  BY <1>1 DEF SessionKept, Active, EditorInv
<1>4. OnlySessions
  BY <1>1, <1>2, <1>3 DEF OnlySessions, EditorInv, EditorTypeOK
<1> QED BY <1>4, SessionsStep

LEMMA FinishAcquireStep ==
  ASSUME EditorInv, NEW u \in Users, NEW s \in Sids, FinishAcquire(u, s)
  PROVE  GoodStep
<1> DEFINE new == [user |-> u, ack |-> acq[u], status |-> "active"]
<1>1. /\ acq[u] # NoRev /\ sess[s] = NoSession /\ \A t \in Sids : ~Active(t)
      /\ sess' = [sess EXCEPT ![s] = new] /\ ptr' = s /\ acq' = [acq EXCEPT ![u] = NoRev]
      /\ UNCHANGED <<status, head, revs, parent, pending, verified, checkpoints, submitted>>
  BY DEF FinishAcquire
<1>2. acq[u] \in revs /\ acq[u] \in Hashes
  BY <1>1 DEF EditorInv, EditorTypeOK, KnownRevisions
<1>3. new \in Session /\ new.status = "active" /\ new.ack \in revs
  BY <1>2 DEF Session
<1> HIDE DEF new
<1>4. /\ DOMAIN sess' = Sids /\ sess' = [t \in Sids |-> sess'[t]]
      /\ sess'[s] = new /\ \A t \in Sids \ {s} : sess'[t] = sess[t]
  BY <1>1 DEF EditorInv, EditorTypeOK
<1>5. \A t \in Sids : Active(t)' <=> ptr' = t
  BY <1>1, <1>3, <1>4 DEF Active
<1>6. \A t \in Sids : SessionKept(t)
  BY <1>1, <1>3, <1>4 DEF SessionKept
<1>7. /\ acq' \in [Users -> Hashes \cup {NoRev}]
      /\ \A v \in Users : acq'[v] \in revs \cup {NoRev}
  BY <1>1 DEF EditorInv, EditorTypeOK, KnownRevisions
<1>8. OnlySessions
  BY <1>1, <1>4, <1>5, <1>6, <1>7 DEF OnlySessions
<1> QED BY <1>8, SessionsStep

(* Release, force-release and expiry of active sessions S. *)
LEMMA EndSessionStep ==
  ASSUME EditorInv, NEW S \in SUBSET Sids, \A s \in S : Active(s), EndSession(S),
         UNCHANGED <<status, head, revs, parent, acq, pending, verified, checkpoints, submitted>>
  PROVE  GoodStep
<1> DEFINE end(s) == [sess[s] EXCEPT !.status = "ended"]
<1>1. \A s \in S : /\ sess[s] \in Session /\ end(s) \in Session
                   /\ end(s).status = "ended" /\ end(s).ack = sess[s].ack
  <2> SUFFICES ASSUME NEW s \in S
               PROVE  /\ sess[s] \in Session /\ end(s) \in Session
                      /\ end(s).status = "ended" /\ end(s).ack = sess[s].ack
    OBVIOUS
  <2>1. sess[s] \in Session
    BY SessionOf DEF Active, EditorInv
  <2> QED BY <2>1, SessionStatus
<1>2. /\ sess' = [s \in Sids |-> IF s \in S THEN end(s) ELSE sess[s]]
      /\ ptr' = IF ptr \in S THEN NoSid ELSE ptr
  BY DEF EndSession
<1> HIDE DEF end
<1>3. \A t \in Sids : Active(t)' <=> Active(t) /\ t \notin S
  BY <1>1, <1>2 DEF Active
<1>4. \A t \in Sids : SessionKept(t)
  BY <1>1, <1>2, <1>3 DEF SessionKept
<1>5. \A t \in Sids : Active(t)' <=> ptr' = t
  BY <1>2, <1>3, EditorAssumption DEF EditorInv
<1>6. OnlySessions
  BY <1>2, <1>4, <1>5 DEF OnlySessions, EditorInv, EditorTypeOK, KnownRevisions
<1> QED BY <1>6, SessionsStep

-----------------------------------------------------------------------------
(* Steps on uploads that consume none: rows appear while the document is a   *)
(* draft, lapse, or are deleted unconsumed.                                  *)
OnlyUploads ==
  /\ UNCHANGED <<status, head, revs, parent, sess, ptr, acq, verified, checkpoints, submitted>>
  /\ DOMAIN pending' \subseteq Upload /\ pending' \in [DOMAIN pending' -> PendingRow]
  /\ \A p \in DOMAIN pending' :
       \/ p \in DOMAIN pending /\ pending'[p].consumed = pending[p].consumed
       \/ /\ status = "draft" /\ p.base \in revs /\ sess[p.sid] # NoSession
          /\ p \notin DOMAIN pending /\ ~pending'[p].consumed
  /\ \A p \in DOMAIN pending :
       p \notin DOMAIN pending' => ~pending[p].consumed

(* A step on uploads that consumes none is a good step. *)
LEMMA UploadsStep ==
  ASSUME EditorInv, OnlyUploads
  PROVE  GoodStep
<1>1. UNCHANGED <<status, head, revs, parent, sess, ptr, acq, verified, checkpoints, submitted>>
  BY DEF OnlyUploads
<1>2. EditorTypeOK'
  BY <1>1 DEF OnlyUploads, EditorInv, EditorTypeOK
<1>3. {q \in DOMAIN pending' : pending'[q].consumed}
        = {q \in DOMAIN pending : pending[q].consumed}
  BY DEF OnlyUploads
<1>4. UploadsMatchRevisions'
  BY <1>1, <1>3 DEF EditorInv, UploadsMatchRevisions
<1>5. \A p \in DOMAIN pending' : p.base \in revs /\ sess[p.sid] # NoSession
  BY DEF OnlyUploads, EditorInv, KnownRevisions
<1>6. KnownRevisions'
  BY <1>1, <1>5 DEF EditorInv, KnownRevisions
<1>7. NothingFits'
  <2>1. CASE status = "draft"
    BY <1>1, <2>1 DEF NothingFits
  <2>2. CASE status # "draft"
    <3>1. \A p \in DOMAIN pending' : p \in DOMAIN pending
      BY <2>2 DEF OnlyUploads
    <3> QED BY <1>1, <3>1 DEF EditorInv, NothingFits, Active
  <2> QED BY <2>1, <2>2
<1>8. \A s \in Sids : Active(s)' <=> ptr' = s
  BY <1>1 DEF EditorInv, Active
<1> QED BY <1>1, <1>2, <1>4, <1>6, <1>7, <1>8 DEF GoodStep, EditorInv, HeadStep, LateStep

LEMMA PresignStep ==
  ASSUME EditorInv, NEW u \in Users, NEW s \in Sids, NEW h \in Hashes, PresignAutosave(u, s, h)
  PROVE  GoodStep
<1> DEFINE p == [sid |-> s, base |-> sess[s].ack, hash |-> h]
           row == [lapsed |-> FALSE, consumed |-> FALSE]
<1>1. sess[s] \in Session
  BY SessionOf DEF PresignAutosave, HeldBy, Active, EditorInv
<1>2. sess[s] # NoSession /\ sess[s].ack \in Hashes /\ sess[s].ack \in revs
  BY <1>1, SessionFields DEF EditorInv, KnownRevisions
<1>3. p \in Upload /\ p.sid = s /\ p.base = sess[s].ack
  BY <1>2 DEF Upload
<1>4. row \in PendingRow /\ ~row.consumed
  BY DEF PendingRow
<1>5. /\ status = "draft" /\ p \notin DOMAIN pending
      /\ pending' = [q \in DOMAIN pending \cup {p} |-> IF q = p THEN row ELSE pending[q]]
      /\ UNCHANGED <<status, head, revs, parent, sess, ptr, acq, verified, checkpoints, submitted>>
  BY DEF PresignAutosave, PresignReserve
<1> HIDE DEF p, row
<1>6. /\ DOMAIN pending' = DOMAIN pending \cup {p} /\ pending'[p] = row
      /\ \A q \in DOMAIN pending : pending'[q] = pending[q]
  BY <1>5
<1>7. DOMAIN pending' \subseteq Upload /\ pending' \in [DOMAIN pending' -> PendingRow]
  BY <1>3, <1>4, <1>5 DEF EditorInv, EditorTypeOK
<1>8. \A q \in DOMAIN pending' :
       \/ q \in DOMAIN pending /\ pending'[q].consumed = pending[q].consumed
       \/ /\ status = "draft" /\ q.base \in revs /\ sess[q.sid] # NoSession
          /\ q \notin DOMAIN pending /\ ~pending'[q].consumed
  BY <1>2, <1>3, <1>4, <1>5, <1>6
<1>9. OnlyUploads
  BY <1>5, <1>6, <1>7, <1>8 DEF OnlyUploads
<1> QED BY <1>9, UploadsStep

LEMMA LapsePendingStep ==
  ASSUME EditorInv, NEW p \in DOMAIN pending, LapsePending(p)
  PROVE  GoodStep
<1> DEFINE row == [pending[p] EXCEPT !.lapsed = TRUE]
<1>1. row \in PendingRow /\ row.consumed = pending[p].consumed
  BY RowFields DEF EditorInv, EditorTypeOK
<1>2. /\ pending' = [pending EXCEPT ![p] = row]
      /\ UNCHANGED <<status, head, revs, parent, sess, ptr, acq, verified, checkpoints, submitted>>
  BY DEF LapsePending
<1> HIDE DEF row
<1>3. /\ DOMAIN pending' = DOMAIN pending /\ pending'[p] = row
      /\ \A q \in DOMAIN pending \ {p} : pending'[q] = pending[q]
      /\ pending' \in [DOMAIN pending -> PendingRow]
  BY <1>1, <1>2 DEF EditorInv, EditorTypeOK
<1>4. OnlyUploads
  BY <1>1, <1>2, <1>3 DEF OnlyUploads, EditorInv, EditorTypeOK
<1> QED BY <1>4, UploadsStep

LEMMA SweepStep ==
  ASSUME EditorInv, DeleteExpiredPending
  PROVE  GoodStep
<1>1. /\ DOMAIN pending' = {q \in DOMAIN pending : ~Sweepable(q)}
      /\ \A q \in DOMAIN pending' : pending'[q] = pending[q]
      /\ pending' = [q \in DOMAIN pending' |-> pending'[q]]
  BY DEF DeleteExpiredPending
<1>2. \A q \in DOMAIN pending : q \notin DOMAIN pending' => ~pending[q].consumed
  BY <1>1 DEF Sweepable
<1>3. \A q \in DOMAIN pending' : q \in Upload /\ pending'[q] \in PendingRow
  BY <1>1 DEF EditorInv, EditorTypeOK
<1>4. UNCHANGED <<status, head, revs, parent, sess, ptr, acq, verified, checkpoints, submitted>>
  BY DEF DeleteExpiredPending
<1>5. OnlyUploads
  BY <1>1, <1>2, <1>3, <1>4 DEF OnlyUploads
<1> QED BY <1>5, UploadsStep

-----------------------------------------------------------------------------
(* Steps that touch neither sessions nor uploads.                            *)
OnlyCalls ==
  /\ UNCHANGED <<head, revs, parent, sess, ptr, acq, pending>>
  /\ verified' \subseteq Users \X Upload
  /\ checkpoints' \in Seq(Hashes) /\ \A v \in DOMAIN checkpoints' : checkpoints'[v] \in revs
  /\ status' \in {"draft", "under_review"} /\ submitted' \in Hashes \cup {NoRev}
  /\ \/ status' = status /\ submitted' = submitted
     \/ status' = "draft"
     \/ submitted' = head

(* A step that touches neither sessions nor uploads is a good step. *)
LEMMA CallsStep ==
  ASSUME EditorInv, OnlyCalls
  PROVE  GoodStep
<1>1. UNCHANGED <<head, revs, parent, sess, ptr, acq, pending>>
  BY DEF OnlyCalls
<1>2. EditorTypeOK'
  BY <1>1 DEF OnlyCalls, EditorInv, EditorTypeOK
<1>3. UploadsMatchRevisions'
  BY <1>1 DEF EditorInv, UploadsMatchRevisions
<1>4. KnownRevisions'
  BY <1>1 DEF OnlyCalls, EditorInv, KnownRevisions
<1>5. NothingFits'
  BY <1>1 DEF OnlyCalls, EditorInv, NothingFits, Active
<1>6. \A s \in Sids : Active(s)' <=> ptr' = s
  BY <1>1 DEF EditorInv, Active
<1> QED BY <1>1, <1>2, <1>3, <1>4, <1>5, <1>6 DEF GoodStep, EditorInv, HeadStep, LateStep

LEMMA VerifyStep ==
  ASSUME EditorInv, NEW u \in Users, NEW p \in DOMAIN pending, VerifyUpload(u, p)
  PROVE  GoodStep
<1>1. p \in Upload
  BY DEF EditorInv, EditorTypeOK
<1>2. OnlyCalls
  BY <1>1 DEF VerifyUpload, OnlyCalls, EditorInv, EditorTypeOK, KnownRevisions
<1> QED BY <1>2, CallsStep

LEMMA EndCommitStep ==
  ASSUME EditorInv, NEW u, NEW p, EndCommit(u, p)
  PROVE  GoodStep
<1>1. OnlyCalls
  BY DEF EndCommit, OnlyCalls, EditorInv, EditorTypeOK, KnownRevisions
<1> QED BY <1>1, CallsStep

LEMMA CheckpointStep ==
  ASSUME EditorInv, CreateCheckpoint
  PROVE  GoodStep
<1>1. /\ checkpoints \in Seq(Hashes) /\ head \in Hashes /\ head \in revs
      /\ \A v \in DOMAIN checkpoints : checkpoints[v] \in revs
  BY DEF EditorInv, EditorTypeOK, KnownRevisions
<1>2. /\ checkpoints' = Append(checkpoints, head)
      /\ UNCHANGED <<status, head, revs, parent, sess, ptr, acq, pending, verified, submitted>>
  BY DEF CreateCheckpoint
<1>3. checkpoints' \in Seq(Hashes) /\ \A v \in DOMAIN checkpoints' : checkpoints'[v] \in revs
  BY <1>1, <1>2
<1>4. OnlyCalls
  BY <1>2, <1>3 DEF OnlyCalls, EditorInv, EditorTypeOK
<1> QED BY <1>4, CallsStep

(* A checkpoint is a revision, so a restore always meets the conflict. *)
LEMMA RestoreStep ==
  ASSUME EditorInv, NEW u \in Users, NEW v \in DOMAIN checkpoints, RestoreCheckpoint(u, v)
  PROVE  GoodStep
<1>1. checkpoints[v] \in revs
  BY DEF EditorInv, KnownRevisions
<1>2. UNCHANGED <<status, head, revs, parent, sess, ptr, acq, pending, verified, checkpoints, submitted>>
  BY <1>1 DEF RestoreCheckpoint
<1>3. OnlyCalls
  BY <1>2 DEF OnlyCalls, EditorInv, EditorTypeOK, KnownRevisions
<1> QED BY <1>3, CallsStep

LEMMA SubmitStep ==
  ASSUME EditorInv, Submit \/ Cancel
  PROVE  GoodStep
<1>1. OnlyCalls
  BY DEF Submit, Cancel, OnlyCalls, EditorInv, EditorTypeOK, KnownRevisions
<1> QED BY <1>1, CallsStep

-----------------------------------------------------------------------------
(* CommitUpload appends a revision on the writer's behalf: the one step that *)
(* moves the head, changes what a session has acknowledged and consumes.     *)
LEMMA CommitStep ==
  ASSUME EditorInv, NEW u, NEW p, CommitUpload(u, p)
  PROVE  GoodStep
<1> DEFINE new == [sess[p.sid] EXCEPT !.ack = p.hash]
           row == [pending[p] EXCEPT !.consumed = TRUE]
<1>1. /\ p \in DOMAIN pending /\ p \in Upload /\ p.sid \in Sids /\ p.base \in Hashes
      /\ p.hash \in Hashes /\ p.base \in revs /\ p.hash \notin revs
      /\ Active(p.sid) /\ sess[p.sid].ack = p.base /\ ~pending[p].consumed
  BY UploadFields DEF CommitUpload, SessionMayCommit, HeldBy, EditorInv, EditorTypeOK, KnownRevisions
<1>2. sess[p.sid] \in Session
  BY <1>1, SessionOf DEF Active, EditorInv
<1>3. new \in Session /\ new.ack = p.hash /\ new.status = sess[p.sid].status
  BY <1>1, <1>2, SessionAck
<1>4. row \in PendingRow /\ row.consumed = TRUE
  BY <1>1, RowFields DEF EditorInv, EditorTypeOK
<1>5. /\ revs' = revs \cup {p.hash} /\ parent' = [parent EXCEPT ![p.hash] = p.base]
      /\ head' = p.hash /\ sess' = [sess EXCEPT ![p.sid] = new]
      /\ pending' = [pending EXCEPT ![p] = row] /\ verified' = verified \ {<<u, p>>}
      /\ UNCHANGED <<status, ptr, acq, checkpoints, submitted>>
  BY DEF CommitUpload, Consume
<1> HIDE DEF new, row
<1>6. /\ sess' \in [Sids -> Session \cup {NoSession}] /\ sess'[p.sid] = new
      /\ \A t \in Sids \ {p.sid} : sess'[t] = sess[t]
  BY <1>1, <1>3, <1>5 DEF EditorInv, EditorTypeOK
<1>7. /\ DOMAIN pending' = DOMAIN pending /\ pending'[p] = row
      /\ \A q \in DOMAIN pending \ {p} : pending'[q] = pending[q]
      /\ pending' \in [DOMAIN pending' -> PendingRow]
  BY <1>1, <1>4, <1>5 DEF EditorInv, EditorTypeOK
<1>8. /\ parent' \in [Hashes -> Hashes \cup {NoRev}] /\ parent'[p.hash] = p.base
      /\ \A h \in Hashes \ {p.hash} : parent'[h] = parent[h]
  BY <1>1, <1>5 DEF EditorInv, EditorTypeOK
<1>9. \A t \in Sids : Active(t)' <=> Active(t)
  BY <1>3, <1>6 DEF Active
<1>10. EditorTypeOK'
  BY <1>1, <1>5, <1>6, <1>7, <1>8 DEF EditorInv, EditorTypeOK
<1>11. UploadsMatchRevisions'
  <2>1. {q \in DOMAIN pending' : pending'[q].consumed}
          = {q \in DOMAIN pending : pending[q].consumed} \cup {p}
    BY <1>1, <1>4, <1>7
  <2> QED BY <1>5, <2>1 DEF EditorInv, UploadsMatchRevisions
<1>12. \A t \in Sids : sess'[t] # NoSession => sess'[t].ack \in revs'
  BY <1>3, <1>5, <1>6 DEF EditorInv, KnownRevisions
<1>13. \A q \in DOMAIN pending' : q.base \in revs' /\ sess'[q.sid] # NoSession
  <2> SUFFICES ASSUME NEW q \in DOMAIN pending
               PROVE  q.base \in revs' /\ sess'[q.sid] # NoSession
    BY <1>7
  <2>1. q.base \in revs /\ sess[q.sid] # NoSession /\ q.sid \in Sids
    BY UploadFields DEF EditorInv, EditorTypeOK, KnownRevisions
  <2> QED BY <1>3, <1>5, <1>6, <2>1, SessionFields
<1>14. KnownRevisions'
  BY <1>5, <1>12, <1>13 DEF EditorInv, KnownRevisions
<1>15. NothingFits'
  <2> SUFFICES ASSUME NEW q \in DOMAIN pending, Active(q.sid)', sess'[q.sid].ack = q.base
               PROVE  FALSE
    BY <1>7 DEF NothingFits
  <2>1. q.base \in revs /\ q.sid \in Sids
    BY UploadFields DEF EditorInv, EditorTypeOK, KnownRevisions
  <2>2. q.sid = p.sid
    BY <1>1, <1>9, <2>1 DEF EditorInv
  <2> QED BY <1>1, <1>3, <1>6, <2>1, <2>2
<1>16. \A t \in Sids : Active(t)' <=> ptr' = t
  BY <1>5, <1>9 DEF EditorInv
<1>17. HeadStep
  <2>1. \A h \in revs : parent'[h] = parent[h]
    BY <1>1, <1>8 DEF EditorInv, EditorTypeOK
  <2>2. Active(p.sid) /\ parent'[head'] = sess[p.sid].ack /\ sess'[p.sid].ack = head'
    BY <1>1, <1>3, <1>5, <1>6, <1>8
  <2> QED BY <1>1, <1>5, <2>1, <2>2 DEF HeadStep
<1>18. LateStep
  BY <1>1 DEF LateStep, EditorInv, NothingFits
<1> QED BY <1>10, <1>11, <1>14, <1>15, <1>16, <1>17, <1>18 DEF GoodStep, EditorInv

-----------------------------------------------------------------------------
(* The routes, the background steps and the whole next-state relation.       *)

LEMMA HandlerStep ==
  ASSUME EditorInv, NEW u \in Users, Handlers(u)
  PROVE  GoodStep
<1>1. CASE acquireSession(u)
  <2>1. CASE BeginAcquire(u)
    BY <2>1, BeginAcquireStep
  <2>2. CASE \E s \in Sids : HeldBy(s, u) /\ RefreshSession(s)
    BY <2>2, RefreshStep DEF HeldBy
  <2> QED BY <1>1, <2>1, <2>2 DEF acquireSession
<1>2. CASE heartbeatSession(u)
  BY <1>2, RefreshStep DEF heartbeatSession, HeldBy, HeartbeatSession
<1>3. CASE releaseSession(u) \/ forceReleaseSession(u)
  <2>1. PICK s \in Sids : Active(s) /\ ReleaseSession(s)
    BY <1>3 DEF releaseSession, forceReleaseSession, HeldBy
  <2>2. /\ {s} \in SUBSET Sids /\ (\A t \in {s} : Active(t)) /\ EndSession({s})
        /\ UNCHANGED <<status, head, revs, parent, acq, pending, verified, checkpoints, submitted>>
    BY <2>1 DEF ReleaseSession
  <2> QED BY <2>2, EndSessionStep
<1>4. CASE presignAutosave(u)
  BY <1>4, PresignStep DEF presignAutosave
<1>5. CASE commitAutosave(u)
  BY <1>5, VerifyStep DEF commitAutosave
<1>6. CASE createCheckpoint(u)
  BY <1>6, CheckpointStep DEF createCheckpoint
<1>7. CASE restoreCheckpoint(u)
  BY <1>7, RestoreStep DEF restoreCheckpoint
<1> QED BY <1>1, <1>2, <1>3, <1>4, <1>5, <1>6, <1>7 DEF Handlers

LEMMA BackgroundStep ==
  ASSUME EditorInv, Background
  PROVE  GoodStep
<1>1. CASE \E u \in Users : AbortAcquire(u) \/ \E s \in Sids : FinishAcquire(u, s)
  BY <1>1, BeginAcquireStep, FinishAcquireStep
<1>2. CASE \E c \in verified : CommitUpload(c[1], c[2]) \/ EndCommit(c[1], c[2])
  BY <1>2, CommitStep, EndCommitStep
<1>3. CASE \E s \in Sids : LapseSession(s)
  BY <1>3, LapseSessionStep
<1>4. CASE \E p \in DOMAIN pending : LapsePending(p)
  BY <1>4, LapsePendingStep
<1>5. CASE ExpireStaleSessions
  <2> DEFINE stale == {s \in Sids : sess[s].status = "lapsed"}
  <2>1. /\ stale \in SUBSET Sids /\ (\A t \in stale : Active(t)) /\ EndSession(stale)
        /\ UNCHANGED <<status, head, revs, parent, acq, pending, verified, checkpoints, submitted>>
    BY <1>5 DEF ExpireStaleSessions, Active
  <2> HIDE DEF stale
  <2> QED BY <2>1, EndSessionStep
<1>6. CASE DeleteExpiredPending
  BY <1>6, SweepStep
<1> QED BY <1>1, <1>2, <1>3, <1>4, <1>5, <1>6 DEF Background

LEMMA EditorStep ==
  ASSUME EditorInv, [EditorNext]_vars
  PROVE  EditorInv' /\ [HeadStep]_vars /\ [LateStep]_vars
<1>1. CASE EditorNext
  <2>1. GoodStep
    BY <1>1, HandlerStep, BackgroundStep, SubmitStep DEF EditorNext
  <2> QED BY <2>1 DEF GoodStep
<1>2. CASE UNCHANGED vars
  <2>1. OnlyCalls
    BY <1>2 DEF vars, OnlyCalls, EditorInv, EditorTypeOK, KnownRevisions
  <2> QED BY <1>2, <2>1, CallsStep DEF GoodStep
<1> QED BY <1>1, <1>2

LEMMA EditorStart == EditorInit => EditorInv
<1> SUFFICES ASSUME EditorInit PROVE EditorInv
  OBVIOUS
<1> DEFINE first == [user |-> Creator, ack |-> Initial, status |-> "active"]
<1>1. PICK s \in Sids :
        ptr = s /\ sess = [t \in Sids |-> IF t # s THEN NoSession ELSE first]
  BY DEF EditorInit
<1>2. first \in Session /\ first.status = "active" /\ first.ack = Initial
  BY EditorAssumption DEF Session
<1> HIDE DEF first
<1>3. /\ DOMAIN pending = {} /\ pending \in [DOMAIN pending -> PendingRow]
      /\ checkpoints = <<>> /\ verified = {} /\ revs = {Initial} /\ head = Initial
      /\ status = "draft" /\ submitted = NoRev
  BY DEF EditorInit
<1>4. checkpoints \in Seq(Hashes) /\ DOMAIN checkpoints = {}
  BY <1>3
<1>5. EditorTypeOK
  BY <1>1, <1>2, <1>3, <1>4, EditorAssumption DEF EditorTypeOK, EditorInit
<1>6. \A t \in Sids : Active(t) <=> ptr = t
  BY <1>1, <1>2, NoSessionStatus DEF Active
<1>7. UploadsMatchRevisions
  BY <1>3 DEF UploadsMatchRevisions
<1>8. KnownRevisions
  BY <1>1, <1>2, <1>3, <1>4 DEF KnownRevisions, EditorInit
<1>9. NothingFits
  BY <1>3 DEF NothingFits
<1> QED BY <1>5, <1>6, <1>7, <1>8, <1>9 DEF EditorInv

-----------------------------------------------------------------------------
(* The invariant holds in every reachable state. *)
THEOREM EditorInvariance == EditorSpec => []EditorInv
<1>1. EditorInv /\ [EditorNext]_vars => EditorInv'
  BY EditorStep
<1> QED BY <1>1, EditorStart, PTL DEF EditorSpec

(* documents.active_session_id names the active session whenever there is    *)
(* one and only then, whatever acquires, releases, expiries and sweeps come  *)
(* between: CommitUpload and RestoreCheckpoint agree on the writer.          *)
THEOREM PointerNamesWriter == EditorSpec => []PointerIsWriter
<1>1. EditorInv => PointerIsWriter
  BY DEF EditorInv, PointerIsWriter
<1> QED BY <1>1, EditorInvariance, PTL

(* Every revision but the first has the consumed upload that wrote it and    *)
(* every consumed upload its revision: the orphan sweeper deletes no row     *)
(* that a replayed CommitUpload needs.                                       *)
THEOREM RevisionsHaveUploads == EditorSpec => []UploadsMatchRevisions
<1>1. EditorInv => UploadsMatchRevisions
  BY DEF EditorInv
<1> QED BY <1>1, EditorInvariance, PTL

(* Revisions are append-only and only the active session's commit moves the  *)
(* head, onto the revision it had acknowledged.                              *)
THEOREM WriterMovesHead == EditorSpec => HeadMovedByWriter
<1>1. EditorInv /\ [EditorNext]_vars => [HeadStep]_vars
  BY EditorStep
<1>2. EditorSpec => [][HeadStep]_vars
  BY <1>1, EditorInvariance, PTL DEF EditorSpec
<1> QED BY <1>2 DEF HeadMovedByWriter, HeadStep

(* At most one save, checked before the submission and committed after it,   *)
(* changes what the reviewers of a submitted document see.                   *)
THEOREM AtMostOneLateSave == EditorSpec => OneLateSave
<1>1. EditorInv /\ [EditorNext]_vars => [LateStep]_vars
  BY EditorStep
<1>2. EditorSpec => [][LateStep]_vars
  BY <1>1, EditorInvariance, PTL DEF EditorSpec
<1> QED BY <1>2 DEF OneLateSave, LateStep
=============================================================================
