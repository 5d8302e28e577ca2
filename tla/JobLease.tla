------------------------------- MODULE JobLease -------------------------------
(***************************************************************************)
(* The leases that elect one API process per background job: the functions *)
(* acquire_lease, heartbeat_lease and release_lease of migrations 0148 and *)
(* 0149 and the loops of internal/modules/jobs/scheduler that call them.   *)
(*                                                                         *)
(* All times are the database's now(), so one clock; a lease keeps what is *)
(* left of it, expires_at - now(), and Tick lets that shrink.  Each SQL    *)
(* function runs under the row lock of its lease and is one step.  A run   *)
(* is an in-flight job: the epoch it was given and whether its context has *)
(* been cancelled.                                                         *)
(***************************************************************************)
EXTENDS Integers

CONSTANTS
  Leaders,    \* leader ids, host:pid; a restarted container reuses its own
  Jobs,       \* job names
  Reaper,     \* the job that runs RunLeaseReaper
  TTL,        \* lease duration (5 minutes)
  ReapAfter,  \* how long expired before the reaper wants a lease (10 minutes)
  MaxEpoch    \* bound on lease_epoch

ASSUME LeaseAssumption ==
  /\ Reaper \in Jobs
  /\ TTL \in Nat \ {0} /\ ReapAfter \in Nat \ {0} /\ MaxEpoch \in Nat

VARIABLES
  lease,  \* metaldocs.job_leases by job_name
  run,    \* Scheduler.inFlight of each process, by job
  proc    \* where each process is between start and exit

leaseVars == <<lease, run, proc>>

Lease == [leader : Leaders, epoch : Nat, left : Int]
NoLease == [epoch |-> 0]
Run == [epoch : Nat, cancelled : BOOLEAN]
NoRun == [epoch |-> 0]

(* drain: tickers stopped; cancelled: job contexts cancelled after drainWait; *)
(* released: leases given up by force after forceWait.                        *)
Phases == {"up", "drain", "cancelled", "released", "down"}

LeaseTypeOK ==
  /\ lease \in [Jobs -> Lease \cup {NoLease}]
  /\ run \in [Leaders -> [Jobs -> Run \cup {NoRun}]]
  /\ proc \in [Leaders -> Phases]

LeaseInit ==
  /\ lease = [j \in Jobs |-> NoLease]
  /\ run = [l \in Leaders |-> [j \in Jobs |-> NoRun]]
  /\ proc = [l \in Leaders |-> "up"]

Running(l, j) == run[l][j] # NoRun
Expired(j) == lease[j] # NoLease /\ lease[j].left < 0

(* Mutant: the UPDATE names the job only. *)
Owns_AnyRow(l, j, e) == lease[j] # NoLease

(* The rows heartbeat_lease and release_lease update. *)
Owns(l, j, e) == lease[j] # NoLease /\ lease[j].leader = l /\ lease[j].epoch = e

-----------------------------------------------------------------------------
(* Mutant: an expired lease is taken over under its old epoch. *)
NextEpoch_Reused(l, j) ==
  IF lease[j] = NoLease THEN 1 ELSE lease[j].epoch

(* The epoch acquire_lease returns: 1 for a new row, the next one for an     *)
(* expired row, the same one when the caller still holds it.                 *)
NextEpoch(l, j) ==
  IF lease[j] = NoLease THEN 1
  ELSE IF Expired(j) THEN lease[j].epoch + 1
  ELSE lease[j].epoch

(* Mutant: a lease about to run out is taken already. *)
Acquirable_Early(l, j) ==
  lease[j] # NoLease => lease[j].left <= 0 \/ lease[j].leader = l

(* acquire_lease refuses a live lease of somebody else (and, SKIP LOCKED,    *)
(* one that another transaction is changing).                                *)
Acquirable(l, j) == lease[j] # NoLease => lease[j].left < 0 \/ lease[j].leader = l

(* Mutant: the job starts although the answer was (false, -1). *)
AcquireLease_ResultIgnored(l, j) ==
  /\ proc[l] = "up"
  /\ ~Running(l, j)
  /\ NextEpoch(l, j) <= MaxEpoch
  /\ lease' = IF ~Acquirable(l, j) THEN lease ELSE [lease EXCEPT ![j] =
       [leader |-> l, epoch |-> NextEpoch(l, j), left |-> TTL]]
  /\ run' = [run EXCEPT ![l][j] =
       [epoch |-> IF Acquirable(l, j) THEN NextEpoch(l, j) ELSE -1,
        cancelled |-> FALSE]]
  /\ UNCHANGED proc

(* Mutant: an expired lease is not recognised as free. *)
AcquireLease_NoTakeover(l, j) ==
  /\ proc[l] = "up"
  /\ ~Running(l, j)
  /\ lease[j] # NoLease => lease[j].leader = l
  /\ NextEpoch(l, j) <= MaxEpoch
  /\ lease' = [lease EXCEPT ![j] =
       [leader |-> l, epoch |-> NextEpoch(l, j), left |-> TTL]]
  /\ run' = [run EXCEPT ![l][j] = [epoch |-> NextEpoch(l, j), cancelled |-> FALSE]]
  /\ UNCHANGED proc

(* A tick of runJobLoop that gets the lease and starts the job.  Ticks that  *)
(* skip for backpressure or do not get the lease change nothing.             *)
AcquireLease(l, j) ==
  /\ proc[l] = "up"
  /\ ~Running(l, j)
  /\ Acquirable(l, j)
  /\ NextEpoch(l, j) <= MaxEpoch
  /\ lease' = [lease EXCEPT ![j] =
       [leader |-> l, epoch |-> NextEpoch(l, j), left |-> TTL]]
  /\ run' = [run EXCEPT ![l][j] = [epoch |-> NextEpoch(l, j), cancelled |-> FALSE]]
  /\ UNCHANGED proc

(* heartbeatLoop: extends the lease, even an expired one nobody took, or     *)
(* finds it stolen and cancels the job.  A heartbeat that fails changes      *)
(* nothing.                                                                  *)
HeartbeatLease(l, j) ==
  /\ Running(l, j) /\ ~run[l][j].cancelled
  /\ \/ /\ Owns(l, j, run[l][j].epoch)
        /\ lease' = [lease EXCEPT ![j].left = TTL]
        /\ UNCHANGED run
     \/ /\ ~Owns(l, j, run[l][j].epoch)
        /\ run' = [run EXCEPT ![l][j].cancelled = TRUE]
        /\ UNCHANGED lease
  /\ UNCHANGED proc

(* Mutant: release before migration 0149, which deleted the row. *)
Released_Deleted(l, j, e) == IF Owns(l, j, e) THEN NoLease ELSE lease[j]

(* release_lease expires the row by a second and keeps it, so that the next  *)
(* acquire raises the epoch.                                                 *)
Released(l, j, e) ==
  IF Owns(l, j, e) THEN [lease[j] EXCEPT !.left = -1] ELSE lease[j]

(* The job function returns and its lease is released; a release that fails  *)
(* leaves the lease to expire.                                               *)
FinishJob(l, j) ==
  /\ Running(l, j)
  /\ \/ lease' = [lease EXCEPT ![j] = Released(l, j, run[l][j].epoch)]
     \/ UNCHANGED lease
  /\ run' = [run EXCEPT ![l][j] = NoRun]
  /\ UNCHANGED proc

(* RunLeaseReaper.  Its transaction deletes leases that expired long ago and *)
(* then inserts a governance event with tenant_id 'system' and a column      *)
(* occurred_at, which governance_events (migration 0125) does not accept, so *)
(* it rolls back whenever there is a lease to delete; the job then returns.  *)
RunLeaseReaper(l) == FinishJob(l, Reaper)

-----------------------------------------------------------------------------
(* Shutdown: Start sees its context done, stops the tickers and drains. *)
BeginDrain(l) ==
  /\ proc[l] = "up"
  /\ proc' = [proc EXCEPT ![l] = "drain"]
  /\ UNCHANGED <<lease, run>>

(* drainWait passes with jobs in flight: their contexts are cancelled. *)
CancelInFlight(l) ==
  /\ proc[l] = "drain"
  /\ \E j \in Jobs : Running(l, j)
  /\ run' = [run EXCEPT ![l] = [j \in Jobs |->
       IF Running(l, j) THEN [run[l][j] EXCEPT !.cancelled = TRUE] ELSE NoRun]]
  /\ proc' = [proc EXCEPT ![l] = "cancelled"]
  /\ UNCHANGED lease

(* forceWait passes too: the leases of the jobs still in flight are released *)
(* under them; S are the releases that succeed.                              *)
ForceRelease(l, S) ==
  /\ proc[l] = "cancelled"
  /\ \E j \in Jobs : Running(l, j)
  /\ lease' = [j \in Jobs |->
       IF j \in S /\ Running(l, j) THEN Released(l, j, run[l][j].epoch) ELSE lease[j]]
  /\ proc' = [proc EXCEPT ![l] = "released"]
  /\ UNCHANGED run

(* The process ends: at any moment by a crash, or orderly when nothing is in *)
(* flight or the forced release is done.                                     *)
Exit(l) ==
  /\ proc[l] # "down"
  /\ proc' = [proc EXCEPT ![l] = "down"]
  /\ run' = [run EXCEPT ![l] = [j \in Jobs |-> NoRun]]
  /\ UNCHANGED lease

StartProcess(l) ==
  /\ proc[l] = "down"
  /\ proc' = [proc EXCEPT ![l] = "up"]
  /\ UNCHANGED <<lease, run>>

(* Time passes.  What is left of a lease is not followed further than the    *)
(* reaper looks.                                                             *)
Tick ==
  /\ \E j \in Jobs : lease[j] # NoLease /\ lease[j].left >= -ReapAfter
  /\ lease' = [j \in Jobs |->
       IF lease[j] # NoLease /\ lease[j].left >= -ReapAfter
       THEN [lease[j] EXCEPT !.left = @ - 1] ELSE lease[j]]
  /\ UNCHANGED <<run, proc>>

-----------------------------------------------------------------------------
Loop(l, j) == AcquireLease(l, j) \/ HeartbeatLease(l, j)

Shutdown(l) ==
  \/ BeginDrain(l)
  \/ CancelInFlight(l)
  \/ \E S \in SUBSET Jobs : ForceRelease(l, S)
  \/ Exit(l)

LeaseNext ==
  \/ \E l \in Leaders, j \in Jobs : Loop(l, j)
  \/ \E l \in Leaders, j \in Jobs \ {Reaper} : FinishJob(l, j)
  \/ \E l \in Leaders : RunLeaseReaper(l)
  \/ \E l \in Leaders : Shutdown(l)
  \/ \E l \in Leaders : StartProcess(l)
  \/ Tick

LeaseSpec == LeaseInit /\ [][LeaseNext]_leaseVars

(* Time passes, job functions return (each handles one bounded batch), and a *)
(* free lease is eventually taken by a tick of some process.  Whether users  *)
(* stop processes is up to them; a stopped one is started again.             *)
LeaseFairness ==
  /\ WF_leaseVars(Tick)
  /\ \A j \in Jobs : WF_leaseVars(\E l \in Leaders : AcquireLease(l, j))
  /\ \A l \in Leaders, j \in Jobs : WF_leaseVars(FinishJob(l, j))
  /\ \A l \in Leaders : WF_leaseVars(StartProcess(l))

FairLeaseSpec == LeaseSpec /\ LeaseFairness

-----------------------------------------------------------------------------
(* The fencing token is one: two processes running the same job never hold   *)
(* the same epoch, however leases expire, are stolen, released late or by    *)
(* force, no epoch in use is ahead of the row, and a run with the row's      *)
(* epoch is the leader's.                                                    *)
FencingUnique ==
  \A j \in Jobs, l \in Leaders : Running(l, j) =>
    /\ lease[j] # NoLease /\ run[l][j].epoch <= lease[j].epoch
    /\ run[l][j].epoch = lease[j].epoch => lease[j].leader = l
    /\ \A m \in Leaders \ {l} : Running(m, j) => run[m][j].epoch # run[l][j].epoch

(* A run whose lease was taken over cannot disturb the new holder: its       *)
(* heartbeat, its release and the release a shutdown forces leave the row    *)
(* alone.                                                                    *)
StaleRunHarmless ==
  [][\A l \in Leaders, j \in Jobs :
       /\ Running(l, j) /\ run[l][j].epoch # lease[j].epoch
       /\ \/ HeartbeatLease(l, j) \/ FinishJob(l, j)
          \/ \E S \in SUBSET Jobs : ForceRelease(l, S)
       => lease'[j] = lease[j]]_leaseVars

(* Whatever acquires, heartbeats, releases, shutdowns and crashes do to it,  *)
(* lease_epoch never falls (0149), and a lease changes hands only together   *)
(* with its epoch, so that a stale token does not become valid again.  The   *)
(* reaper's own runs are excepted: they mean to delete rows, and the next    *)
(* acquire of a deleted one starts at epoch 1.                               *)
EpochMonotonic ==
  [][~(\E l \in Leaders : RunLeaseReaper(l)) =>
       \A j \in Jobs :
         /\ lease'[j].epoch >= lease[j].epoch
         /\ lease[j] # NoLease =>
              /\ lease'[j] # NoLease
              /\ lease'[j].leader # lease[j].leader =>
                   lease'[j].epoch > lease[j].epoch]_leaseVars

(* No lease is taken from a process before it has run out: only an expired   *)
(* lease changes its leader.                                                 *)
TakenOnlyExpired ==
  [][\A j \in Jobs : lease[j] # NoLease /\ lease[j].left >= 0 =>
       lease'[j].leader = lease[j].leader /\ lease'[j].epoch = lease[j].epoch]_leaseVars

(* A holder that crashed or stopped does not stop the job for good: while    *)
(* some process stays up, the job runs again and again (until the bound on   *)
(* epochs is reached).                                                       *)
JobKeepsRunning ==
  (\E l \in Leaders : <>[](proc[l] = "up")) =>
    \A j \in Jobs :
      []<>((\E l \in Leaders : Running(l, j)) \/ lease[j].epoch = MaxEpoch)
=============================================================================
