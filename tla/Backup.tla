------------------------------- MODULE Backup -------------------------------
(***************************************************************************)
(* scripts/backup.sh, run daily and on demand, and                         *)
(* scripts/backup-health-check.ts, over one bucket.  Any command may fail  *)
(* or the host die at it; two backups may overlap.  Time is counted in     *)
(* units of which MaxAge and Retention are multiples.                      *)
(***************************************************************************)
EXTENDS Naturals, FiniteSets

CONSTANTS
    Jobs,       \* the hosts that run the backup
    Retention,  \* RETENTION_DAYS
    MaxAge,     \* MAX_AGE_HOURS
    MaxRunTime, \* the runner ends a backup that takes longer
    MaxClock,   \* bound: time stops here
    MaxBackups  \* bound: how many backups are started

VARIABLES
    bucket,  \* the stored dumps
    job,     \* each backup run
    check,   \* the health check
    clock,   \* the time
    started  \* how many backups were started

backupVars == <<bucket, job, check, clock, started>>

ASSUME BackupAssumption ==
    /\ {MaxAge, MaxRunTime, MaxBackups} \subseteq Nat
    /\ MaxClock \in Nat \ {0}
    /\ Retention \in Nat \ 0 .. MaxRunTime

IdleJob == [at |-> "idle", key |-> 0, whole |-> FALSE, cutoff |-> 0, listed |-> {}]

IdleCheck == [at |-> "idle", key |-> 0]

BackupInit ==
    /\ bucket = {}
    /\ job = [j \in Jobs |-> IdleJob]
    /\ check = IdleCheck
    /\ clock = 1 /\ started = 0

-----------------------------------------------------------------------------
(* The backup.                                                             *)

(* The file is named by the time at which the run starts, to the second. *)
StartBackup(j) ==
    /\ job[j].at = "idle" /\ started < MaxBackups
    /\ job' = [job EXCEPT ![j] = [IdleJob EXCEPT !.at = "dump", !.key = clock]]
    /\ started' = started + 1
    /\ UNCHANGED <<bucket, check, clock>>

(* Faulty variant: no pipefail, so the status is gzip's. *)
GzipSucceeds(whole) == TRUE

(* pg_dump | gzip under pipefail: a dump that was cut short fails the run. *)
PipelineSucceeds(whole) == whole

Dump(j) ==
    /\ job[j].at = "dump"
    /\ \E whole \in BOOLEAN :
        /\ PipelineSucceeds(whole)
        /\ job' = [job EXCEPT ![j].at = "upload", ![j].whole = whole]
    /\ UNCHANGED <<bucket, check, clock, started>>

Stored(j) ==
    {o \in bucket : o.key # job[j].key}
    \cup {[key |-> job[j].key, modified |-> clock, whole |-> job[j].whole]}

(* Faulty variant: the retention time is added, not taken off. *)
CutoffAhead == clock + Retention

Cutoff == IF clock > Retention THEN clock - Retention ELSE 0

Upload(j) ==
    /\ job[j].at = "upload"
    /\ bucket' = Stored(j)
    /\ job' = [job EXCEPT ![j].at = "list",
                          ![j].cutoff = Cutoff]
    /\ UNCHANGED <<check, clock, started>>

(* aws s3 cp fails though the object is stored. *)
UploadReplyLost(j) ==
    /\ job[j].at = "upload"
    /\ bucket' = Stored(j)
    /\ job' = [job EXCEPT ![j] = IdleJob]
    /\ UNCHANGED <<check, clock, started>>

Expired(j) == {o \in bucket : o.modified < job[j].cutoff}

List(j) ==
    /\ job[j].at = "list"
    /\ job' = [job EXCEPT ![j].at = "prune",
                          ![j].listed = {o.key : o \in Expired(j)}]
    /\ UNCHANGED <<bucket, check, clock, started>>

(* aws s3 rm; to remove what is gone already succeeds. *)
Prune(j) ==
    /\ job[j].at = "prune"
    /\ \E k \in job[j].listed :
        /\ bucket' = {o \in bucket : o.key # k}
        /\ job' = [job EXCEPT ![j].listed = @ \ {k}]
    /\ UNCHANGED <<check, clock, started>>

Done(j) ==
    /\ job[j].at = "prune" /\ job[j].listed = {}
    /\ job' = [job EXCEPT ![j] = IdleJob]
    /\ UNCHANGED <<bucket, check, clock, started>>

(* Faulty variant: without set -e the run goes on to the next command. *)
GoesOn(j) ==
    [job[j] EXCEPT !.at = IF @ = "dump" THEN "upload" ELSE "list",
                   !.cutoff = Cutoff]

Aborted(j) == IdleJob

(* A command fails under set -e, or the host dies: nothing after it runs. *)
BackupFails(j) ==
    /\ job[j].at # "idle"
    /\ job' = [job EXCEPT ![j] = Aborted(j)]
    /\ UNCHANGED <<bucket, check, clock, started>>

-----------------------------------------------------------------------------
(* The health check: two requests, then the comparison.                    *)

Newest == {o \in bucket : \A p \in bucket : p.modified <= o.modified}

LatestBackupKey ==
    /\ check.at # "head"
    /\ IF bucket = {} THEN check' = [at |-> "fail", key |-> 0]
       ELSE \E o \in Newest : check' = [at |-> "head", key |-> o.key]
    /\ UNCHANGED <<bucket, job, clock, started>>

(* The object may have been pruned since: head-object then throws. *)
LastModified ==
    /\ check.at = "head"
    /\ LET fresh == {o \in bucket : o.key = check.key /\ clock - o.modified <= MaxAge}
       IN  check' = [at |-> IF fresh = {} THEN "fail" ELSE "ok", key |-> check.key]
    /\ UNCHANGED <<bucket, job, clock, started>>

(* A run's hours are fewer than the days of the retention time. *)
Tick ==
    /\ clock < MaxClock /\ clock' = clock + 1
    /\ \A j \in Jobs : job[j].at # "idle" => clock < job[j].key + MaxRunTime
    /\ UNCHANGED <<bucket, job, check, started>>

BackupStep(j) ==
    StartBackup(j) \/ Dump(j) \/ Upload(j) \/ UploadReplyLost(j) \/ List(j)
    \/ Prune(j) \/ Done(j) \/ BackupFails(j)

BackupNext == (\E j \in Jobs : BackupStep(j)) \/ LatestBackupKey \/ LastModified \/ Tick

BackupSpec == BackupInit /\ [][BackupNext]_backupVars

-----------------------------------------------------------------------------
(* Every variable has its type; a name in the bucket names one dump.       *)
BackupTypeOK ==
    /\ bucket \subseteq [key : 1 .. MaxClock, modified : 1 .. MaxClock, whole : BOOLEAN]
    /\ \A o, p \in bucket : o.key = p.key => o = p
    /\ \A j \in Jobs : /\ job[j].at \in {"idle", "dump", "upload", "list", "prune"}
                       /\ {job[j].key, job[j].cutoff} \subseteq 0 .. MaxClock
                       /\ job[j].listed \subseteq 1 .. MaxClock
    /\ check.at \in {"idle", "head", "ok", "fail"} /\ check.key \in 0 .. MaxClock
    /\ clock \in 1 .. MaxClock /\ started \in 0 .. MaxBackups

(***************************************************************************)
(* When the health check answers OK, a whole dump no older than MaxAge is  *)
(* in the bucket, whatever backups did between its two requests            *)
(* (backup-health-check.ts: "the last backup completed within 25 hours").  *)
(***************************************************************************)
OkMeansRestorable ==
    [][check.at = "head" /\ check'.at = "ok"
       => \E o \in bucket' : o.whole /\ clock - o.modified <= MaxAge]_backupVars

(***************************************************************************)
(* Retention removes a dump only where a whole one stays that is newer by  *)
(* more than the retention time: backups that fail, however many, never    *)
(* use up the old ones (backup.sh, "Retention").                           *)
(***************************************************************************)
PruningLeavesNewer ==
    [][\A o \in bucket :
        (\A n \in bucket' : n.key # o.key)
        => \E n \in bucket' : n.whole /\ n.modified > o.modified + Retention]_backupVars
=============================================================================
