-------------------------- MODULE MaintenanceProofs --------------------------
(***************************************************************************)
(* Theorems about the backup, its retention and its health check, for any  *)
(* number of hosts, any retention time longer than a run, and every bound; *)
(* and about the seed, for any number of runs and processes.               *)
(***************************************************************************)
EXTENDS Seed, Backup, SequenceTheorems, TLAPS

-----------------------------------------------------------------------------
(* The inductive invariant.                                                *)

JobRecord ==
    [at : {"idle", "dump", "upload", "list", "prune"}, key : 0 .. MaxClock,
     whole : BOOLEAN, cutoff : 0 .. MaxClock, listed : SUBSET (1 .. MaxClock)]

(* Only whole dumps are stored, under the time at which their run began. *)
BucketInv ==
    \A o \in bucket : o.whole /\ o.key <= o.modified /\ o.modified <= clock

(* No run lasts longer than it may, and none uploads a dump cut short. *)
RunsInv ==
    /\ job \in [Jobs -> JobRecord]
    /\ \A j \in Jobs : job[j].at # "idle" =>
        /\ 1 <= job[j].key /\ job[j].key <= clock /\ clock <= job[j].key + MaxRunTime
        /\ job[j].at = "upload" => job[j].whole

(***************************************************************************)
(* A run that prunes has its own dump in the bucket, which is newer than   *)
(* what it lists by more than the retention time; what is listed is so old *)
(* that no run can still store under its name.                             *)
(***************************************************************************)
PruneInv ==
    \A j \in Jobs : job[j].at \in {"list", "prune"} =>
        /\ job[j].cutoff = 0 \/
            /\ job[j].cutoff + Retention <= clock
            /\ \E n \in bucket :
                n.key = job[j].key /\ n.modified >= job[j].cutoff + Retention
        /\ job[j].at = "prune" => \A k \in job[j].listed :
            /\ k < job[j].cutoff
            /\ \A o \in bucket : o.key = k => o.modified < job[j].cutoff

BackupInv == BackupTypeOK /\ BucketInv /\ RunsInv /\ PruneInv

-----------------------------------------------------------------------------
LEMMA Bounds ==
    /\ MaxClock \in Nat \ {0} /\ MaxRunTime \in Nat /\ MaxAge \in Nat /\ MaxBackups \in Nat
    /\ Retention \in Nat /\ Retention > MaxRunTime
BY BackupAssumption

LEMMA BackupInit0 == BackupInit => BackupInv
<1> SUFFICES ASSUME BackupInit PROVE BackupInv
  OBVIOUS
<1> USE Bounds DEF BackupInit, IdleJob, IdleCheck
<1>1. BackupTypeOK
  BY DEF BackupTypeOK
<1>2. BucketInv /\ PruneInv
  BY DEF BucketInv, PruneInv
<1>3. RunsInv
  BY DEF RunsInv, JobRecord
<1> QED BY <1>1, <1>2, <1>3 DEF BackupInv


(* Types of the backup. *)
LEMMA TypeStep ==
    ASSUME BackupInv, [BackupNext]_backupVars
    PROVE  BackupTypeOK'
<1> USE Bounds
<1>0. CASE UNCHANGED backupVars
  BY <1>0 DEF backupVars, BackupInv, BackupTypeOK, BucketInv, RunsInv, JobRecord
<1>1. ASSUME NEW j \in Jobs, StartBackup(j) PROVE BackupTypeOK'
  BY <1>1 DEF StartBackup, IdleJob, BackupInv, BackupTypeOK, BucketInv, RunsInv, JobRecord
<1>2. ASSUME NEW j \in Jobs, Dump(j) PROVE BackupTypeOK'
  BY <1>2 DEF Dump, PipelineSucceeds, BackupInv, BackupTypeOK, BucketInv, RunsInv, JobRecord
<1>3. ASSUME NEW j \in Jobs, Upload(j) PROVE BackupTypeOK'
  BY <1>3 DEF Upload, Stored, Cutoff, BackupInv, BackupTypeOK, BucketInv, RunsInv, JobRecord
<1>4. ASSUME NEW j \in Jobs, UploadReplyLost(j) PROVE BackupTypeOK'
  BY <1>4
  DEF UploadReplyLost, Stored, IdleJob, BackupInv, BackupTypeOK, BucketInv, RunsInv, JobRecord
<1>5. ASSUME NEW j \in Jobs, List(j) PROVE BackupTypeOK'
  BY <1>5 DEF List, Expired, BackupInv, BackupTypeOK, BucketInv, RunsInv, JobRecord
<1>6. ASSUME NEW j \in Jobs, Prune(j) PROVE BackupTypeOK'
  BY <1>6 DEF Prune, BackupInv, BackupTypeOK, BucketInv, RunsInv, JobRecord
<1>7. ASSUME NEW j \in Jobs, Done(j) PROVE BackupTypeOK'
  BY <1>7 DEF Done, IdleJob, BackupInv, BackupTypeOK, BucketInv, RunsInv, JobRecord
<1>8. ASSUME NEW j \in Jobs, BackupFails(j) PROVE BackupTypeOK'
  BY <1>8
  DEF BackupFails, Aborted, IdleJob, BackupInv, BackupTypeOK, BucketInv, RunsInv, JobRecord
<1>9. CASE LatestBackupKey
  BY <1>9 DEF LatestBackupKey, Newest, BackupInv, BackupTypeOK, BucketInv, RunsInv, JobRecord
<1>10. CASE LastModified
  BY <1>10 DEF LastModified, BackupInv, BackupTypeOK, BucketInv, RunsInv, JobRecord
<1>11. CASE Tick
  BY <1>11 DEF Tick, BackupInv, BackupTypeOK, BucketInv, RunsInv, JobRecord
<1> QED
  BY <1>0, <1>1, <1>2, <1>3, <1>4, <1>5, <1>6, <1>7, <1>8, <1>9, <1>10, <1>11
  DEF BackupNext, BackupStep

(* Only whole dumps are stored. *)
LEMMA BucketStep ==
    ASSUME BackupInv, [BackupNext]_backupVars
    PROVE  BucketInv'
<1> USE Bounds
<1>0. CASE UNCHANGED backupVars
  BY <1>0 DEF backupVars, BackupInv, BackupTypeOK, BucketInv, RunsInv, JobRecord
<1>1. ASSUME NEW j \in Jobs, StartBackup(j) PROVE BucketInv'
  BY <1>1 DEF StartBackup, IdleJob, BackupInv, BackupTypeOK, BucketInv, RunsInv, JobRecord
<1>2. ASSUME NEW j \in Jobs, Dump(j) PROVE BucketInv'
  BY <1>2 DEF Dump, PipelineSucceeds, BackupInv, BackupTypeOK, BucketInv, RunsInv, JobRecord
<1>3. ASSUME NEW j \in Jobs, Upload(j) PROVE BucketInv'
  BY <1>3 DEF Upload, Stored, Cutoff, BackupInv, BackupTypeOK, BucketInv, RunsInv, JobRecord
<1>4. ASSUME NEW j \in Jobs, UploadReplyLost(j) PROVE BucketInv'
  BY <1>4
  DEF UploadReplyLost, Stored, IdleJob, BackupInv, BackupTypeOK, BucketInv, RunsInv, JobRecord
<1>5. ASSUME NEW j \in Jobs, List(j) PROVE BucketInv'
  BY <1>5 DEF List, Expired, BackupInv, BackupTypeOK, BucketInv, RunsInv, JobRecord
<1>6. ASSUME NEW j \in Jobs, Prune(j) PROVE BucketInv'
  BY <1>6 DEF Prune, BackupInv, BackupTypeOK, BucketInv, RunsInv, JobRecord
<1>7. ASSUME NEW j \in Jobs, Done(j) PROVE BucketInv'
  BY <1>7 DEF Done, IdleJob, BackupInv, BackupTypeOK, BucketInv, RunsInv, JobRecord
<1>8. ASSUME NEW j \in Jobs, BackupFails(j) PROVE BucketInv'
  BY <1>8
  DEF BackupFails, Aborted, IdleJob, BackupInv, BackupTypeOK, BucketInv, RunsInv, JobRecord
<1>9. CASE LatestBackupKey
  BY <1>9 DEF LatestBackupKey, Newest, BackupInv, BackupTypeOK, BucketInv, RunsInv, JobRecord
<1>10. CASE LastModified
  BY <1>10 DEF LastModified, BackupInv, BackupTypeOK, BucketInv, RunsInv, JobRecord
<1>11. CASE Tick
  BY <1>11 DEF Tick, BackupInv, BackupTypeOK, BucketInv, RunsInv, JobRecord
<1> QED
  BY <1>0, <1>1, <1>2, <1>3, <1>4, <1>5, <1>6, <1>7, <1>8, <1>9, <1>10, <1>11
  DEF BackupNext, BackupStep

(* Runs go through their commands in order. *)
LEMMA RunsStep ==
    ASSUME BackupInv, [BackupNext]_backupVars
    PROVE  RunsInv'
<1> USE Bounds
<1>0. CASE UNCHANGED backupVars
  BY <1>0 DEF backupVars, BackupInv, BackupTypeOK, RunsInv, JobRecord
<1>1. ASSUME NEW j \in Jobs, StartBackup(j) PROVE RunsInv'
  <2> DEFINE r == [IdleJob EXCEPT !.at = "dump", !.key = clock]
  <2>1. r \in JobRecord
    <3>1. clock \in 0 .. MaxClock
      BY DEF BackupInv, BackupTypeOK
    <3>2. \A q \in JobRecord : [q EXCEPT !.at = "dump", !.key = clock] \in JobRecord
      BY <3>1 DEF JobRecord
    <3>3. IdleJob \in JobRecord
      BY DEF IdleJob, JobRecord
    <3> QED BY <3>2, <3>3
  <2>2. job' = [job EXCEPT ![j] = r] /\ clock' = clock
    BY <1>1 DEF StartBackup, BackupInv, RunsInv
  <2>3. r.at = "dump" /\ r.key = clock
    BY <1>1 DEF StartBackup, IdleJob, BackupInv, RunsInv, JobRecord
  <2> HIDE DEF r
  <2> QED BY <1>1, <2>1, <2>2, <2>3 DEF StartBackup, BackupInv, RunsInv, BackupTypeOK
<1>2. ASSUME NEW j \in Jobs, Dump(j) PROVE RunsInv'
  <2> DEFINE r == [job[j] EXCEPT !.at = "upload", !.whole = TRUE]
  <2>1. job[j] \in JobRecord /\ job[j].at = "dump"
    BY <1>2 DEF Dump, BackupInv, RunsInv
  <2>2. r \in JobRecord /\ r.at = "upload" /\ r.whole /\ r.key = job[j].key
    BY <2>1 DEF JobRecord
  <2>3. job' = [job EXCEPT ![j] = r] /\ clock' = clock
    BY <1>2 DEF Dump, PipelineSucceeds, BackupInv, RunsInv
  <2> HIDE DEF r
  <2> QED BY <2>1, <2>2, <2>3 DEF BackupInv, RunsInv
<1>3. ASSUME NEW j \in Jobs, Upload(j) PROVE RunsInv'
  <2> DEFINE r == [job[j] EXCEPT !.at = "list", !.cutoff = Cutoff]
  <2>1. job[j] \in JobRecord /\ job[j].at = "upload"
    BY <1>3 DEF Upload, BackupInv, RunsInv
  <2>2. Cutoff \in 0 .. MaxClock
    BY DEF Cutoff, BackupInv, BackupTypeOK
  <2>3. r \in JobRecord /\ r.at = "list" /\ r.key = job[j].key
    BY <2>1, <2>2 DEF JobRecord
  <2>4. job' = [job EXCEPT ![j] = r] /\ clock' = clock
    BY <1>3 DEF Upload, BackupInv, RunsInv
  <2> HIDE DEF r
  <2> QED BY <2>1, <2>3, <2>4 DEF BackupInv, RunsInv
<1>4. ASSUME NEW j \in Jobs, UploadReplyLost(j) PROVE RunsInv'
  BY <1>4 DEF UploadReplyLost, Stored, IdleJob, BackupInv, BackupTypeOK, RunsInv, JobRecord
<1>5. ASSUME NEW j \in Jobs, List(j) PROVE RunsInv'
  <2> DEFINE listed == {o.key : o \in Expired(j)}
             r == [job[j] EXCEPT !.at = "prune", !.listed = listed]
  <2>1. job[j] \in JobRecord /\ job[j].at = "list"
    BY <1>5 DEF List, BackupInv, RunsInv
  <2>2. listed \in SUBSET (1 .. MaxClock)
    BY DEF Expired, BackupInv, BackupTypeOK
  <2> HIDE DEF listed
  <2>3. r \in JobRecord /\ r.at = "prune" /\ r.key = job[j].key
    BY <2>1, <2>2 DEF JobRecord
  <2>4. job' = [job EXCEPT ![j] = r] /\ clock' = clock
    BY <1>5 DEF List, BackupInv, RunsInv, listed
  <2> HIDE DEF r
  <2> QED BY <2>1, <2>3, <2>4 DEF BackupInv, RunsInv
<1>6. ASSUME NEW j \in Jobs, Prune(j) PROVE RunsInv'
  BY <1>6 DEF Prune, BackupInv, BackupTypeOK, RunsInv, JobRecord
<1>7. ASSUME NEW j \in Jobs, Done(j) PROVE RunsInv'
  BY <1>7 DEF Done, IdleJob, BackupInv, BackupTypeOK, RunsInv, JobRecord
<1>8. ASSUME NEW j \in Jobs, BackupFails(j) PROVE RunsInv'
  BY <1>8 DEF BackupFails, Aborted, IdleJob, BackupInv, BackupTypeOK, RunsInv, JobRecord
<1>9. CASE LatestBackupKey
  BY <1>9 DEF LatestBackupKey, Newest, BackupInv, BackupTypeOK, RunsInv, JobRecord
<1>10. CASE LastModified
  BY <1>10 DEF LastModified, BackupInv, BackupTypeOK, RunsInv, JobRecord
<1>11. CASE Tick
  BY <1>11 DEF Tick, BackupInv, BackupTypeOK, RunsInv, JobRecord
<1> QED
  BY <1>0, <1>1, <1>2, <1>3, <1>4, <1>5, <1>6, <1>7, <1>8, <1>9, <1>10, <1>11
  DEF BackupNext, BackupStep

(* What is listed stays old. *)
LEMMA PruneStep ==
    ASSUME BackupInv, [BackupNext]_backupVars
    PROVE  PruneInv'
<1> USE Bounds
<1>0. CASE UNCHANGED backupVars
  BY <1>0 DEF backupVars, BackupInv, BackupTypeOK, BucketInv, RunsInv, PruneInv, JobRecord
<1>1. ASSUME NEW j \in Jobs, StartBackup(j) PROVE PruneInv'
  BY <1>1
  DEF StartBackup, IdleJob, BackupInv, BackupTypeOK, BucketInv, RunsInv, PruneInv, JobRecord
<1>2. ASSUME NEW j \in Jobs, Dump(j) PROVE PruneInv'
  BY <1>2
  DEF Dump, PipelineSucceeds, BackupInv, BackupTypeOK, BucketInv, RunsInv, PruneInv, JobRecord
<1>3. ASSUME NEW j \in Jobs, Upload(j) PROVE PruneInv'
  <2> DEFINE new == [key |-> job[j].key, modified |-> clock, whole |-> job[j].whole]
  <2>1. /\ job \in [Jobs -> JobRecord] /\ job[j].at = "upload"
        /\ bucket' = {o \in bucket : o.key # job[j].key} \cup {new}
        /\ clock' = clock /\ clock \in Nat
        /\ \A i \in Jobs : i # j => job'[i] = job[i]
    BY <1>3 DEF Upload, Stored, BackupInv, BackupTypeOK, RunsInv
  <2>2. new \in bucket' /\ new.key = job[j].key /\ new.modified = clock
    BY <2>1
  <2>3. /\ 1 <= job[j].key /\ job[j].key <= clock /\ clock <= job[j].key + MaxRunTime
        /\ job[j].key \in Nat
    BY <2>1 DEF BackupInv, RunsInv, JobRecord
  <2> HIDE DEF new
  <2>4. ASSUME NEW i \in Jobs, job[i].at \in {"list", "prune"}
        PROVE  /\ job[i].cutoff = 0 \/
                    /\ job[i].cutoff + Retention <= clock
                    /\ \E n \in bucket' :
                        n.key = job[i].key /\ n.modified >= job[i].cutoff + Retention
               /\ job[i].at = "prune" => \A k \in job[i].listed :
                    /\ k < job[i].cutoff
                    /\ \A o \in bucket' : o.key = k => o.modified < job[i].cutoff
    <3>1. /\ job[i].cutoff \in Nat /\ job[i].key \in Nat /\ job[i].listed \subseteq Nat
          /\ bucket \subseteq [key : 1 .. MaxClock, modified : 1 .. MaxClock, whole : BOOLEAN]
      BY <2>1 DEF JobRecord, BackupInv, BackupTypeOK
    <3>2. job[i].cutoff = 0 \/
            /\ job[i].cutoff + Retention <= clock
            /\ \E n \in bucket' :
                n.key = job[i].key /\ n.modified >= job[i].cutoff + Retention
      <4>1. CASE job[i].key = job[j].key
        BY <2>2, <2>4, <4>1 DEF BackupInv, PruneInv
      <4>2. CASE job[i].key # job[j].key
        BY <2>1, <2>4, <4>2 DEF BackupInv, PruneInv
      <4> QED BY <4>1, <4>2
    <3>3. ASSUME job[i].at = "prune", NEW k \in job[i].listed
          PROVE  k < job[i].cutoff /\ \A o \in bucket' : o.key = k => o.modified < job[i].cutoff
      <4>1. k < job[i].cutoff /\ \A o \in bucket : o.key = k => o.modified < job[i].cutoff
        BY <2>4, <3>3 DEF BackupInv, PruneInv
      <4>2. job[i].cutoff # 0 /\ job[i].cutoff + Retention <= clock
        BY <3>1, <3>2, <4>1
      <4>3. k # job[j].key
        BY <2>1, <2>3, <3>1, <4>1, <4>2
      <4> QED BY <2>1, <2>2, <4>1, <4>3
    <3> QED BY <3>2, <3>3
  <2>5. /\ job'[j].at = "list" /\ job'[j].key = job[j].key
        /\ job'[j].cutoff = IF clock > Retention THEN clock - Retention ELSE 0
    BY <1>3 DEF Upload, Cutoff, BackupInv, RunsInv, JobRecord
  <2>6. job'[j].cutoff = 0 \/
            /\ job'[j].cutoff + Retention <= clock
            /\ \E n \in bucket' :
                n.key = job'[j].key /\ n.modified >= job'[j].cutoff + Retention
    BY <2>1, <2>2, <2>5
  <2> QED BY <2>1, <2>4, <2>5, <2>6 DEF PruneInv
<1>4. ASSUME NEW j \in Jobs, UploadReplyLost(j) PROVE PruneInv'
  <2> DEFINE new == [key |-> job[j].key, modified |-> clock, whole |-> job[j].whole]
  <2>1. /\ job \in [Jobs -> JobRecord] /\ job[j].at = "upload"
        /\ bucket' = {o \in bucket : o.key # job[j].key} \cup {new}
        /\ clock' = clock /\ clock \in Nat
        /\ \A i \in Jobs : i # j => job'[i] = job[i]
    BY <1>4 DEF UploadReplyLost, Stored, BackupInv, BackupTypeOK, RunsInv
  <2>2. new \in bucket' /\ new.key = job[j].key /\ new.modified = clock
    BY <2>1
  <2>3. /\ 1 <= job[j].key /\ job[j].key <= clock /\ clock <= job[j].key + MaxRunTime
        /\ job[j].key \in Nat
    BY <2>1 DEF BackupInv, RunsInv, JobRecord
  <2> HIDE DEF new
  <2>4. ASSUME NEW i \in Jobs, job[i].at \in {"list", "prune"}
        PROVE  /\ job[i].cutoff = 0 \/
                    /\ job[i].cutoff + Retention <= clock
                    /\ \E n \in bucket' :
                        n.key = job[i].key /\ n.modified >= job[i].cutoff + Retention
               /\ job[i].at = "prune" => \A k \in job[i].listed :
                    /\ k < job[i].cutoff
                    /\ \A o \in bucket' : o.key = k => o.modified < job[i].cutoff
    <3>1. /\ job[i].cutoff \in Nat /\ job[i].key \in Nat /\ job[i].listed \subseteq Nat
          /\ bucket \subseteq [key : 1 .. MaxClock, modified : 1 .. MaxClock, whole : BOOLEAN]
      BY <2>1 DEF JobRecord, BackupInv, BackupTypeOK
    <3>2. job[i].cutoff = 0 \/
            /\ job[i].cutoff + Retention <= clock
            /\ \E n \in bucket' :
                n.key = job[i].key /\ n.modified >= job[i].cutoff + Retention
      <4>1. CASE job[i].key = job[j].key
        BY <2>2, <2>4, <4>1 DEF BackupInv, PruneInv
      <4>2. CASE job[i].key # job[j].key
        BY <2>1, <2>4, <4>2 DEF BackupInv, PruneInv
      <4> QED BY <4>1, <4>2
    <3>3. ASSUME job[i].at = "prune", NEW k \in job[i].listed
          PROVE  k < job[i].cutoff /\ \A o \in bucket' : o.key = k => o.modified < job[i].cutoff
      <4>1. k < job[i].cutoff /\ \A o \in bucket : o.key = k => o.modified < job[i].cutoff
        BY <2>4, <3>3 DEF BackupInv, PruneInv
      <4>2. job[i].cutoff # 0 /\ job[i].cutoff + Retention <= clock
        BY <3>1, <3>2, <4>1
      <4>3. k # job[j].key
        BY <2>1, <2>3, <3>1, <4>1, <4>2
      <4> QED BY <2>1, <2>2, <4>1, <4>3
    <3> QED BY <3>2, <3>3
  <2>5. job'[j].at = "idle"
    BY <1>4 DEF UploadReplyLost, IdleJob, BackupInv, RunsInv
  <2> QED BY <2>1, <2>4, <2>5 DEF PruneInv
<1>5. ASSUME NEW j \in Jobs, List(j) PROVE PruneInv'
  <2>1. /\ job \in [Jobs -> JobRecord] /\ job[j].at = "list"
        /\ bucket' = bucket /\ clock' = clock
        /\ \A i \in Jobs : i # j => job'[i] = job[i]
    BY <1>5 DEF List, BackupInv, RunsInv
  <2>2. /\ job'[j].key = job[j].key /\ job'[j].cutoff = job[j].cutoff
        /\ job'[j].listed = {o.key : o \in Expired(j)}
    BY <1>5, <2>1 DEF List, JobRecord
  <2>3. ASSUME NEW k \in job'[j].listed
        PROVE  k < job[j].cutoff /\ \A o \in bucket : o.key = k => o.modified < job[j].cutoff
    <3>1. PICK e \in bucket : e.key = k /\ e.modified < job[j].cutoff
      BY <2>2 DEF Expired
    <3>2. e.key <= e.modified /\ e.key \in Nat /\ e.modified \in Nat /\ job[j].cutoff \in Nat
      BY <2>1 DEF BackupInv, BackupTypeOK, BucketInv, JobRecord
    <3>3. \A o \in bucket : o.key = k => o = e
      BY <3>1 DEF BackupInv, BackupTypeOK
    <3> QED BY <3>1, <3>2, <3>3
  <2>4. PruneInv
    BY DEF BackupInv
  <2> QED BY <2>1, <2>2, <2>3, <2>4 DEF PruneInv
<1>6. ASSUME NEW j \in Jobs, Prune(j) PROVE PruneInv'
  BY <1>6 DEF Prune, BackupInv, BackupTypeOK, BucketInv, RunsInv, PruneInv, JobRecord
<1>7. ASSUME NEW j \in Jobs, Done(j) PROVE PruneInv'
  BY <1>7 DEF Done, IdleJob, BackupInv, BackupTypeOK, BucketInv, RunsInv, PruneInv, JobRecord
<1>8. ASSUME NEW j \in Jobs, BackupFails(j) PROVE PruneInv'
  BY <1>8
  DEF BackupFails, Aborted, IdleJob, BackupInv, BackupTypeOK, BucketInv, RunsInv, PruneInv,
      JobRecord
<1>9. CASE LatestBackupKey
  BY <1>9
  DEF LatestBackupKey, Newest, BackupInv, BackupTypeOK, BucketInv, RunsInv, PruneInv, JobRecord
<1>10. CASE LastModified
  BY <1>10 DEF LastModified, BackupInv, BackupTypeOK, BucketInv, RunsInv, PruneInv, JobRecord
<1>11. CASE Tick
  BY <1>11 DEF Tick, BackupInv, BackupTypeOK, BucketInv, RunsInv, PruneInv, JobRecord
<1> QED
  BY <1>0, <1>1, <1>2, <1>3, <1>4, <1>5, <1>6, <1>7, <1>8, <1>9, <1>10, <1>11
  DEF BackupNext, BackupStep

-----------------------------------------------------------------------------
(* Theorems.                                                               *)

LEMMA BackupInvariant == BackupSpec => []BackupInv
<1>1. BackupInv /\ [BackupNext]_backupVars => BackupInv'
  BY TypeStep, BucketStep, RunsStep, PruneStep DEF BackupInv
<1> QED BY <1>1, BackupInit0, PTL DEF BackupSpec

(* The bucket, the runs of the backup and the health check keep their types. *)
THEOREM BackupTypeCorrect == BackupSpec => []BackupTypeOK
<1>1. BackupInv => BackupTypeOK
  BY DEF BackupInv
<1> QED BY <1>1, BackupInvariant, PTL

(***************************************************************************)
(* An OK of the health check means that a whole and recent dump is in the  *)
(* bucket, whatever the runs did between its two requests.                 *)
(***************************************************************************)
THEOREM OkIsRestorable == BackupSpec => OkMeansRestorable
<1>1. ASSUME BackupInv, [BackupNext]_backupVars, check.at = "head", check'.at = "ok"
      PROVE  \E o \in bucket' : o.whole /\ clock - o.modified <= MaxAge
  <2>1. LastModified \/ LatestBackupKey
    BY <1>1 DEF backupVars, BackupNext, BackupStep, StartBackup, Dump, Upload,
                UploadReplyLost, List, Prune, Done, BackupFails, Tick
  <2>2. LastModified
    BY <1>1, <2>1 DEF LatestBackupKey
  <2>3. \E o \in bucket : clock - o.modified <= MaxAge
    BY <1>1, <2>2 DEF LastModified
  <2> QED BY <1>1, <2>2, <2>3 DEF LastModified, BackupInv, BucketInv
<1>2. BackupInv /\ [BackupNext]_backupVars
        => [check.at = "head" /\ check'.at = "ok"
            => \E o \in bucket' : o.whole /\ clock - o.modified <= MaxAge]_backupVars
  BY <1>1
<1> QED BY <1>2, BackupInvariant, PTL DEF OkMeansRestorable, BackupSpec

(***************************************************************************)
(* A dump is removed only while a whole one that is newer by more than the *)
(* retention time is kept, though runs overlap, fail and lose replies.     *)
(***************************************************************************)
THEOREM PruningIsSafe == BackupSpec => PruningLeavesNewer
<1> DEFINE Kept(o) == \E n \in bucket' : n.whole /\ n.modified > o.modified + Retention
<1>1. ASSUME BackupInv, [BackupNext]_backupVars, NEW o \in bucket, \A n \in bucket' : n.key # o.key
      PROVE  Kept(o)
  <2>1. PICK j \in Jobs : Prune(j)
    <3>1. bucket' # bucket
      BY <1>1
    <3>2. ASSUME NEW j \in Jobs, Upload(j) \/ UploadReplyLost(j) PROVE FALSE
      <4>1. bucket' = Stored(j)
        BY <3>2 DEF Upload, UploadReplyLost
      <4>2. CASE o.key = job[j].key
        <5> DEFINE new == [key |-> job[j].key, modified |-> clock, whole |-> job[j].whole]
        <5>1. new \in bucket' /\ new.key = o.key
          BY <4>1, <4>2 DEF Stored
        <5> QED BY <1>1, <5>1
      <4>3. CASE o.key # job[j].key
        BY <1>1, <4>1, <4>3 DEF Stored
      <4> QED BY <4>2, <4>3
    <3> QED BY <1>1, <3>1, <3>2 DEF backupVars, BackupNext, BackupStep,
                StartBackup, Dump, List, Done, BackupFails, LatestBackupKey, LastModified, Tick
  <2>2. PICK k \in job[j].listed : bucket' = {n \in bucket : n.key # k}
    BY <2>1 DEF Prune
  <2>3. o.key = k
    BY <1>1, <2>2
  <2>4. /\ job[j].at = "prune" /\ job[j].key \in Nat /\ job[j].cutoff \in Nat /\ k \in Nat
        /\ clock \in Nat /\ o.modified \in Nat
        /\ bucket \subseteq [key : 1 .. MaxClock, modified : 1 .. MaxClock, whole : BOOLEAN]
    BY <1>1, <2>1 DEF Prune, BackupInv, RunsInv, JobRecord, BackupTypeOK
  <2>5. k < job[j].cutoff /\ o.modified < job[j].cutoff
    BY <1>1, <2>3, <2>4 DEF BackupInv, PruneInv
  <2>6. PICK n \in bucket : n.key = job[j].key /\ n.modified >= job[j].cutoff + Retention
    BY <1>1, <2>4, <2>5 DEF BackupInv, PruneInv
  <2>7. job[j].cutoff + Retention <= clock /\ clock <= job[j].key + MaxRunTime
    BY <1>1, <2>4, <2>5 DEF BackupInv, PruneInv, RunsInv
  <2>8. n.key # k /\ n.modified > o.modified + Retention
    BY Bounds, <2>4, <2>5, <2>6, <2>7
  <2> QED BY <1>1, <2>2, <2>6, <2>8 DEF BackupInv, BucketInv
<1>2. BackupInv /\ [BackupNext]_backupVars
        => [\A o \in bucket : (\A n \in bucket' : n.key # o.key) => Kept(o)]_backupVars
  BY <1>1
<1> QED BY <1>2, BackupInvariant, PTL DEF PruningLeavesNewer, BackupSpec

-----------------------------------------------------------------------------
(* The seed: its data and its queries.                                     *)

Addresses == {"A", "B", "C", "D"}
Licenses == {"yor-1", "yor-2", "swa-1", "hau-1", "zul-1", "zul-2"}

IsDataset(d) ==
    d.contributors \in Seq(Addresses) /\ d.licenses \in Seq(Licenses) /\ d.payouts \in Seq(Nat)

N == Len(DATASETS)

(* No two datasets have one id. *)
LEMMA Data ==
    /\ N = 5 /\ DOMAIN DATASETS = 1 .. N
    /\ \A i \in 1 .. N : IsDataset(DATASETS[i])
    /\ \A i, j \in 1 .. N : DATASETS[i].id = DATASETS[j].id => i = j
<1>1. N = 5 /\ DOMAIN DATASETS = 1 .. N
  BY SMT DEF DATASETS, N
<1>2. \A i, j \in 1 .. 5 : DATASETS[i].id = DATASETS[j].id => i = j
  BY SMT DEF DATASETS
<1>3. \A i \in 1 .. 5 : i = 1 \/ i = 2 \/ i = 3 \/ i = 4 \/ i = 5
  OBVIOUS
<1>4. IsDataset(DATASETS[1])
  <2>1. /\ DATASETS[1].contributors = <<"A", "B">> /\ DATASETS[1].licenses = <<"yor-1", "yor-2">>
        /\ DATASETS[1].payouts = <<51900000>>
    BY SMT DEF DATASETS
  <2> QED BY <2>1, SMT DEF IsDataset, Addresses, Licenses
<1>5. IsDataset(DATASETS[2])
  <2>1. /\ DATASETS[2].contributors = <<"B">> /\ DATASETS[2].licenses = <<"swa-1">>
        /\ DATASETS[2].payouts = <<51950000>>
    BY SMT DEF DATASETS
  <2> QED BY <2>1, SMT DEF IsDataset, Addresses, Licenses
<1>6. IsDataset(DATASETS[3])
  <2>1. /\ DATASETS[3].contributors = <<"C", "D">> /\ DATASETS[3].licenses = <<"hau-1">>
        /\ DATASETS[3].payouts = <<>>
    BY SMT DEF DATASETS
  <2> QED BY <2>1, SMT DEF IsDataset, Addresses, Licenses
<1>7. IsDataset(DATASETS[4])
  <2>1. /\ DATASETS[4].contributors = <<"D">> /\ DATASETS[4].licenses = <<>>
        /\ DATASETS[4].payouts = <<>>
    BY SMT DEF DATASETS
  <2> QED BY <2>1, SMT DEF IsDataset, Addresses, Licenses
<1>8. IsDataset(DATASETS[5])
  <2>1. /\ DATASETS[5].contributors = <<"A", "B", "C">>
        /\ DATASETS[5].licenses = <<"zul-1", "zul-2">>
        /\ DATASETS[5].payouts = <<51800000, 51990000>>
    BY SMT DEF DATASETS
  <2> QED BY <2>1, SMT DEF IsDataset, Addresses, Licenses
<1> QED BY <1>1, <1>2, <1>3, <1>4, <1>5, <1>6, <1>7, <1>8

LEMMA Concat ==
    ASSUME NEW S, NEW s \in Seq(S), NEW t \in Seq(S)
    PROVE  /\ s \o t \in Seq(S) /\ Len(s \o t) = Len(s) + Len(t)
           /\ \A i \in 1 .. Len(s) : (s \o t)[i] = s[i]
           /\ \A i \in 1 .. Len(t) : (s \o t)[Len(s) + i] = t[i]
OBVIOUS

(* The rows of a dataset make a sequence. *)
LEMMA RowsOfDataset ==
    ASSUME NEW d, IsDataset(d)
    PROVE  /\ DatasetRows(d) \in Seq(ToSet(DatasetRows(d)))
           /\ Len(DatasetRows(d)) \in Nat /\ DOMAIN DatasetRows(d) = 1 .. Len(DatasetRows(d))
<1> DEFINE A == <<<<"dataset", d.id>>>>
           B == [i \in DOMAIN d.contributors |-> <<"contributor", d.id, d.contributors[i]>>]
           C == [i \in DOMAIN d.licenses |-> <<"license", d.licenses[i]>>]
           S == {A[1]} \cup {B[i] : i \in DOMAIN B} \cup {C[i] : i \in DOMAIN C}
<1>1. A \in Seq(S)
  OBVIOUS
<1>2. B \in Seq(S)
  <2>1. DOMAIN B = 1 .. Len(d.contributors) /\ Len(d.contributors) \in Nat
    BY DEF IsDataset
  <2>2. \A i \in DOMAIN B : B[i] \in S
    OBVIOUS
  <2> QED BY <2>1, <2>2
<1>3. C \in Seq(S)
  <2>1. DOMAIN C = 1 .. Len(d.licenses) /\ Len(d.licenses) \in Nat
    BY DEF IsDataset
  <2>2. \A i \in DOMAIN C : C[i] \in S
    OBVIOUS
  <2> QED BY <2>1, <2>2
<1>4. DatasetRows(d) \in Seq(S)
  <2> HIDE DEF A, B, C, S
  <2>1. A \o B \in Seq(S)
    BY <1>1, <1>2, Concat
  <2>2. A \o B \o C \in Seq(S)
    BY <2>1, <1>3, Concat
  <2> QED BY <2>2 DEF DatasetRows, A, B, C
<1> HIDE DEF S
<1> QED BY <1>4 DEF ToSet

(* Its queries: an upsert of each row, the deletion, a create per payout. *)
LEMMA QueriesOfDataset ==
    ASSUME NEW d, IsDataset(d)
    PROVE  LET n == Len(DatasetRows(d))
           IN  /\ Len(Queries(d)) = n + 1 + Len(d.payouts)
               /\ DOMAIN Queries(d) = 1 .. n + 1 + Len(d.payouts)
               /\ \A k \in 1 .. n :
                   Queries(d)[k] = [op |-> "upsert", row |-> DatasetRows(d)[k]]
               /\ Queries(d)[n + 1] = [op |-> "deleteMany", id |-> d.id]
               /\ \A k \in 1 .. Len(d.payouts) :
                   Queries(d)[n + 1 + k]
                     = [op |-> "create", id |-> d.id, ledger |-> d.payouts[k]]
<1> DEFINE n == Len(DatasetRows(d))
           m == Len(d.payouts)
           A == Upserts(d)
           B == <<[op |-> "deleteMany", id |-> d.id]>>
           C == [i \in DOMAIN d.payouts |->
                    [op |-> "create", id |-> d.id, ledger |-> d.payouts[i]]]
           S == {A[i] : i \in DOMAIN A} \cup {B[1]} \cup {C[i] : i \in DOMAIN C}
<1>0. n \in Nat /\ m \in Nat /\ DOMAIN A = 1 .. n /\ DOMAIN C = 1 .. m
  BY RowsOfDataset DEF IsDataset, Upserts
<1>1. A \in Seq(S) /\ Len(A) = n
  <2>1. \A i \in DOMAIN A : A[i] \in S
    OBVIOUS
  <2>2. A = [i \in 1 .. n |-> A[i]]
    BY <1>0 DEF Upserts
  <2> HIDE DEF A, S, n
  <2> QED BY <1>0, <2>1, <2>2
<1>2. B \in Seq(S) /\ Len(B) = 1
  OBVIOUS
<1>3. C \in Seq(S) /\ Len(C) = m
  <2>1. \A i \in DOMAIN C : C[i] \in S
    OBVIOUS
  <2>2. C = [i \in 1 .. m |-> C[i]]
    BY <1>0
  <2> HIDE DEF C, S, m
  <2> QED BY <1>0, <2>1, <2>2
<1>4. Queries(d) = A \o B \o C
  BY DEF Queries
<1>5. /\ \A k \in 1 .. n : A[k] = [op |-> "upsert", row |-> DatasetRows(d)[k]]
      /\ B[1] = [op |-> "deleteMany", id |-> d.id]
      /\ \A k \in 1 .. m : C[k] = [op |-> "create", id |-> d.id, ledger |-> d.payouts[k]]
  BY <1>0 DEF Upserts
<1> HIDE DEF A, B, C, S, n, m
<1>6. /\ A \o B \in Seq(S) /\ Len(A \o B) = n + 1
      /\ \A k \in 1 .. n : (A \o B)[k] = A[k]
      /\ (A \o B)[n + 1] = B[1]
  <2>1. A \o B \in Seq(S) /\ Len(A \o B) = Len(A) + Len(B)
    BY <1>1, <1>2, Concat
  <2>2. \A k \in 1 .. n : (A \o B)[k] = A[k]
    BY <1>1, <1>2, Concat
  <2>3. \A k \in 1 .. Len(B) : (A \o B)[Len(A) + k] = B[k]
    BY <1>1, <1>2, Concat
  <2> QED BY <1>1, <1>2, <2>1, <2>2, <2>3
<1>7. /\ Queries(d) \in Seq(S) /\ Len(Queries(d)) = n + 1 + m
      /\ \A k \in 1 .. n + 1 : Queries(d)[k] = (A \o B)[k]
      /\ \A k \in 1 .. m : Queries(d)[n + 1 + k] = C[k]
  <2> DEFINE AB == A \o B
  <2>1. AB \in Seq(S) /\ Len(AB) = n + 1
    BY <1>6
  <2>2. Queries(d) = AB \o C
    BY <1>4
  <2> HIDE DEF AB
  <2>3. AB \o C \in Seq(S) /\ Len(AB \o C) = Len(AB) + Len(C)
    BY <1>3, <2>1, Concat
  <2>4. \A k \in 1 .. Len(AB) : (AB \o C)[k] = AB[k]
    BY <1>3, <2>1, Concat
  <2>5. \A k \in 1 .. Len(C) : (AB \o C)[Len(AB) + k] = C[k]
    BY <1>3, <2>1, Concat
  <2> QED BY <1>3, <2>1, <2>2, <2>3, <2>4, <2>5 DEF AB
<1>8. /\ DOMAIN Queries(d) = 1 .. n + 1 + m
      /\ \A k \in 1 .. n : Queries(d)[k] = A[k]
      /\ Queries(d)[n + 1] = B[1]
  <2>1. DOMAIN Queries(d) = 1 .. n + 1 + m
    BY <1>7
  <2>2. \A k \in 1 .. n : Queries(d)[k] = A[k]
    <3>1. \A k \in 1 .. n : k \in 1 .. n + 1
      BY <1>0
    <3> QED BY <3>1, <1>6, <1>7
  <2>3. Queries(d)[n + 1] = B[1]
    <3>1. n + 1 \in 1 .. n + 1
      BY <1>0
    <3> QED BY <3>1, <1>6, <1>7
  <2> QED BY <2>1, <2>2, <2>3
<1> QED BY <1>5, <1>7, <1>8 DEF n, m


-----------------------------------------------------------------------------
(* The seed: its inductive invariant.                                      *)

RowCount(i) == Len(DatasetRows(DATASETS[i]))

(* All rows before query k of dataset i are as this seed writes them. *)
RowsUpTo(table, i, k) ==
    \A j \in 1 .. N, r \in Nat :
        r \in 1 .. RowCount(j) /\ (j < i \/ (j = i /\ r < k))
        => table[DatasetRows(DATASETS[j])[r]] = "seeded"

(* The payouts of the datasets before, and those created of this one. *)
PayoutsUpTo(table, i, k) ==
    \A j \in 1 .. N :
        /\ j < i => table[DATASETS[j].id] = DATASETS[j].payouts
        /\ j = i /\ k >= RowCount(j) + 2
           => table[DATASETS[j].id] = SubSeq(DATASETS[j].payouts, 1, k - RowCount(j) - 2)

(***************************************************************************)
(* A run has written all rows before its place, since no run undoes one;   *)
(* of the payouts that is so only while no other run deletes and creates.  *)
(***************************************************************************)
SeederInv(s) ==
    Running(s) =>
        /\ RowsUpTo(tables, seeder[s].dataset, seeder[s].query)
        /\ seeder[s].alone =>
            /\ PayoutsUpTo(payouts, seeder[s].dataset, seeder[s].query)
            /\ \A o \in Seeders : Running(o) => o = s

SeedInv == SeedTypeOK /\ \A s \in Seeders : SeederInv(s)

-----------------------------------------------------------------------------
(* One query of a dataset takes a run to its next place.                   *)

LEMMA Shape ==
    ASSUME NEW i \in 1 .. N
    PROVE  /\ IsDataset(DATASETS[i]) /\ DATASETS[i].id \in DatasetIds
           /\ RowCount(i) \in Nat /\ Len(DATASETS[i].payouts) \in Nat
           /\ Len(Queries(DATASETS[i])) = RowCount(i) + 1 + Len(DATASETS[i].payouts)
           /\ DOMAIN Queries(DATASETS[i]) = 1 .. RowCount(i) + 1 + Len(DATASETS[i].payouts)
           /\ \A r \in 1 .. RowCount(i) : DatasetRows(DATASETS[i])[r] \in Rows
<1>1. IsDataset(DATASETS[i]) /\ DATASETS[i].id \in DatasetIds
  BY Data DEF DatasetIds
<1>2. /\ RowCount(i) \in Nat
      /\ DOMAIN DatasetRows(DATASETS[i]) = 1 .. RowCount(i)
  BY <1>1, RowsOfDataset DEF RowCount
<1>3. \A r \in 1 .. RowCount(i) : DatasetRows(DATASETS[i])[r] \in Rows
  BY <1>2, Data DEF Rows, ToSet
<1>4. Len(DATASETS[i].payouts) \in Nat
  BY <1>1 DEF IsDataset
<1>5. /\ Len(Queries(DATASETS[i])) = RowCount(i) + 1 + Len(DATASETS[i].payouts)
      /\ DOMAIN Queries(DATASETS[i]) = 1 .. RowCount(i) + 1 + Len(DATASETS[i].payouts)
  BY <1>1, QueriesOfDataset DEF RowCount
<1> QED BY <1>1, <1>2, <1>3, <1>4, <1>5

LEMMA UpsertAt ==
    ASSUME NEW i \in 1 .. N, NEW r \in 1 .. RowCount(i)
    PROVE  Queries(DATASETS[i])[r] = [op |-> "upsert", row |-> DatasetRows(DATASETS[i])[r]]
<1>1. IsDataset(DATASETS[i])
  BY Shape
<1> QED BY <1>1, QueriesOfDataset DEF RowCount

LEMMA QueryAt ==
    ASSUME NEW i \in 1 .. N, NEW k \in 1 .. Len(Queries(DATASETS[i]))
    PROVE  LET q == Queries(DATASETS[i])[k]
               n == RowCount(i)
           IN  /\ q.op = "upsert" => k \in 1 .. n /\ q.row = DatasetRows(DATASETS[i])[k]
               /\ q.op = "deleteMany" => k = n + 1 /\ q.id = DATASETS[i].id
               /\ q.op = "create" =>
                   /\ k >= n + 2 /\ k - n - 1 \in 1 .. Len(DATASETS[i].payouts)
                   /\ q.id = DATASETS[i].id /\ q.ledger = DATASETS[i].payouts[k - n - 1]
<1> DEFINE n == RowCount(i)
           m == Len(DATASETS[i].payouts)
           q == Queries(DATASETS[i])[k]
<1>1. n \in Nat /\ m \in Nat /\ k \in 1 .. n + 1 + m
  BY Shape
<1>2. /\ \A r \in 1 .. n : Queries(DATASETS[i])[r]
            = [op |-> "upsert", row |-> DatasetRows(DATASETS[i])[r]]
      /\ Queries(DATASETS[i])[n + 1] = [op |-> "deleteMany", id |-> DATASETS[i].id]
      /\ \A r \in 1 .. m : Queries(DATASETS[i])[n + 1 + r]
            = [op |-> "create", id |-> DATASETS[i].id, ledger |-> DATASETS[i].payouts[r]]
  BY Shape, QueriesOfDataset DEF RowCount
<1> HIDE DEF n, m
<1>3. CASE k \in 1 .. n
  <2>1. q = [op |-> "upsert", row |-> DatasetRows(DATASETS[i])[k]]
    BY <1>2, <1>3
  <2> QED BY <1>3, <2>1 DEF n
<1>4. CASE k = n + 1
  <2>1. q = [op |-> "deleteMany", id |-> DATASETS[i].id]
    BY <1>2, <1>4
  <2> QED BY <1>4, <2>1 DEF n
<1>5. CASE k >= n + 2
  <2> DEFINE r == k - n - 1
  <2>1. r \in 1 .. m /\ n + 1 + r = k
    BY <1>1, <1>5
  <2>2. q = [op |-> "create", id |-> DATASETS[i].id, ledger |-> DATASETS[i].payouts[r]]
    BY <1>2, <2>1
  <2> QED BY <1>5, <2>1, <2>2 DEF n, m
<1>6. k \in 1 .. n \/ k = n + 1 \/ k >= n + 2
  BY <1>1
<1> QED BY <1>3, <1>4, <1>5, <1>6

(* The next place: the next query, or the first of the next dataset. *)
IsNext(i, k, i2, k2) ==
    \/ k < Len(Queries(DATASETS[i])) /\ i2 = i /\ k2 = k + 1
    \/ k = Len(Queries(DATASETS[i])) /\ i2 = i + 1 /\ k2 = 1

LEMMA RowsAdvance ==
    ASSUME NEW table, NEW i \in 1 .. N, NEW k \in 1 .. Len(Queries(DATASETS[i])),
           NEW i2, NEW k2, IsNext(i, k, i2, k2), RowsUpTo(table, i, k),
           k \in 1 .. RowCount(i) => table[DatasetRows(DATASETS[i])[k]] = "seeded"
    PROVE  RowsUpTo(table, i2, k2)
<1>1. i \in Nat /\ k \in Nat /\ N \in Nat /\ RowCount(i) \in Nat
      /\ Len(Queries(DATASETS[i])) > RowCount(i) /\ Len(Queries(DATASETS[i])) \in Nat
  <2>1. N \in Nat
    BY Data
  <2>2. /\ RowCount(i) \in Nat /\ Len(DATASETS[i].payouts) \in Nat
        /\ Len(Queries(DATASETS[i])) = RowCount(i) + 1 + Len(DATASETS[i].payouts)
    BY Shape
  <2> QED BY <2>1, <2>2
<1> SUFFICES ASSUME NEW j \in 1 .. N, NEW r \in Nat, r \in 1 .. RowCount(j),
                    j < i2 \/ (j = i2 /\ r < k2)
             PROVE  table[DatasetRows(DATASETS[j])[r]] = "seeded"
  BY DEF RowsUpTo
<1>2. j < i \/ (j = i /\ r < k) \/ (j = i /\ r = k)
  BY <1>1 DEF IsNext
<1> QED BY <1>2 DEF RowsUpTo

LEMMA Sequences ==
    ASSUME NEW p \in Seq(Nat)
    PROVE  /\ SubSeq(p, 1, 0) = <<>> /\ SubSeq(p, 1, Len(p)) = p
           /\ Len(p) = 0 => p = <<>>
           /\ \A c \in 0 .. Len(p) - 1 : Append(SubSeq(p, 1, c), p[c + 1]) = SubSeq(p, 1, c + 1)
<1>1. SubSeq(p, 1, 0) = <<>> /\ SubSeq(p, 1, Len(p)) = p /\ (Len(p) = 0 => p = <<>>)
  OBVIOUS
<1>2. ASSUME NEW c \in 0 .. Len(p) - 1
      PROVE  Append(SubSeq(p, 1, c), p[c + 1]) = SubSeq(p, 1, c + 1)
  <2>1. SubSeq(p, 1, c) \in Seq(Nat) /\ Len(SubSeq(p, 1, c)) = c
    OBVIOUS
  <2>2. SubSeq(p, 1, c + 1) \in Seq(Nat) /\ Len(SubSeq(p, 1, c + 1)) = c + 1
    OBVIOUS
  <2>3. \A r \in 1 .. c : SubSeq(p, 1, c)[r] = p[r]
    OBVIOUS
  <2>4. \A r \in 1 .. c + 1 : SubSeq(p, 1, c + 1)[r] = p[r]
    OBVIOUS
  <2> DEFINE s == SubSeq(p, 1, c)
             t == SubSeq(p, 1, c + 1)
             a == Append(s, p[c + 1])
  <2>5. c \in Nat /\ p[c + 1] \in Nat
    OBVIOUS
  <2> HIDE DEF s, t
  <2>6. a \in Seq(Nat) /\ Len(a) = c + 1 /\ a[c + 1] = p[c + 1]
    BY <2>1, <2>5 DEF s
  <2>7. \A r \in 1 .. c : a[r] = p[r]
    BY <2>1, <2>3, <2>5 DEF s
  <2> HIDE DEF a
  <2>8. \A r \in 1 .. c + 1 : a[r] = t[r]
    BY <2>4, <2>5, <2>6, <2>7 DEF t
  <2>9. t \in Seq(Nat) /\ Len(t) = c + 1
    BY <2>2 DEF t
  <2>10. a = t
    BY <2>6, <2>8, <2>9, SeqEqual
  <2> QED BY <2>10 DEF a, s, t
<1> QED BY <1>1, <1>2

(* What the query at place k of dataset i does to the payouts. *)
PayoutsAfter(table, table2, i, k) ==
    LET q == Queries(DATASETS[i])[k]
    IN  \/ q.op = "upsert" /\ table2 = table
        \/ q.op = "deleteMany" /\ table2 = [table EXCEPT ![q.id] = <<>>]
        \/ q.op = "create" /\ table2 = [table EXCEPT ![q.id] = Append(@, q.ledger)]

LEMMA PayoutsAdvance ==
    ASSUME NEW table \in [DatasetIds -> Seq(Nat)], NEW table2,
           NEW i \in 1 .. N, NEW k \in 1 .. Len(Queries(DATASETS[i])), NEW i2, NEW k2,
           IsNext(i, k, i2, k2), PayoutsUpTo(table, i, k), PayoutsAfter(table, table2, i, k)
    PROVE  PayoutsUpTo(table2, i2, k2)
<1> DEFINE n == RowCount(i)
           p == DATASETS[i].payouts
           id == DATASETS[i].id
           c == k2 - n - 2
<1>1. n \in Nat /\ p \in Seq(Nat) /\ Len(p) \in Nat /\ id \in DatasetIds /\ k \in Nat
      /\ Len(Queries(DATASETS[i])) = n + 1 + Len(p) /\ i \in Nat /\ N \in Nat
  <2>1. i \in Nat /\ N \in Nat /\ IsDataset(DATASETS[i])
    BY Data
  <2> QED BY <2>1, Shape DEF IsDataset
<1>2. ASSUME NEW j \in 1 .. N, j < i
      PROVE  table2[DATASETS[j].id] = DATASETS[j].payouts
  <2>1. table[DATASETS[j].id] = DATASETS[j].payouts
    BY <1>2 DEF PayoutsUpTo
  <2>2. DATASETS[j].id # id
    <3>1. j # i
      BY <1>1, <1>2
    <3> QED BY <3>1, Data
  <2>3. DATASETS[j].id \in DatasetIds
    BY Shape
  <2> DEFINE q == Queries(DATASETS[i])[k]
  <2>4. q.op \in {"deleteMany", "create"} => q.id = id
    BY QueryAt
  <2>5. table2[DATASETS[j].id] = table[DATASETS[j].id]
    BY <2>2, <2>3, <2>4 DEF PayoutsAfter
  <2> QED BY <2>1, <2>5
(* The payouts of this dataset after the query. *)
<1>3. k >= n + 1 => table2[id] = SubSeq(p, 1, k - n - 1)
  <2>1. CASE Queries(DATASETS[i])[k].op = "upsert"
    <3>1. k \in 1 .. n
      BY <2>1, QueryAt
    <3> HIDE DEF n, p, id
    <3> QED BY <1>1, <3>1
  <2>2. CASE Queries(DATASETS[i])[k].op = "deleteMany"
    <3>1. k = n + 1 /\ table2 = [table EXCEPT ![id] = <<>>]
      BY <2>2, QueryAt DEF PayoutsAfter
    <3>2. SubSeq(p, 1, 0) = <<>>
      BY <1>1, Sequences
    <3> HIDE DEF n, p, id
    <3> QED BY <1>1, <3>1, <3>2
  <2>3. CASE Queries(DATASETS[i])[k].op = "create"
    <3> DEFINE r == k - n - 2
    <3>1. /\ k >= n + 2 /\ r + 1 \in 1 .. Len(p)
          /\ table2 = [table EXCEPT ![id] = Append(@, p[r + 1])]
      <4>1. /\ k >= n + 2 /\ k - n - 1 \in 1 .. Len(p)
            /\ table2 = [table EXCEPT ![id] = Append(@, p[k - n - 1])]
        BY <2>3, QueryAt DEF PayoutsAfter
      <4>2. r + 1 = k - n - 1
        BY <1>1
      <4> HIDE DEF n, p, id, r
      <4> QED BY <4>1, <4>2
    <3>2. table[id] = SubSeq(p, 1, r)
      BY <3>1 DEF PayoutsUpTo
    <3>3. Append(SubSeq(p, 1, r), p[r + 1]) = SubSeq(p, 1, r + 1)
      <4>1. r \in 0 .. Len(p) - 1
        <5> HIDE DEF n, p
        <5> QED BY <1>1, <3>1
      <4> HIDE DEF p, r
      <4> QED BY <1>1, <4>1, Sequences
    <3>4. r + 1 = k - n - 1
      BY <1>1
    <3> HIDE DEF n, p, id, r
    <3> QED BY <1>1, <3>1, <3>2, <3>3, <3>4
  <2> QED BY <2>1, <2>2, <2>3 DEF PayoutsAfter
<1>4. CASE k < Len(Queries(DATASETS[i])) /\ i2 = i /\ k2 = k + 1
  <2>1. k2 >= n + 2 => table2[id] = SubSeq(p, 1, k2 - n - 2)
    <3>1. k2 - n - 2 = k - n - 1 /\ (k2 >= n + 2 => k >= n + 1)
      <4> HIDE DEF n
      <4> QED BY <1>1, <1>4
    <3> HIDE DEF n, p, id
    <3> QED BY <1>3, <3>1
  <2> QED BY <1>2, <1>4, <2>1 DEF PayoutsUpTo
<1>5. CASE k = Len(Queries(DATASETS[i])) /\ i2 = i + 1 /\ k2 = 1
  <2>1. table2[id] = p
    <3>1. k >= n + 1 /\ k - n - 1 = Len(p)
      <4> HIDE DEF n, p
      <4> QED BY <1>1, <1>5
    <3>2. SubSeq(p, 1, Len(p)) = p
      BY <1>1, Sequences
    <3> HIDE DEF n, p, id
    <3> QED BY <1>3, <3>1, <3>2
  <2>2. ASSUME NEW j \in 1 .. N, j < i2 PROVE table2[DATASETS[j].id] = DATASETS[j].payouts
    <3>1. j < i \/ j = i
      BY <1>1, <1>5, <2>2
    <3> QED BY <1>2, <2>1, <3>1
  <2>3. ASSUME NEW j \in 1 .. N PROVE ~(k2 >= RowCount(j) + 2)
    BY <1>5, Shape
  <2> QED BY <2>2, <2>3 DEF PayoutsUpTo
<1> QED BY <1>4, <1>5 DEF IsNext

-----------------------------------------------------------------------------
(* The seed: every step keeps the invariant.                               *)

SeederRecord == [dataset : 0 .. N + 1, query : Nat, alone : BOOLEAN]

LEMMA Turn ==
    ASSUME SeedTypeOK, NEW s \in Seeders, Running(s), Advance(s)
    PROVE  /\ seeder[s].dataset \in 1 .. N
           /\ seeder[s].query \in 1 .. Len(Queries(DATASETS[seeder[s].dataset]))
           /\ IsNext(seeder[s].dataset, seeder[s].query, seeder'[s].dataset, seeder'[s].query)
           /\ seeder'[s].alone = seeder[s].alone
           /\ seeder' \in [Seeders -> SeederRecord]
           /\ \A o \in Seeders : o # s => seeder'[o] = seeder[o]
           /\ Running(s)' => seeder'[s].query \in DOMAIN Queries(DATASETS[seeder'[s].dataset])
<1> DEFINE at == seeder[s]
           i == at.dataset
           k == at.query
           len == Len(Queries(DATASETS[i]))
<1>1. seeder \in [Seeders -> SeederRecord] /\ i \in 1 .. N /\ at \in SeederRecord
  BY Data DEF SeedTypeOK, Running, SeederRecord, N
<1>2. k \in 1 .. len /\ len \in Nat
  <2>1. k \in DOMAIN Queries(DATASETS[i])
    BY DEF SeedTypeOK
  <2> QED BY <1>1, <2>1, Shape
<1>3. seeder' = [seeder EXCEPT ![s] = After(at)]
  BY <1>1 DEF Advance
<1>4. /\ After(at) \in SeederRecord /\ After(at).alone = at.alone
      /\ IsNext(i, k, After(at).dataset, After(at).query)
  <2>1. CASE k < len
    <3>1. After(at) = [at EXCEPT !.query = @ + 1]
      BY <2>1 DEF After
    <3> HIDE DEF at
    <3>2. /\ After(at) \in SeederRecord /\ After(at).alone = at.alone
          /\ After(at).dataset = at.dataset /\ After(at).query = at.query + 1
      BY <1>1, <3>1 DEF SeederRecord
    <3> QED BY <2>1, <3>2 DEF IsNext
  <2>2. CASE k = len
    <3>1. After(at) = [at EXCEPT !.dataset = @ + 1, !.query = 1]
      BY <1>2, <2>2 DEF After
    <3>2. i + 1 \in 0 .. N + 1
      <4>1. N \in Nat
        BY Data
      <4> HIDE DEF i
      <4> QED BY <1>1, <4>1
    <3> HIDE DEF at
    <3>3. /\ After(at) = [dataset |-> at.dataset + 1, query |-> 1, alone |-> at.alone]
          /\ at.alone \in BOOLEAN
      BY <1>1, <3>1 DEF SeederRecord
    <3>4. /\ After(at) \in SeederRecord /\ After(at).alone = at.alone
          /\ After(at).dataset = at.dataset + 1 /\ After(at).query = 1
      BY <3>2, <3>3 DEF SeederRecord
    <3> QED BY <2>2, <3>4 DEF IsNext
  <2> QED BY <1>2, <2>1, <2>2
<1>5. seeder'[s] = After(at) /\ seeder' \in [Seeders -> SeederRecord]
      /\ \A o \in Seeders : o # s => seeder'[o] = seeder[o]
  <2> HIDE DEF at
  <2> QED BY <1>1, <1>3, <1>4
<1>6. ASSUME Running(s)'
      PROVE  seeder'[s].query \in DOMAIN Queries(DATASETS[seeder'[s].dataset])
  <2>1. seeder'[s].dataset \in 1 .. N
    BY <1>6, Data DEF Running
  <2>2. seeder'[s].query = 1 \/ (seeder'[s].dataset = i /\ seeder'[s].query = k + 1 /\ k < len)
    BY <1>4, <1>5 DEF IsNext
  <2>3. CASE seeder'[s].query = 1
    BY <2>1, <2>3, Shape
  <2>4. CASE seeder'[s].dataset = i /\ seeder'[s].query = k + 1 /\ k < len
    <3>1. DOMAIN Queries(DATASETS[i]) = 1 .. len
      BY <1>1, Shape
    <3> HIDE DEF i, k, len
    <3> QED BY <1>2, <2>4, <3>1
  <2> QED BY <2>2, <2>3, <2>4
<1> QED BY <1>1, <1>2, <1>4, <1>5, <1>6

(* A run that takes its turn keeps what it has written so far. *)
LEMMA TurnKeeps ==
    ASSUME SeedInv, NEW s \in Seeders, Running(s), Advance(s),
           \A r \in Rows : tables[r] = "seeded" => tables'[r] = "seeded",
           NextQuery(s).op = "upsert" => tables'[NextQuery(s).row] = "seeded",
           PayoutsAfter(payouts, payouts', seeder[s].dataset, seeder[s].query)
    PROVE  /\ RowsUpTo(tables', seeder'[s].dataset, seeder'[s].query)
           /\ seeder'[s].alone =>
               PayoutsUpTo(payouts', seeder'[s].dataset, seeder'[s].query)
           /\ \A o \in Seeders : SeederInv(o)'
<1> DEFINE i == seeder[s].dataset
           k == seeder[s].query
<1>0. SeedTypeOK
  BY DEF SeedInv
<1>1. /\ i \in 1 .. N /\ k \in 1 .. Len(Queries(DATASETS[i]))
      /\ IsNext(i, k, seeder'[s].dataset, seeder'[s].query)
      /\ seeder'[s].alone = seeder[s].alone
      /\ \A o \in Seeders : o # s => seeder'[o] = seeder[o]
  BY <1>0, Turn
<1>2. ASSUME NEW a, NEW b, RowsUpTo(tables, a, b) PROVE RowsUpTo(tables', a, b)
  <2>1. \A j \in 1 .. N, r \in Nat : r \in 1 .. RowCount(j) => DatasetRows(DATASETS[j])[r] \in Rows
    BY Shape
  <2> QED BY <1>2, <2>1 DEF RowsUpTo
<1>3. RowsUpTo(tables', seeder'[s].dataset, seeder'[s].query)
  <2>1. RowsUpTo(tables', i, k)
    BY <1>2 DEF SeedInv, SeederInv
  <2>2. k \in 1 .. RowCount(i) => tables'[DatasetRows(DATASETS[i])[k]] = "seeded"
    <3>1. NextQuery(s) = Queries(DATASETS[i])[k]
      BY DEF NextQuery
    <3>2. ASSUME k \in 1 .. RowCount(i)
          PROVE  Queries(DATASETS[i])[k] = [op |-> "upsert", row |-> DatasetRows(DATASETS[i])[k]]
      BY <1>1, <3>2, UpsertAt
    <3> HIDE DEF i, k
    <3> QED BY <3>1, <3>2
  <2> HIDE DEF i, k
  <2>3. ASSUME NEW a, NEW b, IsNext(i, k, a, b) PROVE RowsUpTo(tables', a, b)
    BY <1>1, <2>1, <2>2, <2>3, RowsAdvance
  <2> QED BY <1>1, <2>3
<1>4. seeder'[s].alone => PayoutsUpTo(payouts', seeder'[s].dataset, seeder'[s].query)
  <2>1. seeder[s].alone => PayoutsUpTo(payouts, i, k)
    BY DEF SeedInv, SeederInv
  <2>2. payouts \in [DatasetIds -> Seq(Nat)]
    BY <1>0 DEF SeedTypeOK
  <2>3. PayoutsAfter(payouts, payouts', i, k)
    OBVIOUS
  <2> HIDE DEF i, k
  <2> QED BY <1>1, <2>1, <2>2, <2>3, PayoutsAdvance
<1>5. ASSUME NEW o \in Seeders, Running(o)' PROVE Running(o)
  BY <1>1, <1>5 DEF Running
<1>6. ASSUME NEW o \in Seeders PROVE SeederInv(o)'
  <2>1. CASE o = s
    <3>1. seeder'[s].alone => \A q \in Seeders : Running(q)' => q = s
      BY <1>1, <1>5 DEF SeedInv, SeederInv
    <3> QED BY <1>3, <1>4, <2>1, <3>1 DEF SeederInv
  <2>2. CASE o # s
    <3>1. Running(o)' => ~seeder[o].alone /\ RowsUpTo(tables, seeder[o].dataset, seeder[o].query)
      BY <1>5, <2>2 DEF SeedInv, SeederInv
    <3>2. seeder'[o] = seeder[o]
      BY <1>1, <2>2
    <3> QED BY <1>2, <3>1, <3>2 DEF SeederInv
  <2> QED BY <2>1, <2>2
<1> QED BY <1>3, <1>4, <1>6

LEMMA SeedInit0 == SeedInit => SeedInv
<1> SUFFICES ASSUME SeedInit PROVE SeedInv
  OBVIOUS
<1>1. N = 5 /\ DOMAIN DATASETS = 1 .. N
  BY Data
<1>2. \A s \in Seeders : ~Running(s)
  BY <1>1 DEF SeedInit, NoRun, Running
<1>3. tables \in [Rows -> {"absent", "old", "seeded"}]
  BY SMT DEF SeedInit
<1>4. payouts \in [DatasetIds -> Seq(Nat)]
  <2>1. \A l \in Nat : <<l>> \in Seq(Nat)
    OBVIOUS
  <2>2. <<>> \in Seq(Nat)
    OBVIOUS
  <2>3. PICK old \in Nat :
            payouts = [d \in DatasetIds |-> <<>>] \/ payouts = [d \in DatasetIds |-> <<old>>]
    BY SMT DEF SeedInit
  <2> QED BY <2>1, <2>2, <2>3
<1>5. seeder \in [Seeders -> [dataset : 0 .. Len(DATASETS) + 1, query : Nat, alone : BOOLEAN]]
  BY <1>1, SMT DEF SeedInit, NoRun, N
<1>6. runs \in 0 .. MaxRuns
  BY SeedAssumption, SMT DEF SeedInit
<1> QED BY <1>2, <1>3, <1>4, <1>5, <1>6 DEF SeedInv, SeedTypeOK, SeederInv

LEMMA BeginStep ==
    ASSUME SeedInv, NEW s \in Seeders, Begin(s)
    PROVE  SeedInv'
<1> DEFINE others == {o \in Seeders \ {s} : Running(o)}
<1>1. /\ seeder \in [Seeders -> SeederRecord] /\ runs \in 0 .. MaxRuns
      /\ tables' = tables /\ payouts' = payouts /\ runs' = runs + 1 /\ runs < MaxRuns
      /\ SeedTypeOK
  BY DEF SeedInv, SeedTypeOK, SeederRecord, Begin, N
<1>2. seeder' = [o \in Seeders |->
        IF o = s THEN [dataset |-> 1, query |-> 1, alone |-> others = {}]
        ELSE [seeder[o] EXCEPT !.alone = @ /\ o \notin others]]
  BY DEF Begin
<1>3. /\ seeder'[s] = [dataset |-> 1, query |-> 1, alone |-> others = {}]
      /\ seeder'[s] \in SeederRecord
  <2>1. 1 \in 0 .. N + 1
    BY Data
  <2>2. (others = {}) \in BOOLEAN
    OBVIOUS
  <2> QED BY <1>2, <2>1, <2>2 DEF SeederRecord
<1>4. ASSUME NEW o \in Seeders, o # s
      PROVE  /\ seeder'[o] \in SeederRecord
             /\ seeder'[o].dataset = seeder[o].dataset /\ seeder'[o].query = seeder[o].query
             /\ seeder'[o].alone => seeder[o].alone /\ o \notin others
  <2>1. seeder'[o] = [seeder[o] EXCEPT !.alone = @ /\ o \notin others]
    BY <1>2, <1>4
  <2>2. seeder[o] \in SeederRecord
    BY <1>1
  <2> HIDE DEF others
  <2> QED BY <2>1, <2>2 DEF SeederRecord
<1>5. seeder' \in [Seeders -> SeederRecord]
  <2>1. \A o \in Seeders : seeder'[o] \in SeederRecord
    BY <1>3, <1>4
  <2>2. seeder' = [o \in Seeders |-> seeder'[o]]
    BY <1>2
  <2> QED BY <2>1, <2>2
<1>6. \A o \in Seeders : o # s => (Running(o)' <=> Running(o))
  BY <1>4 DEF Running
<1>7. SeedTypeOK'
  <2>1. runs' \in 0 .. MaxRuns
    BY <1>1, SeedAssumption
  <2>2. 1 \in DOMAIN Queries(DATASETS[1])
    <3>1. 1 \in 1 .. N
      BY Data
    <3> QED BY <3>1, Shape
  <2>3. ASSUME NEW o \in Seeders, Running(o)'
        PROVE  seeder'[o].query \in DOMAIN Queries(DATASETS[seeder'[o].dataset])
    <3>1. CASE o = s
      BY <1>3, <2>2, <3>1
    <3>2. CASE o # s
      BY <1>1, <1>4, <1>6, <2>3, <3>2 DEF SeedTypeOK
    <3> QED BY <3>1, <3>2
  <2> QED BY <1>1, <1>5, <2>1, <2>3 DEF SeedTypeOK, SeederRecord, N
<1>8. ASSUME NEW o \in Seeders, Running(o)' PROVE SeederInv(o)'
  <2>1. CASE o = s
    <3>1. RowsUpTo(tables', 1, 1)
      BY DEF RowsUpTo
    <3>2. PayoutsUpTo(payouts', 1, 1)
      BY Shape DEF PayoutsUpTo
    <3>3. others = {} => \A q \in Seeders : Running(q)' => q = s
      BY <1>6
    <3> HIDE DEF others
    <3>4. /\ seeder'[s].dataset = 1 /\ seeder'[s].query = 1
          /\ seeder'[s].alone => others = {}
      <4> DEFINE free == others = {}
      <4>1. seeder'[s] = [dataset |-> 1, query |-> 1, alone |-> free]
        BY <1>3
      <4>2. seeder'[s].alone => free
        <5> HIDE DEF free
        <5> QED BY <4>1
      <4>3. seeder'[s].dataset = 1 /\ seeder'[s].query = 1
        <5> HIDE DEF free
        <5> QED BY <4>1
      <4> QED BY <4>2, <4>3
    <3> QED BY <2>1, <3>1, <3>2, <3>3, <3>4 DEF SeederInv
  <2>2. CASE o # s
    <3>1. Running(o) /\ o \in others
      BY <1>6, <1>8, <2>2
    <3>2. RowsUpTo(tables, seeder[o].dataset, seeder[o].query)
      BY <3>1 DEF SeedInv, SeederInv
    <3> HIDE DEF others
    <3>3. ~seeder'[o].alone
      BY <1>4, <2>2, <3>1
    <3>4. RowsUpTo(tables', seeder'[o].dataset, seeder'[o].query)
      BY <1>1, <1>4, <2>2, <3>2
    <3> QED BY <3>3, <3>4 DEF SeederInv
  <2> QED BY <2>1, <2>2
<1>9. \A o \in Seeders : SeederInv(o)'
  BY <1>8 DEF SeederInv
<1> QED BY <1>7, <1>9 DEF SeedInv

(* What an upsert, a deletion and a create do. *)
LEMMA TurnEffect ==
    ASSUME SeedInv, NEW s \in Seeders, Upsert(s) \/ DeleteMany(s) \/ Create(s)
    PROVE  /\ Running(s) /\ Advance(s) /\ runs' = runs
           /\ \A r \in Rows : tables[r] = "seeded" => tables'[r] = "seeded"
           /\ NextQuery(s).op = "upsert" => tables'[NextQuery(s).row] = "seeded"
           /\ PayoutsAfter(payouts, payouts', seeder[s].dataset, seeder[s].query)
           /\ tables' \in [Rows -> {"absent", "old", "seeded"}]
           /\ payouts' \in [DatasetIds -> Seq(Nat)]
<1> DEFINE i == seeder[s].dataset
           k == seeder[s].query
<1>1. /\ tables \in [Rows -> {"absent", "old", "seeded"}] /\ payouts \in [DatasetIds -> Seq(Nat)]
      /\ Running(s) /\ Advance(s) /\ SeedTypeOK
  BY DEF SeedInv, SeedTypeOK, Upsert, DeleteMany, Create
<1>2. i \in 1 .. N /\ k \in 1 .. Len(Queries(DATASETS[i])) /\ NextQuery(s) = Queries(DATASETS[i])[k]
  BY <1>1, Turn DEF NextQuery
<1> HIDE DEF i, k
<1>3. CASE Upsert(s)
  <2>1. /\ NextQuery(s).op = "upsert" /\ tables' = [tables EXCEPT ![NextQuery(s).row] = "seeded"]
        /\ payouts' = payouts /\ runs' = runs
    BY <1>3 DEF Upsert, Upserted
  <2>2. NextQuery(s).row \in Rows
    <3>1. k \in 1 .. RowCount(i) /\ NextQuery(s).row = DatasetRows(DATASETS[i])[k]
      BY <1>2, <2>1, QueryAt
    <3> QED BY <1>2, <3>1, Shape
  <2>3. PayoutsAfter(payouts, payouts', i, k)
    BY <1>2, <2>1 DEF PayoutsAfter
  <2> QED BY <1>1, <2>1, <2>2, <2>3 DEF i, k
<1>4. CASE DeleteMany(s)
  <2>1. /\ NextQuery(s).op = "deleteMany" /\ payouts' = [payouts EXCEPT ![NextQuery(s).id] = <<>>]
        /\ tables' = tables /\ runs' = runs
    BY <1>4 DEF DeleteMany, Cleared
  <2>2. PayoutsAfter(payouts, payouts', i, k)
    BY <1>2, <2>1 DEF PayoutsAfter
  <2>3. payouts' \in [DatasetIds -> Seq(Nat)]
    <3>1. NextQuery(s).id = DATASETS[i].id
      BY <1>2, <2>1, QueryAt
    <3>2. NextQuery(s).id \in DatasetIds /\ <<>> \in Seq(Nat)
      BY <1>2, <3>1, Shape
    <3> QED BY <1>1, <2>1, <3>2
  <2> QED BY <1>1, <2>1, <2>2, <2>3 DEF i, k
<1>5. CASE Create(s)
  <2>1. /\ NextQuery(s).op = "create"
        /\ payouts' = [payouts EXCEPT ![NextQuery(s).id] = Append(@, NextQuery(s).ledger)]
        /\ tables' = tables /\ runs' = runs
    BY <1>5 DEF Create
  <2>2. PayoutsAfter(payouts, payouts', i, k)
    BY <1>2, <2>1 DEF PayoutsAfter
  <2>3. NextQuery(s).id \in DatasetIds /\ NextQuery(s).ledger \in Nat
    <3>1. /\ NextQuery(s).id = DATASETS[i].id
          /\ NextQuery(s).ledger = DATASETS[i].payouts[k - RowCount(i) - 1]
          /\ k - RowCount(i) - 1 \in 1 .. Len(DATASETS[i].payouts)
      BY <1>2, <2>1, QueryAt
    <3>2. DATASETS[i].payouts \in Seq(Nat) /\ DATASETS[i].id \in DatasetIds
      BY <1>2, Shape DEF IsDataset
    <3> QED BY <3>1, <3>2
  <2>4. payouts' \in [DatasetIds -> Seq(Nat)]
    <3>1. payouts[NextQuery(s).id] \in Seq(Nat)
      BY <1>1, <2>3
    <3>2. Append(payouts[NextQuery(s).id], NextQuery(s).ledger) \in Seq(Nat)
      BY <2>3, <3>1
    <3> QED BY <1>1, <2>1, <2>3, <3>2
  <2> QED BY <1>1, <2>1, <2>2, <2>4 DEF i, k
<1> QED BY <1>3, <1>4, <1>5

LEMMA TurnStep ==
    ASSUME SeedInv, NEW s \in Seeders, Upsert(s) \/ DeleteMany(s) \/ Create(s)
    PROVE  SeedInv'
<1>1. /\ Running(s) /\ Advance(s) /\ runs' = runs /\ SeedTypeOK
      /\ tables' \in [Rows -> {"absent", "old", "seeded"}]
      /\ payouts' \in [DatasetIds -> Seq(Nat)]
  BY TurnEffect DEF SeedInv
<1>2. \A o \in Seeders : SeederInv(o)'
  BY TurnEffect, TurnKeeps
<1>3. /\ seeder' \in [Seeders -> SeederRecord]
      /\ \A o \in Seeders : o # s => seeder'[o] = seeder[o]
      /\ Running(s)' => seeder'[s].query \in DOMAIN Queries(DATASETS[seeder'[s].dataset])
  BY <1>1, Turn
<1>4. ASSUME NEW o \in Seeders, Running(o)'
      PROVE  seeder'[o].query \in DOMAIN Queries(DATASETS[seeder'[o].dataset])
  <2>1. CASE o = s
    BY <1>3, <1>4, <2>1
  <2>2. CASE o # s
    BY <1>1, <1>3, <1>4, <2>2 DEF SeedTypeOK, Running
  <2> QED BY <2>1, <2>2
<1>5. SeedTypeOK'
  BY <1>1, <1>3, <1>4 DEF SeedTypeOK, SeederRecord, N
<1> QED BY <1>2, <1>5 DEF SeedInv

LEMMA InterruptedStep ==
    ASSUME SeedInv, NEW s \in Seeders, Interrupted(s)
    PROVE  SeedInv'
<1>1. /\ seeder \in [Seeders -> SeederRecord] /\ seeder' = [seeder EXCEPT ![s] = NoRun]
      /\ tables' = tables /\ payouts' = payouts /\ runs' = runs /\ SeedTypeOK
  BY DEF SeedInv, SeedTypeOK, SeederRecord, Interrupted, N
<1>2. NoRun \in SeederRecord /\ NoRun.dataset \notin DOMAIN DATASETS
  BY Data DEF NoRun, SeederRecord
<1>3. /\ seeder' \in [Seeders -> SeederRecord] /\ ~Running(s)'
      /\ \A o \in Seeders : o # s => seeder'[o] = seeder[o]
  BY <1>1, <1>2 DEF Running
<1>4. \A o \in Seeders : Running(o)' => o # s /\ Running(o)
  BY <1>3 DEF Running
<1>5. SeedTypeOK'
  <2>1. \A o \in Seeders :
            Running(o)' => seeder'[o].query \in DOMAIN Queries(DATASETS[seeder'[o].dataset])
    BY <1>1, <1>3, <1>4 DEF SeedTypeOK
  <2> QED BY <1>1, <1>3, <2>1 DEF SeedTypeOK, SeederRecord, N
<1>6. ASSUME NEW o \in Seeders, Running(o)' PROVE SeederInv(o)'
  BY <1>1, <1>3, <1>4, <1>6 DEF SeedInv, SeederInv
<1>7. \A o \in Seeders : SeederInv(o)'
  BY <1>6 DEF SeederInv
<1> QED BY <1>5, <1>7 DEF SeedInv

LEMMA SeedInvariant == SeedSpec => []SeedInv
<1>1. SeedInv /\ UNCHANGED seedVars => SeedInv'
  <2> SUFFICES ASSUME SeedInv, UNCHANGED seedVars PROVE SeedInv'
    OBVIOUS
  <2>1. tables' = tables /\ payouts' = payouts /\ seeder' = seeder /\ runs' = runs
    BY DEF seedVars
  <2> QED BY <2>1 DEF SeedInv, SeedTypeOK, SeederInv, Running
<1>2. SeedInv /\ SeedNext => SeedInv'
  BY BeginStep, TurnStep, InterruptedStep DEF SeedNext
<1>3. SeedInv /\ [SeedNext]_seedVars => SeedInv'
  BY <1>1, <1>2
<1> QED BY <1>3, SeedInit0, PTL DEF SeedSpec

-----------------------------------------------------------------------------
(* Theorems about the seed.                                                *)

(***************************************************************************)
(* A run of the seed that goes through with no other beside it leaves the  *)
(* seed's rows and payouts, however many runs, whole, cut short or         *)
(* overlapping, came before it.                                            *)
(***************************************************************************)
THEOREM SeedIsIdempotent == SeedSpec => SeedConverges
<1>1. ASSUME SeedInv, SeedNext, NEW s \in Seeders,
             Running(s), seeder'[s].dataset = Len(DATASETS) + 1, seeder'[s].alone
      PROVE  Seeded'
  <2>0. N = 5 /\ DOMAIN DATASETS = 1 .. N /\ seeder \in [Seeders -> SeederRecord]
        /\ seeder[s].dataset \in 1 .. N
    BY <1>1, Data DEF SeedInv, SeedTypeOK, SeederRecord, N, Running
  <2>1. PICK o \in Seeders :
            Begin(o) \/ Upsert(o) \/ DeleteMany(o) \/ Create(o) \/ Interrupted(o)
    BY <1>1 DEF SeedNext
  <2>2. seeder'[s].dataset # seeder[s].dataset
    BY <1>1, <2>0 DEF N
  <2>3. ~Begin(o)
    <3>1. ASSUME Begin(o) PROVE FALSE
      <4>1. o # s
        BY <1>1, <3>1 DEF Begin
      <4>2. seeder'[s] = [seeder[s] EXCEPT !.alone =
                @ /\ s \notin {q \in Seeders \ {o} : Running(q)}]
        BY <3>1, <4>1 DEF Begin
      <4>3. seeder[s] \in SeederRecord
        BY <2>0
      <4>4. seeder'[s].dataset = seeder[s].dataset
        BY <4>2, <4>3 DEF SeederRecord
      <4> QED BY <2>2, <4>4
    <3> QED BY <3>1
  <2>4. ~Interrupted(o)
    BY <1>1, <2>0, <2>2 DEF Interrupted, NoRun, N
  <2>5. o = s
    <3>1. Advance(o)
      BY <2>1, <2>3, <2>4 DEF Upsert, DeleteMany, Create
    <3>2. o # s => seeder'[s] = seeder[s]
      BY <2>0, <3>1 DEF Advance
    <3> QED BY <2>2, <3>2
  <2>6. /\ RowsUpTo(tables', N + 1, seeder'[s].query)
        /\ PayoutsUpTo(payouts', N + 1, seeder'[s].query)
    BY <1>1, <2>1, <2>3, <2>4, <2>5, TurnEffect, TurnKeeps DEF N
  <2>7. \A i \in DOMAIN DATASETS : payouts'[DATASETS[i].id] = DATASETS[i].payouts
    BY <2>0, <2>6 DEF PayoutsUpTo
  <2>8. ASSUME NEW r \in Rows PROVE tables'[r] = "seeded"
    <3>1. PICK i \in 1 .. N : r \in ToSet(DatasetRows(DATASETS[i]))
      BY <2>0 DEF Rows
    <3>2. PICK k \in 1 .. RowCount(i) : r = DatasetRows(DATASETS[i])[k]
      <4>1. DOMAIN DatasetRows(DATASETS[i]) = 1 .. RowCount(i)
        BY Shape, RowsOfDataset DEF RowCount
      <4> QED BY <3>1, <4>1 DEF ToSet
    <3>3. k \in Nat /\ i < N + 1
      BY <2>0, Shape
    <3> QED BY <2>6, <3>2, <3>3 DEF RowsUpTo
  <2> QED BY <2>7, <2>8 DEF Seeded
<1>2. ASSUME SeedInv, [SeedNext]_seedVars
      PROVE  [\A s \in Seeders :
                Running(s) /\ seeder'[s].dataset = Len(DATASETS) + 1 /\ seeder'[s].alone
                => Seeded']_seedVars
  BY <1>1, <1>2
<1> QED BY <1>2, SeedInvariant, PTL DEF SeedConverges, SeedSpec

(* The rows, the payouts and the runs of the seed keep their types. *)
THEOREM SeedTypeCorrect == SeedSpec => []SeedTypeOK
<1>1. SeedInv => SeedTypeOK
  BY DEF SeedInv
<1> QED BY <1>1, SeedInvariant, PTL
=============================================================================
