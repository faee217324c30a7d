--------------------------- MODULE TrivyDbProofs ---------------------------
(***************************************************************************)
(* The vulnerability database for every number of updates and scans and    *)
(* every lifetime of a database.                                           *)
(***************************************************************************)
EXTENDS TrivyDb, TLAPS

(***************************************************************************)
(* Unless it was lost and none installed since: the newest database is in  *)
(* place, or the update that moved it away has it still.                   *)
(***************************************************************************)
InPlace ==
  ~lost =>
    /\ Active = {} => db = newest
    /\ \A u \in Active :
         CASE upc[u] = "swapping" -> db = None /\ backup[u] = newest
           [] upc[u] = "cleaning" -> IF db = None THEN backup[u] = newest ELSE db = newest
           [] OTHER               -> db = newest

(***************************************************************************)
(* What a scan has checked is no newer than anything that may be in place  *)
(* when its container opens the database: the database, what is about to   *)
(* be installed or put back, and what the registry serves.                 *)
(***************************************************************************)
ChecksAreOld ==
  /\ db <= published
  /\ \A u \in Updaters :
       /\ staging[u] <= published /\ backup[u] <= published
       /\ upc[u] \in {"downloaded", "swapping"} => staging[u] # None /\ db <= staging[u]
       /\ upc[u] = "swapping" => db = None
  /\ \A s \in Scans :
       /\ checked[s] <= published
       /\ db # None => checked[s] <= db
       /\ \A u \in Updaters :
            /\ upc[u] \in {"downloaded", "swapping"} => checked[s] <= staging[u]
            /\ upc[u] \in {"swapping", "cleaning"} /\ db = None /\ backup[u] # None =>
                 checked[s] <= backup[u]

RegistryIsOnTime == published <= now + 1

\* Only an update that has moved the database has a backup.
BackupWhileSwapping ==
  \A u \in Updaters : upc[u] \notin {"swapping", "cleaning", "restored"} => backup[u] = None

\* A cleanup that finds the database moved away was started by a failure.
MovedByStopped ==
  \A u \in Updaters : upc[u] = "cleaning" /\ MovedAway(u) => u \in stopped

IInv ==
  /\ TypeOK /\ RegistryIsOnTime /\ OneUpdater /\ BackupWhileSwapping /\ MovedByStopped
  /\ InPlace /\ ChecksAreOld /\ UsedIsNoOlder

-----------------------------------------------------------------------------

LEMMA Typing ==
  ASSUME TypeOK, RegistryIsOnTime, [Next]_vars
  PROVE  TypeOK' /\ RegistryIsOnTime'
<1> USE DEF TypeOK, RegistryIsOnTime, Db, None, diskVars, runVars, pastVars, scanVars, GoTo
<1>0. MaxNow \in Nat
  BY TrivyDbAssumption DEF TrivyDbAssumption
<1>1. CASE Tick \/ Publish \/ ClearLock \/ UNCHANGED vars
  <2>1. CASE Tick
    BY <1>0, <2>1 DEF Tick
  <2>2. CASE Publish
    BY <1>0, <2>2 DEF Publish
  <2>3. CASE ClearLock
    BY <2>3 DEF ClearLock
  <2>4. CASE UNCHANGED vars
    BY <2>4 DEF vars
  <2> QED BY <1>1, <2>1, <2>2, <2>3, <2>4
<1>2. ASSUME NEW u \in Updaters, Lock(u) \/ EndsEarly(u) PROVE TypeOK' /\ RegistryIsOnTime'
  <2>1. CASE Lock(u) \/ Stop(u)
    BY <1>0, <2>1 DEF Lock, Stop
  <2>2. CASE StopEarly(u) \/ AbortCleanup(u) \/ Kill(u)
    <3>1. EndHere(u) /\ lost' \in BOOLEAN
      BY <2>2 DEF StopEarly, AbortCleanup, Kill
    <3> QED BY <1>0, <3>1 DEF EndHere
  <2> QED BY <1>2, <2>1, <2>2 DEF EndsEarly
<1>3. ASSUME NEW u \in Updaters, MakeStaging(u) \/ Download(u) \/ Backup(u) \/ Install(u)
      PROVE  TypeOK' /\ RegistryIsOnTime'
  <2>1. CASE MakeStaging(u) \/ Download(u)
    BY <1>0, <2>1 DEF MakeStaging, Download
  <2>2. CASE Backup(u)
    BY <1>0, <2>2 DEF Backup
  <2>3. CASE Install(u)
    BY <1>0, <2>3 DEF Install
  <2> QED BY <1>3, <2>1, <2>2, <2>3
<1>4. ASSUME NEW u \in Updaters, Restore(u) \/ RemoveStaging(u) \/ Unlock(u)
      PROVE  TypeOK' /\ RegistryIsOnTime'
  BY <1>0, <1>4 DEF Restore, RemoveStaging, Unlock
<1>5. ASSUME NEW s \in Scans, FindDb(s) \/ CheckDb(s) \/ OpenDb(s) \/ EndScan(s)
      PROVE  TypeOK' /\ RegistryIsOnTime'
  BY <1>0, <1>5 DEF FindDb, CheckDb, OpenDb, EndScan
<1> QED BY <1>1, <1>2, <1>3, <1>4, <1>5, Zenon DEF Next, FileCommand

\* A step of an update that runs: only it is active.
LEMMA Alone ==
  ASSUME OneUpdater, NEW u \in Updaters, upc[u] # "idle"
  PROVE  Active = {u} /\ lock /\ \A v \in Updaters : v # u => upc[v] = "idle"
BY DEF OneUpdater, Active

LEMMA Running ==
  ASSUME NEW u \in Updaters, FileCommand(u) \/ Download(u) \/ EndsEarly(u)
  PROVE  upc[u] # "idle"
BY DEF FileCommand, MakeStaging, Download, Backup, Install, Restore, RemoveStaging, Unlock,
   EndsEarly, Stop, StopEarly, AbortCleanup, Kill

LEMMA LockExcludes ==
  ASSUME TypeOK, OneUpdater, [Next]_vars
  PROVE  OneUpdater'
<1> USE DEF TypeOK, OneUpdater, Active, GoTo
<1>1. CASE Tick \/ Publish \/ UNCHANGED vars
  BY <1>1 DEF Tick, Publish, vars, diskVars, runVars
<1>2. CASE ClearLock
  BY <1>2 DEF ClearLock, runVars
<1>3. ASSUME NEW u \in Updaters, Lock(u) PROVE OneUpdater'
  BY <1>3 DEF Lock
<1>4. ASSUME NEW u \in Updaters, FileCommand(u) \/ Download(u) \/ EndsEarly(u) PROVE OneUpdater'
  <2>1. upc[u] # "idle"
    BY <1>4, Running
  <2>2. \A v \in Updaters : v # u => upc[v] = "idle"
    BY <2>1, Alone
  <2>3. CASE Unlock(u)
    BY <2>2, <2>3 DEF Unlock
  <2>4. CASE ~Unlock(u)
    <3>1. lock' = lock /\ \E pc : upc' = [upc EXCEPT ![u] = pc]
      BY <1>4, <2>4 DEF FileCommand, MakeStaging, Download, Backup, Install, Restore,
         RemoveStaging, EndsEarly, Stop, StopEarly, AbortCleanup, Kill, EndHere, diskVars
    <3> QED BY <2>1, <2>2, <3>1
  <2> QED BY <2>3, <2>4
<1>5. ASSUME NEW s \in Scans, FindDb(s) \/ CheckDb(s) \/ OpenDb(s) \/ EndScan(s) PROVE OneUpdater'
  BY <1>5 DEF FindDb, CheckDb, OpenDb, EndScan, diskVars, runVars
<1> QED BY <1>1, <1>2, <1>3, <1>4, <1>5, Zenon DEF Next

LEMMA BackupStays ==
  ASSUME TypeOK, BackupWhileSwapping, [Next]_vars
  PROVE  BackupWhileSwapping'
<1> USE DEF TypeOK, BackupWhileSwapping, GoTo
<1>1. CASE Tick \/ Publish \/ ClearLock \/ UNCHANGED vars
  BY <1>1 DEF Tick, Publish, ClearLock, vars, runVars
<1>2. ASSUME NEW u \in Updaters, Lock(u) \/ EndsEarly(u) PROVE BackupWhileSwapping'
  BY <1>2 DEF Lock, EndsEarly, Stop, StopEarly, AbortCleanup, Kill, EndHere
<1>3. ASSUME NEW u \in Updaters, MakeStaging(u) \/ Download(u) \/ Backup(u) \/ Install(u)
      PROVE  BackupWhileSwapping'
  BY <1>3 DEF MakeStaging, Download, Backup, Install
<1>4. ASSUME NEW u \in Updaters, Restore(u) \/ RemoveStaging(u) \/ Unlock(u)
      PROVE  BackupWhileSwapping'
  BY <1>4 DEF Restore, RemoveStaging, Unlock
<1>5. ASSUME NEW s \in Scans, FindDb(s) \/ CheckDb(s) \/ OpenDb(s) \/ EndScan(s)
      PROVE  BackupWhileSwapping'
  BY <1>5 DEF FindDb, CheckDb, OpenDb, EndScan, runVars
<1> QED BY <1>1, <1>2, <1>3, <1>4, <1>5, Zenon DEF Next, FileCommand

LEMMA MovedByStoppedStays ==
  ASSUME TypeOK, OneUpdater, BackupWhileSwapping, MovedByStopped, ChecksAreOld, [Next]_vars
  PROVE  MovedByStopped'
<1> USE DEF TypeOK, MovedByStopped, MovedAway, GoTo
<1>1. CASE Tick \/ Publish \/ ClearLock \/ UNCHANGED vars
  BY <1>1 DEF Tick, Publish, ClearLock, vars, diskVars, runVars, pastVars
<1>2. ASSUME NEW s \in Scans, FindDb(s) \/ CheckDb(s) \/ OpenDb(s) \/ EndScan(s)
      PROVE  MovedByStopped'
  BY <1>2 DEF FindDb, CheckDb, OpenDb, EndScan, diskVars, runVars, pastVars
<1>3. ASSUME NEW u \in Updaters, Lock(u) PROVE MovedByStopped'
  BY <1>3 DEF Lock
<1>4. ASSUME NEW u \in Updaters, FileCommand(u) \/ Download(u) \/ EndsEarly(u)
      PROVE  MovedByStopped'
  <2>1. \A v \in Updaters : v # u => upc[v] = "idle"
    BY <1>4, Running, Alone
  <2>2. SUFFICES upc'[u] = "cleaning" /\ MovedAway(u)' => u \in stopped'
    <3>1. \A v \in Updaters : v # u => upc'[v] = "idle"
      BY <1>4, <2>1 DEF FileCommand, MakeStaging, Download, Backup, Install, Restore,
         RemoveStaging, Unlock, EndsEarly, Stop, StopEarly, AbortCleanup, Kill, EndHere
    <3> QED BY <2>2, <3>1
  <2>3. CASE Stop(u)
    BY <2>3 DEF Stop
  <2>4. CASE Install(u)
    BY <2>4 DEF Install, ChecksAreOld
  <2>5. CASE ~(Stop(u) \/ Install(u))
    <3>1. upc'[u] # "cleaning"
      BY <1>4, <2>5 DEF FileCommand, MakeStaging, Download, Backup, Restore, RemoveStaging,
         Unlock, EndsEarly, StopEarly, AbortCleanup, Kill, EndHere
    <3> QED BY <3>1
  <2> QED BY <2>3, <2>4, <2>5
<1> QED BY <1>1, <1>2, <1>3, <1>4, Zenon DEF Next

LEMMA NewestStays ==
  ASSUME TypeOK, OneUpdater, BackupWhileSwapping, MovedByStopped, ChecksAreOld, InPlace,
         [Next]_vars
  PROVE  InPlace'
<1> USE DEF TypeOK, InPlace, Active, GoTo, BackupWhileSwapping
<1>1. CASE Tick \/ Publish \/ ClearLock \/ UNCHANGED vars
  <2>1. UNCHANGED <<db, newest, lost, runVars>>
    BY <1>1 DEF Tick, Publish, ClearLock, vars, diskVars, pastVars
  <2> QED BY <2>1 DEF runVars
<1>2. ASSUME NEW s \in Scans, FindDb(s) \/ CheckDb(s) \/ OpenDb(s) \/ EndScan(s) PROVE InPlace'
  <2>1. UNCHANGED <<db, newest, lost, runVars>>
    BY <1>2 DEF FindDb, CheckDb, OpenDb, EndScan, diskVars, pastVars
  <2> QED BY <2>1 DEF runVars
<1>3. ASSUME NEW u \in Updaters, Lock(u) PROVE InPlace'
  <2>1. Active = {} /\ UNCHANGED <<db, newest, lost>> /\ upc' = [upc EXCEPT ![u] = "locked"]
    BY <1>3 DEF Lock, OneUpdater
  <2> QED BY <2>1
<1>4. ASSUME NEW u \in Updaters, FileCommand(u) \/ Download(u) \/ EndsEarly(u) PROVE InPlace'
  <2>1. upc[u] # "idle"
    BY <1>4, Running
  <2>2. \A v \in Updaters : v # u => upc[v] = "idle"
    BY <2>1, Alone
  <2>3. CASE MakeStaging(u) \/ Download(u)
    BY <2>2, <2>3 DEF MakeStaging, Download, diskVars, pastVars
  <2>4. CASE Backup(u)
    BY <2>2, <2>4 DEF Backup, pastVars
  <2>5. CASE Install(u)
    <3>1. /\ upc' = [upc EXCEPT ![u] = "cleaning"] /\ db' = newest' /\ newest' = staging[u]
          /\ upc[u] = "swapping" /\ UNCHANGED backup
      BY <2>5 DEF Install
    <3>2. db' # None
      BY <2>1, <3>1 DEF ChecksAreOld
    <3> QED BY <2>1, <2>2, <3>1, <3>2
  <2>6. CASE Restore(u)
    <3>1. upc[u] = "cleaning" /\ upc' = [upc EXCEPT ![u] = "restored"]
          /\ UNCHANGED <<newest, lost>>
      BY <2>6 DEF Restore, pastVars
    <3>2. CASE backup[u] # None /\ db = None
      <4>1. db' = backup[u]
        BY <2>6, <3>2 DEF Restore, MovedAway
      <4>2. ~lost => db' = newest
        BY <2>1, <3>1, <3>2, <4>1
      <4> QED BY <2>2, <3>1, <4>2
    <3>3. CASE ~(backup[u] # None /\ db = None)
      <4>1. db' = db
        BY <2>6, <3>3 DEF Restore, MovedAway
      <4>2. ~lost => db' = newest
        BY <2>1, <3>1, <3>3, <4>1
      <4> QED BY <2>2, <3>1, <4>2
    <3> QED BY <3>2, <3>3
  <2>7. CASE RemoveStaging(u) \/ Unlock(u)
    BY <2>2, <2>7 DEF RemoveStaging, Unlock, diskVars, pastVars
  <2>8. CASE Stop(u)
    BY <2>2, <2>8 DEF Stop, diskVars
  <2>9. CASE StopEarly(u) \/ AbortCleanup(u) \/ Kill(u)
    <3>1. upc' = [upc EXCEPT ![u] = "idle"] /\ UNCHANGED <<db, newest>>
      BY <2>9 DEF StopEarly, AbortCleanup, Kill, EndHere, diskVars
    <3>2. ~lost' => ~lost /\ (upc[u] \in {"swapping", "cleaning"} => ~MovedAway(u))
      BY <2>9 DEF StopEarly, AbortCleanup, Kill, MovedByStopped
    <3>3. ~lost' => db = newest
      BY <2>1, <3>2 DEF MovedAway
    <3> QED BY <2>2, <3>1, <3>3
  <2> QED BY <1>4, <2>3, <2>4, <2>5, <2>6, <2>7, <2>8, <2>9 DEF FileCommand, EndsEarly
<1> QED BY <1>1, <1>2, <1>3, <1>4, Zenon DEF Next

LEMMA ChecksStayOld ==
  ASSUME TypeOK, OneUpdater, BackupWhileSwapping, ChecksAreOld, [Next]_vars
  PROVE  ChecksAreOld'
<1> USE DEF TypeOK, ChecksAreOld, GoTo, Db, None
<1>0. MaxNow \in Nat
  BY TrivyDbAssumption DEF TrivyDbAssumption
<1>1. CASE Tick \/ ClearLock \/ UNCHANGED vars
  BY <1>1 DEF Tick, ClearLock, vars, diskVars, runVars, scanVars
<1>2. CASE Publish
  <2>1. /\ published' \in Nat /\ published' > published
        /\ UNCHANGED <<db, upc, staging, backup, checked>>
    BY <1>0, <1>2 DEF Publish, diskVars, runVars, scanVars
  <2> QED BY <1>0, <2>1
<1>3. ASSUME NEW s \in Scans, FindDb(s) \/ CheckDb(s) \/ OpenDb(s) \/ EndScan(s)
      PROVE  ChecksAreOld'
  <2>1. UNCHANGED <<db, published, upc, staging, backup>>
    BY <1>3 DEF FindDb, CheckDb, OpenDb, EndScan, diskVars, runVars
  <2>2. CASE UNCHANGED checked
    BY <2>1, <2>2
  <2>3. CASE checked' = [checked EXCEPT ![s] = db] /\ db # None
    BY <1>0, <2>1, <2>3
  <2>4. CASE checked' = [checked EXCEPT ![s] = None]
    BY <1>0, <2>1, <2>4
  <2> QED BY <1>3, <2>2, <2>3, <2>4 DEF FindDb, CheckDb, OpenDb, EndScan
<1>4. ASSUME NEW u \in Updaters, Lock(u) PROVE ChecksAreOld'
  BY <1>4 DEF Lock, scanVars
<1>5. ASSUME NEW u \in Updaters, FileCommand(u) \/ Download(u) \/ EndsEarly(u)
      PROVE  ChecksAreOld'
  <2>1. upc[u] # "idle"
    BY <1>5, Running
  <2>2. \A v \in Updaters : v # u => upc[v] = "idle"
    BY <2>1, Alone
  <2>3. CASE \/ MakeStaging(u) \/ RemoveStaging(u) \/ Unlock(u)
             \/ StopEarly(u) \/ AbortCleanup(u) \/ Kill(u)
    BY <2>3 DEF MakeStaging, RemoveStaging, Unlock, StopEarly, AbortCleanup, Kill, EndHere,
       diskVars, scanVars
  <2>4. CASE Download(u)
    <3>1. /\ upc' = [upc EXCEPT ![u] = "downloaded"]
          /\ staging' = [staging EXCEPT ![u] = published]
          /\ UNCHANGED <<db, published, backup, checked>>
      BY <2>4 DEF Download, diskVars, scanVars
    <3> QED BY <1>0, <2>2, <3>1
  <2>5. CASE Backup(u)
    BY <1>0, <2>2, <2>5 DEF Backup, scanVars
  <2>6. CASE Install(u)
    <3>1. /\ upc[u] = "swapping" /\ upc' = [upc EXCEPT ![u] = "cleaning"]
          /\ db' = staging[u] /\ staging' = [staging EXCEPT ![u] = None]
          /\ UNCHANGED <<published, backup, checked>>
      BY <2>6 DEF Install, scanVars
    <3>2. db' # None /\ db' <= published
      BY <3>1
    <3> QED BY <1>0, <2>2, <3>1, <3>2
  <2>7. CASE Restore(u)
    <3>1. /\ upc[u] = "cleaning" /\ upc' = [upc EXCEPT ![u] = "restored"]
          /\ UNCHANGED <<published, staging, checked>>
      BY <2>7 DEF Restore, scanVars
    <3>2. CASE backup[u] # None /\ db = None
      <4>1. db' = backup[u] /\ backup' = [backup EXCEPT ![u] = None]
        BY <2>7, <3>2 DEF Restore, MovedAway
      <4> QED BY <1>0, <2>2, <3>1, <3>2, <4>1
    <3>3. CASE ~(backup[u] # None /\ db = None)
      <4>1. UNCHANGED <<db, backup>>
        BY <2>7, <3>3 DEF Restore, MovedAway
      <4> QED BY <2>2, <3>1, <4>1
    <3> QED BY <3>2, <3>3
  <2>8. CASE Stop(u)
    BY <2>2, <2>8 DEF Stop, diskVars, scanVars, BackupWhileSwapping
  <2> QED BY <1>5, <2>3, <2>4, <2>5, <2>6, <2>7, <2>8 DEF FileCommand, EndsEarly
<1> QED BY <1>1, <1>2, <1>3, <1>4, <1>5, Zenon DEF Next

LEMMA UsedStays ==
  ASSUME TypeOK, ChecksAreOld, UsedIsNoOlder, [Next]_vars
  PROVE  UsedIsNoOlder'
<1> USE DEF TypeOK, UsedIsNoOlder
<1>1. CASE UNCHANGED scanVars
  BY <1>1 DEF scanVars
<1>2. ASSUME NEW s \in Scans, FindDb(s) \/ CheckDb(s) \/ OpenDb(s) \/ EndScan(s)
      PROVE  UsedIsNoOlder'
  <2>1. CASE OpenDb(s)
    BY <2>1 DEF OpenDb, ChecksAreOld
  <2>2. CASE FindDb(s) \/ CheckDb(s) \/ EndScan(s)
    BY <2>2 DEF FindDb, CheckDb, EndScan
  <2> QED BY <1>2, <2>1, <2>2
<1>3. CASE Tick \/ Publish \/ ClearLock \/ UNCHANGED vars
  BY <1>1, <1>3 DEF Tick, Publish, ClearLock, vars
<1>4. ASSUME NEW u \in Updaters, Lock(u) \/ FileCommand(u) \/ Download(u) \/ EndsEarly(u)
      PROVE  UNCHANGED scanVars
  BY <1>4 DEF Lock, FileCommand, MakeStaging, Download, Backup, Install, Restore, RemoveStaging,
     Unlock, EndsEarly, Stop, StopEarly, AbortCleanup, Kill, EndHere
<1> QED BY <1>1, <1>2, <1>3, <1>4, Zenon DEF Next

LEMMA Initially == Init => IInv
<1> SUFFICES ASSUME Init PROVE IInv
  OBVIOUS
<1> USE DEF Init, None, Db
<1>1. MaxNow \in Nat
  BY TrivyDbAssumption DEF TrivyDbAssumption
<1>2. TypeOK /\ RegistryIsOnTime
  <2>1. 0 \in 0 .. MaxNow /\ 0 \in 0 .. MaxNow + 1
    BY <1>1
  <2>2. /\ now \in 0 .. MaxNow /\ published \in Db /\ RegistryIsOnTime
        /\ db \in Db \cup {None} /\ newest \in Db \cup {None}
    BY <2>1 DEF RegistryIsOnTime
  <2>3. /\ staging \in [Updaters -> Db \cup {None}] /\ backup \in [Updaters -> Db \cup {None}]
        /\ checked \in [Scans -> Db \cup {None}] /\ used \in [Scans -> Db \cup {None}]
    OBVIOUS
  <2>4. /\ upc \in [Updaters -> {"idle", "locked", "staged", "downloaded", "swapping", "cleaning",
                                 "restored", "removed"}]
        /\ spc \in [Scans -> {"idle", "found", "checked", "reading", "failed"}]
        /\ lock \in BOOLEAN /\ stopped \subseteq Updaters /\ lost \in BOOLEAN /\ stale \in BOOLEAN
    OBVIOUS
  <2> QED BY <2>2, <2>3, <2>4 DEF TypeOK
<1>3. OneUpdater /\ BackupWhileSwapping /\ MovedByStopped /\ InPlace
  BY DEF OneUpdater, Active, BackupWhileSwapping, MovedByStopped, InPlace
<1>4. ChecksAreOld /\ UsedIsNoOlder
  BY DEF ChecksAreOld, UsedIsNoOlder
<1> QED BY <1>2, <1>3, <1>4 DEF IInv

LEMMA Invariance == Spec => []IInv
<1>1. IInv /\ [Next]_vars => IInv'
  BY Typing, LockExcludes, BackupStays, MovedByStoppedStays, NewestStays, ChecksStayOld, UsedStays, Zenon DEF IInv
<1> QED BY <1>1, Initially, PTL DEF Spec

-----------------------------------------------------------------------------

\* Type correctness of the updater and of the scans that read its database
\* (update-trivy-db.sh, scanners.go).
THEOREM TrivyDbTyped == Spec => []TypeOK
<1>1. IInv => TypeOK
  BY DEF IInv
<1> QED BY <1>1, Invariance, PTL

(***************************************************************************)
(* However many updates are started, fail, are killed or have their stale  *)
(* lock removed, at most one of them writes, and it holds the lock         *)
(* (update-trivy-db.sh:15-17).                                             *)
(***************************************************************************)
THEOREM OneWriter == Spec => []OneUpdater
<1>1. IInv => OneUpdater
  BY DEF IInv
<1> QED BY <1>1, Invariance, PTL

(***************************************************************************)
(* One failure or signal in an update, its cleanup included, never costs   *)
(* the newest database.  A kill between the renames or a second failure    *)
(* before it is back does, until the next update that installs             *)
(* (update-trivy-db.sh:20-34).                                             *)
(***************************************************************************)
THEOREM NoUpdateLosesTheDatabase == Spec => []NewestIsInPlace
<1>1. IInv => NewestIsInPlace
  BY DEF IInv, InPlace, NewestIsInPlace
<1> QED BY <1>1, Invariance, PTL

(***************************************************************************)
(* A scan never reads a database older than the one whose age it checked,  *)
(* kills and restored backups included (scanners.go:66-81).                *)
(***************************************************************************)
THEOREM ChecksOutliveUpdates == Spec => []UsedIsNoOlder
<1>1. IInv => UsedIsNoOlder
  BY DEF IInv
<1> QED BY <1>1, Invariance, PTL
=============================================================================
