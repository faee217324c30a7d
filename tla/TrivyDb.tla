------------------------------- MODULE TrivyDb -------------------------------
(***************************************************************************)
(* The vulnerability database of Trivy on disk: runs of                    *)
(* scripts/update-trivy-db.sh, which replace it under a lock directory by  *)
(* two renames, and the scans that check it (trivy_db.go) and then start a *)
(* container that reads it (scanners.go:runTrivy).  An update may fail at  *)
(* every command, be told to stop at any time, or be killed.               *)
(***************************************************************************)
EXTENDS Integers

CONSTANTS
  Updaters,   \* runs of the script that may overlap
  Scans,      \* scans that may overlap with them
  MaxAge,     \* the age at which a scan rejects a database: 24 hours
  NextAfter,  \* a database's NextUpdate is that much after its UpdatedAt
  MaxNow      \* bound on the clock

ASSUME TrivyDbAssumption == {MaxAge, NextAfter, MaxNow} \subseteq Nat

VARIABLES
  now,        \* the clock
  published,  \* UpdatedAt of the database the registry serves
  db,         \* UpdatedAt of <cache>/db, None when there is no such directory
  lock,       \* <cache>/.update-lock exists
  upc,        \* where each update is
  staging,    \* <staging>/db of each update
  backup,     \* <staging>/previous-db of each update
  newest,     \* the last database that was installed (history)
  stopped,    \* the updates that a failure or a signal sent to their cleanup (history)
  lost,       \* one ended with the database moved away, and none installed since (history)
  stale,      \* one ended without its last command, the lock not removed since (history)
  spc,        \* where each scan is
  checked,    \* the database whose metadata a scan accepted
  used        \* the database its container opened

diskVars == <<db, lock>>
runVars  == <<upc, staging, backup>>
pastVars == <<newest, stopped, lost, stale>>
scanVars == <<spc, checked, used>>
vars     == <<now, published, diskVars, runVars, pastVars, scanVars>>

None == -1
Db   == 0 .. MaxNow + 1

TypeOK ==
  /\ now \in 0 .. MaxNow
  /\ published \in Db
  /\ db \in Db \cup {None}
  /\ lock \in BOOLEAN
  /\ upc \in [Updaters -> {"idle", "locked", "staged", "downloaded", "swapping", "cleaning",
                           "restored", "removed"}]
  /\ staging \in [Updaters -> Db \cup {None}]
  /\ backup \in [Updaters -> Db \cup {None}]
  /\ newest \in Db \cup {None}
  /\ stopped \subseteq Updaters
  /\ lost \in BOOLEAN
  /\ stale \in BOOLEAN
  /\ spc \in [Scans -> {"idle", "found", "checked", "reading", "failed"}]
  /\ checked \in [Scans -> Db \cup {None}]
  /\ used \in [Scans -> Db \cup {None}]

Init ==
  /\ now = 0
  /\ published = 0
  /\ db \in {None, 0}
  /\ lock = FALSE
  /\ upc = [u \in Updaters |-> "idle"]
  /\ staging = [u \in Updaters |-> None]
  /\ backup = [u \in Updaters |-> None]
  /\ newest = db
  /\ stopped = {}
  /\ lost = FALSE
  /\ stale = FALSE
  /\ spc = [s \in Scans |-> "idle"]
  /\ checked = [s \in Scans |-> None]
  /\ used = [s \in Scans |-> None]

Tick ==
  /\ now < MaxNow
  /\ now' = now + 1
  /\ UNCHANGED <<published, diskVars, runVars, pastVars, scanVars>>

\* The registry moves on to a newer database; its clock may be a little ahead.
Publish ==
  /\ \E made \in {now, now + 1} : made > published /\ published' = made
  /\ UNCHANGED <<now, diskVars, runVars, pastVars, scanVars>>

-----------------------------------------------------------------------------

GoTo(u, pc) == upc' = [upc EXCEPT ![u] = pc]

\* Mutant: the test and the creation of the lock are two commands.
LockUnchecked(u) ==
  /\ upc[u] = "idle"
  /\ lock' = TRUE
  /\ GoTo(u, "locked")
  /\ stopped' = stopped \ {u}
  /\ UNCHANGED <<now, published, db, staging, backup, newest, lost, stale, scanVars>>

\* mkdir "$lock".  Another update's directory ends this one, with no effect.
Lock(u) ==
  /\ upc[u] = "idle"
  /\ ~lock
  /\ lock' = TRUE
  /\ GoTo(u, "locked")
  /\ stopped' = stopped \ {u}
  /\ UNCHANGED <<now, published, db, staging, backup, newest, lost, stale, scanVars>>

\* mktemp, and the traps are set.
MakeStaging(u) ==
  /\ upc[u] = "locked"
  /\ GoTo(u, "staged")
  /\ UNCHANGED <<now, published, diskVars, staging, backup, pastVars, scanVars>>

\* Pull, download, and the check that both files are there and not empty.
Download(u) ==
  /\ upc[u] = "staged"
  /\ GoTo(u, "downloaded")
  /\ staging' = [staging EXCEPT ![u] = published]
  /\ UNCHANGED <<now, published, diskVars, backup, pastVars, scanVars>>

\* The first rename moves the installed database out of the way.
Backup(u) ==
  /\ upc[u] = "downloaded"
  /\ GoTo(u, "swapping")
  /\ backup' = [backup EXCEPT ![u] = db]
  /\ db' = None
  /\ UNCHANGED <<now, published, lock, staging, pastVars, scanVars>>

\* The second one installs the new database.
Install(u) ==
  /\ upc[u] = "swapping"
  /\ GoTo(u, "cleaning")
  /\ db' = staging[u]
  /\ newest' = staging[u]
  /\ staging' = [staging EXCEPT ![u] = None]
  /\ lost' = FALSE
  /\ UNCHANGED <<now, published, lock, backup, stopped, stale, scanVars>>

\* Mutant: a signal ends the script where it is.
StopWithoutTrap(u) ==
  /\ upc[u] \in {"staged", "downloaded", "swapping"}
  /\ GoTo(u, "stopped")
  /\ stopped' = stopped \cup {u}
  /\ UNCHANGED <<now, published, diskVars, staging, backup, newest, lost, stale, scanVars>>

\* A command fails, or HUP, INT or TERM arrives: the trap on EXIT runs.
Stop(u) ==
  /\ upc[u] \in {"staged", "downloaded", "swapping"}
  /\ GoTo(u, "cleaning")
  /\ stopped' = stopped \cup {u}
  /\ UNCHANGED <<now, published, diskVars, staging, backup, newest, lost, stale, scanVars>>

\* Mutant: the backup goes back whether or not there is a new database.
RestoreAlways(u) ==
  /\ upc[u] = "cleaning"
  /\ GoTo(u, "restored")
  /\ IF backup[u] # None
     THEN db' = backup[u] /\ backup' = [backup EXCEPT ![u] = None]
     ELSE UNCHANGED <<db, backup>>
  /\ UNCHANGED <<now, published, lock, staging, pastVars, scanVars>>

\* The installed database is in the staging directory, and there is no other.
MovedAway(u) == backup[u] # None /\ db = None

\* cleanup, first command: without a new database the old one goes back.
Restore(u) ==
  /\ upc[u] = "cleaning"
  /\ GoTo(u, "restored")
  /\ IF MovedAway(u)
     THEN db' = backup[u] /\ backup' = [backup EXCEPT ![u] = None]
     ELSE UNCHANGED <<db, backup>>
  /\ UNCHANGED <<now, published, lock, staging, pastVars, scanVars>>

\* Mutant: the staging directory is removed and the lock stays.
RemoveAndEnd(u) ==
  /\ upc[u] = "restored"
  /\ GoTo(u, "idle")
  /\ staging' = [staging EXCEPT ![u] = None]
  /\ backup' = [backup EXCEPT ![u] = None]
  /\ UNCHANGED <<now, published, diskVars, pastVars, scanVars>>

\* cleanup, second command.
RemoveStaging(u) ==
  /\ upc[u] = "restored"
  /\ GoTo(u, "removed")
  /\ staging' = [staging EXCEPT ![u] = None]
  /\ backup' = [backup EXCEPT ![u] = None]
  /\ UNCHANGED <<now, published, diskVars, pastVars, scanVars>>

\* cleanup, last command.
Unlock(u) ==
  /\ upc[u] = "removed"
  /\ lock' = FALSE
  /\ GoTo(u, "idle")
  /\ UNCHANGED <<now, published, db, staging, backup, pastVars, scanVars>>

\* The script ends where it is, and the lock stays.  The next run has a staging
\* directory of its own, so what is left in this one is out of reach.
EndHere(u) ==
  /\ GoTo(u, "idle")
  /\ staging' = [staging EXCEPT ![u] = None]
  /\ backup' = [backup EXCEPT ![u] = None]
  /\ stale' = TRUE
  /\ UNCHANGED <<now, published, diskVars, newest, stopped, scanVars>>

\* mktemp fails, or a signal arrives, before there are traps.
StopEarly(u) ==
  /\ upc[u] = "locked"
  /\ EndHere(u)
  /\ UNCHANGED lost

\* A command of cleanup fails (set -e), or a signal arrives while it runs: the
\* trap of the signal exits, and the rest of cleanup is skipped.
AbortCleanup(u) ==
  /\ upc[u] \in {"cleaning", "restored", "removed"}
  /\ EndHere(u)
  /\ lost' = (lost \/ (MovedAway(u) /\ u \in stopped))

\* SIGKILL or a crash: no trap runs.
Kill(u) ==
  /\ upc[u] # "idle"
  /\ EndHere(u)
  /\ lost' = (lost \/ MovedAway(u))

\* "inspect .update-lock if a previous update crashed": somebody removes it.
ClearLock ==
  /\ lock
  /\ \A u \in Updaters : upc[u] = "idle"
  /\ lock' = FALSE
  /\ stale' = FALSE
  /\ UNCHANGED <<now, published, db, runVars, newest, stopped, lost, scanVars>>

\* The commands on files.
FileCommand(u) == MakeStaging(u) \/ Backup(u) \/ Install(u) \/ Restore(u) \/ RemoveStaging(u)
                    \/ Unlock(u)

EndsEarly(u) == Stop(u) \/ StopEarly(u) \/ AbortCleanup(u) \/ Kill(u)

-----------------------------------------------------------------------------

\* The conditions of validateTrivyDB on the metadata.
Valid(made) ==
  /\ made <= now
  /\ now - made <= MaxAge
  /\ made + NextAfter > now

\* validateTrivyDB looks for the database first and reads its metadata then.
FindDb(s) ==
  /\ spc[s] = "idle"
  /\ spc' = [spc EXCEPT ![s] = IF db # None THEN "found" ELSE "failed"]
  /\ UNCHANGED <<now, published, diskVars, runVars, pastVars, checked, used>>

CheckDb(s) ==
  /\ spc[s] = "found"
  /\ IF db # None /\ Valid(db)
     THEN spc' = [spc EXCEPT ![s] = "checked"] /\ checked' = [checked EXCEPT ![s] = db]
     ELSE spc' = [spc EXCEPT ![s] = "failed"] /\ UNCHANGED checked
  /\ UNCHANGED <<now, published, diskVars, runVars, pastVars, used>>

\* The container opens what it finds in the mounted directory, or fails.
OpenDb(s) ==
  /\ spc[s] = "checked"
  /\ IF db # None
     THEN spc' = [spc EXCEPT ![s] = "reading"] /\ used' = [used EXCEPT ![s] = db]
     ELSE spc' = [spc EXCEPT ![s] = "failed"] /\ UNCHANGED used
  /\ UNCHANGED <<now, published, diskVars, runVars, pastVars, checked>>

\* The next scan.
EndScan(s) ==
  /\ spc[s] \in {"reading", "failed"}
  /\ spc' = [spc EXCEPT ![s] = "idle"]
  /\ checked' = [checked EXCEPT ![s] = None]
  /\ used' = [used EXCEPT ![s] = None]
  /\ UNCHANGED <<now, published, diskVars, runVars, pastVars>>

Next ==
  \/ Tick
  \/ Publish
  \/ ClearLock
  \/ \E u \in Updaters : Lock(u) \/ FileCommand(u) \/ Download(u) \/ EndsEarly(u)
  \/ \E s \in Scans : FindDb(s) \/ CheckDb(s) \/ OpenDb(s) \/ EndScan(s)

\* The commands on files end.  Pull and download have no timeout, and nobody has
\* to remove a stale lock.
Fairness == \A u \in Updaters : WF_vars(FileCommand(u))

Spec == Init /\ [][Next]_vars /\ Fairness

-----------------------------------------------------------------------------

Active == {u \in Updaters : upc[u] # "idle"}

(***************************************************************************)
(* The lock serializes the writers, also over crashes and over somebody    *)
(* removing the lock of a crashed update (update-trivy-db.sh:15-17).       *)
(***************************************************************************)
OneUpdater == \A u, v \in Active : u = v /\ lock

(***************************************************************************)
(* One failing command or one signal, at any point and in the cleanup too, *)
(* leaves the newest database that was ever installed: the update's own,   *)
(* or the one that was there before.  To lose it takes a kill between the  *)
(* renames, or a second failure or signal before the first command of the  *)
(* cleanup has put it back; from the next update that installs this holds  *)
(* again (update-trivy-db.sh:20-34).                                       *)
(***************************************************************************)
NewestIsInPlace == Active = {} /\ ~lost => db = newest

(***************************************************************************)
(* A scan checks the database and uses it later: what its container opens  *)
(* is never older than what was checked, whatever updates did in between   *)
(* (scanners.go:66-81).                                                    *)
(***************************************************************************)
UsedIsNoOlder == \A s \in Scans : spc[s] = "reading" => used[s] >= checked[s]

(***************************************************************************)
(* Once the download is over, however it and the swap went, the update     *)
(* gives the lock back, or it ended before it could: killed, stopped       *)
(* before it had traps, or stopped in its cleanup, where a failing command *)
(* or a signal skips what is left of it (update-trivy-db.sh:17-26).        *)
(***************************************************************************)
LockIsReleased ==
  lock ~> (~lock \/ stale \/ \E u \in Updaters : upc[u] = "staged")
=============================================================================
