---------------------------- MODULE SettingsStore ----------------------------
(***************************************************************************)
(* SettingsService and its file.  save writes a temp file, moves the       *)
(* current file to a backup, installs the new one and removes the backup;  *)
(* load and save first repair what an interrupted save left behind.  Any   *)
(* file operation may fail, and the process may crash between any two.     *)
(*                                                                         *)
(* All values of the service together are one version; a missing file is   *)
(* the version None.  The crash is one of the process: what it renamed     *)
(* and wrote before is on the disk.                                        *)
(*                                                                         *)
(* An operator right above another one and named after it is a wrong       *)
(* variant of it, kept to show which property would notice.                *)
(***************************************************************************)
EXTENDS Naturals

CONSTANTS
  Threads,       (* clones of the service                                   *)
  MaxVersion,    (* bound: changes of the values                            *)
  MaxCrashes,    (* bound                                                   *)
  IoFails,       (* file operations fail by themselves, too                 *)
  None, Torn     (* no file, a file half written                            *)

ASSUME BoundAssumption == MaxVersion \in Nat /\ MaxCrashes \in Nat /\ IoFails \in BOOLEAN

Versions == 0 .. MaxVersion
ASSUME FileAssumption ==
  /\ None \notin Versions /\ Torn \notin Versions /\ None # Torn
  /\ None \notin Threads
Files == {"target", "backup", "temp"}

VARIABLES
  disk,                    (* what each file holds                          *)
  value, dirty, loaded,    (* SettingsState: values, dirty, path is set     *)
  lock,                    (* the thread that holds the write lock          *)
  pc, op,                  (* where each thread stands in load or save      *)
  seen,                    (* the files its repair found                    *)
  had,                     (* had_target                                    *)
  item,                    (* json of a save, content of a load             *)
  version, crashes,        (* the last version made, crashes so far         *)
  durable,                 (* history: versions the disk may have to hold   *)
  before, last             (* history: the version before a save, its end   *)

memory  == <<value, dirty, loaded>>
local   == <<op, seen, had, item>>
bounds  == <<version, crashes>>
history == <<durable, before, last>>
vars == <<disk, memory, lock, pc, local, bounds, history>>

Init ==
  /\ \E v \in {None, 0} : disk = [f \in Files |-> IF f = "target" THEN v ELSE None]
  /\ value = None /\ dirty = FALSE /\ loaded = FALSE /\ lock = None
  /\ pc = [t \in Threads |-> "idle"] /\ op = [t \in Threads |-> "none"]
  /\ seen = [t \in Threads |-> {}] /\ had = [t \in Threads |-> FALSE]
  /\ item = [t \in Threads |-> None]
  /\ version = 0 /\ crashes = 0
  /\ durable = {disk["target"]}
  /\ before = [t \in Threads |-> None] /\ last = [t \in Threads |-> "none"]

(* What the next load finds after its repair.                               *)
Survivor == IF disk["target"] # None THEN disk["target"] ELSE disk["backup"]

Go(t, next) == pc' = [pc EXCEPT ![t] = next]
-----------------------------------------------------------------------------
(* One file operation: it works, or it fails and changes nothing.           *)

Inspect(t, from, f, next) ==
  /\ pc[t] = from
  /\ \/ /\ seen' = [seen EXCEPT ![t] = IF disk[f] = None THEN @ ELSE @ \cup {f}]
        /\ Go(t, next)
     \/ IoFails /\ UNCHANGED seen /\ Go(t, "failed")
  /\ UNCHANGED <<disk, memory, lock, op, had, item, bounds, history>>

Remove(t, f, good, bad) ==
  /\ \/ disk[f] # None /\ disk' = [disk EXCEPT ![f] = None] /\ Go(t, good)
     \/ (IoFails \/ disk[f] = None) /\ UNCHANGED disk /\ Go(t, bad)
  /\ UNCHANGED <<memory, lock, local, bounds, history>>

Rename(t, f, g, good, bad) ==
  /\ \/ disk[f] # None /\ disk' = [disk EXCEPT ![g] = disk[f], ![f] = None] /\ Go(t, good)
     \/ (IoFails \/ disk[f] = None) /\ UNCHANGED disk /\ Go(t, bad)
  /\ UNCHANGED <<memory, lock, local, bounds, history>>

Skip(t, next) ==
  Go(t, next) /\ UNCHANGED <<disk, memory, lock, local, bounds, history>>
-----------------------------------------------------------------------------
(* set, remove and clear, whenever they change anything.                    *)
Change ==
  /\ lock = None /\ version < MaxVersion
  /\ version' = version + 1 /\ value' = version + 1 /\ dirty' = TRUE
  /\ UNCHANGED <<disk, loaded, lock, pc, local, crashes, history>>

SaveBegin(t) ==
  /\ pc[t] = "idle" /\ lock = None /\ dirty /\ loaded
  /\ lock' = t /\ Go(t, "seeTarget")
  /\ op' = [op EXCEPT ![t] = "save"] /\ item' = [item EXCEPT ![t] = value]
  /\ seen' = [seen EXCEPT ![t] = {}]
  /\ durable' = durable \cup {value} /\ before' = [before EXCEPT ![t] = Survivor]
  /\ last' = [last EXCEPT ![t] = "none"]
  /\ UNCHANGED <<disk, memory, had, bounds>>

(* load holds no lock until it commits.                                     *)
LoadBegin(t) ==
  /\ pc[t] = "idle" /\ Go(t, "seeTarget")
  /\ op' = [op EXCEPT ![t] = "load"] /\ seen' = [seen EXCEPT ![t] = {}]
  /\ last' = [last EXCEPT ![t] = "none"]
  /\ UNCHANGED <<disk, memory, lock, had, item, bounds, durable, before>>

(* recover_interrupted_settings_save.                                       *)
AfterRepair(t) == IF op[t] = "save" THEN "create" ELSE "exists"

StaleBackupAlways(t) == TRUE
StaleBackup(t) == "target" \in seen[t]

TempFoundNever(t) == FALSE
TempFound(t) == "temp" \in seen[t]

Repair(t) ==
  \/ Inspect(t, "seeTarget", "target", "seeBackup")
  \/ Inspect(t, "seeBackup", "backup", "seeTemp")
  \/ Inspect(t, "seeTemp", "temp", "repairBackup")
  \/ /\ pc[t] = "repairBackup"
     /\ IF "backup" \notin seen[t] THEN Skip(t, "repairTemp")
        ELSE IF StaleBackup(t) THEN Remove(t, "backup", "repairTemp", "failed")
        ELSE Rename(t, "backup", "target", "repairTemp", "failed")
  \/ /\ pc[t] = "repairTemp"
     /\ IF TempFound(t) THEN Remove(t, "temp", AfterRepair(t), "failed")
        ELSE Skip(t, AfterRepair(t))

(* write_settings_temp: create_new, then write and sync.                    *)
CreateTemp(t) ==
  /\ pc[t] = "create"
  /\ \/ disk["temp"] = None /\ disk' = [disk EXCEPT !["temp"] = Torn] /\ Go(t, "write")
     \/ (IoFails \/ disk["temp"] # None) /\ UNCHANGED disk /\ Go(t, "failed")
  /\ UNCHANGED <<memory, lock, local, bounds, history>>

Unsynced == "cleanup"

WriteTemp(t) ==
  /\ pc[t] = "write"
  /\ \/ /\ disk' = [disk EXCEPT !["temp"] = IF @ = None THEN None ELSE item[t]]
        /\ Go(t, "checkTarget")
     \/ IoFails /\ UNCHANGED disk /\ Go(t, Unsynced)
  /\ UNCHANGED <<memory, lock, local, bounds, history>>

(* replace_settings_file.                                                   *)
CheckTarget(t) ==
  /\ pc[t] = "checkTarget"
  /\ \/ /\ had' = [had EXCEPT ![t] = disk["target"] # None]
        /\ Go(t, IF had'[t] THEN "toBackup" ELSE "install")
     \/ IoFails /\ UNCHANGED had /\ Go(t, "cleanup")
  /\ UNCHANGED <<disk, memory, lock, op, seen, item, bounds, history>>

Replace(t) ==
  \/ pc[t] = "toBackup" /\ Rename(t, "target", "backup", "install", "cleanup")
  \/ /\ pc[t] = "install"
     /\ Rename(t, "temp", "target", IF had[t] THEN "unbackup" ELSE "saved",
               IF had[t] THEN "restore" ELSE "cleanup")
  \/ pc[t] = "restore" /\ Rename(t, "backup", "target", "cleanup", "failed")
  \/ pc[t] = "unbackup" /\ Remove(t, "backup", "saved", "failed")
  \/ pc[t] = "cleanup" /\ Remove(t, "temp", "failed", "failed")

SaveEnds(t) ==
  /\ pc[t] = "saved" /\ Go(t, "idle") /\ lock' = None
  /\ dirty' = FALSE /\ durable' = {item[t]}
  /\ last' = [last EXCEPT ![t] = "ok"]
  /\ UNCHANGED <<disk, value, loaded, local, bounds, before>>

DirtyAfterFailureLost == FALSE
DirtyAfterFailure == dirty

Fails(t) ==
  /\ pc[t] = "failed" /\ Go(t, "idle")
  /\ lock' = (IF lock = t THEN None ELSE lock)
  /\ dirty' = IF op[t] = "save" THEN DirtyAfterFailure ELSE dirty
  /\ last' = [last EXCEPT ![t] = IF op[t] = "save" THEN "saveFailed" ELSE "loadFailed"]
  /\ UNCHANGED <<disk, value, loaded, local, bounds, durable, before>>

LoadFind(t) ==
  /\ pc[t] = "exists"
  /\ \/ disk["target"] = None /\ item' = [item EXCEPT ![t] = None] /\ Go(t, "commit")
     \/ disk["target"] # None /\ UNCHANGED item /\ Go(t, "read")
     \/ IoFails /\ UNCHANGED item /\ Go(t, "failed")
  /\ UNCHANGED <<disk, memory, lock, op, seen, had, bounds, history>>

LoadRead(t) ==
  /\ pc[t] = "read"
  /\ \/ /\ disk["target"] # None
        /\ item' = [item EXCEPT ![t] = disk["target"]] /\ Go(t, "commit")
     \/ (IoFails \/ disk["target"] = None) /\ UNCHANGED item /\ Go(t, "failed")
  /\ UNCHANGED <<disk, memory, lock, op, seen, had, bounds, history>>

LoadCommit(t) ==
  /\ pc[t] = "commit" /\ lock = None /\ Go(t, "idle")
  /\ value' = item[t] /\ dirty' = FALSE /\ loaded' = TRUE
  /\ UNCHANGED <<disk, lock, local, bounds, history>>

Crash ==
  /\ crashes < MaxCrashes /\ crashes' = crashes + 1
  /\ pc' = [t \in Threads |-> "idle"] /\ lock' = None
  /\ value' = None /\ dirty' = FALSE /\ loaded' = FALSE
  /\ last' = [t \in Threads |-> "none"]
  /\ UNCHANGED <<disk, local, version, durable, before>>

Next ==
  \/ Change \/ Crash
  \/ \E t \in Threads :
       \/ SaveBegin(t) \/ LoadBegin(t) \/ Repair(t) \/ CreateTemp(t) \/ WriteTemp(t)
       \/ CheckTarget(t) \/ Replace(t) \/ SaveEnds(t) \/ Fails(t)
       \/ LoadFind(t) \/ LoadRead(t) \/ LoadCommit(t)

Spec == Init /\ [][Next]_vars
-----------------------------------------------------------------------------
(* Properties.                                                             *)

Steps ==
  {"idle", "seeTarget", "seeBackup", "seeTemp", "repairBackup", "repairTemp",
   "create", "write", "checkTarget", "toBackup", "install", "restore", "unbackup",
   "cleanup", "saved", "failed", "exists", "read", "commit"}

(* Types; only the temp file is ever half written, and only the lock's      *)
(* holder saves.                                                            *)
TypeOK ==
  /\ disk \in [Files -> Versions \cup {None, Torn}]
  /\ Torn \notin {disk["target"], disk["backup"]}
  /\ value \in Versions \cup {None} /\ dirty \in BOOLEAN /\ loaded \in BOOLEAN
  /\ lock \in Threads \cup {None}
  /\ \A t \in Threads : lock = t <=> pc[t] # "idle" /\ op[t] = "save"
  /\ pc \in [Threads -> Steps] /\ op \in [Threads -> {"none", "save", "load"}]
  /\ seen \in [Threads -> SUBSET Files] /\ had \in [Threads -> BOOLEAN]
  /\ item \in [Threads -> Versions \cup {None}]
  /\ version \in Versions /\ durable \in SUBSET (Versions \cup {None})

(* Wherever a step fails or the process crashes, again and again, the next  *)
(* load finds the version last saved or one whose save was begun since.     *)
NothingLost == Survivor \in durable

(* What an earlier save left behind never stands in the way of a save.      *)
StaleTempNeverBlocks == \A t \in Threads : pc[t] = "create" => disk["temp"] = None

(* A service that is not dirty holds what a restart would load.             *)
CleanMeansSaved ==
  loaded /\ ~dirty /\ (\A t \in Threads : pc[t] = "idle") => value = Survivor

(* The comment of replace_settings_file: whatever step fails, a version is  *)
(* kept or restored; a save that a load overlaps may fail, but some version *)
(* is still there.                                                          *)
FailedSaveKeepsSome ==
  \A t \in Threads : last[t] = "saveFailed" /\ before[t] # None => Survivor # None
=============================================================================
