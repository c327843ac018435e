------------------------ MODULE SettingsStore_proofs ------------------------
(***************************************************************************)
(* SettingsStore loses no saved version, for any number of changes and     *)
(* crashes, as long as one thread at a time uses the service.  (A load     *)
(* that overlaps a save does lose it.)                                     *)
(***************************************************************************)
EXTENDS SettingsStore, TLAPS

OneThread == \A t, u \in Threads : t = u

(* What a repair has found is still so when it acts.                        *)
FoundInv(t) ==
  /\ pc[t] = "seeTarget" => seen[t] = {}
  /\ pc[t] = "seeBackup" => "backup" \notin seen[t]
  /\ pc[t] \in {"seeBackup", "seeTemp"} => "temp" \notin seen[t]
  /\ pc[t] \in {"seeBackup", "seeTemp", "repairBackup"} =>
       ("target" \in seen[t] <=> disk["target"] # None)
  /\ pc[t] \in {"seeTemp", "repairBackup"} =>
       ("backup" \in seen[t] <=> disk["backup"] # None)
  /\ pc[t] \in {"repairBackup", "repairTemp"} =>
       ("temp" \in seen[t] <=> disk["temp"] # None)

(* The files at each step of a save, and what a load is about to commit.    *)
FilesInv(t) ==
  /\ pc[t] \in {"repairTemp", "create", "write", "checkTarget", "toBackup", "exists",
                "read", "commit"} => disk["backup"] = None
  /\ pc[t] = "create" => disk["temp"] = None
  /\ pc[t] = "write" => disk["temp"] = Torn
  /\ pc[t] \in {"checkTarget", "toBackup", "install"} => disk["temp"] = item[t]
  /\ pc[t] = "toBackup" => had[t] /\ disk["target"] # None
  /\ pc[t] = "install" => disk["target"] = None /\ (had[t] <=> disk["backup"] # None)
  /\ pc[t] = "restore" => disk["target"] = None /\ disk["backup"] # None
  /\ pc[t] \in {"unbackup", "saved", "commit"} => disk["target"] = item[t]

(* A save writes the values the service holds all the time.                 *)
SaveInv(t) ==
  /\ pc[t] \in {"create", "write", "checkTarget", "toBackup", "install", "restore",
                "unbackup", "cleanup", "saved"} => op[t] = "save"
  /\ pc[t] \in {"exists", "read", "commit"} => op[t] = "load"
  /\ pc[t] # "idle" => op[t] # "none"
  /\ pc[t] # "idle" /\ op[t] = "save" =>
       dirty /\ value = item[t] /\ item[t] \in Versions /\ item[t] \in durable

ThreadInv(t) == FoundInv(t) /\ FilesInv(t) /\ SaveInv(t)

ValueInv ==
  /\ dirty => value \in Versions
  /\ loaded /\ ~dirty => value = Survivor

IInv == TypeOK /\ NothingLost /\ ValueInv /\ \A t \in Threads : ThreadInv(t)
-----------------------------------------------------------------------------
(* With one thread, what holds of it holds of all.                          *)
LEMMA Alone ==
  ASSUME OneThread, NEW t \in Threads, TypeOK', NothingLost', ValueInv', ThreadInv(t)'
  PROVE  IInv'
  BY DEF OneThread, IInv

LEMMA InitIInv == Init => IInv
<1> SUFFICES ASSUME Init PROVE IInv
  OBVIOUS
<1>1. PICK v \in {None, 0} : disk = [f \in Files |-> IF f = "target" THEN v ELSE None]
  BY DEF Init
<1>2. TypeOK
  <2>1. disk \in [Files -> Versions \cup {None, Torn}] /\ Torn \notin {v, None}
    BY <1>1, BoundAssumption, FileAssumption DEF Versions
  <2>2. disk["target"] = v /\ disk["backup"] = None /\ v \in Versions \cup {None}
    BY <1>1, BoundAssumption DEF Files, Versions
  <2>3. seen \in [Threads -> SUBSET Files] /\ had \in [Threads -> BOOLEAN]
    BY DEF Init
  <2>4. pc \in [Threads -> Steps] /\ op \in [Threads -> {"none", "save", "load"}]
    BY DEF Init, Steps
  <2>5. \A t \in Threads : lock = t <=> pc[t] # "idle" /\ op[t] = "save"
    BY FileAssumption DEF Init
  <2>6. item \in [Threads -> Versions \cup {None}] /\ value = None
    BY DEF Init
  <2>7. version \in Versions /\ durable \in SUBSET (Versions \cup {None})
    BY <2>2, BoundAssumption DEF Init, Versions
  <2>8. Torn \notin {disk["target"], disk["backup"]} /\ lock = None
    BY <2>1, <2>2 DEF Init
  <2>9. dirty \in BOOLEAN /\ loaded \in BOOLEAN
    BY DEF Init
  <2> QED
    BY <2>1, <2>3, <2>4, <2>5, <2>6, <2>7, <2>8, <2>9 DEF TypeOK
<1>3. NothingLost /\ ValueInv
  BY <1>1 DEF Init, NothingLost, ValueInv, Survivor, Files
<1>4. \A t \in Threads : ThreadInv(t)
  BY <1>1 DEF Init, ThreadInv, FoundInv, FilesInv, SaveInv
<1> QED
  BY <1>2, <1>3, <1>4 DEF IInv

LEMMA SaveBeginKeeps ==
  ASSUME OneThread, IInv, NEW t \in Threads, SaveBegin(t)
  PROVE  IInv'
<1> USE DEF Go, memory, local, bounds, history, TypeOK,
           Files, ThreadInv, FilesInv, SaveInv
<1>1. TypeOK /\ NothingLost /\ ValueInv /\ ThreadInv(t)
  BY DEF IInv
<1>2. TypeOK'
  BY <1>1, BoundAssumption, FileAssumption
  DEF SaveBegin, OneThread, Versions, Steps
<1>3. NothingLost' /\ ValueInv'
  BY <1>1, FileAssumption DEF SaveBegin, NothingLost, ValueInv, Survivor
<1>4. ThreadInv(t)'
  BY <1>1, FileAssumption DEF SaveBegin, FoundInv, ValueInv
<1> QED
  BY <1>2, <1>3, <1>4, Alone

LEMMA LoadBeginKeeps ==
  ASSUME OneThread, IInv, NEW t \in Threads, LoadBegin(t)
  PROVE  IInv'
<1> USE DEF Go, memory, local, bounds, history, TypeOK,
           Files, ThreadInv, FilesInv, SaveInv
<1>1. TypeOK /\ NothingLost /\ ValueInv /\ ThreadInv(t)
  BY DEF IInv
<1>2. TypeOK'
  BY <1>1, BoundAssumption, FileAssumption
  DEF LoadBegin, OneThread, Versions, Steps
<1>3. NothingLost' /\ ValueInv'
  BY <1>1, FileAssumption DEF LoadBegin, NothingLost, ValueInv, Survivor
<1>4. ThreadInv(t)'
  BY <1>1, FileAssumption DEF LoadBegin, FoundInv, ValueInv
<1> QED
  BY <1>2, <1>3, <1>4, Alone

LEMMA CreateTempKeeps ==
  ASSUME OneThread, IInv, NEW t \in Threads, CreateTemp(t)
  PROVE  IInv'
<1> USE DEF Go, memory, local, bounds, history, TypeOK,
           Files, ThreadInv, FilesInv, SaveInv
<1>1. TypeOK /\ NothingLost /\ ValueInv /\ ThreadInv(t)
  BY DEF IInv
<1>2. TypeOK'
  BY <1>1, BoundAssumption, FileAssumption
  DEF CreateTemp, OneThread, Versions, Steps
<1>3. NothingLost' /\ ValueInv'
  BY <1>1, FileAssumption DEF CreateTemp, NothingLost, ValueInv, Survivor
<1>4. ThreadInv(t)'
  BY <1>1, FileAssumption DEF CreateTemp, FoundInv, ValueInv
<1> QED
  BY <1>2, <1>3, <1>4, Alone

LEMMA WriteTempKeeps ==
  ASSUME OneThread, IInv, NEW t \in Threads, WriteTemp(t)
  PROVE  IInv'
<1> USE DEF Go, memory, local, bounds, history, TypeOK,
           Files, ThreadInv, FilesInv, SaveInv
<1>1. TypeOK /\ NothingLost /\ ValueInv /\ ThreadInv(t)
  BY DEF IInv
<1>2. TypeOK'
  BY <1>1, BoundAssumption, FileAssumption, SMTT(30)
  DEF WriteTemp, Unsynced, OneThread, Versions, Steps
<1>3. NothingLost' /\ ValueInv'
  BY <1>1, FileAssumption DEF WriteTemp, Unsynced, NothingLost, ValueInv, Survivor
<1>4. ThreadInv(t)'
  BY <1>1, FileAssumption DEF WriteTemp, Unsynced, FoundInv, ValueInv
<1> QED
  BY <1>2, <1>3, <1>4, Alone

LEMMA SaveEndsKeeps ==
  ASSUME OneThread, IInv, NEW t \in Threads, SaveEnds(t)
  PROVE  IInv'
<1> USE DEF Go, memory, local, bounds, history, TypeOK,
           Files, ThreadInv, FilesInv, SaveInv
<1>1. TypeOK /\ NothingLost /\ ValueInv /\ ThreadInv(t)
  BY DEF IInv
<1>2. TypeOK'
  <2>1. pc[t] = "saved" /\ pc' = [pc EXCEPT ![t] = "idle"] /\ lock' = None
        /\ pc \in [Threads -> Steps]
    BY <1>1 DEF SaveEnds
  <2>2. pc' \in [Threads -> Steps] /\ pc'[t] = "idle"
    BY <2>1 DEF Steps
  <2>3. \A u \in Threads : u = t
    BY DEF OneThread
  <2>4. \A u \in Threads : lock' = u <=> pc'[u] # "idle" /\ op'[u] = "save"
    BY <2>1, <2>2, <2>3, FileAssumption
  <2>5. durable' \in SUBSET (Versions \cup {None})
    BY <1>1 DEF SaveEnds
  <2>6. last' = [last EXCEPT ![t] = "ok"] /\ dirty' = FALSE
        /\ UNCHANGED <<disk, value, loaded, op, seen, had, item, version, crashes, before>>
    BY DEF SaveEnds
  <2> QED
    BY <1>1, <2>1, <2>2, <2>4, <2>5, <2>6
<1>3. NothingLost' /\ ValueInv'
  BY <1>1, FileAssumption DEF SaveEnds, NothingLost, ValueInv, Survivor
<1>4. ThreadInv(t)'
  BY <1>1, FileAssumption DEF SaveEnds, FoundInv, ValueInv
<1> QED
  BY <1>2, <1>3, <1>4, Alone

LEMMA FailsKeeps ==
  ASSUME OneThread, IInv, NEW t \in Threads, Fails(t)
  PROVE  IInv'
<1> USE DEF Go, memory, local, bounds, history, TypeOK,
           Files, ThreadInv, FilesInv, SaveInv
<1>1. TypeOK /\ NothingLost /\ ValueInv /\ ThreadInv(t)
  BY DEF IInv
<1>2. TypeOK'
  BY <1>1, BoundAssumption, FileAssumption
  DEF Fails, DirtyAfterFailure, OneThread, Versions, Steps
<1>3. NothingLost' /\ ValueInv'
  BY <1>1, FileAssumption DEF Fails, DirtyAfterFailure, NothingLost, ValueInv, Survivor
<1>4. ThreadInv(t)'
  BY <1>1, FileAssumption DEF Fails, DirtyAfterFailure, FoundInv, ValueInv
<1> QED
  BY <1>2, <1>3, <1>4, Alone

LEMMA LoadFindKeeps ==
  ASSUME OneThread, IInv, NEW t \in Threads, LoadFind(t)
  PROVE  IInv'
<1> USE DEF Go, memory, local, bounds, history, TypeOK,
           Files, ThreadInv, FilesInv, SaveInv
<1>1. TypeOK /\ NothingLost /\ ValueInv /\ ThreadInv(t)
  BY DEF IInv
<1>2. TypeOK'
  BY <1>1, BoundAssumption, FileAssumption
  DEF LoadFind, OneThread, Versions, Steps
<1>3. NothingLost' /\ ValueInv'
  BY <1>1, FileAssumption DEF LoadFind, NothingLost, ValueInv, Survivor
<1>4. ThreadInv(t)'
  BY <1>1, FileAssumption DEF LoadFind, FoundInv, ValueInv
<1> QED
  BY <1>2, <1>3, <1>4, Alone

LEMMA LoadReadKeeps ==
  ASSUME OneThread, IInv, NEW t \in Threads, LoadRead(t)
  PROVE  IInv'
<1> USE DEF Go, memory, local, bounds, history, TypeOK,
           Files, ThreadInv, FilesInv, SaveInv
<1>1. TypeOK /\ NothingLost /\ ValueInv /\ ThreadInv(t)
  BY DEF IInv
<1>2. TypeOK'
  BY <1>1, BoundAssumption, FileAssumption
  DEF LoadRead, OneThread, Versions, Steps
<1>3. NothingLost' /\ ValueInv'
  BY <1>1, FileAssumption DEF LoadRead, NothingLost, ValueInv, Survivor
<1>4. ThreadInv(t)'
  BY <1>1, FileAssumption DEF LoadRead, FoundInv, ValueInv
<1> QED
  BY <1>2, <1>3, <1>4, Alone

LEMMA LoadCommitKeeps ==
  ASSUME OneThread, IInv, NEW t \in Threads, LoadCommit(t)
  PROVE  IInv'
<1> USE DEF Go, memory, local, bounds, history, TypeOK,
           Files, ThreadInv, FilesInv, SaveInv
<1>1. TypeOK /\ NothingLost /\ ValueInv /\ ThreadInv(t)
  BY DEF IInv
<1>2. TypeOK'
  BY <1>1, BoundAssumption, FileAssumption
  DEF LoadCommit, OneThread, Versions, Steps
<1>3. NothingLost' /\ ValueInv'
  BY <1>1, FileAssumption DEF LoadCommit, NothingLost, ValueInv, Survivor
<1>4. ThreadInv(t)'
  BY <1>1, FileAssumption DEF LoadCommit, FoundInv, ValueInv
<1> QED
  BY <1>2, <1>3, <1>4, Alone

(* A step between the begin of a load or a save and its end.                *)
LEMMA StepType ==
  ASSUME OneThread, TypeOK, NEW t \in Threads, pc[t] # "idle",
         disk' \in [Files -> Versions \cup {None, Torn}],
         Torn \notin {disk'["target"], disk'["backup"]},
         pc' \in [Threads -> Steps], pc'[t] # "idle",
         seen' \in [Threads -> SUBSET Files],
         UNCHANGED <<value, dirty, loaded, lock, op, had, item, version, durable>>
  PROVE  TypeOK'
  BY DEF TypeOK, OneThread

LEMMA ReplaceKeeps ==
  ASSUME OneThread, IInv, NEW t \in Threads, Replace(t)
  PROVE  IInv'
<1> USE DEF Go, memory, local, bounds, history, TypeOK, Files,
           ThreadInv, FoundInv, FilesInv, SaveInv,
           Replace, Rename, Remove
<1>1. TypeOK /\ NothingLost /\ ValueInv /\ ThreadInv(t)
  BY DEF IInv
<1>2. CASE pc[t] = "toBackup" /\ Replace(t)
  <2>1. disk' \in [Files -> Versions \cup {None, Torn}]
    BY <1>1, <1>2
  <2>2. Torn \notin {disk'["target"], disk'["backup"]}
    BY <1>1, <1>2, FileAssumption
  <2>3. /\ pc' \in [Threads -> Steps] /\ pc'[t] # "idle"
        /\ seen' \in [Threads -> SUBSET Files]
    BY <1>1, <1>2 DEF Steps
  <2>4. TypeOK'
    BY <1>1, <1>2, <2>1, <2>2, <2>3, StepType
  <2>5. NothingLost' /\ ValueInv'
    BY <1>1, <1>2, FileAssumption DEF NothingLost, ValueInv, Survivor
  <2>6. ThreadInv(t)'
    BY <1>1, <1>2, FileAssumption DEF ValueInv
  <2> QED
    BY <2>4, <2>5, <2>6, Alone
<1>3. CASE pc[t] = "install" /\ Replace(t)
  <2>1. disk' \in [Files -> Versions \cup {None, Torn}]
    BY <1>1, <1>3
  <2>2. Torn \notin {disk'["target"], disk'["backup"]}
    BY <1>1, <1>3, FileAssumption
  <2>3. /\ pc' \in [Threads -> Steps] /\ pc'[t] # "idle"
        /\ seen' \in [Threads -> SUBSET Files]
    BY <1>1, <1>3 DEF Steps
  <2>4. TypeOK'
    BY <1>1, <1>3, <2>1, <2>2, <2>3, StepType
  <2>5. NothingLost' /\ ValueInv'
    BY <1>1, <1>3, FileAssumption DEF NothingLost, ValueInv, Survivor
  <2>6. ThreadInv(t)'
    BY <1>1, <1>3, FileAssumption DEF ValueInv
  <2> QED
    BY <2>4, <2>5, <2>6, Alone
<1>4. CASE pc[t] = "restore" /\ Replace(t)
  <2>1. disk' \in [Files -> Versions \cup {None, Torn}]
    BY <1>1, <1>4
  <2>2. Torn \notin {disk'["target"], disk'["backup"]}
    BY <1>1, <1>4, FileAssumption
  <2>3. /\ pc' \in [Threads -> Steps] /\ pc'[t] # "idle"
        /\ seen' \in [Threads -> SUBSET Files]
    BY <1>1, <1>4 DEF Steps
  <2>4. TypeOK'
    BY <1>1, <1>4, <2>1, <2>2, <2>3, StepType
  <2>5. NothingLost' /\ ValueInv'
    BY <1>1, <1>4, FileAssumption DEF NothingLost, ValueInv, Survivor
  <2>6. ThreadInv(t)'
    BY <1>1, <1>4, FileAssumption DEF ValueInv
  <2> QED
    BY <2>4, <2>5, <2>6, Alone
<1>5. CASE pc[t] = "unbackup" /\ Replace(t)
  <2>1. disk' \in [Files -> Versions \cup {None, Torn}]
    BY <1>1, <1>5
  <2>2. Torn \notin {disk'["target"], disk'["backup"]}
    BY <1>1, <1>5, FileAssumption
  <2>3. /\ pc' \in [Threads -> Steps] /\ pc'[t] # "idle"
        /\ seen' \in [Threads -> SUBSET Files]
    BY <1>1, <1>5 DEF Steps
  <2>4. TypeOK'
    BY <1>1, <1>5, <2>1, <2>2, <2>3, StepType
  <2>5. NothingLost' /\ ValueInv'
    BY <1>1, <1>5, FileAssumption DEF NothingLost, ValueInv, Survivor
  <2>6. ThreadInv(t)'
    BY <1>1, <1>5, FileAssumption DEF ValueInv
  <2> QED
    BY <2>4, <2>5, <2>6, Alone
<1>6. CASE pc[t] = "cleanup" /\ Replace(t)
  <2>1. disk' \in [Files -> Versions \cup {None, Torn}]
    BY <1>1, <1>6
  <2>2. Torn \notin {disk'["target"], disk'["backup"]}
    BY <1>1, <1>6, FileAssumption
  <2>3. /\ pc' \in [Threads -> Steps] /\ pc'[t] # "idle"
        /\ seen' \in [Threads -> SUBSET Files]
    BY <1>1, <1>6 DEF Steps
  <2>4. TypeOK'
    BY <1>1, <1>6, <2>1, <2>2, <2>3, StepType
  <2>5. NothingLost' /\ ValueInv'
    BY <1>1, <1>6, FileAssumption DEF NothingLost, ValueInv, Survivor
  <2>6. ThreadInv(t)'
    BY <1>1, <1>6, FileAssumption DEF ValueInv
  <2> QED
    BY <2>4, <2>5, <2>6, Alone
<1> QED
  BY <1>2, <1>3, <1>4, <1>5, <1>6 DEF Replace

LEMMA RepairKeeps ==
  ASSUME OneThread, IInv, NEW t \in Threads, Repair(t)
  PROVE  IInv'
<1> USE DEF Go, memory, local, bounds, history, TypeOK, Files,
           ThreadInv, FoundInv, FilesInv, SaveInv,
           Repair, Inspect, Rename, Remove, Skip,
           StaleBackup, TempFound, AfterRepair
<1>1. TypeOK /\ NothingLost /\ ValueInv /\ ThreadInv(t)
  BY DEF IInv
<1>2. CASE pc[t] = "seeTarget" /\ Repair(t)
  <2>1. disk' \in [Files -> Versions \cup {None, Torn}]
    BY <1>1, <1>2
  <2>2. Torn \notin {disk'["target"], disk'["backup"]}
    BY <1>1, <1>2, FileAssumption
  <2>3. /\ pc' \in [Threads -> Steps] /\ pc'[t] # "idle"
        /\ seen' \in [Threads -> SUBSET Files]
    BY <1>1, <1>2 DEF Steps
  <2>4. TypeOK'
    BY <1>1, <1>2, <2>1, <2>2, <2>3, StepType
  <2>5. NothingLost' /\ ValueInv'
    BY <1>1, <1>2, FileAssumption DEF NothingLost, ValueInv, Survivor
  <2>6. ThreadInv(t)'
    BY <1>1, <1>2, FileAssumption DEF ValueInv
  <2> QED
    BY <2>4, <2>5, <2>6, Alone
<1>3. CASE pc[t] = "seeBackup" /\ Repair(t)
  <2>1. disk' \in [Files -> Versions \cup {None, Torn}]
    BY <1>1, <1>3
  <2>2. Torn \notin {disk'["target"], disk'["backup"]}
    BY <1>1, <1>3, FileAssumption
  <2>3. /\ pc' \in [Threads -> Steps] /\ pc'[t] # "idle"
        /\ seen' \in [Threads -> SUBSET Files]
    BY <1>1, <1>3 DEF Steps
  <2>4. TypeOK'
    BY <1>1, <1>3, <2>1, <2>2, <2>3, StepType
  <2>5. NothingLost' /\ ValueInv'
    BY <1>1, <1>3, FileAssumption DEF NothingLost, ValueInv, Survivor
  <2>6. ThreadInv(t)'
    BY <1>1, <1>3, FileAssumption DEF ValueInv
  <2> QED
    BY <2>4, <2>5, <2>6, Alone
<1>4. CASE pc[t] = "seeTemp" /\ Repair(t)
  <2>1. disk' \in [Files -> Versions \cup {None, Torn}]
    BY <1>1, <1>4
  <2>2. Torn \notin {disk'["target"], disk'["backup"]}
    BY <1>1, <1>4, FileAssumption
  <2>3. /\ pc' \in [Threads -> Steps] /\ pc'[t] # "idle"
        /\ seen' \in [Threads -> SUBSET Files]
    BY <1>1, <1>4 DEF Steps
  <2>4. TypeOK'
    BY <1>1, <1>4, <2>1, <2>2, <2>3, StepType
  <2>5. NothingLost' /\ ValueInv'
    BY <1>1, <1>4, FileAssumption DEF NothingLost, ValueInv, Survivor
  <2>6. ThreadInv(t)'
    BY <1>1, <1>4, FileAssumption DEF ValueInv
  <2> QED
    BY <2>4, <2>5, <2>6, Alone
<1>5. CASE pc[t] = "repairBackup" /\ Repair(t)
  <2>1. disk' \in [Files -> Versions \cup {None, Torn}]
    BY <1>1, <1>5
  <2>2. Torn \notin {disk'["target"], disk'["backup"]}
    BY <1>1, <1>5, FileAssumption
  <2>3. /\ pc' \in [Threads -> Steps] /\ pc'[t] # "idle"
        /\ seen' \in [Threads -> SUBSET Files]
    BY <1>1, <1>5 DEF Steps
  <2>4. TypeOK'
    BY <1>1, <1>5, <2>1, <2>2, <2>3, StepType
  <2>5. NothingLost' /\ ValueInv'
    BY <1>1, <1>5, FileAssumption DEF NothingLost, ValueInv, Survivor
  <2>6. ThreadInv(t)'
    BY <1>1, <1>5, FileAssumption DEF ValueInv
  <2> QED
    BY <2>4, <2>5, <2>6, Alone
<1>6. CASE pc[t] = "repairTemp" /\ Repair(t)
  <2>1. disk' \in [Files -> Versions \cup {None, Torn}]
    BY <1>1, <1>6
  <2>2. Torn \notin {disk'["target"], disk'["backup"]}
    BY <1>1, <1>6, FileAssumption
  <2>3. /\ pc' \in [Threads -> Steps] /\ pc'[t] # "idle"
        /\ seen' \in [Threads -> SUBSET Files]
    BY <1>1, <1>6 DEF Steps
  <2>4. TypeOK'
    BY <1>1, <1>6, <2>1, <2>2, <2>3, StepType
  <2>5. NothingLost' /\ ValueInv'
    BY <1>1, <1>6, FileAssumption DEF NothingLost, ValueInv, Survivor
  <2>6. ThreadInv(t)'
    BY <1>1, <1>6, FileAssumption DEF ValueInv
  <2> QED
    BY <2>4, <2>5, <2>6, Alone
<1> QED
  BY <1>2, <1>3, <1>4, <1>5, <1>6 DEF Repair

LEMMA CheckTargetKeeps ==
  ASSUME OneThread, IInv, NEW t \in Threads, CheckTarget(t)
  PROVE  IInv'
<1> USE DEF Go, memory, local, bounds, history, TypeOK,
           Files, ThreadInv, FilesInv, SaveInv
<1>1. TypeOK /\ NothingLost /\ ValueInv /\ ThreadInv(t)
  BY DEF IInv
<1>2. /\ UNCHANGED <<disk, value, dirty, loaded, lock, op, seen, item, version, durable>>
      /\ had' \in [Threads -> BOOLEAN] /\ pc[t] = "checkTarget"
  BY <1>1 DEF CheckTarget
<1>3. \/ disk["target"] # None /\ had'[t] /\ pc' = [pc EXCEPT ![t] = "toBackup"]
      \/ disk["target"] = None /\ ~had'[t] /\ pc' = [pc EXCEPT ![t] = "install"]
      \/ pc' = [pc EXCEPT ![t] = "cleanup"]
  BY <1>1 DEF CheckTarget
<1>4. TypeOK'
  BY <1>1, <1>2, <1>3 DEF OneThread, Steps
<1>5. NothingLost' /\ ValueInv'
  BY <1>1, <1>2, <1>3 DEF NothingLost, ValueInv, Survivor
<1>6. ThreadInv(t)'
  BY <1>1, <1>2, <1>3 DEF FoundInv
<1> QED
  BY <1>4, <1>5, <1>6, Alone

(* set, remove and clear may run while a load is under way.                 *)
LEMMA ChangeKeeps == ASSUME IInv, Change PROVE IInv'
<1> USE DEF memory, local, Files
<1>1. TypeOK'
  BY BoundAssumption, FileAssumption DEF IInv, Change, TypeOK, Versions, history
<1>2. NothingLost' /\ ValueInv'
  BY BoundAssumption
  DEF IInv, Change, TypeOK, NothingLost, ValueInv, Survivor, Versions, history
<1>3. ASSUME NEW t \in Threads PROVE ThreadInv(t)'
  BY <1>3, FileAssumption
  DEF IInv, Change, TypeOK, ThreadInv, FoundInv, FilesInv, SaveInv, history
<1> QED
  BY <1>1, <1>2, <1>3 DEF IInv

LEMMA CrashKeeps == ASSUME IInv, Crash PROVE IInv'
<1>1. TypeOK'
  BY FileAssumption DEF IInv, Crash, TypeOK, Versions, Steps, local
<1>2. NothingLost' /\ ValueInv'
  BY DEF IInv, Crash, NothingLost, ValueInv, Survivor
<1>3. ASSUME NEW t \in Threads PROVE ThreadInv(t)'
  BY <1>3 DEF Crash, ThreadInv, FoundInv, FilesInv, SaveInv
<1> QED
  BY <1>1, <1>2, <1>3 DEF IInv

LEMMA NextIInv == ASSUME OneThread, IInv, [Next]_vars PROVE IInv'
<1>1. CASE Change
  BY <1>1, ChangeKeeps
<1>2. CASE Crash
  BY <1>2, CrashKeeps
<1>3. ASSUME NEW t \in Threads,
             \/ SaveBegin(t) \/ LoadBegin(t) \/ Repair(t) \/ CreateTemp(t) \/ WriteTemp(t)
             \/ CheckTarget(t) \/ Replace(t) \/ SaveEnds(t) \/ Fails(t)
             \/ LoadFind(t) \/ LoadRead(t) \/ LoadCommit(t)
      PROVE  IInv'
  BY <1>3, SaveBeginKeeps, LoadBeginKeeps, RepairKeeps, CreateTempKeeps, WriteTempKeeps,
     CheckTargetKeeps, ReplaceKeeps, SaveEndsKeeps, FailsKeeps, LoadFindKeeps,
     LoadReadKeeps, LoadCommitKeeps
<1>4. CASE UNCHANGED vars
  BY <1>4
  DEF vars, memory, local, bounds, history, IInv, TypeOK, NothingLost, ValueInv, Survivor,
      ThreadInv, FoundInv, FilesInv, SaveInv
<1> QED
  BY <1>1, <1>2, <1>3, <1>4 DEF Next

LEMMA Inductive == ASSUME OneThread PROVE Spec => []IInv
<1> SUFFICES OneThread => (Spec => []IInv)
  OBVIOUS
<1>1. OneThread /\ IInv /\ [Next]_vars => IInv'
  BY NextIInv
<1> QED
  BY InitIInv, <1>1, PTL DEF Spec
-----------------------------------------------------------------------------
(* The temp file alone is ever half written; the lock's holder alone saves. *)
THEOREM TypeCorrect == ASSUME OneThread PROVE Spec => []TypeOK
<1>1. IInv => TypeOK
  BY DEF IInv
<1> QED
  BY <1>1, Inductive, PTL

(* Whatever fails and wherever the process crashes, the next load finds the *)
(* last saved version or one whose save was begun since.                    *)
THEOREM SavedStays == ASSUME OneThread PROVE Spec => []NothingLost
<1>1. IInv => NothingLost
  BY DEF IInv
<1> QED
  BY <1>1, Inductive, PTL

(* The repair has always removed the temp file an earlier save left behind. *)
THEOREM TempRemoved == ASSUME OneThread PROVE Spec => []StaleTempNeverBlocks
<1>1. IInv => StaleTempNeverBlocks
  BY DEF IInv, ThreadInv, FilesInv, StaleTempNeverBlocks
<1> QED
  BY <1>1, Inductive, PTL

(* Values that are not dirty are the ones a restart would load.             *)
THEOREM CleanSaved == ASSUME OneThread PROVE Spec => []CleanMeansSaved
<1>1. IInv => CleanMeansSaved
  BY DEF IInv, ValueInv, CleanMeansSaved
<1> QED
  BY <1>1, Inductive, PTL
=============================================================================
