-------------------------- MODULE DbRecoveryProofs --------------------------
(***************************************************************************)
(* For any rows and any number of power failures: the types, that          *)
(* committed rows are served as long as no file was damaged and no         *)
(* recovery began on a full disk, that a start a day after a damage serves *)
(* no damaged file that could be moved away, and that one damage costs no  *)
(* row it spared.  The second rests on the recovery not even starting      *)
(* (Untouched), the third on what a recovery puts in place being sound     *)
(* and on the marker being written for a sound file only (SoundInv), the   *)
(* last on where the spared rows are at each of its steps (SparedInv).     *)
(***************************************************************************)
EXTENDS DbRecovery, TLAPS

DbAssumption == DamagesAssumption /\ NoFileAssumption

SoundFile(f) == f \in Contents /\ f.health \in {"ok", "empty"}

(* Without damage and with room on the disk no recovery begins; a database *)
(* without tables has nothing committed.                                   *)
Untouched ==
    damages = 0 /\ ~starved =>
        /\ pc \in {"down", "check", "createAll", "serving"}
        /\ db # NoFile => SoundFile(db)
        /\ db # NoFile /\ db.health = "empty" => db = EmptyFile
        /\ db \in {NoFile, EmptyFile} => committed = {}
        /\ committed \subseteq Served

(* What a recovery puts in place is sound; what create_all opens and what  *)
(* is served may be damaged only as LaterStartsFindDamage says.  A marker  *)
(* younger than a day is no witness of a file damaged before that day: it  *)
(* was written since, for a file that was sound and has been since.        *)
SoundInv ==
    /\ pc \in {"moveAway", "moveIn"} => SoundFile(recovered)
    /\ pc = "cleanup" => SoundFile(db)
    /\ pc \in {"createAll", "serving"} /\ db # NoFile => SoundFile(db) \/ ~overdue \/ unmoved
    /\ pc = "serving" => db.health # "empty"
    /\ fresh /\ dayOld => checkedSince
    /\ checkedSince /\ db # NoFile => SoundFile(db)

IInv == TypeOK /\ Untouched /\ SoundInv

-----------------------------------------------------------------------------
(* No file is taken for a missing one, and an empty one has no rows.       *)
LEMMA FileFacts ==
    ASSUME DbAssumption
    PROVE  /\ \A f \in Files : f # NoFile => f \in Contents
           /\ \A f \in Contents : f # NoFile
           /\ \A f \in Contents : f.rows \in SUBSET Rows /\ f.health \in Healths
           /\ EmptyFile \in Contents /\ EmptyFile.rows = {} /\ EmptyFile.health = "empty"
<1>1. EmptyFile \in Contents /\ EmptyFile.rows = {} /\ EmptyFile.health = "empty"
  BY DEF EmptyFile, Contents, Healths
<1>2. \A f \in Contents : f # NoFile
  BY DEF DbAssumption, NoFileAssumption, Contents
<1> QED
  BY <1>1, <1>2 DEF Files, Contents

(* Closing the last connection loses nothing but what an empty database    *)
(* never had, and leaves the health alone.                                 *)
LEMMA MergeFacts ==
    ASSUME DbAssumption, TypeOK
    PROVE  /\ Merged \in Files /\ LeftInWal \subseteq Rows
           /\ Merged = NoFile <=> db = NoFile
           /\ db # NoFile => Merged.health = db.health
           /\ db = EmptyFile => Merged = EmptyFile
           /\ db \notin {NoFile, EmptyFile} => Merged.rows \cup LeftInWal = db.rows \cup wal
<1>1. ASSUME db # NoFile, db # EmptyFile, ~full
      PROVE  /\ Merged = [rows |-> db.rows \cup wal, health |-> db.health]
             /\ Merged \in Contents
  <2>1. db \in Contents /\ db.rows \subseteq Rows /\ db.health \in Healths
    BY <1>1, FileFacts DEF TypeOK
  <2>2. Merged = [rows |-> db.rows \cup wal, health |-> db.health]
    BY <1>1, <2>1 DEF Merged, Contents
  <2> QED
    BY <2>1, <2>2 DEF Contents, TypeOK
<1>2. full \/ db = NoFile \/ db = EmptyFile => Merged = db
  BY DEF Merged
<1> QED
  BY <1>1, <1>2, FileFacts DEF LeftInWal, TypeOK, Files

(* Init establishes the invariant.                                         *)
LEMMA InitEstablishes == ASSUME DbAssumption, Init PROVE IInv
<1>1. /\ fresh \in BOOLEAN /\ full \in BOOLEAN /\ unmoved \in BOOLEAN /\ starved \in BOOLEAN
      /\ checkedSince \in BOOLEAN /\ dayOld \in BOOLEAN /\ overdue \in BOOLEAN
  BY Zenon DEF Init
<1>3. TypeOK
  BY <1>1 DEF Init, TypeOK, Files, DbAssumption, DamagesAssumption
<1>2. Untouched /\ SoundInv
  BY DEF Init, Untouched, SoundInv
<1> QED
  BY <1>2, <1>3 DEF IInv

-----------------------------------------------------------------------------
(* The steps of the world keep the invariant.                              *)
LEMMA WorldKeeps ==
    ASSUME DbAssumption, IInv,
           Commit \/ Checkpoint \/ Crash \/ Damage \/ TimePasses \/ DiskFills
    PROVE  IInv'
<1> USE FileFacts DEF IInv
<1>1. CASE Commit
  <2>1. PICK r \in Rows \ committed : wal' = wal \cup {r} /\ committed' = committed \cup {r}
    BY <1>1 DEF Commit
  <2>2. /\ pc = "serving"
        /\ UNCHANGED <<db, recovered, corrupt, unrecoverable, fresh, full, pc, damages,
                       unmoved, starved, times>>
    BY <1>1 DEF Commit
  <2>3. TypeOK'
    BY <2>1, <2>2 DEF TypeOK, times
  <2>4. db # NoFile /\ db # EmptyFile
    BY <2>2 DEF TypeOK, SoundInv
  <2>5. Untouched'
    BY <2>1, <2>2, <2>4 DEF Untouched, Served, RowsOf, SoundFile
  <2> QED
    BY <2>2, <2>3, <2>5 DEF SoundInv, SoundFile, times
<1>2. CASE Checkpoint
  <2>1. /\ pc = "serving" /\ db' = Merged /\ wal' = {} /\ ~full
        /\ UNCHANGED <<recovered, corrupt, unrecoverable, fresh, full, pc, ghosts>>
    BY <1>2 DEF Checkpoint
  <2>2. db # NoFile /\ db # EmptyFile
    BY <2>1 DEF TypeOK, SoundInv
  <2>3. /\ Merged \in Contents /\ Merged.health = db.health
        /\ Merged.rows = db.rows \cup wal
    BY <2>1, <2>2, MergeFacts DEF LeftInWal
  <2>4. TypeOK'
    BY <2>1, <2>3 DEF TypeOK, Files, ghosts, times
  <2>5. Untouched'
    BY <2>1, <2>2, <2>3 DEF Untouched, Served, RowsOf, SoundFile, ghosts
  <2> QED
    BY <2>1, <2>2, <2>3, <2>4, <2>5 DEF SoundInv, SoundFile, ghosts, times, TypeOK
<1>3. CASE Crash
  BY <1>3 DEF Crash, files, ghosts, times, TypeOK, Untouched, SoundInv, SoundFile, Served, RowsOf
<1>4. CASE Damage
  <2>1. PICK kept \in SUBSET db.rows, h \in {"damaged", "unreadable"} :
               /\ db' = [rows |-> kept, health |-> h]
               /\ committed' = committed \ (db.rows \ kept)
    BY <1>4 DEF Damage
  <2>2. /\ pc = "down" /\ damages < MaxDamages /\ damages' = damages + 1 /\ db # NoFile
        /\ UNCHANGED <<wal, recovered, corrupt, unrecoverable, fresh, full, pc, unmoved,
                       starved, overdue>>
        /\ checkedSince' = FALSE /\ dayOld' = FALSE
    BY <1>4 DEF Damage
  <2>3. damages' \in 0 .. MaxDamages /\ damages' # 0
    BY <2>2 DEF TypeOK, DbAssumption, DamagesAssumption
  <2>4. db' \in Contents
    BY <2>1, <2>2 DEF TypeOK, Contents, Healths, Files
  <2>5. TypeOK'
    BY <2>1, <2>2, <2>3, <2>4 DEF TypeOK, Files
  <2> QED
    BY <2>2, <2>3, <2>5 DEF Untouched, SoundInv
<1>5. CASE TimePasses
  <2>1. fresh' \in BOOLEAN /\ dayOld' \in BOOLEAN
    BY <1>5, Zenon DEF TimePasses, TypeOK
  <2>2. /\ UNCHANGED <<files, full, pc, committed, damages, unmoved, starved, checkedSince,
                       overdue>>
        /\ dayOld' /\ fresh' => checkedSince
    BY <1>5 DEF TimePasses
  <2> QED
    BY <2>1, <2>2 DEF files, TypeOK, Untouched, SoundInv, SoundFile, Served, RowsOf
<1>6. CASE DiskFills
  <2>1. full' \in BOOLEAN
    BY <1>6, Zenon DEF DiskFills
  <2> QED
    BY <1>6, <2>1 DEF DiskFills, files, ghosts, times, TypeOK, Untouched, SoundInv, SoundFile,
                      Served, RowsOf
<1> QED
  BY <1>1, <1>2, <1>3, <1>4, <1>5, <1>6

-----------------------------------------------------------------------------
(* The steps before a recovery, and those without one.                     *)
LEMMA StartKeeps == ASSUME DbAssumption, IInv, Start PROVE IInv'
  BY FileFacts DEF IInv, Start, files, ghosts, times, TypeOK, Untouched, SoundInv, SoundFile,
                   Served, RowsOf

LEMMA CheckKeeps == ASSUME DbAssumption, IInv, Check PROVE IInv'
<1> USE FileFacts DEF IInv
<1>1. /\ pc = "check" /\ pc' \in {"backup", "createAll"} /\ db # NoFile
      /\ pc' = "createAll" <=> ~Stage1Fails
      /\ db' = Merged /\ wal' = LeftInWal /\ unmoved' = FALSE
      /\ UNCHANGED <<recovered, corrupt, unrecoverable, full, committed, damages, dayOld>>
  BY DEF Check, TypeOK
<1>2. /\ fresh' = (fresh \/ Sound) /\ starved' = (starved \/ (Stage1Fails /\ full))
      /\ checkedSince' = (checkedSince \/ (~fresh /\ Sound)) /\ overdue' = dayOld
  BY DEF Check
<1>3. /\ fresh' \in BOOLEAN /\ starved' \in BOOLEAN /\ unmoved' \in BOOLEAN
      /\ checkedSince' \in BOOLEAN /\ overdue' \in BOOLEAN
  BY <1>1, <1>2, Zenon DEF TypeOK
<1>4. /\ db' \in Contents /\ wal' \subseteq Rows /\ db'.health = db.health
      /\ db = EmptyFile => db' = EmptyFile
      /\ db # EmptyFile => db'.rows \cup wal' = db.rows \cup wal
  BY <1>1, MergeFacts
<1>5. TypeOK'
  BY <1>1, <1>3, <1>4 DEF TypeOK, Files
<1>6. Untouched'
  <2>1. SUFFICES ASSUME damages' = 0, ~starved' PROVE Untouched'
    BY DEF Untouched
  <2>2. damages = 0 /\ ~starved /\ ~(Stage1Fails /\ full)
    BY <1>1, <1>2, <2>1
  <2>3. /\ SoundFile(db)
        /\ db.health = "empty" => db = EmptyFile
        /\ db = EmptyFile => committed = {}
        /\ committed \subseteq db.rows \cup wal
    BY <1>1, <2>2 DEF Untouched, Served, RowsOf
  <2>4. pc' = "createAll"
    BY <1>1, <2>2, <2>3 DEF Stage1Fails, Readable, Sound, SoundFile
  <2> QED
    BY <1>1, <1>4, <2>3, <2>4 DEF Untouched, Served, RowsOf, SoundFile
<1>7. pc' = "createAll" => SoundFile(db') \/ ~overdue'
  BY <1>1, <1>2, <1>4 DEF Stage1Fails, Sound, SoundFile, SoundInv
<1>8. /\ fresh' /\ dayOld' => checkedSince'
      /\ checkedSince' => SoundFile(db')
  BY <1>1, <1>2, <1>4 DEF Sound, SoundFile, SoundInv
<1> QED
  BY <1>1, <1>5, <1>6, <1>7, <1>8 DEF SoundInv

LEMMA CreateAllKeeps == ASSUME DbAssumption, IInv, CreateAll PROVE IInv'
<1> USE FileFacts DEF IInv
<1>1. /\ pc = "createAll" /\ db' = Created
      /\ wal' = IF db \in {NoFile, EmptyFile} THEN {} ELSE wal
      /\ UNCHANGED <<recovered, corrupt, unrecoverable, fresh, full, ghosts>>
  BY DEF CreateAll
<1>2. /\ db \notin {NoFile, EmptyFile} => Created = db
      /\ db \in {NoFile, EmptyFile} =>
            Created \in {EmptyFile, [rows |-> {}, health |-> "ok"]}
  <2>1. [EmptyFile EXCEPT !.health = "ok"] = [rows |-> {}, health |-> "ok"]
    BY DEF EmptyFile
  <2>2. db \in {NoFile, EmptyFile} =>
            Created \in {EmptyFile, [EmptyFile EXCEPT !.health = "ok"]}
    BY DEF Created
  <2>3. db \notin {NoFile, EmptyFile} => Created = db
    BY DEF Created
  <2> QED
    BY <2>1, <2>2, <2>3
<1>3. Created \in Contents
  BY <1>2 DEF TypeOK, Files, Contents, Healths
<1>4. pc' = IF db'.health \in {"unreadable", "empty"} THEN "down" ELSE "serving"
  BY <1>1, <1>3 DEF CreateAll
<1>5. TypeOK'
  BY <1>1, <1>3, <1>4 DEF TypeOK, Files, ghosts, times
<1>6. Untouched'
  BY <1>1, <1>2, <1>3, <1>4 DEF Untouched, Served, RowsOf, SoundFile, ghosts
<1>7. SoundFile(db') \/ ~overdue' \/ unmoved'
  BY <1>1, <1>2, <1>3 DEF SoundInv, SoundFile, ghosts, times
<1>8. /\ fresh' /\ dayOld' => checkedSince'
      /\ checkedSince' => SoundFile(db')
  BY <1>1, <1>2, <1>3 DEF SoundInv, SoundFile, ghosts, times
<1> QED
  BY <1>1, <1>4, <1>5, <1>6, <1>7, <1>8 DEF SoundInv

(* The steps of a recovery, which an untouched database does not see.      *)
LEMMA RecoveryKeeps ==
    ASSUME DbAssumption, IInv,
           Backup \/ Dump \/ MoveAway \/ MoveIn \/ Cleanup \/ Fallback \/ MoveFails
    PROVE  IInv'
<1> USE FileFacts DEF IInv
<1>1. /\ pc \in {"backup", "dump", "moveAway", "moveIn", "cleanup", "fallback"}
      /\ UNCHANGED <<damages, starved, committed>>
  BY DEF Backup, Dump, MoveAway, MoveIn, Cleanup, Fallback, MoveFails, ghosts
<1>2. Untouched'
  BY <1>1 DEF Untouched
<1>3. CASE Backup
  <2>1. db \in Contents
    BY <1>3 DEF Backup, TypeOK
  <2>2. CASE Sound /\ ~full
    <3>1. /\ recovered' = [db EXCEPT !.rows = @ \cup wal]
          /\ db' = Merged /\ wal' = LeftInWal /\ pc' = "moveAway"
      BY <1>3, <2>2 DEF Backup
    <3>2. SoundFile(recovered')
      BY <2>1, <2>2, <3>1 DEF SoundFile, Sound, Contents, TypeOK
    <3>3. db' \in Contents /\ wal' \subseteq Rows
      BY <2>1, <3>1, MergeFacts
    <3>4. TypeOK'
      BY <1>3, <3>1, <3>2, <3>3 DEF Backup, TypeOK, ghosts, times, Files, SoundFile
    <3> QED
      BY <1>2, <1>3, <2>1, <3>1, <3>2, <3>4, MergeFacts
         DEF SoundInv, Backup, SoundFile, ghosts, times
  <2>3. CASE ~(Sound /\ ~full)
    BY <1>2, <1>3, <2>3 DEF Backup, TypeOK, ghosts, times, Files, SoundInv, SoundFile
  <2> QED
    BY <2>2, <2>3
<1>4. CASE Dump
  <2>1. PICK rs \in SUBSET (db.rows \cup wal) :
               recovered' \in {[rows |-> rs, health |-> "ok"], EmptyFile}
    BY <1>4 DEF Dump
  <2>2. /\ pc' = "moveAway" /\ db' = Merged /\ wal' = LeftInWal /\ db \in Contents
        /\ UNCHANGED <<corrupt, unrecoverable, fresh, full, ghosts>>
    BY <1>4 DEF Dump, TypeOK
  <2>3. SoundFile(recovered')
    BY <2>1, <2>2 DEF SoundFile, Contents, Healths, TypeOK
  <2>4. db' \in Contents /\ wal' \subseteq Rows
    BY <2>2, MergeFacts
  <2>5. TypeOK'
    BY <2>2, <2>3, <2>4 DEF TypeOK, ghosts, times, Files, SoundFile
  <2>6. checkedSince' => SoundFile(db')
    BY <2>2, <2>4, MergeFacts DEF SoundInv, SoundFile, ghosts, times
  <2> QED
    BY <1>2, <2>2, <2>3, <2>5, <2>6 DEF SoundInv, ghosts, times
<1>5. CASE MoveAway
  BY <1>2, <1>5 DEF MoveAway, SetAside, TypeOK, ghosts, times, Files, SoundInv, SoundFile
<1>6. CASE MoveIn
  BY <1>2, <1>6 DEF MoveIn, TypeOK, ghosts, times, Files, SoundInv, SoundFile
<1>7. CASE Cleanup
  BY <1>2, <1>7 DEF Cleanup, TypeOK, ghosts, times, SoundInv, SoundFile
<1>8. CASE Fallback
  <2>1. unmoved' \in BOOLEAN
    BY <1>8, Zenon DEF Fallback, TypeOK
  <2>2. /\ pc = "fallback" /\ pc' = "createAll" /\ recovered' = NoFile /\ wal' = {}
        /\ UNCHANGED <<corrupt, fresh, full, committed, damages, starved, times>>
        /\ db' \in {db, NoFile} /\ unrecoverable' \in {db, unrecoverable}
    BY <1>8 DEF Fallback
  <2>3. TypeOK'
    BY <2>1, <2>2 DEF TypeOK, Files, times
  <2>4. db' # NoFile => unmoved'
    BY <1>8 DEF Fallback
  <2> QED
    BY <1>2, <2>2, <2>3, <2>4 DEF SoundInv, SoundFile, times
<1>9. CASE MoveFails
  BY <1>2, <1>9 DEF MoveFails, files, TypeOK, ghosts, times, SoundInv
<1> QED
  BY <1>3, <1>4, <1>5, <1>6, <1>7, <1>8, <1>9

(* Each step keeps the invariant.                                          *)
LEMMA StepKeeps == ASSUME DbAssumption, IInv, [Next]_vars PROVE IInv'
<1>1. CASE UNCHANGED vars
  BY <1>1 DEF vars, files, ghosts, times, IInv, TypeOK, Untouched, SoundInv, SoundFile, Served,
              RowsOf
<1> QED
  BY <1>1, WorldKeeps, StartKeeps, CheckKeeps, CreateAllKeeps, RecoveryKeeps
     DEF Next, Recovery

-----------------------------------------------------------------------------
(* Every variable keeps its type, and a file a step opens is there         *)
(* (_recover_sqlite_db).                                                   *)
THEOREM TypeCorrect == DbAssumption => (Spec => []TypeOK)
<1> SUFFICES ASSUME DbAssumption PROVE Spec => []TypeOK
  OBVIOUS
<1>1. Init => IInv
  BY InitEstablishes
<1>2. IInv /\ [Next]_vars => IInv'
  BY StepKeeps
<1>3. IInv => TypeOK
  BY DEF IInv
<1> QED
  BY <1>1, <1>2, <1>3, PTL DEF Spec

(* Crashes anywhere and a disk that fills and empties lose no committed    *)
(* row while no file is damaged and no recovery begins on a full disk.     *)
THEOREM CommitsSurvive == DbAssumption => (Spec => []CommittedRowsAreServed)
<1> SUFFICES ASSUME DbAssumption PROVE Spec => []CommittedRowsAreServed
  OBVIOUS
<1>1. Init => IInv
  BY InitEstablishes
<1>2. IInv /\ [Next]_vars => IInv'
  BY StepKeeps
<1>3. IInv => CommittedRowsAreServed
  BY DEF IInv, Untouched, CommittedRowsAreServed
<1> QED
  BY <1>1, <1>2, <1>3, PTL DEF Spec

(* Over any number of damages and recoveries, a process that starts a day  *)
(* or more after the damage does not serve the damaged file, unless that   *)
(* could not be moved away (_recover_sqlite_db).  One that started sooner  *)
(* may, however long it then runs.                                         *)
THEOREM DamageIsNoticed == DbAssumption => (Spec => []LaterStartsFindDamage)
<1> SUFFICES ASSUME DbAssumption PROVE Spec => []LaterStartsFindDamage
  OBVIOUS
<1>1. Init => IInv
  BY InitEstablishes
<1>2. IInv /\ [Next]_vars => IInv'
  BY StepKeeps
<1>3. IInv => LaterStartsFindDamage
  BY DEF IInv, SoundInv, SoundFile, LaterStartsFindDamage, TypeOK
<1> QED
  BY <1>1, <1>2, <1>3, PTL DEF Spec

-----------------------------------------------------------------------------
(* Where the rows are that a single damage spared.  A recovery that began  *)
(* with room on the disk has emptied the -wal before it began, and begins  *)
(* for an unsound file only.  As long as that file is in place it has the  *)
(* rows, with the -wal; once it is gone, it is where it was put aside, and *)
(* no recovery follows that would put another in its place.                *)
Unsound == db # NoFile /\ db.health \in {"damaged", "unreadable"}

SparedInv ==
    ~starved =>
        /\ pc \in {"backup", "dump", "moveAway"} => Unsound
        /\ pc = "moveIn" => db = NoFile
        /\ pc = "fallback" => db = NoFile \/ Unsound
        /\ pc \in {"backup", "dump", "moveAway", "moveIn", "cleanup", "fallback"} => wal = {}
        /\ db \in {NoFile, EmptyFile} => wal = {}
        /\ Unsound => committed \subseteq Served
        /\ committed \subseteq Served \cup RowsOf(corrupt) \cup RowsOf(unrecoverable)

LEMMA SparedBegins == ASSUME DbAssumption, Init PROVE SparedInv
BY DEF Init, SparedInv, Unsound

LEMMA SparedInTheWorld ==
    ASSUME DbAssumption, MaxDamages <= 1, IInv, SparedInv,
           Commit \/ Checkpoint \/ Crash \/ Damage \/ TimePasses \/ DiskFills
    PROVE  SparedInv'
<1> USE FileFacts DEF IInv
<1>1. CASE Commit
  <2>1. PICK r \in Rows \ committed : wal' = wal \cup {r} /\ committed' = committed \cup {r}
    BY <1>1 DEF Commit
  <2>2. /\ pc = "serving"
        /\ UNCHANGED <<db, recovered, corrupt, unrecoverable, fresh, full, pc, damages,
                       unmoved, starved, times>>
    BY <1>1 DEF Commit
  <2>3. db # NoFile /\ db # EmptyFile
    BY <2>2 DEF TypeOK, SoundInv
  <2> QED
    BY <2>1, <2>2, <2>3 DEF SparedInv, Unsound, Served, RowsOf
<1>2. CASE Checkpoint
  <2>1. /\ pc = "serving" /\ db' = Merged /\ wal' = {} /\ ~full
        /\ UNCHANGED <<recovered, corrupt, unrecoverable, fresh, full, pc, ghosts>>
    BY <1>2 DEF Checkpoint
  <2>2. db # NoFile /\ db # EmptyFile
    BY <2>1 DEF TypeOK, SoundInv
  <2>3. /\ Merged \in Contents /\ Merged.health = db.health
        /\ Merged.rows = db.rows \cup wal
    BY <2>1, <2>2, MergeFacts DEF LeftInWal
  <2> QED
    BY <2>1, <2>2, <2>3 DEF SparedInv, Unsound, Served, RowsOf, ghosts
<1>3. CASE Damage
  <2>1. PICK kept \in SUBSET db.rows, h \in {"damaged", "unreadable"} :
               /\ db' = [rows |-> kept, health |-> h]
               /\ committed' = committed \ (db.rows \ kept)
    BY <1>3 DEF Damage
  <2>2. /\ pc = "down" /\ damages < MaxDamages /\ db # NoFile
        /\ UNCHANGED <<wal, recovered, corrupt, unrecoverable, fresh, full, pc, unmoved,
                       starved>>
    BY <1>3 DEF Damage
  <2>3. damages = 0
    BY <2>2 DEF TypeOK, DbAssumption, DamagesAssumption
  <2>4. db' \in Contents /\ db' # EmptyFile /\ db'.rows = kept
    BY <2>1, <2>2 DEF TypeOK, Contents, Healths, Files
  <2>5. ~starved => committed' \subseteq kept \cup wal
    BY <2>1, <2>2, <2>3 DEF Untouched, Served, RowsOf
  <2> QED
    BY <2>2, <2>4, <2>5 DEF SparedInv, Served, RowsOf
<1>4. CASE Crash \/ TimePasses \/ DiskFills
  BY <1>4 DEF Crash, TimePasses, DiskFills, files, ghosts, times, SparedInv, Unsound, Served, RowsOf
<1> QED
  BY <1>1, <1>2, <1>3, <1>4

LEMMA SparedInRecovery ==
    ASSUME DbAssumption, IInv, SparedInv, Start \/ Recovery \/ MoveFails
    PROVE  SparedInv'
<1>0. [EmptyFile EXCEPT !.health = "ok"] = [rows |-> {}, health |-> "ok"]
  BY DEF EmptyFile
<1> USE FileFacts DEF IInv
<1>1. CASE Start \/ MoveFails
  BY <1>1 DEF Start, MoveFails, files, ghosts, times, SparedInv, Unsound, Served, RowsOf
<1>2. CASE Check
  <2>1. /\ pc = "check" /\ pc' \in {"backup", "createAll"} /\ db # NoFile
        /\ pc' = "backup" => Stage1Fails
        /\ db' = Merged /\ wal' = LeftInWal
        /\ starved' = (starved \/ (Stage1Fails /\ full))
        /\ UNCHANGED <<recovered, corrupt, unrecoverable, full, committed, damages>>
    BY <1>2 DEF Check, TypeOK
  <2>2. /\ db' # NoFile /\ db'.health = db.health
        /\ db = EmptyFile => db' = EmptyFile
        /\ db # EmptyFile => db'.rows \cup wal' = db.rows \cup wal
    BY <2>1, MergeFacts
  <2>3. db = EmptyFile => wal' = {}
    BY <2>1 DEF LeftInWal
  <2>4. SUFFICES ASSUME ~starved' PROVE SparedInv'
    BY DEF SparedInv
  <2>5. ~starved /\ (Stage1Fails => ~full)
    BY <2>1, <2>4
  <2>6. pc' = "backup" => Unsound' /\ wal' = {}
    BY <2>1, <2>2, <2>5 DEF Stage1Fails, Readable, Sound, Unsound, LeftInWal, TypeOK, Healths
  <2>7. db # EmptyFile => db' # EmptyFile \/ wal' = {}
    BY <2>1, <2>2 DEF Merged, LeftInWal
  <2>8. Unsound' <=> Unsound
    BY <2>1, <2>2 DEF Unsound
  <2>9. Served' = Served
    BY <2>1, <2>2, <2>3, <2>5 DEF SparedInv, Served, RowsOf
  <2> QED
    BY <2>1, <2>2, <2>3, <2>5, <2>6, <2>7, <2>8, <2>9 DEF SparedInv, RowsOf
<1>3. CASE Backup \/ Dump
  <2>1. SUFFICES ASSUME ~starved' PROVE SparedInv'
    BY DEF SparedInv
  <2>2. ~starved /\ Unsound /\ wal = {}
    BY <1>3, <2>1 DEF Backup, Dump, SparedInv, ghosts
  <2>3. /\ pc' \in {"dump", "moveAway"} /\ db' \in {db, Merged}
        /\ wal' \in {wal, LeftInWal}
        /\ UNCHANGED <<corrupt, unrecoverable, ghosts>>
    BY <1>3 DEF Backup, Dump
  <2>4. db # EmptyFile /\ wal' = {} /\ db' # NoFile /\ db' # EmptyFile
    BY <2>2, <2>3, MergeFacts DEF Unsound, LeftInWal
  <2>5. Unsound' /\ db'.rows = db.rows
    <3>1. Merged.health = db.health
      BY <2>2, MergeFacts DEF Unsound
    <3>2. Merged.rows \cup LeftInWal = db.rows \cup wal /\ LeftInWal = {}
      BY <2>2, <2>4, MergeFacts DEF Unsound, LeftInWal
    <3> QED
      BY <2>2, <2>3, <2>4, <3>1, <3>2 DEF Unsound
  <2> QED
    BY <2>2, <2>3, <2>4, <2>5 DEF SparedInv, Served, RowsOf, ghosts, Unsound
<1>4. CASE MoveAway
  <2>1. /\ pc = "moveAway" /\ pc' = "moveIn" /\ corrupt' = db /\ db' = NoFile
        /\ UNCHANGED <<wal, unrecoverable, ghosts>>
    BY <1>4 DEF MoveAway, SetAside
  <2> QED
    BY <2>1 DEF SparedInv, Unsound, Served, RowsOf, ghosts
<1>5. CASE MoveIn
  <2>1. /\ pc = "moveIn" /\ pc' = "cleanup" /\ db' = recovered
        /\ UNCHANGED <<wal, corrupt, unrecoverable, ghosts>>
    BY <1>5 DEF MoveIn
  <2>2. SoundFile(recovered)
    BY <2>1 DEF SoundInv
  <2> QED
    BY <2>1, <2>2 DEF SparedInv, SoundFile, Unsound, Served, RowsOf, ghosts
<1>6. CASE Cleanup
  BY <1>6 DEF Cleanup, ghosts, SparedInv, Unsound, Served, RowsOf
<1>7. CASE Fallback
  <2>1. /\ pc = "fallback" /\ pc' = "createAll" /\ wal' = {}
        /\ UNCHANGED <<corrupt, committed, starved>>
        /\ \/ db # NoFile /\ unrecoverable' = db /\ db' = NoFile
           \/ UNCHANGED <<db, unrecoverable>>
    BY <1>7 DEF Fallback
  <2> QED
    BY <2>1 DEF SparedInv, Unsound, Served, RowsOf
<1>8. CASE CreateAll
  <2>1. /\ pc = "createAll" /\ db' = Created
        /\ wal' = IF db \in {NoFile, EmptyFile} THEN {} ELSE wal
        /\ pc' \in {"down", "serving"}
        /\ UNCHANGED <<corrupt, unrecoverable, ghosts>>
    BY <1>8 DEF CreateAll
  <2>2. CASE db \in {NoFile, EmptyFile}
    <3>1. db' \in {EmptyFile, [EmptyFile EXCEPT !.health = "ok"]}
      BY <2>1, <2>2 DEF Created
    <3>2. db'.rows = {} /\ db'.health \in {"empty", "ok"}
      BY <1>0, <3>1
    <3>3. RowsOf(db) = {} /\ ~Unsound'
      BY <2>2, <3>2 DEF RowsOf, Unsound
    <3> QED
      BY <2>1, <2>2, <3>3 DEF SparedInv, Served, RowsOf, ghosts
  <2>3. CASE db \notin {NoFile, EmptyFile}
    BY <2>1, <2>3 DEF Created, SparedInv, Unsound, Served, RowsOf, ghosts
  <2> QED
    BY <2>2, <2>3
<1> QED
  BY <1>1, <1>2, <1>3, <1>4, <1>5, <1>6, <1>7, <1>8 DEF Recovery

(* Over crashes anywhere in a recovery, moves that fail and a disk that    *)
(* fills on the way, every committed row that the one damage spared is in  *)
(* some file (_recover_sqlite_db), for any rows.  A second damage is left  *)
(* out since a second recovery overwrites what the first set aside.        *)
THEOREM SparedRowsStay ==
    DbAssumption /\ MaxDamages <= 1 => (Spec => []NothingSparedIsDestroyed)
<1> SUFFICES ASSUME DbAssumption, MaxDamages <= 1 PROVE Spec => []NothingSparedIsDestroyed
  OBVIOUS
<1>1. Init => IInv /\ SparedInv
  BY InitEstablishes, SparedBegins
<1>2. IInv /\ SparedInv /\ [Next]_vars => (IInv /\ SparedInv)'
  <2>1. ASSUME IInv, SparedInv, UNCHANGED vars PROVE SparedInv'
    BY <2>1 DEF vars, files, ghosts, times, SparedInv, Unsound, Served, RowsOf
  <2> QED
    BY <2>1, StepKeeps, SparedInTheWorld, SparedInRecovery DEF Next
<1>3. SparedInv => NothingSparedIsDestroyed
  BY DEF SparedInv, NothingSparedIsDestroyed, SetAsides
<1> QED
  BY <1>1, <1>2, <1>3, PTL DEF Spec
=============================================================================
