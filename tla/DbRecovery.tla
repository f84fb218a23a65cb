----------------------------- MODULE DbRecovery -----------------------------
(***************************************************************************)
(* What happens to the rows of the SQLite database over starts, crashes,   *)
(* damaged files and a full disk: _recover_sqlite_db and the create_all    *)
(* that follows it, in app/main.py.  SQLite itself is external: a commit   *)
(* goes to the -wal file, closing the last connection moves the -wal into  *)
(* the main file unless the disk is full.                                  *)
(***************************************************************************)
EXTENDS Naturals, FiniteSets

CONSTANTS
    Rows,        \* the rows the application may commit
    NoFile,      \* the content of a file that does not exist
    MaxDamages,  \* bound: how often a power failure damages the main file
    DiskMayFill, \* whether the disk may be full
    MovesMayFail \* whether shutil.move may raise

\* An empty file has no tables yet.  A damaged one can be opened and fails
\* quick_check; an unreadable one ("file is not a database") cannot.
Healths == {"ok", "empty", "damaged", "unreadable"}

DamagesAssumption ==
    MaxDamages \in Nat /\ DiskMayFill \in BOOLEAN /\ MovesMayFail \in BOOLEAN

NoFileAssumption == NoFile \notin [rows : SUBSET Rows, health : Healths]

VARIABLES
    db,            \* the main file
    wal,           \* the rows in its -wal file
    recovered,     \* <db>.recovered
    corrupt,       \* <db>.corrupt
    unrecoverable, \* <db>.unrecoverable
    fresh,         \* <db>.lastcheck is younger than 24 hours
    full,          \* the disk is full
    pc,            \* what the process does
    committed,     \* the rows committed, less those a power failure destroyed
    damages,       \* how often that happened
    unmoved,       \* the last recovery could not move the file anywhere
    starved,       \* some recovery began on a full disk
    checkedSince,  \* history: the marker was written after the last damage
    dayOld,        \* history: the last damage is a day old, or older
    overdue        \* history: it was when the process last began its check

files == <<db, wal, recovered, corrupt, unrecoverable>>
times == <<checkedSince, dayOld, overdue>>
ghosts == <<committed, damages, unmoved, starved, times>>
vars == <<files, fresh, full, pc, ghosts>>

Contents == [rows : SUBSET Rows, health : Healths]
EmptyFile == [rows |-> {}, health |-> "empty"]
Files    == Contents \cup {NoFile}

RowsOf(f) == IF f = NoFile THEN {} ELSE f.rows

TypeOK ==
    /\ db \in Files /\ recovered \in Files /\ corrupt \in Files /\ unrecoverable \in Files
    /\ wal \subseteq Rows /\ committed \subseteq Rows
    /\ fresh \in BOOLEAN /\ full \in BOOLEAN
    /\ pc \in {"down", "check", "backup", "dump", "moveAway", "moveIn", "cleanup",
               "fallback", "createAll", "serving"}
    /\ damages \in 0 .. MaxDamages /\ unmoved \in BOOLEAN
    /\ starved \in BOOLEAN /\ checkedSince \in BOOLEAN
    /\ dayOld \in BOOLEAN /\ overdue \in BOOLEAN
    /\ pc \notin {"down", "createAll", "moveIn", "fallback"} => db # NoFile

-----------------------------------------------------------------------------
(* The world around the start.                                             *)

\* A commit: the application's sessions write to the -wal file.
Commit ==
    /\ pc = "serving" /\ ~full
    /\ \E r \in Rows \ committed :
          wal' = wal \cup {r} /\ committed' = committed \cup {r}
    /\ UNCHANGED <<db, recovered, corrupt, unrecoverable, fresh, full, pc, damages, unmoved,
                   starved, times>>

\* _sqlite_maintenance, or SQLite's own checkpoint: the -wal joins the main file.
Merged ==
    IF full \/ db = NoFile \/ db = EmptyFile THEN db ELSE [db EXCEPT !.rows = @ \cup wal]
LeftInWal == IF full /\ db # EmptyFile THEN wal ELSE {}

Checkpoint ==
    /\ pc = "serving" /\ ~full /\ wal # {}
    /\ db' = Merged /\ wal' = {}
    /\ UNCHANGED <<recovered, corrupt, unrecoverable, fresh, full, pc, ghosts>>

\* The process dies, wherever it is.
Crash ==
    /\ pc # "down" /\ pc' = "down"
    /\ UNCHANGED <<files, fresh, full, ghosts>>

\* A power failure tears pages of the main file: some rows are gone.
Damage ==
    /\ pc = "down" /\ damages < MaxDamages /\ db # NoFile
    /\ \E kept \in SUBSET db.rows, h \in {"damaged", "unreadable"} :
          /\ db' = [rows |-> kept, health |-> h]
          /\ committed' = committed \ (db.rows \ kept)
    /\ damages' = damages + 1 /\ checkedSince' = FALSE /\ dayOld' = FALSE
    /\ UNCHANGED <<wal, recovered, corrupt, unrecoverable, fresh, full, pc, unmoved, starved,
                   overdue>>

\* The marker, the damage or both come to be a day old, whatever the process
\* does; the older of the two is so first.
TimePasses ==
    /\ fresh' \in {fresh, FALSE} /\ dayOld' \in {dayOld, TRUE}
    /\ dayOld' /\ fresh' => checkedSince
    /\ checkedSince /\ ~fresh' => dayOld'
    /\ UNCHANGED <<files, full, pc, committed, damages, unmoved, starved, checkedSince,
                   overdue>>

DiskFills ==
    /\ DiskMayFill /\ full' = ~full
    /\ UNCHANGED <<files, fresh, pc, ghosts>>

-----------------------------------------------------------------------------
(* _recover_sqlite_db.                                                     *)

\* A missing file is taken for a first start.  (Mutant: the -wal is removed
\* before the database is opened.)
Start_RemovesWal ==
    /\ pc = "down"
    /\ pc' = IF db = NoFile THEN "createAll" ELSE "check"
    /\ wal' = {}
    /\ UNCHANGED <<db, recovered, corrupt, unrecoverable, fresh, full, ghosts>>
Start ==
    /\ pc = "down"
    /\ pc' = IF db = NoFile THEN "createAll" ELSE "check"
    /\ UNCHANGED <<files, fresh, full, ghosts>>

Readable == db.health # "unreadable"
Sound    == db.health \in {"ok", "empty"}

\* Stage 1 fails: the file cannot be read, or quick_check is due and finds
\* damage, or the marker cannot be written.  (Mutant: quick_check ignored.)
Stage1Fails_NoQuickCheck == ~Readable
Stage1Fails == ~Readable \/ (~fresh /\ (~Sound \/ full))

\* Either way the connection is closed, and opening the marker for writing
\* makes it young even when the write then fails.
Check ==
    /\ pc = "check"
    /\ pc' = IF Stage1Fails THEN "backup" ELSE "createAll"
    /\ fresh' = (fresh \/ Sound)
    /\ checkedSince' = (checkedSince \/ (~fresh /\ Sound))
    /\ overdue' = dayOld
    /\ db' = Merged /\ wal' = LeftInWal
    /\ unmoved' = FALSE /\ starved' = (starved \/ (Stage1Fails /\ full))
    /\ UNCHANGED <<recovered, corrupt, unrecoverable, full, committed, damages, dayOld>>

\* Stage 2: src.backup(dst) and its quick_check ...
Backup ==
    /\ pc = "backup"
    /\ IF Sound /\ ~full
       THEN /\ recovered' = [db EXCEPT !.rows = @ \cup wal]
            /\ db' = Merged /\ wal' = LeftInWal
            /\ pc' = "moveAway"
       ELSE /\ recovered' = NoFile
            /\ pc' = "dump"
            /\ UNCHANGED <<db, wal>>
    /\ UNCHANGED <<corrupt, unrecoverable, fresh, full, ghosts>>

\* ... or iterdump, up to the first page it cannot read; statements that
\* fail, on a full disk all of them, are skipped.
Dump ==
    /\ pc = "dump"
    /\ \E rs \in SUBSET (db.rows \cup wal) :
          /\ (full \/ ~Readable) => rs = {}
          /\ \/ recovered' = [rows |-> rs, health |-> "ok"] /\ ~full /\ Readable
             \/ recovered' = EmptyFile /\ rs = {}
    /\ pc' = "moveAway"
    /\ db' = Merged /\ wal' = LeftInWal
    /\ UNCHANGED <<corrupt, unrecoverable, fresh, full, ghosts>>

\* The damaged file is set aside ...  (Mutant: it is thrown away.)
SetAside_Deletes == UNCHANGED corrupt
SetAside == corrupt' = db

MoveAway ==
    /\ pc = "moveAway"
    /\ SetAside /\ db' = NoFile
    /\ pc' = "moveIn"
    /\ UNCHANGED <<wal, recovered, unrecoverable, fresh, full, ghosts>>

\* ... and the recovered one takes its place.
MoveIn ==
    /\ pc = "moveIn"
    /\ db' = recovered /\ recovered' = NoFile
    /\ pc' = "cleanup"
    /\ UNCHANGED <<wal, corrupt, unrecoverable, fresh, full, ghosts>>

\* A move that raises leads to stage 3.
MoveFails ==
    /\ MovesMayFail
    /\ pc \in {"moveAway", "moveIn"}
    /\ pc' = "fallback"
    /\ UNCHANGED <<files, fresh, full, ghosts>>

\* The rest of the -wal and -shm files is removed.
Cleanup ==
    /\ pc = "cleanup"
    /\ wal' = {}
    /\ pc' = "createAll"
    /\ UNCHANGED <<db, recovered, corrupt, unrecoverable, fresh, full, ghosts>>

\* Stage 3: start with an empty database; the move may fail once more.
Fallback ==
    /\ pc = "fallback"
    /\ \/ /\ db # NoFile
          /\ unrecoverable' = db /\ db' = NoFile /\ UNCHANGED unmoved
       \/ /\ unmoved' = (db # NoFile)
          /\ UNCHANGED <<db, unrecoverable>>
    /\ recovered' = NoFile /\ wal' = {}
    /\ pc' = "createAll"
    /\ UNCHANGED <<corrupt, fresh, full, committed, damages, starved, times>>

\* The file create_all opens, created if need be, and gives its tables.
Created ==
    IF db \notin {NoFile, EmptyFile} THEN db
    ELSE IF full THEN EmptyFile ELSE [EmptyFile EXCEPT !.health = "ok"]

\* metadata.create_all (SQLite drops the -wal of a new file): the application
\* serves, or the import of app.main fails.
CreateAll ==
    /\ pc = "createAll"
    /\ db' = Created
    /\ wal' = IF db \in {NoFile, EmptyFile} THEN {} ELSE wal
    /\ pc' = IF db' # NoFile /\ db'.health \in {"unreadable", "empty"} THEN "down" ELSE "serving"
    /\ UNCHANGED <<recovered, corrupt, unrecoverable, fresh, full, ghosts>>

-----------------------------------------------------------------------------

Init ==
    /\ unmoved = FALSE /\ starved = FALSE
    /\ checkedSince = FALSE /\ dayOld = FALSE /\ overdue = FALSE
    /\ db = NoFile /\ recovered = NoFile /\ corrupt = NoFile /\ unrecoverable = NoFile
    /\ wal = {} /\ fresh = FALSE /\ full = FALSE
    /\ pc = "down" /\ committed = {} /\ damages = 0

Recovery == \/ Check \/ Backup \/ Dump \/ MoveAway \/ MoveIn \/ Cleanup \/ Fallback
            \/ CreateAll

Next == \/ Commit \/ Checkpoint \/ Crash \/ Damage \/ TimePasses \/ DiskFills
        \/ Start \/ Recovery \/ MoveFails

Spec == Init /\ [][Next]_vars

(***************************************************************************)
(* The docstring of _recover_sqlite_db: the -wal, which holds committed    *)
(* data not yet in the main file, is not deleted.  What leaves it enters   *)
(* the main file.  On a full disk it is deleted, see DbRecoveryFull.cfg.   *)
(***************************************************************************)
WalIsNotDeleted == [][wal \subseteq wal' \cup RowsOf(db')]_vars

(***************************************************************************)
(* A database that no power failure has damaged is served with every       *)
(* committed row, those in the -wal included, over crashes anywhere and a  *)
(* disk that fills and empties, unless a recovery began on a full disk.    *)
(***************************************************************************)
Served == RowsOf(db) \cup wal
CommittedRowsAreServed ==
    pc = "serving" /\ damages = 0 /\ ~starved => committed \subseteq Served

(***************************************************************************)
(* Recovery destroys no evidence: over crashes anywhere in it, moves that  *)
(* fail and a disk that fills on the way, every committed row a power      *)
(* failure spared is in some file, the one served or one set aside.  (That *)
(* is for one damage: the next recovery overwrites what was set aside.)    *)
(***************************************************************************)
SetAsides == {recovered, corrupt, unrecoverable}
NothingSparedIsDestroyed ==
    ~starved => committed \subseteq Served \cup UNION {RowsOf(f) : f \in SetAsides}

(***************************************************************************)
(* A process that starts a day or more after the damage does not serve the *)
(* damaged file, unless that could not be moved out of the way: the check  *)
(* was then due, whichever checks passed before the damage.  (One that     *)
(* started within the day may serve it, and for as long as it runs: there  *)
(* is no check but at a start.)                                            *)
(***************************************************************************)
LaterStartsFindDamage ==
    pc = "serving" /\ db.health # "ok" => ~overdue \/ unmoved

=============================================================================
