--------------------------- MODULE InstallerProofs ---------------------------
(***************************************************************************)
(* Proofs about InstallerLifecycle, for any number of releases and         *)
(* backups, any retention limits, and any faults, deaths and reboots.      *)
(***************************************************************************)
EXTENDS InstallerLifecycle, TLAPS

(* The provers every leaf below is tried with, in this order, and their    *)
(* time limits in seconds, unless the leaf names one itself.               *)
USE SMTT(15), ZenonT(30), SMTT(20)

(* Control points: before the services are stopped; apply as a whole; the  *)
(* explicit rollback; and from what a step has established onwards.        *)
Staging == {"preflight", "stage", "staged"}
Applying == Staging \cup {"backup"} \cup Trying \cup Undoing \cup {"undone"}
Reverting == RollingBack \cup {"rb_failed"}
Removing == {"unlink", "remove", "removed"}
FromActivated == {"activated", "retain", "receipt", "write", "commit"}
FromUnits == {"units", "activate"} \cup FromActivated
FromMigrated == {"migrated"} \cup FromUnits
Points == {"idle"} \cup Applying \cup Reverting \cup Removing

Databases == [rev : 0 .. Newest, data : Nat]

Steps == {"none", "preflight", "release_staging_started", "release_staged",
          "database_migration_started", "database_migrated", "units_installed",
          "release_activated", "receipt_write_started", "receipt_written", "rollback_attempted",
          "rollback_preflight", "database_restored", "rollback_activated"}

Journals == [status : {"none", "running", "committed", "rollback_verified",
                       "rollback_verification_failed"},
             version : 0 .. Newest, step : Steps, fresh : BOOLEAN, defer : BOOLEAN]

Receipts == [active : 0 .. Newest, previous : 0 .. Newest, backup : Nat, removed : BOOLEAN]

Ops == [pc : Points, version : 0 .. Newest, previous : 0 .. Newest, backup : Nat,
        activated : BOOLEAN, fresh : BOOLEAN, defer : BOOLEAN, before : Databases,
        verified : BOOLEAN]

TypeOK ==
    /\ journal \in Journals /\ receipt \in Receipts
    /\ link \in 0 .. Newest /\ stale \in BOOLEAN /\ releases \subseteq Versions /\ units \in BOOLEAN
    /\ backups \in Seq([version : 0 .. Newest, db : Databases])
    /\ db \in Databases
    /\ services \in BOOLEAN /\ enabled \in BOOLEAN
    /\ op \in Ops

-----------------------------------------------------------------------------
Closed == journal.status \notin {"running", "rollback_verification_failed"}

(* What the receipt calls active is the database's revision.               *)
Sound == Current # 0 /\ receipt.active = Current => db.rev = Current

Reversible(r, rs, bs) ==
    /\ r.previous \in rs /\ r.backup \in DOMAIN bs
    /\ bs[r.backup].version = r.previous /\ bs[r.backup].db.rev = r.previous

(* What the files are when no transaction is open, and the installed units. *)
DiskOK ==
    /\ link # 0 => units
    /\ Closed => Sound
    /\ journal.status = "committed" /\ link # 0 /\ receipt.backup # 0
          => Reversible(receipt, releases, backups)

(* What the running operation o relies on.  An upgrade is one from a        *)
(* release, o.previous, whose database the backup o.backup has, as it was   *)
(* when the services had been stopped.                                      *)
Upgrade(o) == o.previous # 0

CommonOK(o) ==
    /\ o.pc \in Applying \cup Reverting =>
          journal.status = "running" /\ o.version \in Versions
    /\ o.pc \in Removing => ~Upgrade(o)
    /\ o.pc \in {"remove", "removed"} => link = 0
    /\ o.pc \in Reverting => Upgrade(o)
    /\ Upgrade(o) => units /\ o.previous \in releases
    /\ o.pc \in {"staged", "backup"} \cup Trying \cup Reverting => o.version \in releases

ApplyOK(o) ==
    /\ o.pc \in Staging /\ Upgrade(o) => db.rev = o.previous
    /\ o.pc = "backup" /\ Upgrade(o) => db = o.before /\ db.rev = o.previous /\ ~services
    /\ o.pc \in {"undo_disable", "undo_link", "undo_database"} => ~Upgrade(o)
    /\ o.pc = "undo_migration" => Upgrade(o) /\ ~services
    /\ o.pc \in Trying \cup {"undo", "undo_migration"} /\ Upgrade(o) =>
          /\ o.backup \in DOMAIN backups
          /\ backups[o.backup] = [version |-> o.previous, db |-> o.before]
          /\ o.before.rev = o.previous
    /\ o.pc \in Applying /\ ~Upgrade(o) => o.backup = 0
    /\ o.pc \in {"undo_activate", "undo_verify"} => db = o.before /\ ~services
    /\ o.pc = "undo_verify" => link = o.previous
    /\ o.pc \in FromMigrated => db.rev = o.version
    /\ o.pc \in FromUnits => units
    /\ o.pc \in FromActivated => link = o.version
    /\ o.pc = "commit" => receipt = [active |-> o.version, previous |-> o.previous,
                                     backup |-> o.backup, removed |-> FALSE]
    /\ o.pc \in Applying \ {"undone"} => ~o.verified
    /\ o.pc = "undone" /\ o.verified => Current = 0 \/ db.rev = Current

RevertOK(o) ==
    /\ o.pc = "rb_restore" => o.backup \in DOMAIN backups /\ backups[o.backup].db.rev = o.version
    /\ o.pc \in {"rb_receipt", "rb_commit"} => Current = o.version /\ db.rev = o.version
    /\ o.pc = "rb_commit" => receipt.active = o.version /\ receipt.backup = 0

IInv == TypeOK /\ DiskOK /\ CommonOK(op) /\ ApplyOK(op) /\ RevertOK(op)

-----------------------------------------------------------------------------
(* The fields of the operation that a step which only moves it keeps.       *)
Same(o, q) ==
    /\ q \in Ops
    /\ q.version = o.version /\ q.previous = o.previous /\ q.backup = o.backup
    /\ q.activated = o.activated /\ q.fresh = o.fresh /\ q.defer = o.defer
    /\ q.before = o.before /\ q.verified = o.verified

LEMMA Moved ==
    ASSUME op \in Ops, NEW p \in Points, Goto(p)
    PROVE  Same(op, op') /\ op'.pc = p
  BY DEF Goto, Same, Ops

LEMMA Recorded ==
    ASSUME op \in Ops, NEW st \in {"running", "committed", "rollback_verified",
                                   "rollback_verification_failed"},
           NEW step \in Steps, Record(st, step)
    PROVE  journal' \in Journals /\ journal'.status = st
  BY DEF Record, Journals, Ops

LEMMA IdleIs == Idle \in Ops /\ Idle.pc = "idle" /\ Idle.previous = 0
  <1>1. 0 \in 0 .. Newest /\ 0 \in Nat /\ NoDatabase \in Databases /\ "idle" \in Points
    BY InstallerAssumption DEF NoDatabase, Databases, Points
  <1> QED BY <1>1, ZenonT(30) DEF Idle, Ops

(* No operation runs.                                                       *)
LEMMA IdleStep ==
    ASSUME op' = Idle \/ (op' \in Ops /\ op'.pc = "idle" /\ op'.previous = 0)
    PROVE  op' \in Ops /\ CommonOK(op)' /\ ApplyOK(op)' /\ RevertOK(op)'
  <1>1. op' \in Ops /\ op'.pc = "idle" /\ op'.previous = 0
    BY IdleIs
  <1> QED BY <1>1 DEF CommonOK, ApplyOK, RevertOK, Upgrade, Applying, Reverting, Staging,
             Trying,
                      Undoing, RollingBack, Removing, FromActivated, FromUnits, FromMigrated

(* The release that is current.                                             *)
LEMMA CurrentIs ==
    ASSUME TypeOK
    PROVE  /\ Current \in releases \cup {0} /\ Current \in 0 .. Newest
           /\ Current # 0 => Current = link /\ link \in releases
           /\ link \in releases => Current = link /\ Current # 0
           /\ link = 0 => Current = 0
  BY InstallerAssumption DEF TypeOK, Current, Versions

(* Membership in the sets of control points and steps.                      *)
LEMMA PointsAre ==
    /\ {"idle", "preflight", "stage", "staged", "backup", "begin", "migrate", "migrated", "units",
        "activate", "activated", "retain", "receipt", "write", "commit", "undo", "undo_disable",
        "undo_link", "undo_database", "undo_migration", "undo_activate", "undo_verify", "undone",
        "rb_restore", "rb_activate", "rb_verify", "rb_receipt", "rb_commit", "rb_failed",
        "unlink", "remove", "removed"} \subseteq Points
  BY DEF Points, Applying, Reverting, Removing, Staging, Trying, Undoing, RollingBack

-----------------------------------------------------------------------------
(* apply and resume_install.                                                *)
USE DEF Upgrade, Applying, Reverting, Staging, Trying, Undoing, RollingBack, Removing,
        FromActivated, FromUnits, FromMigrated

LEMMA BeginStagingStep == ASSUME IInv, BeginStaging PROVE IInv'
  <1>1. /\ op.pc = "preflight" /\ Goto("stage") /\ Record("running", "release_staging_started")
        /\ UNCHANGED <<receipt, link, stale, releases, units, backups, db, services, enabled>>
    BY DEF BeginStaging, At, host
  <1>2. Same(op, op') /\ op'.pc = "stage" /\ journal' \in Journals /\ journal'.status = "running"
    BY <1>1, Moved, PointsAre, Recorded DEF IInv, TypeOK, Steps
  <1>3. TypeOK'
    BY <1>1, <1>2 DEF IInv, TypeOK, Same
  <1>4. DiskOK'
    BY <1>1, <1>2 DEF IInv, DiskOK, CommonOK, Closed
  <1>5. CommonOK(op)' /\ ApplyOK(op)' /\ RevertOK(op)'
    BY <1>1, <1>2 DEF IInv, CommonOK, ApplyOK, RevertOK, Same
  <1> QED BY <1>3, <1>4, <1>5 DEF IInv

LEMMA StageReleaseStep == ASSUME IInv, StageRelease PROVE IInv'
  <1>1. /\ op.pc = "stage" /\ Goto("staged")
        /\ releases' = releases \cup {op.version}
        /\ UNCHANGED <<journal, receipt, link, stale, units, backups, db, services, enabled>>
    BY DEF StageRelease, At, host
  <1>2. Same(op, op') /\ op'.pc = "staged"
    BY <1>1, Moved, PointsAre DEF IInv, TypeOK
  <1>3. TypeOK'
    BY <1>1, <1>2 DEF IInv, TypeOK, Same, CommonOK
  <1>4. DiskOK'
    BY <1>1, <1>2 DEF IInv, DiskOK, CommonOK, Closed
  <1>5. CommonOK(op)' /\ ApplyOK(op)' /\ RevertOK(op)'
    BY <1>1, <1>2 DEF IInv, CommonOK, ApplyOK, RevertOK, Same
  <1> QED BY <1>3, <1>4, <1>5 DEF IInv

LEMMA BeginMigrationStep == ASSUME IInv, BeginMigration PROVE IInv'
  <1>1. /\ op.pc = "begin" /\ Goto("migrate") /\ Record("running", "database_migration_started")
        /\ UNCHANGED <<receipt, link, stale, releases, units, backups, db, services, enabled>>
    BY DEF BeginMigration, At, host
  <1>2. Same(op, op') /\ op'.pc = "migrate" /\ journal' \in Journals /\ journal'.status = "running"
    BY <1>1, Moved, PointsAre, Recorded DEF IInv, TypeOK, Steps
  <1>3. TypeOK'
    BY <1>1, <1>2 DEF IInv, TypeOK, Same
  <1>4. DiskOK'
    BY <1>1, <1>2 DEF IInv, DiskOK, CommonOK, Closed
  <1>5. CommonOK(op)' /\ ApplyOK(op)' /\ RevertOK(op)'
    BY <1>1, <1>2 DEF IInv, CommonOK, ApplyOK, RevertOK, Same
  <1> QED BY <1>3, <1>4, <1>5 DEF IInv

LEMMA InstallUnitsStep == ASSUME IInv, InstallUnits PROVE IInv'
  <1>1. /\ op.pc = "migrated" /\ Goto("units") /\ Record("running", "database_migrated")
        /\ units' = TRUE
        /\ UNCHANGED <<receipt, link, stale, releases, backups, db, services, enabled>>
    BY DEF InstallUnits, At, host
  <1>2. Same(op, op') /\ op'.pc = "units" /\ journal' \in Journals /\ journal'.status = "running"
    BY <1>1, Moved, PointsAre, Recorded DEF IInv, TypeOK, Steps
  <1>3. TypeOK'
    BY <1>1, <1>2 DEF IInv, TypeOK, Same
  <1>4. DiskOK'
    BY <1>1, <1>2 DEF IInv, DiskOK, CommonOK, Closed
  <1>5. CommonOK(op)' /\ ApplyOK(op)' /\ RevertOK(op)'
    BY <1>1, <1>2 DEF IInv, CommonOK, ApplyOK, RevertOK, Same
  <1> QED BY <1>3, <1>4, <1>5 DEF IInv

LEMMA UnitsInstalledStep == ASSUME IInv, UnitsInstalled PROVE IInv'
  <1>1. /\ op.pc = "units" /\ Goto("activate") /\ Record("running", "units_installed")
        /\ UNCHANGED <<receipt, link, stale, releases, units, backups, db, services, enabled>>
    BY DEF UnitsInstalled, At, host
  <1>2. Same(op, op') /\ op'.pc = "activate" /\ journal' \in Journals /\ journal'.status = "running"
    BY <1>1, Moved, PointsAre, Recorded DEF IInv, TypeOK, Steps
  <1>3. TypeOK'
    BY <1>1, <1>2 DEF IInv, TypeOK, Same
  <1>4. DiskOK'
    BY <1>1, <1>2 DEF IInv, DiskOK, CommonOK, Closed
  <1>5. CommonOK(op)' /\ ApplyOK(op)' /\ RevertOK(op)'
    BY <1>1, <1>2 DEF IInv, CommonOK, ApplyOK, RevertOK, Same
  <1> QED BY <1>3, <1>4, <1>5 DEF IInv

LEMMA StartServicesStep == ASSUME IInv, StartServices PROVE IInv'
  <1>1. /\ op.pc = "activated" /\ Goto("retain") /\ Record("running", "release_activated")
        /\ services' = (services \/ ~op.defer) /\ enabled' = (enabled \/ ~op.defer)
        /\ UNCHANGED <<receipt, link, stale, releases, units, backups, db>>
    BY DEF StartServices, At, host
  <1>2. Same(op, op') /\ op'.pc = "retain" /\ journal' \in Journals /\ journal'.status = "running"
    BY <1>1, Moved, PointsAre, Recorded DEF IInv, TypeOK, Steps
  <1>3. TypeOK'
    BY <1>1, <1>2 DEF IInv, TypeOK, Same, Ops
  <1>4. DiskOK'
    BY <1>1, <1>2 DEF IInv, DiskOK, CommonOK, Closed
  <1>5. CommonOK(op)' /\ ApplyOK(op)' /\ RevertOK(op)'
    BY <1>1, <1>2 DEF IInv, CommonOK, ApplyOK, RevertOK, Same
  <1> QED BY <1>3, <1>4, <1>5 DEF IInv

LEMMA BeginReceiptStep == ASSUME IInv, BeginReceipt PROVE IInv'
  <1>1. /\ op.pc = "receipt" /\ Goto("write") /\ Record("running", "receipt_write_started")
        /\ UNCHANGED <<receipt, link, stale, releases, units, backups, db, services, enabled>>
    BY DEF BeginReceipt, At, host
  <1>2. Same(op, op') /\ op'.pc = "write" /\ journal' \in Journals /\ journal'.status = "running"
    BY <1>1, Moved, PointsAre, Recorded DEF IInv, TypeOK, Steps
  <1>3. TypeOK'
    BY <1>1, <1>2 DEF IInv, TypeOK, Same
  <1>4. DiskOK'
    BY <1>1, <1>2 DEF IInv, DiskOK, CommonOK, Closed
  <1>5. CommonOK(op)' /\ ApplyOK(op)' /\ RevertOK(op)'
    BY <1>1, <1>2 DEF IInv, CommonOK, ApplyOK, RevertOK, Same
  <1> QED BY <1>3, <1>4, <1>5 DEF IInv

LEMMA StagedStep == ASSUME IInv, Staged PROVE IInv'
  <1>1. /\ op.pc = "staged" /\ op' = [op EXCEPT !.pc = "backup", !.before = db]
        /\ Record("running", "release_staged") /\ services' = (services /\ op.previous = 0)
        /\ UNCHANGED <<receipt, link, stale, releases, units, backups, db, enabled>>
    BY DEF Staged, At
  <1>2. journal' \in Journals /\ journal'.status = "running"
    BY <1>1, Recorded DEF IInv, TypeOK, Steps
  <1>3. /\ op' \in Ops /\ op'.pc = "backup" /\ op'.before = db /\ op'.version = op.version
        /\ op'.previous = op.previous /\ op'.backup = op.backup /\ op'.verified = op.verified
    BY <1>1, PointsAre, ZenonT(30) DEF IInv, TypeOK, Ops
  <1>4. TypeOK'
    BY <1>1, <1>2, <1>3 DEF IInv, TypeOK
  <1>5. DiskOK'
    BY <1>1, <1>2 DEF IInv, DiskOK, Closed
  <1>6. op.previous # 0 => ~services'
    BY <1>1, ZenonT(30)
  <1>7. UNCHANGED <<receipt, link, stale, releases, units, backups, db>> /\ op.pc = "staged"
    BY <1>1, ZenonT(30)
  <1>8. CommonOK(op)' /\ ApplyOK(op)' /\ RevertOK(op)'
    BY <1>2, <1>3, <1>6, <1>7 DEF IInv, CommonOK, ApplyOK, RevertOK
  <1> QED BY <1>4, <1>5, <1>8 DEF IInv

(* _backup_before_change: an upgrade has a backup of the database as the    *)
(* stopped services left it.                                                *)
LEMMA BackupStep == ASSUME IInv, Backup PROVE IInv'
  <1> USE DEF Databases
  <1>1. /\ op.pc = "backup" /\ journal.status = "running"
        /\ UNCHANGED <<journal, receipt, link, stale, releases, units, db, enabled>>
    BY DEF Backup, At, IInv, CommonOK
  <1>2. Upgrade(op) => db = op.before /\ db.rev = op.previous /\ db # NoDatabase
    BY <1>1 DEF IInv, TypeOK, ApplyOK, NoDatabase
  <1>3. CASE (op.previous = 0 \/ db = NoDatabase) /\ Goto("begin") /\ UNCHANGED <<backups, services>>
    <2>1. Same(op, op') /\ op'.pc = "begin" /\ op.previous = 0
      BY <1>2, <1>3, Moved, PointsAre DEF IInv, TypeOK
    <2>2. TypeOK' /\ DiskOK'
      BY <1>1, <1>3, <2>1 DEF IInv, TypeOK, DiskOK, Closed, Same
    <2>3. CommonOK(op)' /\ ApplyOK(op)' /\ RevertOK(op)'
      BY <1>1, <1>3, <2>1 DEF IInv, CommonOK, ApplyOK, RevertOK, Same
    <2> QED BY <2>2, <2>3 DEF IInv
  <1>4. CASE /\ op.previous # 0
             /\ backups' = Append(backups, [version |-> op.previous, db |-> db])
             /\ op' = [op EXCEPT !.pc = "begin", !.backup = Len(backups')]
             /\ UNCHANGED services
    <2> DEFINE b == [version |-> op.previous, db |-> db]
               n == Len(backups) + 1
    <2>1. b \in [version : 0 .. Newest, db : Databases]
      BY DEF IInv, TypeOK, Ops
    <2> HIDE DEF b
    <2>2. /\ backups' \in Seq([version : 0 .. Newest, db : Databases])
          /\ Len(backups') = n /\ n \in Nat /\ n \in DOMAIN backups' /\ backups'[n] = b
      BY <1>4, <2>1 DEF IInv, TypeOK, b
    <2> HIDE DEF n
    <2>3. /\ op' \in Ops /\ op'.pc = "begin" /\ op'.backup = n /\ op'.version = op.version
          /\ op'.previous = op.previous /\ op'.before = op.before /\ op'.verified = op.verified
      BY <1>4, <2>2, PointsAre, ZenonT(30) DEF IInv, TypeOK, Ops
    <2>4. TypeOK' /\ DiskOK'
      BY <1>1, <1>4, <2>2, <2>3 DEF IInv, TypeOK, DiskOK, Closed
    <2>5. backups'[n] = [version |-> op.previous, db |-> op.before]
      BY <1>2, <1>4, <2>2 DEF b
    <2>6. CommonOK(op)' /\ ApplyOK(op)' /\ RevertOK(op)'
      BY <1>1, <1>2, <1>4, <2>2, <2>3, <2>5 DEF IInv, CommonOK, ApplyOK, RevertOK
    <2> QED BY <2>4, <2>6 DEF IInv
  <1>5. CASE op' = Idle /\ services' = TRUE /\ UNCHANGED backups
    <2>1. op' \in Ops /\ CommonOK(op)' /\ ApplyOK(op)' /\ RevertOK(op)'
      BY <1>5, IdleStep
    <2>2. TypeOK' /\ DiskOK'
      BY <1>1, <1>5, <2>1 DEF IInv, TypeOK, DiskOK, Closed
    <2> QED BY <2>1, <2>2 DEF IInv
  <1> QED BY <1>3, <1>4, <1>5, ZenonT(30) DEF Backup

LEMMA MigrateStep == ASSUME IInv, Migrate PROVE IInv'
  <1>1. /\ op.pc = "migrate" /\ journal.status = "running" /\ op.version \in Versions
        /\ UNCHANGED <<journal, receipt, link, stale, releases, units, backups, services, enabled>>
    BY DEF Migrate, At, host, IInv, CommonOK
  <1>2. PICK r \in 0 .. Newest :
           db' = [db EXCEPT !.rev = r] /\ (Goto("undo") \/ (Goto("migrated") /\ r = op.version))
    <2>1. op.version \in 0 .. Newest /\ db.rev \in 0 .. Newest
      BY <1>1 DEF IInv, TypeOK, Databases, Versions, Ops
    <2> QED BY <2>1, InstallerAssumption DEF Migrate
  <1>3. db' \in Databases /\ db'.rev = r
    BY <1>2 DEF IInv, TypeOK, Databases
  <1>4. Same(op, op') /\ (op'.pc = "undo" \/ (op'.pc = "migrated" /\ r = op.version))
    BY <1>2, Moved, PointsAre DEF IInv, TypeOK
  <1>5. TypeOK' /\ DiskOK'
    BY <1>1, <1>3, <1>4 DEF IInv, TypeOK, DiskOK, Closed, Same
  <1>6. CommonOK(op)' /\ ApplyOK(op)' /\ RevertOK(op)'
    BY <1>1, <1>3, <1>4 DEF IInv, CommonOK, ApplyOK, RevertOK, Same
  <1> QED BY <1>5, <1>6 DEF IInv

LEMMA ActivateStep == ASSUME IInv, Activate PROVE IInv'
  <1>1. /\ op.pc = "activate" /\ link' = op.version /\ journal.status = "running"
        /\ op' = [op EXCEPT !.pc = "activated", !.activated = TRUE]
        /\ UNCHANGED <<journal, receipt, stale, releases, units, backups, db, services, enabled>>
    BY DEF Activate, Switch, At, host, IInv, CommonOK
  <1>2. /\ op' \in Ops /\ op'.pc = "activated" /\ op'.version = op.version
        /\ op'.previous = op.previous /\ op'.backup = op.backup /\ op'.before = op.before
        /\ op'.verified = op.verified
    BY <1>1, PointsAre, ZenonT(30) DEF IInv, TypeOK, Ops
  <1>3. TypeOK'
    BY <1>1, <1>2 DEF IInv, TypeOK, Ops
  <1>4. DiskOK'
    BY <1>1 DEF IInv, DiskOK, ApplyOK, Closed
  <1>5. CommonOK(op)' /\ ApplyOK(op)' /\ RevertOK(op)'
    BY <1>1, <1>2 DEF IInv, CommonOK, ApplyOK, RevertOK
  <1> QED BY <1>3, <1>4, <1>5 DEF IInv

(* enforce_retention keeps what is protected.                               *)
LEMMA ProtectedIsKept ==
    ASSUME NEW present, NEW protected, NEW limit, NEW x \in protected
    PROVE  x \in Retained(present, protected, limit)
  BY ZenonT(30) DEF Retained

LEMMA RetainStep == ASSUME IInv, Retain PROVE IInv'
  <1> DEFINE keptBackups == Retained(Backups, {op.backup} \ {0}, BackupLimit)
             keptReleases == Retained(releases, {op.version, op.previous} \ {0}, ReleaseLimit)
  <1>1. /\ op.pc = "retain" /\ journal.status = "running" /\ op.version \in Versions
        /\ UNCHANGED <<journal, receipt, link, stale, units, db, services, enabled>>
    BY DEF Retain, At, host, IInv, CommonOK
  <1>2. PICK lost \in SUBSET (Backups \ keptBackups), gone \in SUBSET (releases \ keptReleases) :
           /\ backups' = [b \in DOMAIN backups |-> IF b \in lost THEN NoBackup ELSE backups[b]]
           /\ releases' = releases \ gone
           /\ Goto("receipt") \/ Goto("undo")
    BY ZenonT(30) DEF Retain
  <1>3. /\ op.backup # 0 => op.backup \in keptBackups
        /\ op.version # 0 => op.version \in keptReleases
        /\ op.previous # 0 => op.previous \in keptReleases
    BY ProtectedIsKept
  <1> HIDE DEF keptBackups, keptReleases
  <1>4. Same(op, op') /\ op'.pc \in {"receipt", "undo"}
    BY <1>2, Moved, PointsAre DEF IInv, TypeOK
  <1>5. backups' \in Seq([version : 0 .. Newest, db : Databases]) /\ DOMAIN backups' = DOMAIN backups
    <2>1. NoBackup \in [version : 0 .. Newest, db : Databases]
      BY InstallerAssumption DEF NoBackup, NoDatabase, Databases
    <2> DEFINE T == [version : 0 .. Newest, db : Databases]
    <2>2. backups \in Seq(T) /\ NoBackup \in T
      BY <2>1 DEF IInv, TypeOK
    <2> HIDE DEF T
    <2>3. backups' \in [1 .. Len(backups) -> T] /\ Len(backups) \in Nat
          /\ DOMAIN backups' = DOMAIN backups
      BY <1>2, <2>2
    <2>4. backups' \in Seq(T)
      BY <2>3
    <2> QED BY <2>3, <2>4 DEF T
  <1>6. /\ op.backup \in DOMAIN backups /\ op.backup # 0 => backups'[op.backup] = backups[op.backup]
        /\ op.version \in releases => op.version \in releases'
        /\ op.previous # 0 /\ op.previous \in releases => op.previous \in releases'
    <2>1. op.version # 0
      BY <1>1 DEF Versions
    <2> QED BY <1>2, <1>3, <2>1
  <1>7. op.backup \in DOMAIN backups => op.backup # 0
    BY DEF IInv, TypeOK
  <1>8. TypeOK'
    BY <1>1, <1>2, <1>4, <1>5 DEF IInv, TypeOK, Same
  <1>9. DiskOK'
    BY <1>1 DEF IInv, DiskOK, Closed
  <1>10. CommonOK(op)' /\ ApplyOK(op)' /\ RevertOK(op)'
    BY <1>1, <1>4, <1>5, <1>6, <1>7 DEF IInv, CommonOK, ApplyOK, RevertOK, Same
  <1> QED BY <1>8, <1>9, <1>10 DEF IInv

LEMMA WriteReceiptStep == ASSUME IInv, WriteReceipt PROVE IInv'
  <1>1. /\ op.pc = "write" /\ Goto("commit") /\ journal.status = "running"
        /\ receipt' = [active |-> op.version, previous |-> op.previous, backup |-> op.backup,
                       removed |-> FALSE]
        /\ UNCHANGED <<journal, link, stale, releases, units, backups, db, services, enabled>>
    BY DEF WriteReceipt, At, host, IInv, CommonOK
  <1>2. Same(op, op') /\ op'.pc = "commit"
    BY <1>1, Moved, PointsAre DEF IInv, TypeOK
  <1>3. TypeOK'
    BY <1>1, <1>2 DEF IInv, TypeOK, Same, Ops, Receipts
  <1>4. DiskOK'
    BY <1>1 DEF IInv, DiskOK, Closed
  <1>5. CommonOK(op)' /\ ApplyOK(op)' /\ RevertOK(op)'
    BY <1>1, <1>2 DEF IInv, CommonOK, ApplyOK, RevertOK, Same
  <1> QED BY <1>3, <1>4, <1>5 DEF IInv

(* The journal is closed on a receipt that is true, and with a way back.    *)
LEMMA CommitStep == ASSUME IInv, Commit PROVE IInv'
  <1>1. /\ op.pc \in {"commit", "rb_commit"} /\ op' = Idle /\ Record("committed", "receipt_written")
        /\ UNCHANGED <<receipt, link, stale, releases, units, backups, db, services, enabled>>
    BY DEF Commit, At, host
  <1>2. journal' \in Journals /\ journal'.status = "committed"
    BY <1>1, Recorded DEF IInv, TypeOK, Steps
  <1>3. op' \in Ops /\ CommonOK(op)' /\ ApplyOK(op)' /\ RevertOK(op)'
    BY <1>1, IdleStep
  <1>4. TypeOK'
    BY <1>1, <1>2, <1>3 DEF IInv, TypeOK
  <1>5. CASE op.pc = "rb_commit"
    <2>1. receipt.backup = 0 /\ db.rev = Current
      BY <1>5 DEF IInv, RevertOK
    <2>2. Sound'
      BY <1>1, <2>1 DEF Sound, Current
    <2> QED BY <1>1, <1>2, <1>3, <1>4, <2>1, <2>2 DEF IInv, DiskOK
  <1>6. CASE op.pc = "commit"
    <2>1. /\ receipt.active = op.version /\ receipt.previous = op.previous
          /\ receipt.backup = op.backup /\ link = op.version /\ db.rev = op.version
          /\ op.version \in releases
      BY <1>6 DEF IInv, ApplyOK, CommonOK
    <2>2. Sound'
      BY <1>1, <2>1 DEF Sound, Current
    <2>3. op.backup # 0 => Reversible(receipt, releases, backups)
      BY <1>6, <2>1 DEF IInv, ApplyOK, CommonOK, Reversible
    <2> QED BY <1>1, <1>2, <1>3, <1>4, <2>1, <2>2, <2>3 DEF IInv, DiskOK
  <1> QED BY <1>1, <1>5, <1>6

-----------------------------------------------------------------------------
(* _rollback_failed_change.                                                 *)
LEMMA UndoStopStep == ASSUME IInv, UndoStop PROVE IInv'
  <1>1. /\ op.pc = "undo" /\ journal.status = "running" /\ services' = FALSE
        /\ Goto(IF op.previous = 0 THEN "undo_disable" ELSE "undo_migration")
        /\ UNCHANGED <<journal, receipt, link, stale, releases, units, backups, db, enabled>>
    BY DEF UndoStop, At, disk, IInv, CommonOK
  <1>2. /\ Same(op, op')
        /\ op'.pc = IF op.previous = 0 THEN "undo_disable" ELSE "undo_migration"
    BY <1>1, Moved, PointsAre DEF IInv, TypeOK
  <1>3. TypeOK'
    BY <1>1, <1>2, ZenonT(30) DEF IInv, TypeOK, Same
  <1>4. DiskOK'
    BY <1>1 DEF IInv, DiskOK, Closed
  <1>5. CommonOK(op)' /\ ApplyOK(op)' /\ RevertOK(op)'
    BY <1>1, <1>2 DEF IInv, CommonOK, ApplyOK, RevertOK, Same
  <1> QED BY <1>3, <1>4, <1>5 DEF IInv

LEMMA UndoEnableStep == ASSUME IInv, UndoEnable PROVE IInv'
  <1>1. /\ op.pc = "undo_disable" /\ journal.status = "running" /\ Goto("undo_link")
        /\ services' = FALSE /\ enabled' = FALSE
        /\ UNCHANGED <<journal, receipt, link, stale, releases, units, backups, db>>
    BY DEF UndoEnable, At, disk, IInv, CommonOK
  <1>2. Same(op, op') /\ op'.pc = "undo_link"
    BY <1>1, Moved, PointsAre DEF IInv, TypeOK
  <1>3. TypeOK'
    BY <1>1, <1>2, ZenonT(30) DEF IInv, TypeOK, Same
  <1>4. DiskOK'
    BY <1>1 DEF IInv, DiskOK, Closed
  <1>5. CommonOK(op)' /\ ApplyOK(op)' /\ RevertOK(op)'
    BY <1>1, <1>2 DEF IInv, CommonOK, ApplyOK, RevertOK, Same
  <1> QED BY <1>3, <1>4, <1>5 DEF IInv

LEMMA UndoLinkStep == ASSUME IInv, UndoLink PROVE IInv'
  <1>1. /\ op.pc = "undo_link" /\ journal.status = "running" /\ Goto("undo_database")
        /\ link' \in {0, link}
        /\ UNCHANGED <<journal, receipt, stale, releases, units, backups, db, services, enabled>>
    BY DEF UndoLink, At, host, IInv, CommonOK
  <1>2. Same(op, op') /\ op'.pc = "undo_database"
    BY <1>1, Moved, PointsAre DEF IInv, TypeOK
  <1>3. TypeOK'
    <2>1. link' \in 0 .. Newest
      BY <1>1, InstallerAssumption DEF IInv, TypeOK
    <2> QED BY <1>1, <1>2, <2>1, ZenonT(30) DEF IInv, TypeOK, Same
  <1>4. DiskOK'
    BY <1>1 DEF IInv, DiskOK, Closed
  <1>5. CommonOK(op)' /\ ApplyOK(op)' /\ RevertOK(op)'
    BY <1>1, <1>2 DEF IInv, CommonOK, ApplyOK, RevertOK, Same
  <1> QED BY <1>3, <1>4, <1>5 DEF IInv

(* A first install is called undone only when nothing of it is current.     *)
LEMMA UndoDatabaseStep == ASSUME IInv, UndoDatabase PROVE IInv'
  <1> DEFINE gone == op.fresh /\ Current = 0 /\ db' = NoDatabase
  <1>1. /\ op.pc = "undo_database" /\ journal.status = "running" /\ db' \in {db, NoDatabase}
        /\ op' = [op EXCEPT !.pc = "undone", !.verified = gone]
        /\ UNCHANGED <<journal, receipt, link, stale, releases, units, backups, services, enabled>>
    BY DEF UndoDatabase, RemovedDatabase, At, host, IInv, CommonOK
  <1>2. gone \in BOOLEAN
    OBVIOUS
  <1>3. /\ op' \in Ops /\ op'.pc = "undone" /\ op'.version = op.version
        /\ op'.previous = op.previous /\ op'.backup = op.backup /\ op'.verified = gone
    <2> HIDE DEF gone
    <2> QED BY <1>1, <1>2, PointsAre, ZenonT(30) DEF IInv, TypeOK, Ops
  <1>4. NoDatabase \in Databases
    BY InstallerAssumption DEF NoDatabase, Databases
  <1>5. TypeOK'
    <2>1. /\ db' \in Databases /\ op' \in Ops
          /\ UNCHANGED <<journal, receipt, link, stale, releases, units, backups, services, enabled>>
      BY <1>1, <1>3, <1>4, ZenonT(30) DEF IInv, TypeOK
    <2> QED BY <2>1, ZenonT(30) DEF IInv, TypeOK
  <1>6. DiskOK'
    BY <1>1 DEF IInv, DiskOK, Closed
  <1>7. op'.verified => Current' = 0
    <2>1. op'.verified => Current = 0
      BY <1>3, ZenonT(30)
    <2> QED BY <1>1, <2>1 DEF Current
  <1>8. op.backup = 0 /\ op.version \in Versions /\ op.previous = 0
    BY <1>1 DEF IInv, ApplyOK, CommonOK
  <1>9. CommonOK(op)' /\ ApplyOK(op)' /\ RevertOK(op)'
    <2> HIDE DEF gone
    <2> QED BY <1>1, <1>3, <1>7, <1>8 DEF CommonOK, ApplyOK, RevertOK
  <1> QED BY <1>5, <1>6, <1>9 DEF IInv

(* _restore_backup gives an upgrade its own database back.                  *)
LEMMA UndoMigrationStep == ASSUME IInv, UndoMigration PROVE IInv'
  <1>1. /\ op.pc = "undo_migration" /\ op.previous # 0 /\ journal.status = "running"
        /\ ~services /\ db' = Restored(op.backup) /\ Goto("undo_activate")
        /\ UNCHANGED <<journal, receipt, link, stale, releases, units, backups, services, enabled>>
    BY DEF UndoMigration, At, host, IInv, CommonOK, ApplyOK
  <1>2. Same(op, op') /\ op'.pc = "undo_activate"
    BY <1>1, Moved, PointsAre DEF IInv, TypeOK
  <1>3. db' = op.before
    <2>1. op.backup \in DOMAIN backups /\ backups[op.backup].db = op.before
      BY <1>1 DEF IInv, ApplyOK
    <2>2. op.backup # 0
      BY <2>1 DEF IInv, TypeOK
    <2> QED BY <1>1, <2>1, <2>2 DEF Restored
  <1>4. TypeOK'
    BY <1>1, <1>2, <1>3, ZenonT(30) DEF IInv, TypeOK, Same, Ops
  <1>5. DiskOK'
    BY <1>1 DEF IInv, DiskOK, Closed
  <1>6. CommonOK(op)' /\ ApplyOK(op)' /\ RevertOK(op)'
    BY <1>1, <1>2, <1>3 DEF IInv, CommonOK, ApplyOK, RevertOK, Same
  <1> QED BY <1>4, <1>5, <1>6 DEF IInv

LEMMA UndoActivationStep == ASSUME IInv, UndoActivation PROVE IInv'
  <1>1. /\ op.pc = "undo_activate" /\ Goto("undo_verify") /\ journal.status = "running"
        /\ link' = op.previous /\ op.previous \in releases
        /\ UNCHANGED <<journal, receipt, stale, releases, units, backups, db, services, enabled>>
    BY DEF UndoActivation, Switch, At, host, IInv, CommonOK
  <1>2. Same(op, op') /\ op'.pc = "undo_verify"
    BY <1>1, Moved, PointsAre DEF IInv, TypeOK
  <1>3. TypeOK'
    BY <1>1, <1>2 DEF IInv, TypeOK, Same, Ops
  <1>4. DiskOK'
    BY <1>1 DEF IInv, DiskOK, CommonOK, Closed
  <1>5. CommonOK(op)' /\ ApplyOK(op)' /\ RevertOK(op)'
    BY <1>1, <1>2 DEF IInv, CommonOK, ApplyOK, RevertOK, Same
  <1> QED BY <1>3, <1>4, <1>5 DEF IInv

LEMMA UndoVerifyStep == ASSUME IInv, UndoVerify PROVE IInv'
  <1>1. /\ op.pc = "undo_verify" /\ services' = TRUE /\ journal.status = "running"
        /\ op' = [op EXCEPT !.pc = "undone", !.verified = Verified(op.previous)]
        /\ UNCHANGED <<journal, receipt, link, stale, releases, units, backups, db, enabled>>
    BY DEF UndoVerify, At, disk, IInv, CommonOK
  <1>2. Verified(op.previous) \in BOOLEAN
    BY DEF Verified
  <1>3. /\ op' \in Ops /\ op'.pc = "undone" /\ op'.version = op.version
        /\ op'.previous = op.previous /\ op'.backup = op.backup
        /\ op'.verified = Verified(op.previous)
    BY <1>1, <1>2, PointsAre, ZenonT(30) DEF IInv, TypeOK, Ops
  <1>4. TypeOK'
    BY <1>1, <1>3, ZenonT(30) DEF IInv, TypeOK
  <1>5. DiskOK'
    BY <1>1 DEF IInv, DiskOK, Closed
  <1>6. op'.verified => db'.rev = Current'
    <2>1. op'.verified => db.rev = Current
      BY <1>3, ZenonT(30) DEF Verified
    <2>2. UNCHANGED <<link, releases, db>>
      BY <1>1
    <2> QED BY <2>1, <2>2 DEF Current
  <1>7. CommonOK(op)' /\ ApplyOK(op)' /\ RevertOK(op)'
    BY <1>1, <1>3, <1>6 DEF IInv, CommonOK, ApplyOK, RevertOK
  <1> QED BY <1>4, <1>5, <1>7 DEF IInv

LEMMA UndoneStep == ASSUME IInv, Undone PROVE IInv'
  <1>1. /\ op.pc = "undone" /\ op' = Idle
        /\ Record(IF op.verified THEN "rollback_verified" ELSE "rollback_verification_failed",
                  "rollback_attempted")
        /\ UNCHANGED <<receipt, link, stale, releases, units, backups, db, services, enabled>>
    BY DEF Undone, At, host
  <1>2. /\ journal' \in Journals
        /\ journal'.status = IF op.verified THEN "rollback_verified"
                             ELSE "rollback_verification_failed"
    BY <1>1, Recorded DEF IInv, TypeOK, Steps
  <1>3. op' \in Ops /\ CommonOK(op)' /\ ApplyOK(op)' /\ RevertOK(op)'
    BY <1>1, IdleStep
  <1>4. TypeOK'
    BY <1>1, <1>2, <1>3 DEF IInv, TypeOK
  <1>5. Closed' => Sound'
    <2>1. Closed' => op.verified
      BY <1>2 DEF Closed
    <2>2. op.verified => Current = 0 \/ db.rev = Current
      BY <1>1 DEF IInv, ApplyOK
    <2> QED BY <1>1, <2>1, <2>2 DEF Sound, Current
  <1>6. DiskOK'
    BY <1>1, <1>2, <1>5 DEF IInv, DiskOK
  <1> QED BY <1>3, <1>4, <1>6 DEF IInv

-----------------------------------------------------------------------------
(* rollback.                                                                *)
LEMMA RollbackStep == ASSUME IInv, Rollback PROVE IInv'
  <1>1. /\ Current # 0 /\ receipt.previous \in releases /\ receipt.backup \in Backups
        /\ backups[receipt.backup].db.rev = receipt.previous
        /\ op' = [Idle EXCEPT !.pc = "rb_restore", !.version = receipt.previous,
                              !.previous = Current, !.backup = receipt.backup]
        /\ journal' = [status |-> "running", version |-> receipt.previous,
                       step |-> "rollback_preflight", fresh |-> FALSE, defer |-> FALSE]
        /\ UNCHANGED <<receipt, link, stale, releases, units, backups, db, services, enabled>>
    BY DEF Rollback, host
  <1>2. /\ receipt.previous \in Versions /\ receipt.previous \in 0 .. Newest /\ receipt.backup \in Nat
        /\ receipt.backup \in DOMAIN backups
        /\ Current \in releases /\ Current \in 0 .. Newest /\ link # 0
    BY <1>1, CurrentIs DEF IInv, TypeOK, Receipts, Backups
  <1>3. /\ op' \in Ops /\ op'.pc = "rb_restore" /\ op'.version = receipt.previous
        /\ op'.previous = Current /\ op'.backup = receipt.backup
    <2>1. Idle \in Ops /\ "rb_restore" \in Points
      BY IdleIs, PointsAre
    <2>2. ASSUME NEW q \in Ops
          PROVE  LET o == [q EXCEPT !.pc = "rb_restore", !.version = receipt.previous,
                                    !.previous = Current, !.backup = receipt.backup]
                 IN  /\ o \in Ops /\ o.pc = "rb_restore" /\ o.version = receipt.previous
                     /\ o.previous = Current /\ o.backup = receipt.backup
      BY <1>2, <2>1, ZenonT(30) DEF Ops
    <2> QED BY <1>1, <2>1, <2>2, ZenonT(30)
  <1>4. journal' \in Journals /\ journal'.status = "running"
    BY <1>1, <1>2 DEF Journals, Steps
  <1>5. UNCHANGED <<receipt, link, stale, releases, units, backups, db, services, enabled>>
    BY <1>1
  <1>6. TypeOK'
    BY <1>3, <1>4, <1>5 DEF IInv, TypeOK
  <1>7. DiskOK'
    BY <1>4, <1>5 DEF IInv, DiskOK, Closed
  <1>8. units /\ backups[receipt.backup].db.rev = receipt.previous /\ receipt.previous \in releases
        /\ Current # 0
    BY <1>1, <1>2 DEF IInv, DiskOK
  <1>9. CommonOK(op)' /\ ApplyOK(op)' /\ RevertOK(op)'
    BY <1>2, <1>3, <1>4, <1>5, <1>8 DEF CommonOK, ApplyOK, RevertOK
  <1> QED BY <1>6, <1>7, <1>9 DEF IInv

LEMMA RollbackRestoreStep == ASSUME IInv, RollbackRestore PROVE IInv'
  <1>1. /\ op.pc = "rb_restore" /\ services' = FALSE /\ db' = Restored(op.backup)
        /\ Goto("rb_activate") /\ journal.status = "running"
        /\ UNCHANGED <<journal, receipt, link, stale, releases, units, backups, enabled>>
    BY DEF RollbackRestore, At, IInv, CommonOK
  <1>2. Same(op, op') /\ op'.pc = "rb_activate"
    BY <1>1, Moved, PointsAre DEF IInv, TypeOK
  <1>3. db' \in Databases
    <2>1. op.backup \in DOMAIN backups
      BY <1>1 DEF IInv, RevertOK
    <2> DEFINE T == [version : 0 .. Newest, db : Databases]
    <2>2. backups \in Seq(T)
      BY DEF IInv, TypeOK
    <2>3. \A b \in T : b.db \in Databases
      OBVIOUS
    <2> HIDE DEF T
    <2>4. backups[op.backup] \in T
      BY <2>1, <2>2
    <2> QED BY <1>1, <2>3, <2>4 DEF IInv, TypeOK, Restored
  <1>4. TypeOK'
    BY <1>1, <1>2, <1>3, ZenonT(30) DEF IInv, TypeOK, Same
  <1>5. DiskOK'
    BY <1>1 DEF IInv, DiskOK, Closed
  <1>6. CommonOK(op)' /\ ApplyOK(op)' /\ RevertOK(op)'
    BY <1>1, <1>2 DEF IInv, CommonOK, ApplyOK, RevertOK, Same
  <1> QED BY <1>4, <1>5, <1>6 DEF IInv

LEMMA RollbackActivateStep == ASSUME IInv, RollbackActivate PROVE IInv'
  <1>1. /\ op.pc = "rb_activate" /\ Goto("rb_verify") /\ Record("running", "database_restored")
        /\ link' = op.version /\ op.version \in releases /\ units
        /\ UNCHANGED <<receipt, stale, releases, units, backups, db, services, enabled>>
    BY DEF RollbackActivate, Switch, At, host, IInv, CommonOK
  <1>2. Same(op, op') /\ op'.pc = "rb_verify" /\ journal' \in Journals /\ journal'.status = "running"
    BY <1>1, Moved, Recorded, PointsAre DEF IInv, TypeOK, Steps
  <1>3. TypeOK'
    BY <1>1, <1>2 DEF IInv, TypeOK, Same, Ops
  <1>4. DiskOK'
    BY <1>1, <1>2 DEF IInv, DiskOK, CommonOK, RevertOK, Closed
  <1>5. CommonOK(op)' /\ ApplyOK(op)' /\ RevertOK(op)'
    BY <1>1, <1>2 DEF IInv, CommonOK, ApplyOK, RevertOK, Same
  <1> QED BY <1>3, <1>4, <1>5 DEF IInv

LEMMA RollbackVerifyStep == ASSUME IInv, RollbackVerify PROVE IInv'
  <1>1. /\ op.pc = "rb_verify" /\ Record("running", "rollback_activated") /\ services' = TRUE
        /\ Goto("rb_failed") \/ (Goto("rb_receipt") /\ Verified(op.version))
        /\ UNCHANGED <<receipt, link, stale, releases, units, backups, db, enabled>>
    BY DEF RollbackVerify, At
  <1>2. /\ Same(op, op') /\ journal' \in Journals /\ journal'.status = "running"
        /\ op'.pc = "rb_failed" \/ (op'.pc = "rb_receipt" /\ Verified(op.version))
    BY <1>1, Moved, Recorded, PointsAre DEF IInv, TypeOK, Steps
  <1>3. TypeOK'
    BY <1>1, <1>2 DEF IInv, TypeOK, Same
  <1>4. DiskOK'
    BY <1>1, <1>2 DEF IInv, DiskOK, Closed
  <1>5. Current' = Current
    BY <1>1 DEF Current
  <1>6. CommonOK(op)' /\ ApplyOK(op)' /\ RevertOK(op)'
    BY <1>1, <1>2, <1>5 DEF IInv, CommonOK, ApplyOK, RevertOK, Same, Verified
  <1> QED BY <1>3, <1>4, <1>6 DEF IInv

LEMMA RollbackReceiptStep == ASSUME IInv, RollbackReceipt PROVE IInv'
  <1>1. /\ op.pc = "rb_receipt" /\ Goto("rb_commit") /\ journal.status = "running"
        /\ receipt' = [active |-> op.version, previous |-> op.previous, backup |-> 0,
                       removed |-> FALSE]
        /\ UNCHANGED <<journal, link, stale, releases, units, backups, db, services, enabled>>
    BY DEF RollbackReceipt, At, host, IInv, CommonOK
  <1>2. Same(op, op') /\ op'.pc = "rb_commit"
    BY <1>1, Moved, PointsAre DEF IInv, TypeOK
  <1>3. TypeOK'
    BY <1>1, <1>2 DEF IInv, TypeOK, Same, Ops, Receipts
  <1>4. DiskOK'
    BY <1>1 DEF IInv, DiskOK, Closed
  <1>5. Current' = Current
    BY <1>1 DEF Current
  <1>6. CommonOK(op)' /\ ApplyOK(op)' /\ RevertOK(op)'
    BY <1>1, <1>2, <1>5 DEF IInv, CommonOK, ApplyOK, RevertOK, Same
  <1> QED BY <1>3, <1>4, <1>6 DEF IInv

LEMMA RollbackFailedStep == ASSUME IInv, RollbackFailed PROVE IInv'
  <1>1. /\ op' = Idle /\ Record("rollback_verification_failed", "rollback_attempted")
        /\ UNCHANGED <<receipt, link, stale, releases, units, backups, db, services, enabled>>
    BY DEF RollbackFailed, host
  <1>2. journal' \in Journals /\ journal'.status = "rollback_verification_failed"
    BY <1>1, Recorded DEF IInv, TypeOK, Steps
  <1>3. op' \in Ops /\ CommonOK(op)' /\ ApplyOK(op)' /\ RevertOK(op)'
    BY <1>1, IdleStep
  <1>4. TypeOK'
    BY <1>1, <1>2, <1>3 DEF IInv, TypeOK
  <1>5. DiskOK'
    BY <1>1, <1>2 DEF IInv, DiskOK, Closed
  <1> QED BY <1>3, <1>4, <1>5 DEF IInv

-----------------------------------------------------------------------------
(* What an invocation of the installer sees.                                *)
LEMMA RecoveryStateIs ==
    /\ RecoveryState = "none" <=> Closed
    /\ RecoveryState = "rollback_pending" => journal.status = "rollback_verification_failed"
    /\ RecoveryState = "preflight_interrupted" => journal.status = "running"
  BY DEF RecoveryState, Closed

LEMMA InstallationStateIs ==
    /\ InstallationState \in {"not_installed", "uninstalled_data_preserved"} => Closed /\ Current = 0
    /\ InstallationState = "installed" => Closed /\ Current # 0 /\ receipt.active = Current
  <1>1. CASE ~Closed
    <2>1. InstallationState = RecoveryState /\ RecoveryState # "none"
      BY <1>1, RecoveryStateIs DEF InstallationState
    <2>2. RecoveryState \notin {"not_installed", "uninstalled_data_preserved", "installed"}
      BY <1>1 DEF RecoveryState, Closed
    <2> QED BY <2>1, <2>2
  <1>2. CASE Closed
    <2>1. RecoveryState = "none"
      BY <1>2, RecoveryStateIs
    <2> QED BY <1>2, <2>1 DEF InstallationState
  <1> QED BY <1>1, <1>2

LEMMA ApplyStep ==
    ASSUME IInv, NEW v \in Versions, NEW defer \in BOOLEAN, Apply(v, defer)
    PROVE  IInv'
  <1>1. /\ InstallationState \in {"not_installed", "uninstalled_data_preserved", "installed"}
        /\ op' = [Idle EXCEPT !.pc = "preflight", !.version = v, !.previous = Current,
                              !.fresh = (db = NoDatabase), !.defer = defer]
        /\ journal' = [status |-> "running", version |-> v, step |-> "preflight",
                       fresh |-> (db = NoDatabase), defer |-> defer]
        /\ UNCHANGED <<receipt, link, stale, releases, units, backups, db, services, enabled>>
    BY DEF Apply, host
  <1>2. /\ (db = NoDatabase) \in BOOLEAN /\ v \in 0 .. Newest /\ Current \in 0 .. Newest
        /\ Current # 0 => Current = link /\ Current \in releases
    BY CurrentIs DEF IInv, Versions
  <1>3. /\ op' \in Ops /\ op'.pc = "preflight" /\ op'.version = v /\ op'.previous = Current
        /\ op'.backup = 0 /\ ~op'.verified
    <2>1. Idle \in Ops /\ "preflight" \in Points /\ Idle.backup = 0 /\ ~Idle.verified
      BY IdleIs, PointsAre DEF Idle
    <2>2. ASSUME NEW q \in Ops
          PROVE  LET o == [q EXCEPT !.pc = "preflight", !.version = v, !.previous = Current,
                                    !.fresh = (db = NoDatabase), !.defer = defer]
                 IN  /\ o \in Ops /\ o.pc = "preflight" /\ o.version = v /\ o.previous = Current
                     /\ o.backup = q.backup /\ o.verified = q.verified
      BY <1>2, <2>1, ZenonT(30) DEF Ops
    <2> QED BY <1>1, <2>1, <2>2, ZenonT(30)
  <1>4. journal' \in Journals /\ journal'.status = "running"
    BY <1>1, <1>2, ZenonT(30) DEF Journals, Steps
  <1>5. UNCHANGED <<receipt, link, stale, releases, units, backups, db, services, enabled>>
    BY <1>1
  <1>6. Current # 0 => units /\ db.rev = Current
    BY <1>1, <1>2, InstallationStateIs DEF IInv, DiskOK, Sound
  <1>7. TypeOK' /\ DiskOK'
    BY <1>3, <1>4, <1>5 DEF IInv, TypeOK, DiskOK, Closed
  <1>8. CommonOK(op)' /\ ApplyOK(op)' /\ RevertOK(op)'
    BY <1>2, <1>3, <1>4, <1>5, <1>6 DEF CommonOK, ApplyOK, RevertOK
  <1> QED BY <1>7, <1>8 DEF IInv

LEMMA ResumeStep ==
    ASSUME IInv, NEW v \in Versions, NEW defer \in BOOLEAN, Resume(v, defer)
    PROVE  IInv'
  <1>1. /\ journal.status = "running" /\ UNCHANGED <<journal, services, enabled>>
        /\ op' = [Idle EXCEPT !.pc = "preflight", !.version = v, !.fresh = journal.fresh,
                              !.defer = defer]
        /\ UNCHANGED <<receipt, link, stale, releases, units, backups, db>>
    BY DEF Resume, host, disk
  <1>2. v \in 0 .. Newest /\ journal.fresh \in BOOLEAN
    BY DEF IInv, TypeOK, Journals, Versions
  <1>3. /\ op' \in Ops /\ op'.pc = "preflight" /\ op'.version = v /\ op'.previous = 0
        /\ op'.backup = 0 /\ ~op'.verified
    <2>1. Idle \in Ops /\ "preflight" \in Points /\ Idle.backup = 0 /\ ~Idle.verified
          /\ Idle.previous = 0
      BY IdleIs, PointsAre DEF Idle
    <2>2. ASSUME NEW q \in Ops
          PROVE  LET o == [q EXCEPT !.pc = "preflight", !.version = v, !.fresh = journal.fresh,
                                    !.defer = defer]
                 IN  /\ o \in Ops /\ o.pc = "preflight" /\ o.version = v
                     /\ o.previous = q.previous /\ o.backup = q.backup /\ o.verified = q.verified
      BY <1>2, <2>1, ZenonT(30) DEF Ops
    <2> QED BY <1>1, <2>1, <2>2, ZenonT(30)
  <1>4. /\ UNCHANGED <<journal, receipt, link, stale, releases, units, backups, db, services, enabled>>
        /\ journal.status = "running"
    BY <1>1
  <1>5. TypeOK' /\ DiskOK'
    BY <1>3, <1>4 DEF IInv, TypeOK, DiskOK, Closed
  <1>6. CommonOK(op)' /\ ApplyOK(op)' /\ RevertOK(op)'
    BY <1>3, <1>4 DEF CommonOK, ApplyOK, RevertOK
  <1> QED BY <1>5, <1>6 DEF IInv

-----------------------------------------------------------------------------
(* recover and uninstall.                                                   *)
LEMMA RecoverStep == ASSUME IInv, Recover PROVE IInv'
  <1>1. /\ op.pc = "idle" /\ services' = (services \/ RecoveryState = "rollback_pending")
        /\ RecoveryState \in {"rollback_pending", "preflight_interrupted"}
        /\ Current # 0 /\ receipt.active = Current
        /\ \/ Verified(receipt.active) /\ journal' = [journal EXCEPT !.status = "rollback_verified"]
           \/ UNCHANGED journal
        /\ UNCHANGED <<receipt, link, stale, releases, units, backups, db, enabled, op>>
    BY DEF Recover, At
  <1>2. ~Closed
    BY <1>1, RecoveryStateIs
  <1>3. services' \in BOOLEAN
    BY <1>1, ZenonT(30)
  <1>4. \/ journal' \in Journals /\ journal'.status = "rollback_verified" /\ Verified(receipt.active)
        \/ journal' = journal
    BY <1>1 DEF IInv, TypeOK, Journals
  <1>5. UNCHANGED <<receipt, link, stale, releases, units, backups, db, enabled, op>>
    BY <1>1
  <1>6. TypeOK'
    BY <1>3, <1>4, <1>5 DEF IInv, TypeOK
  <1>7. Current' = Current
    BY <1>5 DEF Current
  <1>8. DiskOK'
    <2>1. CASE journal' = journal
      BY <1>2, <1>5, <2>1 DEF IInv, DiskOK, Closed
    <2>2. CASE journal'.status = "rollback_verified" /\ Verified(receipt.active)
      BY <1>1, <1>5, <1>7, <2>2 DEF IInv, DiskOK, Sound, Verified
    <2> QED BY <1>4, <2>1, <2>2
  <1>9. CommonOK(op)' /\ ApplyOK(op)' /\ RevertOK(op)'
    BY <1>1, <1>5 DEF IInv, CommonOK, ApplyOK, RevertOK
  <1> QED BY <1>6, <1>8, <1>9 DEF IInv

LEMMA UninstallStep == ASSUME IInv, Uninstall PROVE IInv'
  <1>1. /\ services' = FALSE /\ enabled' = FALSE /\ op' = [Idle EXCEPT !.pc = "unlink"]
        /\ UNCHANGED <<journal, receipt, link, stale, releases, units, backups, db>>
    BY DEF Uninstall, disk
  <1>2. op' \in Ops /\ op'.pc = "unlink" /\ op'.previous = 0
    <2>1. Idle \in Ops /\ "unlink" \in Points /\ Idle.previous = 0
      BY IdleIs, PointsAre
    <2>2. ASSUME NEW q \in Ops
          PROVE  LET o == [q EXCEPT !.pc = "unlink"]
                 IN  o \in Ops /\ o.pc = "unlink" /\ o.previous = q.previous
      BY <2>1, ZenonT(30) DEF Ops
    <2> QED BY <1>1, <2>1, <2>2, ZenonT(30)
  <1>3. /\ services' = FALSE /\ enabled' = FALSE
        /\ UNCHANGED <<journal, receipt, link, stale, releases, units, backups, db>>
    BY <1>1
  <1>4. TypeOK'
    BY <1>2, <1>3, ZenonT(30) DEF IInv, TypeOK
  <1>5. DiskOK'
    BY <1>3 DEF IInv, DiskOK, Closed, Sound, Current
  <1>6. CommonOK(op)' /\ ApplyOK(op)' /\ RevertOK(op)'
    BY <1>2, <1>3 DEF CommonOK, ApplyOK, RevertOK
  <1> QED BY <1>4, <1>5, <1>6 DEF IInv

LEMMA RemoveLinkStep == ASSUME IInv, RemoveLink PROVE IInv'
  <1>1. /\ op.pc = "unlink" /\ op.previous = 0 /\ link' = 0 /\ Goto("remove")
        /\ UNCHANGED <<journal, receipt, stale, releases, units, backups, db, services, enabled>>
    BY DEF RemoveLink, At, host, IInv, CommonOK
  <1>2. Same(op, op') /\ op'.pc = "remove"
    BY <1>1, Moved, PointsAre DEF IInv, TypeOK
  <1>3. TypeOK'
    <2>1. link' \in 0 .. Newest
      BY <1>1, InstallerAssumption
    <2> QED BY <1>1, <1>2, <2>1, ZenonT(30) DEF IInv, TypeOK, Same
  <1>4. Current' = 0
    BY <1>1, <1>3 DEF Current, TypeOK, Versions
  <1>5. DiskOK'
    BY <1>1, <1>4 DEF DiskOK, Sound
  <1>6. CommonOK(op)' /\ ApplyOK(op)' /\ RevertOK(op)'
    BY <1>1, <1>2 DEF CommonOK, ApplyOK, RevertOK, Same
  <1> QED BY <1>3, <1>5, <1>6 DEF IInv

LEMMA RemoveProgramStep == ASSUME IInv, RemoveProgram PROVE IInv'
  <1>1. /\ op.pc = "remove" /\ link = 0 /\ op.previous = 0
        /\ UNCHANGED <<journal, receipt, link, stale, backups, db, services, enabled>>
    BY DEF RemoveProgram, At, host, IInv, CommonOK
  <1>2. PICK gone \in SUBSET releases :
          /\ releases' = releases \ gone
          /\ (units' = FALSE /\ Goto("removed")) \/ (op' = Idle /\ units' = units)
    BY DEF RemoveProgram
  <1>3. /\ op' \in Ops /\ op'.previous = 0
        /\ op'.pc \in {"removed", "idle"}
    BY <1>1, <1>2, Moved, PointsAre, IdleIs DEF IInv, TypeOK, Same
  <1>4. TypeOK'
    BY <1>1, <1>2, <1>3, ZenonT(30) DEF IInv, TypeOK
  <1>5. Current' = 0
    BY <1>1, <1>4 DEF Current, TypeOK, Versions
  <1>6. DiskOK'
    BY <1>1, <1>5 DEF DiskOK, Sound
  <1>7. CommonOK(op)' /\ ApplyOK(op)' /\ RevertOK(op)'
    BY <1>1, <1>3 DEF CommonOK, ApplyOK, RevertOK
  <1> QED BY <1>4, <1>6, <1>7 DEF IInv

LEMMA RemovedStep == ASSUME IInv, Removed PROVE IInv'
  <1>1. /\ op.pc = "removed" /\ link = 0 /\ op' = Idle
        /\ receipt' = [receipt EXCEPT !.active = 0, !.removed = TRUE]
        /\ UNCHANGED <<journal, link, stale, releases, units, backups, db, services, enabled>>
    BY DEF Removed, At, host, IInv, CommonOK
  <1>2. receipt' \in Receipts
    BY <1>1, InstallerAssumption, ZenonT(30) DEF IInv, TypeOK, Receipts
  <1>3. op' \in Ops /\ CommonOK(op)' /\ ApplyOK(op)' /\ RevertOK(op)'
    BY <1>1, IdleStep
  <1>4. TypeOK'
    BY <1>1, <1>2, <1>3 DEF IInv, TypeOK
  <1>5. Current' = 0
    BY <1>1, <1>4 DEF Current, TypeOK, Versions
  <1>6. DiskOK'
    BY <1>1, <1>5 DEF DiskOK, Sound
  <1> QED BY <1>3, <1>4, <1>6 DEF IInv

-----------------------------------------------------------------------------
(* Faults and the host.                                                     *)
LEMMA HandlerMoves ==
    ASSUME IInv, Handler
    PROVE  \/ op.pc \in Trying /\ op'.pc = "undo" /\ Same(op, op')
           \/ op.pc \in Undoing /\ op'.pc = "undone" /\ Same(op, op')
           \/ op.pc \in RollingBack /\ op'.pc = "rb_failed" /\ Same(op, op')
           \/ op' = Idle
  <1>1. \/ op.pc \in Trying /\ Goto("undo")
        \/ op.pc \in Undoing /\ Goto("undone")
        \/ op.pc \in RollingBack /\ Goto("rb_failed")
        \/ op' = Idle
    BY DEF Handler
  <1> QED BY <1>1, Moved, PointsAre DEF IInv, TypeOK

(* An exception, whether or not it left a link under its temporary name.    *)
LEMMA HandledStep ==
    ASSUME IInv, Handler \/ op' = Idle, stale' \in BOOLEAN,
           UNCHANGED <<journal, receipt, link, releases, units, backups, db, services, enabled>>
    PROVE  IInv'
  <1>1. CASE op' = Idle
    <2>1. op' \in Ops /\ CommonOK(op)' /\ ApplyOK(op)' /\ RevertOK(op)'
      BY <1>1, IdleStep
    <2>2. TypeOK' /\ DiskOK'
      BY <2>1 DEF IInv, TypeOK, DiskOK, Closed, Sound, Current
    <2> QED BY <2>1, <2>2 DEF IInv
  <1>2. CASE op' # Idle
    <2>1. \/ op.pc \in Trying /\ op'.pc = "undo" /\ Same(op, op')
          \/ op.pc \in Undoing /\ op'.pc = "undone" /\ Same(op, op')
          \/ op.pc \in RollingBack /\ op'.pc = "rb_failed" /\ Same(op, op')
      BY <1>2, HandlerMoves
    <2>2. TypeOK' /\ DiskOK'
      BY <2>1 DEF IInv, TypeOK, DiskOK, Closed, Sound, Current, Same
    <2>3. CommonOK(op)' /\ ApplyOK(op)' /\ RevertOK(op)'
      BY <2>1, ZenonT(30) DEF IInv, CommonOK, ApplyOK, RevertOK, Same
    <2> QED BY <2>2, <2>3 DEF IInv
  <1> QED BY <1>1, <1>2

LEMMA FaultStep ==
    ASSUME IInv, Fault \/ BrokenSwitch \/ Die
    PROVE  IInv'
  <1>1. /\ Handler \/ op' = Idle
        /\ stale' = stale \/ stale' = TRUE
        /\ UNCHANGED <<journal, receipt, link, releases, units, backups, db, services, enabled>>
    BY DEF Fault, BrokenSwitch, Die, disk, host
  <1> QED BY <1>1, HandledStep, ZenonT(30) DEF IInv, TypeOK

LEMMA RebootStep == ASSUME IInv, Reboot PROVE IInv'
  <1>1. /\ op' = Idle /\ services' = (enabled /\ Current # 0)
        /\ UNCHANGED <<journal, receipt, link, stale, releases, units, backups, db, enabled>>
    BY DEF Reboot, disk
  <1>2. services' \in BOOLEAN
    BY <1>1, ZenonT(30)
  <1>3. op' \in Ops /\ CommonOK(op)' /\ ApplyOK(op)' /\ RevertOK(op)'
    BY <1>1, IdleStep
  <1>4. UNCHANGED <<journal, receipt, link, stale, releases, units, backups, db, enabled>>
    BY <1>1
  <1>5. TypeOK' /\ DiskOK'
    BY <1>2, <1>3, <1>4 DEF IInv, TypeOK, DiskOK, Closed, Sound, Current
  <1> QED BY <1>3, <1>5 DEF IInv

LEMMA WorkStep == ASSUME IInv, Work PROVE IInv'
  <1>1. /\ services /\ db' = [db EXCEPT !.data = @ + 1]
        /\ UNCHANGED <<journal, receipt, link, stale, releases, units, backups, services, enabled, op>>
    BY DEF Work, host
  <1>2. db' \in Databases /\ db'.rev = db.rev
    BY <1>1 DEF IInv, TypeOK, Databases
  <1>3. TypeOK' /\ DiskOK'
    BY <1>1, <1>2 DEF IInv, TypeOK, DiskOK, Closed, Sound, Current
  <1>4. CommonOK(op)' /\ ApplyOK(op)' /\ RevertOK(op)'
    BY <1>1, <1>2 DEF IInv, CommonOK, ApplyOK, RevertOK, Current
  <1> QED BY <1>3, <1>4 DEF IInv

-----------------------------------------------------------------------------
LEMMA InitInv == ASSUME Init PROVE IInv
  <1>1. /\ journal.status = "none" /\ journal \in Journals /\ receipt \in Receipts
        /\ receipt.backup = 0
    BY InstallerAssumption DEF Init, NoJournal, NoReceipt, Journals, Receipts, Steps
  <1>2. db \in Databases /\ link \in 0 .. Newest
    BY InstallerAssumption DEF Init, NoDatabase, Databases
  <1>3. op \in Ops /\ op.pc = "idle" /\ op.previous = 0
    BY IdleIs DEF Init
  <1>4. TypeOK
    <2> DEFINE T == [version : 0 .. Newest, db : Databases]
    <2>1. /\ backups = <<>> /\ releases = {} /\ stale = FALSE /\ units = FALSE
          /\ services = FALSE /\ enabled = FALSE
      BY DEF Init
    <2>2. releases \subseteq Versions /\ backups \in Seq(T)
      <3> HIDE DEF T
      <3> QED BY <2>1
    <2> QED BY <1>1, <1>2, <1>3, <2>1, <2>2, ZenonT(30) DEF TypeOK
  <1>5. DiskOK
    BY <1>1, <1>3 DEF Init, DiskOK, Sound, Current
  <1>6. CommonOK(op) /\ ApplyOK(op) /\ RevertOK(op)
    BY <1>3 DEF CommonOK, ApplyOK, RevertOK
  <1> QED BY <1>4, <1>5, <1>6 DEF IInv

LEMMA NextInv == ASSUME IInv, [Next]_vars PROVE IInv'
  <1>1. CASE Invoke
    BY <1>1, ApplyStep, ResumeStep, RollbackStep, RecoverStep, UninstallStep DEF Invoke
  <1>2. CASE Forward
    BY <1>2, BeginStagingStep, StageReleaseStep, StagedStep, BackupStep, BeginMigrationStep,
       MigrateStep, InstallUnitsStep, UnitsInstalledStep, ActivateStep, StartServicesStep,
       RetainStep, BeginReceiptStep, WriteReceiptStep, CommitStep DEF Forward
  <1>3. CASE Backward
    BY <1>3, UndoStopStep, UndoEnableStep, UndoLinkStep, UndoDatabaseStep, UndoMigrationStep,
       UndoActivationStep, UndoVerifyStep, UndoneStep, RollbackRestoreStep, RollbackActivateStep,
       RollbackVerifyStep, RollbackReceiptStep, RollbackFailedStep, RemoveLinkStep,
       RemoveProgramStep, RemovedStep DEF Backward
  <1>4. CASE Fault \/ BrokenSwitch \/ Die \/ Reboot \/ Work
    BY <1>4, FaultStep, RebootStep, WorkStep
  <1>5. CASE UNCHANGED vars
    <2>1. /\ UNCHANGED <<journal, receipt, link, stale, releases, units, backups, db>>
          /\ UNCHANGED <<services, enabled, op>>
      BY <1>5 DEF vars, disk, host
    <2>2. TypeOK'
      BY <2>1 DEF IInv, TypeOK
    <2>3. DiskOK'
      BY <2>1 DEF IInv, DiskOK, Closed, Sound, Current
    <2>4. CommonOK(op)'
      BY <2>1 DEF IInv, CommonOK, Current
    <2>5. ApplyOK(op)'
      BY <2>1 DEF IInv, ApplyOK, Current
    <2>6. RevertOK(op)'
      BY <2>1 DEF IInv, RevertOK, Current
    <2> QED BY <2>2, <2>3, <2>4, <2>5, <2>6 DEF IInv
  <1> QED BY <1>1, <1>2, <1>3, <1>4, <1>5 DEF Next

(* The inductive invariant holds whatever command runs, fails, is          *)
(* interrupted by a crash or is recovered, and in whatever order.          *)
THEOREM InstallerInvariance == Spec => []IInv
  <1>1. Init => IInv
    BY InitInv
  <1>2. IInv /\ [Next]_vars => IInv'
    BY NextInv
  <1> QED BY <1>1, <1>2, PTL DEF Spec

(* Whatever was interrupted, undone, rolled back or recovered before, what  *)
(* the installer reports as installed has its units in place and a database *)
(* at the revision of the current release.                                  *)
THEOREM InstalledStaysConsistent == Spec => []InstalledIsConsistent
  <1>1. IInv => InstalledIsConsistent
    <2> SUFFICES ASSUME IInv, InstallationState = "installed"
                 PROVE  units /\ db.rev = Current
      BY DEF InstalledIsConsistent
    <2>1. Closed /\ Current # 0 /\ receipt.active = Current /\ link # 0
      BY InstallationStateIs, CurrentIs DEF IInv
    <2> QED BY <2>1 DEF IInv, DiskOK, Sound
  <1> QED BY <1>1, InstallerInvariance, PTL

(* When a failed upgrade restarts the previous release, that release is     *)
(* current and the database is the one its services had left.               *)
THEOREM FailedUpgradesAreUndone == Spec => []FailedUpgradeIsUndone
  <1>1. IInv => FailedUpgradeIsUndone
    BY DEF IInv, ApplyOK, FailedUpgradeIsUndone, At
  <1> QED BY <1>1, InstallerInvariance, PTL

(* After a committed upgrade, retention included, the release and backup    *)
(* the receipt names for a rollback are there and belong together.          *)
THEOREM CommittedStaysReversible == Spec => []CommittedIsReversible
  <1>1. IInv => CommittedIsReversible
    <2> SUFFICES ASSUME IInv, InstallationState = "installed", journal.status = "committed",
                        receipt.backup # 0
                 PROVE  Reversible(receipt, releases, backups)
      BY DEF CommittedIsReversible, Reversible
    <2>1. link # 0
      BY InstallationStateIs, CurrentIs DEF IInv
    <2> QED BY <2>1 DEF IInv, DiskOK
  <1> QED BY <1>1, InstallerInvariance, PTL

-----------------------------------------------------------------------------
Keeps == db # NoDatabase /\ db' = NoDatabase => op.fresh

LEMMA RevisionIsKept ==
    ASSUME NEW d \in Databases, d.rev # 0 \/ d.data # 0
    PROVE  d # NoDatabase
  BY DEF NoDatabase

LEMMA MigrateKeeps == ASSUME IInv, Migrate PROVE Keeps
  <1>1. /\ db \in Databases /\ op.version \in Versions
        /\ \E r \in db.rev .. op.version \cup {op.version} : db' = [db EXCEPT !.rev = r]
    BY ZenonT(30) DEF Migrate, At, IInv, TypeOK, CommonOK
  <1>2. PICK r \in db.rev .. op.version \cup {op.version} : db' = [db EXCEPT !.rev = r]
    BY <1>1
  <1>3. r \in 0 .. Newest /\ (db.rev # 0 => r # 0)
    <2>1. db.rev \in 0 .. Newest /\ op.version \in 1 .. Newest /\ Newest \in Nat
      BY <1>1, InstallerAssumption DEF Databases, Versions
    <2> QED BY <1>2, <2>1
  <1>4. db' \in Databases /\ db'.rev = r /\ db'.data = db.data
    BY <1>1, <1>2, <1>3 DEF Databases
  <1>5. db # NoDatabase => db.rev # 0 \/ db.data # 0
    BY <1>1 DEF Databases, NoDatabase
  <1> QED BY <1>3, <1>4, <1>5, RevisionIsKept DEF Keeps

LEMMA RestoredIsKept ==
    ASSUME IInv, op.backup \in DOMAIN backups, backups[op.backup].db.rev # 0,
           db' = Restored(op.backup)
    PROVE  Keeps
  <1>1. db' = backups[op.backup].db
    BY DEF Restored, IInv, TypeOK
  <1> QED BY <1>1 DEF Keeps, NoDatabase

LEMMA RestoreKeeps == ASSUME IInv, UndoMigration \/ RollbackRestore PROVE Keeps
  <1>1. db' = Restored(op.backup)
    BY DEF UndoMigration, RollbackRestore
  <1>2. CASE UndoMigration
    <2>1. op.pc = "undo_migration" /\ op.previous # 0
      BY <1>2 DEF UndoMigration, At, IInv, ApplyOK
    <2>2. /\ op.backup \in DOMAIN backups /\ op.before.rev = op.previous
          /\ backups[op.backup] = [version |-> op.previous, db |-> op.before]
      BY <2>1 DEF IInv, ApplyOK
    <2>3. backups[op.backup].db.rev # 0
      BY <2>1, <2>2
    <2> QED BY <1>1, <2>2, <2>3, RestoredIsKept
  <1>3. CASE RollbackRestore
    <2>1. op.pc = "rb_restore"
      BY <1>3 DEF RollbackRestore, At
    <2>2. /\ op.backup \in DOMAIN backups /\ backups[op.backup].db.rev = op.version
          /\ op.version \in Versions
      BY <2>1 DEF IInv, RevertOK, CommonOK
    <2>3. backups[op.backup].db.rev # 0
      BY <2>2 DEF Versions
    <2> QED BY <1>1, <2>2, <2>3, RestoredIsKept
  <1> QED BY <1>2, <1>3

LEMMA WorkKeeps == ASSUME IInv, Work PROVE Keeps
  <1>1. db \in Databases /\ db' = [db EXCEPT !.data = @ + 1]
    BY DEF IInv, TypeOK, Work
  <1>2. db' \in Databases /\ db'.data # 0
    BY <1>1 DEF Databases
  <1> QED BY <1>2, RevisionIsKept DEF Keeps

(* No step but the undoing of the transaction that created it ever removes  *)
(* the database: no upgrade, restore, rollback or uninstallation does.      *)
THEOREM DatabaseStays == Spec => DatabaseIsKept
  <1>1. IInv /\ [Next]_vars => [Keeps]_vars
    <2> SUFFICES ASSUME IInv, [Next]_vars PROVE Keeps \/ UNCHANGED vars
      OBVIOUS
    <2>1. CASE UNCHANGED db
      BY <2>1 DEF Keeps
    <2>2. CASE Migrate \/ UndoMigration \/ RollbackRestore \/ Work
      BY <2>2, MigrateKeeps, RestoreKeeps, WorkKeeps
    <2>3. CASE UndoDatabase
      BY <2>3 DEF UndoDatabase, RemovedDatabase, Keeps
    <2>4. ASSUME Invoke \/ Fault \/ BrokenSwitch \/ Die \/ Reboot PROVE UNCHANGED db
      BY <2>4, ZenonT(30) DEF Invoke, Apply, Resume, Rollback, Recover, Uninstall, Fault,
         BrokenSwitch, Die,
                  Reboot, disk
    <2>5. ASSUME Forward, ~Migrate PROVE UNCHANGED db
      BY <2>5 DEF Forward, BeginStaging, StageRelease, Staged, Backup, BeginMigration,
                  InstallUnits, UnitsInstalled, Activate, StartServices, Retain, BeginReceipt,
                  WriteReceipt, Commit
    <2>6. ASSUME Backward, ~UndoDatabase, ~UndoMigration, ~RollbackRestore PROVE UNCHANGED db
      BY <2>6 DEF Backward, UndoStop, UndoEnable, UndoLink, UndoActivation, UndoVerify, Undone,
                  RollbackActivate, RollbackVerify, RollbackReceipt, RollbackFailed, RemoveLink,
                  RemoveProgram, Removed, disk
    <2> QED BY <2>1, <2>2, <2>3, <2>4, <2>5, <2>6 DEF Next
  <1>2. [Keeps]_vars => [db # NoDatabase /\ db' = NoDatabase => op.fresh]_vars
    BY DEF Keeps
  <1>3. Spec => [][Keeps]_vars
    BY <1>1, InstallerInvariance, PTL DEF Spec
  <1> QED BY <1>3 DEF Keeps, DatabaseIsKept
=============================================================================
