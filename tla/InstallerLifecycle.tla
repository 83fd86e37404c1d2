-------------------------- MODULE InstallerLifecycle --------------------------
(* agentbox-install: apply, resume, rollback, recover and uninstall, each    *)
(* under the lifecycle lock, over what they leave on disk: the journal, the  *)
(* receipt, the `current' link, the releases, the backups and the database.  *)
(* A step may raise before its effect, and the installer or the host may die *)
(* between any two steps.                                                    *)
(*                                                                           *)
(* Every release has its own database revision, its number; no build marks   *)
(* a release database_backward_compatible, and every version has one         *)
(* artifact.                                                                 *)
EXTENDS Naturals, Sequences, FiniteSetsExt

CONSTANTS Newest,        \* releases are 1 .. Newest
          MaxBackups,    \* bound: backups ever made
          MaxData,       \* bound: writes of the services that are told apart
          BackupLimit,   \* DEFAULT_BACKUP_RETENTION
          ReleaseLimit   \* DEFAULT_RELEASE_RETENTION

ASSUME InstallerAssumption ==
    /\ Newest \in Nat \ {0} /\ MaxBackups \in Nat \ {0} /\ MaxData \in Nat
    /\ BackupLimit \in Nat \ {0} /\ ReleaseLimit \in Nat \ {0, 1}

VARIABLES journal, receipt, link, stale, releases, units, backups, db,
          services, enabled, op

disk == <<journal, receipt, link, stale, releases, units, backups, db>>
host == <<services, enabled>>
vars == <<disk, host, op>>

Versions == 1 .. Newest

NoDatabase == [rev |-> 0, data |-> 0]
NoBackup == [version |-> 0, db |-> NoDatabase]
NoJournal == [status |-> "none", version |-> 0, step |-> "none", fresh |-> FALSE, defer |-> FALSE]
NoReceipt == [active |-> 0, previous |-> 0, backup |-> 0, removed |-> FALSE]

(* fresh: the transaction found no database; before: the database as it was *)
(* when the services had been stopped.                                      *)
Idle == [pc |-> "idle", version |-> 0, previous |-> 0, backup |-> 0, activated |-> FALSE,
         fresh |-> FALSE, defer |-> FALSE, before |-> NoDatabase, verified |-> FALSE]

At(pc) == op.pc = pc
Goto(pc) == op' = [op EXCEPT !.pc = pc]
Record(status, step) ==
    journal' = [status |-> status, version |-> op.version, step |-> step,
                fresh |-> op.fresh, defer |-> op.defer]

Backups == {b \in DOMAIN backups : backups[b] # NoBackup}

-----------------------------------------------------------------------------
(* What a later invocation makes of the files                               *)

(* current_version: the link counts only when it names a verified release.  *)
Current == IF link \in releases THEN link ELSE 0

(* _recovery_state: `running' is what an interrupted transaction leaves.    *)
RecoveryState ==
    IF journal.status = "rollback_verification_failed" THEN "rollback_pending"
    ELSE IF journal.status # "running" THEN "none"
    ELSE IF journal.step = "preflight" THEN "preflight_interrupted"
    ELSE IF /\ Current = journal.version
            /\ \/ receipt.active # journal.version
               \/ journal.step = "receipt_write_started" THEN "activated"
    ELSE IF journal.step \in {"database_migration_started", "database_migrated", "units_installed",
                              "release_activated", "receipt_write_started"} THEN "partially_migrated"
    ELSE IF \/ journal.step = "release_staged"
            \/ journal.step = "release_staging_started" /\ journal.version \in releases THEN "staged"
    ELSE "unknown"

InstallationState ==
    IF RecoveryState # "none" THEN RecoveryState
    ELSE IF receipt = NoReceipt /\ Current = 0 THEN "not_installed"
    ELSE IF receipt.removed /\ Current = 0 THEN "uninstalled_data_preserved"
    ELSE IF Current = 0 \/ receipt.active # Current THEN "partial_or_broken"
    ELSE "installed"

-----------------------------------------------------------------------------
(* apply and resume_install                                                 *)

Apply(v, defer) ==
    /\ At("idle")
    /\ \/ InstallationState \in {"not_installed", "uninstalled_data_preserved"}
       \/ InstallationState = "installed" /\ Current < v /\ ~defer /\ Len(backups) < MaxBackups
    /\ op' = [Idle EXCEPT !.pc = "preflight", !.version = v, !.previous = Current,
                          !.fresh = (db = NoDatabase), !.defer = defer]
    /\ journal' = [status |-> "running", version |-> v, step |-> "preflight",
                   fresh |-> (db = NoDatabase), defer |-> defer]
    /\ UNCHANGED <<receipt, link, stale, releases, units, backups, db, host>>

(* Only a fresh install whose release is staged and nothing after it.       *)
Resume(v, defer) ==
    /\ At("idle")
    /\ journal.status = "running" /\ journal.version = v /\ journal.defer = defer
    /\ journal.step \in {"release_staging_started", "release_staged"}
    /\ link = 0 /\ receipt = NoReceipt /\ db = NoDatabase /\ ~units
    /\ v \in releases
    /\ op' = [Idle EXCEPT !.pc = "preflight", !.version = v, !.fresh = journal.fresh,
                          !.defer = defer]
    /\ UNCHANGED <<disk, host>>

(* Identities, directories and configuration are in place.                  *)
BeginStaging ==
    /\ At("preflight")
    /\ Record("running", "release_staging_started")
    /\ Goto("stage")
    /\ UNCHANGED <<receipt, link, stale, releases, units, backups, db, host>>

StageRelease ==
    /\ At("stage")
    /\ releases' = releases \cup {op.version}
    /\ Goto("staged")
    /\ UNCHANGED <<journal, receipt, link, stale, units, backups, db, host>>

(* Mutant: an online backup needs no stop.                                  *)
Staged_Online ==
    /\ At("staged")
    /\ Record("running", "release_staged")
    /\ op' = [op EXCEPT !.pc = "backup", !.before = db]
    /\ UNCHANGED <<receipt, link, stale, releases, units, backups, db, host>>

(* The services are stopped before the backup, not after it.                *)
Staged ==
    /\ At("staged")
    /\ Record("running", "release_staged")
    /\ services' = (services /\ op.previous = 0)
    /\ op' = [op EXCEPT !.pc = "backup", !.before = db]
    /\ UNCHANGED <<receipt, link, stale, releases, units, backups, db, enabled>>

(* _backup_before_change; when it fails the services are started again.     *)
Backup ==
    /\ At("backup")
    /\ \/ /\ op.previous = 0 \/ db = NoDatabase
          /\ Goto("begin")
          /\ UNCHANGED <<backups, services>>
       \/ /\ op.previous # 0 /\ db # NoDatabase
          /\ backups' = Append(backups, [version |-> op.previous, db |-> db])
          /\ op' = [op EXCEPT !.pc = "begin", !.backup = Len(backups')]
          /\ UNCHANGED services
       \/ op.previous # 0 /\ op' = Idle /\ services' = TRUE /\ UNCHANGED backups
    /\ UNCHANGED <<journal, receipt, link, stale, releases, units, db, enabled>>

BeginMigration ==
    /\ At("begin")
    /\ Record("running", "database_migration_started")
    /\ Goto("migrate")
    /\ UNCHANGED <<receipt, link, stale, releases, units, backups, db, host>>

(* A migration that fails leaves the database at any revision on its way.   *)
Migrate ==
    /\ At("migrate")
    /\ \/ db' = [db EXCEPT !.rev = op.version] /\ Goto("migrated")
       \/ (\E r \in db.rev .. op.version : db' = [db EXCEPT !.rev = r]) /\ Goto("undo")
    /\ UNCHANGED <<journal, receipt, link, stale, releases, units, backups, host>>

InstallUnits ==
    /\ At("migrated")
    /\ Record("running", "database_migrated")
    /\ units' = TRUE
    /\ Goto("units")
    /\ UNCHANGED <<receipt, link, stale, releases, backups, db, host>>

UnitsInstalled ==
    /\ At("units")
    /\ Record("running", "units_installed")
    /\ Goto("activate")
    /\ UNCHANGED <<receipt, link, stale, releases, units, backups, db, host>>

(* _activate: a link left under the temporary name is a collision.          *)
Switch(v) == ~stale /\ v \in releases /\ link' = v

Activate ==
    /\ At("activate")
    /\ Switch(op.version)
    /\ op' = [op EXCEPT !.pc = "activated", !.activated = TRUE]
    /\ UNCHANGED <<journal, receipt, stale, releases, units, backups, db, host>>

(* The services are started unless that is deferred; a health check that    *)
(* fails is a Fault of "retain".                                            *)
StartServices ==
    /\ At("activated")
    /\ Record("running", "release_activated")
    /\ services' = (services \/ ~op.defer)
    /\ enabled' = (enabled \/ ~op.defer)
    /\ Goto("retain")
    /\ UNCHANGED <<receipt, link, stale, releases, units, backups, db>>

(* Mutant: only the newest are kept.                                        *)
Retained_Newest(present, protected, limit) ==
    {x \in present : Cardinality({y \in present : y > x}) < limit}

(* enforce_retention keeps what is protected and then the newest up to the  *)
(* limit; it may fail with some of the rest deleted.                        *)
Retained(present, protected, limit) ==
    LET fill(n) == {x \in present \ protected :
                       Cardinality({y \in present \ protected : y > x}) < n}
    IN  protected \cup (IF Cardinality(protected) < limit
                        THEN fill(limit - Cardinality(protected)) ELSE {})

Retain ==
    LET keptBackups == Retained(Backups, {op.backup} \ {0}, BackupLimit)
        keptReleases == Retained(releases, {op.version, op.previous} \ {0}, ReleaseLimit)
    IN  /\ At("retain")
        /\ \E lost \in SUBSET (Backups \ keptBackups), gone \in SUBSET (releases \ keptReleases) :
              /\ backups' = [b \in DOMAIN backups |-> IF b \in lost THEN NoBackup ELSE backups[b]]
              /\ releases' = releases \ gone
              /\ Goto(IF lost = Backups \ keptBackups /\ gone = releases \ keptReleases
                      THEN "receipt" ELSE "undo")
        /\ UNCHANGED <<journal, receipt, link, stale, units, db, host>>

BeginReceipt ==
    /\ At("receipt")
    /\ Record("running", "receipt_write_started")
    /\ Goto("write")
    /\ UNCHANGED <<receipt, link, stale, releases, units, backups, db, host>>

WriteReceipt ==
    /\ At("write")
    /\ receipt' = [active |-> op.version, previous |-> op.previous, backup |-> op.backup,
                   removed |-> FALSE]
    /\ Goto("commit")
    /\ UNCHANGED <<journal, link, stale, releases, units, backups, db, host>>

Commit ==
    /\ At("commit") \/ At("rb_commit")
    /\ Record("committed", "receipt_written")
    /\ op' = Idle
    /\ UNCHANGED <<receipt, link, stale, releases, units, backups, db, host>>

-----------------------------------------------------------------------------
(* _rollback_failed_change                                                  *)

(* Mutant: whatever the failed install finds is its own.                    *)
RemovedDatabase_Any == NoDatabase

(* _remove_transaction_database_objects.                                    *)
RemovedDatabase == IF op.fresh THEN NoDatabase ELSE db

UndoStop ==
    /\ At("undo")
    /\ services' = FALSE
    /\ Goto(IF op.previous = 0 THEN "undo_disable" ELSE "undo_migration")
    /\ UNCHANGED <<disk, enabled>>

(* A failed first install disables its units, removes its link, and the     *)
(* database only when the transaction created it.                           *)
UndoEnable ==
    /\ At("undo_disable")
    /\ services' = FALSE /\ enabled' = FALSE
    /\ Goto("undo_link")
    /\ UNCHANGED disk

UndoLink ==
    /\ At("undo_link")
    /\ link' = IF op.activated THEN 0 ELSE link
    /\ Goto("undo_database")
    /\ UNCHANGED <<journal, receipt, stale, releases, units, backups, db, host>>

(* Files that are not those the migration left are refused and stay, as a   *)
(* log file the services opened after it.                                   *)
UndoDatabase ==
    /\ At("undo_database")
    /\ db' \in {RemovedDatabase, db}
    /\ op' = [op EXCEPT !.pc = "undone",
                        !.verified = (op.fresh /\ Current = 0 /\ db' = NoDatabase)]
    /\ UNCHANGED <<journal, receipt, link, stale, releases, units, backups, host>>

(* _restore_backup: the database is replaced in one rename.                 *)
Restored(b) == IF b = 0 THEN db ELSE backups[b].db

UndoMigration ==
    /\ At("undo_migration")
    /\ op.backup # 0 => backups[op.backup] # NoBackup
    /\ db' = Restored(op.backup)
    /\ Goto("undo_activate")
    /\ UNCHANGED <<journal, receipt, link, stale, releases, units, backups, host>>

UndoActivation ==
    /\ At("undo_activate")
    /\ Switch(op.previous)
    /\ Goto("undo_verify")
    /\ UNCHANGED <<journal, receipt, stale, releases, units, backups, db, host>>

(* Mutant: the link alone is proof.                                         *)
Verified_Link(v) == Current = v

(* Health checks are a Fault of the step that makes them.                   *)
Verified(v) == Current = v /\ db.rev = v

(* The previous release is restarted and must be current, on its own        *)
(* revision, and healthy.                                                   *)
UndoVerify ==
    /\ At("undo_verify")
    /\ services' = TRUE
    /\ op' = [op EXCEPT !.pc = "undone",
                        !.verified = Verified(op.previous)]
    /\ UNCHANGED <<disk, enabled>>

Undone ==
    /\ At("undone")
    /\ Record(IF op.verified THEN "rollback_verified" ELSE "rollback_verification_failed",
              "rollback_attempted")
    /\ op' = Idle
    /\ UNCHANGED <<receipt, link, stale, releases, units, backups, db, host>>

-----------------------------------------------------------------------------
(* rollback, recover, uninstall                                             *)

(* The receipt alone selects the target; the journal is not consulted.      *)
Rollback ==
    /\ At("idle")
    /\ Current # 0 /\ receipt.previous \in releases
    /\ receipt.backup \in Backups
    /\ LET b == backups[receipt.backup]
       IN  b.version = receipt.previous /\ b.db.rev = receipt.previous
    /\ op' = [Idle EXCEPT !.pc = "rb_restore", !.version = receipt.previous,
                          !.previous = Current, !.backup = receipt.backup]
    /\ journal' = [status |-> "running", version |-> receipt.previous,
                   step |-> "rollback_preflight", fresh |-> FALSE, defer |-> FALSE]
    /\ UNCHANGED <<receipt, link, stale, releases, units, backups, db, host>>

RollbackRestore ==
    /\ At("rb_restore")
    /\ services' = FALSE
    /\ db' = Restored(op.backup)
    /\ Goto("rb_activate")
    /\ UNCHANGED <<journal, receipt, link, stale, releases, units, backups, enabled>>

RollbackActivate ==
    /\ At("rb_activate")
    /\ Record("running", "database_restored")
    /\ Switch(op.version)
    /\ Goto("rb_verify")
    /\ UNCHANGED <<receipt, stale, releases, units, backups, db, host>>

RollbackVerify ==
    /\ At("rb_verify")
    /\ Record("running", "rollback_activated")
    /\ services' = TRUE
    /\ Goto(IF Verified(op.version) THEN "rb_receipt" ELSE "rb_failed")
    /\ UNCHANGED <<receipt, link, stale, releases, units, backups, db, enabled>>

RollbackReceipt ==
    /\ At("rb_receipt")
    /\ receipt' = [active |-> op.version, previous |-> op.previous, backup |-> 0, removed |-> FALSE]
    /\ Goto("rb_commit")
    /\ UNCHANGED <<journal, link, stale, releases, units, backups, db, host>>

RollbackFailed ==
    /\ At("rb_failed")
    /\ Record("rollback_verification_failed", "rollback_attempted")
    /\ op' = Idle
    /\ UNCHANGED <<receipt, link, stale, releases, units, backups, db, host>>

(* recover closes a journal after verifying what is current; only a pending *)
(* rollback is restarted first, and that restart stays when it fails.       *)
Recover ==
    /\ At("idle")
    /\ RecoveryState \in {"rollback_pending", "preflight_interrupted"}
    /\ Current # 0 /\ receipt.active = Current
    /\ services' = (services \/ RecoveryState = "rollback_pending")
    /\ \/ Verified(receipt.active) /\ services' /\ journal' = [journal EXCEPT !.status = "rollback_verified"]
       \/ UNCHANGED journal
    /\ UNCHANGED <<receipt, link, stale, releases, units, backups, db, enabled, op>>

Uninstall ==
    /\ At("idle")
    /\ Current # 0 /\ receipt.active = Current
    /\ services' = FALSE /\ enabled' = FALSE
    /\ op' = [Idle EXCEPT !.pc = "unlink"]
    /\ UNCHANGED disk

RemoveLink ==
    /\ At("unlink")
    /\ link' = 0
    /\ Goto("remove")
    /\ UNCHANGED <<journal, receipt, stale, releases, units, backups, db, host>>

RemoveProgram ==
    /\ At("remove")
    /\ \E gone \in SUBSET releases :
          /\ releases' = releases \ gone
          /\ IF gone = releases THEN units' = FALSE /\ Goto("removed")
             ELSE op' = Idle /\ UNCHANGED units
    /\ UNCHANGED <<journal, receipt, link, stale, backups, db, host>>

Removed ==
    /\ At("removed")
    /\ receipt' = [receipt EXCEPT !.active = 0, !.removed = TRUE]
    /\ op' = Idle
    /\ UNCHANGED <<journal, link, stale, releases, units, backups, db, host>>

-----------------------------------------------------------------------------
(* Faults and the host                                                      *)

Trying == {"begin", "migrate", "migrated", "units", "activate", "activated", "retain", "receipt",
           "write", "commit"}
Undoing == {"undo", "undo_disable", "undo_link", "undo_database", "undo_migration",
            "undo_activate", "undo_verify"}
RollingBack == {"rb_restore", "rb_activate", "rb_verify", "rb_receipt", "rb_commit"}

(* Where an exception at pc is handled.                                     *)
Handler ==
    CASE op.pc \in Trying -> Goto("undo")
      [] op.pc \in Undoing -> Goto("undone")
      [] op.pc \in RollingBack -> Goto("rb_failed")
      [] OTHER -> op' = Idle

(* A step raises before its effect.                                         *)
Fault ==
    /\ ~At("idle")
    /\ Handler
    /\ UNCHANGED <<disk, host>>

(* os.replace raises, or the installer dies, with the link under its        *)
(* temporary name.                                                          *)
BrokenSwitch ==
    /\ op.pc \in {"activate", "undo_activate", "rb_activate"} /\ ~stale
    /\ stale' = TRUE
    /\ Handler \/ op' = Idle
    /\ UNCHANGED <<journal, receipt, link, releases, units, backups, db, host>>

Die == ~At("idle") /\ op' = Idle /\ UNCHANGED <<disk, host>>

(* The host restarts: enabled services start with it.                       *)
Reboot ==
    /\ op' = Idle
    /\ services' = (enabled /\ Current # 0)
    /\ UNCHANGED <<disk, enabled>>

(* The services write to the database.                                      *)
Work ==
    /\ services /\ db # NoDatabase /\ db.data < MaxData
    /\ db' = [db EXCEPT !.data = @ + 1]
    /\ UNCHANGED <<journal, receipt, link, stale, releases, units, backups, host, op>>

Init ==
    /\ journal = NoJournal /\ receipt = NoReceipt
    /\ link = 0 /\ stale = FALSE /\ releases = {} /\ units = FALSE
    /\ backups = <<>> /\ db = NoDatabase
    /\ services = FALSE /\ enabled = FALSE
    /\ op = Idle

Invoke ==
    \/ \E v \in Versions, defer \in BOOLEAN : Apply(v, defer) \/ Resume(v, defer)
    \/ Rollback \/ Recover \/ Uninstall

Forward ==
    \/ BeginStaging \/ StageRelease \/ Staged \/ Backup \/ BeginMigration \/ Migrate
    \/ InstallUnits \/ UnitsInstalled \/ Activate \/ StartServices \/ Retain
    \/ BeginReceipt \/ WriteReceipt \/ Commit

Backward ==
    \/ UndoStop \/ UndoEnable \/ UndoLink \/ UndoDatabase
    \/ UndoMigration \/ UndoActivation \/ UndoVerify \/ Undone
    \/ RollbackRestore \/ RollbackActivate \/ RollbackVerify \/ RollbackReceipt \/ RollbackFailed
    \/ RemoveLink \/ RemoveProgram \/ Removed

Next == Invoke \/ Forward \/ Backward \/ Fault \/ BrokenSwitch \/ Die \/ Reboot \/ Work

Spec == Init /\ [][Next]_vars

-----------------------------------------------------------------------------
(* What the installer calls `installed' is: the release that is current is   *)
(* the receipt's, its units are in place and the database is at its revision, *)
(* whatever was interrupted, undone, rolled back or recovered before.        *)
InstalledIsConsistent ==
    At("idle") /\ InstallationState = "installed" =>
        units /\ db.rev = Current

(* A failed upgrade is undone exactly: before the previous release is        *)
(* restarted it is current again and the database is the one the services    *)
(* had left when they were stopped.                                          *)
FailedUpgradeIsUndone ==
    At("undo_verify") => link = op.previous /\ db = op.before

(* UNINSTALL.md, INSTALLATION.md: only a database that the same transaction  *)
(* created is ever removed.                                                  *)
DatabaseIsKept ==
    [][db # NoDatabase /\ db' = NoDatabase => op.fresh]_vars

(* ROLLBACK.md: after a committed upgrade the release and the backup that    *)
(* the receipt names for a rollback are there, and belong together.          *)
CommittedIsReversible ==
    At("idle") /\ InstallationState = "installed" /\ journal.status = "committed"
            /\ receipt.backup # 0 =>
        /\ receipt.previous \in releases
        /\ backups[receipt.backup].version = receipt.previous
        /\ backups[receipt.backup].db.rev = receipt.previous

(* ROLLBACK.md: "Receipt-pinned backup and direct rollback release           *)
(* identities are protected", also after an upgrade that retention had       *)
(* already served and that was then undone.                                  *)
PinnedIsProtected ==
    At("idle") /\ InstallationState = "installed" /\ receipt.backup # 0 =>
        receipt.previous \in releases /\ receipt.backup \in Backups
=============================================================================
