--------------------------- MODULE EvidenceFiles ---------------------------
(***************************************************************************)
(* Evidence is a file below DATA_DIR and a DataAsset row that names its     *)
(* path and its checksum; the two are written one after the other, by        *)
(* processes that share neither a lock nor a transaction on the file system. *)
(* This module is AssetStore.write_bytes with the places that call it and    *)
(* then register a row (they differ in what comes first and in how they      *)
(* clean up after a failure), the backup and restore commands, and           *)
(* verify_registered_assets.                                                *)
(*                                                                          *)
(* A writer makes one attempt, of one of the kinds of AttemptOf below.        *)
(***************************************************************************)
EXTENDS Naturals, Sequences, FiniteSets

CONSTANTS
  Writers,
  Kinds,         \* the kinds of attempt looked at
  None,
  QuietStudies   \* assumption: two registrations of one study never overlap

ASSUME FilesAssumption ==
  /\ Kinds \subseteq {"catalog", "sec", "price", "intake", "batch", "issue", "proof",
                      "claimant", "study", "frequency"}
  /\ QuietStudies \in BOOLEAN

Own(w, n) == <<"own", w, n>>
ProofPath == <<"shared", "proof", 0>>
StudyPath == <<"shared", "study", 0>>
Paths == {Own(w, n) : w \in Writers, n \in 1..3} \cup {ProofPath, StudyPath}

\* An attempt: its files in order; when its rows are inserted (all after its files, each
\* after its file, or before the file); whether it knows which files it found in place; and
\* whether a failure is cleaned up after.  A path holds the time of a retrieval, an identity
\* made for this attempt or a digest of the bytes, except for the two shared ones.
Attempt(fs, register, knows, cleans) ==
  [files |-> fs, register |-> register, knows |-> knows, cleans |-> cleans]

\* _persist_catalog: one file, then one row.
Catalog(w) == Attempt(<<Own(w, 1)>>, "after", FALSE, TRUE)

\* _persist_payload, for bytes that have no row yet.
SecPayload(w) == Attempt(<<Own(w, 1)>>, "after", FALSE, TRUE)

\* _persist_price_series: the raw response and the normalised frame, rows in one transaction.
PriceSeries(w) == Attempt(<<Own(w, 1), Own(w, 2)>>, "after", FALSE, TRUE)

\* capture_product_intake and close_liquidity_batch: as a catalogue.
Intake(w) == Attempt(<<Own(w, 1)>>, "after", FALSE, TRUE)
Batch(w) == Attempt(<<Own(w, 1)>>, "after", FALSE, TRUE)

\* run_us_daily: membership evidence, forecast panel and output manifest, each with its row,
\* in the one transaction of the analysis.
Issue(w) == Attempt(<<Own(w, 1), Own(w, 2), Own(w, 3)>>, "each", TRUE, TRUE)

\* attest_scheduled_portfolio_snapshots: the row first, the file inside its transaction.
Proof(w) == Attempt(<<ProofPath>>, "before", TRUE, TRUE)

\* The direct writer of the same proof that _cleanup_attempt_file is written against.
Claimant(w) == Attempt(<<ProofPath>>, "after", FALSE, FALSE)

\* _register_price_product_study: the path is named for the logical report, the bytes also
\* hold the time of the attempt.
Study(w) == Attempt(<<StudyPath>>, "after", FALSE, TRUE)

\* register_product_frequencies, under a lock and in a durable transaction.
Frequency(w) == Attempt(<<Own(w, 1)>>, "after", FALSE, FALSE)

AttemptOf(w, k) ==
  CASE k = "catalog" -> Catalog(w)
    [] k = "sec" -> SecPayload(w)
    [] k = "price" -> PriceSeries(w)
    [] k = "intake" -> Intake(w)
    [] k = "batch" -> Batch(w)
    [] k = "issue" -> Issue(w)
    [] k = "proof" -> Proof(w)
    [] k = "claimant" -> Claimant(w)
    [] k = "study" -> Study(w)
    [] k = "frequency" -> Frequency(w)

\* Bytes: those of a study tell their writers apart; "bad" is what damage leaves.
Canonical == <<"canonical", None>>
Bytes(w, k) == IF k = "study" THEN <<"report", w>> ELSE Canonical
Bad == <<"bad", None>>

ASSUME NoneAssumption ==
  /\ None \notin Kinds /\ None \notin {Canonical, Bad}
  /\ \A w \in Writers : Bytes(w, "study") # None

VARIABLES
  files,     \* the bytes at each path, None for no file
  rows,      \* committed DataAsset rows
  job,       \* each writer's attempt: its kind, whether it found its file before it began
             \* (a proof), its next file, and what it may have to remove
  pc,        \* where each writer is
  pending,   \* rows of its open transaction
  backup,    \* the backup command, and then its bundle
  restore,   \* the restore command
  damaged,   \* paths whose file the disk has lost or changed
  late       \* proof rows claimed after a cleanup had looked for claimants

writer == <<job, pc, pending>>
disk == <<files, damaged>>
vars == <<files, rows, job, pc, pending, backup, restore, damaged, late>>

NoJob == [kind |-> None, found |-> FALSE, next |-> 1, remove |-> {}]
NoBackup == [pc |-> "idle", rows |-> {}, todo |-> {}, files |-> [p \in Paths |-> None],
             intact |-> TRUE]

Init ==
  /\ files = [p \in Paths |-> None] /\ rows = {}
  /\ job = [w \in Writers |-> NoJob] /\ pc = [w \in Writers |-> "idle"]
  /\ pending = [w \in Writers |-> {}]
  /\ backup = NoBackup
  /\ restore = [pc |-> "idle", todo |-> {}]
  /\ damaged = {} /\ late = {}

Row(p, b) == [path |-> p, sha |-> b]
PathsOf(rs) == {r.path : r \in rs}
Resting == {"idle", "done", "failed", "dead"}
Kind(w) == job[w].kind
Plan(w) == AttemptOf(w, Kind(w))
Files(w) == Plan(w).files
More(w) == job[w].next < Len(Files(w))
Path(w) == Files(w)[job[w].next]
Mine(w) == Bytes(w, Kind(w))
Goto(w, label) == pc' = [pc EXCEPT ![w] = label]
Restoring == restore.pc \notin {"idle", "done"}

-----------------------------------------------------------------------------
(* An attempt *)

\* Jobs are stopped before a restore.  A study that has its row is returned as it is.  A
\* proof looks whether its file exists before it inserts its row.
Start(w, k) ==
  /\ pc[w] = "idle" /\ ~Restoring
  /\ k = "study" =>
       /\ StudyPath \notin PathsOf(rows)
       /\ QuietStudies => \A v \in Writers : Kind(v) = "study" => pc[v] \in Resting
  /\ job' = [job EXCEPT ![w].kind = k,
                        ![w].found = (k = "proof" /\ files[ProofPath] # None)]
  /\ Goto(w, IF AttemptOf(w, k).register = "before" THEN "insert" ELSE "look")
  /\ UNCHANGED <<disk, rows, pending, backup, restore, late>>

\* Where an attempt goes once a file of it is in place.
AfterFile(w) ==
  CASE Plan(w).register = "before" -> "commit"
    [] Plan(w).register = "each" -> "insert"
    [] Plan(w).register = "after" -> IF More(w) THEN "look" ELSE "insert"

\* The file of this step is there: it is a file to remove should the attempt fail, unless
\* the attempt found it there and knows that it did: as write_bytes says, or for a proof as
\* it was before its row.
Found(w, existed) == IF Kind(w) = "proof" THEN job[w].found ELSE existed
Keeps(w, existed) == ~Plan(w).cleans \/ (Plan(w).knows /\ Found(w, existed))

Placed(w, existed) ==
  /\ job' = [job EXCEPT
       ![w].remove = IF Keeps(w, existed) THEN @ ELSE @ \cup {Path(w)},
       ![w].next = IF AfterFile(w) = "look" THEN @ + 1 ELSE @]
  /\ Goto(w, AfterFile(w))

\* write_bytes up to its answer for a file that exists: the same bytes are left alone,
\* others are refused.
Look(w) ==
  /\ pc[w] = "look"
  /\ \/ files[Path(w)] = None /\ Goto(w, "replace") /\ UNCHANGED job
     \/ files[Path(w)] = Mine(w) /\ Placed(w, TRUE)
     \/ files[Path(w)] \notin {None, Mine(w)} /\ Goto(w, "fail") /\ UNCHANGED job
  /\ UNCHANGED <<disk, rows, pending, backup, restore, late>>

\* write_bytes: os.replace puts the temporary file at the path, whatever is there by now.
Replace(w) ==
  /\ pc[w] = "replace"
  /\ files' = [files EXCEPT ![Path(w)] = Mine(w)]
  /\ damaged' = damaged \ {Path(w)}
  /\ Placed(w, FALSE)
  /\ UNCHANGED <<rows, pending, backup, restore, late>>

ToRegister(w) ==
  IF Plan(w).register = "each" THEN {Row(Path(w), Mine(w))}
  ELSE {Row(Files(w)[n], Mine(w)) : n \in DOMAIN Files(w)}

AfterInsert(w) ==
  IF Plan(w).register = "before" \/ (Plan(w).register = "each" /\ More(w))
  THEN "look" ELSE "commit"

Claims(w, ps) == PathsOf(pending[w]) \cap ps # {}

\* register_asset: relative_path is unique.  The insert waits for an open transaction that
\* has inserted the path; from then on it holds the table against a LOCK TABLE.
Insert(w) ==
  LET new == ToRegister(w)
      taken == PathsOf(new) \cap PathsOf(rows) # {}
      blocked == \E v \in Writers \ {w} : pc[v] # "waiting" /\ Claims(v, PathsOf(new))
  IN /\ pc[w] \in {"insert", "waiting"}
     /\ \/ blocked /\ pc[w] = "insert"
           /\ pending' = [pending EXCEPT ![w] = @ \cup new]
           /\ Goto(w, "waiting") /\ UNCHANGED job
        \/ ~blocked /\ taken
           /\ Goto(w, "fail") /\ UNCHANGED <<job, pending>>
        \/ ~blocked /\ ~taken
           /\ pending' = [pending EXCEPT ![w] = @ \cup new]
           /\ job' = [job EXCEPT ![w].next =
                        IF Plan(w).register = "each" /\ More(w) THEN @ + 1 ELSE @]
           /\ Goto(w, AfterInsert(w))
     /\ UNCHANGED <<disk, rows, backup, restore, late>>

Commit(w) ==
  /\ pc[w] = "commit"
  /\ rows' = rows \cup pending[w]
  /\ pending' = [pending EXCEPT ![w] = {}]
  /\ Goto(w, "done")
  /\ UNCHANGED <<disk, job, backup, restore, late>>

\* Any step may raise once something is in place, up to the commit itself.
Raise(w) ==
  /\ pc[w] \in {"look", "insert", "commit"} /\ job[w].remove # {}
  /\ Goto(w, "fail")
  /\ UNCHANGED <<disk, rows, job, pending, backup, restore, late>>

\* Faulty variant: the cleanup asks before the transaction has ended, and sees its rows.
ClaimedInside(w, p) == p \in PathsOf(rows \cup pending[w])

\* DataAsset.objects.filter(relative_path=...).exists(), after the transaction has ended.
Claimed(w, p) == p \in PathsOf(rows)

\* The transaction is rolled back; what the attempt placed and nobody claims is to go.
RollBack(w) ==
  /\ pc[w] = "fail"
  /\ pending' = [pending EXCEPT ![w] = {}]
  /\ job' = [job EXCEPT ![w].remove =
               IF Kind(w) = "proof" THEN @ ELSE {p \in @ : ~Claimed(w, p)}]
  /\ Goto(w, "cleanup")
  /\ UNCHANGED <<disk, rows, backup, restore, late>>

\* The unlink comes after that question: _best_effort_unlink_if_orphaned and its likes.
Unlink(w) ==
  /\ pc[w] = "cleanup" /\ Kind(w) # "proof"
  /\ files' = [p \in Paths |-> IF p \in job[w].remove THEN None ELSE files[p]]
  /\ Goto(w, "failed")
  /\ UNCHANGED <<damaged, rows, job, pending, backup, restore, late>>

\* Faulty variant: the table is not locked.
Unlocked(w) == TRUE

\* LOCK TABLE ... IN SHARE MODE waits for every transaction with an insert.
TableQuiet(w) == \A v \in Writers \ {w} : pending[v] = {}

\* _cleanup_attempt_file: a claimant with this checksum keeps the file; else it goes if
\* its bytes are still those of the attempt.
CleanProof(w) ==
  /\ pc[w] = "cleanup" /\ Kind(w) = "proof" /\ TableQuiet(w)
  /\ LET gone == job[w].remove # {} /\ Row(ProofPath, Mine(w)) \notin rows
                   /\ files[ProofPath] = Mine(w)
     IN /\ files' = IF gone THEN [files EXCEPT ![ProofPath] = None] ELSE files
        /\ late' = IF gone THEN {v \in Writers : Kind(v) = "claimant" /\ pc[v] = "insert"}
                   ELSE late
  /\ Goto(w, "failed")
  /\ UNCHANGED <<damaged, rows, job, pending, backup, restore>>

\* The process is killed: the database rolls back, the files stay.
Die(w) ==
  /\ pc[w] \notin Resting
  /\ pending' = [pending EXCEPT ![w] = {}]
  /\ Goto(w, "dead")
  /\ UNCHANGED <<disk, rows, job, backup, restore, late>>

-----------------------------------------------------------------------------
(* Backup: jobs go on meanwhile *)

\* _snapshot_database: one consistent state of the database.
Dump ==
  /\ backup.pc = "idle" /\ ~Restoring
  /\ backup' = [backup EXCEPT !.pc = "list", !.rows = rows]
  /\ UNCHANGED <<disk, rows, writer, restore, late>>

\* create_backup_bundle: sorted(data_dir.rglob("*")) lists the files first.
List ==
  /\ backup.pc = "list"
  /\ backup' = [backup EXCEPT !.pc = "copy", !.todo = {p \in Paths : files[p] # None}]
  /\ UNCHANGED <<disk, rows, writer, restore, late>>

\* One listed file.  One that has gone is skipped or, a moment later, fails the command.
Copy(p) ==
  /\ backup.pc = "copy" /\ p \in backup.todo
  /\ backup' = [backup EXCEPT !.todo = @ \ {p}, !.files[p] = files[p]]
  /\ UNCHANGED <<disk, rows, writer, restore, late>>

\* Faulty variant: the database is dumped after the files have been copied.
BundleDumpedLast == [backup EXCEPT !.pc = "done", !.rows = rows]

\* The manifest with the checksums, and the archive at its final path.
Bundle == [backup EXCEPT !.pc = "done"]

FinishBackup ==
  /\ backup.pc = "copy" /\ backup.todo = {}
  /\ backup' = Bundle
  /\ UNCHANGED <<disk, rows, writer, restore, late>>

FailBackup ==
  /\ backup.pc \in {"list", "copy"}
  /\ backup' = NoBackup
  /\ UNCHANGED <<disk, rows, writer, restore, late>>

-----------------------------------------------------------------------------
(* Restore: every process is stopped *)

\* verify_backup_bundle: the members are those of the manifest, with their checksums.
Verified(b) == b.intact

\* extract_verified_backup and _prepare_asset_restore touch neither rows nor files.  A
\* restore that died is begun anew.
BeginRestore ==
  /\ restore.pc \in {"idle", "torn"} /\ backup.pc = "done" /\ Verified(backup)
  /\ \A w \in Writers : pc[w] \in Resting
  /\ restore' = [pc |-> "database", todo |-> {}]
  /\ UNCHANGED <<disk, rows, writer, backup, late>>

\* Faulty variant: files that are there are kept.
MissingMembers == {p \in Paths : backup.files[p] # None /\ files[p] = None}

AssetMembers == {p \in Paths : backup.files[p] # None}

RestoreDatabase ==
  /\ restore.pc = "database"
  /\ rows' = IF backup.intact THEN backup.rows ELSE {}
  /\ restore' = [pc |-> "assets", todo |-> AssetMembers]
  /\ UNCHANGED <<disk, writer, backup, late>>

RestoreAsset(p) ==
  /\ restore.pc = "assets" /\ p \in restore.todo
  /\ files' = [files EXCEPT ![p] = IF backup.intact THEN backup.files[p] ELSE Bad]
  /\ restore' = [restore EXCEPT !.todo = @ \ {p}]
  /\ UNCHANGED <<damaged, rows, writer, backup, late>>

\* From here on, earlier damage to what the bundle holds intact excuses nothing.
FinishRestore ==
  /\ restore.pc = "assets" /\ restore.todo = {}
  /\ restore' = [restore EXCEPT !.pc = "done"]
  /\ damaged' = {p \in damaged : backup.files[p] \in {None, Bad}}
  /\ UNCHANGED <<files, rows, writer, backup, late>>

\* The restore fails or is killed: the database may be replaced and the files not.
TearRestore ==
  /\ restore.pc \in {"database", "assets"}
  /\ restore' = [pc |-> "torn", todo |-> {}]
  /\ UNCHANGED <<disk, rows, writer, backup, late>>

-----------------------------------------------------------------------------
(* The disk *)

\* Damage, at rest: one file, or one member of the bundle.
Damage(p) ==
  /\ damaged = {} /\ backup.intact /\ ~Restoring /\ files[p] # None
  /\ \A w \in Writers : pc[w] \in Resting
  /\ backup.pc \in {"idle", "done"}
  /\ damaged' = {p}
  /\ files' = [files EXCEPT ![p] = Bad]
  /\ UNCHANGED <<rows, writer, backup, restore, late>>

DamageBundle ==
  /\ backup.pc = "done" /\ backup.intact /\ damaged = {} /\ restore.pc = "idle"
  /\ backup' = [backup EXCEPT !.intact = FALSE]
  /\ UNCHANGED <<disk, rows, writer, restore, late>>

WriterStep(w) ==
  \/ \E k \in Kinds : Start(w, k)
  \/ Look(w) \/ Replace(w) \/ Insert(w) \/ Commit(w)
  \/ Raise(w) \/ RollBack(w) \/ Unlink(w) \/ CleanProof(w) \/ Die(w)

BackupStep == Dump \/ List \/ (\E p \in Paths : Copy(p)) \/ FinishBackup \/ FailBackup

RestoreStep ==
  \/ BeginRestore \/ RestoreDatabase \/ (\E p \in Paths : RestoreAsset(p))
  \/ FinishRestore \/ TearRestore

Next ==
  \/ \E w \in Writers : WriterStep(w)
  \/ BackupStep \/ RestoreStep
  \/ \E p \in Paths : Damage(p)
  \/ DamageBundle

Spec == Init /\ [][Next]_vars

-----------------------------------------------------------------------------
(* Properties *)

\* What verify_registered_assets reports: rows whose file is missing or has another
\* checksum.
Failures == {r \in rows : files[r.path] # r.sha}

\* The proof rows that _cleanup_attempt_file does not claim to protect.
Unprotected == {r \in rows : r.path = ProofPath /\ late # {}}

\* Between restores, a registered file holds the bytes of its row ("relative_path is an
\* immutable vintage's natural key, so the file it points at must never silently change
\* underneath it", AssetConflictError): only what the disk itself damaged is reported,
\* whatever fails, dies or is cleaned up around it.
RowsBacked == ~Restoring => \A r \in Failures \ Unprotected : r.path \in damaged

\* An attempt that failed, and was not killed, leaves no file of its own without a row.
\* (A restore may bring back a file that a backup copied before the attempt failed.)
NoOrphanLeft ==
  \A w \in Writers : pc[w] = "failed" /\ restore.pc = "idle" =>
    \A p \in {Own(w, n) : n \in 1..3} : Plan(w).cleans /\ files[p] # None => p \in PathsOf(rows)

\* A backup taken beside running jobs holds the file of every row of its database: rows
\* are committed after their files, and files of rows are not removed.
BundleComplete ==
  backup.pc = "done" =>
    \A r \in backup.rows : r.path \notin damaged /\ r \notin Unprotected =>
      backup.files[r.path] \in {r.sha, Bad}

\* A restore that ran to its end has put back every row with its file, damaged ones and
\* those of an earlier, torn restore included.
RestoreComplete ==
  restore.pc = "done" =>
    \A r \in backup.rows : backup.files[r.path] = r.sha =>
      (r \in rows /\ (files[r.path] = r.sha \/ r.path \in damaged))
=============================================================================
