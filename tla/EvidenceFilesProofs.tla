------------------------ MODULE EvidenceFilesProofs ------------------------
(***************************************************************************)
(* Proofs about EvidenceFiles for any writers, each with an attempt of any    *)
(* kind, with a backup, restores and damage beside them.  The registrations   *)
(* of one study are assumed not to overlap (QuietStudies) throughout: the run *)
(* that looks at overlapping ones shows what they do to each other.            *)
(***************************************************************************)
EXTENDS EvidenceFiles, TLAPS

Active(w) == pc[w] \notin Resting
OwnPaths(w) == {Own(w, n) : n \in 1..3}
AllBytes == {Canonical, Bad} \cup {<<"report", w>> : w \in Writers}
AllRows == [path : Paths, sha : AllBytes]
RowsOf(w) == {Row(Files(w)[n], Mine(w)) : n \in DOMAIN Files(w)}

TypeOK ==
  /\ files \in [Paths -> AllBytes \cup {None}] /\ rows \subseteq AllRows
  /\ job \in [Writers -> [kind : Kinds \cup {None}, found : BOOLEAN, next : 1..3,
                          remove : SUBSET Paths]]
  /\ pc \in [Writers -> Resting \cup {"look", "replace", "insert", "waiting", "commit",
                                     "fail", "cleanup"}]
  /\ pending \in [Writers -> SUBSET AllRows]
  /\ backup \in [pc : {"idle", "list", "copy", "done"}, rows : SUBSET AllRows,
                 todo : SUBSET Paths, files : [Paths -> AllBytes \cup {None}],
                 intact : BOOLEAN]
  /\ restore \in [pc : {"idle", "database", "assets", "torn", "done"}, todo : SUBSET Paths]
  /\ damaged \subseteq Paths /\ late \subseteq Writers

\* What a writer's job, its open transaction and its place in the attempt say of each other.
JobOK(w) ==
  /\ pc[w] = "idle" => job[w] = NoJob
  /\ pc[w] # "idle" =>
       /\ Kind(w) \in Kinds /\ job[w].next \in DOMAIN Files(w)
       /\ \A p \in job[w].remove : \E n \in DOMAIN Files(w) : p = Files(w)[n]
       /\ ~Plan(w).cleans => job[w].remove = {}
       /\ pending[w] \subseteq RowsOf(w)
  /\ pc[w] = "commit" \/ (pc[w] \in {"insert", "waiting"} /\ Plan(w).register = "after") =>
       ~More(w)
  /\ pc[w] \in Resting \cup {"cleanup"} => pending[w] = {}
  /\ \/ pc[w] \in {"waiting", "commit"}
     \/ pc[w] \in {"look", "replace"} /\ Plan(w).register = "before"
     => pending[w] # {}

Jobs == \A w \in Writers : JobOK(w)

\* The files an attempt has put in place, or found there, and goes on to register.
InHand(w, n) ==
  \/ n < job[w].next
  \/ /\ n = job[w].next
     /\ pc[w] = "commit" \/ (pc[w] \in {"insert", "waiting"} /\ Plan(w).register # "before")

\* They stay there until its rows are committed.
HandOK(w) ==
  pc[w] \in {"look", "replace", "insert", "waiting", "commit"} =>
    \A n \in DOMAIN Files(w) : InHand(w, n) =>
      \/ files[Files(w)[n]] = Mine(w)
      \/ Kind(w) = "claimant" /\ late # {}

InPlace == \A w \in Writers : HandOK(w)

\* Whose each row is.
RowsKnown ==
  \A r \in rows :
    \/ r.path = ProofPath /\ r.sha = Canonical
    \/ r.path = StudyPath /\ \E w \in Writers : r.sha = <<"report", w>>
    \/ r.sha = Canonical /\ \E w \in Writers : r.path \in OwnPaths(w) /\ pc[w] = "done"

\* One study is registered at a time, and only while it has no row.
OneStudy ==
  \A w \in Writers : Kind(w) = "study" /\ Active(w) =>
    /\ StudyPath \notin PathsOf(rows)
    /\ \A v \in Writers : Kind(v) = "study" /\ Active(v) => v = w

\* What a cleanup is about to remove has no row.
CleanOK(w) ==
  pc[w] = "cleanup" /\ Kind(w) # "proof" => job[w].remove \cap PathsOf(rows) = {}

Cleanup == \A w \in Writers : CleanOK(w)

\* Until the first restore, an attempt's own files are among those that it would remove.
TrackOK(w) ==
  restore.pc = "idle" =>
    \A p \in OwnPaths(w) : files[p] # None =>
      /\ pc[w] # "idle"
      /\ Plan(w).cleans => pc[w] # "failed" /\ (Active(w) => p \in job[w].remove)

Tracked == \A w \in Writers : TrackOK(w)

\* A damaged file stays as it is until it is restored, and what is damaged is known.
DamageKnown ==
  /\ \A p \in damaged : files[p] = Bad \/ (Restoring /\ backup.files[p] # None)
  /\ \A w \in Writers : (pc[w] = "replace" => Path(w) \notin damaged)
  /\ \A w \in Writers : Active(w) => job[w].remove \cap damaged = {}
  /\ \A p \in Paths : Bad \in {files[p], backup.files[p]} => p \in damaged

Excused(r) == r.path = ProofPath /\ late # {}

\* The database of a backup is part of the present one, and its files are copied with the
\* bytes that the rows have.
BackupHolds ==
  /\ backup.rows \subseteq rows
  /\ \A p \in Paths : \A w \in Writers : pc[w] = "idle" /\ p \in OwnPaths(w) => backup.files[p] = None
  /\ \A r \in backup.rows :
       \/ Excused(r) \/ backup.pc = "list"
       \/ backup.pc = "copy" /\ r.path \in backup.todo
       \/ backup.files[r.path] \in {r.sha, Bad}
  /\ Restoring => backup.pc = "done"
  /\ restore.pc # "idle" => backup.pc = "done" /\ backup.intact
  /\ backup.pc = "idle" => backup.rows = {}

\* A restore replaces the rows, and then one file after the other, while no writer runs.
RestoreHolds ==
  /\ Restoring => \A w \in Writers : ~Active(w)
  /\ restore.pc = "assets" =>
       /\ rows = backup.rows /\ restore.todo \subseteq AssetMembers
       /\ \A p \in AssetMembers : p \in restore.todo \/ files[p] = backup.files[p]

IInv ==
  /\ TypeOK /\ Jobs /\ InPlace /\ RowsKnown /\ OneStudy /\ Cleanup /\ Tracked
  /\ DamageKnown /\ BackupHolds /\ RestoreHolds /\ RowsBacked /\ RestoreComplete

-----------------------------------------------------------------------------
(* Paths, bytes and attempts *)

LEMMA Distinct ==
  /\ \A w, v \in Writers, n, m \in 1..3 : Own(w, n) = Own(v, m) => w = v /\ n = m
  /\ \A w \in Writers, n \in 1..3 :
       /\ Own(w, n) \in Paths /\ Own(w, n) # ProofPath /\ Own(w, n) # StudyPath
  /\ ProofPath \in Paths /\ StudyPath \in Paths /\ ProofPath # StudyPath
  /\ Canonical # Bad /\ \A w \in Writers : <<"report", w>> \notin {Bad, Canonical}
  BY DEF Own, ProofPath, StudyPath, Paths, Canonical, Bad

\* What the kind of an attempt decides.
Shape(w, k, fs, register) ==
  /\ Len(fs) \in 1..3 /\ DOMAIN fs = 1..Len(fs)
  /\ \A n \in 1..Len(fs) :
       fs[n] = IF k \in {"proof", "claimant"} THEN ProofPath
               ELSE IF k = "study" THEN StudyPath ELSE Own(w, n)
  /\ k \in {"proof", "claimant", "study"} => Len(fs) = 1
  /\ register \in {"after", "each", "before"}
  /\ register = "before" <=> k = "proof"

LEMMA AttemptFacts ==
  ASSUME NEW w \in Writers, NEW k \in Kinds
  PROVE  Shape(w, k, AttemptOf(w, k).files, AttemptOf(w, k).register)
  <1>1. k \in {"catalog", "sec", "price", "intake", "batch", "issue", "proof", "claimant",
              "study", "frequency"}
    BY FilesAssumption
  <1>2. AttemptOf(w, k).register = IF k = "proof" THEN "before"
                                  ELSE IF k = "issue" THEN "each" ELSE "after"
    BY <1>1
    DEF AttemptOf, Attempt, Catalog, SecPayload, Intake, Batch, PriceSeries, Issue, Proof,
        Claimant, Study, Frequency
  <1>3. AttemptOf(w, k).files = IF k = "price" THEN <<Own(w, 1), Own(w, 2)>>
                                ELSE IF k = "issue" THEN <<Own(w, 1), Own(w, 2), Own(w, 3)>>
                                ELSE IF k \in {"proof", "claimant"} THEN <<ProofPath>>
                                ELSE IF k = "study" THEN <<StudyPath>> ELSE <<Own(w, 1)>>
    BY <1>1
    DEF AttemptOf, Attempt, Catalog, SecPayload, Intake, Batch, PriceSeries, Issue, Proof,
        Claimant, Study, Frequency
  <1>4. CASE k = "price"
    BY <1>2, <1>3, <1>4 DEF Shape
  <1>5. CASE k = "issue"
    BY <1>2, <1>3, <1>5 DEF Shape
  <1>6. CASE k \in {"proof", "claimant", "study"}
    <2>1. k = "study" => Shape(w, k, AttemptOf(w, k).files, AttemptOf(w, k).register)
      BY <1>2, <1>3 DEF Shape
    <2>2. k = "proof" => Shape(w, k, AttemptOf(w, k).files, AttemptOf(w, k).register)
      BY <1>2, <1>3 DEF Shape
    <2>3. k = "claimant" => Shape(w, k, AttemptOf(w, k).files, AttemptOf(w, k).register)
      BY <1>2, <1>3 DEF Shape
    <2>. QED
      BY <1>6, <2>1, <2>2, <2>3
  <1>7. CASE k \in {"catalog", "sec", "intake", "batch", "frequency"}
    <2>1. AttemptOf(w, k).files = <<Own(w, 1)>>
      BY <1>3, <1>7
    <2>2. \A n \in 1..Len(AttemptOf(w, k).files) : AttemptOf(w, k).files[n] = Own(w, n)
      BY <2>1
    <2>. QED
      BY <1>2, <1>7, <2>1, <2>2 DEF Shape
  <1>. QED
    BY <1>1, <1>4, <1>5, <1>6, <1>7

LEMMA ClaimantKeeps == \A w \in Writers : ~AttemptOf(w, "claimant").cleans
  BY DEF AttemptOf, Attempt, Claimant

\* What that says of a writer that has begun.
LEMMA WriterFacts ==
  ASSUME Jobs, NEW w \in Writers, pc[w] # "idle"
  PROVE  /\ Shape(w, Kind(w), Files(w), Plan(w).register)
         /\ Kind(w) = "claimant" => ~Plan(w).cleans
         /\ Mine(w) = IF Kind(w) = "study" THEN <<"report", w>> ELSE Canonical
         /\ Mine(w) \in AllBytes /\ Mine(w) \notin {Bad, None}
         /\ \A n \in DOMAIN Files(w) : Files(w)[n] \in Paths
         /\ Kind(w) \notin {"proof", "claimant", "study"} =>
              \A n \in DOMAIN Files(w) : Files(w)[n] \in OwnPaths(w)
  <1>1. Kind(w) \in Kinds
    BY DEF Jobs, JobOK
  <1>2. Shape(w, Kind(w), Files(w), Plan(w).register)
    BY <1>1, AttemptFacts DEF Files, Plan
  <1>3. Kind(w) = "claimant" => ~Plan(w).cleans
    BY ClaimantKeeps DEF Plan
  <1>4. Mine(w) = IF Kind(w) = "study" THEN <<"report", w>> ELSE Canonical
    BY DEF Mine, Bytes, Canonical
  <1>5. Mine(w) \in AllBytes /\ Mine(w) # Bad
    BY <1>4, Distinct DEF AllBytes
  <1>6. Mine(w) # None
    BY <1>4, NoneAssumption DEF Bytes
  <1>7. \A n \in DOMAIN Files(w) : Files(w)[n] \in Paths
    BY <1>2, Distinct DEF Shape
  <1>8. Kind(w) \notin {"proof", "claimant", "study"} =>
          \A n \in DOMAIN Files(w) : Files(w)[n] \in OwnPaths(w)
    BY <1>2 DEF Shape, OwnPaths
  <1>. QED
    BY <1>2, <1>3, <1>4, <1>5, <1>6, <1>7, <1>8

\* Two writers meet only at a shared path, and there they write the same kind of bytes.
LEMMA Meeting ==
  ASSUME Jobs, NEW w \in Writers, NEW v \in Writers, v # w,
         pc[w] # "idle", pc[v] # "idle",
         NEW n \in DOMAIN Files(w), NEW m \in DOMAIN Files(v), Files(w)[n] = Files(v)[m]
  PROVE  \/ /\ Files(w)[n] = ProofPath /\ Mine(w) = Canonical /\ Mine(v) = Canonical
            /\ Kind(w) \in {"proof", "claimant"} /\ Kind(v) \in {"proof", "claimant"}
         \/ Files(w)[n] = StudyPath /\ Kind(w) = "study" /\ Kind(v) = "study"
  <1>1. Shape(w, Kind(w), Files(w), Plan(w).register) /\ Shape(v, Kind(v), Files(v), Plan(v).register)
    BY WriterFacts
  <1>2. n \in 1..3 /\ m \in 1..3
    BY <1>1 DEF Shape
  <1>3. /\ Mine(w) = IF Kind(w) = "study" THEN <<"report", w>> ELSE Canonical
        /\ Mine(v) = IF Kind(v) = "study" THEN <<"report", v>> ELSE Canonical
    BY WriterFacts
  <1>. QED
    BY <1>1, <1>2, <1>3, Distinct DEF Shape

-----------------------------------------------------------------------------
(* Steps of one writer that touch neither files nor rows *)

LEMMA StepAside ==
  ASSUME IInv, NEW w \in Writers, UNCHANGED <<disk, rows, backup, restore, late>>,
         \A v \in Writers \ {w} : /\ job'[v] = job[v] /\ pc'[v] = pc[v]
                                /\ pending'[v] = pending[v],
         TypeOK', JobOK(w)', HandOK(w)', CleanOK(w)', TrackOK(w)',
         pc[w] # "done", pc'[w] # "idle", Active(w)' => ~Restoring,
         pc'[w] = "replace" => Path(w)' \notin damaged,
         Active(w)' => job'[w].remove \cap damaged = {},
         OneStudy'
  PROVE  IInv'
  <1> USE DEF IInv, disk
  <1>1. \A v \in Writers \ {w} : /\ Kind(v)' = Kind(v) /\ Plan(v)' = Plan(v)
                               /\ Files(v)' = Files(v) /\ Mine(v)' = Mine(v)
                               /\ More(v)' = More(v) /\ RowsOf(v)' = RowsOf(v)
                               /\ Path(v)' = Path(v) /\ (Active(v)' <=> Active(v))
    BY DEF Kind, Plan, Files, Mine, More, RowsOf, Path, Active
  <1>2. \A v \in Writers \ {w} : JobOK(v)'
    BY <1>1 DEF Jobs, JobOK
  <1>3. \A v \in Writers \ {w} : HandOK(v)'
    BY <1>1 DEF InPlace, HandOK, InHand
  <1>4. \A v \in Writers \ {w} : CleanOK(v)' /\ TrackOK(v)'
    BY <1>1 DEF Cleanup, CleanOK, Tracked, TrackOK
  <1>5. Jobs' /\ InPlace' /\ Cleanup' /\ Tracked'
    BY <1>2, <1>3, <1>4 DEF Jobs, InPlace, Cleanup, Tracked
  <1>6. RowsKnown'
    BY DEF RowsKnown
  <1>7. DamageKnown'
    BY <1>1 DEF DamageKnown, Restoring
  <1>8. BackupHolds'
    BY DEF BackupHolds, Excused, Restoring
  <1>9. RestoreHolds'
    BY <1>1 DEF RestoreHolds, AssetMembers, Restoring
  <1>10. RowsBacked' /\ RestoreComplete'
    BY DEF RowsBacked, RestoreComplete, Failures, Unprotected, Restoring
  <1>. QED
    BY <1>5, <1>6, <1>7, <1>8, <1>9, <1>10

\* A writer that has begun registers no other study than before.
LEMMA SameStudies ==
  ASSUME OneStudy, NEW w \in Writers, UNCHANGED rows,
         \A v \in Writers \ {w} : job'[v] = job[v] /\ pc'[v] = pc[v],
         Kind(w)' = Kind(w), Active(w)' => Active(w)
  PROVE  OneStudy'
  BY DEF OneStudy, Kind, Active

\* A writer is at work only while nothing is being restored.
LEMMA Working ==
  ASSUME IInv, NEW w \in Writers, Active(w)
  PROVE  ~Restoring /\ pc[w] # "idle"
  BY DEF IInv, RestoreHolds, Active, Resting

LEMMA StartKeeps ==
  ASSUME IInv, QuietStudies, NEW w \in Writers, NEW k \in Kinds, Start(w, k)
  PROVE  IInv'
  <1>0. PICK found \in BOOLEAN : found = (k = "proof" /\ files[ProofPath] # None)
    OBVIOUS
  <1>1. /\ job' = [job EXCEPT ![w].kind = k, ![w].found = found]
        /\ pc[w] = "idle" /\ ~Restoring
        /\ k = "study" => /\ StudyPath \notin PathsOf(rows)
                          /\ \A v \in Writers : Kind(v) = "study" => pc[v] \in Resting
        /\ pc' = [pc EXCEPT ![w] = IF AttemptOf(w, k).register = "before"
                                   THEN "insert" ELSE "look"]
        /\ UNCHANGED <<disk, rows, pending, backup, restore, late>>
    BY <1>0 DEF Start, Goto
  <1> USE DEF IInv, disk
  <1>2. /\ job[w] = NoJob /\ Kind(w)' = k /\ job'[w].next = 1 /\ job'[w].remove = {}
        /\ \A v \in Writers \ {w} : job'[v] = job[v] /\ pc'[v] = pc[v]
    BY <1>1 DEF Jobs, JobOK, TypeOK, Kind, NoJob
  <1>3. pc'[w] \in {"insert", "look"} /\ (pc'[w] = "insert" <=> AttemptOf(w, k).register = "before")
    BY <1>1 DEF TypeOK
  <1>4. /\ Shape(w, k, AttemptOf(w, k).files, AttemptOf(w, k).register)
        /\ Files(w)' = AttemptOf(w, k).files /\ Plan(w)' = AttemptOf(w, k)
    BY <1>2, AttemptFacts DEF Files, Plan
  <1>5. pending'[w] = {}
    BY <1>1 DEF Jobs, JobOK, Resting
  <1>6. TypeOK'
    <2>1. job' \in [Writers -> [kind : Kinds \cup {None}, found : BOOLEAN, next : 1..3,
                                remove : SUBSET Paths]]
      <3>1. job \in [Writers -> [kind : Kinds \cup {None}, found : BOOLEAN, next : 1..3,
                                 remove : SUBSET Paths]]
        BY DEF TypeOK
      <3>2. PICK rest \in [kind : Kinds \cup {None}, found : BOOLEAN, next : 1..3,
                           remove : SUBSET Paths] :
              rest = [job[w] EXCEPT !.kind = k, !.found = found]
        BY <3>1
      <3>3. job' = [job EXCEPT ![w] = rest]
        BY <1>1, <3>1, <3>2
      <3>. HIDE DEF IInv
      <3>. QED
        BY <3>1, <3>3
    <2>. QED
      BY <1>1, <2>1 DEF TypeOK
  <1>. HIDE DEF IInv
  <1>7. JobOK(w)'
    BY <1>2, <1>3, <1>4, <1>5 DEF JobOK, Resting, Shape, RowsOf
  <1>8. HandOK(w)'
    BY <1>2, <1>3, <1>4 DEF HandOK, InHand, Shape
  <1>9. CleanOK(w)' /\ TrackOK(w)'
    BY <1>1, <1>2, <1>3 DEF IInv, CleanOK, Tracked, TrackOK
  <1>10. OneStudy'
    BY <1>1, <1>2 DEF IInv, OneStudy, Kind, Active
  <1>11. /\ \A v \in Writers \ {w} : pending'[v] = pending[v]
         /\ pc[w] # "done" /\ pc'[w] \notin {"idle", "replace"}
         /\ job'[w].remove \cap damaged = {}
    BY <1>1, <1>2, <1>3
  <1>. QED
    BY <1>1, <1>2, <1>6, <1>7, <1>8, <1>9, <1>10, <1>11, StepAside

\* A file of the attempt is there.  (The part of Look and Replace they have in common.)
LEMMA PlacedFacts ==
  ASSUME IInv, NEW w \in Writers, pc[w] \in {"look", "replace"}, NEW existed, Placed(w, existed),
         UNCHANGED pending
  PROVE  /\ job' \in [Writers -> [kind : Kinds \cup {None}, found : BOOLEAN, next : 1..3,
                                  remove : SUBSET Paths]]
         /\ pc'[w] \in {"look", "insert", "commit"}
         /\ pc' = [pc EXCEPT ![w] = AfterFile(w)]
         /\ \A v \in Writers \ {w} : job'[v] = job[v] /\ pc'[v] = pc[v]
         /\ Kind(w)' = Kind(w) /\ Plan(w)' = Plan(w) /\ Files(w)' = Files(w)
         /\ Mine(w)' = Mine(w) /\ RowsOf(w)' = RowsOf(w)
         /\ job[w].remove \subseteq job'[w].remove
         /\ job'[w].remove \subseteq job[w].remove \cup {Path(w)}
         /\ Plan(w).cleans /\ Kind(w) # "proof" /\ ~existed => Path(w) \in job'[w].remove
         /\ JobOK(w)'
         /\ \A n \in DOMAIN Files(w) : InHand(w, n)' => n = job[w].next \/ InHand(w, n)
         /\ Path(w) \in Paths
  <1>0. TypeOK /\ Jobs
    BY DEF IInv
  <1>1. pc[w] # "idle" /\ Kind(w) \in Kinds /\ job[w].next \in DOMAIN Files(w)
    BY <1>0 DEF Jobs, JobOK
  <1>2. Shape(w, Kind(w), Files(w), Plan(w).register)
    BY <1>0, <1>1, WriterFacts
  <1>3. Path(w) \in Paths /\ Path(w) = Files(w)[job[w].next]
    BY <1>0, <1>1, WriterFacts DEF Path
  <1>4. AfterFile(w) = IF Plan(w).register = "before" THEN "commit"
                       ELSE IF Plan(w).register = "each" THEN "insert"
                       ELSE IF More(w) THEN "look" ELSE "insert"
    BY <1>2 DEF AfterFile, Shape
  <1>5. job[w] \in [kind : Kinds \cup {None}, found : BOOLEAN, next : 1..3,
                    remove : SUBSET Paths]
    BY <1>0 DEF TypeOK
  <1>6. /\ job'[w].kind = job[w].kind
        /\ job'[w].next = IF AfterFile(w) = "look" THEN job[w].next + 1 ELSE job[w].next
        /\ job'[w].remove = IF Keeps(w, existed) THEN job[w].remove ELSE job[w].remove \cup {Path(w)}
        /\ \A v \in Writers \ {w} : job'[v] = job[v]
    BY <1>0 DEF Placed, TypeOK
  <1>7. AfterFile(w) = "look" => job[w].next + 1 \in DOMAIN Files(w) /\ job[w].next + 1 \in 1..3
    BY <1>1, <1>2, <1>4 DEF More, Shape
  <1>8. job' \in [Writers -> [kind : Kinds \cup {None}, found : BOOLEAN, next : 1..3,
                              remove : SUBSET Paths]]
    BY <1>0, <1>3, <1>5, <1>7 DEF Placed, TypeOK
  <1>9. pc'[w] = AfterFile(w) /\ pc' = [pc EXCEPT ![w] = AfterFile(w)]
    BY <1>0 DEF Placed, Goto, TypeOK
  <1>10. /\ Kind(w)' = Kind(w) /\ Plan(w)' = Plan(w) /\ Files(w)' = Files(w)
         /\ Mine(w)' = Mine(w) /\ RowsOf(w)' = RowsOf(w)
    BY <1>6 DEF Kind, Plan, Files, Mine, RowsOf
  <1>11. ~Plan(w).cleans => Keeps(w, existed)
    BY DEF Keeps
  <1>12. Plan(w).cleans /\ Kind(w) # "proof" /\ ~existed => ~Keeps(w, existed)
    BY DEF Keeps, Found
  <1>13. JobOK(w)'
    <2>1. \A p \in job'[w].remove : \E n \in DOMAIN Files(w) : p = Files(w)[n]
      BY <1>0, <1>1, <1>3, <1>6 DEF Jobs, JobOK
    <2>2. ~Plan(w).cleans => job'[w].remove = {}
      BY <1>0, <1>1, <1>6, <1>11 DEF Jobs, JobOK
    <2>3. job'[w].next \in DOMAIN Files(w)
      BY <1>1, <1>6, <1>7
    <2>4. Plan(w).register = "before" => pending[w] # {} /\ ~More(w)
      <3>1. Plan(w).register = "before" => pending[w] # {}
        BY <1>0 DEF Jobs, JobOK
      <3>2. Plan(w).register = "before" => ~(job[w].next < Len(Files(w)))
        BY <1>1, <1>2 DEF Shape
      <3>. QED
        BY <3>1, <3>2 DEF More
    <2>5. AfterFile(w) # "look" => (More(w)' <=> More(w))
      BY <1>6, <1>10 DEF More
    <2>6. pc'[w] = "commit" \/ (pc'[w] = "insert" /\ Plan(w).register = "after") => ~More(w)'
      BY <1>2, <1>4, <1>9, <2>4, <2>5 DEF Shape
    <2>7. pc'[w] \in {"look", "replace"} /\ Plan(w).register = "before" => FALSE
      BY <1>4, <1>9
    <2>8. pc'[w] = "commit" => pending[w] # {}
      BY <1>2, <1>4, <1>9, <2>4 DEF Shape
    <2>9. pc'[w] \in {"look", "insert", "commit"} /\ pending[w] \subseteq RowsOf(w)
      BY <1>0, <1>1, <1>2, <1>4, <1>9 DEF Jobs, JobOK
    <2>. QED
      BY <1>1, <1>10, <2>1, <2>2, <2>3, <2>6, <2>7, <2>8, <2>9 DEF JobOK, Resting
  <1>14. \A n \in DOMAIN Files(w) : InHand(w, n)' => n = job[w].next \/ InHand(w, n)
    BY <1>2, <1>5, <1>6, <1>9, <1>10 DEF InHand, Shape
  <1>. QED
    BY <1>3, <1>4, <1>6, <1>8, <1>9, <1>10, <1>12, <1>13, <1>14

LEMMA Undamaged ==
  ASSUME IInv, NEW w \in Writers, Active(w)
  PROVE  job[w].remove \cap damaged = {}
  <1>1. DamageKnown
    BY DEF IInv
  <1>. QED
    BY <1>1 DEF DamageKnown

\* An undamaged file is where a writer looks: none, its bytes, or others.
LEMMA LookKeeps ==
  ASSUME IInv, NEW w \in Writers, Look(w)
  PROVE  IInv'
  <1>. USE DEF IInv, disk
  <1>1. pc[w] = "look" /\ Active(w) /\ ~Restoring /\ pc[w] # "idle"
    BY Working DEF Look, Active, Resting
  <1>2. /\ Mine(w) \notin {Bad, None} /\ Shape(w, Kind(w), Files(w), Plan(w).register)
        /\ Path(w) \in Paths /\ job[w].next \in DOMAIN Files(w)
    BY <1>1, WriterFacts DEF Jobs, JobOK, Path
  <1>0. job[w].remove \cap damaged = {}
    BY <1>1, Undamaged
  <1>3. CASE files[Path(w)] = Mine(w) /\ Placed(w, TRUE)
    <2>0. UNCHANGED <<disk, rows, pending, backup, restore, late>>
      BY DEF Look
    <2>1. /\ job' \in [Writers -> [kind : Kinds \cup {None}, found : BOOLEAN, next : 1..3,
                                   remove : SUBSET Paths]]
          /\ pc'[w] \in {"look", "insert", "commit"}
          /\ pc' = [pc EXCEPT ![w] = AfterFile(w)]
          /\ \A v \in Writers \ {w} : job'[v] = job[v] /\ pc'[v] = pc[v]
          /\ Kind(w)' = Kind(w) /\ Plan(w)' = Plan(w) /\ Files(w)' = Files(w)
          /\ Mine(w)' = Mine(w) /\ RowsOf(w)' = RowsOf(w)
          /\ job[w].remove \subseteq job'[w].remove
          /\ job'[w].remove \subseteq job[w].remove \cup {Path(w)}
          /\ JobOK(w)'
          /\ \A n \in DOMAIN Files(w) : InHand(w, n)' => n = job[w].next \/ InHand(w, n)
      BY <1>1, <1>3, <2>0, PlacedFacts
    <2>2. TypeOK'
      BY <2>0, <2>1 DEF TypeOK
    <2>3. HandOK(w)'
      BY <1>1, <1>3, <2>0, <2>1 DEF InPlace, HandOK, Path
    <2>4. CleanOK(w)' /\ TrackOK(w)'
      BY <1>1, <2>0, <2>1 DEF CleanOK, Tracked, TrackOK
    <2>5. OneStudy'
      BY <1>1, <2>0, <2>1, SameStudies
    <2>6. Path(w) \notin damaged
      BY <1>1, <1>2, <1>3 DEF DamageKnown
    <2>7. job'[w].remove \cap damaged = {}
      BY <1>0, <2>1, <2>6
    <2>. HIDE DEF IInv
    <2>. QED
      BY <1>1, <2>0, <2>1, <2>2, <2>3, <2>4, <2>5, <2>7, StepAside
  <1>4. CASE /\ UNCHANGED job
             /\ \/ files[Path(w)] = None /\ Goto(w, "replace")
                \/ files[Path(w)] \notin {None, Mine(w)} /\ Goto(w, "fail")
    <2>0. UNCHANGED <<disk, rows, pending, backup, restore, late, job>>
      BY <1>4 DEF Look
    <2>1. /\ pc' \in [Writers -> Resting \cup {"look", "replace", "insert", "waiting",
                                              "commit", "fail", "cleanup"}]
          /\ pc'[w] \in {"replace", "fail"} /\ (pc'[w] = "replace" => files[Path(w)] = None)
          /\ \A v \in Writers \ {w} : pc'[v] = pc[v]
      BY <1>4 DEF Goto, TypeOK
    <2>2. TypeOK'
      BY <2>0, <2>1 DEF TypeOK
    <2>3. JobOK(w)'
      BY <1>1, <2>0, <2>1 DEF Jobs, JobOK, Resting, Kind, Plan, Files, RowsOf, Mine
    <2>4. HandOK(w)'
      BY <1>1, <2>0, <2>1 DEF InPlace, HandOK, InHand, Kind, Plan, Files, Mine
    <2>5. CleanOK(w)' /\ TrackOK(w)'
      BY <1>1, <2>0, <2>1 DEF CleanOK, Tracked, TrackOK, Plan, Kind
    <2>6. OneStudy'
      BY <1>1, <2>0, <2>1, SameStudies DEF Kind
    <2>7. pc'[w] = "replace" => Path(w)' \notin damaged
      BY <1>1, <2>0, <2>1, NoneAssumption DEF DamageKnown, Path, Files, Plan, Kind
    <2>8. job'[w].remove \cap damaged = {}
      BY <1>0, <2>0
    <2>. HIDE DEF IInv
    <2>. QED
      BY <1>1, <2>0, <2>1, <2>2, <2>3, <2>4, <2>5, <2>6, <2>7, <2>8, StepAside
  <1>. QED
    BY <1>3, <1>4 DEF Look

\* The insert adds rows of the attempt to its transaction, waits for another, or fails.
LEMMA InsertKeeps ==
  ASSUME IInv, NEW w \in Writers, Insert(w)
  PROVE  IInv'
  <1>. USE DEF IInv, disk
  <1>1. pc[w] \in {"insert", "waiting"} /\ Active(w) /\ ~Restoring /\ pc[w] # "idle"
    BY Working DEF Insert, Active, Resting
  <1>2. /\ Shape(w, Kind(w), Files(w), Plan(w).register) /\ Mine(w) \in AllBytes
        /\ \A n \in DOMAIN Files(w) : Files(w)[n] \in Paths
        /\ job[w].next \in DOMAIN Files(w) /\ Kind(w) \in Kinds
    BY <1>1, WriterFacts DEF Jobs, JobOK
  <1>3. ToRegister(w) \subseteq RowsOf(w) /\ ToRegister(w) # {} /\ RowsOf(w) \subseteq AllRows
    <2>1. ToRegister(w) = RowsOf(w) \/ ToRegister(w) = {Row(Path(w), Mine(w))}
      BY DEF ToRegister, RowsOf
    <2>2. Row(Path(w), Mine(w)) \in RowsOf(w)
      BY <1>2 DEF RowsOf, Path
    <2>3. RowsOf(w) \subseteq AllRows
      BY <1>2 DEF RowsOf, Row, AllRows
    <2>. QED
      BY <2>1, <2>2, <2>3
  <1>4. UNCHANGED <<disk, rows, backup, restore, late>>
    BY DEF Insert
  <1>5. PICK label \in {"waiting", "fail", "look", "commit"} :
          /\ pc' = [pc EXCEPT ![w] = label]
          /\ label \in {"look", "commit"} => label = AfterInsert(w)
          /\ label = "fail" => UNCHANGED pending
          /\ label # "fail" => pending' = [pending EXCEPT ![w] = @ \cup ToRegister(w)]
          /\ job' = [job EXCEPT ![w].next =
                        IF label \in {"look", "commit"} /\ Plan(w).register = "each" /\ More(w)
                        THEN @ + 1 ELSE @]
    <2>1. UNCHANGED job => job' = [job EXCEPT ![w].next = @]
      BY DEF TypeOK
    <2>2. AfterInsert(w) \in {"look", "commit"}
      BY DEF AfterInsert
    <2>. QED
      BY <2>1, <2>2 DEF Insert, Goto
  <1>6. /\ job'[w].kind = job[w].kind /\ job'[w].remove = job[w].remove
        /\ job'[w].next = IF label \in {"look", "commit"} /\ Plan(w).register = "each" /\ More(w)
                          THEN job[w].next + 1 ELSE job[w].next
        /\ \A v \in Writers \ {w} : /\ job'[v] = job[v] /\ pc'[v] = pc[v]
                                  /\ pending'[v] = pending[v]
        /\ pc'[w] = label
    BY <1>5 DEF TypeOK
  <1>7. More(w) => job[w].next + 1 \in DOMAIN Files(w) /\ job[w].next + 1 \in 1..3
    BY <1>2 DEF More, Shape
  <1>8. TypeOK'
    <2>1. job' \in [Writers -> [kind : Kinds \cup {None}, found : BOOLEAN, next : 1..3,
                                remove : SUBSET Paths]]
      <3>1. PICK next \in 1..3 : job' = [job EXCEPT ![w].next = next]
        BY <1>5, <1>7 DEF TypeOK
      <3>. HIDE DEF IInv
      <3>. QED
        BY <3>1 DEF IInv, TypeOK
    <2>2. pending' \in [Writers -> SUBSET AllRows]
      BY <1>3, <1>5 DEF TypeOK
    <2>. QED
      BY <1>4, <1>5, <2>1, <2>2 DEF TypeOK
  <1>9. /\ Kind(w)' = Kind(w) /\ Plan(w)' = Plan(w) /\ Files(w)' = Files(w)
        /\ Mine(w)' = Mine(w) /\ RowsOf(w)' = RowsOf(w)
    BY <1>6 DEF Kind, Plan, Files, Mine, RowsOf
  <1>10. /\ pending'[w] \subseteq RowsOf(w) /\ (label # "fail" => pending'[w] # {})
    BY <1>1, <1>3, <1>5 DEF Jobs, JobOK, TypeOK
  <1>11. label = "commit" => ~More(w)'
    <2>1. label = "commit" => Plan(w).register # "before" /\ ~(Plan(w).register = "each" /\ More(w))
      BY <1>5 DEF AfterInsert
    <2>2. Plan(w).register = "after" => ~More(w)
      BY <1>1 DEF Jobs, JobOK
    <2>3. label = "commit" => ~More(w) /\ job'[w].next = job[w].next
      BY <1>2, <1>6, <2>1, <2>2 DEF Shape
    <2>. QED
      BY <1>9, <2>3 DEF More
  <1>12. label = "waiting" => (More(w)' <=> More(w))
    BY <1>6, <1>9 DEF More
  <1>13. JobOK(w)'
    <2>1. job'[w].next \in DOMAIN Files(w)
      BY <1>2, <1>6, <1>7
    <2>2. \A p \in job'[w].remove : \E n \in DOMAIN Files(w) : p = Files(w)[n]
      BY <1>1, <1>6 DEF Jobs, JobOK
    <2>3. ~Plan(w).cleans => job'[w].remove = {}
      BY <1>1, <1>6 DEF Jobs, JobOK
    <2>4. label = "waiting" /\ Plan(w).register = "after" => ~More(w)'
      BY <1>1, <1>12 DEF Jobs, JobOK
    <2>. QED
      BY <1>2, <1>6, <1>9, <1>10, <1>11, <2>1, <2>2, <2>3, <2>4 DEF JobOK, Resting
  <1>14. HandOK(w)'
    <2>1. ASSUME NEW n \in DOMAIN Files(w), InHand(w, n)', label # "fail"
          PROVE  InHand(w, n)
      <3>. HIDE DEF IInv
      <3>1. job[w].next \in Nat /\ n \in Nat
        BY <1>2 DEF Shape
      <3>2. label = "look" => Plan(w).register = "before" \/ (Plan(w).register = "each" /\ More(w))
        BY <1>5 DEF AfterInsert
      <3>3. label = "commit" => Plan(w).register # "before"
        BY <1>5 DEF AfterInsert
      <3>4. CASE label = "look"
        <4>1. Plan(w).register = "each" /\ More(w) => InHand(w, n)
          BY <1>1, <1>6, <1>9, <2>1, <3>1, <3>4 DEF InHand
        <4>2. Plan(w).register = "before" => InHand(w, n)
          BY <1>1, <1>6, <1>9, <2>1, <3>1, <3>4 DEF InHand
        <4>. QED
          BY <3>2, <3>4, <4>1, <4>2
      <3>5. CASE label = "waiting"
        BY <1>1, <1>6, <1>9, <2>1, <3>1, <3>5 DEF InHand
      <3>6. CASE label = "commit"
        <4>1. job'[w].next = job[w].next
          BY <1>5, <1>6, <3>6 DEF AfterInsert
        <4>. QED
          BY <1>1, <1>6, <1>9, <2>1, <3>1, <3>3, <3>6, <4>1 DEF InHand
      <3>. QED
        BY <2>1, <3>4, <3>5, <3>6
    <2>. QED
      BY <1>1, <1>4, <1>6, <1>9, <2>1 DEF InPlace, HandOK
  <1>15. CleanOK(w)' /\ TrackOK(w)'
    BY <1>1, <1>4, <1>6, <1>9 DEF CleanOK, Tracked, TrackOK
  <1>16. OneStudy'
    BY <1>1, <1>4, <1>6, <1>9, SameStudies
  <1>17. job[w].remove \cap damaged = {}
    BY <1>1, Undamaged
  <1>. HIDE DEF IInv
  <1>18. pc'[w] \notin {"idle", "replace"}
    BY <1>6
  <1>. QED
    BY <1>1, <1>4, <1>6, <1>8, <1>13, <1>14, <1>15, <1>16, <1>17, <1>18, StepAside

\* A step that takes a writer to another place without placing or inserting anything.
LEMMA GoesElsewhere ==
  ASSUME IInv, NEW w \in Writers, UNCHANGED <<disk, rows, backup, restore, late>>,
         pc[w] \notin {"idle", "done"}, Active(w),
         NEW label \in {"fail", "cleanup", "dead"}, pc' = [pc EXCEPT ![w] = label],
         NEW rest \in SUBSET job[w].remove, job' = [job EXCEPT ![w].remove = rest],
         label = "cleanup" /\ Kind(w) # "proof" => rest \cap PathsOf(rows) = {},
         restore.pc = "idle" /\ label # "dead" =>
           \A p \in job[w].remove \cap OwnPaths(w) : p \in rest,
         pending' = IF label = "fail" THEN pending ELSE [pending EXCEPT ![w] = {}]
  PROVE  IInv'
  <1>1. ~Restoring /\ pc[w] # "idle" /\ TypeOK /\ Jobs
    BY Working DEF IInv
  <1>2. /\ job'[w].kind = job[w].kind /\ job'[w].next = job[w].next /\ job'[w].remove = rest
        /\ \A v \in Writers \ {w} : job'[v] = job[v] /\ pc'[v] = pc[v]
        /\ pc'[w] = label
        /\ job' \in [Writers -> [kind : Kinds \cup {None}, found : BOOLEAN, next : 1..3,
                                 remove : SUBSET Paths]]
    BY <1>1 DEF TypeOK
  <1>3. /\ \A v \in Writers \ {w} : pending'[v] = pending[v]
        /\ pending'[w] = IF label = "fail" THEN pending[w] ELSE {}
        /\ pending' \in [Writers -> SUBSET AllRows]
    BY <1>1 DEF TypeOK
  <1>4. TypeOK'
    BY <1>1, <1>2, <1>3 DEF TypeOK, disk, Resting
  <1>5. /\ Kind(w)' = Kind(w) /\ Plan(w)' = Plan(w) /\ Files(w)' = Files(w)
        /\ Mine(w)' = Mine(w) /\ RowsOf(w)' = RowsOf(w)
    BY <1>2 DEF Kind, Plan, Files, Mine, RowsOf
  <1>6. JobOK(w)'
    BY <1>1, <1>2, <1>3, <1>5 DEF Jobs, JobOK, Resting
  <1>7. HandOK(w)' /\ CleanOK(w)'
    BY <1>2, <1>5 DEF HandOK, CleanOK
  <1>8. TrackOK(w)'
    BY <1>1, <1>2, <1>5 DEF IInv, Tracked, TrackOK, disk, Active, Resting
  <1>9. OneStudy'
    BY <1>1, <1>2, <1>5, SameStudies DEF IInv
  <1>10. rest \cap damaged = {}
    BY Undamaged
  <1>. QED
    BY <1>1, <1>2, <1>3, <1>4, <1>6, <1>7, <1>8, <1>9, <1>10, StepAside

LEMMA RaiseKeeps ==
  ASSUME IInv, NEW w \in Writers, Raise(w)
  PROVE  IInv'
  <1>1. job' = [job EXCEPT ![w].remove = job[w].remove]
    BY DEF Raise, IInv, TypeOK
  <1>2. /\ pc[w] \notin {"idle", "done"} /\ Active(w) /\ pc' = [pc EXCEPT ![w] = "fail"]
        /\ UNCHANGED <<disk, rows, backup, restore, late>>
        /\ pending' = pending
    BY DEF Raise, Goto, Active, Resting
  <1>. QED
    BY <1>1, <1>2, GoesElsewhere

LEMMA RollBackKeeps ==
  ASSUME IInv, NEW w \in Writers, RollBack(w)
  PROVE  IInv'
  <1> DEFINE rest == IF Kind(w) = "proof" THEN job[w].remove
                     ELSE {p \in job[w].remove : ~Claimed(w, p)}
  <1>1. job' = [job EXCEPT ![w].remove = rest] /\ rest \subseteq job[w].remove
    BY DEF RollBack
  <1>2. Kind(w) # "proof" => rest \cap PathsOf(rows) = {}
    BY DEF Claimed
  <1>3. ASSUME NEW p \in job[w].remove \cap OwnPaths(w) PROVE p \in rest
    <2>1. RowsKnown /\ pc[w] = "fail"
      BY DEF IInv, RollBack
    <2>2. p \notin PathsOf(rows)
      <3>1. SUFFICES ASSUME NEW r \in rows, r.path = p PROVE FALSE
        BY DEF PathsOf
      <3>2. PICK n \in 1..3 : p = Own(w, n)
        BY DEF OwnPaths
      <3>3. p # ProofPath /\ p # StudyPath
        BY <3>2, Distinct
      <3>4. PICK v \in Writers : p \in OwnPaths(v) /\ pc[v] = "done"
        BY <2>1, <3>1, <3>3 DEF RowsKnown
      <3>5. v = w
        BY <3>2, <3>4, Distinct DEF OwnPaths
      <3>. QED
        BY <2>1, <3>4, <3>5
    <2>. QED
      BY <2>2 DEF Claimed
  <1>. HIDE DEF rest
  <1>4. PICK label \in {"fail", "cleanup", "dead"} : label = "cleanup"
    OBVIOUS
  <1>5. pc[w] \notin {"idle", "done"} /\ Active(w) /\ pc' = [pc EXCEPT ![w] = label]
    BY <1>4 DEF RollBack, Goto, Active, Resting
  <1>6. pending' = IF label = "fail" THEN pending ELSE [pending EXCEPT ![w] = {}]
    BY <1>4 DEF RollBack
  <1>7. \A p \in job[w].remove \cap OwnPaths(w) : p \in rest
    BY <1>3
  <1>8. UNCHANGED <<disk, rows, backup, restore, late>> /\ rest \in SUBSET job[w].remove
    BY <1>1 DEF RollBack
  <1>. QED
    BY <1>1, <1>2, <1>5, <1>6, <1>7, <1>8, GoesElsewhere

LEMMA DieKeeps ==
  ASSUME IInv, NEW w \in Writers, Die(w)
  PROVE  IInv'
  <1>1. job' = [job EXCEPT ![w].remove = job[w].remove]
    BY DEF Die, IInv, TypeOK
  <1>2. PICK label \in {"fail", "cleanup", "dead"} : label = "dead"
    OBVIOUS
  <1>3. /\ pc[w] \notin {"idle", "done"} /\ Active(w) /\ pc' = [pc EXCEPT ![w] = label]
        /\ UNCHANGED <<disk, rows, backup, restore, late>>
    BY <1>2 DEF Die, Goto, Active, Resting
  <1>4. pending' = IF label = "fail" THEN pending ELSE [pending EXCEPT ![w] = {}]
    BY <1>2 DEF Die
  <1>5. label # "cleanup"
    BY <1>2
  <1>. QED
    BY <1>1, <1>2, <1>3, <1>4, <1>5, GoesElsewhere

\* A row at a path of a writer at work is a proof, and has the writer's bytes.
LEMMA RowOfPath ==
  ASSUME IInv, NEW w \in Writers, Active(w), NEW n \in DOMAIN Files(w),
         NEW r \in rows, r.path = Files(w)[n]
  PROVE  r.path = ProofPath /\ Kind(w) \in {"proof", "claimant"} /\ r.sha = Mine(w)
  <1>1. RowsKnown /\ OneStudy /\ Jobs /\ pc[w] # "idle" /\ pc[w] # "done"
    BY DEF IInv, Active, Resting
  <1>2. Shape(w, Kind(w), Files(w), Plan(w).register)
    BY <1>1, WriterFacts
  <1>3. n \in 1..3
    BY <1>2 DEF Shape
  <1>4. /\ Mine(w) = IF Kind(w) = "study" THEN <<"report", w>> ELSE Canonical
        /\ Kind(w) \notin {"proof", "claimant", "study"} => r.path \in OwnPaths(w)
    BY <1>1, WriterFacts
  <1>5. /\ Kind(w) \in {"proof", "claimant"} => r.path = ProofPath
        /\ Kind(w) = "study" => r.path = StudyPath
    BY <1>2 DEF Shape
  <1>6. \A v \in Writers : r.path \in OwnPaths(v) =>
          r.path # ProofPath /\ r.path # StudyPath /\ (r.path \in OwnPaths(w) => v = w)
    BY Distinct DEF OwnPaths
  <1>7. Kind(w) # "study"
    BY <1>1, <1>5 DEF OneStudy, PathsOf
  <1>8. Kind(w) \in {"proof", "claimant"}
    BY <1>1, <1>4, <1>6, <1>7 DEF RowsKnown
  <1>. QED
    BY <1>1, <1>4, <1>5, <1>6, <1>8, Distinct DEF RowsKnown

\* The file put in place is the one of the attempt's next row, or of a proof row with the
\* same bytes.
LEMMA ReplaceKeeps ==
  ASSUME IInv, NEW w \in Writers, Replace(w)
  PROVE  IInv'
  <1>. USE DEF IInv, disk
  <1>1. pc[w] = "replace" /\ Active(w) /\ ~Restoring /\ pc[w] # "idle"
    BY Working DEF Replace, Active, Resting
  <1>2. /\ Mine(w) \in AllBytes /\ Mine(w) \notin {Bad, None}
        /\ Shape(w, Kind(w), Files(w), Plan(w).register)
        /\ Path(w) \in Paths /\ job[w].next \in DOMAIN Files(w)
        /\ Kind(w) \notin {"proof", "claimant", "study"} => Path(w) \in OwnPaths(w)
    BY <1>1, WriterFacts DEF Jobs, JobOK, Path
  <1>3. Path(w) \notin damaged /\ damaged' = damaged
    BY <1>1 DEF DamageKnown, Replace
  <1>4. /\ files' = [files EXCEPT ![Path(w)] = Mine(w)] /\ Placed(w, FALSE)
        /\ UNCHANGED <<rows, pending, backup, restore, late>>
    BY DEF Replace
  <1>5. /\ files'[Path(w)] = Mine(w)
        /\ \A p \in Paths : p # Path(w) => files'[p] = files[p]
        /\ files' \in [Paths -> AllBytes \cup {None}]
    BY <1>2, <1>4 DEF TypeOK
  <1>6. /\ job' \in [Writers -> [kind : Kinds \cup {None}, found : BOOLEAN, next : 1..3,
                                 remove : SUBSET Paths]]
        /\ pc'[w] \in {"look", "insert", "commit"}
        /\ pc' = [pc EXCEPT ![w] = AfterFile(w)]
        /\ \A v \in Writers \ {w} : job'[v] = job[v] /\ pc'[v] = pc[v]
        /\ Kind(w)' = Kind(w) /\ Plan(w)' = Plan(w) /\ Files(w)' = Files(w)
        /\ Mine(w)' = Mine(w) /\ RowsOf(w)' = RowsOf(w)
        /\ job[w].remove \subseteq job'[w].remove
        /\ job'[w].remove \subseteq job[w].remove \cup {Path(w)}
        /\ Plan(w).cleans /\ Kind(w) # "proof" => Path(w) \in job'[w].remove
        /\ JobOK(w)'
        /\ \A n \in DOMAIN Files(w) : InHand(w, n)' => n = job[w].next \/ InHand(w, n)
    BY <1>1, <1>4, PlacedFacts
  <1>7. \A v \in Writers \ {w} : /\ Kind(v)' = Kind(v) /\ Plan(v)' = Plan(v)
                               /\ Files(v)' = Files(v) /\ Mine(v)' = Mine(v)
                               /\ More(v)' = More(v) /\ RowsOf(v)' = RowsOf(v)
                               /\ Path(v)' = Path(v) /\ (Active(v)' <=> Active(v))
                               /\ \A n : InHand(v, n)' = InHand(v, n)
    BY <1>6 DEF Kind, Plan, Files, Mine, More, RowsOf, Path, Active, InHand
  <1>8. \A r \in rows : r.path = Path(w) => r.sha = Mine(w) /\ r.path \in Paths
    BY <1>1, <1>2, RowOfPath DEF Path
  <1>9. \A r \in rows : r.path \in Paths
    BY DEF TypeOK, AllRows
  <1>10. TypeOK'
    BY <1>3, <1>4, <1>5, <1>6 DEF TypeOK, AfterFile
  <1>11. Jobs'
    BY <1>4, <1>6, <1>7 DEF Jobs, JobOK
  <1>12. InPlace'
    <2>1. HandOK(w)'
      <3>1. ASSUME NEW n \in DOMAIN Files(w), InHand(w, n)', files'[Files(w)[n]] # Mine(w)
            PROVE  Kind(w) = "claimant" /\ late # {}
        <4>1. n # job[w].next /\ InHand(w, n)
          BY <1>5, <1>6, <3>1 DEF Path
        <4>2. files[Files(w)[n]] = files'[Files(w)[n]]
          BY <1>1, <1>5, <3>1, WriterFacts
        <4>. QED
          BY <1>1, <3>1, <4>1, <4>2 DEF InPlace, HandOK
      <3>. QED
        BY <1>4, <1>6, <3>1 DEF HandOK
    <2>2. ASSUME NEW v \in Writers \ {w}
          PROVE  HandOK(v)'
      <3>1. SUFFICES ASSUME pc[v] \in {"look", "replace", "insert", "waiting", "commit"},
                            NEW n \in DOMAIN Files(v), InHand(v, n)
                     PROVE  files'[Files(v)[n]] = Mine(v) \/ (Kind(v) = "claimant" /\ late # {})
        BY <1>4, <1>6, <1>7 DEF HandOK
      <3>2. CASE Files(v)[n] # Path(w)
        BY <1>1, <1>5, <3>1, <3>2, WriterFacts DEF InPlace, HandOK, Resting
      <3>3. CASE Files(v)[n] = Path(w)
        <4>1. \/ Mine(w) = Canonical /\ Mine(v) = Canonical
              \/ Kind(w) = "study" /\ Kind(v) = "study"
          BY <1>1, <1>2, <3>1, <3>3, Meeting DEF Path
        <4>2. ~(Kind(w) = "study" /\ Kind(v) = "study")
          BY <1>1, <3>1 DEF OneStudy, Active, Resting
        <4>. QED
          BY <1>5, <3>3, <4>1, <4>2
      <3>. QED
        BY <3>2, <3>3
    <2>. QED
      BY <2>1, <2>2 DEF InPlace
  <1>13. RowsKnown'
    BY <1>1, <1>4, <1>6 DEF RowsKnown
  <1>14. OneStudy'
    BY <1>1, <1>4, <1>6, SameStudies
  <1>15. Cleanup'
    BY <1>4, <1>6, <1>7 DEF Cleanup, CleanOK
  <1>16. Tracked'
    <2>1. ASSUME NEW v \in Writers, restore.pc = "idle", NEW p \in OwnPaths(v), files'[p] # None
          PROVE  /\ pc'[v] # "idle"
                 /\ Plan(v)'.cleans => pc'[v] # "failed" /\ (Active(v)' => p \in job'[v].remove)
      <3>1. p \in Paths /\ p \notin {ProofPath, StudyPath} /\ (v # w => p \notin OwnPaths(w))
        BY Distinct DEF OwnPaths
      <3>2. CASE p = Path(w)
        <4>1. v = w /\ Kind(w) # "proof"
          BY <1>2, <3>1, <3>2 DEF Shape, Path
        <4>. QED
          BY <1>6, <3>2, <4>1
      <3>3. CASE p # Path(w)
        <4>1. files[p] # None
          BY <1>5, <2>1, <3>1, <3>3
        <4>2. /\ pc[v] # "idle"
              /\ Plan(v).cleans => pc[v] # "failed" /\ (Active(v) => p \in job[v].remove)
          BY <2>1, <4>1 DEF Tracked, TrackOK
        <4>. QED
          BY <1>1, <1>6, <1>7, <4>2
      <3>. QED
        BY <3>2, <3>3
    <2>. QED
      BY <1>4, <2>1 DEF Tracked, TrackOK
  <1>17. DamageKnown'
    <2>1. \A p \in damaged' : files'[p] = Bad \/ (Restoring' /\ backup'.files[p] # None)
      BY <1>3, <1>4, <1>5 DEF DamageKnown, TypeOK, Restoring
    <2>2. \A v \in Writers : (pc'[v] = "replace" => Path(v)' \notin damaged')
      BY <1>3, <1>6, <1>7 DEF DamageKnown
    <2>3. \A v \in Writers : Active(v)' => job'[v].remove \cap damaged' = {}
      BY <1>1, <1>3, <1>6, <1>7 DEF DamageKnown
    <2>4. \A p \in Paths : Bad \in {files'[p], backup'.files[p]} => p \in damaged'
      BY <1>2, <1>3, <1>4, <1>5 DEF DamageKnown
    <2>. QED
      BY <2>1, <2>2, <2>3, <2>4 DEF DamageKnown
  <1>18. BackupHolds'
    BY <1>4, <1>6 DEF BackupHolds, Excused, Restoring
  <1>19. RestoreHolds'
    BY <1>1, <1>4 DEF RestoreHolds, Restoring
  <1>20. RowsBacked'
    BY <1>1, <1>3, <1>4, <1>5, <1>8, <1>9 DEF RowsBacked, Failures, Unprotected, Restoring
  <1>21. RestoreComplete'
    BY <1>3, <1>4, <1>5, <1>8, <1>9 DEF RestoreComplete
  <1>. QED
    BY <1>10, <1>11, <1>12, <1>13, <1>14, <1>15, <1>16, <1>17, <1>18, <1>19, <1>20, <1>21

\* The rows of an attempt are committed with all of its files in place.
LEMMA CommitKeeps ==
  ASSUME IInv, NEW w \in Writers, Commit(w)
  PROVE  IInv'
  <1>. USE DEF IInv, disk
  <1>1. pc[w] = "commit" /\ Active(w) /\ ~Restoring /\ pc[w] # "idle"
    BY Working DEF Commit, Active, Resting
  <1>2. /\ Mine(w) \in AllBytes /\ Shape(w, Kind(w), Files(w), Plan(w).register)
        /\ \A n \in DOMAIN Files(w) : Files(w)[n] \in Paths
        /\ Kind(w) \notin {"proof", "claimant", "study"} =>
             \A n \in DOMAIN Files(w) : Files(w)[n] \in OwnPaths(w)
        /\ Mine(w) = IF Kind(w) = "study" THEN <<"report", w>> ELSE Canonical
    BY <1>1, WriterFacts
  <1>3. /\ UNCHANGED <<files, damaged, job, backup, restore, late>>
        /\ rows' = rows \cup pending[w]
        /\ pending'[w] = {} /\ pc'[w] = "done"
        /\ \A v \in Writers \ {w} : pending'[v] = pending[v] /\ pc'[v] = pc[v]
        /\ pc' = [pc EXCEPT ![w] = "done"] /\ pending' = [pending EXCEPT ![w] = {}]
    BY DEF Commit, Goto, TypeOK
  <1>4. \A v \in Writers : /\ Kind(v)' = Kind(v) /\ Plan(v)' = Plan(v)
                         /\ Files(v)' = Files(v) /\ Mine(v)' = Mine(v)
                         /\ More(v)' = More(v) /\ RowsOf(v)' = RowsOf(v)
                         /\ Path(v)' = Path(v)
    BY <1>3 DEF Kind, Plan, Files, Mine, More, RowsOf, Path
  <1>5. \A v \in Writers \ {w} : /\ Active(v)' <=> Active(v)
                               /\ \A n : InHand(v, n)' = InHand(v, n)
    BY <1>3, <1>4 DEF Active, InHand
  <1>6. ~Active(w)'
    BY <1>3 DEF Active, Resting
  <1>7. \A r \in pending[w] : \E n \in DOMAIN Files(w) : r = Row(Files(w)[n], Mine(w))
    BY <1>1 DEF Jobs, JobOK, RowsOf
  <1>8. \A r \in pending[w] : files[r.path] = r.sha \/ (r.path = ProofPath /\ late # {})
    <2>1. SUFFICES ASSUME NEW n \in DOMAIN Files(w)
                   PROVE  \/ files[Files(w)[n]] = Mine(w)
                          \/ Files(w)[n] = ProofPath /\ late # {}
      BY <1>7 DEF Row
    <2>2. ~(job[w].next < Len(Files(w))) /\ job[w].next \in DOMAIN Files(w)
      BY <1>1 DEF Jobs, JobOK, More
    <2>3. InHand(w, n)
      BY <1>1, <1>2, <2>2 DEF InHand, Shape
    <2>. QED
      BY <1>1, <1>2, <2>3 DEF InPlace, HandOK, Shape
  <1>9. \A r \in pending[w] :
          \/ r.path = ProofPath /\ r.sha = Canonical
          \/ r.path = StudyPath /\ Kind(w) = "study" /\ r.sha = <<"report", w>>
          \/ r.path \in OwnPaths(w) /\ r.sha = Canonical
    <2>1. SUFFICES ASSUME NEW n \in DOMAIN Files(w)
                   PROVE  \/ Files(w)[n] = ProofPath /\ Mine(w) = Canonical
                          \/ Files(w)[n] = StudyPath /\ Kind(w) = "study" /\ Mine(w) = <<"report", w>>
                          \/ Files(w)[n] \in OwnPaths(w) /\ Mine(w) = Canonical
      BY <1>7 DEF Row
    <2>. QED
      BY <1>2 DEF Shape
  <1>10. TypeOK'
    <2>1. pending[w] \subseteq AllRows
      BY DEF TypeOK
    <2>. QED
      BY <1>3, <2>1 DEF TypeOK, Resting
  <1>11. Jobs'
    <2>1. JobOK(w)'
      BY <1>1, <1>3, <1>4 DEF Jobs, JobOK, Resting
    <2>2. \A v \in Writers \ {w} : JobOK(v)'
      BY <1>3, <1>4 DEF Jobs, JobOK
    <2>. QED
      BY <2>1, <2>2 DEF Jobs
  <1>12. InPlace'
    <2>1. HandOK(w)'
      BY <1>3 DEF HandOK
    <2>2. \A v \in Writers \ {w} : HandOK(v)'
      BY <1>3, <1>4, <1>5 DEF InPlace, HandOK
    <2>. QED
      BY <2>1, <2>2 DEF InPlace
  <1>13. RowsKnown'
    BY <1>3, <1>9 DEF RowsKnown
  <1>14. OneStudy'
    <2>1. ASSUME NEW v \in Writers, Kind(v) = "study", Active(v)'
          PROVE  StudyPath \notin PathsOf(rows')
      <3>1. v # w /\ Active(v)
        BY <1>5, <1>6, <2>1
      <3>2. Kind(w) # "study"
        BY <1>1, <2>1, <3>1 DEF OneStudy
      <3>3. \A r \in pending[w] : r.path # StudyPath
        BY <1>9, <3>2, Distinct DEF OwnPaths
      <3>. QED
        BY <1>3, <2>1, <3>1, <3>3 DEF OneStudy, PathsOf
    <2>2. \A v \in Writers : Active(v)' => Active(v)
      BY <1>5, <1>6
    <2>. QED
      BY <1>4, <2>1, <2>2 DEF OneStudy
  <1>15. Cleanup'
    <2>1. ASSUME NEW v \in Writers, pc'[v] = "cleanup", Kind(v) # "proof",
                 NEW p \in job[v].remove, NEW r \in pending[w], r.path = p
          PROVE  FALSE
      <3>1. v # w /\ pc[v] = "cleanup" /\ Active(v)
        BY <1>3, <2>1 DEF Active, Resting
      <3>2. Kind(v) # "claimant"
        BY <2>1, <3>1, WriterFacts DEF Jobs, JobOK
      <3>3. PICK m \in DOMAIN Files(v) : p = Files(v)[m]
        BY <2>1, <3>1 DEF Jobs, JobOK
      <3>4. PICK n \in DOMAIN Files(w) : p = Files(w)[n]
        BY <1>7, <2>1 DEF Row
      <3>5. Kind(v) = "study" /\ Kind(w) = "study"
        BY <1>1, <2>1, <3>1, <3>2, <3>3, <3>4, Meeting
      <3>. QED
        BY <1>1, <3>1, <3>5 DEF OneStudy
    <2>. QED
      BY <1>3, <1>4, <2>1 DEF Cleanup, CleanOK, PathsOf
  <1>16. Tracked'
    BY <1>1, <1>3, <1>4, <1>5, <1>6 DEF Tracked, TrackOK
  <1>17. DamageKnown'
    BY <1>3, <1>4, <1>5, <1>6 DEF DamageKnown, Restoring
  <1>18. BackupHolds'
    BY <1>1, <1>3 DEF BackupHolds, Excused, Restoring
  <1>19. RestoreHolds'
    BY <1>1, <1>3 DEF RestoreHolds, Restoring
  <1>20. RowsBacked'
    BY <1>1, <1>3, <1>8 DEF RowsBacked, Failures, Unprotected, Restoring
  <1>21. RestoreComplete'
    BY <1>3 DEF RestoreComplete
  <1>. QED
    BY <1>10, <1>11, <1>12, <1>13, <1>14, <1>15, <1>16, <1>17, <1>18, <1>19, <1>20, <1>21

\* A cleanup takes files that have no row and that no other attempt has in hand.
LEMMA UnlinkKeeps ==
  ASSUME IInv, NEW w \in Writers, Unlink(w)
  PROVE  IInv'
  <1>. USE DEF IInv, disk
  <1>1. pc[w] = "cleanup" /\ Active(w) /\ ~Restoring /\ pc[w] # "idle" /\ Kind(w) # "proof"
    BY Working DEF Unlink, Active, Resting
  <1>2. /\ UNCHANGED <<damaged, rows, job, pending, backup, restore, late>>
        /\ files' = [p \in Paths |-> IF p \in job[w].remove THEN None ELSE files[p]]
        /\ pc' = [pc EXCEPT ![w] = "failed"] /\ pc'[w] = "failed"
        /\ \A v \in Writers \ {w} : pc'[v] = pc[v]
    BY DEF Unlink, Goto, TypeOK
  <1>3. \A v \in Writers : /\ Kind(v)' = Kind(v) /\ Plan(v)' = Plan(v)
                         /\ Files(v)' = Files(v) /\ Mine(v)' = Mine(v)
                         /\ More(v)' = More(v) /\ RowsOf(v)' = RowsOf(v)
                         /\ Path(v)' = Path(v)
    BY <1>2 DEF Kind, Plan, Files, Mine, More, RowsOf, Path
  <1>4. \A v \in Writers \ {w} : /\ Active(v)' <=> Active(v)
                               /\ \A n : InHand(v, n)' = InHand(v, n)
    BY <1>2, <1>3 DEF Active, InHand
  <1>5. ~Active(w)'
    BY <1>2 DEF Active, Resting
  <1>6. \A r \in rows : r.path \in Paths /\ r.path \notin job[w].remove
    BY <1>1 DEF Cleanup, CleanOK, PathsOf, TypeOK, AllRows
  <1>7. job[w].remove \cap damaged = {} /\ job[w].remove \subseteq Paths
    BY <1>1, Undamaged DEF TypeOK
  <1>8. \A p \in Paths : files'[p] = IF p \in job[w].remove THEN None ELSE files[p]
    BY <1>2
  <1>9. None # Bad
    BY NoneAssumption
  <1>10. TypeOK'
    <2>1. files' \in [Paths -> AllBytes \cup {None}]
      BY <1>2 DEF TypeOK
    <2>2. pc' \in [Writers -> Resting \cup {"look", "replace", "insert", "waiting", "commit",
                                           "fail", "cleanup"}]
      BY <1>2 DEF TypeOK, Resting
    <2>. QED
      BY <1>2, <2>1, <2>2 DEF TypeOK
  <1>11. Jobs'
    <2>1. JobOK(w)'
      BY <1>1, <1>2, <1>3 DEF Jobs, JobOK, Resting
    <2>2. \A v \in Writers \ {w} : JobOK(v)'
      BY <1>2, <1>3 DEF Jobs, JobOK
    <2>. QED
      BY <2>1, <2>2 DEF Jobs
  <1>12. InPlace'
    <2>1. HandOK(w)'
      BY <1>2 DEF HandOK
    <2>2. ASSUME NEW v \in Writers \ {w}, pc[v] \in {"look", "replace", "insert", "waiting", "commit"},
                 NEW m \in DOMAIN Files(v), Files(v)[m] \in job[w].remove
          PROVE  FALSE
      <3>1. Active(v) /\ pc[v] # "idle"
        BY <2>2 DEF Active, Resting
      <3>2. PICK n \in DOMAIN Files(w) : Files(w)[n] = Files(v)[m]
        BY <1>1, <2>2 DEF Jobs, JobOK
      <3>3. Kind(w) # "claimant"
        BY <1>1, <2>2, WriterFacts DEF Jobs, JobOK
      <3>4. Kind(v) = "study" /\ Kind(w) = "study"
        BY <1>1, <3>1, <3>2, <3>3, Meeting
      <3>. QED
        BY <1>1, <3>1, <3>4 DEF OneStudy
    <2>3. \A v \in Writers \ {w} : pc[v] # "idle" =>
            \A m \in DOMAIN Files(v) : Files(v)[m] \in Paths
      BY WriterFacts
    <2>4. \A v \in Writers \ {w} : HandOK(v)'
      BY <1>2, <1>3, <1>4, <1>8, <2>2, <2>3 DEF InPlace, HandOK
    <2>. QED
      BY <2>1, <2>4 DEF InPlace
  <1>13. RowsKnown'
    BY <1>1, <1>2 DEF RowsKnown
  <1>14. OneStudy'
    BY <1>2, <1>3, <1>4, <1>5 DEF OneStudy
  <1>15. Cleanup'
    BY <1>2, <1>3 DEF Cleanup, CleanOK
  <1>16. Tracked'
    <2>1. ASSUME NEW v \in Writers, restore.pc = "idle", NEW p \in OwnPaths(v), files'[p] # None
          PROVE  /\ pc'[v] # "idle"
                 /\ Plan(v).cleans => pc'[v] # "failed" /\ (Active(v)' => p \in job[v].remove)
      <3>1. p \in Paths
        BY Distinct DEF OwnPaths
      <3>2. files[p] # None /\ p \notin job[w].remove
        BY <1>8, <2>1, <3>1
      <3>3. /\ pc[v] # "idle"
            /\ Plan(v).cleans => pc[v] # "failed" /\ (Active(v) => p \in job[v].remove)
        BY <2>1, <3>2 DEF Tracked, TrackOK
      <3>. QED
        BY <1>1, <1>2, <1>4, <1>5, <3>2, <3>3
    <2>. QED
      BY <1>2, <1>3, <2>1 DEF Tracked, TrackOK
  <1>17. DamageKnown'
    <2>1. \A p \in damaged : files'[p] = Bad \/ (Restoring /\ backup.files[p] # None)
      BY <1>7, <1>8 DEF DamageKnown, TypeOK
    <2>2. \A v \in Writers : (pc'[v] = "replace" => Path(v) \notin damaged)
      BY <1>2 DEF DamageKnown
    <2>3. \A v \in Writers : Active(v)' => job[v].remove \cap damaged = {}
      BY <1>4, <1>5 DEF DamageKnown
    <2>4. \A p \in Paths : Bad \in {files'[p], backup.files[p]} => p \in damaged
      BY <1>8, <1>9 DEF DamageKnown
    <2>. QED
      BY <1>2, <1>3, <2>1, <2>2, <2>3, <2>4 DEF DamageKnown, Restoring
  <1>18. BackupHolds'
    BY <1>2 DEF BackupHolds, Excused, Restoring
  <1>19. RestoreHolds'
    BY <1>1, <1>2 DEF RestoreHolds, Restoring
  <1>20. RowsBacked'
    BY <1>1, <1>2, <1>6, <1>8 DEF RowsBacked, Failures, Unprotected, Restoring
  <1>21. RestoreComplete'
    BY <1>2, <1>6, <1>8 DEF RestoreComplete
  <1>. QED
    BY <1>10, <1>11, <1>12, <1>13, <1>14, <1>15, <1>16, <1>17, <1>18, <1>19, <1>20, <1>21

\* With the table locked no transaction has inserted a proof: whoever has one in hand is a
\* claimant that has still to insert it, and is counted as late.
LEMMA CleanProofKeeps ==
  ASSUME IInv, NEW w \in Writers, CleanProof(w)
  PROVE  IInv'
  <1>. USE DEF IInv, disk
  <1>1. /\ pc[w] = "cleanup" /\ Active(w) /\ ~Restoring /\ pc[w] # "idle"
        /\ Kind(w) = "proof" /\ TableQuiet(w)
    BY Working DEF CleanProof, Active, Resting
  <1> DEFINE gone == job[w].remove # {} /\ Row(ProofPath, Mine(w)) \notin rows
                     /\ files[ProofPath] = Mine(w)
  <1>2. /\ UNCHANGED <<damaged, rows, job, pending, backup, restore>>
        /\ files' = IF gone THEN [files EXCEPT ![ProofPath] = None] ELSE files
        /\ late' = IF gone THEN {v \in Writers : Kind(v) = "claimant" /\ pc[v] = "insert"}
                   ELSE late
        /\ pc' = [pc EXCEPT ![w] = "failed"] /\ pc'[w] = "failed"
        /\ \A v \in Writers \ {w} : pc'[v] = pc[v]
    BY DEF CleanProof, Goto, TypeOK
  <1>3. \A v \in Writers : /\ Kind(v)' = Kind(v) /\ Plan(v)' = Plan(v)
                         /\ Files(v)' = Files(v) /\ Mine(v)' = Mine(v)
                         /\ More(v)' = More(v) /\ RowsOf(v)' = RowsOf(v)
                         /\ Path(v)' = Path(v)
    BY <1>2 DEF Kind, Plan, Files, Mine, More, RowsOf, Path
  <1>4. \A v \in Writers \ {w} : /\ Active(v)' <=> Active(v)
                               /\ \A n : InHand(v, n)' = InHand(v, n)
    BY <1>2, <1>3 DEF Active, InHand
  <1>5. ~Active(w)'
    BY <1>2 DEF Active, Resting
  <1>6. Mine(w) = Canonical /\ None # Bad /\ ProofPath \in Paths /\ Canonical # Bad
    BY <1>1, WriterFacts, NoneAssumption, Distinct
  <1>7. gone => \A r \in rows : r.path # ProofPath
    <2>1. SUFFICES ASSUME NEW r \in rows, r.path = ProofPath
                   PROVE  r = Row(ProofPath, Canonical)
      BY <1>6
    <2>2. r \in AllRows /\ r = [path |-> r.path, sha |-> r.sha]
      BY DEF TypeOK, AllRows
    <2>3. \A v \in Writers : ProofPath \notin OwnPaths(v)
      BY Distinct DEF OwnPaths
    <2>4. r.sha = Canonical
      BY <2>1, <2>3, Distinct DEF RowsKnown
    <2>. QED
      BY <2>1, <2>2, <2>4 DEF Row
  <1>8. /\ \A r \in rows : r.path \in Paths
        /\ gone => files'[ProofPath] = None
        /\ \A p \in Paths : p # ProofPath \/ ~gone => files'[p] = files[p]
    BY <1>2, <1>6 DEF TypeOK, AllRows
  <1>9. gone => ProofPath \notin damaged
    BY <1>1, <1>6 DEF DamageKnown
  <1>10. ~gone => late' = late
    BY <1>2
  <1>11. TypeOK'
    <2>1. files' \in [Paths -> AllBytes \cup {None}]
      BY <1>2, <1>6 DEF TypeOK
    <2>2. late' \subseteq Writers
      BY <1>2 DEF TypeOK
    <2>3. pc' \in [Writers -> Resting \cup {"look", "replace", "insert", "waiting", "commit",
                                           "fail", "cleanup"}]
      BY <1>2 DEF TypeOK, Resting
    <2>. QED
      BY <1>2, <2>1, <2>2, <2>3 DEF TypeOK
  <1>12. Jobs'
    <2>1. JobOK(w)'
      BY <1>1, <1>2, <1>3 DEF Jobs, JobOK, Resting
    <2>2. \A v \in Writers \ {w} : JobOK(v)'
      BY <1>2, <1>3 DEF Jobs, JobOK
    <2>. QED
      BY <2>1, <2>2 DEF Jobs
  <1>13. InPlace'
    <2>1. HandOK(w)'
      BY <1>2 DEF HandOK
    <2>2. ASSUME NEW v \in Writers \ {w}, pc[v] \in {"look", "replace", "insert", "waiting", "commit"},
                 NEW m \in DOMAIN Files(v), InHand(v, m), gone,
                 files'[Files(v)[m]] # Mine(v)
          PROVE  Kind(v) = "claimant" /\ late' # {}
      <3>1. /\ Shape(v, Kind(v), Files(v), Plan(v).register) /\ Files(v)[m] \in Paths
            /\ job[v].next \in DOMAIN Files(v)
        BY <2>2, WriterFacts DEF Jobs, JobOK
      <3>2. pending[v] = {}
        BY <1>1 DEF TableQuiet
      <3>3. Files(v)[m] = ProofPath => Kind(v) \in {"proof", "claimant"}
        BY <3>1, Distinct DEF Shape
      <3>4. Kind(v) = "claimant" => Files(v)[m] = ProofPath
        BY <3>1 DEF Shape
      <3>5. Files(v)[m] = ProofPath
        BY <1>8, <2>2, <3>1, <3>4 DEF InPlace, HandOK
      <3>6. pc[v] \notin {"waiting", "commit"} /\ (Kind(v) = "proof" => pc[v] = "insert")
        BY <2>2, <3>1, <3>2 DEF Jobs, JobOK, Shape
      <3>7. m = 1 /\ job[v].next = 1
        BY <3>1, <3>3, <3>5 DEF Shape
      <3>8. pc[v] = "insert" /\ Plan(v).register # "before"
        BY <2>2, <3>6, <3>7 DEF InHand
      <3>9. Kind(v) = "claimant"
        BY <3>1, <3>3, <3>5, <3>8 DEF Shape
      <3>. QED
        BY <1>2, <2>2, <3>8, <3>9
    <2>3. \A v \in Writers \ {w} : HandOK(v)'
      <3>1. CASE gone
        BY <1>2, <1>3, <1>4, <2>2, <3>1 DEF HandOK
      <3>2. CASE ~gone
        BY <1>2, <1>3, <1>4, <3>2 DEF InPlace, HandOK
      <3>. QED
        BY <3>1, <3>2
    <2>. QED
      BY <2>1, <2>3 DEF InPlace
  <1>14. RowsKnown'
    BY <1>1, <1>2 DEF RowsKnown
  <1>15. OneStudy'
    BY <1>2, <1>3, <1>4, <1>5 DEF OneStudy
  <1>16. Cleanup'
    BY <1>2, <1>3 DEF Cleanup, CleanOK
  <1>17. Tracked'
    <2>1. ASSUME NEW v \in Writers, restore.pc = "idle", NEW p \in OwnPaths(v), files'[p] # None
          PROVE  /\ pc'[v] # "idle"
                 /\ Plan(v).cleans => pc'[v] # "failed" /\ (Active(v)' => p \in job[v].remove)
      <3>1. p \in Paths /\ p # ProofPath
        BY Distinct DEF OwnPaths
      <3>2. files[p] # None
        BY <1>8, <2>1, <3>1
      <3>3. /\ pc[v] # "idle"
            /\ Plan(v).cleans => pc[v] # "failed" /\ (Active(v) => p \in job[v].remove)
        BY <2>1, <3>2 DEF Tracked, TrackOK
      <3>4. p \notin job[w].remove
        BY <1>1, <3>1, WriterFacts DEF Jobs, JobOK, Shape
      <3>. QED
        BY <1>1, <1>2, <1>4, <1>5, <3>3, <3>4
    <2>. QED
      BY <1>2, <1>3, <2>1 DEF Tracked, TrackOK
  <1>18. DamageKnown'
    <2>1. \A p \in damaged : files'[p] = Bad \/ (Restoring /\ backup.files[p] # None)
      BY <1>8, <1>9 DEF DamageKnown, TypeOK
    <2>2. \A v \in Writers : (pc'[v] = "replace" => Path(v) \notin damaged)
      BY <1>2 DEF DamageKnown
    <2>3. \A v \in Writers : Active(v)' => job[v].remove \cap damaged = {}
      BY <1>4, <1>5 DEF DamageKnown
    <2>4. \A p \in Paths : Bad \in {files'[p], backup.files[p]} => p \in damaged
      BY <1>6, <1>8 DEF DamageKnown
    <2>. QED
      BY <1>2, <1>3, <2>1, <2>2, <2>3, <2>4 DEF DamageKnown, Restoring
  <1>. HIDE DEF gone
  <1>19. BackupHolds'
    <2>1. ASSUME NEW r \in backup.rows, Excused(r)
          PROVE  Excused(r)'
      BY <1>7, <1>10, <2>1 DEF Excused, BackupHolds
    <2>. QED
      BY <1>2, <2>1 DEF BackupHolds, Restoring
  <1>20. RestoreHolds'
    BY <1>1, <1>2 DEF RestoreHolds, Restoring
  <1>21. RowsBacked'
    BY <1>1, <1>2, <1>7, <1>8, <1>10 DEF RowsBacked, Failures, Unprotected, Restoring
  <1>22. RestoreComplete'
    BY <1>2, <1>7, <1>8 DEF RestoreComplete
  <1>. QED
    BY <1>11, <1>12, <1>13, <1>14, <1>15, <1>16, <1>17, <1>18, <1>19, <1>20, <1>21, <1>22

-----------------------------------------------------------------------------
(* Backup, restore and damage *)

\* The steps of a backup change nothing else, and are taken before any restore.
LEMMA BackupAside ==
  ASSUME IInv, UNCHANGED <<disk, rows, writer, restore, late>>, restore.pc = "idle",
         TypeOK', BackupHolds', \A p \in Paths : backup'.files[p] = Bad => p \in damaged
  PROVE  IInv'
  <1>. USE DEF IInv, disk, writer
  <1>1. Jobs'
    BY DEF Jobs, JobOK, Kind, Plan, Files, RowsOf, Mine, More
  <1>2. InPlace'
    BY DEF InPlace, HandOK, InHand, Kind, Plan, Files, Mine
  <1>3. RowsKnown' /\ OneStudy' /\ Cleanup'
    BY DEF RowsKnown, OneStudy, Cleanup, CleanOK, Kind, Active
  <1>4. Tracked'
    BY DEF Tracked, TrackOK, Plan, Kind, Active
  <1>5. DamageKnown'
    BY DEF DamageKnown, Restoring, Active, Path, Files, Plan, Kind
  <1>6. RestoreHolds' /\ RowsBacked' /\ RestoreComplete'
    BY DEF RestoreHolds, Restoring, RowsBacked, Failures, Unprotected, RestoreComplete
  <1>. QED
    BY <1>1, <1>2, <1>3, <1>4, <1>5, <1>6

\* Every row's file is there to be copied, whatever its bytes.
LEMMA FileOfRow ==
  ASSUME IInv, ~Restoring, NEW r \in rows
  PROVE  /\ r.path \in Paths /\ r.sha # None
         /\ Excused(r) \/ files[r.path] = r.sha \/ (files[r.path] = Bad /\ r.path \in damaged)
  <1>1. r \in AllRows /\ RowsKnown /\ RowsBacked /\ DamageKnown
    BY DEF IInv, TypeOK
  <1>2. r.sha # None
    BY <1>1, NoneAssumption DEF RowsKnown, Bytes
  <1>3. r \in Unprotected => Excused(r)
    BY DEF Unprotected, Excused
  <1>4. r \in Failures \ Unprotected => r.path \in damaged
    BY <1>1 DEF RowsBacked
  <1>5. r.path \in damaged => files[r.path] = Bad
    BY <1>1 DEF DamageKnown
  <1>. QED
    BY <1>1, <1>2, <1>3, <1>4, <1>5 DEF Failures, AllRows

LEMMA BackupKeeps ==
  ASSUME IInv, BackupStep
  PROVE  IInv'
  <1>. USE DEF IInv
  <1>1. UNCHANGED <<disk, rows, writer, restore, late>>
    BY DEF BackupStep, Dump, List, Copy, FinishBackup, FailBackup
  <1>2. backup.pc # "done" \/ backup.pc = "idle"
    BY DEF BackupStep, Dump, List, Copy, FinishBackup, FailBackup
  <1>3. restore.pc = "idle" /\ ~Restoring
    BY <1>2 DEF BackupHolds, Restoring
  <1>4. \A r \in rows : /\ r.path \in Paths /\ r.sha # None
                        /\ \/ Excused(r) \/ files[r.path] = r.sha
                           \/ files[r.path] = Bad /\ r.path \in damaged
    BY <1>3, FileOfRow
  <1>5. \A p \in Paths : files[p] = Bad \/ backup.files[p] = Bad => p \in damaged
    BY DEF DamageKnown
  <1>6. None # Bad
    BY NoneAssumption
  <1>7. TypeOK' <=> backup' \in [pc : {"idle", "list", "copy", "done"}, rows : SUBSET AllRows,
                 todo : SUBSET Paths, files : [Paths -> AllBytes \cup {None}],
                 intact : BOOLEAN]
    BY <1>1 DEF TypeOK, disk, writer
  <1>8. \A r : Excused(r)' <=> Excused(r)
    BY <1>1 DEF Excused
  <1>9. CASE Dump
    <2>1. /\ backup'.rows = rows /\ backup'.pc = "list" /\ backup'.files = backup.files
          /\ backup'.todo = backup.todo /\ backup'.intact = backup.intact
          /\ backup' = [backup EXCEPT !.pc = "list", !.rows = rows]
      BY <1>9 DEF Dump, TypeOK
    <2>2. TypeOK'
      BY <1>7, <2>1 DEF TypeOK
    <2>3. BackupHolds'
      BY <1>1, <1>3, <2>1 DEF BackupHolds, writer, Restoring
    <2>. HIDE DEF IInv
    <2>. QED
      BY <1>1, <1>3, <1>5, <2>1, <2>2, <2>3, BackupAside
  <1>10. CASE List
    <2>1. /\ backup'.rows = backup.rows /\ backup'.pc = "copy" /\ backup'.files = backup.files
          /\ backup'.todo = {p \in Paths : files[p] # None} /\ backup'.intact = backup.intact
          /\ backup' = [backup EXCEPT !.pc = "copy", !.todo = {p \in Paths : files[p] # None}]
      BY <1>10 DEF List, TypeOK
    <2>2. TypeOK'
      BY <1>7, <2>1 DEF TypeOK
    <2>3. \A r \in backup.rows : Excused(r) \/ r.path \in backup'.todo
      BY <1>4, <1>6, <2>1 DEF BackupHolds
    <2>4. BackupHolds'
      BY <1>1, <1>3, <1>8, <2>1, <2>3 DEF BackupHolds, writer, Restoring
    <2>. HIDE DEF IInv
    <2>. QED
      BY <1>1, <1>3, <1>5, <2>1, <2>2, <2>4, BackupAside
  <1>11. ASSUME NEW p \in Paths, Copy(p)
         PROVE  IInv'
    <2>1. /\ backup'.rows = backup.rows /\ backup'.pc = "copy" /\ backup.pc = "copy"
          /\ backup'.files = [backup.files EXCEPT ![p] = files[p]]
          /\ backup'.todo = backup.todo \ {p} /\ backup'.intact = backup.intact
          /\ backup' = [backup EXCEPT !.todo = @ \ {p}, !.files[p] = files[p]]
      BY <1>11 DEF Copy, TypeOK
    <2>2. /\ backup'.files[p] = files[p]
          /\ \A q \in Paths : q # p => backup'.files[q] = backup.files[q]
      BY <2>1 DEF TypeOK
    <2>3. TypeOK'
      BY <1>7, <2>1 DEF TypeOK
    <2>4. ASSUME NEW r \in backup.rows
          PROVE  \/ Excused(r) \/ r.path \in backup'.todo
                 \/ backup'.files[r.path] \in {r.sha, Bad}
      <3>1. CASE r.path = p
        BY <1>4, <2>2, <3>1 DEF BackupHolds
      <3>2. CASE r.path # p
        BY <1>4, <2>1, <2>2, <3>2 DEF BackupHolds
      <3>. QED
        BY <3>1, <3>2
    <2>5. ASSUME NEW w \in Writers, NEW q \in OwnPaths(w), pc[w] = "idle"
          PROVE  backup'.files[q] = None
      <3>1. q \in Paths
        BY Distinct DEF OwnPaths
      <3>2. files[q] = None
        BY <1>3, <2>5 DEF Tracked, TrackOK
      <3>. QED
        BY <2>2, <2>5, <3>1, <3>2 DEF BackupHolds
    <2>6. BackupHolds'
      BY <1>1, <1>3, <1>8, <2>1, <2>4, <2>5 DEF BackupHolds, writer, Restoring
    <2>. HIDE DEF IInv
    <2>. QED
      BY <1>1, <1>3, <1>5, <2>2, <2>3, <2>6, BackupAside
  <1>12. CASE FinishBackup
    <2>1. /\ backup'.rows = backup.rows /\ backup'.pc = "done" /\ backup'.files = backup.files
          /\ backup'.todo = backup.todo /\ backup'.intact = backup.intact
          /\ backup' = [backup EXCEPT !.pc = "done"] /\ backup.pc = "copy" /\ backup.todo = {}
      BY <1>12 DEF FinishBackup, Bundle, TypeOK
    <2>2. TypeOK'
      BY <1>7, <2>1 DEF TypeOK
    <2>3. BackupHolds'
      BY <1>1, <1>3, <1>8, <2>1 DEF BackupHolds, writer, Restoring
    <2>. HIDE DEF IInv
    <2>. QED
      BY <1>1, <1>3, <1>5, <2>1, <2>2, <2>3, BackupAside
  <1>13. CASE FailBackup
    <2>1. /\ backup' = NoBackup /\ backup'.rows = {} /\ backup'.pc = "idle"
          /\ backup'.files = [p \in Paths |-> None]
      BY <1>13 DEF FailBackup, NoBackup
    <2>2. TypeOK'
      BY <1>7, <2>1 DEF NoBackup
    <2>3. \A w \in Writers : \A p \in OwnPaths(w) : p \in Paths
      BY Distinct DEF OwnPaths
    <2>4. BackupHolds'
      BY <1>1, <1>3, <2>1, <2>3 DEF BackupHolds, writer, Restoring
    <2>. HIDE DEF IInv
    <2>. QED
      BY <1>1, <1>3, <1>6, <2>1, <2>2, <2>4, BackupAside
  <1>. QED
    BY <1>9, <1>10, <1>11, <1>12, <1>13 DEF BackupStep

\* What only concerns writers at work stands while none is.
LEMMA AtRest ==
  ASSUME IInv, UNCHANGED writer, \A w \in Writers : ~Active(w), rows' \subseteq rows
  PROVE  /\ Jobs' /\ InPlace' /\ RowsKnown' /\ OneStudy' /\ Cleanup'
         /\ \A w \in Writers : ~Active(w)' /\ pc'[w] # "replace"
  <1>. USE DEF IInv, writer
  <1>1. \A w \in Writers : ~Active(w)' /\ pc'[w] = pc[w] /\ pc[w] \in Resting
    BY DEF Active
  <1>2. \A w \in Writers : pc[w] \notin {"look", "replace", "insert", "waiting", "commit", "cleanup"}
    BY <1>1 DEF Resting
  <1>3. Jobs'
    BY DEF Jobs, JobOK, Kind, Plan, Files, RowsOf, Mine, More
  <1>4. InPlace' /\ Cleanup'
    BY <1>1, <1>2 DEF InPlace, HandOK, Cleanup, CleanOK
  <1>5. RowsKnown' /\ OneStudy'
    BY <1>1 DEF RowsKnown, OneStudy
  <1>. QED
    BY <1>1, <1>2, <1>3, <1>4, <1>5

\* A restore runs from an intact bundle, and ends with its rows and its files.
LEMMA RestoreKeeps ==
  ASSUME IInv, RestoreStep
  PROVE  IInv'
  <1>. USE DEF IInv, disk
  <1>1. UNCHANGED <<writer, backup, late>> /\ pc' = pc
    BY DEF RestoreStep, BeginRestore, RestoreDatabase, RestoreAsset, FinishRestore, TearRestore,
           writer
  <1>2. \A w \in Writers : ~Active(w)
    <2>1. CASE BeginRestore
      BY <2>1 DEF BeginRestore, Active
    <2>2. CASE restore.pc \in {"database", "assets"}
      BY <2>2 DEF RestoreHolds, Restoring
    <2>. QED
      BY <2>1, <2>2 DEF RestoreStep, RestoreDatabase, RestoreAsset, FinishRestore, TearRestore
  <1>3. /\ backup.pc = "done" /\ backup.intact
    BY DEF RestoreStep, BeginRestore, Verified, RestoreDatabase, RestoreAsset, FinishRestore,
           TearRestore, BackupHolds
  <1>4. \A r : Excused(r)' <=> Excused(r)
    BY <1>1 DEF Excused
  <1>5. \A r \in backup.rows : /\ r.path \in Paths /\ r.sha # None /\ r \in rows
                               /\ Excused(r) \/ backup.files[r.path] \in {r.sha, Bad}
    <2>1. \A r \in rows : r.path \in Paths /\ r.sha # None
      BY NoneAssumption DEF TypeOK, AllRows, RowsKnown, Bytes
    <2>. QED
      BY <1>3, <2>1 DEF BackupHolds
  <1>6. None # Bad
    BY NoneAssumption
  <1>. USE DEF writer
  <1>7. ASSUME BeginRestore \/ TearRestore
        PROVE  IInv'
    <2>1. /\ UNCHANGED <<files, damaged, rows>>
          /\ restore'.pc \in {"database", "torn"} /\ restore'.todo = {} /\ Restoring'
          /\ restore' \in [pc : {"idle", "database", "assets", "torn", "done"}, todo : SUBSET Paths]
      BY <1>7 DEF BeginRestore, TearRestore, Restoring
    <2>2. TypeOK'
      BY <1>1, <2>1 DEF TypeOK
    <2>3. /\ Jobs' /\ InPlace' /\ RowsKnown' /\ OneStudy' /\ Cleanup'
          /\ \A w \in Writers : ~Active(w)' /\ pc'[w] # "replace"
      BY <1>1, <1>2, <2>1, AtRest
    <2>4. Tracked'
      BY <2>1 DEF Tracked, TrackOK
    <2>5. DamageKnown'
      BY <1>1, <2>1, <2>3 DEF DamageKnown
    <2>6. BackupHolds'
      BY <1>1, <1>3, <1>4, <2>1 DEF BackupHolds
    <2>7. RestoreHolds' /\ RowsBacked' /\ RestoreComplete'
      BY <2>1, <2>3 DEF RestoreHolds, RowsBacked, RestoreComplete
    <2>. QED
      BY <2>2, <2>3, <2>4, <2>5, <2>6, <2>7
  <1>8. ASSUME RestoreDatabase
        PROVE  IInv'
    <2>1. /\ UNCHANGED <<files, damaged>> /\ rows' = backup.rows
          /\ restore' = [pc |-> "assets", todo |-> AssetMembers] /\ Restoring' /\ Restoring
      BY <1>3, <1>8 DEF RestoreDatabase, Restoring
    <2>2. rows' \subseteq rows
      BY <2>1 DEF BackupHolds
    <2>3. AssetMembers' = AssetMembers /\ AssetMembers \subseteq Paths
      BY <1>1 DEF AssetMembers
    <2>4. TypeOK'
      BY <1>1, <2>1, <2>2, <2>3 DEF TypeOK
    <2>5. /\ Jobs' /\ InPlace' /\ RowsKnown' /\ OneStudy' /\ Cleanup'
          /\ \A w \in Writers : ~Active(w)' /\ pc'[w] # "replace"
      BY <1>1, <1>2, <2>2, AtRest
    <2>6. Tracked'
      BY <2>1 DEF Tracked, TrackOK
    <2>7. DamageKnown'
      BY <1>1, <2>1, <2>5 DEF DamageKnown
    <2>8. BackupHolds'
      BY <1>1, <1>3, <1>4, <2>1 DEF BackupHolds
    <2>9. RestoreHolds' /\ RowsBacked' /\ RestoreComplete'
      BY <1>1, <2>1, <2>3, <2>5 DEF RestoreHolds, RowsBacked, RestoreComplete
    <2>. QED
      BY <2>4, <2>5, <2>6, <2>7, <2>8, <2>9
  <1>9. ASSUME NEW p \in Paths, RestoreAsset(p)
        PROVE  IInv'
    <2>1. /\ UNCHANGED <<damaged, rows>>
          /\ files' = [files EXCEPT ![p] = backup.files[p]]
          /\ restore' = [restore EXCEPT !.todo = @ \ {p}] /\ p \in restore.todo
          /\ restore.pc = "assets"
      BY <1>3, <1>9 DEF RestoreAsset
    <2>2. /\ restore'.pc = "assets" /\ restore'.todo = restore.todo \ {p}
          /\ files'[p] = backup.files[p]
          /\ \A q \in Paths : q # p => files'[q] = files[q]
          /\ Restoring /\ Restoring'
      BY <2>1 DEF TypeOK, Restoring
    <2>3. TypeOK'
      BY <1>1, <2>1 DEF TypeOK
    <2>4. /\ Jobs' /\ InPlace' /\ RowsKnown' /\ OneStudy' /\ Cleanup'
          /\ \A w \in Writers : ~Active(w)' /\ pc'[w] # "replace"
      BY <1>1, <1>2, <2>1, AtRest
    <2>5. Tracked'
      BY <2>2 DEF Tracked, TrackOK
    <2>6. rows = backup.rows /\ restore.todo \subseteq AssetMembers
      BY <2>1 DEF RestoreHolds
    <2>7. DamageKnown'
      <3>1. backup.files[p] # None
        BY <2>1, <2>6 DEF AssetMembers
      <3>2. \A q \in damaged : files'[q] = Bad \/ backup.files[q] # None
        BY <2>2, <3>1 DEF DamageKnown, TypeOK
      <3>3. \A q \in Paths : Bad \in {files'[q], backup.files[q]} => q \in damaged
        BY <2>2 DEF DamageKnown
      <3>. QED
        BY <1>1, <2>1, <2>2, <2>4, <3>2, <3>3 DEF DamageKnown
    <2>8. BackupHolds'
      BY <1>1, <1>3, <1>4, <2>1, <2>2 DEF BackupHolds
    <2>9. AssetMembers' = AssetMembers /\ AssetMembers \subseteq Paths
      BY <1>1 DEF AssetMembers
    <2>10. RestoreHolds'
      BY <1>1, <2>1, <2>2, <2>4, <2>6, <2>9 DEF RestoreHolds
    <2>11. RowsBacked' /\ RestoreComplete'
      BY <2>2 DEF RowsBacked, RestoreComplete
    <2>. QED
      BY <2>3, <2>4, <2>5, <2>7, <2>8, <2>10, <2>11
  <1>10. ASSUME FinishRestore
         PROVE  IInv'
    <2>1. /\ UNCHANGED <<files, rows>> /\ restore' = [restore EXCEPT !.pc = "done"]
          /\ damaged' = {p \in damaged : backup.files[p] \in {None, Bad}}
          /\ restore.pc = "assets" /\ restore.todo = {}
      BY <1>10 DEF FinishRestore
    <2>2. restore'.pc = "done" /\ ~Restoring'
      BY <2>1 DEF TypeOK, Restoring
    <2>3. /\ rows = backup.rows
          /\ \A p \in Paths : backup.files[p] # None => files[p] = backup.files[p]
      BY <2>1 DEF RestoreHolds, AssetMembers
    <2>4. TypeOK'
      BY <1>1, <2>1 DEF TypeOK
    <2>5. /\ Jobs' /\ InPlace' /\ RowsKnown' /\ OneStudy' /\ Cleanup'
          /\ \A w \in Writers : ~Active(w)' /\ pc'[w] # "replace"
      BY <1>1, <1>2, <2>1, AtRest
    <2>6. Tracked'
      BY <2>2 DEF Tracked, TrackOK
    <2>7. DamageKnown'
      <3>1. \A p \in damaged' : files[p] = Bad
        BY <2>1, <2>3 DEF DamageKnown, TypeOK
      <3>2. \A p \in Paths : Bad \in {files[p], backup.files[p]} => p \in damaged'
        BY <2>1, <2>3 DEF DamageKnown
      <3>. QED
        BY <1>1, <2>1, <2>5, <3>1, <3>2 DEF DamageKnown
    <2>8. BackupHolds'
      BY <1>1, <1>3, <1>4, <2>1, <2>2 DEF BackupHolds
    <2>9. RestoreHolds'
      BY <2>2 DEF RestoreHolds
    <2>10. \A r \in backup.rows : Excused(r) \/ files[r.path] = r.sha \/ r.path \in damaged'
      <3>1. SUFFICES ASSUME NEW r \in backup.rows, ~Excused(r), files[r.path] # r.sha
                     PROVE  r.path \in damaged'
        OBVIOUS
      <3>2. backup.files[r.path] = Bad
        BY <1>5, <2>3, <3>1
      <3>. QED
        BY <1>5, <2>1, <3>2 DEF DamageKnown
    <2>11. RowsBacked'
      BY <1>1, <2>1, <2>3, <2>10 DEF RowsBacked, Failures, Unprotected, Excused
    <2>12. RestoreComplete'
      BY <1>1, <1>5, <2>1, <2>3 DEF RestoreComplete
    <2>. QED
      BY <2>4, <2>5, <2>6, <2>7, <2>8, <2>9, <2>11, <2>12
  <1>. QED
    BY <1>7, <1>8, <1>9, <1>10 DEF RestoreStep

LEMMA DamageKeeps ==
  ASSUME IInv, NEW p \in Paths, Damage(p)
  PROVE  IInv'
  <1>. USE DEF IInv, Damage
  <1>1. \A w \in Writers : ~Active(w)
    BY DEF Active
  <1>2. /\ files'[p] = Bad /\ \A q \in Paths : q # p => files'[q] = files[q]
        /\ files' \in [Paths -> AllBytes \cup {None}] /\ files[p] # None
    BY DEF TypeOK, AllBytes
  <1>3. /\ UNCHANGED <<job, pc, pending, rows, writer, backup, restore, late>>
        /\ Restoring' = Restoring
        /\ damaged' = {p} /\ damaged = {} /\ ~Restoring
    BY DEF writer, Restoring
  <1>4. TypeOK'
    BY <1>2, <1>3 DEF TypeOK
  <1>5. /\ Jobs' /\ InPlace' /\ RowsKnown' /\ OneStudy' /\ Cleanup'
        /\ \A w \in Writers : ~Active(w)' /\ pc'[w] # "replace"
    BY <1>1, <1>3, AtRest
  <1>6. Tracked'
    <2>1. \A w \in Writers : \A q \in OwnPaths(w) : q \in Paths
      BY Distinct DEF OwnPaths
    <2>. QED
      BY <1>2, <1>3, <2>1 DEF Tracked, TrackOK, Plan, Kind, Active
  <1>7. DamageKnown'
    BY <1>2, <1>3, <1>5 DEF DamageKnown
  <1>8. BackupHolds'
    BY <1>3 DEF BackupHolds, Excused
  <1>9. RestoreHolds'
    BY <1>3 DEF RestoreHolds, Restoring
  <1>10. \A r \in rows : r.path \in Paths
    BY DEF TypeOK, AllRows
  <1>11. RowsBacked'
    BY <1>2, <1>3, <1>10 DEF RowsBacked, Failures, Unprotected
  <1>12. RestoreComplete'
    BY <1>2, <1>3, <1>10 DEF RestoreComplete
  <1>. QED
    BY <1>4, <1>5, <1>6, <1>7, <1>8, <1>9, <1>11, <1>12

LEMMA DamageBundleKeeps ==
  ASSUME IInv, DamageBundle
  PROVE  IInv'
  <1>1. /\ UNCHANGED <<disk, rows, writer, restore, late>> /\ restore.pc = "idle"
        /\ backup.pc = "done"
    BY DEF DamageBundle
  <1>2. /\ backup'.rows = backup.rows /\ backup'.pc = "done" /\ backup'.files = backup.files
        /\ backup' = [backup EXCEPT !.intact = FALSE]
    BY <1>1 DEF DamageBundle, IInv, TypeOK
  <1>3. TypeOK'
    BY <1>1, <1>2 DEF IInv, TypeOK, disk, writer
  <1>4. BackupHolds'
    BY <1>1, <1>2 DEF IInv, BackupHolds, Excused, writer, Restoring
  <1>5. \A p \in Paths : backup'.files[p] = Bad => p \in damaged
    BY <1>2 DEF IInv, DamageKnown
  <1>. QED
    BY <1>1, <1>3, <1>4, <1>5, BackupAside

-----------------------------------------------------------------------------
(* The invariant and what follows *)

LEMMA Initial == Init => IInv
  <1>. SUFFICES ASSUME Init
                PROVE  IInv
    OBVIOUS
  <1>. USE DEF Init
  <1>1. \A w \in Writers : pc[w] = "idle" /\ job[w] = NoJob /\ pending[w] = {} /\ ~Active(w)
    BY DEF Active, Resting
  <1>2. /\ \A p \in Paths : files[p] = None /\ backup.files[p] = None
        /\ backup.rows = {} /\ backup.pc = "idle" /\ restore.pc = "idle" /\ ~Restoring
    BY DEF NoBackup, Restoring
  <1>3. TypeOK
    BY DEF TypeOK, NoJob, NoBackup, Resting
  <1>4. Jobs /\ InPlace /\ Cleanup
    BY <1>1 DEF Jobs, JobOK, InPlace, HandOK, Cleanup, CleanOK
  <1>5. RowsKnown /\ OneStudy
    BY <1>1 DEF RowsKnown, OneStudy
  <1>6. \A w \in Writers : \A p \in OwnPaths(w) : p \in Paths
    BY Distinct DEF OwnPaths
  <1>7. Tracked
    BY <1>2, <1>6 DEF Tracked, TrackOK
  <1>8. DamageKnown
    BY <1>1, <1>2, NoneAssumption DEF DamageKnown
  <1>9. BackupHolds /\ RestoreHolds
    BY <1>2, <1>6 DEF BackupHolds, RestoreHolds
  <1>10. RowsBacked /\ RestoreComplete
    BY <1>2 DEF RowsBacked, Failures, RestoreComplete
  <1>. QED
    BY <1>3, <1>4, <1>5, <1>7, <1>8, <1>9, <1>10 DEF IInv

LEMMA Inductive ==
  ASSUME QuietStudies, IInv, [Next]_vars
  PROVE  IInv'
  <1>1. CASE UNCHANGED vars
    <2>. USE DEF IInv, vars, disk, writer
    <2>1. TypeOK'
      BY <1>1 DEF TypeOK
    <2>2. Jobs' /\ InPlace' /\ RowsKnown' /\ OneStudy' /\ Cleanup'
      <3>1. Jobs'
        BY <1>1 DEF Jobs, JobOK, Kind, Plan, Files, RowsOf, Mine, More
      <3>2. InPlace'
        BY <1>1 DEF InPlace, HandOK, InHand, Kind, Plan, Files, Mine
      <3>3. RowsKnown' /\ OneStudy' /\ Cleanup'
        BY <1>1 DEF RowsKnown, OneStudy, Cleanup, CleanOK, Kind, Active
      <3>. QED
        BY <3>1, <3>2, <3>3
    <2>3. Tracked' /\ DamageKnown' /\ BackupHolds' /\ RestoreHolds'
      <3>1. Tracked' /\ DamageKnown'
        BY <1>1 DEF Tracked, TrackOK, DamageKnown, Restoring, Active, Path, Files, Plan, Kind
      <3>2. BackupHolds' /\ RestoreHolds'
        BY <1>1 DEF BackupHolds, RestoreHolds, Excused, Restoring, Active, AssetMembers
      <3>. QED
        BY <3>1, <3>2
    <2>4. RowsBacked' /\ RestoreComplete'
      BY <1>1 DEF RowsBacked, RestoreComplete, Failures, Unprotected, Restoring
    <2>. QED
      BY <2>1, <2>2, <2>3, <2>4
  <1>2. ASSUME NEW w \in Writers, WriterStep(w)
        PROVE  IInv'
    BY <1>2, StartKeeps, LookKeeps, ReplaceKeeps, InsertKeeps, CommitKeeps, RaiseKeeps,
       RollBackKeeps, UnlinkKeeps, CleanProofKeeps, DieKeeps DEF WriterStep
  <1>. QED
    BY <1>1, <1>2, BackupKeeps, RestoreKeeps, DamageKeeps, DamageBundleKeeps DEF Next

\* The inductive invariant: every file is in its place for one of three reasons (a row, an
\* open attempt, the damage of a disk), a clean-up knows only what is its own, and what a
\* backup has listed and a restore has put back stays so, whoever writes or dies meanwhile.
THEOREM Invariance == ASSUME QuietStudies PROVE Spec => []IInv
  BY Initial, Inductive, PTL DEF Spec

\* A registered file holds the bytes of its row, whatever fails, dies, is cleaned up or is
\* restored around it: write_bytes, register_asset and the cleanups after a failed attempt.
THEOREM RowsStayBacked == ASSUME QuietStudies PROVE Spec => []RowsBacked
  <1>1. IInv => RowsBacked
    BY DEF IInv
  <1>. QED
    BY <1>1, Invariance, PTL

\* An attempt that failed and was cleaned up after leaves none of its own files without a
\* row (_best_effort_unlink_if_orphaned and its likes).
THEOREM FailureLeavesNothing == ASSUME QuietStudies PROVE Spec => []NoOrphanLeft
  <1>1. IInv => NoOrphanLeft
    BY DEF IInv, Tracked, TrackOK, NoOrphanLeft, OwnPaths
  <1>. QED
    BY <1>1, Invariance, PTL

\* A bundle made beside running jobs holds the file of every row of its database dump
\* (create_backup_bundle, after _snapshot_database).
THEOREM BundleHolds == ASSUME QuietStudies PROVE Spec => []BundleComplete
  <1>1. IInv => BundleComplete
    <2>. SUFFICES ASSUME IInv, backup.pc = "done", NEW r \in backup.rows, r \notin Unprotected
                  PROVE  backup.files[r.path] \in {r.sha, Bad}
      BY DEF BundleComplete
    <2>1. r \in rows /\ ~Excused(r)
      BY DEF IInv, BackupHolds, Unprotected, Excused
    <2>. QED
      BY <2>1 DEF IInv, BackupHolds
  <1>. QED
    BY <1>1, Invariance, PTL

\* A restore that ran to its end has put back every row with its file, those of an earlier
\* restore that was torn included (restore_backup_bundle).
THEOREM RestoreReturnsAll == ASSUME QuietStudies PROVE Spec => []RestoreComplete
  <1>1. IInv => RestoreComplete
    BY DEF IInv
  <1>. QED
    BY <1>1, Invariance, PTL
=============================================================================
