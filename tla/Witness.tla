------------------------------- MODULE Witness -------------------------------
(***************************************************************************)
(* The witness outside the machine (crates/enclave/src/witness.rs and the  *)
(* writer thread of crates/enclave/src/ledger.rs): the enclave tells an    *)
(* S3 bucket nobody can delete from how far the book has got, and at a     *)
(* start refuses a book that stands before the newest mark, unless the     *)
(* operator has acknowledged that very place since.                        *)
(*                                                                         *)
(* The book is only its place, (generation, number).  The nightly backup   *)
(* of the host's volume, its restore and the operator's acknowledgement    *)
(* are outside the repository's crates.                                    *)
(***************************************************************************)
EXTENDS Integers, FiniteSets

CONSTANTS
  MaxGeneration,  \* bound: folds of the journal
  MaxNumber,      \* bound: records between two folds
  MaxWrites,      \* bound: objects written to the bucket (its clock)
  MaxRestores     \* bound: restores from a backup

ASSUME WitnessAssumption ==
  /\ MaxGeneration \in Nat \ {0}
  /\ {MaxNumber, MaxWrites, MaxRestores} \subseteq Nat

VARIABLES
  running,
  disk,      \* the place the host has confirmed the book up to
  told,      \* the last mark this writer wrote
  owed,      \* a mark is due at once
  marks,     \* mark/<g>-<n>: when each was last written
  accepts,   \* accept/<g>-<n>: when each was last written
  clock,     \* objects written so far: S3's clock
  backups,   \* places of the backups of the host's volume
  restores,  \* history: restores so far
  byAccept,  \* history: this run began on an acknowledgement
  covered    \* history: which acknowledgement let which restore start

vars == <<running, disk, told, owed, marks, accepts, clock, backups, restores,
          byAccept, covered>>
bucket == <<marks, accepts, clock>>

Places == (0..MaxGeneration) \X (0..MaxNumber)
Before(m1, m2) == m1[1] < m2[1] \/ (m1[1] = m2[1] /\ m1[2] < m2[2])

\* read: the newest mark is the one with the highest place.
NewestMark == CHOOSE m \in DOMAIN marks : \A o \in DOMAIN marks : ~Before(m, o)

\* A bug: only the generations are compared.
MayStart_Generations(book) ==
  IF DOMAIN marks = {} \/ book[1] >= NewestMark[1] THEN "free"
  ELSE IF book \in DOMAIN accepts /\ accepts[book] > marks[NewestMark] THEN "accepted"
  ELSE "refused"
\* A bug: an acknowledgement of the place counts for ever.
MayStart_AnyAccept(book) ==
  IF DOMAIN marks = {} \/ ~Before(book, NewestMark) THEN "free"
  ELSE IF book \in DOMAIN accepts THEN "accepted"
  ELSE "refused"
\* may_start: "free", by an acknowledgement, or not at all.
MayStart(book) ==
  IF DOMAIN marks = {} \/ ~Before(book, NewestMark) THEN "free"
  ELSE IF book \in DOMAIN accepts /\ accepts[book] > marks[NewestMark] THEN "accepted"
  ELSE "refused"

\* A bug: an object carries a time after its write.
Put_Later(objects, key, when) ==
  [k \in DOMAIN objects \cup {key} |-> IF k = key THEN when + 1 ELSE objects[k]]
Put(objects, key, when) ==
  [k \in DOMAIN objects \cup {key} |-> IF k = key THEN when ELSE objects[k]]

-----------------------------------------------------------------------------
Init ==
  /\ running = FALSE
  /\ disk = <<1, 0>>
  /\ told = <<0, 0>>
  /\ owed = FALSE
  /\ marks = <<>>
  /\ accepts = <<>>
  /\ clock = 0
  /\ backups = {}
  /\ restores = 0
  /\ byAccept = FALSE
  /\ covered = {}

Start ==
  /\ ~running
  /\ MayStart(disk) # "refused"
  /\ running' = TRUE
  /\ told' = <<0, 0>>
  /\ byAccept' = (MayStart(disk) = "accepted")
  /\ owed' = byAccept'
  /\ covered' = IF byAccept' THEN covered \cup {<<disk, accepts[disk], restores>>} ELSE covered
  /\ UNCHANGED <<disk, bucket, backups, restores>>

Record ==
  /\ running
  /\ disk[2] < MaxNumber
  /\ disk' = <<disk[1], disk[2] + 1>>
  /\ UNCHANGED <<running, told, owed, bucket, backups, restores, byAccept, covered>>

Fold ==
  /\ running
  /\ disk[1] < MaxGeneration
  /\ disk' = <<disk[1] + 1, 0>>
  /\ owed' = TRUE
  /\ UNCHANGED <<running, told, bucket, backups, restores, byAccept, covered>>

\* A bug: the mark is the next place of the book in memory, not what the host holds.
WriteMark_NotYetKept ==
  /\ running
  /\ Before(told, disk)
  /\ clock < MaxWrites
  /\ marks' = Put(marks, <<disk[1], disk[2] + 1>>, clock + 1)
  /\ clock' = clock + 1
  /\ told' = disk
  /\ owed' = FALSE
  /\ UNCHANGED <<running, disk, accepts, backups, restores, byAccept, covered>>

\* A bug: the numbers are compared without their generations.
WriteMark_NumbersOnly ==
  /\ running
  /\ told[2] < disk[2]
  /\ clock < MaxWrites
  /\ marks' = Put(marks, disk, clock + 1)
  /\ clock' = clock + 1
  /\ told' = disk
  /\ owed' = FALSE
  /\ UNCHANGED <<running, disk, accepts, backups, restores, byAccept, covered>>

\* The writer writes a mark: at once when one is owed, and every ten minutes
\* while the book moves.
WriteMark ==
  /\ running
  /\ Before(told, disk)
  /\ clock < MaxWrites
  /\ marks' = Put(marks, disk, clock + 1)
  /\ clock' = clock + 1
  /\ told' = disk
  /\ owed' = FALSE
  /\ UNCHANGED <<running, disk, accepts, backups, restores, byAccept, covered>>

\* The mark could not be written: it is tried again.
MarkFails ==
  /\ running
  /\ Before(told, disk)
  /\ owed' = TRUE
  /\ UNCHANGED <<running, disk, told, bucket, backups, restores, byAccept, covered>>

\* The mark was written and the answer lost: it is owed and written once more.
MarkUnheard ==
  /\ running
  /\ Before(told, disk)
  /\ clock < MaxWrites
  /\ marks' = Put(marks, disk, clock + 1)
  /\ clock' = clock + 1
  /\ owed' = TRUE
  /\ UNCHANGED <<running, disk, told, accepts, backups, restores, byAccept, covered>>

Stop ==
  /\ running
  /\ running' = FALSE
  /\ UNCHANGED <<disk, told, owed, bucket, backups, restores, byAccept, covered>>

Backup ==
  /\ backups' = backups \cup {disk}
  /\ UNCHANGED <<running, disk, told, owed, bucket, restores, byAccept, covered>>

Restore(b) ==
  /\ ~running
  /\ restores < MaxRestores
  /\ b # disk
  /\ disk' = b
  /\ restores' = restores + 1
  /\ UNCHANGED <<running, told, owed, bucket, backups, byAccept, covered>>

\* The operator acknowledges the place the refusal named.
Accept ==
  /\ ~running
  /\ MayStart(disk) = "refused"
  /\ clock < MaxWrites
  /\ accepts' = Put(accepts, disk, clock + 1)
  /\ clock' = clock + 1
  /\ UNCHANGED <<running, disk, told, owed, marks, backups, restores, byAccept, covered>>

Next ==
  \/ Start \/ Record \/ Fold \/ WriteMark \/ MarkFails \/ MarkUnheard \/ Stop
  \/ Backup \/ (\E b \in backups : Restore(b)) \/ Accept

Spec == Init /\ [][Next]_vars

\* The writer thread tries again and again, and the bucket is not away for ever.
FairSpec == Spec /\ SF_vars(WriteMark)

-----------------------------------------------------------------------------
\* Every place - on the disk, in the bucket, in a backup - is a place, and what the
\* bucket holds carries the time of a write.
TypeOK ==
  /\ running \in BOOLEAN /\ owed \in BOOLEAN /\ byAccept \in BOOLEAN
  /\ disk \in Places /\ told \in Places
  /\ DOMAIN marks \subseteq Places /\ DOMAIN accepts \subseteq Places
  /\ \A m \in DOMAIN marks : marks[m] \in 1..clock
  /\ \A m \in DOMAIN accepts : accepts[m] \in 1..clock
  /\ clock \in 0..MaxWrites
  /\ backups \subseteq Places
  /\ restores \in 0..MaxRestores

\* The enclave never runs on a book behind a mark the witness holds, whatever
\* backup was put back, unless this run began on an acknowledgement.
NoSilentRewind ==
  running /\ ~byAccept => \A m \in DOMAIN marks : ~Before(disk, m)

\* A book that was never put back to a backup is never refused: no mark names a
\* place the book did not have on the disk.
NeverRefusedUnrestored == restores = 0 => MayStart(disk) = "free"

\* An acknowledgement is void once the book has passed every older mark and
\* said so: it starts no book behind a mark written after it.
VoidOnceOvertaken ==
  [][~running /\ running' =>
       \A m \in DOMAIN marks : Before(disk, m) =>
         disk \in DOMAIN accepts /\ marks[NewestMark] < accepts[disk]]_vars

\* A fold is witnessed in the end: a mark that is owed is written, unless the
\* enclave stops or the book goes on to a place that is owed instead.
OwedIsWritten ==
  (running /\ owed /\ Before(told, disk)) ~> (~owed \/ ~running \/ clock = MaxWrites)

\* One acknowledgement covers one restore (witness.rs: "An acknowledgement
\* counts once").
AcceptCountsOnce ==
  \A c1, c2 \in covered : c1[1] = c2[1] /\ c1[2] = c2[2] => c1[3] = c2[3]

==============================================================================
