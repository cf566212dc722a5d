-------------------------------- MODULE Book --------------------------------
(***************************************************************************)
(* How the enclave's account book outlives the enclave.                    *)
(*                                                                         *)
(* The enclave has no disk.  It applies every change to the book in        *)
(* memory, seals it to its place (generation, number) and queues it for a  *)
(* writer thread (crates/enclave/src/ledger.rs).  The writer offers one    *)
(* job at a time to the host, which keeps a snapshot and a journal of      *)
(* sealed records it cannot read (crates/egress/src/lib.rs), until the     *)
(* host has answered for it.  At a start the snapshot is read back and the *)
(* journal replayed; a record that does not sit in the place it was sealed *)
(* to makes the enclave refuse the book.                                   *)
(*                                                                         *)
(* What is in the book does not matter here: a change is a number that     *)
(* names it, and the book is the sequence of the changes applied to it.    *)
(***************************************************************************)
EXTENDS Integers, Sequences, FiniteSets

CONSTANTS
  SnapshotEvery,  \* CHANGES_PER_SNAPSHOT: records before the book is folded
  Slots,          \* connections the host can be busy with at one time
  Nobody,         \* the writer waits for no connection
  Faults,         \* what can go wrong beyond stops and lost answers
  MaxBatch,       \* bound: changes one ledger operation writes down together
  MaxChanges,     \* bound: changes made in a behaviour
  MaxStops        \* bound: stops of the enclave and of the host together

(***************************************************************************)
(* late_append, late_snapshot: the enclave gives up on a request (20 s)    *)
(* that the host still carries out afterwards; mid_fold_stop: the host     *)
(* stops after renaming a snapshot and before removing the journal;        *)
(* failed_removal: the journal cannot be removed then; torn_write: a write *)
(* to the journal breaks off (disk full, host killed).                     *)
(***************************************************************************)
AllFaults == {"late_append", "late_snapshot", "mid_fold_stop", "failed_removal", "torn_write"}

ASSUME BookAssumption ==
  /\ SnapshotEvery \in Nat \ {0}
  /\ MaxBatch \in Nat \ {0}
  /\ MaxChanges \in Nat
  /\ MaxStops \in Nat
  /\ Nobody \notin Slots
  /\ Faults \subseteq AllFaults

(***************************************************************************)
(* What the enclave holds in memory is gone at a stop.  book, kept, queue  *)
(* and flushed keep their values over it for the properties' sake only: no *)
(* action of the enclave or the host reads one again before a start has    *)
(* set it.                                                                 *)
(***************************************************************************)
VARIABLES
  phase,      \* the enclave: "down", "opening", "up" or "refused"
  read,       \* the snapshot an opening enclave has read
  book,       \* the book in memory: the changes applied, in order
  kept,       \* Kept of ledger.rs: generation, next, since
  queue,      \* the jobs on their way to the host, the one carried at the head
  flushed,    \* the mark the host has confirmed the journal up to
  awaiting,   \* the connection the writer waits on
  asks,       \* what each connection of the host is busy with
  snapshot,   \* on the host's disk
  journal,    \* on the host's disk
  last,       \* the host's memory of the last record taken (0: not known)
  made,       \* changes made so far: the name of the next one
  stops,      \* stops so far
  confirmed,  \* history: the changes whose place has been marked flushed
  spoilt      \* history: what has spoilt the host's files (Spoils, below)

enclaveVars == <<phase, read, book, kept, queue, flushed>>
hostVars == <<asks, snapshot, journal, last>>
vars == <<phase, read, book, kept, queue, flushed, awaiting, asks, snapshot,
          journal, last, made, stops, confirmed, spoilt>>

-----------------------------------------------------------------------------
(* A job is a snapshot (number 0, the whole book) or a record (one change), *)
(* sealed to its place.                                                    *)
Job(g, n, d) == [gen |-> g, num |-> n, data |-> d]
NoJob == Job(0, 0, <<>>)
NoAsk == [job |-> NoJob, at |-> "idle"]
Place(job) == <<job.gen, job.num>>
IsSnapshot(job) == job.num = 0

\* Marks compare like the records they name.
Before(m1, m2) == m1[1] < m2[1] \/ (m1[1] = m2[1] /\ m1[2] < m2[2])

(* A record whose write broke off has its header and nothing that opens.   *)
Torn(record) == [record EXCEPT !.data = <<>>]
IsTorn(record) == record.data = <<>>

EndsTorn(j) == j # <<>> /\ IsTorn(j[Len(j)])

\* split: what a read of the journal gives; a torn end is dropped.
Whole(j) == IF EndsTorn(j) THEN SubSeq(j, 1, Len(j) - 1) ELSE j

\* A bug: the header before the last one is read.
JournalLast_OneBefore(j) == IF Len(j) < 2 THEN 0 ELSE j[Len(j) - 1].num

(* journal_last: the number of the last whole record, 0 for none.  A record   *)
(* that broke off takes as many bytes as its header says from what lies       *)
(* behind it, and no header is found after that.                              *)
JournalLast(j) ==
  LET broken == {i \in 1..(Len(j) - 1) : IsTorn(j[i])}
  IN IF broken # {} THEN j[CHOOSE i \in broken : TRUE].num
     ELSE IF Whole(j) = <<>> THEN 0 ELSE j[Len(Whole(j))].num

\* A bug: records are sealed to their number and not to their generation.
Opens_AnyGeneration(generation, j) ==
  \A i \in 1..Len(Whole(j)) : ~IsTorn(j[i]) /\ j[i].num = i

\* Every record opens at the place it sits in, under the snapshot's generation.
Opens(generation, j) ==
  \A i \in 1..Len(Whole(j)) :
    /\ ~IsTorn(j[i])
    /\ Place(j[i]) = <<generation, i>>

\* What a replay of `j` on the rows of a snapshot puts in memory.
Replay(rows, j) == rows \o [i \in 1..Len(Whole(j)) |-> j[i].data[1]]

ChangesIn(rows) == {rows[i] : i \in 1..Len(rows)}

Mark == <<kept.generation, kept.next - 1>>
\* A bug: numbers begin at 0, the snapshot's own.
FreshKept_FromZero(generation) == [generation |-> generation, next |-> 0, since |-> 0]
FreshKept(generation) == [generation |-> generation, next |-> 1, since |-> 0]

\* A bug: the book is written out before the last change is applied to it.
Fold_TooEarly(rows) == Job(kept.generation + 1, 0, SubSeq(rows, 1, Len(rows) - 1))
\* write_out: the whole book, as the snapshot that begins the next generation.
Fold(rows) == Job(kept.generation + 1, 0, rows)

-----------------------------------------------------------------------------
Init ==
  /\ phase = "down"
  /\ read = NoJob
  /\ book = <<>>
  /\ kept = FreshKept(1)
  /\ queue = <<>>
  /\ flushed = <<0, 0>>
  /\ awaiting = Nobody
  /\ asks = [s \in Slots |-> NoAsk]
  /\ snapshot = NoJob
  /\ journal = <<>>
  /\ last = 0
  /\ made = 0
  /\ stops = 0
  /\ confirmed = {}
  /\ spoilt = {}

Late(job) == (IF IsSnapshot(job) THEN "late_snapshot" ELSE "late_append") \in Faults

(* Two things spoil what the host keeps: a write for a request that nobody    *)
(* waits for any more - the enclave has gone on to the next job, or the next  *)
(* enclave has begun to read - and a record put behind one that broke off.    *)
Awaited(job) == phase # "opening" /\ queue # <<>> /\ job = Head(queue)
Spoils(s) == spoilt' = spoilt \cup (IF Awaited(asks[s].job) THEN {} ELSE {"late"})
                             \cup (IF IsSnapshot(asks[s].job) \/ ~EndsTorn(journal) THEN {} ELSE {"behind"})

-----------------------------------------------------------------------------
(* The enclave.                                                            *)

\* open_sealed, first the snapshot: read from the host in an exchange of its
\* own.  A host that carries nothing out late has finished what the enclave
\* before this one left with it.
ReadSnapshot ==
  /\ phase = "down"
  /\ \A s \in Slots : asks[s] = NoAsk \/ Late(asks[s].job)
  /\ phase' = "opening"
  /\ read' = snapshot
  /\ UNCHANGED <<book, kept, queue, flushed, awaiting, hostVars, made, stops, confirmed, spoilt>>

\* A book that starts from nothing is written out at once; and so is one with an empty
\* journal, which lacks the mark of the current form and counts as one in the old (split).
Folds == read = NoJob \/ journal = <<>>

\* ... then the journal, replayed on it.  With no snapshot the generation is 1.
Open ==
  /\ phase = "opening"
  /\ LET generation == IF read = NoJob THEN 1 ELSE read.gen
         replayed == Len(Whole(journal))
         rows == Replay(read.data, journal)
     IN IF Opens(generation, journal)
        THEN /\ phase' = "up"
             /\ book' = rows
             /\ flushed' = <<generation, replayed>>
             /\ kept' = IF Folds THEN FreshKept(generation + 1)
                        ELSE [generation |-> generation, next |-> replayed + 1, since |-> replayed]
             /\ queue' = IF Folds THEN <<Job(generation + 1, 0, rows)>> ELSE <<>>
             /\ confirmed' = confirmed \cup ChangesIn(rows)
        ELSE /\ phase' = "refused"
             /\ UNCHANGED <<book, kept, queue, flushed, confirmed>>
  /\ read' = NoJob
  /\ UNCHANGED <<awaiting, hostVars, made, stops, spoilt>>

\* An operation of the ledger writes k changes down: each is applied, sealed to
\* the next place and queued; when the generation is full the whole book is
\* queued behind them as the snapshot that begins the next one.
Change(k) ==
  LET new == [i \in 1..k |-> made + i]
      records == [i \in 1..k |-> Job(kept.generation, kept.next + i - 1, <<made + i>>)]
      full == kept.since + k >= SnapshotEvery
  IN /\ phase = "up"
     /\ made + k <= MaxChanges
     /\ made' = made + k
     /\ book' = book \o new
     /\ queue' = queue \o records \o (IF full THEN <<Fold(book \o new)>> ELSE <<>>)
     /\ kept' = IF full THEN FreshKept(kept.generation + 1)
                ELSE [kept EXCEPT !.next = @ + k, !.since = @ + k]
     /\ UNCHANGED <<phase, read, flushed, awaiting, hostVars, stops, confirmed, spoilt>>

\* The enclave stops: it waits for nothing any more, and what it had handed over
\* either never arrived whole or is still carried out by the host.
EnclaveStop ==
  /\ phase \in {"opening", "up"}
  /\ stops < MaxStops
  /\ stops' = stops + 1
  /\ phase' = "down"
  /\ read' = NoJob
  /\ awaiting' = Nobody
  /\ asks' \in IF awaiting = Nobody THEN {asks}
               ELSE IF asks[awaiting].at \in {"kept", "refused"}
                    THEN {[asks EXCEPT ![awaiting] = NoAsk]}
               ELSE IF asks[awaiting].at = "sent"
                    THEN {asks, [asks EXCEPT ![awaiting] = NoAsk]}
               ELSE {asks}
  /\ UNCHANGED <<book, kept, queue, flushed, snapshot, journal, last, made, confirmed, spoilt>>

-----------------------------------------------------------------------------
(* The writer thread: one job at a time, until the host has confirmed it.  *)

Offer(s) ==
  /\ phase = "up"
  /\ queue # <<>>
  /\ awaiting = Nobody
  /\ asks[s] = NoAsk
  /\ awaiting' = s
  /\ asks' = [asks EXCEPT ![s] = [job |-> Head(queue), at |-> "sent"]]
  /\ UNCHANGED <<enclaveVars, snapshot, journal, last, made, stops, confirmed, spoilt>>

\* The host's answer arrives: the place is flushed and the writer moves on.
HearKept ==
  /\ awaiting # Nobody
  /\ asks[awaiting].at = "kept"
  /\ LET mark == Place(Head(queue))
     IN flushed' = IF Before(flushed, mark) THEN mark ELSE flushed
  /\ confirmed' = confirmed \cup ChangesIn(Head(queue).data)
  /\ queue' = Tail(queue)
  /\ asks' = [asks EXCEPT ![awaiting] = NoAsk]
  /\ awaiting' = Nobody
  /\ UNCHANGED <<phase, read, book, kept, snapshot, journal, last, made, stops, spoilt>>

\* A bug: a job the host did not answer for is left out instead of offered again.
GiveUp_Drops ==
  /\ awaiting # Nobody
  /\ asks[awaiting].at \in {"kept", "refused"}
  /\ asks' = [asks EXCEPT ![awaiting] = NoAsk]
  /\ awaiting' = Nobody
  /\ queue' = Tail(queue)
  /\ UNCHANGED <<phase, read, book, kept, flushed, snapshot, journal, last, made, stops, confirmed, spoilt>>

\* No answer: it was refused, or lost on the way, or the host is still at it
\* when the time is up.  The same job is offered again.
GiveUp ==
  /\ awaiting # Nobody
  /\ \/ /\ asks[awaiting].at \in {"kept", "refused"}
        /\ asks' = [asks EXCEPT ![awaiting] = NoAsk]
     \/ /\ asks[awaiting].at \notin {"kept", "refused"}
        /\ Late(asks[awaiting].job)
        /\ UNCHANGED asks
  /\ awaiting' = Nobody
  /\ UNCHANGED <<enclaveVars, snapshot, journal, last, made, stops, confirmed, spoilt>>

-----------------------------------------------------------------------------
(* The host.  Each connection is a task of its own.                        *)

\* The connection is done; an answer nobody waits for is not heard.
Answer(s, how) ==
  asks' = [asks EXCEPT ![s] = IF s = awaiting THEN [@ EXCEPT !.at = how] ELSE NoAsk]

Known == IF last = 0 THEN JournalLast(journal) ELSE last
Record(s) == asks[s].job

\* A bug: a record the host has already is written once more.
AddRecord_Again(s) ==
  /\ asks[s].at = "sent"
  /\ ~IsSnapshot(Record(s))
  /\ IF Record(s).num <= Known + 1
     THEN /\ journal' = Append(journal, Record(s))
          /\ last' = Record(s).num
          /\ Answer(s, "kept")
          /\ Spoils(s)
     ELSE /\ last' = Known
          /\ Answer(s, "refused")
          /\ UNCHANGED <<journal, spoilt>>
  /\ UNCHANGED <<enclaveVars, awaiting, snapshot, made, stops, confirmed>>

\* add_record: it holds the lock on `last` throughout.  The generation in
\* front of the record is not looked at.
AddRecord(s) ==
  /\ asks[s].at = "sent"
  /\ ~IsSnapshot(Record(s))
  /\ \/ /\ Record(s).num <= Known                \* had it already
        /\ last' = Known
        /\ Answer(s, "kept")
        /\ UNCHANGED <<journal, spoilt>>
     \/ /\ Record(s).num = Known + 1
        /\ journal' = Append(journal, Record(s))
        /\ last' = Record(s).num
        /\ Answer(s, "kept")
        /\ Spoils(s)
     \/ /\ Record(s).num > Known + 1             \* a gap
        /\ last' = Known
        /\ Answer(s, "refused")
        /\ UNCHANGED <<journal, spoilt>>
  /\ UNCHANGED <<enclaveVars, awaiting, snapshot, made, stops, confirmed>>

\* add_record, when one of its writes fails: what was written stays.  (Bound:
\* one broken write lies in a journal.)
TornAppend(s) ==
  /\ "torn_write" \in Faults
  /\ \A i \in 1..Len(journal) : ~IsTorn(journal[i])
  /\ asks[s].at = "sent"
  /\ ~IsSnapshot(Record(s))
  /\ Record(s).num = Known + 1
  /\ journal' = Append(journal, Torn(Record(s)))
  /\ last' = Known
  /\ Answer(s, "refused")
  /\ Spoils(s)
  /\ UNCHANGED <<enclaveVars, awaiting, snapshot, made, stops, confirmed>>

\* put_snapshot: written beside the old one and renamed over it ...
Rename(s) ==
  /\ asks[s].at = "sent"
  /\ IsSnapshot(Record(s))
  /\ snapshot' = Record(s)
  /\ Spoils(s)
  /\ asks' = [asks EXCEPT ![s].at = "renamed"]
  /\ UNCHANGED <<enclaveVars, awaiting, journal, last, made, stops, confirmed>>

\* ... then the journal removed ...
RemoveJournal(s) ==
  /\ asks[s].at = "renamed"
  /\ journal' = <<>>
  /\ asks' = [asks EXCEPT ![s].at = "removed"]
  /\ Spoils(s)
  /\ UNCHANGED <<enclaveVars, awaiting, snapshot, last, made, stops, confirmed>>

\* A bug: the host goes on counting where the removed journal ended.
Forget_Remembers(s) ==
  /\ asks[s].at = "removed"
  /\ Answer(s, "kept")
  /\ UNCHANGED <<enclaveVars, awaiting, snapshot, journal, last, made, stops, confirmed, spoilt>>

\* ... and the last record forgotten with it.
Forget(s) ==
  /\ asks[s].at = "removed"
  /\ last' = 0
  /\ Answer(s, "kept")
  /\ UNCHANGED <<enclaveVars, awaiting, snapshot, journal, made, stops, confirmed, spoilt>>

\* The request never arrives whole, or the host's first call for it fails: nothing
\* is done.  Or the journal cannot be removed: the snapshot stays renamed.
Fails(s) ==
  /\ \/ /\ asks[s].at = "sent"
        /\ last' \in IF IsSnapshot(Record(s)) THEN {last} ELSE {last, Known}
     \/ /\ asks[s].at = "renamed" /\ "failed_removal" \in Faults
        /\ UNCHANGED last
  /\ Answer(s, "refused")
  /\ UNCHANGED <<enclaveVars, awaiting, snapshot, journal, made, stops, confirmed, spoilt>>

\* The host's process stops and starts again: its connections break off.
HostStop ==
  /\ stops < MaxStops
  /\ "mid_fold_stop" \in Faults \/ \A s \in Slots : asks[s].at # "renamed"
  /\ stops' = stops + 1
  /\ asks' = [s \in Slots |-> NoAsk]
  /\ awaiting' = Nobody
  /\ last' = 0
  /\ UNCHANGED <<enclaveVars, snapshot, journal, made, confirmed, spoilt>>

-----------------------------------------------------------------------------
Host(s) == AddRecord(s) \/ TornAppend(s) \/ Rename(s) \/ RemoveJournal(s) \/ Forget(s)

Next ==
  \/ ReadSnapshot \/ Open \/ EnclaveStop \/ HostStop
  \/ \E k \in 1..MaxBatch : Change(k)
  \/ \E s \in Slots : Offer(s) \/ Host(s) \/ Fails(s)
  \/ HearKept \/ GiveUp

Spec == Init /\ [][Next]_vars

\* The enclave is started again and the writer never stops trying (every exchange has a
\* timeout); any exchange may fail or take too long, and not all of them do.
Fairness ==
  /\ WF_vars(ReadSnapshot) /\ WF_vars(Open)
  /\ WF_vars(\E s \in Slots : Offer(s))
  /\ WF_vars(\E s \in Slots \ {awaiting} : Host(s))
  /\ SF_vars(\E s \in Slots \cap {awaiting} : AddRecord(s))
  /\ SF_vars(\E s \in Slots \cap {awaiting} : Rename(s))
  /\ SF_vars(\E s \in Slots \cap {awaiting} : RemoveJournal(s))
  /\ SF_vars(\E s \in Slots \cap {awaiting} : Forget(s))
  /\ SF_vars(HearKept) /\ WF_vars(GiveUp)

FairSpec == Spec /\ Fairness

-----------------------------------------------------------------------------
(* Properties.                                                             *)

Jobs == [gen : Nat, num : Nat, data : Seq(1..MaxChanges)]
Stages == {"idle", "sent", "renamed", "removed", "kept", "refused"}

\* Every variable holds a value of its kind: what the enclave and the host keep
\* (Kept of ledger.rs, the host's data directory) are places, jobs and changes.
TypeOK ==
  /\ phase \in {"down", "opening", "up", "refused"}
  /\ read \in Jobs
  /\ book \in Seq(1..MaxChanges)
  /\ kept \in [generation : Nat, next : Nat \ {0}, since : Nat]
  /\ queue \in Seq(Jobs)
  /\ flushed \in Nat \X Nat
  /\ awaiting \in Slots \cup {Nobody}
  /\ asks \in [Slots -> [job : Jobs, at : Stages]]
  /\ snapshot \in Jobs
  /\ journal \in Seq(Jobs)
  /\ last \in Nat
  /\ made \in 0..MaxChanges
  /\ stops \in 0..MaxStops
  /\ confirmed \subseteq 1..MaxChanges
  /\ spoilt \subseteq {"late", "behind"}

Generation == IF snapshot = NoJob THEN 1 ELSE snapshot.gen

\* A fold is half done: the snapshot is in its place, and the journal beside it is the
\* one it has taken in.
HalfFolded == snapshot # NoJob /\ Opens(snapshot.gen - 1, journal)

\* What the host's disk holds of the book: the snapshot, and the journal if it follows
\* on it.
OnDisk == IF Opens(Generation, journal) THEN Replay(snapshot.data, journal) ELSE snapshot.data

\* At every moment at which a start can come, the book on the host's disk opens - through
\* folds, records offered again, broken writes and stops of either side - unless a fold
\* is half done.
DiskOpens == spoilt = {} => Opens(Generation, journal) \/ HalfFolded

\* What put_snapshot is said to do, "together, so a restart in the middle finds either the
\* old pair or the new one" (state.rs): the enclave never refuses its book.
OldPairOrNew == phase # "refused"

\* A change whose place has been marked flushed - what a purchase, a note or a plan waits
\* for before it is answered - is on the disk from then on, a half-done fold included.
FoundAgain == \A c \in confirmed : \E i \in 1..Len(OnDisk) : OnDisk[i] = c
ConfirmedKept == spoilt = {} => FoundAgain

\* What is on the disk is a beginning of the book in memory: nothing twice,
\* nothing left out, nothing out of order.
DiskIsPrefix ==
  spoilt = {} =>
    /\ Len(OnDisk) <= Len(book)
    /\ OnDisk = SubSeq(book, 1, Len(OnDisk))

\* Whatever the host does late, torn or half, a book that opens holds no change
\* twice: a record repeated, or left over from an older snapshot, does not open.
NothingTwice ==
  \A i, j \in 1..Len(OnDisk) : i # j => OnDisk[i] # OnDisk[j]

\* The book, its writer and the host together keep the promise of DurableBook: through
\* folds, whole or half done, lost answers, offers made twice, broken writes and stops
\* of either side, until something has spoilt the host's files.
Durable == INSTANCE DurableBook WITH
  Changes <- 1..MaxChanges, running <- phase = "up", line <- book,
  disk <- OnDisk, sure <- confirmed, broken <- spoilt # {}
KeepsThePromise == Durable!DurableSpec

\* What is written down is confirmed in the end, unless the enclave stops first.
Written(c) == \E i \in 1..Len(book) : book[i] = c
EverythingFlushed ==
  \A c \in 1..MaxChanges :
    (phase = "up" /\ Written(c)) ~> (c \in confirmed \/ phase # "up" \/ spoilt # {})

=============================================================================
