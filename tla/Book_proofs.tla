----------------------------- MODULE Book_proofs -----------------------------
(***************************************************************************)
(* What holds of Book for every number of connections, changes and stops,  *)
(* and for every fault of the host: the kinds of its variables, and that a *)
(* book that opens holds no change twice.  And, until something has spoilt *)
(* the host's files: that its disk opens, that a start finds all that was  *)
(* confirmed, and that what it finds is a beginning of the book there was. *)
(***************************************************************************)
EXTENDS Book, SequenceTheorems, TLAPS

LEMMA FunctionIsSeq ==
  ASSUME NEW S, NEW n \in Nat, NEW f \in [1..n -> S]
  PROVE  f \in Seq(S) /\ Len(f) = n
  OBVIOUS

LEMMA EmptyIsSeq == ASSUME NEW S PROVE <<>> \in Seq(S)
  OBVIOUS

LEMMA SingleIsSeq == ASSUME NEW S, NEW x \in S PROVE <<x>> \in Seq(S)
  OBVIOUS

LEMMA ConcatIsEmpty ==
  ASSUME NEW S, NEW s \in Seq(S), NEW t \in Seq(S), NEW u \in Seq(S), s \o t \o u = <<>>
  PROVE  s = <<>>
<1>1. s \o t \in Seq(S)
  BY ConcatProperties
<1>2. s \o t = <<>>
  BY <1>1, ConcatEqualIffEmpty
<1> QED
  BY <1>2, ConcatEqualIffEmpty

LEMMA JobType ==
  ASSUME NEW g \in Nat, NEW n \in Nat, NEW d \in Seq(1..MaxChanges)
  PROVE  Job(g, n, d) \in Jobs
  BY DEF Job, Jobs

LEMMA NoJobType == NoJob \in Jobs
  BY EmptyIsSeq, JobType DEF NoJob

LEMMA TornType == ASSUME NEW r \in Jobs PROVE Torn(r) \in Jobs
  BY EmptyIsSeq DEF Torn, Jobs

LEMMA ChangesInType ==
  ASSUME NEW rows \in Seq(1..MaxChanges)
  PROVE  ChangesIn(rows) \subseteq 1..MaxChanges
  BY ElementOfSeq DEF ChangesIn

\* The first n of a sequence.
LEMMA FirstOf ==
  ASSUME NEW S, NEW s \in Seq(S), NEW n \in 0..Len(s)
  PROVE  /\ SubSeq(s, 1, n) \in Seq(S)
         /\ Len(SubSeq(s, 1, n)) = n
         /\ \A i \in 1..n : SubSeq(s, 1, n)[i] = s[i]
<1>1. n \in Nat /\ \A i \in 1..n : s[i] \in S
  BY ElementOfSeq
<1>2. /\ SubSeq(s, 1, n) \in Seq(S)
      /\ Len(SubSeq(s, 1, n)) = IF 1 <= n THEN n - 1 + 1 ELSE 0
      /\ \A i \in 1..(n - 1 + 1) : SubSeq(s, 1, n)[i] = s[1 + i - 1]
  BY <1>1, SubSeqProperties
<1>3. ASSUME NEW i \in 1..n PROVE SubSeq(s, 1, n)[i] = s[i]
  <2>1. i \in 1..(n - 1 + 1) /\ 1 + i - 1 = i
    BY <1>1
  <2> QED
    BY <1>2, <2>1
<1> QED
  BY <1>1, <1>2, <1>3

LEMMA WholeType ==
  ASSUME NEW j \in Seq(Jobs)
  PROVE  /\ Whole(j) \in Seq(Jobs)
         /\ Len(Whole(j)) = IF EndsTorn(j) THEN Len(j) - 1 ELSE Len(j)
         /\ Len(Whole(j)) \in 0..Len(j)
<1>1. Len(j) \in Nat
  OBVIOUS
<1>2. CASE ~EndsTorn(j)
  BY <1>1, <1>2 DEF Whole
<1>3. CASE EndsTorn(j)
  <2>1. Whole(j) = SubSeq(j, 1, Len(j) - 1) /\ Len(j) - 1 \in 0..Len(j)
    BY <1>1, <1>3, EmptySeq DEF Whole, EndsTorn
  <2>2. ASSUME NEW n \in 0..Len(j) PROVE SubSeq(j, 1, n) \in Seq(Jobs) /\ Len(SubSeq(j, 1, n)) = n
    BY FirstOf
  <2> QED
    BY <1>3, <2>1, <2>2
<1> QED
  BY <1>2, <1>3

LEMMA JournalLastType ==
  ASSUME NEW j \in Seq(Jobs)
  PROVE  JournalLast(j) \in Nat
<1> DEFINE broken == {i \in 1..(Len(j) - 1) : IsTorn(j[i])}
<1>1. ASSUME NEW i \in 1..Len(j) PROVE j[i].num \in Nat
  <2>1. j[i] \in Jobs
    BY ElementOfSeq
  <2> QED
    BY <2>1 DEF Jobs
<1>2. CASE broken # {}
  <2>1. (CHOOSE i \in broken : TRUE) \in 1..Len(j)
    <3>1. (CHOOSE i \in broken : TRUE) \in broken
      BY <1>2
    <3> QED
      BY <3>1
  <2> QED
    BY <1>1, <1>2, <2>1 DEF JournalLast
<1>3. CASE broken = {} /\ Whole(j) = <<>>
  BY <1>3 DEF JournalLast
<1>4. CASE broken = {} /\ Whole(j) # <<>>
  <2>1. Whole(j) \in Seq(Jobs) /\ Len(Whole(j)) \in 0..Len(j)
    BY WholeType
  <2>2. Len(Whole(j)) # 0
    BY <1>4, <2>1, EmptySeq
  <2>3. Len(Whole(j)) \in 1..Len(j)
    BY <2>1, <2>2
  <2> QED
    BY <1>1, <1>4, <2>3 DEF JournalLast
<1> QED
  BY <1>2, <1>3, <1>4

LEMMA ReplayType ==
  ASSUME NEW g \in Nat, NEW rows \in Seq(1..MaxChanges), NEW j \in Seq(Jobs), Opens(g, j)
  PROVE  Replay(rows, j) \in Seq(1..MaxChanges)
<1> DEFINE n == Len(Whole(j))
           replayed == [i \in 1..n |-> j[i].data[1]]
<1>1. n \in 0..Len(j)
  BY WholeType
<1>2. ASSUME NEW i \in 1..n PROVE j[i].data[1] \in 1..MaxChanges
  <2>1. j[i] \in Jobs /\ j[i].data # <<>>
    BY <1>1, ElementOfSeq DEF Opens, IsTorn
  <2>2. j[i].data \in Seq(1..MaxChanges)
    BY <2>1 DEF Jobs
  <2>3. 1 \in 1..Len(j[i].data)
    BY <2>1, <2>2, EmptySeq
  <2> QED
    BY <2>2, <2>3, ElementOfSeq
<1>3. replayed \in [1..n -> 1..MaxChanges]
  BY <1>2
<1>4. replayed \in Seq(1..MaxChanges)
  BY <1>1, <1>3, FunctionIsSeq
<1> QED
  BY <1>4, ConcatProperties DEF Replay

-----------------------------------------------------------------------------
(* Type correctness.  It needs that the writer waits only while there is a  *)
(* job to wait for: an answer takes the head off the queue.                 *)

WaitsForAJob == awaiting # Nobody => phase = "up" /\ queue # <<>>

TypeInv == TypeOK /\ WaitsForAJob

Asks == [job : Jobs, at : Stages]

LEMMA AnswerType ==
  ASSUME TypeOK, NEW s \in Slots, NEW how \in Stages, Answer(s, how)
  PROVE  asks' \in [Slots -> Asks]
<1>1. NoAsk \in Asks
  BY NoJobType DEF NoAsk, Asks, Stages
<1>2. [asks[s] EXCEPT !.at = how] \in Asks
  BY DEF TypeOK, Asks
<1>3. asks \in [Slots -> Asks]
  BY DEF TypeOK, Asks
<1> QED
  BY <1>1, <1>2, <1>3 DEF Answer

LEMMA KnownType == ASSUME TypeOK PROVE Known \in Nat
  BY JournalLastType DEF TypeOK, Known

\* What has spoilt the host's files is never forgotten.
LEMMA SpoiltGrows ==
  ASSUME [Next]_vars
  PROVE  /\ spoilt \subseteq spoilt'
         /\ spoilt' \subseteq spoilt \cup {"late", "behind"}
<1>1. CASE UNCHANGED vars
  BY <1>1 DEF vars
<1>2. ASSUME NEW s \in Slots, Host(s)
      PROVE  /\ spoilt \subseteq spoilt'
             /\ spoilt' \subseteq spoilt \cup {"late", "behind"}
  BY <1>2 DEF Host, AddRecord, TornAppend, Rename, RemoveJournal, Forget, Spoils
<1>3. CASE Next
  BY <1>2, <1>3 DEF Next, ReadSnapshot, Open, EnclaveStop, HostStop, Change, Offer, Fails, HearKept, GiveUp
<1> QED
  BY <1>1, <1>3

LEMMA InitType == Init => TypeInv
<1> SUFFICES ASSUME Init PROVE TypeInv
  OBVIOUS
<1>1. NoAsk \in [job : Jobs, at : Stages]
  BY NoJobType DEF NoAsk, Stages
<1>2. kept \in [generation : Nat, next : Nat \ {0}, since : Nat]
  BY DEF Init, FreshKept
<1>3. queue \in Seq(Jobs) /\ journal \in Seq(Jobs) /\ book \in Seq(1..MaxChanges)
  BY EmptyIsSeq DEF Init
<1> QED
  BY <1>1, <1>2, <1>3, NoJobType, BookAssumption DEF Init, TypeInv, TypeOK, WaitsForAJob

LEMMA OpenType ==
  ASSUME TypeInv, Open
  PROVE  TypeInv'
<1> USE DEF TypeInv, TypeOK, hostVars
<1> DEFINE generation == IF read = NoJob THEN 1 ELSE read.gen
           replayed == Len(Whole(journal))
           rows == Replay(read.data, journal)
<1>1. generation \in Nat /\ replayed \in Nat /\ read.data \in Seq(1..MaxChanges)
  BY WholeType DEF Jobs
<1>2. CASE ~Opens(generation, journal)
  <2>1. /\ phase' = "refused" /\ read' = NoJob
        /\ UNCHANGED <<book, kept, queue, flushed, confirmed, awaiting, hostVars, made, stops, spoilt>>
    BY <1>2 DEF Open
  <2>2. awaiting = Nobody
    BY DEF Open, WaitsForAJob
  <2> QED
    BY <2>1, <2>2, NoJobType DEF WaitsForAJob
<1>3. CASE Opens(generation, journal)
  <2>1. rows \in Seq(1..MaxChanges)
    BY <1>1, <1>3, ReplayType
  <2>2. /\ phase' = "up" /\ read' = NoJob /\ book' = rows
        /\ flushed' = <<generation, replayed>>
        /\ kept' = IF Folds THEN FreshKept(generation + 1)
                   ELSE [generation |-> generation, next |-> replayed + 1, since |-> replayed]
        /\ queue' = IF Folds THEN <<Job(generation + 1, 0, rows)>> ELSE <<>>
        /\ confirmed' = confirmed \cup ChangesIn(rows)
        /\ UNCHANGED <<awaiting, hostVars, made, stops, spoilt>>
    BY <1>3 DEF Open
  <2>3. confirmed' \subseteq 1..MaxChanges
    BY <2>1, <2>2, ChangesInType
  <2>4. Job(generation + 1, 0, rows) \in Jobs
    <3> HIDE DEF TypeInv, TypeOK, generation, rows
    <3>1. generation + 1 \in Nat
      BY <1>1
    <3> QED
      BY <2>1, <3>1, JobType
  <2>5. queue' \in Seq(Jobs)
    BY <2>2, <2>4, SingleIsSeq, EmptyIsSeq
  <2>6. kept' \in [generation : Nat, next : Nat \ {0}, since : Nat]
    <3> \A n \in Nat : n + 1 \in Nat /\ n + 1 # 0
      OBVIOUS
    <3>1. generation + 1 \in Nat /\ replayed + 1 \in Nat \ {0}
      BY <1>1, Zenon
    <3> HIDE DEF TypeInv, TypeOK, generation, replayed
    <3> QED
      BY <1>1, <2>2, <3>1 DEF FreshKept
  <2>7. awaiting' = Nobody
    BY <2>2 DEF Open, WaitsForAJob
  <2> QED
    BY <1>1, <2>1, <2>2, <2>3, <2>5, <2>6, <2>7, NoJobType DEF WaitsForAJob
<1> QED
  BY <1>2, <1>3

LEMMA ChangeType ==
  ASSUME TypeInv, NEW k \in 1..MaxBatch, Change(k)
  PROVE  TypeInv'
<1> USE DEF TypeInv, TypeOK, hostVars
<1> DEFINE new == [i \in 1..k |-> made + i]
           records == [i \in 1..k |-> Job(kept.generation, kept.next + i - 1, <<made + i>>)]
           full == kept.since + k >= SnapshotEvery
           fold == Job(kept.generation + 1, 0, book \o new)
           after == IF full THEN <<fold>> ELSE <<>>
<1>1. /\ k \in Nat /\ made \in Nat /\ made + k <= MaxChanges /\ MaxChanges \in Nat
      /\ kept.generation \in Nat /\ kept.next \in Nat \ {0} /\ kept.since \in Nat
  BY BookAssumption DEF Change
<1>2. \A i \in 1..k : made + i \in 1..MaxChanges
  BY <1>1
<1>3. new \in Seq(1..MaxChanges)
  BY <1>1, <1>2, FunctionIsSeq
<1>4. book \o new \in Seq(1..MaxChanges)
  BY <1>3, ConcatProperties
<1>5. fold \in Jobs
  <2>1. kept.generation + 1 \in Nat /\ 0 \in Nat
    BY <1>1
  <2> HIDE DEF new
  <2> QED
    BY <1>4, <2>1, JobType
<1>6. \A i \in 1..k : Job(kept.generation, kept.next + i - 1, <<made + i>>) \in Jobs
  <2> TAKE i \in 1..k
  <2>1. <<made + i>> \in Seq(1..MaxChanges)
    BY <1>2, SingleIsSeq
  <2>2. kept.next + i - 1 \in Nat
    BY <1>1
  <2> QED
    BY <1>1, <2>1, <2>2, JobType
<1>7. records \in Seq(Jobs)
  BY <1>1, <1>6, FunctionIsSeq
<1>8. after \in Seq(Jobs)
  BY <1>5, SingleIsSeq, EmptyIsSeq
<1>9. queue' \in Seq(Jobs)
  <2>1. queue' = queue \o records \o after
    BY DEF Change, Fold
  <2>2. queue \o records \in Seq(Jobs)
    BY <1>7, ConcatProperties
  <2> QED
    BY <1>8, <2>1, <2>2, ConcatProperties
<1>10. kept' \in [generation : Nat, next : Nat \ {0}, since : Nat]
  <2>1. kept' = IF full THEN FreshKept(kept.generation + 1)
                ELSE [kept EXCEPT !.next = @ + k, !.since = @ + k]
    BY DEF Change
  <2> HIDE DEF full
  <2>2. CASE full
    <3> HIDE DEF TypeInv, TypeOK
    <3> QED
      BY <1>1, <2>1, <2>2 DEF FreshKept
  <2>3. CASE ~full
    <3>1. kept' = [kept EXCEPT !.next = @ + k, !.since = @ + k]
      BY <2>1, <2>3
    <3>2. kept \in [generation : Nat, next : Nat \ {0}, since : Nat]
      OBVIOUS
    <3> HIDE DEF TypeInv, TypeOK
    <3>3. kept.next + k \in Nat \ {0} /\ kept.since + k \in Nat
      BY <1>1
    <3> QED
      BY <3>1, <3>2, <3>3
  <2> QED
    BY <2>2, <2>3
<1>11. WaitsForAJob'
  <2>1. awaiting # Nobody => queue # <<>>
    BY DEF WaitsForAJob
  <2>2. queue' = queue \o records \o after /\ phase' = "up" /\ awaiting' = awaiting
    BY DEF Change, Fold
  <2> HIDE DEF records, after
  <2>3. queue \in Seq(Jobs)
    OBVIOUS
  <2>4. queue \o records \o after = <<>> => queue = <<>>
    BY <1>7, <1>8, <2>3, ConcatIsEmpty
  <2> QED
    BY <2>1, <2>2, <2>4 DEF WaitsForAJob
<1>12. made' \in 0..MaxChanges
  <2>1. made' = made + k
    BY DEF Change
  <2> QED
    BY <1>1, <2>1
<1>13. book' \in Seq(1..MaxChanges)
  <2>1. book' = book \o new
    BY DEF Change
  <2> HIDE DEF new
  <2> QED
    BY <1>4, <2>1
<1>14. UNCHANGED <<phase, read, flushed, awaiting, hostVars, stops, confirmed, spoilt>>
  BY DEF Change
<1> QED
  BY <1>9, <1>10, <1>11, <1>12, <1>13, <1>14

LEMMA EnclaveType ==
  ASSUME TypeInv, ReadSnapshot \/ EnclaveStop
  PROVE  TypeInv'
<1>1. CASE ReadSnapshot
  BY <1>1 DEF ReadSnapshot, TypeInv, TypeOK, WaitsForAJob, hostVars
<1>2. CASE EnclaveStop
  <2>1. /\ phase' = "down" /\ read' = NoJob
        /\ awaiting' = Nobody /\ stops < MaxStops /\ stops' = stops + 1
        /\ UNCHANGED <<book, kept, queue, flushed, snapshot, journal, last, made, confirmed, spoilt>>
    BY <1>2 DEF EnclaveStop
  <2>2. asks' \in [Slots -> Asks]
    <3>1. asks' \in {asks, [asks EXCEPT ![awaiting] = NoAsk]}
      BY <1>2 DEF EnclaveStop
    <3>2. asks \in [Slots -> Asks] /\ NoAsk \in Asks
      BY NoJobType DEF TypeInv, TypeOK, Asks, NoAsk, Stages
    <3> QED
      BY <3>1, <3>2
  <2>3. stops' \in 0..MaxStops
    BY <2>1, BookAssumption DEF TypeInv, TypeOK
  <2> QED
    BY <2>1, <2>2, <2>3, NoJobType
    DEF TypeInv, TypeOK, WaitsForAJob, Asks
<1> QED
  BY <1>1, <1>2

LEMMA WriterType ==
  ASSUME TypeInv, (\E s \in Slots : Offer(s)) \/ HearKept \/ GiveUp
  PROVE  TypeInv'
<1>1. asks \in [Slots -> Asks] /\ NoAsk \in Asks
  BY NoJobType DEF TypeInv, TypeOK, Asks, NoAsk, Stages
<1>2. ASSUME NEW s \in Slots, Offer(s) PROVE TypeInv'
  <2>1. Head(queue) \in Jobs
    BY <1>2, HeadTailProperties DEF Offer, TypeInv, TypeOK
  <2>2. [job |-> Head(queue), at |-> "sent"] \in Asks
    BY <2>1 DEF Asks, Stages
  <2>3. asks' \in [Slots -> Asks] /\ awaiting' = s
    BY <1>1, <1>2, <2>2 DEF Offer
  <2>4. /\ phase = "up" /\ queue # <<>>
        /\ UNCHANGED <<enclaveVars, snapshot, journal, last, made, stops, confirmed, spoilt>>
    BY <1>2 DEF Offer
  <2> QED
    BY <2>3, <2>4 DEF TypeInv, TypeOK, WaitsForAJob, enclaveVars, Asks
<1>3. CASE HearKept
  <2>1. queue \in Seq(Jobs) /\ queue # <<>>
    BY <1>3 DEF HearKept, TypeInv, TypeOK, WaitsForAJob
  <2>2. Head(queue) \in Jobs /\ Tail(queue) \in Seq(Jobs)
    BY <2>1, HeadTailProperties
  <2>3. Place(Head(queue)) \in Nat \X Nat /\ Head(queue).data \in Seq(1..MaxChanges)
    BY <2>2 DEF Place, Jobs
  <2>4. flushed' \in Nat \X Nat
    BY <1>3, <2>3 DEF HearKept, TypeInv, TypeOK
  <2>5. confirmed' \subseteq 1..MaxChanges
    BY <1>3, <2>3, ChangesInType DEF HearKept, TypeInv, TypeOK
  <2>6. asks' \in [Slots -> Asks] /\ awaiting' = Nobody /\ queue' \in Seq(Jobs)
    BY <1>1, <1>3, <2>2 DEF HearKept
  <2>7. UNCHANGED <<phase, read, book, kept, snapshot, journal, last, made, stops, spoilt>>
    BY <1>3 DEF HearKept
  <2> QED
    BY <2>4, <2>5, <2>6, <2>7 DEF TypeInv, TypeOK, WaitsForAJob, Asks
<1>4. CASE GiveUp
  <2>1. asks' \in [Slots -> Asks] /\ awaiting' = Nobody
    BY <1>1, <1>4 DEF GiveUp
  <2>2. UNCHANGED <<enclaveVars, snapshot, journal, last, made, stops, confirmed, spoilt>>
    BY <1>4 DEF GiveUp
  <2> QED
    BY <2>1, <2>2 DEF TypeInv, TypeOK, WaitsForAJob, enclaveVars, Asks
<1> QED
  BY <1>2, <1>3, <1>4

\* A step of the host is one of its tasks', or its stop.
LEMMA HostType ==
  ASSUME TypeInv, (\E s \in Slots : Host(s) \/ Fails(s)) \/ HostStop, Next
  PROVE  TypeInv'
<1>1. asks \in [Slots -> Asks] /\ NoAsk \in Asks
  BY NoJobType DEF TypeInv, TypeOK, Asks, NoAsk, Stages
<1>2. {"kept", "refused", "renamed", "removed"} \subseteq Stages
  BY DEF Stages
<1>3. Known \in Nat /\ TypeOK /\ WaitsForAJob /\ journal \in Seq(Jobs)
  BY KnownType DEF TypeInv, TypeOK
<1>4. ASSUME NEW s \in Slots PROVE Record(s) \in Jobs
  BY <1>1 DEF Record, Asks
<1>5. ASSUME asks' \in [Slots -> Asks], snapshot' \in Jobs, journal' \in Seq(Jobs),
             last' \in Nat, Next, UNCHANGED <<enclaveVars, awaiting, made, stops, confirmed>>
      PROVE  TypeInv'
  BY <1>5, SpoiltGrows DEF TypeInv, TypeOK, WaitsForAJob, enclaveVars, Asks
<1>6. ASSUME NEW s \in Slots, AddRecord(s) PROVE TypeInv'
  <2>1. asks' \in [Slots -> Asks]
    BY <1>2, <1>3, <1>6, AnswerType DEF AddRecord
  <2>2. journal' \in Seq(Jobs)
    BY <1>3, <1>4, <1>6 DEF AddRecord
  <2>3. last' \in Nat
    BY <1>3, <1>4, <1>6 DEF AddRecord, Jobs
  <2>4. snapshot' \in Jobs /\ UNCHANGED <<enclaveVars, awaiting, made, stops, confirmed>>
    BY <1>3, <1>6 DEF AddRecord, TypeOK
  <2> QED
    BY <1>5, <2>1, <2>2, <2>3, <2>4
<1>7. ASSUME NEW s \in Slots, TornAppend(s) PROVE TypeInv'
  <2>1. asks' \in [Slots -> Asks]
    BY <1>2, <1>3, <1>7, AnswerType DEF TornAppend
  <2>2. Torn(Record(s)) \in Jobs
    BY <1>4, TornType
  <2>3. journal' \in Seq(Jobs) /\ last' \in Nat
    BY <1>3, <1>7, <2>2 DEF TornAppend
  <2>4. snapshot' \in Jobs /\ UNCHANGED <<enclaveVars, awaiting, made, stops, confirmed>>
    BY <1>3, <1>7 DEF TornAppend, TypeOK
  <2> QED
    BY <1>5, <2>1, <2>3, <2>4
<1>8. ASSUME NEW s \in Slots, Rename(s) PROVE TypeInv'
  <2>1. asks' \in [Slots -> Asks]
    BY <1>1, <1>2, <1>8 DEF Rename, Asks
  <2>2. snapshot' \in Jobs
    BY <1>4, <1>8 DEF Rename
  <2>3. /\ journal' \in Seq(Jobs) /\ last' \in Nat
        /\ UNCHANGED <<enclaveVars, awaiting, made, stops, confirmed>>
    BY <1>3, <1>8 DEF Rename, TypeOK
  <2> QED
    BY <1>5, <2>1, <2>2, <2>3
<1>9. ASSUME NEW s \in Slots, RemoveJournal(s) PROVE TypeInv'
  <2>1. asks' \in [Slots -> Asks]
    BY <1>1, <1>2, <1>9 DEF RemoveJournal, Asks
  <2>2. /\ journal' \in Seq(Jobs) /\ snapshot' \in Jobs /\ last' \in Nat
        /\ UNCHANGED <<enclaveVars, awaiting, made, stops, confirmed>>
    BY <1>3, <1>9, EmptyIsSeq DEF RemoveJournal, TypeOK
  <2> QED
    BY <1>5, <2>1, <2>2
<1>10. ASSUME NEW s \in Slots, Forget(s) PROVE TypeInv'
  <2>1. asks' \in [Slots -> Asks]
    BY <1>2, <1>3, <1>10, AnswerType DEF Forget
  <2>2. /\ journal' \in Seq(Jobs) /\ snapshot' \in Jobs /\ last' \in Nat
        /\ UNCHANGED <<enclaveVars, awaiting, made, stops, confirmed>>
    BY <1>3, <1>10 DEF Forget, TypeOK
  <2> QED
    BY <1>5, <2>1, <2>2
<1>11. CASE HostStop
  <2>1. /\ asks' = [s \in Slots |-> NoAsk] /\ awaiting' = Nobody /\ last' = 0
        /\ stops < MaxStops /\ stops' = stops + 1
        /\ UNCHANGED <<enclaveVars, snapshot, journal, made, confirmed, spoilt>>
    BY <1>11 DEF HostStop
  <2>2. asks' \in [Slots -> Asks]
    BY <1>1, <2>1
  <2>3. stops' \in 0..MaxStops
    BY <1>3, <2>1, BookAssumption DEF TypeOK
  <2> QED
    BY <2>1, <2>2, <2>3 DEF TypeInv, TypeOK, WaitsForAJob, enclaveVars, Asks
<1>12. ASSUME NEW s \in Slots, Fails(s) PROVE TypeInv'
  <2>1. asks' \in [Slots -> Asks]
    BY <1>2, <1>3, <1>12, AnswerType DEF Fails
  <2>2. /\ journal' \in Seq(Jobs) /\ snapshot' \in Jobs /\ last' \in Nat
        /\ UNCHANGED <<enclaveVars, awaiting, made, stops, confirmed>>
    BY <1>3, <1>12 DEF Fails, TypeOK
  <2> QED
    BY <1>5, <2>1, <2>2
<1> QED
  BY <1>6, <1>7, <1>8, <1>9, <1>10, <1>11, <1>12 DEF Host

LEMMA StepType == TypeInv /\ [Next]_vars => TypeInv'
<1> SUFFICES ASSUME TypeInv, [Next]_vars PROVE TypeInv'
  OBVIOUS
<1>1. CASE UNCHANGED vars
  BY <1>1 DEF vars, TypeInv, TypeOK, WaitsForAJob
<1>2. CASE Next
  BY <1>2, OpenType, ChangeType, EnclaveType, WriterType, HostType DEF Next
<1> QED
  BY <1>1, <1>2

\* The enclave, its writer and the host keep every variable in its kind, with
\* whatever faults the host has: no place, record or answer leaves its type.
THEOREM BookTypeCorrect == Spec => []TypeOK
<1>1. TypeInv => TypeOK
  BY DEF TypeInv
<1> QED
  BY <1>1, InitType, StepType, PTL DEF Spec

-----------------------------------------------------------------------------
(* Nothing twice, whatever the host does late, torn or half.  A change is   *)
(* sealed to one place, once, and is in a snapshot only of a later          *)
(* generation: so a snapshot with records of its own generation in their    *)
(* places holds no change twice, from whichever run of the enclave they are. *)

AllJobs ==
  {queue[i] : i \in 1..Len(queue)} \cup {asks[s].job : s \in Slots}
    \cup {journal[i] : i \in 1..Len(journal)} \cup {snapshot, read}
IsRecord(job) == ~IsSnapshot(job)
NoRepeat(rows) == \A i, j \in 1..Len(rows) : i # j => rows[i] # rows[j]
Share(rows, others) == ChangesIn(rows) \cap ChangesIn(others) # {}

JobFits(job) ==
  /\ IsRecord(job) => Len(job.data) <= 1
  /\ ChangesIn(job.data) \subseteq 1..made
  /\ NoRepeat(job.data)
Home(record, job) ==
  IsRecord(record) /\ Share(record.data, job.data) =>
    IF IsRecord(job) THEN Place(record) = Place(job) ELSE record.gen < job.gen
BookFits ==
  phase = "up" =>
    /\ ChangesIn(book) \subseteq 1..made
    /\ NoRepeat(book)
    /\ \A job \in AllJobs : IsRecord(job) /\ Share(job.data, book) => job.gen <= kept.generation

HomeInv ==
  /\ \A job \in AllJobs : JobFits(job)
  /\ \A job, other \in AllJobs : Home(job, other)
  /\ BookFits
  /\ IsSnapshot(snapshot) /\ IsSnapshot(read)

LEMMA JobsTyped == ASSUME TypeOK PROVE AllJobs \subseteq Jobs
<1>1. \A i \in 1..Len(queue) : queue[i] \in Jobs
  BY ElementOfSeq DEF TypeOK
<1>2. \A i \in 1..Len(journal) : journal[i] \in Jobs
  BY ElementOfSeq DEF TypeOK
<1>3. \A s \in Slots : asks[s].job \in Jobs
  BY DEF TypeOK
<1> QED
  BY <1>1, <1>2, <1>3 DEF AllJobs, TypeOK

LEMMA NothingInEmpty == ChangesIn(<<>>) = {} /\ NoRepeat(<<>>) /\ Len(<<>>) = 0
  BY DEF ChangesIn, NoRepeat

LEMMA ConcatChanges ==
  ASSUME NEW S, NEW r \in Seq(S), NEW t \in Seq(S)
  PROVE  ChangesIn(r \o t) = ChangesIn(r) \cup ChangesIn(t)
<1>1. /\ Len(r \o t) = Len(r) + Len(t) /\ Len(r) \in Nat /\ Len(t) \in Nat
      /\ \A i \in 1..(Len(r) + Len(t)) : (r \o t)[i] = IF i <= Len(r) THEN r[i] ELSE t[i - Len(r)]
  BY ConcatProperties
<1>2. ASSUME NEW i \in 1..Len(r \o t) PROVE (r \o t)[i] \in ChangesIn(r) \cup ChangesIn(t)
  <2>1. CASE i <= Len(r)
    BY <1>1, <2>1 DEF ChangesIn
  <2>2. CASE ~(i <= Len(r))
    <3>1. i - Len(r) \in 1..Len(t)
      BY <1>1, <2>2
    <3> QED
      BY <1>1, <2>2, <3>1 DEF ChangesIn
  <2> QED
    BY <2>1, <2>2
<1>3. ASSUME NEW i \in 1..Len(r) PROVE r[i] \in ChangesIn(r \o t)
  <2>1. i \in 1..Len(r \o t) /\ (r \o t)[i] = r[i]
    BY <1>1
  <2> QED
    BY <2>1 DEF ChangesIn
<1>4. ASSUME NEW i \in 1..Len(t) PROVE t[i] \in ChangesIn(r \o t)
  <2>1. Len(r) + i \in 1..Len(r \o t) /\ ~(Len(r) + i <= Len(r)) /\ Len(r) + i - Len(r) = i
    BY <1>1
  <2>2. (r \o t)[Len(r) + i] = t[i]
    BY <1>1, <2>1
  <2> QED
    BY <2>1, <2>2 DEF ChangesIn
<1>5. ChangesIn(r \o t) \subseteq ChangesIn(r) \cup ChangesIn(t)
  BY <1>2 DEF ChangesIn
<1>6. ChangesIn(r) \subseteq ChangesIn(r \o t) /\ ChangesIn(t) \subseteq ChangesIn(r \o t)
  BY <1>3, <1>4 DEF ChangesIn
<1> QED
  BY <1>5, <1>6

LEMMA ConcatNoRepeat ==
  ASSUME NEW S, NEW r \in Seq(S), NEW t \in Seq(S),
         NoRepeat(r), NoRepeat(t), ~Share(r, t)
  PROVE  NoRepeat(r \o t)
<1>1. /\ Len(r \o t) = Len(r) + Len(t) /\ Len(r) \in Nat /\ Len(t) \in Nat
      /\ \A i \in 1..(Len(r) + Len(t)) : (r \o t)[i] = IF i <= Len(r) THEN r[i] ELSE t[i - Len(r)]
  BY ConcatProperties
<1>2. \A i \in 1..Len(r), j \in 1..Len(t) : r[i] # t[j]
  BY DEF Share, ChangesIn
<1> SUFFICES ASSUME NEW i \in 1..Len(r \o t), NEW j \in 1..Len(r \o t), i # j
             PROVE  (r \o t)[i] # (r \o t)[j]
  BY DEF NoRepeat
<1>3. CASE i <= Len(r) /\ j <= Len(r)
  BY <1>1, <1>3 DEF NoRepeat
<1>4. CASE i <= Len(r) /\ ~(j <= Len(r))
  <2>1. i \in 1..Len(r) /\ j - Len(r) \in 1..Len(t)
    BY <1>1, <1>4
  <2> QED
    BY <1>1, <1>2, <1>4, <2>1
<1>5. CASE ~(i <= Len(r)) /\ j <= Len(r)
  <2>1. j \in 1..Len(r) /\ i - Len(r) \in 1..Len(t)
    BY <1>1, <1>5
  <2> QED
    BY <1>1, <1>2, <1>5, <2>1
<1>6. CASE ~(i <= Len(r)) /\ ~(j <= Len(r))
  <2>1. j - Len(r) \in 1..Len(t) /\ i - Len(r) \in 1..Len(t) /\ i - Len(r) # j - Len(r)
    BY <1>1, <1>6
  <2> QED
    BY <1>1, <1>6, <2>1 DEF NoRepeat
<1> QED
  BY <1>3, <1>4, <1>5, <1>6

\* Most steps carry jobs about, or lose them, or tear them.
LEMMA JobsCarried ==
  ASSUME TypeOK, HomeInv,
         \A job \in AllJobs' : job \in AllJobs \/ job.data = <<>>,
         made' = made,
         phase' = "up" => phase = "up" /\ book' = book /\ kept' = kept,
         IsSnapshot(snapshot)', IsSnapshot(read)'
  PROVE  HomeInv'
<1>1. ASSUME NEW rows, NEW other, other = <<>> PROVE ~Share(rows, other) /\ ~Share(other, rows)
  BY <1>1, NothingInEmpty DEF Share
<1>2. \A job \in AllJobs' : JobFits(job)'
  <2> TAKE job \in AllJobs'
  <2>1. CASE job \in AllJobs
    <3>1. JobFits(job)
      BY <2>1 DEF HomeInv
    <3> QED
      BY <3>1 DEF JobFits
  <2>2. CASE job.data = <<>>
    BY <2>2, NothingInEmpty DEF JobFits
  <2> QED
    BY <2>1, <2>2
<1>3. \A job, other \in AllJobs' : Home(job, other)
  <2> TAKE job, other \in AllJobs'
  <2>1. CASE job \in AllJobs /\ other \in AllJobs
    BY <2>1 DEF HomeInv
  <2>2. CASE job.data = <<>> \/ other.data = <<>>
    BY <1>1, <2>2 DEF Home
  <2> QED
    BY <2>1, <2>2
<1>4. BookFits'
  <2> SUFFICES ASSUME phase' = "up" PROVE BookFits'
    BY DEF BookFits
  <2>1. phase = "up" /\ book' = book /\ kept' = kept /\ BookFits
    BY DEF HomeInv
  <2>2. \A job \in AllJobs' : IsRecord(job) /\ Share(job.data, book) => job.gen <= kept.generation
    <3> TAKE job \in AllJobs'
    <3>1. CASE job \in AllJobs
      BY <2>1, <3>1 DEF BookFits
    <3>2. CASE job.data = <<>>
      BY <1>1, <3>2
    <3> QED
      BY <3>1, <3>2
  <2> QED
    BY <2>1, <2>2 DEF BookFits
<1> QED
  BY <1>2, <1>3, <1>4 DEF HomeInv, Home

LEMMA HomeInit == Init => HomeInv
<1> SUFFICES ASSUME Init PROVE HomeInv
  OBVIOUS
<1>1. \A job \in AllJobs : job = NoJob
  BY EmptySeq DEF Init, AllJobs, NoAsk
<1>2. NoJob.data = <<>> /\ IsSnapshot(NoJob)
  BY DEF NoJob, Job, IsSnapshot
<1>3. \A job \in AllJobs : JobFits(job)
  BY <1>1, <1>2, NothingInEmpty DEF JobFits
<1>4. \A job, other \in AllJobs : Home(job, other)
  BY <1>1, <1>2, NothingInEmpty DEF Home, IsRecord
<1> QED
  BY <1>2, <1>3, <1>4 DEF HomeInv, BookFits, Init

\* Where the new jobs of a step that is not a ledger's or a start's come from.
LEMMA HomeEnclave ==
  ASSUME TypeInv, HomeInv, ReadSnapshot \/ EnclaveStop \/ HostStop
  PROVE  HomeInv'
<1>0. TypeOK /\ asks \in [Slots -> [job : Jobs, at : Stages]]
  BY DEF TypeInv, TypeOK
<1>1. NoJob.data = <<>> /\ IsSnapshot(NoJob) /\ NoAsk.job = NoJob
  BY DEF NoJob, Job, IsSnapshot, NoAsk
<1>2. CASE ReadSnapshot
  <2>1. /\ phase' = "opening" /\ read' = snapshot /\ made' = made
        /\ queue' = queue /\ asks' = asks /\ journal' = journal /\ snapshot' = snapshot
    BY <1>2 DEF ReadSnapshot, hostVars
  <2>2. AllJobs' \subseteq AllJobs
    BY <2>1 DEF AllJobs
  <2> QED
    BY <1>0, <2>1, <2>2, JobsCarried DEF HomeInv
<1>3. CASE EnclaveStop
  <2>1. /\ phase' = "down" /\ read' = NoJob /\ queue' = queue /\ made' = made
        /\ journal' = journal /\ snapshot' = snapshot
        /\ asks' \in {asks, [asks EXCEPT ![awaiting] = NoAsk]}
    BY <1>3 DEF EnclaveStop
  <2>2. \A s \in Slots : asks'[s] = asks[s] \/ asks'[s] = NoAsk
    BY <1>0, <2>1 DEF TypeOK
  <2>3. \A job \in AllJobs' : job \in AllJobs \/ job.data = <<>>
    BY <1>1, <2>1, <2>2 DEF AllJobs
  <2> QED
    BY <1>0, <1>1, <2>1, <2>3, JobsCarried DEF HomeInv
<1>4. CASE HostStop
  <2>1. /\ asks' = [s \in Slots |-> NoAsk]
        /\ UNCHANGED <<phase, read, book, kept, queue, snapshot, journal, made>>
    BY <1>4 DEF HostStop, enclaveVars
  <2>2. \A job \in AllJobs' : job \in AllJobs \/ job.data = <<>>
    BY <1>1, <2>1 DEF AllJobs
  <2> QED
    BY <1>0, <2>1, <2>2, JobsCarried DEF HomeInv, IsSnapshot
<1> QED
  BY <1>2, <1>3, <1>4

LEMMA HomeWriter ==
  ASSUME TypeInv, HomeInv, (\E s \in Slots : Offer(s)) \/ HearKept \/ GiveUp
  PROVE  HomeInv'
<1>0. TypeOK /\ asks \in [Slots -> [job : Jobs, at : Stages]] /\ queue \in Seq(Jobs)
      /\ awaiting \in Slots \cup {Nobody}
  BY DEF TypeInv, TypeOK
<1>1. NoJob.data = <<>> /\ IsSnapshot(NoJob) /\ NoAsk.job = NoJob
  BY DEF NoJob, Job, IsSnapshot, NoAsk
<1>2. ASSUME NEW s \in Slots, Offer(s) PROVE HomeInv'
  <2>1. /\ queue # <<>> /\ asks' = [asks EXCEPT ![s] = [job |-> Head(queue), at |-> "sent"]]
        /\ UNCHANGED <<phase, read, book, kept, queue, snapshot, journal, made>>
    BY <1>2 DEF Offer, enclaveVars
  <2>2. 1 \in 1..Len(queue) /\ Head(queue) = queue[1]
    BY <1>0, <2>1, EmptySeq
  <2>3. \A t \in Slots : asks'[t].job \in {asks[t].job, queue[1]}
    BY <1>0, <2>1, <2>2
  <2>4. \A job \in AllJobs' : job \in AllJobs
    BY <2>1, <2>2, <2>3 DEF AllJobs
  <2> QED
    BY <1>0, <2>1, <2>4, JobsCarried DEF HomeInv, IsSnapshot
<1>3. CASE HearKept
  <2>1. /\ awaiting \in Slots /\ queue # <<>>
        /\ queue' = Tail(queue) /\ asks' = [asks EXCEPT ![awaiting] = NoAsk]
        /\ UNCHANGED <<phase, read, book, kept, snapshot, journal, made>>
    BY <1>0, <1>3 DEF HearKept, TypeInv, WaitsForAJob
  <2>2. \A t \in Slots : asks'[t] \in {asks[t], NoAsk}
    BY <1>0, <2>1
  <2>3. \A i \in 1..Len(queue') : i + 1 \in 1..Len(queue) /\ queue'[i] = queue[i + 1]
    BY <1>0, <2>1, HeadTailProperties, EmptySeq
  <2>4. \A job \in AllJobs' : job \in AllJobs \/ job.data = <<>>
    BY <1>1, <2>1, <2>2, <2>3 DEF AllJobs
  <2> QED
    BY <1>0, <2>1, <2>4, JobsCarried DEF HomeInv, IsSnapshot
<1>4. CASE GiveUp
  <2>1. /\ awaiting \in Slots
        /\ asks' = asks \/ asks' = [asks EXCEPT ![awaiting] = NoAsk]
        /\ UNCHANGED <<phase, read, book, kept, queue, snapshot, journal, made>>
    BY <1>0, <1>4 DEF GiveUp, enclaveVars
  <2>2. \A t \in Slots : asks'[t] \in {asks[t], NoAsk}
    BY <1>0, <2>1
  <2>3. \A job \in AllJobs' : job \in AllJobs \/ job.data = <<>>
    BY <1>1, <2>1, <2>2 DEF AllJobs
  <2> QED
    BY <1>0, <2>1, <2>3, JobsCarried DEF HomeInv, IsSnapshot
<1> QED
  BY <1>2, <1>3, <1>4

LEMMA HomeHost ==
  ASSUME TypeInv, HomeInv, NEW s \in Slots, Host(s) \/ Fails(s)
  PROVE  HomeInv'
<1>0. TypeOK /\ asks \in [Slots -> [job : Jobs, at : Stages]] /\ journal \in Seq(Jobs)
  BY DEF TypeInv, TypeOK
<1>1. NoJob.data = <<>> /\ IsSnapshot(NoJob) /\ NoAsk.job = NoJob
  BY DEF NoJob, Job, IsSnapshot, NoAsk
<1>2. UNCHANGED <<phase, read, book, kept, queue, made>>
  BY DEF Host, AddRecord, TornAppend, Rename, RemoveJournal, Forget, Fails, enclaveVars
<1>3. \A t \in Slots : asks'[t].job \in {asks[t].job, NoJob}
  <2>1. ASSUME NEW how, Answer(s, how) PROVE \A t \in Slots : asks'[t].job \in {asks[t].job, NoJob}
    BY <1>0, <1>1, <2>1 DEF Answer
  <2>2. ASSUME NEW how, asks' = [asks EXCEPT ![s].at = how]
        PROVE  \A t \in Slots : asks'[t].job \in {asks[t].job, NoJob}
    BY <1>0, <2>2
  <2> QED
    BY <2>1, <2>2 DEF Host, AddRecord, TornAppend, Rename, RemoveJournal, Forget, Fails
<1>4. \A i \in 1..Len(journal') :
        \/ i \in 1..Len(journal) /\ journal'[i] = journal[i]
        \/ journal'[i] = asks[s].job
        \/ journal'[i].data = <<>>
  <2>1. CASE journal' = journal
    BY <2>1
  <2>2. CASE journal' = <<>>
    BY <2>2, EmptySeq
  <2>3. ASSUME NEW job \in Jobs, journal' = Append(journal, job), job = asks[s].job \/ job.data = <<>>
        PROVE  \A i \in 1..Len(journal') :
                 \/ i \in 1..Len(journal) /\ journal'[i] = journal[i]
                 \/ journal'[i] = asks[s].job
                 \/ journal'[i].data = <<>>
    BY <1>0, <2>3
  <2>4. \/ journal' = journal \/ journal' = <<>> \/ journal' = Append(journal, asks[s].job)
        \/ journal' = Append(journal, Torn(asks[s].job))
    BY DEF Host, AddRecord, TornAppend, Rename, RemoveJournal, Forget, Fails, Record
  <2>5. asks[s].job \in Jobs /\ Torn(asks[s].job) \in Jobs /\ Torn(asks[s].job).data = <<>>
    <3>1. asks[s].job \in Jobs
      BY <1>0
    <3> QED
      BY <3>1, TornType DEF Torn, Jobs
  <2> QED
    BY <2>1, <2>2, <2>3, <2>4, <2>5
<1>5. snapshot' = snapshot \/ (snapshot' = asks[s].job /\ IsSnapshot(snapshot'))
  BY DEF Host, AddRecord, TornAppend, Rename, RemoveJournal, Forget, Fails, Record
<1>6. \A job \in AllJobs' : job \in AllJobs \/ job.data = <<>>
  BY <1>1, <1>2, <1>3, <1>4, <1>5 DEF AllJobs
<1> QED
  BY <1>0, <1>2, <1>5, <1>6, JobsCarried DEF HomeInv, IsSnapshot

\* What a start would put in memory, from a snapshot and the journal that opens after it.
LEMMA ReplayHolds ==
  ASSUME TypeOK, HomeInv, NEW z \in {snapshot, read}, NEW generation \in Nat,
         z = NoJob \/ generation = z.gen, Opens(generation, journal)
  PROVE  LET rows == Replay(z.data, journal)
         IN /\ rows \in Seq(1..MaxChanges)
            /\ ChangesIn(rows) \subseteq 1..made
            /\ NoRepeat(rows)
            /\ \A job \in AllJobs : IsRecord(job) /\ Share(job.data, rows) => job.gen <= generation
<1> DEFINE n == Len(Whole(journal))
           after == [i \in 1..n |-> journal[i].data[1]]
<1>1. z \in AllJobs /\ z \in Jobs /\ journal \in Seq(Jobs) /\ n \in 0..Len(journal) /\ IsSnapshot(z)
  BY JobsTyped, WholeType DEF AllJobs, TypeOK, HomeInv
<1>2. Replay(z.data, journal) = z.data \o after
  BY DEF Replay
<1>3. ASSUME NEW i \in 1..n
      PROVE  /\ journal[i] \in AllJobs /\ IsRecord(journal[i]) /\ Place(journal[i]) = <<generation, i>>
             /\ ChangesIn(journal[i].data) = {after[i]} /\ after[i] \in 1..made
  <2>1. /\ i \in 1..Len(journal) /\ i \in Nat \ {0}
        /\ ~IsTorn(journal[i]) /\ Place(journal[i]) = <<generation, i>>
    BY <1>1 DEF Opens
  <2>2. journal[i] \in AllJobs
    BY <2>1 DEF AllJobs
  <2>3. journal[i].num = i
    BY <2>1 DEF Place
  <2>4. IsRecord(journal[i])
    BY <2>1, <2>3 DEF IsRecord, IsSnapshot
  <2>5. /\ Len(journal[i].data) <= 1 /\ journal[i].data \in Seq(1..MaxChanges) /\ journal[i].data # <<>>
        /\ ChangesIn(journal[i].data) \subseteq 1..made
    BY <2>1, <2>2, <2>4, JobsTyped DEF HomeInv, JobFits, IsTorn, Jobs
  <2>6. Len(journal[i].data) = 1
    <3>1. Len(journal[i].data) \in Nat /\ Len(journal[i].data) # 0
      BY <2>5, EmptySeq
    <3>2. \A m \in Nat : m <= 1 /\ m # 0 => m = 1
      OBVIOUS
    <3> QED
      BY <2>5, <3>1, <3>2
  <2>7. ChangesIn(journal[i].data) = {journal[i].data[1]}
    BY <2>6 DEF ChangesIn
  <2> QED
    BY <2>1, <2>2, <2>4, <2>5, <2>7
<1>4. after \in Seq(1..MaxChanges) /\ Len(after) = n
  <2>1. after \in [1..n -> 1..MaxChanges]
    <3>1. 1..made \subseteq 1..MaxChanges
      BY BookAssumption DEF TypeOK
    <3>2. \A i \in 1..n : after[i] \in 1..MaxChanges
      BY <1>3, <3>1
    <3> QED
      BY <3>2
  <2>2. n \in Nat
    BY <1>1
  <2> HIDE DEF after, n
  <2> QED
    BY <2>1, <2>2, FunctionIsSeq
<1> HIDE DEF after, n
<1>5. ChangesIn(after) = {after[i] : i \in 1..n}
  BY <1>4 DEF ChangesIn
<1>6. z.data \in Seq(1..MaxChanges)
  BY <1>1 DEF Jobs
<1>7. ChangesIn(z.data \o after) = ChangesIn(z.data) \cup ChangesIn(after)
  BY <1>4, <1>6, ConcatChanges
<1>8. JobFits(z) /\ \A job \in AllJobs : Home(job, z)
  BY <1>1 DEF HomeInv
<1>9. NoRepeat(after)
  <2> SUFFICES ASSUME NEW i \in 1..n, NEW j \in 1..n, i # j, after[i] = after[j]
               PROVE  FALSE
    BY <1>4 DEF NoRepeat
  <2>1. Share(journal[i].data, journal[j].data)
    BY <1>3 DEF Share
  <2>2. Place(journal[i]) = Place(journal[j])
    BY <1>3, <2>1 DEF HomeInv, Home
  <2> QED
    BY <1>3, <2>2
<1>10. z = NoJob => ChangesIn(z.data) = {}
  BY NothingInEmpty DEF NoJob, Job
<1>11. ~Share(z.data, after)
  <2> SUFFICES ASSUME NEW i \in 1..n, after[i] \in ChangesIn(z.data) PROVE FALSE
    BY <1>5 DEF Share
  <2>1. journal[i].gen < z.gen
    <3>1. Share(journal[i].data, z.data)
      BY <1>3 DEF Share
    <3> QED
      BY <1>1, <1>3, <1>8, <3>1 DEF Home, IsRecord
  <2>2. journal[i].gen = z.gen
    BY <1>3, <1>10 DEF Place
  <2>3. z.gen \in Nat
    BY <1>1 DEF Jobs
  <2> QED
    BY <2>1, <2>2, <2>3
<1>12. ASSUME NEW job \in AllJobs, IsRecord(job), Share(job.data, z.data \o after)
       PROVE  job.gen <= generation
  <2>0. job.gen \in Nat
    BY JobsTyped DEF Jobs
  <2>1. CASE Share(job.data, z.data)
    <3>1. job.gen < z.gen
      BY <1>1, <1>8, <1>12, <2>1 DEF Home, IsRecord
    <3>2. generation = z.gen
      BY <1>10, <2>1 DEF Share
    <3> QED
      BY <2>0, <3>1, <3>2
  <2>2. ASSUME NEW i \in 1..n, after[i] \in ChangesIn(job.data)
        PROVE  job.gen <= generation
    <3>1. Share(job.data, journal[i].data)
      BY <1>3, <2>2 DEF Share
    <3>2. Place(job) = Place(journal[i])
      BY <1>3, <1>12, <3>1 DEF HomeInv, Home
    <3>3. job.gen = generation
      BY <1>3, <3>2 DEF Place
    <3> QED
      BY <3>3
  <2> QED
    BY <1>5, <1>7, <1>12, <2>1, <2>2 DEF Share
<1>13. ChangesIn(z.data \o after) \subseteq 1..made
  BY <1>3, <1>5, <1>7, <1>8 DEF JobFits
<1>14. NoRepeat(z.data \o after) /\ z.data \o after \in Seq(1..MaxChanges)
  BY <1>4, <1>6, <1>8, <1>9, <1>11, ConcatNoRepeat, ConcatProperties DEF JobFits
<1> QED
  BY <1>2, <1>12, <1>13, <1>14

LEMMA HomeOpen ==
  ASSUME TypeInv, HomeInv, Open
  PROVE  HomeInv'
<1>0. TypeOK
  BY DEF TypeInv
<1> DEFINE generation == IF read = NoJob THEN 1 ELSE read.gen
           rows == Replay(read.data, journal)
           first == Job(generation + 1, 0, rows)
<1>1. read' = NoJob /\ made' = made /\ UNCHANGED <<asks, snapshot, journal>>
  BY DEF Open, hostVars
<1>2. NoJob.data = <<>> /\ IsSnapshot(NoJob)
  BY DEF NoJob, Job, IsSnapshot
<1>3. IsSnapshot(snapshot)' /\ IsSnapshot(read)'
  BY <1>1, <1>2 DEF HomeInv, IsSnapshot
<1>4. CASE ~Opens(generation, journal)
  <2>1. phase' = "refused" /\ queue' = queue
    BY <1>4 DEF Open
  <2>2. \A job \in AllJobs' : job \in AllJobs \/ job.data = <<>>
    BY <1>1, <1>2, <2>1 DEF AllJobs
  <2> QED
    BY <1>0, <1>1, <1>3, <2>1, <2>2, JobsCarried
<1>5. CASE Opens(generation, journal)
  <2>1. /\ phase' = "up" /\ book' = rows
        /\ kept'.generation = IF Folds THEN generation + 1 ELSE generation
        /\ queue' = IF Folds THEN <<first>> ELSE <<>>
    BY <1>5 DEF Open, FreshKept
  <2>2. generation \in Nat /\ (read = NoJob \/ generation = read.gen)
    BY <1>0 DEF TypeOK, Jobs
  <2> HIDE DEF generation
  <2>3. /\ rows \in Seq(1..MaxChanges)
        /\ ChangesIn(rows) \subseteq 1..made
        /\ NoRepeat(rows)
        /\ \A job \in AllJobs : IsRecord(job) /\ Share(job.data, rows) => job.gen <= generation
    BY <1>0, <1>5, <2>2, ReplayHolds
  <2> HIDE DEF rows
  <2>4. first.gen = generation + 1 /\ first.data = rows /\ IsSnapshot(first)
    BY DEF Job, IsSnapshot
  <2> HIDE DEF first
  <2>5. \A job \in AllJobs' : \/ job \in AllJobs
                              \/ job.data = <<>>
                              \/ job = first
    <3>1. \A i \in 1..Len(queue') : queue'[i] = first
      BY <2>1, EmptySeq
    <3> QED
      BY <1>1, <1>2, <3>1 DEF AllJobs
  <2>6. ASSUME NEW other, NEW job, job.data = <<>> PROVE ~Share(job.data, other) /\ ~Share(other, job.data)
    BY <2>6, NothingInEmpty DEF Share
  <2>7. \A job \in AllJobs' : JobFits(job)'
    <3> TAKE job \in AllJobs'
    <3>1. CASE job \in AllJobs
      BY <1>1, <3>1 DEF HomeInv, JobFits
    <3>2. CASE job.data = <<>>
      BY <3>2, NothingInEmpty DEF JobFits
    <3>3. CASE job = first
      BY <1>1, <2>3, <2>4, <3>3 DEF JobFits, IsRecord
    <3> QED
      BY <2>5, <3>1, <3>2, <3>3
  <2>8. \A job, other \in AllJobs' : Home(job, other)
    <3> TAKE job, other \in AllJobs'
    <3>1. CASE job.data = <<>> \/ other.data = <<>>
      BY <2>6, <3>1 DEF Home
    <3>2. CASE job = first
      BY <2>4, <3>2 DEF Home, IsRecord
    <3>3. CASE job \in AllJobs /\ other \in AllJobs
      BY <3>3 DEF HomeInv
    <3>4. CASE job \in AllJobs /\ other = first
      <4>1. job.gen \in Nat
        BY <1>0, <3>4, JobsTyped DEF Jobs
      <4> QED
        BY <2>2, <2>3, <2>4, <3>4, <4>1 DEF Home, IsRecord
    <3> QED
      BY <2>5, <3>1, <3>2, <3>3, <3>4
  <2>9. BookFits'
    <3>1. \A job \in AllJobs' : IsRecord(job) /\ Share(job.data, rows) => job.gen <= kept'.generation
      <4> TAKE job \in AllJobs'
      <4>1. CASE job \in AllJobs
        <5>1. job.gen \in Nat
          BY <1>0, <4>1, JobsTyped DEF Jobs
        <5> QED
          BY <2>1, <2>2, <2>3, <4>1, <5>1
      <4>2. CASE job.data = <<>>
        BY <2>6, <4>2
      <4>3. CASE job = first
        BY <2>4, <4>3 DEF IsRecord
      <4> QED
        BY <2>5, <4>1, <4>2, <4>3
    <3> QED
      BY <1>1, <2>1, <2>3, <3>1 DEF BookFits
  <2> QED
    BY <1>3, <2>7, <2>8, <2>9 DEF HomeInv, Home
<1> QED
  BY <1>4, <1>5

\* The jobs a ledger operation makes: records of new changes, and a fold of the whole book.
LEMMA ChangeJobs ==
  ASSUME TypeOK, NEW k \in 1..MaxBatch, Change(k)
  PROVE  LET new == [i \in 1..k |-> made + i]
         IN /\ new \in Seq(1..MaxChanges) /\ Len(new) = k
            /\ book' = book \o new
            /\ \A job \in AllJobs' :
                 \/ job \in AllJobs
                 \/ \E i \in 1..k : job = Job(kept.generation, kept.next + i - 1, <<made + i>>)
                 \/ job = Fold(book \o new) /\ kept'.generation = kept.generation + 1
            /\ kept'.generation \in {kept.generation, kept.generation + 1}
<1> DEFINE new == [i \in 1..k |-> made + i]
           records == [i \in 1..k |-> Job(kept.generation, kept.next + i - 1, <<made + i>>)]
           full == kept.since + k >= SnapshotEvery
           fold == Fold(book \o new)
           after == IF full THEN <<fold>> ELSE <<>>
<1>1. /\ k \in Nat \ {0} /\ made \in Nat /\ made + k <= MaxChanges /\ MaxChanges \in Nat
      /\ kept \in [generation : Nat, next : Nat \ {0}, since : Nat]
      /\ queue \in Seq(Jobs) /\ book \in Seq(1..MaxChanges)
  <2>1. made + k <= MaxChanges
    BY DEF Change
  <2>2. MaxChanges \in Nat /\ MaxBatch \in Nat \ {0}
    BY BookAssumption
  <2>3. /\ made \in Nat /\ kept \in [generation : Nat, next : Nat \ {0}, since : Nat]
        /\ queue \in Seq(Jobs) /\ book \in Seq(1..MaxChanges)
    BY DEF TypeOK
  <2> QED
    BY <2>1, <2>2, <2>3
<1>2. /\ queue' = queue \o records \o after
      /\ kept' = IF full THEN FreshKept(kept.generation + 1)
                 ELSE [kept EXCEPT !.next = @ + k, !.since = @ + k]
      /\ book' = book \o new
      /\ UNCHANGED <<asks, snapshot, journal, read>>
  BY DEF Change, hostVars
<1>3. new \in Seq(1..MaxChanges) /\ Len(new) = k
  <2>1. \A i \in 1..k : made + i \in 1..MaxChanges
    BY <1>1
  <2> QED
    BY <1>1, <2>1, FunctionIsSeq
<1>4. records \in Seq(Jobs) /\ Len(records) = k
  <2>1. \A i \in 1..k : records[i] \in Jobs
    <3> TAKE i \in 1..k
    <3>1. kept.next + i - 1 \in Nat /\ made + i \in 1..MaxChanges /\ kept.generation \in Nat
      BY <1>1
    <3>2. <<made + i>> \in Seq(1..MaxChanges)
      BY <3>1, SingleIsSeq
    <3> QED
      BY <3>1, <3>2, JobType
  <2>2. records \in [1..k -> Jobs]
    BY <2>1
  <2> HIDE DEF records
  <2> QED
    BY <1>1, <2>2, FunctionIsSeq
<1>5. fold \in Jobs
  <2> HIDE DEF new
  <2>1. book \o new \in Seq(1..MaxChanges)
    BY <1>1, <1>3, ConcatProperties
  <2>2. kept.generation + 1 \in Nat /\ 0 \in Nat
    BY <1>1
  <2> QED
    BY <2>1, <2>2, JobType DEF Fold
<1>6. kept'.generation = IF full THEN kept.generation + 1 ELSE kept.generation
  BY <1>1, <1>2 DEF FreshKept
<1>7. \A i \in 1..k : records[i] = Job(kept.generation, kept.next + i - 1, <<made + i>>)
  OBVIOUS
<1> HIDE DEF new, records, fold, full
<1>8. after \in Seq(Jobs) /\ \A i \in 1..Len(after) : after[i] = fold /\ full
  <2>1. CASE full
    BY <1>5, <2>1
  <2>2. CASE ~full
    BY <2>2
  <2> QED
    BY <2>1, <2>2
<1> HIDE DEF after
<1>9. \A i \in 1..Len(queue') :
        \/ i \in 1..Len(queue) /\ queue'[i] = queue[i]
        \/ \E j \in 1..k : queue'[i] = records[j]
        \/ queue'[i] = fold /\ full
  <2> TAKE i \in 1..Len(queue')
  <2> DEFINE front == queue \o records
  <2>1. /\ front \in Seq(Jobs) /\ Len(front) = Len(queue) + k
        /\ \A j \in 1..(Len(queue) + k) : front[j] = IF j <= Len(queue) THEN queue[j] ELSE records[j - Len(queue)]
    BY <1>1, <1>4, ConcatProperties
  <2>2. queue' = front \o after
    BY <1>2
  <2> HIDE DEF front
  <2>3. /\ Len(queue') = Len(front) + Len(after)
        /\ \A j \in 1..(Len(front) + Len(after)) : queue'[j] = IF j <= Len(front) THEN front[j] ELSE after[j - Len(front)]
    BY <1>8, <2>1, <2>2, ConcatProperties
  <2>4. Len(queue) \in Nat /\ Len(after) \in Nat
    BY <1>1, <1>8
  <2>5. CASE i <= Len(queue)
    BY <1>1, <2>1, <2>3, <2>4, <2>5
  <2>6. CASE ~(i <= Len(queue)) /\ i <= Len(front)
    <3>1. i - Len(queue) \in 1..k /\ queue'[i] = records[i - Len(queue)]
      BY <1>1, <2>1, <2>3, <2>4, <2>6
    <3> QED
      BY <3>1
  <2>7. CASE ~(i <= Len(front))
    <3>1. i - Len(front) \in 1..Len(after) /\ queue'[i] = after[i - Len(front)]
      BY <1>1, <2>1, <2>3, <2>4, <2>7
    <3> QED
      BY <1>8, <3>1
  <2> QED
    BY <1>1, <2>1, <2>4, <2>5, <2>6, <2>7
<1>10. \A job \in AllJobs' :
         \/ job \in AllJobs
         \/ \E i \in 1..k : job = records[i]
         \/ (job = fold /\ full)
  <2> HIDE DEF fold, full, records
  <2>1. \A i \in 1..Len(queue') : queue'[i] \in AllJobs \/ (\E j \in 1..k : queue'[i] = records[j])
                                   \/ (queue'[i] = fold /\ full)
    BY <1>9 DEF AllJobs
  <2> TAKE job \in AllJobs'
  <2>2. CASE \E i \in 1..Len(queue') : job = queue'[i]
    BY <2>1, <2>2
  <2>3. CASE ~(\E i \in 1..Len(queue') : job = queue'[i])
    <3>1. job \in AllJobs
      BY <1>2, <2>3 DEF AllJobs
    <3> QED
      BY <3>1
  <2> QED
    BY <2>2, <2>3
<1>11. \A job \in AllJobs' :
         \/ job \in AllJobs
         \/ \E i \in 1..k : job = Job(kept.generation, kept.next + i - 1, <<made + i>>)
         \/ (job = fold /\ kept'.generation = kept.generation + 1)
  BY <1>6, <1>7, <1>10
<1> QED
  BY <1>2, <1>3, <1>6, <1>11 DEF new, fold

LEMMA HomeChange ==
  ASSUME TypeInv, HomeInv, NEW k \in 1..MaxBatch, Change(k)
  PROVE  HomeInv'
<1> DEFINE new == [i \in 1..k |-> made + i]
           line == book \o new
           record(i) == Job(kept.generation, kept.next + i - 1, <<made + i>>)
           fold == Fold(line)
<1>1. /\ phase = "up" /\ made' = made + k /\ UNCHANGED <<read, snapshot>>
      /\ k \in Nat \ {0} /\ made \in Nat /\ TypeOK
      /\ kept.generation \in Nat /\ kept.next \in Nat \ {0} /\ book \in Seq(1..MaxChanges)
  <2>1. TypeOK
    BY DEF TypeInv
  <2>2. kept \in [generation : Nat, next : Nat \ {0}, since : Nat] /\ made \in 0..MaxChanges
        /\ book \in Seq(1..MaxChanges) /\ MaxBatch \in Nat /\ MaxChanges \in Nat
    BY <2>1, BookAssumption DEF TypeOK
  <2>3. phase = "up" /\ made' = made + k /\ UNCHANGED <<read, snapshot>>
    BY DEF Change, hostVars
  <2> QED
    BY <2>1, <2>2, <2>3
<1>2. /\ new \in Seq(1..MaxChanges) /\ Len(new) = k
      /\ book' = line
      /\ \A job \in AllJobs' :
           \/ job \in AllJobs
           \/ \E i \in 1..k : job = record(i)
           \/ (job = fold /\ kept'.generation = kept.generation + 1)
      /\ kept'.generation \in {kept.generation, kept.generation + 1}
  BY <1>1, ChangeJobs
<1>3. ChangesIn(new) = {made + i : i \in 1..k}
  BY <1>2 DEF ChangesIn
<1>4. NoRepeat(new)
  BY <1>1, <1>2 DEF NoRepeat
<1> HIDE DEF new
<1>5. ChangesIn(line) = ChangesIn(book) \cup {made + i : i \in 1..k}
  <2>1. ChangesIn(book \o new) = ChangesIn(book) \cup ChangesIn(new)
    BY <1>1, <1>2, ConcatChanges
  <2> QED
    BY <1>3, <2>1
<1>6. ChangesIn(book) \subseteq 1..made /\ NoRepeat(book)
  BY <1>1 DEF HomeInv, BookFits
<1>7. ChangesIn(line) \subseteq 1..made'
  BY <1>1, <1>5, <1>6
<1>8. NoRepeat(line)
  <2>1. ~Share(book, new)
    BY <1>1, <1>3, <1>6 DEF Share
  <2> QED
    BY <1>1, <1>2, <1>4, <1>6, <2>1, ConcatNoRepeat
<1> HIDE DEF line
<1>9. ASSUME NEW i \in 1..k
      PROVE  /\ IsRecord(record(i)) /\ record(i).data = <<made + i>>
             /\ ChangesIn(record(i).data) = {made + i}
             /\ record(i).gen = kept.generation
             /\ made + i \notin 1..made
  <2>1. record(i).num = kept.next + i - 1 /\ kept.next + i - 1 # 0
    BY <1>1 DEF Job
  <2> QED
    BY <1>1, <2>1 DEF Job, IsRecord, IsSnapshot, ChangesIn
<1>10. IsSnapshot(fold) /\ fold.gen = kept.generation + 1 /\ fold.data = line
  BY DEF Fold, Job, IsSnapshot
<1>11. \A job \in AllJobs : JobFits(job) /\ job.gen \in Nat
  BY <1>1, JobsTyped DEF HomeInv, Jobs
<1> HIDE DEF record, fold
<1>12. \A i \in 1..k : \A job : job = record(i) => JobFits(job)'
  <2> TAKE i \in 1..k
  <2> TAKE job
  <2> HAVE job = record(i)
  <2>1. Len(<<made + i>>) <= 1 /\ NoRepeat(<<made + i>>)
    BY DEF NoRepeat
  <2>2. made + i \in 1..made'
    BY <1>1
  <2>3. record(i).data = <<made + i>> /\ ChangesIn(record(i).data) = {made + i}
    BY <1>9
  <2>4. ChangesIn(record(i).data) \subseteq 1..made' /\ Len(record(i).data) <= 1 /\ NoRepeat(record(i).data)
    BY <2>1, <2>2, <2>3, Zenon
  <2> QED
    BY <2>4 DEF JobFits
<1>13. \A job \in AllJobs' : JobFits(job)'
  <2> TAKE job \in AllJobs'
  <2>1. CASE job \in AllJobs
    <3>1. JobFits(job) /\ 1..made \subseteq 1..made'
      BY <1>1, <1>11, <2>1
    <3> QED
      BY <3>1 DEF JobFits
  <2>2. CASE job = fold
    <3>1. ~IsRecord(job) /\ job.data = line
      BY <1>10, <2>2 DEF IsRecord
    <3> QED
      BY <1>7, <1>8, <3>1 DEF JobFits
  <2> QED
    BY <1>2, <1>12, <2>1, <2>2
<1>14. \A job \in AllJobs' : IsRecord(job) /\ Share(job.data, line) => job.gen <= kept.generation
  <2> TAKE job \in AllJobs'
  <2>1. CASE job \in AllJobs
    <3>1. Share(job.data, line) => Share(job.data, book)
      BY <1>5, <1>9, <1>11, <2>1 DEF Share, JobFits
    <3> QED
      BY <1>1, <2>1, <3>1 DEF HomeInv, BookFits
  <2>2. CASE \E i \in 1..k : job = record(i)
    BY <1>1, <1>9, <2>2
  <2>3. CASE job = fold
    BY <1>10, <2>3 DEF IsRecord
  <2> QED
    BY <1>2, <2>1, <2>2, <2>3
<1>15. \A job, other \in AllJobs' : Home(job, other)
  <2> SUFFICES ASSUME NEW job \in AllJobs', NEW other \in AllJobs',
                      IsRecord(job), Share(job.data, other.data)
               PROVE  IF IsRecord(other) THEN Place(job) = Place(other) ELSE job.gen < other.gen
    BY DEF Home
  <2>1. CASE other = fold
    <3>1. job.gen <= kept.generation /\ job.gen \in Nat
      <4>1. job.gen <= kept.generation
        BY <1>10, <1>14, <2>1
      <4> QED
        BY <1>1, <1>2, <1>9, <1>10, <1>11, <4>1 DEF IsRecord
    <3> QED
      BY <1>1, <1>10, <2>1, <3>1 DEF IsRecord
  <2>2. CASE job \in AllJobs /\ other \in AllJobs
    BY <2>2 DEF HomeInv, Home
  <2>3. ASSUME NEW i \in 1..k, job = record(i), other \in AllJobs PROVE FALSE
    BY <1>9, <1>11, <2>3 DEF Share, JobFits
  <2>4. ASSUME NEW i \in 1..k, other = record(i), job \in AllJobs PROVE FALSE
    BY <1>9, <1>11, <2>4 DEF Share, JobFits
  <2>5. ASSUME NEW i \in 1..k, NEW j \in 1..k, job = record(i), other = record(j)
        PROVE  job = other
    <3>1. made + i = made + j
      BY <1>9, <2>5 DEF Share
    <3> QED
      BY <1>1, <2>5, <3>1
  <2>6. job # fold
    BY <1>10 DEF IsRecord
  <2> QED
    BY <1>2, <1>9, <2>1, <2>2, <2>3, <2>4, <2>5, <2>6
<1>16. BookFits'
  <2>1. \A job \in AllJobs' : IsRecord(job) /\ Share(job.data, line) => job.gen <= kept'.generation
    <3> TAKE job \in AllJobs'
    <3> HAVE IsRecord(job) /\ Share(job.data, line)
    <3>1. job.gen <= kept.generation
      BY <1>14
    <3>2. job.gen \in Nat
      BY <1>1, <1>2, <1>9, <1>10, <1>11 DEF IsRecord
    <3> QED
      BY <1>1, <1>2, <3>1, <3>2
  <2> QED
    BY <1>2, <1>7, <1>8, <2>1 DEF BookFits
<1>17. IsSnapshot(snapshot)' /\ IsSnapshot(read)'
  BY <1>1 DEF HomeInv, IsSnapshot
<1> QED
  BY <1>13, <1>15, <1>16, <1>17 DEF HomeInv, Home

LEMMA HomeStep == TypeInv /\ HomeInv /\ [Next]_vars => HomeInv'
<1> SUFFICES ASSUME TypeInv, HomeInv, [Next]_vars PROVE HomeInv'
  OBVIOUS
<1>1. CASE UNCHANGED vars
  BY <1>1 DEF vars, HomeInv, AllJobs, JobFits, Home, BookFits, IsSnapshot
<1>2. CASE Next
  BY <1>2, HomeEnclave, HomeWriter, HomeHost, HomeOpen, HomeChange DEF Next
<1> QED
  BY <1>1, <1>2

LEMMA HomeNothingTwice == TypeInv /\ HomeInv => NothingTwice
<1> SUFFICES ASSUME TypeInv, HomeInv PROVE NoRepeat(OnDisk)
  BY DEF NothingTwice, NoRepeat
<1>1. TypeOK /\ snapshot \in AllJobs
  BY DEF TypeInv, AllJobs
<1>2. CASE ~Opens(Generation, journal)
  BY <1>1, <1>2 DEF OnDisk, HomeInv, JobFits
<1>3. CASE Opens(Generation, journal)
  <2>1. Generation \in Nat /\ (snapshot = NoJob \/ Generation = snapshot.gen)
    BY <1>1 DEF TypeOK, Jobs, Generation
  <2>2. NoRepeat(Replay(snapshot.data, journal))
    BY <1>1, <1>3, <2>1, ReplayHolds
  <2> QED
    BY <1>3, <2>2 DEF OnDisk
<1> QED
  BY <1>2, <1>3

\* Whatever the host carries out late, tears or leaves half done, and whichever of them
\* stops when, a book that opens holds no change twice.
THEOREM BookHoldsNothingTwice == Spec => []NothingTwice
<1>1. Init => TypeInv /\ HomeInv
  BY InitType, HomeInit
<1>2. TypeInv /\ HomeInv /\ [Next]_vars => TypeInv' /\ HomeInv'
  BY StepType, HomeStep
<1>3. TypeInv /\ HomeInv => NothingTwice
  BY HomeNothingTwice
<1> QED
  BY <1>1, <1>2, <1>3, PTL DEF Spec

-----------------------------------------------------------------------------
(* Until something has spoilt the host's files, what is on them, what is in *)
(* the queue and what is in memory are parts of one line of changes.  Each  *)
(* generation begins at a fixed point of the line, its base, and a record   *)
(* carries the change that lies its number behind the base.                 *)

Begins(part, rows) == Len(part) <= Len(rows) /\ \A i \in 1..Len(part) : part[i] = rows[i]

\* The whole records in the journal, and so the place the disk has come to.
Count == Len(Whole(journal))
DiskPlace == <<Generation, Count>>

\* What a job carries, when generation g begins behind the first base[g] changes.
Carried(base, job) ==
  IF IsSnapshot(job) THEN Len(job.data) = base[job.gen] /\ Begins(job.data, book)
  ELSE /\ base[job.gen] + job.num \in 1..Len(book)
       /\ job.data = <<book[base[job.gen] + job.num]>>

\* The job that comes next after a place: a record of the same generation, or the
\* snapshot of all up to there.
Succeeds(base, place, job) ==
  IF IsSnapshot(job) THEN job.gen = place[1] + 1 /\ base[job.gen] = base[place[1]] + place[2]
  ELSE job.gen = place[1] /\ job.num = place[2] + 1

DiskLine(base) ==
  /\ IsSnapshot(snapshot)
  /\ Generation \in 1..kept.generation
  /\ Len(snapshot.data) = base[Generation] /\ Begins(snapshot.data, book)
  /\ \A i \in 1..Count : Carried(base, journal[i])

QueueLine(base) ==
  /\ \A i \in 1..Len(queue) : queue[i].gen \in 1..kept.generation /\ Carried(base, queue[i])
  /\ \A i \in 1..(Len(queue) - 1) : Succeeds(base, Place(queue[i]), queue[i + 1])
  /\ Len(book) = base[kept.generation] + kept.next - 1
  /\ (IF queue = <<>> THEN DiskPlace ELSE Place(queue[Len(queue)])) = Mark

\* The head of the queue comes next on the disk, or is there already, or is a snapshot
\* that is in its place beside the journal it has taken in.
HeadNext(base) ==
  Opens(Generation, journal) /\ (queue # <<>> => Succeeds(base, DiskPlace, queue[1]))
HeadKept == Opens(Generation, journal) /\ queue # <<>> /\ Place(queue[1]) = DiskPlace
HeadHalf ==
  /\ snapshot # NoJob /\ Opens(snapshot.gen - 1, journal)
  /\ queue # <<>> /\ IsSnapshot(queue[1]) /\ queue[1].gen = Generation
HeadLine(base) == HeadNext(base) \/ HeadKept \/ HeadHalf

\* What the host counts may be stale only between removing a journal and forgetting it; and
\* what the host answers for is on its disk.
LastRight == last \in {0, Count}
LastLine == LastRight \/ (journal = <<>> /\ queue # <<>> /\ IsSnapshot(queue[1]))
AskLine(s) ==
  asks[s].at \in {"renamed", "removed"} =>
    IsSnapshot(asks[s].job) /\ snapshot # NoJob /\ asks[s].job.gen <= snapshot.gen
WaitLine ==
  awaiting # Nobody =>
    /\ asks[awaiting].job = queue[1]
    /\ asks[awaiting].at = "removed" => journal = <<>>
    /\ asks[awaiting].at = "kept" => HeadKept /\ LastRight
HostLine == LastLine /\ (\A s \in Slots : AskLine(s)) /\ WaitLine

Line(base) ==
  /\ DiskLine(base) /\ QueueLine(base) /\ HeadLine(base) /\ HostLine
  /\ confirmed \subseteq ChangesIn(OnDisk)
  /\ phase = "opening" => read = snapshot

LineInv == spoilt = {} => \E base \in [Nat -> Nat] : Line(base)

\* What is on the disk is a beginning of the line.
LEMMA DiskHolds ==
  ASSUME TypeOK, NEW base \in [Nat -> Nat], DiskLine(base)
  PROVE  /\ OnDisk \in Seq(1..MaxChanges)
         /\ Begins(OnDisk, book)
         /\ Len(OnDisk) = base[Generation] + (IF Opens(Generation, journal) THEN Count ELSE 0)
         /\ Count \in Nat /\ Count \in 0..Len(journal)
         /\ Generation \in Nat \ {0} /\ base[Generation] \in Nat
<1>1. /\ snapshot.data \in Seq(1..MaxChanges)
      /\ Len(snapshot.data) = base[Generation] /\ Begins(snapshot.data, book)
      /\ journal \in Seq(Jobs) /\ Count \in 0..Len(journal) /\ Count \in Nat
      /\ Generation \in Nat \ {0} /\ base[Generation] \in Nat
      /\ book \in Seq(1..MaxChanges) /\ Len(book) \in Nat
  <2>0. kept.generation \in Nat
    BY DEF TypeOK
  <2>1. snapshot \in Jobs /\ journal \in Seq(Jobs) /\ book \in Seq(1..MaxChanges)
    BY DEF TypeOK
  <2>2. Count \in 0..Len(journal)
    BY <2>1, WholeType DEF Count
  <2>3. Len(snapshot.data) = base[Generation] /\ Begins(snapshot.data, book)
    BY DEF DiskLine
  <2>4. snapshot.data \in Seq(1..MaxChanges)
    BY <2>1 DEF Jobs
  <2>5. Generation \in Nat \ {0}
    BY <2>0 DEF DiskLine
  <2>6. base[Generation] \in Nat
    BY <2>5
  <2>7. Count \in Nat /\ Len(book) \in Nat
    BY <2>1, <2>2
  <2> QED
    BY <2>1, <2>2, <2>3, <2>4, <2>5, <2>6, <2>7
<1>2. CASE ~Opens(Generation, journal)
  <2>1. OnDisk = snapshot.data
    BY <1>2 DEF OnDisk
  <2>2. Len(OnDisk) = base[Generation] + (IF Opens(Generation, journal) THEN Count ELSE 0)
    <3>1. Len(OnDisk) = base[Generation] /\ base[Generation] \in Nat
      BY <1>1, <2>1
    <3> QED
      BY <1>2, <3>1
  <2> QED
    BY <1>1, <2>1, <2>2
<1>3. CASE Opens(Generation, journal)
  <2> DEFINE after == [i \in 1..Count |-> journal[i].data[1]]
  <2>1. OnDisk = snapshot.data \o after
    BY <1>3 DEF OnDisk, Replay, Count
  <2>2. \A i \in 1..Count : Place(journal[i]) = <<Generation, i>>
    BY <1>3 DEF Opens, Count
  <2>3. ASSUME NEW i \in 1..Count
        PROVE  /\ after[i] = book[base[Generation] + i] /\ after[i] \in 1..MaxChanges
               /\ base[Generation] + i \in 1..Len(book)
    <3>1. i # 0
      OBVIOUS
    <3>2. journal[i].gen = Generation /\ journal[i].num = i /\ ~IsSnapshot(journal[i])
      BY <2>2, <3>1 DEF Place, IsSnapshot
    <3>3. base[Generation] + i \in 1..Len(book) /\ journal[i].data = <<book[base[Generation] + i]>>
      BY <3>2 DEF DiskLine, Carried
    <3>4. book[base[Generation] + i] \in 1..MaxChanges
      BY <1>1, <3>3, ElementOfSeq
    <3>5. after[i] = book[base[Generation] + i]
      <4>1. after[i] = journal[i].data[1]
        OBVIOUS
      <4>2. journal[i].data[1] = book[base[Generation] + i]
        BY <3>3
      <4> QED
        BY <4>1, <4>2
    <3> QED
      BY <3>3, <3>4, <3>5
  <2>4. after \in [1..Count -> 1..MaxChanges]
    BY <2>3
  <2> HIDE DEF after
  <2>5. after \in Seq(1..MaxChanges) /\ Len(after) = Count
    BY <1>1, <2>4, FunctionIsSeq
  <2>6. /\ OnDisk \in Seq(1..MaxChanges) /\ Len(OnDisk) = base[Generation] + Count
        /\ \A i \in 1..(base[Generation] + Count) :
             OnDisk[i] = IF i <= base[Generation] THEN snapshot.data[i] ELSE after[i - base[Generation]]
    <3>1. /\ snapshot.data \o after \in Seq(1..MaxChanges)
          /\ Len(snapshot.data \o after) = Len(snapshot.data) + Len(after)
          /\ \A i \in 1..Len(snapshot.data) + Len(after) :
               (snapshot.data \o after)[i] =
                 IF i <= Len(snapshot.data) THEN snapshot.data[i] ELSE after[i - Len(snapshot.data)]
      BY <1>1, <2>5, ConcatProperties
    <3> QED
      BY <1>1, <2>1, <2>5, <3>1
  <2> DEFINE b == base[Generation]
  <2>7. ASSUME NEW i \in 1..(b + Count) PROVE OnDisk[i] = book[i]
    <3>1. CASE i <= b
      <4>1. i \in 1..Len(snapshot.data)
        BY <1>1, <3>1
      <4>2. snapshot.data[i] = book[i]
        BY <1>1, <4>1 DEF Begins
      <4> QED
        BY <2>6, <3>1, <4>2
    <3>2. CASE ~(i <= b)
      <4>1. b \in Nat /\ Count \in Nat /\ i \in 1..(b + Count)
        BY <1>1
      <4> HIDE DEF b
      <4>2. i - b \in 1..Count /\ b + (i - b) = i
        BY <3>2, <4>1
      <4> USE DEF b
      <4>3. after[i - b] = book[b + (i - b)]
        BY <2>3, <4>2
      <4> QED
        BY <2>6, <3>2, <4>2, <4>3
    <3> QED
      BY <3>1, <3>2
  <2>8. b + Count <= Len(book)
    <3>1. CASE Count = 0
      BY <1>1, <3>1 DEF Begins
    <3>2. CASE Count # 0
      <4>1. Count \in 1..Count
        BY <1>1, <3>2
      <4>2. b + Count \in 1..Len(book)
        BY <2>3, <4>1
      <4> QED
        BY <1>1, <4>2
    <3> QED
      BY <3>1, <3>2
  <2>9. Begins(OnDisk, book)
    BY <2>6, <2>7, <2>8 DEF Begins
  <2> QED
    BY <1>1, <1>3, <2>6, <2>9
<1> QED
  BY <1>2, <1>3

\* What was confirmed stays on a disk that does not go back.
LEMMA DiskGrows ==
  ASSUME NEW more, NEW part \in Seq(1..MaxChanges), NEW rows, more \in Seq(1..MaxChanges),
         Begins(part, rows), Begins(more, rows), Len(part) <= Len(more)
  PROVE  ChangesIn(part) \subseteq ChangesIn(more)
<1>1. \A i \in 1..Len(part) : i \in 1..Len(more) /\ part[i] = more[i]
  BY DEF Begins
<1> QED
  BY <1>1 DEF ChangesIn

\* A host whose memory is right counts the whole records of a journal that opens.
LEMMA KnownIsCount ==
  ASSUME TypeOK, NEW g, Opens(g, journal)
  PROVE  /\ LastRight => Known = Count
         /\ ~LastRight => Known = last
<1>1. journal \in Seq(Jobs) /\ last \in Nat /\ Len(journal) \in Nat
  BY DEF TypeOK
<1>2. /\ Whole(journal) \in Seq(Jobs) /\ Count \in 0..Len(journal)
      /\ Count = IF EndsTorn(journal) THEN Len(journal) - 1 ELSE Len(journal)
  BY <1>1, WholeType DEF Count
<1>3. \A i \in 1..Count : ~IsTorn(journal[i]) /\ journal[i].num = i
  BY DEF Opens, Place, Count
<1>4. JournalLast(journal) = Count
  <2>1. {i \in 1..(Len(journal) - 1) : IsTorn(journal[i])} = {}
    BY <1>1, <1>2, <1>3
  <2>2. CASE Whole(journal) = <<>>
    BY <2>1, <2>2, EmptySeq DEF JournalLast, Count
  <2>3. CASE Whole(journal) # <<>>
    <3>1. Count \in 1..Count
      BY <1>2, <2>3, EmptySeq DEF Count
    <3> QED
      BY <1>3, <2>1, <2>3, <3>1 DEF JournalLast, Count
  <2> QED
    BY <2>2, <2>3
<1> QED
  BY <1>1, <1>4 DEF Known, LastRight

\* Steps that leave the disk, the queue and the book as they are.
LEMMA LineStill ==
  ASSUME NEW base \in [Nat -> Nat], Line(base), HostLine',
         UNCHANGED <<snapshot, journal, book, kept, queue>>,
         confirmed' = confirmed,
         phase' = "opening" => read' = snapshot
  PROVE  Line(base)' /\ OnDisk' = OnDisk
<1>1. Generation' = Generation /\ Count' = Count /\ Mark' = Mark
  BY DEF Generation, Count, Whole, EndsTorn, IsTorn, Mark
<1>2. \A g : Opens(g, journal)' = Opens(g, journal)
  BY DEF Opens, Whole, EndsTorn, IsTorn, Place
<1>3. OnDisk' = OnDisk
  BY <1>1, <1>2 DEF OnDisk, Replay, Whole, EndsTorn, IsTorn, Opens, Place
<1>4. DiskLine(base)' /\ QueueLine(base)'
  <2>1. \A job : Carried(base, job)' <=> Carried(base, job)
    BY DEF Carried, Begins
  <2>2. DiskLine(base)'
    BY <1>1, <2>1 DEF Line, DiskLine, Begins
  <2>3. QueueLine(base)'
    <3>1. DiskPlace' = DiskPlace
      BY <1>1 DEF DiskPlace
    <3>2. \A job : Place(job)' = Place(job)
      BY DEF Place
    <3>3. \A i \in 1..(Len(queue) - 1) : Succeeds(base, Place(queue[i]), queue[i + 1])'
      BY DEF Line, QueueLine, Succeeds, IsSnapshot, Place
    <3> QED
      BY <1>1, <2>1, <3>1, <3>2, <3>3 DEF Line, QueueLine
  <2> QED
    BY <2>2, <2>3
<1>5. HeadLine(base)'
  BY <1>1 DEF Line, HeadLine, HeadNext, HeadKept, HeadHalf, DiskPlace, Opens, Whole, EndsTorn,
              IsTorn, Place, Succeeds, IsSnapshot
<1> QED
  BY <1>3, <1>4, <1>5 DEF Line

\* When nobody waits any more, what the host is busy with is lost or goes on.
LEMMA AsksLost ==
  ASSUME HostLine, \A t \in Slots : asks'[t] \in {asks[t], NoAsk}, awaiting' = Nobody,
         UNCHANGED <<snapshot, journal, queue>>, last' \in {last, 0}
  PROVE  HostLine'
<1>1. Count' = Count
  BY DEF Count, Whole, EndsTorn, IsTorn
<1>2. LastLine'
  BY <1>1 DEF HostLine, LastLine, LastRight, IsSnapshot
<1>3. \A s \in Slots : AskLine(s)'
  BY DEF HostLine, AskLine, NoAsk, IsSnapshot
<1> QED
  BY <1>2, <1>3 DEF HostLine, WaitLine

\* A journal opens under one generation or the other.
LEMMA OneOpens == ASSUME NEW base, Line(base) PROVE \E g : Opens(g, journal)
  BY DEF Line, HeadLine, HeadNext, HeadKept, HeadHalf

\* The host's answer to one ask, with a look at the journal or without.
LEMMA AnswerLine ==
  ASSUME TypeOK, NEW base \in [Nat -> Nat], Line(base), NEW s \in Slots,
         NEW how \in {"kept", "refused"}, Answer(s, how),
         UNCHANGED <<snapshot, journal, queue, awaiting>>, last' \in {last, Known},
         s = awaiting /\ how = "kept" => HeadKept /\ LastRight
  PROVE  HostLine'
<1>1. Count' = Count /\ Generation' = Generation
  BY DEF Count, Whole, EndsTorn, IsTorn, Generation
<1>2. HeadKept => HeadKept'
  BY <1>1 DEF HeadKept, Opens, Whole, EndsTorn, IsTorn, Place, DiskPlace
<1>3. (LastRight => LastRight') /\ (~LastRight => last' = last)
  <2>1. PICK g : Opens(g, journal)
    BY OneOpens
  <2>2. /\ LastRight => Known = Count
        /\ ~LastRight => Known = last
    BY <2>1, KnownIsCount
  <2> QED
    BY <1>1, <2>2 DEF LastRight
<1>4. LastLine'
  BY <1>3 DEF Line, HostLine, LastLine, IsSnapshot
<1>5. \A t \in Slots :
        \/ asks'[t] = asks[t] \/ asks'[t] = NoAsk
        \/ t = s /\ s = awaiting /\ asks'[t].job = asks[t].job /\ asks'[t].at = how
  BY DEF Answer, TypeOK
<1>6. \A t \in Slots : AskLine(t)'
  BY <1>5 DEF Line, HostLine, AskLine, NoAsk, IsSnapshot
<1>7. WaitLine'
  <2> SUFFICES ASSUME awaiting # Nobody
               PROVE  /\ asks'[awaiting].job = queue[1]
                      /\ asks'[awaiting].at = "removed" => journal = <<>>
                      /\ asks'[awaiting].at = "kept" => (HeadKept /\ LastRight)'
    BY DEF WaitLine
  <2>1. /\ awaiting \in Slots
        /\ asks[awaiting].job = queue[1]
        /\ asks[awaiting].at = "removed" => journal = <<>>
        /\ asks[awaiting].at = "kept" => HeadKept /\ LastRight
    BY DEF Line, HostLine, WaitLine, TypeOK
  <2>2. CASE s = awaiting
    <3>1. asks'[awaiting].job = asks[awaiting].job /\ asks'[awaiting].at = how
      BY <2>1, <2>2 DEF Answer, TypeOK
    <3> QED
      BY <1>2, <1>3, <2>1, <2>2, <3>1
  <2>3. CASE s # awaiting
    <3>1. asks'[awaiting] = asks[awaiting]
      BY <2>1, <2>3 DEF Answer, TypeOK
    <3> QED
      BY <1>2, <1>3, <2>1, <3>1
  <2> QED
    BY <2>2, <2>3
<1> QED
  BY <1>4, <1>6, <1>7 DEF HostLine

\* The enclave's own steps that touch neither book nor queue, and the stops.
LEMMA LineEnclave ==
  ASSUME TypeInv, NEW base \in [Nat -> Nat], Line(base),
         ReadSnapshot \/ EnclaveStop \/ HostStop \/ GiveUp
  PROVE  Line(base)' /\ OnDisk' = OnDisk
<1>1. asks \in [Slots -> [job : Jobs, at : Stages]] /\ HostLine
  BY DEF TypeInv, TypeOK, Line
<1>2. CASE ReadSnapshot
  <2>1. /\ read' = snapshot /\ awaiting = Nobody
        /\ UNCHANGED <<snapshot, journal, book, kept, queue, confirmed, asks, last, awaiting>>
    BY <1>2 DEF ReadSnapshot, hostVars, TypeInv, WaitsForAJob
  <2>2. HostLine'
    BY <1>1, <2>1, AsksLost
  <2> QED
    BY <2>1, <2>2, LineStill
<1>3. CASE EnclaveStop
  <2>1. /\ phase' = "down" /\ awaiting' = Nobody
        /\ UNCHANGED <<snapshot, journal, book, kept, queue, confirmed, last>>
        /\ asks' \in {asks, [asks EXCEPT ![awaiting] = NoAsk]}
    BY <1>3 DEF EnclaveStop
  <2>2. \A t \in Slots : asks'[t] \in {asks[t], NoAsk}
    BY <1>1, <2>1
  <2>3. HostLine'
    BY <1>1, <2>1, <2>2, AsksLost
  <2> QED
    BY <2>1, <2>3, LineStill
<1>4. CASE HostStop \/ GiveUp
  <2>1. /\ awaiting' = Nobody /\ last' \in {last, 0}
        /\ UNCHANGED <<phase, read, snapshot, journal, book, kept, queue, confirmed>>
        /\ asks' \in {asks, [asks EXCEPT ![awaiting] = NoAsk], [s \in Slots |-> NoAsk]}
    BY <1>4 DEF HostStop, GiveUp, enclaveVars
  <2>2. \A t \in Slots : asks'[t] \in {asks[t], NoAsk}
    BY <1>1, <2>1
  <2>3. HostLine'
    BY <1>1, <2>1, <2>2, AsksLost
  <2> QED
    BY <2>1, <2>3, LineStill DEF Line
<1> QED
  BY <1>2, <1>3, <1>4

LEMMA LineOffer ==
  ASSUME TypeInv, NEW base \in [Nat -> Nat], Line(base), NEW s \in Slots, Offer(s)
  PROVE  Line(base)' /\ OnDisk' = OnDisk
<1>1. asks \in [Slots -> [job : Jobs, at : Stages]] /\ HostLine
  BY DEF TypeInv, TypeOK, Line
<1>2. /\ awaiting' = s /\ queue # <<>>
      /\ asks' = [asks EXCEPT ![s] = [job |-> Head(queue), at |-> "sent"]]
      /\ UNCHANGED <<phase, read, snapshot, journal, book, kept, queue, confirmed, last>>
  BY DEF Offer, enclaveVars
<1>3. asks'[s] = [job |-> queue[1], at |-> "sent"] /\ \A t \in Slots \ {s} : asks'[t] = asks[t]
  BY <1>1, <1>2
<1>4. LastLine'
  BY <1>1, <1>2 DEF HostLine, LastLine, LastRight, Count, Whole, EndsTorn, IsTorn, IsSnapshot
<1>5. \A t \in Slots : AskLine(t)'
  BY <1>1, <1>2, <1>3 DEF HostLine, AskLine, IsSnapshot
<1>6. WaitLine'
  BY <1>2, <1>3 DEF WaitLine
<1>7. HostLine'
  BY <1>4, <1>5, <1>6 DEF HostLine
<1> QED
  BY <1>2, <1>7, LineStill DEF Line

\* The head of the queue is a record the host counts: it is on the disk; and one the host
\* counts as the next is not yet.
LEMMA HeadRecord ==
  ASSUME TypeOK, NEW base \in [Nat -> Nat], Line(base), queue # <<>>, ~IsSnapshot(queue[1])
  PROVE  /\ LastRight /\ Known = Count
         /\ queue[1].num <= Known => HeadKept
         /\ queue[1].num = Known + 1 =>
              Opens(Generation, journal) /\ queue[1].gen = Generation /\ ~HeadKept
<1>1. LastRight
  BY DEF Line, HostLine, LastLine
<1>2. Known = Count
  <2>1. PICK g : Opens(g, journal)
    BY OneOpens
  <2> QED
    BY <1>1, <2>1, KnownIsCount
<1>3. Count \in Nat
  BY DiskHolds DEF Line
<1>4. CASE HeadKept
  <2>1. queue[1].num = Count
    BY <1>4 DEF HeadKept, Place, DiskPlace
  <2> QED
    BY <1>1, <1>2, <1>3, <1>4, <2>1
<1>5. CASE ~HeadKept
  <2>1. HeadNext(base)
    BY <1>5 DEF Line, HeadLine, HeadHalf
  <2>2. /\ Opens(Generation, journal)
        /\ queue[1].gen = Generation /\ queue[1].num = Count + 1
    BY <2>1 DEF HeadNext, Succeeds, DiskPlace
  <2> QED
    BY <1>1, <1>2, <1>3, <1>5, <2>2
<1> QED
  BY <1>4, <1>5

\* Answers that change nothing on the disk.
LEMMA LineAnswers ==
  ASSUME TypeInv, NEW base \in [Nat -> Nat], Line(base), NEW s \in Slots,
         Fails(s) \/ (AddRecord(s) /\ Record(s).num # Known + 1)
  PROVE  Line(base)' /\ OnDisk' = OnDisk
<1>1. TypeOK
  BY DEF TypeInv
<1>2. /\ UNCHANGED <<phase, read, snapshot, journal, book, kept, queue, awaiting, confirmed>>
      /\ last' \in {last, Known}
  BY DEF Fails, AddRecord, enclaveVars
<1>3. CASE Answer(s, "refused")
  <2>1. HostLine'
    BY <1>1, <1>2, <1>3, AnswerLine
  <2> QED
    BY <1>2, <2>1, LineStill DEF Line
<1>4. CASE ~Answer(s, "refused")
  <2>1. ~IsSnapshot(asks[s].job) /\ asks[s].job.num <= Known /\ Answer(s, "kept")
    BY <1>4 DEF Fails, AddRecord, Record
  <2>2. ASSUME s = awaiting PROVE HeadKept /\ LastRight
    <3>1. s # Nobody
      BY BookAssumption
    <3>2. queue # <<>> /\ asks[s].job = queue[1]
      BY <2>2, <3>1 DEF TypeInv, WaitsForAJob, Line, HostLine, WaitLine
    <3> QED
      BY <1>1, <2>1, <3>2, HeadRecord
  <2>3. HostLine'
    BY <1>1, <1>2, <2>1, <2>2, AnswerLine
  <2> QED
    BY <1>2, <2>3, LineStill DEF Line
<1> QED
  BY <1>3, <1>4

LEMMA SumBounds ==
  ASSUME NEW a \in Nat, NEW b \in Nat
  PROVE  a <= a + b /\ (b # 0 => a + b \in 1..(a + b))
  OBVIOUS

\* What a job on the disk carries is on the disk.
LEMMA HeadOnDisk ==
  ASSUME TypeOK, NEW base \in [Nat -> Nat], Line(base), HeadKept
  PROVE  ChangesIn(queue[1].data) \subseteq ChangesIn(OnDisk)
<1>1. OnDisk \in Seq(1..MaxChanges) /\ Begins(OnDisk, book)
  BY DiskHolds DEF Line
<1>5. Len(OnDisk) = base[Generation] + Count /\ Count \in Nat /\ base[Generation] \in Nat
  BY DiskHolds DEF Line, HeadKept
<1>2. queue[1].gen = Generation /\ queue[1].num = Count /\ Carried(base, queue[1]) /\ queue[1] \in Jobs
  <2>1. queue \in Seq(Jobs) /\ queue # <<>>
    BY DEF TypeOK, HeadKept
  <2>2. 1 \in 1..Len(queue)
    BY <2>1, EmptySeq
  <2> QED
    BY <2>1, <2>2, ElementOfSeq DEF HeadKept, Place, DiskPlace, Line, QueueLine
<1>3. CASE IsSnapshot(queue[1])
  <2>1. Begins(queue[1].data, book) /\ queue[1].data \in Seq(1..MaxChanges)
    BY <1>2, <1>3 DEF Carried, Jobs
  <2>2. Len(queue[1].data) = base[Generation]
    BY <1>2, <1>3 DEF Carried
  <2>3. Len(queue[1].data) <= Len(OnDisk)
    BY <1>5, <2>2, SumBounds, Zenon
  <2> QED
    BY <1>1, <2>1, <2>3, DiskGrows
<1>4. CASE ~IsSnapshot(queue[1])
  <2>1. queue[1].data = <<book[base[Generation] + Count]>> /\ Count # 0
    BY <1>2, <1>4 DEF Carried, IsSnapshot
  <2>2. base[Generation] + Count \in 1..Len(OnDisk)
    BY <1>5, <2>1, SumBounds, Zenon
  <2>3. OnDisk[base[Generation] + Count] = book[base[Generation] + Count]
    BY <1>1, <2>2 DEF Begins
  <2>4. ChangesIn(queue[1].data) = {book[base[Generation] + Count]}
    BY <2>1 DEF ChangesIn
  <2> QED
    BY <2>2, <2>3, <2>4 DEF ChangesIn
<1> QED
  BY <1>3, <1>4

\* The host's answer arrives: what it stands for is on the disk.
LEMMA LineHearKept ==
  ASSUME TypeInv, NEW base \in [Nat -> Nat], Line(base), HearKept
  PROVE  Line(base)' /\ OnDisk' = OnDisk
<1>1. /\ TypeOK /\ queue \in Seq(Jobs) /\ queue # <<>> /\ HostLine /\ QueueLine(base)
      /\ asks \in [Slots -> [job : Jobs, at : Stages]] /\ awaiting \in Slots
  BY DEF TypeInv, TypeOK, HearKept, WaitsForAJob, Line
<1>2. /\ queue' = Tail(queue) /\ awaiting' = Nobody /\ asks' = [asks EXCEPT ![awaiting] = NoAsk]
      /\ confirmed' = confirmed \cup ChangesIn(queue[1].data)
      /\ UNCHANGED <<phase, read, book, kept, snapshot, journal, last>>
  BY <1>1 DEF HearKept
<1>3. HeadKept /\ LastRight
  BY <1>1 DEF HearKept, HostLine, WaitLine
<1>4. Generation' = Generation /\ Count' = Count /\ Mark' = Mark /\ DiskPlace' = DiskPlace
  BY <1>2 DEF Generation, Count, Whole, EndsTorn, IsTorn, Mark, DiskPlace
<1>5. \A g : Opens(g, journal)' = Opens(g, journal)
  BY <1>2 DEF Opens, Whole, EndsTorn, IsTorn, Place
<1>6. OnDisk' = OnDisk
  BY <1>2, <1>4, <1>5 DEF OnDisk, Replay, Whole, EndsTorn, IsTorn, Opens, Place
<1>7. \A job : Carried(base, job)' <=> Carried(base, job)
  BY <1>2 DEF Carried, Begins
<1>8. DiskLine(base)'
  BY <1>2, <1>4, <1>7 DEF Line, DiskLine, Begins
<1>9. /\ Len(queue) \in Nat \ {0} /\ Len(queue') = Len(queue) - 1
      /\ \A i \in 1..Len(queue') : queue'[i] = queue[i + 1]
      /\ queue' = <<>> <=> Len(queue') = 0
  BY <1>1, <1>2, HeadTailProperties, EmptySeq
<1>10. QueueLine(base)'
  <2>1. ASSUME NEW i \in 1..Len(queue')
        PROVE  queue'[i].gen \in 1..kept.generation /\ Carried(base, queue'[i])
    <3>1. i + 1 \in 1..Len(queue) /\ queue'[i] = queue[i + 1]
      BY <1>9
    <3>2. queue[i + 1].gen \in 1..kept.generation /\ Carried(base, queue[i + 1])
      BY <1>1, <3>1 DEF QueueLine
    <3> QED
      BY <3>1, <3>2
  <2>2. ASSUME NEW i \in 1..(Len(queue') - 1)
        PROVE  Succeeds(base, Place(queue'[i]), queue'[i + 1])
    <3>1. i + 1 \in 1..(Len(queue) - 1) /\ i \in 1..Len(queue') /\ i + 1 \in 1..Len(queue')
      BY <1>9
    <3>2. queue'[i] = queue[i + 1] /\ queue'[i + 1] = queue[i + 1 + 1]
      BY <1>9, <3>1
    <3>3. Succeeds(base, Place(queue[i + 1]), queue[i + 1 + 1])
      BY <1>1, <3>1 DEF QueueLine
    <3> QED
      BY <3>2, <3>3
  <2>3. Len(book)' = base[kept'.generation] + kept'.next - 1
    BY <1>1, <1>2 DEF QueueLine
  <2>4. (IF queue' = <<>> THEN DiskPlace ELSE Place(queue'[Len(queue')])) = Mark
    <3>1. Place(queue[Len(queue)]) = Mark
      BY <1>1 DEF QueueLine
    <3>2. CASE queue' = <<>>
      <4>1. Len(queue) = 1
        BY <1>9, <3>2
      <4> QED
        BY <1>3, <3>1, <3>2, <4>1 DEF HeadKept
    <3>3. CASE queue' # <<>>
      <4>1. Len(queue') \in 1..Len(queue') /\ Len(queue') + 1 = Len(queue)
        BY <1>9, <3>3
      <4>2. queue'[Len(queue')] = queue[Len(queue)]
        BY <1>9, <4>1
      <4> QED
        BY <3>1, <3>3, <4>2
    <3> QED
      BY <3>2, <3>3
  <2>5. \A i \in 1..(Len(queue') - 1) : Succeeds(base, Place(queue[i]), queue[i + 1])'
    BY <2>2 DEF Succeeds, Place, IsSnapshot
  <2>6. (IF queue = <<>> THEN DiskPlace ELSE Place(queue[Len(queue)]))' = Mark'
    BY <1>4, <2>4 DEF Place
  <2>7. \A i \in 1..Len(queue') : (queue[i].gen \in 1..kept.generation /\ Carried(base, queue[i]))'
    BY <1>2, <2>1 DEF Carried, Begins, IsSnapshot
  <2> QED
    BY <2>3, <2>5, <2>6, <2>7 DEF QueueLine
<1>11. HeadLine(base)'
  <2>1. Opens(Generation, journal)'
    BY <1>3, <1>4, <1>5 DEF HeadKept
  <2>2. ASSUME queue' # <<>> PROVE Succeeds(base, DiskPlace, queue'[1])
    <3>1. 1 \in 1..(Len(queue) - 1) /\ 1 \in 1..Len(queue')
      BY <1>9, <2>2
    <3>2. Succeeds(base, Place(queue[1]), queue[1 + 1]) /\ queue'[1] = queue[1 + 1]
      BY <1>1, <1>9, <3>1 DEF QueueLine
    <3> QED
      BY <1>3, <3>2 DEF HeadKept
  <2>3. queue' # <<>> => Succeeds(base, DiskPlace, queue[1])'
    BY <1>4, <2>2 DEF Succeeds, IsSnapshot
  <2>4. HeadNext(base)'
    BY <2>1, <2>3 DEF HeadNext
  <2> QED
    BY <2>4 DEF HeadLine
<1>12. HostLine'
  <2>1. LastRight'
    BY <1>2, <1>3, <1>4 DEF LastRight
  <2>2. \A t \in Slots : asks'[t] \in {asks[t], NoAsk}
    BY <1>1, <1>2
  <2>3. \A t \in Slots : AskLine(t)'
    BY <1>1, <1>2, <2>2 DEF HostLine, AskLine, NoAsk, IsSnapshot
  <2> QED
    BY <1>2, <2>1, <2>3 DEF HostLine, LastLine, WaitLine
<1>13. confirmed' \subseteq ChangesIn(OnDisk)'
  <2>1. ChangesIn(OnDisk)' = ChangesIn(OnDisk)
    BY <1>6 DEF ChangesIn
  <2>2. confirmed \subseteq ChangesIn(OnDisk)
    BY DEF Line
  <2> QED
    BY <1>1, <1>2, <1>3, <2>1, <2>2, HeadOnDisk
<1> QED
  BY <1>2, <1>6, <1>8, <1>10, <1>11, <1>12, <1>13 DEF Line

-----------------------------------------------------------------------------
(* What the host writes.                                                   *)

DiskFacts(base) ==
  /\ OnDisk \in Seq(1..MaxChanges)
  /\ Begins(OnDisk, book)
  /\ Len(OnDisk) = base[Generation] + (IF Opens(Generation, journal) THEN Count ELSE 0)
  /\ Count \in Nat /\ Generation \in Nat \ {0} /\ base[Generation] \in Nat
DiskTruth == \A base \in [Nat -> Nat] : TypeOK /\ DiskLine(base) => DiskFacts(base)

LEMMA DiskAlways == DiskTruth
  BY DiskHolds DEF DiskTruth, DiskFacts

\* The line after a write that nothing is confirmed by.
LEMMA LineWrites ==
  ASSUME TypeOK, TypeOK', NEW base \in [Nat -> Nat], Line(base),
         DiskLine(base)', QueueLine(base)', HeadLine(base)', HostLine',
         UNCHANGED <<phase, book, confirmed>>, phase # "opening",
         Len(OnDisk) <= Len(OnDisk')
  PROVE  Line(base)'
<1>1. DiskFacts(base)
  BY DiskAlways DEF DiskTruth, Line
<1>2. DiskTruth'
  BY DiskAlways, PTL
<1>3. DiskFacts(base)'
  BY <1>2 DEF DiskTruth
<1>4. OnDisk' \in Seq(1..MaxChanges) /\ OnDisk \in Seq(1..MaxChanges)
  BY <1>1, <1>3 DEF DiskFacts
<1>5. Begins(OnDisk, book) /\ Begins(OnDisk', book)
  BY <1>1, <1>3 DEF DiskFacts, Begins
<1>6. ChangesIn(OnDisk) \subseteq ChangesIn(OnDisk')
  BY <1>4, <1>5, DiskGrows
<1>7. (confirmed \subseteq ChangesIn(OnDisk))'
  BY <1>6 DEF Line, ChangesIn
<1> QED
  BY <1>7 DEF Line

LEMMA QueueStill ==
  ASSUME NEW base \in [Nat -> Nat], QueueLine(base), UNCHANGED <<book, kept, queue>>, queue # <<>>
  PROVE  QueueLine(base)'
<1>1. \A job : Carried(base, job)' <=> Carried(base, job)
  BY DEF Carried, Begins
<1>2. \A i \in 1..(Len(queue) - 1) : Succeeds(base, Place(queue[i]), queue[i + 1])'
  BY DEF QueueLine, Succeeds, IsSnapshot, Place
<1>3. Mark' = Mark /\ \A job : Place(job)' = Place(job)
  BY DEF Mark, Place
<1> QED
  BY <1>1, <1>2, <1>3 DEF QueueLine

\* A record at the end of a journal that does not end in a broken one.
LEMMA JournalGrows ==
  ASSUME TypeOK, NEW r \in Jobs, ~EndsTorn(journal), journal' = Append(journal, r)
  PROVE  /\ Count' = IF IsTorn(r) THEN Count ELSE Count + 1
         /\ Count \in Nat
         /\ \A i \in 1..Count : journal'[i] = journal[i]
         /\ journal'[Count + 1] = r
<1>1. journal \in Seq(Jobs) /\ journal' \in Seq(Jobs) /\ journal' # <<>>
  <2>1. journal \in Seq(Jobs)
    BY DEF TypeOK
  <2> QED
    BY <2>1, AppendProperties
<1>2. Count = Len(journal)
  BY <1>1, WholeType DEF Count
<1>3. /\ Len(journal) \in Nat /\ Len(journal') = Len(journal) + 1
      /\ \A i \in 1..Len(journal) : journal'[i] = journal[i]
      /\ journal'[Len(journal) + 1] = r
  BY <1>1, AppendProperties
<1>4. EndsTorn(journal') <=> IsTorn(r)
  BY <1>1, <1>3 DEF EndsTorn
<1>5. Len(Whole(journal')) = IF EndsTorn(journal') THEN Len(journal') - 1 ELSE Len(journal')
  BY <1>1, WholeType
<1>6. Len(journal') - 1 = Len(journal)
  BY <1>3
<1>7. Count' = Len(Whole(journal'))
  BY DEF Count, Whole, EndsTorn, IsTorn
<1> QED
  BY <1>2, <1>3, <1>4, <1>5, <1>6, <1>7

\* An ask the enclave waits for, or would offer next, when the host writes for it.
LEMMA WriteAwaited ==
  ASSUME TypeInv, NEW s \in Slots, Spoils(s), spoilt' = {}
  PROVE  /\ spoilt = {} /\ phase # "opening" /\ queue # <<>> /\ asks[s].job = queue[1]
         /\ IsSnapshot(asks[s].job) \/ ~EndsTorn(journal)
         /\ queue \in Seq(Jobs) /\ queue[1] \in Jobs /\ 1 \in 1..Len(queue)
<1>1. queue \in Seq(Jobs)
  BY DEF TypeInv, TypeOK
<1>2. spoilt = {} /\ Awaited(asks[s].job) /\ (IsSnapshot(asks[s].job) \/ ~EndsTorn(journal))
  BY DEF Spoils
<1>3. phase # "opening" /\ queue # <<>> /\ asks[s].job = queue[1]
  BY <1>2 DEF Awaited
<1>4. 1 \in 1..Len(queue)
  BY <1>1, <1>3, EmptySeq
<1> QED
  BY <1>1, <1>2, <1>3, <1>4, ElementOfSeq

\* A snapshot at the head of the queue that is of no later generation than the disk's is
\* the one on the disk.
LEMMA HeadWritten ==
  ASSUME TypeOK, NEW base \in [Nat -> Nat], Line(base), queue # <<>>, IsSnapshot(queue[1]),
         snapshot # NoJob, queue[1].gen <= snapshot.gen
  PROVE  queue[1].gen = Generation /\ (HeadKept \/ HeadHalf)
<1>1. Generation = snapshot.gen /\ Generation \in Nat
  BY DiskHolds DEF Generation, Line
<1>2. CASE HeadNext(base)
  <2>1. queue[1].gen = Generation + 1
    BY <1>2 DEF HeadNext, Succeeds, DiskPlace
  <2>2. \A g \in Nat : ~(g + 1 <= g)
    OBVIOUS
  <2> QED
    BY <1>1, <2>1, <2>2, Zenon
<1>3. CASE HeadKept
  BY <1>3 DEF HeadKept, Place, DiskPlace
<1>4. CASE HeadHalf
  BY <1>4 DEF HeadHalf
<1> QED
  BY <1>2, <1>3, <1>4 DEF Line, HeadLine

LEMMA LineForget ==
  ASSUME TypeInv, NEW base \in [Nat -> Nat], Line(base), NEW s \in Slots, Forget(s)
  PROVE  Line(base)' /\ OnDisk' = OnDisk
<1>1. /\ TypeOK /\ HostLine /\ asks \in [Slots -> [job : Jobs, at : Stages]]
      /\ awaiting # Nobody => queue # <<>>
      /\ s # Nobody
  BY BookAssumption DEF TypeInv, TypeOK, WaitsForAJob, Line
<1>2. /\ UNCHANGED <<phase, read, book, kept, queue, snapshot, journal, awaiting, confirmed>>
      /\ last' = 0 /\ Answer(s, "kept") /\ asks[s].at = "removed"
  BY DEF Forget, enclaveVars
<1>3. Count' = Count /\ LastRight'
  BY <1>2 DEF Count, Whole, EndsTorn, IsTorn, LastRight
<1>4. HeadKept => HeadKept'
  BY <1>2, <1>3 DEF HeadKept, Opens, Whole, EndsTorn, IsTorn, Place, DiskPlace, Generation
<1>5. \A t \in Slots :
        \/ asks'[t] = asks[t] \/ asks'[t] = NoAsk
        \/ t = s /\ s = awaiting /\ asks'[t].job = asks[t].job /\ asks'[t].at = "kept"
  BY <1>1, <1>2 DEF Answer
<1>6. \A t \in Slots : AskLine(t)'
  <2>1. \A t \in Slots : asks'[t].at \in {"renamed", "removed"} => asks'[t] = asks[t]
    BY <1>5 DEF NoAsk
  <2>2. \A t \in Slots : AskLine(t)
    BY <1>1 DEF HostLine
  <2> QED
    BY <1>2, <2>1, <2>2 DEF AskLine, IsSnapshot
<1>7. s = awaiting => HeadKept
  <2> SUFFICES ASSUME s = awaiting PROVE HeadKept
    OBVIOUS
  <2>1. /\ queue # <<>> /\ asks[s].job = queue[1] /\ journal = <<>>
        /\ IsSnapshot(queue[1]) /\ snapshot # NoJob /\ queue[1].gen <= snapshot.gen
    BY <1>1, <1>2 DEF HostLine, WaitLine, AskLine
  <2>2. Count = 0
    BY <2>1, EmptySeq DEF Count, Whole, EndsTorn
  <2>3. Opens(Generation, journal)
    BY <2>2 DEF Opens, Count
  <2>4. queue[1].gen = Generation
    BY <1>1, <2>1, HeadWritten
  <2> QED
    BY <2>1, <2>2, <2>3, <2>4 DEF HeadKept, Place, DiskPlace, IsSnapshot
<1>8. WaitLine'
  <2> SUFFICES ASSUME awaiting # Nobody
               PROVE  /\ asks'[awaiting].job = queue[1]
                      /\ asks'[awaiting].at = "removed" => journal = <<>>
                      /\ asks'[awaiting].at = "kept" => (HeadKept /\ LastRight)'
    BY <1>2 DEF WaitLine
  <2>1. /\ awaiting \in Slots
        /\ asks[awaiting].job = queue[1]
        /\ asks[awaiting].at = "removed" => journal = <<>>
        /\ asks[awaiting].at = "kept" => HeadKept /\ LastRight
    BY <1>1 DEF HostLine, WaitLine, TypeOK
  <2>2. CASE s = awaiting
    <3>1. asks'[awaiting].job = asks[awaiting].job /\ asks'[awaiting].at = "kept"
      BY <1>1, <1>2, <2>2 DEF Answer
    <3> QED
      BY <1>3, <1>4, <1>7, <2>1, <2>2, <3>1
  <2>3. CASE s # awaiting
    <3>1. asks'[awaiting] = asks[awaiting]
      BY <1>1, <1>2, <2>1, <2>3 DEF Answer
    <3> QED
      BY <1>3, <1>4, <2>1, <3>1
  <2> QED
    BY <2>2, <2>3
<1>9. HostLine'
  BY <1>3, <1>6, <1>8 DEF HostLine, LastLine
<1> QED
  BY <1>2, <1>9, LineStill DEF Line

LEMMA LineRemoveJournal ==
  ASSUME TypeInv, TypeOK', NEW base \in [Nat -> Nat], Line(base), NEW s \in Slots,
         RemoveJournal(s), spoilt' = {}
  PROVE  Line(base)' /\ Len(OnDisk) <= Len(OnDisk')
<1>1. /\ TypeOK /\ HostLine /\ DiskLine(base) /\ QueueLine(base)
      /\ asks \in [Slots -> [job : Jobs, at : Stages]]
  BY DEF TypeInv, TypeOK, Line
<1>2. /\ UNCHANGED <<phase, read, book, kept, queue, snapshot, last, awaiting, confirmed>>
      /\ journal' = <<>> /\ asks[s].at = "renamed" /\ Spoils(s)
      /\ asks' = [asks EXCEPT ![s].at = "removed"]
  BY DEF RemoveJournal, enclaveVars
<1>3. phase # "opening" /\ queue # <<>> /\ asks[s].job = queue[1]
  BY <1>2, WriteAwaited
<1>4. IsSnapshot(queue[1]) /\ snapshot # NoJob /\ queue[1].gen <= snapshot.gen
  BY <1>1, <1>2, <1>3 DEF HostLine, AskLine
<1>5. queue[1].gen = Generation /\ (HeadKept \/ HeadHalf)
  BY <1>1, <1>3, <1>4, HeadWritten
<1>6. Generation' = Generation /\ Count' = 0 /\ Opens(Generation, journal)'
  <2>1. Whole(journal') = <<>> /\ Len(<<>>) = 0
    BY <1>2 DEF Whole, EndsTorn
  <2>2. Count' = Len(Whole(journal'))
    BY DEF Count, Whole, EndsTorn, IsTorn
  <2>3. Generation' = Generation
    BY <1>2 DEF Generation
  <2>4. \A g : Opens(g, journal')
    BY <2>1 DEF Opens
  <2> QED
    BY <2>1, <2>2, <2>3, <2>4 DEF Opens, Whole, EndsTorn, IsTorn, Place
<1>7. DiskLine(base)'
  BY <1>1, <1>2, <1>6 DEF DiskLine, Begins, IsSnapshot
<1>8. QueueLine(base)'
  BY <1>1, <1>2, <1>3, QueueStill
<1>9. HeadKept'
  BY <1>2, <1>3, <1>4, <1>5, <1>6 DEF HeadKept, DiskPlace, Place, IsSnapshot
<1>10. HostLine'
  <2>1. LastLine'
    BY <1>2, <1>3, <1>4 DEF LastLine, IsSnapshot
  <2>2. asks'[s].job = asks[s].job /\ asks'[s].at = "removed" /\ \A t \in Slots \ {s} : asks'[t] = asks[t]
    BY <1>1, <1>2
  <2>3. \A t \in Slots : AskLine(t)'
    BY <1>1, <1>2, <1>3, <1>4, <2>2 DEF HostLine, AskLine, IsSnapshot
  <2>4. WaitLine'
    <3> SUFFICES ASSUME awaiting # Nobody
                 PROVE  /\ asks'[awaiting].job = queue[1]
                        /\ asks'[awaiting].at = "kept" => (HeadKept /\ LastRight)'
      BY <1>2 DEF WaitLine
    <3>1. /\ awaiting \in Slots /\ asks[awaiting].job = queue[1]
          /\ asks[awaiting].at = "kept" => HeadKept /\ LastRight
      BY <1>1 DEF HostLine, WaitLine, TypeOK
    <3>2. CASE awaiting = s
      BY <2>2, <3>1, <3>2
    <3>3. CASE awaiting # s
      <4>1. asks'[awaiting] = asks[awaiting]
        BY <2>2, <3>1, <3>3
      <4>2. HeadKept /\ LastRight => LastRight'
        <5>1. HeadKept => Count = 0
          BY <1>4 DEF HeadKept, Place, DiskPlace, IsSnapshot
        <5> QED
          BY <1>2, <1>6, <5>1 DEF LastRight
      <4> QED
        BY <1>9, <3>1, <4>1, <4>2
    <3> QED
      BY <3>2, <3>3
  <2> QED
    BY <2>1, <2>3, <2>4 DEF HostLine
<1>11. Len(OnDisk) <= Len(OnDisk')
  <2>1. DiskFacts(base)
    BY <1>1, DiskAlways DEF DiskTruth
  <2>2. DiskTruth'
    BY DiskAlways, PTL
  <2>3. DiskFacts(base)'
    BY <1>7, <2>2 DEF DiskTruth
  <2>4. Opens(Generation, journal) => Count = 0
    <3>1. CASE HeadKept
      BY <1>4, <3>1 DEF HeadKept, Place, DiskPlace, IsSnapshot
    <3>2. CASE HeadHalf
      <4> SUFFICES ASSUME Opens(Generation, journal), Count # 0 PROVE FALSE
        OBVIOUS
      <4>1. 1 \in 1..Count /\ Generation = snapshot.gen /\ Generation \in Nat
        <5>1. Count \in Nat /\ Generation \in Nat
          BY <2>1 DEF DiskFacts
        <5>2. Generation = snapshot.gen
          BY <1>4 DEF Generation
        <5> QED
          BY <5>1, <5>2
      <4>2. journal[1].gen = Generation /\ journal[1].gen = Generation - 1
        BY <3>2, <4>1 DEF Opens, Place, Count, HeadHalf
      <4>3. \A g \in Nat : g # g - 1
        OBVIOUS
      <4> QED
        BY <4>1, <4>2, <4>3, Zenon
    <3> QED
      BY <1>5, <3>1, <3>2
  <2>5. Len(OnDisk) = base[Generation] + 0
    BY <2>1, <2>4, Zenon DEF DiskFacts
  <2>6. Len(OnDisk') = base[Generation] + 0
    BY <1>6, <2>3 DEF DiskFacts
  <2>7. base[Generation] \in Nat
    BY <2>1 DEF DiskFacts
  <2> QED
    BY <2>5, <2>6, <2>7
<1> QED
  BY <1>1, <1>2, <1>3, <1>7, <1>8, <1>9, <1>10, <1>11, LineWrites DEF HeadLine

\* A write to the journal breaks off: a start reads what it read before.
LEMMA LineTorn ==
  ASSUME TypeInv, TypeOK', NEW base \in [Nat -> Nat], Line(base), NEW s \in Slots,
         TornAppend(s), spoilt' = {}
  PROVE  Line(base)' /\ OnDisk' = OnDisk
<1>1. /\ TypeOK /\ HostLine /\ DiskLine(base) /\ QueueLine(base)
      /\ asks \in [Slots -> [job : Jobs, at : Stages]]
      /\ s # Nobody
  BY BookAssumption DEF TypeInv, TypeOK, Line
<1>2. /\ UNCHANGED <<phase, read, book, kept, queue, snapshot, awaiting, confirmed>>
      /\ journal' = Append(journal, Torn(asks[s].job)) /\ Spoils(s)
      /\ ~IsSnapshot(asks[s].job) /\ asks[s].job.num = Known + 1
      /\ last' = Known /\ Answer(s, "refused")
  BY DEF TornAppend, enclaveVars, Record
<1>3. /\ phase # "opening" /\ queue # <<>> /\ asks[s].job = queue[1] /\ ~EndsTorn(journal)
      /\ asks[s].job \in Jobs
  BY <1>2, WriteAwaited
<1>4. LastRight /\ Known = Count /\ ~HeadKept /\ Opens(Generation, journal)
  BY <1>1, <1>2, <1>3, HeadRecord
<1>5. IsTorn(Torn(asks[s].job)) /\ Torn(asks[s].job) \in Jobs
  BY <1>3, TornType DEF IsTorn, Torn, Jobs
<1>6. Count' = Count /\ \A i \in 1..Count : journal'[i] = journal[i]
  BY <1>1, <1>2, <1>3, <1>5, JournalGrows
<1>7. Generation' = Generation /\ DiskPlace' = DiskPlace
  BY <1>2, <1>6 DEF Generation, DiskPlace
<1>8. \A g : Opens(g, journal) => Opens(g, journal')
  <2>1. \A i \in 1..Len(Whole(journal')) : i \in 1..Len(Whole(journal)) /\ journal'[i] = journal[i]
    BY <1>6 DEF Count
  <2> QED
    BY <2>1 DEF Opens
<1>9. OnDisk' = OnDisk
  <2>1. Len(Whole(journal')) = Len(Whole(journal))
    BY <1>6 DEF Count
  <2>2. [i \in 1..Len(Whole(journal')) |-> journal'[i].data[1]] = [i \in 1..Len(Whole(journal)) |-> journal[i].data[1]]
    BY <1>6, <2>1 DEF Count
  <2>3. Replay(snapshot.data, journal') = Replay(snapshot.data, journal)
    BY <2>2 DEF Replay
  <2>4. OnDisk = Replay(snapshot.data, journal)
    BY <1>4 DEF OnDisk
  <2>5. Opens(Generation', journal')
    BY <1>4, <1>7, <1>8
  <2>6. OnDisk' = Replay(snapshot'.data, journal')
    BY <2>5 DEF OnDisk, Opens, Replay, Whole, EndsTorn, IsTorn, Place
  <2> QED
    BY <1>2, <2>3, <2>4, <2>6
<1>10. DiskLine(base)'
  <2>1. \A job : Carried(base, job)' <=> Carried(base, job)
    BY <1>2 DEF Carried, Begins
  <2>2. \A i \in 1..Count : Carried(base, journal'[i])
    BY <1>1, <1>6 DEF DiskLine
  <2>3. \A i \in 1..Count' : Carried(base, journal[i])'
    BY <1>2, <1>6, <2>2 DEF Carried, Begins, IsSnapshot
  <2> QED
    BY <1>1, <1>2, <1>7, <2>3 DEF DiskLine, Begins, IsSnapshot
<1>11. QueueLine(base)'
  BY <1>1, <1>2, <1>3, QueueStill
<1>12. HeadLine(base)'
  <2>1. HeadNext(base)
    BY <1>2, <1>3, <1>4 DEF Line, HeadLine, HeadHalf
  <2>2. Opens(Generation, journal)'
    BY <1>4, <1>7, <1>8 DEF Opens, Whole, EndsTorn, IsTorn, Place
  <2>3. Succeeds(base, DiskPlace, queue[1])'
    BY <1>2, <1>3, <1>7, <2>1 DEF HeadNext, Succeeds, IsSnapshot
  <2> QED
    BY <2>2, <2>3 DEF HeadLine, HeadNext
<1>13. HostLine'
  <2>1. LastRight'
    BY <1>2, <1>4, <1>6 DEF LastRight
  <2>2. \A t \in Slots :
          \/ asks'[t] = asks[t] \/ asks'[t] = NoAsk
          \/ t = s /\ s = awaiting /\ asks'[t].job = asks[t].job /\ asks'[t].at = "refused"
    BY <1>1, <1>2 DEF Answer
  <2>3. \A t \in Slots : AskLine(t)'
    <3>1. \A t \in Slots : asks'[t].at \in {"renamed", "removed"} => asks'[t] = asks[t]
      BY <2>2 DEF NoAsk
    <3>2. \A t \in Slots : AskLine(t)
      BY <1>1 DEF HostLine
    <3> QED
      BY <1>2, <3>1, <3>2 DEF AskLine, IsSnapshot
  <2>4. WaitLine'
    <3> SUFFICES ASSUME awaiting # Nobody
                 PROVE  asks'[awaiting].job = queue[1] /\ asks'[awaiting].at \notin {"removed", "kept"}
      BY <1>2 DEF WaitLine
    <3>1. /\ awaiting \in Slots /\ asks[awaiting].job = queue[1] /\ asks[awaiting].at # "kept"
          /\ asks[awaiting].at # "removed"
      BY <1>1, <1>2, <1>3, <1>4 DEF HostLine, WaitLine, AskLine, TypeOK
    <3>2. CASE awaiting = s
      BY <1>1, <1>2, <3>1, <3>2 DEF Answer
    <3>3. CASE awaiting # s
      BY <1>1, <1>2, <3>1, <3>3 DEF Answer
    <3> QED
      BY <3>2, <3>3
  <2> QED
    BY <2>1, <2>3, <2>4 DEF HostLine, LastLine
<1>14. Len(OnDisk) <= Len(OnDisk')
  <2>1. DiskFacts(base)
    BY <1>1, DiskAlways DEF DiskTruth
  <2>2. Len(OnDisk) \in Nat
    BY <2>1 DEF DiskFacts
  <2> QED
    BY <1>9, <2>2
<1> QED
  BY <1>1, <1>2, <1>3, <1>9, <1>10, <1>11, <1>12, <1>13, <1>14, LineWrites

\* A record in its turn: the disk goes one change further.
LEMMA LineAppend ==
  ASSUME TypeInv, TypeOK', NEW base \in [Nat -> Nat], Line(base), NEW s \in Slots,
         AddRecord(s), Record(s).num = Known + 1, spoilt' = {}
  PROVE  Line(base)' /\ Len(OnDisk) <= Len(OnDisk')
<1>1. /\ TypeOK /\ HostLine /\ DiskLine(base) /\ QueueLine(base)
      /\ asks \in [Slots -> [job : Jobs, at : Stages]]
      /\ s # Nobody
  BY BookAssumption DEF TypeInv, TypeOK, Line
<1>2. /\ UNCHANGED <<phase, read, book, kept, queue, snapshot, awaiting, confirmed>>
      /\ journal' = Append(journal, asks[s].job) /\ Spoils(s)
      /\ ~IsSnapshot(asks[s].job) /\ asks[s].job.num = Known + 1
      /\ last' = asks[s].job.num /\ Answer(s, "kept")
  <2>1. \A n \in Nat : ~(n + 1 <= n) /\ ~(n + 1 > n + 1)
    OBVIOUS
  <2>2. Known \in Nat
    BY <1>1, KnownType
  <2>3. ~(Record(s).num <= Known) /\ ~(Record(s).num > Known + 1)
    BY <2>1, <2>2, Zenon
  <2> QED
    BY <2>3 DEF AddRecord, enclaveVars, Record
<1>3. /\ phase # "opening" /\ queue # <<>> /\ asks[s].job = queue[1] /\ ~EndsTorn(journal)
      /\ asks[s].job \in Jobs /\ 1 \in 1..Len(queue)
  BY <1>2, WriteAwaited
<1>4. /\ Known = Count /\ Opens(Generation, journal) /\ queue[1].gen = Generation
      /\ queue[1].num = Count + 1
  BY <1>1, <1>2, <1>3, HeadRecord
<1>5. Carried(base, queue[1]) /\ ~IsTorn(queue[1])
  <2>1. Carried(base, queue[1])
    BY <1>1, <1>3 DEF QueueLine
  <2>2. \A x : <<x>> # <<>>
    OBVIOUS
  <2> QED
    BY <1>2, <1>3, <2>1, <2>2 DEF Carried, IsTorn
<1>6. /\ Count' = Count + 1 /\ Count \in Nat /\ \A i \in 1..Count : journal'[i] = journal[i]
      /\ journal'[Count + 1] = queue[1]
  BY <1>1, <1>2, <1>3, <1>5, JournalGrows
<1>7. Generation' = Generation
  BY <1>2 DEF Generation
<1>8. \A i \in 1..Count' : i \in 1..Count \/ i = Count + 1
  BY <1>6
<1>9. Opens(Generation, journal)'
  <2>1. ASSUME NEW i \in 1..Count' PROVE ~IsTorn(journal'[i]) /\ Place(journal'[i]) = <<Generation, i>>
    <3>1. CASE i \in 1..Count
      BY <1>4, <1>6, <3>1 DEF Opens, Count
    <3>2. CASE i = Count + 1
      BY <1>4, <1>5, <1>6, <3>2 DEF Place
    <3> QED
      BY <1>8, <3>1, <3>2
  <2> QED
    BY <1>7, <2>1 DEF Opens, Count, Whole, EndsTorn, IsTorn, Place
<1>10. DiskLine(base)'
  <2>1. \A i \in 1..Count' : Carried(base, journal'[i])
    BY <1>1, <1>5, <1>6, <1>8 DEF DiskLine
  <2>2. \A i \in 1..Count' : Carried(base, journal[i])'
    BY <1>2, <2>1 DEF Carried, Begins, IsSnapshot
  <2> QED
    BY <1>1, <1>2, <1>7, <2>2 DEF DiskLine, Begins, IsSnapshot
<1>11. QueueLine(base)'
  BY <1>1, <1>2, <1>3, QueueStill
<1>12. HeadKept'
  BY <1>2, <1>3, <1>4, <1>6, <1>7, <1>9 DEF HeadKept, Place, DiskPlace
<1>13. HostLine'
  <2>1. LastRight'
    BY <1>2, <1>3, <1>4, <1>6 DEF LastRight
  <2>2. \A t \in Slots :
          \/ asks'[t] = asks[t] \/ asks'[t] = NoAsk
          \/ t = s /\ s = awaiting /\ asks'[t].job = asks[t].job /\ asks'[t].at = "kept"
    BY <1>1, <1>2 DEF Answer
  <2>3. \A t \in Slots : AskLine(t)'
    <3>1. \A t \in Slots : asks'[t].at \in {"renamed", "removed"} => asks'[t] = asks[t]
      BY <2>2 DEF NoAsk
    <3>2. \A t \in Slots : AskLine(t)
      BY <1>1 DEF HostLine
    <3> QED
      BY <1>2, <3>1, <3>2 DEF AskLine, IsSnapshot
  <2>4. WaitLine'
    <3> SUFFICES ASSUME awaiting # Nobody
                 PROVE  asks'[awaiting].job = queue[1] /\ asks'[awaiting].at # "removed"
      BY <1>2, <1>12, <2>1 DEF WaitLine
    <3>1. awaiting \in Slots /\ asks[awaiting].job = queue[1] /\ asks[awaiting].at # "removed"
      BY <1>1, <1>2, <1>3 DEF HostLine, WaitLine, AskLine, TypeOK
    <3>2. CASE awaiting = s
      BY <1>1, <1>2, <3>1, <3>2 DEF Answer
    <3>3. CASE awaiting # s
      BY <1>1, <1>2, <3>1, <3>3 DEF Answer
    <3> QED
      BY <3>2, <3>3
  <2> QED
    BY <2>1, <2>3, <2>4 DEF HostLine, LastLine
<1>14. Len(OnDisk) <= Len(OnDisk')
  <2>1. DiskFacts(base)
    BY <1>1, DiskAlways DEF DiskTruth
  <2>2. DiskTruth'
    BY DiskAlways, PTL
  <2>3. DiskFacts(base)'
    BY <1>10, <2>2 DEF DiskTruth
  <2>4. Len(OnDisk) = base[Generation] + Count /\ base[Generation] \in Nat
    BY <1>4, <2>1 DEF DiskFacts
  <2>5. Len(OnDisk') = base[Generation] + (Count + 1)
    BY <1>6, <1>7, <1>9, <2>3 DEF DiskFacts
  <2>6. \A x, y \in Nat : x + y <= x + (y + 1)
    OBVIOUS
  <2> QED
    BY <1>6, <2>4, <2>5, <2>6, Zenon
<1> QED
  BY <1>1, <1>2, <1>3, <1>10, <1>11, <1>12, <1>13, <1>14, LineWrites DEF HeadLine

\* A snapshot takes the place of the old one: a start finds the same book, whether or not
\* the journal is still there.
LEMMA LineRename ==
  ASSUME TypeInv, TypeOK', NEW base \in [Nat -> Nat], Line(base), NEW s \in Slots,
         Rename(s), spoilt' = {}
  PROVE  Line(base)' /\ Len(OnDisk) <= Len(OnDisk')
<1>1. /\ TypeOK /\ HostLine /\ DiskLine(base) /\ QueueLine(base)
      /\ asks \in [Slots -> [job : Jobs, at : Stages]]
  BY DEF TypeInv, TypeOK, Line
<1>2. /\ UNCHANGED <<phase, read, book, kept, queue, journal, last, awaiting, confirmed>>
      /\ snapshot' = asks[s].job /\ Spoils(s) /\ IsSnapshot(asks[s].job)
      /\ asks' = [asks EXCEPT ![s].at = "renamed"]
  BY DEF Rename, enclaveVars, Record
<1>3. /\ phase # "opening" /\ queue # <<>> /\ asks[s].job = queue[1] /\ 1 \in 1..Len(queue)
      /\ queue[1] \in Jobs
  BY <1>2, WriteAwaited
<1>4. /\ IsSnapshot(queue[1]) /\ queue[1].gen \in 1..kept.generation
      /\ Len(queue[1].data) = base[queue[1].gen] /\ Begins(queue[1].data, book)
  BY <1>1, <1>2, <1>3 DEF QueueLine, Carried
<1>5. snapshot' # NoJob /\ Generation' = queue[1].gen /\ snapshot'.gen = queue[1].gen
  <2>1. queue[1].gen # 0
    <3>1. kept.generation \in Nat
      BY <1>1 DEF TypeOK
    <3>2. \A n \in Nat : \A g \in 1..n : g # 0
      OBVIOUS
    <3> QED
      BY <1>4, <3>1, <3>2, Zenon
  <2>2. queue[1] # NoJob
    BY <2>1 DEF NoJob, Job
  <2> QED
    BY <1>2, <1>3, <2>2 DEF Generation
<1>6. Count' = Count /\ \A g : Opens(g, journal)' <=> Opens(g, journal)
  BY <1>2 DEF Opens, Count, Whole, EndsTorn, IsTorn, Place
<1>7. DiskFacts(base)
  BY <1>1, DiskAlways DEF DiskTruth
<1>8. \/ HeadNext(base) /\ queue[1].gen = Generation + 1 /\ base[queue[1].gen] = base[Generation] + Count
      \/ HeadKept /\ queue[1].gen = Generation /\ Count = 0
      \/ HeadHalf /\ queue[1].gen = Generation
  BY <1>3, <1>4
  DEF Line, HeadLine, HeadNext, HeadKept, HeadHalf, Succeeds, DiskPlace, Place, IsSnapshot
<1>9. DiskLine(base)'
  <2>1. \A job : Carried(base, job)' <=> Carried(base, job)
    BY <1>2 DEF Carried, Begins
  <2>2. \A i \in 1..Count' : Carried(base, journal[i])'
    BY <1>1, <1>2, <1>6, <2>1 DEF DiskLine
  <2>3. (Len(snapshot.data) = base[Generation] /\ Begins(snapshot.data, book))'
    BY <1>2, <1>3, <1>4, <1>5 DEF Begins
  <2>4. (IsSnapshot(snapshot) /\ Generation \in 1..kept.generation)'
    BY <1>2, <1>3, <1>4, <1>5 DEF IsSnapshot
  <2> QED
    BY <2>2, <2>3, <2>4 DEF DiskLine
<1>10. QueueLine(base)'
  BY <1>1, <1>2, <1>3, QueueStill
<1>11. HeadKept => HeadKept'
  BY <1>2, <1>5, <1>6, <1>8 DEF HeadKept, DiskPlace, Place
<1>12. HeadLine(base)'
  <2>1. CASE HeadKept
    BY <1>11, <2>1 DEF HeadLine
  <2>2. CASE HeadNext(base) /\ queue[1].gen = Generation + 1
    <3>1. snapshot'.gen - 1 = Generation
      <4>1. \A g \in Nat : (g + 1) - 1 = g
        OBVIOUS
      <4> QED
        BY <1>5, <1>7, <2>2, <4>1 DEF DiskFacts
    <3>2. Opens(snapshot'.gen - 1, journal)
      BY <2>2, <3>1 DEF HeadNext
    <3>3. HeadHalf'
      BY <1>2, <1>3, <1>4, <1>5, <3>2 DEF HeadHalf, IsSnapshot, Opens, Whole, EndsTorn, IsTorn, Place
    <3> QED
      BY <3>3 DEF HeadLine
  <2>3. CASE HeadHalf /\ queue[1].gen = Generation
    <3>1. snapshot.gen = Generation
      BY <2>3 DEF HeadHalf, Generation
    <3>2. Opens(snapshot'.gen - 1, journal)
      BY <1>5, <2>3, <3>1 DEF HeadHalf
    <3>3. HeadHalf'
      BY <1>2, <1>3, <1>4, <1>5, <3>2 DEF HeadHalf, IsSnapshot, Opens, Whole, EndsTorn, IsTorn, Place
    <3> QED
      BY <3>3 DEF HeadLine
  <2> QED
    BY <1>8, <2>1, <2>2, <2>3
<1>13. HostLine'
  <2>1. LastLine'
    BY <1>1, <1>2, <1>6 DEF HostLine, LastLine, LastRight, IsSnapshot
  <2>2. asks'[s].job = asks[s].job /\ asks'[s].at = "renamed" /\ \A t \in Slots \ {s} : asks'[t] = asks[t]
    BY <1>1, <1>2
  <2>3. ASSUME NEW t \in Slots, asks'[t].at \in {"renamed", "removed"}
        PROVE  IsSnapshot(asks'[t].job) /\ asks'[t].job.gen <= snapshot'.gen
    <3>0. queue[1].gen \in Nat
      BY <1>3 DEF Jobs
    <3>1. CASE t = s
      <4>1. snapshot'.gen <= snapshot'.gen
        BY <1>5, <3>0
      <4> QED
        BY <1>2, <2>2, <3>1, <4>1
    <3>2. CASE t # s
      <4>1. IsSnapshot(asks[t].job) /\ snapshot # NoJob /\ asks[t].job.gen <= snapshot.gen
        BY <1>1, <2>2, <2>3, <3>2 DEF HostLine, AskLine
      <4>2. snapshot.gen = Generation /\ Generation \in Nat /\ asks[t].job.gen \in Nat
        <5>1. asks[t].job \in Jobs
          BY <1>1
        <5> QED
          BY <1>7, <4>1, <5>1 DEF Generation, DiskFacts, Jobs
      <4>3. snapshot'.gen \in {Generation, Generation + 1}
        BY <1>5, <1>8
      <4>4. \A x, y \in Nat : x <= y => x <= y + 1
        OBVIOUS
      <4>5. asks[t].job.gen <= snapshot'.gen
        BY <4>1, <4>2, <4>3, <4>4, Zenon
      <4> QED
        BY <2>2, <3>2, <4>1, <4>5
    <3> QED
      BY <3>1, <3>2
  <2>4. \A t \in Slots : AskLine(t)'
    BY <1>5, <2>3 DEF AskLine, IsSnapshot
  <2>5. WaitLine'
    <3> SUFFICES ASSUME awaiting # Nobody
                 PROVE  /\ asks'[awaiting].job = queue[1]
                        /\ asks'[awaiting].at = "removed" => journal = <<>>
                        /\ asks'[awaiting].at = "kept" => (HeadKept /\ LastRight)'
      BY <1>2 DEF WaitLine
    <3>1. /\ awaiting \in Slots /\ asks[awaiting].job = queue[1]
          /\ asks[awaiting].at = "removed" => journal = <<>>
          /\ asks[awaiting].at = "kept" => HeadKept /\ LastRight
      BY <1>1 DEF HostLine, WaitLine, TypeOK
    <3>2. CASE awaiting = s
      BY <2>2, <3>1, <3>2
    <3>3. CASE awaiting # s
      <4>1. asks'[awaiting] = asks[awaiting]
        BY <2>2, <3>1, <3>3
      <4>2. LastRight => LastRight'
        BY <1>2, <1>6 DEF LastRight
      <4> QED
        BY <1>11, <3>1, <4>1, <4>2
    <3> QED
      BY <3>2, <3>3
  <2> QED
    BY <2>1, <2>4, <2>5 DEF HostLine
<1>14. Len(OnDisk) <= Len(OnDisk')
  <2>2. DiskTruth'
    BY DiskAlways, PTL
  <2>3. DiskFacts(base)'
    BY <1>9, <2>2 DEF DiskTruth
  <2>4. /\ Len(OnDisk') = base[queue[1].gen] + (IF Opens(queue[1].gen, journal) THEN Count ELSE 0)
        /\ base[queue[1].gen] \in Nat
    BY <1>5, <1>6, <2>3 DEF DiskFacts
  <2>5. Len(OnDisk) = base[Generation] + (IF Opens(Generation, journal) THEN Count ELSE 0)
        /\ base[Generation] \in Nat /\ Count \in Nat
    BY <1>7 DEF DiskFacts
  <2>6. CASE queue[1].gen = Generation
    <3>1. Len(OnDisk') = Len(OnDisk)
      BY <2>4, <2>5, <2>6
    <3>2. Len(OnDisk) \in Nat
      BY <1>7 DEF DiskFacts
    <3> QED
      BY <3>1, <3>2
  <2>7. CASE HeadNext(base) /\ base[queue[1].gen] = base[Generation] + Count
    <3>1. Len(OnDisk) = base[queue[1].gen]
      BY <2>5, <2>7 DEF HeadNext
    <3>2. \A x, y \in Nat : x <= x + y /\ x <= x + 0
      OBVIOUS
    <3> QED
      BY <2>4, <2>5, <3>1, <3>2, Zenon
  <2> QED
    BY <1>8, <2>6, <2>7
<1> QED
  BY <1>1, <1>2, <1>3, <1>9, <1>10, <1>12, <1>13, <1>14, LineWrites

-----------------------------------------------------------------------------
(* What the enclave adds.                                                  *)

\* A start: the generation behind the one on the disk begins where the disk ends.
LEMMA LineOpen ==
  ASSUME TypeInv, NEW base \in [Nat -> Nat], Line(base), Open, phase' = "up"
  PROVE  /\ \E more \in [Nat -> Nat] : Line(more)'
         /\ OnDisk' = OnDisk /\ book' = OnDisk
         /\ confirmed' = confirmed \cup ChangesIn(OnDisk)
<1>0. PICK g \in Nat \ {0}, top \in Nat, more \in [Nat -> Nat] :
        g = Generation /\ top = g + 1 /\ more = [base EXCEPT ![top] = Len(OnDisk)]
  <2>1. DiskFacts(base)
    BY DiskAlways DEF DiskTruth, TypeInv, Line
  <2>2. Generation \in Nat \ {0} /\ Generation + 1 \in Nat /\ Len(OnDisk) \in Nat
    BY <2>1 DEF DiskFacts
  <2>3. [base EXCEPT ![Generation + 1] = Len(OnDisk)] \in [Nat -> Nat]
    BY <2>2
  <2> QED
    BY <2>2, <2>3, Zenon
<1>1. /\ TypeOK /\ HostLine /\ DiskLine(base) /\ QueueLine(base) /\ phase = "opening"
      /\ read = snapshot /\ awaiting = Nobody
  BY DEF TypeInv, WaitsForAJob, Line, Open
<1>2. DiskFacts(base)
  BY <1>1, DiskAlways DEF DiskTruth
<1>3. /\ Opens(g, journal) /\ g = IF read = NoJob THEN 1 ELSE read.gen
  BY <1>0, <1>1 DEF Open, Generation
<1>4. OnDisk = Replay(snapshot.data, journal)
  BY <1>0, <1>3 DEF OnDisk
<1>5. /\ UNCHANGED <<snapshot, journal, awaiting, asks, last>>
      /\ book' = OnDisk /\ confirmed' = confirmed \cup ChangesIn(OnDisk)
      /\ kept' = IF Folds THEN FreshKept(top)
                 ELSE [generation |-> g, next |-> Count + 1, since |-> Count]
      /\ queue' = IF Folds THEN <<Job(top, 0, OnDisk)>> ELSE <<>>
  BY <1>0, <1>1, <1>3, <1>4 DEF Open, hostVars, Count
<1>6. Generation' = g /\ Count' = Count /\ Opens(Generation, journal)' /\ DiskPlace' = DiskPlace
  BY <1>0, <1>3, <1>5 DEF Generation, Count, Opens, Whole, EndsTorn, IsTorn, Place, DiskPlace
<1>7. OnDisk' = OnDisk
  BY <1>0, <1>5, <1>6, <1>3 DEF OnDisk, Replay, Opens, Whole, EndsTorn, IsTorn, Place
<1>8. g \in Nat \ {0} /\ Count \in Nat /\ base[g] \in Nat /\ Len(OnDisk) = base[g] + Count
  BY <1>0, <1>2, <1>3 DEF DiskFacts
<1>9. top \in Nat /\ top # g /\ g \in 1..g /\ g \in 1..top /\ top \in 1..top
  <2>1. \A x \in Nat \ {0} : x + 1 \in Nat /\ x + 1 # x /\ x \in 1..x /\ x \in 1..(x + 1) /\ x + 1 \in 1..(x + 1)
    OBVIOUS
  <2> QED
    BY <1>0, <2>1, Zenon
<1>10. Len(OnDisk) \in Nat
  BY <1>2, LenProperties, Zenon DEF DiskFacts
<1>11. more \in [Nat -> Nat] /\ more[g] = base[g] /\ more[top] = Len(OnDisk)
  BY <1>0, <1>8, <1>9, <1>10
<1>12. Begins(OnDisk, OnDisk)
  BY <1>10 DEF Begins
<1>13. IF Folds THEN kept'.generation = top /\ kept'.next = 1
       ELSE kept'.generation = g /\ kept'.next = Count + 1
  BY <1>5 DEF FreshKept
<1>14. Mark' = IF Folds THEN <<top, 0>> ELSE <<g, Count>>
  <2>1. Mark' = <<kept'.generation, kept'.next - 1>>
    BY DEF Mark
  <2>2. (Count + 1) - 1 = Count /\ 1 - 1 = 0
    BY <1>8
  <2>3. CASE Folds
    BY <1>13, <2>1, <2>2, <2>3
  <2>4. CASE ~Folds
    <3>1. kept'.generation = g /\ kept'.next = Count + 1
      BY <1>13, <2>4, Zenon
    <3>2. Mark' = <<g, (Count + 1) - 1>>
      <4>1. \A x, y, z : x = g /\ y = z => <<x, y - 1>> = <<g, z - 1>>
        OBVIOUS
      <4> QED
        BY <2>1, <3>1, <4>1, Zenon
    <3>3. Mark' = <<g, Count>>
      BY <2>2, <3>2, Zenon
    <3> QED
      BY <2>4, <3>3, Zenon
  <2> QED
    BY <2>3, <2>4
<1>15. DiskLine(more)'
  <2>1. (IsSnapshot(snapshot) /\ Generation \in 1..kept.generation)'
    BY <1>1, <1>5, <1>6, <1>9, <1>13 DEF DiskLine, IsSnapshot
  <2>2. Len(snapshot.data) = base[g] /\ Begins(snapshot.data, book) /\ Begins(OnDisk, book)
    BY <1>0, <1>1, <1>2 DEF DiskLine, DiskFacts
  <2>3. base[g] <= Len(OnDisk)
    BY <1>8, SumBounds, Zenon
  <2>4. Begins(snapshot.data, OnDisk)
    <3>1. \A i \in 1..Len(snapshot.data) : i \in 1..Len(OnDisk)
      BY <1>8, <1>10, <2>2, <2>3
    <3> QED
      BY <2>2, <2>3, <3>1 DEF Begins
  <2>5. ASSUME NEW i \in 1..Count
        PROVE  /\ ~IsSnapshot(journal[i]) /\ journal[i].gen = g
               /\ base[g] + journal[i].num \in 1..Len(OnDisk)
               /\ journal[i].data = <<OnDisk[base[g] + journal[i].num]>>
    <3>1. Place(journal[i]) = <<g, i>>
      BY <1>3 DEF Opens, Count
    <3>2. journal[i].gen = g /\ journal[i].num = i /\ i # 0
      BY <3>1 DEF Place
    <3>3. base[g] + i \in 1..(base[g] + Count)
      <4>1. \A x, n \in Nat : \A y \in 1..n : x + y \in 1..(x + n)
        OBVIOUS
      <4> QED
        BY <1>8, <4>1, Zenon
    <3>4. journal[i].data = <<book[base[g] + i]>>
      BY <1>1, <3>2 DEF DiskLine, Carried, IsSnapshot
    <3>5. OnDisk[base[g] + i] = book[base[g] + i]
      BY <1>8, <2>2, <3>3 DEF Begins
    <3> QED
      BY <1>8, <3>2, <3>3, <3>4, <3>5 DEF IsSnapshot
  <2>6. \A i \in 1..Count' : Carried(more, journal[i])'
    BY <1>5, <1>6, <1>11, <2>5 DEF Carried, IsSnapshot
  <2>7. (Len(snapshot.data) = more[Generation] /\ Begins(snapshot.data, book))'
    BY <1>5, <1>6, <1>11, <2>2, <2>4 DEF Begins
  <2> QED
    BY <2>1, <2>6, <2>7 DEF DiskLine
<1>16. ASSUME Folds PROVE QueueLine(more)' /\ HeadLine(more)' /\ LastLine'
  <2>1. queue' = <<Job(top, 0, OnDisk)>> /\ Len(queue') = 1 /\ queue' # <<>>
        /\ queue'[1].gen = top /\ queue'[1].num = 0 /\ queue'[1].data = OnDisk
    BY <1>5, <1>16 DEF Job
  <2>2. \A i \in 1..Len(queue') : i = 1
    BY <2>1
  <2>3. \A i \in 1..(Len(queue') - 1) : FALSE
    BY <2>1
  <2>4. Carried(more, queue[1])'
    BY <1>5, <1>11, <1>12, <2>1 DEF Carried, IsSnapshot, Begins
  <2>5. \A i \in 1..Len(queue') : (queue[i].gen \in 1..kept.generation /\ Carried(more, queue[i]))'
    BY <1>9, <1>13, <1>16, <2>1, <2>2, <2>4
  <2>6. (Len(book) = more[kept.generation] + kept.next - 1)'
    <3>1. Len(OnDisk) = Len(OnDisk) + 1 - 1
      BY <1>10
    <3> QED
      BY <1>5, <1>11, <1>13, <1>16, <3>1
  <2>7. Place(queue[Len(queue)])' = Mark'
    BY <1>14, <1>16, <2>1 DEF Place
  <2>8. QueueLine(more)'
    BY <2>1, <2>3, <2>5, <2>6, <2>7 DEF QueueLine
  <2>9. Succeeds(more, DiskPlace, queue[1])'
    <3>1. DiskPlace' = <<g, Count>> /\ queue'[1].gen = g + 1 /\ more[top] = more[g] + Count
      BY <1>0, <1>6, <1>8, <1>11, <2>1 DEF DiskPlace
    <3> QED
      BY <2>1, <3>1 DEF Succeeds, IsSnapshot
  <2>10. HeadLine(more)'
    BY <1>6, <2>9 DEF HeadLine, HeadNext
  <2>11. LastLine'
    BY <1>1, <1>5, <1>6, <2>1 DEF HostLine, LastLine, LastRight, IsSnapshot
  <2> QED
    BY <2>8, <2>10, <2>11
<1>17. ASSUME ~Folds PROVE QueueLine(more)' /\ HeadLine(more)' /\ LastLine'
  <2>1. queue' = <<>> /\ Len(queue') = 0
    BY <1>5, <1>17
  <2>2. (Len(book) = more[kept.generation] + kept.next - 1)'
    <3>1. Len(OnDisk) = base[g] + (Count + 1) - 1
      BY <1>8
    <3> QED
      BY <1>5, <1>11, <1>13, <1>17, <3>1
  <2>3. DiskPlace' = Mark'
    BY <1>0, <1>6, <1>14, <1>17 DEF DiskPlace
  <2>4. QueueLine(more)'
    BY <2>1, <2>2, <2>3 DEF QueueLine
  <2>5. HeadLine(more)'
    BY <1>6, <2>1 DEF HeadLine, HeadNext
  <2>6. LastLine'
    BY <1>1, <1>5, <1>6, <1>17 DEF HostLine, LastLine, LastRight, Folds
  <2> QED
    BY <2>4, <2>5, <2>6
<1>18. HostLine'
  <2>1. LastLine'
    BY <1>16, <1>17
  <2>2. \A s \in Slots : AskLine(s)'
    BY <1>1, <1>5 DEF HostLine, AskLine, IsSnapshot
  <2> QED
    BY <1>1, <1>5, <2>1, <2>2 DEF HostLine, WaitLine
<1>19. confirmed' \subseteq ChangesIn(OnDisk)'
  BY <1>5, <1>7 DEF Line, ChangesIn
<1>20. Line(more)'
  <2>1. QueueLine(more)' /\ HeadLine(more)'
    BY <1>16, <1>17
  <2> QED
    BY <1>15, <1>18, <1>19, <2>1 DEF Line
<1> QED
  BY <1>5, <1>7, <1>11, <1>20

\* A start that refuses the book.
LEMMA LineRefused ==
  ASSUME TypeInv, NEW base \in [Nat -> Nat], Line(base), Open, phase' # "up"
  PROVE  Line(base)' /\ OnDisk' = OnDisk /\ UNCHANGED <<book, confirmed>>
<1>1. /\ phase' = "refused"
      /\ UNCHANGED <<snapshot, journal, awaiting, asks, last, book, kept, queue, confirmed>>
  BY DEF Open, hostVars
<1>2. HostLine' /\ awaiting = Nobody
  BY <1>1, AsksLost DEF TypeInv, WaitsForAJob, Line, Open
<1> QED
  BY <1>1, <1>2, LineStill

Full(k) == kept.since + k >= SnapshotEvery

LEMMA ChangeAdds ==
  ASSUME TypeOK, NEW k \in 1..MaxBatch, Change(k)
  PROVE  /\ Len(book') = Len(book) + k
         /\ \A i \in 1..Len(book) : book'[i] = book[i]
         /\ \A j \in 1..k : book'[Len(book) + j] = made + j
         /\ Len(queue') = Len(queue) + k + (IF Full(k) THEN 1 ELSE 0)
         /\ \A i \in 1..Len(queue) : queue'[i] = queue[i]
         /\ \A j \in 1..k :
              queue'[Len(queue) + j] = Job(kept.generation, kept.next + j - 1, <<made + j>>)
         /\ Full(k) => queue'[Len(queue) + k + 1] = Job(kept.generation + 1, 0, book')
         /\ kept'.next = IF Full(k) THEN 1 ELSE kept.next + k
         /\ kept'.generation = IF Full(k) THEN kept.generation + 1 ELSE kept.generation
<1> DEFINE new == [i \in 1..k |-> made + i]
           records == [i \in 1..k |-> Job(kept.generation, kept.next + i - 1, <<made + i>>)]
           fold == Job(kept.generation + 1, 0, book')
           after == IF Full(k) THEN <<fold>> ELSE <<>>
<1>1. /\ k \in Nat \ {0} /\ made \in Nat /\ made + k <= MaxChanges /\ MaxChanges \in Nat
      /\ kept \in [generation : Nat, next : Nat \ {0}, since : Nat]
      /\ queue \in Seq(Jobs) /\ book \in Seq(1..MaxChanges)
      /\ Len(queue) \in Nat /\ Len(book) \in Nat
  <2>1. made + k <= MaxChanges
    BY DEF Change
  <2>2. queue \in Seq(Jobs) /\ book \in Seq(1..MaxChanges) /\ made \in 0..MaxChanges
        /\ kept \in [generation : Nat, next : Nat \ {0}, since : Nat]
    BY DEF TypeOK
  <2> QED
    BY <2>1, <2>2, LenProperties, BookAssumption
<1>2. /\ queue' = queue \o records \o after
      /\ kept' = IF Full(k) THEN FreshKept(kept.generation + 1)
                 ELSE [kept EXCEPT !.next = @ + k, !.since = @ + k]
      /\ book' = book \o new
  BY DEF Change, Fold, Full
<1>3. new \in Seq(1..MaxChanges) /\ Len(new) = k /\ \A j \in 1..k : new[j] = made + j
  <2>1. \A i \in 1..k : made + i \in 1..MaxChanges
    BY <1>1
  <2> QED
    BY <1>1, <2>1, FunctionIsSeq
<1>4. records \in Seq(Jobs) /\ Len(records) = k
  <2>1. \A i \in 1..k : records[i] \in Jobs
    <3> TAKE i \in 1..k
    <3>1. kept.next + i - 1 \in Nat /\ made + i \in 1..MaxChanges /\ kept.generation \in Nat
      BY <1>1
    <3>2. <<made + i>> \in Seq(1..MaxChanges)
      BY <3>1, SingleIsSeq
    <3> QED
      BY <3>1, <3>2, JobType
  <2>2. records \in [1..k -> Jobs]
    BY <2>1
  <2> HIDE DEF records
  <2> QED
    BY <1>1, <2>2, FunctionIsSeq
<1>5. \A i \in 1..k : records[i] = Job(kept.generation, kept.next + i - 1, <<made + i>>)
  OBVIOUS
<1> HIDE DEF new, records
<1>6. /\ book' \in Seq(1..MaxChanges) /\ Len(book') = Len(book) + k
      /\ \A i \in 1..(Len(book) + k) : book'[i] = IF i <= Len(book) THEN book[i] ELSE new[i - Len(book)]
  <2>1. /\ book \o new \in Seq(1..MaxChanges) /\ Len(book \o new) = Len(book) + Len(new)
        /\ \A i \in 1..Len(book) + Len(new) :
             (book \o new)[i] = IF i <= Len(book) THEN book[i] ELSE new[i - Len(book)]
    BY <1>1, <1>3, ConcatProperties
  <2> QED
    BY <1>2, <1>3, <2>1
<1>7. fold \in Jobs
  <2>1. kept.generation + 1 \in Nat /\ 0 \in Nat
    BY <1>1
  <2> QED
    BY <1>6, <2>1, JobType
<1> HIDE DEF fold
<1>8. after \in Seq(Jobs) /\ Len(after) = (IF Full(k) THEN 1 ELSE 0) /\ (Full(k) => after[1] = fold)
  <2>1. CASE Full(k)
    BY <1>7, <2>1
  <2>2. CASE ~Full(k)
    BY <2>2
  <2> QED
    BY <2>1, <2>2
<1> HIDE DEF after
<1> DEFINE front == queue \o records
<1>9. /\ front \in Seq(Jobs) /\ Len(front) = Len(queue) + k
      /\ \A i \in 1..(Len(queue) + k) : front[i] = IF i <= Len(queue) THEN queue[i] ELSE records[i - Len(queue)]
  <2>1. /\ queue \o records \in Seq(Jobs) /\ Len(queue \o records) = Len(queue) + Len(records)
        /\ \A i \in 1..Len(queue) + Len(records) :
             (queue \o records)[i] = IF i <= Len(queue) THEN queue[i] ELSE records[i - Len(queue)]
    BY <1>1, <1>4, ConcatProperties
  <2> QED
    BY <1>4, <2>1
<1>10. queue' = front \o after
  BY <1>2
<1> HIDE DEF front
<1>11. /\ Len(queue') = Len(queue) + k + Len(after)
       /\ \A i \in 1..(Len(queue) + k + Len(after)) :
            queue'[i] = IF i <= Len(queue) + k THEN front[i] ELSE after[i - (Len(queue) + k)]
  <2>1. /\ Len(front \o after) = Len(front) + Len(after)
        /\ \A i \in 1..Len(front) + Len(after) :
             (front \o after)[i] = IF i <= Len(front) THEN front[i] ELSE after[i - Len(front)]
    BY <1>8, <1>9, ConcatProperties
  <2> QED
    BY <1>9, <1>10, <2>1
<1>12. Len(after) \in Nat
  BY <1>8
<1>13. \A i \in 1..Len(book) : book'[i] = book[i]
  <2> TAKE i \in 1..Len(book)
  <2>1. i \in 1..(Len(book) + k) /\ i <= Len(book)
    BY <1>1
  <2> QED
    BY <1>6, <2>1
<1>14. \A j \in 1..k : book'[Len(book) + j] = made + j
  <2> TAKE j \in 1..k
  <2>1. Len(book) + j \in 1..(Len(book) + k) /\ ~(Len(book) + j <= Len(book)) /\ (Len(book) + j) - Len(book) = j
    BY <1>1
  <2> QED
    BY <1>3, <1>6, <2>1
<1>15. \A i \in 1..Len(queue) : queue'[i] = queue[i]
  <2> TAKE i \in 1..Len(queue)
  <2>1. i \in 1..(Len(queue) + k) /\ i <= Len(queue) /\ i <= Len(queue) + k
        /\ i \in 1..(Len(queue) + k + Len(after))
    BY <1>1, <1>12
  <2> QED
    BY <1>9, <1>11, <2>1
<1>16. \A j \in 1..k : queue'[Len(queue) + j] = records[j]
  <2> TAKE j \in 1..k
  <2>1. /\ Len(queue) + j \in 1..(Len(queue) + k) /\ ~(Len(queue) + j <= Len(queue))
        /\ Len(queue) + j <= Len(queue) + k /\ (Len(queue) + j) - Len(queue) = j
        /\ Len(queue) + j \in 1..(Len(queue) + k + Len(after))
    BY <1>1, <1>12
  <2> QED
    BY <1>9, <1>11, <2>1
<1>17. Full(k) => queue'[Len(queue) + k + 1] = fold
  <2> SUFFICES ASSUME Full(k) PROVE queue'[Len(queue) + k + 1] = fold
    OBVIOUS
  <2>1. /\ Len(queue) + k + 1 \in 1..(Len(queue) + k + 1) /\ ~(Len(queue) + k + 1 <= Len(queue) + k)
        /\ (Len(queue) + k + 1) - (Len(queue) + k) = 1
    BY <1>1
  <2> QED
    BY <1>8, <1>11, <2>1
<1>18. /\ kept'.next = IF Full(k) THEN 1 ELSE kept.next + k
       /\ kept'.generation = IF Full(k) THEN kept.generation + 1 ELSE kept.generation
  BY <1>1, <1>2 DEF FreshKept
<1> QED
  BY <1>5, <1>6, <1>8, <1>11, <1>13, <1>14, <1>15, <1>16, <1>17, <1>18 DEF fold

\* What begins the book still does when something is added to it.
LEMMA BeginsMore ==
  ASSUME NEW part, NEW rows, NEW longer, NEW n \in Nat, n = Len(rows), Len(part) \in Nat,
         Len(longer) \in Nat, n <= Len(longer), \A i \in 1..n : longer[i] = rows[i],
         Begins(part, rows)
  PROVE  Begins(part, longer)
<1>1. Len(part) <= n /\ \A i \in 1..Len(part) : part[i] = rows[i]
  BY DEF Begins
<1>2. Len(part) <= Len(longer) /\ \A i \in 1..Len(part) : i \in 1..n
  BY <1>1
<1> QED
  BY <1>1, <1>2 DEF Begins

\* An operation of the ledger: k changes behind the others, and the generation that a full
\* one makes room for begins behind them.
LEMMA LineChange ==
  ASSUME TypeInv, TypeOK', NEW base \in [Nat -> Nat], Line(base), NEW k \in 1..MaxBatch, Change(k)
  PROVE  (\E more \in [Nat -> Nat] : Line(more)') /\ OnDisk' = OnDisk
<1>0. PICK n \in Nat, m \in Nat, g \in Nat \ {0}, x \in Nat \ {0}, top \in Nat :
        /\ n = Len(queue) /\ m = Len(book) /\ g = kept.generation /\ x = kept.next
        /\ top = g + 1
  <2>1. /\ queue \in Seq(Jobs) /\ book \in Seq(1..MaxChanges)
        /\ kept \in [generation : Nat, next : Nat \ {0}, since : Nat]
    BY DEF TypeInv, TypeOK
  <2>2. Len(queue) \in Nat /\ Len(book) \in Nat /\ kept.next \in Nat \ {0} /\ kept.generation + 1 \in Nat
    <3>1. Len(queue) \in Nat /\ Len(book) \in Nat
      BY <2>1, LenProperties, Zenon
    <3>2. kept.next \in Nat \ {0} /\ kept.generation \in Nat
      BY <2>1
    <3>3. \A y \in Nat : y + 1 \in Nat
      OBVIOUS
    <3> QED
      BY <3>1, <3>2, <3>3, Zenon
  <2>3. kept.generation \in Nat \ {0}
    <3>1. kept.generation \in Nat /\ Generation \in 1..kept.generation
      BY <2>1 DEF Line, DiskLine
    <3>2. \A y \in Nat : \A z \in 1..y : y # 0
      OBVIOUS
    <3> QED
      BY <3>1, <3>2, Zenon
  <2> QED
    BY <2>2, <2>3, Zenon
<1>1. /\ TypeOK /\ HostLine /\ DiskLine(base) /\ QueueLine(base) /\ HeadLine(base)
      /\ phase = "up" /\ UNCHANGED <<phase, asks, awaiting, snapshot, journal, last, confirmed>>
  BY DEF Change, hostVars, TypeInv, Line
<1>2. k \in Nat \ {0} /\ m + k \in Nat
  <2>1. k \in Nat \ {0}
    BY BookAssumption
  <2> QED
    BY <2>1
<1>3. PICK more \in [Nat -> Nat] : more = IF Full(k) THEN [base EXCEPT ![top] = m + k] ELSE base
  <2>1. [base EXCEPT ![top] = m + k] \in [Nat -> Nat]
    BY <1>2
  <2> QED
    BY <2>1
<1>4. (\A y \in 0..g : y \in Nat /\ more[y] = base[y]) /\ (Full(k) => more[top] = m + k)
  <2>1. \A y \in 0..g : y # top /\ y \in Nat
    <3>1. \A z \in Nat : \A y \in 0..z : y # z + 1 /\ y \in Nat
      OBVIOUS
    <3> QED
      BY <1>0, <3>1, Zenon
  <2> QED
    BY <1>2, <1>3, <2>1
<1>5. /\ Len(book') = m + k
      /\ \A i \in 1..m : book'[i] = book[i]
      /\ \A j \in 1..k : book'[m + j] = made + j
      /\ Len(queue') = n + k + (IF Full(k) THEN 1 ELSE 0)
      /\ \A i \in 1..n : queue'[i] = queue[i]
      /\ \A j \in 1..k : queue'[n + j] = Job(g, x + j - 1, <<made + j>>)
      /\ Full(k) => queue'[n + k + 1] = Job(top, 0, book')
      /\ kept'.next = IF Full(k) THEN 1 ELSE x + k
      /\ kept'.generation = IF Full(k) THEN top ELSE g
  BY <1>0, <1>1, ChangeAdds
<1>6. m = base[g] + x - 1 /\ base[g] \in Nat
      /\ (IF queue = <<>> THEN DiskPlace ELSE Place(queue[n])) = <<g, x - 1>>
  BY <1>0, <1>1 DEF QueueLine, Mark
<1>7. ASSUME NEW part, Len(part) \in Nat, Begins(part, book) PROVE Begins(part, book')
  <2>1. m <= Len(book') /\ Len(book') \in Nat
    <3>1. m <= m + k
      BY <1>2, SumBounds
    <3> QED
      BY <1>2, <1>5, <3>1
  <2> QED
    BY <1>0, <1>5, <1>7, <2>1, BeginsMore
<1> DEFINE Carries(job) ==
      IF IsSnapshot(job) THEN Len(job.data) = more[job.gen] /\ Begins(job.data, book')
      ELSE /\ more[job.gen] + job.num \in 1..Len(book')
           /\ job.data = <<book'[more[job.gen] + job.num]>>
<1>8. ASSUME NEW job \in Jobs, job.gen \in 0..g, Carried(base, job)
      PROVE  Carries(job)
  <2>1. more[job.gen] = base[job.gen] /\ Len(job.data) \in Nat
    <3>1. job.data \in Seq(1..MaxChanges)
      BY DEF Jobs
    <3> QED
      BY <1>4, <1>8, <3>1, LenProperties
  <2>2. CASE IsSnapshot(job)
    <3>1. Len(job.data) = base[job.gen] /\ Begins(job.data, book')
      BY <1>7, <1>8, <2>1, <2>2 DEF Carried
    <3> QED
      BY <2>1, <2>2, <3>1
  <2>3. CASE ~IsSnapshot(job)
    <3> DEFINE at == base[job.gen] + job.num
    <3>1. at \in 1..m /\ job.data = <<book[at]>>
      BY <1>0, <1>8, <2>3 DEF Carried
    <3>2. at \in 1..(m + k)
      <4>1. \A y, z \in Nat : \A u \in 1..y : u \in 1..(y + z)
        OBVIOUS
      <4> HIDE DEF at
      <4> QED
        BY <1>2, <3>1, <4>1, Zenon
    <3>3. book'[at] = book[at]
      BY <1>5, <3>1
    <3> QED
      BY <1>5, <2>1, <2>3, <3>1, <3>2, <3>3
  <2> QED
    BY <2>2, <2>3
<1> HIDE DEF Carries
<1>9. g \in 1..kept'.generation /\ \A y \in 1..g : y \in 1..kept'.generation
  <2>1. \A z \in Nat \ {0} : z \in 1..(z + 1) /\ z \in 1..z /\ \A y \in 1..z : y \in 1..(z + 1)
    OBVIOUS
  <2> QED
    BY <1>0, <1>5, <2>1, Zenon
<1>10. /\ Generation' = Generation /\ Count' = Count /\ DiskPlace' = DiskPlace /\ OnDisk' = OnDisk
       /\ \A y : Opens(y, journal)' <=> Opens(y, journal)
  <2>1. \A y : Opens(y, journal)' <=> Opens(y, journal)
    BY <1>1 DEF Opens, Whole, EndsTorn, IsTorn, Place
  <2>2. Generation' = Generation /\ Count' = Count /\ DiskPlace' = DiskPlace
    BY <1>1 DEF Generation, Count, DiskPlace, Whole, EndsTorn, IsTorn
  <2>3. OnDisk' = OnDisk
    BY <1>1, <2>1, <2>2 DEF OnDisk, Replay, Opens, Whole, EndsTorn, IsTorn, Place
  <2> QED
    BY <2>1, <2>2, <2>3
<1>11. Generation \in 1..g /\ DiskFacts(base)
  BY <1>0, <1>1, DiskAlways DEF DiskLine, DiskTruth
<1>12. DiskLine(more)'
  <2>1. ASSUME NEW i \in 1..Count PROVE Carries(journal'[i])
    <3>1. journal[i] \in Jobs /\ Carried(base, journal[i])
      <4>1. journal \in Seq(Jobs)
        BY <1>1 DEF TypeOK
      <4>2. Count \in 0..Len(journal) /\ Len(journal) \in Nat
        BY <4>1, WholeType DEF Count
      <4>3. i \in 1..Len(journal)
        BY <4>2
      <4> QED
        BY <1>1, <4>1, <4>3, ElementOfSeq DEF DiskLine
    <3>2. journal[i].gen \in 0..g
      <4>0. \A y \in 1..g : y \in 0..g /\ y - 1 \in 0..g
        OBVIOUS
      <4>1. CASE Opens(Generation, journal)
        <5>1. journal[i].gen = Generation
          BY <4>1 DEF Opens, Place, Count
        <5> QED
          BY <1>11, <4>0, <5>1, Zenon
      <4>2. CASE ~Opens(Generation, journal)
        <5>1. Opens(snapshot.gen - 1, journal) /\ Generation = snapshot.gen
          BY <1>1, <4>2 DEF HeadLine, HeadNext, HeadKept, HeadHalf, Generation
        <5>2. journal[i].gen = Generation - 1
          BY <5>1 DEF Opens, Place, Count
        <5> QED
          BY <1>11, <4>0, <5>2, Zenon
      <4> QED
        BY <4>1, <4>2
    <3>3. Carries(journal[i])
      BY <1>8, <3>1, <3>2
    <3> QED
      BY <1>1, <3>3
  <2>2. \A i \in 1..Count' : Carried(more, journal[i])'
    BY <1>10, <2>1 DEF Carries, Carried, IsSnapshot, Begins
  <2>3. more[Generation] = base[Generation]
    <3>1. \A y \in 1..g : y \in 0..g
      OBVIOUS
    <3> QED
      BY <1>4, <1>11, <3>1, Zenon
  <2>4. Len(snapshot.data) = base[Generation] /\ Begins(snapshot.data, book')
    <3>1. Len(snapshot.data) = base[Generation] /\ Begins(snapshot.data, book)
      BY <1>1 DEF DiskLine
    <3>2. Len(snapshot.data) \in Nat
      BY <1>11, <3>1 DEF DiskFacts
    <3> QED
      BY <1>7, <3>1, <3>2
  <2>5. (Len(snapshot.data) = more[Generation] /\ Begins(snapshot.data, book))'
    BY <1>1, <1>10, <2>3, <2>4 DEF Begins
  <2>6. (IsSnapshot(snapshot) /\ Generation \in 1..kept.generation)'
    BY <1>1, <1>9, <1>10, <1>11 DEF DiskLine, IsSnapshot
  <2> QED
    BY <2>2, <2>5, <2>6 DEF DiskLine
<1>13. ASSUME NEW i \in 1..Len(queue')
       PROVE  i \in 1..n \/ (\E j \in 1..k : i = n + j) \/ (Full(k) /\ i = n + k + 1)
  <2>1. CASE Full(k)
    <3>1. i \in 1..(n + k + 1)
      BY <1>5, <2>1
    <3>2. i \in 1..n \/ (i - n \in 1..k /\ i = n + (i - n)) \/ i = n + k + 1
      BY <1>2, <3>1
    <3> QED
      BY <2>1, <3>2
  <2>2. CASE ~Full(k)
    <3>1. i \in 1..(n + k + 0)
      BY <1>5, <2>2
    <3>2. i \in 1..n \/ (i - n \in 1..k /\ i = n + (i - n))
      BY <1>2, <3>1
    <3> QED
      BY <3>2
  <2> QED
    BY <2>1, <2>2
<1>14. ASSUME NEW j \in 1..k
       PROVE  /\ Place(queue'[n + j]) = <<g, x + j - 1>> /\ ~IsSnapshot(queue'[n + j])
              /\ queue'[n + j].gen = g /\ Carries(queue'[n + j])
  <2>1. queue'[n + j] = Job(g, x + j - 1, <<made + j>>)
    BY <1>5
  <2>2. x + j - 1 # 0
    OBVIOUS
  <2>3. more[g] = base[g] /\ base[g] \in Nat
    <3>1. g \in 0..g
      OBVIOUS
    <3> QED
      BY <1>4, <1>6, <3>1
  <2>4. more[g] + (x + j - 1) = m + j /\ m + j \in 1..(m + k)
    <3> DEFINE b == base[g]
    <3>1. b \in Nat /\ m = b + x - 1 /\ more[g] = b
      BY <1>6, <2>3
    <3> HIDE DEF b
    <3>2. b + (x + j - 1) = m + j /\ m + j \in 1..(m + k)
      BY <1>2, <3>1
    <3> QED
      BY <3>1, <3>2
  <2>5. book'[m + j] = made + j
    BY <1>5
  <2>6. /\ queue'[n + j].gen = g /\ queue'[n + j].num = x + j - 1
        /\ queue'[n + j].data = <<made + j>>
    BY <2>1 DEF Job
  <2>7. more[queue'[n + j].gen] + queue'[n + j].num = m + j
    BY <2>4, <2>6, Zenon
  <2>8. ~IsSnapshot(queue'[n + j])
    BY <2>2, <2>6 DEF IsSnapshot
  <2>9. Len(book') = m + k
    BY <1>5
  <2>10. Carries(queue'[n + j])
    BY <2>4, <2>5, <2>6, <2>7, <2>8, <2>9, Zenon DEF Carries
  <2> QED
    BY <2>6, <2>8, <2>10, Zenon DEF Place
<1>15. ASSUME Full(k)
       PROVE  /\ Place(queue'[n + k + 1]) = <<top, 0>> /\ IsSnapshot(queue'[n + k + 1])
              /\ queue'[n + k + 1].gen = top /\ Carries(queue'[n + k + 1])
  <2>1. queue'[n + k + 1] = Job(top, 0, book')
    BY <1>5, <1>15
  <2>2. Len(book') = more[top] /\ Len(book') \in Nat
    BY <1>2, <1>4, <1>5, <1>15
  <2>3. Begins(book', book')
    BY <2>2 DEF Begins
  <2> QED
    BY <2>1, <2>2, <2>3 DEF Job, Place, IsSnapshot, Carries
<1>16. ASSUME NEW i \in 1..n
       PROVE  queue'[i] = queue[i] /\ queue[i].gen \in 1..g /\ Carries(queue'[i])
  <2>1. queue'[i] = queue[i]
    BY <1>5
  <2>2. i \in 1..Len(queue) /\ queue \in Seq(Jobs)
    BY <1>0, <1>1 DEF TypeOK
  <2>3. queue[i] \in Jobs
    BY <2>2, ElementOfSeq
  <2>4. queue[i].gen \in 1..g /\ Carried(base, queue[i])
    BY <1>0, <1>1, <2>2 DEF QueueLine
  <2>5. queue[i].gen \in 0..g
    <3>1. \A y \in 1..g : y \in 0..g
      OBVIOUS
    <3> QED
      BY <2>4, <3>1
  <2> QED
    BY <1>8, <2>1, <2>3, <2>4, <2>5
<1>17. \A i \in 1..Len(queue') : (queue[i].gen \in 1..kept.generation /\ Carried(more, queue[i]))'
  <2>1. ASSUME NEW i \in 1..Len(queue')
        PROVE  queue'[i].gen \in 1..kept'.generation /\ Carries(queue'[i])
    <3>1. CASE i \in 1..n
      BY <1>9, <1>16, <3>1
    <3>2. CASE \E j \in 1..k : i = n + j
      BY <1>9, <1>14, <3>2
    <3>3. CASE Full(k) /\ i = n + k + 1
      <4>1. kept'.generation = top /\ top \in 1..top
        <5>1. \A y \in Nat : y + 1 \in 1..(y + 1)
          OBVIOUS
        <5> QED
          BY <1>0, <1>5, <3>3, <5>1
      <4> QED
        BY <1>15, <3>3, <4>1
    <3> QED
      BY <1>13, <3>1, <3>2, <3>3
  <2> QED
    BY <2>1 DEF Carries, Carried, IsSnapshot, Begins
<1>18. more[g] = base[g]
  <2>1. g \in 0..g
    OBVIOUS
  <2> QED
    BY <1>4, <2>1
<1>19. ASSUME NEW i \in 1..(Len(queue') - 1)
       PROVE  Succeeds(more, Place(queue'[i]), queue'[i + 1])
  <2>0. i \in 1..Len(queue') /\ i + 1 \in 1..Len(queue') /\ i \in Nat
    <3>1. \A y \in Nat : \A z \in 1..(y - 1) : z \in 1..y /\ z + 1 \in 1..y /\ z \in Nat
      OBVIOUS
    <3>2. Len(queue') \in Nat
      BY <1>2, <1>5
    <3> QED
      BY <3>1, <3>2, Zenon
  <2>1. CASE i + 1 \in 1..n
    <3>1. i \in 1..n /\ i \in 1..(n - 1)
      BY <2>0, <2>1
    <3>2. Succeeds(base, Place(queue[i]), queue[i + 1])
      BY <1>0, <1>1, <3>1 DEF QueueLine
    <3>3. queue'[i] = queue[i] /\ queue'[i + 1] = queue[i + 1] /\ queue[i].gen \in 1..g
          /\ queue[i + 1].gen \in 1..g
      BY <1>16, <2>1, <3>1
    <3>4. more[queue[i].gen] = base[queue[i].gen] /\ more[queue[i + 1].gen] = base[queue[i + 1].gen]
      <4>1. \A y \in 1..g : y \in 0..g
        OBVIOUS
      <4> QED
        BY <1>4, <3>3, <4>1
    <3> QED
      BY <3>2, <3>3, <3>4 DEF Succeeds, Place
  <2>2. CASE \E j \in 1..k : i + 1 = n + j
    <3> PICK j \in 1..k : i + 1 = n + j
      BY <2>2
    <3>1. Place(queue'[i + 1]) = <<g, x + j - 1>> /\ ~IsSnapshot(queue'[i + 1])
      BY <1>14
    <3>2. Place(queue'[i]) = <<g, x + j - 2>>
      <4>1. CASE j = 1
        <5>1. i = n /\ n \in 1..n /\ x + j - 2 = x - 1
          BY <2>0, <4>1
        <5>2. queue # <<>>
          <6>1. queue = <<>> => Len(queue) = 0
            BY EmptySeq
          <6> QED
            BY <1>0, <5>1, <6>1
        <5>3. Place(queue[n]) = <<g, x - 1>>
          BY <1>6, <5>2
        <5> QED
          BY <1>16, <5>1, <5>3 DEF Place
      <4>2. CASE j # 1
        <5>1. j - 1 \in 1..k /\ i = n + (j - 1) /\ x + (j - 1) - 1 = x + j - 2
          BY <2>0, <4>2
        <5> QED
          BY <1>14, <5>1
      <4> QED
        BY <4>1, <4>2
    <3>3. x + j - 1 = (x + j - 2) + 1
      OBVIOUS
    <3> QED
      BY <3>1, <3>2, <3>3 DEF Succeeds, Place
  <2>3. CASE Full(k) /\ i + 1 = n + k + 1
    <3>1. i = n + k /\ k \in 1..k
      BY <1>2, <2>0, <2>3
    <3>2. Place(queue'[i]) = <<g, x + k - 1>>
      BY <1>14, <3>1
    <3>3. IsSnapshot(queue'[i + 1]) /\ queue'[i + 1].gen = top
      BY <1>15, <2>3
    <3>4. more[top] = more[g] + (x + k - 1)
      <4> DEFINE b == base[g]
      <4>1. b \in Nat /\ m = b + x - 1 /\ more[g] = b
        BY <1>6, <1>18
      <4> HIDE DEF b
      <4>2. m + k = b + (x + k - 1)
        BY <1>2, <4>1
      <4> QED
        BY <1>4, <2>3, <4>1, <4>2
    <3> QED
      BY <1>0, <3>2, <3>3, <3>4 DEF Succeeds
  <2> QED
    BY <1>13, <2>0, <2>1, <2>2, <2>3
<1>20. (Len(book) = more[kept.generation] + kept.next - 1)'
  <2> DEFINE b == base[g]
  <2>1. b \in Nat /\ m = b + x - 1 /\ more[g] = b
    BY <1>6, <1>18
  <2> HIDE DEF b
  <2>2. m + k = b + (x + k) - 1 /\ m + k = (m + k) + 1 - 1
    BY <1>2, <2>1
  <2>3. CASE Full(k)
    <3>1. Len(book') = m + k /\ kept'.next = 1 /\ more[kept'.generation] = m + k
      BY <1>4, <1>5, <2>3
    <3> QED
      BY <2>2, <3>1
  <2>4. CASE ~Full(k)
    <3>1. Len(book') = m + k /\ kept'.next = x + k /\ more[kept'.generation] = b
      BY <1>5, <2>1, <2>4
    <3> QED
      BY <2>2, <3>1
  <2> QED
    BY <2>3, <2>4
<1>21. queue' # <<>> /\ 1 \in 1..Len(queue')
  <2>1. Len(queue') # 0 /\ 1 \in 1..Len(queue')
    <3>1. Len(queue') \in {n + k + 1, n + k + 0}
      BY <1>5, Zenon
    <3>2. \A y \in Nat, z \in Nat \ {0} : \A u \in {y + z + 1, y + z + 0} : u # 0 /\ 1 \in 1..u
      OBVIOUS
    <3> QED
      BY <1>2, <3>1, <3>2, Zenon
  <2> QED
    BY <2>1, EmptySeq
<1>22. Place(queue[Len(queue)])' = Mark'
  <2>1. Mark' = <<kept'.generation, kept'.next - 1>>
    BY DEF Mark
  <2>2. CASE Full(k)
    <3>1. Len(queue') = n + k + 1 /\ kept'.generation = top /\ kept'.next - 1 = 0
      BY <1>5, <2>2
    <3> QED
      BY <1>15, <2>1, <2>2, <3>1 DEF Place
  <2>3. CASE ~Full(k)
    <3>1. Len(queue') = n + k + 0 /\ kept'.generation = g /\ kept'.next = x + k
      BY <1>5, <2>3
    <3>2. Len(queue') = n + k /\ k \in 1..k
      BY <1>2, <3>1
    <3>3. Place(queue'[n + k]) = <<g, x + k - 1>>
      BY <1>14, <3>2
    <3>4. Mark' = <<g, x + k - 1>>
      <4>1. kept'.generation = g
        BY <3>1
      <4>2. kept'.next = x + k
        BY <3>1
      <4>3. kept'.next - 1 = x + k - 1
        BY <4>2
      <4> QED
        BY <2>1, <4>1, <4>3
    <3> QED
      BY <3>2, <3>3, <3>4, Zenon DEF Place
  <2> QED
    BY <2>2, <2>3
<1>23. QueueLine(more)'
  <2>1. \A i \in 1..(Len(queue') - 1) : Succeeds(more, Place(queue[i]), queue[i + 1])'
    BY <1>19 DEF Succeeds, Place, IsSnapshot
  <2> QED
    BY <1>17, <1>20, <1>21, <1>22, <2>1 DEF QueueLine
<1>24. queue # <<>> => queue'[1] = queue[1] /\ queue[1].gen \in 1..g
  <2> SUFFICES ASSUME queue # <<>> PROVE queue'[1] = queue[1] /\ queue[1].gen \in 1..g
    OBVIOUS
  <2>1. queue \in Seq(Jobs)
    BY <1>1 DEF TypeOK
  <2>2. 1 \in 1..n
    BY <1>0, <2>1, EmptySeq
  <2> QED
    BY <1>16, <2>2
<1>25. HeadLine(more)'
  <2>1. CASE queue = <<>>
    <3>1. n = 0 /\ Opens(Generation, journal) /\ DiskPlace = <<g, x - 1>> /\ 1 \in 1..k
      BY <1>0, <1>1, <1>2, <1>6, <2>1, EmptySeq DEF HeadLine, HeadNext, HeadKept, HeadHalf
    <3>2. Place(queue'[1]) = <<g, x + 1 - 1>> /\ ~IsSnapshot(queue'[1])
      <4>1. n + 1 = 1
        BY <3>1
      <4> QED
        BY <1>14, <3>1, <4>1
    <3>3. x + 1 - 1 = x - 1 + 1
      OBVIOUS
    <3>4. Succeeds(more, DiskPlace, queue'[1])
      BY <3>1, <3>2, <3>3 DEF Succeeds, Place
    <3>5. Succeeds(more, DiskPlace, queue[1])'
      BY <1>10, <3>4 DEF Succeeds, IsSnapshot
    <3> QED
      BY <1>10, <3>1, <3>5 DEF HeadLine, HeadNext
  <2>2. CASE queue # <<>> /\ HeadNext(base)
    <3>1. Succeeds(base, DiskPlace, queue[1])
      BY <2>2 DEF HeadNext
    <3>2. \A y \in 1..g : more[y] = base[y]
      <4>1. \A y \in 1..g : y \in 0..g
        OBVIOUS
      <4> QED
        BY <1>4, <4>1
    <3>3. Succeeds(more, DiskPlace, queue'[1])
      BY <1>11, <1>24, <2>2, <3>1, <3>2 DEF Succeeds, DiskPlace
    <3>4. Succeeds(more, DiskPlace, queue[1])'
      BY <1>10, <3>3 DEF Succeeds, IsSnapshot
    <3> QED
      BY <1>10, <2>2, <3>4 DEF HeadLine, HeadNext
  <2>3. CASE queue # <<>> /\ HeadKept
    <3>1. HeadKept'
      BY <1>10, <1>21, <1>24, <2>3 DEF HeadKept, Place
    <3> QED
      BY <3>1 DEF HeadLine
  <2>4. CASE queue # <<>> /\ HeadHalf
    <3>1. Opens(snapshot.gen - 1, journal)'
      BY <1>1, <2>4 DEF HeadHalf, Opens, Whole, EndsTorn, IsTorn, Place
    <3>2. HeadHalf'
      BY <1>1, <1>10, <1>21, <1>24, <2>4, <3>1 DEF HeadHalf, IsSnapshot
    <3> QED
      BY <3>2 DEF HeadLine
  <2> QED
    BY <1>1, <2>1, <2>2, <2>3, <2>4 DEF HeadLine
<1>26. HostLine'
  <2>1. LastLine'
    BY <1>1, <1>10, <1>21, <1>24 DEF HostLine, LastLine, LastRight, IsSnapshot
  <2>2. \A s \in Slots : AskLine(s)'
    BY <1>1 DEF HostLine, AskLine, IsSnapshot
  <2>3. WaitLine'
    <3> SUFFICES ASSUME awaiting # Nobody
                 PROVE  /\ asks[awaiting].job = queue'[1]
                        /\ asks[awaiting].at = "removed" => journal = <<>>
                        /\ asks[awaiting].at = "kept" => (HeadKept /\ LastRight)'
      BY <1>1 DEF WaitLine
    <3>1. /\ asks[awaiting].job = queue[1] /\ queue # <<>>
          /\ asks[awaiting].at = "removed" => journal = <<>>
          /\ asks[awaiting].at = "kept" => HeadKept /\ LastRight
      BY <1>1 DEF HostLine, WaitLine, TypeInv, WaitsForAJob
    <3>2. HeadKept => HeadKept'
      BY <1>10, <1>21, <1>24 DEF HeadKept, Place
    <3>3. LastRight => LastRight'
      BY <1>1, <1>10 DEF LastRight
    <3> QED
      BY <1>24, <3>1, <3>2, <3>3
  <2> QED
    BY <2>1, <2>2, <2>3 DEF HostLine
<1>27. (confirmed \subseteq ChangesIn(OnDisk))'
  BY <1>1, <1>10 DEF Line, ChangesIn
<1>28. Line(more)'
  BY <1>1, <1>12, <1>23, <1>25, <1>26, <1>27 DEF Line
<1> QED
  BY <1>10, <1>28

LEMMA BeginsIsSubSeq ==
  ASSUME NEW S, NEW part \in Seq(S), NEW rows \in Seq(S), Begins(part, rows)
  PROVE  part = SubSeq(rows, 1, Len(part))
<1>1. Len(part) \in Nat /\ Len(rows) \in Nat /\ Len(part) <= Len(rows)
  BY DEF Begins
<1>2. \A i \in 1..Len(part) : rows[i] \in S
  BY <1>1, ElementOfSeq
<1>3. /\ SubSeq(rows, 1, Len(part)) \in Seq(S)
      /\ Len(SubSeq(rows, 1, Len(part))) = IF 1 <= Len(part) THEN Len(part) - 1 + 1 ELSE 0
      /\ \A i \in 1..(Len(part) - 1 + 1) : SubSeq(rows, 1, Len(part))[i] = rows[1 + i - 1]
  BY <1>1, <1>2, SubSeqProperties
<1>4. Len(SubSeq(rows, 1, Len(part))) = Len(part)
  BY <1>1, <1>3
<1>5. ASSUME NEW i \in 1..Len(part) PROVE part[i] = SubSeq(rows, 1, Len(part))[i]
  <2>1. i \in 1..(Len(part) - 1 + 1) /\ 1 + i - 1 = i
    BY <1>1
  <2> QED
    BY <1>3, <2>1 DEF Begins
<1> QED
  BY <1>3, <1>4, <1>5, SeqEqual

LEMMA LineInit == Init => LineInv
<1> SUFFICES ASSUME Init PROVE LineInv
  OBVIOUS
<1> DEFINE base == [g \in Nat |-> 0]
<1>1. base \in [Nat -> Nat] /\ base[1] = 0
  OBVIOUS
<1> HIDE DEF base
<1>2. /\ Whole(journal) = <<>> /\ Len(<<>>) = 0 /\ Count = 0 /\ Generation = 1
      /\ snapshot.data = <<>> /\ IsSnapshot(snapshot) /\ snapshot = NoJob
      /\ kept.generation = 1 /\ kept.next = 1 /\ queue = <<>> /\ book = <<>> /\ journal = <<>>
  BY DEF Init, Whole, EndsTorn, Count, Generation, NoJob, Job, IsSnapshot, FreshKept
<1>3. Begins(<<>>, book)
  BY <1>2 DEF Begins
<1>4. DiskLine(base)
  BY <1>1, <1>2, <1>3 DEF DiskLine
<1>5. QueueLine(base)
  BY <1>1, <1>2 DEF QueueLine, DiskPlace, Mark
<1>6. HeadLine(base)
  BY <1>2 DEF HeadLine, HeadNext, Opens
<1>7. HostLine
  BY DEF Init, HostLine, LastLine, LastRight, AskLine, WaitLine, NoAsk
<1>8. confirmed \subseteq ChangesIn(OnDisk) /\ (phase = "opening" => read = snapshot)
  BY DEF Init
<1> QED
  BY <1>1, <1>4, <1>5, <1>6, <1>7, <1>8 DEF LineInv, Line

\* Every step keeps the line, and is a step of what the book promises; and once something
\* has spoilt the host's files, nothing is promised.
DurableStep == [Durable!DurableNext]_(Durable!durableVars)

LEMMA DurableStutter ==
  ASSUME OnDisk' = OnDisk, UNCHANGED <<book, confirmed>>, phase' = "up" <=> phase = "up",
         spoilt' = spoilt
  PROVE  DurableStep
<1>1. (phase' = "up") = (phase = "up") /\ (spoilt' # {}) = (spoilt # {})
  OBVIOUS
<1> QED
  BY <1>1 DEF DurableStep, Durable!durableVars

\* A write of the host that does not shorten what is on the disk.
LEMMA DurableKeep ==
  ASSUME TypeOK, TypeOK', NEW base \in [Nat -> Nat], Line(base), Line(base)',
         Len(OnDisk) <= Len(OnDisk'), UNCHANGED <<phase, book, confirmed>>,
         spoilt = {}, spoilt' = {}
  PROVE  DurableStep
<1>1. DiskFacts(base)
  BY DiskAlways DEF DiskTruth, Line
<1>2. DiskTruth'
  BY DiskAlways, PTL
<1>3. DiskFacts(base)'
  BY <1>2 DEF DiskTruth, Line
<1>4. OnDisk' \in Seq(1..MaxChanges) /\ OnDisk \in Seq(1..MaxChanges) /\ book \in Seq(1..MaxChanges)
  BY <1>1, <1>3 DEF DiskFacts, TypeOK
<1>5. Begins(OnDisk', book)
  BY <1>3 DEF DiskFacts, Begins
<1>6. OnDisk' = SubSeq(book, 1, Len(OnDisk'))
  BY <1>4, <1>5, BeginsIsSubSeq
<1>7. Len(OnDisk') \in Len(OnDisk)..Len(book)
  <2>1. Len(OnDisk') \in Nat /\ Len(OnDisk) \in Nat /\ Len(book) \in Nat
    BY <1>4, LenProperties
  <2>2. Len(OnDisk') <= Len(book)
    BY <1>5 DEF Begins
  <2> QED
    BY <2>1, <2>2
<1>8. Durable!Keep
  <2>1. (phase' = "up") = (phase = "up") /\ (spoilt' # {}) = (spoilt # {})
    OBVIOUS
  <2>2. \E n \in Len(OnDisk)..Len(book) : OnDisk' = SubSeq(book, 1, n)
    BY <1>6, <1>7
  <2> QED
    BY <2>1, <2>2 DEF Durable!Keep
<1> QED
  BY <1>8 DEF DurableStep, Durable!DurableNext

LEMMA DurableBreaks == ASSUME spoilt' # {} PROVE DurableStep
  BY DEF DurableStep, Durable!DurableNext, Durable!Break

LEMMA LineStep ==
  ASSUME TypeInv, TypeInv', HomeInv, LineInv, [Next]_vars
  PROVE  LineInv' /\ DurableStep
<1>1. CASE spoilt' # {}
  BY <1>1, DurableBreaks DEF LineInv
<1>2. ASSUME spoilt' = {} PROVE LineInv' /\ DurableStep
  <2>0. spoilt = {} /\ spoilt' = spoilt /\ TypeOK /\ TypeOK'
    BY <1>2, SpoiltGrows DEF TypeInv
  <2> PICK base \in [Nat -> Nat] : Line(base)
    BY <2>0 DEF LineInv
  <2>1. ASSUME Line(base)' PROVE LineInv'
    BY <2>1 DEF LineInv
  <2>2. ASSUME Line(base)', OnDisk' = OnDisk, UNCHANGED <<book, confirmed>>, phase' = "up" <=> phase = "up"
        PROVE  LineInv' /\ DurableStep
    BY <2>0, <2>1, <2>2, DurableStutter
  <2>3. ASSUME Line(base)', Len(OnDisk) <= Len(OnDisk'), UNCHANGED <<phase, book, confirmed>>
        PROVE  LineInv' /\ DurableStep
    BY <1>2, <2>0, <2>1, <2>3, DurableKeep
  <2>4. CASE UNCHANGED vars
    <3>1. HostLine'
      BY <2>4 DEF vars, Line, HostLine, LastLine, LastRight, AskLine, WaitLine, HeadKept, Count,
                  Whole, EndsTorn, IsTorn, Opens, Place, DiskPlace, Generation, IsSnapshot
    <3>2. Line(base)' /\ OnDisk' = OnDisk
      BY <2>4, <3>1, LineStill DEF vars, Line
    <3> QED
      BY <2>2, <2>4, <3>2 DEF vars
  <2>5. CASE ReadSnapshot \/ HostStop \/ GiveUp
    <3>1. UNCHANGED <<book, confirmed>> /\ (phase' = "up" <=> phase = "up")
      BY <2>5 DEF ReadSnapshot, HostStop, GiveUp, enclaveVars
    <3> QED
      BY <2>2, <2>5, <3>1, LineEnclave
  <2>6. CASE EnclaveStop
    <3>1. Line(base)' /\ OnDisk' = OnDisk /\ UNCHANGED <<book, confirmed>> /\ phase' = "down"
      BY <2>6, LineEnclave DEF EnclaveStop
    <3>2. CASE phase = "up"
      <4>1. Durable!Stop
        BY <2>0, <3>1, <3>2 DEF Durable!Stop
      <4> QED
        BY <2>1, <3>1, <4>1 DEF DurableStep, Durable!DurableNext
    <3>3. CASE phase # "up"
      BY <2>2, <3>1, <3>3
    <3> QED
      BY <3>2, <3>3
  <2>7. CASE Open /\ phase' = "up"
    <3>1. /\ \E more \in [Nat -> Nat] : Line(more)'
          /\ OnDisk' = OnDisk /\ book' = OnDisk
          /\ confirmed' = confirmed \cup ChangesIn(OnDisk)
      BY <2>7, LineOpen
    <3>2. LineInv'
      BY <3>1 DEF LineInv
    <3>3. phase # "up"
      BY <2>7 DEF Open
    <3>4. Durable!Begin
      BY <2>0, <2>7, <3>1, <3>3 DEF Durable!Begin, ChangesIn
    <3> QED
      BY <3>2, <3>4 DEF DurableStep, Durable!DurableNext
  <2>8. CASE Open /\ phase' # "up"
    <3>1. phase # "up"
      BY <2>8 DEF Open
    <3> QED
      BY <2>2, <2>8, <3>1, LineRefused
  <2>9. ASSUME NEW k \in 1..MaxBatch, Change(k) PROVE LineInv' /\ DurableStep
    <3>1. (\E more \in [Nat -> Nat] : Line(more)') /\ OnDisk' = OnDisk
      BY <2>0, <2>9, LineChange
    <3> DEFINE new == [i \in 1..k |-> made + i]
    <3>2. /\ phase = "up" /\ UNCHANGED <<phase, confirmed>> /\ book' = book \o new
          /\ made + k <= MaxChanges
      BY <2>9 DEF Change
    <3>3. k \in Nat \ {0} /\ made \in Nat /\ MaxChanges \in Nat
      <4>1. made \in 0..MaxChanges
        BY <2>0 DEF TypeOK
      <4> QED
        BY <4>1, BookAssumption
    <3>4. \A i \in 1..k : made + i \in 1..MaxChanges /\ made + i \notin 1..made
      BY <3>2, <3>3
    <3>5. new \in [1..k -> 1..MaxChanges]
      BY <3>4
    <3>6. new \in Durable!Batches
      BY <3>5 DEF Durable!Batches
    <3>7. Len(new) = k
      BY <3>3, <3>5, FunctionIsSeq
    <3>8. \A i \in 1..k : ~Durable!Holds(book, new[i])
      BY <3>2, <3>4 DEF HomeInv, BookFits, Durable!Holds, ChangesIn
    <3> HIDE DEF new
    <3>9. \E more \in Durable!Batches :
            /\ \A i \in 1..Len(more) : ~Durable!Holds(book, more[i])
            /\ book' = book \o more
      BY <3>2, <3>6, <3>7, <3>8
    <3>10. Durable!Write
      BY <2>0, <3>1, <3>2, <3>9 DEF Durable!Write
    <3>11. LineInv'
      BY <3>1 DEF LineInv
    <3> QED
      BY <3>10, <3>11 DEF DurableStep, Durable!DurableNext
  <2>10. ASSUME NEW s \in Slots, Offer(s) PROVE LineInv' /\ DurableStep
    <3>1. UNCHANGED <<book, confirmed, phase>>
      BY <2>10 DEF Offer, enclaveVars
    <3> QED
      BY <2>2, <2>10, <3>1, LineOffer
  <2>11. CASE HearKept
    <3>1. Line(base)' /\ OnDisk' = OnDisk
      BY <2>11, LineHearKept
    <3>2. /\ phase = "up" /\ UNCHANGED <<phase, book>> /\ confirmed \subseteq confirmed'
      BY <2>11 DEF HearKept, TypeInv, WaitsForAJob
    <3>3. confirmed' \subseteq ChangesIn(OnDisk)
      BY <3>1 DEF Line, ChangesIn
    <3>4. Durable!Confirm
      BY <2>0, <3>1, <3>2, <3>3 DEF Durable!Confirm, Durable!Holds, ChangesIn
    <3> QED
      BY <2>1, <3>1, <3>4 DEF DurableStep, Durable!DurableNext
  <2>12. ASSUME NEW s \in Slots, Fails(s) \/ (AddRecord(s) /\ Record(s).num # Known + 1) \/ Forget(s)
         PROVE  LineInv' /\ DurableStep
    <3>1. UNCHANGED <<book, confirmed, phase>>
      BY <2>12 DEF Fails, AddRecord, Forget, enclaveVars
    <3>2. Line(base)' /\ OnDisk' = OnDisk
      BY <2>12, LineAnswers, LineForget
    <3> QED
      BY <2>2, <3>1, <3>2
  <2>13. ASSUME NEW s \in Slots, AddRecord(s), Record(s).num = Known + 1 PROVE LineInv' /\ DurableStep
    <3>1. UNCHANGED <<book, confirmed, phase>>
      BY <2>13 DEF AddRecord, enclaveVars
    <3> QED
      BY <1>2, <2>0, <2>3, <2>13, <3>1, LineAppend
  <2>14. ASSUME NEW s \in Slots, TornAppend(s) PROVE LineInv' /\ DurableStep
    <3>1. UNCHANGED <<book, confirmed, phase>>
      BY <2>14 DEF TornAppend, enclaveVars
    <3> QED
      BY <1>2, <2>0, <2>2, <2>14, <3>1, LineTorn
  <2>15. ASSUME NEW s \in Slots, Rename(s) \/ RemoveJournal(s) PROVE LineInv' /\ DurableStep
    <3>1. UNCHANGED <<book, confirmed, phase>>
      BY <2>15 DEF Rename, RemoveJournal, enclaveVars
    <3>2. Line(base)' /\ Len(OnDisk) <= Len(OnDisk')
      BY <1>2, <2>0, <2>15, LineRename, LineRemoveJournal
    <3> QED
      BY <2>3, <3>1, <3>2
  <2>16. CASE Next
    <3>1. CASE \E s \in Slots : Host(s) \/ Fails(s)
      BY <2>12, <2>13, <2>14, <2>15, <3>1 DEF Host
    <3> QED
      BY <2>5, <2>6, <2>7, <2>8, <2>9, <2>10, <2>11, <2>16, <3>1 DEF Next
  <2> QED
    BY <2>4, <2>16
<1> QED
  BY <1>1, <1>2

LEMMA LineBegins == Init => Durable!DurableInit
<1> SUFFICES ASSUME Init PROVE Durable!DurableInit
  OBVIOUS
<1>1. Whole(journal) = <<>> /\ snapshot.data = <<>> /\ Len(<<>>) = 0 /\ journal = <<>>
  BY DEF Init, Whole, EndsTorn, NoJob, Job
<1>2. Replay(snapshot.data, journal) = <<>>
  BY <1>1 DEF Replay
<1>3. OnDisk = <<>>
  BY <1>1, <1>2 DEF OnDisk
<1> QED
  BY <1>3 DEF Init, Durable!DurableInit

AllInv == TypeInv /\ HomeInv /\ LineInv

LEMMA AllInit == Init => AllInv
  BY InitType, HomeInit, LineInit DEF AllInv

LEMMA AllStep == AllInv /\ [Next]_vars => AllInv' /\ DurableStep
<1> SUFFICES ASSUME AllInv, [Next]_vars PROVE AllInv' /\ DurableStep
  OBVIOUS
<1>1. TypeInv' /\ HomeInv'
  BY StepType, HomeStep DEF AllInv
<1> QED
  BY <1>1, LineStep DEF AllInv

\* At every moment at which a start can come, the book on the host's disk opens, unless a
\* fold is half done: through folds, records offered again, torn writes and stops of either
\* side, with every fault, until something has spoilt the host's files.
THEOREM BookAlwaysOpens == Spec => []DiskOpens
<1>1. AllInv => DiskOpens
  BY DEF AllInv, LineInv, Line, HeadLine, HeadNext, HeadKept, HeadHalf, DiskOpens, HalfFolded
<1> QED
  BY <1>1, AllInit, AllStep, PTL DEF Spec

\* A change whose place was marked flushed is on the disk from then on: a start that opens
\* the book finds it, and so does whoever removes the journal of a half-done fold by hand.
THEOREM BookKeepsConfirmed == Spec => []ConfirmedKept
<1>1. AllInv => ConfirmedKept
  BY DEF AllInv, LineInv, Line, ConfirmedKept, FoundAgain, ChangesIn
<1> QED
  BY <1>1, AllInit, AllStep, PTL DEF Spec

\* The book, its writer and the host together implement DurableBook: what is on the disk is
\* a beginning of the book in memory and never goes back, a change is confirmed only once it
\* is there, and a start goes on from all of it and from nothing else.
THEOREM BookIsDurable == Spec => KeepsThePromise
<1>1. AllInv /\ [Next]_vars => AllInv' /\ [Durable!DurableNext]_(Durable!durableVars)
  BY AllStep DEF DurableStep
<1> QED
  BY <1>1, AllInit, LineBegins, PTL DEF Spec, KeepsThePromise, Durable!DurableSpec

=============================================================================
