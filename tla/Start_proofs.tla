----------------------------- MODULE Start_proofs -----------------------------
(***************************************************************************)
(* Every start uses the key the host keeps, and an address once kept stays *)
(* kept, for any number of enclaves, starts, gateways and faults.          *)
(*                                                                         *)
(* An enclave does one of four things to what the proofs look at: it walks *)
(* on by itself, lays out the doors, or hands one of two files to the host *)
(* (`Moved`). What the host's tasks do is followed one by one.             *)
(***************************************************************************)
EXTENDS Start, TLAPS

Pcs == {"off", "secrets", "key", "putting key", "book", "doors", "opening", "putting doors", "serving"}
Numbers == 0..MaxStarts
Addresses == [Gateways -> 0..Operators]
Starts ==
  [pc : Pcs, no : Numbers, probe : BOOLEAN, key : Numbers, own : Numbers, dir : Addresses,
   door : [Gateways -> {"shut", "opening", "open"}], answer : {"none", "kept", "refused"},
   wedged : BOOLEAN, silent : 0..SilentFor]
KeyFiles == [key : Numbers]
DoorFiles == [at : Addresses, key : Numbers]
KeyPuts == [what : {"key"}, from : Numbers, bytes : KeyFiles, stage : {"handed", "whole", "written"}]
DoorPuts == [what : {"doors"}, from : Numbers, bytes : DoorFiles, stage : {"handed", "written"}]

Types ==
  /\ enc \in [Enclaves -> Starts]
  /\ kept \in [key : Numbers, book : Numbers, doors : Addresses, under : Numbers]
  /\ tmp \in [key : SUBSET KeyFiles, doors : SUBSET DoorFiles]
  /\ tasks \subseteq KeyPuts \cup DoorPuts
  /\ hears \in BOOLEAN /\ starts \in Numbers

\* A start waits for an answer only while it puts something, and puts the key it made.
Shape(r) ==
  /\ r.pc # "off" => r.no # None
  /\ r.answer # "none" => r.pc \in {"putting key", "putting doors"}
  /\ r.pc = "putting key" => r.own = r.no
Shapes ==
  /\ \A e \in Enclaves : Shape(enc[e])
  /\ \A t \in tasks : t.what = "key" => t.bytes.key = t.from

\* A key in use, or told to be kept, is the one the host has.
SeesKey(r, k) ==
  /\ r.key # None => r.key = k
  /\ r.pc = "putting key" /\ r.answer = "kept" => r.own = k
\* Once a put has found no key and until it has renamed its own there is no other such put
\* and no key.
KeyHost ==
  /\ kept.book \in {None, kept.key}
  /\ \A t, u \in Checked : t = u
  /\ kept.key # None => Checked = {}
  /\ \A t \in Checked : t.stage = "written" => tmp.key = {t.bytes}
KeyInv == "key" \in excused \/ (KeyHost /\ \A e \in Enclaves : SeesKey(enc[e], kept.key))

\* These addresses have every address the host keeps.
Holds(at) == \A g \in Gateways : kept.doors[g] # None => at[g] = kept.doors[g]
UnderWay == {"opening", "putting doors"}
DoorTasks == {t \in tasks : t.what = "doors"}
DoorHost ==
  /\ \A t, u \in DoorTasks : t = u
  /\ \A t \in DoorTasks :
       /\ Holds(t.bytes.at) /\ t.bytes.key = kept.key /\ kept.key # None
       /\ t.stage = "written" => tmp.doors = {t.bytes}
  /\ kept.under \in {None, kept.key}
  /\ kept.under = None => kept.doors = NoDoors
DoorsOne ==
  /\ \A e, o \in Enclaves : enc[e].pc \in UnderWay /\ enc[o].pc \in UnderWay => e = o
  /\ \A e \in Enclaves : enc[e].pc = "opening" => DoorTasks = {} /\ (enc[e].key # None => Holds(enc[e].dir))
DoorInv == excused # {} \/ (DoorHost /\ DoorsOne)

-----------------------------------------------------------------------------
(* What an enclave does.                                                   *)

Onward(e, r) ==
  /\ Goes(e, r) /\ r \in Starts /\ Shape(r)
  /\ SeesKey(enc[e], kept.key) => SeesKey(r, kept.key)
  /\ kept' = kept /\ tmp' = tmp /\ hears' \in BOOLEAN /\ starts' \in Numbers

\* By itself; a door that opens may add an address.
Walks(e, r) ==
  /\ Onward(e, r) /\ tasks' = tasks /\ excused' = excused
  /\ r.pc \in UnderWay =>
       /\ r.pc = enc[e].pc /\ r.key = enc[e].key
       /\ \A g \in Gateways : enc[e].dir[g] # None => r.dir[g] = enc[e].dir[g]

Lays(e, r) ==
  /\ Onward(e, r) /\ tasks' = tasks
  /\ r.pc = "opening" /\ r.key = enc[e].key
  /\ excused \subseteq excused' /\ ("key" \in excused' => "key" \in excused)
  /\ excused' = {} => ~DoorsUnderWay /\ (r.key # None => r.dir = DoorsOf(e, "kept"))

HandsKey(e, r) ==
  /\ Onward(e, r) /\ excused' = excused
  /\ r.pc = "putting key"
  /\ tasks' = tasks \cup {[what |-> "key", from |-> r.no, bytes |-> [key |-> r.no], stage |-> "handed"]}

HandsDoors(e, r) ==
  /\ Onward(e, r) /\ excused' = excused
  /\ enc[e].pc = "opening" /\ r.pc = "putting doors" /\ enc[e].key # None
  /\ tasks' = tasks \cup {[what |-> "doors", from |-> r.no,
                           bytes |-> [at |-> enc[e].dir, key |-> enc[e].key], stage |-> "handed"]}

Moved(e) == \E r : Walks(e, r) \/ Lays(e, r) \/ HandsKey(e, r) \/ HandsDoors(e, r)

LEMMA Constants == MaxStarts \in Nat /\ SilentFor \in Nat /\ SilentFor > 0 /\ Operators \in Nat /\ Operators > MaxStarts
BY StartAssumption DEF Operators

LEMMA AddressRange == None \in 0..Operators /\ Operators \in 0..Operators
BY Constants DEF None

LEMMA OffIsStart == Off \in Starts /\ Shape(Off) /\ Off.key = None /\ Off.pc = "off" /\ Off.answer = "none"
BY Constants DEF Off, Starts, Pcs, Numbers, Addresses, NoDoors, None, Shape

\* A start that stops is no start.
LEMMA Stopped ==
  ASSUME Types, NEW e \in Enclaves, Goes(e, Off), UNCHANGED host, excused' = excused, starts' = starts
  PROVE  Walks(e, Off)
BY OffIsStart DEF Types, Walks, Onward, host, SeesKey, UnderWay

\* To another step, with nothing else changed.
LEMMA Stepped ==
  ASSUME Types, Shapes, NEW e \in Enclaves, NEW pc \in Pcs \ ({"putting key"} \cup UnderWay),
         enc[e].pc \notin {"off", "putting key", "putting doors"},
         Goes(e, To(e, pc)), UNCHANGED host, excused' = excused, starts' = starts
  PROVE  Walks(e, To(e, pc))
<1> DEFINE r == To(e, pc)
<1>1. enc[e] \in Starts /\ Shape(enc[e]) /\ UNCHANGED <<kept, tmp, tasks, hears>> /\ hears \in BOOLEAN /\ starts \in Numbers
  BY DEF Types, Shapes, host
<1>2. r \in Starts
  BY <1>1 DEF To, Starts, Pcs
<1>3. /\ r.pc = pc /\ r.key = enc[e].key /\ r.no = enc[e].no /\ r.answer = enc[e].answer
  BY <1>1 DEF To, Starts
<1>4. enc[e].answer = "none"
  BY <1>1 DEF Shape, Starts
<1> HIDE DEF r
<1>5. Shape(r) /\ r.pc \notin UnderWay /\ (SeesKey(enc[e], kept.key) => SeesKey(r, kept.key))
  BY <1>1, <1>3, <1>4 DEF Shape, SeesKey, UnderWay
<1> QED BY <1>1, <1>2, <1>5 DEF Walks, Onward, r

\* With a key that is the host's, or that the host said it keeps.
LEMMA Taking ==
  ASSUME Types, Shapes, NEW e \in Enclaves, NEW key \in Numbers, enc[e].pc # "off",
         SeesKey(enc[e], kept.key) => key = kept.key,
         Goes(e, HasKey(e, key)), UNCHANGED host, excused' = excused, starts' = starts
  PROVE  Walks(e, HasKey(e, key))
<1> DEFINE r == HasKey(e, key)
<1>1. enc[e] \in Starts /\ Shape(enc[e]) /\ UNCHANGED <<kept, tmp, tasks, hears>> /\ hears \in BOOLEAN /\ starts \in Numbers
  BY DEF Types, Shapes, host
<1>2. r \in Starts
  <2>1. None \in Numbers /\ "book" \in Pcs
    BY Constants DEF None, Numbers, Pcs
  <2> QED BY <1>1, <2>1 DEF HasKey, Starts
<1>3. r.pc = "book" /\ r.key = key /\ r.no = enc[e].no /\ r.answer = "none"
  BY <1>1 DEF HasKey, Starts
<1> HIDE DEF r
<1>5. Shape(r) /\ r.pc \notin UnderWay /\ (SeesKey(enc[e], kept.key) => SeesKey(r, kept.key))
  BY <1>1, <1>3 DEF Shape, SeesKey, UnderWay
<1> QED BY <1>1, <1>2, <1>5 DEF Walks, Onward, r

\* After a put that was not taken: the host's key or none.
LEMMA Asked ==
  ASSUME Types, Shapes, NEW e \in Enclaves, enc[e].pc # "off",
         AskAgain(e), excused' = excused, starts' = starts
  PROVE  \E r : Walks(e, r)
<1>1. kept.key \in Numbers
  BY DEF Types
<1>2. CASE kept.key \in {None, enc[e].own}
  BY <1>2, Stopped DEF AskAgain, Leaves
<1>3. CASE kept.key \notin {None, enc[e].own}
  BY <1>1, <1>3, Taking DEF AskAgain
<1> QED BY <1>2, <1>3

\* A door opens or stays shut, and its client may have made its identity.
LEMMA Opened ==
  ASSUME Types, Shapes, NEW e \in Enclaves, NEW g \in Gateways, NEW to \in {"open", "shut"},
         NEW id, id \in {enc[e].dir[g], Identity(e, g)}, enc[e].pc = "opening",
         Goes(e, [enc[e] EXCEPT !.door[g] = to, !.dir[g] = id]),
         UNCHANGED host, excused' = excused, starts' = starts
  PROVE  \E r : Walks(e, r)
<1> DEFINE r == [enc[e] EXCEPT !.door[g] = to, !.dir[g] = id]
<1>1. enc[e] \in Starts /\ Shape(enc[e]) /\ UNCHANGED <<kept, tmp, tasks, hears>> /\ hears \in BOOLEAN /\ starts \in Numbers
  BY DEF Types, Shapes, host
<1>2. enc[e].dir \in Addresses /\ enc[e].door \in [Gateways -> {"shut", "opening", "open"}] /\ enc[e].no \in Numbers
  BY <1>1 DEF Starts
<1>3. id \in 0..Operators
  BY <1>2, Constants DEF Addresses, Numbers, Identity
<1>4. r = [enc[e] EXCEPT !.door = [enc[e].door EXCEPT ![g] = to], !.dir = [enc[e].dir EXCEPT ![g] = id]]
  BY <1>1 DEF Starts
<1>5. [enc[e].door EXCEPT ![g] = to] \in [Gateways -> {"shut", "opening", "open"}] /\ [enc[e].dir EXCEPT ![g] = id] \in Addresses
  BY <1>2, <1>3 DEF Addresses
<1> HIDE DEF r
<1>6. r \in Starts /\ r.pc = enc[e].pc /\ r.key = enc[e].key /\ r.no = enc[e].no /\ r.answer = enc[e].answer
      /\ r.dir = [enc[e].dir EXCEPT ![g] = id]
  BY <1>1, <1>4, <1>5 DEF Starts
<1>7. Shape(r) /\ (SeesKey(enc[e], kept.key) => SeesKey(r, kept.key))
  BY <1>1, <1>6 DEF Shape, SeesKey
<1>8. \A h \in Gateways : enc[e].dir[h] # None => r.dir[h] = enc[e].dir[h]
  BY <1>2, <1>6 DEF Identity, Addresses
<1>9. Goes(e, r)
  BY DEF r
<1>10. Walks(e, r)
  BY <1>1, <1>6, <1>7, <1>8, <1>9 DEF Walks, Onward
<1> QED BY <1>10

\* It serves on, whatever it heard of its doors.
LEMMA Served ==
  ASSUME Types, Shapes, NEW e \in Enclaves, enc[e].pc = "putting doors",
         Goes(e, [To(e, "serving") EXCEPT !.answer = "none"]), UNCHANGED host, excused' = excused, starts' = starts
  PROVE  \E r : Walks(e, r)
<1> DEFINE r == [To(e, "serving") EXCEPT !.answer = "none"]
<1>1. enc[e] \in Starts /\ Shape(enc[e]) /\ UNCHANGED <<kept, tmp, tasks, hears>> /\ hears \in BOOLEAN /\ starts \in Numbers
  BY DEF Types, Shapes, host
<1>2. r \in Starts /\ r.pc = "serving" /\ r.key = enc[e].key /\ r.no = enc[e].no /\ r.answer = "none"
  BY <1>1 DEF To, Starts, Pcs
<1>3. Goes(e, r)
  OBVIOUS
<1> HIDE DEF r
<1>4. Shape(r) /\ (SeesKey(enc[e], kept.key) => SeesKey(r, kept.key)) /\ r.pc \notin UnderWay
  BY <1>1, <1>2 DEF Shape, SeesKey, UnderWay
<1>5. Walks(e, r)
  BY <1>1, <1>2, <1>3, <1>4 DEF Walks, Onward
<1> QED BY <1>5

\* A wedged runtime, one that comes back, and the pulse change nothing the keys are about.
LEMMA Pulsed ==
  ASSUME Types, Shapes, NEW e \in Enclaves, NEW wedged \in BOOLEAN, NEW silent \in 0..SilentFor,
         Goes(e, [enc[e] EXCEPT !.wedged = wedged, !.silent = silent]), UNCHANGED host, excused' = excused, starts' = starts
  PROVE  \E r : Walks(e, r)
<1> DEFINE r == [enc[e] EXCEPT !.wedged = wedged, !.silent = silent]
<1>1. enc[e] \in Starts /\ Shape(enc[e]) /\ UNCHANGED <<kept, tmp, tasks, hears>> /\ hears \in BOOLEAN /\ starts \in Numbers
  BY DEF Types, Shapes, host
<1>2. r \in Starts /\ r.pc = enc[e].pc /\ r.key = enc[e].key /\ r.no = enc[e].no /\ r.answer = enc[e].answer /\ r.own = enc[e].own /\ r.dir = enc[e].dir
  BY <1>1 DEF Starts
<1>3. Goes(e, r)
  OBVIOUS
<1> HIDE DEF r
<1>4. Shape(r) /\ (SeesKey(enc[e], kept.key) => SeesKey(r, kept.key))
  BY <1>1, <1>2 DEF Shape, SeesKey
<1>5. Walks(e, r)
  BY <1>1, <1>2, <1>3, <1>4 DEF Walks, Onward
<1> QED BY <1>5

LEMMA Laid ==
  ASSUME Types, Shapes, NEW e \in Enclaves, LayOut(e)
  PROVE  \E r : Lays(e, r)
<1>1. PICK answered \in {"kept", "nothing", "no answer"} :
        /\ Goes(e, [To(e, "opening") EXCEPT !.dir = DoorsOf(e, answered), !.door = [g \in Gateways |-> "opening"]])
        /\ excused' = excused \cup (IF DoorsUnderWay THEN {"doors"} ELSE {})
                              \cup (IF answered # "kept" /\ enc[e].key # None THEN {"unread"} ELSE {})
  BY DEF LayOut
<1> DEFINE r == [To(e, "opening") EXCEPT !.dir = DoorsOf(e, answered), !.door = [g \in Gateways |-> "opening"]]
<1>2. enc[e] \in Starts /\ Shape(enc[e]) /\ UNCHANGED <<kept, tmp, tasks, hears, starts>> /\ hears \in BOOLEAN /\ starts \in Numbers
      /\ enc[e].pc = "doors"
  BY DEF Types, Shapes, host, LayOut, At
<1>3. DoorsOf(e, answered) \in Addresses
  <2>1. None \in 0..Operators /\ Operators \in 0..Operators
    BY AddressRange
  <2>2. NoDoors \in Addresses /\ OperatorHeld \in Addresses
    BY <2>1 DEF NoDoors, OperatorHeld, Addresses
  <2>3. kept.doors \in Addresses
    BY DEF Types
  <2> QED BY <2>2, <2>3 DEF DoorsOf
<1>4. [g \in Gateways |-> "opening"] \in [Gateways -> {"shut", "opening", "open"}]
  OBVIOUS
<1>5. /\ r \in Starts /\ r.pc = "opening" /\ r.key = enc[e].key /\ r.no = enc[e].no /\ r.answer = enc[e].answer
      /\ r.dir = DoorsOf(e, answered)
  BY <1>2, <1>3, <1>4 DEF To, Starts, Pcs
<1>6. Goes(e, r)
  BY <1>1
<1> HIDE DEF r
<1>7. Shape(r) /\ (SeesKey(enc[e], kept.key) => SeesKey(r, kept.key))
  BY <1>2, <1>5 DEF Shape, SeesKey
<1>8. excused' = {} => ~DoorsUnderWay /\ (r.key # None => r.dir = DoorsOf(e, "kept"))
  <2>1. excused' = {} => ~DoorsUnderWay /\ (enc[e].key # None => answered = "kept")
    BY <1>1
  <2> QED BY <2>1, <1>5
<1>9. excused \subseteq excused' /\ ("key" \in excused' => "key" \in excused)
  BY <1>1
<1>10. Lays(e, r)
  BY <1>2, <1>5, <1>6, <1>7, <1>8, <1>9 DEF Lays, Onward
<1> QED BY <1>10

\* A step of its own of an enclave that has none of the host's files under way.
LEMMA Proceeding ==
  ASSUME Types, Shapes, NEW e \in Enclaves, Proceeds(e)
  PROVE  Moved(e)
<1> DEFINE r == enc[e]
<1>1. r \in Starts /\ Shape(r) /\ hears \in BOOLEAN /\ starts \in Numbers /\ kept.key \in Numbers
  BY DEF Types, Shapes
<1>2. CASE Unsealed(e)
  BY <1>2, Stepped DEF Unsealed, At, counts, Moved, Pcs, UnderWay
<1>3. CASE OpensKept(e)
  BY <1>1, <1>3, Taking DEF OpensKept, At, counts, Moved
<1>4. CASE Born(e)
  <2> DEFINE n == [To(e, "putting key") EXCEPT !.own = enc[e].no]
  <2>1. /\ Goes(e, n) /\ Handed("key", e, [key |-> enc[e].no]) /\ r.pc = "key" /\ kept' = kept /\ tmp' = tmp
        /\ hears' = hears /\ starts' = starts /\ excused' = excused
    BY <1>4 DEF Born, At
  <2>2. n \in Starts /\ n.pc = "putting key" /\ n.own = r.no /\ n.no = r.no /\ n.key = r.key /\ n.answer = r.answer
    BY <1>1 DEF To, Starts, Pcs
  <2>3. n.answer = "none"
    BY <1>1, <2>1, <2>2 DEF Shape
  <2> HIDE DEF n
  <2>4. Shape(n) /\ (SeesKey(r, kept.key) => SeesKey(n, kept.key))
    BY <1>1, <2>1, <2>2, <2>3 DEF Shape, SeesKey
  <2>5. HandsKey(e, n)
    BY <1>1, <2>1, <2>2, <2>4 DEF HandsKey, Onward, Handed
  <2> QED BY <2>5 DEF Moved
<1>5. CASE OwnKept(e)
  <2>1. r.own \in Numbers /\ r.pc = "putting key" /\ r.answer = "kept"
    BY <1>1, <1>5 DEF OwnKept, At, Starts
  <2> QED BY <1>5, <2>1, Taking DEF OwnKept, counts, Moved, SeesKey
<1>6. CASE OwnRefused(e)
  BY <1>1, <1>6, Asked DEF OwnRefused, At, counts, Moved
<1>7. CASE BookOpened(e)
  BY <1>7, Stepped DEF BookOpened, At, counts, Moved, Pcs, UnderWay
<1>8. CASE BookRefused(e)
  BY <1>8, Stopped DEF BookRefused, Leaves, counts, Moved
<1>9. CASE LayOut(e)
  BY <1>9, Laid DEF Moved
<1>10. ASSUME NEW g \in Gateways, DoorOpens(e, g)
       PROVE  Moved(e)
  BY <1>10, Opened DEF DoorOpens, Moved, counts, At, Identity
<1>11. CASE NoneOpened(e)
  BY <1>11, Stopped DEF NoneOpened, Leaves, counts, Moved
<1>12. CASE PutDoors(e)
  <2> DEFINE n == To(e, "putting doors")
  <2>1. /\ Goes(e, n) /\ Handed("doors", e, [at |-> enc[e].dir, key |-> enc[e].key]) /\ r.pc = "opening" /\ kept' = kept /\ tmp' = tmp
        /\ hears' = hears /\ starts' = starts /\ excused' = excused /\ r.key # None
    BY <1>12 DEF PutDoors, Joined, At, counts, SealedDoors, ReadDirs
  <2>2. n \in Starts /\ n.pc = "putting doors" /\ n.no = r.no /\ n.key = r.key /\ n.answer = r.answer
    BY <1>1 DEF To, Starts, Pcs
  <2> HIDE DEF n
  <2>4. Shape(n) /\ (SeesKey(r, kept.key) => SeesKey(n, kept.key))
    BY <1>1, <2>1, <2>2 DEF Shape, SeesKey
  <2>5. HandsDoors(e, n)
    BY <1>1, <2>1, <2>2, <2>4 DEF HandsDoors, Onward, Handed
  <2> QED BY <2>5 DEF Moved
<1>13. CASE NoDoorsToPut(e)
  BY <1>13, Stepped DEF NoDoorsToPut, Joined, At, counts, Moved, Pcs, UnderWay
<1>14. CASE DoorsPut(e)
  BY <1>14, Served DEF DoorsPut, At, counts, Moved
<1> QED BY <1>2, <1>3, <1>4, <1>5, <1>6, <1>7, <1>8, <1>9, <1>10, <1>11, <1>12, <1>13, <1>14 DEF Proceeds

LEMMA GoingWrong ==
  ASSUME Types, Shapes, NEW e \in Enclaves, GoesWrong(e)
  PROVE  Moved(e)
<1>1. enc[e] \in Starts /\ Shape(enc[e]) /\ hears \in BOOLEAN /\ starts \in Numbers /\ kept.key \in Numbers
  BY DEF Types, Shapes
<1>2. CASE Stop(e)
  BY <1>2, Stopped DEF Stop, Moved
<1>3. CASE NoSecrets(e)
  <2>1. CASE enc[e].probe
    BY <1>3, <2>1, Stepped DEF NoSecrets, At, Moved, Pcs, UnderWay
  <2>2. CASE ~enc[e].probe
    BY <1>3, <2>2, Stopped DEF NoSecrets, Moved
  <2> QED BY <2>1, <2>2
<1>4. CASE NoKey(e)
  BY <1>4, Stopped DEF NoKey, Leaves, Moved
<1>5. CASE OwnUnheard(e)
  BY <1>1, <1>5, Asked DEF OwnUnheard, At, Moved
<1>6. CASE Unreached(e)
  BY <1>6, Stopped DEF Unreached, Leaves, Moved
<1>7. CASE DoorsUnheard(e)
  BY <1>7, Served DEF DoorsUnheard, At, Moved
<1>8. ASSUME NEW g \in Gateways, StaysShut(e, g)
      PROVE  Moved(e)
  BY <1>8, Opened DEF StaysShut, At, Moved
<1>9. CASE Wedge(e)
  <2>1. [enc[e] EXCEPT !.wedged = TRUE] = [enc[e] EXCEPT !.wedged = TRUE, !.silent = enc[e].silent]
        /\ enc[e].silent \in 0..SilentFor
    BY <1>1 DEF Starts
  <2> QED BY <1>9, <2>1, Pulsed DEF Wedge, Moved
<1> QED BY <1>2, <1>3, <1>4, <1>5, <1>6, <1>7, <1>8, <1>9 DEF GoesWrong

LEMMA Booting ==
  ASSUME Types, Shapes, NEW e \in Enclaves, NEW probe \in BOOLEAN, Boot(e, probe)
  PROVE  Moved(e)
<1> DEFINE r == [Off EXCEPT !.pc = "secrets", !.no = starts + 1, !.probe = probe]
<1>1. Goes(e, r) /\ starts < MaxStarts /\ starts' = starts + 1 /\ UNCHANGED <<kept, tmp, tasks, hears, excused>>
  BY DEF Boot, host
<1>2. starts + 1 \in Numbers /\ starts + 1 # None /\ hears \in BOOLEAN
  BY <1>1, Constants DEF Types, Numbers, None
<1>3. r \in Starts /\ r.pc = "secrets" /\ r.no = starts + 1 /\ r.key = None /\ r.answer = "none"
  BY <1>2, OffIsStart DEF Starts, Pcs
<1> HIDE DEF r
<1>4. Shape(r) /\ SeesKey(r, kept.key) /\ r.pc \notin UnderWay
  BY <1>2, <1>3 DEF Shape, SeesKey, UnderWay
<1>5. Walks(e, r)
  BY <1>1, <1>2, <1>3, <1>4 DEF Walks, Onward
<1> QED BY <1>5 DEF Moved

LEMMA Pulsing ==
  ASSUME Types, Shapes, NEW e \in Enclaves, Recovers(e) \/ Pulse(e)
  PROVE  Moved(e)
<1>1. enc[e] \in Starts /\ enc[e].silent \in 0..SilentFor /\ 0 \in 0..SilentFor
  BY Constants DEF Types, Starts
<1>2. CASE Recovers(e)
  BY <1>1, <1>2, Pulsed DEF Recovers, counts, Moved
<1>3. CASE Pulse(e) /\ enc[e].silent + 1 >= SilentFor
  BY <1>3, Stopped DEF Pulse, Reported, counts, Moved
<1>4. CASE Pulse(e) /\ ~(enc[e].silent + 1 >= SilentFor)
  <2>1. enc[e].silent + 1 \in 0..SilentFor
    BY <1>1, <1>4, Constants
  <2>2. [enc[e] EXCEPT !.silent = @ + 1] = [enc[e] EXCEPT !.wedged = enc[e].wedged, !.silent = enc[e].silent + 1]
        /\ enc[e].wedged \in BOOLEAN
    BY <1>1 DEF Starts
  <2>3. Goes(e, [enc[e] EXCEPT !.silent = @ + 1]) /\ UNCHANGED <<host, counts, excused>>
    BY <1>4 DEF Pulse
  <2> QED BY <2>1, <2>2, <2>3, Pulsed DEF counts, Moved
<1> QED BY <1>2, <1>3, <1>4

\* Whatever an enclave does, but writing its book.
LEMMA Moving ==
  ASSUME Types, Shapes, NEW e \in Enclaves,
         (\E probe \in BOOLEAN : Boot(e, probe)) \/ Proceeds(e) \/ GoesWrong(e) \/ Recovers(e) \/ Pulse(e)
  PROVE  Moved(e)
BY Booting, Proceeding, GoingWrong, Pulsing

-----------------------------------------------------------------------------
(* What the host's tasks do.                                               *)

\* An enclave that waits for a task is told; nothing else of it changes.
Told(t, answer) ==
  \A e \in Enclaves :
    /\ enc'[e] \in Starts /\ Shape(enc'[e])
    /\ enc'[e].pc = enc[e].pc /\ enc'[e].key = enc[e].key /\ enc'[e].own = enc[e].own /\ enc'[e].dir = enc[e].dir
    /\ enc'[e].answer # enc[e].answer => WaitsFor(t, e) /\ enc'[e].answer = answer

LEMMA Telling ==
  ASSUME Types, Shapes, NEW t \in tasks, NEW answer \in {"kept", "refused"}, Ends(t, answer)
  PROVE  enc' \in [Enclaves -> Starts] /\ Told(t, answer)
<1>1. ASSUME NEW e \in Enclaves
      PROVE  /\ enc'[e] \in Starts /\ Shape(enc'[e])
             /\ enc'[e].pc = enc[e].pc /\ enc'[e].key = enc[e].key /\ enc'[e].own = enc[e].own /\ enc'[e].dir = enc[e].dir
             /\ enc'[e].answer # enc[e].answer => WaitsFor(t, e) /\ enc'[e].answer = answer
  <2>1. enc[e] \in Starts /\ Shape(enc[e]) /\ t.what \in {"key", "doors"}
    BY DEF Types, Shapes, KeyPuts, DoorPuts
  <2>2. CASE ~WaitsFor(t, e)
    BY <1>1, <2>1, <2>2 DEF Ends
  <2>3. CASE WaitsFor(t, e)
    <3>1. enc'[e] = [enc[e] EXCEPT !.answer = answer]
      BY <1>1, <2>3 DEF Ends
    <3>2. enc[e].pc \in {"putting key", "putting doors"}
      <4>1. enc[e].pc = Putting[t.what]
        BY <2>3 DEF WaitsFor
      <4>2. Putting["key"] = "putting key" /\ Putting["doors"] = "putting doors"
        BY DEF Putting
      <4> QED BY <2>1, <4>1, <4>2
    <3> QED BY <2>1, <2>3, <3>1, <3>2 DEF Starts, Shape
  <2> QED BY <2>2, <2>3
<1>2. enc' = [e \in Enclaves |-> enc'[e]]
  BY DEF Ends
<1> QED BY <1>1, <1>2 DEF Told

\* When the host stops, whoever waits is refused.
LEMMA Refusing ==
  ASSUME Types, Shapes, NEW e \in Enclaves,
         enc'[e] = IF \E t \in tasks : WaitsFor(t, e) THEN [enc[e] EXCEPT !.answer = "refused"] ELSE enc[e]
  PROVE  /\ enc'[e] \in Starts /\ Shape(enc'[e])
         /\ enc'[e].pc = enc[e].pc /\ enc'[e].key = enc[e].key /\ enc'[e].own = enc[e].own /\ enc'[e].dir = enc[e].dir
         /\ enc'[e].answer \in {enc[e].answer, "refused"}
<1>1. enc[e] \in Starts /\ Shape(enc[e])
  BY DEF Types, Shapes
<1>2. CASE ~\E t \in tasks : WaitsFor(t, e)
  BY <1>1, <1>2
<1>3. ASSUME NEW t \in tasks, WaitsFor(t, e)
      PROVE  enc[e].pc \in {"putting key", "putting doors"}
  <2>1. t.what \in {"key", "doors"}
    BY DEF Types, KeyPuts, DoorPuts
  <2>2. enc[e].pc = Putting[t.what]
    BY <1>3 DEF WaitsFor
  <2>3. Putting["key"] = "putting key" /\ Putting["doors"] = "putting doors"
    BY DEF Putting
  <2> QED BY <2>1, <2>2, <2>3
<1>4. CASE \E t \in tasks : WaitsFor(t, e)
  <2>1. enc'[e] = [enc[e] EXCEPT !.answer = "refused"]
    BY <1>4
  <2>2. enc[e].pc \in {"putting key", "putting doors"}
    BY <1>3, <1>4
  <2> QED BY <1>1, <2>1, <2>2 DEF Starts, Shape
<1> QED BY <1>2, <1>4

\* The host takes a task on by its kind and stage.
LEMMA Tasking ==
  ASSUME Types, NEW t \in tasks, HostTask(t)
  PROVE  \/ t.what = "key" /\ t.stage = "handed" /\ CheckOnce(t)
         \/ t.what = "key" /\ t.stage = "whole" /\ WriteBeside(t)
         \/ t.what = "doors" /\ t.stage = "handed" /\ WriteBeside(t)
         \/ t.stage = "written" /\ RenameNothing(t)
         \/ t.what = "key" /\ t.stage = "written" /\ RenameKey(t)
         \/ t.what = "doors" /\ t.stage = "written" /\ RenameDoors(t)
<1>1. CASE t \in KeyPuts
  BY <1>1 DEF KeyPuts, HostTask
<1>2. CASE t \in DoorPuts
  BY <1>2 DEF DoorPuts, HostTask
<1> QED BY <1>1, <1>2 DEF Types

\* What the tasks and files are made of.
Filed ==
  /\ kept' \in [key : Numbers, book : Numbers, doors : Addresses, under : Numbers]
  /\ tmp' \in [key : SUBSET KeyFiles, doors : SUBSET DoorFiles]
  /\ tasks' \subseteq KeyPuts \cup DoorPuts
  /\ \A t \in tasks' : t.what = "key" => t.bytes.key = t.from

LEMMA Advancing ==
  ASSUME Types, Shapes, NEW t \in tasks, NEW stage,
         stage = "written" \/ (stage = "whole" /\ t.what = "key"), Moves(t, stage)
  PROVE  /\ tasks' \subseteq KeyPuts \cup DoorPuts
         /\ \A u \in tasks' : u.what = "key" => u.bytes.key = u.from
<1> DEFINE n == [t EXCEPT !.stage = stage]
<1>1. tasks' = (tasks \ {t}) \cup {n}
  BY DEF Moves
<1>2. CASE t \in KeyPuts
  <2>1. n \in KeyPuts /\ n.bytes = t.bytes /\ n.from = t.from /\ t.bytes.key = t.from
    BY <1>2 DEF KeyPuts, Shapes
  <2> HIDE DEF n
  <2> QED BY <1>1, <2>1 DEF Types, Shapes
<1>3. CASE t \in DoorPuts
  <2>1. n \in DoorPuts /\ n.what = "doors"
    BY <1>3 DEF DoorPuts
  <2> HIDE DEF n
  <2> QED BY <1>1, <2>1 DEF Types, Shapes
<1> QED BY <1>2, <1>3 DEF Types

LEMMA Filing ==
  ASSUME Types, Shapes, NEW t \in tasks, HostTask(t) \/ PutFails(t)
  PROVE  /\ enc' \in [Enclaves -> Starts] /\ (\A e \in Enclaves : Shape(enc'[e]))
         /\ Filed /\ hears' = hears /\ starts' = starts
<1>1. /\ kept.key \in Numbers /\ tmp.key \subseteq KeyFiles /\ tmp.doors \subseteq DoorFiles
      /\ t \in KeyPuts \cup DoorPuts
      /\ enc \in [Enclaves -> Starts] /\ (\A e \in Enclaves : Shape(enc[e]))
      /\ kept \in [key : Numbers, book : Numbers, doors : Addresses, under : Numbers]
      /\ tmp \in [key : SUBSET KeyFiles, doors : SUBSET DoorFiles]
      /\ tasks \subseteq KeyPuts \cup DoorPuts /\ \A u \in tasks : u.what = "key" => u.bytes.key = u.from
  BY DEF Types, Shapes
<1>2. ASSUME NEW answer \in {"kept", "refused"}, Ends(t, answer)
      PROVE  /\ enc' \in [Enclaves -> Starts] /\ (\A e \in Enclaves : Shape(enc'[e]))
             /\ tasks' \subseteq KeyPuts \cup DoorPuts /\ \A u \in tasks' : u.what = "key" => u.bytes.key = u.from
  <2>1. enc' \in [Enclaves -> Starts] /\ Told(t, answer)
    BY <1>2, Telling
  <2>2. tasks' \subseteq tasks
    BY <1>2 DEF Ends
  <2> QED BY <1>1, <2>1, <2>2 DEF Told
<1>3. CASE CheckOnce(t) /\ t.what = "key"
  <2>1. UNCHANGED <<kept, tmp, hears, starts>>
    BY <1>3 DEF CheckOnce, counts
  <2>2. CASE kept.key = None
    BY <1>1, <1>3, <2>1, <2>2, Advancing DEF CheckOnce, Filed
  <2>3. CASE kept.key # None
    <3>1. Ends(t, IF kept.key = t.bytes.key THEN "kept" ELSE "refused")
      BY <1>3, <2>3 DEF CheckOnce
    <3> QED BY <1>1, <1>2, <2>1, <3>1 DEF Filed
  <2> QED BY <2>2, <2>3
<1>4. CASE WriteBeside(t)
  <2>1. UNCHANGED <<enc, kept, hears, starts>> /\ Moves(t, "written") /\ tmp' = [tmp EXCEPT ![t.what] = {t.bytes}]
    BY <1>4 DEF WriteBeside, counts
  <2>2. tmp' \in [key : SUBSET KeyFiles, doors : SUBSET DoorFiles]
    <3>1. CASE t \in KeyPuts
      BY <1>1, <2>1, <3>1 DEF KeyPuts
    <3>2. CASE t \in DoorPuts
      BY <1>1, <2>1, <3>2 DEF DoorPuts
    <3> QED BY <1>1, <3>1, <3>2
  <2> QED BY <1>1, <2>1, <2>2, Advancing DEF Filed
<1>5. CASE RenameNothing(t)
  BY <1>1, <1>2, <1>5 DEF RenameNothing, Filed, counts
<1>6. CASE RenameKey(t)
  <2>1. PICK b \in tmp.key : kept' = [kept EXCEPT !.key = b.key]
    BY <1>6 DEF RenameKey
  <2>2. b.key \in Numbers
    BY <1>1, <2>1 DEF KeyFiles
  <2>3. tmp' = [tmp EXCEPT !.key = {}] /\ Ends(t, "kept") /\ hears' = hears /\ starts' = starts
    BY <1>6 DEF RenameKey, counts
  <2> QED BY <1>1, <1>2, <2>1, <2>2, <2>3 DEF Filed
<1>7. CASE RenameDoors(t)
  <2>1. PICK b \in tmp.doors : kept' = [kept EXCEPT !.doors = b.at, !.under = b.key]
    BY <1>7 DEF RenameDoors
  <2>2. b.key \in Numbers /\ b.at \in Addresses
    BY <1>1, <2>1 DEF DoorFiles
  <2>3. tmp' = [tmp EXCEPT !.doors = {}] /\ Ends(t, "kept") /\ hears' = hears /\ starts' = starts
    BY <1>7 DEF RenameDoors, counts
  <2> QED BY <1>1, <1>2, <2>1, <2>2, <2>3 DEF Filed
<1>8. CASE PutFails(t)
  BY <1>1, <1>2, <1>8 DEF PutFails, Filed
<1> QED BY <1>3, <1>4, <1>5, <1>6, <1>7, <1>8, Tasking

\* A step of an enclave keeps every other enclave as it is.
LEMMA Others ==
  ASSUME Types, NEW e \in Enclaves, NEW r, Onward(e, r)
  PROVE  enc' \in [Enclaves -> Starts] /\ enc'[e] = r /\ \A o \in Enclaves : o # e => enc'[o] = enc[o]
BY DEF Types, Onward, Goes

LEMMA TypesStep ==
  ASSUME Types, Shapes, [Next]_vars
  PROVE  Types' /\ Shapes'
<1>1. ASSUME NEW e \in Enclaves, Moved(e)
      PROVE  Types' /\ Shapes'
  <2>1. PICK r : Walks(e, r) \/ Lays(e, r) \/ HandsKey(e, r) \/ HandsDoors(e, r)
    BY <1>1 DEF Moved
  <2>2. Onward(e, r)
    BY <2>1 DEF Walks, Lays, HandsKey, HandsDoors
  <2>3. enc' \in [Enclaves -> Starts] /\ enc'[e] = r /\ \A o \in Enclaves : o # e => enc'[o] = enc[o]
    BY <2>2, Others
  <2>4. r \in Starts /\ Shape(r) /\ kept' = kept /\ tmp' = tmp /\ hears' \in BOOLEAN /\ starts' \in Numbers
    BY <2>2 DEF Onward
  <2>5. tasks' \subseteq KeyPuts \cup DoorPuts /\ \A t \in tasks' : t.what = "key" => t.bytes.key = t.from
    <3>1. CASE tasks' = tasks
      BY <3>1 DEF Types, Shapes
    <3>2. CASE HandsKey(e, r)
      <4> DEFINE n == [what |-> "key", from |-> r.no, bytes |-> [key |-> r.no], stage |-> "handed"]
      <4>1. n \in KeyPuts /\ n.bytes.key = n.from
        BY <2>4 DEF Starts, KeyPuts, KeyFiles
      <4>2. tasks' = tasks \cup {n}
        BY <3>2 DEF HandsKey
      <4> HIDE DEF n
      <4> QED BY <4>1, <4>2 DEF Types, Shapes
    <3>3. CASE HandsDoors(e, r)
      <4> DEFINE n == [what |-> "doors", from |-> r.no, bytes |-> [at |-> enc[e].dir, key |-> enc[e].key], stage |-> "handed"]
      <4>1. n \in DoorPuts /\ n.what = "doors"
        BY <2>4 DEF Types, Starts, DoorPuts, DoorFiles
      <4>2. tasks' = tasks \cup {n}
        BY <3>3 DEF HandsDoors
      <4> HIDE DEF n
      <4> QED BY <4>1, <4>2 DEF Types, Shapes
    <3> QED BY <2>1, <3>1, <3>2, <3>3 DEF Walks, Lays
  <2>6. \A o \in Enclaves : Shape(enc'[o])
    BY <2>3, <2>4 DEF Shapes
  <2> QED BY <2>3, <2>4, <2>5, <2>6 DEF Types, Shapes
<1>2. ASSUME NEW e \in Enclaves, WriteBook(e)
      PROVE  Types' /\ Shapes'
  <2>1. enc[e].key \in Numbers /\ kept' = [kept EXCEPT !.book = enc[e].key] /\ UNCHANGED <<enc, tmp, tasks, hears, starts>>
    BY <1>2 DEF WriteBook, counts, Types, Starts
  <2> QED BY <2>1 DEF Types, Shapes
<1>3. ASSUME NEW t \in tasks, HostTask(t) \/ PutFails(t)
      PROVE  Types' /\ Shapes'
  BY <1>3, Filing DEF Types, Shapes, Filed
<1>4. CASE HostStop
  <2>1. tasks' = {} /\ UNCHANGED <<kept, tmp, hears, starts>>
        /\ enc' = [e \in Enclaves |-> IF \E t \in tasks : WaitsFor(t, e) THEN [enc[e] EXCEPT !.answer = "refused"] ELSE enc[e]]
    BY <1>4 DEF HostStop
  <2>2. \A e \in Enclaves : enc'[e] \in Starts /\ Shape(enc'[e])
    BY <2>1, Refusing
  <2> QED BY <2>1, <2>2 DEF Types, Shapes
<1>5. CASE HostHangs \/ HostHears \/ UNCHANGED vars
  BY <1>5 DEF HostHangs, HostHears, vars, counts, Types, Shapes
<1> QED BY <1>1, <1>2, <1>3, <1>4, <1>5, Moving DEF Next

-----------------------------------------------------------------------------
(* The data key.                                                           *)

\* With no put in between, what the host knows of the key is not touched.
LEMMA SameChecked ==
  ASSUME KeyHost, kept'.key = kept.key, kept'.book \in {None, kept.key}, tmp'.key = tmp.key, Checked' \subseteq Checked
  PROVE  KeyHost'
BY DEF KeyHost

\* What the host sees of an enclave's key stays, but for what it is told.
LEMMA ToldKey ==
  ASSUME NEW t \in tasks, NEW answer \in {"kept", "refused"}, NEW e \in Enclaves, Types, Shapes,
         Told(t, answer), SeesKey(enc[e], kept.key), kept'.key = kept.key,
         answer = "kept" /\ t.what = "key" => t.bytes.key = kept.key
  PROVE  SeesKey(enc'[e], kept'.key)
<1>1. /\ enc'[e].pc = enc[e].pc /\ enc'[e].key = enc[e].key /\ enc'[e].own = enc[e].own
      /\ enc'[e].answer # enc[e].answer => WaitsFor(t, e) /\ enc'[e].answer = answer
  BY DEF Told
<1>2. t.what \in {"key", "doors"} /\ Putting["doors"] = "putting doors" /\ Shape(enc[e])
      /\ (t.what = "key" => t.bytes.key = t.from)
  BY DEF Types, Shapes, KeyPuts, DoorPuts, Putting
<1>3. CASE enc'[e].answer = enc[e].answer
  BY <1>1, <1>3 DEF SeesKey
<1>4. CASE enc'[e].answer # enc[e].answer /\ enc[e].pc = "putting key"
  <2>1. enc[e].no = t.from /\ enc[e].pc = Putting[t.what]
    BY <1>1, <1>4 DEF WaitsFor
  <2>2. t.what = "key" /\ enc[e].own = t.from
    BY <1>2, <1>4, <2>1 DEF Shape
  <2> QED BY <1>1, <1>2, <1>4, <2>2 DEF SeesKey
<1>5. CASE enc[e].pc # "putting key"
  BY <1>1, <1>5 DEF SeesKey
<1> QED BY <1>3, <1>4, <1>5

LEMMA KeyMoved ==
  ASSUME Types, Shapes, KeyInv, NEW e \in Enclaves, Moved(e)
  PROVE  KeyInv'
<1>1. PICK r : Walks(e, r) \/ Lays(e, r) \/ HandsKey(e, r) \/ HandsDoors(e, r)
  BY DEF Moved
<1>2. Onward(e, r) /\ ("key" \in excused' <=> "key" \in excused)
  BY <1>1 DEF Walks, Lays, HandsKey, HandsDoors
<1>3. enc'[e] = r /\ \A o \in Enclaves : o # e => enc'[o] = enc[o]
  BY <1>2, Others
<1>4. kept' = kept /\ tmp' = tmp /\ (SeesKey(enc[e], kept.key) => SeesKey(r, kept.key))
  BY <1>2 DEF Onward
<1>5. Checked' = Checked
  <2>1. CASE tasks' = tasks
    BY <2>1 DEF Checked
  <2>2. ASSUME NEW n, n.stage = "handed", tasks' = tasks \cup {n}
        PROVE  Checked' = Checked
    BY <2>2 DEF Checked
  <2>3. CASE HandsKey(e, r) \/ HandsDoors(e, r)
    BY <2>2, <2>3 DEF HandsKey, HandsDoors
  <2> QED BY <1>1, <2>1, <2>3 DEF Walks, Lays
<1>6. CASE "key" \notin excused
  <2>1. KeyHost /\ \A o \in Enclaves : SeesKey(enc[o], kept.key)
    BY <1>6 DEF KeyInv
  <2>2. KeyHost'
    BY <1>4, <1>5, <2>1 DEF KeyHost
  <2> QED BY <1>3, <1>4, <2>1, <2>2 DEF KeyInv
<1> QED BY <1>2, <1>6 DEF KeyInv

LEMMA KeyTask ==
  ASSUME Types, Shapes, KeyInv, NEW t \in tasks, HostTask(t) \/ PutFails(t)
  PROVE  KeyInv'
<1> SUFFICES ASSUME "key" \notin excused'
             PROVE  KeyHost' /\ \A e \in Enclaves : SeesKey(enc'[e], kept'.key)
  BY DEF KeyInv
<1>1. "key" \notin excused
  BY Tasking DEF CheckOnce, WriteBeside, RenameNothing, RenameKey, RenameDoors, PutFails
<1>2. KeyHost /\ \A e \in Enclaves : SeesKey(enc[e], kept.key)
  BY <1>1 DEF KeyInv
<1>3. t \in KeyPuts \cup DoorPuts /\ (t.what = "key" => t.bytes.key = t.from)
  BY DEF Types, Shapes
<1>4. t.what \in {"key", "doors"}
  BY <1>3 DEF KeyPuts, DoorPuts
\* A task that ends with nothing renamed.
<1>5. ASSUME NEW answer \in {"kept", "refused"}, Ends(t, answer), kept' = kept, tmp' = tmp,
             answer = "kept" /\ t.what = "key" => t.bytes.key = kept.key
      PROVE  KeyHost' /\ \A e \in Enclaves : SeesKey(enc'[e], kept'.key)
  <2>1. Told(t, answer)
    BY <1>5, Telling
  <2>2. Checked' \subseteq Checked
    BY <1>5 DEF Ends, Checked
  <2>3. KeyHost'
    BY <1>2, <1>5, <2>2 DEF KeyHost
  <2> QED BY <1>2, <1>5, <2>1, <2>3, ToldKey
<1>6. CASE t.what = "key" /\ t.stage = "handed" /\ CheckOnce(t)
  <2>1. CASE kept.key = None
    <3>1. Checked = {}
      BY <1>1, <1>6, <2>1 DEF CheckOnce
    <3>2. UNCHANGED <<enc, kept, tmp>> /\ Moves(t, "whole")
      BY <1>6, <2>1 DEF CheckOnce
    <3>3. \A u \in Checked' : u = [t EXCEPT !.stage = "whole"]
      BY <3>1, <3>2 DEF Checked, Moves
    <3>4. [t EXCEPT !.stage = "whole"].stage # "written"
      BY <1>3 DEF KeyPuts, DoorPuts
    <3>5. KeyHost'
      BY <1>2, <2>1, <3>2, <3>3, <3>4 DEF KeyHost
    <3> QED BY <1>2, <3>2, <3>5
  <2>2. CASE kept.key # None
    <3>1. Ends(t, IF kept.key = t.bytes.key THEN "kept" ELSE "refused") /\ kept' = kept /\ tmp' = tmp
      BY <1>6, <2>2 DEF CheckOnce
    <3> QED BY <1>5, <3>1
  <2> QED BY <2>1, <2>2
<1>7. CASE t.what = "key" /\ t.stage = "whole" /\ WriteBeside(t)
  <2>1. UNCHANGED <<enc, kept>> /\ Moves(t, "written") /\ tmp' = [tmp EXCEPT !["key"] = {t.bytes}]
    BY <1>7 DEF WriteBeside
  <2>2. t \in Checked
    BY <1>7 DEF Checked
  <2>3. Checked = {t} /\ kept.key = None
    BY <1>2, <2>2 DEF KeyHost
  <2>4. \A u \in Checked' : u = [t EXCEPT !.stage = "written"]
    BY <2>1, <2>3 DEF Checked, Moves
  <2>5. [t EXCEPT !.stage = "written"].bytes = t.bytes
    BY <1>3 DEF KeyPuts, DoorPuts
  <2>6. tmp'.key = {t.bytes}
    BY <2>1 DEF Types
  <2>7. KeyHost'
    BY <1>2, <2>1, <2>3, <2>4, <2>5, <2>6 DEF KeyHost
  <2> QED BY <1>2, <2>1, <2>7
<1>8. CASE t.what = "doors" /\ t.stage = "handed" /\ WriteBeside(t)
  <2>1. UNCHANGED <<enc, kept>> /\ Moves(t, "written") /\ tmp' = [tmp EXCEPT !["doors"] = {t.bytes}]
    BY <1>8 DEF WriteBeside
  <2>2. [t EXCEPT !.stage = "written"].what = "doors"
    BY <1>3, <1>8 DEF KeyPuts, DoorPuts
  <2>3. Checked' = Checked
    BY <1>8, <2>1, <2>2 DEF Checked, Moves
  <2>4. tmp'.key = tmp.key
    BY <2>1 DEF Types
  <2>5. KeyHost'
    BY <1>2, <2>1, <2>3, <2>4 DEF KeyHost
  <2> QED BY <1>2, <2>1, <2>5
<1>9. CASE t.stage = "written" /\ RenameNothing(t)
  BY <1>5, <1>9 DEF RenameNothing
<1>10. CASE t.what = "key" /\ t.stage = "written" /\ RenameKey(t)
  <2>1. t \in Checked
    BY <1>10 DEF Checked
  <2>2. Checked = {t} /\ kept.key = None /\ tmp.key = {t.bytes} /\ kept.book = None
    BY <1>2, <1>10, <2>1 DEF KeyHost, None
  <2>3. kept' = [kept EXCEPT !.key = t.bytes.key] /\ Ends(t, "kept")
    BY <1>10, <2>2 DEF RenameKey
  <2>4. kept'.key = t.from /\ kept'.book = None
    BY <1>3, <1>10, <2>2, <2>3 DEF Types
  <2>5. Checked' = {}
    BY <2>2, <2>3 DEF Ends, Checked
  <2>6. KeyHost'
    BY <2>4, <2>5 DEF KeyHost
  <2>7. ASSUME NEW e \in Enclaves
        PROVE  SeesKey(enc'[e], kept'.key)
    <3>1. /\ enc'[e].pc = enc[e].pc /\ enc'[e].key = enc[e].key /\ enc'[e].own = enc[e].own
          /\ enc'[e].answer # enc[e].answer => WaitsFor(t, e)
      BY <2>3, Telling DEF Told
    <3>2. Shape(enc[e]) /\ SeesKey(enc[e], None)
      BY <1>2, <2>2 DEF Shapes
    <3>3. enc'[e].key = None
      BY <3>1, <3>2 DEF SeesKey
    <3>4. enc[e].pc = "putting key" => enc[e].own = enc[e].no /\ enc[e].answer # "kept"
      BY <3>2 DEF Shape, SeesKey
    <3>5. enc'[e].pc = "putting key" /\ enc'[e].answer = "kept" => enc'[e].own = t.from
      BY <3>1, <3>4 DEF WaitsFor
    <3> QED BY <2>4, <3>3, <3>5 DEF SeesKey
  <2> QED BY <2>6, <2>7
<1>11. CASE t.what = "doors" /\ t.stage = "written" /\ RenameDoors(t)
  <2>1. Ends(t, "kept") /\ kept'.key = kept.key /\ kept'.book = kept.book /\ tmp'.key = tmp.key
    BY <1>11 DEF RenameDoors, Types
  <2>2. Told(t, "kept")
    BY <2>1, Telling
  <2>3. Checked' = Checked
    BY <1>11, <2>1 DEF Ends, Checked
  <2>4. KeyHost'
    BY <1>2, <2>1, <2>3 DEF KeyHost
  <2> QED BY <1>2, <1>11, <2>1, <2>2, <2>4, ToldKey
<1>12. CASE PutFails(t)
  BY <1>5, <1>12 DEF PutFails
<1> QED BY <1>6, <1>7, <1>8, <1>9, <1>10, <1>11, <1>12, Tasking

LEMMA KeyStep ==
  ASSUME Types, Shapes, KeyInv, [Next]_vars
  PROVE  KeyInv'
<1>1. ASSUME NEW e \in Enclaves, WriteBook(e)
      PROVE  KeyInv'
  <2>1. /\ kept' = [kept EXCEPT !.book = enc[e].key] /\ enc[e].key # None
        /\ UNCHANGED <<enc, tmp, tasks, hears, excused>>
    BY <1>1 DEF WriteBook
  <2>2. kept'.key = kept.key /\ kept'.book = enc[e].key /\ Checked' = Checked
    BY <2>1 DEF Types, Checked
  <2> QED BY <2>1, <2>2 DEF KeyInv, KeyHost, SeesKey
<1>2. CASE HostStop
  <2>1. /\ tasks' = {} /\ UNCHANGED <<kept, tmp, excused>>
        /\ enc' = [e \in Enclaves |-> IF \E t \in tasks : WaitsFor(t, e) THEN [enc[e] EXCEPT !.answer = "refused"] ELSE enc[e]]
    BY <1>2 DEF HostStop
  <2>2. Checked' = {}
    BY <2>1 DEF Checked
  <2>3. \A e \in Enclaves : SeesKey(enc[e], kept.key) => SeesKey(enc'[e], kept.key)
    BY <2>1, Refusing DEF SeesKey
  <2> QED BY <2>1, <2>2, <2>3 DEF KeyInv, KeyHost
<1>3. CASE HostHangs \/ HostHears \/ UNCHANGED vars
  BY <1>3 DEF HostHangs, HostHears, vars, KeyInv, KeyHost, Checked
<1> QED BY <1>1, <1>2, <1>3, Moving, KeyMoved, KeyTask DEF Next

-----------------------------------------------------------------------------
(* The doors.                                                              *)

\* No two data keys, and so one key for the doors.
LEMMA OneKeyHolds ==
  ASSUME KeyInv, excused = {}
  PROVE  KeyHost /\ \A e \in Enclaves : enc[e].key # None => enc[e].key = kept.key
BY DEF KeyInv, SeesKey

LEMMA DoorWalk ==
  ASSUME Types, Shapes, KeyInv, DoorInv, NEW e \in Enclaves, NEW r, Walks(e, r)
  PROVE  DoorInv'
<1> SUFFICES ASSUME excused' = {}
             PROVE  DoorHost' /\ DoorsOne'
  BY DEF DoorInv
<1>1. Onward(e, r) /\ tasks' = tasks /\ excused = {}
  BY DEF Walks
<1>2. enc'[e] = r /\ \A o \in Enclaves : o # e => enc'[o] = enc[o]
  BY <1>1, Others
<1>3. kept' = kept /\ tmp' = tmp
  BY <1>1 DEF Onward
<1>4. DoorHost /\ DoorsOne
  BY <1>1 DEF DoorInv
<1>5. DoorHost'
  BY <1>1, <1>3, <1>4 DEF DoorHost, DoorTasks, Holds
<1>6. r.pc \in UnderWay =>
        /\ r.pc = enc[e].pc /\ r.key = enc[e].key
        /\ \A g \in Gateways : enc[e].dir[g] # None => r.dir[g] = enc[e].dir[g]
  BY DEF Walks
<1>7. r.pc \in UnderWay /\ Holds(enc[e].dir) => Holds(r.dir)
  BY <1>6 DEF Holds
<1>8. ASSUME NEW a \in Enclaves, NEW b \in Enclaves, enc'[a].pc \in UnderWay, enc'[b].pc \in UnderWay
      PROVE  a = b
  BY <1>2, <1>4, <1>6, <1>8 DEF DoorsOne
<1>9. ASSUME NEW a \in Enclaves, enc'[a].pc = "opening"
      PROVE  DoorTasks' = {} /\ (enc'[a].key # None => Holds(enc'[a].dir))
  <2>1. enc[a].pc = "opening" /\ enc'[a].key = enc[a].key /\ (Holds(enc[a].dir) => Holds(enc'[a].dir))
    BY <1>2, <1>6, <1>7, <1>9 DEF UnderWay
  <2>2. DoorTasks' = {}
    BY <1>1, <1>4, <2>1 DEF DoorsOne, DoorTasks
  <2> QED BY <1>4, <2>1, <2>2 DEF DoorsOne
<1>10. DoorsOne'
  BY <1>3, <1>8, <1>9 DEF DoorsOne, Holds
<1> QED BY <1>5, <1>10

LEMMA DoorLay ==
  ASSUME Types, Shapes, KeyInv, DoorInv, NEW e \in Enclaves, NEW r, Lays(e, r)
  PROVE  DoorInv'
<1> SUFFICES ASSUME excused' = {}
             PROVE  DoorHost' /\ DoorsOne'
  BY DEF DoorInv
<1>1. Onward(e, r) /\ tasks' = tasks /\ excused = {} /\ ~DoorsUnderWay /\ r.pc = "opening" /\ r.key = enc[e].key
      /\ (r.key # None => r.dir = DoorsOf(e, "kept"))
  BY DEF Lays
<1>2. enc'[e] = r /\ \A o \in Enclaves : o # e => enc'[o] = enc[o]
  BY <1>1, Others
<1>3. kept' = kept /\ tmp' = tmp
  BY <1>1 DEF Onward
<1>4. DoorHost /\ DoorsOne
  BY <1>1 DEF DoorInv
<1>5. DoorHost'
  BY <1>1, <1>3, <1>4 DEF DoorHost, DoorTasks, Holds
<1>6. DoorTasks = {} /\ \A o \in Enclaves : enc[o].pc \notin UnderWay
  BY <1>1 DEF DoorsUnderWay, DoorTasks, UnderWay
<1>7. ASSUME NEW a \in Enclaves, NEW b \in Enclaves, enc'[a].pc \in UnderWay, enc'[b].pc \in UnderWay
      PROVE  a = b
  BY <1>2, <1>6, <1>7
<1>8. r.key # None => Holds(r.dir)
  <2> SUFFICES ASSUME r.key # None
               PROVE  Holds(r.dir)
    OBVIOUS
  <2>1. r.dir = DoorsOf(e, "kept") /\ enc[e].key # None /\ enc[e].key = kept.key
    BY <1>1, OneKeyHolds
  <2>2. CASE kept.under = None
    BY <1>4, <2>2 DEF DoorHost, Holds, NoDoors
  <2>3. CASE kept.under # None
    <3>1. OpensUnder(e)
      BY <1>4, <2>1, <2>3 DEF DoorHost, OpensUnder
    <3>2. r.dir = kept.doors
      BY <2>1, <2>3, <3>1 DEF DoorsOf
    <3> QED BY <3>2 DEF Holds
  <2> QED BY <2>2, <2>3
<1>9. ASSUME NEW a \in Enclaves, enc'[a].pc = "opening"
      PROVE  DoorTasks' = {} /\ (enc'[a].key # None => Holds(enc'[a].dir))
  <2>1. a = e /\ DoorTasks' = {}
    BY <1>1, <1>2, <1>6, <1>9 DEF UnderWay, DoorTasks
  <2> QED BY <1>2, <1>8, <2>1
<1>10. DoorsOne'
  BY <1>3, <1>7, <1>9 DEF DoorsOne, Holds
<1> QED BY <1>5, <1>10

\* Where no enclave comes to the doors, and no task of theirs comes up, they stay one's.
LEMMA DoorsStill ==
  ASSUME DoorsOne, kept'.doors = kept.doors, DoorTasks' \subseteq DoorTasks,
         \A e \in Enclaves : \/ enc'[e].pc \notin UnderWay
                             \/ enc'[e].pc = enc[e].pc /\ enc'[e].key = enc[e].key /\ enc'[e].dir = enc[e].dir
  PROVE  DoorsOne'
<1>1. ASSUME NEW a \in Enclaves, NEW b \in Enclaves, enc'[a].pc \in UnderWay, enc'[b].pc \in UnderWay
      PROVE  a = b
  BY <1>1 DEF DoorsOne
<1>2. ASSUME NEW a \in Enclaves, enc'[a].pc = "opening"
      PROVE  DoorTasks' = {} /\ (enc'[a].key # None => Holds(enc'[a].dir))
  <2>1. enc[a].pc = "opening" /\ enc'[a].key = enc[a].key /\ enc'[a].dir = enc[a].dir
    BY <1>2 DEF UnderWay
  <2> QED BY <2>1 DEF DoorsOne
<1> QED BY <1>1, <1>2 DEF DoorsOne, Holds

LEMMA DoorHandKey ==
  ASSUME Types, Shapes, KeyInv, DoorInv, NEW e \in Enclaves, NEW r, HandsKey(e, r)
  PROVE  DoorInv'
<1> SUFFICES ASSUME excused' = {}
             PROVE  DoorHost' /\ DoorsOne'
  BY DEF DoorInv
<1> DEFINE n == [what |-> "key", from |-> r.no, bytes |-> [key |-> r.no], stage |-> "handed"]
<1>1. Onward(e, r) /\ tasks' = tasks \cup {n} /\ excused = {} /\ r.pc = "putting key" /\ n.what # "doors"
  BY DEF HandsKey
<1> HIDE DEF n
<1>2. enc'[e] = r /\ \A o \in Enclaves : o # e => enc'[o] = enc[o]
  BY <1>1, Others
<1>3. kept' = kept /\ tmp' = tmp
  BY <1>1 DEF Onward
<1>4. DoorHost /\ DoorsOne
  BY <1>1 DEF DoorInv
<1>5. DoorTasks' = DoorTasks
  BY <1>1 DEF DoorTasks
<1>6. DoorHost'
  BY <1>3, <1>4, <1>5 DEF DoorHost, Holds
<1>7. DoorsOne'
  <2>1. \A o \in Enclaves : o # e => enc'[o].pc = enc[o].pc /\ enc'[o].key = enc[o].key /\ enc'[o].dir = enc[o].dir
    BY <1>2
  <2>2. enc'[e].pc \notin UnderWay
    BY <1>1, <1>2 DEF UnderWay
  <2> QED BY <1>3, <1>4, <1>5, <2>1, <2>2, DoorsStill
<1> QED BY <1>6, <1>7

LEMMA DoorHand ==
  ASSUME Types, Shapes, KeyInv, DoorInv, NEW e \in Enclaves, NEW r, HandsDoors(e, r)
  PROVE  DoorInv'
<1> SUFFICES ASSUME excused' = {}
             PROVE  DoorHost' /\ DoorsOne'
  BY DEF DoorInv
<1> DEFINE n == [what |-> "doors", from |-> r.no, bytes |-> [at |-> enc[e].dir, key |-> enc[e].key], stage |-> "handed"]
<1>1. /\ Onward(e, r) /\ tasks' = tasks \cup {n} /\ excused = {}
      /\ enc[e].pc = "opening" /\ r.pc = "putting doors" /\ enc[e].key # None
      /\ n.what = "doors" /\ n.bytes.at = enc[e].dir /\ n.bytes.key = enc[e].key /\ n.stage = "handed"
  BY DEF HandsDoors
<1> HIDE DEF n
<1>2. enc'[e] = r /\ \A o \in Enclaves : o # e => enc'[o] = enc[o]
  BY <1>1, Others
<1>3. kept' = kept /\ tmp' = tmp
  BY <1>1 DEF Onward
<1>4. DoorHost /\ DoorsOne /\ enc[e].key = kept.key
  BY <1>1, OneKeyHolds DEF DoorInv
<1>5. DoorTasks = {} /\ Holds(enc[e].dir)
  BY <1>1, <1>4 DEF DoorsOne
<1>6. DoorTasks' = {n}
  BY <1>1, <1>5 DEF DoorTasks
<1>7. DoorHost'
  <2>1. kept'.under \in {None, kept'.key} /\ (kept'.under = None => kept'.doors = NoDoors)
    BY <1>3, <1>4 DEF DoorHost
  <2>2. n.bytes.key = kept'.key /\ kept'.key # None /\ n.stage # "written"
    BY <1>1, <1>3, <1>4
  <2>3. \A g \in Gateways : kept'.doors[g] # None => n.bytes.at[g] = kept'.doors[g]
    BY <1>1, <1>3, <1>5 DEF Holds
  <2> QED BY <1>6, <2>1, <2>2, <2>3 DEF DoorHost, Holds
<1>8. \A o \in Enclaves : o # e => enc[o].pc \notin UnderWay
  BY <1>1, <1>4 DEF DoorsOne, UnderWay
<1>9. DoorsOne'
  BY <1>1, <1>2, <1>8 DEF DoorsOne, UnderWay
<1> QED BY <1>7, <1>9

\* The host's tasks leave where every enclave is, and its addresses.
LEMMA DoorTask ==
  ASSUME Types, Shapes, KeyInv, DoorInv, NEW t \in tasks, HostTask(t) \/ PutFails(t), excused' = {}
  PROVE  DoorHost' /\ DoorsOne' /\ \A g \in Gateways : kept.doors[g] # None => kept'.doors[g] = kept.doors[g]
<1>1. excused = {}
  BY Tasking DEF CheckOnce, WriteBeside, RenameNothing, RenameKey, RenameDoors, PutFails
<1>2. DoorHost /\ DoorsOne /\ KeyHost
  BY <1>1, OneKeyHolds DEF DoorInv
<1>3. t \in KeyPuts \cup DoorPuts
  BY DEF Types
\* No enclave moves, and the host's doors and their tasks stay or grow fewer.
<1>4. ASSUME \A e \in Enclaves : enc'[e].pc = enc[e].pc /\ enc'[e].key = enc[e].key /\ enc'[e].dir = enc[e].dir,
             kept'.doors = kept.doors, DoorTasks' \subseteq DoorTasks
      PROVE  DoorsOne'
  BY <1>2, <1>4, DoorsStill
<1>5. ASSUME NEW answer \in {"kept", "refused"}, Ends(t, answer), kept' = kept, tmp' = tmp
      PROVE  DoorHost' /\ DoorsOne' /\ \A g \in Gateways : kept.doors[g] # None => kept'.doors[g] = kept.doors[g]
  <2>1. Told(t, answer)
    BY <1>5, Telling
  <2>2. DoorTasks' \subseteq DoorTasks
    BY <1>5 DEF Ends, DoorTasks
  <2>3. DoorHost'
    BY <1>2, <1>5, <2>2 DEF DoorHost, Holds
  <2> QED BY <1>4, <1>5, <2>1, <2>2, <2>3 DEF Told
<1>6. CASE t.what = "key" /\ t.stage = "handed" /\ CheckOnce(t)
  <2>1. CASE kept.key = None
    <3>1. UNCHANGED <<enc, kept, tmp>> /\ Moves(t, "whole")
      BY <1>6, <2>1 DEF CheckOnce
    <3>2. [t EXCEPT !.stage = "whole"].what # "doors"
      BY <1>3, <1>6 DEF KeyPuts, DoorPuts
    <3>3. DoorTasks' = DoorTasks
      BY <1>6, <3>1, <3>2 DEF Moves, DoorTasks
    <3>4. DoorHost'
      BY <1>2, <3>1, <3>3 DEF DoorHost, Holds
    <3> QED BY <1>4, <3>1, <3>3, <3>4
  <2>2. CASE kept.key # None
    <3>1. Ends(t, IF kept.key = t.bytes.key THEN "kept" ELSE "refused") /\ kept' = kept /\ tmp' = tmp
      BY <1>6, <2>2 DEF CheckOnce
    <3> QED BY <1>5, <3>1
  <2> QED BY <2>1, <2>2
<1>7. CASE t.what = "key" /\ t.stage = "whole" /\ WriteBeside(t)
  <2>1. UNCHANGED <<enc, kept>> /\ Moves(t, "written") /\ tmp' = [tmp EXCEPT !["key"] = {t.bytes}]
    BY <1>7 DEF WriteBeside
  <2>2. [t EXCEPT !.stage = "written"].what # "doors"
    BY <1>3, <1>7 DEF KeyPuts, DoorPuts
  <2>3. DoorTasks' = DoorTasks
    BY <1>7, <2>1, <2>2 DEF Moves, DoorTasks
  <2>4. tmp'.doors = tmp.doors
    BY <2>1 DEF Types
  <2>5. DoorHost'
    BY <1>2, <2>1, <2>3, <2>4 DEF DoorHost, Holds
  <2> QED BY <1>4, <2>1, <2>3, <2>5
<1>8. CASE t.what = "doors" /\ t.stage = "handed" /\ WriteBeside(t)
  <2> DEFINE n == [t EXCEPT !.stage = "written"]
  <2>1. UNCHANGED <<enc, kept>> /\ tasks' = (tasks \ {t}) \cup {n} /\ tmp' = [tmp EXCEPT !["doors"] = {t.bytes}]
    BY <1>8 DEF WriteBeside, Moves
  <2>2. n.what = "doors" /\ n.bytes = t.bytes
    BY <1>3, <1>8 DEF KeyPuts, DoorPuts
  <2> HIDE DEF n
  <2>3. t \in DoorTasks
    BY <1>8 DEF DoorTasks
  <2>4. DoorTasks = {t} /\ Holds(t.bytes.at) /\ t.bytes.key = kept.key /\ kept.key # None
    BY <1>2, <2>3 DEF DoorHost
  <2>5. DoorTasks' = {n}
    BY <2>1, <2>2, <2>4 DEF DoorTasks
  <2>6. tmp'.doors = {t.bytes}
    BY <2>1 DEF Types
  <2>7. DoorHost'
    BY <1>2, <2>1, <2>2, <2>4, <2>5, <2>6 DEF DoorHost, Holds
  <2>8. \A e \in Enclaves : enc[e].pc # "opening"
    BY <1>2, <2>3 DEF DoorsOne
  <2>9. DoorsOne'
    BY <1>2, <2>1, <2>8 DEF DoorsOne
  <2> QED BY <2>1, <2>7, <2>9
<1>9. CASE t.stage = "written" /\ RenameNothing(t)
  BY <1>5, <1>9 DEF RenameNothing
<1>10. CASE t.what = "key" /\ t.stage = "written" /\ RenameKey(t)
  <2>1. t \in Checked
    BY <1>10 DEF Checked
  <2>2. kept.key = None
    BY <1>2, <2>1 DEF KeyHost
  <2>3. DoorTasks = {} /\ kept.under = None /\ kept.doors = NoDoors
    BY <1>2, <2>2 DEF DoorHost
  <2>4. Ends(t, "kept") /\ kept'.doors = kept.doors /\ kept'.under = kept.under
    BY <1>10 DEF RenameKey, Types
  <2>5. DoorTasks' = {}
    BY <2>3, <2>4 DEF Ends, DoorTasks
  <2>6. DoorHost'
    BY <2>3, <2>4, <2>5 DEF DoorHost, None
  <2>7. Told(t, "kept")
    BY <2>4, Telling
  <2> QED BY <1>4, <2>3, <2>4, <2>5, <2>6, <2>7 DEF Told
<1>11. CASE t.what = "doors" /\ t.stage = "written" /\ RenameDoors(t)
  <2>1. t \in DoorTasks
    BY <1>11 DEF DoorTasks
  <2>2. DoorTasks = {t} /\ Holds(t.bytes.at) /\ t.bytes.key = kept.key /\ kept.key # None /\ tmp.doors = {t.bytes}
    BY <1>2, <1>11, <2>1 DEF DoorHost
  <2>3. kept' = [kept EXCEPT !.doors = t.bytes.at, !.under = t.bytes.key] /\ Ends(t, "kept")
    BY <1>11, <2>2 DEF RenameDoors
  <2>4. kept'.doors = t.bytes.at /\ kept'.under = kept.key /\ kept'.key = kept.key
    BY <2>2, <2>3 DEF Types
  <2>5. DoorTasks' = {}
    BY <2>2, <2>3 DEF Ends, DoorTasks
  <2>6. DoorHost'
    BY <2>2, <2>4, <2>5 DEF DoorHost
  <2>7. Told(t, "kept")
    BY <2>3, Telling
  <2>8. \A e \in Enclaves : enc[e].pc # "opening"
    BY <1>2, <2>1 DEF DoorsOne
  <2>9. DoorsOne'
    BY <1>2, <2>7, <2>8 DEF DoorsOne, Told, UnderWay
  <2> QED BY <2>2, <2>4, <2>6, <2>9 DEF Holds
<1>12. CASE PutFails(t)
  BY <1>5, <1>12 DEF PutFails
<1> QED BY <1>6, <1>7, <1>8, <1>9, <1>10, <1>11, <1>12, Tasking

\* A step keeps the doors in order, and every address the host keeps.
LEMMA DoorStep ==
  ASSUME Types, Shapes, KeyInv, DoorInv, [Next]_vars
  PROVE  /\ DoorInv'
         /\ excused' = {} => \A g \in Gateways : kept.doors[g] # None => kept'.doors[g] = kept.doors[g]
<1> DEFINE Stay == excused' = {} => \A g \in Gateways : kept.doors[g] # None => kept'.doors[g] = kept.doors[g]
<1>1. ASSUME NEW e \in Enclaves, Moved(e)
      PROVE  DoorInv' /\ Stay
  <2>1. PICK r : Walks(e, r) \/ Lays(e, r) \/ HandsKey(e, r) \/ HandsDoors(e, r)
    BY <1>1 DEF Moved
  <2>2. kept' = kept
    BY <2>1 DEF Walks, Lays, HandsKey, HandsDoors, Onward
  <2> QED BY <2>1, <2>2, DoorWalk, DoorLay, DoorHandKey, DoorHand
<1>2. ASSUME NEW e \in Enclaves, WriteBook(e)
      PROVE  DoorInv' /\ Stay
  <2>1. kept' = [kept EXCEPT !.book = enc[e].key] /\ UNCHANGED <<enc, tmp, tasks, excused>>
    BY <1>2 DEF WriteBook
  <2>2. kept'.key = kept.key /\ kept'.doors = kept.doors /\ kept'.under = kept.under
    BY <2>1 DEF Types
  <2> QED BY <2>1, <2>2 DEF DoorInv, DoorHost, DoorsOne, DoorTasks, Holds
<1>3. ASSUME NEW t \in tasks, HostTask(t) \/ PutFails(t)
      PROVE  DoorInv' /\ Stay
  BY <1>3, DoorTask DEF DoorInv
<1>4. CASE HostStop
  <2>1. /\ tasks' = {} /\ UNCHANGED <<kept, tmp, excused>>
        /\ enc' = [e \in Enclaves |-> IF \E t \in tasks : WaitsFor(t, e) THEN [enc[e] EXCEPT !.answer = "refused"] ELSE enc[e]]
    BY <1>4 DEF HostStop
  <2>2. DoorTasks' = {}
    BY <2>1 DEF DoorTasks
  <2>3. \A e \in Enclaves : enc'[e].pc = enc[e].pc /\ enc'[e].key = enc[e].key /\ enc'[e].dir = enc[e].dir
    BY <2>1, Refusing
  <2>4. DoorHost => DoorHost'
    BY <2>1, <2>2 DEF DoorHost
  <2>5. DoorsOne => DoorsOne'
    BY <2>1, <2>2, <2>3 DEF DoorsOne, Holds
  <2> QED BY <2>1, <2>4, <2>5 DEF DoorInv
<1>5. CASE HostHangs \/ HostHears \/ UNCHANGED vars
  BY <1>5 DEF HostHangs, HostHears, vars, DoorInv, DoorHost, DoorsOne, DoorTasks, Holds
<1>6. ASSUME NEW e \in Enclaves,
             (\E probe \in BOOLEAN : Boot(e, probe)) \/ Proceeds(e) \/ GoesWrong(e) \/ Recovers(e) \/ Pulse(e)
      PROVE  DoorInv' /\ Stay
  BY <1>1, <1>6, Moving
<1>7. (HostStop \/ HostHangs \/ HostHears \/ UNCHANGED vars) => DoorInv' /\ Stay
  BY <1>4, <1>5 DEF HostStop, HostHangs, HostHears, vars
<1> HIDE DEF Stay
<1>8. DoorInv' /\ Stay
  BY <1>2, <1>3, <1>6, <1>7 DEF Next
<1> QED BY <1>8 DEF Stay

-----------------------------------------------------------------------------
(* The theorems.                                                           *)

LEMMA Beginning == Init => Types /\ Shapes /\ KeyInv /\ DoorInv
<1> SUFFICES ASSUME Init
             PROVE  Types /\ Shapes /\ KeyInv /\ DoorInv
  OBVIOUS
<1>1. /\ enc = [e \in Enclaves |-> Off]
      /\ kept = [key |-> None, book |-> None, doors |-> NoDoors, under |-> None]
      /\ tmp = [key |-> {}, doors |-> {}] /\ tasks = {} /\ hears = TRUE /\ starts = 0 /\ excused = {}
  BY DEF Init
<1>2. None \in Numbers /\ 0 \in Numbers /\ NoDoors \in Addresses
  BY Constants DEF None, Numbers, NoDoors, Addresses
<1>3. Types /\ Shapes
  BY <1>1, <1>2, OffIsStart DEF Types, Shapes
<1>4. KeyInv
  BY <1>1, OffIsStart DEF KeyInv, KeyHost, Checked, SeesKey
<1>5. DoorInv
  BY <1>1, OffIsStart DEF DoorInv, DoorHost, DoorsOne, DoorTasks, UnderWay, Holds, NoDoors
<1> QED BY <1>3, <1>4, <1>5

LEMMA StartInv == Spec => [](Types /\ Shapes /\ KeyInv /\ DoorInv)
<1>1. Types /\ Shapes /\ KeyInv /\ DoorInv /\ [Next]_vars => (Types /\ Shapes /\ KeyInv /\ DoorInv)'
  BY TypesStep, KeyStep, DoorStep
<1> QED BY Beginning, <1>1, PTL DEF Spec

\* Keys, addresses and counts are of their kinds (Start's TypeOK), whatever fails.
THEOREM StartTypeCorrect == Spec => []TypeOK
<1>1. Types => TypeOK
  BY DEF Types, TypeOK, Starts, Numbers, Addresses
<1> QED BY StartInv, <1>1, PTL

\* Every start that has a data key has the one the host keeps, and the book is sealed under
\* it (own_data_key, put_once), unless two puts both found no key.
THEOREM EveryStartHasOneKey == Spec => []OneKey
<1>1. KeyInv => OneKey
  BY DEF KeyInv, KeyHost, SeesKey, OneKey, Keyed
<1> QED BY StartInv, <1>1, PTL

\* An address the host keeps stays (doors.rs, the put of the doors), unless two starts had
\* their doors under way at once, the host's doors could not be read, or there were two keys.
THEOREM KeptAddressesStay == Spec => AddressesStay
<1>1. Types /\ Shapes /\ KeyInv /\ DoorInv /\ [Next]_vars
        => [excused' = {} => \A g \in Gateways : kept.doors[g] # None => kept'.doors[g] = kept.doors[g]]_vars
  BY DoorStep
<1> QED BY StartInv, <1>1, PTL DEF Spec, AddressesStay
=============================================================================
