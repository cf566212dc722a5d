--------------------------- MODULE Witness_proofs ---------------------------
(***************************************************************************)
(* What holds of Witness for every number of folds, records, marks and      *)
(* restores.                                                               *)
(***************************************************************************)
EXTENDS Witness, FiniteSetTheorems, WellFoundedInduction, TLAPS

-----------------------------------------------------------------------------
(* Places are ordered, and some mark is the newest.                        *)

LEMMA BeforeOrders ==
  ASSUME NEW x \in Places, NEW y \in Places, NEW z \in Places
  PROVE  /\ ~Before(x, x)
         /\ Before(x, y) => ~Before(y, x)
         /\ Before(x, y) \/ x = y \/ Before(y, x)
         /\ ~Before(x, y) /\ ~Before(y, z) => ~Before(x, z)
<1>1. /\ x[1] \in Int /\ x[2] \in Int /\ y[1] \in Int /\ y[2] \in Int
      /\ z[1] \in Int /\ z[2] \in Int
      /\ x = <<x[1], x[2]>> /\ y = <<y[1], y[2]>>
  BY WitnessAssumption DEF Places
<1> QED
  BY <1>1 DEF Before

LEMMA PlacesFinite == IsFiniteSet(Places)
<1>1. IsFiniteSet(0..MaxGeneration) /\ IsFiniteSet(0..MaxNumber)
  BY WitnessAssumption, FS_Interval
<1> QED
  BY <1>1, FS_Product DEF Places

\* A set of places without a newest would have a smallest nonempty subset
\* without one; but take one place out of that and put it back.
LEMMA NewestExists ==
  ASSUME NEW M, M \subseteq Places, M # {}
  PROVE  \E m \in M : \A o \in M : ~Before(m, o)
<1> DEFINE HasNewest(T) == \E m \in T : \A o \in T : ~Before(m, o)
           Without == {T \in SUBSET Places : T # {} /\ ~HasNewest(T)}
<1> SUFFICES ASSUME Without # {} PROVE FALSE
  OBVIOUS
<1>1. IsWellFoundedOn(StrictSubsetOrdering(Places), SUBSET Places)
  BY PlacesFinite, FS_StrictSubsetOrderingWellFounded, FS_FiniteSubsetsOfFinite
<1>2. PICK T \in Without : \A U \in Without : <<U, T>> \notin StrictSubsetOrdering(Places)
  <2>1. Without \subseteq SUBSET Places
    OBVIOUS
  <2> HIDE DEF Without
  <2> QED
    BY <1>1, <2>1, WFMin
<1>3. PICK x \in T : TRUE
  BY <1>2
<1> DEFINE U == T \ {x}
<1>4. U \notin Without
  BY <1>2, <1>3 DEF StrictSubsetOrdering
<1>5. HasNewest(T)
  <2>1. CASE U = {}
    BY <1>2, <1>3, <2>1, BeforeOrders
  <2>2. CASE U # {}
    <3>1. PICK m \in U : \A o \in U : ~Before(m, o)
      BY <1>2, <1>4, <2>2
    <3>2. x \in Places /\ m \in Places /\ T \subseteq Places
      BY <1>2, <1>3
    <3>3. CASE Before(m, x)
      <4>1. ~Before(x, m) /\ ~Before(x, x)
        BY <3>2, <3>3, BeforeOrders
      <4>2. \A o \in T : ~Before(x, o)
        BY <3>1, <3>2, <4>1, BeforeOrders
      <4> QED
        BY <1>3, <4>2
    <3>4. CASE ~Before(m, x)
      BY <3>1, <3>4
    <3> QED
      BY <3>3, <3>4
  <2> QED
    BY <2>1, <2>2
<1> QED
  BY <1>2, <1>5

LEMMA NewestMarkIsNewest ==
  ASSUME DOMAIN marks \subseteq Places, DOMAIN marks # {}
  PROVE  NewestMark \in DOMAIN marks /\ \A m \in DOMAIN marks : ~Before(NewestMark, m)
  BY NewestExists DEF NewestMark

\* A book that may start freely has no mark before it ...
LEMMA FreeIsAhead ==
  ASSUME DOMAIN marks \subseteq Places, disk \in Places, MayStart(disk) = "free"
  PROVE  \A m \in DOMAIN marks : ~Before(disk, m)
<1>1. CASE DOMAIN marks = {}
  BY <1>1
<1>2. CASE DOMAIN marks # {}
  <2>1. ~Before(disk, NewestMark)
    BY <1>2 DEF MayStart
  <2> QED
    BY <1>2, <2>1, NewestMarkIsNewest, BeforeOrders
<1> QED
  BY <1>1, <1>2

\* ... and a book with no mark before it may start freely.
LEMMA AheadIsFree ==
  ASSUME DOMAIN marks \subseteq Places, \A m \in DOMAIN marks : ~Before(disk, m)
  PROVE  MayStart(disk) = "free"
  BY NewestMarkIsNewest DEF MayStart

LEMMA PutKeys ==
  ASSUME NEW objects, NEW key, NEW when
  PROVE  /\ DOMAIN Put(objects, key, when) = DOMAIN objects \cup {key}
         /\ Put(objects, key, when)[key] = when
         /\ \A k \in DOMAIN objects : k # key => Put(objects, key, when)[k] = objects[k]
  BY DEF Put

LEMMA PutType ==
  ASSUME TypeOK, clock < MaxWrites, NEW objects, NEW key \in Places,
         DOMAIN objects \subseteq Places, \A m \in DOMAIN objects : objects[m] \in 1..clock
  PROVE  /\ DOMAIN Put(objects, key, clock + 1) \subseteq Places
         /\ \A m \in DOMAIN Put(objects, key, clock + 1) :
              Put(objects, key, clock + 1)[m] \in 1..(clock + 1)
         /\ clock + 1 \in 0..MaxWrites
<1>1. clock \in Nat /\ MaxWrites \in Nat
  BY WitnessAssumption DEF TypeOK
<1>2. \A n \in 1..clock : n \in 1..(clock + 1)
  BY <1>1
<1>3. clock + 1 \in 1..(clock + 1) /\ clock + 1 \in 0..MaxWrites
  BY <1>1
<1> DEFINE put == Put(objects, key, clock + 1)
<1>4. /\ DOMAIN put = DOMAIN objects \cup {key} /\ put[key] = clock + 1
      /\ \A k \in DOMAIN objects : k # key => put[k] = objects[k]
  BY DEF Put
<1> HIDE DEF put
<1>5. DOMAIN put \subseteq Places
  BY <1>4
<1>6. ASSUME NEW m \in DOMAIN put PROVE put[m] \in 1..(clock + 1)
  <2>1. CASE m = key
    BY <1>3, <1>4, <2>1
  <2>2. CASE m # key
    BY <1>2, <1>4, <2>2
  <2> QED
    BY <2>1, <2>2
<1> QED
  BY <1>3, <1>5, <1>6 DEF put

LEMMA InitType == Init => TypeOK
<1> SUFFICES ASSUME Init PROVE TypeOK
  OBVIOUS
<1>1. <<1, 0>> \in Places /\ <<0, 0>> \in Places
  BY WitnessAssumption DEF Places
<1>2. 0 \in 0..MaxWrites /\ 0 \in 0..MaxRestores
  BY WitnessAssumption
<1>3. DOMAIN marks = {} /\ DOMAIN accepts = {}
  BY DEF Init
<1> QED
  BY <1>1, <1>2, <1>3 DEF Init, TypeOK

LEMMA StepType == TypeOK /\ [Next]_vars => TypeOK'
<1> SUFFICES ASSUME TypeOK, [Next]_vars PROVE TypeOK'
  OBVIOUS
<1>1. /\ disk \in Places /\ <<0, 0>> \in Places
      /\ disk = <<disk[1], disk[2]>> /\ disk[1] \in 0..MaxGeneration /\ disk[2] \in 0..MaxNumber
  BY WitnessAssumption DEF TypeOK, Places
<1>2. CASE UNCHANGED vars
  BY <1>2 DEF vars, TypeOK
<1>3. CASE Start
  BY <1>1, <1>3 DEF Start, TypeOK, bucket
<1>4. CASE Record
  <2>1. disk' \in Places
    BY <1>1, <1>4, WitnessAssumption DEF Record, Places
  <2> QED
    BY <1>4, <2>1 DEF Record, TypeOK, bucket
<1>5. CASE Fold
  <2>1. disk' \in Places
    BY <1>1, <1>5, WitnessAssumption DEF Fold, Places
  <2> QED
    BY <1>5, <2>1 DEF Fold, TypeOK, bucket
<1>6. CASE WriteMark \/ MarkUnheard
  <2>1. clock < MaxWrites /\ marks' = Put(marks, disk, clock + 1) /\ clock' = clock + 1
    BY <1>6 DEF WriteMark, MarkUnheard
  <2>2. /\ DOMAIN marks' \subseteq Places /\ clock' \in 0..MaxWrites
        /\ \A m \in DOMAIN marks' : marks'[m] \in 1..clock'
    BY <1>1, <2>1, PutType DEF TypeOK
  <2>3. \A m \in DOMAIN accepts : accepts[m] \in 1..clock'
    BY <2>1, WitnessAssumption DEF TypeOK
  <2>4. /\ UNCHANGED <<running, disk, accepts, backups, restores, byAccept>>
        /\ told' \in {told, disk} /\ owed' \in BOOLEAN
    BY <1>6 DEF WriteMark, MarkUnheard
  <2> QED
    BY <1>1, <2>2, <2>3, <2>4 DEF TypeOK
<1>7. CASE MarkFails
  BY <1>7 DEF MarkFails, TypeOK, bucket
<1>8. CASE Stop
  BY <1>8 DEF Stop, TypeOK, bucket
<1>9. CASE Backup
  BY <1>1, <1>9 DEF Backup, TypeOK, bucket
<1>10. ASSUME NEW b \in backups, Restore(b) PROVE TypeOK'
  <2>1. b \in Places /\ restores' \in 0..MaxRestores
    BY <1>10, WitnessAssumption DEF Restore, TypeOK
  <2> QED
    BY <1>10, <2>1 DEF Restore, TypeOK, bucket
<1>11. CASE Accept
  <2>1. clock < MaxWrites /\ accepts' = Put(accepts, disk, clock + 1) /\ clock' = clock + 1
    BY <1>11 DEF Accept
  <2>2. /\ DOMAIN accepts' \subseteq Places /\ clock' \in 0..MaxWrites
        /\ \A m \in DOMAIN accepts' : accepts'[m] \in 1..clock'
    BY <1>1, <2>1, PutType DEF TypeOK
  <2>3. \A m \in DOMAIN marks : marks[m] \in 1..clock'
    BY <2>1, WitnessAssumption DEF TypeOK
  <2>4. UNCHANGED <<running, disk, told, owed, marks, backups, restores, byAccept>>
    BY <1>11 DEF Accept
  <2> QED
    BY <2>2, <2>3, <2>4 DEF TypeOK
<1> QED
  BY <1>2, <1>3, <1>4, <1>5, <1>6, <1>7, <1>8, <1>9, <1>10, <1>11 DEF Next

-----------------------------------------------------------------------------
(* Where the book stands with respect to the marks.  A book moves forward    *)
(* and marks are written at its place, so that one never put back to a      *)
(* backup has no mark before it; one that was put back is refused, or runs   *)
(* on an acknowledgement, until it has no mark before it.                    *)

Ahead == \A m \in DOMAIN marks : ~Before(disk, m)

RewindInv ==
  /\ TypeOK
  /\ running /\ ~byAccept => Ahead
  /\ restores = 0 => Ahead

LEMMA RewindInit == Init => RewindInv
<1> SUFFICES ASSUME Init PROVE RewindInv
  OBVIOUS
<1>1. DOMAIN marks = {}
  BY DEF Init
<1> QED
  BY <1>1, InitType DEF RewindInv, Ahead

\* The book going on to a later place stays ahead of the marks.
LEMMA ForwardStaysAhead ==
  ASSUME TypeOK, TypeOK', Ahead, marks' = marks, Before(disk, disk')
  PROVE  Ahead'
  BY BeforeOrders DEF Ahead, TypeOK

LEMMA RewindStep == RewindInv /\ [Next]_vars => RewindInv'
<1> SUFFICES ASSUME RewindInv, [Next]_vars PROVE RewindInv'
  OBVIOUS
<1>1. TypeOK /\ TypeOK'
  BY StepType DEF RewindInv
<1>2. CASE UNCHANGED <<running, byAccept, restores, marks, disk>>
  BY <1>1, <1>2 DEF RewindInv, Ahead
<1>3. CASE Start
  <2>1. UNCHANGED <<disk, marks, restores>>
    BY <1>3 DEF Start, bucket
  <2>2. ~byAccept' => MayStart(disk) = "free"
    BY <1>3 DEF Start, MayStart
  <2>3. ~byAccept' => Ahead
    BY <1>1, <2>2, FreeIsAhead DEF Ahead, TypeOK
  <2> QED
    BY <1>1, <2>1, <2>3 DEF RewindInv, Ahead
<1>4. CASE Record \/ Fold
  <2>1. UNCHANGED <<running, byAccept, restores, marks>>
    BY <1>4 DEF Record, Fold, bucket
  <2>2. Before(disk, disk')
    <3>1. disk[1] \in Nat /\ disk[2] \in Nat
      BY <1>1, WitnessAssumption DEF TypeOK, Places
    <3>2. disk' = <<disk[1], disk[2] + 1>> \/ disk' = <<disk[1] + 1, 0>>
      BY <1>4 DEF Record, Fold
    <3> QED
      BY <3>1, <3>2 DEF Before
  <2>3. Ahead => Ahead'
    BY <1>1, <2>1, <2>2, ForwardStaysAhead
  <2> QED
    BY <1>1, <2>1, <2>3 DEF RewindInv
<1>5. CASE WriteMark \/ MarkUnheard
  <2>1. marks' = Put(marks, disk, clock + 1) /\ UNCHANGED <<running, byAccept, restores, disk>>
    BY <1>5 DEF WriteMark, MarkUnheard
  <2>2. DOMAIN marks' = DOMAIN marks \cup {disk}
    BY <2>1, PutKeys
  <2>3. ~Before(disk, disk)
    BY <1>1, BeforeOrders DEF TypeOK
  <2> QED
    BY <1>1, <2>1, <2>2, <2>3 DEF RewindInv, Ahead
<1>6. ASSUME NEW b \in backups, Restore(b) PROVE RewindInv'
  <2>1. ~running' /\ restores' = restores + 1
    BY <1>6 DEF Restore
  <2>2. restores' # 0
    BY <1>1, <2>1, WitnessAssumption DEF TypeOK
  <2> QED
    BY <1>1, <2>1, <2>2 DEF RewindInv
<1>7. CASE Stop
  BY <1>1, <1>7 DEF Stop, RewindInv, Ahead, bucket
<1>8. CASE MarkFails \/ Backup \/ Accept
  <2>1. UNCHANGED <<running, byAccept, restores, marks, disk>>
    BY <1>8 DEF MarkFails, Backup, Accept, bucket
  <2> QED
    BY <1>2, <2>1
<1> QED
  BY <1>2, <1>3, <1>4, <1>5, <1>6, <1>7, <1>8 DEF Next, vars

\* Every variable of the witness keeps its kind, through lost marks and restores.
THEOREM WitnessTypeCorrect == Spec => []TypeOK
  BY InitType, StepType, PTL DEF Spec

\* Whatever backup is put back, and however often, the enclave runs on a book
\* behind a mark the witness holds only when it began on an acknowledgement.
THEOREM NoRewindUnseen == Spec => []NoSilentRewind
<1>1. RewindInv => NoSilentRewind
  BY DEF RewindInv, Ahead, NoSilentRewind
<1> QED
  BY <1>1, RewindInit, RewindStep, PTL DEF Spec

\* The witness stops nobody who has restored nothing.
THEOREM UnrestoredStarts == Spec => []NeverRefusedUnrestored
<1>1. RewindInv => NeverRefusedUnrestored
  BY AheadIsFree DEF RewindInv, Ahead, NeverRefusedUnrestored, TypeOK
<1> QED
  BY <1>1, RewindInit, RewindStep, PTL DEF Spec

=============================================================================
