-------------------------------- MODULE Start --------------------------------
(***************************************************************************)
(* From boot to serving: the program of the enclave's image                *)
(* (crates/server/src/bin/tokumai-enclave-nitro.rs), what the host keeps   *)
(* for it besides the book (egress/src/lib.rs), KMS (enclave/src/kms.rs)   *)
(* and the doors' identities (enclave/src/doors.rs).                       *)
(*                                                                         *)
(* A start gives its number to what is new with it: its request key, the   *)
(* data key it may make, and the address of a door that finds no identity. *)
(* The host carries a call out in a task of its own, which goes on when    *)
(* the enclave has given it up.  The book's records are Book's, and        *)
(* whether a start is behind the witness is Witness's.                     *)
(***************************************************************************)
EXTENDS Integers, FiniteSets

CONSTANTS
  Enclaves,       \* enclaves that may run side by side
  Gateways,       \* TOKUMAI_GATEWAYS of the image
  OperatorHolds,  \* gateways whose identity the operator once sealed
  SilentFor,      \* SILENT_FOR, in pulses
  MaxStarts,      \* bound: starts
  MaxFaults       \* bound: calls that fail, are not heard or do not return, and stops

ASSUME StartAssumption ==
  /\ OperatorHolds \subseteq Gateways /\ Gateways # {}
  /\ {SilentFor, MaxStarts} \subseteq Nat \ {0} /\ MaxFaults \in Nat

VARIABLES
  enc,      \* each enclave: where its start is, its keys, its doors, its runtime
  kept,     \* the host's files: the wrapped data key, the sealed doors, and the book's key
  tmp,      \* the files being written, not yet renamed
  tasks,    \* puts the host is at
  hears,    \* the host takes announcements
  starts, faults,
  excused   \* history: what two starts did at once, or one start did not get to read

vars == <<enc, kept, tmp, tasks, hears, starts, faults, excused>>
host == <<kept, tmp, tasks, hears>>
counts == <<starts, faults>>

None == 0
Operators == MaxStarts + 1  \* the address of an identity the operator held
NoDoors == [g \in Gateways |-> None]
Off == [pc |-> "off", no |-> 0, probe |-> FALSE, key |-> None, own |-> None, dir |-> NoDoors,
        door |-> [g \in Gateways |-> "shut"], answer |-> "none", wedged |-> FALSE, silent |-> 0]

\* main runs: every step but a question to the host announces itself and waits for that.
At(e, pc) == enc[e].pc = pc /\ ~enc[e].wedged /\ hears
Goes(e, r) == enc' = [enc EXCEPT ![e] = r]
To(e, pc) == [enc[e] EXCEPT !.pc = pc]
\* A call that fails, or an answer that is not heard.
Fault == faults < MaxFaults /\ faults' = faults + 1

-----------------------------------------------------------------------------
(* KMS: an answer is for the request key of one start, or says the key in  *)
(* the clear, or is none.                                                  *)

RequestKey(e) == enc[e].no
KmsAnswers(e) == [clear : BOOLEAN, for : {None, RequestKey(e)}]
ForThisEnclave(e, answer) == answer.for = RequestKey(e)
Generated(e, answer) == ~answer.clear /\ ForThisEnclave(e, answer)

-----------------------------------------------------------------------------
(* The host.                                                               *)

\* read_or_empty: a file that cannot be read is a file that is not there.
SeenEmpty(file) == IF file = None THEN UNCHANGED faults ELSE Fault

Handed(what, e, bytes) ==
  tasks' = tasks \cup {[what |-> what, from |-> enc[e].no, bytes |-> bytes, stage |-> "handed"]}
Moves(t, stage) == tasks' = (tasks \ {t}) \cup {[t EXCEPT !.stage = stage]}
Putting == [key |-> "putting key", doors |-> "putting doors"]
WaitsFor(t, e) == enc[e].no = t.from /\ enc[e].pc = Putting[t.what]
\* The task ends; its answer goes to the enclave if it still waits.
Ends(t, answer) ==
  /\ tasks' = tasks \ {t}
  /\ enc' = [e \in Enclaves |-> IF WaitsFor(t, e) THEN [enc[e] EXCEPT !.answer = answer] ELSE enc[e]]

Checked == {t \in tasks : t.what = "key" /\ t.stage # "handed"}
\* A bug: the file is taken for one that is not there.
CheckOnce_Never(t) == Moves(t, "whole") /\ UNCHANGED <<enc, kept, tmp, hears, counts, excused>>
\* put_once: another key is kept already, or there is none and this one may be written.
CheckOnce(t) ==
  /\ IF kept.key = None THEN Moves(t, "whole") /\ UNCHANGED enc
     ELSE Ends(t, IF kept.key = t.bytes.key THEN "kept" ELSE "refused")
  /\ excused' = IF kept.key = None /\ Checked # {} THEN excused \cup {"key"} ELSE excused
  /\ UNCHANGED <<kept, tmp, hears, counts>>
\* put_whole: beside the file, whole.
WriteBeside(t) ==
  /\ tmp' = [tmp EXCEPT ![t.what] = {t.bytes}]
  /\ Moves(t, "written")
  /\ UNCHANGED <<enc, kept, hears, counts, excused>>
\* A rename moves what is there, whoever wrote it; with nothing there it fails.
RenameKey(t) ==
  /\ \E b \in tmp.key : kept' = [kept EXCEPT !.key = b.key]
  /\ tmp' = [tmp EXCEPT !.key = {}]
  /\ Ends(t, "kept")
  /\ UNCHANGED <<hears, counts, excused>>
RenameDoors(t) ==
  /\ \E b \in tmp.doors : kept' = [kept EXCEPT !.doors = b.at, !.under = b.key]
  /\ tmp' = [tmp EXCEPT !.doors = {}]
  /\ Ends(t, "kept")
  /\ UNCHANGED <<hears, counts, excused>>
RenameNothing(t) == tmp[t.what] = {} /\ Ends(t, "refused") /\ UNCHANGED <<kept, tmp, hears, counts, excused>>
PutFails(t) == Ends(t, "refused") /\ Fault /\ UNCHANGED <<kept, tmp, hears, starts, excused>>

HostTask(t) ==
  CASE t.stage = "handed" /\ t.what = "key" -> CheckOnce(t)
    [] t.stage = "whole" \/ (t.stage = "handed" /\ t.what = "doors") -> WriteBeside(t)
    [] t.stage = "written" /\ tmp[t.what] = {} -> RenameNothing(t)
    [] OTHER -> IF t.what = "key" THEN RenameKey(t) ELSE RenameDoors(t)

\* The host's process stops: its tasks are gone and what waited for them is told so.
HostStop ==
  /\ tasks # {} /\ Fault
  /\ tasks' = {}
  /\ enc' = [e \in Enclaves |-> IF \E t \in tasks : WaitsFor(t, e) THEN [enc[e] EXCEPT !.answer = "refused"] ELSE enc[e]]
  /\ UNCHANGED <<kept, tmp, hears, starts, excused>>
\* An announcement has no deadline: a host that does not take it holds whoever makes it.
HostHangs == hears /\ Fault /\ hears' = FALSE /\ UNCHANGED <<enc, kept, tmp, tasks, starts, excused>>
HostHears == ~hears /\ hears' = TRUE /\ UNCHANGED <<enc, kept, tmp, tasks, counts, excused>>

-----------------------------------------------------------------------------
(* The secrets and the data key.                                           *)

Boot(e, probe) ==
  /\ enc[e].pc = "off" /\ starts < MaxStarts
  /\ starts' = starts + 1
  /\ Goes(e, [Off EXCEPT !.pc = "secrets", !.no = starts + 1, !.probe = probe])
  /\ UNCHANGED <<host, faults, excused>>

Stop(e) ==
  /\ enc[e].pc # "off" /\ Fault
  /\ Goes(e, Off)
  /\ UNCHANGED <<host, starts, excused>>
Leaves(e) == Goes(e, Off) /\ UNCHANGED host

\* The operator's file: broken, or with a data key of the operator's choice, it is refused.
SealedFiles == {"whole", "broken", "with a data key"}
Check(file) == file = "whole"
Unsealed(e) ==
  /\ At(e, "secrets") /\ \E file \in SealedFiles : Check(file)
  /\ \E answer \in KmsAnswers(e) : ForThisEnclave(e, answer)
  /\ Goes(e, To(e, "key"))
  /\ UNCHANGED <<host, counts, excused>>
\* No credentials, no sealed file, one that carries a data key, or KMS did not open it:
\* a probe runs on the mock model and no data key, any other image stops.
NoSecrets(e) ==
  /\ At(e, "secrets") /\ Fault
  /\ Goes(e, IF enc[e].probe THEN To(e, "doors") ELSE Off)
  /\ UNCHANGED <<host, starts, excused>>

HasKey(e, key) == [enc[e] EXCEPT !.pc = "book", !.key = key, !.own = None, !.answer = "none"]
\* The host's copy, opened by KMS.
OpensKept(e) ==
  /\ At(e, "key") /\ kept.key # None
  /\ \E answer \in KmsAnswers(e) : ForThisEnclave(e, answer)
  /\ Goes(e, HasKey(e, kept.key))
  /\ UNCHANGED <<host, counts, excused>>
\* None there, or none that could be read: born now, and kept before it is used.
Born(e) ==
  /\ At(e, "key") /\ SeenEmpty(kept.key)
  /\ \E answer \in KmsAnswers(e) : Generated(e, answer)
  /\ Goes(e, [To(e, "putting key") EXCEPT !.own = enc[e].no])
  /\ Handed("key", e, [key |-> enc[e].no])
  /\ UNCHANGED <<kept, tmp, hears, starts, excused>>
\* The host does not answer, or KMS does not, or says the key in the clear.
NoKey(e) == At(e, "key") /\ Fault /\ Leaves(e) /\ UNCHANGED <<starts, excused>>

OwnKept(e) ==
  /\ At(e, "putting key") /\ enc[e].answer = "kept"
  /\ Goes(e, HasKey(e, enc[e].own))
  /\ UNCHANGED <<host, counts, excused>>
\* A bug: the key is used though the host did not say that it keeps it.
AskAgain_Own(e) == Goes(e, HasKey(e, enc[e].own)) /\ UNCHANGED host
\* Refused or not heard: what the host has now is asked for, and another's key is taken;
\* with none, or with this very one, the start is over.
AskAgain(e) ==
  IF kept.key \in {None, enc[e].own} THEN Leaves(e)
  ELSE Goes(e, HasKey(e, kept.key)) /\ UNCHANGED host
OwnRefused(e) == At(e, "putting key") /\ enc[e].answer = "refused" /\ AskAgain(e) /\ UNCHANGED <<counts, excused>>
OwnUnheard(e) == At(e, "putting key") /\ Fault /\ AskAgain(e) /\ UNCHANGED <<starts, excused>>

-----------------------------------------------------------------------------
(* The book.                                                               *)

\* The host is there, the witness answers, and the book opens under the key.
BookOpened(e) ==
  /\ At(e, "book") /\ kept.book \in {None, enc[e].key}
  /\ Goes(e, To(e, "doors"))
  /\ UNCHANGED <<host, counts, excused>>
BookRefused(e) == At(e, "book") /\ kept.book \notin {None, enc[e].key} /\ Leaves(e) /\ UNCHANGED <<counts, excused>>
\* Thirty attempts each for the host and for the witness.
Unreached(e) == At(e, "book") /\ Fault /\ Leaves(e) /\ UNCHANGED <<starts, excused>>

Serves(e) == enc[e].pc # "off" /\ \E g \in Gateways : enc[e].door[g] = "open"
\* A book that starts from nothing is written out at once, before there is a door (the
\* writer has a thread and a runtime of its own): the host's is sealed under the key then.
WriteBook(e) ==
  /\ enc[e].pc \in {"doors", "opening", "putting doors", "serving"}
  /\ enc[e].key # None /\ kept.book # enc[e].key
  /\ kept' = [kept EXCEPT !.book = enc[e].key]
  /\ UNCHANGED <<enc, tmp, tasks, hears, counts, excused>>

-----------------------------------------------------------------------------
(* The doors.                                                              *)

OperatorHeld == [g \in Gateways |-> IF g \in OperatorHolds THEN Operators ELSE None]
OpensUnder(e) == kept.under = enc[e].key
SealedDoors(e, at) == [at |-> at, key |-> enc[e].key]
\* The identities a start lays out, by what the host answers.
DoorsOf(e, answered) ==
  CASE enc[e].key = None -> NoDoors
    [] answered = "nothing" \/ (answered = "kept" /\ kept.under = None) -> OperatorHeld
    [] answered = "kept" /\ OpensUnder(e) -> kept.doors
    [] OTHER -> NoDoors
\* Another start has read the doors and not put them back yet.
DoorsUnderWay == \/ \E t \in tasks : t.what = "doors"
                 \/ \E o \in Enclaves : enc[o].pc \in {"opening", "putting doors"}
LayOut(e) ==
  /\ At(e, "doors")
  /\ \E answered \in {"kept", "nothing", "no answer"} :
       /\ IF answered = "kept" THEN UNCHANGED faults ELSE Fault
       /\ Goes(e, [To(e, "opening") EXCEPT !.dir = DoorsOf(e, answered), !.door = [g \in Gateways |-> "opening"]])
       /\ excused' = excused \cup (IF DoorsUnderWay THEN {"doors"} ELSE {})
                             \cup (IF answered # "kept" /\ enc[e].key # None THEN {"unread"} ELSE {})
  /\ UNCHANGED <<host, starts>>

\* The identity a client finds in its directory, or makes.
Identity(e, g) == IF enc[e].dir[g] = None THEN enc[e].no ELSE enc[e].dir[g]
DoorOpens(e, g) ==
  /\ At(e, "opening") /\ enc[e].door[g] = "opening"
  /\ Goes(e, [enc[e] EXCEPT !.door[g] = "open", !.dir[g] = Identity(e, g)])
  /\ UNCHANGED <<host, counts, excused>>
\* Five minutes of attempts; a client may have made its identity in one of them.
StaysShut(e, g) ==
  /\ At(e, "opening") /\ enc[e].door[g] = "opening" /\ Fault
  /\ \E id \in {enc[e].dir[g], Identity(e, g)} :
       Goes(e, [enc[e] EXCEPT !.door[g] = "shut", !.dir[g] = id])
  /\ UNCHANGED <<host, starts, excused>>

Joined(e) == At(e, "opening") /\ \A g \in Gateways : enc[e].door[g] # "opening"
NoneOpened(e) == Joined(e) /\ ~Serves(e) /\ Leaves(e) /\ UNCHANGED <<counts, excused>>
\* A bug: only the doors that opened are handed over.
ReadDirs_Open(e) == [g \in Gateways |-> IF enc[e].door[g] = "open" THEN enc[e].dir[g] ELSE None]
\* read_dir of every gateway of the image, open or not.
ReadDirs(e) == enc[e].dir
PutDoors(e) ==
  /\ Joined(e) /\ Serves(e) /\ enc[e].key # None
  /\ Goes(e, To(e, "putting doors"))
  /\ Handed("doors", e, SealedDoors(e, ReadDirs(e)))
  /\ UNCHANGED <<kept, tmp, hears, counts, excused>>
NoDoorsToPut(e) ==
  /\ Joined(e) /\ Serves(e) /\ enc[e].key = None
  /\ Goes(e, To(e, "serving"))
  /\ UNCHANGED <<host, counts, excused>>
\* Kept or not, it serves on.
DoorsPut(e) ==
  /\ At(e, "putting doors") /\ enc[e].answer # "none"
  /\ Goes(e, [To(e, "serving") EXCEPT !.answer = "none"])
  /\ UNCHANGED <<host, counts, excused>>
DoorsUnheard(e) ==
  /\ At(e, "putting doors") /\ Fault
  /\ Goes(e, [To(e, "serving") EXCEPT !.answer = "none"])
  /\ UNCHANGED <<host, starts, excused>>

-----------------------------------------------------------------------------
(* The pulse.                                                              *)

\* Every thread of the runtime is in something that does not return.
Wedge(e) ==
  /\ enc[e].pc # "off" /\ ~enc[e].wedged /\ Fault
  /\ Goes(e, [enc[e] EXCEPT !.wedged = TRUE])
  /\ UNCHANGED <<host, starts, excused>>
\* ... or returns after all, and the runtime is seen again.
Recovers(e) ==
  /\ enc[e].wedged
  /\ Goes(e, [enc[e] EXCEPT !.wedged = FALSE, !.silent = 0])
  /\ UNCHANGED <<host, counts, excused>>
\* A bug: the pulse is told and nothing is done.
Pulse_Reports(e) == enc[e].wedged /\ hears /\ UNCHANGED vars
\* What every thread is doing is told, and the process ends.
Reported == Off
\* The thread outside the runtime, each minute.
Pulse(e) ==
  /\ enc[e].wedged /\ hears
  /\ Goes(e, IF enc[e].silent + 1 >= SilentFor THEN Reported ELSE [enc[e] EXCEPT !.silent = @ + 1])
  /\ UNCHANGED <<host, counts, excused>>

-----------------------------------------------------------------------------
Init ==
  /\ enc = [e \in Enclaves |-> Off]
  /\ kept = [key |-> None, book |-> None, doors |-> NoDoors, under |-> None]
  /\ tmp = [key |-> {}, doors |-> {}] /\ tasks = {} /\ hears = TRUE
  /\ starts = 0 /\ faults = 0 /\ excused = {}

\* What the program does unasked.
Proceeds(e) ==
  \/ Unsealed(e) \/ OpensKept(e) \/ Born(e) \/ OwnKept(e) \/ OwnRefused(e)
  \/ BookOpened(e) \/ BookRefused(e) \/ LayOut(e)
  \/ \E g \in Gateways : DoorOpens(e, g)
  \/ NoneOpened(e) \/ PutDoors(e) \/ NoDoorsToPut(e) \/ DoorsPut(e)
GoesWrong(e) ==
  \/ Stop(e) \/ NoSecrets(e) \/ NoKey(e) \/ OwnUnheard(e) \/ Unreached(e) \/ DoorsUnheard(e)
  \/ \E g \in Gateways : StaysShut(e, g)
  \/ Wedge(e)

Next ==
  \/ \E e \in Enclaves :
       \/ \E probe \in BOOLEAN : Boot(e, probe)
       \/ Proceeds(e) \/ GoesWrong(e) \/ WriteBook(e) \/ Recovers(e) \/ Pulse(e)
  \/ \E t \in tasks : HostTask(t) \/ PutFails(t)
  \/ HostStop \/ HostHangs \/ HostHears

\* Every call of the start ends in its own deadline, the host's tasks run to their end, and
\* the host takes announcements again.
Fairness ==
  /\ \A e \in Enclaves : WF_vars(Proceeds(e)) /\ WF_vars(Pulse(e))
  /\ WF_vars(\E t \in tasks : HostTask(t)) /\ WF_vars(HostHears)
Spec == Init /\ [][Next]_vars
FairSpec == Spec /\ Fairness

-----------------------------------------------------------------------------
Keyed(e) == enc[e].key # None

TypeOK ==
  /\ \A e \in Enclaves : enc[e].key \in 0..MaxStarts /\ enc[e].silent \in 0..SilentFor
  /\ kept.key \in 0..MaxStarts /\ kept.book \in 0..MaxStarts /\ kept.under \in 0..MaxStarts
  /\ kept.doors \in [Gateways -> 0..Operators] /\ hears \in BOOLEAN

\* Every start that has a data key has the one the host keeps, and the book is sealed under
\* it: whichever start made the key, heard of it or not, with calls given up and carried
\* out late.  Two puts that both find no key are excused: the host's check and its rename
\* are two steps (own_data_key, put_once).
OneKey ==
  \/ "key" \in excused
  \/ /\ \A e \in Enclaves : Keyed(e) => enc[e].key = kept.key
     /\ kept.book \in {None, kept.key}

\* What the host keeps is not replaced by another key (put_once: "written once and never
\* replaced").  The code breaks it: see OneKey.
KeyNeverReplaced == [][kept.key # None => kept'.key = kept.key]_vars

\* An address the host keeps stays, over doors that stay shut and starts that stop halfway:
\* the next start has it again.  Excused are two starts with their doors under way at once,
\* a host that did not answer about the doors or could not read them, and two data keys.
AddressesStay ==
  [][excused' = {} => \A g \in Gateways : kept.doors[g] # None => kept'.doors[g] = kept.doors[g]]_vars

\* An enclave comes to serve or stops, and one whose runtime is wedged is gone in the end
\* unless it comes back (heartbeat, the module stuck).
Settled(e) == (enc[e].pc \in {"off", "serving"}) /\ ~enc[e].wedged
StartsOrStops == \A e \in Enclaves : ~Settled(e) ~> Settled(e)
=============================================================================
