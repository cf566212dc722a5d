----------------------------- MODULE DurableBook -----------------------------
(***************************************************************************)
(* What the enclave's account book promises, without the journal, the     *)
(* snapshots, the writer and the host that keep the promise                *)
(* (crates/enclave/src/state.rs, crates/enclave/src/ledger.rs): the disk   *)
(* holds a beginning of the line of changes, it never goes back, a change  *)
(* is confirmed only once it is on the disk, and a start goes on from the  *)
(* disk - from all of it and from nothing else.                            *)
(***************************************************************************)
EXTENDS Integers, Sequences

CONSTANTS Changes,  \* names of changes
          MaxBatch  \* changes written down together

VARIABLES
  running,  \* the enclave is up
  line,     \* the changes of this run of the enclave, those it began with first
  disk,     \* what a start would find
  sure,     \* the changes that were confirmed
  broken    \* something has happened that the promise does not cover

durableVars == <<running, line, disk, sure, broken>>

Holds(s, c) == \E i \in 1..Len(s) : s[i] = c
Batches == UNION {[1..k -> Changes] : k \in 1..MaxBatch}

DurableInit ==
  /\ running = FALSE
  /\ line = <<>>
  /\ disk = <<>>
  /\ sure = {}
  /\ broken = FALSE

Begin ==
  /\ ~running
  /\ running' = TRUE
  /\ line' = disk
  /\ sure' = sure \cup {disk[i] : i \in 1..Len(disk)}
  /\ UNCHANGED <<disk, broken>>

Write ==
  /\ running
  /\ \E new \in Batches :
       /\ \A i \in 1..Len(new) : ~Holds(line, new[i])
       /\ line' = line \o new
  /\ UNCHANGED <<running, disk, sure, broken>>

Keep ==
  /\ \E n \in Len(disk)..Len(line) : disk' = SubSeq(line, 1, n)
  /\ UNCHANGED <<running, line, sure, broken>>

Confirm ==
  /\ running
  /\ sure \subseteq sure'
  /\ \A c \in sure' \ sure : Holds(disk, c)
  /\ UNCHANGED <<running, line, disk, broken>>

Stop ==
  /\ running
  /\ running' = FALSE
  /\ UNCHANGED <<line, disk, sure, broken>>

\* From here on nothing is promised.
Break == broken'

DurableNext == Begin \/ Write \/ Keep \/ Confirm \/ Stop \/ Break

DurableSpec == DurableInit /\ [][DurableNext]_durableVars
==============================================================================
