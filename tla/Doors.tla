--------------------------------- MODULE Doors ---------------------------------
(***************************************************************************)
(* The enclave's doors (server/src/mix.rs): one mixnet identity at each of *)
(* several gateways, each served by a loop of its own, with a watchdog     *)
(* that posts to the door's own address and rebuilds a door that hears     *)
(* nothing.  A step of the watchdog's clock is one PING_EVERY; the mixnet  *)
(* carries a packet within one.                                            *)
(*                                                                         *)
(* Reach adds the app that comes in through them.                          *)
(***************************************************************************)
EXTENDS Integers, Sequences, SequencesExt, FiniteSets, TLC

CONSTANTS
  NDoors,     \* how many doors, numbered as the app lists them
  DeafAfter,  \* DEAF_AFTER_MS, in PING_EVERY
  MaxFaults   \* bound: gateways that go, streams that hang or end (and in Reach what is changed)

ASSUME DoorsAssumption == {NDoors, DeafAfter} \subseteq Nat \ {0} /\ MaxFaults \in Nat

Doors == 1..NDoors

VARIABLES
  gate,    \* each door's gateway is up
  door,    \* each door's loop and client
  faults   \* count under the bound

doorVars == <<gate, door, faults>>

\* A door that has just come onto the mixnet.
Fresh == [pc |-> "serving", live |-> TRUE, quiet |-> 0, bell |-> FALSE,
          echo |-> FALSE, attempt |-> 0, broken |-> FALSE, waited |-> FALSE]
Works(d) == gate[d] /\ door[d].live /\ door[d].pc = "serving"
Becomes(d, s) == door' = [door EXCEPT ![d] = s]
Fault == faults < MaxFaults /\ faults' = faults + 1

-----------------------------------------------------------------------------
(* What happens to a door.                                                 *)

\* The gateway goes: whoever was connected to it hears nothing, and is not told.
GatewayGoes(d) ==
  /\ gate[d] /\ Fault
  /\ gate' = [gate EXCEPT ![d] = FALSE]
  /\ Becomes(d, [door[d] EXCEPT !.live = FALSE, !.echo = FALSE])
GatewayBack(d) ==
  /\ ~gate[d]
  /\ gate' = [gate EXCEPT ![d] = TRUE]
  /\ UNCHANGED <<door, faults>>
\* The connection is gone and nothing ends, which may leave the reply store broken.
Hangs(d, broken) ==
  /\ Works(d) /\ Fault
  /\ Becomes(d, [door[d] EXCEPT !.live = FALSE, !.echo = FALSE, !.broken = broken])
  /\ UNCHANGED gate
\* The stream ends, which the loop is told.
StreamEnds(d) ==
  /\ door[d].pc = "serving" /\ Fault
  /\ Becomes(d, [door[d] EXCEPT !.pc = "connecting", !.live = FALSE, !.echo = FALSE, !.attempt = 0])
  /\ UNCHANGED gate

-----------------------------------------------------------------------------
(* serve.                                                                  *)

\* The watchdog: a packet to ourselves, and the bell when nothing was heard for too long.
\* The bell keeps one ring nobody waited for.  A connection through a gateway that is up
\* takes seconds, so at most one beat falls into it.
Beat(d) ==
  LET quiet == IF door[d].quiet > DeafAfter THEN door[d].quiet ELSE door[d].quiet + 1
  IN /\ ~door[d].echo
     /\ door[d].pc = "connecting" /\ gate[d] => ~door[d].waited
     /\ Becomes(d, [door[d] EXCEPT !.quiet = quiet, !.echo = Works(d),
                      !.bell = @ \/ quiet > DeafAfter,
                      !.waited = door[d].pc = "connecting" /\ gate[d]])
     /\ UNCHANGED <<gate, faults>>
\* Anything arrives, the packet to ourselves for one.
Hears(d) ==
  /\ Works(d) /\ door[d].quiet > 0
  /\ Becomes(d, [door[d] EXCEPT !.quiet = 0, !.echo = FALSE])
  /\ UNCHANGED <<gate, faults>>
Deaf(d) ==
  /\ door[d].pc = "serving" /\ door[d].bell
  /\ Becomes(d, [door[d] EXCEPT !.pc = "connecting", !.bell = FALSE, !.live = FALSE,
                                !.echo = FALSE, !.attempt = 0])
  /\ UNCHANGED <<gate, faults>>

\* A bug: the door is not taken to have heard something when it is back.
Back_Unheard(d) == [Fresh EXCEPT !.quiet = door[d].quiet, !.bell = door[d].bell]
\* What was rung while nobody waited is still to be answered.
Back(d) == [Fresh EXCEPT !.bell = door[d].bell]
\* reconnect: from the second attempt on the reply store is wiped.
Reconnect(d) ==
  LET attempt == IF door[d].attempt = 2 THEN 2 ELSE door[d].attempt + 1
      broken == door[d].broken /\ attempt < 2
  IN /\ door[d].pc = "connecting"
     /\ IF gate[d] /\ ~broken THEN Becomes(d, Back(d))
        ELSE Becomes(d, [door[d] EXCEPT !.attempt = attempt, !.broken = broken])
     /\ UNCHANGED <<gate, faults>>

DoorInit == gate = [d \in Doors |-> TRUE] /\ door = [d \in Doors |-> Fresh] /\ faults = 0
DoorNext ==
  \E d \in Doors :
    \/ GatewayGoes(d) \/ GatewayBack(d) \/ StreamEnds(d)
    \/ \E broken \in BOOLEAN : Hangs(d, broken)
    \/ Beat(d) \/ Hears(d) \/ Deaf(d) \/ Reconnect(d)
\* The tasks of every door run, and the mixnet carries what is posted.
DoorFairness ==
  \A d \in Doors :
    WF_doorVars(Beat(d)) /\ WF_doorVars(Hears(d)) /\ WF_doorVars(Deaf(d)) /\ WF_doorVars(Reconnect(d))

-----------------------------------------------------------------------------
\* Whatever hung or ended, a door whose gateway stays up works in the end and is left
\* alone from then on.
DoorsSettle == \A d \in Doors : <>[]gate[d] => <>[]Works(d)
\* A door is torn down only for its own silence ("A fresh door has heard nothing yet, and
\* must not be torn down for it").
TornDownForSilence ==
  [][\A d \in Doors : door[d].bell /\ ~door'[d].bell => door[d].quiet > DeafAfter]_doorVars
================================================================================
