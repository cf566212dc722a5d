--------------------------------- MODULE Reach ---------------------------------
(***************************************************************************)
(* The app's way in (client/src/app.rs, mix.rs, gateways.rs): which door   *)
(* it aims at, which gateway it enters the mixnet through, when a door is  *)
(* given up, and what a call does when nothing comes back.  What a request *)
(* does in the enclave is in Calls, how it is carried in Frames.           *)
(***************************************************************************)
EXTENDS Doors

CONSTANTS
  DOORS_TRIED,
  Listed,      \* OPERATOR_GATEWAYS, of the gateways below
  Others       \* entry gateways that are no door's

ASSUME ReachAssumption ==
  /\ DOORS_TRIED \in Nat \ {0}
  /\ Listed \subseteq Doors \cup Others /\ Doors \cap Others = {}

VARIABLES
  app,      \* MixConnector and Connection
  call,     \* the call under way
  ours,     \* the gateways the operator runs, what the family says, and which have become
            \* his since the directory was read for the connection being made
  life      \* the enclave's life: its keys

appVars == <<app, call, ours, life>>
vars == <<gate, door, faults, app, call, ours, life>>

NoDoor == 0
AnyEntry == 0
\* A door's gateway is named like the door.
Gateways == Doors \cup Others
\* What the person or the operator changes counts with what goes wrong.
Edit == Fault

\* What a new connection starts from; the first call builds it.
NoAim == [door |-> NoDoor, entry |-> AnyEntry]
Connected == [built |-> FALSE, last |-> NoDoor, silent |-> <<>>, aim |-> NoAim, transport |-> NoDoor,
              up |-> TRUE, entry |-> AnyEntry, session |-> 0, away |-> "no"]
Idle == [pc |-> "idle", what |-> "call", tries |-> 0, sends |-> 0, attempt |-> 0]
Begun(what, attempt) == [Idle EXCEPT !.pc = "ready", !.what = what, !.attempt = attempt]
Ends == call' = Idle

-----------------------------------------------------------------------------
(* Rule A1.                                                                *)

\* A bug: the list in the app is not looked at.
Allowed_Family(g, d) == g \notin ours.family /\ g # d
Allowed(g, d) == g \notin ours.family /\ g \notin Listed /\ g # d
\* parse_family refuses one that came back empty: it was not found.
FamilyKnown == ours.family # {}
\* The gateways to try; none without the family or an allowed choice.
Entries(d) ==
  IF ~FamilyKnown THEN {}
  ELSE IF app.choice = AnyEntry THEN {g \in Gateways : Allowed(g, d)}
  ELSE {g \in {app.choice} : Allowed(g, d)}

-----------------------------------------------------------------------------
(* MixConnector.                                                           *)

IsSilent(d) == d \in ToSet(app.silent)
Firsts == SelectSeq(<<app.chosen, app.last>>, LAMBDA d : d # NoDoor /\ ~IsSilent(d))
Rest == SelectSeq([d \in Doors |-> d], LAMBDA d : ~IsSilent(d) /\ d \notin ToSet(Firsts))
\* order; a door listed twice is tried the first time only.
Order == Firsts \o Rest \o app.silent
\* connect_doors: the first door of the order that can be aimed at; a door is only an
\* address, so it is the entry that opens or not.
Opening == SelectSeq(Order, LAMBDA d : Entries(d) # {})
\* A bug: the door is forgotten and not set aside.
LedNowhere_Forgets == [app EXCEPT !.transport = NoDoor, !.last = NoDoor]
\* led_nowhere
LedNowhere ==
  [app EXCEPT !.transport = NoDoor, !.last = NoDoor,
              !.silent = IF app.last = NoDoor \/ IsSilent(app.last) THEN @ ELSE Append(@, app.last)]
Has == app.transport # NoDoor
Aimed == app.aim # NoAim
\* The directory and the family are read, and an entry drawn from them, ...
Aims ==
  /\ ~Has /\ ~Aimed /\ Opening # <<>>
  /\ \E entry \in Entries(Head(Opening)) : app' = [app EXCEPT !.aim = [door |-> Head(Opening), entry |-> entry]]
  /\ UNCHANGED ours
\* ... and what was drawn is connected to, whatever has become of it since.
ConnectDoors ==
  /\ ~Has /\ Aimed
  /\ app' = [app EXCEPT !.aim = NoAim, !.transport = app.aim.door, !.up = TRUE,
                        !.last = app.aim.door, !.entry = app.aim.entry]
  /\ ours' = [ours EXCEPT !.late = {}]
CannotConnect == ~Has /\ ~Aimed /\ Opening = <<>>
Carries == app.up /\ Works(app.transport)

-----------------------------------------------------------------------------
(* Connection.                                                             *)

Begin(what) ==
  /\ call.pc = "idle"
  /\ call' = Begun(what, 0)
  /\ app' = [app EXCEPT !.built = TRUE]
  /\ UNCHANGED <<ours, life, faults>>
\* The interface, as long as it shows that there is no route.
EnsureReady == Begin("ready")
\* chat: the wait for an answer is stopped wherever it is; what is connected stays, what is
\* still connecting does not.
Cancels ==
  /\ call.what = "call" /\ call.pc # "idle" /\ Edit
  /\ Ends
  /\ app' = [app EXCEPT !.aim = NoAim]
  /\ ours' = [ours EXCEPT !.late = {}]
  /\ UNCHANGED life

Ready == call.pc = "ready" /\ call.tries < DOORS_TRIED
ReadyConnects == Ready /\ (Aims \/ ConnectDoors) /\ UNCHANGED <<call, life, faults>>
ReadyHas ==
  /\ Ready /\ Has /\ app.session # 0
  /\ call' = IF call.what = "ready" THEN Idle ELSE [call EXCEPT !.pc = call.what]
  /\ UNCHANGED <<app, ours, life, faults>>
Attests ==
  /\ Ready /\ Has /\ app.session = 0 /\ Carries
  /\ app' = [app EXCEPT !.session = life]
  /\ UNCHANGED <<call, ours, life, faults>>
\* Nothing came back through this door.
Silent ==
  /\ Ready /\ Has /\ app.session = 0 /\ ~Carries
  /\ app' = LedNowhere
  /\ call' = [call EXCEPT !.tries = @ + 1]
  /\ UNCHANGED <<ours, life, faults>>
GivesUp ==
  /\ \/ call.pc = "ready" /\ (call.tries = DOORS_TRIED \/ CannotConnect)
     \/ call.pc = "call" /\ (call.sends = 3 \/ CannotConnect)
     \/ call.pc = "aside" /\ (Opening # <<>> => ~Works(Head(Opening)))
  /\ Ends
  /\ UNCHANGED <<app, ours, life, faults>>

\* An answer, or that the enclave is another by now: then it is attested, once.
Answered ==
  LET known == app.session = life IN
  /\ app' = IF known \/ (call.what = "aside" /\ call.attempt = 1) THEN app ELSE [app EXCEPT !.session = 0]
  /\ call' = IF known \/ call.attempt = 1 THEN Idle ELSE Begun(call.what, 1)
  /\ UNCHANGED <<ours, life, faults>>
Sends == call.pc = "call" /\ call.sends < 3
SendConnects == Sends /\ (Aims \/ ConnectDoors) /\ UNCHANGED <<call, life, faults>>
Reply == Sends /\ Has /\ Carries /\ Answered
\* The same bytes again; after the second silence the connection is the suspect.
NoReply ==
  /\ Sends /\ Has /\ ~Carries
  /\ app' = IF call.sends = 1 THEN [app EXCEPT !.transport = NoDoor] ELSE app
  /\ call' = [call EXCEPT !.sends = @ + 1]
  /\ UNCHANGED <<ours, life, faults>>
\* call_aside: one exchange over a transport of its own, which nothing remembers.
AsideReply == call.pc = "aside" /\ Opening # <<>> /\ Works(Head(Opening)) /\ Answered

-----------------------------------------------------------------------------
(* Between the calls.                                                      *)

Between == call.pc = "idle"
Paused(long) == [app EXCEPT !.away = IF long THEN "long" ELSE "short"]
Dropped == [app EXCEPT !.transport = NoDoor]
\* After a while what was connected is not trusted to be alive.
Returned == [IF app.away = "long" THEN Dropped ELSE app EXCEPT !.away = "no"]
Hidden(long) ==
  /\ Between /\ app.built /\ Edit
  /\ app' = Paused(long)
  /\ UNCHANGED <<call, ours, life>>
\* app_resumed: the transport is replaced at once, if there is none now.
Resumed(force) ==
  /\ Between /\ app.built /\ (app.away # "no" \/ force) /\ Edit
  /\ app' = IF force THEN Dropped ELSE Returned
  /\ call' = IF app'.transport = NoDoor THEN Begun("ready", 0) ELSE call
  /\ UNCHANGED <<ours, life>>
\* The entry gateway is gone, or the device slept: what was connected is dead.
TransportDies ==
  /\ Has /\ app.up /\ Edit
  /\ app' = [app EXCEPT !.up = FALSE]
  /\ UNCHANGED <<call, ours, life>>
\* reset_connection: the next call makes a new one, of what the profile says.
Reset(chosen, choice, directory) ==
  /\ app' = [chosen |-> chosen, choice |-> choice, directory |-> directory] @@ Connected
  /\ UNCHANGED <<call, ours, life>>
ChoosesDoor(d) == Between /\ Edit /\ Reset(d, app.choice, app.directory)
\* The directory is read once and kept.
Directory == IF app.directory = {} THEN ours.family ELSE app.directory
\* Checked against the first door and the directory that was kept: a gateway that has
\* joined the family since is taken here, and refused when it is connected to.
ChoosesEntry(entry) ==
  /\ Between /\ Edit
  /\ \/ entry = AnyEntry /\ Reset(app.chosen, AnyEntry, app.directory)
     \/ /\ entry \notin {AnyEntry, 1} \cup Listed \cup Directory /\ Directory # {}
        /\ Reset(app.chosen, entry, Directory)
\* Random off: whatever gateway the connection uses.
KeepsEntry == ChoosesEntry(app.entry)
\* set_mixnet_perf: other traffic, on a new connection.
ChoosesTraffic == Between /\ Edit /\ Reset(app.chosen, app.choice, app.directory)
\* The operator runs another gateway and says so in the family, or loses one of it; a
\* gateway of his the app does not list stays in the family.
OperatorAdds(g) ==
  /\ g \notin ours.run /\ Edit
  /\ ours' = [run |-> ours.run \cup {g}, family |-> ours.family \cup {g},
              late |-> IF Aimed THEN ours.late \cup {g} ELSE {}]
  /\ UNCHANGED <<app, call, life>>
FamilyLoses(g) ==
  /\ g \in ours.family \cap Listed /\ Edit
  /\ ours' = [ours EXCEPT !.family = @ \ {g}]
  /\ UNCHANGED <<app, call, life>>
EnclaveRestarts ==
  /\ Edit /\ life' = life + 1
  /\ UNCHANGED <<app, call, ours>>

-----------------------------------------------------------------------------
Init ==
  /\ DoorInit
  /\ app = [chosen |-> NoDoor, choice |-> AnyEntry, directory |-> {}] @@ Connected
  /\ call = Idle /\ life = 1
  /\ ours = [run |-> Doors, family |-> Doors, late |-> {}]

Calling ==
  \/ ReadyConnects \/ ReadyHas \/ Attests \/ Silent \/ GivesUp
  \/ SendConnects \/ Reply \/ NoReply \/ AsideReply
Person ==
  \/ \E what \in {"call", "aside"} : Begin(what)
  \/ EnsureReady \/ Cancels \/ KeepsEntry
  \/ \E yes \in BOOLEAN : Hidden(yes) \/ Resumed(yes)
  \/ TransportDies \/ ChoosesTraffic
  \/ \E d \in Doors \cup {NoDoor} : ChoosesDoor(d)
  \/ \E entry \in Gateways \cup {AnyEntry} : ChoosesEntry(entry)
Operator == \/ \E g \in Gateways : OperatorAdds(g) \/ FamilyLoses(g)
            \/ EnclaveRestarts
Next ==
  \/ DoorNext /\ UNCHANGED appVars
  \/ (Calling \/ Person \/ Operator) /\ UNCHANGED <<gate, door>>

\* A call goes on to its end, and the interface asks again: its heartbeat.
Fairness == DoorFairness /\ WF_appVars(Calling) /\ WF_appVars(Begin("call"))
Spec == Init /\ [][Next]_vars
FairSpec == Spec /\ Fairness

-----------------------------------------------------------------------------
\* Whoever runs the enclave's side never carries the app's entry too: no transport is made
\* through a gateway of the operator, whatever is chosen, whatever joins or leaves the
\* family meanwhile (rule A1) - unless it became his after this connection's directory was
\* read, while the gateway was connected to.
NeverBothEnds ==
  [][app'.transport # NoDoor /\ app'.transport # app.transport =>
       app'.entry \notin (ours.run \ ours.late) \cup {app'.transport}]_vars
\* ... and not even then: what the code leaves open.
NotEvenMeanwhile ==
  [][app'.transport # NoDoor /\ app'.transport # app.transport => app'.entry \notin ours.run]_vars
\* Through a door that works all along and was never set aside the app comes to the
\* enclave's proof, whatever was chosen and whichever others are gone, as long as an entry
\* to it is allowed.
DoorFound ==
  \A d \in Doors : [](Works(d) /\ ~IsSilent(d) /\ Entries(d) # {}) => []<>(app.session # 0)
\* ... and with the proof its calls reach a door that works ("so that a gateway going down
\* does not take tokumai with it").
Served == \A d \in Doors : [](Works(d) /\ ~IsSilent(d) /\ Entries(d) # {}) => []<>(Has /\ Carries)
\* A door that is back is tried again ("because a gateway that came back should not be shut
\* out for good").
NotShutOut == \A d \in Doors : <>[](Works(d) /\ Entries(d) # {}) => []<>(app.session # 0)
================================================================================
