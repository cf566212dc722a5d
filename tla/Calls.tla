-------------------------------- MODULE Calls --------------------------------
(***************************************************************************)
(* One call of an app, from the signature to the answer: the app's         *)
(* Connection (crates/client/src/app.rs) with its session                  *)
(* (proto/src/session.rs), and the enclave's handling of a sealed request  *)
(* (enclave/src/service.rs).                                               *)
(*                                                                         *)
(* A request is named by the app and the number of its signature; an       *)
(* exchange carries it once, and a lost exchange is followed by another    *)
(* with the same bytes.  Between them lies the transport of Frames: what   *)
(* was sent may arrive at any later time, more than once or never, and an  *)
(* answer reaches only the exchange that waits for it.                     *)
(*                                                                         *)
(* How much a question costs is Ledger's concern, what a purchase grants   *)
(* is Plans'; here either is carried out or not, and on the host's disk or *)
(* not yet.                                                                *)
(***************************************************************************)
EXTENDS Integers, Sequences, FiniteSets

CONSTANTS
  Apps,           \* devices, all of one account
  Kinds,          \* what they ask: "question", or "purchase" for all that grants credit
  Ahead,          \* how far each device's clock is ahead, in ticks
  ClockSkew,      \* CLOCK_SKEW_MS, in ticks
  NonceKeep,      \* NONCE_KEEP_MS
  ReplyKeep,      \* REPLY_KEEP
  ReplyMax,       \* REPLY_KEEP_MAX, or what REPLY_KEEP_BYTES leave room for
  StrikesPerDay,  \* STRIKES_PER_DAY
  Tries,          \* exchanges of a request of each kind: 3 (send), 1 for a call_aside
  MaxSigned,      \* bound: requests a device signs
  MaxStops,       \* bound: stops of the enclave
  MaxTime         \* bound: the clock

Attempts == 2     \* signatures per call

ASSUME CallsAssumption ==
  /\ Kinds \subseteq {"question", "purchase"}
  /\ Ahead \in [Apps -> Int] /\ Tries \in [Kinds -> Nat \ {0}]
  /\ {ClockSkew, ReplyKeep, MaxStops, MaxTime} \subseteq Nat
  /\ {ReplyMax, StrikesPerDay, MaxSigned} \subseteq Nat \ {0}
  /\ NonceKeep \in Nat /\ NonceKeep >= 2 * ClockSkew

VARIABLES
  now,
  app,        \* each device's connection and the call it makes
  signed,     \* the requests it has signed, sealed to the enclave of one start
  sent,       \* exchanges on their way to the enclave, for ever
  answers,    \* answers on their way back to an exchange that waits
  enclave,    \* up, which start it is, and what it holds in memory only
  work,       \* requests being worked on
  pending,    \* changes of the book the host has not confirmed
  disk,       \* changes on the host's disk
  stops,
  times,      \* history: how often each request was carried out
  sealed,     \* history: what was sealed for each request
  told,       \* history: what a call ended with
  most        \* history: the most questions worked on at one time in this start

vars == <<now, app, signed, sent, answers, enclave, work, pending, disk, stops, times, sealed, told, most>>
history == <<times, sealed, told, most>>
book == <<pending, disk>>

Requests == [app : Apps, n : 1..MaxSigned]
Signed(r) == signed[r.app][r.n]

-----------------------------------------------------------------------------
(* The enclave.                                                            *)

Sees(m) == enclave.up /\ m \in sent /\ ~\E w \in work : w.m = m
Cached(r) == {i \in DOMAIN enclave.replies : enclave.replies[i].req = r}
Stale(r) == LET off == Signed(r).ts - now IN off > ClockSkew \/ -off > ClockSkew
\* first_sight drops what is too old and then looks.
Remembered == {s \in enclave.sighted : s.at >= now - NonceKeep}
\* A bug: only a kept answer is looked for.
Known_Answered(r) == Cached(r) # {}
Known(r) == \E s \in Remembered : s.req = r

Waiting(m) == app[m.req.app].pc = "waits" /\ app[m.req.app].m = m
\* An answer nobody waits for is not kept on the way.
Answer(m, out) == answers' = IF Waiting(m) THEN answers \cup {[m |-> m, out |-> out]} ELSE answers
Seal(r, out) == sealed' = sealed \cup {[req |-> r, out |-> out]}

\* remember: what is old goes, which came first, then the oldest until there is room.
Remember(rs, r, out) ==
  LET old == Cardinality({i \in DOMAIN rs : now - rs[i].at >= ReplyKeep})
      fresh == SubSeq(rs, old + 1, Len(rs))
      room == IF Len(fresh) < ReplyMax THEN fresh ELSE Tail(fresh)
  IN Append(room, [req |-> r, out |-> out, at |-> now])
\* Sealed, kept for a resend and sent.  A picture of 16 MB or more is not kept.
Reply(m, out, big, e) ==
  /\ Seal(m.req, out)
  /\ enclave' = IF big THEN e ELSE [e EXCEPT !.replies = Remember(@, m.req, out)]
  /\ Answer(m, out)

ReplyAgain(m) ==
  /\ Sees(m)
  /\ \E i \in Cached(m.req) : Answer(m, enclave.replies[i].out)
  /\ UNCHANGED <<now, app, signed, sent, enclave, work, book, stops, history>>

\* Sealed to the keys of another start.
AttestAgain(m) ==
  /\ Sees(m) /\ Cached(m.req) = {} /\ Signed(m.req).life # enclave.life
  /\ Answer(m, "attest again")
  /\ UNCHANGED <<now, app, signed, sent, enclave, work, book, stops, history>>

Opens(m) == Sees(m) /\ Cached(m.req) = {} /\ Signed(m.req).life = enclave.life

\* Sealed, and not kept.
ClockTooFar(m) ==
  /\ Opens(m) /\ Stale(m.req)
  /\ Answer(m, "clock") /\ Seal(m.req, "clock")
  /\ UNCHANGED <<now, app, signed, sent, enclave, work, book, stops, times, told, most>>

\* A bug: the refusal is sealed like an answer (as it was until 2026-10-06).
AlreadyMade_Sealed(m) ==
  /\ Opens(m) /\ ~Stale(m.req) /\ Known(m.req)
  /\ enclave' = [enclave EXCEPT !.sighted = Remembered]
  /\ Answer(m, "already made") /\ Seal(m.req, "already made")
  /\ UNCHANGED <<now, app, signed, sent, work, book, stops, times, told, most>>
\* first_sight says no: carried out, or being carried out.
AlreadyMade(m) ==
  /\ Opens(m) /\ ~Stale(m.req) /\ Known(m.req)
  /\ enclave' = [enclave EXCEPT !.sighted = Remembered]
  /\ Answer(m, "already made")
  /\ UNCHANGED <<now, app, signed, sent, work, book, stops, history>>

FirstSight(m) ==
  /\ Opens(m) /\ ~Stale(m.req) /\ ~Known(m.req)
Sighted(r) == [enclave EXCEPT !.sighted = Remembered \cup {[req |-> r, at |-> now]}]

Asked == {w \in work : w.stage = "asked"}

\* A bug: the count of declines is not looked at.
StrikesLeft_Any == TRUE
StrikesLeft == enclave.strikes < StrikesPerDay

\* chat: the strikes are looked at, the balance read, the hold taken and the provider asked.
Question(m) ==
  LET n == Cardinality(Asked) + 1
  IN /\ FirstSight(m) /\ Signed(m.req).kind = "question" /\ StrikesLeft
     /\ enclave' = Sighted(m.req)
     /\ work' = work \cup {[m |-> m, stage |-> "asked", mark |-> 0]}
     /\ most' = IF n > most THEN n ELSE most
     /\ UNCHANGED <<now, app, signed, sent, answers, book, stops, times, sealed, told>>
\* Too many declines today, or not enough credit.
NotAsked(m) ==
  /\ FirstSight(m) /\ Signed(m.req).kind = "question"
  /\ Reply(m, "refused", FALSE, Sighted(m.req))
  /\ UNCHANGED <<now, app, signed, sent, work, book, stops, times, told, most>>

CarryOut(r) == times' = [times EXCEPT ![r] = @ + 1]

\* The provider has answered: settle, seal, remember.  No answer waits for the settle to
\* reach the disk, so it is not followed there.
Answered(w, big) ==
  /\ w \in work /\ w.stage = "asked"
  /\ work' = work \ {w}
  /\ CarryOut(w.m.req)
  /\ Reply(w.m, "done", big, enclave)
  /\ UNCHANGED <<now, app, signed, sent, book, stops, told, most>>
\* No answer, which costs nothing.
NotAnswered(w) ==
  /\ w \in work /\ w.stage = "asked"
  /\ work' = work \ {w}
  /\ Reply(w.m, "refused", FALSE, enclave)
  /\ UNCHANGED <<now, app, signed, sent, book, stops, times, told, most>>
\* strike: one more decline of the day.
Strike == [enclave EXCEPT !.strikes = @ + 1]
\* Declined: by the safety check or as an error, for nothing, or by an answer that says so,
\* which is charged.  It is counted against the day.
Declined(w, charged) ==
  /\ w \in work /\ w.stage = "asked"
  /\ work' = work \ {w}
  /\ IF charged THEN CarryOut(w.m.req) ELSE UNCHANGED times
  /\ Reply(w.m, IF charged THEN "done" ELSE "refused", FALSE, Strike)
  /\ UNCHANGED <<now, app, signed, sent, book, stops, told, most>>

\* A purchase, a note or a plan changes the book and waits for the host (durably).
Purchase(m) ==
  /\ FirstSight(m) /\ Signed(m.req).kind # "question"
  /\ enclave' = Sighted(m.req)
  /\ CarryOut(m.req)
  /\ pending' = Append(pending, m.req)
  /\ work' = work \cup {[m |-> m, stage |-> "waits", mark |-> Len(pending) + 1]}
  /\ UNCHANGED <<now, app, signed, sent, answers, disk, stops, sealed, told, most>>
\* A bug: it is answered at once.
Confirmed_Any(w) == w.stage = "waits"
Confirmed(w) == w.stage = "waits" /\ w.mark = 0
HostConfirmed(w) ==
  /\ w \in work /\ Confirmed(w)
  /\ work' = work \ {w}
  /\ Reply(w.m, "done", FALSE, enclave)
  /\ UNCHANGED <<now, app, signed, sent, book, stops, times, told, most>>
\* A bug: the device is told it was refused.
HostTooSlow_Refused(w) ==
  /\ w \in work /\ w.stage = "waits" /\ w.mark > 0
  /\ work' = work \ {w}
  /\ Reply(w.m, "refused", FALSE, enclave)
  /\ UNCHANGED <<now, app, signed, sent, book, stops, times, told, most>>
HostTooSlow(w) ==
  /\ w \in work /\ w.stage = "waits" /\ w.mark > 0
  /\ work' = work \ {w}
  /\ Reply(w.m, "try again", FALSE, enclave)
  /\ UNCHANGED <<now, app, signed, sent, book, stops, times, told, most>>

\* The writer's next record is confirmed: every mark is one nearer.
Flush ==
  /\ enclave.up /\ pending # <<>>
  /\ disk' = disk \cup {Head(pending)}
  /\ pending' = Tail(pending)
  /\ work' = {IF w.mark > 0 THEN [w EXCEPT !.mark = @ - 1] ELSE w : w \in work}
  /\ UNCHANGED <<now, app, signed, sent, answers, enclave, stops, history>>

Stop ==
  /\ enclave.up /\ stops < MaxStops
  /\ stops' = stops + 1
  /\ enclave' = [enclave EXCEPT !.up = FALSE, !.sighted = {}, !.replies = <<>>, !.strikes = 0]
  /\ work' = {} /\ pending' = <<>> /\ most' = 0
  /\ UNCHANGED <<now, app, signed, sent, answers, disk, times, sealed, told>>
Start ==
  /\ ~enclave.up
  /\ enclave' = [enclave EXCEPT !.up = TRUE, !.life = @ + 1]
  /\ UNCHANGED <<now, app, signed, sent, answers, work, book, stops, history>>

-----------------------------------------------------------------------------
(* The device.  Its calls come one after the other: the app holds the      *)
(* connection for the length of a call.                                    *)

Forget(a) == {x \in answers : x.m.req.app # a}

Call(a, kind) ==
  /\ app[a].pc = "idle" /\ Len(signed[a]) < MaxSigned
  /\ app' = [app EXCEPT ![a].pc = "ready", ![a].kind = kind, ![a].attempt = 1]
  /\ UNCHANGED <<now, signed, sent, answers, enclave, work, book, stops, history>>

\* The call returns to the interface, with an answer or with none.
Fails(a, c) ==
  /\ app' = [app EXCEPT ![a] = [c EXCEPT !.pc = "idle"]]
  /\ answers' = Forget(a)
  /\ UNCHANGED told
Ends(a, out, c) ==
  /\ app' = [app EXCEPT ![a] = [c EXCEPT !.pc = "idle"]]
  /\ answers' = Forget(a)
  /\ told' = told \cup {[req |-> app[a].m.req, out |-> out]}

\* attest: the proof carries the keys of this life of the enclave.
Attestation == enclave.life
\* ready: by some door (Doors) there is a proof ...
Attest(a) ==
  /\ app[a].pc = "ready" /\ app[a].session = 0
  /\ enclave.up
  /\ app' = [app EXCEPT ![a].session = Attestation]
  /\ UNCHANGED <<now, signed, sent, answers, enclave, work, book, stops, history>>
\* ... or no door answers.
NotReady(a) ==
  /\ app[a].pc = "ready"
  /\ Fails(a, app[a])
  /\ UNCHANGED <<now, signed, sent, enclave, work, book, stops, times, sealed, most>>

\* Session::request, and the first exchange.
Sign(a) ==
  LET r == [app |-> a, n |-> Len(signed[a]) + 1]
      m == [req |-> r, try |-> 1]
  IN /\ app[a].pc = "ready" /\ app[a].session # 0
     /\ Len(signed[a]) < MaxSigned
     /\ signed' = [signed EXCEPT ![a] = Append(@,
          [kind |-> app[a].kind, life |-> app[a].session, ts |-> now + Ahead[a], first |-> app[a].attempt = 1])]
     /\ sent' = sent \cup {m}
     /\ app' = [app EXCEPT ![a].pc = "waits", ![a].m = m]
     /\ UNCHANGED <<now, answers, enclave, work, book, stops, history>>

\* A bug: a lost exchange is not counted.
Again_Uncounted(a) == app[a].m
Again(a) == [app[a].m EXCEPT !.try = @ + 1]
GoesOn(a) == app[a].m.try < Tries[app[a].kind]
\* send: the exchange came to nothing, and the same bytes go again ...
Lost(a) ==
  /\ app[a].pc = "waits" /\ GoesOn(a)
  /\ app' = [app EXCEPT ![a].m = Again(a)] /\ sent' = sent \cup {Again(a)}
  /\ answers' = Forget(a)
  /\ UNCHANGED <<now, signed, enclave, work, book, stops, history>>
\* ... until it is given up, or there is no connection for the last.
GivesUp(a) ==
  /\ app[a].pc = "waits" /\ app[a].m.try + 1 >= Tries[app[a].kind]
  /\ Fails(a, app[a])
  /\ UNCHANGED <<now, signed, sent, enclave, work, book, stops, times, sealed, most>>

\* cancel_chat: the wait for an answer is stopped, what was asked is not.  The same
\* question, asked once more, is a call of its own.
Cancel(a) ==
  /\ app[a].pc = "waits" /\ app[a].kind = "question"
  /\ Fails(a, app[a])
  /\ UNCHANGED <<now, signed, sent, enclave, work, book, stops, times, sealed, most>>

\* A bug: what was made before is signed again, too.
SignsAgain_Made(out) == out \in {"attest again", "already made"}
\* call_inner.  Only "attest again" comes in the clear and is an error of `open`; the
\* refusal of a clock is sealed, an answer like any other.
SignsAgain(out) == out = "attest again"
\* The session goes with the refusal; call_aside keeps the one its last attempt had.
Keeps(a) == IF Tries[app[a].kind] = 1 THEN app[a].session ELSE 0
Hear(x) ==
  LET a == x.m.req.app
  IN /\ x \in answers /\ Waiting(x.m)
     /\ IF SignsAgain(x.out)
        THEN IF app[a].attempt < Attempts
             THEN /\ app' = [app EXCEPT ![a].pc = "ready", ![a].attempt = @ + 1, ![a].session = 0]
                  /\ answers' = Forget(a) /\ UNCHANGED told
             ELSE Fails(a, [app[a] EXCEPT !.session = Keeps(a)])
        ELSE Ends(a, x.out, app[a])
     /\ UNCHANGED <<now, signed, sent, enclave, work, book, stops, times, sealed, most>>

Tick ==
  /\ now < MaxTime
  /\ now' = now + 1
  /\ UNCHANGED <<app, signed, sent, answers, enclave, work, book, stops, history>>

-----------------------------------------------------------------------------
NoRequest == [req |-> [app |-> CHOOSE a \in Apps : TRUE, n |-> 0], try |-> 0]
Init ==
  /\ now = 0
  /\ app = [a \in Apps |-> [pc |-> "idle", kind |-> "question", attempt |-> 1, m |-> NoRequest, session |-> 0]]
  /\ signed = [a \in Apps |-> <<>>] /\ sent = {} /\ answers = {}
  /\ enclave = [up |-> TRUE, life |-> 1, sighted |-> {}, replies |-> <<>>, strikes |-> 0]
  /\ work = {} /\ pending = <<>> /\ disk = {} /\ stops = 0
  /\ times = [r \in Requests |-> 0] /\ sealed = {} /\ told = {} /\ most = 0

Arrives == \E m \in sent :
  \/ ReplyAgain(m) \/ AttestAgain(m) \/ ClockTooFar(m) \/ AlreadyMade(m)
  \/ Question(m) \/ NotAsked(m) \/ Purchase(m)
BeingWorkedOn == \E w \in work :
  \/ \E yes \in BOOLEAN : Answered(w, yes) \/ Declined(w, yes)
  \/ NotAnswered(w) \/ HostConfirmed(w) \/ HostTooSlow(w)
Device(a) ==
  \/ Attest(a) \/ NotReady(a) \/ Sign(a) \/ Lost(a) \/ GivesUp(a)
  \/ \E x \in answers : x.m.req.app = a /\ Hear(x)
Next ==
  \/ Arrives \/ BeingWorkedOn
  \/ Flush \/ Stop \/ Start
  \/ \E a \in Apps : Device(a) \/ Cancel(a)
  \/ \E a \in Apps, kind \in Kinds : Call(a, kind)
  \/ Tick

\* A call has a deadline at every step: each exchange 300 s, each connect 180 s.
Spec == Init /\ [][Next]_vars /\ \A a \in Apps : WF_vars(Device(a))

-----------------------------------------------------------------------------
(* What is promised.                                                       *)

\* Every variable has its type.
TypeOK ==
  /\ now \in 0..MaxTime /\ stops \in 0..MaxStops
  /\ \A a \in Apps : app[a].pc \in {"idle", "ready", "waits"}
                     /\ app[a].session \in 0..(MaxStops + 1)
  /\ \A m \in sent : m.req \in Requests /\ m.req.n \in DOMAIN signed[m.req.app]
  /\ enclave.life \in 1..(MaxStops + 1) /\ Len(enclave.replies) <= ReplyMax
  /\ \A w \in work : w.m \in sent /\ enclave.up
  /\ disk \subseteq Requests

\* A signed request is carried out at most once, however often, however late and whatever
\* stop between its arrivals it arrives (sealed; NONCE_KEEP_MS over twice CLOCK_SKEW_MS).
CarriedOutOnce == \A r \in Requests : times[r] <= 1

\* A call is carried out at most once ...
CallOf(r) == Cardinality({i \in 1..r.n : signed[r.app][i].first})
Twice == {rq \in Requests \X Requests :
  /\ rq[1] # rq[2] /\ rq[1].app = rq[2].app
  /\ times[rq[1]] > 0 /\ times[rq[2]] > 0 /\ CallOf(rq[1]) = CallOf(rq[2])}
ChargedOnce == Twice = {}
\* ... unless the enclave restarted under it: then it is signed again (call_inner).
ChargedOnceUnlessRestarted == \A rq \in Twice : Signed(rq[1]).life # Signed(rq[2]).life

\* What the device is told is what happened: an answer only for what was carried out, a
\* refusal only for what was not, whoever else's answers are kept and lost meanwhile.
ToldTheTruth ==
  \A t \in told : /\ t.out = "done" => times[t.req] = 1
                  /\ t.out = "refused" => times[t.req] = 0

\* A purchase the device was told of is on the host's disk, whatever stops (durably).
AnsweredIsKept == \A t \in told : t.out = "done" /\ Signed(t.req).kind # "question" => t.req \in disk

\* Declines pass the limit of a day only by questions that were asked at one time (chat).
DeclinesBounded == enclave.strikes < StrikesPerDay + most

\* A request is sealed an answer once (service.rs, `sealed`).
SealedOnce == \A x, y \in sealed : x.req = y.req => x.out = y.out
\* ... but for the refusal of its clock, when it comes again too late and is not kept.
SealedOnceButLate ==
  \A x, y \in sealed : x.req = y.req /\ "clock" \notin {x.out, y.out} => x.out = y.out

\* What is refused for its clock is signed again once (app.rs, call_inner).
StaleIsSignedAgain == \A t \in told : t.out = "clock" => ~Signed(t.req).first

\* The call of a resend gets the answer, or learns nothing (service.rs, module).
NeverTurnedAway == \A t \in told : t.out = "already made" => times[t.req] = 0

\* Every call returns.
CallsEnd == \A a \in Apps : app[a].pc # "idle" ~> app[a].pc = "idle"
=============================================================================
