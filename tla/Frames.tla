------------------------------- MODULE Frames -------------------------------
(***************************************************************************)
(* One exchange over the mixnet: the app's Exchange and the loop that      *)
(* drives it (crates/proto/src/frames.rs, client/src/mix.rs), and what the *)
(* enclave's Frames hold of it.                                            *)
(*                                                                         *)
(* Frames are delivered in any order, twice or never.  Every step under    *)
(* the lock of `held` is an action; between taking the last part and       *)
(* claiming the exchange the lock is released.  An exchange is a random    *)
(* id and touches no other but by taking room: another's room is the time  *)
(* at which this one is forgotten.                                         *)
(***************************************************************************)
EXTENDS Integers, Sequences, FiniteSets

CONSTANTS
  MaxParts,   \* bound: parts of the message
  MaxChunks,  \* bound: chunks of a reply
  MostParts,  \* parts the enclave takes a message in (MAX_MESSAGE)
  MostChunks, \* chunks the app fetches a reply in (MAX_REPLY)
  Window,     \* pieces on their way at once
  MaxFaults,  \* bound: frames lost or delivered twice, and times the enclave forgets
  MaxTaken    \* bound: messages taken whole and not yet claimed at one time

ASSUME FramesAssumption ==
  /\ {MaxParts, MaxChunks, MostParts, MostChunks, Window, MaxTaken} \subseteq Nat \ {0}
  /\ MaxFaults \in Nat

VARIABLES
  parts,      \* into how many parts the message goes; 1 is a whole message
  ex,         \* the app's Exchange, and whether it sends, listens or has ended
  asked,      \* pieces asked for less than RETRY ago
  net,        \* frames on their way, either way
  held,       \* what the enclave holds of the exchange
  taken,      \* messages taken whole that have not claimed the exchange yet
  answers,    \* history: how many chunks each answer to it had, one by one
  forgets, mishaps

vars == <<parts, ex, asked, net, held, taken, answers, forgets, mishaps>>
enclave == <<held, taken, answers>>
faults == <<forgets, mishaps>>

Parts == 0..(parts - 1)
Pieces == (0..(MaxParts - 1)) \cup (0..(MaxChunks - 1))
Up(kind, seq) == [to |-> "enclave", kind |-> kind, seq |-> seq]
\* `of` is the answer a frame is of, which no receiver sees.
Down(kind, seq, of) == [to |-> "app", kind |-> kind, seq |-> seq, of |-> of]

-----------------------------------------------------------------------------
(* The app.                                                                *)

Fetching == ex.chunks > 0
Unfetched == {i \in 0..(ex.chunks - 1) : \A c \in ex.have : c.seq # i}
\* A bug: with every part acknowledged there is nothing more to ask.
Missing_Unacked == IF Fetching THEN Unfetched ELSE ex.unacked
\* What is still missing: of the reply, of the message, or, with every part acknowledged
\* and no reply, the last part once more.
Missing ==
  CASE Fetching -> Unfetched
    [] ~Fetching /\ ex.unacked # {} -> ex.unacked
    [] OTHER -> {parts - 1}
\* to_send: the first of them that are not on their way, as many as the window has room for.
Chosen ==
  LET idle == Missing \ asked
      room == Window - Cardinality(Missing \cap asked)
  IN {i \in idle : Cardinality({j \in idle : j < i}) < room}

\* due, and the frames sent.
Due ==
  /\ ex.pc = "send"
  /\ ex' = [ex EXCEPT !.pc = "listen"]
  /\ IF ~Fetching /\ parts = 1
     THEN net' = net \cup {Up("whole", 0)} /\ asked' = {0}
     ELSE /\ net' = net \cup {Up(IF Fetching THEN "fetch" ELSE "part", i) : i \in Chosen}
          /\ asked' = asked \cup Chosen
  /\ UNCHANGED <<parts, enclave, faults>>

\* RETRY has passed since a piece was asked for.
Late(i) ==
  /\ i \in asked
  /\ asked' = asked \ {i}
  /\ UNCHANGED <<parts, ex, net, enclave, faults>>
\* QUIET has passed: the loop goes round.  (The deadline and SILENCE, which end the exchange
\* for its caller, are Calls': an app that no longer sends is one that sends later.)
Quiet ==
  /\ ex.pc = "listen"
  /\ ex' = [ex EXCEPT !.pc = "send"]
  /\ UNCHANGED <<parts, asked, net, enclave, faults>>
\* accept.  Anything of this exchange is progress, and sends what is due at once.
Going == ex' = [ex EXCEPT !.pc = "send"] /\ UNCHANGED asked
Whole(f) == ex' = [ex EXCEPT !.pc = "done"] /\ UNCHANGED asked
Ack(f) == ex' = [ex EXCEPT !.pc = "send", !.unacked = @ \ {f.seq}] /\ UNCHANGED asked
\* A reply of more bytes than an app accepts ends the exchange.
Kept(f) ==
  \/ /\ f.seq > MostChunks
     /\ ex' = [ex EXCEPT !.pc = "failed"] /\ UNCHANGED asked
  \/ /\ f.seq <= MostChunks /\ Fetching
     /\ ex' = [ex EXCEPT !.pc = "send", !.unacked = {}] /\ UNCHANGED asked
  \/ /\ f.seq <= MostChunks /\ ~Fetching
     /\ ex' = [ex EXCEPT !.pc = "send", !.unacked = {}, !.chunks = f.seq] /\ asked' = {}
Chunk(f) ==
  LET new == Fetching /\ f.seq \in Missing /\ f.seq < ex.chunks
      have == ex.have \cup (IF new THEN {[seq |-> f.seq, of |-> f.of]} ELSE {})
      addsUp == \A c \in have : answers[c.of] = ex.chunks
  IN /\ UNCHANGED asked
     /\ ex' = [ex EXCEPT !.have = have,
                 !.pc = CASE ~Fetching \/ Cardinality(have) < ex.chunks -> "send"
                          [] addsUp -> "done"
                          [] OTHER -> "failed"]
Fail(f) == ex' = [ex EXCEPT !.pc = "failed"] /\ UNCHANGED asked

Accept(f) ==
  \/ f.kind = "whole" /\ Whole(f)
  \/ f.kind = "ack" /\ Ack(f)
  \/ f.kind = "kept" /\ Kept(f)
  \/ f.kind = "chunk" /\ Chunk(f)
  \/ f.kind = "fail" /\ Fail(f)
  \/ f.kind = "working" /\ Going

\* The network hands over a frame, and may hand it over again.
Arrives(f, again) ==
  /\ f \in net
  /\ IF again THEN forgets + mishaps < MaxFaults /\ mishaps' = mishaps + 1 ELSE UNCHANGED mishaps
Left(f, again) == IF again THEN net ELSE net \ {f}

Hear(f, again) ==
  /\ f.to = "app" /\ Arrives(f, again) /\ ex.pc \in {"send", "listen"}
  /\ Accept(f)
  /\ net' = Left(f, again)
  /\ UNCHANGED <<parts, enclave, forgets>>
\* A late answer to an exchange that has ended.
TooLate(f) ==
  /\ f.to = "app" /\ f \in net /\ ex.pc \in {"done", "failed"}
  /\ net' = net \ {f}
  /\ UNCHANGED <<parts, ex, asked, enclave, faults>>

-----------------------------------------------------------------------------
(* The enclave.                                                            *)

Nothing == [is |-> "nothing"]
Arriving(got) == [is |-> "arriving", got |-> got]
Answering == [is |-> "answering"]
Answered(of) == [is |-> "answered", of |-> of]

\* How an answer is given: whole if the message came whole and it fits, else kept here.
Reply(of) ==
  IF parts = 1 /\ answers[of] = 1 THEN Down("whole", 0, of) ELSE Down("kept", answers[of], of)
\* The frame f is done with and answered by `back`.
Says(f, again, back) == net' = Left(f, again) \cup back

TakeWhole(f, again) ==
  /\ f.to = "enclave" /\ f.kind = "whole" /\ Arrives(f, again)
  /\ \/ /\ held.is = "answered"
        /\ Says(f, again, {Reply(held.of)}) /\ UNCHANGED taken
     \/ /\ held.is = "answering"
        /\ Says(f, again, {Down("working", 0, 0)}) /\ UNCHANGED taken
     \/ /\ held.is \in {"nothing", "arriving"} /\ taken < MaxTaken
        /\ Says(f, again, {}) /\ taken' = taken + 1
  /\ UNCHANGED <<parts, ex, asked, held, answers, forgets>>

\* A bug: a part of a finished message opens the exchange again.
Opens_Finished == held.is # "answering"
\* A part goes to what is arriving, and opens an exchange of which nothing is held.
Opens == held.is \in {"nothing", "arriving"}
Got(f) == (IF held.is = "arriving" THEN held.got ELSE {}) \cup {f.seq}

\* Every part says how many there are: with too many of them the first is refused, and opens
\* nothing.  (Parts that do not fit together are none of an app's.)
TakePart(f, again) ==
  /\ f.to = "enclave" /\ f.kind = "part" /\ Arrives(f, again)
  /\ \/ /\ parts > MostParts
        /\ Says(f, again, {Down("fail", 0, 0)}) /\ UNCHANGED <<held, taken>>
     \/ /\ parts <= MostParts /\ Opens /\ Got(f) # Parts
        /\ held' = Arriving(Got(f))
        /\ Says(f, again, {Down("ack", f.seq, 0)}) /\ UNCHANGED taken
     \/ /\ parts <= MostParts /\ Opens /\ Got(f) = Parts /\ taken < MaxTaken
        /\ held' = Nothing
        /\ Says(f, again, {}) /\ taken' = taken + 1
     \/ /\ parts <= MostParts /\ ~Opens
        /\ Says(f, again, {IF held.is = "answered" THEN Reply(held.of) ELSE Down("ack", f.seq, 0)})
        /\ UNCHANGED <<held, taken>>
  /\ UNCHANGED <<parts, ex, asked, answers, forgets>>

TakeFetch(f, again) ==
  /\ f.to = "enclave" /\ f.kind = "fetch" /\ Arrives(f, again)
  /\ Says(f, again, {IF held.is = "answered" /\ f.seq < answers[held.of]
                     THEN Down("chunk", f.seq, held.of) ELSE Down("fail", 0, 0)})
  /\ UNCHANGED <<parts, ex, asked, enclave, forgets>>

\* A bug: what is being answered, or was, is not looked at.
Claimable_Any == TRUE
Claimable == held.is \notin {"answering", "answered"}
\* claim: one of those that have the message answers it, the others say nothing.
Claim ==
  /\ taken > 0 /\ taken' = taken - 1
  /\ held' = IF Claimable THEN Answering ELSE held
  /\ UNCHANGED <<parts, ex, asked, net, answers, faults>>

\* keep: the answer is there, of any length, whatever was forgotten meanwhile.
Keep(chunks) ==
  LET of == Len(answers) + 1
  IN /\ held.is = "answering"
     /\ answers' = Append(answers, chunks)
     /\ held' = Answered(of)
     /\ net' = net \cup {IF parts = 1 /\ chunks = 1 THEN Down("whole", 0, of) ELSE Down("kept", chunks, of)}
     /\ UNCHANGED <<parts, ex, asked, taken, faults>>

\* trim: too old, or the oldest of too much.  What is being answered is not forgotten.
Forget ==
  /\ held.is \in {"arriving", "answered"} /\ forgets + mishaps < MaxFaults
  /\ held' = Nothing /\ forgets' = forgets + 1
  /\ UNCHANGED <<parts, ex, asked, net, taken, answers, mishaps>>
Restart ==
  /\ forgets + mishaps < MaxFaults
  /\ held' = Nothing /\ taken' = 0 /\ forgets' = forgets + 1
  /\ UNCHANGED <<parts, ex, asked, net, answers, mishaps>>

Lose(f) ==
  /\ f \in net /\ forgets + mishaps < MaxFaults
  /\ net' = net \ {f} /\ mishaps' = mishaps + 1
  /\ UNCHANGED <<parts, ex, asked, enclave, forgets>>

-----------------------------------------------------------------------------
Init ==
  /\ parts \in 1..MaxParts
  /\ ex = [pc |-> "send", unacked |-> Parts, chunks |-> 0, have |-> {}]
  /\ asked = {} /\ net = {} /\ held = Nothing /\ taken = 0 /\ answers = <<>>
  /\ forgets = 0 /\ mishaps = 0

Deliver(f, again) == Hear(f, again) \/ TakeWhole(f, again) \/ TakePart(f, again) \/ TakeFetch(f, again)
Next ==
  \/ Due \/ Quiet
  \/ \E i \in Pieces : Late(i)
  \/ \E f \in net, again \in BOOLEAN : Deliver(f, again)
  \/ \E f \in net : TooLate(f) \/ Lose(f)
  \/ Claim \/ \E n \in 1..MaxChunks : Keep(n)
  \/ Forget \/ Restart

\* The frames of an exchange that is answered once.
Frame ==
  {Up("whole", 0), Down("whole", 0, 1), Down("working", 0, 0), Down("fail", 0, 0)}
  \cup {Up("part", i) : i \in 0..(MaxParts - 1)} \cup {Down("ack", i, 0) : i \in 0..(MaxParts - 1)}
  \cup {Up("fetch", i) : i \in 0..(MaxChunks - 1)} \cup {Down("chunk", i, 1) : i \in 0..(MaxChunks - 1)}
  \cup {Down("kept", n, 1) : n \in 1..MaxChunks}

\* The loop goes round while the exchange lasts, RETRY passes, the network hands over what
\* it does not lose, and a question is answered in the end.
Fairness ==
  /\ WF_vars(Due) /\ WF_vars(Quiet) /\ WF_vars(Claim) /\ WF_vars(\E n \in 1..MaxChunks : Keep(n))
  /\ \A i \in Pieces : WF_vars(Late(i))
  /\ \A f \in Frame : WF_vars(Deliver(f, FALSE))
Spec == Init /\ [][Next]_vars /\ Fairness

-----------------------------------------------------------------------------
(* What is promised.                                                       *)

\* The enclave is never asked the same question twice at once, and twice at all only if it
\* forgot the exchange (frames.rs, module).
AskedOnce == Len(answers) + (IF held.is = "answering" THEN 1 ELSE 0) <= 1 + forgets

\* What neither side lets through (frames.rs, MAX_MESSAGE and MAX_REPLY).
TooBig == parts > MostParts \/ \E n \in 1..Len(answers) : answers[n] > MostChunks

\* An exchange cannot go on only for one of the two causes frames.rs names with R_FAIL: the
\* enclave forgot it, or its message or an answer to it is too big.
FailsOnlyForCause == ex.pc = "failed" => forgets > 0 \/ TooBig

\* A reply is all of one answer.
OneAnswer == ex.pc = "done" => \A c, d \in ex.have : c.of = d.of

\* Through losses, repetitions and any order an exchange ends with its reply, or is told
\* that it is too big.
Completes ==
  ex.pc \in {"send", "listen"} ~> ex.pc = "done" \/ (ex.pc = "failed" /\ TooBig) \/ forgets > 0
\* ... or, if it was forgotten, is told so (R_FAIL: start over).
ForgottenIsTold == ex.pc \in {"send", "listen"} ~> ex.pc \in {"done", "failed"}
=============================================================================
