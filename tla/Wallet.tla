-------------------------------- MODULE Wallet --------------------------------
(***************************************************************************)
(* The app's profile (app/src-tauri/src/lib.rs, profile.rs): the phrase,   *)
(* the notes it bought with App Store payments, and what its commands do   *)
(* with them.  Commands run side by side; each loads the whole profile and *)
(* saves the whole profile, and redeem_due waits for the enclave between   *)
(* the two.  A load and a save with no wait between them are one step.     *)
(*                                                                         *)
(* Time is months and the grace after each.  There is one subscription, of *)
(* one tier: a note is its account's and its month's.  Of the enclave this *)
(* has what a wallet can tell apart; its plans are those of Plans.         *)
(***************************************************************************)
EXTENDS Integers, Sequences, SequencesExt, FiniteSets, TLC

CONSTANTS
  MaxAccounts,  \* bound: phrases made, numbered as they are
  Length,     \* months a payment covers
  Charged,    \* 0: on the 1st, and it covers from that month; 1: later, and from the next
  Tries,      \* PHRASE_CHECK_TRIES
  MaxMonth,   \* bound: the last month
  MaxEdits,   \* bound: what the person changes
  MaxFaults   \* bound: calls that fail or whose answer is lost, stops, backups put back

ASSUME WalletAssumption ==
  /\ Charged \in {0, 1} /\ {Length, Tries, MaxMonth, MaxAccounts} \subseteq Nat \ {0}
  /\ {MaxEdits, MaxFaults} \subseteq Nat

VARIABLES
  profile,  \* profile.json
  run,      \* where notes_sync and the heartbeat are
  check,    \* the three-word check
  polled,   \* the checkout plan_poll asked about
  rested,   \* ten minutes have gone by since a reclaim
  apple,    \* the App Store: payments that have not ended, and unfinished ones
  enclave,  \* months minted, notes spent, plans, checkouts
  time,     \* the month, its grace, moments that have come
  used,     \* counts under the bounds
  history   \* what became of each month, what was typed, what the person chose

vars == <<profile, run, check, polled, rested, apple, enclave, time, used, history>>
world == <<apple, time>>
person == <<check, polled>>

NoAccount == 0
Accounts == 1..MaxAccounts
\* What became of a month, if it was not an account's.
None == 0
Over == MaxAccounts + 1
Anothers == MaxAccounts + 2
Commands == {"sync", "beat"}
Epochs == 0..(MaxMonth + Length + 1)
Uses(what, bound) == used[what] < bound /\ used' = [used EXCEPT ![what] = @ + 1]
Edit == Uses("edits", MaxEdits)
Fault == Uses("faults", MaxFaults)

-----------------------------------------------------------------------------
(* The calendar.                                                           *)

\* window
Window(month) == (month - 1)..(month + 1)
Open(e) == e \in Window(time.month)
\* epoch_end_ms + GRACE_MS is ahead.
Runs(e) == time.month <= e \/ (time.month = e + 1 /\ time.grace)
\* epochs_covered, of a payment named by the first month it covers.
Covers(t) == t..(t + Length - 1)

-----------------------------------------------------------------------------
(* The profile and the commands that only change it.                       *)

Empty == [acct |-> NoAccount, verified |-> FALSE, entry |-> 0, pending |-> 0,
          notes |-> <<>>, done |-> {}, spent |-> <<>>]
Has == profile.acct # NoAccount
\* The same phrase makes the same note of a month.
Name(n) == <<n.of, n.epoch>>
Without(notes, due) == SelectSeq(notes, LAMBDA n : \A d \in ToSet(due) : Name(d) # Name(n))
With(notes, due) == notes \o Without(due, notes)

\* What the person chose; a redemption may be under way.
Chosen(a, made, typed) ==
  history' = [history EXCEPT !.chose = a, !.made = @ \cup made, !.typed = @ \cup typed,
                !.overtaken = @ \/ \E x \in Commands : run[x].pc = "redeeming"]
\* A bug: what was verified of the phrase before is said of the new one.
NewPhrase_Verified(a) == [profile EXCEPT !.acct = a, !.pending = 0]
NewPhrase(a) == [profile EXCEPT !.acct = a, !.verified = FALSE, !.pending = 0]
AccountNew(a) ==
  /\ a = Cardinality(history.made) + 1 /\ Edit
  /\ profile' = NewPhrase(a)
  /\ Chosen(a, {a}, {})
  /\ UNCHANGED <<run, person, rested, world, enclave>>
AccountRestore(a) ==
  /\ a \in history.made /\ Edit
  /\ profile' = [profile EXCEPT !.acct = a, !.verified = TRUE, !.pending = 0]
  /\ Chosen(a, {}, {a})
  /\ UNCHANGED <<run, person, rested, world, enclave>>
AccountDelete ==
  /\ Has /\ Edit
  /\ profile' = NewPhrase(NoAccount)
  /\ Chosen(NoAccount, {}, {})
  /\ UNCHANGED <<run, person, rested, world, enclave>>

CheckStart ==
  /\ Has /\ ~check.open /\ Edit
  /\ check' = [check EXCEPT !.open = TRUE]
  /\ UNCHANGED <<profile, run, polled, rested, world, enclave, history>>
\* The words are the phrase's, or they are not: three new ones either way.
CheckVerify(right) ==
  /\ Has /\ check.open /\ check.wrong < Tries
  /\ check' = [open |-> FALSE, wrong |-> IF right THEN 0 ELSE check.wrong + 1]
  /\ profile' = [profile EXCEPT !.verified = @ \/ right]
  /\ history' = IF right THEN [history EXCEPT !.typed = @ \cup {profile.acct}] ELSE history
  /\ UNCHANGED <<run, polled, rested, world, enclave, used>>
\* A quarter of an hour: the wrong answers are forgotten.
WrongForgotten ==
  /\ check.wrong > 0
  /\ check' = [check EXCEPT !.wrong = 0]
  /\ UNCHANGED <<profile, run, polled, rested, world, enclave, used, history>>

SetEntry ==
  /\ Edit
  /\ profile' = [profile EXCEPT !.entry = 1 - @]
  /\ UNCHANGED <<run, person, rested, world, enclave, history>>

\* plan_checkout: the enclave opened a checkout, and it is kept.
PlanCheckout ==
  /\ Has /\ Edit
  /\ enclave' = [enclave EXCEPT !.opened = @ + 1]
  /\ profile' = [profile EXCEPT !.pending = enclave.opened + 1]
  /\ UNCHANGED <<run, person, rested, world, history>>
PlanForget ==
  /\ profile.pending # 0
  /\ profile' = [profile EXCEPT !.pending = 0]
  /\ UNCHANGED <<run, person, rested, world, enclave, used, history>>
PlanPoll ==
  /\ polled = 0 /\ profile.pending # 0
  /\ polled' = profile.pending
  /\ UNCHANGED <<profile, run, check, rested, world, enclave, used, history>>
\* Paid: whatever is pending by now is forgotten.  Not paid, or no answer: nothing.
PollAnswered(paid) ==
  /\ polled # 0
  /\ polled' = 0
  /\ profile' = IF paid THEN [profile EXCEPT !.pending = 0] ELSE profile
  /\ UNCHANGED <<run, check, rested, world, enclave, used, history>>

-----------------------------------------------------------------------------
(* The enclave, as the wallet finds it.                                    *)

ActiveIn(book, a) == a # NoAccount /\ book.until[a] > 0 /\ Runs(book.until[a])
Active(a) == ActiveIn(enclave, a)
\* has_room: what is left of a running plan's month is left open.
RoomOf(a) == {FALSE, Active(a)}

\* A bug: the note is blinded afresh each time, and every other blinding is another note.
Signable_Fresh(a, e) == enclave.minted[e] = NoAccount
\* mint_admission: the same blinded note is signed again.
Signable(a, e) == enclave.minted[e] \in {NoAccount, a}
\* note_mint: the transaction has not ended, and the month is open.
MintAnswer(a, at) ==
  IF at.from \notin apple.live THEN "final"
  ELSE IF ~Open(at.epoch) THEN "no"
  ELSE IF Signable(a, at.epoch) THEN "signed" ELSE "final"

\* note_redeem, one note: spent, then the plan runs to its month's end, which is set and
\* not added; a month that is over starts no plan, and ends the call.
RedeemOne(s, a, n) ==
  LET spent == [s EXCEPT !.book.spent = @ \cup {Name(n)}]
  IN IF s.refused \/ Name(n) \in s.book.spent THEN s
     ELSE IF ~Runs(n.epoch) /\ s.book.until[a] = 0 THEN [spent EXCEPT !.refused = TRUE]
     ELSE [spent EXCEPT !.book.until[a] = n.epoch]
RedeemAll(a, due) ==
  LET after[i \in 0..Len(due)] ==
        IF i = 0 THEN [book |-> enclave, refused |-> FALSE] ELSE RedeemOne(after[i - 1], a, due[i])
  IN after[Len(due)]
RedeemAnswer(a, due) ==
  IF \E n \in ToSet(due) : ~Open(n.epoch) THEN "final"
  ELSE IF RedeemAll(a, due).refused THEN "no" ELSE "ok"
Redeems(a, due) ==
  /\ enclave' = IF RedeemAnswer(a, due) = "final" THEN enclave ELSE RedeemAll(a, due).book
  /\ LET spent == {n \in ToSet(due) : Name(n) \in enclave'.spent \ enclave.spent}
         earlier == {n \in spent : n.epoch < enclave.until[a] \/ enclave'.until[a] < n.epoch}
     IN history' = [history EXCEPT
          !.fate = [e \in {n.epoch : n \in spent} |-> a] @@ @,
          !.setBack = IF earlier = {} THEN @ ELSE @ \cup {a}]

-----------------------------------------------------------------------------
(* A command under way.                                                    *)

Idle == [pc |-> "idle", acct |-> NoAccount, room |-> FALSE, active |-> FALSE, todo |-> {},
         seen |-> {}, at |-> [from |-> 0, epoch |-> 0], due |-> <<>>, copy |-> Empty]
At(x, pc) == run[x].pc = pc
Goes(x, r) == run' = [run EXCEPT ![x] = r]
To(x, pc) == [run[x] EXCEPT !.pc = pc]
\* A call is behind it.
Back(x, pc) == [Idle EXCEPT !.pc = pc, !.room = run[x].room, !.active = run[x].active,
                            !.todo = run[x].todo, !.seen = run[x].seen]
Ends(x) == Goes(x, Idle)
\* How a call ends.  What the enclave did and what the app does with the answer are one
\* step: the enclave's next calls find the same either way, and what other commands save
\* between the two is lost or kept as if it were saved before.
Outcomes == {"answered", "not carried out", "answer lost"}
Costs(outcome) == IF outcome = "answered" THEN UNCHANGED used ELSE Fault
Hears(outcome, answer) == IF outcome = "answered" THEN answer ELSE "no"
ToReclaim(active) == [Idle EXCEPT !.pc = "reclaim", !.active = active]
\* A balance is asked for: what its answer says, or nothing when there is none.
Knows(x, pc, a, room) == [To(x, pc) EXCEPT !.room = room, !.active = Active(a)]

Live == SelectSeq(profile.spent, LAMBDA n : Open(n.epoch) /\ Runs(n.epoch))
\* Notes whose moment has not come: only these ask whether there is room.
Waiting == {n \in ToSet(profile.notes) : n.jitter /\ n.epoch \notin time.came}
\* A command that finds nothing to do is left out.
Pending == profile.notes # <<>> \/ (~Active(profile.acct) /\ Live # <<>> /\ rested)

-----------------------------------------------------------------------------
(* notes_sync.                                                             *)

ToMint(payments) ==
  UNION {{[from |-> t, epoch |-> e] : e \in Covers(t) \cap Window(time.month)} : t \in payments}
IsHeld(e) == \E n \in ToSet(profile.notes) : n.epoch = e
Skipped(e) == e \in run["sync"].seen \cup profile.done \/ IsHeld(e)
Listed == apple.live \cup apple.unfinished
New == {at \in ToMint(Listed) : ~Skipped(at.epoch)}
\* The balance, or nothing when the call fails; then what StoreKit lists.
SyncBegins ==
  /\ At("sync", "idle") /\ Has
  /\ Pending \/ New # {}
  /\ \/ \E room \in IF Waiting = {} /\ New = {} THEN {FALSE} ELSE RoomOf(profile.acct) :
          /\ Goes("sync", [Knows("sync", "minting", profile.acct, room) EXCEPT !.todo = New])
          /\ UNCHANGED used
     \/ Goes("sync", [To("sync", "minting") EXCEPT !.todo = New]) /\ Active(profile.acct) /\ Fault
  /\ UNCHANGED <<profile, person, rested, world, enclave, history>>

SyncNext(at) ==
  /\ At("sync", "minting") /\ at \in run["sync"].todo
  /\ LET r == [run["sync"] EXCEPT !.todo = @ \ {at}]
         seen == [r EXCEPT !.seen = @ \cup {at.epoch}]
     IN IF Skipped(at.epoch) THEN Goes("sync", r)
        ELSE IF ~Has THEN Goes("sync", seen)
        ELSE Goes("sync", [seen EXCEPT !.pc = "mint", !.at = at, !.acct = profile.acct])
  /\ UNCHANGED <<profile, person, rested, world, enclave, used, history>>
Finish(t) == apple' = [apple EXCEPT !.unfinished = @ \ {t}]
Noted == [of |-> run["sync"].acct, epoch |-> run["sync"].at.epoch, jitter |-> run["sync"].room]
\* A bug: the note is pushed to the profile that was loaded before the call.
WithNote_Loaded(n) == [profile EXCEPT !.notes = Append(@, n), !.acct = n.of]
WithNote(n) == [profile EXCEPT !.notes = Append(@, n)]
\* A bug: whatever the refusal, the month is done.
ForGood_Any(answer) == answer # "signed"
ForGood(answer) == answer = "final"
\* Signed: kept, and finished with Apple.  Refused for good: done, and finished.
MintAnswered(answer) ==
  CASE answer = "signed" ->
         profile' = WithNote(Noted) /\ Finish(run["sync"].at.from)
    [] ForGood(answer) ->
         profile' = [profile EXCEPT !.done = @ \cup {run["sync"].at.epoch}] /\ Finish(run["sync"].at.from)
    [] OTHER -> UNCHANGED <<profile, apple>>
NoteMint(outcome) ==
  LET a == run["sync"].acct
      e == run["sync"].at.epoch
      answer == IF outcome = "not carried out" THEN "no" ELSE MintAnswer(a, run["sync"].at)
  IN /\ At("sync", "mint") /\ Costs(outcome)
     /\ MintAnswered(Hears(outcome, answer))
     /\ enclave' = IF answer = "signed" THEN [enclave EXCEPT !.minted[e] = a] ELSE enclave
     /\ history' = IF answer = "final" /\ history.fate[e] = None
                   THEN [history EXCEPT !.fate[e] = IF enclave.minted[e] \in {NoAccount, a} THEN Over ELSE Anothers]
                   ELSE history
     /\ Goes("sync", Back("sync", "minting"))
     /\ UNCHANGED <<person, rested, time>>

-----------------------------------------------------------------------------
(* mixnet_heartbeat.                                                       *)

BeatBegins ==
  /\ At("beat", "idle") /\ Has /\ Pending
  /\ IF profile.notes = <<>> THEN Goes("beat", ToReclaim(Active(profile.acct)))
     ELSE \E room \in IF Waiting = {} THEN {FALSE} ELSE RoomOf(profile.acct) :
            Goes("beat", Knows("beat", "redeem", profile.acct, room))
  /\ UNCHANGED <<profile, person, rested, world, enclave, used, history>>
-----------------------------------------------------------------------------
(* redeem_due, of either: the profile is loaded, and this copy is saved.   *)

Due(x, n) == ~run[x].room \/ ~n.jitter \/ n.epoch \in time.came
Redeem(x) ==
  LET due == SelectSeq(profile.notes, LAMBDA n : Due(x, n)) IN
  /\ At(x, "redeem") \/ (At(x, "minting") /\ run[x].todo = {})
  /\ Goes(x, IF due = <<>> \/ ~Has THEN ToReclaim(run[x].active)
             ELSE [Idle EXCEPT !.pc = "redeeming", !.active = run[x].active,
                               !.due = due, !.copy = profile, !.acct = profile.acct])
  /\ UNCHANGED <<profile, person, rested, world, enclave, used, history>>
\* The notes of the call leave the wallet; those redeemed are done, and kept as spent
\* while their months run.
RedeemKept(x) ==
  LET r == run[x]
      kept == SelectSeq(With(r.copy.spent, r.due), LAMBDA n : Runs(n.epoch))
  IN [r.copy EXCEPT !.notes = Without(@, r.due), !.spent = kept,
                    !.done = @ \cup {n.epoch : n \in ToSet(r.due)}]
RedeemDropped(x) == [run[x].copy EXCEPT !.notes = Without(@, run[x].due)]
RedeemAnswered(x, answer) ==
  CASE answer = "ok" ->
         /\ profile' = RedeemKept(x)
         \* The beat asks for the balance again.
         /\ Goes(x, IF x = "sync" THEN Idle ELSE ToReclaim(ActiveIn(enclave', run[x].acct)))
    [] answer = "final" -> profile' = RedeemDropped(x) /\ Goes(x, ToReclaim(run[x].active))
    [] OTHER -> UNCHANGED profile /\ Goes(x, ToReclaim(run[x].active))
NoteRedeem(x, outcome) ==
  LET a == run[x].acct IN
  /\ At(x, "redeeming") /\ Costs(outcome)
  /\ IF outcome = "not carried out" THEN UNCHANGED <<enclave, history>> ELSE Redeems(a, run[x].due)
  /\ RedeemAnswered(x, Hears(outcome, RedeemAnswer(a, run[x].due)))
  /\ UNCHANGED <<person, rested, world>>

-----------------------------------------------------------------------------
(* reclaim_plan, of either.                                                *)

Reclaim(x) ==
  LET tries == ~run[x].active /\ Live # <<>> /\ rested
  IN /\ At(x, "reclaim")
     /\ rested' = (rested /\ ~tries)
     /\ Goes(x, IF tries /\ Has THEN [To(x, "reclaiming") EXCEPT !.due = Live, !.acct = profile.acct] ELSE Idle)
     /\ UNCHANGED <<profile, person, world, enclave, used, history>>
\* Nothing of the answer is kept.
NoteReclaim(x, outcome) ==
  /\ At(x, "reclaiming") /\ Costs(outcome)
  /\ IF outcome = "not carried out" THEN UNCHANGED <<enclave, history>> ELSE Redeems(run[x].acct, run[x].due)
  /\ Ends(x)
  /\ UNCHANGED <<profile, person, rested, world>>

-----------------------------------------------------------------------------
(* Around the app.                                                         *)

\* The app is stopped: the profile is what is left.
AppStops ==
  /\ Fault
  /\ run' = [x \in Commands |-> Idle] /\ polled' = 0 /\ rested' = TRUE
  /\ check' = [open |-> FALSE, wrong |-> 0]
  /\ UNCHANGED <<profile, world, enclave, history>>
Rests == ~rested /\ rested' = TRUE /\ UNCHANGED <<profile, run, person, world, enclave, used, history>>

\* iap_buy: Apple's sheet, and then a sync as at any launch (SyncBegins); or renewed.
Pays(t) ==
  /\ t = time.month + Charged /\ apple.live = {} /\ t > apple.last
  /\ apple' = [live |-> {t}, unfinished |-> apple.unfinished \cup {t}, last |-> t + Length - 1]
  /\ UNCHANGED <<profile, run, person, rested, enclave, time, used, history>>
\* Within its last month the paid time is over.
PaidTimeOver(t) ==
  /\ t \in apple.live /\ time.month = t + Length - 1
  /\ apple' = [apple EXCEPT !.live = @ \ {t}]
  /\ UNCHANGED <<profile, run, person, rested, enclave, time, used, history>>
MomentComes(e) ==
  /\ e \notin time.came /\ \E n \in ToSet(profile.notes) : n.epoch = e /\ n.jitter
  /\ time' = [time EXCEPT !.came = @ \cup {e}]
  /\ UNCHANGED <<profile, run, person, rested, apple, enclave, used, history>>
GraceOver ==
  /\ time.grace
  /\ time' = [time EXCEPT !.grace = FALSE]
  /\ UNCHANGED <<profile, run, person, rested, apple, enclave, used, history>>
MonthOver ==
  /\ time.month < MaxMonth /\ ~time.grace
  /\ \A t \in apple.live : time.month < t + Length - 1
  /\ time' = [time EXCEPT !.month = @ + 1, !.grace = TRUE]
  /\ UNCHANGED <<profile, run, person, rested, apple, enclave, used, history>>
\* A backup from before the redemptions is put back.
BookRestored ==
  /\ enclave.spent # {} /\ Fault
  /\ enclave' = [enclave EXCEPT !.spent = {}, !.until = [a \in Accounts |-> 0]]
  /\ history' = [history EXCEPT !.setBack = {}]
  /\ UNCHANGED <<profile, run, person, rested, world>>

-----------------------------------------------------------------------------
\* The first phrase has been made, or typed in.
Init ==
  /\ \E typed \in BOOLEAN :
       /\ profile = [Empty EXCEPT !.acct = 1, !.verified = typed]
       /\ history = [fate |-> [e \in Epochs |-> None], setBack |-> {}, made |-> {1},
                     typed |-> IF typed THEN {1} ELSE {}, chose |-> 1, overtaken |-> FALSE]
  /\ run = [x \in Commands |-> Idle]
  /\ check = [open |-> FALSE, wrong |-> 0] /\ polled = 0 /\ rested = TRUE
  /\ apple = [live |-> {}, unfinished |-> {}, last |-> 0]
  /\ enclave = [minted |-> [e \in Epochs |-> NoAccount], spent |-> {}, until |-> [a \in Accounts |-> 0], opened |-> 0]
  /\ time = [month |-> 1, grace |-> FALSE, came |-> {}]
  /\ used = [edits |-> 0, faults |-> 0]

Person ==
  \/ \E a \in Accounts : AccountNew(a) \/ AccountRestore(a)
  \/ AccountDelete \/ CheckStart \/ WrongForgotten \/ SetEntry
  \/ PlanCheckout \/ PlanForget \/ PlanPoll
  \/ \E yes \in BOOLEAN : CheckVerify(yes) \/ PollAnswered(yes)
Sync ==
  \/ SyncBegins \/ NoteMint("answered")
  \/ \E at \in run["sync"].todo : SyncNext(at)
Either(x) == Redeem(x) \/ NoteRedeem(x, "answered") \/ Reclaim(x) \/ NoteReclaim(x, "answered")
Fails(outcome) == NoteMint(outcome) \/ \E x \in Commands : NoteRedeem(x, outcome) \/ NoteReclaim(x, outcome)
Around ==
  \/ AppStops \/ Rests
  \/ \E t \in Epochs : Pays(t) \/ PaidTimeOver(t) \/ MomentComes(t)
  \/ GraceOver \/ MonthOver \/ BookRestored
Next ==
  \/ Person \/ Sync \/ BeatBegins
  \/ \E x \in Commands : Either(x)
  \/ \E outcome \in Outcomes \ {"answered"} : Fails(outcome)
  \/ Around

\* Once a minute the interface beats and on a connect it syncs, for as long as the app is
\* used; a call ends; a moment comes.
Fairness ==
  /\ WF_vars(Sync \/ Either("sync")) /\ WF_vars(BeatBegins \/ Either("beat"))
  /\ WF_vars(Rests \/ \E e \in Epochs : MomentComes(e))
Spec == Init /\ [][Next]_vars
FairSpec == Spec /\ Fairness

-----------------------------------------------------------------------------
TypeOK ==
  /\ profile.acct \in Accounts \cup {NoAccount} /\ profile.done \subseteq Epochs
  /\ \A n \in ToSet(profile.notes) \cup ToSet(profile.spent) : n.of \in Accounts /\ n.epoch \in Epochs
  /\ check.wrong \in 0..Tries /\ time.month \in 1..MaxMonth
  /\ \A x \in Commands : ToSet(run[x].due) \subseteq [of : Accounts, epoch : Epochs, jitter : BOOLEAN]

\* A phrase counts as written down only if its words were typed in, three of them or all.
VerifiedIsTyped == profile.verified => profile.acct \in history.typed

\* The phrase on the device is the one the person chose last, or none if deleted, unless
\* that was while a redemption waited for the enclave: its copy is saved after it.
PhraseIsChosen == history.overtaken \/ profile.acct = history.chose
\* ... which is what account_delete promises ("Remove the phrase from this device").
DeleteRemoves == history.chose = NoAccount => profile.acct = NoAccount

\* A month the app will never ask for again was spent on a plan or refused for good.
DoneHasFate == \A e \in profile.done : history.fate[e] # None

\* Paid, open, and not spent on a plan, nor refused because another phrase's note was
\* minted for it.
Missing(e) ==
  /\ Has /\ Open(e) /\ \E t \in apple.live : e \in Covers(t)
  /\ history.fate[e] \notin Accounts \cup {Anothers}
\* Spent on a plan of this account that is gone from the book while the month runs; not
\* one that a note of an earlier month cut short, which is not reclaimed.
Gone(e) ==
  /\ Has /\ ~Active(profile.acct) /\ profile.acct \notin history.setBack
  /\ history.fate[e] = profile.acct
  /\ Open(e) /\ Runs(e) /\ \E n \in ToSet(profile.spent) : n.epoch = e
\* No month stays missing or gone: over calls that fail, commands side by side, another
\* phrase, a stopped app and a book put back (notes_sync, redeem_due, reclaim_plan).
MonthsServed == []<>(\A e \in Epochs : ~Missing(e) /\ ~Gone(e))
=============================================================================
