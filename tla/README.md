# tokumai, in TLA+

tokumai sells access to language models without learning who asks. An app talks, through a
mixnet, to an **enclave** that holds the account book, takes credit for each question, asks
the provider and answers. The enclave has no disk and no network of its own: a **host** next
to it, trusted for neither content nor order, keeps sealed bytes and relays connections. This
directory models the parts of it that section 2 lists, chosen where a wrong order of steps, a
stop, a lost answer or a stale copy can cost someone money, a chat or a way in. TLC checks
them on small instances, and some of their properties are proved for every instance. Section
6 says what is left out. Not everything one would wish holds: several properties hold only
until a named event, which the property itself spells out, and section 4 lists what fails.

Paths below are relative to `src/crates/`, unless they begin with `app/`, which is
`src/app/src-tauri/src/`.

## 1. The system

| part | state it keeps | operations | talks to |
|---|---|---|---|
| account book, kept: `enclave/src/ledger.rs`, `state.rs`, `egress/src/lib.rs` | the book in memory, `Kept {generation, next, since}`, the queue to the writer, `Flushed.at`; on the host a snapshot, a journal, and in the host's memory the last record number | `open_sealed`, `change`, `write_out`, `writer`, `Flushed::wait`; host: `add_record`, `put_snapshot`, reads | vsock exchanges, each a connection and a task of the host, 20 s each |
| account book, credit: `ledger.rs`, `subscriptions.rs` | tables allowance, lots, holds, payments | `hold`, `settle`, `credit_prepaid`, `first_payment`, `allowance_*`, `release_open_holds` | called under one lock by every request and by the beat |
| witness: `enclave/src/witness.rs` | marks and acknowledgements in an S3 bucket with object lock; `told`, `owed` in the writer | `record`, `read`, `may_start` | S3 through the egress proxy; the operator's machine |
| plans: `plans.rs`, `subscriptions.rs`, `core/src/subscription.rs` | a plan row per account key, a rail's owner, the granted base of a period | `subscribe_or_renew`, `renew_key`, `change_tier`, `roll`, `revoke`, `move_plan`, `plan_change`, `tick` | Stripe and Apple, awaited without the lock |
| blind notes: `enclave/src/notes.rs`, `core/src/notes.rs` | payments a note was minted for, notes spent | `mint_admission`, `note_mint`, `note_redeem` | plans |
| requests: `service.rs`, `proto/src/session.rs` | nonces, the cache of answers, strikes, the session key | `sealed`, `chat`, `durably`, `start` | ledger, providers |
| transport frames: `proto/src/frames.rs`, `client/src/mix.rs` | messages half received, answered and kept; an exchange's missing pieces | `Frames::handle`, `Exchange::due`, `accept` | the mixnet |
| doors and cover: `server/src/mix.rs`, `enclave/src/doors.rs`, `cover.rs` | mixnet identities of one enclave and what each door heard; calls counted since a payment | `serve`, watchdog, `reconnect`; `claim`, `missing`, decoys | the mixnet, providers |
| client: `client/src/app.rs`, `mix.rs`, `gateways.rs` | transport, session, doors set aside, policy of retries | `ready`, `call`, `call_aside`, `led_nowhere`, `allowed` | the enclave |
| data key and start: `server/src/bin/tokumai-enclave-nitro.rs`, `enclave/src/kms.rs`, `doors.rs` | the data key, wrapped, and the sealed doors, on the host | get, make, put-datakey, put-doors, the pulse | KMS, host |
| egress proxy: `egress/src/lib.rs` | files, an allowlist | puts and gets, one tunnel per connection | the internet |
| providers, billing: `enclave/src/gemini.rs`, `openai.rs`, `policy.rs`, `core/src/billing.rs`, `pricing.rs` | – | the ceiling of a question, the charge of its answer | providers |
| payment rails: `enclave/src/apple.rs`, `stripe.rs` | – | what a transaction or a charge is worth | Apple, Stripe |
| app, wallet: `app/lib.rs`, `profile.rs` | the phrase, notes and their state, a pending checkout | the commands of the interface, `notes_sync`, the heartbeat | the client |
| app, vault: `app/keystore.rs`, `vault.rs`, `app/public/vault.js` | keys in the platform's keychain, sealed chats and profile | open, save, delete, migrate | keychain, disk |

**How they interact.** A request changes the book in memory under the ledger's lock. In the
same call every statement of the change is sealed to its *place* (generation, number) and
queued. The writer thread carries the queue to the host, one job at a time, for ever. A
purchase, a note or a plan waits until its place is flushed; a question does not. Every 500
changes the whole book is queued as the snapshot of the next generation. A start reads
snapshot and journal back, replays, asks the witness whether a later book has been seen, and
gives back what was held. The app picks a door and an entry gateway, attests the enclave
behind it, seals a request to the keys of that start, sends it in frames, and sends the same
bytes again when nothing comes back.

**What is hard.** The host's exchange outlives the enclave's patience. Enclave and host stop
on their own, at any moment. The statements of one operation are one transaction in memory
and several records on the disk. Requests of one account overlap, and a resend may find the
first still worked on, answered, forgotten or in another life of the enclave. The volume can
be put back to a backup. A rail's answer arrives after the state it was asked for has
changed. Two enclaves can start side by side on one host. The app's commands each load and
save one whole profile. Nothing of this is reached by the unit tests, which run one handler
at a time. `PROJECT.json` lists these as hazards, each at its line with the properties that
would catch it going wrong.

**What makes the parts correct.**

* kept: a start finds every confirmed change, once, in order, and the book opens; everything
  is confirmed in the end. This holds until the host writes for a request nobody waits for any
  more, or puts a record behind a broken one; and a fold that is half done does not open.
* credit: no TOKU is made or lost, whatever overlaps and wherever a stop cuts; a payment
  counts once; pockets are drawn on and given back in the promised order.
* witness: no restored book starts unseen, no other book is refused.
* plans and notes: a period reaches a tier once, a rail has one holder, an account one way to
  pay, and a note and a payment grant once.
* requests: a signed request is carried out once, and what the device is told is true and
  kept.
* frames: an exchange is asked once and ends with its reply, unless it was forgotten or its
  message or its reply is too big.
* start: one data key for one book; addresses the doors once had stay theirs.
* reach: the operator never carries both ends, as far as the directory told when it was read;
  a working door is found.
* wallet and vault: phrase and chats are gone only with their key, until a command saves what
  it made of an older profile; every paid month is served.
* rules: a question costs no more than was held, months tile a plan, money back ends what it
  paid for, a payment hides among enough calls.

## 2. The modules

`PROJECT.json` maps every definition to the lines it stands for.

| module | what it is |
|---|---|
| `DurableBook` | the promise, abstractly: a line of changes of which the disk holds a beginning |
| `Book` | enclave, writer thread and host, with stops and five faults; refines `DurableBook` |
| `Ledger` | allowance, lots, holds, payments as statements, executed in memory and replayed from a cut journal |
| `Witness` | marks, acknowledgements, backups, restores |
| `Plans` | subscriptions on a card or in the App Store, blind notes, refunds, and the answers of the rails in flight |
| `Calls` | one call of a device: sessions, signatures, resends, the enclave's replay protection and its cache |
| `Frames` | one exchange over the mixnet, both ends |
| `Doors`, `Reach` | the doors' loops with their watchdog; the app's way in through them |
| `Start` | boot to serving: the data key, the book, the doors' addresses, the pulse |
| `Wallet`, `Vault` | the profile and its notes; where chats and phrase are kept on four platforms |
| `Question`, `Calendar`, `Papers`, `Cover` | rules without an environment: charges, months, what a payment is worth, cover; composed by `MCRules` |
| `MCBook`, `MCLedger`, `MCPlans`, `MCCalls`, `MCRules` | values and symmetry sets TLC needs |
| `*_proofs` | the theorems about the module they are named for |

### Book

`book` is the sequence of changes applied, a change being a number that names it. `kept`,
`queue` and `flushed` are the fields of that name. `asks[s]` is what the host's connection
`s` is busy with: `sent`, then for a snapshot `renamed` and `removed`, then `kept` or
`refused`, the answer on its way. `awaiting` is the connection the writer listens to; a
connection nobody listens to still goes on, which is how late requests arise.

| action | code |
|---|---|
| `ReadSnapshot`, `Open` | `open_sealed`, two exchanges: something can happen between them; with no snapshot or an empty journal the next generation is queued at once (`Folds`) |
| `Change(k)` | `change`, `write_down`, `write_out`, an operation of k statements, with the fold when `since` reaches the limit |
| `Offer`, `HearKept`, `GiveUp` | the writer's inner loop |
| `AddRecord`, `TornAppend` | `add_record`, under its lock |
| `Rename`, `RemoveJournal`, `Forget` | the three steps of `put_snapshot` |
| `Fails` | every `?` of the host, and a request that does not arrive |
| `EnclaveStop`, `HostStop` | a stop between any two of these |

An empty journal does not begin with the mark of the current form, so `split` takes it for one
in the old form: a start right after a fold folds again, and the first job of its writer is a
snapshot.

`Faults` names what can happen beyond stops, lost answers and failed calls: `late_append` and
`late_snapshot` (a request is carried out after the enclave gave up on it), `mid_fold_stop`,
`failed_removal` and `torn_write`. `BookKept` and the proofs allow all of them. What they do is
recorded: `spoilt` is history that no guard reads, and holds `late` once the host has written
for a request nobody waits for any more (the writer is at another job, or another enclave has
begun to read), and `behind` once a record lies behind one that broke off. A late request for
the job the writer is still offering, a torn record nothing was put behind, a journal that could
not be removed and a stop in the middle of a fold spoil nothing. The properties hold as long as
`spoilt` is empty; `NothingTwice` holds for ever. With a fault that makes no request late the
next enclave reads only when the host has finished what the one before left with it (minutes
against bounded seconds), and the writer gives up on an exchange only when its answer is lost.

The half-done fold is a state of its own (`HalfFolded`): the snapshot is in its place, with the
journal it has taken in still beside it. Nothing is lost in it, and a start refuses it.

`Rename` stands for creating, writing and syncing the temporary file and renaming it (a stop
before the rename changes nothing). A write that breaks off is cut behind the record's
header; one such write lies in a journal. `book` keeps its value over a stop for the
properties' sake only; no action reads it. Not modelled: the journal form without numbers
(`add_record_bare`, read-only history) and a power cut that undoes a rename the directory
sync had not covered.

### Ledger

A statement is a record with a `do`; `Execute` is what SQLite does with it and `Run` a
replay. An operation calls `WriteDown` with its statements: they are executed on `bk` and
appended to `pending`, and `ReachDisk` moves them to `disk`, one handler at a time or, with
`StopInside`, one record at a time. So a stop falls between handlers or inside one; `cut`
remembers which. `CreditConserved` is double-entry bookkeeping: `due` adds up what an account
bought and was granted, less what its answers cost and what its ended periods left, from the
inputs of the operations alone; the pockets and the holds have to come to the same sum.

Lot ids count up (lots are never deleted). After a start hold ids go on from the highest hold
that is open: after a fold SQLite's counter is rebuilt from the rows, so this is the most
reuse of ids there can be. The plan logic is an environment here (`GrantAllowance`,
`AddAllowance`, `LapseAllowance`, at any time); rows of plans and notes belong to `Plans`.

### Witness

The book is only its place, and `disk` the place the host has confirmed, because a mark is
written from `Flushed.at`. Records, folds, marks (written, failed, written and not heard),
stops, backups, restores and acknowledgements are actions. The bucket's clock ticks once per
object, so two objects never have the same time.

### Plans

`rows` are the tables the plan code writes; `sub` and `papers` are outside: what Stripe or
Apple would say, and the transactions Apple has signed, which a device may show at any time
before they end. A call that waits for Stripe is a record in `calls` with what was read when
it was made; the renewal check has its own record, `beat`.

| action | code |
|---|---|
| `PlanCreate`; `PlanStatus`, `Claimed` | `plan_create`; `plan_status` up to Stripe's answer, and `subscribe_or_renew` with it |
| `PlanChange`, `ChangedAtStripe`, `Changed` | `plan_change` up to the call, what Stripe does, `change_tier` |
| `CallFails` | a call or its answer is lost, before or after Stripe carried it out |
| `Present`, `PresentRevoked` | `iap_apply` of a plan: `move_plan` on a restore, `subscribe_or_renew`, `revoke` |
| `MintFromStore`, `AskToMint`, `MintFromCard`; `NoteRedeem` | `note_mint`; `note_redeem`, a list of notes in one lock |
| `Beat`, `HearBack`, `HearRenewed`, `RailSilent` | `tick`: `roll`, then `check_stripe` and `check_apple`, each asked and then applied |
| `Pay`, `RailRenews`, `StoreUpgrade`, `MoneyBack` | the rails, external |

A tick is about half a month and the clock waits for open calls, because a rail is given 20 s
to answer. Months have one length (`Calendar` has the real ones). Which plan is the stalest is
open, and so is the evidence for disputes. A note is the month of the payment it was minted
for. What Stripe says (`Said`) is one of a set: the call for the charges may fail, and then
nothing is known of money that went back. Each handler's changes are one step; a journal cut
inside one is what `Ledger` shows.

`got`, `again`, `replaced` and `astray` are history: what each payment gave, what it gave
twice, whose allowance a move replaced, and whose plan is on another payment, or on an
earlier period, than its allowance. The properties rest on them and no guard reads them.

### Calls

A request is an app and the number of its signature; `sent` holds the exchanges it went out
in, for ever, so any of them may arrive at any later time, more than once or never. `work` is
what the enclave is at; between two awaits of `sealed` other requests come in. `enclave` is
what a stop loses: the nonces seen, the cache of answers, the strikes.

| action | code |
|---|---|
| `ReplyAgain`, `AttestAgain`, `ClockTooFar`, `AlreadyMade` | the early returns of `sealed`, in its order |
| `Question`, `NotAsked`; `Answered`, `NotAnswered`, `Declined` | `chat` up to the provider; its three ways out |
| `Purchase`, `HostConfirmed`, `HostTooSlow` | an operation under `durably` |
| `Flush`, `Stop`, `Start`, `Tick` | the writer's next record, a restart, the clock |
| `Call`, `Attest`, `NotReady`, `Sign`, `Lost`, `GivesUp`, `Hear`, `Cancel` | the device: `call_inner`, `send`, `cancel_chat` |

What a question costs is `Ledger`'s concern and what a purchase grants `Plans`'.

### Frames

One exchange of a random id, so another's only effect on it is that the enclave forgets it
(`trim`). `net` is a set from which a frame is taken, taken and left (delivered again), or
lost. Taking the last part and claiming the exchange are two steps because the lock is
released between them. A message may have up to `MaxParts` parts, of which the enclave takes
`MostParts`, and a reply `MaxChunks` chunks, of which the app fetches `MostChunks`: what is
bigger is refused on either side. `of`, the answer a frame belongs to, no receiver reads before
the reply is put together; there the code compares the total length, here `addsUp` the number
of chunks.

### Start

An enclave's `pc` walks through `tokumai-enclave-nitro.rs`; each call to the host is carried
out in a task of the host's own (`tasks`), which goes on when the enclave has given it up.
`put_once` is its check, its write and its rename in three steps. `announce` has no deadline,
so `hears` guards every announced step. `excused` is history: two puts that both found no key,
two starts with doors under way at once, a directory that could not be read.

### Doors and Reach

`Doors` is the loop of each door with its watchdog. `Reach` adds the app: `order` of doors,
entries allowed by rule A1, `ready` with attestation, `send`, `call_aside`, and what the
person, the device and the operator do between. A connection is two steps: `Aims` reads the
directory and draws the entry, `ConnectDoors` connects to it, and the operator's family may
change between them; `ours.late` remembers which gateways became his in between. One bound,
`MaxFaults`, covers what fails and what is changed.

### Wallet and Vault

`Wallet`: the commands as they interleave at their awaits; each loads the whole profile and
saves the whole. Of the enclave it has what a wallet can tell apart. `Vault`: keychain and
disk step by step on desktop, iOS, Android and a development build, with the move out of
IndexedDB; a stop between any two steps. The iOS make-over of a key is three of them
(`ReadOld`, `TakeOut`, `PutBack`), a save two (`WriteProfile`, into a temporary file of one
name, then `SaveProfile`, the rename). Any number of commands are at the profile side by side.
`history` remembers which of them work on a profile that has been replaced since (`stale`),
what they replaced, and whether two wrote the temporary file at once (`mixed`).

### Question, Calendar, Papers, Cover

Each is a topic of its own over bounded inputs, in one run that picks the topic first.
Prices are integers per unit; the noise of floating point, which `ceil_toku` removes, is left
out. `Calendar` checks `ms_from_civil` and its inverse about month ends of a leap year.
`Cover` runs requests one account at a time (`InParallel = FALSE`).

## 3. Runs

`CHECK_DEADLOCK FALSE` everywhere: the bounds on changes, stops, time and writes end every
behaviour, and an enclave may have refused its book. `BookStops.cfg` is `BookKept` with a
second stop, without the liveness and with `TypeOK` and `DiskIsPrefix`.

| run | what it asks | bounds, and why they suffice |
|---|---|---|
| `BookKept` | the disk opens, confirmed is kept, nothing twice, refinement of `DurableBook`, everything is confirmed in the end, until something has spoilt the files | all five faults, 2 connections, 3 changes, folds every 2, batches of 2, 1 stop: two offers of one job in flight, a fold at the start and one in the middle, each stopped, late or torn, a start on a disk ahead of what was confirmed |
| `BookMidFoldStop` | fails: a restart finds "either the old pair or the new one" (`OldPairOrNew`, `state.rs`) | 1 connection, a stop in the middle of a fold |
| `LedgerBook` | every TOKU accounted for, one lot per payment, the order of pockets | 2 overlapping holds, lots of 1 or 2 TOKU, a changing period, a stop inside a handler: lots that expire under a hold, a period that changes under one |
| `WitnessMarks` | no silent rewind, no refusal without a restore, an owed mark is written | 2 generations of 2 places, 3 objects, 2 restores: rewinds of a rewind |
| `Plans` | one allowance per payment, one way to pay, no month above its tier unless astray, one holder | a card and a store subscription, two tiers, two accounts, 3 payments, changes or refunds, one open call beside the beat, 3 ticks with a month of 2: renewal, upgrade and refund each under an answer in flight, a plan moved and moved back |
| `Calls` | carried out once, twice only over a restart, the truth, kept when told, declines bounded, every call returns | 2 signatures of one device, each sent twice, 1 stop, a cache of one answer |
| `Frames` | asked once, fails only if forgotten or too big, completes | 1 to 3 parts and chunks, of which 2 are taken, a window of 1, one fault, two takings at once |
| `Start` | one key, addresses stay, every start serves or stops | 3 starts, 3 faults, 2 gateways of which the operator holds one |
| `Wallet` | the phrase is chosen, what is done has its fate, every paid month is served | 2 phrases, 2 months, an edit and a fault beside sync and heartbeat |
| `Reach` | never both ends by the directory that was read, doors settle, a working door is found | 2 doors, 2 other gateways, 2 of anything that fails or is changed |
| `Vault` | chats and phrase are kept | four platforms, one command beside the page, 2 edits, refusals and stops (`VaultTwoCommands.cfg`: `PhraseKept` with two commands, too long a run for the list) |
| `Rules` | a charge in its bounds, months that tile, worth what was paid, enough cover | two providers' ways of counting, two sizes of picture, month ends of a leap year, 3 charges, 4 requests |

Each property of a run that passes has a mutant in `PROJECT.json`: a plausible mistake in a mapped definition
(written beside it, under a comment "A bug: ...") that breaks it.

**Fairness.** `Book`: the enclave is started again (`ReadSnapshot`, `Open`); the writer loops
for ever and each exchange has a timeout (`Offer`, `GiveUp`: weak); a task of the host that
nobody listens to any more ends (weak); what the writer listens to may fail or be too late any
number of times, but not for ever, at any of its steps (`AddRecord`, `Rename`, `RemoveJournal`,
`Forget`, `HearKept`: strong).
`Witness`: the writer's loop comes round every 30 s and the bucket is not away for ever
(`WriteMark`: strong). `Calls`: every step of a device has a deadline (300 s an exchange,
180 s a connect). `Frames`: the loop goes round (QUIET), RETRY passes, what is not lost is
delivered, and a question is answered. `Start`: every call ends in its own deadline, host
tasks run to their end, and the host takes announcements again, which has no deadline in the
code (see below). `Reach`: the tasks of a door run, a posted packet arrives, a call goes on
and the interface asks again. `Wallet`: once a minute the interface beats, on a connect it
syncs, and a moment a note waits for comes.

## 4. What the models show of the code

With the bounds above every listed property holds. While modelling, these came out as well.
Where a `.cfg` is named it gives the counterexample: `tlc -config <cfg> <module>`.

**Book, ledger, witness, plans**

* `BookMidFoldStop` (`MCBook`) is a run and a finding: a host that stops between rename and
  removal leaves a pair that does not open, where `state.rs` says that a restart in the middle
  "finds either the old pair or the new one". Every start refuses it until someone removes the
  journal by hand; no change is lost. A journal that cannot be removed ends the same way if the
  enclave stops before its next offer succeeds.
* `BookLateSnapshot.cfg` (`MCBook`): a snapshot carried out late removes a journal that has
  confirmed records in it (`FoundAgain`). With `Faults = {"late_append"}` instead, a record of
  the enclave before lands late and takes the number of a new one, which is then answered as
  kept, because `add_record` compares numbers and no generations. These are what `late` in
  `spoilt` stands for, and they are why `ConfirmedKept` says "until".
* With `Faults = {"torn_write"}`, a record offered again after a broken write lands behind the
  broken bytes, and the journal does not open any more (`behind` in `spoilt`).
* `LedgerTornPurchase.cfg` (`MCLedger`): a purchase cut between its two records leaves a
  payment no resend credits; the same cut loses what a hold took and gives a settle's refund
  twice. A hold taken in one period and settled in the next adds to the new allowance.
* `WitnessAcceptTwice.cfg`: one acknowledgement lets two restores of a backup start.
* `PlansYear.cfg` (`MCPlans`): the beat grants a yearly plan's next month without recording
  it, so a change down and up in that month adds the step once too often.
* `PlansNotes.cfg` (`MCPlans`): of two notes in one call, which is what the app sends when
  two are due, the second begins at the same moment as the first; its month is not granted,
  and it is spent.
* `PlansLadder.cfg` (`MCPlans`): with three tiers a month can go above the highest one. An App
  Store plan is raised twice inside a month, and the two transactions it has left behind,
  which have not ended, are shown again after the last (`plan_for` does not ask whether a
  transaction was superseded): the first puts the plan back on its old period, and the
  second then counts as a higher tier of it. `granted_base` knows of one period, so it counts
  the step from the tier the plan happens to be on, where the comment in `renew_key` says
  "the step above what this period has had, once". The proof needed this exception before
  any run showed it: `astray` names the accounts that are in that state.
* "Restore purchases" replaces the allowance row of the account it moves a plan to, and with
  it the record of what that account was granted; `OneAllowanceUnlessReplaced` says that this
  is the only way to be granted twice.

**Calls and frames**

* `ChargedOnce` fails: a question carried out in one life whose answer is lost over a restart
  is told to attest again, signed afresh and charged again.
* `SealedOnce` and `StaleIsSignedAgain` fail: the refusal of a clock is sealed like any
  answer, so the client's branch for it in `call_inner` is never taken.
* `NeverTurnedAway` fails: a resend of what is still worked on gets "already made", and the
  call ends in an error although it is charged.
* A stopped wait (`cancel_chat`): the same question asked again is a new signature and is
  charged again, where the comment in `lib.rs` says a resend is charged once.
* `ForgottenIsTold` fails: an enclave that forgot half a message acknowledges the last part
  until the deadline instead of saying that it forgot, because acknowledged parts are never
  sent again.

**Start, doors, reach**

* `StartTwoKeys.cfg`: `put_once` checks and then writes; two starts can both find no key and
  the later rename replaces the first (`KeyNeverReplaced`). A start also stops with an error
  when only the answer of its put was lost.
* A file that cannot be read counts as not there (`read_or_empty`). Doors are put only after
  every gateway has opened or failed, up to five minutes. A host that does not take
  announcements holds whoever makes one, the watchdog's report included.
* A bell rung while a door reconnects tears down the fresh door, which the comment in
  `mix.rs` says must not happen (`TornDownForSilence`); with `DeafAfter = 1` that would go on
  for ever, with the code's 7 minutes to 2-minute pings it settles.
* `ReachMeanwhile.cfg`: a gateway that the operator takes over between the reading of the
  directory and the connection is entered all the same (`NotEvenMeanwhile`).
* `Served` and `NotShutOut` fail: with a session, `send` never sets a dead door aside; and
  when every door was silent once, the first of the silent ones gets every try.

**Wallet, vault, rules**

* `WalletDelete.cfg`: `redeem_due` loads the profile before its call and saves that copy
  after it, over a deletion in between. Notes and what was spent are not cleared when the
  phrase changes; one note of a closed month makes the enclave's answer final for the list.
* `VaultStale.cfg`: nothing locks the profile between `profile::load` and `profile::save`. A
  setting loaded before `account_new` has saved, and saved after it, puts the old profile back,
  and the new phrase is gone (`PhraseFound`). Two saves at once write one temporary file.
  `PhraseKept` says that these two, and the loss of the key, are the only ways.
* `VaultKeys.cfg`, `VaultDeleted.cfg`, `VaultAside.cfg`: a stop in the iOS make-over loses a
  key; after an incomplete move a deleted chat comes back; one refusal of the keychain moves
  a good profile aside.
* `RulesRefund.cfg` (`MCRules`): a refund counts as the current period's by its date alone.
* `CoverParallel.cfg` (`MCRules`): with requests of one account in parallel an account's own
  calls count as its cover.

## 5. What is proved

Each `*_proofs` module extends the module it is about and proves its theorems for every
value of the constants, from the named assumptions on them that the module declares. The
runs show the same properties on small instances; the inductive invariants TLC can evaluate
were checked on those before they were proved.

| module | theorem | what it says |
|---|---|---|
| `Book_proofs` | `BookTypeCorrect` | every variable keeps its kind, whatever the host's faults |
| | `BookHoldsNothingTwice` | a book that opens holds no change twice, spoilt or not (`NothingTwice`) |
| | `BookAlwaysOpens` | until something spoils the files the book on the disk opens, or a fold is half done (`DiskOpens`) |
| | `BookKeepsConfirmed` | until then, what was marked flushed is on the disk, a half-done fold included (`ConfirmedKept`) |
| | `BookIsDurable` | until then, book, writer and host implement `DurableBook` (`KeepsThePromise`) |
| `Ledger_proofs` | `LedgerTyped` | every row is of its kind, no pocket below nothing, every request has its hold (`TypeOK`) |
| | `CreditNeverLeaks` | without a stop every account has what it is due (`CreditConserved`) |
| | `CreditOnlyUsed` | over stops between handlers no lot gains, and none loses what was not used (`NeitherMadeNorLost`) |
| | `APaymentIsOneLot` | a payment is one lot, never two (`PaymentIsOneLot`) |
| `Plans_proofs` | `PlansTyped` | every table is of its kind, and what waits to be applied is of a subscription that was sold |
| | `OnePaymentOneAllowance` | a payment grants a period once, unless an allowance was replaced (`OneAllowanceUnlessReplaced`) |
| | `PaymentsPayOneWay` | a payment pays as a plan or as notes (`PaysOneWay`) |
| | `SubscriptionHasOneHolder` | a rail pays the plan of the account it is bound to (`OneHolder`) |
| | `MonthStaysWithinTier` | any ladder of tiers: no month above the highest, while plan and allowance are of one payment (`MonthWithinTierUnlessAstray`) |
| `Witness_proofs` | `WitnessTypeCorrect` | every variable keeps its kind |
| | `NoRewindUnseen` | nobody runs behind a mark but on an acknowledgement (`NoSilentRewind`) |
| | `UnrestoredStarts` | who restored nothing is never refused (`NeverRefusedUnrestored`) |
| `Frames_proofs` | `QuestionAskedOnce` | one question is asked once, unless it was forgotten (`AskedOnce`) |
| | `FailureHasCause` | an exchange fails only when it was forgotten or is too big (`FailsOnlyForCause`) |
| | `ReplyIsOneAnswer` | a reply that was not forgotten is all of one answer |
| `Calls_proofs` | `RequestCarriedOutOnce` | a signed request is carried out at most once (`CarriedOutOnce`) |
| | `DevicesAreToldTheTruth` | what a device is told is what happened to its request (`ToldTheTruth`) |
| | `PurchaseToldIsKept` | a purchase a device was told of is on the disk (`AnsweredIsKept`) |
| | `DeclinesStayBounded` | declines pass their limit only by questions asked at one time (`DeclinesBounded`) |
| | `ChargedAgainOnlyAfterRestart` | one call is charged twice only over a restart (`ChargedOnceUnlessRestarted`) |
| `Start_proofs` | `StartTypeCorrect` | every variable keeps its kind |
| | `EveryStartHasOneKey` | every start has the key the host keeps (`OneKey`) |
| | `KeptAddressesStay` | an address the host keeps stays (`AddressesStay`) |
| `Vault_proofs` | `ChatsAreKept` | a chat is gone only with the vault's key, any number of commands beside (`ChatKept`) |
| | `PhraseIsKept` | any number of commands: the phrase is gone only with the profile's key, until one saves what it made of an older profile or two write at once (`PhraseKept`) |

### The arguments

**Book.** All theorems are for every subset of the five faults. `HomeInv` is enough for
`NothingTwice`, spoilt or not: a change is sealed to one place once, and is in a snapshot only
of a later generation, so no pair that opens has it twice.

The others rest on `LineInv`: until something has spoilt the files there is a `base` such that
each generation begins at a fixed point of the line of changes, and record `n` of generation
`g` carries change `base[g] + n` of it (`Carried`). The numbers the host compares; the
generation of a record it takes on trust, so what is on its way has to be known as well. Of
`base` it is said that the disk is a beginning of the line (`DiskLine`); that the queue goes on
without a gap to the end of the book in memory (`QueueLine`, `Succeeds`); and that the head of
the queue comes next on the disk (`HeadNext`), is there already, its answer lost (`HeadKept`),
or is a snapshot in its place beside the journal it has taken in (`HeadHalf`): a host that
stopped there hears the same snapshot again from the enclave it stopped under. `HostLine` says
of the host that it counts right except between removing the journal and forgetting the number
(`LastLine`), that a fold it is at has its snapshot in place (`AskLine`), and that what it has
answered for is on its disk (`WaitLine`). A request nobody
waits for needs no word, because the step in which it writes is the one that spoils the files;
one that waits for the job still at the head is the same job twice, and does what a second
offer does. A new generation is begun by `Change` and by `Open`, which is where `base` grows
by a point (`Folds`). Under the mapping of `KeepsThePromise` every step is then one of
`DurableBook` or none, and the step that spoils the files is its `Break`.

**Ledger.** Two things have to be known: what a sum over the tables becomes when a row
changes, and where a run of statements leads. Both are recursive (`SumFunction`, `FoldLeft`),
and the library's induction takes an operator the provers cannot be given. But induction over
a *set* they can: `InductionOnNumbers` and `InductionOnSubsets` follow from
`NatLessThanWellFounded` and `WFMin`, and from them that the partial results of a fold exist
and that each is one step from the one before (`SumUnfolds`, `RunSteps`, `DrawSteps`,
`FlatIs`). On these rest the lemmas about the operators: what a draw takes (`TakenIs`: all
that is needed if there is as much, of no pocket more than it has), that lots and holds can be
put in order (`OrderThere`), and what moving, holding, settling and giving back do to every
sum (`MovesRun`, `HoldSums`, `GivesSum`).

`Handled` is what one handler promises: open requests and holds fit (`Fit`), balanced accounts
stay balanced, and its records lead from the book before to the book after through books whose
lots were all sold (`Way`, `Booked`). The invariant `LedgerInv` needs the disk as well, because
a start goes on from there: `Chain` says that books lead from the one on the disk, handler by
handler, to the one in memory. `Booked` holds of every book on the way; `Good` (a lot has what
it was sold for, less at most what was spent of it, and a payment on record has its lot) only
of the books between two handlers, which is why `NeitherMadeNorLost` asks for no stop inside
one and why a payment is never two lots even with one. A `ReachDisk` shortens the chain, a
`Stop` forgets it, and a start that gives every hold back (`ReleasedAll`) begins a new one.
TLC checked the same invariant, the chain written out, with the bounds of `LedgerBook`.

**Plans.** An answer may be applied long after it was given, so the invariant asks little of
it: it is of a subscription that was sold, by the interval it is sold by, and began in the
past (`World`). Everything else is said of the tables and of what was given (`RowsOk`), and
each operation on the tables has a lemma that says how one account's row may go on under any
such word (`RowSteps` for a renewal, `RowOk` for the others): the period of its allowance
never goes back, a period that is granted is written down with its tier (`Steady`), and a
plan on a payment that was minted has ended (`AllEnded`). A period is granted only if it is
later than the allowance's, and a gift is of no later one (`PlansIn`), so it is given once;
a note is minted of a rail nobody has bound, and a rail any of whose months was minted binds
no plan, so a payment pays one way. A list of notes is a fold: it is redeemed step by step
(`NoteSteps`), with the induction over numbers that `Ledger` uses. A move takes row and gifts
along (`MoveKept`), except where it replaces an allowance. Writing `Steady` down as the
reason for `MonthWithinTier` showed it to be false with a third tier (section 4), hence
`astray`.

**Witness.** `Ahead`: while the book runs without an acknowledgement no mark is after it. A
start has this from `may_start`, a mark is written at the place of the book or before it, and
the book only moves on.

**Frames.** `AskedInv`: an enclave that holds no answer and makes none has forgotten every
answer there was. `OneInv`: while nothing was forgotten there is one answer, every frame
and every chunk is of it, and a failure is on its way only for what is too big.

**Calls.** `TruthInv` joins what is linked (`LinkInv`: who sealed what to which start), what
is remembered (`SightInv`: a request that was let in is in `seen` or too old for the clock,
because `NonceKeep` is twice `ClockSkew` and an accepted time is at most the skew ahead),
that a request is carried out once (`OnceInv`) and that what is on its way to a device is so
(`SaidInv`). `KeptInv`: what waits for the book stands in the queue where its mark says, or
is on the disk. `DeclineInv`: strikes and the questions being asked stay under their sum.
`SignInv`: a signature that is not the first follows an answer "attest again", which is given
only to what was sealed to an earlier start; so two requests of one call are of two starts.

**Start.** A step of an enclave is one of four (`Moved`): it walks on, lays out doors, hands
the host a key, or hands it doors. `KeyInv`: unless two puts both found no key, at most one
put is past its check, and none once a key is kept; so the kept key is never replaced, and a
key in use is the host's. `DoorInv`: at most one enclave or task has doors under way, and
its addresses hold every one the host keeps, sealed under the one key.

**Vault.** `VaultInv` and `PhraseInv` hold as long as the key is not lost, `PhraseInv` also
only until two commands write the temporary file at once. For the chats: the
page's worker alone has to do with the vault's key, and is done with it once the chats are
listed (`KeyFits`, `PageFits`); what is to be moved does not open, and nothing is left out of
the move (`MoveFits`); a chat's file holds its last version or nothing, and holds it by the
time the old store loses its key (`ChatFits`). Commands beside the page do not matter. For
the phrase they do: what a command saves is what the profile had when it loaded it, or what
the person chose (`Carries`), and that is the present one as long as no other has saved since,
which `stale` tells.

### What stays model-checked

* Liveness: `ENABLED` and fairness are beyond the prover here.
* `PocketsInOrder` of `Ledger`: which pocket a draw reaches, and which a settle, needs more of
  `Taken` than the amounts that `TakenIs` gives.
* `Question` and `Calendar` multiply and divide variables, mostly outside the arithmetic the
  provers decide.
* `Papers` and `Cover`: their sums and folds can be reasoned about with the lemmas of
  `Ledger_proofs`; nothing of them is proved yet.
* `YearWithinTier`, `MonthWithinTier` and `SpentNoteGrants` of `Plans` are false, as section 4
  says, and its `TypeOK` bounds times by the run's own clock.
* `Doors`, `Reach` and `Wallet`: their invariants need no more than `Start`'s and `Vault`'s
  did, and come next.

## 6. Not modelled

Cryptography (sealing, blind signatures, attestation) is an assumption: what is shown as
signed was signed. Providers' and rails' HTTP and JSON, the egress tunnels, the operator's
counts and tools, the interface and its on-device detectors hold no state these properties
rest on. `ghost.rs` promises a chance per minute and nothing about a step. The old journal
form, evidence for disputes, prepaid credit in the app, several entries tried in one
connection and overlapping saves of one chat are left out. In `Wallet` the enclave's effect
and the app's handling of the answer are one step; in `Plans` one handler is. Vendored and
generated code is not ours.

What the plan has left: `Plans` composed with `Ledger`, its actions in the place of
`GrantAllowance`, `AddAllowance` and `LapseAllowance`; and the proofs named at the end of
section 5.
