-------------------------------- MODULE Plans --------------------------------
(***************************************************************************)
(* Plans and blind notes (crates/enclave/src/plans.rs, subscriptions.rs,   *)
(* notes.rs): a subscription on a card (Stripe) or in the App Store, or a  *)
(* note minted from one, gives an account an allowance per period.         *)
(*                                                                         *)
(* The enclave asks the rails without its lock and applies their answers   *)
(* to the rows as they are then.  A call that waits for a rail is a record *)
(* in `calls` (the app's) or in `beat` (the renewal check's), with what    *)
(* was read when it was made.                                              *)
(*                                                                         *)
(* Every month has the same length here, and what is left of an allowance  *)
(* is Ledger's concern.                                                    *)
(***************************************************************************)
EXTENDS Integers, Sequences, FiniteSets, SequencesExt

CONSTANTS
  Accounts,
  Cards, Stores,  \* subscriptions at Stripe and in the App Store
  Nobody,
  TIERS,          \* the monthly allowance of each tier, ascending
  Intervals,      \* the intervals sold: yearly (TRUE), monthly (FALSE)
  Month,          \* length of a month, in ticks
  YearMonths,     \* 12
  Grace,          \* GRACE_MS, in ticks
  MaxNotes,       \* notes in one call of note.redeem, 12
  Offered,        \* bound: the tiers a plan is bought at
  MaxMinted,      \* bound: notes minted
  MaxCalls,       \* bound: calls of apps waiting for Stripe at one time
  MaxEvents,      \* bound: payments, changes and refunds at the rails
  MaxTime         \* bound: the clock

Tiers == 1..Len(TIERS)
Rails == Cards \cup Stores

ASSUME PlansAssumption ==
  /\ TIERS \in Seq(Nat \ {0}) /\ TIERS # <<>>
  /\ \A t, u \in Tiers : t < u => TIERS[t] < TIERS[u]
  /\ Offered \subseteq Tiers /\ Intervals \subseteq BOOLEAN
  /\ {Month, YearMonths} \subseteq Nat \ {0}
  /\ {Grace, MaxNotes, MaxMinted, MaxCalls, MaxEvents, MaxTime} \subseteq Nat
  /\ Accounts \cap Rails = {} /\ Cards \cap Stores = {} /\ Nobody \notin Accounts \cup Rails

VARIABLES
  now,
  sub,      \* what each rail would say of its subscription
  papers,   \* the transactions the App Store has signed
  rows,     \* the enclave's tables: plan, owner of a rail, allowance, minted, spent
  calls,    \* calls of apps that wait for Stripe
  beat,     \* the rails the renewal check still has to ask about, and the answer it has
  events,   \* payments, changes and refunds so far
  got,      \* history: what each payment has given, a month of plan or a note
  again,    \* history: what a payment has given twice
  replaced, \* history: accounts whose allowance another account's has replaced
  astray    \* history: accounts whose plan is on another payment than their allowance

vars == <<now, sub, papers, rows, calls, beat, events, got, again, replaced, astray>>
rails == <<sub, papers, events>>
history == <<got, again, replaced, astray>>

-----------------------------------------------------------------------------
(* Time.                                                                   *)

Lesser(m, n) == IF m < n THEN m ELSE n

\* epoch_of_ms, epoch_end_ms: the calendar month an instant lies in, and its end.
Epoch(t) == (t - 1) \div Month
EpochEnd(e) == 1 + (e + 1) * Month

\* epochs_covered: the calendar months a payment can be minted for.
Covered(paid) ==
  {Epoch(Lesser(paid.start + (i + 1) * Month, paid.until) - 1) :
     i \in {j \in 0..(IF paid.yearly THEN YearMonths - 1 ELSE 0) :
              paid.start + j * Month < paid.until}}

NoSlice == [from |-> 0, to |-> 0]
\* slice_at: the allowance period `paid` is in at `t`.
Slice(paid, t) ==
  IF paid.until <= t \/ paid.start = 0 \/ paid.start >= paid.until THEN NoSlice
  ELSE IF ~paid.yearly THEN [from |-> paid.start, to |-> paid.until]
  ELSE LET k == IF t < paid.start THEN 0
                ELSE Lesser((t - paid.start) \div Month, YearMonths - 1)
       IN [from |-> paid.start + k * Month,
           to |-> IF k = YearMonths - 1 THEN paid.until
                  ELSE Lesser(paid.start + (k + 1) * Month, paid.until)]

\* A bug: the step is taken the wrong way round.
Prorata_Down(from, to, slice, t) ==
  ((TIERS[from] - TIERS[to]) * Lesser(slice.to - t, slice.to - slice.from))
    \div (slice.to - slice.from)
\* prorata_toku: the step between two tiers for the rest of a period, floored.
Prorata(from, to, slice, t) ==
  ((TIERS[to] - TIERS[from]) * Lesser(slice.to - t, slice.to - slice.from))
    \div (slice.to - slice.from)

-----------------------------------------------------------------------------
(* The tables.  A note's rail is its account's own name.                   *)

NoPlan == [rail |-> Nobody, tier |-> 1, yearly |-> FALSE, start |-> 0, until |-> 0,
           active |-> FALSE, grantedTier |-> 1, grantedPeriod |-> 0]
NoAllowance == [period |-> 0, ends |-> 0, granted |-> 0]
IsNote(rail) == rail \in Accounts
PaidAt(plan, t) == plan.active /\ plan.until > t

SetAllowance(slice, tier) == [period |-> slice.from, ends |-> slice.to, granted |-> TIERS[tier]]
\* allowance_add and allowance_lapse are UPDATEs: of no row they do nothing.
AddAllowance(al, n) == IF al.period = 0 THEN al ELSE [al EXCEPT !.granted = @ + n]
LapseAllowance(al) == [al EXCEPT !.granted = 0]

\* A bug: the tier of the plan stands for what the period has had.
GrantedBase_Tier(plan, from) == plan.tier
\* granted_base: the tier the period's allowance already stands at.
GrantedBase(plan, from) == IF plan.grantedPeriod = from THEN plan.grantedTier ELSE plan.tier

RecordGranted(plan, from, tier) == [plan EXCEPT !.grantedTier = tier, !.grantedPeriod = from]

\* attach_refusal: the rail is another account's, or the account pays for another plan.
AttachRefused(b, a, rail, t) ==
  \/ rail \in Rails /\ b.owner[rail] \notin {Nobody, a}
  \/ b.plan[a].rail \notin {Nobody, rail} /\ PaidAt(b.plan[a], t)

\* A rail any of whose months was minted into a note binds no plan.
MintedAlready(b, rail, said) ==
  \E n \in b.minted : n.rail = rail /\ n.epoch \in Covered(said)

\* renew_key refuses, or a rail that reports an ended period starts nothing.
Refuses(b, a, rail, said, t) ==
  \/ AttachRefused(b, a, rail, t)
  \/ ~IsNote(rail) /\ MintedAlready(b, rail, said)
  \/ said.until <= t /\ b.plan[a].rail = Nobody

\* renew_key: what the rail said becomes the plan; a period that has not been granted
\* is, and a higher tier inside one that has is topped up.
Renew(b, a, rail, said, t) ==
  LET old == b.plan[a]
      plan == [old EXCEPT !.rail = rail, !.tier = said.tier, !.yearly = said.yearly,
                          !.active = said.until > t, !.until = said.until,
                          !.start = IF said.start > 0 THEN said.start ELSE @]
      slice == Slice(plan, t)
      base == GrantedBase(old, slice.from)
      grant == slice.from > b.allowance[a].period
      topUp == ~grant /\ slice # NoSlice /\ old.rail = rail /\ said.tier > base
  IN IF Refuses(b, a, rail, said, t) THEN b
     ELSE [b EXCEPT
       !.owner = IF IsNote(rail) THEN @ ELSE [@ EXCEPT ![rail] = a],
       !.plan[a] = IF grant \/ topUp THEN RecordGranted(plan, slice.from, said.tier) ELSE plan,
       !.allowance[a] =
         IF grant THEN SetAllowance(slice, said.tier)
         ELSE IF topUp THEN AddAllowance(@, Prorata(base, said.tier, slice, t)) ELSE @]

\* change_tier: Stripe has changed the plan.
ChangeTier(b, a, tier, t) ==
  LET plan == b.plan[a]
      slice == Slice(plan, t)
      base == IF slice = NoSlice THEN plan.tier ELSE GrantedBase(plan, slice.from)
      topUp == slice # NoSlice /\ tier > base
      changed == [plan EXCEPT !.tier = tier]
  IN IF plan = NoPlan THEN b
     ELSE [b EXCEPT
       !.plan[a] = IF topUp THEN RecordGranted(changed, slice.from, tier) ELSE changed,
       !.allowance[a] = IF topUp THEN AddAllowance(@, Prorata(base, tier, slice, t)) ELSE @]

\* roll: a new month of a paid plan is granted, an allowance that has ended lapses.
Roll(b, t) ==
  LET slice(a) == IF PaidAt(b.plan[a], t) THEN Slice(b.plan[a], t) ELSE NoSlice
      has(a) == b.plan[a] # NoPlan
  IN [b EXCEPT
       !.plan = [a \in Accounts |-> [b.plan[a] EXCEPT !.active = PaidAt(b.plan[a], t)]],
       !.allowance = [a \in Accounts |->
         IF ~has(a) THEN @[a]
         ELSE IF slice(a).from > @[a].period THEN SetAllowance(slice(a), b.plan[a].tier)
         ELSE IF slice(a) = NoSlice /\ t >= @[a].ends THEN LapseAllowance(@[a])
         ELSE @[a]]]

\* What is left of a plan that ends now.
Ended(plan, t) == [plan EXCEPT !.active = FALSE, !.until = Lesser(@, t)]
\* A bug: the allowance's row goes, and with it what says the period was granted.
Revoked_NoRow(b, a, t) ==
  [b EXCEPT !.plan[a] = Ended(@, t), !.allowance[a] = NoAllowance]
Revoked(b, a, t) ==
  [b EXCEPT !.plan[a] = Ended(@, t), !.allowance[a] = LapseAllowance(@)]

\* revoke: the money went back; the plan on that rail ends.
EndsBy(b, rail) == b.owner[rail] # Nobody /\ b.plan[b.owner[rail]].rail = rail
Revoke(b, rail, t) == IF EndsBy(b, rail) THEN Revoked(b, b.owner[rail], t) ELSE b

\* move_plan: "Restore purchases" on another account.
CanMove(b, rail, to, t) ==
  /\ b.owner[rail] \notin {Nobody, to}
  /\ b.plan[to].rail \notin {Nobody, rail} => ~PaidAt(b.plan[to], t)
  /\ b.plan[b.owner[rail]].rail = rail
\* A bug: the allowance stays with the account the plan leaves, too.
MovePlan_Copies(b, rail, to) ==
  LET from == b.owner[rail]
  IN [b EXCEPT !.plan = [@ EXCEPT ![to] = b.plan[from], ![from] = NoPlan],
               !.allowance = IF @[from].period = 0 THEN @ ELSE [@ EXCEPT ![to] = b.allowance[from]],
               !.owner[rail] = to]
MovePlan(b, rail, to) ==
  LET from == b.owner[rail]
      allowances == [b.allowance EXCEPT ![to] = b.allowance[from], ![from] = LapseAllowance(@)]
  IN [b EXCEPT !.plan = [@ EXCEPT ![to] = b.plan[from], ![from] = NoPlan],
               !.allowance = IF b.allowance[from].period = 0 THEN @ ELSE allowances,
               !.owner[rail] = to]

-----------------------------------------------------------------------------
(* The rails (external): Stripe and the App Store.                         *)

Unsold == [tier |-> 1, yearly |-> FALSE, start |-> 0, until |-> 0, back |-> "no", buyer |-> Nobody]
Length(yearly) == IF yearly THEN YearMonths * Month ELSE Month
Sold(r) == sub[r].start > 0
PaidFor(r) == Sold(r) /\ sub[r].until > now

Paper(r, s) == [rail |-> r, tier |-> s.tier, yearly |-> s.yearly, start |-> s.start, until |-> s.until]
Happens == events < MaxEvents /\ events' = events + 1
Sells(r, s) ==
  /\ Happens
  /\ sub' = [sub EXCEPT ![r] = s]
  /\ papers' = IF r \in Stores THEN papers \cup {Paper(r, s)} ELSE papers

\* Paid in the App Store, or at a checkout that was opened before.
Pay(r, tier, yearly) ==
  LET of == IF r \in Cards THEN sub[r] ELSE [Unsold EXCEPT !.tier = tier, !.yearly = yearly]
  IN /\ ~Sold(r)
     /\ r \in Cards => sub[r].buyer # Nobody /\ tier = sub[r].tier /\ yearly = sub[r].yearly
     /\ Sells(r, [of EXCEPT !.start = now, !.until = now + Length(yearly)])
     /\ UNCHANGED <<now, rows, calls, beat, history>>

\* The next period is charged.  A chargeback stays on the customer's record, a refund is
\* of its period; the App Store renews nothing it has refunded.
RailRenews(r) ==
  /\ Sold(r) /\ sub[r].until = now
  /\ r \in Stores => sub[r].back = "no"
  /\ Sells(r, [sub[r] EXCEPT !.start = now, !.until = now + Length(sub[r].yearly),
                             !.back = IF @ = "disputed" THEN @ ELSE "no"])
  /\ UNCHANGED <<now, rows, calls, beat, history>>

\* The App Store changes a plan to a higher tier: a new transaction, from now.
StoreUpgrade(r, tier) ==
  /\ r \in Stores /\ PaidFor(r) /\ sub[r].back = "no"
  /\ tier > sub[r].tier
  /\ Sells(r, [sub[r] EXCEPT !.tier = tier, !.start = now, !.until = now + Length(sub[r].yearly)])
  /\ UNCHANGED <<now, rows, calls, beat, history>>

MoneyBack(r, how) ==
  /\ PaidFor(r) /\ sub[r].back = "no"
  /\ r \in Stores => how = "refunded"
  /\ Happens
  /\ sub' = [sub EXCEPT ![r].back = how]
  /\ UNCHANGED <<now, papers, rows, calls, beat, history>>

Word(r, until) ==
  [tier |-> sub[r].tier, yearly |-> sub[r].yearly, start |-> sub[r].start, back |-> sub[r].back,
   until |-> until]
\* Stripe::subscription: a subscription that is not active is not paid; the renewal check
\* passes 0 for its end.  The charges are asked for after it: when that fails, no money is
\* known to have gone back.
StripeSays(r) ==
  LET word == Word(r, IF PaidFor(r) THEN sub[r].until ELSE 0)
  IN {word, [word EXCEPT !.back = "no"]}
\* subscription_status: the last transaction of the subscription, its end signed as it is.
AppleSays(r) == {Word(r, sub[r].until)}
\* What rail r may answer when it is asked.
Said(r) == IF r \in Stores THEN AppleSays(r) ELSE StripeSays(r)
NoWord == [tier |-> 1, yearly |-> FALSE, start |-> 0, until |-> 0, back |-> "no"]

-----------------------------------------------------------------------------
(* What the enclave does under its lock: `b` becomes the tables, and what  *)
(* changed from `of` to `b` is what a payment has given.                   *)

Granted(of, b, a) == b.allowance[a].period > of.allowance[a].period
Given(of, b) ==
  {[rail |-> b.plan[a].rail, pay |-> b.plan[a].start, way |-> "plan", month |-> b.allowance[a].period] :
     a \in {x \in Accounts : b.plan[x].rail \in Rails /\ Granted(of, b, x)}}
\* A plan goes astray when it is put on another payment and nothing is granted, or on a
\* period before the one its allowance is of; the next grant brings it back.
GoesAstray(of, b, a, t) ==
  LET slice == Slice(b.plan[a], t)
  IN \/ b.plan[a].rail # of.plan[a].rail
     \/ slice # NoSlice /\ slice.from < b.allowance[a].period
Astray(of, b, before, t) ==
  {a \in Accounts : ~Granted(of, b, a) /\ (a \in before \/ GoesAstray(of, b, a, t))}

Commit(b, given) ==
  /\ rows' = b
  /\ got' = got \cup given
  /\ again' = again \cup (given \cap got)
Keep(b) ==
  /\ Commit(b, Given(rows, b))
  /\ astray' = Astray(rows, b, astray, now)
  /\ UNCHANGED replaced

Calling(op, a, r, said) == [op |-> op, acct |-> a, rail |-> r, said |-> said]
Waits(c) == Cardinality(calls) < MaxCalls /\ calls' = calls \cup {c}

HasPaidPlan(a) == PaidAt(rows.plan[a], now)
\* create_subscription: the checkout carries its account's tag.
Checkout(a, tier, yearly) == [Unsold EXCEPT !.buyer = a, !.tier = tier, !.yearly = yearly]
\* plan_create: a checkout is opened for an account without a paid plan.
PlanCreate(a, r, tier, yearly) ==
  /\ r \in Cards /\ sub[r].buyer = Nobody
  /\ ~HasPaidPlan(a)
  /\ sub' = [sub EXCEPT ![r] = Checkout(a, tier, yearly)]
  /\ UNCHANGED <<now, papers, events, rows, calls, beat, history>>

\* checkout_subscription: complete and paid, under the tag of the account that opened it.
CheckoutPaid(r, a) == r \in Cards /\ sub[r].buyer = a /\ Sold(r)
\* plan_status: only the account that opened the checkout; Stripe says it is paid.
PlanStatus(a, r) ==
  /\ CheckoutPaid(r, a) /\ PaidFor(r)
  /\ \E said \in Said(r) : Waits(Calling("claim", a, r, said))
  /\ UNCHANGED <<now, rails, rows, beat, history>>
Claimed(c) ==
  /\ c \in calls /\ c.op = "claim"
  /\ calls' = calls \ {c}
  /\ Keep(Renew(rows, c.acct, c.rail, c.said, now))
  /\ UNCHANGED <<now, rails, beat>>

\* plan_change reads the plan, asks Stripe for the change and applies it.  A plan paid
\* with notes has no subscription Stripe knows: the call fails there.
PlanChange(a, tier) ==
  LET plan == rows.plan[a]
  IN /\ HasPaidPlan(a) /\ plan.rail \in Cards /\ plan.tier # tier
     /\ Waits(Calling("change", a, plan.rail,
                      [Word(plan.rail, sub[plan.rail].until) EXCEPT !.tier = tier]))
     /\ UNCHANGED <<now, rails, rows, beat, history>>
ChangedAtStripe(c) ==
  /\ c \in calls /\ c.op = "change" /\ PaidFor(c.rail) /\ Happens
  /\ sub' = [sub EXCEPT ![c.rail].tier = c.said.tier]
  /\ calls' = (calls \ {c}) \cup {[c EXCEPT !.op = "changed"]}
  /\ UNCHANGED <<now, papers, rows, beat, history>>
Changed(c) ==
  /\ c \in calls /\ c.op = "changed"
  /\ calls' = calls \ {c}
  /\ Keep(ChangeTier(rows, c.acct, c.said.tier, now))
  /\ UNCHANGED <<now, rails, beat>>

\* A call fails, or its answer never comes.
CallFails(c) ==
  /\ c \in calls
  /\ calls' = calls \ {c}
  /\ UNCHANGED <<now, rails, rows, beat, history>>

\* iap_apply of a signed transaction that has not ended.
Present(a, p, restore) ==
  LET owner == rows.owner[p.rail]
      moves == owner \notin {Nobody, a}
      of == IF moves THEN MovePlan(rows, p.rail, a) ELSE rows
      b == Renew(of, a, p.rail, p, now)
      gone == {x \in Accounts : IF moves /\ x = a THEN owner \in astray ELSE x \in astray}
  IN /\ p \in papers /\ p.until > now
     /\ moves => restore /\ CanMove(rows, p.rail, a, now)
     /\ Commit(b, Given(of, b))
     /\ replaced' = IF of.allowance[a].period = rows.allowance[a].period THEN replaced
                    ELSE replaced \cup {a}
     /\ astray' = Astray(of, b, gone, now)
     /\ UNCHANGED <<now, rails, calls, beat>>
\* iap_apply of a transaction signed as refunded.
PresentRevoked(r) ==
  /\ r \in Stores /\ sub[r].back # "no"
  /\ Keep(Revoke(rows, r, now))
  /\ UNCHANGED <<now, rails, calls, beat>>

-----------------------------------------------------------------------------
(* Notes.                                                                  *)

Open(epoch, t) == epoch \in (Epoch(t) - 1)..(Epoch(t) + 1)

\* A bug: what pays a plan is minted, too.
MayMint_NoOwner(b, rail, epoch) == ~\E n \in b.minted : n.rail = rail /\ n.epoch = epoch
\* mint_admission.  The same blinded note again is signed again and changes nothing.
MayMint(b, rail, epoch) ==
  b.owner[rail] = Nobody /\ ~\E n \in b.minted : n.rail = rail /\ n.epoch = epoch

Mint(rail, epoch, said, t) ==
  /\ epoch \in Covered(said) /\ Open(epoch, t)
  /\ MayMint(rows, rail, epoch) /\ Cardinality(rows.minted) < MaxMinted
  /\ Commit([rows EXCEPT !.minted = @ \cup {[rail |-> rail, epoch |-> epoch, tier |-> said.tier]}],
            {[rail |-> rail, pay |-> said.start, way |-> "note", month |-> epoch]})
  /\ UNCHANGED <<replaced, astray>>

\* note_mint: the proof is a signed transaction, or Stripe's word.
MintFromStore(p, epoch) ==
  /\ p \in papers /\ p.until > now
  /\ Mint(p.rail, epoch, p, now)
  /\ UNCHANGED <<now, rails, calls, beat>>
AskToMint(r) ==
  /\ r \in Cards /\ PaidFor(r)
  /\ \E said \in Said(r) : said.back = "no" /\ Waits(Calling("mint", Nobody, r, said))
  /\ UNCHANGED <<now, rails, rows, beat, history>>
MintFromCard(c, epoch) ==
  /\ c \in calls /\ c.op = "mint"
  /\ calls' = calls \ {c}
  /\ Mint(c.rail, epoch, c.said, now)
  /\ UNCHANGED <<now, rails, beat>>

\* note_redeem, one note: spent first, then it renews the plan it is the rail of.
NotePays(n, t) ==
  [tier |-> n.tier, yearly |-> FALSE, start |-> t, until |-> EpochEnd(n.epoch) + Grace]
Redeemed(b, a, n, t) ==
  IF n \in b.spent THEN b
  ELSE Renew([b EXCEPT !.spent = @ \cup {n}], a, a, NotePays(n, t), t)
\* A refusal ends the call, with the note that was refused spent.
RedeemNext(r, a, n, t) ==
  IF r.refused THEN r
  ELSE [b |-> Redeemed(r.b, a, n, t), refused |-> n \notin r.b.spent /\ AttachRefused(r.b, a, a, t)]
RedeemAll(a, notes, t) ==
  FoldLeft(LAMBDA r, n : RedeemNext(r, a, n, t), [b |-> rows, refused |-> FALSE], notes).b

NoteRedeem(a, notes) ==
  /\ \A i \in DOMAIN notes : notes[i] \in rows.minted /\ Open(notes[i].epoch, now)
  /\ Keep(RedeemAll(a, notes, now))
  /\ UNCHANGED <<now, rails, calls, beat>>

-----------------------------------------------------------------------------
(* The beat (Enclave::tick): the periods roll, then one card and one App   *)
(* Store plan are asked about.  Which is the stalest is left open, and     *)
(* whether any is stale.                                                   *)

Idle == [card |-> Nobody, store |-> Nobody, said |-> NoWord]
Asking == IF beat.card # Nobody THEN beat.card ELSE beat.store
\* The check, with the answer of the rail that is asked first.
Ask(card, store) ==
  LET first == IF card # Nobody THEN card ELSE store
  IN IF first = Nobody THEN {Idle}
     ELSE {[card |-> card, store |-> store, said |-> said] : said \in Said(first)}
\* On to the App Store, or done.
Onward == Ask(Nobody, IF beat.card # Nobody THEN beat.store ELSE Nobody)

\* stale: the rails of the plans there are, and Nobody when none is stale.
Stale == {rows.plan[a].rail : a \in Accounts} \cup {Nobody}
Beat(card, store) ==
  /\ beat = Idle
  /\ {card, store} \subseteq Stale
  /\ Keep(Roll(rows, now))
  /\ beat' \in Ask(card, store)
  /\ UNCHANGED <<now, rails, calls>>
\* mark_checked: no usable answer.
RailSilent ==
  /\ Asking # Nobody
  /\ beat' \in Onward
  /\ UNCHANGED <<now, rails, rows, calls, history>>

CancelNow(r) == [sub EXCEPT ![r].until = 0]
\* check_stripe, check_apple: the money went back.  After a chargeback the subscription
\* is cancelled; the call may fail.
HearBack(cancelled) ==
  /\ Asking # Nobody /\ beat.said.back # "no"
  /\ cancelled => beat.said.back = "disputed"
  /\ sub' = IF cancelled THEN CancelNow(Asking) ELSE sub
  /\ Keep(Revoke(rows, Asking, now))
  /\ beat' \in Onward
  /\ UNCHANGED <<now, papers, events, calls>>
\* renew_by_rail.
HearRenewed ==
  LET owner == rows.owner[Asking]
  IN /\ Asking # Nobody /\ beat.said.back = "no"
     /\ Keep(IF owner = Nobody THEN rows ELSE Renew(rows, owner, Asking, beat.said, now))
     /\ beat' \in Onward
     /\ UNCHANGED <<now, rails, calls>>

\* A rail that is asked answers, or the call is given up, within seconds; a tick is days.
Tick ==
  /\ now < MaxTime /\ calls = {} /\ beat = Idle
  /\ now' = now + 1
  /\ UNCHANGED <<rails, rows, calls, beat, history>>

-----------------------------------------------------------------------------
Init ==
  /\ now = 1
  /\ sub = [r \in Rails |-> Unsold] /\ papers = {}
  /\ rows = [plan |-> [a \in Accounts |-> NoPlan], owner |-> [r \in Rails |-> Nobody],
             allowance |-> [a \in Accounts |-> NoAllowance], minted |-> {}, spent |-> {}]
  /\ calls = {} /\ beat = Idle /\ events = 0
  /\ got = {} /\ again = {} /\ replaced = {} /\ astray = {}

Lists == UNION {[1..k -> rows.minted] : k \in 1..MaxNotes}
Months == UNION {Covered(p) : p \in papers} \cup UNION {Covered(c.said) : c \in calls}

AtTheRails ==
  \/ \E r \in Rails, tier \in Offered, yearly \in Intervals : Pay(r, tier, yearly)
  \/ \E r \in Rails : RailRenews(r)
  \/ \E r \in Stores, tier \in Tiers : StoreUpgrade(r, tier)
  \/ \E r \in Rails, how \in {"refunded", "disputed"} : MoneyBack(r, how)
ByCard ==
  \/ \E a \in Accounts, r \in Cards, tier \in Offered, yearly \in Intervals :
       PlanCreate(a, r, tier, yearly)
  \/ \E a \in Accounts, r \in Cards : PlanStatus(a, r)
  \/ \E a \in Accounts, tier \in Tiers : PlanChange(a, tier)
  \/ \E c \in calls : Claimed(c) \/ ChangedAtStripe(c) \/ Changed(c) \/ CallFails(c)
FromTheStore ==
  \/ \E a \in Accounts, p \in papers, restore \in BOOLEAN : Present(a, p, restore)
  \/ \E r \in Stores : PresentRevoked(r)
Noted ==
  \/ \E p \in papers, epoch \in Months : MintFromStore(p, epoch)
  \/ \E r \in Cards : AskToMint(r)
  \/ \E c \in calls, epoch \in Months : MintFromCard(c, epoch)
  \/ \E a \in Accounts, notes \in Lists : NoteRedeem(a, notes)
Beats ==
  \/ \E card \in Cards \cup {Nobody}, store \in Stores \cup {Nobody} : Beat(card, store)
  \/ RailSilent \/ HearRenewed
  \/ \E cancelled \in BOOLEAN : HearBack(cancelled)
Next == AtTheRails \/ ByCard \/ FromTheStore \/ Noted \/ Beats \/ Tick

Spec == Init /\ [][Next]_vars

-----------------------------------------------------------------------------
(* What is promised.                                                       *)

Top == TIERS[Len(TIERS)]

\* Every variable has its type.
TypeOK ==
  LET Time == 0..(MaxTime + (YearMonths + 1) * Month)
      Plan == [rail : Rails \cup Accounts \cup {Nobody}, tier : Tiers, yearly : BOOLEAN,
               start : Time, until : Time, active : BOOLEAN,
               grantedTier : Tiers, grantedPeriod : Time]
  IN /\ now \in 1..MaxTime /\ events \in 0..MaxEvents
     /\ \A r \in Rails : sub[r].buyer \in Accounts \cup {Nobody}
     /\ rows.plan \in [Accounts -> Plan]
     /\ rows.owner \in [Rails -> Accounts \cup {Nobody}]
     /\ rows.allowance \in [Accounts -> [period : Time, ends : Time, granted : Nat]]
     /\ rows.spent \subseteq rows.minted
     /\ Cardinality(calls) <= MaxCalls

\* One payment is one allowance: however often, late or out of order the rails and the
\* apps report it, a period is granted once, and one that lapsed because its money went
\* back is never whole again (subscribe_or_renew) - as long as "Restore purchases" has
\* replaced nobody's allowance, which is what knows what was granted (move_plan).
OneAllowanceUnlessReplaced == replaced = {} => again = {}

\* A payment pays one way: as a plan or as notes.
PaysOneWay ==
  \A x, y \in got : x.rail = y.rail /\ x.pay = y.pay => x.way = y.way

\* "the step above what this period has had, once" (renew_key): a period reaches a tier
\* once however the plan moves up and down inside it, and never holds more than the
\* highest tier's allowance - of the plans sold by the month, while the plan is on the
\* payment its allowance is of.  The record of what was granted is of one period: a plan
\* put back on an earlier one counts the step from the tier it happens to be on.
WithinTier(a) == rows.allowance[a].granted <= Top
MonthWithinTierUnlessAstray ==
  \A a \in Accounts : rows.plan[a].yearly \/ a \in astray \/ WithinTier(a)
\* The same without the one exception, and without both.
MonthWithinTier == \A a \in Accounts : rows.plan[a].yearly \/ WithinTier(a)
YearWithinTier == \A a \in Accounts : WithinTier(a)

\* A subscription pays one account's plan, the one it is bound to, and an account whose
\* plan has moved away keeps nothing of it.
OneHolder ==
  \A a \in Accounts :
    LET rail == rows.plan[a].rail
    IN /\ rail \in Rails => rows.owner[rail] = a
       /\ rail = Nobody => rows.allowance[a].granted = 0

\* A note that is spent gives its month: the allowance runs to the month's end and the
\* grace, or to that of another note of the same call that ends later.
SpentNoteGrants ==
  [][\A n \in rows'.spent \ rows.spent :
       \E a \in Accounts : rows'.allowance[a].ends >= EpochEnd(n.epoch) + Grace]_vars
=============================================================================
