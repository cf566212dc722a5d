------------------------------- MODULE Ledger -------------------------------
(***************************************************************************)
(* The account book: an allowance and prepaid lots per account, and the    *)
(* holds that open requests have taken (crates/enclave/src/ledger.rs).     *)
(*                                                                         *)
(* Every operation executes its statements on the book in memory and       *)
(* writes the same statements down, one journal record each.  Of the       *)
(* journal only the promise of DurableBook is used: the disk holds a       *)
(* beginning of what was written down, and a start goes on from it.        *)
(***************************************************************************)
EXTENDS Integers, Sequences, FiniteSets, SequencesExt

CONSTANTS
  Accounts,
  Refs,        \* payment references of credit purchases
  Amounts,     \* TOKU a purchase, a grant or a hold can be over
  LotLife,     \* PREPAID_MONTHS, in ticks
  PeriodLen,   \* length of a plan period, in ticks
  StopInside,  \* a stop can fall between two records of one handler
  MaxPending,  \* bound: handlers' writes on their way to the disk at one time
  MaxHolds,    \* bound: holds one process makes
  MaxGrants,   \* bound: changes of the plan logic to an allowance
  MaxTime,     \* bound: the clock
  MaxStops     \* bound: stops of the enclave

ASSUME LedgerAssumption ==
  /\ Amounts \subseteq Nat \ {0}
  /\ {LotLife, PeriodLen, MaxTime} \subseteq Nat \ {0}
  /\ StopInside \in BOOLEAN
  /\ {MaxPending, MaxHolds, MaxGrants, MaxStops} \subseteq Nat

VARIABLES
  up,         \* the enclave runs
  bk,         \* the book in memory
  disk,       \* the book the host's disk replays to
  pending,    \* written down and not yet on the disk: per handler, its records
  open,       \* holds whose request is being answered by this process
  lastHold,   \* the last hold id this process gave out
  now,
  grants, stops,   \* bounds
  sold,       \* history: what each lot was sold for, and for which payment
  spent,      \* history: what answered requests cost each lot
  due,        \* history: what each account should have, held or not: bought and
              \* granted, less what its answers cost and its ended periods left
  cut         \* history: the disk has some of a handler's records ("inside"), a
              \* stop left it so ("cut"), or neither ("whole")

vars == <<up, bk, disk, pending, open, lastHold, now, grants, stops, sold,
          spent, due, cut>>
ledgerVars == <<bk, pending, open, lastHold>>
history == <<sold, spent, due>>

-----------------------------------------------------------------------------
(* The tables and the statements on them.                                  *)

NoAllowance == [ends |-> 0, granted |-> 0, left |-> 0]
EmptyBook == [allowance |-> [a \in Accounts |-> NoAllowance],
              lots |-> <<>>, holds |-> <<>>, payments |-> {}]
HasRow(b, a) == b.allowance[a].ends # 0
With(f, x, v) == [y \in DOMAIN f \cup {x} |-> IF y = x THEN v ELSE f[y]]
Without(f, x) == [y \in DOMAIN f \ {x} |-> f[y]]

Set(a, ends, n)  == [do |-> "set", acct |-> a, ends |-> ends, n |-> n]
Add(a, n)        == [do |-> "add", acct |-> a, n |-> n]
Lapse(a)         == [do |-> "lapse", acct |-> a]
\* A pocket is the allowance (0) or a lot's id; n < 0 takes, n > 0 gives back.
Move(a, p, n)    == [do |-> "move", acct |-> a, pocket |-> p, n |-> n]
NewLot(id, a, n, expires) == [do |-> "lot", id |-> id, acct |-> a, n |-> n, expires |-> expires]
Pay(ref)         == [do |-> "pay", ref |-> ref]
NewHold(id, a, parts) == [do |-> "hold", id |-> id, acct |-> a, parts |-> parts]
DeleteHold(id)   == [do |-> "unhold", id |-> id]

\* What one statement does to the book; an UPDATE of no row does nothing.
Execute(b, c) ==
  CASE c.do = "set"    -> [b EXCEPT !.allowance[c.acct] =
                             [ends |-> c.ends, granted |-> c.n, left |-> c.n]]
    [] c.do = "add"    -> IF ~HasRow(b, c.acct) THEN b
                          ELSE [b EXCEPT !.allowance[c.acct].granted = @ + c.n,
                                         !.allowance[c.acct].left = @ + c.n]
    [] c.do = "lapse"  -> [b EXCEPT !.allowance[c.acct].granted = 0,
                                    !.allowance[c.acct].left = 0]
    [] c.do = "move"   -> IF c.pocket # 0 THEN [b EXCEPT !.lots[c.pocket].left = @ + c.n]
                          ELSE [b EXCEPT !.allowance[c.acct].left = @ + c.n]
    [] c.do = "lot"    -> [b EXCEPT !.lots = With(@, c.id, [acct |-> c.acct, left |-> c.n,
                                                           expires |-> c.expires])]
    [] c.do = "pay"    -> [b EXCEPT !.payments = @ \cup {c.ref}]
    [] c.do = "hold"   -> [b EXCEPT !.holds = With(@, c.id, [acct |-> c.acct, parts |-> c.parts])]
    [] c.do = "unhold" -> [b EXCEPT !.holds = Without(@, c.id)]

Run(b, changes) == FoldLeft(Execute, b, changes)

\* The statements are executed on the book in memory and written down.
WriteDown(changes) ==
  /\ Len(pending) < MaxPending
  /\ bk' = Run(bk, changes)
  /\ pending' = Append(pending, changes)

-----------------------------------------------------------------------------
(* Which pockets a hold draws on, and in which order it is given back.     *)

Usable(a) == {l \in DOMAIN bk.lots :
                bk.lots[l].acct = a /\ bk.lots[l].left > 0 /\ bk.lots[l].expires > now}
\* A bug: the newest lot is drawn on first.
SoonestFirst_Newest(l1, l2) == l1 > l2
SoonestFirst(l1, l2) ==
  \/ bk.lots[l1].expires < bk.lots[l2].expires
  \/ bk.lots[l1].expires = bk.lots[l2].expires /\ l1 < l2

\* What the account is shown, and a question is shortened to.
Balance(a) ==
  (IF bk.allowance[a].ends > now THEN bk.allowance[a].left ELSE 0)
    + SumFunctionOnSet([l \in DOMAIN bk.lots |-> bk.lots[l].left], Usable(a))

\* A set of lots in that order.
InOrder(lots) ==
  CHOOSE s \in [1..Cardinality(lots) -> lots] :
    \A i, j \in 1..Cardinality(lots) : i < j => SoonestFirst(s[i], s[j])

\* What there is in a pocket, or what is taken from it or given back.
Part(p, n) == [pocket |-> p, toku |-> n]
Amount(parts) == SumFunction([i \in DOMAIN parts |-> parts[i].toku])
OfPocket(parts, p) ==
  SumFunction([i \in DOMAIN parts |-> IF parts[i].pocket = p THEN parts[i].toku ELSE 0])

\* The allowance while its period runs, then the lots that expire soonest.
Pockets(a) ==
  (IF bk.allowance[a].ends > now THEN <<Part(0, bk.allowance[a].left)>> ELSE <<>>)
  \o [i \in 1..Cardinality(Usable(a)) |->
        Part(InOrder(Usable(a))[i], bk.lots[InOrder(Usable(a))[i]].left)]

Lesser(m, n) == IF m < n THEN m ELSE n

\* Take as much of the need as there is in a part.
Draw(acc, part) ==
  LET take == Lesser(acc.need, part.toku)
  IN IF take = 0 THEN acc
     ELSE [need |-> acc.need - take, parts |-> Append(acc.parts, Part(part.pocket, take))]
Taken(parts, amount) == FoldLeft(Draw, [need |-> amount, parts |-> <<>>], parts)

Drawn(a, amount) == Taken(Pockets(a), amount)
GivenBack_Whole(parts, refund) == Reverse(parts)  \* a bug: it all goes back, whatever the cost
GivenBack(parts, refund) == Taken(Reverse(parts), refund).parts

Gives(a, parts) == [i \in 1..Len(parts) |-> Move(a, parts[i].pocket, parts[i].toku)]
Takes(a, parts) == [i \in 1..Len(parts) |-> Move(a, parts[i].pocket, -parts[i].toku)]

-----------------------------------------------------------------------------
Init ==
  /\ up = TRUE
  /\ bk = EmptyBook
  /\ disk = EmptyBook
  /\ pending = <<>>
  /\ open = {}
  /\ lastHold = 0
  /\ now = 1
  /\ grants = 0
  /\ stops = 0
  /\ sold = <<>>
  /\ spent = <<>>
  /\ due = [a \in Accounts |-> 0]
  /\ cut = "whole"

(* The plan logic: a period begins, an upgrade adds to it, it lapses.      *)
PlanWrites(a, change) ==
  /\ up /\ grants < MaxGrants
  /\ grants' = grants + 1
  /\ WriteDown(<<change>>)
  /\ UNCHANGED <<up, disk, open, lastHold, now, stops, sold, spent, cut>>

GrantAllowance(a, n) ==
  /\ PlanWrites(a, Set(a, now + PeriodLen, n))
  /\ due' = [due EXCEPT ![a] = @ - bk.allowance[a].left + n]

AddAllowance(a, n) ==
  /\ PlanWrites(a, Add(a, n))
  /\ due' = [due EXCEPT ![a] = IF HasRow(bk, a) THEN @ + n ELSE @]

LapseAllowance(a) ==
  /\ PlanWrites(a, Lapse(a))
  /\ due' = [due EXCEPT ![a] = @ - bk.allowance[a].left]

\* The statements of a purchase: first_payment, and credit_prepaid the first time.
Credited_Again(a, ref, lot) == <<Pay(ref), lot>>  \* a bug: a resend is credited too
Credited(a, ref, lot) == IF ref \in bk.payments THEN <<Pay(ref)>> ELSE <<Pay(ref), lot>>

\* iap_apply for a credit product: the payment is put on record and, the first
\* time, its lot is made; a resend credits nothing.
Purchase(a, ref, n) ==
  LET id == Cardinality(DOMAIN bk.lots) + 1
      new == id \in DOMAIN bk'.lots
  IN /\ up
     /\ WriteDown(Credited(a, ref, NewLot(id, a, n, now + LotLife)))
     /\ sold' = IF new THEN With(sold, id, [n |-> n, ref |-> ref]) ELSE sold
     /\ spent' = IF new THEN With(spent, id, 0) ELSE spent
     /\ due' = [due EXCEPT ![a] = IF ref \notin bk.payments THEN @ + n ELSE @]
     /\ UNCHANGED <<up, disk, open, lastHold, now, grants, stops, cut>>

\* A request holds its worst case, all of it or nothing.
Hold(a, amount) ==
  LET drawn == Drawn(a, amount)
  IN /\ up /\ lastHold < MaxHolds
     /\ drawn.need = 0
     /\ lastHold' = lastHold + 1
     /\ WriteDown(Append(Takes(a, drawn.parts), NewHold(lastHold', a, drawn.parts)))
     /\ open' = open \cup {lastHold'}
     /\ UNCHANGED <<up, disk, now, grants, stops, history, cut>>

\* It is answered: the cost is kept, at most what was held, and the rest goes
\* back where it came from, last pocket first.
Settle(h, cost) ==
  LET hold == bk.holds[h]
      kept == Lesser(cost, Amount(hold.parts))
      backs == GivenBack(hold.parts, Amount(hold.parts) - kept)
      keptOf(p) == OfPocket(hold.parts, p) - OfPocket(backs, p)
  IN /\ up
     /\ WriteDown(Append(Gives(hold.acct, backs), DeleteHold(h)))
     /\ open' = open \ {h}
     /\ spent' = [l \in DOMAIN spent |-> spent[l] + keptOf(l)]
     /\ due' = [due EXCEPT ![hold.acct] = @ - kept]
     /\ UNCHANGED <<up, disk, lastHold, now, grants, stops, sold, cut>>

\* The host takes the next of what was written down.
ReachDisk ==
  /\ pending # <<>>
  /\ LET group == Head(pending)
         record == StopInside /\ Len(group) > 1
     IN /\ disk' = IF record THEN Execute(disk, Head(group)) ELSE Run(disk, group)
        /\ pending' = IF record THEN <<Tail(group)>> \o Tail(pending) ELSE Tail(pending)
        /\ cut' = IF cut = "cut" THEN cut ELSE IF record THEN "inside" ELSE "whole"
  /\ UNCHANGED <<up, bk, open, lastHold, now, grants, stops, history>>

Stop ==
  /\ up /\ stops < MaxStops
  /\ stops' = stops + 1
  /\ up' = FALSE
  /\ pending' = <<>>
  /\ open' = {}
  /\ cut' = IF cut = "whole" THEN cut ELSE "cut"
  /\ UNCHANGED <<bk, disk, lastHold, now, grants, history>>

\* The statements that give a hold found at a start back, the oldest hold first.
InIdOrder(ids) ==
  CHOOSE s \in [1..Cardinality(ids) -> ids] :
    \A i, j \in 1..Cardinality(ids) : i < j => s[i] < s[j]
Released_Lost(h) == <<DeleteHold(h)>>        \* a bug: what it held is not given back
Released(h) == Append(Gives(disk.holds[h].acct, disk.holds[h].parts), DeleteHold(h))

\* open_sealed, then release_open_holds: what the last process held goes back.
Start ==
  LET ids == InIdOrder(DOMAIN disk.holds)
      changes == FlattenSeq([i \in 1..Len(ids) |-> Released(ids[i])])
  IN /\ ~up
     /\ up' = TRUE
     /\ bk' = Run(disk, changes)
     /\ pending' = IF changes = <<>> THEN <<>> ELSE <<changes>>
     /\ lastHold' = IF ids = <<>> THEN 0 ELSE ids[Len(ids)]
     /\ UNCHANGED <<disk, open, now, grants, stops, history, cut>>

Tick ==
  /\ now < MaxTime
  /\ now' = now + 1
  /\ UNCHANGED <<up, bk, disk, pending, open, lastHold, grants, stops, history, cut>>

Holding == \E a \in Accounts, n \in Amounts : Hold(a, n)
Settling == \E h \in open : \E cost \in 0..(Amount(bk.holds[h].parts) + 1) : Settle(h, cost)

Next ==
  \/ \E a \in Accounts, n \in Amounts : GrantAllowance(a, n) \/ AddAllowance(a, n)
  \/ \E a \in Accounts : LapseAllowance(a)
  \/ \E a \in Accounts, ref \in Refs, n \in Amounts : Purchase(a, ref, n)
  \/ Holding \/ Settling
  \/ ReachDisk \/ Stop \/ Start \/ Tick

Spec == Init /\ [][Next]_vars

-----------------------------------------------------------------------------
(* Properties.                                                             *)

\* The book in memory and the one on the disk hold rows of their kind, no pocket is
\* below nothing, and every open request has its hold in the book.
TypeOK ==
  /\ up \in BOOLEAN
  /\ \A b \in {bk, disk} :
       /\ \A a \in Accounts : b.allowance[a] \in [ends : Nat, granted : Nat, left : Nat]
       /\ \A l \in DOMAIN b.lots : b.lots[l] \in [acct : Accounts, left : Nat, expires : Nat]
       /\ \A h \in DOMAIN b.holds : b.holds[h].acct \in Accounts
       /\ b.payments \subseteq Refs
  /\ up => open = DOMAIN bk.holds
  /\ lastHold \in 0..MaxHolds
  /\ now \in 1..MaxTime

LotHeld(b, l) == SumFunction([h \in DOMAIN b.holds |-> OfPocket(b.holds[h].parts, l)])
HeldOf(b, a) == SumFunction([h \in DOMAIN b.holds |->
                  IF b.holds[h].acct = a THEN Amount(b.holds[h].parts) ELSE 0])
LotsOf(b, a) == SumFunction([l \in DOMAIN b.lots |->
                  IF b.lots[l].acct = a THEN b.lots[l].left ELSE 0])

\* While nothing stops the enclave every TOKU an account bought or was granted, and
\* neither used nor let lapse, is in a pocket or held - whatever requests overlap,
\* whatever expires and whatever period begins under an open hold.
CreditConserved ==
  stops = 0 => \A a \in Accounts :
                 bk.allowance[a].left + LotsOf(bk, a) + HeldOf(bk, a) = due[a]

\* A hold takes the allowance first, then the lots that expire soonest, and
\* only what has not expired, which is what the balance shows.
HeldInOrder(h) ==
  LET parts == bk'.holds[h].parts
      acct == bk'.holds[h].acct
      expiry(p) == IF p = 0 THEN 0 ELSE bk.lots[p].expires
  IN /\ Drawn(acct, Balance(acct)).need = 0 /\ Drawn(acct, Balance(acct) + 1).need = 1
     /\ \A i \in 1..Len(parts) :
          /\ parts[i].pocket # 0 => bk.lots[parts[i].pocket].expires > now
          /\ parts[i].pocket = 0 => bk.allowance[acct].ends > now
          /\ \A p \in Usable(acct) : expiry(p) < expiry(parts[i].pocket) => bk'.lots[p].left = 0
          /\ parts[i].pocket # 0 /\ bk.allowance[acct].ends > now => bk'.allowance[acct].left = 0

\* A settle that keeps anything of a pocket gives nothing back to what was drawn
\* on before it.
SpentInOrder(h) ==
  LET hold == bk.holds[h]
      left(b, p) == IF p = 0 THEN b.allowance[hold.acct].left ELSE b.lots[p].left
      back(i) == left(bk', hold.parts[i].pocket) - left(bk, hold.parts[i].pocket)
  IN \A i, j \in 1..Len(hold.parts) : i < j /\ back(j) < hold.parts[j].toku => back(i) = 0

\* Credit is held and spent in the order that serves the account: the allowance
\* first, then what expires soonest, and what is spent comes out of the pockets in
\* the order they were drawn on, whatever other requests hold and settle meanwhile
\* (ledger.rs, `hold` and `settle`).
PocketsInOrder ==
  [][/\ \A h \in open' \ open : HeldInOrder(h)
     /\ up' => \A h \in open \ open' : SpentInOrder(h)]_vars

\* Credit is never made out of nothing: no lot has more left and held than it was
\* sold for, in memory or on the disk, wherever between two handlers a stop falls.
NeverMinted ==
  \A b \in {bk, disk} : \A l \in DOMAIN b.lots : b.lots[l].left + LotHeld(b, l) <= sold[l].n

\* Credit is never lost: what a lot was sold for is left, held or was spent by an
\* answered request, wherever between two handlers a stop falls.
NeverLost ==
  up => \A l \in DOMAIN bk.lots : bk.lots[l].left + LotHeld(bk, l) + spent[l] >= sold[l].n

\* No credit comes or goes by holding, settling, giving back and stopping between two
\* handlers, with the disk behind the book in memory (ledger.rs, `restore` and `settle`).
NeitherMadeNorLost == cut = "whole" => NeverMinted /\ NeverLost

\* A payment on record has its lot, so asking again is answered like asking once
\* (service.rs, `durably`).
PaymentCredited ==
  up => \A ref \in bk.payments : \E l \in DOMAIN bk.lots : sold[l].ref = ref

\* A payment is one lot, however often it is sent: never two, wherever a stop falls,
\* and not without its lot if no stop falls inside a handler.
PaymentIsOneLot ==
  /\ \A b \in {bk, disk} : \A l1, l2 \in DOMAIN b.lots : l1 # l2 => sold[l1].ref # sold[l2].ref
  /\ cut = "whole" => PaymentCredited

=============================================================================
