----------------------------- MODULE Plans_proofs -----------------------------
(***************************************************************************)
(* One payment is one allowance, one way to pay and one holder, and no     *)
(* month above its tier while the plan is on the payment its allowance is  *)
(* of: for any accounts, subscriptions, tiers, months and bounds.          *)
(*                                                                         *)
(* What the rails said and what waits to be applied is of a subscription   *)
(* that was sold (World), however old it is; nothing more is needed of it. *)
(* The tables are as they should be (Ready) under whatever such word comes *)
(* next: each operation on them is a lemma (RenewBecomes, ChangeBecomes,   *)
(* RevokeBecomes, RollBecomes, MoveMoves, RedeemBecomes) that says how an  *)
(* account's row may go on.  An allowance's period only grows, so what a   *)
(* period was granted is never granted again (PlansIn); a month is minted  *)
(* of a rail nobody has bound, and a plan on a payment that was minted has *)
(* ended (AllEnded), so no payment pays both ways.                         *)
(***************************************************************************)
EXTENDS Plans, TLAPS, FiniteSetTheorems, WellFoundedInduction

-----------------------------------------------------------------------------
(* The invariant.                                                          *)

Names == Rails \cup Accounts \cup {Nobody}
APlan == [rail : Names, tier : Tiers, yearly : BOOLEAN, start : Nat, until : Nat,
          active : BOOLEAN, grantedTier : Tiers, grantedPeriod : Nat]
AnAllowance == [period : Nat, ends : Nat, granted : Nat]
ANote == [rail : Rails, epoch : Nat, tier : Tiers]
ASub == [tier : Tiers, yearly : BOOLEAN, start : Nat, until : Nat, back : {"no", "refunded", "disputed"},
         buyer : Accounts \cup {Nobody}]
AGift == [rail : Rails, pay : Nat, way : {"plan", "note"}, month : Nat]

\* The tables have their types.
FiveTables(b) ==
  b = [plan |-> b.plan, owner |-> b.owner, allowance |-> b.allowance,
       minted |-> b.minted, spent |-> b.spent]
Tables(b) ==
  /\ FiveTables(b)
  /\ b.plan \in [Accounts -> APlan]
  /\ b.owner \in [Rails -> Accounts \cup {Nobody}]
  /\ b.allowance \in [Accounts -> AnAllowance]
  /\ b.minted \subseteq ANote /\ b.spent \subseteq b.minted

\* What a rail has said, whenever that was, is of a subscription that was sold.
IsSold(s, r) == s[r].start > 0
IsWord(s, t, r, w) ==
  /\ IsSold(s, r)
  /\ w.tier \in Tiers /\ w.yearly = s[r].yearly
  /\ w.start \in 1..t
  /\ w.until \in {0, w.start + Length(w.yearly)}

\* A card is paid for at the checkout of an account.
SubsAre(s, t) ==
  /\ s \in [Rails -> ASub]
  /\ \A r \in Rails : IsSold(s, r) => IsWord(s, t, r, s[r]) /\ (r \in Cards => s[r].buyer # Nobody)
PapersAre(s, t, ps) == \A p \in ps : p.rail \in Stores /\ IsWord(s, t, p.rail, p)
CallIs(s, t, c) ==
  /\ c = Calling(c.op, c.acct, c.rail, c.said)
  /\ c.rail \in Cards /\ IsWord(s, t, c.rail, c.said) /\ (c.op # "mint" => c.acct \in Accounts)
CallsAre(s, t, cs) == \A c \in cs : CallIs(s, t, c)
Asks(bt) == IF bt.card # Nobody THEN bt.card ELSE bt.store
BeatIs(s, t, bt) ==
  /\ bt.card \in Cards \cup {Nobody} /\ bt.store \in Stores \cup {Nobody}
  /\ \A r \in {bt.card, bt.store} : r # Nobody => IsSold(s, r)
  /\ Asks(bt) # Nobody => IsWord(s, t, Asks(bt), bt.said)
World(s, t, ps, cs, bt) ==
  t \in Nat \ {0} /\ SubsAre(s, t) /\ PapersAre(s, t, ps) /\ CallsAre(s, t, cs) /\ BeatIs(s, t, bt)

\* An account's plan and its allowance, with the subscriptions `s` at `t`.
Fits(s, t, owner, a, plan, al) ==
  /\ plan.rail = Nobody => plan = NoPlan /\ al.granted = 0
  /\ plan.rail # Nobody => plan.start \in 1..t /\ al.period > 0
  /\ al.period <= t /\ (al.period = 0 => al.granted = 0)
  /\ plan.rail \in Rails => /\ owner[plan.rail] = a /\ IsSold(s, plan.rail)
                            /\ plan.yearly = s[plan.rail].yearly
  /\ plan.rail \in Accounts => ~plan.yearly
  /\ plan.rail # Nobody /\ ~plan.yearly /\ plan.until > t => plan.start \in 1..al.period
AllFit(s, t, b) == \A a \in Accounts : Fits(s, t, b.owner, a, b.plan[a], b.allowance[a])

\* A monthly plan that is not astray is on the period its allowance is of, and has been
\* granted no more than what is written down.
Steady(t, plan, al) ==
  plan.rail # Nobody /\ ~plan.yearly =>
    /\ plan.grantedPeriod = al.period
    /\ al.granted <= TIERS[plan.grantedTier]
    /\ plan.until > t => plan.start = al.period
AllSteady(t, b, strayed) ==
  \A a \in Accounts : a \notin strayed => Steady(t, b.plan[a], b.allowance[a])

\* What a payment gave as notes is written down as minted, and is of that payment.
Paid(s, r, start) ==
  [yearly |-> s[r].yearly, start |-> start, until |-> start + Length(s[r].yearly)]
NotesIn(s, g, minted) ==
  \A x \in g : x.way = "note" =>
    /\ IsSold(s, x.rail) /\ x.month \in Covered(Paid(s, x.rail, x.pay))
    /\ \E n \in minted : n.rail = x.rail /\ n.epoch = x.month
\* A plan put on a payment that was minted has ended.
MintedOn(g, r, start) == \E x \in g : x.way = "note" /\ x.rail = r /\ x.pay = start
AllEnded(t, g, b) ==
  \A a \in Accounts : MintedOn(g, b.plan[a].rail, b.plan[a].start) => b.plan[a].until <= t

\* What a payment gave as a plan: to the account its subscription is bound to, and while
\* no allowance was replaced in no later period than its allowance's.
PlansIn(g, b, moved) ==
  \A x \in g : x.way = "plan" =>
    /\ x.month > 0 /\ b.owner[x.rail] \in Accounts
    /\ moved = {} => x.month <= b.allowance[b.owner[x.rail]].period

\* The tables, what was given, and what was given twice.
OneWay(g) == \A x, y \in g : x.rail = y.rail /\ x.pay = y.pay => x.way = y.way
RowsOk(s, t, b, g, moved, strayed) ==
  /\ Tables(b) /\ AllFit(s, t, b) /\ AllSteady(t, b, strayed)
  /\ g \subseteq AGift
  /\ NotesIn(s, g, b.minted) /\ AllEnded(t, g, b) /\ PlansIn(g, b, moved) /\ OneWay(g)
Kept(s, t, b, g, moved, strayed, twice) ==
  RowsOk(s, t, b, g, moved, strayed) /\ (moved = {} => twice = {})

PlansInv ==
  /\ World(sub, now, papers, calls, beat)
  /\ Kept(sub, now, rows, got, replaced, astray, again)

-----------------------------------------------------------------------------
(* Numbers, tiers and periods.                                             *)

\* What the assumptions say of the constants.
LEMMA Constants ==
  /\ Month \in Nat \ {0} /\ YearMonths \in Nat \ {0} /\ Grace \in Nat
  /\ Tiers \subseteq Nat /\ 1 \in Tiers /\ Len(TIERS) \in Tiers
  /\ \A t \in Tiers : TIERS[t] \in Nat \ {0} /\ TIERS[t] <= Top
  /\ \A t, u \in Tiers : t < u => TIERS[t] < TIERS[u]
  /\ Offered \subseteq Tiers /\ Intervals \subseteq BOOLEAN
  /\ Accounts \cap Rails = {} /\ Cards \cap Stores = {} /\ Nobody \notin Accounts \cup Rails
<1>1. Len(TIERS) \in Nat \ {0} /\ \A t \in Tiers : TIERS[t] \in Nat \ {0}
  BY PlansAssumption DEF PlansAssumption, Tiers
<1>2. \A t \in Tiers : t < Len(TIERS) \/ t = Len(TIERS)
  BY <1>1 DEF Tiers
<1>3. 1 \in Tiers /\ Len(TIERS) \in Tiers /\ Tiers \subseteq Nat
  BY <1>1 DEF Tiers
<1>4. \A t, u \in Tiers : t < u => TIERS[t] < TIERS[u]
  BY PlansAssumption DEF PlansAssumption
<1>5. \A t \in Tiers : TIERS[t] <= Top
  BY <1>1, <1>2, <1>3, <1>4 DEF Top
<1> QED BY <1>1, <1>3, <1>4, <1>5, PlansAssumption DEF PlansAssumption

\* A part of a number.
LEMMA PartOf ==
  ASSUME NEW n \in Nat, NEW l \in Nat, NEW s \in Nat \ {0}, l <= s
  PROVE  (n * l) \div s \in 0..n
<1> DEFINE q == (n * l) \div s
<1>1. n * l \in Nat /\ n * l <= n * s
  OBVIOUS
<1>2. q \in Int /\ s * q <= n * l /\ n * l < s * q + s
  BY <1>1
<1> HIDE DEF q
<1>3. q >= 0
  <2>1. ~(q <= -1)
    BY <1>1, <1>2
  <2> QED BY <1>2, <2>1
<1>4. q <= n
  <2>1. q >= n + 1 => s * q >= s * (n + 1)
    BY <1>2
  <2>2. s * (n + 1) = n * s + s
    OBVIOUS
  <2> QED BY <1>1, <1>2, <2>1, <2>2
<1> QED BY <1>2, <1>3, <1>4 DEF q

\* Calendar months are numbers from 0, and so are their ends.
LEMMA Epochs ==
  /\ \A t \in Nat \ {0} : Epoch(t) \in Nat
  /\ \A e \in Nat : EpochEnd(e) \in Nat
<1>1. ASSUME NEW t \in Nat \ {0}
      PROVE  (t - 1) \div Month \in Nat
  <2> DEFINE n == t - 1
             q == n \div Month
  <2>1. n \in Nat
    OBVIOUS
  <2> HIDE DEF n
  <2>2. q \in Nat
    BY <2>1, Constants
  <2> QED BY <2>2 DEF n
<1>2. \A e \in Nat : 1 + (e + 1) * Month \in Nat
  BY Constants
<1> QED BY <1>1, <1>2 DEF Epoch, EpochEnd

IsPaid(p) == p.yearly \in BOOLEAN /\ p.start \in Nat /\ p.until \in Nat
IsSlice(s, p, t) ==
  /\ s.from \in Nat /\ s.to \in Nat /\ s.from >= p.start /\ s.from < s.to
  /\ t < p.until /\ t < s.to /\ p.start > 0
  /\ ~p.yearly => s.from = p.start
  /\ p.start <= t => s.from <= t

\* A period begins with what was paid or later, and is not over.
LEMMA SliceIs ==
  ASSUME NEW p, IsPaid(p), NEW t \in Nat
  PROVE  /\ Slice(p, t) = NoSlice \/ IsSlice(Slice(p, t), p, t)
         /\ t < p.until /\ 0 < p.start /\ p.start < p.until => Slice(p, t) # NoSlice
<1>1. CASE p.until <= t \/ p.start = 0 \/ p.start >= p.until
  BY <1>1 DEF Slice, IsPaid
<1>2. CASE ~(p.until <= t \/ p.start = 0 \/ p.start >= p.until) /\ ~p.yearly
  <2>1. Slice(p, t) = [from |-> p.start, to |-> p.until]
    BY <1>2 DEF Slice
  <2> QED BY <1>2, <2>1 DEF IsPaid, IsSlice, NoSlice
<1>3. CASE ~(p.until <= t \/ p.start = 0 \/ p.start >= p.until) /\ p.yearly
  <2> DEFINE d == t - p.start
             k == IF t < p.start THEN 0 ELSE Lesser(d \div Month, YearMonths - 1)
             f == p.start + k * Month
             e == IF k = YearMonths - 1 THEN p.until ELSE Lesser(p.start + (k + 1) * Month, p.until)
  <2>1. Slice(p, t) = [from |-> f, to |-> e]
    BY <1>3 DEF Slice
  <2>2. /\ p.start \in Nat /\ p.until \in Nat /\ t < p.until /\ 0 < p.start /\ p.start < p.until
        /\ Month \in Nat \ {0} /\ YearMonths \in Nat \ {0}
    BY <1>3, Constants DEF IsPaid
  <2>3. /\ k \in Nat
        /\ k * Month \in Nat /\ p.start + k * Month < p.until
        /\ k # YearMonths - 1 => t < p.start + (k + 1) * Month
        /\ p.start <= t => p.start + k * Month <= t
    <3>1. CASE t < p.start
      <4>1. k = 0
        BY <3>1
      <4>2. 0 * Month = 0 /\ (0 + 1) * Month = Month
        BY <2>2
      <4> QED BY <2>2, <3>1, <4>1, <4>2
    <3>2. CASE ~(t < p.start)
      <4> DEFINE q == d \div Month
      <4>1. d \in Nat /\ t = p.start + d
        BY <2>2, <3>2
      <4> HIDE DEF d
      <4>2. q \in Nat /\ q * Month <= d /\ d < (q + 1) * Month
        BY <2>2, <4>1
      <4>3. k = Lesser(q, YearMonths - 1)
        BY <3>2
      <4> HIDE DEF q
      <4>4. k \in Nat /\ k <= q /\ (k # YearMonths - 1 => k = q)
        BY <2>2, <4>2, <4>3 DEF Lesser
      <4> HIDE DEF k
      <4>5. k * Month \in Nat /\ k * Month <= q * Month
        BY <2>2, <4>2, <4>4
      <4>6. p.start + k * Month <= t
        <5>1. q * Month \in Nat
          BY <2>2, <4>2
        <5> QED BY <2>2, <4>1, <4>2, <4>5, <5>1
      <4>7. k # YearMonths - 1 => t < p.start + (k + 1) * Month
        <5>1. (q + 1) * Month \in Nat
          BY <2>2, <4>2
        <5> QED BY <2>2, <4>1, <4>2, <4>4, <5>1
      <4> QED BY <2>2, <4>4, <4>5, <4>6, <4>7
    <3> QED BY <3>1, <3>2
  <2> HIDE DEF k, d
  <2>4. (k + 1) * Month = k * Month + Month
    BY <2>2, <2>3
  <2>5. f \in Nat /\ p.start <= f /\ f < p.until /\ (p.start <= t => f <= t)
    BY <2>2, <2>3
  <2>6. e \in Nat /\ f < e /\ t < e
    BY <2>2, <2>3, <2>4 DEF Lesser
  <2> HIDE DEF f, e
  <2> QED BY <1>3, <2>1, <2>2, <2>5, <2>6 DEF IsSlice, NoSlice
<1> QED BY <1>1, <1>2, <1>3 DEF IsPaid

\* The step between two tiers is granted in part or whole.
LEMMA StepIs ==
  ASSUME NEW from \in Tiers, NEW to \in Tiers, from < to,
         NEW p, NEW t \in Nat, NEW slice, IsSlice(slice, p, t)
  PROVE  Prorata(from, to, slice, t) \in 0..(TIERS[to] - TIERS[from])
<1> DEFINE n == TIERS[to] - TIERS[from]
           l == Lesser(slice.to - t, slice.to - slice.from)
           s == slice.to - slice.from
<1>1. n \in Nat
  BY Constants
<1>2. s \in Nat \ {0} /\ l \in Nat /\ l <= s
  BY DEF IsSlice, Lesser
<1>3. Prorata(from, to, slice, t) = (n * l) \div s
  BY DEF Prorata
<1> HIDE DEF n, l, s
<1>4. (n * l) \div s \in 0..n
  BY <1>1, <1>2, PartOf
<1> QED BY <1>3, <1>4 DEF n

-----------------------------------------------------------------------------
(* An account's row under what a rail, or a note, says.                    *)

\* What can be said to `a`'s plan at `t`: a rail's word, or a note of its own.
IsSaid(s, t, a, r, w) ==
  \/ r \in Rails /\ IsWord(s, t, r, w)
  \/ /\ r = a /\ w.yearly = FALSE /\ w.tier \in Tiers
     /\ w.start = t /\ w.until \in Nat
Said2(w, t) ==
  /\ w.tier \in Tiers /\ w.yearly \in BOOLEAN /\ w.start \in 1..t /\ w.until \in Nat
  /\ w.until > t => w.start < w.until

\* Whatever is said has its type, and a period that is not over has begun.
LEMMA SaidIs ==
  ASSUME NEW s \in [Rails -> ASub], NEW t \in Nat \ {0}, NEW a \in Accounts, NEW r, NEW w,
         IsSaid(s, t, a, r, w)
  PROVE  Said2(w, t) /\ r \in Names /\ r # Nobody
<1>1. CASE r \in Rails /\ IsWord(s, t, r, w)
  <2>1. w.yearly \in BOOLEAN
    BY <1>1 DEF IsWord, ASub
  <2>2. Length(w.yearly) \in Nat \ {0}
    BY <2>1, Constants DEF Length
  <2>3. w.start + Length(w.yearly) \in Nat /\ w.start < w.start + Length(w.yearly)
    BY <1>1, <2>2 DEF IsWord
  <2>4. r # Nobody /\ r \in Names
    BY <1>1, Constants DEF Names
  <2> QED BY <1>1, <2>1, <2>3, <2>4 DEF IsWord, Said2
<1>2. CASE ~(r \in Rails /\ IsWord(s, t, r, w))
  <2>1. r = a /\ w.yearly = FALSE /\ w.tier \in Tiers /\ w.start = t /\ w.until \in Nat
    BY <1>2 DEF IsSaid
  <2>2. r # Nobody /\ r \in Names
    BY <2>1, Constants DEF Names
  <2>3. w.start \in 1..t /\ (w.until > t => w.start < w.until)
    BY <2>1
  <2>4. w.yearly \in BOOLEAN
    BY <2>1
  <2> QED BY <2>1, <2>2, <2>3, <2>4 DEF Said2
<1> QED BY <1>1, <1>2

PlanOf(old, r, w, t) ==
  [old EXCEPT !.rail = r, !.tier = w.tier, !.yearly = w.yearly, !.active = w.until > t,
              !.until = w.until, !.start = IF w.start > 0 THEN w.start ELSE @]
TopsUp(old, al, r, w, t) ==
  LET slice == Slice(PlanOf(old, r, w, t), t)
  IN /\ ~(slice.from > al.period) /\ slice # NoSlice /\ old.rail = r
     /\ w.tier > GrantedBase(old, slice.from)
PlanRow(old, al, r, w, t) ==
  LET plan == PlanOf(old, r, w, t)
      slice == Slice(plan, t)
  IN IF slice.from > al.period \/ TopsUp(old, al, r, w, t) THEN RecordGranted(plan, slice.from, w.tier)
     ELSE plan
AllowanceRow(old, al, r, w, t) ==
  LET slice == Slice(PlanOf(old, r, w, t), t)
  IN IF slice.from > al.period THEN SetAllowance(slice, w.tier)
     ELSE IF TopsUp(old, al, r, w, t)
          THEN AddAllowance(al, Prorata(GrantedBase(old, slice.from), w.tier, slice, t)) ELSE al

\* What was said is what the plan says now.
Says(plan, r, w) ==
  plan.rail = r /\ plan.yearly = w.yearly /\ plan.start = w.start /\ plan.until = w.until
\* From one row of an account to another.
RowStep(old, al, plan, next, r, w, t) ==
  /\ plan \in APlan /\ next \in AnAllowance
  /\ Says(plan, r, w)
  /\ next.period >= al.period /\ (al.period <= t => next.period <= t)
  /\ w.until > t => next.period >= w.start
  /\ next.period = 0 => next = al
  /\ next.period > al.period => w.until > t /\ Steady(t, plan, next)
  /\ /\ next.period = al.period /\ old.rail = r /\ old.yearly = w.yearly /\ Steady(t, old, al)
     /\ Slice(plan, t) = NoSlice \/ Slice(plan, t).from >= next.period
     => Steady(t, plan, next)

\* The row is as it should be after what was said is applied.
LEMMA RowSteps ==
  ASSUME NEW old \in APlan, NEW al \in AnAllowance, NEW r \in Names, r # Nobody,
         NEW t \in Nat \ {0}, NEW w, Said2(w, t)
  PROVE  RowStep(old, al, PlanRow(old, al, r, w, t), AllowanceRow(old, al, r, w, t), r, w, t)
<1> DEFINE p == PlanOf(old, r, w, t)
           slice == Slice(p, t)
           base == GrantedBase(old, slice.from)
           plan == PlanRow(old, al, r, w, t)
           next == AllowanceRow(old, al, r, w, t)
<1> SUFFICES RowStep(old, al, plan, next, r, w, t)
  OBVIOUS
<1>w. /\ w.tier \in Tiers /\ w.yearly \in BOOLEAN /\ w.start \in Nat \ {0} /\ w.start <= t /\ w.until \in Nat
      /\ w.until > t => w.start < w.until
  BY DEF Said2
<1>1. /\ p \in APlan /\ p.rail = r /\ p.tier = w.tier /\ p.yearly = w.yearly
      /\ p.start = w.start /\ p.until = w.until
      /\ p.grantedTier = old.grantedTier /\ p.grantedPeriod = old.grantedPeriod
  <2> DEFINE act == w.until > t
  <2>1. act \in BOOLEAN /\ w.start > 0
    BY <1>w
  <2>2. p = [old EXCEPT !.rail = r, !.tier = w.tier, !.yearly = w.yearly, !.active = act,
                        !.until = w.until, !.start = w.start]
    BY <2>1 DEF PlanOf
  <2> HIDE DEF act, p
  <2> QED BY <1>w, <2>1, <2>2 DEF APlan
<1>2. /\ slice = NoSlice \/ IsSlice(slice, p, t)
      /\ w.until > t => slice # NoSlice
  <2>1. IsPaid(p) /\ t \in Nat
    BY <1>1 DEF IsPaid, APlan
  <2> HIDE DEF p, slice
  <2>2. /\ Slice(p, t) = NoSlice \/ IsSlice(Slice(p, t), p, t)
        /\ t < p.until /\ 0 < p.start /\ p.start < p.until => Slice(p, t) # NoSlice
    BY <2>1, SliceIs
  <2> QED BY <1>w, <1>1, <2>2 DEF slice
<1>3. NoSlice.from = 0 /\ al.period \in Nat /\ al.granted \in Nat /\ al.ends \in Nat
  BY DEF NoSlice, AnAllowance
<1>b. base \in Tiers /\ (old.grantedPeriod = slice.from => base = old.grantedTier)
  BY DEF GrantedBase, APlan
<1>4. Slice(plan, t) = slice
  <2>1. plan.start = p.start /\ plan.until = p.until /\ plan.yearly = p.yearly
    BY <1>1 DEF PlanRow, RecordGranted, APlan
  <2> HIDE DEF plan, p
  <2> QED BY <2>1 DEF Slice
<1>5. CASE slice.from > al.period
  <2>1. slice # NoSlice /\ IsSlice(slice, p, t)
    BY <1>2, <1>3, <1>5
  <2>2. plan = RecordGranted(p, slice.from, w.tier) /\ next = SetAllowance(slice, w.tier)
    BY <1>5 DEF PlanRow, AllowanceRow
  <2> HIDE DEF p, slice, base, plan, next
  <2>3. /\ slice.from \in Nat /\ slice.to \in Nat /\ slice.from >= p.start /\ t < p.until
        /\ ~p.yearly => slice.from = p.start
        /\ slice.from <= t
    BY <1>w, <1>1, <2>1 DEF IsSlice
  <2>4. /\ plan \in APlan /\ plan.rail = r /\ plan.yearly = w.yearly /\ plan.start = w.start
        /\ plan.until = w.until /\ plan.grantedTier = w.tier /\ plan.grantedPeriod = slice.from
    BY <1>w, <1>1, <2>2, <2>3 DEF RecordGranted, APlan
  <2>5. next \in AnAllowance /\ next.period = slice.from /\ next.granted = TIERS[w.tier]
    BY <1>w, <2>2, <2>3, Constants DEF SetAllowance, AnAllowance
  <2>6. Steady(t, plan, next)
    <3>1. next.granted <= TIERS[plan.grantedTier]
      <4>1. TIERS[w.tier] \in Nat
        BY <1>w, Constants
      <4>2. next.granted = TIERS[w.tier] /\ plan.grantedTier = w.tier
        BY <2>4, <2>5
      <4> QED BY <4>1, <4>2
    <3> QED BY <1>1, <2>3, <2>4, <2>5, <3>1 DEF Steady
  <2> QED BY <1>w, <1>1, <1>3, <1>5, <2>3, <2>4, <2>5, <2>6 DEF RowStep, Says
<1>6. CASE ~(slice.from > al.period) /\ TopsUp(old, al, r, w, t)
  <2>1. slice # NoSlice /\ IsSlice(slice, p, t) /\ old.rail = r /\ w.tier > base
    BY <1>2, <1>6 DEF TopsUp
  <2> DEFINE n == Prorata(base, w.tier, slice, t)
  <2>2. plan = RecordGranted(p, slice.from, w.tier) /\ next = AddAllowance(al, n)
    BY <1>6 DEF PlanRow, AllowanceRow
  <2>n. n \in 0..(TIERS[w.tier] - TIERS[base])
    <3>1. base \in Nat /\ w.tier \in Nat
      BY <1>w, <1>b, Constants
    <3>2. base < w.tier
      BY <2>1, <3>1
    <3> HIDE DEF p, slice, base
    <3> QED BY <1>w, <1>b, <2>1, <3>2, StepIs
  <2> HIDE DEF p, slice, base, plan, next, n
  <2>3. /\ slice.from \in Nat /\ slice.from >= p.start /\ p.start > 0 /\ t < p.until
        /\ ~p.yearly => slice.from = p.start
        /\ slice.from <= t
    BY <1>w, <1>1, <2>1 DEF IsSlice
  <2>4. /\ plan \in APlan /\ plan.rail = r /\ plan.yearly = w.yearly /\ plan.start = w.start
        /\ plan.until = w.until /\ plan.grantedTier = w.tier /\ plan.grantedPeriod = slice.from
    BY <1>w, <1>1, <2>2, <2>3 DEF RecordGranted, APlan
  <2>k. slice.from <= al.period
    BY <1>3, <1>6, <2>3
  <2>p. al.period > 0
    BY <1>1, <1>3, <1>w, <2>3, <2>k
  <2>t. TIERS[w.tier] \in Nat /\ TIERS[base] \in Nat
    BY <1>w, <1>b, Constants
  <2>5. next \in AnAllowance /\ next.period = al.period /\ next.granted = al.granted + n
    <3>1. n \in Nat
      BY <2>n, <2>t
    <3> QED BY <1>3, <2>2, <2>p, <3>1 DEF AddAllowance, AnAllowance
  <2>6. ASSUME old.yearly = w.yearly, Steady(t, old, al), slice.from >= al.period
        PROVE  Steady(t, plan, next)
    <3> SUFFICES ASSUME ~plan.yearly
                 PROVE  /\ plan.grantedPeriod = next.period
                        /\ next.granted <= TIERS[plan.grantedTier]
                        /\ plan.start = next.period
      BY DEF Steady
    <3>1. slice.from = al.period
      BY <1>3, <2>3, <2>k, <2>6
    <3>2. old.grantedPeriod = al.period /\ al.granted <= TIERS[old.grantedTier]
      BY <2>1, <2>4, <2>6 DEF Steady
    <3>3. base = old.grantedTier
      BY <1>b, <3>1, <3>2
    <3>4. next.granted <= TIERS[w.tier]
      BY <1>3, <2>5, <2>n, <2>t, <3>2, <3>3
    <3> QED BY <1>1, <2>3, <2>4, <2>5, <3>1, <3>4
  <2> QED BY <1>w, <1>1, <1>3, <1>4, <2>1, <2>3, <2>4, <2>5, <2>6, <2>k, <2>p DEF RowStep, Says
<1>7. CASE ~(slice.from > al.period) /\ ~TopsUp(old, al, r, w, t)
  <2>1. plan = p /\ next = al
    BY <1>7 DEF PlanRow, AllowanceRow
  <2>2. w.until > t => slice.from \in Nat /\ slice.from >= w.start /\ al.period >= w.start
    <3> HIDE DEF p, slice, base, plan, next
    <3> QED BY <1>w, <1>1, <1>2, <1>3, <1>7 DEF IsSlice
  <2>3. ASSUME old.rail = r, old.yearly = w.yearly, Steady(t, old, al),
               slice = NoSlice \/ slice.from >= al.period
        PROVE  Steady(t, plan, next)
    <3> HIDE DEF p, slice, base, plan, next
    <3> SUFFICES ASSUME ~plan.yearly
                 PROVE  /\ plan.grantedPeriod = next.period
                        /\ next.granted <= TIERS[plan.grantedTier]
                        /\ plan.until > t => plan.start = next.period
      BY DEF Steady
    <3>1. old.grantedPeriod = al.period /\ al.granted <= TIERS[old.grantedTier]
      BY <1>1, <2>1, <2>3 DEF Steady
    <3>2. w.until > t => slice.from = w.start /\ slice.from >= al.period
      BY <1>1, <1>2, <2>1, <2>3 DEF IsSlice
    <3> QED BY <1>w, <1>1, <1>3, <2>1, <2>2, <3>1, <3>2
  <2> HIDE DEF p, slice, base, plan, next
  <2> QED BY <1>w, <1>1, <1>3, <1>4, <2>1, <2>2, <2>3 DEF RowStep, Says
<1> QED BY <1>5, <1>6, <1>7

-----------------------------------------------------------------------------
(* From one state of the tables to another.                                *)

\* The subscriptions `s`, the time `t` and what was given `g`, with which tables are read.
Sane(s, t, g) == s \in [Rails -> ASub] /\ t \in Nat \ {0} /\ g \subseteq AGift
Ready(s, t, g, b) ==
  /\ Sane(s, t, g) /\ Tables(b) /\ AllFit(s, t, b) /\ AllEnded(t, g, b)
  /\ NotesIn(s, g, b.minted)

SameRow(of, b, x) == b.plan[x] = of.plan[x] /\ b.allowance[x] = of.allowance[x]
RowGoes(t, g, of, b, x) ==
  /\ b.allowance[x].period >= of.allowance[x].period
  /\ Granted(of, b, x) => /\ Steady(t, b.plan[x], b.allowance[x])
                          /\ ~MintedOn(g, b.plan[x].rail, b.plan[x].start)
  /\ ~Granted(of, b, x) /\ ~GoesAstray(of, b, x, t) /\ Steady(t, of.plan[x], of.allowance[x])
       => Steady(t, b.plan[x], b.allowance[x])
Becomes(s, t, g, of, b) ==
  /\ Ready(s, t, g, b)
  /\ b.minted = of.minted
  /\ \A r \in Rails : of.owner[r] = Nobody \/ b.owner[r] = of.owner[r]
  /\ \A x \in Accounts : RowGoes(t, g, of, b, x)

\* Nothing needs to change.
LEMMA SameRowGoes ==
  ASSUME NEW s, NEW t, NEW g, NEW of, Tables(of), NEW b, NEW x \in Accounts, SameRow(of, b, x)
  PROVE  RowGoes(t, g, of, b, x)
<1>1. of.allowance[x].period \in Nat
  BY DEF Tables, AnAllowance
<1>2. b.allowance[x].period >= of.allowance[x].period /\ ~Granted(of, b, x)
  BY <1>1 DEF SameRow, Granted
<1> QED BY <1>2 DEF RowGoes, SameRow

\* Tables that stay as they are are as they should be.
LEMMA Unchanged ==
  ASSUME NEW s, NEW t, NEW g, NEW b, Ready(s, t, g, b)
  PROVE  Becomes(s, t, g, b, b)
BY SameRowGoes DEF Becomes, Ready, SameRow

RenewedTables(b, a, r, w, t) ==
  [plan |-> [b.plan EXCEPT ![a] = PlanRow(b.plan[a], b.allowance[a], r, w, t)],
   owner |-> IF r \in Accounts THEN b.owner ELSE [b.owner EXCEPT ![r] = a],
   allowance |-> [b.allowance EXCEPT ![a] = AllowanceRow(b.plan[a], b.allowance[a], r, w, t)],
   minted |-> b.minted, spent |-> b.spent]

\* Three of the tables are written.
ThreeWritten(b, c, plan, owner, allowance) ==
  /\ FiveTables(c)
  /\ c.plan = plan /\ c.owner = owner /\ c.allowance = allowance
  /\ c.minted = b.minted /\ c.spent = b.spent

\* Writing three tables leaves the other two.
LEMMA Writing ==
  ASSUME NEW b, FiveTables(b), NEW plan, NEW owner, NEW allowance, NEW c,
         c = [b EXCEPT !.owner = owner, !.plan = plan, !.allowance = allowance]
  PROVE  ThreeWritten(b, c, plan, owner, allowance)
BY DEF FiveTables, ThreeWritten

IsRenewed(b, c, a, r, w, t) ==
  ThreeWritten(b, c,
    [b.plan EXCEPT ![a] = PlanRow(b.plan[a], b.allowance[a], r, w, t)],
    IF r \in Accounts THEN b.owner ELSE [b.owner EXCEPT ![r] = a],
    [b.allowance EXCEPT ![a] = AllowanceRow(b.plan[a], b.allowance[a], r, w, t)])

\* Renewing is refused, or writes one row and binds the rail.
LEMMA RenewIs ==
  ASSUME NEW b, FiveTables(b), NEW a \in Accounts, NEW r, NEW w, NEW t
  PROVE  IF Refuses(b, a, r, w, t) THEN Renew(b, a, r, w, t) = b
         ELSE IsRenewed(b, Renew(b, a, r, w, t), a, r, w, t)
<1> SUFFICES ASSUME ~Refuses(b, a, r, w, t)
             PROVE  IsRenewed(b, Renew(b, a, r, w, t), a, r, w, t)
  BY DEF Renew
<1> DEFINE old == b.plan[a]
           plan == PlanOf(old, r, w, t)
           slice == Slice(plan, t)
           base == GrantedBase(old, slice.from)
           grant == slice.from > b.allowance[a].period
           topUp == ~grant /\ slice # NoSlice /\ old.rail = r /\ w.tier > base
           p == IF grant \/ topUp THEN RecordGranted(plan, slice.from, w.tier) ELSE plan
           q == IF grant THEN SetAllowance(slice, w.tier)
                ELSE IF topUp THEN AddAllowance(b.allowance[a], Prorata(base, w.tier, slice, t))
                ELSE b.allowance[a]
           o == IF IsNote(r) THEN b.owner ELSE [b.owner EXCEPT ![r] = a]
           c == Renew(b, a, r, w, t)
<1>1. p = PlanRow(old, b.allowance[a], r, w, t) /\ q = AllowanceRow(old, b.allowance[a], r, w, t)
  BY DEF PlanRow, AllowanceRow, TopsUp
<1>2. c = [b EXCEPT !.owner = o, !.plan = [b.plan EXCEPT ![a] = p],
                    !.allowance = [b.allowance EXCEPT ![a] = q]]
  BY DEF Renew, PlanOf
<1> HIDE DEF p, q, o, c
<1>3. ThreeWritten(b, c, [b.plan EXCEPT ![a] = p], o, [b.allowance EXCEPT ![a] = q])
  BY <1>2, Writing
<1> QED BY <1>1, <1>3 DEF IsRenewed, IsNote, o, c

\* The months of a payment are those of its beginning, end and interval.
LEMMA SameCovered ==
  ASSUME NEW p, NEW q, p.yearly = q.yearly, p.start = q.start, p.until = q.until
  PROVE  Covered(p) = Covered(q)
BY DEF Covered

\* A period that is not over, of a payment that was minted, starts no plan.
LEMMA NotMintedToo ==
  ASSUME NEW s, NEW t, NEW g, NEW b, Ready(s, t, g, b), NEW a \in Accounts, NEW r, NEW w,
         IsSaid(s, t, a, r, w), ~Refuses(b, a, r, w, t), w.until > t
  PROVE  ~MintedOn(g, r, w.start)
<1> SUFFICES ASSUME NEW x \in g, x.way = "note", x.rail = r, x.pay = w.start
             PROVE  FALSE
  BY DEF MintedOn
<1>1. x.rail \in Rails /\ t \in Nat \ {0}
  BY DEF Ready, Sane, AGift
<1>2. r \in Rails /\ r \notin Accounts /\ IsWord(s, t, r, w)
  BY <1>1, Constants DEF IsSaid
<1>3. w.yearly = s[r].yearly /\ w.until = w.start + Length(s[r].yearly)
  BY <1>1, <1>2 DEF IsWord
<1>4. Covered(w) = Covered(Paid(s, r, w.start))
  BY <1>3, SameCovered DEF Paid
<1>5. x.month \in Covered(w) /\ \E n \in b.minted : n.rail = r /\ n.epoch = x.month
  BY <1>4 DEF Ready, NotesIn
<1>6. MintedAlready(b, r, w)
  BY <1>5 DEF MintedAlready
<1> QED BY <1>2, <1>6 DEF Refuses, IsNote

\* Renewing keeps the tables as they should be.
LEMMA RenewBecomes ==
  ASSUME NEW s, NEW t, NEW g, NEW b, Ready(s, t, g, b), NEW a \in Accounts, NEW r, NEW w,
         IsSaid(s, t, a, r, w)
  PROVE  Becomes(s, t, g, b, Renew(b, a, r, w, t))
<1> DEFINE c == Renew(b, a, r, w, t)
           old == b.plan[a]
           al == b.allowance[a]
           plan == PlanRow(old, al, r, w, t)
           next == AllowanceRow(old, al, r, w, t)
<1>0. CASE Refuses(b, a, r, w, t)
  BY <1>0, Unchanged, RenewIs DEF Ready, Tables
<1>1. CASE ~Refuses(b, a, r, w, t)
  <2>1. /\ Tables(b) /\ AllFit(s, t, b) /\ AllEnded(t, g, b) /\ NotesIn(s, g, b.minted)
        /\ s \in [Rails -> ASub] /\ t \in Nat \ {0} /\ FiveTables(b)
    BY DEF Ready, Sane, Tables
  <2>2. Said2(w, t) /\ r \in Names /\ r # Nobody
    BY <2>1, SaidIs
  <2>3. old \in APlan /\ al \in AnAllowance
    BY <2>1 DEF Tables
  <2>4. RowStep(old, al, plan, next, r, w, t)
    BY <2>1, <2>2, <2>3, RowSteps
  <2>5. IsRenewed(b, c, a, r, w, t)
    BY <1>1, <2>1, RenewIs
  <2>6. Fits(s, t, b.owner, a, old, al)
    BY <2>1 DEF AllFit
  <2>7. /\ r \in Rails => /\ b.owner[r] = Nobody \/ b.owner[r] = a
                          /\ IsWord(s, t, r, w) /\ r \notin Accounts
        /\ r \notin Rails => r = a /\ w.yearly = FALSE
        /\ w.until > t \/ old.rail # Nobody
    BY <1>1, <2>1, <2>2, Constants DEF Refuses, AttachRefused, IsSaid, Said2
  <2>8. w.until > t => ~MintedOn(g, r, w.start)
    BY <1>1, NotMintedToo
  <2> DEFINE o == IF r \in Accounts THEN b.owner ELSE [b.owner EXCEPT ![r] = a]
  <2>9. /\ FiveTables(c) /\ c.minted = b.minted /\ c.spent = b.spent
        /\ c.plan = [b.plan EXCEPT ![a] = plan]
        /\ c.allowance = [b.allowance EXCEPT ![a] = next]
        /\ c.owner = o
    BY <2>5 DEF IsRenewed, ThreeWritten
  <2> HIDE DEF c, plan, next, o
  <2>10. /\ plan \in APlan /\ next \in AnAllowance
         /\ plan.rail = r /\ plan.yearly = w.yearly /\ plan.start = w.start /\ plan.until = w.until
         /\ next.period >= al.period /\ (al.period <= t => next.period <= t)
         /\ w.until > t => next.period >= w.start
    BY <2>4 DEF RowStep, Says
  <2>11. /\ c.plan[a] = plan /\ c.allowance[a] = next
         /\ \A x \in Accounts : x # a => c.plan[x] = b.plan[x] /\ c.allowance[x] = b.allowance[x]
    BY <2>1, <2>9 DEF Tables
  <2>12. /\ o \in [Rails -> Accounts \cup {Nobody}]
         /\ r \in Rails => o[r] = a
         /\ \A q \in Rails : b.owner[q] = Nobody \/ o[q] = b.owner[q]
    BY <2>1, <2>2, <2>7 DEF Tables, o
  <2>13. Tables(c)
    BY <2>1, <2>9, <2>10, <2>12 DEF Tables
  <2>14. ASSUME NEW x \in Accounts
         PROVE  Fits(s, t, c.owner, x, c.plan[x], c.allowance[x])
    <3>1. CASE x = a
      <4>1. next.period > 0 /\ next.period <= t /\ plan.start \in 1..t
        <5>1. w.start >= 1 /\ w.start \in Nat /\ t \in Nat
          BY <2>1, <2>2 DEF Said2
        <5>2. next.period \in Nat /\ al.period \in Nat
          BY <2>3, <2>10 DEF AnAllowance
        <5>3. al.period <= t /\ (old.rail # Nobody => al.period > 0)
          BY <2>6 DEF Fits
        <5>4. plan.start \in 1..t
          BY <2>2, <2>10 DEF Said2
        <5> QED BY <2>7, <2>10, <5>1, <5>2, <5>3, <5>4
      <4>2. r \in Rails => c.owner[r] = a /\ IsSold(s, r) /\ plan.yearly = s[r].yearly
        BY <2>7, <2>9, <2>10, <2>12 DEF IsWord
      <4>3. r \in Accounts => ~plan.yearly
        BY <2>7, <2>10, Constants
      <4>4. plan.until > t => plan.start \in 1..next.period
        <5>1. w.start \in Nat /\ w.start >= 1 /\ next.period \in Nat
          BY <2>1, <2>2, <2>10 DEF Said2, AnAllowance
        <5> QED BY <2>10, <5>1
      <4>5. Fits(s, t, c.owner, a, plan, next)
        BY <2>2, <2>10, <4>1, <4>2, <4>3, <4>4 DEF Fits
      <4> QED BY <2>11, <3>1, <4>5
    <3>2. CASE x # a
      <4>1. Fits(s, t, b.owner, x, b.plan[x], b.allowance[x])
        BY <2>1 DEF AllFit
      <4>2. b.plan[x].rail \in Rails => c.owner[b.plan[x].rail] = x
        <5> SUFFICES ASSUME b.plan[x].rail \in Rails
                     PROVE  c.owner[b.plan[x].rail] = x
          OBVIOUS
        <5>1. b.owner[b.plan[x].rail] = x /\ x # Nobody
          BY <4>1, Constants DEF Fits
        <5> QED BY <2>9, <2>12, <5>1
      <4> QED BY <2>11, <3>2, <4>1, <4>2 DEF Fits
    <3> QED BY <3>1, <3>2
  <2>15. AllEnded(t, g, c)
    <3>1. ASSUME NEW x \in Accounts, MintedOn(g, c.plan[x].rail, c.plan[x].start)
          PROVE  c.plan[x].until <= t
      <4>1. CASE x = a
        <5>1. w.until \in Nat /\ t \in Nat
          BY <2>1, <2>2 DEF Said2
        <5> QED BY <2>8, <2>10, <2>11, <3>1, <4>1, <5>1
      <4>2. CASE x # a
        BY <2>1, <2>11, <3>1, <4>2 DEF AllEnded
      <4> QED BY <4>1, <4>2
    <3> QED BY <3>1 DEF AllEnded
  <2>16. ASSUME NEW x \in Accounts
         PROVE  RowGoes(t, g, b, c, x)
    <3>1. CASE x = a
      <4>1. old.rail = r => old.yearly = w.yearly
        <5>1. old.yearly \in BOOLEAN /\ w.yearly \in BOOLEAN
          BY <2>2, <2>3 DEF APlan, Said2
        <5>2. CASE r \in Rails
          BY <2>6, <2>7, <5>2 DEF Fits, IsWord
        <5>3. CASE r \notin Rails
          BY <2>6, <2>7, <5>1, <5>3 DEF Fits
        <5> QED BY <5>2, <5>3
      <4>2. next.period > al.period => w.until > t /\ Steady(t, plan, next)
        BY <2>4 DEF RowStep, plan, next
      <4>3. ASSUME ~Granted(b, c, x), ~GoesAstray(b, c, x, t), Steady(t, old, al)
            PROVE  Steady(t, plan, next)
        <5>1. next.period \in Nat /\ al.period \in Nat
          BY <2>3, <2>10 DEF AnAllowance
        <5>2. next.period = al.period
          BY <2>10, <2>11, <3>1, <4>3, <5>1 DEF Granted
        <5>3. old.rail = r
          BY <2>10, <2>11, <3>1, <4>3 DEF GoesAstray
        <5>4. Slice(plan, t) = NoSlice \/ Slice(plan, t).from >= next.period
          <6>1. Slice(plan, t) # NoSlice => ~(Slice(plan, t).from < next.period)
            BY <2>11, <3>1, <4>3 DEF GoesAstray
          <6>2. Slice(plan, t) = NoSlice \/ IsSlice(Slice(plan, t), plan, t)
            <7>1. IsPaid(plan) /\ t \in Nat
              BY <2>1, <2>10 DEF IsPaid, APlan
            <7> QED BY <7>1, SliceIs
          <6>3. Slice(plan, t) # NoSlice => Slice(plan, t).from \in Nat
            BY <6>2 DEF IsSlice
          <6> QED BY <5>1, <6>1, <6>3
        <5> QED BY <2>4, <4>1, <4>3, <5>2, <5>3, <5>4 DEF RowStep, plan, next
      <4>4. Granted(b, c, x) <=> next.period > al.period
        BY <2>11, <3>1 DEF Granted
      <4> QED BY <2>8, <2>10, <2>11, <3>1, <4>2, <4>3, <4>4 DEF RowGoes
    <3>2. CASE x # a
      BY <2>1, <2>11, <3>2, SameRowGoes DEF SameRow
    <3> QED BY <3>1, <3>2
  <2>17. Ready(s, t, g, c)
    BY <2>9, <2>13, <2>14, <2>15 DEF Ready, AllFit
  <2>18. Becomes(s, t, g, b, c)
    BY <2>9, <2>12, <2>16, <2>17 DEF Becomes
  <2> QED BY <2>18 DEF c
<1> QED BY <1>0, <1>1

\* How one account's row may go on.
RowOk(s, t, g, b, x, plan, next) ==
  /\ plan \in APlan /\ next \in AnAllowance
  /\ Fits(s, t, b.owner, x, plan, next)
  /\ MintedOn(g, plan.rail, plan.start) => plan.until <= t
  /\ next.period >= b.allowance[x].period
  /\ next.period > b.allowance[x].period =>
       Steady(t, plan, next) /\ ~MintedOn(g, plan.rail, plan.start)
  /\ /\ next.period = b.allowance[x].period /\ plan.rail = b.plan[x].rail
     /\ Slice(plan, t) = NoSlice \/ Slice(plan, t).from >= next.period
     /\ Steady(t, b.plan[x], b.allowance[x])
     => Steady(t, plan, next)

\* Rows that may go on so, with the rails bound as they were.
LEMMA RowsBecome ==
  ASSUME NEW s, NEW t, NEW g, NEW b, Ready(s, t, g, b), NEW c,
         NEW plans, NEW nexts, ThreeWritten(b, c, plans, b.owner, nexts),
         plans = [x \in Accounts |-> plans[x]], nexts = [x \in Accounts |-> nexts[x]],
         \A x \in Accounts : RowOk(s, t, g, b, x, plans[x], nexts[x])
  PROVE  Becomes(s, t, g, b, c)
<1>1. /\ FiveTables(c) /\ c.plan = plans /\ c.owner = b.owner /\ c.allowance = nexts
      /\ c.minted = b.minted /\ c.spent = b.spent
  BY DEF ThreeWritten
<1>2. /\ Tables(b) /\ Sane(s, t, g) /\ NotesIn(s, g, b.minted) /\ t \in Nat
  BY DEF Ready, Sane
<1>3. plans \in [Accounts -> APlan] /\ nexts \in [Accounts -> AnAllowance]
  BY DEF RowOk
<1>4. Tables(c)
  BY <1>1, <1>2, <1>3 DEF Tables
<1>5. AllFit(s, t, c) /\ AllEnded(t, g, c)
  BY <1>1 DEF AllFit, AllEnded, RowOk
<1>6. ASSUME NEW x \in Accounts
      PROVE  RowGoes(t, g, b, c, x)
  <2>1. c.plan[x] = plans[x] /\ c.allowance[x] = nexts[x] /\ RowOk(s, t, g, b, x, plans[x], nexts[x])
    BY <1>1
  <2>2. c.allowance[x].period \in Nat /\ b.allowance[x].period \in Nat /\ c.plan[x] \in APlan
    BY <1>2, <1>4 DEF Tables, AnAllowance
  <2>3. Slice(c.plan[x], t) = NoSlice \/ Slice(c.plan[x], t).from \in Nat
    <3>1. IsPaid(c.plan[x])
      BY <2>2 DEF IsPaid, APlan
    <3>2. Slice(c.plan[x], t) = NoSlice \/ IsSlice(Slice(c.plan[x], t), c.plan[x], t)
      BY <1>2, <3>1, SliceIs
    <3> QED BY <3>2 DEF IsSlice
  <2>4. ~GoesAstray(b, c, x, t) =>
          /\ c.plan[x].rail = b.plan[x].rail
          /\ Slice(c.plan[x], t) = NoSlice \/ Slice(c.plan[x], t).from >= c.allowance[x].period
    BY <2>2, <2>3 DEF GoesAstray
  <2>5. /\ c.allowance[x].period >= b.allowance[x].period
        /\ Granted(b, c, x) => /\ Steady(t, c.plan[x], c.allowance[x])
                               /\ ~MintedOn(g, c.plan[x].rail, c.plan[x].start)
    BY <2>1 DEF RowOk, Granted
  <2>6. ~Granted(b, c, x) => c.allowance[x].period = b.allowance[x].period
    BY <2>2, <2>5 DEF Granted
  <2>7. ASSUME ~Granted(b, c, x), ~GoesAstray(b, c, x, t), Steady(t, b.plan[x], b.allowance[x])
        PROVE  Steady(t, c.plan[x], c.allowance[x])
    BY <2>1, <2>4, <2>6, <2>7 DEF RowOk
  <2> QED BY <2>5, <2>7 DEF RowGoes
<1> QED BY <1>1, <1>2, <1>4, <1>5, <1>6 DEF Becomes, Ready

\* Only one row goes on.
LEMMA OneRowBecomes ==
  ASSUME NEW s, NEW t, NEW g, NEW b, Ready(s, t, g, b), NEW c, NEW a \in Accounts,
         NEW plan, NEW next, RowOk(s, t, g, b, a, plan, next),
         ThreeWritten(b, c, [b.plan EXCEPT ![a] = plan], b.owner, [b.allowance EXCEPT ![a] = next])
  PROVE  Becomes(s, t, g, b, c)
<1> DEFINE plans == [b.plan EXCEPT ![a] = plan]
           nexts == [b.allowance EXCEPT ![a] = next]
<1>1. /\ Tables(b) /\ AllFit(s, t, b) /\ AllEnded(t, g, b)
  BY DEF Ready
<1>2. /\ plans = [x \in Accounts |-> plans[x]] /\ nexts = [x \in Accounts |-> nexts[x]]
      /\ plans[a] = plan /\ nexts[a] = next
      /\ \A x \in Accounts : x # a => plans[x] = b.plan[x] /\ nexts[x] = b.allowance[x]
  BY <1>1 DEF Tables
<1>3. ThreeWritten(b, c, plans, b.owner, nexts)
  OBVIOUS
<1> HIDE DEF plans, nexts
<1>4. ASSUME NEW x \in Accounts, x # a
      PROVE  RowOk(s, t, g, b, x, plans[x], nexts[x])
  <2>1. plans[x] = b.plan[x] /\ nexts[x] = b.allowance[x]
    BY <1>2, <1>4
  <2>2. b.plan[x] \in APlan /\ b.allowance[x] \in AnAllowance /\ b.allowance[x].period \in Nat
    BY <1>1 DEF Tables, AnAllowance
  <2>3. Fits(s, t, b.owner, x, b.plan[x], b.allowance[x])
    BY <1>1 DEF AllFit
  <2>4. MintedOn(g, b.plan[x].rail, b.plan[x].start) => b.plan[x].until <= t
    BY <1>1 DEF AllEnded
  <2> QED BY <2>1, <2>2, <2>3, <2>4 DEF RowOk
<1>5. \A x \in Accounts : RowOk(s, t, g, b, x, plans[x], nexts[x])
  BY <1>2, <1>4
<1> QED BY <1>2, <1>3, <1>5, RowsBecome

\* The same period whatever the tier.
LEMMA SameSlice ==
  ASSUME NEW p, NEW q, NEW t, p.yearly = q.yearly, p.start = q.start, p.until = q.until
  PROVE  Slice(p, t) = Slice(q, t)
BY DEF Slice

\* A change of the tier keeps the tables as they should be.
LEMMA ChangeBecomes ==
  ASSUME NEW s, NEW t, NEW g, NEW b, Ready(s, t, g, b), NEW a \in Accounts, NEW tier \in Tiers
  PROVE  Becomes(s, t, g, b, ChangeTier(b, a, tier, t))
<1> DEFINE old == b.plan[a]
           al == b.allowance[a]
           slice == Slice(old, t)
           base == IF slice = NoSlice THEN old.tier ELSE GrantedBase(old, slice.from)
           topUp == slice # NoSlice /\ tier > base
           changed == [old EXCEPT !.tier = tier]
           plan == IF topUp THEN RecordGranted(changed, slice.from, tier) ELSE changed
           n == Prorata(base, tier, slice, t)
           next == IF topUp THEN AddAllowance(al, n) ELSE al
           c == ChangeTier(b, a, tier, t)
<1>0. CASE old = NoPlan
  BY <1>0, Unchanged DEF ChangeTier
<1>1. CASE old # NoPlan
  <2>1. /\ Tables(b) /\ AllFit(s, t, b) /\ AllEnded(t, g, b) /\ FiveTables(b) /\ t \in Nat \ {0}
    BY DEF Ready, Sane, Tables
  <2>2. old \in APlan /\ al \in AnAllowance
    BY <2>1 DEF Tables
  <2>3. Fits(s, t, b.owner, a, old, al)
    BY <2>1 DEF AllFit
  <2>4. MintedOn(g, old.rail, old.start) => old.until <= t
    BY <2>1 DEF AllEnded
  <2>5. c = [b EXCEPT !.plan = [b.plan EXCEPT ![a] = plan], !.allowance = [b.allowance EXCEPT ![a] = next]]
    BY <1>1 DEF ChangeTier
  <2>6. ThreeWritten(b, c, [b.plan EXCEPT ![a] = plan], b.owner, [b.allowance EXCEPT ![a] = next])
    <3> HIDE DEF plan, next, c
    <3> QED BY <2>1, <2>5 DEF FiveTables, ThreeWritten
  <2>7. slice = NoSlice \/ IsSlice(slice, old, t)
    <3>1. IsPaid(old) /\ t \in Nat
      BY <2>1, <2>2 DEF IsPaid, APlan
    <3> QED BY <3>1, SliceIs
  <2>8. base \in Tiers /\ (slice # NoSlice /\ old.grantedPeriod = slice.from => base = old.grantedTier)
    BY <2>2 DEF GrantedBase, APlan
  <2>9. topUp => n \in 0..(TIERS[tier] - TIERS[base])
    <3> HIDE DEF slice, base
    <3>1. base \in Nat /\ tier \in Nat
      BY <2>8, Constants
    <3>2. ASSUME topUp
          PROVE  n \in 0..(TIERS[tier] - TIERS[base])
      <4>1. base < tier /\ IsSlice(slice, old, t) /\ t \in Nat
        BY <2>1, <2>7, <3>1, <3>2
      <4> QED BY <2>8, <4>1, StepIs
    <3> QED BY <3>2
  <2>10. TIERS[tier] \in Nat /\ TIERS[base] \in Nat
    BY <2>8, Constants
  <2>11. topUp => slice.from \in Nat /\ (~old.yearly => slice.from = old.start)
    BY <2>7 DEF IsSlice
  <2>12. al.period \in Nat /\ al.granted \in Nat
    BY <2>2 DEF AnAllowance
  <2> HIDE DEF slice, base, n, c
  <2>13. /\ plan \in APlan /\ plan.rail = old.rail /\ plan.start = old.start /\ plan.until = old.until
         /\ plan.yearly = old.yearly
         /\ topUp => plan.grantedTier = tier /\ plan.grantedPeriod = slice.from
         /\ ~topUp => plan.grantedTier = old.grantedTier /\ plan.grantedPeriod = old.grantedPeriod
    BY <2>2, <2>11 DEF RecordGranted, APlan
  <2>14. old.rail # Nobody /\ al.period > 0
    BY <1>1, <2>3 DEF Fits
  <2>15. /\ next \in AnAllowance /\ next.period = al.period
         /\ topUp => next.granted = al.granted + n
         /\ ~topUp => next = al
    <3>1. topUp => n \in Nat
      BY <2>9, <2>10
    <3> QED BY <2>2, <2>12, <2>14, <3>1 DEF AddAllowance, AnAllowance
  <2>16. Slice(plan, t) = slice
    <3> HIDE DEF plan
    <3> QED BY <2>13, SameSlice DEF slice
  <2> HIDE DEF plan, next
  <2>17. ASSUME slice = NoSlice \/ slice.from >= next.period, Steady(t, old, al)
         PROVE  Steady(t, plan, next)
    <3> SUFFICES ASSUME ~plan.yearly
                 PROVE  /\ plan.grantedPeriod = next.period
                        /\ next.granted <= TIERS[plan.grantedTier]
                        /\ plan.until > t => plan.start = next.period
      BY DEF Steady
    <3>1. /\ old.grantedPeriod = al.period /\ al.granted <= TIERS[old.grantedTier]
          /\ old.until > t => old.start = al.period
      BY <2>13, <2>14, <2>17 DEF Steady
    <3>2. CASE topUp
      <4>1. slice.from = old.start /\ old.until > t
        BY <2>1, <2>2, <2>7, <2>11, <2>13, <3>2 DEF IsSlice, APlan
      <4>2. base = old.grantedTier
        BY <2>8, <3>1, <3>2, <4>1
      <4>3. next.granted <= TIERS[tier]
        BY <2>9, <2>10, <2>12, <2>15, <3>1, <3>2, <4>2
      <4> QED BY <2>13, <2>15, <3>1, <3>2, <4>1, <4>3
    <3>3. CASE ~topUp
      BY <2>13, <2>15, <3>1, <3>3
    <3> QED BY <3>2, <3>3
  <2>18. Fits(s, t, b.owner, a, plan, next)
    BY <2>3, <2>13, <2>14, <2>15 DEF Fits
  <2>19. RowOk(s, t, g, b, a, plan, next)
    BY <2>4, <2>12, <2>13, <2>15, <2>16, <2>17, <2>18 DEF RowOk
  <2>20. Becomes(s, t, g, b, c)
    BY <2>6, <2>19, OneRowBecomes
  <2> QED BY <2>20 DEF c
<1> QED BY <1>0, <1>1

\* A plan that is over, whose allowance is gone, is as it should be.
LEMMA LapseOk ==
  ASSUME NEW s, NEW t, NEW g, NEW b, Ready(s, t, g, b), NEW a \in Accounts,
         NEW plan \in APlan, NEW next \in AnAllowance,
         /\ plan.rail = b.plan[a].rail /\ plan.yearly = b.plan[a].yearly /\ plan.start = b.plan[a].start
         /\ plan.grantedTier = b.plan[a].grantedTier /\ plan.grantedPeriod = b.plan[a].grantedPeriod
         /\ plan.until <= t /\ (plan.rail = Nobody => plan = NoPlan),
         next.period = b.allowance[a].period, next.granted = 0
  PROVE  RowOk(s, t, g, b, a, plan, next)
<1>1. /\ Tables(b) /\ AllFit(s, t, b) /\ t \in Nat
  BY DEF Ready, Sane
<1>2. /\ Fits(s, t, b.owner, a, b.plan[a], b.allowance[a])
      /\ b.allowance[a].period \in Nat /\ plan.until \in Nat
  BY <1>1 DEF AllFit, Tables, AnAllowance, APlan
<1>3. Fits(s, t, b.owner, a, plan, next)
  BY <1>1, <1>2 DEF Fits
<1>4. Steady(t, b.plan[a], b.allowance[a]) => Steady(t, plan, next)
  <2>1. 0 <= TIERS[plan.grantedTier]
    <3>1. plan.grantedTier \in Tiers
      BY DEF APlan
    <3>2. TIERS[plan.grantedTier] \in Nat
      BY <3>1, Constants
    <3> QED BY <3>2
  <2> QED BY <1>1, <1>2, <2>1 DEF Steady
<1> QED BY <1>2, <1>3, <1>4 DEF RowOk

\* Money that goes back keeps the tables as they should be.
LEMMA RevokeBecomes ==
  ASSUME NEW s, NEW t, NEW g, NEW b, Ready(s, t, g, b), NEW r \in Rails
  PROVE  Becomes(s, t, g, b, Revoke(b, r, t))
<1> DEFINE a == b.owner[r]
           old == b.plan[a]
           al == b.allowance[a]
           plan == Ended(old, t)
           next == LapseAllowance(al)
           c == Revoked(b, a, t)
<1>0. CASE ~EndsBy(b, r)
  BY <1>0, Unchanged DEF Revoke
<1>1. CASE EndsBy(b, r)
  <2>1. Tables(b) /\ AllFit(s, t, b) /\ FiveTables(b) /\ t \in Nat
    BY DEF Ready, Sane, Tables
  <2>2. a \in Accounts /\ old.rail = r
    BY <1>1, <2>1 DEF EndsBy, Tables
  <2>3. old \in APlan /\ al \in AnAllowance
    BY <2>1, <2>2 DEF Tables
  <2>4. c = [b EXCEPT !.plan = [b.plan EXCEPT ![a] = plan], !.allowance = [b.allowance EXCEPT ![a] = next]]
    BY DEF Revoked
  <2>5. ThreeWritten(b, c, [b.plan EXCEPT ![a] = plan], b.owner, [b.allowance EXCEPT ![a] = next])
    <3> HIDE DEF plan, next, c, a
    <3> QED BY <2>1, <2>4 DEF FiveTables, ThreeWritten
  <2> HIDE DEF c, a, old, al
  <2>6. /\ plan \in APlan /\ plan.rail = old.rail /\ plan.yearly = old.yearly /\ plan.start = old.start
        /\ plan.grantedTier = old.grantedTier /\ plan.grantedPeriod = old.grantedPeriod
        /\ plan.until <= t
    <3> DEFINE u == Lesser(old.until, t)
    <3>1. u \in Nat /\ u <= t
      BY <2>1, <2>3 DEF Lesser, APlan
    <3>2. plan = [old EXCEPT !.active = FALSE, !.until = u]
      BY DEF Ended
    <3> HIDE DEF u, plan
    <3> QED BY <2>3, <3>1, <3>2 DEF APlan
  <2>7. next \in AnAllowance /\ next.period = al.period /\ next.granted = 0
    BY <2>3 DEF LapseAllowance, AnAllowance
  <2> HIDE DEF plan, next
  <2>8. plan.rail # Nobody
    BY <2>2, <2>6, Constants
  <2>9. RowOk(s, t, g, b, a, plan, next)
    BY <2>2, <2>6, <2>7, <2>8, LapseOk DEF old, al
  <2>10. Becomes(s, t, g, b, c)
    BY <2>2, <2>5, <2>9, OneRowBecomes
  <2> QED BY <1>1, <2>10 DEF Revoke, c, a
<1> QED BY <1>0, <1>1

\* A beat's roll keeps the tables as they should be.
LEMMA RollBecomes ==
  ASSUME NEW s, NEW t, NEW g, NEW b, Ready(s, t, g, b)
  PROVE  Becomes(s, t, g, b, Roll(b, t))
<1> DEFINE slice(a) == IF PaidAt(b.plan[a], t) THEN Slice(b.plan[a], t) ELSE NoSlice
           plans == [a \in Accounts |-> [b.plan[a] EXCEPT !.active = PaidAt(b.plan[a], t)]]
           row(a) ==
             IF ~(b.plan[a] # NoPlan) THEN b.allowance[a]
             ELSE IF slice(a).from > b.allowance[a].period THEN SetAllowance(slice(a), b.plan[a].tier)
             ELSE IF slice(a) = NoSlice /\ t >= b.allowance[a].ends THEN LapseAllowance(b.allowance[a])
             ELSE b.allowance[a]
           nexts == [a \in Accounts |-> row(a)]
           c == Roll(b, t)
<1>1. Tables(b) /\ AllFit(s, t, b) /\ AllEnded(t, g, b) /\ FiveTables(b) /\ t \in Nat \ {0}
  BY DEF Ready, Sane, Tables
<1>2. c = [b EXCEPT !.plan = plans, !.allowance = nexts]
  BY DEF Roll
<1>3. ThreeWritten(b, c, plans, b.owner, nexts)
  <2> HIDE DEF plans, nexts, c
  <2> QED BY <1>1, <1>2 DEF FiveTables, ThreeWritten
<1>4. ASSUME NEW a \in Accounts
      PROVE  RowOk(s, t, g, b, a, plans[a], nexts[a])
  <2> DEFINE old == b.plan[a]
             al == b.allowance[a]
             sl == slice(a)
             plan == plans[a]
             next == nexts[a]
  <2>1. old \in APlan /\ al \in AnAllowance /\ al.period \in Nat
    BY <1>1 DEF Tables, AnAllowance
  <2>2. Fits(s, t, b.owner, a, old, al) /\ (MintedOn(g, old.rail, old.start) => old.until <= t)
    BY <1>1 DEF AllFit, AllEnded
  <2>3. sl = NoSlice \/ (PaidAt(old, t) /\ sl = Slice(old, t) /\ IsSlice(sl, old, t))
    <3>1. IsPaid(old) /\ t \in Nat
      BY <1>1, <2>1 DEF IsPaid, APlan
    <3>2. Slice(old, t) = NoSlice \/ IsSlice(Slice(old, t), old, t)
      BY <3>1, SliceIs
    <3> QED BY <3>2
  <2>4. next = IF ~(old # NoPlan) THEN al
               ELSE IF sl.from > al.period THEN SetAllowance(sl, old.tier)
               ELSE IF sl = NoSlice /\ t >= al.ends THEN LapseAllowance(al) ELSE al
    OBVIOUS
  <2>5. /\ plan \in APlan /\ plan.rail = old.rail /\ plan.yearly = old.yearly /\ plan.start = old.start
        /\ plan.until = old.until
        /\ plan.grantedTier = old.grantedTier /\ plan.grantedPeriod = old.grantedPeriod
        /\ old = NoPlan => plan = NoPlan
    <3> DEFINE act == PaidAt(old, t)
    <3>1. plan = [old EXCEPT !.active = act]
      OBVIOUS
    <3>2. act \in BOOLEAN
      BY DEF PaidAt
    <3>3. old = NoPlan => act = FALSE
      BY DEF PaidAt, NoPlan
    <3> HIDE DEF act, plan, old
    <3>4. old = NoPlan => plan = NoPlan
      <4> SUFFICES ASSUME old = NoPlan
                   PROVE  plan = [NoPlan EXCEPT !.active = FALSE]
        BY DEF NoPlan
      <4> QED BY <3>1, <3>3
    <3> QED BY <2>1, <3>1, <3>2, <3>4 DEF APlan
  <2> HIDE DEF plan, next, sl, old, al
  <2>6. Slice(plan, t) = Slice(old, t)
    BY <2>5, SameSlice
  <2>7. CASE next = al
    <3>1. Fits(s, t, b.owner, a, plan, al)
      BY <2>2, <2>5 DEF Fits
    <3>2. Steady(t, old, al) => Steady(t, plan, al)
      BY <2>5 DEF Steady
    <3> QED BY <2>1, <2>2, <2>5, <2>7, <3>1, <3>2 DEF RowOk, old, al, plan, next
  <2>8. CASE old # NoPlan /\ sl.from > al.period /\ next = SetAllowance(sl, old.tier)
    <3>1. sl # NoSlice /\ IsSlice(sl, old, t)
      BY <2>1, <2>3, <2>8 DEF NoSlice
    <3>2. /\ sl.from \in Nat /\ sl.to \in Nat /\ old.until > t
          /\ old.start <= t => sl.from <= t
          /\ ~old.yearly => sl.from = old.start
      BY <1>1, <2>1, <3>1 DEF IsSlice, APlan
    <3>3. old.rail # Nobody /\ old.start \in 1..t
      BY <2>2, <2>8 DEF Fits
    <3>4. old.yearly
      <4>1. ~old.yearly => old.start \in 1..al.period
        BY <2>2, <3>2, <3>3 DEF Fits
      <4> QED BY <2>1, <2>8, <3>2, <4>1
    <3>5. next \in AnAllowance /\ next.period = sl.from /\ sl.from > 0 /\ sl.from <= t
      <4>1. old.tier \in Tiers /\ TIERS[old.tier] \in Nat
        BY <2>1, Constants DEF APlan
      <4> QED BY <1>1, <2>1, <2>8, <3>2, <3>3, <4>1 DEF SetAllowance, AnAllowance
    <3>6. Fits(s, t, b.owner, a, plan, next)
      <4>1. plan.rail # Nobody /\ plan.start \in 1..t /\ plan.yearly
        BY <2>5, <3>3, <3>4
      <4>2. next.period > 0 /\ next.period <= t /\ next.period # 0
        BY <3>5
      <4>3. plan.rail \in Rails => /\ b.owner[plan.rail] = a /\ IsSold(s, plan.rail)
                                   /\ plan.yearly = s[plan.rail].yearly
        BY <2>2, <2>5 DEF Fits
      <4>4. plan.rail \notin Accounts
        BY <2>2, <2>5, <3>4 DEF Fits
      <4> QED BY <4>1, <4>2, <4>3, <4>4 DEF Fits
    <3>7. ~MintedOn(g, plan.rail, plan.start)
      BY <1>1, <2>1, <2>2, <2>5, <3>2 DEF APlan
    <3>8. Steady(t, plan, next)
      BY <2>5, <3>4 DEF Steady
    <3>9. next.period > al.period
      BY <2>8, <3>5
    <3>10. next.period >= al.period /\ next.period # al.period
      BY <2>1, <3>5, <3>9 DEF AnAllowance
    <3>11. RowOk(s, t, g, b, a, plan, next)
      BY <2>5, <3>5, <3>6, <3>7, <3>8, <3>9, <3>10 DEF RowOk, al
    <3> QED BY <3>11 DEF plan, next
  <2>9. CASE next = LapseAllowance(al)
    <3>1. next \in AnAllowance /\ next.period = al.period /\ next.granted = 0
      BY <2>1, <2>9 DEF LapseAllowance, AnAllowance
    <3>2. Fits(s, t, b.owner, a, plan, next)
      BY <2>2, <2>5, <3>1 DEF Fits
    <3>3. Steady(t, old, al) => Steady(t, plan, next)
      <4>1. plan.grantedTier \in Tiers /\ TIERS[plan.grantedTier] \in Nat
        BY <2>5, Constants DEF APlan
      <4>2. 0 <= TIERS[plan.grantedTier]
        BY <4>1
      <4> QED BY <2>5, <3>1, <4>2 DEF Steady
    <3>4. RowOk(s, t, g, b, a, plan, next)
      BY <2>1, <2>2, <2>5, <3>1, <3>2, <3>3 DEF RowOk, old, al
    <3> QED BY <3>4 DEF plan, next
  <2>10. \/ next = al \/ next = LapseAllowance(al)
         \/ old # NoPlan /\ sl.from > al.period /\ next = SetAllowance(sl, old.tier)
    BY <2>4
  <2> QED BY <2>7, <2>8, <2>9, <2>10
<1>5. plans = [x \in Accounts |-> plans[x]] /\ nexts = [x \in Accounts |-> nexts[x]]
  OBVIOUS
<1> HIDE DEF plans, nexts, c
<1>6. Becomes(s, t, g, b, c)
  BY <1>3, <1>4, <1>5, RowsBecome
<1> QED BY <1>6 DEF c

-----------------------------------------------------------------------------
(* A plan moves.                                                           *)

\* After a move the account it went to has the row of the one it left, and nobody else's
\* row has changed.
Moves(s, t, g, b, c, r, to) ==
  LET from == b.owner[r]
  IN /\ Ready(s, t, g, c) /\ c.minted = b.minted
     /\ from \in Accounts /\ b.plan[from].rail = r
     /\ c.owner = [b.owner EXCEPT ![r] = to]
     /\ c.plan = [[b.plan EXCEPT ![to] = b.plan[from]] EXCEPT ![from] = NoPlan]
     /\ c.allowance[to] = b.allowance[from]
     /\ \A x \in Accounts : x # to => c.allowance[x].period = b.allowance[x].period
     /\ \A x \in Accounts : x \notin {from, to} => c.allowance[x] = b.allowance[x]

\* No plan is a plan on no rail that has ended.
LEMMA NoPlanIs ==
  /\ NoPlan \in APlan /\ NoPlan.rail = Nobody /\ NoPlan.until = 0 /\ NoPlan.start = 0
  /\ ~NoPlan.yearly
BY Constants DEF NoPlan, APlan, Names

\* "Restore purchases" keeps the tables as they should be.
LEMMA MoveMoves ==
  ASSUME NEW s, NEW t, NEW g, NEW b, Ready(s, t, g, b), NEW r \in Rails, NEW to \in Accounts,
         CanMove(b, r, to, t)
  PROVE  Moves(s, t, g, b, MovePlan(b, r, to), r, to)
<1> DEFINE from == b.owner[r]
           plans == [b.plan EXCEPT ![to] = b.plan[from], ![from] = NoPlan]
           nexts == IF b.allowance[from].period = 0 THEN b.allowance
                    ELSE [b.allowance EXCEPT ![to] = b.allowance[from], ![from] = LapseAllowance(@)]
           owners == [b.owner EXCEPT ![r] = to]
           c == MovePlan(b, r, to)
<1>1. /\ Tables(b) /\ AllFit(s, t, b) /\ AllEnded(t, g, b) /\ FiveTables(b) /\ t \in Nat \ {0}
      /\ Sane(s, t, g) /\ NotesIn(s, g, b.minted)
  BY DEF Ready, Sane, Tables
<1>2. from \in Accounts /\ from # to /\ b.plan[from].rail = r
  BY <1>1 DEF CanMove, Tables
<1>3. c = [b EXCEPT !.plan = plans, !.allowance = nexts, !.owner = owners]
  BY DEF MovePlan
<1>4. /\ FiveTables(c) /\ c.plan = plans /\ c.allowance = nexts /\ c.owner = owners
      /\ c.minted = b.minted /\ c.spent = b.spent
  <2> HIDE DEF plans, nexts, owners, c
  <2> QED BY <1>1, <1>3 DEF FiveTables
<1> HIDE DEF c, from
<1>5. Fits(s, t, b.owner, from, b.plan[from], b.allowance[from]) /\ b.allowance[from].period > 0
  BY <1>1, <1>2, Constants DEF AllFit, Fits
<1>6. b.allowance[from] \in AnAllowance /\ b.allowance[from].period # 0
  BY <1>1, <1>2, <1>5 DEF Tables
<1> DEFINE lapsed == LapseAllowance(b.allowance[from])
<1>7. nexts = [[b.allowance EXCEPT ![to] = b.allowance[from]] EXCEPT ![from] = lapsed]
  BY <1>1, <1>2, <1>6 DEF Tables
<1>8. lapsed \in AnAllowance /\ lapsed.period = b.allowance[from].period /\ lapsed.granted = 0
  BY <1>6 DEF LapseAllowance, AnAllowance
<1> HIDE DEF lapsed
<1>9. /\ plans \in [Accounts -> APlan] /\ plans[to] = b.plan[from] /\ plans[from] = NoPlan
      /\ \A x \in Accounts : x \notin {from, to} => plans[x] = b.plan[x]
  BY <1>1, <1>2, NoPlanIs DEF Tables
<1>10. /\ nexts \in [Accounts -> AnAllowance] /\ nexts[to] = b.allowance[from] /\ nexts[from] = lapsed
       /\ \A x \in Accounts : x \notin {from, to} => nexts[x] = b.allowance[x]
  BY <1>1, <1>2, <1>6, <1>7, <1>8 DEF Tables
<1>11. /\ owners \in [Rails -> Accounts \cup {Nobody}] /\ owners[r] = to
       /\ \A q \in Rails : q # r => owners[q] = b.owner[q]
  BY <1>1 DEF Tables
<1>p. plans = [[b.plan EXCEPT ![to] = b.plan[from]] EXCEPT ![from] = NoPlan]
  OBVIOUS
<1> HIDE DEF plans, nexts, owners
<1>12. Tables(c)
  BY <1>1, <1>4, <1>9, <1>10, <1>11 DEF Tables
<1>13. ASSUME NEW x \in Accounts
       PROVE  Fits(s, t, owners, x, plans[x], nexts[x])
  <2>1. CASE x = to
    <3>1. plans[x] = b.plan[from] /\ nexts[x] = b.allowance[from] /\ owners[r] = x
      BY <1>9, <1>10, <1>11, <2>1
    <3> QED BY <1>2, <1>5, <3>1 DEF Fits
  <2>2. CASE x = from
    <3>1. plans[x] = NoPlan /\ nexts[x] = lapsed
      BY <1>9, <1>10, <2>2
    <3>2. lapsed.period > 0 /\ lapsed.period <= t /\ lapsed.granted = 0 /\ lapsed.period # 0
      BY <1>5, <1>6, <1>8 DEF Fits
    <3>3. Nobody \notin Rails /\ Nobody \notin Accounts
      BY Constants
    <3> QED BY <3>1, <3>2, <3>3, NoPlanIs DEF Fits
  <2>3. CASE x \notin {from, to}
    <3>1. Fits(s, t, b.owner, x, b.plan[x], b.allowance[x])
      BY <1>1 DEF AllFit
    <3>2. plans[x] = b.plan[x] /\ nexts[x] = b.allowance[x]
      BY <1>9, <1>10, <2>3
    <3>3. b.plan[x].rail \in Rails => b.plan[x].rail # r
      BY <2>3, <3>1 DEF Fits, from
    <3>4. b.plan[x].rail \in Rails => owners[b.plan[x].rail] = b.owner[b.plan[x].rail]
      BY <1>11, <3>3
    <3> QED BY <3>1, <3>2, <3>4 DEF Fits
  <2> QED BY <2>1, <2>2, <2>3
<1>14. ASSUME NEW x \in Accounts
       PROVE  MintedOn(g, plans[x].rail, plans[x].start) => plans[x].until <= t
  <2>1. CASE x = to
    BY <1>1, <1>2, <1>9, <2>1 DEF AllEnded
  <2>2. CASE x = from
    BY <1>1, <1>9, <2>2, NoPlanIs
  <2>3. CASE x \notin {from, to}
    BY <1>1, <1>9, <2>3 DEF AllEnded
  <2> QED BY <2>1, <2>2, <2>3
<1>15. Ready(s, t, g, c)
  BY <1>1, <1>4, <1>12, <1>13, <1>14 DEF Ready, AllFit, AllEnded
<1>16. \A x \in Accounts : x # to => c.allowance[x].period = b.allowance[x].period
  BY <1>4, <1>8, <1>10
<1>17. Moves(s, t, g, b, c, r, to)
  BY <1>2, <1>4, <1>9, <1>10, <1>15, <1>16, <1>p DEF Moves, from, owners
<1> QED BY <1>17 DEF c

-----------------------------------------------------------------------------
(* Notes, one after another.                                               *)

\* A set that holds 0 and with each number the next holds them all.
LEMMA InductionOnNumbers ==
  ASSUME NEW T, 0 \in T, \A n \in Nat : n \in T => n + 1 \in T
  PROVE  Nat \subseteq T
<1> SUFFICES ASSUME Nat \ T # {}
             PROVE  FALSE
  OBVIOUS
<1> DEFINE R == OpToRel(<, Nat)
           N == Nat \ T
<1>1. IsWellFoundedOn(R, Nat)
  BY NatLessThanWellFounded
<1>2. \A x, y \in Nat : y < x => <<y, x>> \in R
  BY DEF OpToRel
<1> HIDE DEF R
<1>3. N \subseteq Nat /\ N # {}
  OBVIOUS
<1>4. PICK n \in N : \A k \in N : ~(<<k, n>> \in R)
  <2> HIDE DEF N
  <2> QED BY <1>1, <1>3, WFMin
<1>5. n # 0 /\ n \in Nat
  OBVIOUS
<1>6. n - 1 \in Nat /\ n - 1 < n
  BY <1>5
<1>7. n - 1 \in T
  BY <1>2, <1>4, <1>5, <1>6
<1> QED BY <1>6, <1>7

\* The greatest of some numbers up to k + 1 with k + 1 among them.
LEMMA MaxOfInterval ==
  ASSUME NEW k \in Nat, NEW s \in SUBSET (1..(k + 1)), k + 1 \in s
  PROVE  Max(s) = k + 1
<1>1. \A y \in s : y \in Int /\ k + 1 >= y
  OBVIOUS
<1>2. \A x \in s : (\A y \in s : x >= y) <=> x = k + 1
  BY <1>1
<1> QED BY <1>2 DEF Max

AllNotes(b, a, t, q) == FoldLeft(LAMBDA r, n : RedeemNext(r, a, n, t), b, q)
NoteStep(b, a, t, q, iter, s) == IF s = {} THEN b ELSE RedeemNext(iter[s \ {Max(s)}], a, q[Max(s)], t)
NotesBy(iter, b, a, t, q, n) == iter = [s \in SUBSET (1..n) |-> NoteStep(b, a, t, q, iter, s)]

\* The partial runs over a list of notes are there.
LEMMA NotesThere ==
  ASSUME NEW b, NEW a, NEW t, NEW q
  PROVE  \A n \in Nat : \E iter : NotesBy(iter, b, a, t, q, n)
<1> DEFINE T == {n \in Nat : \E iter : NotesBy(iter, b, a, t, q, n)}
<1>1. 0 \in T
  <2> DEFINE g == [s \in SUBSET (1..0) |-> b]
  <2>1. \A s \in SUBSET (1..0) : s = {}
    OBVIOUS
  <2>2. NotesBy(g, b, a, t, q, 0)
    BY <2>1 DEF NotesBy, NoteStep
  <2> QED BY <2>2
<1>2. ASSUME NEW n \in Nat, n \in T
      PROVE  n + 1 \in T
  <2>1. PICK g : NotesBy(g, b, a, t, q, n)
    BY <1>2
  <2> DEFINE h == [s \in SUBSET (1..(n + 1)) |->
                     IF s \subseteq 1..n THEN g[s] ELSE RedeemNext(g[s \ {n + 1}], a, q[n + 1], t)]
  <2>2. ASSUME NEW s \in SUBSET (1..(n + 1))
        PROVE  h[s] = NoteStep(b, a, t, q, h, s)
    <3>1. CASE s \subseteq 1..n
      <4>1. h[s] = NoteStep(b, a, t, q, g, s)
        BY <2>1, <3>1 DEF NotesBy
      <4>2. s \ {Max(s)} \subseteq 1..n /\ s \ {Max(s)} \in SUBSET (1..(n + 1))
        BY <3>1
      <4>3. h[s \ {Max(s)}] = g[s \ {Max(s)}]
        BY <4>2
      <4> QED BY <4>1, <4>3 DEF NoteStep
    <3>2. CASE ~(s \subseteq 1..n)
      <4>1. n + 1 \in s
        BY <3>2
      <4>2. Max(s) = n + 1
        BY <4>1, MaxOfInterval
      <4>3. s \ {n + 1} \subseteq 1..n /\ s \ {n + 1} \in SUBSET (1..(n + 1))
        OBVIOUS
      <4>4. h[s \ {n + 1}] = g[s \ {n + 1}]
        BY <4>3
      <4>5. h[s] = RedeemNext(g[s \ {n + 1}], a, q[n + 1], t)
        BY <3>2
      <4> QED BY <4>1, <4>2, <4>4, <4>5 DEF NoteStep
    <3> QED BY <3>1, <3>2
  <2>3. h = [s \in SUBSET (1..(n + 1)) |-> h[s]]
    OBVIOUS
  <2> HIDE DEF h
  <2>4. NotesBy(h, b, a, t, q, n + 1)
    BY <2>2, <2>3 DEF NotesBy
  <2> QED BY <2>4
<1> HIDE DEF T
<1>3. Nat \subseteq T
  BY <1>1, <1>2, InductionOnNumbers
<1> QED BY <1>3 DEF T

\* What there is before a list of notes and after each of them.
NoteCourse(st, b, a, t, q, n) ==
  /\ st[0] = b /\ st[n] = AllNotes(b, a, t, q)
  /\ \A k \in 1..n : st[k] = RedeemNext(st[k - 1], a, q[k], t)

\* A list of notes is redeemed one after another.
LEMMA NoteSteps ==
  ASSUME NEW b, NEW a, NEW t, NEW q, NEW n \in Nat, DOMAIN q = 1..n
  PROVE  \E st : NoteCourse(st, b, a, t, q, n)
<1> DEFINE iter == CHOOSE i : NotesBy(i, b, a, t, q, n)
           st == [k \in 0..n |-> iter[1..k]]
<1>1. NotesBy(iter, b, a, t, q, n)
  BY NotesThere
<1>2. AllNotes(b, a, t, q) = iter[1..n]
  BY DEF AllNotes, FoldLeft, MapThenFoldSet, NotesBy, NoteStep
<1> HIDE DEF iter
<1>3. \A s \in SUBSET (1..n) : iter[s] = NoteStep(b, a, t, q, iter, s)
  BY <1>1 DEF NotesBy
<1>4. st[0] = b
  <2>1. 1..0 = {} /\ st[0] = iter[1..0] /\ 1..0 \in SUBSET (1..n)
    OBVIOUS
  <2> QED BY <1>3, <2>1 DEF NoteStep
<1>5. ASSUME NEW k \in 1..n
      PROVE  st[k] = RedeemNext(st[k - 1], a, q[k], t)
  <2>1. 1..k \in SUBSET (1..n) /\ k \in 1..k /\ (1..k) \ {k} = 1..(k - 1) /\ k - 1 \in 0..n
    OBVIOUS
  <2>2. Max(1..k) = k
    <3>1. k - 1 \in Nat /\ k = (k - 1) + 1
      OBVIOUS
    <3> QED BY <2>1, <3>1, MaxOfInterval
  <2>3. iter[1..k] = RedeemNext(iter[1..(k - 1)], a, q[k], t)
    <3>1. iter[1..k] = NoteStep(b, a, t, q, iter, 1..k)
      BY <1>3, <2>1
    <3>2. 1..k # {}
      BY <2>1
    <3> QED BY <2>1, <2>2, <3>1, <3>2 DEF NoteStep
  <2> QED BY <2>1, <2>3
<1>6. st[n] = AllNotes(b, a, t, q)
  BY <1>2
<1> HIDE DEF st
<1> QED BY <1>4, <1>5, <1>6 DEF NoteCourse

\* From one state of the tables to another by notes redeemed to `a`: no other row is
\* touched, and `a`'s, if it is, is of a note.
ByNotes(t, of, b, a) ==
  /\ \A x \in Accounts : x # a => SameRow(of, b, x)
  /\ SameRow(of, b, a) \/ (b.plan[a].rail = a /\ b.plan[a].start = t)
Redeems(s, t, g, of, b, a) == Becomes(s, t, g, of, b) /\ ByNotes(t, of, b, a)

\* A note redeemed keeps the tables as they should be.
LEMMA NoteBecomes ==
  ASSUME NEW s, NEW t, NEW g, NEW b, Ready(s, t, g, b), NEW a \in Accounts, NEW n \in b.minted
  PROVE  Redeems(s, t, g, b, Redeemed(b, a, n, t), a)
<1>0. CASE n \in b.spent
  <2>1. Redeemed(b, a, n, t) = b
    BY <1>0 DEF Redeemed
  <2> QED BY <2>1, Unchanged DEF Redeems, ByNotes, SameRow
<1>1. CASE n \notin b.spent
  <2> DEFINE d == [b EXCEPT !.spent = @ \cup {n}]
             w == NotePays(n, t)
             c == Renew(d, a, a, w, t)
  <2>1. /\ Tables(b) /\ FiveTables(b) /\ AllFit(s, t, b) /\ AllEnded(t, g, b)
        /\ Sane(s, t, g) /\ NotesIn(s, g, b.minted) /\ t \in Nat \ {0}
    BY DEF Ready, Sane, Tables
  <2>2. /\ FiveTables(d) /\ d.plan = b.plan /\ d.owner = b.owner /\ d.allowance = b.allowance
        /\ d.minted = b.minted /\ d.spent = b.spent \cup {n}
    BY <2>1 DEF FiveTables
  <2>3. Redeemed(b, a, n, t) = c
    BY <1>1 DEF Redeemed
  <2>4. n \in ANote
    BY <2>1 DEF Tables
  <2> HIDE DEF d
  <2>5. Ready(s, t, g, d)
    BY <2>1, <2>2 DEF Ready, Tables, AllFit, AllEnded
  <2>6. w.yearly = FALSE /\ w.tier \in Tiers /\ w.start = t /\ w.until \in Nat
    <3>1. n.epoch \in Nat /\ n.tier \in Tiers
      BY <2>4 DEF ANote
    <3>2. EpochEnd(n.epoch) \in Nat /\ Grace \in Nat
      BY <3>1, Epochs, Constants
    <3>3. EpochEnd(n.epoch) + Grace \in Nat
      BY <3>2
    <3> QED BY <3>1, <3>3 DEF NotePays
  <2> HIDE DEF w
  <2>7. IsSaid(s, t, a, a, w)
    BY <2>6 DEF IsSaid
  <2>8. Becomes(s, t, g, d, c)
    BY <2>5, <2>7, RenewBecomes
  <2>9. IF Refuses(d, a, a, w, t) THEN c = d ELSE IsRenewed(d, c, a, a, w, t)
    BY <2>2, RenewIs
  <2> HIDE DEF c
  <2>10. ByNotes(t, d, c, a)
    <3>1. CASE c = d
      BY <3>1 DEF ByNotes, SameRow
    <3>2. CASE IsRenewed(d, c, a, a, w, t)
      <4> DEFINE p == PlanRow(d.plan[a], d.allowance[a], a, w, t)
                 q == AllowanceRow(d.plan[a], d.allowance[a], a, w, t)
      <4>1. c.plan = [d.plan EXCEPT ![a] = p] /\ c.allowance = [d.allowance EXCEPT ![a] = q]
        BY <3>2 DEF IsRenewed, ThreeWritten
      <4>2. Said2(w, t) /\ a \in Names /\ a # Nobody
        BY <2>1, <2>7, SaidIs DEF Sane
      <4>3. d.plan[a] \in APlan /\ d.allowance[a] \in AnAllowance
        BY <2>1, <2>2 DEF Tables
      <4>4. RowStep(d.plan[a], d.allowance[a], p, q, a, w, t)
        BY <2>1, <4>2, <4>3, RowSteps
      <4>5. p.rail = a /\ p.start = t
        BY <2>6, <4>4 DEF RowStep, Says
      <4> HIDE DEF p, q
      <4>6. c.plan[a] = p /\ \A x \in Accounts : x # a => SameRow(d, c, x)
        BY <2>1, <2>2, <4>1 DEF Tables, SameRow
      <4> QED BY <4>5, <4>6 DEF ByNotes
    <3> QED BY <2>9, <3>1, <3>2
  <2>11. Becomes(s, t, g, b, c) /\ ByNotes(t, b, c, a)
    <3>1. \A x \in Accounts : RowGoes(t, g, d, c, x) => RowGoes(t, g, b, c, x)
      BY <2>2 DEF RowGoes, Granted, GoesAstray
    <3>2. Becomes(s, t, g, b, c)
      BY <2>2, <2>8, <3>1 DEF Becomes
    <3> QED BY <2>2, <2>10, <3>2 DEF ByNotes, SameRow
  <2> QED BY <2>3, <2>11 DEF Redeems
<1> QED BY <1>0, <1>1

\* One note after another.
LEMMA NotesCompose ==
  ASSUME NEW s, NEW t, NEW g, NEW a \in Accounts, NEW of, NEW mid, NEW b,
         Ready(s, t, g, of), Redeems(s, t, g, of, mid, a), Redeems(s, t, g, mid, b, a)
  PROVE  Redeems(s, t, g, of, b, a)
<1>1. /\ Becomes(s, t, g, of, mid) /\ ByNotes(t, of, mid, a)
      /\ Becomes(s, t, g, mid, b) /\ ByNotes(t, mid, b, a)
  BY DEF Redeems
<1>2. /\ Tables(of) /\ Tables(mid) /\ Tables(b) /\ AllFit(s, t, mid) /\ AllFit(s, t, b) /\ Ready(s, t, g, b)
      /\ t \in Nat \ {0}
  BY <1>1 DEF Becomes, Ready, Sane
<1>3. \A x \in Accounts : x # a => SameRow(of, b, x)
  BY <1>1 DEF ByNotes, SameRow
<1>4. CASE SameRow(of, mid, a)
  <2>1. \A x \in Accounts : SameRow(of, mid, x)
    BY <1>1, <1>4 DEF ByNotes
  <2>2. \A x \in Accounts : RowGoes(t, g, mid, b, x) => RowGoes(t, g, of, b, x)
    BY <2>1 DEF RowGoes, Granted, GoesAstray, SameRow
  <2>3. Becomes(s, t, g, of, b)
    BY <1>1, <2>2 DEF Becomes
  <2>4. ByNotes(t, of, b, a)
    BY <1>1, <1>3, <1>4 DEF ByNotes, SameRow
  <2> QED BY <2>3, <2>4 DEF Redeems
<1>5. CASE SameRow(mid, b, a)
  <2>1. \A x \in Accounts : SameRow(mid, b, x)
    BY <1>1, <1>5 DEF ByNotes
  <2>2. \A x \in Accounts : RowGoes(t, g, of, mid, x) => RowGoes(t, g, of, b, x)
    BY <2>1 DEF RowGoes, Granted, GoesAstray, SameRow
  <2>3. Becomes(s, t, g, of, b)
    BY <1>1, <2>2 DEF Becomes
  <2>4. ByNotes(t, of, b, a)
    BY <1>1, <1>3, <1>5 DEF ByNotes, SameRow
  <2> QED BY <2>3, <2>4 DEF Redeems
<1>6. CASE ~SameRow(of, mid, a) /\ ~SameRow(mid, b, a)
  <2>1. /\ mid.plan[a].rail = a /\ mid.plan[a].start = t
        /\ b.plan[a].rail = a /\ b.plan[a].start = t
    BY <1>1, <1>6 DEF ByNotes
  <2>2. ByNotes(t, of, b, a)
    BY <1>3, <2>1 DEF ByNotes
  <2>3. RowGoes(t, g, of, mid, a) /\ RowGoes(t, g, mid, b, a)
    BY <1>1 DEF Becomes
  <2>4. /\ of.allowance[a].period \in Nat /\ mid.allowance[a].period \in Nat /\ b.allowance[a].period \in Nat
        /\ mid.plan[a] \in APlan /\ b.plan[a] \in APlan
    BY <1>2 DEF Tables, AnAllowance
  \* A note's period begins now: no allowance is of a later one.
  <2>5. ASSUME NEW c, c \in {mid, b}
        PROVE  Slice(c.plan[a], t) = NoSlice \/ ~(Slice(c.plan[a], t).from < c.allowance[a].period)
    <3>1. c.plan[a] \in APlan /\ c.plan[a].start = t /\ c.allowance[a].period \in Nat
      BY <2>1, <2>4, <2>5
    <3>2. c.allowance[a].period <= t
      <4>1. Fits(s, t, c.owner, a, c.plan[a], c.allowance[a])
        BY <1>2, <2>5 DEF AllFit
      <4> QED BY <4>1 DEF Fits
    <3>3. Slice(c.plan[a], t) = NoSlice \/ IsSlice(Slice(c.plan[a], t), c.plan[a], t)
      <4>1. IsPaid(c.plan[a]) /\ t \in Nat
        BY <1>2, <3>1 DEF IsPaid, APlan
      <4> QED BY <4>1, SliceIs
    <3> QED BY <1>2, <3>1, <3>2, <3>3 DEF IsSlice
  <2>6. ~GoesAstray(mid, b, a, t)
    BY <2>1, <2>5 DEF GoesAstray
  <2>7. ~GoesAstray(of, b, a, t) => ~GoesAstray(of, mid, a, t)
    BY <2>1, <2>5 DEF GoesAstray
  <2>8. RowGoes(t, g, of, b, a)
    <3>1. b.allowance[a].period >= of.allowance[a].period
      BY <2>3, <2>4 DEF RowGoes
    <3>2. ASSUME Granted(of, b, a)
          PROVE  Steady(t, b.plan[a], b.allowance[a])
      <4>1. Granted(mid, b, a) \/ Granted(of, mid, a)
        BY <2>3, <2>4, <3>2 DEF Granted, RowGoes
      <4> QED BY <2>3, <2>6, <4>1 DEF RowGoes
    <3>3. ~MintedOn(g, b.plan[a].rail, b.plan[a].start)
      <4>1. a \notin Rails /\ g \subseteq AGift
        BY <1>2, Constants DEF Ready, Sane
      <4> QED BY <2>1, <4>1 DEF MintedOn, AGift
    <3>4. ASSUME ~Granted(of, b, a), ~GoesAstray(of, b, a, t), Steady(t, of.plan[a], of.allowance[a])
          PROVE  Steady(t, b.plan[a], b.allowance[a])
      <4>1. ~Granted(of, mid, a) /\ ~Granted(mid, b, a)
        BY <2>3, <2>4, <3>4 DEF Granted, RowGoes
      <4>2. Steady(t, mid.plan[a], mid.allowance[a])
        BY <2>3, <2>7, <3>4, <4>1 DEF RowGoes
      <4> QED BY <2>3, <2>6, <4>1, <4>2 DEF RowGoes
    <3> QED BY <3>1, <3>2, <3>3, <3>4 DEF RowGoes
  <2>9. \A x \in Accounts : RowGoes(t, g, of, b, x)
    BY <1>2, <1>3, <2>8, SameRowGoes
  <2>10. /\ b.minted = of.minted
         /\ \A r \in Rails : of.owner[r] = Nobody \/ b.owner[r] = of.owner[r]
    BY <1>1 DEF Becomes
  <2>11. Becomes(s, t, g, of, b)
    BY <1>2, <2>9, <2>10 DEF Becomes
  <2> QED BY <2>2, <2>11 DEF Redeems
<1> QED BY <1>4, <1>5, <1>6

\* A list of notes keeps the tables as they should be.
LEMMA RedeemBecomes ==
  ASSUME NEW s, NEW t, NEW g, Ready(s, t, g, rows), NEW a \in Accounts,
         NEW k \in Nat, NEW notes \in [1..k -> rows.minted]
  PROVE  Redeems(s, t, g, rows, RedeemAll(a, notes, t), a)
<1> DEFINE base == [b |-> rows, refused |-> FALSE]
<1>1. DOMAIN notes = 1..k
  OBVIOUS
<1>2. PICK st : NoteCourse(st, base, a, t, notes, k)
  BY <1>1, NoteSteps
<1>3. /\ st[0] = base /\ st[k] = AllNotes(base, a, t, notes)
      /\ \A i \in 1..k : st[i] = RedeemNext(st[i - 1], a, notes[i], t)
  BY <1>2 DEF NoteCourse
<1> DEFINE T == {i \in Nat : i <= k => Redeems(s, t, g, rows, st[i].b, a)}
<1>4. 0 \in T
  <2>1. Redeems(s, t, g, rows, rows, a)
    BY Unchanged DEF Redeems, ByNotes, SameRow
  <2> QED BY <1>3, <2>1
<1>5. ASSUME NEW i \in Nat, i \in T
      PROVE  i + 1 \in T
  <2> SUFFICES ASSUME i + 1 <= k
               PROVE  Redeems(s, t, g, rows, st[i + 1].b, a)
    OBVIOUS
  <2>1. Redeems(s, t, g, rows, st[i].b, a) /\ i + 1 \in 1..k /\ (i + 1) - 1 = i
    BY <1>5
  <2>2. st[i + 1] = RedeemNext(st[i], a, notes[i + 1], t)
    BY <1>3, <2>1
  <2>3. CASE st[i].refused
    BY <2>1, <2>2, <2>3 DEF RedeemNext
  <2>4. CASE ~st[i].refused
    <3>1. st[i + 1].b = Redeemed(st[i].b, a, notes[i + 1], t)
      BY <2>2, <2>4 DEF RedeemNext
    <3>2. Ready(s, t, g, st[i].b) /\ notes[i + 1] \in st[i].b.minted
      BY <2>1 DEF Redeems, Becomes
    <3>3. Redeems(s, t, g, st[i].b, st[i + 1].b, a)
      BY <3>1, <3>2, NoteBecomes
    <3> QED BY <2>1, <3>3, NotesCompose
  <2> QED BY <2>3, <2>4
<1> HIDE DEF T
<1>6. k \in T
  BY <1>4, <1>5, InductionOnNumbers
<1>7. RedeemAll(a, notes, t) = st[k].b
  BY <1>3 DEF RedeemAll, AllNotes
<1> QED BY <1>6, <1>7 DEF T


-----------------------------------------------------------------------------
(* What a step of the enclave does to what was given.                      *)

\* The tables become others, and what changed is given.
LEMMA GivesKept ==
  ASSUME NEW s, NEW t, NEW of, NEW g, NEW moved, NEW strayed, NEW twice, Sane(s, t, g),
         Kept(s, t, of, g, moved, strayed, twice), NEW b, Becomes(s, t, g, of, b)
  PROVE  Kept(s, t, b, g \cup Given(of, b), moved, Astray(of, b, strayed, t),
              twice \cup (Given(of, b) \cap g))
<1> DEFINE h == Given(of, b)
           after == Astray(of, b, strayed, t)
<1>1. /\ Tables(of) /\ AllSteady(t, of, strayed) /\ g \subseteq AGift
      /\ NotesIn(s, g, of.minted) /\ PlansIn(g, of, moved) /\ OneWay(g)
      /\ moved = {} => twice = {}
  BY DEF Kept, RowsOk
<1>2. /\ Tables(b) /\ AllFit(s, t, b) /\ AllEnded(t, g, b) /\ b.minted = of.minted
      /\ \A r \in Rails : of.owner[r] = Nobody \/ b.owner[r] = of.owner[r]
      /\ \A x \in Accounts : RowGoes(t, g, of, b, x)
  BY DEF Becomes, Ready
<1>3. \A a \in Accounts : of.allowance[a].period \in Nat /\ b.allowance[a].period \in Nat
  BY <1>1, <1>2 DEF Tables, AnAllowance
<1>4. ASSUME NEW x \in h
      PROVE  /\ x \in AGift /\ x.way = "plan"
             /\ \E a \in Accounts : /\ Granted(of, b, a) /\ b.owner[x.rail] = a
                                    /\ x.month = b.allowance[a].period /\ x.month > 0
                                    /\ x.rail = b.plan[a].rail /\ x.pay = b.plan[a].start
  <2>1. PICK a \in Accounts :
          /\ b.plan[a].rail \in Rails /\ Granted(of, b, a)
          /\ x = [rail |-> b.plan[a].rail, pay |-> b.plan[a].start, way |-> "plan",
                  month |-> b.allowance[a].period]
    BY DEF Given
  <2>2. b.plan[a] \in APlan /\ b.plan[a].start \in Nat
    BY <1>2 DEF Tables, APlan
  <2>3. b.owner[b.plan[a].rail] = a
    BY <1>2, <2>1 DEF AllFit, Fits
  <2>4. b.allowance[a].period > 0
    BY <1>3, <2>1 DEF Granted
  <2>5. x \in AGift
    BY <1>3, <2>1, <2>2 DEF AGift
  <2> QED BY <2>1, <2>3, <2>4, <2>5
<1> HIDE DEF h, after
<1>5. \A r, start : MintedOn(g \cup h, r, start) <=> MintedOn(g, r, start)
  <2>1. \A x \in h : x.way # "note"
    BY <1>4
  <2> QED BY <2>1 DEF MintedOn
<1>6. AllSteady(t, b, after)
  <2>1. ASSUME NEW a \in Accounts, a \notin after
        PROVE  Steady(t, b.plan[a], b.allowance[a])
    <3>1. CASE Granted(of, b, a)
      BY <1>2, <3>1 DEF RowGoes
    <3>2. CASE ~Granted(of, b, a)
      <4>1. a \notin strayed /\ ~GoesAstray(of, b, a, t)
        BY <2>1, <3>2 DEF after, Astray
      <4> QED BY <1>1, <1>2, <3>2, <4>1 DEF AllSteady, RowGoes
    <3> QED BY <3>1, <3>2
  <2> QED BY <2>1 DEF AllSteady
<1>7. g \cup h \subseteq AGift
  BY <1>1, <1>4
<1>8. NotesIn(s, g \cup h, b.minted)
  BY <1>1, <1>2, <1>4 DEF NotesIn
<1>9. AllEnded(t, g \cup h, b)
  BY <1>2, <1>5 DEF AllEnded
<1>10. ASSUME NEW x \in g, x.way = "plan"
       PROVE  /\ x.month > 0 /\ of.owner[x.rail] \in Accounts /\ b.owner[x.rail] = of.owner[x.rail]
              /\ moved = {} => /\ x.month <= of.allowance[b.owner[x.rail]].period
                               /\ x.month <= b.allowance[b.owner[x.rail]].period
  <2>1. x \in AGift /\ x.rail \in Rails /\ x.month \in Nat
    BY <1>1 DEF AGift
  <2>2. x.month > 0 /\ of.owner[x.rail] \in Accounts
    BY <1>1, <1>10 DEF PlansIn
  <2>3. b.owner[x.rail] = of.owner[x.rail]
    BY <1>2, <2>1, <2>2, Constants
  <2>4. moved = {} => x.month <= of.allowance[b.owner[x.rail]].period
    BY <1>1, <1>10, <2>3 DEF PlansIn
  <2>5. b.allowance[b.owner[x.rail]].period >= of.allowance[b.owner[x.rail]].period
    BY <1>2, <2>2, <2>3 DEF RowGoes
  <2> QED BY <1>3, <2>1, <2>2, <2>3, <2>4, <2>5
<1>11. PlansIn(g \cup h, b, moved)
  <2>1. ASSUME NEW x \in h
        PROVE  /\ x.month > 0 /\ b.owner[x.rail] \in Accounts
               /\ x.month <= b.allowance[b.owner[x.rail]].period
    BY <1>3, <1>4
  <2> QED BY <1>10, <2>1 DEF PlansIn
<1>12. OneWay(g \cup h)
  <2>1. ASSUME NEW x \in g, NEW y \in h, x.rail = y.rail, x.pay = y.pay
        PROVE  x.way = y.way
    <3>1. y.way = "plan" /\ \E a \in Accounts : /\ Granted(of, b, a)
                                                /\ y.rail = b.plan[a].rail /\ y.pay = b.plan[a].start
      BY <1>4
    <3>2. ~MintedOn(g, y.rail, y.pay)
      BY <1>2, <3>1 DEF RowGoes
    <3>3. x.way # "note" /\ x \in AGift
      BY <1>1, <2>1, <3>2 DEF MintedOn
    <3> QED BY <3>1, <3>3 DEF AGift
  <2>2. \A x, y \in h : x.way = y.way
    BY <1>4
  <2>3. \A x, y \in g : x.rail = y.rail /\ x.pay = y.pay => x.way = y.way
    BY <1>1 DEF OneWay
  <2> QED BY <2>1, <2>2, <2>3 DEF OneWay
<1>13. ASSUME moved = {}, NEW x \in h, x \in g
       PROVE  FALSE
  <2>1. PICK a \in Accounts : /\ Granted(of, b, a) /\ b.owner[x.rail] = a
                              /\ x.month = b.allowance[a].period
    BY <1>4
  <2>2. x.way = "plan"
    BY <1>4
  <2>3. x.month <= of.allowance[a].period
    BY <1>10, <1>13, <2>1, <2>2
  <2> QED BY <1>3, <2>1, <2>3 DEF Granted
<1>14. moved = {} => twice \cup (h \cap g) = {}
  BY <1>1, <1>13
<1>15. RowsOk(s, t, b, g \cup h, moved, after)
  BY <1>2, <1>6, <1>7, <1>8, <1>9, <1>11, <1>12 DEF RowsOk
<1> QED BY <1>14, <1>15 DEF Kept, h, after

\* Who is astray after a move.
Gone(b, r, to, strayed) == {x \in Accounts : IF x = to THEN b.owner[r] \in strayed ELSE x \in strayed}

\* A plan moves, and with it what was given to it.
LEMMA MoveKept ==
  ASSUME NEW s, NEW t, NEW b, NEW g, NEW moved, NEW strayed, NEW twice, Sane(s, t, g),
         Kept(s, t, b, g, moved, strayed, twice), NEW c, NEW r \in Rails, NEW to \in Accounts,
         Moves(s, t, g, b, c, r, to), NEW later,
         later = {} => moved = {} /\ c.allowance[to].period = b.allowance[to].period
  PROVE  Kept(s, t, c, g, later, Gone(b, r, to, strayed), twice)
<1> DEFINE from == b.owner[r]
           gone == Gone(b, r, to, strayed)
<1>1. /\ Tables(b) /\ AllSteady(t, b, strayed) /\ PlansIn(g, b, moved) /\ OneWay(g) /\ g \subseteq AGift
      /\ moved = {} => twice = {}
  BY DEF Kept, RowsOk
<1>2. /\ Ready(s, t, g, c) /\ c.minted = b.minted /\ from \in Accounts
      /\ c.owner = [b.owner EXCEPT ![r] = to]
      /\ c.plan = [[b.plan EXCEPT ![to] = b.plan[from]] EXCEPT ![from] = NoPlan]
      /\ c.allowance[to] = b.allowance[from]
      /\ \A x \in Accounts : x # to => c.allowance[x].period = b.allowance[x].period
      /\ \A x \in Accounts : x \notin {from, to} => c.allowance[x] = b.allowance[x]
  BY DEF Moves
<1>3. /\ Tables(c) /\ AllFit(s, t, c) /\ AllEnded(t, g, c) /\ NotesIn(s, g, c.minted)
  BY <1>2 DEF Ready
<1>g. gone = {x \in Accounts : IF x = to THEN from \in strayed ELSE x \in strayed}
  BY DEF Gone
<1> HIDE DEF from, gone
<1>4. AllSteady(t, c, gone)
  <2>1. ASSUME NEW x \in Accounts, x \notin gone
        PROVE  Steady(t, c.plan[x], c.allowance[x])
    <3>1. CASE x = from
      <4>1. c.plan[x] = NoPlan
        BY <1>1, <1>2, <3>1 DEF Tables
      <4> QED BY <4>1, NoPlanIs DEF Steady
    <3>2. CASE x # from /\ x = to
      <4>1. c.plan[x] = b.plan[from] /\ c.allowance[x] = b.allowance[from] /\ from \notin strayed
        BY <1>1, <1>2, <1>g, <2>1, <3>2 DEF Tables
      <4> QED BY <1>1, <1>2, <4>1 DEF AllSteady
    <3>3. CASE x # from /\ x # to
      <4>1. c.plan[x] = b.plan[x] /\ c.allowance[x] = b.allowance[x] /\ x \notin strayed
        BY <1>1, <1>2, <1>g, <2>1, <3>3 DEF Tables
      <4> QED BY <1>1, <4>1 DEF AllSteady
    <3> QED BY <3>1, <3>2, <3>3
  <2> QED BY <2>1 DEF AllSteady
<1>5. ASSUME NEW x \in g, x.way = "plan"
      PROVE  /\ x.month > 0 /\ c.owner[x.rail] \in Accounts
             /\ later = {} => x.month <= c.allowance[c.owner[x.rail]].period
  <2>1. x.rail \in Rails
    BY <1>1 DEF AGift
  <2>2. /\ x.month > 0 /\ b.owner[x.rail] \in Accounts
        /\ moved = {} => x.month <= b.allowance[b.owner[x.rail]].period
    BY <1>1, <1>5 DEF PlansIn
  <2>3. CASE x.rail = r
    <3>1. c.owner[x.rail] = to /\ b.owner[x.rail] = from
      BY <1>1, <1>2, <2>1, <2>3 DEF Tables, from
    <3> QED BY <1>2, <2>2, <3>1
  <2>4. CASE x.rail # r
    <3>1. c.owner[x.rail] = b.owner[x.rail]
      BY <1>1, <1>2, <2>1, <2>4 DEF Tables
    <3>2. later = {} => c.allowance[c.owner[x.rail]].period = b.allowance[b.owner[x.rail]].period
      BY <1>2, <2>2, <3>1
    <3> QED BY <2>2, <3>1, <3>2
  <2> QED BY <2>3, <2>4
<1>6. PlansIn(g, c, later)
  BY <1>5 DEF PlansIn
<1>7. RowsOk(s, t, c, g, later, gone)
  BY <1>1, <1>3, <1>4, <1>6 DEF RowsOk
<1> QED BY <1>1, <1>7 DEF Kept, gone, from

IsMinted(b, c, n) ==
  /\ FiveTables(c) /\ c.plan = b.plan /\ c.owner = b.owner /\ c.allowance = b.allowance
  /\ c.minted = b.minted \cup {n} /\ c.spent = b.spent

\* A month that a payment covers is a number.
LEMMA CoveredIs ==
  ASSUME NEW s \in [Rails -> ASub], NEW t \in Nat \ {0}, NEW r \in Rails, NEW w, IsWord(s, t, r, w),
         NEW e \in Covered(w)
  PROVE  e \in Nat /\ Covered(w) = Covered(Paid(s, r, w.start))
<1>1. w.yearly \in BOOLEAN /\ w.yearly = s[r].yearly /\ w.start \in Nat \ {0}
  BY DEF IsWord, ASub
<1>2. Length(w.yearly) \in Nat
  BY <1>1, Constants DEF Length
<1>3. PICK i \in 0..(IF w.yearly THEN YearMonths - 1 ELSE 0) :
        /\ w.start + i * Month < w.until
        /\ e = Epoch(Lesser(w.start + (i + 1) * Month, w.until) - 1)
  BY DEF Covered
<1>4. i \in Nat /\ i * Month \in Nat /\ (i + 1) * Month \in Nat \ {0}
  <2>1. i \in Nat
    BY <1>1, Constants
  <2>2. (i + 1) * Month = i * Month + Month /\ i * Month \in Nat
    BY <2>1, Constants
  <2> QED BY <2>1, <2>2, Constants
<1>5. w.until = w.start + Length(w.yearly) /\ w.until \in Nat
  <2>1. w.until # 0
    BY <1>1, <1>3, <1>4
  <2> QED BY <1>1, <1>2, <2>1 DEF IsWord
<1>6. Lesser(w.start + (i + 1) * Month, w.until) - 1 \in Nat \ {0}
  <2> DEFINE m == (i + 1) * Month
             k == i * Month
  <2>1. m \in Nat \ {0} /\ k \in Nat /\ w.start + k < w.until
    BY <1>3, <1>4
  <2> HIDE DEF m, k
  <2>2. w.start + m \in Nat /\ w.start + m >= 2 /\ w.until >= 2
    BY <1>1, <1>5, <2>1
  <2>3. Lesser(w.start + m, w.until) \in {w.start + m, w.until}
    BY DEF Lesser
  <2>4. Lesser(w.start + m, w.until) - 1 \in Nat \ {0}
    BY <1>5, <2>2, <2>3
  <2> QED BY <2>4 DEF m
<1>7. Covered(w) = Covered(Paid(s, r, w.start))
  BY <1>1, <1>5, SameCovered DEF Paid
<1> QED BY <1>3, <1>6, <1>7, Epochs

\* A month is minted that belongs to nobody's plan.
LEMMA MintKept ==
  ASSUME NEW s, NEW t, NEW b, NEW g, NEW moved, NEW strayed, NEW twice, Sane(s, t, g),
         Kept(s, t, b, g, moved, strayed, twice), NEW r \in Rails, NEW w, IsWord(s, t, r, w),
         NEW e \in Covered(w), MayMint(b, r, e),
         NEW c, IsMinted(b, c, [rail |-> r, epoch |-> e, tier |-> w.tier])
  PROVE  LET h == {[rail |-> r, pay |-> w.start, way |-> "note", month |-> e]}
         IN Kept(s, t, c, g \cup h, moved, strayed, twice \cup (h \cap g))
<1> DEFINE x == [rail |-> r, pay |-> w.start, way |-> "note", month |-> e]
           n == [rail |-> r, epoch |-> e, tier |-> w.tier]
<1>1. /\ Tables(b) /\ AllFit(s, t, b) /\ AllSteady(t, b, strayed) /\ g \subseteq AGift
      /\ NotesIn(s, g, b.minted) /\ AllEnded(t, g, b) /\ PlansIn(g, b, moved) /\ OneWay(g)
      /\ moved = {} => twice = {}
      /\ s \in [Rails -> ASub] /\ t \in Nat \ {0}
  BY DEF Kept, RowsOk, Sane
<1>2. /\ FiveTables(c) /\ c.plan = b.plan /\ c.owner = b.owner /\ c.allowance = b.allowance
      /\ c.minted = b.minted \cup {n} /\ c.spent = b.spent
  BY DEF IsMinted
<1>3. e \in Nat /\ Covered(w) = Covered(Paid(s, r, w.start))
  BY <1>1, CoveredIs
<1>4. w.tier \in Tiers /\ w.start \in Nat /\ IsSold(s, r)
  BY <1>1 DEF IsWord
<1>5. /\ n \in ANote /\ n.rail = r /\ n.epoch = e
      /\ x \in AGift /\ x.way = "note" /\ x.rail = r /\ x.pay = w.start /\ x.month = e
  BY <1>3, <1>4 DEF ANote, AGift
<1>6. b.owner[r] = Nobody /\ ~\E m \in b.minted : m.rail = r /\ m.epoch = e
  BY DEF MayMint
<1> HIDE DEF x, n
<1>7. x \notin g
  BY <1>1, <1>5, <1>6 DEF NotesIn
<1>8. Tables(c)
  BY <1>1, <1>2, <1>5 DEF Tables
<1>9. AllFit(s, t, c) /\ AllSteady(t, c, strayed) /\ PlansIn(g, c, moved)
  BY <1>1, <1>2 DEF AllFit, AllSteady, PlansIn
<1>10. NotesIn(s, g \cup {x}, c.minted)
  BY <1>1, <1>2, <1>3, <1>4, <1>5 DEF NotesIn
<1>11. AllEnded(t, g \cup {x}, c)
  <2>1. ASSUME NEW a \in Accounts, MintedOn(g \cup {x}, c.plan[a].rail, c.plan[a].start)
        PROVE  c.plan[a].until <= t
    <3>1. c.plan[a].rail # r
      <4>1. Fits(s, t, b.owner, a, b.plan[a], b.allowance[a])
        BY <1>1 DEF AllFit
      <4> QED BY <1>2, <1>6, <4>1, Constants DEF Fits
    <3>2. MintedOn(g, b.plan[a].rail, b.plan[a].start)
      BY <1>2, <1>5, <2>1, <3>1 DEF MintedOn
    <3> QED BY <1>1, <1>2, <3>2 DEF AllEnded
  <2> QED BY <2>1 DEF AllEnded
<1>12. PlansIn(g \cup {x}, c, moved)
  BY <1>5, <1>9 DEF PlansIn
<1>13. OneWay(g \cup {x})
  <2>1. ASSUME NEW y \in g, y.rail = r
        PROVE  y.way = "note"
    <3>1. y \in AGift
      BY <1>1
    <3>2. y.way # "plan"
      BY <1>1, <1>6, <2>1, Constants DEF PlansIn
    <3> QED BY <3>1, <3>2 DEF AGift
  <2> QED BY <1>1, <1>5, <2>1 DEF OneWay
<1>14. RowsOk(s, t, c, g \cup {x}, moved, strayed)
  BY <1>1, <1>5, <1>8, <1>9, <1>10, <1>11, <1>12, <1>13 DEF RowsOk
<1>15. moved = {} => twice \cup ({x} \cap g) = {}
  BY <1>1, <1>7
<1> QED BY <1>14, <1>15 DEF Kept, x

-----------------------------------------------------------------------------
(* The rails and the clock go on.                                          *)

\* What was sold stays sold, by the same interval.
SameSales(s, s2) ==
  \A r \in Rails : IsSold(s, r) => IsSold(s2, r) /\ s2[r].yearly = s[r].yearly
GoesOn(s, t, s2, t2) == SubsAre(s2, t2) /\ SameSales(s, s2) /\ t2 \in Nat /\ t <= t2

\* What was said stays a word of what is sold.
LEMMA WordsLast ==
  ASSUME NEW s, NEW t \in Nat, NEW s2, NEW t2, GoesOn(s, t, s2, t2), NEW r \in Rails, NEW w,
         IsWord(s, t, r, w)
  PROVE  IsWord(s2, t2, r, w)
<1>1. w.start \in 1..t2
  BY DEF IsWord, GoesOn
<1> QED BY <1>1 DEF IsWord, GoesOn, SameSales

\* Everything that was said stays as it should be.
LEMMA WorldLasts ==
  ASSUME NEW s, NEW t, NEW ps, NEW cs, NEW bt, World(s, t, ps, cs, bt),
         NEW s2, NEW t2, GoesOn(s, t, s2, t2)
  PROVE  World(s2, t2, ps, cs, bt)
<1>1. t \in Nat \ {0} /\ PapersAre(s, t, ps) /\ CallsAre(s, t, cs) /\ BeatIs(s, t, bt)
  BY DEF World
<1>2. \A r \in Rails : \A w : IsWord(s, t, r, w) => IsWord(s2, t2, r, w)
  BY <1>1, WordsLast
<1>3. t2 \in Nat \ {0} /\ SubsAre(s2, t2)
  BY <1>1 DEF GoesOn
<1>4. PapersAre(s2, t2, ps) /\ CallsAre(s2, t2, cs)
  <2>1. Stores \subseteq Rails /\ Cards \subseteq Rails
    BY DEF Rails
  <2>2. ASSUME NEW p \in ps
        PROVE  p.rail \in Stores /\ IsWord(s2, t2, p.rail, p)
    <3>1. p.rail \in Stores /\ IsWord(s, t, p.rail, p)
      BY <1>1 DEF PapersAre
    <3> QED BY <1>2, <2>1, <3>1
  <2>3. ASSUME NEW c \in cs
        PROVE  CallIs(s2, t2, c)
    <3>1. CallIs(s, t, c)
      BY <1>1 DEF CallsAre
    <3> QED BY <1>2, <2>1, <3>1 DEF CallIs
  <2> QED BY <2>2, <2>3 DEF PapersAre, CallsAre
<1>5. BeatIs(s2, t2, bt)
  <2>1. /\ bt.card \in Cards \cup {Nobody} /\ bt.store \in Stores \cup {Nobody}
        /\ Asks(bt) # Nobody => Asks(bt) \in Rails
    BY <1>1 DEF BeatIs, Asks, Rails
  <2>2. \A r \in {bt.card, bt.store} : r # Nobody => IsSold(s2, r)
    <3>1. \A r \in {bt.card, bt.store} : r # Nobody => r \in Rails
      BY <2>1 DEF Rails
    <3> QED BY <1>1, <3>1 DEF BeatIs, GoesOn, SameSales
  <2> QED BY <1>1, <1>2, <2>1, <2>2 DEF BeatIs
<1> QED BY <1>3, <1>4, <1>5 DEF World

\* The tables stay as they should be.
LEMMA KeptLasts ==
  ASSUME NEW s, NEW t \in Nat, NEW b, NEW g, NEW moved, NEW strayed, NEW twice,
         Kept(s, t, b, g, moved, strayed, twice), NEW s2, NEW t2, GoesOn(s, t, s2, t2)
  PROVE  Kept(s2, t2, b, g, moved, strayed, twice)
<1>1. /\ Tables(b) /\ AllFit(s, t, b) /\ AllSteady(t, b, strayed) /\ g \subseteq AGift
      /\ NotesIn(s, g, b.minted) /\ AllEnded(t, g, b) /\ PlansIn(g, b, moved) /\ OneWay(g)
      /\ moved = {} => twice = {}
  BY DEF Kept, RowsOk
<1>2. SameSales(s, s2) /\ t2 \in Nat /\ t <= t2
  BY DEF GoesOn
<1>3. ASSUME NEW a \in Accounts
      PROVE  /\ Fits(s2, t2, b.owner, a, b.plan[a], b.allowance[a])
             /\ a \notin strayed => Steady(t2, b.plan[a], b.allowance[a])
             /\ b.plan[a].until <= t => b.plan[a].until <= t2
  <2> DEFINE plan == b.plan[a]
             al == b.allowance[a]
  <2>1. plan.until \in Nat /\ al.period \in Nat
    BY <1>1 DEF Tables, APlan, AnAllowance
  <2>2. Fits(s, t, b.owner, a, plan, al) /\ (a \notin strayed => Steady(t, plan, al))
    BY <1>1 DEF AllFit, AllSteady
  <2> HIDE DEF plan, al
  <2>3. /\ plan.start \in 1..t => plan.start \in 1..t2
        /\ al.period <= t => al.period <= t2
        /\ plan.until > t2 => plan.until > t
        /\ plan.until <= t => plan.until <= t2
    BY <1>2, <2>1
  <2>4. plan.rail \in Rails => IsSold(s2, plan.rail) /\ plan.yearly = s2[plan.rail].yearly
    BY <1>2, <2>2 DEF Fits, SameSales
  <2>5. Fits(s2, t2, b.owner, a, plan, al)
    BY <2>2, <2>3, <2>4 DEF Fits
  <2>6. Steady(t, plan, al) => Steady(t2, plan, al)
    BY <2>3 DEF Steady
  <2> QED BY <2>2, <2>3, <2>5, <2>6 DEF plan, al
<1>4. AllFit(s2, t2, b) /\ AllSteady(t2, b, strayed) /\ AllEnded(t2, g, b)
  BY <1>1, <1>3 DEF AllFit, AllSteady, AllEnded
<1>5. NotesIn(s2, g, b.minted)
  <2>1. \A r \in Rails : IsSold(s, r) => IsSold(s2, r) /\ \A start : Paid(s2, r, start) = Paid(s, r, start)
    BY <1>2 DEF SameSales, Paid
  <2>2. \A x \in g : x.rail \in Rails
    BY <1>1 DEF AGift
  <2> QED BY <1>1, <2>1, <2>2 DEF NotesIn
<1> QED BY <1>1, <1>4, <1>5 DEF Kept, RowsOk

\* A subscription is opened, paid, renewed, changed, refunded or cancelled.
Sale(s, t, r, new) ==
  /\ new \in ASub
  /\ IsSold(s, r) => new.start > 0 /\ new.yearly = s[r].yearly
  /\ new.start > 0 => /\ new.start \in 1..t /\ new.until \in {0, new.start + Length(new.yearly)}
                      /\ r \in Cards => new.buyer # Nobody

\* One subscription is written.
LEMMA SaleGoesOn ==
  ASSUME NEW s, NEW t \in Nat, SubsAre(s, t), NEW r \in Rails, NEW new, Sale(s, t, r, new)
  PROVE  GoesOn(s, t, [s EXCEPT ![r] = new], t)
<1> DEFINE s2 == [s EXCEPT ![r] = new]
<1>1. /\ s2 \in [Rails -> ASub] /\ s2[r] = new
      /\ \A q \in Rails : q # r => s2[q] = s[q]
  BY DEF SubsAre, Sale
<1>2. SameSales(s, s2)
  BY <1>1 DEF SameSales, IsSold, Sale
<1> HIDE DEF s2
<1>3. ASSUME NEW q \in Rails, IsSold(s2, q)
      PROVE  IsWord(s2, t, q, s2[q]) /\ (q \in Cards => s2[q].buyer # Nobody)
  <2>1. CASE q = r
    BY <1>1, <1>3, <2>1 DEF IsWord, IsSold, Sale, ASub
  <2>2. CASE q # r
    <3>1. IsSold(s, q) /\ s2[q] = s[q]
      BY <1>1, <1>3, <2>2 DEF IsSold
    <3>2. IsWord(s, t, q, s[q]) /\ (q \in Cards => s[q].buyer # Nobody)
      BY <3>1 DEF SubsAre
    <3>3. IsWord(s2, t, q, s2[q])
      BY <1>3, <3>1, <3>2 DEF IsWord
    <3> QED BY <3>1, <3>2, <3>3
  <2> QED BY <2>1, <2>2
<1>4. GoesOn(s, t, s2, t)
  BY <1>1, <1>2, <1>3 DEF GoesOn, SubsAre
<1> QED BY <1>4 DEF s2

\* A subscription that was sold has its type, and was sold by its interval.
LEMMA SoldIs ==
  ASSUME NEW s, NEW t \in Nat, SubsAre(s, t), NEW r \in Rails, IsSold(s, r)
  PROVE  /\ s[r] \in ASub /\ s[r].start \in 1..t
         /\ s[r].until \in {0, s[r].start + Length(s[r].yearly)}
         /\ Length(s[r].yearly) \in Nat
         /\ r \in Cards => s[r].buyer # Nobody
<1>1. s[r] \in ASub
  BY DEF SubsAre
<1>2. Length(s[r].yearly) \in Nat
  BY <1>1, Constants DEF ASub, Length
<1> QED BY <1>1, <1>2 DEF SubsAre, IsWord

-----------------------------------------------------------------------------
(* One step of the rails.                                                  *)

\* The invariant says what the lemmas about the tables ask for.
LEMMA ReadyNow ==
  ASSUME PlansInv
  PROVE  /\ Ready(sub, now, got, rows) /\ Sane(sub, now, got)
         /\ now \in Nat \ {0} /\ SubsAre(sub, now)
BY DEF PlansInv, World, SubsAre, Kept, RowsOk, Ready, Sane

\* A subscription is written; the clock and the tables stay.
LEMMA SaleStep ==
  ASSUME PlansInv, NEW r \in Rails, NEW new, Sale(sub, now, r, new),
         sub' = [sub EXCEPT ![r] = new], now' = now
  PROVE  /\ GoesOn(sub, now, sub', now') /\ World(sub', now', papers, calls, beat)
         /\ sub'[r] = new
<1>1. now \in Nat /\ SubsAre(sub, now)
  BY ReadyNow
<1>2. GoesOn(sub, now, sub', now')
  BY <1>1, SaleGoesOn
<1>3. World(sub', now', papers, calls, beat)
  BY <1>2, WorldLasts DEF PlansInv
<1> QED BY <1>1, <1>2, <1>3 DEF SubsAre

\* The tables are not touched.
LEMMA Stands ==
  ASSUME PlansInv, GoesOn(sub, now, sub', now'), UNCHANGED <<rows, history>>
  PROVE  Kept(sub', now', rows', got', replaced', astray', again')
<1>1. /\ rows' = rows /\ got' = got /\ replaced' = replaced /\ astray' = astray /\ again' = again
  BY DEF history
<1>2. Kept(sub', now', rows, got, replaced, astray, again)
  BY ReadyNow, KeptLasts DEF PlansInv
<1> QED BY <1>1, <1>2

\* Neither the subscriptions nor the clock are touched.
LEMMA StandsStill ==
  ASSUME PlansInv, UNCHANGED <<now, sub>>
  PROVE  GoesOn(sub, now, sub', now') /\ World(sub', now', papers, calls, beat)
<1>1. GoesOn(sub, now, sub', now')
  BY ReadyNow DEF GoesOn, SameSales
<1> QED BY <1>1, WorldLasts DEF PlansInv

\* A subscription is sold or renewed, and what the App Store signs of it is a word of it.
LEMMA SellsStep ==
  ASSUME PlansInv, NEW r \in Rails, NEW new, Sale(sub, now, r, new), new.start > 0,
         Sells(r, new), UNCHANGED <<now, rows, calls, beat, history>>
  PROVE  PlansInv'
<1>1. sub' = [sub EXCEPT ![r] = new] /\ papers' = IF r \in Stores THEN papers \cup {Paper(r, new)} ELSE papers
  BY DEF Sells
<1>2. /\ GoesOn(sub, now, sub', now') /\ World(sub', now', papers, calls, beat) /\ sub'[r] = new
  BY <1>1, SaleStep
<1>3. Kept(sub', now', rows', got', replaced', astray', again')
  BY <1>2, Stands
<1>4. IsWord(sub', now', r, new)
  BY <1>2 DEF GoesOn, SubsAre, IsSold
<1>5. IsWord(sub', now', r, Paper(r, new)) /\ Paper(r, new).rail = r
  BY <1>4 DEF IsWord, Paper
<1>6. PapersAre(sub', now', papers')
  <2>1. ASSUME NEW p \in papers'
        PROVE  p.rail \in Stores /\ IsWord(sub', now', p.rail, p)
    <3>1. CASE p \in papers
      BY <1>2, <3>1 DEF World, PapersAre
    <3>2. CASE p \notin papers
      BY <1>1, <1>5, <3>2
    <3> QED BY <3>1, <3>2
  <2> QED BY <2>1 DEF PapersAre
<1>7. World(sub', now', papers', calls', beat')
  BY <1>2, <1>6 DEF World
<1> QED BY <1>3, <1>7 DEF PlansInv

\* A payment.
LEMMA PayStep ==
  ASSUME PlansInv, NEW r \in Rails, NEW tier \in Offered, NEW yearly \in Intervals,
         Pay(r, tier, yearly)
  PROVE  PlansInv'
<1> DEFINE of == IF r \in Cards THEN sub[r] ELSE [Unsold EXCEPT !.tier = tier, !.yearly = yearly]
           new == [of EXCEPT !.start = now, !.until = now + Length(yearly)]
<1>1. /\ ~IsSold(sub, r) /\ Sells(r, new) /\ UNCHANGED <<now, rows, calls, beat, history>>
      /\ r \in Cards => sub[r].buyer # Nobody /\ yearly = sub[r].yearly
  BY DEF Pay, Sold, IsSold
<1>2. tier \in Tiers /\ yearly \in BOOLEAN /\ now \in Nat \ {0} /\ sub[r] \in ASub
  BY Constants, ReadyNow DEF SubsAre
<1>3. now + Length(yearly) \in Nat
  BY <1>2, Constants DEF Length
<1>4. of \in ASub /\ of.yearly = yearly /\ (r \in Cards => of.buyer # Nobody)
  <2>1. CASE r \in Cards
    BY <1>1, <1>2, <2>1
  <2>2. CASE r \notin Cards
    <3>1. of = [Unsold EXCEPT !.tier = tier, !.yearly = yearly]
      BY <2>2
    <3> HIDE DEF of
    <3> QED BY <1>2, <2>2, <3>1 DEF Unsold, ASub
  <2> QED BY <2>1, <2>2
<1> DEFINE until == now + Length(yearly)
<1> HIDE DEF of
<1>5. new = [of EXCEPT !.start = now, !.until = until]
  OBVIOUS
<1>6. until \in Nat /\ until = now + Length(yearly)
  BY <1>3
<1> HIDE DEF until, new
<1>7. /\ new \in ASub /\ new.start = now /\ new.until = until /\ new.yearly = yearly
      /\ new.buyer = of.buyer
  BY <1>2, <1>4, <1>5, <1>6 DEF ASub
<1>8. Sale(sub, now, r, new) /\ new.start > 0
  BY <1>1, <1>2, <1>4, <1>6, <1>7 DEF Sale
<1> QED BY <1>1, <1>8, SellsStep

\* The next period is charged.
LEMMA RailRenewsStep ==
  ASSUME PlansInv, NEW r \in Rails, RailRenews(r)
  PROVE  PlansInv'
<1> DEFINE old == sub[r]
           back == IF old.back = "disputed" THEN old.back ELSE "no"
           until == now + Length(old.yearly)
           new == [old EXCEPT !.start = now, !.until = until, !.back = back]
<1>1. /\ IsSold(sub, r) /\ Sells(r, new) /\ UNCHANGED <<now, rows, calls, beat, history>>
  BY DEF RailRenews, Sold, IsSold
<1>2. now \in Nat \ {0} /\ SubsAre(sub, now)
  BY ReadyNow
<1>3. /\ old \in ASub /\ Length(old.yearly) \in Nat /\ (r \in Cards => old.buyer # Nobody)
  BY <1>1, <1>2, SoldIs
<1>4. until \in Nat /\ back \in {"no", "refunded", "disputed"} /\ until = now + Length(old.yearly)
  BY <1>2, <1>3
<1>5. new = [old EXCEPT !.start = now, !.until = until, !.back = back]
  OBVIOUS
<1> HIDE DEF old, until, back, new
<1>6. /\ new \in ASub /\ new.start = now /\ new.until = until /\ new.yearly = old.yearly
      /\ new.buyer = old.buyer
  BY <1>2, <1>3, <1>4, <1>5 DEF ASub
<1>7. Sale(sub, now, r, new) /\ new.start > 0
  BY <1>1, <1>2, <1>3, <1>4, <1>6 DEF Sale, old
<1> QED BY <1>1, <1>7, SellsStep

\* A higher tier in the App Store.
LEMMA StoreUpgradeStep ==
  ASSUME PlansInv, NEW r \in Stores, NEW tier \in Tiers, StoreUpgrade(r, tier)
  PROVE  PlansInv'
<1> DEFINE old == sub[r]
           until == now + Length(old.yearly)
           new == [old EXCEPT !.tier = tier, !.start = now, !.until = until]
<1>1. /\ r \in Rails /\ IsSold(sub, r) /\ Sells(r, new)
      /\ UNCHANGED <<now, rows, calls, beat, history>>
  BY DEF StoreUpgrade, PaidFor, Sold, IsSold, Rails
<1>2. now \in Nat \ {0} /\ SubsAre(sub, now)
  BY ReadyNow
<1>3. /\ old \in ASub /\ Length(old.yearly) \in Nat /\ (r \in Cards => old.buyer # Nobody)
  BY <1>1, <1>2, SoldIs
<1>4. until \in Nat /\ until = now + Length(old.yearly)
  BY <1>2, <1>3
<1>5. new = [old EXCEPT !.tier = tier, !.start = now, !.until = until]
  OBVIOUS
<1> HIDE DEF old, until, new
<1>6. /\ new \in ASub /\ new.start = now /\ new.until = until /\ new.yearly = old.yearly
      /\ new.buyer = old.buyer
  BY <1>2, <1>3, <1>4, <1>5 DEF ASub
<1>7. Sale(sub, now, r, new) /\ new.start > 0
  BY <1>1, <1>2, <1>3, <1>4, <1>6 DEF Sale, old
<1> QED BY <1>1, <1>7, SellsStep

\* The money goes back.
LEMMA MoneyBackStep ==
  ASSUME PlansInv, NEW r \in Rails, NEW how \in {"refunded", "disputed"}, MoneyBack(r, how)
  PROVE  PlansInv'
<1> DEFINE old == sub[r]
           new == [old EXCEPT !.back = how]
<1>1. /\ IsSold(sub, r) /\ sub' = [sub EXCEPT ![r] = new]
      /\ UNCHANGED <<now, papers, rows, calls, beat, history>>
  BY DEF MoneyBack, PaidFor, Sold, IsSold
<1>2. now \in Nat \ {0} /\ SubsAre(sub, now)
  BY ReadyNow
<1>3. /\ old \in ASub /\ old.start \in 1..now /\ old.until \in {0, old.start + Length(old.yearly)}
      /\ r \in Cards => old.buyer # Nobody
  BY <1>1, <1>2, SoldIs
<1>5. new = [old EXCEPT !.back = how]
  OBVIOUS
<1> HIDE DEF old, new
<1>6. /\ new \in ASub /\ new.start = old.start /\ new.until = old.until /\ new.yearly = old.yearly
      /\ new.buyer = old.buyer
  BY <1>3, <1>5 DEF ASub
<1>7. Sale(sub, now, r, new)
  BY <1>1, <1>2, <1>3, <1>6 DEF Sale, old
<1>8. GoesOn(sub, now, sub', now') /\ World(sub', now', papers, calls, beat)
  BY <1>1, <1>7, SaleStep
<1>9. Kept(sub', now', rows', got', replaced', astray', again')
  BY <1>1, <1>8, Stands
<1> QED BY <1>1, <1>8, <1>9 DEF PlansInv

-----------------------------------------------------------------------------
(* One step of the enclave.                                                *)

\* The enclave writes its tables, and what changed in them is given.
LEMMA KeepStep ==
  ASSUME PlansInv, NEW b, Becomes(sub, now, got, rows, b), Keep(b)
  PROVE  Kept(sub, now, rows', got', replaced', astray', again')
<1>1. /\ rows' = b /\ got' = got \cup Given(rows, b) /\ replaced' = replaced
      /\ astray' = Astray(rows, b, astray, now) /\ again' = again \cup (Given(rows, b) \cap got)
  BY DEF Keep, Commit
<1>2. Kept(sub, now, b, got \cup Given(rows, b), replaced, Astray(rows, b, astray, now),
           again \cup (Given(rows, b) \cap got))
  BY ReadyNow, GivesKept DEF PlansInv
<1> QED BY <1>1, <1>2

\* What the rail of a subscription that was sold says is a word of it.
LEMMA SaidIsWord ==
  ASSUME PlansInv, NEW r \in Rails, IsSold(sub, r), NEW said \in Said(r)
  PROVE  IsWord(sub, now, r, said)
<1>1. IsWord(sub, now, r, sub[r])
  BY ReadyNow DEF SubsAre
<1>2. PICK u \in {0, sub[r].until} : said = Word(r, u) \/ said = [Word(r, u) EXCEPT !.back = "no"]
  BY DEF Said, AppleSays, StripeSays
<1>3. /\ said.tier = sub[r].tier /\ said.yearly = sub[r].yearly /\ said.start = sub[r].start
      /\ said.until = u
  BY <1>2 DEF Word
<1> QED BY <1>1, <1>3 DEF IsWord

\* A call is added to those that wait.
LEMMA WaitsStep ==
  ASSUME PlansInv, NEW c, CallIs(sub, now, c), Waits(c), UNCHANGED <<now, sub, papers, rows, beat, history>>
  PROVE  PlansInv'
<1>1. GoesOn(sub, now, sub', now') /\ World(sub', now', papers, calls, beat)
  BY StandsStill
<1>2. calls' = calls \cup {c} /\ CallIs(sub', now', c)
  BY DEF Waits
<1>3. CallsAre(sub', now', calls')
  BY <1>1, <1>2 DEF World, CallsAre
<1>4. World(sub', now', papers', calls', beat')
  BY <1>1, <1>3 DEF World
<1> QED BY <1>1, <1>4, Stands DEF PlansInv

\* A call is answered: the rails stay as they are.
LEMMA AnswerStep ==
  ASSUME PlansInv, calls' \subseteq calls, UNCHANGED <<now, sub, papers, beat>>,
         Kept(sub, now, rows', got', replaced', astray', again')
  PROVE  PlansInv'
<1>1. World(sub', now', papers, calls, beat)
  BY StandsStill
<1>2. World(sub', now', papers', calls', beat')
  BY <1>1 DEF World, CallsAre
<1> QED BY <1>2 DEF PlansInv

\* A call that waits is as it should be.
LEMMA CallOf ==
  ASSUME PlansInv, NEW c \in calls
  PROVE  CallIs(sub, now, c) /\ c.rail \in Rails
BY DEF PlansInv, World, CallsAre, CallIs, Rails

\* A checkout is opened.
LEMMA PlanCreateStep ==
  ASSUME PlansInv, NEW a \in Accounts, NEW r \in Cards, NEW tier \in Offered, NEW yearly \in Intervals,
         PlanCreate(a, r, tier, yearly)
  PROVE  PlansInv'
<1> DEFINE new == Checkout(a, tier, yearly)
<1>1. /\ r \in Rails /\ sub[r].buyer = Nobody /\ sub' = [sub EXCEPT ![r] = new]
      /\ UNCHANGED <<now, papers, rows, calls, beat, history>>
  BY DEF PlanCreate, Rails
<1>2. ~IsSold(sub, r)
  BY ReadyNow, <1>1 DEF SubsAre
<1>3. new \in ASub /\ new.start = 0
  <2>1. tier \in Tiers /\ yearly \in BOOLEAN
    BY Constants
  <2>2. new = [Unsold EXCEPT !.buyer = a, !.tier = tier, !.yearly = yearly]
    BY DEF Checkout
  <2> HIDE DEF new
  <2> QED BY <2>1, <2>2 DEF Unsold, ASub
<1> HIDE DEF new
<1>4. Sale(sub, now, r, new)
  BY <1>2, <1>3 DEF Sale
<1>5. GoesOn(sub, now, sub', now') /\ World(sub', now', papers, calls, beat)
  BY <1>1, <1>4, SaleStep
<1>6. Kept(sub', now', rows', got', replaced', astray', again')
  BY <1>1, <1>5, Stands
<1> QED BY <1>1, <1>5, <1>6 DEF PlansInv

\* The account that opened a checkout asks about it.
LEMMA PlanStatusStep ==
  ASSUME PlansInv, NEW a \in Accounts, NEW r \in Cards, PlanStatus(a, r)
  PROVE  PlansInv'
<1>1. /\ r \in Cards /\ r \in Rails /\ IsSold(sub, r)
      /\ UNCHANGED <<now, sub, papers, rows, beat, history>>
  BY DEF PlanStatus, CheckoutPaid, Sold, IsSold, Rails, rails
<1>2. PICK said \in Said(r) : Waits(Calling("claim", a, r, said))
  BY DEF PlanStatus
<1>3. IsWord(sub, now, r, said)
  BY <1>1, SaidIsWord
<1>4. CallIs(sub, now, Calling("claim", a, r, said))
  BY <1>1, <1>3 DEF CallIs, Calling
<1> QED BY <1>1, <1>2, <1>4, WaitsStep

\* A plan that was paid by card is claimed.
LEMMA ClaimedStep ==
  ASSUME PlansInv, NEW c \in calls, Claimed(c)
  PROVE  PlansInv'
<1>1. /\ c.op = "claim" /\ calls' = calls \ {c} /\ Keep(Renew(rows, c.acct, c.rail, c.said, now))
      /\ UNCHANGED <<now, sub, papers, beat>>
  BY DEF Claimed, rails
<1>2. c.acct \in Accounts /\ IsSaid(sub, now, c.acct, c.rail, c.said)
  BY <1>1, CallOf DEF CallIs, IsSaid
<1>3. Becomes(sub, now, got, rows, Renew(rows, c.acct, c.rail, c.said, now))
  BY <1>2, ReadyNow, RenewBecomes
<1>4. Kept(sub, now, rows', got', replaced', astray', again')
  BY <1>1, <1>3, KeepStep
<1> QED BY <1>1, <1>4, AnswerStep

\* The subscription of a plan was sold.
LEMMA PlanIsSold ==
  ASSUME PlansInv, NEW a \in Accounts, rows.plan[a].rail \in Rails
  PROVE  IsSold(sub, rows.plan[a].rail)
BY DEF PlansInv, Kept, RowsOk, AllFit, Fits

\* A change of the plan is asked for.
LEMMA PlanChangeStep ==
  ASSUME PlansInv, NEW a \in Accounts, NEW tier \in Tiers, PlanChange(a, tier)
  PROVE  PlansInv'
<1> DEFINE r == rows.plan[a].rail
           whole == Word(r, sub[r].until)
           said == [whole EXCEPT !.tier = tier]
           c == Calling("change", a, r, said)
<1>1. /\ r \in Cards /\ r \in Rails /\ Waits(c) /\ UNCHANGED <<now, sub, papers, rows, beat, history>>
  BY DEF PlanChange, Rails, rails
<1>2. IsSold(sub, r)
  BY <1>1, PlanIsSold
<1> HIDE DEF r
<1>3. IsWord(sub, now, r, sub[r])
  BY <1>1, <1>2, ReadyNow DEF SubsAre
<1>4. IsWord(sub, now, r, said)
  <2>1. /\ said.tier = tier /\ said.yearly = sub[r].yearly /\ said.start = sub[r].start
        /\ said.until = sub[r].until
    BY DEF Word
  <2> HIDE DEF said, whole
  <2> QED BY <1>3, <2>1 DEF IsWord
<1>5. CallIs(sub, now, c)
  <2> HIDE DEF said, whole
  <2> QED BY <1>1, <1>4 DEF CallIs, Calling
<1> QED BY <1>1, <1>5, WaitsStep

\* Stripe changes the subscription.
LEMMA ChangedAtStripeStep ==
  ASSUME PlansInv, NEW c \in calls, ChangedAtStripe(c)
  PROVE  PlansInv'
<1> DEFINE r == c.rail
           old == sub[r]
           new == [old EXCEPT !.tier = c.said.tier]
           d == [c EXCEPT !.op = "changed"]
<1>1. /\ c.op = "change" /\ IsSold(sub, r) /\ sub' = [sub EXCEPT ![r] = new]
      /\ calls' = (calls \ {c}) \cup {d}
      /\ UNCHANGED <<now, papers, rows, beat, history>>
  BY DEF ChangedAtStripe, PaidFor, Sold, IsSold
<1>2. now \in Nat \ {0} /\ SubsAre(sub, now) /\ r \in Rails /\ CallIs(sub, now, c)
  BY ReadyNow, CallOf
<1>3. /\ old \in ASub /\ old.start \in 1..now /\ old.until \in {0, old.start + Length(old.yearly)}
      /\ r \in Cards => old.buyer # Nobody
  BY <1>1, <1>2, SoldIs
<1>4. /\ c = Calling(c.op, c.acct, r, c.said) /\ r \in Cards /\ IsWord(sub, now, r, c.said)
      /\ c.acct \in Accounts /\ c.said.tier \in Tiers
  BY <1>1, <1>2 DEF CallIs, IsWord
<1>5. new = [old EXCEPT !.tier = c.said.tier]
  OBVIOUS
<1>6. /\ d = Calling("changed", c.acct, r, c.said)
  BY <1>4 DEF Calling
<1> HIDE DEF old, new, d, r
<1>7. /\ new \in ASub /\ new.start = old.start /\ new.until = old.until /\ new.yearly = old.yearly
      /\ new.buyer = old.buyer
  BY <1>3, <1>4, <1>5 DEF ASub
<1>8. Sale(sub, now, r, new)
  BY <1>1, <1>2, <1>3, <1>7 DEF Sale, old
<1>9. GoesOn(sub, now, sub', now') /\ World(sub', now', papers, calls, beat)
  BY <1>1, <1>2, <1>8, SaleStep
<1>10. IsWord(sub', now', r, c.said)
  BY <1>2, <1>4, <1>9, WordsLast
<1>11. CallIs(sub', now', d)
  BY <1>4, <1>6, <1>10 DEF CallIs, Calling
<1>12. CallsAre(sub', now', calls')
  BY <1>1, <1>9, <1>11 DEF World, CallsAre
<1>13. World(sub', now', papers', calls', beat')
  BY <1>1, <1>9, <1>12 DEF World
<1> QED BY <1>1, <1>9, <1>13, Stands DEF PlansInv

\* The change is applied.
LEMMA ChangedStep ==
  ASSUME PlansInv, NEW c \in calls, Changed(c)
  PROVE  PlansInv'
<1>1. /\ c.op = "changed" /\ calls' = calls \ {c} /\ Keep(ChangeTier(rows, c.acct, c.said.tier, now))
      /\ UNCHANGED <<now, sub, papers, beat>>
  BY DEF Changed, rails
<1>2. c.acct \in Accounts /\ c.said.tier \in Tiers
  BY <1>1, CallOf DEF CallIs, IsWord
<1>3. Becomes(sub, now, got, rows, ChangeTier(rows, c.acct, c.said.tier, now))
  BY <1>2, ReadyNow, ChangeBecomes
<1>4. Kept(sub, now, rows', got', replaced', astray', again')
  BY <1>1, <1>3, KeepStep
<1> QED BY <1>1, <1>4, AnswerStep

\* A call fails.
LEMMA CallFailsStep ==
  ASSUME PlansInv, NEW c \in calls, CallFails(c)
  PROVE  PlansInv'
<1>1. calls' = calls \ {c} /\ UNCHANGED <<now, sub, papers, beat, rows, history>>
  BY DEF CallFails, rails
<1>2. Kept(sub, now, rows', got', replaced', astray', again')
  BY <1>1 DEF PlansInv, history
<1> QED BY <1>1, <1>2, AnswerStep

-----------------------------------------------------------------------------
(* The App Store's transactions, notes and the beat.                       *)

\* The rails and the calls stay as they are.
LEMMA QuietStep ==
  ASSUME PlansInv, UNCHANGED <<now, rails, calls, beat>>,
         Kept(sub, now, rows', got', replaced', astray', again')
  PROVE  PlansInv'
<1>1. calls' \subseteq calls /\ UNCHANGED <<now, sub, papers, beat>>
  BY DEF rails
<1> QED BY <1>1, AnswerStep

\* A transaction is shown: as it comes, or to move the plan here.
LEMMA PresentStep ==
  ASSUME PlansInv, NEW a \in Accounts, NEW p \in papers, NEW restore \in BOOLEAN,
         Present(a, p, restore)
  PROVE  PlansInv'
<1> DEFINE owner == rows.owner[p.rail]
           moves == owner \notin {Nobody, a}
           of == IF moves THEN MovePlan(rows, p.rail, a) ELSE rows
           b == Renew(of, a, p.rail, p, now)
           gone == {x \in Accounts : IF moves /\ x = a THEN owner \in astray ELSE x \in astray}
           later == IF of.allowance[a].period = rows.allowance[a].period THEN replaced
                    ELSE replaced \cup {a}
<1>1. /\ moves => restore /\ CanMove(rows, p.rail, a, now)
      /\ rows' = b /\ got' = got \cup Given(of, b) /\ again' = again \cup (Given(of, b) \cap got)
      /\ replaced' = later /\ astray' = Astray(of, b, gone, now)
      /\ UNCHANGED <<now, rails, calls, beat>>
  BY DEF Present, Commit
<1>2. p.rail \in Rails /\ IsSaid(sub, now, a, p.rail, p)
  BY DEF PlansInv, World, PapersAre, Rails, IsSaid
<1>3. /\ Ready(sub, now, got, rows) /\ Sane(sub, now, got)
      /\ Kept(sub, now, rows, got, replaced, astray, again)
  BY ReadyNow DEF PlansInv
<1>4. Ready(sub, now, got, of) /\ Kept(sub, now, of, got, later, gone, again)
  <2>1. CASE moves
    <3>1. Moves(sub, now, got, rows, of, p.rail, a)
      BY <1>1, <1>2, <1>3, <2>1, MoveMoves
    <3>2. gone = Gone(rows, p.rail, a, astray)
      BY <2>1 DEF Gone
    <3>3. later = {} => replaced = {} /\ of.allowance[a].period = rows.allowance[a].period
      OBVIOUS
    <3> HIDE DEF of, gone, later
    <3>4. Kept(sub, now, of, got, later, Gone(rows, p.rail, a, astray), again)
      BY <1>2, <1>3, <3>1, <3>3, MoveKept
    <3>5. Ready(sub, now, got, of)
      BY <3>1 DEF Moves
    <3> QED BY <3>2, <3>4, <3>5
  <2>2. CASE ~moves
    <3>1. of = rows /\ later = replaced
      BY <2>2
    <3>2. gone = {x \in Accounts : x \in astray}
      BY <2>2
    <3>3. AllSteady(now, rows, gone)
      BY <1>3, <3>2 DEF Kept, RowsOk, AllSteady
    <3> HIDE DEF of, gone, later
    <3> QED BY <1>3, <3>1, <3>3 DEF Kept, RowsOk
  <2> QED BY <2>1, <2>2
<1> HIDE DEF of, gone, later
<1>5. Becomes(sub, now, got, of, b)
  BY <1>2, <1>4, RenewBecomes
<1> HIDE DEF b
<1>6. Kept(sub, now, b, got \cup Given(of, b), later, Astray(of, b, gone, now),
           again \cup (Given(of, b) \cap got))
  BY <1>3, <1>4, <1>5, GivesKept
<1>7. Kept(sub, now, rows', got', replaced', astray', again')
  BY <1>1, <1>6
<1> QED BY <1>1, <1>7, QuietStep

\* A transaction signed as refunded is shown.
LEMMA PresentRevokedStep ==
  ASSUME PlansInv, NEW r \in Stores, PresentRevoked(r)
  PROVE  PlansInv'
<1>1. r \in Rails /\ Keep(Revoke(rows, r, now)) /\ UNCHANGED <<now, rails, calls, beat>>
  BY DEF PresentRevoked, Rails
<1>2. Becomes(sub, now, got, rows, Revoke(rows, r, now))
  BY <1>1, ReadyNow, RevokeBecomes
<1>3. Kept(sub, now, rows', got', replaced', astray', again')
  BY <1>1, <1>2, KeepStep
<1> QED BY <1>1, <1>3, QuietStep

\* A month is minted.
LEMMA MintStep ==
  ASSUME PlansInv, NEW r \in Rails, NEW e, NEW w, IsWord(sub, now, r, w), Mint(r, e, w, now)
  PROVE  Kept(sub, now, rows', got', replaced', astray', again')
<1> DEFINE n == [rail |-> r, epoch |-> e, tier |-> w.tier]
           h == {[rail |-> r, pay |-> w.start, way |-> "note", month |-> e]}
           c == [rows EXCEPT !.minted = rows.minted \cup {n}]
<1>1. /\ e \in Covered(w) /\ MayMint(rows, r, e)
      /\ rows' = c /\ got' = got \cup h /\ again' = again \cup (h \cap got)
      /\ replaced' = replaced /\ astray' = astray
  BY DEF Mint, Commit
<1>2. Tables(rows) /\ FiveTables(rows)
  BY DEF PlansInv, Kept, RowsOk, Tables
<1>3. IsMinted(rows, c, n)
  <2> HIDE DEF n
  <2> QED BY <1>2 DEF IsMinted, FiveTables
<1> HIDE DEF c
<1>4. Kept(sub, now, c, got \cup h, replaced, astray, again \cup (h \cap got))
  BY <1>1, <1>3, ReadyNow, MintKept DEF PlansInv
<1> QED BY <1>1, <1>4

\* A note is minted from a transaction.
LEMMA MintFromStoreStep ==
  ASSUME PlansInv, NEW p \in papers, NEW e, MintFromStore(p, e)
  PROVE  PlansInv'
<1>1. Mint(p.rail, e, p, now) /\ UNCHANGED <<now, rails, calls, beat>>
  BY DEF MintFromStore
<1>2. p.rail \in Rails /\ IsWord(sub, now, p.rail, p)
  BY DEF PlansInv, World, PapersAre, Rails
<1>3. Kept(sub, now, rows', got', replaced', astray', again')
  BY <1>1, <1>2, MintStep
<1> QED BY <1>1, <1>3, QuietStep

\* Stripe is asked about a card that is to be minted from.
LEMMA AskToMintStep ==
  ASSUME PlansInv, NEW r \in Cards, AskToMint(r)
  PROVE  PlansInv'
<1>1. /\ r \in Rails /\ IsSold(sub, r)
      /\ UNCHANGED <<now, sub, papers, rows, beat, history>>
  BY DEF AskToMint, PaidFor, Sold, IsSold, Rails, rails
<1>2. PICK said \in Said(r) : Waits(Calling("mint", Nobody, r, said))
  BY DEF AskToMint
<1>3. IsWord(sub, now, r, said)
  BY <1>1, SaidIsWord
<1>4. CallIs(sub, now, Calling("mint", Nobody, r, said))
  BY <1>3 DEF CallIs, Calling
<1> QED BY <1>1, <1>2, <1>4, WaitsStep

\* A note is minted on Stripe's word.
LEMMA MintFromCardStep ==
  ASSUME PlansInv, NEW c \in calls, NEW e, MintFromCard(c, e)
  PROVE  PlansInv'
<1>1. Mint(c.rail, e, c.said, now) /\ calls' = calls \ {c} /\ UNCHANGED <<now, sub, papers, beat>>
  BY DEF MintFromCard, rails
<1>2. c.rail \in Rails /\ IsWord(sub, now, c.rail, c.said)
  BY CallOf DEF CallIs
<1>3. Kept(sub, now, rows', got', replaced', astray', again')
  BY <1>1, <1>2, MintStep
<1> QED BY <1>1, <1>3, AnswerStep

\* Notes are redeemed.
LEMMA NoteRedeemStep ==
  ASSUME PlansInv, NEW a \in Accounts, NEW notes \in Lists, NoteRedeem(a, notes)
  PROVE  PlansInv'
<1>1. Keep(RedeemAll(a, notes, now)) /\ UNCHANGED <<now, rails, calls, beat>>
  BY DEF NoteRedeem
<1>2. PICK k \in 1..MaxNotes : notes \in [1..k -> rows.minted]
  BY DEF Lists
<1>3. Becomes(sub, now, got, rows, RedeemAll(a, notes, now))
  BY <1>2, ReadyNow, RedeemBecomes DEF Redeems
<1>4. Kept(sub, now, rows', got', replaced', astray', again')
  BY <1>1, <1>3, KeepStep
<1> QED BY <1>1, <1>4, QuietStep

\* The renewal check asks about what was sold.
LEMMA AskIs ==
  ASSUME PlansInv, NEW card \in Cards \cup {Nobody}, NEW store \in Stores \cup {Nobody},
         \A r \in {card, store} : r # Nobody => IsSold(sub, r), NEW bt \in Ask(card, store)
  PROVE  BeatIs(sub, now, bt)
<1>1. CASE card = Nobody /\ store = Nobody
  BY <1>1 DEF Ask, Idle, BeatIs, Asks
<1>2. CASE ~(card = Nobody /\ store = Nobody)
  <2> DEFINE first == IF card # Nobody THEN card ELSE store
  <2>1. first \in Rails /\ IsSold(sub, first) /\ first # Nobody
    BY <1>2 DEF Rails
  <2>2. bt.card = card /\ bt.store = store /\ bt.said \in Said(first)
    BY <2>1 DEF Ask
  <2>3. Asks(bt) = first
    BY <2>2 DEF Asks
  <2> HIDE DEF first
  <2>4. IsWord(sub, now, first, bt.said)
    BY <2>1, <2>2, SaidIsWord
  <2> QED BY <2>2, <2>3, <2>4 DEF BeatIs
<1> QED BY <1>1, <1>2

\* So does the check that goes on, or is done.
LEMMA OnwardIs ==
  ASSUME PlansInv, NEW bt \in Onward
  PROVE  BeatIs(sub, now, bt)
<1> DEFINE store == IF beat.card # Nobody THEN beat.store ELSE Nobody
<1>1. BeatIs(sub, now, beat)
  BY DEF PlansInv, World
<1>2. /\ Nobody \in Cards \cup {Nobody} /\ store \in Stores \cup {Nobody}
      /\ \A r \in {Nobody, store} : r # Nobody => IsSold(sub, r)
  BY <1>1 DEF BeatIs
<1>3. bt \in Ask(Nobody, store)
  BY DEF Onward
<1> HIDE DEF store
<1> QED BY <1>2, <1>3, AskIs

\* The renewal check goes on; a subscription may have been cancelled.
LEMMA BeatStep ==
  ASSUME PlansInv, GoesOn(sub, now, sub', now'), now' = now, UNCHANGED <<papers, calls>>,
         BeatIs(sub, now, beat'), Kept(sub, now, rows', got', replaced', astray', again')
  PROVE  PlansInv'
<1>1. World(sub, now, papers, calls, beat')
  BY DEF PlansInv, World
<1>2. World(sub', now', papers', calls', beat')
  BY <1>1, WorldLasts
<1>3. Kept(sub', now', rows', got', replaced', astray', again')
  BY ReadyNow, KeptLasts
<1> QED BY <1>2, <1>3 DEF PlansInv

\* A beat.
LEMMA BeatBegins ==
  ASSUME PlansInv, NEW card \in Cards \cup {Nobody}, NEW store \in Stores \cup {Nobody}, Beat(card, store)
  PROVE  PlansInv'
<1>1. /\ {card, store} \subseteq Stale /\ Keep(Roll(rows, now)) /\ beat' \in Ask(card, store)
      /\ UNCHANGED <<now, sub, papers, calls>>
  BY DEF Beat, rails
<1>2. ASSUME NEW r \in {card, store}, r # Nobody
      PROVE  IsSold(sub, r)
  <2>1. PICK a \in Accounts : r = rows.plan[a].rail
    BY <1>1, <1>2 DEF Stale
  <2>2. r \in Rails
    BY <1>2 DEF Rails
  <2> QED BY <2>1, <2>2, PlanIsSold
<1>3. BeatIs(sub, now, beat')
  BY <1>1, <1>2, AskIs
<1>4. Becomes(sub, now, got, rows, Roll(rows, now))
  BY ReadyNow, RollBecomes
<1>5. Kept(sub, now, rows', got', replaced', astray', again')
  BY <1>1, <1>4, KeepStep
<1>6. GoesOn(sub, now, sub', now')
  BY <1>1, StandsStill
<1> QED BY <1>1, <1>3, <1>5, <1>6, BeatStep

\* No answer.
LEMMA RailSilentStep ==
  ASSUME PlansInv, RailSilent
  PROVE  PlansInv'
<1>1. beat' \in Onward /\ UNCHANGED <<now, sub, papers, calls, rows, history>>
  BY DEF RailSilent, rails
<1>2. Kept(sub, now, rows', got', replaced', astray', again')
  BY <1>1 DEF PlansInv, history
<1>3. GoesOn(sub, now, sub', now')
  BY <1>1, StandsStill
<1> QED BY <1>1, <1>2, <1>3, OnwardIs, BeatStep

\* The rail that is asked is one that was sold.
LEMMA AskingIs ==
  ASSUME PlansInv, Asking # Nobody
  PROVE  Asking \in Rails /\ IsWord(sub, now, Asking, beat.said) /\ IsSold(sub, Asking)
BY DEF PlansInv, World, BeatIs, Asking, Asks, Rails

\* The money went back.
LEMMA HearBackStep ==
  ASSUME PlansInv, NEW cancelled \in BOOLEAN, HearBack(cancelled)
  PROVE  PlansInv'
<1> DEFINE old == sub[Asking]
           new == [old EXCEPT !.until = 0]
<1>1. /\ Asking # Nobody /\ Keep(Revoke(rows, Asking, now)) /\ beat' \in Onward
      /\ sub' = sub \/ sub' = [sub EXCEPT ![Asking] = new]
      /\ UNCHANGED <<now, papers, calls>>
  BY DEF HearBack, CancelNow
<1>2. Asking \in Rails /\ IsSold(sub, Asking) /\ now \in Nat \ {0} /\ SubsAre(sub, now)
  BY <1>1, AskingIs, ReadyNow
<1>3. Becomes(sub, now, got, rows, Revoke(rows, Asking, now))
  BY <1>2, ReadyNow, RevokeBecomes
<1>4. Kept(sub, now, rows', got', replaced', astray', again')
  BY <1>1, <1>3, KeepStep
<1>5. GoesOn(sub, now, sub', now')
  <2>1. CASE sub' = sub
    BY <1>1, <2>1, StandsStill
  <2>2. CASE sub' = [sub EXCEPT ![Asking] = new]
    <3>1. /\ old \in ASub /\ old.start \in 1..now /\ (Asking \in Cards => old.buyer # Nobody)
      BY <1>2, SoldIs
    <3>2. new = [old EXCEPT !.until = 0]
      OBVIOUS
    <3> HIDE DEF old, new
    <3>3. /\ new \in ASub /\ new.start = old.start /\ new.until = 0 /\ new.yearly = old.yearly
          /\ new.buyer = old.buyer
      BY <3>1, <3>2 DEF ASub
    <3>4. Sale(sub, now, Asking, new)
      BY <1>2, <3>1, <3>3 DEF Sale, old
    <3> QED BY <1>1, <1>2, <2>2, <3>4, SaleStep
  <2> QED BY <1>1, <2>1, <2>2
<1> QED BY <1>1, <1>4, <1>5, OnwardIs, BeatStep

\* The subscription goes on.
LEMMA HearRenewedStep ==
  ASSUME PlansInv, HearRenewed
  PROVE  PlansInv'
<1> DEFINE owner == rows.owner[Asking]
           b == IF owner = Nobody THEN rows ELSE Renew(rows, owner, Asking, beat.said, now)
<1>1. /\ Asking # Nobody /\ Keep(b) /\ beat' \in Onward
      /\ UNCHANGED <<now, sub, papers, calls>>
  BY DEF HearRenewed, rails
<1>2. Asking \in Rails /\ IsWord(sub, now, Asking, beat.said)
  BY <1>1, AskingIs
<1>3. owner \in Accounts \cup {Nobody}
  BY <1>2 DEF PlansInv, Kept, RowsOk, Tables
<1>4. Becomes(sub, now, got, rows, b)
  <2>1. CASE owner = Nobody
    BY <2>1, ReadyNow, Unchanged
  <2>2. CASE owner # Nobody
    <3>1. owner \in Accounts /\ IsSaid(sub, now, owner, Asking, beat.said)
      BY <1>2, <1>3, <2>2 DEF IsSaid
    <3>2. Becomes(sub, now, got, rows, Renew(rows, owner, Asking, beat.said, now))
      BY <3>1, ReadyNow, RenewBecomes
    <3> QED BY <2>2, <3>2
  <2> QED BY <2>1, <2>2
<1> HIDE DEF b
<1>5. Kept(sub, now, rows', got', replaced', astray', again')
  BY <1>1, <1>4, KeepStep
<1>6. GoesOn(sub, now, sub', now')
  BY <1>1, StandsStill
<1> QED BY <1>1, <1>5, <1>6, OnwardIs, BeatStep

\* Time passes.
LEMMA TickStep ==
  ASSUME PlansInv, Tick
  PROVE  PlansInv'
<1>1. now' = now + 1 /\ UNCHANGED <<sub, papers, rows, calls, beat, history>>
  BY DEF Tick, rails
<1>2. now \in Nat \ {0} /\ SubsAre(sub, now)
  BY ReadyNow
<1>3. SubsAre(sub', now')
  <2>1. ASSUME NEW r \in Rails, IsSold(sub, r)
        PROVE  IsWord(sub, now + 1, r, sub[r]) /\ (r \in Cards => sub[r].buyer # Nobody)
    <3>1. IsWord(sub, now, r, sub[r]) /\ (r \in Cards => sub[r].buyer # Nobody)
      BY <1>2, <2>1 DEF SubsAre
    <3>2. sub[r].start \in 1..(now + 1)
      BY <1>2, <3>1 DEF IsWord
    <3> QED BY <3>1, <3>2 DEF IsWord
  <2> QED BY <1>1, <1>2, <2>1 DEF SubsAre
<1>4. GoesOn(sub, now, sub', now')
  BY <1>1, <1>2, <1>3 DEF GoesOn, SameSales
<1>5. World(sub', now', papers, calls, beat)
  BY <1>2, <1>4, WorldLasts DEF PlansInv
<1>6. Kept(sub', now', rows', got', replaced', astray', again')
  BY <1>1, <1>4, Stands
<1> QED BY <1>1, <1>5, <1>6 DEF PlansInv

-----------------------------------------------------------------------------
(* The theorems.                                                           *)

\* The invariant holds at the start: nothing is sold and every account is without a plan.
LEMMA PlansStart ==
  ASSUME Init
  PROVE  PlansInv
<1>1. /\ now = 1 /\ sub = [r \in Rails |-> Unsold] /\ papers = {} /\ calls = {} /\ beat = Idle
      /\ got = {} /\ again = {} /\ replaced = {} /\ astray = {}
      /\ FiveTables(rows) /\ rows.plan = [a \in Accounts |-> NoPlan]
      /\ rows.owner = [r \in Rails |-> Nobody]
      /\ rows.allowance = [a \in Accounts |-> NoAllowance] /\ rows.minted = {} /\ rows.spent = {}
  BY DEF Init, FiveTables
<1>2. Unsold \in ASub /\ Unsold.start = 0
  BY Constants DEF Unsold, ASub
<1>3. SubsAre(sub, now)
  BY <1>1, <1>2 DEF SubsAre, IsSold
<1>4. BeatIs(sub, now, beat)
  BY <1>1 DEF BeatIs, Asks, Idle
<1>5. World(sub, now, papers, calls, beat)
  BY <1>1, <1>3, <1>4 DEF World, PapersAre, CallsAre
<1>6. NoAllowance \in AnAllowance /\ NoAllowance.period = 0 /\ NoAllowance.granted = 0
  BY DEF NoAllowance, AnAllowance
<1>7. Tables(rows)
  BY <1>1, <1>6, NoPlanIs DEF Tables
<1>8. ASSUME NEW a \in Accounts
      PROVE  /\ Fits(sub, now, rows.owner, a, rows.plan[a], rows.allowance[a])
             /\ Steady(now, rows.plan[a], rows.allowance[a])
  <2>1. rows.plan[a] = NoPlan /\ rows.allowance[a] = NoAllowance
    BY <1>1
  <2>2. Nobody \notin Rails /\ Nobody \notin Accounts
    BY Constants
  <2> QED BY <1>1, <1>6, <2>1, <2>2, NoPlanIs DEF Fits, Steady
<1>9. AllFit(sub, now, rows) /\ AllSteady(now, rows, astray)
  BY <1>8 DEF AllFit, AllSteady
<1>10. /\ got \subseteq AGift /\ NotesIn(sub, got, rows.minted) /\ AllEnded(now, got, rows)
       /\ PlansIn(got, rows, replaced) /\ OneWay(got)
  BY <1>1 DEF NotesIn, AllEnded, MintedOn, PlansIn, OneWay
<1>11. Kept(sub, now, rows, got, replaced, astray, again)
  BY <1>1, <1>7, <1>9, <1>10 DEF Kept, RowsOk
<1> QED BY <1>5, <1>11 DEF PlansInv

\* Every step keeps the invariant.
LEMMA PlansGoOn ==
  ASSUME PlansInv, [Next]_vars
  PROVE  PlansInv'
<1>1. CASE AtTheRails
  BY <1>1, PayStep, RailRenewsStep, StoreUpgradeStep, MoneyBackStep DEF AtTheRails
<1>2. CASE ByCard
  BY <1>2, PlanCreateStep, PlanStatusStep, PlanChangeStep, ClaimedStep, ChangedAtStripeStep,
     ChangedStep, CallFailsStep DEF ByCard
<1>3. CASE FromTheStore
  BY <1>3, PresentStep, PresentRevokedStep DEF FromTheStore
<1>4. CASE Noted
  BY <1>4, MintFromStoreStep, AskToMintStep, MintFromCardStep, NoteRedeemStep DEF Noted
<1>5. CASE Beats
  BY <1>5, BeatBegins, RailSilentStep, HearRenewedStep, HearBackStep DEF Beats
<1>6. CASE Tick
  BY <1>6, TickStep
<1>7. CASE UNCHANGED vars
  <2>1. UNCHANGED <<now, sub, papers, rows, calls, beat, got, again, replaced, astray>>
    BY <1>7 DEF vars
  <2> QED BY <2>1 DEF PlansInv
<1> QED BY <1>1, <1>2, <1>3, <1>4, <1>5, <1>6, <1>7 DEF Next

\* The invariant holds always.
LEMMA PlansAlways == Spec => []PlansInv
<1>1. Init => PlansInv
  BY PlansStart
<1>2. PlansInv /\ [Next]_vars => PlansInv'
  BY PlansGoOn
<1> QED BY <1>1, <1>2, PTL DEF Spec

\* Every table keeps its type, whatever the rails say and the apps ask for, and what waits
\* to be applied is the word of a subscription that was sold.
THEOREM PlansTyped == Spec => [](World(sub, now, papers, calls, beat) /\ Tables(rows))
<1>1. PlansInv => World(sub, now, papers, calls, beat) /\ Tables(rows)
  BY DEF PlansInv, Kept, RowsOk
<1> QED BY <1>1, PlansAlways, PTL

\* One payment is one allowance, for any number of reports of it in any order, as long as
\* "Restore purchases" has replaced nobody's allowance.
THEOREM OnePaymentOneAllowance == Spec => []OneAllowanceUnlessReplaced
<1>1. PlansInv => OneAllowanceUnlessReplaced
  BY DEF PlansInv, Kept, OneAllowanceUnlessReplaced
<1> QED BY <1>1, PlansAlways, PTL

\* A payment pays as a plan or as notes, never both.
THEOREM PaymentsPayOneWay == Spec => []PaysOneWay
<1>1. PlansInv => PaysOneWay
  BY DEF PlansInv, Kept, RowsOk, OneWay, PaysOneWay
<1> QED BY <1>1, PlansAlways, PTL

\* A subscription pays the plan of the one account it is bound to, and an account without
\* a plan has no allowance left.
THEOREM SubscriptionHasOneHolder == Spec => []OneHolder
<1>1. PlansInv => OneHolder
  <2> SUFFICES ASSUME PlansInv, NEW a \in Accounts
               PROVE  LET rail == rows.plan[a].rail
                      IN /\ rail \in Rails => rows.owner[rail] = a
                         /\ rail = Nobody => rows.allowance[a].granted = 0
    BY DEF OneHolder
  <2>1. Fits(sub, now, rows.owner, a, rows.plan[a], rows.allowance[a])
    BY DEF PlansInv, Kept, RowsOk, AllFit
  <2> QED BY <2>1 DEF Fits
<1> QED BY <1>1, PlansAlways, PTL

\* The month of a plan that is on the payment its allowance is of never holds more than
\* the highest tier's allowance, for any ladder of tiers.
THEOREM MonthStaysWithinTier == Spec => []MonthWithinTierUnlessAstray
<1>1. PlansInv => MonthWithinTierUnlessAstray
  <2> SUFFICES ASSUME PlansInv, NEW a \in Accounts, ~rows.plan[a].yearly, a \notin astray
               PROVE  rows.allowance[a].granted <= Top
    BY DEF MonthWithinTierUnlessAstray, WithinTier
  <2>1. /\ Fits(sub, now, rows.owner, a, rows.plan[a], rows.allowance[a])
        /\ Steady(now, rows.plan[a], rows.allowance[a])
        /\ rows.plan[a] \in APlan /\ rows.allowance[a] \in AnAllowance
    BY DEF PlansInv, Kept, RowsOk, AllFit, AllSteady, Tables
  <2>2. /\ rows.allowance[a].granted \in Nat /\ rows.plan[a].grantedTier \in Tiers
    BY <2>1 DEF APlan, AnAllowance
  <2>3. /\ TIERS[rows.plan[a].grantedTier] \in Nat /\ TIERS[rows.plan[a].grantedTier] <= Top
        /\ Top \in Nat
    BY <2>2, Constants DEF Top
  <2>4. CASE rows.plan[a].rail = Nobody
    BY <2>1, <2>3, <2>4 DEF Fits
  <2>5. CASE rows.plan[a].rail # Nobody
    BY <2>1, <2>2, <2>3, <2>5 DEF Steady
  <2> QED BY <2>4, <2>5
<1> QED BY <1>1, PlansAlways, PTL
=============================================================================
