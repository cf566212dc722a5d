------------------------------- MODULE Papers -------------------------------
\* What a payment is worth: a transaction the App Store signed, and a card's
\* subscription with its charges (enclave/src/apple.rs, stripe.rs; what is sold, and when
\* money goes back, is the rails' own doing). Time is counted in days.
EXTENDS Integers, Sequences, SequencesExt, FiniteSetsExt

CONSTANTS
  TIERS,         \* the price of each tier
  Tiles,         \* the amounts of prepaid credit on sale
  TokuPerUsd, MaxQuantity,
  Bundle, OtherBundle,
  AllowSandbox,  \* a build for testing
  Period,        \* the days a payment is for
  MaxCharges, MaxDay

VARIABLES
  rail,      \* "apple" or "card"
  bought,    \* what the App Store sold, as it is by now
  charges,   \* the card's charges: when, for which period, what for, and what went back
  start,     \* the start of the card's current period
  day,
  shown      \* a transaction as it was signed, and what it was found to be worth
pvars == <<rail, bought, charges, start, day, shown>>

\* ---- the App Store
Root == "apple_root_ca_g3"
Environments == {"Production", "Sandbox", "Xcode"}
\* The chain a store signs with: the real one with the root or without, or that of the
\* tests on a developer's machine, which ends at a root of its own.
Certificate(ca, marker, signer, until) == [ca |-> ca, marker |-> marker, signer |-> signer, until |-> until]
AppleChain(until) == <<Certificate(FALSE, "receipt", "wwdr", until), Certificate(TRUE, "wwdr", Root, MaxDay)>>
XcodeChain == <<Certificate(FALSE, "none", "xcode", MaxDay), Certificate(TRUE, "none", "xcode", MaxDay)>>

ChainHolds(paper, at) ==
  LET leaf == paper.chain[1]
      inter == paper.chain[2]
  IN /\ Len(paper.chain) \in {2, 3}
     /\ Len(paper.chain) = 3 => paper.chain[3].marker = Root
     /\ at <= leaf.until /\ at <= inter.until
     /\ inter.ca /\ inter.marker = "wwdr"
     /\ ~leaf.ca /\ leaf.marker = "receipt"
     /\ inter.signer = Root /\ leaf.signer = inter.marker

\* A transaction is read only under its chain and the leaf's signature.
Verified(paper, at) == paper.alg = "ES256" /\ ChainHolds(paper, at) /\ paper.signed

Accepted(tx) == tx.environment = "Production" \/ (tx.environment = "Sandbox" /\ AllowSandbox)

ProductUsd(product) == product.prefix = "credit" /\ product.price \in Tiles
ProductPlan(product) == product.prefix = "plan" /\ \E i \in DOMAIN TIERS : TIERS[i] = product.price

Owned(tx) == tx.bundle = Bundle /\ ~tx.revoked /\ tx.ownership = "PURCHASED" /\ Accepted(tx)
PlanFor(tx, at) ==
  /\ Owned(tx) /\ tx.kind = "Subscription"
  /\ tx.expires # 0 /\ tx.expires > at
  /\ ProductPlan(tx.product)
RevokedPlan(tx) ==
  /\ tx.revoked /\ tx.bundle = Bundle /\ tx.kind = "Subscription"
  /\ ProductPlan(tx.product) /\ Accepted(tx)
CreditFor(tx) == Owned(tx) /\ tx.kind = "Consumable" /\ ProductUsd(tx.product)
Credit(tx) == tx.product.price * TokuPerUsd * Max({1, Min({MaxQuantity, tx.quantity})})

Worth(paper, at) ==
  IF ~Verified(paper, at) THEN <<"nothing", 0>>
  ELSE IF RevokedPlan(paper.tx) THEN <<"refund", 0>>
  ELSE IF PlanFor(paper.tx, at) THEN <<"plan", paper.tx.product.price>>
  ELSE IF CreditFor(paper.tx) THEN <<"credit", Credit(paper.tx)>>
  ELSE <<"nothing", 0>>

\* ---- the card
\* A plausible mistake: any charge that went back ends what runs now.
MoneyBack_Any(list, from) ==
  IF \E i \in DOMAIN list : list[i].back = "disputed" THEN "disputed"
  ELSE IF \E i \in DOMAIN list : list[i].back = "refunded" THEN "refunded" ELSE "none"

\* A chargeback of any charge, or the full refund of one made within a day of the
\* period's start.
MoneyBack(list, from) ==
  IF \E i \in DOMAIN list : list[i].back = "disputed" THEN "disputed"
  ELSE IF \E i \in DOMAIN list : list[i].at + 1 >= from /\ list[i].at <= from + 1 /\ list[i].back = "refunded"
  THEN "refunded"
  ELSE "none"

\* ---- what happens
NoTx == [bundle |-> OtherBundle, kind |-> "none", environment |-> "Production", ownership |-> "PURCHASED",
         product |-> [prefix |-> "credit", price |-> 0], quantity |-> 1, expires |-> 0, revoked |-> FALSE]
NotShown == [tx |-> NoTx, at |-> 0, worth |-> <<"nothing", 0>>]

PapersInit(rails) ==
  /\ rail \in rails
  /\ bought = NoTx /\ charges = <<>> /\ start = 0 /\ day = 1 /\ shown = NotShown

\* The store sells a subscription or credit, in a shop or in one of its tests.
StoreSells(bundle, kind, environment, ownership, product, quantity) ==
  /\ rail = "apple" /\ bought = NoTx
  /\ kind = "Consumable" <=> product.prefix = "credit"
  /\ bought' = [bundle |-> bundle, kind |-> kind, environment |-> environment, ownership |-> ownership,
                product |-> product, quantity |-> quantity, revoked |-> FALSE,
                expires |-> IF kind = "Subscription" THEN day + Period ELSE 0]
  /\ UNCHANGED <<rail, charges, start, day, shown>>

StoreRefunds ==
  /\ bought # NoTx /\ ~bought.revoked
  /\ bought' = [bought EXCEPT !.revoked = TRUE]
  /\ UNCHANGED <<rail, charges, start, day, shown>>

\* The app hands over a transaction as it was signed, today or before a refund; the
\* chain is the store's, whole or without its root, or a test's.
HandOver(tx, until, whole) ==
  LET chain == IF tx.environment = "Xcode" THEN XcodeChain
               ELSE AppleChain(until) \o (IF whole THEN <<Certificate(TRUE, Root, Root, MaxDay)>> ELSE <<>>)
      paper == [alg |-> "ES256", signed |-> TRUE, chain |-> chain, tx |-> tx]
  IN /\ bought # NoTx
     /\ tx.revoked => bought.revoked
     /\ shown' = [tx |-> tx, at |-> day, worth |-> Worth(paper, day)]
     /\ UNCHANGED <<rail, bought, charges, start, day>>

Charge(period, what) == [at |-> day, period |-> period, what |-> what, back |-> "no"]

\* A period begins and is charged; a charge that fails is tried again in the days
\* after, and a change to a dearer plan is charged at once.
PeriodBegins(charged) ==
  /\ rail = "card" /\ (start = 0 \/ day = start + Period)
  /\ charged => Len(charges) < MaxCharges
  /\ start' = day
  /\ charges' = IF charged THEN Append(charges, Charge(day, "period")) ELSE charges
  /\ UNCHANGED <<rail, bought, day, shown>>

CardRetried ==
  /\ start # 0 /\ Len(charges) < MaxCharges
  /\ ~\E i \in DOMAIN charges : charges[i].period = start
  /\ charges' = Append(charges, Charge(start, "period"))
  /\ UNCHANGED <<rail, bought, start, day, shown>>

PlanChanged ==
  /\ start # 0 /\ Len(charges) < MaxCharges
  /\ charges' = Append(charges, Charge(start, "change"))
  /\ UNCHANGED <<rail, bought, start, day, shown>>

CardGoesBack(i, how) ==
  /\ charges[i].back = "no"
  /\ charges' = [charges EXCEPT ![i].back = how]
  /\ UNCHANGED <<rail, bought, start, day, shown>>

DayPasses ==
  /\ day < MaxDay /\ (start # 0 => day < start + Period)
  /\ day' = day + 1
  /\ UNCHANGED <<rail, bought, charges, start, shown>>

Products == {[prefix |-> "credit", price |-> n] : n \in Tiles \cup {1}} \cup
            {[prefix |-> "plan", price |-> TIERS[i]] : i \in DOMAIN TIERS}

PapersNext ==
  \/ \E bundle \in {Bundle, OtherBundle}, kind \in {"Subscription", "Consumable"},
        environment \in Environments, ownership \in {"PURCHASED", "FAMILY_SHARED"},
        product \in Products, quantity \in {1, MaxQuantity + 1} :
       StoreSells(bundle, kind, environment, ownership, product, quantity)
  \/ StoreRefunds
  \/ \E revoked, whole \in BOOLEAN, until \in {0, MaxDay} :
       HandOver([bought EXCEPT !.revoked = revoked], until, whole)
  \/ \E charged \in BOOLEAN : PeriodBegins(charged)
  \/ CardRetried
  \/ PlanChanged
  \/ \E i \in DOMAIN charges, how \in {"refunded", "disputed"} : CardGoesBack(i, how)
  \/ DayPasses

\* ---- properties

\* What the enclave grants for a transaction is what the store sold in its shop, for
\* its price, and only while it lasts; one that was refunded is the end of its plan and
\* no credit; a test's is nothing on a server that takes none.
WorthWhatWasSold ==
  LET tx == shown.tx
      real == tx.bundle = Bundle /\ tx.ownership = "PURCHASED"
                /\ tx.environment \in {"Production"} \cup (IF AllowSandbox THEN {"Sandbox"} ELSE {})
  IN /\ shown.worth[1] = "plan" => real /\ ~tx.revoked /\ shown.at < tx.expires /\ tx.kind = "Subscription"
     /\ shown.worth[1] = "credit" => real /\ ~tx.revoked /\ tx.kind = "Consumable"
     /\ tx.revoked => shown.worth[1] \in {"refund", "nothing"}
     /\ shown.worth[1] = "credit" => shown.worth[2] <= tx.product.price * TokuPerUsd * MaxQuantity

\* Money that went back for another period leaves this one as it is, and money for
\* this period that went back whole ends it (stripe.rs: "The charge for the CURRENT
\* period was refunded in full").
RefundIsThePeriods ==
  LET back(how) == {i \in DOMAIN charges : charges[i].back = how}
      ended == \E i \in back("refunded") : charges[i].what = "period" /\ charges[i].period = start
  IN MoneyBack(charges, start) =
       (IF back("disputed") # {} THEN "disputed" ELSE IF ended THEN "refunded" ELSE "none")

\* Every period was charged on its day, and every change well inside its period.
Punctual ==
  \A i \in DOMAIN charges :
    LET c == charges[i]
    IN IF c.what = "period" THEN c.at = c.period ELSE c.at > c.period + 1 /\ c.at + 1 < c.period + Period

\* A payment is worth what was sold for it, and what went back ends what it paid for,
\* as long as the rail charges on the day.
WorthWhatWasPaid == WorthWhatWasSold /\ (Punctual => RefundIsThePeriods)
=============================================================================
