------------------------------- MODULE Cover -------------------------------
\* Cover for the questions asked after a payment (crates/enclave/src/cover.rs and
\* where service.rs, subscriptions.rs and notes.rs call it). The merchant knows who
\* paid and when, the host sees which provider is called and how big the answer is:
\* so the enclave counts the calls made since an account's payment, and beside each
\* of the account's questions it buys as many decoys as are missing to `ENOUGH`.
\* A request carries the time of its arrival; what is done with it happens later,
\* when a rail has answered or a hold is taken, and others' requests come between.
EXTENDS Integers, Sequences, SequencesExt, FiniteSets, FiniteSetsExt

CONSTANTS
  People,
  Kinds,          \* the models asked, as [by, draws]: the provider, and whether it draws
  ENOUGH,         \* calls of one shape that are cover enough
  COVER_KEEP,     \* how long a payment keeps its account armed
  REMEMBER,       \* the calls that are remembered
  InParallel,     \* whether an account's next request may arrive before the last is done
  CoverLasts,     \* bound: the clock
  MaxRequests     \* bound: the requests that arrive

ASSUME CoverAssumption ==
  /\ Kinds \subseteq [by : {"openai", "gemini"}, draws : BOOLEAN]
  /\ {ENOUGH, COVER_KEEP, REMEMBER, CoverLasts, MaxRequests} \subseteq Nat
  /\ InParallel \in BOOLEAN

VARIABLES
  clock,
  seen,      \* the calls that went out, oldest first: [at, shape], and history: whose
  waiting,   \* armed accounts: [paid, since], the payment and the last question
  open,      \* requests arrived and not done: [who, is, kind, at, asked]
  arrived,   \* history: how many requests arrived
  trail,     \* history: when each account last paid, and its last payment or question
  stands     \* history: what the last question stood among
cover == <<clock, seen, waiting, open, arrived, trail, stands>>

\* What the host can tell of a call: where it goes, and how big the answer is.
Shape(m) == IF m.draws THEN "Picture" ELSE "Text"
Looks(m) == <<m.by, Shape(m)>>

Decoy_Google(m) == [by |-> "gemini", draws |-> m.draws]
\* The call that covers a question to m: to the same provider, of the same shape.
Decoy(m) == [by |-> m.by, draws |-> m.by = "gemini" /\ m.draws]

Armed(paid, since) == [paid |-> paid, since |-> since]

\* The calls of a shape that count as cover for an armed account: strictly
\* after its anchor, for that moment's own call is the account's.
Counts(c, a) == c.at > a.since \/ (c.at = a.since /\ a.since = a.paid)
CoverOf(p, shape) == Len(SelectSeq(seen, LAMBDA c : c.shape = shape /\ Counts(c, waiting[p])))

InWindow(p, at) == p \in DOMAIN waiting /\ at - waiting[p].paid < COVER_KEEP
DecoysNeeded(p, shape, at) ==
  IF InWindow(p, at) THEN Max({0, ENOUGH - CoverOf(p, shape)}) ELSE 0

Request(p, is, m, at) == [who |-> p, is |-> is, kind |-> m, at |-> at, asked |-> FALSE]
NoQuestionYet == [armed |-> FALSE, others |-> 0, decoys |-> 0]

CoverInit ==
  /\ clock = 1 /\ arrived = 0
  /\ seen = <<>> /\ waiting = <<>> /\ open = {}
  /\ trail = [p \in People |-> Armed(-1, 0)]
  /\ stands = NoQuestionYet

\* A payment is claimed or a question is asked. A trip through the mixnet lasts longer
\* than the clock's tick, so an account's next request is never of the same moment.
Arrives(p, is, m) ==
  /\ arrived < MaxRequests
  /\ InParallel \/ ~\E r \in open : r.who = p
  /\ \A r \in open : r.who = p => r.at < clock
  /\ trail[p].since < clock
  /\ open' = open \cup {Request(p, is, m, clock)}
  /\ arrived' = arrived + 1
  /\ UNCHANGED <<clock, seen, waiting, trail, stands>>
Claims(p) == Arrives(p, "pays", CHOOSE m \in Kinds : TRUE)
Asks(p, m) == Arrives(p, "asks", m)

\* Not paid yet, or too little on the account for a hold: nothing goes out.
Refused(r) ==
  /\ ~r.asked
  /\ open' = open \ {r}
  /\ UNCHANGED <<clock, seen, waiting, arrived, trail, stands>>

Later(p, at) == Max({trail[p].since, at})

\* A plan is granted or credit is added: the account is armed, and those whose
\* payment no longer points at anything are forgotten.
Paid(r) ==
  /\ r.is = "pays"
  /\ open' = open \ {r}
  /\ LET kept == {p \in DOMAIN waiting : r.at - waiting[p].paid < COVER_KEEP}
     IN waiting' = [p \in kept \cup {r.who} |-> IF p = r.who THEN Armed(r.at, r.at) ELSE waiting[p]]
  /\ trail' = [trail EXCEPT ![r.who] = Armed(r.at, Later(r.who, r.at))]
  /\ UNCHANGED <<clock, seen, arrived, stands>>

\* Other people's calls that went out after the account's last payment or question.
Others(p, shape) ==
  Len(SelectSeq(seen, LAMBDA c : c.who # p /\ c.shape = shape /\ c.at >= trail[p].since))

\* The question is the account's new anchor, or the window of its payment is over.
CountedFrom(r) ==
  [q \in {p \in DOMAIN waiting : p = r.who => InWindow(p, r.at)} |->
     IF q = r.who THEN Armed(waiting[q].paid, r.at) ELSE waiting[q]]

\* A question's hold is taken: the decoys it needs are bought, and the next question of
\* the account is counted from here.
Covered(r) ==
  /\ r.is = "asks" /\ ~r.asked
  /\ LET p == r.who
         alike == Looks(Decoy(r.kind)) = Looks(r.kind)
         needed == DecoysNeeded(p, Shape(r.kind), r.at)
     IN /\ stands' = [armed  |-> trail[p].paid >= 0 /\ clock - trail[p].paid < COVER_KEEP,
                      others |-> Others(p, Shape(r.kind)),
                      decoys |-> IF alike THEN needed ELSE 0]
        /\ waiting' = CountedFrom(r)
        /\ trail' = [trail EXCEPT ![p].since = Later(p, r.at)]
  /\ open' = (open \ {r}) \cup {[r EXCEPT !.asked = TRUE]}
  /\ UNCHANGED <<clock, seen, arrived>>

\* OpenAI's moderation stops a turn in front of OpenAI's own models (and lets it pass
\* when it cannot be reached): the turn went nowhere, and is cover for nobody.
Flagged(r) ==
  /\ r.asked /\ r.kind.by = "openai"
  /\ open' = open \ {r}
  /\ UNCHANGED <<clock, seen, waiting, arrived, trail, stands>>

\* The call goes out: it is cover for everyone else's, at the time its request arrived.
Note(r) ==
  /\ r.asked
  /\ open' = open \ {r}
  /\ LET all == Append(seen, [at |-> r.at, shape |-> Shape(r.kind), who |-> r.who])
     IN seen' = SubSeq(all, Max({1, Len(all) - REMEMBER + 1}), Len(all))
  /\ UNCHANGED <<clock, waiting, arrived, trail, stands>>

\* A restart of the enclave: what was armed and what went out is forgotten, and so is
\* every request under way.
CoverForgotten ==
  /\ arrived > 0
  /\ seen' = <<>> /\ waiting' = <<>> /\ open' = {}
  /\ trail' = [p \in People |-> Armed(-1, clock)]
  /\ stands' = NoQuestionYet
  /\ UNCHANGED <<clock, arrived>>

TimePasses ==
  /\ clock < CoverLasts
  /\ clock' = clock + 1
  /\ UNCHANGED <<seen, waiting, open, arrived, trail, stands>>

CoverNext ==
  \/ \E p \in People : Claims(p) \/ \E m \in Kinds : Asks(p, m)
  \/ \E r \in open : Refused(r) \/ Paid(r) \/ Covered(r) \/ Flagged(r) \/ Note(r)
  \/ CoverForgotten
  \/ TimePasses

----------------------------------------------------------------------------
\* A question asked within the window of a payment this enclave has heard of stands
\* among ENOUGH calls of its own look that are not its account's: other people's since
\* the account's last payment or question, and decoys for what is missing. It holds
\* while an account's requests come one after the other (CoverParallel.cfg: an older
\* request that is done later sets the account's anchor back, and its own calls count).
StandsAmongEnough == stands.armed => stands.others + stands.decoys >= ENOUGH

=============================================================================
