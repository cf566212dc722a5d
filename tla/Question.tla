------------------------------ MODULE Question ------------------------------
\* What one question may cost and what it does cost: its size is counted, the worst
\* case is held, the provider answers, and the answer is charged (enclave/src/
\* service.rs `chat`, gemini.rs, openai.rs, policy.rs; core/src/billing.rs, pricing.rs).
\* Prices are integers per Unit tokens, in TOKU: the code's per million, without the
\* noise of floating point its `ceil_toku` removes.
EXTENDS Integers, Sequences, SequencesExt, FiniteSetsExt

CONSTANTS
  Models,            \* what may be asked for, by provider, price and what it draws
  Attachments,       \* what may be attached
  Texts,             \* the bytes of text of a question
  Balances,          \* what an account may have
  Wishes,            \* the limits an app may ask for; NoWish leaves the default
  NoWish,
  Unit,              \* the tokens a price is for
  MarginNum, MarginDen,
  MinCharge, DefaultMax, MaxOutput, DefaultThinking, MaxThinking, MinAnswer,
  MaxAttachments, MaxBytes, MaxPages,
  PictureTokens, PageTokens, PdfTokens, BytesPerToken,
  MaxQueries, QueryPrice,
  IMAGE_SIZES,       \* the tokens of a picture of each size, smallest first
  DefaultSize, LegacyImageTokens

\* A margin takes nothing off a price, and what a provider has cached costs no more
\* than what it has not (pricing.json).
ASSUME PricesAreWhole ==
  /\ Unit \in Nat \ {0} /\ MarginDen \in Nat \ {0} /\ MarginNum >= MarginDen
  /\ \A m \in Models : m.cached <= m.input /\ MinCharge \in Nat

VARIABLES
  stage,     \* "none", "counted", "ready", "held", "sent", "again", "answered", "settled", "refused"
  q,         \* the question: its model, its limits and what was counted of it
  balance,   \* what the account has
  hold,      \* what is held of it
  usage,     \* what the provider reported, or what is estimated
  kept,      \* the provider kept to what it was asked for, and said what it used or is estimated
  content,   \* words or a picture came back
  cost
qvars == <<stage, q, balance, hold, usage, kept, content, cost>>

CeilDiv(a, b) == (a + b - 1) \div b
Retail(rate) == CeilDiv(rate * MarginNum, MarginDen)
TextRate(m) == IF m.outText = 0 THEN m.output ELSE m.outText

\* ---- what an answer costs
Draws(m) == m.draws # "no"
Sizes(m) == IF m.draws = "lite" THEN {DefaultSize} ELSE DOMAIN IMAGE_SIZES
ImageSize(m, want) ==
  LET fitting == {s \in Sizes(m) : s <= want}
  IN IF fitting = {} THEN DefaultSize ELSE Max(fitting)
TokensFor(size) == IMAGE_SIZES[size]
ImageTokens(m, size) ==
  CASE m.draws = "no" -> 0
    [] m.draws = "legacy" -> LegacyImageTokens
    [] OTHER -> TokensFor(size)

NoUsage == [input |-> 0, cached |-> 0, output |-> 0, image |-> 0, queries |-> 0, pictures |-> 0]
Billable(u) == u.input + u.cached + u.output + u.image
CostOf(m, u) ==
  u.input * m.input + u.cached * m.cached + u.output * TextRate(m) + u.image * m.output
Billed(m, u) ==
  IF Billable(u) = 0 THEN 0
  ELSE Max({CeilDiv(CostOf(m, u) * MarginNum, Unit * MarginDen), MinCharge})
OneImage(m) == Retail(m.perImage)
SearchCharge(n) == IF n = 0 THEN 0 ELSE Retail(n * QueryPrice)
Cost(m, u) == Billed(m, u) + u.pictures * OneImage(m) + SearchCharge(u.queries)

\* ---- what it may cost
AnswerTokens(r) == Max({1, Min({MaxOutput, IF r.most = NoWish THEN DefaultMax ELSE r.most})})
ThinkingTokens(r) == Min({MaxThinking, IF r.thinking = NoWish THEN DefaultThinking ELSE r.thinking})
Limit(r) == AnswerTokens(r) + ThinkingTokens(r)

CeilingToku(m, in, out, image) ==
  CeilDiv(in * Retail(m.input) + out * Retail(TextRate(m))
            + (IF m.outText = 0 THEN 0 ELSE image) * Retail(m.output), Unit)
CeilingFor(r, out) ==
  CeilingToku(r.model, r.tokens, out, ImageTokens(r.model, r.size)) + OneImage(r.model)
    + (IF r.live THEN SearchCharge(MaxQueries) ELSE 0)

PdfPages(a) == Max({1, a.pages})
TokensOf(a) ==
  IF a.type = "pdf" THEN Max({PdfPages(a) * PageTokens, a.bytes \div BytesPerToken, PdfTokens})
  ELSE PictureTokens
Counted(text, atts) == FoldSeq(LAMBDA a, n : n + TokensOf(a), text, atts)
PagesOf(atts) == FoldSeq(LAMBDA a, n : n + (IF a.type = "pdf" THEN PdfPages(a) ELSE 0), 0, atts)

\* Only what the providers read, in the number and size that may be sent.
MayAttach(atts) ==
  /\ \A i \in DOMAIN atts : atts[i].type \in {"picture", "pdf"} /\ atts[i].bytes <= MaxBytes
  /\ Len(atts) <= MaxAttachments
  /\ PagesOf(atts) <= MaxPages

\* A price that is only the fallback for a model the list does not have offers nothing.
Offered(m) == m.listed

NoQuestion == [model |-> CHOOSE m \in Models : TRUE, tokens |-> 0, text |-> 0, most |-> NoWish,
               thinking |-> NoWish, live |-> FALSE, size |-> DefaultSize]

QuestionInit ==
  /\ stage = "none" /\ q = NoQuestion /\ balance \in Balances
  /\ hold = 0 /\ usage = NoUsage /\ kept = TRUE /\ content = FALSE /\ cost = 0

Ask(m, text, atts, most, thinking, live, want) ==
  /\ stage = "none"
  /\ IF MayAttach(atts) /\ Offered(m)
     THEN /\ stage' = "counted"
          /\ q' = [model |-> m, tokens |-> Counted(text, atts), text |-> text, most |-> most,
                   thinking |-> thinking, live |-> live, size |-> ImageSize(m, want)]
     ELSE stage' = "refused" /\ UNCHANGED q
  /\ UNCHANGED <<balance, hold, usage, kept, content, cost>>

\* The tokens of answer and thinking that what is available pays for.
Fits(r, available) ==
  LET fixed == CeilingFor(r, 0)
      perUnit == CeilingFor(r, Unit) - fixed
  IN IF available > fixed /\ perUnit > 0 THEN ((available - fixed) * Unit) \div perUnit ELSE 0

\* A plausible mistake: the thinking comes on top of what fits.
Shortened_OnTop(r, available) ==
  LET fits == Fits(r, available)
  IN [r EXCEPT !.thinking = Min({ThinkingTokens(r), fits \div 3}),
               !.most = Max({1, Min({AnswerTokens(r), fits})})]

\* A question that may cost more than there is is shortened: a third of what fits
\* for thinking at most, the rest for the answer.
Shortened(r, available) ==
  LET fits == Fits(r, available)
      thinking == Min({ThinkingTokens(r), fits \div 3})
  IN [r EXCEPT !.thinking = thinking,
               !.most = Max({1, Min({AnswerTokens(r), fits - thinking})})]

ReadBalance ==
  /\ stage = "counted"
  /\ IF CeilingFor(q, Limit(q)) <= balance
     THEN stage' = "ready" /\ hold' = CeilingFor(q, Limit(q)) /\ UNCHANGED q
     ELSE IF Draws(q.model) \/ Fits(q, balance) < MinAnswer
     THEN stage' = "refused" /\ UNCHANGED <<q, hold>>
     ELSE /\ stage' = "ready"
          /\ q' = Shortened(q, balance)
          /\ hold' = Min({CeilingFor(q', Limit(q')), balance})
  /\ UNCHANGED <<balance, usage, kept, content, cost>>

\* The hold takes all of it or nothing: other questions had the ledger in between.
Hold ==
  /\ stage = "ready"
  /\ hold' = Max({1, hold})
  /\ IF hold' <= balance
     THEN stage' = "held" /\ balance' = balance - hold'
     ELSE stage' = "refused" /\ UNCHANGED balance
  /\ UNCHANGED <<q, usage, kept, content, cost>>

OthersSpend(b) ==
  /\ stage \in {"counted", "ready"}
  /\ b < balance /\ balance' = b
  /\ UNCHANGED <<stage, q, hold, usage, kept, content, cost>>

\* OpenAI's own check stands before OpenAI's models only; if it is out of reach the
\* question goes on.
Moderate(flagged) ==
  /\ stage = "held"
  /\ flagged => q.model.by = "openai"
  /\ stage' = IF flagged THEN "answered" ELSE "sent"
  /\ UNCHANGED <<q, balance, hold, usage, kept, content, cost>>

\* ---- what the providers report
Fails ==
  /\ stage \in {"sent", "again"}
  /\ stage' = "answered" /\ usage' = NoUsage
  /\ UNCHANGED <<q, balance, hold, kept, content, cost>>

\* The input is what was counted at most, or more: what a search brought in.
Inputs == {q.tokens, q.tokens + 1}
Queries == IF q.live THEN {MaxQueries, MaxQueries + 1} ELSE {0}

\* OpenAI: what it had cached is inside the input; an answer without words is an error.
OpenAiUsage(in, cached, out, queries) ==
  [NoUsage EXCEPT !.input = in - Min({cached, in}), !.cached = Min({cached, in}),
                  !.output = out, !.queries = queries]

\* Gemini: the thinking is beside the candidates, the picture inside them.
GeminiUsage(in, cached, candidates, thoughts, image, pictures) ==
  LET known == Min({image, candidates})
      drawn == IF pictures > 0 /\ known = 0 THEN candidates ELSE known
  IN [NoUsage EXCEPT !.input = in - Min({cached, in}), !.cached = Min({cached, in}),
                     !.output = candidates - drawn + thoughts, !.image = drawn,
                     !.pictures = pictures]

Plus(u, v) == [f \in DOMAIN u |-> u[f] + v[f]]

Estimate(bytes) == CeilDiv(bytes, 4)
\* No usage came with what was written or drawn: it is billed as an estimate.
Estimated(u, said) ==
  IF Billable(u) = 0 /\ (said > 0 \/ u.pictures > 0)
  THEN [u EXCEPT !.input = Estimate(q.text), !.output = Estimate(said),
                 !.image = u.pictures * ImageTokens(q.model, q.size)]
  ELSE u

\* The provider read no more than was counted, wrote no more than it might, drew one
\* picture of the size and searched no more often than was held for.
KeptTo(u) ==
  /\ u.input + u.cached <= q.tokens
  /\ IF q.model.outText = 0 THEN u.output + u.image <= Limit(q)
     ELSE u.output <= Limit(q) /\ u.image <= ImageTokens(q.model, q.size)
  /\ u.queries <= MaxQueries /\ u.pictures <= 1

OpenAiAnswers ==
  /\ stage = "sent" /\ q.model.by = "openai"
  /\ \/ \E in \in Inputs, out \in {1, Limit(q)}, queries \in Queries :
          \E cached \in {0, in} :
            /\ usage' = OpenAiUsage(in, cached, out, queries)
            /\ kept' = KeptTo(usage')
     \/ usage' = NoUsage /\ kept' = FALSE
  /\ stage' = "answered" /\ content' = TRUE
  /\ UNCHANGED <<q, balance, hold, cost>>

\* An image model that wrote with a plain STOP and drew nothing is asked once more,
\* and both are billed.
Narrated(said, pictures, stop) == Draws(q.model) /\ said > 0 /\ pictures = 0 /\ stop

\* Nothing was written and nothing drawn: the reason is told instead, but for a plain
\* STOP of a model that writes.
Explained(stop) == ~stop \/ Draws(q.model)

Reports ==
  {NoUsage} \cup
  {GeminiUsage(in, cached, candidates, thoughts, image, pictures) :
     in \in Inputs, cached \in {0, 1}, candidates \in {1, AnswerTokens(q), AnswerTokens(q) + ImageTokens(q.model, q.size)},
     thoughts \in {0, ThinkingTokens(q)}, image \in {0, ImageTokens(q.model, q.size)},
     pictures \in IF Draws(q.model) THEN {0, 1} ELSE {0}}

GeminiAnswers ==
  /\ stage \in {"sent", "again"} /\ q.model.by = "gemini"
  /\ \E report \in Reports, said \in {0, 4}, stop \in BOOLEAN, queries \in Queries :
       LET both == Plus(usage, report)
           words == IF said = 0 /\ report.pictures = 0 /\ Explained(stop) THEN 4 ELSE said
       IN IF stage = "sent" /\ Narrated(said, report.pictures, stop)
          THEN stage' = "again" /\ usage' = both /\ kept' = FALSE /\ UNCHANGED content
          ELSE /\ stage' = "answered"
               /\ usage' = [Estimated(both, words) EXCEPT !.queries = queries]
               /\ kept' = (kept /\ KeptTo(usage'))
               /\ content' = (words > 0 \/ report.pictures > 0)
  /\ UNCHANGED <<q, balance, hold, cost>>

\* The account pays what was held at most; what it did not cost goes back.
Settle ==
  /\ stage = "answered"
  /\ cost' = Cost(q.model, usage)
  /\ balance' = balance + hold - Min({cost', hold})
  /\ stage' = "settled"
  /\ UNCHANGED <<q, hold, usage, kept, content>>

QuestionNext ==
  \/ \E m \in Models, text \in Texts, atts \in Attachments, most, thinking \in Wishes, live \in BOOLEAN :
       \E want \in IF m.draws \in {"sized", "lite"} THEN DOMAIN IMAGE_SIZES ELSE {DefaultSize} :
         Ask(m, text, atts, most, thinking, live, want)
  \/ ReadBalance
  \/ Hold
  \/ \E b \in Balances : OthersSpend(b)
  \/ \E flagged \in BOOLEAN : Moderate(flagged)
  \/ Fails
  \/ OpenAiAnswers
  \/ GeminiAnswers
  \/ Settle

\* ---- properties

\* What a question costs is what was held for it or less, however it was counted,
\* shortened or drawn, if the provider kept to what it was asked for; and an answer
\* that was sent is never free (billing.rs: "a request that reached the provider is
\* never free"; service.rs counts what passes the hold as a reserve that is too small).
ChargeInBounds ==
  stage = "settled" /\ kept =>
    /\ content => cost >= MinCharge
    /\ cost <= hold

=============================================================================
