------------------------------ MODULE MCRules ------------------------------
\* The enclave's rules that touch nothing outside their own topic: what a question may
\* cost, the months of a plan, what a payment is worth, and what a question hides among.
EXTENDS Question, Calendar, Papers, Cover

VARIABLE topic
vars == <<topic, qvars, cvars, pvars, cover>>

Topics == {"question", "calendar", "papers", "cover"}

\* Rates per Unit tokens. A text model of each provider, one that draws in sizes, one
\* that draws one size, one whose picture has no rate of its own, and one the list lacks.
Model(by, input, cached, output, outText, draws, listed) ==
  [by |-> by, input |-> input, cached |-> cached, output |-> output, outText |-> outText,
   perImage |-> 0, draws |-> draws, listed |-> listed]
MCModels ==
  {Model("gemini", 3, 1, 25, 0, "no", TRUE), Model("openai", 2, 1, 12, 0, "no", TRUE),
   Model("gemini", 5, 5, 60, 3, "sized", TRUE), Model("gemini", 2, 2, 30, 2, "lite", TRUE),
   Model("gemini", 3, 1, 30, 0, "legacy", TRUE), Model("gemini", 15, 2, 90, 0, "no", FALSE)}

Picture == [type |-> "picture", bytes |-> 2, pages |-> 0]
Pdf == [type |-> "pdf", bytes |-> 40, pages |-> 2]
MCAttachments == {<<>>, <<Pdf, Picture>>, <<Pdf, Pdf>>}
MCSizes == <<7, 16>>

\* Days about the ends of the first months of a leap year, at midnight and at noon.
Spring == {MsFromCivil(2028, d[1], d[2]) + i : i \in 0..(DayLength - 1),
           d \in {<<1, 28>>, <<1, 29>>, <<1, 30>>, <<1, 31>>, <<2, 1>>, <<2, 15>>, <<2, 28>>, <<2, 29>>, <<3, 31>>}}

MCTiers == <<10, 20>>

\* A text question to OpenAI, and a picture from Gemini.
MCKinds == {[by |-> "openai", draws |-> FALSE], [by |-> "gemini", draws |-> TRUE]}

\* Only the topic moves; the others rest where they may begin.
Init ==
  /\ topic \in Topics
  /\ QuestionInit /\ (topic # "question" => balance = Min(Balances))
  /\ CalendarInit(IF topic = "calendar" THEN Starts ELSE {Min(Starts)})
  /\ PapersInit(IF topic = "papers" THEN {"apple", "card"} ELSE {"none"})
  /\ CoverInit

Next ==
  \/ topic = "question" /\ QuestionNext /\ UNCHANGED <<topic, cvars, pvars, cover>>
  \/ topic = "calendar" /\ Passes /\ UNCHANGED <<topic, qvars, pvars, cover>>
  \/ topic = "papers" /\ PapersNext /\ UNCHANGED <<topic, qvars, cvars, cover>>
  \/ topic = "cover" /\ CoverNext /\ UNCHANGED <<topic, qvars, cvars, pvars>>

Spec == Init /\ [][Next]_vars

=============================================================================
