------------------------------ MODULE Calendar ------------------------------
\* The months of a plan: dates from moments and back, a paid year cut into months, and
\* the month each note of it is for (core/src/subscription.rs, core/src/notes.rs, app's
\* lib.rs `next_reset`). A moment is a number of DayLength parts of a day since 1970,
\* where the code counts milliseconds.
EXTENDS Integers, Sequences, SequencesExt, FiniteSetsExt

CONSTANTS DayLength, Starts

ASSUME DaysAreCut == DayLength \in Nat \ {0} /\ Starts \subseteq Nat

VARIABLES
  plan,      \* the paid period a rail sold: its start, its end, and whether it is a year
  now,
  today,     \* the date of now, counted one day at a time
  months     \* the months of the plan seen so far
cvars == <<plan, now, today, months>>

\* ---- dates
Leap(y) == (y % 4 = 0 /\ y % 100 # 0) \/ y % 400 = 0
DaysInMonth(y, m) ==
  CASE m \in {4, 6, 9, 11} -> 30
    [] m = 2 /\ Leap(y) -> 29
    [] m = 2 /\ ~Leap(y) -> 28
    [] OTHER -> 31

CivilFromMs(t) ==
  LET days == t \div DayLength + 719468
      era == days \div 146097
      doe == days % 146097
      yoe == (doe - doe \div 1460 + doe \div 36524 - doe \div 146096) \div 365
      doy == doe - (365 * yoe + yoe \div 4 - yoe \div 100)
      mp == (5 * doy + 2) \div 153
      month == IF mp < 10 THEN mp + 3 ELSE mp - 9
  IN [year |-> yoe + era * 400 + (IF month <= 2 THEN 1 ELSE 0),
      month |-> month, day |-> doy - (153 * mp + 2) \div 5 + 1]

MsFromCivil(y, m, d) ==
  LET year == IF m <= 2 THEN y - 1 ELSE y
      month == IF m <= 2 THEN m + 9 ELSE m - 3
      era == year \div 400
      yoe == year - era * 400
      doy == (153 * month + 2) \div 5 + d - 1
      doe == yoe * 365 + yoe \div 4 - yoe \div 100 + doy
  IN Max({0, era * 146097 + doe - 719468}) * DayLength

\* A plausible mistake: the day runs over into the month after.

\* A day the later month does not have is its last day.
Clamped(y, m, d) == Min({d, DaysInMonth(y, m)})
AddMonths(t, n) ==
  LET at == CivilFromMs(t)
      index == at.year * 12 + at.month - 1 + n
      y == index \div 12
      m == (index % 12) + 1
  IN MsFromCivil(y, m, Clamped(y, m, at.day)) + (t % DayLength)

\* ---- the months of a plan
NoSlice == [from |-> 0, to |-> 0]

SliceAt(p, t) ==
  LET first == CivilFromMs(p.from)
      at == CivilFromMs(Max({t, p.from}))
      whole == Max({0, Min({11, (at.year - first.year) * 12 + at.month - first.month})})
      k == Max({0} \cup {i \in 1..whole : AddMonths(p.from, i) <= t})
  IN IF p.to <= t \/ p.from = 0 \/ p.from >= p.to THEN NoSlice
     ELSE IF ~p.yearly THEN [from |-> p.from, to |-> p.to]
     ELSE [from |-> AddMonths(p.from, k),
           to |-> IF k >= 11 THEN p.to ELSE Min({AddMonths(p.from, k + 1), p.to})]

EpochOf(t) == LET at == CivilFromMs(t) IN Max({0, (at.year - 2026) * 12 + at.month - 1})
EpochStart(e) == MsFromCivil(2026 + (e \div 12), (e % 12) + 1, 1)
EpochEnd(e) == EpochStart(e + 1)

PlanMonths(p) == IF p.yearly THEN 12 ELSE 1
\* A plausible mistake: the month a month of the plan begins in.
EpochsCovered_Begin(p) == [i \in 1..PlanMonths(p) |-> EpochOf(AddMonths(p.from, i - 1))]

\* The months notes are minted for: those the months of the plan end in.
EpochsCovered(p) ==
  LET ends == [i \in 1..PlanMonths(p) |-> Min({AddMonths(p.from, i), p.to})]
      more == {i \in 1..PlanMonths(p) : ends[i] <= AddMonths(p.from, i - 1)}
      n == IF more = {} THEN PlanMonths(p) ELSE Min(more) - 1
  IN [i \in 1..n |-> EpochOf(ends[i] - 1)]

\* What the app shows as the next month's begin.
NextReset(p, t) ==
  LET resets == {AddMonths(p.from, k) : k \in 1..PlanMonths(p)}
      later == {r \in resets : r > t}
  IN IF later = {} THEN 0 ELSE Min(later)

\* ---- a plan that runs
\* A rail sells a month or a year, from any moment to the same day of the last month.
Sold(from, yearly) ==
  [from |-> from, to |-> AddMonths(from, IF yearly THEN 12 ELSE 1), yearly |-> yearly]

NextDay(d) ==
  IF d.day < DaysInMonth(d.year, d.month) THEN [d EXCEPT !.day = @ + 1]
  ELSE IF d.month < 12 THEN [d EXCEPT !.day = 1, !.month = @ + 1]
  ELSE [year |-> d.year + 1, month |-> 1, day |-> 1]

CalendarInit(starts) ==
  \E from \in starts, yearly \in BOOLEAN :
    /\ plan = Sold(from, yearly)
    /\ now = from
    /\ today = CivilFromMs(from)
    /\ months = <<SliceAt(plan, from)>>

Seen(t) ==
  LET slice == SliceAt(plan, t)
  IN IF slice \in {NoSlice, Last(months)} THEN months ELSE Append(months, slice)

Passes ==
  /\ now < plan.to
  /\ now' = now + 1
  /\ today' = IF now' % DayLength = 0 THEN NextDay(today) ELSE today
  /\ months' = Seen(now')
  /\ UNCHANGED plan

\* ---- properties

\* A moment's date is the one counted a day at a time, and its midnight is found back.
DatesAreCounted ==
  /\ CivilFromMs(now) = today
  /\ MsFromCivil(today.year, today.month, today.day) = now - (now % DayLength)

\* The months seen begin with the plan, follow without gap or overlap, and hold now
\* while the plan runs.
MonthsFollow ==
  /\ months[1].from = plan.from
  /\ \A i \in 1..(Len(months) - 1) : months[i].to = months[i + 1].from
  /\ now < plan.to => Last(months).from <= now /\ now < Last(months).to
  /\ now >= plan.to => Last(months).to = plan.to

\* The month that runs has a note of its own, for the month it ends in and no
\* longer than that, and the app shows its end.
MonthsHaveNotes ==
  LET notes == EpochsCovered(plan)
      n == Len(months)
  IN /\ notes[n] = EpochOf(months[n].to - 1)
     /\ months[n].to <= EpochEnd(notes[n])
     /\ n > 1 => notes[n - 1] < notes[n]
     /\ now < plan.to => NextReset(plan, now) = months[n].to
     /\ now >= plan.to => n = Len(notes)

\* A plan bought on any day, the 29th to the 31st among them, is cut into months that
\* follow without gap or overlap; each is granted by a note of its own, and the dates
\* the app shows are theirs (subscription.rs: "`slice_at` is the whole rule").
MonthsTile == now > plan.from => DatesAreCounted /\ MonthsFollow /\ MonthsHaveNotes

=============================================================================
