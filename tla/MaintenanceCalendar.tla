------------------------- MODULE MaintenanceCalendar -------------------------
(***************************************************************************)
(* The calendar of maintenance windows (internal/maintenance): on which    *)
(* days a recurring window starts, at which instant of such a day, and     *)
(* which windows are valid at all.  The functions are pure; a behaviour    *)
(* takes one valid window and one time zone and asks day after day.        *)
(*                                                                         *)
(* Instants and days are integers, DayTicks instants a day; day 0 is the   *)
(* Monday that begins month 0.  The week has WeekLen days and the months   *)
(* the lengths MonthLens, over and over.  A zone keeps one offset until    *)
(* the instant "at" and another from then on.                              *)
(***************************************************************************)
EXTENDS Integers, Sequences, FiniteSets, FiniteSetsExt

CONSTANTS
    NoField,      \* a nil field
    NoDay,        \* nextStartDate's ok = false
    DayTicks,     \* instants of a day
    WeekLen,      \* days of a week
    MonthLens,    \* lengths of the months
    MaxSpan,      \* days the longest occurrence lasts (maxDuration)
    MaxEvery,     \* the largest RepeatEvery
    Zones,        \* the time zones
    Froms, Untils,  \* days a request may give as ValidFrom and ValidUntil
    CalendarDays  \* bound: the days 0..CalendarDays are asked about

\* A month has a week at least; no offset is more than the two days to
\* either side at which wallInstant asks for it.
ASSUME CalendarAssumption ==
    /\ {DayTicks, WeekLen, MaxSpan, MaxEvery, CalendarDays} \subseteq Nat \ {0}
    /\ MonthLens \in Seq(Nat \ {0}) /\ MonthLens # <<>>
    /\ \A i \in DOMAIN MonthLens : MonthLens[i] >= WeekLen
    /\ \A z \in Zones : z.at \in Int /\ {z.before, z.after} \subseteq (-2 * DayTicks)..(2 * DayTicks)
    /\ Froms \subseteq Nat /\ Untils \subseteq Nat
    /\ NoField \notin Int /\ NoDay \notin Int

VARIABLES cwin, czone, cday

calvars == <<cwin, czone, cday>>

MonthLast == -1
MonthLen(m) == MonthLens[(m % Len(MonthLens)) + 1]
ShortestMonth == Min({MonthLens[i] : i \in DOMAIN MonthLens})
FirstOf[m \in Nat] == IF m = 0 THEN 0 ELSE FirstOf[m - 1] + MonthLen(m - 1)
LastOf(m) == FirstOf[m] + MonthLen(m) - 1
MonthOf(d) == CHOOSE m \in 0..d : FirstOf[m] <= d /\ d <= LastOf(m)
IsoWeekday(d) == (d % WeekLen) + 1

-----------------------------------------------------------------------------
(* Time zones *)

Offset(z, t) == IF t < z.at THEN z.before ELSE z.after
Local(t, z) == t + Offset(z, t)
DateOf(t, z) == Local(t, z) \div DayTicks

\* The instant at which the clocks of z show that minute of day d.
WallInstant(d, minute, z) ==
    LET wall == d * DayTicks + minute
        offsets == {Offset(z, wall - 2 * DayTicks), Offset(z, wall + 2 * DayTicks)}
        read == {c \in {wall - o : o \in offsets} : Local(c, z) = wall}
    IN  IF read = {} THEN wall - Offset(z, wall - 2 * DayTicks) ELSE Min(read)

FromLocal(wall, z) == WallInstant(wall \div DayTicks, wall % DayTicks, z)

-----------------------------------------------------------------------------
(* Validate *)

ValidOnce(w) == w.starts # NoField /\ w.ends # NoField /\ w.ends > w.starts

\* (mutant) every day of the longest month may be chosen
ValidMonthLong(w) ==
    \/ w.mday # NoField /\ w.mweek = NoField /\ w.mwd = NoField /\ w.mday \in {MonthLast} \cup 1..(ShortestMonth + 2)
    \/ w.mday = NoField /\ w.mweek \in {MonthLast} \cup 1..(ShortestMonth \div WeekLen) /\ w.mwd \in 1..WeekLen

\* A day every month has, or the n-th weekday every month has.
ValidMonth(w) ==
    \/ w.mday # NoField /\ w.mweek = NoField /\ w.mwd = NoField /\ w.mday \in {MonthLast} \cup 1..ShortestMonth
    \/ w.mday = NoField /\ w.mweek \in {MonthLast} \cup 1..(ShortestMonth \div WeekLen) /\ w.mwd \in 1..WeekLen

ValidRecurring(w) ==
    /\ w.starts = NoField /\ w.ends = NoField
    /\ w.minute \in 0..(DayTicks - 1)
    /\ w.dur \in 1..(IF w.kind = "daily" THEN DayTicks ELSE MaxSpan * DayTicks)
    /\ w.every \in 1..MaxEvery
    /\ w.from # NoField
    /\ w.until # NoField => w.until >= w.from
    /\ IF w.kind = "weekly" THEN w.days # NoField /\ w.days # {} ELSE w.days = NoField
    /\ IF w.kind = "monthly" THEN ValidMonth(w) ELSE w.mday = NoField /\ w.mweek = NoField /\ w.mwd = NoField

Recurring(w) == w.kind \in {"daily", "weekly", "monthly"}
Validate(w) == IF w.kind = "once" THEN ValidOnce(w) ELSE Recurring(w) /\ ValidRecurring(w)

\* The recurring windows a request may describe, the valid ones among them.
RecurringWindows(durations, froms, untils) ==
    [kind: {"daily", "weekly", "monthly"}, starts: {NoField}, ends: {NoField}, minute: 0..(DayTicks - 1),
     dur: durations, every: 1..MaxEvery, days: {NoField} \cup SUBSET (1..WeekLen),
     mday: {NoField, MonthLast} \cup 1..(ShortestMonth + 1),
     mweek: {NoField, MonthLast} \cup 1..((ShortestMonth \div WeekLen) + 1),
     mwd: {NoField} \cup 1..WeekLen, from: froms, until: {NoField} \cup untils]
RawWindows == RecurringWindows({1, MaxSpan * DayTicks}, Froms, Untils)

-----------------------------------------------------------------------------
(* nextStartDate *)

Daily(w, d) ==
    LET k == d - w.from
        r == k % w.every
    IN  w.from + (IF r = 0 THEN k ELSE k + w.every - r)

\* (mutant) after a week without a chosen day, the next week is taken
WeeklyEveryWeek(w, d) ==
    LET monday == w.from + 1 - IsoWeekday(w.from)
        start == LET week == (d - monday) \div WeekLen
                     r == week % w.every
                 IN  IF r = 0 THEN d ELSE monday + (week + w.every - r) * WeekLen
        hit[x \in Int] == IF IsoWeekday(x) \in w.days THEN x ELSE hit[x + 1]
    IN  hit[start]

\* The first chosen day from d on in a week that is aligned with the anchor's.
Weekly(w, d) ==
    LET monday == w.from + 1 - IsoWeekday(w.from)
        search[x \in Int] ==
            LET week == (x - monday) \div WeekLen
                r == week % w.every
                sunday == monday + week * WeekLen + WeekLen - 1
                hits == {y \in x..sunday : IsoWeekday(y) \in w.days}
            IN  IF r # 0 THEN search[monday + (week + w.every - r) * WeekLen]
                ELSE IF hits # {} THEN Min(hits)
                ELSE search[sunday + 1]
    IN  search[d]

MonthDay(w, m) ==
    CASE w.mday # NoField -> IF w.mday = MonthLast THEN LastOf(m) ELSE FirstOf[m] + w.mday - 1
      [] w.mday = NoField /\ w.mweek = MonthLast ->
             LastOf(m) - ((IsoWeekday(LastOf(m)) - w.mwd + WeekLen) % WeekLen)
      [] w.mday = NoField /\ w.mweek # MonthLast ->
             FirstOf[m] + ((w.mwd - IsoWeekday(FirstOf[m]) + WeekLen) % WeekLen) + (w.mweek - 1) * WeekLen

Monthly(w, d) ==
    LET anchor == MonthOf(w.from)
        months == MonthOf(d) - anchor
        r == months % w.every
        search[k \in Nat] == LET c == MonthDay(w, anchor + k) IN IF c >= d THEN c ELSE search[k + w.every]
    IN  search[IF r = 0 THEN months ELSE months + w.every - r]

NextStartDate(w, day) ==
    LET d == IF day < w.from THEN w.from ELSE day
        out == CASE w.kind = "daily" -> Daily(w, d)
                 [] w.kind = "weekly" -> Weekly(w, d)
                 [] w.kind = "monthly" -> Monthly(w, d)
    IN  IF w.until # NoField /\ out > w.until THEN NoDay ELSE out

-----------------------------------------------------------------------------
CalInit ==
    /\ cwin \in {w \in RawWindows : Validate(w)}
    /\ czone \in Zones
    /\ cday = 0

\* The next day is asked about.
AskNextDay ==
    /\ cday < CalendarDays
    /\ cday' = cday + 1
    /\ UNCHANGED <<cwin, czone>>

CalNext == AskNextDay

CalSpec == CalInit /\ [][CalNext]_calvars

CalTypeOK == cwin \in RawWindows /\ Validate(cwin) /\ czone \in Zones /\ cday \in 0..CalendarDays

-----------------------------------------------------------------------------
(* Properties *)

\* What a monthly window's rule says of a day of month m.
MonthRule(w, m, d) ==
    LET dom == d - FirstOf[m] + 1
    IN  IF w.mday # NoField THEN dom = (IF w.mday = MonthLast THEN MonthLen(m) ELSE w.mday)
        ELSE /\ IsoWeekday(d) = w.mwd
             /\ IF w.mweek = MonthLast THEN d + WeekLen > LastOf(m)
                ELSE dom \in (WeekLen * (w.mweek - 1) + 1)..(WeekLen * w.mweek)

\* The window's rule: which days it names, of those from its anchor on.
Names(w, d) ==
    CASE w.kind = "daily" -> (d - w.from) % w.every = 0
      [] w.kind = "weekly" -> (d \div WeekLen - w.from \div WeekLen) % w.every = 0 /\ IsoWeekday(d) \in w.days
      [] w.kind = "monthly" -> (MonthOf(d) - MonthOf(w.from)) % w.every = 0 /\ MonthRule(w, MonthOf(d), d)

StartsOn(w, d) == d >= w.from /\ (w.until # NoField => d <= w.until) /\ Names(w, d)

\* nextStartDate (maintenance.go) returns, for every valid window and every
\* day, the first day from it on that the window's rule names: no day is
\* missed or added across weeks, months and the anchor.
NextDateRight ==
    LET out == NextStartDate(cwin, cday)
    IN  IF out = NoDay THEN cwin.until # NoField /\ \A d \in cday..cwin.until : ~StartsOn(cwin, d)
        ELSE out >= cday /\ StartsOn(cwin, out) /\ \A d \in cday..(out - 1) : ~StartsOn(cwin, d)

\* wallInstant (maintenance.go): the clocks show the window's minute for the
\* first time on that day at the instant computed; a minute the clocks leave
\* out is as late as if they had not been changed.
WallInstantRight ==
    LET wall == cday * DayTicks + cwin.minute
        shown == {t \in (wall - 2 * DayTicks)..(wall + 2 * DayTicks) : Local(t, czone) = wall}
    IN  WallInstant(cday, cwin.minute, czone) = (IF shown = {} THEN wall - czone.before ELSE Min(shown))

\* Days and instants of a recurring window are those its rule names, across
\* weeks, months, the anchor and a change of the clocks (maintenance.go).
CalendarRight == CalTypeOK /\ NextDateRight /\ WallInstantRight
=============================================================================
