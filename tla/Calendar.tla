------------------------------ MODULE Calendar ------------------------------
(***************************************************************************)
(* The calendar application (src/apps/calendar/calendar.cc): the Gregorian *)
(* arithmetic behind the month sheet, paging through the months, and the   *)
(* timer that waits for the system clock to be set.                        *)
(***************************************************************************)
EXTENDS Integers

CONSTANTS
    MinYear, MaxYear,   \* bound: the years that are paged through
    StartDate,          \* the clock when the application starts
    RealDate            \* the clock once the network has set it

VARIABLES
    year, month, day,   \* currentYear, currentMonth, currentDay
    today,              \* todayYear, todayMonth, todayDay
    clock               \* what localtime_r() would return

calVars == <<year, month, day, today, clock>>

-----------------------------------------------------------------------------
(* The month sheet *)

\* [mutant] the century rule is forgotten
EveryFourth(y) == y % 4 = 0

isLeapYear(y) == (y % 4 = 0 /\ y % 100 # 0) \/ y % 400 = 0

getDaysInMonth(y, m) ==
    IF m = 2 /\ isLeapYear(y) THEN 29
    ELSE <<31, 28, 31, 30, 31, 30, 31, 31, 30, 31, 30, 31>>[m]

\* "Simplified Zeller formula", 0 = Sunday. C's remainder may be negative and
\* is then lifted by 7, which is TLA+'s modulo.
getFirstDayOfMonth(y0, m0) ==
    LET m == IF m0 < 3 THEN m0 + 12 ELSE m0
        y == IF m0 < 3 THEN y0 - 1 ELSE y0
        c == y \div 100
        d == y % 100
    IN (d + d \div 4 + c \div 4 - 2 * c + (26 * (m + 1)) \div 10 + 1 - 1) % 7

PrevYear(y, m)  == IF m = 1 THEN y - 1 ELSE y
PrevMonth(m)    == IF m = 1 THEN 12 ELSE m - 1
NextYear(y, m)  == IF m = 12 THEN y + 1 ELSE y
NextMonth(m)    == IF m = 12 THEN 1 ELSE m + 1

\* The cell with index i of the 6 x 7 grid: its day, and whether it belongs to
\* the month before (-1), the month shown (0) or the month after (1)
Cell(y, m, i) ==
    LET firstDay == getFirstDayOfMonth(y, m)
        days == getDaysInMonth(y, m)
        prevMonthStartDay == getDaysInMonth(PrevYear(y, m), PrevMonth(m)) - firstDay + 1
    IN CASE i < firstDay -> [day |-> prevMonthStartDay + i, of |-> -1]
         [] i >= firstDay /\ i < firstDay + days -> [day |-> i - firstDay + 1, of |-> 0]
         [] OTHER -> [day |-> i - firstDay - days + 1, of |-> 1]

isToday(y, m, i) ==
    Cell(y, m, i) = [day |-> today[3], of |-> 0] /\ m = today[2] /\ y = today[1]

\* What localtime_r() returns: a day of its month. Years count from 1, where
\* C's division and TLA+'s are the same.
Dates == { t \in (MinYear .. MaxYear) \X (1 .. 12) \X (1 .. 31) :
             t[3] <= getDaysInMonth(t[1], t[2]) }

ASSUME CalendarAssumption ==
    /\ MinYear \in Nat \ {0} /\ MaxYear \in Nat
    /\ {StartDate, RealDate} \subseteq Dates

-----------------------------------------------------------------------------
(* The widget *)

CalInit ==
    /\ clock = StartDate
    /\ today = clock
    /\ year = clock[1] /\ month = clock[2] /\ day = clock[3]

\* onMouse() on the left button
LeftButton ==
    /\ year > MinYear
    /\ month' = PrevMonth(month)
    /\ year' = PrevYear(year, month)
    /\ UNCHANGED <<day, today, clock>>

\* onMouse() on the right button
RightButton ==
    /\ year < MaxYear
    /\ month' = NextMonth(month)
    /\ year' = NextYear(year, month)
    /\ UNCHANGED <<day, today, clock>>

\* [mutant] the new date is shown, but not taken over as today
TimerKeepsToday ==
    /\ year = 1970
    /\ <<year, month, day>> # clock
    /\ year' = clock[1] /\ month' = clock[2] /\ day' = clock[3]
    /\ UNCHANGED <<today, clock>>

\* Only while 1970 is shown is the clock read again.
onTimer ==
    /\ year = 1970
    /\ <<year, month, day>> # clock
    /\ year' = clock[1] /\ month' = clock[2] /\ day' = clock[3]
    /\ today' = clock
    /\ UNCHANGED clock

\* The network sets the system clock.
ClockSet ==
    /\ clock # RealDate
    /\ clock' = RealDate
    /\ UNCHANGED <<year, month, day, today>>

CalNext == LeftButton \/ RightButton \/ onTimer \/ ClockSet

CalSpec == CalInit /\ [][CalNext]_calVars

\* The window timer runs twice a second.
CalFairSpec == CalSpec /\ WF_calVars(onTimer)

-----------------------------------------------------------------------------
(* A reference calendar: days counted from 1 January of the year 1, a Monday *)

RefLeap(y) == y % 400 = 0 \/ (y % 4 = 0 /\ y % 100 # 0)

\* days of the year before the first of month m, in a common year
RefBefore == <<0, 31, 59, 90, 120, 151, 181, 212, 243, 273, 304, 334>>

DayNumber(y, m, d) ==
    365 * (y - 1) + (y - 1) \div 4 - (y - 1) \div 100 + (y - 1) \div 400
    + RefBefore[m] + (IF m > 2 /\ RefLeap(y) THEN 1 ELSE 0) + d

DateOf(y, m, cell) ==
    CASE cell.of = -1 -> DayNumber(PrevYear(y, m), PrevMonth(m), cell.day)
      [] cell.of = 0  -> DayNumber(y, m, cell.day)
      [] cell.of = 1  -> DayNumber(NextYear(y, m), NextMonth(m), cell.day)

-----------------------------------------------------------------------------
(* Properties *)

\* Every sheet is right: its 42 cells are 42 consecutive dates, each under its
\* own weekday, the month is on it completely, and the one cell marked is that
\* of today (Zeller's formula, the leap years, the days carried over from the
\* neighbours, the comparison with today's date).
SheetIsCalendar ==
    LET first == DayNumber(year, month, 1)
        sunday == first - (first % 7)
    IN /\ \A i \in 0 .. 41 : DateOf(year, month, Cell(year, month, i)) = sunday + i
       /\ Cell(year, month, 41).of = 1
       /\ \A i \in 0 .. 41 : isToday(year, month, i) <=>
             /\ <<year, month>> = <<today[1], today[2]>>
             /\ sunday + i = DayNumber(today[1], today[2], today[3])

\* A clock that is set after the start is taken over as today by the retries of
\* onTimer(), unless the user pages from 1970 into a neighbouring year first:
\* the retries ask for the year on display and end with it.
DateTaken ==
    (clock = RealDate /\ year = 1970) ~> (today = RealDate \/ year \in {1969, 1971})
=============================================================================
