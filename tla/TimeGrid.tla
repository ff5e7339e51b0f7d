------------------------------ MODULE TimeGrid ------------------------------
(* The send times of the configuration: ParseTimesInfo reads start, end,     *)
(* interval, add and skip in seconds (93000 is 9:30:00) or in milliseconds   *)
(* (93000000), GenerateUniformHHMMSSmsTimestampList steps from start to end  *)
(* by adding to a number whose digits are HHMMSSmmm, and InitConfig merges   *)
(* the grid with the compute points of a factor set and the points at which  *)
(* OnGlobalTime is called.  The calculation threads, and the file names,     *)
(* follow these lists for the whole day.                                     *)
EXTENDS Integers, Sequences, FiniteSetsExt

CONSTANTS
    TimesInfos,     \* the configured grids: [start, end, interval, add, skip]
    ComputeTimes,   \* the configured compute points of a factor set, in ms
    GlobalStart, GlobalEnd, GlobalInterval   \* the points of OnGlobalTime

ASSUME GridAssumption ==
    /\ \A i \in TimesInfos :
          /\ i.start \in Nat /\ i.end \in Nat /\ i.interval \in Nat
          /\ i.add \subseteq Nat /\ IsFiniteSet(i.add) /\ i.skip \subseteq Nat
    /\ \A c \in ComputeTimes : c \subseteq Nat
    /\ GlobalStart \in Nat /\ GlobalEnd \in Nat /\ GlobalStart <= GlobalEnd
    /\ GlobalInterval \in Nat \ {0}

VARIABLES
    info,       \* the configured grid; after ParseTimesInfo, in milliseconds
    given,      \* history: the grid as the file has it
    computeAt,  \* compute points of the factor set
    gridStage,  \* "given", "stepping", "listed", "merged" or "fault"
    stamp,      \* time_hhmmssms, the time the loop has reached
    times,      \* the times listed so far
    allPoints   \* all_time_points_vector_, as a set

gridVars == <<info, given, computeAt, gridStage, stamp, times, allPoints>>

InitGrid ==
    /\ info \in TimesInfos /\ given = info
    /\ computeAt \in ComputeTimes
    /\ gridStage = "given" /\ stamp = 0 /\ times = {} /\ allPoints = {}

Scaled(i, unit) ==
    [start |-> i.start * unit, end |-> i.end * unit, interval |-> i.interval * unit,
     add |-> {t * unit : t \in i.add}, skip |-> {t * unit : t \in i.skip}]

\* The unit is guessed from the start: no time of a day in seconds is later.
UnitOf(i) == IF i.start <= 240000 THEN 1000 ELSE 1

\* Room is reserved for (end - start) / interval + 1 times, which divides by
\* zero or asks for a negative number (an unsigned one, far too large).  The
\* division of C++ rounds towards zero.
Quotient(a, b) == IF a >= 0 THEN a \div b ELSE - ((- a) \div b)
ReserveFaults(i) == i.interval = 0 \/ Quotient(i.end - i.start, i.interval) + 1 < 0

ParseAndReserve ==
    /\ gridStage = "given"
    /\ info' = Scaled(info, UnitOf(info))
    /\ gridStage' = IF ReserveFaults(info') THEN "fault" ELSE "stepping"
    /\ stamp' = info'.start
    /\ UNCHANGED <<given, computeAt, times, allPoints>>

\* Bug to detect: 60 minutes are not carried into the hour.
AddWithoutHours(t, delta) ==
    LET ms == (t % 1000) + delta
        s  == (t % 100000) \div 1000 + ms \div 1000
        m  == (t % 10000000) \div 100000 + s \div 60
    IN  (t \div 10000000) * 10000000 + m * 100000 + (s % 60) * 1000 + (ms % 1000)

\* AddMillisecondsToHHMMSSmsTimestamp carries from the milliseconds upwards.
AddMilliseconds(t, delta) ==
    LET ms == (t % 1000) + delta
        s  == (t % 100000) \div 1000 + ms \div 1000
        m  == (t % 10000000) \div 100000 + s \div 60
        h  == t \div 10000000 + m \div 60
    IN  h * 10000000 + (m % 60) * 100000 + (s % 60) * 1000 + (ms % 1000)

StepGrid ==
    /\ gridStage = "stepping" /\ stamp <= info.end
    /\ times' = times \cup ({stamp} \ info.skip)
    /\ stamp' = AddMilliseconds(stamp, info.interval)
    /\ UNCHANGED <<info, given, computeAt, gridStage, allPoints>>

\* The times to add come last; the list is sorted and without duplicates.
EndGrid ==
    /\ gridStage = "stepping" /\ stamp > info.end
    /\ times' = times \cup info.add
    /\ gridStage' = "listed"
    /\ UNCHANGED <<info, given, computeAt, stamp, allPoints>>

LastSend == Max(times \cup {0})

\* Compute points after the last send point are ignored.
ComputePointsKept == {t \in computeAt : t <= LastSend}

\* The points of OnGlobalTime, up to the last send point.
GlobalGrid ==
    [start |-> GlobalStart, end |-> Min({LastSend, GlobalEnd}), interval |-> GlobalInterval]

GlobalPoints ==
    LET From[t \in Nat] ==
          IF t > GlobalGrid.end THEN {} ELSE {t} \cup From[AddMilliseconds(t, GlobalInterval)]
    IN  From[GlobalStart]

MergePoints ==
    /\ gridStage = "listed"
    /\ IF ReserveFaults(GlobalGrid)
       THEN gridStage' = "fault" /\ UNCHANGED allPoints
       ELSE /\ gridStage' = "merged"
            /\ allPoints' = times \cup ComputePointsKept \cup GlobalPoints
    /\ UNCHANGED <<info, given, computeAt, stamp, times>>

NextGrid == ParseAndReserve \/ StepGrid \/ EndGrid \/ MergePoints

-----------------------------------------------------------------------------
\* Milliseconds since midnight of a time in milliseconds, and back.
Clock(t) == (t \div 10000000) * 3600000 + ((t \div 100000) % 100) * 60000 + (t % 100000)
Face(ms) == (ms \div 3600000) * 10000000 + ((ms \div 60000) % 60) * 100000 + (ms % 60000)

\* A time of the day in milliseconds: digits that a clock can show.
IsTime(t) == t <= 240000000 /\ (t \div 100000) % 100 < 60 /\ (t \div 1000) % 100 < 60

\* Six digits are seconds.
MeantUnit == IF given.start < 1000000 THEN 1000 ELSE 1
OfTheDay == IsTime(given.start * MeantUnit) /\ IsTime(given.end * MeantUnit)

\* What the configuration means, counted on the clock: every interval from
\* start to end, without what is skipped, and with what is added.
Meant ==
    LET unit == MeantUnit
        from == Clock(given.start * unit)
        last == (Clock(given.end * unit) - from) \div (given.interval * unit)
    IN  ({Face(from + n * given.interval * unit) : n \in 0..last}
            \ {t * unit : t \in given.skip}) \cup {t * unit : t \in given.add}

\* The list of a grid between two times of the day is what the configuration
\* means, across minutes and hours and in either unit.  A grid that goes
\* forward faults only when it is over before the first point of OnGlobalTime:
\* that list then goes backward.  The last of all time points is the last send
\* point: OnTimer handles every point before it stops the engine, and it stops
\* it at no other.
GridExact ==
    /\ gridStage \in {"listed", "merged"} /\ OfTheDay /\ given.end >= given.start => times = Meant
    /\ gridStage = "fault" =>
          \/ given.interval = 0 \/ given.end < given.start
          \/ LastSend < GlobalStart /\ (OfTheDay => times = Meant)
    /\ gridStage = "merged" /\ times # {} => Max(allPoints) = LastSend
=============================================================================
