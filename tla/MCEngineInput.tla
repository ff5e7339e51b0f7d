--------------------------- MODULE MCEngineInput ---------------------------
(* Small configurations for module EngineInput.                              *)
EXTENDS EngineInput

Grid(start, end, interval, add, skip) ==
    [start |-> start, end |-> end, interval |-> interval, add |-> add, skip |-> skip]

\* In seconds: over the hour by minutes and half minutes, by more than an hour,
\* from before the first minute of the session, grids that do not start, and
\* grids of the opening auction.
MCSeconds ==
    {Grid(95730, end, interval, add, skip) :
        end \in {95730, 100100, 100115, 100000}, interval \in {30, 45, 60, 90},
        add \in {{}, {92500}, {100000}}, skip \in {{}, {95730, 95830}, {100000}}}
    \cup {Grid(93000, end, interval, {}, {}) :
             end \in {145700, 150000}, interval \in {1800, 3600, 5400}}
    \cup {Grid(93000, end, interval, {}, {}) : end \in {92900, 93000, 94000}, interval \in {0, 60}}
    \cup {Grid(91500, 92500, interval, add, {}) : interval \in {300, 600}, add \in {{}, {93000}}}

\* In milliseconds: below the second, and over it.
MCMilliseconds ==
    {Grid(95958500, end, interval, add, skip) :
        end \in {95959000, 100000250, 100001000}, interval \in {250, 500, 1000, 1750},
        add \in {{}, {92457123}}, skip \in {{}, {100000000}}}

MCTimesInfos == MCSeconds \cup MCMilliseconds
MCComputeTimes == {{}, {93500000, 95900000}, {100030000, 150000000}}
=============================================================================
