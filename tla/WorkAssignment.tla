--------------------------- MODULE WorkAssignment ---------------------------
(* AssignWorkLoads and AssignThreadMapping of the factor engine: how many    *)
(* calculation threads there are, which thread has which code, and where the *)
(* rows of a thread start in the shared result buffer.  A thread writes the  *)
(* k-th of its codes to row offset + k, while the scan thread and the file   *)
(* writer take row n for the n-th code: the two must agree, or values are    *)
(* attributed to other stocks.                                               *)
EXTENDS Integers, Sequences

CONSTANTS MaxCodes, MaxThreads, MaxCsFactors   \* bounds on the configurations

ASSUME BoundAssumption == MaxCodes \in Nat /\ MaxThreads \in Nat /\ MaxCsFactors \in Nat

VARIABLES
    codes,      \* number of codes the engine follows; code n is the number n
    allocable,  \* threads the configuration grants
    csFactors,  \* cross-sectional factor entries
    tsFactors,  \* there are time-series factor entries
    next,       \* the next code to place
    groups,     \* codes_in_asset_group_, one sequence per group
    offsets     \* asset_group_off_set_

vars == <<codes, allocable, csFactors, tsFactors, next, groups, offsets>>
config == <<codes, allocable, csFactors, tsFactors>>

AtLeastOne(n) == IF n > 1 THEN n ELSE 1

GroupCount ==
    LET threads == AtLeastOne(allocable - csFactors)
    IN  IF ~ tsFactors THEN 0 ELSE IF codes < threads THEN codes ELSE threads

Remainder == codes % GroupCount
BaseSize == codes \div GroupCount

\* The codes below it belong to the groups that have one code more.
Threshold == (BaseSize + 1) * Remainder

\* Groups and codes are numbered from 0, as in the code.
GroupOf(n) == IF n < Threshold THEN n \div (BaseSize + 1) ELSE (n - Remainder) \div BaseSize

Init ==
    /\ codes \in 0..MaxCodes /\ allocable \in 0..MaxThreads
    /\ csFactors \in 0..MaxCsFactors /\ tsFactors \in BOOLEAN
    /\ next = 0 /\ offsets = <<>>
    /\ groups = [g \in 1..GroupCount |-> <<>>]

PlaceCode ==
    /\ GroupCount > 0 /\ next < codes
    /\ groups' = [groups EXCEPT ![GroupOf(next) + 1] = Append(@, next)]
    /\ next' = next + 1
    /\ UNCHANGED <<config, offsets>>

\* Bug to detect: an offset counts its own group.
AddOffsetOfSelf ==
    /\ next = codes /\ Len(offsets) < GroupCount
    /\ LET g == Len(offsets) + 1
       IN  offsets' = Append(offsets, IF g = 1 THEN 0 ELSE offsets[g - 1] + Len(groups[g]))
    /\ UNCHANGED <<config, next, groups>>

AddOffset ==
    /\ next = codes /\ Len(offsets) < GroupCount
    /\ LET g == Len(offsets) + 1
       IN  offsets' = Append(offsets, IF g = 1 THEN 0 ELSE offsets[g - 1] + Len(groups[g - 1]))
    /\ UNCHANGED <<config, next, groups>>

Next == PlaceCode \/ AddOffset
Spec == Init /\ [][Next]_vars

-----------------------------------------------------------------------------
\* Row offset + k of the result buffer is the row of the k-th code of the
\* group, for the groups whose offset is known: every thread writes to the rows
\* that the scan thread reads as those of its codes, and to no other's.
RowsAgree ==
    \A g \in 1..Len(offsets) : \A k \in 1..Len(groups[g]) :
        offsets[g] + k - 1 = groups[g][k]

Assigned == Len(offsets) = GroupCount /\ GroupCount > 0

\* No calculation thread is started without a code, and none has two more than
\* another.
EvenSizes ==
    \A g, h \in 1 .. GroupCount : /\ Len(groups[g]) > 0
                                  /\ Len(groups[g]) <= Len(groups[h]) + 1
=============================================================================
