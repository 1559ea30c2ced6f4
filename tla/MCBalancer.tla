----------------------------- MODULE MCBalancer -----------------------------
(***************************************************************************)
(* Instances of Balancer over schedules the code builds from small         *)
(* weights.                                                                *)
(***************************************************************************)
EXTENDS Balancer

\* Any width the sums fit in gives the same schedule.
S == INSTANCE Schedule WITH U32 <- 2^16

\* Two heavy targets and a light one; 5 does not divide a power of two.
TwoTwoOne == <<1, 2, 3, 1, 2>>
TwoOne == <<1, 2, 1>>

ASSUME SchedulesAreBuilt ==
    /\ TwoTwoOne = S!UpstreamSchedule(<<2, 2, 1>>)
    /\ TwoOne = S!UpstreamSchedule(<<2, 1>>)
=============================================================================
