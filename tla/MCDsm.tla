------------------------------- MODULE MCDsm --------------------------------
(* Instances of Dsm: three tiles, two devices.                             *)
EXTENDS Dsm

CONSTANTS tileA, tileB, tileC

\* One device that holds two of the three tiles, or two of which both evict.
MCCapacities == {<<2, 0>>, <<1, 2>>}
\* More tasks where the state space is small.
MCMaxTasks == [k \in MCCapacities |-> IF k[2] = 0 THEN 4 ELSE 3]

MCShapes ==
    {<<<<tileB, "R">>, <<tileB, "R">>>>, <<<<tileA, "RW">>>>,
     <<<<tileA, "R">>, <<tileC, "W">>>>, <<<<tileA, "WB">>>>}
=============================================================================
