---------------------------- MODULE MCActivities ----------------------------
(* Three agents, a forge of two places with a queue, and one horse.         *)
EXTENDS Activities

CONSTANTS horse, forge

MCContention == [p \in {horse, forge} |-> IF p = horse THEN "adjudicate" ELSE "queue"]
MCCapacity == [p \in {horse, forge} |-> IF p = horse THEN 1 ELSE 2]
MCTimers == [g \in Agents |-> IF g = 3 THEN 1 ELSE 0]

Wanting(h, f) == [p \in {horse, forge} |-> IF p = horse THEN h ELSE f]
Stage(ends, checkpoint) == [ends |-> ends, checkpoint |-> checkpoint]

Temper == [claims |-> Wanting(0, 1), interruptible |-> TRUE, duration |-> 6, checkpoint |-> 2,
           limit |-> 0, stages |-> <<Stage(2, 2), Stage(3, 3), Stage(6, 2)>>]
Weld == [claims |-> Wanting(0, 2), interruptible |-> TRUE, duration |-> 2, checkpoint |-> 2,
         limit |-> 2, stages |-> <<>>]
Ride == [claims |-> Wanting(1, 0), interruptible |-> FALSE, duration |-> 0, checkpoint |-> 1,
         limit |-> 0, stages |-> <<>>]

MCWorks == [g \in Agents |-> IF g = 1 THEN {Temper, Ride} ELSE IF g = 2 THEN {Weld} ELSE {Temper, Ride}]
=============================================================================
