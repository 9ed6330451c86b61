------------------------------ MODULE HddEncoder ------------------------------
(***************************************************************************)
(* A disk motor as a rotary encoder: src/picow/hdd_encoder.py, which reads *)
(* the three coils every 100 ms.  A coil shows a voltage while the shaft   *)
(* turns under it, and nothing otherwise.  A coil is 0, 1 or 2 here (1, 2  *)
(* and 4 as last_value of the program).                                    *)
(***************************************************************************)
EXTENDS Integers

CONSTANTS MaxSkip,    \* steps the shaft may make unseen
          Overlap,    \* whether two coils may show a voltage at once
          MaxPos,     \* bound: how far the shaft is turned
          MaxCount    \* bound: how far the count goes

ASSUME HddAssumption ==
    /\ MaxSkip \in Nat /\ MaxPos \in Nat /\ MaxCount \in Nat
    /\ Overlap \in BOOLEAN

VARIABLES pos,            \* the shaft
          last_value,     \* a coil, or -1
          current_value,  \* the count
          ref,            \* where the shaft was first seen ...
          seen_at,        \* ... and last seen
          missed          \* a coil was passed unseen since then

hddVars == <<pos, last_value, current_value, ref, seen_at, missed>>

HddInit == /\ pos = 0
           /\ last_value = -1 /\ current_value = 0
           /\ ref = 0 /\ seen_at = 0 /\ missed = FALSE

\* The place the program takes the shaft to be at, if the coil there and
\* the one under the shaft show a voltage: A goes before B before C.
Place(d) == IF (pos + d) % 3 < pos % 3 THEN pos + d ELSE pos
-----------------------------------------------------------------------------
\* Mutant of Counted: two coils are mixed up in one of the branches.
CountedMixed(coil) ==
    IF last_value = -1 THEN 0
    ELSE IF last_value = (coil + 2) % 3 \/ (coil = 1 /\ last_value = 2) THEN 1
    ELSE IF last_value = (coil + 1) % 3 THEN -1 ELSE 0

\* From the coil before is forward, from the one after is backward.
Counted(coil) ==
    IF last_value = (coil + 2) % 3 THEN 1
    ELSE IF last_value = (coil + 1) % 3 THEN -1 ELSE 0

\* The program sees the shaft at p.
Seen(p) ==
    /\ ref' = IF last_value = -1 THEN p ELSE ref
    /\ seen_at' = p
    /\ missed' = (missed \/ (last_value # -1 /\ p - seen_at \notin -1 .. 1))

\* One round of the polling loop, with a voltage on one coil or two.
Poll(d) ==
    LET coil == Place(d) % 3
    IN  /\ current_value' = current_value + Counted(coil) /\ last_value' = coil
        /\ Seen(Place(d))
        /\ UNCHANGED pos

Polls == /\ current_value \in -MaxCount .. MaxCount
         /\ \E d \in IF Overlap THEN -1 .. 1 ELSE {0} : Poll(d)

\* No voltage anywhere: the shaft stands still between the coils.
Nothing == UNCHANGED hddVars

\* The shaft turns.
TurnDisk(d) ==
    /\ pos + d \in -MaxPos .. MaxPos
    /\ last_value # -1 => pos + d - seen_at \in -MaxSkip .. MaxSkip
    /\ pos' = pos + d
    /\ UNCHANGED <<last_value, current_value, ref, seen_at, missed>>

TurnForward == TurnDisk(1)
TurnBack == TurnDisk(-1)

HddNext == Polls \/ Nothing \/ TurnForward \/ TurnBack

HddSpec == HddInit /\ [][HddNext]_hddVars
-----------------------------------------------------------------------------
\* While no coil is passed unseen the count is how far the shaft has been
\* turned since it was first seen, back and forth (hdd_encoder.py:26-53).
CountsSteps ==
    last_value # -1 /\ ~missed => current_value = seen_at - ref

\* However many coils are passed unseen, the error is a number of whole
\* turns of three coils: the count never loses the phase of the motor.
ErrorIsWholeTurns ==
    last_value # -1 => (current_value - (seen_at - ref)) % 3 = 0

\* The count is exact as long as no coil is missed and never loses the phase
\* of the motor (hdd_encoder.py:26-53).
CountKeepsPhase == CountsSteps /\ ErrorIsWholeTurns
=============================================================================
