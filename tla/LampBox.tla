------------------------------- MODULE LampBox -------------------------------
(***************************************************************************)
(* The lamp box of src/lampbox/main.py: one button, three modes (light     *)
(* sensor, on, off) and a lamp.  The main loop looks at the button twice   *)
(* and then sleeps 100 ms, the unit of time here; the button may change    *)
(* between any two looks.                                                  *)
(*                                                                         *)
(* strobe_enabled is False and nothing sets it, so that mode 2 is "off"    *)
(* and do_strobe() is not reached.                                         *)
(***************************************************************************)
EXTENDS Integers

CONSTANTS LampPeriod,       \* ticks_ms wraps here (2^30 in MicroPython)
          LongPress,    \* button_longpress
          MaxHold,      \* bound: how long the button is held
          Laps          \* bound: how often the ticks wrap

ASSUME LampAssumption ==
    /\ LampPeriod \in Nat /\ LongPress \in Nat \ {0} /\ Laps \in Nat
    /\ MaxHold \in LongPress .. (LampPeriod \div 2) - 1

VARIABLES ticks, laps,      \* ticks_ms(), and how often it has wrapped
          button,           \* the level of the pin
          at,               \* the look at the button that comes next
          mode, lamp,
          lastbutton, button_start, button_is_longpressed,
          held,             \* how long the press has lasted ...
          seen              \* ... when the loop last saw the button down

time == <<ticks, laps>>
press == <<lastbutton, button_start, button_is_longpressed>>
lampVars == <<time, button, at, mode, lamp, press, held, seen>>

\* The board has been up for a moment.
LampInit == /\ ticks = 1 /\ laps = 0 /\ button = FALSE /\ at = "first"
            /\ mode = 0 /\ lamp = FALSE /\ lastbutton = FALSE
            /\ button_start = 0 /\ button_is_longpressed = FALSE
            /\ held = 0 /\ seen = 0

ticks_diff(a, b) ==
    ((a - b + LampPeriod \div 2) % LampPeriod) - (LampPeriod \div 2)
-----------------------------------------------------------------------------
\* Mutant of Pressed: the start of the press is not noted again.
PressedOnce ==
    /\ lastbutton' = TRUE
    /\ button_start' = IF button_start = 0 THEN ticks ELSE button_start
    /\ button_is_longpressed' =
         (button_start' > 0 /\ ticks_diff(ticks, button_start') >= LongPress)
    /\ lamp' = (lamp /\ ~(button_is_longpressed' /\ mode = 2))

\* The button is down at the first look.
Pressed ==
    /\ lastbutton' = TRUE
    /\ button_start' = IF lastbutton THEN button_start ELSE ticks
    /\ button_is_longpressed' =
         (button_start' > 0 /\ ticks_diff(ticks, button_start') >= LongPress)
    /\ lamp' = (lamp /\ ~(button_is_longpressed' /\ mode = 2))

FirstLook ==
    /\ at = "first" /\ at' = "second"
    /\ IF button
       THEN /\ Pressed
            /\ held' = IF lastbutton THEN held ELSE 0
            /\ seen' = held'
       ELSE UNCHANGED <<press, lamp, held, seen>>
    /\ UNCHANGED <<time, button, mode>>

\* A long press ends ...
LongReleased ==
    /\ button_is_longpressed' = FALSE
    /\ mode' = IF mode = 1 THEN 2 ELSE mode
    /\ lamp' = (lamp /\ mode' # 2)

\* ... or a short one.
ShortReleased ==
    /\ mode' = (mode + 1) % 3 /\ lamp' = (mode = 0)
    /\ UNCHANGED button_is_longpressed

\* Nothing was pressed: the lamp follows the mode, or the light.
Follow ==
    /\ \E dark \in BOOLEAN : lamp' = (mode = 1 \/ (mode = 0 /\ dark))
    /\ UNCHANGED <<mode, button_is_longpressed>>

\* The second look, and the sleep.
SecondLook ==
    /\ at = "second" /\ at' = "first"
    /\ IF button THEN UNCHANGED <<mode, lamp, press>>
       ELSE /\ lastbutton' = FALSE /\ UNCHANGED button_start
            /\ IF ~lastbutton THEN Follow
               ELSE IF button_is_longpressed THEN LongReleased
               ELSE ShortReleased
    /\ lastbutton => ~button \/ held < MaxHold
    /\ held' = IF held < MaxHold THEN held + 1 ELSE held
    /\ ticks' = (ticks + 1) % LampPeriod
    /\ ticks = LampPeriod - 1 => laps < Laps
    /\ laps' = laps + (IF ticks = LampPeriod - 1 THEN 1 ELSE 0)
    /\ UNCHANGED <<button, seen>>

\* The button is pressed, is released, or bounces.
ButtonChanges ==
    /\ button' = ~button
    /\ UNCHANGED <<time, at, mode, lamp, press, held, seen>>

LampNext == FirstLook \/ SecondLook \/ ButtonChanges

LampSpec == LampInit /\ [][LampNext]_lampVars
-----------------------------------------------------------------------------
\* After every round of the loop the lamp is on in mode 1 and off in mode
\* 2, whichever press led there (main.py:90-136).
LampAgrees == at = "first" => (mode = 1 => lamp) /\ (mode = 2 => ~lamp)

\* "ms hold for longpress" (main.py:31): a press that the loop has seen
\* last for LongPress acts as a long press when it ends, and a shorter one
\* as a short press, although the ticks wrap.  A press at tick 0 is never
\* a long one, for 0 is also the program's "no press" (main.py:55).
PressByLength ==
    [][ lastbutton /\ ~lastbutton' /\ button_start # 0
          => mode' = IF seen < LongPress THEN (mode + 1) % 3
                     ELSE IF mode = 1 THEN 2 ELSE mode ]_lampVars

\* A press acts once and by its length, and the lamp is what the mode it
\* leads to says (main.py:52-154).
PressesSwitchLamp == []LampAgrees /\ PressByLength
=============================================================================
