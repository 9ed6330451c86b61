---------------------------- MODULE HeaterControl ---------------------------
(***************************************************************************)
(* The thermostat of picow/main.py: an endless loop that reads two buttons *)
(* and a thermistor and switches a heater.                                 *)
(*                                                                         *)
(* `now' is utime.ticks_ms(), which wraps at Period.  A pass of the loop   *)
(* has two steps, between which and after which time goes by: Buttons (the *)
(* set switch and the encoder's button) and Regulate (the thermometer and  *)
(* the heater).  What is only shown on the display is left out; that the   *)
(* display reads the temperature, whenever one of its own timers is due,   *)
(* is the choice `shown'.                                                  *)
(***************************************************************************)
EXTENDS Integers, Sequences

CONSTANTS Second, Half,  \* 1000 ms and 500 ms, in units of time
          MaxStep,       \* the longest time one step and the sleep take
          HeaterPeriod,  \* the period of the ticks
          MaxUptime,     \* bound: how long the board runs
          Temps,         \* what the thermistor may show
          Default,       \* the set point without a file (200)
          Turns,         \* the values of the encoder, r.value()
          SetPoints      \* bound: the set points the user chooses

ASSUME HeaterAssumption ==
    /\ Second \in Nat /\ Half \in Nat /\ MaxStep \in Nat \ {0}
    /\ 0 < Half /\ Half < Second
    /\ HeaterPeriod \in Nat /\ Second + MaxStep < HeaterPeriod
    /\ MaxUptime \in Nat /\ MaxStep <= MaxUptime
    /\ Temps \subseteq Int /\ Default \in Int /\ Turns \subseteq Int
    /\ SetPoints \subseteq Int /\ Default \in SetPoints

VARIABLES pc,              \* the next step of the loop
          now,             \* ticks
          uptime,          \* time since power-on
          last_temp, last_target, current_temp, target_temp, start_temp,
          ensw_status, ensw_pressed_at, ensw_longpress, heater_pause,
          heater,          \* the pin
          file,            \* savedata.json: <<set point>>, or <<>>
          age,             \* time since the thermistor was read
          ensw_held,       \* time since its button was seen down
          unsaved          \* the last save_set_temp() failed

clock == <<now, uptime>>
thermo == <<last_temp, current_temp>>
setting == <<last_target, target_temp, start_temp, file, unsaved>>
ensw == <<ensw_status, ensw_pressed_at, ensw_longpress>>
heaterVars == <<pc, clock, thermo, setting, ensw, heater_pause, heater, age,
                ensw_held>>
-----------------------------------------------------------------------------
\* The program's first lines; get_set_temp() finds no file.
BootAt(at) ==
    /\ pc = "buttons" /\ now = at /\ uptime = at
    /\ last_temp = 1 /\ last_target = 1 /\ current_temp = 1
    /\ file = <<>> /\ target_temp = Default /\ start_temp = Default
    /\ ensw_status = 0 /\ ensw_pressed_at = 0 /\ ensw_longpress = 0
    /\ heater_pause = 0 /\ heater = FALSE
    /\ age = at /\ ensw_held = 0 /\ unsaved = FALSE

HeaterInit == \E at \in 0 .. MaxStep : BootAt(at)

\* Mutant of Due: a reading is kept for two seconds.
DueLate(last) == now >= last + 2 * Second

\* get_current_temp(), line 120: the reading is older than a second.
Due(last) == now >= last + Second

\* get_current_temp() with the thermistor at t.
GetCurrentTemp(t) ==
    IF Due(last_temp)
    THEN last_temp' = now /\ current_temp' = t /\ age' = 0
    ELSE UNCHANGED <<thermo, age>>

\* Mutant of SetTarget: the old set point is written.
SetTargetOld(r, ok) ==
    /\ last_target' = now
    /\ target_temp' = r + start_temp
    /\ file' = IF ok THEN <<target_temp>> ELSE file
    /\ unsaved' = ~ok
    /\ UNCHANGED start_temp

\* The set switch: take the encoder's value and save it, which may fail.
SetTarget(r, ok) ==
    /\ last_target' = now
    /\ target_temp' = r + start_temp
    /\ file' = IF ok THEN <<r + start_temp>> ELSE file
    /\ unsaved' = ~ok
    /\ UNCHANGED start_temp

\* Mutant of EncoderDown: the time of the press is taken on every pass.
EncoderDownRestarts ==
    /\ ensw_status' = 1
    /\ ensw_pressed_at' = now
    /\ ensw_held' = IF ensw_status # 1 THEN 0 ELSE ensw_held
    /\ ensw_longpress' = IF now - ensw_pressed_at > Half THEN 1
                                                        ELSE ensw_longpress
    /\ UNCHANGED <<heater_pause, heater>>

\* The encoder's button is down.
EncoderDown ==
    /\ IF ensw_status # 1
       THEN /\ ensw_status' = 1 /\ ensw_pressed_at' = now /\ ensw_held' = 0
            /\ UNCHANGED ensw_longpress
       ELSE /\ ensw_longpress' = IF now - ensw_pressed_at > Half
                                 THEN 1 ELSE ensw_longpress
            /\ UNCHANGED <<ensw_status, ensw_pressed_at, ensw_held>>
    /\ UNCHANGED <<heater_pause, heater>>

\* The encoder's button is up: a long press toggles the pause.
EncoderUp ==
    /\ ensw_held' = 0
    /\ IF ensw_status = 1
       THEN /\ ensw_status' = 0 /\ ensw_pressed_at' = 0
            /\ ensw_longpress' = 0
            /\ IF ensw_longpress = 1
               THEN /\ heater_pause' = 1 - heater_pause
                    /\ heater' = IF heater_pause = 1 THEN heater ELSE FALSE
               ELSE UNCHANGED <<heater_pause, heater>>
       ELSE UNCHANGED <<ensw, heater_pause, heater>>

Buttons(set, down, shown, r, t, ok) ==
    /\ pc = "buttons" /\ pc' = "lcd"
    /\ IF set /\ now > Second + last_target
       THEN SetTarget(r, ok)
       ELSE UNCHANGED setting
    /\ IF down THEN EncoderDown ELSE EncoderUp
    /\ IF shown THEN GetCurrentTemp(t) ELSE UNCHANGED <<thermo, age>>
    /\ UNCHANGED clock

ReadButtons ==
  \E set, down, shown, ok \in BOOLEAN, r \in Turns, t \in Temps :
    /\ r + start_temp \in SetPoints
    /\ Buttons(set, down, shown, r, t, ok)

(***************************************************************************)
(* The timer of 100 ms does not matter to the reading, which is due after  *)
(* 1000 ms.  The comparison with the set point uses the new temperature.   *)
(***************************************************************************)
RegulateAt(t) ==
    /\ pc = "regulate" /\ pc' = "sleep"
    /\ GetCurrentTemp(t)
    /\ heater' = (current_temp' < target_temp /\ heater_pause = 0)
    /\ UNCHANGED <<clock, setting, ensw, heater_pause, ensw_held>>

Regulate == \E t \in Temps : RegulateAt(t)

\* The display, the step itself and sleep(.01) take time.
Elapse(d) ==
    /\ pc \in {"lcd", "sleep"}
    /\ pc' = IF pc = "lcd" THEN "regulate" ELSE "buttons"
    /\ uptime + d <= MaxUptime
    /\ uptime' = uptime + d
    /\ now' = (now + d) % HeaterPeriod
    /\ age' = age + d
    /\ ensw_held' = IF ensw_status = 1 THEN ensw_held + d ELSE ensw_held
    /\ UNCHANGED <<thermo, setting, ensw, heater_pause, heater>>

TimePasses == \E d \in 0 .. MaxStep : (pc = "sleep" => d > 0) /\ Elapse(d)

\* The power fails and comes back: the pin falls, the file stays.
Restart == \E at \in 0 .. MaxStep :
    /\ pc' = "buttons" /\ now' = at /\ uptime' = at
    /\ last_temp' = 1 /\ last_target' = 1 /\ current_temp' = 1
    /\ file' = file
    /\ target_temp' = IF file = <<>> THEN Default ELSE file[1]
    /\ start_temp' = target_temp'
    /\ ensw_status' = 0 /\ ensw_pressed_at' = 0 /\ ensw_longpress' = 0
    /\ heater_pause' = 0 /\ heater' = FALSE
    /\ age' = at /\ ensw_held' = 0 /\ unsaved' = FALSE

HeaterNext == ReadButtons \/ Regulate \/ TimePasses \/ Restart

HeaterSpec == HeaterInit /\ [][HeaterNext]_heaterVars
-----------------------------------------------------------------------------
\* Every variable has its type.
HeaterTypeOK ==
    /\ pc \in {"buttons", "lcd", "regulate", "sleep"}
    /\ now \in 0 .. HeaterPeriod - 1 /\ uptime \in 0 .. MaxUptime
    /\ last_temp \in 0 .. HeaterPeriod - 1 \cup {1}
    /\ ensw_status \in 0 .. 1 /\ ensw_longpress \in 0 .. 1
    /\ heater_pause \in 0 .. 1 /\ heater \in BOOLEAN
    /\ file \in {<<>>} \cup {<<v>> : v \in SetPoints}

\* "TIMER : UPDATE CURRENT TEMP" (main.py:242): the heater is never on
\* longer than a second and one pass of the loop without a new reading of
\* the thermistor, whatever the buttons and the display do meanwhile.  The
\* comparison of raw ticks keeps this promise only until they wrap.
FreshWhileHeating ==
    heater /\ uptime < HeaterPeriod => age <= Second + 2 * MaxStep

\* heater_pause (main.py:220-229, 258-266): from the release of the button
\* on, and through every pass that follows, a paused heater is off.
PausedIsOff ==
    heater_pause = 1 => ~heater

\* "long press" (main.py:198-222): the pause is toggled by the release of a
\* button that was down for more than half a second, and by every release
\* of one that was down for that long and one more pass of the loop (until
\* the ticks wrap).
LongPressToggles ==
    [][ /\ heater_pause' # heater_pause /\ ReadButtons => ensw_held > Half
        /\ ensw_held > Half + 2 * MaxStep /\ ensw_held' = 0
               /\ uptime < HeaterPeriod /\ ReadButtons =>
               heater_pause' # heater_pause ]_heaterVars

\* save_set_temp and get_set_temp (main.py:104-139): if the last save went
\* well, a power cut at any time leaves the set point as it was.
TargetSurvivesRestart ==
    [][ Restart /\ ~unsaved => target_temp' = target_temp ]_heaterVars

\* The relay is on only with a recent temperature and never in a pause,
\* however presses, power cuts and the two looks of a pass fall together
\* (main.py:104-269).
HeatsSafely == HeaterTypeOK /\ FreshWhileHeating /\ PausedIsOff
=============================================================================
