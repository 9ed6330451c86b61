---------------------------- MODULE ProgramProofs ----------------------------
(***************************************************************************)
(* The programs of picow/ and lampbox/, for every length of a tick, every  *)
(* period of the clock, every sequence of presses and every range of the   *)
(* encoder: the inductive invariants behind what the run "programs"        *)
(* checks, and their proofs.                                               *)
(***************************************************************************)
EXTENDS HeaterControl, Rotary, LampBox, HddEncoder, IrReceiver, TLAPS

-----------------------------------------------------------------------------
(***************************************************************************)
(* The disk motor                                                          *)
(***************************************************************************)

\* What the counting of hdd_encoder.py rests on: last_value is the coil that
\* the shaft was last seen under.
HddInv ==
    /\ pos \in Int /\ ref \in Int /\ seen_at \in Int
    /\ current_value \in Int /\ missed \in BOOLEAN
    /\ \/ last_value = -1 /\ current_value = 0
       \/ last_value = seen_at % 3
    /\ CountKeepsPhase

\* One look at the coils, with the shaft taken to be at p.
LEMMA SeenAtKeepsPhase ==
    ASSUME HddInv, NEW p \in Int,
           current_value' = current_value + Counted(p % 3),
           last_value' = p % 3, Seen(p), pos' = pos
    PROVE  HddInv'
<1>1. CASE last_value = -1
  <2>1. Counted(p % 3) = 0
    BY <1>1 DEF Counted
  <2> QED
    BY <1>1, <2>1 DEF HddInv, CountKeepsPhase, CountsSteps, ErrorIsWholeTurns,
                      Seen
<1>2. CASE last_value # -1
  <2> DEFINE e == Counted(p % 3)
             d == p - seen_at
  <2>1. seen_at \in Int /\ last_value = seen_at % 3
    BY <1>2 DEF HddInv
  <2>2. e \in -1 .. 1 /\ d \in Int
    BY <2>1 DEF Counted
  <2>3. (e - d) % 3 = 0
    BY <2>1 DEF Counted
  <2>4. d \in -1 .. 1 => e = d
    BY <2>1, <2>2, <2>3
  <2>5. /\ current_value' = current_value + e
        /\ seen_at' = seen_at + d /\ ref' = ref
    BY <1>2, <2>1 DEF Seen
  <2>6. missed' \in BOOLEAN /\ (~missed' => ~missed /\ d \in -1 .. 1)
    BY <1>2, Zenon DEF Seen
  <2>7. last_value' = seen_at' % 3 /\ seen_at' \in Int
    BY DEF Seen
  <2> HIDE DEF e, d
  <2>8. CountsSteps'
    BY <1>2, <2>1, <2>2, <2>4, <2>5, <2>6
       DEF HddInv, CountKeepsPhase, CountsSteps
  <2>9. ErrorIsWholeTurns'
    <3> DEFINE a == current_value - (seen_at - ref)
    <3>1. a % 3 = 0 /\ a \in Int
      BY <1>2 DEF HddInv, CountKeepsPhase, ErrorIsWholeTurns
    <3>2. (current_value - (seen_at - ref))' = a + (e - d)
      BY <2>1, <2>2, <2>5 DEF HddInv
    <3> QED  BY <3>1, <3>2, <2>2, <2>3 DEF ErrorIsWholeTurns
  <2> QED
    BY <1>2, <2>1, <2>2, <2>5, <2>8, <2>9, <2>6, <2>7
       DEF HddInv, CountKeepsPhase
<1> QED  BY <1>1, <1>2

\* The encoder is right about the shaft (hdd_encoder.py:26-53): however the
\* motor is turned, and although two coils may show a voltage at once, no
\* sequence of looks loses the phase, and none without a gap loses a step.
THEOREM HddCounts == HddSpec => []CountKeepsPhase
<1>1. HddInit => HddInv
  <2> SUFFICES ASSUME HddInit PROVE HddInv
    OBVIOUS
  <2>1. CountsSteps /\ ErrorIsWholeTurns
    BY DEF HddInit, CountsSteps, ErrorIsWholeTurns
  <2>2. missed \in BOOLEAN
    BY Zenon DEF HddInit
  <2> QED  BY <2>1, <2>2 DEF HddInit, HddInv, CountKeepsPhase
<1>2. HddInv /\ [HddNext]_hddVars => HddInv'
  <2> SUFFICES ASSUME HddInv, [HddNext]_hddVars PROVE HddInv'
    OBVIOUS
  <2>1. CASE Polls
    <3>1. PICK d \in -1 .. 1 : Poll(d)
      BY <2>1, HddAssumption DEF Polls
    <3>2. Place(d) \in Int
      BY <3>1 DEF Place, HddInv
    <3> QED  BY <3>1, <3>2, SeenAtKeepsPhase DEF Poll
  <2>2. ASSUME NEW d \in Int, TurnDisk(d) PROVE HddInv'
    BY <2>2 DEF TurnDisk, HddInv, CountKeepsPhase, CountsSteps,
                ErrorIsWholeTurns
  <2>3. CASE UNCHANGED hddVars
    BY <2>3 DEF hddVars, HddInv, CountKeepsPhase, CountsSteps,
                ErrorIsWholeTurns
  <2> QED
    BY <2>1, <2>2, <2>3 DEF HddNext, Nothing, TurnForward, TurnBack
<1>3. HddInv => CountKeepsPhase
  BY DEF HddInv
<1> QED  BY <1>1, <1>2, <1>3, PTL DEF HddSpec
-----------------------------------------------------------------------------
(***************************************************************************)
(* The thermostat                                                          *)
(***************************************************************************)

\* What HeaterTypeOK leaves open.
HeaterDataOK ==
    /\ last_temp \in Nat /\ last_target \in Nat
    /\ current_temp \in Int /\ target_temp \in Int /\ start_temp \in Int
    /\ ensw_pressed_at \in Nat /\ ensw_held \in Nat /\ age \in Nat
    /\ unsaved \in BOOLEAN

\* Until the ticks wrap they are the time since power-on, and the age of the
\* reading is what get_current_temp() takes it for; before the first reading
\* last_temp is 1, which is as good as a reading at that time.
TicksTellAge ==
    uptime < HeaterPeriod =>
        /\ now = uptime
        /\ \/ last_temp <= now /\ age = now - last_temp
           \/ last_temp = 1 /\ age = now

\* How long the steps of a pass since the last call of Regulate may take.
SinceRegulate == IF pc = "sleep" THEN 0
                 ELSE IF pc = "regulate" THEN 2 * MaxStep ELSE MaxStep

\* FreshWhileHeating, step by step.
FreshByStep ==
    heater /\ uptime < HeaterPeriod => age <= Second + SinceRegulate

\* How long the steps of a pass since the last look at the button may take.
SinceButtons == IF pc = "lcd" THEN 0
                ELSE IF pc = "buttons" THEN 2 * MaxStep ELSE MaxStep

\* ensw_pressed_at is never further back than the press has lasted, and until
\* the ticks wrap exactly as far; a press that is not yet a long one lasted
\* no longer than Half at the last look.
PressIsTimed ==
    /\ ensw_status = 0 => ensw_held = 0 /\ ensw_longpress = 0
    /\ ensw_longpress = 1 => ensw_held > Half
    /\ ensw_status = 1 =>
         /\ now <= ensw_pressed_at + ensw_held
         /\ uptime < HeaterPeriod =>
              /\ ensw_held = now - ensw_pressed_at
              /\ ensw_longpress = 0 => ensw_held <= Half + SinceButtons

\* get_set_temp() would find the set point that the program works with.
SavedIsTarget ==
    ~unsaved => target_temp = IF file = <<>> THEN Default ELSE file[1]

HeaterInv == /\ HeaterTypeOK /\ HeaterDataOK
             /\ TicksTellAge /\ FreshByStep /\ PausedIsOff
             /\ PressIsTimed /\ SavedIsTarget

\* The state after power-on, the first time and every other time.
LEMMA BootInv ==
    ASSUME NEW a \in 0 .. MaxStep, BootAt(a) PROVE HeaterInv
<1> USE HeaterAssumption DEF BootAt
<1>1. heater \in BOOLEAN /\ unsaved \in BOOLEAN /\ ~heater
  BY Zenon
<1>2. HeaterTypeOK /\ HeaterDataOK
  BY <1>1 DEF HeaterTypeOK, HeaterDataOK
<1>3. TicksTellAge /\ FreshByStep /\ PausedIsOff /\ PressIsTimed
  BY <1>1 DEF TicksTellAge, FreshByStep, PausedIsOff, PressIsTimed
<1>4. SavedIsTarget
  BY DEF SavedIsTarget
<1> QED  BY <1>2, <1>3, <1>4 DEF HeaterInv

\* Get_current_temp() keeps the age of the reading right, whoever calls it.
LEMMA ReadingInv ==
    ASSUME HeaterInv, NEW t \in Temps, GetCurrentTemp(t),
           UNCHANGED clock
    PROVE  /\ last_temp' \in Nat /\ current_temp' \in Int /\ age' \in Nat
           /\ last_temp' \in (0 .. HeaterPeriod - 1) \cup {1}
           /\ TicksTellAge' /\ age' <= age
           /\ uptime < HeaterPeriod => age' <= Second
<1> USE HeaterAssumption
<1>1. CASE Due(last_temp)
  BY <1>1 DEF GetCurrentTemp, HeaterInv, HeaterTypeOK, HeaterDataOK,
              TicksTellAge, clock
<1>2. CASE ~ Due(last_temp)
  BY <1>2 DEF GetCurrentTemp, Due, HeaterInv, HeaterTypeOK, HeaterDataOK,
              TicksTellAge, clock, thermo
<1> QED  BY <1>1, <1>2

\* A pass looks at the buttons: the encoder's button.
LEMMA EncoderInv ==
    ASSUME HeaterInv, pc = "buttons", pc' = "lcd", UNCHANGED clock,
           EncoderDown \/ EncoderUp
    PROVE  /\ ensw_status' \in 0 .. 1 /\ ensw_longpress' \in 0 .. 1
           /\ ensw_pressed_at' \in Nat /\ ensw_held' \in Nat
           /\ heater_pause' \in 0 .. 1 /\ heater' \in BOOLEAN
           /\ PressIsTimed' /\ PausedIsOff'
           /\ heater' => heater
<1> USE HeaterAssumption
        DEF HeaterInv, HeaterTypeOK, HeaterDataOK, PressIsTimed, PausedIsOff,
            TicksTellAge, SinceButtons, clock, ensw
<1>1. CASE EncoderDown
  <2>1. heater' = heater /\ heater_pause' = heater_pause
    BY <1>1 DEF EncoderDown
  <2>2. CASE ensw_status # 1
    BY <1>1, <2>1, <2>2 DEF EncoderDown
  <2>3. CASE ensw_status = 1
    <3>1. /\ ensw_longpress' \in 0 .. 1
          /\ ensw_longpress' = 1 => ensw_held > Half
      BY <1>1, <2>3 DEF EncoderDown
    <3>2. /\ ensw_status' = 1 /\ ensw_held' = ensw_held
          /\ ensw_pressed_at' = ensw_pressed_at
          /\ ensw_longpress' = 0 => now - ensw_pressed_at <= Half
      BY <1>1, <2>3 DEF EncoderDown
    <3> QED  BY <2>1, <2>3, <3>1, <3>2
  <2> QED  BY <2>2, <2>3
<1>2. CASE EncoderUp
  <2>1. /\ ensw_held' = 0 /\ ensw_status' = 0 /\ ensw_longpress' = 0
        /\ ensw_pressed_at' \in Nat
    <3>1. CASE ensw_status = 1
      BY <1>2, <3>1 DEF EncoderUp
    <3>2. CASE ensw_status = 0
      BY <1>2, <3>2 DEF EncoderUp
    <3> QED  BY <3>1, <3>2
  <2>2. PressIsTimed'
    BY <2>1
  <2>3. CASE ensw_status = 1 /\ ensw_longpress = 1
    <3>1. heater' \in BOOLEAN /\ (heater' => heater /\ heater_pause = 1)
      BY <1>2, <2>3, Zenon DEF EncoderUp
    <3>2. heater_pause' = 1 - heater_pause
      BY <1>2, <2>3 DEF EncoderUp
    <3> QED  BY <2>1, <2>2, <3>1, <3>2
  <2>4. CASE ~(ensw_status = 1 /\ ensw_longpress = 1)
    <3>1. UNCHANGED <<heater_pause, heater>>
      BY <1>2, <2>4 DEF EncoderUp
    <3> QED  BY <2>1, <2>2, <3>1
  <2> QED  BY <2>3, <2>4
<1> QED  BY <1>1, <1>2

\* The set switch leaves in the file what it makes of the set point, or knows
\* that it did not.
LEMMA SettingInv ==
    ASSUME HeaterInv, NEW r \in Turns, NEW ok \in BOOLEAN,
           r + start_temp \in SetPoints,
           SetTarget(r, ok) \/ UNCHANGED setting
    PROVE  /\ last_target' \in Nat /\ target_temp' \in Int
           /\ start_temp' \in Int /\ unsaved' \in BOOLEAN
           /\ file' \in {<<>>} \cup {<<v>> : v \in SetPoints}
           /\ SavedIsTarget'
<1> USE HeaterAssumption
        DEF HeaterInv, HeaterTypeOK, HeaterDataOK, SavedIsTarget, setting
<1>1. CASE SetTarget(r, ok)
  <2>1. unsaved' \in BOOLEAN /\ (~unsaved' => ok)
    BY <1>1, Zenon DEF SetTarget
  <2> QED  BY <1>1, <2>1 DEF SetTarget
<1>2. CASE UNCHANGED setting
  BY <1>2
<1> QED  BY <1>1, <1>2

\* Every step keeps what the thermostat rests on.
LEMMA HeaterStepInv ==
    HeaterInv /\ [HeaterNext]_heaterVars => HeaterInv'
<1> SUFFICES ASSUME HeaterInv, [HeaterNext]_heaterVars PROVE HeaterInv'
  OBVIOUS
<1> USE HeaterAssumption
<1>1. CASE ReadButtons
  <2>1. PICK set, down, shown, ok \in BOOLEAN, r \in Turns, t \in Temps :
           r + start_temp \in SetPoints
             /\ Buttons(set, down, shown, r, t, ok)
    BY <1>1 DEF ReadButtons
  <2>2. pc = "buttons" /\ pc' = "lcd" /\ UNCHANGED clock
    BY <2>1 DEF Buttons
  <2>3. SetTarget(r, ok) \/ UNCHANGED setting
    BY <2>1 DEF Buttons
  <2>4. EncoderDown \/ EncoderUp
    BY <2>1 DEF Buttons
  <2>5. /\ last_temp' \in Nat /\ current_temp' \in Int /\ age' \in Nat
        /\ last_temp' \in (0 .. HeaterPeriod - 1) \cup {1}
        /\ TicksTellAge' /\ age' <= age
    <3>1. CASE GetCurrentTemp(t)
      BY <3>1, <2>2, ReadingInv
    <3>2. CASE UNCHANGED <<thermo, age>>
      BY <3>2, <2>2 DEF HeaterInv, HeaterTypeOK, HeaterDataOK, TicksTellAge,
                        clock, thermo
    <3> QED  BY <2>1, <3>1, <3>2 DEF Buttons
  <2>6. /\ ensw_status' \in 0 .. 1 /\ ensw_longpress' \in 0 .. 1
        /\ ensw_pressed_at' \in Nat /\ ensw_held' \in Nat
        /\ heater_pause' \in 0 .. 1 /\ heater' \in BOOLEAN
        /\ PressIsTimed' /\ PausedIsOff'
        /\ heater' => heater
    BY <2>2, <2>4, EncoderInv
  <2>7. /\ last_target' \in Nat /\ target_temp' \in Int
        /\ start_temp' \in Int /\ unsaved' \in BOOLEAN
        /\ file' \in {<<>>} \cup {<<v>> : v \in SetPoints}
        /\ SavedIsTarget'
    BY <2>1, <2>3, SettingInv
  <2>8. HeaterTypeOK' /\ HeaterDataOK'
    BY <2>2, <2>5, <2>6, <2>7
       DEF HeaterInv, HeaterTypeOK, HeaterDataOK, clock
  <2>9. FreshByStep'
    BY <2>2, <2>5, <2>6
       DEF HeaterInv, HeaterDataOK, FreshByStep, SinceRegulate, clock
  <2> QED  BY <2>5, <2>6, <2>7, <2>8, <2>9 DEF HeaterInv
<1>2. CASE Regulate
  <2>1. PICK t \in Temps : RegulateAt(t)
    BY <1>2 DEF Regulate
  <2>2. /\ last_temp' \in Nat /\ current_temp' \in Int /\ age' \in Nat
        /\ last_temp' \in (0 .. HeaterPeriod - 1) \cup {1}
        /\ TicksTellAge'
        /\ uptime < HeaterPeriod => age' <= Second
    BY <2>1, ReadingInv DEF RegulateAt
  <2>3. heater' \in BOOLEAN /\ (heater' => heater_pause = 0)
    BY <2>1, Zenon DEF RegulateAt
  <2>4. /\ pc = "regulate" /\ pc' = "sleep"
        /\ UNCHANGED <<clock, setting, ensw, heater_pause, ensw_held>>
    BY <2>1 DEF RegulateAt
  <2>5. HeaterTypeOK' /\ HeaterDataOK'
    BY <2>2, <2>3, <2>4
       DEF HeaterInv, HeaterTypeOK, HeaterDataOK, clock, setting, ensw
  <2>6. FreshByStep' /\ PausedIsOff'
    BY <2>2, <2>3, <2>4
       DEF FreshByStep, PausedIsOff, SinceRegulate, clock
  <2>7. PressIsTimed' /\ SavedIsTarget'
    BY <2>4 DEF HeaterInv, PressIsTimed, SinceButtons, SavedIsTarget, clock,
                setting, ensw
  <2> QED  BY <2>2, <2>5, <2>6, <2>7 DEF HeaterInv
<1>3. CASE TimePasses
  <2>1. PICK d \in 0 .. MaxStep : Elapse(d)
    BY <1>3 DEF TimePasses
  <2>2. /\ now \in Nat /\ uptime \in Nat
        /\ now' \in 0 .. HeaterPeriod - 1 /\ now' <= now + d
        /\ now + d < HeaterPeriod => now' = now + d
    BY <2>1 DEF Elapse, HeaterInv, HeaterTypeOK
  <2>3. /\ UNCHANGED <<thermo, setting, ensw, heater_pause, heater>>
        /\ uptime' = uptime + d /\ uptime' <= MaxUptime /\ age' = age + d
        /\ ensw_held' = IF ensw_status = 1 THEN ensw_held + d ELSE ensw_held
        /\ \/ pc = "lcd" /\ pc' = "regulate"
           \/ pc = "sleep" /\ pc' = "buttons"
    BY <2>1 DEF Elapse
  <2>4. HeaterTypeOK' /\ HeaterDataOK'
    BY <2>2, <2>3 DEF HeaterInv, HeaterTypeOK, HeaterDataOK, thermo, setting,
                      ensw
  <2>5. TicksTellAge'
    <3>1. /\ last_temp' = last_temp /\ last_temp \in Nat /\ age \in Nat
          /\ d \in Nat /\ HeaterPeriod \in Nat
      BY <2>3 DEF HeaterInv, HeaterDataOK, thermo
    <3>2. uptime' < HeaterPeriod => uptime < HeaterPeriod /\ now' = uptime'
      BY <2>2, <2>3, <3>1 DEF HeaterInv, TicksTellAge
    <3> QED
      BY <2>2, <2>3, <3>1, <3>2 DEF HeaterInv, TicksTellAge
  <2>6. FreshByStep' /\ PausedIsOff'
    BY <2>2, <2>3 DEF HeaterInv, HeaterDataOK, FreshByStep, PausedIsOff,
                      SinceRegulate
  <2>7. PressIsTimed'
    <3>1. /\ ensw_status' = ensw_status /\ ensw_status \in 0 .. 1
          /\ ensw_pressed_at' = ensw_pressed_at /\ ensw_pressed_at \in Nat
          /\ ensw_longpress' = ensw_longpress /\ ensw_longpress \in 0 .. 1
          /\ ensw_held \in Nat /\ d \in Nat /\ HeaterPeriod \in Nat
      BY <2>3 DEF HeaterInv, HeaterTypeOK, HeaterDataOK, ensw
    <3>2. uptime' < HeaterPeriod => uptime < HeaterPeriod /\ now' = now + d
      BY <2>2, <2>3, <3>1 DEF HeaterInv, TicksTellAge
    <3>3. CASE ensw_status = 0
      BY <2>3, <3>1, <3>3 DEF HeaterInv, PressIsTimed
    <3>4. CASE ensw_status = 1
      <4>1. ensw_held' = ensw_held + d /\ now' <= ensw_pressed_at + ensw_held'
        BY <2>2, <2>3, <3>1, <3>4 DEF HeaterInv, PressIsTimed
      <4>2. ASSUME uptime' < HeaterPeriod
            PROVE  /\ ensw_held' = now' - ensw_pressed_at
                   /\ ensw_longpress = 0 => ensw_held' <= Half + SinceButtons'
        BY <2>2, <2>3, <3>1, <3>2, <3>4, <4>1, <4>2
           DEF HeaterInv, PressIsTimed, SinceButtons
      <4>3. ensw_longpress = 1 => ensw_held' > Half
        BY <3>1, <4>1 DEF HeaterInv, PressIsTimed
      <4> QED  BY <3>1, <3>4, <4>1, <4>2, <4>3 DEF PressIsTimed
    <3> QED  BY <3>1, <3>3, <3>4
  <2>8. SavedIsTarget'
    BY <2>3 DEF HeaterInv, SavedIsTarget, setting
  <2> QED  BY <2>4, <2>5, <2>6, <2>7, <2>8 DEF HeaterInv
<1>4. CASE Restart
  <2>1. PICK a \in 0 .. MaxStep :
          /\ pc' = "buttons" /\ now' = a /\ uptime' = a
          /\ last_temp' = 1 /\ last_target' = 1 /\ current_temp' = 1
          /\ ensw_status' = 0 /\ ensw_pressed_at' = 0 /\ ensw_longpress' = 0
          /\ heater_pause' = 0 /\ heater' = FALSE
          /\ age' = a /\ ensw_held' = 0 /\ unsaved' = FALSE
    BY <1>4 DEF Restart
  <2>2. heater' \in BOOLEAN /\ unsaved' \in BOOLEAN /\ ~heater'
    BY <2>1, Zenon
  <2>3. /\ file' = file /\ target_temp' \in Int /\ start_temp' = target_temp'
        /\ target_temp' = IF file = <<>> THEN Default ELSE file[1]
    BY <1>4 DEF Restart, HeaterInv, HeaterTypeOK
  <2>4. HeaterTypeOK' /\ HeaterDataOK'
    BY <2>1, <2>2, <2>3 DEF HeaterInv, HeaterTypeOK, HeaterDataOK
  <2>5. TicksTellAge' /\ FreshByStep' /\ PausedIsOff' /\ PressIsTimed'
    BY <2>1, <2>2 DEF TicksTellAge, FreshByStep, PausedIsOff, PressIsTimed
  <2>6. SavedIsTarget'
    BY <2>3 DEF SavedIsTarget
  <2> QED  BY <2>4, <2>5, <2>6 DEF HeaterInv
<1>5. CASE UNCHANGED heaterVars
  BY <1>5 DEF heaterVars, clock, thermo, setting, ensw, HeaterInv,
              HeaterTypeOK, HeaterDataOK, TicksTellAge, FreshByStep,
              SinceRegulate, PausedIsOff, PressIsTimed, SinceButtons,
              SavedIsTarget
<1> QED  BY <1>1, <1>2, <1>3, <1>4, <1>5 DEF HeaterNext

\* "TIMER : UPDATE CURRENT TEMP" and heater_pause (main.py:104-269): for any
\* length of the steps, any reading and any sequence of presses and power
\* cuts, the heater is on only with a fresh temperature (until the ticks
\* wrap) and never in a pause.
THEOREM HeaterIsSafe == HeaterSpec => []HeatsSafely
<1>1. HeaterInit => HeaterInv
  BY BootInv DEF HeaterInit
<1>2. HeaterInv => HeatsSafely
  <2> SUFFICES ASSUME HeaterInv PROVE FreshWhileHeating
    BY DEF HeaterInv, HeatsSafely
  <2> QED
    BY HeaterAssumption
       DEF HeaterInv, HeaterDataOK, FreshByStep, SinceRegulate,
           FreshWhileHeating
<1> QED  BY <1>1, <1>2, HeaterStepInv, PTL DEF HeaterSpec

\* "long press" (main.py:198-222): the pause is toggled by long presses only,
\* and by every one of them.
THEOREM HeaterLongPress == HeaterSpec => LongPressToggles
<1>1. HeaterInit => HeaterInv
  BY BootInv DEF HeaterInit
<1>2. ASSUME HeaterInv, ReadButtons, heater_pause' # heater_pause
      PROVE  ensw_held > Half
  BY <1>2 DEF HeaterInv, PressIsTimed, ReadButtons, Buttons, EncoderDown,
              EncoderUp
<1>3. ASSUME HeaterInv, ReadButtons, ensw_held > Half + 2 * MaxStep,
             ensw_held' = 0, uptime < HeaterPeriod
      PROVE  heater_pause' # heater_pause
  <2>1. pc = "buttons" /\ (EncoderDown \/ EncoderUp)
    BY <1>3 DEF ReadButtons, Buttons
  <2>2. /\ ensw_held > Half + 2 * MaxStep /\ ensw_held # 0
        /\ Half + 2 * MaxStep \in Nat /\ ensw_held \in Nat
    BY <1>3, HeaterAssumption DEF HeaterInv, HeaterDataOK
  <2>3. ensw_status = 1 /\ ensw_longpress = 1
    BY <1>3, <2>1, <2>2
       DEF HeaterInv, HeaterTypeOK, PressIsTimed, SinceButtons
  <2>4. EncoderUp
    BY <1>3, <2>1, <2>2, <2>3 DEF EncoderDown
  <2> QED
    BY <2>3, <2>4, <1>3 DEF EncoderUp, HeaterInv, HeaterTypeOK
<1> DEFINE P == /\ heater_pause' # heater_pause /\ ReadButtons
                      => ensw_held > Half
                /\ ensw_held > Half + 2 * MaxStep /\ ensw_held' = 0
                     /\ uptime < HeaterPeriod /\ ReadButtons =>
                     heater_pause' # heater_pause
<1>4. HeaterInv /\ [HeaterNext]_heaterVars => [P]_heaterVars
  BY <1>2, <1>3
<1> QED
  BY <1>1, <1>4, HeaterStepInv, PTL DEF HeaterSpec, LongPressToggles

\* save_set_temp and get_set_temp (main.py:104-139): a power cut at any time
\* leaves a set point as it was, if its save went well.
THEOREM HeaterTargetSurvives == HeaterSpec => TargetSurvivesRestart
<1>1. HeaterInit => HeaterInv
  BY BootInv DEF HeaterInit
<1>2. HeaterInv /\ [HeaterNext]_heaterVars
        => [Restart /\ ~unsaved => target_temp' = target_temp]_heaterVars
  BY DEF HeaterInv, SavedIsTarget, Restart
<1> QED
  BY <1>1, <1>2, HeaterStepInv, PTL DEF HeaterSpec, TargetSurvivesRestart
-----------------------------------------------------------------------------
(***************************************************************************)
(* The lamp box                                                            *)
(***************************************************************************)

\* The period is long enough for the longest press, and not empty.
LEMMA LampNumbers ==
    /\ LampPeriod \in Nat /\ LampPeriod > 1
    /\ LongPress \in Nat /\ MaxHold \in Nat /\ LongPress > 0
    /\ MaxHold + (LampPeriod \div 2) < LampPeriod
    /\ MaxHold < LampPeriod
  BY LampAssumption

LampDataOK ==
    /\ ticks \in 0 .. LampPeriod - 1 /\ button_start \in 0 .. LampPeriod - 1
    /\ held \in 0 .. MaxHold /\ seen \in Nat /\ mode \in 0 .. 2
    /\ lamp \in BOOLEAN /\ button_is_longpressed \in BOOLEAN
    /\ lastbutton \in BOOLEAN /\ button \in BOOLEAN

\* The ticks n after the tick b.
TicksAfter(b, n) ==
    IF b + n < LampPeriod THEN b + n ELSE b + n - LampPeriod

\* While a press lasts, its start is known and the program takes it for a
\* long one exactly if it has been seen to last for LongPress.
PressIsMeasured ==
    lastbutton =>
      /\ ticks = TicksAfter(button_start, held)
      /\ button_start # 0 => (button_is_longpressed <=> seen >= LongPress)

LampByMode == (mode = 1 => lamp) /\ (mode = 2 => ~lamp)

LampInv == LampDataOK /\ PressIsMeasured /\ LampByMode

\* ticks_diff() undoes the wrap for every press that is not too long.
LEMMA TicksDiffIsHeld ==
    ASSUME NEW b \in 0 .. LampPeriod - 1, NEW n \in 0 .. MaxHold
    PROVE  ticks_diff(TicksAfter(b, n), b) = n
<1> USE LampNumbers
<1> DEFINE h == LampPeriod \div 2
<1>1. h \in Nat /\ n + h \in 0 .. LampPeriod - 1
  OBVIOUS
<1>2. ASSUME NEW y \in 0 .. LampPeriod - 1
      PROVE  y % LampPeriod = y /\ (y - LampPeriod) % LampPeriod = y
  OBVIOUS
<1>3. CASE b + n < LampPeriod
  <2>1. TicksAfter(b, n) - b + h = n + h
    BY <1>3, <1>1 DEF TicksAfter
  <2>2. (TicksAfter(b, n) - b + h) % LampPeriod = n + h
    BY <1>1, <1>2, <2>1
  <2> QED  BY <1>1, <2>2 DEF ticks_diff
<1>4. CASE ~(b + n < LampPeriod)
  <2>1. TicksAfter(b, n) - b + h = (n + h) - LampPeriod
    BY <1>4, <1>1 DEF TicksAfter
  <2>2. (TicksAfter(b, n) - b + h) % LampPeriod = n + h
    BY <1>1, <1>2, <2>1
  <2> QED  BY <1>1, <2>2 DEF ticks_diff
<1> QED  BY <1>3, <1>4

\* A look at a button that is down.
LEMMA PressedInv ==
    ASSUME LampInv, FirstLook, button PROVE LampInv'
<1>1. /\ Pressed /\ held' = (IF lastbutton THEN held ELSE 0)
      /\ seen' = held' /\ UNCHANGED <<time, button, mode>>
  BY DEF FirstLook
<1>2. /\ lastbutton' \in BOOLEAN /\ button_is_longpressed' \in BOOLEAN
      /\ lamp' \in BOOLEAN
      /\ button_is_longpressed' <=>
           (button_start' > 0 /\ ticks_diff(ticks, button_start') >= LongPress)
      /\ lamp' <=> (lamp /\ ~(button_is_longpressed' /\ mode = 2))
  BY <1>1, Zenon DEF Pressed
<1>3. LampDataOK' /\ ticks' = ticks /\ mode' = mode
  BY <1>1, <1>2, LampNumbers
     DEF LampInv, LampDataOK, Pressed, time
<1>4. ticks' = TicksAfter(button_start', held')
  BY <1>1, LampNumbers
     DEF LampInv, LampDataOK, PressIsMeasured, TicksAfter, Pressed, time
<1>5. ticks_diff(ticks, button_start') = held'
  BY <1>3, <1>4, TicksDiffIsHeld DEF LampDataOK
<1>6. PressIsMeasured'
  BY <1>1, <1>2, <1>3, <1>4, <1>5 DEF LampDataOK, PressIsMeasured
<1>7. LampByMode'
  BY <1>2, <1>3 DEF LampInv, LampByMode
<1> QED  BY <1>3, <1>6, <1>7 DEF LampInv

\* The second look, the sleep and the tick that goes by.
LEMMA SecondLookInv ==
    ASSUME LampInv, SecondLook PROVE LampInv'
<1> USE LampNumbers
<1>1. /\ ticks' = (IF ticks = LampPeriod - 1 THEN 0 ELSE ticks + 1)
      /\ ticks' \in 0 .. LampPeriod - 1
  BY DEF SecondLook, LampInv, LampDataOK
<1>2. CASE button
  <2>1. UNCHANGED <<mode, lamp, press, button, seen>>
    BY <1>2 DEF SecondLook
  <2>2. lastbutton => held' = held + 1 /\ held < MaxHold
    BY <1>2 DEF SecondLook
  <2>3. held' \in 0 .. MaxHold
    BY DEF SecondLook, LampInv, LampDataOK
  <2>4. LampDataOK'
    BY <1>1, <2>1, <2>3 DEF LampInv, LampDataOK, press
  <2>5. lastbutton => ticks' = TicksAfter(button_start, held')
    BY <1>1, <2>2 DEF LampInv, LampDataOK, PressIsMeasured, TicksAfter
  <2>6. PressIsMeasured'
    BY <2>1, <2>5 DEF LampInv, PressIsMeasured, press
  <2> QED  BY <2>1, <2>4, <2>6 DEF LampInv, LampByMode
<1>3. CASE ~button
  <2>1. /\ lastbutton' \in BOOLEAN /\ ~lastbutton'
        /\ UNCHANGED <<button_start, button, seen>>
    BY <1>3, Zenon DEF SecondLook
  <2>2. held' \in 0 .. MaxHold
    BY DEF SecondLook, LampInv, LampDataOK
  <2>3. \/ \E dark \in BOOLEAN :
             /\ lamp' = (mode = 1 \/ (mode = 0 /\ dark))
             /\ UNCHANGED <<mode, button_is_longpressed>>
        \/ LongReleased
        \/ ShortReleased
    BY <1>3 DEF SecondLook, Follow
  <2>4. /\ mode' \in 0 .. 2 /\ lamp' \in BOOLEAN
        /\ button_is_longpressed' \in BOOLEAN /\ LampByMode'
    <3>1. ASSUME NEW dark \in BOOLEAN,
                 lamp' = (mode = 1 \/ (mode = 0 /\ dark)),
                 UNCHANGED <<mode, button_is_longpressed>>
          PROVE  /\ mode' \in 0 .. 2 /\ lamp' \in BOOLEAN
                 /\ button_is_longpressed' \in BOOLEAN /\ LampByMode'
      <4>1. lamp' \in BOOLEAN /\ (lamp' <=> mode = 1 \/ (mode = 0 /\ dark))
        BY <3>1, Zenon
      <4> QED  BY <3>1, <4>1 DEF LampInv, LampDataOK, LampByMode
    <3>2. CASE LongReleased
      <4>1. /\ lamp' \in BOOLEAN /\ button_is_longpressed' \in BOOLEAN
            /\ lamp' <=> lamp /\ mode' # 2
        BY <3>2, Zenon DEF LongReleased
      <4>2. mode' = IF mode = 1 THEN 2 ELSE mode
        BY <3>2 DEF LongReleased
      <4> QED  BY <4>1, <4>2 DEF LampInv, LampDataOK, LampByMode
    <3>3. CASE ShortReleased
      <4>1. lamp' \in BOOLEAN /\ (lamp' <=> mode = 0)
        BY <3>3, Zenon DEF ShortReleased
      <4>2. mode' = (mode + 1) % 3 /\ UNCHANGED button_is_longpressed
        BY <3>3 DEF ShortReleased
      <4> QED  BY <4>1, <4>2 DEF LampInv, LampDataOK, LampByMode
    <3> QED  BY <2>3, <3>1, <3>2, <3>3
  <2> QED
    BY <1>1, <2>1, <2>2, <2>4 DEF LampInv, LampDataOK, PressIsMeasured
<1> QED  BY <1>2, <1>3

\* "ms hold for longpress" (main.py:31, 52-154): for every period of the
\* ticks that is twice as long as a press, presses act by their length and
\* once, and the lamp follows the mode.
THEOREM LampSwitches == LampSpec => PressesSwitchLamp
<1>1. LampInit => LampInv
  <2> SUFFICES ASSUME LampInit PROVE LampInv
    OBVIOUS
  <2>1. /\ lamp \in BOOLEAN /\ button_is_longpressed \in BOOLEAN
        /\ lastbutton \in BOOLEAN /\ button \in BOOLEAN
        /\ ~lastbutton
    BY Zenon DEF LampInit
  <2> QED
    BY <2>1, LampNumbers DEF LampInit, LampInv, LampDataOK, PressIsMeasured,
                             LampByMode
<1>2. LampInv /\ [LampNext]_lampVars => LampInv'
  <2> SUFFICES ASSUME LampInv, [LampNext]_lampVars PROVE LampInv'
    OBVIOUS
  <2>1. CASE FirstLook /\ ~button
    BY <2>1 DEF FirstLook, LampInv, LampDataOK, PressIsMeasured, LampByMode,
                time, press
  <2>2. CASE ButtonChanges
    <3>1. button' \in BOOLEAN
      BY <2>2, Zenon DEF ButtonChanges
    <3> QED
      BY <2>2, <3>1 DEF ButtonChanges, LampInv, LampDataOK, PressIsMeasured,
                        LampByMode, time, press
  <2>3. CASE UNCHANGED lampVars
    BY <2>3 DEF lampVars, LampInv, LampDataOK, PressIsMeasured, LampByMode,
                time, press
  <2> QED
    BY <2>1, <2>2, <2>3, PressedInv, SecondLookInv DEF LampNext
<1>3. LampInv => LampAgrees
  BY DEF LampInv, LampByMode, LampAgrees
<1> DEFINE P == lastbutton /\ ~lastbutton' /\ button_start # 0
                  => mode' = IF seen < LongPress THEN (mode + 1) % 3
                             ELSE IF mode = 1 THEN 2 ELSE mode
<1>4. LampInv /\ [LampNext]_lampVars => [P]_lampVars
  <2> SUFFICES ASSUME LampInv, LampNext, lastbutton, ~lastbutton',
                      button_start # 0
               PROVE  P
    OBVIOUS
  <2>1. SecondLook /\ ~button
    BY DEF LampNext, FirstLook, Pressed, SecondLook, ButtonChanges, press
  <2>2. IF button_is_longpressed THEN LongReleased ELSE ShortReleased
    BY <2>1 DEF SecondLook
  <2>3. button_is_longpressed <=> ~(seen < LongPress)
    BY LampNumbers DEF LampInv, LampDataOK, PressIsMeasured
  <2> QED  BY <2>2, <2>3 DEF LongReleased, ShortReleased
<1> QED
  BY <1>1, <1>2, <1>3, <1>4, PTL
     DEF LampSpec, PressesSwitchLamp, PressByLength

-----------------------------------------------------------------------------
(***************************************************************************)
(* The rotary encoder                                                      *)
(***************************************************************************)

\* _wrap: the result is in the range, and the same modulo the range.
LEMMA WrapFacts ==
    ASSUME NEW v \in Int, NEW inc \in Int,
           NEW lower \in Int, NEW upper \in Int, lower < upper
    PROVE  LET w == Wrap(v, inc, lower, upper) IN
           /\ w \in lower .. upper
           /\ (w - v - inc) % (upper - lower + 1) = 0
<1> DEFINE r == upper - lower + 1
           moved == v + inc
           t == IF moved < lower THEN ((lower - moved) \div r) + 1 ELSE 0
           lifted == moved + (r * t)
           u == (lifted - lower) \div r
           w == lower + ((lifted - lower) % r)
<1>1. r \in Nat \ {0} /\ moved \in Int
  OBVIOUS
<1>2. t \in Int
  <2> HIDE DEF r, moved
  <2> QED  BY <1>1
<1>3. Wrap(v, inc, lower, upper) = w
  <2>1. Wrap(v, inc, lower, upper)
          = lower + (((IF moved < lower
                       THEN moved + r * ((lower - moved) \div r + 1)
                       ELSE moved) - lower) % r)
    BY DEF Wrap
  <2> HIDE DEF r, moved
  <2>2. (IF moved < lower THEN moved + r * ((lower - moved) \div r + 1)
         ELSE moved) = lifted
    <3>1. CASE moved < lower
      BY <3>1
    <3>2. CASE ~(moved < lower)
      <4>1. t = 0 /\ r * 0 = 0
        BY <1>1, <3>2
      <4> QED  BY <1>1, <3>2, <4>1
    <3> QED  BY <3>1, <3>2
  <2> QED  BY <2>1, <2>2
<1>4. lifted \in Int
  <2> HIDE DEF r, moved, t
  <2> QED  BY <1>1, <1>2
<1>5. /\ u \in Int /\ (lifted - lower) % r \in 0 .. r - 1
      /\ lifted - lower = (r * u) + ((lifted - lower) % r)
  <2> HIDE DEF r, moved, t, lifted
  <2> QED  BY <1>1, <1>4
<1>6. w - v - inc = r * (t - u)
  <2>1. w = lower + ((lifted - lower) % r) /\ lifted = moved + (r * t)
        /\ moved = v + inc
    OBVIOUS
  <2>2. (r * t) - (r * u) = r * (t - u) /\ r * t \in Int /\ r * u \in Int
    <3> HIDE DEF r, t, u
    <3> QED  BY <1>1, <1>2, <1>5
  <2> DEFINE rt == r * t
             ru == r * u
             m == (lifted - lower) % r
  <2>3. /\ rt \in Int /\ ru \in Int /\ m \in Int
        /\ lifted - lower = ru + m /\ lifted = moved + rt /\ w = lower + m
        /\ moved = v + inc /\ lifted \in Int /\ rt - ru = r * (t - u)
    <3> HIDE DEF r, t, u, w, moved, lifted
    <3> QED  BY <1>1, <1>4, <1>5, <2>1, <2>2
  <2> HIDE DEF r, moved, t, lifted, u, w, rt, ru, m
  <2>4. w - v - inc = rt - ru
    BY <2>3
  <2> QED  BY <2>3, <2>4
<1>7. (w - v - inc) % r = 0
  <2> HIDE DEF r, moved, t, lifted, u, w
  <2> QED  BY <1>1, <1>2, <1>5, <1>6
<1>8. w \in lower .. upper
  <2> DEFINE m == (lifted - lower) % r
  <2>1. w = lower + m /\ m \in 0 .. r - 1 /\ r = upper - lower + 1
    BY <1>5
  <2> HIDE DEF m, w, r
  <2> QED  BY <2>1
<1> QED  BY <1>3, <1>7, <1>8

\* _bound: the result is in the range.
LEMMA BoundFacts ==
    ASSUME NEW v \in Int, NEW inc \in Int,
           NEW lower \in Int, NEW upper \in Int, lower < upper
    PROVE  Bound(v, inc, lower, upper) \in lower .. upper
  BY DEF Bound

\* The column of a table that the pins of phase 0, 1, 2, 3 choose.
Columns == <<4, 3, 1, 2>>

\* It is the one the handler looks at.
LEMMA ColumnOf ==
    ASSUME NEW p \in Int
    PROVE  /\ p % 4 \in 0 .. 3
           /\ Pins(p) + 1 = Columns[(p % 4) + 1]
           /\ Pins(p) = 3 <=> p % 4 = 0
<1> DEFINE q == p % 4
<1>1. q \in 0 .. 3
  OBVIOUS
<1> HIDE DEF q
<1>2. Pins(p) = <<3, 2, 0, 1>>[q + 1]
  BY DEF Pins, q
<1>3. CASE q = 0  BY <1>2, <1>3 DEF Columns, q
<1>4. CASE q = 1  BY <1>2, <1>4 DEF Columns, q
<1>5. CASE q = 2  BY <1>2, <1>5 DEF Columns, q
<1>6. CASE q = 3  BY <1>2, <1>6 DEF Columns, q
<1> QED  BY <1>1, <1>3, <1>4, <1>5, <1>6

\* How far the shaft is from the last detent in each state of the tables.
FullOffset == <<0, 1, 2, 3, -1, -2, -3>>
HalfOffset == <<0, 1, -1, 0, -1, 1, 0>>
HalfBase == <<0, 0, 0, 2, 2, 2, 2>>

\* The phases, modulo 4, that the handler may have read to get to a state.
FullRead(a, q) == \/ a = 0 \/ (a \in {1, 6} /\ q = 1)
                  \/ (a \in {2, 5} /\ q = 2) \/ (a \in {3, 4} /\ q = 3)
HalfRead(a, q) == \/ a \in {0, 3} \/ (a \in {1, 4} /\ q = 1)
                  \/ (a \in {2, 5} /\ q = 3)

\* The full-step table, row by row: a state and the phase read next.
LEMMA FullTable ==
    ASSUME NEW a \in 0 .. 6, NEW q \in 0 .. 3,
           NEW n, n = TransitionTable[a + 1][Columns[q + 1]]
    PROVE  /\ n \in (0 .. 6) \cup {16, 32} /\ FullRead(n % 8, q)
           /\ n = 16 => q = 0 /\ a = 3
           /\ n = 32 => q = 0 /\ a = 6
           /\ \A h \in {-1, 0, 1} : (FullOffset[a + 1] + h) % 4 = q =>
                FullOffset[(n % 8) + 1]
                  = FullOffset[a + 1] + h - 4 * Direction(n)
<1> USE DEF TransitionTable, Start, Cw1, Cw2, Cw3, Ccw1, Ccw2, Ccw3,
            DirCw, DirCcw, Columns, FullRead, FullOffset, Direction
<1>0. CASE a = 0  BY <1>0
<1>1. CASE a = 1  BY <1>1
<1>2. CASE a = 2  BY <1>2
<1>3. CASE a = 3  BY <1>3
<1>4. CASE a = 4  BY <1>4
<1>5. CASE a = 5  BY <1>5
<1>6. CASE a = 6  BY <1>6
<1> HIDE DEF TransitionTable, Columns, FullRead, FullOffset, Direction
<1> QED BY <1>0, <1>1, <1>2, <1>3, <1>4, <1>5, <1>6

\* The half-step table, row by row.
LEMMA HalfTable ==
    ASSUME NEW a \in 0 .. 6, NEW q \in 0 .. 3,
           NEW n, n = TransitionTableHalfStep[a + 1][Columns[q + 1]]
    PROVE  /\ n \in (0 .. 5) \cup {16, 19, 32, 35} /\ HalfRead(n % 8, q)
           /\ n = 16 => q = 0 /\ a = 4
           /\ n = 19 => q = 2 /\ a = 2
           /\ n = 32 => q = 0 /\ a = 5
           /\ n = 35 => q = 2 /\ a = 1
           /\ \A h \in {-1, 0, 1} :
                (HalfBase[a + 1] + HalfOffset[a + 1] + h) % 4 = q /\ a # 6 =>
                  /\ HalfOffset[(n % 8) + 1]
                       = HalfOffset[a + 1] + h + 2 * Direction(n)
                  /\ (HalfBase[(n % 8) + 1] - HalfBase[a + 1]
                        - 2 * Direction(n)) % 4 = 0
<1> USE DEF TransitionTableHalfStep, Start, Cw1, Cw2, Cw3, Ccw1, Ccw2, Ccw3,
            DirCw, DirCcw, Columns, HalfRead, HalfOffset, HalfBase, Direction
<1>7. a = 0 \/ a = 1 \/ a = 2 \/ a = 3 \/ a = 4 \/ a = 5 \/ a = 6
  OBVIOUS
<1>8. q = 0 \/ q = 1 \/ q = 2 \/ q = 3
  OBVIOUS
<1>0. CASE a = 0  BY <1>0
<1>1. CASE a = 1
  <2>0. CASE q = 0  BY <1>1, <2>0
  <2>1. CASE q = 1  BY <1>1, <2>1
  <2>2. CASE q = 2  BY <1>1, <2>2
  <2>3. CASE q = 3  BY <1>1, <2>3
  <2> HIDE DEF TransitionTableHalfStep, Columns, HalfRead, HalfOffset,
               HalfBase, Direction
  <2> QED  BY <1>8, <2>0, <2>1, <2>2, <2>3, Zenon
<1>2. CASE a = 2  BY <1>2
<1>3. CASE a = 3  BY <1>3
<1>4. CASE a = 4
  <2>0. CASE q = 0  BY <1>4, <2>0
  <2>1. CASE q = 1  BY <1>4, <2>1
  <2>2. CASE q = 2  BY <1>4, <2>2
  <2>3. CASE q = 3  BY <1>4, <2>3
  <2> HIDE DEF TransitionTableHalfStep, Columns, HalfRead, HalfOffset,
               HalfBase, Direction
  <2> QED  BY <1>8, <2>0, <2>1, <2>2, <2>3, Zenon
<1>5. CASE a = 5
  <2>0. CASE q = 0  BY <1>5, <2>0
  <2>1. CASE q = 1  BY <1>5, <2>1
  <2>2. CASE q = 2  BY <1>5, <2>2
  <2>3. CASE q = 3  BY <1>5, <2>3
  <2> HIDE DEF TransitionTableHalfStep, Columns, HalfRead, HalfOffset,
               HalfBase, Direction
  <2> QED  BY <1>8, <2>0, <2>1, <2>2, <2>3, Zenon
<1>6. CASE a = 6  BY <1>6
<1> HIDE DEF TransitionTableHalfStep, Columns, HalfRead, HalfOffset,
             HalfBase, Direction
<1> QED
  BY <1>0, <1>1, <1>2, <1>3, <1>4, <1>5, <1>6, <1>7, Zenon

\* One step of the full-step table, from state a to n when the pins show
\* phase p: what it has read, where it counts, and how the offset changes if
\* p is h from the last phase read.
FullMoves(a, p, n) ==
    /\ n \in (0 .. 6) \cup {16, 32} /\ FullRead(n % 8, p % 4)
    /\ Direction(n) = 1 => p % 4 = 0 /\ a = 3
    /\ Direction(n) = -1 => p % 4 = 0 /\ a = 6
    /\ \A e \in Int, h \in {-1, 0, 1} :
         p = 4 * e + FullOffset[a + 1] + h =>
           FullOffset[(n % 8) + 1] = FullOffset[a + 1] + h - 4 * Direction(n)

\* Every step of the table is one.
LEMMA FullStep ==
    ASSUME NEW a \in 0 .. 6, NEW p \in Int,
           NEW n, n = TransitionTable[a + 1][Pins(p) + 1]
    PROVE  FullMoves(a, p, n)
<1> DEFINE q == p % 4
<1>1. q \in 0 .. 3 /\ n = TransitionTable[a + 1][Columns[q + 1]]
  BY ColumnOf
<1> HIDE DEF q
<1>2. /\ n \in (0 .. 6) \cup {16, 32} /\ FullRead(n % 8, q)
      /\ n = 16 => q = 0 /\ a = 3
      /\ n = 32 => q = 0 /\ a = 6
      /\ \A h \in {-1, 0, 1} : (FullOffset[a + 1] + h) % 4 = q =>
           FullOffset[(n % 8) + 1] = FullOffset[a + 1] + h - 4 * Direction(n)
  BY <1>1, FullTable
<1>3. (Direction(n) = 1 => n = 16) /\ (Direction(n) = -1 => n = 32)
  BY <1>2 DEF Direction, DirCw, DirCcw
<1>4. FullOffset[a + 1] \in Int
  BY DEF FullOffset
<1>5. ASSUME NEW e \in Int, NEW h \in {-1, 0, 1},
             p = 4 * e + FullOffset[a + 1] + h
      PROVE  (FullOffset[a + 1] + h) % 4 = q
  <2> DEFINE o == FullOffset[a + 1]
  <2>1. o \in Int /\ p = 4 * e + o + h
    BY <1>4, <1>5
  <2> HIDE DEF o
  <2>2. (o + h) % 4 = p % 4
    BY <2>1
  <2> QED  BY <2>2 DEF o, q
<1> QED  BY <1>2, <1>3, <1>5 DEF q, FullMoves

\* The same for the half-step table, where every other detent is at phase 2.
HalfMoves(a, p, n) ==
    /\ n \in (0 .. 5) \cup {16, 19, 32, 35} /\ HalfRead(n % 8, p % 4)
    /\ Direction(n) = 1 =>
         (p % 4 = 0 /\ a = 4) \/ (p % 4 = 2 /\ a = 2)
    /\ Direction(n) = -1 =>
         (p % 4 = 0 /\ a = 5) \/ (p % 4 = 2 /\ a = 1)
    /\ \A e \in Int, h \in {-1, 0, 1} :
         p = 4 * e + HalfBase[a + 1] + HalfOffset[a + 1] + h =>
           /\ HalfOffset[(n % 8) + 1]
                = HalfOffset[a + 1] + h + 2 * Direction(n)
           /\ \E f \in Int : HalfBase[(n % 8) + 1] - HalfBase[a + 1]
                               - 2 * Direction(n) = 4 * f

\* Every step of the table is one.
LEMMA HalfStep ==
    ASSUME NEW a \in 0 .. 6, NEW p \in Int, a # 6,
           NEW n, n = TransitionTableHalfStep[a + 1][Pins(p) + 1]
    PROVE  HalfMoves(a, p, n)
<1> DEFINE q == p % 4
<1>1. q \in 0 .. 3 /\ n = TransitionTableHalfStep[a + 1][Columns[q + 1]]
  BY ColumnOf
<1> HIDE DEF q
<1>2. /\ n \in (0 .. 5) \cup {16, 19, 32, 35} /\ HalfRead(n % 8, q)
      /\ n = 16 => q = 0 /\ a = 4
      /\ n = 19 => q = 2 /\ a = 2
      /\ n = 32 => q = 0 /\ a = 5
      /\ n = 35 => q = 2 /\ a = 1
      /\ \A h \in {-1, 0, 1} :
           (HalfBase[a + 1] + HalfOffset[a + 1] + h) % 4 = q /\ a # 6 =>
             /\ HalfOffset[(n % 8) + 1]
                  = HalfOffset[a + 1] + h + 2 * Direction(n)
             /\ (HalfBase[(n % 8) + 1] - HalfBase[a + 1]
                   - 2 * Direction(n)) % 4 = 0
  BY <1>1, HalfTable
<1>3. /\ Direction(n) \in {-1, 0, 1}
      /\ Direction(n) = 1 => n = 16 \/ n = 19
      /\ Direction(n) = -1 => n = 32 \/ n = 35
  BY <1>2 DEF Direction, DirCw, DirCcw
<1>4. HalfOffset[a + 1] \in Int /\ HalfBase[a + 1] \in Int
  BY DEF HalfOffset, HalfBase
<1>5. ASSUME NEW e \in Int, NEW h \in {-1, 0, 1},
             p = 4 * e + HalfBase[a + 1] + HalfOffset[a + 1] + h
      PROVE  (HalfBase[a + 1] + HalfOffset[a + 1] + h) % 4 = q
  <2> DEFINE o == HalfOffset[a + 1]
             b == HalfBase[a + 1]
  <2>1. o \in Int /\ b \in Int /\ p = 4 * e + b + o + h
    BY <1>4, <1>5
  <2> HIDE DEF o, b
  <2>2. (b + o + h) % 4 = p % 4
    BY <2>1, SMTT(30)
  <2> QED  BY <2>2 DEF o, b, q
<1>6. \A x \in Int : x % 4 = 0 => \E f \in Int : x = 4 * f
  OBVIOUS
<1>7. n % 8 \in 0 .. 5 /\ HalfBase[(n % 8) + 1] \in Int
  <2>1. /\ n \in 0 .. 5 => n % 8 = n
        /\ 16 % 8 = 0 /\ 19 % 8 = 3 /\ 32 % 8 = 0 /\ 35 % 8 = 3
    OBVIOUS
  <2>2. n % 8 \in 0 .. 5
    <3>1. n \in (0 .. 5) \cup {16, 19, 32, 35}
      BY <1>2, Zenon
    <3> QED  BY <2>1, <3>1
  <2>3. \A x \in 0 .. 5 : HalfBase[x + 1] \in Int
    BY DEF HalfBase
  <2> QED  BY <2>2, <2>3
<1>8. HalfBase[(n % 8) + 1] - HalfBase[a + 1] - 2 * Direction(n) \in Int
  BY <1>3, <1>4, <1>7
<1> QED  BY <1>2, <1>3, <1>5, <1>6, <1>8 DEF q, HalfMoves

RotaryTypes ==
    /\ RotaryTypeOK
    /\ heading \in {-1, 0, 1} /\ (edges > 0 => heading # 0)
    /\ home \in [phase : Int, value : Int]
    /\ state % 8 \in 0 .. 6 /\ (conf.half_step => state % 8 # 6)

\* The handler's state is one that its last reading of the pins leads to.
LastReading ==
    \E m \in Int :
        /\ IF conf.half_step THEN HalfRead(state % 8, (phase - m) % 4)
                             ELSE FullRead(state % 8, (phase - m) % 4)
        /\ edges = 0 => m = 0
        /\ edges = 1 => m = heading
        /\ edges = 2 => m \in {-2, 0, 2}

\* Where the shaft was when the pins were last read, if no phase was missed.
LastPhase == phase - (IF edges = 1 THEN heading ELSE 0)

\* While no phase is missed, the handler's state says how far the shaft is
\* from the last detent that was counted.
FullExact ==
    exact /\ ~conf.half_step =>
      /\ edges <= 1
      /\ \E j, k \in Int :
           /\ home.phase = 4 * j
           /\ LastPhase = home.phase + 4 * k + FullOffset[(state % 8) + 1]
           /\ conf.range_mode = "unbounded" =>
                value = home.value + Sign * conf.incr * k

HalfExact ==
    exact /\ conf.half_step =>
      /\ edges <= 1
      /\ \E j, k, e \in Int :
           /\ home.phase = 2 * j
           /\ LastPhase = home.phase + 2 * k + HalfOffset[(state % 8) + 1]
           /\ LastPhase = 4 * e + HalfBase[(state % 8) + 1]
                                + HalfOffset[(state % 8) + 1]
           /\ conf.range_mode = "unbounded" =>
                value = home.value - Sign * conf.incr * k

RotaryInv == RotaryTypes /\ LastReading /\ FullExact /\ HalfExact

\* The values of the offsets.
LEMMA Offsets ==
    ASSUME NEW a \in 0 .. 6
    PROVE  /\ FullOffset[a + 1] \in -3 .. 3
           /\ HalfOffset[a + 1] \in -1 .. 1 /\ HalfBase[a + 1] \in {0, 2}
  BY DEF FullOffset, HalfOffset, HalfBase

\* What the types say of the configuration and the numbers.
LEMMA ConfIs ==
    ASSUME RotaryTypes
    PROVE  /\ conf \in Confs
           /\ conf.half_step \in BOOLEAN
           /\ conf.incr \in Nat \ {0} /\ Sign \in {-1, 1}
           /\ conf.min_val \in Int /\ conf.max_val \in Int
           /\ conf.min_val < conf.max_val
           /\ phase \in Int /\ edges \in Nat /\ value \in Int
           /\ home.phase \in Int /\ home.value \in Int
<1>1. /\ conf \in Confs
      /\ conf \in [half_step : BOOLEAN, reverse : BOOLEAN,
                   range_mode : {"unbounded", "wrap", "bounded"},
                   incr : Nat \ {0}, min_val : Int, max_val : Int]
      /\ conf.min_val < conf.max_val
  BY RotaryAssumption DEF RotaryTypes, RotaryTypeOK
<1>2. phase \in Int /\ edges \in Nat /\ value \in Int
  BY RotaryAssumption DEF RotaryTypes, RotaryTypeOK
<1>3. home.phase \in Int /\ home.value \in Int
  BY DEF RotaryTypes
<1> QED  BY <1>1, <1>2, <1>3 DEF Sign

\* At a detent everything has been counted.
LEMMA AtRest ==
    ASSUME RotaryInv PROVE CountsDetents
<1> SUFFICES ASSUME exact, AtDetent(phase), edges = 0,
                    conf.range_mode = "unbounded"
             PROVE  value = home.value + TableSign * Sign * conf.incr
                              * ((phase - home.phase) \div DetentPhases)
  BY DEF CountsDetents
<1>1. /\ conf.half_step \in BOOLEAN /\ conf.incr \in Nat \ {0}
      /\ Sign \in {-1, 1} /\ phase \in Int /\ home.phase \in Int
      /\ home.value \in Int /\ value \in Int
  BY ConfIs DEF RotaryInv
<1>2. LastPhase = phase
  BY <1>1 DEF LastPhase
<1> DEFINE a == state % 8
<1>3. a \in 0 .. 6
  BY DEF RotaryInv, RotaryTypes
<1> DEFINE f == FullOffset[a + 1]
           g == HalfOffset[a + 1]
<1>4. f \in -3 .. 3 /\ g \in -1 .. 1
  BY <1>3, Offsets
<1>5. CASE ~conf.half_step
  <2>1. PICK j \in Int, k \in Int :
          /\ home.phase = 4 * j /\ phase = home.phase + 4 * k + f
          /\ value = home.value + Sign * conf.incr * k
    BY <1>2, <1>5 DEF RotaryInv, FullExact
  <2> HIDE DEF f, g
  <2>2. phase % 4 = 0 /\ DetentPhases = 4 /\ TableSign = 1
    BY <1>5 DEF AtDetent, DetentPhases, TableSign
  <2>3. f = 0
    BY <1>1, <1>4, <2>1, <2>2
  <2>4. (phase - home.phase) \div 4 = k
    BY <1>1, <2>1, <2>3
  <2>5. 1 * Sign * conf.incr * k = Sign * conf.incr * k
    BY <1>1
  <2> QED  BY <2>1, <2>2, <2>4, <2>5
<1>6. CASE conf.half_step
  <2>1. PICK j \in Int, k \in Int :
          /\ home.phase = 2 * j /\ phase = home.phase + 2 * k + g
          /\ value = home.value - Sign * conf.incr * k
    BY <1>2, <1>6 DEF RotaryInv, HalfExact
  <2> HIDE DEF f, g
  <2>2. phase % 2 = 0 /\ DetentPhases = 2 /\ TableSign = -1
    BY <1>6 DEF AtDetent, DetentPhases, TableSign
  <2>3. g = 0
    BY <1>1, <1>4, <2>1, <2>2
  <2>4. (phase - home.phase) \div 2 = k
    BY <1>1, <2>1, <2>3
  <2>5. home.value + (-1) * Sign * conf.incr * k
          = home.value - Sign * conf.incr * k
    BY <1>1
  <2> QED  BY <2>1, <2>2, <2>4, <2>5
<1> QED  BY <1>1, <1>5, <1>6

\* The constructor.
LEMMA RotaryInitInv == RotaryInit => RotaryInv
<1> SUFFICES ASSUME NEW c \in Confs, ConstructedWith(c) PROVE RotaryInv
  BY DEF RotaryInit
<1>1. /\ conf = c /\ phase = 0 /\ calls = 0 /\ edges = 0 /\ heading = 0
      /\ state = 0 /\ value = c.min_val /\ exact = TRUE
      /\ home = [phase |-> 0, value |-> c.min_val]
  BY DEF ConstructedWith, Start
<1>2. /\ conf \in [half_step : BOOLEAN, reverse : BOOLEAN,
                   range_mode : {"unbounded", "wrap", "bounded"},
                   incr : Nat \ {0}, min_val : Int, max_val : Int]
      /\ conf.min_val \in Int /\ conf.incr \in Nat /\ Sign \in {-1, 1}
  BY <1>1, RotaryAssumption DEF Sign
<1>3. state % 8 = 0 /\ (phase - 0) % 4 = 0 /\ LastPhase = 0
  BY <1>1 DEF LastPhase
<1>4. RotaryTypeOK
  <2>1. 0 \in {s + d : s \in Start .. Ccw3, d \in {0, DirCw, DirCcw}}
    BY DEF Start, Ccw3
  <2> QED  BY <1>1, <1>2, <2>1, RotaryAssumption DEF RotaryTypeOK
<1>5. RotaryTypes
  BY <1>1, <1>2, <1>3, <1>4 DEF RotaryTypes
<1>6. LastReading
  BY <1>1, <1>3 DEF LastReading, FullRead, HalfRead
<1>7. /\ FullOffset[(state % 8) + 1] = 0 /\ HalfOffset[(state % 8) + 1] = 0
      /\ HalfBase[(state % 8) + 1] = 0
  BY <1>3 DEF FullOffset, HalfOffset, HalfBase
<1>8. /\ home.phase = 4 * 0 /\ home.phase = 2 * 0
      /\ LastPhase = home.phase + 4 * 0 + 0
      /\ LastPhase = home.phase + 2 * 0 + 0
      /\ LastPhase = 4 * 0 + 0 + 0
      /\ value = home.value + Sign * conf.incr * 0
      /\ value = home.value - Sign * conf.incr * 0
      /\ 0 \in Int
  BY <1>1, <1>2, <1>3
<1>9. FullExact
  BY <1>1, <1>7, <1>8 DEF FullExact
<1>10. HalfExact
  BY <1>1, <1>7, <1>8 DEF HalfExact
<1> QED  BY <1>5, <1>6, <1>9, <1>10 DEF RotaryInv

\* The shaft turns.
LEMMA TurnKeeps ==
    ASSUME RotaryInv, NEW d \in {-1, 1}, TurnShaft(d) PROVE RotaryInv'
<1>1. /\ phase' = phase + d /\ edges' = edges + 1 /\ heading' = d
      /\ edges < MaxLag /\ phase + d \in -MaxPhase .. MaxPhase
      /\ conf' = conf /\ state' = state /\ value' = value /\ home' = home
      /\ exact' = (exact /\ edges = 0)
      /\ calls' = IF calls < RotaryDepth THEN calls + 1 ELSE calls
  BY DEF TurnShaft
<1>2. phase \in Int /\ edges \in Nat /\ conf.half_step \in BOOLEAN
      /\ state % 8 \in 0 .. 6
  BY ConfIs DEF RotaryInv, RotaryTypes
<1>3. RotaryTypes'
  <2>1. exact' \in BOOLEAN
    BY <1>1
  <2>2. calls' \in 0 .. RotaryDepth /\ edges' \in 0 .. MaxLag
    BY <1>1, RotaryAssumption DEF RotaryInv, RotaryTypes, RotaryTypeOK
  <2>3. RotaryTypeOK'
    BY <1>1, <2>1, <2>2 DEF RotaryInv, RotaryTypes, RotaryTypeOK
  <2> QED  BY <1>1, <2>3 DEF RotaryInv, RotaryTypes
<1>4. LastReading'
  <2>1. PICK m \in Int :
          /\ IF conf.half_step THEN HalfRead(state % 8, (phase - m) % 4)
                               ELSE FullRead(state % 8, (phase - m) % 4)
          /\ edges = 0 => m = 0
          /\ edges = 1 => m = heading
          /\ edges = 2 => m \in {-2, 0, 2}
    BY DEF RotaryInv, LastReading
  <2> DEFINE l == m + d
  <2>2. l \in Int /\ phase' - l = phase - m
    BY <1>1, <1>2
  <2>3. edges > 0 => heading \in {-1, 1}
    BY DEF RotaryInv, RotaryTypes
  <2>4. /\ edges' # 0 /\ (edges' = 1 => l = heading')
        /\ edges' = 2 => l \in {-2, 0, 2}
    BY <1>1, <1>2, <2>1, <2>3
  <2> HIDE DEF l
  <2>5. IF conf'.half_step THEN HalfRead(state' % 8, (phase' - l) % 4)
                           ELSE FullRead(state' % 8, (phase' - l) % 4)
    BY <1>1, <2>1, <2>2
  <2> QED  BY <2>2, <2>4, <2>5 DEF LastReading
<1>5. ASSUME exact'
      PROVE  /\ exact /\ edges = 0 /\ edges' = 1
             /\ LastPhase' = phase /\ LastPhase = phase
  <2>1. exact /\ edges = 0
    BY <1>1, <1>5, Zenon
  <2> QED  BY <1>1, <1>2, <2>1 DEF LastPhase
<1>6. Sign' = Sign
  BY <1>1 DEF Sign
<1>7. FullExact'
  <2> SUFFICES ASSUME exact', ~conf'.half_step PROVE FullExact'
    BY DEF FullExact
  <2>1. exact /\ ~conf.half_step /\ LastPhase' = LastPhase /\ edges' = 1
    BY <1>1, <1>5
  <2>2. PICK j \in Int, k \in Int :
           /\ home.phase = 4 * j
           /\ LastPhase = home.phase + 4 * k + FullOffset[(state % 8) + 1]
           /\ conf.range_mode = "unbounded" =>
                value = home.value + Sign * conf.incr * k
    BY <2>1 DEF RotaryInv, FullExact
  <2> QED  BY <1>1, <1>6, <2>1, <2>2 DEF FullExact
<1>8. HalfExact'
  <2> SUFFICES ASSUME exact', conf'.half_step PROVE HalfExact'
    BY DEF HalfExact
  <2>1. exact /\ conf.half_step /\ LastPhase' = LastPhase /\ edges' = 1
    BY <1>1, <1>5
  <2>2. PICK j \in Int, k \in Int, e \in Int :
           /\ home.phase = 2 * j
           /\ LastPhase = home.phase + 2 * k + HalfOffset[(state % 8) + 1]
           /\ LastPhase = 4 * e + HalfBase[(state % 8) + 1]
                                + HalfOffset[(state % 8) + 1]
           /\ conf.range_mode = "unbounded" =>
                value = home.value - Sign * conf.incr * k
    BY <2>1 DEF RotaryInv, HalfExact
  <2>3. /\ home'.phase = 2 * j
        /\ LastPhase' = home'.phase + 2 * k + HalfOffset[(state' % 8) + 1]
        /\ LastPhase' = 4 * e + HalfBase[(state' % 8) + 1]
                              + HalfOffset[(state' % 8) + 1]
        /\ conf'.range_mode = "unbounded" =>
             value' = home'.value - Sign' * conf'.incr * k
    BY <1>1, <1>6, <2>1, <2>2
  <2>4. edges' <= 1
    BY <2>1
  <2> QED  BY <2>3, <2>4 DEF HalfExact
<1> QED  BY <1>3, <1>4, <1>7, <1>8 DEF RotaryInv

\* set() starts the counting anew, from the state Start.
LEMMA SetKeeps ==
    ASSUME RotaryInv, NEW v \in SetValues, Set(v) PROVE RotaryInv'
<1>1. /\ value' = v /\ state' = 0 /\ conf' = conf /\ phase' = phase
      /\ calls' = calls /\ edges' = edges /\ heading' = heading
      /\ home' = [phase |-> phase, value |-> v]
      /\ exact' = (Pins(phase) = 3 /\ edges = 0)
  BY DEF Set, Start
<1>2. /\ phase \in Int /\ edges \in Nat /\ conf.half_step \in BOOLEAN
      /\ v \in Int /\ heading \in {-1, 0, 1} /\ conf.incr \in Nat
      /\ Sign \in {-1, 1}
  BY ConfIs, RotaryAssumption DEF RotaryInv, RotaryTypes
<1>3. state' % 8 = 0 /\ home'.phase = phase /\ home'.value = v
  BY <1>1
<1>4. RotaryTypes'
  <2>1. 0 \in {s + d : s \in Start .. Ccw3, d \in {0, DirCw, DirCcw}}
    BY DEF Start, Ccw3
  <2>2. exact' \in BOOLEAN
    BY <1>1
  <2>3. RotaryTypeOK'
    BY <1>1, <1>2, <1>3, <2>1, <2>2 DEF RotaryInv, RotaryTypes, RotaryTypeOK
  <2> QED  BY <1>1, <1>2, <1>3, <2>3 DEF RotaryInv, RotaryTypes
<1>5. LastReading'
  <2> DEFINE m == IF edges = 1 THEN heading ELSE 0
  <2>1. m \in Int /\ (edges = 0 => m = 0) /\ (edges = 1 => m = heading)
        /\ (edges = 2 => m \in {-2, 0, 2})
    BY <1>2
  <2> HIDE DEF m
  <2>2. FullRead(state' % 8, (phase' - m) % 4)
        /\ HalfRead(state' % 8, (phase' - m) % 4)
    BY <1>3 DEF FullRead, HalfRead
  <2> QED  BY <1>1, <2>1, <2>2 DEF LastReading
<1>6. /\ FullOffset[(state' % 8) + 1] = 0 /\ HalfOffset[(state' % 8) + 1] = 0
      /\ HalfBase[(state' % 8) + 1] = 0
  BY <1>3 DEF FullOffset, HalfOffset, HalfBase
<1>7. ASSUME exact'
      PROVE  /\ edges' = 0 /\ LastPhase' = phase
             /\ \E j \in Int : phase = 4 * j
  <2>1. edges = 0 /\ phase % 4 = 0
    BY <1>1, <1>2, <1>7, ColumnOf
  <2> QED  BY <1>1, <1>2, <2>1 DEF LastPhase
<1>8. /\ phase = phase + 4 * 0 + 0 /\ phase = phase + 2 * 0 + 0
      /\ v = v + Sign * conf.incr * 0 /\ v = v - Sign * conf.incr * 0
      /\ 0 \in Int /\ Sign' = Sign
  BY <1>1, <1>2 DEF Sign
<1>9. FullExact'
  <2> SUFFICES ASSUME exact' PROVE FullExact'
    BY DEF FullExact
  <2>1. PICK j \in Int : phase = 4 * j
    BY <1>7
  <2> QED  BY <1>1, <1>3, <1>6, <1>7, <1>8, <2>1 DEF FullExact
<1>10. HalfExact'
  <2> SUFFICES ASSUME exact' PROVE HalfExact'
    BY DEF HalfExact
  <2>1. PICK e \in Int : phase = 4 * e
    BY <1>7
  <2> DEFINE j == 2 * e
  <2>2. j \in Int /\ phase = 2 * j /\ phase = 4 * e + 0 + 0
    BY <2>1
  <2> HIDE DEF j
  <2> QED  BY <1>1, <1>3, <1>6, <1>7, <1>8, <2>1, <2>2 DEF HalfExact
<1> QED  BY <1>4, <1>5, <1>9, <1>10 DEF RotaryInv

\* reset() starts the counting anew, from the state as it is.
LEMMA ResetKeeps ==
    ASSUME RotaryInv, Reset PROVE RotaryInv'
<1>1. /\ value' = 0 /\ state' = state /\ conf' = conf /\ phase' = phase
      /\ calls' = calls /\ edges' = edges /\ heading' = heading
      /\ home' = [phase |-> phase, value |-> 0]
      /\ exact' = (exact /\ AtDetent(phase) /\ edges = 0)
  BY DEF Reset
<1>2. /\ phase \in Int /\ edges \in Nat /\ conf.half_step \in BOOLEAN
      /\ conf.incr \in Nat /\ Sign \in {-1, 1} /\ home.phase \in Int
  BY ConfIs DEF RotaryInv
<1>3. home'.phase = phase /\ home'.value = 0
  BY <1>1
<1>4. RotaryTypes'
  <2>1. exact' \in BOOLEAN
    BY <1>1
  <2>2. RotaryTypeOK'
    BY <1>1, <1>3, <2>1 DEF RotaryInv, RotaryTypes, RotaryTypeOK
  <2> QED  BY <1>1, <1>2, <1>3, <2>2 DEF RotaryInv, RotaryTypes
<1>5. LastReading'
  BY <1>1 DEF RotaryInv, LastReading
<1> DEFINE a == state % 8
           f == FullOffset[a + 1]
           g == HalfOffset[a + 1]
           b == HalfBase[a + 1]
<1>6. a \in 0 .. 6
  BY DEF RotaryInv, RotaryTypes
<1>7. f \in -3 .. 3 /\ g \in -1 .. 1 /\ b \in {0, 2}
  BY <1>6, Offsets
<1>8. /\ 0 = 0 + Sign * conf.incr * 0 /\ 0 = 0 - Sign * conf.incr * 0
      /\ 0 \in Int /\ Sign' = Sign
  BY <1>1, <1>2 DEF Sign
<1>9. ASSUME exact'
      PROVE  /\ exact /\ edges = 0 /\ edges' = 0 /\ AtDetent(phase)
             /\ LastPhase = phase /\ LastPhase' = phase
  <2>1. exact /\ edges = 0 /\ AtDetent(phase)
    BY <1>1, <1>9, Zenon
  <2> QED  BY <1>1, <1>2, <2>1 DEF LastPhase
<1>10. FullExact'
  <2> SUFFICES ASSUME exact', ~conf'.half_step PROVE FullExact'
    BY DEF FullExact
  <2>1. PICK j \in Int, k \in Int :
          home.phase = 4 * j /\ phase = home.phase + 4 * k + f
    BY <1>1, <1>9 DEF RotaryInv, FullExact
  <2>2. phase % 4 = 0
    BY <1>1, <1>9 DEF AtDetent, DetentPhases
  <2> HIDE DEF f, g, b
  <2>3. f = 0
    BY <1>2, <1>7, <2>1, <2>2
  <2> DEFINE i == j + k
  <2>4. i \in Int /\ phase = 4 * i /\ phase = phase + 4 * 0 + f
    BY <1>2, <2>1, <2>3
  <2> HIDE DEF i
  <2> QED  BY <1>1, <1>3, <1>8, <1>9, <2>4 DEF FullExact, f
<1>11. HalfExact'
  <2> SUFFICES ASSUME exact', conf'.half_step PROVE HalfExact'
    BY DEF HalfExact
  <2>1. PICK j \in Int, k \in Int, e \in Int :
          /\ home.phase = 2 * j /\ phase = home.phase + 2 * k + g
          /\ phase = 4 * e + b + g
    BY <1>1, <1>9 DEF RotaryInv, HalfExact
  <2>2. phase % 2 = 0
    BY <1>1, <1>9 DEF AtDetent, DetentPhases
  <2> HIDE DEF f, g, b
  <2>3. g = 0
    BY <1>2, <1>7, <2>1, <2>2
  <2> DEFINE i == j + k
  <2>4. /\ i \in Int /\ phase = 2 * i /\ phase = phase + 2 * 0 + g
    BY <1>2, <2>1, <2>3
  <2> HIDE DEF i
  <2> QED  BY <1>1, <1>3, <1>8, <1>9, <2>1, <2>4 DEF HalfExact, g, b
<1> QED  BY <1>4, <1>5, <1>10, <1>11 DEF RotaryInv

\* What a call of the handler does to the value.
LEMMA MovedFacts ==
    ASSUME RotaryTypes, NEW v \in Int, NEW inc \in Int
    PROVE  /\ Moved(v, inc) \in Int
           /\ conf.range_mode = "unbounded" => Moved(v, inc) = v + inc
           /\ conf.range_mode # "unbounded" =>
                Moved(v, inc) \in conf.min_val .. conf.max_val
           /\ conf.range_mode = "wrap" =>
                (Moved(v, inc) - v - inc)
                   % (conf.max_val - conf.min_val + 1) = 0
<1>1. /\ conf.min_val \in Int /\ conf.max_val \in Int
      /\ conf.min_val < conf.max_val
  BY ConfIs
<1>2. conf.range_mode \in {"unbounded", "wrap", "bounded"}
  BY ConfIs, RotaryAssumption
<1> DEFINE w == Wrap(v, inc, conf.min_val, conf.max_val)
           b == Bound(v, inc, conf.min_val, conf.max_val)
<1>3. /\ w \in conf.min_val .. conf.max_val
      /\ (w - v - inc) % (conf.max_val - conf.min_val + 1) = 0
  BY <1>1, WrapFacts
<1>4. b \in conf.min_val .. conf.max_val
  BY <1>1, BoundFacts
<1>5. /\ conf.range_mode = "wrap" => Moved(v, inc) = w
      /\ conf.range_mode = "bounded" => Moved(v, inc) = b
      /\ conf.range_mode = "unbounded" => Moved(v, inc) = v + inc
  BY DEF Moved
<1> HIDE DEF w, b
<1>6. CASE conf.range_mode = "wrap"
  BY <1>1, <1>3, <1>5, <1>6
<1>7. CASE conf.range_mode = "bounded"
  BY <1>1, <1>4, <1>5, <1>7
<1>8. CASE conf.range_mode = "unbounded"
  BY <1>5, <1>8
<1> QED  BY <1>2, <1>6, <1>7, <1>8

\* The low bits of a state.
LEMMA LowBits ==
    /\ \A x \in 0 .. 6 : x % 8 = x
    /\ 16 % 8 = 0 /\ 32 % 8 = 0 /\ 19 % 8 = 3 /\ 35 % 8 = 3
  OBVIOUS

\* A call of the handler, in the terms of its state before and after it.
LEMMA ProcessIs ==
    ASSUME RotaryInv, ProcessRotaryPins
    PROVE  LET a == state % 8
               D == Direction(state') IN
           /\ a \in 0 .. 6 /\ state' % 8 \in 0 .. 6 /\ D \in {-1, 0, 1}
           /\ state' \in {s + d : s \in Start .. Ccw3,
                                  d \in {0, DirCw, DirCcw}}
           /\ D * conf.incr * Sign \in Int
           /\ value' = Moved(value, D * conf.incr * Sign)
           /\ edges' = 0 /\ calls' = calls - 1 /\ calls > 0
           /\ conf' = conf /\ phase' = phase /\ heading' = heading
           /\ home' = home /\ exact' = exact
           /\ ~conf.half_step => FullMoves(a, phase, state')
           /\ conf.half_step => /\ HalfMoves(a, phase, state')
                                /\ a # 6 /\ state' % 8 # 6
<1> DEFINE a == state % 8
           D == Direction(state')
<1>1. /\ a \in 0 .. 6 /\ phase \in Int /\ conf.incr \in Nat
      /\ Sign \in {-1, 1} /\ conf.half_step \in BOOLEAN
      /\ conf.half_step => a # 6
  BY ConfIs DEF RotaryInv, RotaryTypes
<1>2. /\ state' = NextState(state, Pins(phase))
      /\ value' = Moved(value, D * conf.incr * Sign)
      /\ edges' = 0 /\ calls' = calls - 1 /\ calls > 0
      /\ conf' = conf /\ phase' = phase /\ heading' = heading
      /\ home' = home /\ exact' = exact
  BY DEF ProcessRotaryPins
<1>3. /\ ~conf.half_step => state' = TransitionTable[a + 1][Pins(phase) + 1]
      /\ conf.half_step =>
           state' = TransitionTableHalfStep[a + 1][Pins(phase) + 1]
  BY <1>2 DEF NextState
<1>4. ~conf.half_step => FullMoves(a, phase, state')
  BY <1>1, <1>3, FullStep
<1>5. conf.half_step => HalfMoves(a, phase, state')
  BY <1>1, <1>3, HalfStep
<1>9. state' \in (0 .. 6) \cup {16, 32, 19, 35}
      /\ (conf.half_step => state' # 6)
  BY <1>1, <1>4, <1>5 DEF FullMoves, HalfMoves
<1>10. state' % 8 \in 0 .. 6 /\ (conf.half_step => state' % 8 # 6)
  <2>1. CASE state' \in 0 .. 6
    <3>1. state' % 8 = state'
      BY <2>1, LowBits
    <3> QED  BY <1>9, <2>1, <3>1
  <2>2. CASE state' \in {16, 32, 19, 35}
    <3>1. state' % 8 = 0 \/ state' % 8 = 3
      BY <2>2, LowBits
    <3> QED  BY <3>1
  <2> QED  BY <1>9, <2>1, <2>2
<1>6. D \in {-1, 0, 1}
  BY <1>9 DEF Direction, DirCw, DirCcw
<1>7. D * conf.incr * Sign \in Int
  <2> HIDE DEF D
  <2> QED  BY <1>1, <1>6
<1>8. state' \in {s + d : s \in Start .. Ccw3, d \in {0, DirCw, DirCcw}}
  BY <1>9 DEF Start, Ccw3, DirCw, DirCcw
<1> QED  BY <1>1, <1>2, <1>4, <1>5, <1>6, <1>7, <1>8, <1>10

\* The handler counts at a detent, in the direction of the shaft if it
\* misses one edge at most.
LEMMA ProcessFollows ==
    ASSUME RotaryInv, ProcessRotaryPins, Direction(state') # 0
    PROVE  /\ AtDetent(phase)
           /\ edges <= 2 => Direction(state') = TableSign * heading
<1> DEFINE a == state % 8
           D == Direction(state')
<1>1. /\ a \in 0 .. 6 /\ D \in {-1, 1}
      /\ ~conf.half_step => FullMoves(a, phase, state')
      /\ conf.half_step => HalfMoves(a, phase, state')
  BY ProcessIs
<1>2. /\ phase \in Int /\ edges \in Nat /\ heading \in {-1, 0, 1}
      /\ edges > 0 => heading # 0
  BY ConfIs DEF RotaryInv, RotaryTypes
<1>3. PICK m \in Int :
        /\ IF conf.half_step THEN HalfRead(a, (phase - m) % 4)
                             ELSE FullRead(a, (phase - m) % 4)
        /\ edges = 0 => m = 0
        /\ edges = 1 => m = heading
        /\ edges = 2 => m \in {-2, 0, 2}
  BY DEF RotaryInv, LastReading
<1> HIDE DEF a, D
<1>4. CASE ~conf.half_step
  <2>1. (D = 1 => phase % 4 = 0 /\ a = 3) /\ (D = -1 => phase % 4 = 0 /\ a = 6)
    BY <1>1, <1>4 DEF D, FullMoves
  <2>2. /\ AtDetent(phase) /\ TableSign * heading = heading
    BY <1>1, <1>2, <1>4, <2>1 DEF AtDetent, DetentPhases, TableSign
  <2>3. /\ D = 1 => (phase - m) % 4 = 3
        /\ D = -1 => (phase - m) % 4 = 1
    BY <1>3, <1>4, <2>1 DEF FullRead
  <2>4. phase % 4 = 0
    BY <1>1, <2>1
  <2>5. edges <= 2 => D = heading
    BY <1>1, <1>2, <1>3, <2>3, <2>4
  <2> QED  BY <2>2, <2>5 DEF D
<1>5. CASE conf.half_step
  <2>1. /\ D = 1 => (phase % 4 = 0 /\ a = 4) \/ (phase % 4 = 2 /\ a = 2)
        /\ D = -1 => (phase % 4 = 0 /\ a = 5) \/ (phase % 4 = 2 /\ a = 1)
    BY <1>1, <1>5 DEF D, HalfMoves
  <2>2. phase % 4 \in {0, 2}
    BY <1>1, <2>1
  <2>3. AtDetent(phase) /\ TableSign * heading = -heading
    BY <1>2, <1>5, <2>2 DEF AtDetent, DetentPhases, TableSign
  <2>4. (phase - m) % 4 = IF a \in {1, 4} THEN 1 ELSE 3
    BY <1>1, <1>3, <1>5, <2>1 DEF HalfRead
  <2>5. edges <= 2 => D = -heading
    <3>1. \/ D = 1 /\ phase % 4 = 0 /\ (phase - m) % 4 = 1
          \/ D = 1 /\ phase % 4 = 2 /\ (phase - m) % 4 = 3
          \/ D = -1 /\ phase % 4 = 0 /\ (phase - m) % 4 = 3
          \/ D = -1 /\ phase % 4 = 2 /\ (phase - m) % 4 = 1
      BY <1>1, <2>1, <2>4
    <3> QED  BY <1>2, <1>3, <3>1
  <2> QED  BY <2>3, <2>5 DEF D
<1> QED  BY <1>4, <1>5

\* It keeps what a shaft without missed phases has counted.
LEMMA ProcessKeeps ==
    ASSUME RotaryInv, ProcessRotaryPins PROVE RotaryInv'
<1> DEFINE a == state % 8
           c == state' % 8
           D == Direction(state')
           h == IF edges = 1 THEN heading ELSE 0
<1>1. /\ a \in 0 .. 6 /\ c \in 0 .. 6 /\ D \in {-1, 0, 1}
      /\ state' \in {s + d : s \in Start .. Ccw3, d \in {0, DirCw, DirCcw}}
      /\ D * conf.incr * Sign \in Int
      /\ value' = Moved(value, D * conf.incr * Sign)
      /\ edges' = 0 /\ calls' = calls - 1 /\ calls > 0
      /\ conf' = conf /\ phase' = phase /\ heading' = heading
      /\ home' = home /\ exact' = exact
      /\ ~conf.half_step => FullMoves(a, phase, state')
      /\ conf.half_step => HalfMoves(a, phase, state') /\ c # 6
  BY ProcessIs
<1>2. /\ phase \in Int /\ edges \in Nat /\ value \in Int
      /\ conf.half_step \in BOOLEAN /\ conf.incr \in Nat /\ Sign \in {-1, 1}
      /\ home.phase \in Int /\ home.value \in Int
      /\ heading \in {-1, 0, 1}
  BY ConfIs DEF RotaryInv, RotaryTypes
<1>3. /\ value' \in Int
      /\ conf.range_mode = "unbounded" => value' = value + D * conf.incr * Sign
  <2> DEFINE inc == D * conf.incr * Sign
  <2>1. inc \in Int /\ value' = Moved(value, inc) /\ value \in Int
        /\ RotaryTypes
    BY <1>1, <1>2 DEF RotaryInv
  <2> HIDE DEF inc
  <2>2. /\ Moved(value, inc) \in Int
        /\ conf.range_mode = "unbounded" => Moved(value, inc) = value + inc
    BY <2>1, MovedFacts
  <2> QED  BY <2>1, <2>2 DEF inc
<1>4. RotaryTypes'
  <2>1. calls' \in 0 .. RotaryDepth /\ edges' \in 0 .. MaxLag
    BY <1>1, RotaryAssumption DEF RotaryInv, RotaryTypes, RotaryTypeOK
  <2>2. RotaryTypeOK'
    BY <1>1, <1>3, <2>1 DEF RotaryInv, RotaryTypes, RotaryTypeOK
  <2> QED  BY <1>1, <2>2 DEF RotaryInv, RotaryTypes
<1>5. h \in {-1, 0, 1} /\ LastPhase = phase - h /\ LastPhase' = phase
  BY <1>1, <1>2 DEF LastPhase
<1>6. Sign' = Sign
  BY <1>1 DEF Sign
<1> HIDE DEF a, c, D, h
<1>7. LastReading'
  <2>1. phase - 0 = phase /\ 0 \in Int
    BY <1>2
  <2>2. IF conf.half_step THEN HalfRead(c, phase % 4)
                          ELSE FullRead(c, phase % 4)
    <3>1. CASE ~conf.half_step
      BY <1>1, <3>1 DEF c, FullMoves
    <3>2. CASE conf.half_step
      BY <1>1, <3>2 DEF c, HalfMoves
    <3> QED  BY <1>2, <3>1, <3>2
  <2>3. IF conf'.half_step THEN HalfRead(state' % 8, (phase' - 0) % 4)
                           ELSE FullRead(state' % 8, (phase' - 0) % 4)
    BY <1>1, <2>1, <2>2 DEF c
  <2> QED  BY <1>1, <2>1, <2>3 DEF LastReading
<1>8. FullExact'
  <2> SUFFICES ASSUME exact', ~conf'.half_step PROVE FullExact'
    BY DEF FullExact
  <2>0. exact /\ ~conf.half_step
    BY <1>1
  <2> DEFINE f == FullOffset[a + 1]
             g == FullOffset[c + 1]
  <2>1. f \in Int /\ g \in Int
    BY <1>1, Offsets
  <2>2. PICK j \in Int, k \in Int :
           /\ home.phase = 4 * j /\ LastPhase = home.phase + 4 * k + f
           /\ conf.range_mode = "unbounded" =>
                value = home.value + Sign * conf.incr * k
    BY <2>0 DEF RotaryInv, FullExact, a
  <2> DEFINE e == j + k
             l == k + D
  <2>3. e \in Int /\ l \in Int /\ phase = 4 * e + f + h
    <3> HIDE DEF f
    <3> QED  BY <1>1, <1>2, <1>5, <2>1, <2>2
  <2>4. g = f + h - 4 * D
    <3> HIDE DEF e, l
    <3>1. FullMoves(a, phase, state')
      BY <1>1, <2>0
    <3> QED  BY <1>5, <2>3, <3>1 DEF c, D, FullMoves
  <2>5. phase = home.phase + 4 * l + g
    <3> HIDE DEF f, g
    <3> QED  BY <1>1, <1>2, <1>5, <2>1, <2>2, <2>3, <2>4
  <2>6. Sign * conf.incr * k + D * conf.incr * Sign = Sign * conf.incr * l
    BY <1>1, <1>2
  <2>7. conf.range_mode = "unbounded" =>
          value' = home.value + Sign * conf.incr * l
    <3>1. Sign * conf.incr * k \in Int /\ D * conf.incr * Sign \in Int
      BY <1>1, <1>2
    <3> HIDE DEF l
    <3> QED  BY <1>2, <1>3, <2>2, <2>6, <3>1
  <2>8. /\ home'.phase = 4 * j /\ edges' <= 1
        /\ LastPhase' = home'.phase + 4 * l + FullOffset[(state' % 8) + 1]
        /\ conf'.range_mode = "unbounded" =>
             value' = home'.value + Sign' * conf'.incr * l
    <3> HIDE DEF l
    <3> QED  BY <1>1, <1>5, <1>6, <2>2, <2>5, <2>7 DEF c
  <2> HIDE DEF l
  <2> QED  BY <2>3, <2>8 DEF FullExact
<1>9. HalfExact'
  <2> SUFFICES ASSUME exact', conf'.half_step PROVE HalfExact'
    BY DEF HalfExact
  <2>0. exact /\ conf.half_step
    BY <1>1
  <2> DEFINE f == HalfOffset[a + 1]
             g == HalfOffset[c + 1]
             b == HalfBase[a + 1]
             d == HalfBase[c + 1]
  <2>1. f \in Int /\ g \in Int /\ b \in Int /\ d \in Int
    BY <1>1, Offsets
  <2>2. PICK j \in Int, k \in Int, e \in Int :
           /\ home.phase = 2 * j /\ LastPhase = home.phase + 2 * k + f
           /\ LastPhase = 4 * e + b + f
           /\ conf.range_mode = "unbounded" =>
                value = home.value - Sign * conf.incr * k
    BY <2>0 DEF RotaryInv, HalfExact, a
  <2> DEFINE l == k - D
  <2>3. l \in Int /\ phase = 4 * e + b + f + h
    <3> HIDE DEF f, b
    <3> QED  BY <1>1, <1>2, <1>5, <2>1, <2>2
  <2>4. g = f + h + 2 * D /\ \E i \in Int : d - b - 2 * D = 4 * i
    <3> HIDE DEF l
    <3>1. HalfMoves(a, phase, state')
      BY <1>1, <2>0
    <3> QED  BY <1>5, <2>3, <3>1 DEF c, D, HalfMoves
  <2>5. PICK i \in Int : d - b - 2 * D = 4 * i
    BY <2>4
  <2> DEFINE n == e - i - D
  <2>6. /\ n \in Int /\ phase = home.phase + 2 * l + g
        /\ phase = 4 * n + d + g
    <3>1. /\ f \in Int /\ g \in Int /\ b \in Int /\ d \in Int
          /\ D \in Int /\ h \in Int
          /\ phase = home.phase + 2 * k + f + h /\ phase = 4 * e + b + f + h
          /\ g = f + h + 2 * D /\ d = b + 2 * D + 4 * i
      <4> HIDE DEF f, g, b, d, l, n
      <4> QED  BY <1>1, <1>2, <1>5, <2>1, <2>2, <2>3, <2>4, <2>5
    <3> HIDE DEF f, g, b, d
    <3> QED  BY <1>2, <3>1
  <2>7. Sign * conf.incr * k - D * conf.incr * Sign = Sign * conf.incr * l
    BY <1>1, <1>2
  <2>8. conf.range_mode = "unbounded" =>
          value' = home.value - Sign * conf.incr * l
    <3>1. Sign * conf.incr * k \in Int /\ D * conf.incr * Sign \in Int
      BY <1>1, <1>2
    <3> HIDE DEF l
    <3> QED  BY <1>2, <1>3, <2>2, <2>7, <3>1
  <2>9. /\ home'.phase = 2 * j /\ edges' <= 1
        /\ LastPhase' = home'.phase + 2 * l + HalfOffset[(state' % 8) + 1]
        /\ LastPhase' = 4 * n + HalfBase[(state' % 8) + 1]
                              + HalfOffset[(state' % 8) + 1]
        /\ conf'.range_mode = "unbounded" =>
             value' = home'.value - Sign' * conf'.incr * l
    <3> HIDE DEF l, n
    <3> QED  BY <1>1, <1>5, <1>6, <2>2, <2>6, <2>8 DEF c
  <2> HIDE DEF l, n
  <2> QED  BY <2>3, <2>6, <2>9 DEF HalfExact
<1> QED  BY <1>4, <1>7, <1>8, <1>9 DEF RotaryInv

\* Every step keeps the invariant.
LEMMA RotaryNextInv ==
    ASSUME RotaryInv, [RotaryNext]_rotaryVars PROVE RotaryInv'
<1>1. CASE TurnCw \/ TurnCcw
  BY <1>1, TurnKeeps DEF TurnCw, TurnCcw
<1>2. CASE ProcessRotaryPins
  BY <1>2, ProcessKeeps
<1>3. CASE SetAny
  BY <1>3, SetKeeps DEF SetAny
<1>4. CASE Reset
  BY <1>4, ResetKeeps
<1>5. CASE UNCHANGED rotaryVars
  <2>1. /\ conf' = conf /\ phase' = phase /\ calls' = calls
        /\ state' = state /\ value' = value /\ edges' = edges
        /\ heading' = heading /\ home' = home /\ exact' = exact
    BY <1>5 DEF rotaryVars
  <2>2. RotaryTypes' /\ LastReading'
    BY <2>1, SMTT(30) DEF RotaryInv, RotaryTypes, RotaryTypeOK, LastReading
  <2>3. FullExact'
    BY <2>1 DEF RotaryInv, FullExact, LastPhase, Sign
  <2>4. HalfExact'
    BY <2>1 DEF RotaryInv, HalfExact, LastPhase, Sign
  <2> QED  BY <2>2, <2>3, <2>4 DEF RotaryInv
<1> QED  BY <1>1, <1>2, <1>3, <1>4, <1>5 DEF RotaryNext

\* CountsTurns: what is counted is what was turned, exactly while the handler
\* keeps up, never against the shaft when it misses one edge, and within the
\* range, for both tables and every range and increment.
THEOREM RotaryCounts == RotarySpec => CountsTurns
<1> DEFINE Follows == ProcessRotaryPins /\ Direction(state') # 0 =>
             /\ AtDetent(phase)
             /\ edges <= 2 => Direction(state') = TableSign * heading
           InRange == ProcessRotaryPins /\ conf.range_mode # "unbounded" =>
             /\ value' \in conf.min_val .. conf.max_val
             /\ conf.range_mode = "wrap" =>
                  (value' - value - Direction(state') * conf.incr * Sign)
                      % (conf.max_val - conf.min_val + 1) = 0
<1>1. RotaryInit => RotaryInv
  BY RotaryInitInv
<1>2. RotaryInv /\ [RotaryNext]_rotaryVars => RotaryInv'
  BY RotaryNextInv
<1>3. RotaryInv => RotaryTypeOK /\ CountsDetents
  BY AtRest DEF RotaryInv, RotaryTypes
<1>4. RotaryInv => Follows
  BY ProcessFollows
<1>5. RotaryInv => InRange
  <2> SUFFICES ASSUME RotaryInv, ProcessRotaryPins,
                      conf.range_mode # "unbounded"
               PROVE  InRange
    OBVIOUS
  <2> DEFINE inc == Direction(state') * conf.incr * Sign
  <2>1. inc \in Int /\ value' = Moved(value, inc) /\ value \in Int
    BY ProcessIs, ConfIs DEF RotaryInv
  <2> HIDE DEF inc
  <2>2. /\ value' \in conf.min_val .. conf.max_val
        /\ conf.range_mode = "wrap" =>
             (value' - value - inc) % (conf.max_val - conf.min_val + 1) = 0
    BY <2>1, MovedFacts DEF RotaryInv
  <2> QED  BY <2>2 DEF inc
<1>6. RotarySpec => []RotaryInv
  BY <1>1, <1>2, PTL DEF RotarySpec
<1>7. RotarySpec => [](RotaryTypeOK /\ CountsDetents)
  BY <1>3, <1>6, PTL
<1>8. RotarySpec => [][Follows]_rotaryVars
  BY <1>4, <1>6, PTL
<1>9. RotarySpec => [][InRange]_rotaryVars
  BY <1>5, <1>6, PTL
<1> QED
  BY <1>7, <1>8, <1>9 DEF CountsTurns, CountFollowsShaft, CountStaysInRange
-----------------------------------------------------------------------------
(***************************************************************************)
(* The infrared receiver                                                   *)
(***************************************************************************)

IrCalls == {"pin", "decode", "other"}

\* The timer's callback is in the queue q.
DecodeIn(q) == \E i \in DOMAIN q : q[i] = "decode"

\* What the run checks is inductive as it stands.
IrInv == IrTypeOK /\ ResultFromThisBurst /\ StoredEdgesAreDecoded

\* mp_sched_schedule leaves what is in the queue, and adds the call if there
\* is room.
LEMMA IrSchedules ==
    ASSUME IrTypeOK, NEW call \in IrCalls, Schedule(call)
    PROVE  /\ queue' \in Seq(IrCalls) /\ Len(queue') <= IrDepth
           /\ DecodeIn(queue) => DecodeIn(queue')
           /\ call = "decode" /\ Len(queue) # IrDepth => DecodeIn(queue')
<1>1. /\ queue \in Seq(IrCalls) /\ Len(queue) <= IrDepth /\ IrDepth \in Nat
      /\ DOMAIN queue = 1 .. Len(queue) /\ Len(queue) \in Nat
  BY IrAssumption DEF IrTypeOK, IrCalls
<1>2. CASE Len(queue) < IrDepth
  <2> DEFINE L == Len(queue)
             q == Append(queue, call)
  <2>1. queue' = q
    BY <1>2 DEF Schedule
  <2>2. /\ q \in Seq(IrCalls) /\ Len(q) = L + 1
        /\ \A i \in 1 .. L : q[i] = queue[i]
        /\ q[L + 1] = call /\ DOMAIN q = 1 .. L + 1
    BY <1>1
  <2> HIDE DEF q, L
  <2>3. L \in Nat /\ L < IrDepth
    BY <1>1, <1>2 DEF L
  <2>4. Len(q) <= IrDepth
    BY <1>1, <2>2, <2>3
  <2>5. DecodeIn(queue) => DecodeIn(q)
    BY <1>1, <2>2, <2>3 DEF DecodeIn, L
  <2>6. call = "decode" => DecodeIn(q)
    BY <2>2, <2>3 DEF DecodeIn
  <2> QED  BY <2>1, <2>2, <2>4, <2>5, <2>6
<1>3. CASE ~(Len(queue) < IrDepth)
  <2>1. queue' = queue
    BY <1>3 DEF Schedule
  <2> DEFINE L == Len(queue)
  <2>2. L <= IrDepth /\ L \in Nat /\ ~(L < IrDepth) /\ IrDepth \in Nat
    BY <1>1, <1>3
  <2> HIDE DEF L
  <2>3. L = IrDepth
    BY <2>2
  <2> QED  BY <1>1, <2>1, <2>3 DEF L
<1> QED  BY <1>2, <1>3

\* The scheduler takes the first call; the timer's callback stays in the
\* queue if it was not that one.
LEMMA IrTakes ==
    ASSUME IrTypeOK, queue # <<>>, queue' = Tail(queue)
    PROVE  /\ queue' \in Seq(IrCalls) /\ Len(queue') <= IrDepth
           /\ DecodeIn(queue) /\ Head(queue) # "decode" => DecodeIn(queue')
<1> DEFINE L == Len(queue)
           q == Tail(queue)
<1>1. /\ queue \in Seq(IrCalls) /\ L <= IrDepth /\ IrDepth \in Nat
      /\ DOMAIN queue = 1 .. L /\ L \in Nat /\ Head(queue) = queue[1]
  BY IrAssumption DEF IrTypeOK, IrCalls
<1>2. L # 0
  BY <1>1
<1>3. /\ q \in Seq(IrCalls) /\ Len(q) = L - 1 /\ DOMAIN q = 1 .. L - 1
      /\ \A i \in 1 .. L - 1 : q[i] = queue[i + 1]
  BY <1>1
<1> HIDE DEF L, q
<1>4. Len(q) <= IrDepth
  BY <1>1, <1>2, <1>3
<1>5. ASSUME DecodeIn(queue), Head(queue) # "decode" PROVE DecodeIn(q)
  <2>1. PICK i \in 1 .. L : queue[i] = "decode"
    BY <1>1, <1>5 DEF DecodeIn
  <2>2. i # 1
    BY <1>1, <1>5, <2>1
  <2>3. i - 1 \in 1 .. L - 1 /\ (i - 1) + 1 = i
    BY <1>1, <2>1, <2>2
  <2>4. q[i - 1] = "decode"
    BY <1>3, <2>1, <2>3
  <2> QED  BY <1>3, <2>3, <2>4 DEF DecodeIn
<1>6. queue' = q
  BY DEF q
<1> QED  BY <1>3, <1>4, <1>5, <1>6

\* What decode() of NEC_ABC reports rests on no more than is stored.
LEMMA NecIs ==
    ASSUME IrTypeOK, NEW w1 \in Widths, NEW w2 \in Widths,
           NEW good \in BOOLEAN
    PROVE  LET r == NecResult(w1, w2, good) IN
           /\ r \in [result : Results, used : Nat, edges : Nat]
           /\ r.result \in {"cmd", "repeat"} => r.used <= r.edges
<1>1. edge \in Nat /\ NEdges \in Nat /\ RepEdges \in Nat
      /\ edge \in 0 .. NEdges + 1
  BY IrAssumption DEF IrTypeOK
<1> DEFINE is(r, n) == [result |-> r, used |-> n, edges |-> edge]
           x == NecResult(w1, w2, good)
<1>2. \/ x = is("error", 0)
      \/ x = is("cmd", NEdges) /\ NEdges <= edge
      \/ x = is("repeat", RepEdges) /\ RepEdges = edge
  <2> DEFINE bad == edge > NEdges \/ w1 \notin {"gap", "mark"}
             long == w2 \in {"gap", "mark", "data"}
  <2>1. CASE bad
    BY <2>1 DEF NecResult
  <2>2. CASE ~bad /\ long
    <3>1. x = IF edge < NEdges \/ ~good THEN is("error", 0)
              ELSE is("cmd", NEdges)
      BY <2>2 DEF NecResult
    <3> QED  BY <1>1, <3>1
  <2>3. CASE ~bad /\ ~long
    <3>1. x = IF w2 = "repeat" /\ edge = RepEdges
              THEN is("repeat", RepEdges) ELSE is("error", 0)
      BY <2>3 DEF NecResult
    <3> QED  BY <3>1
  <2> QED  BY <2>1, <2>2, <2>3
<1> HIDE DEF x
<1>3. /\ x \in [result : Results, used : Nat, edges : Nat]
      /\ x.result \in {"cmd", "repeat"} => x.used <= x.edges
  BY <1>1, <1>2 DEF Results
<1> QED  BY <1>3 DEF x

\* _cb_pin stores no edge beyond the array, and starts the timer with the
\* first one.
LEMMA CbPinIs ==
    ASSUME IrTypeOK, NEW w \in Widths, CbPin(w)
    PROVE  /\ edge' \in 0 .. NEdges + 1 /\ widths' \in [1 .. 2 -> Widths]
           /\ timer' \in BOOLEAN /\ (timer => timer')
           /\ edge = 0 => timer'
<1>1. edge \in 0 .. NEdges + 1 /\ NEdges \in Nat /\ timer \in BOOLEAN
      /\ widths \in [1 .. 2 -> Widths]
  BY IrAssumption DEF IrTypeOK
<1>2. CASE edge <= NEdges
  <2>1. edge' = edge + 1 /\ edge' \in 0 .. NEdges + 1
    BY <1>1, <1>2 DEF CbPin
  <2>2. widths' = IF edge \in 1 .. 2 THEN [widths EXCEPT ![edge] = w]
                  ELSE widths
    BY <1>2 DEF CbPin
  <2>3. widths' \in [1 .. 2 -> Widths]
    BY <1>1, <2>2
  <2>4. timer' = (timer \/ edge = 0)
    BY <1>2 DEF CbPin
  <2>5. timer' \in BOOLEAN /\ (timer => timer') /\ (edge = 0 => timer')
    BY <2>4
  <2> QED  BY <2>1, <2>3, <2>5
<1>3. CASE ~(edge <= NEdges)
  <2>1. edge' = edge /\ timer' = timer /\ widths' = widths /\ edge # 0
    BY <1>1, <1>3 DEF CbPin
  <2> QED  BY <1>1, <2>1
<1> QED  BY <1>2, <1>3

\* Every interrupt and every call of the scheduler keeps it.
LEMMA IrStep == IrInv /\ [IrNext]_irVars => IrInv'
<1> SUFFICES ASSUME IrInv, [IrNext]_irVars PROVE IrInv'
  OBVIOUS
<1>0. /\ IrTypeOK /\ ResultFromThisBurst
      /\ irq /\ edge > 0 => timer \/ deaf \/ DecodeIn(queue)
      /\ decoder \in {"nec", "get", "quiet"} /\ deaf \in BOOLEAN
      /\ edge \in 0 .. NEdges + 1 /\ widths \in [1 .. 2 -> Widths]
      /\ timer \in BOOLEAN /\ irq \in BOOLEAN /\ data \in BOOLEAN
      /\ queue \in Seq(IrCalls) /\ Len(queue) <= IrDepth
      /\ report \in [result : Results, used : Nat, edges : Nat]
  BY DEF IrInv, IrTypeOK, StoredEdgesAreDecoded, DecodeIn, IrCalls
<1> DEFINE Others == /\ decoder' = decoder /\ edge' = edge
                     /\ widths' = widths /\ irq' = irq
                     /\ report' = report /\ data' = data
           Queue == queue' \in Seq(IrCalls) /\ Len(queue') <= IrDepth
           Stored == irq' /\ edge' > 0
                       => timer' \/ deaf' \/ DecodeIn(queue')
<1>1. ASSUME Others, Queue, Stored, timer' \in BOOLEAN, deaf' \in BOOLEAN
      PROVE  IrInv'
  <2>1. IrTypeOK'
    BY <1>0, <1>1 DEF IrTypeOK, IrCalls
  <2>2. ResultFromThisBurst'
    BY <1>0, <1>1 DEF ResultFromThisBurst
  <2>3. StoredEdgesAreDecoded'
    BY <1>1 DEF StoredEdgesAreDecoded, DecodeIn
  <2> QED  BY <2>1, <2>2, <2>3 DEF IrInv
<1>2. ASSUME NEW call \in IrCalls, Schedule(call), Others,
             timer' = timer, deaf' = deaf
      PROVE  IrInv'
  <2>1. Queue /\ (DecodeIn(queue) => DecodeIn(queue'))
    BY <1>0, <1>2, IrSchedules
  <2>2. Stored
    BY <1>0, <1>2, <2>1
  <2> QED  BY <1>0, <1>1, <1>2, <2>1, <2>2
<1>3. CASE Edge
  BY <1>2, <1>3 DEF Edge, IrCalls
<1>4. CASE Other
  BY <1>2, <1>4 DEF Other, IrCalls
<1>5. CASE Alarm
  <2>1. Schedule("decode") /\ "decode" \in IrCalls
    BY <1>5 DEF Alarm, IrCalls
  <2>2. Queue /\ (Len(queue) # IrDepth => DecodeIn(queue'))
    BY <1>0, <2>1, IrSchedules
  <2>3. deaf' = (deaf \/ Len(queue) = IrDepth)
    BY <1>5 DEF Alarm
  <2>4. deaf' \in BOOLEAN /\ (Len(queue) = IrDepth => deaf')
    BY <2>3
  <2>5. timer' = FALSE
    BY <1>5 DEF Alarm
  <2>6. timer' \in BOOLEAN
    BY <2>5
  <2>7. Others
    BY <1>5 DEF Alarm
  <2> HIDE DEF Others
  <2> QED  BY <1>1, <2>2, <2>4, <2>6, <2>7
<1>6. CASE RunOther
  <2>1. Queue /\ (DecodeIn(queue) => DecodeIn(queue'))
    BY <1>0, <1>6, IrTakes DEF RunOther
  <2>2. Others /\ timer' = timer /\ deaf' = deaf
    BY <1>6 DEF RunOther
  <2>3. Stored
    BY <1>0, <2>1, <2>2
  <2> QED  BY <1>0, <1>1, <2>1, <2>2, <2>3
<1>7. CASE RunPin
  <2>1. Queue /\ (DecodeIn(queue) => DecodeIn(queue'))
    BY <1>0, <1>7, IrTakes DEF RunPin
  <2>2. PICK w \in Widths : CbPin(w)
    BY <1>7 DEF RunPin
  <2>3. /\ edge' \in 0 .. NEdges + 1 /\ widths' \in [1 .. 2 -> Widths]
        /\ timer' \in BOOLEAN /\ (timer => timer') /\ (edge = 0 => timer')
    BY <1>0, <2>2, CbPinIs
  <2>4. /\ decoder' = decoder /\ irq' = irq /\ report' = report
        /\ data' = data /\ deaf' = deaf
    BY <1>7 DEF RunPin
  <2>5. edge = 0 \/ edge > 0
    BY <1>0, IrAssumption
  <2>6. Stored
    BY <1>0, <2>1, <2>3, <2>4, <2>5
  <2>7. IrTypeOK'
    BY <1>0, <2>1, <2>3, <2>4 DEF IrTypeOK, IrCalls
  <2>8. ResultFromThisBurst'
    BY <1>0, <2>4 DEF ResultFromThisBurst
  <2>9. StoredEdgesAreDecoded'
    BY <2>6 DEF StoredEdgesAreDecoded, DecodeIn
  <2> QED  BY <2>7, <2>8, <2>9 DEF IrInv
<1>8. CASE RunDecode
  <2>1. Queue
    BY <1>0, <1>8, IrTakes DEF RunDecode
  <2>2. /\ decoder' = decoder /\ widths' = widths /\ timer' = timer
        /\ irq' = irq
    BY <1>8 DEF RunDecode
  <2>3. ASSUME NecDecode PROVE IrInv'
    <3>1. edge' = 0 /\ data' = data /\ deaf' = deaf
      BY <2>3 DEF NecDecode
    <3>2. PICK w1 \in Width(1), w2 \in Width(2), good \in BOOLEAN :
                 report' = NecResult(w1, w2, good)
      BY <2>3 DEF NecDecode
    <3>3. w1 \in Widths /\ w2 \in Widths
      <4>1. Width(1) \subseteq Widths /\ Width(2) \subseteq Widths
        BY <1>0 DEF Width
      <4> QED  BY <3>2, <4>1
    <3>4. /\ report' \in [result : Results, used : Nat, edges : Nat]
          /\ report'.result \in {"cmd", "repeat"}
               => report'.used <= report'.edges
      BY <1>0, <3>2, <3>3, NecIs
    <3>5. edge' \in 0 .. NEdges + 1 /\ ~(edge' > 0)
      BY <3>1, IrAssumption
    <3>6. IrTypeOK'
      BY <1>0, <2>1, <2>2, <3>1, <3>4, <3>5 DEF IrTypeOK, IrCalls
    <3>7. ResultFromThisBurst'
      BY <3>4 DEF ResultFromThisBurst
    <3>8. StoredEdgesAreDecoded'
      BY <3>5 DEF StoredEdgesAreDecoded
    <3> QED  BY <3>6, <3>7, <3>8 DEF IrInv
  <2>4. ASSUME GetDecode PROVE IrInv'
    <3>1. CASE edge - 1 < 3 \/ DisplayRaises
      <4>1. deaf' = TRUE /\ edge' = edge /\ report' = report /\ data' = data
        BY <2>4, <3>1 DEF GetDecode
      <4>2. deaf' \in BOOLEAN /\ deaf'
        BY <4>1
      <4>3. Others /\ Stored /\ timer' \in BOOLEAN
        BY <1>0, <2>2, <4>1, <4>2
      <4> HIDE DEF Others, Stored, Queue
      <4> QED  BY <1>1, <2>1, <4>2, <4>3
    <3>2. CASE ~(edge - 1 < 3 \/ DisplayRaises)
      <4>1. data' = TRUE /\ edge' = 0 /\ deaf' = deaf
            /\ report' = [result |-> "cmd", used |-> edge, edges |-> edge]
        BY <2>4, <3>2 DEF GetDecode
      <4>2. edge \in Nat /\ edge' \in 0 .. NEdges + 1 /\ ~(edge' > 0)
        BY <1>0, <4>1, IrAssumption
      <4>3. /\ report' \in [result : Results, used : Nat, edges : Nat]
            /\ report'.used <= report'.edges
        BY <4>1, <4>2 DEF Results
      <4>4. data' \in BOOLEAN
        BY <4>1
      <4>5. IrTypeOK'
        BY <1>0, <2>1, <2>2, <4>1, <4>2, <4>3, <4>4 DEF IrTypeOK, IrCalls
      <4>6. ResultFromThisBurst'
        BY <4>3 DEF ResultFromThisBurst
      <4>7. StoredEdgesAreDecoded'
        BY <4>2 DEF StoredEdgesAreDecoded
      <4> QED  BY <4>5, <4>6, <4>7 DEF IrInv
    <3> QED  BY <3>1, <3>2
  <2> QED  BY <1>8, <2>3, <2>4 DEF RunDecode
<1>9. CASE Close
  <2>1. irq' = FALSE /\ timer' = FALSE /\ queue' = queue /\ report' = report
        /\ decoder' = decoder /\ edge' = edge /\ widths' = widths
        /\ data' = data /\ deaf' = deaf
    BY <1>9 DEF Close
  <2>2. irq' \in BOOLEAN /\ timer' \in BOOLEAN /\ ~irq'
    BY <2>1
  <2>3. IrTypeOK'
    BY <1>0, <2>1, <2>2 DEF IrTypeOK, IrCalls
  <2>4. ResultFromThisBurst'
    BY <1>0, <2>1 DEF ResultFromThisBurst
  <2>5. StoredEdgesAreDecoded'
    BY <2>2 DEF StoredEdgesAreDecoded
  <2> QED  BY <2>3, <2>4, <2>5 DEF IrInv
<1>10. CASE UNCHANGED irVars
  BY <1>0, <1>1, <1>10 DEF irVars
<1> QED  BY <1>3, <1>4, <1>5, <1>6, <1>7, <1>8, <1>9, <1>10
            DEF IrNext, Closed

(***************************************************************************)
(* For any block length, repeat length and depth of the scheduler's queue, *)
(* no edge is stored outside the array, what is reported rests on the      *)
(* times of one burst, and what is stored will be decoded unless the       *)
(* receiver has gone deaf: the safety part of BurstsAreDecoded.            *)
(***************************************************************************)
THEOREM BurstsStayWhole ==
    IrSpec => [](IrTypeOK /\ ResultFromThisBurst /\ StoredEdgesAreDecoded)
<1>1. IrInit => IrInv
  <2> SUFFICES ASSUME IrInit PROVE IrInv
    OBVIOUS
  <2>1. /\ decoder \in {"nec", "get", "quiet"} /\ edge = 0 /\ queue = <<>>
        /\ widths = <<"short", "short">>
        /\ report = [result |-> "none", used |-> 0, edges |-> 0]
    BY DEF IrInit
  <2>2. /\ timer \in BOOLEAN /\ irq \in BOOLEAN /\ data \in BOOLEAN
        /\ deaf \in BOOLEAN
    BY DEF IrInit
  <2>3. widths \in [1 .. 2 -> Widths]
    BY <2>1 DEF Widths
  <2>4. queue \in Seq(IrCalls) /\ Len(queue) = 0
    BY <2>1
  <2>5. report \in [result : Results, used : Nat, edges : Nat]
        /\ report.result = "none"
    BY <2>1 DEF Results
  <2>6. edge \in 0 .. NEdges + 1 /\ ~(edge > 0) /\ Len(queue) <= IrDepth
    BY <2>1, <2>4, IrAssumption
  <2> QED  BY <2>1, <2>2, <2>3, <2>4, <2>5, <2>6
              DEF IrInv, IrTypeOK, IrCalls, ResultFromThisBurst,
                  StoredEdgesAreDecoded
<1> QED  BY <1>1, IrStep, PTL DEF IrSpec, IrInv
=============================================================================
