SPECIFICATION Spec
CONSTANTS
    Second = 4
    Half = 2
    MaxStep = 1
    HeaterPeriod = 12
    MaxUptime = 16
    Temps = {1, 3}
    Default = 2
    Turns = {0, 1}
    SetPoints = {2, 3}
    Confs <- MCConfs
    SetValues <- MCSetValues
    MaxPhase = 5
    MaxLag = 3
    MaxValue = 7
    RotaryDepth = 2
    NEdges = 6
    RepEdges = 4
    IrDepth = 3
    LampPeriod = 16
    LongPress = 3
    MaxHold = 5
    Laps = 1
    MaxSkip = 4
    Overlap = TRUE
    MaxPos = 5
    MaxCount = 8
INVARIANTS HeatsSafely CountKeepsPhase
PROPERTIES CountsTurns LongPressToggles TargetSurvivesRestart BurstsAreDecoded
           PressesSwitchLamp
