----------------------------- MODULE MCPrograms -----------------------------
(***************************************************************************)
(* The programs that run alone on a board: the thermostat, the rotary      *)
(* encoder's driver, the infrared receiver, the lamp box and the           *)
(* disk-motor encoder.  `program' is the one that was started; the state   *)
(* of the others stays as it is initially.                                 *)
(***************************************************************************)
EXTENDS HeaterControl, Rotary, IrReceiver, LampBox, HddEncoder

VARIABLE program

programVars ==
    <<program, heaterVars, rotaryVars, irVars, lampVars, hddVars>>

\* A full-step encoder, a half-step one that counts the other way, and one
\* whose range of three values does not start at 0, counted in twos.
MCConfs ==
    { [half_step |-> FALSE, reverse |-> TRUE, range_mode |-> "unbounded",
       incr |-> 1, min_val |-> 0, max_val |-> 10],
      [half_step |-> TRUE, reverse |-> FALSE, range_mode |-> "unbounded",
       incr |-> 1, min_val |-> 0, max_val |-> 10],
      [half_step |-> FALSE, reverse |-> FALSE, range_mode |-> "wrap",
       incr |-> 2, min_val |-> 2, max_val |-> 4],
      [half_step |-> FALSE, reverse |-> FALSE, range_mode |-> "bounded",
       incr |-> 1, min_val |-> 2, max_val |-> 3] }
MCSetValues == {3}

\* What is not run is in one of its initial states.
Init ==
    /\ program \in {"heater", "rotary", "ir", "lamp", "hdd"}
    /\ HeaterInit /\ RotaryInit /\ IrInit /\ LampInit /\ HddInit
    /\ program # "heater" => now = 0
    /\ program # "rotary" => conf = CHOOSE c \in Confs : TRUE
    /\ program # "ir" => decoder = "nec"

Next ==
    \/ /\ program = "heater" /\ HeaterNext
       /\ UNCHANGED <<program, rotaryVars, irVars, lampVars, hddVars>>
    \/ /\ program = "rotary" /\ RotaryNext
       /\ UNCHANGED <<program, heaterVars, irVars, lampVars, hddVars>>
    \/ /\ program = "ir" /\ IrNext
       /\ UNCHANGED <<program, heaterVars, rotaryVars, lampVars, hddVars>>
    \/ /\ program = "lamp" /\ LampNext
       /\ UNCHANGED <<program, heaterVars, rotaryVars, irVars, hddVars>>
    \/ /\ program = "hdd" /\ HddNext
       /\ UNCHANGED <<program, heaterVars, rotaryVars, irVars, lampVars>>

\* Fairness is the receiver's: without it no step of it need be taken.
Fairness ==
    /\ WF_irVars(program = "ir" /\ RunPin)
    /\ WF_irVars(program = "ir" /\ RunDecode)
    /\ WF_irVars(program = "ir" /\ RunOther)
    /\ WF_irVars(program = "ir" /\ Alarm)

Spec == Init /\ [][Next]_programVars /\ Fairness
=============================================================================
