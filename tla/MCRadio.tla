------------------------------- MODULE MCRadio -------------------------------
(***************************************************************************)
(* The two radios under the one hw_lock: any client may ask for BLE        *)
(* advertising to start or stop, for another name and for another network, *)
(* while the scanner reads the pins.                                       *)
(***************************************************************************)
EXTENDS BleControl, WifiControl

radioVars == << hw_lock, pc, bleVars, wifiVars >>

Init == /\ hw_lock = NewLock
        /\ pc = [t \in Tasks |-> "idle"]
        /\ BleInit /\ WifiInit

BleTurn(c) == BleStep(c) /\ UNCHANGED wifiVars
WifiTurn(c) == WifiStep(c) /\ UNCHANGED bleVars
ReaderTurn == ReadGoesOn /\ UNCHANGED << bleVars, wifiVars >>

Next ==
    \/ ReaderTurn
    \/ ReadBegins /\ UNCHANGED << bleVars, wifiVars >>
    \/ Link /\ UNCHANGED bleVars
    \/ \E c \in Clients :
          \/ BleTurn(c) \/ WifiTurn(c)
          \/ BleRequest(c) /\ UNCHANGED wifiVars
          \/ WifiRequest(c) /\ UNCHANGED bleVars

\* The loop runs every task whose sleep has ended or that has the lock.
Spec == /\ Init /\ [][Next]_radioVars
        /\ \A c \in Clients : WF_radioVars(BleTurn(c) \/ WifiTurn(c))
        /\ WF_radioVars(ReaderTurn)

\* Nobody else is inside while one client is between gap_advertise and the
\* setting of the flag or in the second after nic.disconnect(); the lock is
\* locked exactly while somebody is, so that no early return and no exception
\* keeps it, and nobody waits in front of a free lock.
RadioLockDiscipline ==
    /\ \A t, u \in Inside : t = u
    /\ (hw_lock.state = Locked) <=> (Inside # {})
    /\ Free(hw_lock) => hw_lock.waiting = << >>

\* Every request is answered: no order of starts, stops, renames and connects
\* makes the clients wait for each other for ever.
RequestsAnswered ==
    \A c \in Clients : pc[c] # "idle" ~> pc[c] = "idle"

\* One client at a time uses the radios, and advertising is started only when
\* it is off, although its flag was read before the lock was awaited.
OneRadioUser == /\ [](BleTypeOK /\ WifiTypeOK /\ RadioLockDiscipline)
                /\ StartsOnlyWhenOff
=============================================================================
