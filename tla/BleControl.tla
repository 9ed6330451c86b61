----------------------------- MODULE BleControl -----------------------------
(***************************************************************************)
(* BLE advertising of the Digital Twin (pico_board.py, init_ble to         *)
(* set_ble_name; request_handler.py, the BLE handlers): clients start and  *)
(* stop advertising and rename the board, concurrently.  The flag          *)
(* _ble_adv_active is read outside hw_lock, and again under it; it is set  *)
(* 10 ms after the radio was told, still under the lock.                   *)
(*                                                                         *)
(*   pc[c]  "idle"         c has no BLE request under way                  *)
(*          "init_lock"    in init_ble, awaits hw_lock                     *)
(*          "start_lock"   in start_ble_advertising, awaits hw_lock        *)
(*          "start_sleep"  holds hw_lock, the radio advertises             *)
(*          "stop_lock"    in stop_ble_advertising, awaits hw_lock         *)
(*          "stop_sleep"   holds hw_lock, the radio has stopped            *)
(*          "name_delay"   in set_ble_name, between stop and start         *)
(***************************************************************************)
EXTENDS BoardTasks

CONSTANTS
    Names,      \* the names clients give the board
    FirstName,  \* "Pico-WebIO"
    Off,        \* the radio does not advertise
    NoName,     \* the client is not renaming the board
    GapFails    \* BOOLEAN: gap_advertise and BLE() may raise an exception

ASSUME BleControlAssumption ==
    /\ FirstName \in Names
    /\ Off \notin Names
    /\ NoName \notin Names
    /\ GapFails \in BOOLEAN

VARIABLES
    ble,            \* Pico_board.ble is a radio and not None
    adv_active,     \* Pico_board._ble_adv_active
    ble_name,       \* Pico_board.ble_name
    radio,          \* the name the radio advertises, or Off
    new_name        \* the argument of the client's set_ble_name, or NoName

bleVars == << ble, adv_active, ble_name, radio, new_name >>

\* _sync_init_ble_internal, in the constructor.
BleInit ==
    /\ ble \in (IF GapFails THEN BOOLEAN ELSE {TRUE})
    /\ adv_active = FALSE
    /\ ble_name = FirstName
    /\ radio = Off
    /\ new_name = [c \in Clients |-> NoName]

-----------------------------------------------------------------------------
(***************************************************************************)
(* start_ble_advertising.  These operators say what happens to the lock,   *)
(* the task, the flag and the radio; lk is the state of the lock and name  *)
(* that of self.ble_name when the code is reached, which may be in the     *)
(* middle of a step.                                                       *)
(***************************************************************************)

\* Mutants of StartLocked: no re-check of the flag under the lock; the flag is
\* set although gap_advertise failed.
StartLockedUnchecked(c, lk, name) ==
    /\ radio' = name
    /\ hw_lock' = lk
    /\ Goto(c, "start_sleep")
    /\ UNCHANGED adv_active

StartLockedFlagFirst(c, lk, name) ==
    /\ adv_active' = TRUE
    /\ \/ /\ radio' = name
          /\ hw_lock' = lk
          /\ Goto(c, "start_sleep")
       \/ /\ GapFails
          /\ hw_lock' = Release(lk)
          /\ Goto(c, "idle")
          /\ UNCHANGED radio

\* The body under the lock: the re-check, gap_advertise, the 10 ms delay.
StartLocked(c, lk, name) ==
    \/ /\ adv_active
       /\ hw_lock' = Release(lk)
       /\ Goto(c, "idle")
       /\ UNCHANGED << adv_active, radio >>
    \/ /\ ~adv_active
       /\ radio' = name
       /\ hw_lock' = lk
       /\ Goto(c, "start_sleep")
       /\ UNCHANGED adv_active
    \/ /\ ~adv_active /\ GapFails
       /\ adv_active' = FALSE
       /\ hw_lock' = Release(lk)
       /\ Goto(c, "idle")
       /\ UNCHANGED radio

\* From the check of the flag on; the radio is initialised.
StartFrom(c, lk, name) ==
    \/ /\ adv_active
       /\ hw_lock' = lk
       /\ Goto(c, "idle")
       /\ UNCHANGED << adv_active, radio >>
    \/ /\ ~adv_active
       /\ Free(lk)
       /\ StartLocked(c, Take(lk), name)
    \/ /\ ~adv_active
       /\ ~Free(lk)
       /\ hw_lock' = Enqueue(lk, c)
       /\ Goto(c, "start_lock")
       /\ UNCHANGED << adv_active, radio >>

\* init_ble under the lock, and what start_ble_advertising does next.  The
\* flag is FALSE while there is no radio, as init_ble sets it once more.
InitLocked(c, lk, name) ==
    \/ /\ ble
       /\ StartFrom(c, Release(lk), name)
       /\ UNCHANGED ble
    \/ /\ ~ble
       /\ ble' = TRUE
       /\ StartFrom(c, Release(lk), name)
    \/ /\ ~ble
       /\ adv_active' = FALSE
       /\ hw_lock' = Release(lk)
       /\ Goto(c, "idle")
       /\ UNCHANGED << ble, radio >>

\* The whole of it, up to the first await that yields.
StartAdvertising(c, name) ==
    \/ /\ ble
       /\ StartFrom(c, hw_lock, name)
       /\ UNCHANGED ble
    \/ /\ ~ble
       /\ Free(hw_lock)
       /\ InitLocked(c, Take(hw_lock), name)
    \/ /\ ~ble
       /\ ~Free(hw_lock)
       /\ hw_lock' = Enqueue(hw_lock, c)
       /\ Goto(c, "init_lock")
       /\ UNCHANGED << ble, adv_active, radio >>

\* handle_ble_start
BleStart(c) ==
    /\ pc[c] = "idle"
    /\ StartAdvertising(c, ble_name)
    /\ UNCHANGED << ble_name, new_name >>

InitResume(c) ==
    /\ pc[c] = "init_lock"
    /\ Promised(c)
    /\ InitLocked(c, Take(hw_lock), ble_name)
    /\ UNCHANGED << ble_name, new_name >>

StartResume(c) ==
    /\ pc[c] = "start_lock"
    /\ Promised(c)
    /\ StartLocked(c, Take(hw_lock), ble_name)
    /\ UNCHANGED << ble, ble_name, new_name >>

\* Mutant of StartDone: the lock is not released.
StartDoneLocked(c) ==
    /\ pc[c] = "start_sleep"
    /\ adv_active' = TRUE
    /\ Goto(c, "idle")
    /\ UNCHANGED << hw_lock, ble, ble_name, radio, new_name >>

\* After the 10 ms: the flag is set and the lock released.
StartDone(c) ==
    /\ pc[c] = "start_sleep"
    /\ adv_active' = TRUE
    /\ hw_lock' = Release(hw_lock)
    /\ Goto(c, "idle")
    /\ UNCHANGED << ble, ble_name, radio, new_name >>

-----------------------------------------------------------------------------
(***************************************************************************)
(* stop_ble_advertising.  back is where its caller goes on: "idle" for the *)
(* handler, "name_delay" for set_ble_name.                                 *)
(***************************************************************************)

StopLocked(c, lk, back) ==
    \/ /\ ~adv_active
       /\ hw_lock' = Release(lk)
       /\ Goto(c, back)
       /\ UNCHANGED << adv_active, radio >>
    \/ /\ adv_active
       /\ radio' = Off
       /\ hw_lock' = lk
       /\ Goto(c, "stop_sleep")
       /\ UNCHANGED adv_active
    \/ /\ adv_active /\ GapFails
       /\ adv_active' = FALSE
       /\ hw_lock' = Release(lk)
       /\ Goto(c, back)
       /\ UNCHANGED radio

StopAdvertising(c, back) ==
    \/ /\ ~ble \/ ~adv_active
       /\ adv_active' = FALSE
       /\ Goto(c, back)
       /\ UNCHANGED << hw_lock, radio >>
    \/ /\ ble /\ adv_active
       /\ Free(hw_lock)
       /\ StopLocked(c, Take(hw_lock), back)
    \/ /\ ble /\ adv_active
       /\ ~Free(hw_lock)
       /\ hw_lock' = Enqueue(hw_lock, c)
       /\ Goto(c, "stop_lock")
       /\ UNCHANGED << adv_active, radio >>

\* Where a suspended stop returns to.
StopCaller(c) == IF new_name[c] = NoName THEN "idle" ELSE "name_delay"

\* handle_ble_stop
BleStop(c) ==
    /\ pc[c] = "idle"
    /\ StopAdvertising(c, "idle")
    /\ UNCHANGED << ble, ble_name, new_name >>

StopResume(c) ==
    /\ pc[c] = "stop_lock"
    /\ Promised(c)
    /\ StopLocked(c, Take(hw_lock), StopCaller(c))
    /\ UNCHANGED << ble, ble_name, new_name >>

\* Mutant of StopDone: the flag keeps its value.
StopDoneKeepsFlag(c) ==
    /\ pc[c] = "stop_sleep"
    /\ hw_lock' = Release(hw_lock)
    /\ Goto(c, StopCaller(c))
    /\ UNCHANGED << ble, adv_active, ble_name, radio, new_name >>

StopDone(c) ==
    /\ pc[c] = "stop_sleep"
    /\ adv_active' = FALSE
    /\ hw_lock' = Release(hw_lock)
    /\ Goto(c, StopCaller(c))
    /\ UNCHANGED << ble, ble_name, radio, new_name >>

-----------------------------------------------------------------------------
(***************************************************************************)
(* set_ble_name                                                            *)
(***************************************************************************)

\* While not advertising, the name is set; otherwise advertising stops first.
BleSetName(c, name) ==
    /\ pc[c] = "idle"
    /\ \/ /\ ~adv_active
          /\ ble_name' = name
          /\ UNCHANGED << hw_lock, pc, ble, adv_active, radio, new_name >>
       \/ /\ adv_active
          /\ new_name' = [new_name EXCEPT ![c] = name]
          /\ StopAdvertising(c, "name_delay")
          /\ UNCHANGED << ble, ble_name >>

\* After the 200 ms: the name is set and advertising is started again.
Rename(c) ==
    /\ pc[c] = "name_delay"
    /\ ble_name' = new_name[c]
    /\ new_name' = [new_name EXCEPT ![c] = NoName]
    /\ StartAdvertising(c, new_name[c])

-----------------------------------------------------------------------------
\* A client that has a request under way goes on with it.
BleStep(c) == \/ InitResume(c) \/ StartResume(c) \/ StartDone(c)
              \/ StopResume(c) \/ StopDone(c) \/ Rename(c)

\* A request that the handler passes on (by request_handler.py:75, see
\* PinActions).
BleRequest(c) == \/ BleStart(c)
                 \/ BleStop(c)
                 \/ \E name \in Names : BleSetName(c, name)

BleReader == (ReadBegins \/ ReadGoesOn) /\ UNCHANGED bleVars

BleNext == BleReader \/ \E c \in Clients : BleRequest(c) \/ BleStep(c)

bleAllVars == << hw_lock, pc, bleVars >>

BleSystemInit ==
    /\ hw_lock = NewLock
    /\ pc = [t \in Tasks |-> "idle"]
    /\ BleInit

\* The loop runs every task whose sleep has ended or that has the lock.
BleSpec ==
    /\ BleSystemInit
    /\ [][BleNext]_bleAllVars
    /\ \A c \in Clients : WF_bleAllVars(BleStep(c))
    /\ WF_bleAllVars(ReadGoesOn /\ UNCHANGED bleVars)

-----------------------------------------------------------------------------
(***************************************************************************)
(* Properties                                                              *)
(***************************************************************************)

BleTypeOK ==
    /\ hw_lock \in Locks
    /\ ble \in BOOLEAN
    /\ adv_active \in BOOLEAN
    /\ ble_name \in Names
    /\ radio \in Names \cup {Off}
    /\ new_name \in [Clients -> Names \cup {NoName}]

\* The radio is being switched: gap_advertise was called, the flag not yet set.
Switching == \E c \in Clients : pc[c] \in {"start_sleep", "stop_sleep"}

\* The flag that export_state_dict reports as "Advertising" is never set while
\* the radio is off, except in the 10 ms of a stop; without driver errors it
\* is exact.  The checks outside the lock may be stale, the re-checks under it
\* must make up for that.
FlagTracksRadio ==
    ~Switching => /\ adv_active => ble /\ radio # Off
                  /\ radio # Off => adv_active \/ GapFails

\* gap_advertise is called to start only when the radio is off: concurrent
\* starts advertise once.  (A failed stop leaves the radio on: GapFails.)
StartsOnlyWhenOff ==
    [][radio # Off => radio' \in {radio, Off} \/ GapFails]_bleAllVars
=============================================================================
