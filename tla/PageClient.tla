----------------------------- MODULE PageClient -----------------------------
(***************************************************************************)
(* The web page of the Digital Twin, src/pico2w/app.js, and the board it   *)
(* shows: polling, the toggle of an output pin, and fetches that are       *)
(* answered, overtake each other, or fail.  Nothing defines logToConsole:  *)
(* a call of it throws, and what the functions do after it is not done.    *)
(* (The model takes the script as if its stray last line, `</script>',     *)
(* were not there: a browser refuses the file with it.)                    *)
(*                                                                         *)
(* The board is one pin's value with a version that counts its changes.    *)
(* A fetch of the state is waiting (`sent') until the board answers it,    *)
(* and then on its way back (`answers') until its continuation runs.       *)
(***************************************************************************)
EXTENDS Integers, FiniteSets

CONSTANTS MaxVersion,    \* bound: changes of the pin
          MaxActions,    \* bound: actions under way at once
          MaxFetches     \* bound: fetches of the state under way at once

ASSUME PageAssumption ==
    MaxVersion \in Nat /\ MaxActions \in Nat /\ MaxFetches \in Nat

VARIABLES pin,          \* the board's pin: a value and a version
          boardState,   \* what the page shows
          isUpdating,
          polling,      \* pollIntervalId is set
          asked, answers,
          actions,      \* /pin/value requests, each with its value
          done,         \* actions that were carried out, on their way back
          failed        \* history: a fetch of the state has failed

shown == <<boardState, isUpdating, polling>>
pageVars == <<pin, shown, asked, answers, actions, done, failed>>

\* boardState is null.
Nothing == [value |-> 0, version |-> -1]

\* The page is not open.
PageInit == /\ pin = [value |-> 0, version |-> 0] /\ boardState = Nothing
            /\ isUpdating = FALSE /\ polling = FALSE
            /\ asked = 0 /\ answers = {} /\ actions = <<0, 0>> /\ done = 0
            /\ failed = FALSE
-----------------------------------------------------------------------------
\* Mutant of RefreshBoardState: updates may overlap.
RefreshBoardStateAlways ==
    IF asked + Cardinality(answers) < MaxFetches
    THEN isUpdating' = TRUE /\ asked' = asked + 1
    ELSE UNCHANGED <<isUpdating, asked>>

\* refreshBoardState up to its await.
RefreshBoardState ==
    IF ~isUpdating THEN isUpdating' = TRUE /\ asked' = asked + 1
    ELSE UNCHANGED <<isUpdating, asked>>

\* DOMContentLoaded: the first refresh, and the interval.
PageLoads ==
    /\ ~polling /\ boardState = Nothing
    /\ RefreshBoardState
    /\ polling' = TRUE
    /\ UNCHANGED <<pin, boardState, answers, actions, done, failed>>

\* The interval.
Poll ==
    /\ polling
    /\ RefreshBoardState
    /\ UNCHANGED <<pin, boardState, polling, answers, actions, done, failed>>

\* /api/board_state is answered.
BoardAnswers ==
    /\ asked > 0 /\ asked' = asked - 1
    /\ answers' = answers \cup {pin}
    /\ UNCHANGED <<pin, shown, actions, done, failed>>

\* The rest of refreshBoardState.
StateArrives ==
    /\ \E a \in answers : answers' = answers \ {a} /\ boardState' = a
    /\ isUpdating' = FALSE
    /\ UNCHANGED <<pin, polling, asked, actions, done, failed>>

\* The fetch fails, by a network error or an answer that carries a message:
\* apiCall logs it in its catch clause (line 78) before it would stop the
\* polling, and that throws out of refreshBoardState's await.
FetchFails ==
    /\ \/ asked > 0 /\ asked' = asked - 1 /\ UNCHANGED answers
       \/ \E a \in answers : answers' = answers \ {a} /\ UNCHANGED asked
    /\ failed' = TRUE
    /\ UNCHANGED <<pin, shown, actions, done>>
-----------------------------------------------------------------------------
\* togglePinValue: `actions' is how many requests there are for 0 and 1.
TogglePinValue ==
    /\ boardState # Nothing
    /\ actions[1] + actions[2] + done < MaxActions
    /\ actions' = [actions EXCEPT ![2 - boardState.value] = @ + 1]
    /\ UNCHANGED <<pin, shown, asked, answers, done, failed>>

\* The board sets the pin.
BoardSets(v) ==
    /\ actions[v + 1] > 0 /\ pin.version < MaxVersion
    /\ actions' = [actions EXCEPT ![v + 1] = @ - 1] /\ done' = done + 1
    /\ pin' = [value |-> v, version |-> pin.version + 1]
    /\ UNCHANGED <<shown, asked, answers, failed>>

BoardActs == \E v \in 0 .. 1 : BoardSets(v)

\* Every answer to an action carries a message, which apiCall logs: with a
\* network error or without, .then(refreshBoardState) is not reached.
ActionReturns ==
    /\ done > 0 /\ done' = done - 1
    /\ UNCHANGED <<pin, shown, asked, answers, actions, failed>>

\* Another page, or the program, sets the pin.
OtherSets ==
    /\ pin.version < MaxVersion
    /\ pin' = [value |-> 1 - pin.value, version |-> pin.version + 1]
    /\ UNCHANGED <<shown, asked, answers, actions, done, failed>>

\* Nothing is under way; or setWifi sends its request and throws before it
\* would stop the polling (line 147).
Idle == UNCHANGED pageVars

PageNext == \/ PageLoads \/ Poll \/ BoardAnswers \/ StateArrives
            \/ FetchFails \/ TogglePinValue \/ BoardActs \/ ActionReturns
            \/ OtherSets \/ Idle

\* The interval goes on, and a fetch that does not fail is answered.
PageSpec == /\ PageInit /\ [][PageNext]_pageVars
            /\ WF_pageVars(Poll)
            /\ WF_pageVars(BoardAnswers) /\ WF_pageVars(StateArrives)
-----------------------------------------------------------------------------
\* The page never goes back to an older state than it has shown: fetches do
\* not overtake each other (app.js:330-346).
ShownNeverOlder ==
    [][ boardState'.version >= boardState.version ]_pageVars

\* Once it is loaded, the page comes to show the board's last state, unless
\* one of its fetches of the state fails: then isUpdating stays set, and the
\* page polls for ever and shows what it showed (app.js:75-83, 329-346,
\* 405-407).
ShownCatchesUp == <>polling => <>(failed \/ [](boardState = pin))

\* The page never goes back in time, and catches up with the board until a
\* fetch fails, although polls, actions and answers overlap (app.js:88-408).
PageFollowsBoard == ShownNeverOlder /\ ShownCatchesUp
=============================================================================
