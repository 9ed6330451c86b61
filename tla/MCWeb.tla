-------------------------------- MODULE MCWeb --------------------------------
(***************************************************************************)
(* The way of a request: the page that sends it, the listening socket that *)
(* queues its connection, the socket it is read from, the wait_for() of    *)
(* each line, and the server that answers.  Each is checked by itself      *)
(* against everything its neighbours may do; `stage' is the one that runs. *)
(***************************************************************************)
EXTENDS WaitFor, WebServer, PageClient, AcceptQueue, LwipSocket

VARIABLE stage

requestVars == <<stage, waitForVars, webVars, pageVars, acceptVars,
                 socketVars>>

\* The tasks that the calls of wait_for() need.
MCTasks == {W, X} \cup {Aw(i) : i \in 1 .. Calls}
                  \cup {Runner(i) : i \in 1 .. Calls}

\* What does not run is in one of its initial states.
Init ==
    /\ stage \in {"page", "accept", "socket", "wait_for", "server"}
    /\ WaitForInit /\ WebInit /\ PageInit /\ AcceptInit /\ SocketInit
    /\ stage # "server" => ~templates_loaded
    /\ stage # "socket" => state = "new" /\ timeout = "zero"

Next ==
    \/ /\ stage = "wait_for" /\ WaitForNext
       /\ UNCHANGED <<stage, webVars, pageVars, acceptVars, socketVars>>
    \/ /\ stage = "server" /\ WebNext
       /\ UNCHANGED <<stage, waitForVars, pageVars, acceptVars, socketVars>>
    \/ /\ stage = "page" /\ PageNext
       /\ UNCHANGED <<stage, waitForVars, webVars, acceptVars, socketVars>>
    \/ /\ stage = "accept" /\ AcceptNext
       /\ UNCHANGED <<stage, waitForVars, webVars, pageVars, socketVars>>
    \/ /\ stage = "socket" /\ SocketNext
       /\ UNCHANGED <<stage, waitForVars, webVars, pageVars, acceptVars>>

\* The fairness of the five specifications, each where its stage runs.
Waits(A) == stage = "wait_for" /\ A
Serves(A) == stage = "server" /\ A
Shows(A) == stage = "page" /\ A
Accepts(A) == stage = "accept" /\ A
Transfers(A) == stage = "socket" /\ A

Fairness ==
    /\ WF_waitForVars(Waits(Resume)) /\ WF_waitForVars(Waits(WaitForSteps))
    /\ WF_waitForVars(Waits(EndWaiter)) /\ WF_waitForVars(Waits(Runs))
    /\ WF_waitForVars(Waits(ReaderSteps)) /\ WF_waitForVars(Waits(Tick))
    /\ WF_waitForVars(Waits(OtherEnds))
    /\ \A c \in Clients :
           /\ WF_webVars(Serves(ReadsLine(c)))
           /\ WF_webVars(Serves(RoutesQuiet(c)))
           /\ WF_webVars(Serves(SendsQuiet(c)))
           /\ WF_webVars(Serves(Closes(c)))
    /\ WF_pageVars(Shows(Poll)) /\ WF_pageVars(Shows(BoardAnswers))
    /\ WF_pageVars(Shows(StateArrives))
    /\ WF_acceptVars(Accepts(Accept)) /\ WF_acceptVars(Accepts(AcceptAgain))
    /\ WF_acceptVars(Accepts(AcceptTimesOut))
    /\ WF_socketVars(Transfers(ConnectEnds))
    /\ WF_socketVars(Transfers(Receiving))
    /\ WF_socketVars(Transfers(Sending))

Spec == Init /\ [][Next]_requestVars /\ Fairness
=============================================================================
