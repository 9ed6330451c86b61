---------------------------- MODULE WifiControl ----------------------------
(***************************************************************************)
(* connect_wifi of the Digital Twin (pico_board.py, request_handler.py):   *)
(* clients ask the board to join another network.  ssid and password are   *)
(* set before hw_lock is taken, and read again under it.                   *)
(*                                                                         *)
(*   pc[c]  "idle"        no connect request under way                     *)
(*          "wifi_lock"   awaits hw_lock                                   *)
(*          "wifi_sleep"  holds hw_lock, 1 s after nic.disconnect()        *)
(*          "wifi_poll"   waits up to 15 s for the link, without the lock  *)
(*                                                                         *)
(* network.WLAN is external: connect() sets the network to join, the link  *)
(* to that network comes up and goes down by itself.                       *)
(***************************************************************************)
EXTENDS BoardTasks

CONSTANTS
    Ssids,      \* the networks (with their passwords)
    FirstSsid,  \* the network boot.py joined
    NoSsid,     \* the nic is told to join no network
    NicFails    \* BOOLEAN: the nic's methods may raise an exception

ASSUME WifiControlAssumption ==
    FirstSsid \in Ssids /\ NoSsid \notin Ssids /\ NicFails \in BOOLEAN

VARIABLES
    ssid,       \* Pico_board.ssid
    target,     \* the network the nic was last told to join
    up,         \* nic.isconnected()
    nic_error   \* the last connect_wifi ended in an exception of the nic

wifiVars == << ssid, target, up, nic_error >>

WifiInit ==
    /\ ssid = FirstSsid
    /\ target = FirstSsid
    /\ up = TRUE
    /\ nic_error = FALSE

\* Mutant of Join: an exception leaves the lock locked.
JoinFailsLocked(c, lk, s) ==
    \/ /\ target' = s
       /\ nic_error' = FALSE
       /\ hw_lock' = Release(lk)
       /\ Goto(c, "wifi_poll")
       /\ UNCHANGED up
    \/ /\ NicFails
       /\ nic_error' = TRUE
       /\ hw_lock' = lk
       /\ Goto(c, "idle")
       /\ UNCHANGED << target, up >>

\* nic.active(True); nic.connect(self.ssid, self.password); s is self.ssid.
Join(c, lk, s) ==
    \/ /\ target' = s
       /\ nic_error' = FALSE
       /\ hw_lock' = Release(lk)
       /\ Goto(c, "wifi_poll")
       /\ UNCHANGED up
    \/ /\ NicFails
       /\ nic_error' = TRUE
       /\ hw_lock' = Release(lk)
       /\ Goto(c, "idle")
       /\ UNCHANGED << target, up >>

\* The body under the lock, until it yields or ends.
ConnectLocked(c, lk, s) ==
    \/ /\ up
       /\ up' = FALSE
       /\ target' = NoSsid
       /\ hw_lock' = lk
       /\ Goto(c, "wifi_sleep")
       /\ UNCHANGED nic_error
    \/ /\ up /\ NicFails
       /\ nic_error' = TRUE
       /\ hw_lock' = Release(lk)
       /\ Goto(c, "idle")
       /\ UNCHANGED << target, up >>
    \/ /\ ~up
       /\ Join(c, lk, s)

\* handle_wifi_connect
ConnectWifi(c, s) ==
    /\ pc[c] = "idle"
    /\ ssid' = s
    /\ \/ Free(hw_lock) /\ ConnectLocked(c, Take(hw_lock), s)
       \/ /\ ~Free(hw_lock)
          /\ hw_lock' = Enqueue(hw_lock, c)
          /\ Goto(c, "wifi_lock")
          /\ UNCHANGED << target, up, nic_error >>

ConnectResume(c) ==
    /\ pc[c] = "wifi_lock"
    /\ Promised(c)
    /\ ConnectLocked(c, Take(hw_lock), ssid)
    /\ UNCHANGED ssid

\* Mutant of JoinAfterDisconnect: it joins the network of the boot script.
JoinAfterDisconnectBoot(c) ==
    /\ pc[c] = "wifi_sleep"
    /\ Join(c, hw_lock, FirstSsid)
    /\ UNCHANGED ssid

JoinAfterDisconnect(c) ==
    /\ pc[c] = "wifi_sleep"
    /\ Join(c, hw_lock, ssid)
    /\ UNCHANGED ssid

\* The polling loop ends: the link is up, or 15 s have passed.
PollEnds(c) ==
    /\ pc[c] = "wifi_poll"
    /\ Goto(c, "idle")
    /\ UNCHANGED << hw_lock, wifiVars >>

LinkComesUp ==
    /\ target # NoSsid /\ ~up
    /\ up' = TRUE
    /\ UNCHANGED << hw_lock, pc, ssid, target, nic_error >>

LinkGoesDown ==
    /\ up
    /\ up' = FALSE
    /\ UNCHANGED << hw_lock, pc, ssid, target, nic_error >>

-----------------------------------------------------------------------------
WifiStep(c) == ConnectResume(c) \/ JoinAfterDisconnect(c) \/ PollEnds(c)

\* A request that the handler passes on (by request_handler.py:75, see
\* PinActions).
WifiRequest(c) == \E s \in Ssids : ConnectWifi(c, s)

Link == LinkComesUp \/ LinkGoesDown

WifiReader == (ReadBegins \/ ReadGoesOn) /\ UNCHANGED wifiVars

WifiNext ==
    \/ Link
    \/ WifiReader
    \/ \E c \in Clients : WifiRequest(c) \/ WifiStep(c)

wifiAllVars == << hw_lock, pc, wifiVars >>

WifiSystemInit ==
    /\ hw_lock = NewLock
    /\ pc = [t \in Tasks |-> "idle"]
    /\ WifiInit

\* The loop runs every task whose sleep has ended or that has the lock.
WifiSpec ==
    /\ WifiSystemInit
    /\ [][WifiNext]_wifiAllVars
    /\ \A c \in Clients : WF_wifiAllVars(WifiStep(c))
    /\ WF_wifiAllVars(ReadGoesOn /\ UNCHANGED wifiVars)

-----------------------------------------------------------------------------
(***************************************************************************)
(* Properties                                                              *)
(***************************************************************************)

WifiTypeOK ==
    /\ hw_lock \in Locks
    /\ ssid \in Ssids
    /\ target \in Ssids \cup {NoSsid}
    /\ up \in BOOLEAN
    /\ nic_error \in BOOLEAN

\* The network that export_state_dict reports as "wifi_ssid" is the one the
\* nic was told to join, unless a connect is under way or has failed: of
\* several concurrent connects, the one that set ssid last wins on the nic
\* too, although each sets it before it waits for the lock.
NicJoinsReportedSsid ==
    \/ nic_error
    \/ \E c \in Clients : pc[c] \in {"wifi_lock", "wifi_sleep"}
    \/ target = ssid
=============================================================================
