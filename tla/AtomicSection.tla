--------------------------- MODULE AtomicSection ----------------------------
(***************************************************************************)
(* MICROPY_BEGIN_ATOMIC_SECTION and MICROPY_END_ATOMIC_SECTION of the rp2  *)
(* port (ports/rp2/mpthreadport.c, mutex_extra.c), on which the scheduler  *)
(* rests.  While core 1 runs Python the section takes a recursive mutex,   *)
(* otherwise it only disables interrupts; which of the two is asked again  *)
(* when it ends, and core 1 may have started or stopped in between.        *)
(*                                                                         *)
(* Starting and stopping the thread of core 1 is modelled with it:         *)
(* mp_thread_create, the end of core1_entry_wrapper, mp_thread_deinit.     *)
(***************************************************************************)
EXTENDS Integers, Sequences, RecursiveMutex

CONSTANTS MaxNesting,  \* bound: sections within sections
          MaxSections, \* bound: how many sections a core begins
          MaxThreads   \* bound: how often core 1 is started

ASSUME AtomicAssumption ==
    MaxNesting \in Nat /\ MaxSections \in Nat /\ MaxThreads \in Nat

VARIABLES entry,         \* core1_entry is not NULL
          running,       \* core 1 runs
          atomic_mutex,
          want,          \* "no", or what begin is about to do
          saved,         \* the interrupt states of the open sections
          enabled,       \* interrupts are enabled on a core
          resetting,     \* core 0 is between the two lines of the deinit
          cut,           \* core 1 was reset while it had the mutex
          begun,         \* how many sections a core has begun
          threads

cores == <<want, saved, enabled, begun>>
reset == <<resetting, cut, threads>>
atomicVars == <<entry, running, atomic_mutex, cores, reset>>
-----------------------------------------------------------------------------
AtomicInit == /\ entry = FALSE /\ running = FALSE
              /\ atomic_mutex = Unowned
              /\ want = [c \in Cores |-> "no"]
              /\ saved = [c \in Cores |-> <<>>]
              /\ enabled = [c \in Cores |-> TRUE]
              /\ begun = [c \in Cores |-> 0]
              /\ resetting = FALSE /\ cut = FALSE /\ threads = 0

\* mp_thread_begin_atomic_section looks at core1_entry ...
BeginReads(c) ==
    /\ c = 1 => running
    /\ want[c] = "no" /\ Len(saved[c]) < MaxNesting
    /\ begun[c] < MaxSections
    /\ begun' = [begun EXCEPT ![c] = @ + 1]
    /\ want' = [want EXCEPT ![c] = IF entry THEN "mutex" ELSE "plain"]
    /\ UNCHANGED <<entry, running, atomic_mutex, saved, enabled, reset>>

\* ... and takes the mutex or not.  In both cases interrupts are disabled.
BeginEnters(c) ==
    /\ want[c] # "no"
    /\ \/ want[c] = "plain" /\ UNCHANGED atomic_mutex
       \/ /\ want[c] = "mutex" /\ MayEnter(atomic_mutex, c)
          /\ atomic_mutex' = Entered(atomic_mutex, c)
    /\ want' = [want EXCEPT ![c] = "no"]
    /\ saved' = [saved EXCEPT ![c] = Append(@, enabled[c])]
    /\ enabled' = [enabled EXCEPT ![c] = FALSE]
    /\ UNCHANGED <<entry, running, begun, reset>>

\* Mutant of Leave: core1_entry is asked again.
LeaveByEntry ==
    atomic_mutex' = IF entry THEN Exited(atomic_mutex) ELSE atomic_mutex

\* Leaving the mutex, if anybody owns it.
Leave ==
    atomic_mutex' = IF atomic_mutex.owner # Free THEN Exited(atomic_mutex)
                                                 ELSE atomic_mutex

\* mp_thread_end_atomic_section
End(c) ==
    /\ want[c] = "no" /\ saved[c] # <<>>
    /\ Leave
    /\ enabled' = [enabled EXCEPT ![c] = saved[c][Len(saved[c])]]
    /\ saved' = [saved EXCEPT ![c] = SubSeq(@, 1, Len(@) - 1)]
    /\ UNCHANGED <<entry, running, want, begun, reset>>
-----------------------------------------------------------------------------
\* mp_thread_create on core 0; "core1 in use" if there is a thread already.
CreateThread ==
    /\ want[0] = "no" /\ saved[0] = <<>> /\ ~resetting
    /\ ~entry /\ ~running /\ threads < MaxThreads
    /\ entry' = TRUE /\ running' = TRUE /\ threads' = threads + 1
    /\ UNCHANGED <<atomic_mutex, cores, resetting, cut>>

\* The thread's function returns, core1_entry_wrapper.
ThreadReturns ==
    /\ running /\ want[1] = "no" /\ saved[1] = <<>>
    /\ entry' = FALSE /\ running' = FALSE
    /\ UNCHANGED <<atomic_mutex, cores, reset>>

\* mp_thread_deinit: core 1 is reset wherever it is, and then core1_entry
\* is cleared.  The GC mutex, which it takes, is not part of this module.
ResetCore1 ==
    /\ running /\ ~resetting
    /\ want[0] = "no" /\ saved[0] = <<>>
    /\ running' = FALSE /\ resetting' = TRUE
    /\ cut' = (cut \/ atomic_mutex.owner = 1)
    /\ want' = [want EXCEPT ![1] = "no"]
    /\ saved' = [saved EXCEPT ![1] = <<>>]
    /\ enabled' = [enabled EXCEPT ![1] = TRUE]
    /\ UNCHANGED <<entry, atomic_mutex, begun, threads>>

ClearEntry ==
    /\ resetting /\ want[0] = "no" /\ saved[0] = <<>>
    /\ entry' = FALSE /\ resetting' = FALSE
    /\ UNCHANGED <<running, atomic_mutex, cores, cut, threads>>

\* A core outside of sections does other things, or spins for the mutex.
Other == UNCHANGED atomicVars

Begins == \E c \in Cores : BeginReads(c)
Enters == \E c \in Cores : BeginEnters(c)
Ends == \E c \in Cores : End(c)

AtomicNext == \/ Begins \/ Enters \/ Ends \/ CreateThread \/ ThreadReturns
              \/ ResetCore1 \/ ClearEntry \/ Other

(***************************************************************************)
(* A section that was begun ends.  The mutex is a spin lock and no queue:  *)
(* a core that waits for it gets it once the other core, whose sections    *)
(* are bounded here, leaves it alone.                                      *)
(***************************************************************************)
AtomicSpec == /\ AtomicInit /\ [][AtomicNext]_atomicVars
              /\ \A c \in Cores : /\ WF_atomicVars(BeginEnters(c))
                                  /\ WF_atomicVars(End(c))
-----------------------------------------------------------------------------
Inside(c) == saved[c] # <<>>

\* No two cores are in an atomic section at once, whenever core 1 starts
\* and stops ("we also need to provide full mutual exclusion",
\* mpthreadport.c:53-54).
SectionsExclude == ~(Inside(0) /\ Inside(1))

\* Outside of all sections the mutex is free and interrupts are enabled,
\* also if an inner section did not take the mutex and the outer one did.
\* Only a reset of core 1 inside a section leaves the mutex taken.
NothingIsLeftLocked ==
    /\ \A c \in Cores : enabled[c] <=> ~Inside(c)
    /\ ~Inside(0) /\ ~Inside(1) /\ ~cut => atomic_mutex.owner = Free

\* A core that begins a section gets into it, unless core 1 was reset
\* inside one.
SectionIsEntered ==
    \A c \in Cores : want[c] # "no" ~> want[c] = "no" \/ cut

\* Atomic sections exclude one another, are left as they were entered, and
\* are entered (mpthreadport.c:41-75), whenever core 1 starts and stops.
SectionsAreAtomic ==
    [](SectionsExclude /\ NothingIsLeftLocked) /\ SectionIsEntered
=============================================================================
