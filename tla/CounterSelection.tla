---------------------------- MODULE CounterSelection ----------------------------
(***************************************************************************)
(* Which counters of which backend are active (profiling/client/src).      *)
(*                                                                         *)
(* PeriodicCounterSelectionCommandHandler.cpp turns each selection packet  *)
(* of the peer into calls of ActivateCounters on the backends.  It works   *)
(* with differences: m_BackendCounterMap and m_PrevBackendCounterIds are   *)
(* what the previous selections left, and only the backends whose counters *)
(* or period changed are told.  The capture thread                         *)
(* (PeriodicCounterCapture.cpp) reports the backends that the handler left *)
(* in the capture data (Holder.cpp).  The owner of the service stops it,   *)
(* and may reset it: the registrations go, the handler's memory does not.  *)
(*                                                                         *)
(* A counter is its global id; its id in its backend is determined by it   *)
(* (CounterIdMap.cpp).  The vector of a backend in m_BackendCounterMap is  *)
(* kept as the number of times each counter occurs in it: nothing depends  *)
(* on its order.                                                           *)
(***************************************************************************)
EXTENDS Naturals

CONSTANTS
  Backends,        \* backends with a profiling context
  ArmCounters,     \* counters of the runtime, ids up to m_MaxArmCounterId
  BackendCounters, \* counters registered by the backends, ids above it
  BackendOf,       \* the backend that registered a counter
  Unknown,         \* ids that are never registered
  Periods,         \* capture periods the peer asks for
  LowestPeriod     \* LOWEST_CAPTURE_PERIOD

ASSUME CounterSelectionAssumption ==
  /\ BackendOf \in [BackendCounters -> Backends]
  /\ ArmCounters \cap BackendCounters = {}
  /\ Unknown \cap (ArmCounters \cup BackendCounters) = {}
  /\ Periods \subseteq Nat
  /\ LowestPeriod \in Nat \ {0}

VARIABLES
  registered, \* counters of m_CounterDirectory and m_CounterIdMap
  contexts,   \* backends of m_BackendProfilingContexts
  mapped,     \* keys of m_BackendCounterMap
  listed,     \* per counter: how often it is in the vector of its backend
  prevIds,    \* m_PrevBackendCounterIds
  prevPeriod, \* m_PrevCapturePeriod
  holder,     \* m_CaptureDataHolder
  cmd,        \* where the handler is
  pending,    \* the capture data the handler is about to publish
  told,       \* per backend: the last call of ActivateCounters
  main,       \* the owner: "up", "stopping" the threads, "down"
  cap,        \* where the capture thread is ("none": not started, or ended)
  capKeep,    \* PeriodicCounterCapture::m_KeepRunning
  capRunning, \* PeriodicCounterCapture::m_IsRunning
  copy        \* currentCaptureData, the copy of the capture thread

handlerVars == <<mapped, listed, prevIds, prevPeriod, told>>
captureVars == <<cap, capKeep, capRunning, copy>>
registryVars == <<registered, contexts>>
vars == <<registryVars, handlerVars, holder, cmd, pending, main, captureVars>>

CountersOf(b) == {c \in BackendCounters : BackendOf[c] = b}
BackendsOf(ids) == {BackendOf[c] : c \in ids}

AllCounters == ArmCounters \cup BackendCounters
AllPeriods == Periods \cup {0, LowestPeriod}

Call == [period : AllPeriods, counters : SUBSET BackendCounters]
CaptureData ==
  [period : AllPeriods, counters : SUBSET ArmCounters, backends : SUBSET Backends]
Nothing == [period |-> 0, counters |-> {}, backends |-> {}]

\* The runtime's constructor has registered the backends' counters and the
\* service its own; it is connected and acknowledged.
Init ==
  /\ registered = AllCounters
  /\ contexts = Backends
  /\ mapped = {}
  /\ listed = [c \in BackendCounters |-> 0]
  /\ prevIds = {}
  /\ prevPeriod = 0
  /\ holder = Nothing
  /\ cmd = "idle"
  /\ pending = Nothing
  /\ told = [b \in Backends |-> [period |-> 0, counters |-> {}]]
  /\ main = "up"
  /\ cap = "none"
  /\ capKeep = FALSE
  /\ capRunning = FALSE
  /\ copy = Nothing
------------------------------------------------------------------------------
(* The selection handler, in the command thread.                            *)

\* A period that is too short is replaced by the shortest.
Clamp(period) == IF period > 0 /\ period < LowestPeriod THEN LowestPeriod ELSE period

\* The counters to remove, when m_BackendCounterMap has any key.
Unused(ids) == IF mapped = {} THEN {} ELSE prevIds \ ids

(* Mutant: every selected counter is new. *)
NewAlways(ids) == ids

\* The counters to add.
New(ids) == IF mapped = {} THEN ids ELSE ids \ prevIds

Listed(ids) ==
  [c \in BackendCounters |-> listed[c] + (IF c \in New(ids) THEN 1 ELSE 0)
                                       - (IF c \in Unused(ids) THEN 1 ELSE 0)]
InList(b, ids) == {c \in CountersOf(b) : Listed(ids)[c] > 0}

\* Backends whose vector becomes empty while the unused counters are erased.
Emptied(ids) == {b \in BackendsOf(Unused(ids)) : InList(b, ids) = {}}

\* changedBackends: a new counter, or an erased one that was not the last.
Changed(ids) ==
  BackendsOf(New(ids)) \cup
  {b \in BackendsOf(Unused(ids)) :
     \/ InList(b, ids) # {}
     \/ \E c, d \in Unused(ids) \cap CountersOf(b) : c # d}

(* Mutant: a new period is announced only to the backends that changed. *)
NotifiedChangedOnly(ids, period) == Changed(ids)

\* The backends told the period and their counters at the end: those that
\* changed, or all that were ever selected when the period is a new one.
Notified(ids, period) ==
  IF period = prevPeriod THEN Changed(ids) ELSE mapped \cup BackendsOf(New(ids))

\* The last call each backend gets: one for what it has now, or, when its last
\* counter was erased, one that deactivates it.
Told(ids, period) ==
  [b \in Backends |->
     IF b \in Notified(ids, period) THEN [period |-> period, counters |-> InList(b, ids)]
     ELSE IF b \in Emptied(ids) THEN [period |-> 0, counters |-> {}]
     ELSE told[b]]

\* activeBackends, from the ones in the capture data.
Active(ids, period) ==
  IF period = 0 /\ period # prevPeriod
    THEN {}
    ELSE (holder.backends \cup BackendsOf(New(ids))) \ Emptied(ids)

\* ProcessBackendCounterIds throws for an erased counter that is registered no
\* more, and for a backend to tell whose context is gone.  Both happen after a
\* reset, which takes them all: the first one throws.
Throws(ids, period) ==
  \/ ~(Unused(ids) \subseteq registered)
  \/ ~(Notified(ids, period) \subseteq contexts)

\* The handler up to the new capture data.  Counters that are not registered
\* are dropped, and those of the runtime are set apart.
Select(selection, asked) ==
  LET valid == selection \cap registered
      ids == valid \cap BackendCounters
      period == Clamp(asked)
  IN /\ main = "up"
     /\ cmd = "idle"
     /\ ~Throws(ids, period)
     /\ listed' = Listed(ids)
     /\ mapped' = mapped \cup BackendsOf(New(ids))
     /\ told' = Told(ids, period)
     /\ prevIds' = ids
     /\ prevPeriod' = period
     /\ pending' = [period |-> period,
                    counters |-> valid \cap ArmCounters,
                    backends |-> Active(ids, period)]
     /\ cmd' = "publish"
     /\ UNCHANGED <<registryVars, holder, main, captureVars>>

\* The handler leaves with an exception, which the command thread logs.  What
\* it added to m_BackendCounterMap stays.
SelectThrows(selection, asked) ==
  LET ids == selection \cap registered \cap BackendCounters
  IN /\ main = "up"
     /\ cmd = "idle"
     /\ Throws(ids, Clamp(asked))
     /\ listed' = [c \in BackendCounters |->
                     listed[c] + (IF c \in New(ids) THEN 1 ELSE 0)]
     /\ mapped' = mapped \cup BackendsOf(New(ids))
     /\ UNCHANGED <<registryVars, prevIds, prevPeriod, told, holder, cmd, pending,
                    main, captureVars>>

SetCaptureData ==
  /\ cmd = "publish"
  /\ holder' = pending
  /\ cmd' = "echo"
  /\ UNCHANGED <<registryVars, handlerVars, pending, main, captureVars>>

\* The packet is echoed, unless there is no buffer for it: then the capture
\* thread is left as it is.
Echo ==
  /\ cmd = "echo"
  /\ \/ cmd' = "idle"
     \/ cmd' = IF pending.period = 0 \/ (pending.counters = {} /\ prevIds = {})
                 THEN "stop" ELSE "start"
  /\ UNCHANGED <<registryVars, handlerVars, holder, pending, main, captureVars>>

\* PeriodicCounterCapture::Start.
StartCapture ==
  /\ cmd = "start"
  /\ cmd' = "idle"
  /\ IF capRunning
       THEN UNCHANGED captureVars
       ELSE /\ cap' = "read"
            /\ capKeep' = TRUE
            /\ capRunning' = TRUE
            /\ UNCHANGED copy
  /\ UNCHANGED <<registryVars, handlerVars, holder, pending, main>>

\* PeriodicCounterCapture::Stop: the flag, then the join.
StopCapture ==
  /\ cmd = "stop"
  /\ capKeep' = FALSE
  /\ cmd' = "join"
  /\ UNCHANGED <<registryVars, handlerVars, holder, pending, main, cap, capRunning, copy>>

JoinCapture ==
  /\ cmd = "join"
  /\ cap = "none"
  /\ capRunning' = FALSE
  /\ cmd' = "idle"
  /\ UNCHANGED <<registryVars, handlerVars, holder, pending, main, cap, capKeep, copy>>
------------------------------------------------------------------------------
(* The capture thread.                                                      *)

ReadCaptureData ==
  /\ cap = "read"
  /\ copy' = holder
  /\ cap' = IF holder.period = 0 THEN "test" ELSE "report"
  /\ UNCHANGED <<registryVars, handlerVars, holder, cmd, pending, main, capKeep, capRunning>>

\* Each active backend reports its counters (m_BackendProfilingContexts.at).
Report ==
  /\ cap = "report"
  /\ cap' = IF copy.backends \subseteq contexts THEN "test" ELSE "terminated"
  /\ UNCHANGED <<registryVars, handlerVars, holder, cmd, pending, main, capKeep, capRunning, copy>>

TestCapture ==
  /\ cap = "test"
  /\ cap' = IF capKeep THEN "read" ELSE "none"
  /\ UNCHANGED <<registryVars, handlerVars, holder, cmd, pending, main, capKeep, capRunning, copy>>
------------------------------------------------------------------------------
(* The owner of the service.                                                *)

\* ProfilingService::Stop: the command thread is joined, so it is between two
\* packets, and the capture thread is told to stop.
BeginStop ==
  /\ main = "up"
  /\ cmd = "idle"
  /\ main' = "stopping"
  /\ capKeep' = FALSE
  /\ UNCHANGED <<registryVars, handlerVars, holder, cmd, pending, cap, capRunning, copy>>

\* The capture thread is joined.
EndStop ==
  /\ main = "stopping"
  /\ cap = "none"
  /\ capRunning' = FALSE
  /\ main' = "down"
  /\ UNCHANGED <<registryVars, handlerVars, holder, cmd, pending, cap, capKeep, copy>>

(* Mutant: the reset also clears the memory of the handler. *)
ResetForgetsSelection ==
  /\ main = "down"
  /\ registered' = {}
  /\ contexts' = {}
  /\ mapped' = {}
  /\ listed' = [c \in BackendCounters |-> 0]
  /\ prevIds' = {}
  /\ UNCHANGED <<prevPeriod, told, holder, cmd, pending, main, captureVars>>

\* ProfilingService::Reset, once everything is stopped: the directory, the map
\* of the counter ids and the contexts are emptied.
Reset ==
  /\ main = "down"
  /\ registered' = {}
  /\ contexts' = {}
  /\ UNCHANGED <<handlerVars, holder, cmd, pending, main, captureVars>>

\* The service is initialised, which registers the counters of the runtime that
\* are missing, connected, and acknowledged.
Connect ==
  /\ main = "down"
  /\ main' = "up"
  /\ registered' = registered \cup ArmCounters
  /\ UNCHANGED <<contexts, handlerVars, holder, cmd, pending, captureVars>>

Next ==
  \/ \E selection \in SUBSET (AllCounters \cup Unknown), asked \in Periods :
       Select(selection, asked) \/ SelectThrows(selection, asked)
  \/ SetCaptureData \/ Echo \/ StartCapture \/ StopCapture \/ JoinCapture
  \/ ReadCaptureData \/ Report \/ TestCapture
  \/ BeginStop \/ EndStop \/ Reset \/ Connect

Spec == Init /\ [][Next]_vars
------------------------------------------------------------------------------
(* Properties.                                                              *)

\* The type invariant, for every variable of the handler, of the capture thread
\* and of the service.
TypeOK ==
  /\ registered \subseteq AllCounters
  /\ contexts \subseteq Backends
  /\ mapped \subseteq Backends
  /\ listed \in [BackendCounters -> Nat]
  /\ prevIds \subseteq BackendCounters
  /\ prevPeriod \in AllPeriods
  /\ holder \in CaptureData
  /\ cmd \in {"idle", "publish", "echo", "start", "stop", "join"}
  /\ pending \in CaptureData
  /\ told \in [Backends -> Call]
  /\ main \in {"up", "stopping", "down"}
  /\ cap \in {"none", "read", "report", "test", "terminated"}
  /\ capKeep \in BOOLEAN
  /\ capRunning \in BOOLEAN
  /\ copy \in CaptureData

\* What a backend was told last is what the last selection asked of it: its
\* counters, all of them and no other, with the period of that selection.  The
\* handler tells differences, to some of the backends, over any sequence of
\* selections and reconnections.
BackendsFollowSelection ==
  \A b \in contexts :
    /\ told[b].counters = prevIds \cap CountersOf(b)
    /\ told[b].counters # {} => told[b].period = prevPeriod

\* A counter is in the vector of its backend exactly once if it is selected, and
\* not otherwise: erase(remove(...)) with its single iterator is only defined
\* for a counter that is there, and removes it only if it is there once.
ListedOnce ==
  \A c \in BackendCounters : listed[c] = IF c \in prevIds THEN 1 ELSE 0

\* The capture thread never asks for the context of a backend that has none,
\* although a reset empties the contexts and leaves the active backends in the
\* capture data: no selection gets as far as to start the thread again.
CaptureFindsContext ==
  cap = "report" => copy.backends \subseteq contexts
===============================================================================
