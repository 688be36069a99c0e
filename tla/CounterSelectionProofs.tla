------------------------- MODULE CounterSelectionProofs -------------------------
(***************************************************************************)
(* Proofs about CounterSelection for every set of backends, of counters    *)
(* and of capture periods.                                                 *)
(***************************************************************************)
EXTENDS CounterSelection, TLAPS

\* What the service registered is there, or a reset has taken all of it that
\* the backends had.
RegistryAgrees ==
  \/ registered = AllCounters /\ contexts = Backends
  \/ registered \subseteq ArmCounters /\ contexts = {}

\* Every backend of the last selection has a vector in m_BackendCounterMap.
MappedCovers == BackendsOf(prevIds) \subseteq mapped

\* The handler tells every backend what the selection asks, of the ones whose
\* context is gone too.
ToldAgrees ==
  \A b \in Backends :
    /\ told[b].counters = prevIds \cap CountersOf(b)
    /\ told[b].counters # {} => told[b].period = prevPeriod

\* An active backend has a selected counter.
ActiveSelected ==
  IF cmd = "publish" THEN pending.backends \subseteq BackendsOf(prevIds)
                     ELSE holder.backends \subseteq BackendsOf(prevIds)

\* A stopped service has neither a selection under way nor a capture thread.
DownIsQuiet ==
  /\ main # "up" => cmd = "idle"
  /\ main = "down" => cap = "none"

\* After a reset nothing is captured until a selection gets through, which the
\* handler's memory of a backend's counter forbids.
NoCaptureAfterReset ==
  contexts = {} =>
    \/ cap = "none" /\ cmd = "idle"
    \/ prevIds = {} /\ holder.backends = {} /\ (cap = "report" => copy.backends = {})

SelectionInv ==
  /\ TypeOK
  /\ RegistryAgrees
  /\ MappedCovers
  /\ ListedOnce
  /\ ToldAgrees
  /\ ActiveSelected
  /\ DownIsQuiet
  /\ NoCaptureAfterReset
------------------------------------------------------------------------------
\* The differences of the handler, applied to its vectors, give the selection:
\* each selected counter once.
LEMMA ListedIsSelection ==
  ASSUME ListedOnce, MappedCovers, prevIds \subseteq BackendCounters,
         NEW ids \in SUBSET BackendCounters, NEW c \in BackendCounters
  PROVE  Listed(ids)[c] = IF c \in ids THEN 1 ELSE 0
<1>1. listed[c] = IF c \in prevIds THEN 1 ELSE 0
  BY DEF ListedOnce
<1>2. Listed(ids)[c] = listed[c] + (IF c \in New(ids) THEN 1 ELSE 0)
                                 - (IF c \in Unused(ids) THEN 1 ELSE 0)
  BY DEF Listed
<1>3. CASE mapped = {}
  <2>1. prevIds = {}
    BY <1>3 DEF MappedCovers, BackendsOf
  <2>2. New(ids) = ids /\ Unused(ids) = {}
    BY <1>3 DEF New, Unused
  <2>3. QED
    BY <1>1, <1>2, <2>1, <2>2
<1>4. CASE mapped # {}
  <2>1. New(ids) = ids \ prevIds /\ Unused(ids) = prevIds \ ids
    BY <1>4 DEF New, Unused
  <2>2. QED
    BY <1>1, <1>2, <2>1
<1>5. QED
  BY <1>3, <1>4

\* So the vector of a backend holds the selected counters of it.
LEMMA InListIsSelection ==
  ASSUME ListedOnce, MappedCovers, prevIds \subseteq BackendCounters,
         NEW ids \in SUBSET BackendCounters, NEW b \in Backends
  PROVE  InList(b, ids) = ids \cap CountersOf(b)
<1>1. \A c \in CountersOf(b) : c \in BackendCounters
  BY DEF CountersOf
<1>2. \A c \in CountersOf(b) : Listed(ids)[c] > 0 <=> c \in ids
  BY <1>1, ListedIsSelection
<1>3. QED
  BY <1>2 DEF InList

\* Where the new and the unused counters come from.
LEMMA Differences ==
  ASSUME MappedCovers, NEW ids \in SUBSET BackendCounters
  PROVE  New(ids) = ids \ prevIds /\ Unused(ids) = prevIds \ ids
BY DEF MappedCovers, BackendsOf, New, Unused

\* A backend that gets no call at all keeps its counters.
LEMMA NotToldUnchanged ==
  ASSUME ListedOnce, MappedCovers, prevIds \subseteq BackendCounters,
         NEW ids \in SUBSET BackendCounters, NEW period, NEW b \in Backends,
         b \notin Notified(ids, period), b \notin Emptied(ids)
  PROVE  /\ ids \cap CountersOf(b) = prevIds \cap CountersOf(b)
         /\ ids \cap CountersOf(b) # {} => period = prevPeriod
<1>1. New(ids) = ids \ prevIds /\ Unused(ids) = prevIds \ ids
  BY Differences
<1>2. b \notin BackendsOf(New(ids))
  BY DEF Notified, Changed
<1>3. \A c \in ids \cap CountersOf(b) : c \in prevIds
  BY <1>1, <1>2 DEF BackendsOf, CountersOf
<1>4. CASE period = prevPeriod
  <2>1. b \notin BackendsOf(Unused(ids))
    BY <1>4 DEF Notified, Changed, Emptied
  <2>2. \A c \in prevIds \cap CountersOf(b) : c \in ids
    BY <1>1, <2>1 DEF BackendsOf, CountersOf
  <2>3. QED
    BY <1>3, <1>4, <2>2
<1>5. CASE period # prevPeriod
  <2>1. b \notin mapped
    BY <1>5 DEF Notified
  <2>2. prevIds \cap CountersOf(b) = {}
    BY <2>1 DEF MappedCovers, BackendsOf, CountersOf
  <2>3. QED
    BY <1>3, <2>2
<1>6. QED
  BY <1>4, <1>5

\* Every backend has, after its last call, the selected counters of it and the
\* period of the selection.
LEMMA ToldIsSelection ==
  ASSUME ListedOnce, MappedCovers, ToldAgrees, prevIds \subseteq BackendCounters,
         NEW ids \in SUBSET BackendCounters, NEW period, NEW b \in Backends
  PROVE  /\ Told(ids, period)[b].counters = ids \cap CountersOf(b)
         /\ Told(ids, period)[b].counters # {} => Told(ids, period)[b].period = period
<1>1. InList(b, ids) = ids \cap CountersOf(b)
  BY InListIsSelection
<1>2. CASE b \in Notified(ids, period)
  <2>1. Told(ids, period)[b] = [period |-> period, counters |-> InList(b, ids)]
    BY <1>2 DEF Told
  <2>2. QED
    BY <1>1, <2>1
<1>3. CASE b \notin Notified(ids, period) /\ b \in Emptied(ids)
  <2>1. Told(ids, period)[b] = [period |-> 0, counters |-> {}]
    BY <1>3 DEF Told
  <2>2. InList(b, ids) = {}
    BY <1>3 DEF Emptied
  <2>3. QED
    BY <1>1, <2>1, <2>2
<1>4. CASE b \notin Notified(ids, period) /\ b \notin Emptied(ids)
  <2>1. Told(ids, period)[b] = told[b]
    BY <1>4 DEF Told
  <2>2. told[b].counters = prevIds \cap CountersOf(b)
        /\ (told[b].counters # {} => told[b].period = prevPeriod)
    BY DEF ToldAgrees
  <2>3. QED
    BY <1>4, <2>1, <2>2, NotToldUnchanged
<1>5. QED
  BY <1>2, <1>3, <1>4

\* A backend left in the capture data has a selected counter.
LEMMA ActiveIsSelected ==
  ASSUME ListedOnce, MappedCovers, prevIds \subseteq BackendCounters,
         CounterSelectionAssumption,
         holder.backends \subseteq BackendsOf(prevIds),
         NEW ids \in SUBSET BackendCounters, NEW period
  PROVE  Active(ids, period) \subseteq BackendsOf(ids)
<1> SUFFICES ASSUME NEW b \in Active(ids, period)
             PROVE  b \in BackendsOf(ids)
  OBVIOUS
<1>1. New(ids) = ids \ prevIds /\ Unused(ids) = prevIds \ ids
  BY Differences
<1>2. b \in holder.backends \cup BackendsOf(New(ids)) /\ b \notin Emptied(ids)
  BY DEF Active
<1>3. CASE b \in BackendsOf(New(ids))
  BY <1>1, <1>3 DEF BackendsOf
<1>4. CASE b \in BackendsOf(prevIds)
  <2>1. PICK c \in prevIds : BackendOf[c] = b
    BY <1>4 DEF BackendsOf
  <2>2. CASE c \in ids
    BY <2>1, <2>2 DEF BackendsOf
  <2>3. CASE c \notin ids
    <3>1. b \in BackendsOf(Unused(ids))
      BY <1>1, <2>1, <2>3 DEF BackendsOf
    <3>2. InList(b, ids) # {}
      BY <1>2, <3>1 DEF Emptied
    <3>3. b \in Backends
      BY <2>1 DEF CounterSelectionAssumption
    <3>4. ids \cap CountersOf(b) # {}
      BY <3>2, <3>3, InListIsSelection
    <3>5. QED
      BY <3>4 DEF CountersOf, BackendsOf
  <2>4. QED
    BY <2>2, <2>3
<1>5. QED
  BY <1>2, <1>3, <1>4
------------------------------------------------------------------------------
\* The handler keeps the invariant through a selection.
LEMMA SelectStep ==
  ASSUME SelectionInv, NEW selection \in SUBSET (AllCounters \cup Unknown),
         NEW asked \in Periods, Select(selection, asked)
  PROVE  SelectionInv'
<1> DEFINE ids == selection \cap registered \cap BackendCounters
           period == Clamp(asked)
<1> USE CounterSelectionAssumption
<1>1. ids \in SUBSET BackendCounters /\ prevIds \subseteq BackendCounters
  BY DEF SelectionInv, TypeOK
<1>2. /\ main = "up" /\ cmd = "idle" /\ cmd' = "publish"
      /\ ~Throws(ids, period)
      /\ listed' = Listed(ids)
      /\ mapped' = mapped \cup BackendsOf(New(ids))
      /\ told' = Told(ids, period)
      /\ prevIds' = ids
      /\ prevPeriod' = period
      /\ pending' = [period |-> period, counters |-> selection \cap registered \cap ArmCounters,
                     backends |-> Active(ids, period)]
      /\ UNCHANGED <<registered, contexts, holder, main, cap, capKeep, capRunning, copy>>
  BY DEF Select, registryVars, captureVars
<1>3. ListedOnce /\ MappedCovers /\ ToldAgrees /\ RegistryAgrees /\ TypeOK
      /\ holder.backends \subseteq BackendsOf(prevIds)
  BY <1>2 DEF SelectionInv, ActiveSelected
<1> HIDE DEF ids, period
<1>4. New(ids) = ids \ prevIds /\ Unused(ids) = prevIds \ ids
  BY <1>1, <1>3, Differences
<1>5. period \in AllPeriods
  BY DEF period, Clamp, AllPeriods
<1>6. \A c \in BackendCounters : Listed(ids)[c] = IF c \in ids THEN 1 ELSE 0
  BY <1>1, <1>3, ListedIsSelection
<1>7. Active(ids, period) \subseteq BackendsOf(ids)
  BY <1>1, <1>3, ActiveIsSelected
<1>8. BackendsOf(ids) \subseteq Backends
  BY <1>1 DEF BackendsOf
<1>9. \A b \in Backends :
        /\ Told(ids, period)[b].counters = ids \cap CountersOf(b)
        /\ Told(ids, period)[b].counters # {} => Told(ids, period)[b].period = period
  BY <1>1, <1>3, ToldIsSelection
<1>10. TypeOK'
  <2>1. mapped' \subseteq Backends
    BY <1>1, <1>2, <1>3, <1>4, <1>8 DEF BackendsOf, TypeOK
  <2>2. listed' \in [BackendCounters -> Nat]
    <3>1. Listed(ids) = [c \in BackendCounters |-> Listed(ids)[c]]
      BY DEF Listed
    <3>2. QED
      BY <1>2, <1>6, <3>1
  <2>3. pending' \in CaptureData
    BY <1>2, <1>5, <1>7, <1>8 DEF CaptureData
  <2>4. told' \in [Backends -> Call]
    <3>1. \A b \in Backends : InList(b, ids) = ids \cap CountersOf(b)
      BY <1>1, <1>3, InListIsSelection
    <3>2. \A b \in Backends : [period |-> period, counters |-> InList(b, ids)] \in Call
      BY <1>1, <1>5, <3>1 DEF Call
    <3>3. [period |-> 0, counters |-> {}] \in Call
      BY DEF Call, AllPeriods
    <3>4. \A b \in Backends : Told(ids, period)[b] \in Call
      BY <1>3, <3>2, <3>3 DEF Told, TypeOK
    <3>5. Told(ids, period) = [b \in Backends |-> Told(ids, period)[b]]
      BY DEF Told
    <3>6. QED
      BY <1>2, <3>4, <3>5
  <2>5. QED
    BY <1>1, <1>2, <1>3, <1>5, <2>1, <2>2, <2>3, <2>4 DEF TypeOK
<1>11. RegistryAgrees'
  BY <1>2, <1>3 DEF RegistryAgrees
<1>12. MappedCovers'
  BY <1>2, <1>3, <1>4 DEF MappedCovers, BackendsOf
<1>13. ListedOnce'
  BY <1>2, <1>6 DEF ListedOnce
<1>14. ToldAgrees'
  BY <1>2, <1>9 DEF ToldAgrees
<1>15. ActiveSelected'
  BY <1>2, <1>7 DEF ActiveSelected
<1>16. DownIsQuiet'
  BY <1>2 DEF DownIsQuiet
<1>17. NoCaptureAfterReset'
  <2> SUFFICES ASSUME contexts = {}
               PROVE  ids = {} /\ holder.backends = {} /\ (cap = "report" => copy.backends = {})
    BY <1>2 DEF NoCaptureAfterReset
  <2>1. ids = {}
    <3>1. CASE registered \subseteq ArmCounters
      BY <3>1 DEF ids
    <3>2. CASE Backends = {}
      BY <1>1, <3>2
    <3>3. QED
      BY <1>3, <3>1, <3>2 DEF RegistryAgrees
  <2>2. Unused(ids) \subseteq registered
    BY <1>2 DEF Throws
  <2>3. prevIds = {}
    <3>1. CASE registered \subseteq ArmCounters
      BY <1>1, <1>4, <2>1, <2>2, <3>1
    <3>2. CASE Backends = {}
      BY <1>1, <3>2
    <3>3. QED
      BY <1>3, <3>1, <3>2 DEF RegistryAgrees
  <2>4. holder.backends = {}
    BY <1>3, <2>3 DEF BackendsOf
  <2>5. cap = "report" => copy.backends = {}
    BY <1>2 DEF SelectionInv, NoCaptureAfterReset
  <2>6. QED
    BY <2>1, <2>4, <2>5
<1>18. QED
  BY <1>10, <1>11, <1>12, <1>13, <1>14, <1>15, <1>16, <1>17 DEF SelectionInv

\* An exception of the handler leaves the invariant: it comes after a reset,
\* when no backend counter is valid, and so before anything was added.
LEMMA SelectThrowsStep ==
  ASSUME SelectionInv, NEW selection \in SUBSET (AllCounters \cup Unknown),
         NEW asked \in Periods, SelectThrows(selection, asked)
  PROVE  SelectionInv'
<1> DEFINE ids == selection \cap registered \cap BackendCounters
           period == Clamp(asked)
<1> USE CounterSelectionAssumption
<1>1. ids \in SUBSET BackendCounters /\ prevIds \subseteq BackendCounters /\ TypeOK
  BY DEF SelectionInv, TypeOK
<1>2. /\ Throws(ids, period)
      /\ listed' = [c \in BackendCounters |-> listed[c] + (IF c \in New(ids) THEN 1 ELSE 0)]
      /\ mapped' = mapped \cup BackendsOf(New(ids))
      /\ UNCHANGED <<registered, contexts, prevIds, prevPeriod, told, holder, cmd, pending,
                     main, cap, capKeep, capRunning, copy>>
  BY DEF SelectThrows, registryVars, captureVars
<1> HIDE DEF ids, period
<1>3. New(ids) = ids \ prevIds /\ Unused(ids) = prevIds \ ids
  BY <1>1, Differences DEF SelectionInv
<1>4. ids = {}
  <2>1. CASE registered \subseteq ArmCounters
    BY <2>1 DEF ids
  <2>2. CASE registered = AllCounters /\ contexts = Backends
    <3>1. Unused(ids) \subseteq registered
      BY <1>1, <1>3, <2>2 DEF AllCounters
    <3>2. Notified(ids, period) \subseteq contexts
      BY <1>1, <1>3, <2>2 DEF Notified, Changed, BackendsOf, TypeOK
    <3>3. QED
      BY <1>2, <3>1, <3>2 DEF Throws
  <2>3. QED
    BY <2>1, <2>2 DEF SelectionInv, RegistryAgrees
<1>5. New(ids) = {}
  BY <1>3, <1>4
<1>6. listed' = listed /\ mapped' = mapped
  <2>1. listed \in [BackendCounters -> Nat]
    BY <1>1 DEF TypeOK
  <2>2. QED
    BY <1>2, <1>5, <2>1 DEF BackendsOf
<1>7. QED
  BY <1>2, <1>6 DEF SelectionInv, TypeOK, RegistryAgrees, MappedCovers, ListedOnce, ToldAgrees,
                    ActiveSelected, DownIsQuiet, NoCaptureAfterReset

\* The other steps leave the handler's memory alone, except those of the rest
\* of the handler, of the capture thread and of the owner.
LEMMA SelectionStep ==
  ASSUME SelectionInv, [Next]_vars
  PROVE  SelectionInv'
<1> USE CounterSelectionAssumption
        DEF SelectionInv, TypeOK, RegistryAgrees, MappedCovers, ListedOnce, ToldAgrees,
            ActiveSelected, DownIsQuiet, NoCaptureAfterReset,
            handlerVars, captureVars, registryVars, CountersOf
<1>1. ASSUME NEW selection \in SUBSET (AllCounters \cup Unknown), NEW asked \in Periods,
             Select(selection, asked)
      PROVE  SelectionInv'
  BY <1>1, SelectStep
<1>2. ASSUME NEW selection \in SUBSET (AllCounters \cup Unknown), NEW asked \in Periods,
             SelectThrows(selection, asked)
      PROVE  SelectionInv'
  BY <1>2, SelectThrowsStep
<1>3. CASE SetCaptureData
  BY <1>3 DEF SetCaptureData, BackendsOf
<1>4. CASE Echo
  BY <1>4 DEF Echo
<1>5. CASE StartCapture
  BY <1>5 DEF StartCapture
<1>6. CASE StopCapture
  BY <1>6 DEF StopCapture
<1>7. CASE JoinCapture
  BY <1>7 DEF JoinCapture
<1>8. CASE ReadCaptureData
  BY <1>8 DEF ReadCaptureData
<1>9. CASE Report
  BY <1>9 DEF Report
<1>10. CASE TestCapture
  BY <1>10 DEF TestCapture
<1>11. CASE BeginStop
  BY <1>11 DEF BeginStop
<1>12. CASE EndStop
  BY <1>12 DEF EndStop
<1>13. CASE Reset
  BY <1>13 DEF Reset
<1>14. CASE Connect
  BY <1>14 DEF Connect, AllCounters
<1>15. CASE UNCHANGED vars
  BY <1>15 DEF vars
<1>16. QED
  BY <1>1, <1>2, <1>3, <1>4, <1>5, <1>6, <1>7, <1>8, <1>9, <1>10, <1>11, <1>12, <1>13,
     <1>14, <1>15 DEF Next

\* The runtime has started: nothing is selected.
LEMMA SelectionInit ==
  ASSUME Init
  PROVE  SelectionInv
BY CounterSelectionAssumption
   DEF Init, SelectionInv, TypeOK, RegistryAgrees, MappedCovers, ListedOnce, ToldAgrees,
       ActiveSelected, DownIsQuiet, NoCaptureAfterReset, BackendsOf, Nothing, CaptureData, Call,
       AllPeriods

\* The inductive invariant of the counter selection
\* (PeriodicCounterSelectionCommandHandler.cpp).
THEOREM SelectionInvariant == Spec => []SelectionInv
<1>1. Init => SelectionInv
  BY SelectionInit
<1>2. SelectionInv /\ [Next]_vars => SelectionInv'
  BY SelectionStep
<1>3. QED
  BY <1>1, <1>2, PTL DEF Spec

\* Every variable of the handler, the capture thread and the service keeps its
\* type; no counter is erased from a vector more often than it was added.
THEOREM TypeCorrect == Spec => []TypeOK
<1>1. SelectionInv => TypeOK
  BY DEF SelectionInv
<1>2. QED
  BY <1>1, SelectionInvariant, PTL

\* The vectors of m_BackendCounterMap hold each selected counter once.
THEOREM ListedOnceHolds == Spec => []ListedOnce
<1>1. SelectionInv => ListedOnce
  BY DEF SelectionInv
<1>2. QED
  BY <1>1, SelectionInvariant, PTL

\* The differences told to the backends add up to the last selection.
THEOREM BackendsFollowSelectionHolds == Spec => []BackendsFollowSelection
<1>1. SelectionInv => BackendsFollowSelection
  BY DEF SelectionInv, TypeOK, ToldAgrees, BackendsFollowSelection
<1>2. QED
  BY <1>1, SelectionInvariant, PTL

\* The capture thread finds the context of every backend it reports, although
\* m_BackendProfilingContexts is emptied by a reset (PeriodicCounterCapture.cpp).
THEOREM CaptureFindsContextHolds == Spec => []CaptureFindsContext
<1>1. SelectionInv => CaptureFindsContext
  <2> SUFFICES ASSUME SelectionInv, cap = "report"
               PROVE  copy.backends \subseteq contexts
    BY DEF CaptureFindsContext
  <2>1. CASE contexts = Backends
    BY <2>1 DEF SelectionInv, TypeOK, CaptureData
  <2>2. CASE contexts = {}
    BY <2>2 DEF SelectionInv, NoCaptureAfterReset
  <2>3. QED
    BY <2>1, <2>2 DEF SelectionInv, RegistryAgrees
<1>2. QED
  BY <1>1, SelectionInvariant, PTL
===============================================================================
