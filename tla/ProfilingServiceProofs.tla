------------------------- MODULE ProfilingServiceProofs -------------------------
(***************************************************************************)
(* What the owner of the profiling service, the command thread and the     *)
(* capture thread keep true of each other, for any number of selections    *)
(* and sessions.  The inductive invariant ties the threads to the state of *)
(* the service: a thread that is not joined exists only while the service  *)
(* is connected, and while the owner stops them, only the components still *)
(* to be stopped have one.                                                 *)
(***************************************************************************)
EXTENDS ProfilingService, TLAPS

Connected == state \in {"WaitingForAck", "Active"}

\* A thread is joined before the connection is given up, and there is a
\* connection as long as the service is connected.
ThreadsNeedConnection ==
  /\ \A c \in Components : thread[c] # "none" => Connected
  /\ connection # "null" <=> Connected

\* The flags of the three components and their threads.
FlagsAgree ==
  /\ running["command"] <=> thread["command"] = "running"
  /\ running["send"] <=> thread["send"] = "running"
  /\ running["capture"] <=> thread["capture"] # "none"

ThreadsUseSession ==
  \A c \in Components : thread[c] = "running" => uses[c] = session

\* The handlers that are past their test of the state, and the capture thread,
\* run in the Active state.
ActiveWhenHandled ==
  /\ thread["capture"] # "none" => state = "Active"
  /\ thread["command"] = "running" /\ cmd \in {"announce", "notify", "echo", "apply", "join"}
       => state = "Active"

\* While the owner stops the threads, those that are left are still to be stopped.
StopProgress ==
  main \in {"signal", "join"} =>
    IF purpose = "connect"
    THEN state = "NotConnected"
    ELSE /\ purpose \in {"stop", "reset", "destroy"}
         /\ todo \in {<<"command", "capture", "send">>, <<"capture", "send">>, <<"send">>, <<>>}
         /\ thread["command"] # "none" => todo = <<"command", "capture", "send">>
         /\ thread["capture"] # "none" =>
              todo \in {<<"command", "capture", "send">>, <<"capture", "send">>}
         /\ thread["send"] # "none" => todo # <<>>

MainProgress ==
  /\ main = "join" => todo # <<>>
  /\ main \in {"startCommand", "startSend"} => Connected

LifeParts ==
  /\ ThreadsNeedConnection
  /\ FlagsAgree
  /\ ThreadsUseSession
  /\ ActiveWhenHandled
  /\ StopProgress
  /\ MainProgress

LifeInv == TypeOK /\ LifeParts
------------------------------------------------------------------------------
\* ProfilingService::Stop, whoever calls it, keeps the types.
LEMMA BeginStopTypes ==
  ASSUME TypeOK, NEW why \in {"stop", "reset", "destroy"}, BeginStop(why),
         enabled' \in BOOLEAN,
         UNCHANGED <<threadVars, commandVars, captureVars, terminated>>
  PROVE  TypeOK'
<1>1. /\ todo' \in Seq(Components)
      /\ purpose' = why
      /\ main' = "signal"
      /\ active' = FALSE
      /\ UNCHANGED <<state, connection, session>>
  BY DEF BeginStop, Components
<1>2. /\ UNCHANGED <<thread, running, keep, uses>>
      /\ UNCHANGED <<cmd, packet, cap, selected, capturing, left, lag, terminated>>
  BY DEF threadVars, commandVars, captureVars
<1>3. /\ thread' \in [Components -> {"none", "running", "done"}]
      /\ running' \in [Components -> BOOLEAN]
      /\ keep' \in [Components -> BOOLEAN]
      /\ uses' \in [Components -> Nat]
  BY <1>2 DEF TypeOK
<1>4. /\ {enabled, active, terminated}' \subseteq BOOLEAN
      /\ {packet, selected, capturing}' \subseteq Selections \cup {Off}
  BY <1>1, <1>2 DEF TypeOK
<1>5. QED
  BY <1>1, <1>2, <1>3, <1>4, Zenon DEF TypeOK

\* No step of the service or of its threads leaves the types; the owner only
\* joins the first of the components it has still to stop, so there is one.
LEMMA TypeStep ==
  ASSUME TypeOK, MainProgress,
         [Next]_vars
  PROVE  TypeOK'
<1> USE ProfilingServiceAssumption DEF TypeOK, MainProgress, Components,
        serviceVars, threadVars, commandVars, captureVars, mainVars
<1>1. CASE \E on, reset \in BOOLEAN : ResetExternalProfilingOptions(on, reset)
  <2> SUFFICES ASSUME NEW on \in BOOLEAN, NEW reset \in BOOLEAN,
                      ResetExternalProfilingOptions(on, reset)
               PROVE  TypeOK'
    BY <1>1
  <2>1. CASE reset
    <3>1. BeginStop("reset") /\ enabled' = on
      BY <2>1 DEF ResetExternalProfilingOptions
    <3>2. UNCHANGED <<threadVars, commandVars, captureVars, terminated>>
      BY DEF ResetExternalProfilingOptions
    <3>3. QED
      BY <3>1, <3>2, BeginStopTypes
  <2>2. CASE ~reset
    BY <2>2 DEF ResetExternalProfilingOptions
  <2>3. QED
    BY <2>1, <2>2
<1>2. CASE ConfigureDisabled
  <2>1. BeginStop("stop") /\ enabled' = FALSE
    BY <1>2 DEF ConfigureDisabled
  <2>2. UNCHANGED <<threadVars, commandVars, captureVars, terminated>>
    BY <1>2 DEF ConfigureDisabled
  <2>3. QED
    BY <2>1, <2>2, BeginStopTypes
<1>3. CASE UpdateInitialise
  BY <1>3 DEF UpdateInitialise, Call
<1>4. CASE UpdateConnect
  BY <1>4 DEF UpdateConnect, Call
<1>5. CASE UpdateStart
  BY <1>5 DEF UpdateStart, Call
<1>6. CASE Disconnect
  <2>1. BeginStop("stop") /\ enabled' = enabled
    BY <1>6 DEF Disconnect
  <2>2. UNCHANGED <<threadVars, commandVars, captureVars, terminated>>
    BY <1>6 DEF Disconnect
  <2>3. QED
    BY <2>1, <2>2, BeginStopTypes
<1>7. CASE Destroy
  <2>1. BeginStop("destroy") /\ enabled' = enabled
    BY <1>7 DEF Destroy
  <2>2. UNCHANGED <<threadVars, commandVars, captureVars, terminated>>
    BY <1>7 DEF Destroy
  <2>3. QED
    BY <2>1, <2>2, BeginStopTypes
<1>8. CASE StartCommand
  <2>1. CASE running["command"]
    <3>1. UNCHANGED threadVars
      BY <1>8, <2>1 DEF StartCommand, StartThread
    <3>2. QED
      BY <1>8, <3>1 DEF StartCommand
  <2>2. CASE ~running["command"]
    <3>1. Launch("command")
      BY <1>8, <2>2 DEF StartCommand, StartThread
    <3>2. thread' \in [Components -> {"none", "running", "done"}]
      BY <3>1 DEF Launch
    <3>3. /\ running' \in [Components -> BOOLEAN]
          /\ keep' \in [Components -> BOOLEAN]
          /\ uses' \in [Components -> Nat]
      BY <3>1 DEF Launch
    <3>4. QED
      BY <1>8, <3>2, <3>3 DEF StartCommand
  <2>3. QED
    BY <2>1, <2>2
<1>9. CASE StartSend
  <2>1. CASE running["send"]
    <3>1. UNCHANGED threadVars
      BY <1>9, <2>1 DEF StartSend, StartThread
    <3>2. QED
      BY <1>9, <3>1 DEF StartSend
  <2>2. CASE ~running["send"]
    <3>1. Launch("send")
      BY <1>9, <2>2 DEF StartSend, StartThread
    <3>2. thread' \in [Components -> {"none", "running", "done"}]
      BY <3>1 DEF Launch
    <3>3. /\ running' \in [Components -> BOOLEAN]
          /\ keep' \in [Components -> BOOLEAN]
          /\ uses' \in [Components -> Nat]
      BY <3>1 DEF Launch
    <3>4. QED
      BY <1>9, <3>2, <3>3 DEF StartSend
  <2>3. QED
    BY <2>1, <2>2
<1>10. CASE StopSignal
  BY <1>10 DEF StopSignal
<1>11. CASE StopJoin
  BY <1>11 DEF StopJoin
<1>12. CASE Connect
  BY <1>12 DEF Connect
<1>13. CASE CloseConnection
  BY <1>13 DEF CloseConnection
<1>14. CASE ReadNothing
  BY <1>14 DEF ReadNothing, CommandAt, Live
<1>15. CASE ReadFails
  BY <1>15 DEF ReadFails, CommandAt, Live
<1>16. CASE ReadAcknowledgement
  BY <1>16 DEF ReadAcknowledgement, CommandAt, Live
<1>17. CASE \E selection \in Selections \cup {Off} : ReadSelection(selection)
  BY <1>17 DEF ReadSelection, CommandAt, Live
<1>18. CASE Acknowledge
  BY <1>18 DEF Acknowledge, CommandAt, Live, Fail
<1>19. CASE Announce
  BY <1>19 DEF Announce, CommandAt, Live, Fail
<1>20. CASE NotifyProfilingServiceActive
  BY <1>20 DEF NotifyProfilingServiceActive, CommandAt, Live
<1>21. CASE Select
  BY <1>21 DEF Select, CommandAt, Live, Fail
<1>22. CASE Echo
  BY <1>22 DEF Echo, CommandAt, Live, Fail
<1>23. CASE StopCapture
  BY <1>23 DEF StopCapture, CommandAt, Live
<1>24. CASE JoinCapture
  BY <1>24 DEF JoinCapture, CommandAt, Live
<1>25. CASE StartCapture
  <2>1. CASE running["capture"]
    BY <1>25, <2>1 DEF StartCapture
  <2>2. CASE ~running["capture"]
    <3>1. Launch("capture") /\ cap' = "read" /\ terminated' \in BOOLEAN
      BY <1>25, <2>2 DEF StartCapture
    <3>2. thread' \in [Components -> {"none", "running", "done"}]
      BY <3>1 DEF Launch
    <3>3. /\ running' \in [Components -> BOOLEAN]
          /\ keep' \in [Components -> BOOLEAN]
          /\ uses' \in [Components -> Nat]
      BY <3>1 DEF Launch
    <3>4. QED
      BY <1>25, <3>1, <3>2, <3>3 DEF StartCapture
  <2>3. QED
    BY <2>1, <2>2
<1>26. CASE TestCommand
  <2>1. CASE keep["command"]
    BY <1>26, <2>1 DEF TestCommand
  <2>2. CASE ~keep["command"]
    <3>1. /\ thread' = [thread EXCEPT !["command"] = "done"]
          /\ running' = [running EXCEPT !["command"] = FALSE]
          /\ UNCHANGED <<cmd, keep, uses, packet, serviceVars, captureVars, mainVars, terminated>>
      BY <1>26, <2>2 DEF TestCommand
    <3>2. /\ thread' \in [Components -> {"none", "running", "done"}]
          /\ running' \in [Components -> BOOLEAN]
      BY <3>1
    <3>3. QED
      BY <3>1, <3>2
  <2>3. QED
    BY <2>1, <2>2
<1>27. CASE ReadCaptureData
  BY <1>27 DEF ReadCaptureData, CaptureAt, Live
<1>28. CASE SendCapture
  <2>1. lag' \in Nat /\ left' \in IF cap' = "send" THEN 1..MaxReports ELSE {0}
    BY <1>28 DEF SendCapture, CaptureAt
  <2>2. cap' \in {"read", "send", "test"} /\ terminated' \in BOOLEAN
    BY <1>28 DEF SendCapture, CaptureAt
  <2>3. UNCHANGED <<serviceVars, threadVars, commandVars, selected, capturing, mainVars>>
    BY <1>28 DEF SendCapture
  <2>4. QED
    BY <2>1, <2>2, <2>3
<1>29. CASE TestCapture
  BY <1>29 DEF TestCapture, CaptureAt, Live
<1>30. CASE SendMetadataFails
  BY <1>30 DEF SendMetadataFails, Live
<1>31. CASE SendEnds
  BY <1>31 DEF SendEnds, Live
<1>32. CASE UNCHANGED vars
  BY <1>32 DEF vars
<1>33. QED
  BY <1>1, <1>2, <1>3, <1>4, <1>5, <1>6, <1>7, <1>8, <1>9, <1>10, <1>11,
     <1>12, <1>13, <1>14, <1>15, <1>16, <1>17, <1>18, <1>19, <1>20, <1>21,
     <1>22, <1>23, <1>24, <1>25, <1>26, <1>27, <1>28, <1>29, <1>30, <1>31,
     <1>32
  DEF Next, MainStep, CommandStep, CaptureStep

\* Each step of the owner, of CommandHandler, of PeriodicCounterCapture and of
\* the send thread keeps the threads and the state of the service in agreement.
LEMMA LifeStep ==
  ASSUME TypeOK, LifeParts,
         [Next]_vars
  PROVE  LifeParts'
<1> USE DEF TypeOK, LifeParts, ThreadsNeedConnection, FlagsAgree, ThreadsUseSession,
        ActiveWhenHandled, StopProgress, MainProgress, Connected, Components,
        serviceVars, threadVars, commandVars, captureVars, mainVars
<1>1. CASE \E on, reset \in BOOLEAN : ResetExternalProfilingOptions(on, reset)
  <2> SUFFICES ASSUME NEW on \in BOOLEAN, NEW reset \in BOOLEAN,
                      ResetExternalProfilingOptions(on, reset)
               PROVE  LifeParts'
    BY <1>1
  <2>1. CASE reset
    <3>1. BeginStop("reset") /\ main = "idle" /\ UNCHANGED <<threadVars, commandVars>>
      BY <2>1 DEF ResetExternalProfilingOptions, Call
    <3>2. /\ todo' = <<"command", "capture", "send">>
          /\ purpose' = "reset"
          /\ main' = "signal"
          /\ UNCHANGED <<state, connection, session>>
      BY <3>1 DEF BeginStop
    <3>3. QED
      BY <3>1, <3>2
  <2>2. CASE ~reset
    BY <2>2 DEF ResetExternalProfilingOptions, Call
  <2>3. QED
    BY <2>1, <2>2
<1>2. CASE ConfigureDisabled
  BY <1>2 DEF ConfigureDisabled, BeginStop, Call
<1>3. CASE UpdateInitialise
  BY <1>3 DEF UpdateInitialise, Call
<1>4. CASE UpdateConnect
  BY <1>4 DEF UpdateConnect, Call
<1>5. CASE UpdateStart
  BY <1>5 DEF UpdateStart, Call
<1>6. CASE Disconnect
  BY <1>6 DEF Disconnect, BeginStop, Call
<1>7. CASE Destroy
  BY <1>7 DEF Destroy, BeginStop, Call
<1>8. CASE StartCommand
  BY <1>8 DEF StartCommand, StartThread, Launch
<1>9. CASE StartSend
  BY <1>9 DEF StartSend, StartThread, Launch
<1>10. CASE StopSignal
  BY <1>10 DEF StopSignal
<1>11. CASE StopJoin
  <2>1. CASE purpose = "connect"
    BY <1>11, <2>1 DEF StopJoin
  <2>2. CASE purpose # "connect" /\ todo = <<"command", "capture", "send">>
    BY <1>11, <2>2 DEF StopJoin
  <2>3. CASE purpose # "connect" /\ todo = <<"capture", "send">>
    BY <1>11, <2>3 DEF StopJoin
  <2>4. CASE purpose # "connect" /\ todo = <<"send">>
    BY <1>11, <2>4 DEF StopJoin
  <2>5. QED
    BY <1>11, <2>1, <2>2, <2>3, <2>4 DEF StopJoin
<1>12. CASE Connect
  BY <1>12 DEF Connect
<1>13. CASE CloseConnection
  BY <1>13 DEF CloseConnection
<1>14. CASE ReadNothing
  BY <1>14 DEF ReadNothing, CommandAt, Live
<1>15. CASE ReadFails
  BY <1>15 DEF ReadFails, CommandAt, Live
<1>16. CASE ReadAcknowledgement
  BY <1>16 DEF ReadAcknowledgement, CommandAt, Live
<1>17. CASE \E selection \in Selections \cup {Off} : ReadSelection(selection)
  BY <1>17 DEF ReadSelection, CommandAt, Live
<1>18. CASE Acknowledge
  BY <1>18 DEF Acknowledge, CommandAt, Live, Fail
<1>19. CASE Announce
  BY <1>19 DEF Announce, CommandAt, Live, Fail
<1>20. CASE NotifyProfilingServiceActive
  BY <1>20 DEF NotifyProfilingServiceActive, CommandAt, Live
<1>21. CASE Select
  BY <1>21 DEF Select, CommandAt, Live, Fail
<1>22. CASE Echo
  BY <1>22 DEF Echo, CommandAt, Live, Fail
<1>23. CASE StopCapture
  BY <1>23 DEF StopCapture, CommandAt, Live
<1>24. CASE JoinCapture
  BY <1>24 DEF JoinCapture, CommandAt, Live
<1>25. CASE StartCapture
  BY <1>25 DEF StartCapture, CommandAt, Live, Launch
<1>26. CASE TestCommand
  BY <1>26 DEF TestCommand, CommandAt, Live
<1>27. CASE ReadCaptureData
  BY <1>27 DEF ReadCaptureData, CaptureAt, Live
<1>28. CASE SendCapture
  BY <1>28 DEF SendCapture, CaptureAt, Live
<1>29. CASE TestCapture
  BY <1>29 DEF TestCapture, CaptureAt, Live
<1>30. CASE SendMetadataFails
  BY <1>30 DEF SendMetadataFails, Live
<1>31. CASE SendEnds
  BY <1>31 DEF SendEnds, Live
<1>32. CASE UNCHANGED vars
  BY <1>32 DEF vars
<1>33. QED
  BY <1>1, <1>2, <1>3, <1>4, <1>5, <1>6, <1>7, <1>8, <1>9, <1>10, <1>11,
     <1>12, <1>13, <1>14, <1>15, <1>16, <1>17, <1>18, <1>19, <1>20, <1>21,
     <1>22, <1>23, <1>24, <1>25, <1>26, <1>27, <1>28, <1>29, <1>30, <1>31,
     <1>32
  DEF Next, MainStep, CommandStep, CaptureStep

LEMMA LifeInvariant == Spec => []LifeInv
<1>1. Init => LifeInv
  <2> SUFFICES ASSUME Init PROVE LifeInv
    OBVIOUS
  <2>1. /\ thread \in [Components -> {"none", "running", "done"}]
        /\ running \in [Components -> BOOLEAN]
        /\ keep \in [Components -> BOOLEAN]
        /\ uses \in [Components -> Nat]
    BY Zenon DEF Init
  <2>2. todo \in Seq(Components)
    BY DEF Init
  <2>3. TypeOK
    BY <2>1, <2>2 DEF Init, TypeOK
  <2>4. LifeParts
    BY DEF Init, LifeParts, ThreadsNeedConnection, FlagsAgree, ThreadsUseSession,
      ActiveWhenHandled, StopProgress, MainProgress, Connected, Components
  <2>5. QED
    BY <2>3, <2>4 DEF LifeInv
<1>2. LifeInv /\ [Next]_vars => LifeInv'
  BY TypeStep, LifeStep DEF LifeInv, LifeParts
<1>3. QED
  BY <1>1, <1>2, PTL DEF Spec

\* The types of the state hold in every run, for any selections and any number
\* of sessions.
THEOREM TypeCorrect == Spec => []TypeOK
BY LifeInvariant, PTL DEF LifeInv

\* The command and send threads run only while the connection they were given
\* exists: Stop and Update destroy it after both joins.
THEOREM ConnectionOutlivesThreadsHolds == Spec => []ConnectionOutlivesThreads
<1>1. LifeInv => ConnectionOutlivesThreads
  BY DEF LifeInv, LifeParts, ThreadsNeedConnection, ThreadsUseSession, ConnectionOutlivesThreads,
         Live, Components
<1>2. QED
  BY <1>1, LifeInvariant, PTL

\* No thread of the service meets the Uninitialised or NotConnected state.
THEOREM QuietWhenNotConnectedHolds == Spec => []QuietWhenNotConnected
<1>1. LifeInv => QuietWhenNotConnected
  BY DEF LifeInv, LifeParts, ThreadsNeedConnection, Connected, QuietWhenNotConnected, Live
<1>2. QED
  BY <1>1, LifeInvariant, PTL

\* The capture thread runs only in the Active state.
THEOREM CaptureOnlyWhenActiveHolds == Spec => []CaptureOnlyWhenActive
<1>1. LifeInv => CaptureOnlyWhenActive
  BY DEF LifeInv, LifeParts, ActiveWhenHandled, CaptureOnlyWhenActive, Live
<1>2. QED
  BY <1>1, LifeInvariant, PTL

\* PeriodicCounterCapture::Start never assigns a thread over one that was not
\* joined.
THEOREM CaptureStartedOnceHolds == Spec => []CaptureStartedOnce
<1>1. LifeInv => CaptureStartedOnce
  BY DEF LifeInv, LifeParts, TypeOK, FlagsAgree, CaptureStartedOnce, Components
<1>2. QED
  BY <1>1, LifeInvariant, PTL

\* The consumer is told to end only once the producers are joined: its
\* m_KeepRunning is cleared by a StopSignal of the owner alone, and then it is
\* the last component left.
THEOREM ProducersStoppedFirstHolds == Spec => ProducersStoppedFirst
<1>1. ASSUME LifeInv, Next, Live("send"), keep["send"], ~keep'["send"]
      PROVE  thread["command"] = "none" /\ thread["capture"] = "none"
  <2> USE DEF LifeInv, LifeParts, TypeOK, Components, serviceVars, threadVars
  <2>1. StopSignal
    BY <1>1 DEF Next, MainStep, CommandStep, CaptureStep,
      ResetExternalProfilingOptions, ConfigureDisabled, UpdateInitialise, UpdateConnect,
      UpdateStart, Disconnect, Destroy, StartCommand, StartSend, StartThread, Launch, StopJoin,
      Connect, CloseConnection, ReadNothing, ReadFails, ReadAcknowledgement, ReadSelection,
      Acknowledge, Announce, NotifyProfilingServiceActive, Select, Echo, Fail, StopCapture,
      JoinCapture, StartCapture, TestCommand, ReadCaptureData, SendCapture, TestCapture,
      SendMetadataFails, SendEnds
  <2>2. Head(todo) = "send"
    BY <1>1, <2>1 DEF StopSignal
  <2>3. purpose # "connect"
    BY <1>1, <2>1 DEF StopSignal, StopProgress, ThreadsNeedConnection, Connected, Live
  <2>4. QED
    BY <1>1, <2>1, <2>2, <2>3 DEF StopSignal, StopProgress
<1>2. QED
  BY <1>1, LifeInvariant, PTL DEF Spec, ProducersStoppedFirst

\* A capture thread that holds an outdated copy can send what is left of the
\* round it is in, and no more.
LagInv ==
  /\ lag \in 0..MaxReports
  /\ cap = "send" /\ capturing # selected => lag + left <= MaxReports

\* A new selection is followed by at most the packets of one round for the
\* previous one: the capture thread copies the capture data again for each round.
THEOREM LagBoundedHolds == Spec => []LagBounded
<1>1. Init => LagInv
  BY ProfilingServiceAssumption DEF Init, LagInv
<1>2. ASSUME TypeOK, LagInv, [Next]_vars
      PROVE  LagInv'
  <2>0. /\ left \in IF cap = "send" THEN 1..MaxReports ELSE {0}
        /\ MaxReports \in Nat
    BY <1>2, ProfilingServiceAssumption DEF TypeOK
  <2> USE DEF LagInv
  <2>1. CASE Select
    BY <1>2, <2>0, <2>1 DEF Select, CommandAt
  <2>2. CASE StartCapture
    BY <1>2, <2>2 DEF StartCapture
  <2>3. CASE ReadCaptureData
    BY <1>2, <2>3 DEF ReadCaptureData
  <2>4. CASE SendCapture
    BY <1>2, <2>0, <2>4 DEF SendCapture, CaptureAt
  <2>5. CASE TestCapture
    BY <1>2, <2>5 DEF TestCapture
  <2>6. CASE UNCHANGED captureVars
    BY <1>2, <2>6 DEF captureVars
  <2>7. [Next]_vars => \/ Select \/ StartCapture \/ ReadCaptureData \/ SendCapture
                       \/ TestCapture \/ UNCHANGED captureVars
    BY DEF Next, vars, MainStep, CommandStep, CaptureStep,
      ResetExternalProfilingOptions, ConfigureDisabled, UpdateInitialise, UpdateConnect,
      UpdateStart, Disconnect, Destroy, StartCommand, StartSend, StopSignal, StopJoin,
      Connect, CloseConnection, ReadNothing, ReadFails, ReadAcknowledgement, ReadSelection,
      Acknowledge, Announce, NotifyProfilingServiceActive, Echo, StopCapture,
      JoinCapture, TestCommand, SendMetadataFails, SendEnds
  <2>8. QED
    BY <1>2, <2>1, <2>2, <2>3, <2>4, <2>5, <2>6, <2>7
<1>3. LagInv => LagBounded
  BY ProfilingServiceAssumption DEF LagInv, LagBounded
<1>4. LifeInv => TypeOK
  BY DEF LifeInv
<1>5. QED
  BY <1>1, <1>2, <1>3, <1>4, LifeInvariant, PTL DEF Spec

------------------------------------------------------------------------------
(* Why Stop returns, if the threads run: the thread that is joined was told *)
(* to end, nobody else joins it, and each of its steps brings it nearer.    *)

\* The component a thread joins has been told to end, and was not started again.
JoinedIsTold ==
  /\ main = "join" => ~keep[Head(todo)]
  /\ CommandAt("join") => ~keep["capture"]

\* The capture thread, which both the owner and the command thread join, is never
\* joined by both at a time: the owner joins the command thread first.
OneJoiner ==
  main = "join" /\ Head(todo) = "capture" => thread["command"] # "running"

\* The steps the command thread does at most until it tests its flag.
CommandLeft ==
  IF thread["command"] # "running" THEN 0
  ELSE CASE cmd = "read" -> 6
         [] cmd = "select" -> 5
         [] cmd \in {"echo", "acknowledge"} -> 4
         [] cmd \in {"apply", "announce"} -> 3
         [] cmd \in {"join", "notify"} -> 2
         [] OTHER -> 1

\* The same of the capture thread, which ends its round first.
CaptureLeft ==
  IF thread["capture"] # "running" THEN 0
  ELSE CASE cap = "read" -> MaxReports + 2
         [] cap = "send" -> left + 1
         [] OTHER -> 1

\* While the owner joins the command thread, every step of that thread brings it
\* nearer to its end; so does every step of the capture thread while the owner or
\* the command thread joins that one; and no other thread puts them back.
JoinNears ==
  [][main = "join" /\ main' = "join" /\ ~terminated' =>
       /\ Head(todo) = "command" =>
            IF CommandStep THEN CommandLeft' < CommandLeft ELSE CommandLeft' = CommandLeft
       /\ (Head(todo) = "capture" \/ CommandAt("join")) =>
            IF CaptureStep THEN CaptureLeft' < CaptureLeft ELSE CaptureLeft' <= CaptureLeft]_vars

\* CommandHandler::Stop and PeriodicCounterCapture::Stop join the same thread in
\* two places, but never at the same time.
THEOREM OneJoinerHolds == Spec => []OneJoiner
<1>1. LifeInv => OneJoiner
  <2> SUFFICES ASSUME LifeInv, main = "join", Head(todo) = "capture",
                      thread["command"] = "running"
               PROVE  FALSE
    BY DEF OneJoiner
  <2> USE DEF LifeInv, LifeParts
  <2>1. purpose # "connect"
    BY DEF StopProgress, ThreadsNeedConnection, Connected, Components
  <2>2. todo = <<"command", "capture", "send">>
    BY <2>1 DEF StopProgress
  <2>3. QED
    BY <2>2
<1>2. QED
  BY <1>1, LifeInvariant, PTL

\* m_KeepRunning of a thread that is joined stays cleared.
LEMMA ToldStep ==
  ASSUME LifeInv, OneJoiner, JoinedIsTold, [Next]_vars
  PROVE  JoinedIsTold'
<1> USE DEF JoinedIsTold, LifeInv, TypeOK, Components, CommandAt, Live,
        serviceVars, threadVars, commandVars, captureVars, mainVars
<1>1. CASE \E on, reset \in BOOLEAN : ResetExternalProfilingOptions(on, reset)
  BY <1>1 DEF ResetExternalProfilingOptions, BeginStop, Call
<1>2. CASE ConfigureDisabled \/ UpdateInitialise \/ UpdateConnect \/ UpdateStart
           \/ Disconnect \/ Destroy
  BY <1>2 DEF ConfigureDisabled, UpdateInitialise, UpdateConnect, UpdateStart, Disconnect,
              Destroy, BeginStop, Call
<1>3. CASE StartCommand \/ StartSend
  BY <1>3 DEF StartCommand, StartSend, StartThread, Launch, LifeParts, FlagsAgree
<1>4. CASE StopSignal
  <2>1. Head(todo) \in Components
    BY <1>4 DEF StopSignal
  <2>2. QED
    BY <1>4, <2>1 DEF StopSignal
<1>5. CASE StopJoin \/ Connect \/ CloseConnection
  BY <1>5 DEF StopJoin, Connect, CloseConnection
<1>6. ASSUME UNCHANGED <<main, todo, thread, terminated>>,
             cmd' = "join" => cmd = "join" \/ ~keep'["capture"],
             \A c \in Components : keep'[c] => keep[c]
      PROVE  JoinedIsTold'
  <2>1. main = "join" => Head(todo) \in Components
    BY DEF LifeParts, MainProgress
  <2>2. QED
    BY <1>6, <2>1
<1>7. CASE \/ ReadNothing \/ ReadFails \/ ReadAcknowledgement
           \/ \E selection \in Selections \cup {Off} : ReadSelection(selection)
  BY <1>6, <1>7 DEF ReadNothing, ReadFails, ReadAcknowledgement, ReadSelection
<1>8. CASE \/ Acknowledge \/ Announce \/ NotifyProfilingServiceActive \/ Select \/ Echo
           \/ StopCapture
  <2>1. ASSUME Fail PROVE cmd' = "test" /\ \A c \in Components : keep'[c] => keep[c]
    BY <2>1 DEF Fail
  <2>2. CASE Acknowledge
    BY <1>6, <2>1, <2>2 DEF Acknowledge, Fail
  <2>3. CASE Announce \/ NotifyProfilingServiceActive
    BY <1>6, <2>1, <2>3 DEF Announce, NotifyProfilingServiceActive, Fail
  <2>4. CASE Select \/ Echo
    BY <1>6, <2>1, <2>4 DEF Select, Echo, Fail
  <2>5. CASE StopCapture
    <3>1. /\ \A c \in Components : keep'[c] => keep[c]
          /\ ~keep'["capture"]
          /\ UNCHANGED <<main, todo, thread, terminated>>
      BY <2>5 DEF StopCapture
    <3>2. QED
      BY <1>6, <3>1
  <2>6. QED
    BY <1>8, <2>2, <2>3, <2>4, <2>5
<1>9. CASE JoinCapture \/ TestCommand
  BY <1>9 DEF JoinCapture, TestCommand
<1>10. CASE StartCapture
  <2>1. main = "join" => Head(todo) \in Components \ {"capture"}
    BY <1>10 DEF StartCapture, OneJoiner, LifeParts, MainProgress
  <2>2. QED
    BY <1>10, <2>1 DEF StartCapture, Launch
<1>11. CASE CaptureStep
  BY <1>11 DEF CaptureStep, ReadCaptureData, SendCapture, TestCapture, CaptureAt
<1>12. CASE SendMetadataFails \/ SendEnds \/ UNCHANGED vars
  BY <1>12 DEF SendMetadataFails, SendEnds, vars
<1>13. QED
  BY <1>1, <1>2, <1>3, <1>4, <1>5, <1>6, <1>7, <1>8, <1>9, <1>10, <1>11, <1>12
  DEF Next, MainStep, CommandStep

\* A thread that is joined was told to end before.
THEOREM JoinedIsToldHolds == Spec => []JoinedIsTold
<1>1. Init => JoinedIsTold
  BY DEF Init, JoinedIsTold, CommandAt
<1>2. QED
  BY <1>1, ToldStep, LifeInvariant, OneJoinerHolds, PTL DEF Spec

\* A step of the command thread, once it was told to end.
LEMMA CommandNears ==
  ASSUME TypeOK, CommandStep, ~keep["command"]
  PROVE  CommandLeft' < CommandLeft
<1> USE DEF TypeOK, Components, CommandAt, Live, CommandLeft, threadVars
<1>1. CASE \/ ReadNothing \/ ReadFails \/ ReadAcknowledgement
           \/ \E selection \in Selections \cup {Off} : ReadSelection(selection)
  BY <1>1 DEF ReadNothing, ReadFails, ReadAcknowledgement, ReadSelection
<1>2. CASE Acknowledge
  BY <1>2 DEF Acknowledge, Fail
<1>3. CASE Announce \/ NotifyProfilingServiceActive
  BY <1>3 DEF Announce, NotifyProfilingServiceActive, Fail
<1>4. CASE Select \/ Echo
  BY <1>4 DEF Select, Echo, Fail
<1>5. CASE StopCapture \/ JoinCapture
  BY <1>5 DEF StopCapture, JoinCapture
<1>6. CASE StartCapture
  BY <1>6 DEF StartCapture, Launch
<1>7. CASE TestCommand
  BY <1>7 DEF TestCommand
<1>8. QED
  BY <1>1, <1>2, <1>3, <1>4, <1>5, <1>6, <1>7 DEF CommandStep

\* A step of the capture thread, once it was told to end.
LEMMA CaptureNears ==
  ASSUME TypeOK, CaptureStep, ~keep["capture"], ~terminated'
  PROVE  CaptureLeft' < CaptureLeft
BY ProfilingServiceAssumption
   DEF TypeOK, Components, CaptureStep, ReadCaptureData, SendCapture, TestCapture, CaptureAt,
       Live, CaptureLeft, threadVars

\* Stop ends: what it joins comes nearer to its end with every step, whatever the
\* peer sends and the capture thread does meanwhile.
THEOREM JoinNearsHolds == Spec => JoinNears
<1>1. LifeInv /\ OneJoiner /\ JoinedIsTold /\ [Next]_vars
        => [main = "join" /\ main' = "join" /\ ~terminated' =>
             /\ Head(todo) = "command" =>
                  IF CommandStep THEN CommandLeft' < CommandLeft
                                 ELSE CommandLeft' = CommandLeft
             /\ (Head(todo) = "capture" \/ CommandAt("join")) =>
                  IF CaptureStep THEN CaptureLeft' < CaptureLeft
                                 ELSE CaptureLeft' <= CaptureLeft]_vars
  <2> SUFFICES ASSUME LifeInv, OneJoiner, JoinedIsTold, [Next]_vars,
                      main = "join", main' = "join", ~terminated'
               PROVE  /\ Head(todo) = "command" =>
                           IF CommandStep THEN CommandLeft' < CommandLeft
                                          ELSE CommandLeft' = CommandLeft
                      /\ (Head(todo) = "capture" \/ CommandAt("join")) =>
                           IF CaptureStep THEN CaptureLeft' < CaptureLeft
                                          ELSE CaptureLeft' <= CaptureLeft
    OBVIOUS
  <2> USE DEF LifeInv
  <2>1. CommandStep \/ CaptureStep \/ SendEnds \/ UNCHANGED vars
    BY DEF Next, ResetExternalProfilingOptions, ConfigureDisabled, UpdateInitialise,
           UpdateConnect, UpdateStart, Disconnect, Destroy, Call, MainStep, StartCommand,
           StartSend, StopSignal, StopJoin, Connect, CloseConnection, SendMetadataFails
  <2>2. ASSUME Head(todo) = "command", CommandStep PROVE CommandLeft' < CommandLeft
    BY <2>2, CommandNears DEF JoinedIsTold
  <2>3. ASSUME ~CommandStep PROVE CommandLeft' = CommandLeft
    <3>1. UNCHANGED cmd /\ thread'["command"] = thread["command"]
      BY <2>1, <2>3
      DEF CaptureStep, ReadCaptureData, SendCapture, TestCapture, SendEnds, vars, threadVars,
          commandVars, TypeOK, Components
    <3>2. QED
      BY <3>1 DEF CommandLeft
  <2>4. ASSUME Head(todo) = "capture" \/ CommandAt("join"), CaptureStep
        PROVE  CaptureLeft' < CaptureLeft
    BY <2>4, CaptureNears DEF JoinedIsTold
  <2>5. ASSUME Head(todo) = "capture" \/ CommandAt("join"), ~CaptureStep
        PROVE  CaptureLeft' <= CaptureLeft
    <3>1. CASE CommandStep
      <4>1. CommandAt("join")
        BY <2>5, <3>1
        DEF OneJoiner, CommandStep, ReadNothing, ReadFails, ReadAcknowledgement,
            ReadSelection, Acknowledge, Announce, NotifyProfilingServiceActive, Select, Echo,
            StopCapture, JoinCapture, StartCapture, TestCommand, CommandAt, Live
      <4>2. JoinCapture
        BY <3>1, <4>1
        DEF CommandStep, ReadNothing, ReadFails, ReadAcknowledgement, ReadSelection,
            Acknowledge, Announce, NotifyProfilingServiceActive, Select, Echo, StopCapture,
            StartCapture, TestCommand, CommandAt
      <4>3. thread["capture"] # "running" /\ thread'["capture"] # "running"
        BY <4>2 DEF JoinCapture, TypeOK, Components
      <4>4. QED
        BY <4>3 DEF CaptureLeft
    <3>2. CASE SendEnds \/ UNCHANGED vars
      <4>1. UNCHANGED <<cap, left>> /\ thread'["capture"] = thread["capture"]
        BY <3>2 DEF SendEnds, vars, threadVars, captureVars, TypeOK, Components
      <4>2. CaptureLeft' = CaptureLeft /\ CaptureLeft \in Nat
        BY <4>1, ProfilingServiceAssumption DEF CaptureLeft, TypeOK
      <4>3. QED
        BY <4>2
    <3>3. QED
      BY <2>1, <2>5, <3>1, <3>2
  <2>6. QED
    BY <2>2, <2>3, <2>4, <2>5
<1>2. QED
  BY <1>1, LifeInvariant, OneJoinerHolds, JoinedIsToldHolds, PTL DEF Spec, JoinNears
===============================================================================
