---------------------------- MODULE ProfilingService ----------------------------
(***************************************************************************)
(* The life of the profiling service (profiling/client/src):               *)
(* ProfilingService.cpp runs in the thread that owns the service and       *)
(* starts and stops three threads: the command thread (CommandHandler.cpp) *)
(* that handles the packets of the peer, the capture thread                *)
(* (PeriodicCounterCapture.cpp) that one of those packets starts, and the  *)
(* send thread, which is here only what can be seen of it from the other   *)
(* three (module SendThread is the whole of it).                           *)
(*                                                                         *)
(* The state machine, m_KeepRunning, m_IsRunning and the capture data are  *)
(* atomics or under a mutex of their own: each step reads or writes one of *)
(* them, or several that only the stepping thread uses.  A reservation of  *)
(* a packet buffer may fail at any time.                                   *)
(***************************************************************************)
EXTENDS Integers, Sequences

CONSTANTS
  Selections,  \* counter selections that select something
  Off,         \* a selection of no counter, or with a capture period of 0
  MaxReports,  \* bound: packets of one round of the capture thread
  MaxSessions  \* bound: connections obtained

ASSUME ProfilingServiceAssumption ==
  /\ Off \notin Selections
  /\ MaxReports \in Nat
  /\ MaxSessions \in Nat

VARIABLES
  enabled,     \* m_Options.m_EnableProfiling
  state,       \* m_StateMachine
  connection,  \* m_ProfilingConnection: null, or what IsOpen() says of it
  active,      \* m_ServiceActive
  thread,      \* per component: its std::thread ("none": not joinable)
  running,     \* per component: m_IsRunning
  keep,        \* per component: m_KeepRunning
  cmd,         \* where the command thread is
  packet,      \* the selection it handles
  cap,         \* where the capture thread is
  selected,    \* m_Holder: the capture data
  capturing,   \* currentCaptureData, the copy of the capture thread
  left,        \* the packets it has still to send in this round
  main,        \* where the owner's thread is
  todo,        \* the components it has still to stop
  purpose,     \* what it stops them for
  terminated,  \* an exception left a thread: std::terminate
  session,     \* history: connections obtained
  uses,        \* history: per component, the connection its thread was given
  lag          \* history: packets captured for an earlier selection since the last

serviceVars == <<enabled, state, connection, active>>
threadVars == <<thread, running, keep, uses>>
commandVars == <<cmd, packet>>
captureVars == <<cap, selected, capturing, left, lag>>
mainVars == <<main, todo, purpose, session>>
vars == <<serviceVars, threadVars, commandVars, captureVars, mainVars, terminated>>

Components == {"command", "capture", "send"}

Init ==
  /\ enabled = FALSE
  /\ state = "Uninitialised"
  /\ connection = "null"
  /\ active = FALSE
  /\ thread = [c \in Components |-> "none"]
  /\ running = [c \in Components |-> FALSE]
  /\ keep = [c \in Components |-> FALSE]
  /\ cmd = "read"
  /\ packet = Off
  /\ cap = "read"
  /\ selected = Off
  /\ capturing = Off
  /\ left = 0
  /\ main = "idle"
  /\ todo = <<>>
  /\ purpose = "none"
  /\ terminated = FALSE
  /\ session = 0
  /\ uses = [c \in Components |-> 0]
  /\ lag = 0

Live(c) == ~terminated /\ thread[c] = "running"

\* A thread is created: m_IsRunning, m_KeepRunning, and the thread itself.
Launch(c) ==
  /\ thread' = [thread EXCEPT ![c] = "running"]
  /\ running' = [running EXCEPT ![c] = TRUE]
  /\ keep' = [keep EXCEPT ![c] = TRUE]
  /\ uses' = [uses EXCEPT ![c] = session]

\* Start of CommandHandler and SendThread: nothing if the thread runs; a
\* finished one is joined, and a new one created.
StartThread(c) ==
  IF running[c] THEN UNCHANGED threadVars ELSE Launch(c)
------------------------------------------------------------------------------
(* The owner's thread.                                                      *)

Call == ~terminated /\ main = "idle"

(* Mutant: the consumer is stopped before the capture thread. *)
BeginStopConsumerFirst(why) ==
  /\ active' = FALSE
  /\ todo' = <<"command", "send", "capture">>
  /\ purpose' = why
  /\ main' = "signal"
  /\ UNCHANGED <<state, connection, session>>

(* Mutant: the state is changed before the threads are stopped. *)
BeginStopStateFirst(why) ==
  /\ active' = FALSE
  /\ todo' = <<"command", "capture", "send">>
  /\ purpose' = why
  /\ main' = "signal"
  /\ state' = "NotConnected"
  /\ UNCHANGED <<connection, session>>

\* ProfilingService::Stop: the service is no longer active, the producers are
\* stopped before the consumer.
BeginStop(why) ==
  /\ active' = FALSE
  /\ todo' = <<"command", "capture", "send">>
  /\ purpose' = why
  /\ main' = "signal"
  /\ UNCHANGED <<state, connection, session>>

\* The options are set whatever the service is doing, and it is reset on demand.
ResetExternalProfilingOptions(on, reset) ==
  /\ Call
  /\ enabled' = on
  /\ IF reset THEN BeginStop("reset")
              ELSE UNCHANGED <<state, connection, active, mainVars>>
  /\ UNCHANGED <<threadVars, commandVars, captureVars, terminated>>

\* ConfigureProfilingService sets the options; then, with profiling disabled, it
\* shuts the service down, and with profiling enabled it calls Update.
ConfigureDisabled ==
  /\ Call
  /\ enabled' = FALSE
  /\ state \in {"WaitingForAck", "Active"}
  /\ BeginStop("stop")
  /\ UNCHANGED <<threadVars, commandVars, captureVars, terminated>>

\* Update, Uninitialised.
UpdateInitialise ==
  /\ Call
  /\ enabled
  /\ state = "Uninitialised"
  /\ state' = "NotConnected"
  /\ UNCHANGED <<enabled, connection, active, threadVars, commandVars, captureVars,
                 mainVars, terminated>>

\* Update, NotConnected: stop the threads, in this order, then connect.
UpdateConnect ==
  /\ Call
  /\ enabled
  /\ state = "NotConnected"
  /\ todo' = <<"command", "send", "capture">>
  /\ purpose' = "connect"
  /\ main' = "signal"
  /\ UNCHANGED <<serviceVars, threadVars, commandVars, captureVars, session, terminated>>

\* Update, WaitingForAck; the state may change once it is read.
UpdateStart ==
  /\ Call
  /\ enabled
  /\ state = "WaitingForAck"
  /\ main' = "startCommand"
  /\ UNCHANGED <<serviceVars, threadVars, commandVars, captureVars, todo, purpose,
                 session, terminated>>

StartCommand ==
  /\ ~terminated
  /\ main = "startCommand"
  /\ StartThread("command")
  /\ cmd' = IF running["command"] THEN cmd ELSE "read"
  /\ main' = "startSend"
  /\ UNCHANGED <<serviceVars, packet, captureVars, todo, purpose, session, terminated>>

StartSend ==
  /\ ~terminated
  /\ main = "startSend"
  /\ StartThread("send")
  /\ main' = "idle"
  /\ UNCHANGED <<serviceVars, commandVars, captureVars, todo, purpose, session, terminated>>

\* Disconnect leaves a connection that waits for its acknowledgement alone.
Disconnect ==
  /\ Call
  /\ state = "Active"
  /\ BeginStop("stop")
  /\ UNCHANGED <<enabled, threadVars, commandVars, captureVars, terminated>>

\* The destructor stops the service in any state.
Destroy ==
  /\ Call
  /\ BeginStop("destroy")
  /\ UNCHANGED <<enabled, threadVars, commandVars, captureVars, terminated>>

\* The Stop of a component clears m_KeepRunning...
StopSignal ==
  /\ ~terminated
  /\ main = "signal"
  /\ todo # <<>>
  /\ keep' = [keep EXCEPT ![Head(todo)] = FALSE]
  /\ main' = "join"
  /\ UNCHANGED <<serviceVars, thread, running, uses, commandVars, captureVars, todo,
                 purpose, session, terminated>>

(* Mutant: the thread is not waited for. *)
StopJoinDetached ==
  /\ ~terminated
  /\ main = "join"
  /\ todo' = Tail(todo)
  /\ main' = "signal"
  /\ UNCHANGED <<serviceVars, thread, running, keep, uses, commandVars, captureVars,
                 purpose, session, terminated>>

\* ...and joins the thread, if there is one.
StopJoin ==
  /\ ~terminated
  /\ main = "join"
  /\ thread[Head(todo)] # "running"
  /\ thread' = [thread EXCEPT ![Head(todo)] = "none"]
  /\ running' = IF Head(todo) = "capture" THEN [running EXCEPT !["capture"] = FALSE]
                                         ELSE running
  /\ todo' = Tail(todo)
  /\ main' = "signal"
  /\ UNCHANGED <<serviceVars, keep, uses, commandVars, captureVars, purpose, session,
                 terminated>>

\* A new connection, or none if that fails.
Connect ==
  /\ ~terminated
  /\ main = "signal"
  /\ todo = <<>>
  /\ purpose = "connect"
  /\ main' = "idle"
  /\ \/ /\ session < MaxSessions
        /\ session' = session + 1
        /\ connection' = "open"
        /\ state' = "WaitingForAck"
     \/ /\ connection' = "null"
        /\ UNCHANGED <<session, state>>
  /\ UNCHANGED <<enabled, active, threadVars, commandVars, captureVars, todo, purpose,
                 terminated>>

\* The end of Stop: the connection is closed and destroyed, and Reset goes on
\* to the first state.  The capture data survives both.
CloseConnection ==
  /\ ~terminated
  /\ main = "signal"
  /\ todo = <<>>
  /\ purpose # "connect"
  /\ connection' = "null"
  /\ state' = IF purpose = "reset" THEN "Uninitialised" ELSE "NotConnected"
  /\ main' = IF purpose = "destroy" THEN "destroyed" ELSE "idle"
  /\ UNCHANGED <<enabled, active, threadVars, commandVars, captureVars, todo, purpose,
                 session, terminated>>

MainStep ==
  \/ StartCommand
  \/ StartSend
  \/ StopSignal
  \/ StopJoin
  \/ Connect
  \/ CloseConnection
------------------------------------------------------------------------------
(* The command thread: CommandHandler::HandleCommands and the handlers of   *)
(* the packets that change the state of the service.                        *)

CommandAt(place) == Live("command") /\ cmd = place

\* An exception is logged; a closed connection ends the thread.
Fail ==
  /\ cmd' = "test"
  /\ keep' = [keep EXCEPT !["command"] = @ /\ connection = "open"]
  /\ UNCHANGED <<thread, running, uses>>

\* Nothing to read before the timeout, or a packet whose handler leaves the
\* service as it is.
ReadNothing ==
  /\ CommandAt("read")
  /\ cmd' = "test"
  /\ UNCHANGED <<serviceVars, threadVars, packet, captureVars, mainVars, terminated>>

\* The peer has closed the connection, or the read fails once it is closed.
ReadFails ==
  /\ CommandAt("read")
  /\ connection' = "closed"
  /\ cmd' = "test"
  /\ keep' = [keep EXCEPT !["command"] = FALSE]
  /\ UNCHANGED <<enabled, state, active, thread, running, uses, packet, captureVars,
                 mainVars, terminated>>

ReadAcknowledgement ==
  /\ CommandAt("read")
  /\ connection = "open"
  /\ cmd' = "acknowledge"
  /\ UNCHANGED <<serviceVars, threadVars, packet, captureVars, mainVars, terminated>>

\* A selection; a packet too short to hold one is an empty one.
ReadSelection(selection) ==
  /\ CommandAt("read")
  /\ connection = "open"
  /\ packet' = selection
  /\ cmd' = "select"
  /\ UNCHANGED <<serviceVars, threadVars, captureVars, mainVars, terminated>>

\* ConnectionAcknowledgedCommandHandler: Active first (a second acknowledgement
\* is ignored, and one that is not expected is refused)...
Acknowledge ==
  /\ CommandAt("acknowledge")
  /\ CASE state = "WaitingForAck" ->
            state' = "Active" /\ cmd' = "announce" /\ UNCHANGED threadVars
       [] state = "Active" ->
            cmd' = "test" /\ UNCHANGED <<state, threadVars>>
       [] OTHER ->
            Fail /\ UNCHANGED state
  /\ UNCHANGED <<enabled, connection, active, packet, captureVars, mainVars, terminated>>

\* ...then the counter directory, the timeline labels and the backends, each of
\* which may throw, and the service is never active then...
Announce ==
  /\ CommandAt("announce")
  /\ \/ cmd' = "notify" /\ UNCHANGED threadVars
     \/ Fail
  /\ UNCHANGED <<serviceVars, packet, captureVars, mainVars, terminated>>

\* ...and at last NotifyProfilingServiceActive.
NotifyProfilingServiceActive ==
  /\ CommandAt("notify")
  /\ active' = TRUE
  /\ cmd' = "test"
  /\ UNCHANGED <<enabled, state, connection, threadVars, packet, captureVars, mainVars,
                 terminated>>

(* Mutant: a selection is accepted in any state. *)
SelectInAnyState ==
  /\ CommandAt("select")
  /\ \/ /\ selected' = packet
        /\ lag' = 0
        /\ cmd' = "echo"
        /\ UNCHANGED threadVars
     \/ /\ Fail
        /\ UNCHANGED <<selected, lag>>
  /\ UNCHANGED <<serviceVars, packet, cap, capturing, left, mainVars, terminated>>

\* PeriodicCounterSelectionCommandHandler: refused unless Active; the backends
\* may throw; the capture data is set...
Select ==
  /\ CommandAt("select")
  /\ \/ /\ state = "Active"
        /\ selected' = packet
        /\ lag' = 0
        /\ cmd' = "echo"
        /\ UNCHANGED threadVars
     \/ /\ Fail
        /\ UNCHANGED <<selected, lag>>
  /\ UNCHANGED <<serviceVars, packet, cap, capturing, left, mainVars, terminated>>

\* ...the packet is echoed, unless no buffer is left...
Echo ==
  /\ CommandAt("echo")
  /\ \/ cmd' = "apply" /\ UNCHANGED threadVars
     \/ Fail
  /\ UNCHANGED <<serviceVars, packet, captureVars, mainVars, terminated>>

(* Mutant: the capture thread is marked as not running before it is joined. *)
StopCaptureUnjoined ==
  /\ CommandAt("apply")
  /\ packet = Off
  /\ keep' = [keep EXCEPT !["capture"] = FALSE]
  /\ running' = [running EXCEPT !["capture"] = FALSE]
  /\ cmd' = "test"
  /\ UNCHANGED <<serviceVars, thread, uses, packet, captureVars, mainVars, terminated>>

(* Mutant: the capture thread is not told to stop. *)
StopCaptureUntold ==
  /\ CommandAt("apply")
  /\ packet = Off
  /\ cmd' = "join"
  /\ UNCHANGED <<serviceVars, threadVars, packet, captureVars, mainVars, terminated>>

\* ...and the capture thread is stopped...
StopCapture ==
  /\ CommandAt("apply")
  /\ packet = Off
  /\ keep' = [keep EXCEPT !["capture"] = FALSE]
  /\ cmd' = "join"
  /\ UNCHANGED <<serviceVars, thread, running, uses, packet, captureVars, mainVars,
                 terminated>>

JoinCapture ==
  /\ CommandAt("join")
  /\ thread["capture"] # "running"
  /\ thread' = [thread EXCEPT !["capture"] = "none"]
  /\ running' = [running EXCEPT !["capture"] = FALSE]
  /\ cmd' = "test"
  /\ UNCHANGED <<serviceVars, keep, uses, packet, captureVars, mainVars, terminated>>

\* ...or started.  A thread assigned to a joinable std::thread terminates the
\* process: Start, unlike those of the other threads, does not join.
StartCapture ==
  /\ CommandAt("apply")
  /\ packet # Off
  /\ cmd' = "test"
  /\ IF running["capture"]
     THEN UNCHANGED <<threadVars, cap, left, terminated>>
     ELSE /\ Launch("capture")
          /\ cap' = "read"
          /\ left' = 0
          /\ terminated' = (thread["capture"] # "none")
  /\ UNCHANGED <<serviceVars, packet, selected, capturing, lag, mainVars>>

\* while (m_KeepRunning); m_IsRunning is cleared last.
TestCommand ==
  /\ CommandAt("test")
  /\ IF keep["command"]
     THEN cmd' = "read" /\ UNCHANGED <<thread, running>>
     ELSE /\ thread' = [thread EXCEPT !["command"] = "done"]
          /\ running' = [running EXCEPT !["command"] = FALSE]
          /\ UNCHANGED cmd
  /\ UNCHANGED <<serviceVars, keep, uses, packet, captureVars, mainVars, terminated>>

CommandStep ==
  \/ ReadNothing
  \/ ReadFails
  \/ ReadAcknowledgement
  \/ \E selection \in Selections \cup {Off} : ReadSelection(selection)
  \/ Acknowledge
  \/ Announce
  \/ NotifyProfilingServiceActive
  \/ Select
  \/ Echo
  \/ StopCapture
  \/ JoinCapture
  \/ StartCapture
  \/ TestCommand
------------------------------------------------------------------------------
(* The capture thread, PeriodicCounterCapture::Capture, and what the others *)
(* see of the send thread.                                                  *)

CaptureAt(place) == Live("capture") /\ cap = place

\* A round of the capture thread: the capture data is copied, then a packet is
\* sent with the values of the selected counters, if there are any, and one for
\* every timestamp each active backend reports.
ReadCaptureData ==
  /\ CaptureAt("read")
  /\ capturing' = selected
  /\ left' \in IF selected = Off THEN {0} ELSE 0..MaxReports
  /\ cap' = IF left' = 0 THEN "test" ELSE "send"
  /\ UNCHANGED <<serviceVars, threadVars, commandVars, selected, lag, mainVars, terminated>>

\* One of these packets; no handler catches a failure to reserve its buffer.
SendCapture ==
  /\ CaptureAt("send")
  /\ \/ /\ left' = left - 1
        /\ cap' = IF left = 1 THEN "test" ELSE "send"
        /\ lag' = IF capturing = selected THEN lag ELSE lag + 1
        /\ UNCHANGED terminated
     \/ /\ terminated' = TRUE
        /\ UNCHANGED <<cap, left, lag>>
  /\ UNCHANGED <<serviceVars, threadVars, commandVars, selected, capturing, mainVars>>

\* m_IsRunning is left to Stop.
TestCapture ==
  /\ CaptureAt("test")
  /\ IF keep["capture"]
     THEN cap' = "read" /\ UNCHANGED thread
     ELSE thread' = [thread EXCEPT !["capture"] = "done"] /\ UNCHANGED cap
  /\ UNCHANGED <<serviceVars, running, keep, uses, commandVars, selected, capturing, left,
                 lag, mainVars, terminated>>

\* The send thread ends the process when it cannot reserve the stream metadata
\* packet, in a loop that began before the acknowledgement.
SendMetadataFails ==
  /\ Live("send")
  /\ terminated' = TRUE
  /\ UNCHANGED <<serviceVars, threadVars, commandVars, captureVars, mainVars>>

\* It flushes the packets that are left and ends.
SendEnds ==
  /\ Live("send")
  /\ ~keep["send"]
  /\ thread' = [thread EXCEPT !["send"] = "done"]
  /\ running' = [running EXCEPT !["send"] = FALSE]
  /\ UNCHANGED <<serviceVars, keep, uses, commandVars, captureVars, mainVars, terminated>>

CaptureStep == ReadCaptureData \/ SendCapture \/ TestCapture

Next ==
  \/ \E on, reset \in BOOLEAN : ResetExternalProfilingOptions(on, reset)
  \/ ConfigureDisabled
  \/ UpdateInitialise
  \/ UpdateConnect
  \/ UpdateStart
  \/ Disconnect
  \/ Destroy
  \/ MainStep
  \/ CommandStep
  \/ CaptureStep
  \/ SendMetadataFails
  \/ SendEnds

Spec == Init /\ [][Next]_vars

\* Every thread is scheduled, and its sleeps and timeouts end.
Fairness ==
  /\ WF_vars(MainStep)
  /\ WF_vars(CommandStep)
  /\ WF_vars(CaptureStep)
  /\ WF_vars(SendEnds)

FairSpec == Spec /\ Fairness
------------------------------------------------------------------------------
TypeOK ==
  /\ state \in {"Uninitialised", "NotConnected", "WaitingForAck", "Active"}
  /\ connection \in {"null", "open", "closed"}
  /\ {enabled, active, terminated} \subseteq BOOLEAN
  /\ thread \in [Components -> {"none", "running", "done"}]
  /\ running \in [Components -> BOOLEAN]
  /\ keep \in [Components -> BOOLEAN]
  /\ cmd \in {"read", "acknowledge", "announce", "notify", "select", "echo", "apply",
              "join", "test"}
  /\ cap \in {"read", "send", "test"}
  /\ left \in IF cap = "send" THEN 1..MaxReports ELSE {0}
  /\ {packet, selected, capturing} \subseteq Selections \cup {Off}
  /\ main \in {"idle", "signal", "join", "startCommand", "startSend", "destroyed"}
  /\ todo \in Seq(Components)
  /\ purpose \in {"none", "connect", "stop", "reset", "destroy"}
  /\ session \in Nat
  /\ uses \in [Components -> Nat]
  /\ lag \in Nat

\* A thread that was given a reference to the connection runs only while that
\* connection exists: Stop and Update destroy it after the joins.
ConnectionOutlivesThreads ==
  \A c \in {"command", "send"} :
    Live(c) => connection # "null" /\ uses[c] = session

\* No thread runs while the service is not connected: the send thread, which
\* would throw there, and the handlers never meet these states.
QuietWhenNotConnected ==
  \A c \in Components : Live(c) => state \notin {"Uninitialised", "NotConnected"}

\* Counters are captured only for a peer whose acknowledgement was received.
CaptureOnlyWhenActive == Live("capture") => state = "Active"

\* "The order in which we reset/stop the components is not trivial! First stop
\* the producing threads" (ProfilingService.cpp): when the send thread is told
\* to end, no thread of the service can add a packet any more, so its last flush
\* sends all of them.
ProducersStoppedFirst ==
  [][Live("send") /\ keep["send"] /\ ~keep'["send"]
       => thread["command"] = "none" /\ thread["capture"] = "none"]_vars

\* The capture thread is never created while the previous one is joinable,
\* although its m_IsRunning is a plain flag of two threads and Start does not
\* join.
CaptureStartedOnce ==
  Live("command") /\ cmd = "apply" /\ packet # Off /\ ~running["capture"]
    => thread["capture"] = "none"

\* A new selection takes effect after at most the packets of one round: the
\* capture thread, which copies the capture data before it reads and sends, may
\* send for the previous selection what is left of the round it is in.
LagBounded == lag <= MaxReports

\* Stop returns, whatever the command and capture threads are doing.
StopReturns == main \notin {"idle", "destroyed"} ~> main \in {"idle", "destroyed"} \/ terminated
==============================================================================
