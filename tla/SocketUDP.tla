------------------------------- MODULE SocketUDP -------------------------------
(* The WebRTC data channel plugin of src/src/plugins/kirikiri/Fischerspooner,  *)
(* one endpoint.  Two kinds of threads share its members: the TJS main thread, *)
(* which calls Initialize, Close and PopReceivedData and runs the two event    *)
(* handlers, and the threads of the WebRTC library, which run the callbacks    *)
(* registered by Initialize and SetupDataChannel, those of one kind one after   *)
(* the other, those of different kinds in any order.  The library calls a       *)
(* callback in one step, and each part of its body that m_Mutex or the lack of  *)
(* it delimits is a further one, so Close and Initialize may come in between.   *)
EXTENDS Naturals, Sequences

CONSTANTS
    Msgs,              \* the strings the remote side may send
    WaitsForCallbacks, \* external: does replacing a callback wait for one that runs?
    MaxSessions,       \* bound: calls of Initialize
    MaxSent,           \* bound: messages the remote side sends
    MaxReports         \* bound: state changes, descriptions and ends of gathering that the
                       \* peer connections report

ASSUME SocketAssumption ==
    /\ WaitsForCallbacks \in BOOLEAN
    /\ MaxSessions \in Nat
    /\ MaxSent \in Nat
    /\ MaxReports \in Nat

VARIABLES
    peerConnection,     \* is m_PeerConnection set?
    dataChannel,        \* m_DataChannel: null, or the state the library gives it
    connectState,       \* m_ConnectState
    notifiedOpenEvent,  \* m_NotifiedOpenEvent
    sdp,                \* is m_SDP non-empty?
    receivedQueue,      \* m_ReceivedQueue
    calls,              \* callbacks the library has called and that have done nothing yet
    opening,            \* sessions whose onOpen has triggered and has yet to set the flag
    describing,         \* sessions whose gathering callback has yet to trigger
    events,             \* posted onFire events of m_Trigger
    statusEvents,       \* posted onStatusChanged events of m_StatusChangeTrigger
    mainThread,         \* idle, in the loop over popReceivedData(), or in Close with m_Mutex
    seenState,          \* the connectionState the script read last, or set by closing
    wire,               \* external: messages under way to this endpoint
    silent,             \* history: data was queued out of time, with no event posted since
    sessions, sent, reports  \* how much of the bounds is used up

socketVars == <<peerConnection, dataChannel, connectState, notifiedOpenEvent, sdp, receivedQueue>>
callbackVars == <<calls, opening, describing>>
scriptVars == <<events, statusEvents, mainThread, seenState>>
boundVars == <<sessions, sent, reports>>
vars == <<socketVars, callbackVars, scriptVars, wire, silent, boundVars>>

ConnectionState == {"Disconnected", "Connecting", "Connected", "Failed"}
PeerConnectionState == {"New", "Connecting", "Connected", "Disconnected", "Failed", "Closed"}

MessageCall == [callback : {"onMessage"}, session : Nat, data : Msgs]
StateCall == [callback : {"onStateChange"}, session : Nat, state : PeerConnectionState]
PlainCall == [callback : {"onOpen", "onLocalDescription", "onGatheringStateChange"}, session : Nat]
Call == MessageCall \cup StateCall \cup PlainCall

MemberTypes ==
    /\ peerConnection \in BOOLEAN
    /\ dataChannel \in {"null", "connecting", "open", "closed"}
    /\ connectState \in ConnectionState
    /\ notifiedOpenEvent \in BOOLEAN
    /\ sdp \in BOOLEAN
    /\ receivedQueue \in Seq(Msgs)
    /\ mainThread \in {"idle", "reading", "closing"}
    /\ seenState \in ConnectionState
    /\ wire \in Seq(Msgs)
    /\ silent \in BOOLEAN

CallTypes ==
    /\ calls \subseteq Call
    /\ opening \subseteq Nat
    /\ describing \subseteq Nat

CounterTypes ==
    /\ events \in Nat
    /\ statusEvents \in Nat
    /\ sessions \in Nat
    /\ sent \in Nat
    /\ reports \in Nat

TypeOK == MemberTypes /\ CallTypes /\ CounterTypes

Init ==
    /\ peerConnection = FALSE
    /\ dataChannel = "null"
    /\ connectState = "Disconnected"
    /\ notifiedOpenEvent = FALSE
    /\ sdp = FALSE
    /\ receivedQueue = <<>>
    /\ calls = {} /\ opening = {} /\ describing = {}
    /\ events = 0 /\ statusEvents = 0
    /\ mainThread = "idle"
    /\ seenState = "Disconnected"
    /\ wire = <<>>
    /\ silent = FALSE
    /\ sessions = 0 /\ sent = 0 /\ reports = 0

\* A session is the time from one Initialize to the next or to Close.
Ended(s) == s # sessions \/ ~peerConnection

\* Is a callback of this session's objects of one kind called and has it yet to run?
Calling(callback) == \E c \in calls : c.callback = callback /\ c.session = sessions

\* onOpen of a session is called and has yet to set the flag.
InOpen(s) == s \in opening \/ \E c \in calls : c.callback = "onOpen" /\ c.session = s

\* m_Mutex is free.  Every other method that takes it does so within one step.
MutexFree == mainThread # "closing"
--------------------------------------------------------------------------------
(* The TJS main thread: Initialize and Close, called between events.           *)

\* A connection that is replaced takes its channel and its messages with it; the
\* queue of received data stays, and so do callbacks that are called.  Only the
\* server creates the data channel.
Initialize(isServer) ==
    /\ mainThread = "idle"
    /\ sessions < MaxSessions
    /\ peerConnection' = TRUE
    /\ notifiedOpenEvent' = FALSE
    /\ dataChannel' = IF isServer THEN "connecting" ELSE "null"
    /\ wire' = <<>>
    /\ sessions' = sessions + 1
    /\ UNCHANGED <<connectState, sdp, receivedQueue, calls, opening, describing, scriptVars,
                   silent, sent, reports>>

\* createDataChannel throws: Initialize returns -1 and leaves the new connection.
InitializeFails ==
    /\ mainThread = "idle"
    /\ sessions < MaxSessions
    /\ peerConnection' = TRUE
    /\ notifiedOpenEvent' = FALSE
    /\ dataChannel' = "null"
    /\ wire' = <<>>
    /\ sessions' = sessions + 1
    /\ UNCHANGED <<connectState, sdp, receivedQueue, calls, opening, describing, scriptVars,
                   silent, sent, reports>>

\* Close takes m_Mutex, closes the connection and replaces the callbacks, ...
Close ==
    /\ mainThread = "idle"
    /\ mainThread' = "closing"
    /\ UNCHANGED <<socketVars, callbackVars, events, statusEvents, seenState, wire, silent, boundVars>>

\* ... for which a library may wait for those that run, ...
CallbacksReplaced ==
    WaitsForCallbacks /\ peerConnection =>
        /\ \A c \in calls : c.session # sessions
        /\ sessions \notin opening \cup describing

\* ... and then resets the members.  Callbacks that are called go on when m_Mutex is
\* free, and posted events stay posted.
CloseReset ==
    /\ mainThread = "closing"
    /\ CallbacksReplaced
    /\ mainThread' = "idle"
    /\ peerConnection' = FALSE
    /\ dataChannel' = "null"
    /\ connectState' = "Disconnected"
    /\ notifiedOpenEvent' = FALSE
    /\ sdp' = FALSE
    /\ receivedQueue' = <<>>
    /\ wire' = <<>>
    /\ seenState' = "Disconnected"
    /\ silent' = FALSE
    /\ UNCHANGED <<callbackVars, events, statusEvents, boundVars>>
--------------------------------------------------------------------------------
(* External: the library calls a callback.                                     *)

LibraryCalls(c) == calls' = calls \cup {c}

CallLocalDescription ==
    /\ peerConnection
    /\ reports < MaxReports
    /\ ~Calling("onLocalDescription")
    /\ LibraryCalls([callback |-> "onLocalDescription", session |-> sessions])
    /\ reports' = reports + 1
    /\ UNCHANGED <<socketVars, opening, describing, scriptVars, wire, silent, sessions, sent>>

CallGatheringComplete ==
    /\ peerConnection
    /\ reports < MaxReports
    /\ ~Calling("onGatheringStateChange") /\ sessions \notin describing
    /\ LibraryCalls([callback |-> "onGatheringStateChange", session |-> sessions])
    /\ reports' = reports + 1
    /\ UNCHANGED <<socketVars, opening, describing, scriptVars, wire, silent, sessions, sent>>

\* A connection that failed or closed has lost its channel.
CallStateChange(s) ==
    /\ peerConnection
    /\ reports < MaxReports
    /\ ~Calling("onStateChange")
    /\ LibraryCalls([callback |-> "onStateChange", session |-> sessions, state |-> s])
    /\ IF s \in {"Failed", "Closed"} /\ dataChannel # "null"
       THEN dataChannel' = "closed" /\ wire' = <<>>
       ELSE UNCHANGED <<dataChannel, wire>>
    /\ reports' = reports + 1
    /\ UNCHANGED <<peerConnection, connectState, notifiedOpenEvent, sdp, receivedQueue,
                   opening, describing, scriptVars, silent, sessions, sent>>

CallOpen ==
    /\ dataChannel = "connecting"
    /\ dataChannel' = "open"
    /\ LibraryCalls([callback |-> "onOpen", session |-> sessions])
    /\ UNCHANGED <<peerConnection, connectState, notifiedOpenEvent, sdp, receivedQueue,
                   opening, describing, scriptVars, wire, silent, boundVars>>

CallMessage ==
    /\ dataChannel = "open"
    /\ wire # <<>> /\ ~Calling("onMessage")
    /\ wire' = Tail(wire)
    /\ LibraryCalls([callback |-> "onMessage", session |-> sessions, data |-> Head(wire)])
    /\ UNCHANGED <<socketVars, opening, describing, scriptVars, silent, boundVars>>

\* The remote endpoint sends.
RemoteSend(m) ==
    /\ dataChannel \in {"connecting", "open"}
    /\ sent < MaxSent
    /\ wire' = Append(wire, m)
    /\ sent' = sent + 1
    /\ UNCHANGED <<socketVars, callbackVars, scriptVars, silent, sessions, reports>>
--------------------------------------------------------------------------------
(* The callbacks of the connection, on the library's threads.                  *)

\* A callback that is called begins.
Begins(c, callback) == c.callback = callback /\ calls' = calls \ {c}

\* Trigger(): an event is posted, and its handler will read all there is by then.
Trigger == events' = events + 1 /\ silent' = FALSE

OnLocalDescription(c) ==
    /\ Begins(c, "onLocalDescription")
    /\ MutexFree
    /\ sdp' = TRUE
    /\ UNCHANGED <<peerConnection, dataChannel, connectState, notifiedOpenEvent, receivedQueue,
                   opening, describing, scriptVars, wire, silent, boundVars>>

\* onGatheringStateChange(Complete): m_SDP under the lock, then Trigger() without it.
OnGatheringComplete(c) ==
    /\ Begins(c, "onGatheringStateChange")
    /\ MutexFree
    /\ sdp' = TRUE
    /\ describing' = describing \cup {c.session}
    /\ UNCHANGED <<peerConnection, dataChannel, connectState, notifiedOpenEvent, receivedQueue,
                   opening, scriptVars, wire, silent, boundVars>>

GatheringTrigger(s) ==
    /\ describing' = describing \ {s}
    /\ Trigger
    /\ UNCHANGED <<socketVars, calls, opening, statusEvents, mainThread, seenState,
                   wire, boundVars>>

\* The client learns its data channel from the connection.
OnDataChannel ==
    /\ peerConnection
    /\ dataChannel = "null"
    /\ dataChannel' = "connecting"
    /\ UNCHANGED <<peerConnection, connectState, notifiedOpenEvent, sdp, receivedQueue,
                   callbackVars, scriptVars, wire, silent, boundVars>>

\* The state the callback stores: Failed and Closed are both Disconnected.
StateOf(s) ==
    CASE s = "Connected" -> "Connected"
      [] s \in {"Failed", "Closed"} -> "Disconnected"
      [] OTHER -> "Connecting"

\* A plausible slip in OnStateChange: a connection that breaks is not announced.
OnStateChangeSilentBreak(c) ==
    /\ Begins(c, "onStateChange")
    /\ MutexFree
    /\ connectState' = StateOf(c.state)
    /\ statusEvents' = IF c.state \in {"Failed", "Closed"} THEN statusEvents ELSE statusEvents + 1
    /\ UNCHANGED <<peerConnection, dataChannel, notifiedOpenEvent, sdp, receivedQueue, opening,
                   describing, events, mainThread, seenState, wire, silent, boundVars>>

OnStateChange(c) ==
    /\ Begins(c, "onStateChange")
    /\ MutexFree
    /\ connectState' = StateOf(c.state)
    /\ statusEvents' = statusEvents + 1
    /\ UNCHANGED <<peerConnection, dataChannel, notifiedOpenEvent, sdp, receivedQueue, opening,
                   describing, events, mainThread, seenState, wire, silent, boundVars>>
--------------------------------------------------------------------------------
(* The callbacks of the data channel, on the library's threads.                *)

\* onOpen, first statement: Trigger().
OnOpenTrigger(c) ==
    /\ Begins(c, "onOpen")
    /\ opening' = opening \cup {c.session}
    /\ Trigger
    /\ UNCHANGED <<socketVars, describing, statusEvents, mainThread, seenState,
                   wire, boundVars>>

\* A plausible slip in OnOpenNotified: the flag is never set.
OnOpenUnnotified(s) ==
    /\ opening' = opening \ {s}
    /\ UNCHANGED <<socketVars, calls, describing, scriptVars, wire, silent, boundVars>>

\* onOpen, second statement: m_NotifiedOpenEvent = true.  Neither takes m_Mutex, so both
\* may come after Close.
OnOpenNotified(s) ==
    /\ opening' = opening \ {s}
    /\ notifiedOpenEvent' = TRUE
    /\ UNCHANGED <<peerConnection, dataChannel, connectState, sdp, receivedQueue, calls,
                   describing, scriptVars, wire, silent, boundVars>>

\* A message is out of time while onOpen of its session has yet to set the flag, and
\* once its session has ended.
OutOfTime(c) == InOpen(c.session) \/ Ended(c.session)

\* A plausible slip in OnMessage: the data is queued, the trigger forgotten.
OnMessageUntriggered(c) ==
    /\ Begins(c, "onMessage")
    /\ MutexFree
    /\ receivedQueue' = Append(receivedQueue, c.data)
    /\ silent' = (silent \/ (OutOfTime(c) /\ events = 0 /\ mainThread # "reading"))
    /\ UNCHANGED <<peerConnection, dataChannel, connectState, notifiedOpenEvent, sdp, opening,
                   describing, scriptVars, wire, boundVars>>

\* onMessage: queue the string and, once onOpen has been notified, trigger.
OnMessage(c) ==
    /\ Begins(c, "onMessage")
    /\ MutexFree
    /\ receivedQueue' = Append(receivedQueue, c.data)
    /\ IF notifiedOpenEvent
         THEN Trigger
         ELSE /\ silent' = (silent \/ (OutOfTime(c) /\ events = 0 /\ mainThread # "reading"))
              /\ UNCHANGED events
    /\ UNCHANGED <<peerConnection, dataChannel, connectState, notifiedOpenEvent, sdp, opening,
                   describing, statusEvents, mainThread, seenState, wire, boundVars>>
--------------------------------------------------------------------------------
(* The script's event handlers, on the TJS main thread.                        *)

\* A plausible slip in Fire: the handler runs although no event is posted.
FireUnposted ==
    /\ mainThread = "idle"
    /\ events' = events - 1
    /\ mainThread' = "reading"
    /\ UNCHANGED <<socketVars, callbackVars, statusEvents, seenState, wire, silent, boundVars>>

\* onFire starts a handler that calls popReceivedData until it returns "".
Fire ==
    /\ mainThread = "idle"
    /\ events > 0
    /\ events' = events - 1
    /\ mainThread' = "reading"
    /\ UNCHANGED <<socketVars, callbackVars, statusEvents, seenState, wire, silent, boundVars>>

PopReceivedData ==
    /\ mainThread = "reading"
    /\ receivedQueue # <<>>
    /\ receivedQueue' = Tail(receivedQueue)
    /\ UNCHANGED <<peerConnection, dataChannel, connectState, notifiedOpenEvent, sdp,
                   callbackVars, scriptVars, wire, silent, boundVars>>

PopNothing ==
    /\ mainThread = "reading"
    /\ receivedQueue = <<>>
    /\ mainThread' = "idle"
    /\ UNCHANGED <<socketVars, callbackVars, events, statusEvents, seenState, wire, silent, boundVars>>

\* onStatusChanged reads connectionState when the event is delivered, not when it
\* was posted.
FireStatus ==
    /\ mainThread = "idle"
    /\ statusEvents > 0
    /\ statusEvents' = statusEvents - 1
    /\ seenState' = connectState
    /\ UNCHANGED <<socketVars, callbackVars, events, mainThread, wire, silent, boundVars>>
--------------------------------------------------------------------------------
\* What the library calls, and what the callbacks do.
LibraryStep ==
    \/ CallLocalDescription \/ CallGatheringComplete \/ CallOpen \/ CallMessage
    \/ \E s \in PeerConnectionState : CallStateChange(s)
    \/ OnDataChannel
    \/ \E m \in Msgs : RemoteSend(m)

CallbackStep ==
    \/ \E c \in calls : \/ OnLocalDescription(c) \/ OnGatheringComplete(c) \/ OnStateChange(c)
                        \/ OnOpenTrigger(c) \/ OnMessage(c)
    \/ \E s \in describing : GatheringTrigger(s)
    \/ \E s \in opening : OnOpenNotified(s)

Reading == Fire \/ PopReceivedData \/ PopNothing

Next ==
    \/ \E isServer \in BOOLEAN : Initialize(isServer)
    \/ InitializeFails \/ Close \/ CloseReset
    \/ LibraryStep \/ CallbackStep
    \/ Reading \/ FireStatus

Spec == Init /\ [][Next]_vars

\* The event loop of the script engine delivers every posted event, a handler that
\* runs goes on, Close returns unless it has to wait, and a callback that has begun
\* and can have m_Mutex ends.
Fairness ==
    /\ WF_vars(Reading)
    /\ WF_vars(FireStatus)
    /\ WF_vars(CloseReset)
    /\ WF_vars(CallbackStep)

FairSpec == Spec /\ Fairness
--------------------------------------------------------------------------------
(* Properties.                                                                 *)

\* Data that is queued in time is announced: as long as the queue is not empty an event
\* is posted or a handler reads, whatever Close, failed sessions and late callbacks do.
\* Only a message that onMessage queues before onOpen has set m_NotifiedOpenEvent, or
\* after its session was closed or replaced, may lie there until the next event.
Announced == receivedQueue # <<>> => events > 0 \/ mainThread = "reading" \/ silent

\* The script's view of the connection is never stale with no event on the way:
\* once every status event is delivered it has read the current connectionState,
\* also when onStateChange of a session waits for m_Mutex until Close is over.
StatusSeen == statusEvents = 0 => seenState = connectState

\* Received data is eventually read, or dropped by Close, unless it came out of time
\* and no event was posted since: no other wakeup is lost between the library's
\* threads and the event loop.
ReceivedIsRead == receivedQueue # <<>> ~> (receivedQueue = <<>> \/ silent)

\* A connection that breaks is eventually seen by the script, unless it recovers.
BreakIsSeen ==
    connectState = "Disconnected" ~> (seenState = "Disconnected" \/ connectState # "Disconnected")
================================================================================
