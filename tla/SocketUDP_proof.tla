---------------------------- MODULE SocketUDP_proof ----------------------------
(* Proofs about SocketUDP, for every set of messages, every bound, and a library  *)
(* that waits for the callbacks it replaces as well as one that does not.         *)
EXTENDS SocketUDP, SequenceTheorems, TLAPS

\* An emptied queue or wire is a queue of messages.
LEMMA NoMessages == <<>> \in Seq(Msgs)
  BY EmptySeq

\* What a call that the library made looks like.
LEMMA CallFields ==
    ASSUME NEW c \in Call
    PROVE  /\ c.session \in Nat
           /\ c.callback = "onMessage" => c.data \in Msgs
           /\ c.callback = "onStateChange" => c.state \in PeerConnectionState
  BY DEF Call, MessageCall, StateCall, PlainCall

\* What onStateChange stores is a connection state.
LEMMA StateOfType == \A s : StateOf(s) \in ConnectionState
  BY DEF StateOf, ConnectionState

\* Every variable keeps its type (the members of the class, the library's callbacks and
\* the event queue): no handler runs for an event that was not posted.
THEOREM TypeCorrect == Spec => []TypeOK
<1>1. Init => TypeOK
  <2>1. Init => MemberTypes
    BY NoMessages DEF Init, MemberTypes, ConnectionState
  <2>2. Init => CallTypes /\ CounterTypes
    BY DEF Init, CallTypes, CounterTypes
  <2> QED
    BY <2>1, <2>2 DEF TypeOK
<1>2. TypeOK /\ [Next]_vars => TypeOK'
  <2> SUFFICES ASSUME TypeOK, [Next]_vars
               PROVE  TypeOK'
    OBVIOUS
  <2> USE DEF TypeOK
  <2>1. ASSUME NEW isServer \in BOOLEAN, Initialize(isServer)
        PROVE  TypeOK'
    <3>1. MemberTypes'
      BY <2>1, NoMessages DEF Initialize, scriptVars, MemberTypes, ConnectionState
    <3>2. CallTypes'
      BY <2>1 DEF Initialize, scriptVars, CallTypes
    <3>3. CounterTypes'
      BY <2>1 DEF Initialize, scriptVars, CounterTypes
    <3> QED
      BY <3>1, <3>2, <3>3
  <2>2. CASE InitializeFails
    <3>1. MemberTypes'
      BY <2>2, NoMessages DEF InitializeFails, scriptVars, MemberTypes, ConnectionState
    <3>2. CallTypes'
      BY <2>2 DEF InitializeFails, scriptVars, CallTypes
    <3>3. CounterTypes'
      BY <2>2 DEF InitializeFails, scriptVars, CounterTypes
    <3> QED
      BY <3>1, <3>2, <3>3
  <2>3. CASE Close
    <3>1. MemberTypes'
      BY <2>3 DEF Close, socketVars, callbackVars, boundVars, MemberTypes
    <3>2. CallTypes'
      BY <2>3 DEF Close, socketVars, callbackVars, boundVars, CallTypes
    <3>3. CounterTypes'
      BY <2>3 DEF Close, socketVars, callbackVars, boundVars, CounterTypes
    <3> QED
      BY <3>1, <3>2, <3>3
  <2>4. CASE CloseReset
    <3>1. MemberTypes'
      BY <2>4, NoMessages DEF CloseReset, callbackVars, boundVars, MemberTypes, ConnectionState
    <3>2. CallTypes'
      BY <2>4 DEF CloseReset, callbackVars, boundVars, CallTypes
    <3>3. CounterTypes'
      BY <2>4 DEF CloseReset, callbackVars, boundVars, CounterTypes
    <3> QED
      BY <3>1, <3>2, <3>3
  <2>5. CASE CallLocalDescription
    <3>1. MemberTypes'
      BY <2>5 DEF CallLocalDescription, LibraryCalls, socketVars, scriptVars, MemberTypes
    <3>2. CallTypes'
      BY <2>5
         DEF CallLocalDescription, LibraryCalls, socketVars, scriptVars, CallTypes, CounterTypes,
             Call, PlainCall
    <3>3. CounterTypes'
      BY <2>5 DEF CallLocalDescription, LibraryCalls, socketVars, scriptVars, CounterTypes
    <3> QED
      BY <3>1, <3>2, <3>3
  <2>6. CASE CallGatheringComplete
    <3>1. MemberTypes'
      BY <2>6 DEF CallGatheringComplete, LibraryCalls, socketVars, scriptVars, MemberTypes
    <3>2. CallTypes'
      BY <2>6
         DEF CallGatheringComplete, LibraryCalls, socketVars, scriptVars, CallTypes, CounterTypes,
             Call, PlainCall
    <3>3. CounterTypes'
      BY <2>6 DEF CallGatheringComplete, LibraryCalls, socketVars, scriptVars, CounterTypes
    <3> QED
      BY <3>1, <3>2, <3>3
  <2>7. CASE CallOpen
    <3>1. MemberTypes'
      BY <2>7 DEF CallOpen, LibraryCalls, scriptVars, boundVars, MemberTypes
    <3>2. CallTypes'
      BY <2>7
         DEF CallOpen, LibraryCalls, scriptVars, boundVars, CallTypes, CounterTypes, Call,
             PlainCall
    <3>3. CounterTypes'
      BY <2>7 DEF CallOpen, LibraryCalls, scriptVars, boundVars, CounterTypes
    <3> QED
      BY <3>1, <3>2, <3>3
  <2>8. CASE CallMessage
    <3>1. MemberTypes'
      BY <2>8, HeadTailProperties
         DEF CallMessage, LibraryCalls, socketVars, scriptVars, boundVars, MemberTypes
    <3>2. CallTypes'
      BY <2>8, HeadTailProperties
         DEF CallMessage, LibraryCalls, socketVars, scriptVars, boundVars, CallTypes, MemberTypes,
             CounterTypes, Call, MessageCall
    <3>3. CounterTypes'
      BY <2>8 DEF CallMessage, LibraryCalls, socketVars, scriptVars, boundVars, CounterTypes
    <3> QED
      BY <3>1, <3>2, <3>3
  <2>9. ASSUME NEW s \in PeerConnectionState, CallStateChange(s)
        PROVE  TypeOK'
    <3>1. MemberTypes'
      BY <2>9, NoMessages DEF CallStateChange, LibraryCalls, scriptVars, MemberTypes
    <3>2. CallTypes'
      BY <2>9
         DEF CallStateChange, LibraryCalls, scriptVars, CallTypes, CounterTypes, Call, StateCall
    <3>3. CounterTypes'
      BY <2>9 DEF CallStateChange, LibraryCalls, scriptVars, CounterTypes
    <3> QED
      BY <3>1, <3>2, <3>3
  <2>10. CASE OnDataChannel
    <3>1. MemberTypes'
      BY <2>10 DEF OnDataChannel, callbackVars, scriptVars, boundVars, MemberTypes
    <3>2. CallTypes'
      BY <2>10 DEF OnDataChannel, callbackVars, scriptVars, boundVars, CallTypes
    <3>3. CounterTypes'
      BY <2>10 DEF OnDataChannel, callbackVars, scriptVars, boundVars, CounterTypes
    <3> QED
      BY <3>1, <3>2, <3>3
  <2>11. ASSUME NEW m \in Msgs, RemoteSend(m)
         PROVE  TypeOK'
    <3>1. MemberTypes'
      BY <2>11, AppendProperties DEF RemoteSend, socketVars, callbackVars, scriptVars, MemberTypes
    <3>2. CallTypes'
      BY <2>11 DEF RemoteSend, socketVars, callbackVars, scriptVars, CallTypes
    <3>3. CounterTypes'
      BY <2>11 DEF RemoteSend, socketVars, callbackVars, scriptVars, CounterTypes
    <3> QED
      BY <3>1, <3>2, <3>3
  <2>12. ASSUME NEW c \in calls, OnLocalDescription(c)
         PROVE  TypeOK'
    <3>1. MemberTypes'
      BY <2>12 DEF OnLocalDescription, Begins, scriptVars, boundVars, MemberTypes
    <3>2. CallTypes'
      BY <2>12 DEF OnLocalDescription, Begins, scriptVars, boundVars, CallTypes
    <3>3. CounterTypes'
      BY <2>12 DEF OnLocalDescription, Begins, scriptVars, boundVars, CounterTypes
    <3> QED
      BY <3>1, <3>2, <3>3
  <2>13. ASSUME NEW c \in calls, OnGatheringComplete(c)
         PROVE  TypeOK'
    <3>1. MemberTypes'
      BY <2>13 DEF OnGatheringComplete, Begins, scriptVars, boundVars, MemberTypes
    <3>2. CallTypes'
      BY <2>13, CallFields DEF OnGatheringComplete, Begins, scriptVars, boundVars, CallTypes
    <3>3. CounterTypes'
      BY <2>13 DEF OnGatheringComplete, Begins, scriptVars, boundVars, CounterTypes
    <3> QED
      BY <3>1, <3>2, <3>3
  <2>14. ASSUME NEW c \in calls, OnStateChange(c)
         PROVE  TypeOK'
    <3>1. MemberTypes'
      BY <2>14, StateOfType DEF OnStateChange, Begins, boundVars, MemberTypes
    <3>2. CallTypes'
      BY <2>14 DEF OnStateChange, Begins, boundVars, CallTypes
    <3>3. CounterTypes'
      BY <2>14 DEF OnStateChange, Begins, boundVars, CounterTypes
    <3> QED
      BY <3>1, <3>2, <3>3
  <2>15. ASSUME NEW c \in calls, OnOpenTrigger(c)
         PROVE  TypeOK'
    <3>1. MemberTypes'
      BY <2>15 DEF OnOpenTrigger, Begins, Trigger, socketVars, boundVars, MemberTypes
    <3>2. CallTypes'
      BY <2>15, CallFields DEF OnOpenTrigger, Begins, Trigger, socketVars, boundVars, CallTypes
    <3>3. CounterTypes'
      BY <2>15 DEF OnOpenTrigger, Begins, Trigger, socketVars, boundVars, CounterTypes
    <3> QED
      BY <3>1, <3>2, <3>3
  <2>16. ASSUME NEW c \in calls, OnMessage(c)
         PROVE  TypeOK'
    <3>1. MemberTypes'
      BY <2>16, CallFields, AppendProperties
         DEF OnMessage, Begins, Trigger, boundVars, MemberTypes, CallTypes
    <3>2. CallTypes'
      BY <2>16 DEF OnMessage, Begins, Trigger, boundVars, CallTypes
    <3>3. CounterTypes'
      BY <2>16 DEF OnMessage, Begins, Trigger, boundVars, CounterTypes
    <3> QED
      BY <3>1, <3>2, <3>3
  <2>17. ASSUME NEW s \in describing, GatheringTrigger(s)
         PROVE  TypeOK'
    <3>1. MemberTypes'
      BY <2>17 DEF GatheringTrigger, Trigger, socketVars, boundVars, MemberTypes
    <3>2. CallTypes'
      BY <2>17 DEF GatheringTrigger, Trigger, socketVars, boundVars, CallTypes
    <3>3. CounterTypes'
      BY <2>17 DEF GatheringTrigger, Trigger, socketVars, boundVars, CounterTypes
    <3> QED
      BY <3>1, <3>2, <3>3
  <2>18. ASSUME NEW s \in opening, OnOpenNotified(s)
         PROVE  TypeOK'
    <3>1. MemberTypes'
      BY <2>18 DEF OnOpenNotified, scriptVars, boundVars, MemberTypes
    <3>2. CallTypes'
      BY <2>18 DEF OnOpenNotified, scriptVars, boundVars, CallTypes
    <3>3. CounterTypes'
      BY <2>18 DEF OnOpenNotified, scriptVars, boundVars, CounterTypes
    <3> QED
      BY <3>1, <3>2, <3>3
  <2>19. CASE Fire
    <3>1. MemberTypes'
      BY <2>19 DEF Fire, socketVars, callbackVars, boundVars, MemberTypes
    <3>2. CallTypes'
      BY <2>19 DEF Fire, socketVars, callbackVars, boundVars, CallTypes
    <3>3. CounterTypes'
      BY <2>19 DEF Fire, socketVars, callbackVars, boundVars, CounterTypes
    <3> QED
      BY <3>1, <3>2, <3>3
  <2>20. CASE PopReceivedData
    <3>1. MemberTypes'
      BY <2>20, HeadTailProperties
         DEF PopReceivedData, callbackVars, scriptVars, boundVars, MemberTypes
    <3>2. CallTypes'
      BY <2>20 DEF PopReceivedData, callbackVars, scriptVars, boundVars, CallTypes
    <3>3. CounterTypes'
      BY <2>20 DEF PopReceivedData, callbackVars, scriptVars, boundVars, CounterTypes
    <3> QED
      BY <3>1, <3>2, <3>3
  <2>21. CASE PopNothing
    <3>1. MemberTypes'
      BY <2>21 DEF PopNothing, socketVars, callbackVars, boundVars, MemberTypes
    <3>2. CallTypes'
      BY <2>21 DEF PopNothing, socketVars, callbackVars, boundVars, CallTypes
    <3>3. CounterTypes'
      BY <2>21 DEF PopNothing, socketVars, callbackVars, boundVars, CounterTypes
    <3> QED
      BY <3>1, <3>2, <3>3
  <2>22. CASE FireStatus
    <3>1. MemberTypes'
      BY <2>22 DEF FireStatus, socketVars, callbackVars, boundVars, MemberTypes
    <3>2. CallTypes'
      BY <2>22 DEF FireStatus, socketVars, callbackVars, boundVars, CallTypes
    <3>3. CounterTypes'
      BY <2>22 DEF FireStatus, socketVars, callbackVars, boundVars, CounterTypes
    <3> QED
      BY <3>1, <3>2, <3>3
  <2>23. CASE UNCHANGED vars
    <3>1. MemberTypes'
      BY <2>23 DEF vars, socketVars, callbackVars, scriptVars, boundVars, MemberTypes
    <3>2. CallTypes'
      BY <2>23 DEF vars, socketVars, callbackVars, scriptVars, boundVars, CallTypes
    <3>3. CounterTypes'
      BY <2>23 DEF vars, socketVars, callbackVars, scriptVars, boundVars, CounterTypes
    <3> QED
      BY <3>1, <3>2, <3>3
  <2> QED
    BY <2>1, <2>2, <2>3, <2>4, <2>5, <2>6, <2>7, <2>8, <2>9, <2>10, <2>11, <2>12,
       <2>13, <2>14, <2>15, <2>16, <2>17, <2>18, <2>19, <2>20, <2>21, <2>22, <2>23
       DEF Next, LibraryStep, CallbackStep, Reading
<1> QED
  BY <1>1, <1>2, PTL DEF Spec
--------------------------------------------------------------------------------
\* No callback belongs to a session that has not begun.
CallsHaveBegun == \A c \in calls : c.session <= sessions

\* The flag that onMessage tests is set, or onOpen of this session is about to set it.
FlagComes == InOpen(sessions) \/ notifiedOpenEvent

\* The reason why a message that is in time needs no event but its own: by then the flag
\* is set.  It holds of a channel that is open, and of a message that waits for m_Mutex
\* while its session goes on, whatever the channel has become.
OpenIsNotified == dataChannel = "open" => FlagComes
MessageIsNotified ==
    \A c \in calls : c.callback = "onMessage" /\ ~Ended(c.session) => FlagComes

AnnouncedInv == Announced /\ CallsHaveBegun /\ OpenIsNotified /\ MessageIsNotified

\* A channel and callbacks that stay, or lose a callback that is not onOpen, keep what the
\* flag needs.
LEMMA FlagStays ==
    ASSUME FlagComes, sessions' = sessions, notifiedOpenEvent' = notifiedOpenEvent,
           opening \subseteq opening',
           \A c \in calls : c.callback = "onOpen" => c \in calls' \/ c.session \in opening'
    PROVE  FlagComes'
  BY DEF FlagComes, InOpen

\* Received data is announced by a posted event or being read, or it came out of time and
\* no event was posted since (onMessage, onOpen, Close, popReceivedData).
THEOREM DataIsAnnounced == Spec => []Announced
<1>1. Init => AnnouncedInv
  BY DEF Init, AnnouncedInv, Announced, CallsHaveBegun, OpenIsNotified, MessageIsNotified
<1>2. TypeOK /\ AnnouncedInv /\ [Next]_vars => AnnouncedInv'
  <2> SUFFICES ASSUME TypeOK, AnnouncedInv, [Next]_vars
               PROVE  AnnouncedInv'
    OBVIOUS
  <2> USE DEF TypeOK, AnnouncedInv
  <2>1. ASSUME NEW isServer \in BOOLEAN, Initialize(isServer)
        PROVE  AnnouncedInv'
    <3>1. Announced'
      BY <2>1 DEF Initialize, scriptVars, Announced, MemberTypes, CounterTypes
    <3>2. CallsHaveBegun'
      <4>1. \A c \in calls : c.session \in Nat
        BY CallFields DEF CallTypes
      <4> QED
        BY <2>1, <4>1 DEF Initialize, scriptVars, CallsHaveBegun, CounterTypes, MemberTypes
    <3>3. (OpenIsNotified /\ MessageIsNotified)'
      BY <2>1
         DEF Initialize, scriptVars, CallsHaveBegun, CallTypes, CounterTypes, OpenIsNotified,
             MessageIsNotified, Ended
    <3> QED
      BY <3>1, <3>2, <3>3
  <2>2. CASE InitializeFails
    <3>1. Announced'
      BY <2>2 DEF InitializeFails, scriptVars, Announced, MemberTypes, CounterTypes
    <3>2. CallsHaveBegun'
      <4>1. \A c \in calls : c.session \in Nat
        BY CallFields DEF CallTypes
      <4> QED
        BY <2>2, <4>1 DEF InitializeFails, scriptVars, CallsHaveBegun, CounterTypes, MemberTypes
    <3>3. (OpenIsNotified /\ MessageIsNotified)'
      BY <2>2
         DEF InitializeFails, scriptVars, CallsHaveBegun, CallTypes, CounterTypes, OpenIsNotified,
             MessageIsNotified, Ended
    <3> QED
      BY <3>1, <3>2, <3>3
  <2>3. CASE Close
    <3>1. Announced'
      BY <2>3 DEF Close, socketVars, callbackVars, boundVars, Announced, MemberTypes, CounterTypes
    <3>2. CallsHaveBegun'
      BY <2>3
         DEF Close, socketVars, callbackVars, boundVars, CallsHaveBegun, CounterTypes, MemberTypes
    <3>3. FlagComes => FlagComes'
      BY <2>3, FlagStays DEF Close, socketVars, callbackVars, boundVars
    <3>4. (OpenIsNotified /\ MessageIsNotified)'
      BY <2>3, <3>3
         DEF Close, socketVars, callbackVars, boundVars, OpenIsNotified, MessageIsNotified, Ended
    <3> QED
      BY <3>1, <3>2, <3>4
  <2>4. CASE CloseReset
    <3>1. Announced'
      BY <2>4 DEF CloseReset, callbackVars, boundVars, Announced, MemberTypes, CounterTypes
    <3>2. CallsHaveBegun'
      BY <2>4 DEF CloseReset, callbackVars, boundVars, CallsHaveBegun, CounterTypes, MemberTypes
    <3>3. (OpenIsNotified /\ MessageIsNotified)'
      BY <2>4 DEF CloseReset, callbackVars, boundVars, OpenIsNotified, MessageIsNotified, Ended
    <3> QED
      BY <3>1, <3>2, <3>3
  <2>5. CASE CallLocalDescription
    <3>1. Announced'
      BY <2>5
         DEF CallLocalDescription, LibraryCalls, socketVars, scriptVars, Announced, MemberTypes,
             CounterTypes
    <3>2. CallsHaveBegun'
      BY <2>5
         DEF CallLocalDescription, LibraryCalls, socketVars, scriptVars, CallsHaveBegun,
             CounterTypes, MemberTypes
    <3>3. FlagComes => FlagComes'
      BY <2>5, FlagStays DEF CallLocalDescription, LibraryCalls, socketVars, scriptVars
    <3>4. (OpenIsNotified /\ MessageIsNotified)'
      BY <2>5, <3>3
         DEF CallLocalDescription, LibraryCalls, socketVars, scriptVars, OpenIsNotified,
             MessageIsNotified, Ended
    <3> QED
      BY <3>1, <3>2, <3>4
  <2>6. CASE CallGatheringComplete
    <3>1. Announced'
      BY <2>6
         DEF CallGatheringComplete, LibraryCalls, socketVars, scriptVars, Announced, MemberTypes,
             CounterTypes
    <3>2. CallsHaveBegun'
      BY <2>6
         DEF CallGatheringComplete, LibraryCalls, socketVars, scriptVars, CallsHaveBegun,
             CounterTypes, MemberTypes
    <3>3. FlagComes => FlagComes'
      BY <2>6, FlagStays DEF CallGatheringComplete, LibraryCalls, socketVars, scriptVars
    <3>4. (OpenIsNotified /\ MessageIsNotified)'
      BY <2>6, <3>3
         DEF CallGatheringComplete, LibraryCalls, socketVars, scriptVars, OpenIsNotified,
             MessageIsNotified, Ended
    <3> QED
      BY <3>1, <3>2, <3>4
  <2>7. CASE CallOpen
    <3>1. Announced'
      BY <2>7
         DEF CallOpen, LibraryCalls, scriptVars, boundVars, Announced, MemberTypes, CounterTypes
    <3>2. CallsHaveBegun'
      BY <2>7
         DEF CallOpen, LibraryCalls, scriptVars, boundVars, CallsHaveBegun, CounterTypes,
             MemberTypes
    <3>3. FlagComes'
      <4> DEFINE open == [callback |-> "onOpen", session |-> sessions]
      <4>1. open \in calls' /\ open.callback = "onOpen" /\ open.session = sessions'
        BY <2>7 DEF CallOpen, LibraryCalls, scriptVars, boundVars
      <4> QED
        BY <4>1 DEF FlagComes, InOpen
    <3>4. (OpenIsNotified /\ MessageIsNotified)'
      BY <3>3 DEF OpenIsNotified, MessageIsNotified
    <3> QED
      BY <3>1, <3>2, <3>4
  <2>8. CASE CallMessage
    <3>1. Announced'
      BY <2>8
         DEF CallMessage, LibraryCalls, socketVars, scriptVars, boundVars, Announced, MemberTypes,
             CounterTypes
    <3>2. CallsHaveBegun'
      BY <2>8
         DEF CallMessage, LibraryCalls, socketVars, scriptVars, boundVars, CallsHaveBegun,
             CounterTypes, MemberTypes
    <3>3. FlagComes => FlagComes'
      BY <2>8, FlagStays DEF CallMessage, LibraryCalls, socketVars, scriptVars, boundVars
    <3>4. (OpenIsNotified /\ MessageIsNotified)'
      BY <2>8, <3>3
         DEF CallMessage, LibraryCalls, socketVars, scriptVars, boundVars, OpenIsNotified,
             MessageIsNotified, Ended
    <3> QED
      BY <3>1, <3>2, <3>4
  <2>9. ASSUME NEW s \in PeerConnectionState, CallStateChange(s)
        PROVE  AnnouncedInv'
    <3>1. Announced'
      BY <2>9 DEF CallStateChange, LibraryCalls, scriptVars, Announced, MemberTypes, CounterTypes
    <3>2. CallsHaveBegun'
      BY <2>9
         DEF CallStateChange, LibraryCalls, scriptVars, CallsHaveBegun, CounterTypes, MemberTypes
    <3>3. FlagComes => FlagComes'
      BY <2>9, FlagStays DEF CallStateChange, LibraryCalls, scriptVars
    <3>4. (OpenIsNotified /\ MessageIsNotified)'
      BY <2>9, <3>3
         DEF CallStateChange, LibraryCalls, scriptVars, OpenIsNotified, MessageIsNotified, Ended
    <3> QED
      BY <3>1, <3>2, <3>4
  <2>10. CASE OnDataChannel
    <3>1. Announced'
      BY <2>10
         DEF OnDataChannel, callbackVars, scriptVars, boundVars, Announced, MemberTypes,
             CounterTypes
    <3>2. CallsHaveBegun'
      BY <2>10
         DEF OnDataChannel, callbackVars, scriptVars, boundVars, CallsHaveBegun, CounterTypes,
             MemberTypes
    <3>3. FlagComes => FlagComes'
      BY <2>10, FlagStays DEF OnDataChannel, callbackVars, scriptVars, boundVars
    <3>4. (OpenIsNotified /\ MessageIsNotified)'
      BY <2>10, <3>3
         DEF OnDataChannel, callbackVars, scriptVars, boundVars, OpenIsNotified, MessageIsNotified,
             Ended
    <3> QED
      BY <3>1, <3>2, <3>4
  <2>11. ASSUME NEW m \in Msgs, RemoteSend(m)
         PROVE  AnnouncedInv'
    <3>1. Announced'
      BY <2>11
         DEF RemoteSend, socketVars, callbackVars, scriptVars, Announced, MemberTypes,
             CounterTypes
    <3>2. CallsHaveBegun'
      BY <2>11
         DEF RemoteSend, socketVars, callbackVars, scriptVars, CallsHaveBegun, CounterTypes,
             MemberTypes
    <3>3. FlagComes => FlagComes'
      BY <2>11, FlagStays DEF RemoteSend, socketVars, callbackVars, scriptVars
    <3>4. (OpenIsNotified /\ MessageIsNotified)'
      BY <2>11, <3>3
         DEF RemoteSend, socketVars, callbackVars, scriptVars, OpenIsNotified, MessageIsNotified,
             Ended
    <3> QED
      BY <3>1, <3>2, <3>4
  <2>12. ASSUME NEW c \in calls, OnLocalDescription(c)
         PROVE  AnnouncedInv'
    <3>1. Announced'
      BY <2>12
         DEF OnLocalDescription, Begins, scriptVars, boundVars, Announced, MemberTypes,
             CounterTypes
    <3>2. CallsHaveBegun'
      BY <2>12
         DEF OnLocalDescription, Begins, scriptVars, boundVars, CallsHaveBegun, CounterTypes,
             MemberTypes
    <3>3. FlagComes => FlagComes'
      BY <2>12, FlagStays DEF OnLocalDescription, Begins, scriptVars, boundVars
    <3>4. (OpenIsNotified /\ MessageIsNotified)'
      BY <2>12, <3>3
         DEF OnLocalDescription, Begins, scriptVars, boundVars, OpenIsNotified, MessageIsNotified,
             Ended
    <3> QED
      BY <3>1, <3>2, <3>4
  <2>13. ASSUME NEW c \in calls, OnGatheringComplete(c)
         PROVE  AnnouncedInv'
    <3>1. Announced'
      BY <2>13
         DEF OnGatheringComplete, Begins, scriptVars, boundVars, Announced, MemberTypes,
             CounterTypes
    <3>2. CallsHaveBegun'
      BY <2>13
         DEF OnGatheringComplete, Begins, scriptVars, boundVars, CallsHaveBegun, CounterTypes,
             MemberTypes
    <3>3. FlagComes => FlagComes'
      BY <2>13, FlagStays DEF OnGatheringComplete, Begins, scriptVars, boundVars
    <3>4. (OpenIsNotified /\ MessageIsNotified)'
      BY <2>13, <3>3
         DEF OnGatheringComplete, Begins, scriptVars, boundVars, OpenIsNotified, MessageIsNotified,
             Ended
    <3> QED
      BY <3>1, <3>2, <3>4
  <2>14. ASSUME NEW c \in calls, OnStateChange(c)
         PROVE  AnnouncedInv'
    <3>1. Announced'
      BY <2>14 DEF OnStateChange, Begins, boundVars, Announced, MemberTypes, CounterTypes
    <3>2. CallsHaveBegun'
      BY <2>14 DEF OnStateChange, Begins, boundVars, CallsHaveBegun, CounterTypes, MemberTypes
    <3>3. FlagComes => FlagComes'
      BY <2>14, FlagStays DEF OnStateChange, Begins, boundVars
    <3>4. (OpenIsNotified /\ MessageIsNotified)'
      BY <2>14, <3>3 DEF OnStateChange, Begins, boundVars, OpenIsNotified, MessageIsNotified, Ended
    <3> QED
      BY <3>1, <3>2, <3>4
  <2>15. ASSUME NEW c \in calls, OnOpenTrigger(c)
         PROVE  AnnouncedInv'
    <3>1. Announced'
      BY <2>15
         DEF OnOpenTrigger, Begins, Trigger, socketVars, boundVars, Announced, MemberTypes,
             CounterTypes
    <3>2. CallsHaveBegun'
      BY <2>15
         DEF OnOpenTrigger, Begins, Trigger, socketVars, boundVars, CallsHaveBegun, CounterTypes,
             MemberTypes
    <3>3. FlagComes => FlagComes'
      BY <2>15, FlagStays DEF OnOpenTrigger, Begins, Trigger, socketVars, boundVars
    <3>4. (OpenIsNotified /\ MessageIsNotified)'
      BY <2>15, <3>3
         DEF OnOpenTrigger, Begins, Trigger, socketVars, boundVars, OpenIsNotified,
             MessageIsNotified, Ended
    <3> QED
      BY <3>1, <3>2, <3>4
  <2>16. ASSUME NEW c \in calls, OnMessage(c)
         PROVE  AnnouncedInv'
    \* With the flag set the message posts its event; without it, it is out of time.
    <3>0. notifiedOpenEvent \/ OutOfTime(c)
      BY <2>16 DEF OnMessage, Begins, MessageIsNotified, FlagComes, OutOfTime, Ended
    <3>1. Announced'
      <4>1. CASE notifiedOpenEvent
        BY <2>16, <4>1 DEF OnMessage, Trigger, Announced, CounterTypes
      <4>2. CASE ~notifiedOpenEvent
        <5>1. silent' = (silent \/ (OutOfTime(c) /\ events = 0 /\ mainThread # "reading"))
          BY <2>16, <4>2 DEF OnMessage
        <5>2. events' = events /\ mainThread' = mainThread
          BY <2>16, <4>2 DEF OnMessage
        <5>3. events = 0 \/ events > 0
          BY DEF CounterTypes
        <5>4. events > 0 \/ mainThread = "reading" \/ silent'
          BY <3>0, <4>2, <5>1, <5>3, Zenon
        <5> QED
          BY <5>2, <5>4 DEF Announced
      <4> QED
        BY <4>1, <4>2
    <3>2. CallsHaveBegun'
      BY <2>16 DEF OnMessage, Begins, Trigger, boundVars, CallsHaveBegun, CounterTypes, MemberTypes
    <3>3. FlagComes => FlagComes'
      BY <2>16, FlagStays DEF OnMessage, Begins, Trigger, boundVars
    <3>4. (OpenIsNotified /\ MessageIsNotified)'
      BY <2>16, <3>3
         DEF OnMessage, Begins, Trigger, boundVars, OpenIsNotified, MessageIsNotified, Ended
    <3> QED
      BY <3>1, <3>2, <3>4
  <2>17. ASSUME NEW s \in describing, GatheringTrigger(s)
         PROVE  AnnouncedInv'
    <3>1. Announced'
      BY <2>17
         DEF GatheringTrigger, Trigger, socketVars, boundVars, Announced, MemberTypes,
             CounterTypes
    <3>2. CallsHaveBegun'
      BY <2>17
         DEF GatheringTrigger, Trigger, socketVars, boundVars, CallsHaveBegun, CounterTypes,
             MemberTypes
    <3>3. FlagComes => FlagComes'
      BY <2>17, FlagStays DEF GatheringTrigger, Trigger, socketVars, boundVars
    <3>4. (OpenIsNotified /\ MessageIsNotified)'
      BY <2>17, <3>3
         DEF GatheringTrigger, Trigger, socketVars, boundVars, OpenIsNotified, MessageIsNotified,
             Ended
    <3> QED
      BY <3>1, <3>2, <3>4
  <2>18. ASSUME NEW s \in opening, OnOpenNotified(s)
         PROVE  AnnouncedInv'
    <3>1. Announced'
      BY <2>18 DEF OnOpenNotified, scriptVars, boundVars, Announced, MemberTypes, CounterTypes
    <3>2. CallsHaveBegun'
      BY <2>18 DEF OnOpenNotified, scriptVars, boundVars, CallsHaveBegun, CounterTypes, MemberTypes
    <3>3. FlagComes'
      BY <2>18 DEF OnOpenNotified, scriptVars, boundVars, FlagComes
    <3>4. (OpenIsNotified /\ MessageIsNotified)'
      BY <3>3 DEF OpenIsNotified, MessageIsNotified
    <3> QED
      BY <3>1, <3>2, <3>4
  <2>19. CASE Fire
    <3>1. Announced'
      BY <2>19 DEF Fire, socketVars, callbackVars, boundVars, Announced, MemberTypes, CounterTypes
    <3>2. CallsHaveBegun'
      BY <2>19
         DEF Fire, socketVars, callbackVars, boundVars, CallsHaveBegun, CounterTypes, MemberTypes
    <3>3. FlagComes => FlagComes'
      BY <2>19, FlagStays DEF Fire, socketVars, callbackVars, boundVars
    <3>4. (OpenIsNotified /\ MessageIsNotified)'
      BY <2>19, <3>3
         DEF Fire, socketVars, callbackVars, boundVars, OpenIsNotified, MessageIsNotified, Ended
    <3> QED
      BY <3>1, <3>2, <3>4
  <2>20. CASE PopReceivedData
    <3>1. Announced'
      BY <2>20, HeadTailProperties
         DEF PopReceivedData, callbackVars, scriptVars, boundVars, Announced, MemberTypes,
             CounterTypes
    <3>2. CallsHaveBegun'
      BY <2>20
         DEF PopReceivedData, callbackVars, scriptVars, boundVars, CallsHaveBegun, CounterTypes,
             MemberTypes
    <3>3. FlagComes => FlagComes'
      BY <2>20, FlagStays DEF PopReceivedData, callbackVars, scriptVars, boundVars
    <3>4. (OpenIsNotified /\ MessageIsNotified)'
      BY <2>20, <3>3
         DEF PopReceivedData, callbackVars, scriptVars, boundVars, OpenIsNotified,
             MessageIsNotified, Ended
    <3> QED
      BY <3>1, <3>2, <3>4
  <2>21. CASE PopNothing
    <3>1. Announced'
      BY <2>21
         DEF PopNothing, socketVars, callbackVars, boundVars, Announced, MemberTypes, CounterTypes
    <3>2. CallsHaveBegun'
      BY <2>21
         DEF PopNothing, socketVars, callbackVars, boundVars, CallsHaveBegun, CounterTypes,
             MemberTypes
    <3>3. FlagComes => FlagComes'
      BY <2>21, FlagStays DEF PopNothing, socketVars, callbackVars, boundVars
    <3>4. (OpenIsNotified /\ MessageIsNotified)'
      BY <2>21, <3>3
         DEF PopNothing, socketVars, callbackVars, boundVars, OpenIsNotified, MessageIsNotified,
             Ended
    <3> QED
      BY <3>1, <3>2, <3>4
  <2>22. CASE FireStatus
    <3>1. Announced'
      BY <2>22
         DEF FireStatus, socketVars, callbackVars, boundVars, Announced, MemberTypes, CounterTypes
    <3>2. CallsHaveBegun'
      BY <2>22
         DEF FireStatus, socketVars, callbackVars, boundVars, CallsHaveBegun, CounterTypes,
             MemberTypes
    <3>3. FlagComes => FlagComes'
      BY <2>22, FlagStays DEF FireStatus, socketVars, callbackVars, boundVars
    <3>4. (OpenIsNotified /\ MessageIsNotified)'
      BY <2>22, <3>3
         DEF FireStatus, socketVars, callbackVars, boundVars, OpenIsNotified, MessageIsNotified,
             Ended
    <3> QED
      BY <3>1, <3>2, <3>4
  <2>23. CASE UNCHANGED vars
    <3>1. Announced'
      BY <2>23
         DEF vars, socketVars, callbackVars, scriptVars, boundVars, Announced, MemberTypes,
             CounterTypes
    <3>2. CallsHaveBegun'
      BY <2>23
         DEF vars, socketVars, callbackVars, scriptVars, boundVars, CallsHaveBegun, CounterTypes,
             MemberTypes
    <3>3. FlagComes => FlagComes'
      BY <2>23, FlagStays DEF vars, socketVars, callbackVars, scriptVars, boundVars
    <3>4. (OpenIsNotified /\ MessageIsNotified)'
      BY <2>23, <3>3
         DEF vars, socketVars, callbackVars, scriptVars, boundVars, OpenIsNotified,
             MessageIsNotified, Ended
    <3> QED
      BY <3>1, <3>2, <3>4
  <2> QED
    BY <2>1, <2>2, <2>3, <2>4, <2>5, <2>6, <2>7, <2>8, <2>9, <2>10, <2>11, <2>12,
       <2>13, <2>14, <2>15, <2>16, <2>17, <2>18, <2>19, <2>20, <2>21, <2>22, <2>23
       DEF Next, LibraryStep, CallbackStep, Reading
<1>3. AnnouncedInv => Announced
  BY DEF AnnouncedInv
<1> QED
  BY <1>1, <1>2, <1>3, TypeCorrect, PTL DEF Spec
--------------------------------------------------------------------------------
\* With no status event on the way, the script has read the connection state that the
\* socket holds, also when onStateChange had to wait for Close (onStateChange,
\* onStatusChanged, Close).
THEOREM StatusIsSeen == Spec => []StatusSeen
<1>1. Init => StatusSeen
  BY DEF Init, StatusSeen
<1>2. TypeOK /\ StatusSeen /\ [Next]_vars => StatusSeen'
  <2> SUFFICES ASSUME TypeOK, StatusSeen, [Next]_vars
               PROVE  StatusSeen'
    OBVIOUS
  <2> USE DEF TypeOK, CounterTypes, StatusSeen
  <2>1. CASE CloseReset
    BY <2>1 DEF CloseReset
  <2>2. ASSUME NEW c \in calls, OnStateChange(c)
        PROVE  StatusSeen'
    BY <2>2 DEF OnStateChange
  <2>3. CASE FireStatus
    BY <2>3 DEF FireStatus, socketVars
  <2>4. ASSUME UNCHANGED <<connectState, statusEvents, seenState>>
        PROVE  StatusSeen'
    BY <2>4
  <2>5. ASSUME Next, ~CloseReset, ~FireStatus, ~(\E c \in calls : OnStateChange(c))
        PROVE  UNCHANGED <<connectState, statusEvents, seenState>>
    <3>1. ASSUME LibraryStep
          PROVE  UNCHANGED <<connectState, statusEvents, seenState>>
      BY <3>1 DEF LibraryStep, CallLocalDescription, CallGatheringComplete, CallOpen, CallMessage,
         CallStateChange, OnDataChannel, RemoteSend, socketVars, scriptVars
    <3>2. ASSUME CallbackStep
          PROVE  UNCHANGED <<connectState, statusEvents, seenState>>
      BY <2>5, <3>2 DEF CallbackStep, OnLocalDescription, OnGatheringComplete, OnOpenTrigger,
         OnMessage, GatheringTrigger, OnOpenNotified, socketVars, scriptVars
    <3> QED
      BY <2>5, <3>1, <3>2 DEF Next, Initialize, InitializeFails, Close, Reading, Fire,
         PopReceivedData, PopNothing, socketVars, scriptVars
  <2>6. CASE UNCHANGED vars
    BY <2>6 DEF vars, socketVars, scriptVars
  <2> QED
    BY <2>1, <2>2, <2>3, <2>4, <2>5, <2>6
<1> QED
  BY <1>1, <1>2, TypeCorrect, PTL DEF Spec
================================================================================
