------------------------------ MODULE PuzzleINet ------------------------------
(* The network match of src/src/goki2/modules/ModPuzzleINet.tjs: two peers that *)
(* exchange packets over a data channel, from the moment the session            *)
(* descriptions are exchanged.  A peer's state is the PuzzleINet object and the  *)
(* SocketUDP it owns; its main thread runs one event handler at a time, so a    *)
(* handler's loop over the packets it read is a sequence of steps of that peer.  *)
EXTENDS Naturals, Sequences

CONSTANTS
    Ordered,        \* external: does the channel keep the order of messages?
    MaxLost,        \* bound: messages the channel loses
    MaxDuplicated,  \* bound: messages the channel delivers twice
    MaxSent,        \* bound: MaxSent[p][t], packets of type t the game of p sends by itself
    MaxAsked,       \* bound: blocks the games ask for ahead of their packet
    Loser,          \* the peer whose board fills up, or none
    Promised        \* the types whose delivery is compared with OrderedDelivery

Peer == {"server", "client"}
Other(p) == IF p = "server" THEN "client" ELSE "server"

Type == {"input", "block", "ojama"}

ASSUME PuzzleINetAssumption ==
    /\ Ordered \in BOOLEAN
    /\ MaxLost \in Nat
    /\ MaxDuplicated \in Nat
    /\ MaxSent \in [Peer -> [Type -> Nat]]
    /\ MaxAsked \in Nat
    /\ Loser \in Peer \cup {"none"}
    /\ Promised \subseteq Type

UserLayer == {"puzzleUserLayer1", "puzzleUserLayer2"}

\* A message is a packet.  Data and requests (ack : true) carry a type and a
\* sequence number; gameover packets name a user layer and have none, which
\* sorts as 0; "Creation done." is no packet at all.
Packet == [kind : {"data"}, type : Type, sequence : Nat]
     \cup [kind : {"ack"}, type : Type \cup UserLayer \cup {"none"}, sequence : Nat]
     \cup [kind : {"gameover"}, type : UserLayer, sequence : Nat]
     \cup [kind : {"created"}, type : {"none"}, sequence : Nat]

Data(t, n)     == [kind |-> "data", type |-> t, sequence |-> n]
Request(t, n)  == [kind |-> "ack", type |-> t, sequence |-> n]
GameOver(user) == [kind |-> "gameover", type |-> user, sequence |-> 0]
CreationDone   == [kind |-> "created", type |-> "none", sequence |-> 0]

InitialBlocks == <<Data("block", 0), Data("block", 1), Data("block", 2)>>

VARIABLES
    net,               \* external: net[p], the messages under way to p
    queue,             \* queue[p]: m_ReceivedQueue of p's socket
    opened,            \* the peers whose onOpen has run
    events,            \* events[p]: posted onFire events of p
    handler,           \* handler_
    phase,             \* the handler's loop that p is in, idle, or thrown: a loop
                       \* ended in an exception, and what follows is not modelled
    seqNo,             \* seqNo[p][t]: the t-SequenceNumber_ of p; transmissionData_ holds
                       \* the packets of type t numbered below it
    received,          \* received[p][t]: the sequence numbers of type t in receivedData_
    raw,               \* rawData_ without the packets in todo
    todo,              \* the packets of rawData_ the running loop has yet to look at
    expected,          \* prevSeqInput + 1, prevSeqBlock + 1, prevSeqOjama + 1
    known,             \* receivedDataMap, as the handler computed it
    initialDone,       \* have the server's layers their first blocks?
    initialProcessed,  \* the numbers n with initialProcessed_[n], of the client
    outcome,           \* outcome[p]: none, or the user layer whose game is over
    sent, asked, lost, duplicated  \* how much of the bounds is used up

loopVars == <<phase, raw, todo, expected, known>>
dataVars == <<seqNo, received>>
setupVars == <<opened, initialDone, initialProcessed>>
boundVars == <<sent, asked, lost, duplicated>>
vars == <<net, queue, events, handler, loopVars, dataVars, setupVars, outcome, boundVars>>

PacketTypes ==
    /\ net \in [Peer -> Seq(Packet)]
    /\ queue \in [Peer -> Seq(Packet)]
    /\ raw \in [Peer -> Seq(Packet)]
    /\ todo \in [Peer -> Seq(Packet)]

NumberTypes ==
    /\ events \in [Peer -> Nat]
    /\ seqNo \in [Peer -> [Type -> Nat]]
    /\ received \in [Peer -> [Type -> Seq(Nat)]]
    /\ expected \in [Peer -> [Type -> Nat]]
    /\ known \in [Peer -> SUBSET (Type \X Nat)]

ModeTypes ==
    /\ opened \subseteq Peer
    /\ handler \in [Peer -> {"onConnectionComplete", "onInitialize", "onReceived"}]
    /\ phase \in [Peer -> {"idle", "connecting", "receiving", "thrown"}]
    /\ initialDone \in BOOLEAN
    /\ initialProcessed \subseteq 0..2
    /\ outcome \in [Peer -> UserLayer \cup {"none"}]

BoundTypes ==
    /\ sent \in [Peer -> [Type -> Nat]]
    /\ asked \in Nat
    /\ lost \in Nat
    /\ duplicated \in Nat

TypeOK == PacketTypes /\ NumberTypes /\ ModeTypes /\ BoundTypes

Init ==
    /\ net = [p \in Peer |-> <<>>]
    /\ queue = [p \in Peer |-> <<>>]
    /\ opened = {}
    /\ events = [p \in Peer |-> 0]
    /\ handler = [p \in Peer |-> "onConnectionComplete"]
    /\ phase = [p \in Peer |-> "idle"]
    /\ seqNo = [p \in Peer |-> [t \in Type |-> 0]]
    /\ received = [p \in Peer |-> [t \in Type |-> <<>>]]
    /\ raw = [p \in Peer |-> <<>>]
    /\ todo = [p \in Peer |-> <<>>]
    /\ expected = [p \in Peer |-> [t \in Type |-> 0]]
    /\ known = [p \in Peer |-> {}]
    /\ initialDone = FALSE
    /\ initialProcessed = {}
    /\ outcome = [p \in Peer |-> "none"]
    /\ sent = [p \in Peer |-> [t \in Type |-> 0]]
    /\ asked = 0
    /\ lost = 0
    /\ duplicated = 0

Without(s, i) == SubSeq(s, 1, i - 1) \o SubSeq(s, i + 1, Len(s))
--------------------------------------------------------------------------------
(* The socket: the callbacks of SocketUDP, on the library's threads.           *)

Open(p) ==
    /\ p \notin opened
    /\ opened' = opened \cup {p}
    /\ events' = [events EXCEPT ![p] = @ + 1]
    /\ UNCHANGED <<net, queue, handler, loopVars, dataVars, initialDone,
                   initialProcessed, outcome, boundVars>>

\* onMessage: queue the string and, once onOpen has been notified, trigger.
Deliver(p) ==
    \E i \in 1..Len(net[p]) :
        /\ Ordered => i = 1
        /\ net' = [net EXCEPT ![p] = Without(@, i)]
        /\ queue' = [queue EXCEPT ![p] = Append(@, net[p][i])]
        /\ events' = IF p \in opened THEN [events EXCEPT ![p] = @ + 1] ELSE events
        /\ UNCHANGED <<handler, loopVars, dataVars, setupVars, outcome, boundVars>>

\* External: what an unreliable channel would do.
Lose(p) ==
    \E i \in 1..Len(net[p]) :
        /\ lost < MaxLost
        /\ net' = [net EXCEPT ![p] = Without(@, i)]
        /\ lost' = lost + 1
        /\ UNCHANGED <<queue, events, handler, loopVars, dataVars, setupVars, outcome,
                       sent, asked, duplicated>>

Duplicate(p) ==
    \E i \in 1..Len(net[p]) :
        /\ duplicated < MaxDuplicated
        /\ net' = [net EXCEPT ![p] = Append(@, net[p][i])]
        /\ duplicated' = duplicated + 1
        /\ UNCHANGED <<queue, events, handler, loopVars, dataVars, setupVars, outcome,
                       sent, asked, lost>>
--------------------------------------------------------------------------------
(* onFire: the main thread runs the handler_ of the moment.                    *)

\* A plausible slip in Fire: a handler runs although no event is posted.
FireUnposted(p, h) ==
    /\ phase[p] = "idle"
    /\ handler[p] = h

Fire(p, h) ==
    /\ phase[p] = "idle"
    /\ handler[p] = h
    /\ events[p] > 0

Consumed(p) == events' = [events EXCEPT ![p] = @ - 1]

\* The loop over popReceivedData: every packet joins rawData_, unless one of them
\* is "Creation done.", on which Scripts.eval throws; what follows it stays queued.
ReadAll(p, loop) ==
    /\ CreationDone \notin {queue[p][i] : i \in 1..Len(queue[p])}
    /\ todo' = [todo EXCEPT ![p] = raw[p] \o queue[p]]
    /\ raw' = [raw EXCEPT ![p] = <<>>]
    /\ queue' = [queue EXCEPT ![p] = <<>>]
    /\ phase' = [phase EXCEPT ![p] = loop]

ReadFails(p) ==
    \E i \in 1..Len(queue[p]) :
        /\ queue[p][i] = CreationDone
        /\ CreationDone \notin {queue[p][j] : j \in 1..i - 1}
        /\ raw' = [raw EXCEPT ![p] = @ \o SubSeq(queue[p], 1, i - 1)]
        /\ queue' = [queue EXCEPT ![p] = SubSeq(@, i + 1, Len(@))]
        /\ UNCHANGED <<todo, phase>>

\* A plausible slip in IsNext: the comparator of the sort is reversed.
IsNextReversed(p, i) ==
    /\ i \in 1..Len(todo[p])
    /\ \A j \in 1..Len(todo[p]) : todo[p][i].sequence >= todo[p][j].sequence

\* After the sort by sequence, whose ties come in any order, the loop looks at a
\* packet with the least number of those it has yet to look at.
IsNext(p, i) ==
    /\ i \in 1..Len(todo[p])
    /\ \A j \in 1..Len(todo[p]) : todo[p][i].sequence <= todo[p][j].sequence

SendTo(p, packets) == net' = [net EXCEPT ![p] = @ \o packets]
--------------------------------------------------------------------------------
(* onConnectionComplete.                                                        *)

\* A plausible slip in Rescheduled: the handler changes without a trigger.
NotRescheduled(p) == Consumed(p)

\* trigger_.trigger() within a handler: one event consumed, one posted.
Rescheduled(p) == events' = [events EXCEPT ![p] = @ - 1 + 1]

\* The server gives its layers their blocks on its first event, and leaves the
\* handler only when "Creation done." is what it pops first.
ServerConnects ==
    LET p == "server"
        done == queue[p] # <<>> /\ Head(queue[p]) = CreationDone
    IN  /\ Fire(p, "onConnectionComplete")
        /\ initialDone' = TRUE
        /\ IF initialDone
           THEN UNCHANGED <<net, seqNo>>
           ELSE /\ SendTo("client", InitialBlocks)
                /\ seqNo' = [seqNo EXCEPT ![p]["block"] = @ + 3]
        /\ \/ /\ done
              /\ queue' = [queue EXCEPT ![p] = Tail(@)]
              /\ handler' = [handler EXCEPT ![p] = "onInitialize"]
              /\ Rescheduled(p)
              /\ UNCHANGED <<raw, todo, phase>>
           \/ /\ queue[p] = <<>>
              /\ Consumed(p)
              /\ UNCHANGED <<queue, handler, raw, todo, phase>>
           \/ /\ queue[p] # <<>> /\ ~done
              /\ ReadAll(p, "connecting") \/ ReadFails(p)
              /\ Consumed(p)
              /\ UNCHANGED handler
        /\ UNCHANGED <<opened, expected, known, received, initialProcessed, outcome, boundVars>>

ClientConnects ==
    LET p == "client" IN
    /\ Fire(p, "onConnectionComplete")
    /\ Consumed(p)
    /\ IF queue[p] = <<>>
       THEN UNCHANGED <<queue, raw, todo, phase>>
       ELSE ReadAll(p, "connecting")
    /\ UNCHANGED <<net, handler, expected, known, dataVars, setupVars, outcome, boundVars>>

\* A request for a block the server never sent makes one up.
SendNewBlock(p) ==
    /\ SendTo(Other(p), <<Data("block", seqNo[p]["block"])>>)
    /\ seqNo' = [seqNo EXCEPT ![p]["block"] = @ + 1]

WasSent(p, packet) == packet.type \in Type /\ packet.sequence < seqNo[p][packet.type]

Resend(p, packet) ==
    /\ WasSent(p, packet)
    /\ SendTo(Other(p), <<Data(packet.type, packet.sequence)>>)
    /\ UNCHANGED seqNo

Keep(p, i) ==
    /\ todo' = [todo EXCEPT ![p] = Without(@, i)]
    /\ raw' = [raw EXCEPT ![p] = Append(@, todo[p][i])]

Drop(p, i) ==
    /\ todo' = [todo EXCEPT ![p] = Without(@, i)]
    /\ UNCHANGED raw

IsInitialBlock(packet) == packet.type = "block" /\ packet.sequence \in 0..2

\* The server answers requests for blocks, the client takes the initial blocks,
\* be they packets or requests; every other packet waits.
ServerConnecting(i) ==
    LET p == "server"
        packet == todo[p][i]
    IN  /\ phase[p] = "connecting"
        /\ IsNext(p, i)
        /\ IF packet.kind = "ack" /\ packet.type = "block"
           THEN Drop(p, i) /\ (Resend(p, packet) \/
                               (~WasSent(p, packet) /\ SendNewBlock(p)))
           ELSE Keep(p, i) /\ UNCHANGED <<net, seqNo>>
        /\ UNCHANGED <<queue, events, handler, phase, expected, known, received,
                       setupVars, outcome, boundVars>>

ServerConnected ==
    /\ phase["server"] = "connecting"
    /\ todo["server"] = <<>>
    /\ phase' = [phase EXCEPT !["server"] = "idle"]
    /\ UNCHANGED <<net, queue, events, handler, raw, todo, expected, known, dataVars,
                   setupVars, outcome, boundVars>>

ClientConnecting(i) ==
    LET p == "client"
        packet == todo[p][i]
    IN  /\ phase[p] = "connecting"
        /\ IsNext(p, i)
        /\ IF IsInitialBlock(packet)
           THEN /\ Drop(p, i)
                /\ initialProcessed' = initialProcessed \cup {packet.sequence}
                /\ received' = [received EXCEPT ![p]["block"] = Append(@, packet.sequence)]
           ELSE Keep(p, i) /\ UNCHANGED <<initialProcessed, received>>
        /\ UNCHANGED <<net, queue, events, handler, phase, expected, known, seqNo, opened,
                       initialDone, outcome, boundVars>>

\* Missing initial blocks: for the n-th one the client asks with the type of the
\* n-th packet left in rawData_, and gives up at the first n that has none.
MissingRequests(p) ==
    LET missing == (0..2) \ initialProcessed
        askable == {n \in missing : \A m \in missing : m <= n => m < Len(raw[p])}
        ask(n) == IF n \in askable THEN <<Request(raw[p][n + 1].type, n)>> ELSE <<>>
    IN  ask(0) \o ask(1) \o ask(2)

\* Two plausible slips in ClientConnected: any initial block is enough, and the
\* handler changes without a trigger.
ClientConnectedEarly ==
    LET p == "client" IN
    /\ phase[p] = "connecting"
    /\ todo[p] = <<>>
    /\ phase' = [phase EXCEPT ![p] = "idle"]
    /\ handler' = [handler EXCEPT ![p] = "onInitialize"]
    /\ events' = [events EXCEPT ![p] = @ + 1]
    /\ SendTo("server", <<CreationDone>>)
    /\ UNCHANGED <<queue, raw, todo, expected, known, dataVars, setupVars, outcome,
                   boundVars>>

ClientConnectedSilently ==
    LET p == "client"
        complete == initialProcessed = 0..2
    IN  /\ phase[p] = "connecting"
        /\ todo[p] = <<>>
        /\ phase' = [phase EXCEPT ![p] = "idle"]
        /\ handler' = IF complete THEN [handler EXCEPT ![p] = "onInitialize"] ELSE handler
        /\ SendTo("server", IF complete THEN <<CreationDone>> ELSE MissingRequests(p))
        /\ UNCHANGED <<queue, events, raw, todo, expected, known, dataVars, setupVars,
                       outcome, boundVars>>

\* All three there: both layers take them, onInitialize is scheduled and the
\* server is told.
ClientConnected ==
    LET p == "client"
        complete == initialProcessed = 0..2
    IN  /\ phase[p] = "connecting"
        /\ todo[p] = <<>>
        /\ phase' = [phase EXCEPT ![p] = "idle"]
        /\ handler' = IF complete THEN [handler EXCEPT ![p] = "onInitialize"] ELSE handler
        /\ events' = IF complete THEN [events EXCEPT ![p] = @ + 1] ELSE events
        /\ SendTo("server", IF complete THEN <<CreationDone>> ELSE MissingRequests(p))
        /\ UNCHANGED <<queue, raw, todo, expected, known, dataVars, setupVars, outcome,
                       boundVars>>
--------------------------------------------------------------------------------
(* onInitialize and onReceived.                                                 *)

\* connectionOk_ is handler = "onReceived".
OnInitialize(p) ==
    /\ Fire(p, "onInitialize")
    /\ Consumed(p)
    /\ handler' = [handler EXCEPT ![p] = "onReceived"]
    /\ UNCHANGED <<net, queue, loopVars, dataVars, setupVars, outcome, boundVars>>

\* A plausible slip in LatestSequenceNumber: one added too many.
LatestSequenceNumberOff(p, t) ==
    LET log == received[p][t] IN IF log = <<>> THEN 0 ELSE log[Len(log)] + 2

\* getLatestSequenceNumber: one above the last number processed, or 0.
LatestSequenceNumber(p, t) ==
    LET log == received[p][t] IN IF log = <<>> THEN 0 ELSE log[Len(log)] + 1

ReceivedDataMap(p) ==
    UNION {{<<t, received[p][t][i]>> : i \in 1..Len(received[p][t])} : t \in Type}

OnReceived(p) ==
    /\ Fire(p, "onReceived")
    /\ Consumed(p)
    /\ \/ /\ queue[p] = <<>>
          /\ UNCHANGED <<queue, raw, todo, phase, expected, known>>
       \/ /\ queue[p] # <<>>
          /\ ReadAll(p, "receiving")
          /\ expected' = [expected EXCEPT ![p] = [t \in Type |-> LatestSequenceNumber(p, t)]]
          /\ known' = [known EXCEPT ![p] = ReceivedDataMap(p)]
       \/ /\ ReadFails(p)
          /\ UNCHANGED <<expected, known>>
    /\ UNCHANGED <<net, handler, dataVars, setupVars, outcome, boundVars>>

Receiving(p, i, kind) ==
    /\ phase[p] = "receiving"
    /\ IsNext(p, i)
    /\ todo[p][i].kind = kind

\* An ack packet: send the packet again, or make up a block nobody sent yet; a
\* request for any other packet that was never sent throws.
Answer(p, i) ==
    LET packet == todo[p][i] IN
    /\ Receiving(p, i, "ack")
    /\ Drop(p, i)
    /\ IF WasSent(p, packet)
       THEN Resend(p, packet) /\ UNCHANGED phase
       ELSE IF packet.type = "block"
       THEN SendNewBlock(p) /\ UNCHANGED phase
       ELSE phase' = [phase EXCEPT ![p] = "thrown"] /\ UNCHANGED <<net, seqNo>>
    /\ UNCHANGED <<queue, events, handler, expected, known, received, setupVars, outcome,
                   boundVars>>

\* Does the data packet repeat one that was processed before this handler began?
IsDuplicate(p, packet) == <<packet.type, packet.sequence>> \in known[p]

DropDuplicate(p, i) ==
    /\ Receiving(p, i, "data")
    /\ IsDuplicate(p, todo[p][i])
    /\ Drop(p, i)
    /\ UNCHANGED <<net, queue, events, handler, phase, expected, known, dataVars,
                   setupVars, outcome, boundVars>>

\* A plausible slip in Process: the gap check is dropped.
ProcessAnyNumber(p, i) ==
    LET packet == todo[p][i]
        t == packet.type
    IN  /\ Receiving(p, i, "data")
        /\ ~IsDuplicate(p, packet)
        /\ Drop(p, i)
        /\ received' = [received EXCEPT ![p][t] = Append(@, packet.sequence)]
        /\ expected' = [expected EXCEPT ![p][t] = packet.sequence + 1]
        /\ UNCHANGED <<net, queue, events, handler, phase, known, seqNo, setupVars,
                       outcome, boundVars>>

\* The packet after the last one processed.  prevSeqOjama is the one that does not
\* advance within the loop.
Process(p, i) ==
    LET packet == todo[p][i]
        t == packet.type
    IN  /\ Receiving(p, i, "data")
        /\ ~IsDuplicate(p, packet)
        /\ packet.sequence = expected[p][t]
        /\ Drop(p, i)
        /\ received' = [received EXCEPT ![p][t] = Append(@, packet.sequence)]
        /\ expected' = IF t = "ojama" THEN expected
                       ELSE [expected EXCEPT ![p][t] = packet.sequence + 1]
        /\ UNCHANGED <<net, queue, events, handler, phase, known, seqNo, setupVars,
                       outcome, boundVars>>

\* The handler returns, and its local variables are gone.
Return(p) ==
    /\ phase' = [phase EXCEPT ![p] = "idle"]
    /\ expected' = [expected EXCEPT ![p] = [t \in Type |-> 0]]
    /\ known' = [known EXCEPT ![p] = {}]

\* A plausible slip in Break: the packets not looked at are dropped.
BreakForgets(p) ==
    /\ raw' = [raw EXCEPT ![p] = <<>>]
    /\ todo' = [todo EXCEPT ![p] = <<>>]
    /\ Return(p)

\* The rest of the packets waits in rawData_ for the next event.
Break(p) ==
    /\ raw' = [raw EXCEPT ![p] = todo[p]]
    /\ todo' = [todo EXCEPT ![p] = <<>>]
    /\ Return(p)

\* The packet of a later number: ask for the one after the last processed.
ReportLoss(p, i) ==
    LET packet == todo[p][i] IN
    /\ Receiving(p, i, "data")
    /\ ~IsDuplicate(p, packet)
    /\ packet.sequence # expected[p][packet.type]
    /\ SendTo(Other(p), <<Request(packet.type, expected[p][packet.type])>>)
    /\ Break(p)
    /\ UNCHANGED <<queue, events, handler, dataVars, setupVars, outcome, boundVars>>

\* baseLayer.gameOver(layer, true): only the first game over of a game counts.
EndGame(p, user) ==
    outcome' = IF outcome[p] = "none" THEN [outcome EXCEPT ![p] = user] ELSE outcome

ReceiveGameOver(p, i) ==
    /\ Receiving(p, i, "gameover")
    /\ EndGame(p, todo[p][i].type)
    /\ Break(p)
    /\ UNCHANGED <<net, queue, events, handler, dataVars, setupVars, boundVars>>

Received(p) ==
    /\ phase[p] = "receiving"
    /\ todo[p] = <<>>
    /\ Return(p)
    /\ UNCHANGED <<net, queue, events, handler, raw, todo, dataVars, setupVars, outcome,
                   boundVars>>
--------------------------------------------------------------------------------
(* The game on the same thread, between events: the calls of PuzzleBaseLayer and *)
(* PuzzleUserLayer into the protocol while a match runs.                         *)

Playing(p) ==
    /\ phase[p] = "idle"
    /\ handler[p] = "onReceived"
    /\ outcome[p] = "none"

\* Layer 1 of either peer reports its moves; the server's layers generate the
\* blocks and the ojama of both.
Sends(p, t) == p = "server" \/ t = "input"

Send(p, t) ==
    /\ Playing(p)
    /\ Sends(p, t)
    /\ sent[p][t] < MaxSent[p][t]
    /\ SendTo(Other(p), <<Data(t, seqNo[p][t])>>)
    /\ seqNo' = [seqNo EXCEPT ![p][t] = @ + 1]
    /\ sent' = [sent EXCEPT ![p][t] = @ + 1]
    /\ UNCHANGED <<queue, events, handler, loopVars, received, setupVars, outcome,
                   asked, lost, duplicated>>

\* getNewBlockData of a layer whose peer has no block for it: layer 1 of the
\* client, layer 2 of either.
AskBlock(p) ==
    /\ Playing(p)
    /\ asked < MaxAsked
    /\ SendTo(Other(p), <<Request("block", LatestSequenceNumber(p, "block"))>>)
    /\ asked' = asked + 1
    /\ UNCHANGED <<queue, events, handler, loopVars, dataVars, setupVars, outcome,
                   sent, lost, duplicated>>

\* checkGameOver of the layer of Loser: its own layer 1, or the layer 2 in which
\* the other peer mirrors it.
LoseGame(p) ==
    LET user == IF p = Loser THEN "puzzleUserLayer1" ELSE "puzzleUserLayer2" IN
    /\ Loser # "none"
    /\ Playing(p)
    /\ EndGame(p, user)
    /\ SendTo(Other(p), <<GameOver(user)>>)
    /\ UNCHANGED <<queue, events, handler, loopVars, dataVars, setupVars, boundVars>>
--------------------------------------------------------------------------------
Loop(p, i) ==
    \/ p = "server" /\ ServerConnecting(i)
    \/ p = "client" /\ ClientConnecting(i)
    \/ Answer(p, i)
    \/ DropDuplicate(p, i)
    \/ Process(p, i)
    \/ ReportLoss(p, i)
    \/ ReceiveGameOver(p, i)

\* What onFire and the loops of the handlers do on the main thread of p.
Handle(p) ==
    \/ p = "server" /\ (ServerConnects \/ ServerConnected)
    \/ p = "client" /\ (ClientConnects \/ ClientConnected)
    \/ OnInitialize(p)
    \/ OnReceived(p)
    \/ Received(p)
    \/ \E i \in 1..Len(todo[p]) : Loop(p, i)

Next ==
    \E p \in Peer :
        \/ Open(p)
        \/ Deliver(p)
        \/ Lose(p)
        \/ Duplicate(p)
        \/ Handle(p)
        \/ \E t \in Type : Send(p, t)
        \/ AskBlock(p)
        \/ LoseGame(p)

Spec == Init /\ [][Next]_vars

\* The connection opens, the channel delivers what it does not lose, and the
\* event loop of the script engine delivers every posted event.
Fairness ==
    \A p \in Peer : WF_vars(Open(p)) /\ WF_vars(Deliver(p)) /\ WF_vars(Handle(p))

FairSpec == Spec /\ Fairness
--------------------------------------------------------------------------------
(* Properties.                                                                  *)

IsInOrder(log) == \A i \in 1..Len(log) : log[i] = i - 1

\* A peer processes the moves of its opponent in the order they were made, each
\* once, whatever the channel loses, repeats or reorders (the checks of onReceived
\* for gaps and duplicates): its layer 2 mirrors the opponent's layer 1.
InputInOrder == \A p \in Peer : IsInOrder(received[p]["input"])

\* On the channel the plugin opens the same holds for every type of packet, although
\* prevSeqOjama lags behind within a handler and requests are answered by repeats.
AllInOrder == \A p \in Peer, t \in Type : IsInOrder(received[p][t])

\* The server starts the game only after the client has all three initial blocks,
\* so neither player moves a block the other has not got.
BlocksBeforeGame == handler["server"] # "onConnectionComplete" => initialProcessed = 0..2

\* No handler ends in an exception: a peer never asks for an input or ojama packet
\* that was not sent (E_PUZZLEINET_MSG11 and 12), and "Creation done." never
\* reaches a handler that evaluates it.
NothingThrown ==
    \A p \in Peer :
        /\ phase[p] # "thrown"
        /\ handler[p] # "onConnectionComplete" =>
               CreationDone \notin {queue[p][i] : i \in 1..Len(queue[p])}

\* A peer with unread data and an open channel has an event to come or is in the
\* loop: no packet is left behind by the handlers that return early.
UnreadIsAnnounced ==
    \A p \in opened : queue[p] # <<>> => events[p] > 0

\* Where the board of one player is full, that player loses and the other wins.
OneLoser == Loser # "none" =>
    \A p \in Peer : outcome[p] \in
        {"none", IF p = Loser THEN "puzzleUserLayer1" ELSE "puzzleUserLayer2"}

\* The setup ends: both peers get to onReceived.
SetupEnds == <>(\A p \in Peer : handler[p] = "onReceived")

\* Every packet that was sent is processed in the end, unless the game is over for
\* its receiver.
SentIsProcessed ==
    \A p \in Peer, t \in Type :
        (Len(received[p][t]) < seqNo[Other(p)][t])
            ~> (Len(received[p][t]) = seqNo[Other(p)][t] \/ outcome[p] # "none")

\* PuzzleINet delivers the packets of the types Promised in order, each once.
Delivery == INSTANCE OrderedDelivery WITH
    Receivers <- Peer,
    Kinds <- Promised,
    sent <- [p \in Peer |-> [t \in Promised |-> seqNo[Other(p)][t]]],
    log <- [p \in Peer |-> [t \in Promised |-> received[p][t]]]

ImplementsDelivery == Delivery!Spec
================================================================================
