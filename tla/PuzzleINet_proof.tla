--------------------------- MODULE PuzzleINet_proof ---------------------------
(* Proofs about PuzzleINet, for every channel and every bound.                 *)
EXTENDS PuzzleINet, SequenceTheorems, TLAPS

\* What the sequence operators of the model return.
LEMMA NoneOf == ASSUME NEW S PROVE <<>> \in Seq(S)
  BY EmptySeq

LEMMA OneOf == ASSUME NEW S, NEW x \in S PROVE <<x>> \in Seq(S)
  OBVIOUS

LEMMA JoinOf == ASSUME NEW S, NEW s \in Seq(S), NEW t \in Seq(S) PROVE s \o t \in Seq(S)
  BY ConcatProperties

LEMMA AppendOf == ASSUME NEW S, NEW s \in Seq(S), NEW x \in S PROVE Append(s, x) \in Seq(S)
  BY AppendProperties

LEMMA PartOf ==
  ASSUME NEW S, NEW s \in Seq(S), NEW m \in Nat, NEW n \in Nat, m >= 1, n <= Len(s)
  PROVE  SubSeq(s, m, n) \in Seq(S)
<1>1. \A i \in m..n : s[i] \in S
  BY ElementOfSeq, LenProperties
<1> QED
  BY <1>1, SubSeqProperties

LEMMA WithoutOf ==
  ASSUME NEW S, NEW s \in Seq(S), NEW i \in 1..Len(s)
  PROVE  Without(s, i) \in Seq(S)
<1>1. Len(s) \in Nat
  BY LenProperties
<1>2. SubSeq(s, 1, i - 1) \in Seq(S)
  BY <1>1, PartOf
<1>3. SubSeq(s, i + 1, Len(s)) \in Seq(S)
  BY <1>1, PartOf
<1> QED
  BY <1>2, <1>3, JoinOf DEF Without

\* The packets the program makes.
LEMMA PacketsMade ==
  /\ \A t \in Type, n \in Nat : Data(t, n) \in Packet
  /\ \A t \in Type \cup UserLayer \cup {"none"}, n \in Nat : Request(t, n) \in Packet
  /\ \A user \in UserLayer : GameOver(user) \in Packet
  /\ CreationDone \in Packet
  BY DEF Data, Request, GameOver, CreationDone, Packet

LEMMA InitialBlocksMade == InitialBlocks \in Seq(Packet)
<1>1. Data("block", 0) \in Packet /\ Data("block", 1) \in Packet /\ Data("block", 2) \in Packet
  BY PacketsMade DEF Type
<1> QED
  BY <1>1 DEF InitialBlocks

LEMMA PeerPair == \A p \in Peer : Other(p) \in Peer
  BY DEF Peer, Other

\* SendTo keeps the type of the channel.
LEMMA SendType ==
  ASSUME PacketTypes, NEW p \in Peer, NEW s \in Seq(Packet), SendTo(p, s)
  PROVE  net' \in [Peer -> Seq(Packet)]
<1>1. net[p] \o s \in Seq(Packet)
  BY JoinOf DEF PacketTypes
<1> QED
  BY <1>1 DEF SendTo, PacketTypes

LEMMA SendOneType ==
  ASSUME PacketTypes, NEW p \in Peer, NEW packet \in Packet, SendTo(p, <<packet>>)
  PROVE  net' \in [Peer -> Seq(Packet)]
  BY OneOf, SendType

\* The loops move packets between rawData_ and the rest of the pass.
LEMMA KeepType ==
  ASSUME PacketTypes, NEW p \in Peer, NEW i \in 1..Len(todo[p]), Keep(p, i)
  PROVE  todo' \in [Peer -> Seq(Packet)] /\ raw' \in [Peer -> Seq(Packet)]
<1>1. Without(todo[p], i) \in Seq(Packet)
  BY WithoutOf DEF PacketTypes
<1>2. todo[p][i] \in Packet
  BY ElementOfSeq DEF PacketTypes
<1>3. Append(raw[p], todo[p][i]) \in Seq(Packet)
  BY <1>2, AppendOf DEF PacketTypes
<1> QED
  BY <1>1, <1>3 DEF Keep, PacketTypes

LEMMA DropType ==
  ASSUME PacketTypes, NEW p \in Peer, NEW i \in 1..Len(todo[p]), Drop(p, i)
  PROVE  todo' \in [Peer -> Seq(Packet)] /\ raw' \in [Peer -> Seq(Packet)]
<1>1. Without(todo[p], i) \in Seq(Packet)
  BY WithoutOf DEF PacketTypes
<1> QED
  BY <1>1 DEF Drop, PacketTypes

LEMMA BreakType ==
  ASSUME PacketTypes, NEW p \in Peer, Break(p)
  PROVE  todo' \in [Peer -> Seq(Packet)] /\ raw' \in [Peer -> Seq(Packet)]
<1>1. <<>> \in Seq(Packet)
  BY NoneOf
<1> QED
  BY <1>1 DEF Break, PacketTypes

LEMMA ReadAllType ==
  ASSUME PacketTypes, NEW p \in Peer, NEW loop, ReadAll(p, loop)
  PROVE  /\ todo' \in [Peer -> Seq(Packet)]
         /\ raw' \in [Peer -> Seq(Packet)]
         /\ queue' \in [Peer -> Seq(Packet)]
<1>1. <<>> \in Seq(Packet)
  BY NoneOf
<1>2. raw[p] \o queue[p] \in Seq(Packet)
  BY JoinOf DEF PacketTypes
<1> QED
  BY <1>1, <1>2 DEF ReadAll, PacketTypes

LEMMA ReadFailsType ==
  ASSUME PacketTypes, NEW p \in Peer, ReadFails(p)
  PROVE  /\ todo' \in [Peer -> Seq(Packet)]
         /\ raw' \in [Peer -> Seq(Packet)]
         /\ queue' \in [Peer -> Seq(Packet)]
<1>0. queue[p] \in Seq(Packet) /\ raw[p] \in Seq(Packet)
  BY DEF PacketTypes
<1>1. Len(queue[p]) \in Nat
  BY <1>0, LenProperties
<1>2. PICK i \in 1..Len(queue[p]) :
         /\ raw' = [raw EXCEPT ![p] = @ \o SubSeq(queue[p], 1, i - 1)]
         /\ queue' = [queue EXCEPT ![p] = SubSeq(@, i + 1, Len(@))]
         /\ UNCHANGED <<todo, phase>>
  BY DEF ReadFails
<1>3. SubSeq(queue[p], 1, i - 1) \in Seq(Packet)
  BY <1>0, <1>1, PartOf
<1>4. SubSeq(queue[p], i + 1, Len(queue[p])) \in Seq(Packet)
  BY <1>0, <1>1, PartOf
<1>5. raw[p] \o SubSeq(queue[p], 1, i - 1) \in Seq(Packet)
  BY <1>0, <1>3, JoinOf
<1> QED
  BY <1>2, <1>4, <1>5 DEF PacketTypes

\* The packet of the loop is a packet, and the numbers of a packet are numbers.
LEMMA LoopPacket ==
  ASSUME PacketTypes, NEW p \in Peer, NEW i \in 1..Len(todo[p])
  PROVE  todo[p][i] \in Packet
<1>1. todo[p] \in Seq(Packet)
  BY DEF PacketTypes
<1> QED
  BY <1>1, ElementOfSeq

LEMMA SomeType == \A packet \in Packet :
    /\ packet.sequence \in Nat
    /\ packet.type \in Type \cup UserLayer \cup {"none"}
    /\ packet.kind = "data" => packet.type \in Type
    /\ packet.kind = "gameover" => packet.type \in UserLayer
  BY DEF Packet

LEMMA NumberUpdate ==
  ASSUME NEW f \in [Peer -> [Type -> Nat]], NEW p \in Peer, NEW t \in Type, NEW n \in Nat
  PROVE  [f EXCEPT ![p][t] = f[p][t] + n] \in [Peer -> [Type -> Nat]]
<1>1. f[p][t] + n \in Nat
  OBVIOUS
<1>2. [f[p] EXCEPT ![t] = f[p][t] + n] \in [Type -> Nat]
  BY <1>1
<1> QED
  BY <1>2

LEMMA SendNewBlockType ==
  ASSUME PacketTypes, NumberTypes, NEW p \in Peer, SendNewBlock(p)
  PROVE  net' \in [Peer -> Seq(Packet)] /\ seqNo' \in [Peer -> [Type -> Nat]]
<1>1. seqNo[p]["block"] \in Nat
  BY DEF NumberTypes, Type
<1>2. Data("block", seqNo[p]["block"]) \in Packet
  BY <1>1, PacketsMade DEF Type
<1>3. net' \in [Peer -> Seq(Packet)]
  BY <1>2, PeerPair, SendOneType DEF SendNewBlock
<1>4. seqNo' \in [Peer -> [Type -> Nat]]
  BY <1>1, NumberUpdate DEF SendNewBlock, NumberTypes, Type
<1> QED
  BY <1>3, <1>4

LEMMA ResendType ==
  ASSUME PacketTypes, NumberTypes, NEW p \in Peer, NEW packet \in Packet, Resend(p, packet)
  PROVE  net' \in [Peer -> Seq(Packet)] /\ seqNo' \in [Peer -> [Type -> Nat]]
<1>1. Data(packet.type, packet.sequence) \in Packet
  BY SomeType, PacketsMade DEF Resend, WasSent
<1>2. net' \in [Peer -> Seq(Packet)]
  BY <1>1, PeerPair, SendOneType DEF Resend
<1> QED
  BY <1>2 DEF Resend, NumberTypes

\* Packets other than "Creation done.".
Ordinary == Packet \ {CreationDone}

LEMMA OrdinaryMade == \A packet \in Packet : packet.kind # "created" => packet \in Ordinary
  BY DEF Ordinary, CreationDone

\* Requests.
Asking == {packet \in Packet : packet.kind = "ack"}

LEMMA MissingRequestsAsk ==
  ASSUME PacketTypes, NEW p \in Peer
  PROVE  MissingRequests(p) \in Seq(Asking)
<1> DEFINE missing == (0..2) \ initialProcessed
           askable == {n \in missing : \A m \in missing : m <= n => m < Len(raw[p])}
           ask(n) == IF n \in askable THEN <<Request(raw[p][n + 1].type, n)>> ELSE <<>>
<1>1. raw[p] \in Seq(Packet) /\ Len(raw[p]) \in Nat
  BY LenProperties DEF PacketTypes
<1>2. \A n \in 0..2 : ask(n) \in Seq(Asking)
  <2> SUFFICES ASSUME NEW n \in 0..2
               PROVE  ask(n) \in Seq(Asking)
    OBVIOUS
  <2>1. CASE n \in askable
    <3>1. n + 1 \in 1..Len(raw[p])
      BY <1>1, <2>1
    <3>2. raw[p][n + 1] \in Packet
      BY <1>1, <3>1, ElementOfSeq
    <3> DEFINE type == raw[p][n + 1].type
    <3>3. n \in Nat /\ type \in Type \cup UserLayer \cup {"none"}
      BY <3>2, SomeType
    <3> HIDE DEF type
    <3>4. Request(type, n) \in Packet /\ Request(type, n).kind = "ack"
      BY <3>3, PacketsMade DEF Request
    <3> QED
      BY <2>1, <3>4, OneOf DEF type, Asking
  <2>2. CASE n \notin askable
    BY <2>2, NoneOf
  <2> QED
    BY <2>1, <2>2
<1>3. ask(0) \in Seq(Asking) /\ ask(1) \in Seq(Asking) /\ ask(2) \in Seq(Asking)
  BY <1>2
<1> HIDE DEF ask
<1>4. ask(0) \o ask(1) \in Seq(Asking)
  BY <1>3, JoinOf
<1>5. (ask(0) \o ask(1)) \o ask(2) \in Seq(Asking)
  BY <1>3, <1>4, JoinOf
<1> QED
  BY <1>5 DEF MissingRequests, ask

LEMMA MissingRequestsOrdinary ==
  ASSUME PacketTypes, NEW p \in Peer
  PROVE  MissingRequests(p) \in Seq(Ordinary)
<1>1. Asking \subseteq Ordinary
  BY OrdinaryMade DEF Asking
<1> QED
  BY <1>1, MissingRequestsAsk, SeqMonotonic

LEMMA MissingRequestsType ==
  ASSUME PacketTypes, NEW p \in Peer
  PROVE  MissingRequests(p) \in Seq(Packet)
<1>1. Ordinary \subseteq Packet
  BY DEF Ordinary
<1> QED
  BY <1>1, MissingRequestsOrdinary, SeqMonotonic

LEMMA LatestType ==
  ASSUME NumberTypes, NEW p \in Peer, NEW t \in Type
  PROVE  LatestSequenceNumber(p, t) \in Nat
<1>1. received[p][t] \in Seq(Nat)
  BY DEF NumberTypes
<1>2. CASE received[p][t] = <<>>
  BY <1>2 DEF LatestSequenceNumber
<1>3. CASE received[p][t] # <<>>
  <2>1. Len(received[p][t]) \in 1..Len(received[p][t])
    BY <1>1, <1>3, EmptySeq
  <2>2. received[p][t][Len(received[p][t])] \in Nat
    BY <1>1, <2>1, ElementOfSeq
  <2> QED
    BY <1>3, <2>2 DEF LatestSequenceNumber
<1> QED
  BY <1>2, <1>3

\* A step of the model keeps the packets' types.
LEMMA PacketTypesKept ==
  ASSUME TypeOK, Next
  PROVE  PacketTypes'
<1>0. PacketTypes /\ NumberTypes
  BY DEF TypeOK
<1> USE DEF loopVars, dataVars, setupVars, boundVars
<1> SUFFICES ASSUME NEW p \in Peer,
                    \/ Open(p) \/ Deliver(p) \/ Lose(p) \/ Duplicate(p) \/ Handle(p)
                    \/ \E t \in Type : Send(p, t)
                    \/ AskBlock(p) \/ LoseGame(p)
             PROVE  PacketTypes'
  BY DEF Next
<1>1. CASE Open(p)
  BY <1>0, <1>1 DEF Open, PacketTypes
<1>2. CASE Deliver(p)
  <2>1. PICK i \in 1..Len(net[p]) :
          /\ net' = [net EXCEPT ![p] = Without(@, i)]
          /\ queue' = [queue EXCEPT ![p] = Append(@, net[p][i])]
          /\ UNCHANGED <<raw, todo>>
    BY <1>2 DEF Deliver
  <2>2. net[p] \in Seq(Packet) /\ queue[p] \in Seq(Packet)
    BY <1>0 DEF PacketTypes
  <2>3. Without(net[p], i) \in Seq(Packet) /\ net[p][i] \in Packet
    BY <2>2, WithoutOf, ElementOfSeq
  <2>4. Append(queue[p], net[p][i]) \in Seq(Packet)
    BY <2>2, <2>3, AppendOf
  <2> QED
    BY <1>0, <2>1, <2>3, <2>4 DEF PacketTypes
<1>3. CASE Lose(p)
  <2>1. PICK i \in 1..Len(net[p]) :
          net' = [net EXCEPT ![p] = Without(@, i)] /\ UNCHANGED <<queue, raw, todo>>
    BY <1>3 DEF Lose
  <2>2. Without(net[p], i) \in Seq(Packet)
    BY <1>0, WithoutOf DEF PacketTypes
  <2> QED
    BY <1>0, <2>1, <2>2 DEF PacketTypes
<1>4. CASE Duplicate(p)
  <2>1. PICK i \in 1..Len(net[p]) :
          net' = [net EXCEPT ![p] = Append(@, net[p][i])] /\ UNCHANGED <<queue, raw, todo>>
    BY <1>4 DEF Duplicate
  <2>2. net[p] \in Seq(Packet)
    BY <1>0 DEF PacketTypes
  <2>3. Append(net[p], net[p][i]) \in Seq(Packet)
    BY <2>2, ElementOfSeq, AppendOf
  <2> QED
    BY <1>0, <2>1, <2>3 DEF PacketTypes
<1>5. CASE p = "server" /\ ServerConnects
  <2>1. net' \in [Peer -> Seq(Packet)]
    <3>1. CASE UNCHANGED net
      BY <1>0, <3>1 DEF PacketTypes
    <3>2. CASE SendTo("client", InitialBlocks)
      BY <1>0, <3>2, InitialBlocksMade, SendType DEF Peer
    <3> QED
      BY <1>5, <3>1, <3>2 DEF ServerConnects
  <2>2. CASE queue["server"] # <<>> /\ queue' = [queue EXCEPT !["server"] = Tail(@)]
               /\ UNCHANGED <<raw, todo>>
    <3>1. Tail(queue["server"]) \in Seq(Packet)
      BY <1>0, <2>2, HeadTailProperties DEF PacketTypes, Peer
    <3> QED
      BY <1>0, <2>1, <2>2, <3>1 DEF PacketTypes
  <2>3. CASE UNCHANGED <<queue, raw, todo>>
    BY <1>0, <2>1, <2>3 DEF PacketTypes
  <2>4. CASE ReadAll("server", "connecting") \/ ReadFails("server")
    BY <1>0, <2>1, <2>4, ReadAllType, ReadFailsType DEF PacketTypes, Peer
  <2> QED
    BY <1>5, <2>2, <2>3, <2>4 DEF ServerConnects
<1>6. CASE p = "server" /\ ServerConnected
  BY <1>0, <1>6 DEF ServerConnected, PacketTypes
<1>7. CASE p = "client" /\ ClientConnects
  <2>1. CASE UNCHANGED <<queue, raw, todo>>
    BY <1>0, <1>7, <2>1 DEF ClientConnects, PacketTypes
  <2>2. CASE ReadAll("client", "connecting")
    BY <1>0, <1>7, <2>2, ReadAllType DEF ClientConnects, PacketTypes
  <2> QED
    BY <1>7, <2>1, <2>2 DEF ClientConnects
<1>8. CASE p = "client" /\ ClientConnected
  <2>1. <<CreationDone>> \in Seq(Packet)
    BY PacketsMade, OneOf
  <2>2. MissingRequests("client") \in Seq(Packet)
    BY <1>0, MissingRequestsType DEF Peer
  <2>3. net' \in [Peer -> Seq(Packet)]
    BY <1>0, <1>8, <2>1, <2>2, SendType DEF ClientConnected, Peer
  <2> QED
    BY <1>0, <1>8, <2>3 DEF ClientConnected, PacketTypes
<1>9. CASE OnInitialize(p)
  BY <1>0, <1>9 DEF OnInitialize, PacketTypes
<1>10. CASE OnReceived(p)
  <2>1. CASE UNCHANGED <<queue, raw, todo>>
    BY <1>0, <1>10, <2>1 DEF OnReceived, PacketTypes
  <2>2. CASE ReadAll(p, "receiving") \/ ReadFails(p)
    BY <1>0, <1>10, <2>2, ReadAllType, ReadFailsType DEF OnReceived, PacketTypes
  <2> QED
    BY <1>10, <2>1, <2>2 DEF OnReceived
<1>11. CASE Received(p)
  BY <1>0, <1>11 DEF Received, Return, PacketTypes
<1>12. ASSUME NEW i \in 1..Len(todo[p]), Loop(p, i)
       PROVE  PacketTypes'
  <2>0. todo[p][i] \in Packet
    BY <1>0, LoopPacket
  <2>1. CASE p = "server" /\ ServerConnecting(i)
    <3>1. CASE Drop(p, i) /\ (Resend(p, todo[p][i]) \/ SendNewBlock(p))
      BY <1>0, <2>0, <2>1, <3>1, DropType, ResendType, SendNewBlockType
      DEF ServerConnecting, PacketTypes
    <3>2. CASE Keep(p, i) /\ UNCHANGED net
      BY <1>0, <2>1, <3>2, KeepType DEF ServerConnecting, PacketTypes
    <3> QED
      BY <2>1, <3>1, <3>2 DEF ServerConnecting
  <2>2. CASE p = "client" /\ ClientConnecting(i)
    <3>1. Drop(p, i) \/ Keep(p, i)
      BY <2>2 DEF ClientConnecting
    <3> QED
      BY <1>0, <2>2, <3>1, DropType, KeepType DEF ClientConnecting, PacketTypes
  <2>3. CASE Answer(p, i)
    <3>1. Drop(p, i) /\ UNCHANGED queue
      BY <2>3 DEF Answer
    <3>2. Resend(p, todo[p][i]) \/ SendNewBlock(p) \/ UNCHANGED net
      BY <2>3 DEF Answer
    <3>3. net' \in [Peer -> Seq(Packet)]
      BY <1>0, <2>0, <3>2, ResendType, SendNewBlockType DEF PacketTypes
    <3> QED
      BY <1>0, <3>1, <3>3, DropType DEF PacketTypes
  <2>4. CASE DropDuplicate(p, i)
    BY <1>0, <2>4, DropType DEF DropDuplicate, PacketTypes
  <2>5. CASE Process(p, i)
    BY <1>0, <2>5, DropType DEF Process, PacketTypes
  <2>6. CASE ReportLoss(p, i)
    <3> DEFINE t == todo[p][i].type
               n == expected[p][t]
    <3>1. Break(p) /\ UNCHANGED queue /\ SendTo(Other(p), <<Request(t, n)>>)
      BY <2>6 DEF ReportLoss
    <3>2. t \in Type
      BY <2>0, <2>6, SomeType DEF ReportLoss, Receiving
    <3>3. n \in Nat
      BY <1>0, <3>2 DEF NumberTypes
    <3>4. Request(t, n) \in Packet
      BY <3>2, <3>3, PacketsMade
    <3>5. net' \in [Peer -> Seq(Packet)]
      BY <1>0, <3>1, <3>4, PeerPair, SendOneType
    <3> QED
      BY <1>0, <3>1, <3>5, BreakType DEF PacketTypes
  <2>7. CASE ReceiveGameOver(p, i)
    BY <1>0, <2>7, BreakType DEF ReceiveGameOver, PacketTypes
  <2> QED
    BY <1>12, <2>1, <2>2, <2>3, <2>4, <2>5, <2>6, <2>7 DEF Loop
<1>13. ASSUME NEW t \in Type, Send(p, t)
       PROVE  PacketTypes'
  <2>1. seqNo[p][t] \in Nat
    BY <1>0 DEF NumberTypes
  <2>2. Data(t, seqNo[p][t]) \in Packet
    BY <2>1, PacketsMade
  <2>3. net' \in [Peer -> Seq(Packet)]
    BY <1>0, <1>13, <2>2, PeerPair, SendOneType DEF Send
  <2> QED
    BY <1>0, <1>13, <2>3 DEF Send, PacketTypes
<1>14. CASE AskBlock(p)
  <2>1. Request("block", LatestSequenceNumber(p, "block")) \in Packet
    BY <1>0, LatestType, PacketsMade DEF Type
  <2>2. net' \in [Peer -> Seq(Packet)]
    BY <1>0, <1>14, <2>1, PeerPair, SendOneType DEF AskBlock
  <2> QED
    BY <1>0, <1>14, <2>2 DEF AskBlock, PacketTypes
<1>15. CASE LoseGame(p)
  <2> DEFINE user == IF p = Loser THEN "puzzleUserLayer1" ELSE "puzzleUserLayer2"
  <2>1. GameOver(user) \in Packet
    BY PacketsMade DEF UserLayer
  <2>2. net' \in [Peer -> Seq(Packet)]
    BY <1>0, <1>15, <2>1, PeerPair, SendOneType DEF LoseGame
  <2> QED
    BY <1>0, <1>15, <2>2 DEF LoseGame, PacketTypes
<1> QED
  BY <1>1, <1>2, <1>3, <1>4, <1>5, <1>6, <1>7, <1>8, <1>9, <1>10, <1>11, <1>12, <1>13,
     <1>14, <1>15 DEF Handle

LEMMA EventsUpdate ==
  ASSUME NEW f \in [Peer -> Nat], NEW p \in Peer, NEW n \in Nat
  PROVE  [f EXCEPT ![p] = n] \in [Peer -> Nat]
  OBVIOUS

\* An event is consumed only where one is posted.
LEMMA FireType ==
  ASSUME NumberTypes, NEW p \in Peer, NEW h, Fire(p, h)
  PROVE  (Consumed(p) => events' \in [Peer -> Nat]) /\ (Rescheduled(p) => events' \in [Peer -> Nat])
<1>1. events[p] - 1 \in Nat /\ events[p] - 1 + 1 \in Nat
  BY DEF NumberTypes, Fire
<1> QED
  BY <1>1 DEF Consumed, Rescheduled, NumberTypes

LEMMA NumberSet ==
  ASSUME NEW f \in [Peer -> [Type -> Nat]], NEW p \in Peer, NEW t \in Type, NEW n \in Nat
  PROVE  [f EXCEPT ![p][t] = n] \in [Peer -> [Type -> Nat]]
<1>1. [f[p] EXCEPT ![t] = n] \in [Type -> Nat]
  OBVIOUS
<1> QED
  BY <1>1

LEMMA AppendNumber ==
  ASSUME NEW f \in [Peer -> [Type -> Seq(Nat)]], NEW p \in Peer, NEW t \in Type, NEW n \in Nat
  PROVE  [f EXCEPT ![p][t] = Append(@, n)] \in [Peer -> [Type -> Seq(Nat)]]
<1>1. Append(f[p][t], n) \in Seq(Nat)
  BY AppendOf
<1> QED
  BY <1>1

LEMMA ReturnType ==
  ASSUME NumberTypes, NEW p \in Peer, Return(p)
  PROVE  /\ expected' \in [Peer -> [Type -> Nat]]
         /\ known' \in [Peer -> SUBSET (Type \X Nat)]
  BY DEF Return, NumberTypes

LEMMA KnownType ==
  ASSUME NumberTypes, NEW p \in Peer
  PROVE  ReceivedDataMap(p) \subseteq Type \X Nat
<1> SUFFICES ASSUME NEW t \in Type, NEW i \in 1..Len(received[p][t])
             PROVE  received[p][t][i] \in Nat
  BY DEF ReceivedDataMap
<1>1. received[p][t] \in Seq(Nat)
  BY DEF NumberTypes
<1> QED
  BY <1>1, ElementOfSeq

\* A step of the model keeps the types of the events and of the numbers.
LEMMA NumberTypesKept ==
  ASSUME TypeOK, Next
  PROVE  NumberTypes'
<1>0. PacketTypes /\ NumberTypes
  BY DEF TypeOK
<1> USE DEF loopVars, dataVars, setupVars, boundVars
<1> SUFFICES ASSUME NEW p \in Peer,
                    \/ Open(p) \/ Deliver(p) \/ Lose(p) \/ Duplicate(p) \/ Handle(p)
                    \/ \E t \in Type : Send(p, t)
                    \/ AskBlock(p) \/ LoseGame(p)
             PROVE  NumberTypes'
  BY DEF Next
<1>1. CASE Open(p)
  <2>1. events[p] + 1 \in Nat
    BY <1>0 DEF NumberTypes
  <2> QED
    BY <1>0, <1>1, <2>1 DEF Open, NumberTypes
<1>2. CASE Deliver(p)
  <2>1. events[p] + 1 \in Nat
    BY <1>0 DEF NumberTypes
  <2>2. events' \in [Peer -> Nat]
    BY <1>0, <1>2, <2>1 DEF Deliver, NumberTypes
  <2> QED
    BY <1>0, <1>2, <2>2 DEF Deliver, NumberTypes
<1>3. CASE Lose(p)
  BY <1>0, <1>3 DEF Lose, NumberTypes
<1>4. CASE Duplicate(p)
  BY <1>0, <1>4 DEF Duplicate, NumberTypes
<1>5. CASE p = "server" /\ ServerConnects
  <2>1. Fire(p, "onConnectionComplete") /\ (Consumed(p) \/ Rescheduled(p))
    BY <1>5 DEF ServerConnects
  <2>2. events' \in [Peer -> Nat]
    BY <1>0, <2>1, FireType
  <2>3. \/ UNCHANGED seqNo
        \/ seqNo' = [seqNo EXCEPT !["server"]["block"] = seqNo["server"]["block"] + 3]
    BY <1>5 DEF ServerConnects
  <2>4. seqNo' \in [Peer -> [Type -> Nat]]
    <3>1. seqNo \in [Peer -> [Type -> Nat]]
      BY <1>0 DEF NumberTypes
    <3>2. "server" \in Peer /\ "block" \in Type
      BY DEF Peer, Type
    <3>3. [seqNo EXCEPT !["server"]["block"] = seqNo["server"]["block"] + 3]
            \in [Peer -> [Type -> Nat]]
      BY <3>1, <3>2, NumberUpdate
    <3> QED
      BY <2>3, <3>1, <3>3
  <2> QED
    BY <1>0, <1>5, <2>2, <2>4 DEF ServerConnects, NumberTypes
<1>6. CASE p = "server" /\ ServerConnected
  BY <1>0, <1>6 DEF ServerConnected, NumberTypes
<1>7. CASE p = "client" /\ ClientConnects
  <2>1. events' \in [Peer -> Nat]
    BY <1>0, <1>7, FireType DEF ClientConnects
  <2> QED
    BY <1>0, <1>7, <2>1 DEF ClientConnects, NumberTypes
<1>8. CASE p = "client" /\ ClientConnected
  <2>1. events[p] + 1 \in Nat
    BY <1>0 DEF NumberTypes
  <2>2. events' \in [Peer -> Nat]
    BY <1>0, <1>8, <2>1 DEF ClientConnected, NumberTypes
  <2> QED
    BY <1>0, <1>8, <2>2 DEF ClientConnected, NumberTypes
<1>9. CASE OnInitialize(p)
  <2>1. events' \in [Peer -> Nat]
    BY <1>0, <1>9, FireType DEF OnInitialize
  <2> QED
    BY <1>0, <1>9, <2>1 DEF OnInitialize, NumberTypes
<1>10. CASE OnReceived(p)
  <2>1. events' \in [Peer -> Nat]
    BY <1>0, <1>10, FireType DEF OnReceived
  <2>2. [t \in Type |-> LatestSequenceNumber(p, t)] \in [Type -> Nat]
    BY <1>0, LatestType
  <2>3. expected' \in [Peer -> [Type -> Nat]]
    BY <1>0, <1>10, <2>2 DEF OnReceived, NumberTypes
  <2>4. known' \in [Peer -> SUBSET (Type \X Nat)]
    <3>1. ReceivedDataMap(p) \in SUBSET (Type \X Nat)
      BY <1>0, KnownType
    <3>2. UNCHANGED known \/ known' = [known EXCEPT ![p] = ReceivedDataMap(p)]
      BY <1>10 DEF OnReceived
    <3> QED
      BY <1>0, <3>1, <3>2 DEF NumberTypes
  <2> QED
    BY <1>0, <1>10, <2>1, <2>3, <2>4 DEF OnReceived, NumberTypes
<1>11. CASE Received(p)
  BY <1>0, <1>11, ReturnType DEF Received, NumberTypes
<1>12. ASSUME NEW i \in 1..Len(todo[p]), Loop(p, i)
       PROVE  NumberTypes'
  <2>0. todo[p][i] \in Packet /\ todo[p][i].sequence \in Nat
    BY <1>0, LoopPacket, SomeType
  <2>1. CASE p = "server" /\ ServerConnecting(i)
    <3>1. Resend(p, todo[p][i]) \/ SendNewBlock(p) \/ UNCHANGED seqNo
      BY <2>1 DEF ServerConnecting
    <3>2. seqNo' \in [Peer -> [Type -> Nat]]
      BY <1>0, <2>0, <3>1, ResendType, SendNewBlockType DEF NumberTypes
    <3> QED
      BY <1>0, <2>1, <3>2 DEF ServerConnecting, NumberTypes
  <2>2. CASE p = "client" /\ ClientConnecting(i)
    <3> DEFINE n == todo[p][i].sequence
    <3>1. \/ UNCHANGED received
          \/ received' = [received EXCEPT ![p]["block"] = Append(@, n)]
      BY <2>2 DEF ClientConnecting
    <3>2. n \in Nat
      BY <2>0
    <3> HIDE DEF n
    <3>3. received \in [Peer -> [Type -> Seq(Nat)]] /\ "block" \in Type
      BY <1>0 DEF NumberTypes, Type
    <3>4. [received EXCEPT ![p]["block"] = Append(@, n)] \in [Peer -> [Type -> Seq(Nat)]]
      BY <3>2, <3>3, AppendNumber
    <3>5. received' \in [Peer -> [Type -> Seq(Nat)]]
      BY <3>1, <3>3, <3>4
    <3> QED
      BY <1>0, <2>2, <3>5 DEF ClientConnecting, NumberTypes
  <2>3. CASE Answer(p, i)
    <3>1. Resend(p, todo[p][i]) \/ SendNewBlock(p) \/ UNCHANGED seqNo
      BY <2>3 DEF Answer
    <3>2. seqNo' \in [Peer -> [Type -> Nat]]
      BY <1>0, <2>0, <3>1, ResendType, SendNewBlockType DEF NumberTypes
    <3> QED
      BY <1>0, <2>3, <3>2 DEF Answer, NumberTypes
  <2>4. CASE DropDuplicate(p, i)
    BY <1>0, <2>4 DEF DropDuplicate, NumberTypes
  <2>5. CASE Process(p, i)
    <3> DEFINE t == todo[p][i].type
               n == todo[p][i].sequence
    <3>1. t \in Type
      BY <2>0, <2>5, SomeType DEF Process, Receiving
    <3>2. /\ received' = [received EXCEPT ![p][t] = Append(@, n)]
          /\ expected' = expected \/ expected' = [expected EXCEPT ![p][t] = n + 1]
          /\ UNCHANGED <<events, seqNo, known>>
      BY <2>5 DEF Process
    <3>3. n + 1 \in Nat
      BY <2>0
    <3> HIDE DEF t, n
    <3>4. received' \in [Peer -> [Type -> Seq(Nat)]]
      BY <1>0, <2>0, <3>1, <3>2, AppendNumber DEF NumberTypes, n
    <3>5. expected' \in [Peer -> [Type -> Nat]]
      <4>1. expected \in [Peer -> [Type -> Nat]]
        BY <1>0 DEF NumberTypes
      <4>2. [expected EXCEPT ![p][t] = n + 1] \in [Peer -> [Type -> Nat]]
        BY <3>1, <3>3, <4>1, NumberSet
      <4> QED
        BY <3>2, <4>1, <4>2
    <3> QED
      BY <1>0, <3>2, <3>4, <3>5 DEF NumberTypes
  <2>6. CASE ReportLoss(p, i)
    BY <1>0, <2>6, ReturnType DEF ReportLoss, Break, NumberTypes
  <2>7. CASE ReceiveGameOver(p, i)
    BY <1>0, <2>7, ReturnType DEF ReceiveGameOver, Break, NumberTypes
  <2> QED
    BY <1>12, <2>1, <2>2, <2>3, <2>4, <2>5, <2>6, <2>7 DEF Loop
<1>13. ASSUME NEW t \in Type, Send(p, t)
       PROVE  NumberTypes'
  <2>1. seqNo' \in [Peer -> [Type -> Nat]]
    BY <1>0, <1>13, NumberUpdate DEF Send, NumberTypes
  <2> QED
    BY <1>0, <1>13, <2>1 DEF Send, NumberTypes
<1>14. CASE AskBlock(p)
  BY <1>0, <1>14 DEF AskBlock, NumberTypes
<1>15. CASE LoseGame(p)
  BY <1>0, <1>15 DEF LoseGame, NumberTypes
<1> QED
  BY <1>1, <1>2, <1>3, <1>4, <1>5, <1>6, <1>7, <1>8, <1>9, <1>10, <1>11, <1>12, <1>13,
     <1>14, <1>15 DEF Handle

\* What a loop's step leaves of the control state: it stays in its loop, returns
\* or throws, and only a game over packet ends the game.
LEMMA LoopModes ==
  ASSUME TypeOK, NEW p \in Peer, NEW i \in 1..Len(todo[p]), Loop(p, i)
  PROVE  ModeTypes'
<1>0. PacketTypes /\ ModeTypes
  BY DEF TypeOK
<1> USE DEF setupVars
<1>1. CASE p = "server" /\ ServerConnecting(i)
  BY <1>0, <1>1 DEF ServerConnecting, ModeTypes
<1>2. CASE p = "client" /\ ClientConnecting(i)
  <2>1. initialProcessed' \subseteq 0..2
    BY <1>0, <1>2 DEF ClientConnecting, IsInitialBlock, ModeTypes
  <2> QED
    BY <1>0, <1>2, <2>1 DEF ClientConnecting, ModeTypes
<1>3. CASE Answer(p, i)
  BY <1>0, <1>3 DEF Answer, ModeTypes
<1>4. CASE DropDuplicate(p, i)
  BY <1>0, <1>4 DEF DropDuplicate, ModeTypes
<1>5. CASE Process(p, i)
  BY <1>0, <1>5 DEF Process, ModeTypes
<1>6. CASE ReportLoss(p, i)
  BY <1>0, <1>6 DEF ReportLoss, Break, Return, ModeTypes
<1>7. CASE ReceiveGameOver(p, i)
  <2>1. todo[p][i].type \in UserLayer
    BY <1>0, <1>7, LoopPacket, SomeType DEF ReceiveGameOver, Receiving
  <2>2. outcome' \in [Peer -> UserLayer \cup {"none"}]
    BY <1>0, <1>7, <2>1 DEF ReceiveGameOver, EndGame, ModeTypes
  <2> QED
    BY <1>0, <1>7, <2>2 DEF ReceiveGameOver, Break, Return, ModeTypes
<1> QED
  BY <1>1, <1>2, <1>3, <1>4, <1>5, <1>6, <1>7 DEF Loop

LEMMA ModeTypesKept ==
  ASSUME TypeOK, Next
  PROVE  ModeTypes'
<1>0. ModeTypes
  BY DEF TypeOK
<1> USE DEF loopVars, setupVars
<1> SUFFICES ASSUME NEW p \in Peer,
                    \/ Open(p) \/ Deliver(p) \/ Lose(p) \/ Duplicate(p) \/ Handle(p)
                    \/ \E t \in Type : Send(p, t)
                    \/ AskBlock(p) \/ LoseGame(p)
             PROVE  ModeTypes'
  BY DEF Next
<1>1. CASE Open(p) \/ Deliver(p) \/ Lose(p) \/ Duplicate(p) \/ AskBlock(p)
           \/ \E t \in Type : Send(p, t)
  BY <1>0, <1>1 DEF Open, Deliver, Lose, Duplicate, AskBlock, Send, ModeTypes
<1>2. CASE p = "server" /\ ServerConnects
  BY <1>0, <1>2 DEF ServerConnects, ReadAll, ReadFails, ModeTypes
<1>3. CASE p = "server" /\ ServerConnected
  BY <1>0, <1>3 DEF ServerConnected, ModeTypes
<1>4. CASE p = "client" /\ ClientConnects
  BY <1>0, <1>4 DEF ClientConnects, ReadAll, ModeTypes
<1>5. CASE p = "client" /\ ClientConnected
  BY <1>0, <1>5 DEF ClientConnected, ModeTypes
<1>6. CASE OnInitialize(p)
  BY <1>0, <1>6 DEF OnInitialize, ModeTypes
<1>7. CASE OnReceived(p)
  BY <1>0, <1>7 DEF OnReceived, ReadAll, ReadFails, ModeTypes
<1>8. CASE Received(p)
  BY <1>0, <1>8 DEF Received, Return, ModeTypes
<1>9. CASE \E i \in 1..Len(todo[p]) : Loop(p, i)
  BY <1>9, LoopModes
<1>10. CASE LoseGame(p)
  <2>1. outcome' \in [Peer -> UserLayer \cup {"none"}]
    BY <1>0, <1>10 DEF LoseGame, EndGame, ModeTypes, UserLayer
  <2> QED
    BY <1>0, <1>10, <2>1 DEF LoseGame, ModeTypes
<1> QED
  BY <1>1, <1>2, <1>3, <1>4, <1>5, <1>6, <1>7, <1>8, <1>9, <1>10 DEF Handle

LEMMA BoundTypesKept ==
  ASSUME TypeOK, Next
  PROVE  BoundTypes'
<1>0. BoundTypes
  BY DEF TypeOK
<1> USE DEF boundVars
<1> SUFFICES ASSUME NEW p \in Peer,
                    \/ Open(p) \/ Deliver(p) \/ Lose(p) \/ Duplicate(p) \/ Handle(p)
                    \/ \E t \in Type : Send(p, t)
                    \/ AskBlock(p) \/ LoseGame(p)
             PROVE  BoundTypes'
  BY DEF Next
<1>1. CASE Lose(p) \/ Duplicate(p) \/ AskBlock(p)
  BY <1>0, <1>1 DEF Lose, Duplicate, AskBlock, BoundTypes
<1>2. ASSUME NEW t \in Type, Send(p, t)
      PROVE  BoundTypes'
  <2>1. sent \in [Peer -> [Type -> Nat]]
    BY <1>0 DEF BoundTypes
  <2>2. [sent EXCEPT ![p][t] = sent[p][t] + 1] \in [Peer -> [Type -> Nat]]
    BY <2>1, NumberUpdate
  <2> QED
    BY <1>0, <1>2, <2>2 DEF Send, BoundTypes
<1>3. CASE Open(p) \/ Deliver(p) \/ OnInitialize(p) \/ OnReceived(p) \/ Received(p) \/ LoseGame(p)
  BY <1>0, <1>3 DEF Open, Deliver, OnInitialize, OnReceived, Received, LoseGame, BoundTypes
<1>4. CASE ServerConnects \/ ServerConnected \/ ClientConnects \/ ClientConnected
  BY <1>0, <1>4 DEF ServerConnects, ServerConnected, ClientConnects, ClientConnected, BoundTypes
<1>5. ASSUME NEW i \in 1..Len(todo[p]), Loop(p, i)
      PROVE  BoundTypes'
  BY <1>0, <1>5 DEF Loop, ServerConnecting, ClientConnecting, Answer, DropDuplicate, Process,
                    ReportLoss, ReceiveGameOver, BoundTypes
<1> QED
  BY <1>1, <1>2, <1>3, <1>4, <1>5 DEF Handle

\* Every variable keeps its type: queues hold packets, counters never go below
\* zero, a handler runs only for an event that was posted (onFire).
THEOREM TypeCorrect == Spec => []TypeOK
<1>1. Init => TypeOK
  <2> SUFFICES ASSUME Init
               PROVE  TypeOK
    OBVIOUS
  <2>1. PacketTypes
    BY NoneOf DEF Init, PacketTypes
  <2>2. NumberTypes
    <3>1. <<>> \in Seq(Nat)
      BY NoneOf
    <3> QED
      BY <3>1 DEF Init, NumberTypes
  <2>3. ModeTypes
    BY DEF Init, ModeTypes
  <2>4. BoundTypes
    BY DEF Init, BoundTypes
  <2> QED
    BY <2>1, <2>2, <2>3, <2>4 DEF TypeOK
<1>2. TypeOK /\ [Next]_vars => TypeOK'
  <2>1. CASE Next
    BY <2>1, PacketTypesKept, NumberTypesKept, ModeTypesKept, BoundTypesKept DEF TypeOK
  <2>2. CASE UNCHANGED vars
    BY <2>2 DEF vars, loopVars, dataVars, setupVars, boundVars, TypeOK, PacketTypes,
                NumberTypes, ModeTypes, BoundTypes
  <2> QED
    BY <2>1, <2>2
<1> QED
  BY <1>1, <1>2, PTL DEF Spec

\* The order of the moves is inductive together with what prevSeqInput is worth:
\* within the loop of onReceived it is the last number processed.
InputInv ==
  /\ InputInOrder
  /\ \A p \in Peer : phase[p] = "receiving" => expected[p]["input"] = Len(received[p]["input"])

\* The number after the last one of a log in order is its length.
LEMMA LatestInOrder ==
  ASSUME NumberTypes, NEW p \in Peer, NEW t \in Type, IsInOrder(received[p][t])
  PROVE  LatestSequenceNumber(p, t) = Len(received[p][t])
<1> DEFINE log == received[p][t]
<1>1. log \in Seq(Nat)
  BY DEF NumberTypes, Type
<1>2. CASE log = <<>>
  BY <1>2, EmptySeq DEF LatestSequenceNumber
<1>3. CASE log # <<>>
  <2>1. Len(log) \in Nat \ {0}
    BY <1>1, <1>3, EmptySeq
  <2>2. log[Len(log)] = Len(log) - 1
    BY <2>1 DEF IsInOrder
  <2> QED
    BY <1>3, <2>1, <2>2 DEF LatestSequenceNumber
<1> QED
  BY <1>2, <1>3

LEMMA AppendInOrder ==
  ASSUME NEW log \in Seq(Nat), IsInOrder(log)
  PROVE  /\ IsInOrder(Append(log, Len(log)))
         /\ Len(Append(log, Len(log))) = Len(log) + 1
  BY AppendProperties, LenProperties DEF IsInOrder

\* An update at one type leaves the moves alone.
LEMMA MovesUntouched ==
  ASSUME NEW f, NEW g, NEW S, f \in [Peer -> [Type -> S]],
         NEW p \in Peer, NEW t \in Type \ {"input"}, NEW x,
         g = [f EXCEPT ![p][t] = x]
  PROVE  \A q \in Peer : g[q]["input"] = f[q]["input"]
<1>1. "input" \in Type
  BY DEF Type
<1> SUFFICES ASSUME NEW q \in Peer
             PROVE  g[q]["input"] = f[q]["input"]
  OBVIOUS
<1>2. CASE q = p
  <2>1. g[p] = [f[p] EXCEPT ![t] = x]
    OBVIOUS
  <2> QED
    BY <1>1, <1>2, <2>1
<1>3. CASE q # p
  BY <1>3
<1> QED
  BY <1>2, <1>3

\* The order of the moves and what prevSeqInput is worth hold together.
LEMMA MovesHold == Spec => []InputInv
<1>1. Init => InputInv
  BY EmptySeq DEF Init, InputInv, InputInOrder, IsInOrder, Type
<1>2. TypeOK /\ InputInv /\ [Next]_vars => InputInv'
  <2> SUFFICES ASSUME TypeOK, InputInv, [Next]_vars
               PROVE  InputInv'
    OBVIOUS
  <2>0. PacketTypes /\ NumberTypes /\ ModeTypes
    BY DEF TypeOK
  <2> USE DEF loopVars, dataVars, setupVars, boundVars
  <2>a. ASSUME UNCHANGED <<phase, expected, received>>
        PROVE  InputInv'
    BY <2>a DEF InputInv, InputInOrder, IsInOrder
  <2>b. ASSUME NEW p \in Peer, UNCHANGED received, phase' = [phase EXCEPT ![p] = "idle"],
               expected' = expected \/ Return(p)
        PROVE  InputInv'
    BY <2>0, <2>b DEF Return, InputInv, InputInOrder, IsInOrder, NumberTypes, ModeTypes
  <2>1. CASE UNCHANGED vars
    BY <2>1, <2>a DEF vars
  <2>2. ASSUME NEW p \in Peer,
               \/ Open(p) \/ Deliver(p) \/ Lose(p) \/ Duplicate(p) \/ AskBlock(p) \/ LoseGame(p)
               \/ \E t \in Type : Send(p, t)
        PROVE  InputInv'
    BY <2>2, <2>a DEF Open, Deliver, Lose, Duplicate, AskBlock, LoseGame, Send
  <2>3. CASE ServerConnects \/ ClientConnects
    <3>1. PICK p \in Peer : \/ UNCHANGED phase
                            \/ phase' = [phase EXCEPT ![p] = "connecting"]
      BY <2>3 DEF ServerConnects, ClientConnects, ReadAll, ReadFails, Peer
    <3>2. UNCHANGED <<expected, received>>
      BY <2>3 DEF ServerConnects, ClientConnects
    <3> QED
      BY <2>0, <3>1, <3>2 DEF InputInv, InputInOrder, IsInOrder, ModeTypes
  <2>4. CASE ServerConnected \/ ClientConnected
    BY <2>4, <2>b DEF ServerConnected, ClientConnected, Peer
  <2>5. ASSUME NEW p \in Peer, OnInitialize(p)
        PROVE  InputInv'
    BY <2>5, <2>a DEF OnInitialize
  <2>6. ASSUME NEW p \in Peer, OnReceived(p)
        PROVE  InputInv'
    <3>1. CASE UNCHANGED <<phase, expected>>
      BY <2>6, <3>1, <2>a DEF OnReceived
    <3>2. CASE /\ phase' = [phase EXCEPT ![p] = "receiving"]
               /\ expected' = [expected EXCEPT ![p] =
                                 [t \in Type |-> LatestSequenceNumber(p, t)]]
      <4>1. UNCHANGED received
        BY <2>6 DEF OnReceived
      <4>2. expected'[p]["input"] = Len(received[p]["input"])
        BY <2>0, <3>2, LatestInOrder DEF InputInv, InputInOrder, NumberTypes, Type
      <4>3. \A q \in Peer \ {p} : phase'[q] = phase[q] /\ expected'[q] = expected[q]
        BY <2>0, <3>2 DEF NumberTypes, ModeTypes
      <4> QED
        BY <4>1, <4>2, <4>3 DEF InputInv, InputInOrder, IsInOrder
    <3> QED
      BY <2>6, <3>1, <3>2 DEF OnReceived, ReadAll, ReadFails
  <2>7. ASSUME NEW p \in Peer, Received(p)
        PROVE  InputInv'
    BY <2>7, <2>b DEF Received, Return
  <2>8. ASSUME NEW p \in Peer, NEW i \in 1..Len(todo[p]), Loop(p, i)
        PROVE  InputInv'
    <3>1. CASE ServerConnecting(i) \/ DropDuplicate(p, i)
      BY <3>1, <2>a DEF ServerConnecting, DropDuplicate
    <3>2. CASE p = "client" /\ ClientConnecting(i)
      <4>1. UNCHANGED <<phase, expected>>
        BY <3>2 DEF ClientConnecting
      <4>2. \/ UNCHANGED received
            \/ received' = [received EXCEPT ![p]["block"] =
                               Append(received[p]["block"], todo[p][i].sequence)]
        BY <3>2 DEF ClientConnecting
      <4>3. received \in [Peer -> [Type -> Seq(Nat)]] /\ "block" \in Type \ {"input"}
        BY <2>0 DEF NumberTypes, Type
      <4>4. \A q \in Peer : received'[q]["input"] = received[q]["input"]
        <5>1. CASE UNCHANGED received
          BY <5>1
        <5>2. ASSUME NEW x, received' = [received EXCEPT ![p]["block"] = x]
              PROVE  \A q \in Peer : received'[q]["input"] = received[q]["input"]
          BY <4>3, <5>2, MovesUntouched
        <5> QED
          BY <4>2, <5>1, <5>2
      <4> QED
        BY <4>1, <4>4 DEF InputInv, InputInOrder, IsInOrder
    <3>3. CASE Answer(p, i)
      <4>1. UNCHANGED phase \/ phase' = [phase EXCEPT ![p] = "thrown"]
        BY <3>3 DEF Answer
      <4>2. UNCHANGED <<expected, received>>
        BY <3>3 DEF Answer
      <4> QED
        BY <2>0, <4>1, <4>2 DEF InputInv, InputInOrder, IsInOrder, ModeTypes
    <3>4. CASE Process(p, i)
      <4> DEFINE t == todo[p][i].type
                 n == todo[p][i].sequence
      <4>1. t \in Type
        BY <2>0, <3>4, LoopPacket, SomeType DEF Process, Receiving
      <4>2. /\ received' = [received EXCEPT ![p][t] = Append(@, n)]
            /\ expected' = IF t = "ojama" THEN expected ELSE [expected EXCEPT ![p][t] = n + 1]
            /\ n = expected[p][t]
            /\ phase[p] = "receiving"
            /\ UNCHANGED phase
        BY <3>4 DEF Process, Receiving
      <4> HIDE DEF t, n
      <4>3. CASE t = "input"
        <5> DEFINE log == received[p]["input"]
        <5>1. log \in Seq(Nat) /\ IsInOrder(log) /\ n = Len(log)
          BY <2>0, <4>2, <4>3 DEF InputInv, InputInOrder, NumberTypes, Type
        <5>2. received'[p]["input"] = Append(log, Len(log))
          BY <2>0, <4>2, <4>3, <5>1 DEF NumberTypes, Type
        <5>3. expected'[p]["input"] = Len(log) + 1
          BY <2>0, <4>2, <4>3, <5>1 DEF NumberTypes, Type
        <5>4. IsInOrder(Append(log, Len(log))) /\ Len(Append(log, Len(log))) = Len(log) + 1
          BY <5>1, AppendInOrder
        <5>5. \A q \in Peer \ {p} : received'[q] = received[q] /\ expected'[q] = expected[q]
          BY <2>0, <4>2, <4>3 DEF NumberTypes
        <5> HIDE DEF log
        <5> QED
          BY <4>2, <5>2, <5>3, <5>4, <5>5 DEF InputInv, InputInOrder
      <4>4. CASE t # "input"
        <5>1. \A q \in Peer : received'[q]["input"] = received[q]["input"]
          BY <2>0, <4>1, <4>2, <4>4, MovesUntouched DEF NumberTypes
        <5>2. \A q \in Peer : expected'[q]["input"] = expected[q]["input"]
          <6>1. CASE t = "ojama"
            BY <4>2, <6>1
          <6>2. CASE expected' = [expected EXCEPT ![p][t] = n + 1]
            BY <2>0, <4>1, <4>4, <6>2, MovesUntouched DEF NumberTypes
          <6> QED
            BY <4>2, <6>1, <6>2
        <5> QED
          BY <4>2, <5>1, <5>2 DEF InputInv, InputInOrder
      <4> QED
        BY <4>3, <4>4
    <3>5. CASE ReportLoss(p, i) \/ ReceiveGameOver(p, i)
      BY <3>5, <2>b DEF ReportLoss, ReceiveGameOver, Break, Return
    <3> QED
      BY <2>8, <3>1, <3>2, <3>3, <3>4, <3>5 DEF Loop
  <2> QED
    BY <2>1, <2>2, <2>3, <2>4, <2>5, <2>6, <2>7, <2>8 DEF Next, Handle
<1> QED
  BY <1>1, <1>2, TypeCorrect, PTL DEF Spec

\* Whatever the channel loses, repeats or reorders, a peer processes the moves of
\* its opponent in order, each once (the gap check of onReceived).
THEOREM MovesInOrder == Spec => []InputInOrder
<1>1. InputInv => InputInOrder
  BY DEF InputInv
<1> QED
  BY <1>1, MovesHold, PTL

\* Until the client has its three blocks, no "Creation done." is on its way.
SetupInv ==
  initialProcessed # 0..2 =>
      /\ handler["server"] = "onConnectionComplete"
      /\ net \in [Peer -> Seq(Ordinary)]
      /\ queue \in [Peer -> Seq(Ordinary)]

LEMMA SendOrdinary ==
  ASSUME net \in [Peer -> Seq(Ordinary)], NEW p \in Peer, NEW packet \in Packet,
         packet.kind # "created", SendTo(p, <<packet>>)
  PROVE  net' \in [Peer -> Seq(Ordinary)]
<1>1. <<packet>> \in Seq(Ordinary)
  BY OrdinaryMade, OneOf
<1>2. net[p] \o <<packet>> \in Seq(Ordinary)
  BY <1>1, JoinOf
<1> QED
  BY <1>2 DEF SendTo

LEMMA ResendOrdinary ==
  ASSUME net \in [Peer -> Seq(Ordinary)], NEW p \in Peer, NEW packet \in Packet, Resend(p, packet)
  PROVE  net' \in [Peer -> Seq(Ordinary)]
<1>1. Data(packet.type, packet.sequence) \in Packet
  BY SomeType, PacketsMade DEF Resend, WasSent
<1>2. Data(packet.type, packet.sequence).kind # "created"
  BY DEF Data
<1> QED
  BY <1>1, <1>2, PeerPair, SendOrdinary DEF Resend

LEMMA SendNewBlockOrdinary ==
  ASSUME net \in [Peer -> Seq(Ordinary)], NumberTypes, NEW p \in Peer, SendNewBlock(p)
  PROVE  net' \in [Peer -> Seq(Ordinary)]
<1>1. Data("block", seqNo[p]["block"]) \in Packet
  BY PacketsMade DEF NumberTypes, Type
<1>2. Data("block", seqNo[p]["block"]).kind # "created"
  BY DEF Data
<1> QED
  BY <1>1, <1>2, PeerPair, SendOrdinary DEF SendNewBlock

LEMMA InitialBlocksOrdinary == InitialBlocks \in Seq(Ordinary)
<1>1. /\ Data("block", 0) \in Packet /\ Data("block", 0).kind # "created"
      /\ Data("block", 1) \in Packet /\ Data("block", 1).kind # "created"
      /\ Data("block", 2) \in Packet /\ Data("block", 2).kind # "created"
  BY PacketsMade DEF Data, Type
<1>2. Data("block", 0) \in Ordinary /\ Data("block", 1) \in Ordinary
      /\ Data("block", 2) \in Ordinary
  BY <1>1, OrdinaryMade
<1> QED
  BY <1>2 DEF InitialBlocks

LEMMA DeliverOrdinary ==
  ASSUME net \in [Peer -> Seq(Ordinary)], queue \in [Peer -> Seq(Ordinary)],
         NEW p \in Peer, Deliver(p) \/ Lose(p) \/ Duplicate(p)
  PROVE  net' \in [Peer -> Seq(Ordinary)] /\ queue' \in [Peer -> Seq(Ordinary)]
<1>1. PICK i \in 1..Len(net[p]) :
        /\ \/ net' = [net EXCEPT ![p] = Without(@, i)]
           \/ net' = [net EXCEPT ![p] = Append(@, net[p][i])]
        /\ UNCHANGED queue \/ queue' = [queue EXCEPT ![p] = Append(@, net[p][i])]
  BY DEF Deliver, Lose, Duplicate
<1>2. net[p] \in Seq(Ordinary) /\ queue[p] \in Seq(Ordinary)
  OBVIOUS
<1>3. net[p][i] \in Ordinary
  BY <1>2, ElementOfSeq
<1>4. /\ Without(net[p], i) \in Seq(Ordinary)
      /\ Append(net[p], net[p][i]) \in Seq(Ordinary)
      /\ Append(queue[p], net[p][i]) \in Seq(Ordinary)
  BY <1>2, <1>3, WithoutOf, AppendOf
<1> QED
  BY <1>1, <1>4

LEMMA ReadAllOrdinary ==
  ASSUME queue \in [Peer -> Seq(Ordinary)], NEW p \in Peer, NEW loop, ReadAll(p, loop)
  PROVE  queue' \in [Peer -> Seq(Ordinary)]
<1>1. <<>> \in Seq(Ordinary)
  BY NoneOf
<1> QED
  BY <1>1 DEF ReadAll

\* Nothing to fail on: reading throws only on "Creation done.".
LEMMA NoReadFails ==
  ASSUME queue \in [Peer -> Seq(Ordinary)], NEW p \in Peer
  PROVE  ~ReadFails(p)
<1>1. queue[p] \in Seq(Ordinary)
  OBVIOUS
<1>2. \A i \in 1..Len(queue[p]) : queue[p][i] # CreationDone
  BY <1>1, ElementOfSeq DEF Ordinary
<1> QED
  BY <1>2 DEF ReadFails

LEMMA LoopOrdinary ==
  ASSUME TypeOK, net \in [Peer -> Seq(Ordinary)], NEW p \in Peer,
         NEW i \in 1..Len(todo[p]), Loop(p, i)
  PROVE  net' \in [Peer -> Seq(Ordinary)] /\ UNCHANGED <<queue, handler>>
<1>0. PacketTypes /\ NumberTypes
  BY DEF TypeOK
<1>1. todo[p][i] \in Packet
  BY <1>0, LoopPacket
<1>2. CASE p = "server" /\ ServerConnecting(i)
  <2>1. Resend(p, todo[p][i]) \/ SendNewBlock(p) \/ UNCHANGED net
    BY <1>2 DEF ServerConnecting
  <2> QED
    BY <1>0, <1>1, <1>2, <2>1, ResendOrdinary, SendNewBlockOrdinary DEF ServerConnecting
<1>3. CASE Answer(p, i)
  <2>1. Resend(p, todo[p][i]) \/ SendNewBlock(p) \/ UNCHANGED net
    BY <1>3 DEF Answer
  <2> QED
    BY <1>0, <1>1, <1>3, <2>1, ResendOrdinary, SendNewBlockOrdinary DEF Answer
<1>4. CASE ReportLoss(p, i)
  <2> DEFINE t == todo[p][i].type
             n == expected[p][t]
  <2>1. SendTo(Other(p), <<Request(t, n)>>) /\ UNCHANGED <<queue, handler>>
    BY <1>4 DEF ReportLoss
  <2>2. t \in Type
    BY <1>1, <1>4, SomeType DEF ReportLoss, Receiving
  <2>3. n \in Nat
    BY <1>0, <2>2 DEF NumberTypes
  <2>4. Request(t, n) \in Packet /\ Request(t, n).kind # "created"
    BY <2>2, <2>3, PacketsMade DEF Request
  <2> QED
    BY <2>1, <2>4, PeerPair, SendOrdinary
<1>5. CASE \/ p = "client" /\ ClientConnecting(i)
           \/ DropDuplicate(p, i) \/ Process(p, i) \/ ReceiveGameOver(p, i)
  BY <1>5 DEF ClientConnecting, DropDuplicate, Process, ReceiveGameOver
<1> QED
  BY <1>2, <1>3, <1>4, <1>5 DEF Loop

\* The server never gets past its setup before the client has all of its initial
\* blocks: "Creation done." is sent for nothing less.
THEOREM GameWaitsForBlocks == Spec => []BlocksBeforeGame
<1>1. Init => SetupInv
  BY NoneOf DEF Init, SetupInv, Peer
<1>2. TypeOK /\ SetupInv /\ [Next]_vars => SetupInv'
  <2> SUFFICES ASSUME TypeOK, SetupInv, [Next]_vars, initialProcessed' # 0..2
               PROVE  /\ handler'["server"] = "onConnectionComplete"
                      /\ net' \in [Peer -> Seq(Ordinary)]
                      /\ queue' \in [Peer -> Seq(Ordinary)]
    BY DEF SetupInv
  <2> DEFINE Goal == /\ handler'["server"] = "onConnectionComplete"
                     /\ net' \in [Peer -> Seq(Ordinary)]
                     /\ queue' \in [Peer -> Seq(Ordinary)]
  <2> USE DEF loopVars, dataVars, setupVars, boundVars
  <2>0. PacketTypes /\ NumberTypes /\ ModeTypes
    BY DEF TypeOK
  <2>1. CASE UNCHANGED vars
    BY <2>1 DEF vars, SetupInv
  <2>2. CASE Next
    <3>1. initialProcessed \subseteq initialProcessed'
      <4>1. PICK p \in Peer :
              \/ Open(p) \/ Deliver(p) \/ Lose(p) \/ Duplicate(p) \/ Handle(p)
              \/ \E t \in Type : Send(p, t)
              \/ AskBlock(p) \/ LoseGame(p)
        BY <2>2 DEF Next
      <4>2. CASE Open(p) \/ Deliver(p) \/ Lose(p) \/ Duplicate(p) \/ AskBlock(p) \/ LoseGame(p)
                 \/ \E t \in Type : Send(p, t)
        BY <4>2 DEF Open, Deliver, Lose, Duplicate, AskBlock, LoseGame, Send
      <4>3. CASE ServerConnects \/ ServerConnected \/ ClientConnects \/ ClientConnected
        BY <4>3 DEF ServerConnects, ServerConnected, ClientConnects, ClientConnected
      <4>4. CASE OnInitialize(p) \/ OnReceived(p) \/ Received(p)
        BY <4>4 DEF OnInitialize, OnReceived, Received
      <4>5. ASSUME NEW i \in 1..Len(todo[p]), Loop(p, i)
            PROVE  initialProcessed \subseteq initialProcessed'
        BY <4>5 DEF Loop, ServerConnecting, ClientConnecting, Answer, DropDuplicate, Process,
                    ReportLoss, ReceiveGameOver
      <4> QED
        BY <4>1, <4>2, <4>3, <4>4, <4>5 DEF Handle
    <3>2. initialProcessed # 0..2
      <4>1. initialProcessed' \subseteq 0..2
        BY <2>2, ModeTypesKept DEF ModeTypes
      <4> QED
        BY <3>1, <4>1
    <3>3. /\ handler["server"] = "onConnectionComplete"
          /\ net \in [Peer -> Seq(Ordinary)]
          /\ queue \in [Peer -> Seq(Ordinary)]
      BY <3>2 DEF SetupInv
    <3>4. PICK p \in Peer :
            \/ Open(p) \/ Deliver(p) \/ Lose(p) \/ Duplicate(p) \/ Handle(p)
            \/ \E t \in Type : Send(p, t)
            \/ AskBlock(p) \/ LoseGame(p)
      BY <2>2 DEF Next
    <3>5. CASE Open(p)
      BY <3>3, <3>5 DEF Open
    <3>6. CASE Deliver(p) \/ Lose(p) \/ Duplicate(p)
      <4>1. UNCHANGED handler
        BY <3>6 DEF Deliver, Lose, Duplicate
      <4> QED
        BY <3>3, <3>6, <4>1, DeliverOrdinary
    <3>7. CASE p = "server" /\ ServerConnects
      <4>1. ~(queue["server"] # <<>> /\ Head(queue["server"]) = CreationDone)
        BY <3>3, HeadTailProperties DEF Ordinary, Peer
      <4>2. UNCHANGED handler
        BY <3>7, <4>1 DEF ServerConnects
      <4>3. net' \in [Peer -> Seq(Ordinary)]
        <5>1. UNCHANGED net \/ net' = [net EXCEPT !["client"] = @ \o InitialBlocks]
          BY <3>7 DEF ServerConnects, SendTo
        <5>2. net["client"] \o InitialBlocks \in Seq(Ordinary)
          BY <3>3, InitialBlocksOrdinary, JoinOf DEF Peer
        <5> QED
          BY <3>3, <5>1, <5>2
      <4>4. queue' \in [Peer -> Seq(Ordinary)]
        BY <3>3, <3>7, <4>1, NoReadFails, ReadAllOrdinary DEF ServerConnects, Peer
      <4> QED
        BY <3>3, <4>2, <4>3, <4>4
    <3>8. CASE p = "server" /\ ServerConnected
      BY <3>3, <3>8 DEF ServerConnected
    <3>9. CASE p = "client" /\ ClientConnects
      <4>1. UNCHANGED queue \/ ReadAll("client", "connecting")
        BY <3>9 DEF ClientConnects
      <4>2. queue' \in [Peer -> Seq(Ordinary)]
        BY <3>3, <4>1, ReadAllOrdinary DEF Peer
      <4> QED
        BY <3>3, <3>9, <4>2 DEF ClientConnects
    <3>10. CASE p = "client" /\ ClientConnected
      <4>1. SendTo("server", MissingRequests("client")) /\ UNCHANGED <<queue, handler>>
        BY <3>2, <3>10 DEF ClientConnected
      <4>2. net["server"] \o MissingRequests("client") \in Seq(Ordinary)
        BY <2>0, <3>3, MissingRequestsOrdinary, JoinOf DEF Peer
      <4> QED
        BY <3>3, <4>1, <4>2 DEF SendTo
    <3>11. CASE OnInitialize(p)
      <4>1. p # "server"
        BY <3>3, <3>11 DEF OnInitialize, Fire
      <4> QED
        BY <2>0, <3>3, <3>11, <4>1 DEF OnInitialize, ModeTypes, Peer
    <3>12. CASE OnReceived(p)
      <4>1. UNCHANGED queue \/ ReadAll(p, "receiving")
        BY <3>3, <3>12, NoReadFails DEF OnReceived
      <4>2. queue' \in [Peer -> Seq(Ordinary)]
        BY <3>3, <4>1, ReadAllOrdinary
      <4> QED
        BY <3>3, <3>12, <4>2 DEF OnReceived
    <3>13. CASE Received(p)
      BY <3>3, <3>13 DEF Received
    <3>14. ASSUME NEW i \in 1..Len(todo[p]), Loop(p, i)
           PROVE  Goal
      BY <3>3, <3>14, LoopOrdinary
    <3>15. ASSUME NEW t \in Type, Send(p, t)
           PROVE  Goal
      <4>1. Data(t, seqNo[p][t]) \in Packet /\ Data(t, seqNo[p][t]).kind # "created"
        BY <2>0, PacketsMade DEF NumberTypes, Data
      <4>2. net' \in [Peer -> Seq(Ordinary)]
        BY <3>3, <3>15, <4>1, PeerPair, SendOrdinary DEF Send
      <4> QED
        BY <3>3, <3>15, <4>2 DEF Send
    <3>16. CASE AskBlock(p)
      <4> DEFINE n == LatestSequenceNumber(p, "block")
      <4>1. n \in Nat
        BY <2>0, LatestType DEF Type
      <4>2. Request("block", n) \in Packet /\ Request("block", n).kind # "created"
        BY <4>1, PacketsMade DEF Request, Type
      <4>3. net' \in [Peer -> Seq(Ordinary)]
        BY <3>3, <3>16, <4>2, PeerPair, SendOrdinary DEF AskBlock
      <4> QED
        BY <3>3, <3>16, <4>3 DEF AskBlock
    <3>17. CASE LoseGame(p)
      <4> DEFINE user == IF p = Loser THEN "puzzleUserLayer1" ELSE "puzzleUserLayer2"
      <4>1. GameOver(user) \in Packet /\ GameOver(user).kind # "created"
        BY PacketsMade DEF GameOver, UserLayer
      <4>2. net' \in [Peer -> Seq(Ordinary)]
        BY <3>3, <3>17, <4>1, PeerPair, SendOrdinary DEF LoseGame
      <4> QED
        BY <3>3, <3>17, <4>2 DEF LoseGame
    <3> QED
      BY <3>4, <3>5, <3>6, <3>7, <3>8, <3>9, <3>10, <3>11, <3>12, <3>13, <3>14, <3>15,
         <3>16, <3>17 DEF Handle
  <2> QED
    BY <2>1, <2>2
<1>3. SetupInv => BlocksBeforeGame
  BY DEF SetupInv, BlocksBeforeGame
<1> QED
  BY <1>1, <1>2, <1>3, TypeCorrect, PTL DEF Spec
--------------------------------------------------------------------------------
(* Nothing is invented: whatever the channel loses, repeats or reorders, a data   *)
(* packet on its way to a peer, or held by it, is one that was sent to it.        *)

OfPeers(f, M) == \A p \in Peer : f[p] \in Seq(M[p])

\* M[p] is a set that the packets on their way to p and held by p belong to.
HeldIn(M) == OfPeers(net, M) /\ OfPeers(queue, M) /\ OfPeers(raw, M) /\ OfPeers(todo, M)

\* What p may get: every data packet of it was sent.
Genuine(p) ==
    {packet \in Packet : packet.kind = "data" => packet.sequence < seqNo[Other(p)][packet.type]}

NothingInvented == HeldIn([p \in Peer |-> Genuine(p)])

LEMMA OnePeer ==
  ASSUME NEW S, NEW f \in [Peer -> S], NEW M, OfPeers(f, M), NEW p \in Peer,
         NEW x \in Seq(M[p]), NEW g, g = [f EXCEPT ![p] = x]
  PROVE  OfPeers(g, M)
  BY DEF OfPeers

LEMMA ThreeOf ==
  ASSUME NEW S, NEW x \in S, NEW y \in S, NEW z \in S
  PROVE  <<x, y, z>> \in Seq(S)
  OBVIOUS

LEMMA SendHeld ==
  ASSUME PacketTypes, NEW M, OfPeers(net, M), NEW p \in Peer, NEW s \in Seq(M[p]), SendTo(p, s)
  PROVE  OfPeers(net', M)
<1>1. net[p] \o s \in Seq(M[p])
  BY JoinOf DEF OfPeers
<1> QED
  BY <1>1, OnePeer DEF SendTo, PacketTypes

LEMMA SendOneHeld ==
  ASSUME PacketTypes, NEW M, OfPeers(net, M), NEW p \in Peer, NEW x \in M[p],
         SendTo(p, <<x>>)
  PROVE  OfPeers(net', M)
  BY OneOf, SendHeld

\* What the channel does to the packets under way.
LEMMA ChannelHeld ==
  ASSUME PacketTypes, NEW M, HeldIn(M), NEW p \in Peer,
         Deliver(p) \/ Lose(p) \/ Duplicate(p)
  PROVE  HeldIn(M)'
<1>1. PICK i \in 1..Len(net[p]) :
        /\ \/ net' = [net EXCEPT ![p] = Without(@, i)]
           \/ net' = [net EXCEPT ![p] = Append(@, net[p][i])]
        /\ UNCHANGED queue \/ queue' = [queue EXCEPT ![p] = Append(@, net[p][i])]
        /\ UNCHANGED <<raw, todo>>
  BY DEF Deliver, Lose, Duplicate, loopVars
<1>2. net[p] \in Seq(M[p]) /\ queue[p] \in Seq(M[p])
  BY DEF HeldIn, OfPeers
<1>3. net[p][i] \in M[p]
  BY <1>2, ElementOfSeq
<1>4. /\ Without(net[p], i) \in Seq(M[p])
      /\ Append(net[p], net[p][i]) \in Seq(M[p])
      /\ Append(queue[p], net[p][i]) \in Seq(M[p])
  BY <1>2, <1>3, WithoutOf, AppendOf
<1>5. OfPeers(net', M)
  BY <1>1, <1>4, OnePeer DEF HeldIn, PacketTypes
<1>6. OfPeers(queue', M)
  BY <1>1, <1>4, OnePeer DEF HeldIn, PacketTypes
<1> QED
  BY <1>1, <1>5, <1>6 DEF HeldIn

LEMMA ReadAllHeld ==
  ASSUME PacketTypes, NEW M, HeldIn(M), NEW p \in Peer, NEW loop, ReadAll(p, loop)
  PROVE  OfPeers(todo', M) /\ OfPeers(raw', M) /\ OfPeers(queue', M)
<1>1. <<>> \in Seq(M[p])
  BY NoneOf
<1>2. raw[p] \o queue[p] \in Seq(M[p])
  BY JoinOf DEF HeldIn, OfPeers
<1> QED
  BY <1>1, <1>2, OnePeer DEF ReadAll, PacketTypes, HeldIn

LEMMA PartsAround ==
  ASSUME NEW S, NEW s \in Seq(S), NEW i \in 1..Len(s)
  PROVE  SubSeq(s, 1, i - 1) \in Seq(S) /\ SubSeq(s, i + 1, Len(s)) \in Seq(S)
<1>1. Len(s) \in Nat
  BY LenProperties
<1> QED
  BY <1>1, PartOf

LEMMA ReadFailsHeld ==
  ASSUME PacketTypes, NEW M, HeldIn(M), NEW p \in Peer, ReadFails(p)
  PROVE  OfPeers(todo', M) /\ OfPeers(raw', M) /\ OfPeers(queue', M)
<1> DEFINE S == M[p]
<1>0. queue[p] \in Seq(S) /\ raw[p] \in Seq(S)
  BY DEF HeldIn, OfPeers
<1>2. PICK i \in 1..Len(queue[p]) :
         /\ raw' = [raw EXCEPT ![p] = @ \o SubSeq(queue[p], 1, i - 1)]
         /\ queue' = [queue EXCEPT ![p] = SubSeq(@, i + 1, Len(@))]
         /\ UNCHANGED <<todo, phase>>
  BY DEF ReadFails
<1> HIDE DEF S
<1>3. SubSeq(queue[p], 1, i - 1) \in Seq(S)
  BY <1>0, PartsAround
<1>4. SubSeq(queue[p], i + 1, Len(queue[p])) \in Seq(S)
  BY <1>0, PartsAround
<1>5. raw[p] \o SubSeq(queue[p], 1, i - 1) \in Seq(S)
  BY <1>0, <1>3, JoinOf
<1>6. OfPeers(raw', M)
  BY <1>2, <1>5, OnePeer DEF S, PacketTypes, HeldIn
<1>7. OfPeers(queue', M)
  BY <1>2, <1>4, OnePeer DEF S, PacketTypes, HeldIn
<1> QED
  BY <1>2, <1>6, <1>7 DEF HeldIn

\* What the loops do to the packets they look at.
LEMMA LoopHeld ==
  ASSUME PacketTypes, NEW M, HeldIn(M), NEW p \in Peer,
         \/ Break(p)
         \/ \E i \in 1..Len(todo[p]) : Keep(p, i) \/ Drop(p, i)
  PROVE  OfPeers(todo', M) /\ OfPeers(raw', M)
<1>0. todo[p] \in Seq(M[p]) /\ raw[p] \in Seq(M[p]) /\ <<>> \in Seq(M[p])
  BY NoneOf DEF HeldIn, OfPeers
<1>1. CASE Break(p)
  BY <1>0, <1>1, OnePeer DEF Break, PacketTypes, HeldIn
<1>2. ASSUME NEW i \in 1..Len(todo[p]), Keep(p, i) \/ Drop(p, i)
      PROVE  OfPeers(todo', M) /\ OfPeers(raw', M)
  <2>1. todo[p][i] \in M[p] /\ Without(todo[p], i) \in Seq(M[p])
    BY <1>0, ElementOfSeq, WithoutOf
  <2>2. Append(raw[p], todo[p][i]) \in Seq(M[p])
    BY <1>0, <2>1, AppendOf
  <2>3. OfPeers(todo', M)
    BY <1>2, <2>1, OnePeer DEF Keep, Drop, PacketTypes, HeldIn
  <2>4. CASE Keep(p, i)
    <3>1. OfPeers(raw', M)
      BY <2>2, <2>4, OnePeer DEF Keep, PacketTypes, HeldIn
    <3> QED
      BY <2>3, <3>1
  <2>5. CASE Drop(p, i)
    BY <2>3, <2>5 DEF Drop, HeldIn
  <2> QED
    BY <1>2, <2>4, <2>5
<1> QED
  BY <1>1, <1>2

\* What the game and the loops send is genuine.
LEMMA GenuineMade ==
  ASSUME NEW p \in Peer
  PROVE  /\ \A t \in Type, n \in Nat :
               n < seqNo[p][t] => Data(t, n) \in Genuine(Other(p))
         /\ \A x \in Packet : x.kind # "data" => x \in Genuine(Other(p))
<1>1. Other(Other(p)) = p
  BY DEF Other, Peer
<1>2. \A t \in Type, n \in Nat : Data(t, n) \in Packet
  BY PacketsMade
<1> QED
  BY <1>1, <1>2 DEF Genuine, Data

\* The numbers sent only grow: by three initial blocks, or by one.
LEMMA SeqNoGrows ==
  ASSUME TypeOK, Next
  PROVE  \/ UNCHANGED seqNo
         \/ /\ UNCHANGED received
            /\ \E p \in Peer, t \in Type, n \in 1..3 : seqNo' = [seqNo EXCEPT ![p][t] = @ + n]
<1> DEFINE Goal == \/ UNCHANGED seqNo
                   \/ /\ UNCHANGED received
                      /\ \E p \in Peer, t \in Type, n \in 1..3 :
                            seqNo' = [seqNo EXCEPT ![p][t] = @ + n]
<1> SUFFICES ASSUME NEW p \in Peer,
                    \/ Open(p) \/ Deliver(p) \/ Lose(p) \/ Duplicate(p) \/ Handle(p)
                    \/ \E t \in Type : Send(p, t)
                    \/ AskBlock(p) \/ LoseGame(p)
             PROVE  Goal
  BY DEF Next
<1>0. "block" \in Type /\ "server" \in Peer /\ 1 \in 1..3 /\ 3 \in 1..3
  BY DEF Type, Peer
<1>a. ASSUME NEW q \in Peer, SendNewBlock(q), UNCHANGED received
      PROVE  Goal
  BY <1>0, <1>a DEF SendNewBlock
<1> USE DEF dataVars
<1>1. CASE Open(p) \/ Deliver(p) \/ Lose(p) \/ Duplicate(p) \/ AskBlock(p) \/ LoseGame(p)
  BY <1>1 DEF Open, Deliver, Lose, Duplicate, AskBlock, LoseGame
<1>2. ASSUME NEW t \in Type, Send(p, t)
      PROVE  Goal
  <2>1. UNCHANGED received /\ seqNo' = [seqNo EXCEPT ![p][t] = @ + 1]
    BY <1>2 DEF Send
  <2> QED
    BY <1>0, <2>1
<1>3. CASE p = "server" /\ ServerConnects
  BY <1>0, <1>3 DEF ServerConnects
<1>4. CASE ServerConnected \/ ClientConnects \/ ClientConnected
  BY <1>4 DEF ServerConnected, ClientConnects, ClientConnected
<1>5. CASE OnInitialize(p) \/ OnReceived(p) \/ Received(p)
  BY <1>5 DEF OnInitialize, OnReceived, Received
<1>6. ASSUME NEW i \in 1..Len(todo[p]), Loop(p, i)
      PROVE  Goal
  <2>1. CASE p = "server" /\ ServerConnecting(i)
    <3>1. UNCHANGED received /\ (SendNewBlock(p) \/ UNCHANGED seqNo)
      BY <2>1 DEF ServerConnecting, Resend
    <3> QED
      BY <1>a, <3>1
  <2>2. CASE Answer(p, i)
    <3>1. UNCHANGED received /\ (SendNewBlock(p) \/ UNCHANGED seqNo)
      BY <2>2 DEF Answer, Resend
    <3> QED
      BY <1>a, <3>1
  <2>3. CASE \/ p = "client" /\ ClientConnecting(i)
             \/ DropDuplicate(p, i) \/ Process(p, i) \/ ReportLoss(p, i)
             \/ ReceiveGameOver(p, i)
    BY <2>3 DEF ClientConnecting, DropDuplicate, Process, ReportLoss, ReceiveGameOver
  <2> QED
    BY <1>6, <2>1, <2>2, <2>3 DEF Loop
<1> QED
  BY <1>1, <1>2, <1>3, <1>4, <1>5, <1>6 DEF Handle

LEMMA MoreSent ==
  ASSUME NumberTypes, NEW p \in Peer, NEW t \in Type, NEW n \in Nat,
         seqNo' = [seqNo EXCEPT ![p][t] = @ + n]
  PROVE  \A q \in Peer, u \in Type :
            seqNo'[q][u] = IF q = p /\ u = t THEN seqNo[q][u] + n ELSE seqNo[q][u]
<1>1. seqNo \in [Peer -> [Type -> Nat]]
  BY DEF NumberTypes
<1>2. seqNo'[p] = [seqNo[p] EXCEPT ![t] = seqNo[p][t] + n]
  BY <1>1
<1>3. \A u \in Type : seqNo'[p][u] = IF u = t THEN seqNo[p][u] + n ELSE seqNo[p][u]
  BY <1>1, <1>2
<1>4. \A q \in Peer \ {p} : seqNo'[q] = seqNo[q]
  BY <1>1
<1> QED
  BY <1>3, <1>4

\* What was genuine stays so.
LEMMA GenuineGrows ==
  ASSUME TypeOK, Next, NEW q \in Peer
  PROVE  Genuine(q) \subseteq Genuine(q)'
<1>1. NumberTypes /\ NumberTypes'
  BY NumberTypesKept DEF TypeOK
<1>2. \A r \in Peer, t \in Type : seqNo[r][t] <= seqNo'[r][t]
  <2>1. CASE UNCHANGED seqNo
    BY <1>1, <2>1 DEF NumberTypes
  <2>2. ASSUME NEW p \in Peer, NEW t \in Type, NEW n \in 1..3,
               seqNo' = [seqNo EXCEPT ![p][t] = @ + n]
        PROVE  \A r \in Peer, u \in Type : seqNo[r][u] <= seqNo'[r][u]
    <3>1. \A r \in Peer, u \in Type : seqNo[r][u] \in Nat
      BY <1>1 DEF NumberTypes
    <3>2. n \in Nat
      OBVIOUS
    <3> QED
      BY <1>1, <2>2, <3>1, <3>2, MoreSent
  <2> QED
    BY <2>1, <2>2, SeqNoGrows
<1>3. Other(q) \in Peer
  BY PeerPair
<1>4. \A t \in Type : seqNo[Other(q)][t] \in Nat /\ seqNo'[Other(q)][t] \in Nat
  BY <1>1, <1>3 DEF NumberTypes
<1> QED
  BY <1>2, <1>3, <1>4, SomeType DEF Genuine

\* Every step keeps what the packets around the peers belong to.
LEMMA NothingInventedKept ==
  ASSUME TypeOK, NothingInvented, Next
  PROVE  NothingInvented'
<1>0. PacketTypes /\ NumberTypes /\ NumberTypes'
  BY NumberTypesKept DEF TypeOK
<1>1. PICK M : M = [q \in Peer |-> Genuine(q)']
  OBVIOUS
<1>2. \A q \in Peer : Genuine(q) \subseteq M[q] /\ M[q] = Genuine(q)'
  BY <1>1, GenuineGrows
<1>3. HeldIn(M)
  BY <1>2, SeqMonotonic DEF NothingInvented, HeldIn, OfPeers
<1> DEFINE Goal == HeldIn(M)'
<1>4. SUFFICES Goal
  BY <1>2 DEF NothingInvented, HeldIn, OfPeers
<1>5. PICK p \in Peer :
        \/ Open(p) \/ Deliver(p) \/ Lose(p) \/ Duplicate(p) \/ Handle(p)
        \/ \E t \in Type : Send(p, t)
        \/ AskBlock(p) \/ LoseGame(p)
  BY DEF Next
<1>6. \A q \in Peer : Other(q) \in Peer
  BY PeerPair
<1> USE DEF loopVars, dataVars, setupVars, boundVars
<1>a. ASSUME NEW x, SendTo(Other(p), <<x>>), x \in M[Other(p)], UNCHANGED <<queue, raw, todo>>
      PROVE  Goal
  BY <1>0, <1>3, <1>6, <1>a, SendOneHeld DEF HeldIn
<1>b. ASSUME NEW t \in Type, NEW n \in Nat, n < seqNo'[p][t]
      PROVE  Data(t, n) \in M[Other(p)]
  <2>1. Other(Other(p)) = p
    BY DEF Other, Peer
  <2>2. Data(t, n) \in Packet /\ Data(t, n).type = t /\ Data(t, n).sequence = n
    BY PacketsMade DEF Data
  <2>3. Data(t, n) \in Genuine(Other(p))'
    BY <1>b, <2>1, <2>2 DEF Genuine
  <2> QED
    BY <1>2, <1>6, <2>3
<1>c. ASSUME NEW x \in Packet, x.kind # "data"
      PROVE  x \in M[Other(p)]
  BY <1>2, <1>6, <1>c, GenuineMade
<1>d. \A t \in Type : seqNo[p][t] \in Nat /\ seqNo'[p][t] \in Nat
  BY <1>0 DEF NumberTypes
<1>e. ASSUME SendNewBlock(p)
      PROVE  OfPeers(net', M)
  <2>1. "block" \in Type
    BY DEF Type
  <2>2. seqNo'[p]["block"] = seqNo[p]["block"] + 1
    BY <1>0, <1>e, <2>1 DEF SendNewBlock, NumberTypes
  <2>3. seqNo[p]["block"] < seqNo'[p]["block"]
    BY <1>d, <2>1, <2>2
  <2>4. Data("block", seqNo[p]["block"]) \in M[Other(p)]
    BY <1>b, <1>d, <2>1, <2>3
  <2> QED
    BY <1>0, <1>3, <1>6, <1>e, <2>4, SendOneHeld DEF SendNewBlock, HeldIn
<1>f. ASSUME NEW x \in Packet, Resend(p, x)
      PROVE  OfPeers(net', M)
  <2>1. x.type \in Type /\ x.sequence \in Nat /\ x.sequence < seqNo'[p][x.type]
    BY <1>f, SomeType DEF Resend, WasSent
  <2>2. Data(x.type, x.sequence) \in M[Other(p)]
    BY <1>b, <2>1
  <2> QED
    BY <1>0, <1>3, <1>6, <1>f, <2>2, SendOneHeld DEF Resend, HeldIn
<1>7. CASE Open(p)
  BY <1>3, <1>7 DEF Open, HeldIn
<1>8. CASE Deliver(p) \/ Lose(p) \/ Duplicate(p)
  BY <1>0, <1>3, <1>8, ChannelHeld
<1>9. CASE p = "server" /\ ServerConnects
  <2>1. OfPeers(net', M)
    <3>1. CASE UNCHANGED net
      BY <1>3, <3>1 DEF HeldIn
    <3>2. CASE /\ SendTo("client", InitialBlocks)
               /\ seqNo' = [seqNo EXCEPT !["server"]["block"] = @ + 3]
      <4>1. "block" \in Type /\ Other(p) = "client"
        BY <1>9 DEF Type, Other
      <4>2. seqNo'[p]["block"] = seqNo[p]["block"] + 3
        BY <1>0, <1>9, <3>2, <4>1 DEF NumberTypes
      <4>3. /\ Data("block", 0) \in M["client"]
            /\ Data("block", 1) \in M["client"]
            /\ Data("block", 2) \in M["client"]
        <5>1. 0 < seqNo'[p]["block"] /\ 1 < seqNo'[p]["block"] /\ 2 < seqNo'[p]["block"]
          BY <1>d, <4>1, <4>2
        <5> QED
          BY <1>b, <4>1, <5>1
      <4>4. InitialBlocks \in Seq(M["client"])
        BY <4>3, ThreeOf DEF InitialBlocks
      <4> QED
        BY <1>0, <1>3, <3>2, <4>4, SendHeld DEF HeldIn, Peer
    <3> QED
      BY <1>9, <3>1, <3>2 DEF ServerConnects
  <2>2. CASE /\ queue["server"] # <<>> /\ queue' = [queue EXCEPT !["server"] = Tail(@)]
             /\ UNCHANGED <<raw, todo>>
    <3>1. Tail(queue["server"]) \in Seq(M["server"])
      BY <1>3, <2>2, HeadTailProperties DEF HeldIn, OfPeers, Peer
    <3>2. OfPeers(queue', M)
      BY <1>0, <1>3, <2>2, <3>1, OnePeer DEF PacketTypes, HeldIn, Peer
    <3> QED
      BY <1>3, <2>1, <2>2, <3>2 DEF HeldIn
  <2>3. CASE UNCHANGED <<queue, raw, todo>>
    BY <1>3, <2>1, <2>3 DEF HeldIn
  <2>4. CASE ReadAll("server", "connecting") \/ ReadFails("server")
    BY <1>0, <1>3, <2>1, <2>4, ReadAllHeld, ReadFailsHeld DEF HeldIn, Peer
  <2> QED
    BY <1>9, <2>2, <2>3, <2>4 DEF ServerConnects
<1>10. CASE p = "server" /\ ServerConnected
  BY <1>3, <1>10 DEF ServerConnected, HeldIn
<1>11. CASE p = "client" /\ ClientConnects
  <2>1. CASE UNCHANGED <<queue, raw, todo>>
    BY <1>3, <1>11, <2>1 DEF ClientConnects, HeldIn
  <2>2. CASE ReadAll("client", "connecting")
    BY <1>0, <1>3, <1>11, <2>2, ReadAllHeld DEF ClientConnects, HeldIn
  <2> QED
    BY <1>11, <2>1, <2>2 DEF ClientConnects
<1>12. CASE p = "client" /\ ClientConnected
  <2>0. Other(p) = "server"
    BY <1>12 DEF Other
  <2>1. <<CreationDone>> \in Seq(M["server"])
    <3>1. CreationDone \in Packet /\ CreationDone.kind # "data"
      BY PacketsMade DEF CreationDone
    <3> QED
      BY <1>c, <2>0, <3>1, OneOf
  <2>2. MissingRequests("client") \in Seq(M["server"])
    <3>1. \A x \in Asking : x \in M["server"]
      BY <1>c, <2>0 DEF Asking
    <3>2. MissingRequests("client") \in Seq(Asking)
      BY <1>0, MissingRequestsAsk DEF Peer
    <3> QED
      BY <3>1, <3>2, SeqMonotonic
  <2>3. OfPeers(net', M)
    BY <1>0, <1>3, <1>12, <2>1, <2>2, SendHeld DEF ClientConnected, Peer, HeldIn
  <2> QED
    BY <1>3, <1>12, <2>3 DEF ClientConnected, HeldIn
<1>13. CASE OnInitialize(p)
  BY <1>3, <1>13 DEF OnInitialize, HeldIn
<1>14. CASE OnReceived(p)
  <2>1. CASE UNCHANGED <<queue, raw, todo>>
    BY <1>3, <1>14, <2>1 DEF OnReceived, HeldIn
  <2>2. CASE ReadAll(p, "receiving") \/ ReadFails(p)
    BY <1>0, <1>3, <1>14, <2>2, ReadAllHeld, ReadFailsHeld DEF OnReceived, HeldIn
  <2> QED
    BY <1>14, <2>1, <2>2 DEF OnReceived
<1>15. CASE Received(p)
  BY <1>3, <1>15 DEF Received, Return, HeldIn
<1>16. ASSUME NEW i \in 1..Len(todo[p]), Loop(p, i)
       PROVE  Goal
  <2>0. todo[p][i] \in Packet
    BY <1>0, LoopPacket
  <2>1. UNCHANGED queue /\ OfPeers(todo', M) /\ OfPeers(raw', M)
    <3>1. Break(p) \/ Keep(p, i) \/ Drop(p, i)
      BY <1>16 DEF Loop, ServerConnecting, ClientConnecting, Answer, DropDuplicate, Process,
                   ReportLoss, ReceiveGameOver
    <3>2. UNCHANGED queue
      BY <1>16 DEF Loop, ServerConnecting, ClientConnecting, Answer, DropDuplicate, Process,
                   ReportLoss, ReceiveGameOver
    <3> QED
      BY <1>0, <1>3, <3>1, <3>2, LoopHeld
  <2>2. OfPeers(net', M)
    <3>1. CASE UNCHANGED net
      BY <1>3, <3>1 DEF HeldIn
    <3>2. CASE Resend(p, todo[p][i]) \/ SendNewBlock(p)
      BY <1>e, <1>f, <2>0, <3>2
    <3>3. CASE ReportLoss(p, i)
      <4> DEFINE t == todo[p][i].type
                 n == expected[p][t]
      <4>1. SendTo(Other(p), <<Request(t, n)>>)
        BY <3>3 DEF ReportLoss
      <4>2. t \in Type
        BY <2>0, <3>3, SomeType DEF ReportLoss, Receiving
      <4>3. n \in Nat
        BY <1>0, <4>2 DEF NumberTypes
      <4>4. Request(t, n) \in Packet /\ Request(t, n).kind # "data"
        BY <4>2, <4>3, PacketsMade DEF Request
      <4>5. Request(t, n) \in M[Other(p)]
        BY <1>c, <4>4
      <4> QED
        BY <1>0, <1>3, <1>6, <4>1, <4>5, SendOneHeld DEF HeldIn
    <3>4. \/ UNCHANGED net \/ ReportLoss(p, i)
          \/ Resend(p, todo[p][i]) \/ SendNewBlock(p)
      BY <1>16 DEF Loop, ServerConnecting, ClientConnecting, Answer, DropDuplicate, Process,
                   ReceiveGameOver
    <3> QED
      BY <3>1, <3>2, <3>3, <3>4
  <2> QED
    BY <1>3, <2>1, <2>2 DEF HeldIn
<1>17. ASSUME NEW t \in Type, Send(p, t)
       PROVE  Goal
  <2>1. SendTo(Other(p), <<Data(t, seqNo[p][t])>>) /\ UNCHANGED <<queue, raw, todo>>
        /\ seqNo' = [seqNo EXCEPT ![p][t] = @ + 1]
    BY <1>17 DEF Send
  <2>2. seqNo'[p][t] = seqNo[p][t] + 1
    BY <1>0, <2>1 DEF NumberTypes
  <2>3. seqNo[p][t] < seqNo'[p][t]
    BY <1>d, <2>2
  <2>4. Data(t, seqNo[p][t]) \in M[Other(p)]
    BY <1>b, <1>d, <2>3
  <2> QED
    BY <1>a, <2>1, <2>4
<1>18. CASE AskBlock(p)
  <2> DEFINE n == LatestSequenceNumber(p, "block")
  <2>1. n \in Nat
    BY <1>0, LatestType DEF Type
  <2>2. Request("block", n) \in Packet /\ Request("block", n).kind # "data"
    BY <2>1, PacketsMade DEF Request, Type
  <2>3. SendTo(Other(p), <<Request("block", n)>>) /\ UNCHANGED <<queue, raw, todo>>
    BY <1>18 DEF AskBlock
  <2> HIDE DEF n
  <2> QED
    BY <1>a, <1>c, <2>2, <2>3
<1>19. CASE LoseGame(p)
  <2> DEFINE user == IF p = Loser THEN "puzzleUserLayer1" ELSE "puzzleUserLayer2"
  <2>1. GameOver(user) \in Packet /\ GameOver(user).kind # "data"
    BY PacketsMade DEF GameOver, UserLayer
  <2>2. SendTo(Other(p), <<GameOver(user)>>) /\ UNCHANGED <<queue, raw, todo>>
    BY <1>19 DEF LoseGame
  <2> HIDE DEF user
  <2> QED
    BY <1>a, <1>c, <2>1, <2>2
<1> QED
  BY <1>5, <1>7, <1>8, <1>9, <1>10, <1>11, <1>12, <1>13, <1>14, <1>15, <1>16, <1>17, <1>18,
     <1>19 DEF Handle

\* Whatever the channel loses, repeats or reorders, a peer never has, and is never
\* sent, a data packet of a number its opponent has not reached: resent packets come
\* from transmissionData_, and a request for a block ahead of it makes the next one.
THEOREM NothingIsInvented == Spec => []NothingInvented
<1>1. Init => NothingInvented
  BY NoneOf DEF Init, NothingInvented, HeldIn, OfPeers
<1>2. TypeOK /\ NothingInvented /\ [Next]_vars => NothingInvented'
  <2>1. CASE UNCHANGED vars
    BY <2>1 DEF vars, loopVars, dataVars, NothingInvented, HeldIn, OfPeers, Genuine
  <2> QED
    BY <2>1, NothingInventedKept
<1> QED
  BY <1>1, <1>2, TypeCorrect, PTL DEF Spec

--------------------------------------------------------------------------------
(* Ordered delivery: what a step of the protocol is to OrderedDelivery.          *)

LEMMA OthersDiffer == \A p \in Peer : /\ Other(p) # p /\ Other(Other(p)) = p
                                      /\ \A q \in Peer : q = p \/ q = Other(p)
  BY DEF Peer, Other

\* Packets of one type are sent.
LEMMA SendingDelivers ==
  ASSUME NumberTypes, NumberTypes', NEW p \in Peer, NEW t \in Type, NEW n \in 1..3,
         UNCHANGED received,
         \A q \in Peer, u \in Type :
            seqNo'[q][u] = IF q = p /\ u = t THEN seqNo[q][u] + n ELSE seqNo[q][u]
  PROVE  [Delivery!Next]_(Delivery!vars)
<1> DEFINE out == [r \in Peer |-> [u \in Promised |-> seqNo[Other(r)][u]]]
           log == [r \in Peer |-> [u \in Promised |-> received[r][u]]]
<1>0. Promised \subseteq Type /\ \A q \in Peer : Other(q) \in Peer /\ Other(Other(q)) = q
  BY PuzzleINetAssumption, PeerPair, OthersDiffer
<1>1. UNCHANGED log
  OBVIOUS
<1>2. CASE t \notin Promised
  <2>1. \A q \in Peer, u \in Promised : seqNo'[q][u] = seqNo[q][u]
    BY <1>0, <1>2
  <2>2. UNCHANGED out
    BY <1>0, <2>1
  <2> QED
    BY <1>1, <2>2 DEF Delivery!vars
<1>3. CASE t \in Promised
  <2> DEFINE r == Other(p)
  <2>1. r \in Peer /\ Other(r) = p
    BY <1>0
  <2>2. \A q \in Peer, u \in Promised :
           out'[q][u] = IF q = r /\ u = t THEN out[q][u] + n ELSE out[q][u]
    BY <1>0, <2>1
  <2>3. out' = [out EXCEPT ![r][t] = @ + n]
    <3>1. out' = [q \in Peer |-> [u \in Promised |-> out'[q][u]]]
          /\ out = [q \in Peer |-> [u \in Promised |-> out[q][u]]]
      OBVIOUS
    <3> HIDE DEF out, r
    <3> QED
      BY <1>3, <2>1, <2>2, <3>1
  <2>4. Delivery!Send(r, t)
    BY <1>1, <2>3 DEF Delivery!Send
  <2> QED
    BY <1>3, <2>1, <2>4 DEF Delivery!Next
<1> QED
  BY <1>2, <1>3

\* A packet of a type that nothing is promised about is processed.
LEMMA OtherwiseProcessed ==
  ASSUME NumberTypes, NEW p \in Peer, NEW t \in Type \ Promised, NEW x, UNCHANGED seqNo,
         received' = [received EXCEPT ![p][t] = x]
  PROVE  UNCHANGED Delivery!vars
<1>0. Promised \subseteq Type /\ received \in [Peer -> [Type -> Seq(Nat)]]
  BY PuzzleINetAssumption DEF NumberTypes
<1>1. received'[p] = [received[p] EXCEPT ![t] = x]
  BY <1>0
<1>2. \A q \in Peer, u \in Promised : received'[q][u] = received[q][u]
  BY <1>0, <1>1
<1> QED
  BY <1>2 DEF Delivery!vars

\* The next packet of one type is processed.
LEMMA ProcessingDelivers ==
  ASSUME NumberTypes, NEW p \in Peer, NEW t \in Type,
         Len(received[p][t]) < seqNo[Other(p)][t], UNCHANGED seqNo,
         received' = [received EXCEPT ![p][t] = Append(@, Len(@))]
  PROVE  [Delivery!Next]_(Delivery!vars)
<1> DEFINE out == [r \in Peer |-> [u \in Promised |-> seqNo[Other(r)][u]]]
           log == [r \in Peer |-> [u \in Promised |-> received[r][u]]]
           longer == Append(received[p][t], Len(received[p][t]))
<1>0. Promised \subseteq Type /\ received \in [Peer -> [Type -> Seq(Nat)]]
  BY PuzzleINetAssumption DEF NumberTypes
<1>1. CASE t \notin Promised
  <2>1. received' = [received EXCEPT ![p][t] = longer]
    OBVIOUS
  <2> HIDE DEF longer
  <2> QED
    BY <1>1, <2>1, OtherwiseProcessed
<1>2. CASE t \in Promised
  <2>1. UNCHANGED out
    OBVIOUS
  <2>2. received' = [received EXCEPT ![p][t] = longer]
    OBVIOUS
  <2>3. \A r \in Peer, u \in Type :
           received'[r][u] = IF r = p /\ u = t THEN longer ELSE received[r][u]
    <3> HIDE DEF longer
    <3>1. received'[p] = [received[p] EXCEPT ![t] = longer]
      BY <1>0, <2>2
    <3>2. \A r \in Peer \ {p} : received'[r] = received[r]
      BY <1>0, <2>2
    <3> QED
      BY <1>0, <3>1, <3>2
  <2>4. \A r \in Peer, u \in Promised :
           log'[r][u] = IF r = p /\ u = t THEN longer ELSE log[r][u]
    BY <1>0, <1>2, <2>3
  <2>5. longer = Append(log[p][t], Len(log[p][t]))
    BY <1>2
  <2>6. log' = [log EXCEPT ![p][t] = Append(@, Len(@))]
    <3>1. log' = [r \in Peer |-> [u \in Promised |-> log'[r][u]]]
          /\ log = [r \in Peer |-> [u \in Promised |-> log[r][u]]]
      OBVIOUS
    <3>2. log' = [log EXCEPT ![p][t] = longer]
      <4> HIDE DEF log, longer
      <4> QED
        BY <1>2, <2>4, <3>1
    <3> QED
      BY <2>5, <3>2
  <2>7. Len(log[p][t]) < out[p][t]
    BY <1>2
  <2>8. Delivery!Process(p, t)
    BY <2>1, <2>6, <2>7 DEF Delivery!Process
  <2> QED
    BY <1>2, <2>8 DEF Delivery!Next
<1> QED
  BY <1>1, <1>2

LEMMA NothingDelivered == Init => Delivery!Init
<1>1. Promised \subseteq Type
  BY PuzzleINetAssumption
<1> QED
  BY <1>1, PeerPair DEF Init, Delivery!Init

\* The steps that process a packet.
LEMMA WhoProcesses ==
  ASSUME TypeOK, Next
  PROVE  \/ UNCHANGED received
         \/ \E i \in 1..Len(todo["client"]) : ClientConnecting(i)
         \/ \E p \in Peer : \E i \in 1..Len(todo[p]) : Process(p, i)
<1> DEFINE Goal == \/ UNCHANGED received
                   \/ \E i \in 1..Len(todo["client"]) : ClientConnecting(i)
                   \/ \E p \in Peer : \E i \in 1..Len(todo[p]) : Process(p, i)
<1> USE DEF dataVars
<1>1. PICK p \in Peer :
        \/ Open(p) \/ Deliver(p) \/ Lose(p) \/ Duplicate(p) \/ Handle(p)
        \/ \E t \in Type : Send(p, t)
        \/ AskBlock(p) \/ LoseGame(p)
  BY DEF Next
<1>2. CASE \/ Open(p) \/ Deliver(p) \/ Lose(p) \/ Duplicate(p) \/ AskBlock(p) \/ LoseGame(p)
           \/ \E t \in Type : Send(p, t)
  BY <1>2 DEF Open, Deliver, Lose, Duplicate, AskBlock, LoseGame, Send
<1>3. CASE ServerConnects \/ ServerConnected \/ ClientConnects \/ ClientConnected
  BY <1>3 DEF ServerConnects, ServerConnected, ClientConnects, ClientConnected
<1>4. CASE OnInitialize(p) \/ OnReceived(p) \/ Received(p)
  BY <1>4 DEF OnInitialize, OnReceived, Received
<1>5. ASSUME NEW i \in 1..Len(todo[p]), Loop(p, i)
      PROVE  Goal
  <2>1. CASE \/ p = "server" /\ ServerConnecting(i)
             \/ Answer(p, i) \/ DropDuplicate(p, i) \/ ReportLoss(p, i) \/ ReceiveGameOver(p, i)
    BY <2>1 DEF ServerConnecting, Answer, DropDuplicate, ReportLoss, ReceiveGameOver
  <2>2. CASE p = "client" /\ ClientConnecting(i)
    BY <2>2
  <2>3. CASE Process(p, i)
    BY <2>3
  <2> QED
    BY <1>5, <2>1, <2>2, <2>3 DEF Loop
<1> QED
  BY <1>1, <1>2, <1>3, <1>4, <1>5 DEF Handle

\* Whatever the channel loses, repeats or reorders, PuzzleINet implements the ordered
\* delivery of the moves: no step processes a move out of turn, twice, or one that was
\* not made.  (The client takes initial blocks in any order, and prevSeqOjama lags, so
\* blocks and ojama packets are promised on the channel of the plugin only.)
THEOREM DeliversMoves == ASSUME Promised \subseteq {"input"} PROVE Spec => ImplementsDelivery
<1>1. /\ TypeOK /\ TypeOK' /\ InputInv /\ NothingInvented /\ [Next]_vars
      => [Delivery!Next]_(Delivery!vars)
  <2> SUFFICES ASSUME TypeOK, TypeOK', InputInv, NothingInvented, [Next]_vars
               PROVE  [Delivery!Next]_(Delivery!vars)
    OBVIOUS
  <2>0. NumberTypes /\ NumberTypes' /\ PacketTypes
    BY DEF TypeOK
  <2>1. ASSUME UNCHANGED <<seqNo, received>>
        PROVE  UNCHANGED Delivery!vars
    BY <2>1 DEF Delivery!vars
  <2>2. CASE UNCHANGED vars
    BY <2>1, <2>2 DEF vars, dataVars
  <2>3. ASSUME Next, UNCHANGED received
        PROVE  [Delivery!Next]_(Delivery!vars)
    <3>1. ASSUME NEW p \in Peer, NEW t \in Type, NEW n \in 1..3,
                 seqNo' = [seqNo EXCEPT ![p][t] = @ + n]
          PROVE  [Delivery!Next]_(Delivery!vars)
      <4>1. n \in Nat
        OBVIOUS
      <4>2. \A q \in Peer, u \in Type :
               seqNo'[q][u] = IF q = p /\ u = t THEN seqNo[q][u] + n ELSE seqNo[q][u]
        BY <2>0, <3>1, <4>1, MoreSent
      <4> QED
        BY <2>0, <2>3, <4>2, SendingDelivers
    <3> QED
      BY <2>1, <2>3, <3>1, SeqNoGrows
  <2>4. ASSUME NEW i \in 1..Len(todo["client"]), ClientConnecting(i)
        PROVE  [Delivery!Next]_(Delivery!vars)
    <3>1. UNCHANGED seqNo /\ "client" \in Peer /\ "block" \in Type \ Promised
      BY <2>4 DEF ClientConnecting, Peer, Type
    <3>2. ASSUME NEW x, received' = [received EXCEPT !["client"]["block"] = x]
          PROVE  UNCHANGED Delivery!vars
      BY <2>0, <3>1, <3>2, OtherwiseProcessed
    <3>3. \/ UNCHANGED received
          \/ received' = [received EXCEPT !["client"]["block"] =
                             Append(received["client"]["block"], todo["client"][i].sequence)]
      BY <2>4 DEF ClientConnecting
    <3> QED
      BY <2>1, <3>1, <3>2, <3>3
  <2>5. ASSUME NEW p \in Peer, NEW i \in 1..Len(todo[p]), Process(p, i)
        PROVE  [Delivery!Next]_(Delivery!vars)
    <3> DEFINE t == todo[p][i].type
               n == todo[p][i].sequence
    <3>1. /\ received' = [received EXCEPT ![p][t] = Append(received[p][t], n)]
          /\ UNCHANGED seqNo
          /\ n = expected[p][t]
          /\ phase[p] = "receiving"
          /\ todo[p][i].kind = "data"
      BY <2>5 DEF Process, Receiving
    <3>2. t \in Type
      BY <2>0, <3>1, LoopPacket, SomeType
    <3>3. n < seqNo[Other(p)][t]
      <4>1. todo[p] \in Seq(Genuine(p))
        BY DEF NothingInvented, HeldIn, OfPeers
      <4>2. todo[p][i] \in Genuine(p)
        BY <4>1, ElementOfSeq
      <4> QED
        BY <3>1, <4>2 DEF Genuine
    <3> HIDE DEF t, n
    <3>4. CASE t \notin Promised
      <4>1. UNCHANGED seqNo /\ t \in Type \ Promised
        BY <3>1, <3>2, <3>4
      <4>2. ASSUME NEW x, received' = [received EXCEPT ![p][t] = x]
            PROVE  UNCHANGED Delivery!vars
        BY <2>0, <4>1, <4>2, OtherwiseProcessed
      <4> QED
        BY <3>1, <4>2
    <3>5. CASE t = "input"
      <4>1. n = Len(received[p][t])
        BY <3>1, <3>5 DEF InputInv
      <4>2. received' = [received EXCEPT ![p][t] = Append(@, Len(@))]
        BY <3>1, <4>1
      <4> QED
        BY <2>0, <3>1, <3>2, <3>3, <4>1, <4>2, ProcessingDelivers
    <3> QED
      BY <3>4, <3>5
  <2> QED
    BY <2>2, <2>3, <2>4, <2>5, WhoProcesses
<1> QED
  BY <1>1, NothingDelivered, MovesHold, NothingIsInvented, TypeCorrect, PTL
  DEF Spec, ImplementsDelivery, Delivery!Spec

--------------------------------------------------------------------------------
(* The channel the plugin opens, createDataChannel without options, is ordered and *)
(* reliable.  On it every packet to a peer is in one line: what is in rawData_, in  *)
(* the running loop, in the queue of the socket and under way, in this order.      *)

Reliable == Ordered /\ MaxLost = 0 /\ MaxDuplicated = 0

Line(r, d, q, n) == ((r \o d) \o q) \o n
Around(p) == Line(raw[p], todo[p], queue[p], net[p])

LEMMA LineType ==
  ASSUME NEW S, NEW r \in Seq(S), NEW d \in Seq(S), NEW q \in Seq(S), NEW n \in Seq(S)
  PROVE  Line(r, d, q, n) \in Seq(S)
<1>1. (r \o d) \o q \in Seq(S)
  BY JoinOf
<1> QED
  BY <1>1, JoinOf DEF Line

LEMMA LineMoved ==
  ASSUME NEW S, NEW r \in Seq(S), NEW d \in Seq(S), NEW q \in Seq(S), NEW x \in Seq(S),
         NEW y \in Seq(S)
  PROVE  Line(r, d, q \o x, y) = Line(r, d, q, x \o y)
<1> DEFINE b == r \o d
           c == b \o q
<1>1. b \in Seq(S)
  BY JoinOf
<1> HIDE DEF b
<1>2. b \o (q \o x) = c \o x
  BY <1>1
<1>3. c \in Seq(S)
  BY <1>1, JoinOf
<1> HIDE DEF c
<1>4. (c \o x) \o y = c \o (x \o y)
  BY <1>3
<1> QED
  BY <1>2, <1>4 DEF Line, b, c

\* Delivery of the first message under way leaves the line as it is.
LEMMA LineDelivered ==
  ASSUME NEW S, NEW r \in Seq(S), NEW d \in Seq(S), NEW q \in Seq(S), NEW n \in Seq(S),
         1 \in 1..Len(n)
  PROVE  Line(r, d, Append(q, n[1]), Without(n, 1)) = Line(r, d, q, n)
<1>1. Len(n) \in Nat /\ n[1] \in S
  BY LenProperties, ElementOfSeq
<1>2. \A i \in 2..Len(n) : n[i] \in S
  BY <1>1, ElementOfSeq
<1> DEFINE first == <<n[1]>>
           rest == SubSeq(n, 2, Len(n))
<1>3. rest \in Seq(S) /\ first \in Seq(S)
  BY <1>1, <1>2, SubSeqProperties
<1>4. SubSeq(n, 1, 0) = <<>>
  BY SubSeqEmpty
<1>5. Without(n, 1) = rest
  <2>1. Without(n, 1) = SubSeq(n, 1, 1 - 1) \o SubSeq(n, 1 + 1, Len(n))
    BY DEF Without
  <2>2. 1 - 1 = 0 /\ 1 + 1 = 2
    OBVIOUS
  <2>3. Without(n, 1) = <<>> \o rest
    BY <1>4, <2>1, <2>2
  <2> QED
    BY <1>3, <2>3, ConcatEmptySeq
<1>6. n = first \o rest
  <2>1. SubSeq(n, 1, Len(n)) = <<n[1]>> \o SubSeq(n, 1 + 1, Len(n))
    BY <1>1, SubSeqRecursiveFirst
  <2>2. SubSeq(n, 1, Len(n)) = n
    BY SubSeqFull
  <2> QED
    BY <2>1, <2>2
<1>7. Append(q, n[1]) = q \o first
  BY <1>1, AppendIsConcat
<1> HIDE DEF first, rest
<1>8. Line(r, d, q \o first, rest) = Line(r, d, q, first \o rest)
  BY <1>3, LineMoved
<1> QED
  BY <1>5, <1>6, <1>7, <1>8

\* Reading moves the queue into the loop, behind what was in rawData_.
LEMMA LineRead ==
  ASSUME NEW S, NEW r \in Seq(S), NEW q \in Seq(S), NEW n \in Seq(S)
  PROVE  Line(<<>>, r \o q, <<>>, n) = Line(r, <<>>, q, n)
<1>1. r \o q \in Seq(S)
  BY JoinOf
<1>2. <<>> \o (r \o q) = r \o q /\ (r \o q) \o <<>> = r \o q
  BY <1>1, ConcatEmptySeq
<1>3. r \o <<>> = r
  BY ConcatEmptySeq
<1> QED
  BY <1>2, <1>3 DEF Line

\* A loop that ends early leaves what it has not looked at in rawData_.
LEMMA LineLeft ==
  ASSUME NEW S, NEW d \in Seq(S), NEW q \in Seq(S), NEW n \in Seq(S)
  PROVE  Line(d, <<>>, q, n) = Line(<<>>, d, q, n)
  BY ConcatEmptySeq DEF Line

\* What a sequence without its i-th element is.
LEMMA WithoutProperties ==
  ASSUME NEW S, NEW s \in Seq(S), NEW i \in 1..Len(s)
  PROVE  /\ Without(s, i) \in Seq(S)
         /\ Len(Without(s, i)) = Len(s) - 1
         /\ \A j \in 1..Len(s) - 1 : Without(s, i)[j] = IF j < i THEN s[j] ELSE s[j + 1]
<1>1. Len(s) \in Nat /\ i \in 1..Len(s) /\ i \in Nat
  BY LenProperties
<1> DEFINE a == SubSeq(s, 1, i - 1)
           b == SubSeq(s, i + 1, Len(s))
<1>2. \A j \in 1..Len(s) : s[j] \in S
  BY ElementOfSeq
<1>3. a \in Seq(S) /\ Len(a) = i - 1 /\ \A j \in 1..i - 1 : a[j] = s[j]
  <2>1. \A j \in 1..i - 1 : s[j] \in S
    BY <1>1, <1>2
  <2>2. /\ SubSeq(s, 1, i - 1) \in Seq(S)
        /\ Len(SubSeq(s, 1, i - 1)) = IF 1 <= i - 1 THEN i - 1 - 1 + 1 ELSE 0
        /\ \A j \in 1..(i - 1) - 1 + 1 : SubSeq(s, 1, i - 1)[j] = s[1 + j - 1]
    BY <1>1, <2>1, SubSeqProperties
  <2> QED
    BY <1>1, <2>2
<1>4. b \in Seq(S) /\ Len(b) = Len(s) - i /\ \A j \in 1..Len(s) - i : b[j] = s[i + j]
  <2>1. \A j \in i + 1..Len(s) : s[j] \in S
    BY <1>1, <1>2
  <2>2. /\ SubSeq(s, i + 1, Len(s)) \in Seq(S)
        /\ Len(SubSeq(s, i + 1, Len(s))) = IF i + 1 <= Len(s) THEN Len(s) - (i + 1) + 1 ELSE 0
        /\ \A j \in 1..Len(s) - (i + 1) + 1 : SubSeq(s, i + 1, Len(s))[j] = s[(i + 1) + j - 1]
    BY <1>1, <2>1, SubSeqProperties
  <2> QED
    BY <1>1, <2>2
<1>5. Without(s, i) = a \o b
  BY DEF Without
<1> HIDE DEF a, b
<1>6. /\ a \o b \in Seq(S)
      /\ Len(a \o b) = Len(a) + Len(b)
      /\ \A j \in 1..Len(a) + Len(b) : (a \o b)[j] = IF j <= Len(a) THEN a[j] ELSE b[j - Len(a)]
  BY <1>3, <1>4, ConcatProperties
<1> QED
  BY <1>1, <1>3, <1>4, <1>5, <1>6

\* Taking an element out of the first of two sequences takes it out of both.
LEMMA WithoutJoined ==
  ASSUME NEW S, NEW d \in Seq(S), NEW t \in Seq(S), NEW i \in 1..Len(d)
  PROVE  /\ i \in 1..Len(d \o t) /\ (d \o t)[i] = d[i]
         /\ Without(d, i) \o t = Without(d \o t, i)
<1> DEFINE e == Without(d, i)
<1>1. Len(d) \in Nat /\ i \in Nat /\ Len(t) \in Nat
  BY LenProperties
<1>2. /\ e \in Seq(S) /\ Len(e) = Len(d) - 1
      /\ \A j \in 1..Len(d) - 1 : e[j] = IF j < i THEN d[j] ELSE d[j + 1]
  BY WithoutProperties
<1> HIDE DEF e
<1>3. /\ d \o t \in Seq(S) /\ Len(d \o t) = Len(d) + Len(t)
      /\ \A j \in 1..Len(d) + Len(t) : (d \o t)[j] = IF j <= Len(d) THEN d[j] ELSE t[j - Len(d)]
  BY <1>1, ConcatProperties
<1>4. /\ e \o t \in Seq(S) /\ Len(e \o t) = Len(e) + Len(t)
      /\ \A j \in 1..Len(e) + Len(t) : (e \o t)[j] = IF j <= Len(e) THEN e[j] ELSE t[j - Len(e)]
  BY <1>1, <1>2, ConcatProperties
<1>5. i \in 1..Len(d \o t) /\ (d \o t)[i] = d[i]
  BY <1>1, <1>3
<1>6. /\ Without(d \o t, i) \in Seq(S) /\ Len(Without(d \o t, i)) = Len(d \o t) - 1
      /\ \A j \in 1..Len(d \o t) - 1 :
            Without(d \o t, i)[j] = IF j < i THEN (d \o t)[j] ELSE (d \o t)[j + 1]
  BY <1>3, <1>5, WithoutProperties
<1>7. \A j \in 1..Len(e \o t) : (e \o t)[j] = Without(d \o t, i)[j]
  <2> SUFFICES ASSUME NEW j \in 1..Len(e \o t)
               PROVE  (e \o t)[j] = Without(d \o t, i)[j]
    OBVIOUS
  <2>1. j \in Nat /\ j >= 1 /\ j <= Len(d) - 1 + Len(t)
    BY <1>1, <1>2, <1>4
  <2>2. CASE j <= Len(d) - 1
    BY <1>1, <1>2, <1>3, <1>4, <1>6, <2>1, <2>2
  <2>3. CASE j > Len(d) - 1
    BY <1>1, <1>2, <1>3, <1>4, <1>6, <2>1, <2>3
  <2> QED
    BY <1>1, <2>1, <2>2, <2>3
<1>8. Len(e \o t) = Len(Without(d \o t, i))
  BY <1>1, <1>2, <1>3, <1>4, <1>6
<1>9. e \o t = Without(d \o t, i)
  BY <1>4, <1>6, <1>7, <1>8, SeqEqual
<1> QED
  BY <1>5, <1>9 DEF e

\* A packet taken out of the loop is taken out of the line.
LEMMA LineDropped ==
  ASSUME NEW S, NEW d \in Seq(S), NEW q \in Seq(S), NEW n \in Seq(S), NEW i \in 1..Len(d)
  PROVE  /\ i \in 1..Len(Line(<<>>, d, q, n))
         /\ Line(<<>>, d, q, n)[i] = d[i]
         /\ Line(<<>>, Without(d, i), q, n) = Without(Line(<<>>, d, q, n), i)
<1> DEFINE e == Without(d, i)
           t == q \o n
<1>1. t \in Seq(S)
  BY JoinOf
<1>2. e \in Seq(S)
  BY WithoutProperties
<1>3. Line(<<>>, d, q, n) = d \o t /\ Line(<<>>, e, q, n) = e \o t
  <2>1. <<>> \o d = d /\ <<>> \o e = e
    BY <1>2, ConcatEmptySeq
  <2> HIDE DEF e
  <2>2. (d \o q) \o n = d \o (q \o n)
    OBVIOUS
  <2>3. (e \o q) \o n = e \o (q \o n)
    BY <1>2
  <2> QED
    BY <2>1, <2>2, <2>3 DEF Line
<1> HIDE DEF t
<1>4. i \in 1..Len(d \o t) /\ (d \o t)[i] = d[i] /\ e \o t = Without(d \o t, i)
  BY <1>1, WithoutJoined
<1> QED
  BY <1>3, <1>4 DEF e

\* The data packets of a type in a line, where next is the number to be processed next
\* and end that of the next one to be sent: repeats are of settled numbers, and every
\* other packet is there once, in the order of the numbers.
IsData(packet, t) == packet.kind = "data" /\ packet.type = t

Numbered(s, t, next, end, settled) ==
  \A i \in 1..Len(s) :
     IsData(s[i], t) => s[i].sequence < settled \/ s[i].sequence \in next..end - 1

Rising(s, t, next) ==
  \A i, j \in 1..Len(s) :
     /\ i < j
     /\ IsData(s[i], t) /\ IsData(s[j], t)
     /\ s[i].sequence >= next /\ s[j].sequence >= next
     => s[i].sequence < s[j].sequence

Whole(s, t, next, end) ==
  \A n \in next..end - 1 : \E i \in 1..Len(s) : IsData(s[i], t) /\ s[i].sequence = n

InLine(s, t, next, end, settled) ==
  Numbered(s, t, next, end, settled) /\ Rising(s, t, next) /\ Whole(s, t, next, end)

\* A packet that is no data of the type, or a repeat, changes nothing for the type.
LEMMA OtherJoins ==
  ASSUME NEW s \in Seq(Packet), NEW x \in Packet, NEW t, NEW next \in Nat, NEW end \in Nat,
         NEW settled \in Nat, settled <= next, InLine(s, t, next, end, settled),
         IsData(x, t) => x.sequence < settled
  PROVE  InLine(s \o <<x>>, t, next, end, settled)
<1> DEFINE u == s \o <<x>>
<1>1. /\ Len(s) \in Nat /\ Len(u) = Len(s) + 1
      /\ \A i \in 1..Len(s) : u[i] = s[i]
      /\ u[Len(s) + 1] = x
  BY LenProperties
<1>2. \A i \in 1..Len(s) : s[i].sequence \in Nat
  BY ElementOfSeq, SomeType
<1>3. x.sequence \in Nat
  BY SomeType
<1> HIDE DEF u
<1>4. Numbered(u, t, next, end, settled)
  BY <1>1 DEF InLine, Numbered
<1>5. Rising(u, t, next)
  <2> SUFFICES ASSUME NEW i \in 1..Len(u), NEW j \in 1..Len(u), i < j,
                      IsData(u[i], t), IsData(u[j], t), u[i].sequence >= next,
                      u[j].sequence >= next
               PROVE  u[i].sequence < u[j].sequence
    BY DEF Rising
  <2>1. j # Len(s) + 1
    BY <1>1, <1>3
  <2>2. i \in 1..Len(s) /\ j \in 1..Len(s) /\ u[i] = s[i] /\ u[j] = s[j]
    BY <1>1, <2>1
  <2> QED
    BY <2>2 DEF InLine, Rising
<1>6. Whole(u, t, next, end)
  <2> SUFFICES ASSUME NEW n \in next..end - 1
               PROVE  \E i \in 1..Len(u) : IsData(u[i], t) /\ u[i].sequence = n
    BY DEF Whole
  <2>1. PICK i \in 1..Len(s) : IsData(s[i], t) /\ s[i].sequence = n
    BY DEF InLine, Whole
  <2>2. i \in 1..Len(u) /\ u[i] = s[i]
    BY <1>1
  <2> QED
    BY <2>1, <2>2
<1> QED
  BY <1>4, <1>5, <1>6 DEF InLine, u

\* A packet with the next number to be sent.
LEMMA NextJoins ==
  ASSUME NEW s \in Seq(Packet), NEW x \in Packet, NEW t, NEW next \in Nat, NEW end \in Nat,
         NEW settled \in Nat, settled <= next, next <= end, InLine(s, t, next, end, settled),
         IsData(x, t), x.sequence = end
  PROVE  InLine(s \o <<x>>, t, next, end + 1, settled)
<1> DEFINE u == s \o <<x>>
<1>1. /\ Len(s) \in Nat /\ Len(u) = Len(s) + 1
      /\ \A i \in 1..Len(s) : u[i] = s[i]
      /\ u[Len(s) + 1] = x
  BY LenProperties
<1>2. \A i \in 1..Len(s) : s[i].sequence \in Nat
  BY ElementOfSeq, SomeType
<1> HIDE DEF u
<1>3. \A i \in 1..Len(s) : IsData(s[i], t) /\ s[i].sequence >= next => s[i].sequence < end
  BY <1>2 DEF InLine, Numbered
<1>4. Numbered(u, t, next, end + 1, settled)
  <2> SUFFICES ASSUME NEW i \in 1..Len(u), IsData(u[i], t)
               PROVE  u[i].sequence < settled \/ u[i].sequence \in next..(end + 1) - 1
    BY DEF Numbered
  <2>1. CASE i = Len(s) + 1
    BY <1>1, <2>1
  <2>2. CASE i # Len(s) + 1
    <3>1. i \in 1..Len(s) /\ u[i] = s[i]
      BY <1>1, <2>2
    <3>2. s[i].sequence < settled \/ s[i].sequence \in next..end - 1
      BY <3>1 DEF InLine, Numbered
    <3> QED
      BY <3>1, <3>2
  <2> QED
    BY <2>1, <2>2
<1>5. Rising(u, t, next)
  <2> SUFFICES ASSUME NEW i \in 1..Len(u), NEW j \in 1..Len(u), i < j,
                      IsData(u[i], t), IsData(u[j], t), u[i].sequence >= next,
                      u[j].sequence >= next
               PROVE  u[i].sequence < u[j].sequence
    BY DEF Rising
  <2>1. i \in 1..Len(s) /\ u[i] = s[i]
    BY <1>1
  <2>2. CASE j = Len(s) + 1
    BY <1>1, <1>3, <2>1, <2>2
  <2>3. CASE j # Len(s) + 1
    <3>1. j \in 1..Len(s) /\ u[j] = s[j]
      BY <1>1, <2>3
    <3> QED
      BY <2>1, <3>1 DEF InLine, Rising
  <2> QED
    BY <2>2, <2>3
<1>6. Whole(u, t, next, end + 1)
  <2> SUFFICES ASSUME NEW n \in next..(end + 1) - 1
               PROVE  \E i \in 1..Len(u) : IsData(u[i], t) /\ u[i].sequence = n
    BY DEF Whole
  <2>1. CASE n = end
    <3>1. Len(s) + 1 \in 1..Len(u) /\ u[Len(s) + 1] = x
      BY <1>1
    <3> QED
      BY <2>1, <3>1
  <2>2. CASE n # end
    <3>1. n \in next..end - 1
      BY <2>2
    <3>2. PICK i \in 1..Len(s) : IsData(s[i], t) /\ s[i].sequence = n
      BY <3>1 DEF InLine, Whole
    <3>3. i \in 1..Len(u) /\ u[i] = s[i]
      BY <1>1
    <3> QED
      BY <3>2, <3>3
  <2> QED
    BY <2>1, <2>2
<1> QED
  BY <1>4, <1>5, <1>6 DEF InLine, u

\* All elements of s but the i-th, in their order.
Skips(s, u, i) ==
  \E old \in [1..Len(u) -> 1..Len(s)] :
     /\ \A j \in 1..Len(u) : old[j] # i /\ u[j] = s[old[j]]
     /\ \A j, k \in 1..Len(u) : j < k => old[j] < old[k]
     /\ \A k \in 1..Len(s) : k # i => \E j \in 1..Len(u) : old[j] = k

LEMMA WithoutSkips ==
  ASSUME NEW S, NEW s \in Seq(S), NEW i \in 1..Len(s)
  PROVE  Skips(s, Without(s, i), i)
<1> DEFINE u == Without(s, i)
<1>0. /\ Len(u) = Len(s) - 1
      /\ \A j \in 1..Len(s) - 1 : u[j] = IF j < i THEN s[j] ELSE s[j + 1]
  BY WithoutProperties
<1>1. /\ Len(s) \in Nat /\ i \in Nat /\ Len(u) = Len(s) - 1
      /\ \A j \in 1..Len(u) : u[j] = IF j < i THEN s[j] ELSE s[j + 1]
  BY <1>0, LenProperties
<1> HIDE DEF u
<1> DEFINE old == [j \in 1..Len(u) |-> IF j < i THEN j ELSE j + 1]
<1>2. old \in [1..Len(u) -> 1..Len(s)] /\ \A j \in 1..Len(u) : old[j] # i /\ u[j] = s[old[j]]
  BY <1>1
<1>3. \A j, k \in 1..Len(u) : j < k => old[j] < old[k]
  BY <1>1
<1>4. ASSUME NEW k \in 1..Len(s), k # i
      PROVE  \E j \in 1..Len(u) : old[j] = k
  <2>1. CASE k < i
    BY <1>1, <2>1
  <2>2. CASE k > i
    <3>1. k - 1 \in 1..Len(u) /\ old[k - 1] = k
      BY <1>1, <2>2
    <3> QED
      BY <3>1
  <2> QED
    BY <1>1, <1>4, <2>1, <2>2
<1> HIDE DEF old
<1> QED
  BY <1>2, <1>3, <1>4 DEF Skips, u

\* A packet that leaves the line without being the next one of the type.
LEMMA OtherLeaves ==
  ASSUME NEW s \in Seq(Packet), NEW i \in 1..Len(s), NEW t, NEW next \in Nat, NEW end \in Nat,
         NEW settled \in Nat, InLine(s, t, next, end, settled), NEW u, Skips(s, u, i),
         IsData(s[i], t) => s[i].sequence < next
  PROVE  InLine(u, t, next, end, settled)
<1>1. \A j \in 1..Len(s) : s[j].sequence \in Nat
  BY ElementOfSeq, SomeType
<1>2. PICK old \in [1..Len(u) -> 1..Len(s)] :
         /\ \A j \in 1..Len(u) : old[j] # i /\ u[j] = s[old[j]]
         /\ \A j, k \in 1..Len(u) : j < k => old[j] < old[k]
         /\ \A k \in 1..Len(s) : k # i => \E j \in 1..Len(u) : old[j] = k
  BY DEF Skips
<1>7. \A j \in 1..Len(u) : old[j] \in 1..Len(s)
  BY <1>2
<1>3. Numbered(u, t, next, end, settled)
  BY <1>2, <1>7 DEF InLine, Numbered
<1>4. Rising(u, t, next)
  <2> SUFFICES ASSUME NEW j \in 1..Len(u), NEW k \in 1..Len(u), j < k,
                      IsData(u[j], t), IsData(u[k], t), u[j].sequence >= next,
                      u[k].sequence >= next
               PROVE  u[j].sequence < u[k].sequence
    BY DEF Rising
  <2> QED
    BY <1>2, <1>7 DEF InLine, Rising
<1>5. Whole(u, t, next, end)
  <2> SUFFICES ASSUME NEW n \in next..end - 1
               PROVE  \E j \in 1..Len(u) : IsData(u[j], t) /\ u[j].sequence = n
    BY DEF Whole
  <2>1. PICK k \in 1..Len(s) : IsData(s[k], t) /\ s[k].sequence = n
    BY DEF InLine, Whole
  <2>2. k # i
    BY <2>1
  <2>3. PICK j \in 1..Len(u) : old[j] = k
    BY <1>2, <1>7, <2>2
  <2> QED
    BY <1>2, <1>7, <2>1, <2>3
<1> QED
  BY <1>3, <1>4, <1>5 DEF InLine

\* The packet to be processed next leaves the line.
LEMMA NextLeaves ==
  ASSUME NEW s \in Seq(Packet), NEW i \in 1..Len(s), NEW t, NEW next \in Nat, NEW end \in Nat,
         NEW settled \in Nat, InLine(s, t, next, end, settled), NEW u, Skips(s, u, i),
         IsData(s[i], t), s[i].sequence = next
  PROVE  InLine(u, t, next + 1, end, settled)
<1>1. \A j \in 1..Len(s) : s[j].sequence \in Nat
  BY ElementOfSeq, SomeType
<1>2. PICK old \in [1..Len(u) -> 1..Len(s)] :
         /\ \A j \in 1..Len(u) : old[j] # i /\ u[j] = s[old[j]]
         /\ \A j, k \in 1..Len(u) : j < k => old[j] < old[k]
         /\ \A k \in 1..Len(s) : k # i => \E j \in 1..Len(u) : old[j] = k
  BY DEF Skips
<1>7. \A j \in 1..Len(u) : old[j] \in 1..Len(s)
  BY <1>2
<1>3. \A k \in 1..Len(s) : k # i /\ IsData(s[k], t) => s[k].sequence # next
  <2> SUFFICES ASSUME NEW k \in 1..Len(s), k # i, IsData(s[k], t), s[k].sequence = next
               PROVE  FALSE
    OBVIOUS
  <2>1. k < i \/ i < k
    OBVIOUS
  <2> QED
    BY <1>1, <2>1 DEF InLine, Rising
<1>4. Numbered(u, t, next + 1, end, settled)
  <2> SUFFICES ASSUME NEW j \in 1..Len(u), IsData(u[j], t)
               PROVE  u[j].sequence < settled \/ u[j].sequence \in next + 1..end - 1
    BY DEF Numbered
  <2>1. PICK k \in 1..Len(s) : k # i /\ u[j] = s[k]
    BY <1>2, <1>7
  <2>2. s[k].sequence < settled \/ s[k].sequence \in next..end - 1
    BY <2>1 DEF InLine, Numbered
  <2>3. s[k].sequence # next /\ s[k].sequence \in Nat
    BY <1>1, <1>3, <2>1
  <2> QED
    BY <2>1, <2>2, <2>3
<1>5. Rising(u, t, next + 1)
  <2> SUFFICES ASSUME NEW j \in 1..Len(u), NEW k \in 1..Len(u), j < k,
                      IsData(u[j], t), IsData(u[k], t), u[j].sequence >= next + 1,
                      u[k].sequence >= next + 1
               PROVE  u[j].sequence < u[k].sequence
    BY DEF Rising
  <2>0. j \in 1..Len(u) /\ k \in 1..Len(u)
    OBVIOUS
  <2>1. /\ old[j] \in 1..Len(s) /\ u[j] = s[old[j]] /\ s[old[j]].sequence \in Nat
        /\ old[k] \in 1..Len(s) /\ u[k] = s[old[k]] /\ s[old[k]].sequence \in Nat
        /\ old[j] < old[k]
    BY <1>1, <1>2, <1>7
  <2>2. s[old[j]].sequence >= next /\ s[old[k]].sequence >= next
    BY <2>1
  <2> QED
    BY <2>1, <2>2 DEF InLine, Rising
<1>6. Whole(u, t, next + 1, end)
  <2> SUFFICES ASSUME NEW n \in next + 1..end - 1
               PROVE  \E j \in 1..Len(u) : IsData(u[j], t) /\ u[j].sequence = n
    BY DEF Whole
  <2>1. n \in next..end - 1 /\ n # next
    OBVIOUS
  <2>2. PICK k \in 1..Len(s) : IsData(s[k], t) /\ s[k].sequence = n
    BY <2>1 DEF InLine, Whole
  <2>3. k # i
    BY <2>1, <2>2
  <2>4. PICK j \in 1..Len(u) : old[j] = k
    BY <1>2, <1>7, <2>3
  <2> QED
    BY <1>2, <1>7, <2>2, <2>4
<1> QED
  BY <1>4, <1>5, <1>6 DEF InLine

\* More numbers are settled when a loop ends.
LEMMA MoreSettled ==
  ASSUME NEW s \in Seq(Packet), NEW t, NEW next \in Nat, NEW end \in Nat,
         NEW settled \in Nat, NEW later \in Nat, settled <= later, InLine(s, t, next, end, settled)
  PROVE  InLine(s, t, next, end, later)
<1>1. \A j \in 1..Len(s) : s[j].sequence \in Nat
  BY ElementOfSeq, SomeType
<1> QED
  BY <1>1 DEF InLine, Numbered

\* The packet with the least number of those the loop has yet to look at: if it is
\* not a repeat, it is the one to be processed next.
LEMMA LeastIsNext ==
  ASSUME NEW s \in Seq(Packet), NEW m \in Nat, m <= Len(s), NEW i \in 1..m, NEW t, NEW next \in Nat,
         NEW end \in Nat, NEW settled \in Nat, InLine(s, t, next, end, settled),
         \A j \in 1..m : s[i].sequence <= s[j].sequence,
         IsData(s[i], t), s[i].sequence >= next, s[i].sequence >= settled
  PROVE  s[i].sequence = next
<1>1. Len(s) \in Nat /\ i \in 1..Len(s)
  BY LenProperties
<1>0. \A j \in 1..Len(s) : s[j].sequence \in Nat
  BY ElementOfSeq, SomeType
<1>2. s[i].sequence \in next..end - 1
  BY <1>0, <1>1 DEF InLine, Numbered
<1> SUFFICES ASSUME s[i].sequence # next
             PROVE  FALSE
  OBVIOUS
<1>3. next \in next..end - 1 /\ next < s[i].sequence
  BY <1>2
<1>4. PICK k \in 1..Len(s) : IsData(s[k], t) /\ s[k].sequence = next
  BY <1>3 DEF InLine, Whole
<1>5. k \notin 1..m
  BY <1>0, <1>1, <1>3, <1>4
<1>6. i < k
  BY <1>1, <1>5
<1>7. s[i].sequence < s[k].sequence
  BY <1>1, <1>2, <1>4, <1>6 DEF InLine, Rising
<1> QED
  BY <1>2, <1>3, <1>4, <1>7
--------------------------------------------------------------------------------
(* The invariant.                                                               *)

\* The inductive invariant of the reliable channel.  A log is as long as the number
\* that is next; prevSeqOjama lags behind within a loop, so an ojama packet counts as
\* settled only when the handler knows it; after the setup a request for a block may
\* make up one that is out of line, so only moves and ojama stay in line.
Members(s) == {s[i] : i \in 1..Len(s)}
Logged(p, t) == Len(received[p][t])
Settled(p, t) ==
  IF t # "ojama" THEN 0
  ELSE IF phase[p] = "receiving" THEN expected[p][t] ELSE Logged(p, t)
Setup == handler["client"] = "onConnectionComplete"
Steady == {"input", "ojama"}
Tracked == IF Setup THEN Type ELSE Steady

Lined ==
  \A p \in Peer, t \in Tracked :
     InLine(Around(p), t, Logged(p, t), seqNo[Other(p)][t], Settled(p, t))

\* Nothing is asked for that was not processed, except blocks.
AskedFor(p, x) ==
  x.kind = "ack" /\ x.type # "block" =>
      x.type \in Steady /\ x.sequence < Settled(Other(p), x.type)
Asked == \A p \in Peer : \A x \in Members(Around(p)) : AskedFor(p, x)

\* Data under way was sent, and so was what is processed.
Bounded ==
  \A p \in Peer : \A x \in Members(Around(p)) :
     x.kind = "data" => x.sequence < seqNo[Other(p)][x.type]
Behind == \A p \in Peer, t \in Type : Logged(p, t) <= seqNo[Other(p)][t]

\* The loops: what the local variables of onReceived say of the logs.
Receives(p) ==
  /\ handler[p] = "onReceived"
  /\ raw[p] = <<>>
  /\ expected[p]["input"] = Logged(p, "input")
  /\ expected[p]["block"] = Logged(p, "block")
  /\ expected[p]["ojama"] <= Logged(p, "ojama")
  /\ Logged(p, "ojama") <= expected[p]["ojama"] + 1
  /\ \A n \in Nat : <<"ojama", n>> \in known[p] <=> n < expected[p]["ojama"]
  /\ \A n \in Nat : <<"input", n>> \in known[p] => n < Logged(p, "input")

LoopOf(p) ==
  /\ phase[p] = "receiving" => Receives(p)
  /\ phase[p] = "idle" => todo[p] = <<>>
  /\ phase[p] = "connecting" => p = "client" /\ handler[p] = "onConnectionComplete"
  /\ handler[p] # "onReceived" => raw[p] = <<>>
  /\ phase[p] # "thrown"

Loops == \A p \in Peer : LoopOf(p)

\* Until the client has its blocks, nothing but them is under way.
InSetup ==
  Setup =>
     /\ handler["server"] = "onConnectionComplete"
     /\ Around("server") = <<>>
     /\ \A x \in Members(Around("client")) : IsData(x, "block")
     /\ \A p \in Peer, t \in Type :
           seqNo[p][t] = IF p = "server" /\ t = "block" /\ initialDone THEN 3 ELSE 0
     /\ initialProcessed = 0..Logged("client", "block") - 1

\* "Creation done." is the first packet the server gets, and the one it waits for.
Created ==
  /\ \A x \in Members(Around("client")) : x.kind # "created"
  /\ \A i \in 1..Len(Around("server")) :
        Around("server")[i].kind = "created" =>
            i = 1 /\ handler["server"] = "onConnectionComplete"
  /\ handler["server"] = "onConnectionComplete" /\ ~Setup =>
        /\ initialDone
        /\ Around("server") # <<>>
        /\ Around("server")[1] = CreationDone

\* Every unread packet has its event; the server pops one packet per event in its
\* setup, so there it has as many events as packets.
Heard ==
  /\ \A p \in Peer :
        /\ p \notin opened =>
              events[p] = 0 /\ handler[p] = "onConnectionComplete" /\ phase[p] = "idle"
        /\ p \in opened /\ queue[p] # <<>> => events[p] > 0
        /\ handler[p] = "onInitialize" => events[p] > 0 /\ (queue[p] # <<>> => events[p] > 1)
  /\ "server" \in opened /\ handler["server"] = "onConnectionComplete" =>
        events["server"] >= Len(queue["server"])
  /\ initialDone => "server" \in opened

LinesInv == Lined /\ Asked /\ Bounded /\ Behind /\ AllInOrder
ControlInv == Loops /\ InSetup /\ Created /\ Heard
ReliableInv == LinesInv /\ ControlInv

LEMMA LineOfPackets ==
  ASSUME PacketTypes, NEW p \in Peer
  PROVE  /\ raw[p] \in Seq(Packet) /\ todo[p] \in Seq(Packet)
         /\ queue[p] \in Seq(Packet) /\ net[p] \in Seq(Packet)
         /\ Around(p) \in Seq(Packet)
<1>1. /\ raw[p] \in Seq(Packet) /\ todo[p] \in Seq(Packet)
      /\ queue[p] \in Seq(Packet) /\ net[p] \in Seq(Packet)
  BY DEF PacketTypes
<1> QED
  BY <1>1, LineType DEF Around

LEMMA NumbersOf ==
  ASSUME NumberTypes, NEW p \in Peer, NEW t \in Type
  PROVE  /\ Logged(p, t) \in Nat /\ seqNo[p][t] \in Nat /\ expected[p][t] \in Nat
         /\ Settled(p, t) \in Nat
         /\ received[p][t] \in Seq(Nat)
<1>1. received[p][t] \in Seq(Nat) /\ seqNo[p][t] \in Nat /\ expected[p][t] \in Nat
  BY DEF NumberTypes
<1> QED
  BY <1>1, LenProperties DEF Logged, Settled

LEMMA MembersType ==
  ASSUME NEW S, NEW s \in Seq(S)
  PROVE  Members(s) \subseteq S
  BY ElementOfSeq DEF Members

LEMMA MembersJoin ==
  ASSUME NEW S, NEW s \in Seq(S), NEW x \in S
  PROVE  Members(s \o <<x>>) = Members(s) \cup {x}
<1> DEFINE u == s \o <<x>>
<1>1. /\ Len(s) \in Nat /\ Len(u) = Len(s) + 1
      /\ \A i \in 1..Len(s) : u[i] = s[i]
      /\ u[Len(s) + 1] = x
  BY LenProperties
<1> HIDE DEF u
<1>2. ASSUME NEW y \in Members(u)
      PROVE  y \in Members(s) \cup {x}
  <2>1. PICK i \in 1..Len(u) : y = u[i]
    BY DEF Members
  <2>2. CASE i = Len(s) + 1
    BY <1>1, <2>1, <2>2
  <2>3. CASE i # Len(s) + 1
    <3>1. i \in 1..Len(s)
      BY <1>1, <2>3
    <3> QED
      BY <1>1, <2>1, <3>1 DEF Members
  <2> QED
    BY <2>2, <2>3
<1>3. ASSUME NEW y \in Members(s)
      PROVE  y \in Members(u)
  <2>1. PICK i \in 1..Len(s) : y = s[i]
    BY <1>3 DEF Members
  <2>2. i \in 1..Len(u) /\ u[i] = y
    BY <1>1, <2>1
  <2> QED
    BY <2>2 DEF Members
<1>4. x \in Members(u)
  <2>1. Len(s) + 1 \in 1..Len(u)
    BY <1>1
  <2> QED
    BY <1>1, <2>1 DEF Members
<1> QED
  BY <1>2, <1>3, <1>4 DEF u

LEMMA MembersLeave ==
  ASSUME NEW S, NEW s \in Seq(S), NEW i \in 1..Len(s)
  PROVE  Members(Without(s, i)) \subseteq Members(s)
<1> DEFINE u == Without(s, i)
<1>1. Skips(s, u, i)
  BY WithoutSkips
<1> HIDE DEF u
<1>2. PICK old \in [1..Len(u) -> 1..Len(s)] :
         \A j \in 1..Len(u) : old[j] # i /\ u[j] = s[old[j]]
  BY <1>1 DEF Skips
<1>3. \A j \in 1..Len(u) : old[j] \in 1..Len(s)
  BY <1>2
<1>4. \A j \in 1..Len(u) : u[j] \in Members(s)
  BY <1>2, <1>3 DEF Members
<1> QED
  BY <1>4 DEF Members, u

\* What a step does to the lines.
Same(q) == Around(q)' = Around(q)
Joins(q, x) == Around(q)' = Around(q) \o <<x>>
Leaves(q, i) == i \in 1..Len(Around(q)) /\ Around(q)' = Without(Around(q), i)

LEMMA AllSame ==
  ASSUME UNCHANGED <<raw, todo, queue, net>>
  PROVE  \A q \in Peer : Same(q)
  BY DEF Same, Around

\* What is sent to a peer is behind what is around it, and what its loop drops was there.
LEMMA AroundGrows ==
  ASSUME PacketTypes, NEW q \in Peer, NEW x \in Packet
  PROVE  Line(raw[q], todo[q], queue[q], net[q] \o <<x>>) = Around(q) \o <<x>>
<1> DEFINE b == (raw[q] \o todo[q]) \o queue[q]
           n == net[q]
           s == <<x>>
<1>1. b \in Seq(Packet) /\ n \in Seq(Packet)
  <2>1. raw[q] \o todo[q] \in Seq(Packet)
    BY LineOfPackets, JoinOf
  <2> QED
    BY <2>1, LineOfPackets, JoinOf
<1>2. s \in Seq(Packet)
  BY OneOf
<1> HIDE DEF b, n, s
<1>3. (b \o n) \o s = b \o (n \o s)
  BY <1>1, <1>2
<1> QED
  BY <1>3 DEF Around, Line, b, n, s

LEMMA AroundDrops ==
  ASSUME PacketTypes, NEW p \in Peer, NEW i \in 1..Len(todo[p]), raw[p] = <<>>
  PROVE  /\ i \in 1..Len(Around(p)) /\ Around(p)[i] = todo[p][i]
         /\ Line(<<>>, Without(todo[p], i), queue[p], net[p]) = Without(Around(p), i)
<1> DEFINE d == todo[p]
           u == queue[p]
           n == net[p]
<1>1. d \in Seq(Packet) /\ u \in Seq(Packet) /\ n \in Seq(Packet) /\ i \in 1..Len(d)
  BY LineOfPackets
<1>2. Around(p) = Line(<<>>, d, u, n)
  BY DEF Around
<1> HIDE DEF d, u, n
<1>3. /\ i \in 1..Len(Line(<<>>, d, u, n))
      /\ Line(<<>>, d, u, n)[i] = d[i]
      /\ Line(<<>>, Without(d, i), u, n) = Without(Line(<<>>, d, u, n), i)
  BY <1>1, LineDropped
<1> QED
  BY <1>2, <1>3 DEF d, u, n

\* Sending to a peer.
LEMMA SentJoins ==
  ASSUME PacketTypes, NEW q \in Peer, NEW x \in Packet, SendTo(q, <<x>>),
         UNCHANGED <<raw, todo, queue>>
  PROVE  Joins(q, x) /\ Same(Other(q))
<1>1. net' = [net EXCEPT ![q] = net[q] \o <<x>>] /\ net \in [Peer -> Seq(Packet)]
  BY DEF SendTo, PacketTypes
<1>2. net'[q] = net[q] \o <<x>> /\ net'[Other(q)] = net[Other(q)]
  BY <1>1, PeerPair, OthersDiffer
<1>3. Around(q)' = Line(raw[q], todo[q], queue[q], net[q] \o <<x>>)
  BY <1>2 DEF Around
<1>4. Line(raw[q], todo[q], queue[q], net[q] \o <<x>>) = Around(q) \o <<x>>
  BY AroundGrows
<1>5. Around(Other(q))' = Around(Other(q))
  BY <1>2 DEF Around
<1> QED
  BY <1>3, <1>4, <1>5 DEF Joins, Same

\* Sending to a peer while the sender's loop drops a packet.
LEMMA DroppedLeaves ==
  ASSUME PacketTypes, NEW p \in Peer, NEW i \in 1..Len(todo[p]), Drop(p, i),
         raw[p] = <<>>, UNCHANGED <<queue>>, net'[p] = net[p]
  PROVE  /\ Leaves(p, i)
         /\ Around(p)[i] = todo[p][i]
         /\ net'[Other(p)] = net[Other(p)] => Same(Other(p))
<1>1. /\ todo' = [todo EXCEPT ![p] = Without(todo[p], i)] /\ todo \in [Peer -> Seq(Packet)]
      /\ raw' = raw /\ queue' = queue
  BY DEF Drop, PacketTypes
<1>2. todo'[p] = Without(todo[p], i) /\ todo'[Other(p)] = todo[Other(p)]
  BY <1>1, PeerPair, OthersDiffer
<1>3. /\ i \in 1..Len(Around(p)) /\ Around(p)[i] = todo[p][i]
      /\ Line(<<>>, Without(todo[p], i), queue[p], net[p]) = Without(Around(p), i)
  BY AroundDrops
<1>4. Around(p)' = Line(<<>>, Without(todo[p], i), queue[p], net[p])
  BY <1>1, <1>2 DEF Around
<1>5. net'[Other(p)] = net[Other(p)] => Around(Other(p))' = Around(Other(p))
  BY <1>1, <1>2 DEF Around
<1> QED
  BY <1>3, <1>4, <1>5 DEF Leaves, Same

LEMMA DroppedAndSent ==
  ASSUME PacketTypes, NEW p \in Peer, NEW i \in 1..Len(todo[p]), Drop(p, i),
         raw[p] = <<>>, UNCHANGED <<queue>>, NEW x \in Packet, SendTo(Other(p), <<x>>)
  PROVE  Leaves(p, i) /\ Around(p)[i] = todo[p][i] /\ Joins(Other(p), x)
<1> DEFINE q == Other(p)
<1>0. q \in Peer /\ q # p
  BY PeerPair, OthersDiffer
<1> HIDE DEF q
<1>1. /\ net' = [net EXCEPT ![q] = net[q] \o <<x>>] /\ net \in [Peer -> Seq(Packet)]
      /\ todo' = [todo EXCEPT ![p] = Without(todo[p], i)] /\ todo \in [Peer -> Seq(Packet)]
      /\ raw' = raw /\ queue' = queue
  BY DEF SendTo, PacketTypes, Drop, q
<1>2. net'[q] = net[q] \o <<x>> /\ net'[p] = net[p] /\ todo'[q] = todo[q]
  BY <1>0, <1>1
<1>3. Around(q)' = Line(raw[q], todo[q], queue[q], net[q] \o <<x>>)
  BY <1>1, <1>2 DEF Around
<1>4. Line(raw[q], todo[q], queue[q], net[q] \o <<x>>) = Around(q) \o <<x>>
  BY <1>0, AroundGrows
<1>5. Leaves(p, i) /\ Around(p)[i] = todo[p][i]
  BY <1>1, <1>2, DroppedLeaves
<1> QED
  BY <1>3, <1>4, <1>5 DEF Joins, q

\* Delivery, reading and the early end of a loop move packets within the line.
LEMMA DeliveredSame ==
  ASSUME PacketTypes, Ordered, NEW p \in Peer, Deliver(p)
  PROVE  \A q \in Peer : Same(q)
<1>1. 1 \in 1..Len(net[p])
      /\ net' = [net EXCEPT ![p] = Without(net[p], 1)]
      /\ queue' = [queue EXCEPT ![p] = Append(queue[p], net[p][1])]
      /\ UNCHANGED <<raw, todo>>
  BY DEF Deliver, loopVars
<1>2. net \in [Peer -> Seq(Packet)] /\ queue \in [Peer -> Seq(Packet)]
  BY DEF PacketTypes
<1>3. Line(raw[p], todo[p], Append(queue[p], net[p][1]), Without(net[p], 1)) = Around(p)
  BY <1>1, LineOfPackets, LineDelivered DEF Around
<1>4. Around(p)' = Line(raw[p], todo[p], Append(queue[p], net[p][1]), Without(net[p], 1))
  BY <1>1, <1>2 DEF Around
<1>5. ASSUME NEW q \in Peer, q # p
      PROVE  Around(q)' = Around(q)
  BY <1>1, <1>2, <1>5 DEF Around
<1> QED
  BY <1>3, <1>4, <1>5 DEF Same

LEMMA ReadSame ==
  ASSUME PacketTypes, NEW p \in Peer, NEW loop, ReadAll(p, loop), todo[p] = <<>>, UNCHANGED net
  PROVE  \A q \in Peer : Same(q)
<1>1. /\ todo' = [todo EXCEPT ![p] = raw[p] \o queue[p]] /\ todo \in [Peer -> Seq(Packet)]
      /\ raw' = [raw EXCEPT ![p] = <<>>] /\ raw \in [Peer -> Seq(Packet)]
      /\ queue' = [queue EXCEPT ![p] = <<>>] /\ queue \in [Peer -> Seq(Packet)]
  BY DEF ReadAll, PacketTypes
<1>2. Around(p)' = Line(<<>>, raw[p] \o queue[p], <<>>, net[p])
  BY <1>1 DEF Around
<1>3. Line(<<>>, raw[p] \o queue[p], <<>>, net[p]) = Around(p)
  BY LineOfPackets, LineRead DEF Around
<1>4. ASSUME NEW q \in Peer, q # p
      PROVE  Around(q)' = Around(q)
  BY <1>1, <1>4 DEF Around
<1> QED
  BY <1>2, <1>3, <1>4 DEF Same

LEMMA BrokenSame ==
  ASSUME PacketTypes, NEW p \in Peer, Break(p), raw[p] = <<>>, UNCHANGED <<queue, net>>
  PROVE  \A q \in Peer : Same(q)
<1>1. /\ todo' = [todo EXCEPT ![p] = <<>>] /\ todo \in [Peer -> Seq(Packet)]
      /\ raw' = [raw EXCEPT ![p] = todo[p]] /\ raw \in [Peer -> Seq(Packet)]
  BY DEF Break, PacketTypes
<1>2. Around(p)' = Line(todo[p], <<>>, queue[p], net[p])
  BY <1>1 DEF Around
<1>3. Line(todo[p], <<>>, queue[p], net[p]) = Around(p)
  BY LineOfPackets, LineLeft DEF Around
<1>4. ASSUME NEW q \in Peer, q # p
      PROVE  Around(q)' = Around(q)
  BY <1>1, <1>4 DEF Around
<1> QED
  BY <1>2, <1>3, <1>4 DEF Same

LEMMA BrokenAndSent ==
  ASSUME PacketTypes, NEW p \in Peer, Break(p), raw[p] = <<>>, UNCHANGED <<queue>>,
         NEW x \in Packet, SendTo(Other(p), <<x>>)
  PROVE  Joins(Other(p), x) /\ Same(p)
<1> DEFINE q == Other(p)
<1>0. q \in Peer /\ q # p
  BY PeerPair, OthersDiffer
<1> HIDE DEF q
<1>1. /\ net' = [net EXCEPT ![q] = net[q] \o <<x>>] /\ net \in [Peer -> Seq(Packet)]
      /\ todo' = [todo EXCEPT ![p] = <<>>] /\ todo \in [Peer -> Seq(Packet)]
      /\ raw' = [raw EXCEPT ![p] = todo[p]] /\ raw \in [Peer -> Seq(Packet)]
  BY DEF SendTo, PacketTypes, Break, q
<1>2. /\ net'[q] = net[q] \o <<x>> /\ net'[p] = net[p] /\ todo'[q] = todo[q] /\ raw'[q] = raw[q]
      /\ todo'[p] = <<>> /\ raw'[p] = todo[p]
  BY <1>0, <1>1
<1>3. Around(q)' = Line(raw[q], todo[q], queue[q], net[q] \o <<x>>)
  BY <1>2 DEF Around
<1>4. Line(raw[q], todo[q], queue[q], net[q] \o <<x>>) = Around(q) \o <<x>>
  BY <1>0, AroundGrows
<1>5. Around(p)' = Line(todo[p], <<>>, queue[p], net[p])
  BY <1>2 DEF Around
<1>6. Line(todo[p], <<>>, queue[p], net[p]) = Around(p)
  BY LineOfPackets, LineLeft DEF Around
<1> QED
  BY <1>3, <1>4, <1>5, <1>6 DEF Joins, Same, q
--------------------------------------------------------------------------------
(* What the steps do to the lines, the numbers and the logs.                      *)

\* The steps of the reliable channel, by what they do to the lines, the numbers sent
\* and the logs.  Nothing:
Rests == (\A q \in Peer : Same(q)) /\ UNCHANGED <<seqNo, received>>

\* a request, a game over or, at the end of the setup, "Creation done." is sent,
Says(q, x) ==
  /\ x \in Packet /\ x.kind # "data"
  /\ x.kind = "created" => q = "server" /\ Setup /\ ~Setup'
  /\ x.kind = "ack" /\ x.type # "block" =>
        x.type \in Steady /\ x.sequence < Settled(Other(q), x.type)'
  /\ Joins(q, x) /\ Same(Other(q))
  /\ UNCHANGED <<seqNo, received>>

\* the next packet of a type is sent,
Sent(p, t) ==
  /\ Joins(Other(p), Data(t, seqNo[p][t])) /\ Same(p)
  /\ seqNo' = [seqNo EXCEPT ![p][t] = @ + 1]
  /\ UNCHANGED received

\* the initial blocks are sent,
SentInitial ==
  /\ Setup /\ ~initialDone
  /\ Around("client") = <<>> /\ Around("client")' = InitialBlocks
  /\ Same("server")
  /\ seqNo' = [seqNo EXCEPT !["server"]["block"] = @ + 3]
  /\ UNCHANGED received

\* The server takes nothing out of its line before "Creation done.".
Waits == handler["server"] = "onConnectionComplete"
Busy(q, i) == q = "server" => ~Waits \/ (i = 1 /\ ~Waits')

\* a repeat is dropped, or "Creation done." is popped,
Forgets(q, i) ==
  /\ Busy(q, i) /\ Leaves(q, i) /\ Same(Other(q))
  /\ \A t \in Tracked : IsData(Around(q)[i], t) => Around(q)[i].sequence < Logged(q, t)
  /\ UNCHANGED <<seqNo, received>>

\* a packet is processed,
Takes(q, i, t) ==
  /\ Busy(q, i) /\ Leaves(q, i) /\ Same(Other(q))
  /\ IsData(Around(q)[i], t) /\ Around(q)[i].sequence = Logged(q, t)
  /\ received' = [received EXCEPT ![q][t] = Append(@, Logged(q, t))]
  /\ UNCHANGED seqNo

\* a request is answered by a repeat, or by a new block.
Repeats(p, i, t, n) ==
  /\ Busy(p, i) /\ Leaves(p, i) /\ Around(p)[i].kind = "ack"
  /\ Joins(Other(p), Data(t, n))
  /\ n < seqNo[p][t]
  /\ t \in Tracked => n < Settled(Other(p), t)
  /\ UNCHANGED <<seqNo, received>>

MakesUp(p, i) ==
  /\ Busy(p, i) /\ Leaves(p, i) /\ Around(p)[i].kind = "ack"
  /\ ~Setup
  /\ Joins(Other(p), Data("block", seqNo[p]["block"]))
  /\ seqNo' = [seqNo EXCEPT ![p]["block"] = @ + 1]
  /\ UNCHANGED received

Moves ==
  \/ Rests
  \/ SentInitial
  \/ \E p \in Peer :
        \/ \E x : Says(p, x)
        \/ \E t \in Type : Sent(p, t)
        \/ \E i \in 1..Len(Around(p)) :
              \/ Forgets(p, i)
              \/ \E t \in Type : Takes(p, i, t)
              \/ \E t \in Type, n \in Nat : Repeats(p, i, t, n)
              \/ MakesUp(p, i)

\* The handler knows the numbers of the log.
LEMMA KnownIsLogged ==
  ASSUME NumberTypes, AllInOrder, NEW p \in Peer, NEW t \in Type, NEW n \in Nat
  PROVE  <<t, n>> \in ReceivedDataMap(p) <=> n < Logged(p, t)
<1>1. \A u \in Type : /\ Logged(p, u) \in Nat
                      /\ \A i \in 1..Logged(p, u) : received[p][u][i] = i - 1
  BY NumbersOf DEF AllInOrder, IsInOrder, Logged
<1>2. ASSUME <<t, n>> \in ReceivedDataMap(p)
      PROVE  n < Logged(p, t)
  <2>1. PICK u \in Type : <<t, n>> \in {<<u, received[p][u][i]>> : i \in 1..Len(received[p][u])}
    BY <1>2 DEF ReceivedDataMap
  <2>2. PICK i \in 1..Logged(p, u) : <<t, n>> = <<u, received[p][u][i]>>
    BY <2>1 DEF Logged
  <2>3. t = u /\ n = i - 1
    BY <1>1, <2>2
  <2> QED
    BY <1>1, <2>3
<1>3. ASSUME n < Logged(p, t)
      PROVE  <<t, n>> \in ReceivedDataMap(p)
  <2>1. n + 1 \in 1..Len(received[p][t]) /\ received[p][t][n + 1] = n
    BY <1>1, <1>3 DEF Logged
  <2>2. <<t, n>> \in {<<t, received[p][t][i]>> : i \in 1..Len(received[p][t])}
    BY <2>1
  <2> QED
    BY <2>2 DEF ReceivedDataMap
<1> QED
  BY <1>2, <1>3

\* A packet of the loop of p is one of those around it.
LEMMA LoopMember ==
  ASSUME PacketTypes, NEW p \in Peer, NEW i \in 1..Len(todo[p]), raw[p] = <<>>
  PROVE  /\ i \in 1..Len(Around(p))
         /\ Around(p)[i] = todo[p][i]
         /\ todo[p][i] \in Members(Around(p))
         /\ todo[p][i] \in Packet
<1>1. i \in 1..Len(Around(p)) /\ Around(p)[i] = todo[p][i]
  BY AroundDrops
<1> QED
  BY <1>1, LoopPacket DEF Members

\* The packet the loop looks at next, if it is data in line and no repeat, is the one
\* after the last one processed.
LEMMA NextIsLogged ==
  ASSUME TypeOK, Lined, NEW p \in Peer, NEW i \in 1..Len(todo[p]), raw[p] = <<>>, IsNext(p, i),
         NEW t \in Tracked, IsData(todo[p][i], t), todo[p][i].sequence >= Settled(p, t),
         Settled(p, t) <= Logged(p, t)
  PROVE  todo[p][i].sequence = Logged(p, t)
<1> DEFINE s == Around(p)
           m == Len(todo[p])
           next == Logged(p, t)
           end == seqNo[Other(p)][t]
           settled == Settled(p, t)
<1>0. PacketTypes /\ NumberTypes
  BY DEF TypeOK
<1>1. t \in Type
  BY DEF Tracked, Steady, Type
<1>2. next \in Nat /\ end \in Nat /\ settled \in Nat
  BY <1>0, <1>1, NumbersOf, PeerPair
<1>3. s \in Seq(Packet) /\ todo[p] \in Seq(Packet) /\ m \in Nat /\ i \in 1..m
  BY <1>0, LineOfPackets, LenProperties
<1>4. \A j \in 1..m : j \in 1..Len(s) /\ s[j] = todo[p][j]
  BY <1>0, AroundDrops
<1>5. m <= Len(s)
  <2>1. m \in 1..m
    BY <1>3
  <2>2. m \in 1..Len(s)
    BY <1>4, <2>1
  <2> QED
    BY <1>3, <2>2, LenProperties
<1>6. InLine(s, t, next, end, settled)
  BY DEF Lined
<1>7. \A j \in 1..m : s[i].sequence <= s[j].sequence
  BY <1>3, <1>4 DEF IsNext
<1>8. IsData(s[i], t) /\ s[i].sequence >= settled /\ s[i] = todo[p][i]
  BY <1>3, <1>4
<1>9. s[i].sequence \in Nat
  BY <1>0, <1>8, LoopPacket, SomeType
<1>10. s[i].sequence >= next
  <2>1. i \in 1..Len(s)
    BY <1>3, <1>4
  <2>2. s[i].sequence < settled \/ s[i].sequence \in next..end - 1
    BY <1>6, <1>8, <2>1 DEF InLine, Numbered
  <2> QED
    BY <1>2, <1>8, <1>9, <2>2
<1> HIDE DEF s, m, next, end, settled
<1>11. s[i].sequence = next
  BY <1>2, <1>3, <1>5, <1>6, <1>7, <1>8, <1>10, LeastIsNext
<1> QED
  BY <1>8, <1>11 DEF next

LEMMA SetupLines ==
  ASSUME TypeOK, ReliableInv, Setup
  PROVE  /\ raw["server"] = <<>> /\ todo["server"] = <<>>
         /\ queue["server"] = <<>> /\ net["server"] = <<>>
         /\ ~initialDone => Around("client") = <<>>
<1>1. "server" \in Peer /\ "client" \in Peer /\ Other("client") = "server" /\ "block" \in Type
  BY DEF Peer, Other, Type
<1>2. PacketTypes /\ NumberTypes
  BY DEF TypeOK
<1>3. InSetup /\ Bounded
  BY DEF ReliableInv, ControlInv, LinesInv
<1>4. /\ raw["server"] = <<>> /\ todo["server"] = <<>>
      /\ queue["server"] = <<>> /\ net["server"] = <<>>
  <2> DEFINE r == raw["server"]
             d == todo["server"]
             q == queue["server"]
             n == net["server"]
  <2>1. r \in Seq(Packet) /\ d \in Seq(Packet) /\ q \in Seq(Packet) /\ n \in Seq(Packet)
    BY <1>1, <1>2, LineOfPackets
  <2>2. Line(r, d, q, n) = <<>>
    BY <1>3 DEF InSetup, Around
  <2> HIDE DEF r, d, q, n
  <2>3. Len(r \o d) = Len(r) + Len(d) /\ r \o d \in Seq(Packet)
    BY <2>1, ConcatProperties
  <2>4. Len((r \o d) \o q) = Len(r) + Len(d) + Len(q) /\ (r \o d) \o q \in Seq(Packet)
    BY <2>1, <2>3, ConcatProperties
  <2>5. Len(Line(r, d, q, n)) = Len(r) + Len(d) + Len(q) + Len(n)
    BY <2>1, <2>4, ConcatProperties DEF Line
  <2>6. Len(r) = 0 /\ Len(d) = 0 /\ Len(q) = 0 /\ Len(n) = 0
    <3>1. Len(r) + Len(d) + Len(q) + Len(n) = 0
      BY <2>2, <2>5, EmptySeq
    <3>2. Len(r) \in Nat /\ Len(d) \in Nat /\ Len(q) \in Nat /\ Len(n) \in Nat
      BY <2>1, LenProperties
    <3> QED
      BY <3>1, <3>2
  <2> QED
    BY <2>1, <2>6, EmptySeq DEF r, d, q, n
<1>5. ASSUME ~initialDone
      PROVE  Around("client") = <<>>
  <2>1. Around("client") \in Seq(Packet)
    BY <1>1, <1>2, LineOfPackets
  <2>2. seqNo["server"]["block"] = 0
    BY <1>1, <1>3, <1>5 DEF InSetup
  <2>3. \A x \in Members(Around("client")) : x.sequence \in Nat /\ x.sequence < 0
    <3> SUFFICES ASSUME NEW x \in Members(Around("client"))
                 PROVE  x.sequence \in Nat /\ x.sequence < 0
      OBVIOUS
    <3>1. x \in Packet
      BY <2>1, MembersType
    <3>2. x.kind = "data" /\ x.type = "block"
      BY <1>3 DEF InSetup, IsData
    <3>3. x.sequence < seqNo["server"]["block"]
      BY <1>1, <1>3, <3>2 DEF Bounded
    <3> QED
      BY <2>2, <3>1, <3>3, SomeType
  <2>4. \A i \in 1..Len(Around("client")) : FALSE
    BY <2>3 DEF Members
  <2>5. Len(Around("client")) \in Nat
    BY <2>1, LenProperties
  <2>6. Len(Around("client")) = 0
    BY <2>4, <2>5
  <2> QED
    BY <2>1, <2>6, EmptySeq
<1> QED
  BY <1>4, <1>5

\* What the setup cannot do on the reliable channel.
LEMMA ServerPopsFirst ==
  ASSUME TypeOK, ReliableInv, ServerConnects
  PROVE  /\ raw["server"] = <<>> /\ todo["server"] = <<>>
         /\ Setup => queue["server"] = <<>>
         /\ ~Setup => initialDone
         /\ queue["server"] # <<>> =>
               /\ Head(queue["server"]) = CreationDone
               /\ ~Setup
               /\ Around("server")[1] = CreationDone /\ Around("server") # <<>>
               /\ Around("server") = queue["server"] \o net["server"]
<1>1. "server" \in Peer
  BY DEF Peer
<1>2. PacketTypes /\ Loops /\ Created
  BY DEF TypeOK, ReliableInv, ControlInv
<1>3. phase["server"] = "idle" /\ handler["server"] = "onConnectionComplete"
  BY DEF ServerConnects, Fire
<1>4. raw["server"] = <<>> /\ todo["server"] = <<>>
  BY <1>1, <1>2, <1>3 DEF Loops, LoopOf
<1>5. Setup => queue["server"] = <<>>
  BY SetupLines
<1>6. ~Setup => initialDone /\ Around("server") # <<>> /\ Around("server")[1] = CreationDone
  BY <1>2, <1>3 DEF Created
<1>7. ASSUME queue["server"] # <<>>
      PROVE  /\ Head(queue["server"]) = Around("server")[1]
             /\ Around("server") = queue["server"] \o net["server"]
  <2> DEFINE q == queue["server"]
             n == net["server"]
  <2>1. q \in Seq(Packet) /\ n \in Seq(Packet) /\ q # <<>>
    BY <1>1, <1>2, <1>7, LineOfPackets
  <2>2. Around("server") = Line(<<>>, <<>>, q, n)
    BY <1>4 DEF Around
  <2> HIDE DEF q, n
  <2>3. <<>> \o q = q
    BY <2>1, ConcatEmptySeq
  <2>4. Line(<<>>, <<>>, q, n) = q \o n
    BY <2>1, <2>3, ConcatEmptySeq, EmptySeq DEF Line
  <2>5. Len(q) \in Nat \ {0} /\ Len(n) \in Nat
    BY <2>1, LenProperties, EmptySeq
  <2>6. (q \o n)[1] = q[1]
    BY <2>1, <2>5, ConcatProperties
  <2>7. Head(q) = q[1]
    BY <2>1, <2>5, HeadTailProperties
  <2> QED
    BY <2>2, <2>4, <2>6, <2>7 DEF q, n
<1> QED
  BY <1>4, <1>5, <1>6, <1>7

LEMMA MovesServerConnects ==
  ASSUME TypeOK, ReliableInv, ServerConnects
  PROVE  IF queue["server"] # <<>> THEN Forgets("server", 1) /\ ~Waits'
         ELSE /\ UNCHANGED handler
              /\ IF initialDone THEN Rests ELSE SentInitial
<1>1. "server" \in Peer /\ "client" \in Peer /\ Other("client") = "server"
      /\ Other("server") = "client"
  BY DEF Peer, Other
<1>2. PacketTypes
  BY DEF TypeOK
<1>3. /\ raw["server"] = <<>> /\ todo["server"] = <<>>
      /\ Setup => queue["server"] = <<>>
      /\ ~Setup => initialDone
      /\ queue["server"] # <<>> =>
            /\ Head(queue["server"]) = CreationDone
            /\ ~Setup
            /\ Around("server")[1] = CreationDone /\ Around("server") # <<>>
            /\ Around("server") = queue["server"] \o net["server"]
  BY ServerPopsFirst
<1>4. UNCHANGED received
  BY DEF ServerConnects
<1>5. CASE queue["server"] = <<>>
  <2>1. UNCHANGED <<raw, todo, queue>>
    BY <1>5 DEF ServerConnects
  <2>2. CASE initialDone
    <3>1. UNCHANGED <<net, seqNo>>
      BY <2>2 DEF ServerConnects
    <3> QED
      BY <1>4, <1>5, <2>1, <2>2, <3>1, AllSame DEF ServerConnects, Rests
  <2>3. CASE ~initialDone
    <3>1. Setup /\ SendTo("client", InitialBlocks)
          /\ seqNo' = [seqNo EXCEPT !["server"]["block"] = @ + 3]
      BY <1>3, <2>3 DEF ServerConnects
    <3>2. Around("client") = <<>>
      BY <2>3, <3>1, SetupLines
    <3> DEFINE b == (raw["client"] \o todo["client"]) \o queue["client"]
    <3>3. b = <<>> /\ net["client"] = <<>>
      <4>1. raw["client"] \o todo["client"] \in Seq(Packet)
        BY <1>1, <1>2, LineOfPackets, JoinOf
      <4>2. b \in Seq(Packet) /\ net["client"] \in Seq(Packet)
        BY <1>1, <1>2, <4>1, LineOfPackets, JoinOf
      <4>3. b \o net["client"] = <<>>
        BY <3>2 DEF Around, Line
      <4> DEFINE n == net["client"]
      <4> HIDE DEF b, n
      <4>4. Len(b \o n) = Len(b) + Len(n)
        BY <4>2, ConcatProperties DEF n
      <4>5. Len(b) = 0 /\ Len(n) = 0
        <5>1. Len(b) \in Nat /\ Len(n) \in Nat
          BY <4>2, LenProperties DEF n
        <5>2. Len(b) + Len(n) = 0
          BY <4>3, <4>4, EmptySeq DEF n
        <5> QED
          BY <5>1, <5>2
      <4> QED
        BY <4>2, <4>5, EmptySeq DEF n
    <3>4. net'["client"] = <<>> \o InitialBlocks /\ net'["server"] = net["server"]
      BY <1>1, <1>2, <3>1, <3>3 DEF SendTo, PacketTypes
    <3>5. Around("client")' = b \o net'["client"]
      BY <2>1 DEF Around, Line
    <3>6. <<>> \o (<<>> \o InitialBlocks) = InitialBlocks
      BY InitialBlocksMade, ConcatEmptySeq
    <3> HIDE DEF b
    <3>7. Around("client")' = InitialBlocks
      BY <3>3, <3>4, <3>5, <3>6
    <3>8. Same("server")
      BY <2>1, <3>4 DEF Same, Around
    <3> QED
      BY <1>4, <1>5, <2>3, <3>1, <3>2, <3>7, <3>8 DEF ServerConnects, SentInitial
  <2> QED
    BY <2>2, <2>3
<1>6. CASE queue["server"] # <<>>
  <2>0. initialDone
    BY <1>3, <1>6
  <2>1. queue' = [queue EXCEPT !["server"] = Tail(@)] /\ UNCHANGED <<raw, todo, net, seqNo>>
    BY <1>3, <1>6, <2>0 DEF ServerConnects
  <2>2. queue'["server"] = Tail(queue["server"]) /\ queue'["client"] = queue["client"]
    BY <1>1, <1>2, <2>1 DEF PacketTypes
  <2>3. Same("client")
    BY <2>1, <2>2 DEF Same, Around
  <2> DEFINE q == queue["server"]
             n == net["server"]
  <2>4. q \in Seq(Packet) /\ n \in Seq(Packet) /\ q # <<>>
    BY <1>1, <1>2, <1>6, LineOfPackets
  <2>5. Around("server") = q \o n
    BY <1>3, <1>6
  <2>6. Around("server")' = Line(<<>>, <<>>, Tail(q), n)
    BY <1>3, <2>1, <2>2 DEF Around
  <2> HIDE DEF q, n
  <2>7. Line(<<>>, <<>>, Tail(q), n) = Without(q \o n, 1)
    <3>1. Len(q) \in Nat \ {0} /\ 1 \in 1..Len(q)
      BY <2>4, LenProperties, EmptySeq
    <3>2. /\ Without(q, 1) \in Seq(Packet) /\ Len(Without(q, 1)) = Len(q) - 1
          /\ \A j \in 1..Len(q) - 1 : Without(q, 1)[j] = IF j < 1 THEN q[j] ELSE q[j + 1]
      BY <2>4, <3>1, WithoutProperties
    <3>3. /\ Tail(q) \in Seq(Packet) /\ Len(Tail(q)) = Len(q) - 1
          /\ \A j \in 1..Len(Tail(q)) : Tail(q)[j] = q[j + 1]
      BY <2>4, HeadTailProperties
    <3>4. \A j \in 1..Len(Tail(q)) : Tail(q)[j] = Without(q, 1)[j]
      BY <3>1, <3>2, <3>3
    <3>5. Tail(q) = Without(q, 1)
      BY <3>2, <3>3, <3>4, SeqEqual
    <3>6. Without(q, 1) \o n = Without(q \o n, 1)
      BY <2>4, <3>1, WithoutJoined
    <3>7. Line(<<>>, <<>>, Tail(q), n) = Tail(q) \o n
      <4> DEFINE u == Tail(q)
      <4>1. u \in Seq(Packet)
        BY <3>3
      <4> HIDE DEF u
      <4>2. <<>> \o u = u /\ <<>> \o <<>> = <<>>
        BY <4>1, ConcatEmptySeq, EmptySeq
      <4> QED
        BY <4>2 DEF Line, u
    <3> QED
      BY <3>5, <3>6, <3>7
  <2>8. 1 \in 1..Len(Around("server"))
    <3>1. Around("server") \in Seq(Packet) /\ Around("server") # <<>>
      BY <1>1, <1>2, <1>3, <1>6, LineOfPackets
    <3>2. Len(Around("server")) \in Nat /\ Len(Around("server")) # 0
      BY <3>1, LenProperties, EmptySeq
    <3> QED
      BY <3>2
  <2>9. Leaves("server", 1)
    BY <2>5, <2>6, <2>7, <2>8 DEF Leaves
  <2>10. \A t \in Tracked : ~IsData(Around("server")[1], t)
    <3>1. Around("server")[1] = CreationDone
      BY <1>3, <1>6
    <3>2. CreationDone.kind # "data"
      BY DEF CreationDone
    <3> QED
      BY <3>1, <3>2 DEF IsData
  <2>11. ~Waits'
    BY <1>1, <1>3, <1>6 DEF ServerConnects, Waits, TypeOK, ModeTypes
  <2>12. Forgets("server", 1)
    BY <1>1, <1>4, <2>1, <2>3, <2>9, <2>10, <2>11 DEF Forgets, Busy
  <2> QED
    BY <1>6, <2>11, <2>12
<1> QED
  BY <1>5, <1>6

\* A packet of the queue is one of those around the peer.
LEMMA QueueMember ==
  ASSUME PacketTypes, NEW p \in Peer, NEW i \in 1..Len(queue[p])
  PROVE  /\ queue[p][i] \in Members(Around(p))
         /\ queue[p][i] \in Packet
<1> DEFINE a == raw[p] \o todo[p]
           q == queue[p]
           n == net[p]
<1>1. a \in Seq(Packet) /\ q \in Seq(Packet) /\ n \in Seq(Packet) /\ i \in 1..Len(q)
  BY LineOfPackets, JoinOf
<1>2. Around(p) = (a \o q) \o n
  BY DEF Around, Line
<1> HIDE DEF a, q, n
<1> DEFINE b == a \o q
<1>3. /\ b \in Seq(Packet) /\ Len(b) = Len(a) + Len(q) /\ Len(a) \in Nat /\ Len(q) \in Nat
      /\ \A j \in 1..Len(a) + Len(q) : b[j] = IF j <= Len(a) THEN a[j] ELSE q[j - Len(a)]
  BY <1>1, ConcatProperties, LenProperties
<1>4. Len(a) + i \in 1..Len(b) /\ b[Len(a) + i] = q[i]
  BY <1>1, <1>3
<1> HIDE DEF b
<1>5. /\ Len(b \o n) = Len(b) + Len(n) /\ Len(n) \in Nat /\ Len(b) \in Nat
      /\ \A j \in 1..Len(b) + Len(n) : (b \o n)[j] = IF j <= Len(b) THEN b[j] ELSE n[j - Len(b)]
  <2>1. b \in Seq(Packet) /\ n \in Seq(Packet)
    BY <1>1, <1>3
  <2> QED
    BY <2>1, ConcatProperties, LenProperties
<1> DEFINE k == Len(a) + i
<1>6. k \in 1..Len(b) /\ b[k] = q[i]
  BY <1>4
<1> HIDE DEF k
<1>7. k \in 1..Len(b \o n) /\ (b \o n)[k] = q[i]
  BY <1>5, <1>6
<1>8. q[i] \in Members(b \o n)
  BY <1>7 DEF Members
<1>9. q[i] \in Packet
  BY <1>1, ElementOfSeq
<1> QED
  BY <1>2, <1>8, <1>9 DEF b, q

\* "Creation done." is read by nobody but the server's first handler, so no handler throws.
LEMMA NoCreatedQueued ==
  ASSUME TypeOK, ReliableInv, NEW p \in Peer,
         p = "client" \/ handler["server"] # "onConnectionComplete"
  PROVE  /\ \A i \in 1..Len(queue[p]) : queue[p][i] # CreationDone
         /\ ~ReadFails(p)
<1>1. PacketTypes /\ Created
  BY DEF TypeOK, ReliableInv, ControlInv
<1>2. \A x \in Members(Around(p)) : x.kind # "created"
  <2>1. CASE p = "client"
    BY <1>1, <2>1 DEF Created
  <2>2. CASE p = "server" /\ handler["server"] # "onConnectionComplete"
    BY <1>1, <2>2 DEF Created, Members
  <2> QED
    BY <2>1, <2>2 DEF Peer
<1>3. CreationDone.kind = "created"
  BY DEF CreationDone
<1>4. \A i \in 1..Len(queue[p]) : queue[p][i] # CreationDone
  BY <1>1, <1>2, <1>3, QueueMember
<1> QED
  BY <1>4 DEF ReadFails

\* What a loop takes for granted.
LEMMA InLoop ==
  ASSUME TypeOK, ReliableInv, NEW p \in Peer, phase[p] = "receiving"
  PROVE  /\ Receives(p) /\ ~Setup
         /\ expected[p]["ojama"] \in Nat /\ Logged(p, "ojama") \in Nat
         /\ Settled(p, "ojama") = expected[p]["ojama"]
<1>1. Loops /\ InSetup /\ NumberTypes
  BY DEF ReliableInv, ControlInv, TypeOK
<1>2. Receives(p)
  BY <1>1 DEF Loops, LoopOf
<1>3. ~Setup
  BY <1>1, <1>2 DEF InSetup, Setup, Receives, Peer
<1> QED
  BY <1>1, <1>2, <1>3, NumbersOf DEF Settled, Type

LEMMA SettledBehind ==
  ASSUME TypeOK, Loops, NEW p \in Peer, NEW t \in Type
  PROVE  Settled(p, t) <= Logged(p, t) /\ Settled(p, t) \in Nat /\ Logged(p, t) \in Nat
<1>1. NumberTypes
  BY DEF TypeOK
<1>2. Settled(p, t) \in Nat /\ Logged(p, t) \in Nat /\ Logged(p, "ojama") \in Nat
      /\ expected[p]["ojama"] \in Nat
  BY <1>1, NumbersOf DEF Type
<1> QED
  BY <1>2 DEF Settled, Loops, LoopOf, Receives

LEMMA MovesClientConnecting ==
  ASSUME TypeOK, ReliableInv, NEW i \in 1..Len(todo["client"]), ClientConnecting(i)
  PROVE  /\ Takes("client", i, "block")
         /\ todo["client"][i].sequence = Logged("client", "block")
         /\ initialProcessed' = initialProcessed \cup {Logged("client", "block")}
         /\ UNCHANGED raw /\ Setup
<1> DEFINE p == "client"
           x == todo[p][i]
<1>1. p \in Peer /\ "server" \in Peer /\ Other(p) = "server" /\ "block" \in Type
  BY DEF Peer, Other, Type
<1>2. PacketTypes /\ NumberTypes /\ Loops /\ InSetup /\ Bounded /\ Lined
  BY DEF TypeOK, ReliableInv, ControlInv, LinesInv
<1>3. phase[p] = "connecting" /\ IsNext(p, i)
  BY DEF ClientConnecting
<1>4. Setup /\ raw[p] = <<>>
  BY <1>1, <1>2, <1>3 DEF Loops, LoopOf, Setup
<1>5. x \in Members(Around(p)) /\ x \in Packet
  BY <1>1, <1>2, <1>4, LoopMember
<1>6. IsData(x, "block")
  BY <1>2, <1>4, <1>5 DEF InSetup
<1>7. x.sequence \in 0..2
  <2>1. x.sequence < seqNo["server"]["block"]
    BY <1>1, <1>2, <1>5, <1>6 DEF Bounded, IsData
  <2>2. seqNo["server"]["block"] <= 3
    BY <1>1, <1>2, <1>4 DEF InSetup
  <2>3. x.sequence \in Nat /\ seqNo["server"]["block"] \in Nat
    BY <1>1, <1>2, <1>5, SomeType, NumbersOf
  <2> QED
    BY <2>1, <2>2, <2>3
<1>8. IsInitialBlock(x)
  BY <1>6, <1>7 DEF IsInitialBlock, IsData
<1>9. /\ Drop(p, i)
      /\ initialProcessed' = initialProcessed \cup {x.sequence}
      /\ received' = [received EXCEPT ![p]["block"] = Append(@, x.sequence)]
      /\ UNCHANGED <<queue, net, seqNo>>
  BY <1>8 DEF ClientConnecting
<1>10. "block" \in Tracked /\ Settled(p, "block") = 0 /\ Logged(p, "block") \in Nat
  BY <1>1, <1>2, <1>4, NumbersOf DEF Tracked, Settled
<1>11. x.sequence = Logged(p, "block")
  BY <1>1, <1>2, <1>3, <1>4, <1>6, <1>7, <1>10, NextIsLogged
<1>12. Leaves(p, i) /\ Around(p)[i] = x /\ Same("server")
  BY <1>1, <1>2, <1>4, <1>9, DroppedLeaves
<1> QED
  BY <1>1, <1>4, <1>6, <1>9, <1>11, <1>12 DEF Takes, Drop, Busy

\* A request for moves or ojama is always for what was sent.
LEMMA MovesAnswer ==
  ASSUME TypeOK, ReliableInv, NEW p \in Peer, NEW i \in 1..Len(todo[p]), Answer(p, i)
  PROVE  Moves /\ UNCHANGED <<phase, raw, received>>
<1> DEFINE x == todo[p][i]
           q == Other(p)
<1>1. PacketTypes /\ NumberTypes /\ Loops /\ Asked /\ Behind
  BY DEF TypeOK, ReliableInv, ControlInv, LinesInv
<1>2. phase[p] = "receiving" /\ x.kind = "ack" /\ Drop(p, i) /\ UNCHANGED <<queue, received>>
  BY DEF Answer, Receiving
<1>3. Receives(p) /\ ~Setup /\ raw[p] = <<>>
  BY <1>2, InLoop DEF Receives
<1>4. /\ x \in Members(Around(p)) /\ x \in Packet /\ i \in 1..Len(Around(p))
      /\ Around(p)[i] = x
  BY <1>1, <1>3, LoopMember
<1>5. q \in Peer /\ Other(q) = p
  BY PeerPair, OthersDiffer
<1>6. x.type # "block" => x.type \in Steady /\ x.sequence < Settled(q, x.type)
  BY <1>1, <1>2, <1>4 DEF Asked, AskedFor
<1>7. x.type \in Type /\ x.sequence \in Nat
  BY <1>4, <1>6, SomeType DEF Steady, Type
<1>8. x.type # "block" => WasSent(p, x)
  <2> SUFFICES ASSUME x.type # "block"
               PROVE  x.sequence < seqNo[p][x.type]
    BY <1>7 DEF WasSent
  <2>1. Settled(q, x.type) <= Logged(q, x.type) /\ Settled(q, x.type) \in Nat
        /\ Logged(q, x.type) \in Nat
    BY <1>1, <1>5, <1>7, SettledBehind
  <2>2. Logged(q, x.type) <= seqNo[p][x.type] /\ seqNo[p][x.type] \in Nat
    BY <1>1, <1>5, <1>7, NumbersOf DEF Behind
  <2> QED
    BY <1>6, <1>7, <2>1, <2>2
<1>b. Busy(p, i)
  BY <1>3 DEF Busy, Waits, Receives
<1>9. CASE Resend(p, x) /\ UNCHANGED phase
  <2> DEFINE y == Data(x.type, x.sequence)
  <2>1. x.sequence < seqNo[p][x.type] /\ SendTo(q, <<y>>) /\ UNCHANGED seqNo
    BY <1>9 DEF Resend, WasSent
  <2>2. y \in Packet
    BY <1>7, PacketsMade
  <2> HIDE DEF y
  <2>3. Leaves(p, i) /\ Joins(q, y)
    BY <1>1, <1>2, <1>3, <2>1, <2>2, DroppedAndSent
  <2>4. x.type \in Tracked => x.sequence < Settled(q, x.type)
    BY <1>3, <1>6 DEF Tracked, Steady
  <2>5. Repeats(p, i, x.type, x.sequence)
    BY <1>2, <1>4, <1>b, <2>1, <2>3, <2>4 DEF Repeats, y
  <2>6. Moves
    BY <1>4, <1>7, <2>5 DEF Moves
  <2> QED
    BY <1>2, <1>9, <2>6 DEF Drop
<1>10. CASE SendNewBlock(p) /\ UNCHANGED phase
  <2> DEFINE y == Data("block", seqNo[p]["block"])
  <2>1. SendTo(q, <<y>>) /\ seqNo' = [seqNo EXCEPT ![p]["block"] = @ + 1]
    BY <1>10 DEF SendNewBlock
  <2>2. y \in Packet
    BY <1>1, PacketsMade, NumbersOf DEF Type
  <2> HIDE DEF y
  <2>3. Leaves(p, i) /\ Joins(q, y)
    BY <1>1, <1>2, <1>3, <2>1, <2>2, DroppedAndSent
  <2>4. MakesUp(p, i)
    BY <1>2, <1>3, <1>4, <1>b, <2>1, <2>3 DEF MakesUp, y
  <2> QED
    BY <1>2, <1>4, <1>10, <2>4 DEF Moves, Drop
<1> QED
  BY <1>8, <1>9, <1>10 DEF Answer

LEMMA MovesDropDuplicate ==
  ASSUME TypeOK, ReliableInv, NEW p \in Peer, NEW i \in 1..Len(todo[p]), DropDuplicate(p, i)
  PROVE  Moves /\ UNCHANGED raw
<1> DEFINE x == todo[p][i]
<1>1. PacketTypes /\ NumberTypes
  BY DEF TypeOK
<1>2. /\ phase[p] = "receiving" /\ x.kind = "data" /\ Drop(p, i)
      /\ <<x.type, x.sequence>> \in known[p]
      /\ UNCHANGED <<queue, net, received, seqNo>>
  BY DEF DropDuplicate, Receiving, IsDuplicate, dataVars
<1>3. Receives(p) /\ ~Setup /\ raw[p] = <<>>
  BY <1>2, InLoop DEF Receives
<1>4. x \in Packet /\ i \in 1..Len(Around(p))
  BY <1>1, <1>3, LoopMember
<1>5. Leaves(p, i) /\ Around(p)[i] = x /\ Same(Other(p))
  BY <1>1, <1>2, <1>3, DroppedLeaves, PeerPair
<1>6. ASSUME NEW t \in Tracked, IsData(x, t)
      PROVE  x.sequence < Logged(p, t)
  <2>1. x.sequence \in Nat /\ x.type = t
    BY <1>4, <1>6, SomeType DEF IsData
  <2>2. t = "input" \/ t = "ojama"
    BY <1>3 DEF Tracked, Steady
  <2>3. expected[p]["ojama"] \in Nat /\ Logged(p, "ojama") \in Nat
    BY <1>1, NumbersOf DEF Type
  <2> QED
    BY <1>2, <1>3, <2>1, <2>2, <2>3 DEF Receives
<1>7. Forgets(p, i)
  BY <1>2, <1>3, <1>5, <1>6 DEF Forgets, Busy, Waits, Receives
<1> QED
  BY <1>2, <1>4, <1>7 DEF Moves, Drop

\* What is processed is the number after the last of its type, though prevSeqOjama
\* lags behind: a second ojama packet of the batch is not taken for the next one.
LEMMA MovesProcess ==
  ASSUME TypeOK, ReliableInv, NEW p \in Peer, NEW i \in 1..Len(todo[p]), Process(p, i)
  PROVE  /\ todo[p][i].type \in Type
         /\ Takes(p, i, todo[p][i].type)
         /\ todo[p][i].sequence = Logged(p, todo[p][i].type)
         /\ expected[p][todo[p][i].type] = Logged(p, todo[p][i].type)
         /\ UNCHANGED raw
<1> DEFINE x == todo[p][i]
           t == x.type
<1>1. PacketTypes /\ NumberTypes /\ Lined
  BY DEF TypeOK, ReliableInv, LinesInv
<1>2. /\ phase[p] = "receiving" /\ x.kind = "data" /\ Drop(p, i)
      /\ x.sequence = expected[p][t]
      /\ received' = [received EXCEPT ![p][t] = Append(@, x.sequence)]
      /\ UNCHANGED <<queue, net, seqNo>>
  BY DEF Process, Receiving
<1>3. Receives(p) /\ ~Setup /\ raw[p] = <<>>
  BY <1>2, InLoop DEF Receives
<1>4. x \in Packet /\ i \in 1..Len(Around(p))
  BY <1>1, <1>3, LoopMember
<1>5. Leaves(p, i) /\ Around(p)[i] = x /\ Same(Other(p))
  BY <1>1, <1>2, <1>3, DroppedLeaves, PeerPair
<1>6. t \in Type /\ x.sequence \in Nat
  BY <1>2, <1>4, SomeType
<1>7. expected[p][t] = Logged(p, t)
  <2>1. CASE t \in {"input", "block"}
    BY <1>3, <2>1 DEF Receives
  <2>2. CASE t = "ojama"
    <3>1. Settled(p, t) = expected[p][t] /\ expected[p][t] \in Nat /\ Logged(p, t) \in Nat
      BY <1>1, <1>2, <2>2, NumbersOf DEF Settled, Type
    <3>2. InLine(Around(p), t, Logged(p, t), seqNo[Other(p)][t], Settled(p, t))
      BY <1>1, <2>2 DEF Lined, Tracked, Steady, Type
    <3>3. x.sequence < Settled(p, t) \/ x.sequence \in Logged(p, t)..seqNo[Other(p)][t] - 1
      BY <1>2, <1>4, <1>5, <3>2 DEF InLine, Numbered, IsData
    <3>4. seqNo[Other(p)][t] \in Nat
      BY <1>1, <1>6, PeerPair, NumbersOf
    <3>5. x.sequence >= Logged(p, t)
      BY <1>2, <1>6, <3>1, <3>3, <3>4
    <3>6. expected[p][t] <= Logged(p, t)
      BY <1>3, <2>2 DEF Receives
    <3> QED
      BY <1>2, <1>6, <3>1, <3>5, <3>6
  <2> QED
    BY <1>6, <2>1, <2>2 DEF Type
<1>8. Takes(p, i, t)
  BY <1>2, <1>3, <1>5, <1>7 DEF Takes, IsData, Busy, Waits, Receives
<1> QED
  BY <1>2, <1>6, <1>7, <1>8 DEF Drop

\* Only an ojama packet or a block is ever missed, and the ojama packet asked for is the
\* one that was processed within the same loop.
LEMMA MovesReportLoss ==
  ASSUME TypeOK, TypeOK', ReliableInv, NEW p \in Peer, NEW i \in 1..Len(todo[p]), ReportLoss(p, i)
  PROVE  Moves /\ raw[p] = <<>>
<1> DEFINE x == todo[p][i]
           t == x.type
           n == expected[p][t]
           y == Request(t, n)
           q == Other(p)
<1>1. PacketTypes /\ NumberTypes /\ Lined /\ ModeTypes /\ Loops
  BY DEF TypeOK, ReliableInv, LinesInv, ControlInv
<1>2. /\ phase[p] = "receiving" /\ x.kind = "data" /\ Break(p) /\ IsNext(p, i)
      /\ <<x.type, x.sequence>> \notin known[p]
      /\ x.sequence # n
      /\ SendTo(q, <<y>>)
      /\ UNCHANGED <<queue, received, seqNo>>
  BY DEF ReportLoss, Receiving, IsDuplicate, dataVars
<1>3. Receives(p) /\ ~Setup /\ raw[p] = <<>>
  BY <1>2, InLoop DEF Receives
<1>4. x \in Packet
  BY <1>1, <1>3, LoopMember
<1>5. t \in Type /\ x.sequence \in Nat
  BY <1>2, <1>4, SomeType
<1>6. n \in Nat /\ Logged(p, t) \in Nat
  BY <1>1, <1>5, NumbersOf
<1>7. y \in Packet /\ y.kind = "ack" /\ y.type = t /\ y.sequence = n
  BY <1>5, <1>6, PacketsMade DEF Request
<1>8. q \in Peer /\ Other(q) = p
  BY PeerPair, OthersDiffer
<1>9. t # "block" => t = "ojama" /\ n < Logged(p, t)
  <2> SUFFICES ASSUME t # "block"
               PROVE  t = "ojama" /\ n < Logged(p, t)
    OBVIOUS
  <2>1. t \in Tracked
    BY <1>5 DEF Tracked, Steady, Type
  <2>2. x.sequence >= Settled(p, t)
    <3>1. CASE t = "ojama"
      BY <1>2, <1>3, <1>5, <1>6, <3>1 DEF Settled, Receives
    <3>2. CASE t # "ojama"
      BY <1>5, <3>2 DEF Settled
    <3> QED
      BY <3>1, <3>2
  <2>3. Settled(p, t) <= Logged(p, t)
    BY <1>1, <1>5, SettledBehind
  <2>4. x.sequence = Logged(p, t)
    BY <1>1, <1>2, <1>3, <2>1, <2>2, <2>3, NextIsLogged DEF IsData
  <2> QED
    BY <1>2, <1>3, <1>5, <1>6, <2>4 DEF Receives, Type
<1>10. Settled(p, "ojama")' = Logged(p, "ojama")
  <2>1. phase'[p] = "idle"
    BY <1>1, <1>2 DEF Break, Return, ModeTypes
  <2> QED
    BY <1>2, <2>1 DEF Settled, Logged
<1> HIDE DEF n, q
<1>11. PICK c : c = y
  OBVIOUS
<1> HIDE DEF y
<1>12. Joins(q, c) /\ Same(p)
  BY <1>1, <1>2, <1>3, <1>7, <1>11, BrokenAndSent DEF q
<1>13. c.kind = "ack" /\ c.type # "block" =>
          c.type \in Steady /\ c.sequence < Settled(Other(q), c.type)'
  <2> SUFFICES ASSUME c.type # "block"
               PROVE  c.type \in Steady /\ c.sequence < Settled(Other(q), c.type)'
    OBVIOUS
  <2>1. c.type = "ojama" /\ c.sequence < Logged(p, "ojama")
    BY <1>7, <1>9, <1>11
  <2> QED
    BY <1>8, <1>10, <2>1 DEF Steady
<1>14. Says(q, c)
  BY <1>2, <1>7, <1>8, <1>11, <1>12, <1>13 DEF Says
<1> QED
  BY <1>3, <1>8, <1>14 DEF Moves

LEMMA NothingMissing ==
  ASSUME NEW p \in Peer, raw[p] = <<>>
  PROVE  MissingRequests(p) = <<>>
<1> DEFINE missing == (0..2) \ initialProcessed
           askable == {n \in missing : \A m \in missing : m <= n => m < Len(raw[p])}
           ask(n) == IF n \in askable THEN <<Request(raw[p][n + 1].type, n)>> ELSE <<>>
<1>1. Len(raw[p]) = 0
  BY EmptySeq
<1>2. \A n \in 0..2 : n \notin askable
  BY <1>1
<1> HIDE DEF askable
<1>3. ask(0) = <<>> /\ ask(1) = <<>> /\ ask(2) = <<>>
  BY <1>2
<1>4. <<>> \o <<>> = <<>>
  BY EmptySeq, ConcatEmptySeq
<1>5. MissingRequests(p) = (ask(0) \o ask(1)) \o ask(2)
  BY DEF MissingRequests, askable
<1> HIDE DEF ask
<1> QED
  BY <1>3, <1>4, <1>5

\* The client tells the server when it has its blocks, and that ends the setup.
LEMMA MovesClientConnected ==
  ASSUME TypeOK, Loops, ClientConnected
  PROVE  IF initialProcessed = 0..2
         THEN Says("server", CreationDone) /\ handler'["client"] = "onInitialize" /\ Setup
         ELSE Rests /\ UNCHANGED handler
<1>0. Other("server") = "client" /\ "client" \in Peer /\ "server" \in Peer
      /\ Other("client") = "server" /\ PacketTypes /\ ModeTypes
  BY DEF Other, Peer, TypeOK
<1>1. UNCHANGED <<queue, raw, todo, seqNo, received>> /\ phase["client"] = "connecting"
  BY DEF ClientConnected, dataVars
<1>2. raw["client"] = <<>> /\ Setup
  BY <1>0, <1>1 DEF Loops, LoopOf, Setup
<1>3. CASE initialProcessed = 0..2
  <2>1. SendTo("server", <<CreationDone>>) /\ handler'["client"] = "onInitialize"
    BY <1>0, <1>3 DEF ClientConnected, ModeTypes
  <2>2. CreationDone \in Packet /\ CreationDone.kind = "created"
    BY PacketsMade DEF CreationDone
  <2>3. Joins("server", CreationDone) /\ Same("client")
    BY <1>0, <1>1, <2>1, <2>2, SentJoins
  <2> QED
    BY <1>0, <1>1, <1>2, <1>3, <2>1, <2>2, <2>3 DEF Says, Setup
<1>4. CASE initialProcessed # 0..2
  <2>1. SendTo("server", MissingRequests("client")) /\ UNCHANGED handler
    BY <1>4 DEF ClientConnected
  <2>2. net' = [net EXCEPT !["server"] = net["server"] \o <<>>]
    BY <1>0, <1>2, <2>1, NothingMissing DEF SendTo
  <2>3. net["server"] \o <<>> = net["server"] /\ net \in [Peer -> Seq(Packet)]
    BY <1>0, ConcatEmptySeq DEF PacketTypes
  <2>4. UNCHANGED net
    BY <2>2, <2>3
  <2> QED
    BY <1>1, <1>4, <2>1, <2>4, AllSame DEF Rests
<1> QED
  BY <1>3, <1>4

\* Every step of the reliable channel is one of the Moves.
LEMMA EveryMove ==
  ASSUME Reliable, TypeOK, TypeOK', ReliableInv, Next
  PROVE  Moves
<1>0. PacketTypes /\ NumberTypes /\ ModeTypes /\ BoundTypes /\ Loops
  BY DEF TypeOK, ReliableInv, ControlInv
<1> USE DEF loopVars, dataVars, setupVars, boundVars
<1>a. ASSUME UNCHANGED <<raw, todo, queue, net, seqNo, received>>
      PROVE  Moves
  BY <1>a, AllSame DEF Moves, Rests
<1>b. ASSUME NEW p \in Peer, NEW x \in Packet, SendTo(Other(p), <<x>>), x.kind # "data",
             x.kind = "ack" => x.type = "block", x.kind # "created",
             UNCHANGED <<raw, todo, queue, seqNo, received>>
      PROVE  Moves
  <2>1. Other(p) \in Peer
    BY PeerPair
  <2>2. Joins(Other(p), x) /\ Same(Other(Other(p)))
    BY <1>0, <1>b, <2>1, SentJoins
  <2>3. Says(Other(p), x)
    BY <1>b, <2>2 DEF Says
  <2> QED
    BY <2>1, <2>3 DEF Moves
<1> SUFFICES ASSUME NEW p \in Peer,
                    \/ Open(p) \/ Deliver(p) \/ Lose(p) \/ Duplicate(p) \/ Handle(p)
                    \/ \E t \in Type : Send(p, t)
                    \/ AskBlock(p) \/ LoseGame(p)
             PROVE  Moves
  BY DEF Next
<1>1. CASE Open(p)
  BY <1>1, <1>a DEF Open
<1>2. CASE Deliver(p)
  BY <1>0, <1>2, DeliveredSame DEF Deliver, Reliable, Moves, Rests
<1>3. CASE Lose(p) \/ Duplicate(p)
  BY <1>0, <1>3 DEF Lose, Duplicate, Reliable, BoundTypes
<1>4. CASE p = "server" /\ ServerConnects
  <2>1. CASE queue["server"] # <<>>
    <3>1. Forgets("server", 1)
      BY <1>4, <2>1, MovesServerConnects
    <3>2. 1 \in 1..Len(Around("server"))
      BY <3>1 DEF Forgets, Leaves
    <3> QED
      BY <1>4, <3>1, <3>2 DEF Moves
  <2>2. CASE queue["server"] = <<>>
    BY <1>4, <2>2, MovesServerConnects DEF Moves
  <2> QED
    BY <2>1, <2>2
<1>5. CASE p = "server" /\ ServerConnected
  BY <1>0, <1>5 DEF ServerConnected, Loops, LoopOf
<1>6. CASE p = "client" /\ ClientConnects
  <2>1. todo["client"] = <<>> /\ UNCHANGED <<net, seqNo, received>>
    BY <1>0, <1>6 DEF Loops, LoopOf, ClientConnects, Fire
  <2>2. UNCHANGED <<queue, raw, todo>> \/ ReadAll("client", "connecting")
    BY <1>6 DEF ClientConnects
  <2> QED
    BY <1>0, <1>6, <1>a, <2>1, <2>2, ReadSame DEF Moves, Rests
<1>7. CASE p = "client" /\ ClientConnected
  <2>1. "server" \in Peer
    BY DEF Peer
  <2>2. Says("server", CreationDone) \/ Rests
    BY <1>0, <1>7, MovesClientConnected
  <2> QED
    BY <2>1, <2>2 DEF Moves
<1>8. CASE OnInitialize(p)
  BY <1>8, <1>a DEF OnInitialize
<1>9. CASE OnReceived(p)
  <2>1. todo[p] = <<>> /\ UNCHANGED <<net, seqNo, received>> /\ handler[p] = "onReceived"
    BY <1>0, <1>9 DEF Loops, LoopOf, OnReceived, Fire
  <2>2. p = "client" \/ handler["server"] # "onConnectionComplete"
    BY <2>1 DEF Peer
  <2>3. ~ReadFails(p)
    BY <2>2, NoCreatedQueued
  <2>4. UNCHANGED <<queue, raw, todo>> \/ ReadAll(p, "receiving")
    BY <1>9, <2>3 DEF OnReceived
  <2> QED
    BY <1>0, <1>a, <2>1, <2>4, ReadSame DEF Moves, Rests
<1>10. CASE Received(p)
  BY <1>10, <1>a DEF Received
<1>11. ASSUME NEW i \in 1..Len(todo[p]), Loop(p, i)
       PROVE  Moves
  <2>1. CASE p = "server" /\ ServerConnecting(i)
    BY <1>0, <2>1 DEF ServerConnecting, Loops, LoopOf
  <2>2. CASE p = "client" /\ ClientConnecting(i)
    <3>1. Takes("client", i, "block") /\ i \in 1..Len(todo["client"])
      BY <1>11, <2>2, MovesClientConnecting
    <3>2. i \in 1..Len(Around("client"))
      BY <3>1 DEF Takes, Leaves
    <3> QED
      BY <2>2, <3>1, <3>2 DEF Moves, Type
  <2>3. CASE Answer(p, i)
    BY <2>3, MovesAnswer
  <2>4. CASE DropDuplicate(p, i)
    BY <2>4, MovesDropDuplicate
  <2>5. CASE Process(p, i)
    <3>1. Takes(p, i, todo[p][i].type) /\ todo[p][i].type \in Type
      BY <2>5, MovesProcess
    <3>2. i \in 1..Len(Around(p))
      BY <3>1 DEF Takes, Leaves
    <3> QED
      BY <3>1, <3>2 DEF Moves
  <2>6. CASE ReportLoss(p, i)
    BY <2>6, MovesReportLoss
  <2>7. CASE ReceiveGameOver(p, i)
    <3>1. raw[p] = <<>>
      BY <2>7, InLoop DEF ReceiveGameOver, Receiving, Receives
    <3> QED
      BY <1>0, <2>7, <3>1, BrokenSame DEF ReceiveGameOver, Moves, Rests
  <2> QED
    BY <1>11, <2>1, <2>2, <2>3, <2>4, <2>5, <2>6, <2>7 DEF Loop
<1>12. ASSUME NEW t \in Type, Send(p, t)
       PROVE  Moves
  <2>1. Data(t, seqNo[p][t]) \in Packet
    BY <1>0, NumbersOf, PacketsMade
  <2>2. Joins(Other(p), Data(t, seqNo[p][t])) /\ Same(Other(Other(p)))
    BY <1>0, <1>12, <2>1, PeerPair, SentJoins DEF Send
  <2>3. Sent(p, t)
    BY <1>12, <2>2, OthersDiffer DEF Send, Sent
  <2> QED
    BY <2>3 DEF Moves
<1>13. CASE AskBlock(p)
  <2> DEFINE n == LatestSequenceNumber(p, "block")
             x == Request("block", n)
  <2>1. n \in Nat
    BY <1>0, LatestType DEF Type
  <2>2. x \in Packet /\ x.kind = "ack" /\ x.type = "block"
    BY <2>1, PacketsMade DEF Request, Type
  <2>3. SendTo(Other(p), <<x>>) /\ UNCHANGED <<raw, todo, queue, seqNo, received>>
    BY <1>13 DEF AskBlock
  <2> HIDE DEF x
  <2>4. PICK c : c = x
    OBVIOUS
  <2> QED
    BY <1>b, <2>2, <2>3, <2>4
<1>14. CASE LoseGame(p)
  <2> DEFINE user == IF p = Loser THEN "puzzleUserLayer1" ELSE "puzzleUserLayer2"
  <2>1. GameOver(user) \in Packet /\ GameOver(user).kind = "gameover"
    BY PacketsMade DEF GameOver, UserLayer
  <2> QED
    BY <1>14, <1>b, <2>1 DEF LoseGame
<1> QED
  BY <1>1, <1>2, <1>3, <1>4, <1>5, <1>6, <1>7, <1>8, <1>9, <1>10, <1>11, <1>12, <1>13, <1>14
  DEF Handle
--------------------------------------------------------------------------------
(* The loops, the lines and the logs through a step.                              *)

\* What a step leaves alone, the loop of a peer does not notice.
Untouched(q) ==
  /\ handler'[q] = handler[q] /\ phase'[q] = phase[q]
  /\ raw'[q] = raw[q] /\ todo'[q] = todo[q]
  /\ expected'[q] = expected[q] /\ known'[q] = known[q] /\ received'[q] = received[q]

LoopGoesOn(q) == LoopOf(q)' /\ Settled(q, "ojama") <= Settled(q, "ojama")'

LEMMA UntouchedGoesOn ==
  ASSUME TypeOK, Loops, NEW q \in Peer, Untouched(q)
  PROVE  LoopGoesOn(q)
<1>1. NumberTypes
  BY DEF TypeOK
<1>2. Settled(q, "ojama") \in Nat
  BY <1>1, NumbersOf DEF Type
<1>3. Settled(q, "ojama")' = Settled(q, "ojama")
  BY DEF Untouched, Settled, Logged
<1>4. LoopOf(q)'
  <2>1. LoopOf(q)
    BY DEF Loops
  <2> QED
    BY <2>1 DEF Untouched, LoopOf, Receives, Logged
<1> QED
  BY <1>2, <1>3, <1>4 DEF LoopGoesOn

\* A loop that is over: more packets are settled than prevSeqOjama said.
LEMMA ReturnGoesOn ==
  ASSUME TypeOK, Loops, NEW p \in Peer, phase[p] = "receiving", Return(p),
         todo'[p] = <<>>, UNCHANGED <<handler, received>>
  PROVE  LoopGoesOn(p) /\ \A q \in Peer \ {p} : phase'[q] = phase[q]
                              /\ expected'[q] = expected[q] /\ known'[q] = known[q]
<1>1. NumberTypes /\ ModeTypes
  BY DEF TypeOK
<1>2. phase'[p] = "idle" /\ \A q \in Peer \ {p} : phase'[q] = phase[q]
                              /\ expected'[q] = expected[q] /\ known'[q] = known[q]
  BY <1>1 DEF Return, NumberTypes, ModeTypes
<1>3. Settled(p, "ojama")' = Logged(p, "ojama")
  BY <1>2 DEF Settled, Logged
<1>4. Settled(p, "ojama") <= Logged(p, "ojama")
  BY SettledBehind DEF Type
<1>5. handler[p] = "onReceived"
  BY DEF Loops, LoopOf, Receives
<1> QED
  BY <1>2, <1>3, <1>4, <1>5 DEF LoopGoesOn, LoopOf

\* A step of a loop that neither begins nor ends it.
LEMMA DropGoesOn ==
  ASSUME TypeOK, Loops, NEW p \in Peer, NEW i \in 1..Len(todo[p]), Drop(p, i),
         phase[p] = "receiving", UNCHANGED <<handler, phase, expected, known, received>>
  PROVE  \A q \in Peer : LoopGoesOn(q)
<1>1. NumberTypes /\ PacketTypes
  BY DEF TypeOK
<1>2. \A q \in Peer \ {p} : Untouched(q)
  BY <1>1 DEF Drop, Untouched, PacketTypes
<1>3. Settled(p, "ojama")' = Settled(p, "ojama") /\ Settled(p, "ojama") \in Nat
  BY <1>1, NumbersOf DEF Settled, Logged, Type
<1>4. LoopOf(p)'
  <2>1. LoopOf(p) /\ raw' = raw
    BY DEF Loops, Drop
  <2> QED
    BY <2>1 DEF LoopOf, Receives, Logged
<1> QED
  BY <1>2, <1>3, <1>4, UntouchedGoesOn DEF LoopGoesOn

LEMMA LoggedGrows ==
  ASSUME TypeOK, NEW p \in Peer, NEW t \in Type,
         received' = [received EXCEPT ![p][t] = Append(@, Logged(p, t))]
  PROVE  /\ Logged(p, t)' = Logged(p, t) + 1
         /\ \A u \in Type \ {t} : received'[p][u] = received[p][u]
         /\ received'[p][t] = Append(received[p][t], Logged(p, t))
         /\ received'[Other(p)] = received[Other(p)]
<1>1. received \in [Peer -> [Type -> Seq(Nat)]]
  BY DEF TypeOK, NumberTypes
<1>2. received'[p] = [received[p] EXCEPT ![t] = Append(received[p][t], Logged(p, t))]
  BY <1>1
<1>3. received'[p][t] = Append(received[p][t], Logged(p, t))
      /\ \A u \in Type \ {t} : received'[p][u] = received[p][u]
  BY <1>1, <1>2
<1>4. received[p][t] \in Seq(Nat) /\ Logged(p, t) \in Nat
  BY NumbersOf DEF TypeOK
<1>5. Len(Append(received[p][t], Logged(p, t))) = Len(received[p][t]) + 1
  BY <1>4, AppendProperties
<1>6. received'[Other(p)] = received[Other(p)]
  BY <1>1, PeerPair, OthersDiffer
<1> QED
  BY <1>3, <1>5, <1>6 DEF Logged

\* The loops keep what they take for granted.
LEMMA LoopsKept ==
  ASSUME Reliable, TypeOK, TypeOK', ReliableInv, Next
  PROVE  \A q \in Peer : LoopGoesOn(q)
<1>0. PacketTypes /\ NumberTypes /\ ModeTypes /\ BoundTypes /\ Loops /\ AllInOrder
  BY DEF TypeOK, ReliableInv, ControlInv, LinesInv
<1> USE DEF loopVars, dataVars, setupVars, boundVars
<1> DEFINE Goal == \A q \in Peer : LoopGoesOn(q)
<1>a. ASSUME UNCHANGED <<raw, todo, handler, phase, expected, known, received>>
      PROVE  Goal
  BY <1>0, <1>a, UntouchedGoesOn DEF Untouched
<1>b. ASSUME NEW p \in Peer, LoopGoesOn(p), \A q \in Peer \ {p} : Untouched(q)
      PROVE  Goal
  BY <1>0, <1>b, UntouchedGoesOn
<1>c. ASSUME NEW p \in Peer
      PROVE  Settled(p, "ojama") \in Nat /\ Logged(p, "ojama") \in Nat
  BY <1>0, <1>c, NumbersOf DEF Type
<1> HIDE DEF Goal
<1> SUFFICES ASSUME NEW p \in Peer,
                    \/ Open(p) \/ Deliver(p) \/ Lose(p) \/ Duplicate(p) \/ Handle(p)
                    \/ \E t \in Type : Send(p, t)
                    \/ AskBlock(p) \/ LoseGame(p)
             PROVE  Goal
  BY DEF Next, Goal
<1>1. CASE \/ Open(p) \/ Deliver(p) \/ Lose(p) \/ Duplicate(p) \/ AskBlock(p) \/ LoseGame(p)
           \/ \E t \in Type : Send(p, t)
  BY <1>1, <1>a DEF Open, Deliver, Lose, Duplicate, AskBlock, LoseGame, Send
<1>2. CASE p = "server" /\ ServerConnects
  <2>1. raw[p] = <<>> /\ todo[p] = <<>> /\ phase[p] = "idle" /\ handler[p] = "onConnectionComplete"
        /\ (queue[p] # <<>> => Head(queue[p]) = CreationDone)
    BY <1>2, ServerPopsFirst DEF ServerConnects, Fire
  <2>2. UNCHANGED <<raw, todo, phase, expected, known, received>>
        /\ (UNCHANGED handler \/ handler' = [handler EXCEPT !["server"] = "onInitialize"])
    BY <1>2, <2>1 DEF ServerConnects
  <2>3. \A q \in Peer \ {p} : Untouched(q)
    BY <1>0, <1>2, <2>2 DEF Untouched, ModeTypes
  <2>4. Settled(p, "ojama")' = Settled(p, "ojama")
    BY <2>2 DEF Settled, Logged
  <2>5. LoopOf(p)'
    BY <2>1, <2>2 DEF LoopOf
  <2> QED
    BY <1>b, <1>c, <2>3, <2>4, <2>5 DEF LoopGoesOn
<1>3. CASE p = "server" /\ ServerConnected
  BY <1>0, <1>3 DEF ServerConnected, Loops, LoopOf
<1>4. CASE p = "client" /\ ClientConnects
  <2>1. CASE UNCHANGED <<raw, todo, phase>>
    BY <1>4, <2>1, <1>a DEF ClientConnects
  <2>2. CASE ReadAll("client", "connecting")
    <3>1. phase[p] = "idle" /\ handler[p] = "onConnectionComplete"
          /\ UNCHANGED <<handler, expected, known, received>>
      BY <1>4 DEF ClientConnects, Fire
    <3>2. phase'[p] = "connecting" /\ raw'[p] = <<>>
      BY <1>0, <1>4, <2>2 DEF ReadAll, ModeTypes, PacketTypes
    <3>3. \A q \in Peer \ {p} : Untouched(q)
      BY <1>0, <1>4, <2>2, <3>1 DEF ReadAll, Untouched, ModeTypes, PacketTypes
    <3>4. Settled(p, "ojama")' = Settled(p, "ojama")
      BY <3>1, <3>2 DEF Settled, Logged
    <3>5. LoopOf(p)'
      BY <1>4, <3>1, <3>2 DEF LoopOf
    <3> QED
      BY <1>b, <1>c, <3>3, <3>4, <3>5 DEF LoopGoesOn
  <2> QED
    BY <1>4, <2>1, <2>2 DEF ClientConnects
<1>5. CASE p = "client" /\ ClientConnected
  <2>1. /\ phase[p] = "connecting" /\ todo[p] = <<>>
        /\ phase' = [phase EXCEPT ![p] = "idle"]
        /\ UNCHANGED handler \/ handler' = [handler EXCEPT ![p] = "onInitialize"]
        /\ UNCHANGED <<raw, todo, expected, known, received>>
    BY <1>5 DEF ClientConnected
  <2>2. raw[p] = <<>> /\ handler[p] = "onConnectionComplete"
    BY <1>0, <2>1 DEF Loops, LoopOf
  <2>3. phase'[p] = "idle" /\ \A q \in Peer \ {p} : Untouched(q)
    BY <1>0, <2>1 DEF Untouched, ModeTypes
  <2>4. Settled(p, "ojama")' = Settled(p, "ojama")
    BY <2>1, <2>3 DEF Settled, Logged
  <2>5. LoopOf(p)'
    BY <2>1, <2>2, <2>3 DEF LoopOf
  <2> QED
    BY <1>b, <1>c, <2>3, <2>4, <2>5 DEF LoopGoesOn
<1>6. CASE OnInitialize(p)
  <2>1. /\ phase[p] = "idle" /\ handler' = [handler EXCEPT ![p] = "onReceived"]
        /\ UNCHANGED <<raw, todo, phase, expected, known, received>>
    BY <1>6 DEF OnInitialize, Fire
  <2>2. handler'[p] = "onReceived" /\ \A q \in Peer \ {p} : Untouched(q)
    BY <1>0, <2>1 DEF Untouched, ModeTypes
  <2>3. Settled(p, "ojama")' = Settled(p, "ojama")
    BY <2>1 DEF Settled, Logged
  <2>4. LoopOf(p)'
    BY <1>0, <2>1, <2>2 DEF Loops, LoopOf
  <2> QED
    BY <1>b, <1>c, <2>2, <2>3, <2>4 DEF LoopGoesOn
<1>7. CASE OnReceived(p)
  <2>1. /\ phase[p] = "idle" /\ handler[p] = "onReceived" /\ UNCHANGED <<handler, received>>
    BY <1>7 DEF OnReceived, Fire
  <2>2. ~ReadFails(p)
    BY <2>1, NoCreatedQueued DEF Peer
  <2>3. CASE UNCHANGED <<raw, todo, phase, expected, known>>
    BY <2>1, <2>3, <1>a
  <2>4. CASE /\ ReadAll(p, "receiving")
             /\ expected' = [expected EXCEPT ![p] = [t \in Type |-> LatestSequenceNumber(p, t)]]
             /\ known' = [known EXCEPT ![p] = ReceivedDataMap(p)]
    <3>1. phase'[p] = "receiving" /\ raw'[p] = <<>> /\ handler'[p] = "onReceived"
      BY <1>0, <2>1, <2>4 DEF ReadAll, ModeTypes, PacketTypes
    <3>2. \A q \in Peer \ {p} : Untouched(q)
      BY <1>0, <2>1, <2>4 DEF ReadAll, Untouched, ModeTypes, PacketTypes, NumberTypes
    <3>3. \A t \in Type : expected'[p][t] = Logged(p, t)
      BY <1>0, <2>4, LatestInOrder DEF AllInOrder, NumberTypes, Logged
    <3>4. known'[p] = ReceivedDataMap(p)
      BY <1>0, <2>4 DEF NumberTypes
    <3>5. \A t \in Type : Logged(p, t)' = Logged(p, t) /\ Logged(p, t) \in Nat
      BY <1>0, <2>1, NumbersOf DEF Logged
    <3>6. \A t \in Type, n \in Nat : <<t, n>> \in known'[p] <=> n < Logged(p, t)
      BY <1>0, <3>4, KnownIsLogged
    <3>7. Receives(p)'
      <4>1. \A n \in Nat : <<"ojama", n>> \in known'[p] <=> n < Logged(p, "ojama")
        BY <3>6 DEF Type
      <4>2. \A n \in Nat : <<"input", n>> \in known'[p] <=> n < Logged(p, "input")
        BY <3>6 DEF Type
      <4>3. /\ expected'[p]["input"] = Logged(p, "input") /\ expected'[p]["block"] = Logged(p, "block")
            /\ expected'[p]["ojama"] = Logged(p, "ojama")
            /\ Logged(p, "input")' = Logged(p, "input") /\ Logged(p, "block")' = Logged(p, "block")
            /\ Logged(p, "ojama")' = Logged(p, "ojama") /\ Logged(p, "ojama") \in Nat
        BY <3>3, <3>5 DEF Type
      <4> QED
        BY <3>1, <4>1, <4>2, <4>3 DEF Receives
    <3>8. LoopOf(p)'
      BY <3>1, <3>7 DEF LoopOf
    <3>9. Settled(p, "ojama")' = Settled(p, "ojama")
      BY <2>1, <3>1, <3>3 DEF Settled, Type
    <3> QED
      BY <1>b, <1>c, <3>2, <3>8, <3>9 DEF LoopGoesOn
  <2> QED
    BY <1>7, <2>2, <2>3, <2>4 DEF OnReceived
<1>8. CASE Received(p)
  <2>1. phase[p] = "receiving" /\ todo[p] = <<>> /\ Return(p) /\ UNCHANGED <<handler, received, raw, todo>>
    BY <1>8 DEF Received
  <2>2. LoopGoesOn(p) /\ \A q \in Peer \ {p} : Untouched(q)
    BY <1>0, <2>1, ReturnGoesOn DEF Untouched
  <2> QED
    BY <1>b, <2>2
<1>9. ASSUME NEW i \in 1..Len(todo[p]), Loop(p, i)
      PROVE  Goal
  <2>1. CASE p = "server" /\ ServerConnecting(i)
    BY <1>0, <2>1 DEF ServerConnecting, Loops, LoopOf
  <2>2. CASE p = "client" /\ ClientConnecting(i)
    <3>1. UNCHANGED <<handler, phase, expected, known, raw>>
          /\ received' = [received EXCEPT ![p]["block"] = Append(@, Logged(p, "block"))]
          /\ todo' = [todo EXCEPT ![p] = Without(@, i)]
      BY <1>9, <2>2, MovesClientConnecting DEF Takes, ClientConnecting, Drop, Keep
    <3>2. phase[p] = "connecting" /\ LoopOf(p)
      BY <1>0, <2>2 DEF ClientConnecting, Loops
    <3>3. \A q \in Peer \ {p} : Untouched(q)
      BY <1>0, <3>1 DEF Untouched, PacketTypes, NumberTypes
    <3>4. Logged(p, "ojama")' = Logged(p, "ojama")
      BY <3>1, LoggedGrows DEF Logged, Type
    <3>5. Settled(p, "ojama")' = Settled(p, "ojama")
      BY <3>1, <3>2, <3>4 DEF Settled
    <3>6. LoopOf(p)'
      BY <3>1, <3>2 DEF LoopOf
    <3> QED
      BY <1>b, <1>c, <3>3, <3>5, <3>6 DEF LoopGoesOn
  <2>3. CASE Answer(p, i) \/ DropDuplicate(p, i)
    <3>1. Drop(p, i) /\ phase[p] = "receiving" /\ UNCHANGED <<handler, expected, known, received>>
      BY <2>3 DEF Answer, DropDuplicate, Receiving
    <3>2. UNCHANGED phase
      BY <1>9, <2>3, MovesAnswer DEF DropDuplicate
    <3> QED
      BY <1>0, <1>9, <3>1, <3>2, DropGoesOn DEF Goal
  <2>4. CASE Process(p, i)
    <3>1. PICK t \in Type :
             /\ t = todo[p][i].type /\ todo[p][i].sequence = Logged(p, t)
             /\ expected[p][t] = Logged(p, t)
             /\ received' = [received EXCEPT ![p][t] = Append(@, Logged(p, t))]
             /\ UNCHANGED raw
      BY <1>9, <2>4, MovesProcess DEF Takes
    <3>2. /\ UNCHANGED <<handler, phase, known>>
          /\ expected' = IF t = "ojama" THEN expected
                         ELSE [expected EXCEPT ![p][t] = Logged(p, t) + 1]
          /\ todo' = [todo EXCEPT ![p] = Without(@, i)]
          /\ phase[p] = "receiving"
      BY <2>4, <3>1 DEF Process, Receiving, Drop
    <3>3. \A q \in Peer \ {p} : Untouched(q)
      BY <1>0, <3>1, <3>2 DEF Untouched, PacketTypes, NumberTypes
    <3>4. Receives(p) /\ LoopOf(p)
      BY <1>0, <3>2 DEF Loops, LoopOf
    <3>5. /\ Logged(p, t)' = Logged(p, t) + 1 /\ Logged(p, t) \in Nat
          /\ \A u \in Type \ {t} : Logged(p, u)' = Logged(p, u)
      BY <1>0, <3>1, LoggedGrows, NumbersOf DEF Logged
    <3>6. \A u \in Type : expected'[p][u] = IF u = t /\ t # "ojama" THEN Logged(p, t) + 1
                                            ELSE expected[p][u]
      BY <1>0, <3>1, <3>2 DEF NumberTypes
    <3>7. /\ \A u \in Type : Logged(p, u) \in Nat /\ expected[p][u] \in Nat
          /\ \A u \in Type : Logged(p, u) <= Logged(p, u)'
      BY <1>0, <3>5, NumbersOf
    <3>8. Receives(p)'
      <4>0. "input" \in Type /\ "block" \in Type /\ "ojama" \in Type
        BY DEF Type
      <4>1. expected'[p]["input"] = Logged(p, "input")'
        BY <3>1, <3>4, <3>5, <3>6, <4>0 DEF Receives
      <4>2. expected'[p]["block"] = Logged(p, "block")'
        BY <3>1, <3>4, <3>5, <3>6, <4>0 DEF Receives
      <4>3. expected'[p]["ojama"] = expected[p]["ojama"]
        BY <3>6, <4>0
      <4>4. expected[p]["ojama"] <= Logged(p, "ojama")' /\ Logged(p, "ojama")' <= expected[p]["ojama"] + 1
        BY <3>1, <3>4, <3>5, <3>7, <4>0 DEF Receives
      <4>5. \A m \in Nat : <<"input", m>> \in known'[p] => m < Logged(p, "input")'
        <5>1. Logged(p, "input") <= Logged(p, "input")' /\ Logged(p, "input") \in Nat
              /\ Logged(p, "input")' \in Nat
          BY <3>5, <3>7, <4>0
        <5> QED
          BY <3>2, <3>4, <5>1 DEF Receives
      <4> QED
        BY <3>1, <3>2, <3>4, <4>1, <4>2, <4>3, <4>4, <4>5 DEF Receives
    <3>9. LoopOf(p)'
      BY <3>1, <3>2, <3>4, <3>8 DEF LoopOf
    <3>10. Settled(p, "ojama")' = Settled(p, "ojama")
      BY <3>2, <3>6 DEF Settled, Type
    <3> QED
      BY <1>b, <1>c, <3>3, <3>9, <3>10 DEF LoopGoesOn
  <2>5. CASE ReportLoss(p, i) \/ ReceiveGameOver(p, i)
    <3>1. phase[p] = "receiving" /\ Break(p) /\ UNCHANGED <<handler, received>>
      BY <2>5 DEF ReportLoss, ReceiveGameOver, Receiving
    <3>2. Return(p) /\ todo'[p] = <<>> /\ \A q \in Peer \ {p} : todo'[q] = todo[q] /\ raw'[q] = raw[q]
      BY <1>0, <3>1 DEF Break, PacketTypes
    <3>3. LoopGoesOn(p) /\ \A q \in Peer \ {p} : Untouched(q)
      BY <1>0, <3>1, <3>2, ReturnGoesOn DEF Untouched
    <3> QED
      BY <1>b, <3>3
  <2> QED
    BY <1>9, <2>1, <2>2, <2>3, <2>4, <2>5 DEF Loop
<1> QED
  BY <1>1, <1>2, <1>3, <1>4, <1>5, <1>6, <1>7, <1>8, <1>9 DEF Handle

\* The numbers sent and the logs only grow.
LEMMA SentOne ==
  ASSUME NumberTypes, NEW p \in Peer, NEW t \in Type, seqNo' = [seqNo EXCEPT ![p][t] = @ + 1]
  PROVE  \A q \in Peer, u \in Type :
            seqNo'[q][u] = IF q = p /\ u = t THEN seqNo[q][u] + 1 ELSE seqNo[q][u]
<1>1. seqNo \in [Peer -> [Type -> Nat]]
  BY DEF NumberTypes
<1>2. seqNo'[p] = [seqNo[p] EXCEPT ![t] = seqNo[p][t] + 1]
  BY <1>1
<1>3. \A u \in Type : seqNo'[p][u] = IF u = t THEN seqNo[p][u] + 1 ELSE seqNo[p][u]
  BY <1>1, <1>2
<1>4. \A q \in Peer \ {p} : seqNo'[q] = seqNo[q]
  BY <1>1
<1> QED
  BY <1>3, <1>4

LEMMA SentThree ==
  ASSUME NumberTypes, SentInitial
  PROVE  \A q \in Peer, u \in Type :
            seqNo'[q][u] = IF q = "server" /\ u = "block" THEN seqNo[q][u] + 3 ELSE seqNo[q][u]
<1>1. seqNo \in [Peer -> [Type -> Nat]] /\ "server" \in Peer /\ "block" \in Type
      /\ seqNo' = [seqNo EXCEPT !["server"]["block"] = @ + 3]
  BY DEF NumberTypes, SentInitial, Peer, Type
<1>2. seqNo'["server"] = [seqNo["server"] EXCEPT !["block"] = seqNo["server"]["block"] + 3]
  BY <1>1
<1>3. \A u \in Type :
         seqNo'["server"][u] = IF u = "block" THEN seqNo["server"][u] + 3 ELSE seqNo["server"][u]
  BY <1>1, <1>2
<1>4. \A q \in Peer \ {"server"} : seqNo'[q] = seqNo[q]
  BY <1>1
<1> QED
  BY <1>3, <1>4

LEMMA NumbersGrow ==
  ASSUME TypeOK, TypeOK', Moves
  PROVE  \A q \in Peer, u \in Type : seqNo[q][u] <= seqNo'[q][u]
<1>1. NumberTypes
  BY DEF TypeOK
<1>2. \A q \in Peer, u \in Type : seqNo[q][u] \in Nat
  BY <1>1, NumbersOf
<1>3. CASE SentInitial
  <2>1. \A q \in Peer, u \in Type :
           seqNo'[q][u] = IF q = "server" /\ u = "block" THEN seqNo[q][u] + 3 ELSE seqNo[q][u]
    BY <1>1, <1>3, SentThree
  <2> QED
    BY <1>2, <2>1
<1>4. ASSUME NEW p \in Peer, NEW t \in Type, seqNo' = [seqNo EXCEPT ![p][t] = @ + 1]
      PROVE  \A q \in Peer, u \in Type : seqNo[q][u] <= seqNo'[q][u]
  <2>1. \A q \in Peer, u \in Type :
           seqNo'[q][u] = IF q = p /\ u = t THEN seqNo[q][u] + 1 ELSE seqNo[q][u]
    BY <1>1, <1>4, SentOne
  <2> QED
    BY <1>2, <2>1
<1>5. CASE UNCHANGED seqNo
  BY <1>2, <1>5
<1>6. "block" \in Type
  BY DEF Type
<1> QED
  BY <1>3, <1>4, <1>5, <1>6 DEF Moves, Rests, Says, Sent, Forgets, Takes, Repeats, MakesUp

\* What joins a line is data that was sent, or asks for what was processed.
Fair(q, x) ==
  \/ x.kind = "data" /\ x.type \in Type /\ x.sequence < seqNo'[Other(q)][x.type]
  \/ /\ x.kind # "data" /\ AskedFor(q, x)'
     /\ x.kind = "created" => q = "server" /\ Setup /\ ~Setup'

LEMMA MembersOfJoin ==
  ASSUME PacketTypes, NEW q \in Peer, NEW x \in Packet, Joins(q, x)
  PROVE  Members(Around(q)') = Members(Around(q)) \cup {x}
<1>1. Around(q) \in Seq(Packet)
  BY LineOfPackets
<1> QED
  BY <1>1, MembersJoin DEF Joins

LEMMA MembersOfLeave ==
  ASSUME PacketTypes, NEW q \in Peer, NEW i \in Nat, Leaves(q, i)
  PROVE  Members(Around(q)') \subseteq Members(Around(q))
<1>1. Around(q) \in Seq(Packet)
  BY LineOfPackets
<1> QED
  BY <1>1, MembersLeave DEF Leaves

LEMMA NewMembers ==
  ASSUME TypeOK, TypeOK', ReliableInv, Moves, NEW q \in Peer, NEW x \in Members(Around(q)')
  PROVE  x \in Members(Around(q)) \/ Fair(q, x)
<1>1. PacketTypes /\ NumberTypes /\ Behind /\ Loops
  BY DEF TypeOK, ReliableInv, LinesInv, ControlInv
<1>2. \A p \in Peer : Other(p) \in Peer /\ Other(p) # p /\ Other(Other(p)) = p /\ (q = p \/ q = Other(p))
  BY PeerPair, OthersDiffer
<1>a. CASE Same(q)
  BY <1>a DEF Same
<1>b. ASSUME NEW i \in Nat, Leaves(q, i)
      PROVE  x \in Members(Around(q))
  BY <1>1, <1>b, MembersOfLeave
<1>c. ASSUME NEW y \in Packet, Joins(q, y), Fair(q, y)
      PROVE  x \in Members(Around(q)) \/ Fair(q, x)
  BY <1>1, <1>c, MembersOfJoin
<1>d. ASSUME NEW t \in Type, NEW n \in Nat
      PROVE  /\ Data(t, n) \in Packet /\ Data(t, n).kind = "data" /\ Data(t, n).type = t
             /\ Data(t, n).sequence = n
  BY PacketsMade DEF Data
<1>e. ASSUME NEW t \in Type, NEW n \in Nat, n < seqNo'[Other(q)][t], Joins(q, Data(t, n))
      PROVE  x \in Members(Around(q)) \/ Fair(q, x)
  BY <1>c, <1>d, <1>e DEF Fair
<1>3. CASE Rests
  BY <1>a, <1>3 DEF Rests
<1>4. CASE SentInitial
  <2>1. CASE q = "server"
    BY <1>4, <1>a, <2>1 DEF SentInitial
  <2>2. CASE q = "client"
    <3>1. x \in Members(InitialBlocks)
      BY <1>4, <2>2 DEF SentInitial
    <3>2. x \in {Data("block", 0), Data("block", 1), Data("block", 2)}
      BY <3>1 DEF Members, InitialBlocks
    <3>3. "block" \in Type /\ "server" \in Peer /\ Other(q) = "server"
      BY <2>2 DEF Type, Peer, Other
    <3>4. seqNo'["server"]["block"] = seqNo["server"]["block"] + 3 /\ seqNo["server"]["block"] \in Nat
      BY <1>1, <1>4, <3>3, SentThree, NumbersOf
    <3>5. x.kind = "data" /\ x.type = "block" /\ x.sequence \in 0..2
      BY <3>2 DEF Data
    <3> QED
      BY <3>3, <3>4, <3>5 DEF Fair
  <2> QED
    BY <2>1, <2>2 DEF Peer
<1>5. ASSUME NEW p \in Peer, NEW y, Says(p, y)
      PROVE  x \in Members(Around(q)) \/ Fair(q, x)
  <2>1. CASE q = p
    BY <1>5, <1>c, <2>1 DEF Says, Fair, AskedFor
  <2>2. CASE q = Other(p)
    BY <1>5, <1>a, <2>2 DEF Says
  <2> QED
    BY <1>2, <2>1, <2>2
<1>6. ASSUME NEW p \in Peer, NEW t \in Type, seqNo' = [seqNo EXCEPT ![p][t] = @ + 1],
             q = Other(p), Joins(q, Data(t, seqNo[p][t]))
      PROVE  x \in Members(Around(q)) \/ Fair(q, x)
  <2>1. seqNo[p][t] \in Nat /\ Other(q) = p
    BY <1>1, <1>2, <1>6, NumbersOf
  <2>2. seqNo' = [seqNo EXCEPT ![p][t] = @ + 1]
    BY <1>6
  <2>3. seqNo'[p][t] = seqNo[p][t] + 1
    <3>1. \A r \in Peer, u \in Type :
             seqNo'[r][u] = IF r = p /\ u = t THEN seqNo[r][u] + 1 ELSE seqNo[r][u]
      BY <1>1, <2>2, SentOne
    <3> QED
      BY <3>1
  <2> QED
    BY <1>6, <1>e, <2>1, <2>3
<1>7. ASSUME NEW p \in Peer, NEW t \in Type, Sent(p, t)
      PROVE  x \in Members(Around(q)) \/ Fair(q, x)
  BY <1>2, <1>6, <1>7, <1>a DEF Sent
<1>8. ASSUME NEW p \in Peer, NEW i \in 1..Len(Around(p)), NEW t \in Type,
             Forgets(p, i) \/ Takes(p, i, t)
      PROVE  x \in Members(Around(q)) \/ Fair(q, x)
  <2>1. Leaves(p, i) /\ Same(Other(p)) /\ i \in Nat
    BY <1>8 DEF Forgets, Takes
  <2> QED
    BY <1>2, <1>a, <1>b, <2>1
<1>9. ASSUME NEW p \in Peer, NEW i \in 1..Len(Around(p)), NEW t \in Type, NEW n \in Nat,
             Repeats(p, i, t, n)
      PROVE  x \in Members(Around(q)) \/ Fair(q, x)
  <2>1. Leaves(p, i) /\ i \in Nat /\ Joins(Other(p), Data(t, n)) /\ n < seqNo'[p][t]
    BY <1>9 DEF Repeats
  <2> QED
    BY <1>2, <1>b, <1>e, <2>1
<1>10. ASSUME NEW p \in Peer, NEW i \in 1..Len(Around(p)), MakesUp(p, i)
       PROVE  x \in Members(Around(q)) \/ Fair(q, x)
  <2>1. Leaves(p, i) /\ i \in Nat /\ "block" \in Type
    BY <1>10 DEF MakesUp, Type
  <2> QED
    BY <1>2, <1>6, <1>10, <1>b, <2>1 DEF MakesUp
<1>11. "input" \in Type
  BY DEF Type
<1> QED
  BY <1>3, <1>4, <1>5, <1>7, <1>8, <1>9, <1>10, <1>11 DEF Moves

LEMMA SettledGrows ==
  ASSUME TypeOK, TypeOK', Loops, \A q \in Peer : LoopGoesOn(q), NEW q \in Peer, NEW t \in Type
  PROVE  /\ Settled(q, t) <= Settled(q, t)'
         /\ Settled(q, t) \in Nat /\ Settled(q, t)' \in Nat
<1>1. NumberTypes /\ NumberTypes'
  BY DEF TypeOK
<1>2. Settled(q, t) \in Nat
  BY <1>1, NumbersOf
<1>3. Settled(q, t)' \in Nat
  <2>1. received'[q][t] \in Seq(Nat) /\ expected'[q][t] \in Nat
    BY <1>1 DEF NumberTypes
  <2> QED
    BY <2>1, LenProperties DEF Settled, Logged
<1> QED
  BY <1>2, <1>3 DEF LoopGoesOn, Settled

\* What is asked for stays processed, what is under way stays sent.
LEMMA MembersKept ==
  ASSUME TypeOK, TypeOK', ReliableInv, Moves, \A q \in Peer : LoopGoesOn(q)
  PROVE  Asked' /\ Bounded'
<1>1. PacketTypes /\ NumberTypes /\ NumberTypes' /\ Asked /\ Bounded /\ Loops
  BY DEF TypeOK, ReliableInv, LinesInv, ControlInv
<1> SUFFICES ASSUME NEW q \in Peer, NEW x \in Members(Around(q)')
             PROVE  /\ AskedFor(q, x)'
                    /\ x.kind = "data" => x.sequence < seqNo'[Other(q)][x.type]
  BY DEF Asked, Bounded
<1>2. Other(q) \in Peer
  BY PeerPair
<1>3. CASE x \in Members(Around(q))
  <2>1. x \in Packet
    BY <1>1, <1>3, LineOfPackets, MembersType
  <2>2. AskedFor(q, x) /\ (x.kind = "data" => x.sequence < seqNo[Other(q)][x.type])
    BY <1>1, <1>3 DEF Asked, Bounded
  <2>3. x.sequence \in Nat /\ (x.kind = "data" => x.type \in Type)
    BY <2>1, SomeType
  <2>4. AskedFor(q, x)'
    <3> SUFFICES ASSUME x.kind = "ack", x.type # "block"
                 PROVE  x.type \in Steady /\ x.sequence < Settled(Other(q), x.type)'
      BY DEF AskedFor
    <3>1. x.type \in Steady /\ x.sequence < Settled(Other(q), x.type)
      BY <2>2 DEF AskedFor
    <3>2. /\ Settled(Other(q), x.type) <= Settled(Other(q), x.type)'
          /\ Settled(Other(q), x.type) \in Nat /\ Settled(Other(q), x.type)' \in Nat
      BY <1>1, <1>2, <3>1, SettledGrows DEF Steady, Type
    <3> QED
      BY <2>3, <3>1, <3>2
  <2>5. x.kind = "data" => x.sequence < seqNo'[Other(q)][x.type]
    <3> SUFFICES ASSUME x.kind = "data"
                 PROVE  x.sequence < seqNo'[Other(q)][x.type]
      OBVIOUS
    <3>1. seqNo[Other(q)][x.type] <= seqNo'[Other(q)][x.type] /\ seqNo[Other(q)][x.type] \in Nat
      BY <1>1, <1>2, <2>3, NumbersGrow, NumbersOf
    <3>2. seqNo'[Other(q)][x.type] \in Nat
      BY <1>1, <1>2, <2>3 DEF NumberTypes
    <3> QED
      BY <2>2, <2>3, <3>1, <3>2
  <2> QED
    BY <2>4, <2>5
<1>4. CASE Fair(q, x)
  BY <1>4 DEF Fair, AskedFor
<1> QED
  BY <1>3, <1>4, NewMembers

\* The logs grow in order, and never beyond what was sent.
LEMMA LogsKept ==
  ASSUME TypeOK, TypeOK', ReliableInv, Moves
  PROVE  /\ Behind' /\ AllInOrder'
         /\ \/ UNCHANGED received
            \/ \E q \in Peer, t \in Type :
                  /\ Logged(q, t) < seqNo[Other(q)][t]
                  /\ received' = [received EXCEPT ![q][t] = Append(@, Logged(q, t))]
                  /\ UNCHANGED seqNo
<1>1. NumberTypes /\ NumberTypes' /\ Behind /\ AllInOrder /\ Bounded
  BY DEF TypeOK, ReliableInv, LinesInv
<1>2. \A q \in Peer, u \in Type : /\ Logged(q, u) \in Nat /\ seqNo[q][u] \in Nat
                                  /\ seqNo'[q][u] \in Nat /\ Other(q) \in Peer
  BY <1>1, NumbersOf, PeerPair DEF NumberTypes
<1>3. CASE UNCHANGED received
  <2>1. AllInOrder'
    BY <1>1, <1>3 DEF AllInOrder, IsInOrder
  <2>2. ASSUME NEW q \in Peer, NEW u \in Type
        PROVE  Logged(q, u)' <= seqNo'[Other(q)][u]
    <3>1. Logged(q, u)' = Logged(q, u)
      BY <1>3 DEF Logged
    <3>2. Logged(q, u) <= seqNo[Other(q)][u] /\ seqNo[Other(q)][u] <= seqNo'[Other(q)][u]
      BY <1>1, <1>2, NumbersGrow DEF Behind
    <3> QED
      BY <1>2, <3>1, <3>2
  <2> QED
    BY <1>3, <2>1, <2>2 DEF Behind
<1>4. ASSUME NEW q \in Peer, NEW i \in 1..Len(Around(q)), NEW t \in Type, Takes(q, i, t)
      PROVE  /\ Behind' /\ AllInOrder'
             /\ Logged(q, t) < seqNo[Other(q)][t]
             /\ received' = [received EXCEPT ![q][t] = Append(@, Logged(q, t))]
             /\ UNCHANGED seqNo
  <2>1. /\ received' = [received EXCEPT ![q][t] = Append(@, Logged(q, t))] /\ UNCHANGED seqNo
        /\ IsData(Around(q)[i], t) /\ Around(q)[i].sequence = Logged(q, t)
    BY <1>4 DEF Takes
  <2>2. Logged(q, t) < seqNo[Other(q)][t]
    BY <1>1, <2>1 DEF Bounded, Members, IsData
  <2>3. /\ Logged(q, t)' = Logged(q, t) + 1
        /\ \A u \in Type \ {t} : received'[q][u] = received[q][u]
        /\ received'[q][t] = Append(received[q][t], Logged(q, t))
        /\ received'[Other(q)] = received[Other(q)]
    BY <2>1, LoggedGrows
  <2>4. ASSUME NEW p \in Peer, NEW u \in Type
        PROVE  /\ IsInOrder(received'[p][u])
               /\ Logged(p, u)' <= seqNo'[Other(p)][u]
    <3>1. CASE p = q /\ u = t
      <4>1. IsInOrder(received[q][t]) /\ received[q][t] \in Seq(Nat)
        BY <1>1, NumbersOf DEF AllInOrder
      <4>2. IsInOrder(received'[q][t])
        BY <2>3, <4>1, AppendInOrder DEF Logged
      <4> QED
        BY <1>2, <2>1, <2>2, <2>3, <3>1, <4>2
    <3>2. CASE ~(p = q /\ u = t)
      <4>1. received'[p][u] = received[p][u]
        BY <2>3, <3>2, OthersDiffer
      <4>2. IsInOrder(received[p][u]) /\ Logged(p, u) <= seqNo[Other(p)][u]
        BY <1>1 DEF AllInOrder, Behind
      <4> QED
        BY <2>1, <4>1, <4>2 DEF Logged
    <3> QED
      BY <3>1, <3>2
  <2> QED
    BY <2>1, <2>2, <2>4 DEF AllInOrder, Behind
<1> QED
  BY <1>3, <1>4 DEF Moves, Rests, SentInitial, Says, Sent, Forgets, Repeats, MakesUp

\* The lines of the setup: the initial blocks, one after the other.
LEMMA InitialBlocksLined ==
  /\ InLine(InitialBlocks, "block", 0, 3, 0)
  /\ \A t \in Type \ {"block"}, next \in Nat, settled \in Nat :
        InLine(InitialBlocks, t, next, 0, settled)
<1>1. /\ Len(InitialBlocks) = 3
      /\ \A i \in 1..3 : InitialBlocks[i].kind = "data" /\ InitialBlocks[i].type = "block"
                         /\ InitialBlocks[i].sequence = i - 1
  BY DEF InitialBlocks, Data
<1>2. InLine(InitialBlocks, "block", 0, 3, 0)
  <2>1. Numbered(InitialBlocks, "block", 0, 3, 0)
    BY <1>1 DEF Numbered
  <2>2. Rising(InitialBlocks, "block", 0)
    BY <1>1 DEF Rising
  <2>3. ASSUME NEW n \in 0..3 - 1
        PROVE  \E i \in 1..Len(InitialBlocks) :
                  IsData(InitialBlocks[i], "block") /\ InitialBlocks[i].sequence = n
    <3>1. n + 1 \in 1..3 /\ (n + 1) - 1 = n
      OBVIOUS
    <3> QED
      BY <1>1, <3>1 DEF IsData
  <2> QED
    BY <2>1, <2>2, <2>3 DEF InLine, Whole
<1>3. ASSUME NEW t \in Type \ {"block"}, NEW next \in Nat, NEW settled \in Nat
      PROVE  InLine(InitialBlocks, t, next, 0, settled)
  <2>1. \A i \in 1..Len(InitialBlocks) : ~IsData(InitialBlocks[i], t)
    BY <1>1 DEF IsData
  <2>2. next..0 - 1 = {}
    OBVIOUS
  <2> QED
    BY <2>1, <2>2 DEF InLine, Numbered, Rising, Whole
<1> QED
  BY <1>2, <1>3

\* The steps of a line, with what is settled as it was.
LineStep(q, t) == InLine(Around(q)', t, Logged(q, t)', seqNo'[Other(q)][t], Settled(q, t))

LEMMA LineOf ==
  ASSUME TypeOK, ReliableInv, NEW q \in Peer, NEW t \in Tracked
  PROVE  /\ InLine(Around(q), t, Logged(q, t), seqNo[Other(q)][t], Settled(q, t))
         /\ Around(q) \in Seq(Packet)
         /\ t \in Type
         /\ Logged(q, t) \in Nat /\ seqNo[Other(q)][t] \in Nat /\ Settled(q, t) \in Nat
         /\ Settled(q, t) <= Logged(q, t) /\ Logged(q, t) <= seqNo[Other(q)][t]
<1>1. PacketTypes /\ NumberTypes /\ Loops /\ Lined /\ Behind
  BY DEF TypeOK, ReliableInv, LinesInv, ControlInv
<1>2. t \in Type /\ Other(q) \in Peer
  BY PeerPair DEF Tracked, Steady, Type
<1> QED
  BY <1>1, <1>2, LineOfPackets, NumbersOf, SettledBehind DEF Lined, Behind

LEMMA StepSame ==
  ASSUME TypeOK, ReliableInv, NEW q \in Peer, NEW t \in Tracked, Same(q),
         Logged(q, t)' = Logged(q, t), seqNo'[Other(q)][t] = seqNo[Other(q)][t]
  PROVE  LineStep(q, t)
  BY LineOf DEF LineStep, Same

LEMMA StepOtherJoins ==
  ASSUME TypeOK, ReliableInv, NEW q \in Peer, NEW t \in Tracked, NEW x \in Packet, Joins(q, x),
         Logged(q, t)' = Logged(q, t), seqNo'[Other(q)][t] = seqNo[Other(q)][t],
         IsData(x, t) => x.sequence < Settled(q, t)
  PROVE  LineStep(q, t)
<1> DEFINE s == Around(q)
           next == Logged(q, t)
           end == seqNo[Other(q)][t]
           settled == Settled(q, t)
<1>1. /\ InLine(s, t, next, end, settled) /\ s \in Seq(Packet)
      /\ next \in Nat /\ end \in Nat /\ settled \in Nat /\ settled <= next
  BY LineOf
<1> HIDE DEF s, next, end, settled
<1>2. InLine(s \o <<x>>, t, next, end, settled)
  BY <1>1, OtherJoins DEF settled
<1> QED
  BY <1>2 DEF LineStep, Joins, s, next, end, settled

LEMMA StepNextJoins ==
  ASSUME TypeOK, ReliableInv, NEW q \in Peer, NEW t \in Tracked, NEW x \in Packet, Joins(q, x),
         Logged(q, t)' = Logged(q, t), seqNo'[Other(q)][t] = seqNo[Other(q)][t] + 1,
         IsData(x, t), x.sequence = seqNo[Other(q)][t]
  PROVE  LineStep(q, t)
<1> DEFINE s == Around(q)
           next == Logged(q, t)
           end == seqNo[Other(q)][t]
           settled == Settled(q, t)
<1>1. /\ InLine(s, t, next, end, settled) /\ s \in Seq(Packet)
      /\ next \in Nat /\ end \in Nat /\ settled \in Nat /\ settled <= next /\ next <= end
  BY LineOf
<1>2. x.sequence = end
  OBVIOUS
<1> HIDE DEF s, next, end, settled
<1>3. InLine(s \o <<x>>, t, next, end + 1, settled)
  BY <1>1, <1>2, NextJoins
<1> QED
  BY <1>3 DEF LineStep, Joins, s, next, end, settled

LEMMA StepOtherLeaves ==
  ASSUME TypeOK, ReliableInv, NEW q \in Peer, NEW t \in Tracked, NEW i, Leaves(q, i),
         Logged(q, t)' = Logged(q, t), seqNo'[Other(q)][t] = seqNo[Other(q)][t],
         IsData(Around(q)[i], t) => Around(q)[i].sequence < Logged(q, t)
  PROVE  LineStep(q, t)
<1> DEFINE s == Around(q)
           next == Logged(q, t)
           end == seqNo[Other(q)][t]
           settled == Settled(q, t)
           u == Without(s, i)
<1>1. /\ InLine(s, t, next, end, settled) /\ s \in Seq(Packet)
      /\ next \in Nat /\ end \in Nat /\ settled \in Nat /\ i \in 1..Len(s)
      /\ IsData(s[i], t) => s[i].sequence < next
  BY LineOf DEF Leaves
<1> HIDE DEF s, next, end, settled
<1>2. Skips(s, u, i)
  BY <1>1, WithoutSkips
<1> HIDE DEF u
<1>3. InLine(u, t, next, end, settled)
  BY <1>1, <1>2, OtherLeaves
<1> QED
  BY <1>3 DEF LineStep, Leaves, s, next, end, settled, u

LEMMA StepNextLeaves ==
  ASSUME TypeOK, ReliableInv, NEW q \in Peer, NEW t \in Tracked, NEW i, Leaves(q, i),
         Logged(q, t)' = Logged(q, t) + 1, seqNo'[Other(q)][t] = seqNo[Other(q)][t],
         IsData(Around(q)[i], t), Around(q)[i].sequence = Logged(q, t)
  PROVE  LineStep(q, t)
<1> DEFINE s == Around(q)
           next == Logged(q, t)
           end == seqNo[Other(q)][t]
           settled == Settled(q, t)
           u == Without(s, i)
<1>1. /\ InLine(s, t, next, end, settled) /\ s \in Seq(Packet)
      /\ next \in Nat /\ end \in Nat /\ settled \in Nat /\ i \in 1..Len(s)
      /\ IsData(s[i], t) /\ s[i].sequence = next
  BY LineOf DEF Leaves
<1> HIDE DEF s, next, end, settled
<1>2. Skips(s, u, i)
  BY <1>1, WithoutSkips
<1> HIDE DEF u
<1>3. InLine(u, t, next + 1, end, settled)
  BY <1>1, <1>2, NextLeaves
<1> QED
  BY <1>3 DEF LineStep, Leaves, s, next, end, settled, u

\* Every step keeps the lines of the types that stay in line.
LEMMA LineSteps ==
  ASSUME TypeOK, TypeOK', ReliableInv, Moves, NEW q \in Peer, NEW t \in Tracked
  PROVE  LineStep(q, t)
<1>1. NumberTypes /\ Behind /\ InSetup
  BY DEF TypeOK, ReliableInv, LinesInv, ControlInv
<1>2. t \in Type /\ seqNo[Other(q)][t] \in Nat
  BY LineOf
<1>3. \A p \in Peer : Other(p) \in Peer /\ Other(p) # p /\ Other(Other(p)) = p /\ (q = p \/ q = Other(p))
  BY PeerPair, OthersDiffer
<1>4. UNCHANGED received => Logged(q, t)' = Logged(q, t)
  BY DEF Logged
<1>5. ASSUME NEW u \in Type, NEW n \in Nat
      PROVE  /\ Data(u, n) \in Packet /\ Data(u, n).sequence = n
             /\ IsData(Data(u, n), t) <=> u = t
  BY PacketsMade DEF Data, IsData
<1>6. CASE Rests
  BY <1>4, <1>6, StepSame DEF Rests
<1>7. CASE SentInitial
  <2>1. \A p \in Peer, u \in Type :
           seqNo'[p][u] = IF p = "server" /\ u = "block" THEN seqNo[p][u] + 3 ELSE seqNo[p][u]
    BY <1>1, <1>7, SentThree
  <2>2. CASE q = "server"
    <3>1. Other(q) = "client" /\ "client" \in Peer
      BY <2>2 DEF Other, Peer
    <3>2. seqNo'[Other(q)][t] = seqNo[Other(q)][t]
      BY <1>2, <2>1, <3>1
    <3> QED
      BY <1>4, <1>7, <2>2, <3>2, StepSame DEF SentInitial
  <2>3. CASE q = "client"
    <3>1. Other(q) = "server" /\ "server" \in Peer
      BY <2>3 DEF Other, Peer
    <3>2. seqNo["server"][t] = 0
      BY <1>1, <1>2, <1>7, <3>1 DEF InSetup, SentInitial
    <3>3. Logged(q, t) = 0 /\ Logged(q, t)' = 0 /\ Settled(q, t) = 0
      <4>1. Logged(q, t) \in Nat /\ Settled(q, t) \in Nat /\ Logged(q, t) <= 0
            /\ Settled(q, t) <= Logged(q, t)
        BY <3>1, <3>2, LineOf
      <4> QED
        BY <1>4, <1>7, <4>1 DEF SentInitial
    <3>4. Around(q)' = InitialBlocks
      BY <1>7, <2>3 DEF SentInitial
    <3>5. seqNo'[Other(q)][t] = IF t = "block" THEN 3 ELSE 0
      BY <1>2, <2>1, <3>1, <3>2
    <3> QED
      BY <1>2, <3>3, <3>4, <3>5, InitialBlocksLined DEF LineStep
  <2> QED
    BY <2>2, <2>3 DEF Peer
<1>8. ASSUME NEW p \in Peer, NEW x, Says(p, x)
      PROVE  LineStep(q, t)
  <2>1. UNCHANGED <<seqNo, received>> /\ x \in Packet /\ ~IsData(x, t)
    BY <1>8 DEF Says, IsData
  <2>2. CASE q = p
    BY <1>4, <1>8, <2>1, <2>2, StepOtherJoins DEF Says
  <2>3. CASE q = Other(p)
    BY <1>4, <1>8, <2>1, <2>3, StepSame DEF Says
  <2> QED
    BY <1>3, <2>2, <2>3
<1>9. ASSUME NEW p \in Peer, NEW u \in Type, seqNo' = [seqNo EXCEPT ![p][u] = @ + 1],
             UNCHANGED received, Joins(Other(p), Data(u, seqNo[p][u])), q = Other(p)
      PROVE  LineStep(q, t)
  <2>1. \A r \in Peer, v \in Type :
           seqNo'[r][v] = IF r = p /\ v = u THEN seqNo[r][v] + 1 ELSE seqNo[r][v]
    BY <1>1, <1>9, SentOne
  <2>2. Other(q) = p /\ seqNo[p][u] \in Nat
    BY <1>1, <1>3, <1>9, NumbersOf
  <2>3. PICK x \in Packet : x = Data(u, seqNo[p][u]) /\ (IsData(x, t) <=> u = t)
                            /\ x.sequence = seqNo[p][u]
    BY <1>5, <2>2
  <2>4. CASE u = t
    BY <1>4, <1>9, <2>1, <2>2, <2>3, <2>4, StepNextJoins
  <2>5. CASE u # t
    BY <1>2, <1>4, <1>9, <2>1, <2>2, <2>3, <2>5, StepOtherJoins
  <2> QED
    BY <2>4, <2>5
<1>10. ASSUME NEW p \in Peer, NEW u \in Type, seqNo' = [seqNo EXCEPT ![p][u] = @ + 1],
              q = p
       PROVE  seqNo'[Other(q)][t] = seqNo[Other(q)][t]
  <2>1. \A r \in Peer, v \in Type :
           seqNo'[r][v] = IF r = p /\ v = u THEN seqNo[r][v] + 1 ELSE seqNo[r][v]
    BY <1>1, <1>10, SentOne
  <2> QED
    BY <1>2, <1>3, <1>10, <2>1
<1>11. ASSUME NEW p \in Peer, NEW u \in Type, Sent(p, u)
       PROVE  LineStep(q, t)
  <2>1. CASE q = p
    BY <1>4, <1>10, <1>11, <2>1, StepSame DEF Sent
  <2>2. CASE q = Other(p)
    BY <1>9, <1>11, <2>2 DEF Sent
  <2> QED
    BY <1>3, <2>1, <2>2
<1>12. ASSUME NEW p \in Peer, NEW i \in 1..Len(Around(p)), Forgets(p, i)
       PROVE  LineStep(q, t)
  <2>1. UNCHANGED <<seqNo, received>>
    BY <1>12 DEF Forgets
  <2>2. CASE q = p
    BY <1>4, <1>12, <2>1, <2>2, StepOtherLeaves DEF Forgets
  <2>3. CASE q = Other(p)
    BY <1>4, <1>12, <2>1, <2>3, StepSame DEF Forgets
  <2> QED
    BY <1>3, <2>2, <2>3
<1>13. ASSUME NEW p \in Peer, NEW i \in 1..Len(Around(p)), NEW u \in Type, Takes(p, i, u)
       PROVE  LineStep(q, t)
  <2>1. /\ Leaves(p, i) /\ Same(Other(p)) /\ UNCHANGED seqNo
        /\ IsData(Around(p)[i], u) /\ Around(p)[i].sequence = Logged(p, u)
        /\ received' = [received EXCEPT ![p][u] = Append(@, Logged(p, u))]
    BY <1>13 DEF Takes
  <2>2. /\ Logged(p, u)' = Logged(p, u) + 1
        /\ \A v \in Type \ {u} : received'[p][v] = received[p][v]
        /\ received'[Other(p)] = received[Other(p)]
    BY <2>1, LoggedGrows
  <2>3. CASE q = p /\ t = u
    BY <2>1, <2>2, <2>3, StepNextLeaves
  <2>4. CASE q = p /\ t # u
    <3>1. Logged(q, t)' = Logged(q, t)
      BY <1>2, <2>2, <2>4 DEF Logged
    <3>2. ~IsData(Around(p)[i], t)
      BY <2>1, <2>4 DEF IsData
    <3> QED
      BY <2>1, <2>4, <3>1, <3>2, StepOtherLeaves
  <2>5. CASE q = Other(p)
    <3>1. Logged(q, t)' = Logged(q, t)
      BY <2>2, <2>5 DEF Logged
    <3> QED
      BY <2>1, <2>5, <3>1, StepSame
  <2> QED
    BY <1>3, <2>3, <2>4, <2>5
<1>14. ASSUME NEW p \in Peer, NEW i \in 1..Len(Around(p)), NEW u \in Type, NEW n \in Nat,
              Repeats(p, i, u, n)
       PROVE  LineStep(q, t)
  <2>1. UNCHANGED <<seqNo, received>> /\ Leaves(p, i) /\ Joins(Other(p), Data(u, n))
        /\ ~IsData(Around(p)[i], t)
    BY <1>14 DEF Repeats, IsData
  <2>2. CASE q = p
    BY <1>4, <2>1, <2>2, StepOtherLeaves
  <2>3. CASE q = Other(p)
    <3>1. IsData(Data(u, n), t) => n < Settled(q, t)
      BY <1>5, <1>14, <2>3 DEF Repeats
    <3>2. Data(u, n) \in Packet /\ Data(u, n).sequence = n
      BY <1>5
    <3> QED
      BY <1>4, <2>1, <2>3, <3>1, <3>2, StepOtherJoins
  <2> QED
    BY <1>3, <2>2, <2>3
<1>15. ASSUME NEW p \in Peer, NEW i \in 1..Len(Around(p)), MakesUp(p, i)
       PROVE  LineStep(q, t)
  <2>1. UNCHANGED received /\ Leaves(p, i) /\ Joins(Other(p), Data("block", seqNo[p]["block"]))
        /\ ~IsData(Around(p)[i], t) /\ seqNo' = [seqNo EXCEPT ![p]["block"] = @ + 1]
    BY <1>15 DEF MakesUp, IsData
  <2>2. "block" \in Type
    BY DEF Type
  <2>3. CASE q = p
    <3>1. seqNo'[Other(q)][t] = seqNo[Other(q)][t]
      BY <1>10, <2>1, <2>2, <2>3
    <3> QED
      BY <1>4, <2>1, <2>3, <3>1, StepOtherLeaves
  <2>4. CASE q = Other(p)
    BY <1>9, <2>1, <2>2, <2>4
  <2> QED
    BY <1>3, <2>3, <2>4
<1> QED
  BY <1>6, <1>7, <1>8, <1>11, <1>12, <1>13, <1>14, <1>15 DEF Moves

LEMMA LinedKept ==
  ASSUME TypeOK, TypeOK', ReliableInv, Moves, Setup' => Setup, \A q \in Peer : LoopGoesOn(q)
  PROVE  Lined'
<1>1. PacketTypes' /\ NumberTypes' /\ Loops
  BY DEF TypeOK, ReliableInv, ControlInv
<1>2. Tracked' \subseteq Tracked
  BY DEF Tracked, Steady, Type
<1>3. ASSUME NEW q \in Peer, NEW t \in Tracked'
      PROVE  InLine(Around(q), t, Logged(q, t), seqNo[Other(q)][t], Settled(q, t))'
  <2> DEFINE s == Around(q)'
             next == Logged(q, t)'
             end == seqNo'[Other(q)][t]
             settled == Settled(q, t)
             later == Settled(q, t)'
  <2>1. t \in Tracked /\ t \in Type /\ Other(q) \in Peer
    BY <1>2, <1>3, LineOf, PeerPair
  <2>2. InLine(s, t, next, end, settled)
    BY <2>1, LineSteps DEF LineStep
  <2>3. s \in Seq(Packet)
    <3>1. /\ raw'[q] \in Seq(Packet) /\ todo'[q] \in Seq(Packet)
          /\ queue'[q] \in Seq(Packet) /\ net'[q] \in Seq(Packet)
      BY <1>1 DEF PacketTypes
    <3> QED
      BY <3>1, LineType DEF Around
  <2>4. next \in Nat /\ end \in Nat
    <3>1. received'[q][t] \in Seq(Nat) /\ seqNo'[Other(q)][t] \in Nat
      BY <1>1, <2>1 DEF NumberTypes
    <3> QED
      BY <3>1, LenProperties DEF Logged
  <2>5. settled \in Nat /\ later \in Nat /\ settled <= later
    BY <1>1, <2>1, SettledGrows
  <2> HIDE DEF s, next, end, settled, later
  <2>6. InLine(s, t, next, end, later)
    BY <2>2, <2>3, <2>4, <2>5, MoreSettled
  <2> QED
    BY <2>6 DEF s, next, end, later
<1> QED
  BY <1>3 DEF Lined
--------------------------------------------------------------------------------
(* The setup and the events through a step.                                       *)

\* The setup is not begun again; the server leaves it with the "Creation done." that
\* the client sends on leaving it.
LEMMA SetupSteps ==
  ASSUME Reliable, TypeOK, ReliableInv, Next
  PROVE  /\ Setup' => Setup
         /\ Waits' => Waits
         /\ initialDone => initialDone'
         /\ Waits /\ ~Waits' => Leaves("server", 1)
         /\ Setup /\ ~Setup' => Joins("server", CreationDone) /\ initialDone'
<1>1. /\ handler \in [Peer -> {"onConnectionComplete", "onInitialize", "onReceived"}]
      /\ "client" \in Peer /\ "server" \in Peer /\ initialDone \in BOOLEAN
      /\ Loops /\ InSetup /\ Behind /\ NumberTypes
  BY DEF TypeOK, ModeTypes, Peer, ReliableInv, ControlInv, LinesInv
<1> DEFINE Goal == /\ Setup' => Setup
                   /\ Waits' => Waits
                   /\ initialDone => initialDone'
                   /\ Waits /\ ~Waits' => Leaves("server", 1)
                   /\ Setup /\ ~Setup' => Joins("server", CreationDone) /\ initialDone'
<1>a. ASSUME UNCHANGED <<handler, initialDone>>
      PROVE  Goal
  BY <1>a DEF Setup, Waits
<1> HIDE DEF Goal
<1> SUFFICES Goal
  BY DEF Goal
<1> USE DEF setupVars
<1>2. PICK p \in Peer :
        \/ Open(p) \/ Deliver(p) \/ Lose(p) \/ Duplicate(p) \/ Handle(p)
        \/ \E t \in Type : Send(p, t)
        \/ AskBlock(p) \/ LoseGame(p)
  BY DEF Next
<1>3. CASE \/ Open(p) \/ Deliver(p) \/ Lose(p) \/ Duplicate(p) \/ AskBlock(p) \/ LoseGame(p)
           \/ \E t \in Type : Send(p, t)
  BY <1>3, <1>a DEF Open, Deliver, Lose, Duplicate, AskBlock, LoseGame, Send
<1>4. CASE ServerConnects
  <2>1. initialDone' = TRUE
    BY <1>4 DEF ServerConnects
  <2>2. CASE queue["server"] = <<>>
    <3>1. UNCHANGED handler
      BY <1>4, <2>2, MovesServerConnects
    <3> QED
      BY <2>1, <3>1 DEF Goal, Setup, Waits
  <2>3. CASE queue["server"] # <<>>
    <3>1. Leaves("server", 1) /\ ~Waits' /\ ~Setup
      BY <1>4, <2>3, MovesServerConnects, ServerPopsFirst DEF Forgets
    <3>2. UNCHANGED handler \/ handler' = [handler EXCEPT !["server"] = "onInitialize"]
      BY <1>4 DEF ServerConnects
    <3>3. ~Setup'
      BY <1>1, <3>1, <3>2 DEF Setup
    <3> QED
      BY <2>1, <3>1, <3>3 DEF Goal
  <2> QED
    BY <2>2, <2>3
<1>5. CASE ServerConnected \/ ClientConnects
  BY <1>5, <1>a DEF ServerConnected, ClientConnects
<1>6. CASE ClientConnected
  <2>1. CASE initialProcessed # 0..2
    BY <1>1, <1>6, <2>1, <1>a, MovesClientConnected DEF ClientConnected
  <2>2. CASE initialProcessed = 0..2
    <3>1. Joins("server", CreationDone) /\ handler'["client"] = "onInitialize" /\ Setup
          /\ UNCHANGED initialDone
      BY <1>1, <1>6, <2>2, MovesClientConnected DEF Says, ClientConnected
    <3>2. handler'["server"] = handler["server"]
      BY <1>1, <1>6 DEF ClientConnected
    <3>3. initialDone
      <4>1. Logged("client", "block") \in Nat /\ "block" \in Type /\ Other("client") = "server"
        BY <1>1, NumbersOf DEF Type, Other
      <4>2. initialProcessed = 0..Logged("client", "block") - 1
        BY <1>1, <3>1 DEF InSetup
      <4>3. Logged("client", "block") # 0
        BY <2>2, <4>1, <4>2
      <4>4. Logged("client", "block") <= seqNo["server"]["block"]
        BY <1>1, <4>1 DEF Behind
      <4>5. ~initialDone => seqNo["server"]["block"] = 0
        BY <1>1, <3>1, <4>1 DEF InSetup
      <4> QED
        BY <4>1, <4>3, <4>4, <4>5
    <3> QED
      BY <3>1, <3>2, <3>3 DEF Goal, Setup, Waits
  <2> QED
    BY <2>1, <2>2
<1>7. CASE OnInitialize(p)
  <2>1. handler[p] = "onInitialize" /\ handler' = [handler EXCEPT ![p] = "onReceived"]
        /\ UNCHANGED initialDone
    BY <1>7 DEF OnInitialize, Fire
  <2>2. (Setup' <=> Setup) /\ (Waits' <=> Waits)
    BY <1>1, <2>1 DEF Setup, Waits
  <2> QED
    BY <2>1, <2>2 DEF Goal
<1>8. CASE OnReceived(p) \/ Received(p)
  BY <1>8, <1>a DEF OnReceived, Received
<1>9. CASE \E i \in 1..Len(todo[p]) : Loop(p, i)
  BY <1>9, <1>a DEF Loop, ServerConnecting, ClientConnecting, Answer, DropDuplicate, Process,
                    ReportLoss, ReceiveGameOver
<1> QED
  BY <1>2, <1>3, <1>4, <1>5, <1>6, <1>7, <1>8, <1>9 DEF Handle

\* Nothing but the initial blocks moves during the setup.
LEMMA InSetupKept ==
  ASSUME Reliable, TypeOK, TypeOK', ReliableInv, Next
  PROVE  InSetup'
<1> SUFFICES ASSUME Setup'
             PROVE  /\ Waits'
                    /\ Around("server")' = <<>>
                    /\ \A x \in Members(Around("client")') : IsData(x, "block")
                    /\ \A q \in Peer, t \in Type :
                          seqNo'[q][t] = IF q = "server" /\ t = "block" /\ initialDone' THEN 3 ELSE 0
                    /\ initialProcessed' = 0..Logged("client", "block")' - 1
  BY DEF InSetup, Waits
<1> DEFINE Goal == /\ Around("server")' = <<>>
                   /\ \A x \in Members(Around("client")') : IsData(x, "block")
                   /\ \A q \in Peer, t \in Type :
                         seqNo'[q][t] = IF q = "server" /\ t = "block" /\ initialDone' THEN 3 ELSE 0
                   /\ initialProcessed' = 0..Logged("client", "block")' - 1
<1>0. /\ PacketTypes /\ NumberTypes /\ ModeTypes /\ BoundTypes /\ Loops
      /\ "client" \in Peer /\ "server" \in Peer /\ "block" \in Type
  BY DEF TypeOK, ReliableInv, ControlInv, Peer, Type
<1>1. Setup
  BY SetupSteps
<1>2. /\ Waits
      /\ Around("server") = <<>>
      /\ \A x \in Members(Around("client")) : IsData(x, "block")
      /\ \A q \in Peer, t \in Type :
            seqNo[q][t] = IF q = "server" /\ t = "block" /\ initialDone THEN 3 ELSE 0
      /\ initialProcessed = 0..Logged("client", "block") - 1
  BY <1>1 DEF ReliableInv, ControlInv, InSetup, Waits
<1>3. Waits'
  <2>1. ~Leaves("server", 1)
    BY <1>2, EmptySeq DEF Leaves
  <2> QED
    BY <1>2, <2>1, SetupSteps
<1>a. ASSUME \A q \in Peer : Same(q), UNCHANGED <<seqNo, received, initialDone, initialProcessed>>
      PROVE  Goal
  <2>1. Around("server")' = Around("server") /\ Around("client")' = Around("client")
    BY <1>0, <1>a DEF Same
  <2> QED
    BY <1>2, <1>a, <2>1 DEF Logged
<1>b. \A p \in Peer : handler[p] = "onConnectionComplete" /\ phase[p] # "receiving"
  BY <1>0, <1>1, <1>2, InLoop DEF Setup, Waits, Peer
<1> HIDE DEF Goal
<1> SUFFICES Goal
  BY <1>3 DEF Goal
<1> USE DEF loopVars, dataVars, setupVars, boundVars
<1>4. PICK p \in Peer :
        \/ Open(p) \/ Deliver(p) \/ Lose(p) \/ Duplicate(p) \/ Handle(p)
        \/ \E t \in Type : Send(p, t)
        \/ AskBlock(p) \/ LoseGame(p)
  BY DEF Next
<1>5. CASE Open(p)
  BY <1>5, <1>a, AllSame DEF Open
<1>6. CASE Deliver(p)
  BY <1>0, <1>6, <1>a, DeliveredSame DEF Deliver, Reliable
<1>7. CASE Lose(p) \/ Duplicate(p)
  BY <1>0, <1>7 DEF Lose, Duplicate, Reliable, BoundTypes
<1>8. CASE ServerConnects
  <2>1. queue["server"] = <<>> /\ initialDone' = TRUE /\ UNCHANGED initialProcessed
    BY <1>1, <1>8, ServerPopsFirst DEF ServerConnects
  <2>2. CASE initialDone
    <3>1. Rests
      BY <1>8, <2>1, <2>2, MovesServerConnects
    <3>2. initialDone' = initialDone
      BY <1>0, <2>1, <2>2 DEF ModeTypes
    <3> QED
      BY <1>a, <2>1, <3>1, <3>2 DEF Rests
  <2>3. CASE ~initialDone
    <3>1. SentInitial
      BY <1>8, <2>1, <2>3, MovesServerConnects
    <3>2. Around("server")' = <<>> /\ Around("client")' = InitialBlocks /\ UNCHANGED received
      BY <1>2, <3>1 DEF SentInitial, Same
    <3>3. \A x \in Members(InitialBlocks) : IsData(x, "block")
      BY DEF Members, InitialBlocks, Data, IsData
    <3>4. \A q \in Peer, u \in Type :
             seqNo'[q][u] = IF q = "server" /\ u = "block" THEN seqNo[q][u] + 3 ELSE seqNo[q][u]
      BY <1>0, <3>1, SentThree
    <3>5. \A q \in Peer, u \in Type :
             seqNo'[q][u] = IF q = "server" /\ u = "block" /\ initialDone' THEN 3 ELSE 0
      BY <1>2, <2>1, <2>3, <3>4
    <3> QED
      BY <1>2, <2>1, <3>2, <3>3, <3>5 DEF Goal, Logged
  <2> QED
    BY <2>2, <2>3
<1>9. CASE ServerConnected
  BY <1>0, <1>9 DEF ServerConnected, Loops, LoopOf
<1>10. CASE ClientConnects
  <2>1. todo["client"] = <<>> /\ UNCHANGED <<net, seqNo, received, initialDone, initialProcessed>>
    BY <1>0, <1>10 DEF Loops, LoopOf, ClientConnects, Fire
  <2>2. UNCHANGED <<queue, raw, todo>> \/ ReadAll("client", "connecting")
    BY <1>10 DEF ClientConnects
  <2> QED
    BY <1>0, <1>a, <2>1, <2>2, AllSame, ReadSame
<1>11. CASE ClientConnected
  <2>1. initialProcessed # 0..2
    BY <1>0, <1>11, MovesClientConnected DEF Setup
  <2>2. Rests /\ UNCHANGED <<initialDone, initialProcessed>>
    BY <1>0, <1>11, <2>1, MovesClientConnected DEF ClientConnected
  <2> QED
    BY <1>a, <2>2 DEF Rests
<1>12. CASE OnInitialize(p) \/ OnReceived(p) \/ Received(p)
  BY <1>b, <1>12 DEF OnInitialize, OnReceived, Received, Fire
<1>13. ASSUME NEW i \in 1..Len(todo[p]), Loop(p, i)
       PROVE  Goal
  <2>1. CASE p = "server" /\ ServerConnecting(i)
    BY <1>0, <2>1 DEF ServerConnecting, Loops, LoopOf
  <2>2. CASE p = "client" /\ ClientConnecting(i)
    <3>1. Takes("client", i, "block")
          /\ initialProcessed' = initialProcessed \cup {Logged("client", "block")}
          /\ UNCHANGED initialDone
      BY <1>13, <2>2, MovesClientConnecting DEF ClientConnecting
    <3>2. Same("server") /\ Leaves("client", i) /\ i \in Nat /\ UNCHANGED seqNo
      BY <1>13, <3>1 DEF Takes, Other
    <3>3. Members(Around("client")') \subseteq Members(Around("client"))
      BY <1>0, <3>2, MembersOfLeave
    <3>4. Logged("client", "block")' = Logged("client", "block") + 1
          /\ Logged("client", "block") \in Nat
      BY <1>0, <3>1, LoggedGrows, NumbersOf DEF Takes
    <3>5. initialProcessed' = 0..Logged("client", "block")' - 1
      BY <1>2, <3>1, <3>4
    <3> QED
      BY <1>2, <3>1, <3>2, <3>3, <3>5 DEF Goal, Same
  <2>3. CASE \/ Answer(p, i) \/ DropDuplicate(p, i) \/ Process(p, i) \/ ReportLoss(p, i)
             \/ ReceiveGameOver(p, i)
    BY <1>b, <2>3 DEF Answer, DropDuplicate, Process, ReportLoss, ReceiveGameOver, Receiving
  <2> QED
    BY <1>13, <2>1, <2>2, <2>3 DEF Loop
<1>14. CASE (\E t \in Type : Send(p, t)) \/ AskBlock(p) \/ LoseGame(p)
  BY <1>b, <1>14 DEF Send, AskBlock, LoseGame, Playing
<1> QED
  BY <1>4, <1>5, <1>6, <1>7, <1>8, <1>9, <1>10, <1>11, <1>12, <1>13, <1>14 DEF Handle

\* What becomes of the line to the server.
LEMMA ServerLine ==
  ASSUME NumberTypes, Moves
  PROVE  \/ Same("server")
         \/ \E x \in Packet : Joins("server", x) /\ (x.kind = "created" => Setup /\ ~Setup')
         \/ \E i \in 1..Len(Around("server")) : Leaves("server", i) /\ Busy("server", i)
<1> DEFINE Goal == \/ Same("server")
                   \/ \E x \in Packet : Joins("server", x) /\ (x.kind = "created" => Setup /\ ~Setup')
                   \/ \E i \in 1..Len(Around("server")) : Leaves("server", i) /\ Busy("server", i)
<1>0. /\ Other("client") = "server" /\ Other("server") = "client"
      /\ \A p \in Peer : p = "client" \/ p = "server"
  BY DEF Other, Peer
<1>a. ASSUME NEW x \in Packet, Joins("server", x), x.kind # "created"
      PROVE  Goal
  BY <1>a
<1>b. ASSUME NEW t \in Type, NEW n \in Nat, Joins("server", Data(t, n))
      PROVE  Goal
  <2>1. Data(t, n) \in Packet /\ Data(t, n).kind = "data"
    BY PacketsMade DEF Data
  <2> QED
    BY <1>a, <1>b, <2>1
<1>c. ASSUME NEW p \in Peer, NEW t \in Type, Joins("server", Data(t, seqNo[p][t]))
      PROVE  Goal
  <2>1. seqNo[p][t] \in Nat
    BY <1>c DEF NumberTypes
  <2>2. PICK n \in Nat : n = seqNo[p][t]
    BY <2>1
  <2> QED
    BY <1>b, <1>c, <2>2
<1> HIDE DEF Goal
<1>1. ASSUME Rests \/ SentInitial
      PROVE  Goal
  BY <1>1 DEF Rests, SentInitial, Goal, Peer
<1>2. ASSUME NEW p \in Peer, NEW x, Says(p, x)
      PROVE  Goal
  <2>1. CASE p = "server"
    BY <1>2, <2>1 DEF Says, Goal
  <2>2. CASE p = "client"
    BY <1>0, <1>2, <2>2 DEF Says, Goal
  <2> QED
    BY <1>0, <2>1, <2>2
<1>3. ASSUME NEW p \in Peer, NEW t \in Type, Sent(p, t)
      PROVE  Goal
  <2>1. CASE p = "server"
    BY <1>3, <2>1 DEF Sent, Goal
  <2>2. CASE p = "client"
    BY <1>0, <1>3, <1>c, <2>2 DEF Sent
  <2> QED
    BY <1>0, <2>1, <2>2
<1>4. ASSUME NEW p \in Peer, NEW i \in 1..Len(Around(p)), NEW t \in Type,
             Forgets(p, i) \/ Takes(p, i, t)
      PROVE  Goal
  <2>1. Leaves(p, i) /\ Busy(p, i) /\ Same(Other(p))
    BY <1>4 DEF Forgets, Takes
  <2>2. CASE p = "server"
    BY <2>1, <2>2 DEF Goal
  <2>3. CASE p = "client"
    BY <1>0, <2>1, <2>3 DEF Goal
  <2> QED
    BY <1>0, <2>2, <2>3
<1>5. ASSUME NEW p \in Peer, NEW i \in 1..Len(Around(p)),
             \/ \E t \in Type, n \in Nat : Repeats(p, i, t, n)
             \/ MakesUp(p, i)
      PROVE  Goal
  <2>1. CASE p = "server"
    BY <1>5, <2>1 DEF Repeats, MakesUp, Goal
  <2>2. CASE p = "client"
    BY <1>0, <1>5, <1>b, <1>c, <2>2 DEF Repeats, MakesUp, Type
  <2> QED
    BY <1>0, <2>1, <2>2
<1>6. "input" \in Type
  BY DEF Type
<1>7. Goal
  BY <1>1, <1>2, <1>3, <1>4, <1>5, <1>6 DEF Moves
<1> QED
  BY <1>7 DEF Goal

\* "Creation done." stays the first packet of the server until the server pops it.
LEMMA CreatedKept ==
  ASSUME Reliable, TypeOK, TypeOK', ReliableInv, Next, Moves
  PROVE  Created'
<1>0. PacketTypes /\ NumberTypes /\ "client" \in Peer /\ "server" \in Peer /\ Created /\ InSetup
  BY DEF TypeOK, ReliableInv, ControlInv, Peer
<1> DEFINE s == Around("server")
           First == \A i \in 1..Len(s') : s'[i].kind = "created" => i = 1 /\ Waits'
           Awaited == Waits' /\ ~Setup' =>
                         initialDone' /\ s' # <<>> /\ s'[1] = CreationDone
<1>1. /\ s \in Seq(Packet) /\ s' \in Seq(Packet) /\ Len(s) \in Nat /\ Len(s') \in Nat
  <2>1. PacketTypes'
    BY DEF TypeOK
  <2>2. Around("server")' \in Seq(Packet)
    BY <1>0, <2>1, LineType DEF PacketTypes, Around
  <2> QED
    BY <1>0, <2>2, LineOfPackets, LenProperties
<1>2. /\ Waits' => Waits
      /\ initialDone => initialDone'
      /\ Waits /\ ~Waits' => 1 \in 1..Len(s) /\ s' = Without(s, 1)
      /\ Setup /\ ~Setup' => s' = s \o <<CreationDone>> /\ initialDone'
      /\ Setup' => Setup
  BY SetupSteps DEF Leaves, Joins
<1>3. /\ \A i \in 1..Len(s) : s[i].kind = "created" => i = 1 /\ Waits
      /\ Waits /\ ~Setup => initialDone /\ s # <<>> /\ s[1] = CreationDone
      /\ Setup => Waits /\ s = <<>>
  BY <1>0 DEF Created, InSetup, Waits
<1>4. \A x \in Members(Around("client")') : x.kind # "created"
  <2>1. \A x \in Members(Around("client")) : x.kind # "created"
    BY <1>0 DEF Created
  <2>2. \A x \in Members(Around("client")') :
           x \in Members(Around("client")) \/ Fair("client", x)
    BY <1>0, NewMembers
  <2> QED
    BY <2>1, <2>2 DEF Fair
<1>5. CreationDone \in Packet /\ s \o <<CreationDone>> \in Seq(Packet)
      /\ Len(s \o <<CreationDone>>) = Len(s) + 1
      /\ (s \o <<CreationDone>>)[Len(s) + 1] = CreationDone
  BY <1>1, PacketsMade, OneOf, ConcatProperties
<1>6. ASSUME NEW i \in 1..Len(s), s' = Without(s, i)
      PROVE  /\ Len(s') = Len(s) - 1
             /\ \A j \in 1..Len(s) - 1 : s'[j] = IF j < i THEN s[j] ELSE s[j + 1]
  BY <1>1, <1>6, WithoutProperties
<1>7. ASSUME s' = s
      PROVE  First /\ Awaited
  <2>1. ~(Waits /\ ~Waits')
    BY <1>1, <1>2, <1>6, <1>7
  <2>2. ~(Setup /\ ~Setup')
    BY <1>1, <1>2, <1>5, <1>7
  <2> HIDE DEF s
  <2> QED
    BY <1>2, <1>3, <1>7, <2>1, <2>2
<1>8. ASSUME NEW x \in Packet, s' = s \o <<x>>, x.kind = "created" => Setup /\ ~Setup'
      PROVE  First /\ Awaited
  <2>1. /\ Len(s') = Len(s) + 1 /\ s'[Len(s) + 1] = x
        /\ \A i \in 1..Len(s) : s'[i] = s[i]
    BY <1>1, <1>8, OneOf, ConcatProperties
  <2>2. ~(Waits /\ ~Waits')
    BY <1>1, <1>2, <1>6, <2>1
  <2>3. s = <<>> => Len(s) = 0
    BY EmptySeq
  <2>4. s # <<>> => 1 \in 1..Len(s)
    BY <1>1, EmptySeq
  <2>5. s' # <<>>
    BY <1>1, <2>1, EmptySeq
  <2>6. First
    <3> HIDE DEF s
    <3>1. ASSUME NEW i \in 1..Len(s'), s'[i].kind = "created"
          PROVE  i = 1 /\ Waits'
      <4>1. CASE i \in 1..Len(s)
        BY <1>2, <1>3, <2>1, <2>2, <3>1, <4>1
      <4>2. CASE i = Len(s) + 1
        BY <1>3, <1>8, <2>1, <2>2, <2>3, <3>1, <4>2
      <4> QED
        BY <1>1, <2>1, <4>1, <4>2
    <3> QED
      BY <3>1
  <2>7. Awaited
    <3>1. CASE Setup
      <4>1. ~Setup' => s'[1] = CreationDone /\ initialDone'
        BY <1>2, <1>3, <1>5, <2>3, <3>1
      <4> QED
        BY <2>5, <4>1
    <3>2. CASE ~Setup
      BY <1>2, <1>3, <2>1, <2>4, <2>5, <3>2
    <3> QED
      BY <3>1, <3>2
  <2> QED
    BY <2>6, <2>7
<1>9. ASSUME NEW i \in 1..Len(s), s' = Without(s, i), ~Waits \/ (i = 1 /\ ~Waits')
      PROVE  First /\ Awaited
  <2>1. /\ Len(s') = Len(s) - 1
        /\ \A j \in 1..Len(s) - 1 : s'[j] = IF j < i THEN s[j] ELSE s[j + 1]
    BY <1>6, <1>9
  <2>2. Awaited
    BY <1>2, <1>9
  <2>3. ASSUME NEW j \in 1..Len(s'), s'[j].kind = "created"
        PROVE  FALSE
    <3> HIDE DEF s
    <3>1. j \in 1..Len(s) /\ j + 1 \in 1..Len(s) /\ j # 0 /\ j + 1 # 1
          /\ (s'[j] = s[j] \/ s'[j] = s[j + 1]) /\ (i = 1 => s'[j] = s[j + 1])
      BY <1>1, <2>1
    <3> QED
      BY <1>3, <1>9, <2>3, <3>1
  <2> QED
    BY <2>2, <2>3
<1>10. First /\ Awaited
  <2>1. \/ s' = s
        \/ \E x \in Packet : s' = s \o <<x>> /\ (x.kind = "created" => Setup /\ ~Setup')
        \/ \E i \in 1..Len(s) : s' = Without(s, i) /\ (~Waits \/ (i = 1 /\ ~Waits'))
    BY <1>0, ServerLine DEF Same, Joins, Leaves, Busy
  <2>2. CASE s' = s
    BY <1>7, <2>2
  <2> HIDE DEF First, Awaited
  <2> QED
    BY <1>8, <1>9, <2>1, <2>2
<1> QED
  BY <1>4, <1>10 DEF Created, Waits

\* What Heard says of one peer.
HeardBy(p) ==
  /\ p \notin opened => events[p] = 0 /\ handler[p] = "onConnectionComplete" /\ phase[p] = "idle"
  /\ p \in opened /\ queue[p] # <<>> => events[p] > 0
  /\ handler[p] = "onInitialize" => events[p] > 0 /\ (queue[p] # <<>> => events[p] > 1)
  /\ p = "server" /\ p \in opened /\ handler[p] = "onConnectionComplete" =>
        events[p] >= Len(queue[p])

LEMMA HeardPerPeer ==
  Heard <=> (\A p \in Peer : HeardBy(p)) /\ (initialDone => "server" \in opened)
  BY DEF Heard, HeardBy, Peer

\* A loop runs on an open channel, and takes nothing from the queue.
LEMMA HeardInLoop ==
  ASSUME Heard, NEW p \in Peer, phase[p] # "idle", \A q \in Peer \ {p} : phase'[q] = phase[q],
         UNCHANGED <<queue, opened, events, handler, initialDone>>
  PROVE  Heard'
<1>1. p \in opened
  BY DEF Heard
<1>2. \A q \in Peer : HeardBy(q)
  BY HeardPerPeer
<1>3. \A q \in Peer : HeardBy(q)'
  BY <1>1, <1>2 DEF HeardBy
<1>4. initialDone' => "server" \in opened'
  BY HeardPerPeer
<1> QED
  BY <1>3, <1>4, HeardPerPeer DEF Heard, HeardBy, Peer

LEMMA HeardKept ==
  ASSUME Reliable, TypeOK, TypeOK', ReliableInv, Next
  PROVE  Heard'
<1>0. /\ PacketTypes /\ NumberTypes /\ ModeTypes /\ BoundTypes /\ Loops /\ Created /\ Heard
      /\ "client" \in Peer /\ "server" \in Peer
  BY DEF TypeOK, ReliableInv, ControlInv, Peer
<1>1. \A q \in Peer : HeardBy(q) /\ events[q] \in Nat /\ queue[q] \in Seq(Packet)
                      /\ Len(queue[q]) \in Nat /\ (Len(queue[q]) = 0 <=> queue[q] = <<>>)
  BY <1>0, HeardPerPeer, EmptySeq, LenProperties DEF NumberTypes, PacketTypes
<1>2. initialDone => "server" \in opened
  BY <1>0, HeardPerPeer
<1> DEFINE Goal == Heard'
<1>a. ASSUME UNCHANGED <<queue, opened, events, handler, phase, initialDone>>
      PROVE  Goal
  BY <1>0, <1>a DEF Heard
<1>b. ASSUME NEW p \in Peer, HeardBy(p)', initialDone' => "server" \in opened',
             \A q \in Peer \ {p} : /\ events'[q] = events[q] /\ queue'[q] = queue[q]
                                   /\ handler'[q] = handler[q] /\ phase'[q] = phase[q]
                                   /\ (q \in opened' <=> q \in opened)
      PROVE  Goal
  <2>1. \A q \in Peer : HeardBy(q)'
    BY <1>1, <1>b DEF HeardBy
  <2> QED
    BY <1>b, <2>1 DEF Heard, HeardBy, Peer
<1> HIDE DEF Goal
<1> SUFFICES Goal
  BY DEF Goal
<1> USE DEF loopVars, dataVars, setupVars, boundVars
<1>4. PICK p \in Peer :
        \/ Open(p) \/ Deliver(p) \/ Lose(p) \/ Duplicate(p) \/ Handle(p)
        \/ \E t \in Type : Send(p, t)
        \/ AskBlock(p) \/ LoseGame(p)
  BY DEF Next
<1>c. /\ HeardBy(p) /\ events[p] \in Nat /\ queue[p] \in Seq(Packet)
      /\ Len(queue[p]) \in Nat /\ (Len(queue[p]) = 0 <=> queue[p] = <<>>)
  BY <1>1
<1>5. CASE Open(p)
  <2>1. /\ p \notin opened /\ opened' = opened \cup {p}
        /\ events'[p] = events[p] + 1
        /\ \A q \in Peer \ {p} : events'[q] = events[q]
        /\ UNCHANGED <<queue, handler, phase, initialDone>>
    BY <1>0, <1>5 DEF Open, NumberTypes
  <2>2. p = "server" => queue[p] = <<>>
    <3>1. p = "server" => ~initialDone /\ handler["server"] = "onConnectionComplete"
      BY <1>2, <1>c, <2>1 DEF HeardBy
    <3>2. p = "server" => Setup
      BY <1>0, <3>1 DEF Created
    <3> QED
      BY <3>2, SetupLines
  <2>3. HeardBy(p)'
    BY <1>c, <2>1, <2>2 DEF HeardBy
  <2> QED
    BY <1>2, <1>b, <2>1, <2>3
<1>6. CASE Deliver(p)
  <2>1. PICK i \in 1..Len(net[p]) :
           /\ queue' = [queue EXCEPT ![p] = Append(@, net[p][i])]
           /\ events' = IF p \in opened THEN [events EXCEPT ![p] = @ + 1] ELSE events
           /\ UNCHANGED <<handler, phase, opened, initialDone>>
    BY <1>6 DEF Deliver
  <2>2. net[p][i] \in Packet
    BY <1>0, LineOfPackets, ElementOfSeq
  <2>3. queue'[p] = Append(queue[p], net[p][i]) /\ Len(queue'[p]) = Len(queue[p]) + 1
    BY <1>0, <1>c, <2>1, <2>2, AppendProperties DEF PacketTypes
  <2>4. events'[p] = IF p \in opened THEN events[p] + 1 ELSE events[p]
    BY <1>0, <2>1 DEF NumberTypes
  <2>5. \A q \in Peer \ {p} : queue'[q] = queue[q] /\ events'[q] = events[q]
    BY <1>0, <2>1 DEF PacketTypes, NumberTypes
  <2>6. HeardBy(p)'
    BY <1>c, <2>1, <2>3, <2>4 DEF HeardBy
  <2> QED
    BY <1>2, <1>b, <2>1, <2>5, <2>6
<1>7. CASE Lose(p) \/ Duplicate(p)
  BY <1>0, <1>7 DEF Lose, Duplicate, Reliable, BoundTypes
<1>8. CASE p = "server" /\ ServerConnects
  <2>1. /\ phase[p] = "idle" /\ handler[p] = "onConnectionComplete" /\ events[p] > 0
        /\ UNCHANGED opened
    BY <1>8 DEF ServerConnects, Fire
  <2>2. p \in opened
    BY <1>c, <2>1 DEF HeardBy
  <2>3. queue[p] # <<>> => Head(queue[p]) = CreationDone
    BY <1>8, ServerPopsFirst
  <2>4. events[p] >= Len(queue[p])
    BY <1>8, <1>c, <2>1, <2>2 DEF HeardBy
  <2>5. CASE queue[p] # <<>>
    <3>1. /\ queue' = [queue EXCEPT ![p] = Tail(@)]
          /\ handler' = [handler EXCEPT ![p] = "onInitialize"]
          /\ events' = [events EXCEPT ![p] = @ - 1 + 1]
          /\ UNCHANGED phase
      BY <1>8, <2>3, <2>5 DEF ServerConnects, Rescheduled
    <3>2. queue'[p] = Tail(queue[p]) /\ Len(Tail(queue[p])) = Len(queue[p]) - 1
          /\ Tail(queue[p]) \in Seq(Packet)
      BY <1>0, <1>c, <2>5, <3>1, HeadTailProperties DEF PacketTypes
    <3>3. events'[p] = events[p] /\ handler'[p] = "onInitialize"
      BY <1>0, <1>c, <3>1 DEF NumberTypes, ModeTypes
    <3>4. \A q \in Peer \ {p} : /\ events'[q] = events[q] /\ queue'[q] = queue[q]
                                /\ handler'[q] = handler[q] /\ phase'[q] = phase[q]
      BY <1>0, <3>1 DEF NumberTypes, ModeTypes, PacketTypes
    <3>5. queue'[p] # <<>> => Len(queue[p]) > 1
      BY <1>c, <3>2, EmptySeq
    <3>6. HeardBy(p)'
      BY <1>c, <2>1, <2>2, <2>4, <3>3, <3>5 DEF HeardBy
    <3> QED
      BY <1>8, <1>b, <2>1, <2>2, <3>4, <3>6
  <2>6. CASE queue[p] = <<>>
    <3>1. UNCHANGED <<queue, handler, phase>> /\ events' = [events EXCEPT ![p] = @ - 1]
      BY <1>8, <2>6 DEF ServerConnects, Consumed
    <3>2. events'[p] = events[p] - 1 /\ \A q \in Peer \ {p} : events'[q] = events[q]
      BY <1>0, <3>1 DEF NumberTypes
    <3>3. HeardBy(p)'
      BY <1>c, <2>1, <2>2, <2>6, <3>1, <3>2 DEF HeardBy
    <3> QED
      BY <1>8, <1>b, <2>1, <2>2, <3>1, <3>2, <3>3
  <2> QED
    BY <2>5, <2>6
<1>9. CASE p = "server" /\ ServerConnected
  BY <1>0, <1>9 DEF ServerConnected, Loops, LoopOf
<1>10. CASE p = "client" /\ ClientConnects
  <2>1. /\ handler[p] = "onConnectionComplete" /\ events[p] > 0
        /\ events' = [events EXCEPT ![p] = @ - 1]
        /\ UNCHANGED <<opened, handler, initialDone>>
    BY <1>10 DEF ClientConnects, Fire, Consumed
  <2>2. queue'[p] = <<>> /\ \A q \in Peer \ {p} : queue'[q] = queue[q] /\ phase'[q] = phase[q]
    BY <1>0, <1>10 DEF ClientConnects, ReadAll, PacketTypes, ModeTypes
  <2>3. events'[p] = events[p] - 1 /\ \A q \in Peer \ {p} : events'[q] = events[q]
    BY <1>0, <2>1 DEF NumberTypes
  <2>4. p \in opened
    BY <1>c, <2>1 DEF HeardBy
  <2>5. HeardBy(p)'
    BY <1>10, <2>1, <2>2, <2>4 DEF HeardBy
  <2> QED
    BY <1>2, <1>b, <2>1, <2>2, <2>3, <2>5
<1>11. CASE p = "client" /\ ClientConnected
  <2>1. /\ phase[p] = "connecting" /\ phase' = [phase EXCEPT ![p] = "idle"]
        /\ UNCHANGED <<queue, opened, initialDone>>
    BY <1>11 DEF ClientConnected
  <2>2. p \in opened
    BY <1>c, <2>1 DEF HeardBy
  <2>3. CASE initialProcessed = 0..2
    <3>1. handler'[p] = "onInitialize" /\ events'[p] = events[p] + 1
          /\ \A q \in Peer \ {p} : /\ events'[q] = events[q] /\ handler'[q] = handler[q]
                                   /\ phase'[q] = phase[q]
      BY <1>0, <1>11, <2>1, <2>3 DEF ClientConnected, NumberTypes, ModeTypes
    <3>2. HeardBy(p)'
      BY <1>11, <1>c, <2>1, <2>2, <3>1 DEF HeardBy
    <3> QED
      BY <1>2, <1>b, <2>1, <3>1, <3>2
  <2>4. CASE initialProcessed # 0..2
    <3>1. UNCHANGED <<handler, events>> /\ \A q \in Peer \ {p} : phase'[q] = phase[q]
      BY <1>0, <1>11, <2>1, <2>4 DEF ClientConnected, ModeTypes
    <3> QED
      BY <1>0, <2>1, <3>1, HeardInLoop DEF Goal
  <2> QED
    BY <2>3, <2>4
<1>12. CASE OnInitialize(p)
  <2>1. /\ handler[p] = "onInitialize" /\ handler' = [handler EXCEPT ![p] = "onReceived"]
        /\ events' = [events EXCEPT ![p] = @ - 1]
        /\ UNCHANGED <<queue, opened, phase, initialDone>>
    BY <1>12 DEF OnInitialize, Fire, Consumed
  <2>2. /\ handler'[p] = "onReceived" /\ events'[p] = events[p] - 1
        /\ \A q \in Peer \ {p} : events'[q] = events[q] /\ handler'[q] = handler[q]
    BY <1>0, <2>1 DEF NumberTypes, ModeTypes
  <2>3. p \in opened
    BY <1>c, <2>1 DEF HeardBy
  <2>4. HeardBy(p)'
    BY <1>c, <2>1, <2>2, <2>3 DEF HeardBy
  <2> QED
    BY <1>2, <1>b, <2>1, <2>2, <2>4
<1>13. CASE OnReceived(p)
  <2>1. /\ handler[p] = "onReceived" /\ events[p] > 0
        /\ events' = [events EXCEPT ![p] = @ - 1]
        /\ UNCHANGED <<opened, handler, initialDone>>
    BY <1>13 DEF OnReceived, Fire, Consumed
  <2>2. ~ReadFails(p)
    BY <2>1, NoCreatedQueued DEF Peer
  <2>3. queue'[p] = <<>> /\ \A q \in Peer \ {p} : queue'[q] = queue[q] /\ phase'[q] = phase[q]
    BY <1>0, <1>13, <2>2 DEF OnReceived, ReadAll, PacketTypes, ModeTypes
  <2>4. events'[p] = events[p] - 1 /\ \A q \in Peer \ {p} : events'[q] = events[q]
    BY <1>0, <2>1 DEF NumberTypes
  <2>5. p \in opened
    BY <1>c, <2>1 DEF HeardBy
  <2>6. HeardBy(p)'
    BY <2>1, <2>3, <2>5 DEF HeardBy
  <2> QED
    BY <1>2, <1>b, <2>1, <2>3, <2>4, <2>6
<1>14. CASE Received(p) \/ \E i \in 1..Len(todo[p]) : Loop(p, i)
  <2>1. phase[p] # "idle"
    <3>1. CASE Received(p)
      BY <3>1 DEF Received
    <3>2. CASE todo[p] # <<>>
      BY <1>0, <3>2 DEF Loops, LoopOf
    <3> QED
      BY <1>14, <3>1, <3>2, EmptySeq
  <2>2. /\ UNCHANGED <<queue, opened, events, handler, initialDone>>
        /\ \A q \in Peer \ {p} : phase'[q] = phase[q]
    <3>1. ASSUME Return(p) \/ UNCHANGED phase \/ phase' = [phase EXCEPT ![p] = "thrown"]
          PROVE  \A q \in Peer \ {p} : phase'[q] = phase[q]
      BY <1>0, <3>1 DEF Return, ModeTypes
    <3>2. Return(p) \/ UNCHANGED phase \/ phase' = [phase EXCEPT ![p] = "thrown"]
      BY <1>14 DEF Received, Loop, ServerConnecting, ClientConnecting, Answer, DropDuplicate,
                   Process, ReportLoss, ReceiveGameOver, Break
    <3>3. UNCHANGED <<queue, opened, events, handler, initialDone>>
      BY <1>14 DEF Received, Loop, ServerConnecting, ClientConnecting, Answer, DropDuplicate,
                   Process, ReportLoss, ReceiveGameOver
    <3> QED
      BY <3>1, <3>2, <3>3
  <2> QED
    BY <1>0, <2>1, <2>2, HeardInLoop DEF Goal
<1>15. CASE (\E t \in Type : Send(p, t)) \/ AskBlock(p) \/ LoseGame(p)
  BY <1>15, <1>a DEF Send, AskBlock, LoseGame
<1> QED
  BY <1>4, <1>5, <1>6, <1>7, <1>8, <1>9, <1>10, <1>11, <1>12, <1>13, <1>14, <1>15 DEF Handle
--------------------------------------------------------------------------------
(* The theorems.                                                                 *)

\* The invariant holds at first and through every step.
LEMMA ReliableAtFirst ==
  ASSUME Init
  PROVE  ReliableInv
<1>0. Len(<<>>) = 0
  BY EmptySeq
<1>1. \A p \in Peer : Around(p) = <<>>
  <2>1. <<>> \in Seq(Packet)
    BY NoneOf
  <2>2. <<>> \o <<>> = <<>>
    BY <2>1, ConcatEmptySeq
  <2> QED
    BY <2>2 DEF Init, Around, Line
<1>2. \A p \in Peer, t \in Type : /\ Logged(p, t) = 0 /\ received[p][t] = <<>>
                                  /\ seqNo[p][t] = 0 /\ Settled(p, t) = 0
  BY <1>0 DEF Init, Logged, Settled, Type
<1>3. \A p \in Peer : Other(p) \in Peer /\ Len(Around(p)) = 0 /\ Members(Around(p)) = {}
  BY <1>0, <1>1, PeerPair DEF Members
<1>4. Setup /\ Tracked = Type
  BY DEF Init, Setup, Tracked, Peer
<1>5. Lined
  <2> SUFFICES ASSUME NEW p \in Peer, NEW t \in Type
               PROVE  InLine(Around(p), t, Logged(p, t), seqNo[Other(p)][t], Settled(p, t))
    BY <1>4 DEF Lined
  <2> DEFINE s == Around(p)
  <2>1. Len(s) = 0 /\ Logged(p, t) = 0 /\ seqNo[Other(p)][t] = 0 /\ Settled(p, t) = 0
    BY <1>2, <1>3
  <2> HIDE DEF s
  <2>2. InLine(s, t, 0, 0, 0)
    BY <2>1 DEF InLine, Numbered, Rising, Whole
  <2> QED
    BY <2>1, <2>2 DEF s
<1>6. Asked /\ Bounded
  BY <1>3 DEF Asked, Bounded
<1>7. Behind /\ AllInOrder
  BY <1>0, <1>2, <1>3 DEF Behind, AllInOrder, IsInOrder
<1>8. Loops
  BY DEF Init, Loops, LoopOf
<1>9. InSetup
  BY <1>1, <1>2, <1>3, <1>4 DEF Init, InSetup, Peer, Type
<1>10. Created
  BY <1>3, <1>4 DEF Created, Peer
<1>11. Heard
  BY DEF Init, Heard
<1> QED
  BY <1>5, <1>6, <1>7, <1>8, <1>9, <1>10, <1>11 DEF ReliableInv, LinesInv, ControlInv

LEMMA ReliableStep ==
  ASSUME Reliable, TypeOK, TypeOK', ReliableInv, [Next]_vars
  PROVE  ReliableInv'
<1>1. CASE UNCHANGED vars
  <2>1. UNCHANGED <<raw, todo, queue, net, events, handler, phase, expected, known, seqNo,
                    received, opened, initialDone, initialProcessed>>
    BY <1>1 DEF vars, loopVars, dataVars, setupVars
  <2>2. \A p \in Peer : Around(p)' = Around(p) /\ (LoopOf(p)' <=> LoopOf(p))
    BY <2>1 DEF Around, LoopOf, Receives, Logged
  <2>3. \A p \in Peer, t \in Type : Logged(p, t)' = Logged(p, t) /\ Settled(p, t)' = Settled(p, t)
    BY <2>1 DEF Logged, Settled
  <2>4. Setup' = Setup /\ Tracked' = Tracked /\ Tracked \subseteq Type
        /\ \A p \in Peer : Other(p) \in Peer
    BY <2>1, PeerPair DEF Setup, Tracked, Steady, Type
  <2>5. LinesInv'
    <3>1. Lined'
      BY <2>1, <2>2, <2>3, <2>4 DEF ReliableInv, LinesInv, Lined
    <3>2. Asked'
      BY <2>2, <2>3, <2>4 DEF ReliableInv, LinesInv, Asked, AskedFor, Steady, Type
    <3>3. Bounded' /\ Behind' /\ AllInOrder'
      BY <2>1, <2>2, <2>3, <2>4 DEF ReliableInv, LinesInv, Bounded, Behind, AllInOrder
    <3> QED
      BY <3>1, <3>2, <3>3 DEF LinesInv
  <2>6. ControlInv'
    <3>1. Loops'
      BY <2>2 DEF ReliableInv, ControlInv, Loops
    <3>2. InSetup'
      BY <2>1, <2>2, <2>3, <2>4 DEF ReliableInv, ControlInv, InSetup, Peer, Type
    <3>3. Created' /\ Heard'
      BY <2>1, <2>2, <2>4 DEF ReliableInv, ControlInv, Created, Heard, Peer
    <3> QED
      BY <3>1, <3>2, <3>3 DEF ControlInv
  <2> QED
    BY <2>5, <2>6 DEF ReliableInv
<1>2. CASE Next
  <2>1. Moves
    BY <1>2, EveryMove
  <2>2. \A q \in Peer : LoopGoesOn(q)
    BY <1>2, LoopsKept
  <2>3. Setup' => Setup
    BY <1>2, SetupSteps
  <2>4. LinesInv'
    BY <2>1, <2>2, <2>3, LinedKept, MembersKept, LogsKept DEF LinesInv
  <2>5. Loops'
    BY <2>2 DEF Loops, LoopGoesOn
  <2>6. ControlInv'
    BY <1>2, <2>1, <2>5, InSetupKept, CreatedKept, HeardKept DEF ControlInv
  <2> QED
    BY <2>4, <2>6 DEF ReliableInv
<1> QED
  BY <1>1, <1>2

\* On the reliable channel the invariant above holds for every bound on what the
\* games send, ask for and lose: the packets around a peer stay in line behind its logs.
THEOREM LinesHold == ASSUME Reliable PROVE Spec => []ReliableInv
<1>1. Init => ReliableInv
  BY ReliableAtFirst
<1>2. TypeOK /\ TypeOK' /\ ReliableInv /\ [Next]_vars => ReliableInv'
  BY ReliableStep
<1> QED
  BY <1>1, <1>2, TypeCorrect, PTL DEF Spec

\* On the channel the plugin opens every type of packet is processed in order, each
\* packet once, whatever lags behind within a handler and is asked for again.
THEOREM PacketsInOrder == ASSUME Reliable PROVE Spec => []AllInOrder
<1>1. ReliableInv => AllInOrder
  BY DEF ReliableInv, LinesInv
<1> QED
  BY <1>1, LinesHold, PTL

\* On that channel no handler ends in an exception: no peer asks for an input or ojama
\* packet that was not sent, and "Creation done." never reaches a handler that
\* evaluates it.
THEOREM HandlersReturn == ASSUME Reliable PROVE Spec => []NothingThrown
<1>1. TypeOK /\ ReliableInv => NothingThrown
  <2> SUFFICES ASSUME TypeOK, ReliableInv, NEW p \in Peer
               PROVE  /\ phase[p] # "thrown"
                      /\ handler[p] # "onConnectionComplete" =>
                             CreationDone \notin {queue[p][i] : i \in 1..Len(queue[p])}
    BY DEF NothingThrown
  <2>1. phase[p] # "thrown"
    BY DEF ReliableInv, ControlInv, Loops, LoopOf
  <2>2. ASSUME handler[p] # "onConnectionComplete"
        PROVE  \A i \in 1..Len(queue[p]) : queue[p][i] # CreationDone
    BY <2>2, NoCreatedQueued DEF Peer
  <2> QED
    BY <2>1, <2>2
<1> QED
  BY <1>1, LinesHold, TypeCorrect, PTL

\* On that channel no packet is left behind: a peer with unread data and an open
\* channel has an event to come.
THEOREM NoPacketLeftBehind == ASSUME Reliable PROVE Spec => []UnreadIsAnnounced
<1>1. TypeOK /\ ReliableInv => UnreadIsAnnounced
  BY DEF TypeOK, ModeTypes, ReliableInv, ControlInv, Heard, UnreadIsAnnounced
<1> QED
  BY <1>1, LinesHold, TypeCorrect, PTL

\* What a step adds to the numbers sent.
LEMMA NumbersSent ==
  ASSUME NumberTypes, Moves, UNCHANGED received
  PROVE  \/ UNCHANGED seqNo
         \/ \E p \in Peer, t \in Type, n \in 1..3 : \A q \in Peer, u \in Type :
               seqNo'[q][u] = IF q = p /\ u = t THEN seqNo[q][u] + n ELSE seqNo[q][u]
<1>1. CASE SentInitial
  <2>1. \A q \in Peer, u \in Type :
           seqNo'[q][u] = IF q = "server" /\ u = "block" THEN seqNo[q][u] + 3 ELSE seqNo[q][u]
    BY <1>1, SentThree
  <2>2. "server" \in Peer /\ "block" \in Type /\ 3 \in 1..3
    BY DEF Peer, Type
  <2> QED
    BY <2>1, <2>2
<1>2. ASSUME NEW p \in Peer, NEW t \in Type, seqNo' = [seqNo EXCEPT ![p][t] = @ + 1]
      PROVE  \E n \in 1..3 : \A q \in Peer, u \in Type :
               seqNo'[q][u] = IF q = p /\ u = t THEN seqNo[q][u] + n ELSE seqNo[q][u]
  <2>1. \A q \in Peer, u \in Type :
           seqNo'[q][u] = IF q = p /\ u = t THEN seqNo[q][u] + 1 ELSE seqNo[q][u]
    BY <1>2, SentOne
  <2>2. 1 \in 1..3
    OBVIOUS
  <2> QED
    BY <2>1, <2>2
<1>3. CASE \E p \in Peer, t \in Type : seqNo' = [seqNo EXCEPT ![p][t] = @ + 1]
  BY <1>2, <1>3
<1>4. CASE UNCHANGED seqNo
  BY <1>4
<1>5. \/ UNCHANGED seqNo \/ SentInitial
      \/ \E p \in Peer, t \in Type : seqNo' = [seqNo EXCEPT ![p][t] = @ + 1]
  BY DEF Moves, Rests, Says, Sent, Forgets, Takes, Repeats, MakesUp, Type
<1> QED
  BY <1>1, <1>3, <1>4, <1>5

\* On that channel PuzzleINet implements the ordered delivery of every type of packet:
\* each step sends up to three packets of one type, processes the next one of one, or
\* does neither.
THEOREM DeliversInOrder == ASSUME Reliable PROVE Spec => ImplementsDelivery
<1>1. TypeOK /\ TypeOK' /\ ReliableInv /\ [Next]_vars => [Delivery!Next]_(Delivery!vars)
  <2> SUFFICES ASSUME TypeOK, TypeOK', ReliableInv, [Next]_vars
               PROVE  [Delivery!Next]_(Delivery!vars)
    OBVIOUS
  <2>0. NumberTypes /\ NumberTypes'
    BY DEF TypeOK
  <2>1. ASSUME UNCHANGED <<seqNo, received>>
        PROVE  UNCHANGED Delivery!vars
    BY <2>1 DEF Delivery!vars
  <2>2. CASE UNCHANGED vars
    BY <2>1, <2>2 DEF vars, dataVars
  <2>3. CASE Next
    <3>1. Moves
      BY <2>3, EveryMove
    <3>2. CASE UNCHANGED received
      BY <2>0, <2>1, <3>1, <3>2, NumbersSent, SendingDelivers
    <3>3. ASSUME NEW q \in Peer, NEW t \in Type, Logged(q, t) < seqNo[Other(q)][t],
                 received' = [received EXCEPT ![q][t] = Append(@, Logged(q, t))],
                 UNCHANGED seqNo
          PROVE  [Delivery!Next]_(Delivery!vars)
      BY <2>0, <3>3, ProcessingDelivers DEF Logged
    <3> QED
      BY <3>1, <3>2, <3>3, LogsKept
  <2> QED
    BY <2>2, <2>3
<1> QED
  BY <1>1, NothingDelivered, LinesHold, TypeCorrect, PTL
  DEF Spec, ImplementsDelivery, Delivery!Spec
================================================================================
