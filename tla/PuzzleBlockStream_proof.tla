------------------------ MODULE PuzzleBlockStream_proof ------------------------
(* Proofs about PuzzleBlockStream, for every bound on the turns.               *)
EXTENDS PuzzleBlockStream, SequenceTheorems, TLAPS

\* What the sequence operators of the model return.
LEMMA NoneOf == ASSUME NEW S PROVE <<>> \in Seq(S)
  BY EmptySeq

LEMMA AppendOf == ASSUME NEW S, NEW s \in Seq(S), NEW x \in S PROVE Append(s, x) \in Seq(S)
  BY AppendProperties

LEMMA HeadTailOf ==
  ASSUME NEW S, NEW s \in Seq(S), s # <<>>
  PROVE  Head(s) \in S /\ Tail(s) \in Seq(S)
  BY HeadTailProperties

\* The state's functions, updated at one peer, or at one layer of a peer.
LEMMA PeerUpdate ==
  ASSUME NEW S, NEW f \in [Peer -> S], NEW p \in Peer, NEW x \in S
  PROVE  [f EXCEPT ![p] = x] \in [Peer -> S]
  OBVIOUS

LEMMA LayerUpdate ==
  ASSUME NEW S, NEW f \in [Peer -> [Layer -> S]], NEW p \in Peer, NEW l \in Layer, NEW x \in S
  PROVE  [f EXCEPT ![p][l] = x] \in [Peer -> [Layer -> S]]
<1>1. [f[p] EXCEPT ![l] = x] \in [Layer -> S]
  OBVIOUS
<1> QED
  BY <1>1

LEMMA LayerUpdateAt ==
  ASSUME NEW S, NEW f \in [Peer -> [Layer -> S]], NEW p \in Peer, NEW l \in Layer, NEW x \in S
  PROVE  /\ [f EXCEPT ![p][l] = x][p][l] = x
         /\ \A q \in Peer, k \in Layer :
              (q # p \/ k # l) => [f EXCEPT ![p][l] = x][q][k] = f[q][k]
<1> DEFINE g == [f EXCEPT ![p][l] = x]
<1>1. g[p] = [f[p] EXCEPT ![l] = x]
  OBVIOUS
<1>2. \A q \in Peer : q # p => g[q] = f[q]
  OBVIOUS
<1> QED
  BY <1>1, <1>2

LEMMA Pairs == /\ \A p \in Peer : Other(p) \in Peer
               /\ \A l \in Layer : Opponent(l) \in Layer
  BY DEF Peer, Other, Layer, Opponent

LEMMA InitialBlocksType == InitialBlocks \in Seq(Block) /\ Len(InitialBlocks) = 3
<1>1. \A n \in 1..3 : <<"server", n - 1>> \in Block
  BY DEF Block, Peer
<1>2. InitialBlocks \in [1..3 -> Block]
  BY <1>1 DEF InitialBlocks
<1>3. InitialBlocks \in Seq(Block)
  BY <1>2, SeqDef
<1>4. Len(InitialBlocks) \in Nat /\ DOMAIN InitialBlocks = 1..Len(InitialBlocks)
  BY <1>3, LenProperties
<1>5. DOMAIN InitialBlocks = 1..3
  BY <1>2
<1>6. 1..Len(InitialBlocks) = 1..3
  BY <1>4, <1>5
<1>7. Len(InitialBlocks) = 3
  BY <1>4, <1>6
<1> QED
  BY <1>3, <1>7
--------------------------------------------------------------------------------
(* Type correctness.                                                            *)

StreamTypes ==
    /\ blocks \in [Peer -> Seq(Nat)]
    /\ requests \in [Peer -> Seq(Nat)]
    /\ generated \in [Peer -> Seq(Block)]
    /\ latest \in [Peer -> Nat]

LayerTypes ==
    /\ next \in [Peer -> [Layer -> Seq(Block)]]
    /\ received \in [Peer -> [Layer -> Seq(Block)]]
    /\ dealt \in [Peer -> [Layer -> Seq(Block)]]
    /\ mode \in [Peer -> [Layer -> {"moving", "decided", "pending"}]]

RestTypes ==
    /\ moves \in [Peer -> Nat]
    /\ cycle \in [Peer -> SUBSET Layer]
    /\ turns \in [Peer -> Nat]
    /\ madeUp \in BOOLEAN

LEMMA TypeParts == TypeOK <=> StreamTypes /\ LayerTypes /\ RestTypes
  BY DEF TypeOK, StreamTypes, LayerTypes, RestTypes

LEMMA NewBlockType ==
  ASSUME StreamTypes, NEW p \in Peer
  PROVE  NewBlock(p) \in Block /\ Len(generated[p]) \in Nat
<1>1. generated[p] \in Seq(Block)
  BY DEF StreamTypes
<1>2. Len(generated[p]) \in Nat
  BY <1>1, LenProperties
<1> QED
  BY <1>2 DEF NewBlock, Block

LEMMA SendBlockType ==
  ASSUME StreamTypes, NEW p \in Peer, SendBlock(p)
  PROVE  generated' \in [Peer -> Seq(Block)] /\ blocks' \in [Peer -> Seq(Nat)]
<1>1. NewBlock(p) \in Block /\ Len(generated[p]) \in Nat
  BY NewBlockType
<1>2. Append(generated[p], NewBlock(p)) \in Seq(Block)
  BY <1>1, AppendOf DEF StreamTypes
<1>3. Append(blocks[Other(p)], Len(generated[p])) \in Seq(Nat)
  BY <1>1, Pairs, AppendOf DEF StreamTypes
<1>4. generated' \in [Peer -> Seq(Block)]
  BY <1>2, PeerUpdate DEF SendBlock, StreamTypes
<1>5. blocks' \in [Peer -> Seq(Nat)]
  BY <1>3, Pairs, PeerUpdate DEF SendBlock, StreamTypes
<1> QED
  BY <1>4, <1>5

LEMMA DealType ==
  ASSUME LayerTypes, NEW p \in Peer, NEW l \in Layer, NEW block \in Block, Deal(p, l, block)
  PROVE  /\ dealt' \in [Peer -> [Layer -> Seq(Block)]]
         /\ mode' \in [Peer -> [Layer -> {"moving", "decided", "pending"}]]
<1>1. Append(dealt[p][l], block) \in Seq(Block)
  BY AppendOf DEF LayerTypes
<1>2. dealt' \in [Peer -> [Layer -> Seq(Block)]]
  BY <1>1, LayerUpdate DEF Deal, LayerTypes
<1>3. mode' \in [Peer -> [Layer -> {"moving", "decided", "pending"}]]
  BY LayerUpdate DEF Deal, LayerTypes
<1> QED
  BY <1>2, <1>3

\* The block a layer takes from one of its queues.
LEMMA TakeType ==
  ASSUME NEW f \in [Peer -> [Layer -> Seq(Block)]], NEW p \in Peer, NEW l \in Layer,
         f[p][l] # <<>>
  PROVE  /\ Head(f[p][l]) \in Block
         /\ [f EXCEPT ![p][l] = Tail(f[p][l])] \in [Peer -> [Layer -> Seq(Block)]]
<1>1. Head(f[p][l]) \in Block /\ Tail(f[p][l]) \in Seq(Block)
  BY HeadTailOf
<1> QED
  BY <1>1, LayerUpdate

LEMMA GetBlockDataType ==
  ASSUME StreamTypes, LayerTypes, madeUp \in BOOLEAN, NEW p \in Peer, NEW l \in Layer,
         GetBlockData(p, l)
  PROVE  StreamTypes' /\ LayerTypes' /\ madeUp' \in BOOLEAN
<1>1. CASE /\ next[p][l] # <<>>
           /\ Deal(p, l, Head(next[p][l]))
           /\ next' = [next EXCEPT ![p][l] = Tail(@)]
           /\ UNCHANGED <<blocks, requests, generated, latest, received, madeUp>>
  <2>1. Head(next[p][l]) \in Block /\ next' \in [Peer -> [Layer -> Seq(Block)]]
    BY <1>1, TakeType DEF LayerTypes
  <2> QED
    BY <1>1, <2>1, DealType DEF LayerTypes, StreamTypes
<1>2. CASE /\ received[p][l] # <<>>
           /\ Deal(p, l, Head(received[p][l]))
           /\ received' = [received EXCEPT ![p][l] = Tail(@)]
           /\ UNCHANGED <<blocks, requests, generated, latest, next, madeUp>>
  <2>1. Head(received[p][l]) \in Block /\ received' \in [Peer -> [Layer -> Seq(Block)]]
    BY <1>2, TakeType DEF LayerTypes
  <2> QED
    BY <1>2, <2>1, DealType DEF LayerTypes, StreamTypes
<1>3. CASE Generate(p, l)
  <2>1. NewBlock(p) \in Block /\ Opponent(l) \in Layer
    BY NewBlockType, Pairs
  <2>2. Append(received[p][Opponent(l)], NewBlock(p)) \in Seq(Block)
    BY <2>1, AppendOf DEF LayerTypes
  <2>3. received' \in [Peer -> [Layer -> Seq(Block)]]
    BY <1>3, <2>1, <2>2, LayerUpdate DEF Generate, LayerTypes
  <2>4. /\ dealt' \in [Peer -> [Layer -> Seq(Block)]]
        /\ mode' \in [Peer -> [Layer -> {"moving", "decided", "pending"}]]
    BY <1>3, <2>1, DealType DEF Generate
  <2>5. generated' \in [Peer -> Seq(Block)] /\ blocks' \in [Peer -> Seq(Nat)]
    BY <1>3, SendBlockType DEF Generate
  <2> QED
    BY <1>3, <2>3, <2>4, <2>5 DEF Generate, LayerTypes, StreamTypes
<1>4. CASE Ask(p, l)
  <2>1. Append(requests[Other(p)], latest[p]) \in Seq(Nat)
    BY Pairs, AppendOf DEF StreamTypes
  <2>2. requests' \in [Peer -> Seq(Nat)]
    BY <1>4, <2>1, Pairs, PeerUpdate DEF Ask, StreamTypes
  <2>3. mode' \in [Peer -> [Layer -> {"moving", "decided", "pending"}]]
    BY <1>4, LayerUpdate DEF Ask, LayerTypes
  <2> QED
    BY <1>4, <2>2, <2>3 DEF Ask, blockVars, LayerTypes, StreamTypes
<1> QED
  BY <1>1, <1>2, <1>3, <1>4 DEF GetBlockData

\* What a peer receives has been sent: the numbers under way are below the sender's
\* sequence number.
Sent(p) == {n \in Nat : n < Len(generated[Other(p)])}
SentOnly == \A p \in Peer : blocks[p] \in Seq(Sent(p))

LEMMA SendBlockSent ==
  ASSUME StreamTypes, SentOnly, NEW p \in Peer, SendBlock(p)
  PROVE  SentOnly'
<1>1. generated[p] \in Seq(Block) /\ NewBlock(p) \in Block /\ Len(generated[p]) \in Nat
  BY NewBlockType DEF StreamTypes
<1>2. generated'[p] = Append(generated[p], NewBlock(p))
  BY <1>1 DEF SendBlock, StreamTypes
<1>3. Len(generated'[p]) = Len(generated[p]) + 1
  BY <1>1, <1>2, AppendProperties
<1>4. generated'[Other(p)] = generated[Other(p)] /\ blocks'[p] = blocks[p]
  BY DEF SendBlock, StreamTypes, Other, Peer
<1>5. Other(p) \in Peer /\ Other(Other(p)) = p /\ \A q \in Peer : q = p \/ q = Other(p)
  BY DEF Other, Peer
<1>6. blocks'[Other(p)] = Append(blocks[Other(p)], Len(generated[p]))
  BY <1>5 DEF SendBlock, StreamTypes
<1>7. Sent(p)' = Sent(p)
  BY <1>4 DEF Sent
<1>8. Sent(Other(p)) \subseteq Sent(Other(p))' /\ Len(generated[p]) \in Sent(Other(p))'
  BY <1>1, <1>3, <1>5 DEF Sent
<1>9. blocks[Other(p)] \in Seq(Sent(Other(p))')
  BY <1>5, <1>8, SeqMonotonic DEF SentOnly
<1>10. blocks'[Other(p)] \in Seq(Sent(Other(p))')
  BY <1>6, <1>8, <1>9, AppendOf
<1>11. blocks'[p] \in Seq(Sent(p)')
  BY <1>4, <1>7 DEF SentOnly
<1> QED
  BY <1>5, <1>10, <1>11 DEF SentOnly

LEMMA KeepsSent == SentOnly /\ UNCHANGED <<blocks, generated>> => SentOnly'
  BY DEF SentOnly, Sent

LEMMA GetBlockDataSent ==
  ASSUME StreamTypes, SentOnly, NEW p \in Peer, NEW l \in Layer, GetBlockData(p, l)
  PROVE  SentOnly'
  BY SendBlockSent, KeepsSent DEF GetBlockData, Generate, Ask, blockVars

LEMMA ReceiveBlockType ==
  ASSUME TypeOK, SentOnly, NEW p \in Peer, ReceiveBlock(p)
  PROVE  TypeOK' /\ SentOnly'
<1>0. StreamTypes /\ LayerTypes /\ RestTypes
  BY TypeParts
<1>1. blocks[p] \in Seq(Sent(p)) /\ blocks[p] # <<>>
  BY DEF SentOnly, ReceiveBlock
<1>2. Head(blocks[p]) \in Sent(p) /\ Tail(blocks[p]) \in Seq(Sent(p))
  BY <1>1, HeadTailOf
<1>3. Tail(blocks[p]) \in Seq(Nat)
  BY <1>2, SeqMonotonic DEF Sent
<1>4. blocks' \in [Peer -> Seq(Nat)]
  BY <1>0, <1>3, PeerUpdate DEF ReceiveBlock, StreamTypes
<1>5. SentOnly'
  BY <1>0, <1>2 DEF SentOnly, Sent, ReceiveBlock, StreamTypes
<1>6. StreamTypes' /\ LayerTypes' /\ cycle' \in [Peer -> SUBSET Layer]
  <2>1. CASE /\ latest' = [latest EXCEPT ![p] = @ + 1]
             /\ AddNewBlock(p, generated[Other(p)][Head(blocks[p]) + 1])
             /\ UNCHANGED requests
    <3> DEFINE block == generated[Other(p)][Head(blocks[p]) + 1]
    <3>1. generated[Other(p)] \in Seq(Block)
      BY <1>0, Pairs DEF StreamTypes
    <3>2. Head(blocks[p]) + 1 \in 1..Len(generated[Other(p)])
      BY <1>2, <3>1, LenProperties DEF Sent
    <3>3. block \in Block
      BY <3>1, <3>2, ElementOfSeq
    <3>4. \A l \in Layer : Append(received[p][l], block) \in Seq(Block)
      BY <1>0, <3>3, AppendOf DEF LayerTypes
    <3>5. [l \in Layer |-> Append(received[p][l], block)] \in [Layer -> Seq(Block)]
      BY <3>4
    <3>6. received' \in [Peer -> [Layer -> Seq(Block)]]
      BY <1>0, <2>1, <3>5, PeerUpdate DEF AddNewBlock, LayerTypes
    <3>7. latest' \in [Peer -> Nat]
      BY <1>0, <2>1 DEF StreamTypes
    <3>8. cycle' \in [Peer -> SUBSET Layer]
      BY <1>0, <2>1, PeerUpdate DEF AddNewBlock, RestTypes
    <3> QED
      BY <1>0, <1>4, <2>1, <3>6, <3>7, <3>8 DEF ReceiveBlock, StreamTypes, LayerTypes
  <2>2. CASE /\ \/ UNCHANGED requests
                \/ requests' = [requests EXCEPT ![Other(p)] = Append(@, latest[p])]
             /\ UNCHANGED <<latest, received, cycle>>
    <3>1. Append(requests[Other(p)], latest[p]) \in Seq(Nat)
      BY <1>0, Pairs, AppendOf DEF StreamTypes
    <3>2. requests' \in [Peer -> Seq(Nat)]
      BY <1>0, <2>2, <3>1, Pairs, PeerUpdate DEF StreamTypes
    <3> QED
      BY <1>0, <1>4, <2>2, <3>2 DEF ReceiveBlock, StreamTypes, LayerTypes, RestTypes
  <2> QED
    BY <2>1, <2>2 DEF ReceiveBlock
<1>7. RestTypes'
  BY <1>0, <1>6 DEF ReceiveBlock, RestTypes
<1> QED
  BY <1>5, <1>6, <1>7, TypeParts DEF TypeOK, StreamTypes, LayerTypes, RestTypes

LEMMA ReceiveRequestType ==
  ASSUME TypeOK, SentOnly, NEW p \in Peer, ReceiveRequest(p)
  PROVE  TypeOK' /\ SentOnly'
<1>0. StreamTypes /\ LayerTypes /\ RestTypes
  BY TypeParts
<1>1. requests[p] \in Seq(Nat) /\ requests[p] # <<>>
  BY <1>0 DEF ReceiveRequest, StreamTypes
<1>2. Head(requests[p]) \in Nat /\ Tail(requests[p]) \in Seq(Nat)
  BY <1>1, HeadTailOf
<1>3. requests' \in [Peer -> Seq(Nat)]
  BY <1>0, <1>2, PeerUpdate DEF ReceiveRequest, StreamTypes
<1>4. CASE /\ Head(requests[p]) < Len(generated[p])
           /\ blocks' = [blocks EXCEPT ![Other(p)] = Append(@, Head(requests[p]))]
           /\ UNCHANGED <<generated, next, madeUp>>
  <2>1. Other(p) \in Peer /\ Other(Other(p)) = p
    BY DEF Other, Peer
  <2>2. Head(requests[p]) \in Sent(Other(p))
    BY <1>2, <1>4, <2>1 DEF Sent
  <2>3. Append(blocks[Other(p)], Head(requests[p])) \in Seq(Sent(Other(p)))
    BY <2>1, <2>2, AppendOf DEF SentOnly
  <2>4. Append(blocks[Other(p)], Head(requests[p])) \in Seq(Nat)
    BY <2>3, SeqMonotonic DEF Sent
  <2>5. blocks' \in [Peer -> Seq(Nat)]
    BY <1>0, <1>4, <2>1, <2>4, PeerUpdate DEF StreamTypes
  <2>6. SentOnly'
    BY <1>0, <1>4, <2>1, <2>3 DEF SentOnly, Sent, StreamTypes
  <2> QED
    BY <1>0, <1>3, <1>4, <2>5, <2>6, TypeParts
    DEF ReceiveRequest, StreamTypes, LayerTypes, RestTypes, TypeOK
<1>5. CASE /\ SendBlock(p)
           /\ next' = [next EXCEPT ![p][1] = Append(@, NewBlock(p))]
           /\ madeUp' = TRUE
  <2>1. generated' \in [Peer -> Seq(Block)] /\ blocks' \in [Peer -> Seq(Nat)]
    BY <1>0, <1>5, SendBlockType
  <2>2. 1 \in Layer /\ Append(next[p][1], NewBlock(p)) \in Seq(Block)
    BY <1>0, NewBlockType, AppendOf DEF LayerTypes, Layer
  <2>3. next' \in [Peer -> [Layer -> Seq(Block)]]
    BY <1>0, <1>5, <2>2, LayerUpdate DEF LayerTypes
  <2>4. SentOnly'
    BY <1>0, <1>5, SendBlockSent
  <2>5. StreamTypes' /\ LayerTypes'
    BY <1>0, <1>3, <2>1, <2>3 DEF ReceiveRequest, StreamTypes, LayerTypes
  <2>6. RestTypes'
    BY <1>0, <1>5 DEF ReceiveRequest, RestTypes
  <2> QED
    BY <2>4, <2>5, <2>6, TypeParts DEF TypeOK, StreamTypes, LayerTypes, RestTypes
<1> QED
  BY <1>4, <1>5 DEF ReceiveRequest

LEMMA InitType == Init => TypeOK /\ SentOnly
<1> SUFFICES ASSUME Init PROVE TypeOK /\ SentOnly
  OBVIOUS
<1>1. <<>> \in Seq(Nat) /\ <<>> \in Seq(Block) /\ \A p \in Peer : <<>> \in Seq(Sent(p))
  BY NoneOf
<1>2. StreamTypes
  <2>1. \A p \in Peer : (IF p = "server" THEN InitialBlocks ELSE <<>>) \in Seq(Block)
    BY <1>1, InitialBlocksType
  <2>2. generated \in [Peer -> Seq(Block)]
    BY <2>1 DEF Init
  <2>3. blocks \in [Peer -> Seq(Nat)] /\ requests \in [Peer -> Seq(Nat)]
    BY <1>1 DEF Init
  <2>4. latest \in [Peer -> Nat]
    BY DEF Init
  <2> QED
    BY <2>2, <2>3, <2>4 DEF StreamTypes
<1>3. LayerTypes
  BY <1>1, InitialBlocksType DEF Init, LayerTypes
<1>4. RestTypes
  BY DEF Init, RestTypes
<1>5. SentOnly
  BY <1>1 DEF Init, SentOnly
<1> QED
  BY <1>2, <1>3, <1>4, <1>5, TypeParts

LEMMA NextType == TypeOK /\ SentOnly /\ [Next]_vars => TypeOK' /\ SentOnly'
<1> SUFFICES ASSUME TypeOK, SentOnly, [Next]_vars PROVE TypeOK' /\ SentOnly'
  OBVIOUS
<1>0. StreamTypes /\ LayerTypes /\ RestTypes
  BY TypeParts
<1>1. ASSUME NEW p \in Peer, Decide(p) PROVE TypeOK' /\ SentOnly'
  <2>1. LayerTypes'
    BY <1>0, <1>1, LayerUpdate DEF Decide, blockVars, LayerTypes, Layer
  <2>2. moves' \in [Peer -> Nat] /\ turns' \in [Peer -> Nat]
    BY <1>0, <1>1, Pairs DEF Decide, RestTypes
  <2>3. StreamTypes' /\ RestTypes' /\ SentOnly'
    BY <1>0, <1>1, <2>2, KeepsSent DEF Decide, blockVars, StreamTypes, RestTypes
  <2> QED
    BY <2>1, <2>3, TypeParts DEF TypeOK, StreamTypes, LayerTypes, RestTypes
<1>2. ASSUME NEW p \in Peer, ReceiveMove(p) PROVE TypeOK' /\ SentOnly'
  <2>1. LayerTypes'
    BY <1>0, <1>2, LayerUpdate DEF ReceiveMove, blockVars, LayerTypes, Layer
  <2>2. moves' \in [Peer -> Nat]
    BY <1>0, <1>2 DEF ReceiveMove, RestTypes
  <2>3. StreamTypes' /\ RestTypes' /\ SentOnly'
    BY <1>0, <1>2, <2>2, KeepsSent DEF ReceiveMove, blockVars, StreamTypes, RestTypes
  <2> QED
    BY <2>1, <2>3, TypeParts DEF TypeOK, StreamTypes, LayerTypes, RestTypes
<1>3. ASSUME NEW p \in Peer, NEW l \in Layer, CreateNewBlock(p, l) PROVE TypeOK' /\ SentOnly'
  <2>1. GetBlockData(p, l) /\ madeUp \in BOOLEAN
    BY <1>0, <1>3 DEF CreateNewBlock, RestTypes
  <2>2. StreamTypes' /\ LayerTypes' /\ madeUp' \in BOOLEAN
    BY <1>0, <2>1, GetBlockDataType
  <2>3. SentOnly'
    BY <1>0, <2>1, GetBlockDataSent
  <2>4. RestTypes'
    BY <1>0, <1>3, <2>2 DEF CreateNewBlock, RestTypes
  <2> QED
    BY <2>2, <2>3, <2>4, TypeParts DEF TypeOK, StreamTypes, LayerTypes, RestTypes
<1>4. CASE UNCHANGED vars
  BY <1>4, KeepsSent DEF vars, channelVars, blockVars, TypeOK
<1> QED
  BY <1>1, <1>2, <1>3, <1>4, ReceiveBlockType, ReceiveRequestType DEF Next

\* The state of a network match's blocks has the types the code gives it: a block is
\* only looked up by a number that its generator has sent.
THEOREM TypeCorrect == Spec => []TypeOK
<1>1. Init => TypeOK /\ SentOnly
  BY InitType
<1>2. TypeOK /\ SentOnly /\ [Next]_vars => TypeOK' /\ SentOnly'
  BY NextType
<1> QED
  BY <1>1, <1>2, PTL DEF Spec
--------------------------------------------------------------------------------
(* The boards.                                                                  *)

\* While the client has generated nothing, it has sent no block to the server, no
\* block was put aside for one of its layers or for the server's mirror, and what it
\* has processed the server has sent.
NoClientBlocks ==
    /\ blocks["server"] = <<>>
    /\ \A l \in Layer : next["client"][l] = <<>>
    /\ next["server"][2] = <<>>
    /\ received["server"][1] = <<>>
    /\ latest["client"] <= Len(generated["server"])

BoardsInv == generated["client"] = <<>> => NoClientBlocks /\ BlocksAgree

\* Sequences of any kind, put together as a board's sequel is.
LEMMA AppendLast ==
  ASSUME NEW S, NEW s \in Seq(S), NEW t \in Seq(S), NEW x \in S
  PROVE  s \o Append(t, x) = Append(s \o t, x)
<1>1. <<x>> \in Seq(S)
  BY SMT
<1>2. s \o (t \o <<x>>) = (s \o t) \o <<x>>
  BY <1>1, ConcatAssociative
<1>3. s \o t \in Seq(S)
  BY ConcatProperties
<1> QED
  BY <1>2, <1>3, AppendIsConcat

LEMMA MoveHead ==
  ASSUME NEW S, NEW s \in Seq(S), NEW t \in Seq(S), t # <<>>
  PROVE  Append(s, Head(t)) \o Tail(t) = s \o t
<1>1. Head(t) \in S /\ Tail(t) \in Seq(S)
  BY HeadTailOf
<1>2. <<Head(t)>> \in Seq(S)
  BY <1>1, SMT
<1>3. <<Head(t)>> \o Tail(t) = t
  BY <1>1, SMT
<1>4. (s \o <<Head(t)>>) \o Tail(t) = s \o (<<Head(t)>> \o Tail(t))
  BY <1>1, <1>2, ConcatAssociative
<1> QED
  BY <1>1, <1>3, <1>4, AppendIsConcat

LEMMA LongerPrefix ==
  ASSUME NEW S, NEW s \in Seq(S), NEW n \in Nat, n < Len(s)
  PROVE  Append(SubSeq(s, 1, n), s[n + 1]) = SubSeq(s, 1, n + 1)
<1>1. Len(s) \in Nat /\ 1 \in 1..Len(s) /\ n + 1 \in 1..Len(s) /\ (n + 1) - 1 = n
  BY LenProperties
<1>2. SubSeq(s, 1, n + 1) = SubSeq(s, 1, n) \o <<s[n + 1]>>
  BY <1>1, SubSeqRecursiveSecond
<1>3. s[n + 1] \in S /\ \A i \in 1..n : s[i] \in S
  BY <1>1, ElementOfSeq
<1>4. SubSeq(s, 1, n) \in Seq(S)
  BY <1>3, SubSeqProperties
<1> QED
  BY <1>2, <1>3, <1>4, AppendIsConcat

LEMMA SamePrefix ==
  ASSUME NEW S, NEW s \in Seq(S), NEW x \in S, NEW n \in Nat, n <= Len(s)
  PROVE  SubSeq(Append(s, x), 1, n) = SubSeq(s, 1, n)
<1>1. \A i \in 1..n : s[i] \in S /\ Append(s, x)[i] = s[i]
  BY LenProperties, ElementOfSeq, AppendProperties
<1>2. /\ SubSeq(s, 1, n) \in Seq(S)
      /\ Len(SubSeq(s, 1, n)) = n
      /\ \A i \in 1..n : SubSeq(s, 1, n)[i] = s[i]
  BY <1>1, SubSeqProperties
<1>3. /\ SubSeq(Append(s, x), 1, n) \in Seq(S)
      /\ Len(SubSeq(Append(s, x), 1, n)) = n
      /\ \A i \in 1..n : SubSeq(Append(s, x), 1, n)[i] = Append(s, x)[i]
  BY <1>1, SubSeqProperties
<1> QED
  BY <1>1, <1>2, <1>3, SeqEqual

\* A layer's sequel, when it takes a block from one of its queues.
LEMMA TakeNext ==
  ASSUME NEW d \in Seq(Block), NEW n \in Seq(Block), NEW r, n # <<>>
  PROVE  Append(d, Head(n)) \o Tail(n) \o r = d \o n \o r
<1>1. Append(d, Head(n)) \o Tail(n) = d \o n
  BY MoveHead
<1> QED
  BY ONLY <1>1

LEMMA TakeReceived ==
  ASSUME NEW d \in Seq(Block), NEW r \in Seq(Block), r # <<>>
  PROVE  Append(d, Head(r)) \o <<>> \o Tail(r) = d \o <<>> \o r
<1>1. Append(d, Head(r)) \in Seq(Block)
  BY HeadTailOf, AppendOf
<1>2. Append(d, Head(r)) \o <<>> = Append(d, Head(r)) /\ d \o <<>> = d
  BY <1>1, ConcatEmptySeq
<1>3. Append(d, Head(r)) \o Tail(r) = d \o r
  BY MoveHead
<1> QED
  BY ONLY <1>2, <1>3

LEMMA AppendReceived ==
  ASSUME NEW d \in Seq(Block), NEW n \in Seq(Block), NEW r \in Seq(Block), NEW b \in Block
  PROVE  d \o n \o Append(r, b) = Append(d \o n \o r, b)
<1>1. d \o n \in Seq(Block)
  BY ConcatProperties
<1> QED
  BY <1>1, AppendLast

\* One of the queues, after a block was put at its end.
LEMMA AppendAt ==
  ASSUME NEW f \in [Peer -> [Layer -> Seq(Block)]], NEW p \in Peer, NEW l \in Layer,
         NEW b \in Block, NEW g, g = [f EXCEPT ![p][l] = Append(@, b)]
  PROVE  /\ g[p][l] = Append(f[p][l], b)
         /\ \A q \in Peer, k \in Layer : (q # p \/ k # l) => g[q][k] = f[q][k]
<1>1. Append(f[p][l], b) \in Seq(Block)
  BY AppendOf
<1> QED
  BY <1>1, LayerUpdateAt

\* What the boards' invariant says of the server's blocks, as getNewBlockData sends
\* another one: the client's prefix is the same.
LEMMA SendBlockBy ==
  ASSUME TypeOK, NEW p \in Peer, SendBlock(p)
  PROVE  /\ generated'[p] = Append(generated[p], NewBlock(p))
         /\ generated'[Other(p)] = generated[Other(p)]
         /\ blocks'[p] = blocks[p]
  BY DEF SendBlock, TypeOK, Other, Peer

LEMMA ServerSends ==
  ASSUME TypeOK, SendBlock("server"), latest["client"] <= Len(generated["server"])
  PROVE  /\ SubSeq(generated'["server"], 1, latest["client"])
              = SubSeq(generated["server"], 1, latest["client"])
         /\ latest["client"] <= Len(generated'["server"])
<1>1. "server" \in Peer /\ "client" \in Peer
  BY DEF Peer
<1>2. /\ generated["server"] \in Seq(Block) /\ NewBlock("server") \in Block
      /\ Len(generated["server"]) \in Nat
  BY <1>1, TypeParts, NewBlockType DEF StreamTypes
<1>3. generated'["server"] = Append(generated["server"], NewBlock("server"))
  BY <1>1, SendBlockBy
<1>4. latest["client"] \in Nat
  BY <1>1 DEF TypeOK
<1>5. SubSeq(generated'["server"], 1, latest["client"])
        = SubSeq(generated["server"], 1, latest["client"])
  BY <1>2, <1>3, <1>4, SamePrefix
<1>6. Len(generated'["server"]) = Len(generated["server"]) + 1
  BY <1>2, <1>3, AppendProperties
<1> QED
  BY <1>2, <1>4, <1>5, <1>6

LEMMA GeneratedOnlyGrows ==
  ASSUME TypeOK, [Next]_vars, generated'["client"] = <<>>
  PROVE  generated["client"] = <<>>
<1>1. ASSUME NEW p \in Peer, SendBlock(p) PROVE generated["client"] = <<>>
  <2>1. "client" \in Peer /\ generated["client"] \in Seq(Block) /\ NewBlock(p) \in Block
    BY TypeParts, NewBlockType DEF TypeOK, Peer
  <2>2. p = "client" => generated'["client"] # <<>>
    BY <1>1, <2>1, SendBlockBy, AppendProperties
  <2>3. p # "client" => Other(p) = "client"
    BY DEF Peer, Other
  <2> QED
    BY <1>1, <2>2, <2>3, SendBlockBy
<1>2. CASE UNCHANGED generated
  BY <1>2
<1>3. UNCHANGED generated \/ \E p \in Peer : SendBlock(p)
  BY DEF Next, vars, channelVars, blockVars, Decide, ReceiveMove, CreateNewBlock,
         GetBlockData, Generate, Ask, ReceiveBlock, ReceiveRequest
<1> QED
  BY <1>1, <1>2, <1>3
--------------------------------------------------------------------------------
\* The steps, as long as the client has generated nothing.

\* The parts of the typed state that the boards' invariant is about.
BoardTypes(p, l) ==
    /\ dealt[p][l] \in Seq(Block)
    /\ next[p][l] \in Seq(Block)
    /\ received[p][l] \in Seq(Block)

LEMMA BoardsTyped ==
  ASSUME TypeOK
  PROVE  /\ \A p \in Peer, l \in Layer : BoardTypes(p, l) /\ Sequel(p, l) \in Seq(Block)
         /\ \A p \in Peer : generated[p] \in Seq(Block) /\ latest[p] \in Nat
<1>1. ASSUME NEW p \in Peer, NEW l \in Layer
      PROVE  BoardTypes(p, l)
  BY TypeParts DEF LayerTypes, BoardTypes
<1>2. ASSUME NEW p \in Peer, NEW l \in Layer
      PROVE  Sequel(p, l) \in Seq(Block)
  <2>1. dealt[p][l] \o next[p][l] \in Seq(Block)
    BY <1>1, ConcatProperties DEF BoardTypes
  <2> QED
    BY <1>1, <2>1, ConcatProperties DEF BoardTypes, Sequel
<1> QED
  BY <1>1, <1>2 DEF TypeOK

\* A board that takes a block from one of its queues has the same sequel.
LEMMA TakeSequels ==
  ASSUME TypeOK, NEW p \in Peer, NEW l \in Layer,
         \/ /\ next[p][l] # <<>>
            /\ Deal(p, l, Head(next[p][l]))
            /\ next' = [next EXCEPT ![p][l] = Tail(@)]
            /\ UNCHANGED received
         \/ /\ next[p][l] = <<>>
            /\ received[p][l] # <<>>
            /\ Deal(p, l, Head(received[p][l]))
            /\ received' = [received EXCEPT ![p][l] = Tail(@)]
            /\ UNCHANGED next
  PROVE  \A q \in Peer, k \in Layer :
           /\ Sequel(q, k)' = Sequel(q, k)
           /\ next[q][k] = <<>> => next'[q][k] = <<>>
           /\ \/ received'[q][k] = received[q][k]
              \/ received[q][k] # <<>> /\ received'[q][k] = Tail(received[q][k])
<1>1. BoardTypes(p, l)
  BY BoardsTyped
<1>2. /\ \A q \in Peer, k \in Layer :
           (q # p \/ k # l) => /\ dealt'[q][k] = dealt[q][k]
                               /\ next'[q][k] = next[q][k]
                               /\ received'[q][k] = received[q][k]
      /\ \/ /\ next[p][l] # <<>>
            /\ dealt'[p][l] = Append(dealt[p][l], Head(next[p][l]))
            /\ next'[p][l] = Tail(next[p][l])
            /\ received'[p][l] = received[p][l]
         \/ /\ next[p][l] = <<>>
            /\ received[p][l] # <<>>
            /\ dealt'[p][l] = Append(dealt[p][l], Head(received[p][l]))
            /\ received'[p][l] = Tail(received[p][l])
            /\ next'[p][l] = <<>>
  <2>0. LayerTypes
    BY TypeParts
  <2>1. CASE /\ next[p][l] # <<>>
             /\ Deal(p, l, Head(next[p][l]))
             /\ next' = [next EXCEPT ![p][l] = Tail(@)]
             /\ UNCHANGED received
    <3>1. Head(next[p][l]) \in Block /\ Tail(next[p][l]) \in Seq(Block)
      BY <1>1, <2>1, HeadTailOf DEF BoardTypes
    <3>2. Append(dealt[p][l], Head(next[p][l])) \in Seq(Block)
      BY <1>1, <3>1, AppendOf DEF BoardTypes
    <3>3. /\ dealt'[p][l] = Append(dealt[p][l], Head(next[p][l]))
          /\ \A q \in Peer, k \in Layer : (q # p \/ k # l) => dealt'[q][k] = dealt[q][k]
      BY <2>0, <2>1, <3>2, LayerUpdateAt DEF LayerTypes, Deal
    <3>4. /\ next'[p][l] = Tail(next[p][l])
          /\ \A q \in Peer, k \in Layer : (q # p \/ k # l) => next'[q][k] = next[q][k]
      BY <2>0, <2>1, <3>1, LayerUpdateAt DEF LayerTypes
    <3> QED
      BY <2>1, <3>3, <3>4
  <2>2. CASE /\ next[p][l] = <<>>
             /\ received[p][l] # <<>>
             /\ Deal(p, l, Head(received[p][l]))
             /\ received' = [received EXCEPT ![p][l] = Tail(@)]
             /\ UNCHANGED next
    <3>1. Head(received[p][l]) \in Block /\ Tail(received[p][l]) \in Seq(Block)
      BY <1>1, <2>2, HeadTailOf DEF BoardTypes
    <3>2. Append(dealt[p][l], Head(received[p][l])) \in Seq(Block)
      BY <1>1, <3>1, AppendOf DEF BoardTypes
    <3>3. /\ dealt'[p][l] = Append(dealt[p][l], Head(received[p][l]))
          /\ \A q \in Peer, k \in Layer : (q # p \/ k # l) => dealt'[q][k] = dealt[q][k]
      BY <2>0, <2>2, <3>2, LayerUpdateAt DEF LayerTypes, Deal
    <3>4. /\ received'[p][l] = Tail(received[p][l])
          /\ \A q \in Peer, k \in Layer : (q # p \/ k # l) => received'[q][k] = received[q][k]
      BY <2>0, <2>2, <3>1, LayerUpdateAt DEF LayerTypes
    <3> QED
      BY <2>2, <3>3, <3>4
  <2> QED
    BY <2>1, <2>2
<1>3. Sequel(p, l)' = Sequel(p, l)
  <2>1. CASE /\ next[p][l] # <<>>
             /\ dealt'[p][l] = Append(dealt[p][l], Head(next[p][l]))
             /\ next'[p][l] = Tail(next[p][l])
             /\ received'[p][l] = received[p][l]
    <3>1. Append(dealt[p][l], Head(next[p][l])) \o Tail(next[p][l]) \o received[p][l]
            = dealt[p][l] \o next[p][l] \o received[p][l]
      BY <1>1, <2>1, TakeNext DEF BoardTypes
    <3>2. Sequel(p, l)'
            = Append(dealt[p][l], Head(next[p][l])) \o Tail(next[p][l]) \o received[p][l]
      BY ONLY <2>1 DEF Sequel
    <3> QED
      BY ONLY <3>1, <3>2 DEF Sequel
  <2>2. CASE /\ next[p][l] = <<>>
             /\ received[p][l] # <<>>
             /\ dealt'[p][l] = Append(dealt[p][l], Head(received[p][l]))
             /\ received'[p][l] = Tail(received[p][l])
             /\ next'[p][l] = <<>>
    <3>1. Append(dealt[p][l], Head(received[p][l])) \o <<>> \o Tail(received[p][l])
            = dealt[p][l] \o <<>> \o received[p][l]
      BY <1>1, <2>2, TakeReceived DEF BoardTypes
    <3>2. Sequel(p, l)'
            = Append(dealt[p][l], Head(received[p][l])) \o <<>> \o Tail(received[p][l])
      BY ONLY <2>2 DEF Sequel
    <3>3. Sequel(p, l) = dealt[p][l] \o <<>> \o received[p][l]
      BY ONLY <2>2 DEF Sequel
    <3> QED
      BY ONLY <3>1, <3>2, <3>3
  <2> QED
    BY <1>2, <2>1, <2>2
<1>4. \A q \in Peer, k \in Layer : Sequel(q, k)' = Sequel(q, k)
  BY <1>2, <1>3 DEF Sequel
<1> QED
  BY <1>2, <1>4

LEMMA TakeBoards ==
  ASSUME TypeOK, NEW p \in Peer, NEW l \in Layer, NoClientBlocks, BlocksAgree,
         generated["client"] = <<>>,
         UNCHANGED <<blocks, generated, latest, madeUp>>,
         \/ /\ next[p][l] # <<>>
            /\ Deal(p, l, Head(next[p][l]))
            /\ next' = [next EXCEPT ![p][l] = Tail(@)]
            /\ UNCHANGED received
         \/ /\ next[p][l] = <<>>
            /\ received[p][l] # <<>>
            /\ Deal(p, l, Head(received[p][l]))
            /\ received' = [received EXCEPT ![p][l] = Tail(@)]
            /\ UNCHANGED next
  PROVE  NoClientBlocks' /\ BlocksAgree'
<1>1. \A q \in Peer, k \in Layer : /\ Sequel(q, k)' = Sequel(q, k)
                                   /\ next[q][k] = <<>> => next'[q][k] = <<>>
                                   /\ received[q][k] = <<>> => received'[q][k] = <<>>
  BY TakeSequels
<1>2. BlocksAgree'
  BY <1>1 DEF BlocksAgree, Peer, Layer
<1> QED
  BY <1>1, <1>2 DEF NoClientBlocks, Peer, Layer

\* The queues stay: so do the sequels.
LEMMA KeepsBoards ==
  ASSUME NoClientBlocks, BlocksAgree, blocks'["server"] = blocks["server"],
         UNCHANGED <<generated, latest, next, received, dealt, madeUp>>
  PROVE  NoClientBlocks' /\ BlocksAgree'
  BY DEF NoClientBlocks, BlocksAgree, Sequel

\* The server generates a block for its player, and copies it to the mirror.
LEMMA GenerateBoards ==
  ASSUME TypeOK, NoClientBlocks, BlocksAgree, generated["client"] = <<>>,
         next["server"][1] = <<>>, received["server"][1] = <<>>, Generate("server", 1)
  PROVE  NoClientBlocks' /\ BlocksAgree'
<1> DEFINE b == NewBlock("server")
<1>1. "server" \in Peer /\ "client" \in Peer /\ Layer = {1, 2} /\ Opponent(1) = 2
  BY DEF Peer, Layer, Opponent
<1>2. /\ b \in Block /\ generated["server"] \in Seq(Block) /\ latest["client"] \in Nat
      /\ BoardTypes("server", 1) /\ BoardTypes("server", 2)
      /\ LayerTypes
  BY <1>1, TypeParts, NewBlockType, BoardsTyped
<1>3. /\ generated'["server"] = Append(generated["server"], b)
      /\ blocks'["server"] = blocks["server"]
  BY <1>1, SendBlockBy DEF Generate
<1>4. Append(dealt["server"][1], b) \in Seq(Block) /\ Append(received["server"][2], b) \in Seq(Block)
  BY <1>2, AppendOf DEF BoardTypes
<1>5. /\ dealt'["server"][1] = Append(dealt["server"][1], b)
      /\ \A q \in Peer, k \in Layer : (q # "server" \/ k # 1) => dealt'[q][k] = dealt[q][k]
  <2>1. dealt \in [Peer -> [Layer -> Seq(Block)]] /\ 1 \in Layer
    BY <1>1, <1>2 DEF LayerTypes
  <2>2. dealt' = [dealt EXCEPT !["server"][1] = Append(@, b)]
    BY DEF Generate, Deal
  <2> QED
    BY <1>1, <1>2, <2>1, <2>2, AppendAt
<1>6. /\ received'["server"][2] = Append(received["server"][2], b)
      /\ \A q \in Peer, k \in Layer : (q # "server" \/ k # 2) => received'[q][k] = received[q][k]
  <2>1. received \in [Peer -> [Layer -> Seq(Block)]] /\ 2 \in Layer
    BY <1>1, <1>2 DEF LayerTypes
  <2>2. received' = [received EXCEPT !["server"][2] = Append(@, b)]
    BY <1>1 DEF Generate
  <2> QED
    BY <1>1, <1>2, <2>1, <2>2, AppendAt
<1>7. next' = next /\ latest' = latest /\ madeUp' = madeUp
  BY DEF Generate
<1>8. /\ SubSeq(generated'["server"], 1, latest["client"])
           = SubSeq(generated["server"], 1, latest["client"])
      /\ latest["client"] <= Len(generated'["server"])
  BY ServerSends DEF Generate, NoClientBlocks
<1>9. NoClientBlocks'
  BY <1>1, <1>3, <1>6, <1>7, <1>8 DEF NoClientBlocks
<1>10. \A l \in Layer : Sequel("client", l)' = SubSeq(generated["server"], 1, latest["client"])
  BY <1>1, <1>5, <1>6, <1>7 DEF BlocksAgree, Sequel
<1>11. Sequel("server", 1)' = generated'["server"]
  <2>1. dealt["server"][1] \o <<>> = dealt["server"][1]
    BY <1>2, ConcatEmptySeq DEF BoardTypes
  <2>2. Append(dealt["server"][1], b) \o <<>> = Append(dealt["server"][1], b)
    BY <1>4, ConcatEmptySeq
  <2>3. Sequel("server", 1) = dealt["server"][1]
    BY <2>1 DEF Sequel
  <2>4. Sequel("server", 1)' = Append(dealt["server"][1], b)
    <3>1. next'["server"][1] = <<>> /\ received'["server"][1] = <<>>
      BY <1>1, <1>6, <1>7
    <3>2. dealt'["server"][1] = Append(dealt["server"][1], b)
      BY <1>5
    <3> QED
      BY ONLY <3>1, <3>2, <2>2 DEF Sequel
  <2> QED
    BY <1>3, <2>3, <2>4 DEF BlocksAgree
<1>12. ~madeUp => Sequel("server", 2)' = generated'["server"]
  <2>1. dealt["server"][2] \o next["server"][2] \o Append(received["server"][2], b)
          = Append(Sequel("server", 2), b)
    <3>1. /\ dealt["server"][2] \in Seq(Block) /\ next["server"][2] \in Seq(Block)
          /\ received["server"][2] \in Seq(Block) /\ b \in Block
      BY <1>2 DEF BoardTypes
    <3> HIDE DEF b
    <3> QED
      BY ONLY <3>1, AppendReceived DEF Sequel
  <2>2. Sequel("server", 2)' = Append(Sequel("server", 2), b)
    <3>1. dealt'["server"][2] = dealt["server"][2] /\ next'["server"][2] = next["server"][2]
      BY <1>1, <1>5, <1>7
    <3>2. received'["server"][2] = Append(received["server"][2], b)
      BY <1>6
    <3> QED
      BY ONLY <2>1, <3>1, <3>2 DEF Sequel
  <2> QED
    BY <1>3, <2>2 DEF BlocksAgree
<1> QED
  BY <1>7, <1>8, <1>9, <1>10, <1>11, <1>12 DEF BlocksAgree

LEMMA CreateNewBlockBoards ==
  ASSUME TypeOK, NoClientBlocks, BlocksAgree, generated["client"] = <<>>,
         NEW p \in Peer, NEW l \in Layer, CreateNewBlock(p, l)
  PROVE  NoClientBlocks' /\ BlocksAgree'
<1>1. CASE /\ next[p][l] # <<>>
           /\ Deal(p, l, Head(next[p][l]))
           /\ next' = [next EXCEPT ![p][l] = Tail(@)]
           /\ UNCHANGED <<blocks, requests, generated, latest, received, madeUp>>
  BY <1>1, TakeBoards
<1>2. CASE /\ next[p][l] = <<>>
           /\ received[p][l] # <<>>
           /\ Deal(p, l, Head(received[p][l]))
           /\ received' = [received EXCEPT ![p][l] = Tail(@)]
           /\ UNCHANGED <<blocks, requests, generated, latest, next, madeUp>>
  BY <1>2, TakeBoards
<1>3. CASE /\ next[p][l] = <<>> /\ received[p][l] = <<>>
           /\ p = "server" /\ l = 1
           /\ Generate(p, l)
  BY <1>3, GenerateBoards
<1>4. CASE Ask(p, l)
  BY <1>4, KeepsBoards DEF Ask, blockVars
<1> QED
  BY <1>1, <1>2, <1>3, <1>4 DEF CreateNewBlock, GetBlockData

\* The client processes the next of the server's blocks.  The server gets none.
LEMMA ReceiveBlockBoards ==
  ASSUME TypeOK, SentOnly, NoClientBlocks, BlocksAgree, generated["client"] = <<>>,
         NEW p \in Peer, ReceiveBlock(p)
  PROVE  NoClientBlocks' /\ BlocksAgree'
<1>1. p = "client" /\ "client" \in Peer /\ "server" \in Peer /\ Other("client") = "server"
  BY DEF Peer, Other, ReceiveBlock, NoClientBlocks
<1>2. blocks'["server"] = blocks["server"]
  BY <1>1 DEF ReceiveBlock, TypeOK
<1>3. CASE UNCHANGED <<latest, received>>
  BY <1>2, <1>3, KeepsBoards DEF ReceiveBlock
<1>4. CASE /\ Head(blocks[p]) = latest[p]
           /\ latest' = [latest EXCEPT ![p] = @ + 1]
           /\ AddNewBlock(p, generated[Other(p)][Head(blocks[p]) + 1])
  <2> DEFINE g == generated["server"]
             n == latest["client"]
  <2>1. blocks["client"] \in Seq(Sent("client")) /\ blocks["client"] # <<>>
    BY <1>1 DEF SentOnly, ReceiveBlock
  <2>2. n \in Nat /\ g \in Seq(Block) /\ Len(g) \in Nat
    BY <1>1, BoardsTyped, LenProperties
  <2>3. n < Len(g)
    BY <1>1, <1>4, <2>1, HeadTailOf DEF Sent
  <2>4. g[n + 1] \in Block
    BY <2>2, <2>3, ElementOfSeq
  <2>5. latest'["client"] = n + 1
    BY <1>1, <1>4 DEF TypeOK
  <2>6. /\ \A l \in Layer : received'["client"][l] = Append(received["client"][l], g[n + 1])
        /\ received'["server"] = received["server"]
    BY <1>1, <1>4 DEF AddNewBlock, TypeOK
  <2>7. UNCHANGED <<generated, next, dealt, madeUp>>
    BY DEF ReceiveBlock
  <2>8. \A l \in Layer : Sequel("client", l)' = Append(Sequel("client", l), g[n + 1])
    <3> TAKE l \in Layer
    <3>1. BoardTypes("client", l)
      BY <1>1, BoardsTyped
    <3>2. dealt["client"][l] \o next["client"][l] \o Append(received["client"][l], g[n + 1])
            = Append(Sequel("client", l), g[n + 1])
      BY <2>4, <3>1, AppendReceived DEF BoardTypes, Sequel
    <3>3. /\ dealt' = dealt /\ next' = next
          /\ received'["client"][l] = Append(received["client"][l], g[n + 1])
      BY <2>6, <2>7
    <3> QED
      BY ONLY <3>2, <3>3 DEF Sequel
  <2>9. Append(SubSeq(g, 1, n), g[n + 1]) = SubSeq(g, 1, n + 1)
    BY <2>2, <2>3, LongerPrefix
  <2>10. \A l \in Layer : Sequel("client", l)' = SubSeq(g, 1, n + 1)
    BY <2>8, <2>9 DEF BlocksAgree
  <2>11. BlocksAgree'
    BY <2>5, <2>6, <2>7, <2>10 DEF BlocksAgree, Sequel
  <2>12. n + 1 <= Len(g)
    BY <2>2, <2>3
  <2>13. NoClientBlocks'
    BY <1>2, <2>5, <2>6, <2>7, <2>12 DEF NoClientBlocks
  <2> QED
    BY <2>11, <2>13
<1> QED
  BY <1>3, <1>4 DEF ReceiveBlock

\* The server sends a block again, or makes one up for its player.
LEMMA ReceiveRequestBoards ==
  ASSUME TypeOK, NoClientBlocks, BlocksAgree, generated["client"] = <<>>,
         generated'["client"] = <<>>, NEW p \in Peer, ReceiveRequest(p)
  PROVE  NoClientBlocks' /\ BlocksAgree'
<1> DEFINE b == NewBlock("server")
<1>1. /\ "client" \in Peer /\ "server" \in Peer /\ Layer = {1, 2}
      /\ Other("server") = "client" /\ (p = "server" \/ p = "client")
  BY DEF Peer, Other, Layer
<1>2. p = "server"
  <2>1. ASSUME p = "client" PROVE FALSE
    <3>1. requests[p] \in Seq(Nat) /\ requests[p] # <<>>
      BY DEF TypeOK, ReceiveRequest
    <3>2. Head(requests[p]) \in Nat /\ Len(generated[p]) = 0
      BY <2>1, <3>1, HeadTailOf, EmptySeq
    <3>3. SendBlock(p)
      BY <3>2 DEF ReceiveRequest
    <3>4. generated[p] \in Seq(Block) /\ NewBlock(p) \in Block
      BY TypeParts, NewBlockType DEF StreamTypes
    <3>5. generated'[p] # <<>>
      BY <3>3, <3>4, SendBlockBy, AppendProperties
    <3> QED
      BY <2>1, <3>5
  <2> QED
    BY <1>1, <2>1
<1>3. CASE /\ blocks' = [blocks EXCEPT ![Other(p)] = Append(@, Head(requests[p]))]
           /\ UNCHANGED <<generated, next, madeUp>>
  <2>1. blocks'["server"] = blocks["server"]
    BY <1>1, <1>2, <1>3 DEF TypeOK
  <2> QED
    BY <1>3, <2>1, KeepsBoards DEF ReceiveRequest
<1>4. CASE /\ SendBlock(p)
           /\ next' = [next EXCEPT ![p][1] = Append(@, NewBlock(p))]
           /\ madeUp' = TRUE
  <2>1. /\ b \in Block /\ generated["server"] \in Seq(Block) /\ BoardTypes("server", 1)
        /\ LayerTypes
    BY <1>1, TypeParts, NewBlockType, BoardsTyped
  <2>2. /\ generated'["server"] = Append(generated["server"], b)
        /\ blocks'["server"] = blocks["server"]
    BY <1>2, <1>4, SendBlockBy
  <2>4. /\ next'["server"][1] = Append(next["server"][1], b)
        /\ \A q \in Peer, k \in Layer : (q # "server" \/ k # 1) => next'[q][k] = next[q][k]
    <3>1. next \in [Peer -> [Layer -> Seq(Block)]] /\ 1 \in Layer
      BY <1>1, <2>1 DEF LayerTypes
    <3>2. next' = [next EXCEPT !["server"][1] = Append(@, b)]
      BY <1>2, <1>4
    <3> QED
      BY <1>1, <2>1, <3>1, <3>2, AppendAt
  <2>5. UNCHANGED <<latest, received, dealt>>
    BY DEF ReceiveRequest
  <2>6. /\ SubSeq(generated'["server"], 1, latest["client"])
             = SubSeq(generated["server"], 1, latest["client"])
        /\ latest["client"] <= Len(generated'["server"])
    BY <1>2, <1>4, ServerSends DEF NoClientBlocks
  <2>7. NoClientBlocks'
    BY <1>1, <2>2, <2>4, <2>5, <2>6 DEF NoClientBlocks
  <2>8. \A l \in Layer : Sequel("client", l)' = Sequel("client", l)
    BY <1>1, <2>4, <2>5 DEF Sequel
  <2>9. Sequel("server", 1)' = generated'["server"]
    <3> DEFINE d == dealt["server"][1]
               q == next["server"][1]
    <3>1. d \in Seq(Block) /\ q \in Seq(Block) /\ b \in Block
      BY <2>1 DEF BoardTypes
    <3> HIDE DEF b, d, q
    <3>2. d \o q \in Seq(Block)
      BY ONLY <3>1, ConcatProperties
    <3>3. d \o Append(q, b) = Append(d \o q, b)
      BY ONLY <3>1, AppendLast
    <3> USE DEF b, d, q
    <3>4. Append(d \o q, b) \in Seq(Block)
      BY <2>1, <3>2, AppendOf
    <3>5. (d \o q) \o <<>> = d \o q /\ Append(d \o q, b) \o <<>> = Append(d \o q, b)
      BY <3>2, <3>4, ConcatEmptySeq
    <3>6. Sequel("server", 1) = d \o q
      BY <3>5 DEF Sequel, NoClientBlocks
    <3>7. Sequel("server", 1)' = Append(d \o q, b)
      BY <2>4, <2>5, <3>3, <3>5 DEF Sequel, NoClientBlocks
    <3> QED
      BY <2>2, <3>6, <3>7 DEF BlocksAgree
  <2>10. BlocksAgree'
    BY <1>4, <2>5, <2>6, <2>8, <2>9 DEF BlocksAgree
  <2> QED
    BY <2>7, <2>10
<1> QED
  BY <1>3, <1>4 DEF ReceiveRequest

LEMMA InitBoards == Init => BoardsInv
<1> SUFFICES ASSUME Init PROVE NoClientBlocks /\ BlocksAgree
  BY DEF BoardsInv
<1>1. "client" \in Peer /\ "server" \in Peer /\ "server" # "client" /\ Layer = {1, 2}
  BY DEF Peer, Layer
<1>2. InitialBlocks \in Seq(Block) /\ Len(InitialBlocks) = 3
  BY InitialBlocksType
<1>3. \A p \in Peer, l \in Layer : /\ dealt[p][l] = InitialBlocks
                                   /\ next[p][l] = <<>> /\ received[p][l] = <<>>
  BY DEF Init
<1>4. generated["server"] = InitialBlocks /\ latest["client"] = 3 /\ blocks["server"] = <<>>
  BY <1>1 DEF Init
<1>5. InitialBlocks \o <<>> = InitialBlocks
  BY <1>2, ConcatEmptySeq
<1>6. \A p \in Peer, l \in Layer : Sequel(p, l) = InitialBlocks
  BY <1>3, <1>5 DEF Sequel
<1>7. SubSeq(InitialBlocks, 1, 3) = InitialBlocks
  BY <1>2, SubSeqFull
<1>8. NoClientBlocks
  <2>1. 1 \in Layer /\ 2 \in Layer
    BY <1>1
  <2>2. latest["client"] <= Len(generated["server"])
    <3>1. Len(generated["server"]) = 3
      BY <1>2, <1>4, Zenon
    <3> QED
      BY <1>4, <3>1
  <2>3. ASSUME NEW l \in Layer PROVE next["client"][l] = <<>>
    <3>1. "client" \in Peer
      BY <1>1
    <3> QED
      BY <1>3, <3>1
  <2>4. next["server"][2] = <<>> /\ received["server"][1] = <<>>
    BY <1>1, <1>3, <2>1
  <2> QED
    BY <1>4, <2>2, <2>3, <2>4 DEF NoClientBlocks
<1>9. BlocksAgree
  <2>1. \A l \in Layer : Sequel("client", l) = InitialBlocks
    BY <1>1, <1>6
  <2>2. Sequel("server", 1) = InitialBlocks /\ Sequel("server", 2) = InitialBlocks
    BY <1>1, <1>6
  <2> QED
    BY <1>4, <1>7, <2>1, <2>2 DEF BlocksAgree
<1> QED
  BY <1>8, <1>9

LEMMA NextBoards ==
  ASSUME TypeOK, SentOnly, BoardsInv, [Next]_vars
  PROVE  BoardsInv'
<1> SUFFICES ASSUME generated'["client"] = <<>> PROVE NoClientBlocks' /\ BlocksAgree'
  BY DEF BoardsInv
<1>1. generated["client"] = <<>> /\ NoClientBlocks /\ BlocksAgree
  BY GeneratedOnlyGrows DEF BoardsInv
<1>2. ASSUME NEW p \in Peer, Decide(p) \/ ReceiveMove(p) PROVE NoClientBlocks' /\ BlocksAgree'
  BY <1>1, <1>2, KeepsBoards DEF Decide, ReceiveMove, blockVars
<1>3. CASE UNCHANGED vars
  BY <1>1, <1>3, KeepsBoards DEF vars, channelVars, blockVars
<1> QED
  BY <1>1, <1>2, <1>3, CreateNewBlockBoards, ReceiveBlockBoards, ReceiveRequestBoards DEF Next

\* However the packets of the channel overtake each other, and whatever either board
\* asks for: until the client generates a block, every board is dealt the server's
\* blocks in the order it generated them, none twice and none left out (the queues of
\* getBlockData, addNewBlockData and sendNewBlockData lose and repeat nothing).
THEOREM BoardsAgree == Spec => []BlocksAgree
<1> DEFINE IInv == TypeOK /\ SentOnly /\ BoardsInv
<1>1. Init => IInv
  BY InitType, InitBoards
<1>2. IInv /\ [Next]_vars => IInv'
  BY NextType, NextBoards
<1>3. IInv => BlocksAgree
  BY DEF BoardsInv, BlocksAgree
<1> QED
  BY <1>1, <1>2, <1>3, PTL DEF Spec
--------------------------------------------------------------------------------
(* The blocks of one peer, when both peers generate.                            *)

\* u is v with x at place k, in front of its last part r.
Inserted(u, v, r, k, x) ==
    /\ DOMAIN u \subseteq Nat /\ DOMAIN v \subseteq Nat
    /\ k \in Nat /\ k \in DOMAIN u /\ u[k] = x
    /\ \A i \in DOMAIN u :
         /\ i < k => i \in DOMAIN v /\ u[i] = v[i]
         /\ i > k => /\ i - 1 \in DOMAIN v /\ u[i] = v[i - 1]
                     /\ i - k \in DOMAIN r /\ u[i] = r[i - k]
    /\ \A i \in DOMAIN v :
         (i \in DOMAIN u /\ u[i] = v[i]) \/ (i + 1 \in DOMAIN u /\ u[i + 1] = v[i])

LEMMA InsertAt ==
  ASSUME NEW t \in Seq(Block), NEW r \in Seq(Block), NEW x \in Block
  PROVE  Inserted(Append(t, x) \o r, t \o r, r, Len(t) + 1, x)
<1> DEFINE u == Append(t, x) \o r
           v == t \o r
           k == Len(t) + 1
<1>1. /\ Len(t) \in Nat /\ Len(r) \in Nat
      /\ DOMAIN t = 1..Len(t) /\ DOMAIN r = 1..Len(r)
  BY LenProperties
<1>2. /\ Append(t, x) \in Seq(Block) /\ Len(Append(t, x)) = k
      /\ \A i \in 1..Len(t) : Append(t, x)[i] = t[i]
      /\ Append(t, x)[k] = x
  BY AppendProperties
<1>3. /\ v \in Seq(Block) /\ Len(v) = Len(t) + Len(r)
      /\ \A i \in 1..Len(t) + Len(r) : v[i] = IF i <= Len(t) THEN t[i] ELSE r[i - Len(t)]
  BY ConcatProperties
<1>4. /\ u \in Seq(Block) /\ Len(u) = k + Len(r)
      /\ \A i \in 1..k + Len(r) : u[i] = IF i <= k THEN Append(t, x)[i] ELSE r[i - k]
  BY <1>2, ConcatProperties
<1>5. DOMAIN u = 1..k + Len(r) /\ DOMAIN v = 1..Len(t) + Len(r)
  BY <1>3, <1>4, LenProperties
<1> HIDE DEF u, v
<1>6. /\ k \in DOMAIN u /\ u[k] = x
      /\ DOMAIN u \subseteq Nat /\ DOMAIN v \subseteq Nat
  BY <1>1, <1>2, <1>4, <1>5
<1>7. ASSUME NEW i \in DOMAIN u
      PROVE  /\ i < k => i \in DOMAIN v /\ u[i] = v[i]
             /\ i > k => /\ i - 1 \in DOMAIN v /\ u[i] = v[i - 1]
                         /\ i - k \in DOMAIN r /\ u[i] = r[i - k]
  <2>1. i \in Nat /\ i >= 1 /\ i <= k + Len(r)
    BY <1>1, <1>5
  <2>2. CASE i < k
    <3>1. i \in 1..Len(t) /\ i \in 1..Len(t) + Len(r) /\ i <= Len(t) /\ i <= k
      BY <1>1, <2>1, <2>2
    <3>2. v[i] = t[i] /\ Append(t, x)[i] = t[i] /\ u[i] = Append(t, x)[i]
      BY <1>2, <1>3, <1>4, <1>5, <3>1
    <3> QED
      BY <1>5, <2>2, <3>1, <3>2
  <2>3. CASE i > k
    <3>1. /\ i - 1 \in 1..Len(t) + Len(r) /\ ~(i - 1 <= Len(t)) /\ ~(i <= k)
          /\ i - 1 - Len(t) = i - k /\ i - k \in 1..Len(r)
      BY <1>1, <2>1, <2>3
    <3>2. v[i - 1] = r[i - k] /\ u[i] = r[i - k]
      BY <1>3, <1>4, <1>5, <3>1
    <3> QED
      BY <1>1, <1>5, <2>1, <2>3, <3>1, <3>2
  <2> QED
    BY <1>1, <2>1, <2>2, <2>3
<1>8. ASSUME NEW i \in DOMAIN v
      PROVE  (i \in DOMAIN u /\ u[i] = v[i]) \/ (i + 1 \in DOMAIN u /\ u[i + 1] = v[i])
  <2>1. i \in Nat /\ i >= 1 /\ i <= Len(t) + Len(r)
    BY <1>1, <1>5
  <2>2. CASE i <= Len(t)
    <3>1. i \in DOMAIN u /\ i < k
      BY <1>1, <1>5, <2>1, <2>2
    <3> QED
      BY <1>7, <3>1
  <2>3. CASE i > Len(t)
    <3>1. i + 1 \in DOMAIN u /\ i + 1 > k /\ (i + 1) - 1 = i
      BY <1>1, <1>5, <2>1, <2>3
    <3> QED
      BY <1>7, <3>1
  <2> QED
    BY <1>1, <2>1, <2>2, <2>3
<1> QED
  BY <1>1, <1>6, <1>7, <1>8 DEF Inserted, u, v

\* The next block of a peer put into a sequence, behind all that peer's blocks.
LEMMA InsertNext ==
  ASSUME NEW t \in Seq(Block), NEW r \in Seq(Block), NEW q \in Peer, NEW n \in Nat,
         Ascending(t \o r), From(q, t \o r) \subseteq FirstBlocks(q, n), From(q, r) = {}
  PROVE  LET u == Append(t, <<q, n>>) \o r
         IN  /\ Ascending(u)
             /\ From(q, u) = From(q, t \o r) \cup {<<q, n>>}
             /\ \A o \in Peer : o # q => From(o, u) = From(o, t \o r)
<1> DEFINE x == <<q, n>>
           u == Append(t, x) \o r
           v == t \o r
           k == Len(t) + 1
<1>1. x \in Block /\ x[1] = q /\ x[2] = n
  BY DEF Block
<1>2. Inserted(u, v, r, k, x)
  BY <1>1, InsertAt
<1>3. Ascending(v) /\ From(q, v) \subseteq FirstBlocks(q, n) /\ From(q, r) = {}
  OBVIOUS
<1> HIDE DEF x, u, v, k
<1> USE DEF Inserted
<1>4. \A i \in DOMAIN v : v[i][1] = q => v[i][2] < n
  BY <1>3 DEF From, FirstBlocks
<1>5. \A i \in DOMAIN r : r[i][1] # q
  BY <1>3 DEF From
<1>6. Ascending(u)
  <2> SUFFICES ASSUME NEW i \in DOMAIN u, NEW j \in DOMAIN u, i < j, u[i][1] = u[j][1]
               PROVE  u[i][2] < u[j][2]
    BY DEF Ascending
  <2>0. i \in Nat /\ j \in Nat
    BY <1>2
  <2>1. CASE j < k
    BY <1>2, <1>3, <2>0, <2>1 DEF Ascending
  <2>2. CASE j = k
    BY <1>1, <1>2, <1>4, <2>0, <2>2
  <2>3. CASE j > k /\ i < k
    <3>1. i < j - 1
      BY <1>2, <2>0, <2>3
    <3> QED
      BY <1>2, <1>3, <2>3, <3>1 DEF Ascending
  <2>4. CASE j > k /\ i = k
    BY <1>1, <1>2, <1>5, <2>4
  <2>5. CASE j > k /\ i > k
    <3>1. i - 1 < j - 1
      BY <2>0
    <3>2. i - 1 \in DOMAIN v /\ j - 1 \in DOMAIN v /\ u[i] = v[i - 1] /\ u[j] = v[j - 1]
      BY <1>2, <2>5
    <3>3. v[i - 1][1] = v[j - 1][1]
      BY <3>2
    <3> QED
      BY <1>3, <3>1, <3>2, <3>3 DEF Ascending
  <2> QED
    BY <1>2, <2>0, <2>1, <2>2, <2>3, <2>4, <2>5
<1>7. {u[i] : i \in DOMAIN u} = {v[i] : i \in DOMAIN v} \cup {x}
  <2>1. ASSUME NEW i \in DOMAIN u PROVE u[i] \in {v[j] : j \in DOMAIN v} \cup {x}
    <3>1. i \in Nat /\ (i < k \/ i = k \/ i > k)
      BY <1>2
    <3> QED
      BY <1>2, <3>1
  <2>2. ASSUME NEW i \in DOMAIN v PROVE v[i] \in {u[j] : j \in DOMAIN u}
    BY <1>2
  <2>3. x \in {u[j] : j \in DOMAIN u}
    BY <1>2
  <2> QED
    BY <2>1, <2>2, <2>3
<1>8. From(q, u) = From(q, v) \cup {x} /\ \A o \in Peer : o # q => From(o, u) = From(o, v)
  BY <1>1, <1>7 DEF From
<1> QED
  BY <1>6, <1>8 DEF x, u, v

LEMMA OneMoreBlock ==
  ASSUME NEW q, NEW n \in Nat
  PROVE  FirstBlocks(q, n + 1) = FirstBlocks(q, n) \cup {<<q, n>>}
<1>1. 0..(n + 1) - 1 = (0..n - 1) \cup {n}
  OBVIOUS
<1> QED
  BY <1>1 DEF FirstBlocks

\* The same, at the end of a sequence.
LEMMA AppendNext ==
  ASSUME NEW s \in Seq(Block), NEW q \in Peer, NEW n \in Nat,
         Ascending(s), From(q, s) \subseteq FirstBlocks(q, n)
  PROVE  /\ Ascending(Append(s, <<q, n>>))
         /\ From(q, Append(s, <<q, n>>)) = From(q, s) \cup {<<q, n>>}
         /\ \A o \in Peer : o # q => From(o, Append(s, <<q, n>>)) = From(o, s)
<1>1. <<q, n>> \in Block /\ <<>> \in Seq(Block)
  BY NoneOf DEF Block
<1>2. Append(s, <<q, n>>) \in Seq(Block)
  BY <1>1, AppendOf
<1>3. PICK r \in Seq(Block) : r = <<>>
  BY <1>1
<1>4. s \o r = s /\ Append(s, <<q, n>>) \o r = Append(s, <<q, n>>)
  BY <1>2, <1>3, ConcatEmptySeq
<1>5. From(q, r) = {}
  BY <1>3 DEF From
<1>6. /\ Ascending(Append(s, <<q, n>>) \o r)
      /\ From(q, Append(s, <<q, n>>) \o r) = From(q, s \o r) \cup {<<q, n>>}
      /\ \A o \in Peer : o # q => From(o, Append(s, <<q, n>>) \o r) = From(o, s \o r)
  <2>1. Ascending(s \o r) /\ From(q, s \o r) \subseteq FirstBlocks(q, n)
    BY <1>4
  <2> QED
    BY <1>5, <2>1, InsertNext
<1> QED
  BY <1>4, <1>6

LEMMA AppendOther ==
  ASSUME NEW s \in Seq(Block), NEW x \in Block, NEW q, x[1] # q, From(q, s) = {}
  PROVE  From(q, Append(s, x)) = {}
<1>1. Len(s) \in Nat /\ DOMAIN s = 1..Len(s)
  BY LenProperties
<1>2. /\ Append(s, x) \in Seq(Block) /\ Len(Append(s, x)) = Len(s) + 1
      /\ \A i \in 1..Len(s) : Append(s, x)[i] = s[i]
      /\ Append(s, x)[Len(s) + 1] = x
  BY AppendProperties
<1>3. DOMAIN Append(s, x) = 1..Len(s) + 1
  BY <1>2, LenProperties
<1>4. ASSUME NEW i \in 1..Len(s) + 1 PROVE Append(s, x)[i][1] # q
  <2>1. i \in 1..Len(s) \/ i = Len(s) + 1
    BY <1>1
  <2>2. \A j \in 1..Len(s) : s[j][1] # q
    BY <1>1 DEF From
  <2> QED
    BY <1>2, <2>1, <2>2
<1> QED
  BY <1>3, <1>4 DEF From

LEMMA TailOther ==
  ASSUME NEW s \in Seq(Block), s # <<>>, NEW q, From(q, s) = {}
  PROVE  From(q, Tail(s)) = {}
<1>1. /\ Tail(s) \in Seq(Block) /\ Len(Tail(s)) = Len(s) - 1
      /\ \A i \in 1..Len(Tail(s)) : Tail(s)[i] = s[i + 1]
  BY HeadTailProperties
<1>2. /\ Len(s) \in Nat /\ DOMAIN s = 1..Len(s)
      /\ DOMAIN Tail(s) = 1..Len(s) - 1
  BY <1>1, LenProperties
<1>3. ASSUME NEW i \in DOMAIN Tail(s) PROVE Tail(s)[i][1] # q
  <2>1. i + 1 \in DOMAIN s /\ Tail(s)[i] = s[i + 1]
    BY <1>1, <1>2
  <2> QED
    BY <2>1 DEF From
<1> QED
  BY <1>3 DEF From

(* The inductive invariant: a peer's blocks are numbered; only layer 1 is given blocks *)
(* that are made up, and only layer 2 its peer's through receivedBlockData.            *)
Numbered(p) == \A i \in 1..Len(generated[p]) : generated[p][i] = <<p, i - 1>>

Queues(p) == next[p][2] = <<>> /\ From(p, received[p][1]) = {}

BoardInOrder(p, l) ==
    /\ Ascending(Sequel(p, l))
    /\ From(Other(p), Sequel(p, l)) = FirstBlocks(Other(p), latest[p])
    /\ From(p, Sequel(p, l)) \subseteq FirstBlocks(p, Len(generated[p]))
    /\ l = 1 => From(p, Sequel(p, l)) = FirstBlocks(p, Len(generated[p]))

OrderInv ==
    \A p \in Peer : Numbered(p) /\ Queues(p) /\ \A l \in Layer : BoardInOrder(p, l)

LEMMA BoardKept ==
  ASSUME NEW p, NEW l, BoardInOrder(p, l), Sequel(p, l)' = Sequel(p, l),
         latest'[p] = latest[p], generated'[p] = generated[p]
  PROVE  BoardInOrder(p, l)'
  BY DEF BoardInOrder

LEMMA OrderKept ==
  ASSUME OrderInv, UNCHANGED <<generated, latest, next, received, dealt>>
  PROVE  OrderInv'
  BY DEF OrderInv, Numbered, Queues, BoardInOrder, Sequel

LEMMA TakeOrder ==
  ASSUME TypeOK, OrderInv, NEW p \in Peer, NEW l \in Layer,
         UNCHANGED <<generated, latest>>,
         \/ /\ next[p][l] # <<>>
            /\ Deal(p, l, Head(next[p][l]))
            /\ next' = [next EXCEPT ![p][l] = Tail(@)]
            /\ UNCHANGED received
         \/ /\ next[p][l] = <<>>
            /\ received[p][l] # <<>>
            /\ Deal(p, l, Head(received[p][l]))
            /\ received' = [received EXCEPT ![p][l] = Tail(@)]
            /\ UNCHANGED next
  PROVE  OrderInv'
<1>1. \A q \in Peer, k \in Layer :
           /\ Sequel(q, k)' = Sequel(q, k)
           /\ next[q][k] = <<>> => next'[q][k] = <<>>
           /\ \/ received'[q][k] = received[q][k]
              \/ received[q][k] # <<>> /\ received'[q][k] = Tail(received[q][k])
  BY TakeSequels
<1>2. ASSUME NEW q \in Peer
      PROVE  Numbered(q)' /\ Queues(q)' /\ \A k \in Layer : BoardInOrder(q, k)'
  <2>1. 1 \in Layer /\ 2 \in Layer
    BY DEF Layer
  <2>2. Numbered(q)'
    BY DEF OrderInv, Numbered
  <2>3. received[q][1] \in Seq(Block)
    BY <2>1, BoardsTyped DEF BoardTypes
  <2>4. Queues(q)'
    BY <1>1, <2>1, <2>3, TailOther DEF OrderInv, Queues
  <2>5. \A k \in Layer : BoardInOrder(q, k)'
    BY <1>1, BoardKept DEF OrderInv
  <2> QED
    BY <2>2, <2>4, <2>5
<1> QED
  BY <1>2 DEF OrderInv

\* A peer that generates a block gives it the next number.
LEMMA NextNumber ==
  ASSUME TypeOK, NEW p \in Peer, Numbered(p), SendBlock(p)
  PROVE  /\ Numbered(p)' /\ Len(generated[p]) \in Nat
         /\ Len(generated'[p]) = Len(generated[p]) + 1
         /\ generated'[Other(p)] = generated[Other(p)]
<1>1. generated[p] \in Seq(Block) /\ NewBlock(p) \in Block /\ Len(generated[p]) \in Nat
  BY TypeParts, NewBlockType DEF StreamTypes
<1>2. /\ generated'[p] = Append(generated[p], NewBlock(p))
      /\ generated'[Other(p)] = generated[Other(p)]
  BY SendBlockBy
<1>3. /\ Len(generated'[p]) = Len(generated[p]) + 1
      /\ \A i \in 1..Len(generated[p]) : generated'[p][i] = generated[p][i]
      /\ generated'[p][Len(generated[p]) + 1] = NewBlock(p)
  BY <1>1, <1>2, AppendProperties
<1>4. ASSUME NEW i \in 1..Len(generated[p]) + 1 PROVE generated'[p][i] = <<p, i - 1>>
  <2>1. i \in 1..Len(generated[p]) \/ (i = Len(generated[p]) + 1 /\ i - 1 = Len(generated[p]))
    BY <1>1
  <2> QED
    BY <1>3, <2>1 DEF Numbered, NewBlock
<1> QED
  BY <1>1, <1>2, <1>3, <1>4 DEF Numbered

\* A board of a peer that generates the block with the number n: with the block at the end.
LEMMA OwnAppended ==
  ASSUME TypeOK, NEW p \in Peer, NEW l \in Layer, NEW n \in Nat, BoardInOrder(p, l),
         Len(generated[p]) = n, Len(generated'[p]) = n + 1, latest'[p] = latest[p],
         Sequel(p, l)' = Append(Sequel(p, l), <<p, n>>)
  PROVE  BoardInOrder(p, l)'
<1>1. PICK s : s = Sequel(p, l)
  OBVIOUS
<1>2. s \in Seq(Block) /\ Other(p) \in Peer /\ Other(p) # p
  BY <1>1, BoardsTyped DEF Peer, Other
<1>3. Ascending(s) /\ From(p, s) \subseteq FirstBlocks(p, n) /\ (l = 1 => From(p, s) = FirstBlocks(p, n))
      /\ From(Other(p), s) = FirstBlocks(Other(p), latest[p])
  BY <1>1 DEF BoardInOrder
<1>4. /\ Ascending(Append(s, <<p, n>>))
      /\ From(p, Append(s, <<p, n>>)) = From(p, s) \cup {<<p, n>>}
      /\ From(Other(p), Append(s, <<p, n>>)) = From(Other(p), s)
  BY <1>2, <1>3, AppendNext
<1>5. FirstBlocks(p, n + 1) = FirstBlocks(p, n) \cup {<<p, n>>}
  BY OneMoreBlock
<1>6. Sequel(p, l)' = Append(s, <<p, n>>)
  BY <1>1
<1> QED
  BY <1>3, <1>4, <1>5, <1>6 DEF BoardInOrder

\* The other boards of that peer.
LEMMA OwnUnknown ==
  ASSUME NEW p \in Peer, NEW l \in Layer, NEW n \in Nat, BoardInOrder(p, l), l # 1,
         Len(generated[p]) = n, Len(generated'[p]) = n + 1, latest'[p] = latest[p],
         Sequel(p, l)' = Sequel(p, l)
  PROVE  BoardInOrder(p, l)'
<1>1. FirstBlocks(p, n) \subseteq FirstBlocks(p, n + 1)
  BY OneMoreBlock
<1> QED
  BY <1>1 DEF BoardInOrder

\* The server generates a block for its player.
LEMMA GenerateOrder ==
  ASSUME TypeOK, OrderInv, next["server"][1] = <<>>, received["server"][1] = <<>>,
         Generate("server", 1)
  PROVE  OrderInv'
<1>1. "server" \in Peer /\ "client" \in Peer /\ Layer = {1, 2} /\ Opponent(1) = 2
      /\ Other("server") = "client" /\ (\A q \in Peer : q = "server" \/ q = "client")
  BY DEF Peer, Layer, Opponent, Other
<1>2. PICK n \in Nat : n = Len(generated["server"])
  BY <1>1, TypeParts, NewBlockType
<1>3. PICK b : b = NewBlock("server")
  OBVIOUS
<1>4. /\ b \in Block /\ b = <<"server", n>>
      /\ BoardTypes("server", 1) /\ BoardTypes("server", 2) /\ LayerTypes
  BY <1>1, <1>2, <1>3, TypeParts, NewBlockType, BoardsTyped DEF NewBlock
<1>5. /\ Numbered("server")' /\ Len(generated'["server"]) = n + 1
      /\ generated'["client"] = generated["client"]
  BY <1>1, <1>2, NextNumber DEF Generate, OrderInv
<1>6. /\ dealt'["server"][1] = Append(dealt["server"][1], b)
      /\ \A q \in Peer, k \in Layer : (q # "server" \/ k # 1) => dealt'[q][k] = dealt[q][k]
  <2>1. dealt \in [Peer -> [Layer -> Seq(Block)]] /\ 1 \in Layer
    BY <1>1, <1>4 DEF LayerTypes
  <2>2. dealt' = [dealt EXCEPT !["server"][1] = Append(@, b)]
    BY <1>3 DEF Generate, Deal
  <2> QED
    BY <1>1, <1>4, <2>1, <2>2, AppendAt
<1>7. /\ received'["server"][2] = Append(received["server"][2], b)
      /\ \A q \in Peer, k \in Layer : (q # "server" \/ k # 2) => received'[q][k] = received[q][k]
  <2>1. received \in [Peer -> [Layer -> Seq(Block)]] /\ 2 \in Layer
    BY <1>1, <1>4 DEF LayerTypes
  <2>2. received' = [received EXCEPT !["server"][2] = Append(@, b)]
    BY <1>1, <1>3 DEF Generate
  <2> QED
    BY <1>1, <1>4, <2>1, <2>2, AppendAt
<1>8. next' = next /\ latest' = latest
  BY DEF Generate
<1>9. Sequel("server", 1)' = Append(Sequel("server", 1), b)
  <2>1. PICK d \in Seq(Block), r \in Seq(Block) : d = dealt["server"][1] /\ r = <<>>
    BY <1>4, NoneOf DEF BoardTypes
  <2>2. Append(d, b) \in Seq(Block)
    BY <1>4, <2>1, AppendOf
  <2>3. d \o r = d /\ Append(d, b) \o r = Append(d, b)
    BY <2>1, <2>2, ConcatEmptySeq
  <2>4. next["server"][1] = r /\ received["server"][1] = r
    BY <2>1
  <2>5. Sequel("server", 1) = (d \o r) \o r
    BY ONLY <2>1, <2>4 DEF Sequel
  <2>6. next'["server"][1] = r /\ received'["server"][1] = r /\ dealt'["server"][1] = Append(d, b)
    BY <1>1, <1>6, <1>7, <1>8, <2>1
  <2>7. Sequel("server", 1)' = (Append(d, b) \o r) \o r
    BY ONLY <2>6 DEF Sequel
  <2> QED
    BY ONLY <2>3, <2>5, <2>7
<1>10. Sequel("server", 2)' = Append(Sequel("server", 2), b)
  <2>1. dealt["server"][2] \o next["server"][2] \o Append(received["server"][2], b)
          = Append(Sequel("server", 2), b)
    <3>1. /\ dealt["server"][2] \in Seq(Block) /\ next["server"][2] \in Seq(Block)
          /\ received["server"][2] \in Seq(Block) /\ b \in Block
      BY <1>4 DEF BoardTypes
    <3> QED
      BY ONLY <3>1, AppendReceived DEF Sequel
  <2>2. /\ dealt'["server"][2] = dealt["server"][2] /\ next'["server"][2] = next["server"][2]
        /\ received'["server"][2] = Append(received["server"][2], b)
    BY <1>1, <1>6, <1>7, <1>8
  <2> QED
    BY ONLY <2>1, <2>2 DEF Sequel
<1>11. \A l \in Layer : BoardInOrder("server", l)'
  BY <1>1, <1>2, <1>4, <1>5, <1>8, <1>9, <1>10, OwnAppended DEF OrderInv
<1>12. \A l \in Layer : BoardInOrder("client", l)'
  <2>1. \A l \in Layer : Sequel("client", l)' = Sequel("client", l)
    BY <1>1, <1>6, <1>7, <1>8 DEF Sequel
  <2> QED
    BY <1>1, <1>5, <1>8, <2>1, BoardKept DEF OrderInv
<1>13. Numbered("client")' /\ Queues("server")' /\ Queues("client")'
  <2>1. Numbered("client") /\ Queues("server") /\ Queues("client")
    BY <1>1 DEF OrderInv
  <2>2. received'["server"][1] = received["server"][1] /\ received'["client"][1] = received["client"][1]
    BY <1>1, <1>7
  <2>3. Numbered("client")'
    BY <1>5, <2>1 DEF Numbered
  <2> QED
    BY <1>8, <2>1, <2>2, <2>3 DEF Queues
<1> QED
  BY <1>1, <1>5, <1>11, <1>12, <1>13 DEF OrderInv

LEMMA CreateNewBlockOrder ==
  ASSUME TypeOK, OrderInv, NEW p \in Peer, NEW l \in Layer, CreateNewBlock(p, l)
  PROVE  OrderInv'
<1>1. CASE /\ next[p][l] # <<>>
           /\ Deal(p, l, Head(next[p][l]))
           /\ next' = [next EXCEPT ![p][l] = Tail(@)]
           /\ UNCHANGED <<blocks, requests, generated, latest, received, madeUp>>
  BY <1>1, TakeOrder
<1>2. CASE /\ next[p][l] = <<>>
           /\ received[p][l] # <<>>
           /\ Deal(p, l, Head(received[p][l]))
           /\ received' = [received EXCEPT ![p][l] = Tail(@)]
           /\ UNCHANGED <<blocks, requests, generated, latest, next, madeUp>>
  BY <1>2, TakeOrder
<1>3. CASE /\ next[p][l] = <<>> /\ received[p][l] = <<>>
           /\ p = "server" /\ l = 1
           /\ Generate(p, l)
  BY <1>3, GenerateOrder
<1>4. CASE Ask(p, l)
  BY <1>4, OrderKept DEF Ask, blockVars
<1> QED
  BY <1>1, <1>2, <1>3, <1>4 DEF CreateNewBlock, GetBlockData

\* A block of the other peer goes to both layers; one that came before goes nowhere.
LEMMA ReceiveBlockOrder ==
  ASSUME TypeOK, SentOnly, OrderInv, NEW p \in Peer, ReceiveBlock(p)
  PROVE  OrderInv'
<1>1. UNCHANGED <<generated, next, dealt>> /\ blocks[p] # <<>>
  BY DEF ReceiveBlock
<1>2. CASE UNCHANGED <<latest, received>>
  BY <1>1, <1>2, OrderKept
<1>3. CASE /\ Head(blocks[p]) = latest[p]
           /\ latest' = [latest EXCEPT ![p] = @ + 1]
           /\ AddNewBlock(p, generated[Other(p)][Head(blocks[p]) + 1])
  <2>1. Other(p) \in Peer /\ Other(p) # p /\ Layer = {1, 2} /\ \A q \in Peer : q = p \/ q = Other(p)
    BY DEF Other, Peer, Layer
  <2>2. PICK n \in Nat : n = latest[p]
    BY BoardsTyped
  <2>3. n < Len(generated[Other(p)]) /\ Len(generated[Other(p)]) \in Nat
    <3>1. blocks[p] \in Seq(Sent(p)) /\ generated[Other(p)] \in Seq(Block)
      BY <2>1, BoardsTyped DEF SentOnly
    <3> QED
      BY <1>1, <1>3, <2>2, <3>1, HeadTailOf, LenProperties DEF Sent
  <2>4. PICK b : b = <<Other(p), n>>
    OBVIOUS
  <2>5. b \in Block /\ generated[Other(p)][n + 1] = b
    <3>1. n + 1 \in 1..Len(generated[Other(p)]) /\ (n + 1) - 1 = n
      BY <2>3
    <3> QED
      BY <2>1, <2>4, <3>1 DEF OrderInv, Numbered, Block
  <2>6. latest'[p] = n + 1 /\ latest'[Other(p)] = latest[Other(p)]
    BY <1>3, <2>1, <2>2 DEF TypeOK
  <2>7. /\ \A l \in Layer : received'[p][l] = Append(received[p][l], b)
        /\ received'[Other(p)] = received[Other(p)]
    BY <1>3, <2>1, <2>2, <2>5 DEF AddNewBlock, TypeOK
  <2>8. ASSUME NEW l \in Layer PROVE BoardInOrder(p, l)'
    <3>1. PICK s : s = Sequel(p, l)
      OBVIOUS
    <3>2. s \in Seq(Block) /\ BoardTypes(p, l)
      BY <3>1, BoardsTyped
    <3>3. dealt[p][l] \o next[p][l] \o Append(received[p][l], b) = Append(Sequel(p, l), b)
      BY <2>5, <3>2, AppendReceived DEF BoardTypes, Sequel
    <3>4. dealt' = dealt /\ next' = next /\ received'[p][l] = Append(received[p][l], b)
      BY <1>1, <2>7
    <3>5. Sequel(p, l)' = Append(s, b)
      BY ONLY <3>1, <3>3, <3>4 DEF Sequel
    <3>6. /\ Ascending(s) /\ From(Other(p), s) = FirstBlocks(Other(p), n)
          /\ From(p, s) \subseteq FirstBlocks(p, Len(generated[p]))
          /\ l = 1 => From(p, s) = FirstBlocks(p, Len(generated[p]))
      BY <2>2, <3>1 DEF OrderInv, BoardInOrder
    <3>7. /\ Ascending(Append(s, b)) /\ From(p, Append(s, b)) = From(p, s)
          /\ From(Other(p), Append(s, b)) = From(Other(p), s) \cup {b}
      BY <2>1, <2>4, <3>2, <3>6, AppendNext
    <3>8. From(Other(p), s) \cup {b} = FirstBlocks(Other(p), n + 1)
      BY <2>4, <3>6, OneMoreBlock
    <3>9. generated' = generated
      BY <1>1
    <3> QED
      BY <2>6, <3>5, <3>6, <3>7, <3>8, <3>9 DEF BoardInOrder
  <2>9. \A l \in Layer : BoardInOrder(Other(p), l)'
    <3>1. \A l \in Layer : Sequel(Other(p), l)' = Sequel(Other(p), l)
      BY <1>1, <2>7 DEF Sequel
    <3> QED
      BY <1>1, <2>1, <2>6, <3>1, BoardKept DEF OrderInv
  <2>10. Queues(p)'
    <3>1. received[p][1] \in Seq(Block) /\ 1 \in Layer /\ b[1] # p
      BY <2>1, <2>4, BoardsTyped DEF BoardTypes
    <3>2. From(p, Append(received[p][1], b)) = {}
      BY <2>5, <3>1, AppendOther DEF OrderInv, Queues
    <3> QED
      BY <1>1, <2>7, <3>1, <3>2 DEF OrderInv, Queues
  <2>11. Queues(Other(p))' /\ \A q \in Peer : Numbered(q)'
    BY <1>1, <2>1, <2>7 DEF OrderInv, Queues, Numbered
  <2> QED
    BY <2>1, <2>8, <2>9, <2>10, <2>11 DEF OrderInv
<1> QED
  BY <1>2, <1>3 DEF ReceiveBlock

\* A block that is made up goes to layer 1, before those that came and behind its own.
LEMMA ReceiveRequestOrder ==
  ASSUME TypeOK, OrderInv, NEW p \in Peer, ReceiveRequest(p)
  PROVE  OrderInv'
<1>1. UNCHANGED <<latest, received, dealt>>
  BY DEF ReceiveRequest
<1>2. CASE UNCHANGED <<generated, next, madeUp>>
  BY <1>1, <1>2, OrderKept
<1>3. CASE /\ SendBlock(p)
           /\ next' = [next EXCEPT ![p][1] = Append(@, NewBlock(p))]
  <2>1. Other(p) \in Peer /\ Other(p) # p /\ Layer = {1, 2} /\ \A q \in Peer : q = p \/ q = Other(p)
    BY DEF Other, Peer, Layer
  <2>2. PICK n \in Nat : n = Len(generated[p])
    BY TypeParts, NewBlockType
  <2>3. PICK b : b = NewBlock(p)
    OBVIOUS
  <2>4. b = <<p, n>> /\ b \in Block /\ LayerTypes /\ BoardTypes(p, 1)
    BY <2>1, <2>2, <2>3, TypeParts, NewBlockType, BoardsTyped DEF NewBlock
  <2>5. /\ Numbered(p)' /\ Len(generated'[p]) = n + 1
        /\ generated'[Other(p)] = generated[Other(p)]
    BY <1>3, <2>2, NextNumber DEF OrderInv
  <2>6. /\ next'[p][1] = Append(next[p][1], b)
        /\ \A q \in Peer, k \in Layer : (q # p \/ k # 1) => next'[q][k] = next[q][k]
    <3>1. next \in [Peer -> [Layer -> Seq(Block)]] /\ 1 \in Layer
      BY <2>1, <2>4 DEF LayerTypes
    <3> QED
      BY <1>3, <2>3, <2>4, <3>1, AppendAt
  <2>7. BoardInOrder(p, 1)'
    <3>1. PICK d \in Seq(Block), q \in Seq(Block), r \in Seq(Block) :
            d = dealt[p][1] /\ q = next[p][1] /\ r = received[p][1]
      BY <2>4 DEF BoardTypes
    <3>2. d \o q \in Seq(Block)
      BY <3>1, ConcatProperties
    <3>3. PICK t \in Seq(Block) : t = d \o q
      BY <3>2
    <3>4. d \o Append(q, b) = Append(t, b)
      <4>1. b \in Block
        BY <2>4
      <4> QED
        BY ONLY <3>3, <4>1, AppendLast
    <3>5. Sequel(p, 1) = t \o r
      BY ONLY <3>1, <3>3 DEF Sequel
    <3>6. Sequel(p, 1)' = Append(t, b) \o r
      <4>1. dealt'[p][1] = d /\ next'[p][1] = Append(q, b) /\ received'[p][1] = r
        BY <1>1, <2>6, <3>1
      <4> QED
        BY ONLY <3>4, <4>1 DEF Sequel
    <3>7. BoardInOrder(p, 1)
      BY <2>1 DEF OrderInv
    <3>8. /\ Ascending(t \o r) /\ From(p, t \o r) = FirstBlocks(p, n)
          /\ From(Other(p), t \o r) = FirstBlocks(Other(p), latest[p])
      BY <2>2, <3>5, <3>7 DEF BoardInOrder
    <3>9. From(p, r) = {}
      BY <3>1 DEF OrderInv, Queues
    <3>10. /\ Ascending(Append(t, b) \o r)
           /\ From(p, Append(t, b) \o r) = From(p, t \o r) \cup {b}
           /\ From(Other(p), Append(t, b) \o r) = From(Other(p), t \o r)
      <4>1. From(p, t \o r) \subseteq FirstBlocks(p, n)
        BY <3>8
      <4> QED
        BY <2>1, <2>4, <3>8, <3>9, <4>1, InsertNext
    <3>11. FirstBlocks(p, n + 1) = FirstBlocks(p, n) \cup {b}
      BY <2>4, OneMoreBlock
    <3> QED
      BY <1>1, <2>5, <3>6, <3>8, <3>10, <3>11 DEF BoardInOrder
  <2>8. BoardInOrder(p, 2)'
    <3>1. Sequel(p, 2)' = Sequel(p, 2)
      <4>1. next'[p][2] = next[p][2]
        BY <2>1, <2>6
      <4> QED
        BY <1>1, <4>1 DEF Sequel
    <3>2. BoardInOrder(p, 2) /\ 2 \in Layer /\ latest'[p] = latest[p]
      BY <1>1, <2>1 DEF OrderInv
    <3> QED
      BY <2>2, <2>5, <3>1, <3>2, OwnUnknown
  <2>9. \A l \in Layer : BoardInOrder(Other(p), l)'
    <3>1. \A l \in Layer : Sequel(Other(p), l)' = Sequel(Other(p), l)
      BY <1>1, <2>1, <2>6 DEF Sequel
    <3> QED
      BY <1>1, <2>1, <2>5, <3>1, BoardKept DEF OrderInv
  <2>10. Queues(p)' /\ Queues(Other(p))' /\ Numbered(Other(p))'
    <3>1. Queues(p) /\ Queues(Other(p)) /\ Numbered(Other(p))
      BY <2>1 DEF OrderInv
    <3>2. next'[p][2] = next[p][2] /\ next'[Other(p)][2] = next[Other(p)][2]
      BY <2>1, <2>6
    <3>3. Numbered(Other(p))'
      BY <2>5, <3>1 DEF Numbered
    <3> QED
      BY <1>1, <3>1, <3>2, <3>3 DEF Queues
  <2> QED
    BY <2>1, <2>5, <2>7, <2>8, <2>9, <2>10 DEF OrderInv
<1> QED
  BY <1>2, <1>3 DEF ReceiveRequest

LEMMA InitOrder == Init => OrderInv
<1> SUFFICES ASSUME Init, NEW p \in Peer
             PROVE  Numbered(p) /\ Queues(p) /\ \A l \in Layer : BoardInOrder(p, l)
  BY DEF OrderInv
<1>1. /\ "server" \in Peer /\ "client" \in Peer /\ 1 \in Layer /\ 2 \in Layer
      /\ Other("server") = "client" /\ Other("client") = "server"
      /\ (p = "server" \/ p = "client")
  BY DEF Peer, Layer, Other
<1>2. PICK s : s = InitialBlocks
  OBVIOUS
<1>3. s \in Seq(Block) /\ Len(s) = 3 /\ DOMAIN s = 1..3 /\ \A i \in 1..3 : s[i] = <<"server", i - 1>>
  BY <1>2, InitialBlocksType DEF InitialBlocks
<1>4. generated["server"] = s /\ generated["client"] = <<>> /\ latest["server"] = 0 /\ latest["client"] = 3
  BY <1>1, <1>2 DEF Init
<1>5. \A q \in Peer, l \in Layer : dealt[q][l] = s /\ next[q][l] = <<>> /\ received[q][l] = <<>>
  BY <1>2 DEF Init
<1>6. \A q \in Peer, l \in Layer : Sequel(q, l) = s
  <2>1. s \o <<>> = s
    BY <1>3, ConcatEmptySeq
  <2> QED
    BY <1>5, <2>1 DEF Sequel
<1>7. Ascending(s)
  <2>1. ASSUME NEW i \in 1..3, NEW j \in 1..3, i < j PROVE s[i][2] < s[j][2]
    BY <1>3, <2>1
  <2> QED
    BY <1>3, <2>1 DEF Ascending
<1>8. From("server", s) = FirstBlocks("server", 3) /\ From("client", s) = {}
  <2>1. {s[i] : i \in DOMAIN s} = {<<"server", i - 1>> : i \in 1..3}
    BY <1>3
  <2>2. {<<"server", i - 1>> : i \in 1..3} = FirstBlocks("server", 3)
    <3>1. \A i \in 1..3 : i - 1 \in 0..3 - 1
      OBVIOUS
    <3>2. \A i \in 0..3 - 1 : i + 1 \in 1..3 /\ (i + 1) - 1 = i
      OBVIOUS
    <3>3. ASSUME NEW i \in 0..3 - 1 PROVE <<"server", i>> \in {<<"server", k - 1>> : k \in 1..3}
      BY <3>2
    <3> QED
      BY <3>1, <3>3 DEF FirstBlocks
  <2>3. \A x \in FirstBlocks("server", 3) : x[1] = "server"
    BY DEF FirstBlocks
  <2> QED
    BY <2>1, <2>2, <2>3 DEF From
<1>9. FirstBlocks("client", 0) = {} /\ FirstBlocks("server", 0) = {}
  BY DEF FirstBlocks
<1>10. Len(<<>>) = 0
  BY EmptySeq
<1>11. Numbered(p)
  BY <1>1, <1>3, <1>4, <1>10 DEF Numbered
<1>12. Queues(p)
  BY <1>1, <1>5 DEF Queues, From
<1>13. \A l \in Layer : BoardInOrder(p, l)
  BY <1>1, <1>3, <1>4, <1>6, <1>7, <1>8, <1>9, <1>10 DEF BoardInOrder
<1> QED
  BY <1>11, <1>12, <1>13

LEMMA NextOrder ==
  ASSUME TypeOK, SentOnly, OrderInv, [Next]_vars
  PROVE  OrderInv'
<1>1. ASSUME NEW p \in Peer, Decide(p) \/ ReceiveMove(p) PROVE OrderInv'
  BY <1>1, OrderKept DEF Decide, ReceiveMove, blockVars
<1>2. CASE UNCHANGED vars
  BY <1>2, OrderKept DEF vars, channelVars, blockVars
<1> QED
  BY <1>1, <1>2, CreateNewBlockOrder, ReceiveBlockOrder, ReceiveRequestOrder DEF Next

\* Also when the requests of both peers have crossed and either has made up blocks:
\* addNewBlockData, sendNewBlockData and getNewBlockData put no block on a board twice,
\* none of a peer's blocks before an earlier one, and leave none out that was processed.
THEOREM BlocksStayInOrder == Spec => []InOrderBySource
<1> DEFINE IInv == TypeOK /\ SentOnly /\ OrderInv
<1>1. Init => IInv
  BY InitType, InitOrder
<1>2. IInv /\ [Next]_vars => IInv'
  BY NextType, NextOrder
<1>3. IInv => InOrderBySource
  BY DEF OrderInv, BoardInOrder, InOrderBySource
<1> QED
  BY <1>1, <1>2, <1>3, PTL DEF Spec
================================================================================
