---------------------------- MODULE OrderedDelivery ----------------------------
(* What the match protocol of PuzzleINet promises the game: per stream (a       *)
(* receiving peer and a type of packet) the packets sent are processed one      *)
(* after the other, each once, in the order of their sequence numbers.          *)
EXTENDS Naturals, Sequences

CONSTANTS
    Receivers,  \* the peers
    Kinds       \* the types of packet the promise is about

VARIABLES
    sent,       \* sent[r][k]: how many packets of kind k were sent to r
    log         \* log[r][k]: the sequence numbers r has processed, in order

vars == <<sent, log>>

Init ==
    /\ sent = [r \in Receivers |-> [k \in Kinds |-> 0]]
    /\ log = [r \in Receivers |-> [k \in Kinds |-> <<>>]]

\* The initial blocks are sent together, so a step may send several packets.
Send(r, k) ==
    /\ \E n \in 1..3 : sent' = [sent EXCEPT ![r][k] = @ + n]
    /\ UNCHANGED log

Process(r, k) ==
    /\ Len(log[r][k]) < sent[r][k]
    /\ log' = [log EXCEPT ![r][k] = Append(@, Len(@))]
    /\ UNCHANGED sent

Next == \E r \in Receivers, k \in Kinds : Send(r, k) \/ Process(r, k)

Spec == Init /\ [][Next]_vars
================================================================================
