------------------------------ MODULE MCSocketUDP ------------------------------
(* Small instance of SocketUDP: one message value is enough, because nothing   *)
(* in the plugin looks at a message.                                           *)
EXTENDS SocketUDP

CONSTANT m1

MCMsgs == {m1}
================================================================================
