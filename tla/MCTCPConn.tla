----------------------------- MODULE MCTCPConn ------------------------------
(* Payloads of one and two distinguishable bytes, buffers of one byte.     *)
EXTENDS TCPConn

MCPayloads == {<<1>>, <<2, 3>>}
MCReceived == {<<1>>, <<2>>, <<1, 2>>}
=============================================================================
