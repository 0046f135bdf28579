----------------------------- MODULE MCTcpFile ------------------------------
(* Small instances of TcpFile: up to four bytes in buffers of two. *)
EXTENDS TcpFile

MCByte == 1..2
MCFiles == {<<>>, <<1>>, <<1, 2, 1>>, <<2, 1, 1, 2>>}
=============================================================================
