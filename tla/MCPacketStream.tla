--------------------------- MODULE MCPacketStream ---------------------------
(***************************************************************************)
(* A small instance of PacketStream: a DCE/RPC socket and an SMB socket.   *)
(***************************************************************************)
EXTENDS PacketStream

\* Packets of different lengths, the shortest just a header; without an initial
\* read all of them may come in one read.
PduLens == <<3, 2, 4>>
TwoPackets == <<2, 1>>
=============================================================================
