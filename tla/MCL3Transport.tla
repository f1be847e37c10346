--------------------------- MODULE MCL3Transport ---------------------------
(***************************************************************************)
(* Frames of two bytes.  MCPacketLen: a packet of one frame and one of two,*)
(* the second half filled.  MCLongPacketLen: one of two frames and one that*)
(* fits a buffer of five bytes by its length but not by its three frames.  *)
(***************************************************************************)
EXTENDS L3Transport, TLC

MCPacketLen == [p |-> 1, q |-> 3]
MCPackets == DOMAIN MCPacketLen
MCLongPacketLen == [q |-> 3, t |-> 5]
MCLongPackets == DOMAIN MCLongPacketLen
SenderSymmetry == Permutations(Senders)
=============================================================================
