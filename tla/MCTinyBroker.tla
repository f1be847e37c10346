---------------------------- MODULE MCTinyBroker ----------------------------
(***************************************************************************)
(* A broker with three client records and one peer.  A user name of 32     *)
(* bytes may follow an id: one id is another one and that length, one is   *)
(* the length alone.                                                       *)
(***************************************************************************)
EXTENDS TinyBroker

MCClientIds == {<<97>>, <<97, 32>>, <<32>>}
MCFieldLengths == {32}
MCTopics == {<<"h">>}
MCPacketIds == {<<0, 1>>}
=============================================================================
