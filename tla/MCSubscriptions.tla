--------------------------- MODULE MCSubscriptions ---------------------------
(***************************************************************************)
(* A table of two topics, lists of up to two: a topic, two that extend it  *)
(* and the empty name.                                                     *)
(***************************************************************************)
EXTENDS Subscriptions

MCNames == {<<>>, <<"h">>, <<"h", "t">>, <<"k">>}
MCQoSs == {0, 1}
=============================================================================
