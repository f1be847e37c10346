------------------------------ MODULE MCRfm12b ------------------------------
(* Frames of no byte, of one and of two, one of them a byte of the preamble. *)
EXTENDS Rfm12b

MCBuffers == {<<>>, <<1>>, <<1, 170>>}
=============================================================================
