------------------------------ MODULE MCSpiLink ------------------------------
(***************************************************************************)
(* The SPI link with two transfers of frames, one of them with a frame     *)
(* that the safety mode blocks.                                            *)
(***************************************************************************)
EXTENDS SpiLink

CONSTANTS w1, w2, w3
MCBatches == <<<<w1, w3>>, <<w2>>>>
==============================================================================
