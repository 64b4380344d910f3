------------------------------ MODULE MCPool -------------------------------
(* ChannelPool with five tasks and three slots.                              *)
EXTENDS ChannelPool
=============================================================================
