-------------------------- MODULE MCChannelClients -------------------------
(***************************************************************************)
(* ChannelClients for TLC: what the clients put, and which address malloc  *)
(* returns.  ch.c only compares addresses with NULL, so any behaviour is,  *)
(* up to the names of the addresses, one in which a put gets the first     *)
(* address that is free.  (Symmetry would say the same, but TLC's is not   *)
(* sound for liveness; the other runs of Channel let malloc choose.)       *)
(***************************************************************************)
EXTENDS ChannelClients

MCBlocks == Writers \X (1..Messages)
MCPayloads == MCBlocks \cup {EOT}

FirstFree == heap' \subseteq heap \/ heap' = heap \cup {CHOOSE e \in Elements \ heap : TRUE}
=============================================================================
