------------------------------- MODULE MCPool -------------------------------
(* Four domains: a round that fills the pool, one that raises its size, one *)
(* that leaves it half empty, and one that finds no command.                *)
EXTENDS Pool

MCNumCmds == <<2, 3, 1, 0>>
=============================================================================
