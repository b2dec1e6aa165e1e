---------------------------- MODULE MCReconList ----------------------------
(* Two domains, of which one read of domains.txt returns the first and a     *)
(* part of the second, one command, and tools that always write their        *)
(* output in time.                                                           *)
EXTENDS Recon

MCDomainFiles == {<<"a", "NL", "b", "c", "NL">>}
MCCommandFiles == {<<"t", "$target", "$scp", "NL">>}
MCArgvs == {<<>>}
=============================================================================
