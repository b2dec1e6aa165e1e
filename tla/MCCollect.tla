----------------------------- MODULE MCCollect -----------------------------
(* Three subdomains in two buckets, outputs with a repeated line, and three *)
(* scans, so that a scan can follow a fault that followed a scan.           *)
EXTENDS Collect

MCBucket == ("a" :> 0) @@ ("b" :> 1) @@ ("c" :> 1)
MCOutputs == { <<>>, <<"a">>, <<"b", "c">>, <<"c", "a", "c">> }
=============================================================================
