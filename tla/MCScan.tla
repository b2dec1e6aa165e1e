------------------------------- MODULE MCScan -------------------------------
(* Two domains with two commands each, which fill the pool.  The tools of   *)
(* the first domain still write during the second; those of the second one *)
(* write a line, a comment and a line that ends without its newline.       *)
EXTENDS Scan

MCNumCmds == <<2, 2>>

MCOutput ==
    [c \in Children |->
        CASE c = <<1, 1>> -> <<"x", "NL">>
          [] c = <<1, 2>> -> <<"x">>
          [] c = <<2, 1>> -> <<"x", "NL", "x">>
          [] OTHER        -> <<"hash", "x", "NL", "x", "NL">>]
=============================================================================
