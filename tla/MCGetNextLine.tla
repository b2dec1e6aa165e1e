--------------------------- MODULE MCGetNextLine ---------------------------
(* Two descriptors, one of them with reads that may fail, blocks of two     *)
(* bytes, and files whose lines are shorter than, as long as and longer     *)
(* than a block, with and without a newline at the end.                     *)
EXTENDS GetNextLine

MCChar == {"nl", "a", "b"}
MCContents == { <<"a">>,
                <<"a", "b">>,
                <<"b", "nl", "a", "nl">>,
                <<"a", "nl", "nl", "b", "a", "nl">>,
                <<"b", "a", "b", "nl", "a">> }
============================================================================
