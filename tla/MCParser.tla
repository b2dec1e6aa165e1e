------------------------------ MODULE MCParser ------------------------------
EXTENDS Parser

MCChars == {"a", "0", "2", "<", ">", "|", "&", "(", " ", "'", "\""}
MCMaxFd == <<"2", "0">>
=============================================================================
