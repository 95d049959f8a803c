---------------------------- MODULE MCFifoNested ----------------------------
(* Small instance of FifoNested: who calls what.                           *)
EXTENDS FifoNested
Producers == {"write", "peek"}
Owned     == [main |-> Call, interrupt |-> {"peek"}]
Shared    == [main |-> Producers, interrupt |-> Producers]
Freeing   == [main |-> Producers, interrupt |-> {"clean"}]
Sound     == {Owned, Shared}
Unsound   == {Freeing}
=============================================================================
