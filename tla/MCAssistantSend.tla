-------------------------- MODULE MCAssistantSend --------------------------
(* Small instance of AssistantSend: one array, boundaries that use one and *)
(* that use none.                                                          *)
EXTENDS AssistantSend
CONSTANT line1
NoArrays == <<NULL, NULL, NULL>>
SomeSizes == {<<8, 300>>}
SomeBoundaries ==
  {[kind |-> "X_BOUNDARY", x |-> <<line1, NULL, NULL>>, y |-> NoArrays],
   [kind |-> "X_BOUNDARY", x |-> <<line1, line1, line1>>, y |-> NoArrays],
   [kind |-> "NO_BOUNDARY", x |-> NoArrays, y |-> NoArrays]}
=============================================================================
