--------------------------- MODULE MCChainAccount ---------------------------
(* Instances of ChainAccount for TLC. *)
EXTENDS ChainAccount

MCSenders == {"submit", "funding"}

MCWaiting == {"submit"}

MCMaxCalls == [s \in MCSenders |-> IF s = "submit" THEN 3 ELSE 2]

=============================================================================
