-------------------------------- MODULE MCBatch --------------------------------
(***************************************************************************)
(* Constants for model checking Batch: two spellings of one URL, another   *)
(* URL, an invalid one, and a HEAD request.                                *)
(***************************************************************************)
EXTENDS Batch, TLC

MCNormal == "a" :> "A" @@ "a?" :> "A" @@ "b" :> "B" @@ "/a" :> "/a"

MCRequests == [method : {"GET"}, url : DOMAIN MCNormal] \cup [method : {"HEAD"}, url : {"a"}]
=============================================================================
