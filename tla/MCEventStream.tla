--------------------------- MODULE MCEventStream ----------------------------
(* Two hub events written at once and one page that follows them, connected *)
(* once.                                                                    *)
EXTENDS EventStream, TLC

MCWrites == "e1" :> "hub" @@ "e2" :> "hub"
MCFollows == "r" :> "hub"

=============================================================================
