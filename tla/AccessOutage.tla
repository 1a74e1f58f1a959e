---------------------------- MODULE AccessOutage ----------------------------
(* Access with a history of the sessions that were taken from somebody who   *)
(* could have gone on: what the code's tests and documents say of a provider *)
(* that fails, and the code does not keep.                                   *)
EXTENDS Access

VARIABLE lost   \* history: sessions ended while they could have been renewed

(* In force, with a grant that the provider stands behind, and nobody asks  *)
(* to sign out.                                                             *)
Renewable(s) ==
    LET row == sessions[s]
    IN /\ row.is /\ ~Expired(row)
       /\ row.tokens.refresh # 0 /\ Honours(row.grant, row.tokens.refresh)
       /\ \A c \in Tabs : calls[c].session = s => calls[c].purpose = "read" /\ ~At(c, "signOut")

OutageSpec ==
    /\ Init /\ lost = {}
    /\ [][Next /\ lost' = lost \cup {s \in SessionIDs : Renewable(s) /\ ~sessions'[s].is}]_<<vars, lost>>

(* oidcprovider_test.go:277: "a revoked grant signs the operator out, an    *)
(* outage does not" (Provider.Refresh, Service.renew).  While the grant is  *)
(* good, only an outage of the provider can make a renewal fail.            *)
OutageSignsNobodyOut == lost = {}
=============================================================================
