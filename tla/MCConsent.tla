----------------------------- MODULE MCConsent -----------------------------
(***************************************************************************)
(* Consent on two hosts and a phone, with two asks of four kinds.         *)
(***************************************************************************)
EXTENDS Consent, TLC

CONSTANTS h1, h2, f1, a1, a2

Plain == [origin |-> h1, requestor |-> "r1", subject |-> "s", attests |-> FALSE,
          ttl |-> TRUE, localOnly |-> FALSE, approvers |-> {h1, h2}, phones |-> <<>>]

Local == [Plain EXCEPT !.requestor = "r2", !.ttl = FALSE, !.localOnly = TRUE]

Signed == [Plain EXCEPT !.origin = h2, !.attests = TRUE, !.phones = <<f1>>]

Phoned == [Signed EXCEPT !.approvers = {}]

Asked == {a1 :> r[1] @@ a2 :> r[2] :
            r \in {<<Plain, Plain>>, <<Plain, Local>>, <<Plain, Signed>>, <<Plain, Phoned>>}}

Others == [h \in Host |-> IF h = h1 THEN <<h2>> ELSE <<h1>>]
=============================================================================
