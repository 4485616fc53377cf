---------------------------- MODULE MCMeshGuard ----------------------------
(* A small instance of MeshGuard for TLC: a short token, a long one issued      *)
(* later, one for a denied phase, altered copies, and servers that are ready,   *)
(* lack one thing each, or have the policies of another point first or only.    *)
EXTENDS MeshGuard, TLC

CONSTANTS n1, n2, n3, r1, r2, r3, signer, stranger, receiver, patch, tests,
          creation, completion, repo1, repo2

MCNonces == {n1, n2, n3}
MCRequests == {r1, r2, r3}
MCIssuers == {signer, stranger}
MCIdentities == {receiver}
MCScopes == {patch, tests}
MCPhases == {creation, completion}
MCRepositories == {repo1, repo2}

Short == [nonce |-> n1, issuer |-> signer, subject |-> receiver, audience |-> receiver,
          scopes |-> {patch}, phase |-> creation, repository |-> repo1,
          issued |-> 1, expires |-> 2, formed |-> TRUE, signed |-> TRUE]
Late == [Short EXCEPT !.nonce = n2, !.issued = 2, !.expires = 4]
Denied == [Short EXCEPT !.nonce = n3, !.expires = 3, !.phase = completion]

MCPresented == {Short, Late, Denied,
                [Late EXCEPT !.signed = FALSE, !.expires = 3, !.scopes = {patch, tests}],
                [Late EXCEPT !.signed = FALSE, !.issuer = stranger],
                [Short EXCEPT !.signed = FALSE, !.formed = FALSE]}

Ingress == [point |-> "ingress", issuers |-> {signer}, scopes |-> {patch},
            deniedPhases |-> {completion}, repositories |-> {repo1}]
Egress == [Ingress EXCEPT !.point = "egress", !.deniedPhases = {}]

Full == [subject |-> receiver, audience |-> receiver, keys |-> {signer}, replay |-> TRUE,
         policies |-> <<Egress, Ingress>>]

MCConfigurations == {Full,
                     [Full EXCEPT !.policies = <<>>],
                     [Full EXCEPT !.policies = <<Egress>>],
                     [Full EXCEPT !.replay = FALSE],
                     [Full EXCEPT !.audience = Blank]}
Symmetry == Permutations(MCRequests)
=============================================================================
