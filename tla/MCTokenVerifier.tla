-------------------------- MODULE MCTokenVerifier --------------------------
(* A small instance of TokenVerifier for TLC: a short token, a long one that is *)
(* issued later, one with an unknown phase, one that lives too long, one for     *)
(* another receiver, and copies that were altered, readdressed or lack a claim. *)
EXTENDS TokenVerifier, TLC

CONSTANTS n1, n2, n3, n4, n5, t1, t2, patch, tests, creation, repo1, repo2

MCNonces == {n1, n2, n3, n4, n5}
MCThreads == {t1, t2}
MCScopes == {patch, tests}
MCPhases == {creation}
MCRepositories == {repo1, repo2}

Short == [nonce |-> n1, issued |-> 1, expires |-> 2, formed |-> TRUE, genuine |-> TRUE,
          addressed |-> TRUE, scopes |-> {patch}, phase |-> creation, repository |-> repo1]
Late == [Short EXCEPT !.nonce = n2, !.issued = 3, !.expires = 5, !.scopes = {patch, tests}]
Strange == [Short EXCEPT !.nonce = n3, !.expires = 3, !.phase = Unknown]
Eternal == [Short EXCEPT !.nonce = n4, !.expires = 5]
Elsewhere == [Short EXCEPT !.nonce = n5, !.addressed = FALSE]

MCPresented == {Short, Late, Strange, Eternal, Elsewhere,
                [Late EXCEPT !.genuine = FALSE, !.expires = 4, !.repository = repo2],
                [Late EXCEPT !.genuine = FALSE, !.addressed = FALSE],
                [Short EXCEPT !.formed = FALSE, !.genuine = FALSE]}
Symmetry == Permutations(MCThreads)
=============================================================================
