----------------------------- MODULE MCSignIn ------------------------------
(* Instances of SignIn for TLC.                                            *)
EXTENDS SignIn, TLC

Plain == {NoLogin}
Unseal == {[NoLogin EXCEPT !.unseal = TRUE, !.authtok = pin] : pin \in Pins}
Forced == {[NoLogin EXCEPT !.force_reauth = TRUE]}
Remote == {[NoLogin EXCEPT !.remote = TRUE]}
Every == Plain \cup Unseal \cup Forced \cup Remote
            \cup {[NoLogin EXCEPT !.no_hello_pin = TRUE]}
            \cup {[NoLogin EXCEPT !.authtok = pin] : pin \in Pins}

Entra == [entra |-> TRUE, served |-> TRUE, totp |-> FALSE, sfa |-> FALSE, policy |-> FALSE, mfa |-> FALSE,
          console |-> TRUE, hello |-> TRUE, msa |-> FALSE, orchestrator |-> FALSE,
          clients |-> 1, logins |-> Plain, keys |-> 1]
Oidc == [Entra EXCEPT !.entra = FALSE, !.orchestrator = TRUE]

\* Two sign-ins at a time; one with a PIN change; each option once; and an
\* account whose domain no provider serves.
MCConfigs ==
    {[Entra EXCEPT !.clients = 2, !.msa = TRUE],
     [Oidc EXCEPT !.clients = 2, !.totp = TRUE, !.orchestrator = FALSE],
     [Entra EXCEPT !.keys = 2],
     [Entra EXCEPT !.totp = TRUE, !.logins = Every],
     [Entra EXCEPT !.totp = TRUE, !.mfa = TRUE],
     [Entra EXCEPT !.sfa = TRUE, !.mfa = TRUE, !.policy = TRUE],
     [Entra EXCEPT !.msa = TRUE, !.policy = TRUE, !.logins = Plain \cup Remote],
     [Oidc EXCEPT !.logins = Every],
     [Entra EXCEPT !.hello = FALSE, !.mfa = TRUE, !.sfa = TRUE, !.clients = 2, !.logins = Forced],
     [Entra EXCEPT !.hello = FALSE, !.sfa = TRUE, !.clients = 2, !.logins = Plain \cup Forced],
     [Entra EXCEPT !.served = FALSE, !.logins = Every]}

Symmetry == Permutations(Pins) \cup Permutations(Sessions)
============================================================================
