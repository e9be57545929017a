------------------------------ MODULE SignIn -------------------------------
(***************************************************************************)
(* Sign-ins of one account, end to end: the clients' request loops, the    *)
(* resolver's sessions and the provider, with the Hello key store.  Two    *)
(* sign-ins interleave between requests, and between the moment a step     *)
(* reads the provider's state and the moment it holds the locks.  PIN      *)
(* changes, restarts of the daemon and the expiry of the sealed PRT happen *)
(* at any time.                                                            *)
(***************************************************************************)
EXTENDS EntraSignIn, OidcSignIn, PamClient

CONSTANTS
    Sessions,   \* connections of clients
    Configs     \* configurations of the host

ASSUME SignInAssumption ==
    Configs \subseteq [entra : BOOLEAN, served : BOOLEAN, totp : BOOLEAN, sfa : BOOLEAN, policy : BOOLEAN,
                       mfa : BOOLEAN, console : BOOLEAN, hello : BOOLEAN, msa : BOOLEAN,
                       orchestrator : BOOLEAN, clients : Nat, logins : SUBSET Login, keys : 1..MaxKeys]

VARIABLES
    p,          \* the provider
    cl,         \* the client of each connection
    sess,       \* the AuthSession of each connection
    shown,      \* history: what the attempt under way has shown so far
    alone,      \* history: steps of a sign-in since a person was asked
    wrong       \* history: wrong PINs since the last right or new one

vars == <<cfg, p, cl, sess, shown, alone, wrong>>

Session == [open : BOOLEAN, online_at_init : BOOLEAN, h : Handler]
NoSession == [open |-> FALSE, online_at_init |-> FALSE, h |-> NoHandler]

Proofs == {"pin", "totp", "mfa", "password", "sfa", "cached",
           "offline", "unchecked", "outage", "code"}

Init ==
    /\ cfg \in Configs
    /\ p = [ks |-> [hello |-> NoKey, decoupled |-> NoKey, prt |-> NoKey, rt |-> NoKey,
                    totp |-> NoKey, aged |-> FALSE],
            bad |-> 0, mem |-> "none", online |-> FALSE, joined |-> FALSE, intune |-> FALSE, made |-> 0]
    /\ cl = [s \in Sessions |-> IdleClient]
    /\ sess = [s \in Sessions |-> NoSession]
    /\ shown = [s \in Sessions |-> {}]
    /\ alone = [s \in Sessions |-> 0]
    /\ wrong = 0

----------------------------------------------------------------------------
\* What a person can be asked.
Prompts == {"Password", "MFACode", "HelloTOTP", "SetupPin", "Pin", "Fido", "ChangePassword"}

\* A response other than a question ends the attempt: the session is over, and
\* what was shown counts no longer unless it led to success or an error.
Respond(s, c, o, session) ==
    /\ p' = o.p
    /\ cl' = [cl EXCEPT ![s] = [c EXCEPT !.pc = "answered", !.req = Req("Init"), !.online = FALSE,
                                         !.resp = IF o.r = "NotFound" THEN "Denied" ELSE o.r]]
    /\ sess' = [sess EXCEPT ![s] =
                   IF o.r \in {"Success", "Denied", "Error", "InitDenied"} THEN NoSession ELSE session]
    /\ alone' = [alone EXCEPT ![s] = IF o.r \in Prompts THEN 0 ELSE IF @ > MaxPoll + 5 THEN @ ELSE @ + 1]

\* No provider serves the domain of the account.
NotFound(q) == {Out(q, NoHandler, "NotFound", {})}

\* pam_account_authenticate_init.  A provider that is not online is tested; an
\* unforced online start that fails never returns (the run auth_init_fallback).
online_auth_init(q, opts) ==
    {o \in IF ~cfg.served THEN NotFound(q)
           ELSE IF cfg.entra THEN entra_online_auth_init(q, opts) ELSE oidc_online_auth_init(q, opts) :
        o.r \in {"Error", "NotFound"} => opts.force_reauth}

offline_auth_init(q, opts) ==
    IF ~cfg.served THEN NotFound(q) ELSE {impl_himmelblau_offline_auth_init(q, opts.no_hello_pin)}

\* check_online: while the next check is not due an offline provider stays so.
check_online == IF p.online THEN {p} ELSE IF cfg.entra THEN attempt_online(p) ELSE oidc_attempt_online(p)

pam_account_authenticate_init(s, c) ==
    /\ \E q \in check_online :
         \E o \in IF q.online THEN online_auth_init(q, c.opts)
                  ELSE IF c.opts.force_reauth THEN {Out(q, NoHandler, "InitDenied", {})}
                  ELSE offline_auth_init(q, c.opts) :
            Respond(s, c, o, IF o.r = "NotFound" THEN NoSession
                             ELSE [open |-> TRUE, online_at_init |-> q.online, h |-> o.h])
    /\ shown' = [shown EXCEPT ![s] = {}]
    /\ UNCHANGED <<cfg, wrong>>

\* An application calls PAM, or asks the daemon to unseal with a credential.
Connect(s) ==
    /\ cl[s].pc = "idle"
    /\ Cardinality({t \in Sessions : cl[t].pc # "idle"}) < cfg.clients
    /\ \E opts \in cfg.logins : pam_account_authenticate_init(s, authenticate(opts))

\* A step arrives: it reads the provider's state before it waits for the locks.
StepArrives(s, c) ==
    /\ cl' = [cl EXCEPT ![s] = [c EXCEPT !.online = sess[s].online_at_init /\ p.online]]
    /\ UNCHANGED <<cfg, p, sess, shown, alone, wrong>>

Close(s) ==
    /\ cl' = [cl EXCEPT ![s] = IdleClient]
    /\ sess' = [sess EXCEPT ![s] = NoSession]
    /\ shown' = [shown EXCEPT ![s] = {}]
    /\ alone' = [alone EXCEPT ![s] = 0]
    /\ UNCHANGED <<cfg, p, wrong>>

\* The client handles the response: another step, a new start, or the end.
HandleResponse(s) ==
    /\ cl[s].pc = "answered"
    /\ \E c \in IF cl[s].opts.unseal THEN pam_try_unseal(cl[s]) ELSE authenticate_request_response(cl[s]) :
         \/ c.pc = "idle" /\ Close(s)
         \/ c.pc = "sent" /\ c.req.t = "Init" /\ pam_account_authenticate_init(s, c)
         \/ c.pc = "sent" /\ c.req.t # "Init" /\ StepArrives(s, c)

\* The offline arm: the verifier of the cached password, PIN and code; all else
\* is refused.
offline_step(opts, h, req) ==
    IF opts.force_reauth THEN {Denied(p, h)}
    ELSE IF req.t = "Password"
    THEN (IF cfg.entra THEN {Out(p, h, "Success", {"cached"})} ELSE {}) \cup {Denied(p, h), Fail(p, h)}
    ELSE IF h.k \notin {"MFA", "SetupPin", "ChangePassword", "DeviceFlow", "Orchestrator"}
            /\ req.t \in {"Pin", "HelloTOTP"}
    THEN {impl_himmelblau_offline_auth_step(p, h, req)}
    ELSE {Fail(p, h)}

online_step(opts, h, req) ==
    IF cfg.entra THEN entra_online_auth_step(p, h, req, opts.no_hello_pin)
    ELSE oidc_online_auth_step(p, h, req, opts.no_hello_pin)

\* What a step tells about the stored PIN: a new PIN was set up, or a right or a
\* wrong one was typed.
Guess(req, o) ==
    IF \/ o.p.made # p.made
       \/ o.r = "Success"
       \/ req.t = "Pin" /\ ms_hello_key_load(fetch_hello_key(p), req.pin)
    THEN 0
    ELSE IF req.t = "Pin" /\ "unchecked" \notin o.shown /\ fetch_hello_key(p) # NoKey
         THEN wrong + 1 ELSE wrong

pam_account_authenticate_step(s) ==
    /\ cl[s].pc = "sent"
    /\ LET c == cl[s]
           h == sess[s].h
       IN  \E o \in IF ~sess[s].open THEN {Fail(p, h)}
                    ELSE IF c.online THEN online_step(c.opts, h, c.req)
                    ELSE offline_step(c.opts, h, c.req) :
               /\ Respond(s, c, o, [sess[s] EXCEPT !.h = o.h])
               /\ shown' = [shown EXCEPT ![s] = IF o.r \in {"Denied", "NotFound"} THEN o.shown \cap {"outage"}
                                                  ELSE @ \cup o.shown]
               /\ wrong' = Guess(c.req, o)
    /\ UNCHANGED cfg

----------------------------------------------------------------------------
\* PamChangeAuthToken: passwd sets a new PIN, online only.
ChangePin ==
    /\ cfg.served /\ cfg.hello /\ p.made < cfg.keys
    /\ \E new \in sm_chauthtok :
         p' = impl_change_auth_token([p EXCEPT !.online = TRUE], new.amr_ngcmfa, new.pin)
    /\ wrong' = IF fetch_hello_key(p') # fetch_hello_key(p) THEN 0 ELSE wrong
    /\ UNCHANGED <<cfg, cl, sess, shown, alone>>

\* The daemon restarts: the key store is on disk, all else is gone, and the
\* clients get an error.
Restart ==
    /\ p' = [p EXCEPT !.bad = 0, !.mem = "none", !.online = FALSE]
    /\ cl' = [s \in Sessions |-> IdleClient]
    /\ sess' = [s \in Sessions |-> NoSession]
    /\ shown' = [s \in Sessions |-> {}]
    /\ alone' = [s \in Sessions |-> 0]
    /\ wrong' = 0
    /\ UNCHANGED cfg

\* The sealed PRT expires after two weeks without a renewal.
Expire ==
    /\ p.ks.prt # NoKey /\ ~p.ks.aged
    /\ p' = [p EXCEPT !.ks.aged = TRUE]
    /\ UNCHANGED <<cfg, cl, sess, shown, alone, wrong>>

Next ==
    \/ \E s \in Sessions : Connect(s) \/ HandleResponse(s) \/ pam_account_authenticate_step(s)
    \/ ChangePin \/ Restart \/ Expire

Spec == Init /\ [][Next]_vars

----------------------------------------------------------------------------
(* Properties.                                                             *)

\* Types of the sign-in state; the bad PIN count is only bounded by the model.
TypeOK ==
    /\ cfg \in Configs
    /\ p \in Provider
    /\ cl \in [Sessions -> Client]
    /\ sess \in [Sessions -> Session]
    /\ shown \in [Sessions -> SUBSET Proofs]
    /\ alone \in [Sessions -> Nat]
    /\ wrong \in Nat

\* PAM_SUCCESS is earned by the attempt itself, whatever other sign-ins, PIN
\* changes and outages happened in between: by the directory (mfa, password,
\* sfa), by the verifier of a cached password, or by the PIN.  A forced
\* re-authentication and a service without Hello PIN never accept a PIN.  Where
\* Hello TOTP is enabled, and for a remote service, the PIN needs a code, but for
\* what the offline sign-in accepts: it takes the PIN alone where no code was set
\* up and looks neither at the option nor at the service.  (The manual makes no
\* such exception: CodeRequired.)
SuccessEarned ==
    \A s \in Sessions : cl[s].resp = "Success" =>
        LET full == shown[s] \cap {"mfa", "password", "sfa"}
        IN  /\ cl[s].opts.force_reauth => full # {}
            /\ full \cup (shown[s] \cap {"cached"}) = {} =>
                  /\ "pin" \in shown[s] /\ ~cl[s].opts.no_hello_pin
                  /\ cfg.totp \/ cl[s].opts.remote => shown[s] \cap {"totp", "offline"} # {}

\* "When enabled, users are required to authenticate using both their Hello PIN
\* and a TOTP"; "Hello PIN alone is not permitted for remote authentication"
\* (himmelblau.conf(5), enable_hello_totp; allow_remote_hello is off here).
CodeRequired ==
    \A s \in Sessions : cl[s].resp = "Success" /\ (cfg.totp \/ cl[s].opts.remote) =>
        shown[s] \cap {"mfa", "password", "sfa", "cached", "totp"} # {}

\* A stored Hello key has never taken more than Retry wrong PINs since a right one,
\* a newly set up one or a successful sign-in, over all concurrent sign-ins, unseal requests, PIN changes
\* and failures of the directory.  (The count is the account's: setting up a key
\* of one kind starts it anew for a key of the other kind too.  It is kept in
\* memory, so it also starts anew with the daemon.)
GuessesBounded == fetch_hello_key(p) # NoKey => wrong <= Retry

\* With Entra ID a Hello key is lost only by a step that leaves more than Retry
\* failures counted; an outage, an expired or unreadable token and a demand for a
\* full sign-in leave it.  The count is not of wrong PINs only: a wrong code and
\* the directory's refusals of a token after a right PIN count too, so that
\* Retry + 1 refusals in a row make people with the right PIN enrol again.
HelloKeyKept ==
    [][cfg.entra /\ fetch_hello_key(p) # NoKey => fetch_hello_key(p') # NoKey \/ p'.bad > Retry]_vars

\* "The number of invalid Hello PIN attempts allowed before the user is required to
\* perform MFA" (himmelblau.conf(5), hello_pin_retry_count): a Hello key is lost
\* only through that many wrong PINs.
LostByWrongPins ==
    [][cfg.entra /\ ~cfg.totp /\ fetch_hello_key(p) # NoKey /\ fetch_hello_key(p') = NoKey => wrong' > Retry]_vars

\* A sign-in of an account whose domain a provider serves comes back to the
\* person or ends after a few steps of its own: polling, new attempts after a
\* denial and errors never go round among the client and the daemon, and a
\* timed-out request is not polled again.  (Where no provider serves the domain
\* they do: each start is denied, and handle_denied starts again, for ever.)
ComesBack == cfg.served => \A s \in Sessions : alone[s] <= MaxPoll + 5

\* Someone whose PIN was accepted and who gives the right code is not turned
\* away with an internal error while that PIN is still the stored one.
TotpAccepted ==
    \A s \in Sessions : {"pin", "code"} \subseteq shown[s] => cl[s].resp # "Error"

\* "If the network goes down during an online exchange auth, we can downgrade to
\* an offline auth and permit the authentication to proceed" (both providers): an
\* outage during the exchange of a token does not deny a sign-in with a right PIN.
OutageTolerated == \A s \in Sessions : "outage" \in shown[s] => cl[s].resp # "Denied"
============================================================================
