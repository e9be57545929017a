---------------------------- MODULE OidcSignIn -----------------------------
(***************************************************************************)
(* The online sign-in of the OpenID Connect provider                       *)
(* (idprovider/openidconnect.rs): device flow, browser flow through the    *)
(* orchestrator with a device flow beside it, and Hello PIN.  The issuer   *)
(* and the orchestrator are external here: every answer is an outcome.     *)
(***************************************************************************)
EXTENDS HelloKeys

----------------------------------------------------------------------------
\* token_validate: another account, or a token that cannot be turned into a
\* user.  A refresh token, if there is one, goes into the refresh cache.
oidc_token_validate(p, h) == {Denied(p, h), Fail(p, h), Ok(p, h), Ok([p EXCEPT !.mem = "rt"], h)}

\* After a device or browser flow a PIN is set up, also over an existing one.
finalize_mfa_success(p, h, no_hello_pin) ==
    LET Valid(q) ==
          {IF ~cfg.hello \/ no_hello_pin THEN Out(q, h, "Success", {"mfa"})
           ELSE Out(q, [NoHandler EXCEPT !.k = "SetupPin"], "SetupPin", {"mfa"})}
    IN  AndThen(oidc_token_validate(p, h), Valid)

\* Pending requests are polled again; any error, an outage among them, denies
\* the sign-in.
acquire_token_by_device_flow(p, h, no_hello_pin) ==
    {Out(p, h, "MFAPollWait", {}), Denied(p, h)} \cup finalize_mfa_success(p, h, no_hello_pin)

DeviceFlow(p, h, req, no_hello_pin) ==
    IF req.t # "MFAPoll" \/ req.attempt > MaxPoll THEN {Denied(p, h)}
    ELSE acquire_token_by_device_flow(p, h, no_hello_pin)

----------------------------------------------------------------------------
(* The browser flow.  A device flow always stands behind it.               *)

\* auth_request_from_orchestrator_inputs: a password, a code, or else a poll.
OrchestratorRequests == {"Password", "MFACode", "MFAPoll"}

\* orchestrator_send_command: what FlowProtocol promises; "none" after a time-out
\* or when the orchestrator cannot be reached.
orchestrator_send_command == {"NextStep", "SessionComplete", "SessionError", "none"}

\* orchestrator_inputs_from_pam_request refuses an answer to another question.
orchestrator_inputs_from_pam_request(req) == req.t \in OrchestratorRequests

OrchestratorPoll(p, h, req, no_hello_pin) ==
    IF req.attempt > MaxPoll THEN {Denied(p, h)}
    ELSE acquire_token_by_device_flow(p, h, no_hello_pin)

NextStep(p, h) == {Out(p, h, r, {}) : r \in OrchestratorRequests}

SessionComplete(p, h, no_hello_pin) ==
    {Denied(p, h)} \cup acquire_token_by_device_flow(p, h, no_hello_pin)

\* SessionError, Error and responses that make no sense here.
SessionError(p, h) == {Denied(p, h)}

\* Without the orchestrator the device flow alone goes on.
NoOrchestrator(p, h) == {Out(p, [h EXCEPT !.k = "DeviceFlow"], "MFAPollWait", {})}

orchestrator_continue(p, h, no_hello_pin) ==
    UNION {CASE answer = "NextStep" -> NextStep(p, h)
             [] answer = "SessionComplete" -> SessionComplete(p, h, no_hello_pin)
             [] answer = "SessionError" -> SessionError(p, h)
             [] answer = "none" -> NoOrchestrator(p, h) : answer \in orchestrator_send_command}

OrchestratorStep(p, h, req, no_hello_pin) ==
    IF req.t = "MFAPoll" THEN OrchestratorPoll(p, h, req, no_hello_pin)
    ELSE IF ~orchestrator_inputs_from_pam_request(req) THEN {Denied(p, h)}
    ELSE orchestrator_continue(p, h, no_hello_pin)

\* orchestrator_try_start: only an answer with a question starts a browser flow.
orchestrator_try_start(p) ==
    IF "NextStep" \in orchestrator_send_command
    THEN NextStep(p, [NoHandler EXCEPT !.k = "Orchestrator"]) ELSE {}

maybe_start_orchestrator_flow(p) == IF cfg.orchestrator THEN orchestrator_try_start(p) ELSE {}

----------------------------------------------------------------------------
(* The Hello PIN.                                                          *)

\* The refresh token: unsealed with the key, or from the refresh cache.
OidcRefreshToken(p, key) == p.ks.rt = key \/ p.mem = "rt"

\* acquire_token_by_refresh_token: a token, a refusal or an outage.  An outage is
\* no RequestFailed: that error is left to a client that was never initialised,
\* which a step cannot meet.
acquire_token_by_refresh_token == {"token", "refused", "outage"}

\* A failed exchange deletes the refresh token together with the key.
RefreshFailed(p, h, answer) ==
    Out(reset_bad_pin_count([p EXCEPT !.ks.rt = NoKey, !.ks.decoupled = NoKey]), h, "Denied",
        {answer} \ {"refused"})

\* The new refresh token is sealed, unless there is none or the token cannot be
\* turned into a user.
RefreshedToken(p, h, key, pin) ==
    LET Valid(q) == {second_factor(q, h, pin, {"pin"})}
    IN  {Denied(p, h), Fail(p, h)} \cup AndThen(oidc_token_validate(Seal(p, key, "rt"), h), Valid)

OidcExchange(p, h, key, pin) ==
    UNION {IF answer = "token" THEN RefreshedToken(reset_bad_pin_count(p), h, key, pin)
           ELSE {RefreshFailed(p, h, answer)} : answer \in acquire_token_by_refresh_token}

oidc_auth_and_validate_hello_key(p, h, key, registered, pin) ==
    IF ~ms_hello_key_load(key, pin) THEN {handle_hello_bad_pin_count(p, h)}
    ELSE IF registered THEN {Denied([p EXCEPT !.ks.decoupled = NoKey], h)}
    ELSE IF ~OidcRefreshToken(p, key) THEN {Denied(p, h)}
    ELSE OidcExchange(p, h, key, pin)

OidcSetupPin(p, h, pin) ==
    {Fail(p, h)} \cup
    IF p.made < cfg.keys
    THEN oidc_auth_and_validate_hello_key(StoreKey(p, FALSE, pin), h, NewKey(p, pin), FALSE, pin)
    ELSE {}

OidcPin(p, h, pin) ==
    LET key == fetch_hello_key(p)
    IN  IF key = NoKey THEN {Fail(p, h)}
        ELSE oidc_auth_and_validate_hello_key(p, h, key, p.ks.hello # NoKey, pin)

----------------------------------------------------------------------------
\* attempt_online: the issuer is initialised and probed.
oidc_attempt_online(p) == {[p EXCEPT !.online = online] : online \in BOOLEAN}

oidc_online_auth_init(p, opts) ==
    LET full == \/ fetch_hello_key(p) = NoKey
                \/ ~cfg.hello
                \/ opts.remote /\ ~cfg.totp
                \/ p.bad > Retry
                \/ opts.no_hello_pin
                \/ opts.force_reauth
    IN  {Out(Offline(p), NoHandler, "InitDenied", {})} \cup
        IF full
        THEN {Fail(p, NoHandler), Out(p, [NoHandler EXCEPT !.k = "DeviceFlow"], "MFAPoll", {})}
                \cup maybe_start_orchestrator_flow(p)
        ELSE {IF q.online THEN Out(q, NoHandler, "Pin", {}) ELSE Fail(q, NoHandler) :
                q \in oidc_attempt_online(p)}

oidc_online_auth_step(p, h, req, no_hello_pin) ==
    CASE req.t = "SetupPin" /\ h.k = "SetupPin" -> OidcSetupPin(p, h, req.pin)
      [] req.t = "Pin" -> OidcPin(p, h, req.pin)
      [] h.k = "DeviceFlow" /\ req.t # "Pin" -> DeviceFlow(p, h, req, no_hello_pin)
      [] h.k = "Orchestrator" /\ req.t # "Pin" -> OrchestratorStep(p, h, req, no_hello_pin)
      [] req.t = "HelloTOTP" /\ h.k = "HelloTOTP" -> {impl_handle_hello_pin_totp_auth(p, h, req.code)}
      [] OTHER -> {Denied(p, h)}
============================================================================
