---------------------------- MODULE EntraSignIn ----------------------------
(***************************************************************************)
(* The online sign-in of the Entra ID provider (idprovider/himmelblau.rs): *)
(* one operator for each macro and match arm of unix_user_online_auth_init *)
(* and unix_user_online_auth_step.  The directory and the device service   *)
(* are external: every answer the code distinguishes is an outcome.        *)
(***************************************************************************)
EXTENDS HelloKeys

----------------------------------------------------------------------------
(* Failures of a request to the directory.                                 *)

\* check_new_device_enrollment_required: the device was removed, or not.
Removed(p) == [p EXCEPT !.joined = FALSE, !.intune = FALSE]
check_new_device_enrollment_required(p, h) == {Denied(Removed(p), h), Denied(p, h)}

net_down_check(p, h) == {Denied(Offline(p), h)} \cup check_new_device_enrollment_required(p, h)

\* Any other error is shown to the user.
RequestErrors(p, h) == net_down_check(p, h) \cup {Denied(p, h)}

----------------------------------------------------------------------------
(* Enrolment of the device.                                                *)

\* A device that serves personal accounts (msa) passes as enrolled.
is_domain_joined(p) == cfg.msa \/ p.joined
is_intune_enrolled(p) == cfg.msa \/ p.intune

\* The method intune_enroll: only where policies are applied, and it may fail.
Intune(p) == IF cfg.policy THEN {p, [p EXCEPT !.intune = TRUE]} ELSE {p}

\* The macro intune_enroll: a failure is retried at a later sign-in.
intune_enroll(p) == IF is_intune_enrolled(p) THEN {p} ELSE Intune(p)

join_domain(p) == Intune([p EXCEPT !.joined = TRUE])

Enrolled(p) == IF is_domain_joined(p) THEN intune_enroll(p) ELSE join_domain(p)

\* After the enrolment, a token for the enrolled device.  DEVICE_AUTH_FAIL is
\* caught by net_down_check like any other removal of the device.  An error of
\* the Edge client is retried with the default one.
enroll_and_obtain_enrolled_token(p, h) ==
    (IF is_domain_joined(p) THEN {} ELSE {Denied(p, h)})
        \cup UNION {RequestErrors(q, h) \cup {Ok(q, h)} : q \in Enrolled(p)}

\* token_validate: another account, no token or a failed lookup, or the
\* account's token, with its PRT or refresh token in the refresh cache.
token_validate(p, h, kinds) ==
    {Denied(p, h), Out(p, h, "NotFound", {})}
        \cup UNION {{Fail(q, h), Ok(q, h)} : q \in {[p EXCEPT !.mem = kind] : kind \in kinds}}

\* The token comes with a PRT or, for personal accounts, without.
Kinds == {"prt", "rt"}

----------------------------------------------------------------------------
(* Re-authentication with an existing Hello key.                           *)

Mfa(pin, password) == [NoHandler EXCEPT !.k = "MFA", !.pin = pin, !.password = password]

\* Mutant: the key goes together with the token that cannot be renewed.
request_reauth_deletes_key(p, h, pin) ==
    {Out([p EXCEPT !.ks.hello = NoKey, !.ks.decoupled = NoKey], Mfa(pin, FALSE), "MFAPoll", {"pin"})}

request_reauth(p, h, pin) ==
    LET asks == {"pin"}
    IN  {Denied(Offline(p), h), Denied(p, h), Out(p, Mfa(pin, FALSE), "MFAPoll", asks)}
            \cup (IF cfg.mfa
                  THEN {Out(p, Mfa(pin, FALSE), "Fido", asks),
                        Out(p, [NoHandler EXCEPT !.k = "ReauthPassword", !.pin = pin], "Password", asks)}
                  ELSE {})

----------------------------------------------------------------------------
(* The Hello PIN.                                                          *)

sspr_demand_hello_fallback(p, h, pin) == second_factor(p, h, pin, {"pin"})

\* The network fails during the exchange: the PIN alone is enough, with the
\* second factor where it is configured.
Downgrade(p, h, pin) == second_factor(Offline(p), h, pin, {"pin", "outage"})

\* A refusal counts as a bad PIN, after a retry without Graph scopes or with the
\* default client where that may help, or shows that the device was removed.
HelloRefused(p, h) == {handle_hello_bad_pin_count(p, h)} \cup check_new_device_enrollment_required(p, h)

\* The exchange of a key registered with the directory, of a PRT and of a refresh
\* token.  An outcome in Kinds is a token with what it came with.
acquire_token_by_hello_for_business_key(p, h, pin) ==
    {Downgrade(p, h, pin), sspr_demand_hello_fallback(p, h, pin)}
        \cup HelloRefused(p, h)
        \cup {Out(reset_bad_pin_count(p), h, kind, {}) : kind \in Kinds}

\* What a decoupled key unseals: the PRT, else the refresh token, else what is
\* in the refresh cache.  A PRT sealed by another key counts as nothing.
refresh_cache_entry(p, key) ==
    IF p.ks.prt # NoKey THEN IF p.ks.prt = key THEN "prt" ELSE "none"
    ELSE IF p.ks.rt = key THEN "rt" ELSE p.mem

exchange_prt(p, h, pin) ==
    {Downgrade(p, h, pin), sspr_demand_hello_fallback(p, h, pin), Denied(p, h)}
        \cup check_new_device_enrollment_required(p, h)
        \cup request_reauth(reset_bad_pin_count([p EXCEPT !.ks.prt = NoKey]), h, pin)
        \cup {Out(reset_bad_pin_count(p), h, kind, {}) : kind \in Kinds}

exchange_refresh_token(p, h, pin) ==
    {Downgrade(p, h, pin), sspr_demand_hello_fallback(p, h, pin), Denied(p, h)}
        \cup request_reauth(reset_bad_pin_count([p EXCEPT !.ks.rt = NoKey]), h, pin)
        \cup {Out(reset_bad_pin_count(p), h, "rt", {})}

\* The token is there: seal it, enrol with Intune, validate it.
HelloToken(p, h, key, pin, kind) ==
    LET Valid(q) == {second_factor(q, h, pin, {"pin"})}
    IN  UNION {AndThen(token_validate(q, h, {kind}), Valid) : q \in intune_enroll(Seal(p, key, kind))}

auth_and_validate_hello_key(p, h, key, registered, pin) ==
    LET entry == refresh_cache_entry(p, key)
        exchange == IF registered THEN acquire_token_by_hello_for_business_key(p, h, pin)
                    ELSE IF entry = "prt" THEN exchange_prt(p, h, pin)
                    ELSE IF entry = "rt" THEN exchange_refresh_token(p, h, pin)
                    ELSE request_reauth(p, h, pin)
    IN  IF ~ms_hello_key_load(key, pin) THEN {handle_hello_bad_pin_count(p, h)}
        ELSE UNION {IF o.r \in Kinds THEN HelloToken(o.p, h, key, pin, o.r) ELSE {o} : o \in exchange}

\* A PIN is the one request that may find the provider not yet initialised.
EntraPin(p, h, pin) ==
    LET key == fetch_hello_key(p)
    IN  {Out(Offline(p), h, "Denied", {"unchecked"})} \cup
        IF key = NoKey THEN {Fail(p, h)}
        ELSE auth_and_validate_hello_key(p, h, key, p.ks.hello # NoKey, pin)

\* The TPM may refuse a further key; beyond the bound it does.
EntraSetupPin(p, h, pin) ==
    {Fail(p, h)} \cup (IF h.flag THEN {Out(p, h, "SetupPin", {})} \cup net_down_check(p, h) ELSE {})
        \cup (IF p.made < cfg.keys
              THEN auth_and_validate_hello_key(StoreKey(p, h.flag, pin), h, NewKey(p, pin), h.flag, pin)
              ELSE {})

----------------------------------------------------------------------------
(* Passwords and MFA.                                                      *)

SetupPin(amr) == [NoHandler EXCEPT !.k = "SetupPin", !.flag = amr]

\* nested_auth_handle_mfa_resp: the directory goes on with FIDO, a code or a poll.
nested_auth_handle_mfa_resp(p, pin) ==
    {Out(p, Mfa(pin, TRUE), r, {}) : r \in {"Fido", "MFACode", "MFAPoll"}} \cup {Denied(p, NoHandler)}

maybe_prompt_setup_pin_after_password_only_success(p, h, no_hello_pin, shown) ==
    IF cfg.hello /\ ~no_hello_pin /\ fetch_hello_key(p) = NoKey
    THEN {Out(p, SetupPin(amr), "SetupPin", shown) : amr \in BOOLEAN}
    ELSE {Out(p, h, "Success", shown)}

ChangePassword(p) == Out(p, [NoHandler EXCEPT !.k = "ChangePassword"], "ChangePassword", {})

\* A token that the password alone has earned.
PasswordToken(p, h, no_hello_pin, kinds) ==
    LET Valid(q) == maybe_prompt_setup_pin_after_password_only_success(q, h, no_hello_pin, {"password"})
    IN  AndThen(token_validate(p, h, kinds), Valid)

\* prt_signin_frequency_check: a PRT of the refresh cache may satisfy the
\* sign-in frequency, else MFA follows.
prt_signin_frequency_check(p, h, no_hello_pin) ==
    IF p.mem = "prt" THEN PasswordToken(p, h, no_hello_pin, {"prt"}) ELSE {}

PasswordFirst(p, h, no_hello_pin) ==
    LET Token(q) == PasswordToken(q, h, no_hello_pin, Kinds)
        begin(q) == RequestErrors(q, h) \cup nested_auth_handle_mfa_resp(q, NoKey)
    IN  IF ~h.flag THEN begin(p)
        ELSE {ChangePassword(p), Denied(p, h)}
                \cup AndThen(enroll_and_obtain_enrolled_token(p, h), Token)
                \cup prt_signin_frequency_check(p, h, no_hello_pin)
                \cup begin(p)
                \cup (IF p.mem = "prt" THEN begin(Offline(p)) ELSE {})

\* The fallback to a single factor.
SfaToken(p, h) ==
    LET Valid(q) == {Out(q, h, "Success", {"sfa"})}
    IN  AndThen(token_validate(p, h, Kinds), Valid)

\* A password with any other handler.  During the renewal of a Hello key there
\* is no fallback to a single factor.
Password(p, h) ==
    LET Token(q) == SfaToken(q, h)
        pin == IF h.k = "ReauthPassword" THEN h.pin ELSE NoKey
    IN  RequestErrors(p, h) \cup nested_auth_handle_mfa_resp(p, pin)
            \cup (IF cfg.sfa /\ h.k # "ReauthPassword" /\ is_domain_joined(p)
                  THEN {ChangePassword(p)} \cup AndThen(enroll_and_obtain_enrolled_token(p, h), Token)
                  ELSE {})

\* reseal_prt_with_existing_hello_key_on_success
reseal(p, h, kind) ==
    Out(reset_bad_pin_count(seal_prt_with_existing_hello_key(p, h.pin, kind)), h, "Success", {"mfa"})

\* The token is validated: a Hello key that was to be renewed is, without one a PIN
\* is set up where PINs are used.
MfaValidated(p, h, no_hello_pin) ==
    LET Valid(q) ==
          IF h.pin # NoKey /\ fetch_hello_key(q) # NoKey THEN {reseal(q, h, q.mem)}
          ELSE IF ~cfg.hello \/ no_hello_pin \/ fetch_hello_key(q) # NoKey
               THEN {Out(q, h, "Success", {"mfa"})}
               ELSE {Out(q, SetupPin(amr), "SetupPin", {"mfa"}) : amr \in BOOLEAN}
    IN  AndThen(token_validate(p, h, Kinds), Valid)

\* What follows a completed MFA request; a personal account is not enrolled.
MfaToken(p, h, no_hello_pin, msa) ==
    LET Token(q) == MfaValidated(q, h, no_hello_pin)
    IN  IF msa THEN Token(p) ELSE AndThen(enroll_and_obtain_enrolled_token(p, h), Token)

MfaChangePassword(p, h) == IF h.password THEN ChangePassword(p) ELSE Denied(p, h)

MFACode(p, h, no_hello_pin) ==
    RequestErrors(p, h) \cup {MfaChangePassword(p, h)} \cup MfaToken(p, h, no_hello_pin, FALSE)

\* Mutant: the number of polls is not limited.
MFAPoll_unlimited(p, h, attempt, no_hello_pin) ==
    RequestErrors(p, h) \cup {MfaChangePassword(p, h), Out(p, h, "MFAPollWait", {})}
        \cup MfaToken(p, h, no_hello_pin, cfg.msa)

MFAPoll(p, h, attempt, no_hello_pin) ==
    IF attempt > MaxPoll THEN {Denied(p, h)}
    ELSE RequestErrors(p, h) \cup {MfaChangePassword(p, h), Out(p, h, "MFAPollWait", {})}
            \cup MfaToken(p, h, no_hello_pin, cfg.msa)

FidoUnavailable(p) == {Out(p, NoHandler, "Password", {})}

Fido(p, h, no_hello_pin) ==
    RequestErrors(p, h) \cup {MfaChangePassword(p, h)} \cup MfaToken(p, h, no_hello_pin, FALSE)

----------------------------------------------------------------------------
\* When the PIN is not offered and a full sign-in is needed.
NeedsFullSignIn(p, opts) ==
    \/ ~is_domain_joined(p)
    \/ fetch_hello_key(p) = NoKey
    \/ ~cfg.hello
    \/ opts.remote /\ ~cfg.totp
    \/ p.bad > Retry
    \/ cfg.policy /\ ~is_intune_enrolled(p)
    \/ opts.no_hello_pin
    \/ opts.force_reauth

\* attempt_online: the provider is initialised and the directory probed.
attempt_online(p) == {[p EXCEPT !.online = online] : online \in BOOLEAN}

\* With experimental_mfa the directory tells whether a password is needed, which
\* is asked for only if the network is up, or starts the MFA request itself.
PasswordInit(p, opts) ==
    LET first == [NoHandler EXCEPT !.k = "PasswordFirst", !.flag = is_domain_joined(p)]
    IN  {IF q.online
         THEN Out(q, IF cfg.console /\ ~opts.remote THEN first ELSE NoHandler, "Password", {})
         ELSE Out(q, NoHandler, "InitDenied", {}) : q \in attempt_online(p)}

MfaFlowInit(p) ==
    {Out(p, NoHandler, "Password", {}), Out(p, Mfa(NoKey, FALSE), "Fido", {}),
     Out(p, Mfa(NoKey, FALSE), "MFAPoll", {})}

DeviceFlowInit(p) == {Out(p, Mfa(NoKey, FALSE), "MFAPoll", {})}

PinInit(p) ==
    {IF q.online THEN Out(q, NoHandler, "Pin", {}) ELSE Fail(q, NoHandler) : q \in attempt_online(p)}

\* A full sign-in may also find the network down or get an error.
entra_online_auth_init(p, opts) ==
    IF ~NeedsFullSignIn(p, opts) THEN PinInit(p)
    ELSE {Out(Offline(p), NoHandler, "InitDenied", {}), Fail(p, NoHandler)}
            \cup (IF cfg.mfa THEN PasswordInit(p, opts) \cup MfaFlowInit(p) ELSE DeviceFlowInit(p))

entra_online_auth_step(p, h, req, no_hello_pin) ==
    CASE req.t = "SetupPin" /\ h.k = "SetupPin" -> EntraSetupPin(p, h, req.pin)
      [] req.t = "Pin" -> EntraPin(p, h, req.pin)
      [] req.t = "Password" /\ h.k = "PasswordFirst" -> PasswordFirst(p, h, no_hello_pin)
      [] req.t = "Password" /\ h.k # "PasswordFirst" -> Password(p, h)
      [] req.t = "MFACode" /\ h.k = "MFA" -> MFACode(p, h, no_hello_pin)
      [] req.t = "MFAPoll" /\ h.k = "MFA" -> MFAPoll(p, h, req.attempt, no_hello_pin)
      [] req.t = "FidoUnavailable" /\ h.k = "MFA" -> FidoUnavailable(p)
      [] req.t = "Fido" /\ h.k = "MFA" -> Fido(p, h, no_hello_pin)
      [] req.t = "HelloTOTP" /\ h.k = "HelloTOTP" -> {impl_handle_hello_pin_totp_auth(p, h, req.code)}
      [] OTHER -> {Out(p, h, "NotFound", {})}
============================================================================
