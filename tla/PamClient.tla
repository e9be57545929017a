----------------------------- MODULE PamClient -----------------------------
(***************************************************************************)
(* The request loop of the PAM module and the broker (common/src/auth.rs): *)
(* one operator for each kind of response.  It maps the client to the set  *)
(* of its next states: another request, or idle when it is over.           *)
(* People may type any PIN, a right or a wrong code, or break off.         *)
(***************************************************************************)
EXTENDS HelloKeys

RequestTypes == {"Init", "Password", "MFACode", "HelloTOTP", "MFAPoll", "SetupPin", "Pin",
                 "Fido", "FidoUnavailable"}

\* PamAuthRequest, all variants in one record.
Request == [t : RequestTypes, pin : Pins \cup {NoKey}, code : BOOLEAN, attempt : 0..MaxPoll + 2]

Req(t) == [t |-> t, pin |-> NoKey, code |-> FALSE, attempt |-> 0]
PinReq(t, pin) == [Req(t) EXCEPT !.pin = pin]

Responses == {"None", "Unknown", "Success", "Denied", "InitDenied", "Password", "MFACode",
              "HelloTOTP", "MFAPoll", "MFAPollWait", "SetupPin", "Pin", "Fido",
              "ChangePassword", "Error"}

\* What a client is started with: Options, the service, and a credential that
\* another PAM module has asked for (NoKey: none).  unseal: PamTryUnseal.
Login == [remote : BOOLEAN, no_hello_pin : BOOLEAN, force_reauth : BOOLEAN,
          unseal : BOOLEAN, authtok : Pins \cup {NoKey}]

NoLogin == [remote |-> FALSE, no_hello_pin |-> FALSE, force_reauth |-> FALSE,
            unseal |-> FALSE, authtok |-> NoKey]

\* AuthenticateState, with the request under way and the response to it.
\*   pc: idle; sent: the daemon has the request and has read the provider's state
\*   into online; answered: the response is there
Client == [pc : {"idle", "sent", "answered"}, opts : Login, req : Request,
           resp : Responses, poll : -1..MaxPoll + 2, online : BOOLEAN]

IdleClient == [pc |-> "idle", opts |-> NoLogin, req |-> Req("Init"), resp |-> "None",
               poll |-> -1, online |-> FALSE]

----------------------------------------------------------------------------
Send(c, req) == [c EXCEPT !.pc = "sent", !.req = req, !.resp = "None"]

\* pam_fail and every prompt that is broken off.
pam_fail(c) == IdleClient

\* authenticate: poll_attempt starts at -1.
authenticate(opts) == Send([IdleClient EXCEPT !.opts = opts], Req("Init"))

\* A credential handed over by the PAM stack is used up by the first prompt.
Consume(c) == [c EXCEPT !.opts.authtok = NoKey]

handle_password(c) ==
    {Send(Consume(c), Req("Password"))} \cup (IF c.opts.authtok = NoKey THEN {pam_fail(c)} ELSE {})

handle_pin(c) ==
    IF c.opts.authtok # NoKey THEN {Send(Consume(c), PinReq("Pin", c.opts.authtok))}
    ELSE {Send(c, PinReq("Pin", pin)) : pin \in Pins} \cup {pam_fail(c)}

handle_mfacode(c) == {Send(c, Req("MFACode")), pam_fail(c)}

handle_hellototp(c) ==
    {Send(c, [Req("HelloTOTP") EXCEPT !.code = code]) : code \in BOOLEAN} \cup {pam_fail(c)}

\* Too short or too simple a PIN is asked for again, so is one not confirmed.
handle_setup_pin(c) == {Send(c, PinReq("SetupPin", pin)) : pin \in Pins} \cup {pam_fail(c)}

\* A security key: touched and its PIN given, or it is missing, blocked, of somebody
\* else, or not touched in time.
fido_auth == {"assertion", "failed"}

\* A phone that scans a QR code and signs over Bluetooth.
qr_bluetooth_fido_auth == {"assertion", "failed"}

\* Both at once: the first to succeed wins, one that fails leaves it to the other.
fido_auth_with_qr_bluetooth ==
    {IF "assertion" \in {key, phone} THEN "assertion" ELSE "failed" :
        key \in fido_auth, phone \in qr_bluetooth_fido_auth}

check_bluetooth == {"PoweredOn", "PoweredOff", "NoAdapter"}

\* Whether a phone can be used: where it is the only way and Bluetooth is off, a
\* graphical login waits for somebody to switch it on.
can_qr_bluetooth(has_key, has_cross_device, bluetooth, graphical) ==
    {has_cross_device /\ bluetooth = "PoweredOn"} \cup
    {on \in {TRUE} : ~has_key /\ has_cross_device /\ bluetooth = "PoweredOff" /\ graphical}

\* A terminal tries the key even where the account has a phone only.
FidoResults(has_key, phone, graphical) ==
    IF has_key /\ phone /\ graphical THEN fido_auth_with_qr_bluetooth
    ELSE IF phone /\ graphical THEN qr_bluetooth_fido_auth ELSE fido_auth

\* Without usable hardware the daemon falls back to the password.
FidoNext(c, has_key, phone, graphical) ==
    IF ~has_key /\ ~phone THEN {Send(c, Req("FidoUnavailable"))}
    ELSE {IF r = "assertion" THEN Send(c, Req("Fido")) ELSE pam_fail(c) :
            r \in FidoResults(has_key, phone, graphical)}

handle_fido(c) ==
    UNION {UNION {FidoNext(c, has_key, phone, graphical) :
                    phone \in can_qr_bluetooth(has_key, has_cross_device, bluetooth, graphical)} :
             has_key \in BOOLEAN, has_cross_device \in BOOLEAN, graphical \in BOOLEAN,
             bluetooth \in check_bluetooth}

handle_change_password(c) == {Send(c, Req("Password")), pam_fail(c)}

Poll(c, attempt) == Send([c EXCEPT !.poll = attempt], [Req("MFAPoll") EXCEPT !.attempt = attempt])

handle_mfapoll(c) == IF c.poll >= 0 THEN {pam_fail(c)} ELSE {Poll(c, 0)}

\* Mutant: the attempts are counted down.
handle_mfapollwait_down(c) == {Poll(c, c.poll - 1)}

\* Beyond MaxPoll all attempts are alike: the counter saturates there.
handle_mfapollwait(c) == {Poll(c, IF c.poll < MaxPoll + 2 THEN c.poll + 1 ELSE c.poll)}

\* The sign-in starts again on the same connection; poll_attempt stays.
handle_denied(c) == {Send(c, Req("Init"))}

\* authenticate_request_response
authenticate_request_response(c) ==
    CASE c.resp = "Success" -> {IdleClient}
      [] c.resp = "Denied" -> handle_denied(c)
      [] c.resp = "Password" -> handle_password(c)
      [] c.resp = "MFACode" -> handle_mfacode(c)
      [] c.resp = "HelloTOTP" -> handle_hellototp(c)
      [] c.resp = "MFAPoll" -> handle_mfapoll(c)
      [] c.resp = "MFAPollWait" -> handle_mfapollwait(c)
      [] c.resp = "SetupPin" -> handle_setup_pin(c)
      [] c.resp = "Pin" -> handle_pin(c)
      [] c.resp = "Fido" -> handle_fido(c)
      [] c.resp = "ChangePassword" -> handle_change_password(c)
      [] c.resp \in {"InitDenied", "Unknown", "Error"} -> {pam_fail(c)}

----------------------------------------------------------------------------
(* passwd: the PAM module signs the person in by itself, past the daemon.    *)

\* Whether the token of an MFA flow (a security key, a code or an approval) is good
\* for a registered key.
MfaFlowToken == BOOLEAN

\* The token of a device flow never is.
DeviceFlowToken == {FALSE}

ChangeToken == IF cfg.entra THEN MfaFlowToken ELSE DeviceFlowToken

\* The request to the daemon.  The new PIN, long enough, not simple and confirmed,
\* is asked for before the sign-in; a failure of either ends without a request.
sm_chauthtok == [pin : Pins, amr_ngcmfa : ChangeToken]

----------------------------------------------------------------------------
\* pam_try_unseal: one attempt with the given credential, if a PIN is asked for.
pam_try_unseal(c) ==
    {IF c.resp = "Pin" THEN Send(c, PinReq("Pin", c.opts.authtok))
     ELSE IdleClient}
============================================================================
