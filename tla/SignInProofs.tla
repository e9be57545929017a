---------------------------- MODULE SignInProofs ----------------------------
(***************************************************************************)
(* The safety properties of signing in, for any number of concurrent       *)
(* sign-ins, any PINs, keys, configurations and bound of the polling. The  *)
(* providers enter only through the contracts of ProviderProofs, and the   *)
(* clients through Handled; the invariant IInv joins them.                 *)
(***************************************************************************)
EXTENDS SignIn, ProviderProofs

\* Most leaves are first-order; those that build records or count say so (SMT).
USE ZenonT(30)

\* The question that a sign-in waits for, or that its client has just answered.
Asked(s) == IF cl[s].pc = "sent" THEN cl[s].req.t ELSE cl[s].resp

\* A client between requests has nothing left over, and one with a question or an answer to it
\* has the session of the daemon it belongs to.
SessionOpen(s) ==
    /\ cl[s].pc = "idle" => cl[s] = IdleClient /\ alone[s] = 0
    /\ cl[s].pc = "sent" => /\ sess[s].open /\ cl[s].resp = "None" /\ cl[s].req.t # "Init"
                            /\ cl[s].online => sess[s].online_at_init
    /\ cl[s].pc = "answered" => cl[s].resp # "None"
    /\ cl[s].pc = "answered" /\ cl[s].resp \in Prompts \cup {"MFAPoll", "MFAPollWait"} => sess[s].open

\* A Hello PIN may sign this client in.
PinAllowed(s) == ~cl[s].opts.no_hello_pin /\ ~cl[s].opts.force_reauth

\* What was shown for what is asked: a PIN only without a flow and where it may sign in, a new PIN
\* only after a full sign-in, the code of the second factor only after the PIN or one; and
\* what was shown for a Success.
Backed(s) ==
    /\ shown[s] \subseteq Tags
    /\ Asked(s) = "Pin" => /\ sess[s].h = NoHandler /\ PinAllowed(s)
                           /\ sess[s].online_at_init /\ cl[s].opts.remote => cfg.totp
    /\ Asked(s) = "SetupPin" => shown[s] \cap Full # {}
    /\ Asked(s) = "HelloTOTP" => shown[s] \cap Full # {} \/ ("pin" \in shown[s] /\ PinAllowed(s))
    /\ cl[s].pc = "sent" /\ cl[s].req.t = "SetupPin" => cl[s].req.pin \in Pins
    /\ cl[s].resp = "Success" =>
          LET full == shown[s] \cap {"mfa", "password", "sfa"}
          IN  /\ cl[s].opts.force_reauth => full # {}
              /\ full \cup (shown[s] \cap {"cached"}) = {} =>
                    /\ "pin" \in shown[s] /\ ~cl[s].opts.no_hello_pin
                    /\ cfg.totp \/ cl[s].opts.remote => shown[s] \cap {"totp", "offline"} # {}

\* How many steps a sign-in has taken without the person, by where it stands: the polls
\* behind it, and the few steps before the polling and after it.
Turns(s) == cfg.served =>
    /\ cl[s].pc = "sent" =>
          IF cl[s].req.t = "MFAPoll"
          THEN /\ cl[s].poll >= 0 /\ cl[s].req.attempt = cl[s].poll
               /\ alone[s] <= cl[s].poll + 2 /\ alone[s] <= MaxPoll + 3
          ELSE alone[s] = 0
    /\ cl[s].pc = "answered" =>
          /\ alone[s] <= MaxPoll + 5
          /\ cl[s].resp \in Prompts => alone[s] = 0
          /\ cl[s].resp = "MFAPoll" /\ cl[s].poll < 0 => alone[s] <= 2
          /\ cl[s].resp = "Denied" => alone[s] <= MaxPoll + 4 /\ (cl[s].poll < 0 => alone[s] <= 1)
          /\ cl[s].resp = "MFAPollWait" =>
                alone[s] <= 1 \/ (alone[s] <= cl[s].poll + 3 /\ cl[s].poll <= MaxPoll)

\* The wrong PINs against the stored key are among those that the provider counts, and the count
\* is within Retry as long as there is a key.
Counted == fetch_hello_key(p) # NoKey => wrong <= p.bad /\ wrong <= Retry

\* The inductive invariant.
IInv == TypeOK /\ Counted /\ \A s \in Sessions : SessionOpen(s) /\ Backed(s) /\ Turns(s)

----------------------------------------------------------------------------
\* The bound of the polling is a number.
LEMMA Poll3 == MaxPoll \in Nat
BY HelloAssumption

\* The requests that a client makes are ones, with the fields they are given.
LEMMA ReqTypes ==
    /\ \A t \in RequestTypes : Req(t) \in Request /\ Req(t).t = t /\ Req(t).attempt = 0
    /\ \A t \in RequestTypes, pin \in Pins \cup {NoKey} :
          PinReq(t, pin) \in Request /\ PinReq(t, pin).t = t /\ PinReq(t, pin).pin = pin
    /\ \A t \in RequestTypes, code \in BOOLEAN :
          [Req(t) EXCEPT !.code = code] \in Request /\ [Req(t) EXCEPT !.code = code].t = t
    /\ \A t \in RequestTypes, n \in 0..MaxPoll + 2 :
          /\ [Req(t) EXCEPT !.attempt = n] \in Request /\ [Req(t) EXCEPT !.attempt = n].t = t
          /\ [Req(t) EXCEPT !.attempt = n].attempt = n
<1>1. 0 \in 0..MaxPoll + 2
  BY Poll3, SMT
<1>2. ASSUME NEW t \in RequestTypes
      PROVE  Req(t) \in Request /\ Req(t).t = t /\ Req(t).attempt = 0
  BY <1>1 DEF Req, Request
<1>3. ASSUME NEW r \in Request
      PROVE  /\ \A pin \in Pins \cup {NoKey} : /\ [r EXCEPT !.pin = pin] \in Request
                                             /\ [r EXCEPT !.pin = pin].t = r.t /\ [r EXCEPT !.pin = pin].pin = pin
             /\ \A code \in BOOLEAN : [r EXCEPT !.code = code] \in Request /\ [r EXCEPT !.code = code].t = r.t
             /\ \A n \in 0..MaxPoll + 2 : /\ [r EXCEPT !.attempt = n] \in Request /\ [r EXCEPT !.attempt = n].t = r.t
                                        /\ [r EXCEPT !.attempt = n].attempt = n
  BY DEF Request
<1> QED BY <1>2, <1>3, SMT DEF PinReq

\* Send: a client that has sent its request.
LEMMA SendTypes ==
    ASSUME NEW c \in Client, NEW req \in Request
    PROVE  /\ Send(c, req) \in Client
           /\ Send(c, req).pc = "sent" /\ Send(c, req).req = req /\ Send(c, req).resp = "None"
           /\ Send(c, req).opts = c.opts /\ Send(c, req).poll = c.poll
BY DEF Send, Client, Responses

\* A client between sign-ins.
LEMMA IdleType == IdleClient \in Client /\ IdleClient.pc = "idle" /\ IdleClient.resp = "None" /\ IdleClient.poll = -1
<1>1. Req("Init") \in Request
  BY ReqTypes DEF RequestTypes
<1>2. NoLogin \in Login
  BY DEF NoLogin, Login
<1>3. -1 \in -1..MaxPoll + 2
  BY Poll3, SMT
<1> QED BY <1>1, <1>2, <1>3 DEF IdleClient, Client, Responses

\* Consume takes the password PAM had, and leaves the options that limit a sign-in.
LEMMA ConsumeTypes ==
    ASSUME NEW c \in Client
    PROVE  /\ Consume(c) \in Client /\ Consume(c).poll = c.poll
           /\ Consume(c).opts.force_reauth = c.opts.force_reauth
           /\ Consume(c).opts.no_hello_pin = c.opts.no_hello_pin
           /\ Consume(c).opts.remote = c.opts.remote
BY DEF Consume, Client, Login

\* Poll: a client that has sent its n-th poll.
LEMMA PollTypes ==
    ASSUME NEW c \in Client, NEW n \in 0..MaxPoll + 2
    PROVE  /\ Poll(c, n) \in Client
           /\ Poll(c, n).pc = "sent" /\ Poll(c, n).resp = "None" /\ Poll(c, n).opts = c.opts
           /\ Poll(c, n).poll = n /\ Poll(c, n).req.t = "MFAPoll" /\ Poll(c, n).req.attempt = n
<1> DEFINE d == [c EXCEPT !.poll = n]
           r == [Req("MFAPoll") EXCEPT !.attempt = n]
<1>1. d \in Client /\ d.opts = c.opts /\ d.poll = n
  BY Poll3, SMT DEF Client
<1>2. r \in Request /\ r.t = "MFAPoll" /\ r.attempt = n
  BY ReqTypes DEF RequestTypes
<1>3. Poll(c, n) = Send(d, r)
  BY DEF Poll
<1> HIDE DEF d, r
<1> QED BY <1>1, <1>2, <1>3, SendTypes, SMT

\* authenticate: a client at the start of a sign-in.
LEMMA StartTypes ==
    ASSUME NEW opts \in Login
    PROVE  /\ authenticate(opts) \in Client
           /\ authenticate(opts).opts = opts /\ authenticate(opts).poll = -1
<1> DEFINE d == [IdleClient EXCEPT !.opts = opts]
<1>1. d \in Client /\ d.opts = opts /\ d.poll = -1
  BY IdleType DEF Client
<1>2. Req("Init") \in Request
  BY ReqTypes DEF RequestTypes
<1>3. authenticate(opts) = Send(d, Req("Init"))
  BY DEF authenticate
<1> HIDE DEF d
<1> QED BY <1>1, <1>2, <1>3, SendTypes, SMT

----------------------------------------------------------------------------
\* What a client may do with a response: end; begin anew after Denied; answer the question it was
\* asked; begin to poll, or poll once more.
Handled(c, d) ==
    \/ d = IdleClient
    \/ /\ d \in Client /\ d.pc = "sent" /\ d.resp = "None"
       /\ d.opts.force_reauth = c.opts.force_reauth /\ d.opts.no_hello_pin = c.opts.no_hello_pin
       /\ d.opts.remote = c.opts.remote
       /\ \/ c.resp = "Denied" /\ d.req.t = "Init" /\ d.poll = c.poll
          \/ /\ c.resp \in Prompts /\ d.poll = c.poll /\ d.req.t \notin {"Init", "MFAPoll"}
             /\ d.req.t \in {"Pin", "HelloTOTP", "SetupPin"} => d.req.t = c.resp
             /\ d.req.t = "SetupPin" => d.req.pin \in Pins
          \/ c.resp = "MFAPoll" /\ c.poll < 0 /\ d.poll = 0 /\ d.req.t = "MFAPoll" /\ d.req.attempt = 0
          \/ /\ c.resp = "MFAPollWait" /\ d.req.t = "MFAPoll" /\ d.req.attempt = d.poll
             /\ d.poll = IF c.poll < MaxPoll + 2 THEN c.poll + 1 ELSE c.poll

\* An answer to the question that was asked.
LEMMA SendHandled ==
    ASSUME NEW c \in Client, NEW req \in Request, c.resp \in Prompts, req.t \notin {"Init", "MFAPoll"},
           req.t \in {"Pin", "HelloTOTP", "SetupPin"} => req.t = c.resp,
           req.t = "SetupPin" => req.pin \in Pins
    PROVE  Handled(c, Send(c, req)) /\ Handled(c, Send(Consume(c), req))
BY SendTypes, ConsumeTypes, SMT DEF Handled

\* handle_fido: an assertion, the fallback to a password, or the end.
LEMMA FidoHandled ==
    ASSUME NEW c \in Client, c.resp = "Fido", NEW d \in handle_fido(c)
    PROVE  Handled(c, d)
<1>1. \/ d = Send(c, Req("FidoUnavailable"))
      \/ d = Send(c, Req("Fido"))
      \/ d = IdleClient
  BY SMT DEF handle_fido, FidoNext, pam_fail
<1>2. \A t \in {"Fido", "FidoUnavailable"} : Req(t) \in Request /\ Req(t).t = t
  BY ReqTypes, SMT DEF RequestTypes
<1>3. \A t \in {"Fido", "FidoUnavailable"} : Handled(c, Send(c, Req(t)))
  BY <1>2, SendHandled DEF Prompts
<1> QED BY <1>1, <1>3 DEF Handled

\* pam_sm_authenticate's loop and pam_try_unseal keep to Handled for every response.
LEMMA ClientHandled ==
    ASSUME NEW c \in Client, c.resp # "None",
           NEW d \in IF c.opts.unseal THEN pam_try_unseal(c) ELSE authenticate_request_response(c)
    PROVE  Handled(c, d)
<1>1. Handled(c, IdleClient) /\ Handled(c, pam_fail(c))
  BY DEF Handled, pam_fail
<1>2. c.opts \in Login /\ c.opts.authtok \in Pins \cup {NoKey} /\ c.poll \in -1..MaxPoll + 2 /\ c.resp \in Responses
  BY DEF Client, Login
<1>3. \A pin \in Pins \cup {NoKey} : PinReq("Pin", pin) \in Request /\ PinReq("Pin", pin).t = "Pin"
  BY ReqTypes, SMT DEF RequestTypes
<1>4. c.resp = "Pin" => \A pin \in Pins \cup {NoKey} : /\ Handled(c, Send(c, PinReq("Pin", pin)))
                                                      /\ Handled(c, Send(Consume(c), PinReq("Pin", pin)))
  BY <1>3, SendHandled DEF Prompts
<1>5. CASE c.opts.unseal
  BY <1>1, <1>2, <1>4, <1>5 DEF pam_try_unseal
<1>6. CASE ~c.opts.unseal /\ c.resp = "Pin"
  BY <1>1, <1>2, <1>4, <1>6 DEF authenticate_request_response, handle_pin
<1>7. CASE ~c.opts.unseal /\ c.resp = "SetupPin"
  <2>1. ASSUME NEW pin \in Pins PROVE Handled(c, Send(c, PinReq("SetupPin", pin)))
    <3>1. PinReq("SetupPin", pin) \in Request /\ PinReq("SetupPin", pin).t = "SetupPin"
          /\ PinReq("SetupPin", pin).pin = pin
      BY ReqTypes, SMT DEF RequestTypes
    <3> QED BY <1>7, <3>1, SendHandled DEF Prompts
  <2> QED BY <1>1, <1>7, <2>1 DEF authenticate_request_response, handle_setup_pin
<1>8. CASE ~c.opts.unseal /\ c.resp = "HelloTOTP"
  <2>1. ASSUME NEW code \in BOOLEAN PROVE Handled(c, Send(c, [Req("HelloTOTP") EXCEPT !.code = code]))
    <3> DEFINE r == [Req("HelloTOTP") EXCEPT !.code = code]
    <3>1. r \in Request /\ r.t = "HelloTOTP"
      BY ReqTypes, SMT DEF RequestTypes
    <3> HIDE DEF r
    <3>2. Handled(c, Send(c, r))
      BY <1>8, <3>1, SendHandled DEF Prompts
    <3> QED BY <3>2 DEF r
  <2> QED BY <1>1, <1>8, <2>1 DEF authenticate_request_response, handle_hellototp
<1>9. CASE ~c.opts.unseal /\ c.resp \in {"Password", "MFACode", "ChangePassword"}
  <2>1. \A t \in {"Password", "MFACode"} : Req(t) \in Request /\ Req(t).t = t
    BY ReqTypes, SMT DEF RequestTypes
  <2>2. \A t \in {"Password", "MFACode"} : Handled(c, Send(c, Req(t))) /\ Handled(c, Send(Consume(c), Req(t)))
    BY <1>9, <2>1, SendHandled DEF Prompts
  <2> QED BY <1>1, <1>9, <2>2 DEF authenticate_request_response, handle_password, handle_mfacode,
             handle_change_password
<1>10. CASE ~c.opts.unseal /\ c.resp = "Fido"
  BY <1>10, FidoHandled DEF authenticate_request_response
<1>11. CASE ~c.opts.unseal /\ c.resp = "Denied"
  <2>1. Req("Init") \in Request /\ Req("Init").t = "Init"
    BY ReqTypes DEF RequestTypes
  <2>2. d = Send(c, Req("Init"))
    BY <1>11 DEF authenticate_request_response, handle_denied
  <2> QED BY <1>11, <2>1, <2>2, SendTypes DEF Handled
<1>12. CASE ~c.opts.unseal /\ c.resp = "MFAPoll"
  <2>1. d = IdleClient \/ (c.poll < 0 /\ d = Poll(c, 0))
    BY <1>2, <1>12, Poll3, SMT DEF authenticate_request_response, handle_mfapoll, pam_fail
  <2>2. 0 \in 0..MaxPoll + 2
    BY Poll3, SMT
  <2> QED BY <1>12, <2>1, <2>2, PollTypes, SMT DEF Handled
<1>13. CASE ~c.opts.unseal /\ c.resp = "MFAPollWait"
  <2> DEFINE n == IF c.poll < MaxPoll + 2 THEN c.poll + 1 ELSE c.poll
  <2>1. d = Poll(c, n)
    BY <1>13 DEF authenticate_request_response, handle_mfapollwait
  <2>2. n \in 0..MaxPoll + 2
    BY <1>2, Poll3, SMT
  <2> HIDE DEF n
  <2>3. /\ d \in Client /\ d.pc = "sent" /\ d.resp = "None" /\ d.opts = c.opts /\ d.poll = n
        /\ d.req.t = "MFAPoll" /\ d.req.attempt = n
    BY <2>1, <2>2, PollTypes, SMT
  <2> QED BY <1>13, <2>3 DEF Handled, n
<1>14. CASE ~c.opts.unseal /\ c.resp \in {"Success", "InitDenied", "Unknown", "Error"}
  BY <1>1, <1>14 DEF authenticate_request_response
<1>15. c.resp \in {"Pin", "SetupPin", "HelloTOTP", "Password", "MFACode", "ChangePassword", "Fido", "Denied",
                   "MFAPoll", "MFAPollWait", "Success", "InitDenied", "Unknown", "Error"}
  BY <1>2 DEF Responses
<1> QED BY <1>5, <1>6, <1>7, <1>8, <1>9, <1>10, <1>11, <1>12, <1>13, <1>14, <1>15

----------------------------------------------------------------------------
\* What the assumption on the configurations gives.
LEMMA ConfigTypes ==
    ASSUME cfg \in Configs
    PROVE  cfg.keys \in 1..MaxKeys /\ cfg.logins \subseteq Login
BY SignInAssumption

\* A step of either provider, online or offline: StepOutcome, or the cached password, which the
\* resolver does not reach with force_reauth. Offline, a PIN without a code is recorded as such.
LEMMA StepContract ==
    ASSUME TypeOK, NEW opts \in Login, NEW h \in Handler, NEW req \in Request, NEW online \in BOOLEAN,
           req.t = "SetupPin" => req.pin \in Pins,
           req.t = "Pin" => h = NoHandler /\ ~opts.force_reauth,
           NEW o \in IF online THEN online_step(opts, h, req) ELSE offline_step(opts, h, req)
    PROVE  \/ /\ StepOutcome(p, req, o)
              /\ ~online /\ req.t = "Pin" /\ o.r = "Success" => "offline" \in o.shown
           \/ o = Out(p, h, "Success", {"cached"}) /\ ~opts.force_reauth /\ req.t = "Password"
<1>1. p \in Provider /\ cfg.keys \in 1..MaxKeys
  BY ConfigTypes DEF TypeOK
<1>2. req.pin \in Pins \cup {NoKey} /\ req.attempt \in Nat
  BY Poll3, SMT DEF Request
<1>3. CASE online
  <2>1. o \in online_step(opts, h, req)
    BY <1>3
  <2>2. CASE cfg.entra
    <3>1. StepOutcome(p, req, o)
      BY <1>1, <1>2, <2>1, <2>2, EntraStep DEF online_step
    <3> QED BY <1>3, <3>1
  <2>3. CASE ~cfg.entra
    <3>1. StepOutcome(p, req, o)
      BY <1>1, <1>2, <2>1, <2>3, OidcStep DEF online_step
    <3> QED BY <1>3, <3>1
  <2> QED BY <2>2, <2>3
<1>4. CASE ~online
  <2>1. o \in offline_step(opts, h, req)
    BY <1>4
  <2>2. Directory(p, Denied(p, h), Refusal) /\ Directory(p, Fail(p, h), Refusal)
    BY <1>1, Refused
  <2>3. CASE req.t = "Pin"
    <3>1. o = impl_himmelblau_offline_auth_step(p, h, req)
      BY <2>1, <2>3, SMT DEF offline_step, NoHandler
    <3>2. o = OfflinePin(p, h, req.pin)
      BY <2>3, <3>1 DEF impl_himmelblau_offline_auth_step
    <3>3. CASE fetch_hello_key(p) = NoKey
      <4>1. o = Fail(p, h)
        BY <3>2, <3>3 DEF OfflinePin
      <4>2. o.r = "Error"
        BY <4>1 DEF Fail, Out
      <4> QED BY <1>1, <2>2, <3>3, <4>1, <4>2, MfaStep
    <3>4. CASE fetch_hello_key(p) # NoKey
      BY <1>1, <2>3, <3>2, <3>4, OfflineHello, PinOutcome
    <3> QED BY <3>3, <3>4
  <2>4. CASE req.t = "Password"
    <3>1. o = Denied(p, h) \/ o = Fail(p, h) \/ (o = Out(p, h, "Success", {"cached"}) /\ ~opts.force_reauth)
      BY <2>1, <2>4 DEF offline_step
    <3> QED BY <1>1, <2>2, <2>4, <3>1, MfaStep
  <2>5. CASE req.t = "HelloTOTP"
    <3>1. \/ o = Denied(p, h) \/ o = Fail(p, h)
          \/ o = impl_handle_hello_pin_totp_auth(p, h, req.code)
          \/ o = CodeUnused(p, h, req.code)
      BY <2>1, <2>5 DEF offline_step, impl_himmelblau_offline_auth_step
    <3>2. CASE o = Denied(p, h) \/ o = Fail(p, h)
      BY <1>1, <2>2, <2>5, <3>2, MfaStep
    <3>3. CASE o = impl_handle_hello_pin_totp_auth(p, h, req.code) \/ o = CodeUnused(p, h, req.code)
      <4>1. TotpStep(p, o)
        BY <1>1, <3>3, Totp, UnusedTotp
      <4> QED BY <1>1, <2>5, <4>1, TotpOutcome
    <3> QED BY <3>1, <3>2, <3>3
  <2>6. CASE req.t \notin {"Pin", "Password", "HelloTOTP"}
    <3>1. o = Denied(p, h) \/ o = Fail(p, h)
      BY <2>1, <2>6 DEF offline_step
    <3> QED BY <1>1, <2>2, <2>6, <3>1, MfaStep
  <2> QED BY <2>3, <2>4, <2>5, <2>6
<1> QED BY <1>3, <1>4

\* pam_account_authenticate_init responds with the start of a sign-in by either provider, or with
\* NotFound and no session where none serves the domain.
LEMMA InitContract ==
    ASSUME TypeOK, NEW s \in Sessions, NEW c \in Client, pam_account_authenticate_init(s, c)
    PROVE  \E q, o : /\ Kept(p, q) /\ q.online \in BOOLEAN
                     /\ \/ /\ InitOutcome(q, c.opts, o)
                           /\ Respond(s, c, o, [open |-> TRUE, online_at_init |-> q.online, h |-> o.h])
                        \/ /\ o = Out(q, NoHandler, "NotFound", {}) /\ ~cfg.served
                           /\ Respond(s, c, o, NoSession)
<1> DEFINE session(q, o) == IF o.r = "NotFound" THEN NoSession
                            ELSE [open |-> TRUE, online_at_init |-> q.online, h |-> o.h]
<1>1. PICK q \in check_online :
         \E o \in IF q.online THEN online_auth_init(q, c.opts)
                  ELSE IF c.opts.force_reauth THEN {Out(q, NoHandler, "InitDenied", {})}
                  ELSE offline_auth_init(q, c.opts) : Respond(s, c, o, session(q, o))
  BY DEF pam_account_authenticate_init
<1>2. p \in Provider
  BY DEF TypeOK
<1>3. Kept(p, q)
  <2>1. q = p \/ q \in attempt_online(p) \/ q \in oidc_attempt_online(p)
    BY DEF check_online
  <2> QED BY <1>2, <2>1, AttemptOnline, KeptTrans, SMT
<1>4. q \in Provider /\ q.online \in BOOLEAN
  BY <1>3, SameFewer DEF Provider
<1>5. PICK o \in IF q.online THEN online_auth_init(q, c.opts)
                  ELSE IF c.opts.force_reauth THEN {Out(q, NoHandler, "InitDenied", {})}
                  ELSE offline_auth_init(q, c.opts) : Respond(s, c, o, session(q, o))
  BY <1>1
<1>6. InitOutcome(q, c.opts, o) \/ (o = Out(q, NoHandler, "NotFound", {}) /\ ~cfg.served)
  <2>1. CASE q.online
    <3>1. \/ o \in entra_online_auth_init(q, c.opts) \/ o \in oidc_online_auth_init(q, c.opts)
          \/ o = Out(q, NoHandler, "NotFound", {}) /\ ~cfg.served
      BY <1>5, <2>1 DEF online_auth_init, NotFound
    <3> QED BY <1>4, <3>1, EntraInit, OidcInit
  <2>2. CASE ~q.online /\ c.opts.force_reauth
    <3>1. o = Out(q, NoHandler, "InitDenied", {}) /\ Kept(q, q) /\ NoHandler \in Handler
      BY <1>4, <1>5, <2>2, KeptTrans, HandlerTypes
    <3> QED BY <3>1, OutInit
  <2>3. CASE ~q.online /\ ~c.opts.force_reauth
    <3>1. \/ o = impl_himmelblau_offline_auth_init(q, c.opts.no_hello_pin)
          \/ o = Out(q, NoHandler, "NotFound", {}) /\ ~cfg.served
      BY <1>5, <2>3 DEF offline_auth_init, NotFound
    <3> QED BY <1>4, <2>3, <3>1, OfflineInit
  <2> QED BY <2>1, <2>2, <2>3
<1>7. CASE InitOutcome(q, c.opts, o)
  <2>1. o.r # "NotFound"
    BY <1>7 DEF InitOutcome
  <2> QED BY <1>3, <1>4, <1>5, <1>7, <2>1
<1>8. CASE o = Out(q, NoHandler, "NotFound", {}) /\ ~cfg.served
  <2>1. o.r = "NotFound"
    BY <1>8 DEF Out
  <2> QED BY <1>3, <1>4, <1>5, <1>8, <2>1
<1> QED BY <1>6, <1>7, <1>8

----------------------------------------------------------------------------
\* The results that close the session.
Ends == {"Success", "Denied", "Error", "InitDenied"}
\* The response of a result: the client sees an unknown account as Denied.
Shown(r) == IF r = "NotFound" THEN "Denied" ELSE r

\* What a response makes of the number of steps without the person.
Longer(r, n) == IF r \in Prompts THEN 0 ELSE IF n > MaxPoll + 5 THEN n ELSE n + 1

\* A client that has its response.
LEMMA AnswerTypes ==
    ASSUME NEW c \in Client, NEW r \in Responses
    PROVE  LET d == [c EXCEPT !.pc = "answered", !.req = Req("Init"), !.online = FALSE, !.resp = r]
           IN  d \in Client /\ d.pc = "answered" /\ d.resp = r /\ d.opts = c.opts /\ d.poll = c.poll
<1>1. Req("Init") \in Request
  BY ReqTypes DEF RequestTypes
<1> DEFINE q == Req("Init")
<1> HIDE DEF q
<1>2. q \in Request
  BY <1>1 DEF q
<1>3. LET d == [c EXCEPT !.pc = "answered", !.req = q, !.online = FALSE, !.resp = r]
      IN  d \in Client /\ d.pc = "answered" /\ d.resp = r /\ d.opts = c.opts /\ d.poll = c.poll
  BY <1>2 DEF Client
<1> QED BY <1>3 DEF q

\* What the response of a step or a start leaves behind, for this client and the others.
LEMMA Responded ==
    ASSUME TypeOK, NEW s \in Sessions, NEW c \in Client, NEW o, NEW session \in Session,
           o.p \in Provider, Shown(o.r) \in Responses, Respond(s, c, o, session)
    PROVE  /\ p' = o.p
           /\ cl' \in [Sessions -> Client] /\ sess' \in [Sessions -> Session] /\ alone' \in [Sessions -> Nat]
           /\ cl'[s].pc = "answered" /\ cl'[s].resp = Shown(o.r)
           /\ cl'[s].opts = c.opts /\ cl'[s].poll = c.poll
           /\ sess'[s] = IF o.r \in Ends THEN NoSession ELSE session
           /\ alone'[s] = Longer(o.r, alone[s])
           /\ \A t \in Sessions \ {s} : cl'[t] = cl[t] /\ sess'[t] = sess[t] /\ alone'[t] = alone[t]
<1> DEFINE d == [c EXCEPT !.pc = "answered", !.req = Req("Init"), !.online = FALSE,
                          !.resp = IF o.r = "NotFound" THEN "Denied" ELSE o.r]
           x == IF o.r \in Ends THEN NoSession ELSE session
           n == Longer(o.r, alone[s])
<1>1. d \in Client /\ d.pc = "answered" /\ d.resp = Shown(o.r) /\ d.opts = c.opts /\ d.poll = c.poll
  BY AnswerTypes DEF Shown
<1>2. x \in Session
  BY HandlerTypes DEF NoSession, Session
<1>3. n \in Nat
  BY SMT DEF TypeOK, Longer
<1>4. cl' = [cl EXCEPT ![s] = d] /\ sess' = [sess EXCEPT ![s] = x] /\ alone' = [alone EXCEPT ![s] = n] /\ p' = o.p
  BY DEF Respond, Ends, Longer
<1> HIDE DEF d, x, n
<1>5. /\ cl \in [Sessions -> Client] /\ sess \in [Sessions -> Session] /\ alone \in [Sessions -> Nat]
  BY DEF TypeOK
<1>6. cl'[s] = d /\ sess'[s] = x /\ alone'[s] = n
  BY <1>4, <1>5
<1>7. cl' \in [Sessions -> Client] /\ sess' \in [Sessions -> Session] /\ alone' \in [Sessions -> Nat]
  BY <1>1, <1>2, <1>3, <1>4, <1>5
<1>8. \A t \in Sessions \ {s} : cl'[t] = cl[t] /\ sess'[t] = sess[t] /\ alone'[t] = alone[t]
  BY <1>4, <1>5
<1> QED BY <1>1, <1>4, <1>6, <1>7, <1>8 DEF x, n

\* The invariant of one sign-in.
Sound(s) == SessionOpen(s) /\ Backed(s) /\ Turns(s)

\* A sign-in whose state did not change stays sound: what another session does to the shared
\* provider cannot disturb it.
LEMMA OthersKept ==
    ASSUME NEW t, Sound(t), cfg' = cfg, cl'[t] = cl[t], sess'[t] = sess[t], shown'[t] = shown[t],
           alone'[t] = alone[t]
    PROVE  Sound(t)'
<1>1. SessionOpen(t)'
  BY SMT DEF Sound, SessionOpen
<1>2. Backed(t)'
  BY DEF Sound, Backed, Asked, PinAllowed
<1>3. Turns(t)'
  BY DEF Sound, Turns
<1> QED BY <1>1, <1>2, <1>3 DEF Sound

\* A closed connection is sound.
LEMMA ClosedSound ==
    ASSUME NEW s, cl'[s] = IdleClient, sess'[s] = NoSession, shown'[s] = {}, alone'[s] = 0
    PROVE  Sound(s)'
BY IdleType DEF Sound, SessionOpen, Backed, Turns, Asked

----------------------------------------------------------------------------
\* pam_account_authenticate_init keeps the invariant.
LEMMA InitCase ==
    ASSUME IInv, NEW s \in Sessions, NEW c \in Client, pam_account_authenticate_init(s, c),
           cfg.served => alone[s] <= MaxPoll + 4 /\ (c.poll < 0 => alone[s] <= 1)
    PROVE  IInv'
<1>1. PICK q, o : /\ Kept(p, q) /\ q.online \in BOOLEAN
                  /\ \/ /\ InitOutcome(q, c.opts, o)
                        /\ Respond(s, c, o, [open |-> TRUE, online_at_init |-> q.online, h |-> o.h])
                     \/ /\ o = Out(q, NoHandler, "NotFound", {}) /\ ~cfg.served
                        /\ Respond(s, c, o, NoSession)
  BY InitContract DEF IInv
<1> DEFINE found == InitOutcome(q, c.opts, o)
           open == [open |-> TRUE, online_at_init |-> q.online, h |-> o.h]
<1>2. PICK session \in Session :
         /\ Respond(s, c, o, session)
         /\ found => session.open /\ session.h = o.h /\ session.online_at_init = q.online
         /\ ~found => session = NoSession
  <2>1. CASE found /\ Respond(s, c, o, open)
    <3>1. open \in Session /\ open.open /\ open.h = o.h /\ open.online_at_init = q.online
      BY <1>1, <2>1 DEF InitOutcome, Session
    <3> QED BY <2>1, <3>1
  <2>2. CASE o = Out(q, NoHandler, "NotFound", {}) /\ Respond(s, c, o, NoSession)
    <3>1. o.r = "NotFound"
      BY <2>2 DEF Out
    <3>2. ~found
      BY <3>1 DEF InitOutcome
    <3>3. NoSession \in Session
      BY HandlerTypes DEF NoSession, Session
    <3> QED BY <2>2, <3>2, <3>3
  <2> QED BY <1>1, <2>1, <2>2
<1>3. /\ Kept(p, o.p) /\ o.p \in Provider /\ Shown(o.r) \in Responses
      /\ found => Shown(o.r) = o.r
      /\ ~found => o.r = "NotFound" /\ Shown(o.r) = "Denied" /\ ~cfg.served
  <2>1. CASE found
    BY <1>1, <2>1, SameFewer, KeptTrans, SMT DEF InitOutcome, Shown, Responses
  <2>2. CASE ~found
    <3>1. o = Out(q, NoHandler, "NotFound", {}) /\ ~cfg.served
      BY <1>1, <2>2
    <3>2. o.p = q /\ o.r = "NotFound"
      BY <3>1, SMT DEF Out
    <3> QED BY <1>1, <2>2, <3>1, <3>2, SameFewer DEF Shown, Responses
  <2> QED BY <2>1, <2>2
<1>4. /\ p' = o.p
      /\ cl' \in [Sessions -> Client] /\ sess' \in [Sessions -> Session] /\ alone' \in [Sessions -> Nat]
      /\ cl'[s].pc = "answered" /\ cl'[s].resp = Shown(o.r)
      /\ cl'[s].opts = c.opts /\ cl'[s].poll = c.poll
      /\ sess'[s] = IF o.r \in Ends THEN NoSession ELSE session
      /\ alone'[s] = Longer(o.r, alone[s])
      /\ \A t \in Sessions \ {s} : cl'[t] = cl[t] /\ sess'[t] = sess[t] /\ alone'[t] = alone[t]
  BY <1>2, <1>3, Responded DEF IInv
<1>5. /\ cfg' = cfg /\ wrong' = wrong /\ shown' \in [Sessions -> SUBSET Proofs]
      /\ shown'[s] = {} /\ \A t \in Sessions \ {s} : shown'[t] = shown[t]
  BY DEF pam_account_authenticate_init, IInv, TypeOK
<1>6. TypeOK'
  BY <1>3, <1>4, <1>5 DEF TypeOK, IInv
<1>7. Counted'
  BY <1>3, <1>4, <1>5 DEF Counted, IInv, Kept, SameKeys, fetch_hello_key
<1>8. SessionOpen(s)'
  BY <1>2, <1>3, <1>4 DEF SessionOpen, InitOutcome, Prompts, Ends
<1>9. Backed(s)'
  BY <1>1, <1>2, <1>3, <1>4, <1>5 DEF Backed, Asked, PinAllowed, InitOutcome, Ends
<1>10. Turns(s)'
  <2>1. alone[s] \in Nat /\ MaxPoll \in Nat
    BY Poll3 DEF IInv, TypeOK
  <2>2. cfg.served => Shown(o.r) = o.r /\ o.r \notin {"Denied", "MFAPollWait"}
    BY <1>3 DEF InitOutcome
  <2> QED BY <1>4, <1>5, <2>1, <2>2, SMT DEF Turns, Longer
<1>11. \A t \in Sessions \ {s} : Sound(t)'
  BY <1>4, <1>5, OthersKept DEF IInv, Sound
<1> QED BY <1>6, <1>7, <1>8, <1>9, <1>10, <1>11 DEF IInv, Sound

\* The start of a sign-in leaves the Hello keys alone.
LEMMA InitKept ==
    ASSUME TypeOK, NEW s \in Sessions, NEW c \in Client, pam_account_authenticate_init(s, c)
    PROVE  fetch_hello_key(p') = fetch_hello_key(p)
<1>1. PICK q, o : /\ Kept(p, q)
                  /\ InitOutcome(q, c.opts, o) \/ o = Out(q, NoHandler, "NotFound", {})
                  /\ p' = o.p
  <2>1. PICK q, o : /\ Kept(p, q)
                    /\ \/ /\ InitOutcome(q, c.opts, o)
                          /\ Respond(s, c, o, [open |-> TRUE, online_at_init |-> q.online, h |-> o.h])
                       \/ o = Out(q, NoHandler, "NotFound", {}) /\ Respond(s, c, o, NoSession)
    BY InitContract
  <2>2. p' = o.p
    BY <2>1 DEF Respond
  <2> QED BY <2>1, <2>2
<1>2. o = Out(q, NoHandler, "NotFound", {}) => o.p = q
  BY SMT DEF Out
<1>3. Kept(q, o.p) \/ o.p = q
  BY <1>1, <1>2 DEF InitOutcome
<1> QED BY <1>1, <1>3, KeptTrans DEF Kept, SameKeys, fetch_hello_key

\* pam_account_authenticate_step keeps the invariant, and with Entra ID a Hello key unless there
\* were too many failures.
LEMMA StepCase ==
    ASSUME IInv, NEW s \in Sessions, pam_account_authenticate_step(s)
    PROVE  IInv' /\ (cfg.entra /\ fetch_hello_key(p) # NoKey => fetch_hello_key(p') # NoKey \/ p'.bad > Retry)
<1> DEFINE c == cl[s]
           h == sess[s].h
           req == cl[s].req
<1>1. /\ c \in Client /\ sess[s] \in Session /\ h \in Handler /\ c.opts \in Login
      /\ req \in Request /\ c.online \in BOOLEAN
      /\ shown[s] \in SUBSET Proofs /\ alone[s] \in Nat /\ wrong \in Nat /\ p \in Provider
  BY DEF IInv, TypeOK, Client, Session
<1>2. c.pc = "sent" /\ sess[s].open /\ req.t # "Init" /\ Backed(s) /\ Turns(s) /\ Asked(s) = req.t
      /\ SessionOpen(s)
  BY DEF pam_account_authenticate_step, IInv, SessionOpen, Asked
<1>3. PICK o \in IF c.online THEN online_step(c.opts, h, req) ELSE offline_step(c.opts, h, req) :
        /\ Respond(s, c, o, [sess[s] EXCEPT !.h = o.h])
        /\ shown' = [shown EXCEPT ![s] = IF o.r \in {"Denied", "NotFound"} THEN o.shown \cap {"outage"}
                                           ELSE @ \cup o.shown]
        /\ wrong' = Guess(req, o)
        /\ cfg' = cfg
  BY <1>2 DEF pam_account_authenticate_step
<1> DEFINE cached == o = Out(p, h, "Success", {"cached"}) /\ ~c.opts.force_reauth /\ req.t = "Password"
<1>4. \/ /\ StepOutcome(p, req, o)
         /\ ~c.online /\ req.t = "Pin" /\ o.r = "Success" => "offline" \in o.shown
      \/ cached
  <2>1. req.t = "SetupPin" => req.pin \in Pins
    BY <1>2 DEF Backed
  <2>2. req.t = "Pin" => h = NoHandler /\ ~c.opts.force_reauth
    BY <1>2 DEF Backed, PinAllowed
  <2> HIDE DEF c, h, req
  <2> QED BY <1>1, <1>3, <2>1, <2>2, StepContract DEF IInv
<1>5. o.p \in Provider /\ o.h \in Handler /\ o.r \in StepResult /\ o.shown \subseteq Tags
  BY <1>1, <1>4, SMT DEF StepOutcome, Out, StepResult, PasswordResult, MfaResult, Tags
<1>6. /\ Shown(o.r) \in Responses /\ Shown(o.r) \notin {"None", "Pin"}
      /\ o.r \in Prompts \cup {"MFAPoll", "MFAPollWait"} => Shown(o.r) = o.r /\ o.r \notin Ends
      /\ o.r \notin Prompts \cup {"MFAPoll", "MFAPollWait"} => Shown(o.r) \in {"Success", "Denied", "Error"}
      /\ Shown(o.r) = "Success" => o.r = "Success"
  BY <1>5 DEF Shown, Responses, StepResult, PasswordResult, MfaResult, Refusal, Prompts, Ends
<1> DEFINE session == [sess[s] EXCEPT !.h = o.h]
<1>7. session \in Session /\ session.open
  BY <1>1, <1>2, <1>5 DEF Session
<1> HIDE DEF session
<1>8. /\ p' = o.p
      /\ cl' \in [Sessions -> Client] /\ sess' \in [Sessions -> Session] /\ alone' \in [Sessions -> Nat]
      /\ cl'[s].pc = "answered" /\ cl'[s].resp = Shown(o.r)
      /\ cl'[s].opts = c.opts /\ cl'[s].poll = c.poll
      /\ sess'[s] = IF o.r \in Ends THEN NoSession ELSE session
      /\ alone'[s] = Longer(o.r, alone[s])
      /\ \A t \in Sessions \ {s} : cl'[t] = cl[t] /\ sess'[t] = sess[t] /\ alone'[t] = alone[t]
  <2>1. Respond(s, c, o, session)
    BY <1>3 DEF session
  <2> HIDE DEF c
  <2> QED BY <1>1, <1>5, <1>6, <1>7, <2>1, Responded DEF IInv
<1> DEFINE v == IF o.r \in {"Denied", "NotFound"} THEN o.shown \cap {"outage"} ELSE shown[s] \cup o.shown
<1>9. v \in SUBSET Tags /\ v \in SUBSET Proofs
  BY <1>2, <1>5 DEF Backed, Tags, Proofs
<1>10. /\ shown' \in [Sessions -> SUBSET Proofs] /\ shown'[s] = v
       /\ \A t \in Sessions \ {s} : shown'[t] = shown[t]
  BY <1>3, <1>9 DEF IInv, TypeOK
<1>11. wrong' \in Nat
  BY <1>1, <1>3, SMT DEF Guess
<1>12. TypeOK'
  BY <1>3, <1>5, <1>8, <1>10, <1>11 DEF TypeOK, IInv
<1>13. Counted'
  <2>1. p.bad \in Nat /\ o.p.bad \in Nat /\ Retry \in Nat
    BY <1>1, <1>5, HelloAssumption DEF Provider
  <2>2. CASE o.p.made # p.made \/ o.r = "Success" \/ (req.t = "Pin" /\ ms_hello_key_load(fetch_hello_key(p), req.pin))
    <3>1. wrong' = 0
      BY <1>3, <2>2 DEF Guess
    <3> QED BY <1>8, <2>1, <3>1, SMT DEF Counted
  <2>3. CASE ~(o.p.made # p.made \/ o.r = "Success" \/ (req.t = "Pin" /\ ms_hello_key_load(fetch_hello_key(p), req.pin)))
    <3>1. ~cached
      BY <2>3, SMT DEF Out
    <3> HIDE DEF req
    <3>2. SUFFICES ASSUME fetch_hello_key(o.p) # NoKey PROVE wrong' <= o.p.bad /\ wrong' <= Retry
      BY <1>8 DEF Counted
    <3>3. fetch_hello_key(p) # NoKey /\ o.p.bad >= p.bad
      BY <1>4, <2>3, <3>1, <3>2 DEF StepOutcome
    <3>4. wrong <= p.bad /\ wrong <= Retry
      BY <3>3 DEF IInv, Counted
    <3>5. CASE req.t = "Pin" /\ "unchecked" \notin o.shown
      <4>1. wrong' = wrong + 1
        BY <1>3, <2>3, <3>3, <3>5 DEF Guess
      <4>2. o.p.bad = p.bad + 1 /\ o.p.bad <= Retry
        BY <1>4, <2>3, <3>1, <3>2, <3>3, <3>5 DEF StepOutcome
      <4> QED BY <1>1, <2>1, <3>4, <4>1, <4>2, SMT
    <3>6. CASE ~(req.t = "Pin" /\ "unchecked" \notin o.shown)
      <4>1. wrong' = wrong
        BY <1>3, <2>3, <3>6 DEF Guess
      <4> QED BY <1>1, <2>1, <3>3, <3>4, <4>1, SMT
    <3> QED BY <3>5, <3>6
  <2> QED BY <2>2, <2>3
<1>14. SessionOpen(s)'
  BY <1>6, <1>7, <1>8 DEF SessionOpen, Ends, Prompts
<1>15. Backed(s)'
  <2>1. Asked(s)' = Shown(o.r) /\ Asked(s)' # "Pin"
    BY <1>6, <1>8 DEF Asked
  <2>2. o.r \notin {"Denied", "NotFound"} => v = shown[s] \cup o.shown
    OBVIOUS
  <2>3. cached => "cached" \in o.shown /\ o.r = "Success"
    BY SMT DEF Out
  <2>7. cached => req.t = "Password"
    OBVIOUS
  <2> HIDE DEF v, c, req, h
  <2>4. Shown(o.r) = "SetupPin" => v \cap Full # {}
    <3>1. SUFFICES ASSUME o.r = "SetupPin" PROVE v \cap Full # {}
      BY DEF Shown
    <3>2. o.shown \cap Full # {} \/ req.t = "SetupPin"
      BY <1>4, <2>3, <3>1 DEF StepOutcome
    <3> QED BY <1>2, <2>2, <3>1, <3>2 DEF Backed
  <2>5. Shown(o.r) = "HelloTOTP" => v \cap Full # {} \/ ("pin" \in v /\ PinAllowed(s)')
    <3>1. SUFFICES ASSUME o.r = "HelloTOTP" PROVE v \cap Full # {} \/ ("pin" \in v /\ PinAllowed(s)')
      BY DEF Shown
    <3>2. req.t \in {"Pin", "SetupPin"} /\ "pin" \in o.shown
      BY <1>4, <2>3, <3>1 DEF StepOutcome
    <3> QED BY <1>2, <1>8, <2>2, <3>1, <3>2 DEF Backed, PinAllowed, c
  <2>6. ASSUME Shown(o.r) = "Success"
        PROVE  LET full == v \cap {"mfa", "password", "sfa"}
               IN  /\ c.opts.force_reauth => full # {}
                   /\ full \cup (v \cap {"cached"}) = {} =>
                         /\ "pin" \in v /\ ~c.opts.no_hello_pin
                         /\ cfg.totp \/ c.opts.remote => v \cap {"totp", "offline"} # {}
    <3>1. o.r = "Success" /\ v = shown[s] \cup o.shown
      BY <1>6, <2>2, <2>6
    <3>2. CASE cached
      BY <2>3, <3>1, <3>2
    <3>3. CASE o.shown \cap Full # {}
      BY <3>1, <3>3 DEF Full
    <3>4. CASE req.t = "Pin" /\ "pin" \in o.shown /\ (cfg.totp => "offline" \in o.shown)
      <4>1. ~cached
        BY <2>7, <3>4
      <4>2. c.online /\ c.opts.remote => cfg.totp
        BY <1>2, <3>4 DEF Backed, SessionOpen, c
      <4>3. ~c.online => "offline" \in o.shown
        BY <1>4, <3>1, <3>4, <4>1
      <4> QED BY <1>2, <3>1, <3>4, <4>2, <4>3 DEF Backed, PinAllowed, c
    <3>5. CASE req.t = "SetupPin"
      BY <1>2, <3>1, <3>5 DEF Backed, Full
    <3>6. CASE req.t = "HelloTOTP" /\ "totp" \in o.shown
      BY <1>2, <3>1, <3>6 DEF Backed, PinAllowed, Full, c
    <3> QED BY <1>4, <3>1, <3>2, <3>3, <3>4, <3>5, <3>6 DEF StepOutcome
  <2> QED BY <1>3, <1>8, <1>9, <1>10, <2>1, <2>4, <2>5, <2>6 DEF Backed
<1>16. Turns(s)'
  <2>1. MaxPoll \in Nat /\ c.poll \in Int /\ req.attempt \in Nat
    BY <1>1, Poll3, SMT DEF Client, Request
  <2>2. cached => o.r = "Success"
    BY SMT DEF Out
  <2>3. Shown(o.r) \in Prompts => o.r \in Prompts
    BY DEF Shown, Prompts
  <2> HIDE DEF v, h
  <2> SUFFICES ASSUME cfg.served, cfg'.served PROVE Turns(s)'
    BY <1>3 DEF Turns
  <2>4. CASE req.t = "MFAPoll"
    <3>1. c.poll >= 0 /\ req.attempt = c.poll /\ alone[s] <= c.poll + 2 /\ alone[s] <= MaxPoll + 3
      BY <1>2, <2>4 DEF Turns
    <3>2. Shown(o.r) # "MFAPoll" /\ (Shown(o.r) = "MFAPollWait" => c.poll <= MaxPoll)
      BY <1>4, <2>2, <2>4, <3>1 DEF StepOutcome, Shown
    <3> HIDE DEF c, req
    <3> QED BY <1>1, <1>8, <2>1, <2>3, <3>1, <3>2, SMT DEF Turns, Longer
  <2>5. CASE req.t # "MFAPoll"
    <3>1. alone[s] = 0
      BY <1>2, <2>5 DEF Turns
    <3> HIDE DEF c, req
    <3> QED BY <1>8, <2>1, <2>3, <3>1, SMT DEF Turns, Longer
  <2> QED BY <2>4, <2>5
<1>17. \A t \in Sessions \ {s} : Sound(t)'
  BY <1>3, <1>8, <1>10, OthersKept DEF IInv, Sound
<1>18. cfg.entra /\ fetch_hello_key(p) # NoKey => fetch_hello_key(p') # NoKey \/ p'.bad > Retry
  <2>1. cached => o.p = p
    BY SMT DEF Out
  <2> QED BY <1>4, <1>8, <2>1 DEF StepOutcome
<1> QED BY <1>12, <1>13, <1>14, <1>15, <1>16, <1>17, <1>18 DEF IInv, Sound

\* A new connection keeps the invariant and the Hello keys.
LEMMA ConnectCase ==
    ASSUME IInv, NEW s \in Sessions, Connect(s)
    PROVE  IInv' /\ fetch_hello_key(p') = fetch_hello_key(p)
<1>1. PICK opts \in cfg.logins : pam_account_authenticate_init(s, authenticate(opts))
  BY DEF Connect
<1>2. opts \in Login
  BY ConfigTypes DEF IInv, TypeOK
<1>3. alone[s] = 0 /\ MaxPoll \in Nat
  BY Poll3 DEF Connect, IInv, SessionOpen
<1>4. authenticate(opts) \in Client
  BY <1>2, StartTypes
<1> QED BY <1>1, <1>3, <1>4, InitCase, InitKept, SMT DEF IInv

\* A client that handles its response keeps the invariant and the Hello keys.
LEMMA HandleCase ==
    ASSUME IInv, NEW s \in Sessions, HandleResponse(s)
    PROVE  IInv' /\ fetch_hello_key(p') = fetch_hello_key(p)
<1>1. /\ cl[s] \in Client /\ cl[s].pc = "answered" /\ cl[s].resp # "None" /\ alone[s] \in Nat
      /\ sess[s] \in Session /\ p \in Provider /\ cl[s].poll \in -1..MaxPoll + 2 /\ MaxPoll \in Nat
  BY Poll3 DEF IInv, TypeOK, HandleResponse, SessionOpen, Client
<1>2. PICK c \in IF cl[s].opts.unseal THEN pam_try_unseal(cl[s]) ELSE authenticate_request_response(cl[s]) :
         \/ c.pc = "idle" /\ Close(s)
         \/ c.pc = "sent" /\ c.req.t = "Init" /\ pam_account_authenticate_init(s, c)
         \/ c.pc = "sent" /\ c.req.t # "Init" /\ StepArrives(s, c)
  BY DEF HandleResponse
<1>3. Handled(cl[s], c)
  BY <1>1, <1>2, ClientHandled
<1>4. SessionOpen(s) /\ Backed(s) /\ Turns(s)
  BY DEF IInv
<1>5. CASE c.pc = "idle" /\ Close(s)
  <2>1. /\ cl' \in [Sessions -> Client] /\ sess' \in [Sessions -> Session]
        /\ shown' \in [Sessions -> SUBSET Proofs] /\ alone' \in [Sessions -> Nat]
    BY <1>5, IdleType, HandlerTypes DEF Close, IInv, TypeOK, NoSession, Session
  <2>2. cl'[s] = IdleClient /\ sess'[s] = NoSession /\ shown'[s] = {} /\ alone'[s] = 0
    BY <1>5 DEF Close, IInv, TypeOK
  <2>3. /\ \A t \in Sessions \ {s} : cl'[t] = cl[t] /\ sess'[t] = sess[t] /\ shown'[t] = shown[t] /\ alone'[t] = alone[t]
        /\ cfg' = cfg /\ p' = p /\ wrong' = wrong
    BY <1>5 DEF Close, IInv, TypeOK
  <2>4. TypeOK' /\ Counted'
    BY <2>1, <2>3 DEF IInv, TypeOK, Counted
  <2>5. Sound(s)'
    BY <2>2, ClosedSound
  <2>6. \A t \in Sessions \ {s} : Sound(t)'
    BY <2>3, OthersKept DEF IInv, Sound
  <2> QED BY <2>3, <2>4, <2>5, <2>6 DEF IInv, Sound
<1>6. CASE c.pc = "sent" /\ c.req.t = "Init" /\ pam_account_authenticate_init(s, c)
  <2>1. c \in Client /\ cl[s].resp = "Denied" /\ c.poll = cl[s].poll
    BY <1>3, <1>6, IdleType DEF Handled
  <2>2. cfg.served => alone[s] <= MaxPoll + 4 /\ (c.poll < 0 => alone[s] <= 1)
    BY <1>1, <1>4, <2>1 DEF Turns
  <2> QED BY <1>6, <2>1, <2>2, InitCase, InitKept DEF IInv
<1>7. CASE c.pc = "sent" /\ c.req.t # "Init" /\ StepArrives(s, c)
  <2>1. /\ c \in Client /\ c.resp = "None"
        /\ c.opts.force_reauth = cl[s].opts.force_reauth /\ c.opts.no_hello_pin = cl[s].opts.no_hello_pin
        /\ c.opts.remote = cl[s].opts.remote
        /\ \/ /\ cl[s].resp \in Prompts /\ c.poll = cl[s].poll /\ c.req.t \notin {"Init", "MFAPoll"}
              /\ c.req.t \in {"Pin", "HelloTOTP", "SetupPin"} => c.req.t = cl[s].resp
              /\ c.req.t = "SetupPin" => c.req.pin \in Pins
           \/ cl[s].resp = "MFAPoll" /\ cl[s].poll < 0 /\ c.poll = 0 /\ c.req.t = "MFAPoll" /\ c.req.attempt = 0
           \/ /\ cl[s].resp = "MFAPollWait" /\ c.req.t = "MFAPoll" /\ c.req.attempt = c.poll
              /\ c.poll = IF cl[s].poll < MaxPoll + 2 THEN cl[s].poll + 1 ELSE cl[s].poll
    BY <1>3, <1>7, IdleType DEF Handled
  <2> DEFINE d == [c EXCEPT !.online = sess[s].online_at_init /\ p.online]
  <2>2. d \in Client /\ d.pc = "sent" /\ d.resp = "None" /\ d.opts = c.opts /\ d.req = c.req /\ d.poll = c.poll
        /\ (d.online => sess[s].online_at_init)
    <3>1. (sess[s].online_at_init /\ p.online) \in BOOLEAN
      OBVIOUS
    <3>2. \A b \in BOOLEAN : LET e == [c EXCEPT !.online = b] IN
             e \in Client /\ e.pc = c.pc /\ e.resp = c.resp /\ e.opts = c.opts /\ e.req = c.req /\ e.poll = c.poll /\ e.online = b
      BY <2>1 DEF Client
    <3> QED BY <1>7, <2>1, <3>1, <3>2
  <2>3. cl' = [cl EXCEPT ![s] = d] /\ UNCHANGED <<cfg, p, sess, shown, alone, wrong>>
    BY <1>7 DEF StepArrives
  <2> HIDE DEF d
  <2>4. cl' \in [Sessions -> Client] /\ cl'[s] = d /\ \A t \in Sessions \ {s} : cl'[t] = cl[t]
    BY <2>2, <2>3 DEF IInv, TypeOK
  <2>5. TypeOK' /\ Counted'
    BY <2>3, <2>4 DEF IInv, TypeOK, Counted
  <2>6. SessionOpen(s)'
    BY <1>1, <1>4, <1>7, <2>1, <2>2, <2>3, <2>4 DEF SessionOpen
  <2>7. Backed(s)'
    BY <1>1, <1>4, <2>1, <2>2, <2>3, <2>4 DEF Backed, Asked, PinAllowed
  <2>8. Turns(s)'
    <3>1. cl'[s].pc = "sent" /\ cl'[s].req = c.req /\ cl'[s].poll = c.poll /\ alone'[s] = alone[s]
      BY <2>2, <2>3, <2>4
    <3> SUFFICES ASSUME cfg.served, cfg'.served PROVE Turns(s)'
      BY <2>3 DEF Turns
    <3>2. c.req.t = "MFAPoll" =>
            c.poll >= 0 /\ c.req.attempt = c.poll /\ alone[s] <= c.poll + 2 /\ alone[s] <= MaxPoll + 3
      BY <1>1, <1>4, <2>1, SMT DEF Turns, Prompts
    <3>3. c.req.t # "MFAPoll" => alone[s] = 0
      BY <1>1, <1>4, <2>1 DEF Turns
    <3> QED BY <3>1, <3>2, <3>3 DEF Turns
  <2>9. \A t \in Sessions \ {s} : Sound(t)'
    BY <2>3, <2>4, OthersKept DEF IInv, Sound
  <2> QED BY <2>3, <2>5, <2>6, <2>7, <2>8, <2>9 DEF IInv, Sound
<1> QED BY <1>2, <1>5, <1>6, <1>7

\* change_auth_token keeps the invariant: the key it stores has had no wrong PIN yet, and the
\* provider's count is kept.
LEMMA PinCase ==
    ASSUME IInv, ChangePin
    PROVE  IInv' /\ fetch_hello_key(p') # NoKey
<1> DEFINE q == [p EXCEPT !.online = TRUE]
<1>1. PICK new \in sm_chauthtok : p' = StoreKey(q, new.amr_ngcmfa, new.pin)
  BY DEF ChangePin, impl_change_auth_token
<1>2. p \in Provider /\ cfg.keys \in 1..MaxKeys /\ p.made < cfg.keys /\ new.pin \in Pins /\ wrong \in Nat /\ Retry \in Nat
  BY ConfigTypes, HelloAssumption DEF IInv, TypeOK, ChangePin, sm_chauthtok
<1>3. Kept(p, q)
  BY <1>2, FieldsKept
<1> HIDE DEF q
<1>4. q \in Provider /\ q.made < cfg.keys /\ q.bad = p.bad /\ p.bad \in Nat
  BY <1>2, <1>3 DEF Kept, SameKeys, Provider
<1>5. p' \in Provider /\ p'.bad = p.bad /\ fetch_hello_key(p') # NoKey
  BY <1>1, <1>2, <1>4, Stored
<1>6. /\ wrong' = IF fetch_hello_key(p') # fetch_hello_key(p) THEN 0 ELSE wrong
      /\ UNCHANGED <<cfg, cl, sess, shown, alone>>
  BY DEF ChangePin
<1>7. TypeOK' /\ Counted'
  BY <1>2, <1>4, <1>5, <1>6, SMT DEF IInv, TypeOK, Counted
<1>8. \A t \in Sessions : Sound(t)'
  BY <1>6, OthersKept DEF IInv, Sound
<1> QED BY <1>5, <1>7, <1>8 DEF IInv, Sound

\* A restart of the daemon ends the sign-ins and the count of bad PINs, not the keys.
LEMMA RestartCase ==
    ASSUME IInv, Restart
    PROVE  IInv' /\ fetch_hello_key(p') = fetch_hello_key(p)
<1>1. p' \in Provider /\ fetch_hello_key(p') = fetch_hello_key(p) /\ p'.bad = 0
  BY DEF IInv, TypeOK, Restart, Provider, fetch_hello_key
<1>2. /\ cl' \in [Sessions -> Client] /\ sess' \in [Sessions -> Session]
      /\ shown' \in [Sessions -> SUBSET Proofs] /\ alone' \in [Sessions -> Nat]
  BY IdleType, HandlerTypes DEF Restart, NoSession, Session
<1>3. /\ \A s \in Sessions : cl'[s] = IdleClient /\ sess'[s] = NoSession /\ shown'[s] = {} /\ alone'[s] = 0
      /\ wrong' = 0 /\ cfg' = cfg
  BY DEF Restart
<1>4. TypeOK' /\ Counted'
  BY <1>1, <1>2, <1>3, HelloAssumption, SMT DEF IInv, TypeOK, Counted
<1>5. \A s \in Sessions : Sound(s)'
  BY <1>3, ClosedSound
<1> QED BY <1>1, <1>4, <1>5 DEF IInv, Sound

\* A cached PRT that expires changes neither the keys nor any sign-in.
LEMMA ExpireCase ==
    ASSUME IInv, Expire
    PROVE  IInv' /\ fetch_hello_key(p') = fetch_hello_key(p)
<1>1. p' \in Provider /\ fetch_hello_key(p') = fetch_hello_key(p) /\ p'.bad = p.bad
  BY DEF IInv, TypeOK, Expire, Provider, KeyStore, fetch_hello_key
<1>2. UNCHANGED <<cfg, cl, sess, shown, alone, wrong>>
  BY DEF Expire
<1>3. TypeOK' /\ Counted'
  BY <1>1, <1>2 DEF IInv, TypeOK, Counted
<1>4. \A t \in Sessions : Sound(t)'
  BY <1>2, OthersKept DEF IInv, Sound
<1> QED BY <1>1, <1>3, <1>4 DEF IInv, Sound

----------------------------------------------------------------------------
\* The daemon starts with the invariant: no keys, no sign-ins.
LEMMA InitInv == Init => IInv
<1> SUFFICES ASSUME Init PROVE IInv
  OBVIOUS
<1>1. p \in Provider /\ fetch_hello_key(p) = NoKey
  BY HelloAssumption, SMT DEF Init, Provider, KeyStore, Slot, fetch_hello_key
<1>2. NoSession \in Session /\ IdleClient \in Client
  BY IdleType, HandlerTypes DEF NoSession, Session
<1>3. TypeOK /\ Counted
  BY <1>1, <1>2 DEF Init, TypeOK, Counted
<1>4. ASSUME NEW s \in Sessions PROVE Sound(s)
  <2>1. cl[s] = IdleClient /\ sess[s] = NoSession /\ shown[s] = {} /\ alone[s] = 0
    BY DEF Init
  <2> QED BY <2>1, IdleType DEF Sound, SessionOpen, Backed, Turns, Asked
<1> QED BY <1>3, <1>4 DEF IInv, Sound

\* Every step of the daemon and of the clients keeps the invariant, and with Entra ID a Hello key
\* unless there were too many failures.
LEMMA NextInv ==
    IInv /\ [Next]_vars =>
        /\ IInv'
        /\ cfg.entra /\ fetch_hello_key(p) # NoKey => fetch_hello_key(p') # NoKey \/ p'.bad > Retry
<1> SUFFICES ASSUME IInv, [Next]_vars
             PROVE  /\ IInv'
                    /\ cfg.entra /\ fetch_hello_key(p) # NoKey => fetch_hello_key(p') # NoKey \/ p'.bad > Retry
  OBVIOUS
<1>1. ASSUME NEW s \in Sessions, Connect(s) \/ HandleResponse(s)
      PROVE  IInv' /\ fetch_hello_key(p') = fetch_hello_key(p)
  BY <1>1, ConnectCase, HandleCase
<1>2. ASSUME NEW s \in Sessions, pam_account_authenticate_step(s)
      PROVE  IInv' /\ (cfg.entra /\ fetch_hello_key(p) # NoKey => fetch_hello_key(p') # NoKey \/ p'.bad > Retry)
  BY <1>2, StepCase
<1>3. CASE ChangePin
  BY <1>3, PinCase
<1>4. CASE Restart \/ Expire
  BY <1>4, RestartCase, ExpireCase
<1>5. CASE UNCHANGED vars
  <2>1. TypeOK' /\ Counted'
    BY <1>5 DEF vars, IInv, TypeOK, Counted
  <2>2. \A t \in Sessions : Sound(t)'
    BY <1>5, OthersKept DEF vars, IInv, Sound
  <2> QED BY <1>5, <2>1, <2>2 DEF vars, IInv, Sound
<1> QED BY <1>1, <1>2, <1>3, <1>4, <1>5 DEF Next

\* The invariant holds throughout, for any number of sessions, PINs and configurations.
THEOREM InvariantHolds == Spec => []IInv
<1>1. IInv /\ [Next]_vars => IInv'
  BY NextInv
<1> QED BY <1>1, InitInv, PTL DEF Spec

\* The clients, the sessions of the daemon and the provider keep to their types.
THEOREM TypeCorrect == Spec => []TypeOK
<1>1. IInv => TypeOK
  BY DEF IInv
<1> QED BY <1>1, InvariantHolds, PTL

\* A sign-in ends with Success only for what was shown in it: a full sign-in at the directory, the
\* cached password, or the Hello PIN; a forced reauthentication only for a full sign-in. Where
\* Hello TOTP is enabled, and for a remote service, the PIN comes with a code, save in the
\* offline sign-in, which accepts the PIN alone where no code was set up. It holds however
\* the sign-ins interleave on the one provider, and across restarts and outages.
THEOREM EarnedAlways == Spec => []SuccessEarned
<1>1. IInv => SuccessEarned
  BY DEF IInv, Backed, SuccessEarned
<1> QED BY <1>1, InvariantHolds, PTL

\* Between restarts of the daemon, which keeps the count in memory, a stored Hello key has never
\* taken more than Retry wrong PINs since a right or new one, for any
\* number of concurrent sign-ins: handle_hello_bad_pin_count counts and deletes in one step.
THEOREM GuessesLimited == Spec => []GuessesBounded
<1>1. IInv => GuessesBounded
  BY DEF IInv, Counted, GuessesBounded
<1> QED BY <1>1, InvariantHolds, PTL

\* A sign-in of an account whose domain a provider serves comes back to the person, or ends, within
\* MaxPoll + 5 steps of its own: the polls of handle_mfapollwait, and no loop of the client and the
\* daemon besides them. (For other accounts there is one: NotFound is answered as Denied.)
THEOREM AlwaysComesBack == Spec => []ComesBack
<1>1. IInv => ComesBack
  <2> SUFFICES ASSUME IInv, cfg.served, NEW s \in Sessions PROVE alone[s] <= MaxPoll + 5
    BY DEF ComesBack
  <2>1. alone[s] \in Nat /\ MaxPoll \in Nat /\ cl[s].pc \in {"idle", "sent", "answered"} /\ SessionOpen(s) /\ Turns(s)
    BY Poll3 DEF IInv, TypeOK, Client
  <2> QED BY <2>1, SMT DEF SessionOpen, Turns
<1> QED BY <1>1, InvariantHolds, PTL

\* With Entra ID a Hello key is lost only by a step that leaves more than Retry failures counted,
\* whichever of the concurrent sign-ins takes it: wrong PINs, wrong codes and the directory's
\* refusals after a right PIN (handle_hello_bad_pin_count), and nothing else.
THEOREM KeyNeverLost == Spec => HelloKeyKept
<1>1. IInv /\ [Next]_vars =>
        [cfg.entra /\ fetch_hello_key(p) # NoKey => fetch_hello_key(p') # NoKey \/ p'.bad > Retry]_vars
  BY NextInv
<1> QED BY <1>1, InvariantHolds, PTL DEF Spec, HelloKeyKept
=============================================================================
