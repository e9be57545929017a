----------------------------- MODULE HelloKeys -----------------------------
(***************************************************************************)
(* What both identity providers share for one account                      *)
(* (idprovider/common.rs): the Hello keys in the key store, the secrets    *)
(* sealed under them, the count of bad PINs, the second factor (TOTP) and  *)
(* the offline sign-in.  A step of a provider maps the provider's state    *)
(* and the handler of a session to a set of outcomes: one outcome for each *)
(* answer that the directory or the TPM may give.                          *)
(***************************************************************************)
EXTENDS Integers, FiniteSets

CONSTANTS
    Pins,       \* the PINs people type
    Retry,      \* hello_pin_retry_count
    MaxKeys,    \* bound on the Hello keys created
    MaxPoll,    \* polls of an MFA request before it times out
    NoKey       \* an empty slot of the key store

ASSUME HelloAssumption ==
    /\ Retry \in Nat /\ MaxKeys \in Nat \ {0} /\ MaxPoll \in Nat
    /\ NoKey \notin [n : 1..MaxKeys, pin : Pins] \cup Pins

\* The options of himmelblau.conf that matter, whether Entra ID or an OpenID
\* Connect issuer (entra) serves the domain or none does (~served), and how much happens (bounds):
\* sign-ins at a time, what they are started with, and Hello keys created.
VARIABLE cfg

\* A Hello key can be loaded with its PIN only.
Keys == [n : 1..MaxKeys, pin : Pins]
Slot == Keys \cup {NoKey}

\* What is stored under each tag: two kinds of keys, and for the PRT, the
\* refresh token and the TOTP secret the key they are sealed under.
KeyStore == [hello : Slot, decoupled : Slot, prt : Slot, rt : Slot, totp : Slot,
             aged : BOOLEAN]    \* aged: the sealed PRT has expired

\* The state of a provider: the key store, bad PINs since the last reset, the
\* refresh cache, connectivity, the device's enrolment, and the keys made so far.
Provider == [ks : KeyStore, bad : Nat, mem : {"none", "prt", "rt"},
             online : BOOLEAN, joined : BOOLEAN, intune : BOOLEAN, made : 0..MaxKeys]

\* AuthCredHandler, all variants in one record.
Handler == [k : {"None", "MFA", "SetupPin", "ChangePassword", "PasswordFirst",
                 "ReauthPassword", "HelloTOTP", "DeviceFlow", "Orchestrator"},
            pin : Pins \cup {NoKey},    \* reauth_hello_pin, or the PIN of HelloTOTP
            password : BOOLEAN,         \* MFA: a password was given before
            flag : BOOLEAN,             \* SetupPin: amr_ngcmfa; PasswordFirst: is_domain_joined
            pending : Slot]             \* pending_sealed_totp

NoHandler == [k |-> "None", pin |-> NoKey, password |-> FALSE, flag |-> FALSE, pending |-> NoKey]

\* An outcome: the new provider state and handler, the result, and what has been
\* shown in this step: "pin", "totp", "mfa", "password" and "sfa" are proofs of
\* identity; "offline" (without a code), "unchecked", "outage" and "code" tell how.
Out(p, h, r, shown) == [p |-> p, h |-> h, r |-> r, shown |-> shown]
Denied(p, h) == Out(p, h, "Denied", {})
Fail(p, h) == Out(p, h, "Error", {})
Offline(p) == [p EXCEPT !.online = FALSE]

\* Part of a step: an outcome "ok" is not final, F goes on from it.
Ok(p, h) == Out(p, h, "ok", {})
AndThen(outcomes, F(_)) == UNION {IF o.r = "ok" THEN F(o.p) ELSE {o} : o \in outcomes}

----------------------------------------------------------------------------
fetch_hello_key(p) == IF p.ks.hello # NoKey THEN p.ks.hello ELSE p.ks.decoupled

\* ms_hello_key_load of the TPM.
ms_hello_key_load(key, pin) == key # NoKey /\ key.pin = pin

reset_bad_pin_count(p) == [p EXCEPT !.bad = 0]

\* Mutant: the count is compared before it is incremented.
bad_pin_count_late(p, h) ==
    Denied(IF p.bad > Retry
           THEN [p EXCEPT !.bad = @ + 1, !.ks.hello = NoKey, !.ks.decoupled = NoKey]
           ELSE [p EXCEPT !.bad = @ + 1], h)

\* A bad PIN or code.  Beyond the limit the keys and what is sealed for single
\* sign-on are deleted.  The TOTP secret and the count stay as they are.
handle_hello_bad_pin_count(p, h) ==
    Denied(IF p.bad + 1 > Retry
           THEN [p EXCEPT !.bad = @ + 1, !.ks.hello = NoKey, !.ks.decoupled = NoKey,
                          !.ks.prt = NoKey, !.ks.rt = NoKey]
           ELSE [p EXCEPT !.bad = @ + 1], h)

\* impl_provision_hello_key and impl_create_decoupled_hello_key: a new key.
NewKey(p, pin) == [n |-> p.made + 1, pin |-> pin]

StoreKey(p, amr_ngcmfa, pin) ==
    IF amr_ngcmfa THEN [p EXCEPT !.made = @ + 1, !.ks.hello = NewKey(p, pin)]
    ELSE [p EXCEPT !.made = @ + 1, !.ks.decoupled = NewKey(p, pin)]

\* The new PRT or refresh token is sealed under the key that was just loaded.
Seal(p, key, kind) ==
    IF kind = "prt" THEN [p EXCEPT !.ks.prt = key, !.ks.aged = FALSE]
    ELSE [p EXCEPT !.ks.rt = key]

\* After a re-authentication: failures are logged and ignored.
seal_prt_with_existing_hello_key(p, pin, kind) ==
    LET key == fetch_hello_key(p)
    IN  IF ms_hello_key_load(key, pin) THEN Seal(p, key, kind) ELSE p

----------------------------------------------------------------------------
(* The second factor.                                                      *)

\* A new secret is sealed under the stored key and kept in the handler until a
\* code has been verified.
impl_setup_hello_totp(p, h, pin) ==
    LET key == fetch_hello_key(p)
    IN  IF ms_hello_key_load(key, pin)
        THEN Out(p, [NoHandler EXCEPT !.k = "HelloTOTP", !.pin = pin, !.pending = key],
                 "HelloTOTP", {"pin"})
        ELSE Fail(p, h)

check_hello_totp_setup(p) == p.ks.totp # NoKey

\* Mutant: the second factor is not asked for where it is not set up yet.
second_factor_if_setup(p, h, pin, shown) ==
    IF cfg.totp /\ check_hello_totp_setup(p)
    THEN Out(p, [NoHandler EXCEPT !.k = "HelloTOTP", !.pin = pin], "HelloTOTP", shown)
    ELSE Out(p, h, "Success", shown)

\* The end of every online PIN sign-in: ask for a code, set it up, or succeed.
second_factor(p, h, pin, shown) ==
    IF ~cfg.totp THEN Out(p, h, "Success", shown)
    ELSE IF check_hello_totp_setup(p)
         THEN Out(p, [NoHandler EXCEPT !.k = "HelloTOTP", !.pin = pin], "HelloTOTP", shown)
         ELSE impl_setup_hello_totp(p, h, pin)

\* An error that does not depend on the code; shown records a right one.
CodeUnused(p, h, code) == Out(p, h, "Error", IF code THEN {"code"} ELSE {})

impl_handle_hello_pin_totp_auth(p, h, code) ==
    LET sealed == IF h.pending # NoKey THEN h.pending ELSE p.ks.totp
        key == fetch_hello_key(p)
    IN  IF sealed = NoKey \/ key = NoKey THEN Fail(p, h)
        ELSE IF ~ms_hello_key_load(key, h.pin) THEN handle_hello_bad_pin_count(p, h)
        ELSE IF sealed # key THEN CodeUnused(p, h, code)
        ELSE IF code
             THEN Out([reset_bad_pin_count(p) EXCEPT !.ks.totp = sealed], h, "Success", {"totp"})
             ELSE handle_hello_bad_pin_count(p, h)

----------------------------------------------------------------------------
(* The offline sign-in.                                                    *)

impl_himmelblau_offline_auth_init(p, no_hello_pin) ==
    Out(p, NoHandler,
        IF fetch_hello_key(p) # NoKey /\ p.bad <= Retry /\ ~no_hello_pin THEN "Pin"
        ELSE IF cfg.entra /\ cfg.sfa THEN "Password" ELSE "InitDenied", {})

\* load_cached_prt; the OpenID Connect provider has none (load_cached_prt_no_op).
load_cached_prt(p, key) ==
    IF ~cfg.entra \/ p.ks.prt = NoKey THEN "ok"
    ELSE IF p.ks.prt # key THEN "Error"
    ELSE IF p.ks.aged THEN "Denied" ELSE "ok"

OfflinePin(p, h, pin) ==
    LET key == fetch_hello_key(p)
        prt == load_cached_prt(p, key)
        q == IF cfg.entra /\ p.ks.prt # NoKey THEN [p EXCEPT !.mem = "prt"] ELSE p
        r == IF p.ks.rt # NoKey THEN [q EXCEPT !.mem = "rt"] ELSE q
    IN  IF key = NoKey THEN Fail(p, h)
        ELSE IF ~ms_hello_key_load(key, pin) THEN handle_hello_bad_pin_count(p, h)
        ELSE IF prt # "ok" THEN Out(p, h, prt, {})
        ELSE IF p.ks.rt \notin {NoKey, key} THEN Fail(q, h)
        ELSE IF check_hello_totp_setup(p) /\ cfg.totp THEN Out(r, h, "HelloTOTP", {"pin"})
        ELSE Out(reset_bad_pin_count(r), h, "Success", {"pin", "offline"})

\* The PIN arm leaves the handler as it is, so that the code it asks for is
\* understood only where an online step had asked for one before.
impl_himmelblau_offline_auth_step(p, h, req) ==
    CASE req.t = "Pin" -> OfflinePin(p, h, req.pin)
      [] req.t = "HelloTOTP" /\ h.k = "HelloTOTP" -> impl_handle_hello_pin_totp_auth(p, h, req.code)
      [] OTHER -> CodeUnused(p, h, req.code)

----------------------------------------------------------------------------
\* impl_change_auth_token: passwd sets a new PIN.  It needs the network.  What
\* the old key sealed and the count of bad PINs stay as they are.
impl_change_auth_token(p, amr_ngcmfa, pin) == StoreKey(p, amr_ngcmfa, pin)
============================================================================
