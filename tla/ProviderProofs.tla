--------------------------- MODULE ProviderProofs ---------------------------
(***************************************************************************)
(* The contract of the two providers, Entra ID and OIDC, for every handler,*)
(* request and answer of the directory: what one call may do to the Hello  *)
(* keys and the count of bad PINs, and which results go with which proofs. *)
(* StepOutcome is the contract of a step and InitOutcome that of a start.  *)
(* The lemmas follow the providers' functions from the inside out: steps   *)
(* at the directory, steps with a Hello PIN, the code of the second        *)
(* factor, and then the requests that choose between them.                 *)
(***************************************************************************)
EXTENDS EntraSignIn, OidcSignIn, TLAPS

\* Most leaves are first-order; those that build records or count say so (SMT).
USE ZenonT(30)

\* What a provider can record as shown.
Tags == {"pin", "totp", "mfa", "password", "sfa", "cached",
           "offline", "unchecked", "outage", "code"}

\* A sign-in at the directory itself.
Full == {"mfa", "password", "sfa"}

\* AuthResult::Denied and NotFound, and Err(IdpError): the step gives nothing.
Refusal == {"Denied", "NotFound", "Error"}
MfaResult == Refusal \cup {"Success", "SetupPin", "ChangePassword"}
PasswordResult == MfaResult \cup {"Fido", "MFACode", "MFAPoll"}

\* The stored Hello keys are the same, and none was made.
SameKeys(p, q) ==
    /\ q \in Provider /\ q.made = p.made
    /\ q.ks.hello = p.ks.hello /\ q.ks.decoupled = p.ks.decoupled

\* The Hello keys and the count of bad PINs are the same.
Kept(p, q) == SameKeys(p, q) /\ q.bad = p.bad

\* A step at the directory whose result is in R: it leaves the Hello keys alone, resets the
\* count of bad PINs only with a Success, and a Success or SetupPin is a full sign-in.
Directory(p, o, R) ==
    /\ o.h \in Handler /\ o.r \in R /\ o.shown \subseteq Tags
    /\ SameKeys(p, o.p)
    /\ o.p.bad = p.bad \/ o.r = "Success"
    /\ o.r \in {"Success", "SetupPin"} => o.shown \cap Full # {}

\* handle_hello_bad_pin_count: one more bad PIN, and beyond Retry of them no Hello key.
LEMMA BadPin ==
    ASSUME NEW p \in Provider, NEW h
    PROVE  LET o == handle_hello_bad_pin_count(p, h)
           IN  /\ o.p \in Provider /\ o.p.made = p.made /\ o.p.bad = p.bad + 1
               /\ o.h = h /\ o.r = "Denied" /\ o.shown = {}
               /\ o.p.ks.hello \in {p.ks.hello, NoKey} /\ o.p.ks.decoupled \in {p.ks.decoupled, NoKey}
               /\ p.bad + 1 > Retry => fetch_hello_key(o.p) = NoKey
               /\ p.bad + 1 <= Retry => fetch_hello_key(o.p) = fetch_hello_key(p)
<1> DEFINE big == [p EXCEPT !.bad = @ + 1, !.ks.hello = NoKey, !.ks.decoupled = NoKey,
                            !.ks.prt = NoKey, !.ks.rt = NoKey]
           small == [p EXCEPT !.bad = @ + 1]
<1>1. small \in Provider /\ small.made = p.made /\ small.bad = p.bad + 1 /\ small.ks = p.ks
  BY SMT DEF Provider
<1>2. big.made = p.made /\ big.bad = p.bad + 1 /\ big.ks.hello = NoKey /\ big.ks.decoupled = NoKey
  BY DEF Provider, KeyStore
<1>3. big \in Provider
  <2> DEFINE ks == [p.ks EXCEPT !.hello = NoKey, !.decoupled = NoKey, !.prt = NoKey, !.rt = NoKey]
  <2>1. ks \in KeyStore
    BY DEF Provider, KeyStore, Slot
  <2>2. big.ks = ks
    BY DEF Provider, KeyStore
  <2> HIDE DEF ks
  <2>3. \A q \in Provider : [q EXCEPT !.ks = ks] \in Provider
    BY <2>1 DEF Provider
  <2>4. big = [small EXCEPT !.ks = ks]
    BY DEF ks, Provider, KeyStore
  <2> QED BY <1>1, <2>3, <2>4
<1> QED BY <1>1, <1>2, <1>3, HelloAssumption, SMT DEF handle_hello_bad_pin_count, Denied, Out,
           fetch_hello_key, Provider

\* Kept is a preorder: the steps of a handler that keep the keys add up.
LEMMA KeptTrans ==
    ASSUME NEW p, NEW q, NEW r
    PROVE  /\ Kept(p, q) /\ Kept(q, r) => Kept(p, r)
           /\ p \in Provider => Kept(p, p)
BY DEF Kept, SameKeys

\* Being online, joined or enrolled, and the token in memory, have no part in the Hello keys.
LEMMA FieldsKept ==
    ASSUME NEW p \in Provider
    PROVE  /\ \A b \in BOOLEAN : Kept(p, [p EXCEPT !.online = b])
           /\ Kept(p, [p EXCEPT !.intune = TRUE])
           /\ Kept(p, [p EXCEPT !.joined = TRUE])
           /\ \A kind \in {"prt", "rt"} : Kept(p, [p EXCEPT !.mem = kind])
           /\ Kept(p, Offline(p))
           /\ Kept(p, Removed(p))
BY DEF Kept, SameKeys, Provider, Offline, Removed

\* reset_bad_pin_count keeps the Hello keys and leaves a count of zero.
LEMMA ResetKept ==
    ASSUME NEW p \in Provider
    PROVE  SameKeys(p, reset_bad_pin_count(p)) /\ reset_bad_pin_count(p).bad = 0
BY DEF SameKeys, Provider, reset_bad_pin_count

\* Sealing a PRT or a refresh token to a Hello key keeps the Hello keys.
LEMMA SealKept ==
    ASSUME NEW p \in Provider, NEW k \in Keys, NEW kind
    PROVE  Kept(p, Seal(p, k, kind))
BY DEF Kept, SameKeys, Seal, Provider, KeyStore, Slot

\* seal_prt_with_existing_hello_key keeps the Hello keys, whether or not the PIN loads one.
LEMMA ExistingKept ==
    ASSUME NEW p \in Provider, NEW pin, NEW kind
    PROVE  Kept(p, seal_prt_with_existing_hello_key(p, pin, kind))
<1>1. fetch_hello_key(p) \in Slot
  BY DEF Provider, KeyStore, fetch_hello_key
<1> QED BY <1>1, SealKept, KeptTrans DEF seal_prt_with_existing_hello_key, ms_hello_key_load, Slot

\* Every AuthCredHandler that the providers make is one.
LEMMA HandlerTypes ==
    /\ NoHandler \in Handler
    /\ \A pin \in Pins \cup {NoKey}, b \in BOOLEAN : Mfa(pin, b) \in Handler
    /\ \A b \in BOOLEAN : SetupPin(b) \in Handler
    /\ [NoHandler EXCEPT !.k = "ChangePassword"] \in Handler
    /\ [NoHandler EXCEPT !.k = "SetupPin"] \in Handler
    /\ [NoHandler EXCEPT !.k = "DeviceFlow"] \in Handler
    /\ [NoHandler EXCEPT !.k = "Orchestrator"] \in Handler
    /\ \A pin \in Pins \cup {NoKey} : [NoHandler EXCEPT !.k = "ReauthPassword", !.pin = pin] \in Handler
    /\ \A pin \in Pins \cup {NoKey} : [NoHandler EXCEPT !.k = "HelloTOTP", !.pin = pin] \in Handler
    /\ \A pin \in Pins \cup {NoKey}, k \in Slot :
          [NoHandler EXCEPT !.k = "HelloTOTP", !.pin = pin, !.pending = k] \in Handler
BY DEF NoHandler, Handler, Slot, Mfa, SetupPin

\* A part of a handler that keeps the keys may come before a step at the directory.
LEMMA DirectoryTrans ==
    ASSUME NEW p, NEW q, NEW o, NEW R, Kept(p, q), Directory(q, o, R)
    PROVE  Directory(p, o, R)
BY DEF Directory, Kept, SameKeys

\* A step whose result is in R is one whose result is in any larger set.
LEMMA DirectoryWiden ==
    ASSUME NEW p, NEW o, NEW R, NEW S, Directory(p, o, R), R \subseteq S
    PROVE  Directory(p, o, S)
BY DEF Directory

\* An answer that keeps the keys, with a full sign-in where it needs one, is a Directory step.
LEMMA OutDirectory ==
    ASSUME NEW p, NEW q, NEW h \in Handler, NEW r, NEW R, NEW shown \in SUBSET Tags,
           Kept(p, q), r \in R, r \in {"Success", "SetupPin"} => shown \cap Full # {}
    PROVE  Directory(p, Out(q, h, r, shown), R)
BY DEF Directory, Kept, SameKeys, Out

\* Denied, an error and NotFound are Directory steps, and so is going on (Ok).
LEMMA RefusalDirectory ==
    ASSUME NEW p, NEW q, NEW h \in Handler, Kept(p, q)
    PROVE  /\ Directory(p, Denied(q, h), {"Denied"})
           /\ Directory(p, Fail(q, h), {"Error"})
           /\ Directory(p, Ok(q, h), {"ok"}) /\ Kept(p, Ok(q, h).p)
           /\ Directory(p, Out(q, h, "NotFound", {}), {"NotFound"})
BY DEF Directory, Kept, SameKeys, Out, Denied, Fail, Ok

\* net_down_check and check_new_device_enrollment_required only deny.
LEMMA RequestErrorsDirectory ==
    ASSUME NEW p \in Provider, NEW h \in Handler, NEW o \in RequestErrors(p, h)
    PROVE  Directory(p, o, {"Denied"})
<1>1. Kept(p, Offline(p)) /\ Kept(p, Removed(p)) /\ Kept(p, p)
  BY FieldsKept, KeptTrans
<1>2. o \in {Denied(Offline(p), h), Denied(Removed(p), h), Denied(p, h)}
  BY DEF RequestErrors, net_down_check, check_new_device_enrollment_required
<1> QED BY <1>1, <1>2, RefusalDirectory

\* join_domain and intune_enroll keep the Hello keys and the count of bad PINs.
LEMMA EnrolledKept ==
    ASSUME NEW p \in Provider
    PROVE  (\A q \in Enrolled(p) : Kept(p, q)) /\ (\A q \in intune_enroll(p) : Kept(p, q))
<1>1. ASSUME NEW r \in Provider, NEW q \in Intune(r) PROVE Kept(r, q)
  <2> DEFINE e == [r EXCEPT !.intune = TRUE]
  <2>1. Kept(r, e) /\ Kept(r, r)
    BY FieldsKept, KeptTrans
  <2>2. q \in {r, e}
    BY <1>1 DEF Intune
  <2> QED BY <2>1, <2>2
<1>2. \A q \in intune_enroll(p) : Kept(p, q)
  BY <1>1, KeptTrans DEF intune_enroll
<1>3. \A q \in join_domain(p) : Kept(p, q)
  <2> DEFINE r == [p EXCEPT !.joined = TRUE]
  <2>1. Kept(p, r) /\ r \in Provider
    BY FieldsKept DEF Kept, SameKeys
  <2> HIDE DEF r
  <2>2. \A q \in Intune(r) : Kept(p, q)
    BY <2>1, <1>1, KeptTrans
  <2> QED BY <2>2 DEF join_domain, r
<1> QED BY <1>2, <1>3 DEF Enrolled

\* enroll_and_obtain_enrolled_token goes on with the keys it found, or denies.
LEMMA EnrolDirectory ==
    ASSUME NEW p \in Provider, NEW h \in Handler, NEW o \in enroll_and_obtain_enrolled_token(p, h)
    PROVE  Directory(p, o, {"Denied", "ok"}) /\ (o.r = "ok" => Kept(p, o.p))
<1>1. CASE o = Denied(p, h)
  <2>1. Directory(p, o, {"Denied"})
    BY <1>1, RefusalDirectory, KeptTrans
  <2> QED BY <2>1 DEF Directory
<1>2. ASSUME NEW q \in Enrolled(p), o \in RequestErrors(q, h)
      PROVE  Directory(p, o, {"Denied"})
  <2>1. Kept(p, q) /\ q \in Provider
    BY EnrolledKept DEF Kept, SameKeys
  <2> QED BY <1>2, <2>1, RequestErrorsDirectory, DirectoryTrans
<1>3. ASSUME NEW q \in Enrolled(p), o = Ok(q, h)
      PROVE  Directory(p, o, {"ok"}) /\ Kept(p, o.p)
  BY <1>3, EnrolledKept, RefusalDirectory
<1> QED BY <1>1, <1>2, <1>3, DirectoryWiden DEF enroll_and_obtain_enrolled_token, Directory

\* token_validate of Entra ID goes on with the keys it found, or refuses.
LEMMA TokenValidate ==
    ASSUME NEW p \in Provider, NEW h \in Handler, NEW kinds \in SUBSET Kinds, NEW o \in token_validate(p,
           h, kinds)
    PROVE  Directory(p, o, Refusal \cup {"ok"}) /\ (o.r = "ok" => Kept(p, o.p))
<1>1. CASE o = Denied(p, h) \/ o = Out(p, h, "NotFound", {})
  <2>1. Directory(p, o, {"Denied"}) \/ Directory(p, o, {"NotFound"})
    BY <1>1, RefusalDirectory, KeptTrans, SMT
  <2> QED BY <2>1 DEF Directory, Refusal
<1>2. ASSUME NEW kind \in kinds, o = Fail([p EXCEPT !.mem = kind], h) \/ o = Ok([p EXCEPT !.mem = kind], h)
      PROVE  Directory(p, o, {"Error"}) \/ (Directory(p, o, {"ok"}) /\ Kept(p, o.p))
  <2> DEFINE q == [p EXCEPT !.mem = kind]
  <2>1. Kept(p, q)
    BY FieldsKept DEF Kinds
  <2> HIDE DEF q
  <2>2. o = Fail(q, h) \/ o = Ok(q, h)
    BY <1>2 DEF q
  <2> QED BY <2>1, <2>2, RefusalDirectory
<1> QED BY <1>1, <1>2, SMT DEF token_validate, Directory, Refusal

\* AndThen, for one of its outcomes: where the first part goes on with the keys it found, the
\* outer step is a Directory step when the second part is one.
LEMMA Continue ==
    ASSUME NEW p, NEW a, NEW R, NEW T, NEW o \in IF a.r = "ok" THEN T ELSE {a},
           Directory(p, a, R \cup {"ok"}), a.r = "ok" => Kept(p, a.p),
           a.p \in Provider => \A x \in T : Directory(a.p, x, R)
    PROVE  Directory(p, o, R)
<1>1. CASE a.r = "ok"
  <2>1. Kept(p, a.p) /\ a.p \in Provider
    BY <1>1 DEF Kept, SameKeys
  <2>2. Directory(a.p, o, R)
    BY <1>1, <2>1
  <2> QED BY <2>1, <2>2, DirectoryTrans
<1>2. CASE a.r # "ok"
  BY <1>2 DEF Directory
<1> QED BY <1>1, <1>2

\* maybe_prompt_setup_pin_after_password_only_success: a password was accepted.
LEMMA PasswordSuccess ==
    ASSUME NEW p \in Provider, NEW h \in Handler, NEW no_hello_pin,
           NEW o \in maybe_prompt_setup_pin_after_password_only_success(p, h, no_hello_pin, {"password"})
    PROVE  Directory(p, o, MfaResult)
<1>1. \/ o = Out(p, h, "Success", {"password"})
      \/ \E amr \in BOOLEAN : o = Out(p, SetupPin(amr), "SetupPin", {"password"})
  BY DEF maybe_prompt_setup_pin_after_password_only_success
<1>2. Kept(p, p) /\ {"password"} \in SUBSET Tags /\ {"password"} \cap Full # {}
  BY KeptTrans DEF Full, Tags
<1>3. "Success" \in MfaResult /\ "SetupPin" \in MfaResult
  BY DEF MfaResult
<1>4. \A g \in Handler : /\ Directory(p, Out(p, g, "Success", {"password"}), MfaResult)
                         /\ Directory(p, Out(p, g, "SetupPin", {"password"}), MfaResult)
  BY <1>2, <1>3, OutDirectory
<1> QED BY <1>1, <1>4, HandlerTypes

\* The token of the password-only flow, validated: success or a PIN to set up.
LEMMA PasswordTokenDirectory ==
    ASSUME NEW p \in Provider, NEW h \in Handler, NEW no_hello_pin, NEW kinds \in SUBSET Kinds,
           NEW o \in PasswordToken(p, h, no_hello_pin, kinds)
    PROVE  Directory(p, o, MfaResult)
<1> DEFINE Valid(q) == maybe_prompt_setup_pin_after_password_only_success(q, h, no_hello_pin, {"password"})
<1>1. PICK a \in token_validate(p, h, kinds) : o \in IF a.r = "ok" THEN Valid(a.p) ELSE {a}
  BY DEF AndThen, PasswordToken
<1>2. Directory(p, a, MfaResult \cup {"ok"}) /\ (a.r = "ok" => Kept(p, a.p))
  BY TokenValidate, DirectoryWiden DEF MfaResult
<1>3. a.p \in Provider => \A x \in Valid(a.p) : Directory(a.p, x, MfaResult)
  BY PasswordSuccess
<1> HIDE DEF Valid
<1> QED BY <1>1, <1>2, <1>3, Continue

\* The token of a single factor, validated: success.
LEMMA SfaTokenDirectory ==
    ASSUME NEW p \in Provider, NEW h \in Handler, NEW o \in SfaToken(p, h)
    PROVE  Directory(p, o, MfaResult)
<1> DEFINE Valid(q) == {Out(q, h, "Success", {"sfa"})}
<1>1. PICK a \in token_validate(p, h, Kinds) : o \in IF a.r = "ok" THEN Valid(a.p) ELSE {a}
  BY DEF AndThen, SfaToken
<1>2. Directory(p, a, MfaResult \cup {"ok"}) /\ (a.r = "ok" => Kept(p, a.p))
  BY TokenValidate, DirectoryWiden DEF MfaResult
<1>3. {"sfa"} \in SUBSET Tags /\ {"sfa"} \cap Full # {} /\ "Success" \in MfaResult
  BY DEF Full, Tags, MfaResult
<1>4. a.p \in Provider => \A x \in Valid(a.p) : Directory(a.p, x, MfaResult)
  BY <1>3, KeptTrans, OutDirectory
<1> HIDE DEF Valid
<1> QED BY <1>1, <1>2, <1>4, Continue

\* nested_auth_handle_mfa_resp only asks for the second factor.
LEMMA Nested ==
    ASSUME NEW p \in Provider, NEW pin \in Pins \cup {NoKey}, NEW o \in nested_auth_handle_mfa_resp(p, pin)
    PROVE  Directory(p, o, PasswordResult)
<1>1. Kept(p, p) /\ NoHandler \in Handler /\ Mfa(pin, TRUE) \in Handler
  BY KeptTrans, HandlerTypes
<1>2. \/ \E r \in {"Fido", "MFACode", "MFAPoll"} : o = Out(p, Mfa(pin, TRUE), r, {})
      \/ o = Denied(p, NoHandler)
  BY DEF nested_auth_handle_mfa_resp
<1>3. ASSUME NEW r \in {"Fido", "MFACode", "MFAPoll"} PROVE Directory(p, Out(p, Mfa(pin, TRUE), r, {}),
             PasswordResult)
  BY <1>1, OutDirectory DEF PasswordResult
<1>4. Directory(p, Denied(p, NoHandler), PasswordResult)
  BY <1>1, RefusalDirectory, DirectoryWiden DEF PasswordResult, MfaResult, Refusal
<1> QED BY <1>2, <1>3, <1>4

\* An expired password is to be changed: nothing is gained by it.
LEMMA ChangePasswordDirectory ==
    ASSUME NEW p \in Provider
    PROVE  Directory(p, ChangePassword(p), MfaResult)
<1>1. Kept(p, p) /\ [NoHandler EXCEPT !.k = "ChangePassword"] \in Handler
  BY KeptTrans, HandlerTypes
<1> QED BY <1>1, OutDirectory DEF ChangePassword, MfaResult

\* How the sets of results lie in each other.
LEMMA ResultSets ==
    /\ {"Denied"} \subseteq Refusal /\ {"Error"} \subseteq Refusal /\ {"NotFound"} \subseteq Refusal
    /\ Refusal \subseteq MfaResult
    /\ MfaResult \subseteq PasswordResult
    /\ {"Denied"} \subseteq MfaResult /\ {"Denied"} \subseteq PasswordResult
    /\ {"Denied", "ok"} \subseteq MfaResult \cup {"ok"}
BY DEF Refusal, MfaResult, PasswordResult

\* Enrolment of the device, and then a token.
LEMMA EnrolThen ==
    ASSUME NEW p \in Provider, NEW h \in Handler, NEW a \in enroll_and_obtain_enrolled_token(p, h),
           NEW T, NEW o \in IF a.r = "ok" THEN T ELSE {a},
           a.p \in Provider => \A x \in T : Directory(a.p, x, MfaResult)
    PROVE  Directory(p, o, MfaResult)
<1>1. Directory(p, a, MfaResult \cup {"ok"}) /\ (a.r = "ok" => Kept(p, a.p))
  BY EnrolDirectory, DirectoryWiden, ResultSets
<1> QED BY <1>1, Continue

\* unix_user_online_auth_step, the password before any flow: a Directory step.
LEMMA PasswordFirstDirectory ==
    ASSUME NEW p \in Provider, NEW h \in Handler, NEW no_hello_pin, NEW o \in PasswordFirst(p, h,
           no_hello_pin)
    PROVE  Directory(p, o, PasswordResult)
<1> DEFINE Token(q) == PasswordToken(q, h, no_hello_pin, Kinds)
           begin(q) == RequestErrors(q, h) \cup nested_auth_handle_mfa_resp(q, NoKey)
<1>1. \/ o \in begin(p)
      \/ o = ChangePassword(p)
      \/ o = Denied(p, h)
      \/ o \in AndThen(enroll_and_obtain_enrolled_token(p, h), Token)
      \/ o \in prt_signin_frequency_check(p, h, no_hello_pin)
      \/ o \in begin(Offline(p))
  BY DEF PasswordFirst
<1>2. ASSUME NEW q, Kept(p, q), o \in begin(q) PROVE Directory(p, o, PasswordResult)
  <2>1. q \in Provider /\ NoKey \in Pins \cup {NoKey}
    BY <1>2 DEF Kept, SameKeys
  <2>2. Directory(q, o, PasswordResult)
    BY <1>2, <2>1, RequestErrorsDirectory, Nested, DirectoryWiden, ResultSets
  <2> QED BY <1>2, <2>2, DirectoryTrans
<1>3. Kept(p, p) /\ Kept(p, Offline(p))
  BY KeptTrans, FieldsKept
<1>4. CASE o \in AndThen(enroll_and_obtain_enrolled_token(p, h), Token)
  <2>1. PICK a \in enroll_and_obtain_enrolled_token(p, h) : o \in IF a.r = "ok" THEN Token(a.p) ELSE {a}
    BY <1>4 DEF AndThen
  <2>2. a.p \in Provider => \A x \in Token(a.p) : Directory(a.p, x, MfaResult)
    BY PasswordTokenDirectory
  <2> HIDE DEF Token
  <2>3. Directory(p, o, MfaResult)
    BY <2>1, <2>2, EnrolThen
  <2> QED BY <2>3, DirectoryWiden, ResultSets
<1>5. CASE o \in prt_signin_frequency_check(p, h, no_hello_pin)
  <2>1. o \in PasswordToken(p, h, no_hello_pin, {"prt"}) /\ {"prt"} \in SUBSET Kinds
    BY <1>5 DEF prt_signin_frequency_check, Kinds
  <2> QED BY <2>1, PasswordTokenDirectory, DirectoryWiden, ResultSets
<1>6. CASE o = ChangePassword(p)
  BY <1>6, ChangePasswordDirectory, DirectoryWiden, ResultSets
<1>7. CASE o = Denied(p, h)
  <2>1. Directory(p, o, {"Denied"})
    BY <1>3, <1>7, RefusalDirectory
  <2> QED BY <2>1, DirectoryWiden, ResultSets
<1> HIDE DEF Token, begin
<1> QED BY <1>1, <1>2, <1>3, <1>4, <1>5, <1>6, <1>7

\* unix_user_online_auth_step, the password of an MFA flow or of a reauthentication.
LEMMA PasswordDirectory ==
    ASSUME NEW p \in Provider, NEW h \in Handler, NEW o \in Password(p, h)
    PROVE  Directory(p, o, PasswordResult)
<1> DEFINE Token(q) == SfaToken(q, h)
           pin == IF h.k = "ReauthPassword" THEN h.pin ELSE NoKey
<1>1. \/ o \in RequestErrors(p, h)
      \/ o \in nested_auth_handle_mfa_resp(p, pin)
      \/ o = ChangePassword(p)
      \/ o \in AndThen(enroll_and_obtain_enrolled_token(p, h), Token)
  BY DEF Password
<1>2. pin \in Pins \cup {NoKey}
  BY DEF Handler
<1> HIDE DEF pin
<1>3. CASE o \in AndThen(enroll_and_obtain_enrolled_token(p, h), Token)
  <2>1. PICK a \in enroll_and_obtain_enrolled_token(p, h) : o \in IF a.r = "ok" THEN Token(a.p) ELSE {a}
    BY <1>3 DEF AndThen
  <2>2. a.p \in Provider => \A x \in Token(a.p) : Directory(a.p, x, MfaResult)
    BY SfaTokenDirectory
  <2> HIDE DEF Token
  <2>3. Directory(p, o, MfaResult)
    BY <2>1, <2>2, EnrolThen
  <2> QED BY <2>3, DirectoryWiden, ResultSets
<1> HIDE DEF Token
<1> QED BY <1>1, <1>2, <1>3, RequestErrorsDirectory, Nested, ChangePasswordDirectory, DirectoryWiden,
           ResultSets

\* An MFA that was asked for by a Hello PIN seals its token and ends the count of bad PINs.
LEMMA ResealDirectory ==
    ASSUME NEW p \in Provider, NEW h \in Handler, NEW kind
    PROVE  Directory(p, reseal(p, h, kind), MfaResult)
<1> DEFINE q == seal_prt_with_existing_hello_key(p, h.pin, kind)
<1>1. Kept(p, q) /\ q \in Provider
  BY ExistingKept, SMT DEF Kept, SameKeys
<1> HIDE DEF q
<1>2. SameKeys(p, reset_bad_pin_count(q))
  BY <1>1, ResetKept DEF Kept, SameKeys
<1>3. {"mfa"} \subseteq Tags /\ {"mfa"} \cap Full # {} /\ "Success" \in MfaResult
  BY DEF Full, Tags, MfaResult
<1>4. reseal(p, h, kind) = Out(reset_bad_pin_count(q), h, "Success", {"mfa"})
  BY DEF reseal, q
<1> QED BY <1>2, <1>3, <1>4, SMT DEF Directory, Out

\* The token of an MFA, validated: success, or a PIN to set up.
LEMMA MfaValidatedDirectory ==
    ASSUME NEW p \in Provider, NEW h \in Handler, NEW no_hello_pin, NEW o \in MfaValidated(p, h,
           no_hello_pin)
    PROVE  Directory(p, o, MfaResult)
<1> DEFINE Valid(q) == IF h.pin # NoKey /\ fetch_hello_key(q) # NoKey THEN {reseal(q, h, q.mem)}
          ELSE IF ~cfg.hello \/ no_hello_pin \/ fetch_hello_key(q) # NoKey
               THEN {Out(q, h, "Success", {"mfa"})}
               ELSE {Out(q, SetupPin(amr), "SetupPin", {"mfa"}) : amr \in BOOLEAN}
<1>1. PICK a \in token_validate(p, h, Kinds) : o \in IF a.r = "ok" THEN Valid(a.p) ELSE {a}
  BY DEF AndThen, MfaValidated
<1>2. Directory(p, a, MfaResult \cup {"ok"}) /\ (a.r = "ok" => Kept(p, a.p))
  BY TokenValidate, DirectoryWiden DEF MfaResult
<1>3. {"mfa"} \in SUBSET Tags /\ {"mfa"} \cap Full # {} /\ "Success" \in MfaResult /\ "SetupPin" \in MfaResult
  BY DEF Full, Tags, MfaResult
<1>4. ASSUME NEW q \in Provider, NEW x \in Valid(q) PROVE Directory(q, x, MfaResult)
  <2>1. \/ x = reseal(q, h, q.mem)
        \/ x = Out(q, h, "Success", {"mfa"})
        \/ \E amr \in BOOLEAN : x = Out(q, SetupPin(amr), "SetupPin", {"mfa"})
    BY <1>4
  <2>2. \A g \in Handler : /\ Directory(q, Out(q, g, "Success", {"mfa"}), MfaResult)
                           /\ Directory(q, Out(q, g, "SetupPin", {"mfa"}), MfaResult)
    BY <1>3, KeptTrans, OutDirectory
  <2> QED BY <2>1, <2>2, ResealDirectory, HandlerTypes
<1> HIDE DEF Valid
<1> QED BY <1>1, <1>2, <1>4, Continue, SMT

\* The token of an MFA, for the enrolled device or after its enrolment.
LEMMA MfaTokenDirectory ==
    ASSUME NEW p \in Provider, NEW h \in Handler, NEW no_hello_pin, NEW msa, NEW o \in MfaToken(p, h,
           no_hello_pin, msa)
    PROVE  Directory(p, o, MfaResult)
<1> DEFINE Token(q) == MfaValidated(q, h, no_hello_pin)
<1>1. o \in Token(p) \/ o \in AndThen(enroll_and_obtain_enrolled_token(p, h), Token)
  BY DEF MfaToken
<1>2. CASE o \in AndThen(enroll_and_obtain_enrolled_token(p, h), Token)
  <2>1. PICK a \in enroll_and_obtain_enrolled_token(p, h) : o \in IF a.r = "ok" THEN Token(a.p) ELSE {a}
    BY <1>2 DEF AndThen
  <2>2. a.p \in Provider => \A x \in Token(a.p) : Directory(a.p, x, MfaResult)
    BY MfaValidatedDirectory
  <2> HIDE DEF Token
  <2> QED BY <2>1, <2>2, EnrolThen
<1> QED BY <1>1, <1>2, MfaValidatedDirectory

\* The four requests of an MFA flow. MFAPoll asks to wait only up to MaxPoll attempts.
LEMMA MfaDirectory ==
    ASSUME NEW p \in Provider, NEW h \in Handler, NEW no_hello_pin, NEW attempt, NEW o
    PROVE  /\ o \in MFACode(p, h, no_hello_pin) => Directory(p, o, MfaResult)
           /\ o \in Fido(p, h, no_hello_pin) => Directory(p, o, MfaResult)
           /\ o \in FidoUnavailable(p) => Directory(p, o, {"Password"})
           /\ o \in MFAPoll(p, h, attempt, no_hello_pin) =>
                 \/ Directory(p, o, MfaResult)
                 \/ Directory(p, o, {"MFAPollWait"}) /\ ~(attempt > MaxPoll)
<1>1. Kept(p, p) /\ NoHandler \in Handler /\ {} \in SUBSET Tags
  BY KeptTrans, HandlerTypes
<1>2. Directory(p, MfaChangePassword(p, h), MfaResult)
  BY <1>1, ChangePasswordDirectory, RefusalDirectory, DirectoryWiden, ResultSets DEF MfaChangePassword
<1>3. /\ Directory(p, Denied(p, h), MfaResult)
      /\ Directory(p, Out(p, NoHandler, "Password", {}), {"Password"})
      /\ Directory(p, Out(p, h, "MFAPollWait", {}), {"MFAPollWait"})
  BY <1>1, OutDirectory, RefusalDirectory, DirectoryWiden, ResultSets
<1>4. \A x \in RequestErrors(p, h) : Directory(p, x, MfaResult)
  BY RequestErrorsDirectory, DirectoryWiden, ResultSets
<1>5. \A msa : \A x \in MfaToken(p, h, no_hello_pin, msa) : Directory(p, x, MfaResult)
  BY MfaTokenDirectory
<1> QED BY <1>2, <1>3, <1>4, <1>5 DEF MFACode, Fido, FidoUnavailable, MFAPoll

\* token_validate of OIDC goes on with the keys it found, or refuses.
LEMMA OidcValidate ==
    ASSUME NEW p \in Provider, NEW h \in Handler, NEW o \in oidc_token_validate(p, h)
    PROVE  Directory(p, o, Refusal \cup {"ok"}) /\ (o.r = "ok" => Kept(p, o.p))
<1> DEFINE q == [p EXCEPT !.mem = "rt"]
<1>1. Kept(p, p) /\ Kept(p, q)
  BY KeptTrans, FieldsKept
<1>2. o = Denied(p, h) \/ o = Fail(p, h) \/ o = Ok(p, h) \/ o = Ok(q, h)
  BY DEF oidc_token_validate
<1> HIDE DEF q
<1>3. \/ Directory(p, o, {"Denied"})
      \/ Directory(p, o, {"Error"})
      \/ (Directory(p, o, {"ok"}) /\ Kept(p, o.p))
  BY <1>1, <1>2, RefusalDirectory
<1> QED BY <1>3 DEF Directory, Refusal

\* acquire_token_by_device_flow of OIDC: a full sign-in, a refusal, or wait.
LEMMA DeviceToken ==
    ASSUME NEW p \in Provider, NEW h \in Handler, NEW no_hello_pin,
           NEW o \in acquire_token_by_device_flow(p, h, no_hello_pin)
    PROVE  Directory(p, o, MfaResult) \/ Directory(p, o, {"MFAPollWait"})
<1> DEFINE Valid(q) == {IF ~cfg.hello \/ no_hello_pin THEN Out(q, h, "Success", {"mfa"})
           ELSE Out(q, [NoHandler EXCEPT !.k = "SetupPin"], "SetupPin", {"mfa"})}
<1>1. \/ o = Out(p, h, "MFAPollWait", {})
      \/ o = Denied(p, h)
      \/ o \in AndThen(oidc_token_validate(p, h), Valid)
  BY DEF acquire_token_by_device_flow, finalize_mfa_success
<1>2. Kept(p, p) /\ {} \in SUBSET Tags
  BY KeptTrans
<1>3. CASE o \in AndThen(oidc_token_validate(p, h), Valid)
  <2>1. PICK a \in oidc_token_validate(p, h) : o \in IF a.r = "ok" THEN Valid(a.p) ELSE {a}
    BY <1>3 DEF AndThen
  <2>2. Directory(p, a, MfaResult \cup {"ok"}) /\ (a.r = "ok" => Kept(p, a.p))
    BY OidcValidate, DirectoryWiden DEF MfaResult
  <2>3. {"mfa"} \in SUBSET Tags /\ {"mfa"} \cap Full # {} /\ "Success" \in MfaResult /\ "SetupPin" \in MfaResult
    BY DEF Full, Tags, MfaResult
  <2>4. ASSUME NEW q \in Provider, NEW x \in Valid(q) PROVE Directory(q, x, MfaResult)
    <3>1. \A g \in Handler : /\ Directory(q, Out(q, g, "Success", {"mfa"}), MfaResult)
                             /\ Directory(q, Out(q, g, "SetupPin", {"mfa"}), MfaResult)
      BY <2>3, KeptTrans, OutDirectory
    <3>2. \/ x = Out(q, h, "Success", {"mfa"})
          \/ x = Out(q, [NoHandler EXCEPT !.k = "SetupPin"], "SetupPin", {"mfa"})
      BY <2>4
    <3> QED BY <3>1, <3>2, HandlerTypes
  <2> HIDE DEF Valid
  <2> QED BY <2>1, <2>2, <2>4, Continue, SMT
<1>4. CASE o = Out(p, h, "MFAPollWait", {})
  BY <1>2, <1>4, OutDirectory
<1>5. CASE o = Denied(p, h)
  BY <1>2, <1>5, RefusalDirectory, DirectoryWiden, ResultSets
<1> HIDE DEF Valid
<1> QED BY <1>1, <1>3, <1>4, <1>5

\* The device flow of OIDC asks to wait only for a poll, up to MaxPoll attempts.
LEMMA DeviceFlowDirectory ==
    ASSUME NEW p \in Provider, NEW h \in Handler, NEW req, NEW no_hello_pin,
           NEW o \in DeviceFlow(p, h, req, no_hello_pin)
    PROVE  \/ Directory(p, o, MfaResult)
           \/ Directory(p, o, {"MFAPollWait"}) /\ req.t = "MFAPoll" /\ ~(req.attempt > MaxPoll)
<1>1. Directory(p, Denied(p, h), MfaResult)
  BY KeptTrans, RefusalDirectory, DirectoryWiden, ResultSets, SMT
<1> QED BY <1>1, DeviceToken DEF DeviceFlow

\* A step of the orchestrator flow: a full sign-in, a refusal, the orchestrator's next
\* question, or wait up to MaxPoll attempts.
LEMMA OrchestratorDirectory ==
    ASSUME NEW p \in Provider, NEW h \in Handler, NEW req, NEW no_hello_pin,
           NEW o \in OrchestratorStep(p, h, req, no_hello_pin)
    PROVE  \/ Directory(p, o, MfaResult)
           \/ Directory(p, o, {"MFAPollWait"}) /\ req.t = "MFAPoll" /\ ~(req.attempt > MaxPoll)
           \/ Directory(p, o, OrchestratorRequests \cup {"MFAPollWait"}) /\ req.t # "MFAPoll"
<1>1. Kept(p, p) /\ Directory(p, Denied(p, h), MfaResult)
  <2>1. Kept(p, p)
    BY KeptTrans
  <2> QED BY <2>1, RefusalDirectory, DirectoryWiden, ResultSets
<1>2. ASSUME NEW r \in OrchestratorRequests, NEW g \in Handler PROVE Directory(p, Out(p, g, r, {}),
             OrchestratorRequests)
  BY <1>1, OutDirectory DEF OrchestratorRequests
<1>3. [h EXCEPT !.k = "DeviceFlow"] \in Handler
  BY DEF Handler
<1>4. Directory(p, Out(p, [h EXCEPT !.k = "DeviceFlow"], "MFAPollWait", {}), {"MFAPollWait"})
  BY <1>1, <1>3, OutDirectory
<1>5. CASE req.t = "MFAPoll"
  BY <1>1, <1>5, DeviceToken DEF OrchestratorStep, OrchestratorPoll
<1>6. CASE req.t # "MFAPoll"
  <2>1. \/ o = Denied(p, h)
        \/ o \in NextStep(p, h)
        \/ o \in SessionComplete(p, h, no_hello_pin)
        \/ o \in SessionError(p, h)
        \/ o \in NoOrchestrator(p, h)
    BY <1>6 DEF OrchestratorStep, orchestrator_continue, orchestrator_send_command
  <2>2. CASE o \in NextStep(p, h)
    BY <1>2, <1>6, <2>2, DirectoryWiden, SMT DEF NextStep
  <2>3. CASE o \in NoOrchestrator(p, h)
    BY <1>4, <1>6, <2>3, DirectoryWiden, SMT DEF NoOrchestrator
  <2>4. CASE o \in SessionComplete(p, h, no_hello_pin)
    BY <1>1, <1>6, <2>4, DeviceToken, DirectoryWiden DEF SessionComplete
  <2>5. CASE o = Denied(p, h) \/ o \in SessionError(p, h)
    BY <1>1, <2>5 DEF SessionError
  <2> QED BY <2>1, <2>2, <2>3, <2>4, <2>5
<1> QED BY <1>5, <1>6

----------------------------------------------------------------------------
\* Hello keys may go and none is made; with Entra ID they go only after too many failures.
FewerKeys(p, q) ==
    /\ q \in Provider /\ q.made = p.made
    /\ q.ks.hello \in {p.ks.hello, NoKey} /\ q.ks.decoupled \in {p.ks.decoupled, NoKey}
    /\ cfg.entra => (SameKeys(p, q) \/ q.bad > Retry)

\* The results of a step with a PIN that loads its key.
PinResult == Refusal \cup {"Success", "HelloTOTP", "MFAPoll", "Fido", "Password"}
\* A step with a PIN that loads its key: an end with Success has the PIN, and the second
\* factor where one is configured and set up.
PinAccepted(p, o) ==
    /\ o.h \in Handler /\ o.r \in PinResult /\ o.shown \subseteq Tags
    /\ FewerKeys(p, o.p)
    /\ o.r \in {"Success", "HelloTOTP"} => "pin" \in o.shown
    /\ o.r = "Success" /\ cfg.totp => "offline" \in o.shown

\* How the three relations between key stores fit together.
LEMMA SameFewer ==
    ASSUME NEW p, NEW q, NEW r
    PROVE  /\ SameKeys(p, q) => FewerKeys(p, q)
           /\ Kept(p, q) => SameKeys(p, q)
           /\ Kept(p, q) => q \in Provider
           /\ SameKeys(p, q) => q \in Provider
           /\ SameKeys(p, q) /\ SameKeys(q, r) => SameKeys(p, r)
           /\ SameKeys(p, q) /\ FewerKeys(q, r) => FewerKeys(p, r)
BY DEF SameKeys, FewerKeys, Kept

\* An answer that keeps or drops keys, and says what was shown, is a step of an accepted PIN.
LEMMA OutPin ==
    ASSUME NEW p, NEW q, NEW h \in Handler, NEW r \in PinResult, NEW shown \in SUBSET Tags,
           FewerKeys(p, q), r \in {"Success", "HelloTOTP"} => "pin" \in shown,
           r = "Success" /\ cfg.totp => "offline" \in shown
    PROVE  PinAccepted(p, Out(q, h, r, shown))
BY DEF PinAccepted, Out

\* A part that keeps the keys may come before a step of an accepted PIN.
LEMMA PinTrans ==
    ASSUME NEW p, NEW q, NEW o, SameKeys(p, q), PinAccepted(q, o)
    PROVE  PinAccepted(p, o)
BY SameFewer DEF PinAccepted

\* A refusal at the directory is one for an accepted PIN too.
LEMMA RefusalPin ==
    ASSUME NEW p, NEW o, Directory(p, o, Refusal)
    PROVE  PinAccepted(p, o)
BY SameFewer DEF Directory, PinAccepted, Refusal, PinResult

\* second_factor: the code is asked for where it is configured and the account has set it up.
LEMMA SecondFactor ==
    ASSUME NEW p, NEW q, SameKeys(p, q), NEW h \in Handler, NEW pin \in Pins \cup {NoKey},
           NEW shown \in SUBSET Tags, "pin" \in shown
    PROVE  PinAccepted(p, second_factor(q, h, pin, shown))
<1> DEFINE key == fetch_hello_key(q)
<1>1. q \in Provider /\ FewerKeys(p, q) /\ key \in Slot
  BY SameFewer DEF Provider, KeyStore, fetch_hello_key
<1>2. CASE ~cfg.totp
  BY <1>1, <1>2, OutPin DEF second_factor, PinResult
<1>3. CASE cfg.totp /\ check_hello_totp_setup(q)
  <2> DEFINE g == [NoHandler EXCEPT !.k = "HelloTOTP", !.pin = pin]
  <2>1. g \in Handler
    BY HandlerTypes
  <2> HIDE DEF g
  <2>2. PinAccepted(p, Out(q, g, "HelloTOTP", shown))
    BY <1>1, <2>1, OutPin DEF PinResult
  <2> QED BY <1>3, <2>2 DEF second_factor, g
<1>4. CASE cfg.totp /\ ~check_hello_totp_setup(q)
  <2> DEFINE g == [NoHandler EXCEPT !.k = "HelloTOTP", !.pin = pin, !.pending = key]
  <2>1. g \in Handler
    BY <1>1, HandlerTypes
  <2> HIDE DEF g
  <2>2. PinAccepted(p, Out(q, g, "HelloTOTP", {"pin"}))
    BY <1>1, <2>1, OutPin DEF PinResult, Tags
  <2>3. PinAccepted(p, Fail(q, h))
    BY <1>1, OutPin DEF Fail, PinResult, Refusal
  <2> QED BY <1>4, <2>2, <2>3 DEF second_factor, impl_setup_hello_totp, g
<1> QED BY <1>2, <1>3, <1>4

\* request_reauth falls back to a full sign-in and keeps the Hello keys.
LEMMA Reauth ==
    ASSUME NEW p, NEW q, SameKeys(p, q), NEW h \in Handler, NEW pin \in Pins \cup {NoKey},
           NEW o \in request_reauth(q, h, pin)
    PROVE  PinAccepted(p, o)
<1> DEFINE g == [NoHandler EXCEPT !.k = "ReauthPassword", !.pin = pin]
           m == Mfa(pin, FALSE)
<1>1. g \in Handler /\ m \in Handler /\ q \in Provider /\ FewerKeys(p, q)
  BY HandlerTypes, SameFewer
<1>2. SameKeys(p, Offline(q)) /\ FewerKeys(p, Offline(q))
  BY <1>1, FieldsKept, SameFewer
<1>3. \/ o = Denied(Offline(q), h)
      \/ o = Denied(q, h)
      \/ o = Out(q, m, "MFAPoll", {"pin"})
      \/ o = Out(q, m, "Fido", {"pin"})
      \/ o = Out(q, g, "Password", {"pin"})
  BY DEF request_reauth
<1>4. {"pin"} \in SUBSET Tags /\ {} \in SUBSET Tags /\ {"Denied", "MFAPoll", "Fido", "Password"} \subseteq PinResult
  BY DEF Tags, PinResult, Refusal
<1> HIDE DEF g, m
<1>5. \A r \in {"MFAPoll", "Fido", "Password"}, f \in {g, m} : PinAccepted(p, Out(q, f, r, {"pin"}))
  BY <1>1, <1>4, OutPin
<1>6. PinAccepted(p, Denied(Offline(q), h)) /\ PinAccepted(p, Denied(q, h))
  BY <1>1, <1>2, <1>4, OutPin DEF Denied
<1> QED BY <1>3, <1>5, <1>6

\* Dropping the sealed PRT or refresh token keeps the Hello keys.
LEMMA UnsealedKept ==
    ASSUME NEW p \in Provider
    PROVE  /\ SameKeys(p, [p EXCEPT !.ks.prt = NoKey])
           /\ SameKeys(p, [p EXCEPT !.ks.rt = NoKey])
BY DEF SameKeys, Provider, KeyStore, Slot

\* The exchange of a Hello key, a PRT or a refresh token: a token, or the end of the step.
Exchanged(p, o) == PinAccepted(p, o) \/ (o.r \in Kinds /\ SameKeys(p, o.p))

\* The parts of auth_and_validate_hello_key that end it, and those that get a token.
LEMMA PinParts ==
    ASSUME NEW p \in Provider, NEW h \in Handler, NEW pin \in Pins \cup {NoKey}
    PROVE  /\ PinAccepted(p, Downgrade(p, h, pin))
           /\ PinAccepted(p, sspr_demand_hello_fallback(p, h, pin))
           /\ PinAccepted(p, Denied(p, h))
           /\ \A o \in check_new_device_enrollment_required(p, h) : PinAccepted(p, o)
           /\ \A o \in HelloRefused(p, h) : PinAccepted(p, o)
           /\ \A kind \in Kinds : Exchanged(p, Out(reset_bad_pin_count(p), h, kind, {}))
<1>1. SameKeys(p, p) /\ SameKeys(p, Offline(p)) /\ SameKeys(p, reset_bad_pin_count(p))
  BY KeptTrans, FieldsKept, ResetKept, SameFewer
<1>2. {"pin", "outage"} \in SUBSET Tags /\ {"pin"} \in SUBSET Tags /\ "pin" \in {"pin", "outage"} /\ "pin" \in {"pin"}
  BY DEF Tags
<1>3. PinAccepted(p, Downgrade(p, h, pin)) /\ PinAccepted(p, sspr_demand_hello_fallback(p, h, pin))
  BY <1>1, <1>2, SecondFactor DEF Downgrade, sspr_demand_hello_fallback
<1>4. \A o \in RequestErrors(p, h) : PinAccepted(p, o)
  BY RequestErrorsDirectory, DirectoryWiden, ResultSets, RefusalPin, SMT
<1>5. Denied(p, h) \in RequestErrors(p, h) /\ check_new_device_enrollment_required(p, h) \subseteq RequestErrors(p, h)
  BY DEF RequestErrors, net_down_check
<1>6. PinAccepted(p, handle_hello_bad_pin_count(p, h))
  <2>1. SameKeys(p, handle_hello_bad_pin_count(p, h).p) \/ handle_hello_bad_pin_count(p, h).p.bad > Retry
    BY HelloAssumption, SMT DEF handle_hello_bad_pin_count, Denied, Out, SameKeys, Provider, KeyStore
  <2> DEFINE b == handle_hello_bad_pin_count(p, h)
  <2>2. /\ b.p \in Provider /\ b.p.made = p.made /\ b.h = h /\ b.r = "Denied" /\ b.shown = {}
        /\ b.p.ks.hello \in {p.ks.hello, NoKey} /\ b.p.ks.decoupled \in {p.ks.decoupled, NoKey}
    BY BadPin
  <2> HIDE DEF b
  <2> QED BY <2>1, <2>2 DEF b, PinAccepted, FewerKeys, PinResult, Refusal
<1>7. \A kind \in Kinds : Exchanged(p, Out(reset_bad_pin_count(p), h, kind, {}))
  BY <1>1 DEF Exchanged, Out
<1> QED BY <1>3, <1>4, <1>5, <1>6, <1>7 DEF HelloRefused

\* The three exchanges and the reauthentication of auth_and_validate_hello_key.
LEMMA Exchanges ==
    ASSUME NEW p \in Provider, NEW h \in Handler, NEW pin \in Pins \cup {NoKey}, NEW o,
           \/ o \in acquire_token_by_hello_for_business_key(p, h, pin)
           \/ o \in exchange_prt(p, h, pin)
           \/ o \in exchange_refresh_token(p, h, pin)
           \/ o \in request_reauth(p, h, pin)
    PROVE  Exchanged(p, o)
<1> DEFINE a == [p EXCEPT !.ks.prt = NoKey]
           b == [p EXCEPT !.ks.rt = NoKey]
<1>1. SameKeys(p, p) /\ SameKeys(p, a) /\ SameKeys(p, b) /\ a \in Provider /\ b \in Provider
  BY KeptTrans, UnsealedKept, SameFewer, SMT
<1>2. \/ o = Downgrade(p, h, pin)
      \/ o = sspr_demand_hello_fallback(p, h, pin)
      \/ o = Denied(p, h)
      \/ o \in HelloRefused(p, h)
      \/ o \in check_new_device_enrollment_required(p, h)
      \/ \E kind \in Kinds : o = Out(reset_bad_pin_count(p), h, kind, {})
      \/ o \in request_reauth(reset_bad_pin_count(a), h, pin)
      \/ o \in request_reauth(reset_bad_pin_count(b), h, pin)
      \/ o \in request_reauth(p, h, pin)
  BY DEF acquire_token_by_hello_for_business_key, exchange_prt, exchange_refresh_token, Kinds
<1> HIDE DEF a, b
<1>3. SameKeys(p, reset_bad_pin_count(a)) /\ SameKeys(p, reset_bad_pin_count(b))
  BY <1>1, ResetKept, SameFewer
<1>4. ASSUME NEW q, SameKeys(p, q), o \in request_reauth(q, h, pin) PROVE PinAccepted(p, o)
  BY <1>4, Reauth
<1> QED BY <1>1, <1>2, <1>3, <1>4, PinParts DEF Exchanged

\* The token of an accepted PIN, validated and sealed, then the second factor.
LEMMA HelloTokenPin ==
    ASSUME NEW p \in Provider, NEW h \in Handler, NEW key \in Keys, NEW pin \in Pins \cup {NoKey},
           NEW kind \in Kinds,
           NEW o \in HelloToken(p, h, key, pin, kind)
    PROVE  PinAccepted(p, o)
<1> DEFINE Valid(q) == {second_factor(q, h, pin, {"pin"})}
<1>1. PICK q \in intune_enroll(Seal(p, key, kind)) : o \in AndThen(token_validate(q, h, {kind}), Valid)
  BY DEF HelloToken
<1>2. SameKeys(p, q) /\ q \in Provider
  <2> DEFINE t == Seal(p, key, kind)
  <2>1. SameKeys(p, t) /\ t \in Provider
    BY SealKept, SameFewer
  <2>2. q \in intune_enroll(t)
    BY <1>1
  <2> HIDE DEF t
  <2>3. Kept(t, q)
    BY <2>1, <2>2, EnrolledKept
  <2> QED BY <2>1, <2>3, SameFewer
<1>3. PICK a \in token_validate(q, h, {kind}) : o \in IF a.r = "ok" THEN Valid(a.p) ELSE {a}
  BY <1>1 DEF AndThen
<1>4. Directory(q, a, Refusal \cup {"ok"}) /\ (a.r = "ok" => Kept(q, a.p))
  BY <1>2, TokenValidate
<1>5. CASE a.r = "ok"
  <2>1. SameKeys(q, a.p) /\ {"pin"} \in SUBSET Tags /\ "pin" \in {"pin"}
    BY <1>4, <1>5, SameFewer DEF Tags
  <2>2. PinAccepted(q, second_factor(a.p, h, pin, {"pin"}))
    BY <2>1, SecondFactor
  <2> QED BY <1>2, <1>3, <1>5, <2>2, PinTrans
<1>6. CASE a.r # "ok"
  <2>1. Directory(q, a, Refusal) /\ o = a
    BY <1>3, <1>4, <1>6 DEF Directory
  <2> QED BY <1>2, <2>1, RefusalPin, PinTrans
<1> QED BY <1>5, <1>6

\* auth_and_validate_hello_key of Entra ID: a PIN that does not load the key is counted, and
\* nothing else is done.
LEMMA EntraHello ==
    ASSUME NEW p \in Provider, NEW h \in Handler, NEW key \in Keys, NEW registered,
           NEW pin \in Pins \cup {NoKey},
           NEW o \in auth_and_validate_hello_key(p, h, key, registered, pin)
    PROVE  IF ms_hello_key_load(key, pin) THEN PinAccepted(p, o) ELSE o = handle_hello_bad_pin_count(p, h)
<1>1. CASE ~ms_hello_key_load(key, pin)
  BY <1>1 DEF auth_and_validate_hello_key
<1>2. CASE ms_hello_key_load(key, pin)
  <2>1. PICK a : /\ \/ a \in acquire_token_by_hello_for_business_key(p, h, pin)
                    \/ a \in exchange_prt(p, h, pin)
                    \/ a \in exchange_refresh_token(p, h, pin)
                    \/ a \in request_reauth(p, h, pin)
                 /\ o \in IF a.r \in Kinds THEN HelloToken(a.p, h, key, pin, a.r) ELSE {a}
    BY <1>2 DEF auth_and_validate_hello_key
  <2>2. Exchanged(p, a)
    BY <2>1, Exchanges
  <2>3. CASE a.r \in Kinds
    <3>1. ~PinAccepted(p, a)
      BY <2>3 DEF PinAccepted, PinResult, Refusal, Kinds
    <3>2. SameKeys(p, a.p) /\ a.p \in Provider
      BY <2>2, <3>1, SameFewer DEF Exchanged
    <3> QED BY <1>2, <2>1, <2>3, <3>2, HelloTokenPin, PinTrans
  <2>4. CASE a.r \notin Kinds
    BY <1>2, <2>1, <2>2, <2>4 DEF Exchanged
  <2> QED BY <2>3, <2>4
<1> QED BY <1>1, <1>2

\* The refreshed token of OIDC, sealed and validated, then the second factor.
LEMMA OidcToken ==
    ASSUME NEW p \in Provider, NEW h \in Handler, NEW key \in Keys, NEW pin \in Pins \cup {NoKey},
           NEW o \in RefreshedToken(p, h, key, pin)
    PROVE  PinAccepted(p, o)
<1> DEFINE Valid(q) == {second_factor(q, h, pin, {"pin"})}
           q == Seal(p, key, "rt")
<1>1. \/ o = Denied(p, h) \/ o = Fail(p, h)
      \/ o \in AndThen(oidc_token_validate(q, h), Valid)
  BY DEF RefreshedToken
<1>2. SameKeys(p, q) /\ q \in Provider
  BY SealKept, SameFewer
<1> HIDE DEF q
<1>3. CASE o = Denied(p, h) \/ o = Fail(p, h)
  BY <1>3, KeptTrans, RefusalDirectory, DirectoryWiden, ResultSets, RefusalPin, SMT
<1>4. CASE o \in AndThen(oidc_token_validate(q, h), Valid)
  <2>1. PICK a \in oidc_token_validate(q, h) : o \in IF a.r = "ok" THEN Valid(a.p) ELSE {a}
    BY <1>4 DEF AndThen
  <2>2. Directory(q, a, Refusal \cup {"ok"}) /\ (a.r = "ok" => Kept(q, a.p))
    BY <1>2, OidcValidate
  <2>3. CASE a.r = "ok"
    <3>1. SameKeys(q, a.p) /\ {"pin"} \in SUBSET Tags /\ "pin" \in {"pin"}
      BY <2>2, <2>3, SameFewer DEF Tags
    <3>2. PinAccepted(q, second_factor(a.p, h, pin, {"pin"}))
      BY <3>1, SecondFactor
    <3> QED BY <1>2, <2>1, <2>3, <3>2, PinTrans
  <2>4. CASE a.r # "ok"
    <3>1. Directory(q, a, Refusal) /\ o = a
      BY <2>1, <2>2, <2>4 DEF Directory
    <3> QED BY <1>2, <3>1, RefusalPin, PinTrans
  <2> QED BY <2>3, <2>4
<1> HIDE DEF Valid
<1> QED BY <1>1, <1>3, <1>4

\* auth_and_validate_hello_key of OIDC: the same as EntraHello, but a refused refresh token
\* takes the Hello key with it, which FewerKeys allows only without Entra ID.
LEMMA OidcHello ==
    ASSUME NEW p \in Provider, NEW h \in Handler, NEW key \in Keys, NEW registered,
           NEW pin \in Pins \cup {NoKey},
           ~cfg.entra, NEW o \in oidc_auth_and_validate_hello_key(p, h, key, registered, pin)
    PROVE  IF ms_hello_key_load(key, pin) THEN PinAccepted(p, o) ELSE o = handle_hello_bad_pin_count(p, h)
<1> DEFINE d == [p EXCEPT !.ks.decoupled = NoKey]
           e == [p EXCEPT !.ks.rt = NoKey, !.ks.decoupled = NoKey]
<1>1. FewerKeys(p, d) /\ FewerKeys(p, e) /\ e \in Provider
  BY DEF FewerKeys, Provider, KeyStore, Slot
<1>2. CASE ~ms_hello_key_load(key, pin)
  BY <1>2 DEF oidc_auth_and_validate_hello_key
<1>3. CASE ms_hello_key_load(key, pin)
  <2>1. \/ o = Denied(d, h)
        \/ o = Denied(p, h)
        \/ o \in RefreshedToken(reset_bad_pin_count(p), h, key, pin)
        \/ o = Out(reset_bad_pin_count(e), h, "Denied", {})
        \/ o = Out(reset_bad_pin_count(e), h, "Denied", {"outage"})
    <3>1. {"refused"} \ {"refused"} = {} /\ {"outage"} \ {"refused"} = {"outage"}
      OBVIOUS
    <3> QED BY <1>3, <3>1 DEF oidc_auth_and_validate_hello_key, OidcExchange, RefreshFailed,
               acquire_token_by_refresh_token
  <2> HIDE DEF d, e
  <2>2. FewerKeys(p, reset_bad_pin_count(e))
    BY <1>1, ResetKept DEF FewerKeys, SameKeys
  <2>3. {} \in SUBSET Tags /\ {"outage"} \in SUBSET Tags /\ "Denied" \in PinResult
    BY DEF Tags, PinResult, Refusal
  <2>4. SameKeys(p, p) /\ FewerKeys(p, p) /\ SameKeys(p, reset_bad_pin_count(p)) /\ reset_bad_pin_count(p) \in Provider
    BY KeptTrans, ResetKept, SameFewer
  <2>5. \A x \in {d, p} : PinAccepted(p, Denied(x, h))
    BY <1>1, <2>3, <2>4, OutPin DEF Denied
  <2>6. /\ PinAccepted(p, Out(reset_bad_pin_count(e), h, "Denied", {}))
        /\ PinAccepted(p, Out(reset_bad_pin_count(e), h, "Denied", {"outage"}))
    BY <2>2, <2>3, OutPin
  <2> QED BY <1>3, <2>1, <2>4, <2>5, <2>6, OidcToken, PinTrans
<1> QED BY <1>2, <1>3

----------------------------------------------------------------------------
\* A step with the code of the second factor: it ends with Success only for a right code, and
\* is counted with the bad PINs.
TotpStep(p, o) ==
    /\ o.p \in Provider /\ o.p.made = p.made
    /\ o.p.ks.hello \in {p.ks.hello, NoKey} /\ o.p.ks.decoupled \in {p.ks.decoupled, NoKey}
    /\ SameKeys(p, o.p) \/ o.p.bad > Retry
    /\ o.p.bad >= p.bad \/ o.r = "Success"
    /\ o.h \in Handler /\ o.r \in Refusal \cup {"Success"} /\ o.shown \subseteq Tags
    /\ o.r = "Success" => "totp" \in o.shown

\* A wrong code counts as a bad PIN.
LEMMA BadPinTotp ==
    ASSUME NEW p \in Provider, NEW h \in Handler
    PROVE  TotpStep(p, handle_hello_bad_pin_count(p, h))
<1> DEFINE b == handle_hello_bad_pin_count(p, h)
<1>1. SameKeys(p, b.p) \/ b.p.bad > Retry
  BY HelloAssumption, SMT DEF handle_hello_bad_pin_count, Denied, Out, SameKeys, Provider, KeyStore
<1>2. /\ b.p \in Provider /\ b.p.made = p.made /\ b.h = h /\ b.r = "Denied" /\ b.shown = {} /\ b.p.bad = p.bad + 1
      /\ b.p.ks.hello \in {p.ks.hello, NoKey} /\ b.p.ks.decoupled \in {p.ks.decoupled, NoKey}
  BY BadPin
<1>3. b.p.bad >= p.bad
  BY <1>2, SMT DEF Provider
<1> HIDE DEF b
<1> QED BY <1>1, <1>2, <1>3 DEF b, TotpStep, Refusal

\* A code that the handler cannot check gets an error.
LEMMA UnusedTotp ==
    ASSUME NEW p \in Provider, NEW h \in Handler, NEW code
    PROVE  TotpStep(p, Fail(p, h)) /\ TotpStep(p, CodeUnused(p, h, code))
<1>1. SameKeys(p, p) /\ p.bad >= p.bad
  BY SMT DEF SameKeys, Provider
<1> QED BY <1>1 DEF TotpStep, Fail, CodeUnused, Out, Tags, Refusal

\* impl_handle_hello_pin_totp_auth, for any handler and code.
LEMMA Totp ==
    ASSUME NEW p \in Provider, NEW h \in Handler, NEW code
    PROVE  TotpStep(p, impl_handle_hello_pin_totp_auth(p, h, code))
<1> DEFINE sealed == IF h.pending # NoKey THEN h.pending ELSE p.ks.totp
           q == reset_bad_pin_count(p)
           r == [q EXCEPT !.ks.totp = sealed]
<1>1. sealed \in Slot
  BY DEF Handler, Provider, KeyStore
<1>2. q \in Provider /\ SameKeys(p, q)
  BY ResetKept DEF SameKeys
<1> HIDE DEF sealed, q
<1>3. SameKeys(q, r)
  BY <1>1, <1>2 DEF SameKeys, Provider, KeyStore
<1>4. SameKeys(p, r)
  BY <1>2, <1>3, SameFewer
<1> HIDE DEF r
<1>5. TotpStep(p, Out(r, h, "Success", {"totp"}))
  BY <1>4 DEF TotpStep, Out, SameKeys, Tags
<1> QED BY <1>5, BadPinTotp, UnusedTotp DEF impl_handle_hello_pin_totp_auth, sealed, q, r

\* The PIN of unix_user_offline_auth_step, where a Success without a code is recorded as such.
LEMMA OfflineHello ==
    ASSUME NEW p \in Provider, NEW h \in Handler, NEW pin, fetch_hello_key(p) # NoKey
    PROVE  /\ IF ms_hello_key_load(fetch_hello_key(p), pin) THEN PinAccepted(p, OfflinePin(p, h, pin))
              ELSE OfflinePin(p, h, pin) = handle_hello_bad_pin_count(p, h)
           /\ OfflinePin(p, h, pin).r = "Success" => "offline" \in OfflinePin(p, h, pin).shown
<1> DEFINE key == fetch_hello_key(p)
           prt == load_cached_prt(p, key)
           e == [p EXCEPT !.mem = "prt"]
           q == IF cfg.entra /\ p.ks.prt # NoKey THEN e ELSE p
           f == [q EXCEPT !.mem = "rt"]
           r == IF p.ks.rt # NoKey THEN f ELSE q
           o == OfflinePin(p, h, pin)
<1>1. CASE ~ms_hello_key_load(key, pin)
  <2>1. o = handle_hello_bad_pin_count(p, h)
    BY <1>1 DEF OfflinePin
  <2>2. o.r = "Denied"
    <3> HIDE DEF o
    <3> QED BY <2>1, BadPin, SMT
  <2> QED BY <1>1, <2>1, <2>2
<1>2. CASE ms_hello_key_load(key, pin)
  <2>1. \/ o = Out(p, h, prt, {}) /\ prt # "ok"
        \/ o = Fail(q, h)
        \/ o = Out(r, h, "HelloTOTP", {"pin"}) /\ prt = "ok"
        \/ o = Out(reset_bad_pin_count(r), h, "Success", {"pin", "offline"}) /\ prt = "ok"
    BY <1>2 DEF OfflinePin
  <2>2. prt \in {"ok", "Error", "Denied"}
    BY DEF load_cached_prt
  <2>3. o.r = "Success" => "offline" \in o.shown
    BY <2>1, <2>2, SMT DEF Out, Fail
  <2>4. SameKeys(p, p) /\ SameKeys(p, q) /\ SameKeys(p, r)
    <3>1. SameKeys(p, p) /\ SameKeys(p, e)
      <4>1. Kept(p, p)
        BY KeptTrans
      <4>2. Kept(p, e)
        BY FieldsKept
      <4> HIDE DEF e
      <4> QED BY <4>1, <4>2, SameFewer
    <3>2. SameKeys(p, q) /\ q \in Provider
      BY <3>1, SameFewer
    <3> HIDE DEF q
    <3>3. SameKeys(q, f)
      BY <3>2, FieldsKept, SameFewer
    <3> QED BY <3>1, <3>2, <3>3, SameFewer
  <2> HIDE DEF prt, q, r, o, key
  <2>5. FewerKeys(p, p) /\ FewerKeys(p, q) /\ FewerKeys(p, r) /\ FewerKeys(p, reset_bad_pin_count(r))
    BY <2>4, SameFewer, ResetKept
  <2>6. /\ {} \in SUBSET Tags /\ {"pin"} \in SUBSET Tags /\ {"pin", "offline"} \in SUBSET Tags
        /\ "pin" \in {"pin"} /\ "pin" \in {"pin", "offline"} /\ "offline" \in {"pin", "offline"}
        /\ {"Error", "Denied", "HelloTOTP", "Success"} \subseteq PinResult
    BY DEF Tags, PinResult, Refusal
  <2>7. prt # "ok" => PinAccepted(p, Out(p, h, prt, {}))
    BY <2>2, <2>5, <2>6, OutPin
  <2>8. PinAccepted(p, Fail(q, h))
    BY <2>5, <2>6, OutPin DEF Fail
  <2>9. PinAccepted(p, Out(r, h, "HelloTOTP", {"pin"}))
    BY <2>5, <2>6, OutPin
  <2>10. PinAccepted(p, Out(reset_bad_pin_count(r), h, "Success", {"pin", "offline"}))
    BY <2>5, <2>6, OutPin
  <2>11. PinAccepted(p, o)
    BY <2>1, <2>7, <2>8, <2>9, <2>10
  <2> QED BY <1>2, <2>3, <2>11 DEF o, key
<1> QED BY <1>1, <1>2

----------------------------------------------------------------------------
\* The results of a step.
StepResult == PasswordResult \cup {"HelloTOTP", "MFAPollWait", "Password"}

\* What any step of either provider may do. It keeps a Hello key of Entra ID unless there were
\* too many failures; makes a key only when it sets up a PIN; counts a checked wrong PIN and
\* takes the key after Retry of them; lowers the count only for a right PIN, a new PIN or a
\* Success; ends with Success only for the proofs shown; and bounds the polling.
StepOutcome(p, req, o) ==
    LET key == fetch_hello_key(p)
        right == ms_hello_key_load(key, req.pin)
    IN  /\ o.p \in Provider /\ o.h \in Handler /\ o.r \in StepResult /\ o.shown \subseteq Tags
        /\ cfg.entra /\ key # NoKey => fetch_hello_key(o.p) # NoKey \/ o.p.bad > Retry
        /\ key = NoKey /\ fetch_hello_key(o.p) # NoKey => o.p.made # p.made
        /\ o.p.bad >= p.bad \/ o.p.made # p.made \/ o.r = "Success" \/ (req.t = "Pin" /\ right)
        /\ req.t = "Pin" /\ key # NoKey /\ ~right /\ "unchecked" \notin o.shown =>
              o.p.bad = p.bad + 1 /\ (fetch_hello_key(o.p) # NoKey => o.p.bad <= Retry)
        /\ o.r = "Success" =>
              \/ o.shown \cap Full # {}
              \/ req.t \in {"Pin", "SetupPin"} /\ "pin" \in o.shown /\ (cfg.totp => "offline" \in o.shown)
              \/ req.t = "HelloTOTP" /\ "totp" \in o.shown
        /\ o.r = "HelloTOTP" => req.t \in {"Pin", "SetupPin"} /\ "pin" \in o.shown
        /\ o.r = "SetupPin" => o.shown \cap Full # {} \/ req.t = "SetupPin"
        /\ req.t = "MFAPoll" => o.r # "MFAPoll" /\ (o.r = "MFAPollWait" => req.attempt <= MaxPoll)

\* A Directory step is one of the provider's steps, unless a PIN is there to be checked.
LEMMA DirectoryStep ==
    ASSUME NEW p \in Provider, NEW req, NEW o, NEW R, Directory(p, o, R),
           req.t # "Pin" \/ fetch_hello_key(p) = NoKey,
           R \subseteq PasswordResult \cup {"MFAPollWait", "Password"},
           req.t = "MFAPoll" => o.r # "MFAPoll" /\ (o.r = "MFAPollWait" => req.attempt <= MaxPoll)
    PROVE  StepOutcome(p, req, o)
<1>1. o.p \in Provider /\ o.h \in Handler /\ o.r \in StepResult /\ o.shown \subseteq Tags /\ o.r # "HelloTOTP"
  BY DEF Directory, SameKeys, StepResult, PasswordResult, MfaResult, Refusal
<1>2. fetch_hello_key(o.p) = fetch_hello_key(p) /\ o.p.made = p.made
  BY DEF Directory, SameKeys, fetch_hello_key
<1>3. o.p.bad >= p.bad \/ o.r = "Success"
  BY SMT DEF Directory, Provider
<1>4. o.r \in {"Success", "SetupPin"} => o.shown \cap Full # {}
  BY DEF Directory
<1> QED BY <1>1, <1>2, <1>3, <1>4 DEF StepOutcome

\* The refusals that every request has.
LEMMA Refused ==
    ASSUME NEW p \in Provider, NEW h \in Handler
    PROVE  /\ Directory(p, Denied(p, h), Refusal)
           /\ Directory(p, Fail(p, h), Refusal)
           /\ Directory(p, Out(p, h, "NotFound", {}), Refusal)
           /\ \A o \in RequestErrors(p, h) : Directory(p, o, Refusal)
<1>1. Kept(p, p)
  BY KeptTrans
<1>2. /\ Directory(p, Denied(p, h), {"Denied"})
      /\ Directory(p, Fail(p, h), {"Error"})
      /\ Directory(p, Out(p, h, "NotFound", {}), {"NotFound"})
  BY <1>1, RefusalDirectory
<1> QED BY <1>2, RequestErrorsDirectory, DirectoryWiden, ResultSets

\* A Directory step that does not poll.
LEMMA MfaStep ==
    ASSUME NEW p \in Provider, NEW req, NEW o, NEW R \in {Refusal, MfaResult}, Directory(p, o, R),
           req.t # "Pin" \/ fetch_hello_key(p) = NoKey
    PROVE  StepOutcome(p, req, o)
<1>1. /\ R \subseteq PasswordResult \cup {"MFAPollWait", "Password"}
      /\ "MFAPoll" \notin R /\ "MFAPollWait" \notin R
  BY DEF Refusal, MfaResult, PasswordResult
<1>2. o.r \in R
  BY DEF Directory
<1> QED BY <1>1, <1>2, DirectoryStep

\* A step with the code of the second factor.
LEMMA TotpOutcome ==
    ASSUME NEW p \in Provider, NEW req, NEW o, TotpStep(p, o), req.t = "HelloTOTP"
    PROVE  StepOutcome(p, req, o)
<1>1. o.p \in Provider /\ o.h \in Handler /\ o.r \in StepResult /\ o.shown \subseteq Tags /\ o.r \notin {"HelloTOTP", "SetupPin"}
  BY DEF TotpStep, StepResult, PasswordResult, MfaResult, Refusal
<1>2. /\ fetch_hello_key(p) # NoKey => fetch_hello_key(o.p) # NoKey \/ o.p.bad > Retry
      /\ fetch_hello_key(p) = NoKey => fetch_hello_key(o.p) = NoKey
  BY DEF TotpStep, SameKeys, fetch_hello_key
<1> QED BY <1>1, <1>2 DEF StepOutcome, TotpStep

\* The PIN typed at a sign-in: it loads the stored key, or is counted.
LEMMA PinOutcome ==
    ASSUME NEW p \in Provider, NEW h \in Handler, NEW req, NEW o, req.t = "Pin", fetch_hello_key(p) # NoKey,
           IF ms_hello_key_load(fetch_hello_key(p), req.pin) THEN PinAccepted(p, o)
           ELSE o = handle_hello_bad_pin_count(p, h)
    PROVE  StepOutcome(p, req, o)
<1>1. CASE ms_hello_key_load(fetch_hello_key(p), req.pin)
  <2>1. o.p \in Provider /\ o.h \in Handler /\ o.r \in StepResult /\ o.shown \subseteq Tags /\ o.r # "SetupPin"
    BY <1>1 DEF PinAccepted, FewerKeys, PinResult, StepResult, PasswordResult, MfaResult, Refusal
  <2>2. cfg.entra => fetch_hello_key(o.p) # NoKey \/ o.p.bad > Retry
    BY <1>1 DEF PinAccepted, FewerKeys, SameKeys, fetch_hello_key
  <2> QED BY <1>1, <2>1, <2>2 DEF StepOutcome, PinAccepted
<1>2. CASE ~ms_hello_key_load(fetch_hello_key(p), req.pin)
  <2>1. /\ o.p \in Provider /\ o.p.made = p.made /\ o.p.bad = p.bad + 1
        /\ o.h = h /\ o.r = "Denied" /\ o.shown = {}
        /\ p.bad + 1 > Retry => fetch_hello_key(o.p) = NoKey
        /\ p.bad + 1 <= Retry => fetch_hello_key(o.p) = fetch_hello_key(p)
    BY <1>2, BadPin, SMT
  <2>2. p.bad \in Nat /\ Retry \in Nat
    BY HelloAssumption DEF Provider
  <2>3. o.p.bad >= p.bad /\ (fetch_hello_key(o.p) # NoKey <=> o.p.bad <= Retry) /\ (o.p.bad <= Retry \/ o.p.bad > Retry)
    BY <2>1, <2>2, SMT
  <2>4. "Denied" \in StepResult
    BY DEF StepResult, PasswordResult, MfaResult, Refusal
  <2> QED BY <1>2, <2>1, <2>3, <2>4 DEF StepOutcome
<1> QED BY <1>1, <1>2

\* StoreKey: the new key is the stored one, is opened by its PIN, and keeps the count.
LEMMA Stored ==
    ASSUME NEW p \in Provider, NEW flag, NEW pin \in Pins, cfg.keys \in 1..MaxKeys, p.made < cfg.keys
    PROVE  /\ NewKey(p, pin) \in Keys /\ ms_hello_key_load(NewKey(p, pin), pin)
           /\ StoreKey(p, flag, pin) \in Provider
           /\ StoreKey(p, flag, pin).made # p.made
           /\ fetch_hello_key(StoreKey(p, flag, pin)) # NoKey
           /\ StoreKey(p, flag, pin).bad = p.bad
<1>1. NewKey(p, pin) \in Keys /\ NewKey(p, pin).pin = pin
  BY HelloAssumption, SMT DEF NewKey, Keys, Provider
<1>2. NewKey(p, pin) # NoKey
  BY <1>1, HelloAssumption DEF Keys
<1> DEFINE k == NewKey(p, pin)
<1> HIDE DEF k
<1>3. k \in Slot /\ k # NoKey
  BY <1>1, <1>2 DEF k, Slot
<1>4. p.made + 1 \in 0..MaxKeys /\ p.made + 1 # p.made
  BY HelloAssumption, SMT DEF Provider
<1> DEFINE a == [p.ks EXCEPT !.hello = k]
           b == [p.ks EXCEPT !.decoupled = k]
           m == [p EXCEPT !.made = @ + 1]
<1>5. a \in KeyStore /\ b \in KeyStore /\ a.hello = k /\ b.decoupled = k /\ b.hello = p.ks.hello
  BY <1>3 DEF Provider, KeyStore
<1>6. m \in Provider /\ m.ks = p.ks /\ m.made = p.made + 1 /\ m.bad = p.bad
  BY <1>4 DEF Provider
<1>7. StoreKey(p, flag, pin) = IF flag THEN [m EXCEPT !.ks = a] ELSE [m EXCEPT !.ks = b]
  BY DEF StoreKey, k, Provider, KeyStore
<1> HIDE DEF a, b, m
<1>8. \A x \in KeyStore : /\ [m EXCEPT !.ks = x] \in Provider
                          /\ [m EXCEPT !.ks = x].ks = x
                          /\ [m EXCEPT !.ks = x].made = m.made
                          /\ [m EXCEPT !.ks = x].bad = m.bad
  BY <1>6 DEF Provider
<1> DEFINE s == StoreKey(p, flag, pin)
<1>9. s \in Provider /\ s.made = m.made /\ s.bad = m.bad /\ s.ks = IF flag THEN a ELSE b
  BY <1>5, <1>7, <1>8
<1>10. fetch_hello_key(s) # NoKey
  BY <1>3, <1>5, <1>9 DEF fetch_hello_key
<1> QED BY <1>1, <1>2, <1>4, <1>6, <1>9, <1>10 DEF ms_hello_key_load

\* A PIN set up: it is used at once with the new key, so the step is one of an accepted PIN.
LEMMA SetupOutcome ==
    ASSUME NEW p \in Provider, NEW h \in Handler, NEW req, NEW o, NEW flag, req.t = "SetupPin",
           req.pin \in Pins,
           cfg.keys \in 1..MaxKeys, p.made < cfg.keys, PinAccepted(StoreKey(p, flag, req.pin), o)
    PROVE  StepOutcome(p, req, o)
<1> DEFINE q == StoreKey(p, flag, req.pin)
<1>1. q \in Provider /\ q.made # p.made /\ fetch_hello_key(q) # NoKey
  BY Stored
<1>2. PinAccepted(q, o)
  OBVIOUS
<1> HIDE DEF q
<1>3. o.p \in Provider /\ o.h \in Handler /\ o.r \in StepResult /\ o.shown \subseteq Tags
  BY <1>2 DEF PinAccepted, FewerKeys, PinResult, StepResult, PasswordResult, MfaResult, Refusal
<1>4. (cfg.entra => fetch_hello_key(o.p) # NoKey \/ o.p.bad > Retry) /\ o.p.made # p.made
  BY <1>1, <1>2 DEF PinAccepted, FewerKeys, SameKeys, fetch_hello_key
<1> QED BY <1>2, <1>3, <1>4 DEF StepOutcome, PinAccepted

\* The SetupPin request of Entra ID.
LEMMA EntraSetup ==
    ASSUME NEW p \in Provider, NEW h \in Handler, NEW req, NEW o \in EntraSetupPin(p, h, req.pin),
           req.t = "SetupPin", req.pin \in Pins, cfg.keys \in 1..MaxKeys
    PROVE  StepOutcome(p, req, o)
<1>1. \/ o = Fail(p, h)
      \/ o = Out(p, h, "SetupPin", {})
      \/ o \in net_down_check(p, h)
      \/ /\ p.made < cfg.keys
         /\ o \in auth_and_validate_hello_key(StoreKey(p, h.flag, req.pin), h, NewKey(p, req.pin), h.flag, req.pin)
  BY DEF EntraSetupPin
<1>2. CASE o = Fail(p, h) \/ o \in net_down_check(p, h)
  <2>1. Directory(p, o, Refusal)
    BY <1>2, Refused DEF RequestErrors
  <2> QED BY <2>1, MfaStep
<1>3. CASE o = Out(p, h, "SetupPin", {})
  <2>1. p.bad >= p.bad /\ "SetupPin" \in StepResult
    BY SMT DEF Provider, StepResult, PasswordResult, MfaResult
  <2> QED BY <1>3, <2>1 DEF StepOutcome, Out
<1>4. CASE /\ p.made < cfg.keys
           /\ o \in auth_and_validate_hello_key(StoreKey(p, h.flag, req.pin), h, NewKey(p, req.pin), h.flag, req.pin)
  <2>1. /\ StoreKey(p, h.flag, req.pin) \in Provider /\ NewKey(p, req.pin) \in Keys
        /\ ms_hello_key_load(NewKey(p, req.pin), req.pin) /\ req.pin \in Pins \cup {NoKey}
    BY <1>4, Stored
  <2>2. PinAccepted(StoreKey(p, h.flag, req.pin), o)
    BY <1>4, <2>1, EntraHello
  <2> QED BY <1>4, <2>2, SetupOutcome
<1> QED BY <1>1, <1>2, <1>3, <1>4

\* The SetupPin request of OIDC.
LEMMA OidcSetup ==
    ASSUME NEW p \in Provider, NEW h \in Handler, NEW req, NEW o \in OidcSetupPin(p, h, req.pin),
           ~cfg.entra,
           req.t = "SetupPin", req.pin \in Pins, cfg.keys \in 1..MaxKeys
    PROVE  StepOutcome(p, req, o)
<1>1. \/ o = Fail(p, h)
      \/ /\ p.made < cfg.keys
         /\ o \in oidc_auth_and_validate_hello_key(StoreKey(p, FALSE, req.pin), h, NewKey(p, req.pin), FALSE, req.pin)
  BY DEF OidcSetupPin
<1>2. CASE o = Fail(p, h)
  <2>1. Directory(p, o, Refusal)
    BY <1>2, Refused
  <2> QED BY <2>1, MfaStep
<1>3. CASE /\ p.made < cfg.keys
           /\ o \in oidc_auth_and_validate_hello_key(StoreKey(p, FALSE, req.pin), h, NewKey(p, req.pin), FALSE, req.pin)
  <2>1. /\ StoreKey(p, FALSE, req.pin) \in Provider /\ NewKey(p, req.pin) \in Keys
        /\ ms_hello_key_load(NewKey(p, req.pin), req.pin) /\ req.pin \in Pins \cup {NoKey}
    BY <1>3, Stored
  <2>2. PinAccepted(StoreKey(p, FALSE, req.pin), o)
    BY <1>3, <2>1, OidcHello
  <2> QED BY <1>3, <2>2, SetupOutcome
<1> QED BY <1>1, <1>2, <1>3

\* unix_user_online_auth_step of Entra ID keeps the contract for every handler and request.
THEOREM EntraStep ==
    ASSUME NEW p \in Provider, NEW h \in Handler, NEW req, NEW no_hello_pin, cfg.keys \in 1..MaxKeys,
           req.pin \in Pins \cup {NoKey}, req.t = "SetupPin" => req.pin \in Pins, req.attempt \in Nat,
           NEW o \in entra_online_auth_step(p, h, req, no_hello_pin)
    PROVE  StepOutcome(p, req, o)
<1>1. CASE req.t = "Pin"
  <2>1. \/ o = Out(Offline(p), h, "Denied", {"unchecked"})
        \/ fetch_hello_key(p) = NoKey /\ o = Fail(p, h)
        \/ fetch_hello_key(p) # NoKey
           /\ o \in auth_and_validate_hello_key(p, h, fetch_hello_key(p), p.ks.hello # NoKey, req.pin)
    BY <1>1 DEF entra_online_auth_step, EntraPin
  <2>2. CASE o = Out(Offline(p), h, "Denied", {"unchecked"})
    <3>1. Kept(p, Offline(p)) /\ Offline(p) \in Provider
      BY FieldsKept, SameFewer
    <3>2. fetch_hello_key(Offline(p)) = fetch_hello_key(p) /\ Offline(p).made = p.made /\ Offline(p).bad >= p.bad
      BY <3>1, SMT DEF Kept, SameKeys, fetch_hello_key, Provider
    <3>3. "Denied" \in StepResult /\ {"unchecked"} \subseteq Tags
      BY DEF StepResult, PasswordResult, MfaResult, Refusal, Tags
    <3> QED BY <1>1, <2>2, <3>1, <3>2, <3>3 DEF StepOutcome, Out
  <2>3. CASE fetch_hello_key(p) = NoKey /\ o = Fail(p, h)
    <3>1. Directory(p, o, Refusal)
      BY <2>3, Refused
    <3> QED BY <2>3, <3>1, MfaStep
  <2>4. CASE fetch_hello_key(p) # NoKey
             /\ o \in auth_and_validate_hello_key(p, h, fetch_hello_key(p), p.ks.hello # NoKey, req.pin)
    <3>1. fetch_hello_key(p) \in Keys
      BY <2>4 DEF fetch_hello_key, Provider, KeyStore, Slot
    <3>2. IF ms_hello_key_load(fetch_hello_key(p), req.pin) THEN PinAccepted(p, o)
          ELSE o = handle_hello_bad_pin_count(p, h)
      BY <2>4, <3>1, EntraHello
    <3> QED BY <1>1, <2>4, <3>2, PinOutcome
  <2> QED BY <2>1, <2>2, <2>3, <2>4
<1>2. CASE req.t = "SetupPin" /\ h.k = "SetupPin"
  <2>1. o \in EntraSetupPin(p, h, req.pin)
    BY <1>2 DEF entra_online_auth_step
  <2> QED BY <1>2, <2>1, EntraSetup
<1>3. CASE req.t = "HelloTOTP" /\ h.k = "HelloTOTP"
  <2>1. o = impl_handle_hello_pin_totp_auth(p, h, req.code)
    BY <1>3 DEF entra_online_auth_step
  <2> QED BY <1>3, <2>1, Totp, TotpOutcome
<1>4. CASE req.t = "Password"
  <2>1. Directory(p, o, PasswordResult)
    BY <1>4, PasswordFirstDirectory, PasswordDirectory DEF entra_online_auth_step
  <2> QED BY <1>4, <2>1, DirectoryStep
<1>5. CASE req.t = "MFAPoll" /\ h.k = "MFA"
  <2>1. \/ Directory(p, o, MfaResult)
        \/ Directory(p, o, {"MFAPollWait"}) /\ ~(req.attempt > MaxPoll)
    BY <1>5, MfaDirectory DEF entra_online_auth_step
  <2>2. CASE Directory(p, o, MfaResult)
    BY <1>5, <2>2, MfaStep
  <2>3. CASE Directory(p, o, {"MFAPollWait"}) /\ ~(req.attempt > MaxPoll)
    <3>1. req.attempt <= MaxPoll /\ o.r = "MFAPollWait"
      BY <2>3, HelloAssumption, SMT DEF Directory
    <3>2. {"MFAPollWait"} \subseteq PasswordResult \cup {"MFAPollWait", "Password"}
      OBVIOUS
    <3> QED BY <1>5, <2>3, <3>1, <3>2, DirectoryStep
  <2> QED BY <2>1, <2>2, <2>3
<1>6. CASE req.t \in {"MFACode", "Fido", "FidoUnavailable"} /\ h.k = "MFA"
  <2>1. Directory(p, o, MfaResult) \/ Directory(p, o, {"Password"})
    BY <1>6, MfaDirectory DEF entra_online_auth_step
  <2>2. {"Password"} \subseteq PasswordResult \cup {"MFAPollWait", "Password"}
    OBVIOUS
  <2> QED BY <1>6, <2>1, <2>2, MfaStep, DirectoryStep
<1>7. CASE /\ req.t \notin {"Pin", "Password"}
           /\ ~(req.t = "SetupPin" /\ h.k = "SetupPin")
           /\ ~(req.t = "HelloTOTP" /\ h.k = "HelloTOTP")
           /\ ~(req.t \in {"MFAPoll", "MFACode", "Fido", "FidoUnavailable"} /\ h.k = "MFA")
  <2>1. o = Out(p, h, "NotFound", {})
    BY <1>7 DEF entra_online_auth_step
  <2>2. Directory(p, o, Refusal)
    BY <2>1, Refused
  <2> QED BY <1>7, <2>2, MfaStep
<1> QED BY <1>1, <1>2, <1>3, <1>4, <1>5, <1>6, <1>7

\* unix_user_online_auth_step of OIDC keeps the contract for every handler and request.
THEOREM OidcStep ==
    ASSUME NEW p \in Provider, NEW h \in Handler, NEW req, NEW no_hello_pin, cfg.keys \in 1..MaxKeys,
           ~cfg.entra,
           req.pin \in Pins \cup {NoKey}, req.t = "SetupPin" => req.pin \in Pins, req.attempt \in Nat,
           NEW o \in oidc_online_auth_step(p, h, req, no_hello_pin)
    PROVE  StepOutcome(p, req, o)
<1>1. CASE req.t = "Pin"
  <2>1. \/ fetch_hello_key(p) = NoKey /\ o = Fail(p, h)
        \/ fetch_hello_key(p) # NoKey
           /\ o \in oidc_auth_and_validate_hello_key(p, h, fetch_hello_key(p), p.ks.hello # NoKey, req.pin)
    BY <1>1 DEF oidc_online_auth_step, OidcPin
  <2>2. CASE fetch_hello_key(p) = NoKey /\ o = Fail(p, h)
    <3>1. Directory(p, o, Refusal)
      BY <2>2, Refused
    <3> QED BY <2>2, <3>1, MfaStep
  <2>3. CASE fetch_hello_key(p) # NoKey
             /\ o \in oidc_auth_and_validate_hello_key(p, h, fetch_hello_key(p), p.ks.hello # NoKey, req.pin)
    <3>1. fetch_hello_key(p) \in Keys
      BY <2>3 DEF fetch_hello_key, Provider, KeyStore, Slot
    <3>2. IF ms_hello_key_load(fetch_hello_key(p), req.pin) THEN PinAccepted(p, o)
          ELSE o = handle_hello_bad_pin_count(p, h)
      BY <2>3, <3>1, OidcHello
    <3> QED BY <1>1, <2>3, <3>2, PinOutcome
  <2> QED BY <2>1, <2>2, <2>3
<1>2. CASE req.t = "SetupPin" /\ h.k = "SetupPin"
  <2>1. o \in OidcSetupPin(p, h, req.pin)
    BY <1>2 DEF oidc_online_auth_step
  <2> QED BY <1>2, <2>1, OidcSetup
<1>3. CASE req.t = "HelloTOTP" /\ h.k = "HelloTOTP"
  <2>1. o = impl_handle_hello_pin_totp_auth(p, h, req.code)
    BY <1>3 DEF oidc_online_auth_step
  <2> QED BY <1>3, <2>1, Totp, TotpOutcome
<1>4. CASE h.k \in {"DeviceFlow", "Orchestrator"} /\ req.t # "Pin"
  <2>1. \/ Directory(p, o, MfaResult)
        \/ Directory(p, o, {"MFAPollWait"}) /\ req.t = "MFAPoll" /\ ~(req.attempt > MaxPoll)
        \/ Directory(p, o, OrchestratorRequests \cup {"MFAPollWait"}) /\ req.t # "MFAPoll"
    BY <1>4, DeviceFlowDirectory, OrchestratorDirectory DEF oidc_online_auth_step
  <2>2. CASE Directory(p, o, MfaResult)
    BY <1>4, <2>2, MfaStep
  <2>3. CASE Directory(p, o, {"MFAPollWait"}) /\ req.t = "MFAPoll" /\ ~(req.attempt > MaxPoll)
    <3>1. req.attempt <= MaxPoll /\ o.r = "MFAPollWait"
      BY <2>3, HelloAssumption, SMT DEF Directory
    <3>2. {"MFAPollWait"} \subseteq PasswordResult \cup {"MFAPollWait", "Password"}
      OBVIOUS
    <3> QED BY <1>4, <2>3, <3>1, <3>2, DirectoryStep
  <2>4. CASE Directory(p, o, OrchestratorRequests \cup {"MFAPollWait"}) /\ req.t # "MFAPoll"
    <3>1. OrchestratorRequests \cup {"MFAPollWait"} \subseteq PasswordResult \cup {"MFAPollWait", "Password"}
      BY DEF OrchestratorRequests, PasswordResult
    <3> QED BY <1>4, <2>4, <3>1, DirectoryStep
  <2> QED BY <2>1, <2>2, <2>3, <2>4
<1>5. CASE /\ req.t # "Pin" /\ h.k \notin {"DeviceFlow", "Orchestrator"}
           /\ ~(req.t = "SetupPin" /\ h.k = "SetupPin")
           /\ ~(req.t = "HelloTOTP" /\ h.k = "HelloTOTP")
  <2>1. o = Denied(p, h)
    BY <1>5 DEF oidc_online_auth_step
  <2>2. Directory(p, o, Refusal)
    BY <2>1, Refused
  <2> QED BY <1>5, <2>2, MfaStep
<1> QED BY <1>1, <1>2, <1>3, <1>4, <1>5

----------------------------------------------------------------------------
\* What the start of a sign-in may do: it keeps the Hello keys and the count, and asks for the
\* PIN only where a PIN may sign in; online that is for a remote service only with a code.
InitOutcome(p, opts, o) ==
    /\ Kept(p, o.p) /\ o.h \in Handler
    /\ o.r \in {"Pin", "Password", "MFACode", "Fido", "MFAPoll", "InitDenied", "Error"}
    /\ o.r = "Pin" => o.h = NoHandler /\ ~opts.no_hello_pin /\ ~opts.force_reauth
                  /\ (p.online /\ opts.remote => cfg.totp)

\* An answer other than Pin that keeps the keys is a start of a sign-in.
LEMMA OutInit ==
    ASSUME NEW p, NEW q, Kept(p, q), NEW opts, NEW h \in Handler,
           NEW r \in {"Password", "MFACode", "Fido", "MFAPoll", "InitDenied", "Error"}
    PROVE  InitOutcome(p, opts, Out(q, h, r, {}))
BY DEF InitOutcome, Out

\* attempt_online keeps the Hello keys, whichever way it finds the network.
LEMMA AttemptOnline ==
    ASSUME NEW p \in Provider, NEW q, q \in attempt_online(p) \/ q \in oidc_attempt_online(p)
    PROVE  Kept(p, q)
BY FieldsKept DEF attempt_online, oidc_attempt_online

\* unix_user_online_auth_init of Entra ID.
LEMMA EntraInit ==
    ASSUME NEW p \in Provider, NEW opts, NEW o \in entra_online_auth_init(p, opts)
    PROVE  InitOutcome(p, opts, o)
<1> DEFINE first == [NoHandler EXCEPT !.k = "PasswordFirst", !.flag = is_domain_joined(p)]
<1>1. NoHandler \in Handler /\ Mfa(NoKey, FALSE) \in Handler /\ Kept(p, p) /\ Kept(p, Offline(p))
  BY HandlerTypes, KeptTrans, FieldsKept
<1>2. first \in Handler
  <2>1. is_domain_joined(p) \in BOOLEAN
    BY DEF is_domain_joined
  <2>2. \A b \in BOOLEAN : [NoHandler EXCEPT !.k = "PasswordFirst", !.flag = b] \in Handler
    BY DEF NoHandler, Handler, Slot
  <2> QED BY <2>1, <2>2
<1>3. CASE ~NeedsFullSignIn(p, opts)
  <2>1. ~opts.no_hello_pin /\ ~opts.force_reauth /\ (opts.remote => cfg.totp)
    BY <1>3 DEF NeedsFullSignIn
  <2>2. PICK q \in attempt_online(p) : o = Out(q, NoHandler, "Pin", {}) \/ o = Fail(q, NoHandler)
    BY <1>3 DEF entra_online_auth_init, PinInit
  <2>3. Kept(p, q)
    BY AttemptOnline
  <2>4. InitOutcome(p, opts, Out(q, NoHandler, "Pin", {}))
    BY <1>1, <2>1, <2>3 DEF InitOutcome, Out
  <2> QED BY <1>1, <2>2, <2>3, <2>4, OutInit DEF Fail
<1>4. CASE NeedsFullSignIn(p, opts)
  <2>1. \/ o = Out(Offline(p), NoHandler, "InitDenied", {})
        \/ o = Fail(p, NoHandler)
        \/ o \in PasswordInit(p, opts)
        \/ o \in MfaFlowInit(p)
        \/ o \in DeviceFlowInit(p)
    BY <1>4 DEF entra_online_auth_init
  <2>2. CASE o \in PasswordInit(p, opts)
    <3>1. PICK q \in attempt_online(p) :
              \/ o = Out(q, first, "Password", {})
              \/ o = Out(q, NoHandler, "Password", {})
              \/ o = Out(q, NoHandler, "InitDenied", {})
      BY <2>2 DEF PasswordInit
    <3>2. Kept(p, q)
      BY AttemptOnline
    <3> HIDE DEF first
    <3> QED BY <1>1, <1>2, <3>1, <3>2, OutInit
  <2>3. CASE o \in MfaFlowInit(p) \/ o \in DeviceFlowInit(p)
    <3>1. \A h \in Handler, r \in {"Password", "Fido", "MFAPoll"} : InitOutcome(p, opts, Out(p, h, r, {}))
      BY <1>1, OutInit
    <3> QED BY <1>1, <2>3, <3>1 DEF MfaFlowInit, DeviceFlowInit
  <2>4. CASE o = Out(Offline(p), NoHandler, "InitDenied", {}) \/ o = Fail(p, NoHandler)
    BY <1>1, <2>4, OutInit DEF Fail
  <2> QED BY <2>1, <2>2, <2>3, <2>4
<1> QED BY <1>3, <1>4

\* unix_user_online_auth_init of OIDC.
LEMMA OidcInit ==
    ASSUME NEW p \in Provider, NEW opts, NEW o \in oidc_online_auth_init(p, opts)
    PROVE  InitOutcome(p, opts, o)
<1> DEFINE d == [NoHandler EXCEPT !.k = "DeviceFlow"]
           e == [NoHandler EXCEPT !.k = "Orchestrator"]
<1>1. NoHandler \in Handler /\ d \in Handler /\ e \in Handler /\ Kept(p, p) /\ Kept(p, Offline(p))
  BY HandlerTypes, KeptTrans, FieldsKept
<1>2. \/ o = Out(Offline(p), NoHandler, "InitDenied", {})
      \/ o = Fail(p, NoHandler)
      \/ o = Out(p, d, "MFAPoll", {})
      \/ o \in NextStep(p, e)
      \/ /\ ~opts.no_hello_pin /\ ~opts.force_reauth /\ (opts.remote => cfg.totp)
         /\ \E q \in oidc_attempt_online(p) : o = Out(q, NoHandler, "Pin", {}) \/ o = Fail(q, NoHandler)
  BY DEF oidc_online_auth_init, maybe_start_orchestrator_flow, orchestrator_try_start
<1> HIDE DEF d, e
<1>3. CASE \/ o = Out(Offline(p), NoHandler, "InitDenied", {})
           \/ o = Fail(p, NoHandler)
           \/ o = Out(p, d, "MFAPoll", {})
  BY <1>1, <1>3, OutInit DEF Fail
<1>4. CASE o \in NextStep(p, e)
  <2>1. \A r \in OrchestratorRequests : InitOutcome(p, opts, Out(p, e, r, {}))
    BY <1>1, OutInit DEF OrchestratorRequests
  <2> QED BY <1>4, <2>1 DEF NextStep
<1>5. CASE /\ ~opts.no_hello_pin /\ ~opts.force_reauth /\ (opts.remote => cfg.totp)
           /\ \E q \in oidc_attempt_online(p) : o = Out(q, NoHandler, "Pin", {}) \/ o = Fail(q, NoHandler)
  <2>1. PICK q \in oidc_attempt_online(p) : o = Out(q, NoHandler, "Pin", {}) \/ o = Fail(q, NoHandler)
    BY <1>5
  <2>2. Kept(p, q)
    BY AttemptOnline
  <2>3. InitOutcome(p, opts, Out(q, NoHandler, "Pin", {}))
    BY <1>1, <1>5, <2>2 DEF InitOutcome, Out
  <2> QED BY <1>1, <2>1, <2>2, <2>3, OutInit DEF Fail
<1> QED BY <1>2, <1>3, <1>4, <1>5

\* unix_user_offline_auth_init. Without force_reauth, which the resolver denies before.
LEMMA OfflineInit ==
    ASSUME NEW p \in Provider, NEW opts, ~opts.force_reauth, ~p.online
    PROVE  InitOutcome(p, opts, impl_himmelblau_offline_auth_init(p, opts.no_hello_pin))
<1>1. NoHandler \in Handler /\ Kept(p, p)
  BY HandlerTypes, KeptTrans
<1>2. ~opts.no_hello_pin => InitOutcome(p, opts, Out(p, NoHandler, "Pin", {}))
  BY <1>1 DEF InitOutcome, Out
<1>3. /\ InitOutcome(p, opts, Out(p, NoHandler, "Password", {}))
      /\ InitOutcome(p, opts, Out(p, NoHandler, "InitDenied", {}))
  BY <1>1, OutInit
<1> QED BY <1>2, <1>3 DEF impl_himmelblau_offline_auth_init
=============================================================================
