--------------------------- MODULE MCFlowExecutor ---------------------------
(***************************************************************************)
(* Four definitions: the built-in one for Keycloak (its five steps), one    *)
(* whose code step is repeated while its page is shown, one that uses a     *)
(* password in two steps and has conditional branches and tokens, and one   *)
(* with a token_key.                                                        *)
(***************************************************************************)
EXTENDS FlowExecutor

MCNames == {"username", "password", "totp_setup_code", "otp"}

Input(n, t) == [name |-> n, optional |-> FALSE, input_type |-> t]
FillIn(n) == [kind |-> "Fill", input |-> n]
Do(k) == [kind |-> k]
Always(i) == [condition |-> "Always", input |-> "otp", goto_step |-> i]

\* providers/keycloak.json: login, set up a code, give a code, consent, end.
Login == [optional |-> FALSE, wait_for |-> FALSE, success |-> "page",
          required_inputs |-> <<Input("username", "Text"), Input("password", "Password")>>,
          actions |-> <<FillIn("username"), FillIn("password"), Do("Click"), Do("Wait")>>,
          branches |-> <<Always(2)>>]
Code(n, next) == [optional |-> TRUE, wait_for |-> TRUE, success |-> "page",
          required_inputs |-> <<Input(n, "Otp")>>,
          actions |-> <<FillIn(n), Do("Click"), Do("Wait")>>,
          branches |-> <<Always(next)>>]
Consent == [optional |-> TRUE, wait_for |-> TRUE, success |-> "page",
          required_inputs |-> << >>, actions |-> <<Do("Click")>>,
          branches |-> <<Always(5)>>]
Confirm == [optional |-> TRUE, wait_for |-> TRUE, success |-> "page",
          required_inputs |-> << >>, actions |-> <<Do("Log")>>, branches |-> << >>]

Keycloak == <<Login, Code("totp_setup_code", 3), Code("otp", 4), Consent, Confirm>>

Retry == <<Login, Code("otp", 2), Confirm>>

Repeat == [optional |-> FALSE, wait_for |-> FALSE, success |-> "none",
           required_inputs |-> << >>,
           actions |-> <<FillIn("password"), [kind |-> "Extract", input |-> "browser"]>>,
           branches |-> <<[condition |-> "InputEquals", input |-> "username", goto_step |-> 4],
                          [condition |-> "InputPresent", input |-> "otp", goto_step |-> 3]>>]
LastStep == [optional |-> FALSE, wait_for |-> FALSE, success |-> "none",
         required_inputs |-> << >>,
         actions |-> <<Do("Navigate"), [kind |-> "Extract", input |-> "username"]>>,
         branches |-> << >>]

TwicePassword == <<Login, Repeat, Confirm, LastStep>>

\* A last step that is successful when it has found a token.
Token == [LastStep EXCEPT !.success = "token",
                          !.actions = <<[kind |-> "Extract", input |-> "static"]>>]

MCDefinitions == {Keycloak, Retry, TwicePassword, <<Login, Token>>}

\* All of them have the form for which the invariants about inputs are proved.
ASSUME FormAssumption == \A d \in MCDefinitions : InputsProvided(d) /\ SecretsEnd(d) /\ CodesAsked(d)
=============================================================================
