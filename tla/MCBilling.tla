------------------------------ MODULE MCBilling ------------------------------
(* Small instances of Billing: which events the provider may deliver. *)
EXTENDS Billing, TLC

\* s1 is refused a payment and then pays another; or there is only the refusal.
FailThenPay == ("e1" :> "PAYMENT_FAILED") @@ ("e2" :> "PAYMENT_SUCCEEDED")
OneFailure == "e1" :> "PAYMENT_FAILED"
FailThenCancel == ("e1" :> "PAYMENT_FAILED") @@
                  ("e2" :> "SUBSCRIPTION_CANCELED_BY_PROVIDER")

AllOfS1 == ("e1" :> "s1") @@ ("e2" :> "s1")
OneOfS1 == "e1" :> "s1"
WithExternal == ("e1" :> "x1") @@ ("e2" :> "s1")

TwoPayments == ("e1" :> "p1") @@ ("e2" :> "p2")
FirstPayment == "e1" :> "p1"
=============================================================================
