----------------------------- MODULE WalletSvc -----------------------------
(***************************************************************************)
(* The procedures of wallet-svc that the gateway calls, likewise           *)
(* (microservices/wallet-svc/src/wallet/wallet.service.ts).  What user-svc *)
(* refuses arrives as an error of the gRPC client: it is caught and given  *)
(* another status, or passed on as an unknown error.                       *)
(***************************************************************************)
EXTENDS Steps

userService == INSTANCE UserSvc

charge == <<Save>>
createChargeinDB == <<Save>>
createCharge == Caught(createChargeinDB \o charge, 406)

stripeCreateAccountLinks == <<Find({})>>
\* The update of the user is not awaited, and its errors are only logged.
createStripeAccount == Caught(<<MaybeSave, Try>> \o stripeCreateAccountLinks, 406)
createPaymentIntent == <<Save>>

checkBalance == Caught(Remote(userService!findOneById), 406)
createTransaction == <<Save>>

\* Stripe wants a connected account; a Coinbase charge does not.
topUpWallet ==
    Remote(userService!findOneById) \o <<Find({404})>> \o createPaymentIntent
        \o createTransaction

creditAccount == checkBalance \o Remote(userService!balanceUpdate) \o <<Save>>

confirmStripe == Remote(userService!findOneById)
                 \o <<Find({404, 406}), Find({406})>>
                 \o creditAccount
\* An expired or unpaid charge is stored as such before it is refused.
confirmCoinbase == <<Find({}), Find({404, 406}), LastSave({406})>> \o creditAccount

getUserPerTransaction == <<Try>>
listTransactions == Caught(<<Find({404})>>, 404) \o getUserPerTransaction
healthCheck == <<Find({})>>
=============================================================================
