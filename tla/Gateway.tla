------------------------------ MODULE Gateway ------------------------------
(***************************************************************************)
(* The gateway (api-gateway/src): its guards, its GraphQL and REST         *)
(* handlers, and what a client is answered.  A handler is a guard and the  *)
(* steps of the procedures it awaits (UserSvc, WalletSvc).  One request    *)
(* walks through a handler; meanwhile its user may be blocked or given     *)
(* another role, and any step may throw, or its service be down.           *)
(***************************************************************************)
EXTENDS Steps

userService == INSTANCE UserSvc
walletService == INSTANCE WalletSvc

VARIABLES user,    \* the user the token of the request belongs to
          req      \* the request

gatewayVars == <<user, req>>

\* "admin" is no role of the gateway's, but a request may have stored it.
Role == {"user", "subadmin", "superadmin", "admin"}
UserDoc == [known : BOOLEAN, isBlocked : BOOLEAN, role : Role]
----------------------------------------------------------------------------
(* Handlers.                                                               *)

Handler == [auth : BOOLEAN,            \* is it decorated with Auth()?
            roles : SUBSET Role,       \* and with Roles(...)
            steps : Seq(Step)]

Public(steps) == [auth |-> FALSE, roles |-> Role, steps |-> steps]
Auth(steps) == [auth |-> TRUE, roles |-> Role, steps |-> steps]
Roles(roles, steps) == [auth |-> TRUE, roles |-> roles, steps |-> steps]

\* user/user.resolver.ts
login == Public(userService!validateUserByPassword)
createUser == Public(userService!signup)
twoFactorOtp == Public(userService!twoFactorOtp)
twoFactorVerify == Public(userService!twoFactorVerify)
googleLogin == Public(userService!googleLogin)
appleLogin == Public(userService!appleLogin)
appleRefreshToken == Public(Caught(<<Find({}), Find({})>>, 400))
uploadUserProfilePicture ==
    Auth(<<Find({400})>> \o userService!uploadProfilePicture)
sendEmailOtp == Auth(userService!sendEmailOtp)
verifyEmailOtp == Auth(userService!verifyEmailOtp)
forgotPasswordOtp == Public(userService!forgotPasswordOtp)
getLoggedInUser == Auth(<< >>)
resetPassword == Auth(userService!resetPassword)
forgotPassword == Public(userService!forgotPasswordVerify)
updateProfile == Auth(userService!updateProfile)
checkEmail == Auth(userService!checkEmail)
checkUsername == Public(userService!checkUsername)
getUsersByFilters == Public(userService!getUsersByFilters)
getBalance == Auth(userService!getBalance)
getUserById == Public(userService!getUserById)

\* user/userHelper.service.ts does not catch what user-svc answers, and
\* neither do three handlers of user/user.controller.ts: to Nest it is an
\* unknown error.
findOneById == Remote(userService!findOneById)
registerCaptcha == Public(<<Find({})>>)
\* GeetestVerifyGuard asks Geetest about the captcha; Nest answers for it.
captchaVerified == <<Find({403})>>
restLogin == Public(captchaVerified \o userService!validateUserByPassword)
restCreate == Public(captchaVerified \o userService!signup)
kycVerification == Auth(<<Find({400, 406})>>
                        \o Optional(userService!kycCreateApplicant)
                        \o <<Save, Find({}), MaybeSave, Save>>
                        \o userService!findByKycIdAndUpdate)
kycWebhook == Public(<<Find({})>> \o Remote(userService!findByKycIdAndUpdate))
userHealth == Public(userService!healthCheck)
restFindOne == Public(Remote(userService!findOneByEmailOrUsername))
restUpdateProfile == Public(findOneById \o Remote(userService!updateProfile))

\* wallet/wallet.resolver.ts and wallet.controller.ts
createCharge == Public(walletService!createCharge)
createStripeAccount == Auth(walletService!createStripeAccount)
createPaymentIntent ==
    Auth(<<Find({404})>> \o walletService!createPaymentIntent)
checkBalance == Auth(walletService!checkBalance)
topUpWallet == Auth(walletService!topUpWallet)
\* For Stripe; for Coinbase it is what cbWebhook is.
topUpWalletConfirm == Auth(walletService!confirmStripe)
listTransactions == Auth(walletService!listTransactions)
stripeRefresh == Public(findOneById \o <<Find({404})>>
                        \o walletService!stripeCreateAccountLinks)
walletHealth == Public(walletService!healthCheck)
cbWebhook == Public(walletService!confirmCoinbase)

\* admin/admin.resolver.ts calls admin-svc, which calls the REST handlers of
\* admin/admin.controller.ts, as anybody may, which call user-svc.  admin-svc
\* passes the status in the body of an error response on.
\* Here no password is set: isAdmin skips resetPassword.
restUpdateUser == Public(userService!storeProfile)
restListUsers == Public(userService!listUsers)
ThroughAdmin(steps) == steps
Admins == {"superadmin", "subadmin"}
updateUser == Roles(Admins, <<Find({403})>> \o ThroughAdmin(restUpdateUser.steps))
\* The controller of admin-svc drops every error of a listing.
Users == Roles(Admins, Dropped(ThroughAdmin(restListUsers.steps)))
adminHealth == Public(<<Find({})>>)

\* upload/upload.controller.ts, helper/helper.service.ts, health.controller.ts.
\* An error of S3 is returned as if it were the result; an error of a ping is
\* the result.
uploadFile == <<Try>>
uploadImage == Auth(<<Find({400})>> \o uploadFile)
health == Public(<<Try>>)
----------------------------------------------------------------------------
Handlers ==
    [login |-> login, createUser |-> createUser, twoFactorOtp |-> twoFactorOtp,
     twoFactorVerify |-> twoFactorVerify, googleLogin |-> googleLogin,
     appleLogin |-> appleLogin, appleRefreshToken |-> appleRefreshToken,
     uploadUserProfilePicture |-> uploadUserProfilePicture,
     sendEmailOtp |-> sendEmailOtp, verifyEmailOtp |-> verifyEmailOtp,
     forgotPasswordOtp |-> forgotPasswordOtp,
     getLoggedInUser |-> getLoggedInUser, resetPassword |-> resetPassword,
     forgotPassword |-> forgotPassword, updateProfile |-> updateProfile,
     checkEmail |-> checkEmail, checkUsername |-> checkUsername,
     getUsersByFilters |-> getUsersByFilters, getBalance |-> getBalance,
     getUserById |-> getUserById, restLogin |-> restLogin,
     registerCaptcha |-> registerCaptcha,
     restCreate |-> restCreate, kycVerification |-> kycVerification,
     kycWebhook |-> kycWebhook, userHealth |-> userHealth,
     restFindOne |-> restFindOne, restUpdateProfile |-> restUpdateProfile,
     createCharge |-> createCharge, createStripeAccount |-> createStripeAccount,
     createPaymentIntent |-> createPaymentIntent, checkBalance |-> checkBalance,
     topUpWallet |-> topUpWallet, topUpWalletConfirm |-> topUpWalletConfirm,
     listTransactions |-> listTransactions, stripeRefresh |-> stripeRefresh,
     walletHealth |-> walletHealth, cbWebhook |-> cbWebhook,
     restUpdateUser |-> restUpdateUser, restListUsers |-> restListUsers,
     updateUser |-> updateUser, Users |-> Users, adminHealth |-> adminHealth,
     uploadImage |-> uploadImage, health |-> health]

Name == DOMAIN Handlers

\* chosen is the status the code chose where the request ended, or 500.
Req == [name : Name, pc : {"idle", "guard", "run", "done"}, at : Nat,
        written : BOOLEAN,    \* history: has it changed anything?
        missed : BOOLEAN,     \* history: has a step failed unnoticed?
        entitled : BOOLEAN,   \* history: could its user use the handler at
                              \* some moment since it arrived?
        chosen : Status, answer : Status]

NoReq == [name |-> "login", pc |-> "idle", at |-> 1, written |-> FALSE,
          missed |-> FALSE, entitled |-> FALSE, chosen |-> 200, answer |-> 200]

GatewayInit == user \in UserDoc /\ req = NoReq
----------------------------------------------------------------------------
(* Guards: guards/auth.guards.ts and rest-auth.guard.ts.                   *)

H == Handlers[req.name]

Answer(chosen, answer) ==
    req' = [req EXCEPT !.pc = "done", !.chosen = chosen, !.answer = answer]

MayUse(name, u) ==
    u.known /\ ~ u.isBlocked /\ (name \in {"updateUser", "Users"} => u.role \in Admins)

Arrive(name) ==
    /\ req.pc = "idle"
    /\ req' = [NoReq EXCEPT !.name = name, !.entitled = MayUse(name, user),
                            !.pc = IF Handlers[name].auth THEN "guard" ELSE "run"]
    /\ UNCHANGED user

\* No Authorization header, or not a bearer token.
RejectHeader ==
    /\ req.pc = "guard"
    /\ Answer(403, 403)
    /\ UNCHANGED user

\* The token is taken for one of Google's, then of Apple's, then for a JWT of
\* its own; each lookup of the user drops its errors.
LookupFails ==
    /\ req.pc = "guard"
    /\ Answer(500, 401)
    /\ UNCHANGED user

AdmitsBlocked(u, roles) == u.role \in roles                    \* mutant

Admits(u, roles) == u.isBlocked = FALSE /\ u.role \in roles

CanActivate ==
    /\ req.pc = "guard"
    /\ \/ ~ user.known /\ Answer(401, 401)
       \/ user.known /\ ~ Admits(user, H.roles) /\ Answer(403, 403)
       \/ user.known /\ Admits(user, H.roles) /\ req' = [req EXCEPT !.pc = "run"]
    /\ UNCHANGED user
----------------------------------------------------------------------------
(* Steps.                                                                  *)

TheStep == H.steps[req.at]
Running == req.pc = "run" /\ req.at \in DOMAIN H.steps
Next1(written, missed) ==
    req' = [req EXCEPT !.at = @ + 1, !.written = @ \/ written,
                       !.missed = @ \/ missed]

\* The step goes through.
Perform ==
    /\ Running
    /\ TheStep.kind # "last"
    /\ Next1(TheStep.kind \in {"save", "maybe"}, FALSE)
    /\ UNCHANGED user

\* The path that has the step is not taken.
Skip ==
    /\ Running
    /\ TheStep.kind \in {"maybe", "last"}
    /\ Next1(FALSE, FALSE)
    /\ UNCHANGED user

\* What the step returned, or did, is refused.
Refuse ==
    /\ Running
    /\ \E r \in TheStep.refuses :
          req' = [req EXCEPT !.pc = "done", !.chosen = r[1], !.answer = r[2],
                             !.written = @ \/ TheStep.kind # "read",
                             !.missed = (r[2] = 200)]
    /\ UNCHANGED user

\* The step throws, after it was done or before; or the service the gateway
\* has called dies, and the error it gets has no JSON in it.
Throw ==
    /\ Running
    /\ \E s \in TheStep.fails \cup {500}, done \in BOOLEAN :
          req' = [req EXCEPT !.pc = "done", !.chosen = 500, !.answer = s,
                             !.written = @ \/ (done /\ TheStep.kind # "read"),
                             !.missed = (s = 200)]
    /\ UNCHANGED user

Unnoticed ==
    /\ Running
    /\ TheStep.kind = "tried"
    /\ Next1(FALSE, TRUE)
    /\ UNCHANGED user

\* The handler returns its data.
Succeed ==
    /\ req.pc = "run"
    /\ req.at > Len(H.steps)
    /\ Answer(200, 200)
    /\ UNCHANGED user

EndRequest ==
    /\ req.pc = "done"
    /\ req' = NoReq
    /\ UNCHANGED user

\* An administrator changes the user.
UserChanges ==
    \E u \in UserDoc :
        /\ u.known = user.known
        /\ user' = u
        /\ req' = [req EXCEPT !.entitled = @ \/ MayUse(req.name, u)]

GatewayNext ==
    \/ \E name \in Name : Arrive(name)
    \/ RejectHeader \/ LookupFails \/ CanActivate
    \/ Perform \/ Skip \/ Refuse \/ Throw \/ Unnoticed \/ Succeed \/ EndRequest
    \/ UserChanges

GatewaySpec == GatewayInit /\ [][GatewayNext]_gatewayVars
----------------------------------------------------------------------------
(* Properties.                                                             *)

Answered(statuses) == req.pc = "done" /\ req.answer \in statuses
ClientError == {400, 401, 403, 404, 406}

\* Handlers that may have changed something although they answer a client
\* error: an expired OTP is cleared and an expired charge stored as such, and
\* these catch whatever is thrown in them as 401 or 406.  updateProfile stores
\* a new password before it refuses a user whose role is "admin".
MayHaveWritten == {"twoFactorVerify", "verifyEmailOtp", "forgotPassword",
                   "cbWebhook", "createUser", "restCreate", "googleLogin",
                   "appleLogin", "createCharge", "createStripeAccount",
                   "updateProfile"}

\* A client error means that nothing happened and the request may be sent
\* again, over all the calls of a handler and their catch blocks.
RefusalLeavesNothing ==
    Answered(ClientError) /\ req.name \notin MayHaveWritten => ~ req.written

\* Handlers that do not pass on the status the code has chosen.
Rewriting == {"appleLogin", "topUpWallet", "topUpWalletConfirm", "checkBalance",
              "cbWebhook", "restFindOne", "restUpdateProfile", "stripeRefresh",
              "Users"}

\* The client sees the status the code chose, through one, two or, behind the
\* administration, four services ("@throws error received from ... service in
\* HTTP format").
ChosenIsAnswered ==
    req.pc = "done" /\ req.name \notin Rewriting /\ req.chosen # 500 =>
        req.answer = req.chosen

\* A success means that every step was done, except for an upload, a listing
\* of users, a health check, the users of transactions, the Stripe account
\* whose update is not awaited, and the mail with an OTP, which may not have
\* been sent.
SuccessMeansDone ==
    Answered({200}) /\ req.missed =>
        req.name \in {"uploadImage", "Users", "health", "listTransactions",
                      "createStripeAccount", "twoFactorOtp", "sendEmailOtp",
                      "forgotPasswordOtp"}

\* Nothing is changed for a user who was blocked, unknown or without the role
\* all the time since the request arrived.
ChangesAreEntitled ==
    H.auth /\ (req.written \/ Answered({200})) => req.entitled
=============================================================================
