------------------------------ MODULE UserSvc ------------------------------
(***************************************************************************)
(* The procedures of user-svc that the gateway and wallet-svc call: in     *)
(* which order they read, refuse and write, and what an error becomes      *)
(* (microservices/user-svc/src/user/user.service.ts; findOne... are in     *)
(* user.controller.ts).  Refusals are named by the status they answer.     *)
(***************************************************************************)
EXTENDS Steps

\* Accounts and logins.
create == Caught(<<Save>>, 406)
signupCaught == Caught(<<Find({406})>> \o create, 401)          \* mutant
signup == <<Find({406})>> \o create
validateUserByPassword == <<Find({404}), Find({401, 403})>>
validateUserByJwt == <<Find({401})>>
findOneByEmailOrUsername == <<Find({401})>>
findOneById == <<Find({401})>>
findOneByAppleId == <<Find({401})>>
googleLogin == Caught(<<Find({}), MaybeSave>>, 401)
\* The 403 for a missing id_token is caught below and becomes a 406.
appleLogin == Caught(<<Find({403}), Find({}), MaybeSave>>, 406)

\* The OTP is stored, then mailed.  sendEmail drops an error of Sendgrid, and
\* throws only on one that has no response to log.
sendOtp == <<Find({404}), Save, Try>>
twoFactorOtp == <<Find({403, 404})>> \o sendOtp
sendEmailOtp == <<Find({406})>> \o sendOtp
forgotPasswordOtp == <<Find({404})>> \o sendOtp
\* A wrong OTP is refused, and so is an expired one, which is cleared first.
twoFactorVerify == <<Find({404, 406}), LastSave({406}), Save>>
verifyEmailOtp == <<Find({404, 406}), LastSave({406}), Save>>
forgotPasswordVerify == <<Find({404, 406}), LastSave({406}), Save>>

\* Profiles.
resetPasswordFirst == <<Save, Find({401})>>                    \* mutant
resetPassword == <<Find({401}), Save>>
\* With a new password in it, the password is saved first.  A user who was
\* given the role "admin" is refused.
storeProfile == <<Find({403})>> \o Caught(<<Save>>, 500)
updateProfile == Optional(resetPassword) \o storeProfile
uploadProfilePictureDropped == Dropped(<<Find({}), Save>>)     \* mutant
uploadProfilePicture == <<Find({}), Save>>
checkEmail == <<Find({}), Find({406})>>
checkUsername == <<Find({406})>>

\* Lists, balances and KYC.
getUserById == Caught(<<Find({404})>>, 404)
listUsers == Caught(<<Find({404})>>, 404)
getUsersByFilters == Caught(<<Find({404})>>, 404)
getBalance == <<Find({}), MaybeSave>>
\* The 404 for an unknown user is caught below and becomes a 400.
balanceUpdate == Caught(<<Find({404}), Save>>, 400)
kycCreateApplicant == <<Find({406}), Save, Save>>
findByKycIdAndUpdate == <<Find({}), Save>>
healthCheck == <<Find({})>>
=============================================================================
