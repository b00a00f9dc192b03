------------------------------ MODULE MCSignIn ------------------------------
(* One address, two devices, one Google account; each behaviour calls the      *)
(* endpoints of one script.                                                    *)
EXTENDS SignIn

CONSTANTS mail, phone, tablet, google, s1, s2

OneIdentifier == {mail}
TwoDevices == {phone, tablet}
OneSubject == {google}
SameEmail == [g \in Subjects |-> mail]
TwoSessions == {s1, s2}

Signup == {"otp/send", "otp/verify"}

InTurn(calls) == [calls |-> calls, overlap |-> FALSE]
AtOnce(calls) == [calls |-> calls, overlap |-> TRUE]

SomeScenarios ==
    {InTurn(Signup \cup {"password/forgot", "password/reset", "time"}),
     InTurn(Signup \cup {"register/vendor", "refresh", "logout"}),
     InTurn({"google", "refresh", "password/forgot", "password/reset"}),
     InTurn({"google", "users/password", "login", "refresh", "block"}),
     InTurn({"google", "2fa", "users/password", "login", "login/2fa", "time"}),
     InTurn({"google", "biometrics", "2fa", "delete"}),
     InTurn({"google", "delete", "users/me"} \cup Signup),
     AtOnce({"google", "biometrics"}),
     AtOnce({"google", "otp/send", "otp/verify", "delete"}),
     AtOnce({"otp/send", "otp/verify", "refresh", "login"})}
=============================================================================
