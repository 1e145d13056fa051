---------------------------- MODULE AuthScreens ----------------------------
(***************************************************************************)
(* The screens of apps/web/src/features/auth, in the terms of ScreenForms. *)
(***************************************************************************)
EXTENDS SharedScreens

-----------------------------------------------------------------------------
(* LoginPage. Its stages are the step and mode of useLoginReducer; the     *)
(* step emailVerification keeps the mode it was entered from.              *)

Credentials == {"signIn", "signUp"}
ENTER_TWO_FACTOR == MovingTo(Silent, "twoFactor")
CANCEL_TWO_FACTOR == MovingTo(Silent, "signIn")
ENTER_EMAIL_VERIFICATION(mode) ==
    Cooling(MovingTo(Silent, IF mode = "signIn" THEN "verifyFromSignIn" ELSE "verifyFromSignUp"),
            "resendCooldown")
CANCEL_EMAIL_VERIFICATION(mode) == Stopping(MovingTo(Silent, mode), "resendCooldown")

\* Whatever the profile call answers, the session is set and the page left.
Login_finalizeAuthenticatedLogin == Ignored(getCurrentUser)
Login_handleSignUp ==
    Handler({"isLoading"},
            <<Halting(Call(signup, Fails, Fails), {ENTER_EMAIL_VERIFICATION("signUp")}),
              Ignored(uploadAvatar), Login_finalizeAuthenticatedLogin>>, Leaving(Succeeds))
Login_handleSignIn ==
    Handler({"isLoading"},
            <<Refusing(Halting(Call(login, Fails, Fails), {ENTER_TWO_FACTOR, Fails}),
                       {ENTER_EMAIL_VERIFICATION("signIn")}),
              Login_finalizeAuthenticatedLogin>>, Leaving(Succeeds))
Login_handleTwoFactorVerification ==
    Handler({"isLoading"},
            <<Halting(Call(verifyTwoFactorLogin, Fails, Fails), {Fails}),
              Login_finalizeAuthenticatedLogin>>, Leaving(Succeeds))
Login_handleResendTwoFactor ==
    Handler({"isResendingTwoFactor"},
            <<Halting(Call(login, Fails, Fails), {ENTER_TWO_FACTOR, Fails}),
              Login_finalizeAuthenticatedLogin>>, Leaving(Succeeds))
\* The message is the same whether the mail was sent or not.
Login_handleResendVerification ==
    Handler({"isResendingVerification"}, <<Call(resendVerificationEmail, Fails, Fails)>>,
            Cooling(Silent, "resendCooldown"))
Login_handleGoogleAuth == Local(Leaving(Silent))
Login_toggleAuthMode(mode) == Local(MovingTo(Silent, mode))
\* The effect of the first render: a page that Google sent back with a
\* two-factor demand asks for the challenge, with the form already shown.
Login_oauthReturn ==
    Beginning(Handler({}, <<Call(getTwoFactorChallenge, Fails, Fails)>>, ENTER_TWO_FACTOR),
              MovingTo(Silent, "signIn"))

LoginForm_submit(steps) == Stage(steps, {"isLoading"})
LoginForm_footer(mode) == Stage({mode}, {})
LoginForm_emailVerification ==
    Stage({"verifyFromSignIn", "verifyFromSignUp"}, {"isResendingVerification", "resendCooldown"})
OtpCodeInput(step, unless) == Stage({step}, unless)

LoginPage ==
    StartingAt(Screen(
      [cities |-> LocationOptions_cities, areas |-> LocationOptions_areas],
      [render |-> At(Stage({"arriving"}, {}), Local(MovingTo(Silent, "signIn"))),
       oauthReturn |-> At(Stage({"arriving"}, {}), Login_oauthReturn),
       signIn |-> At(LoginForm_submit({"signIn"}), Login_handleSignIn),
       signUp |-> At(Row(LoginForm_submit({"signUp"}), {"areas"}), Login_handleSignUp),
       verify |-> At(LoginForm_submit({"twoFactor"}), Login_handleTwoFactorVerification),
       resend |-> At(OtpCodeInput("twoFactor", {"isLoading", "isResendingTwoFactor"}),
                     Login_handleResendTwoFactor),
       cancelTwoFactor |-> At(LoginForm_submit({"twoFactor"}), Local(CANCEL_TWO_FACTOR)),
       resendMail |-> At(LoginForm_emailVerification, Login_handleResendVerification),
       cancelMail |-> At(LoginForm_footer("verifyFromSignIn"),
                         Local(CANCEL_EMAIL_VERIFICATION("signIn"))),
       cancelNewMail |-> At(LoginForm_footer("verifyFromSignUp"),
                            Local(CANCEL_EMAIL_VERIFICATION("signUp"))),
       toSignUp |-> At(LoginForm_footer("signIn"), Login_toggleAuthMode("signUp")),
       toSignIn |-> At(LoginForm_footer("signUp"), Login_toggleAuthMode("signIn")),
       google |-> At(LoginForm_submit(Credentials), Login_handleGoogleAuth)]), "arriving")

-----------------------------------------------------------------------------
(* ForgotPasswordPage                                                      *)

Forgot_requestCode ==
    Handler({"isRequestLoading"}, <<Call(requestPasswordReset, Fails, Fails)>>,
            MovingTo(Succeeds, "verify"))
Forgot_handleVerifyCode ==
    Handler({"isVerifyLoading"}, <<Call(verifyPasswordResetCode, Fails, Fails)>>,
            MovingTo(Silent, "password"))
Forgot_handleConfirmReset ==
    Handler({"isConfirmLoading"}, <<Call(confirmPasswordReset, Fails, Fails)>>,
            MovingTo(Succeeds, "complete"))

ForgotPasswordPage ==
    StartingAt(Screen(<< >>,
      [request |-> At(Stage({"request"}, {"isRequestLoading"}), Forgot_requestCode),
       resend |-> At(OtpCodeInput("verify",
                       {"isVerifyLoading", "isConfirmLoading", "isRequestLoading"}),
                     Forgot_requestCode),
       verify |-> At(Stage({"verify"}, {"isVerifyLoading", "isRequestLoading"}),
                     Forgot_handleVerifyCode),
       confirm |-> At(Stage({"password"}, {"isConfirmLoading"}), Forgot_handleConfirmReset),
       backToLogin |-> At(Stage({"request", "verify", "password", "complete"}, {}),
                          Local(Leaving(Silent)))]), "request")

-----------------------------------------------------------------------------
(* CompleteProfilePage                                                     *)

\* useUserProfile.refreshProfile keeps its own errors (module UserProfile).
refreshProfile == Ignored(getUser)
CompleteProfile_handleSubmit ==
    Handler({"isLoading"}, <<Call(uploadAvatar, Fails, Fails), Call(updateUser, Fails, Fails),
                             refreshProfile>>, Leaving(Succeeds))
CompleteProfile_handleBack == Handler({}, <<Ignored(logout)>>, Leaving(Silent))
CompleteProfilePage ==
    Screen([cities |-> LocationOptions_cities, areas |-> LocationOptions_areas],
           [save |-> At(Row(Page({"isLoading"}), {"areas"}), CompleteProfile_handleSubmit),
            back |-> At(Page({}), CompleteProfile_handleBack)])

-----------------------------------------------------------------------------
(* VerifyEmailPage. The first effect verifies the token of the link, once; *)
(* a link without a token is an error, one that was used leads home.       *)

VerifyEmail_verify ==
    Beginning(Handler({}, <<Halting(Call(verifyEmail, MovingTo(Fails, "error"),
                                                      MovingTo(Fails, "error")),
                                    {MovingTo(Succeeds, "success")}),
                            Ignored(uploadAvatar)>>, MovingTo(Succeeds, "autologin")),
              MovingTo(Silent, "verifying"))
VerifyEmail_handleResend ==
    Handler({"isResending"}, <<Call(resendVerificationEmail, Fails, Fails)>>,
            Cooling(Silent, "resendCooldown"))
VerifyEmail_startCooldown == {"isResending", "resendCooldown"}
VerifyEmailPage ==
    StartingAt(Screen(<< >>,
      [verify |-> At(Stage({"opened"}, {}), VerifyEmail_verify),
       noToken |-> At(Stage({"opened"}, {}), Local(MovingTo(Fails, "error"))),
       usedToken |-> At(Stage({"opened"}, {}), Local(Leaving(Silent))),
       redirect |-> At(Stage({"autologin"}, {}), Local(Leaving(Silent))),
       goToLogin |-> At(Stage({"verifying", "success", "error"}, {}), Local(Leaving(Silent))),
       resend |-> At(Stage({"error"}, VerifyEmail_startCooldown), VerifyEmail_handleResend)]),
      "opened")
============================================================================
