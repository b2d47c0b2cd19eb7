----------------------------- MODULE PhoneLogin -----------------------------
(***************************************************************************)
(* The sign-in dialogue of commands/auth.rs: requesting, resending and     *)
(* cancelling a code, signing in with it, the two-step password, and the   *)
(* switch to a QR code.  Every command is an async call; the attempt       *)
(* counter, the stored phone login and the password challenge change under *)
(* three locks, each taken anew after an answer of Telegram.  The session  *)
(* a login ends in is module Account.                                      *)
(***************************************************************************)
EXTENDS Naturals, FiniteSets

CONSTANTS Calls,        \* commands that may run at once
          MaxAttempt    \* bound: the attempt counter

ASSUME PhoneAssumption == MaxAttempt \in Nat

VARIABLES
  attempts,     \* auth_attempt_counter
  phoneLogin,   \* [attempt, busy]: phone_login and request_in_flight; 0 is none
  challenge,    \* a password challenge is stored
  call,         \* Call -> [pc, kind, attempt, answer]
  signedIn      \* complete_raw_login or complete_verified was reached

phoneVars == <<attempts, phoneLogin, challenge, call, signedIn>>

NoPhoneLogin == [attempt |-> 0, busy |-> FALSE]
NoCall == [pc |-> "idle", kind |-> "none", attempt |-> 0, answer |-> "none"]

PhoneInit ==
  /\ attempts = 0 /\ phoneLogin = NoPhoneLogin /\ challenge = FALSE
  /\ call = [c \in Calls |-> NoCall] /\ signedIn = FALSE

To(c, pc) == call' = [call EXCEPT ![c].pc = pc]
Return(c) == call' = [call EXCEPT ![c] = NoCall]
Begin(c, kind, pc, attempt) ==
  /\ call[c].pc = "idle"
  /\ call' = [call EXCEPT ![c] = [pc |-> pc, kind |-> kind, attempt |-> attempt,
                                  answer |-> "none"]]

(***************************************************************************)
(* Requesting a code, cancelling one and switching to QR all draw a new    *)
(* attempt and then forget, one lock after the other, what is stored.      *)
(***************************************************************************)
NewAttempt(c, kind) ==
  /\ attempts < MaxAttempt
  /\ attempts' = attempts + 1
  /\ Begin(c, kind, IF kind = "cancel" THEN "forgetChallenge" ELSE "forgetLogin", attempts + 1)
  /\ UNCHANGED <<phoneLogin, challenge, signedIn>>

ForgetLogin(c) ==
  /\ call[c].pc = "forgetLogin"
  /\ phoneLogin' = NoPhoneLogin
  /\ IF call[c].kind = "cancel" THEN Return(c) ELSE To(c, "forgetChallenge")
  /\ UNCHANGED <<attempts, challenge, signedIn>>

ForgetChallenge(c) ==
  /\ call[c].pc = "forgetChallenge"
  /\ challenge' = FALSE
  /\ To(c, IF call[c].kind = "cancel" THEN "forgetLogin" ELSE "asking")
  /\ UNCHANGED <<attempts, phoneLogin, signedIn>>

\* A resend needs a stored login with no other request in flight.
ResendBegin(c) ==
  /\ phoneLogin # NoPhoneLogin /\ ~phoneLogin.busy
  /\ phoneLogin' = [phoneLogin EXCEPT !.busy = TRUE]
  /\ Begin(c, "resend", "asking", phoneLogin.attempt)
  /\ UNCHANGED <<attempts, challenge, signedIn>>

\* Telegram answers: a code is on its way, the session is already signed in,
\* the number is unknown, or the QR code is recommended.
Answered(c) ==
  /\ call[c].pc = "asking" /\ call[c].kind \in {"request", "resend"}
  /\ \E a \in {"code", "success", "signup", "payment"} :
       call' = [call EXCEPT ![c].pc = "check", ![c].answer = a]
  /\ UNCHANGED <<attempts, phoneLogin, challenge, signedIn>>

\* An error or a timeout; a failed resend frees whatever login is stored.
AskFailsAny(c) ==
  /\ call[c].pc = "asking"
  /\ phoneLogin' = IF call[c].kind = "resend" THEN [phoneLogin EXCEPT !.busy = FALSE]
                   ELSE phoneLogin
  /\ Return(c)
  /\ UNCHANGED <<attempts, challenge, signedIn>>

\* An error or a timeout; a failed resend frees its own attempt's login.
AskFails(c) ==
  /\ call[c].pc = "asking"
  /\ phoneLogin' = IF call[c].kind = "resend" /\ phoneLogin.attempt = call[c].attempt
                   THEN [phoneLogin EXCEPT !.busy = FALSE] ELSE phoneLogin
  /\ Return(c)
  /\ UNCHANGED <<attempts, challenge, signedIn>>

\* store_sent_code compares the attempt with the counter ...
StoreCheck(c) ==
  /\ call[c].pc = "check"
  /\ IF attempts = call[c].attempt THEN To(c, "store") ELSE Return(c)
  /\ UNCHANGED <<attempts, phoneLogin, challenge, signedIn>>

\* A code that is on its way, with how the next one would be delivered.
SentCode(attempt) == [attempt |-> attempt, busy |-> FALSE]

\* ... and then takes the lock of the stored login.
StoreSentCode(c) ==
  /\ call[c].pc = "store"
  /\ phoneLogin' = CASE call[c].answer = "code" -> SentCode(call[c].attempt)
                     [] call[c].answer = "signup" -> phoneLogin
                     [] OTHER -> NoPhoneLogin
  /\ signedIn' = (signedIn \/ call[c].answer = "success")
  /\ Return(c)
  /\ UNCHANGED <<attempts, challenge>>

(***************************************************************************)
(* Signing in with the code, and the password.                             *)
(***************************************************************************)
SignInBegin(c) ==
  /\ phoneLogin # NoPhoneLogin
  /\ Begin(c, "signin", "asking", phoneLogin.attempt)
  /\ UNCHANGED <<attempts, phoneLogin, challenge, signedIn>>

SignInAccepted(c) ==
  /\ call[c].pc = "asking" /\ call[c].kind = "signin"
  /\ phoneLogin' = NoPhoneLogin /\ signedIn' = TRUE
  /\ Return(c)
  /\ UNCHANGED <<attempts, challenge>>

\* SESSION_PASSWORD_NEEDED: GetPassword is asked for and its answer stored.
PasswordNeeded(c) ==
  /\ call[c].pc = "asking" /\ call[c].kind = "signin"
  /\ challenge' = TRUE
  /\ Return(c)
  /\ UNCHANGED <<attempts, phoneLogin, signedIn>>

PasswordBegin(c) ==
  /\ challenge /\ challenge' = FALSE
  /\ Begin(c, "password", "asking", 0)
  /\ UNCHANGED <<attempts, phoneLogin, signedIn>>

PasswordAccepted(c) ==
  /\ call[c].pc = "asking" /\ call[c].kind = "password"
  /\ phoneLogin' = NoPhoneLogin /\ signedIn' = TRUE
  /\ Return(c)
  /\ UNCHANGED <<attempts, challenge>>

\* A wrong password or a lost connection used the challenge up: a new one is
\* asked for, which may fail as well (AskFails).
PasswordRefused(c) ==
  /\ call[c].pc = "asking" /\ call[c].kind = "password"
  /\ challenge' = TRUE
  /\ Return(c)
  /\ UNCHANGED <<attempts, phoneLogin, signedIn>>

\* The QR token is shown, or the session turns out to be signed in.
QrExported(c) ==
  /\ call[c].pc = "asking" /\ call[c].kind = "qr"
  /\ signedIn' \in {signedIn, TRUE}
  /\ Return(c)
  /\ UNCHANGED <<attempts, phoneLogin, challenge>>

\* A poll that finds the session signed in forgets the phone login.
QrPoll ==
  /\ phoneLogin' = NoPhoneLogin /\ signedIn' = TRUE
  /\ UNCHANGED <<attempts, challenge, call>>

CallStep(c) ==
  \/ \E k \in {"request", "cancel", "qr"} : NewAttempt(c, k)
  \/ ForgetLogin(c) \/ ForgetChallenge(c) \/ ResendBegin(c) \/ Answered(c)
  \/ AskFails(c) \/ StoreCheck(c) \/ StoreSentCode(c) \/ SignInBegin(c)
  \/ SignInAccepted(c) \/ PasswordNeeded(c) \/ PasswordBegin(c)
  \/ PasswordAccepted(c) \/ PasswordRefused(c) \/ QrExported(c)

PhoneNext == QrPoll \/ \E c \in Calls : CallStep(c)

PhoneSpec == PhoneInit /\ [][PhoneNext]_phoneVars

-----------------------------------------------------------------------------
PhoneTypeOK ==
  /\ attempts \in 0..MaxAttempt /\ challenge \in BOOLEAN /\ signedIn \in BOOLEAN
  /\ phoneLogin \in [attempt : 0..MaxAttempt, busy : BOOLEAN]
  /\ call \in [Calls -> [pc : {"idle", "forgetLogin", "forgetChallenge", "asking", "check", "store"},
                         kind : {"none", "request", "resend", "cancel", "qr", "signin", "password"},
                         attempt : 0..MaxAttempt,
                         answer : {"none", "code", "success", "signup", "payment"}]]

(***************************************************************************)
(* Telegram is asked for one new code at a time: no two resends of one     *)
(* attempt are under way, although an older attempt's resend may still     *)
(* fail while the newer one waits (request_in_flight and attempt_id).      *)
(***************************************************************************)
OneResend ==
  \A c, d \in Calls :
    (c # d /\ {call[c].kind, call[d].kind} = {"resend"} /\ {call[c].pc, call[d].pc} = {"asking"})
      => call[c].attempt # call[d].attempt

AskingCode(c) == call[c].pc # "idle" /\ call[c].kind \in {"request", "resend"}

\* Attempts are drawn from the counter, and 0 is none of them.
AttemptsDrawn ==
  /\ phoneLogin.attempt <= attempts /\ (phoneLogin.attempt = 0 => ~phoneLogin.busy)
  /\ \A c \in Calls :
       /\ call[c].attempt <= attempts
       /\ AskingCode(c) => call[c].attempt # 0
       /\ call[c].pc \in {"check", "store"} => AskingCode(c)

\* Two calls never ask for a code of the same attempt, and a call that asks for
\* one of the stored login's attempt is the resend that made it busy.
AttemptsApart ==
  /\ \A c, d \in Calls : c # d /\ AskingCode(c) /\ AskingCode(d) => call[c].attempt # call[d].attempt
  /\ \A c \in Calls : AskingCode(c) /\ call[c].attempt = phoneLogin.attempt =>
       call[c].kind = "resend" /\ phoneLogin.busy

(* What the login prompts of several calls leave behind.                   *)
PhoneInv == PhoneTypeOK /\ OneResend /\ AttemptsDrawn /\ AttemptsApart
=============================================================================
