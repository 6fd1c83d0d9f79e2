---------------------------- MODULE AuthService ----------------------------
(***************************************************************************)
(* modules/auth: registration, verification, one-time codes, passwords,    *)
(* change of address, login and logout, sign-in with Google and LinkedIn,  *)
(* and the mail worker of mail/.                                           *)
(*                                                                         *)
(* Look-ups that only refuse what a later statement refuses again, or that *)
(* refuse without having changed anything, are part of the arrival.  A     *)
(* code is presented by somebody who read a letter it came in.             *)
(***************************************************************************)
EXTENDS Users

nothing == <<tables, post, process, history>>

----------------------------------------------------------------------------
(* register: AuthController answers "We have sent a verification link"     *)
(* whatever createUser returns; only what it throws becomes a refusal.     *)

Register(r, email, type) ==
  /\ With(email) = {}
  /\ Arrive(r, "register", [pc |-> "register.create", email |-> email, type |-> type])
  /\ UNCHANGED nothing

RegisterCreate(r, u) ==
  /\ At(r, "register.create")
  /\ Insert(u, NewUser(request[r].email, request[r].type, u, NULL))
  /\ Continue(r, [pc |-> "register.billing", user |-> u, to |-> request[r].email,
                  type |-> request[r].type, code |-> NULL])
  /\ UNCHANGED <<ucode, refresh, post, process, spent, reused, disturbed>>

(* The address was taken in the meantime: the unique index refuses.        *)
RegisterRefused(r) ==
  /\ At(r, "register.create")
  /\ With(request[r].email) # {}
  /\ Finish(r)
  /\ UNCHANGED nothing

(* The customer is created at Stripe and its id stored.                    *)
RegisterBilling(r) ==
  LET u == request[r].user IN
  /\ At(r, "register.billing")
  /\ Present(u)
  /\ user' = [user EXCEPT ![u].billing_id = TRUE]
  /\ Goto(r, IF request[r].type = "teacher" THEN "register.admins" ELSE "register.code")
  /\ UNCHANGED <<ucode, refresh, post, process, history>>

(* The administrators are notified, one after the other.                   *)
RegisterAdmins(r) ==
  /\ At(r, "register.admins")
  /\ Goto(r, "register.code")
  /\ UNCHANGED nothing

RegisterCode(r, c) ==
  /\ At(r, "register.code")
  /\ Present(request[r].user)
  /\ InsertCode(c, request[r].to, clock + LinkLife)
  /\ Continue(r, [request[r] EXCEPT !.pc = "register.mail", !.code = c])
  /\ UNCHANGED <<user, refresh, post, process, history>>

(* The account was deleted meanwhile: the update rejects inside the try;   *)
(* so does the insert of the code, for which createVerificationToken       *)
(* answers null and token.token throws.                                    *)
RegisterOrphan(r) ==
  /\ request[r].pc \in {"register.billing", "register.code"}
  /\ ~Present(request[r].user)
  /\ Finish(r)
  /\ UNCHANGED nothing

RegisterMailSkipped(r) ==  \* mutant: the letter is never queued
  /\ At(r, "register.mail")
  /\ Finish(r)
  /\ UNCHANGED nothing

RegisterMail(r) ==
  /\ At(r, "register.mail")
  /\ Enqueue([to |-> request[r].to, code |-> request[r].code])
  /\ Finish(r)
  /\ UNCHANGED <<tables, inbox, decision, process, history>>

----------------------------------------------------------------------------
(* One-time codes: forgotPassword, resendVerificationEmail and             *)
(* requestEmailChange create a code and post it.  createToken takes the    *)
(* time before it reads the user, and the user's address of then unless it *)
(* was given one; the letter goes to the address of the request.           *)

AskCode(r, kind, u, to, email) ==
  /\ Arrive(r, kind, [pc |-> "otp.create", user |-> u, to |-> to, email |-> email,
                      expired_at |-> clock + OtpLife])
  /\ UNCHANGED nothing

ForgotPassword(r, u, email) == u \in With(email) /\ AskCode(r, "forgot", u, email, NULL)
ResendVerificationEmail(r, u, email) == u \in With(email) /\ AskCode(r, "resend", u, email, NULL)
RequestEmailChange(r, u, email) == Present(u) /\ AskCode(r, "requestChange", u, email, email)

OtpCreate(r, c) ==
  LET u == request[r].user IN
  /\ At(r, "otp.create")
  /\ Present(u)
  /\ InsertCode(c, IF request[r].email = NULL THEN user[u].email ELSE request[r].email,
                request[r].expired_at)
  /\ Continue(r, [pc |-> "otp.mail", to |-> request[r].to, code |-> c])
  /\ UNCHANGED <<user, refresh, post, process, history>>

(* createToken answers null without a user, and the letter goes out        *)
(* without a code.                                                         *)
OtpOrphan(r) ==
  /\ At(r, "otp.create")
  /\ ~Present(request[r].user)
  /\ Continue(r, [pc |-> "otp.mail", to |-> request[r].to, code |-> NULL])
  /\ UNCHANGED nothing

OtpMail(r) ==
  /\ At(r, "otp.mail")
  /\ Enqueue([to |-> request[r].to, code |-> request[r].code])
  /\ Finish(r)
  /\ UNCHANGED <<tables, inbox, decision, process, history>>

----------------------------------------------------------------------------
(* Presenting a code.  What is looked up, the user and then the code, is   *)
(* looked up on arrival: a code found after the user was there, and not    *)
(* yet deleted, when the user was found, since somebody had read it.       *)

Holds(r, c) ==
  /\ request[r].pc \in {"reset.update", "reset.delete", "move.update", "move.delete"}
  /\ request[r].code = c

(* Two requests on one code overlap.                                       *)
Overlaps(r, c) ==
  disturbed' = IF \E q \in Requests : q # r /\ Holds(q, c)
                 THEN disturbed \cup {c} ELSE disturbed

Spend(c) ==
  /\ spent' = spent \cup {c}
  /\ reused' = reused \cup (spent \cap {c})

(* verifyEmail: the user of the address, the code, the row by its id.  The *)
(* code stays.                                                             *)
VerifyEmail(r, u, email, letter) ==
  /\ u \in With(email) /\ Valid(letter.code, email)
  /\ Arrive(r, "verify", [pc |-> "verify.update", user |-> u, letter |-> letter.to])
  /\ UNCHANGED nothing

VerifyUpdate(r) ==
  LET u == request[r].user IN
  /\ At(r, "verify.update")
  /\ user' = IF Present(u) THEN [user EXCEPT ![u].verified = request[r].letter] ELSE user
  /\ Finish(r)
  /\ UNCHANGED <<ucode, refresh, post, process, history>>

(* resetPassword: the code, then the row that has the address by then,     *)
(* then the code is deleted.                                               *)
ResetPassword(r, email, letter) ==
  /\ With(email) # {} /\ Valid(letter.code, email)
  /\ Arrive(r, "reset", [pc |-> "reset.update", email |-> email, code |-> letter.code,
                         letter |-> letter.to])
  /\ Overlaps(r, letter.code)
  /\ UNCHANGED <<tables, post, process, held, spent, reused>>

ResetUpdate(r) ==
  LET email == request[r].email IN
  /\ At(r, "reset.update")
  /\ \/ \E u \in With(email) :
          /\ user' = [user EXCEPT ![u].password = request[r].letter]
          /\ Spend(request[r].code)
          /\ Goto(r, "reset.delete")
     \/ With(email) = {} /\ Finish(r) /\ UNCHANGED <<user, spent, reused>>
  /\ UNCHANGED <<ucode, refresh, post, process, held, disturbed>>

ResetDelete(r) ==
  /\ At(r, "reset.delete")
  /\ DeleteToken(request[r].code, request[r].email)
  /\ Finish(r)
  /\ UNCHANGED <<user, refresh, post, process, history>>

(* changeEmail: the code, whether the address is free (the unique index    *)
(* asks again), the row by its id, then the code is deleted.               *)
ChangeEmail(r, u, email, letter) ==
  /\ Present(u) /\ Valid(letter.code, email)
  /\ Arrive(r, "changeEmail", [pc |-> "move.update", user |-> u, email |-> email,
                               code |-> letter.code])
  /\ Overlaps(r, letter.code)
  /\ UNCHANGED <<tables, post, process, held, spent, reused>>

ChangeEmailUpdate(r) ==
  LET u == request[r].user email == request[r].email IN
  /\ At(r, "move.update")
  /\ \/ /\ Present(u) /\ With(email) = {}
        /\ SetEmail(u, email)
        /\ Spend(request[r].code)
        /\ Goto(r, "move.delete")
     \/ /\ ~Present(u) \/ With(email) # {}
        /\ Finish(r) /\ UNCHANGED <<user, held, spent, reused>>
  /\ UNCHANGED <<ucode, refresh, post, process, disturbed>>

ChangeEmailDelete(r) ==
  /\ At(r, "move.delete")
  /\ DeleteToken(request[r].code, request[r].email)
  /\ Finish(r)
  /\ UNCHANGED <<user, refresh, post, process, history>>

----------------------------------------------------------------------------
(* changePassword: the user's address, then the row of that address for    *)
(* the old password, then the row of that address for the new one.  Who    *)
(* asks gives a password chosen as the user, or as a reader of its mail.   *)

ChangePassword(r, u, given) ==
  /\ Present(u) /\ given \in {u} \cup held[u]
  /\ Arrive(r, "password", [pc |-> "password.check", user |-> u, email |-> user[u].email,
                            given |-> given])
  /\ UNCHANGED nothing

PasswordCheck(r) ==
  /\ At(r, "password.check")
  /\ IF \E u \in With(request[r].email) : user[u].password = request[r].given
       THEN Goto(r, "password.update") ELSE Finish(r)
  /\ UNCHANGED nothing

PasswordUpdate(r) ==
  LET email == request[r].email IN
  /\ At(r, "password.update")
  /\ \/ \E u \in With(email) : user' = [user EXCEPT ![u].password = request[r].user]
     \/ With(email) = {} /\ UNCHANGED user
  /\ Finish(r)
  /\ UNCHANGED <<ucode, refresh, post, process, history>>

----------------------------------------------------------------------------
(* login: one read decides; the token is stored after the password has     *)
(* been compared.  (bcrypt.compare throws for a user without a password.)  *)

MayLogIn(u) ==
  user[u].type = "admin" \/ (user[u].verified # NULL /\ ~user[u].is_restricted)

Login(r, u) ==
  /\ Present(u) /\ MayLogIn(u) /\ user[u].password # NULL
  /\ Arrive(r, "login", [pc |-> "login.set", user |-> u])
  /\ UNCHANGED nothing

LoginSet(r) ==
  /\ At(r, "login.set")
  /\ refresh' = refresh \cup {request[r].user}
  /\ Finish(r)
  /\ UNCHANGED <<user, ucode, post, process, history>>

(* revokeRefreshToken, and the seven days of a token in Redis.             *)
Logout(u) ==
  /\ "logout" \in Kinds
  /\ refresh' = refresh \ {u}
  /\ UNCHANGED <<user, ucode, post, request, process, history>>

----------------------------------------------------------------------------
(* GoogleStrategy and LinkedInStrategy find or create the user of a        *)
(* profile, and then issue tokens and make it a customer.                  *)

OfProfile(p) == {u \in Accounts : Present(u) /\ user[u].provider = p}

Social(r, p) ==
  /\ \/ \E u \in OfProfile(p) : Arrive(r, p[1], [pc |-> "social.details", user |-> u])
     \/ OfProfile(p) = {} /\ Arrive(r, p[1], [pc |-> "social.create", profile |-> p])
  /\ UNCHANGED nothing

SocialCreate(r, u) ==
  LET p == request[r].profile IN
  /\ At(r, "social.create")
  /\ OfProfile(p) = {}
  /\ Insert(u, NewUser(p[2], IF p[1] = "google" THEN "student" ELSE "user", NULL, p))
  /\ Continue(r, [pc |-> "social.details", user |-> u])
  /\ UNCHANGED <<ucode, refresh, post, process, spent, reused, disturbed>>

SocialRefused(r) ==
  /\ At(r, "social.create")
  /\ OfProfile(request[r].profile) # {} \/ With(request[r].profile[2]) # {}
  /\ Finish(r)
  /\ UNCHANGED nothing

(* googleLogin, authenticateLinkedInUser: without a user they throw.       *)
SocialToken(r) ==
  LET u == request[r].user IN
  /\ At(r, "social.details")
  /\ \/ Present(u) /\ refresh' = refresh \cup {u} /\ Goto(r, "social.billing")
     \/ ~Present(u) /\ Finish(r) /\ UNCHANGED refresh
  /\ UNCHANGED <<user, ucode, post, process, history>>

SocialBilling(r) ==
  LET u == request[r].user IN
  /\ At(r, "social.billing")
  /\ user' = IF Present(u) THEN [user EXCEPT ![u].billing_id = TRUE] ELSE user
  /\ Finish(r)
  /\ UNCHANGED <<ucode, refresh, post, process, history>>

----------------------------------------------------------------------------
(* The worker of the mail queue takes the first job.                       *)

IsAbout(letter, u) == "about" \in DOMAIN letter /\ letter.about = u

Deliver ==
  /\ mail # <<>>
  /\ mail' = Tail(mail)
  /\ IF "code" \in DOMAIN Head(mail)
       THEN inbox' = inbox \cup {Head(mail)} /\ UNCHANGED decision
       ELSE decision' = [decision EXCEPT ![Head(mail).about] = Head(mail).is_accepted]
            /\ UNCHANGED inbox
  /\ UNCHANGED <<tables, request, process, history>>

(* Jobs are tried once: one whose letter the server does not take is lost. *)
LoseLetter ==
  /\ mail # <<>> /\ faults < MaxFaults
  /\ mail' = Tail(mail)
  /\ faults' = faults + 1
  /\ disturbed' = disturbed \cup {u \in Accounts : IsAbout(Head(mail), u)}
  /\ UNCHANGED <<tables, inbox, decision, request, clock, held, spent, reused>>

----------------------------------------------------------------------------
AuthNext ==
  \E r \in Requests :
    \/ \E u \in Accounts, email \in Emails :
         \/ ForgotPassword(r, u, email) \/ ResendVerificationEmail(r, u, email)
         \/ RequestEmailChange(r, u, email)
         \/ \E letter \in {l \in inbox : l.code # NULL} :
              VerifyEmail(r, u, email, letter) \/ ChangeEmail(r, u, email, letter)
    \/ \E email \in Emails :
         \/ \E type \in TypeInputs \cap {"student", "teacher"} : Register(r, email, type)
         \/ \E letter \in {l \in inbox : l.code # NULL} : ResetPassword(r, email, letter)
    \/ \E u \in Accounts : Login(r, u) \/ \E given \in Choosers : ChangePassword(r, u, given)
    \/ \E p \in Profiles : Social(r, p)
    \/ \E u \in Accounts : RegisterCreate(r, u) \/ SocialCreate(r, u)
    \/ \E c \in Codes : RegisterCode(r, c) \/ OtpCreate(r, c)
    \/ RegisterRefused(r) \/ RegisterBilling(r) \/ RegisterAdmins(r) \/ RegisterOrphan(r)
    \/ RegisterMail(r) \/ OtpOrphan(r) \/ OtpMail(r)
    \/ VerifyUpdate(r) \/ ResetUpdate(r) \/ ResetDelete(r)
    \/ ChangeEmailUpdate(r) \/ ChangeEmailDelete(r)
    \/ PasswordCheck(r) \/ PasswordUpdate(r)
    \/ LoginSet(r) \/ SocialRefused(r) \/ SocialToken(r) \/ SocialBilling(r)

MailNext == Deliver \/ LoseLetter

LogoutNext == \E u \in Accounts : Logout(u)
=============================================================================
