------------------------------- MODULE Users -------------------------------
(***************************************************************************)
(* What the handlers of accounts share: the tables users and ucodes, the   *)
(* refresh tokens in Redis, the mail queue, and the requests in progress;  *)
(* with the helpers of                                                     *)
(* common/repository/user/user.repository.ts and                           *)
(* common/repository/ucode/ucode.repository.ts.                            *)
(*                                                                         *)
(* As in Store, a request is a little process that issues one statement at *)
(* a time, and everything may happen between two statements.               *)
(***************************************************************************)
EXTENDS Naturals, Sequences, FiniteSets

CONSTANTS
  Accounts,          \* ids of users rows
  Emails,            \* addresses
  Codes,             \* tokens of ucodes rows
  Requests,          \* how many requests are served at once
  Kinds,             \* the kinds of requests that are made
  TypeInputs,        \* what a request may give as the type of a user
  OtpLife, LinkLife, \* how long a one-time code and a verification link live
  MaxClock,          \* bound: the clock stops here
  MaxFaults,         \* bound: failing statements, lost letters and crashes
  MaxMail,           \* bound: jobs waiting in the mail queue
  NULL, Gone         \* the SQL null or no row yet; a deleted row

ASSUME UsersAssumption ==
  /\ {OtpLife, LinkLife, MaxClock, MaxFaults, MaxMail} \subseteq Nat
  /\ NULL # Gone
  /\ "admin" \notin Emails /\ NULL # "admin"
  /\ NULL \notin Accounts \cup Emails \cup Codes
  /\ Gone \notin Accounts \cup Emails \cup Codes
  /\ NULL \notin {"google", "linkedin"} \X Emails
  /\ Accounts \cap Emails = {}

VARIABLES
  user,      \* table users
  ucode,     \* table ucodes, by token
  refresh,   \* the accounts Redis holds a refresh token of
  mail,      \* the mail queue, first job first
  inbox,     \* letters with a code that were delivered
  decision,  \* the last letter about a tutor's application, by account
  request,   \* requests in progress
  clock, faults,
  (* and, for the properties, what happened so far:                        *)
  held,      \* the addresses each account has had
  spent,     \* the codes that were used to change a row
  reused,    \* those used more than once
  disturbed  \* the codes and accounts on which two requests overlapped or one failed

tables  == <<user, ucode, refresh>>
post    == <<mail, inbox, decision>>
process == <<clock, faults>>
history == <<held, spent, reused, disturbed>>
avars   == <<tables, post, request, process, history>>

----------------------------------------------------------------------------
(* Rows.  A password stands for the one who chose it: somebody logged in   *)
(* as an account, the reader of an address, or an administrator.           *)
(* email_verified_at and is_verified are set together; verified is the     *)
(* address of the letter that set them.  billing_id is whether there is    *)
(* one.  The user_id of a code is never read and left out.                 *)

Types     == {"student", "teacher", "tutor", "admin", "user"}
Decisions == {"pending", "accepted", "rejected"}
Choosers  == Accounts \cup Emails \cup {"admin", NULL}

(* googleId or linkedinId: the profile a user was created from, known by   *)
(* its address.                                                            *)
Profiles == {"google", "linkedin"} \X Emails

UserRow ==
  [email: Emails, type: Types, password: Choosers, verified: Emails \cup {NULL},
   is_accepted: Decisions, approved: BOOLEAN, is_restricted: BOOLEAN, status: BOOLEAN,
   billing_id: BOOLEAN, provider: Profiles \cup {NULL}]

UcodeRow == [email: Emails, expired_at: Nat]

ASSUME RowsAssumption ==
  /\ NULL \notin UserRow \cup UcodeRow /\ Gone \notin UserRow \cup UcodeRow
  /\ NULL \notin Types

CodeLetter     == [to: Emails, code: Codes \cup {NULL}]
DecisionLetter == [to: Emails, about: Accounts, is_accepted: Decisions]

NewUser(email, type, password, provider) ==
  [email |-> email, type |-> type, password |-> password, verified |-> NULL,
   is_accepted |-> "pending", approved |-> FALSE, is_restricted |-> FALSE,
   status |-> TRUE, billing_id |-> FALSE, provider |-> provider]

Present(u) == user[u] \notin {NULL, Gone}
Known(c)   == ucode[c] \notin {NULL, Gone}
With(email) == {u \in Accounts : Present(u) /\ user[u].email = email}

----------------------------------------------------------------------------
(* Requests in progress.                                                   *)

Idle == [pc |-> "idle"]

RequestState ==
  {Idle}
    \cup [pc: {"register.create"}, email: Emails, type: Types]
    \cup [pc: {"register.billing", "register.admins", "register.code", "register.mail"},
          user: Accounts, to: Emails, type: Types, code: Codes \cup {NULL}]
    \cup [pc: {"otp.create"}, user: Accounts, to: Emails, email: Emails \cup {NULL},
          expired_at: Nat]
    \cup [pc: {"otp.mail"}, to: Emails, code: Codes \cup {NULL}]
    \cup [pc: {"verify.update"}, user: Accounts, letter: Emails]
    \cup [pc: {"move.update", "move.delete"}, user: Accounts, email: Emails, code: Codes]
    \cup [pc: {"reset.update", "reset.delete"}, email: Emails, code: Codes, letter: Emails]
    \cup [pc: {"password.check", "password.update"}, user: Accounts, email: Emails,
          given: Choosers]
    \cup [pc: {"login.set", "social.details", "social.billing"}, user: Accounts]
    \cup [pc: {"social.create"}, profile: Profiles]
    \cup [pc: {"decide.update", "decide.mail"}, user: Accounts, to: Emails,
          is_accepted: Decisions]
    \cup [pc: {"restrict.update", "unrestrict.update", "approve.update", "reject.update",
               "delete.row"}, user: Accounts]
    \cup [pc: {"admin.create"}, email: Emails, type: Types]
    \cup [pc: {"admin.update"}, user: Accounts, email: Emails \cup {NULL},
          password: BOOLEAN, type: Types]

(* A request r of a kind that is made arrives, and st is what it does      *)
(* next.  A request that is refused changes nothing and is not a step.     *)
Arrive(r, kind, st) ==
  /\ kind \in Kinds
  /\ request[r] = Idle
  /\ request' = [request EXCEPT ![r] = st]

At(r, pc)     == request[r].pc = pc
Continue(r, st) == request' = [request EXCEPT ![r] = st]
Goto(r, pc)   == request' = [request EXCEPT ![r].pc = pc]
Finish(r)     == request' = [request EXCEPT ![r] = Idle]

TypeOK ==
  /\ user \in [Accounts -> UserRow \cup {NULL, Gone}]
  /\ ucode \in [Codes -> UcodeRow \cup {NULL, Gone}]
  /\ refresh \subseteq Accounts
  /\ mail \in Seq(CodeLetter \cup DecisionLetter)
  /\ inbox \subseteq CodeLetter
  /\ decision \in [Accounts -> Decisions]
  /\ request \in [Requests -> RequestState]
  /\ clock \in Nat /\ faults \in Nat
  /\ held \in [Accounts -> SUBSET Emails]
  /\ spent \subseteq Codes /\ reused \subseteq Codes
  /\ disturbed \subseteq Codes \cup Accounts

(* The rows that earlier requests have left, deleted ones apart: written   *)
(* by their own, as the handlers write them.                               *)
Rows(rows) == {u \in Accounts : rows[u] # NULL}

Left(rows) ==
  /\ rows \in [Accounts -> UserRow \cup {NULL}]
  /\ IsFiniteSet(Rows(rows))
  /\ \A u, v \in Rows(rows) : u # v => rows[u].email # rows[v].email
  /\ \A u \in Rows(rows) :
       /\ rows[u].password \in {u, "admin", NULL, rows[u].email}
       /\ rows[u].verified \in {NULL, rows[u].email}
       /\ rows[u].is_restricted => ~rows[u].status

(* Nothing is in progress, and every tutor was told what the row says.     *)
InitWith(rows) ==
  /\ user = rows
  /\ ucode = [c \in Codes |-> NULL]
  /\ refresh = {}
  /\ mail = <<>> /\ inbox = {}
  /\ decision = [u \in Accounts |-> IF rows[u] = NULL THEN "pending" ELSE rows[u].is_accepted]
  /\ request = [r \in Requests |-> Idle]
  /\ clock = 0 /\ faults = 0
  /\ held = [u \in Accounts |-> IF rows[u] = NULL THEN {} ELSE {rows[u].email}]
  /\ spent = {} /\ reused = {} /\ disturbed = {}

Init == \E rows : Left(rows) /\ InitWith(rows)

----------------------------------------------------------------------------
(* The statements of the repositories.  A statement whose where names no   *)
(* row, or that a unique index refuses, rejects and ends its request.      *)

InsertTwice(u, row) ==  \* mutant: email without a unique index
  /\ user[u] = NULL
  /\ user' = [user EXCEPT ![u] = row]
  /\ held' = [held EXCEPT ![u] = {row.email}]

(* prisma.user.create: a fresh id, and an address nobody has.              *)
Insert(u, row) ==
  /\ user[u] = NULL
  /\ With(row.email) = {}
  /\ user' = [user EXCEPT ![u] = row]
  /\ held' = [held EXCEPT ![u] = {row.email}]

(* changeEmail and updateUser: the row gets another address.               *)
SetEmail(u, email) ==
  /\ user' = [user EXCEPT ![u].email = email]
  /\ held' = [held EXCEPT ![u] = @ \cup {email}]

ValidAnywhere(c, email) ==  \* mutant: finds the code without its address
  Known(c) /\ ucode[c].expired_at >= clock

(* validateToken: there is a row of this token and address that is still   *)
(* valid.  (Both ways of creating a code set expired_at.)                  *)
Valid(c, email) ==
  Known(c) /\ ucode[c].email = email /\ ucode[c].expired_at >= clock

InsertCode(c, email, expired_at) ==
  /\ ucode[c] = NULL
  /\ ucode' = [ucode EXCEPT ![c] = [email |-> email, expired_at |-> expired_at]]

DeleteTokenNever(c, email) ==  \* mutant: the code stays
  UNCHANGED ucode

(* deleteToken: deleteMany by address and token.                           *)
DeleteToken(c, email) ==
  ucode' = IF Known(c) /\ ucode[c].email = email THEN [ucode EXCEPT ![c] = Gone] ELSE ucode

(* MailService: queue.add.                                                 *)
Enqueue(letter) ==
  /\ Len(mail) < MaxMail
  /\ mail' = Append(mail, letter)
=============================================================================
