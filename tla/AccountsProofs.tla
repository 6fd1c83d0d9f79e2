--------------------------- MODULE AccountsProofs ---------------------------
(***************************************************************************)
(* The theorems about Accounts and AccountPages, for any number of         *)
(* accounts, addresses, codes and requests and any rows at the start: an   *)
(* address names one account at a time, the handlers implement             *)
(* AccountContract, a code is used once, a password is written by its own, *)
(* and the pages show what the letters say and count nobody twice.         *)
(***************************************************************************)
EXTENDS AccountPages, FiniteSetTheorems, TLAPS

CreateState == [pc: {"register.create"}, email: Emails, type: Types]
RegisterPcs == {"register.billing", "register.admins", "register.code", "register.mail"}
RegisterState ==
  [pc: {"register.billing", "register.admins", "register.code", "register.mail"},
   user: Accounts, to: Emails, type: Types, code: Codes \cup {NULL}]
OtpState ==
  [pc: {"otp.create"}, user: Accounts, to: Emails, email: Emails \cup {NULL}, expired_at: Nat]
OtpMailState == [pc: {"otp.mail"}, to: Emails, code: Codes \cup {NULL}]
VerifyState == [pc: {"verify.update"}, user: Accounts, letter: Emails]
MoveState == [pc: {"move.update", "move.delete"}, user: Accounts, email: Emails, code: Codes]
ResetState == [pc: {"reset.update", "reset.delete"}, email: Emails, code: Codes, letter: Emails]
PasswordState ==
  [pc: {"password.check", "password.update"}, user: Accounts, email: Emails, given: Choosers]
SessionPcs == {"login.set", "social.details", "social.billing"}
SessionState == [pc: {"login.set", "social.details", "social.billing"}, user: Accounts]
SocialState == [pc: {"social.create"}, profile: Profiles]
DecideState ==
  [pc: {"decide.update", "decide.mail"}, user: Accounts, to: Emails, is_accepted: Decisions]
ModeratePcs ==
  {"restrict.update", "unrestrict.update", "approve.update", "reject.update", "delete.row"}
ModerateState ==
  [pc: {"restrict.update", "unrestrict.update", "approve.update", "reject.update",
        "delete.row"}, user: Accounts]
AdminCreateState == [pc: {"admin.create"}, email: Emails, type: Types]
AdminUpdateState ==
  [pc: {"admin.update"}, user: Accounts, email: Emails \cup {NULL}, password: BOOLEAN,
   type: Types]

(* The shape of a request by where it stands.                              *)
LEMMA Shapes ==
  ASSUME NEW st \in RequestState
  PROVE  /\ st.pc = "register.create" => st \in CreateState
         /\ st.pc \in RegisterPcs => st \in RegisterState
         /\ st.pc = "otp.create" => st \in OtpState
         /\ st.pc = "otp.mail" => st \in OtpMailState
         /\ st.pc = "verify.update" => st \in VerifyState
         /\ st.pc \in {"move.update", "move.delete"} => st \in MoveState
         /\ st.pc \in {"reset.update", "reset.delete"} => st \in ResetState
         /\ st.pc \in {"password.check", "password.update"} => st \in PasswordState
         /\ st.pc \in SessionPcs => st \in SessionState
         /\ st.pc = "social.create" => st \in SocialState
         /\ st.pc \in {"decide.update", "decide.mail"} => st \in DecideState
         /\ st.pc \in ModeratePcs => st \in ModerateState
         /\ st.pc = "admin.create" => st \in AdminCreateState
         /\ st.pc = "admin.update" => st \in AdminUpdateState
<1>1. \/ st = Idle /\ Idle.pc = "idle"
      \/ st \in CreateState /\ st.pc = "register.create"
      \/ st \in RegisterState /\ st.pc \in RegisterPcs
      \/ st \in OtpState /\ st.pc = "otp.create"
      \/ st \in OtpMailState /\ st.pc = "otp.mail"
      \/ st \in VerifyState /\ st.pc = "verify.update"
      \/ st \in MoveState /\ st.pc \in {"move.update", "move.delete"}
      \/ st \in ResetState /\ st.pc \in {"reset.update", "reset.delete"}
      \/ st \in PasswordState /\ st.pc \in {"password.check", "password.update"}
      \/ st \in SessionState /\ st.pc \in SessionPcs
      \/ st \in SocialState /\ st.pc = "social.create"
      \/ st \in DecideState /\ st.pc \in {"decide.update", "decide.mail"}
      \/ st \in ModerateState /\ st.pc \in ModeratePcs
      \/ st \in AdminCreateState /\ st.pc = "admin.create"
      \/ st \in AdminUpdateState /\ st.pc = "admin.update"
  BY DEF RequestState, CreateState, RegisterState, RegisterPcs, OtpState, OtpMailState,
         VerifyState, MoveState, ResetState, PasswordState, SessionState, SessionPcs,
         SocialState, DecideState, ModerateState, ModeratePcs, AdminCreateState,
         AdminUpdateState, Idle
<1> QED
  BY <1>1 DEF RegisterPcs, SessionPcs, ModeratePcs

LEMMA States ==
  CreateState \cup RegisterState \cup OtpState \cup OtpMailState \cup VerifyState
    \cup MoveState \cup ResetState \cup PasswordState \cup SessionState \cup SocialState
    \cup DecideState \cup ModerateState \cup AdminCreateState \cup AdminUpdateState
    \cup {Idle} \subseteq RequestState
<1> SUFFICES ASSUME NEW st,
             st \in CreateState \cup RegisterState \cup OtpState \cup OtpMailState \cup VerifyState
               \cup MoveState \cup ResetState \cup PasswordState \cup SessionState \cup SocialState
               \cup DecideState \cup ModerateState \cup AdminCreateState \cup AdminUpdateState
               \cup {Idle}
             PROVE  st \in RequestState
  OBVIOUS
<1> QED
  BY Zenon DEF RequestState, CreateState, RegisterState, OtpState, OtpMailState, VerifyState,
     MoveState, ResetState, PasswordState, SessionState, SocialState, DecideState,
     ModerateState, AdminCreateState, AdminUpdateState

----------------------------------------------------------------------------
(* What the proofs need to know of a state.                                *)

AType ==
  /\ user \in [Accounts -> UserRow \cup {NULL, Gone}]
  /\ request \in [Requests -> RequestState]
  /\ mail \in Seq(CodeLetter \cup DecisionLetter)
  /\ inbox \subseteq CodeLetter
  /\ clock \in Nat

AddressesUnique ==
  \A u, v \in Accounts : Present(u) /\ Present(v) /\ u # v => user[u].email # user[v].email

AInv == AType /\ AddressesUnique

Seen == [u \in Accounts |-> View(user[u])]

(* A step that leaves the users alone, whatever else it does.              *)
LEMMA QuietStep ==
  ASSUME AInv, UNCHANGED user, AType'
  PROVE  AInv' /\ UNCHANGED Seen
BY DEF AInv, AddressesUnique, Present, Seen

(* One row is written, and everybody sees the rest as before.              *)
LEMMA OneRow ==
  ASSUME AType, NEW u \in Accounts, NEW row \in UserRow \cup {NULL, Gone},
         user' = [user EXCEPT ![u] = row]
  PROVE  /\ user' \in [Accounts -> UserRow \cup {NULL, Gone}]
         /\ Seen' = [Seen EXCEPT ![u] = View(row)]
         /\ user'[u] = row /\ \A v \in Accounts : v # u => user'[v] = user[v]
         /\ Seen \in [Accounts -> {View(user[v]) : v \in Accounts}]
<1>1. /\ user' \in [Accounts -> UserRow \cup {NULL, Gone}]
      /\ user'[u] = row /\ \A v \in Accounts : v # u => user'[v] = user[v]
  BY DEF AType
<1> QED
  BY <1>1 DEF Seen

LEMMA SeenRow ==
  ASSUME AType, NEW u \in Accounts, Present(u)
  PROVE  /\ user[u] \in UserRow /\ user[u] # NULL /\ user[u] # Gone
         /\ user[u].email \in Emails
         /\ Seen[u] = [stage |-> IF user[u].verified = NULL THEN "open" ELSE "verified",
                       address |-> user[u].email]
         /\ Seen[u].stage \in {"open", "verified"} /\ Seen[u].address = user[u].email
<1>1. user[u] \in UserRow /\ user[u] # NULL /\ user[u] # Gone
  BY DEF AType, Present
<1>2. user[u].email \in Emails
  BY <1>1 DEF UserRow
<1>3. Seen[u] = View(user[u])
  BY DEF Seen
<1>4. View(user[u]) = [stage |-> IF user[u].verified = NULL THEN "open" ELSE "verified",
                       address |-> user[u].email]
  BY <1>1 DEF View
<1>5. Seen[u].stage \in {"open", "verified"} /\ Seen[u].address = user[u].email
  BY <1>3, <1>4
<1> QED
  BY <1>1, <1>2, <1>3, <1>4, <1>5

(* Who has an account, as the contract sees it.                            *)
LEMMA OpenIsPresent ==
  ASSUME AType
  PROVE  /\ \A u \in Accounts : Contract!Open(u) <=> Present(u)
         /\ \A u \in Accounts : Present(u) => Seen[u].address = user[u].email
         /\ \A email \in Emails : Contract!Free(email) <=> With(email) = {}
<1>1. ASSUME NEW u \in Accounts PROVE Contract!Open(u) <=> Present(u)
  <2>1. CASE Present(u)
    <3>1. Seen[u].stage \in {"open", "verified"}
      BY <2>1, SeenRow
    <3> QED
      BY <2>1, <3>1 DEF Contract!Open, Seen
  <2>2. CASE ~Present(u)
    BY <2>2, UsersAssumption DEF Contract!Open, Present, View
  <2> QED
    BY <2>1, <2>2
<1>2. ASSUME NEW u \in Accounts, Present(u) PROVE Seen[u].address = user[u].email
  BY <1>2, SeenRow
<1>3. ASSUME NEW email \in Emails PROVE Contract!Free(email) <=> With(email) = {}
  BY <1>1, <1>2 DEF Contract!Free, With, Seen
<1> QED
  BY <1>1, <1>2, <1>3

LEMMA UniqueKept ==
  ASSUME AInv, NEW u \in Accounts, NEW row \in UserRow \cup {NULL, Gone},
         user' = [user EXCEPT ![u] = row], AType',
         row \notin {NULL, Gone} =>
           \A v \in Accounts : v # u /\ Present(v) => user[v].email # row.email
  PROVE  AInv'
<1>1. user'[u] = row /\ \A v \in Accounts : v # u => user'[v] = user[v]
  BY OneRow DEF AInv
<1> QED
  BY <1>1 DEF AInv, AddressesUnique, Present

----------------------------------------------------------------------------
(* The four things that may happen to an account.                          *)

(* A row is inserted under an address nobody has.                          *)
LEMMA InsertStep ==
  ASSUME AInv, NEW u \in Accounts, NEW row \in UserRow, Insert(u, row), AType',
         row.verified = NULL
  PROVE  AInv' /\ [Contract!CNext]_Seen
<1>1. /\ user[u] = NULL /\ With(row.email) = {} /\ user' = [user EXCEPT ![u] = row]
      /\ row.email \in Emails /\ row # NULL /\ row # Gone
  BY RowsAssumption DEF Insert, UserRow
<1>2. AInv'
  BY <1>1, UniqueKept DEF With, AInv
<1>3. View(row) = [stage |-> "open", address |-> row.email]
  BY <1>1 DEF View
<1>4. Seen' = [Seen EXCEPT ![u] = [stage |-> "open", address |-> row.email]]
  BY <1>1, <1>3, OneRow DEF AInv
<1>5. Contract!Free(row.email)
  BY <1>1, OpenIsPresent DEF AInv
<1>6. Seen[u] = Contract!None
  BY <1>1, UsersAssumption DEF Seen, View, Contract!None
<1>7. Contract!COpen(u, row.email)
  BY <1>4, <1>5, <1>6 DEF Contract!COpen, Seen
<1> QED
  BY <1>1, <1>2, <1>7 DEF Contract!CNext

(* A row is edited; its address stays and so does a verification.          *)
LEMMA EditStep ==
  ASSUME AInv, NEW u \in Accounts, Present(u), NEW row \in UserRow,
         user' = [user EXCEPT ![u] = row], AType', row.email = user[u].email,
         user[u].verified # NULL => row.verified # NULL
  PROVE  AInv' /\ [Contract!CNext]_Seen
<1>1. row # NULL /\ row # Gone
  BY RowsAssumption
<1>2. AInv'
  BY UniqueKept DEF AInv, AddressesUnique
<1>3. View(row) = [stage |-> IF row.verified = NULL THEN "open" ELSE "verified",
                   address |-> user[u].email]
  BY <1>1 DEF View
<1>4. Seen' = [Seen EXCEPT ![u] = View(row)] /\ DOMAIN Seen = Accounts
  BY OneRow DEF AInv, Seen
<1>5. Seen[u] = [stage |-> IF user[u].verified = NULL THEN "open" ELSE "verified",
                 address |-> user[u].email]
  BY SeenRow DEF AInv
<1>6. CASE View(row) = Seen[u]
  <2>1. UNCHANGED Seen
    BY <1>4, <1>6 DEF Seen
  <2> QED
    BY <1>2, <2>1
<1>7. CASE View(row) # Seen[u]
  <2>1. View(row) = [Seen[u] EXCEPT !.stage = "verified"]
    BY <1>3, <1>5, <1>7
  <2>2. Seen' = [Seen EXCEPT ![u].stage = "verified"]
    BY <1>4, <2>1
  <2>3. Contract!Open(u)
    BY OpenIsPresent DEF AInv
  <2> QED
    BY <1>2, <2>2, <2>3 DEF Contract!CNext, Contract!CVerify, Seen
<1> QED
  BY <1>6, <1>7

(* A row gets an address that nobody else has.                             *)
LEMMA MoveStep ==
  ASSUME AInv, NEW u \in Accounts, Present(u), NEW row \in UserRow,
         user' = [user EXCEPT ![u] = row], AType', row.verified = user[u].verified,
         \A v \in Accounts \ {u} : Present(v) => user[v].email # row.email
  PROVE  AInv' /\ [Contract!CNext]_Seen
<1>1. row # NULL /\ row # Gone /\ row.email \in Emails
  BY RowsAssumption DEF UserRow
<1>2. AInv'
  BY UniqueKept DEF AInv
<1>3. CASE row.email = user[u].email
  BY <1>3, EditStep
<1>4. CASE row.email # user[u].email
  <2>1. View(row) = [stage |-> IF user[u].verified = NULL THEN "open" ELSE "verified",
                     address |-> row.email]
    BY <1>1 DEF View
  <2>2. Seen[u] = [stage |-> IF user[u].verified = NULL THEN "open" ELSE "verified",
                   address |-> user[u].email]
    BY SeenRow DEF AInv
  <2>3. View(row) = [Seen[u] EXCEPT !.address = row.email]
    BY <2>1, <2>2
  <2>4. Seen' = [Seen EXCEPT ![u].address = row.email]
    BY <2>3, OneRow DEF AInv
  <2>5. With(row.email) = {}
    BY <1>4 DEF With
  <2>6. Contract!Open(u) /\ Contract!Free(row.email)
    BY <1>1, <2>5, OpenIsPresent DEF AInv
  <2> QED
    BY <1>1, <1>2, <2>4, <2>6 DEF Contract!CNext, Contract!CMove, Seen
<1> QED
  BY <1>3, <1>4

LEMMA CloseStep ==
  ASSUME AInv, NEW u \in Accounts, Present(u), user' = [user EXCEPT ![u] = Gone], AType'
  PROVE  AInv' /\ [Contract!CNext]_Seen
<1>1. AInv'
  BY UniqueKept DEF AInv
<1>2. View(Gone) = Contract!Closed
  BY UsersAssumption DEF View, Contract!Closed
<1>3. Seen' = [Seen EXCEPT ![u] = Contract!Closed]
  BY <1>2, OneRow DEF AInv
<1>4. Contract!Open(u)
  BY OpenIsPresent DEF AInv
<1> QED
  BY <1>1, <1>3, <1>4 DEF Contract!CNext, Contract!CClose, Seen

----------------------------------------------------------------------------
(* Requests that go on without touching a user.                            *)

LEMMA RequestStep ==
  ASSUME AInv, NEW r \in Requests, NEW st \in RequestState,
         request' = [request EXCEPT ![r] = st], UNCHANGED <<user, mail, inbox, clock>>
  PROVE  AInv' /\ [Contract!CNext]_Seen
<1>1. AType'
  BY DEF AInv, AType
<1> QED
  BY <1>1, QuietStep

LEMMA TypeAfter ==
  ASSUME AInv, NEW r \in Requests, NEW st \in RequestState,
         request' = [request EXCEPT ![r] = st], UNCHANGED <<mail, inbox, clock>>,
         user' \in [Accounts -> UserRow \cup {NULL, Gone}]
  PROVE  AType'
BY DEF AInv, AType

LEMMA IdleState == Idle \in RequestState /\ Idle.pc = "idle"
BY States DEF Idle

LEMMA RequestAt ==
  ASSUME AInv, NEW r \in Requests
  PROVE  request[r] \in RequestState
BY DEF AInv, AType

(* From one point of a handler to the next.                                *)
LEMMA GotoState ==
  ASSUME NEW st \in RequestState, NEW pc,
         \/ st.pc \in RegisterPcs /\ pc \in RegisterPcs
         \/ st.pc = "move.update" /\ pc = "move.delete"
         \/ st.pc = "reset.update" /\ pc = "reset.delete"
         \/ st.pc = "password.check" /\ pc = "password.update"
         \/ st.pc \in SessionPcs /\ pc \in SessionPcs
         \/ st.pc = "decide.update" /\ pc = "decide.mail"
  PROVE  [st EXCEPT !.pc = pc] \in RequestState
<1>1. CASE st.pc \in RegisterPcs /\ pc \in RegisterPcs
  <2>1. st \in RegisterState
    BY <1>1, Shapes
  <2>2. [st EXCEPT !.pc = pc] \in RegisterState
    BY <1>1, <2>1 DEF RegisterState, RegisterPcs
  <2> QED
    BY <2>2, States
<1>2. CASE st.pc = "move.update" /\ pc = "move.delete"
  <2>1. st \in MoveState
    BY <1>2, Shapes
  <2>2. [st EXCEPT !.pc = pc] \in MoveState
    BY <1>2, <2>1 DEF MoveState
  <2> QED
    BY <2>2, States
<1>3. CASE st.pc = "reset.update" /\ pc = "reset.delete"
  <2>1. st \in ResetState
    BY <1>3, Shapes
  <2>2. [st EXCEPT !.pc = pc] \in ResetState
    BY <1>3, <2>1 DEF ResetState
  <2> QED
    BY <2>2, States
<1>4. CASE st.pc = "password.check" /\ pc = "password.update"
  <2>1. st \in PasswordState
    BY <1>4, Shapes
  <2>2. [st EXCEPT !.pc = pc] \in PasswordState
    BY <1>4, <2>1 DEF PasswordState
  <2> QED
    BY <2>2, States
<1>5. CASE st.pc \in SessionPcs /\ pc \in SessionPcs
  <2>1. st \in SessionState
    BY <1>5, Shapes
  <2>2. [st EXCEPT !.pc = pc] \in SessionState
    BY <1>5, <2>1 DEF SessionState, SessionPcs
  <2> QED
    BY <2>2, States
<1>6. CASE st.pc = "decide.update" /\ pc = "decide.mail"
  <2>1. st \in DecideState
    BY <1>6, Shapes
  <2>2. [st EXCEPT !.pc = pc] \in DecideState
    BY <1>6, <2>1 DEF DecideState
  <2> QED
    BY <2>2, States
<1> QED
  BY <1>1, <1>2, <1>3, <1>4, <1>5, <1>6

LEMMA Goes ==
  ASSUME AInv, NEW r \in Requests, NEW pc, Goto(r, pc),
         [request[r] EXCEPT !.pc = pc] \in RequestState
  PROVE  \E st \in RequestState : request' = [request EXCEPT ![r] = st]
BY DEF Goto

LEMMA WriteStep ==
  ASSUME AInv, NEW r \in Requests, NEW st \in RequestState,
         request' = [request EXCEPT ![r] = st], UNCHANGED <<mail, inbox, clock>>,
         NEW u \in Accounts, Present(u), NEW row \in UserRow,
         user' = [user EXCEPT ![u] = row], row.email = user[u].email,
         user[u].verified # NULL => row.verified # NULL
  PROVE  AInv' /\ [Contract!CNext]_Seen
<1>1. AType'
  BY OneRow, TypeAfter DEF AInv
<1> QED
  BY <1>1, EditStep

(* What writing one column makes of a row.                                 *)
LEMMA Edited ==
  ASSUME NEW row \in UserRow, NEW new,
         \/ new = [row EXCEPT !.billing_id = TRUE]
         \/ \E x \in Choosers : new = [row EXCEPT !.password = x]
         \/ \E x \in Decisions : new = [row EXCEPT !.is_accepted = x]
         \/ new = [row EXCEPT !.is_restricted = TRUE, !.status = FALSE]
         \/ new = [row EXCEPT !.is_restricted = FALSE]
         \/ new = [row EXCEPT !.approved = TRUE]
         \/ new = [row EXCEPT !.approved = FALSE]
  PROVE  new \in UserRow /\ new.email = row.email /\ new.verified = row.verified
<1>1. CASE new = [row EXCEPT !.billing_id = TRUE]
  BY <1>1 DEF UserRow
<1>2. CASE \E x \in Choosers : new = [row EXCEPT !.password = x]
  BY <1>2 DEF UserRow
<1>3. CASE \E x \in Decisions : new = [row EXCEPT !.is_accepted = x]
  BY <1>3 DEF UserRow
<1>4. CASE new = [row EXCEPT !.is_restricted = TRUE, !.status = FALSE]
  BY <1>4 DEF UserRow
<1>5. CASE new = [row EXCEPT !.is_restricted = FALSE]
  BY <1>5 DEF UserRow
<1>6. CASE new = [row EXCEPT !.approved = TRUE]
  BY <1>6 DEF UserRow
<1>7. CASE new = [row EXCEPT !.approved = FALSE]
  BY <1>7 DEF UserRow
<1> QED
  BY <1>1, <1>2, <1>3, <1>4, <1>5, <1>6, <1>7

----------------------------------------------------------------------------
(* Registration.                                                           *)

LEMMA NewUserRow ==
  ASSUME NEW email \in Emails, NEW type \in Types, NEW password \in Choosers,
         NEW provider \in Profiles \cup {NULL}
  PROVE  /\ NewUser(email, type, password, provider) \in UserRow
         /\ NewUser(email, type, password, provider).verified = NULL
BY DEF NewUser, UserRow, Decisions

LEMMA InsertOnly ==
  ASSUME AInv, NEW u \in Accounts, NEW row \in UserRow, Insert(u, row)
  PROVE  user' \in [Accounts -> UserRow \cup {NULL, Gone}]
BY DEF Insert, AInv, AType

LEMMA RegisterSteps ==
  ASSUME AInv, NEW r \in Requests,
         \/ \E email \in Emails, type \in TypeInputs \cap {"student", "teacher"} :
              Register(r, email, type)
         \/ \E u \in Accounts : RegisterCreate(r, u)
         \/ \E c \in Codes : RegisterCode(r, c)
         \/ RegisterRefused(r) \/ RegisterBilling(r) \/ RegisterAdmins(r) \/ RegisterOrphan(r)
         \/ RegisterMail(r)
  PROVE  AInv' /\ [Contract!CNext]_Seen
<1>1. ASSUME NEW email \in Emails, NEW type \in {"student", "teacher"}, Register(r, email, type)
      PROVE  AInv' /\ [Contract!CNext]_Seen
  <2>1. [pc |-> "register.create", email |-> email, type |-> type] \in CreateState
    BY DEF CreateState, Types
  <2> QED
    BY <1>1, <2>1, States, RequestStep DEF Register, Arrive, nothing, tables, post, process
<1>2. ASSUME NEW u \in Accounts, RegisterCreate(r, u) PROVE AInv' /\ [Contract!CNext]_Seen
  <2>1. request[r].email \in Emails /\ request[r].type \in Types
    BY <1>2, RequestAt, Shapes DEF RegisterCreate, At, CreateState
  <2>2. PICK row \in UserRow :
          row = NewUser(request[r].email, request[r].type, u, NULL) /\ row.verified = NULL
    BY <2>1, NewUserRow DEF Choosers
  <2>3. PICK st : st = [pc |-> "register.billing", user |-> u, to |-> request[r].email,
                        type |-> request[r].type, code |-> NULL]
    OBVIOUS
  <2>4. st \in RequestState
    BY <2>1, <2>3, States DEF RegisterState
  <2>5. Insert(u, row) /\ request' = [request EXCEPT ![r] = st] /\ UNCHANGED <<mail, inbox, clock>>
    BY <1>2, <2>2, <2>3 DEF RegisterCreate, Continue, post, process
  <2>6. AType'
    BY <2>4, <2>5, InsertOnly, TypeAfter
  <2> QED
    BY <2>2, <2>5, <2>6, InsertStep
<1>3. ASSUME NEW c \in Codes, RegisterCode(r, c) PROVE AInv' /\ [Contract!CNext]_Seen
  <2>1. request[r] \in RegisterState
    BY <1>3, RequestAt, Shapes DEF RegisterCode, At, RegisterPcs
  <2>2. PICK st : st = [request[r] EXCEPT !.pc = "register.mail", !.code = c]
    OBVIOUS
  <2>3. st \in RegisterState
    BY <2>1, <2>2 DEF RegisterState
  <2> QED
    BY <1>3, <2>2, <2>3, States, RequestStep DEF RegisterCode, Continue, post, process
<1>4. CASE RegisterRefused(r) \/ RegisterOrphan(r)
  BY <1>4, IdleState, RequestStep
  DEF RegisterRefused, RegisterOrphan, Finish, nothing, tables, post, process
<1>5. CASE RegisterAdmins(r)
  <2>1. \E st \in RequestState : request' = [request EXCEPT ![r] = st]
    BY <1>5, RequestAt, GotoState, Goes DEF RegisterAdmins, At, RegisterPcs
  <2> QED
    BY <1>5, <2>1, RequestStep DEF RegisterAdmins, nothing, tables, post, process
<1>6. CASE RegisterBilling(r)
  <2>1. PICK pc \in RegisterPcs :
          pc = IF request[r].type = "teacher" THEN "register.admins" ELSE "register.code"
    BY DEF RegisterPcs
  <2>2. request[r] \in RegisterState
    BY <1>6, RequestAt, Shapes DEF RegisterBilling, At, RegisterPcs
  <2>3. PICK u \in Accounts : u = request[r].user
    BY <2>2 DEF RegisterState
  <2>4. PICK st \in RequestState : request' = [request EXCEPT ![r] = st]
    BY <1>6, <2>1, RequestAt, GotoState, Goes DEF RegisterBilling, At, RegisterPcs
  <2>5. Present(u) /\ user' = [user EXCEPT ![u].billing_id = TRUE] /\ UNCHANGED <<mail, inbox, clock>>
    BY <1>6, <2>3 DEF RegisterBilling, post, process
  <2>6. user[u] \in UserRow
    BY <2>5, SeenRow DEF AInv
  <2>7. PICK row : row = [user[u] EXCEPT !.billing_id = TRUE]
    OBVIOUS
  <2>8. row \in UserRow /\ row.email = user[u].email /\ row.verified = user[u].verified
    BY <2>6, <2>7, Edited
  <2>9. user' = [user EXCEPT ![u] = row]
    BY <2>5, <2>7
  <2> QED
    BY <2>4, <2>5, <2>8, <2>9, WriteStep
<1>7. CASE RegisterMail(r)
  <2>1. request[r] \in RegisterState
    BY <1>7, RequestAt, Shapes DEF RegisterMail, At, RegisterPcs
  <2>2. [to |-> request[r].to, code |-> request[r].code] \in CodeLetter
    BY <2>1 DEF RegisterState, CodeLetter
  <2>3. AType' /\ UNCHANGED user
    BY <1>7, <2>2, IdleState DEF RegisterMail, Enqueue, Finish, tables, process, AInv, AType
  <2> QED
    BY <2>3, QuietStep
<1> QED
  BY <1>1, <1>2, <1>3, <1>4, <1>5, <1>6, <1>7

----------------------------------------------------------------------------
(* One-time codes.                                                         *)

LEMMA AskSteps ==
  ASSUME AInv, NEW r \in Requests,
         \/ \E u \in Accounts, email \in Emails :
              \/ ForgotPassword(r, u, email) \/ ResendVerificationEmail(r, u, email)
              \/ RequestEmailChange(r, u, email)
         \/ \E c \in Codes : OtpCreate(r, c)
         \/ OtpOrphan(r) \/ OtpMail(r)
  PROVE  AInv' /\ [Contract!CNext]_Seen
<1>1. ASSUME NEW kind, NEW u \in Accounts, NEW to \in Emails, NEW email \in Emails \cup {NULL},
             AskCode(r, kind, u, to, email)
      PROVE  AInv' /\ [Contract!CNext]_Seen
  <2>1. PICK st : st = [pc |-> "otp.create", user |-> u, to |-> to, email |-> email,
                        expired_at |-> clock + OtpLife]
    OBVIOUS
  <2>2. clock + OtpLife \in Nat
    BY UsersAssumption DEF AInv, AType
  <2>3. st \in OtpState
    BY <2>1, <2>2 DEF OtpState
  <2>4. request' = [request EXCEPT ![r] = st] /\ UNCHANGED <<user, mail, inbox, clock>>
    BY <1>1, <2>1 DEF AskCode, Arrive, nothing, tables, post, process
  <2> QED
    BY <2>3, <2>4, States, RequestStep
<1>2. ASSUME NEW u \in Accounts, NEW email \in Emails,
             \/ ForgotPassword(r, u, email) \/ ResendVerificationEmail(r, u, email)
             \/ RequestEmailChange(r, u, email)
      PROVE  AInv' /\ [Contract!CNext]_Seen
  BY <1>1, <1>2 DEF ForgotPassword, ResendVerificationEmail, RequestEmailChange
<1>3. ASSUME NEW to \in Emails, NEW code \in Codes \cup {NULL},
             Continue(r, [pc |-> "otp.mail", to |-> to, code |-> code]),
             UNCHANGED <<user, mail, inbox, clock>>
      PROVE  AInv' /\ [Contract!CNext]_Seen
  <2>1. [pc |-> "otp.mail", to |-> to, code |-> code] \in OtpMailState
    BY DEF OtpMailState
  <2> QED
    BY <1>3, <2>1, States, RequestStep DEF Continue
<1>4. CASE (\E c \in Codes : OtpCreate(r, c)) \/ OtpOrphan(r)
  <2>1. request[r] \in OtpState
    BY <1>4, RequestAt, Shapes DEF OtpCreate, OtpOrphan, At
  <2>2. request[r].to \in Emails
    BY <2>1 DEF OtpState
  <2> QED
    BY <1>3, <1>4, <2>2 DEF OtpCreate, OtpOrphan, nothing, tables, post, process
<1>5. CASE OtpMail(r)
  <2>1. request[r] \in OtpMailState
    BY <1>5, RequestAt, Shapes DEF OtpMail, At
  <2>2. [to |-> request[r].to, code |-> request[r].code] \in CodeLetter
    BY <2>1 DEF OtpMailState, CodeLetter
  <2>3. AType' /\ UNCHANGED user
    BY <1>5, <2>2, IdleState DEF OtpMail, Enqueue, Finish, tables, process, AInv, AType
  <2> QED
    BY <2>3, QuietStep
<1> QED
  BY <1>2, <1>4, <1>5

(* A code is presented, with the letter it came in.                        *)
LEMMA PresentSteps ==
  ASSUME AInv, NEW r \in Requests, NEW email \in Emails,
         NEW letter \in {l \in inbox : l.code # NULL},
         \/ \E u \in Accounts :
              VerifyEmail(r, u, email, letter) \/ ChangeEmail(r, u, email, letter)
         \/ ResetPassword(r, email, letter)
  PROVE  AInv' /\ [Contract!CNext]_Seen
<1>1. letter.to \in Emails /\ letter.code \in Codes
  BY DEF AInv, AType, CodeLetter
<1>2. ASSUME NEW u \in Accounts, VerifyEmail(r, u, email, letter)
      PROVE  AInv' /\ [Contract!CNext]_Seen
  <2>1. [pc |-> "verify.update", user |-> u, letter |-> letter.to] \in VerifyState
    BY <1>1 DEF VerifyState
  <2> QED
    BY <1>2, <2>1, States, RequestStep DEF VerifyEmail, Arrive, nothing, tables, post, process
<1>3. ASSUME NEW u \in Accounts, ChangeEmail(r, u, email, letter)
      PROVE  AInv' /\ [Contract!CNext]_Seen
  <2>1. [pc |-> "move.update", user |-> u, email |-> email, code |-> letter.code] \in MoveState
    BY <1>1 DEF MoveState
  <2> QED
    BY <1>3, <2>1, States, RequestStep DEF ChangeEmail, Arrive, tables, post, process
<1>4. CASE ResetPassword(r, email, letter)
  <2>1. [pc |-> "reset.update", email |-> email, code |-> letter.code, letter |-> letter.to]
          \in ResetState
    BY <1>1 DEF ResetState
  <2> QED
    BY <1>4, <2>1, States, RequestStep DEF ResetPassword, Arrive, tables, post, process
<1> QED
  BY <1>2, <1>3, <1>4

(* What the code allows is done.                                           *)
LEMMA CodeSteps ==
  ASSUME AInv, NEW r \in Requests,
         \/ VerifyUpdate(r) \/ ResetUpdate(r) \/ ResetDelete(r)
         \/ ChangeEmailUpdate(r) \/ ChangeEmailDelete(r)
  PROVE  AInv' /\ [Contract!CNext]_Seen
<1>1. CASE VerifyUpdate(r)
  <2>1. request[r] \in VerifyState
    BY <1>1, RequestAt, Shapes DEF VerifyUpdate, At
  <2>2. PICK u \in Accounts, email \in Emails : u = request[r].user /\ email = request[r].letter
    BY <2>1 DEF VerifyState
  <2>3. request' = [request EXCEPT ![r] = Idle] /\ UNCHANGED <<mail, inbox, clock>>
    BY <1>1 DEF VerifyUpdate, Finish, post, process
  <2>4. CASE Present(u)
    <3>1. user[u] \in UserRow
      BY <2>4, SeenRow DEF AInv
    <3>2. PICK row : row = [user[u] EXCEPT !.verified = email]
      OBVIOUS
    <3>3. row \in UserRow /\ row.email = user[u].email /\ row.verified = email
      BY <3>1, <3>2 DEF UserRow
    <3>4. row.verified # NULL
      BY <3>3, UsersAssumption
    <3>5. user' = [user EXCEPT ![u] = row]
      BY <1>1, <2>2, <2>4, <3>2 DEF VerifyUpdate
    <3> QED
      BY <2>3, <2>4, <3>3, <3>4, <3>5, IdleState, WriteStep
  <2>5. CASE ~Present(u)
    BY <1>1, <2>2, <2>3, <2>5, IdleState, RequestStep DEF VerifyUpdate
  <2> QED
    BY <2>4, <2>5
<1>2. CASE ResetUpdate(r)
  <2>1. request[r] \in ResetState
    BY <1>2, RequestAt, Shapes DEF ResetUpdate, At
  <2>2. PICK given \in Choosers : given = request[r].letter
    BY <2>1 DEF ResetState, Choosers
  <2>3. UNCHANGED <<mail, inbox, clock>>
    BY <1>2 DEF ResetUpdate, post, process
  <2>4. ASSUME NEW u \in With(request[r].email), user' = [user EXCEPT ![u].password = given],
               Goto(r, "reset.delete")
        PROVE  AInv' /\ [Contract!CNext]_Seen
    <3>1. u \in Accounts /\ Present(u) /\ user[u] \in UserRow
      BY <2>4, SeenRow DEF With, AInv
    <3>2. PICK st \in RequestState : request' = [request EXCEPT ![r] = st]
      BY <1>2, <2>4, RequestAt, GotoState, Goes DEF ResetUpdate, At
    <3>3. PICK row : row = [user[u] EXCEPT !.password = given]
      OBVIOUS
    <3>4. row \in UserRow /\ row.email = user[u].email /\ row.verified = user[u].verified
      BY <3>1, <3>3, Edited
    <3>5. user' = [user EXCEPT ![u] = row]
      BY <2>4, <3>3
    <3> QED
      BY <2>3, <3>1, <3>2, <3>4, <3>5, WriteStep
  <2>5. CASE UNCHANGED user /\ Finish(r)
    BY <2>3, <2>5, IdleState, RequestStep DEF Finish
  <2> QED
    BY <1>2, <2>2, <2>4, <2>5 DEF ResetUpdate
<1>3. CASE ResetDelete(r) \/ ChangeEmailDelete(r)
  BY <1>3, IdleState, RequestStep DEF ResetDelete, ChangeEmailDelete, Finish, post, process
<1>4. CASE ChangeEmailUpdate(r)
  <2>1. request[r] \in MoveState
    BY <1>4, RequestAt, Shapes DEF ChangeEmailUpdate, At
  <2>2. PICK u \in Accounts, email \in Emails : u = request[r].user /\ email = request[r].email
    BY <2>1 DEF MoveState
  <2>3. UNCHANGED <<mail, inbox, clock>>
    BY <1>4 DEF ChangeEmailUpdate, post, process
  <2>4. CASE Present(u) /\ With(email) = {} /\ SetEmail(u, email) /\ Goto(r, "move.delete")
    <3>1. user[u] \in UserRow
      BY <2>4, SeenRow DEF AInv
    <3>2. PICK st \in RequestState : request' = [request EXCEPT ![r] = st]
      BY <1>4, <2>4, RequestAt, GotoState, Goes DEF ChangeEmailUpdate, At
    <3>3. PICK row : row = [user[u] EXCEPT !.email = email]
      OBVIOUS
    <3>4. row \in UserRow /\ row.email = email /\ row.verified = user[u].verified
      BY <3>1, <3>3 DEF UserRow
    <3>5. user' = [user EXCEPT ![u] = row]
      BY <2>4, <3>3 DEF SetEmail
    <3>6. AType'
      BY <2>3, <3>2, <3>4, <3>5, OneRow, TypeAfter DEF AInv
    <3>7. \A v \in Accounts \ {u} : Present(v) => user[v].email # row.email
      BY <2>4, <3>4 DEF With
    <3> QED
      BY <2>4, <3>4, <3>5, <3>6, <3>7, MoveStep
  <2>5. CASE UNCHANGED user /\ Finish(r)
    BY <2>3, <2>5, IdleState, RequestStep DEF Finish
  <2> QED
    BY <1>4, <2>2, <2>4, <2>5 DEF ChangeEmailUpdate
<1> QED
  BY <1>1, <1>2, <1>3, <1>4

----------------------------------------------------------------------------
(* Passwords, sessions and profiles.                                       *)

LEMMA PasswordSteps ==
  ASSUME AInv, NEW r \in Requests,
         \/ \E u \in Accounts, given \in Choosers : ChangePassword(r, u, given)
         \/ PasswordCheck(r) \/ PasswordUpdate(r)
  PROVE  AInv' /\ [Contract!CNext]_Seen
<1>1. ASSUME NEW u \in Accounts, NEW given \in Choosers, ChangePassword(r, u, given)
      PROVE  AInv' /\ [Contract!CNext]_Seen
  <2>1. user[u].email \in Emails
    BY <1>1, SeenRow DEF ChangePassword, AInv
  <2>2. [pc |-> "password.check", user |-> u, email |-> user[u].email, given |-> given]
          \in PasswordState
    BY <2>1 DEF PasswordState
  <2> QED
    BY <1>1, <2>2, States, RequestStep DEF ChangePassword, Arrive, nothing, tables, post, process
<1>2. CASE PasswordCheck(r)
  <2>1. CASE Goto(r, "password.update")
    <3>1. \E st \in RequestState : request' = [request EXCEPT ![r] = st]
      BY <1>2, <2>1, RequestAt, GotoState, Goes DEF PasswordCheck, At
    <3> QED
      BY <1>2, <3>1, RequestStep DEF PasswordCheck, nothing, tables, post, process
  <2>2. CASE Finish(r)
    BY <1>2, <2>2, IdleState, RequestStep
    DEF PasswordCheck, Finish, nothing, tables, post, process
  <2> QED
    BY <1>2, <2>1, <2>2 DEF PasswordCheck
<1>3. CASE PasswordUpdate(r)
  <2>1. request[r] \in PasswordState
    BY <1>3, RequestAt, Shapes DEF PasswordUpdate, At
  <2>2. PICK new \in Choosers : new = request[r].user
    BY <2>1 DEF PasswordState, Choosers
  <2>3. request' = [request EXCEPT ![r] = Idle] /\ UNCHANGED <<mail, inbox, clock>>
    BY <1>3 DEF PasswordUpdate, Finish, post, process
  <2>4. ASSUME NEW u \in With(request[r].email), user' = [user EXCEPT ![u].password = new]
        PROVE  AInv' /\ [Contract!CNext]_Seen
    <3>1. u \in Accounts /\ Present(u) /\ user[u] \in UserRow
      BY <2>4, SeenRow DEF With, AInv
    <3>2. PICK row : row = [user[u] EXCEPT !.password = new]
      OBVIOUS
    <3>3. row \in UserRow /\ row.email = user[u].email /\ row.verified = user[u].verified
      BY <3>1, <3>2, Edited
    <3>4. user' = [user EXCEPT ![u] = row]
      BY <2>4, <3>2
    <3> QED
      BY <2>3, <3>1, <3>3, <3>4, IdleState, WriteStep
  <2>5. CASE UNCHANGED user
    BY <2>3, <2>5, IdleState, RequestStep
  <2> QED
    BY <1>3, <2>2, <2>4, <2>5 DEF PasswordUpdate
<1> QED
  BY <1>1, <1>2, <1>3

LEMMA SessionSteps ==
  ASSUME AInv, NEW r \in Requests,
         \/ \E u \in Accounts : Login(r, u)
         \/ LoginSet(r) \/ SocialToken(r) \/ SocialRefused(r)
  PROVE  AInv' /\ [Contract!CNext]_Seen
<1>1. ASSUME NEW u \in Accounts, Login(r, u) PROVE AInv' /\ [Contract!CNext]_Seen
  <2>1. [pc |-> "login.set", user |-> u] \in SessionState
    BY DEF SessionState
  <2> QED
    BY <1>1, <2>1, States, RequestStep DEF Login, Arrive, nothing, tables, post, process
<1>2. CASE LoginSet(r) \/ SocialRefused(r)
  BY <1>2, IdleState, RequestStep
  DEF LoginSet, SocialRefused, Finish, nothing, tables, post, process
<1>3. CASE SocialToken(r)
  <2>1. UNCHANGED <<user, mail, inbox, clock>>
    BY <1>3 DEF SocialToken, post, process
  <2>2. CASE Goto(r, "social.billing")
    <3>1. \E st \in RequestState : request' = [request EXCEPT ![r] = st]
      BY <1>3, <2>2, RequestAt, GotoState, Goes DEF SocialToken, At, SessionPcs
    <3> QED
      BY <2>1, <3>1, RequestStep
  <2>3. CASE Finish(r)
    BY <2>1, <2>3, IdleState, RequestStep DEF Finish
  <2> QED
    BY <1>3, <2>2, <2>3 DEF SocialToken
<1> QED
  BY <1>1, <1>2, <1>3

LEMMA SocialSteps ==
  ASSUME AInv, NEW r \in Requests,
         \/ \E p \in Profiles : Social(r, p)
         \/ \E u \in Accounts : SocialCreate(r, u)
         \/ SocialBilling(r)
  PROVE  AInv' /\ [Contract!CNext]_Seen
<1>1. ASSUME NEW p \in Profiles, Social(r, p) PROVE AInv' /\ [Contract!CNext]_Seen
  <2>1. [pc |-> "social.create", profile |-> p] \in SocialState
    BY DEF SocialState
  <2>2. \A u \in Accounts : [pc |-> "social.details", user |-> u] \in SessionState
    BY DEF SessionState
  <2>3. \E st \in RequestState : request' = [request EXCEPT ![r] = st]
    BY <1>1, <2>1, <2>2, States DEF Social, Arrive, OfProfile
  <2> QED
    BY <1>1, <2>3, RequestStep DEF Social, nothing, tables, post, process
<1>2. ASSUME NEW u \in Accounts, SocialCreate(r, u) PROVE AInv' /\ [Contract!CNext]_Seen
  <2>1. request[r] \in SocialState
    BY <1>2, RequestAt, Shapes DEF SocialCreate, At
  <2>2. PICK p \in Profiles : p = request[r].profile
    BY <2>1 DEF SocialState
  <2>3. PICK email \in Emails : email = p[2]
    BY <2>2 DEF Profiles
  <2>4. PICK type \in Types : type = IF p[1] = "google" THEN "student" ELSE "user"
    BY DEF Types
  <2>5. PICK row \in UserRow : row = NewUser(email, type, NULL, p) /\ row.verified = NULL
    BY NewUserRow DEF Choosers
  <2>6. PICK st : st = [pc |-> "social.details", user |-> u]
    OBVIOUS
  <2>7. st \in SessionState
    BY <2>6 DEF SessionState
  <2>8. Insert(u, row) /\ request' = [request EXCEPT ![r] = st] /\ UNCHANGED <<mail, inbox, clock>>
    BY <1>2, <2>2, <2>3, <2>4, <2>5, <2>6 DEF SocialCreate, Continue, post, process
  <2>9. AType'
    BY <2>7, <2>8, States, InsertOnly, TypeAfter
  <2> QED
    BY <2>5, <2>8, <2>9, InsertStep
<1>3. CASE SocialBilling(r)
  <2>1. request[r] \in SessionState
    BY <1>3, RequestAt, Shapes DEF SocialBilling, At, SessionPcs
  <2>2. PICK u \in Accounts : u = request[r].user
    BY <2>1 DEF SessionState
  <2>3. request' = [request EXCEPT ![r] = Idle] /\ UNCHANGED <<mail, inbox, clock>>
    BY <1>3 DEF SocialBilling, Finish, post, process
  <2>4. CASE Present(u)
    <3>1. user[u] \in UserRow
      BY <2>4, SeenRow DEF AInv
    <3>2. PICK row : row = [user[u] EXCEPT !.billing_id = TRUE]
      OBVIOUS
    <3>3. row \in UserRow /\ row.email = user[u].email /\ row.verified = user[u].verified
      BY <3>1, <3>2, Edited
    <3>4. user' = [user EXCEPT ![u] = row]
      BY <1>3, <2>2, <2>4, <3>2 DEF SocialBilling
    <3> QED
      BY <2>3, <2>4, <3>3, <3>4, IdleState, WriteStep
  <2>5. CASE ~Present(u)
    BY <1>3, <2>2, <2>3, <2>5, IdleState, RequestStep DEF SocialBilling
  <2> QED
    BY <2>4, <2>5
<1> QED
  BY <1>1, <1>2, <1>3

(* The mail worker and whatever happens to nobody in particular.           *)
LEMMA QuietSteps ==
  ASSUME AInv,
         \/ MailNext \/ LogoutNext \/ Tick \/ Crash
         \/ \E r \in Requests : StatementFails(r)
  PROVE  AInv' /\ [Contract!CNext]_Seen
<1>1. CASE MailNext
  <2>1. mail # <<>> /\ mail' = Tail(mail) /\ UNCHANGED <<user, request, clock>>
    BY <1>1 DEF MailNext, Deliver, LoseLetter, tables, process
  <2>2. Head(mail) \in CodeLetter \cup DecisionLetter
        /\ Tail(mail) \in Seq(CodeLetter \cup DecisionLetter)
    BY <2>1 DEF AInv, AType
  <2>3. "code" \in DOMAIN Head(mail) => Head(mail) \in CodeLetter
    BY <2>2 DEF CodeLetter, DecisionLetter
  <2>4. inbox' \subseteq CodeLetter
    BY <1>1, <2>3 DEF MailNext, Deliver, LoseLetter, AInv, AType
  <2>5. AType' /\ UNCHANGED user
    BY <2>1, <2>2, <2>4 DEF AInv, AType
  <2> QED
    BY <2>5, QuietStep
<1>2. CASE LogoutNext \/ Tick
  <2>1. AType' /\ UNCHANGED user
    BY <1>2 DEF LogoutNext, Logout, Tick, tables, post, process, AInv, AType
  <2> QED
    BY <2>1, QuietStep
<1>3. CASE Crash
  <2>1. AType' /\ UNCHANGED user
    BY <1>3, IdleState DEF Crash, tables, post, AInv, AType
  <2> QED
    BY <2>1, QuietStep
<1>4. CASE \E r \in Requests : StatementFails(r)
  BY <1>4, IdleState, RequestStep DEF StatementFails, Finish, tables, post
<1> QED
  BY <1>1, <1>2, <1>3, <1>4

----------------------------------------------------------------------------
(* What administrators do.                                                 *)

LEMMA DecideSteps ==
  ASSUME AInv, NEW r \in Requests,
         \/ \E u \in Accounts, d \in Decisions : Decide(r, u, d)
         \/ DecideUpdate(r) \/ DecideMail(r)
  PROVE  AInv' /\ [Contract!CNext]_Seen
<1>1. ASSUME NEW u \in Accounts, NEW d \in Decisions, Decide(r, u, d)
      PROVE  AInv' /\ [Contract!CNext]_Seen
  <2>1. user[u].email \in Emails
    BY <1>1, SeenRow DEF Decide, AInv
  <2>2. [pc |-> "decide.update", user |-> u, to |-> user[u].email, is_accepted |-> d]
          \in DecideState
    BY <2>1 DEF DecideState
  <2> QED
    BY <1>1, <2>2, States, RequestStep DEF Decide, Arrive, tables, post, process
<1>2. CASE DecideUpdate(r)
  <2>1. request[r] \in DecideState
    BY <1>2, RequestAt, Shapes DEF DecideUpdate, At
  <2>2. PICK u \in Accounts, d \in Decisions : u = request[r].user /\ d = request[r].is_accepted
    BY <2>1 DEF DecideState
  <2>3. UNCHANGED <<mail, inbox, clock>>
    BY <1>2 DEF DecideUpdate, post, process
  <2>4. CASE /\ Present(u) /\ user' = [user EXCEPT ![u].is_accepted = d]
             /\ Goto(r, "decide.mail")
    <3>1. user[u] \in UserRow
      BY <2>4, SeenRow DEF AInv
    <3>2. PICK st \in RequestState : request' = [request EXCEPT ![r] = st]
      BY <1>2, <2>4, RequestAt, GotoState, Goes DEF DecideUpdate, At
    <3>3. PICK row : row = [user[u] EXCEPT !.is_accepted = d]
      OBVIOUS
    <3>4. row \in UserRow /\ row.email = user[u].email /\ row.verified = user[u].verified
      BY <3>1, <3>3, Edited
    <3>5. user' = [user EXCEPT ![u] = row]
      BY <2>4, <3>3
    <3> QED
      BY <2>3, <2>4, <3>2, <3>4, <3>5, WriteStep
  <2>5. CASE UNCHANGED user /\ Finish(r)
    BY <2>3, <2>5, IdleState, RequestStep DEF Finish
  <2> QED
    BY <1>2, <2>2, <2>4, <2>5 DEF DecideUpdate
<1>3. CASE DecideMail(r)
  <2>1. request[r] \in DecideState
    BY <1>3, RequestAt, Shapes DEF DecideMail, At
  <2>2. [to |-> request[r].to, about |-> request[r].user, is_accepted |-> request[r].is_accepted]
          \in DecisionLetter
    BY <2>1 DEF DecideState, DecisionLetter
  <2>3. AType' /\ UNCHANGED user
    BY <1>3, <2>2, IdleState DEF DecideMail, Enqueue, Finish, tables, process, AInv, AType
  <2> QED
    BY <2>3, QuietStep
<1> QED
  BY <1>1, <1>2, <1>3

LEMMA LookUpSteps ==
  ASSUME AInv, NEW r \in Requests, NEW u \in Accounts,
         \/ RestrictAStudent(r, u) \/ UnrestrictAStudent(r, u)
         \/ Approve(r, u) \/ Reject(r, u) \/ Delete(r, u)
  PROVE  AInv' /\ [Contract!CNext]_Seen
<1>1. \E kind : \E pc \in ModeratePcs : LookUpUser(r, kind, u, pc)
  BY DEF RestrictAStudent, UnrestrictAStudent, Approve, Reject, Delete, ModeratePcs
<1>2. PICK pc \in ModeratePcs :
        /\ request' = [request EXCEPT ![r] = [pc |-> pc, user |-> u]]
        /\ UNCHANGED <<user, mail, inbox, clock>>
  BY <1>1 DEF LookUpUser, Arrive, nothing, tables, post, process
<1>3. [pc |-> pc, user |-> u] \in ModerateState
  BY DEF ModeratePcs, ModerateState
<1> QED
  BY <1>2, <1>3, States, RequestStep

(* Each handler writes its columns, if the row is still there.             *)
LEMMA UpdateSteps ==
  ASSUME AInv, NEW r \in Requests,
         \/ RestrictUpdate(r) \/ UnrestrictUpdate(r) \/ ApproveUpdate(r) \/ RejectUpdate(r)
         \/ DeleteRow(r)
  PROVE  AInv' /\ [Contract!CNext]_Seen
<1>1. /\ request[r].pc \in ModeratePcs
      /\ request' = [request EXCEPT ![r] = Idle] /\ UNCHANGED <<mail, inbox, clock>>
  BY DEF RestrictUpdate, UnrestrictUpdate, ApproveUpdate, RejectUpdate, DeleteRow, UpdateUser,
         At, ModeratePcs, Finish, post, process
<1>2. request[r] \in ModerateState
  BY <1>1, RequestAt, Shapes
<1>3. PICK u \in Accounts : u = request[r].user
  BY <1>2 DEF ModerateState
<1>4. CASE ~Present(u)
  <2>1. UNCHANGED user
    BY <1>3, <1>4 DEF RestrictUpdate, UnrestrictUpdate, ApproveUpdate, RejectUpdate, DeleteRow,
                      UpdateUser
  <2> QED
    BY <1>1, <2>1, IdleState, RequestStep
<1>5. CASE Present(u) /\ DeleteRow(r)
  <2>1. user' = [user EXCEPT ![u] = Gone]
    BY <1>3, <1>5 DEF DeleteRow, UpdateUser
  <2>2. AType'
    BY <1>1, <2>1, IdleState, OneRow, TypeAfter DEF AInv
  <2> QED
    BY <1>5, <2>1, <2>2, CloseStep
<1>6. CASE Present(u) /\ ~DeleteRow(r)
  <2>1. user[u] \in UserRow
    BY <1>6, SeenRow DEF AInv
  <2>2. PICK row :
          /\ user' = [user EXCEPT ![u] = row]
          /\ \/ row = [user[u] EXCEPT !.is_restricted = TRUE, !.status = FALSE]
             \/ row = [user[u] EXCEPT !.is_restricted = FALSE]
             \/ row = [user[u] EXCEPT !.approved = TRUE]
             \/ row = [user[u] EXCEPT !.approved = FALSE]
    BY <1>3, <1>6 DEF RestrictUpdate, UnrestrictUpdate, ApproveUpdate, RejectUpdate, UpdateUser
  <2>3. row \in UserRow /\ row.email = user[u].email /\ row.verified = user[u].verified
    BY <2>1, <2>2, Edited
  <2> QED
    BY <1>1, <1>6, <2>2, <2>3, IdleState, WriteStep
<1> QED
  BY <1>4, <1>5, <1>6

LEMMA AdminSteps ==
  ASSUME AInv, NEW r \in Requests,
         \/ \E email \in Emails, type \in TypeInputs : AdminCreate(r, email, type)
         \/ \E u \in Accounts : AdminCreateInsert(r, u)
         \/ AdminCreateRefused(r)
         \/ \E u \in Accounts, email \in Emails \cup {NULL}, password \in BOOLEAN,
               type \in TypeInputs : AdminUpdate(r, u, email, password, type)
         \/ AdminUpdateRow(r)
  PROVE  AInv' /\ [Contract!CNext]_Seen
<1>1. ASSUME NEW email \in Emails, NEW type \in TypeInputs, AdminCreate(r, email, type)
      PROVE  AInv' /\ [Contract!CNext]_Seen
  <2>1. PICK kept \in Types : kept = IF type \in Roles THEN type ELSE "user"
    BY DEF Roles, Types
  <2>2. [pc |-> "admin.create", email |-> email, type |-> kept] \in AdminCreateState
    BY DEF AdminCreateState
  <2> QED
    BY <1>1, <2>1, <2>2, States, RequestStep
    DEF AdminCreate, Arrive, nothing, tables, post, process
<1>2. ASSUME NEW u \in Accounts, AdminCreateInsert(r, u) PROVE AInv' /\ [Contract!CNext]_Seen
  <2>1. request[r] \in AdminCreateState
    BY <1>2, RequestAt, Shapes DEF AdminCreateInsert, At
  <2>2. request[r].email \in Emails /\ request[r].type \in Types
    BY <2>1 DEF AdminCreateState
  <2>3. PICK row \in UserRow :
          row = NewUser(request[r].email, request[r].type, "admin", NULL) /\ row.verified = NULL
    BY <2>2, NewUserRow DEF Choosers
  <2>4. /\ Insert(u, row) /\ request' = [request EXCEPT ![r] = Idle]
        /\ UNCHANGED <<mail, inbox, clock>>
    BY <1>2, <2>3 DEF AdminCreateInsert, Finish, post, process
  <2>5. AType'
    BY <2>4, IdleState, InsertOnly, TypeAfter
  <2> QED
    BY <2>3, <2>4, <2>5, InsertStep
<1>3. CASE AdminCreateRefused(r)
  BY <1>3, IdleState, RequestStep DEF AdminCreateRefused, Finish, nothing, tables, post, process
<1>4. ASSUME NEW u \in Accounts, NEW email \in Emails \cup {NULL}, NEW password \in BOOLEAN,
             NEW type \in TypeInputs, AdminUpdate(r, u, email, password, type)
      PROVE  AInv' /\ [Contract!CNext]_Seen
  <2>1. type \in Types
    BY <1>4 DEF AdminUpdate, Roles, Types
  <2>2. [pc |-> "admin.update", user |-> u, email |-> email, password |-> password,
         type |-> type] \in AdminUpdateState
    BY <2>1 DEF AdminUpdateState
  <2> QED
    BY <1>4, <2>2, States, RequestStep DEF AdminUpdate, Arrive, nothing, tables, post, process
<1>5. CASE AdminUpdateRow(r)
  <2>1. request[r] \in AdminUpdateState
    BY <1>5, RequestAt, Shapes DEF AdminUpdateRow, At
  <2>2. PICK u \in Accounts, email \in Emails \cup {NULL}, type \in Types :
          u = request[r].user /\ email = request[r].email /\ type = request[r].type
    BY <2>1 DEF AdminUpdateState
  <2>3. request' = [request EXCEPT ![r] = Idle] /\ UNCHANGED <<mail, inbox, clock>>
    BY <1>5 DEF AdminUpdateRow, Finish, post, process
  <2>4. CASE UNCHANGED user
    BY <2>3, <2>4, IdleState, RequestStep
  <2>5. CASE /\ Present(u)
             /\ ~\E v \in Accounts \ {u} : Present(v) /\ user[v].email \in {email} \ {NULL}
             /\ user' = [user EXCEPT
                   ![u].email = IF {email} \ {NULL} = {} THEN @ ELSE email,
                   ![u].type = type,
                   ![u].password = IF request[r].password THEN "admin" ELSE @]
    <3>1. user[u] \in UserRow /\ user[u].email \in Emails
      BY <2>5, SeenRow DEF AInv
    <3>2. PICK address \in Emails :
            address = IF {email} \ {NULL} = {} THEN user[u].email ELSE email
      BY <3>1
    <3>3. PICK password \in Choosers :
            password = IF request[r].password THEN "admin" ELSE user[u].password
      BY <3>1 DEF UserRow, Choosers
    <3>4. PICK row :
            row = [user[u] EXCEPT !.email = address, !.type = type, !.password = password]
      OBVIOUS
    <3>5. row \in UserRow /\ row.email = address /\ row.verified = user[u].verified
      BY <3>1, <3>4 DEF UserRow
    <3>6. user' = [user EXCEPT ![u] = row]
      BY <2>5, <3>1, <3>2, <3>3, <3>4 DEF UserRow, AInv, AType
    <3>7. AType'
      BY <2>3, <3>5, <3>6, IdleState, OneRow, TypeAfter DEF AInv
    <3>8. \A v \in Accounts \ {u} : Present(v) => user[v].email # row.email
      BY <2>5, <3>2, <3>5 DEF AInv, AddressesUnique
    <3> QED
      BY <2>5, <3>5, <3>6, <3>7, <3>8, MoveStep
  <2> QED
    BY <1>5, <2>2, <2>4, <2>5 DEF AdminUpdateRow
<1> QED
  BY <1>1, <1>2, <1>3, <1>4, <1>5

----------------------------------------------------------------------------
(* No two accounts have an address at the same time, although every        *)
(* handler reads whether it is free some statements before it writes.      *)

(* At the start, whatever rows are there.                                  *)
LEMMA Start ==
  ASSUME Init
  PROVE  \E rows : /\ Left(rows) /\ InitWith(rows) /\ user = rows
                   /\ \A u \in Accounts : Present(u) <=> u \in Rows(rows)
                   /\ \A u \in Accounts : ~Present(u) => user[u] = NULL
<1>1. PICK rows : Left(rows) /\ InitWith(rows)
  BY DEF Init
<1>2. \A u \in Accounts : rows[u] # Gone
  BY <1>1, UsersAssumption, RowsAssumption DEF Left
<1> QED
  BY <1>1, <1>2 DEF InitWith, Rows, Present

LEMMA InitInv == Init => AInv
<1> SUFFICES ASSUME Init PROVE AInv
  OBVIOUS
<1>1. PICK rows : /\ Left(rows) /\ InitWith(rows) /\ user = rows
                  /\ \A u \in Accounts : Present(u) <=> u \in Rows(rows)
  BY Start
<1>2. AType
  BY <1>1, IdleState DEF Left, InitWith, AType
<1> QED
  BY <1>1, <1>2 DEF AInv, AddressesUnique, Left

LEMMA Step == AInv /\ [Next]_avars => AInv' /\ [Contract!CNext]_Seen
<1> SUFFICES ASSUME AInv, [Next]_avars PROVE AInv' /\ [Contract!CNext]_Seen
  OBVIOUS
<1>1. CASE UNCHANGED avars
  <2>1. AType' /\ UNCHANGED user
    BY <1>1 DEF avars, tables, post, process, AInv, AType
  <2> QED
    BY <2>1, QuietStep
<1>2. CASE AuthNext
  BY <1>2, RegisterSteps, AskSteps, PresentSteps, CodeSteps, PasswordSteps, SessionSteps,
     SocialSteps DEF AuthNext
<1>3. CASE ModerationNext
  BY <1>3, DecideSteps, LookUpSteps, UpdateSteps, AdminSteps DEF ModerationNext
<1>4. CASE MailNext \/ LogoutNext \/ Tick \/ Crash \/ \E r \in Requests : StatementFails(r)
  BY <1>4, QuietSteps
<1> QED
  BY <1>1, <1>2, <1>3, <1>4 DEF Next

THEOREM Invariance == Spec => []AInv
BY InitInv, Step, PTL DEF Spec

(* An address names one account at a time.                                 *)
THEOREM OneAccountPerAddress == Spec => []AddressesUnique
<1>1. AInv => AddressesUnique
  BY DEF AInv
<1> QED
  BY <1>1, Invariance, PTL

(* The handlers of accounts, interleaved and failing anywhere, implement   *)
(* AccountContract: what was opened stays with its address until it is     *)
(* moved to a free one or closed, and what is closed stays closed.         *)
THEOREM AccountsImplementContract == Spec => AccountKept
<1>1. Init => Contract!CInit
  <2> SUFFICES ASSUME Init PROVE Contract!CInit
    OBVIOUS
  <2>1. AInv /\ \A u \in Accounts : ~Present(u) => user[u] = NULL
    BY InitInv, Start
  <2>2. \A u \in Accounts : ~Present(u) => Seen[u] = Contract!None
    BY <2>1, UsersAssumption DEF Seen, View, Contract!None
  <2>3. \A u \in Accounts : Present(u) =>
          Seen[u] \in [stage: {"open", "verified"}, address: Emails]
    <3>1. ASSUME NEW u \in Accounts, Present(u)
          PROVE  Seen[u] \in [stage: {"open", "verified"}, address: Emails]
      <4>1. PICK stage \in {"open", "verified"}, address \in Emails :
              Seen[u] = [stage |-> stage, address |-> address]
        BY <2>1, <3>1, SeenRow DEF AInv
      <4> QED
        BY <4>1
    <3> QED
      BY <3>1
  <2>4. \A u, v \in Accounts : Contract!Open(u) /\ Contract!Open(v) /\ u # v =>
          Seen[u].address # Seen[v].address
    BY <2>1, OpenIsPresent DEF AInv, AddressesUnique
  <2>5. Seen \in [Accounts -> {Contract!None} \cup [stage: {"open", "verified"}, address: Emails]]
    BY <2>2, <2>3 DEF Seen
  <2> QED
    BY <2>4, <2>5 DEF Contract!CInit, Seen
<1>2. AInv /\ [Next]_avars => [Contract!CNext]_Seen
  BY Step
<1> QED
  BY <1>1, <1>2, Invariance, PTL DEF Spec, AccountKept, Contract!CSpec, Seen

----------------------------------------------------------------------------
(* A code changes one row once.  Whoever presents a code holds it until it *)
(* is deleted; of a code on which no two requests overlapped and none      *)
(* failed there is one holder, the code is there while it is held, and it  *)
(* is spent only by a holder about to delete it, or deleted.               *)

CodePcs == {"reset.update", "reset.delete", "move.update", "move.delete"}
Deleting(r) == request[r].pc \in {"reset.delete", "move.delete"}

Once(c) ==
  /\ c \notin reused
  /\ \A q, r \in Requests : Holds(q, c) /\ Holds(r, c) => q = r
  /\ \A r \in Requests : Holds(r, c) =>
       /\ Known(c) /\ ucode[c].email = request[r].email
       /\ Deleting(r) \/ c \notin spent
  /\ c \in spent => ucode[c] = Gone \/ \E r \in Requests : Holds(r, c)

CodeInv ==
  /\ ucode = [c \in Codes |-> ucode[c]]
  /\ reused \subseteq Codes
  /\ \A c \in Codes : c \in disturbed \/ Once(c)

(* A code that is there stays as it is.                                    *)
CodesKept ==
  /\ ucode' = [c \in Codes |-> ucode'[c]]
  /\ \A c \in Codes : ucode[c] # NULL => ucode'[c] = ucode[c]

(* A step of a request that has nothing to do with codes presented.        *)
Aside(r) ==
  /\ request[r].pc \notin CodePcs
  /\ \E st : st.pc \notin CodePcs /\ request' = [request EXCEPT ![r] = st]
  /\ UNCHANGED <<spent, reused>> /\ disturbed \subseteq disturbed'
  /\ CodesKept

(* Requests keep what they hold, or drop it unspent or disturbed.          *)
LEMMA OnceKept ==
  ASSUME CodeInv, UNCHANGED <<spent, reused>>, disturbed \subseteq disturbed', CodesKept,
         \A r \in Requests : \/ request'[r] = request[r]
                             \/ /\ request'[r].pc \notin CodePcs
                                /\ \A c \in Codes : Holds(r, c) => c \in disturbed' \/ c \notin spent
  PROVE  CodeInv'
<1> SUFFICES ASSUME NEW c \in Codes, c \notin disturbed' PROVE Once(c)'
  BY DEF CodeInv, CodesKept
<1>1. Once(c)
  BY DEF CodeInv
<1>2. \A r \in Requests : Holds(r, c)' => Holds(r, c) /\ request'[r] = request[r]
  BY DEF Holds, CodePcs
<1>3. c \in spent => \A r \in Requests : Holds(r, c) => Holds(r, c)'
  BY DEF Holds, CodePcs
<1>4. ucode[c] # NULL => ucode'[c] = ucode[c]
  BY DEF CodesKept
<1>5. (\E r \in Requests : Holds(r, c)) => ucode[c] # NULL
  BY <1>1 DEF Once, Known
<1>6. \A r \in Requests : Holds(r, c)' =>
        /\ Known(c)' /\ ucode'[c].email = request'[r].email
        /\ Deleting(r)' \/ c \notin spent'
  BY <1>1, <1>2, <1>4, <1>5 DEF Once, Known, Deleting
<1>7. \A q, r \in Requests : Holds(q, c)' /\ Holds(r, c)' => q = r
  BY <1>1, <1>2 DEF Once
<1>8. c \in spent' => ucode'[c] = Gone \/ \E r \in Requests : Holds(r, c)'
  BY <1>1, <1>3, <1>4, UsersAssumption DEF Once
<1> QED
  BY <1>1, <1>6, <1>7, <1>8 DEF Once

LEMMA AsideKept ==
  ASSUME AInv, CodeInv, NEW r \in Requests, Aside(r)
  PROVE  CodeInv'
<1>1. \A q \in Requests : \/ request'[q] = request[q]
                          \/ /\ request'[q].pc \notin CodePcs
                             /\ \A c \in Codes : Holds(q, c) => c \in disturbed' \/ c \notin spent
  BY DEF Aside, Holds, CodePcs, AInv, AType
<1> QED
  BY <1>1, OnceKept DEF Aside

(* A code is presented: if nobody holds it, it is unspent.                 *)
LEMMA PresentedOnce ==
  ASSUME AInv, CodeInv, NEW r \in Requests, NEW c \in Codes, NEW email, NEW st,
         request[r] = Idle, Valid(c, email), Overlaps(r, c),
         st.pc \in {"reset.update", "move.update"}, st.code = c, st.email = email,
         request' = [request EXCEPT ![r] = st], UNCHANGED <<ucode, spent, reused>>
  PROVE  CodeInv'
<1> SUFFICES ASSUME NEW d \in Codes, d \notin disturbed' PROVE Once(d)'
  BY DEF CodeInv
<1>1. d \notin disturbed /\ Once(d)
  BY DEF CodeInv, Overlaps
<1>2. /\ request'[r] = st /\ \A q \in Requests : q # r => request'[q] = request[q]
      /\ ~Holds(r, d)
  BY IdleState DEF AInv, AType, Holds
<1>3. \A q \in Requests : Holds(q, d)' => (q # r /\ Holds(q, d)) \/ (q = r /\ d = c)
  BY <1>2 DEF Holds
<1>4. CASE d # c
  <2>1. \A q \in Requests : Holds(q, d)' <=> Holds(q, d)
    BY <1>2, <1>4 DEF Holds
  <2>2. \A q \in Requests : Holds(q, d) => request'[q] = request[q]
    BY <1>2
  <2> QED
    BY <1>1, <2>1, <2>2 DEF Once, Known, Deleting
<1>5. CASE d = c
  <2>1. \A q \in Requests : ~Holds(q, c)
    BY <1>1, <1>2, <1>5 DEF Overlaps
  <2>2. c \notin spent
    BY <1>1, <1>5, <2>1 DEF Once, Valid, Known
  <2>3. \A q \in Requests : Holds(q, c)' => q = r
    BY <1>3, <1>5, <2>1
  <2>4. Known(c)' /\ ucode'[c].email = request'[r].email
    BY <1>2 DEF Valid, Known
  <2> QED
    BY <1>1, <1>5, <2>2, <2>3, <2>4 DEF Once
<1> QED
  BY <1>4, <1>5

(* A code is used by its holder, who goes on to delete it.                 *)
LEMMA SpentOnce ==
  ASSUME AInv, CodeInv, NEW r \in Requests, NEW c \in Codes, Holds(r, c), ~Deleting(r),
         Spend(c), UNCHANGED <<ucode, disturbed>>,
         \E st : /\ st.pc \in {"reset.delete", "move.delete"} /\ st.code = c
                 /\ st.email = request[r].email /\ request' = [request EXCEPT ![r] = st]
  PROVE  CodeInv'
<1>1. reused' \subseteq Codes
  BY DEF CodeInv, Spend
<1> SUFFICES ASSUME NEW d \in Codes, d \notin disturbed PROVE Once(d)'
  BY <1>1 DEF CodeInv
<1>2. Once(d)
  BY DEF CodeInv
<1>3. /\ request'[r].pc \in {"reset.delete", "move.delete"} /\ request'[r].code = c
      /\ request'[r].email = request[r].email
      /\ \A q \in Requests : q # r => request'[q] = request[q]
  BY DEF AInv, AType
<1>4. \A q \in Requests : Holds(q, d)' <=> Holds(q, d)
  BY <1>3 DEF Holds
<1>5. d = c => d \notin spent
  BY <1>2 DEF Once
<1>6. d \notin reused'
  BY <1>2, <1>5 DEF Once, Spend
<1>7. \A q \in Requests : Holds(q, d)' =>
        /\ Known(d)' /\ ucode'[d].email = request'[q].email
        /\ Deleting(q)' \/ d \notin spent'
  <2>1. SUFFICES ASSUME NEW q \in Requests, Holds(q, d)
                 PROVE  /\ Known(d)' /\ ucode'[d].email = request'[q].email
                        /\ Deleting(q)' \/ d \notin spent'
    BY <1>4
  <2>2. CASE q = r
    BY <1>2, <1>3, <2>1, <2>2 DEF Once, Known, Deleting
  <2>3. CASE q # r
    <3>1. d # c
      BY <1>2, <2>1, <2>3 DEF Once
    <3> QED
      BY <1>2, <1>3, <2>1, <2>3, <3>1 DEF Once, Known, Deleting, Spend
  <2> QED
    BY <2>2, <2>3
<1>8. d \in spent' => ucode'[d] = Gone \/ \E q \in Requests : Holds(q, d)'
  BY <1>2, <1>4 DEF Once, Spend
<1> QED
  BY <1>2, <1>4, <1>6, <1>7, <1>8 DEF Once

(* A holder of an unspent code is refused, and lets it go.                 *)
LEMMA DroppedUnspent ==
  ASSUME AInv, CodeInv, NEW r \in Requests, NEW c \in Codes, Holds(r, c), ~Deleting(r),
         Finish(r), UNCHANGED <<ucode, spent, reused, disturbed>>
  PROVE  CodeInv'
<1>1. c \in disturbed \/ c \notin spent
  BY DEF CodeInv, Once
<1>2. \A d \in Codes : Holds(r, d) => d = c
  BY DEF Holds
<1>3. CodesKept
  BY DEF CodesKept, CodeInv
<1>4. \A q \in Requests : \/ request'[q] = request[q]
                          \/ /\ request'[q].pc \notin CodePcs
                             /\ \A d \in Codes : Holds(q, d) => d \in disturbed' \/ d \notin spent
  BY <1>1, <1>2, IdleState DEF Finish, CodePcs, AInv, AType
<1> QED
  BY <1>3, <1>4, OnceKept

(* A code is deleted by its holder, who is done with it.                   *)
LEMMA DeletedOnce ==
  ASSUME AInv, CodeInv, NEW r \in Requests, NEW c \in Codes, Holds(r, c),
         DeleteToken(c, request[r].email), Finish(r), UNCHANGED <<spent, reused, disturbed>>
  PROVE  CodeInv'
<1>1. ucode' = [d \in Codes |-> ucode'[d]] /\ \A d \in Codes : d # c => ucode'[d] = ucode[d]
  BY DEF CodeInv, DeleteToken
<1> SUFFICES ASSUME NEW d \in Codes, d \notin disturbed PROVE Once(d)'
  BY <1>1 DEF CodeInv
<1>2. Once(d)
  BY DEF CodeInv
<1>3. request'[r] = Idle /\ \A q \in Requests : q # r => request'[q] = request[q]
  BY DEF AInv, AType, Finish
<1>4. \A q \in Requests : Holds(q, d)' <=> q # r /\ Holds(q, d)
  BY <1>3, IdleState DEF Holds
<1>5. CASE d = c
  <2>1. \A q \in Requests : ~Holds(q, c)'
    BY <1>2, <1>4, <1>5 DEF Once
  <2>2. ucode'[c] = Gone
    <3>1. Known(c) /\ ucode[c].email = request[r].email
      BY <1>2, <1>5 DEF Once
    <3> QED
      BY <3>1 DEF DeleteToken, CodeInv
  <2> QED
    BY <1>2, <1>5, <2>1, <2>2 DEF Once
<1>6. CASE d # c
  <2>1. ~Holds(r, d)
    BY <1>6 DEF Holds
  <2>2. \A q \in Requests : Holds(q, d)' <=> Holds(q, d)
    BY <1>4, <2>1
  <2> QED
    BY <1>1, <1>2, <1>3, <1>6, <2>1, <2>2 DEF Once, Known, Deleting
<1> QED
  BY <1>5, <1>6

(* Statements that are not about codes presented.                          *)
LEMMA AsideTo ==
  ASSUME CodeInv, NEW r \in Requests, NEW st,
         request[r].pc \notin CodePcs, st.pc \notin CodePcs,
         request' = [request EXCEPT ![r] = st],
         UNCHANGED <<ucode, spent, reused>>, disturbed \subseteq disturbed'
  PROVE  Aside(r)
BY DEF Aside, CodesKept, CodeInv

LEMMA ArriveAside ==
  ASSUME AInv, CodeInv, NEW r \in Requests, NEW kind, NEW st, Arrive(r, kind, st),
         st.pc \notin CodePcs, UNCHANGED <<ucode, spent, reused>>, disturbed \subseteq disturbed'
  PROVE  Aside(r)
BY AsideTo, IdleState DEF Arrive, CodePcs

LEMMA FinishAside ==
  ASSUME AInv, CodeInv, NEW r \in Requests, request[r].pc \notin CodePcs, Finish(r),
         UNCHANGED <<ucode, spent, reused>>, disturbed \subseteq disturbed'
  PROVE  Aside(r)
BY AsideTo, IdleState DEF Finish, CodePcs

LEMMA GotoAside ==
  ASSUME AInv, CodeInv, NEW r \in Requests, request[r].pc \notin CodePcs, NEW pc, Goto(r, pc),
         pc \notin CodePcs, UNCHANGED <<ucode, spent, reused>>, disturbed \subseteq disturbed'
  PROVE  Aside(r)
<1>1. request[r] \in RequestState
  BY RequestAt
<1>2. [request[r] EXCEPT !.pc = pc].pc = pc
  BY <1>1 DEF RequestState, Idle
<1>3. request' = [request EXCEPT ![r] = [request[r] EXCEPT !.pc = pc]]
  BY DEF Goto
<1> QED
  BY <1>2, <1>3, AsideTo

LEMMA InsertKeeps ==
  ASSUME CodeInv, NEW c \in Codes, NEW email, NEW expired_at, InsertCode(c, email, expired_at)
  PROVE  CodesKept
BY DEF InsertCode, CodesKept, CodeInv

LEMMA RegisterCodeAside ==
  ASSUME AInv, CodeInv, NEW r \in Requests, NEW c \in Codes, RegisterCode(r, c)
  PROVE  Aside(r)
<1>1. request[r] \in RegisterState
  BY RequestAt, Shapes DEF RegisterCode, At, RegisterPcs
<1>2. PICK st : st = [request[r] EXCEPT !.pc = "register.mail", !.code = c]
  OBVIOUS
<1>3. st.pc = "register.mail"
  BY <1>1, <1>2 DEF RegisterState
<1>4. PICK email, expired_at : InsertCode(c, email, expired_at)
  BY DEF RegisterCode
<1>5. CodesKept
  BY <1>4, InsertKeeps
<1>6. /\ request[r].pc = "register.code" /\ request' = [request EXCEPT ![r] = st]
      /\ UNCHANGED <<spent, reused, disturbed>>
  BY <1>2 DEF RegisterCode, Continue, At, history
<1> QED
  BY <1>3, <1>5, <1>6 DEF Aside, CodePcs

LEMMA RegisterAside ==
  ASSUME AInv, CodeInv, NEW r \in Requests,
         \/ \E email \in Emails, type \in TypeInputs : Register(r, email, type)
         \/ \E u \in Accounts : RegisterCreate(r, u)
         \/ \E c \in Codes : RegisterCode(r, c)
         \/ RegisterRefused(r) \/ RegisterBilling(r) \/ RegisterAdmins(r) \/ RegisterOrphan(r)
         \/ RegisterMail(r)
  PROVE  Aside(r)
<1>1. CASE \E email \in Emails, type \in TypeInputs : Register(r, email, type)
  BY <1>1, ArriveAside DEF Register, nothing, tables, history, CodePcs
<1>2. CASE \E u \in Accounts : RegisterCreate(r, u)
  BY <1>2, AsideTo DEF RegisterCreate, Continue, At, CodePcs
<1>3. CASE \E c \in Codes : RegisterCode(r, c)
  BY <1>3, RegisterCodeAside
<1>4. CASE RegisterRefused(r) \/ RegisterOrphan(r) \/ RegisterMail(r)
  BY <1>4, FinishAside
  DEF RegisterRefused, RegisterOrphan, RegisterMail, At, nothing, tables, history, CodePcs
<1>5. CASE RegisterBilling(r) \/ RegisterAdmins(r)
  BY <1>5, GotoAside DEF RegisterBilling, RegisterAdmins, At, nothing, tables, history, CodePcs
<1> QED
  BY <1>1, <1>2, <1>3, <1>4, <1>5

LEMMA OtpAside ==
  ASSUME AInv, CodeInv, NEW r \in Requests,
         \/ \E u \in Accounts, email \in Emails :
              \/ ForgotPassword(r, u, email) \/ ResendVerificationEmail(r, u, email)
              \/ RequestEmailChange(r, u, email)
         \/ \E c \in Codes : OtpCreate(r, c)
         \/ OtpOrphan(r) \/ OtpMail(r)
  PROVE  Aside(r)
<1>1. ASSUME NEW u \in Accounts, NEW email \in Emails,
             \/ ForgotPassword(r, u, email) \/ ResendVerificationEmail(r, u, email)
             \/ RequestEmailChange(r, u, email)
      PROVE  Aside(r)
  BY <1>1, ArriveAside
  DEF ForgotPassword, ResendVerificationEmail, RequestEmailChange, AskCode, nothing, tables,
      history, CodePcs
<1>2. ASSUME NEW c \in Codes, OtpCreate(r, c) PROVE Aside(r)
  <2>1. CodesKept
    BY <1>2, InsertKeeps DEF OtpCreate
  <2> QED
    BY <1>2, <2>1 DEF Aside, OtpCreate, Continue, At, CodePcs, history
<1>3. CASE OtpOrphan(r)
  BY <1>3, AsideTo DEF OtpOrphan, Continue, At, nothing, tables, history, CodePcs
<1>4. CASE OtpMail(r)
  BY <1>4, FinishAside DEF OtpMail, At, tables, history, CodePcs
<1> QED
  BY <1>1, <1>2, <1>3, <1>4

LEMMA SessionAside ==
  ASSUME AInv, CodeInv, NEW r \in Requests,
         \/ \E u \in Accounts : Login(r, u)
         \/ \E u \in Accounts, given \in Choosers : ChangePassword(r, u, given)
         \/ \E p \in Profiles : Social(r, p)
         \/ \E u \in Accounts : SocialCreate(r, u)
         \/ PasswordCheck(r) \/ PasswordUpdate(r)
         \/ LoginSet(r) \/ SocialRefused(r) \/ SocialToken(r) \/ SocialBilling(r)
  PROVE  Aside(r)
<1>1. CASE \/ \E u \in Accounts : Login(r, u)
           \/ \E u \in Accounts, given \in Choosers : ChangePassword(r, u, given)
           \/ \E p \in Profiles : Social(r, p)
  BY <1>1, ArriveAside DEF Login, ChangePassword, Social, nothing, tables, history, CodePcs
<1>2. CASE \E u \in Accounts : SocialCreate(r, u)
  BY <1>2, AsideTo DEF SocialCreate, Continue, At, CodePcs
<1>3. CASE PasswordCheck(r) \/ SocialToken(r)
  BY <1>3, FinishAside, GotoAside
  DEF PasswordCheck, SocialToken, At, nothing, tables, history, CodePcs
<1>4. CASE PasswordUpdate(r) \/ LoginSet(r) \/ SocialRefused(r) \/ SocialBilling(r)
  BY <1>4, FinishAside
  DEF PasswordUpdate, LoginSet, SocialRefused, SocialBilling, At, nothing, tables, history,
      CodePcs
<1> QED
  BY <1>1, <1>2, <1>3, <1>4

LEMMA ModerationAside ==
  ASSUME AInv, CodeInv, ModerationNext
  PROVE  \E r \in Requests : Aside(r)
<1>1. PICK r \in Requests :
        \/ \E u \in Accounts :
             \/ \E d \in Decisions : Decide(r, u, d)
             \/ RestrictAStudent(r, u) \/ UnrestrictAStudent(r, u) \/ Approve(r, u) \/ Reject(r, u)
             \/ Delete(r, u)
             \/ \E email \in Emails \cup {NULL}, password \in BOOLEAN, type \in TypeInputs :
                  AdminUpdate(r, u, email, password, type)
             \/ AdminCreateInsert(r, u)
        \/ \E email \in Emails, type \in TypeInputs : AdminCreate(r, email, type)
        \/ DecideUpdate(r) \/ DecideMail(r)
        \/ RestrictUpdate(r) \/ UnrestrictUpdate(r) \/ ApproveUpdate(r) \/ RejectUpdate(r)
        \/ DeleteRow(r) \/ AdminCreateRefused(r) \/ AdminUpdateRow(r)
  BY DEF ModerationNext
<1>2. CASE \E u \in Accounts, d \in Decisions : Decide(r, u, d)
  BY <1>2, ArriveAside DEF Decide, tables, CodePcs
<1>3. CASE \E u \in Accounts : \/ RestrictAStudent(r, u) \/ UnrestrictAStudent(r, u) \/ Approve(r, u)
                               \/ Reject(r, u) \/ Delete(r, u)
  BY <1>3, ArriveAside
  DEF RestrictAStudent, UnrestrictAStudent, Approve, Reject, Delete, LookUpUser, nothing,
      tables, history, CodePcs
<1>4. CASE \/ \E u \in Accounts, email \in Emails \cup {NULL}, password \in BOOLEAN,
                 type \in TypeInputs : AdminUpdate(r, u, email, password, type)
           \/ \E email \in Emails, type \in TypeInputs : AdminCreate(r, email, type)
  BY <1>4, ArriveAside DEF AdminUpdate, AdminCreate, nothing, tables, history, CodePcs
<1>5. CASE DecideUpdate(r)
  BY <1>5, FinishAside, GotoAside DEF DecideUpdate, At, history, CodePcs
<1>6. CASE DecideMail(r) \/ AdminCreateRefused(r)
  BY <1>6, FinishAside DEF DecideMail, AdminCreateRefused, At, nothing, tables, history, CodePcs
<1>7. CASE \E u \in Accounts : AdminCreateInsert(r, u)
  BY <1>7, FinishAside DEF AdminCreateInsert, At, CodePcs
<1>8. CASE AdminUpdateRow(r)
  <2>1. At(r, "admin.update") /\ Finish(r) /\ UNCHANGED <<ucode, spent, reused, disturbed>>
    BY <1>8, Zenon DEF AdminUpdateRow
  <2> QED
    BY <2>1, FinishAside DEF At, CodePcs
<1>9. CASE \/ RestrictUpdate(r) \/ UnrestrictUpdate(r) \/ ApproveUpdate(r) \/ RejectUpdate(r)
           \/ DeleteRow(r)
  BY <1>9, FinishAside
  DEF RestrictUpdate, UnrestrictUpdate, ApproveUpdate, RejectUpdate, DeleteRow, UpdateUser,
      At, history, CodePcs
<1> QED
  BY <1>1, <1>2, <1>3, <1>4, <1>5, <1>6, <1>7, <1>8, <1>9

(* Statements about codes presented.                                       *)
LEMMA ResetOnce ==
  ASSUME AInv, CodeInv, NEW r \in Requests,
         \/ \E email \in Emails, letter \in {l \in inbox : l.code # NULL} :
              ResetPassword(r, email, letter)
         \/ ResetUpdate(r) \/ ResetDelete(r)
  PROVE  CodeInv'
<1>1. ASSUME NEW email \in Emails, NEW letter \in {l \in inbox : l.code # NULL},
             ResetPassword(r, email, letter)
      PROVE  CodeInv'
  <2>1. PICK c \in Codes : c = letter.code
    BY DEF AInv, AType, CodeLetter
  <2>2. PICK st : st = [pc |-> "reset.update", email |-> email, code |-> c, letter |-> letter.to]
    OBVIOUS
  <2>3. /\ request[r] = Idle /\ request' = [request EXCEPT ![r] = st]
        /\ Valid(c, email) /\ Overlaps(r, c) /\ UNCHANGED <<ucode, spent, reused>>
    BY <1>1, <2>1, <2>2 DEF ResetPassword, Arrive, tables
  <2>4. st.pc = "reset.update" /\ st.code = c /\ st.email = email
    BY <2>2
  <2> QED
    BY <2>3, <2>4, PresentedOnce
<1>2. CASE ResetUpdate(r) \/ ResetDelete(r)
  <2>1. request[r] \in ResetState /\ request[r].pc \in {"reset.update", "reset.delete"}
    BY <1>2, RequestAt, Shapes DEF ResetUpdate, ResetDelete, At
  <2>2. PICK c \in Codes : c = request[r].code
    BY <2>1 DEF ResetState
  <2>3. Holds(r, c)
    BY <2>1, <2>2 DEF Holds
  <2>4. CASE ResetDelete(r)
    BY <2>2, <2>3, <2>4, DeletedOnce DEF ResetDelete, history
  <2>5. CASE At(r, "reset.update") /\ Finish(r) /\ UNCHANGED <<ucode, spent, reused, disturbed>>
    BY <2>2, <2>3, <2>5, DroppedUnspent DEF At, Deleting
  <2>6. CASE /\ At(r, "reset.update") /\ Spend(c) /\ Goto(r, "reset.delete")
             /\ UNCHANGED <<ucode, disturbed>>
    <3>1. PICK st : st = [request[r] EXCEPT !.pc = "reset.delete"]
      OBVIOUS
    <3>2. /\ st.pc \in {"reset.delete", "move.delete"} /\ st.code = c
          /\ st.email = request[r].email
      BY <2>1, <2>2, <3>1 DEF ResetState
    <3>3. request' = [request EXCEPT ![r] = st]
      BY <2>6, <3>1 DEF Goto
    <3>4. ~Deleting(r) /\ Spend(c) /\ UNCHANGED <<ucode, disturbed>>
      BY <2>6 DEF At, Deleting
    <3> QED
      BY <2>3, <3>2, <3>3, <3>4, SpentOnce
  <2> QED
    BY <1>2, <2>2, <2>4, <2>5, <2>6 DEF ResetUpdate
<1> QED
  BY <1>1, <1>2

LEMMA MoveOnce ==
  ASSUME AInv, CodeInv, NEW r \in Requests,
         \/ \E u \in Accounts, email \in Emails, letter \in {l \in inbox : l.code # NULL} :
              ChangeEmail(r, u, email, letter)
         \/ ChangeEmailUpdate(r) \/ ChangeEmailDelete(r)
  PROVE  CodeInv'
<1>1. ASSUME NEW u \in Accounts, NEW email \in Emails,
             NEW letter \in {l \in inbox : l.code # NULL}, ChangeEmail(r, u, email, letter)
      PROVE  CodeInv'
  <2>1. PICK c \in Codes : c = letter.code
    BY DEF AInv, AType, CodeLetter
  <2>2. PICK st : st = [pc |-> "move.update", user |-> u, email |-> email, code |-> c]
    OBVIOUS
  <2>3. /\ request[r] = Idle /\ request' = [request EXCEPT ![r] = st]
        /\ Valid(c, email) /\ Overlaps(r, c) /\ UNCHANGED <<ucode, spent, reused>>
    BY <1>1, <2>1, <2>2 DEF ChangeEmail, Arrive, tables
  <2>4. st.pc = "move.update" /\ st.code = c /\ st.email = email
    BY <2>2
  <2> QED
    BY <2>3, <2>4, PresentedOnce
<1>2. CASE ChangeEmailUpdate(r) \/ ChangeEmailDelete(r)
  <2>1. request[r] \in MoveState /\ request[r].pc \in {"move.update", "move.delete"}
    BY <1>2, RequestAt, Shapes DEF ChangeEmailUpdate, ChangeEmailDelete, At
  <2>2. PICK c \in Codes : c = request[r].code
    BY <2>1 DEF MoveState
  <2>3. Holds(r, c)
    BY <2>1, <2>2 DEF Holds
  <2>4. CASE ChangeEmailDelete(r)
    BY <2>2, <2>3, <2>4, DeletedOnce DEF ChangeEmailDelete, history
  <2>5. CASE At(r, "move.update") /\ Finish(r) /\ UNCHANGED <<ucode, spent, reused, disturbed>>
    BY <2>2, <2>3, <2>5, DroppedUnspent DEF At, Deleting
  <2>6. CASE /\ At(r, "move.update") /\ Spend(c) /\ Goto(r, "move.delete")
             /\ UNCHANGED <<ucode, disturbed>>
    <3>1. PICK st : st = [request[r] EXCEPT !.pc = "move.delete"]
      OBVIOUS
    <3>2. /\ st.pc \in {"reset.delete", "move.delete"} /\ st.code = c
          /\ st.email = request[r].email
      BY <2>1, <2>2, <3>1 DEF MoveState
    <3>3. request' = [request EXCEPT ![r] = st]
      BY <2>6, <3>1 DEF Goto
    <3>4. ~Deleting(r) /\ Spend(c) /\ UNCHANGED <<ucode, disturbed>>
      BY <2>6 DEF At, Deleting
    <3> QED
      BY <2>3, <3>2, <3>3, <3>4, SpentOnce
  <2> QED
    BY <1>2, <2>2, <2>4, <2>5, <2>6 DEF ChangeEmailUpdate
<1> QED
  BY <1>1, <1>2

(* A verification leaves the code it was asked with.                       *)
LEMMA VerifyAside ==
  ASSUME AInv, CodeInv, NEW r \in Requests,
         \/ \E u \in Accounts, email \in Emails, letter \in {l \in inbox : l.code # NULL} :
              VerifyEmail(r, u, email, letter)
         \/ VerifyUpdate(r)
  PROVE  Aside(r)
<1>1. CASE \E u \in Accounts, email \in Emails, letter \in {l \in inbox : l.code # NULL} :
             VerifyEmail(r, u, email, letter)
  BY <1>1, ArriveAside DEF VerifyEmail, nothing, tables, history, CodePcs
<1>2. CASE VerifyUpdate(r)
  BY <1>2, FinishAside DEF VerifyUpdate, At, history, CodePcs
<1> QED
  BY <1>1, <1>2

(* The mail worker, a logout and time change no code; who fails or dies    *)
(* disturbs the codes it held.                                             *)
LEMMA FaultOnce ==
  ASSUME AInv, CodeInv,
         \/ UNCHANGED avars
         \/ MailNext \/ LogoutNext \/ Tick \/ Crash
         \/ \E r \in Requests : StatementFails(r)
  PROVE  CodeInv'
<1>1. ucode = [c \in Codes |-> ucode[c]]
  BY DEF CodeInv
<1>2. CASE UNCHANGED avars \/ MailNext \/ LogoutNext \/ Tick
  <2>1. UNCHANGED <<ucode, spent, reused, request>> /\ disturbed \subseteq disturbed'
    BY <1>2 DEF avars, MailNext, Deliver, LoseLetter, LogoutNext, Logout, Tick, tables, history
  <2> QED
    BY <1>1, <2>1, OnceKept DEF CodesKept
<1>3. CASE Crash
  <2>1. /\ UNCHANGED <<ucode, spent, reused>> /\ disturbed \subseteq disturbed'
        /\ \A r \in Requests : request'[r] = Idle /\ HalfDone(r) \subseteq disturbed'
    BY <1>3 DEF Crash, tables
  <2>2. \A r \in Requests : /\ request'[r].pc \notin CodePcs
                            /\ \A c \in Codes : Holds(r, c) => c \in disturbed'
    BY <2>1, IdleState DEF HalfDone, CodePcs
  <2> QED
    BY <1>1, <2>1, <2>2, OnceKept DEF CodesKept
<1>4. ASSUME NEW q \in Requests, StatementFails(q) PROVE CodeInv'
  <2>1. /\ UNCHANGED <<ucode, spent, reused>> /\ disturbed \subseteq disturbed'
        /\ request' = [request EXCEPT ![q] = Idle] /\ HalfDone(q) \subseteq disturbed'
    BY <1>4 DEF StatementFails, Finish, tables
  <2>2. \A r \in Requests : \/ request'[r] = request[r]
                            \/ /\ request'[r].pc \notin CodePcs
                               /\ \A c \in Codes : Holds(r, c) => c \in disturbed'
    BY <2>1, IdleState DEF HalfDone, CodePcs, AInv, AType
  <2> QED
    BY <1>1, <2>1, <2>2, OnceKept DEF CodesKept
<1> QED
  BY <1>2, <1>3, <1>4

LEMMA CodeStep == AInv /\ CodeInv /\ [Next]_avars => CodeInv'
<1> SUFFICES ASSUME AInv, CodeInv, [Next]_avars PROVE CodeInv'
  OBVIOUS
<1>1. ASSUME AuthNext PROVE CodeInv'
  BY <1>1, RegisterAside, OtpAside, SessionAside, VerifyAside, AsideKept, ResetOnce, MoveOnce
  DEF AuthNext
<1>2. ASSUME ModerationNext PROVE CodeInv'
  BY <1>2, ModerationAside, AsideKept
<1> QED
  BY <1>1, <1>2, FaultOnce DEF Next

LEMMA CodeStart == Init => CodeInv
<1> SUFFICES ASSUME Init PROVE CodeInv
  OBVIOUS
<1>1. /\ ucode = [c \in Codes |-> NULL] /\ request = [r \in Requests |-> Idle]
      /\ spent = {} /\ reused = {}
  BY DEF Init, InitWith
<1> QED
  BY <1>1, IdleState DEF CodeInv, Once, Holds

(* 'Invalid token' of a code used before: whatever is presented twice,     *)
(* expires or is asked for again meanwhile, a code changes one row once,   *)
(* unless two requests on it overlapped or one of them failed.             *)
THEOREM CodesCorrect == Spec => []CodeUsedOnce
<1>1. CodeInv => CodeUsedOnce
  BY DEF CodeInv, Once, CodeUsedOnce
<1> QED
  BY <1>1, CodeStart, CodeStep, Invariance, PTL DEF Spec

----------------------------------------------------------------------------
(* Who writes a row.  As long as no address changes hands, an address an   *)
(* account has had leads back to it: a code is posted to its own address   *)
(* or, with the address of an account, to one that account has had; and    *)
(* what a request carries from its look-up to its write belongs to the     *)
(* account it will write.                                                  *)

Together(d, e) == d = e \/ \E u \in Accounts : d \in held[u] /\ e \in held[u]

Posted(to, c) ==
  c = NULL \/ (c \in Codes /\ ucode[c] # NULL /\ (Known(c) => Together(to, ucode[c].email)))

LetterOwn(l) == "code" \in DOMAIN l => Posted(l.to, l.code)

MailOwn ==
  /\ \A l \in inbox : LetterOwn(l)
  /\ \A i \in 1..Len(mail) : LetterOwn(mail[i])

OwnOf(st) ==
  /\ st.pc \in {"register.mail", "otp.mail"} => Posted(st.to, st.code)
  /\ st.pc = "otp.create" /\ st.email = NULL => st.to \in held[st.user]
  /\ st.pc = "otp.create" /\ st.email # NULL => st.to = st.email
  /\ st.pc = "verify.update" => st.letter \in held[st.user]
  /\ st.pc = "reset.update" => Together(st.letter, st.email)
  /\ st.pc \in {"password.check", "password.update"} => st.email \in held[st.user]

OwnPcs == {"register.mail", "otp.create", "otp.mail", "verify.update", "reset.update",
           "password.check", "password.update"}

RowOwn(u) ==
  /\ user[u].password \in {u, "admin", NULL} \cup held[u]
  /\ user[u].verified \in {NULL} \cup held[u]

RowHeld(u) ==
  /\ user[u] = NULL => held[u] = {}
  /\ Present(u) => user[u].email \in held[u]

HeldInv ==
  /\ held \in [Accounts -> SUBSET Emails]
  /\ \A u \in Accounts : RowHeld(u)

OwnInv ==
  /\ HeldInv
  /\ AddressesKept =>
       /\ \A u \in Accounts : Present(u) => RowOwn(u)
       /\ MailOwn
       /\ \A r \in Requests : OwnOf(request[r])

(* Addresses are added, and codes are made once and deleted once.          *)
Grown ==
  /\ held' \in [Accounts -> SUBSET Emails]
  /\ \A u \in Accounts : held[u] \subseteq held'[u]
  /\ \A c \in Codes : ucode[c] # NULL => ucode'[c] \in {ucode[c], Gone}

LEMMA Grows ==
  ASSUME Grown
  PROVE  /\ AddressesKept' => AddressesKept
         /\ \A d, e : Together(d, e) => Together(d, e)'
         /\ \A to, c : Posted(to, c) => Posted(to, c)'
         /\ \A l : LetterOwn(l) => LetterOwn(l)'
<1>1. AddressesKept' => AddressesKept
  BY DEF Grown, AddressesKept
<1>2. \A d, e : Together(d, e) => Together(d, e)'
  BY DEF Grown, Together
<1>3. ASSUME NEW to, NEW c, Posted(to, c) PROVE Posted(to, c)'
  <2>1. CASE c = NULL
    BY <2>1 DEF Posted
  <2>2. CASE c \in Codes /\ ucode[c] # NULL /\ (Known(c) => Together(to, ucode[c].email))
    <3>1. ucode'[c] = ucode[c] \/ ucode'[c] = Gone
      BY <2>2 DEF Grown
    <3>2. ucode'[c] # NULL
      BY <2>2, <3>1, UsersAssumption
    <3>3. Known(c)' => ucode'[c] = ucode[c] /\ Known(c)
      BY <3>1 DEF Known
    <3> QED
      BY <1>2, <2>2, <3>2, <3>3 DEF Posted
  <2> QED
    BY <1>3, <2>1, <2>2 DEF Posted
<1>4. \A l : LetterOwn(l) => LetterOwn(l)'
  BY <1>3 DEF LetterOwn
<1> QED
  BY <1>1, <1>2, <1>3, <1>4

LEMMA OwnGrows ==
  ASSUME AInv, HeldInv, Grown, NEW st \in RequestState, OwnOf(st)
  PROVE  OwnOf(st)'
<1>1. st.pc \in {"register.mail", "otp.mail"} => Posted(st.to, st.code)'
  BY Grows DEF OwnOf
<1>2. st.pc = "reset.update" => Together(st.letter, st.email)'
  BY Grows DEF OwnOf
<1>3. st.pc = "otp.create" => st.user \in Accounts
  BY Shapes DEF OtpState
<1>4. st.pc = "verify.update" => st.user \in Accounts
  BY Shapes DEF VerifyState
<1>5. st.pc \in {"password.check", "password.update"} => st.user \in Accounts
  BY Shapes DEF PasswordState
<1>6. \A u \in Accounts : held[u] \subseteq held'[u]
  BY DEF Grown
<1> QED
  BY <1>1, <1>2, <1>3, <1>4, <1>5, <1>6 DEF OwnOf

(* What a step has to keep.                                                *)
LEMMA OwnKept ==
  ASSUME AInv, OwnInv, Grown,
         \A u \in Accounts : \/ user'[u] = user[u] /\ held'[u] = held[u]
                             \/ /\ RowHeld(u)'
                                /\ AddressesKept' /\ Present(u)' => RowOwn(u)',
         UNCHANGED <<mail, inbox>> \/ (AddressesKept' => MailOwn'),
         \A r \in Requests : request'[r] = request[r] \/ (AddressesKept' => OwnOf(request[r])')
  PROVE  OwnInv'
<1>1. HeldInv'
  <2>1. held' \in [Accounts -> SUBSET Emails]
    BY DEF Grown
  <2>2. \A u \in Accounts : RowHeld(u)'
    BY DEF OwnInv, HeldInv, RowHeld, Present
  <2> QED
    BY <2>1, <2>2 DEF HeldInv
<1> SUFFICES ASSUME AddressesKept'
             PROVE  /\ \A u \in Accounts : Present(u)' => RowOwn(u)'
                    /\ MailOwn'
                    /\ \A r \in Requests : OwnOf(request[r])'
  BY <1>1 DEF OwnInv
<1>2. /\ AddressesKept /\ HeldInv /\ MailOwn
      /\ \A u \in Accounts : Present(u) => RowOwn(u)
      /\ \A r \in Requests : OwnOf(request[r])
  BY Grows DEF OwnInv
<1>3. \A u \in Accounts : Present(u)' => RowOwn(u)'
  BY <1>2 DEF RowOwn, Present
<1>4. MailOwn'
  BY <1>2, Grows DEF MailOwn
<1>5. ASSUME NEW r \in Requests PROVE OwnOf(request[r])'
  <2>1. request[r] \in RequestState /\ OwnOf(request[r])
    BY <1>2, RequestAt
  <2>2. PICK st \in RequestState : st = request[r] /\ OwnOf(st)
    BY <2>1
  <2>3. OwnOf(st)'
    BY <1>2, <2>2, OwnGrows
  <2>4. request'[r] = request[r] => OwnOf(request[r])'
    BY <2>2, <2>3 DEF OwnOf
  <2> QED
    BY <2>4
<1> QED
  BY <1>3, <1>4, <1>5

LEMMA Unowned ==
  ASSUME NEW st, st.pc \notin OwnPcs
  PROVE  OwnOf(st) /\ OwnOf(st)'
BY DEF OwnOf, OwnPcs

LEMMA StillGrown ==
  ASSUME AInv, OwnInv, UNCHANGED <<held, ucode>>
  PROVE  Grown
BY DEF OwnInv, HeldInv, Grown

(* A request goes on, and the tables stay.                                 *)
LEMMA OwnGoes ==
  ASSUME AInv, OwnInv, NEW r \in Requests, NEW st, request' = [request EXCEPT ![r] = st],
         UNCHANGED <<user, held, ucode, mail, inbox>>, AddressesKept => OwnOf(st)
  PROVE  OwnInv'
<1>1. \A q \in Requests : q # r => request'[q] = request[q]
  BY DEF AInv, AType
<1>2. request'[r] = st
  BY DEF AInv, AType
<1>3. AddressesKept' => AddressesKept
  BY DEF AddressesKept
<1>4. OwnOf(st) => OwnOf(st)'
  BY DEF OwnOf, Posted, Together, Known
<1>5. OwnOf(st)' => OwnOf(request[r])'
  BY <1>2 DEF OwnOf
<1> QED
  BY <1>1, <1>3, <1>4, <1>5, StillGrown, OwnKept

(* A request goes on to a statement that needs nothing, and writes rows.   *)
LEMMA OwnPasses ==
  ASSUME AInv, OwnInv, Grown, NEW r \in Requests, NEW st,
         request' = [request EXCEPT ![r] = st], st.pc \notin OwnPcs, UNCHANGED <<mail, inbox>>,
         \A u \in Accounts : \/ user'[u] = user[u] /\ held'[u] = held[u]
                             \/ RowHeld(u)' /\ (AddressesKept' /\ Present(u)' => RowOwn(u)')
  PROVE  OwnInv'
<1>1. \A q \in Requests : q # r => request'[q] = request[q]
  BY DEF AInv, AType
<1>2. request'[r] = st
  BY DEF AInv, AType
<1>3. OwnOf(request[r])'
  BY <1>2 DEF OwnOf, OwnPcs
<1> QED
  BY <1>1, <1>3, OwnKept

(* It writes a row of an account that keeps its address.                   *)
LEMMA OwnWrites ==
  ASSUME AInv, OwnInv, NEW r \in Requests, NEW st,
         request' = [request EXCEPT ![r] = st], st.pc \notin OwnPcs,
         UNCHANGED <<held, ucode, mail, inbox>>,
         NEW u \in Accounts, Present(u), NEW row \in UserRow, user' = [user EXCEPT ![u] = row],
         row.email = user[u].email,
         AddressesKept => /\ row.password \in {user[u].password, u, "admin"} \cup held[u]
                          /\ row.verified \in {user[u].verified} \cup held[u]
  PROVE  OwnInv'
<1>1. user'[u] = row /\ \A v \in Accounts : v # u => user'[v] = user[v]
  BY DEF AInv, AType
<1>2. row # NULL /\ RowHeld(u)
  BY RowsAssumption DEF OwnInv, HeldInv
<1>3. RowHeld(u)'
  BY <1>1, <1>2 DEF RowHeld
<1>4. AddressesKept' => RowOwn(u)'
  <2> SUFFICES ASSUME AddressesKept' PROVE RowOwn(u)'
    OBVIOUS
  <2>1. AddressesKept
    BY DEF AddressesKept
  <2>2. RowOwn(u)
    BY <2>1 DEF OwnInv
  <2> QED
    BY <1>1, <2>1, <2>2 DEF RowOwn
<1> QED
  BY <1>1, <1>3, <1>4, StillGrown, OwnPasses

(* It makes a row.                                                         *)
LEMMA OwnInserts ==
  ASSUME AInv, OwnInv, NEW r \in Requests, NEW st,
         request' = [request EXCEPT ![r] = st], st.pc \notin OwnPcs,
         UNCHANGED <<ucode, mail, inbox>>,
         NEW u \in Accounts, NEW email \in Emails, NEW type \in Types,
         NEW password \in {u, "admin", NULL}, NEW provider \in Profiles \cup {NULL},
         Insert(u, NewUser(email, type, password, provider))
  PROVE  OwnInv'
<1>1. PICK row : row = NewUser(email, type, password, provider)
  OBVIOUS
<1>2. /\ row \in UserRow /\ row.email = email /\ row.password = password
      /\ row.verified = NULL
  BY <1>1, NewUserRow DEF Choosers, NewUser
<1>3. user[u] = NULL /\ user' = [user EXCEPT ![u] = row] /\ held' = [held EXCEPT ![u] = {email}]
  BY <1>1, <1>2 DEF Insert
<1>4. HeldInv
  BY DEF OwnInv
<1>5. /\ user'[u] = row /\ held'[u] = {email} /\ held[u] = {}
      /\ \A v \in Accounts : v # u => user'[v] = user[v] /\ held'[v] = held[v]
  BY <1>3, <1>4 DEF AInv, AType, HeldInv, RowHeld
<1>6. Grown
  BY <1>3, <1>4, <1>5 DEF Grown, HeldInv
<1>7. RowHeld(u)' /\ RowOwn(u)'
  BY <1>2, <1>5, RowsAssumption DEF RowHeld, RowOwn
<1> QED
  BY <1>5, <1>6, <1>7, OwnPasses

(* It moves an account to another address.                                 *)
LEMMA OwnMoves ==
  ASSUME AInv, OwnInv, NEW r \in Requests, NEW st,
         request' = [request EXCEPT ![r] = st], st.pc \notin OwnPcs,
         UNCHANGED <<ucode, mail, inbox>>,
         NEW u \in Accounts, Present(u), NEW row \in UserRow, user' = [user EXCEPT ![u] = row],
         NEW new \in SUBSET Emails, held' = [held EXCEPT ![u] = held[u] \cup new],
         row.email \in new \cup {user[u].email},
         row.password \in {user[u].password, "admin"}, row.verified = user[u].verified
  PROVE  OwnInv'
<1>1. HeldInv
  BY DEF OwnInv
<1>2. /\ user'[u] = row /\ held'[u] = held[u] \cup new
      /\ \A v \in Accounts : v # u => user'[v] = user[v] /\ held'[v] = held[v]
  BY <1>1 DEF AInv, AType, HeldInv
<1>3. Grown
  BY <1>1, <1>2 DEF Grown, HeldInv
<1>4. RowHeld(u)'
  BY <1>1, <1>2, RowsAssumption DEF HeldInv, RowHeld
<1>5. AddressesKept' => RowOwn(u)'
  BY <1>2, <1>3, Grows DEF OwnInv, RowOwn
<1> QED
  BY <1>2, <1>3, <1>4, <1>5, OwnPasses

LEMMA OwnArrives ==
  ASSUME AInv, OwnInv, NEW r \in Requests, NEW kind, NEW st, Arrive(r, kind, st),
         UNCHANGED <<user, held, ucode, mail, inbox>>,
         st.pc \notin OwnPcs \/ (AddressesKept => OwnOf(st))
  PROVE  OwnInv'
<1>1. AddressesKept => OwnOf(st)
  BY Unowned
<1> QED
  BY <1>1, OwnGoes DEF Arrive

LEMMA OwnFinishes ==
  ASSUME AInv, OwnInv, NEW r \in Requests, Finish(r),
         UNCHANGED <<user, held, ucode, mail, inbox>>
  PROVE  OwnInv'
<1>1. OwnOf(Idle)
  BY Unowned, IdleState DEF OwnPcs
<1> QED
  BY <1>1, OwnGoes DEF Finish

(* Goto names the next statement, whatever it carries.                     *)
LEMMA GotoAt ==
  ASSUME AInv, NEW r \in Requests, NEW pc, Goto(r, pc)
  PROVE  \E st : st.pc = pc /\ request' = [request EXCEPT ![r] = st]
<1>1. [request[r] EXCEPT !.pc = pc].pc = pc
  BY RequestAt DEF RequestState, Idle
<1>2. PICK st : st = [request[r] EXCEPT !.pc = pc]
  OBVIOUS
<1>3. st.pc = pc
  BY <1>1, <1>2
<1> QED
  BY <1>2, <1>3 DEF Goto

LEMMA OwnRow ==
  ASSUME AInv, OwnInv, NEW u \in Accounts, Present(u)
  PROVE  user[u] \in UserRow /\ user[u].email \in held[u]
BY SeenRow DEF AInv, OwnInv, HeldInv, RowHeld

LEMMA ArrivalsOwn ==
  ASSUME AInv, OwnInv, NEW r \in Requests,
         \/ \E email \in Emails, type \in TypeInputs : Register(r, email, type)
         \/ \E u \in Accounts : Login(r, u)
         \/ \E p \in Profiles : Social(r, p)
         \/ \E u \in Accounts, email \in Emails, letter \in {l \in inbox : l.code # NULL} :
              ChangeEmail(r, u, email, letter)
         \/ \E u \in Accounts, d \in Decisions : Decide(r, u, d)
         \/ \E u \in Accounts : \/ RestrictAStudent(r, u) \/ UnrestrictAStudent(r, u) \/ Approve(r, u)
                                \/ Reject(r, u) \/ Delete(r, u)
         \/ \E u \in Accounts, email \in Emails \cup {NULL}, password \in BOOLEAN,
              type \in TypeInputs : AdminUpdate(r, u, email, password, type)
         \/ \E email \in Emails, type \in TypeInputs : AdminCreate(r, email, type)
  PROVE  OwnInv'
<1>1. CASE \/ \E email \in Emails, type \in TypeInputs : Register(r, email, type)
           \/ \E u \in Accounts : Login(r, u)
           \/ \E p \in Profiles : Social(r, p)
  BY <1>1, OwnArrives
  DEF Register, Login, Social, nothing, tables, post, history, OwnPcs
<1>2. ASSUME NEW u \in Accounts, NEW email \in Emails, NEW letter \in {l \in inbox : l.code # NULL},
             ChangeEmail(r, u, email, letter)
      PROVE  OwnInv'
  BY <1>2, OwnArrives DEF ChangeEmail, tables, post, OwnPcs
<1>3. ASSUME NEW u \in Accounts, NEW d \in Decisions, Decide(r, u, d) PROVE OwnInv'
  BY <1>3, OwnArrives DEF Decide, tables, post, OwnPcs
<1>4. ASSUME NEW u \in Accounts, \/ RestrictAStudent(r, u) \/ UnrestrictAStudent(r, u) \/ Approve(r, u)
                                 \/ Reject(r, u) \/ Delete(r, u)
      PROVE  OwnInv'
  BY <1>4, OwnArrives
  DEF RestrictAStudent, UnrestrictAStudent, Approve, Reject, Delete, LookUpUser, nothing,
      tables, post, history, OwnPcs
<1>5. ASSUME NEW u \in Accounts, NEW email \in Emails \cup {NULL}, NEW password \in BOOLEAN,
             NEW type \in TypeInputs, AdminUpdate(r, u, email, password, type)
      PROVE  OwnInv'
  BY <1>5, OwnArrives DEF AdminUpdate, nothing, tables, post, history, OwnPcs
<1>6. ASSUME NEW email \in Emails, NEW type \in TypeInputs, AdminCreate(r, email, type)
      PROVE  OwnInv'
  BY <1>6, OwnArrives DEF AdminCreate, nothing, tables, post, history, OwnPcs
<1> QED
  BY <1>1, <1>2, <1>3, <1>4, <1>5, <1>6

LEMMA EndingsOwn ==
  ASSUME AInv, OwnInv, NEW r \in Requests,
         \/ RegisterRefused(r) \/ RegisterOrphan(r) \/ RegisterAdmins(r)
         \/ LoginSet(r) \/ SocialRefused(r) \/ SocialToken(r) \/ AdminCreateRefused(r)
  PROVE  OwnInv'
<1>1. CASE RegisterRefused(r) \/ RegisterOrphan(r) \/ SocialRefused(r) \/ AdminCreateRefused(r)
  BY <1>1, OwnFinishes
  DEF RegisterRefused, RegisterOrphan, SocialRefused, AdminCreateRefused, nothing, tables,
      post, history
<1>2. CASE LoginSet(r)
  BY <1>2, OwnFinishes DEF LoginSet, post, history
<1>3. CASE SocialToken(r)
  BY <1>3, OwnFinishes, GotoAt, OwnGoes, Unowned DEF SocialToken, post, history, OwnPcs
<1>4. CASE RegisterAdmins(r)
  BY <1>4, GotoAt, OwnGoes, Unowned
  DEF RegisterAdmins, nothing, tables, post, history, OwnPcs
<1> QED
  BY <1>1, <1>2, <1>3, <1>4

(* A code is asked for by its account, or for the address it names.        *)
LEMMA AskOwn ==
  ASSUME AInv, OwnInv, NEW r \in Requests, NEW u \in Accounts, NEW email \in Emails,
         \/ ForgotPassword(r, u, email) \/ ResendVerificationEmail(r, u, email)
         \/ RequestEmailChange(r, u, email)
  PROVE  OwnInv'
<1>1. ASSUME NEW kind, NEW given \in {NULL, email}, AskCode(r, kind, u, email, given),
             given = NULL => email \in held[u]
      PROVE  OwnInv'
  <2>1. PICK st : st = [pc |-> "otp.create", user |-> u, to |-> email, email |-> given,
                        expired_at |-> clock + OtpLife]
    OBVIOUS
  <2>2. st.pc = "otp.create" /\ st.user = u /\ st.to = email /\ st.email = given
    BY <2>1
  <2>3. OwnOf(st)
    BY <1>1, <2>2 DEF OwnOf
  <2> QED
    BY <1>1, <2>1, <2>3, OwnArrives DEF AskCode, nothing, tables, post, history
<1>2. u \in With(email) => email \in held[u]
  BY OwnRow DEF With
<1> QED
  BY <1>1, <1>2, UsersAssumption
  DEF ForgotPassword, ResendVerificationEmail, RequestEmailChange

(* An address of two accounts would change hands.                          *)
LEMMA OneHolder ==
  ASSUME AddressesKept, NEW u \in Accounts, NEW d, NEW e, Together(d, e), e \in held[u]
  PROVE  d \in held[u]
<1>1. \A v \in Accounts : e \in held[v] => v = u
  BY DEF AddressesKept
<1> QED
  BY <1>1 DEF Together

(* A letter whose code is valid for an address leads to its account.       *)
LEMMA LetterLeads ==
  ASSUME AInv, OwnInv, AddressesKept, NEW letter \in {l \in inbox : l.code # NULL},
         NEW email \in Emails, Valid(letter.code, email)
  PROVE  Together(letter.to, email)
<1>1. letter \in inbox /\ "code" \in DOMAIN letter /\ letter.code # NULL
  BY DEF AInv, AType, CodeLetter
<1>2. Posted(letter.to, letter.code)
  BY <1>1 DEF OwnInv, MailOwn, LetterOwn
<1> QED
  BY <1>1, <1>2 DEF Posted, Valid

LEMMA PresentOwn ==
  ASSUME AInv, OwnInv, NEW r \in Requests, NEW email \in Emails,
         NEW letter \in {l \in inbox : l.code # NULL},
         \/ \E u \in Accounts : VerifyEmail(r, u, email, letter)
         \/ ResetPassword(r, email, letter)
  PROVE  OwnInv'
<1>1. ASSUME NEW u \in Accounts, VerifyEmail(r, u, email, letter) PROVE OwnInv'
  <2>1. PICK st : st = [pc |-> "verify.update", user |-> u, letter |-> letter.to]
    OBVIOUS
  <2>2. st.pc = "verify.update" /\ st.user = u /\ st.letter = letter.to
    BY <2>1
  <2>3. email \in held[u] /\ Valid(letter.code, email)
    BY <1>1, OwnRow DEF VerifyEmail, With
  <2>4. AddressesKept => OwnOf(st)
    BY <2>2, <2>3, LetterLeads, OneHolder DEF OwnOf
  <2> QED
    BY <1>1, <2>1, <2>4, OwnArrives DEF VerifyEmail, nothing, tables, post, history
<1>2. CASE ResetPassword(r, email, letter)
  <2>1. PICK st : st = [pc |-> "reset.update", email |-> email, code |-> letter.code,
                        letter |-> letter.to]
    OBVIOUS
  <2>2. st.pc = "reset.update" /\ st.email = email /\ st.letter = letter.to
    BY <2>1
  <2>3. AddressesKept => OwnOf(st)
    BY <1>2, <2>2, LetterLeads DEF OwnOf, ResetPassword
  <2> QED
    BY <1>2, <2>1, <2>3, OwnArrives DEF ResetPassword, tables, post
<1> QED
  BY <1>1, <1>2

(* Passwords.                                                              *)
LEMMA PasswordOwn ==
  ASSUME AInv, OwnInv, NEW r \in Requests,
         \/ \E u \in Accounts, given \in Choosers : ChangePassword(r, u, given)
         \/ PasswordCheck(r) \/ PasswordUpdate(r)
  PROVE  OwnInv'
<1>1. ASSUME NEW u \in Accounts, NEW given \in Choosers, ChangePassword(r, u, given)
      PROVE  OwnInv'
  <2>1. PICK st : st = [pc |-> "password.check", user |-> u, email |-> user[u].email,
                        given |-> given]
    OBVIOUS
  <2>2. st.pc = "password.check" /\ st.user = u /\ st.email = user[u].email
    BY <2>1
  <2>3. OwnOf(st)
    BY <1>1, <2>2, OwnRow DEF OwnOf, ChangePassword
  <2> QED
    BY <1>1, <2>1, <2>3, OwnArrives DEF ChangePassword, nothing, tables, post, history
<1>2. CASE PasswordCheck(r) \/ PasswordUpdate(r)
  <2>1. request[r] \in PasswordState
    BY <1>2, RequestAt, Shapes DEF PasswordCheck, PasswordUpdate, At
  <2>2. AddressesKept => request[r].email \in held[request[r].user]
    BY <1>2 DEF PasswordCheck, PasswordUpdate, At, OwnInv, OwnOf
  <2>3. PICK w \in Accounts : w = request[r].user
    BY <2>1 DEF PasswordState
  <2>4. CASE Finish(r) /\ UNCHANGED <<user, held, ucode, mail, inbox>>
    BY <2>4, OwnFinishes
  <2>5. CASE PasswordCheck(r) /\ Goto(r, "password.update")
    <3>1. PICK st : st = [request[r] EXCEPT !.pc = "password.update"]
      OBVIOUS
    <3>2. st.pc = "password.update" /\ st.email = request[r].email /\ st.user = request[r].user
      BY <2>1, <3>1 DEF PasswordState
    <3>3. AddressesKept => OwnOf(st)
      BY <2>2, <3>2 DEF OwnOf
    <3>4. request' = [request EXCEPT ![r] = st] /\ UNCHANGED <<user, held, ucode, mail, inbox>>
      BY <2>5, <3>1 DEF PasswordCheck, Goto, nothing, tables, post, history
    <3> QED
      BY <3>3, <3>4, OwnGoes
  <2>6. ASSUME PasswordUpdate(r), NEW u \in With(request[r].email),
               user' = [user EXCEPT ![u].password = w]
        PROVE  OwnInv'
    <3>1. u \in Accounts /\ Present(u) /\ user[u] \in UserRow /\ request[r].email \in held[u]
      BY <2>6, OwnRow DEF With
    <3>2. PICK row : row = [user[u] EXCEPT !.password = w]
      OBVIOUS
    <3>3. /\ row \in UserRow /\ row.email = user[u].email /\ row.verified = user[u].verified
          /\ row.password = w
      BY <3>1, <3>2 DEF UserRow, Choosers
    <3>4. user' = [user EXCEPT ![u] = row]
      BY <2>6, <3>2
    <3>5. AddressesKept => w = u
      BY <2>2, <2>3, <3>1 DEF AddressesKept
    <3>6. request' = [request EXCEPT ![r] = Idle] /\ UNCHANGED <<held, ucode, mail, inbox>>
      BY <2>6 DEF PasswordUpdate, Finish, post, history
    <3>7. Idle.pc \notin OwnPcs
      BY IdleState DEF OwnPcs
    <3> QED
      BY <3>1, <3>3, <3>4, <3>5, <3>6, <3>7, OwnWrites
  <2>7. CASE PasswordCheck(r)
    BY <2>4, <2>5, <2>7 DEF PasswordCheck, nothing, tables, post, history
  <2>8. CASE PasswordUpdate(r)
    BY <2>3, <2>4, <2>6, <2>8 DEF PasswordUpdate, post, history
  <2> QED
    BY <1>2, <2>7, <2>8
<1> QED
  BY <1>1, <1>2

(* Codes that are made, and deleted.                                       *)
LEMMA OwnCodes ==
  ASSUME AInv, OwnInv, NEW r \in Requests, NEW c \in Codes, NEW st,
         UNCHANGED <<user, held, mail, inbox>>, request' = [request EXCEPT ![r] = st],
         ucode[c] # NULL => ucode'[c] \in {ucode[c], Gone},
         \A d \in Codes : d # c => ucode'[d] = ucode[d],
         AddressesKept => OwnOf(st)'
  PROVE  OwnInv'
<1>1. Grown
  BY DEF Grown, OwnInv, HeldInv
<1>2. request'[r] = st /\ \A q \in Requests : q # r => request'[q] = request[q]
  BY DEF AInv, AType
<1>3. AddressesKept' => OwnOf(request[r])'
  BY <1>1, <1>2, Grows DEF OwnOf
<1> QED
  BY <1>1, <1>2, <1>3, OwnKept

LEMMA InsertedCode ==
  ASSUME CodeInv, NEW c \in Codes, NEW email \in Emails, NEW expired_at,
         InsertCode(c, email, expired_at)
  PROVE  /\ ucode[c] = NULL /\ ucode'[c].email = email
         /\ ucode'[c] = [email |-> email, expired_at |-> expired_at]
         /\ \A d \in Codes : d # c => ucode'[d] = ucode[d]
BY DEF InsertCode, CodeInv

LEMMA MadeCode ==
  ASSUME AInv, CodeInv, OwnInv, NEW r \in Requests, NEW c \in Codes, NEW email \in Emails,
         UNCHANGED <<user, held, mail, inbox>>,
         \E expired_at \in Nat : InsertCode(c, email, expired_at),
         \E st : /\ st.pc \in {"register.mail", "otp.mail"} /\ st.code = c
                 /\ AddressesKept => Together(st.to, email)
                 /\ request' = [request EXCEPT ![r] = st]
  PROVE  OwnInv'
<1>1. PICK expired_at \in Nat : InsertCode(c, email, expired_at)
  OBVIOUS
<1>2. PICK st : /\ st.pc \in {"register.mail", "otp.mail"} /\ st.code = c
                /\ AddressesKept => Together(st.to, email)
                /\ request' = [request EXCEPT ![r] = st]
  OBVIOUS
<1>3. /\ ucode[c] = NULL /\ ucode'[c].email = email
      /\ ucode'[c] = [email |-> email, expired_at |-> expired_at]
      /\ \A d \in Codes : d # c => ucode'[d] = ucode[d]
  BY <1>1, InsertedCode
<1>4. ucode'[c] # NULL
  BY <1>3, RowsAssumption DEF UcodeRow
<1>5. AddressesKept => Posted(st.to, c)'
  BY <1>2, <1>3, <1>4 DEF Posted, Together
<1>6. AddressesKept => OwnOf(st)'
  BY <1>2, <1>5 DEF OwnOf
<1> QED
  BY <1>2, <1>3, <1>6, OwnCodes

LEMMA MadeCodesOwn ==
  ASSUME AInv, CodeInv, OwnInv, NEW r \in Requests, NEW c \in Codes,
         RegisterCode(r, c) \/ OtpCreate(r, c)
  PROVE  OwnInv'
<1>1. CASE RegisterCode(r, c)
  <2>1. request[r] \in RegisterState
    BY <1>1, RequestAt, Shapes DEF RegisterCode, At, RegisterPcs
  <2>2. PICK email \in Emails : email = request[r].to
    BY <2>1 DEF RegisterState
  <2>3. PICK st : st = [request[r] EXCEPT !.pc = "register.mail", !.code = c]
    OBVIOUS
  <2>4. st.pc = "register.mail" /\ st.code = c /\ st.to = email
    BY <2>1, <2>2, <2>3 DEF RegisterState
  <2>5. PICK expired_at \in Nat : InsertCode(c, email, expired_at)
    BY <1>1, <2>2, UsersAssumption DEF RegisterCode, AInv, AType
  <2>6. request' = [request EXCEPT ![r] = st] /\ UNCHANGED <<user, held, mail, inbox>>
    BY <1>1, <2>3 DEF RegisterCode, Continue, post, history
  <2>7. Together(st.to, email)
    BY <2>4 DEF Together
  <2> QED
    BY <2>4, <2>5, <2>6, <2>7, MadeCode
<1>2. CASE OtpCreate(r, c)
  <2>1. request[r] \in OtpState /\ request[r].pc = "otp.create"
    BY <1>2, RequestAt, Shapes DEF OtpCreate, At
  <2>2. PICK u \in Accounts : u = request[r].user /\ Present(u)
    BY <1>2, <2>1 DEF OtpState, OtpCreate
  <2>3. user[u].email \in held[u] /\ user[u].email \in Emails
    BY <2>2, OwnRow DEF UserRow
  <2>4. PICK email \in Emails :
          email = IF request[r].email = NULL THEN user[u].email ELSE request[r].email
    BY <2>1, <2>3 DEF OtpState
  <2>5. PICK expired_at \in Nat : InsertCode(c, email, expired_at)
    BY <1>2, <2>1, <2>2, <2>4 DEF OtpCreate, OtpState
  <2>6. AddressesKept => Together(request[r].to, email)
    BY <2>1, <2>2, <2>3, <2>4 DEF OwnInv, OwnOf, Together
  <2>7. PICK st : st = [pc |-> "otp.mail", to |-> request[r].to, code |-> c]
    OBVIOUS
  <2>8. st.pc = "otp.mail" /\ st.code = c /\ st.to = request[r].to
    BY <2>7
  <2>9. request' = [request EXCEPT ![r] = st] /\ UNCHANGED <<user, held, mail, inbox>>
    BY <1>2, <2>7 DEF OtpCreate, Continue, post, history
  <2> QED
    BY <2>5, <2>6, <2>8, <2>9, MadeCode
<1> QED
  BY <1>1, <1>2

LEMMA LeftCodesOwn ==
  ASSUME AInv, CodeInv, OwnInv, NEW r \in Requests,
         OtpOrphan(r) \/ ResetDelete(r) \/ ChangeEmailDelete(r)
  PROVE  OwnInv'
<1>1. CASE OtpOrphan(r)
  <2>1. PICK st : st = [pc |-> "otp.mail", to |-> request[r].to, code |-> NULL]
    OBVIOUS
  <2>2. st.pc = "otp.mail" /\ st.code = NULL
    BY <2>1
  <2>3. OwnOf(st)
    BY <2>2 DEF OwnOf, Posted
  <2> QED
    BY <1>1, <2>1, <2>3, OwnGoes DEF OtpOrphan, Continue, nothing, tables, post, history
<1>2. CASE ResetDelete(r) \/ ChangeEmailDelete(r)
  <2>1. request[r] \in ResetState \/ request[r] \in MoveState
    BY <1>2, RequestAt, Shapes DEF ResetDelete, ChangeEmailDelete, At
  <2>2. PICK c \in Codes : c = request[r].code
    BY <2>1 DEF ResetState, MoveState
  <2>3. /\ DeleteToken(c, request[r].email) /\ request' = [request EXCEPT ![r] = Idle]
        /\ UNCHANGED <<user, held, mail, inbox>>
    BY <1>2, <2>2 DEF ResetDelete, ChangeEmailDelete, Finish, post, history
  <2>4. /\ ucode'[c] \in {ucode[c], Gone}
        /\ \A d \in Codes : d # c => ucode'[d] = ucode[d]
    BY <2>3 DEF DeleteToken, CodeInv
  <2>5. OwnOf(Idle)'
    BY IdleState, Unowned DEF OwnPcs
  <2> QED
    BY <2>3, <2>4, <2>5, OwnCodes
<1> QED
  BY <1>1, <1>2

(* Rows are written.                                                       *)
Other(row, new) ==
  \/ new = [row EXCEPT !.billing_id = TRUE]
  \/ \E x \in Decisions : new = [row EXCEPT !.is_accepted = x]
  \/ new = [row EXCEPT !.is_restricted = TRUE, !.status = FALSE]
  \/ new = [row EXCEPT !.is_restricted = FALSE]
  \/ new = [row EXCEPT !.approved = TRUE]
  \/ new = [row EXCEPT !.approved = FALSE]

(* Columns other than the password and the verification.                   *)
LEMMA OtherColumns ==
  ASSUME NEW row \in UserRow, NEW new, Other(row, new)
  PROVE  /\ new \in UserRow /\ new.email = row.email /\ new.verified = row.verified
         /\ new.password = row.password
<1>1. CASE new = [row EXCEPT !.billing_id = TRUE]
  BY <1>1 DEF UserRow
<1>2. CASE \E x \in Decisions : new = [row EXCEPT !.is_accepted = x]
  BY <1>2 DEF UserRow
<1>3. CASE new = [row EXCEPT !.is_restricted = TRUE, !.status = FALSE]
  BY <1>3 DEF UserRow
<1>4. CASE new = [row EXCEPT !.is_restricted = FALSE]
  BY <1>4 DEF UserRow
<1>5. CASE new = [row EXCEPT !.approved = TRUE]
  BY <1>5 DEF UserRow
<1>6. CASE new = [row EXCEPT !.approved = FALSE]
  BY <1>6 DEF UserRow
<1> QED
  BY <1>1, <1>2, <1>3, <1>4, <1>5, <1>6 DEF Other

LEMMA OthersOwn ==
  ASSUME AInv, OwnInv, NEW r \in Requests, NEW u \in Accounts, Present(u),
         \E st : st.pc \notin OwnPcs /\ request' = [request EXCEPT ![r] = st],
         UNCHANGED <<held, ucode, mail, inbox>>,
         \E row : Other(user[u], row) /\ user' = [user EXCEPT ![u] = row]
  PROVE  OwnInv'
<1>1. user[u] \in UserRow
  BY OwnRow
<1>2. PICK row : Other(user[u], row) /\ user' = [user EXCEPT ![u] = row]
  OBVIOUS
<1>3. /\ row \in UserRow /\ row.email = user[u].email /\ row.verified = user[u].verified
      /\ row.password = user[u].password
  BY <1>1, <1>2, OtherColumns
<1>4. PICK st : st.pc \notin OwnPcs /\ request' = [request EXCEPT ![r] = st]
  OBVIOUS
<1> QED
  BY <1>2, <1>3, <1>4, OwnWrites

LEMMA IdlePasses ==
  ASSUME NEW r \in Requests, Finish(r)
  PROVE  \E st : st.pc \notin OwnPcs /\ request' = [request EXCEPT ![r] = st]
BY IdleState DEF Finish, OwnPcs

LEMMA BillingOwn ==
  ASSUME AInv, OwnInv, NEW r \in Requests,
         RegisterBilling(r) \/ SocialBilling(r) \/ DecideUpdate(r)
  PROVE  OwnInv'
<1>1. CASE RegisterBilling(r)
  <2>1. request[r] \in RegisterState
    BY <1>1, RequestAt, Shapes DEF RegisterBilling, At, RegisterPcs
  <2>2. PICK u \in Accounts : u = request[r].user
    BY <2>1 DEF RegisterState
  <2>3. PICK pc : pc \in RegisterPcs \ {"register.mail"} /\ Goto(r, pc)
    BY <1>1 DEF RegisterBilling, RegisterPcs
  <2>4. \E st : st.pc \notin OwnPcs /\ request' = [request EXCEPT ![r] = st]
    BY <2>3, GotoAt DEF RegisterPcs, OwnPcs
  <2>5. Present(u) /\ user' = [user EXCEPT ![u].billing_id = TRUE]
    BY <1>1, <2>2 DEF RegisterBilling
  <2>6. UNCHANGED <<held, ucode, mail, inbox>>
    BY <1>1 DEF RegisterBilling, post, history
  <2>7. \E row : Other(user[u], row) /\ user' = [user EXCEPT ![u] = row]
    BY <2>5 DEF Other
  <2> QED
    BY <2>4, <2>5, <2>6, <2>7, OthersOwn
<1>2. CASE SocialBilling(r)
  <2>1. request[r] \in SessionState
    BY <1>2, RequestAt, Shapes DEF SocialBilling, At, SessionPcs
  <2>2. PICK u \in Accounts : u = request[r].user
    BY <2>1 DEF SessionState
  <2>3. Finish(r) /\ UNCHANGED <<held, ucode, mail, inbox>>
    BY <1>2 DEF SocialBilling, post, history
  <2>4. CASE Present(u)
    <3>1. \E row : Other(user[u], row) /\ user' = [user EXCEPT ![u] = row]
      BY <1>2, <2>2, <2>4 DEF SocialBilling, Other
    <3> QED
      BY <2>3, <2>4, <3>1, IdlePasses, OthersOwn
  <2>5. CASE ~Present(u)
    BY <1>2, <2>2, <2>3, <2>5, OwnFinishes DEF SocialBilling
  <2> QED
    BY <2>4, <2>5
<1>3. CASE DecideUpdate(r)
  <2>1. request[r] \in DecideState
    BY <1>3, RequestAt, Shapes DEF DecideUpdate, At
  <2>2. PICK u \in Accounts, x \in Decisions : u = request[r].user /\ x = request[r].is_accepted
    BY <2>1 DEF DecideState
  <2>3. UNCHANGED <<held, ucode, mail, inbox>>
    BY <1>3 DEF DecideUpdate, post, history
  <2>4. CASE Present(u) /\ user' = [user EXCEPT ![u].is_accepted = x] /\ Goto(r, "decide.mail")
    <3>1. \E st : st.pc \notin OwnPcs /\ request' = [request EXCEPT ![r] = st]
      BY <2>4, GotoAt DEF OwnPcs
    <3>2. \E row : Other(user[u], row) /\ user' = [user EXCEPT ![u] = row]
      BY <2>4 DEF Other
    <3> QED
      BY <2>3, <2>4, <3>1, <3>2, OthersOwn
  <2>5. CASE Finish(r) /\ UNCHANGED user
    BY <2>3, <2>5, OwnFinishes
  <2> QED
    BY <1>3, <2>2, <2>4, <2>5 DEF DecideUpdate
<1> QED
  BY <1>1, <1>2, <1>3

LEMMA RestrictionsOwn ==
  ASSUME AInv, OwnInv, NEW r \in Requests,
         \/ RestrictUpdate(r) \/ UnrestrictUpdate(r) \/ ApproveUpdate(r) \/ RejectUpdate(r)
         \/ DeleteRow(r)
  PROVE  OwnInv'
<1>1. /\ request[r].pc \in ModeratePcs /\ Finish(r) /\ UNCHANGED <<held, ucode, mail, inbox>>
  BY DEF RestrictUpdate, UnrestrictUpdate, ApproveUpdate, RejectUpdate, DeleteRow, UpdateUser,
         At, ModeratePcs, post, history
<1>2. request[r] \in ModerateState
  BY <1>1, RequestAt, Shapes
<1>3. PICK u \in Accounts : u = request[r].user
  BY <1>2 DEF ModerateState
<1>4. CASE ~Present(u)
  <2>1. UNCHANGED user
    BY <1>3, <1>4 DEF RestrictUpdate, UnrestrictUpdate, ApproveUpdate, RejectUpdate, DeleteRow,
                      UpdateUser
  <2> QED
    BY <1>1, <2>1, OwnFinishes
<1>5. CASE Present(u) /\ DeleteRow(r)
  <2>1. user' = [user EXCEPT ![u] = Gone]
    BY <1>3, <1>5 DEF DeleteRow, UpdateUser
  <2>2. user'[u] = Gone /\ \A v \in Accounts : v # u => user'[v] = user[v]
    BY <2>1 DEF AInv, AType
  <2>3. RowHeld(u)' /\ ~Present(u)'
    BY <2>2, UsersAssumption DEF RowHeld, Present
  <2>4. \A v \in Accounts : held'[v] = held[v]
    BY <1>1
  <2> QED
    BY <1>1, <2>2, <2>3, <2>4, IdlePasses, StillGrown, OwnPasses
<1>6. CASE Present(u) /\ ~DeleteRow(r)
  <2>1. \E row : Other(user[u], row) /\ user' = [user EXCEPT ![u] = row]
    BY <1>3, <1>6 DEF RestrictUpdate, UnrestrictUpdate, ApproveUpdate, RejectUpdate, UpdateUser,
                      Other
  <2> QED
    BY <1>1, <1>6, <2>1, IdlePasses, OthersOwn
<1> QED
  BY <1>4, <1>5, <1>6

(* A verification is written of the letter, and a new password of its      *)
(* reader, to the account both belong to.                                  *)
LEMMA CodeWritesOwn ==
  ASSUME AInv, OwnInv, NEW r \in Requests, VerifyUpdate(r) \/ ResetUpdate(r)
  PROVE  OwnInv'
<1>1. CASE VerifyUpdate(r)
  <2>1. request[r] \in VerifyState
    BY <1>1, RequestAt, Shapes DEF VerifyUpdate, At
  <2>2. PICK u \in Accounts, email \in Emails : u = request[r].user /\ email = request[r].letter
    BY <2>1 DEF VerifyState
  <2>3. AddressesKept => email \in held[u]
    BY <1>1, <2>2 DEF VerifyUpdate, At, OwnInv, OwnOf
  <2>4. Finish(r) /\ UNCHANGED <<held, ucode, mail, inbox>>
    BY <1>1 DEF VerifyUpdate, post, history
  <2>5. CASE Present(u)
    <3>1. user[u] \in UserRow
      BY <2>5, OwnRow
    <3>2. PICK row : row = [user[u] EXCEPT !.verified = email]
      OBVIOUS
    <3>3. /\ row \in UserRow /\ row.email = user[u].email /\ row.verified = email
          /\ row.password = user[u].password
      BY <3>1, <3>2 DEF UserRow
    <3>4. user' = [user EXCEPT ![u] = row]
      BY <1>1, <2>2, <2>5, <3>2 DEF VerifyUpdate
    <3> QED
      BY <2>3, <2>4, <2>5, <3>3, <3>4, IdlePasses, OwnWrites
  <2>6. CASE ~Present(u)
    BY <1>1, <2>2, <2>4, <2>6, OwnFinishes DEF VerifyUpdate
  <2> QED
    BY <2>5, <2>6
<1>2. CASE ResetUpdate(r)
  <2>1. request[r] \in ResetState
    BY <1>2, RequestAt, Shapes DEF ResetUpdate, At
  <2>2. PICK email \in Emails, to \in Emails : email = request[r].email /\ to = request[r].letter
    BY <2>1 DEF ResetState
  <2>3. AddressesKept => Together(to, email)
    BY <1>2, <2>2 DEF ResetUpdate, At, OwnInv, OwnOf
  <2>4. UNCHANGED <<held, ucode, mail, inbox>>
    BY <1>2 DEF ResetUpdate, post
  <2>5. ASSUME NEW u \in With(email), user' = [user EXCEPT ![u].password = to],
               Goto(r, "reset.delete")
        PROVE  OwnInv'
    <3>1. u \in Accounts /\ Present(u) /\ user[u] \in UserRow /\ email \in held[u]
      BY <2>5, OwnRow DEF With
    <3>2. PICK row : row = [user[u] EXCEPT !.password = to]
      OBVIOUS
    <3>3. /\ row \in UserRow /\ row.email = user[u].email /\ row.verified = user[u].verified
          /\ row.password = to
      BY <3>1, <3>2 DEF UserRow, Choosers
    <3>4. user' = [user EXCEPT ![u] = row]
      BY <2>5, <3>2
    <3>5. AddressesKept => to \in held[u]
      BY <2>3, <3>1, OneHolder
    <3>6. \E st : st.pc \notin OwnPcs /\ request' = [request EXCEPT ![r] = st]
      BY <2>5, GotoAt DEF OwnPcs
    <3> QED
      BY <2>4, <3>1, <3>3, <3>4, <3>5, <3>6, OwnWrites
  <2>6. CASE UNCHANGED user /\ Finish(r)
    BY <2>4, <2>6, OwnFinishes
  <2> QED
    BY <1>2, <2>2, <2>5, <2>6 DEF ResetUpdate
<1> QED
  BY <1>1, <1>2

(* Rows are made, and moved.                                               *)
LEMMA InsertsOwn ==
  ASSUME AInv, OwnInv, NEW r \in Requests, NEW u \in Accounts,
         RegisterCreate(r, u) \/ SocialCreate(r, u) \/ AdminCreateInsert(r, u)
  PROVE  OwnInv'
<1>1. CASE RegisterCreate(r, u)
  <2>1. request[r] \in CreateState
    BY <1>1, RequestAt, Shapes DEF RegisterCreate, At
  <2>2. PICK email \in Emails, type \in Types : email = request[r].email /\ type = request[r].type
    BY <2>1 DEF CreateState
  <2>3. PICK st : st = [pc |-> "register.billing", user |-> u, to |-> request[r].email,
                        type |-> request[r].type, code |-> NULL]
    OBVIOUS
  <2>4. st.pc \notin OwnPcs
    BY <2>3 DEF OwnPcs
  <2>5. Insert(u, NewUser(email, type, u, NULL)) /\ request' = [request EXCEPT ![r] = st]
    BY <1>1, <2>2, <2>3 DEF RegisterCreate, Continue
  <2>6. UNCHANGED <<ucode, mail, inbox>>
    BY <1>1 DEF RegisterCreate, post
  <2> QED
    BY <2>4, <2>5, <2>6, OwnInserts
<1>2. CASE SocialCreate(r, u)
  <2>1. request[r] \in SocialState
    BY <1>2, RequestAt, Shapes DEF SocialCreate, At
  <2>2. PICK p \in Profiles : p = request[r].profile
    BY <2>1 DEF SocialState
  <2>3. PICK email \in Emails : email = p[2]
    BY <2>2 DEF Profiles
  <2>4. PICK type \in Types : type = IF p[1] = "google" THEN "student" ELSE "user"
    BY DEF Types
  <2>5. PICK st : st = [pc |-> "social.details", user |-> u]
    OBVIOUS
  <2>6. st.pc \notin OwnPcs
    BY <2>5 DEF OwnPcs
  <2>7. Insert(u, NewUser(email, type, NULL, p)) /\ request' = [request EXCEPT ![r] = st]
    BY <1>2, <2>2, <2>3, <2>4, <2>5 DEF SocialCreate, Continue
  <2>8. UNCHANGED <<ucode, mail, inbox>>
    BY <1>2 DEF SocialCreate, post
  <2> QED
    BY <2>6, <2>7, <2>8, OwnInserts
<1>3. CASE AdminCreateInsert(r, u)
  <2>1. request[r] \in AdminCreateState
    BY <1>3, RequestAt, Shapes DEF AdminCreateInsert, At
  <2>2. PICK email \in Emails, type \in Types : email = request[r].email /\ type = request[r].type
    BY <2>1 DEF AdminCreateState
  <2>3. Insert(u, NewUser(email, type, "admin", NULL)) /\ request' = [request EXCEPT ![r] = Idle]
    BY <1>3, <2>2 DEF AdminCreateInsert, Finish
  <2>4. UNCHANGED <<ucode, mail, inbox>>
    BY <1>3 DEF AdminCreateInsert, post
  <2>5. Idle.pc \notin OwnPcs
    BY IdleState DEF OwnPcs
  <2> QED
    BY <2>3, <2>4, <2>5, OwnInserts
<1> QED
  BY <1>1, <1>2, <1>3

LEMMA MovesOwn ==
  ASSUME AInv, OwnInv, NEW r \in Requests, ChangeEmailUpdate(r)
  PROVE  OwnInv'
<1>1. request[r] \in MoveState
  BY RequestAt, Shapes DEF ChangeEmailUpdate, At
<1>2. PICK u \in Accounts, email \in Emails : u = request[r].user /\ email = request[r].email
  BY <1>1 DEF MoveState
<1>3. UNCHANGED <<ucode, mail, inbox>>
  BY DEF ChangeEmailUpdate, post
<1>4. CASE Present(u) /\ SetEmail(u, email) /\ Goto(r, "move.delete")
  <2>1. user[u] \in UserRow
    BY <1>4, OwnRow
  <2>2. PICK st : st.pc = "move.delete" /\ request' = [request EXCEPT ![r] = st]
    BY <1>4, GotoAt
  <2>3. st.pc \notin OwnPcs
    BY <2>2 DEF OwnPcs
  <2>4. PICK row : row = [user[u] EXCEPT !.email = email]
    OBVIOUS
  <2>5. /\ row \in UserRow /\ row.email = email /\ row.verified = user[u].verified
        /\ row.password = user[u].password
    BY <2>1, <2>4 DEF UserRow
  <2>6. PICK new \in SUBSET Emails : new = {email}
    OBVIOUS
  <2>7. row.email \in new \cup {user[u].email}
    BY <2>5, <2>6
  <2>8. user' = [user EXCEPT ![u] = row] /\ held' = [held EXCEPT ![u] = held[u] \cup new]
    BY <1>4, <2>4, <2>6 DEF SetEmail
  <2> QED
    BY <1>3, <1>4, <2>2, <2>3, <2>5, <2>7, <2>8, OwnMoves
<1>5. CASE UNCHANGED <<user, held>> /\ Finish(r)
  BY <1>3, <1>5, OwnFinishes
<1> QED
  BY <1>2, <1>4, <1>5 DEF ChangeEmailUpdate

Given(email) == {email} \ {NULL}
Blank(email) == Given(email) = {}

(* The address, the type and the password of a row, by an administrator.   *)
LEMMA AdminRow ==
  ASSUME AInv, NEW r \in Requests, AdminUpdateRow(r)
  PROVE  \/ UNCHANGED <<user, held>>
         \/ \E u \in Accounts, row \in UserRow, new \in SUBSET Emails :
              /\ Present(u) /\ user' = [user EXCEPT ![u] = row]
              /\ held' = [held EXCEPT ![u] = held[u] \cup new]
              /\ row.email \in new \cup {user[u].email}
              /\ row.password \in {user[u].password, "admin"}
              /\ row.verified = user[u].verified /\ row.is_accepted = user[u].is_accepted
              /\ row.status = user[u].status /\ row.is_restricted = user[u].is_restricted
<1>1. At(r, "admin.update")
  BY Zenon DEF AdminUpdateRow
<1>2. \/ UNCHANGED <<user, held>>
      \/ /\ Present(request[r].user)
         /\ user' = [user EXCEPT
               ![request[r].user].email =
                 IF Blank(request[r].email) THEN @ ELSE request[r].email,
               ![request[r].user].type = request[r].type,
               ![request[r].user].password = IF request[r].password THEN "admin" ELSE @]
         /\ held' = [held EXCEPT ![request[r].user] = @ \cup Given(request[r].email)]
  BY Zenon DEF AdminUpdateRow, Given, Blank
<1>3. request[r] \in AdminUpdateState
  BY <1>1, RequestAt, Shapes DEF At
<1>4. PICK u \in Accounts, email \in Emails \cup {NULL}, type \in Types :
        u = request[r].user /\ email = request[r].email /\ type = request[r].type
  BY <1>3 DEF AdminUpdateState
<1>5. PICK new \in SUBSET Emails : new = Given(email)
  BY DEF Given
<1>6. ~Blank(email) => email \in new
  BY <1>5 DEF Given, Blank
<1>7. \/ UNCHANGED <<user, held>>
      \/ /\ Present(u)
         /\ user' = [user EXCEPT
               ![u].email = IF Blank(email) THEN @ ELSE email,
               ![u].type = type,
               ![u].password = IF request[r].password THEN "admin" ELSE @]
         /\ held' = [held EXCEPT ![u] = @ \cup new]
  BY <1>2, <1>4, <1>5, Zenon
<1>8. ASSUME Present(u),
             user' = [user EXCEPT
               ![u].email = IF Blank(email) THEN @ ELSE email,
               ![u].type = type,
               ![u].password = IF request[r].password THEN "admin" ELSE @]
      PROVE  \E row \in UserRow :
               /\ user' = [user EXCEPT ![u] = row]
               /\ row.email \in new \cup {user[u].email}
               /\ row.password \in {user[u].password, "admin"}
               /\ row.verified = user[u].verified /\ row.is_accepted = user[u].is_accepted
               /\ row.status = user[u].status /\ row.is_restricted = user[u].is_restricted
  <2>1. user[u] \in UserRow /\ user[u].email \in Emails
    BY <1>8, SeenRow DEF AInv
  <2>2. PICK address \in Emails : address = IF Blank(email) THEN user[u].email ELSE email
    BY <1>6, <2>1
  <2>3. PICK password \in Choosers :
          password = IF request[r].password THEN "admin" ELSE user[u].password
    BY <2>1 DEF UserRow, Choosers
  <2>4. PICK row :
          row = [user[u] EXCEPT !.email = address, !.type = type, !.password = password]
    OBVIOUS
  <2>5. /\ row \in UserRow /\ row.email = address /\ row.verified = user[u].verified
        /\ row.password = password /\ row.is_accepted = user[u].is_accepted
        /\ row.status = user[u].status /\ row.is_restricted = user[u].is_restricted
    BY <2>1, <2>4 DEF UserRow
  <2>6. user' = [user EXCEPT ![u] = row]
    BY <1>8, <2>1, <2>2, <2>3, <2>4 DEF UserRow, AInv, AType
  <2>7. row.email \in new \cup {user[u].email} /\ row.password \in {user[u].password, "admin"}
    BY <1>6, <2>2, <2>3, <2>5
  <2> QED
    BY <2>5, <2>6, <2>7
<1>9. CASE UNCHANGED <<user, held>>
  BY <1>9
<1>10. CASE /\ Present(u)
            /\ user' = [user EXCEPT
                  ![u].email = IF Blank(email) THEN @ ELSE email,
                  ![u].type = type,
                  ![u].password = IF request[r].password THEN "admin" ELSE @]
            /\ held' = [held EXCEPT ![u] = @ \cup new]
  <2>1. Present(u) /\ held' = [held EXCEPT ![u] = held[u] \cup new]
    BY <1>10, Zenon
  <2>2. \E row \in UserRow :
               /\ user' = [user EXCEPT ![u] = row]
               /\ row.email \in new \cup {user[u].email}
               /\ row.password \in {user[u].password, "admin"}
               /\ row.verified = user[u].verified /\ row.is_accepted = user[u].is_accepted
               /\ row.status = user[u].status /\ row.is_restricted = user[u].is_restricted
    BY <1>8, <1>10, Zenon
  <2> QED
    BY <2>1, <2>2
<1> QED
  BY <1>7, <1>9, <1>10, Zenon

LEMMA AdminMovesOwn ==
  ASSUME AInv, OwnInv, NEW r \in Requests, AdminUpdateRow(r)
  PROVE  OwnInv'
<1>1. Finish(r) /\ UNCHANGED <<ucode, mail, inbox>>
  BY Zenon DEF AdminUpdateRow, post
<1>2. Idle.pc \notin OwnPcs /\ request' = [request EXCEPT ![r] = Idle]
  BY <1>1, IdleState DEF OwnPcs, Finish
<1>3. CASE UNCHANGED <<user, held>>
  BY <1>1, <1>3, OwnFinishes
<1>4. ASSUME NEW u \in Accounts, NEW row \in UserRow, NEW new \in SUBSET Emails, Present(u),
             user' = [user EXCEPT ![u] = row], held' = [held EXCEPT ![u] = held[u] \cup new],
             row.email \in new \cup {user[u].email}, row.verified = user[u].verified,
             row.password \in {user[u].password, "admin"}
      PROVE  OwnInv'
  BY <1>1, <1>2, <1>4, OwnMoves
<1> QED
  BY <1>3, <1>4, AdminRow

(* It posts a letter, and ends.                                            *)
LEMMA OwnPosts ==
  ASSUME AInv, OwnInv, NEW r \in Requests, Finish(r),
         NEW letter \in CodeLetter \cup DecisionLetter, mail' = Append(mail, letter),
         UNCHANGED <<user, held, ucode, inbox>>, AddressesKept => LetterOwn(letter)
  PROVE  OwnInv'
<1>1. Grown
  BY StillGrown
<1>2. ASSUME AddressesKept' PROVE MailOwn'
  <2>1. AddressesKept /\ MailOwn /\ LetterOwn(letter)
    BY <1>1, <1>2, Grows DEF OwnInv
  <2>2. \A l : LetterOwn(l) => LetterOwn(l)'
    BY <1>1, Grows
  <2>3. \A i \in 1..Len(mail') : mail'[i] = letter \/ (i \in 1..Len(mail) /\ mail'[i] = mail[i])
    BY DEF AInv, AType
  <2>4. ASSUME NEW i \in 1..Len(mail') PROVE LetterOwn(mail[i])'
    <3>1. PICK l : l = mail'[i] /\ LetterOwn(l)
      BY <2>1, <2>3 DEF MailOwn
    <3>2. LetterOwn(l)'
      BY <2>2, <3>1
    <3> QED
      BY <3>1, <3>2 DEF LetterOwn
  <2>5. \A l \in inbox' : LetterOwn(l)'
    BY <2>1, <2>2 DEF MailOwn
  <2> QED
    BY <2>4, <2>5 DEF MailOwn
<1>3. \A q \in Requests : request'[q] = request[q] \/ request'[q] = Idle
  BY DEF Finish, AInv, AType
<1>4. \A q \in Requests : request'[q] = Idle => OwnOf(request[q])'
  BY IdleState DEF OwnOf
<1> QED
  BY <1>1, <1>2, <1>3, <1>4, OwnKept

LEMMA PostsOwn ==
  ASSUME AInv, OwnInv, NEW r \in Requests, RegisterMail(r) \/ OtpMail(r) \/ DecideMail(r)
  PROVE  OwnInv'
<1>1. Finish(r) /\ UNCHANGED <<user, held, ucode, inbox>>
  BY DEF RegisterMail, OtpMail, DecideMail, tables, history
<1>2. CASE RegisterMail(r) \/ OtpMail(r)
  <2>1. request[r].to \in Emails /\ request[r].code \in Codes \cup {NULL}
    <3>1. CASE RegisterMail(r)
      <4>1. request[r] \in RegisterState
        BY <3>1, RequestAt, Shapes DEF RegisterMail, At, RegisterPcs
      <4> QED
        BY <4>1 DEF RegisterState
    <3>2. CASE OtpMail(r)
      <4>1. request[r] \in OtpMailState
        BY <3>2, RequestAt, Shapes DEF OtpMail, At
      <4> QED
        BY <4>1 DEF OtpMailState
    <3> QED
      BY <1>2, <3>1, <3>2
  <2>2. PICK to \in Emails, code \in Codes \cup {NULL} : to = request[r].to /\ code = request[r].code
    BY <2>1
  <2>3. AddressesKept => Posted(to, code)
    BY <1>2, <2>2 DEF OwnInv, OwnOf, RegisterMail, OtpMail, At
  <2>4. PICK letter : letter = [to |-> to, code |-> code]
    OBVIOUS
  <2>5. letter \in CodeLetter /\ (AddressesKept => LetterOwn(letter))
    BY <2>3, <2>4 DEF CodeLetter, LetterOwn
  <2>6. mail' = Append(mail, letter)
    BY <1>2, <2>2, <2>4 DEF RegisterMail, OtpMail, Enqueue
  <2> QED
    BY <1>1, <2>5, <2>6, OwnPosts
<1>3. CASE DecideMail(r)
  <2>1. request[r] \in DecideState
    BY <1>3, RequestAt, Shapes DEF DecideMail, At
  <2>2. PICK letter : letter = [to |-> request[r].to, about |-> request[r].user,
                                is_accepted |-> request[r].is_accepted]
    OBVIOUS
  <2>3. letter \in DecisionLetter /\ LetterOwn(letter)
    BY <2>1, <2>2 DEF DecideState, DecisionLetter, LetterOwn
  <2>4. mail' = Append(mail, letter)
    BY <1>3, <2>2 DEF DecideMail, Enqueue
  <2> QED
    BY <1>1, <2>3, <2>4, OwnPosts
<1> QED
  BY <1>2, <1>3

(* The worker delivers what it was given, or loses it.                     *)
LEMMA MailStepOwn ==
  ASSUME AInv, OwnInv, MailNext
  PROVE  OwnInv'
<1>1. /\ mail # <<>> /\ mail' = Tail(mail) /\ UNCHANGED <<user, held, ucode, request>>
      /\ \/ inbox' = inbox
         \/ "code" \in DOMAIN Head(mail) /\ inbox' = inbox \cup {Head(mail)}
  BY DEF MailNext, Deliver, LoseLetter, tables, history
<1>2. Grown
  BY <1>1, StillGrown
<1>3. ASSUME AddressesKept' PROVE MailOwn'
  <2>1. MailOwn
    BY <1>2, <1>3, Grows DEF OwnInv
  <2>2. \A l : LetterOwn(l) => LetterOwn(l)'
    BY <1>2, Grows
  <2>3. /\ 1 \in 1..Len(mail) /\ Head(mail) = mail[1]
        /\ \A i \in 1..Len(mail') : i + 1 \in 1..Len(mail) /\ mail'[i] = mail[i + 1]
    BY <1>1 DEF AInv, AType
  <2>4. ASSUME NEW i \in 1..Len(mail') PROVE LetterOwn(mail[i])'
    <3>1. PICK l : l = mail'[i] /\ LetterOwn(l)
      BY <2>1, <2>3 DEF MailOwn
    <3>2. LetterOwn(l)'
      BY <2>2, <3>1
    <3> QED
      BY <3>1, <3>2 DEF LetterOwn
  <2>5. \A l \in inbox' : LetterOwn(l)
    BY <1>1, <2>1, <2>3 DEF MailOwn
  <2>6. \A l \in inbox' : LetterOwn(l)'
    BY <2>2, <2>5
  <2> QED
    BY <2>4, <2>6 DEF MailOwn
<1> QED
  BY <1>1, <1>2, <1>3, OwnKept

(* Whatever else happens leaves what it finds, or ends requests.           *)
LEMMA QuietOwn ==
  ASSUME AInv, OwnInv,
         \/ UNCHANGED avars \/ LogoutNext \/ Tick \/ Crash
         \/ \E r \in Requests : StatementFails(r)
  PROVE  OwnInv'
<1>1. UNCHANGED <<user, held, ucode, mail, inbox>>
  BY DEF avars, LogoutNext, Logout, Tick, Crash, StatementFails, tables, post, history
<1>2. \A q \in Requests : request'[q] = request[q] \/ request'[q] = Idle
  BY DEF avars, LogoutNext, Logout, Tick, Crash, StatementFails, Finish, AInv, AType
<1>3. \A q \in Requests : request'[q] = Idle => OwnOf(request[q])'
  BY IdleState DEF OwnOf
<1> QED
  BY <1>1, <1>2, <1>3, StillGrown, OwnKept

LEMMA OwnStep == AInv /\ CodeInv /\ OwnInv /\ [Next]_avars => OwnInv'
<1> SUFFICES ASSUME AInv, CodeInv, OwnInv, [Next]_avars PROVE OwnInv'
  OBVIOUS
<1>1. ASSUME AuthNext PROVE OwnInv'
  BY <1>1, ArrivalsOwn, EndingsOwn, AskOwn, PresentOwn, PasswordOwn, MadeCodesOwn,
     LeftCodesOwn, BillingOwn, CodeWritesOwn, InsertsOwn, MovesOwn, PostsOwn
  DEF AuthNext
<1>2. ASSUME ModerationNext PROVE OwnInv'
  BY <1>2, ArrivalsOwn, EndingsOwn, BillingOwn, RestrictionsOwn, InsertsOwn, AdminMovesOwn,
     PostsOwn
  DEF ModerationNext
<1> QED
  BY <1>1, <1>2, MailStepOwn, QuietOwn DEF Next

LEMMA OwnStart == Init => OwnInv
<1> SUFFICES ASSUME Init PROVE OwnInv
  OBVIOUS
<1>1. PICK rows : /\ Left(rows) /\ InitWith(rows) /\ user = rows
                  /\ \A u \in Accounts : Present(u) <=> u \in Rows(rows)
  BY Start
<1>2. /\ held = [u \in Accounts |-> IF user[u] = NULL THEN {} ELSE {user[u].email}]
      /\ mail = <<>> /\ inbox = {} /\ request = [r \in Requests |-> Idle]
  BY <1>1 DEF InitWith
<1>3. \A u \in Accounts : user[u] # NULL => user[u].email \in Emails
  BY <1>1 DEF Left, Rows, UserRow
<1>4. HeldInv
  BY <1>1, <1>2, <1>3 DEF HeldInv, RowHeld, Present
<1>5. \A u \in Accounts : Present(u) => RowOwn(u)
  BY <1>1, <1>2 DEF Left, RowOwn, Present
<1>6. MailOwn
  BY <1>2 DEF MailOwn
<1>7. \A r \in Requests : OwnOf(request[r])
  BY <1>2, IdleState DEF OwnOf
<1> QED
  BY <1>4, <1>5, <1>6, <1>7 DEF OwnInv

(* As long as no address changes hands, the password of an account was     *)
(* chosen by its user, a reader of an address it has had or an             *)
(* administrator, and it was verified by such a reader: the columns        *)
(* 'password' and 'email_verified_at' are written for a code or a login    *)
(* looked up some statements before.                                       *)
THEOREM WritersCorrect == Spec => []WrittenByItsOwn
<1>1. OwnInv => WrittenByItsOwn
  BY DEF OwnInv, RowOwn, WrittenByItsOwn
<1> QED
  BY <1>1, OwnStart, CodeStart, CodeStep, OwnStep, Invariance, PTL DEF Spec

----------------------------------------------------------------------------
(* What administrators are shown.  Of the columns their pages go by, only  *)
(* a decision writes is_accepted; and a row is restricted together with    *)
(* its status, which no statement sets again.                              *)

Edits(old, new) ==
  /\ new \in UserRow
  /\ new.is_accepted = old.is_accepted
  /\ new.status => old.status
  /\ new.is_restricted => old.is_restricted \/ ~new.status

RowMade(new) == new \in UserRow /\ new.is_accepted = "pending" /\ ~new.is_restricted

RowMoves(u) ==
  \/ user'[u] = user[u]
  \/ user[u] = NULL /\ RowMade(user'[u])
  \/ Present(u) /\ user'[u] = Gone
  \/ Present(u) /\ Edits(user[u], user'[u])

(* What the statements but a decision write.                               *)
Column(row, new) ==
  \/ new = [row EXCEPT !.billing_id = TRUE]
  \/ \E x \in Choosers : new = [row EXCEPT !.password = x]
  \/ \E x \in Emails : new = [row EXCEPT !.verified = x]
  \/ \E x \in Emails : new = [row EXCEPT !.email = x]
  \/ new = [row EXCEPT !.is_restricted = TRUE, !.status = FALSE]
  \/ new = [row EXCEPT !.is_restricted = FALSE]
  \/ new = [row EXCEPT !.approved = TRUE]
  \/ new = [row EXCEPT !.approved = FALSE]

LEMMA ColumnEdits ==
  ASSUME NEW row \in UserRow, NEW new, Column(row, new)
  PROVE  Edits(row, new)
<1>1. CASE new = [row EXCEPT !.billing_id = TRUE]
  BY <1>1 DEF UserRow, Edits
<1>2. CASE \E x \in Choosers : new = [row EXCEPT !.password = x]
  BY <1>2 DEF UserRow, Edits
<1>3. CASE \E x \in Emails : new = [row EXCEPT !.verified = x]
  BY <1>3 DEF UserRow, Edits
<1>4. CASE \E x \in Emails : new = [row EXCEPT !.email = x]
  BY <1>4 DEF UserRow, Edits
<1>5. CASE new = [row EXCEPT !.is_restricted = TRUE, !.status = FALSE]
  BY <1>5 DEF UserRow, Edits
<1>6. CASE new = [row EXCEPT !.is_restricted = FALSE]
  BY <1>6 DEF UserRow, Edits
<1>7. CASE new = [row EXCEPT !.approved = TRUE]
  BY <1>7 DEF UserRow, Edits
<1>8. CASE new = [row EXCEPT !.approved = FALSE]
  BY <1>8 DEF UserRow, Edits
<1> QED
  BY <1>1, <1>2, <1>3, <1>4, <1>5, <1>6, <1>7, <1>8 DEF Column

LEMMA ColumnMoves ==
  ASSUME AInv, NEW u \in Accounts, Present(u),
         \E new : Column(user[u], new) /\ user' = [user EXCEPT ![u] = new]
  PROVE  \A v \in Accounts : RowMoves(v)
<1>1. PICK new : Column(user[u], new) /\ user' = [user EXCEPT ![u] = new]
  OBVIOUS
<1>2. Edits(user[u], new)
  BY <1>1, SeenRow, ColumnEdits DEF AInv
<1>3. user'[u] = new /\ \A v \in Accounts : v # u => user'[v] = user[v]
  BY <1>1 DEF AInv, AType
<1> QED
  BY <1>2, <1>3 DEF RowMoves

LEMMA InsertMoves ==
  ASSUME AInv, NEW u \in Accounts, NEW email \in Emails, NEW type \in Types,
         NEW password \in Choosers, NEW provider \in Profiles \cup {NULL},
         Insert(u, NewUser(email, type, password, provider))
  PROVE  \A v \in Accounts : RowMoves(v)
<1>1. PICK row : row = NewUser(email, type, password, provider)
  OBVIOUS
<1>2. RowMade(row)
  BY <1>1, NewUserRow DEF RowMade, NewUser
<1>3. user[u] = NULL /\ user' = [user EXCEPT ![u] = row]
  BY <1>1 DEF Insert
<1>4. user'[u] = row /\ \A v \in Accounts : v # u => user'[v] = user[v]
  BY <1>3 DEF AInv, AType
<1> QED
  BY <1>2, <1>3, <1>4 DEF RowMoves

LEMMA SameMoves == UNCHANGED user => \A v \in Accounts : RowMoves(v)
BY DEF RowMoves

LEMMA InsertsMove ==
  ASSUME AInv, NEW r \in Requests, NEW u \in Accounts,
         RegisterCreate(r, u) \/ SocialCreate(r, u) \/ AdminCreateInsert(r, u)
  PROVE  \A v \in Accounts : RowMoves(v)
<1>1. CASE RegisterCreate(r, u)
  <2>1. request[r] \in CreateState
    BY <1>1, RequestAt, Shapes DEF RegisterCreate, At
  <2>2. PICK email \in Emails, type \in Types : email = request[r].email /\ type = request[r].type
    BY <2>1 DEF CreateState
  <2>3. Insert(u, NewUser(email, type, u, NULL))
    BY <1>1, <2>2 DEF RegisterCreate
  <2> QED
    BY <2>3, InsertMoves DEF Choosers
<1>2. CASE SocialCreate(r, u)
  <2>1. request[r] \in SocialState
    BY <1>2, RequestAt, Shapes DEF SocialCreate, At
  <2>2. PICK p \in Profiles : p = request[r].profile
    BY <2>1 DEF SocialState
  <2>3. PICK email \in Emails : email = p[2]
    BY <2>2 DEF Profiles
  <2>4. PICK type \in Types : type = IF p[1] = "google" THEN "student" ELSE "user"
    BY DEF Types
  <2>5. Insert(u, NewUser(email, type, NULL, p))
    BY <1>2, <2>2, <2>3, <2>4 DEF SocialCreate
  <2> QED
    BY <2>5, InsertMoves DEF Choosers
<1>3. CASE AdminCreateInsert(r, u)
  <2>1. request[r] \in AdminCreateState
    BY <1>3, RequestAt, Shapes DEF AdminCreateInsert, At
  <2>2. PICK email \in Emails, type \in Types : email = request[r].email /\ type = request[r].type
    BY <2>1 DEF AdminCreateState
  <2>3. Insert(u, NewUser(email, type, "admin", NULL))
    BY <1>3, <2>2 DEF AdminCreateInsert
  <2> QED
    BY <2>3, InsertMoves DEF Choosers
<1> QED
  BY <1>1, <1>2, <1>3

LEMMA CodesMove ==
  ASSUME AInv, NEW r \in Requests,
         VerifyUpdate(r) \/ ResetUpdate(r) \/ ChangeEmailUpdate(r) \/ PasswordUpdate(r)
  PROVE  \A v \in Accounts : RowMoves(v)
<1>1. CASE VerifyUpdate(r)
  <2>1. request[r] \in VerifyState
    BY <1>1, RequestAt, Shapes DEF VerifyUpdate, At
  <2>2. PICK u \in Accounts, x \in Emails : u = request[r].user /\ x = request[r].letter
    BY <2>1 DEF VerifyState
  <2>3. CASE Present(u)
    <3>1. \E new : Column(user[u], new) /\ user' = [user EXCEPT ![u] = new]
      BY <1>1, <2>2, <2>3 DEF VerifyUpdate, Column
    <3> QED
      BY <2>3, <3>1, ColumnMoves
  <2>4. CASE ~Present(u)
    BY <1>1, <2>2, <2>4, SameMoves DEF VerifyUpdate
  <2> QED
    BY <2>3, <2>4
<1>2. CASE ResetUpdate(r)
  <2>1. request[r] \in ResetState
    BY <1>2, RequestAt, Shapes DEF ResetUpdate, At
  <2>2. PICK x \in Choosers : x = request[r].letter
    BY <2>1 DEF ResetState, Choosers
  <2>3. ASSUME NEW u \in With(request[r].email), user' = [user EXCEPT ![u].password = x]
        PROVE  \A v \in Accounts : RowMoves(v)
    <3>1. u \in Accounts /\ Present(u)
      BY <2>3 DEF With
    <3>2. \E new : Column(user[u], new) /\ user' = [user EXCEPT ![u] = new]
      BY <2>3 DEF Column
    <3> QED
      BY <3>1, <3>2, ColumnMoves
  <2> QED
    BY <1>2, <2>2, <2>3, SameMoves DEF ResetUpdate
<1>3. CASE ChangeEmailUpdate(r)
  <2>1. request[r] \in MoveState
    BY <1>3, RequestAt, Shapes DEF ChangeEmailUpdate, At
  <2>2. PICK u \in Accounts, x \in Emails : u = request[r].user /\ x = request[r].email
    BY <2>1 DEF MoveState
  <2>3. CASE Present(u) /\ SetEmail(u, x)
    <3>1. \E new : Column(user[u], new) /\ user' = [user EXCEPT ![u] = new]
      BY <2>3 DEF SetEmail, Column
    <3> QED
      BY <2>3, <3>1, ColumnMoves
  <2> QED
    BY <1>3, <2>2, <2>3, SameMoves DEF ChangeEmailUpdate
<1>4. CASE PasswordUpdate(r)
  <2>1. request[r] \in PasswordState
    BY <1>4, RequestAt, Shapes DEF PasswordUpdate, At
  <2>2. PICK x \in Choosers : x = request[r].user
    BY <2>1 DEF PasswordState, Choosers
  <2>3. ASSUME NEW u \in With(request[r].email), user' = [user EXCEPT ![u].password = x]
        PROVE  \A v \in Accounts : RowMoves(v)
    <3>1. u \in Accounts /\ Present(u)
      BY <2>3 DEF With
    <3>2. \E new : Column(user[u], new) /\ user' = [user EXCEPT ![u] = new]
      BY <2>3 DEF Column
    <3> QED
      BY <3>1, <3>2, ColumnMoves
  <2> QED
    BY <1>4, <2>2, <2>3, SameMoves DEF PasswordUpdate
<1> QED
  BY <1>1, <1>2, <1>3, <1>4

LEMMA ColumnsMove ==
  ASSUME AInv, NEW r \in Requests,
         \/ RegisterBilling(r) \/ SocialBilling(r)
         \/ RestrictUpdate(r) \/ UnrestrictUpdate(r) \/ ApproveUpdate(r) \/ RejectUpdate(r)
         \/ DeleteRow(r)
  PROVE  \A v \in Accounts : RowMoves(v)
<1>1. CASE RegisterBilling(r)
  <2>1. request[r] \in RegisterState
    BY <1>1, RequestAt, Shapes DEF RegisterBilling, At, RegisterPcs
  <2>2. PICK u \in Accounts : u = request[r].user
    BY <2>1 DEF RegisterState
  <2>3. Present(u) /\ \E new : Column(user[u], new) /\ user' = [user EXCEPT ![u] = new]
    BY <1>1, <2>2 DEF RegisterBilling, Column
  <2> QED
    BY <2>3, ColumnMoves
<1>2. CASE SocialBilling(r)
  <2>1. request[r] \in SessionState
    BY <1>2, RequestAt, Shapes DEF SocialBilling, At, SessionPcs
  <2>2. PICK u \in Accounts : u = request[r].user
    BY <2>1 DEF SessionState
  <2>3. CASE Present(u)
    <3>1. \E new : Column(user[u], new) /\ user' = [user EXCEPT ![u] = new]
      BY <1>2, <2>2, <2>3 DEF SocialBilling, Column
    <3> QED
      BY <2>3, <3>1, ColumnMoves
  <2> QED
    BY <1>2, <2>2, <2>3, SameMoves DEF SocialBilling
<1>3. CASE \/ RestrictUpdate(r) \/ UnrestrictUpdate(r) \/ ApproveUpdate(r) \/ RejectUpdate(r)
           \/ DeleteRow(r)
  <2>1. request[r].pc \in ModeratePcs
    BY <1>3 DEF RestrictUpdate, UnrestrictUpdate, ApproveUpdate, RejectUpdate, DeleteRow,
                UpdateUser, At, ModeratePcs
  <2>2. request[r] \in ModerateState
    BY <2>1, RequestAt, Shapes
  <2>3. PICK u \in Accounts : u = request[r].user
    BY <2>2 DEF ModerateState
  <2>4. CASE ~Present(u)
    <3>1. UNCHANGED user
      BY <1>3, <2>3, <2>4 DEF RestrictUpdate, UnrestrictUpdate, ApproveUpdate, RejectUpdate,
                              DeleteRow, UpdateUser
    <3> QED
      BY <3>1, SameMoves
  <2>5. CASE Present(u) /\ DeleteRow(r)
    <3>1. user' = [user EXCEPT ![u] = Gone]
      BY <2>3, <2>5 DEF DeleteRow, UpdateUser
    <3> QED
      BY <2>5, <3>1 DEF RowMoves, AInv, AType
  <2>6. CASE Present(u) /\ ~DeleteRow(r)
    <3>1. \E new : Column(user[u], new) /\ user' = [user EXCEPT ![u] = new]
      BY <1>3, <2>3, <2>6 DEF RestrictUpdate, UnrestrictUpdate, ApproveUpdate, RejectUpdate,
                              UpdateUser, Column
    <3> QED
      BY <2>6, <3>1, ColumnMoves
  <2> QED
    BY <2>4, <2>5, <2>6
<1> QED
  BY <1>1, <1>2, <1>3

LEMMA AdminMoves ==
  ASSUME AInv, NEW r \in Requests, AdminUpdateRow(r)
  PROVE  \A v \in Accounts : RowMoves(v)
<1>1. CASE UNCHANGED <<user, held>>
  BY <1>1, SameMoves
<1>2. ASSUME NEW u \in Accounts, NEW row \in UserRow, Present(u),
             user' = [user EXCEPT ![u] = row], row.is_accepted = user[u].is_accepted,
             row.status = user[u].status, row.is_restricted = user[u].is_restricted
      PROVE  \A v \in Accounts : RowMoves(v)
  <2>1. user'[u] = row /\ \A v \in Accounts : v # u => user'[v] = user[v]
    BY <1>2 DEF AInv, AType
  <2>2. Edits(user[u], row)
    BY <1>2 DEF Edits
  <2> QED
    BY <1>2, <2>1, <2>2 DEF RowMoves
<1> QED
  BY <1>1, <1>2, AdminRow

(* What an account was told.  Letters about decisions, those delivered and *)
(* those still in the queue, end with the decision that the row keeps,     *)
(* unless a request that decided it has its letter yet to post.            *)

DecidePcs == {"decide.update", "decide.mail"}

Unwritten(u) == \A i \in DOMAIN mail : ~IsAbout(mail[i], u)

Says(u, d) ==
  /\ Unwritten(u) => decision[u] = d
  /\ \A i \in DOMAIN mail :
       IsAbout(mail[i], u) /\ (\A j \in DOMAIN mail : j > i => ~IsAbout(mail[j], u))
         => mail[i].is_accepted = d

Posting(r, u) == request[r].pc = "decide.mail" /\ request[r].user = u

Untold(u) == decision[u] = "pending" /\ Unwritten(u) /\ \A r \in Requests : ~Deciding(r, u)

Told(u) ==
  /\ \A q, r \in Requests : Deciding(q, u) /\ Deciding(r, u) => q = r
  /\ \A r \in Requests : Posting(r, u) => request[r].is_accepted = user[u].is_accepted
  /\ (\A r \in Requests : ~Posting(r, u)) => Says(u, user[u].is_accepted)

LetterInv ==
  /\ decision \in [Accounts -> Decisions]
  /\ \A u \in Accounts : /\ user[u] = NULL => Untold(u)
                         /\ Present(u) /\ u \notin disturbed => Told(u)

(* A letter about something else says nothing about u.                     *)
LEMMA SaysPasses ==
  ASSUME AInv, NEW u, UNCHANGED decision,
         \/ UNCHANGED mail
         \/ \E l \in CodeLetter \cup DecisionLetter : ~IsAbout(l, u) /\ mail' = Append(mail, l)
  PROVE  /\ Unwritten(u)' = Unwritten(u)
         /\ \A d : Says(u, d) => Says(u, d)'
<1>1. CASE UNCHANGED mail
  BY <1>1 DEF Unwritten, Says
<1>2. ASSUME NEW l \in CodeLetter \cup DecisionLetter, ~IsAbout(l, u), mail' = Append(mail, l)
      PROVE  /\ Unwritten(u)' = Unwritten(u)
             /\ \A d : Says(u, d) => Says(u, d)'
  <2>1. /\ \A i \in DOMAIN mail : i \in DOMAIN mail' /\ mail'[i] = mail[i]
        /\ \A i \in DOMAIN mail' : \/ i \in DOMAIN mail /\ mail'[i] = mail[i]
                                   \/ mail'[i] = l
    BY <1>2 DEF AInv, AType
  <2>2. Unwritten(u)' = Unwritten(u)
    BY <1>2, <2>1 DEF Unwritten
  <2>3. ASSUME NEW d, Says(u, d) PROVE Says(u, d)'
    BY <1>2, <2>1, <2>2, <2>3 DEF Says
  <2> QED
    BY <2>2, <2>3
<1> QED
  BY <1>1, <1>2

(* The last letter posted is the one that counts.                          *)
LEMMA SaysPosted ==
  ASSUME AInv, NEW u, NEW l \in CodeLetter \cup DecisionLetter, IsAbout(l, u),
         mail' = Append(mail, l)
  PROVE  Says(u, l.is_accepted)'
<1>1. /\ Len(mail) + 1 \in DOMAIN mail' /\ mail'[Len(mail) + 1] = l
      /\ \A i \in DOMAIN mail' : i # Len(mail) + 1 => Len(mail) + 1 > i
  BY DEF AInv, AType
<1> QED
  BY <1>1 DEF Says, Unwritten

(* Taking the first letter from the queue and delivering it.               *)
LEMMA SaysDelivered ==
  ASSUME AInv, NEW u \in Accounts, mail # <<>>, mail' = Tail(mail),
         IF IsAbout(Head(mail), u) THEN decision'[u] = Head(mail).is_accepted
                                   ELSE decision'[u] = decision[u]
  PROVE  /\ Unwritten(u) => Unwritten(u)' /\ decision'[u] = decision[u]
         /\ \A d : Says(u, d) => Says(u, d)'
<1>1. /\ 1 \in DOMAIN mail /\ Head(mail) = mail[1]
      /\ \A i \in DOMAIN mail' : i \in Nat /\ i + 1 \in DOMAIN mail /\ mail'[i] = mail[i + 1]
      /\ \A i \in DOMAIN mail : i \in Nat /\ (i = 1 \/ (i - 1 \in DOMAIN mail' /\ i - 1 \in Nat))
  BY DEF AInv, AType
<1>2. \A i \in DOMAIN mail : i # 1 => mail'[i - 1] = mail[i]
  BY <1>1
<1>3. Unwritten(u) => Unwritten(u)' /\ decision'[u] = decision[u]
  BY <1>1 DEF Unwritten
<1>4. ASSUME NEW d, Says(u, d) PROVE Says(u, d)'
  <2>1. ASSUME Unwritten(u)' PROVE decision'[u] = d
    <3>1. \A j \in DOMAIN mail : j # 1 => ~IsAbout(mail[j], u)
      BY <1>1, <1>2, <2>1 DEF Unwritten
    <3>2. CASE IsAbout(mail[1], u)
      BY <1>1, <1>4, <3>1, <3>2 DEF Says
    <3>3. CASE ~IsAbout(mail[1], u)
      BY <1>1, <1>4, <3>1, <3>3 DEF Says, Unwritten
    <3> QED
      BY <3>2, <3>3
  <2>2. ASSUME NEW i \in DOMAIN mail', IsAbout(mail'[i], u),
               \A j \in DOMAIN mail' : j > i => ~IsAbout(mail'[j], u)
        PROVE  mail'[i].is_accepted = d
    <3>1. ASSUME NEW j \in DOMAIN mail, j > i + 1 PROVE ~IsAbout(mail[j], u)
      <4>1. j # 1 /\ j - 1 \in DOMAIN mail' /\ j - 1 > i
        BY <1>1, <3>1
      <4> QED
        BY <1>2, <2>2, <4>1
    <3> QED
      BY <1>1, <1>4, <2>2, <3>1 DEF Says
  <2> QED
    BY <2>1, <2>2 DEF Says, IsAbout
<1> QED
  BY <1>3, <1>4

(* A step that decides nothing, posts no decision and delivers nothing.    *)
Silent ==
  /\ \A r \in Requests : \/ request'[r] = request[r]
                         \/ request[r].pc \notin DecidePcs /\ request'[r].pc \notin DecidePcs
  /\ UNCHANGED decision /\ disturbed \subseteq disturbed'
  /\ \/ UNCHANGED mail
     \/ \E l \in CodeLetter \cup DecisionLetter :
          (\A u : ~IsAbout(l, u)) /\ mail' = Append(mail, l)
  /\ \A u \in Accounts : RowMoves(u)

LEMMA SilentKeeps ==
  ASSUME AInv, LetterInv, Silent
  PROVE  LetterInv'
<1>1. decision' \in [Accounts -> Decisions]
  BY DEF LetterInv, Silent
<1> SUFFICES ASSUME NEW u \in Accounts
             PROVE  /\ user'[u] = NULL => Untold(u)'
                    /\ Present(u)' /\ u \notin disturbed' => Told(u)'
  BY <1>1 DEF LetterInv
<1>2. RowMoves(u) /\ Silent
  BY DEF Silent
<1>3. /\ \A r \in Requests : Deciding(r, u)' <=> Deciding(r, u)
      /\ \A r \in Requests : Posting(r, u)' <=> Posting(r, u)
      /\ \A r \in Requests : Deciding(r, u)' => request'[r] = request[r]
  BY DEF Silent, Deciding, Posting, DecidePcs
<1>4. /\ UNCHANGED decision
      /\ \/ UNCHANGED mail
         \/ \E l \in CodeLetter \cup DecisionLetter : ~IsAbout(l, u) /\ mail' = Append(mail, l)
  BY DEF Silent
<1>5. /\ Unwritten(u)' = Unwritten(u)
      /\ \A d : Says(u, d) => Says(u, d)'
  BY <1>4, SaysPasses
<1>6. Untold(u) => Untold(u)'
  BY <1>3, <1>4, <1>5 DEF Untold
<1>7. user'[u] = NULL => user[u] = NULL
  BY <1>2, UsersAssumption, RowsAssumption DEF RowMoves, RowMade, Edits
<1>8. ASSUME Present(u)', u \notin disturbed' PROVE Told(u)'
  <2>1. CASE user[u] = NULL
    <3>1. user'[u].is_accepted = "pending" /\ Untold(u)
      BY <1>2, <1>8, <2>1 DEF RowMoves, RowMade, Present, LetterInv
    <3>2. Says(u, "pending")'
      BY <1>4, <1>5, <3>1 DEF Untold, Says, Unwritten
    <3>3. \A r \in Requests : ~Deciding(r, u)' /\ ~Posting(r, u)'
      BY <1>3, <3>1 DEF Untold, Deciding, Posting
    <3> QED
      BY <3>1, <3>2, <3>3 DEF Told
  <2>2. CASE user[u] # NULL
    <3>1. Present(u) /\ user'[u].is_accepted = user[u].is_accepted
      BY <1>2, <1>8, <2>2 DEF RowMoves, Edits, Present
    <3>2. Told(u)
      BY <1>8, <3>1 DEF LetterInv, Silent
    <3>3. \A q, r \in Requests : Deciding(q, u)' /\ Deciding(r, u)' => q = r
      BY <1>3, <3>2 DEF Told
    <3>4. \A r \in Requests : Posting(r, u)' => request'[r].is_accepted = user'[u].is_accepted
      BY <1>3, <3>1, <3>2 DEF Told, Posting, Deciding
    <3>5. (\A r \in Requests : ~Posting(r, u)') => Says(u, user[u].is_accepted)'
      <4>1. PICK d : d = user[u].is_accepted
        OBVIOUS
      <4>2. (\A r \in Requests : ~Posting(r, u)) => Says(u, d)'
        BY <1>5, <3>2, <4>1 DEF Told
      <4>3. Says(u, d)' => Says(u, user[u].is_accepted)'
        BY <3>1, <4>1 DEF Says
      <4> QED
        BY <1>3, <4>2, <4>3
    <3> QED
      BY <3>3, <3>4, <3>5 DEF Told
  <2> QED
    BY <2>1, <2>2
<1> QED
  BY <1>6, <1>7, <1>8 DEF LetterInv

LEMMA SilentTo ==
  ASSUME AInv, NEW r \in Requests, NEW st,
         request[r].pc \notin DecidePcs, st.pc \notin DecidePcs,
         request' = [request EXCEPT ![r] = st],
         UNCHANGED <<mail, decision>>, disturbed \subseteq disturbed',
         \A u \in Accounts : RowMoves(u)
  PROVE  Silent
BY DEF Silent, AInv, AType

LEMMA ArriveSilent ==
  ASSUME AInv, NEW r \in Requests, NEW kind, NEW st, Arrive(r, kind, st),
         st.pc \notin DecidePcs, UNCHANGED <<user, mail, decision>>, disturbed \subseteq disturbed'
  PROVE  Silent
BY SilentTo, SameMoves, IdleState DEF Arrive, DecidePcs

LEMMA FinishSilent ==
  ASSUME AInv, NEW r \in Requests, request[r].pc \notin DecidePcs, Finish(r),
         UNCHANGED <<mail, decision>>, disturbed \subseteq disturbed',
         \A u \in Accounts : RowMoves(u)
  PROVE  Silent
BY SilentTo, IdleState DEF Finish, DecidePcs

LEMMA GotoSilent ==
  ASSUME AInv, NEW r \in Requests, request[r].pc \notin DecidePcs, NEW pc, Goto(r, pc),
         pc \notin DecidePcs, UNCHANGED <<mail, decision>>, disturbed \subseteq disturbed',
         \A u \in Accounts : RowMoves(u)
  PROVE  Silent
<1>1. request[r] \in RequestState
  BY RequestAt
<1>2. [request[r] EXCEPT !.pc = pc].pc = pc
  BY <1>1 DEF RequestState, Idle
<1>3. request' = [request EXCEPT ![r] = [request[r] EXCEPT !.pc = pc]]
  BY DEF Goto
<1> QED
  BY <1>2, <1>3, SilentTo

LEMMA RegisterCodeSilent ==
  ASSUME AInv, NEW r \in Requests, NEW c \in Codes, RegisterCode(r, c)
  PROVE  Silent
<1>1. request[r] \in RegisterState
  BY RequestAt, Shapes DEF RegisterCode, At, RegisterPcs
<1>2. PICK st : st = [request[r] EXCEPT !.pc = "register.mail", !.code = c]
  OBVIOUS
<1>3. st.pc = "register.mail"
  BY <1>1, <1>2 DEF RegisterState
<1>4. /\ request[r].pc = "register.code" /\ request' = [request EXCEPT ![r] = st]
      /\ UNCHANGED <<user, mail, decision, disturbed>>
  BY <1>2 DEF RegisterCode, Continue, At, post, history
<1> QED
  BY <1>3, <1>4, SilentTo, SameMoves DEF DecidePcs

LEMMA RegisterSilent ==
  ASSUME AInv, NEW r \in Requests,
         \/ \E email \in Emails, type \in TypeInputs : Register(r, email, type)
         \/ \E u \in Accounts : RegisterCreate(r, u)
         \/ \E c \in Codes : RegisterCode(r, c)
         \/ RegisterRefused(r) \/ RegisterBilling(r) \/ RegisterAdmins(r) \/ RegisterOrphan(r)
  PROVE  Silent
<1>1. CASE \E email \in Emails, type \in TypeInputs : Register(r, email, type)
  BY <1>1, ArriveSilent DEF Register, nothing, tables, post, history, DecidePcs
<1>2. ASSUME NEW u \in Accounts, RegisterCreate(r, u) PROVE Silent
  <2>1. \A v \in Accounts : RowMoves(v)
    BY <1>2, InsertsMove
  <2> QED
    BY <1>2, <2>1, SilentTo DEF RegisterCreate, Continue, At, post, DecidePcs
<1>3. CASE \E c \in Codes : RegisterCode(r, c)
  BY <1>3, RegisterCodeSilent
<1>4. CASE RegisterRefused(r) \/ RegisterOrphan(r)
  BY <1>4, FinishSilent, SameMoves
  DEF RegisterRefused, RegisterOrphan, At, nothing, tables, post, history, DecidePcs
<1>5. CASE RegisterBilling(r) \/ RegisterAdmins(r)
  <2>1. \A v \in Accounts : RowMoves(v)
    <3>1. RegisterAdmins(r) => UNCHANGED user
      BY DEF RegisterAdmins, nothing, tables
    <3> QED
      BY <1>5, <3>1, ColumnsMove, SameMoves
  <2>2. /\ request[r].pc \in {"register.billing", "register.admins"}
        /\ UNCHANGED <<mail, decision, disturbed>>
        /\ \E pc \in {"register.admins", "register.code"} : Goto(r, pc)
    BY <1>5 DEF RegisterBilling, RegisterAdmins, At, nothing, post, history
  <2> QED
    BY <2>1, <2>2, GotoSilent DEF DecidePcs
<1> QED
  BY <1>1, <1>2, <1>3, <1>4, <1>5

LEMMA OtpSilent ==
  ASSUME AInv, NEW r \in Requests,
         \/ \E u \in Accounts, email \in Emails :
              \/ ForgotPassword(r, u, email) \/ ResendVerificationEmail(r, u, email)
              \/ RequestEmailChange(r, u, email)
         \/ \E c \in Codes : OtpCreate(r, c)
         \/ OtpOrphan(r)
  PROVE  Silent
<1>1. ASSUME NEW u \in Accounts, NEW email \in Emails,
             \/ ForgotPassword(r, u, email) \/ ResendVerificationEmail(r, u, email)
             \/ RequestEmailChange(r, u, email)
      PROVE  Silent
  BY <1>1, ArriveSilent
  DEF ForgotPassword, ResendVerificationEmail, RequestEmailChange, AskCode, nothing, tables,
      post, history, DecidePcs
<1>2. ASSUME NEW c \in Codes, OtpCreate(r, c) PROVE Silent
  BY <1>2, SilentTo, SameMoves DEF OtpCreate, Continue, At, DecidePcs, post, history
<1>3. CASE OtpOrphan(r)
  BY <1>3, SilentTo, SameMoves
  DEF OtpOrphan, Continue, At, nothing, tables, post, history, DecidePcs
<1> QED
  BY <1>1, <1>2, <1>3

(* A letter with a code is posted.                                         *)
LEMMA CodePostSilent ==
  ASSUME AInv, NEW r \in Requests, RegisterMail(r) \/ OtpMail(r)
  PROVE  Silent
<1>1. request[r].to \in Emails /\ request[r].code \in Codes \cup {NULL}
  <2>1. CASE RegisterMail(r)
    <3>1. request[r] \in RegisterState
      BY <2>1, RequestAt, Shapes DEF RegisterMail, At, RegisterPcs
    <3> QED
      BY <3>1 DEF RegisterState
  <2>2. CASE OtpMail(r)
    <3>1. request[r] \in OtpMailState
      BY <2>2, RequestAt, Shapes DEF OtpMail, At
    <3> QED
      BY <3>1 DEF OtpMailState
  <2> QED
    BY <2>1, <2>2
<1>2. PICK letter : letter = [to |-> request[r].to, code |-> request[r].code]
  OBVIOUS
<1>3. letter \in CodeLetter /\ \A u : ~IsAbout(letter, u)
  BY <1>1, <1>2 DEF CodeLetter, IsAbout
<1>4. /\ request[r].pc \notin DecidePcs /\ mail' = Append(mail, letter)
      /\ request' = [request EXCEPT ![r] = Idle]
      /\ UNCHANGED <<user, decision, disturbed>>
  BY <1>2 DEF RegisterMail, OtpMail, Enqueue, At, Finish, tables, history, DecidePcs
<1>5. \A q \in Requests : \/ request'[q] = request[q]
                          \/ request[q].pc \notin DecidePcs /\ request'[q].pc \notin DecidePcs
  BY <1>4, IdleState DEF AInv, AType, DecidePcs
<1> QED
  BY <1>3, <1>4, <1>5, SameMoves DEF Silent

LEMMA SessionSilent ==
  ASSUME AInv, NEW r \in Requests,
         \/ \E u \in Accounts : Login(r, u)
         \/ \E u \in Accounts, given \in Choosers : ChangePassword(r, u, given)
         \/ \E p \in Profiles : Social(r, p)
         \/ \E u \in Accounts : SocialCreate(r, u)
         \/ PasswordCheck(r) \/ PasswordUpdate(r)
         \/ LoginSet(r) \/ SocialRefused(r) \/ SocialToken(r) \/ SocialBilling(r)
  PROVE  Silent
<1>1. CASE \/ \E u \in Accounts : Login(r, u)
           \/ \E u \in Accounts, given \in Choosers : ChangePassword(r, u, given)
           \/ \E p \in Profiles : Social(r, p)
  BY <1>1, ArriveSilent
  DEF Login, ChangePassword, Social, nothing, tables, post, history, DecidePcs
<1>2. ASSUME NEW u \in Accounts, SocialCreate(r, u) PROVE Silent
  <2>1. \A v \in Accounts : RowMoves(v)
    BY <1>2, InsertsMove
  <2> QED
    BY <1>2, <2>1, SilentTo DEF SocialCreate, Continue, At, post, DecidePcs
<1>3. CASE PasswordCheck(r) \/ SocialToken(r)
  BY <1>3, FinishSilent, GotoSilent, SameMoves
  DEF PasswordCheck, SocialToken, At, nothing, tables, post, history, DecidePcs
<1>4. CASE LoginSet(r) \/ SocialRefused(r)
  BY <1>4, FinishSilent, SameMoves
  DEF LoginSet, SocialRefused, At, nothing, tables, post, history, DecidePcs
<1>5. CASE PasswordUpdate(r) \/ SocialBilling(r)
  <2>1. \A v \in Accounts : RowMoves(v)
    BY <1>5, CodesMove, ColumnsMove
  <2>2. /\ request[r].pc \in {"password.update", "social.billing"} /\ Finish(r)
        /\ UNCHANGED <<mail, decision, disturbed>>
    BY <1>5 DEF PasswordUpdate, SocialBilling, At, post, history
  <2> QED
    BY <2>1, <2>2, FinishSilent DEF DecidePcs
<1> QED
  BY <1>1, <1>2, <1>3, <1>4, <1>5

(* Codes presented, and what is then written.                              *)
LEMMA PresentSilent ==
  ASSUME AInv, NEW r \in Requests,
         \/ \E u \in Accounts, email \in Emails, letter \in {l \in inbox : l.code # NULL} :
              VerifyEmail(r, u, email, letter) \/ ChangeEmail(r, u, email, letter)
         \/ \E email \in Emails, letter \in {l \in inbox : l.code # NULL} :
              ResetPassword(r, email, letter)
         \/ VerifyUpdate(r) \/ ResetUpdate(r) \/ ResetDelete(r)
         \/ ChangeEmailUpdate(r) \/ ChangeEmailDelete(r)
  PROVE  Silent
<1>1. CASE \/ \E u \in Accounts, email \in Emails, letter \in {l \in inbox : l.code # NULL} :
                VerifyEmail(r, u, email, letter) \/ ChangeEmail(r, u, email, letter)
           \/ \E email \in Emails, letter \in {l \in inbox : l.code # NULL} :
                ResetPassword(r, email, letter)
  BY <1>1, ArriveSilent
  DEF VerifyEmail, ChangeEmail, ResetPassword, Overlaps, nothing, tables, post, history,
      DecidePcs
<1>2. CASE ResetDelete(r) \/ ChangeEmailDelete(r)
  BY <1>2, FinishSilent, SameMoves
  DEF ResetDelete, ChangeEmailDelete, At, post, history, DecidePcs
<1>3. CASE VerifyUpdate(r) \/ ResetUpdate(r) \/ ChangeEmailUpdate(r)
  <2>1. \A v \in Accounts : RowMoves(v)
    BY <1>3, CodesMove
  <2>2. /\ request[r].pc \in {"verify.update", "reset.update", "move.update"}
        /\ UNCHANGED <<mail, decision, disturbed>>
        /\ Finish(r) \/ \E pc \in {"reset.delete", "move.delete"} : Goto(r, pc)
    BY <1>3 DEF VerifyUpdate, ResetUpdate, ChangeEmailUpdate, At, post, history
  <2> QED
    BY <2>1, <2>2, FinishSilent, GotoSilent DEF DecidePcs
<1> QED
  BY <1>1, <1>2, <1>3

LEMMA AuthSilent ==
  ASSUME AInv, AuthNext
  PROVE  Silent
BY RegisterSilent, OtpSilent, CodePostSilent, SessionSilent, PresentSilent DEF AuthNext

(* Who fails or dies halfway through a decision disturbs the account.      *)
LEMMA DroppedKeeps ==
  ASSUME AInv, LetterInv, UNCHANGED <<user, mail, decision>>, disturbed \subseteq disturbed',
         \A r \in Requests :
           \/ request'[r] = request[r]
           \/ /\ request'[r].pc \notin DecidePcs
              /\ \A u \in Accounts : Deciding(r, u) => u \in disturbed'
  PROVE  LetterInv'
<1> SUFFICES ASSUME NEW u \in Accounts
             PROVE  /\ user'[u] = NULL => Untold(u)'
                    /\ Present(u)' /\ u \notin disturbed' => Told(u)'
  BY DEF LetterInv
<1>1. \A r \in Requests : Deciding(r, u)' => Deciding(r, u) /\ request'[r] = request[r]
  BY DEF Deciding, DecidePcs
<1>2. Unwritten(u)' = Unwritten(u) /\ \A d : Says(u, d)' <=> Says(u, d)
  BY DEF Unwritten, Says
<1>3. Untold(u) => Untold(u)'
  BY <1>1, <1>2 DEF Untold
<1>4. ASSUME Present(u), u \notin disturbed' PROVE Told(u)'
  <2>1. Told(u)
    BY <1>4 DEF LetterInv
  <2>2. \A r \in Requests : Posting(r, u)' <=> Posting(r, u)
    BY <1>4 DEF Posting, Deciding, DecidePcs
  <2>3. (\A r \in Requests : ~Posting(r, u)') => Says(u, user[u].is_accepted)'
    BY <2>1, <2>2 DEF Told, Says, Unwritten
  <2>4. \A r \in Requests : Posting(r, u)' => request'[r].is_accepted = user'[u].is_accepted
    BY <1>1, <2>1, <2>2 DEF Told, Posting, Deciding
  <2>5. \A q, r \in Requests : Deciding(q, u)' /\ Deciding(r, u)' => q = r
    BY <1>1, <2>1 DEF Told
  <2> QED
    BY <2>3, <2>4, <2>5 DEF Told
<1> QED
  BY <1>3, <1>4 DEF LetterInv, Present

LEMMA FaultLetters ==
  ASSUME AInv, LetterInv,
         \/ UNCHANGED avars \/ LogoutNext \/ Tick \/ Crash
         \/ \E r \in Requests : StatementFails(r)
  PROVE  LetterInv'
<1>1. /\ UNCHANGED <<user, mail, decision>> /\ disturbed \subseteq disturbed'
  BY DEF avars, LogoutNext, Logout, Tick, Crash, StatementFails, tables, post, history
<1>2. CASE UNCHANGED avars \/ LogoutNext \/ Tick
  <2>1. UNCHANGED request
    BY <1>2 DEF avars, LogoutNext, Logout, Tick
  <2> QED
    BY <1>1, <2>1, DroppedKeeps
<1>3. CASE Crash
  <2>1. \A r \in Requests : request'[r] = Idle /\ HalfDone(r) \subseteq disturbed'
    BY <1>3 DEF Crash
  <2>2. \A r \in Requests : /\ request'[r].pc \notin DecidePcs
                            /\ \A u \in Accounts : Deciding(r, u) => u \in disturbed'
    BY <2>1, IdleState DEF HalfDone, DecidePcs
  <2> QED
    BY <1>1, <2>2, DroppedKeeps
<1>4. ASSUME NEW q \in Requests, StatementFails(q) PROVE LetterInv'
  <2>1. request' = [request EXCEPT ![q] = Idle] /\ HalfDone(q) \subseteq disturbed'
    BY <1>4 DEF StatementFails, Finish
  <2>2. \A r \in Requests : \/ request'[r] = request[r]
                            \/ /\ request'[r].pc \notin DecidePcs
                               /\ \A u \in Accounts : Deciding(r, u) => u \in disturbed'
    BY <2>1, IdleState DEF HalfDone, DecidePcs, AInv, AType
  <2> QED
    BY <1>1, <2>2, DroppedKeeps
<1> QED
  BY <1>2, <1>3, <1>4

(* The worker delivers a letter, or loses it and disturbs the account.     *)
LEMMA MailLetters ==
  ASSUME AInv, LetterInv, MailNext
  PROVE  LetterInv'
<1>1. /\ mail # <<>> /\ mail' = Tail(mail) /\ UNCHANGED <<user, request>>
      /\ disturbed \subseteq disturbed'
  BY DEF MailNext, Deliver, LoseLetter, tables, history
<1>2. PICK l : l = Head(mail) /\ l \in CodeLetter \cup DecisionLetter
  BY <1>1 DEF AInv, AType
<1>3. /\ l \in CodeLetter => "code" \in DOMAIN l /\ \A u : ~IsAbout(l, u)
      /\ l \in DecisionLetter => /\ "code" \notin DOMAIN l /\ l.about \in Accounts
                                 /\ l.is_accepted \in Decisions
                                 /\ \A u : IsAbout(l, u) <=> u = l.about
  BY DEF CodeLetter, DecisionLetter, IsAbout
<1>4. /\ decision' \in [Accounts -> Decisions]
      /\ \A u \in Accounts :
           \/ u \in disturbed' /\ IsAbout(l, u) /\ decision'[u] = decision[u]
           \/ IF IsAbout(l, u) THEN decision'[u] = l.is_accepted
                               ELSE decision'[u] = decision[u]
  <2>1. CASE LoseLetter
    BY <1>2, <2>1 DEF LoseLetter, LetterInv
  <2>2. CASE Deliver
    <3>1. CASE l \in CodeLetter
      BY <1>2, <1>3, <2>2, <3>1 DEF Deliver, LetterInv
    <3>2. CASE l \in DecisionLetter
      <4>1. decision' = [decision EXCEPT ![l.about] = l.is_accepted]
        BY <1>2, <1>3, <2>2, <3>2 DEF Deliver
      <4> QED
        BY <1>3, <3>2, <4>1 DEF LetterInv
    <3> QED
      BY <1>2, <3>1, <3>2
  <2> QED
    BY <2>1, <2>2 DEF MailNext
<1> SUFFICES ASSUME NEW u \in Accounts
             PROVE  /\ user'[u] = NULL => Untold(u)'
                    /\ Present(u)' /\ u \notin disturbed' => Told(u)'
  BY <1>4 DEF LetterInv
<1>5. Unwritten(u) => ~IsAbout(l, u)
  BY <1>1, <1>2 DEF Unwritten, AInv, AType
<1>6. u \in disturbed' \/ /\ Unwritten(u) => Unwritten(u)' /\ decision'[u] = decision[u]
                          /\ \A d : Says(u, d) => Says(u, d)'
  BY <1>1, <1>2, <1>4, SaysDelivered
<1>7. Unwritten(u) => Unwritten(u)' /\ decision'[u] = decision[u]
  BY <1>1, <1>2, <1>4, <1>5, SaysDelivered
<1>8. /\ \A r \in Requests : Deciding(r, u)' <=> Deciding(r, u)
      /\ \A r \in Requests : Posting(r, u)' <=> Posting(r, u)
  BY <1>1 DEF Deciding, Posting
<1>9. Untold(u) => Untold(u)'
  BY <1>7, <1>8 DEF Untold
<1>10. ASSUME Told(u), u \notin disturbed' PROVE Told(u)'
  <2>1. PICK d : d = user[u].is_accepted
    OBVIOUS
  <2>2. (\A r \in Requests : ~Posting(r, u)') => Says(u, d)'
    BY <1>6, <1>8, <1>10, <2>1 DEF Told
  <2>3. Says(u, d)' => Says(u, user[u].is_accepted)'
    BY <1>1, <2>1 DEF Says
  <2>4. \A r \in Requests : Posting(r, u)' => request'[r].is_accepted = user'[u].is_accepted
    BY <1>1, <1>8, <1>10 DEF Told
  <2>5. \A q, r \in Requests : Deciding(q, u)' /\ Deciding(r, u)' => q = r
    BY <1>8, <1>10 DEF Told
  <2> QED
    BY <2>2, <2>3, <2>4, <2>5 DEF Told
<1> QED
  BY <1>1, <1>9, <1>10 DEF LetterInv, Present

(* The three statements of a decision.                                     *)
LEMMA DecideLetters ==
  ASSUME AInv, LetterInv, NEW r \in Requests, NEW u \in Accounts, NEW d \in Decisions,
         Decide(r, u, d)
  PROVE  LetterInv'
<1>1. PICK st : /\ st = [pc |-> "decide.update", user |-> u, to |-> user[u].email,
                         is_accepted |-> d]
                /\ request[r] = Idle /\ request' = [request EXCEPT ![r] = st]
  BY DEF Decide, Arrive
<1>2. /\ Present(u) /\ UNCHANGED <<user, mail, decision>> /\ disturbed \subseteq disturbed'
      /\ st.pc = "decide.update" /\ st.user = u
      /\ u \notin disturbed' => \A q \in Requests : q # r => ~Deciding(q, u)
  BY <1>1 DEF Decide, tables, post
<1>3. request'[r] = st /\ \A q \in Requests : q # r => request'[q] = request[q]
  BY <1>1 DEF AInv, AType
<1> SUFFICES ASSUME NEW v \in Accounts
             PROVE  /\ user'[v] = NULL => Untold(v)'
                    /\ Present(v)' /\ v \notin disturbed' => Told(v)'
  BY <1>2 DEF LetterInv
<1>4. Unwritten(v)' = Unwritten(v) /\ \A x : Says(v, x)' <=> Says(v, x)
  BY <1>2 DEF Unwritten, Says
<1>5. \A q \in Requests : Posting(q, v)' <=> Posting(q, v)
  BY <1>1, <1>2, <1>3, IdleState DEF Posting
<1>6. \A q \in Requests : Deciding(q, v)' => Deciding(q, v) \/ (q = r /\ v = u)
  BY <1>2, <1>3 DEF Deciding
<1>7. user'[v] = NULL => Untold(v)'
  BY <1>2, <1>4, <1>6 DEF Untold, LetterInv, Present
<1>8. ASSUME Present(v), v \notin disturbed' PROVE Told(v)'
  <2>1. Told(v)
    BY <1>2, <1>8 DEF LetterInv
  <2>2. \A p, q \in Requests : Deciding(p, v)' /\ Deciding(q, v)' => p = q
    <3>1. CASE v = u
      BY <1>2, <1>6, <1>8, <3>1
    <3>2. CASE v # u
      BY <1>6, <2>1, <3>2 DEF Told
    <3> QED
      BY <3>1, <3>2
  <2>3. \A q \in Requests : Posting(q, v)' => request'[q].is_accepted = user'[v].is_accepted
    BY <1>2, <1>3, <1>5, <2>1 DEF Told, Posting
  <2>4. (\A q \in Requests : ~Posting(q, v)') => Says(v, user[v].is_accepted)'
    BY <1>2, <1>5, <2>1 DEF Told, Says, Unwritten
  <2> QED
    BY <2>2, <2>3, <2>4 DEF Told
<1> QED
  BY <1>2, <1>7, <1>8 DEF Present

LEMMA DecideUpdateLetters ==
  ASSUME AInv, LetterInv, NEW r \in Requests, DecideUpdate(r)
  PROVE  LetterInv'
<1>1. request[r] \in DecideState /\ request[r].pc = "decide.update"
  BY RequestAt, Shapes DEF DecideUpdate, At
<1>2. PICK u \in Accounts, d \in Decisions : u = request[r].user /\ d = request[r].is_accepted
  BY <1>1 DEF DecideState
<1>3. UNCHANGED <<mail, decision, disturbed>>
  BY DEF DecideUpdate, post, history
<1>4. CASE /\ Present(u) /\ user' = [user EXCEPT ![u].is_accepted = d]
           /\ Goto(r, "decide.mail")
  <2>1. user[u] \in UserRow
    BY <1>4, SeenRow DEF AInv
  <2>2. PICK row : row = [user[u] EXCEPT !.is_accepted = d]
    OBVIOUS
  <2>3. row \in UserRow /\ row.is_accepted = d
    BY <2>1, <2>2 DEF UserRow
  <2>4. user'[u] = row /\ \A v \in Accounts : v # u => user'[v] = user[v]
    BY <1>4, <2>2 DEF AInv, AType
  <2>5. PICK st : st = [request[r] EXCEPT !.pc = "decide.mail"]
    OBVIOUS
  <2>6. st.pc = "decide.mail" /\ st.user = u /\ st.is_accepted = d
    BY <1>1, <1>2, <2>5 DEF DecideState
  <2>7. request'[r] = st /\ \A q \in Requests : q # r => request'[q] = request[q]
    BY <1>4, <2>5 DEF Goto, AInv, AType
  <2> SUFFICES ASSUME NEW v \in Accounts
               PROVE  /\ user'[v] = NULL => Untold(v)'
                      /\ Present(v)' /\ v \notin disturbed' => Told(v)'
    BY <1>3 DEF LetterInv
  <2>8. \A q \in Requests : Deciding(q, v)' <=> Deciding(q, v)
    BY <1>1, <1>2, <2>6, <2>7 DEF Deciding
  <2>9. CASE v = u
    <3>1. user'[v] # NULL /\ Posting(r, v)' /\ Deciding(r, v)
      BY <1>1, <1>2, <2>3, <2>4, <2>6, <2>7, <2>9, RowsAssumption DEF Posting, Deciding
    <3>2. ASSUME v \notin disturbed PROVE Told(v)'
      <4>1. Told(v)
        BY <1>4, <2>9, <3>2 DEF LetterInv
      <4>2. \A q \in Requests : Posting(q, v)' => q = r
        BY <2>8, <3>1, <4>1 DEF Told, Posting, Deciding
      <4>3. \A q \in Requests : Posting(q, v)' => request'[q].is_accepted = user'[v].is_accepted
        BY <2>3, <2>4, <2>6, <2>7, <2>9, <4>2
      <4>4. \A p, q \in Requests : Deciding(p, v)' /\ Deciding(q, v)' => p = q
        BY <2>8, <4>1 DEF Told
      <4> QED
        BY <3>1, <4>3, <4>4 DEF Told
    <3> QED
      BY <1>3, <3>1, <3>2
  <2>10. CASE v # u
    <3>1. \A q \in Requests : Posting(q, v)' <=> Posting(q, v)
      BY <1>1, <1>2, <2>6, <2>7, <2>10 DEF Posting
    <3>2. \A q \in Requests : Posting(q, v)' => request'[q] = request[q]
      BY <2>6, <2>7, <2>10 DEF Posting
    <3>3. Unwritten(v)' = Unwritten(v) /\ user'[v] = user[v]
      BY <1>3, <2>4, <2>10 DEF Unwritten
    <3>4. Untold(v) => Untold(v)'
      BY <1>3, <2>8, <3>3 DEF Untold
    <3>5. ASSUME Told(v) PROVE Told(v)'
      <4>1. \A p, q \in Requests : Deciding(p, v)' /\ Deciding(q, v)' => p = q
        BY <2>8, <3>5 DEF Told
      <4>2. \A q \in Requests : Posting(q, v)' => request'[q].is_accepted = user'[v].is_accepted
        BY <3>1, <3>2, <3>3, <3>5 DEF Told
      <4>3. (\A q \in Requests : ~Posting(q, v)') => Says(v, user[v].is_accepted)'
        BY <1>3, <3>1, <3>3, <3>5 DEF Told, Says
      <4> QED
        BY <4>1, <4>2, <4>3 DEF Told
    <3> QED
      BY <1>3, <3>3, <3>4, <3>5 DEF LetterInv, Present
  <2> QED
    BY <2>9, <2>10
<1>5. CASE ~Present(u) /\ Finish(r) /\ UNCHANGED user
  <2>1. request'[r] = Idle /\ \A q \in Requests : q # r => request'[q] = request[q]
    BY <1>5 DEF Finish, AInv, AType
  <2> SUFFICES ASSUME NEW v \in Accounts
               PROVE  /\ user'[v] = NULL => Untold(v)'
                      /\ Present(v)' /\ v \notin disturbed' => Told(v)'
    BY <1>3 DEF LetterInv
  <2>2. /\ \A q \in Requests : Deciding(q, v)' => Deciding(q, v)
        /\ \A q \in Requests : Posting(q, v)' <=> Posting(q, v)
        /\ \A q \in Requests : Posting(q, v)' => request'[q] = request[q]
    BY <1>1, <2>1, IdleState DEF Deciding, Posting
  <2>3. Untold(v) => Untold(v)'
    BY <1>3, <2>2 DEF Untold, Unwritten
  <2>4. ASSUME Told(v) PROVE Told(v)'
    <3>1. \A p, q \in Requests : Deciding(p, v)' /\ Deciding(q, v)' => p = q
      BY <2>2, <2>4 DEF Told
    <3>2. \A q \in Requests : Posting(q, v)' => request'[q].is_accepted = user'[v].is_accepted
      BY <1>5, <2>2, <2>4 DEF Told
    <3>3. (\A q \in Requests : ~Posting(q, v)') => Says(v, user[v].is_accepted)'
      BY <1>3, <1>5, <2>2, <2>4 DEF Told, Says, Unwritten
    <3> QED
      BY <3>1, <3>2, <3>3 DEF Told
  <2> QED
    BY <1>3, <1>5, <2>3, <2>4 DEF LetterInv, Present
<1> QED
  BY <1>2, <1>4, <1>5 DEF DecideUpdate

LEMMA DecideMailLetters ==
  ASSUME AInv, LetterInv, NEW r \in Requests, DecideMail(r)
  PROVE  LetterInv'
<1>1. request[r] \in DecideState /\ request[r].pc = "decide.mail"
  BY RequestAt, Shapes DEF DecideMail, At
<1>2. PICK u \in Accounts, d \in Decisions, to \in Emails :
        u = request[r].user /\ d = request[r].is_accepted /\ to = request[r].to
  BY <1>1 DEF DecideState
<1>3. PICK l : l = [to |-> to, about |-> u, is_accepted |-> d]
  OBVIOUS
<1>4. /\ l \in CodeLetter \cup DecisionLetter /\ l.is_accepted = d
      /\ \A v : IsAbout(l, v) <=> v = u
  BY <1>3 DEF DecisionLetter, IsAbout
<1>5. mail' = Append(mail, l) /\ UNCHANGED <<user, decision, disturbed>>
  BY <1>2, <1>3 DEF DecideMail, Enqueue, tables, history
<1>6. request'[r] = Idle /\ \A q \in Requests : q # r => request'[q] = request[q]
  BY DEF DecideMail, Finish, AInv, AType
<1> SUFFICES ASSUME NEW v \in Accounts
             PROVE  /\ user'[v] = NULL => Untold(v)'
                    /\ Present(v)' /\ v \notin disturbed' => Told(v)'
  BY <1>5 DEF LetterInv
<1>7. /\ \A q \in Requests : Deciding(q, v)' <=> q # r /\ Deciding(q, v)
      /\ \A q \in Requests : Posting(q, v)' <=> q # r /\ Posting(q, v)
      /\ Deciding(r, u) /\ Posting(r, u)
  BY <1>1, <1>2, <1>6, IdleState DEF Deciding, Posting
<1>8. CASE v = u
  <2>1. ~Untold(v)
    BY <1>7, <1>8 DEF Untold
  <2>2. ASSUME Told(v) PROVE Told(v)'
    <3>1. \A q \in Requests : ~Deciding(q, v)' /\ ~Posting(q, v)'
      BY <1>7, <1>8, <2>2 DEF Told, Deciding, Posting
    <3>2. d = user[v].is_accepted
      BY <1>2, <1>7, <1>8, <2>2 DEF Told
    <3>3. Says(v, d)'
      BY <1>4, <1>5, <1>8, SaysPosted
    <3>4. Says(v, user[v].is_accepted)'
      BY <1>5, <3>2, <3>3 DEF Says
    <3> QED
      BY <3>1, <3>4 DEF Told
  <2> QED
    BY <1>5, <2>1, <2>2 DEF LetterInv, Present
<1>9. CASE v # u
  <2>1. Unwritten(v)' = Unwritten(v) /\ \A x : Says(v, x) => Says(v, x)'
    BY <1>4, <1>5, <1>9, SaysPasses
  <2>2. Untold(v) => Untold(v)'
    BY <1>5, <1>7, <2>1 DEF Untold
  <2>3. ASSUME Told(v) PROVE Told(v)'
    <3>1. \A p, q \in Requests : Deciding(p, v)' /\ Deciding(q, v)' => p = q
      BY <1>7, <2>3 DEF Told
    <3>2. \A q \in Requests : Posting(q, v)' => request'[q].is_accepted = user'[v].is_accepted
      BY <1>5, <1>6, <1>7, <2>3 DEF Told
    <3>3. (\A q \in Requests : ~Posting(q, v)') => Says(v, user[v].is_accepted)'
      <4>1. PICK x : x = user[v].is_accepted
        OBVIOUS
      <4>2. (\A q \in Requests : ~Posting(q, v)') => Says(v, x)'
        BY <1>1, <1>2, <1>7, <1>9, <2>1, <2>3, <4>1 DEF Told, Posting
      <4>3. Says(v, x)' => Says(v, user[v].is_accepted)'
        BY <1>5, <4>1 DEF Says
      <4> QED
        BY <4>2, <4>3
    <3> QED
      BY <3>1, <3>2, <3>3 DEF Told
  <2> QED
    BY <1>5, <2>2, <2>3 DEF LetterInv, Present
<1> QED
  BY <1>8, <1>9

LEMMA ModerationSilent ==
  ASSUME AInv, ModerationNext
  PROVE  \/ Silent
         \/ \E r \in Requests : DecideUpdate(r) \/ DecideMail(r)
         \/ \E r \in Requests, u \in Accounts, d \in Decisions : Decide(r, u, d)
<1>1. PICK r \in Requests :
        \/ \E u \in Accounts :
             \/ \E d \in Decisions : Decide(r, u, d)
             \/ RestrictAStudent(r, u) \/ UnrestrictAStudent(r, u) \/ Approve(r, u) \/ Reject(r, u)
             \/ Delete(r, u)
             \/ \E email \in Emails \cup {NULL}, password \in BOOLEAN, type \in TypeInputs :
                  AdminUpdate(r, u, email, password, type)
             \/ AdminCreateInsert(r, u)
        \/ \E email \in Emails, type \in TypeInputs : AdminCreate(r, email, type)
        \/ DecideUpdate(r) \/ DecideMail(r)
        \/ RestrictUpdate(r) \/ UnrestrictUpdate(r) \/ ApproveUpdate(r) \/ RejectUpdate(r)
        \/ DeleteRow(r) \/ AdminCreateRefused(r) \/ AdminUpdateRow(r)
  BY DEF ModerationNext
<1>2. CASE \E u \in Accounts : \/ RestrictAStudent(r, u) \/ UnrestrictAStudent(r, u) \/ Approve(r, u)
                               \/ Reject(r, u) \/ Delete(r, u)
  BY <1>2, ArriveSilent
  DEF RestrictAStudent, UnrestrictAStudent, Approve, Reject, Delete, LookUpUser, nothing,
      tables, post, history, DecidePcs
<1>3. CASE \/ \E u \in Accounts, email \in Emails \cup {NULL}, password \in BOOLEAN,
                 type \in TypeInputs : AdminUpdate(r, u, email, password, type)
           \/ \E email \in Emails, type \in TypeInputs : AdminCreate(r, email, type)
  BY <1>3, ArriveSilent DEF AdminUpdate, AdminCreate, nothing, tables, post, history, DecidePcs
<1>4. CASE AdminCreateRefused(r)
  BY <1>4, FinishSilent, SameMoves
  DEF AdminCreateRefused, At, nothing, tables, post, history, DecidePcs
<1>5. ASSUME NEW u \in Accounts, AdminCreateInsert(r, u) PROVE Silent
  <2>1. \A v \in Accounts : RowMoves(v)
    BY <1>5, InsertsMove
  <2> QED
    BY <1>5, <2>1, FinishSilent DEF AdminCreateInsert, At, post, DecidePcs
<1>6. CASE AdminUpdateRow(r)
  <2>1. At(r, "admin.update") /\ Finish(r) /\ UNCHANGED <<post, disturbed>>
    BY <1>6, Zenon DEF AdminUpdateRow
  <2>2. \A v \in Accounts : RowMoves(v)
    BY <1>6, AdminMoves
  <2> QED
    BY <2>1, <2>2, FinishSilent DEF At, post, DecidePcs
<1>7. CASE \/ RestrictUpdate(r) \/ UnrestrictUpdate(r) \/ ApproveUpdate(r) \/ RejectUpdate(r)
           \/ DeleteRow(r)
  <2>1. \A v \in Accounts : RowMoves(v)
    BY <1>7, ColumnsMove
  <2>2. request[r].pc \in ModeratePcs /\ Finish(r) /\ UNCHANGED <<mail, decision, disturbed>>
    BY <1>7 DEF RestrictUpdate, UnrestrictUpdate, ApproveUpdate, RejectUpdate, DeleteRow,
                UpdateUser, At, post, history, ModeratePcs
  <2> QED
    BY <2>1, <2>2, FinishSilent DEF DecidePcs, ModeratePcs
<1> QED
  BY <1>1, <1>2, <1>3, <1>4, <1>5, <1>6, <1>7

LEMMA LetterStep == AInv /\ LetterInv /\ [Next]_avars => LetterInv'
<1> SUFFICES ASSUME AInv, LetterInv, [Next]_avars PROVE LetterInv'
  OBVIOUS
<1>1. ASSUME ModerationNext PROVE LetterInv'
  BY <1>1, ModerationSilent, SilentKeeps, DecideLetters, DecideUpdateLetters, DecideMailLetters
<1> QED
  BY <1>1, AuthSilent, SilentKeeps, MailLetters, FaultLetters DEF Next

LEMMA LetterStart == Init => LetterInv
<1> SUFFICES ASSUME Init PROVE LetterInv
  OBVIOUS
<1>1. AInv
  BY InitInv
<1>2. /\ decision = [u \in Accounts |-> IF user[u] = NULL THEN "pending" ELSE user[u].is_accepted]
      /\ mail = <<>> /\ request = [r \in Requests |-> Idle]
  BY DEF Init, InitWith
<1>3. \A u : Unwritten(u)
  BY <1>2 DEF Unwritten
<1>4. \A u \in Accounts, r \in Requests : ~Deciding(r, u) /\ ~Posting(r, u)
  BY <1>2, IdleState DEF Deciding, Posting
<1>5. \A u \in Accounts : user[u] # NULL => Present(u)
  BY Start
<1>6. \A u \in Accounts : Present(u) => user[u].is_accepted \in Decisions
  BY <1>1, SeenRow DEF AInv, UserRow
<1>7. decision \in [Accounts -> Decisions]
  BY <1>2, <1>5, <1>6 DEF Decisions
<1>8. \A u \in Accounts : Present(u) => Says(u, user[u].is_accepted)
  BY <1>2 DEF Says, Present
<1> QED
  BY <1>2, <1>3, <1>4, <1>7, <1>8 DEF LetterInv, Untold, Told

(* 'Your application has been accepted' or 'rejected': the last letter a   *)
(* tutor got about the application is on which page the tutor is shown,    *)
(* once decisions and letters are at rest, unless two decisions            *)
(* overlapped, one failed halfway or a letter was lost.                    *)
THEOREM LettersCorrect == Spec => []LastLetterIsTrue
<1>1. ASSUME LetterInv PROVE LastLetterIsTrue
  <2> SUFFICES ASSUME NEW u \in AllTutors, DecisionsAtRest(u), u \notin disturbed
               PROVE  user[u].is_accepted = decision[u]
    BY DEF LastLetterIsTrue, OneTutorApplication, TutorApplications, AllAcceptedTutors, AllTutors
  <2>1. u \in Accounts /\ Present(u)
    BY DEF AllTutors, OfType
  <2>2. Told(u)
    BY <1>1, <2>1 DEF LetterInv
  <2>3. Says(u, user[u].is_accepted)
    BY <2>2 DEF Told, DecisionsAtRest, Deciding, Posting
  <2> QED
    BY <2>3 DEF Says, Unwritten, DecisionsAtRest
<1> QED
  BY <1>1, LetterStart, LetterStep, Invariance, PTL DEF Spec

(* The counts.  A restricted row has lost its status, and no statement     *)
(* writes the one without the other; of finitely many rows the counts of   *)
(* disjoint sets add up.                                                   *)
Records == {u \in Accounts : Present(u)}

Suspended == \A u \in Accounts : Present(u) /\ user[u].is_restricted => ~user[u].status

CountInv == IsFiniteSet(Records) /\ Suspended

(* One step of the contract opens at most one account.                     *)
LEMMA OneMoreRow ==
  ASSUME [Contract!CNext]_Seen
  PROVE  \E u \in SUBSET Accounts : Records' \subseteq Records \cup u /\ \A v, w \in u : v = w
<1>1. \A row : View(row).stage \in {"open", "verified"} <=> row \notin {NULL, Gone}
  BY DEF View
<1>2. \A v \in Accounts : Seen[v] = View(user[v]) /\ Seen'[v] = View(user'[v])
  BY DEF Seen
<1>3. \A v \in Accounts : Seen'[v] = Seen[v] => (Present(v)' <=> Present(v))
  BY <1>1, <1>2 DEF Present
<1>4. CASE UNCHANGED Seen
  <2>1. Records' \subseteq Records \cup {} /\ {} \in SUBSET Accounts
    BY <1>3, <1>4 DEF Records
  <2> QED
    BY <2>1, Zenon
<1>5. CASE Contract!CNext
  <2>1. PICK u \in Accounts : \A v \in Accounts : v # u => Seen'[v] = Seen[v]
    <3>1. PICK u \in Accounts :
            \/ Contract!CVerify(u) \/ Contract!CClose(u)
            \/ \E email \in Emails : Contract!COpen(u, email) \/ Contract!CMove(u, email)
      BY <1>5 DEF Contract!CNext
    <3>2. \A v \in Accounts : v # u => Seen'[v] = Seen[v]
      BY <3>1 DEF Contract!CVerify, Contract!CClose, Contract!COpen, Contract!CMove, Seen
    <3> QED
      BY <3>2
  <2>2. /\ Records' \subseteq Records \cup {u} /\ {u} \in SUBSET Accounts
        /\ \A v, w \in {u} : v = w
    BY <1>3, <2>1 DEF Records
  <2> QED
    BY <2>2, Zenon
<1> QED
  BY <1>4, <1>5

LEMMA RowsFinite ==
  ASSUME IsFiniteSet(Records), [Contract!CNext]_Seen
  PROVE  IsFiniteSet(Records')
<1>1. PICK U \in SUBSET Accounts : Records' \subseteq Records \cup U /\ \A v, w \in U : v = w
  BY OneMoreRow
<1>2. IsFiniteSet(Records \cup U)
  <2>1. CASE U = {}
    BY <2>1
  <2>2. CASE U # {}
    <3>1. PICK u : U = {u}
      BY <1>1, <2>2
    <3> QED
      BY <3>1, FS_AddElement
  <2> QED
    BY <2>1, <2>2
<1> QED
  BY <1>1, <1>2, FS_Subset

LEMMA SuspendedStep ==
  ASSUME AInv, Suspended, [Next]_avars
  PROVE  Suspended'
<1>1. ASSUME \A v \in Accounts : RowMoves(v) PROVE Suspended'
  BY <1>1 DEF Suspended, RowMoves, RowMade, Edits, Present
<1>2. CASE Silent
  BY <1>1, <1>2 DEF Silent
<1>3. ASSUME NEW r \in Requests, DecideUpdate(r) PROVE Suspended'
  <2>1. CASE UNCHANGED user
    BY <2>1 DEF Suspended, Present
  <2>2. CASE ~UNCHANGED user
    <3>1. PICK u : u = request[r].user
      OBVIOUS
    <3>2. Present(u) /\ user' = [user EXCEPT ![u].is_accepted = request[r].is_accepted]
      BY <1>3, <2>2, <3>1 DEF DecideUpdate
    <3>3. u \in Accounts => user[u] \in UserRow
      BY <3>2, SeenRow DEF AInv
    <3>4. PICK row : row = [user[u] EXCEPT !.is_accepted = request[r].is_accepted]
      OBVIOUS
    <3>5. u \in Accounts => row.is_restricted = user[u].is_restricted /\ row.status = user[u].status
      BY <3>3, <3>4 DEF UserRow
    <3>6. /\ \A v \in Accounts : v # u => user'[v] = user[v]
          /\ u \in Accounts => user'[u] = row
      BY <3>2, <3>4 DEF AInv, AType
    <3> QED
      BY <3>2, <3>5, <3>6 DEF Suspended, Present
  <2> QED
    BY <2>1, <2>2
<1>4. ASSUME NEW r \in Requests,
             DecideMail(r) \/ \E u \in Accounts, d \in Decisions : Decide(r, u, d)
      PROVE  Suspended'
  <2>1. UNCHANGED user
    BY <1>4 DEF DecideMail, Decide, tables
  <2> QED
    BY <2>1 DEF Suspended, Present
<1>5. ASSUME MailNext \/ LogoutNext \/ Tick \/ Crash \/ UNCHANGED avars
               \/ \E r \in Requests : StatementFails(r)
      PROVE  Suspended'
  <2>1. UNCHANGED user
    BY <1>5 DEF MailNext, Deliver, LoseLetter, LogoutNext, Logout, Tick, Crash, StatementFails,
                avars, tables
  <2> QED
    BY <2>1 DEF Suspended, Present
<1> QED
  BY <1>2, <1>3, <1>4, <1>5, AuthSilent, ModerationSilent DEF Next

(* Of a finite set, disjoint parts are no more than the whole.             *)
LEMMA Parts ==
  ASSUME NEW S, IsFiniteSet(S), NEW A \in SUBSET S, NEW B \in SUBSET S, A \cap B = {}
  PROVE  Cardinality(A) + Cardinality(B) <= Cardinality(S)
<1>1. IsFiniteSet(A) /\ IsFiniteSet(B)
  BY FS_Subset
<1>2. Cardinality(A \cup B) = Cardinality(A) + Cardinality(B) - Cardinality(A \cap B)
  BY <1>1, FS_Union
<1>3. Cardinality(A \cap B) = 0
  BY FS_EmptySet
<1>4. A \cup B \in SUBSET S
  OBVIOUS
<1>5. Cardinality(A \cup B) <= Cardinality(S)
  BY <1>4, FS_Subset
<1>6. Cardinality(A) \in Nat /\ Cardinality(B) \in Nat
  BY <1>1, FS_CardinalityType
<1> QED
  BY <1>2, <1>3, <1>5, <1>6

LEMMA Counted ==
  ASSUME CountInv
  PROVE  CountedOnce
<1>1. ASSUME NEW type PROVE IsFiniteSet(OfType(type))
  <2>1. OfType(type) \in SUBSET Records
    BY DEF OfType, Records
  <2> QED
    BY <2>1, FS_Subset DEF CountInv
<1>2. ASSUME NEW type
      PROVE  Cardinality({u \in OfType(type) : user[u].status})
               + Cardinality({u \in OfType(type) : user[u].is_restricted})
               <= Cardinality(OfType(type))
  <2>1. PICK A \in SUBSET OfType(type) : A = {u \in OfType(type) : user[u].status}
    OBVIOUS
  <2>2. PICK B \in SUBSET OfType(type) : B = {u \in OfType(type) : user[u].is_restricted}
    OBVIOUS
  <2>3. A \cap B = {}
    BY <2>1, <2>2 DEF OfType, CountInv, Suspended
  <2>4. IsFiniteSet(OfType(type))
    BY <1>1
  <2> QED
    BY <2>1, <2>2, <2>3, <2>4, Parts
<1>3. UsersPage("teacher", NULL) = OfType("teacher")
  <2>1. "teacher" # NULL
    BY RowsAssumption DEF Types
  <2> QED
    BY <2>1 DEF UsersPage, OfType
<1> QED
  BY <1>2, <1>3 DEF CountedOnce, TutorStates, StudentCounts, RestrictedTeachers, RestrictedStudents

(* 'activeTutors' and 'suspend' of the tutors' page, 'activeStudents' and  *)
(* the list of restricted students: nobody is counted twice, whatever      *)
(* restrictions, decisions and updates overlap, and the lists are as long  *)
(* as their counts.                                                        *)
THEOREM CountsCorrect == Spec => []CountedOnce
<1>1. ASSUME Init PROVE CountInv
  <2>1. PICK rows : /\ Left(rows) /\ user = rows
                    /\ \A u \in Accounts : Present(u) <=> u \in Rows(rows)
    BY <1>1, Start
  <2>2. Records = Rows(rows) /\ Suspended
    BY <2>1 DEF Records, Rows, Suspended, Left
  <2> QED
    BY <2>1, <2>2 DEF CountInv, Left
<1>2. AInv /\ CountInv /\ [Next]_avars => CountInv'
  BY Step, QuietStep, RowsFinite, SuspendedStep DEF CountInv
<1> QED
  BY <1>1, <1>2, Counted, Invariance, PTL DEF Spec

=============================================================================
