------------------------------ MODULE Accounts ------------------------------
(***************************************************************************)
(* Accounts as a whole: users, administrators and the mail worker acting   *)
(* on the same tables, any of their requests interleaved between any two   *)
(* statements, and failing between them.                                   *)
(***************************************************************************)
EXTENDS Moderation

(* Time passes while everything else waits.                                *)
Tick ==
  /\ clock < MaxClock
  /\ clock' = clock + 1
  /\ UNCHANGED <<tables, post, request, faults, history>>

(* What a request that ends early leaves half done.                        *)
HalfDone(r) ==
  {c \in Codes : Holds(r, c)} \cup {u \in Accounts : Deciding(r, u)}

(* A statement rejects: the request ends where it stands and what it has   *)
(* written stays written.  (createUser catches what goes wrong after the   *)
(* row was inserted, and the registration is answered as if all was well.) *)
StatementFails(r) ==
  /\ faults < MaxFaults /\ request[r] # Idle
  /\ faults' = faults + 1
  /\ Finish(r)
  /\ disturbed' = disturbed \cup HalfDone(r)
  /\ UNCHANGED <<tables, post, clock, held, spent, reused>>

(* The process dies with every request in progress; the tables, the queue  *)
(* and the tokens are kept elsewhere.                                      *)
Crash ==
  /\ faults < MaxFaults
  /\ faults' = faults + 1
  /\ request' = [r \in Requests |-> Idle]
  /\ disturbed' = disturbed \cup UNION {HalfDone(r) : r \in Requests}
  /\ UNCHANGED <<tables, post, clock, held, spent, reused>>

Next ==
  \/ AuthNext \/ ModerationNext \/ MailNext \/ LogoutNext
  \/ Tick \/ Crash
  \/ \E r \in Requests : StatementFails(r)

Spec == Init /\ [][Next]_avars

(* Registrations in progress are continued, and the worker works the queue *)
(* off.                                                                    *)
RegisterStep(r) ==
  \/ \E u \in Accounts : RegisterCreate(r, u)
  \/ RegisterRefused(r) \/ RegisterBilling(r) \/ RegisterAdmins(r)
  \/ \E c \in Codes : RegisterCode(r, c)
  \/ RegisterOrphan(r) \/ RegisterMail(r)

Fairness ==
  /\ \A r \in Requests : WF_avars(RegisterStep(r))
  /\ WF_avars(Deliver)

FairSpec == Spec /\ Fairness

----------------------------------------------------------------------------
(* Every account keeps what AccountContract promises: handlers that read   *)
(* an account and write it later neither reopen a deleted one nor give an  *)
(* address to two, in whatever order their statements come.                *)
View(row) ==
  CASE row = NULL -> [stage |-> "none"]
    [] row = Gone -> [stage |-> "closed"]
    [] OTHER -> [stage |-> IF row.verified = NULL THEN "open" ELSE "verified",
                 address |-> row.email]

Contract == INSTANCE AccountContract WITH account <- [u \in Accounts |-> View(user[u])]

AccountKept == Contract!CSpec

(* No address has been of two accounts.                                    *)
AddressesKept ==
  \A u, v \in Accounts : u # v => held[u] \cap held[v] = {}

(* The password of an account was chosen by its user, by a reader of an    *)
(* address it has had, or by an administrator, and it was verified by a    *)
(* reader of such an address: although codes are looked up by address and  *)
(* rows are written by address or id some statements after they were read. *)
(* (Not so once an address changes hands.)                                 *)
WrittenByItsOwn ==
  AddressesKept => \A u \in Accounts : Present(u) =>
    /\ user[u].password \in {u, "admin", NULL} \cup held[u]
    /\ user[u].verified \in {NULL} \cup held[u]

(* A code changes one row once, unless two requests on it overlapped or    *)
(* one of them failed before it had deleted the code.                      *)
CodeUsedOnce == reused \subseteq disturbed

(* A registration that stored its user is followed by a letter with a code *)
(* to its address, unless something failed or the user was deleted.        *)
Registering(u) ==
  \E r \in Requests :
    /\ request[r].pc \in {"register.billing", "register.admins", "register.code", "register.mail"}
    /\ request[r].user = u

RegisteredGetsLink ==
  \A u \in Accounts : Registering(u) ~>
    (\/ \E l \in inbox : l.to \in held[u] /\ l.code # NULL
     \/ faults > 0 \/ user[u] = Gone)
=============================================================================
