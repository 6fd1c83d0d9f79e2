-------------------------- MODULE AccountContract --------------------------
(***************************************************************************)
(* What a user may rely on about an account, whatever handlers, mails and  *)
(* failures lie behind it: an address names one account at a time, an      *)
(* account is verified only after it was opened, and a closed one stays    *)
(* closed.                                                                 *)
(***************************************************************************)
CONSTANTS Accounts, Emails

VARIABLE account

None   == [stage |-> "none"]
Closed == [stage |-> "closed"]

Open(u) == account[u].stage \in {"open", "verified"}
Free(email) == \A u \in Accounts : Open(u) => account[u].address # email

CInit == account \in [Accounts -> {None} \cup [stage: {"open", "verified"}, address: Emails]]
           /\ \A u, v \in Accounts : Open(u) /\ Open(v) /\ u # v =>
                account[u].address # account[v].address

COpen(u, email) ==
  /\ account[u] = None /\ Free(email)
  /\ account' = [account EXCEPT ![u] = [stage |-> "open", address |-> email]]

CVerify(u) ==
  /\ Open(u)
  /\ account' = [account EXCEPT ![u].stage = "verified"]

CMove(u, email) ==
  /\ Open(u) /\ Free(email)
  /\ account' = [account EXCEPT ![u].address = email]

CClose(u) ==
  /\ Open(u)
  /\ account' = [account EXCEPT ![u] = Closed]

CNext ==
  \E u \in Accounts :
    CVerify(u) \/ CClose(u) \/ \E email \in Emails : COpen(u, email) \/ CMove(u, email)

CSpec == CInit /\ [][CNext]_account
=============================================================================
