----------------------------- MODULE MCAccounts -----------------------------
(* Instances of Accounts for TLC.  Each starts from some of the states     *)
(* that Init allows.                                                       *)
EXTENDS AccountPages, TLC

CONSTANTS e1, e2, e3

(* Requests, accounts and codes are interchangeable.                       *)
AccountsSymmetry ==
  Permutations(Requests) \cup Permutations(Accounts) \cup Permutations(Codes)

(* Nobody has registered yet.                                              *)
EmptyInit == LET rows == [u \in Accounts |-> NULL] IN Left(rows) /\ InitWith(rows)
RegisterSpec == EmptyInit /\ [][Next]_avars /\ Fairness

(* A later moment: the first accounts are verified and log in with a       *)
(* password of their own, one per address in the order of the sequence.    *)
KnownRows(types) ==
  {rows \in [Accounts -> {NULL} \cup
       {[NewUser(e, types[e], NULL, NULL) EXCEPT !.verified = e] : e \in DOMAIN types}] :
     \A e \in DOMAIN types : Cardinality({u \in Accounts : rows[u] # NULL /\ rows[u].email = e}) = 1}

KnownInit(types) ==
  \E known \in KnownRows(types) :
    LET rows == [u \in Accounts |->
                   IF known[u] = NULL THEN NULL ELSE [known[u] EXCEPT !.password = u]] IN
    Left(rows) /\ InitWith(rows)

(* Two students.                                                           *)
StudentsInit == KnownInit((e1 :> "student") @@ (e2 :> "student"))
StudentsSpec == StudentsInit /\ [][Next]_avars

(* A tutor, who waits for a decision.                                      *)
TutorInit == KnownInit(e1 :> "teacher")
TutorSpec == TutorInit /\ [][Next]_avars
=============================================================================
