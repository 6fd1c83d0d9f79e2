-------------------------- MODULE SessionContract --------------------------
(***************************************************************************)
(* What the platform promises about sessions and what is booked of them,   *)
(* whoever holds the id of a session while it is withdrawn: an id is       *)
(* offered once and withdrawn for good; a booking is made of a session     *)
(* that is offered, keeps it until it is withdrawn, and then all bookings  *)
(* of it lose it in the same moment; a session is completed only after a   *)
(* booking that still is of it has ended; and nothing of this is taken     *)
(* back.                                                                   *)
(***************************************************************************)
CONSTANTS Sessions, Bookings, NULL

VARIABLES
  offered, withdrawn,  \* sessions that are there, and that were
  started, completed,  \* of those that are there
  made, ended,         \* bookings
  of                   \* the session of a booking, NULL if there is none

svars == <<offered, withdrawn, started, completed, made, ended, of>>

SInit ==
  /\ offered = {} /\ withdrawn = {} /\ started = {} /\ completed = {}
  /\ made = {} /\ ended = {}
  /\ of = [b \in Bookings |-> NULL]

Offer(s) ==
  /\ s \notin offered \cup withdrawn
  /\ offered' = offered \cup {s}
  /\ UNCHANGED <<withdrawn, started, completed, made, ended, of>>

Begin(s) ==
  /\ s \in offered
  /\ started' = started \cup {s}
  /\ UNCHANGED <<offered, withdrawn, completed, made, ended, of>>

Reserve(b, s) ==
  /\ b \notin made /\ s \in offered
  /\ made' = made \cup {b}
  /\ of' = [of EXCEPT ![b] = s]
  /\ UNCHANGED <<offered, withdrawn, started, completed, ended>>

End(b) ==
  /\ b \in made
  /\ ended' = ended \cup {b}
  /\ UNCHANGED <<offered, withdrawn, started, completed, made, of>>

Close(s) ==
  /\ s \in offered
  /\ \E b \in ended : of[b] = s
  /\ completed' = completed \cup {s}
  /\ UNCHANGED <<offered, withdrawn, started, made, ended, of>>

Withdraw(s) ==
  /\ s \in offered
  /\ offered' = offered \ {s} /\ withdrawn' = withdrawn \cup {s}
  /\ started' = started \ {s} /\ completed' = completed \ {s}
  /\ of' = [b \in Bookings |-> IF of[b] = s THEN NULL ELSE of[b]]
  /\ UNCHANGED <<made, ended>>

SNext ==
  \/ \E s \in Sessions : Offer(s) \/ Begin(s) \/ Close(s) \/ Withdraw(s)
  \/ \E b \in Bookings : End(b) \/ \E s \in Sessions : Reserve(b, s)

Contract == SInit /\ [][SNext]_svars
=============================================================================
