-------------------------- MODULE BookingContract --------------------------
(***************************************************************************)
(* What the platform promises about one booking, whoever calls what and    *)
(* whatever fails: it is made once, it is joined only after it has been    *)
(* paid, it is completed only after it has been joined, and none of this   *)
(* is ever taken back.                                                     *)
(***************************************************************************)
CONSTANT Bookings

VARIABLES
  stage,  \* none, booked, joined, completed
  paid    \* the bookings that are paid

cvars == <<stage, paid>>

CInit ==
  /\ stage = [b \in Bookings |-> "none"]
  /\ paid = {}

Make(b) ==
  /\ stage[b] = "none"
  /\ stage' = [stage EXCEPT ![b] = "booked"]
  /\ UNCHANGED paid

MarkPaid(b) ==
  /\ stage[b] # "none"
  /\ paid' = paid \cup {b}
  /\ UNCHANGED stage

Attend(b) ==
  /\ stage[b] = "booked" /\ b \in paid
  /\ stage' = [stage EXCEPT ![b] = "joined"]
  /\ UNCHANGED paid

Complete(b) ==
  /\ stage[b] = "joined"
  /\ stage' = [stage EXCEPT ![b] = "completed"]
  /\ UNCHANGED paid

CNext == \E b \in Bookings : Make(b) \/ MarkPaid(b) \/ Attend(b) \/ Complete(b)

Contract == CInit /\ [][CNext]_cvars
=============================================================================
