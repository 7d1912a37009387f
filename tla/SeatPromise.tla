------------------------------ MODULE SeatPromise ------------------------------
(***************************************************************************)
(* What slot booking promises recruiters and candidates, with no sessions, *)
(* locks, counters or second database: a seat is handed out once, in one   *)
(* step with the booking that gets it, and only while one is left; a slot  *)
(* somebody is booked on is not withdrawn.  It does not promise that a     *)
(* seat comes back, or that a booking keeps the first seat it was given.   *)
(***************************************************************************)
EXTENDS Naturals

CONSTANTS
  Booking, Slot, NoSlot,
  Capacities      \* seats a recruiter may offer on a slot

VARIABLES
  offer,          \* offer[s]: s is not published yet, offered or withdrawn
  left,           \* left[s]: seats of s nobody was given
  applicant,      \* applicant[b]: none, invited, booked or gone
  place           \* place[b]: the slot b is booked on, or NoSlot

vars == <<offer, left, applicant, place>>

Init ==
  /\ offer = [s \in Slot |-> "unpublished"]
  /\ left = [s \in Slot |-> 0]
  /\ applicant = [b \in Booking |-> "none"]
  /\ place = [b \in Booking |-> NoSlot]

Publish(s, seats) ==
  /\ offer[s] = "unpublished"
  /\ offer' = [offer EXCEPT ![s] = "offered"]
  /\ left' = [left EXCEPT ![s] = seats]
  /\ UNCHANGED <<applicant, place>>

\* Only a slot on which nobody is booked.
Withdraw(s) ==
  /\ offer[s] = "offered" /\ \A b \in Booking : place[b] # s
  /\ offer' = [offer EXCEPT ![s] = "withdrawn"]
  /\ left' = [left EXCEPT ![s] = 0]
  /\ UNCHANGED <<applicant, place>>

Invite(b) ==
  /\ applicant[b] = "none"
  /\ applicant' = [applicant EXCEPT ![b] = "invited"]
  /\ UNCHANGED <<offer, left, place>>

\* b is booked on s; a second submission moves it there.
Book(b, s) ==
  /\ applicant[b] \in {"invited", "booked"}
  /\ applicant' = [applicant EXCEPT ![b] = "booked"]
  /\ place' = [place EXCEPT ![b] = s]

\* The seat is one of those left.
TakeSeat(b, s) ==
  /\ offer[s] = "offered" /\ left[s] > 0
  /\ left' = [left EXCEPT ![s] = @ - 1]
  /\ Book(b, s)
  /\ UNCHANGED offer

\* The seat is made for b, at the time b proposes.
TakeOwnTime(b, s) ==
  /\ offer[s] = "unpublished"
  /\ offer' = [offer EXCEPT ![s] = "offered"]
  /\ Book(b, s)
  /\ UNCHANGED left

Reopen(b) ==
  /\ applicant[b] \in {"invited", "booked"}
  /\ applicant' = [applicant EXCEPT ![b] = "invited"]
  /\ place' = [place EXCEPT ![b] = NoSlot]
  /\ UNCHANGED <<offer, left>>

Remove(b) ==
  /\ applicant[b] \in {"invited", "booked"}
  /\ applicant' = [applicant EXCEPT ![b] = "gone"]
  /\ place' = [place EXCEPT ![b] = NoSlot]
  /\ UNCHANGED <<offer, left>>

Next ==
  \/ \E s \in Slot : Withdraw(s) \/ \E seats \in Capacities : Publish(s, seats)
  \/ \E b \in Booking, s \in Slot : TakeSeat(b, s) \/ TakeOwnTime(b, s)
  \/ \E b \in Booking : Invite(b) \/ Reopen(b) \/ Remove(b)

Spec == Init /\ [][Next]_vars
=============================================================================
