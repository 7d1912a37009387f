------------------------------ MODULE SlotBooking ------------------------------
(***************************************************************************)
(* Candidates book AI-interview slots over a public link                   *)
(* (backend/routers/crm/slots.py, services/slot_booking.py).               *)
(*                                                                         *)
(* A confirmation reads its booking without a lock, locks the slot row     *)
(* (SELECT ... FOR UPDATE) or mints a slot of its own for the time the     *)
(* candidate proposes, schedules the interview in the legacy database, a   *)
(* transaction of its own, and writes booking and slot in one commit.      *)
(* Recruiters meanwhile publish and delete slots, re-invite candidates who *)
(* missed theirs and delete applications; a slot's time passes.            *)
(*                                                                         *)
(* Abstractions.  One requirement; a booking stands for its resume.  Slots *)
(* are identities that are used once.  The flush of a confirmation's       *)
(* writes and its commit are one step: the row locks between them only     *)
(* delay other writers.  Contact details, mails and profiles are left out. *)
(***************************************************************************)
EXTENDS Naturals, FiniteSets

CONSTANTS
  Booking,        \* applications that may be invited
  Slot, NoSlot,   \* slot rows
  Session,        \* confirmations in flight
  BookingOf,      \* BookingOf[c]: the booking whose link session c submits
  Nobody,         \* no session
  Recruiter, NoBooking,
  Capacities,     \* capacities recruiters publish
  MaxAborts,      \* bound: confirmations that fail
  MaxDeletes      \* bound: applications deleted

ASSUME BookingAssumption ==
  /\ BookingOf \in [Session -> Booking]
  /\ NoSlot \notin Slot /\ Nobody \notin Session /\ NoBooking \notin Booking
  /\ Capacities \subseteq Nat \ {0}
  /\ MaxAborts \in Nat /\ MaxDeletes \in Nat
  /\ IsFiniteSet(Booking)

VARIABLES
  slot,           \* slot[s]: the interview_slots row
  holder,         \* holder[s]: the session that holds the row lock of s
  booking,        \* booking[b]: the slot_bookings row
  conf,           \* conf[c]: where confirmation c stands
  resetting,      \* resetting[t]: booking recruiter t has read and will reopen
  deleting,       \* deleting[t]: slot recruiter t has checked and will delete
  interview,      \* interview[b][s]: interviews in the legacy database
  link,           \* link[b][s]: ai_interview_links rows
  leaked,         \* leaked[s]: seats of s kept by no booking (history)
  used            \* what the environment has used of its bounds

slotVars == <<slot, holder>>
recruiterVars == <<resetting, deleting>>
vars == <<slot, holder, booking, conf, resetting, deleting, interview, link,
          leaked, used>>

SlotRec == [stage : {"none", "draft", "open", "deleted"}, capacity : Nat,
            booked : Nat, past : BOOLEAN]
FreshSlot(stage, capacity) ==
  [stage |-> stage, capacity |-> capacity, booked |-> 0, past |-> FALSE]

BookingRec == [status : {"none", "Pending", "Confirmed", "deleted"},
               slot : Slot \cup {NoSlot}]
\* Mutant: a status the readers of slot_bookings do not know.
BookedOn(s) == [status |-> "Booked", slot |-> s]
ConfirmedOn(s) == [status |-> "Confirmed", slot |-> s]
Unbooked(status) == [status |-> status, slot |-> NoSlot]

\* seen: the booked_count the session loaded with the slot row.
ConfRec == [at : {"idle", "read", "held", "scheduled"}, slot : Slot \cup {NoSlot},
            seen : Nat]
Idle == [at |-> "idle", slot |-> NoSlot, seen |-> 0]

Init ==
  /\ slot = [s \in Slot |-> FreshSlot("none", 0)]
  /\ holder = [s \in Slot |-> Nobody]
  /\ booking = [b \in Booking |-> Unbooked("none")]
  /\ conf = [c \in Session |-> Idle]
  /\ resetting = [t \in Recruiter |-> NoBooking]
  /\ deleting = [t \in Recruiter |-> NoSlot]
  /\ interview = [b \in Booking |-> [s \in Slot |-> 0]]
  /\ link = [b \in Booking |-> [s \in Slot |-> 0]]
  /\ leaked = [s \in Slot |-> 0]
  /\ used = [aborts |-> 0, deletes |-> 0]

Confirmed(b) == booking[b].status = "Confirmed"
Holders(s) == {b \in Booking : Confirmed(b) /\ booking[b].slot = s}

\* The seat b holds, if any, is left behind: no code path lowers booked_count.
LeaveSeat(b) ==
  leaked' = [s \in Slot |-> IF s = booking[b].slot THEN leaked[s] + 1 ELSE leaked[s]]

-----------------------------------------------------------------------------
(* Confirmation (confirm_booking).                                          *)

\* The request names a slot it was shown, or a time of its own (NoSlot); the
\* booking is read, unlocked, and is Pending.
Arrive(c, s) ==
  /\ conf[c].at = "idle" /\ booking[BookingOf[c]].status = "Pending"
  /\ s # NoSlot => slot[s].stage \in {"open", "deleted"}
  /\ conf' = [conf EXCEPT ![c] = [at |-> "read", slot |-> s, seen |-> 0]]
  /\ UNCHANGED <<slotVars, booking, recruiterVars, interview, link, leaked, used>>

\* Mutant: the SELECT is not FOR UPDATE.
NeverLocked(s) == FALSE
Locked(s) == holder[s] # Nobody

\* Mutant: one booking too many.
HasRoom(s) == slot[s].booked <= slot[s].capacity
HasSeat(s) == slot[s].booked < slot[s].capacity
Bookable(s) == slot[s].stage = "open" /\ ~slot[s].past /\ HasSeat(s)

\* SELECT ... FOR UPDATE, once nobody else holds the row, and its checks.
TakeSlot(c, s) ==
  /\ conf[c].at = "read" /\ conf[c].slot = s /\ s # NoSlot
  /\ ~Locked(s) /\ Bookable(s)
  /\ holder' = [holder EXCEPT ![s] = c]
  /\ conf' = [conf EXCEPT ![c] = [at |-> "held", slot |-> s, seen |-> slot[s].booked]]
  /\ UNCHANGED <<slot, booking, recruiterVars, interview, link, leaked, used>>

\* 404, 400 or 409: the slot is gone, past or full.
Refused(c, s) ==
  /\ conf[c].at = "read" /\ conf[c].slot = s /\ s # NoSlot
  /\ ~Locked(s) /\ ~Bookable(s)
  /\ conf' = [conf EXCEPT ![c] = Idle]
  /\ UNCHANGED <<slotVars, booking, recruiterVars, interview, link, leaked, used>>

\* 400: the proposed time is too near or too far.
RefusedTime(c) ==
  /\ conf[c].at = "read" /\ conf[c].slot = NoSlot
  /\ conf' = [conf EXCEPT ![c] = Idle]
  /\ UNCHANGED <<slotVars, booking, recruiterVars, interview, link, leaked, used>>

\* A slot of capacity 1 is minted for the candidate's own time and flushed.
ProposeTime(c, s) ==
  /\ conf[c].at = "read" /\ conf[c].slot = NoSlot /\ slot[s].stage = "none"
  /\ slot' = [slot EXCEPT ![s] = FreshSlot("draft", 1)]
  /\ holder' = [holder EXCEPT ![s] = c]
  /\ conf' = [conf EXCEPT ![c] = [at |-> "held", slot |-> s, seen |-> 0]]
  /\ UNCHANGED <<booking, recruiterVars, interview, link, leaked, used>>

\* create_interview_schedule commits in the legacy database.
Schedule(c) ==
  /\ conf[c].at = "held"
  /\ interview' = [interview EXCEPT ![BookingOf[c]][conf[c].slot] = @ + 1]
  /\ conf' = [conf EXCEPT ![c].at = "scheduled"]
  /\ UNCHANGED <<slotVars, booking, recruiterVars, link, leaked, used>>

Release(c) == holder' = [s \in Slot |-> IF holder[s] = c THEN Nobody ELSE holder[s]]

\* Booking, slot and interview link are written and committed.
Confirm(c) ==
  LET b == BookingOf[c]
      s == conf[c].slot IN
  /\ conf[c].at = "scheduled" /\ booking[b].status # "deleted"
  /\ booking' = [booking EXCEPT ![b] = ConfirmedOn(s)]
  /\ slot' = [slot EXCEPT ![s] = [@ EXCEPT !.stage = "open", !.booked = conf[c].seen + 1]]
  /\ link' = [link EXCEPT ![b][s] = @ + 1]
  /\ LeaveSeat(b)
  /\ Release(c)
  /\ conf' = [conf EXCEPT ![c] = Idle]
  /\ UNCHANGED <<recruiterVars, interview, used>>

\* Mutant: a failed request keeps its connection and its lock.
KeepsLock(c) == holder' = holder
DropLock(c) == Release(c)

\* The request fails: the scheduling (502), an exception, the commit, or the
\* UPDATE of a booking whose application was deleted.  The session rolls back.
Abort(c) ==
  LET gone == booking[BookingOf[c]].status = "deleted" IN
  /\ conf[c].at \in {"held", "scheduled"}
  /\ gone \/ used.aborts < MaxAborts
  /\ used' = IF gone THEN used ELSE [used EXCEPT !.aborts = @ + 1]
  /\ slot' = [s \in Slot |-> IF s = conf[c].slot /\ slot[s].stage = "draft"
                             THEN FreshSlot("none", 0) ELSE slot[s]]
  /\ DropLock(c)
  /\ conf' = [conf EXCEPT ![c] = Idle]
  /\ UNCHANGED <<booking, recruiterVars, interview, link, leaked>>

-----------------------------------------------------------------------------
(* Recruiters.                                                              *)

\* create_slots.
CreateSlot(s, capacity) ==
  /\ slot[s].stage = "none"
  /\ slot' = [slot EXCEPT ![s] = FreshSlot("open", capacity)]
  /\ UNCHANGED <<holder, booking, conf, recruiterVars, interview, link, leaked, used>>

\* get_or_create_booking; a second insert for the resume fails on the unique
\* resume_id and changes nothing.
Invite(b) ==
  /\ booking[b].status = "none"
  /\ booking' = [booking EXCEPT ![b] = Unbooked("Pending")]
  /\ UNCHANGED <<slotVars, conf, recruiterVars, interview, link, leaked, used>>

FutureBooking(b) == Confirmed(b) /\ ~slot[booking[b].slot].past

\* _reset_missed_booking: the check of a re-invitation ...
ReadMissed(t, b) ==
  /\ resetting[t] = NoBooking /\ Confirmed(b) /\ ~FutureBooking(b)
  /\ resetting' = [resetting EXCEPT ![t] = b]
  /\ UNCHANGED <<slotVars, booking, conf, deleting, interview, link, leaked, used>>

\* ... and its write, which does not look again.
Reopen(t) ==
  LET b == resetting[t] IN
  /\ b # NoBooking
  /\ resetting' = [resetting EXCEPT ![t] = NoBooking]
  /\ IF booking[b].status = "deleted" THEN UNCHANGED <<booking, leaked>>
     ELSE booking' = [booking EXCEPT ![b] = Unbooked("Pending")] /\ LeaveSeat(b)
  /\ UNCHANGED <<slotVars, conf, deleting, interview, link, used>>

\* delete_slot: the count of confirmed bookings ...
CheckUnused(t, s) ==
  /\ deleting[t] = NoSlot /\ slot[s].stage = "open" /\ Holders(s) = {}
  /\ deleting' = [deleting EXCEPT ![t] = s]
  /\ UNCHANGED <<slotVars, booking, conf, resetting, interview, link, leaked, used>>

\* Mutant: slot_bookings.slot_id has no foreign key.
NoForeignKey(s) == FALSE
\* slot_bookings.slot_id is a foreign key.
Referenced(s) == \E b \in Booking : booking[b].slot = s

\* ... and the DELETE, which waits for the row lock; a referenced row stays.
DeleteSlot(t) ==
  LET s == deleting[t] IN
  /\ s # NoSlot /\ ~Locked(s)
  /\ slot' = IF Referenced(s) THEN slot ELSE [slot EXCEPT ![s].stage = "deleted"]
  /\ deleting' = [deleting EXCEPT ![t] = NoSlot]
  /\ UNCHANGED <<holder, booking, conf, resetting, interview, link, leaked, used>>

\* delete_resume takes the booking with it.
DeleteResume(b) ==
  /\ booking[b].status \in {"Pending", "Confirmed"} /\ used.deletes < MaxDeletes
  /\ booking' = [booking EXCEPT ![b] = Unbooked("deleted")]
  /\ LeaveSeat(b)
  /\ used' = [used EXCEPT !.deletes = @ + 1]
  /\ UNCHANGED <<slotVars, conf, recruiterVars, interview, link>>

TimePasses(s) ==
  /\ slot[s].stage \in {"draft", "open"} /\ ~slot[s].past
  /\ slot' = [slot EXCEPT ![s].past = TRUE]
  /\ UNCHANGED <<holder, booking, conf, recruiterVars, interview, link, leaked, used>>

-----------------------------------------------------------------------------
Progress(c) ==
  \/ \E s \in Slot : TakeSlot(c, s) \/ Refused(c, s) \/ ProposeTime(c, s)
  \/ RefusedTime(c) \/ Schedule(c) \/ Confirm(c) \/ Abort(c)

ConfirmStep(c) ==
  \/ \E s \in Slot \cup {NoSlot} : Arrive(c, s)
  \/ Progress(c)

RecruiterStep(t) ==
  \/ \E b \in Booking : ReadMissed(t, b)
  \/ \E s \in Slot : CheckUnused(t, s)
  \/ Reopen(t) \/ DeleteSlot(t)

Next ==
  \/ \E c \in Session : ConfirmStep(c)
  \/ \E t \in Recruiter : RecruiterStep(t)
  \/ \E s \in Slot : TimePasses(s) \/ \E capacity \in Capacities : CreateSlot(s, capacity)
  \/ \E b \in Booking : Invite(b) \/ DeleteResume(b)

Spec == Init /\ [][Next]_vars

(* A request handler that has started runs to its end.                      *)
FairSpec == Spec /\ \A c \in Session : WF_vars(Progress(c))
-----------------------------------------------------------------------------
(* Properties.                                                              *)

\* The types of the tables, of what sessions hold of them and of the history.
TypeOK ==
  /\ slot \in [Slot -> SlotRec]
  /\ holder \in [Slot -> Session \cup {Nobody}]
  /\ booking \in [Booking -> BookingRec]
  /\ conf \in [Session -> ConfRec]
  /\ resetting \in [Recruiter -> Booking \cup {NoBooking}]
  /\ deleting \in [Recruiter -> Slot \cup {NoSlot}]
  /\ interview \in [Booking -> [Slot -> Nat]] /\ link \in [Booking -> [Slot -> Nat]]
  /\ leaked \in [Slot -> Nat]
  /\ used \in [aborts : Nat, deletes : Nat]

\* "Lock the slot row so two candidates can't take the last seat concurrently":
\* a slot never has more confirmed bookings than its capacity.
NoOverbooking ==
  \A s \in Slot : Cardinality(Holders(s)) <= slot[s].capacity

\* Every seat counted in booked_count is held by a confirmed booking or was left
\* behind by one (reopened, rebooked by a second submission, deleted with its
\* application): no concurrent confirmation is ever lost from the counter.
SeatsAccounted ==
  \A s \in Slot : slot[s].booked = Cardinality(Holders(s)) + leaked[s]

\* A confirmed booking has its slot, its interview and the link between them,
\* whatever recruiters delete while it is being confirmed.
ConfirmedIsWhole ==
  \A b \in Booking : Confirmed(b) =>
    LET s == booking[b].slot IN
    /\ s \in Slot /\ slot[s].stage = "open"
    /\ link[b][s] > 0 /\ interview[b][s] >= link[b][s]

\* What the promise of SeatPromise sees of a slot and of a booking.  A slot minted
\* for a confirmation that is not committed is not published.
Offer(s) ==
  CASE slot[s].stage = "open" -> "offered"
    [] slot[s].stage = "deleted" -> "withdrawn"
    [] OTHER -> "unpublished"
Left(s) == IF slot[s].stage = "open" THEN slot[s].capacity - slot[s].booked ELSE 0
Applicant(b) ==
  CASE booking[b].status = "Pending" -> "invited"
    [] booking[b].status = "Confirmed" -> "booked"
    [] booking[b].status = "deleted" -> "gone"
    [] OTHER -> "none"

Promise == INSTANCE SeatPromise WITH
  offer <- [s \in Slot |-> Offer(s)], left <- [s \in Slot |-> Left(s)],
  applicant <- [b \in Booking |-> Applicant(b)], place <- [b \in Booking |-> booking[b].slot]

\* Refinement: whatever confirmations overlap, fail or wait, each of their commits
\* hands out one seat that was left, together with the booking that gets it.
KeepsSeatPromise == Promise!Spec

\* A confirmation that waits for a slot row gets its answer.
ConfirmEnds == \A c \in Session : (conf[c].at = "read") ~> (conf[c].at = "idle")

-----------------------------------------------------------------------------
(* Statements of the documentation that the code does not keep.             *)

\* confirm_booking answers "This booking is already confirmed": one booking
\* never has two interviews ahead of it.
OneInterviewPerBooking ==
  \A b \in Booking, s, z \in Slot :
    ~slot[s].past /\ ~slot[z].past /\ link[b][s] > 0 /\ link[b][z] > 0 =>
      s = z /\ link[b][s] = 1

\* _reset_missed_booking: "A confirmed FUTURE booking is deliberately untouchable
\* from here: resetting it would silently cancel a live interview."
FutureBookingUntouched ==
  [][\A b \in Booking : FutureBooking(b) => booking'[b].status # "Pending"]_vars

\* upcoming_open_slots: "Future slots on the requirement that still have
\* capacity left."
SlotsWithSeatsAreListed ==
  \A s \in Slot : slot[s].stage = "open" /\ ~slot[s].past
      /\ Cardinality(Holders(s)) < slot[s].capacity => HasSeat(s)
=============================================================================
