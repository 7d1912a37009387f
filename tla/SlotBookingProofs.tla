--------------------------- MODULE SlotBookingProofs ---------------------------
(***************************************************************************)
(* Proofs about SlotBooking, for every number of slots, candidates,        *)
(* concurrent submissions and recruiters.                                  *)
(***************************************************************************)
EXTENDS SlotBooking, FiniteSetTheorems, TLAPS

\* The initial state is well typed.
LEMMA InitTypeOK == Init => TypeOK
  BY DEF Init, TypeOK, FreshSlot, SlotRec, Unbooked, BookingRec, Idle, ConfRec

\* Adding one to one entry of a counter array.
LEMMA Count ==
  ASSUME NEW f \in [Slot -> Nat], NEW z
  PROVE  [f EXCEPT ![z] = f[z] + 1] \in [Slot -> Nat]
<1>1. \A x \in Slot : [f EXCEPT ![z] = f[z] + 1][x] = IF x = z THEN f[x] + 1 ELSE f[x]
  OBVIOUS
<1>2. \A x \in Slot : f[x] \in Nat /\ f[x] + 1 \in Nat
  OBVIOUS
<1> QED BY <1>1, <1>2

\* Opening a slot row and writing its seat counter.
LEMMA Take ==
  ASSUME NEW row \in SlotRec, NEW n \in Nat
  PROVE  [row EXCEPT !.stage = "open", !.booked = n + 1] \in SlotRec
<1> DEFINE opened == [row EXCEPT !.stage = "open"]
<1>1. opened \in SlotRec
  BY DEF SlotRec
<1>2. [opened EXCEPT !.booked = n + 1] \in SlotRec
  <2> HIDE DEF opened
  <2> QED BY <1>1 DEF SlotRec
<1>3. [row EXCEPT !.stage = "open", !.booked = n + 1] = [opened EXCEPT !.booked = n + 1]
  OBVIOUS
<1> QED BY <1>2, <1>3

\* What one confirmation step writes, by type.
LEMMA ConfirmTypeOK ==
  ASSUME TypeOK, NEW c \in Session, ConfirmStep(c) PROVE TypeOK'
<1> USE DEF TypeOK
<1>0. BookingOf[c] \in Booking /\ conf[c] \in ConfRec
  BY BookingAssumption
<1>1. ASSUME NEW s \in Slot \cup {NoSlot}, Arrive(c, s) PROVE TypeOK'
  BY <1>1 DEF Arrive, slotVars, recruiterVars, ConfRec
<1>2. ASSUME NEW s \in Slot, TakeSlot(c, s) PROVE TypeOK'
  <2>1. slot[s].booked \in Nat
    BY DEF SlotRec
  <2> QED BY <1>2, <2>1 DEF TakeSlot, recruiterVars, ConfRec
<1>3. ASSUME NEW s \in Slot, Refused(c, s) PROVE TypeOK'
  BY <1>3 DEF Refused, slotVars, recruiterVars, ConfRec, Idle
<1>4. ASSUME RefusedTime(c) PROVE TypeOK'
  BY <1>4 DEF RefusedTime, slotVars, recruiterVars, ConfRec, Idle
<1>5. ASSUME NEW s \in Slot, ProposeTime(c, s) PROVE TypeOK'
  <2>1. FreshSlot("draft", 1) \in SlotRec
    BY DEF FreshSlot, SlotRec
  <2> QED BY <1>5, <2>1 DEF ProposeTime, recruiterVars, ConfRec
<1>6. ASSUME Schedule(c) PROVE TypeOK'
  <2>1. [conf[c] EXCEPT !.at = "scheduled"] \in ConfRec
    BY <1>0 DEF ConfRec
  <2>2. conf' \in [Session -> ConfRec]
    BY <1>6, <2>1 DEF Schedule
  <2>3. interview' \in [Booking -> [Slot -> Nat]]
    <3>1. interview[BookingOf[c]] \in [Slot -> Nat]
      BY <1>0
    <3>2. [interview[BookingOf[c]] EXCEPT ![conf[c].slot] = @ + 1] \in [Slot -> Nat]
      BY <3>1, Count
    <3> QED BY <1>6, <3>2 DEF Schedule
  <2> QED BY <1>6, <2>2, <2>3 DEF Schedule, slotVars, recruiterVars
<1>7. ASSUME Confirm(c) PROVE TypeOK'
  <2> DEFINE b == BookingOf[c]
             s == conf[c].slot
  <2>1. s \in Slot \cup {NoSlot} /\ conf[c].seen \in Nat
    BY <1>0 DEF ConfRec
  <2>2. ConfirmedOn(s) \in BookingRec
    BY <2>1 DEF ConfirmedOn, BookingRec
  <2>3. booking' \in [Booking -> BookingRec]
    BY <1>7, <2>2 DEF Confirm
  <2>4. slot' \in [Slot -> SlotRec]
    <3>1. \A z \in Slot : [slot[z] EXCEPT !.stage = "open", !.booked = conf[c].seen + 1]
                             \in SlotRec
      BY <2>1, Take
    <3> QED BY <1>7, <3>1 DEF Confirm
  <2>5. link' \in [Booking -> [Slot -> Nat]]
    <3>1. link[b] \in [Slot -> Nat]
      BY <1>0
    <3>2. [link[b] EXCEPT ![s] = @ + 1] \in [Slot -> Nat]
      BY <3>1, Count
    <3> QED BY <1>7, <3>2 DEF Confirm
  <2>6. leaked' \in [Slot -> Nat]
    BY <1>7 DEF Confirm, LeaveSeat
  <2>7. holder' \in [Slot -> Session \cup {Nobody}]
    BY <1>7 DEF Confirm, Release
  <2>8. conf' \in [Session -> ConfRec]
    BY <1>7 DEF Confirm, Idle, ConfRec
  <2> QED BY <1>7, <2>3, <2>4, <2>5, <2>6, <2>7, <2>8 DEF Confirm, recruiterVars
<1>8. ASSUME Abort(c) PROVE TypeOK'
  <2>1. FreshSlot("none", 0) \in SlotRec
    BY DEF FreshSlot, SlotRec
  <2>2. slot' \in [Slot -> SlotRec]
    BY <1>8, <2>1 DEF Abort
  <2>3. holder' \in [Slot -> Session \cup {Nobody}]
    BY <1>8 DEF Abort, DropLock, Release
  <2>4. conf' \in [Session -> ConfRec]
    BY <1>8 DEF Abort, Idle, ConfRec
  <2>5. used' \in [aborts : Nat, deletes : Nat]
    BY <1>8 DEF Abort
  <2> QED BY <1>8, <2>2, <2>3, <2>4, <2>5 DEF Abort, recruiterVars
<1> QED BY <1>1, <1>2, <1>3, <1>4, <1>5, <1>6, <1>7, <1>8 DEF ConfirmStep, Progress

\* The steps of recruiters and of time.
OtherStep ==
  \/ \E t \in Recruiter : RecruiterStep(t)
  \/ \E s \in Slot : TimePasses(s) \/ \E capacity \in Capacities : CreateSlot(s, capacity)
  \/ \E b \in Booking : Invite(b) \/ DeleteResume(b)

\* Recruiters and time keep the types.
LEMMA OtherTypeOK == ASSUME TypeOK, OtherStep PROVE TypeOK'
<1> USE DEF TypeOK
<1>0. \A status \in {"Pending", "deleted"} : Unbooked(status) \in BookingRec
  BY DEF Unbooked, BookingRec
<1>1. ASSUME NEW t \in Recruiter, NEW b \in Booking, ReadMissed(t, b) PROVE TypeOK'
  BY <1>1 DEF ReadMissed, slotVars
<1>2. ASSUME NEW t \in Recruiter, NEW s \in Slot, CheckUnused(t, s) PROVE TypeOK'
  BY <1>2 DEF CheckUnused, slotVars
<1>3. ASSUME NEW t \in Recruiter, Reopen(t) PROVE TypeOK'
  <2>1. booking' \in [Booking -> BookingRec]
    BY <1>0, <1>3 DEF Reopen
  <2>2. leaked' \in [Slot -> Nat]
    BY <1>3 DEF Reopen, LeaveSeat
  <2>3. resetting' \in [Recruiter -> Booking \cup {NoBooking}]
    BY <1>3 DEF Reopen
  <2> QED BY <1>3, <2>1, <2>2, <2>3 DEF Reopen, slotVars
<1>4. ASSUME NEW t \in Recruiter, DeleteSlot(t) PROVE TypeOK'
  <2>1. slot' \in [Slot -> SlotRec]
    BY <1>4 DEF DeleteSlot, SlotRec
  <2>2. deleting' \in [Recruiter -> Slot \cup {NoSlot}]
    BY <1>4 DEF DeleteSlot
  <2> QED BY <1>4, <2>1, <2>2 DEF DeleteSlot
<1>5. ASSUME NEW s \in Slot, TimePasses(s) PROVE TypeOK'
  <2>1. slot' \in [Slot -> SlotRec]
    BY <1>5 DEF TimePasses, SlotRec
  <2> QED BY <1>5, <2>1 DEF TimePasses, recruiterVars
<1>6. ASSUME NEW s \in Slot, NEW capacity \in Capacities, CreateSlot(s, capacity)
      PROVE  TypeOK'
  <2>1. FreshSlot("open", capacity) \in SlotRec
    BY BookingAssumption DEF FreshSlot, SlotRec
  <2> QED BY <1>6, <2>1 DEF CreateSlot, recruiterVars
<1>7. ASSUME NEW b \in Booking, Invite(b) PROVE TypeOK'
  BY <1>0, <1>7 DEF Invite, slotVars, recruiterVars
<1>8. ASSUME NEW b \in Booking, DeleteResume(b) PROVE TypeOK'
  <2>1. booking' \in [Booking -> BookingRec]
    BY <1>0, <1>8 DEF DeleteResume
  <2>2. leaked' \in [Slot -> Nat]
    BY <1>8 DEF DeleteResume, LeaveSeat
  <2>3. used' \in [aborts : Nat, deletes : Nat]
    BY <1>8 DEF DeleteResume
  <2> QED BY <1>8, <2>1, <2>2, <2>3 DEF DeleteResume, slotVars, recruiterVars
<1> QED BY <1>1, <1>2, <1>3, <1>4, <1>5, <1>6, <1>7, <1>8 DEF OtherStep, RecruiterStep

\* TypeOK is inductive.
LEMMA NextTypeOK == TypeOK /\ [Next]_vars => TypeOK'
<1>1. Next => (\E c \in Session : ConfirmStep(c)) \/ OtherStep
  BY DEF Next, OtherStep
<1>2. UNCHANGED vars /\ TypeOK => TypeOK'
  BY DEF vars, TypeOK
<1> QED BY <1>1, <1>2, ConfirmTypeOK, OtherTypeOK

\* Type correctness of the booking flow.
THEOREM SlotTypeCorrect == Spec => []TypeOK
  BY InitTypeOK, NextTypeOK, PTL DEF Spec

-----------------------------------------------------------------------------
(* The inductive invariant.  SeatsAccounted is not inductive alone: that a  *)
(* confirmation may write booked_count from the value it loaded needs       *)
(* Custody (the row lock is exclusive and the row under it does not move),  *)
(* and that slots which are dropped or deleted take no seat with them needs *)
(* Stages and Whole.                                                        *)

\* A session past its slot check holds the row it loaded, unchanged.
Holding(c) == conf[c].at \in {"held", "scheduled"}
Custody ==
  \A c \in Session : Holding(c) =>
    /\ conf[c].slot \in Slot
    /\ holder[conf[c].slot] = c
    /\ slot[conf[c].slot].stage \in {"draft", "open"}
    /\ slot[conf[c].slot].booked = conf[c].seen
    /\ conf[c].seen < slot[conf[c].slot].capacity

\* Between schedule and commit the legacy database is one interview ahead.
Ahead ==
  \A b \in Booking, s \in Slot :
    /\ interview[b][s] >= link[b][s]
    /\ \A c \in Session : conf[c].at = "scheduled" /\ BookingOf[c] = b /\ conf[c].slot = s
         => interview[b][s] > link[b][s]

Stages ==
  \A s \in Slot :
    /\ slot[s].booked <= slot[s].capacity
    /\ slot[s].stage \in {"none", "draft"} => slot[s].booked = 0

Whole ==
  \A b \in Booking :
    IF Confirmed(b)
    THEN /\ booking[b].slot \in Slot /\ slot[booking[b].slot].stage = "open"
         /\ link[b][booking[b].slot] > 0
    ELSE booking[b].slot = NoSlot

IInv == TypeOK /\ Custody /\ Ahead /\ Stages /\ Whole /\ SeatsAccounted

\* A slot has finitely many confirmed bookings.
LEMMA HoldersFinite ==
  ASSUME NEW s \in Slot
  PROVE  IsFiniteSet(Holders(s)) /\ Cardinality(Holders(s)) \in Nat
  BY BookingAssumption, FS_Subset, FS_CardinalityType DEF Holders

\* The inductive invariant holds initially.
LEMMA InitIInv == Init => IInv
<1> SUFFICES ASSUME Init PROVE IInv
  OBVIOUS
<1>1. TypeOK
  BY InitTypeOK
<1>2. Custody /\ Ahead /\ Stages /\ Whole
  BY BookingAssumption
     DEF Init, Custody, Holding, Ahead, Stages, Whole, Idle, FreshSlot, Unbooked, Confirmed
<1>3. SeatsAccounted
  <2>1. \A s \in Slot : Holders(s) = {}
    BY DEF Init, Holders, Confirmed, Unbooked
  <2>2. \A s \in Slot : slot[s].booked = 0 /\ leaked[s] = 0
    BY DEF Init, FreshSlot
  <2>3. Cardinality({}) = 0
    BY FS_EmptySet
  <2> QED BY <2>1, <2>2, <2>3 DEF SeatsAccounted
<1> QED BY <1>1, <1>2, <1>3 DEF IInv

\* Only b changes its booking: what that does to the holders of a slot z.
On(b, z) == Confirmed(b) /\ booking[b].slot = z

\* How the number of holders of a slot changes with one booking.
LEMMA HoldersChange ==
  ASSUME NEW b \in Booking, NEW z \in Slot,
         \A a \in Booking : a # b => booking'[a] = booking[a]
  PROVE  Cardinality(Holders(z))' =
           Cardinality(Holders(z)) - (IF On(b, z) THEN 1 ELSE 0)
                                   + (IF On(b, z)' THEN 1 ELSE 0)
<1> DEFINE rest == {a \in Booking \ {b} : On(a, z)}
<1>1. IsFiniteSet(rest) /\ Cardinality(rest) \in Nat /\ b \notin rest
  BY BookingAssumption, FS_Subset, FS_CardinalityType
<1>2. \A a \in Booking \ {b} : On(a, z)' <=> On(a, z)
  BY DEF On, Confirmed
<1>3. Holders(z) = IF On(b, z) THEN rest \cup {b} ELSE rest
  BY DEF On, Holders
<1>4. Holders(z)' = IF On(b, z)' THEN rest \cup {b} ELSE rest
  BY <1>2 DEF On, Holders
<1>5. Cardinality(rest \cup {b}) = Cardinality(rest) + 1
  BY <1>1, FS_AddElement
<1> HIDE DEF rest
<1>6. Cardinality(Holders(z)) = Cardinality(rest) + (IF On(b, z) THEN 1 ELSE 0)
  BY <1>1, <1>3, <1>5
<1>7. Cardinality(Holders(z))' = Cardinality(rest) + (IF On(b, z)' THEN 1 ELSE 0)
  BY <1>1, <1>4, <1>5
<1> QED BY <1>1, <1>6, <1>7

\* Without a change of bookings no slot changes its holders.
LEMMA HoldersSame ==
  ASSUME UNCHANGED booking, NEW z \in Slot
  PROVE  Cardinality(Holders(z))' = Cardinality(Holders(z))
  BY DEF Holders, Confirmed

-----------------------------------------------------------------------------
(* Steps that touch no seat.                                                *)

\* A step that changes no shared row keeps the invariant.
LEMMA QuietStep ==
  ASSUME IInv, TypeOK', UNCHANGED <<slotVars, booking, interview, link, leaked>>,
         \A c \in Session : Holding(c)' => conf'[c] = conf[c]
  PROVE  IInv'
<1> USE DEF slotVars
<1>1. Custody'
  BY DEF IInv, Custody, Holding
<1>2. Ahead'
  BY DEF IInv, Ahead, Holding
<1>3. Stages'
  BY DEF IInv, Stages
<1>4. Whole'
  BY DEF IInv, Whole, Confirmed
<1>5. SeatsAccounted'
  BY HoldersSame DEF IInv, SeatsAccounted
<1> QED BY <1>1, <1>2, <1>3, <1>4, <1>5 DEF IInv

\* Arriving and being refused change no shared row.
LEMMA QuietConfirm ==
  ASSUME IInv, NEW c \in Session, TypeOK',
         \/ \E s \in Slot \cup {NoSlot} : Arrive(c, s)
         \/ \E s \in Slot : Refused(c, s)
         \/ RefusedTime(c)
  PROVE  IInv'
<1>1. conf \in [Session -> ConfRec]
  BY DEF IInv, TypeOK
<1>2. /\ UNCHANGED <<slotVars, booking, interview, link, leaked>>
      /\ \A d \in Session : Holding(d)' => conf'[d] = conf[d]
  BY <1>1 DEF Arrive, Refused, RefusedTime, Holding, Idle
<1> QED BY <1>2, QuietStep

\* A step that moves no booking and counts no seat.
LEMMA SeatsKept ==
  ASSUME IInv, UNCHANGED <<booking, leaked>>,
         \A s \in Slot : slot'[s].booked = slot[s].booked
  PROVE  SeatsAccounted'
  BY HoldersSame DEF IInv, SeatsAccounted

\* Locking a slot row loads its current seat counter.
LEMMA TakeSlotStep ==
  ASSUME IInv, TypeOK', NEW c \in Session, NEW s \in Slot, TakeSlot(c, s)
  PROVE  IInv'
<1>0. /\ TypeOK /\ conf \in [Session -> ConfRec] /\ holder \in [Slot -> Session \cup {Nobody}]
      /\ slot[s] \in SlotRec
  BY DEF IInv, TypeOK
<1>1. /\ UNCHANGED <<slot, booking, interview, link, leaked>>
      /\ holder[s] = Nobody /\ slot[s].stage = "open" /\ slot[s].booked < slot[s].capacity
      /\ holder' = [holder EXCEPT ![s] = c]
      /\ conf' = [conf EXCEPT ![c] = [at |-> "held", slot |-> s, seen |-> slot[s].booked]]
  BY DEF TakeSlot, Locked, Bookable, HasSeat
<1>2. Custody'
  <2> SUFFICES ASSUME NEW d \in Session, Holding(d)'
               PROVE  /\ conf'[d].slot \in Slot
                      /\ holder'[conf'[d].slot] = d
                      /\ slot'[conf'[d].slot].stage \in {"draft", "open"}
                      /\ slot'[conf'[d].slot].booked = conf'[d].seen
                      /\ conf'[d].seen < slot'[conf'[d].slot].capacity
    BY DEF Custody
  <2>1. CASE d = c
    BY <1>0, <1>1, <2>1
  <2>2. CASE d # c
    <3>1. conf'[d] = conf[d]
      BY <1>0, <1>1, <2>2
    <3>2. Holding(d)
      BY <3>1 DEF Holding
    <3>3. conf[d].slot # s
      BY <1>1, <3>2, BookingAssumption DEF IInv, Custody
    <3> QED BY <1>0, <1>1, <3>1, <3>2, <3>3 DEF IInv, Custody
  <2> QED BY <2>1, <2>2
<1>3. Ahead'
  BY <1>0, <1>1 DEF IInv, Ahead
<1>4. Stages' /\ Whole'
  BY <1>1 DEF IInv, Stages, Whole, Confirmed
<1>5. SeatsAccounted'
  BY <1>1, SeatsKept
<1> QED BY <1>2, <1>3, <1>4, <1>5 DEF IInv

\* A slot minted for a candidate is the session's own.
LEMMA ProposeTimeStep ==
  ASSUME IInv, TypeOK', NEW c \in Session, NEW s \in Slot, ProposeTime(c, s)
  PROVE  IInv'
<1>0. /\ TypeOK /\ conf \in [Session -> ConfRec] /\ holder \in [Slot -> Session \cup {Nobody}]
      /\ slot \in [Slot -> SlotRec]
  BY DEF IInv, TypeOK
<1>1. /\ UNCHANGED <<booking, interview, link, leaked>> /\ slot[s].stage = "none"
      /\ holder' = [holder EXCEPT ![s] = c]
      /\ slot' = [slot EXCEPT ![s] = FreshSlot("draft", 1)]
      /\ conf' = [conf EXCEPT ![c] = [at |-> "held", slot |-> s, seen |-> 0]]
  BY DEF ProposeTime
<1>2. /\ slot'[s].stage = "draft" /\ slot'[s].booked = 0 /\ slot'[s].capacity = 1
      /\ slot[s].booked = 0
      /\ \A z \in Slot : z # s => slot'[z] = slot[z]
  BY <1>0, <1>1 DEF FreshSlot, IInv, Stages
<1>3. Custody'
  <2> SUFFICES ASSUME NEW d \in Session, Holding(d)'
               PROVE  /\ conf'[d].slot \in Slot
                      /\ holder'[conf'[d].slot] = d
                      /\ slot'[conf'[d].slot].stage \in {"draft", "open"}
                      /\ slot'[conf'[d].slot].booked = conf'[d].seen
                      /\ conf'[d].seen < slot'[conf'[d].slot].capacity
    BY DEF Custody
  <2>1. CASE d = c
    BY <1>0, <1>1, <1>2, <2>1
  <2>2. CASE d # c
    <3>1. conf'[d] = conf[d]
      BY <1>0, <1>1, <2>2
    <3>2. Holding(d)
      BY <3>1 DEF Holding
    <3>3. conf[d].slot # s
      BY <1>1, <3>2 DEF IInv, Custody
    <3> QED BY <1>0, <1>1, <1>2, <3>1, <3>2, <3>3 DEF IInv, Custody
  <2> QED BY <2>1, <2>2
<1>4. Ahead'
  BY <1>0, <1>1 DEF IInv, Ahead
<1>5. Stages'
  BY <1>2 DEF IInv, Stages
<1>6. Whole'
  <2>1. \A b \in Booking : Confirmed(b) => booking[b].slot # s
    BY <1>1 DEF IInv, Whole
  <2> QED BY <1>1, <1>2, <2>1 DEF IInv, Whole, Confirmed
<1>7. SeatsAccounted'
  BY <1>1, <1>2, SeatsKept
<1> QED BY <1>3, <1>4, <1>5, <1>6, <1>7 DEF IInv

\* The interview exists before the link that names it.
LEMMA ScheduleStep ==
  ASSUME IInv, TypeOK', NEW c \in Session, Schedule(c)
  PROVE  IInv'
<1> DEFINE b == BookingOf[c]
           s == conf[c].slot
<1>0. /\ conf \in [Session -> ConfRec] /\ interview \in [Booking -> [Slot -> Nat]]
      /\ link \in [Booking -> [Slot -> Nat]] /\ b \in Booking
  BY BookingAssumption DEF IInv, TypeOK
<1>1. /\ UNCHANGED <<slotVars, booking, link, leaked>> /\ conf[c].at = "held"
      /\ interview' = [interview EXCEPT ![b][s] = @ + 1]
      /\ conf' = [conf EXCEPT ![c].at = "scheduled"]
  BY DEF Schedule
<1>2. /\ conf'[c].at = "scheduled" /\ conf'[c].slot = s /\ conf'[c].seen = conf[c].seen
      /\ \A d \in Session : d # c => conf'[d] = conf[d]
  BY <1>0, <1>1 DEF ConfRec
<1>3. Custody'
  BY <1>1, <1>2 DEF IInv, Custody, Holding, slotVars
<1>4. s \in Slot
  BY <1>1 DEF IInv, Custody, Holding
<1>5. \A a \in Booking, z \in Slot :
        interview'[a][z] = IF a = b /\ z = s THEN interview[a][z] + 1 ELSE interview[a][z]
  BY <1>0, <1>1, <1>4
<1>6. Ahead'
  <2>1. \A a \in Booking, z \in Slot : interview'[a][z] >= link[a][z]
    BY <1>0, <1>5 DEF IInv, Ahead
  <2>2. ASSUME NEW a \in Booking, NEW z \in Slot, NEW d \in Session,
               conf'[d].at = "scheduled", BookingOf[d] = a, conf'[d].slot = z
        PROVE  interview'[a][z] > link[a][z]
    <3>1. CASE d = c
      <4>1. interview'[b][s] = interview[b][s] + 1 /\ interview[b][s] >= link[b][s]
        BY <1>0, <1>4, <1>5 DEF IInv, Ahead
      <4>2. interview[b][s] \in Nat /\ link[b][s] \in Nat
        BY <1>0, <1>4
      <4>3. a = b /\ z = s
        BY <1>2, <2>2, <3>1
      <4> QED BY <4>1, <4>2, <4>3
    <3>2. CASE d # c
      <4>1. interview[a][z] > link[a][z]
        BY <1>2, <2>2, <3>2 DEF IInv, Ahead
      <4>2. interview[a][z] \in Nat /\ link[a][z] \in Nat
        BY <1>0
      <4> QED BY <1>5, <4>1, <4>2
    <3> QED BY <3>1, <3>2
  <2> QED BY <1>1, <2>1, <2>2 DEF Ahead
<1>7. Stages' /\ Whole'
  BY <1>1 DEF IInv, Stages, Whole, Confirmed, slotVars
<1>8. SeatsAccounted'
  BY <1>1, SeatsKept DEF slotVars
<1> QED BY <1>3, <1>6, <1>7, <1>8 DEF IInv

\* A failed confirmation gives back the lock and leaves no draft.
LEMMA AbortStep ==
  ASSUME IInv, TypeOK', NEW c \in Session, Abort(c)
  PROVE  IInv'
<1> DEFINE s == conf[c].slot
<1>0. /\ conf \in [Session -> ConfRec] /\ holder \in [Slot -> Session \cup {Nobody}]
      /\ slot \in [Slot -> SlotRec]
  BY DEF IInv, TypeOK
<1>1. /\ UNCHANGED <<booking, interview, link, leaked>> /\ Holding(c)
      /\ \A z \in Slot : holder'[z] = IF holder[z] = c THEN Nobody ELSE holder[z]
      /\ conf' = [conf EXCEPT ![c] = Idle]
  BY DEF Abort, DropLock, Release, Holding
<1>2. s \in Slot /\ holder[s] = c
  BY <1>1 DEF IInv, Custody
<1>3. \A z \in Slot : slot'[z] = IF z = s /\ slot[z].stage = "draft"
                                 THEN FreshSlot("none", 0) ELSE slot[z]
  BY DEF Abort
<1>4. \A z \in Slot : slot'[z].booked = slot[z].booked
  BY <1>3 DEF IInv, Stages, FreshSlot
<1>5. Custody'
  <2> SUFFICES ASSUME NEW d \in Session, Holding(d)'
               PROVE  /\ conf'[d].slot \in Slot
                      /\ holder'[conf'[d].slot] = d
                      /\ slot'[conf'[d].slot].stage \in {"draft", "open"}
                      /\ slot'[conf'[d].slot].booked = conf'[d].seen
                      /\ conf'[d].seen < slot'[conf'[d].slot].capacity
    BY DEF Custody
  <2>1. d # c
    BY <1>0, <1>1 DEF Holding, Idle
  <2>2. conf'[d] = conf[d] /\ Holding(d)
    BY <1>0, <1>1, <2>1 DEF Holding
  <2>3. conf[d].slot \in Slot /\ holder[conf[d].slot] = d /\ conf[d].slot # s
    BY <1>2, <2>1, <2>2 DEF IInv, Custody
  <2>4. slot'[conf[d].slot] = slot[conf[d].slot] /\ holder'[conf[d].slot] = d
    BY <1>1, <1>3, <2>1, <2>3
  <2> QED BY <2>2, <2>3, <2>4 DEF IInv, Custody
<1>6. Ahead'
  BY <1>0, <1>1 DEF IInv, Ahead, Idle
<1>7. Stages'
  BY <1>3, <1>4 DEF IInv, Stages, FreshSlot
<1>8. Whole'
  <2>1. \A b \in Booking : Confirmed(b) =>
          slot'[booking[b].slot] = slot[booking[b].slot]
    BY <1>3 DEF IInv, Whole
  <2> QED BY <1>1, <2>1 DEF IInv, Whole, Confirmed
<1>9. SeatsAccounted'
  BY <1>1, <1>4, SeatsKept
<1> QED BY <1>5, <1>6, <1>7, <1>8, <1>9 DEF IInv

\* Wherever a booking is taken from a seat, the seat is counted as left behind.
LEMMA SeatLeft ==
  ASSUME IInv, NEW b \in Booking, LeaveSeat(b), NEW z \in Slot
  PROVE  leaked'[z] = leaked[z] + (IF On(b, z) THEN 1 ELSE 0)
<1>1. booking[b].slot = z <=> On(b, z)
  BY BookingAssumption DEF IInv, Whole, On
<1>2. leaked'[z] = IF z = booking[b].slot THEN leaked[z] + 1 ELSE leaked[z]
  BY DEF LeaveSeat
<1>3. leaked[z] \in Nat
  BY DEF IInv, TypeOK
<1> QED BY <1>1, <1>2, <1>3

\* The commit of a confirmation: the seat it counts is the one it takes.
LEMMA ConfirmStepInv ==
  ASSUME IInv, TypeOK', NEW c \in Session, Confirm(c)
  PROVE  IInv'
<1> DEFINE b == BookingOf[c]
           s == conf[c].slot
<1>0. /\ conf \in [Session -> ConfRec] /\ holder \in [Slot -> Session \cup {Nobody}]
      /\ slot \in [Slot -> SlotRec] /\ booking \in [Booking -> BookingRec]
      /\ link \in [Booking -> [Slot -> Nat]] /\ interview \in [Booking -> [Slot -> Nat]]
      /\ b \in Booking
  BY BookingAssumption DEF IInv, TypeOK
<1>1. /\ UNCHANGED interview /\ Holding(c) /\ conf[c].at = "scheduled"
      /\ booking' = [booking EXCEPT ![b] = ConfirmedOn(s)]
      /\ slot' = [slot EXCEPT ![s] = [@ EXCEPT !.stage = "open", !.booked = conf[c].seen + 1]]
      /\ link' = [link EXCEPT ![b][s] = @ + 1]
      /\ LeaveSeat(b)
      /\ \A z \in Slot : holder'[z] = IF holder[z] = c THEN Nobody ELSE holder[z]
      /\ conf' = [conf EXCEPT ![c] = Idle]
  BY DEF Confirm, Release, Holding
<1>2. /\ s \in Slot /\ holder[s] = c
      /\ slot[s].booked = conf[c].seen /\ conf[c].seen < slot[s].capacity
  BY <1>1 DEF IInv, Custody
<1>3. slot[s] \in SlotRec /\ conf[c].seen \in Nat
  BY <1>0, <1>2 DEF ConfRec
<1>4. /\ slot'[s].stage = "open" /\ slot'[s].booked = slot[s].booked + 1
      /\ slot'[s].capacity = slot[s].capacity
      /\ \A z \in Slot : z # s => slot'[z] = slot[z]
  BY <1>0, <1>1, <1>2, <1>3 DEF SlotRec
<1>5. \A a \in Booking, z \in Slot :
        link'[a][z] = IF a = b /\ z = s THEN link[a][z] + 1 ELSE link[a][z]
  BY <1>0, <1>1, <1>2
<1>6. /\ booking'[b] = ConfirmedOn(s)
      /\ \A a \in Booking : a # b => booking'[a] = booking[a]
  BY <1>0, <1>1
<1>7. \A d \in Session : Holding(d)' => d # c /\ conf'[d] = conf[d] /\ Holding(d)
  BY <1>0, <1>1 DEF Holding, Idle
<1>8. Custody'
  <2> SUFFICES ASSUME NEW d \in Session, Holding(d)'
               PROVE  /\ conf'[d].slot \in Slot
                      /\ holder'[conf'[d].slot] = d
                      /\ slot'[conf'[d].slot].stage \in {"draft", "open"}
                      /\ slot'[conf'[d].slot].booked = conf'[d].seen
                      /\ conf'[d].seen < slot'[conf'[d].slot].capacity
    BY DEF Custody
  <2>1. d # c /\ conf'[d] = conf[d] /\ Holding(d)
    BY <1>7
  <2>2. conf[d].slot \in Slot /\ holder[conf[d].slot] = d /\ conf[d].slot # s
    BY <1>2, <2>1 DEF IInv, Custody
  <2>3. slot'[conf[d].slot] = slot[conf[d].slot] /\ holder'[conf[d].slot] = d
    BY <1>1, <1>4, <2>1, <2>2
  <2> QED BY <2>1, <2>2, <2>3 DEF IInv, Custody
<1>9. Ahead'
  <2>1. \A a \in Booking, z \in Slot : interview[a][z] \in Nat /\ link[a][z] \in Nat
    BY <1>0
  <2>2. interview[b][s] > link[b][s]
    BY <1>0, <1>1, <1>2 DEF IInv, Ahead
  <2>3. \A a \in Booking, z \in Slot : interview'[a][z] >= link'[a][z]
    BY <1>1, <1>2, <1>5, <2>1, <2>2 DEF IInv, Ahead
  <2>4. ASSUME NEW a \in Booking, NEW z \in Slot, NEW d \in Session,
               conf'[d].at = "scheduled", BookingOf[d] = a, conf'[d].slot = z
        PROVE  interview'[a][z] > link'[a][z]
    <3>1. Holding(d)'
      BY <2>4 DEF Holding
    <3>2. d # c /\ conf'[d] = conf[d] /\ Holding(d)
      BY <1>7, <3>1
    <3>3. z # s
      BY <1>2, <2>4, <3>2 DEF IInv, Custody
    <3>4. interview[a][z] > link[a][z]
      BY <2>4, <3>2 DEF IInv, Ahead
    <3> QED BY <1>1, <1>5, <3>3, <3>4
  <2> QED BY <2>3, <2>4 DEF Ahead
<1>10. Stages'
  <2>1. slot[s].booked \in Nat /\ slot[s].capacity \in Nat
    BY <1>3 DEF SlotRec
  <2> QED BY <1>2, <1>4, <2>1 DEF IInv, Stages
<1>11. Whole'
  <2> SUFFICES ASSUME NEW a \in Booking
               PROVE  IF Confirmed(a)'
                      THEN /\ booking'[a].slot \in Slot
                           /\ slot'[booking'[a].slot].stage = "open"
                           /\ link'[a][booking'[a].slot] > 0
                      ELSE booking'[a].slot = NoSlot
    BY DEF Whole
  <2>1. CASE a = b
    <3>1. link'[b][s] = link[b][s] + 1 /\ link[b][s] \in Nat
      BY <1>0, <1>2, <1>5
    <3> QED BY <1>2, <1>4, <1>6, <2>1, <3>1 DEF ConfirmedOn, Confirmed
  <2>2. CASE a # b
    <3>1. booking'[a] = booking[a] /\ (Confirmed(a)' <=> Confirmed(a))
      BY <1>6, <2>2 DEF Confirmed
    <3>2. ASSUME Confirmed(a)
          PROVE  /\ booking[a].slot \in Slot /\ slot'[booking[a].slot].stage = "open"
                 /\ link'[a][booking[a].slot] > 0
      BY <1>4, <1>5, <2>2, <3>2 DEF IInv, Whole
    <3>3. ~Confirmed(a) => booking[a].slot = NoSlot
      BY DEF IInv, Whole
    <3> QED BY <3>1, <3>2, <3>3
  <2> QED BY <2>1, <2>2
<1>12. SeatsAccounted'
  <2> SUFFICES ASSUME NEW z \in Slot
               PROVE  slot'[z].booked = Cardinality(Holders(z))' + leaked'[z]
    BY DEF SeatsAccounted
  <2>1. On(b, z)' <=> z = s
    BY <1>6 DEF On, Confirmed, ConfirmedOn
  <2>2. Cardinality(Holders(z))' = Cardinality(Holders(z)) - (IF On(b, z) THEN 1 ELSE 0)
                                     + (IF z = s THEN 1 ELSE 0)
    BY <1>0, <1>6, <2>1, HoldersChange
  <2>3. leaked'[z] = leaked[z] + (IF On(b, z) THEN 1 ELSE 0)
    BY <1>0, <1>1, SeatLeft
  <2>4. slot'[z].booked = slot[z].booked + (IF z = s THEN 1 ELSE 0)
    <3>1. slot[z].booked \in Nat
      BY <1>0 DEF SlotRec
    <3> QED BY <1>4, <3>1
  <2>5. slot[z].booked = Cardinality(Holders(z)) + leaked[z]
    BY DEF IInv, SeatsAccounted
  <2>6. leaked[z] \in Nat /\ Cardinality(Holders(z)) \in Nat
    BY HoldersFinite DEF IInv, TypeOK
  <2> QED BY <2>2, <2>3, <2>4, <2>5, <2>6
<1> QED BY <1>8, <1>9, <1>10, <1>11, <1>12 DEF IInv

-----------------------------------------------------------------------------
(* Recruiters and time.                                                     *)

\* A booking gives up its slot (reopened, or deleted with its application).
LEMMA LeaveStep ==
  ASSUME IInv, TypeOK', NEW b \in Booking, NEW status \in {"Pending", "deleted"},
         booking' = [booking EXCEPT ![b] = Unbooked(status)], LeaveSeat(b),
         UNCHANGED <<slotVars, conf, interview, link>>
  PROVE  IInv'
<1>0. booking \in [Booking -> BookingRec] /\ slot \in [Slot -> SlotRec]
  BY DEF IInv, TypeOK
<1>1. booking'[b] = Unbooked(status) /\ \A a \in Booking : a # b => booking'[a] = booking[a]
  BY <1>0
<1>2. Custody' /\ Ahead' /\ Stages'
  BY DEF IInv, Custody, Holding, Ahead, Stages, slotVars
<1>3. Whole'
  BY <1>1 DEF IInv, Whole, Confirmed, Unbooked, slotVars
<1>4. SeatsAccounted'
  <2> SUFFICES ASSUME NEW z \in Slot
               PROVE  slot'[z].booked = Cardinality(Holders(z))' + leaked'[z]
    BY DEF SeatsAccounted
  <2>1. ~ On(b, z)'
    BY <1>1 DEF On, Confirmed, Unbooked
  <2>2. Cardinality(Holders(z))' = Cardinality(Holders(z)) - (IF On(b, z) THEN 1 ELSE 0)
                                     + (IF On(b, z)' THEN 1 ELSE 0)
    BY <1>1, HoldersChange
  <2>3. leaked'[z] = leaked[z] + (IF On(b, z) THEN 1 ELSE 0)
    BY SeatLeft
  <2>4. slot'[z].booked = Cardinality(Holders(z)) + leaked[z]
    BY DEF IInv, SeatsAccounted, slotVars
  <2>5. leaked[z] \in Nat /\ Cardinality(Holders(z)) \in Nat
    BY HoldersFinite DEF IInv, TypeOK
  <2> QED BY <2>1, <2>2, <2>3, <2>4, <2>5
<1> QED BY <1>2, <1>3, <1>4 DEF IInv

\* A fresh invitation touches no seat.
LEMMA InviteStep ==
  ASSUME IInv, TypeOK', NEW b \in Booking, Invite(b)
  PROVE  IInv'
<1>0. booking \in [Booking -> BookingRec]
  BY DEF IInv, TypeOK
<1>1. /\ UNCHANGED <<slotVars, conf, interview, link, leaked>>
      /\ booking[b].status = "none" /\ booking'[b] = Unbooked("Pending")
      /\ \A a \in Booking : a # b => booking'[a] = booking[a]
  BY <1>0 DEF Invite
<1>2. Custody' /\ Ahead' /\ Stages'
  BY <1>1 DEF IInv, Custody, Holding, Ahead, Stages, slotVars
<1>3. Whole'
  BY <1>1 DEF IInv, Whole, Confirmed, Unbooked, slotVars
<1>4. \A z \in Slot : Holders(z)' = Holders(z)
  BY <1>1 DEF Holders, Confirmed, Unbooked
<1>5. SeatsAccounted'
  BY <1>1, <1>4 DEF IInv, SeatsAccounted, slotVars
<1> QED BY <1>2, <1>3, <1>5 DEF IInv

\* The foreign key keeps a slot that a booking refers to.
LEMMA DeleteSlotStep ==
  ASSUME IInv, TypeOK', NEW t \in Recruiter, DeleteSlot(t)
  PROVE  IInv'
<1> DEFINE s == deleting[t]
<1>0. /\ slot \in [Slot -> SlotRec] /\ s \in Slot /\ holder[s] = Nobody
  BY DEF IInv, TypeOK, DeleteSlot, Locked
<1>1. /\ UNCHANGED <<holder, booking, conf, interview, link, leaked>>
      /\ slot' = IF Referenced(s) THEN slot ELSE [slot EXCEPT ![s].stage = "deleted"]
  BY DEF DeleteSlot
<1>2. CASE Referenced(s)
  <2>1. slot' = slot
    BY <1>1, <1>2
  <2> QED BY <1>1, <2>1, QuietStep DEF slotVars, Holding
<1>3. CASE ~Referenced(s)
  <2>1. /\ slot'[s] = [slot[s] EXCEPT !.stage = "deleted"]
        /\ \A z \in Slot : z # s => slot'[z] = slot[z]
    BY <1>0, <1>1, <1>3
  <2>2. /\ slot'[s].stage = "deleted" /\ slot'[s].booked = slot[s].booked
        /\ slot'[s].capacity = slot[s].capacity
    BY <1>0, <2>1 DEF SlotRec
  <2>3. \A z \in Slot : slot'[z].booked = slot[z].booked
    BY <2>1, <2>2
  <2>4. \A c \in Session : Holding(c) => conf[c].slot \in Slot /\ conf[c].slot # s
    BY <1>0, BookingAssumption DEF IInv, Custody
  <2>5. Custody'
    BY <1>1, <2>1, <2>4 DEF IInv, Custody, Holding
  <2>6. Ahead' /\ Stages'
    BY <1>1, <2>1, <2>2 DEF IInv, Ahead, Stages
  <2>7. Whole'
    <3>1. \A b \in Booking : booking[b].slot # s
      BY <1>3 DEF Referenced
    <3> QED BY <1>1, <2>1, <3>1 DEF IInv, Whole, Confirmed
  <2>8. SeatsAccounted'
    BY <1>1, <2>3, SeatsKept
  <2> QED BY <2>5, <2>6, <2>7, <2>8 DEF IInv
<1> QED BY <1>2, <1>3

\* The passing of a slot's time touches no seat.
LEMMA TimePassesStep ==
  ASSUME IInv, TypeOK', NEW s \in Slot, TimePasses(s)
  PROVE  IInv'
<1>0. slot \in [Slot -> SlotRec] /\ UNCHANGED <<holder, booking, conf, interview, link, leaked>>
  BY DEF IInv, TypeOK, TimePasses
<1>1. \A z \in Slot : /\ slot'[z].stage = slot[z].stage
                      /\ slot'[z].booked = slot[z].booked
                      /\ slot'[z].capacity = slot[z].capacity
  BY <1>0 DEF TimePasses, SlotRec
<1>2. Custody' /\ Ahead' /\ Stages' /\ Whole'
  BY <1>0, <1>1 DEF IInv, Custody, Holding, Ahead, Stages, Whole, Confirmed
<1>3. SeatsAccounted'
  BY <1>0, <1>1, SeatsKept
<1> QED BY <1>2, <1>3 DEF IInv

\* A published slot starts with no seat taken.
LEMMA CreateSlotStep ==
  ASSUME IInv, TypeOK', NEW s \in Slot, NEW capacity \in Capacities, CreateSlot(s, capacity)
  PROVE  IInv'
<1>0. /\ slot \in [Slot -> SlotRec] /\ UNCHANGED <<holder, booking, conf, interview, link, leaked>>
      /\ slot[s].stage = "none" /\ capacity \in Nat
  BY BookingAssumption DEF IInv, TypeOK, CreateSlot
<1>1. /\ slot'[s].stage = "open" /\ slot'[s].booked = 0 /\ slot[s].booked = 0
      /\ slot'[s].capacity = capacity
      /\ \A z \in Slot : z # s => slot'[z] = slot[z]
  BY <1>0 DEF IInv, Stages, CreateSlot, FreshSlot
<1>2. \A c \in Session : Holding(c) => conf[c].slot \in Slot /\ conf[c].slot # s
  BY <1>0 DEF IInv, Custody
<1>3. Custody'
  BY <1>0, <1>1, <1>2 DEF IInv, Custody, Holding
<1>4. Ahead' /\ Stages'
  BY <1>0, <1>1 DEF IInv, Ahead, Stages
<1>5. Whole'
  BY <1>0, <1>1 DEF IInv, Whole, Confirmed
<1>6. SeatsAccounted'
  BY <1>0, <1>1, SeatsKept
<1> QED BY <1>3, <1>4, <1>5, <1>6 DEF IInv

\* The invariant is inductive: one step per action.
LEMMA NextIInv == IInv /\ [Next]_vars => IInv'
<1> SUFFICES ASSUME IInv, [Next]_vars PROVE IInv'
  OBVIOUS
<1>0. TypeOK'
  BY NextTypeOK DEF IInv
<1>1. ASSUME NEW c \in Session, ConfirmStep(c) PROVE IInv'
  BY <1>0, <1>1, QuietConfirm, TakeSlotStep, ProposeTimeStep, ScheduleStep,
     ConfirmStepInv, AbortStep DEF ConfirmStep, Progress
<1>2. ASSUME NEW t \in Recruiter, NEW b \in Booking, ReadMissed(t, b) PROVE IInv'
  BY <1>0, <1>2, QuietStep DEF ReadMissed
<1>3. ASSUME NEW t \in Recruiter, NEW s \in Slot, CheckUnused(t, s) PROVE IInv'
  BY <1>0, <1>3, QuietStep DEF CheckUnused
<1>4. ASSUME NEW t \in Recruiter, Reopen(t) PROVE IInv'
  <2>1. resetting[t] \in Booking
    BY <1>4 DEF Reopen, IInv, TypeOK
  <2>2. CASE booking[resetting[t]].status = "deleted"
    BY <1>0, <1>4, <2>2, QuietStep DEF Reopen
  <2>3. CASE booking[resetting[t]].status # "deleted"
    BY <1>0, <1>4, <2>1, <2>3, LeaveStep DEF Reopen
  <2> QED BY <2>2, <2>3
<1>5. ASSUME NEW b \in Booking, DeleteResume(b) PROVE IInv'
  BY <1>0, <1>5, LeaveStep DEF DeleteResume
<1>6. UNCHANGED vars => IInv'
  BY <1>0, QuietStep DEF vars, slotVars
<1> QED
  BY <1>0, <1>1, <1>2, <1>3, <1>4, <1>5, <1>6, InviteStep, DeleteSlotStep, TimePassesStep,
     CreateSlotStep DEF Next, RecruiterStep

\* The inductive invariant holds of every reachable state: locks, stages,
\* bookings and seat counters agree, for any number of slots and sessions.
THEOREM SlotIInvHolds == Spec => []IInv
  BY InitIInv, NextIInv, PTL DEF Spec

\* No confirmation is lost from a slot's seat counter, for any number of
\* candidates confirming, resubmitting and being reopened concurrently.
THEOREM SeatsAreAccounted == Spec => []SeatsAccounted
<1>1. IInv => SeatsAccounted
  BY DEF IInv
<1> QED BY <1>1, SlotIInvHolds, PTL

\* "Lock the slot row so two candidates can't take the last seat concurrently."
THEOREM NeverOverbooked == Spec => []NoOverbooking
<1>1. IInv => NoOverbooking
  <2> SUFFICES ASSUME IInv, NEW s \in Slot
               PROVE  Cardinality(Holders(s)) <= slot[s].capacity
    BY DEF NoOverbooking
  <2>1. /\ slot[s].booked = Cardinality(Holders(s)) + leaked[s]
        /\ slot[s].booked <= slot[s].capacity
    BY DEF IInv, SeatsAccounted, Stages
  <2>2. leaked[s] \in Nat /\ Cardinality(Holders(s)) \in Nat /\ slot[s].capacity \in Nat
    BY HoldersFinite DEF IInv, TypeOK, SlotRec
  <2> QED BY <2>1, <2>2
<1> QED BY <1>1, SlotIInvHolds, PTL

\* A confirmed booking keeps its slot, its interview and its link, whatever
\* recruiters delete while it is being confirmed.
THEOREM ConfirmedBookingsAreWhole == Spec => []ConfirmedIsWhole
<1>1. IInv => ConfirmedIsWhole
  BY DEF IInv, ConfirmedIsWhole, Whole, Ahead
<1> QED BY <1>1, SlotIInvHolds, PTL
-----------------------------------------------------------------------------
(* The promise of SeatPromise.  That a step of the code is a step of the    *)
(* promise needs what sessions and recruiters know of the rows they hold no *)
(* lock on: a booking that was read exists, and a slot that was published   *)
(* is offered or withdrawn.                                                 *)

Known ==
  /\ \A c \in Session : conf[c].at # "idle" => booking[BookingOf[c]].status # "none"
  /\ \A t \in Recruiter : resetting[t] # NoBooking => booking[resetting[t]].status # "none"
  /\ \A t \in Recruiter : deleting[t] # NoSlot => slot[deleting[t]].stage \in {"open", "deleted"}
  /\ \A s \in Slot : slot[s].stage = "draft" => slot[s].capacity = 1

\* Initially nobody knows anything.
LEMMA InitKnown == Init => Known
  BY DEF Init, Known, Idle, FreshSlot

\* The rows that sessions and recruiters know are never forgotten: a booking
\* does not return to "none", nor a published slot to a draft.
Remembered ==
  /\ \A b \in Booking : booking[b].status # "none" => booking'[b].status # "none"
  /\ \A s \in Slot : slot[s].stage \in {"open", "deleted"} => slot'[s].stage \in {"open", "deleted"}
  /\ \A s \in Slot : slot'[s].stage = "draft" => slot'[s].capacity = 1

\* A confirmation forgets nothing.
LEMMA ConfirmRemembers ==
  ASSUME IInv, Known, NEW c \in Session, ConfirmStep(c) PROVE Remembered
<1>0. /\ slot \in [Slot -> SlotRec] /\ booking \in [Booking -> BookingRec] /\ BookingOf[c] \in Booking
      /\ \A s \in Slot : slot[s].stage = "draft" => slot[s].capacity = 1
  BY BookingAssumption DEF IInv, TypeOK, Known
<1>1. ASSUME UNCHANGED <<slot, booking>> PROVE Remembered
  BY <1>0, <1>1 DEF Remembered
<1>2. ASSUME NEW s \in Slot, ProposeTime(c, s) PROVE Remembered
  BY <1>0, <1>2 DEF ProposeTime, Remembered, FreshSlot
<1>3. ASSUME Confirm(c) PROVE Remembered
  <2> DEFINE s == conf[c].slot
  <2>1. s \in Slot
    BY <1>3 DEF Confirm, IInv, Custody, Holding
  <2>2. slot'[s].stage = "open" /\ \A z \in Slot : z # s => slot'[z] = slot[z]
    BY <1>0, <1>3, <2>1 DEF Confirm, SlotRec
  <2>3. \A b \in Booking : booking'[b] = booking[b] \/ booking'[b].status = "Confirmed"
    BY <1>0, <1>3 DEF Confirm, ConfirmedOn
  <2> QED BY <1>0, <2>1, <2>2, <2>3 DEF Remembered
<1>4. ASSUME Abort(c) PROVE Remembered
  BY <1>0, <1>4 DEF Abort, Remembered, FreshSlot
<1>5. ASSUME NEW s \in Slot \cup {NoSlot}, Arrive(c, s) PROVE UNCHANGED <<slot, booking>>
  BY <1>5 DEF Arrive, slotVars
<1>6. ASSUME NEW s \in Slot, TakeSlot(c, s) \/ Refused(c, s) PROVE UNCHANGED <<slot, booking>>
  BY <1>6 DEF TakeSlot, Refused, slotVars
<1>7. RefusedTime(c) \/ Schedule(c) => UNCHANGED <<slot, booking>>
  BY DEF RefusedTime, Schedule, slotVars
<1> QED BY <1>1, <1>2, <1>3, <1>4, <1>5, <1>6, <1>7 DEF ConfirmStep, Progress

\* Recruiters and time forget nothing.
LEMMA OtherRemembers == ASSUME IInv, Known, OtherStep PROVE Remembered
<1>0. /\ slot \in [Slot -> SlotRec] /\ booking \in [Booking -> BookingRec]
      /\ \A s \in Slot : slot[s].stage = "draft" => slot[s].capacity = 1
      /\ \A t \in Recruiter : deleting[t] # NoSlot => slot[deleting[t]].stage \in {"open", "deleted"}
  BY DEF IInv, TypeOK, Known
<1>1. ASSUME UNCHANGED <<slot, booking>> PROVE Remembered
  BY <1>0, <1>1 DEF Remembered
<1>2. ASSUME NEW t \in Recruiter, Reopen(t) PROVE Remembered
  BY <1>0, <1>2 DEF Reopen, slotVars, Unbooked, Remembered
<1>3. ASSUME NEW t \in Recruiter, DeleteSlot(t) PROVE Remembered
  <2>1. \A s \in Slot : slot'[s] = slot[s] \/ slot'[s].stage = "deleted"
    BY <1>0, <1>3 DEF DeleteSlot, SlotRec
  <2> QED BY <1>0, <1>3, <2>1 DEF DeleteSlot, Remembered
<1>4. ASSUME NEW s \in Slot, TimePasses(s) PROVE Remembered
  <2>1. \A z \in Slot : slot'[z].stage = slot[z].stage /\ slot'[z].capacity = slot[z].capacity
    BY <1>0, <1>4 DEF TimePasses, SlotRec
  <2> QED BY <1>0, <1>4, <2>1 DEF TimePasses, Remembered
<1>5. ASSUME NEW s \in Slot, NEW capacity \in Capacities, CreateSlot(s, capacity) PROVE Remembered
  BY <1>0, <1>5 DEF CreateSlot, FreshSlot, Remembered
<1>6. ASSUME NEW b \in Booking, Invite(b) \/ DeleteResume(b) PROVE Remembered
  BY <1>0, <1>6 DEF Invite, DeleteResume, slotVars, Unbooked, Remembered
<1>7. ASSUME NEW t \in Recruiter, NEW b \in Booking, ReadMissed(t, b) PROVE UNCHANGED <<slot, booking>>
  BY <1>7 DEF ReadMissed, slotVars
<1>8. ASSUME NEW t \in Recruiter, NEW s \in Slot, CheckUnused(t, s) PROVE UNCHANGED <<slot, booking>>
  BY <1>8 DEF CheckUnused, slotVars
<1> QED BY <1>1, <1>2, <1>3, <1>4, <1>5, <1>6, <1>7, <1>8 DEF OtherStep, RecruiterStep

\* What a session newly holds it has just read.
LEMMA NewlyKnown ==
  ASSUME IInv, Next
  PROVE  /\ \A c \in Session : conf'[c].at # "idle" =>
              conf[c].at # "idle" \/ booking[BookingOf[c]].status = "Pending"
         /\ \A t \in Recruiter : resetting'[t] \in {resetting[t], NoBooking}
              \/ (resetting'[t] \in Booking /\ Confirmed(resetting'[t]) /\ ~FutureBooking(resetting'[t]))
         /\ \A t \in Recruiter : deleting'[t] \in {deleting[t], NoSlot}
              \/ (deleting'[t] \in Slot /\ slot[deleting'[t]].stage = "open")
<1>0. /\ conf \in [Session -> ConfRec]
      /\ resetting \in [Recruiter -> Booking \cup {NoBooking}]
      /\ deleting \in [Recruiter -> Slot \cup {NoSlot}]
  BY DEF IInv, TypeOK
<1> DEFINE Reads == \A c \in Session : conf'[c].at # "idle" =>
                      conf[c].at # "idle" \/ booking[BookingOf[c]].status = "Pending"
<1>1. ASSUME NEW c \in Session, ConfirmStep(c) PROVE Reads /\ UNCHANGED recruiterVars
  <2>1. ASSUME NEW s \in Slot \cup {NoSlot}, Arrive(c, s) PROVE Reads /\ UNCHANGED recruiterVars
    BY <1>0, <2>1 DEF Arrive
  <2>2. ASSUME NEW s \in Slot, TakeSlot(c, s) \/ Refused(c, s) \/ ProposeTime(c, s)
        PROVE  Reads /\ UNCHANGED recruiterVars
    BY <1>0, <2>2 DEF TakeSlot, Refused, ProposeTime, Idle
  <2>3. ASSUME RefusedTime(c) \/ Schedule(c) \/ Confirm(c) \/ Abort(c)
        PROVE  Reads /\ UNCHANGED recruiterVars
    BY <1>0, <2>3 DEF RefusedTime, Schedule, Confirm, Abort, Idle
  <2> QED BY <1>1, <2>1, <2>2, <2>3 DEF ConfirmStep, Progress
<1>2. ASSUME NEW t \in Recruiter, NEW b \in Booking, ReadMissed(t, b)
      PROVE  /\ UNCHANGED <<conf, deleting>> /\ Confirmed(b) /\ ~FutureBooking(b)
             /\ resetting' = [resetting EXCEPT ![t] = b]
  BY <1>2 DEF ReadMissed
<1>3. ASSUME NEW t \in Recruiter, NEW s \in Slot, CheckUnused(t, s)
      PROVE  /\ UNCHANGED <<conf, resetting>> /\ slot[s].stage = "open"
             /\ deleting' = [deleting EXCEPT ![t] = s]
  BY <1>3 DEF CheckUnused
<1>4. ASSUME NEW t \in Recruiter, Reopen(t)
      PROVE  UNCHANGED <<conf, deleting>> /\ resetting' = [resetting EXCEPT ![t] = NoBooking]
  BY <1>4 DEF Reopen
<1>5. ASSUME NEW t \in Recruiter, DeleteSlot(t)
      PROVE  UNCHANGED <<conf, resetting>> /\ deleting' = [deleting EXCEPT ![t] = NoSlot]
  BY <1>5 DEF DeleteSlot
<1>6. ASSUME NEW s \in Slot, TimePasses(s) \/ \E capacity \in Capacities : CreateSlot(s, capacity)
      PROVE  UNCHANGED <<conf, recruiterVars>>
  BY <1>6 DEF TimePasses, CreateSlot
<1>7. ASSUME NEW b \in Booking, Invite(b) \/ DeleteResume(b) PROVE UNCHANGED <<conf, recruiterVars>>
  BY <1>7 DEF Invite, DeleteResume
<1>8. UNCHANGED conf => Reads
  OBVIOUS
<1>9. Reads
  BY <1>1, <1>2, <1>3, <1>4, <1>5, <1>6, <1>7, <1>8 DEF Next, RecruiterStep
<1> HIDE DEF Reads
<1>10. \A t \in Recruiter : resetting'[t] \in {resetting[t], NoBooking}
              \/ (resetting'[t] \in Booking /\ Confirmed(resetting'[t]) /\ ~FutureBooking(resetting'[t]))
  BY <1>0, <1>1, <1>2, <1>3, <1>4, <1>5, <1>6, <1>7 DEF Next, RecruiterStep, recruiterVars
<1>11. \A t \in Recruiter : deleting'[t] \in {deleting[t], NoSlot}
              \/ (deleting'[t] \in Slot /\ slot[deleting'[t]].stage = "open")
  BY <1>0, <1>1, <1>2, <1>3, <1>4, <1>5, <1>6, <1>7 DEF Next, RecruiterStep, recruiterVars
<1> QED BY <1>9, <1>10, <1>11 DEF Reads

\* What sessions and recruiters know stays true.
LEMMA NextKnown == IInv /\ Known /\ [Next]_vars => Known'
<1>1. ASSUME IInv, Known, Next PROVE Known'
  <2>0. /\ \A c \in Session : BookingOf[c] \in Booking
        /\ \A t \in Recruiter : resetting[t] \in Booking \cup {NoBooking}
        /\ \A t \in Recruiter : deleting[t] \in Slot \cup {NoSlot}
    BY <1>1, BookingAssumption DEF IInv, TypeOK
  <2>1. Remembered
    BY <1>1, ConfirmRemembers, OtherRemembers DEF Next, OtherStep
  <2>2. /\ \A c \in Session : conf'[c].at # "idle" =>
              conf[c].at # "idle" \/ booking[BookingOf[c]].status = "Pending"
        /\ \A t \in Recruiter : resetting'[t] \in {resetting[t], NoBooking}
              \/ (resetting'[t] \in Booking /\ Confirmed(resetting'[t]) /\ ~FutureBooking(resetting'[t]))
        /\ \A t \in Recruiter : deleting'[t] \in {deleting[t], NoSlot}
              \/ (deleting'[t] \in Slot /\ slot[deleting'[t]].stage = "open")
    BY <1>1, NewlyKnown
  <2>3. \A c \in Session : conf'[c].at # "idle" => booking'[BookingOf[c]].status # "none"
    BY <1>1, <2>0, <2>1, <2>2 DEF Known, Remembered
  <2>4. \A t \in Recruiter : resetting'[t] # NoBooking => booking'[resetting'[t]].status # "none"
    BY <1>1, <2>0, <2>1, <2>2 DEF Known, Remembered, Confirmed
  <2>5. \A t \in Recruiter : deleting'[t] # NoSlot => slot'[deleting'[t]].stage \in {"open", "deleted"}
    BY <1>1, <2>0, <2>1, <2>2 DEF Known, Remembered
  <2> QED BY <2>1, <2>3, <2>4, <2>5 DEF Known, Remembered
<1>2. Known /\ UNCHANGED vars => Known'
  BY DEF Known, vars, slotVars, recruiterVars
<1> QED BY <1>1, <1>2

\* Where the promise sees a booking.
Place(b) == booking[b].slot

\* Initial states map to initial states of the promise.
LEMMA SeatPromiseInit == Init => Promise!Init
  BY DEF Init, Promise!Init, Offer, Left, Applicant, FreshSlot, Unbooked

\* A step that shows no change is a stutter of the promise.
LEMMA SeatStutter ==
  ASSUME \A s \in Slot : Offer(s)' = Offer(s) /\ Left(s)' = Left(s),
         \A b \in Booking : Applicant(b)' = Applicant(b) /\ Place(b)' = Place(b)
  PROVE  UNCHANGED Promise!vars
  BY DEF Promise!vars, Place

\* Slots show what their stage and seats are, bookings their row.
LEMMA ShowsRow ==
  /\ \A s \in Slot : slot'[s].stage = slot[s].stage /\ slot'[s].capacity = slot[s].capacity
       /\ slot'[s].booked = slot[s].booked => Offer(s)' = Offer(s) /\ Left(s)' = Left(s)
  /\ \A s \in Slot : slot[s].stage \in {"none", "draft"} /\ slot'[s].stage \in {"none", "draft"}
       => Offer(s)' = Offer(s) /\ Left(s)' = Left(s)
  /\ \A b \in Booking : booking'[b] = booking[b]
       => Applicant(b)' = Applicant(b) /\ Place(b)' = Place(b)
  BY DEF Offer, Left, Applicant, Place

\* The commit of a confirmation hands out a seat that was left, or one that was
\* made for the candidate, in one step with the booking.
LEMMA ConfirmPromise ==
  ASSUME IInv, Known, NEW c \in Session, Confirm(c)
  PROVE  \E b \in Booking, s \in Slot : Promise!TakeSeat(b, s) \/ Promise!TakeOwnTime(b, s)
<1> DEFINE b == BookingOf[c]
<1>0. /\ slot \in [Slot -> SlotRec] /\ booking \in [Booking -> BookingRec] /\ b \in Booking
  BY BookingAssumption DEF IInv, TypeOK
<1>1. PICK s \in Slot :
      /\ s = conf[c].slot /\ slot[s].stage \in {"draft", "open"}
      /\ slot[s].booked = conf[c].seen /\ conf[c].seen < slot[s].capacity
      /\ slot[s].stage = "draft" => slot[s].capacity = 1
  BY DEF Confirm, IInv, Custody, Holding, Known
<1>2. slot[s].booked \in Nat /\ slot[s].capacity \in Nat
  BY <1>0, <1>1 DEF SlotRec
<1>3. /\ slot'[s].stage = "open" /\ slot'[s].booked = slot[s].booked + 1
      /\ slot'[s].capacity = slot[s].capacity
      /\ \A z \in Slot : z # s => slot'[z] = slot[z]
  BY <1>0, <1>1, <1>2 DEF Confirm, SlotRec
<1>4. booking'[b] = ConfirmedOn(s) /\ \A a \in Booking : a # b => booking'[a] = booking[a]
  BY <1>0, <1>1 DEF Confirm
<1>5. booking[b].status \in {"Pending", "Confirmed"}
  BY <1>0 DEF Confirm, Known, BookingRec
<1> HIDE DEF b
<1>6. Applicant(b) \in {"invited", "booked"}
  BY <1>5 DEF Applicant
<1>7. \A a \in Booking : Applicant(a)' = (IF a = b THEN "booked" ELSE Applicant(a))
                         /\ Place(a)' = IF a = b THEN s ELSE Place(a)
  BY <1>0, <1>4 DEF Applicant, Place, ConfirmedOn
<1>8. \A z \in Slot : z # s => Offer(z)' = Offer(z) /\ Left(z)' = Left(z)
  BY <1>3, ShowsRow
<1>9. Offer(s)' = "offered" /\ Left(s)' = slot[s].capacity - (slot[s].booked + 1)
  BY <1>1, <1>2, <1>3 DEF Offer, Left
<1>10. CASE slot[s].stage = "open"
  <2>1. Offer(s) = "offered" /\ Left(s) = slot[s].capacity - slot[s].booked
    BY <1>10 DEF Offer, Left
  <2>2. Left(s) > 0 /\ Left(s)' = Left(s) - 1
    BY <1>1, <1>2, <1>9, <2>1
  <2>3. Promise!TakeSeat(b, s)
    BY <1>0, <1>1, <1>6, <1>7, <1>8, <1>9, <2>1, <2>2
       DEF Promise!TakeSeat, Promise!Book, Place
  <2> QED BY <1>0, <1>1, <2>3, Zenon
<1>11. CASE slot[s].stage = "draft"
  <2>1. Offer(s) = "unpublished" /\ Left(s) = 0
    BY <1>11 DEF Offer, Left
  <2>2. Left(s)' = Left(s)
    BY <1>1, <1>2, <1>9, <1>11, <2>1
  <2>3. Promise!TakeOwnTime(b, s)
    BY <1>0, <1>1, <1>6, <1>7, <1>8, <1>9, <2>1, <2>2
       DEF Promise!TakeOwnTime, Promise!Book, Place
  <2> QED BY <1>0, <1>1, <2>3, Zenon
<1> QED BY <1>1, <1>10, <1>11

\* The other steps of a confirmation show nothing.
LEMMA ConfirmingStutters ==
  ASSUME IInv, NEW c \in Session, ConfirmStep(c)
  PROVE  Confirm(c) \/ UNCHANGED Promise!vars
<1>0. slot \in [Slot -> SlotRec]
  BY DEF IInv, TypeOK
<1>1. ASSUME UNCHANGED <<slot, booking>> PROVE UNCHANGED Promise!vars
  BY <1>1, SeatStutter, ShowsRow
<1>2. ASSUME UNCHANGED booking, NEW s \in Slot, \A z \in Slot : z # s => slot'[z] = slot[z],
             slot[s].stage \in {"none", "draft"}, slot'[s].stage \in {"none", "draft"}
      PROVE  UNCHANGED Promise!vars
  BY <1>2, SeatStutter, ShowsRow
<1>3. ASSUME NEW s \in Slot, ProposeTime(c, s) PROVE UNCHANGED Promise!vars
  <2>1. /\ UNCHANGED booking /\ slot[s].stage = "none" /\ slot'[s].stage = "draft"
        /\ \A z \in Slot : z # s => slot'[z] = slot[z]
    BY <1>0, <1>3 DEF ProposeTime, FreshSlot
  <2> QED BY <1>2, <2>1
<1>4. ASSUME Abort(c) PROVE UNCHANGED Promise!vars
  <2>1. conf[c].slot \in Slot
    BY <1>4 DEF Abort, IInv, Custody, Holding
  <2>2. /\ UNCHANGED booking /\ \A z \in Slot : z # conf[c].slot => slot'[z] = slot[z]
        /\ \/ slot'[conf[c].slot] = slot[conf[c].slot]
           \/ slot[conf[c].slot].stage = "draft" /\ slot'[conf[c].slot].stage = "none"
    BY <1>4, <2>1 DEF Abort, FreshSlot
  <2>3. CASE slot'[conf[c].slot] = slot[conf[c].slot]
    BY <2>2, <2>3, SeatStutter, ShowsRow
  <2>4. CASE slot[conf[c].slot].stage = "draft" /\ slot'[conf[c].slot].stage = "none"
    BY <1>2, <2>1, <2>2, <2>4
  <2> QED BY <2>2, <2>3, <2>4
<1>5. ASSUME NEW s \in Slot \cup {NoSlot}, Arrive(c, s) PROVE UNCHANGED <<slot, booking>>
  BY <1>5 DEF Arrive, slotVars
<1>6. ASSUME NEW s \in Slot, TakeSlot(c, s) \/ Refused(c, s) PROVE UNCHANGED <<slot, booking>>
  BY <1>6 DEF TakeSlot, Refused, slotVars
<1>7. RefusedTime(c) \/ Schedule(c) => UNCHANGED <<slot, booking>>
  BY DEF RefusedTime, Schedule, slotVars
<1> QED BY <1>1, <1>3, <1>4, <1>5, <1>6, <1>7 DEF ConfirmStep, Progress

\* A booking gives up its place in the promise as well.
LEMMA LeavePromise ==
  ASSUME IInv, NEW b \in Booking, booking[b].status \in {"Pending", "Confirmed"}, UNCHANGED slot,
         NEW status \in {"Pending", "deleted"},
         booking' = [booking EXCEPT ![b] = Unbooked(status)]
  PROVE  /\ status = "Pending" => Promise!Reopen(b)
         /\ status = "deleted" => Promise!Remove(b)
<1>1. booking'[b] = Unbooked(status) /\ \A a \in Booking : a # b => booking'[a] = booking[a]
  BY DEF IInv, TypeOK
<1>2. Applicant(b) \in {"invited", "booked"}
  BY DEF Applicant
<1>3. \A s \in Slot : Offer(s)' = Offer(s) /\ Left(s)' = Left(s)
  BY ShowsRow
<1>4. \A a \in Booking : /\ Applicant(a)' = IF a # b THEN Applicant(a)
                                           ELSE IF status = "Pending" THEN "invited" ELSE "gone"
                         /\ Place(a)' = IF a = b THEN NoSlot ELSE Place(a)
  BY <1>1 DEF Applicant, Place, Unbooked
<1>5. CASE status = "Pending"
  BY <1>2, <1>3, <1>4, <1>5 DEF Promise!Reopen, Place
<1>6. CASE status = "deleted"
  BY <1>2, <1>3, <1>4, <1>6 DEF Promise!Remove, Place
<1> QED BY <1>5, <1>6

\* A first invitation.
LEMMA InvitePromise ==
  ASSUME IInv, NEW b \in Booking, Invite(b) PROVE Promise!Invite(b)
<1>1. /\ booking[b].status = "none" /\ booking'[b] = Unbooked("Pending")
      /\ \A a \in Booking : a # b => booking'[a] = booking[a]
      /\ UNCHANGED slot
  BY DEF IInv, TypeOK, Invite, slotVars
<1>2. booking[b].slot = NoSlot
  BY <1>1 DEF IInv, Whole, Confirmed
<1>3. \A s \in Slot : Offer(s)' = Offer(s) /\ Left(s)' = Left(s)
  BY <1>1, ShowsRow
<1>4. \A a \in Booking : Applicant(a)' = (IF a = b THEN "invited" ELSE Applicant(a))
                         /\ Place(a)' = Place(a)
  BY <1>1, <1>2 DEF Applicant, Place, Unbooked
<1>5. Applicant(b) = "none"
  BY <1>1 DEF Applicant
<1> QED BY <1>3, <1>4, <1>5 DEF Promise!Invite, Place

\* A published slot has all its seats left.
LEMMA CreatePromise ==
  ASSUME IInv, NEW s \in Slot, NEW capacity \in Capacities, CreateSlot(s, capacity)
  PROVE  Promise!Publish(s, capacity)
<1>1. /\ slot[s].stage = "none" /\ slot'[s] = FreshSlot("open", capacity) /\ UNCHANGED booking
      /\ \A z \in Slot : z # s => slot'[z] = slot[z]
      /\ capacity \in Nat
  BY BookingAssumption DEF IInv, TypeOK, CreateSlot
<1>2. \A z \in Slot : z # s => Offer(z)' = Offer(z) /\ Left(z)' = Left(z)
  BY <1>1, ShowsRow
<1>3. Offer(s) = "unpublished" /\ Offer(s)' = "offered" /\ Left(s)' = capacity
  BY <1>1 DEF Offer, Left, FreshSlot
<1>4. \A a \in Booking : Applicant(a)' = Applicant(a) /\ Place(a)' = Place(a)
  BY <1>1, ShowsRow
<1> QED BY <1>2, <1>3, <1>4 DEF Promise!Publish, Place

\* A slot is withdrawn only if nobody is booked on it.
LEMMA DeletePromise ==
  ASSUME IInv, Known, NEW t \in Recruiter, DeleteSlot(t)
  PROVE  (\E s \in Slot : Promise!Withdraw(s)) \/ UNCHANGED Promise!vars
<1>0. PICK s \in Slot :
      /\ s = deleting[t] /\ slot[s].stage \in {"open", "deleted"}
      /\ slot \in [Slot -> SlotRec] /\ UNCHANGED booking
  BY DEF IInv, TypeOK, DeleteSlot, Known
<1>1. CASE Referenced(s) \/ slot[s].stage = "deleted"
  <2>1. \A z \in Slot : /\ slot'[z].stage = slot[z].stage /\ slot'[z].capacity = slot[z].capacity
                        /\ slot'[z].booked = slot[z].booked
    BY <1>0, <1>1 DEF DeleteSlot, SlotRec
  <2> QED BY <1>0, <2>1, SeatStutter, ShowsRow
<1>2. CASE ~Referenced(s) /\ slot[s].stage = "open"
  <2>1. slot'[s].stage = "deleted" /\ \A z \in Slot : z # s => slot'[z] = slot[z]
    BY <1>0, <1>2 DEF DeleteSlot, SlotRec
  <2>2. \A b \in Booking : Place(b) # s
    BY <1>2 DEF Referenced, Place
  <2>3. Offer(s) = "offered" /\ Offer(s)' = "withdrawn" /\ Left(s)' = 0
    BY <1>2, <2>1 DEF Offer, Left
  <2>4. \A z \in Slot : z # s => Offer(z)' = Offer(z) /\ Left(z)' = Left(z)
    BY <2>1, ShowsRow
  <2>5. \A b \in Booking : Applicant(b)' = Applicant(b) /\ Place(b)' = Place(b)
    BY <1>0, ShowsRow
  <2>6. Promise!Withdraw(s)
    BY <1>0, <2>2, <2>3, <2>4, <2>5 DEF Promise!Withdraw, Place
  <2> QED BY <1>0, <2>6, Zenon
<1> QED BY <1>0, <1>1, <1>2

\* Every step of slot booking is a step of the promise or a stutter.
LEMMA SeatPromiseStep ==
  ASSUME IInv, Known, [Next]_vars PROVE [Promise!Next]_(Promise!vars)
<1>1. ASSUME UNCHANGED <<slot, booking>> PROVE UNCHANGED Promise!vars
  BY <1>1, SeatStutter, ShowsRow
<1>2. ASSUME NEW b \in Booking, Promise!Invite(b) \/ Promise!Reopen(b) \/ Promise!Remove(b)
      PROVE  Promise!Next
  BY <1>2, Zenon DEF Promise!Next
<1>3. ASSUME NEW c \in Session, ConfirmStep(c) PROVE Promise!Next \/ UNCHANGED Promise!vars
  <2>1. ASSUME \E b \in Booking, s \in Slot : Promise!TakeSeat(b, s) \/ Promise!TakeOwnTime(b, s)
        PROVE  Promise!Next
    BY <2>1, Zenon DEF Promise!Next
  <2> QED BY <1>3, <2>1, ConfirmingStutters, ConfirmPromise
<1>4. ASSUME NEW t \in Recruiter, Reopen(t) PROVE Promise!Next \/ UNCHANGED Promise!vars
  <2>1. PICK b \in Booking : b = resetting[t] /\ booking[b] \in BookingRec /\ booking[b].status # "none"
    BY <1>4 DEF Reopen, IInv, TypeOK, Known
  <2>2. CASE booking[b].status = "deleted"
    BY <1>1, <1>4, <2>1, <2>2 DEF Reopen, slotVars
  <2>3. CASE booking[b].status # "deleted"
    <3>1. booking[b].status \in {"Pending", "Confirmed"}
      BY <2>1, <2>3 DEF BookingRec
    <3>2. booking' = [booking EXCEPT ![b] = Unbooked("Pending")] /\ UNCHANGED slot
      BY <1>4, <2>1, <2>3 DEF Reopen, slotVars
    <3>3. Promise!Reopen(b)
      BY <2>1, <3>1, <3>2, LeavePromise
    <3> QED BY <1>2, <2>1, <3>3
  <2> QED BY <2>2, <2>3
<1>5. ASSUME NEW t \in Recruiter, DeleteSlot(t) PROVE Promise!Next \/ UNCHANGED Promise!vars
  <2>1. ASSUME \E s \in Slot : Promise!Withdraw(s) PROVE Promise!Next
    BY <2>1, Zenon DEF Promise!Next
  <2> QED BY <1>5, <2>1, DeletePromise
<1>6. ASSUME NEW s \in Slot, NEW capacity \in Capacities, CreateSlot(s, capacity)
      PROVE  Promise!Next
  <2>1. Promise!Publish(s, capacity)
    BY <1>6, CreatePromise
  <2> QED BY <2>1, Zenon DEF Promise!Next
<1>7. ASSUME NEW s \in Slot, TimePasses(s) PROVE UNCHANGED Promise!vars
  <2>1. /\ UNCHANGED booking
        /\ \A z \in Slot : /\ slot'[z].stage = slot[z].stage /\ slot'[z].capacity = slot[z].capacity
                           /\ slot'[z].booked = slot[z].booked
    BY <1>7 DEF IInv, TypeOK, TimePasses, SlotRec
  <2> QED BY <2>1, SeatStutter, ShowsRow
<1>8. ASSUME NEW b \in Booking, Invite(b) PROVE Promise!Next
  BY <1>2, <1>8, InvitePromise
<1>9. ASSUME NEW b \in Booking, DeleteResume(b) PROVE Promise!Next
  <2>1. Promise!Remove(b)
    BY <1>9, LeavePromise DEF DeleteResume, slotVars
  <2> QED BY <1>2, <2>1
<1>10. ASSUME NEW t \in Recruiter, NEW b \in Booking, ReadMissed(t, b)
       PROVE  UNCHANGED <<slot, booking>>
  BY <1>10 DEF ReadMissed, slotVars
<1>11. ASSUME NEW t \in Recruiter, NEW s \in Slot, CheckUnused(t, s)
       PROVE  UNCHANGED <<slot, booking>>
  BY <1>11 DEF CheckUnused, slotVars
<1>12. UNCHANGED vars => UNCHANGED <<slot, booking>>
  BY DEF vars, slotVars
<1> QED
  BY <1>1, <1>3, <1>4, <1>5, <1>6, <1>7, <1>8, <1>9, <1>10, <1>11, <1>12 DEF Next, RecruiterStep

\* Slot booking implements the seat promise, for any number of slots, candidates,
\* overlapping submissions, failed requests and recruiters: every seat is handed
\* out in one step with the booking that gets it, and only while one is left.
THEOREM SlotBookingKeepsSeatPromise == Spec => KeepsSeatPromise
<1>1. Init => Promise!Init
  BY SeatPromiseInit
<1>2. Init => IInv /\ Known
  BY InitIInv, InitKnown
<1>3. IInv /\ Known /\ [Next]_vars => (IInv /\ Known)' /\ [Promise!Next]_(Promise!vars)
  BY NextIInv, NextKnown, SeatPromiseStep
<1> QED BY <1>1, <1>2, <1>3, PTL DEF Spec, KeepsSeatPromise, Promise!Spec
-----------------------------------------------------------------------------
(* When the documentation is right.  OneInterviewPerBooking and             *)
(* FutureBookingUntouched fail because a confirmation and a reset act on a  *)
(* read of the booking that may be stale (run SlotTwice).  They hold as     *)
(* long as no two requests of the same kind are at work on one booking.     *)

\* No booking is being confirmed by two submissions at a time.
SubmittedOnce ==
  \A c, d \in Session : c # d /\ BookingOf[c] = BookingOf[d] =>
    conf[c].at = "idle" \/ conf[d].at = "idle"

\* No booking is being reopened by two recruiters at a time.
ResetOnce ==
  \A t, u \in Recruiter : t # u /\ resetting[t] = resetting[u] => resetting[t] = NoBooking

\* Then what a request read of its booking still holds when it acts on it ...
Waiting ==
  \A c \in Session : conf[c].at # "idle" =>
    booking[BookingOf[c]].status \in {"Pending", "deleted"}
Missed ==
  \A t \in Recruiter : resetting[t] # NoBooking =>
    \/ booking[resetting[t]].status = "deleted"
    \/ Confirmed(resetting[t]) /\ slot[booking[resetting[t]].slot].past

\* ... and the only interview ahead of a booking is the one it shows.
OnlyAhead ==
  \A b \in Booking, s \in Slot : ~slot[s].past /\ link[b][s] > 0 =>
    booking[b].status = "deleted" \/ booking[b] = ConfirmedOn(s)
NoneYet ==
  \A b \in Booking, s \in Slot : slot[s].stage \in {"none", "draft"} => link[b][s] = 0

ApartInv == Waiting /\ Missed /\ OnlyAhead /\ NoneYet /\ OneInterviewPerBooking

\* Nobody is at work and nothing is linked.
LEMMA InitApart == Init => ApartInv
  BY DEF Init, ApartInv, Waiting, Missed, OnlyAhead, NoneYet, OneInterviewPerBooking, Idle

\* The time of a published slot does not come back.
LEMMA TimeElapses ==
  ASSUME IInv, Next, NEW s \in Slot, slot[s].stage \in {"open", "deleted"}, slot[s].past
  PROVE  slot'[s].past
<1>0. slot \in [Slot -> SlotRec]
  BY DEF IInv, TypeOK
<1>1. ASSUME UNCHANGED slot PROVE slot'[s].past
  BY <1>1
<1>2. ASSUME NEW c \in Session, ConfirmStep(c) PROVE slot'[s].past
  <2>1. ASSUME NEW z \in Slot, ProposeTime(c, z) PROVE slot'[s].past
    BY <1>0, <2>1 DEF ProposeTime
  <2>2. ASSUME Confirm(c) PROVE slot'[s].past
    BY <1>0, <2>2 DEF Confirm, SlotRec
  <2>3. ASSUME Abort(c) PROVE slot'[s].past
    BY <1>0, <2>3 DEF Abort
  <2>4. ASSUME NEW z \in Slot \cup {NoSlot}, Arrive(c, z) PROVE UNCHANGED slot
    BY <2>4 DEF Arrive, slotVars
  <2>5. ASSUME NEW z \in Slot, TakeSlot(c, z) \/ Refused(c, z) PROVE UNCHANGED slot
    BY <2>5 DEF TakeSlot, Refused, slotVars
  <2>6. RefusedTime(c) \/ Schedule(c) => UNCHANGED slot
    BY DEF RefusedTime, Schedule, slotVars
  <2> QED BY <1>1, <1>2, <2>1, <2>2, <2>3, <2>4, <2>5, <2>6 DEF ConfirmStep, Progress
<1>3. ASSUME NEW t \in Recruiter, RecruiterStep(t) PROVE slot'[s].past
  <2>1. ASSUME DeleteSlot(t) PROVE slot'[s].past
    BY <1>0, <2>1 DEF DeleteSlot, SlotRec
  <2>2. ASSUME NEW b \in Booking, ReadMissed(t, b) PROVE UNCHANGED slot
    BY <2>2 DEF ReadMissed, slotVars
  <2>3. ASSUME NEW z \in Slot, CheckUnused(t, z) PROVE UNCHANGED slot
    BY <2>3 DEF CheckUnused, slotVars
  <2>4. Reopen(t) => UNCHANGED slot
    BY DEF Reopen, slotVars
  <2> QED BY <1>1, <1>3, <2>1, <2>2, <2>3, <2>4 DEF RecruiterStep
<1>4. ASSUME NEW z \in Slot, TimePasses(z) PROVE slot'[s].past
  BY <1>0, <1>4 DEF TimePasses, SlotRec
<1>5. ASSUME NEW z \in Slot, NEW capacity \in Capacities, CreateSlot(z, capacity)
      PROVE  slot'[s].past
  BY <1>0, <1>5 DEF CreateSlot
<1>6. ASSUME NEW b \in Booking, Invite(b) \/ DeleteResume(b) PROVE UNCHANGED slot
  BY <1>6 DEF Invite, DeleteResume, slotVars
<1> QED BY <1>1, <1>2, <1>3, <1>4, <1>5, <1>6 DEF Next

\* Only a commit links an interview.
LEMMA OnlyCommitsLink ==
  ASSUME Next PROVE (\E c \in Session : Confirm(c)) \/ UNCHANGED link
<1>1. ASSUME NEW c \in Session, ConfirmStep(c), ~Confirm(c) PROVE UNCHANGED link
  BY <1>1 DEF ConfirmStep, Progress, Arrive, TakeSlot, Refused, ProposeTime, RefusedTime,
              Schedule, Abort
<1>2. ASSUME OtherStep PROVE UNCHANGED link
  BY <1>2 DEF OtherStep, RecruiterStep, ReadMissed, CheckUnused, Reopen, DeleteSlot,
              TimePasses, CreateSlot, Invite, DeleteResume
<1> QED BY <1>1, <1>2 DEF Next, OtherStep

\* How a booking may change: it is confirmed, invited, reopened or deleted.
Change(b) ==
  \/ booking'[b] = booking[b]
  \/ \E c \in Session : BookingOf[c] = b /\ Confirm(c)
  \/ booking[b].status = "none" /\ booking'[b] = Unbooked("Pending")
  \/ /\ \E t \in Recruiter : resetting[t] = b /\ Reopen(t)
     /\ booking[b].status # "deleted" /\ booking'[b] = Unbooked("Pending")
  \/ booking'[b] = Unbooked("deleted")

LEMMA BookingsChange == ASSUME IInv, Next, NEW b \in Booking PROVE Change(b)
<1>0. booking \in [Booking -> BookingRec]
  BY DEF IInv, TypeOK
<1>1. ASSUME UNCHANGED booking PROVE Change(b)
  BY <1>1 DEF Change
<1>2. ASSUME NEW c \in Session, Confirm(c) PROVE Change(b)
  <2>1. BookingOf[c] # b => booking'[b] = booking[b]
    BY <1>0, <1>2 DEF Confirm
  <2> QED BY <1>2, <2>1 DEF Change
<1>3. ASSUME NEW c \in Session, ConfirmStep(c), ~Confirm(c) PROVE UNCHANGED booking
  BY <1>3 DEF ConfirmStep, Progress, Arrive, TakeSlot, Refused, ProposeTime, RefusedTime,
              Schedule, Abort
<1>4. ASSUME NEW t \in Recruiter, Reopen(t) PROVE Change(b)
  <2>1. CASE resetting[t] = b /\ booking[b].status # "deleted"
    <3>1. booking'[b] = Unbooked("Pending")
      BY <1>0, <1>4, <2>1 DEF Reopen
    <3> QED BY <1>4, <2>1, <3>1 DEF Change
  <2>2. CASE ~(resetting[t] = b /\ booking[b].status # "deleted")
    <3>1. booking'[b] = booking[b]
      BY <1>0, <1>4, <2>2 DEF Reopen
    <3> QED BY <3>1 DEF Change
  <2> QED BY <2>1, <2>2
<1>5. ASSUME NEW t \in Recruiter, RecruiterStep(t), ~Reopen(t) PROVE UNCHANGED booking
  BY <1>5 DEF RecruiterStep, ReadMissed, CheckUnused, DeleteSlot
<1>6. ASSUME NEW s \in Slot, TimePasses(s) \/ \E capacity \in Capacities : CreateSlot(s, capacity)
      PROVE  UNCHANGED booking
  BY <1>6 DEF TimePasses, CreateSlot
<1>7. ASSUME NEW a \in Booking, Invite(a) \/ DeleteResume(a) PROVE Change(b)
  BY <1>0, <1>7 DEF Invite, DeleteResume, Change
<1> QED BY <1>1, <1>2, <1>3, <1>4, <1>5, <1>6, <1>7 DEF Next

\* While a booking waits for a submission it is not confirmed by another.
LEMMA NextWaiting ==
  ASSUME IInv, Known, ApartInv, SubmittedOnce, Next PROVE Waiting'
<1> SUFFICES ASSUME NEW c \in Session, conf'[c].at # "idle"
             PROVE  booking'[BookingOf[c]].status \in {"Pending", "deleted"}
  BY DEF Waiting
<1> DEFINE b == BookingOf[c]
<1>1. b \in Booking
  BY BookingAssumption
<1>2. booking[b].status \in {"Pending", "deleted"}
  BY NewlyKnown DEF ApartInv, Waiting
<1>3. ASSUME NEW d \in Session, BookingOf[d] = b, Confirm(d) PROVE FALSE
  <2>1. conf[d].at = "scheduled" /\ conf'[d] = Idle /\ booking[b].status # "deleted"
        /\ \A e \in Session : e # d => conf'[e] = conf[e]
    BY <1>3 DEF Confirm, IInv, TypeOK
  <2>2. c # d
    BY <2>1 DEF Idle
  <2> QED BY <1>3, <2>1, <2>2 DEF SubmittedOnce
<1>4. Change(b)
  BY <1>1, BookingsChange
<1> QED BY <1>2, <1>3, <1>4 DEF Change, Unbooked

\* A booking whose reset was decided is not confirmed or reopened by others.
LEMMA NextMissed ==
  ASSUME IInv, Known, ApartInv, ResetOnce, Next PROVE Missed'
<1> SUFFICES ASSUME NEW t \in Recruiter, resetting'[t] # NoBooking
             PROVE  \/ booking'[resetting'[t]].status = "deleted"
                    \/ /\ booking'[resetting'[t]].status = "Confirmed"
                       /\ slot'[booking'[resetting'[t]].slot].past
  BY DEF Missed, Confirmed
<1>1. PICK b \in Booking : b = resetting'[t]
  BY NextTypeOK DEF IInv, TypeOK
<1>2. \/ booking[b].status = "deleted"
      \/ Confirmed(b) /\ slot[booking[b].slot].past
  BY <1>1, NewlyKnown DEF ApartInv, Missed, FutureBooking
<1>3. ASSUME NEW c \in Session, BookingOf[c] = b, Confirm(c) PROVE FALSE
  BY <1>2, <1>3 DEF Confirm, ApartInv, Waiting, Confirmed
<1>4. ASSUME NEW u \in Recruiter, resetting[u] = b, Reopen(u) PROVE FALSE
  <2>1. resetting'[u] = NoBooking /\ \A v \in Recruiter : v # u => resetting'[v] = resetting[v]
    BY <1>4 DEF Reopen, IInv, TypeOK
  <2>2. t # u /\ resetting[t] = b
    BY <1>1, <2>1
  <2> QED BY <1>1, <1>4, <2>2 DEF ResetOnce
<1>5. booking'[b] = booking[b] \/ booking'[b] = Unbooked("deleted")
  BY <1>2, <1>3, <1>4, BookingsChange DEF Change, Confirmed
<1>6. Confirmed(b) /\ slot[booking[b].slot].past => slot'[booking[b].slot].past
  BY TimeElapses DEF IInv, Whole
<1> QED BY <1>1, <1>2, <1>5, <1>6 DEF Unbooked, Confirmed

\* What a commit links was not linked before, if it is ahead.
LEMMA CommitLinks ==
  ASSUME IInv, Known, ApartInv, NEW c \in Session, Confirm(c)
  PROVE  /\ booking'[BookingOf[c]] = ConfirmedOn(conf[c].slot)
         /\ \A a \in Booking : a # BookingOf[c] => booking'[a] = booking[a]
         /\ \A s \in Slot : slot'[s].past = slot[s].past
         /\ \A s \in Slot : slot'[s].stage \in {"none", "draft"} =>
              s # conf[c].slot /\ slot[s].stage \in {"none", "draft"}
         /\ \A a \in Booking, s \in Slot : link'[a][s] =
              IF a = BookingOf[c] /\ s = conf[c].slot THEN link[a][s] + 1 ELSE link[a][s]
         /\ \A s \in Slot : ~slot[s].past => link[BookingOf[c]][s] = 0
<1>0. /\ slot \in [Slot -> SlotRec] /\ booking \in [Booking -> BookingRec]
      /\ link \in [Booking -> [Slot -> Nat]] /\ BookingOf[c] \in Booking
  BY BookingAssumption DEF IInv, TypeOK
<1>1. /\ booking'[BookingOf[c]] = ConfirmedOn(conf[c].slot)
      /\ \A a \in Booking : a # BookingOf[c] => booking'[a] = booking[a]
  BY <1>0 DEF Confirm
<1>2. conf[c].slot \in Slot
  BY DEF Confirm, IInv, Custody, Holding
<1>3. /\ \A s \in Slot : slot'[s].past = slot[s].past
      /\ \A s \in Slot : s # conf[c].slot => slot'[s] = slot[s]
      /\ slot'[conf[c].slot].stage = "open"
  BY <1>0, <1>2 DEF Confirm, SlotRec
<1>4. \A a \in Booking, s \in Slot : link'[a][s] =
        IF a = BookingOf[c] /\ s = conf[c].slot THEN link[a][s] + 1 ELSE link[a][s]
  BY <1>0, <1>2 DEF Confirm
<1>5. booking[BookingOf[c]].status = "Pending"
  BY DEF Confirm, ApartInv, Waiting
<1>6. ASSUME NEW s \in Slot, ~slot[s].past PROVE link[BookingOf[c]][s] = 0
  <2>1. link[BookingOf[c]][s] \in Nat
    BY <1>0
  <2>2. ~(link[BookingOf[c]][s] > 0)
    BY <1>0, <1>5, <1>6 DEF ApartInv, OnlyAhead, ConfirmedOn
  <2> QED BY <2>1, <2>2
<1> QED BY <1>1, <1>3, <1>4, <1>6

\* Only published slots are linked.
LEMMA NextNoneYet ==
  ASSUME IInv, Known, ApartInv, Next PROVE NoneYet'
<1>1. Remembered
  BY ConfirmRemembers, OtherRemembers DEF Next, OtherStep
<1>2. \A s \in Slot : slot'[s].stage \in {"none", "draft"} => slot[s].stage \in {"none", "draft"}
  BY <1>1 DEF Remembered, IInv, TypeOK, SlotRec
<1>3. CASE UNCHANGED link
  BY <1>2, <1>3 DEF ApartInv, NoneYet
<1>4. ASSUME NEW c \in Session, Confirm(c) PROVE NoneYet'
  BY <1>4, CommitLinks DEF ApartInv, NoneYet
<1> QED BY <1>3, <1>4, OnlyCommitsLink

\* A slot that is ahead and linked was so before, unless this commit linked it.
LEMMA StillAhead ==
  ASSUME IInv, ApartInv, Next, NEW b \in Booking, NEW s \in Slot, ~slot'[s].past, link[b][s] > 0
  PROVE  ~slot[s].past
<1>0. slot[s].stage \in {"none", "draft", "open", "deleted"}
  BY DEF IInv, TypeOK, SlotRec
<1>1. slot[s].stage \notin {"none", "draft"}
  BY DEF ApartInv, NoneYet
<1> QED BY <1>0, <1>1, TimeElapses

\* A booking shows the interview that is ahead of it.
LEMMA NextOnlyAhead ==
  ASSUME IInv, Known, ApartInv, Next PROVE OnlyAhead'
<1> SUFFICES ASSUME NEW b \in Booking, NEW s \in Slot, ~slot'[s].past, link'[b][s] > 0
             PROVE  booking'[b].status = "deleted" \/ booking'[b] = ConfirmedOn(s)
  BY DEF OnlyAhead, ConfirmedOn
<1>1. ASSUME NEW c \in Session, Confirm(c)
      PROVE  booking'[b].status = "deleted" \/ booking'[b] = ConfirmedOn(s)
  <2>1. CASE b = BookingOf[c]
    <3>1. s = conf[c].slot
      BY <1>1, <2>1, CommitLinks
    <3> QED BY <1>1, <2>1, <3>1, CommitLinks
  <2>2. CASE b # BookingOf[c]
    <3>1. ~slot[s].past /\ link[b][s] > 0 /\ booking'[b] = booking[b]
      BY <1>1, <2>2, CommitLinks
    <3> QED BY <3>1 DEF ApartInv, OnlyAhead
  <2> QED BY <2>1, <2>2
<1>2. CASE UNCHANGED link /\ ~ \E c \in Session : Confirm(c)
  <2>1. ~slot[s].past /\ link[b][s] > 0
    BY <1>2, StillAhead
  <2>2. booking[b].status = "deleted" \/ booking[b] = ConfirmedOn(s)
    BY <2>1 DEF ApartInv, OnlyAhead
  <2>3. ASSUME NEW t \in Recruiter, resetting[t] = b, booking[b].status # "deleted" PROVE FALSE
    <3>1. b # NoBooking
      BY BookingAssumption
    <3>2. slot[booking[b].slot].past
      BY <2>3, <3>1 DEF ApartInv, Missed
    <3> QED BY <2>1, <2>2, <2>3, <3>2 DEF ConfirmedOn
  <2>4. Change(b)
    BY BookingsChange
  <2> QED BY <1>2, <2>2, <2>3, <2>4 DEF Change, ConfirmedOn, Unbooked
<1> QED BY <1>1, <1>2, OnlyCommitsLink

\* A booking has at most one interview ahead.
LEMMA NextOneInterview ==
  ASSUME IInv, Known, ApartInv, Next PROVE OneInterviewPerBooking'
<1> SUFFICES ASSUME NEW b \in Booking, NEW s \in Slot, NEW z \in Slot,
                    ~slot'[s].past, ~slot'[z].past, link'[b][s] > 0, link'[b][z] > 0
             PROVE  s = z /\ link'[b][s] = 1
  BY DEF OneInterviewPerBooking
<1>1. ASSUME NEW c \in Session, Confirm(c) PROVE s = z /\ link'[b][s] = 1
  <2>1. CASE b = BookingOf[c]
    <3>1. s = conf[c].slot /\ z = conf[c].slot /\ link[b][s] = 0
      BY <1>1, <2>1, CommitLinks
    <3> QED BY <1>1, <2>1, <3>1, CommitLinks
  <2>2. CASE b # BookingOf[c]
    <3>1. ~slot[s].past /\ ~slot[z].past /\ link'[b][s] = link[b][s] /\ link'[b][z] = link[b][z]
      BY <1>1, <2>2, CommitLinks
    <3> QED BY <3>1 DEF ApartInv, OneInterviewPerBooking
  <2> QED BY <2>1, <2>2
<1>2. CASE UNCHANGED link
  <2>1. ~slot[s].past /\ ~slot[z].past
    BY <1>2, StillAhead
  <2> QED BY <1>2, <2>1 DEF ApartInv, OneInterviewPerBooking
<1> QED BY <1>1, <1>2, OnlyCommitsLink

\* The invariant is inductive as long as requests are apart.
LEMMA NextApart ==
  IInv /\ Known /\ ApartInv /\ SubmittedOnce /\ ResetOnce /\ [Next]_vars => ApartInv'
<1>1. ASSUME IInv, Known, ApartInv, SubmittedOnce, ResetOnce, Next PROVE ApartInv'
  BY <1>1, NextWaiting, NextMissed, NextOnlyAhead, NextNoneYet, NextOneInterview DEF ApartInv
<1>2. ApartInv /\ UNCHANGED vars => ApartInv'
  BY DEF ApartInv, Waiting, Missed, OnlyAhead, NoneYet, OneInterviewPerBooking, Confirmed,
         vars, slotVars, recruiterVars
<1> QED BY <1>1, <1>2

\* "This booking is already confirmed": as long as no booking is being confirmed,
\* or reopened, twice at a time, none has two interviews ahead of it.  Run
\* SlotTwice shows that it may have without the first condition.
THEOREM ApartBookingsMeetOnce ==
  Spec /\ [](SubmittedOnce /\ ResetOnce) => []OneInterviewPerBooking
<1>1. Init => IInv /\ Known /\ ApartInv
  BY InitIInv, InitKnown, InitApart
<1>2. IInv /\ Known /\ ApartInv /\ (SubmittedOnce /\ ResetOnce) /\ [Next]_vars
        => (IInv /\ Known /\ ApartInv)'
  BY NextIInv, NextKnown, NextApart
<1>3. ApartInv => OneInterviewPerBooking
  BY DEF ApartInv
<1> QED BY <1>1, <1>2, <1>3, PTL DEF Spec

\* "A confirmed FUTURE booking is deliberately untouchable from here": a reset
\* reopens no confirmed booking that is still ahead, under the same condition.
THEOREM ApartResetsTouchNoFuture ==
  Spec /\ [](SubmittedOnce /\ ResetOnce) => FutureBookingUntouched
<1>1. Init => IInv /\ Known /\ ApartInv
  BY InitIInv, InitKnown, InitApart
<1>2. IInv /\ Known /\ ApartInv /\ (SubmittedOnce /\ ResetOnce) /\ [Next]_vars
        => (IInv /\ Known /\ ApartInv)'
  BY NextIInv, NextKnown, NextApart
<1>3. ASSUME IInv, Known, ApartInv, Next, NEW b \in Booking, FutureBooking(b)
      PROVE  booking'[b].status # "Pending"
  <2>1. ASSUME NEW t \in Recruiter, resetting[t] = b, booking[b].status # "deleted" PROVE FALSE
    <3>1. b # NoBooking
      BY BookingAssumption
    <3> QED BY <1>3, <2>1, <3>1 DEF ApartInv, Missed, FutureBooking
  <2>2. ASSUME NEW c \in Session, BookingOf[c] = b, Confirm(c) PROVE booking'[b].status = "Confirmed"
    BY <1>3, <2>2 DEF Confirm, ConfirmedOn, IInv, TypeOK
  <2>3. Change(b)
    BY <1>3, BookingsChange
  <2> QED BY <1>3, <2>1, <2>2, <2>3 DEF Change, Unbooked, FutureBooking, Confirmed
<1>4. IInv /\ Known /\ ApartInv /\ [Next]_vars
        => [\A b \in Booking : FutureBooking(b) => booking'[b].status # "Pending"]_vars
  BY <1>3
<1> QED BY <1>1, <1>2, <1>4, PTL DEF Spec, FutureBookingUntouched

\* Links that are each submitted from one place, and one recruiter at work, are
\* enough for both conditions.
THEOREM OneTabOneRecruiter ==
  ASSUME \A c, d \in Session : BookingOf[c] = BookingOf[d] => c = d,
         \A t, u \in Recruiter : t = u
  PROVE  Spec => []OneInterviewPerBooking /\ FutureBookingUntouched
<1>1. SubmittedOnce /\ ResetOnce
  BY DEF SubmittedOnce, ResetOnce
<1> QED BY <1>1, ApartBookingsMeetOnce, ApartResetsTouchNoFuture, PTL
=============================================================================
