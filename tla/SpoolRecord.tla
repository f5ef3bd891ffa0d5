----------------------------- MODULE SpoolRecord -----------------------------
(***************************************************************************)
(* The internal block of one spool record and the pure functions that the  *)
(* spool package applies to it (internal/spool/spool.go, retry.go).        *)
(*                                                                         *)
(* A record is its delivery state, its attempt count and its next-retry-at.*)
(* The retry time is abstracted to what the code tells apart: "none" is    *)
(* the empty string, "later" a time in the future, "arrived" a time that   *)
(* has come.  The envelope is never changed, so it is left out.  A file    *)
(* that does not exist is the slot Absent.                                 *)
(***************************************************************************)
EXTENDS Naturals

CONSTANT Budget    \* len(backoffSchedule): the failures that schedule a retry

ASSUME BudgetAssumption == Budget \in Nat

State == {"pending", "delivered", "dead"}

RetryTime == {"none", "later", "arrived"}

Record == [state : State, attempts : Nat, next : RetryTime]

Absent == [state |-> "absent", attempts |-> 0, next |-> "none"]

Slot == Record \cup {Absent}

\* What Write stores for a new event.
NewRecord == [state |-> "pending", attempts |-> 0, next |-> "none"]

\* Mutants of RetryScheduled: the schedule indexed one too far, one too short.
RetryScheduledLate(attempts) == attempts \in 1..(Budget + 1)
RetryScheduledEarly(attempts) == attempts \in 1..(Budget - 1)

\* NextRetryAt's ok result: does this many failures schedule another retry?
RetryScheduled(attempts) == attempts \in 1..Budget

\* Mutant of Due: a scheduled retry is never picked up.
DueUnscheduled(rec) == rec.state = "pending" /\ rec.next = "none"

\* due: the record is pending and its retry time is empty or has arrived.
Due(rec) == rec.state = "pending" /\ rec.next # "later"

\* Mutant of Expired: whatever is no longer pending ages out.
ExpiredSettled(rec, pastRetention) == rec.state # "pending" /\ pastRetention

\* expired, with the comparison of created-at and the retention TTL given.
Expired(rec, pastRetention) == rec.state = "delivered" /\ pastRetention

\* The mutation of SetState: the state alone.
WithState(rec, state) == [rec EXCEPT !.state = state]

\* Mutant of WithFailure: scheduling a retry makes the record pending.
WithFailurePending(rec) ==
  LET n == rec.attempts + 1
  IN  IF RetryScheduled(n)
      THEN [state |-> "pending", attempts |-> n, next |-> "later"]
      ELSE [state |-> "dead", attempts |-> n, next |-> "none"]

\* The mutation of RecordFailure.  A failure inside the budget schedules a
\* retry and leaves the state as it is; one past it dead-letters the record.
WithFailure(rec) ==
  LET n == rec.attempts + 1
  IN  IF RetryScheduled(n)
      THEN [rec EXCEPT !.attempts = n, !.next = "later"]
      ELSE [state |-> "dead", attempts |-> n, next |-> "none"]

\* The mutation of an update, by the outcome that asks for it.
Mutated(op, rec) ==
  IF op = "failed" THEN WithFailure(rec) ELSE WithState(rec, op)

\* The clock reaches a retry time.
Arrived(rec) == IF rec.next = "later" THEN [rec EXCEPT !.next = "arrived"] ELSE rec
==============================================================================
