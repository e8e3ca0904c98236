------------------------------ MODULE RateLimit ------------------------------
(***************************************************************************)
(* The upload limit of a social account: at most n uploads in a window of  *)
(* w units of time, consecutive ones at least `gap` apart.  A slot is the  *)
(* time and status of a scheduled row; the two functions of the domain     *)
(* package are pure, over the slots the caller loaded.                     *)
(***************************************************************************)
EXTENDS Integers, FiniteSets, FiniteSetsExt

ScheduleStatus == {"pending", "in_flight", "completed", "failed", "cancelled"}

\* n = 0 switches the limit off, gap included.
Limit == [n : Nat, w : Nat \ {0}, gap : Nat]

\* Rows are told apart by their identifier: two may share time and status.
Slot == [id : Nat, at : Int, status : ScheduleStatus]

LiveSlots(slots) == {s \in slots : s.status \notin {"cancelled", "failed"}}

Distance(a, b) == IF a < b THEN b - a ELSE a - b

\* Live slots in [t - w, t + w], both ends included.
Near(t, slots, rl) == {s \in LiveSlots(slots) : Distance(s.at, t) <= rl.w}

GapViolation(t, slots, rl) == \E s \in Near(t, slots, rl) : Distance(s.at, t) < rl.gap
LimitExceeded(t, slots, rl) == Cardinality(Near(t, slots, rl)) >= rl.n

\* Mutant: one row too many is accepted.
CanScheduleOneMore(t, slots, rl) ==
  \/ rl.n = 0
  \/ ~GapViolation(t, slots, rl) /\ Cardinality(Near(t, slots, rl)) <= rl.n

CanSchedule(t, slots, rl) ==
  \/ rl.n = 0
  \/ ~GapViolation(t, slots, rl) /\ ~LimitExceeded(t, slots, rl)

\* The live slots a refused time conflicts with.
Blockers(t, slots, rl) ==
  {s \in LiveSlots(slots) : Distance(s.at, t) < rl.gap \/ Distance(s.at, t) <= rl.w}

\* Mutant: the candidate is pushed past the earliest blocker.
PushPastFirst(t, slots, rl) ==
  IF Blockers(t, slots, rl) = {} THEN t + rl.gap
  ELSE Min({s.at : s \in Blockers(t, slots, rl)}) + rl.gap

\* One round of the scan: past the latest blocker.
PushPast(t, slots, rl) ==
  IF Blockers(t, slots, rl) = {} THEN t + rl.gap
  ELSE Max({s.at : s \in Blockers(t, slots, rl)}) + rl.gap

Tries(rl) == rl.n * 2 + 8

\* The scan gives up after its last try and returns the candidate it then has.
SuggestNextFreeSlot(notBefore, slots, rl) ==
  LET candidate[k \in 0..Tries(rl)] ==
        IF k = 0 THEN notBefore
        ELSE LET c == candidate[k - 1]
             IN  IF CanSchedule(c, slots, rl) THEN c ELSE PushPast(c, slots, rl)
  IN  candidate[Tries(rl)]
=============================================================================
