----------------------------- MODULE EventLog -----------------------------
(* What the outbox promises: the events of a committed unit of work reach   *)
(* the broker at least once, and no other event ever does.                  *)
CONSTANTS Command,    \* units of work
          Emits       \* the events each of them raises

VARIABLES emitted,    \* events whose unit of work committed
          delivered   \* events the broker has got
vars == <<emitted, delivered>>

Rows == UNION {Emits[c] : c \in Command}

Init == emitted = {} /\ delivered = {}

\* A unit of work commits with all its events or with none.
Emit(c) ==
  /\ emitted' = emitted \cup Emits[c]
  /\ UNCHANGED delivered

\* At least once: an event may be delivered again.
Deliver(e) ==
  /\ e \in emitted
  /\ delivered' = delivered \cup {e}
  /\ UNCHANGED emitted

Next == (\E c \in Command : Emit(c)) \/ (\E e \in Rows : Deliver(e))

Spec == Init /\ [][Next]_vars /\ \A e \in Rows : WF_vars(Deliver(e))
=============================================================================
