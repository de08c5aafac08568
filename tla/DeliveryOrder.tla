---------------------------- MODULE DeliveryOrder ----------------------------
(***************************************************************************)
(* What the telemetry path promises a window, whatever its sockets,       *)
(* threads and queues do: the bus is a log that only grows, and a window  *)
(* shows messages of that log one at a time, only ones it is for, each   *)
(* later in the log than the one it showed before.  It may miss some      *)
(* (late join, high-water mark); it never shows one out of order, twice  *)
(* or one it is not for.                                                  *)
(***************************************************************************)
EXTENDS Sequences, SequencesExt

CONSTANTS
    Consumers,   \* the windows
    Wants(_, _)  \* Wants(c, m): window c is for message m

VARIABLES
    published,   \* the bus: every message published, in order
    shown        \* shown[c]: the messages window c showed, in order

Init ==
    /\ published = <<>>
    /\ shown = [c \in Consumers |-> <<>>]

\* One more message on the bus; what was there stays.
Publish ==
    /\ Len(published') = Len(published) + 1
    /\ IsPrefix(published, published')
    /\ UNCHANGED shown

\* Where in the log the last message window c showed is (0 before any).
LastPos(c) ==
    IF shown[c] = <<>> THEN 0
    ELSE CHOOSE i \in DOMAIN published : published[i] = Last(shown[c])

\* Window c shows a message it is for, later in the log than its last one.
Show(c) ==
    /\ \E i \in DOMAIN published :
          /\ i > LastPos(c)
          /\ Wants(c, published[i])
          /\ shown' = [shown EXCEPT ![c] = Append(@, published[i])]
    /\ UNCHANGED published

Next == Publish \/ \E c \in Consumers : Show(c)

Spec == Init /\ [][Next]_<<published, shown>>
=============================================================================
