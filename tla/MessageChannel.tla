--------------------------- MODULE MessageChannel ---------------------------
(***************************************************************************)
(* What platform/hal/hal_intersys.c promises to the core that sends on a    *)
(* channel: the other core reads every message once, in order, and the     *)
(* sender gets its messages back only when they have been read.            *)
(***************************************************************************)
EXTENDS Naturals, Sequences

CONSTANTS Messages,
          Room          \* how many messages the channel holds

VARIABLES waiting,      \* the messages that were sent and not read
          read          \* those that were read and are still the channel's

Init == waiting = << >> /\ read = << >>

Send(m) ==
    /\ Len(waiting) + Len(read) < Room
    /\ waiting' = Append(waiting, m)
    /\ UNCHANGED read

Read ==
    /\ waiting # << >>
    /\ waiting' = Tail(waiting)
    /\ read' = Append(read, Head(waiting))

GiveBack ==
    /\ read # << >> /\ read' = << >>
    /\ UNCHANGED waiting

Next == (\E m \in Messages : Send(m)) \/ Read \/ GiveBack

Spec == Init /\ [][Next]_<<waiting, read>>
=============================================================================
