--------------------------- MODULE CommandReports ---------------------------
(***************************************************************************)
(* What an application that begins controller commands is promised about   *)
(* their callbacks: reports of progress, then one report of the end, and   *)
(* nothing after it. A command that was told nothing yet may go without a  *)
(* word, with the node it was for.                                         *)
(***************************************************************************)
CONSTANTS
    Command,
    Ending  \* reports of an end, which are not "Nothing" and not "Progress"
VARIABLES
    life,   \* per command: not begun, begun and not over, over
    told    \* per command, the state its callback was last given

Init == life = [c \in Command |-> "idle"] /\ told = [c \in Command |-> "Nothing"]

Begin(c) ==
    /\ life[c] = "idle"
    /\ life' = [life EXCEPT ![c] = "open"]
    /\ UNCHANGED told

Progress(c) ==
    /\ life[c] = "open"
    /\ told' = [told EXCEPT ![c] = "Progress"]
    /\ UNCHANGED life

End(c) ==
    /\ life[c] = "open"
    /\ \E s \in Ending : told' = [told EXCEPT ![c] = s]
    /\ life' = [life EXCEPT ![c] = "over"]

Dismiss(gone) ==
    /\ gone # {}
    /\ \A c \in gone : life[c] = "open" /\ told[c] = "Nothing"
    /\ life' = [c \in Command |-> IF c \in gone THEN "over" ELSE life[c]]
    /\ UNCHANGED told

Next == \/ \E c \in Command : Begin(c) \/ Progress(c) \/ End(c)
        \/ \E gone \in SUBSET Command : Dismiss(gone)

Spec == Init /\ [][Next]_<<life, told>>
=============================================================================
