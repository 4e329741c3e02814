------------------------------- MODULE PaidOnce -------------------------------
(***************************************************************************)
(* What LectureLive promises about one payment order, however often and in  *)
(* whatever order the payment provider tells about it: its value is given   *)
(* once, never after the money has gone back, and when the money goes back  *)
(* every cent of what was given is either recovered or owed.                *)
(***************************************************************************)
EXTENDS Naturals

CONSTANT Amount         \* cents the order credits

VARIABLES
    given,      \* "no", "yes", "back": given and taken back; "never": refused for good
    debt        \* cents of a reversed order that could not be recovered

Init == given = "no" /\ debt = 0

Give == given = "no" /\ given' = "yes" /\ UNCHANGED debt
Refuse == given = "no" /\ given' = "never" /\ UNCHANGED debt
TakeBack == given = "yes" /\ given' = "back" /\ debt' \in 0 .. Amount

Next == Give \/ Refuse \/ TakeBack
Spec == Init /\ [][Next]_<<given, debt>>
=============================================================================
