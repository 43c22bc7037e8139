------------------------------- MODULE Pointer -------------------------------
(***************************************************************************)
(* What the screen is to show: a picture in which a square of one colour   *)
(* is blanked out where the pointer is and painted where it goes, as far as *)
(* either is on the screen.                                                *)
(***************************************************************************)
EXTENDS Integers

CONSTANTS Width, Height, Side

VARIABLES at,      \* where the pointer is, on the screen or off it
          picture  \* the colour of every point of the screen

Points == (0 .. Width - 1) \X (0 .. Height - 1)
Square(p) == {q \in Points : q[1] - p[1] \in 0 .. Side - 1 /\ q[2] - p[2] \in 0 .. Side - 1}

Painted(colour) == [q \in Points |-> IF q \in Square(at') THEN colour ELSE picture[q]]

Init == at \in Int \X Int /\ picture \in [Points -> {"was"}]

Blank == at' = at /\ picture' = Painted("black")

\* It moves only from where it has been blanked out.
Jump ==
  /\ \A q \in Square(at) : picture[q] = "black"
  /\ at' \in Int \X Int /\ picture' = picture

Paint == at' = at /\ picture' = Painted("yellow")

Next == Blank \/ Paint \/ Jump

Spec == Init /\ [][Next]_<<at, picture>>
=============================================================================
