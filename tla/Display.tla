------------------------------ MODULE Display ------------------------------
(***************************************************************************)
(* What a capture is of: the Macintosh screen, as rows of pixels, in one   *)
(* of several modes, and the bands of rows a client may ask for.  A region *)
(* of the code is a rectangle; its columns are left out here.              *)
(***************************************************************************)
EXTENDS Naturals

CONSTANTS
    Mode,       \* geometries the screen may be switched to
    Rows,       \* their numbers of rows
    MaxRow      \* bound of the model: the last row a client names

ASSUME DisplayAssumption == Rows \in [Mode -> Nat \ {0}] /\ MaxRow \in Nat

\* A row is as good as one pixel: rows are compared and combined whole.
Pixel == {0, 1}
Xor(a, b) == IF a = b THEN 0 ELSE 1

Screen == UNION {[mode : {m}, pix : [1..Rows[m] -> Pixel]] : m \in Mode}

\* hi = 0 asks for the whole screen.
Whole  == [lo |-> 0, hi |-> 0]
Bands  == {b \in [lo : 1..MaxRow, hi : 1..MaxRow] : b.lo <= b.hi}
Region == {Whole} \union Bands

First(r)       == IF r.hi = 0 THEN 1 ELSE r.lo
Last(m, r)     == IF r.hi = 0 \/ r.hi > Rows[m] THEN Rows[m] ELSE r.hi
OnScreen(m, r) == First(r) <= Rows[m]

\* The rows of screen s in region r.
Crop(s, r) == [mode |-> s.mode, lo |-> First(r), hi |-> Last(s.mode, r),
               pix |-> [y \in First(r)..Last(s.mode, r) |-> s.pix[y]]]

Picture == {Crop(s, r) : s \in Screen, r \in Region}

=============================================================================
