------------------------------ MODULE Counters ------------------------------
(***************************************************************************)
(* The counters of the queues are unsigned numbers of one machine word and *)
(* wrap around; CircularLessThan (utility.h) compares them by the sign of  *)
(* their difference.  The other modules count in natural numbers, and      *)
(* ComparesAcrossWrap of QueueBaseProof is why they may, for counters less *)
(* than half a word apart.                                                 *)
(***************************************************************************)
EXTENDS Integers

CONSTANT Half       \* 2^(w - 1), for words of w bits

Word == 2 * Half
Words == 0 .. (Word - 1)

\* What a word holds of x.
Wrap(x) == x % Word

\* static_cast<T>( a - b ) > 1 << ( w - 1 )
CircularLessThan(a, b) == Wrap(a - b) > Half
=============================================================================
