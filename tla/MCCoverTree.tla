---------------------------- MODULE MCCoverTree ----------------------------
(* CoverTreeSearch on a short line, and on a circle with the cosine        *)
(* distance, 1 less the cosine, in thousandths.                            *)
EXTENDS CoverTreeSearch

Steps == 0 .. 8
Mid == {0, 3, 6}
Gap(x, y) == IF x >= y THEN x - y ELSE y - x

\* Directions are multiples of 30 degrees.
Directions == {0, 2, 4, 9}
Cosine(x, y) ==
  LET turn == Gap(x, y)
      angle == IF turn <= 6 THEN turn ELSE 12 - turn
  IN  <<0, 134, 500, 1000, 1500, 1866, 2000>>[angle + 1]

=============================================================================
