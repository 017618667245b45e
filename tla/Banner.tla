------------------------------- MODULE Banner -------------------------------
(***************************************************************************)
(* The login banner's budget of lines.  A finding is here the number of    *)
(* lines its wrapped summary takes; the findings come worst first.         *)
(***************************************************************************)
EXTENDS Integers, FiniteSets, Sequences

CONSTANT MaxLines    \* config.banner.max_lines

(* the header's five lines, the line about what is left out, the footer *)
Budget == MaxLines - 7

(* the lines of the first k findings; a finding's line 0 is the blank one before it *)
Used(heights, k) == Cardinality(UNION {{i} \X (0 .. heights[i]) : i \in 1 .. k})

(* fault: the blank line is not counted in the test *)
ShownTight(heights) ==
    Cardinality({k \in 1 .. Len(heights) : Used(heights, k) - 1 <= Budget})

(* The loop stops at the first finding that does not fit. *)
Shown(heights) ==
    Cardinality({k \in 1 .. Len(heights) : Used(heights, k) <= Budget})

Lines(heights) ==
    LET shown == Shown(heights)
    IN  IF heights = <<>>
        THEN 1
        ELSE 6 + Used(heights, shown) + (IF shown < Len(heights) THEN 1 ELSE 0)
=============================================================================
