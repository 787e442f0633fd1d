--------------------------- MODULE MCCalculateMake -------------------------
(***************************************************************************)
(* Every plan of three packages: each depends on each of the others not at *)
(* all, on any version, or on a version nobody has; c is also provided by  *)
(* b, and listed twice in some plans, once with each mark.                 *)
(***************************************************************************)
EXTENDS CalculateMake

CONSTANTS a, b, c

MCName == {a, b, c}

D(n, v) == [name |-> n, mod |-> IF v = 0 THEN "any" ELSE "ge", ver |-> v]

Pkg(n, provides, depends) ==
    [ src |-> "aur", repo |-> NoRepo, name |-> n, base |-> n, ver |-> 2,
      provides |-> provides, conflicts |-> {}, depends |-> depends, gdepends |-> << >>,
      makedepends |-> << >>, checkdepends |-> << >>, groups |-> {} ]

Edge(n, k) == CASE k = "none" -> << >> [] k = "any" -> <<D(n, 0)>> [] k = "newer" -> <<D(n, 3)>>

Items(k, m, twice) ==
    LET pa == Pkg(a, {}, Edge(b, k[1]) \o Edge(c, k[2]))
        pb == Pkg(b, {[name |-> c, mod |-> "eq", ver |-> 2]}, Edge(a, k[3]) \o Edge(c, k[4]))
        pc3 == Pkg(c, {}, Edge(a, k[5]) \o Edge(b, k[6]))
        It(q, mark) == [pkg |-> q, make |-> mark]
    IN  (IF twice THEN <<It(pc3, ~ m[3])>> ELSE << >>)
        \o <<It(pa, m[1]), It(pb, m[2]), It(pc3, m[3])>>

MCPlans ==
    { [items |-> Items(k, m, twice), nover |-> nover] :
        k \in [1 .. 6 -> {"none", "any"}], m \in [1 .. 3 -> BOOLEAN],
        twice \in BOOLEAN, nover \in {FALSE} }
    \cup
    { [items |-> Items(k, m, FALSE), nover |-> nover] :
        k \in [1 .. 6 -> {"any", "newer"}], m \in [1 .. 3 -> BOOLEAN], nover \in BOOLEAN }
=============================================================================
