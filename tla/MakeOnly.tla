------------------------------ MODULE MakeOnly -----------------------------
(***************************************************************************)
(* What calculate_make promises: in one step, every package of the plan    *)
(* keeps its make mark exactly if no package reached over runtime          *)
(* dependencies from one without the mark depends on it.  Resolver takes   *)
(* this step whole; CalculateMake shows that the code's loop does it.      *)
(***************************************************************************)
EXTENDS Depends

Item == [pkg : Package, make : BOOLEAN]

(* The packages of Actions::install, then those of Actions::build.         *)
Plan == [items : Seq(Item), nover : BOOLEAN]

VARIABLES
    plan,      \* the plan as the recursion left it
    make,      \* the make mark of each of its packages
    marked     \* the marks are final

vars == <<plan, make, marked>>

Given == [i \in DOMAIN plan.items |-> plan.items[i].make]

(* The plan's packages, and those needed at runtime to begin with. *)
Pkgs  == { plan.items[i].pkg : i \in DOMAIN plan.items }
Seeds == { plan.items[i].pkg : i \in { j \in DOMAIN plan.items : ~ plan.items[j].make } }

StillMake(i) ==
    /\ plan.items[i].make
    /\ ~ NeededBy(Runtime(Seeds, Pkgs, plan.nover), plan.items[i].pkg, plan.nover)

Init == plan \in Plan /\ make = Given /\ marked = FALSE

Mark == /\ ~ marked
        /\ marked' = TRUE
        /\ make' = [i \in DOMAIN plan.items |-> StillMake(i)]
        /\ UNCHANGED plan

Safety == Init /\ [][Mark]_vars

Spec == Safety /\ WF_vars(Mark)
=============================================================================
