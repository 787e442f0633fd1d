---------------------------- MODULE CalculateMake --------------------------
(***************************************************************************)
(* Resolver::calculate_make (resolve.rs 1316-1398), step by step: collect  *)
(* the runtime dependencies of the packages that are not make-only, then   *)
(* go over the plan, unmarking what satisfies one of them and adding its   *)
(* dependencies, until a pass changes nothing.                             *)
(***************************************************************************)
EXTENDS Depends

CONSTANT Plans     \* the plans to mark: [items, nover], as in MakeOnly

Item == [pkg : Package, make : BOOLEAN]

Plan == [items : Seq(Item), nover : BOOLEAN]

ASSUME PlansAssumption == Plans \subseteq Plan

VARIABLES
    plan,      \* the packages, install first, with the marks they came with
    make,      \* their make marks now
    runtime,   \* the runtime dependencies found so far
    pos,       \* the package the pass looks at next
    run,       \* this pass has unmarked a package
    pc         \* "seed", "pass" or "done"

vars == <<plan, make, runtime, pos, run, pc>>

TypeOK ==
    /\ plan \in Plan
    /\ make \in [DOMAIN plan.items -> BOOLEAN]
    /\ runtime \in SUBSET Dep
    /\ pos \in 1 .. Len(plan.items) + 1
    /\ run \in BOOLEAN
    /\ pc \in {"seed", "pass", "done"}

Given == [i \in DOMAIN plan.items |-> plan.items[i].make]

Init ==
    /\ plan \in Plans
    /\ make = Given
    /\ runtime = {} /\ pos = 1 /\ run = FALSE /\ pc = "seed"

DependsOf(i) == Elements(plan.items[i].pkg.depends)

(* Fault: make-only packages count as well. *)
SeedAll ==
    /\ pc = "seed" /\ pc' = "pass"
    /\ runtime' = UNION { DependsOf(i) : i \in DOMAIN plan.items }
    /\ UNCHANGED <<plan, make, pos, run>>

(* The first three iterations over the plan, and the sort and dedup. *)
Seed ==
    /\ pc = "seed" /\ pc' = "pass"
    /\ runtime' = UNION { DependsOf(i) : i \in { j \in DOMAIN plan.items : ~ make[j] } }
    /\ UNCHANGED <<plan, make, pos, run>>

Satisfied(i) == \E d \in runtime : Satisfies(plan.items[i].pkg, d, plan.nover)

(* Fault: every other package is passed over. *)
VisitingOther == pc = "pass" /\ pos \in DOMAIN plan.items /\ pos' = pos + 2

Visiting == pc = "pass" /\ pos \in DOMAIN plan.items /\ pos' = pos + 1

Keep ==
    /\ Visiting
    /\ ~ make[pos] \/ ~ Satisfied(pos)
    /\ UNCHANGED <<plan, make, runtime, run, pc>>

(* Fault: the dependencies of the unmarked package are not added. *)
UnmarkOnly ==
    /\ Visiting /\ make[pos] /\ Satisfied(pos)
    /\ make' = [make EXCEPT ![pos] = FALSE]
    /\ run' = TRUE
    /\ UNCHANGED <<plan, runtime, pc>>

Unmark ==
    /\ Visiting /\ make[pos] /\ Satisfied(pos)
    /\ make' = [make EXCEPT ![pos] = FALSE]
    /\ run' = TRUE
    /\ runtime' = runtime \cup DependsOf(pos)
    /\ UNCHANGED <<plan, pc>>

(* Fault: run is not reset before the next pass. *)
AgainForever ==
    /\ pc = "pass" /\ pos = Len(plan.items) + 1 /\ run
    /\ pos' = 1
    /\ UNCHANGED <<plan, make, runtime, run, pc>>

Again ==
    /\ pc = "pass" /\ pos = Len(plan.items) + 1 /\ run
    /\ pos' = 1 /\ run' = FALSE
    /\ UNCHANGED <<plan, make, runtime, pc>>

Finish ==
    /\ pc = "pass" /\ pos = Len(plan.items) + 1 /\ ~ run
    /\ pc' = "done"
    /\ UNCHANGED <<plan, make, runtime, pos, run>>

Returned == pc = "done" /\ UNCHANGED vars

Next == Seed \/ Keep \/ Unmark \/ Again \/ Finish \/ Returned

(* A loop on one thread that waits for nothing. *)
Spec == Init /\ [][Next]_vars /\ WF_vars(Next)

-----------------------------------------------------------------------------
(* The loop does what MakeOnly promises: the marks it is working on count  *)
(* once it has returned.                                                   *)
Abs == INSTANCE MakeOnly WITH
           make   <- IF pc = "done" THEN make ELSE Given,
           marked <- pc = "done"

Refines == Abs!Spec

(* At any time, a package without the mark is one that came without it or  *)
(* that a runtime chain reaches: no package is unmarked by a dependency    *)
(* that only building needs, not even for a while.                         *)
NeverUnmarkedInVain ==
    \A i \in DOMAIN plan.items : make[i] \/ ~ Abs!StillMake(i)

(* Once the loop has returned, a marked package satisfies no dependency of *)
(* an unmarked one: whoever removes the make-only packages after the build *)
(* breaks no package that stays.                                           *)
SafeToRemove ==
    pc = "done" =>
        \A i, j \in DOMAIN plan.items :
            make[i] /\ ~ make[j] =>
                \A d \in DependsOf(j) : ~ Satisfies(plan.items[i].pkg, d, plan.nover)
=============================================================================
