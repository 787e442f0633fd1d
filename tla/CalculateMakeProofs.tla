------------------------- MODULE CalculateMakeProofs -----------------------
(***************************************************************************)
(* The loop of calculate_make computes what MakeOnly promises, for every   *)
(* plan.                                                                   *)
(***************************************************************************)
EXTENDS CalculateMake, TLAPS

(* Who is needed by a set is needed by every larger one. *)
LEMMA NeededByMonotone ==
    ASSUME NEW S, NEW U, S \subseteq U, NEW p, NEW nover, NeededBy(S, p, nover)
    PROVE  NeededBy(U, p, nover)
  BY DEF NeededBy

(* Runtime is closed, and the least closed set. *)
LEMMA RuntimeIsLeast ==
    ASSUME NEW seeds, NEW pkgs, NEW nover, seeds \subseteq pkgs
    PROVE  /\ Runtime(seeds, pkgs, nover) \subseteq pkgs
           /\ RuntimeClosed(Runtime(seeds, pkgs, nover), seeds, pkgs, nover)
           /\ \A S \in SUBSET pkgs : RuntimeClosed(S, seeds, pkgs, nover)
                                        => Runtime(seeds, pkgs, nover) \subseteq S
  <1> DEFINE R == Runtime(seeds, pkgs, nover)
  <1>1. R \subseteq pkgs
    BY DEF Runtime
  <1>2. \A S \in SUBSET pkgs : RuntimeClosed(S, seeds, pkgs, nover) => R \subseteq S
    BY DEF Runtime
  <1>3. seeds \subseteq R
    BY DEF Runtime, RuntimeClosed
  <1>4. ASSUME NEW p \in pkgs, NeededBy(R, p, nover)
        PROVE  p \in R
    <2> SUFFICES ASSUME NEW S \in SUBSET pkgs, RuntimeClosed(S, seeds, pkgs, nover)
                 PROVE  p \in S
      BY DEF Runtime
    <2>1. NeededBy(S, p, nover)
      BY <1>2, <1>4, NeededByMonotone
    <2> QED
      BY <2>1 DEF RuntimeClosed
  <1> QED
    BY <1>1, <1>2, <1>3, <1>4 DEF RuntimeClosed

(* The operators of Depends are the same seen through Abs. *)
LEMMA AbsNeededBy ==
    ASSUME NEW S, NEW p, NEW nover
    PROVE  Abs!NeededBy(S, p, nover) <=> NeededBy(S, p, nover)
  <1>1. \A d : Abs!Satisfies(p, d, nover) <=> Satisfies(p, d, nover)
    BY DEF Abs!Satisfies, Satisfies, Abs!SatisfiesProvide, SatisfiesProvide,
           Abs!SatisfiesVer, SatisfiesVer
  <1>2. \A q : Abs!Elements(q.depends) = Elements(q.depends)
    BY DEF Abs!Elements, Elements
  <1> QED
    BY <1>1, <1>2 DEF Abs!NeededBy, NeededBy

LEMMA AbsRuntime ==
    ASSUME NEW seeds, NEW pkgs, NEW nover
    PROVE  Abs!Runtime(seeds, pkgs, nover) = Runtime(seeds, pkgs, nover)
  <1>1. \A S : Abs!RuntimeClosed(S, seeds, pkgs, nover) <=> RuntimeClosed(S, seeds, pkgs, nover)
    BY AbsNeededBy DEF Abs!RuntimeClosed, RuntimeClosed
  <1> QED
    BY <1>1 DEF Abs!Runtime, Runtime

(* What MakeOnly keeps marked, in the operators of this module. *)
LEMMA StillMakeDef ==
    ASSUME NEW i
    PROVE  Abs!StillMake(i) <=>
               /\ plan.items[i].make
               /\ ~ NeededBy(Runtime(Abs!Seeds, Abs!Pkgs, plan.nover),
                             plan.items[i].pkg, plan.nover)
  BY AbsNeededBy, AbsRuntime DEF Abs!StillMake

-----------------------------------------------------------------------------
(* The inductive invariant. *)

(* Before the first pass nothing has happened. *)
AtSeed == pc = "seed" => make = Given /\ pos = 1 /\ run = FALSE

(* runtime holds the dependencies of the unmarked packages, no others. *)
Collected ==
    pc # "seed" =>
        runtime = UNION { DependsOf(i) : i \in { j \in DOMAIN plan.items : ~ make[j] } }

NoneMarkedAnew == \A i \in DOMAIN plan.items : make[i] => plan.items[i].make

(* While a pass has unmarked nothing, no package behind it can be unmarked. *)
Checked ==
    pc = "pass" /\ ~ run => \A j \in 1 .. (pos - 1) : make[j] => ~ Satisfied(j)

Stable ==
    pc = "done" => \A j \in DOMAIN plan.items : make[j] => ~ Satisfied(j)

Inv == /\ TypeOK /\ AtSeed /\ Collected /\ NoneMarkedAnew
       /\ NeverUnmarkedInVain /\ Checked /\ Stable

(* What plan says of its packages, with their types. *)
LEMMA PlanTypes ==
    ASSUME TypeOK
    PROVE  /\ DOMAIN plan.items = 1 .. Len(plan.items)
           /\ Len(plan.items) \in Nat
           /\ \A i \in DOMAIN plan.items :
                  /\ plan.items[i] \in Item
                  /\ plan.items[i].make \in BOOLEAN
                  /\ plan.items[i].pkg \in Package
                  /\ DependsOf(i) \in SUBSET Dep
  <1>1. plan.items \in Seq(Item)
    BY DEF TypeOK, Plan
  <1>2. \A i \in DOMAIN plan.items : plan.items[i] \in Item
    BY <1>1
  <1>3. \A i \in DOMAIN plan.items : plan.items[i].pkg.depends \in Seq(Dep)
    BY <1>2 DEF Item, Package
  <1>4. \A i \in DOMAIN plan.items : DependsOf(i) \in SUBSET Dep
    BY <1>3 DEF DependsOf, Elements
  <1> QED
    BY <1>1, <1>2, <1>4 DEF Item

(* The unmarked packages are needed at runtime: NeverUnmarkedInVain, said  *)
(* of the closure.                                                         *)
LEMMA UnmarkedReached ==
    ASSUME TypeOK, NoneMarkedAnew, NeverUnmarkedInVain,
           NEW i \in DOMAIN plan.items, ~ make[i]
    PROVE  plan.items[i].pkg \in Runtime(Abs!Seeds, Abs!Pkgs, plan.nover)
  <1> DEFINE R == Runtime(Abs!Seeds, Abs!Pkgs, plan.nover)
  <1>1. Abs!Seeds \subseteq Abs!Pkgs
    BY DEF Abs!Seeds, Abs!Pkgs
  <1>2. RuntimeClosed(R, Abs!Seeds, Abs!Pkgs, plan.nover)
    BY <1>1, RuntimeIsLeast
  <1>3. plan.items[i].pkg \in Abs!Pkgs
    BY DEF Abs!Pkgs
  <1>4. CASE ~ plan.items[i].make
    <2>1. plan.items[i].pkg \in Abs!Seeds
      BY <1>4 DEF Abs!Seeds
    <2> QED
      BY <2>1, <1>2 DEF RuntimeClosed
  <1>5. CASE plan.items[i].make
    <2>1. NeededBy(R, plan.items[i].pkg, plan.nover)
      BY <1>5, StillMakeDef DEF NeverUnmarkedInVain
    <2> QED
      BY <2>1, <1>2, <1>3 DEF RuntimeClosed
  <1> QED
    BY <1>4, <1>5

(* A package that satisfies a collected dependency is not still make-only. *)
LEMMA SatisfiedNotMake ==
    ASSUME Inv, pc # "seed", NEW i \in DOMAIN plan.items, Satisfied(i)
    PROVE  ~ Abs!StillMake(i)
  <1> DEFINE R == Runtime(Abs!Seeds, Abs!Pkgs, plan.nover)
  <1>1. PICK d \in runtime : Satisfies(plan.items[i].pkg, d, plan.nover)
    BY DEF Satisfied
  <1>2. PICK j \in DOMAIN plan.items : ~ make[j] /\ d \in DependsOf(j)
    BY <1>1 DEF Inv, Collected
  <1>3. plan.items[j].pkg \in R
    BY <1>2, UnmarkedReached DEF Inv
  <1>4. NeededBy(R, plan.items[i].pkg, plan.nover)
    BY <1>1, <1>2, <1>3 DEF NeededBy, DependsOf
  <1> QED
    BY <1>4, StillMakeDef

-----------------------------------------------------------------------------

LEMMA InitInv == Init => Inv
  <1> SUFFICES ASSUME Init PROVE Inv
    OBVIOUS
  <1>1. plan \in Plan
    BY PlansAssumption DEF Init
  <1>2. plan.items \in Seq(Item)
    BY <1>1 DEF Plan
  <1>3. \A i \in DOMAIN plan.items : plan.items[i] \in Item
    BY <1>2
  <1>4. TypeOK
    <2>1. Given \in [DOMAIN plan.items -> BOOLEAN]
      BY <1>3 DEF Given, Item
    <2>2. pos \in 1 .. Len(plan.items) + 1
      BY <1>2 DEF Init
    <2> QED
      BY <1>1, <2>1, <2>2 DEF Init, TypeOK
  <1>5. NeverUnmarkedInVain
    BY DEF Init, Given, NeverUnmarkedInVain, Abs!StillMake
  <1> QED
    BY <1>4, <1>5 DEF Init, Inv, AtSeed, Collected, NoneMarkedAnew, Given, Checked, Stable

(* plan never changes, nor what depends on it alone. *)
LEMMA PlanFixed ==
    ASSUME plan' = plan
    PROVE  \A i : /\ Abs!StillMake(i)' <=> Abs!StillMake(i)
                  /\ DependsOf(i)' = DependsOf(i)
  BY DEF Abs!StillMake, Abs!Seeds, Abs!Pkgs, DependsOf

LEMMA NextInv == Inv /\ [Next]_vars => Inv'
  <1> SUFFICES ASSUME Inv, [Next]_vars
               PROVE  Inv'
    OBVIOUS
  <1> USE DEF Inv
  <1> Len(plan.items) \in Nat /\ DOMAIN plan.items = 1 .. Len(plan.items)
    BY PlanTypes
  <1>1. CASE Seed
    <2>1. TypeOK'
      <3>1. \A i \in DOMAIN plan.items : DependsOf(i) \in SUBSET Dep
        BY PlanTypes
      <3>2. runtime' \in SUBSET Dep
        BY <1>1, <3>1 DEF Seed
      <3> QED
        BY <1>1, <3>2 DEF Seed, TypeOK
    <2>2. Collected'
      BY <1>1, PlanFixed DEF Seed, Collected
    <2>3. (AtSeed /\ NoneMarkedAnew /\ Stable)'
      BY <1>1 DEF Seed, AtSeed, NoneMarkedAnew, Stable
    <2>4. NeverUnmarkedInVain'
      BY <1>1, PlanFixed DEF Seed, NeverUnmarkedInVain
    <2>5. Checked'
      BY <1>1 DEF Seed, AtSeed, Checked
    <2> QED
      BY <2>1, <2>2, <2>3, <2>4, <2>5
  <1>2. CASE Keep
    <2>1. TypeOK'
      BY <1>2 DEF Keep, Visiting, TypeOK
    <2>2. Collected'
      BY <1>2, PlanFixed DEF Keep, Visiting, Collected
    <2>3. (AtSeed /\ NoneMarkedAnew /\ Stable)'
      BY <1>2 DEF Keep, Visiting, AtSeed, NoneMarkedAnew, Stable
    <2>4. NeverUnmarkedInVain'
      BY <1>2, PlanFixed DEF Keep, Visiting, NeverUnmarkedInVain
    <2>5. Checked'
      <3> SUFFICES ASSUME pc = "pass", ~ run, NEW j \in 1 .. pos, make[j]
                   PROVE  ~ Satisfied(j)
        BY <1>2 DEF Keep, Visiting, Checked, Satisfied, TypeOK
      <3>1. CASE j = pos
        BY <1>2, <3>1 DEF Keep
      <3>2. CASE j \in 1 .. (pos - 1)
        BY <3>2 DEF Checked
      <3> QED
        BY <3>1, <3>2 DEF TypeOK
    <2> QED
      BY <2>1, <2>2, <2>3, <2>4, <2>5
  <1>3. CASE Unmark
    <2>1. TypeOK'
      <3>1. runtime' \in SUBSET Dep
        BY <1>3, PlanTypes DEF Unmark, Visiting, TypeOK
      <3> QED
        BY <1>3, <3>1 DEF Unmark, Visiting, TypeOK
    <2>2. Collected'
      <3>1. \A i \in DOMAIN plan.items : ~ make'[i] <=> ~ make[i] \/ i = pos
        BY <1>3 DEF Unmark, Visiting, TypeOK
      <3>2. runtime = UNION { DependsOf(i) : i \in { j \in DOMAIN plan.items : ~ make[j] } }
        BY <1>3 DEF Unmark, Visiting, Collected
      <3>3. runtime' = runtime \cup DependsOf(pos) /\ pos \in DOMAIN plan.items
        BY <1>3 DEF Unmark, Visiting
      <3>4. runtime' = UNION { DependsOf(i) : i \in { j \in DOMAIN plan.items : ~ make'[j] } }
        BY <3>1, <3>2, <3>3
      <3>5. plan' = plan
        BY <1>3 DEF Unmark, Visiting
      <3> QED
        BY <3>4, <3>5, PlanFixed DEF Collected
    <2>3. (AtSeed /\ NoneMarkedAnew /\ Stable)'
      BY <1>3 DEF Unmark, Visiting, AtSeed, NoneMarkedAnew, Stable, TypeOK
    <2>4. NeverUnmarkedInVain'
      <3>1. ~ Abs!StillMake(pos)
        BY <1>3, SatisfiedNotMake DEF Unmark, Visiting
      <3> QED
        BY <1>3, <3>1, PlanFixed DEF Unmark, Visiting, NeverUnmarkedInVain, TypeOK
    <2>5. Checked'
      BY <1>3 DEF Unmark, Visiting, Checked
    <2> QED
      BY <2>1, <2>2, <2>3, <2>4, <2>5
  <1>4. CASE Again
    <2>1. TypeOK'
      <3>1. pos' \in 1 .. Len(plan.items) + 1
        BY <1>4 DEF Again
      <3> QED
        BY <1>4, <3>1 DEF Again, TypeOK
    <2>2. (Collected /\ NeverUnmarkedInVain)'
      BY <1>4, PlanFixed DEF Again, Collected, NeverUnmarkedInVain
    <2>3. (AtSeed /\ NoneMarkedAnew /\ Checked /\ Stable)'
      BY <1>4 DEF Again, AtSeed, NoneMarkedAnew, Checked, Stable
    <2> QED
      BY <2>1, <2>2, <2>3
  <1>5. CASE Finish
    <2>1. TypeOK'
      BY <1>5 DEF Finish, TypeOK
    <2>2. (Collected /\ NeverUnmarkedInVain)'
      BY <1>5, PlanFixed DEF Finish, Collected, NeverUnmarkedInVain
    <2>3. (AtSeed /\ NoneMarkedAnew /\ Checked)'
      BY <1>5 DEF Finish, AtSeed, NoneMarkedAnew, Checked
    <2>4. Stable'
      BY <1>5 DEF Finish, Checked, Stable, Satisfied
    <2> QED
      BY <2>1, <2>2, <2>3, <2>4
  <1>6. CASE UNCHANGED vars
    <2>1. (TypeOK /\ AtSeed /\ NoneMarkedAnew /\ Checked /\ Stable)'
      BY <1>6 DEF vars, TypeOK, AtSeed, Given, NoneMarkedAnew, Checked, Stable, Satisfied
    <2>2. (Collected /\ NeverUnmarkedInVain)'
      BY <1>6, PlanFixed DEF vars, Collected, NeverUnmarkedInVain
    <2> QED
      BY <2>1, <2>2
  <1> QED
    BY <1>1, <1>2, <1>3, <1>4, <1>5, <1>6 DEF Next, Returned

(* The invariant holds throughout. *)
THEOREM Invariance == Spec => []Inv
  BY InitInv, NextInv, PTL DEF Spec

-----------------------------------------------------------------------------
(* What follows from it. *)

(* Once no package can be unmarked, the marks are those MakeOnly promises. *)
LEMMA MarksRight ==
    ASSUME Inv, pc # "seed", \A j \in DOMAIN plan.items : make[j] => ~ Satisfied(j)
    PROVE  \A i \in DOMAIN plan.items : make[i] <=> Abs!StillMake(i)
  <1> DEFINE S == { plan.items[i].pkg : i \in { j \in DOMAIN plan.items : ~ make[j] } }
             R == Runtime(Abs!Seeds, Abs!Pkgs, plan.nover)
  <1> USE DEF Inv
  <1>1. S \subseteq Abs!Pkgs /\ Abs!Seeds \subseteq S /\ Abs!Seeds \subseteq Abs!Pkgs
    BY DEF Abs!Pkgs, Abs!Seeds, NoneMarkedAnew
  <1>2. ASSUME NEW i \in DOMAIN plan.items, NeededBy(S, plan.items[i].pkg, plan.nover)
        PROVE  ~ make[i]
    <2>1. PICK j \in DOMAIN plan.items :
              /\ ~ make[j]
              /\ \E d \in DependsOf(j) : Satisfies(plan.items[i].pkg, d, plan.nover)
      BY <1>2 DEF NeededBy, DependsOf
    <2>2. Satisfied(i)
      BY <2>1 DEF Collected, Satisfied
    <2> QED
      BY <2>2
  <1>3. RuntimeClosed(S, Abs!Seeds, Abs!Pkgs, plan.nover)
    BY <1>1, <1>2 DEF RuntimeClosed, Abs!Pkgs
  <1>4. R \subseteq S
    BY <1>1, <1>3, RuntimeIsLeast
  <1>5. ASSUME NEW i \in DOMAIN plan.items, make[i]
        PROVE  Abs!StillMake(i)
    <2>1. ~ NeededBy(R, plan.items[i].pkg, plan.nover)
      BY <1>2, <1>4, <1>5, NeededByMonotone
    <2> QED
      BY <1>5, <2>1, StillMakeDef DEF NoneMarkedAnew
  <1> QED
    BY <1>5 DEF NeverUnmarkedInVain

(* calculate_make never takes a wrong value into its variables: the type   *)
(* invariant, for every set of plans.                                      *)
THEOREM TypeCorrect == Spec => []TypeOK
  BY Invariance, PTL DEF Inv

(* calculate_make unmarks only what a runtime chain reaches.               *)
THEOREM Sound == Spec => []NeverUnmarkedInVain
  BY Invariance, PTL DEF Inv

(* When calculate_make returns, no package that stays depends on one that  *)
(* is still marked make-only.                                              *)
THEOREM Removable == Spec => []SafeToRemove
  <1>1. Inv => SafeToRemove
    BY DEF Inv, SafeToRemove, Stable, Collected, Satisfied
  <1> QED
    BY <1>1, Invariance, PTL

(* Every behaviour of the loop is one of MakeOnly, liveness apart: its     *)
(* return sets all marks to the least fixpoint, in one step.               *)
THEOREM Refinement == Spec => Abs!Safety
  <1>1. Init => Abs!Init
    BY PlansAssumption DEF Init, Abs!Init, Abs!Given, Given, Plan, Abs!Plan, Item, Abs!Item,
       Package, Abs!Package, Dep, Abs!Dep, DepMod, Abs!DepMod
  <1>2. Inv /\ [Next]_vars => [Abs!Mark]_(Abs!vars)
    <2> SUFFICES ASSUME Inv, [Next]_vars
                 PROVE  [Abs!Mark]_(Abs!vars)
      OBVIOUS
    <2>1. CASE Finish
      <3>1. \A j \in DOMAIN plan.items : make[j] => ~ Satisfied(j)
        BY <2>1, PlanTypes DEF Finish, Inv, Checked
      <3>2. \A i \in DOMAIN plan.items : make[i] <=> Abs!StillMake(i)
        BY <2>1, <3>1, MarksRight DEF Finish
      <3>3. make = [i \in DOMAIN plan.items |-> Abs!StillMake(i)]
        <4>1. make \in [DOMAIN plan.items -> BOOLEAN]
          BY DEF Inv, TypeOK
        <4>2. \A i \in DOMAIN plan.items : Abs!StillMake(i) \in BOOLEAN
          BY DEF Abs!StillMake
        <4>3. \A i \in DOMAIN plan.items : make[i] = Abs!StillMake(i)
          BY <3>2, <4>1, <4>2
        <4> QED
          BY <4>1, <4>3
      <3>4. /\ (IF pc' = "done" THEN make' ELSE Given') = make
            /\ pc # "done" /\ pc' = "done" /\ plan' = plan
        BY <2>1 DEF Finish
      <3> QED
        BY <3>3, <3>4 DEF Abs!Mark
    <2>2. CASE ~ Finish
      <3>1. plan' = plan /\ (pc' = "done" <=> pc = "done") /\ (pc = "done" => make' = make)
        BY <2>2 DEF Next, Seed, Keep, Unmark, Visiting, Again, Returned, vars
      <3>2. Given' = Given
        BY <3>1 DEF Given
      <3> QED
        BY <3>1, <3>2 DEF Abs!vars
    <2> QED
      BY <2>1, <2>2
  <1> QED
    BY <1>1, <1>2, Invariance, PTL DEF Spec, Abs!Safety
=============================================================================
