---------------------------- MODULE OrderProofs ----------------------------
(***************************************************************************)
(* The order and the size of a plan, for every set of worlds: dependencies *)
(* are built first and packages once unless the plan has a cycle, and no   *)
(* package is in it that nothing asks for.                                 *)
(***************************************************************************)
EXTENDS PlanProofs

-----------------------------------------------------------------------------
(* Cycles.  That a plan has one is decided while it is being made: by what *)
(* is in the plan and what is on the stack to be pushed to it.  The target *)
(* at the bottom of the stack may be left out.                             *)

Pushed == PlanPkgs \cup { stack[i].pkg : i \in { j \in DOMAIN stack : j > 1 \/ IsRepo(j) } }

CyclicNow ==
    \E S \in SUBSET Pushed : S # {} /\ \A p \in S : \E q \in S : Requires(p, q)

(* A dependency of the package at x is there when x is built.  A repo      *)
(* package that is still being resolved is installed before.               *)
InPlace(x, d) ==
    \/ AssumeInstalled(d) \/ SatisfiedLocal(d) \/ SatisfiedInstall(d) \/ IsMissing(d)
    \/ \E y \in Position : Before(y, x) /\ Satisfies(PkgAt(y), d, NoVer)
    \/ \E i \in DOMAIN stack : IsRepo(i) /\ Satisfies(stack[i].pkg, d, NoVer)

InOrder == \A x \in Position : \A d \in Elements(Depends(PkgAt(x))) : InPlace(x, d)

(* What is being resolved for a dependency is not in the plan yet.         *)
FramesNotBuilt == \A i \in DOMAIN stack : i > 1 => stack[i].pkg \notin BuildPkgs

PlacesDiffer == \A x, y \in Position : PkgAt(x) = PkgAt(y) => x = y

OrderInv == /\ UniqueRepoNames => CyclicNow \/ InOrder
            /\ CyclicNow \/ (FramesNotBuilt /\ PlacesDiffer)

LEMMA PushedKept ==
    ASSUME PathInv, [Next]_vars
    PROVE  Pushed \subseteq Pushed'
  <1>1. ASSUME NEW i \in DOMAIN stack, i > 1 \/ IsRepo(i) PROVE stack[i].pkg \in Pushed'
    <2>1. CASE i \in DOMAIN stack' /\ stack'[i].pkg = stack[i].pkg
      BY <1>1, <2>1 DEF Pushed, IsRepo
    <2>2. CASE Finish /\ i \notin DOMAIN stack'
      BY <1>1, <2>2, ReturnedPlan DEF Pushed, PlanPkgs
    <2> QED
      BY <2>1, <2>2, FrameKept
  <1>2. PlanPkgs \subseteq Pushed'
    BY PlanGrowsOnly DEF Pushed
  <1> QED
    BY <1>1, <1>2 DEF Pushed

LEMMA RequiresKept ==
    ASSUME world' = world
    PROVE  \A p, q : Requires(p, q)' <=> Requires(p, q)
  BY ReadKept DEF Requires

LEMMA CyclicKept ==
    ASSUME PathInv, [Next]_vars, CyclicNow
    PROVE  CyclicNow'
  BY PushedKept, RequiresKept, WorldKept DEF CyclicNow

(* Each package on the stack requires the one above it, so one further up  *)
(* that requires one further down closes a cycle.                          *)
LEMMA FramesCycle ==
    ASSUME PathInv, NEW i \in DOMAIN stack, NEW n \in DOMAIN stack, i > 1, i <= n,
           Requires(stack[n].pkg, stack[i].pkg)
    PROVE  CyclicNow
  <1> DEFINE S == { stack[j].pkg : j \in i .. n }
  <1>1. DOMAIN stack = 1 .. Len(stack) /\ Len(stack) \in Nat /\ i \in Nat /\ n \in Nat
    BY DEF PathInv, TypeOK
  <1>2. S \in SUBSET Pushed /\ S # {}
    BY <1>1 DEF Pushed
  <1>3. ASSUME NEW j \in i .. n PROVE \E q \in S : Requires(stack[j].pkg, q)
    <2>1. CASE j = n
      BY <1>1, <2>1
    <2>2. CASE j # n
      <3>1. j + 1 \in i .. n /\ j + 1 \in DOMAIN stack /\ j + 1 > 1 /\ (j + 1) - 1 = j
        BY <1>1, <2>2
      <3>2. Requires(stack[j].pkg, stack[j + 1].pkg)
        BY <3>1 DEF PathInv, Linked, Requires
      <3> QED
        BY <3>1, <3>2
    <2> QED
      BY <2>1, <2>2
  <1> QED
    BY <1>2, <1>3 DEF CyclicNow

(* A package is called for that has to be built: it is not in the plan.    *)
LEMMA BuildCalls ==
    ASSUME PathInv, PlanKnown, DepStep, NEW f, CallsFor(f)
    PROVE  f.pkg \notin BuildPkgs
  <1>1. /\ f.pkg \in Known /\ Satisfies(f.pkg, Current, NoVer)
        /\ stack' = Append(Advanced, f) /\ Current \in Dep /\ Advanced \in Seq(Frame)
        /\ world \in World /\ cache \in SUBSET PackageOf("aur")
    BY TopType, AdvancedType DEF CallsFor, Brought, PathInv, TypeOK
  <1>2. CASE f.pkg.src = "repo"
    <2>1. \A p \in BuildPkgs : p.src # "repo"
      <3>1. ToBuildPkgs \subseteq PackageOf("pkgbuild") \cup PackageOf("aur")
        BY <1>1, WorldTypes, ElementsType DEF ToBuildPkgs
      <3> QED
        BY <3>1, PackageOfType DEF PlanKnown
    <2> QED
      BY <1>2, <2>1
  <1>3. CASE BuildDepFromPkgbuild \/ BuildDepFromAur
    <2>1. ~ SatisfiedBuild(Current)
      BY <1>3 DEF BuildDepFromPkgbuild, BuildDepFromAur, MustBuild, Done
    <2> QED
      BY <1>1, <2>1, PlanMeans
  <1>4. CASE BuildDepFromRepo \/ RepoDepFromRepo
    <2>1. PICK p \in FindRepoSatisfier(Current) :
              stack' = Advanced \/ stack' = Append(Advanced, NewFrame(p, Current, TRUE, TRUE, FALSE))
      BY <1>4 DEF BuildDepFromRepo, RepoDepFromRepo, EnterRepoPkg, FromRepo
    <2>2. p \in Elements(world.repos)
      BY <1>1, <2>1, RepoLookup
    <2>3. p.src = "repo"
      BY <1>1, <2>2, WorldTypes, ElementsType, PackageOfType
    <2> DEFINE g == NewFrame(p, Current, TRUE, TRUE, FALSE)
    <2>4. g.pkg = p
      BY DEF NewFrame
    <2>5. stack' = Advanced \/ stack' = Append(Advanced, g)
      BY <2>1
    <2> HIDE DEF g
    <2>6. PICK n : n = Len(Advanced) + 1
      OBVIOUS
    <2>7. n \in DOMAIN stack' /\ stack'[n] = f /\ n \notin DOMAIN Advanced
      BY <1>1, <2>6
    <2>8. stack'[n] = g
      BY <1>1, <2>5, <2>6, <2>7
    <2> QED
      BY <1>2, <2>3, <2>4, <2>7, <2>8
  <1>5. CASE ~ (BuildDepFromPkgbuild \/ BuildDepFromAur \/ BuildDepFromRepo \/ RepoDepFromRepo)
    <2>1. stack' = Advanced
      BY <1>5 DEF DepStep, BuildDepDone, BuildDepInstalled, BuildDepMissing, RepoDepSatisfied,
                  RepoDepMissing
    <2>2. Len(Append(Advanced, f)) = Len(Advanced) + 1 /\ Len(Advanced) \in Nat
      BY <1>1
    <2> QED
      BY <1>1, <2>1, <2>2
  <1> QED
    BY <1>3, <1>4, <1>5

LEMMA PlacesDifferKept ==
    ASSUME PlacesDiffer, PlacesKept \/ \E p : Placed(p) /\ p \notin BuildPkgs
    PROVE  PlacesDiffer'
  <1>1. CASE PlacesKept
    BY <1>1 DEF PlacesKept, PlacesDiffer
  <1>2. ASSUME NEW p, Placed(p), p \notin BuildPkgs PROVE PlacesDiffer'
    <2>1. PICK x : /\ Position' = Position \cup {x} /\ PkgAt(x)' = p
                   /\ \A y \in Position : PkgAt(y)' = PkgAt(y)
      BY <1>2 DEF Placed
    <2>2. \A y \in Position : PkgAt(y) \in BuildPkgs
      BY PositionMeans
    <2>3. \A y, z \in Position' : PkgAt(y)' = PkgAt(z)' => y = z
      BY <1>2, <2>1, <2>2 DEF PlacesDiffer
    <2> QED
      BY <2>3 DEF PlacesDiffer
  <1> QED
    BY <1>1, <1>2

LEMMA NextBuiltOnce ==
    ASSUME PlanInv, FramesNotBuilt, PlacesDiffer, [Next]_vars
    PROVE  CyclicNow' \/ (FramesNotBuilt' /\ PlacesDiffer')
  <1>1. PathInv /\ TypeOK
    BY DEF PlanInv, PathInv
  <1>2. CASE Outside /\ (UNCHANGED stack \/ \E f : OpensFor(f))
    <2>1. PlanSame
      BY <1>1, <1>2, OutsidePlan
    <2>2. ASSUME NEW i \in DOMAIN stack', i > 1 PROVE stack'[i].pkg \notin BuildPkgs
      BY <1>2, <2>2 DEF OpensFor, FramesNotBuilt
    <2> QED
      BY <2>1, <2>2, PlacesDifferKept DEF PlanSame, FramesNotBuilt
  <1>3. CASE DepStep /\ (Steps \/ \E f : CallsFor(f))
    <2>1. PlanSame
      BY <1>3, DepPlan
    <2>2. CASE Steps
      BY <1>1, <2>1, <2>2, SteppedFrames, PlacesDifferKept DEF PlanSame, FramesNotBuilt
    <2>3. ASSUME NEW f, CallsFor(f) PROVE FramesNotBuilt'
      <3>1. PICK n : /\ DOMAIN stack' = DOMAIN stack \cup {n} /\ stack'[n] = f
                     /\ \A i \in DOMAIN stack : stack'[i].pkg = stack[i].pkg
        BY <1>1, <2>3, CalledFrames
      <3>2. f.pkg \notin BuildPkgs
        BY <1>1, <1>3, <2>3, BuildCalls DEF PlanInv
      <3> QED
        BY <2>1, <3>1, <3>2 DEF PlanSame, FramesNotBuilt
    <2> QED
      BY <1>3, <2>1, <2>2, <2>3, PlacesDifferKept DEF PlanSame
  <1>4. CASE Finish /\ Pops
    <2>1. PICK n : /\ n = Len(stack) /\ n \in Nat \ {0} /\ n \in DOMAIN stack /\ Top = stack[n]
                   /\ \A i \in DOMAIN stack' : stack'[i] = stack[i] /\ i < n /\ i \in DOMAIN stack
      BY <1>1, <1>4, PoppedFrames
    <2>2. CASE PlacesKept /\ BuildPkgs' = BuildPkgs
      BY <2>1, <2>2, PlacesDifferKept DEF FramesNotBuilt
    <2>3. CASE Builds(Top.pkg) /\ (Len(stack) = 1 => \A p \in BuildPkgs : p.name # Top.pkg.name)
      <3>1. Top.pkg \notin BuildPkgs
        BY <2>1, <2>3 DEF FramesNotBuilt
      <3>2. PlacesDiffer'
        BY <2>3, <3>1, PlacesDifferKept DEF Builds
      <3>3. ASSUME NEW i \in DOMAIN stack', i > 1, stack[i].pkg = Top.pkg PROVE CyclicNow'
        <4>1. DOMAIN stack = 1 .. n /\ i \in Nat /\ i < n /\ i \in DOMAIN stack
          BY <1>1, <2>1, <3>3 DEF PathInv, TypeOK
        <4>2. n - 1 \in DOMAIN stack /\ i <= n - 1 /\ n > 1
          BY <2>1, <3>3, <4>1
        <4>3. Requires(stack[n - 1].pkg, stack[n].pkg)
          BY <1>1, <2>1, <4>2 DEF PathInv, Linked, Requires
        <4>4. CyclicNow
          BY <1>1, <2>1, <3>3, <4>1, <4>2, <4>3, FramesCycle
        <4> QED
          BY <1>1, <4>4, CyclicKept
      <3>4. (\A i \in DOMAIN stack' : i > 1 => stack[i].pkg # Top.pkg) => FramesNotBuilt'
        BY <2>1, <2>3 DEF Builds, FramesNotBuilt
      <3> QED
        BY <3>2, <3>3, <3>4
    <2> QED
      BY <1>1, <1>4, <2>2, <2>3, FinishPlan DEF PlanSame, Installs
  <1>5. \/ Outside /\ (UNCHANGED stack \/ \E f : OpensFor(f))
        \/ DepStep /\ (Steps \/ \E f : CallsFor(f))
        \/ Finish /\ Pops
    BY <1>1, PathKind
  <1> QED
    BY <1>2, <1>3, <1>4, <1>5

(* What is in place stays in place. *)
LEMMA InPlaceKept ==
    ASSUME PathInv, [Next]_vars, NEW x \in Position, NEW d, InPlace(x, d)
    PROVE  InPlace(x, d)'
  <1>1. world' = world /\ NoVer' = NoVer
    BY WorldKept, ReadKept
  <1>2. AssumeInstalled(d) \/ SatisfiedLocal(d) => InPlace(x, d)'
    BY <1>1, LocalKept DEF InPlace
  <1>3. IsMissing(d) => InPlace(x, d)'
    BY MissingGrows DEF InPlace, IsMissing
  <1>4. ASSUME NEW p \in InstallPkgs', Satisfies(p, d, NoVer) PROVE InPlace(x, d)'
    <2>1. SatisfiedInstall(d)' <=> \E q \in InstallPkgs' : Satisfies(q, d, NoVer')
      BY DEF SatisfiedInstall, InstallPkgs
    <2> QED
      BY <1>1, <1>4, <2>1 DEF InPlace
  <1>5. SatisfiedInstall(d) => InPlace(x, d)'
    BY <1>4, PlanMeans, PlanGrowsOnly
  <1>6. ASSUME NEW y \in Position, Before(y, x), Satisfies(PkgAt(y), d, NoVer) PROVE InPlace(x, d)'
    <2>1. y \in Position' /\ PkgAt(y)' = PkgAt(y)
      BY PathKind, OutsidePlan, DepPlan, FinishPlan
         DEF PathInv, PlanSame, PlacesKept, Builds, Placed, Installs
    <2>2. Before(y, x)' <=> Before(y, x)
      BY DEF Before
    <2> QED
      BY <1>1, <1>6, <2>1, <2>2 DEF InPlace
  <1>7. ASSUME NEW i \in DOMAIN stack, IsRepo(i), Satisfies(stack[i].pkg, d, NoVer)
        PROVE  InPlace(x, d)'
    <2>1. CASE i \in DOMAIN stack' /\ stack'[i].pkg = stack[i].pkg
      BY <1>1, <1>7, <2>1 DEF InPlace, IsRepo
    <2>2. CASE Finish /\ i \notin DOMAIN stack'
      BY <1>4, <1>7, <2>2, ReturnedPlan
    <2> QED
      BY <2>1, <2>2, FrameKept
  <1> QED
    BY <1>2, <1>3, <1>5, <1>6, <1>7 DEF InPlace

(* When a package is pushed, what it requires is in place or below it on   *)
(* the stack.                                                              *)
LEMMA PushedInPlace ==
    ASSUME PlanInv, AllDecided, [Next]_vars, Finish, Builds(Top.pkg), NEW x, x \in Position',
           \A y \in Position : Before(y, x) /\ y \in Position' /\ PkgAt(y)' = PkgAt(y),
           NEW d \in Elements(Depends(Top.pkg))
    PROVE  CyclicNow' \/ InPlace(x, d)'
  <1>1. PathInv /\ world' = world /\ NoVer' = NoVer
    BY WorldKept, ReadKept DEF PlanInv
  <1>2. PICK n : n = Len(stack) /\ n \in DOMAIN stack /\ Top = stack[n] /\ n \in Nat
    BY <1>1, FinishPlan, PoppedFrames DEF PathInv, Pops
  <1>3. Decided(d)
    <2>1. Elements(stack[n].todo) = {}
      BY <1>1, <1>2, FinishPlan DEF PathInv, Elements
    <2> QED
      BY <1>2, <2>1 DEF AllDecided, FramesDecided
  <1>4. CASE AssumeInstalled(d) \/ SatisfiedLocal(d)
    BY <1>1, <1>4, LocalKept DEF InPlace
  <1>5. CASE IsMissing(d)
    BY <1>1, <1>5, MissingGrows DEF InPlace, IsMissing
  <1>6. CASE SatisfiedInstall(d)
    <2>1. SatisfiedInstall(d)'
      BY <1>1, <1>6, FinishPlan DEF Builds, InstallPkgs, SatisfiedInstall
    <2> QED
      BY <2>1 DEF InPlace
  <1>7. CASE SatisfiedBuild(d)
    <2>1. PICK y \in Position : Satisfies(PkgAt(y), d, NoVer)
      BY <1>7, PlanMeans, PositionMeans
    <2>2. Before(y, x)' <=> Before(y, x)
      BY DEF Before
    <2> QED
      BY <1>1, <2>1, <2>2 DEF InPlace
  <1>8. ASSUME NEW i \in DOMAIN stack, i > 1 \/ IsRepo(i), Satisfies(stack[i].pkg, d, NoVer)
        PROVE  CyclicNow' \/ InPlace(x, d)'
    <2>1. CASE IsRepo(i) /\ i \in DOMAIN stack' /\ stack'[i].pkg = stack[i].pkg
      BY <1>1, <1>8, <2>1 DEF InPlace, IsRepo
    <2>2. CASE i > 1
      <3>1. i <= n /\ Requires(stack[n].pkg, stack[i].pkg)
        BY <1>1, <1>2, <1>8 DEF Requires, PathInv, TypeOK
      <3>2. CyclicNow
        BY <1>1, <1>2, <2>2, <3>1, FramesCycle
      <3> QED
        BY <1>1, <3>2, CyclicKept
    <2>3. CASE IsRepo(i) /\ i \notin DOMAIN stack'
      <3>1. stack[i].pkg = Top.pkg /\ Top.pkg.src = "repo"
        BY <1>1, <2>3, ReturnedPlan DEF IsRepo
      <3>2. stack[i].pkg \in InstallPkgs'
        BY <1>1, <2>3, ReturnedPlan
      <3>3. SatisfiedInstall(d)' <=> \E q \in InstallPkgs' : Satisfies(q, d, NoVer')
        BY DEF SatisfiedInstall, InstallPkgs
      <3> QED
        BY <1>1, <1>8, <3>2, <3>3 DEF InPlace
    <2> QED
      BY <1>1, <1>8, <2>1, <2>2, <2>3, FrameKept
  <1> QED
    BY <1>3, <1>4, <1>5, <1>6, <1>7, <1>8 DEF Decided, Accounted, OnStack

LEMMA NextInOrder ==
    ASSUME PlanInv, AllDecided, InOrder, [Next]_vars
    PROVE  CyclicNow' \/ InOrder'
  <1>1. PathInv /\ TypeOK /\ \A p : Depends(p)' = Depends(p)
    BY WorldKept, ReadKept DEF PlanInv, PathInv
  <1>2. ASSUME NEW x \in Position, PkgAt(x)' = PkgAt(x), NEW d \in Elements(Depends(PkgAt(x)))
        PROVE  InPlace(x, d)'
    BY <1>1, InPlaceKept DEF InOrder
  <1>3. CASE PlacesKept
    <2>1. ASSUME NEW x \in Position', NEW d \in Elements(Depends(PkgAt(x)')) PROVE InPlace(x, d)'
      BY <1>2, <1>3, <2>1 DEF PlacesKept
    <2> QED
      BY <1>1, <2>1 DEF InOrder
  <1>4. CASE Finish /\ Builds(Top.pkg)
    <2>1. PICK x : /\ Position' = Position \cup {x} /\ PkgAt(x)' = Top.pkg
                   /\ \A y \in Position : Before(y, x) /\ PkgAt(y)' = PkgAt(y)
      BY <1>4 DEF Builds, Placed
    <2>2. PICK p : p = Top.pkg
      OBVIOUS
    <2>3. \A d \in Elements(Depends(p)) : CyclicNow' \/ InPlace(x, d)'
      BY <1>4, <2>1, <2>2, PushedInPlace
    <2>4. ASSUME ~ CyclicNow', NEW y \in Position', NEW d \in Elements(Depends(PkgAt(y)'))
          PROVE  InPlace(y, d)'
      BY <1>2, <2>1, <2>2, <2>3, <2>4
    <2> QED
      BY <1>1, <2>4 DEF InOrder
  <1> QED
    BY <1>1, <1>3, <1>4, PathKind, OutsidePlan, DepPlan, FinishPlan DEF PlanSame, Installs

LEMMA InitOrder == Fresh => OrderInv
  <1> SUFFICES ASSUME Fresh PROVE OrderInv
    OBVIOUS
  <1>1. Position = {} /\ BuildPkgs = {} /\ DOMAIN stack = {}
    BY DEF Fresh, Position, BuildPkgs, BuildEntries
  <1> QED
    BY <1>1 DEF OrderInv, InOrder, FramesNotBuilt, PlacesDiffer

LEMMA NextOrder == DecidedInv /\ OrderInv /\ [Next]_vars => OrderInv'
  <1> SUFFICES ASSUME DecidedInv, OrderInv, [Next]_vars PROVE OrderInv'
    OBVIOUS
  <1>1. PlanInv /\ PathInv /\ (UniqueRepoNames' <=> UniqueRepoNames)
    BY WorldKept DEF DecidedInv, PlanInv, UniqueRepoNames
  <1>2. CyclicNow => CyclicNow'
    BY <1>1, CyclicKept
  <1>3. FramesNotBuilt /\ PlacesDiffer => CyclicNow' \/ (FramesNotBuilt' /\ PlacesDiffer')
    BY <1>1, NextBuiltOnce
  <1>4. UniqueRepoNames /\ InOrder => CyclicNow' \/ InOrder'
    BY <1>1, NextInOrder DEF DecidedInv
  <1> QED
    BY <1>1, <1>2, <1>3, <1>4 DEF OrderInv

(* Either the plan has a cycle, or its packages come after what they       *)
(* require and only once, and what is being resolved is not in it yet.     *)
THEOREM OrderKept == Spec => []OrderInv
  BY InitFresh, InitOrder, NextOrder, EverythingDecided, PTL DEF Spec

(* What is on the stack has been pushed when the run is done, so a cycle   *)
(* found on the way is one of the plan.                                    *)
LEMMA DoneCycle ==
    ASSUME PlanInv, phase = "done", CyclicNow
    PROVE  ~ AcyclicPlan
  <1>1. Pushed = { e.pkg : e \in Entries }
    BY PlanMeans DEF PlanInv, Running, Pushed
  <1>2. PICK S \in SUBSET Pushed : S # {} /\ \A p \in S : \E q \in S : Requires(p, q)
    BY DEF CyclicNow
  <1>3. \E T \in (SUBSET { e.pkg : e \in Entries }) \ {{}} : \A p \in T : \E q \in T : Requires(p, q)
    BY <1>1, <1>2
  <1> QED
    BY <1>3 DEF AcyclicPlan

LEMMA DoneInOrder == PlanInv /\ OrderInv => BuildOrder
  <1> SUFFICES ASSUME PlanInv, OrderInv, phase = "done", UniqueRepoNames, AcyclicPlan,
                      NEW x \in Position, NEW d \in Elements(Depends(PkgAt(x)))
               PROVE  \/ AssumeInstalled(d) \/ SatisfiedLocal(d) \/ SatisfiedInstall(d) \/ IsMissing(d)
                      \/ \E y \in Position : Before(y, x) /\ Satisfies(PkgAt(y), d, NoVer)
    BY DEF BuildOrder
  <1>1. InPlace(x, d) /\ DOMAIN stack = {}
    BY DoneCycle DEF OrderInv, InOrder, PlanInv, Running
  <1> QED
    BY <1>1 DEF InPlace

(* Built in order, after the repo packages are installed, every package    *)
(* of a plan without a cycle finds its dependencies: those that nothing    *)
(* installs are built by an earlier package of the list.                   *)
THEOREM InBuildOrder == Spec => []BuildOrder
  <1>1. DecidedInv => PlanInv
    BY DEF DecidedInv
  <1> QED
    BY <1>1, DoneInOrder, EverythingDecided, OrderKept, PTL

LEMMA DoneBuiltOnce == PlanInv /\ OrderInv => BuiltOnce
  BY DoneCycle DEF BuiltOnce, OrderInv, PlacesDiffer

(* Without a cycle no package is built twice, by whichever of its names    *)
(* and provides it was asked for.                                          *)
THEOREM OnceBuilt == Spec => []BuiltOnce
  <1>1. DecidedInv => PlanInv
    BY DEF DecidedInv
  <1> QED
    BY <1>1, DoneBuiltOnce, EverythingDecided, OrderKept, PTL

-----------------------------------------------------------------------------
(* The size of the plan. *)

(* The packages of the plan, and those being resolved for it.              *)
Core == PlanPkgs \cup { stack[i].pkg : i \in DOMAIN stack }

(* With the targets that are left out of it, after they were resolved.     *)
Work == Core \cup LeftOut

(* Every package worked on is reached from one that was asked for.         *)
ReachedInv ==
    \A S \in SUBSET Work :
        (/\ \A p \in Work : Wanted(p) => p \in S
         /\ \A p \in S : \A q \in Work : Requires(p, q) => q \in S)
        => S = Work

LEMMA WantedKept ==
    ASSUME world' = world
    PROVE  \A p : Wanted(p)' <=> Wanted(p)
  BY ReadKept DEF Wanted

LEMMA LeftOutMeans ==
    LeftOut = { p \in ToBuildPkgs : Wanted(p) /\ \E q \in BuildPkgs : q.name = p.name }
  BY DEF LeftOut, ToBuildPkgs, BuildPkgs

LEMMA LeftOutGrows ==
    ASSUME PathInv, [Next]_vars
    PROVE  LeftOut \subseteq LeftOut' /\ \A p \in LeftOut' : Wanted(p)
  <1>1. world' = world /\ cache \subseteq cache' /\ BuildPkgs \subseteq BuildPkgs'
    BY WorldKept, PlanGrowsOnly
  <1>2. ToBuildPkgs \subseteq ToBuildPkgs' /\ \A p : Wanted(p)' <=> Wanted(p)
    BY <1>1, WantedKept DEF ToBuildPkgs
  <1>3. LeftOut' = { p \in ToBuildPkgs' : Wanted(p)' /\ \E q \in BuildPkgs' : q.name = p.name }
    BY DEF LeftOut, ToBuildPkgs, BuildPkgs
  <1>4. LeftOut' = { p \in ToBuildPkgs' : Wanted(p) /\ \E q \in BuildPkgs' : q.name = p.name }
    BY <1>2, <1>3
  <1> QED
    BY <1>1, <1>2, <1>4, LeftOutMeans

(* What is returned from is in the plan, or a target that is left out of   *)
(* it.                                                                     *)
LEMMA FinishedWork ==
    ASSUME PlanInv, Finish
    PROVE  Top.pkg \in PlanPkgs' \cup LeftOut'
  <1>1. PathInv /\ TypeOK /\ world \in World /\ cache \in SUBSET PackageOf("aur") /\ [Next]_vars
    BY DEF PlanInv, PathInv, TypeOK, Next, Recurse, Finish
  <1>2. CASE Builds(Top.pkg) \/ Installs(Top.pkg)
    BY <1>2 DEF Builds, Installs, PlanPkgs
  <1>3. ASSUME Len(stack) = 1, Top.pkg.src \in ToBuild, PlanSame,
               NEW q \in BuildPkgs, q.name = Top.pkg.name
        PROVE  Top.pkg \in LeftOut'
    <2>1. PICK p : p = Top.pkg
      OBVIOUS
    <2>2. 1 \in DOMAIN stack /\ p = stack[1].pkg /\ stack # << >>
      BY <1>1, <1>3, <2>1, FinishPlan, PoppedFrames DEF Pops
    <2>3. p \in ToBuildPkgs
      BY <1>1, <1>3, <2>1, <2>2, KnownSource DEF PathInv, FramesKnown, ToBuild
    <2>4. Wanted(p)
      BY <1>1, <2>2 DEF PathInv, Rooted, Wanted
    <2>5. p \in LeftOut
      BY <1>3, <2>1, <2>3, <2>4, LeftOutMeans
    <2> QED
      BY <1>1, <2>1, <2>5, LeftOutGrows
  <1> QED
    BY <1>1, <1>2, <1>3, FinishPlan

(* What a step adds to the work is asked for, or required by what is       *)
(* already worked on.                                                      *)
LEMMA WorkKind ==
    ASSUME PlanInv, [Next]_vars
    PROVE  /\ Core \subseteq Work'
           /\ \A p \in Core' : p \in Core \/ Wanted(p) \/ \E q \in Core : Requires(q, p)
  <1>1. PathInv /\ TypeOK
    BY DEF PlanInv, PathInv
  <1>2. (PlanSame => PlanPkgs' = PlanPkgs) /\ Core' \subseteq Work'
    BY DEF PlanSame, PlanPkgs, Work
  <1>3. CASE Outside /\ UNCHANGED stack
    BY <1>1, <1>2, <1>3, OutsidePlan DEF Core
  <1>4. ASSUME Outside, NEW f, OpensFor(f)
        PROVE  Core' = Core \cup {f.pkg} /\ Wanted(f.pkg)
    <2>1. DOMAIN stack = {} /\ DOMAIN stack' = {1} /\ stack'[1] = f
      BY <1>4 DEF OpensFor
    <2> QED
      BY <1>1, <1>2, <1>4, <2>1, OutsidePlan DEF Core, Wanted, OpensFor
  <1>5. CASE DepStep /\ Steps
    BY <1>1, <1>2, <1>5, DepPlan, SteppedFrames DEF Core
  <1>6. ASSUME DepStep, NEW f, CallsFor(f)
        PROVE  Core' = Core \cup {f.pkg} /\ \E q \in Core : Requires(q, f.pkg)
    <2>1. PICK n : /\ DOMAIN stack' = DOMAIN stack \cup {n} /\ stack'[n] = f
                   /\ \A i \in DOMAIN stack : stack'[i].pkg = stack[i].pkg
                   /\ n \notin DOMAIN stack
                   /\ stack[n - 1] = Top /\ n - 1 \in DOMAIN stack
      BY <1>1, <1>6, CalledFrames
    <2>2. Core' = Core \cup {f.pkg}
      BY <1>2, <1>6, <2>1, DepPlan DEF Core
    <2>3. Current \in Elements(Depends(Top.pkg)) /\ Satisfies(f.pkg, Current, NoVer)
      BY <1>1, <1>6, AdvancedChain DEF CallsFor
    <2> QED
      BY <2>1, <2>2, <2>3 DEF Core, Requires
  <1>7. ASSUME Finish, Pops
        PROVE  Core' \subseteq Core /\ Core \subseteq Work'
    <2>1. PICK n : /\ n \in DOMAIN stack /\ Top = stack[n] /\ DOMAIN stack' = DOMAIN stack \ {n}
                   /\ \A i \in DOMAIN stack' : stack'[i] = stack[i]
      BY <1>1, <1>7, PoppedFrames
    <2>2. PlanPkgs' \subseteq PlanPkgs \cup {Top.pkg} /\ PlanPkgs \subseteq PlanPkgs'
      BY <1>1, <1>7, FinishPlan, PlanGrowsOnly DEF Builds, Installs, PlanSame, PlanPkgs
    <2>3. Top.pkg \in PlanPkgs' \cup LeftOut'
      BY <1>7, FinishedWork
    <2> QED
      BY <2>1, <2>2, <2>3 DEF Core, Work
  <1> QED
    BY <1>1, <1>2, <1>3, <1>4, <1>5, <1>6, <1>7, PathKind

LEMMA NextReached == PlanInv /\ ReachedInv /\ [Next]_vars => ReachedInv'
  <1> SUFFICES ASSUME PlanInv, ReachedInv, [Next]_vars PROVE ReachedInv'
    OBVIOUS
  <1>1. /\ \A p : Wanted(p)' <=> Wanted(p)
        /\ \A p, q : Requires(p, q)' <=> Requires(p, q)
    BY WorldKept, WantedKept, RequiresKept
  <1>2. /\ Work \subseteq Work'
        /\ \A p \in Work' : p \in Work \/ Wanted(p) \/ \E q \in Work : Requires(q, p)
    BY WorkKind, LeftOutGrows DEF Work, PlanInv
  <1>3. SUFFICES ASSUME NEW S \in SUBSET Work',
                        \A p \in Work' : Wanted(p) => p \in S,
                        \A p \in S : \A q \in Work' : Requires(p, q) => q \in S
                 PROVE  S = Work'
    BY <1>1 DEF ReachedInv
  <1>4. Work \subseteq S
    <2>1. PICK T \in SUBSET Work : T = S \cap Work
      OBVIOUS
    <2>2. \A p \in Work : Wanted(p) => p \in T
      BY <1>2, <1>3, <2>1
    <2>3. \A p \in T : \A q \in Work : Requires(p, q) => q \in T
      BY <1>2, <1>3, <2>1
    <2>4. T = Work
      BY <2>2, <2>3 DEF ReachedInv
    <2> QED
      BY <2>1, <2>4
  <1> QED
    BY <1>2, <1>3, <1>4

LEMMA InitReached == Fresh => ReachedInv
  <1> SUFFICES ASSUME Fresh PROVE ReachedInv
    OBVIOUS
  <1>1. PlanPkgs = {} /\ DOMAIN stack = {} /\ LeftOut = {}
    BY LeftOutMeans DEF Fresh, PlanPkgs, BuildPkgs, InstallPkgs, BuildEntries, Elements
  <1> QED
    BY <1>1 DEF ReachedInv, Work, Core

(* Whatever the plan holds or is worked on for it is reached from what was *)
(* asked for.                                                              *)
THEOREM WorkReached == Spec => []ReachedInv
  <1>1. AnswerInv => PlanInv
    BY DEF AnswerInv
  <1> QED
    BY <1>1, InitFresh, InitReached, NextReached, AnswersKept, PTL DEF Spec

LEMMA DoneNeeded == PlanInv /\ ReachedInv => EveryPackageNeeded
  <1> SUFFICES ASSUME PlanInv, ReachedInv, phase = "done"
               PROVE  LET pkgs  == { e.pkg : e \in Entries }
                          roots == { p \in pkgs : Wanted(p) }
                      IN  \A S \in SUBSET pkgs :
                              (/\ roots \subseteq S
                               /\ \A p \in S \cup LeftOut :
                                      \A q \in pkgs : Requires(p, q) => q \in S)
                              => S = pkgs
    BY DEF EveryPackageNeeded
  <1>1. DOMAIN stack = {}
    BY DEF PlanInv, Running
  <1>2. Work = PlanPkgs \cup LeftOut /\ PlanPkgs = { e.pkg : e \in Entries }
    BY <1>1, PlanMeans DEF Work, Core
  <1>3. ASSUME NEW S \in SUBSET PlanPkgs,
               \A p \in PlanPkgs : Wanted(p) => p \in S,
               \A p \in S \cup LeftOut : \A q \in PlanPkgs : Requires(p, q) => q \in S
        PROVE  S = PlanPkgs
    <2>1. PICK T \in SUBSET Work : T = S \cup LeftOut
      BY <1>2
    <2>2. \A p \in Work : Wanted(p) => p \in T
      BY <1>2, <1>3, <2>1
    <2>3. \A p \in T : \A q \in Work : Requires(p, q) => q \in T
      BY <1>2, <1>3, <2>1
    <2>4. T = Work
      BY <2>2, <2>3 DEF ReachedInv
    <2>5. \A p \in LeftOut : Wanted(p)
      BY LeftOutMeans
    <2> QED
      BY <1>2, <1>3, <2>1, <2>4, <2>5
  <1> QED
    BY <1>2, <1>3

(* Every package of the finished plan was asked for, or is reached from    *)
(* one that was, in the plan or left out of it, over the dependencies of   *)
(* the plan's packages.                                                    *)
THEOREM AllNeeded == Spec => []EveryPackageNeeded
  <1>1. AnswerInv => PlanInv
    BY DEF AnswerInv
  <1> QED
    BY <1>1, DoneNeeded, AnswersKept, WorkReached, PTL

-----------------------------------------------------------------------------
(* All of it at once, for what implements the steps of a resolution.       *)

ResolutionInv ==
    OnceInv /\ FlagInv /\ UnmetInv /\ DecidedInv /\ AnswerInv /\ OrderInv /\ ReachedInv

LEMMA InitResolution == Fresh => ResolutionInv
  BY InitOnce, InitFlag, InitUnmet, InitDecided, InitAnswer, InitOrder, InitReached
     DEF ResolutionInv

LEMMA NextResolution == ResolutionInv /\ [Next]_vars => ResolutionInv'
  BY NextOnce, NextFlag, NextUnmet, NextDecided, NextAnswer, NextOrder, NextReached
     DEF ResolutionInv, AnswerInv

LEMMA ResolutionPromises ==
    ResolutionInv => /\ TypeOK /\ NoReentry /\ InstallOnce /\ BuildFlagOnce
                     /\ MissingPath /\ MissingIsUnmet /\ NothingDropped /\ RequestsAnswered
                     /\ BuildOrder /\ BuiltOnce /\ EveryPackageNeeded
  <1>1. DecidedInv => PlanInv
    BY DEF DecidedInv
  <1>2. PlanInv => MissingPath /\ TypeOK
    BY DEF PlanInv, PathInv
  <1>3. (OnceInv => InstallOnce) /\ (FlagInv => BuildFlagOnce)
    BY DEF OnceInv, FlagInv
  <1> QED
    BY <1>1, <1>2, <1>3, OnceReentry, DoneUnmet, DoneDecided, DoneAnswered, DoneInOrder,
       DoneBuiltOnce, DoneNeeded DEF ResolutionInv
=============================================================================
