----------------------------- MODULE PlanProofs ----------------------------
(***************************************************************************)
(* What a finished plan holds, for every set of worlds: it leaves no       *)
(* dependency undecided, what it reports missing is missing, and every     *)
(* request is answered.                                                    *)
(***************************************************************************)
EXTENDS PathProofs

-----------------------------------------------------------------------------
(* The packages of the plan and their places. *)

BuildPkgs   == { e.pkg : e \in BuildEntries }
InstallPkgs == { e.pkg : e \in Elements(install) }
PlanPkgs    == BuildPkgs \cup InstallPkgs
ToBuildPkgs == Elements(world.pkgbuilds) \cup cache

LEMMA PlanMeans ==
    /\ \A d : SatisfiedBuild(d) <=> \E p \in BuildPkgs : Satisfies(p, d, NoVer)
    /\ \A d : SatisfiedInstall(d) <=> \E p \in InstallPkgs : Satisfies(p, d, NoVer)
    /\ PlanPkgs = { e.pkg : e \in Entries }
  BY DEF SatisfiedBuild, SatisfiedInstall, BuildPkgs, InstallPkgs, PlanPkgs, Entries

LEMMA PositionMeans ==
    /\ \A x : x \in Position <=> \E i \in DOMAIN build : \E j \in DOMAIN build[i].pkgs : x = <<i, j>>
    /\ \A i, j : PkgAt(<<i, j>>) = build[i].pkgs[j].pkg
    /\ BuildPkgs = { PkgAt(x) : x \in Position }
  <1>1. \A x : x \in Position <=> \E i \in DOMAIN build : \E j \in DOMAIN build[i].pkgs : x = <<i, j>>
    BY DEF Position
  <1>2. \A i, j : PkgAt(<<i, j>>) = build[i].pkgs[j].pkg
    BY DEF PkgAt
  <1>3. \A p : p \in BuildPkgs <=>
            \E i \in DOMAIN build : \E j \in DOMAIN build[i].pkgs : p = build[i].pkgs[j].pkg
    BY DEF BuildPkgs, BuildEntries, Elements
  <1>4. \A p : p \in BuildPkgs <=> \E x \in Position : p = PkgAt(x)
    <2>1. ASSUME NEW p, p \in BuildPkgs PROVE \E x \in Position : p = PkgAt(x)
      <3>1. PICK i, j : i \in DOMAIN build /\ j \in DOMAIN build[i].pkgs /\ p = build[i].pkgs[j].pkg
        BY <1>3, <2>1
      <3>2. <<i, j>> \in Position /\ PkgAt(<<i, j>>) = p
        BY <1>1, <1>2, <3>1
      <3> QED
        BY <3>2
    <2>2. ASSUME NEW x \in Position PROVE PkgAt(x) \in BuildPkgs
      <3>1. PICK i, j : i \in DOMAIN build /\ j \in DOMAIN build[i].pkgs /\ x = <<i, j>>
        BY <1>1
      <3>2. PkgAt(x) = build[i].pkgs[j].pkg
        BY <1>2, <3>1
      <3> QED
        BY <1>3, <3>1, <3>2
    <2> QED
      BY <2>1, <2>2
  <1>5. BuildPkgs = { PkgAt(x) : x \in Position }
    BY <1>4
  <1> QED
    BY <1>1, <1>2, <1>5

(* What a step does to the plan, by place. *)
PlacesKept == Position' = Position /\ \A x \in Position : PkgAt(x)' = PkgAt(x)

Placed(p) ==
    \E x : /\ x \notin Position /\ Position' = Position \cup {x} /\ PkgAt(x)' = p
           /\ \A y \in Position : Before(y, x) /\ PkgAt(y)' = PkgAt(y)

LEMMA PushPlaces ==
    ASSUME build \in Seq(Base), NEW e \in Entry, build' = PushBuild(e)
    PROVE  Placed(e.pkg)
  <1> DEFINE last == build[Len(build)]
             new  == [ src |-> e.pkg.src, repo |-> e.pkg.repo, base |-> e.pkg.base, pkgs |-> <<e>>,
                       build |-> \A b \in Elements(build) :
                                     ~ (b.src = e.pkg.src /\ b.base = e.pkg.base) ]
  <1>1. Len(build) \in Nat /\ DOMAIN build = 1 .. Len(build)
    OBVIOUS
  <1>2. ASSUME NEW i \in DOMAIN build PROVE build[i] \in Base /\ build[i].pkgs \in Seq(Entry)
    <2>1. build[i] \in Base
      BY <1>1
    <2> QED
      BY <2>1 DEF Base
  <1>3. CASE build # << >> /\ last.src = e.pkg.src /\ last.base = e.pkg.base
    <2> DEFINE b == [last EXCEPT !.pkgs = Append(@, e)]
    <2>1. build' = [build EXCEPT ![Len(build)] = b] /\ Len(build) \in DOMAIN build
      BY <1>1, <1>3 DEF PushBuild
    <2>2. last.pkgs \in Seq(Entry)
      BY <1>2, <2>1
    <2>3. b.pkgs = Append(last.pkgs, e)
      BY <1>2, <2>1 DEF Base
    <2> HIDE DEF b, last
    <2>4. PICK n : n = Len(build)
      OBVIOUS
    <2>5. PICK m : m = Len(last.pkgs) + 1
      OBVIOUS
    <2>6. /\ m \in Nat \ {0} /\ DOMAIN last.pkgs = 1 .. (m - 1) /\ DOMAIN b.pkgs = 1 .. m
          /\ b.pkgs[m] = e /\ \A j \in DOMAIN last.pkgs : b.pkgs[j] = last.pkgs[j]
      BY <2>2, <2>3, <2>5
    <2>7. /\ DOMAIN build' = DOMAIN build /\ build'[n] = b /\ n \in DOMAIN build /\ n \in Nat
          /\ \A i \in DOMAIN build : i # n => build'[i] = build[i]
          /\ \A i \in DOMAIN build : i \in Nat /\ i <= n
          /\ build[n] = last
      BY <1>1, <2>1, <2>4 DEF last
    <2>8. <<n, m>> \notin Position
      BY <2>6, <2>7, PositionMeans
    <2>9. Position' = Position \cup {<<n, m>>}
      <3>1. \A x : x \in Position' <=>
                \E i \in DOMAIN build' : \E j \in DOMAIN build'[i].pkgs : x = <<i, j>>
        BY DEF Position
      <3>2. DOMAIN b.pkgs = DOMAIN last.pkgs \cup {m}
        BY <2>6
      <3>3. \A i \in DOMAIN build : \A j :
                j \in DOMAIN build'[i].pkgs <=> j \in DOMAIN build[i].pkgs \/ (i = n /\ j = m)
        BY <2>7, <3>2
      <3>4. \A x : x \in Position' <=> x \in Position \/ x = <<n, m>>
        BY <2>7, <3>1, <3>3, PositionMeans
      <3> QED
        BY <3>4
    <2>10. PkgAt(<<n, m>>)' = e.pkg
      BY <2>6, <2>7 DEF PkgAt
    <2>11. ASSUME NEW y \in Position
           PROVE  Before(y, <<n, m>>) /\ PkgAt(y)' = PkgAt(y)
      <3>1. PICK i, j : i \in DOMAIN build /\ j \in DOMAIN build[i].pkgs /\ y = <<i, j>>
        BY PositionMeans
      <3>2. build'[i].pkgs[j] = build[i].pkgs[j]
        BY <2>6, <2>7, <3>1
      <3>3. i < n \/ (i = n /\ j < m)
        BY <2>6, <2>7, <3>1
      <3> QED
        BY <3>1, <3>2, <3>3 DEF PkgAt, Before
    <2> QED
      BY <2>8, <2>9, <2>10, <2>11 DEF Placed
  <1>4. CASE ~ (build # << >> /\ last.src = e.pkg.src /\ last.base = e.pkg.base)
    <2>1. build' = Append(build, new) /\ new.pkgs = <<e>>
      BY <1>4 DEF PushBuild
    <2> HIDE DEF new, last
    <2>2. PICK n : n = Len(build) + 1
      OBVIOUS
    <2>3. /\ n \in Nat /\ n \notin DOMAIN build /\ DOMAIN build' = DOMAIN build \cup {n}
          /\ build'[n] = new /\ \A i \in DOMAIN build : build'[i] = build[i] /\ i < n
          /\ DOMAIN new.pkgs = {1} /\ new.pkgs[1] = e
      BY <1>1, <2>1, <2>2
    <2>4. <<n, 1>> \notin Position
      BY <2>3, PositionMeans
    <2>5. Position' = Position \cup {<<n, 1>>}
      <3>1. \A x : x \in Position' <=>
                \E i \in DOMAIN build' : \E j \in DOMAIN build'[i].pkgs : x = <<i, j>>
        BY DEF Position
      <3>2. \A x : x \in Position' <=> x \in Position \/ x = <<n, 1>>
        BY <2>3, <3>1, PositionMeans
      <3> QED
        BY <3>2
    <2>6. PkgAt(<<n, 1>>)' = e.pkg
      BY <2>3 DEF PkgAt
    <2>7. ASSUME NEW y \in Position
          PROVE  Before(y, <<n, 1>>) /\ PkgAt(y)' = PkgAt(y)
      <3>1. PICK i, j : i \in DOMAIN build /\ j \in DOMAIN build[i].pkgs /\ y = <<i, j>>
        BY PositionMeans
      <3> QED
        BY <2>3, <3>1 DEF PkgAt, Before
    <2> QED
      BY <2>4, <2>5, <2>6, <2>7 DEF Placed
  <1> QED
    BY <1>3, <1>4

(* What a step does to the plan as a whole. *)
PlanSame == PlacesKept /\ BuildPkgs' = BuildPkgs /\ InstallPkgs' = InstallPkgs

Builds(p)   == Placed(p) /\ BuildPkgs' = BuildPkgs \cup {p} /\ InstallPkgs' = InstallPkgs

Installs(p) == PlacesKept /\ BuildPkgs' = BuildPkgs /\ InstallPkgs' = InstallPkgs \cup {p}

LEMMA PlacesMean ==
    /\ PlacesKept => BuildPkgs' = BuildPkgs
    /\ \A p : Placed(p) => BuildPkgs' = BuildPkgs \cup {p}
  <1>1. \A p : p \in BuildPkgs' <=> \E x \in Position' : p = PkgAt(x)'
    <2>1. (BuildPkgs = { PkgAt(x) : x \in Position })'
      BY PositionMeans, PTL
    <2> QED
      BY <2>1
  <1>2. \A p : p \in BuildPkgs <=> \E x \in Position : p = PkgAt(x)
    BY PositionMeans
  <1>3. ASSUME PlacesKept PROVE BuildPkgs' = BuildPkgs
    BY <1>1, <1>2, <1>3 DEF PlacesKept
  <1>4. ASSUME NEW p, Placed(p) PROVE BuildPkgs' = BuildPkgs \cup {p}
    BY <1>1, <1>2, <1>4 DEF Placed
  <1> QED
    BY <1>3, <1>4

LEMMA UnchangedPlan ==
    ASSUME UNCHANGED <<build, install>>
    PROVE  PlanSame
  BY DEF PlanSame, PlacesKept, Position, PkgAt, BuildPkgs, BuildEntries, InstallPkgs

LEMMA RemarkedPlan ==
    ASSUME TypeOK, CalculateMake
    PROVE  PlanSame
  <1>1. /\ DOMAIN install' = DOMAIN install
        /\ \A i \in DOMAIN install : install'[i].pkg = install[i].pkg
    <2>1. install' = Remark(install)
      BY DEF CalculateMake
    <2> QED
      BY <2>1, RemarkType, PackageOfType DEF TypeOK
  <1>2. InstallPkgs' = InstallPkgs
    BY <1>1 DEF InstallPkgs, Elements
  <1>3. build' = [i \in DOMAIN build |-> [build[i] EXCEPT !.pkgs = Remark(@)]]
    BY DEF CalculateMake
  <1>4. ASSUME NEW i \in DOMAIN build
        PROVE  /\ DOMAIN build'[i].pkgs = DOMAIN build[i].pkgs
               /\ \A j \in DOMAIN build[i].pkgs : build'[i].pkgs[j].pkg = build[i].pkgs[j].pkg
    <2>1. build[i] \in Base
      BY DEF TypeOK
    <2>2. build'[i].pkgs = Remark(build[i].pkgs) /\ build[i].pkgs \in Seq(Entry)
      BY <1>3, <2>1 DEF Base
    <2> QED
      BY <2>2, RemarkType DEF Entry
  <1>5. DOMAIN build' = DOMAIN build
    BY <1>3
  <1> HIDE <1>3
  <1>6. \A x : x \in Position' <=> x \in Position
    <2>1. \A x : x \in Position' <=>
              \E i \in DOMAIN build' : \E j \in DOMAIN build'[i].pkgs : x = <<i, j>>
      BY DEF Position
    <2> QED
      BY <1>4, <1>5, <2>1, PositionMeans
  <1>7. ASSUME NEW x \in Position PROVE PkgAt(x)' = PkgAt(x)
    <2>1. PICK i, j : i \in DOMAIN build /\ j \in DOMAIN build[i].pkgs /\ x = <<i, j>>
      BY PositionMeans
    <2> QED
      BY <1>4, <2>1 DEF PkgAt
  <1> QED
    BY <1>2, <1>6, <1>7, PlacesMean DEF PlanSame, PlacesKept

LEMMA OutsidePlan ==
    ASSUME TypeOK, Outside
    PROVE  PlanSame /\ UNCHANGED resolved /\ (~ CalculateMake => UNCHANGED build)
  <1>1. CASE CalculateMake
    BY <1>1, RemarkedPlan DEF CalculateMake, Enter, marks
  <1>2. CASE ~ CalculateMake
    <2>1. UNCHANGED <<build, install, resolved>>
      BY <1>2 DEF Outside, Split, Target, SplitAssumed, SplitRepo, SplitGroup, SplitPkgbuild,
                  SplitAur, SplitMissing, SplitDone, FillCache, FailCache, KeepMake,
                  RepoTargetsDone, PkgbuildTargetsDone, AurTargetsDone, Splitting, Enter, vars,
                  RepoTargetSkipped, RepoTargetUnneeded, RepoTarget, PkgbuildTargetSkipped,
                  PkgbuildTargetUnneeded, PkgbuildTarget, AurTargetSkipped, AurTargetMissing,
                  AurTargetUnneeded, AurTarget, Targeting, TargetingAur, marks
    <2> QED
      BY <2>1, UnchangedPlan
  <1> QED
    BY <1>1, <1>2

LEMMA DepPlan ==
    ASSUME DepStep
    PROVE  /\ PlanSame /\ resolved' \in {resolved, resolved \cup {Current}}
           /\ UNCHANGED <<inputs, control, unneeded, build>>
  <1>1. /\ UNCHANGED <<build, install, inputs, control, unneeded>>
        /\ resolved' \in {resolved, resolved \cup {Current}}
    BY DEF DepStep, BuildDepDone, BuildDepInstalled, BuildDepFromRepo, BuildDepFromPkgbuild,
           BuildDepFromAur, BuildDepMissing, RepoDepSatisfied, RepoDepFromRepo, RepoDepMissing,
           Resolving
  <1> QED
    BY <1>1, UnchangedPlan

(* A package that is left out, as a target, has its name in the plan. *)
LEMMA FinishPlan ==
    ASSUME TypeOK, Finish
    PROVE  /\ stack # << >> /\ Top.todo = << >> /\ stack' = Popped
           /\ UNCHANGED <<inputs, control, marks, missing, unneeded>>
           /\ \/ /\ Top.pkg.src \in ToBuild /\ Builds(Top.pkg)
                 /\ Len(stack) = 1 => \A p \in BuildPkgs : p.name # Top.pkg.name
              \/ Top.pkg.src = "repo" /\ Installs(Top.pkg)
              \/ /\ Top.pkg.src \in ToBuild /\ PlanSame /\ Len(stack) = 1
                 /\ \E p \in BuildPkgs : p.name = Top.pkg.name
  <1> DEFINE e == [pkg |-> Top.pkg, make |-> Top.make, target |-> Top.target]
  <1>1. /\ stack # << >> /\ Top.todo = << >> /\ stack' = Popped
        /\ UNCHANGED <<inputs, control, marks, missing, unneeded>>
    BY DEF Finish, FinishBuild, FinishRepo
  <1>2. CASE FinishBuild
    <2>1. e \in Entry /\ Top.pkg.src \in ToBuild /\ e.pkg = Top.pkg /\ UNCHANGED install
      BY <1>2, EntryType DEF FinishBuild, TypeOK
    <2>2. \/ /\ build' = PushBuild(e)
             /\ Len(stack) = 1 => \A p \in BuildPkgs : p.name # Top.pkg.name
          \/ /\ build' = build /\ Len(stack) = 1
             /\ \E p \in BuildPkgs : p.name = Top.pkg.name
      BY <1>2 DEF FinishBuild, BuildPkgs
    <2> HIDE DEF e
    <2>3. InstallPkgs' = InstallPkgs
      BY <2>1 DEF InstallPkgs
    <2>4. build' = PushBuild(e) => Builds(Top.pkg)
      BY <2>1, <2>3, PushPlaces, PlacesMean DEF TypeOK, Builds
    <2>5. build' = build => PlanSame
      BY <2>1, UnchangedPlan
    <2> QED
      BY <1>1, <2>1, <2>2, <2>4, <2>5
  <1>3. CASE FinishRepo
    <2> DEFINE T == [pkg : PackageOf("repo"), make : BOOLEAN, target : BOOLEAN]
    <2>1. install' = Append(install, e) /\ install \in Seq(T) /\ UNCHANGED build
          /\ e.pkg = Top.pkg /\ Top.pkg.src = "repo"
      BY <1>3 DEF FinishRepo, TypeOK
    <2> HIDE DEF e, T
    <2>2. Elements(install') = Elements(install) \cup {e}
      <3>1. PICK n : n = Len(install) + 1
        OBVIOUS
      <3>2. /\ DOMAIN install' = DOMAIN install \cup {n} /\ install'[n] = e
            /\ \A i \in DOMAIN install : install'[i] = install[i]
        BY <2>1, <3>1
      <3> QED
        BY <3>2 DEF Elements
    <2>3. InstallPkgs' = InstallPkgs \cup {Top.pkg}
      BY <2>1, <2>2 DEF InstallPkgs
    <2>4. PlacesKept
      BY <2>1 DEF PlacesKept, Position, PkgAt
    <2> QED
      BY <1>1, <2>1, <2>3, <2>4, PlacesMean DEF Installs
  <1> QED
    BY <1>2, <1>3 DEF Finish

-----------------------------------------------------------------------------
(* The ground to stand on: where the packages of the stack and of the plan *)
(* come from, and that a repo package is entered for every name in `seen`. *)

Running ==
    /\ stack # << >> => phase \in {"repo", "pkgbuild", "aur"}
    /\ phase \in {"split", "cache"} => \A m \in Elements(missing) : m.stack = << >>

CacheKnown == cache \subseteq Elements(world.aur)

PlanKnown == BuildPkgs \subseteq ToBuildPkgs /\ InstallPkgs \subseteq Elements(world.repos)

(* resolve_repo_pkg was entered for n. *)
Entered(n) == \/ \E p \in InstallPkgs : p.name = n
              \/ \E i \in DOMAIN stack : IsRepo(i) /\ stack[i].pkg.name = n

SeenDecided == \A n \in seen : Entered(n)

PlanInv == PathInv /\ Running /\ CacheKnown /\ PlanKnown /\ SeenDecided

LEMMA KnownSource ==
    ASSUME world \in World, cache \in SUBSET PackageOf("aur"), NEW p \in Known
    PROVE  /\ p.src = "repo" => p \in Elements(world.repos)
           /\ p.src # "repo" => p \in ToBuildPkgs /\ p.src \in ToBuild
  <1>1. /\ Elements(world.repos) \subseteq PackageOf("repo")
        /\ Elements(world.pkgbuilds) \subseteq PackageOf("pkgbuild")
    BY WorldTypes, ElementsType
  <1> QED
    BY <1>1, PackageOfType DEF Known, ToBuildPkgs, ToBuild

LEMMA SteppedFrames ==
    ASSUME PathInv, Steps
    PROVE  /\ DOMAIN stack' = DOMAIN stack /\ stack' # << >> /\ DOMAIN stack \subseteq Nat
           /\ \A i \in DOMAIN stack :
                  /\ stack'[i].pkg = stack[i].pkg /\ stack'[i].dep = stack[i].dep
                  /\ Elements(stack[i].todo) \subseteq Elements(stack'[i].todo) \cup {Current}
  <1>1. stack' = Advanced
    BY DEF Steps
  <1>2. /\ DOMAIN Advanced = DOMAIN stack /\ DOMAIN stack = 1 .. Len(stack)
        /\ Len(stack) \in Nat \ {0}
        /\ \A i \in DOMAIN stack :
               /\ Advanced[i].pkg = stack[i].pkg /\ Advanced[i].dep = stack[i].dep
               /\ Elements(stack[i].todo) \subseteq Elements(Advanced[i].todo) \cup {Current}
    BY AdvancedChain DEF Steps
  <1>3. DOMAIN stack \subseteq Nat /\ DOMAIN stack # {}
    BY <1>2
  <1>4. Advanced # << >>
    BY <1>2, <1>3
  <1> QED
    BY <1>1, <1>2, <1>3, <1>4

(* What is on the stack stays there, except for what is returned from. *)
LEMMA FramesStay ==
    ASSUME PathInv, [Next]_vars, ~ Finish
    PROVE  \A i \in DOMAIN stack : i \in DOMAIN stack' /\ stack'[i].pkg = stack[i].pkg
  <1>1. CASE UNCHANGED stack \/ \E f : OpensFor(f)
    BY <1>1 DEF OpensFor
  <1>2. CASE Steps
    BY <1>2, SteppedFrames
  <1>3. ASSUME NEW f, CallsFor(f)
        PROVE  \A i \in DOMAIN stack : i \in DOMAIN stack' /\ stack'[i].pkg = stack[i].pkg
    BY <1>3, CalledFrames
  <1> QED
    BY <1>1, <1>2, <1>3, PathKind

LEMMA InitPlan == Fresh => PlanInv
  <1> SUFFICES ASSUME Fresh PROVE PlanInv
    OBVIOUS
  <1>1. CacheKnown
    BY DEF Fresh, CacheKnown
  <1>2. BuildPkgs = {} /\ InstallPkgs = {}
    BY DEF Fresh, BuildPkgs, BuildEntries, InstallPkgs, Elements
  <1> QED
    BY <1>1, <1>2, InitPath DEF Fresh, PlanInv, Running, PlanKnown, SeenDecided, Elements

LEMMA CacheKind ==
    ASSUME [Next]_vars
    PROVE  UNCHANGED cache \/ (phase = "cache" /\ \E S \in SUBSET Elements(world.aur) : cache' = cache \cup S)
  <1>1. CASE FillCache \/ FailCache
    BY <1>1 DEF FillCache, FailCache, Enter
  <1>2. CASE ~ FillCache /\ ~ FailCache
    BY <1>2 DEF Next, Split, Target, Recurse, SplitAssumed, SplitRepo, SplitGroup, SplitPkgbuild, SplitAur,
         SplitMissing, SplitDone, KeepMake, CalculateMake, Returned,
         RepoTargetsDone, PkgbuildTargetsDone, AurTargetsDone, Splitting, Enter, vars,
         RepoTargetSkipped, RepoTargetUnneeded, RepoTarget, PkgbuildTargetSkipped,
         PkgbuildTargetUnneeded, PkgbuildTarget, AurTargetSkipped, AurTargetMissing,
         AurTargetUnneeded, AurTarget, Targeting, TargetingAur, BuildDepDone, BuildDepInstalled,
         BuildDepFromRepo, BuildDepFromPkgbuild, BuildDepFromAur, BuildDepMissing, FinishBuild,
         RepoDepSatisfied, RepoDepFromRepo, RepoDepMissing, FinishRepo, Resolving, inputs
  <1> QED
    BY <1>1, <1>2

LEMMA NextRunning ==
    ASSUME PathInv, Running, [Next]_vars
    PROVE  Running'
  <1>1. CASE Outside
    <2>1. \/ UNCHANGED vars
          \/ /\ stack = << >> /\ (stack' = << >> \/ phase' \in {"repo", "pkgbuild", "aur"})
             /\ phase' \in {"split", "cache"} => phase \in {"split", "cache"}
      BY <1>1 DEF Running, Outside, Split, Target, SplitAssumed, SplitRepo, SplitGroup,
           SplitPkgbuild, SplitAur, SplitMissing, SplitDone, FillCache, FailCache, KeepMake,
           CalculateMake, RepoTargetsDone, PkgbuildTargetsDone, AurTargetsDone, Splitting, Enter,
           RepoTargetSkipped, RepoTargetUnneeded, RepoTarget, PkgbuildTargetSkipped,
           PkgbuildTargetUnneeded, PkgbuildTarget, AurTargetSkipped, AurTargetMissing,
           AurTargetUnneeded, AurTarget, Targeting, TargetingAur
    <2>2. CASE UNCHANGED vars
      BY <2>2 DEF Running, vars, control
    <2>3. CASE ~ UNCHANGED vars
      <3>1. ASSUME phase' \in {"split", "cache"}, NEW m \in Elements(missing') PROVE m.stack = << >>
        <4>1. UNCHANGED missing \/ ReportsRequest
          BY <2>1, <2>3, ReportKind DEF ReportsDep
        <4>2. missing \in Seq(Missing) /\ \A x \in Elements(missing) : x.stack = << >>
          BY <2>1, <2>3, <3>1 DEF Running, PathInv, TypeOK
        <4>3. CASE ReportsRequest
          <5>1. PICK r \in Missing : r.stack = << >> /\ missing' = Append(missing, r)
            BY <4>3 DEF ReportsRequest
          <5>2. Elements(missing') \subseteq Elements(missing) \cup {r}
            BY <4>2, <5>1 DEF Elements
          <5> QED
            BY <3>1, <4>2, <5>1, <5>2
        <4> QED
          BY <3>1, <4>1, <4>2, <4>3
      <3> QED
        BY <2>1, <2>3, <3>1 DEF Running
    <2> QED
      BY <2>2, <2>3
  <1>2. CASE DepStep \/ Finish
    <2>1. stack # << >> /\ UNCHANGED phase
      BY <1>2, DepPlan, FinishPlan DEF control, DepStep, BuildDepDone, BuildDepInstalled,
         BuildDepFromRepo, BuildDepFromPkgbuild, BuildDepFromAur, BuildDepMissing,
         RepoDepSatisfied, RepoDepFromRepo, RepoDepMissing, Resolving, PathInv
    <2> QED
      BY <2>1 DEF Running
  <1> QED
    BY <1>1, <1>2, PathKind

LEMMA NextPlanKnown ==
    ASSUME PathInv, PlanKnown, [Next]_vars
    PROVE  PlanKnown'
  <1>1. world' = world /\ ToBuildPkgs \subseteq ToBuildPkgs'
    BY WorldKept DEF ToBuildPkgs
  <1>2. CASE PlanSame
    BY <1>1, <1>2 DEF PlanKnown, PlanSame
  <1>3. CASE Finish
    <2>1. /\ Top.pkg.src = "repo" => Top.pkg \in Elements(world.repos)
          /\ Top.pkg.src # "repo" => Top.pkg \in ToBuildPkgs
      <3>1. stack # << >>
        BY <1>3, FinishPlan DEF PathInv
      <3>2. Top.pkg \in Known
        BY <3>1, TopType DEF PathInv, FramesKnown, TypeOK, Top
      <3> QED
        BY <3>2, KnownSource DEF PathInv, TypeOK
    <2> QED
      BY <1>1, <1>2, <1>3, <2>1, FinishPlan DEF PathInv, PlanKnown, Builds, Installs, ToBuild
  <1> QED
    BY <1>2, <1>3, PathKind, OutsidePlan, DepPlan DEF PathInv

(* A name that is new in `seen` has its frame on top. *)
LEMMA SeenKind ==
    ASSUME PathInv, [Next]_vars
    PROVE  \/ seen' = seen
           \/ \E i \in DOMAIN stack' : /\ stack'[i].pkg.src = "repo"
                                       /\ seen' = seen \cup {stack'[i].pkg.name}
  <1> DEFINE New == \E i \in DOMAIN stack' : /\ stack'[i].pkg.src = "repo"
                                             /\ seen' = seen \cup {stack'[i].pkg.name}
  <1>1. CASE RepoTarget
    <2> DEFINE p == RepoRequest.pkg
               f == NewFrame(p, RepoRequest.targ.pkg, IsMake(RepoRequest.targ.pkg), TRUE,
                             world.is_target)
    <2>1. p.src = "repo"
      BY <1>1, TargetsType, PackageOfType DEF RepoTarget, Targeting, PathInv, TypeOK
    <2>2. f.pkg = p
      BY DEF NewFrame
    <2>3. seen' = seen \cup {p.name} /\ (p.name \in seen \/ stack' = <<f>>)
      BY <1>1 DEF RepoTarget
    <2> HIDE DEF f
    <2>4. stack' = <<f>> => 1 \in DOMAIN stack' /\ stack'[1] = f
      OBVIOUS
    <2> QED
      BY <2>1, <2>2, <2>3, <2>4
  <1>2. ASSUME stack # << >>, Top.todo # << >>, NEW p \in PackageOf("repo"), EnterRepoPkg(p, Current)
        PROVE  seen' = seen \/ New
    <2> DEFINE f == NewFrame(p, Current, TRUE, TRUE, FALSE)
    <2>1. p.src = "repo" /\ f.pkg = p
      BY PackageOfType DEF NewFrame
    <2>2. seen' = seen \cup {p.name} /\ (p.name \in seen \/ stack' = Append(Advanced, f))
      BY <1>2 DEF EnterRepoPkg
    <2>3. Advanced \in Seq(Frame)
      BY <1>2, AdvancedType DEF PathInv, TypeOK
    <2> HIDE DEF f
    <2>4. PICK n : n = Len(Advanced) + 1
      OBVIOUS
    <2>5. stack' = Append(Advanced, f) => n \in DOMAIN stack' /\ stack'[n] = f
      BY <2>3, <2>4
    <2> QED
      BY <2>1, <2>2, <2>5
  <1>3. CASE BuildDepFromRepo
    <2>1. stack # << >> /\ Top.todo # << >>
      BY <1>3 DEF BuildDepFromRepo, Resolving
    <2>2. PICK p \in FromRepo(Current) :
              IF SatisfiedLocal(Current) THEN stack' = Advanced /\ seen' = seen
                                         ELSE EnterRepoPkg(p, Current)
      BY <1>3 DEF BuildDepFromRepo
    <2>3. p \in PackageOf("repo")
      BY <2>2, PackagesFound DEF FromRepo, PathInv, TypeOK
    <2> QED
      BY <1>2, <2>1, <2>2, <2>3
  <1>4. CASE RepoDepFromRepo
    <2>1. stack # << >> /\ Top.todo # << >>
      BY <1>4 DEF RepoDepFromRepo, Resolving
    <2>2. PICK p \in FindRepoSatisfier(Current) : EnterRepoPkg(p, Current)
      BY <1>4 DEF RepoDepFromRepo
    <2>3. p \in PackageOf("repo")
      BY <2>2, PackagesFound DEF PathInv, TypeOK
    <2> QED
      BY <1>2, <2>1, <2>2, <2>3
  <1>5. CASE ~ RepoTarget /\ ~ BuildDepFromRepo /\ ~ RepoDepFromRepo
    <2>1. seen' = seen
      BY <1>5 DEF Next, Split, Target, Recurse, SplitAssumed, SplitRepo, SplitGroup, SplitPkgbuild,
         SplitAur, SplitMissing, SplitDone, FillCache, FailCache, KeepMake, CalculateMake, Returned,
         RepoTargetsDone, PkgbuildTargetsDone, AurTargetsDone, Splitting, Enter, vars,
         RepoTargetSkipped, RepoTargetUnneeded, PkgbuildTargetSkipped,
         PkgbuildTargetUnneeded, PkgbuildTarget, AurTargetSkipped, AurTargetMissing,
         AurTargetUnneeded, AurTarget, Targeting, TargetingAur, BuildDepDone, BuildDepInstalled,
         BuildDepFromPkgbuild, BuildDepFromAur, BuildDepMissing, FinishBuild,
         RepoDepSatisfied, RepoDepMissing, FinishRepo, Resolving, marks
    <2> QED
      BY <2>1
  <1> QED
    BY <1>1, <1>3, <1>4, <1>5

(* What is returned from is in the plan by then: a repo package always, a  *)
(* package to build unless it is a target.                                 *)
LEMMA ReturnedPlan ==
    ASSUME PathInv, Finish, NEW i \in DOMAIN stack, i \notin DOMAIN stack'
    PROVE  /\ stack[i].pkg = Top.pkg
           /\ IsRepo(i) => stack[i].pkg \in InstallPkgs'
           /\ i > 1 => stack[i].pkg \in PlanPkgs'
  <1>1. Pops
    BY FinishPlan DEF PathInv, Pops
  <1>2. i = Len(stack) /\ Top = stack[i] /\ i \in Nat
    BY <1>1, PoppedFrames DEF PathInv
  <1> QED
    BY <1>2, FinishPlan DEF PathInv, IsRepo, Builds, Installs, PlanPkgs, ToBuild

(* A frame stays one for its package, or is returned from.                 *)
LEMMA FrameKept ==
    ASSUME PathInv, [Next]_vars, NEW i \in DOMAIN stack
    PROVE  \/ i \in DOMAIN stack' /\ stack'[i].pkg = stack[i].pkg
           \/ Finish /\ i \notin DOMAIN stack'
  <1>1. CASE Finish /\ i \in DOMAIN stack'
    <2>1. stack'[i] = stack[i]
      BY <1>1, FinishPlan, PoppedFrames DEF PathInv, Pops
    <2> QED
      BY <1>1, <2>1
  <1> QED
    BY <1>1, FramesStay

LEMMA PlanGrowsOnly ==
    ASSUME PathInv, [Next]_vars
    PROVE  BuildPkgs \subseteq BuildPkgs' /\ InstallPkgs \subseteq InstallPkgs' /\ PlanPkgs \subseteq PlanPkgs'
  <1>1. PlanSame \/ Builds(Top.pkg) \/ Installs(Top.pkg)
    BY PathKind, OutsidePlan, DepPlan, FinishPlan DEF PathInv
  <1> QED
    BY <1>1 DEF PlanSame, Builds, Installs, PlanPkgs

LEMMA EnteredKept ==
    ASSUME PathInv, [Next]_vars, NEW n, Entered(n)
    PROVE  Entered(n)'
  <1>1. CASE \E p \in InstallPkgs : p.name = n
    BY <1>1, PlanGrowsOnly DEF Entered
  <1>2. ASSUME NEW i \in DOMAIN stack, IsRepo(i), stack[i].pkg.name = n
        PROVE  Entered(n)'
    <2>1. CASE i \in DOMAIN stack' /\ stack'[i].pkg = stack[i].pkg
      BY <1>2, <2>1 DEF IsRepo, Entered
    <2>2. CASE Finish /\ i \notin DOMAIN stack'
      BY <1>2, <2>2, ReturnedPlan DEF Entered
    <2> QED
      BY <2>1, <2>2, FrameKept
  <1> QED
    BY <1>1, <1>2 DEF Entered

LEMMA NextSeen ==
    ASSUME PathInv, SeenDecided, [Next]_vars
    PROVE  SeenDecided'
  <1>1. \A n \in seen : Entered(n)'
    BY EnteredKept DEF SeenDecided
  <1>2. \A n : (\E i \in DOMAIN stack' : stack'[i].pkg.src = "repo" /\ stack'[i].pkg.name = n)
                   => Entered(n)'
    BY DEF Entered, IsRepo
  <1> QED
    BY <1>1, <1>2, SeenKind DEF SeenDecided

LEMMA NextPlan == PlanInv /\ [Next]_vars => PlanInv'
  <1> SUFFICES ASSUME PlanInv, [Next]_vars PROVE PlanInv'
    OBVIOUS
  <1>1. CacheKnown'
    BY CacheKind, WorldKept DEF PlanInv, CacheKnown
  <1> QED
    BY <1>1, NextPath, NextRunning, NextPlanKnown, NextSeen DEF PlanInv

-----------------------------------------------------------------------------
(* What is reported missing is missing. *)

(* What is read off the world alone. *)
LEMMA LocalKept ==
    ASSUME world' = world
    PROVE  /\ \A d : AssumeInstalled(d)' <=> AssumeInstalled(d)
           /\ \A d : SatisfiedLocal(d)' <=> SatisfiedLocal(d)
           /\ \A f : Flag(f)' <=> Flag(f)
  BY DEF AssumeInstalled, SatisfiedLocal, Flag, NoVer

(* Why d, required by a package of name n, is missing: for a package to    *)
(* build nothing provides it, for a repo package no repo does.             *)
Unmet(d, n) ==
    /\ ~ AssumeInstalled(d)
    /\ \A p \in Elements(world.repos) : ~ Satisfies(p, d, NoVer)
    /\ \/ /\ \A p \in ToBuildPkgs : ~ Satisfies(p, d, NoVer)
          /\ SatisfiedLocal(d) => /\ Flag("RESOLVE_SATISFIED_PKGBUILDS")
                                  /\ \E p \in ToBuildPkgs : p.name = n
       \/ ~ SatisfiedLocal(d) /\ Entered(n)

ReportsUnmet ==
    \A m \in Elements(missing) : m.stack # << >> => Unmet(m.dep, m.stack[Len(m.stack)].pkg)

UnmetInv == PlanInv /\ ReportsUnmet

LEMMA UnmetKept ==
    ASSUME PlanInv, [Next]_vars, phase \notin {"split", "cache"}, NEW d, NEW n, Unmet(d, n)
    PROVE  Unmet(d, n)'
  <1>1. world' = world /\ ToBuildPkgs' = ToBuildPkgs /\ NoVer' = NoVer
    BY WorldKept, ReadKept, CacheKind DEF ToBuildPkgs
  <1>2. Entered(n) => Entered(n)'
    BY EnteredKept DEF PlanInv
  <1> QED
    BY <1>1, <1>2, LocalKept DEF Unmet

(* The two reports from within the recursion. *)
LEMMA BuildReport ==
    ASSUME PlanInv, BuildDepMissing
    PROVE  Unmet(Current, Top.pkg.name)
  <1>1. /\ stack # << >> /\ Top.todo # << >> /\ Top.pkg.src \in ToBuild /\ MustBuild(Current)
        /\ FindPkgbuildRepoDep(NoRepo, Current) = {} /\ SelectSatisfierAurCache(Current, FALSE) = {}
    BY DEF BuildDepMissing, Resolving
  <1>2. TypeOK /\ world \in World /\ Current \in Dep /\ cache \subseteq Elements(world.aur)
    BY <1>1, TopType DEF PlanInv, PathInv, TypeOK, CacheKnown
  <1>3. \A p \in ToBuildPkgs : ~ Satisfies(p, Current, NoVer)
    BY <1>1, <1>2, PkgbuildLookup, AurUnmet DEF ToBuildPkgs
  <1>4. ~ SamePkgbuild(Top.pkg, Current)
    BY <1>3 DEF SamePkgbuild, InBase, ToBuildPkgs
  <1>5. ~ IsAurTarg(Current)
    <2>1. \A p \in FindSatisfierAurCache(Current) : p \in cache /\ Satisfies(p, Current, NoVer)
      BY DEF FindSatisfierAurCache, First
    <2> QED
      BY <1>3, <2>1 DEF IsAurTarg, DepIsAurTarg, ToBuildPkgs
  <1>6. FindRepoSatisfier(Current) = {}
    BY <1>1, <1>4, <1>5 DEF MustBuild, FromRepo
  <1>7. \A p \in Elements(world.repos) : ~ Satisfies(p, Current, NoVer)
    BY <1>2, <1>6, RepoLookup
  <1>8. ~ AssumeInstalled(Current)
    BY <1>1 DEF MustBuild, Done
  <1>9. SatisfiedLocal(Current) => Flag("RESOLVE_SATISFIED_PKGBUILDS")
    BY <1>1, <1>4, <1>5 DEF MustBuild, LeftInstalled, ShouldSkipAurPkg
  <1>10. Top.pkg \in ToBuildPkgs
    <2>1. Top.pkg \in Known
      BY <1>1, <1>2, TopType DEF PlanInv, PathInv, FramesKnown, TypeOK, Top
    <2> QED
      BY <1>1, <1>2, <2>1, KnownSource DEF TypeOK, ToBuild
  <1> QED
    BY <1>3, <1>7, <1>8, <1>9, <1>10 DEF Unmet

LEMMA RepoReport ==
    ASSUME PlanInv, RepoDepMissing
    PROVE  Unmet(Current, Top.pkg.name)
  <1>1. /\ stack # << >> /\ Top.todo # << >> /\ Top.pkg.src = "repo" /\ ~ RepoDepDone(Current)
        /\ FindRepoSatisfier(Current) = {}
    BY DEF RepoDepMissing, Resolving
  <1>2. Current \in Dep /\ Len(stack) \in DOMAIN stack
    BY <1>1, TopType DEF PlanInv, PathInv, TypeOK
  <1>3. Entered(Top.pkg.name)
    BY <1>1, <1>2 DEF Entered, IsRepo, Top
  <1> QED
    BY <1>1, <1>2, <1>3, RepoLookup DEF Unmet, RepoDepDone

LEMMA NextUnmet == UnmetInv /\ [Next]_vars => UnmetInv'
  <1> SUFFICES ASSUME UnmetInv, [Next]_vars PROVE ReportsUnmet'
    BY NextPlan DEF UnmetInv
  <1> USE DEF UnmetInv
  <1>1. missing \in Seq(Missing)
    BY DEF PlanInv, PathInv, TypeOK
  <1>2. ASSUME NEW m \in Elements(missing), m.stack # << >>
        PROVE  Unmet(m.dep, m.stack[Len(m.stack)].pkg)'
    <2>1. PICK n : n = m.stack[Len(m.stack)].pkg
      OBVIOUS
    <2>2. Unmet(m.dep, n) /\ phase \notin {"split", "cache"}
      BY <1>2, <2>1 DEF ReportsUnmet, PlanInv, Running
    <2>3. Unmet(m.dep, n)'
      BY <2>2, UnmetKept
    <2> QED
      BY <2>1, <2>3
  <1>3. CASE UNCHANGED missing
    BY <1>2, <1>3 DEF ReportsUnmet
  <1>4. CASE ReportsRequest
    <2>1. PICK r \in Missing : r.stack = << >> /\ missing' = Append(missing, r)
      BY <1>4 DEF ReportsRequest
    <2>2. Elements(missing') \subseteq Elements(missing) \cup {r}
      BY <1>1, <2>1 DEF Elements
    <2> QED
      BY <1>2, <2>1, <2>2 DEF ReportsUnmet
  <1>5. CASE ReportsDep /\ (BuildDepMissing \/ RepoDepMissing)
    <2>1. PICK d, n, path : d = Current /\ n = Top.pkg.name /\ path = Path
      OBVIOUS
    <2>2. /\ Unmet(d, n) /\ stack # << >> /\ Top.todo # << >>
          /\ missing' = Append(missing, [repo |-> NoRepo, dep |-> d, stack |-> path])
      BY <1>5, <2>1, BuildReport, RepoReport DEF ReportsDep
    <2>3. phase \notin {"split", "cache"}
      BY <2>2 DEF PlanInv, Running
    <2>4. Unmet(d, n)'
      BY <2>2, <2>3, UnmetKept
    <2>5. path[Len(path)].pkg = n
      <3>1. /\ Len(stack) \in Nat \ {0} /\ path \in Seq([pkg : Name, dep : Dep])
            /\ path = [i \in 1 .. Len(stack) |-> [pkg |-> stack[i].pkg.name, dep |-> stack[i].dep]]
        BY <2>1, <2>2, TopType, PathType DEF PlanInv, PathInv, TypeOK, Path
      <3>2. Len(path) = Len(stack) /\ Len(stack) \in 1 .. Len(stack)
        BY <3>1
      <3> QED
        BY <2>1, <3>1, <3>2 DEF Top
    <2> DEFINE r == [repo |-> NoRepo, dep |-> d, stack |-> path]
    <2>6. r.dep = d /\ r.stack = path
      OBVIOUS
    <2> HIDE DEF r
    <2>7. Elements(missing') \subseteq Elements(missing) \cup {r}
      BY <1>1, <2>2 DEF Elements, r
    <2>8. ASSUME NEW x \in Elements(missing'), x.stack # << >>
          PROVE  Unmet(x.dep, x.stack[Len(x.stack)].pkg)'
      <3>1. CASE x \in Elements(missing)
        BY <1>2, <2>8, <3>1
      <3>2. CASE x = r
        BY <2>4, <2>5, <2>6, <3>2
      <3> QED
        BY <2>7, <2>8, <3>1, <3>2
    <2> QED
      BY <2>8 DEF ReportsUnmet
  <1> QED
    BY <1>3, <1>4, <1>5, ReportKind DEF PlanInv

LEMMA InitUnmet == Fresh => UnmetInv
  BY InitPlan DEF Fresh, UnmetInv, ReportsUnmet, Elements

THEOREM UnmetKnown == Spec => []UnmetInv
  BY InitFresh, InitUnmet, NextUnmet, PTL DEF Spec

LEMMA DoneUnmet == UnmetInv => MissingIsUnmet
  <1> SUFFICES ASSUME UnmetInv, phase = "done",
                      NEW m \in Elements(missing), m.stack # << >>
               PROVE  LET n     == m.stack[Len(m.stack)].pkg
                          built == \A e \in Elements(install) : e.pkg.name # n
                      IN  /\ ~ AssumeInstalled(m.dep) /\ ~ SatisfiedInstall(m.dep)
                          /\ \A p \in Elements(world.repos) : ~ Satisfies(p, m.dep, NoVer)
                          /\ SatisfiedLocal(m.dep) => /\ Flag("RESOLVE_SATISFIED_PKGBUILDS")
                                                      /\ \E p \in ToBuildPkgs : p.name = n
                          /\ built => \A p \in ToBuildPkgs : ~ Satisfies(p, m.dep, NoVer)
    BY DEF MissingIsUnmet, ToBuildPkgs
  <1>1. PICK n : n = m.stack[Len(m.stack)].pkg
    OBVIOUS
  <1>2. Unmet(m.dep, n) /\ stack = << >> /\ InstallPkgs \subseteq Elements(world.repos)
    BY <1>1 DEF UnmetInv, ReportsUnmet, PlanInv, Running, PlanKnown
  <1>3. ~ SatisfiedInstall(m.dep)
    BY <1>2, PlanMeans DEF Unmet
  <1>4. Entered(n) => \E e \in Elements(install) : e.pkg.name = n
    BY <1>2 DEF Entered, InstallPkgs
  <1> QED
    BY <1>1, <1>2, <1>3, <1>4 DEF Unmet

(* What a finished resolution reports missing is in no database, cache or  *)
(* plan that could have had it, by the time it has finished: what is found *)
(* later for another dependency does not make the report wrong.            *)
THEOREM MissingUnmet == Spec => []MissingIsUnmet
  BY DoneUnmet, UnmetKnown, PTL

-----------------------------------------------------------------------------
(* Nothing is dropped.  What is skipped because it is in `resolved` or in  *)
(* `seen` may still be being resolved: then its package is on the stack,   *)
(* as something that will be pushed when it is returned from.              *)

OnStack(d) == \E i \in DOMAIN stack : (i > 1 \/ IsRepo(i)) /\ Satisfies(stack[i].pkg, d, NoVer)

Decided(d) == Accounted(d) \/ OnStack(d)

ResolvedDecided == \A d \in resolved : Decided(d)

FramesDecided ==
    \A i \in DOMAIN stack : \A d \in Elements(Depends(stack[i].pkg)) :
        d \in Elements(stack[i].todo) \/ Decided(d)

PlanDecided == \A p \in PlanPkgs : \A d \in Elements(Depends(p)) : Decided(d)

AllDecided == ResolvedDecided /\ FramesDecided /\ PlanDecided

DecidedInv == PlanInv /\ (UniqueRepoNames => AllDecided)

LEMMA MissingGrows ==
    ASSUME PathInv, [Next]_vars
    PROVE  Elements(missing) \subseteq Elements(missing')
  <1>1. missing \in Seq(Missing)
    BY DEF PathInv, TypeOK
  <1>2. ASSUME NEW m, missing' = Append(missing, m)
        PROVE  Elements(missing) \subseteq Elements(missing')
    <2>1. DOMAIN missing \subseteq DOMAIN missing' /\ \A i \in DOMAIN missing : missing'[i] = missing[i]
      BY <1>1, <1>2
    <2> QED
      BY <2>1 DEF Elements
  <1> QED
    BY <1>2, ReportKind DEF ReportsRequest, ReportsDep

LEMMA AccountedKept ==
    ASSUME PathInv, [Next]_vars, NEW d, Accounted(d)
    PROVE  Accounted(d)'
  <1>1. world' = world /\ NoVer' = NoVer
    BY WorldKept, ReadKept
  <1>2. /\ AssumeInstalled(d) => AssumeInstalled(d)'
        /\ SatisfiedLocal(d) => SatisfiedLocal(d)'
    BY <1>1, LocalKept
  <1>3. SatisfiedBuild(d) => SatisfiedBuild(d)'
    <2>1. SatisfiedBuild(d)' <=> \E p \in BuildPkgs' : Satisfies(p, d, NoVer')
      BY DEF SatisfiedBuild, BuildPkgs
    <2> QED
      BY <1>1, <2>1, PlanMeans, PlanGrowsOnly
  <1>4. SatisfiedInstall(d) => SatisfiedInstall(d)'
    <2>1. SatisfiedInstall(d)' <=> \E p \in InstallPkgs' : Satisfies(p, d, NoVer')
      BY DEF SatisfiedInstall, InstallPkgs
    <2> QED
      BY <1>1, <2>1, PlanMeans, PlanGrowsOnly
  <1>5. IsMissing(d) => IsMissing(d)'
    BY MissingGrows DEF IsMissing
  <1> QED
    BY <1>2, <1>3, <1>4, <1>5 DEF Accounted

(* A package of the plan satisfies what it satisfies. *)
LEMMA PlannedAccounted ==
    ASSUME NEW d, NEW p \in PlanPkgs, Satisfies(p, d, NoVer)
    PROVE  Accounted(d)
  BY PlanMeans DEF PlanPkgs, Accounted

LEMMA DecidedKept ==
    ASSUME PathInv, [Next]_vars, NEW d, Decided(d)
    PROVE  Decided(d)'
  <1>1. CASE Accounted(d)
    BY <1>1, AccountedKept DEF Decided
  <1>2. ASSUME NEW i \in DOMAIN stack, i > 1 \/ IsRepo(i), Satisfies(stack[i].pkg, d, NoVer)
        PROVE  Decided(d)'
    <2>1. NoVer' = NoVer
      BY WorldKept, ReadKept
    <2>2. CASE i \in DOMAIN stack' /\ stack'[i].pkg = stack[i].pkg
      BY <1>2, <2>1, <2>2 DEF Decided, OnStack, IsRepo
    <2>3. CASE Finish /\ i \notin DOMAIN stack'
      <3>1. PICK p : p = stack[i].pkg
        OBVIOUS
      <3>2. p \in PlanPkgs' /\ Satisfies(p, d, NoVer)
        BY <1>2, <2>3, <3>1, ReturnedPlan DEF PlanPkgs
      <3>3. (p \in PlanPkgs /\ Satisfies(p, d, NoVer) => Accounted(d))'
        BY PlannedAccounted, PTL
      <3> QED
        BY <2>1, <3>2, <3>3 DEF Decided
    <2> QED
      BY <2>2, <2>3, FrameKept
  <1> QED
    BY <1>1, <1>2 DEF Decided, OnStack

(* A repo package that is not entered again is decided. *)
LEMMA SeenSatisfies ==
    ASSUME PlanInv, UniqueRepoNames, NEW d,
           NEW p \in Elements(world.repos), p.name \in seen, Satisfies(p, d, NoVer)
    PROVE  Decided(d)
  <1>1. \A q \in Elements(world.repos) : q.name = p.name => q = p
    BY DEF UniqueRepoNames, Elements
  <1>2. Entered(p.name)
    BY DEF PlanInv, SeenDecided
  <1>3. CASE \E q \in InstallPkgs : q.name = p.name
    <2>1. p \in PlanPkgs
      BY <1>1, <1>3 DEF PlanInv, PlanKnown, PlanPkgs
    <2> QED
      BY <2>1, PlannedAccounted DEF Decided
  <1>4. ASSUME NEW i \in DOMAIN stack, IsRepo(i), stack[i].pkg.name = p.name
        PROVE  Decided(d)
    <2>1. stack[i].pkg \in Elements(world.repos)
      BY <1>4, KnownSource DEF PlanInv, PathInv, FramesKnown, TypeOK, IsRepo
    <2>2. stack[i].pkg = p
      BY <1>1, <1>4, <2>1
    <2> QED
      BY <1>4, <2>2 DEF Decided, OnStack
  <1> QED
    BY <1>2, <1>3, <1>4 DEF Entered

(* Whatever a step does about a dependency decides it. *)
LEMMA CurrentDecided ==
    ASSUME DecidedInv, UniqueRepoNames, [Next]_vars, DepStep, Steps \/ \E f : CallsFor(f)
    PROVE  \E d : d = Current /\ Decided(d)'
  <1> PICK d : d = Current
    OBVIOUS
  <1>0. PathInv /\ PlanInv /\ AllDecided /\ d \in Dep
    BY TopType DEF DecidedInv, PlanInv, PathInv, TypeOK, Steps, CallsFor
  <1>1. ASSUME NEW f, CallsFor(f) PROVE Decided(d)'
    <2>1. PICK n : n \in DOMAIN stack' /\ stack'[n] = f /\ n > 1
      BY <1>0, <1>1, CalledFrames
    <2>2. Satisfies(f.pkg, d, NoVer) /\ NoVer' = NoVer
      BY <1>1, WorldKept, ReadKept DEF CallsFor
    <2> QED
      BY <2>1, <2>2 DEF Decided, OnStack
  <1>2. ASSUME Decided(d) PROVE Decided(d)'
    BY <1>0, <1>2, DecidedKept
  <1>3. ASSUME NEW p \in FindRepoSatisfier(d), p.name \in seen PROVE Decided(d)
    BY <1>0, <1>3, RepoLookup, SeenSatisfies
  <1>4. CASE BuildDepDone
    BY <1>0, <1>2, <1>4 DEF BuildDepDone, Done, Decided, Accounted, AllDecided, ResolvedDecided
  <1>5. CASE BuildDepInstalled
    BY <1>2, <1>5 DEF BuildDepInstalled, LeftInstalled, ShouldSkipAurPkg, Decided, Accounted
  <1>6. ASSUME NEW p \in FindRepoSatisfier(d), EnterRepoPkg(p, Current) PROVE Decided(d)'
    <2>1. CASE p.name \in seen
      BY <1>2, <1>3, <2>1
    <2>2. CASE p.name \notin seen
      <3> DEFINE f == NewFrame(p, Current, TRUE, TRUE, FALSE)
      <3>1. stack' = Append(Advanced, f) /\ f.pkg = p
        BY <1>6, <2>2 DEF EnterRepoPkg, NewFrame
      <3>2. /\ Advanced \in Seq(Frame) /\ Satisfies(p, d, NoVer) /\ NoVer' = NoVer
            /\ Len(Advanced) \in Nat \ {0}
        <4>1. /\ Advanced \in Seq(Frame) /\ Len(Advanced) = Len(stack)
              /\ Len(stack) \in Nat \ {0}
          BY <1>0, AdvancedType, TopType DEF PathInv, TypeOK, Steps, CallsFor
        <4> QED
          BY <1>0, <1>6, <4>1, RepoLookup, WorldKept, ReadKept
      <3> HIDE DEF f
      <3>3. PICK n : n = Len(Advanced) + 1
        OBVIOUS
      <3>4. n \in DOMAIN stack' /\ stack'[n] = f /\ n > 1
        BY <3>1, <3>2, <3>3
      <3> QED
        BY <3>1, <3>2, <3>4 DEF Decided, OnStack
    <2> QED
      BY <2>1, <2>2
  <1>7. CASE BuildDepFromRepo
    <2>1. CASE SatisfiedLocal(d)
      BY <1>2, <2>1 DEF Decided, Accounted
    <2>2. CASE ~ SatisfiedLocal(d)
      <3>1. PICK p \in FromRepo(d) : EnterRepoPkg(p, Current)
        BY <1>7, <2>2 DEF BuildDepFromRepo
      <3>2. p \in FindRepoSatisfier(d)
        BY <3>1 DEF FromRepo
      <3> QED
        BY <1>6, <3>1, <3>2
    <2> QED
      BY <2>1, <2>2
  <1>8. CASE RepoDepFromRepo
    BY <1>6, <1>8 DEF RepoDepFromRepo
  <1>9. CASE RepoDepSatisfied
    BY <1>2, <1>9 DEF RepoDepSatisfied, RepoDepDone, Decided, Accounted
  <1>10. CASE BuildDepMissing \/ RepoDepMissing
    <2>1. PICK m : m = [repo |-> NoRepo, dep |-> d, stack |-> Path]
      OBVIOUS
    <2>2. /\ missing' = Append(missing, m) /\ missing \in Seq(Missing)
          /\ m.dep = d /\ m.repo = NoRepo
      BY <1>0, <1>10, <2>1 DEF BuildDepMissing, RepoDepMissing, PathInv, TypeOK
    <2>3. PICK n : n = Len(missing) + 1
      OBVIOUS
    <2>4. n \in DOMAIN missing' /\ missing'[n] = m
      BY <2>2, <2>3
    <2> QED
      BY <2>2, <2>4 DEF Decided, Accounted, IsMissing, Elements
  <1>11. CASE BuildDepFromPkgbuild \/ BuildDepFromAur
    <2>1. PICK p \in FindPkgbuildRepoDep(NoRepo, d) \cup SelectSatisfierAurCache(d, FALSE) :
              stack' = Append(Advanced, NewFrame(p, Current, Top.submake, TRUE, FALSE))
      BY <1>11 DEF BuildDepFromPkgbuild, BuildDepFromAur
    <2> DEFINE f == NewFrame(p, Current, Top.submake, TRUE, FALSE)
    <2>2. f.pkg = p /\ f.dep = Current /\ f.todo = Depends(p) /\ stack' = Append(Advanced, f)
      BY <2>1 DEF NewFrame
    <2>3. p \in Known /\ Satisfies(p, d, NoVer)
      BY <1>0, <2>1, LookedUp DEF PathInv
    <2> HIDE DEF f
    <2>4. CallsFor(f)
      BY <2>2, <2>3 DEF CallsFor, Brought, Steps
    <2> QED
      BY <1>1, <2>4
  <1> QED
    BY <1>4, <1>5, <1>7, <1>8, <1>9, <1>10, <1>11 DEF DepStep

LEMMA InitDecided == Fresh => DecidedInv
  <1> SUFFICES ASSUME Fresh PROVE DecidedInv
    OBVIOUS
  <1>1. PlanPkgs = {}
    BY DEF Fresh, PlanPkgs, BuildPkgs, BuildEntries, InstallPkgs, Elements
  <1> QED
    BY <1>1, InitPlan DEF Fresh, DecidedInv, AllDecided, ResolvedDecided, FramesDecided, PlanDecided

LEMMA NextDecided == DecidedInv /\ [Next]_vars => DecidedInv'
  <1> SUFFICES ASSUME DecidedInv, [Next]_vars, UniqueRepoNames' PROVE AllDecided'
    BY NextPlan DEF DecidedInv
  <1>0. PlanInv /\ PathInv /\ TypeOK /\ world' = world /\ \A p : Depends(p)' = Depends(p)
    BY WorldKept, ReadKept DEF DecidedInv, PlanInv, PathInv
  <1>1. UniqueRepoNames /\ AllDecided
    BY <1>0 DEF UniqueRepoNames, DecidedInv
  <1>2. \A d : Decided(d) => Decided(d)'
    BY <1>0, DecidedKept
  <1>3. CASE Outside /\ (UNCHANGED stack \/ \E f : OpensFor(f))
    <2>1. PlanPkgs' = PlanPkgs /\ resolved' = resolved
      BY <1>0, <1>3, OutsidePlan DEF PlanSame, PlanPkgs
    <2>2. FramesDecided'
      <3>1. CASE UNCHANGED stack
        BY <1>0, <1>1, <1>2, <3>1 DEF AllDecided, FramesDecided
      <3>2. ASSUME NEW f, OpensFor(f) PROVE FramesDecided'
        <4>1. DOMAIN stack' = {1} /\ stack'[1] = f /\ f.todo = Depends(f.pkg)
          BY <3>2 DEF OpensFor, Brought
        <4> QED
          BY <1>0, <4>1 DEF FramesDecided
      <3> QED
        BY <1>3, <3>1, <3>2
    <2> QED
      BY <1>0, <1>1, <1>2, <2>1, <2>2 DEF AllDecided, ResolvedDecided, PlanDecided
  <1>4. CASE DepStep /\ (Steps \/ \E f : CallsFor(f))
    <2>1. PICK c : c = Current /\ Decided(c)'
      BY <1>1, <1>4, CurrentDecided
    <2>2. PlanPkgs' = PlanPkgs /\ resolved' \subseteq resolved \cup {c}
      BY <1>4, <2>1, DepPlan DEF PlanSame, PlanPkgs
    <2>3. FramesDecided'
      <3>1. CASE Steps
        <4>1. /\ DOMAIN stack' = DOMAIN stack
              /\ \A i \in DOMAIN stack :
                     /\ stack'[i].pkg = stack[i].pkg
                     /\ Elements(stack[i].todo) \subseteq Elements(stack'[i].todo) \cup {c}
          BY <1>0, <2>1, <3>1, SteppedFrames
        <4> QED
          BY <1>0, <1>1, <1>2, <2>1, <4>1 DEF AllDecided, FramesDecided
      <3>2. ASSUME NEW f, CallsFor(f) PROVE FramesDecided'
        <4>1. PICK n :
                  /\ DOMAIN stack' = DOMAIN stack \cup {n}
                  /\ \A i \in DOMAIN stack :
                         /\ stack'[i].pkg = stack[i].pkg
                         /\ Elements(stack[i].todo) \subseteq Elements(stack'[i].todo) \cup {c}
                  /\ stack'[n] = f
          BY <1>0, <2>1, <3>2, CalledFrames
        <4>2. f.todo = Depends(f.pkg)
          BY <3>2 DEF CallsFor, Brought
        <4> QED
          BY <1>0, <1>1, <1>2, <2>1, <4>1, <4>2 DEF AllDecided, FramesDecided
      <3> QED
        BY <1>4, <3>1, <3>2
    <2> QED
      BY <1>0, <1>1, <1>2, <2>1, <2>2, <2>3 DEF AllDecided, ResolvedDecided, PlanDecided
  <1>5. CASE Finish /\ Pops
    <2>1. /\ PlanPkgs' \subseteq PlanPkgs \cup {Top.pkg} /\ resolved' = resolved
          /\ Top.todo = << >>
      BY <1>0, <1>5, FinishPlan DEF PlanSame, Builds, Installs, PlanPkgs, marks
    <2>2. PICK n : n \in DOMAIN stack /\ Top = stack[n] /\ \A i \in DOMAIN stack' : stack'[i] = stack[i] /\ i \in DOMAIN stack
      BY <1>0, <1>5, PoppedFrames
    <2>3. PICK top : top = Top.pkg
      OBVIOUS
    <2>4. \A d \in Elements(Depends(top)) : Decided(d)
      BY <1>1, <2>1, <2>2, <2>3 DEF AllDecided, FramesDecided, Elements
    <2>5. PlanDecided'
      <3>1. \A p \in PlanPkgs' : p \in PlanPkgs \/ p = top
        BY <2>1, <2>3
      <3> QED
        BY <1>0, <1>1, <1>2, <2>4, <3>1 DEF AllDecided, PlanDecided
    <2>6. FramesDecided'
      BY <1>0, <1>1, <1>2, <2>2 DEF AllDecided, FramesDecided
    <2> QED
      BY <1>1, <1>2, <2>1, <2>5, <2>6 DEF AllDecided, ResolvedDecided
  <1> QED
    BY <1>0, <1>3, <1>4, <1>5, PathKind

THEOREM EverythingDecided == Spec => []DecidedInv
  BY InitFresh, InitDecided, NextDecided, PTL DEF Spec

LEMMA DoneDecided == DecidedInv => NothingDropped
  <1> SUFFICES ASSUME DecidedInv, phase = "done", UniqueRepoNames,
                      NEW e \in Entries, NEW d \in Elements(Depends(e.pkg))
               PROVE  Accounted(d)
    BY DEF NothingDropped
  <1>1. stack = << >> /\ PlanDecided
    BY DEF DecidedInv, PlanInv, Running, AllDecided
  <1>2. Decided(d)
    BY <1>1, PlanMeans DEF PlanDecided
  <1> QED
    BY <1>1, <1>2 DEF Decided, OnStack

(* Every dependency of every package of a finished plan is installed,      *)
(* assumed, in the plan or reported missing, whatever `resolved` and       *)
(* `seen` made the recursion skip.                                         *)
THEOREM Complete == Spec => []NothingDropped
  BY DoneDecided, EverythingDecided, PTL

-----------------------------------------------------------------------------
(* Every request is answered.  In the meantime one may be waiting for the  *)
(* outermost package of the stack.                                         *)

ReportedMissing(t) ==
    \E m \in Elements(missing) : m.stack = << >> /\ [repo |-> m.repo, pkg |-> m.dep] \in Reported(t)

IsFiled(t) ==
    \/ \E r \in Elements(targets.repo) : r.targ = t
    \/ t \in Elements(targets.pkgbuild)
    \/ InAur(t) /\ t.pkg \in Elements(targets.aur)
    \/ ReportedMissing(t)
    \/ ~ world.is_target /\ AssumeInstalled(t.pkg)
    \/ world.group_cb /\ FoundAsGroup(t)

AllFiled == \A i \in DOMAIN Requested : phase # "split" \/ i < next => IsFiled(Requested[i])

(* A package of p's name and kind is in the plan. *)
Planned(p) == \E q \in PlanPkgs : q.name = p.name /\ (q.src = "repo" <=> p.src = "repo")

Answered(t) ==
    \/ \E p \in Known : Asks(t, p) /\ FromPlace(t, p) /\ Planned(p)
    \/ \E u \in Elements(unneeded) : u.targ \in Reported(t)
    \/ ReportedMissing(t)
    \/ ~ world.is_target /\ (AssumeInstalled(t.pkg) \/ SatisfiedLocal(t.pkg))

Pending(t) ==
    \/ Answered(t)
    \/ stack # << >> /\ Asks(t, stack[1].pkg) /\ FromPlace(t, stack[1].pkg)

PhasesAfter(ph) == CASE ph = "repo"     -> {"pkgbuild", "aur", "make", "done"}
                     [] ph = "pkgbuild" -> {"aur", "make", "done"}
                     [] ph = "aur"      -> {"make", "done"}

Past(k, ph) == (phase = ph /\ k < next) \/ phase \in PhasesAfter(ph)

RepoAnswered     == \A k \in DOMAIN targets.repo :
                        Past(k, "repo") => Pending(targets.repo[k].targ)
PkgbuildAnswered == \A k \in DOMAIN targets.pkgbuild :
                        Past(k, "pkgbuild") => Pending(targets.pkgbuild[k])
AurAnswered      == \A k \in DOMAIN targets.aur : \A t \in Targ :
                        Past(k, "aur") /\ InAur(t) /\ t.pkg = targets.aur[k] => Pending(t)

Answers == RepoAnswered /\ PkgbuildAnswered /\ AurAnswered

AnswerInv == PlanInv /\ AllFiled /\ Answers

LEMMA AppendElements ==
    ASSUME NEW T, NEW s \in Seq(T), NEW e
    PROVE  Elements(Append(s, e)) = Elements(s) \cup {e}
  <1>1. PICK n : n = Len(s) + 1
    OBVIOUS
  <1>2. PICK r : r = Append(s, e)
    OBVIOUS
  <1>3. DOMAIN r = DOMAIN s \cup {n} /\ r[n] = e /\ \A i \in DOMAIN s : r[i] = s[i]
    BY <1>1, <1>2
  <1> QED
    BY <1>2, <1>3 DEF Elements

LEMMA JoinElements ==
    ASSUME NEW T, NEW s \in Seq(T), NEW x \in Seq(T)
    PROVE  Elements(s \o x) = Elements(s) \cup Elements(x)
  <1>1. PICK n : n = Len(s)
    OBVIOUS
  <1>2. PICK r : r = s \o x
    OBVIOUS
  <1>3. /\ n \in Nat /\ DOMAIN s = 1 .. n /\ Len(x) \in Nat /\ DOMAIN x = 1 .. Len(x)
        /\ DOMAIN r = 1 .. (n + Len(x))
        /\ \A i \in 1 .. n : r[i] = s[i]
        /\ \A i \in (n + 1) .. (n + Len(x)) : r[i] = x[i - n]
    BY <1>1, <1>2
  <1>4. \A i \in DOMAIN s : i \in DOMAIN r /\ r[i] = s[i]
    BY <1>3
  <1>5. \A i \in DOMAIN x : n + i \in DOMAIN r /\ r[n + i] = x[i]
    BY <1>3
  <1>6. \A i \in DOMAIN r : i \in DOMAIN s \/ (i - n \in DOMAIN x /\ r[i] = x[i - n])
    BY <1>3
  <1>7. Elements(r) \subseteq Elements(s) \cup Elements(x)
    BY <1>4, <1>6 DEF Elements
  <1>8. Elements(s) \subseteq Elements(r) /\ Elements(x) \subseteq Elements(r)
    BY <1>4, <1>5 DEF Elements
  <1> QED
    BY <1>2, <1>7, <1>8

(* What split_targets files for the request, by where it is found. *)
LEMMA SplitFiles ==
    ASSUME TypeOK
    PROVE  /\ SplitRepo => \E p : /\ Elements(targets'.repo)
                                         = Elements(targets.repo) \cup {[targ |-> Request, pkg |-> p]}
                                  /\ targets'.pkgbuild = targets.pkgbuild /\ targets'.aur = targets.aur
           /\ SplitGroup => \E S : /\ Elements(targets'.repo) = Elements(targets.repo) \cup S
                                   /\ ~ world.group_cb => \E r \in S : r.targ = Request
                                   /\ targets'.pkgbuild = targets.pkgbuild
                                   /\ targets'.aur = targets.aur
           /\ SplitPkgbuild => /\ Elements(targets'.pkgbuild) = Elements(targets.pkgbuild) \cup {Request}
                               /\ targets'.repo = targets.repo /\ targets'.aur = targets.aur
           /\ SplitAur => /\ Elements(targets'.aur) = Elements(targets.aur) \cup {Request.pkg}
                          /\ targets'.repo = targets.repo /\ targets'.pkgbuild = targets.pkgbuild
  <1> DEFINE T == [targ : Targ, pkg : PackageOf("repo")]
  <1>1. /\ targets.repo \in Seq(T) /\ targets.pkgbuild \in Seq(Targ) /\ targets.aur \in Seq(Dep)
        /\ targets \in Targets
    BY TargetsType DEF TypeOK
  <1>2. ASSUME SplitRepo
        PROVE  \E p : /\ Elements(targets'.repo)
                             = Elements(targets.repo) \cup {[targ |-> Request, pkg |-> p]}
                      /\ targets'.pkgbuild = targets.pkgbuild /\ targets'.aur = targets.aur
    <2>1. PICK p : targets' = [targets EXCEPT !.repo = Append(@, [targ |-> Request, pkg |-> p])]
      BY <1>2 DEF SplitRepo
    <2>2. PICK r : r = [targ |-> Request, pkg |-> p]
      OBVIOUS
    <2>3. /\ targets'.repo = Append(targets.repo, r)
          /\ targets'.pkgbuild = targets.pkgbuild /\ targets'.aur = targets.aur
      BY <1>1, <2>1, <2>2 DEF Targets
    <2> HIDE DEF T
    <2>4. Elements(targets'.repo) = Elements(targets.repo) \cup {r}
      BY <1>1, <2>3, AppendElements
    <2> QED
      BY <2>2, <2>3, <2>4
  <1>3. ASSUME SplitGroup
        PROVE  \E S : /\ Elements(targets'.repo) = Elements(targets.repo) \cup S
                      /\ ~ world.group_cb => \E r \in S : r.targ = Request
                      /\ targets'.pkgbuild = targets.pkgbuild /\ targets'.aur = targets.aur
    <2>1. PICK g \in GroupPicks(Request) :
              targets' = [targets EXCEPT !.repo =
                  @ \o [i \in 1 .. Len(g) |-> [targ |-> Request, pkg |-> world.repos[g[i]]]]]
      BY <1>3 DEF SplitGroup
    <2> DEFINE more == [i \in 1 .. Len(g) |-> [targ |-> Request, pkg |-> world.repos[g[i]]]]
    <2>2. Request \in Targ
      BY <1>3, RequestType DEF SplitGroup, Splitting, TypeOK
    <2>3. Len(g) \in Nat /\ \A i \in 1 .. Len(g) : world.repos[g[i]] \in PackageOf("repo")
      BY GroupPicksType DEF TypeOK
    <2>4. \A i \in 1 .. Len(g) : more[i] \in T /\ more[i].targ = Request
      BY <2>2, <2>3
    <2>5. more \in Seq(T) /\ DOMAIN more = 1 .. Len(g)
      <3> HIDE DEF T
      <3> QED
        BY <2>3, <2>4
    <2>6. /\ targets'.repo = targets.repo \o more
          /\ targets'.pkgbuild = targets.pkgbuild /\ targets'.aur = targets.aur
      BY <1>1, <2>1 DEF Targets
    <2>7. ~ world.group_cb => 1 \in 1 .. Len(g)
      <3> SUFFICES ASSUME ~ world.group_cb PROVE 1 \in 1 .. Len(g)
        OBVIOUS
      <3>1. Len(g) = Cardinality(GroupMembers(Request)) /\ GroupMembers(Request) # {}
        BY <1>3 DEF GroupPicks, SplitGroup, FoundAsGroup
      <3>2. IsFiniteSet(GroupMembers(Request))
        <4>1. GroupMembers(Request) \subseteq 1 .. Len(world.repos) /\ Len(world.repos) \in Nat
          BY WorldTypes DEF GroupMembers, TypeOK
        <4>2. IsFiniteSet(1 .. Len(world.repos))
          BY <4>1, FS_Interval
        <4> QED
          BY <4>1, <4>2, FS_Subset
      <3>3. Cardinality(GroupMembers(Request)) # 0
        BY <3>1, <3>2, FS_EmptySet
      <3> QED
        BY <2>3, <3>1, <3>3
    <2> HIDE DEF T, more
    <2>8. Elements(targets'.repo) = Elements(targets.repo) \cup Elements(more)
      BY <1>1, <2>5, <2>6, JoinElements
    <2>9. ~ world.group_cb => \E r \in Elements(more) : r.targ = Request
      BY <2>4, <2>5, <2>7 DEF Elements
    <2> QED
      BY <2>6, <2>8, <2>9
  <1>4. ASSUME SplitPkgbuild
        PROVE  /\ Elements(targets'.pkgbuild) = Elements(targets.pkgbuild) \cup {Request}
               /\ targets'.repo = targets.repo /\ targets'.aur = targets.aur
    <2>1. /\ targets'.pkgbuild = Append(targets.pkgbuild, Request)
          /\ targets'.repo = targets.repo /\ targets'.aur = targets.aur
      BY <1>1, <1>4 DEF SplitPkgbuild, Targets
    <2> QED
      BY <1>1, <2>1, AppendElements
  <1>5. ASSUME SplitAur
        PROVE  /\ Elements(targets'.aur) = Elements(targets.aur) \cup {Request.pkg}
               /\ targets'.repo = targets.repo /\ targets'.pkgbuild = targets.pkgbuild
    <2>1. /\ targets'.aur = Append(targets.aur, Request.pkg)
          /\ targets'.repo = targets.repo /\ targets'.pkgbuild = targets.pkgbuild
      BY <1>1, <1>5 DEF SplitAur, Targets
    <2> QED
      BY <1>1, <2>1, AppendElements
  <1> QED
    BY <1>2, <1>3, <1>4, <1>5

(* What is filed stays filed, and is all there is after split_targets. *)
LEMMA TargetsGrow ==
    ASSUME TypeOK, [Next]_vars
    PROVE  /\ Elements(targets.repo) \subseteq Elements(targets'.repo)
           /\ Elements(targets.pkgbuild) \subseteq Elements(targets'.pkgbuild)
           /\ Elements(targets.aur) \subseteq Elements(targets'.aur)
           /\ phase # "split" => UNCHANGED targets
  <1>1. CASE SplitRepo \/ SplitGroup \/ SplitPkgbuild \/ SplitAur
    <2>1. phase = "split"
      BY <1>1 DEF SplitRepo, SplitGroup, SplitPkgbuild, SplitAur, Splitting
    <2> QED
      BY <1>1, <2>1, SplitFiles
  <1>2. CASE ~ (SplitRepo \/ SplitGroup \/ SplitPkgbuild \/ SplitAur)
    <2>1. UNCHANGED targets
      BY <1>2 DEF Next, Split, Target, Recurse, SplitAssumed, SplitMissing, SplitDone, FillCache,
           FailCache, KeepMake, CalculateMake, Returned, RepoTargetsDone, PkgbuildTargetsDone,
           AurTargetsDone, Splitting, Enter, vars, RepoTargetSkipped, RepoTargetUnneeded, RepoTarget,
           PkgbuildTargetSkipped, PkgbuildTargetUnneeded, PkgbuildTarget, AurTargetSkipped,
           AurTargetMissing, AurTargetUnneeded, AurTarget, Targeting, TargetingAur, BuildDepDone,
           BuildDepInstalled, BuildDepFromRepo, BuildDepFromPkgbuild, BuildDepFromAur,
           BuildDepMissing, FinishBuild, RepoDepSatisfied, RepoDepFromRepo, RepoDepMissing,
           FinishRepo, Resolving, control
    <2> QED
      BY <2>1
  <1> QED
    BY <1>1, <1>2

(* Each request is dealt with in one of six ways. *)
LEMMA SplitKind ==
    ASSUME PathInv, [Next]_vars, Splitting
    PROVE  SplitAssumed \/ SplitRepo \/ SplitGroup \/ SplitPkgbuild \/ SplitAur \/ SplitMissing
  <1>1. next' = next + 1 /\ phase = "split" /\ phase' = "split" /\ next \in Nat
    BY DEF Splitting, PathInv, TypeOK
  <1>2. ~ UNCHANGED vars
    BY <1>1 DEF vars, control
  <1>3. ~ DepStep /\ ~ Finish
    BY <1>1, DepPlan, FinishPlan DEF control, PathInv
  <1> QED
    BY <1>1, <1>2, <1>3, PathKind
       DEF Outside, Split, Target, SplitDone, FillCache, FailCache, KeepMake, CalculateMake,
           RepoTargetsDone, PkgbuildTargetsDone, AurTargetsDone, Enter, RepoTargetSkipped,
           RepoTargetUnneeded, RepoTarget, PkgbuildTargetSkipped, PkgbuildTargetUnneeded,
           PkgbuildTarget, AurTargetSkipped, AurTargetMissing, AurTargetUnneeded, AurTarget,
           Targeting, TargetingAur

(* Outside split_targets it stays where it is. *)
LEMMA NotSplitting ==
    ASSUME [Next]_vars, ~ Splitting, ~ SplitDone
    PROVE  /\ phase = "split" => phase' = "split" /\ next' = next
           /\ phase' = "split" => phase = "split"
  BY DEF Next, Split, Target, Recurse, SplitAssumed, SplitRepo, SplitGroup, SplitPkgbuild,
         SplitAur, SplitMissing, FillCache, FailCache, KeepMake,
         CalculateMake, Returned, RepoTargetsDone, PkgbuildTargetsDone, AurTargetsDone, Enter,
         vars, control, RepoTargetSkipped, RepoTargetUnneeded, RepoTarget,
         PkgbuildTargetSkipped, PkgbuildTargetUnneeded, PkgbuildTarget, AurTargetSkipped,
         AurTargetMissing, AurTargetUnneeded, AurTarget, Targeting, TargetingAur, BuildDepDone,
         BuildDepInstalled, BuildDepFromRepo, BuildDepFromPkgbuild, BuildDepFromAur,
         BuildDepMissing, FinishBuild, RepoDepSatisfied, RepoDepFromRepo, RepoDepMissing,
         FinishRepo, Resolving

(* What reports the request. *)
LEMMA ReportsIt ==
    ASSUME TypeOK, NEW t, NEW m, missing' = Append(missing, m), m.stack = << >>, world' = world,
           [repo |-> m.repo, pkg |-> m.dep] \in Reported(t)
    PROVE  ReportedMissing(t)'
  <1>1. m \in Elements(missing')
    <2>1. Elements(missing') = Elements(missing) \cup {m}
      BY AppendElements DEF TypeOK
    <2> QED
      BY <2>1
  <1>2. Reported(t)' = Reported(t)
    BY PlaceKept
  <1> QED
    BY <1>1, <1>2 DEF ReportedMissing

LEMMA NextFiled ==
    ASSUME PathInv, AllFiled, [Next]_vars
    PROVE  AllFiled'
  <1>1. /\ world' = world /\ Requested' = Requested
        /\ \A d : AssumeInstalled(d)' <=> AssumeInstalled(d)
        /\ Elements(missing) \subseteq Elements(missing') /\ TypeOK
        /\ \A t : (InAur(t)' <=> InAur(t)) /\ (FoundAsGroup(t)' <=> FoundAsGroup(t))
        /\ \A t : Reported(t)' = Reported(t)
    BY WorldKept, ReadKept, LocalKept, MissingGrows, PlaceKept DEF PathInv
  <1>2. ASSUME NEW t, IsFiled(t) PROVE IsFiled(t)'
    BY <1>1, <1>2, TargetsGrow DEF IsFiled, ReportedMissing
  <1>3. CASE Splitting
    <2>1. PICK t : t = Request
      OBVIOUS
    <2>2. IsFiled(t)'
      <3>1. CASE SplitAssumed
        BY <1>1, <2>1, <3>1 DEF SplitAssumed, Assumed, IsFiled
      <3>2. CASE SplitRepo
        <4>1. PICK p : [targ |-> t, pkg |-> p] \in Elements(targets'.repo)
          BY <1>1, <2>1, <3>2, SplitFiles
        <4>2. [targ |-> t, pkg |-> p].targ = t
          OBVIOUS
        <4> QED
          BY <4>1, <4>2 DEF IsFiled
      <3>3. CASE SplitGroup
        <4>1. FoundAsGroup(t)
          BY <2>1, <3>3 DEF SplitGroup
        <4>2. ~ world.group_cb => \E r \in Elements(targets'.repo) : r.targ = t
          BY <1>1, <2>1, <3>3, SplitFiles
        <4> QED
          BY <1>1, <4>1, <4>2 DEF IsFiled
      <3>4. CASE SplitPkgbuild
        BY <1>1, <2>1, <3>4, SplitFiles DEF IsFiled
      <3>5. CASE SplitAur
        <4>1. InAur(t)
          BY <2>1, <3>5 DEF SplitAur
        <4> QED
          BY <1>1, <2>1, <3>5, <4>1, SplitFiles DEF IsFiled
      <3>6. CASE SplitMissing
        <4>1. PICK m : m = [repo |-> t.repo, dep |-> t.pkg, stack |-> << >>]
          OBVIOUS
        <4>2. missing' = Append(missing, m) /\ m.stack = << >>
          BY <2>1, <3>6, <4>1 DEF SplitMissing
        <4>3. t \in Targ
          BY <1>1, <1>3, <2>1, RequestType DEF Splitting, TypeOK
        <4>4. [repo |-> m.repo, pkg |-> m.dep] = t
          BY <4>1, <4>3 DEF Targ
        <4> QED
          BY <1>1, <4>2, <4>4, ReportsIt DEF IsFiled, Reported
      <3> QED
        BY <1>3, <3>1, <3>2, <3>3, <3>4, <3>5, <3>6, SplitKind
    <2>3. /\ Request = Requested[next] /\ next' = next + 1 /\ next \in Nat /\ phase = "split"
          /\ phase' = phase /\ DOMAIN Requested \subseteq Nat
      BY <1>3, RequestType DEF Splitting, Request, PathInv, TypeOK
    <2>4. \A i \in DOMAIN Requested : i < next' => i < next \/ i = next
      BY <2>3
    <2> QED
      BY <1>1, <1>2, <2>1, <2>2, <2>3, <2>4 DEF AllFiled
  <1>4. CASE SplitDone
    <2>1. phase = "split" /\ next = Len(Requested) + 1 /\ Requested \in Seq(Targ)
      BY <1>4, RequestType DEF SplitDone, Enter, PathInv, TypeOK
    <2>2. \A i \in DOMAIN Requested : i < next
      BY <2>1
    <2> QED
      BY <1>1, <1>2, <2>2 DEF AllFiled
  <1>5. CASE ~ Splitting /\ ~ SplitDone
    <2>1. (phase = "split" => phase' = "split" /\ next' = next) /\ (phase' = "split" => phase = "split")
      BY <1>5, NotSplitting
    <2> QED
      BY <1>1, <1>2, <2>1 DEF AllFiled
  <1> QED
    BY <1>3, <1>4, <1>5

(* What a target brings to the bottom of the stack. *)
LEMMA RepoOpens ==
    ASSUME PathInv, RepoTarget
    PROVE  LET p == RepoRequest.pkg
           IN  /\ stack = << >> /\ p \in Elements(world.repos)
               /\ Asks(RepoRequest.targ, p) /\ FromPlace(RepoRequest.targ, p)
               /\ \/ p.name \in seen /\ UNCHANGED stack
                  \/ DOMAIN stack' = {1} /\ stack' # << >> /\ stack'[1].pkg = p
  <1> DEFINE p == RepoRequest.pkg
             f == NewFrame(p, RepoRequest.targ.pkg, IsMake(RepoRequest.targ.pkg), TRUE,
                           world.is_target)
  <1>1. RepoRequest \in Elements(targets.repo)
    BY DEF RepoTarget, Targeting, RepoRequest, Elements
  <1>2. p \in Elements(world.repos) /\ Asks(RepoRequest.targ, p) /\ FromPlace(RepoRequest.targ, p)
    BY <1>1 DEF PathInv, TargetsRequested
  <1>3. stack = << >> /\ stack' = (IF p.name \in seen THEN stack ELSE <<f>>) /\ f.pkg = p
    BY DEF RepoTarget, Targeting, NewFrame
  <1> HIDE DEF f
  <1>4. stack' = <<f>> => DOMAIN stack' = {1} /\ stack' # << >> /\ stack'[1] = f
    OBVIOUS
  <1> QED
    BY <1>2, <1>3, <1>4

LEMMA PkgbuildOpens ==
    ASSUME PathInv, PkgbuildTarget
    PROVE  /\ stack = << >> /\ DOMAIN stack' = {1} /\ stack' # << >>
           /\ stack'[1].pkg \in Elements(world.pkgbuilds)
           /\ Satisfies(stack'[1].pkg, PkgbuildRequest.pkg, NoVer)
           /\ FromPlace(PkgbuildRequest, stack'[1].pkg)
  <1>0. world \in World
    BY DEF PathInv, TypeOK
  <1>1. PICK p \in FindPkgbuildRepoDep(PkgbuildRequest.repo, PkgbuildRequest.pkg) :
            stack' = <<NewFrame(p, PkgbuildRequest.pkg, FALSE, IsMake(PkgbuildRequest.pkg),
                                world.is_target)>>
    BY DEF PkgbuildTarget
  <1>2. /\ p \in Elements(world.pkgbuilds) /\ Satisfies(p, PkgbuildRequest.pkg, NoVer)
        /\ PkgbuildRequest.repo # NoRepo => p.repo = PkgbuildRequest.repo
    BY <1>0, <1>1, PkgbuildLookup
  <1> DEFINE f == NewFrame(p, PkgbuildRequest.pkg, FALSE, IsMake(PkgbuildRequest.pkg), world.is_target)
  <1>3. stack = << >> /\ stack' = <<f>> /\ f.pkg = p /\ PkgbuildRequest \in Elements(targets.pkgbuild)
    BY <1>1 DEF PkgbuildTarget, Targeting, PkgbuildRequest, NewFrame, Elements
  <1> HIDE DEF f
  <1>4. DOMAIN stack' = {1} /\ stack' # << >> /\ stack'[1] = f
    BY <1>3
  <1>5. FromPlace(PkgbuildRequest, p)
    BY <1>0, <1>2, <1>3, PlaceFound DEF PathInv, TargetsRequested
  <1> QED
    BY <1>2, <1>3, <1>4, <1>5

LEMMA AurOpens ==
    ASSUME PathInv, AurTarget
    PROVE  /\ stack = << >> /\ DOMAIN stack' = {1} /\ stack' # << >>
           /\ stack'[1].pkg \in cache
           /\ Satisfies(stack'[1].pkg, AurRequest, NoVer)
           /\ \A t : InAur(t) => FromPlace(t, stack'[1].pkg)
  <1>0. world \in World /\ cache \subseteq PackageOf("aur")
    BY DEF PathInv, TypeOK
  <1>1. PICK p \in SelectSatisfierAurCache(AurRequest, world.is_target) :
            stack' = <<NewFrame(p, AurRequest, FALSE, IsMake(AurRequest), world.is_target)>>
    BY DEF AurTarget
  <1>2. p \in cache /\ Satisfies(p, AurRequest, NoVer)
    BY <1>1, AurLookup
  <1> DEFINE f == NewFrame(p, AurRequest, FALSE, IsMake(AurRequest), world.is_target)
  <1>3. stack = << >> /\ stack' = <<f>> /\ f.pkg = p
    BY <1>1 DEF AurTarget, TargetingAur, Targeting, NewFrame
  <1> HIDE DEF f
  <1>4. DOMAIN stack' = {1} /\ stack' # << >> /\ stack'[1] = f
    BY <1>3
  <1>5. \A t : InAur(t) => FromPlace(t, p)
    BY <1>0, <1>2, PlaceFound
  <1> QED
    BY <1>2, <1>3, <1>4, <1>5

(* The bottom of the stack is opened by a target, or stays. *)
LEMMA RootKind ==
    ASSUME PathInv, [Next]_vars, stack' # << >>
    PROVE  \/ 1 \in DOMAIN stack /\ stack # << >> /\ stack'[1].pkg = stack[1].pkg
           \/ RepoTarget \/ PkgbuildTarget \/ AurTarget
  <1>1. CASE Outside
    <2>1. UNCHANGED stack \/ RepoTarget \/ PkgbuildTarget \/ AurTarget
      BY <1>1 DEF Outside, Split, Target, SplitAssumed, SplitRepo, SplitGroup, SplitPkgbuild,
                  SplitAur, SplitMissing, SplitDone, FillCache, FailCache, KeepMake,
                  CalculateMake, RepoTargetsDone, PkgbuildTargetsDone, AurTargetsDone, Splitting,
                  Enter, vars, RepoTargetSkipped, RepoTargetUnneeded, PkgbuildTargetSkipped,
                  PkgbuildTargetUnneeded, AurTargetSkipped, AurTargetMissing, AurTargetUnneeded,
                  Targeting, TargetingAur
    <2>2. stack # << >> => 1 \in DOMAIN stack
      BY DEF PathInv, TypeOK
    <2> QED
      BY <2>1, <2>2
  <1>2. CASE Steps
    <2>1. stack # << >> /\ stack \in Seq(Frame)
      BY <1>2 DEF Steps, PathInv, TypeOK
    <2>2. 1 \in DOMAIN stack
      BY <2>1
    <2> QED
      BY <1>2, <2>1, <2>2, SteppedFrames
  <1>3. ASSUME NEW f, CallsFor(f)
        PROVE  1 \in DOMAIN stack /\ stack # << >> /\ stack'[1].pkg = stack[1].pkg
    BY <1>3, CalledFrames DEF CallsFor
  <1>4. CASE Pops
    BY <1>4, PoppedFrames DEF PathInv, Pops
  <1> QED
    BY <1>1, <1>2, <1>3, <1>4, PathKind

(* The handlers of a target, by list. *)
RepoHandled     == RepoTargetSkipped \/ RepoTargetUnneeded \/ RepoTarget
PkgbuildHandled == PkgbuildTargetSkipped \/ PkgbuildTargetUnneeded \/ PkgbuildTarget
AurHandled      == AurTargetSkipped \/ AurTargetMissing \/ AurTargetUnneeded \/ AurTarget

LEMMA ControlKind ==
    ASSUME [Next]_vars, phase \notin {"split", "cache"}
    PROVE  \/ UNCHANGED <<phase, next>>
           \/ RepoHandled     /\ phase = "repo"     /\ phase' = "repo"     /\ next' = next + 1
           \/ PkgbuildHandled /\ phase = "pkgbuild" /\ phase' = "pkgbuild" /\ next' = next + 1
           \/ AurHandled      /\ phase = "aur"      /\ phase' = "aur"      /\ next' = next + 1
           \/ phase = "repo" /\ phase' = "pkgbuild" /\ next = Len(targets.repo) + 1 /\ next' = 1
           \/ phase = "pkgbuild" /\ phase' = "aur" /\ next = Len(targets.pkgbuild) + 1 /\ next' = 1
           \/ phase = "aur" /\ phase' = "make" /\ next = Len(targets.aur) + 1 /\ next' = 1
           \/ phase = "make" /\ phase' = "done"
  <1>1. CASE RepoHandled
    BY <1>1 DEF RepoHandled, RepoTargetSkipped, RepoTargetUnneeded, RepoTarget, Targeting
  <1>2. CASE PkgbuildHandled
    BY <1>2 DEF PkgbuildHandled, PkgbuildTargetSkipped, PkgbuildTargetUnneeded, PkgbuildTarget,
                Targeting
  <1>3. CASE AurHandled
    BY <1>3 DEF AurHandled, AurTargetSkipped, AurTargetMissing, AurTargetUnneeded, AurTarget,
                TargetingAur, Targeting
  <1>4. CASE ~ RepoHandled /\ ~ PkgbuildHandled /\ ~ AurHandled
    BY <1>4 DEF RepoHandled, PkgbuildHandled, AurHandled, Next, Split, Target, Recurse, SplitAssumed,
         SplitRepo, SplitGroup, SplitPkgbuild, SplitAur, SplitMissing, SplitDone, Splitting, FillCache,
         FailCache, KeepMake, CalculateMake, Returned, RepoTargetsDone, PkgbuildTargetsDone,
         AurTargetsDone, Enter, vars, control, BuildDepDone, BuildDepInstalled, BuildDepFromRepo,
         BuildDepFromPkgbuild, BuildDepFromAur, BuildDepMissing, FinishBuild, RepoDepSatisfied,
         RepoDepFromRepo, RepoDepMissing, FinishRepo, Resolving
  <1> QED
    BY <1>1, <1>2, <1>3, <1>4

LEMMA PastKind ==
    ASSUME TypeOK, [Next]_vars, phase \notin {"split", "cache"}
    PROVE  /\ \A k \in DOMAIN targets.repo :
                  Past(k, "repo")' => Past(k, "repo") \/ (k = next /\ RepoHandled /\ phase = "repo")
           /\ \A k \in DOMAIN targets.pkgbuild :
                  Past(k, "pkgbuild")' =>
                      Past(k, "pkgbuild") \/ (k = next /\ PkgbuildHandled /\ phase = "pkgbuild")
           /\ \A k \in DOMAIN targets.aur :
                  Past(k, "aur")' => Past(k, "aur") \/ (k = next /\ AurHandled /\ phase = "aur")
  <1>1. /\ DOMAIN targets.repo = 1 .. Len(targets.repo) /\ Len(targets.repo) \in Nat
        /\ DOMAIN targets.pkgbuild = 1 .. Len(targets.pkgbuild) /\ Len(targets.pkgbuild) \in Nat
        /\ DOMAIN targets.aur = 1 .. Len(targets.aur) /\ Len(targets.aur) \in Nat
        /\ next \in Nat
    BY TargetsType DEF TypeOK
  <1>2. ASSUME NEW k \in DOMAIN targets.repo, Past(k, "repo")'
        PROVE  Past(k, "repo") \/ (k = next /\ RepoHandled /\ phase = "repo")
    BY <1>1, <1>2, ControlKind DEF Past, PhasesAfter
  <1>3. ASSUME NEW k \in DOMAIN targets.pkgbuild, Past(k, "pkgbuild")'
        PROVE  Past(k, "pkgbuild") \/ (k = next /\ PkgbuildHandled /\ phase = "pkgbuild")
    BY <1>1, <1>3, ControlKind DEF Past, PhasesAfter
  <1>4. ASSUME NEW k \in DOMAIN targets.aur, Past(k, "aur")'
        PROVE  Past(k, "aur") \/ (k = next /\ AurHandled /\ phase = "aur")
    BY <1>1, <1>4, ControlKind DEF Past, PhasesAfter
  <1> QED
    BY <1>2, <1>3, <1>4

(* No target is past before the cache is filled. *)
LEMMA PastNone ==
    ASSUME [Next]_vars, phase \in {"split", "cache"}, NEW k \in Nat \ {0},
           NEW ph \in {"repo", "pkgbuild", "aur"}
    PROVE  ~ Past(k, ph)'
  <1>1. phase' \in {"split", "cache", "failed"} \/ (phase' = "repo" /\ next' = 1) \/ Recurse
    BY DEF Next, Split, Target, SplitAssumed, SplitRepo, SplitGroup, SplitPkgbuild, SplitAur,
         SplitMissing, SplitDone, Splitting, FillCache, FailCache, KeepMake, CalculateMake, Returned,
         RepoTargetsDone, PkgbuildTargetsDone, AurTargetsDone, Enter, vars, control,
         RepoTargetSkipped, RepoTargetUnneeded, RepoTarget, PkgbuildTargetSkipped,
         PkgbuildTargetUnneeded, PkgbuildTarget, AurTargetSkipped, AurTargetMissing,
         AurTargetUnneeded, AurTarget, TargetingAur, Targeting
  <1>2. Recurse => phase' = phase
    BY DEF Recurse, control, BuildDepDone, BuildDepInstalled, BuildDepFromRepo,
         BuildDepFromPkgbuild, BuildDepFromAur, BuildDepMissing, FinishBuild, RepoDepSatisfied,
         RepoDepFromRepo, RepoDepMissing, FinishRepo, Resolving
  <1>3. phase' \in {"split", "cache", "failed"} \/ (phase' = "repo" /\ next' = 1)
    BY <1>1, <1>2
  <1> QED
    BY <1>3 DEF Past, PhasesAfter

LEMMA UnneededGrows ==
    ASSUME TypeOK, [Next]_vars
    PROVE  Elements(unneeded) \subseteq Elements(unneeded')
  <1>1. UNCHANGED unneeded \/ \E u : unneeded' = Append(unneeded, u)
    BY DEF Next, Split, Target, Recurse, SplitAssumed, SplitRepo, SplitGroup, SplitPkgbuild, SplitAur,
         SplitMissing, SplitDone, Splitting, FillCache, FailCache, KeepMake, CalculateMake, Returned,
         RepoTargetsDone, PkgbuildTargetsDone, AurTargetsDone, Enter, vars,
         RepoTargetSkipped, RepoTargetUnneeded, RepoTarget, PkgbuildTargetSkipped,
         PkgbuildTargetUnneeded, PkgbuildTarget, AurTargetSkipped, AurTargetMissing,
         AurTargetUnneeded, AurTarget, BuildDepDone, BuildDepInstalled, BuildDepFromRepo,
         BuildDepFromPkgbuild, BuildDepFromAur, BuildDepMissing, FinishBuild, RepoDepSatisfied,
         RepoDepFromRepo, RepoDepMissing, FinishRepo, Resolving
  <1>2. unneeded \in Seq(Unneeded)
    BY DEF TypeOK
  <1>3. ASSUME NEW u, unneeded' = Append(unneeded, u)
        PROVE  Elements(unneeded) \subseteq Elements(unneeded')
    BY <1>2, <1>3, AppendElements
  <1> QED
    BY <1>1, <1>3

LEMMA AnsweredKept ==
    ASSUME PathInv, [Next]_vars, NEW t, Answered(t)
    PROVE  Answered(t)'
  <1>1. /\ world' = world /\ Known \subseteq Known' /\ Reported(t)' = Reported(t)
        /\ \A p : (Asks(t, p)' <=> Asks(t, p)) /\ (FromPlace(t, p)' <=> FromPlace(t, p))
    BY WorldKept, ReadKept, PlaceKept DEF Known
  <1>2. ASSUME NEW p \in Known, Asks(t, p), FromPlace(t, p), Planned(p)
        PROVE  Answered(t)'
    <2>1. Planned(p)'
      BY <1>2, PlanGrowsOnly DEF Planned
    <2> QED
      BY <1>1, <1>2, <2>1 DEF Answered
  <1>3. (\E u \in Elements(unneeded) : u.targ \in Reported(t)) => Answered(t)'
    BY <1>1, UnneededGrows DEF Answered, PathInv
  <1>4. ReportedMissing(t) => Answered(t)'
    BY <1>1, MissingGrows DEF Answered, ReportedMissing
  <1>5. ~ world.is_target /\ (AssumeInstalled(t.pkg) \/ SatisfiedLocal(t.pkg)) => Answered(t)'
    BY <1>1, LocalKept DEF Answered
  <1> QED
    BY <1>2, <1>3, <1>4, <1>5 DEF Answered

(* What was asked for and what it is looked up in stay, once the cache is  *)
(* filled.                                                                 *)
LEMMA InputsKept ==
    ASSUME PathInv, [Next]_vars, phase \notin {"split", "cache"}
    PROVE  UNCHANGED <<world, cache, targets>>
  BY WorldKept, CacheKind, TargetsGrow DEF PathInv

(* A target that is left out has a package of its name in the plan. *)
LEMMA FinishedPlanned ==
    ASSUME PlanInv, Finish, NEW p, p = Top.pkg
    PROVE  Planned(p)'
  <1>1. PathInv /\ TypeOK /\ world \in World /\ cache \in SUBSET PackageOf("aur")
    BY DEF PlanInv, PathInv, TypeOK
  <1>2. CASE Builds(Top.pkg) \/ Installs(Top.pkg)
    BY <1>2 DEF Builds, Installs, PlanPkgs, Planned
  <1>3. ASSUME Top.pkg.src \in ToBuild, PlanSame, NEW q \in BuildPkgs, q.name = Top.pkg.name
        PROVE  Planned(p)'
    <2>1. q \in Known /\ q \in ToBuildPkgs
      BY DEF PlanInv, PlanKnown, ToBuildPkgs, Known
    <2>2. q.src # "repo"
      <3>1. /\ Elements(world.pkgbuilds) \subseteq PackageOf("pkgbuild")
        BY <1>1, WorldTypes, ElementsType
      <3> QED
        BY <1>1, <2>1, <3>1, PackageOfType DEF ToBuildPkgs
    <2> QED
      BY <1>3, <2>2 DEF PlanSame, PlanPkgs, Planned, ToBuild
  <1> QED
    BY <1>1, <1>2, <1>3, FinishPlan

LEMMA PendingKept ==
    ASSUME PlanInv, [Next]_vars, NEW t, Pending(t)
    PROVE  Pending(t)'
  <1>1. /\ PathInv /\ world' = world /\ Known \subseteq Known'
        /\ \A p : (Asks(t, p)' <=> Asks(t, p)) /\ (FromPlace(t, p)' <=> FromPlace(t, p))
    BY WorldKept, ReadKept, PlaceKept DEF PlanInv, Known
  <1>2. CASE Answered(t)
    BY <1>1, <1>2, AnsweredKept DEF Pending
  <1>3. ASSUME stack # << >>, Asks(t, stack[1].pkg), FromPlace(t, stack[1].pkg)
        PROVE  Pending(t)'
    <2>1. 1 \in DOMAIN stack
      BY <1>1, <1>3 DEF PathInv, TypeOK
    <2>2. CASE 1 \in DOMAIN stack' /\ stack'[1].pkg = stack[1].pkg
      <3>1. stack' # << >>
        BY <2>2
      <3> QED
        BY <1>1, <1>3, <2>2, <3>1 DEF Pending
    <2>3. CASE Finish /\ 1 \notin DOMAIN stack'
      <3>1. PICK p : p = stack[1].pkg
        OBVIOUS
      <3>2. p = Top.pkg /\ p \in Known
        BY <1>1, <2>1, <2>3, <3>1, ReturnedPlan DEF PathInv, FramesKnown
      <3>3. Planned(p)'
        BY <2>3, <3>2, FinishedPlanned
      <3> QED
        BY <1>1, <1>3, <3>1, <3>2, <3>3 DEF Pending, Answered
    <2> QED
      BY <1>1, <2>1, <2>2, <2>3, FrameKept
  <1> QED
    BY <1>2, <1>3 DEF Pending

LEMMA AppendsUnneeded ==
    ASSUME TypeOK, world' = world, NEW t, NEW u, u.targ \in Reported(t),
           unneeded' = Append(unneeded, u)
    PROVE  Pending(t)'
  <1>1. u \in Elements(unneeded')
    BY AppendElements DEF TypeOK
  <1> QED
    BY <1>1, PlaceKept DEF Pending, Answered

LEMMA AnsweredPending ==
    ASSUME PathInv, [Next]_vars, NEW t, Answered(t)
    PROVE  Pending(t)'
  BY AnsweredKept DEF Pending

LEMMA OpenedPending ==
    ASSUME [Next]_vars, stack' # << >>, NEW t, Asks(t, stack'[1].pkg), FromPlace(t, stack'[1].pkg)
    PROVE  Pending(t)'
  <1>1. PICK p : p = stack'[1].pkg
    OBVIOUS
  <1>2. Asks(t, p)' /\ FromPlace(t, p)'
    BY <1>1, WorldKept, ReadKept, PlaceKept
  <1> QED
    BY <1>1, <1>2 DEF Pending

LEMMA RepoAnswers ==
    ASSUME PlanInv, [Next]_vars, RepoHandled, NEW t, t = RepoRequest.targ
    PROVE  Pending(t)'
  <1>0. PathInv /\ TypeOK /\ world' = world
    BY WorldKept DEF PlanInv, PathInv
  <1>1. CASE RepoTargetSkipped
    <2>1. ~ world.is_target /\ SatisfiedLocalStrict(t.pkg)
      BY <1>1 DEF RepoTargetSkipped
    <2>2. SatisfiedLocal(t.pkg)
      BY <2>1 DEF SatisfiedLocal, SatisfiedLocalStrict, Satisfies, SatisfiesProvide
    <2> QED
      BY <1>0, <2>1, <2>2, AnsweredPending DEF Answered
  <1>2. CASE RepoTargetUnneeded
    <2>1. PICK u : unneeded' = Append(unneeded, u) /\ u.targ = t
      <3>1. PICK q : unneeded' = Append(unneeded, [targ |-> t, ver |-> q.ver])
        BY <1>2 DEF RepoTargetUnneeded
      <3>2. [targ |-> t, ver |-> q.ver].targ = t
        OBVIOUS
      <3> QED
        BY <3>1, <3>2
    <2> QED
      BY <1>0, <2>1, AppendsUnneeded DEF Reported
  <1>3. CASE RepoTarget
    <2>1. PICK p : p = RepoRequest.pkg
      OBVIOUS
    <2>2. /\ stack = << >> /\ p \in Elements(world.repos) /\ Asks(t, p) /\ FromPlace(t, p)
          /\ p.name \in seen \/ (stack' # << >> /\ stack'[1].pkg = p)
      BY <1>0, <1>3, <2>1, RepoOpens
    <2>3. CASE p.name \in seen
      <3>1. PICK q \in InstallPkgs : q.name = p.name
        BY <2>2, <2>3 DEF PlanInv, SeenDecided, Entered
      <3>2. q.src = "repo" /\ p.src = "repo"
        <4>1. Elements(world.repos) \subseteq PackageOf("repo")
          BY <1>0, WorldTypes, ElementsType DEF TypeOK
        <4> QED
          BY <2>2, <4>1, PackageOfType DEF PlanInv, PlanKnown
      <3>3. Planned(p)
        BY <3>1, <3>2 DEF Planned, PlanPkgs
      <3> QED
        BY <1>0, <2>2, <3>3, AnsweredPending DEF Answered, Known
    <2>4. CASE stack' # << >> /\ stack'[1].pkg = p
      BY <2>2, <2>4, OpenedPending
    <2> QED
      BY <2>2, <2>3, <2>4
  <1> QED
    BY <1>1, <1>2, <1>3 DEF RepoHandled

LEMMA PkgbuildAnswers ==
    ASSUME PlanInv, [Next]_vars, PkgbuildHandled, NEW t, t = PkgbuildRequest
    PROVE  Pending(t)'
  <1>0. PathInv /\ TypeOK /\ world' = world
    BY WorldKept DEF PlanInv, PathInv
  <1>1. CASE PkgbuildTargetSkipped
    BY <1>0, <1>1, AnsweredPending DEF PkgbuildTargetSkipped, ShouldSkipAurPkg, Answered
  <1>2. CASE PkgbuildTargetUnneeded
    <2>1. PICK u : unneeded' = Append(unneeded, u) /\ u.targ = t
      <3>1. PICK q : unneeded' = Append(unneeded, [targ |-> t, ver |-> q.ver])
        BY <1>2 DEF PkgbuildTargetUnneeded
      <3>2. [targ |-> t, ver |-> q.ver].targ = t
        OBVIOUS
      <3> QED
        BY <3>1, <3>2
    <2> QED
      BY <1>0, <2>1, AppendsUnneeded DEF Reported
  <1>3. CASE PkgbuildTarget
    <2>1. stack' # << >> /\ Asks(t, stack'[1].pkg) /\ FromPlace(t, stack'[1].pkg)
      BY <1>0, <1>3, PkgbuildOpens DEF Asks
    <2> QED
      BY <2>1, OpenedPending
  <1> QED
    BY <1>1, <1>2, <1>3 DEF PkgbuildHandled

(* An AUR target is written without its repository from here on. *)
LEMMA AurReported ==
    ASSUME NEW t \in Targ, InAur(t)
    PROVE  [repo |-> NoRepo, pkg |-> t.pkg] \in Reported(t)
  <1>1. WhereIsTarget(t) = "unspecified" => t.repo = NoRepo
    BY DEF WhereIsTarget
  <1> QED
    BY <1>1 DEF InAur, Reported, Targ

LEMMA AurAnswers ==
    ASSUME PlanInv, [Next]_vars, AurHandled, NEW t \in Targ, InAur(t), t.pkg = AurRequest
    PROVE  Pending(t)'
  <1>0. PathInv /\ TypeOK /\ world' = world
    BY WorldKept DEF PlanInv, PathInv
  <1>1. CASE AurTargetSkipped
    BY <1>0, <1>1, AnsweredPending DEF AurTargetSkipped, ShouldSkipAurPkg, Answered
  <1>2. CASE AurTargetMissing
    <2>1. Path = << >>
      BY <1>2 DEF AurTargetMissing, TargetingAur, Targeting, Path
    <2>2. PICK m : m = [repo |-> NoRepo, dep |-> t.pkg, stack |-> << >>]
      OBVIOUS
    <2>3. missing' = Append(missing, m) /\ m.stack = << >> /\ m.repo = NoRepo /\ m.dep = t.pkg
      BY <1>2, <2>1, <2>2 DEF AurTargetMissing
    <2>4. ReportedMissing(t)'
      BY <1>0, <2>3, AurReported, ReportsIt
    <2> QED
      BY <2>4 DEF Pending, Answered
  <1>3. CASE AurTargetUnneeded
    <2>1. PICK u : unneeded' = Append(unneeded, u) /\ u.targ = [repo |-> NoRepo, pkg |-> t.pkg]
      <3>1. PICK r : r = [repo |-> NoRepo, pkg |-> t.pkg]
        OBVIOUS
      <3>2. PICK q : unneeded' = Append(unneeded, [targ |-> r, ver |-> q.ver])
        BY <1>3, <3>1 DEF AurTargetUnneeded
      <3>3. [targ |-> r, ver |-> q.ver].targ = r
        OBVIOUS
      <3> QED
        BY <3>1, <3>2, <3>3
    <2> QED
      BY <1>0, <2>1, AurReported, AppendsUnneeded
  <1>4. CASE AurTarget
    <2>1. stack' # << >> /\ Asks(t, stack'[1].pkg) /\ FromPlace(t, stack'[1].pkg)
      BY <1>0, <1>4, AurOpens DEF Asks
    <2> QED
      BY <2>1, OpenedPending
  <1> QED
    BY <1>1, <1>2, <1>3, <1>4 DEF AurHandled

LEMMA InitAnswer == Fresh => AnswerInv
  <1> SUFFICES ASSUME Fresh PROVE AnswerInv
    OBVIOUS
  <1>1. PlanInv /\ Requested \in Seq(Targ)
    BY InitPlan, RequestType DEF PlanInv, PathInv, TypeOK
  <1>2. AllFiled
    BY <1>1 DEF Fresh, AllFiled
  <1>3. /\ DOMAIN targets.repo = {} /\ DOMAIN targets.pkgbuild = {} /\ DOMAIN targets.aur = {}
        /\ stack = << >>
    BY DEF Fresh
  <1> QED
    BY <1>1, <1>2, <1>3 DEF AnswerInv, Answers, RepoAnswered, PkgbuildAnswered,
                            AurAnswered

LEMMA NextAnswers ==
    ASSUME AnswerInv, [Next]_vars
    PROVE  Answers'
  <1> SUFFICES RepoAnswered' /\ PkgbuildAnswered' /\ AurAnswered'
    BY DEF Answers
  <1>1. PathInv /\ TypeOK /\ PlanInv
    BY DEF AnswerInv, PlanInv, PathInv
  <1>2. CASE phase \in {"split", "cache"}
    <2>1. TypeOK'
      BY <1>1, NextPath DEF PathInv
    <2>2. /\ DOMAIN targets'.repo \subseteq Nat \ {0}
          /\ DOMAIN targets'.pkgbuild \subseteq Nat \ {0}
          /\ DOMAIN targets'.aur \subseteq Nat \ {0}
      <3>1. /\ (targets.repo \in Seq([targ : Targ, pkg : PackageOf("repo")]))'
            /\ (targets.pkgbuild \in Seq(Targ))' /\ (targets.aur \in Seq(Dep))'
        BY <2>1 DEF TypeOK, Targets
      <3> QED
        BY <3>1
    <2> QED
      BY <1>2, <2>2, PastNone DEF RepoAnswered, PkgbuildAnswered, AurAnswered
  <1>3. CASE phase \notin {"split", "cache"}
    <2>1. targets' = targets /\ \A t : InAur(t)' <=> InAur(t)
      BY <1>1, <1>3, InputsKept, PlaceKept
    <2>2. RepoAnswered /\ PkgbuildAnswered /\ AurAnswered
      BY DEF AnswerInv, Answers
    <2>3. ASSUME NEW k \in DOMAIN targets.repo, Past(k, "repo")' PROVE Pending(targets.repo[k].targ)'
      <3> PICK t : t = targets.repo[k].targ
        OBVIOUS
      <3>1. CASE Past(k, "repo")
        <4>1. Pending(t)
          BY <2>2, <3>1 DEF RepoAnswered
        <4> QED
          BY <1>1, <2>1, <4>1, PendingKept
      <3>2. CASE k = next /\ RepoHandled
        <4>1. t = RepoRequest.targ
          BY <3>2 DEF RepoRequest
        <4> QED
          BY <1>1, <2>1, <3>2, <4>1, RepoAnswers
      <3> QED
        BY <1>1, <1>3, <2>3, <3>1, <3>2, PastKind
    <2>4. ASSUME NEW k \in DOMAIN targets.pkgbuild, Past(k, "pkgbuild")'
          PROVE  Pending(targets.pkgbuild[k])'
      <3> PICK t : t = targets.pkgbuild[k]
        OBVIOUS
      <3>1. CASE Past(k, "pkgbuild")
        <4>1. Pending(t)
          BY <2>2, <3>1 DEF PkgbuildAnswered
        <4> QED
          BY <1>1, <2>1, <4>1, PendingKept
      <3>2. CASE k = next /\ PkgbuildHandled
        <4>1. t = PkgbuildRequest
          BY <3>2 DEF PkgbuildRequest
        <4> QED
          BY <1>1, <2>1, <3>2, <4>1, PkgbuildAnswers
      <3> QED
        BY <1>1, <1>3, <2>4, <3>1, <3>2, PastKind
    <2>5. ASSUME NEW k \in DOMAIN targets.aur, NEW t \in Targ, InAur(t), t.pkg = targets.aur[k],
                 Past(k, "aur")'
          PROVE  Pending(t)'
      <3>1. CASE Past(k, "aur")
        <4>1. Pending(t)
          BY <2>2, <2>5, <3>1 DEF AurAnswered
        <4> QED
          BY <1>1, <2>1, <4>1, PendingKept
      <3>2. CASE k = next /\ AurHandled
        BY <1>1, <2>5, <3>2, AurAnswers DEF AurRequest
      <3> QED
        BY <1>1, <1>3, <2>5, <3>1, <3>2, PastKind
    <2>6. RepoAnswered'
      BY <2>1, <2>3 DEF RepoAnswered
    <2>7. PkgbuildAnswered'
      BY <2>1, <2>4 DEF PkgbuildAnswered
    <2>8. AurAnswered'
      BY <2>1, <2>5 DEF AurAnswered
    <2> QED
      BY <2>6, <2>7, <2>8
  <1> QED
    BY <1>2, <1>3

LEMMA NextAnswer == AnswerInv /\ [Next]_vars => AnswerInv'
  BY NextPlan, NextFiled, NextAnswers DEF AnswerInv, PlanInv

(* A request that is past is waited for at most by what is on the stack:   *)
(* what each of the three loops has gone through is in the plan, unneeded, *)
(* missing or there, or is the package at the bottom of the recursion.     *)
THEOREM AnswersKept == Spec => []AnswerInv
  BY InitFresh, InitAnswer, NextAnswer, PTL DEF Spec

LEMMA DoneAnswered == AnswerInv => RequestsAnswered
  <1> SUFFICES ASSUME AnswerInv, phase = "done", NEW t \in Elements(Requested)
               PROVE  \/ \E p \in Known : Asks(t, p) /\ FromPlace(t, p) /\ Taken(p)
                      \/ \E u \in Elements(unneeded) : u.targ \in Reported(t)
                      \/ ReportedMissing(t)
                      \/ ~ world.is_target /\ (AssumeInstalled(t.pkg) \/ SatisfiedLocal(t.pkg))
                      \/ world.group_cb /\ FoundAsGroup(t)
    BY DEF RequestsAnswered, ReportedMissing
  <1>1. /\ stack = << >> /\ RepoAnswered /\ PkgbuildAnswered /\ AurAnswered /\ IsFiled(t)
        /\ t \in Targ
    <2>1. t \in Targ
      BY RequestType, ElementsType DEF AnswerInv, PlanInv, PathInv, TypeOK
    <2> QED
      BY <2>1 DEF AnswerInv, PlanInv, Running, Answers, AllFiled, Elements
  <1>2. \A k, ph : ph \in {"repo", "pkgbuild", "aur"} => Past(k, ph)
    BY DEF Past, PhasesAfter
  <1>3. Answered(t) \/ (world.group_cb /\ FoundAsGroup(t))
    <2>1. CASE \E r \in Elements(targets.repo) : r.targ = t
      BY <1>1, <1>2, <2>1 DEF RepoAnswered, Pending, Elements
    <2>2. CASE t \in Elements(targets.pkgbuild)
      BY <1>1, <1>2, <2>2 DEF PkgbuildAnswered, Pending, Elements
    <2>3. CASE InAur(t) /\ t.pkg \in Elements(targets.aur)
      BY <1>1, <1>2, <2>3 DEF AurAnswered, Pending, Elements
    <2>4. CASE ReportedMissing(t) \/ (~ world.is_target /\ AssumeInstalled(t.pkg))
      BY <2>4 DEF Answered
    <2> QED
      BY <1>1, <2>1, <2>2, <2>3, <2>4 DEF IsFiled
  <1>4. \A p : Planned(p) => Taken(p)
    BY PlanMeans DEF Planned, Taken
  <1> QED
    BY <1>3, <1>4 DEF Answered

(* Every request is answered in the finished plan by what it asks for,     *)
(* from the place it names, unneeded, reported missing as it was written   *)
(* or, for a dependency, there already: none is lost between split_targets *)
(* and the three resolve_*_target functions.                               *)
THEOREM AllAnswered == Spec => []RequestsAnswered
  BY DoneAnswered, AnswersKept, PTL
=============================================================================
