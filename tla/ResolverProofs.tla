--------------------------- MODULE ResolverProofs --------------------------
(***************************************************************************)
(* Resolver, for every set of worlds.                                      *)
(***************************************************************************)
EXTENDS ResolverProperties, FiniteSetTheorems, TLAPS

-----------------------------------------------------------------------------
(* The catalog: what a lookup finds is in the list it looks in. *)

LEMMA WorldTypes ==
    ASSUME world \in World
    PROVE  /\ world.deps \in Seq(Targ) /\ world.make_deps \in Seq(Targ)
           /\ world.is_target \in BOOLEAN
           /\ world.local \in SUBSET PackageOf("local")
           /\ world.repos \in Seq(PackageOf("repo"))
           /\ world.pkgbuilds \in Seq(PackageOf("pkgbuild"))
           /\ world.aur \in Seq(PackageOf("aur"))
           /\ world.cached \in SUBSET PackageOf("aur")
  BY DEF World

LEMMA PackageOfType ==
    ASSUME NEW src PROVE PackageOf(src) \subseteq Package /\ \A p \in PackageOf(src) : p.src = src
  BY DEF PackageOf

LEMMA DbsSatisfiersFound ==
    ASSUME NEW d PROVE DbsSatisfiers(d) \subseteq Elements(world.repos)
  BY DEF DbsSatisfiers, First, Elements

LEMMA RepoFound ==
    /\ \A d : FindRepoSatisfier(d) \subseteq Elements(world.repos)
    /\ \A t : FindRepoTargetSatisfier(t) \subseteq Elements(world.repos)
  <1>1. \A d : FindRepoSatisfier(d) \subseteq Elements(world.repos)
    BY DbsSatisfiersFound DEF FindRepoSatisfier
  <1>2. \A t : FindRepoTargetSatisfier(t) \subseteq Elements(world.repos)
    BY DbsSatisfiersFound DEF FindRepoTargetSatisfier, First, Elements
  <1> QED
    BY <1>1, <1>2

LEMMA PkgbuildFound ==
    ASSUME NEW r, NEW d
    PROVE  FindPkgbuildRepoDep(r, d) \subseteq Elements(world.pkgbuilds)
  BY DEF FindPkgbuildRepoDep, First, Elements

LEMMA AurFound ==
    ASSUME NEW d, NEW t
    PROVE  SelectSatisfierAurCache(d, t) \subseteq Elements(world.aur)
  <1>1. FindSatisfierAurCache(d) \subseteq Elements(world.aur)
    BY DEF FindSatisfierAurCache, First, Elements
  <1> QED
    BY <1>1 DEF SelectSatisfierAurCache, First, Elements

LEMMA ElementsType ==
    ASSUME NEW T, NEW s \in Seq(T)
    PROVE  Elements(s) \subseteq T
  BY DEF Elements

(* Every package a lookup returns comes from where it was looked up. *)
LEMMA PackagesFound ==
    ASSUME world \in World
    PROVE  /\ \A d : FindRepoSatisfier(d) \subseteq PackageOf("repo")
           /\ \A t : FindRepoTargetSatisfier(t) \subseteq PackageOf("repo")
           /\ \A r, d : FindPkgbuildRepoDep(r, d) \subseteq PackageOf("pkgbuild")
           /\ \A d, t : SelectSatisfierAurCache(d, t) \subseteq PackageOf("aur")
           /\ Elements(world.aur) \subseteq PackageOf("aur")
  <1>1. /\ Elements(world.repos) \subseteq PackageOf("repo")
        /\ Elements(world.pkgbuilds) \subseteq PackageOf("pkgbuild")
        /\ Elements(world.aur) \subseteq PackageOf("aur")
    BY WorldTypes, ElementsType
  <1> QED
    BY <1>1, RepoFound, PkgbuildFound, AurFound

LEMMA DependsType ==
    ASSUME NEW p \in Package
    PROVE  Depends(p) \in Seq(Dep)
  <1>1. /\ p.depends \in Seq(Dep) /\ p.gdepends \in Seq(Dep)
        /\ p.makedepends \in Seq(Dep) /\ p.checkdepends \in Seq(Dep)
    BY DEF Package
  <1>2. << >> \in Seq(Dep)
    OBVIOUS
  <1>3. (IF Flag("CHECK_DEPENDS") THEN p.checkdepends ELSE << >>) \in Seq(Dep)
    BY <1>1, <1>2
  <1>4. p.makedepends \o (IF Flag("CHECK_DEPENDS") THEN p.checkdepends ELSE << >>)
        \o p.gdepends \o p.depends \in Seq(Dep)
    BY <1>1, <1>3
  <1> QED
    BY <1>1, <1>2, <1>4 DEF Depends

LEMMA NewFrameType ==
    ASSUME NEW p \in Package, NEW d \in Dep,
           NEW make \in BOOLEAN, NEW submake \in BOOLEAN, NEW target \in BOOLEAN
    PROVE  NewFrame(p, d, make, submake, target) \in Frame
  BY DependsType DEF NewFrame, Frame

-----------------------------------------------------------------------------
(* The stack. *)

LEMMA TopType ==
    ASSUME stack \in Seq(Frame), stack # << >>
    PROVE  /\ Len(stack) \in Nat \ {0} /\ Len(stack) \in DOMAIN stack
           /\ Top \in Frame
           /\ Top.pkg \in Package /\ Top.todo \in Seq(Dep)
           /\ Top.make \in BOOLEAN /\ Top.submake \in BOOLEAN /\ Top.target \in BOOLEAN
           /\ Top.todo # << >> => Current \in Dep /\ Tail(Top.todo) \in Seq(Dep)
  <1>1. Len(stack) \in Nat \ {0} /\ Len(stack) \in DOMAIN stack
    OBVIOUS
  <1>2. Top \in Frame
    BY <1>1 DEF Top
  <1>3. /\ Top.pkg \in Package /\ Top.todo \in Seq(Dep)
        /\ Top.make \in BOOLEAN /\ Top.submake \in BOOLEAN /\ Top.target \in BOOLEAN
    BY <1>2 DEF Frame
  <1> QED
    BY <1>1, <1>2, <1>3 DEF Current

(* Advancing touches the dependencies the top frame has left, no more. *)
LEMMA AdvancedType ==
    ASSUME stack \in Seq(Frame), stack # << >>, Top.todo # << >>
    PROVE  /\ Advanced \in Seq(Frame)
           /\ Len(Advanced) = Len(stack)
           /\ DOMAIN Advanced = DOMAIN stack
           /\ \A i \in DOMAIN stack :
                  /\ Advanced[i].pkg = stack[i].pkg /\ Advanced[i].dep = stack[i].dep
                  /\ Advanced[i].make = stack[i].make /\ Advanced[i].submake = stack[i].submake
                  /\ Advanced[i].target = stack[i].target
                  /\ i # Len(stack) => Advanced[i].todo = stack[i].todo
           /\ Advanced[Len(stack)].todo = Tail(Top.todo)
  <1> DEFINE f == [Top EXCEPT !.todo = Tail(@)]
  <1>1. f \in Frame
    BY TopType DEF Frame
  <1>2. Advanced = [stack EXCEPT ![Len(stack)] = f]
    BY DEF Advanced, Top
  <1>3. Advanced \in Seq(Frame) /\ Len(Advanced) = Len(stack) /\ DOMAIN Advanced = DOMAIN stack
    BY <1>1, <1>2, TopType
  <1>4. /\ f.pkg = Top.pkg /\ f.dep = Top.dep /\ f.make = Top.make /\ f.submake = Top.submake
        /\ f.target = Top.target /\ f.todo = Tail(Top.todo)
    BY TopType DEF Frame
  <1>5. \A i \in DOMAIN stack : Advanced[i] = IF i = Len(stack) THEN f ELSE stack[i]
    BY <1>2
  <1> QED
    BY <1>3, <1>4, <1>5, TopType DEF Top

LEMMA PushedType ==
    ASSUME stack \in Seq(Frame), stack # << >>, Top.todo # << >>, NEW f \in Frame
    PROVE  Append(Advanced, f) \in Seq(Frame)
  BY AdvancedType

LEMMA PoppedType ==
    ASSUME stack \in Seq(Frame), stack # << >>
    PROVE  /\ Popped \in Seq(Frame)
           /\ Len(Popped) = Len(stack) - 1
           /\ \A i \in 1 .. Len(stack) - 1 : Popped[i] = stack[i]
  <1>1. Len(stack) - 1 \in Nat /\ Len(stack) - 1 <= Len(stack)
    BY TopType
  <1>2. \A i \in 1 .. Len(stack) - 1 : stack[i] \in Frame
    BY <1>1
  <1>3. Popped = [i \in 1 .. Len(stack) - 1 |-> stack[i]]
    BY <1>1 DEF Popped
  <1> QED
    BY <1>1, <1>2, <1>3

LEMMA PathType ==
    ASSUME stack \in Seq(Frame)
    PROVE  Path \in Seq([pkg : Name, dep : Dep])
  <1>1. ASSUME NEW i \in 1 .. Len(stack)
        PROVE  stack[i].pkg.name \in Name /\ stack[i].dep \in Dep
    <2>1. stack[i] \in Frame
      OBVIOUS
    <2>2. stack[i].pkg \in Package /\ stack[i].dep \in Dep
      BY <2>1 DEF Frame
    <2> QED
      BY <2>2 DEF Package
  <1> QED
    BY <1>1 DEF Path

LEMMA EntryType ==
    ASSUME stack \in Seq(Frame), stack # << >>
    PROVE  [pkg |-> Top.pkg, make |-> Top.make, target |-> Top.target] \in Entry
  BY TopType DEF Entry

(* What a push makes of the plan. *)
LEMMA PushBuildType ==
    ASSUME build \in Seq(Base), NEW e \in Entry, e.pkg.src \in ToBuild
    PROVE  PushBuild(e) \in Seq(Base)
  <1> DEFINE new == [ src |-> e.pkg.src, repo |-> e.pkg.repo, base |-> e.pkg.base,
                      pkgs |-> <<e>>,
                      build |-> \A b \in Elements(build) : ~ (b.src = e.pkg.src /\ b.base = e.pkg.base) ]
              last == [build[Len(build)] EXCEPT !.pkgs = Append(@, e)]
  <1>1. new \in Base
    <2>1. e.pkg \in Package
      BY DEF Entry
    <2>2. e.pkg.repo \in RepoName \cup {NoRepo} /\ e.pkg.base \in Name
      BY <2>1 DEF Package
    <2>3. <<e>> \in Seq(Entry)
      OBVIOUS
    <2> QED
      BY <2>2, <2>3 DEF Base, ToBuild
  <1>2. ASSUME build # << >> PROVE last \in Base /\ Len(build) \in DOMAIN build
    <2>1. Len(build) \in DOMAIN build /\ build[Len(build)] \in Base
      BY <1>2
    <2>2. build[Len(build)].pkgs \in Seq(Entry)
      BY <2>1 DEF Base
    <2>3. Append(build[Len(build)].pkgs, e) \in Seq(Entry)
      BY <2>2
    <2> QED
      BY <2>1, <2>3 DEF Base
  <1>3. build # << >> => [build EXCEPT ![Len(build)].pkgs = Append(@, e)]
                          = [build EXCEPT ![Len(build)] = last]
    OBVIOUS
  <1>4. build # << >> => [build EXCEPT ![Len(build)] = last] \in Seq(Base)
    BY <1>2
  <1>5. Append(build, new) \in Seq(Base)
    BY <1>1
  <1> QED
    BY <1>3, <1>4, <1>5 DEF PushBuild

-----------------------------------------------------------------------------
(* The requests. *)

LEMMA RequestType ==
    ASSUME world \in World
    PROVE  /\ Requested \in Seq(Targ)
           /\ next \in DOMAIN Requested => Request \in Targ /\ Request.pkg \in Dep
  <1>1. Requested \in Seq(Targ)
    BY WorldTypes DEF Requested
  <1>2. next \in DOMAIN Requested => Request \in Targ
    BY <1>1 DEF Request
  <1> QED
    BY <1>1, <1>2 DEF Targ

LEMMA GroupPicksType ==
    ASSUME world \in World, NEW t, NEW g \in GroupPicks(t)
    PROVE  /\ g \in Seq(Nat)
           /\ \A i \in 1 .. Len(g) : world.repos[g[i]] \in PackageOf("repo")
  <1> DEFINE members == GroupMembers(t)
  <1>1. members \subseteq 1 .. Len(world.repos) /\ Len(world.repos) \in Nat
    BY WorldTypes DEF GroupMembers
  <1>2. Cardinality(members) \in Nat
    <2>1. IsFiniteSet(1 .. Len(world.repos))
      BY <1>1, FS_Interval
    <2>2. IsFiniteSet(members)
      BY <1>1, <2>1, FS_Subset
    <2> QED
      BY <2>2, FS_CardinalityType
  <1>3. PICK n \in 0 .. Cardinality(members) : g \in [1 .. n -> members]
    BY DEF GroupPicks
  <1>4. n \in Nat
    BY <1>2, <1>3
  <1>5. g \in Seq(members)
    BY <1>3, <1>4
  <1>6. \A k \in members : k \in Nat /\ world.repos[k] \in PackageOf("repo")
    BY <1>1, WorldTypes
  <1> QED
    BY <1>3, <1>4, <1>5, <1>6

LEMMA TargetsType ==
    ASSUME targets \in Targets
    PROVE  /\ targets.repo \in Seq([targ : Targ, pkg : PackageOf("repo")])
           /\ targets.pkgbuild \in Seq(Targ)
           /\ targets.aur \in Seq(Dep)
           /\ next \in DOMAIN targets.repo =>
                  /\ RepoRequest.pkg \in PackageOf("repo")
                  /\ RepoRequest.targ \in Targ /\ RepoRequest.targ.pkg \in Dep
           /\ next \in DOMAIN targets.pkgbuild =>
                  PkgbuildRequest \in Targ /\ PkgbuildRequest.pkg \in Dep
           /\ next \in DOMAIN targets.aur => AurRequest \in Dep
  <1>1. /\ targets.repo \in Seq([targ : Targ, pkg : PackageOf("repo")])
        /\ targets.pkgbuild \in Seq(Targ)
        /\ targets.aur \in Seq(Dep)
    BY DEF Targets
  <1>2. ASSUME next \in DOMAIN targets.repo
        PROVE  /\ RepoRequest.pkg \in PackageOf("repo")
               /\ RepoRequest.targ \in Targ /\ RepoRequest.targ.pkg \in Dep
    <2>1. RepoRequest \in Elements(targets.repo)
      BY <1>2 DEF RepoRequest, Elements
    <2>2. RepoRequest \in [targ : Targ, pkg : PackageOf("repo")]
      BY <1>1, <2>1, ElementsType
    <2>3. RepoRequest.targ \in Targ /\ RepoRequest.pkg \in PackageOf("repo")
      BY <2>2
    <2> QED
      BY <2>3 DEF Targ
  <1>3. ASSUME next \in DOMAIN targets.pkgbuild
        PROVE  PkgbuildRequest \in Targ /\ PkgbuildRequest.pkg \in Dep
    <2>1. PkgbuildRequest \in Targ
      BY <1>1, <1>3 DEF PkgbuildRequest
    <2> QED
      BY <2>1 DEF Targ
  <1>4. next \in DOMAIN targets.aur => AurRequest \in Dep
    BY <1>1 DEF AurRequest
  <1> QED
    BY <1>1, <1>2, <1>3, <1>4

-----------------------------------------------------------------------------
(* Type correctness, group of actions by group of actions. *)

(* A resolver as Resolver::new makes it, whatever cache it is given.       *)
Fresh ==
    /\ world \in World
    /\ cache \subseteq Elements(world.aur)
    /\ phase = "split" /\ next = 1
    /\ targets = [repo |-> << >>, pkgbuild |-> << >>, aur |-> << >>]
    /\ seen = {} /\ seen_target = {} /\ resolved = {}
    /\ stack = << >>
    /\ missing = << >> /\ unneeded = << >> /\ build = << >> /\ install = << >>

LEMMA InitFresh == Init => Fresh
  <1> SUFFICES ASSUME Init PROVE world \in World /\ cache \subseteq Elements(world.aur)
    BY DEF Init, Fresh
  <1> QED
    BY WorldsAssumption, CachedAssumption DEF Init

LEMMA InitTypeOK == Fresh => TypeOK
  <1> SUFFICES ASSUME Fresh PROVE TypeOK
    OBVIOUS
  <1>1. world \in World
    BY DEF Fresh
  <1>2. cache \in SUBSET PackageOf("aur")
    BY <1>1, WorldTypes, ElementsType DEF Fresh
  <1>3. targets \in Targets
    BY DEF Fresh, Targets
  <1> QED
    BY <1>1, <1>2, <1>3 DEF Fresh, TypeOK, Phase

LEMMA SplitTypeOK ==
    ASSUME TypeOK, Split
    PROVE  TypeOK'
  <1> USE DEF TypeOK, Splitting, inputs, marks
  <1>0. /\ Request \in Targ \/ next \notin DOMAIN Requested
        /\ Request.pkg \in Dep \/ next \notin DOMAIN Requested
    BY RequestType
  <1>1. CASE SplitAssumed
    BY <1>1 DEF SplitAssumed
  <1>2. CASE SplitRepo
    <2>1. PICK p \in FindRepoTargetSatisfier(Request) :
              targets' = [targets EXCEPT !.repo = Append(@, [targ |-> Request, pkg |-> p])]
      BY <1>2 DEF SplitRepo
    <2>2. [targ |-> Request, pkg |-> p] \in [targ : Targ, pkg : PackageOf("repo")]
      BY <1>0, <1>2, <2>1, PackagesFound DEF SplitRepo
    <2>3. Append(targets.repo, [targ |-> Request, pkg |-> p]) \in Seq([targ : Targ, pkg : PackageOf("repo")])
      BY <2>2, TargetsType
    <2>4. targets' \in Targets
      BY <2>1, <2>3 DEF Targets
    <2> QED
      BY <1>2, <2>4 DEF SplitRepo
  <1>3. CASE SplitGroup
    <2>1. PICK g \in GroupPicks(Request) :
              targets' = [targets EXCEPT !.repo =
                  @ \o [i \in 1 .. Len(g) |-> [targ |-> Request, pkg |-> world.repos[g[i]]]]]
      BY <1>3 DEF SplitGroup
    <2> DEFINE more == [i \in 1 .. Len(g) |-> [targ |-> Request, pkg |-> world.repos[g[i]]]]
    <2>2. more \in Seq([targ : Targ, pkg : PackageOf("repo")])
      <3>1. Len(g) \in Nat /\ \A i \in 1 .. Len(g) : world.repos[g[i]] \in PackageOf("repo")
        BY GroupPicksType
      <3>2. \A i \in 1 .. Len(g) :
                [targ |-> Request, pkg |-> world.repos[g[i]]] \in [targ : Targ, pkg : PackageOf("repo")]
        BY <1>0, <1>3, <3>1 DEF SplitGroup
      <3> QED
        BY <3>1, <3>2
    <2>3. targets.repo \o more \in Seq([targ : Targ, pkg : PackageOf("repo")])
      BY <2>2, TargetsType
    <2>4. targets' \in Targets
      BY <2>1, <2>3 DEF Targets
    <2> QED
      BY <1>3, <2>4 DEF SplitGroup
  <1>4. CASE SplitPkgbuild
    <2>1. Append(targets.pkgbuild, Request) \in Seq(Targ)
      BY <1>0, <1>4, TargetsType DEF SplitPkgbuild
    <2>2. targets' \in Targets
      BY <1>4, <2>1 DEF SplitPkgbuild, Targets
    <2> QED
      BY <1>4, <2>2 DEF SplitPkgbuild
  <1>5. CASE SplitAur
    <2>1. Append(targets.aur, Request.pkg) \in Seq(Dep)
      BY <1>0, <1>5, TargetsType DEF SplitAur
    <2>2. targets' \in Targets
      BY <1>5, <2>1 DEF SplitAur, Targets
    <2> QED
      BY <1>5, <2>2 DEF SplitAur
  <1>6. CASE SplitMissing
    <2>1. [repo |-> Request.repo, dep |-> Request.pkg, stack |-> << >>] \in Missing
      BY <1>0, <1>6 DEF SplitMissing, Missing, Targ
    <2> QED
      BY <1>6, <2>1 DEF SplitMissing
  <1>7. CASE SplitDone
    BY <1>7 DEF SplitDone, Enter, Phase
  <1> QED
    BY <1>1, <1>2, <1>3, <1>4, <1>5, <1>6, <1>7 DEF Split

LEMMA PhaseTypeOK ==
    ASSUME TypeOK,
           FillCache \/ FailCache \/ RepoTargetsDone \/ PkgbuildTargetsDone \/ AurTargetsDone
           \/ KeepMake
    PROVE  TypeOK'
  <1>1. \A S \in SUBSET Elements(world.aur) : cache \cup S \in SUBSET PackageOf("aur")
    BY PackagesFound DEF TypeOK
  <1>2. cache' \in SUBSET PackageOf("aur")
    BY <1>1 DEF TypeOK, FillCache, FailCache, RepoTargetsDone, PkgbuildTargetsDone,
                AurTargetsDone, KeepMake
  <1> QED
    BY <1>2 DEF TypeOK, FillCache, FailCache, RepoTargetsDone, PkgbuildTargetsDone,
                AurTargetsDone, KeepMake, Enter, marks, Phase

LEMMA RemarkType ==
    ASSUME NEW P \in SUBSET Package,
           NEW list \in Seq([pkg : P, make : BOOLEAN, target : BOOLEAN])
    PROVE  /\ Remark(list) \in Seq([pkg : P, make : BOOLEAN, target : BOOLEAN])
           /\ Len(Remark(list)) = Len(list) /\ DOMAIN Remark(list) = DOMAIN list
           /\ \A i \in DOMAIN list : /\ Remark(list)[i].pkg = list[i].pkg
                                     /\ Remark(list)[i].target = list[i].target
                                     /\ Remark(list)[i].make => list[i].make
  <1> DEFINE E == [pkg : P, make : BOOLEAN, target : BOOLEAN]
             new(i) == [list[i] EXCEPT !.make = StillMake(list[i])]
  <1>0. list \in Seq(E)
    OBVIOUS
  <1>1. ASSUME NEW i \in DOMAIN list
        PROVE  /\ new(i) \in E /\ new(i).pkg = list[i].pkg /\ new(i).target = list[i].target
               /\ new(i).make => list[i].make
    <2>1. list[i] \in E
      BY ONLY <1>0, i \in DOMAIN list, ElementsType DEF Elements
    <2>2. StillMake(list[i]) \in BOOLEAN /\ (StillMake(list[i]) => list[i].make)
      BY DEF StillMake
    <2> QED
      BY <2>1, <2>2
  <1>2. Remark(list) = [i \in DOMAIN list |-> new(i)]
    BY DEF Remark
  <1> HIDE DEF new, E
  <1>4. /\ Remark(list) \in Seq(E) /\ Len(Remark(list)) = Len(list)
        /\ DOMAIN Remark(list) = DOMAIN list
    BY <1>0, <1>1, <1>2
  <1> QED
    BY <1>1, <1>2, <1>4 DEF E

LEMMA CalculateMakeTypeOK ==
    ASSUME TypeOK, CalculateMake
    PROVE  TypeOK'
  <1>1. install' \in Seq([pkg : PackageOf("repo"), make : BOOLEAN, target : BOOLEAN])
    BY RemarkType, PackageOfType DEF CalculateMake, TypeOK
  <1>2. build' \in Seq(Base)
    <2>1. ASSUME NEW i \in DOMAIN build
          PROVE  [build[i] EXCEPT !.pkgs = Remark(@)] \in Base
      <3>1. build[i] \in Base
        BY DEF TypeOK
      <3>2. build[i].pkgs \in Seq(Entry)
        BY <3>1 DEF Base
      <3>3. Remark(build[i].pkgs) \in Seq(Entry)
        BY <3>2, RemarkType DEF Entry
      <3> QED
        BY <3>1, <3>3 DEF Base
    <2>2. build \in Seq(Base)
      BY DEF TypeOK
    <2>3. [i \in DOMAIN build |-> [build[i] EXCEPT !.pkgs = Remark(@)]] \in Seq(Base)
      BY <2>1, <2>2
    <2> QED
      BY <2>3 DEF CalculateMake
  <1> QED
    BY <1>1, <1>2 DEF CalculateMake, TypeOK, Enter, marks, Phase

(* A new frame's marks and package have their types. *)
LEMMA FrameTypes ==
    ASSUME TypeOK
    PROVE  /\ \A d : IsMake(d) \in BOOLEAN
           /\ \A p \in Package, d \in Dep, make, submake, target \in BOOLEAN :
                  <<NewFrame(p, d, make, submake, target)>> \in Seq(Frame)
           /\ world.is_target \in BOOLEAN
           /\ Path \in Seq([pkg : Name, dep : Dep])
           /\ \A d \in Dep : [repo |-> NoRepo, dep |-> d, stack |-> Path] \in Missing
  <1>1. \A d : IsMake(d) \in BOOLEAN
    BY DEF IsMake
  <1>2. \A p \in Package, d \in Dep, make, submake, target \in BOOLEAN :
            <<NewFrame(p, d, make, submake, target)>> \in Seq(Frame)
    BY NewFrameType
  <1>3. world.is_target \in BOOLEAN
    BY WorldTypes DEF TypeOK
  <1>4. Path \in Seq([pkg : Name, dep : Dep])
    BY PathType DEF TypeOK
  <1>5. \A d \in Dep : [repo |-> NoRepo, dep |-> d, stack |-> Path] \in Missing
    BY <1>4 DEF Missing
  <1> QED
    BY <1>1, <1>2, <1>3, <1>4, <1>5

LEMMA TargetTypeOK ==
    ASSUME TypeOK,
           \/ RepoTargetSkipped \/ RepoTargetUnneeded \/ RepoTarget
           \/ PkgbuildTargetSkipped \/ PkgbuildTargetUnneeded \/ PkgbuildTarget
           \/ AurTargetSkipped \/ AurTargetMissing \/ AurTargetUnneeded \/ AurTarget
    PROVE  TypeOK'
  <1> USE DEF TypeOK, Targeting, TargetingAur, inputs, marks
  <1>0. \A t \in Targ : \A n : \A q \in UpToDate(n) : [targ |-> t, ver |-> q.ver] \in Unneeded
    <2>1. \A n : UpToDate(n) \subseteq Package
      BY WorldTypes, PackageOfType DEF UpToDate
    <2>2. \A q \in Package : q.ver \in Nat
      BY DEF Package
    <2> QED
      BY <2>1, <2>2 DEF Unneeded
  <1>1. CASE RepoTargetSkipped
    BY <1>1 DEF RepoTargetSkipped
  <1>2. CASE RepoTargetUnneeded
    <2>1. RepoRequest.targ \in Targ
      BY <1>2, TargetsType DEF RepoTargetUnneeded
    <2>2. unneeded' \in Seq(Unneeded)
      BY <1>0, <1>2, <2>1 DEF RepoTargetUnneeded
    <2> QED
      BY <1>2, <2>2 DEF RepoTargetUnneeded
  <1>3. CASE RepoTarget
    <2>1. RepoRequest.pkg \in PackageOf("repo") /\ RepoRequest.targ.pkg \in Dep
      BY <1>3, TargetsType DEF RepoTarget
    <2>2. RepoRequest.pkg.name \in Name
      BY <2>1, PackageOfType DEF Package
    <2>3. stack' \in Seq(Frame)
      BY <1>3, <2>1, FrameTypes, PackageOfType DEF RepoTarget
    <2>4. seen' \in SUBSET Name
      BY <1>3, <2>2 DEF RepoTarget
    <2>5. /\ next' = next + 1
          /\ UNCHANGED <<inputs, phase, targets, seen_target, resolved, missing, unneeded,
                         build, install>>
      BY <1>3 DEF RepoTarget
    <2> QED
      BY <2>3, <2>4, <2>5
  <1>4. CASE PkgbuildTargetSkipped
    BY <1>4 DEF PkgbuildTargetSkipped
  <1>5. CASE PkgbuildTargetUnneeded
    <2>1. PkgbuildRequest \in Targ
      BY <1>5, TargetsType DEF PkgbuildTargetUnneeded
    <2>2. unneeded' \in Seq(Unneeded)
      BY <1>0, <1>5, <2>1 DEF PkgbuildTargetUnneeded, NotNeeded
    <2> QED
      BY <1>5, <2>2 DEF PkgbuildTargetUnneeded
  <1>6. CASE PkgbuildTarget
    <2>1. PkgbuildRequest.pkg \in Dep
      BY <1>6, TargetsType DEF PkgbuildTarget
    <2>2. PICK p \in FindPkgbuildRepoDep(PkgbuildRequest.repo, PkgbuildRequest.pkg) :
              stack' = <<NewFrame(p, PkgbuildRequest.pkg, FALSE,
                                  IsMake(PkgbuildRequest.pkg), world.is_target)>>
      BY <1>6 DEF PkgbuildTarget
    <2>3. stack' \in Seq(Frame)
      BY <2>1, <2>2, FrameTypes, PackagesFound, PackageOfType
    <2>4. /\ next' = next + 1
          /\ UNCHANGED <<inputs, phase, targets, marks, missing, unneeded, build, install>>
      BY <1>6 DEF PkgbuildTarget
    <2> QED
      BY <2>3, <2>4
  <1>7. AurTargetSkipped \/ AurTargetMissing \/ AurTargetUnneeded \/ AurTarget
            => AurRequest \in Dep
    BY TargetsType DEF AurTargetSkipped, AurTargetMissing, AurTargetUnneeded, AurTarget
  <1>8. CASE AurTargetSkipped
    BY <1>7, <1>8 DEF AurTargetSkipped
  <1>9. CASE AurTargetMissing
    <2>1. missing' \in Seq(Missing)
      BY <1>7, <1>9, FrameTypes DEF AurTargetMissing
    <2> QED
      BY <1>7, <1>9, <2>1 DEF AurTargetMissing
  <1>10. CASE AurTargetUnneeded
    <2>1. [repo |-> NoRepo, pkg |-> AurRequest] \in Targ
      BY <1>7, <1>10 DEF Targ
    <2>2. unneeded' \in Seq(Unneeded)
      BY <1>0, <1>10, <2>1 DEF AurTargetUnneeded, NotNeeded
    <2> QED
      BY <1>7, <1>10, <2>2 DEF AurTargetUnneeded
  <1>11. CASE AurTarget
    <2>1. PICK p \in SelectSatisfierAurCache(AurRequest, world.is_target) :
              stack' = <<NewFrame(p, AurRequest, FALSE, IsMake(AurRequest), world.is_target)>>
      BY <1>11 DEF AurTarget
    <2>2. stack' \in Seq(Frame)
      BY <1>7, <1>11, <2>1, FrameTypes, PackagesFound, PackageOfType
    <2>3. /\ next' = next + 1
          /\ seen_target' = seen_target \cup {AurRequest}
          /\ UNCHANGED <<inputs, phase, targets, seen, resolved, missing, unneeded, build, install>>
      BY <1>11 DEF AurTarget
    <2> QED
      BY <1>7, <1>11, <2>2, <2>3
  <1> QED
    BY <1>1, <1>2, <1>3, <1>4, <1>5, <1>6, <1>8, <1>9, <1>10, <1>11

(* A package entered for a dependency gets a frame above the advanced top. *)
LEMMA EnteredType ==
    ASSUME TypeOK, stack # << >>, Top.todo # << >>,
           NEW p \in Package, NEW make \in BOOLEAN
    PROVE  /\ Advanced \in Seq(Frame)
           /\ Append(Advanced, NewFrame(p, Current, make, TRUE, FALSE)) \in Seq(Frame)
           /\ EnterRepoPkg(p, Current) => seen' \in SUBSET Name /\ stack' \in Seq(Frame)
  <1>1. Current \in Dep
    BY TopType DEF TypeOK
  <1>2. Advanced \in Seq(Frame)
    BY AdvancedType DEF TypeOK
  <1>3. ASSUME NEW m \in BOOLEAN
        PROVE  Append(Advanced, NewFrame(p, Current, m, TRUE, FALSE)) \in Seq(Frame)
    <2>1. NewFrame(p, Current, m, TRUE, FALSE) \in Frame
      BY <1>1, NewFrameType
    <2>2. \A f \in Frame : Append(Advanced, f) \in Seq(Frame)
      BY <1>2
    <2> QED
      BY <2>1, <2>2
  <1>4. p.name \in Name
    BY DEF Package
  <1> QED
    BY <1>2, <1>3, <1>4 DEF EnterRepoPkg, TypeOK

LEMMA RecurseTypeOK ==
    ASSUME TypeOK, Recurse
    PROVE  TypeOK'
  <1> USE DEF TypeOK, Resolving, inputs, control
  <1>0. stack # << >> /\ Top.todo # << >> => Current \in Dep /\ Top.submake \in BOOLEAN
    BY TopType
  <1>1. CASE BuildDepDone
    BY <1>1, AdvancedType DEF BuildDepDone
  <1>2. CASE BuildDepInstalled
    BY <1>0, <1>2, AdvancedType DEF BuildDepInstalled
  <1>3. CASE BuildDepFromRepo
    <2>1. PICK p \in FromRepo(Current) :
              IF SatisfiedLocal(Current) THEN stack' = Advanced /\ seen' = seen
                                         ELSE EnterRepoPkg(p, Current)
      BY <1>3 DEF BuildDepFromRepo
    <2>2. p \in Package
      BY <2>1, PackagesFound, PackageOfType DEF FromRepo
    <2>3. stack' \in Seq(Frame) /\ seen' \in SUBSET Name
      BY <1>3, <2>1, <2>2, EnteredType DEF BuildDepFromRepo
    <2> QED
      BY <1>0, <1>3, <2>3 DEF BuildDepFromRepo
  <1>4. CASE BuildDepFromPkgbuild
    <2>1. PICK p \in FindPkgbuildRepoDep(NoRepo, Current) :
              stack' = Append(Advanced, NewFrame(p, Current, Top.submake, TRUE, FALSE))
      BY <1>4 DEF BuildDepFromPkgbuild
    <2>2. p \in Package
      BY <2>1, PackagesFound, PackageOfType
    <2>3. stack' \in Seq(Frame)
      BY <1>0, <1>4, <2>1, <2>2, EnteredType DEF BuildDepFromPkgbuild
    <2> QED
      BY <1>0, <1>4, <2>3 DEF BuildDepFromPkgbuild
  <1>5. CASE BuildDepFromAur
    <2>1. PICK p \in SelectSatisfierAurCache(Current, FALSE) :
              stack' = Append(Advanced, NewFrame(p, Current, Top.submake, TRUE, FALSE))
      BY <1>5 DEF BuildDepFromAur
    <2>2. p \in Package
      BY <2>1, PackagesFound, PackageOfType
    <2>3. stack' \in Seq(Frame)
      BY <1>0, <1>5, <2>1, <2>2, EnteredType DEF BuildDepFromAur
    <2> QED
      BY <1>0, <1>5, <2>3 DEF BuildDepFromAur
  <1>6. CASE BuildDepMissing
    <2>1. missing' \in Seq(Missing)
      BY <1>0, <1>6, FrameTypes DEF BuildDepMissing
    <2> QED
      BY <1>0, <1>6, <2>1, AdvancedType DEF BuildDepMissing
  <1>7. CASE FinishBuild
    <2>1. PushBuild([pkg |-> Top.pkg, make |-> Top.make, target |-> Top.target]) \in Seq(Base)
      BY <1>7, EntryType, PushBuildType DEF FinishBuild
    <2>2. build' \in Seq(Base)
      BY <1>7, <2>1 DEF FinishBuild
    <2> QED
      BY <1>7, <2>2, PoppedType DEF FinishBuild, marks
  <1>8. CASE RepoDepSatisfied
    BY <1>8, AdvancedType DEF RepoDepSatisfied
  <1>9. CASE RepoDepFromRepo
    <2>1. stack' \in Seq(Frame) /\ seen' \in SUBSET Name
      BY <1>9, PackagesFound, PackageOfType, EnteredType DEF RepoDepFromRepo
    <2> QED
      BY <1>9, <2>1 DEF RepoDepFromRepo
  <1>10. CASE RepoDepMissing
    <2>1. missing' \in Seq(Missing)
      BY <1>0, <1>10, FrameTypes DEF RepoDepMissing
    <2> QED
      BY <1>10, <2>1, AdvancedType DEF RepoDepMissing
  <1>11. CASE FinishRepo
    <2>1. Top.pkg \in PackageOf("repo")
      BY <1>11, TopType DEF FinishRepo, PackageOf
    <2>2. [pkg |-> Top.pkg, make |-> Top.make, target |-> Top.target]
              \in [pkg : PackageOf("repo"), make : BOOLEAN, target : BOOLEAN]
      BY <1>11, <2>1, TopType DEF FinishRepo
    <2>3. install' \in Seq([pkg : PackageOf("repo"), make : BOOLEAN, target : BOOLEAN])
      BY <1>11, <2>2 DEF FinishRepo
    <2> QED
      BY <1>11, <2>3, PoppedType DEF FinishRepo, marks
  <1> QED
    BY <1>1, <1>2, <1>3, <1>4, <1>5, <1>6, <1>7, <1>8, <1>9, <1>10, <1>11 DEF Recurse

LEMMA NextTypeOK == TypeOK /\ [Next]_vars => TypeOK'
  <1> SUFFICES ASSUME TypeOK, [Next]_vars PROVE TypeOK'
    OBVIOUS
  <1>1. CASE Split
    BY <1>1, SplitTypeOK
  <1>2. CASE FillCache \/ FailCache \/ KeepMake
    BY <1>2, PhaseTypeOK
  <1>3. CASE Target
    BY <1>3, TargetTypeOK, PhaseTypeOK DEF Target
  <1>4. CASE Recurse
    BY <1>4, RecurseTypeOK
  <1>5. CASE CalculateMake
    BY <1>5, CalculateMakeTypeOK
  <1>6. CASE UNCHANGED vars
    BY <1>6 DEF TypeOK, vars, inputs, control, marks
  <1> QED
    BY <1>1, <1>2, <1>3, <1>4, <1>5, <1>6 DEF Next, Returned

(* Every variable keeps its type: of what a resolution reads, keeps and    *)
(* reports, only packages, dependencies and requests that exist get in,    *)
(* only AUR packages into the cache and only repo packages into install.   *)
THEOREM TypeCorrect == Spec => []TypeOK
  BY InitFresh, InitTypeOK, NextTypeOK, PTL DEF Spec

-----------------------------------------------------------------------------
(* The recursion enters nothing twice.  NoReentry and InstallOnce are not  *)
(* inductive: what keeps a second call out is that a name is in `seen`, or *)
(* a dependency in `resolved`, for as long as its frame is on the stack,   *)
(* and a name for as long as it is in the plan.                            *)

IsRepo(i)  == stack[i].pkg.src = "repo"
IsBuild(i) == stack[i].pkg.src \in ToBuild

FramesSource   == \A i \in DOMAIN stack : IsRepo(i) \/ IsBuild(i)
FramesSeen     == \A i \in DOMAIN stack : IsRepo(i) => stack[i].pkg.name \in seen
FramesResolved == \A i \in DOMAIN stack : IsBuild(i) /\ i > 1 => stack[i].dep \in resolved
InstallSeen    == \A i \in DOMAIN install : install[i].pkg.name \in seen

RepoFramesDiffer ==
    \A i, j \in DOMAIN stack : i < j /\ IsRepo(i) /\ IsRepo(j) =>
        stack[i].pkg.name # stack[j].pkg.name

BuildFramesDiffer ==
    \A i, j \in DOMAIN stack : 1 < i /\ i < j /\ IsBuild(i) /\ IsBuild(j) =>
        stack[i].dep # stack[j].dep

FramesNotInstalled ==
    \A i \in DOMAIN stack, j \in DOMAIN install :
        IsRepo(i) => stack[i].pkg.name # install[j].pkg.name

OnceInv ==
    /\ TypeOK
    /\ FramesSource /\ FramesSeen /\ FramesResolved /\ InstallSeen
    /\ RepoFramesDiffer /\ BuildFramesDiffer /\ FramesNotInstalled
    /\ InstallOnce

(* What a step does to the stack, to what it has entered and to install.   *)

SamePkgs == /\ DOMAIN install' = DOMAIN install
            /\ \A i \in DOMAIN install : install'[i].pkg = install[i].pkg

Stays == UNCHANGED <<stack, seen, resolved>> /\ SamePkgs

Enters(p) == p.src = "repo" /\ p.name \notin seen /\ seen' = seen \cup {p.name}

Opens(p, f) ==
    /\ stack = << >> /\ stack' = <<f>> /\ f.pkg = p
    /\ UNCHANGED <<resolved, install>>
    /\ Enters(p) \/ (p.src \in ToBuild /\ seen' = seen)

Advances ==
    /\ stack # << >> /\ Top.todo # << >> /\ stack' = Advanced
    /\ seen \subseteq seen' /\ resolved \subseteq resolved'
    /\ UNCHANGED install

Calls(p, f) ==
    /\ stack # << >> /\ Top.todo # << >>
    /\ stack' = Append(Advanced, f) /\ f.pkg = p /\ f.dep = Current
    /\ resolved \subseteq resolved' /\ UNCHANGED install
    /\ \/ Enters(p)
       \/ p.src \in ToBuild /\ Current \notin resolved /\ Current \in resolved' /\ seen' = seen

Returns ==
    /\ stack # << >> /\ stack' = Popped
    /\ UNCHANGED <<seen, resolved>>
    /\ \/ Top.pkg.src \in ToBuild /\ UNCHANGED install
       \/ /\ Top.pkg.src = "repo"
          /\ install' = Append(install, [pkg |-> Top.pkg, make |-> Top.make, target |-> Top.target])

LEMMA EnterKind ==
    ASSUME TypeOK, stack # << >>, Top.todo # << >>, resolved \subseteq resolved', UNCHANGED install,
           NEW p \in PackageOf("repo"), EnterRepoPkg(p, Current)
    PROVE  Advances \/ \E f : Calls(p, f)
  <1>1. p.src = "repo"
    BY PackageOfType
  <1>2. CASE p.name \in seen
    BY <1>2 DEF EnterRepoPkg, Advances
  <1>3. CASE p.name \notin seen
    <2> DEFINE f == NewFrame(p, Current, TRUE, TRUE, FALSE)
    <2>1. stack' = Append(Advanced, f) /\ seen' = seen \cup {p.name}
      BY <1>3 DEF EnterRepoPkg
    <2>2. f.pkg = p /\ f.dep = Current
      BY DEF NewFrame
    <2> HIDE DEF f
    <2> QED
      BY <1>1, <1>3, <2>1, <2>2 DEF Calls, Enters
  <1> QED
    BY <1>2, <1>3

(* A dependency that is entered was not resolved before. *)
LEMMA StepKind ==
    ASSUME TypeOK, Next
    PROVE  Stays \/ (\E p, f : Opens(p, f)) \/ Advances \/ (\E p, f : Calls(p, f)) \/ Returns
  <1> USE DEF inputs, control, marks
  <1>1. CASE Split \/ FillCache \/ FailCache \/ KeepMake \/ Returned
             \/ RepoTargetsDone \/ PkgbuildTargetsDone \/ AurTargetsDone
    BY <1>1 DEF Split, SplitAssumed, SplitRepo, SplitGroup, SplitPkgbuild, SplitAur, SplitMissing,
                SplitDone, FillCache, FailCache, KeepMake, Returned, RepoTargetsDone,
                PkgbuildTargetsDone, AurTargetsDone, Splitting, Enter, vars, Stays, SamePkgs
  <1>2. CASE CalculateMake
    <2>1. install' = Remark(install) /\ UNCHANGED <<stack, seen, resolved>>
      BY <1>2 DEF CalculateMake, Enter
    <2> QED
      BY <2>1, RemarkType, PackageOfType DEF Stays, SamePkgs, TypeOK
  <1>3. CASE RepoTargetSkipped \/ RepoTargetUnneeded \/ PkgbuildTargetSkipped
             \/ PkgbuildTargetUnneeded \/ AurTargetSkipped \/ AurTargetMissing \/ AurTargetUnneeded
    BY <1>3 DEF RepoTargetSkipped, RepoTargetUnneeded, PkgbuildTargetSkipped,
                PkgbuildTargetUnneeded, AurTargetSkipped, AurTargetMissing, AurTargetUnneeded,
                Targeting, TargetingAur, Stays, SamePkgs
  <1>4. CASE RepoTarget
    <2> DEFINE p == RepoRequest.pkg
               f == NewFrame(p, RepoRequest.targ.pkg, IsMake(RepoRequest.targ.pkg), TRUE,
                             world.is_target)
    <2>1. p.src = "repo"
      BY <1>4, TargetsType, PackageOfType DEF RepoTarget, Targeting, TypeOK
    <2>2. f.pkg = p
      BY DEF NewFrame
    <2>3. /\ UNCHANGED <<resolved, install>> /\ seen' = seen \cup {p.name} /\ stack = << >>
          /\ stack' = IF p.name \in seen THEN stack ELSE <<f>>
      BY <1>4 DEF RepoTarget, Targeting
    <2> HIDE DEF f
    <2>4. CASE p.name \in seen
      BY <2>3, <2>4 DEF Stays, SamePkgs
    <2>5. CASE p.name \notin seen
      BY <2>1, <2>2, <2>3, <2>5 DEF Opens, Enters
    <2> QED
      BY <2>4, <2>5
  <1>5. CASE PkgbuildTarget
    <2>1. PICK p \in FindPkgbuildRepoDep(PkgbuildRequest.repo, PkgbuildRequest.pkg) :
              stack' = <<NewFrame(p, PkgbuildRequest.pkg, FALSE,
                                  IsMake(PkgbuildRequest.pkg), world.is_target)>>
      BY <1>5 DEF PkgbuildTarget
    <2>2. p.src \in ToBuild
      BY <2>1, PackagesFound, PackageOfType DEF ToBuild, TypeOK
    <2>3. UNCHANGED <<seen, resolved, install>> /\ stack = << >>
      BY <1>5 DEF PkgbuildTarget, Targeting
    <2> DEFINE f == NewFrame(p, PkgbuildRequest.pkg, FALSE, IsMake(PkgbuildRequest.pkg), world.is_target)
    <2>4. f.pkg = p
      BY DEF NewFrame
    <2>5. stack' = <<f>>
      BY <2>1
    <2> HIDE DEF f
    <2> QED
      BY <2>2, <2>3, <2>4, <2>5 DEF Opens
  <1>6. CASE AurTarget
    <2>1. PICK p \in SelectSatisfierAurCache(AurRequest, world.is_target) :
              stack' = <<NewFrame(p, AurRequest, FALSE, IsMake(AurRequest), world.is_target)>>
      BY <1>6 DEF AurTarget
    <2>2. p.src \in ToBuild
      BY <2>1, PackagesFound, PackageOfType DEF ToBuild, TypeOK
    <2>3. UNCHANGED <<seen, resolved, install>> /\ stack = << >>
      BY <1>6 DEF AurTarget, TargetingAur, Targeting
    <2> DEFINE f == NewFrame(p, AurRequest, FALSE, IsMake(AurRequest), world.is_target)
    <2>4. f.pkg = p
      BY DEF NewFrame
    <2>5. stack' = <<f>>
      BY <2>1
    <2> HIDE DEF f
    <2> QED
      BY <2>2, <2>3, <2>4, <2>5 DEF Opens
  <1>7. CASE BuildDepDone \/ BuildDepInstalled \/ BuildDepMissing
             \/ RepoDepSatisfied \/ RepoDepMissing
    BY <1>7 DEF BuildDepDone, BuildDepInstalled, BuildDepMissing, RepoDepSatisfied,
                RepoDepMissing, Resolving, Advances
  <1>8. CASE BuildDepFromRepo
    <2>1. PICK p \in FromRepo(Current) :
              IF SatisfiedLocal(Current) THEN stack' = Advanced /\ seen' = seen
                                         ELSE EnterRepoPkg(p, Current)
      BY <1>8 DEF BuildDepFromRepo
    <2>2. p \in PackageOf("repo")
      BY <2>1, PackagesFound DEF FromRepo, TypeOK
    <2>3. /\ stack # << >> /\ Top.todo # << >> /\ UNCHANGED install
          /\ resolved \subseteq resolved'
      BY <1>8 DEF BuildDepFromRepo, Resolving
    <2> QED
      BY <2>1, <2>2, <2>3, EnterKind DEF Advances
  <1>9. CASE RepoDepFromRepo
    <2>1. PICK p \in FindRepoSatisfier(Current) : EnterRepoPkg(p, Current)
      BY <1>9 DEF RepoDepFromRepo
    <2>2. p \in PackageOf("repo")
      BY <2>1, PackagesFound DEF TypeOK
    <2>3. /\ stack # << >> /\ Top.todo # << >> /\ UNCHANGED install
          /\ resolved \subseteq resolved'
      BY <1>9 DEF RepoDepFromRepo, Resolving
    <2> QED
      BY <2>1, <2>2, <2>3, EnterKind
  <1>10. CASE BuildDepFromPkgbuild \/ BuildDepFromAur
    <2>1. PICK p \in FindPkgbuildRepoDep(NoRepo, Current)
                     \cup SelectSatisfierAurCache(Current, FALSE) :
              stack' = Append(Advanced, NewFrame(p, Current, Top.submake, TRUE, FALSE))
      BY <1>10 DEF BuildDepFromPkgbuild, BuildDepFromAur
    <2>2. p.src \in ToBuild
      BY <2>1, PackagesFound, PackageOfType DEF ToBuild, TypeOK
    <2>3. /\ stack # << >> /\ Top.todo # << >> /\ UNCHANGED <<seen, install>>
          /\ Current \notin resolved /\ resolved' = resolved \cup {Current}
      BY <1>10 DEF BuildDepFromPkgbuild, BuildDepFromAur, Resolving, MustBuild, Done
    <2> DEFINE f == NewFrame(p, Current, Top.submake, TRUE, FALSE)
    <2>4. f.pkg = p /\ f.dep = Current
      BY DEF NewFrame
    <2>5. stack' = Append(Advanced, f)
      BY <2>1
    <2> HIDE DEF f
    <2> QED
      BY <2>2, <2>3, <2>4, <2>5 DEF Calls
  <1>11. CASE FinishBuild \/ FinishRepo
    BY <1>11 DEF FinishBuild, FinishRepo, Returns
  <1> QED
    BY <1>1, <1>2, <1>3, <1>4, <1>5, <1>6, <1>7, <1>8, <1>9, <1>10, <1>11
       DEF Next, Target, Recurse

(* The frames below the top are what they were. *)
LEMMA CallsStack ==
    ASSUME TypeOK, NEW p, NEW f, Calls(p, f)
    PROVE  /\ Len(stack) \in Nat
           /\ DOMAIN stack = 1 .. Len(stack) /\ DOMAIN stack' = 1 .. Len(stack) + 1
           /\ \A i \in DOMAIN stack : /\ stack'[i].pkg = stack[i].pkg
                                      /\ stack'[i].dep = stack[i].dep
           /\ stack'[Len(stack) + 1].pkg = p /\ stack'[Len(stack) + 1].dep = Current
  <1>1. /\ Advanced \in Seq(Frame) /\ Len(Advanced) = Len(stack)
        /\ \A i \in DOMAIN stack : /\ Advanced[i].pkg = stack[i].pkg
                                   /\ Advanced[i].dep = stack[i].dep
    BY AdvancedType DEF TypeOK, Calls
  <1>2. stack' = Append(Advanced, f) /\ f.pkg = p /\ f.dep = Current
    BY DEF Calls
  <1>3. Len(stack) \in Nat /\ DOMAIN stack = 1 .. Len(stack)
    BY DEF TypeOK
  <1>4. /\ DOMAIN stack' = 1 .. Len(stack) + 1
        /\ \A i \in 1 .. Len(stack) : stack'[i] = Advanced[i]
        /\ stack'[Len(stack) + 1] = f
    BY <1>1, <1>2, <1>3
  <1> QED
    BY <1>1, <1>2, <1>3, <1>4

LEMMA ReturnsStack ==
    ASSUME TypeOK, Returns
    PROVE  /\ Len(stack) \in Nat \ {0} /\ DOMAIN stack = 1 .. Len(stack)
           /\ DOMAIN stack' = 1 .. Len(stack) - 1
           /\ \A i \in DOMAIN stack' : stack'[i] = stack[i]
  <1>1. /\ Popped \in Seq(Frame) /\ Len(Popped) = Len(stack) - 1
        /\ \A i \in 1 .. Len(stack) - 1 : Popped[i] = stack[i]
    BY PoppedType DEF TypeOK, Returns
  <1>2. stack' = Popped
    BY DEF Returns
  <1>3. Len(stack) \in Nat \ {0} /\ DOMAIN stack = 1 .. Len(stack)
    BY TopType DEF TypeOK, Returns
  <1>4. DOMAIN Popped = 1 .. Len(stack) - 1
    BY <1>1, <1>3
  <1> QED
    BY <1>1, <1>2, <1>3, <1>4

LEMMA OnceStays ==
    ASSUME OnceInv, Stays
    PROVE  (FramesSource /\ FramesSeen /\ FramesResolved /\ InstallSeen
            /\ RepoFramesDiffer /\ BuildFramesDiffer /\ FramesNotInstalled /\ InstallOnce)'
  BY DEF OnceInv, Stays, SamePkgs, FramesSource, FramesSeen, FramesResolved, InstallSeen, RepoFramesDiffer,
         BuildFramesDiffer, FramesNotInstalled, InstallOnce, IsRepo, IsBuild

LEMMA OnceOpens ==
    ASSUME OnceInv, NEW p, NEW f, Opens(p, f)
    PROVE  (FramesSource /\ FramesSeen /\ FramesResolved /\ InstallSeen
            /\ RepoFramesDiffer /\ BuildFramesDiffer /\ FramesNotInstalled /\ InstallOnce)'
  <1>1. DOMAIN stack' = {1} /\ stack'[1].pkg = p
    BY DEF Opens
  <1>2. seen \subseteq seen' /\ UNCHANGED <<resolved, install>>
    BY DEF Opens, Enters
  <1>3. (FramesSource /\ FramesResolved /\ RepoFramesDiffer /\ BuildFramesDiffer)'
    BY <1>1 DEF Opens, Enters, FramesSource, IsRepo, IsBuild, FramesResolved, RepoFramesDiffer, BuildFramesDiffer
  <1>4. (InstallSeen /\ InstallOnce)'
    BY <1>2 DEF OnceInv, InstallSeen, InstallOnce
  <1>5. p.src = "repo" => p.name \in seen' /\ p.name \notin seen
    BY DEF Opens, Enters, ToBuild
  <1>6. FramesSeen'
    BY <1>1, <1>5 DEF FramesSeen, IsRepo
  <1>7. FramesNotInstalled'
    BY <1>1, <1>2, <1>5 DEF OnceInv, FramesNotInstalled, InstallSeen, IsRepo
  <1> QED
    BY <1>3, <1>4, <1>6, <1>7

LEMMA OnceAdvances ==
    ASSUME OnceInv, Advances
    PROVE  (FramesSource /\ FramesSeen /\ FramesResolved /\ InstallSeen
            /\ RepoFramesDiffer /\ BuildFramesDiffer /\ FramesNotInstalled /\ InstallOnce)'
  <1>1. /\ DOMAIN stack' = DOMAIN stack
        /\ \A i \in DOMAIN stack : /\ stack'[i].pkg = stack[i].pkg
                                   /\ stack'[i].dep = stack[i].dep
    BY AdvancedType DEF OnceInv, TypeOK, Advances
  <1> QED
    BY <1>1 DEF OnceInv, Advances, FramesSource, FramesSeen, FramesResolved, InstallSeen, RepoFramesDiffer,
                BuildFramesDiffer, FramesNotInstalled, InstallOnce, IsRepo, IsBuild

LEMMA OnceCalls ==
    ASSUME OnceInv, NEW p, NEW f, Calls(p, f)
    PROVE  (FramesSource /\ FramesSeen /\ FramesResolved /\ InstallSeen
            /\ RepoFramesDiffer /\ BuildFramesDiffer /\ FramesNotInstalled /\ InstallOnce)'
  <1> DEFINE n == Len(stack) + 1
  <1>1. /\ n \in Nat /\ n \notin DOMAIN stack /\ DOMAIN stack' = DOMAIN stack \cup {n}
        /\ \A i \in DOMAIN stack : i \in Nat /\ i < n
        /\ \A i \in DOMAIN stack : /\ stack'[i].pkg = stack[i].pkg
                                   /\ stack'[i].dep = stack[i].dep
        /\ stack'[n].pkg = p /\ stack'[n].dep = Current
    <2>1. TypeOK
      BY DEF OnceInv
    <2>2. /\ Len(stack) \in Nat
          /\ DOMAIN stack = 1 .. Len(stack) /\ DOMAIN stack' = 1 .. n
          /\ \A i \in DOMAIN stack : /\ stack'[i].pkg = stack[i].pkg
                                     /\ stack'[i].dep = stack[i].dep
          /\ stack'[n].pkg = p /\ stack'[n].dep = Current
      BY <2>1, CallsStack
    <2> QED
      BY <2>2
  <1> HIDE DEF n
  <1>2. /\ seen \subseteq seen' /\ resolved \subseteq resolved' /\ UNCHANGED install
        /\ p.src = "repo" => p.name \in seen' /\ p.name \notin seen
        /\ p.src \in ToBuild => Current \in resolved' /\ Current \notin resolved
    BY DEF Calls, Enters, ToBuild
  <1>3. FramesSeen' /\ FramesSource'
    BY <1>1, <1>2 DEF OnceInv, FramesSeen, FramesSource, IsRepo, IsBuild, Calls, Enters
  <1>4. FramesResolved'
    BY <1>1, <1>2 DEF OnceInv, FramesResolved, IsBuild
  <1>5. (InstallSeen /\ InstallOnce)'
    BY <1>2 DEF OnceInv, InstallSeen, InstallOnce
  <1>6. RepoFramesDiffer'
    BY <1>1, <1>2 DEF OnceInv, RepoFramesDiffer, FramesSeen, IsRepo
  <1>7. BuildFramesDiffer'
    BY <1>1, <1>2 DEF OnceInv, BuildFramesDiffer, FramesResolved, IsBuild
  <1>8. FramesNotInstalled'
    BY <1>1, <1>2 DEF OnceInv, FramesNotInstalled, InstallSeen, IsRepo
  <1> QED
    BY <1>3, <1>4, <1>5, <1>6, <1>7, <1>8

LEMMA OnceReturns ==
    ASSUME OnceInv, Returns
    PROVE  (FramesSource /\ FramesSeen /\ FramesResolved /\ InstallSeen
            /\ RepoFramesDiffer /\ BuildFramesDiffer /\ FramesNotInstalled /\ InstallOnce)'
  <1> DEFINE n == Len(stack)
  <1>1. /\ n \in Nat /\ n \in DOMAIN stack /\ DOMAIN stack' \subseteq DOMAIN stack
        /\ \A i \in DOMAIN stack' : i < n /\ stack'[i] = stack[i]
        /\ UNCHANGED <<seen, resolved>>
    BY ReturnsStack DEF OnceInv, Returns
  <1>2. Top = stack[n]
    BY DEF Top
  <1> HIDE DEF n
  <1>3. (FramesSource /\ FramesSeen /\ FramesResolved /\ RepoFramesDiffer
         /\ BuildFramesDiffer)'
    BY <1>1 DEF OnceInv, FramesSource, FramesSeen, FramesResolved, RepoFramesDiffer, BuildFramesDiffer,
                IsRepo, IsBuild
  <1>4. CASE UNCHANGED install
    BY <1>1, <1>3, <1>4 DEF OnceInv, InstallSeen, InstallOnce, FramesNotInstalled, IsRepo
  <1>5. CASE ~ UNCHANGED install
    <2> DEFINE m == Len(install) + 1
    <2>1. IsRepo(n) /\ stack[n].pkg.name \in seen
      BY <1>1, <1>2, <1>5 DEF Returns, OnceInv, FramesSeen, IsRepo
    <2> DEFINE e == [pkg |-> Top.pkg, make |-> Top.make, target |-> Top.target]
               T == [pkg : PackageOf("repo"), make : BOOLEAN, target : BOOLEAN]
    <2>2. /\ m \in Nat /\ m \notin DOMAIN install /\ DOMAIN install' = DOMAIN install \cup {m}
          /\ \A i \in DOMAIN install : install'[i] = install[i]
          /\ install'[m].pkg = stack[n].pkg
      <3>1. install \in Seq(T) /\ install' = Append(install, e)
        BY <1>5 DEF Returns, OnceInv, TypeOK
      <3>2. e.pkg = stack[n].pkg
        BY <1>2
      <3> HIDE DEF e, T
      <3>3. Len(install) \in Nat /\ DOMAIN install = 1 .. Len(install)
        BY <3>1
      <3>4. /\ DOMAIN install' = 1 .. m /\ install'[m] = e
            /\ \A i \in 1 .. Len(install) : install'[i] = install[i]
        BY <3>1, <3>3
      <3> QED
        BY <3>2, <3>3, <3>4
    <2> HIDE DEF m
    <2>3. InstallSeen'
      BY <1>1, <2>1, <2>2 DEF OnceInv, InstallSeen
    <2>4. InstallOnce'
      BY <1>1, <2>1, <2>2 DEF OnceInv, InstallOnce, FramesNotInstalled
    <2>5. FramesNotInstalled'
      BY <1>1, <2>1, <2>2 DEF OnceInv, FramesNotInstalled, RepoFramesDiffer, IsRepo
    <2> QED
      BY <1>3, <2>3, <2>4, <2>5
  <1> QED
    BY <1>4, <1>5

LEMMA InitOnce == Fresh => OnceInv
  BY InitTypeOK DEF Fresh, OnceInv, FramesSource, FramesSeen, FramesResolved, InstallSeen, RepoFramesDiffer,
                    BuildFramesDiffer, FramesNotInstalled, InstallOnce

LEMMA NextOnce == OnceInv /\ [Next]_vars => OnceInv'
  <1> SUFFICES ASSUME OnceInv, [Next]_vars PROVE OnceInv'
    OBVIOUS
  <1>1. TypeOK /\ TypeOK'
    BY NextTypeOK DEF OnceInv
  <1>2. Stays \/ (\E p, f : Opens(p, f)) \/ Advances \/ (\E p, f : Calls(p, f)) \/ Returns
    <2>1. CASE Next
      BY <1>1, <2>1, StepKind
    <2>2. CASE UNCHANGED vars
      BY <2>2 DEF vars, marks, Stays, SamePkgs
    <2> QED
      BY <2>1, <2>2
  <1> QED
    BY <1>1, <1>2, OnceStays, OnceOpens, OnceAdvances, OnceCalls, OnceReturns DEF OnceInv

THEOREM EnteredOnce == Spec => []OnceInv
  BY InitFresh, InitOnce, NextOnce, PTL DEF Spec

(* No repo package is installed twice: resolve_repo_pkg enters a name only *)
(* if it is not in `seen`, and never takes it out.                         *)
THEOREM InstalledOnce == Spec => []InstallOnce
  <1>1. OnceInv => InstallOnce
    BY DEF OnceInv
  <1> QED
    BY <1>1, EnteredOnce, PTL

LEMMA OnceReentry == OnceInv => NoReentry
  <1> SUFFICES ASSUME OnceInv,
                      NEW i \in DOMAIN stack, NEW j \in DOMAIN stack, i < j,
                      stack[i].pkg.src = stack[j].pkg.src
               PROVE  IF stack[i].pkg.src = "repo"
                      THEN stack[i].pkg.name # stack[j].pkg.name
                      ELSE i > 1 => stack[i].dep # stack[j].dep
    BY DEF NoReentry
  <1>1. i \in Nat /\ j \in Nat
    BY DEF OnceInv, TypeOK
  <1> QED
    BY <1>1 DEF OnceInv, FramesSource, RepoFramesDiffer, BuildFramesDiffer, IsRepo, IsBuild

(* No dependency and no repo package is being resolved twice at once, so   *)
(* the recursion is cut on every cycle.                                    *)
THEOREM NeverReentered == Spec => []NoReentry
  BY OnceReentry, EnteredOnce, PTL

-----------------------------------------------------------------------------
(* The plan only grows at its end, and says where each base is built. *)

(* What a step does to the plan. *)

BasesKept ==
    /\ DOMAIN build' = DOMAIN build
    /\ \A i \in DOMAIN build : /\ build'[i].src = build[i].src
                               /\ build'[i].base = build[i].base
                               /\ build'[i].build = build[i].build

PkgsKept(i) ==
    /\ Len(build'[i].pkgs) = Len(build[i].pkgs)
    /\ \A j \in DOMAIN build[i].pkgs :
           /\ build'[i].pkgs[j].pkg = build[i].pkgs[j].pkg
           /\ build'[i].pkgs[j].make => build[i].pkgs[j].make

PkgsExtended(i) ==
    \A j \in DOMAIN build[i].pkgs : build'[i].pkgs[j] = build[i].pkgs[j]

NewBase ==
    /\ DOMAIN build' = 1 .. Len(build) + 1
    /\ \A i \in DOMAIN build : build'[i] = build[i]
    /\ LET b == build'[Len(build) + 1]
       IN  b.build <=> \A i \in DOMAIN build : ~ (build[i].src = b.src /\ build[i].base = b.base)

PlanKept     == BasesKept /\ \A i \in DOMAIN build : PkgsKept(i)
PlanExtended == /\ BasesKept /\ \A i \in DOMAIN build : i < Len(build) => build'[i] = build[i]
                /\ PkgsExtended(Len(build)) /\ Len(build) \in DOMAIN build

LEMMA PushKind ==
    ASSUME TypeOK, NEW e \in Entry, e.pkg.src \in ToBuild, build' = PushBuild(e)
    PROVE  PlanExtended \/ NewBase
  <1> DEFINE last == build[Len(build)]
             new  == [ src |-> e.pkg.src, repo |-> e.pkg.repo, base |-> e.pkg.base, pkgs |-> <<e>>,
                       build |-> \A b \in Elements(build) :
                                     ~ (b.src = e.pkg.src /\ b.base = e.pkg.base) ]
  <1>1. build \in Seq(Base) /\ Len(build) \in Nat /\ DOMAIN build = 1 .. Len(build)
    BY DEF TypeOK
  <1>2. CASE build # << >> /\ last.src = e.pkg.src /\ last.base = e.pkg.base
    <2> DEFINE b == [last EXCEPT !.pkgs = Append(@, e)]
    <2>1. build' = [build EXCEPT ![Len(build)] = b]
      BY <1>2 DEF PushBuild
    <2>2. last \in Base /\ Len(build) \in DOMAIN build
      BY <1>1, <1>2
    <2>3. last.pkgs \in Seq(Entry)
      BY <2>2 DEF Base
    <2>4. /\ b.src = last.src /\ b.base = last.base /\ b.build = last.build
          /\ b.pkgs = Append(last.pkgs, e)
      BY <2>2 DEF Base
    <2> HIDE DEF b, last
    <2>5. \A j \in DOMAIN last.pkgs : b.pkgs[j] = last.pkgs[j]
      BY <2>3, <2>4
    <2>6. /\ DOMAIN build' = DOMAIN build /\ build'[Len(build)] = b
          /\ \A i \in DOMAIN build : i # Len(build) => build'[i] = build[i]
      BY <1>1, <2>1, <2>2
    <2> QED
      BY <1>1, <2>2, <2>4, <2>5, <2>6 DEF PlanExtended, BasesKept, PkgsExtended, last
  <1>3. CASE ~ (build # << >> /\ last.src = e.pkg.src /\ last.base = e.pkg.base)
    <2>1. build' = Append(build, new)
      BY <1>3 DEF PushBuild
    <2>2. /\ new.src = e.pkg.src /\ new.base = e.pkg.base
          /\ new.build <=> \A b \in Elements(build) :
                               ~ (b.src = e.pkg.src /\ b.base = e.pkg.base)
      OBVIOUS
    <2> HIDE DEF new
    <2>3. /\ DOMAIN build' = 1 .. Len(build) + 1 /\ build'[Len(build) + 1] = new
          /\ \A i \in DOMAIN build : build'[i] = build[i]
      BY <1>1, <2>1
    <2> QED
      BY <2>2, <2>3 DEF NewBase, Elements
  <1> QED
    BY <1>2, <1>3

LEMMA PlanKind ==
    ASSUME TypeOK, [Next]_vars
    PROVE  PlanKept \/ PlanExtended \/ NewBase
  <1>1. CASE UNCHANGED build
    BY <1>1 DEF PlanKept, BasesKept, PkgsKept
  <1>2. CASE CalculateMake
    <2>1. build' = [i \in DOMAIN build |-> [build[i] EXCEPT !.pkgs = Remark(@)]]
      BY <1>2 DEF CalculateMake
    <2>2. ASSUME NEW i \in DOMAIN build
          PROVE  /\ build'[i].src = build[i].src /\ build'[i].base = build[i].base
                 /\ build'[i].build = build[i].build /\ build'[i].pkgs = Remark(build[i].pkgs)
                 /\ build[i].pkgs \in Seq(Entry)
      <3>1. build[i] \in Base
        BY DEF TypeOK
      <3> QED
        BY <2>1, <3>1 DEF Base
    <2>3. ASSUME NEW i \in DOMAIN build PROVE PkgsKept(i)
      <3>1. PICK list \in Seq(Entry) : list = build[i].pkgs
        BY <2>2
      <3>2. /\ Len(Remark(list)) = Len(list)
            /\ \A j \in DOMAIN list : /\ Remark(list)[j].pkg = list[j].pkg
                                      /\ Remark(list)[j].make => list[j].make
        BY RemarkType DEF Entry
      <3>3. build'[i].pkgs = Remark(list)
        BY <2>2, <3>1
      <3> QED
        BY <3>1, <3>2, <3>3 DEF PkgsKept
    <2> QED
      BY <2>1, <2>2, <2>3 DEF PlanKept, BasesKept
  <1>3. CASE FinishBuild
    <2> DEFINE e == [pkg |-> Top.pkg, make |-> Top.make, target |-> Top.target]
    <2>1. e \in Entry /\ e.pkg.src \in ToBuild
      BY <1>3, EntryType DEF FinishBuild, TypeOK
    <2>2. build' = build \/ build' = PushBuild(e)
      BY <1>3 DEF FinishBuild
    <2> HIDE DEF e
    <2> QED
      BY <1>1, <2>1, <2>2, PushKind
  <1>4. CASE [Next]_vars /\ ~ CalculateMake /\ ~ FinishBuild
    <2>1. UNCHANGED build
      BY <1>4 DEF Next, Split, Target, Recurse, SplitAssumed, SplitRepo, SplitGroup, SplitPkgbuild,
                  SplitAur, SplitMissing, SplitDone, FillCache, FailCache, KeepMake, Returned,
                  RepoTargetsDone, PkgbuildTargetsDone, AurTargetsDone, Splitting, vars,
                  RepoTargetSkipped, RepoTargetUnneeded, RepoTarget, PkgbuildTargetSkipped,
                  PkgbuildTargetUnneeded, PkgbuildTarget, AurTargetSkipped, AurTargetMissing,
                  AurTargetUnneeded, AurTarget, Targeting, TargetingAur, BuildDepDone,
                  BuildDepInstalled, BuildDepFromRepo, BuildDepFromPkgbuild, BuildDepFromAur,
                  BuildDepMissing, RepoDepSatisfied, RepoDepFromRepo, RepoDepMissing, FinishRepo,
                  Resolving
    <2> QED
      BY <1>1, <2>1
  <1> QED
    BY <1>2, <1>3, <1>4

FlagInv == TypeOK /\ BuildFlagOnce

LEMMA InitFlag == Fresh => FlagInv
  BY InitTypeOK DEF Fresh, FlagInv, BuildFlagOnce

LEMMA NextFlag == FlagInv /\ [Next]_vars => FlagInv'
  <1> SUFFICES ASSUME TypeOK, BuildFlagOnce, [Next]_vars PROVE BuildFlagOnce'
    BY NextTypeOK DEF FlagInv
  <1>1. Len(build) \in Nat /\ DOMAIN build = 1 .. Len(build)
    BY DEF TypeOK
  <1>2. CASE BasesKept
    <2>1. \A i \in DOMAIN build : \A j \in 1 .. (i - 1) : j \in DOMAIN build
      BY <1>1
    <2> QED
      BY <1>2, <2>1 DEF BasesKept, BuildFlagOnce
  <1>3. CASE NewBase
    <2> DEFINE n == Len(build) + 1
    <2>1. \A i \in DOMAIN build : \A j \in 1 .. (i - 1) : j \in DOMAIN build
      BY <1>1
    <2>2. 1 .. (n - 1) = DOMAIN build /\ DOMAIN build' = DOMAIN build \cup {n}
      BY <1>1, <1>3 DEF NewBase
    <2>3. ASSUME NEW i \in DOMAIN build
          PROVE  build'[i].build <=> \A j \in 1 .. (i - 1) :
                     <<build'[j].src, build'[j].base>> # <<build'[i].src, build'[i].base>>
      BY <1>3, <2>1 DEF NewBase, BuildFlagOnce
    <2>4. build'[n].build <=> \A j \in 1 .. (n - 1) :
              <<build'[j].src, build'[j].base>> # <<build'[n].src, build'[n].base>>
      BY <1>3, <2>2 DEF NewBase
    <2> QED
      BY <2>2, <2>3, <2>4 DEF BuildFlagOnce
  <1> QED
    BY <1>2, <1>3, PlanKind DEF PlanKept, PlanExtended

(* A base is built exactly where it is listed first: push_aur_build and    *)
(* push_pkgbuild_build look at the whole list for the flag, and at its end *)
(* for the base to join.                                                   *)
THEOREM FlaggedOnce == Spec => []BuildFlagOnce
  <1>1. FlagInv => BuildFlagOnce
    BY DEF FlagInv
  <1> QED
    BY <1>1, InitFresh, InitFlag, NextFlag, PTL DEF Spec

LEMMA InstallGrows ==
    ASSUME TypeOK, [Next]_vars
    PROVE  \A i \in DOMAIN install : /\ install'[i].pkg = install[i].pkg
                                     /\ install'[i].make => install[i].make
  <1> DEFINE T == [pkg : PackageOf("repo"), make : BOOLEAN, target : BOOLEAN]
  <1>1. install \in Seq(T)
    BY DEF TypeOK
  <1>2. CASE UNCHANGED install
    BY <1>2
  <1>3. CASE CalculateMake
    <2>1. install' = Remark(install)
      BY <1>3 DEF CalculateMake
    <2> QED
      BY <1>1, <2>1, RemarkType, PackageOfType
  <1>4. CASE FinishRepo
    <2> DEFINE e == [pkg |-> Top.pkg, make |-> Top.make, target |-> Top.target]
    <2>1. install' = Append(install, e)
      BY <1>4 DEF FinishRepo
    <2> HIDE DEF e, T
    <2>2. \A i \in DOMAIN install : install'[i] = install[i]
      BY <1>1, <2>1
    <2> QED
      BY <2>2
  <1>5. CASE [Next]_vars /\ ~ CalculateMake /\ ~ FinishRepo
    <2>1. UNCHANGED install
      BY <1>5 DEF Next, Split, Target, Recurse, SplitAssumed, SplitRepo, SplitGroup, SplitPkgbuild,
                  SplitAur, SplitMissing, SplitDone, FillCache, FailCache, KeepMake, Returned,
                  RepoTargetsDone, PkgbuildTargetsDone, AurTargetsDone, Splitting, vars,
                  RepoTargetSkipped, RepoTargetUnneeded, RepoTarget, PkgbuildTargetSkipped,
                  PkgbuildTargetUnneeded, PkgbuildTarget, AurTargetSkipped, AurTargetMissing,
                  AurTargetUnneeded, AurTarget, Targeting, TargetingAur, BuildDepDone,
                  BuildDepInstalled, BuildDepFromRepo, BuildDepFromPkgbuild, BuildDepFromAur,
                  BuildDepMissing, RepoDepSatisfied, RepoDepFromRepo, RepoDepMissing, FinishBuild,
                  Resolving
    <2> QED
      BY <1>2, <2>1
  <1> QED
    BY <1>3, <1>4, <1>5

(* What was pushed is neither moved, dropped nor changed, except that the  *)
(* last base gets packages and that a make mark is taken away.             *)
THEOREM GrowsAtEnd == Spec => PlanGrows
  <1>1. TypeOK /\ [Next]_vars =>
            [ /\ \A i \in DOMAIN install :
                     /\ install'[i].pkg = install[i].pkg
                     /\ install'[i].make => install[i].make
              /\ \A i \in DOMAIN build :
                     /\ i < Len(build) => Len(build'[i].pkgs) = Len(build[i].pkgs)
                     /\ \A j \in DOMAIN build[i].pkgs :
                            /\ build'[i].pkgs[j].pkg = build[i].pkgs[j].pkg
                            /\ build'[i].pkgs[j].make => build[i].pkgs[j].make ]_vars
    <2> SUFFICES ASSUME TypeOK, [Next]_vars, NEW i \in DOMAIN build
                 PROVE  /\ i < Len(build) => Len(build'[i].pkgs) = Len(build[i].pkgs)
                        /\ \A j \in DOMAIN build[i].pkgs :
                               /\ build'[i].pkgs[j].pkg = build[i].pkgs[j].pkg
                               /\ build'[i].pkgs[j].make => build[i].pkgs[j].make
      BY InstallGrows
    <2>1. i \in Nat /\ Len(build) \in Nat /\ i <= Len(build)
      BY DEF TypeOK
    <2>2. CASE PlanKept
      BY <2>2 DEF PlanKept, PkgsKept
    <2>3. CASE PlanExtended
      BY <2>1, <2>3 DEF PlanExtended, PkgsExtended
    <2>4. CASE NewBase
      BY <2>4 DEF NewBase
    <2> QED
      BY <2>2, <2>3, <2>4, PlanKind
  <1> QED
    BY <1>1, TypeCorrect, PTL DEF Spec, PlanGrows
=============================================================================
