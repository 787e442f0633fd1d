----------------------------- MODULE PathProofs ----------------------------
(***************************************************************************)
(* Where the packages of a resolution come from, for every set of worlds:  *)
(* what the lookups promise, and the chain from a request to each package  *)
(* being resolved and to each dependency reported missing.                 *)
(***************************************************************************)
EXTENDS ResolverProofs, WellFoundedInduction

-----------------------------------------------------------------------------
(* The lookups: what is found satisfies what was asked for, and where      *)
(* nothing is found nothing does.                                          *)

LEMMA Least ==
    ASSUME NEW T \in SUBSET Nat, T # {}
    PROVE  \E n \in T : \A m \in T : n <= m
  <1>1. IsWellFoundedOn(OpToRel(<, Nat), Nat)
    BY NatLessThanWellFounded, Zenon
  <1>2. PICK n \in T : \A m \in T : ~ (<<m, n>> \in OpToRel(<, Nat))
    BY <1>1, WFMin, Zenon
  <1>3. \A m \in T : ~ (m < n)
    BY <1>2 DEF OpToRel
  <1> QED
    BY <1>3

(* A list that has a member of P has a first one. *)
LEMMA FirstFound ==
    ASSUME NEW S, NEW s \in Seq(S), NEW P, NEW p \in Elements(s) \cap P
    PROVE  \E k \in DOMAIN s : s[k] \in P /\ \A j \in 1 .. (k - 1) : s[j] \notin P
  <1> DEFINE T == { k \in DOMAIN s : s[k] \in P }
  <1>1. T \in SUBSET Nat /\ T # {} /\ DOMAIN s = 1 .. Len(s) /\ Len(s) \in Nat
    BY DEF Elements
  <1>2. PICK k \in T : \A m \in T : k <= m
    BY <1>1, Least
  <1>3. \A j \in 1 .. (k - 1) : j \in DOMAIN s /\ ~ (k <= j)
    BY <1>1
  <1> QED
    BY <1>2, <1>3

(* Asking alpm for any version is how NO_DEP_VERSION is passed on. *)
LEMMA AskedMeans ==
    ASSUME NEW d \in Dep, NEW p
    PROVE  Satisfies(p, Asked(d), FALSE) <=> Satisfies(p, d, NoVer)
  <1>1. CASE NoVer
    <2>1. Asked(d).name = d.name /\ Asked(d).mod = "any"
      BY <1>1 DEF Asked, AnyVersion, Dep
    <2> QED
      BY <1>1, <2>1 DEF Satisfies, SatisfiesProvide, SatisfiesVer
  <1>2. CASE ~ NoVer
    BY <1>2 DEF Asked, Satisfies, SatisfiesProvide
  <1> QED
    BY <1>1, <1>2

LEMMA DbsSatisfiersMeans ==
    ASSUME NEW d
    PROVE  /\ \A p \in DbsSatisfiers(d) : p \in Elements(world.repos) /\ Satisfies(p, d, FALSE)
           /\ DbsSatisfiers(d) = {} =>
                  \A p \in Elements(world.repos) : ~ Satisfies(p, d, FALSE)
  BY DEF DbsSatisfiers, First, Elements, Satisfies

LEMMA RepoLookup ==
    ASSUME NEW d \in Dep
    PROVE  /\ \A p \in FindRepoSatisfier(d) :
                  p \in Elements(world.repos) /\ Satisfies(p, d, NoVer)
           /\ FindRepoSatisfier(d) = {} =>
                  \A p \in Elements(world.repos) : ~ Satisfies(p, d, NoVer)
  BY DbsSatisfiersMeans, AskedMeans DEF FindRepoSatisfier

LEMMA RepoTargetLookup ==
    ASSUME NEW t \in Targ, NEW p \in FindRepoTargetSatisfier(t)
    PROVE  /\ p \in Elements(world.repos) /\ Satisfies(p, t.pkg, NoVer)
           /\ t.repo # NoRepo => p.repo = t.repo
  <1>1. t.pkg \in Dep
    BY DEF Targ
  <1>2. /\ p \in Elements(world.repos) /\ Satisfies(p, Asked(t.pkg), FALSE)
        /\ t.repo # NoRepo => p.repo = t.repo
    BY DbsSatisfiersMeans DEF FindRepoTargetSatisfier, First, Elements
  <1> QED
    BY <1>1, <1>2, AskedMeans

LEMMA PkgbuildLookup ==
    ASSUME world \in World, NEW r, NEW d
    PROVE  /\ \A p \in FindPkgbuildRepoDep(r, d) :
                  /\ p \in Elements(world.pkgbuilds) /\ Satisfies(p, d, NoVer)
                  /\ r # NoRepo => p.repo = r
           /\ FindPkgbuildRepoDep(NoRepo, d) = {} =>
                  \A p \in Elements(world.pkgbuilds) : ~ Satisfies(p, d, NoVer)
  <1>1. \A p \in FindPkgbuildRepoDep(r, d) :
            /\ p \in Elements(world.pkgbuilds) /\ Satisfies(p, d, NoVer)
            /\ r # NoRepo => p.repo = r
    BY DEF FindPkgbuildRepoDep, First, Elements
  <1>2. ASSUME NEW q \in Elements(world.pkgbuilds), Satisfies(q, d, NoVer)
        PROVE  FindPkgbuildRepoDep(NoRepo, d) # {}
    <2> DEFINE P == { p \in Elements(world.pkgbuilds) : Satisfies(p, d, NoVer) }
    <2>1. PICK k \in DOMAIN world.pkgbuilds :
              world.pkgbuilds[k] \in P /\ \A j \in 1 .. (k - 1) : world.pkgbuilds[j] \notin P
      <3>1. q \in Elements(world.pkgbuilds) \cap P
        BY <1>2
      <3>2. world.pkgbuilds \in Seq(PackageOf("pkgbuild"))
        BY WorldTypes
      <3> HIDE DEF P
      <3> QED
        BY <3>1, <3>2, FirstFound
    <2>2. \A j \in 1 .. (k - 1) : world.pkgbuilds[j] \in Elements(world.pkgbuilds)
      BY WorldTypes DEF Elements
    <2> QED
      BY <2>1, <2>2 DEF FindPkgbuildRepoDep, First
  <1> QED
    BY <1>1, <1>2

LEMMA AurLookup ==
    ASSUME NEW d, NEW t, NEW p \in SelectSatisfierAurCache(d, t)
    PROVE  p \in cache /\ Satisfies(p, d, NoVer)
  <1>1. \A q \in FindSatisfierAurCache(d) : q \in cache /\ Satisfies(q, d, NoVer)
    BY DEF FindSatisfierAurCache, First
  <1> QED
    BY <1>1 DEF SelectSatisfierAurCache, First

(* Where one lookup of the cache finds nothing, neither does the other, as *)
(* nothing in the cache will do.                                           *)
LEMMA AurUnmet ==
    ASSUME world \in World, cache \subseteq Elements(world.aur), NEW d, NEW t
    PROVE  /\ FindSatisfierAurCache(d) = {} => \A q \in cache : ~ Satisfies(q, d, NoVer)
           /\ SelectSatisfierAurCache(d, t) = {} => \A q \in cache : ~ Satisfies(q, d, NoVer)
  <1> SUFFICES ASSUME NEW q \in cache, Satisfies(q, d, NoVer)
               PROVE  FindSatisfierAurCache(d) # {} /\ SelectSatisfierAurCache(d, t) # {}
    OBVIOUS
  <1> DEFINE P == { p \in cache : Satisfies(p, d, NoVer) }
  <1>1. PICK k \in DOMAIN world.aur :
            world.aur[k] \in P /\ \A j \in 1 .. (k - 1) : world.aur[j] \notin P
    <2>1. q \in Elements(world.aur) \cap P
      OBVIOUS
    <2>2. world.aur \in Seq(PackageOf("aur"))
      BY WorldTypes
    <2> HIDE DEF P
    <2> QED
      BY <2>1, <2>2, FirstFound
  <1>2. FindSatisfierAurCache(d) # {}
    BY <1>1 DEF FindSatisfierAurCache, First
  <1>3. world.aur[k] \in Elements(world.aur)
    BY DEF Elements
  <1> QED
    BY <1>1, <1>2, <1>3 DEF SelectSatisfierAurCache

-----------------------------------------------------------------------------
(* The invariant. *)

(* What split_targets files under a source is a request that may be looked *)
(* up there, and a repo package filed for a request answers it.            *)
TargetsRequested ==
    /\ \A r \in Elements(targets.repo) : /\ r.targ \in Elements(Requested)
                                         /\ r.pkg \in Elements(world.repos)
                                         /\ Asks(r.targ, r.pkg) /\ FromPlace(r.targ, r.pkg)
    /\ \A t \in Elements(targets.pkgbuild) : t \in Elements(Requested) /\ InPkgbuilds(t)
    /\ \A d \in Elements(targets.aur) : \E t \in Elements(Requested) : t.pkg = d /\ InAur(t)

FramesKnown ==
    \A i \in DOMAIN stack : /\ stack[i].pkg \in Known
                            /\ Elements(stack[i].todo) \subseteq Elements(Depends(stack[i].pkg))

Rooted ==
    stack # << >> =>
        \E t \in Elements(Requested) : t.pkg = stack[1].dep /\ Asks(t, stack[1].pkg)

Linked ==
    \A i \in DOMAIN stack : i > 1 =>
        /\ Satisfies(stack[i].pkg, stack[i].dep, NoVer)
        /\ stack[i].dep \in Elements(Depends(stack[i - 1].pkg))

PathInv == TypeOK /\ TargetsRequested /\ FramesKnown /\ Rooted /\ Linked /\ MissingPath

-----------------------------------------------------------------------------
(* What a step does to the world, the stack and the report. *)

LEMMA WorldKept ==
    ASSUME [Next]_vars
    PROVE  world' = world /\ cache \subseteq cache'
  BY DEF Next, Split, Target, Recurse, SplitAssumed, SplitRepo, SplitGroup, SplitPkgbuild, SplitAur,
         SplitMissing, SplitDone, FillCache, FailCache, KeepMake, CalculateMake, Returned,
         RepoTargetsDone, PkgbuildTargetsDone, AurTargetsDone, Splitting, Enter, vars,
         RepoTargetSkipped, RepoTargetUnneeded, RepoTarget, PkgbuildTargetSkipped,
         PkgbuildTargetUnneeded, PkgbuildTarget, AurTargetSkipped, AurTargetMissing,
         AurTargetUnneeded, AurTarget, Targeting, TargetingAur, BuildDepDone, BuildDepInstalled,
         BuildDepFromRepo, BuildDepFromPkgbuild, BuildDepFromAur, BuildDepMissing, FinishBuild,
         RepoDepSatisfied, RepoDepFromRepo, RepoDepMissing, FinishRepo, Resolving, inputs

(* What is read off the world alone stays. *)
LEMMA ReadKept ==
    ASSUME world' = world
    PROVE  /\ NoVer' = NoVer /\ Requested' = Requested
           /\ \A p : Depends(p)' = Depends(p)
           /\ \A t, p : Asks(t, p)' <=> Asks(t, p)
           /\ cache \subseteq cache' => Known \subseteq Known'
  BY DEF NoVer, Flag, Requested, Depends, Asks, Known

LEMMA PlaceKept ==
    ASSUME world' = world
    PROVE  \A t : /\ WhereIsTarget(t)' = WhereIsTarget(t)
                  /\ \A p : FromPlace(t, p)' <=> FromPlace(t, p)
                  /\ InPkgbuilds(t)' <=> InPkgbuilds(t)
                  /\ InAur(t)' <=> InAur(t)
                  /\ Reported(t)' = Reported(t)
                  /\ FoundAsGroup(t)' <=> FoundAsGroup(t)
  <1>1. \A t : WhereIsTarget(t)' = WhereIsTarget(t)
    BY DEF WhereIsTarget
  <1>2. \A t, p : FromPlace(t, p)' <=> FromPlace(t, p)
    BY <1>1 DEF FromPlace
  <1>3. \A t : (InPkgbuilds(t)' <=> InPkgbuilds(t)) /\ (InAur(t)' <=> InAur(t))
    BY <1>1 DEF InPkgbuilds, InAur, Flag
  <1>4. \A t : Reported(t)' = Reported(t)
    BY <1>1 DEF Reported
  <1>5. \A t : FoundAsGroup(t)' <=> FoundAsGroup(t)
    BY <1>1 DEF FoundAsGroup, InRepos, GroupMembers, Flag
  <1> QED
    BY <1>1, <1>2, <1>3, <1>4, <1>5

(* A package of a place that a target may be looked up in, found there.    *)
LEMMA PlaceFound ==
    ASSUME world \in World, NEW t, NEW p,
           \/ p \in Elements(world.repos) /\ InRepos(t) /\ (t.repo # NoRepo => p.repo = t.repo)
           \/ p \in Elements(world.pkgbuilds) /\ InPkgbuilds(t) /\ (t.repo # NoRepo => p.repo = t.repo)
           \/ p \in PackageOf("aur") /\ InAur(t)
    PROVE  FromPlace(t, p)
  <1>1. t.repo # NoRepo => WhereIsTarget(t) # "unspecified"
    BY DEF WhereIsTarget
  <1>2. /\ \A q \in Elements(world.repos) : q.src = "repo"
        /\ \A q \in Elements(world.pkgbuilds) : q.src = "pkgbuild"
        /\ \A q \in PackageOf("aur") : q.src = "aur"
    BY WorldTypes, ElementsType, PackageOfType
  <1> QED
    BY <1>1, <1>2 DEF FromPlace, InRepos, InPkgbuilds, InAur

(* A frame for a package that was found. *)
Brought(f) == f.pkg \in Known /\ f.todo = Depends(f.pkg)

OpensFor(f) ==
    /\ stack = << >> /\ stack' = <<f>> /\ Brought(f)
    /\ \E t \in Elements(Requested) : t.pkg = f.dep /\ Asks(t, f.pkg)

CallsFor(f) ==
    /\ stack # << >> /\ Top.todo # << >> /\ stack' = Append(Advanced, f)
    /\ Brought(f) /\ f.dep = Current /\ Satisfies(f.pkg, Current, NoVer) /\ ~ f.target

Steps == stack # << >> /\ Top.todo # << >> /\ stack' = Advanced

Pops == stack # << >> /\ stack' = Popped

(* Whatever a dependency is looked up in, what is found is known and       *)
(* satisfies it.                                                           *)
LEMMA LookedUp ==
    ASSUME TypeOK, NEW d \in Dep, NEW r, NEW t,
           NEW p \in FindRepoSatisfier(d) \cup FindPkgbuildRepoDep(r, d)
                     \cup SelectSatisfierAurCache(d, t)
    PROVE  p \in Known /\ Satisfies(p, d, NoVer)
  <1>1. CASE p \in FindRepoSatisfier(d)
    BY <1>1, RepoLookup DEF Known
  <1>2. CASE p \in FindPkgbuildRepoDep(r, d)
    BY <1>2, PkgbuildLookup DEF Known, TypeOK
  <1>3. CASE p \in SelectSatisfierAurCache(d, t)
    BY <1>3, AurLookup DEF Known
  <1> QED
    BY <1>1, <1>2, <1>3

LEMMA TargetOpens ==
    ASSUME PathInv, RepoTarget \/ PkgbuildTarget \/ AurTarget
    PROVE  UNCHANGED stack \/ \E f : OpensFor(f)
  <1> USE DEF PathInv
  <1>1. CASE RepoTarget
    <2> DEFINE r == RepoRequest
               f == NewFrame(r.pkg, r.targ.pkg, IsMake(r.targ.pkg), TRUE, world.is_target)
    <2>1. r \in Elements(targets.repo)
      BY <1>1 DEF RepoTarget, Targeting, RepoRequest, Elements
    <2>2. r.targ \in Elements(Requested) /\ r.pkg \in Known /\ Asks(r.targ, r.pkg)
      BY <2>1 DEF TargetsRequested, Known
    <2>3. f.pkg = r.pkg /\ f.dep = r.targ.pkg /\ f.todo = Depends(r.pkg)
      BY DEF NewFrame
    <2>4. stack = << >> /\ (UNCHANGED stack \/ stack' = <<f>>)
      BY <1>1 DEF RepoTarget, Targeting
    <2> HIDE DEF f
    <2> QED
      BY <2>2, <2>3, <2>4 DEF OpensFor, Brought
  <1>2. CASE PkgbuildTarget
    <2> DEFINE t == PkgbuildRequest
    <2>1. PICK p \in FindPkgbuildRepoDep(t.repo, t.pkg) :
              stack' = <<NewFrame(p, t.pkg, FALSE, IsMake(t.pkg), world.is_target)>>
      BY <1>2 DEF PkgbuildTarget
    <2>2. t \in Elements(targets.pkgbuild) /\ t.pkg \in Dep
      BY <1>2, TargetsType DEF PkgbuildTarget, Targeting, PkgbuildRequest, Elements, TypeOK
    <2>3. p \in Known /\ Asks(t, p) /\ t \in Elements(Requested)
      BY <2>1, <2>2, LookedUp DEF TargetsRequested, Asks
    <2> DEFINE f == NewFrame(p, t.pkg, FALSE, IsMake(t.pkg), world.is_target)
    <2>4. f.pkg = p /\ f.dep = t.pkg /\ f.todo = Depends(p)
      BY DEF NewFrame
    <2>5. stack = << >> /\ stack' = <<f>>
      BY <1>2, <2>1 DEF PkgbuildTarget, Targeting
    <2> HIDE DEF f, t
    <2> QED
      BY <2>3, <2>4, <2>5 DEF OpensFor, Brought
  <1>3. CASE AurTarget
    <2> DEFINE d == AurRequest
    <2>1. PICK p \in SelectSatisfierAurCache(d, world.is_target) :
              stack' = <<NewFrame(p, d, FALSE, IsMake(d), world.is_target)>>
      BY <1>3 DEF AurTarget
    <2>2. d \in Elements(targets.aur) /\ d \in Dep
      BY <1>3, TargetsType DEF AurTarget, TargetingAur, Targeting, AurRequest, Elements, TypeOK
    <2>3. p \in Known /\ \E t \in Elements(Requested) : t.pkg = d /\ Asks(t, p)
      BY <2>1, <2>2, LookedUp DEF TargetsRequested, Asks
    <2> DEFINE f == NewFrame(p, d, FALSE, IsMake(d), world.is_target)
    <2>4. f.pkg = p /\ f.dep = d /\ f.todo = Depends(p)
      BY DEF NewFrame
    <2>5. stack = << >> /\ stack' = <<f>>
      BY <1>3, <2>1 DEF AurTarget, TargetingAur, Targeting
    <2> HIDE DEF f, d
    <2> QED
      BY <2>3, <2>4, <2>5 DEF OpensFor, Brought
  <1> QED
    BY <1>1, <1>2, <1>3

LEMMA DepCalls ==
    ASSUME TypeOK,
           BuildDepFromRepo \/ BuildDepFromPkgbuild \/ BuildDepFromAur \/ RepoDepFromRepo
    PROVE  Steps \/ \E f : CallsFor(f)
  <1> DEFINE f(p, make) == NewFrame(p, Current, make, TRUE, FALSE)
  <1>1. stack # << >> /\ Top.todo # << >> /\ Current \in Dep
    BY TopType DEF BuildDepFromRepo, BuildDepFromPkgbuild, BuildDepFromAur, RepoDepFromRepo,
                   Resolving, TypeOK
  <1>2. PICK p \in FindRepoSatisfier(Current) \cup FindPkgbuildRepoDep(NoRepo, Current)
                   \cup SelectSatisfierAurCache(Current, FALSE), make \in {TRUE, Top.submake} :
            stack' = Advanced \/ stack' = Append(Advanced, f(p, make))
    BY DEF BuildDepFromRepo, BuildDepFromPkgbuild, BuildDepFromAur, RepoDepFromRepo,
           FromRepo, EnterRepoPkg
  <1>3. p \in Known /\ Satisfies(p, Current, NoVer)
    BY <1>1, LookedUp
  <1>4. /\ f(p, make).pkg = p /\ f(p, make).dep = Current /\ f(p, make).todo = Depends(p)
        /\ ~ f(p, make).target
    BY DEF NewFrame
  <1> HIDE DEF f
  <1> QED
    BY <1>1, <1>2, <1>3, <1>4 DEF Steps, CallsFor, Brought

(* The steps that deal with a dependency, those that return, and all others. *)
DepStep == \/ BuildDepDone \/ BuildDepInstalled \/ BuildDepFromRepo \/ BuildDepFromPkgbuild
           \/ BuildDepFromAur \/ BuildDepMissing
           \/ RepoDepSatisfied \/ RepoDepFromRepo \/ RepoDepMissing

Finish == FinishBuild \/ FinishRepo

Outside == \/ Split \/ FillCache \/ FailCache \/ Target \/ CalculateMake \/ KeepMake
           \/ UNCHANGED vars

LEMMA PathKind ==
    ASSUME PathInv, [Next]_vars
    PROVE  \/ Outside /\ (UNCHANGED stack \/ \E f : OpensFor(f))
           \/ DepStep /\ (Steps \/ \E f : CallsFor(f))
           \/ Finish /\ Pops
  <1>1. CASE RepoTarget \/ PkgbuildTarget \/ AurTarget
    BY <1>1, TargetOpens DEF Outside, Target
  <1>2. CASE BuildDepFromRepo \/ BuildDepFromPkgbuild \/ BuildDepFromAur \/ RepoDepFromRepo
    BY <1>2, DepCalls DEF PathInv, DepStep
  <1>3. CASE BuildDepDone \/ BuildDepInstalled \/ BuildDepMissing
             \/ RepoDepSatisfied \/ RepoDepMissing
    <2>1. Steps
      BY <1>3 DEF BuildDepDone, BuildDepInstalled, BuildDepMissing, RepoDepSatisfied,
                  RepoDepMissing, Resolving, Steps
    <2> QED
      BY <1>3, <2>1 DEF DepStep
  <1>4. CASE Finish
    BY <1>4 DEF Finish, FinishBuild, FinishRepo, Pops
  <1>5. CASE /\ [Next]_vars /\ ~ Recurse
             /\ ~ RepoTarget /\ ~ PkgbuildTarget /\ ~ AurTarget
    <2>1. UNCHANGED stack
      BY <1>5 DEF Next, Split, Target, SplitAssumed, SplitRepo, SplitGroup, SplitPkgbuild,
                  SplitAur, SplitMissing, SplitDone, FillCache, FailCache, KeepMake, CalculateMake,
                  Returned, RepoTargetsDone, PkgbuildTargetsDone, AurTargetsDone, Splitting, Enter,
                  vars, RepoTargetSkipped, RepoTargetUnneeded, PkgbuildTargetSkipped,
                  PkgbuildTargetUnneeded, AurTargetSkipped, AurTargetMissing, AurTargetUnneeded,
                  Targeting, TargetingAur
    <2>2. Outside
      BY <1>5 DEF Next, Outside, Returned
    <2> QED
      BY <2>1, <2>2
  <1> QED
    BY <1>1, <1>2, <1>3, <1>4, <1>5 DEF Recurse, Finish

-----------------------------------------------------------------------------
(* The chain, kind of step by kind of step. *)

Chain == FramesKnown /\ Rooted /\ Linked

LEMMA PathStays ==
    ASSUME PathInv, world' = world, cache \subseteq cache', UNCHANGED stack
    PROVE  Chain'
  BY ReadKept DEF PathInv, Chain, FramesKnown, Rooted, Linked

LEMMA PathOpens ==
    ASSUME PathInv, world' = world, cache \subseteq cache', NEW f, OpensFor(f)
    PROVE  Chain'
  <1>1. DOMAIN stack' = {1} /\ stack'[1] = f
    BY DEF OpensFor
  <1>2. Known \subseteq Known' /\ Requested' = Requested
    BY ReadKept
  <1>3. FramesKnown'
    BY <1>1, <1>2, ReadKept DEF FramesKnown, OpensFor, Brought
  <1>4. Rooted'
    BY <1>1, <1>2, ReadKept DEF Rooted, OpensFor
  <1>5. Linked'
    BY <1>1 DEF Linked
  <1> QED
    BY <1>3, <1>4, <1>5 DEF Chain

(* The frames of the advanced stack: the top one has a dependency less. *)
LEMMA AdvancedChain ==
    ASSUME PathInv, stack # << >>, Top.todo # << >>
    PROVE  /\ DOMAIN Advanced = DOMAIN stack /\ DOMAIN stack = 1 .. Len(stack)
           /\ Len(stack) \in Nat \ {0}
           /\ \A i \in DOMAIN stack :
                  /\ Advanced[i].pkg = stack[i].pkg /\ Advanced[i].dep = stack[i].dep
                  /\ Advanced[i].pkg \in Known
                  /\ Elements(Advanced[i].todo) \subseteq Elements(Depends(stack[i].pkg))
                  /\ Elements(stack[i].todo) \subseteq Elements(Advanced[i].todo) \cup {Current}
           /\ Current \in Elements(Depends(Top.pkg))
           /\ Top = stack[Len(stack)] /\ Current \in Dep
  <1>1. /\ DOMAIN Advanced = DOMAIN stack /\ DOMAIN stack = 1 .. Len(stack)
        /\ Len(stack) \in Nat \ {0}
        /\ \A i \in DOMAIN stack :
               /\ Advanced[i].pkg = stack[i].pkg /\ Advanced[i].dep = stack[i].dep
               /\ i # Len(stack) => Advanced[i].todo = stack[i].todo
        /\ Advanced[Len(stack)].todo = Tail(Top.todo)
        /\ Top = stack[Len(stack)] /\ Current \in Dep
    BY AdvancedType, TopType DEF PathInv, TypeOK, Top
  <1>2. Top.todo \in Seq(Dep)
    BY TopType DEF PathInv, TypeOK
  <1>3. Elements(Top.todo) = Elements(Tail(Top.todo)) \cup {Current}
    <2>1. \A i \in 1 .. Len(Top.todo) - 1 : Tail(Top.todo)[i] = Top.todo[i + 1]
      BY <1>2
    <2>2. DOMAIN Tail(Top.todo) = 1 .. Len(Top.todo) - 1 /\ Len(Top.todo) \in Nat \ {0}
      BY <1>2
    <2>3. Current = Top.todo[1] /\ DOMAIN Top.todo = 1 .. Len(Top.todo)
      BY <1>2 DEF Current
    <2>4. \A i \in DOMAIN Top.todo : i = 1 \/ i - 1 \in DOMAIN Tail(Top.todo)
      BY <2>2, <2>3
    <2>5. \A i \in DOMAIN Top.todo \ {1} : Tail(Top.todo)[i - 1] = Top.todo[i]
      BY <2>1, <2>2, <2>3, <2>4
    <2>6. Elements(Tail(Top.todo)) \subseteq Elements(Top.todo) /\ Current \in Elements(Top.todo)
      BY <2>1, <2>2, <2>3 DEF Elements
    <2>7. Elements(Top.todo) \subseteq Elements(Tail(Top.todo)) \cup {Current}
      BY <2>3, <2>4, <2>5 DEF Elements
    <2> QED
      BY <2>6, <2>7
  <1>4. \A i \in DOMAIN stack :
            /\ Elements(Advanced[i].todo) \subseteq Elements(stack[i].todo)
            /\ Elements(stack[i].todo) \subseteq Elements(Advanced[i].todo) \cup {Current}
    BY <1>1, <1>3
  <1>5. \A i \in DOMAIN stack :
            stack[i].pkg \in Known /\ Elements(stack[i].todo) \subseteq Elements(Depends(stack[i].pkg))
    BY DEF PathInv, FramesKnown
  <1>6. Current \in Elements(Depends(Top.pkg))
    <2>1. Len(stack) \in DOMAIN stack
      BY <1>1
    <2> QED
      BY <1>1, <1>3, <1>5, <2>1
  <1> QED
    BY <1>1, <1>4, <1>5, <1>6

LEMMA PathSteps ==
    ASSUME PathInv, world' = world, cache \subseteq cache', Steps
    PROVE  Chain'
  <1>1. /\ DOMAIN stack' = DOMAIN stack /\ stack' # << >>
        /\ \A i \in DOMAIN stack :
               /\ stack'[i].pkg = stack[i].pkg /\ stack'[i].dep = stack[i].dep
               /\ stack'[i].pkg \in Known
               /\ Elements(stack'[i].todo) \subseteq Elements(Depends(stack[i].pkg))
        /\ 1 \in DOMAIN stack
        /\ \A i \in DOMAIN stack : i > 1 => i - 1 \in DOMAIN stack
    <2>1. stack' = Advanced
      BY DEF Steps
    <2>2. /\ DOMAIN Advanced = DOMAIN stack /\ DOMAIN stack = 1 .. Len(stack)
          /\ Len(stack) \in Nat \ {0}
          /\ \A i \in DOMAIN stack :
                 /\ Advanced[i].pkg = stack[i].pkg /\ Advanced[i].dep = stack[i].dep
                 /\ Advanced[i].pkg \in Known
                 /\ Elements(Advanced[i].todo) \subseteq Elements(Depends(stack[i].pkg))
      BY AdvancedChain DEF Steps
    <2>3. 1 \in DOMAIN stack /\ \A i \in DOMAIN stack : i > 1 => i - 1 \in DOMAIN stack
      BY <2>2
    <2> QED
      BY <2>1, <2>2, <2>3
  <1>2. FramesKnown'
    BY <1>1, ReadKept DEF FramesKnown
  <1>3. Rooted'
    BY <1>1, ReadKept DEF PathInv, Rooted, Steps
  <1>4. Linked'
    BY <1>1, ReadKept DEF PathInv, Linked
  <1> QED
    BY <1>2, <1>3, <1>4 DEF Chain

LEMMA CalledFrames ==
    ASSUME PathInv, NEW f, CallsFor(f)
    PROVE  \E n : /\ n = Len(stack) + 1 /\ n \in Nat /\ n > 1 /\ n \notin DOMAIN stack
                  /\ DOMAIN stack' = DOMAIN stack \cup {n} /\ DOMAIN stack \subseteq Nat
                  /\ \A i \in DOMAIN stack :
                         /\ stack'[i].pkg = stack[i].pkg /\ stack'[i].dep = stack[i].dep
                         /\ stack'[i].pkg \in Known
                         /\ Elements(stack'[i].todo) \subseteq Elements(Depends(stack[i].pkg))
                         /\ Elements(stack[i].todo) \subseteq Elements(stack'[i].todo) \cup {Current}
                         /\ i < n
                  /\ stack'[n] = f /\ stack[n - 1] = Top /\ n - 1 \in DOMAIN stack
                  /\ 1 \in DOMAIN stack
                  /\ \A i \in DOMAIN stack : i > 1 => i - 1 \in DOMAIN stack
  <1>0. PICK n : n = Len(stack) + 1
    OBVIOUS
  <1>1. Advanced \in Seq(Frame) /\ Len(Advanced) = Len(stack)
    BY AdvancedType DEF PathInv, TypeOK, CallsFor
  <1>2. /\ DOMAIN stack' = 1 .. n /\ stack'[n] = f
        /\ \A i \in 1 .. Len(stack) : stack'[i] = Advanced[i]
    BY <1>0, <1>1 DEF CallsFor
  <1>3. /\ DOMAIN Advanced = DOMAIN stack /\ DOMAIN stack = 1 .. Len(stack)
        /\ Len(stack) \in Nat \ {0} /\ Top = stack[Len(stack)]
        /\ \A i \in DOMAIN stack :
               /\ Advanced[i].pkg = stack[i].pkg /\ Advanced[i].dep = stack[i].dep
               /\ Advanced[i].pkg \in Known
               /\ Elements(Advanced[i].todo) \subseteq Elements(Depends(stack[i].pkg))
               /\ Elements(stack[i].todo) \subseteq Elements(Advanced[i].todo) \cup {Current}
    BY AdvancedChain DEF CallsFor
  <1>4. /\ DOMAIN stack' = DOMAIN stack \cup {n} /\ n \notin DOMAIN stack /\ n > 1 /\ n \in Nat
        /\ n - 1 = Len(stack) /\ n - 1 \in DOMAIN stack /\ 1 \in DOMAIN stack
        /\ \A i \in DOMAIN stack : (i > 1 => i - 1 \in DOMAIN stack) /\ i < n /\ i \in Nat
    BY <1>0, <1>2, <1>3
  <1>5. \A i \in DOMAIN stack : stack'[i] = Advanced[i]
    BY <1>2, <1>3
  <1> QED
    BY <1>0, <1>2, <1>3, <1>4, <1>5

LEMMA PoppedFrames ==
    ASSUME TypeOK, Pops
    PROVE  \E n : /\ n = Len(stack) /\ n \in Nat \ {0} /\ n \in DOMAIN stack /\ Top = stack[n]
                  /\ DOMAIN stack' = DOMAIN stack \ {n} /\ DOMAIN stack \subseteq Nat
                  /\ \A i \in DOMAIN stack' : /\ stack'[i] = stack[i] /\ i < n /\ i \in DOMAIN stack
                                              /\ i > 1 => i - 1 \in DOMAIN stack'
                  /\ stack' # << >> => 1 \in DOMAIN stack'
  <1>1. stack \in Seq(Frame) /\ stack # << >> /\ stack' = Popped
    BY DEF TypeOK, Pops
  <1>2. PICK n : n = Len(stack)
    OBVIOUS
  <1>3. n \in Nat \ {0} /\ DOMAIN stack = 1 .. n
    BY <1>1, <1>2
  <1>4. /\ Popped \in Seq(Frame) /\ Len(Popped) = n - 1
        /\ \A i \in 1 .. n - 1 : Popped[i] = stack[i]
    BY <1>1, <1>2, PoppedType
  <1>5. DOMAIN Popped = 1 .. n - 1
    BY <1>3, <1>4
  <1>6. /\ DOMAIN stack' = DOMAIN stack \ {n} /\ n \in DOMAIN stack
        /\ \A i \in DOMAIN stack' : /\ stack'[i] = stack[i] /\ i < n /\ i \in DOMAIN stack
                                    /\ i > 1 => i - 1 \in DOMAIN stack'
    BY <1>1, <1>3, <1>4, <1>5
  <1>7. stack' # << >> => 1 \in DOMAIN stack'
    BY <1>1, <1>3, <1>4, <1>5
  <1> QED
    BY <1>2, <1>3, <1>6, <1>7 DEF Top

LEMMA PathCalls ==
    ASSUME PathInv, world' = world, cache \subseteq cache', NEW f, CallsFor(f)
    PROVE  Chain'
  <1>1. PICK n : /\ DOMAIN stack' = DOMAIN stack \cup {n} /\ n \notin DOMAIN stack /\ n > 1
                 /\ \A i \in DOMAIN stack :
                        /\ stack'[i].pkg = stack[i].pkg /\ stack'[i].dep = stack[i].dep
                        /\ stack'[i].pkg \in Known
                        /\ Elements(stack'[i].todo) \subseteq Elements(Depends(stack[i].pkg))
                 /\ stack'[n] = f /\ stack[n - 1] = Top /\ n - 1 \in DOMAIN stack
                 /\ 1 \in DOMAIN stack
                 /\ \A i \in DOMAIN stack : i > 1 => i - 1 \in DOMAIN stack
    BY CalledFrames
  <1>2. /\ f.pkg \in Known /\ f.todo = Depends(f.pkg) /\ f.dep = Current
        /\ Satisfies(f.pkg, f.dep, NoVer) /\ Current \in Elements(Depends(Top.pkg))
    BY AdvancedChain DEF CallsFor, Brought
  <1>3. FramesKnown'
    BY <1>1, <1>2, ReadKept DEF FramesKnown
  <1>4. Rooted'
    BY <1>1, ReadKept DEF PathInv, Rooted, CallsFor
  <1>5. Linked'
    <2>1. ASSUME NEW i \in DOMAIN stack, i > 1
          PROVE  (/\ Satisfies(stack[i].pkg, stack[i].dep, NoVer)
                  /\ stack[i].dep \in Elements(Depends(stack[i - 1].pkg)))'
      BY <1>1, <2>1, ReadKept DEF PathInv, Linked
    <2>2. (/\ Satisfies(stack[n].pkg, stack[n].dep, NoVer)
           /\ stack[n].dep \in Elements(Depends(stack[n - 1].pkg)))'
      BY <1>1, <1>2, ReadKept
    <2> QED
      BY <1>1, <2>1, <2>2 DEF Linked
  <1> QED
    BY <1>3, <1>4, <1>5 DEF Chain

LEMMA PathPops ==
    ASSUME PathInv, world' = world, cache \subseteq cache', Pops
    PROVE  Chain'
  <1>1. /\ DOMAIN stack' \subseteq DOMAIN stack
        /\ \A i \in DOMAIN stack' : stack'[i] = stack[i] /\ (i > 1 => i - 1 \in DOMAIN stack')
        /\ stack' # << >> => 1 \in DOMAIN stack'
    BY PoppedFrames DEF PathInv
  <1>2. FramesKnown'
    BY <1>1, ReadKept DEF PathInv, FramesKnown
  <1>3. Rooted'
    BY <1>1, ReadKept DEF PathInv, Rooted, Pops
  <1>4. Linked'
    BY <1>1, ReadKept DEF PathInv, Linked
  <1> QED
    BY <1>2, <1>3, <1>4 DEF Chain

LEMMA NextChain ==
    ASSUME PathInv, [Next]_vars
    PROVE  Chain'
  BY WorldKept, PathKind, PathStays, PathOpens, PathSteps, PathCalls, PathPops

-----------------------------------------------------------------------------
(* The targets. *)

LEMMA NextTargets ==
    ASSUME PathInv, [Next]_vars
    PROVE  TargetsRequested'
  <1>0. /\ world' = world /\ Requested' = Requested
        /\ world.repos' = world.repos /\ \A t, p : Asks(t, p)' <=> Asks(t, p)
        /\ \A t : (InPkgbuilds(t)' <=> InPkgbuilds(t)) /\ (InAur(t)' <=> InAur(t))
        /\ \A t, p : FromPlace(t, p)' <=> FromPlace(t, p)
    BY WorldKept, ReadKept, PlaceKept
  <1>1. CASE UNCHANGED targets
    BY <1>0, <1>1 DEF PathInv, TargetsRequested
  <1> DEFINE T == [targ : Targ, pkg : PackageOf("repo")]
             Filed(r) == /\ r.targ \in Elements(Requested) /\ r.pkg \in Elements(world.repos)
                         /\ Asks(r.targ, r.pkg) /\ FromPlace(r.targ, r.pkg)
  <1>2. /\ targets.repo \in Seq(T) /\ targets.pkgbuild \in Seq(Targ) /\ targets.aur \in Seq(Dep)
        /\ \A r \in Elements(targets.repo) : Filed(r)
    BY TargetsType DEF PathInv, TypeOK, TargetsRequested
  <1>3. ASSUME Splitting PROVE Request \in Elements(Requested) /\ Request \in Targ /\ Request.pkg \in Dep
    BY <1>3, RequestType DEF Splitting, Request, Elements, PathInv, TypeOK
  <1>4. CASE SplitRepo \/ SplitGroup
    <2>1. PICK more \in Seq(T) :
              /\ targets' = [targets EXCEPT !.repo = @ \o more]
              /\ \A i \in DOMAIN more : Filed(more[i])
      <3>1. CASE SplitRepo
        <4>1. PICK p \in FindRepoTargetSatisfier(Request) :
                  targets' = [targets EXCEPT !.repo = Append(@, [targ |-> Request, pkg |-> p])]
          BY <3>1 DEF SplitRepo
        <4> DEFINE r == [targ |-> Request, pkg |-> p]
        <4>2. /\ Request \in Elements(Requested) /\ Request \in Targ /\ Request.pkg \in Dep
              /\ p \in Elements(world.repos) /\ Satisfies(p, Request.pkg, NoVer)
              /\ FromPlace(Request, p)
          BY <1>3, <3>1, <4>1, RepoTargetLookup, PlaceFound
             DEF SplitRepo, FoundInRepos, PathInv, TypeOK
        <4>3. r \in T /\ Filed(r)
          BY <4>1, <4>2, PackagesFound DEF Asks, PathInv, TypeOK
        <4> HIDE DEF r, T, Filed
        <4>4. <<r>> \in Seq(T) /\ DOMAIN <<r>> = {1} /\ <<r>>[1] = r
          BY <4>3
        <4>5. Append(targets.repo, r) = targets.repo \o <<r>>
          BY <1>2, <4>3
        <4>6. targets' = [targets EXCEPT !.repo = @ \o <<r>>]
          BY <4>1, <4>5 DEF r
        <4> QED
          BY <4>3, <4>4, <4>6
      <3>2. CASE SplitGroup
        <4>1. PICK g \in GroupPicks(Request) :
                  targets' = [targets EXCEPT !.repo =
                      @ \o [i \in 1 .. Len(g) |-> [targ |-> Request, pkg |-> world.repos[g[i]]]]]
          BY <3>2 DEF SplitGroup
        <4> DEFINE more == [i \in 1 .. Len(g) |-> [targ |-> Request, pkg |-> world.repos[g[i]]]]
        <4>2. \A i \in 1 .. Len(g) : g[i] \in GroupMembers(Request)
          BY DEF GroupPicks
        <4>3. Len(g) \in Nat /\ \A i \in 1 .. Len(g) : world.repos[g[i]] \in PackageOf("repo")
          BY GroupPicksType DEF PathInv, TypeOK
        <4>4. ASSUME NEW i \in 1 .. Len(g)
              PROVE  more[i] \in T /\ Filed(more[i])
          <5>1. PICK q : q = world.repos[g[i]]
            OBVIOUS
          <5>2. /\ q \in Elements(world.repos) /\ Asks(Request, q)
                /\ Request.repo # NoRepo => q.repo = Request.repo
            BY <4>2, <5>1 DEF GroupMembers, Asks, Elements
          <5>3. FromPlace(Request, q)
            BY <3>2, <5>2, PlaceFound DEF SplitGroup, FoundAsGroup, PathInv, TypeOK
          <5> QED
            BY <1>3, <3>2, <4>3, <5>1, <5>2, <5>3 DEF SplitGroup
        <4>5. more \in Seq(T) /\ DOMAIN more = 1 .. Len(g)
          <5> HIDE DEF T, Filed
          <5> QED
            BY <4>3, <4>4
        <4> HIDE DEF more
        <4> QED
          BY <4>1, <4>4, <4>5 DEF more
      <3> QED
        BY <1>4, <3>1, <3>2
    <2>2. /\ targets'.repo = targets.repo \o more
          /\ targets'.pkgbuild = targets.pkgbuild /\ targets'.aur = targets.aur
      BY <2>1 DEF PathInv, TypeOK, Targets
    <2> HIDE DEF T
    <2>3. Elements(targets'.repo) \subseteq Elements(targets.repo) \cup Elements(more)
      BY <1>2, <2>1, <2>2 DEF Elements
    <2>4. \A r \in Elements(targets'.repo) : Filed(r)
      BY <1>2, <2>1, <2>3 DEF Elements
    <2> QED
      BY <1>0, <2>2, <2>4 DEF PathInv, TargetsRequested
  <1>5. CASE SplitPkgbuild
    <2>1. /\ targets'.pkgbuild = Append(targets.pkgbuild, Request)
          /\ targets'.repo = targets.repo /\ targets'.aur = targets.aur
          /\ Request \in Elements(Requested) /\ Request \in Targ /\ InPkgbuilds(Request)
      BY <1>3, <1>5 DEF SplitPkgbuild, FoundPkgbuild, PathInv, TypeOK, Targets
    <2>2. Elements(targets'.pkgbuild) \subseteq Elements(targets.pkgbuild) \cup {Request}
      BY <1>2, <2>1 DEF Elements
    <2> QED
      BY <1>0, <2>1, <2>2 DEF PathInv, TargetsRequested
  <1>6. CASE SplitAur
    <2>1. /\ targets'.aur = Append(targets.aur, Request.pkg)
          /\ targets'.repo = targets.repo /\ targets'.pkgbuild = targets.pkgbuild
          /\ Request \in Elements(Requested) /\ Request.pkg \in Dep /\ InAur(Request)
      BY <1>3, <1>6 DEF SplitAur, PathInv, TypeOK, Targets
    <2>2. Elements(targets'.aur) \subseteq Elements(targets.aur) \cup {Request.pkg}
      BY <1>2, <2>1 DEF Elements
    <2> QED
      BY <1>0, <2>1, <2>2 DEF PathInv, TargetsRequested
  <1>7. CASE [Next]_vars /\ ~ SplitRepo /\ ~ SplitGroup /\ ~ SplitPkgbuild /\ ~ SplitAur
    <2>1. UNCHANGED targets
      BY <1>7 DEF Next, Split, Target, Recurse, SplitAssumed, SplitMissing, SplitDone, FillCache,
           FailCache, KeepMake, CalculateMake, Returned, RepoTargetsDone, PkgbuildTargetsDone,
           AurTargetsDone, Splitting, Enter, vars, RepoTargetSkipped, RepoTargetUnneeded, RepoTarget,
           PkgbuildTargetSkipped, PkgbuildTargetUnneeded, PkgbuildTarget, AurTargetSkipped,
           AurTargetMissing, AurTargetUnneeded, AurTarget, Targeting, TargetingAur, BuildDepDone,
           BuildDepInstalled, BuildDepFromRepo, BuildDepFromPkgbuild, BuildDepFromAur,
           BuildDepMissing, FinishBuild, RepoDepSatisfied, RepoDepFromRepo, RepoDepMissing,
           FinishRepo, Resolving, control
    <2> QED
      BY <1>1, <2>1
  <1> QED
    BY <1>4, <1>5, <1>6, <1>7

-----------------------------------------------------------------------------
(* The report. *)

(* The path of one missing dependency. *)
PathTrue(m) ==
    LET path == Append(m.stack, [pkg |-> m.dep.name, dep |-> m.dep])
    IN  /\ \E t \in Elements(Requested) : t.pkg = path[1].dep
        /\ \A i \in 1 .. Len(m.stack) : \E p \in Known :
               /\ p.name = path[i].pkg
               /\ IF i = 1 THEN \E t \in Elements(Requested) : Asks(t, p)
                           ELSE Satisfies(p, path[i].dep, NoVer)
               /\ path[i + 1].dep \in Elements(Depends(p))

LEMMA PathTrueKept ==
    ASSUME world' = world, cache \subseteq cache', NEW m, PathTrue(m)
    PROVE  PathTrue(m)'
  <1> DEFINE path == Append(m.stack, [pkg |-> m.dep.name, dep |-> m.dep])
  <1>1. PICK pth : pth = path
    OBVIOUS
  <1>2. /\ \E t \in Elements(Requested) : t.pkg = pth[1].dep
        /\ \A i \in 1 .. Len(m.stack) : \E p \in Known :
               /\ p.name = pth[i].pkg
               /\ IF i = 1 THEN \E t \in Elements(Requested) : Asks(t, p)
                           ELSE Satisfies(p, pth[i].dep, NoVer)
               /\ pth[i + 1].dep \in Elements(Depends(p))
    BY <1>1 DEF PathTrue
  <1>3. /\ Requested' = Requested /\ NoVer' = NoVer /\ Known \subseteq Known'
        /\ \A p : Depends(p)' = Depends(p)
        /\ \A t, p : Asks(t, p)' <=> Asks(t, p)
    BY ReadKept
  <1> HIDE DEF path
  <1>4. (/\ \E t \in Elements(Requested) : t.pkg = pth[1].dep
         /\ \A i \in 1 .. Len(m.stack) : \E p \in Known :
                /\ p.name = pth[i].pkg
                /\ IF i = 1 THEN \E t \in Elements(Requested) : Asks(t, p)
                            ELSE Satisfies(p, pth[i].dep, NoVer)
                /\ pth[i + 1].dep \in Elements(Depends(p)))'
    BY <1>2, <1>3
  <1> QED
    BY <1>1, <1>4 DEF PathTrue, path

(* What is reported from the middle of the recursion has the stack for its *)
(* path, which leads to the package that has the dependency.               *)
LEMMA StackIsPath ==
    ASSUME PathInv, stack # << >>, Top.todo # << >>
    PROVE  PathTrue([repo |-> NoRepo, dep |-> Current, stack |-> Path])
  <1> DEFINE n    == Len(stack)
             last == [pkg |-> Current.name, dep |-> Current]
             path == Append(Path, last)
  <1>1. /\ n \in Nat \ {0} /\ DOMAIN stack = 1 .. n /\ Top = stack[n]
        /\ Current \in Elements(Depends(Top.pkg))
    BY AdvancedChain
  <1>2. /\ Path \in Seq([pkg : Name, dep : Dep]) /\ Len(Path) = n
        /\ \A i \in 1 .. n : Path[i].pkg = stack[i].pkg.name /\ Path[i].dep = stack[i].dep
    <2>1. Path \in Seq([pkg : Name, dep : Dep])
      BY PathType DEF PathInv, TypeOK
    <2>2. Path = [i \in 1 .. n |-> [pkg |-> stack[i].pkg.name, dep |-> stack[i].dep]]
      BY DEF Path
    <2>3. Len(Path) = n
      BY <1>1, <2>1, <2>2
    <2> QED
      BY <2>1, <2>2, <2>3
  <1> HIDE DEF n, last
  <1>3. /\ path[n + 1] = last
        /\ \A i \in 1 .. n : path[i].pkg = stack[i].pkg.name /\ path[i].dep = stack[i].dep
    BY <1>1, <1>2
  <1>7. PICK r \in Elements(Requested) : r.pkg = stack[1].dep /\ Asks(r, stack[1].pkg)
    BY DEF PathInv, Rooted
  <1> HIDE DEF path
  <1>4. \E t \in Elements(Requested) : t.pkg = path[1].dep
    BY <1>1, <1>3, <1>7
  <1>5. ASSUME NEW i \in 1 .. n
        PROVE  \E p \in Known :
                   /\ p.name = path[i].pkg
                   /\ IF i = 1 THEN \E t \in Elements(Requested) : Asks(t, p)
                               ELSE Satisfies(p, path[i].dep, NoVer)
                   /\ path[i + 1].dep \in Elements(Depends(p))
    <2>1. stack[i].pkg \in Known /\ stack[i].pkg.name = path[i].pkg
      BY <1>1, <1>3 DEF PathInv, FramesKnown
    <2>2. IF i = 1 THEN \E t \in Elements(Requested) : Asks(t, stack[i].pkg)
                   ELSE Satisfies(stack[i].pkg, path[i].dep, NoVer)
      <3>1. CASE i = 1
        BY <1>7, <3>1
      <3>2. CASE i # 1
        <4>1. i \in DOMAIN stack /\ i > 1
          BY <1>1, <3>2
        <4>2. Satisfies(stack[i].pkg, stack[i].dep, NoVer)
          BY <4>1 DEF PathInv, Linked
        <4> QED
          BY <1>3, <3>2, <4>2
      <3> QED
        BY <3>1, <3>2
    <2>3. path[i + 1].dep \in Elements(Depends(stack[i].pkg))
      <3>1. CASE i = n
        BY <1>1, <1>3, <3>1 DEF last
      <3>2. CASE i # n
        <4>1. i + 1 \in 1 .. n /\ i + 1 > 1 /\ (i + 1) - 1 = i
          BY <1>1, <3>2
        <4>2. stack[i + 1].dep \in Elements(Depends(stack[(i + 1) - 1].pkg))
          BY <1>1, <4>1 DEF PathInv, Linked
        <4> QED
          BY <1>3, <4>1, <4>2
      <3> QED
        BY <3>1, <3>2
    <2> QED
      BY <2>1, <2>2, <2>3
  <1> QED
    BY <1>2, <1>4, <1>5 DEF PathTrue, path, last

(* What a step reports. *)
ReportsRequest ==
    \E t \in Elements(Requested), m \in Missing :
        /\ m.repo \in {NoRepo, t.repo} /\ m.dep = t.pkg /\ m.stack = << >>
        /\ missing' = Append(missing, m)

ReportsDep ==
    /\ stack # << >> /\ Top.todo # << >>
    /\ missing' = Append(missing, [repo |-> NoRepo, dep |-> Current, stack |-> Path])

LEMMA ReportKind ==
    ASSUME PathInv, [Next]_vars
    PROVE  \/ UNCHANGED missing
           \/ ReportsRequest /\ (SplitMissing \/ AurTargetMissing)
           \/ ReportsDep /\ (BuildDepMissing \/ RepoDepMissing)
  <1>1. CASE SplitMissing
    <2>1. Request \in Elements(Requested) /\ Request \in Targ
      BY <1>1, RequestType DEF SplitMissing, Splitting, Request, Elements, PathInv, TypeOK
    <2>2. PICK m : m = [repo |-> Request.repo, dep |-> Request.pkg, stack |-> << >>]
      OBVIOUS
    <2>3. m \in Missing /\ m.repo = Request.repo /\ m.dep = Request.pkg /\ m.stack = << >>
      BY <2>1, <2>2 DEF Missing, Targ
    <2> QED
      BY <1>1, <2>1, <2>2, <2>3 DEF SplitMissing, ReportsRequest
  <1>2. CASE AurTargetMissing
    <2>1. AurRequest \in Elements(targets.aur) /\ AurRequest \in Dep
      BY <1>2, TargetsType DEF AurTargetMissing, TargetingAur, Targeting, AurRequest, Elements,
                               PathInv, TypeOK
    <2>2. PICK t \in Elements(Requested) : t.pkg = AurRequest
      BY <2>1 DEF PathInv, TargetsRequested
    <2>3. Path = << >>
      BY <1>2 DEF AurTargetMissing, TargetingAur, Targeting, Path
    <2>4. PICK m : m = [repo |-> NoRepo, dep |-> AurRequest, stack |-> << >>]
      OBVIOUS
    <2>5. m \in Missing /\ m.repo = NoRepo /\ m.dep = AurRequest /\ m.stack = << >>
      BY <2>1, <2>4 DEF Missing
    <2> QED
      BY <1>2, <2>2, <2>3, <2>4, <2>5 DEF AurTargetMissing, ReportsRequest
  <1>3. CASE BuildDepMissing \/ RepoDepMissing
    BY <1>3 DEF BuildDepMissing, RepoDepMissing, Resolving, ReportsDep
  <1>4. CASE [Next]_vars /\ ~ SplitMissing /\ ~ AurTargetMissing /\ ~ BuildDepMissing /\ ~ RepoDepMissing
    BY <1>4 DEF Next, Split, Target, Recurse, SplitAssumed, SplitRepo, SplitGroup, SplitPkgbuild,
         SplitAur, SplitDone, FillCache, FailCache, KeepMake, CalculateMake, Returned,
         RepoTargetsDone, PkgbuildTargetsDone, AurTargetsDone, Splitting, Enter, vars,
         RepoTargetSkipped, RepoTargetUnneeded, RepoTarget, PkgbuildTargetSkipped,
         PkgbuildTargetUnneeded, PkgbuildTarget, AurTargetSkipped, AurTargetUnneeded, AurTarget,
         Targeting, TargetingAur, BuildDepDone, BuildDepInstalled, BuildDepFromRepo,
         BuildDepFromPkgbuild, BuildDepFromAur, FinishBuild, RepoDepSatisfied, RepoDepFromRepo,
         FinishRepo, Resolving
  <1> QED
    BY <1>1, <1>2, <1>3, <1>4

LEMMA NextMissing ==
    ASSUME PathInv, [Next]_vars
    PROVE  MissingPath'
  <1>1. world' = world /\ cache \subseteq cache'
    BY WorldKept
  <1>2. missing \in Seq(Missing) /\ \A m \in Elements(missing) : PathTrue(m)
    BY DEF PathInv, TypeOK, MissingPath, PathTrue
  <1>3. ASSUME NEW x \in Elements(missing') PROVE PathTrue(x)
    <2>1. CASE UNCHANGED missing
      BY <1>2, <1>3, <2>1
    <2>2. CASE ReportsRequest
      <3>1. PICK t \in Elements(Requested), m \in Missing :
                m.dep = t.pkg /\ m.stack = << >> /\ missing' = Append(missing, m)
        BY <2>2 DEF ReportsRequest
      <3>2. PathTrue(m)
        BY <3>1 DEF PathTrue
      <3>3. Elements(missing') \subseteq Elements(missing) \cup {m}
        BY <1>2, <3>1 DEF Elements
      <3> QED
        BY <1>2, <1>3, <3>2, <3>3
    <2>3. CASE ReportsDep
      <3> DEFINE m == [repo |-> NoRepo, dep |-> Current, stack |-> Path]
      <3>1. PathTrue(m) /\ missing' = Append(missing, m)
        BY <2>3, StackIsPath DEF ReportsDep
      <3> HIDE DEF m
      <3>2. Elements(missing') \subseteq Elements(missing) \cup {m}
        BY <1>2, <3>1 DEF Elements
      <3> QED
        BY <1>2, <1>3, <3>1, <3>2
    <2> QED
      BY <2>1, <2>2, <2>3, ReportKind
  <1>4. ASSUME NEW m \in Elements(missing') PROVE PathTrue(m)'
    BY <1>1, <1>2, <1>3, PathTrueKept
  <1> QED
    BY <1>4 DEF MissingPath, PathTrue

LEMMA InitPath == Fresh => PathInv
  BY InitTypeOK DEF Fresh, PathInv, TargetsRequested, FramesKnown, Rooted, Linked, MissingPath, Elements

LEMMA NextPath == PathInv /\ [Next]_vars => PathInv'
  BY NextTypeOK, NextTargets, NextChain, NextMissing DEF PathInv, Chain

(* The stack is at all times a chain of packages from a request to the     *)
(* package being resolved, and what split_targets found are the requests.  *)
THEOREM ChainKept == Spec => []PathInv
  BY InitFresh, InitPath, NextPath, PTL DEF Spec

(* Resolver::stack as copied into a missing dependency is such a chain:    *)
(* the first package was asked for, each one satisfies the dependency that *)
(* it was brought in for, and the last has the missing dependency.         *)
THEOREM PathReported == Spec => []MissingPath
  <1>1. PathInv => MissingPath
    BY DEF PathInv
  <1> QED
    BY <1>1, ChainKept, PTL
=============================================================================
