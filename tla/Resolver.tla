----------------------------- MODULE Resolver ------------------------------
(***************************************************************************)
(* One resolution: Resolver::resolve and everything below it except the    *)
(* AUR requests (resolve.rs 296-858, 1116-1398).  The phases are those of  *)
(* resolve(): split the targets, fill the AUR cache, resolve the repo,     *)
(* PKGBUILD and AUR targets in that order, recompute the make marks.       *)
(*                                                                         *)
(* The recursion of resolve_repo_pkg and resolve_aur_pkg_deps is the       *)
(* variable stack: a frame per call, so its <<package, dependency>> pairs  *)
(* are also Resolver::stack, and a step handles one dependency of the top  *)
(* frame or returns from it.                                               *)
(***************************************************************************)
EXTENDS Catalog

CONSTANT Worlds    \* the requests and databases to resolve

ASSUME WorldsAssumption == Worlds \subseteq World

(* The cache is iterated over in the order of world.aur. *)
ASSUME CachedAssumption == \A w \in Worlds : w.cached \subseteq Elements(w.aur)

VARIABLES
    phase,         \* where resolve() is
    next,          \* the position in the list the phase goes through
    targets,       \* Targets: what split_targets found, by source
    seen,          \* names of the repo packages resolve_repo_pkg was entered for
    seen_target,   \* AUR targets resolve_aur_target was entered for
    resolved,      \* dependencies resolve_aur_pkg_deps has decided
    stack,         \* the frames of the recursion, outermost first
    missing,       \* Actions::missing
    unneeded,      \* Actions::unneeded
    build,         \* Actions::build: a sequence of bases, each with packages
    install        \* Actions::install

inputs  == <<world, cache>>
control == <<phase, next, targets>>
marks   == <<seen, seen_target, resolved>>
vars    == <<inputs, control, marks, stack, missing, unneeded, build, install>>

-----------------------------------------------------------------------------
(* Types. *)

ToBuild == {"aur", "pkgbuild"}

Frame ==
    [ pkg     : Package,      \* DepMissing::pkg, and the package being resolved
      dep     : Dep,          \* DepMissing::dep: the dependency it satisfies
      todo    : Seq(Dep),     \* dependencies not yet looked at
      make    : BOOLEAN,      \* the make mark it is pushed with
      submake : BOOLEAN,      \* the make mark its dependencies are pushed with
      target  : BOOLEAN ]     \* the target mark it is pushed with

Entry == [pkg : Package, make : BOOLEAN, target : BOOLEAN]

Base == [ src : ToBuild, repo : RepoName \cup {NoRepo}, base : Name,
          pkgs : Seq(Entry), build : BOOLEAN ]

(* A target that split_targets reports keeps its repository: its string is *)
(* `repo/dep`.  Whatever is reported later is a plain dependency.          *)
Missing == [repo : RepoName \cup {NoRepo}, dep : Dep, stack : Seq([pkg : Name, dep : Dep])]

Unneeded == [targ : Targ, ver : Nat]

Targets == [ repo     : Seq([targ : Targ, pkg : PackageOf("repo")]),
             pkgbuild : Seq(Targ),
             aur      : Seq(Dep) ]

Phase == {"split", "cache", "repo", "pkgbuild", "aur", "make", "done", "failed"}

TypeOK ==
    /\ world \in World
    /\ cache \in SUBSET PackageOf("aur")
    /\ phase \in Phase
    /\ next \in Nat \ {0}
    /\ targets \in Targets
    /\ seen \in SUBSET Name
    /\ seen_target \in SUBSET Dep
    /\ resolved \in SUBSET Dep
    /\ stack \in Seq(Frame)
    /\ missing \in Seq(Missing)
    /\ unneeded \in Seq(Unneeded)
    /\ build \in Seq(Base)
    /\ install \in Seq([pkg : PackageOf("repo"), make : BOOLEAN, target : BOOLEAN])

Init ==
    /\ world \in Worlds
    /\ cache = world.cached
    /\ phase = "split" /\ next = 1
    /\ targets = [repo |-> << >>, pkgbuild |-> << >>, aur |-> << >>]
    /\ seen = {} /\ seen_target = {} /\ resolved = {}
    /\ stack = << >>
    /\ missing = << >> /\ unneeded = << >> /\ build = << >> /\ install = << >>

-----------------------------------------------------------------------------
(* Splitting the targets (split_targets). *)

Requested == world.deps \o world.make_deps

WhereIsTarget(t) ==
    CASE t.repo = NoRepo                -> "unspecified"
      [] t.repo \in world.dbs           -> "repo"
      [] t.repo \in world.pkgbuild_repos \ world.dbs -> "pkgbuild"
      [] t.repo = world.aur_namespace
         /\ t.repo \notin (world.dbs \cup world.pkgbuild_repos \cup {NoRepo}) -> "aur"
      [] OTHER                          -> "missing"

InRepos(t)     == /\ Flag("REPO") \/ ~ world.is_target
                  /\ WhereIsTarget(t) \in {"repo", "unspecified"}
InPkgbuilds(t) == /\ Flag("PKGBUILDS") \/ ~ world.is_target
                  /\ WhereIsTarget(t) \in {"pkgbuild", "unspecified"}
InAur(t)       == /\ Flag("AUR") \/ ~ world.is_target
                  /\ WhereIsTarget(t) \in {"aur", "unspecified"}

(* A group is looked up by the whole string: no group is called `g>=1`.    *)
GroupMembers(t) ==
    { i \in DOMAIN world.repos : /\ t.pkg.mod = "any"
                                 /\ t.pkg.name \in world.repos[i].groups
                                 /\ t.repo \in {NoRepo, world.repos[i].repo} }

(* The packages taken from the group: all of them in database order, or    *)
(* what the group callback picks, in any order.                            *)
GroupPicks(t) ==
    LET members == GroupMembers(t)
        picks   == UNION { [1 .. n -> members] : n \in 0 .. Cardinality(members) }
        Once(g) == \A i, j \in DOMAIN g : g[i] = g[j] => i = j
        All(g)  == /\ Len(g) = Cardinality(members)
                   /\ \A i, j \in DOMAIN g : i < j => g[i] < g[j]
    IN  { g \in picks : IF world.group_cb THEN Once(g) ELSE All(g) }

FoundInRepos(t)  == InRepos(t) /\ FindRepoTargetSatisfier(t) # {}
FoundAsGroup(t)  == InRepos(t) /\ world.is_target /\ GroupMembers(t) # {}
FoundPkgbuild(t) == InPkgbuilds(t) /\ FindPkgbuildRepoDep(t.repo, t.pkg) # {}
Assumed(t)       == ~ world.is_target /\ t.repo = NoRepo /\ AssumeInstalled(t.pkg)

Request == Requested[next]

Splitting ==
    /\ phase = "split" /\ next \in DOMAIN Requested
    /\ next' = next + 1
    /\ UNCHANGED <<inputs, phase, marks, stack, unneeded, build, install>>

SplitAssumed ==
    /\ Splitting /\ Assumed(Request)
    /\ UNCHANGED <<targets, missing>>

SplitRepo ==
    /\ Splitting /\ ~ Assumed(Request) /\ FoundInRepos(Request)
    /\ \E p \in FindRepoTargetSatisfier(Request) :
           targets' = [targets EXCEPT !.repo = Append(@, [targ |-> Request, pkg |-> p])]
    /\ UNCHANGED missing

SplitGroup ==
    /\ Splitting /\ ~ Assumed(Request) /\ ~ FoundInRepos(Request) /\ FoundAsGroup(Request)
    /\ \E g \in GroupPicks(Request) :
           LET found == [i \in 1 .. Len(g) |-> [targ |-> Request, pkg |-> world.repos[g[i]]]]
           IN  targets' = [targets EXCEPT !.repo = @ \o found]
    /\ UNCHANGED missing

SplitPkgbuild ==
    /\ Splitting /\ ~ Assumed(Request) /\ ~ FoundInRepos(Request) /\ ~ FoundAsGroup(Request)
    /\ FoundPkgbuild(Request)
    /\ targets' = [targets EXCEPT !.pkgbuild = Append(@, Request)]
    /\ UNCHANGED missing

SplitAur ==
    /\ Splitting /\ ~ Assumed(Request) /\ ~ FoundInRepos(Request) /\ ~ FoundAsGroup(Request)
    /\ ~ FoundPkgbuild(Request) /\ InAur(Request)
    /\ targets' = [targets EXCEPT !.aur = Append(@, Request.pkg)]
    /\ UNCHANGED missing

(* Fault: the target is forgotten. *)
SplitMissingSilently ==
    /\ Splitting /\ ~ Assumed(Request) /\ ~ FoundInRepos(Request) /\ ~ FoundAsGroup(Request)
    /\ ~ FoundPkgbuild(Request) /\ ~ InAur(Request)
    /\ UNCHANGED <<missing, targets>>

SplitMissing ==
    /\ Splitting /\ ~ Assumed(Request) /\ ~ FoundInRepos(Request) /\ ~ FoundAsGroup(Request)
    /\ ~ FoundPkgbuild(Request) /\ ~ InAur(Request)
    /\ missing' = Append(missing, [repo |-> Request.repo, dep |-> Request.pkg, stack |-> << >>])
    /\ UNCHANGED targets

-----------------------------------------------------------------------------
(* From phase to phase (resolve). *)

(* Fault: the next list is indexed from 0. *)
EnterAtZero(from, to, size) ==
    /\ phase = from /\ stack = << >> /\ next = size + 1
    /\ phase' = to /\ next' = 0
    /\ UNCHANGED <<targets, marks, stack, missing, unneeded, world>>

Enter(from, to, size) ==
    /\ phase = from /\ stack = << >> /\ next = size + 1
    /\ phase' = to /\ next' = 1
    /\ UNCHANGED <<targets, marks, stack, missing, unneeded, world>>

SplitDone == /\ Enter("split", "cache", Len(Requested))
             /\ UNCHANGED <<cache, build, install>>

(* cache_aur_pkgs_recursive, in one step: the requests may bring any       *)
(* package of the AUR into the cache, and resolved is cleared again.       *)
FillCache == /\ Enter("cache", "repo", 0)
             /\ cache' \in { cache \cup S : S \in SUBSET Elements(world.aur) }
             /\ UNCHANGED <<build, install>>

(* An RPC error ends the resolution; what was fetched stays in the cache.  *)
FailCache == /\ Enter("cache", "failed", 0)
             /\ cache' \in { cache \cup S : S \in SUBSET Elements(world.aur) }
             /\ UNCHANGED <<build, install>>

RepoTargetsDone == /\ Enter("repo", "pkgbuild", Len(targets.repo))
                   /\ UNCHANGED <<cache, build, install>>

PkgbuildTargetsDone == /\ Enter("pkgbuild", "aur", Len(targets.pkgbuild))
                       /\ UNCHANGED <<cache, build, install>>

AurTargetsDone == /\ Enter("aur", "make", Len(targets.aur))
                  /\ UNCHANGED <<cache, build, install>>

-----------------------------------------------------------------------------
(* The plan so far. *)

BuildEntries == UNION { Elements(build[i].pkgs) : i \in DOMAIN build }

SatisfiedBuild(d) == \E e \in BuildEntries : Satisfies(e.pkg, d, NoVer)

SatisfiedInstall(d) == \E e \in Elements(install) : Satisfies(e.pkg, d, NoVer)

(* Fault: the package joins its base wherever that is in the list. *)
PushBuildMerged(e) ==
    LET Same(b) == b.src = e.pkg.src /\ b.base = e.pkg.base
        new     == [ src |-> e.pkg.src, repo |-> e.pkg.repo, base |-> e.pkg.base,
                     pkgs |-> <<e>>, build |-> TRUE ]
    IN  IF \E i \in DOMAIN build : Same(build[i])
        THEN [i \in DOMAIN build |-> IF Same(build[i])
                                     THEN [build[i] EXCEPT !.pkgs = Append(@, e)] ELSE build[i]]
        ELSE Append(build, new)

(* Fault: every entry of a base is built. *)
PushBuildAgain(e) ==
    LET last    == Len(build)
        Same(b) == b.src = e.pkg.src /\ b.base = e.pkg.base
        new     == [ src |-> e.pkg.src, repo |-> e.pkg.repo, base |-> e.pkg.base,
                     pkgs |-> <<e>>, build |-> TRUE ]
    IN  IF build # << >> /\ Same(build[last])
        THEN [build EXCEPT ![last].pkgs = Append(@, e)]
        ELSE Append(build, new)

(* push_aur_build and push_pkgbuild_build: onto the last base if it is the *)
(* package's own, else as a new base, to be built if it is the first one.  *)
PushBuild(e) ==
    LET last    == Len(build)
        Same(b) == b.src = e.pkg.src /\ b.base = e.pkg.base
        new     == [ src |-> e.pkg.src, repo |-> e.pkg.repo, base |-> e.pkg.base,
                     pkgs |-> <<e>>, build |-> \A b \in Elements(build) : ~ Same(b) ]
    IN  IF build # << >> /\ Same(build[last])
        THEN [build EXCEPT ![last].pkgs = Append(@, e)]
        ELSE Append(build, new)

-----------------------------------------------------------------------------
(* The recursion. *)

Top == stack[Len(stack)]

(* The stack with the top frame's next dependency dealt with. *)
Advanced == [stack EXCEPT ![Len(stack)].todo = Tail(@)]

Popped == SubSeq(stack, 1, Len(stack) - 1)

(* Fault: the innermost entry is popped too early. *)
PathPopped == [i \in 1 .. Len(stack) - 1 |-> [pkg |-> stack[i].pkg.name, dep |-> stack[i].dep]]

Path == [i \in 1 .. Len(stack) |-> [pkg |-> stack[i].pkg.name, dep |-> stack[i].dep]]

(* Fault: checkdepends are resolved whatever the flags say. *)
NewFrameChecked(p, d, make, submake, target) ==
    [ pkg |-> p, dep |-> d, todo |-> Depends(p) \o p.checkdepends,
      make |-> make, submake |-> submake, target |-> target ]

NewFrame(p, d, make, submake, target) ==
    [ pkg |-> p, dep |-> d, todo |-> Depends(p),
      make |-> make, submake |-> submake, target |-> target ]

IsMake(d) == \E t \in Elements(world.make_deps) : t.pkg = d

IsDevel(d) == d \in world.devel

(* Fault: the loop stays at its target. *)
TargetingForever(in, list) ==
    /\ phase = in /\ stack = << >> /\ next \in DOMAIN list
    /\ next' = next
    /\ UNCHANGED <<inputs, phase, targets, build, install>>

Targeting(in, list) ==
    /\ phase = in /\ stack = << >> /\ next \in DOMAIN list
    /\ next' = next + 1
    /\ UNCHANGED <<inputs, phase, targets, build, install>>

-----------------------------------------------------------------------------
(* Repo targets (resolve_repo_target and the entry of resolve_repo_pkg).   *)

RepoRequest == targets.repo[next]

RepoTargetSkipped ==
    /\ Targeting("repo", targets.repo)
    /\ ~ world.is_target /\ SatisfiedLocalStrict(RepoRequest.targ.pkg)
    /\ UNCHANGED <<marks, stack, missing, unneeded>>

RepoTargetUnneeded ==
    /\ Targeting("repo", targets.repo)
    /\ world.is_target \/ ~ SatisfiedLocalStrict(RepoRequest.targ.pkg)
    /\ Flag("NEEDED")
    /\ \E q \in UpToDate(RepoRequest.pkg) :
           unneeded' = Append(unneeded, [targ |-> RepoRequest.targ, ver |-> q.ver])
    /\ UNCHANGED <<marks, stack, missing>>

(* Fault: a target is entered although it was seen. *)
RepoTargetUnseen ==
    /\ Targeting("repo", targets.repo)
    /\ world.is_target \/ ~ SatisfiedLocalStrict(RepoRequest.targ.pkg)
    /\ Flag("NEEDED") => UpToDate(RepoRequest.pkg) = {}
    /\ seen' = seen \cup {RepoRequest.pkg.name}
    /\ stack' = <<NewFrame(RepoRequest.pkg, RepoRequest.targ.pkg, FALSE, TRUE, TRUE)>>
    /\ UNCHANGED <<seen_target, resolved, missing, unneeded>>

RepoTarget ==
    /\ Targeting("repo", targets.repo)
    /\ world.is_target \/ ~ SatisfiedLocalStrict(RepoRequest.targ.pkg)
    /\ Flag("NEEDED") => UpToDate(RepoRequest.pkg) = {}
    /\ seen' = seen \cup {RepoRequest.pkg.name}
    /\ stack' = IF RepoRequest.pkg.name \in seen THEN stack
                ELSE <<NewFrame(RepoRequest.pkg, RepoRequest.targ.pkg,
                                IsMake(RepoRequest.targ.pkg), TRUE, world.is_target)>>
    /\ UNCHANGED <<seen_target, resolved, missing, unneeded>>

-----------------------------------------------------------------------------
(* PKGBUILD targets (resolve_pkgbuild_target).  Its exit for a target that *)
(* no PKGBUILD satisfies cannot be taken: split_targets found one by the   *)
(* same lookup in the same repos.                                          *)

PkgbuildRequest == targets.pkgbuild[next]

PkgbuildTargetSkipped ==
    /\ Targeting("pkgbuild", targets.pkgbuild)
    /\ ShouldSkipAurPkg(PkgbuildRequest.pkg, world.is_target)
    /\ UNCHANGED <<marks, stack, missing, unneeded>>

(* The installed package that makes building p for d unneeded. *)
NotNeeded(p, d) ==
    { q \in UpToDate(p) : (Flag("NEEDED") \/ ~ world.is_target) /\ ~ IsDevel(d) }

PkgbuildTargetUnneeded ==
    /\ Targeting("pkgbuild", targets.pkgbuild)
    /\ ~ ShouldSkipAurPkg(PkgbuildRequest.pkg, world.is_target)
    /\ \E p \in FindPkgbuildRepoDep(PkgbuildRequest.repo, PkgbuildRequest.pkg) :
       \E q \in NotNeeded(p, PkgbuildRequest.pkg) :
           unneeded' = Append(unneeded, [targ |-> PkgbuildRequest, ver |-> q.ver])
    /\ UNCHANGED <<marks, stack, missing>>

PkgbuildTarget ==
    /\ Targeting("pkgbuild", targets.pkgbuild)
    /\ ~ ShouldSkipAurPkg(PkgbuildRequest.pkg, world.is_target)
    /\ \E p \in FindPkgbuildRepoDep(PkgbuildRequest.repo, PkgbuildRequest.pkg) :
           /\ NotNeeded(p, PkgbuildRequest.pkg) = {}
           /\ stack' = <<NewFrame(p, PkgbuildRequest.pkg, FALSE,
                                  IsMake(PkgbuildRequest.pkg), world.is_target)>>
    /\ UNCHANGED <<marks, missing, unneeded>>

-----------------------------------------------------------------------------
(* AUR targets (resolve_aur_target). *)

AurRequest == targets.aur[next]

TargetingAur ==
    /\ Targeting("aur", targets.aur)
    /\ seen_target' = seen_target \cup {AurRequest}
    /\ UNCHANGED <<seen, resolved>>

AurTargetSkipped ==
    /\ TargetingAur
    /\ ShouldSkipAurPkg(AurRequest, world.is_target)
    /\ UNCHANGED <<stack, missing, unneeded>>

AurTargetMissing ==
    /\ TargetingAur
    /\ ~ ShouldSkipAurPkg(AurRequest, world.is_target)
    /\ SelectSatisfierAurCache(AurRequest, world.is_target) = {}
    /\ missing' = Append(missing, [repo |-> NoRepo, dep |-> AurRequest, stack |-> Path])
    /\ UNCHANGED <<stack, unneeded>>

AurTargetUnneeded ==
    /\ TargetingAur
    /\ ~ ShouldSkipAurPkg(AurRequest, world.is_target)
    /\ \E p \in SelectSatisfierAurCache(AurRequest, world.is_target) :
       \E q \in NotNeeded(p, AurRequest) :
           unneeded' = Append(unneeded, [targ |-> [repo |-> NoRepo, pkg |-> AurRequest],
                                         ver  |-> q.ver])
    /\ UNCHANGED <<stack, missing>>

AurTarget ==
    /\ TargetingAur
    /\ ~ ShouldSkipAurPkg(AurRequest, world.is_target)
    /\ \E p \in SelectSatisfierAurCache(AurRequest, world.is_target) :
           /\ NotNeeded(p, AurRequest) = {}
           /\ stack' = <<NewFrame(p, AurRequest, FALSE, IsMake(AurRequest), world.is_target)>>
    /\ UNCHANGED <<missing, unneeded>>

-----------------------------------------------------------------------------
(* The dependencies of a package being built (resolve_aur_pkg_deps). *)

Current == Head(Top.todo)

Resolving(srcs) ==
    /\ stack # << >> /\ Top.pkg.src \in srcs /\ Top.todo # << >>
    /\ UNCHANGED <<inputs, control, seen_target, unneeded, build, install>>

Done(d) == \/ AssumeInstalled(d)
           \/ SatisfiedBuild(d)
           \/ d \in resolved
           \/ SatisfiedInstall(d)

DepIsAurTarg(d) ==
    \E p \in FindSatisfierAurCache(d) : \E t \in Elements(targets.aur) \ seen_target :
        Satisfies(p, t, NoVer)

IsAurTarg(d) == ~ SamePkgbuild(Top.pkg, d) /\ DepIsAurTarg(d)

(* d is installed, and neither an AUR target nor built beside Top.pkg. *)
LeftInstalled(d) == ~ SamePkgbuild(Top.pkg, d) /\ ShouldSkipAurPkg(d, IsAurTarg(d))

FromRepo(d) == IF SamePkgbuild(Top.pkg, d) \/ IsAurTarg(d) THEN {} ELSE FindRepoSatisfier(d)

(* d has to be built: what neither is installed nor comes from a sync db. *)
MustBuild(d) == ~ Done(d) /\ ~ LeftInstalled(d) /\ FromRepo(d) = {}

BuildDepDone ==
    /\ Resolving(ToBuild) /\ Done(Current)
    /\ stack' = Advanced
    /\ UNCHANGED <<seen, resolved, missing>>

BuildDepInstalled ==
    /\ Resolving(ToBuild) /\ ~ Done(Current) /\ LeftInstalled(Current)
    /\ resolved' = resolved \cup {Current}
    /\ stack' = Advanced
    /\ UNCHANGED <<seen, missing>>

(* A repo package is entered once; one for an installed dependency (under  *)
(* RESOLVE_SATISFIED_PKGBUILDS) is not entered at all.                     *)
EnterRepoPkg(p, d) ==
    /\ seen' = seen \cup {p.name}
    /\ stack' = IF p.name \in seen THEN Advanced
                ELSE Append(Advanced, NewFrame(p, d, TRUE, TRUE, FALSE))

(* Fault: installed is decided by name, whatever the version. *)
BuildDepFromRepoByName ==
    /\ Resolving(ToBuild) /\ ~ Done(Current) /\ ~ LeftInstalled(Current)
    /\ resolved' = resolved \cup {Current}
    /\ \E p \in FromRepo(Current) :
           IF InstalledName(Current.name) THEN stack' = Advanced /\ seen' = seen
                                          ELSE EnterRepoPkg(p, Current)
    /\ UNCHANGED missing

BuildDepFromRepo ==
    /\ Resolving(ToBuild) /\ ~ Done(Current) /\ ~ LeftInstalled(Current)
    /\ resolved' = resolved \cup {Current}
    /\ \E p \in FromRepo(Current) :
           IF SatisfiedLocal(Current) THEN stack' = Advanced /\ seen' = seen
                                      ELSE EnterRepoPkg(p, Current)
    /\ UNCHANGED missing

BuildDepFromPkgbuild ==
    /\ Resolving(ToBuild) /\ MustBuild(Current)
    /\ resolved' = resolved \cup {Current}
    /\ \E p \in FindPkgbuildRepoDep(NoRepo, Current) :
           stack' = Append(Advanced, NewFrame(p, Current, Top.submake, TRUE, FALSE))
    /\ UNCHANGED <<seen, missing>>

(* Fault: the dependency is not marked resolved before the call. *)
BuildDepFromAurUnresolved ==
    /\ Resolving(ToBuild) /\ MustBuild(Current) /\ FindPkgbuildRepoDep(NoRepo, Current) = {}
    /\ \E p \in SelectSatisfierAurCache(Current, FALSE) :
           stack' = Append(Advanced, NewFrame(p, Current, Top.submake, TRUE, FALSE))
    /\ UNCHANGED <<seen, missing, resolved>>

BuildDepFromAur ==
    /\ Resolving(ToBuild) /\ MustBuild(Current) /\ FindPkgbuildRepoDep(NoRepo, Current) = {}
    /\ resolved' = resolved \cup {Current}
    /\ \E p \in SelectSatisfierAurCache(Current, FALSE) :
           stack' = Append(Advanced, NewFrame(p, Current, Top.submake, TRUE, FALSE))
    /\ UNCHANGED <<seen, missing>>

BuildDepMissing ==
    /\ Resolving(ToBuild) /\ MustBuild(Current) /\ FindPkgbuildRepoDep(NoRepo, Current) = {}
    /\ SelectSatisfierAurCache(Current, FALSE) = {}
    /\ resolved' = resolved \cup {Current}
    /\ missing' = Append(missing, [repo |-> NoRepo, dep |-> Current, stack |-> Path])
    /\ stack' = Advanced
    /\ UNCHANGED seen

(* Fault: a target is pushed although it is there. *)
FinishBuildAgain ==
    /\ stack # << >> /\ Top.pkg.src \in ToBuild /\ Top.todo = << >>
    /\ build' = PushBuild([pkg |-> Top.pkg, make |-> Top.make, target |-> Top.target])
    /\ stack' = Popped
    /\ UNCHANGED <<inputs, control, marks, missing, unneeded, install>>

(* Fault: a package is not pushed if its base is there. *)
FinishBuildOfBase ==
    LET e     == [pkg |-> Top.pkg, make |-> Top.make, target |-> Top.target]
        there == \E b \in BuildEntries : b.pkg.base = Top.pkg.base
    IN
    /\ stack # << >> /\ Top.pkg.src \in ToBuild /\ Top.todo = << >>
    /\ build' = IF there THEN build ELSE PushBuild(e)
    /\ stack' = Popped
    /\ UNCHANGED <<inputs, control, marks, missing, unneeded, install>>

(* The return of resolve_aur_pkg_deps and what its caller pushes.  A       *)
(* target that is in the plan already, by name, is not pushed again.       *)
FinishBuild ==
    LET e     == [pkg |-> Top.pkg, make |-> Top.make, target |-> Top.target]
        there == Len(stack) = 1 /\ \E b \in BuildEntries : b.pkg.name = Top.pkg.name
    IN
    /\ stack # << >> /\ Top.pkg.src \in ToBuild /\ Top.todo = << >>
    /\ build' = IF there THEN build ELSE PushBuild(e)
    /\ stack' = Popped
    /\ UNCHANGED <<inputs, control, marks, missing, unneeded, install>>

-----------------------------------------------------------------------------
(* The dependencies of a repo package (resolve_repo_pkg). *)

RepoDepDone(d) == SatisfiedInstall(d) \/ SatisfiedLocal(d) \/ AssumeInstalled(d)

RepoDepSatisfied ==
    /\ Resolving({"repo"}) /\ RepoDepDone(Current)
    /\ stack' = Advanced
    /\ UNCHANGED <<seen, resolved, missing>>

RepoDepFromRepo ==
    /\ Resolving({"repo"}) /\ ~ RepoDepDone(Current)
    /\ \E p \in FindRepoSatisfier(Current) : EnterRepoPkg(p, Current)
    /\ UNCHANGED <<resolved, missing>>

RepoDepMissing ==
    /\ Resolving({"repo"}) /\ ~ RepoDepDone(Current) /\ FindRepoSatisfier(Current) = {}
    /\ missing' = Append(missing, [repo |-> NoRepo, dep |-> Current, stack |-> Path])
    /\ stack' = Advanced
    /\ UNCHANGED <<seen, resolved>>

FinishRepo ==
    /\ stack # << >> /\ Top.pkg.src = "repo" /\ Top.todo = << >>
    /\ install' = Append(install, [pkg |-> Top.pkg, make |-> Top.make, target |-> Top.target])
    /\ stack' = Popped
    /\ UNCHANGED <<inputs, control, marks, missing, unneeded, build>>

-----------------------------------------------------------------------------
(* The make marks (calculate_make): a package stays make-only unless a     *)
(* chain of runtime dependencies reaches it from one that is not.          *)

Entries == BuildEntries \cup Elements(install)

StillMake(e) ==
    LET pkgs  == { x.pkg : x \in Entries }
        seeds == { x.pkg : x \in { y \in Entries : ~ y.make } }
    IN  e.make /\ ~ NeededBy(Runtime(seeds, pkgs, NoVer), e.pkg, NoVer)

Remark(list) == [i \in DOMAIN list |-> [list[i] EXCEPT !.make = StillMake(list[i])]]

CalculateMake ==
    /\ Enter("make", "done", 0) /\ Flag("CALCULATE_MAKE")
    /\ install' = Remark(install)
    /\ build' = [i \in DOMAIN build |-> [build[i] EXCEPT !.pkgs = Remark(@)]]
    /\ UNCHANGED cache

KeepMake ==
    /\ Enter("make", "done", 0) /\ ~ Flag("CALCULATE_MAKE")
    /\ UNCHANGED <<cache, build, install>>

-----------------------------------------------------------------------------

Split   == \/ SplitAssumed \/ SplitRepo \/ SplitGroup \/ SplitPkgbuild
           \/ SplitAur \/ SplitMissing \/ SplitDone
Target  == \/ RepoTargetSkipped \/ RepoTargetUnneeded \/ RepoTarget
           \/ PkgbuildTargetSkipped \/ PkgbuildTargetUnneeded \/ PkgbuildTarget
           \/ AurTargetSkipped \/ AurTargetMissing \/ AurTargetUnneeded \/ AurTarget
           \/ RepoTargetsDone \/ PkgbuildTargetsDone \/ AurTargetsDone
Recurse == \/ BuildDepDone \/ BuildDepInstalled \/ BuildDepFromRepo
           \/ BuildDepFromPkgbuild \/ BuildDepFromAur \/ BuildDepMissing \/ FinishBuild
           \/ RepoDepSatisfied \/ RepoDepFromRepo \/ RepoDepMissing \/ FinishRepo

(* resolve() has returned. *)
Returned == phase \in {"done", "failed"} /\ UNCHANGED vars

Next == Split \/ FillCache \/ FailCache \/ Target \/ Recurse
        \/ CalculateMake \/ KeepMake \/ Returned

(* resolve() is one task that keeps running: its only waits are for RPC    *)
(* requests, which are answered or fail.                                   *)
Spec == Init /\ [][Next]_vars /\ WF_vars(Next)
=============================================================================
