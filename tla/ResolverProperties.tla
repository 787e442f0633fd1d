------------------------- MODULE ResolverProperties ------------------------
(***************************************************************************)
(* What a resolution promises, over the states of Resolver.                *)
(***************************************************************************)
EXTENDS Resolver

UniqueRepoNames ==
    \A i, j \in DOMAIN world.repos : world.repos[i].name = world.repos[j].name => i = j

-----------------------------------------------------------------------------
(* The plan is complete. *)

IsMissing(d) == \E m \in Elements(missing) : m.repo = NoRepo /\ m.dep = d

Accounted(d) == \/ AssumeInstalled(d) \/ SatisfiedLocal(d)
                \/ SatisfiedBuild(d)  \/ SatisfiedInstall(d)
                \/ IsMissing(d)

(* Every dependency of every package of the finished plan is installed,    *)
(* assumed, in the plan, or reported missing.  What resolve_aur_pkg_deps   *)
(* skips because it is in `resolved`, and resolve_repo_pkg because it is   *)
(* in `seen`, is decided by then, even if it was only being resolved when  *)
(* it was skipped.                                                         *)
NothingDropped ==
    phase = "done" /\ UniqueRepoNames =>
        \A e \in Entries : \A d \in Elements(Depends(e.pkg)) : Accounted(d)

Known == Elements(world.repos) \cup Elements(world.pkgbuilds) \cup cache

(* p is what the string of t asks for, or a member of the group it names.  *)
Asks(t, p) == \/ Satisfies(p, t.pkg, NoVer)
              \/ t.pkg.mod = "any" /\ t.pkg.name \in p.groups

(* p is from the place that t names, if it names one. *)
FromPlace(t, p) ==
    t.repo # NoRepo => /\ p.src = WhereIsTarget(t)
                       /\ p.src = "aur" \/ p.repo = t.repo

(* A package of p's name is installed, or built, if p would be. *)
Taken(p) == \E e \in Entries : e.pkg.name = p.name /\ (e.pkg.src = "repo" <=> p.src = "repo")

(* How t is written in a report: an AUR target loses its repository. *)
Reported(t) ==
    IF WhereIsTarget(t) = "aur" THEN {t, [repo |-> NoRepo, pkg |-> t.pkg]} ELSE {t}

(* No request is lost between split_targets and the three resolve_*_target *)
(* functions.  Each is answered by a package from the place it names, or   *)
(* reported as it was written, as unneeded or as missing, or, for a        *)
(* dependency, there already.  The package is in the plan, or was left out *)
(* for another one of its name.  Of a group the user may pick nothing.     *)
RequestsAnswered ==
    phase = "done" =>
        \A t \in Elements(Requested) :
            \/ \E p \in Known : Asks(t, p) /\ FromPlace(t, p) /\ Taken(p)
            \/ \E u \in Elements(unneeded) : u.targ \in Reported(t)
            \/ \E m \in Elements(missing) : /\ m.stack = << >>
                                           /\ [repo |-> m.repo, pkg |-> m.dep] \in Reported(t)
            \/ ~ world.is_target /\ (AssumeInstalled(t.pkg) \/ SatisfiedLocal(t.pkg))
            \/ world.group_cb /\ FoundAsGroup(t)

-----------------------------------------------------------------------------
(* The plan is no larger than it must be. *)

Requires(p, q) == \E d \in Elements(Depends(p)) : Satisfies(q, d, NoVer)

Wanted(p) == \E t \in Elements(Requested) : Asks(t, p)

(* What answers a target but is left out, because a package of its name is *)
(* built already: its dependencies have been pushed by then.               *)
LeftOut == { p \in Elements(world.pkgbuilds) \cup cache :
                 Wanted(p) /\ \E e \in BuildEntries : e.pkg.name = p.name }

(* Every package of the finished plan was asked for, or is reached from    *)
(* one that was, in the plan or left out of it, over the dependencies of   *)
(* the plan's packages.                                                    *)
EveryPackageNeeded ==
    phase = "done" =>
        LET pkgs  == { e.pkg : e \in Entries }
            roots == { p \in pkgs : Wanted(p) }
        IN  \A S \in SUBSET pkgs :
                (/\ roots \subseteq S
                 /\ \A p \in S \cup LeftOut : \A q \in pkgs : Requires(p, q) => q \in S)
                => S = pkgs

(* resolve_repo_pkg pushes a package name to install at most once, however *)
(* often it is asked for and however deep it is being resolved.            *)
InstallOnce ==
    \A i, j \in DOMAIN install : install[i].pkg.name = install[j].pkg.name => i = j

-----------------------------------------------------------------------------
(* What is reported missing is missing. *)

(* A dependency reported missing is not assumed, not in the finished plan, *)
(* in no sync database and, unless a repo package requires it, in no       *)
(* PKGBUILD repo or AUR cache.  It is installed only if a package to build *)
(* requires it and RESOLVE_SATISFIED_PKGBUILDS asks to ignore that.        *)
MissingIsUnmet ==
    phase = "done" =>
        \A m \in { x \in Elements(missing) : x.stack # << >> } :
            LET n       == m.stack[Len(m.stack)].pkg
                toBuild == Elements(world.pkgbuilds) \cup cache
                built   == \A e \in Elements(install) : e.pkg.name # n
            IN  /\ ~ AssumeInstalled(m.dep) /\ ~ SatisfiedInstall(m.dep)
                /\ \A p \in Elements(world.repos) : ~ Satisfies(p, m.dep, NoVer)
                /\ SatisfiedLocal(m.dep) => /\ Flag("RESOLVE_SATISFIED_PKGBUILDS")
                                            /\ \E p \in toBuild : p.name = n
                /\ built => \A p \in toBuild : ~ Satisfies(p, m.dep, NoVer)

(* The path of a missing dependency is a chain of packages, each brought   *)
(* in for a dependency of the one before it, from a request to the package *)
(* that requires what is missing: Resolver::stack is pushed and popped in  *)
(* step with the recursion.                                                *)
MissingPath ==
    \A m \in Elements(missing) :
        LET path == Append(m.stack, [pkg |-> m.dep.name, dep |-> m.dep])
        IN  /\ \E t \in Elements(Requested) : t.pkg = path[1].dep
            /\ \A i \in 1 .. Len(m.stack) : \E p \in Known :
                   /\ p.name = path[i].pkg
                   /\ IF i = 1 THEN \E t \in Elements(Requested) : Asks(t, p)
                               ELSE Satisfies(p, path[i].dep, NoVer)
                   /\ path[i + 1].dep \in Elements(Depends(p))

-----------------------------------------------------------------------------
(* The order of the build. *)

(* No package of the plan needs itself, over any number of dependencies.   *)
AcyclicPlan ==
    LET pkgs == { e.pkg : e \in Entries }
    IN  \A S \in (SUBSET pkgs) \ {{}} : \E p \in S : \A q \in S : ~ Requires(p, q)

Position == UNION { {i} \X DOMAIN build[i].pkgs : i \in DOMAIN build }

Before(x, y) == x[1] < y[1] \/ (x[1] = y[1] /\ x[2] < y[2])

PkgAt(x) == build[x[1]].pkgs[x[2]].pkg

(* Built in order, after the repo packages are installed, every package    *)
(* finds its dependencies: those that nothing installs are built by an     *)
(* earlier package of the list.                                            *)
BuildOrder ==
    phase = "done" /\ UniqueRepoNames /\ AcyclicPlan =>
        \A x \in Position : \A d \in Elements(Depends(PkgAt(x))) :
            \/ AssumeInstalled(d) \/ SatisfiedLocal(d) \/ SatisfiedInstall(d) \/ IsMissing(d)
            \/ \E y \in Position : Before(y, x) /\ Satisfies(PkgAt(y), d, NoVer)

(* Without a dependency cycle no package is built twice, by whichever of   *)
(* its names and provides it was asked for.                                *)
BuiltOnce ==
    phase = "done" /\ AcyclicPlan =>
        \A x, y \in Position : PkgAt(x) = PkgAt(y) => x = y

(* A base is built exactly where it is listed first, however its packages  *)
(* are spread over the list.                                               *)
BuildFlagOnce ==
    \A i \in DOMAIN build :
        build[i].build <=> \A j \in 1 .. (i - 1) :
            <<build[j].src, build[j].base>> # <<build[i].src, build[i].base>>

-----------------------------------------------------------------------------
(* The recursion. *)

(* No dependency is being resolved for two calls at once, and no repo      *)
(* package is: on a cycle the recursion is cut, so its depth is bounded by *)
(* the dependencies and repo packages there are.                           *)
NoReentry ==
    \A i, j \in DOMAIN stack : i < j /\ stack[i].pkg.src = stack[j].pkg.src =>
        IF stack[i].pkg.src = "repo" THEN stack[i].pkg.name # stack[j].pkg.name
                                     ELSE i > 1 => stack[i].dep # stack[j].dep

(* What was pushed stays where it is: only the last base still gets        *)
(* packages, and a mark changes at most from make to not make.             *)
PlanGrows ==
    [][ /\ \A i \in DOMAIN install :
               /\ install'[i].pkg = install[i].pkg
               /\ install'[i].make => install[i].make
        /\ \A i \in DOMAIN build :
               /\ i < Len(build) => Len(build'[i].pkgs) = Len(build[i].pkgs)
               /\ \A j \in DOMAIN build[i].pkgs :
                      /\ build'[i].pkgs[j].pkg = build[i].pkgs[j].pkg
                      /\ build'[i].pkgs[j].make => build[i].pkgs[j].make ]_vars

(* resolve() returns, also on dependency cycles. *)
Termination == <> (phase \in {"done", "failed"})

-----------------------------------------------------------------------------
(* What the documentation says of the plan and the code does not keep.     *)

Targeted(e) == \E t \in Elements(world.deps) : Asks(t, e.pkg)

(* actions.rs 75-79: `target` says whether a package is a target, and      *)
(* `make` that it is only needed to build the targets.  A package asked    *)
(* for by name is marked so whichever request brought it into the plan.    *)
TargetsMarked ==
    phase = "done" /\ world.is_target /\ UniqueRepoNames =>
        \A e \in Entries : \A t \in Elements(world.deps) :
            t.pkg.name = e.pkg.name => e.target /\ ~ e.make

(* resolve.rs 52, actions.rs 76: with CALCULATE_MAKE a package that no     *)
(* chain of runtime dependencies reaches from a target is marked as only   *)
(* needed to build.                                                        *)
MakeMarked ==
    phase = "done" /\ Flag("CALCULATE_MAKE") /\ world.is_target =>
        LET pkgs    == { e.pkg : e \in Entries }
            roots   == { e.pkg : e \in { x \in Entries : Targeted(x) } }
        IN  \A e \in Entries : e.pkg \in Runtime(roots, pkgs, NoVer) \/ e.make

(* resolve.rs 56, actions.rs 20: with NEEDED a target that is up to date   *)
(* is ignored, so what is reported unneeded is not in the plan as well.    *)
UnneededNotPlanned ==
    phase = "done" /\ Flag("NEEDED") =>
        \A u \in Elements(unneeded) : \A e \in Entries : e.pkg.name # u.targ.pkg.name

(* actions.rs 17-19: a dependency that could not be satisfied is reported  *)
(* missing, also when two sync databases have a package of one name.       *)
NothingDroppedOfAnyRepo ==
    phase = "done" => \A e \in Entries : \A d \in Elements(Depends(e.pkg)) : Accounted(d)
=============================================================================
