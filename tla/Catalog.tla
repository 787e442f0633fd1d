------------------------------ MODULE Catalog ------------------------------
(***************************************************************************)
(* What a resolution looks packages up in: the caller's request and flags, *)
(* the local and sync databases, the PKGBUILD repos and the AUR cache; and *)
(* the lookups of resolve.rs over them.  A lookup that lets the user       *)
(* choose (alpm's provider question, the provider callback) is the set of  *)
(* the packages that can come back; the others are sets of at most one     *)
(* package.                                                                *)
(***************************************************************************)
EXTENDS Depends

VARIABLES
    world,   \* everything fixed for the run: the arguments and the databases
    cache    \* the AUR packages in the resolver's cache

FlagName ==
    { "REPO", "PKGBUILDS", "AUR", "NO_DEPS", "NO_DEP_VERSION", "CHECK_DEPENDS",
      "NEEDED", "RESOLVE_SATISFIED_PKGBUILDS", "CALCULATE_MAKE",
      "TARGET_PROVIDES", "MISSING_PROVIDES", "PROVIDES", "ENABLE_DOWNGRADE" }

World ==
    [ flags          : SUBSET FlagName,
      is_target      : BOOLEAN,                  \* resolve_targets or resolve_depends
      deps           : Seq(Targ),
      make_deps      : Seq(Targ),
      local          : SUBSET PackageOf("local"), \* the local database
      assume         : SUBSET Dep,               \* alpm's assume-installed
      dbs            : SUBSET RepoName,          \* the names of the sync databases
      repos          : Seq(PackageOf("repo")),   \* their packages, in database order
      pkgbuild_repos : SUBSET RepoName,          \* the names of the PKGBUILD repos
      pkgbuilds      : Seq(PackageOf("pkgbuild")), \* their packages, repo by repo
      aur            : Seq(PackageOf("aur")),    \* the AUR, in the cache's HashSet order
      cached         : SUBSET PackageOf("aur"),  \* the caller's cache
      aur_namespace  : RepoName \cup {NoRepo},
      provider_cb    : BOOLEAN,                  \* a provider callback is set
      group_cb       : BOOLEAN,                  \* a group callback is set
      devel          : SUBSET Dep ]              \* the targets is_devel holds of

Flag(f) == f \in world.flags

NoVer == Flag("NO_DEP_VERSION")

-----------------------------------------------------------------------------
(* What is there already. *)

AssumeInstalled(d) == \E a \in world.assume : SatisfiesProvide(d, a, NoVer)

InstalledName(n) == \E q \in world.local : q.name = n

SatisfiedLocal(d) == \E q \in world.local : Satisfies(q, d, NoVer)

(* find_satisfier on the local database: the version always counts. *)
SatisfiedLocalStrict(d) == \E q \in world.local : Satisfies(q, d, FALSE)

(* The installed package that is at least as new as p. *)
UpToDate(p) == { q \in world.local : q.name = p.name /\ q.ver >= p.ver }

-----------------------------------------------------------------------------
(* The sync databases. *)

Asked(d) == IF NoVer THEN AnyVersion(d) ELSE d

(* alpm's find_satisfier over all databases: the first package of that     *)
(* name, else an installed provider, else the provider the user picks.     *)
DbsSatisfiers(d) ==
    LET Literal(p)   == p.name = d.name /\ SatisfiesVer(d, p.ver)
        Installed(p) == Satisfies(p, d, FALSE) /\ InstalledName(p.name)
        literal      == First(world.repos, Literal)
        installed    == First(world.repos, Installed)
    IN  IF literal # {} THEN literal
        ELSE IF installed # {} THEN installed
        ELSE { p \in Elements(world.repos) : Satisfies(p, d, FALSE) }

FindRepoSatisfier(d) == DbsSatisfiers(Asked(d))

FindRepoTargetSatisfier(t) ==
    LET Here(p) == p.repo = t.repo /\ Satisfies(p, Asked(t.pkg), FALSE)
    IN  IF t.repo = NoRepo THEN DbsSatisfiers(Asked(t.pkg)) ELSE First(world.repos, Here)

-----------------------------------------------------------------------------
(* The PKGBUILD repos. *)

FindPkgbuildRepoDep(repo, d) ==
    LET Match(p) == (repo = NoRepo \/ p.repo = repo) /\ Satisfies(p, d, NoVer)
    IN  First(world.pkgbuilds, Match)

InBase(p, d) ==
    \E q \in Elements(world.pkgbuilds) :
        q.repo = p.repo /\ q.base = p.base /\ Satisfies(q, d, NoVer)

PkgbuildDepInBase(p, d) ==
    \/ d \in Elements(p.makedepends)
    \/ Flag("CHECK_DEPENDS") /\ d \in Elements(p.checkdepends)

(* d is a runtime dependency of p that p's own base builds. *)
SamePkgbuild(p, d) == p.src = "pkgbuild" /\ InBase(p, d) /\ ~ PkgbuildDepInBase(p, d)

-----------------------------------------------------------------------------
(* The AUR cache. *)

FindSatisfierAurCache(d) ==
    LET Any(p)       == p \in cache /\ Satisfies(p, d, NoVer)
        Installed(p) == Any(p) /\ InstalledName(p.name)
        Named(p)     == Any(p) /\ p.name = d.name
        installed    == First(world.aur, Installed)
        named        == First(world.aur, Named)
    IN  IF installed # {} THEN installed
        ELSE IF named # {} THEN named
        ELSE First(world.aur, Any)

(* Fault: what a package provides is not looked at. *)
SelectSatisfierByName(d, target) ==
    LET Named(p) == p \in cache /\ Satisfies(p, d, NoVer) /\ p.name = d.name
    IN  First(world.aur, Named)

(* With a callback the user chooses, unless a dependency (not a target)    *)
(* has an installed provider or a package of its name.                     *)
SelectSatisfierAurCache(d, target) ==
    LET Any(p)       == p \in cache /\ Satisfies(p, d, NoVer)
        Installed(p) == Any(p) /\ InstalledName(p.name)
        Named(p)     == Any(p) /\ p.name = d.name
        installed    == First(world.aur, Installed)
        named        == First(world.aur, Named)
    IN  IF ~ world.provider_cb THEN FindSatisfierAurCache(d)
        ELSE IF ~ target /\ installed # {} THEN installed
        ELSE IF ~ target /\ named # {} THEN named
        ELSE { p \in Elements(world.aur) : Any(p) }

ShouldSkipAurPkg(d, is_target) ==
    /\ ~ is_target
    /\ ~ Flag("RESOLVE_SATISFIED_PKGBUILDS")
    /\ AssumeInstalled(d) \/ SatisfiedLocal(d)

-----------------------------------------------------------------------------
(* What must be resolved before p, in the order it is resolved. *)

Depends(p) ==
    CASE Flag("NO_DEPS")  -> << >>
      [] p.src = "repo"   -> p.depends
      [] OTHER            -> p.makedepends
                             \o (IF Flag("CHECK_DEPENDS") THEN p.checkdepends ELSE << >>)
                             \o p.gdepends \o p.depends
=============================================================================
