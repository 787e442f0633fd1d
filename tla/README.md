# A verification project for aur-depends

aur-depends resolves what a user of Arch Linux asks for (targets) into a plan:
repo packages to install, AUR packages and PKGBUILDs to build, in an order in
which building works, with what is missing and what is up to date listed beside
it. The project models that resolution in TLA+, checks it with TLC on families
of small catalogs, and proves with TLAPS, for catalogs of any size, that what it
promises holds.

Paths below are relative to the repository; `resolve.rs` is `src/src/resolve.rs`.

## 1. The system

| Component | Where | State it keeps | Operations |
|---|---|---|---|
| Satisfaction | `satisfies.rs` | none | which package satisfies which dependency: by name and version, or by a provide; a provide without a version does not satisfy a versioned dependency; NO_DEP_VERSION ignores versions |
| Lookups | `resolve.rs` 522-676, 790-826, 1148-1239, 1400-1406 | the AUR cache (owned by the caller) | first satisfier in the sync databases, in the PKGBUILD repos, in the cache; provider questions and the provider callback |
| Resolution | `resolve.rs` 279-858, 1116-1294 | `seen`, `seen_target`, `resolved`, `stack`, `actions` | `split_targets`, `resolve`, `resolve_{repo,pkgbuild,aur}_target`, `resolve_aur_pkg_deps`, `resolve_repo_pkg`, `push_*_build` |
| Make marks | `resolve.rs` 1316-1398 | the `make` field of every planned package | `calculate_make` |
| Filling the AUR cache | `resolve.rs` 860-1114 | the cache, `resolved` while it runs | rounds of RPC requests, provides searches, recursion over what came back |
| The plan | `actions.rs`, `base.rs` | `Actions`: `install`, `build`, `missing`, `unneeded` | iterators, accessors, display |
| Conflicts | `actions.rs` 160-399 | none | `calculate_conflicts`, `calculate_inner_conflicts`, `duplicate_targets` |
| Updates | `upgrade.rs` | the AUR cache | `updates`: what is newer in the PKGBUILD repos or the AUR than installed |
| Callbacks | `cb.rs` | none | provider, group, is_devel |

**How they interact.** Everything runs in one task. The caller hands in an alpm
handle, a cache, PKGBUILD repos, flags and callbacks; `resolve` splits the
targets by source, waits for the RPC requests that fill the cache, and then runs
the three target loops and `calculate_make` without waiting again. The
components share state rather than messages: the recursion reads the plan it is
building (`satisfied_build`, `satisfied_install`), the cache, and three sets of
marks. Callbacks are called in the middle of a lookup and may answer the same
question differently each time. The cache outlives a resolver: `updates` fills it
before the resolution it is followed by, and after an RPC error the caller starts
again with what the failed attempt left in it. The conflict checks read the plan
that `resolve` returned, next to the local database it was made from.

**What is hard about it.** Nothing runs concurrently, so there are no races. What is
hard is *order*:

- a dependency is marked `resolved`, a repo package `seen`, before it is
  resolved, so on a cycle it is taken for done while it is still on the stack;
- whether a dependency is decided as installed, planned, repo, PKGBUILD or AUR
  is a chain of early exits whose outcome depends on what was planned before;
- marks (`target`, `make`) are set by whoever pushes a package first;
- packages of one base are merged only while they are neighbours in the list;
- lookups with and without the user's choice must agree;
- the rounds of requests decide which dependencies need the AUR before it is known
  which packages will be chosen, and the resolution asks nobody any more;
- a search may fail unnoticed, a request may fail and be tried again over a cache
  that is half filled;
- an update is found by name and applied by satisfaction.

**What makes each component correct.**

| Component | Properties |
|---|---|
| Resolution, completeness | every dependency of the plan is met or reported (`NothingDropped`); every request is answered (`RequestsAnswered`) |
| Resolution, minimality | nothing is planned that nobody needs (`EveryPackageNeeded`), nothing twice (`InstallOnce`, `BuiltOnce`, `BuildFlagOnce`) |
| Resolution, order | dependencies come first (`BuildOrder`), what is pushed stays put (`PlanGrows`) |
| Resolution, reports | what is reported missing is (`MissingIsUnmet`), and its path is a real chain (`MissingPath`) |
| Resolution, recursion | no dependency is resolved inside itself (`NoReentry`), so it ends (`Termination`) |
| Make marks | the least fixed point (`Refines`), no mark taken away in vain (`NeverUnmarkedInVain`), removal breaks nothing (`SafeToRemove`) |
| Filling the cache | whatever the resolution reports missing, the AUR does not have (`NothingOverlooked`); packages left in the cache by an earlier attempt are asked about before they are relied on, or could have been avoided (`OnlyChoiceRead`); the rounds are the one step `Resolver` has for them (`Resolution`) and end (`Termination`) |
| Conflicts | exactly the conflicts of the system the plan leads to are reported (`ConflictsReported`, `ConflictsReal`); duplicate names are of different packages (`DuplicatesDiffer`); a plan without complaints can be installed (`PlanInstallable`) |
| Updates | what was found is what is built, or its name was built for a dependency before (`UpdatesApplied`), and afterwards only that can be found (`UpdatesConverge`) |

## 2. The modules

| Module | What it is |
|---|---|
| `Depends` | dependencies, packages, targets; `Satisfies`; the runtime closure |
| `Catalog` | a *world* (arguments, flags, databases, AUR) and the lookups over it |
| `Resolver` | the state machine of one resolution; EXTENDS `Catalog` |
| `ResolverProperties` | what a resolution promises; EXTENDS `Resolver` |
| `ResolverProofs` | theorems about `Resolver`: types, the recursion, growth of the plan |
| `PathProofs` | what the lookups promise, and the chains from requests to packages; EXTENDS `ResolverProofs` |
| `PlanProofs` | completeness of the plan and of its reports; EXTENDS `PathProofs` |
| `OrderProofs` | order and size of the plan; EXTENDS `PlanProofs` |
| `MCResolver` | families of worlds for TLC |
| `AurRequests` | filling the AUR cache by rounds of requests; EXTENDS `ResolverProperties` and refines `Resolver` |
| `AurRequestsProofs` | the refinement and what the rounds promise, proved; EXTENDS `OrderProofs` too |
| `MCAurRequests` | the worlds it is checked on |
| `Conflicts` | the conflicts of a finished plan and its duplicate names, and what they should be |
| `ConflictsProofs` | that the two agree, for every plan; EXTENDS `OrderProofs` too |
| `Updates` | a session: `updates`, the caller's choice, the resolution, a second attempt; EXTENDS `AurRequests` and `Conflicts` |
| `UpdatesProofs` | that sessions keep all this and apply what they found; EXTENDS `AurRequestsProofs` and `ConflictsProofs` too |
| `MCUpdates` | systems to update, plans with conflicts, attempts to repeat |
| `MakeOnly` | abstract: the make marks in one step, as a least fixed point |
| `CalculateMake` | the loop of `calculate_make`, shown to implement `MakeOnly` |
| `CalculateMakeProofs` | theorems about `CalculateMake`, the refinement among them |
| `MCCalculateMake` | the plans it is checked on |

`Resolver` uses the closure of `MakeOnly` (`StillMake`) for its last phase;
`CalculateMake` shows that the loop computes it. `Resolver` fills the cache in
one step (`FillCache`, `FailCache`) with any part of the AUR; `AurRequests`
shows that the rounds of requests do no more than that, and then what the rounds
promise beyond it. `Updates` composes the lot: its `Resolve` is a step of
`AurRequests` after `updates` has filled the cache, its properties judge the plan
with the operators of `Conflicts`.

### State and code

| `Resolver` | Code |
|---|---|
| `world` | the arguments of `resolve_targets` or `resolve_depends` (`is_target`), `Flags`, alpm's databases, the PKGBUILD repos, the AUR, which callbacks are set |
| `cache` | `Resolver::cache` |
| `phase`, `next` | the place in `resolve()` and in the list its loop goes over |
| `targets` | the struct `split_targets` returns |
| `seen`, `seen_target`, `resolved` | the fields of the same names |
| `stack` | the frames of the recursion; the names and dependencies of its frames are `Resolver::stack` |
| `missing`, `unneeded`, `build`, `install` | `Actions` |

| `AurRequests` | Code |
|---|---|
| `at` | the place in `cache_aur_pkgs_recursive` and what it calls; a step ends where the code awaits an answer |
| `first` | the argument `target` of `cache_aur_pkgs` |
| `walks` | the calls of `find_aur_deps_of_pkgbuild` still to come |
| `wanted`, `found` | the argument and the result of `cache_aur_pkgs` |
| `asked` | `Resolver::resolved` until it is cleared (401); the resolution's is `resolved` |
| `fetched` | `Resolver::cache` while it is being filled; `cache` is what the resolution starts with |
| `lost` | history: the names no search told about, because it failed or the name is installed |
| `unread` | history: the packages in the cache that no round has got for an answer, so nobody has gone through their dependencies: what the caller's cache held, and what a search brought that satisfies nothing asked for |

| `Updates` | Code |
|---|---|
| `query` | the argument of `updates` and alpm's IgnorePkg and IgnoreGroup |
| `stage` | where the caller is: before `updates`, choosing, in `resolve_targets` |
| `updates` | the struct `Updates`; `aur_` and `pkgbuild_` lists in one, told apart by `remote.src` |

`CheckUpdates` is `updates`; `ResolveUpdates` and `Retry` are the caller, which is
not part of the repository: it asks for all updates, in any order, each with the
place it was found in, and after an RPC error makes a new `Resolver` with the old
cache. `Conflicts` has no variables: it is a function of the plan.

A frame of `stack` holds what a call needs after its callees return: the package, the
dependency it answers, the dependencies still to look at (`todo`) and the marks
its caller pushes it with. One action is one way through the body of the loop
over dependencies (`BuildDep...` for `resolve_aur_pkg_deps`, `RepoDep...` for
`resolve_repo_pkg`), one entry of a target (`...Target...`), or one return with
the push that follows it (`FinishBuild`, `FinishRepo`). The code between two
dependencies runs on one thread and has no waits, so no interleaving is lost.

Abstractions:

- Names are model values; versions are naturals; a dependency is a record of name,
  comparison and version. Two records are equal exactly if the code's dependency
  strings are. `alpm`'s own satisfaction is modelled from how it is called.
- The AUR is a sequence: the order in which the cache's `HashSet` happens to list
  packages decides between providers; it is fixed once the cache is filled and
  arbitrary otherwise.
- Where the user is asked (several repo providers; the provider callback), any
  answer may come, and a different one each time. alpm is asked through its
  question callback only in the resolution, which is what the model covers.
- In `Resolver`, `FillCache` puts *any* set of AUR packages into the cache, so it
  allows more than the requests do: what holds of the resolution then holds
  whatever the requests brought. `FailCache` is an RPC error.
- In `AurRequests`, the vectors of names and packages are sets: the code sorts and
  dedups them or only asks what is in them. The AUR does not change during a
  resolution. One provides search per name may fail by itself; a failed
  `cache_info` ends the resolution.
- In `Conflicts`, the sorted maps of conflicts are sets of pairs with the conflict
  that causes them. In `Updates`, a package has one architecture.
- `resolve_pkgbuild_target` has an exit for a target without PKGBUILD that cannot
  be reached (`split_targets` found one by the same lookup); it is left out.
- Panics that callers cause by breaking a callback's contract are left out.
- Display, sorting for display, logging and error texts are left out.

A definition whose comment starts with "Fault:" is a wrong version of the
definition that follows it, as a slip in the code would make it. No specification
uses it; each is there to show that a property notices it.

## 3. Runs

| Run | Explores | Shows |
|---|---|---|
| `graphs` | every graph of three AUR packages whose pairs are unrelated, `depends` or `makedepends`, two orders of targets; the `depends` graphs again for split bases, in the AUR and in a PKGBUILD repo, for packages of a sync database (`RepoGraphs`), and for packages asked for under two strings each, with versions and a provide (`Strings`) | completeness, order and uniqueness of the plan on every shape of cycle; the recursion ends |
| `sources` | a dependency found in every subset of sync database, PKGBUILD repo, AUR and AUR provider, not installed, installed too old, or installed; its own dependency in each place; two kinds of request, three orders; the flags and version bounds that decide between the places; targets that both a PKGBUILD repo and the AUR have, asked for from both (`Twins`) | nothing dropped, nothing added, nothing reported missing that is there |
| `shapes` | groups with and without callback, several providers with and without callback, qualified targets, classes of sources switched off, assumed and up-to-date packages, CHECK_DEPENDS, NO_DEPS, split PKGBUILD bases, one name in two databases, caches filled in every way, RPC errors | every request is answered, paths of missing dependencies are chains, nothing is installed twice |
| `make_marks` | every runtime graph of three packages with every initial marking, with versions, provides and a package listed twice | the loop of `calculate_make` refines `MakeOnly` |
| `requests` | chains and cycles of three packages over the AUR and a PKGBUILD repo with a provider beside them, under the flags for provides searches; the catalogs of `sources` and `shapes` from an empty cache and, for some, from every part of the AUR; PKGBUILD bases whose packages need each other; a search that brings a package of the wrong version (`InVain`); an AUR target that a PKGBUILD repo has as well (`TwoPlaces`); failing searches and RPC errors everywhere | what is reported missing the AUR has not; a package in the cache that no round has read is relied on only where it could have been avoided; the rounds refine `Resolver` and end |
| `session` | systems with a, b, c and p in all combinations of outdated, current and not installed, from the AUR, a PKGBUILD repo or both, with ignored packages, chosen databases and the flags that bear on updates; plans whose four packages declare every combination of conflicts; names in two sources; an update looked up in chosen databases, and one that a PKGBUILD needs in a version only the AUR has (`Elsewhere`); resolutions repeated after an RPC error | updates are applied and converge, but for names that were built for a dependency; conflicts are reported exactly; a complaint-free plan is installable; a repeated attempt overlooks nothing but below what an earlier one has left in the cache, and relies on that only where it could have been avoided or no search told of it |
| `targets_marked`, `make_marked`, `unneeded`, `shadowed`, `overlooked`, `rival` | one small world, or a family of a few, each | the disagreements of section 6 |

Together the passing runs take every action of every specification.

**Bounds.** Nothing is counted without limit: a resolution is finite because its
catalog is. The bounds are the catalogs: three packages in the graphs, because
cutting a cycle needs two, and three are needed for a cycle entered from outside,
for a diamond, for two cycles sharing a package and for a base that another base
splits; versions 0 to 3, enough for below, at and above a bound; at most four
places for one dependency, all there are. Targets are at most three, because the
interplay of requests (a target that is another target's dependency, before or
after it) needs two. In `graphs` and `sources` the cache holds the whole AUR
from the start; partial caches are explored in `shapes`, where `FillCache`
chooses any subset.

In `requests`, three
packages in a chain let a round come across a package two rounds before it is
chosen, and the cycle back to the first makes a second asking visible; one
provider beside them is enough for it to be cached for one name and chosen for
another. In `session`, versions 0 to 3 put an update below, at and above what is
installed; conflicts need two packages, each of them installed, new or replaced,
and the third package is the make-only one. A caller may try again any number of
times: the cache only grows, so there are finitely many states.

**Preconditions.** Some properties hold under a condition, each written in the
property, and each met by many of the worlds its runs explore:

- `UniqueRepoNames`: no name in two sync databases, because of the finding
  `shadowed`. `ShadowShapes` explores the other case for `InstallOnce` and
  `MissingPath`, which need no such condition.
- `AcyclicPlan` in `BuildOrder` and `BuiltOnce`: on a cycle there is no order, and
  a package asked for under two dependency strings can be pushed once inside and
  once outside its own resolution (see section 7).
- In `RequestsAnswered` a request is answered by a package that satisfies it and is from
  the place it names (`FromPlace`). That package is in the plan, or one of its name that
  the same kind of step puts there is (`Taken`): a target to build is left out if
  a package of its name is built already, from whatever source, and that one need
  not satisfy what was asked for. A report must be of the string that was asked for,
  qualifier and version included; an AUR target loses its qualifier (`Reported`), as in the
  code. A group callback may pick nothing; the property then asks for no more (the
  group must exist and the callback be set).
- In `EveryPackageNeeded` the packages that such a target needs count as needed although
  the target itself is left out (`LeftOut`): they are pushed before it turns out that
  its name is taken. The worlds `Twins` are of this kind; without `LeftOut` the property
  fails on them.
- `MissingIsUnmet` says nothing about requests (`m.stack # << >>`), and of a
  dependency that a *repo* package requires only what that search covers, the
  sync databases. Which package requires it is known by its name only, as in the
  code: if the name is of an installed package of the plan, it may be either.
- `SourcesApart` in `NothingOverlooked`: two kinds of dependency are in no sync
  database and not installed: those a PKGBUILD base builds itself, because of the
  finding `overlooked`, and those that an AUR target answers and a PKGBUILD repo
  has too. The rounds stop at what is installed or in a sync database, while the
  resolution builds the PKGBUILD all the same, because a target answers the
  dependency (section 7).
- `unread` in the same property: a package in the cache that no round has got for an
  answer can be chosen all the same, by the callback or because it is installed,
  and nobody has asked for its dependencies. The property excuses missing
  dependencies whose path leads over such a package, and no others.
- `WantedOfAur` and `Overlooked` in the same property say which missing
  dependencies the AUR was meant to be asked for: not those of repo packages, not
  `core/x` (nor `aur/x` if `aur` is the name of a sync database as well), not by
  provides if no flag asks for a search, and not below a name whose search failed
  or was left out.
- `OnlyChoiceRead` bounds that excuse. The first package of a path that came as no
  answer was not the only choice (`NotOnly`): what it was taken for is installed, or
  something in a sync database, a PKGBUILD repo or the part of the cache that was
  read satisfies it or has the name of that package; otherwise no search told of it
  (`Told`). What is below the first one on the path is not judged: its dependencies were
  never asked for. `SourcesApart` is assumed as in `NothingOverlooked`. Section 7 says what such
  paths look like.
- `NoRivals` in `UpdatesApplied` and `UpdatesConverge`: because of the finding `rival`,
  because a PKGBUILD repo is searched in its order, and because a target may be looked
  up elsewhere than where the update was found (`Qualified`).
- `NeededFits` in both: NEEDED goes by what is installed, so it undoes what
  ENABLE_DOWNGRADE lists and what was found in chosen databases (section 7).
- `UpdatesApplied` lets another package take the place of an update only if it has the
  update's name and is not marked as a target: it was built for a dependency
  before the update's turn came. `UpdatesConverge` lets a second look find only such packages. The
  worlds `Elsewhere` have both, and both properties fail on them without the exception
  (section 7).
- `LocalConsistent` in the properties of conflicts: no two packages that conflict
  are installed already. `ConflictsReported` counts an installed package as gone if the
  plan has its name (`Replaced`), also for `makedeps = false` where the package that
  replaces it is make-only: the code looks at neither of the two then
  (`actions.rs` 331).
- `ReplacementsFit` in `PlanInstallable`: a dependency met by an installed package
  is met by the package of that name in the plan; the resolver does not go back
  to a dependency it found installed.

**Fairness.** `WF_vars(Next)` in `Resolver` and `CalculateMake`,
`WF_fullvars(FullNext)` in `AurRequests`: one task, which continues as
long as it can. `resolve` waits only for the RPC requests, and the HTTP client
returns an answer or an error; both are steps of the model (`FillCache`,
`FailCache`; in `AurRequests` `Info`, `Provides` and `RequestFailed`). `Updates`
states no fairness: its caller may stop at any time. No choice is assumed fair: `Termination` holds for every sequence
of answers. It says that `resolved` and `seen` cut every cycle, and is refuted at
once if `next` is not advanced. In `requests` it says that `asked` cuts every
cycle of the rounds and of the walks over PKGBUILDs as well.

## 4. Proofs

Eight modules hold theorems, all checked to the last leaf: `ResolverProofs`,
`PathProofs`, `PlanProofs`, `OrderProofs`, `AurRequestsProofs` and `UpdatesProofs`, each
of which extends the one before it, and `ConflictsProofs` and `CalculateMakeProofs`. Every
safety property that a run checks is also the statement of a theorem. The
theorems are about catalogs, graphs, numbers of packages, targets and answers of
the user of any kind; the constants are bound by

- `NoRepoAssumption`, `WorldsAssumption`, `PlansAssumption`, `QueriesAssumption`: types;
- `CachedAssumption`: what the caller's cache holds the AUR has;
- `LocalAssumption`: the local database has a name once;
- `AurAssumption`: so has the AUR.

**How they are laid out.** Each invariant is proved from two facts: it holds at the
start of a resolution, and `[Next]_vars` keeps it. The start is `Fresh`, which is
`Init` but for the cache and the world, because a resolution of a session starts with
what `updates` or a failed attempt has left. A step is first put into one of a few
kinds (`StepKind`, `PathKind`, `DepPlan`, `FinishPlan`, `ReportKind`, `ControlKind`:
leaves the stack alone, opens it, advances its top, calls, returns; and what is
pushed or reported meanwhile), and then each kind is shown to keep
the invariant. The lookups are described once (`RepoLookup`, `PkgbuildLookup`,
`AurLookup`, `AurUnmet`): what they find satisfies what was asked for, and where they
find nothing nothing does. `Least`, the least member of a set of numbers, stands in for
induction: of a chain's or a list's places that break a rule, the first is looked at.

**Recursion** (`ResolverProofs`). `TypeCorrect` proves `TypeOK`, which says besides
types that only AUR packages get into the cache and only repo packages into
`install`. `EnteredOnce` proves `OnceInv`. `InstallOnce` and `NoReentry` are not
inductive: pushing a package keeps names distinct only if the name was not there while
the package was on the stack. `OnceInv` adds that every frame's name or dependency
is marked (`FramesSeen`, `FramesResolved`, `InstallSeen`), that no two frames have one
in common (`RepoFramesDiffer`, `BuildFramesDiffer`), and that no repo frame is
installed yet. `FlaggedOnce` (`BuildFlagOnce`) is by induction on `PushBuild` alone,
`GrowsAtEnd` (`PlanGrows`) over the same kinds of steps.

**Paths** (`PathProofs`). `ChainKept` proves `PathInv`: the targets are requests
(`TargetsRequested`), every frame's package is in some source (`FramesKnown`), the
outermost answers a request (`Rooted`) and every other frame answers a dependency of
the frame below it (`Linked`). A report copies the stack, so `PathReported`
(`MissingPath`) follows at the step that reports and is kept because reports are.

**Reports and completeness** (`PlanProofs`). `PlanInv` holds where everything comes
from: the plan from its sources (`PlanKnown`, `CacheKnown`), and a name is `seen` only
if it is installed or on the stack (`SeenDecided`). `UnmetKnown` proves that every report was
true when made and stays so (`ReportsUnmet`), hence `MissingUnmet`. `EverythingDecided`
proves `DecidedInv`: whatever is in `resolved`, behind the current place of a frame, or
a dependency of a planned package is `Decided`: accounted for, *or met by a package on
the stack*. The second half is what a cycle needs: a dependency is marked before it is
resolved, so taking it for done is right only because its package will be pushed.
When the stack is empty the second half is void, and `Complete` (`NothingDropped`)
follows. It needs `UniqueRepoNames`: without it, a name `seen` is not the package that
satisfies. `AnswersKept` proves `AnswerInv`: every request is filed by `split_targets` in the list of
the source it was found in, or reported as missing as it was written (`AllFiled`), and what the
loops have passed (`Past`) is answered or will be by the package at the bottom of
the stack (`Pending`); hence `AllAnswered` (`RequestsAnswered`).

**Order and size** (`OrderProofs`). A cycle of the finished plan is not known while it
is made, so `OrderInv` is a disjunction over states: either the packages planned and
on the stack have a cycle already (`CyclicNow`), which is kept because they only grow,
or every planned package comes after what it depends on (`InOrder`), no frame is
planned (`FramesNotBuilt`) and no package has two places (`PlacesDiffer`). A step that
would break the second makes the first true (`FramesCycle`: a package found on the stack
closes a cycle through it). `InBuildOrder` and `OnceBuilt` follow. `AllNeeded`
(`EveryPackageNeeded`) is by `ReachedInv`: what is planned or on the stack is reached
from a request. A target that is dropped when its call returns stays a root, as it is
in `LeftOut` from then on (`LeftOutGrows`, `FinishedWork`). `ResolutionInv` is all of this at once; `ResolutionPromises` lists
what it implies.

**Rounds of requests** (`AurRequestsProofs`). `RoundsImplement` proves `FullSpec =>
Resolution`: by `FetchedInv` (what is fetched holds the cache and is of the AUR) the
last step of the rounds is `FillCache`, a failed request `FailCache`, and all others
stutter. Every safety theorem about `Resolver` carries over (`RoundsKeepPromises`).
`FillTypeCorrect` proves `FillTypeOK`.

`NothingLeftOut` proves `NothingOverlooked`, in two halves. *While the cache is
filled*, `RoundInv` says that nothing is left unasked on the way: of every package that
came as an answer all dependencies nobody has are asked for (`AnswersRead`), so are
those of the PKGBUILDs that targets or asked dependencies lead to (`TargetsRead`,
`PkgbuildsRead`), and whatever was asked for and is no PKGBUILD's has been looked for, by name, and by
provides if a flag says so and the search did not fail (`DepsHeard`, `TargetsHeard`; what
is heard is read, so it is not left over: `Heard`),
or is part of the current round (`Awaited`). *During the
resolution*, `HeardInv` says that each frame of a package to build whose name is not
that of a package left unread is one of which everything was asked for (`FramesRead`), and the same
of the path of every report (`PathsAsked`); requests that were reported missing are
not met by what was heard (`RequestsUnmet`). The step between them is that what the resolution
chooses, though nobody knew it while the cache was filled, is one of the packages
that the rounds went through. This is where `SourcesApart` is needed.

`LeftoversAvoidable` proves `OnlyChoiceRead` with the same invariant: as long as every
package below it was read, a frame with a package that was not read is one for whose
dependency something else could have been taken, or of which no search told
(`FramesSpared`), and so is the path of every report (`PathsSpared`). At the step that
enters the frame, the dependency is one that was asked for (`FramesRead`) or a target;
by `Heard`, a package of its name, or one that provides it, was read, unless nobody
had asked because it is installed or a source has it (`LeftoversKnown`).

**Conflicts** (`ConflictsProofs`). `AllReported` and `ReportsReal` prove that
`calculate_conflicts` and `calculate_inner_conflicts` together report exactly the pairs
that conflict and end up installed. The argument is the split of the later system into
packages of the plan that count and packages that stay (`StaysUntouched`,
`UntouchedStays`): each of the four combinations of two packages is looked at by one
of the loops, or is two packages that were there before. `TwoPackages`
(`DuplicatesDiffer`) follows from `InstallOnce` and `BuiltOnce`, `Installable`
(`PlanInstallable`) from `Complete` and the definition of what is installed.

**Sessions** (`UpdatesProofs`). `SessionsKept` proves `SessionInv`: at any time of a
session the state is one that a resolution may be in, and `Idle`: a
plan is empty before its resolution starts. So each resolution of a session,
after `updates` or after a failure, starts `Fresh`, and `SessionsKeepPromises` carries over all that was
proved of one.

`UpdatesInPlan` proves `AppliedInv`: the updates are exactly what is out of date
(`ReportInv`, which needs `LocalOnce` and `AurOnce`: with a name twice, two updates
would have one target); a target goes into the list of the source it
was qualified with (`WellFiled`); once the loop has passed it, the update
is in the plan, or about to be pushed, or its name is built (`LoopsApplied`); and what
is marked as a target is the package of an update (`TargetMarks`). At the
step that passes a target, `UpdateNeeded` shows that it is neither satisfied nor unneeded, and
`PkgbuildRemote` and `AurRemote` that the package found for it is the very one
`updates` had found: that is where `NoRivals` and `NeededFits` are used. At the
return that follows, the update is pushed unless its name is built already (`Applied`);
if that package is marked as a target, by `TargetMarks` it is an update's, and of that
name there is only one. `UpdatesAlwaysApplied` (`UpdatesApplied`)
and `UpdatesSettle` (`UpdatesConverge`) follow.

**CalculateMake** (`CalculateMakeProofs`). `Invariance` proves `Inv`: `runtime` is
exactly the dependencies of the unmarked packages; every unmarked package came without
the mark or is in the runtime closure; in a pass that has changed nothing, no
package behind the position can be unmarked. The first two give `Sound`
(`NeverUnmarkedInVain`); with the third, a pass that ends quietly leaves a closed set,
which contains the least one: `Removable` (`SafeToRemove`) and `Refinement` (`Spec =>
Abs!Safety`): the marks do not depend on the order of the plan.

**What proving taught.** These cases were missing from the worlds first explored; TLC
found each of them once the proof had pointed at it and its worlds were added:

- a search that brings a package of the wrong version leaves it in the cache unread
  (`InVain`); this is what `unread` is for;
- a PKGBUILD repo that has an AUR target as well (`TwoPlaces`, `Twins`; `SourcesApart`,
  `LeftOut`, `Taken`);
- a sync database named like the AUR (`WantedOfAur`, `Qualified`);
- a dependency of an installed package's namesake (`MissingIsUnmet`);
- chosen databases with NEEDED (`NeededFits`);
- a name in two versions, in two sources, and an update whose name a dependency of an
  earlier target brought in from elsewhere (`Elsewhere`).

**Only model-checked.** Liveness (`Termination`, the fairness part of `Refines`) is
beyond the proof system, and so is that a recursive function of the model computes what
its definition says for every input.

## 5. Hazards

`PROJECT.json` lists, line by line, what is hard to test in this code and which
property would notice. Where a property has a condition that leaves part of a
hazard out, the note says so; where no property would notice, the note says why.

## 6. Where code and documentation disagree

Each has a run in which TLC shows the smallest case found.

- **`targets_marked`.** A target that an earlier target pulled in as a dependency
  keeps `target: false`, and `make: true` if it was below a makedepend
  (`resolve.rs` 470, 829). The field is documented as "If the package is a
  target." (`actions.rs` 78). A front end that removes make-only packages after the
  build removes what was asked for.
- **`make_marked`.** The direct makedepends of a target are pushed with the target's
  own mark, false (`resolve.rs` 467), and `calculate_make` only takes marks away,
  so they are never marked "only needed to build the targets" (`actions.rs` 76).
- **`unneeded`.** With NEEDED an up-to-date target is reported unneeded although an
  earlier target had it planned as its dependency (`resolve.rs` 705).
- **`shadowed`.** With one package name in two sync databases (different versions), a
  dependency only the second satisfies is neither satisfied nor reported missing,
  because `seen` holds names (`resolve.rs` 829).
- **`overlooked`.** When the cache is filled, an installed dependency is left alone
  (`resolve.rs` 1023-1026); when a PKGBUILD base is built, a dependency on another
  package of that base is built whether installed or not (700-708). What that
  package needs from the AUR was never asked for and is reported missing,
  "a hard error" (`actions.rs` 17). `NothingOverlooked` shows that this, and the second
  case of `SourcesApart`, are the only ways to it.
- **`rival`.** An installed package of the cache that satisfies a target answers it before
  its name is looked at (`resolve.rs` 605); if there are several, the cache's order
  decides. So an installed provider of `a` can answer the target `aur/a`, even if `a`
  is installed as well. With NEEDED `a` is reported unneeded, that is "up to date"
  (`actions.rs` 20), while `updates` keeps finding its update.

## 7. Observations

Met while modelling; no document of the repository says otherwise, so they are
not findings.

- On a dependency cycle a package can be listed twice if it is asked for under two
  dependency strings (`x` and `x>=1`) before it is pushed.
- With RESOLVE_SATISFIED_PKGBUILDS, an installed package that no source has is
  reported missing.
- `NON_TARGET_PROVIDES` is a flag that nothing reads.
- Two PKGBUILD repos with a base of one name are merged under the repo that came
  first; `resolve.rs` 1267 has a TODO about it.
- `calculate_make` looks at a package's own `depends`, not at those its PKGBUILD
  declares for the whole base, which `resolve_aur_pkg_deps` resolves as well.

- A package that came with a provides search but did not satisfy the dependency
  stays in the cache (961) and can be chosen later, by a provider callback or, for
  a dependency on another version of that name, because it is the only one; its
  dependencies were not asked for (`InVain`; `OnlyChoiceRead` says when that happens).
- If a dependency is answered by an AUR target and a PKGBUILD repo has it as well, it is
  built even if it is installed or in a sync database, because of the target (705),
  and built from the PKGBUILD, because PKGBUILD repos are tried first (730). Filling the cache
  stops at what is installed or in a sync database (1017-1029), so what that PKGBUILD needs from the AUR was never
  asked for and is reported missing (`TwoPlaces`).
- If `aur/x` and a PKGBUILD x are both targets, the second is left out once the first is
  planned (470, 576), but its dependencies are built and installed (467, 574).
- With `makedeps` false, `calculate_conflicts` takes an installed package for gone if a
  make-only package of the plan has its name, and does not look at that package either.
- A target `aur/x` is split off as a repo target if a sync database has the name of
  the AUR namespace (286); the AUR is then not asked for x.
- After an RPC error a second attempt on the same cache can do worse than a first:
  if one of its provides searches fails, a provider that the failed attempt had
  cached is in the cache but its dependencies are not, and it is chosen for another
  name if it is installed. Likewise an ignored update: `updates` caches it, and if
  it provides a dependency it is preferred, being installed.
- Entries of the cache are never refreshed.
- NEEDED and ENABLE_DOWNGRADE together: `updates` lists an installed package that is
  too new, NEEDED finds the target up to date, and the next `updates` lists it
  again. With a name in a PKGBUILD repo and the AUR
  in two versions, `updates` goes by the PKGBUILD while a versioned dependency may
  be built from the AUR: with ENABLE_DOWNGRADE the package goes back and forth.
- An update of a PKGBUILD is left out if a target before it has a dependency for which
  the AUR's package of that name is built: the target is then satisfied by the plan.
- With PKGBUILDS off, a foreign package that a PKGBUILD repo has is neither updated
  nor looked up in the AUR nor missing.
- `updates(Some(dbs))` takes the packages of those *sync* databases as `local`, and
  calls them so in what it returns.

## 8. Not modelled

- `src/src/repo.rs` is not part of the crate; `lib.rs` has no behaviour; `tests.rs`
  and `tests/` hold a mock AUR and databases, read for what callers expect.
- alpm, raur and srcinfo are external: modelled as the functions the code calls.
- Display and accessors of `base.rs`; the error type.
- Panics of callbacks that break their contract (`cb.rs` 50-51); the callbacks
  themselves are choices of a world.
- A change of the AUR or of the databases between two calls.

## 9. Plan

Everything the plan of this project listed is modelled, and every safety property is
proved. What is left:

1. The bound on the recursion that `Termination` rests on (no dependency, no name is
   entered twice) is proved as `NoReentry`; a variant over `todo` and the
   unmarked dependencies would be the argument for termination by hand.
