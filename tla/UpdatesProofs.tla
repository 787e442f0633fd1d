--------------------------- MODULE UpdatesProofs ---------------------------
(***************************************************************************)
(* Sessions, for every set of worlds and queries: each resolution of one   *)
(* starts from a state like the first, whatever updates() and the attempts *)
(* before it have left in the cache, so it keeps all that a resolution     *)
(* promises; what updates() found is in the plan, and once the plan is     *)
(* carried out it finds nothing.                                           *)
(***************************************************************************)
EXTENDS Updates, AurRequestsProofs, ConflictsProofs

-----------------------------------------------------------------------------
(* The targets the caller makes of its updates. *)

LEMMA ElementsFinite ==
    ASSUME NEW T, NEW s \in Seq(T)
    PROVE  IsFiniteSet(Elements(s))
  <1>1. DOMAIN s = 1 .. Len(s) /\ Len(s) \in Nat /\ s \in [1 .. Len(s) -> T]
    OBVIOUS
  <1>2. IsFiniteSet(1 .. Len(s))
    BY <1>1, FS_Interval
  <1>3. s \in Surjection(1 .. Len(s), Elements(s))
    BY <1>1 DEF Surjection, Elements
  <1> QED
    BY <1>2, <1>3, FS_Surjection

(* An order of a finite set is a sequence of all of its members.           *)
LEMMA Orders ==
    ASSUME NEW T, NEW S \in SUBSET T, IsFiniteSet(S), NEW s \in Seqs!SetToSeqs(S)
    PROVE  s \in Seq(T) /\ Elements(s) = S
  <1>1. PICK n \in Nat : n = Cardinality(S)
    BY FS_CardinalityType
  <1>2. Seqs!Cardinality(S) = Cardinality(S)
    BY DEF Seqs!Cardinality, Cardinality
  <1>3. s \in [1 .. n -> S] /\ \A i, j \in 1 .. n : i # j => s[i] # s[j]
    BY <1>1, <1>2 DEF Seqs!SetToSeqs
  <1>4. s \in Injection(1 .. n, S)
    BY <1>3 DEF Injection, IsInjective
  <1>5. Cardinality(1 .. n) = n
    BY FS_Interval
  <1>6. s \in Surjection(1 .. n, S)
    BY <1>1, <1>4, <1>5, FS_Injection
  <1> QED
    BY <1>3, <1>6 DEF Surjection, Elements

(* What updates() found is in a PKGBUILD repo or the cache.                *)
RemotesKnown ==
    \A u \in updates.found \cup updates.ignored :
        u.remote \in Elements(world.pkgbuilds) \cup fetched

LEMMA TargetsOfUpdates ==
    ASSUME world \in World, SessionTypeOK, RemotesKnown, fetched \subseteq Elements(world.aur)
    PROVE  LET S == { TargetOf(u) : u \in updates.found }
           IN  S \in SUBSET Targ /\ IsFiniteSet(S)
  <1> DEFINE S == { TargetOf(u) : u \in updates.found }
             R == Elements(world.pkgbuilds) \cup Elements(world.aur)
             f == [ p \in R |-> [ repo |-> IF p.src = "aur" THEN world.aur_namespace ELSE p.repo,
                                  pkg  |-> [name |-> p.name, mod |-> "any", ver |-> 0] ] ]
             F == { f[p] : p \in R }
  <1>1. /\ world.pkgbuilds \in Seq(PackageOf("pkgbuild")) /\ world.aur \in Seq(PackageOf("aur"))
        /\ world.aur_namespace \in RepoName \cup {NoRepo}
    BY DEF World
  <1>2. R \subseteq Package
    BY <1>1, ElementsType, PackageOfType
  <1>3. IsFiniteSet(R)
    BY <1>1, ElementsFinite, FS_Union
  <1>4. f \in Surjection(R, F)
    BY DEF Surjection
  <1>5. IsFiniteSet(F)
    BY <1>3, <1>4, FS_Surjection
  <1>6. ASSUME NEW u \in updates.found PROVE u.remote \in R /\ TargetOf(u) = f[u.remote]
    <2>1. u.remote \in R /\ u.local.name = u.remote.name
      BY DEF RemotesKnown, SessionTypeOK
    <2> QED
      BY <2>1 DEF TargetOf
  <1>7. S \subseteq F
    BY <1>6
  <1>8. \A p \in R : f[p] \in Targ
    <2> SUFFICES ASSUME NEW p \in R PROVE f[p] \in Targ
      OBVIOUS
    <2>1. p.name \in Name /\ p.repo \in RepoName \cup {NoRepo}
      BY <1>2 DEF Package
    <2>2. [name |-> p.name, mod |-> "any", ver |-> 0] \in Dep
      BY <2>1 DEF Dep, DepMod
    <2> QED
      BY <1>1, <2>1, <2>2 DEF Targ
  <1> HIDE DEF f, R, F
  <1>9. F \subseteq Targ
    BY <1>8 DEF F
  <1>10. IsFiniteSet(S)
    BY <1>5, <1>7, FS_Subset
  <1> QED
    BY <1>7, <1>9, <1>10

-----------------------------------------------------------------------------
(* What one resolution leaves to the next: as long as it has not come to   *)
(* its targets there is nothing in the plan.                               *)

Idle == phase \in {"split", "cache", "failed"} => build = << >> /\ install = << >>

LEMMA IdleKept ==
    ASSUME PlanInv, Idle, [FullNext]_fullvars
    PROVE  Idle'
  <1>1. CASE Fill
    BY <1>1 DEF Fill, Begin, Walk, Ask, Info, Provides, RequestFailed, NextRound, Filled, Enter,
                vars, control, Idle
  <1>2. CASE phase # "cache" /\ Next
    <2>1. UNCHANGED phase \/ PhaseMoves
      BY <1>2, PhaseKind
    <2>2. SUFFICES ASSUME phase \in {"split", "failed"} PROVE UNCHANGED <<build, install>>
      BY <1>2, <2>1 DEF Idle, PhaseMoves
    <2>3. stack = << >>
      BY <2>2 DEF PlanInv, Running
    <2>4. Split \/ Returned
      BY <1>2, <2>2, <2>3
         DEF Next, Target, Recurse, FillCache, FailCache, KeepMake, CalculateMake, Enter,
             RepoTargetsDone, PkgbuildTargetsDone, AurTargetsDone,
             RepoTargetSkipped, RepoTargetUnneeded, RepoTarget, PkgbuildTargetSkipped,
             PkgbuildTargetUnneeded, PkgbuildTarget, AurTargetSkipped, AurTargetMissing,
             AurTargetUnneeded, AurTarget, Targeting, TargetingAur, BuildDepDone, BuildDepInstalled,
             BuildDepFromRepo, BuildDepFromPkgbuild, BuildDepFromAur, BuildDepMissing, FinishBuild,
             RepoDepSatisfied, RepoDepFromRepo, RepoDepMissing, FinishRepo, Resolving
    <2> QED
      BY <2>4 DEF Split, SplitAssumed, SplitRepo, SplitGroup, SplitPkgbuild, SplitAur, SplitMissing,
                  SplitDone, Splitting, Enter, Returned, vars
  <1>3. CASE UNCHANGED fullvars
    BY <1>3 DEF fullvars, vars, control, Idle
  <1> QED
    BY <1>1, <1>2, <1>3 DEF FullNext

-----------------------------------------------------------------------------
(* Sessions. *)

SessionInv ==
    /\ FullInv /\ Idle
    /\ SessionTypeOK /\ RemotesKnown
    /\ stage # "resolve" => FullFresh

LEMMA SessionFirst == SessionInit => SessionInv
  <1> SUFFICES ASSUME SessionInit PROVE SessionInv
    OBVIOUS
  <1>1. FullFresh /\ FullInv
    BY FullInitFresh, FreshFull DEF SessionInit
  <1>2. Idle
    BY <1>1 DEF FullFresh, Fresh, Idle
  <1>3. query \in Query
    <2>1. NoQuery \in Query
      BY DEF Query, NoQuery
    <2> QED
      BY <2>1, QueriesAssumption DEF SessionInit
  <1>4. SessionTypeOK /\ RemotesKnown
    BY <1>3 DEF SessionInit, SessionTypeOK, RemotesKnown, NoUpdates
  <1> QED
    BY <1>1, <1>2, <1>4 DEF SessionInv

LEMMA FreshIdle == FullFresh => FullInv /\ Idle
  BY FreshFull DEF FullFresh, Fresh, Idle

(* An update is of an installed package, or one of a chosen database, and  *)
(* of the same name.                                                       *)
LEMMA UpdatesType ==
    ASSUME world \in World, NEW cached \in SUBSET Elements(world.aur)
    PROVE  LET result == UpdatesOf(world.local, cached)
           IN  /\ result \in [found : SUBSET Update, ignored : SUBSET Update, missing : SUBSET Package]
               /\ \A u \in result.found \cup result.ignored :
                      /\ u.local.name = u.remote.name /\ u.remote.src \in ToBuild
                      /\ u.remote \in Elements(world.pkgbuilds) \cup cached
                      /\ u.remote.src = "aur" => u.remote \in cached
  <1> DEFINE system == world.local
             remotes(q) == IF q \in PkgbuildTargs(system) THEN FindPkgbuild(q.name)
                           ELSE { p \in cached : p.name = q.name }
             known      == PkgbuildTargs(system) \cup AurTargs(system)
             outdated   == UNION { { [local |-> q, remote |-> p] :
                                     p \in { r \in remotes(q) : ShouldUpgrade(q, r) } } : q \in known }
  <1>1. /\ world.local \subseteq Package /\ Elements(world.repos) \subseteq Package
        /\ Elements(world.pkgbuilds) \subseteq PackageOf("pkgbuild")
        /\ Elements(world.aur) \subseteq PackageOf("aur")
    BY WorldTypes, ElementsType, PackageOfType
  <1>2. known \subseteq Package /\ AurTargs(system) \subseteq Package
    BY <1>1 DEF PkgbuildTargs, AurTargs, UpdateTargs
  <1>3. ASSUME NEW q \in known, NEW p \in remotes(q)
        PROVE  /\ p.name = q.name /\ p \in Elements(world.pkgbuilds) \cup cached
    BY DEF FindPkgbuild, First, Elements
  <1>4. \A p \in Elements(world.pkgbuilds) \cup cached :
            p \in Package /\ p.src \in ToBuild /\ (p.src = "aur" => p \in cached)
    BY <1>1 DEF PackageOf, ToBuild
  <1>5. ASSUME NEW u \in outdated
        PROVE  /\ u \in Update
               /\ u.local.name = u.remote.name /\ u.remote.src \in ToBuild
               /\ u.remote \in Elements(world.pkgbuilds) \cup cached
               /\ u.remote.src = "aur" => u.remote \in cached
    <2> HIDE DEF remotes, known
    <2>0. PICK q \in known : u \in { [local |-> q, remote |-> p] :
                                     p \in { r \in remotes(q) : ShouldUpgrade(q, r) } }
      OBVIOUS
    <2>1. PICK p \in remotes(q) : u = [local |-> q, remote |-> p]
      BY <2>0
    <2> HIDE DEF outdated
    <2>2. u.local = q /\ u.remote = p
      BY <2>1
    <2> QED
      BY <1>2, <1>3, <1>4, <2>1, <2>2 DEF Update
  <1>6. UpdatesOf(world.local, cached)
            = [ found   |-> { u \in outdated : u.local.name \notin query.ignored },
                ignored |-> { u \in outdated : u.local.name \in query.ignored },
                missing |-> { q \in AurTargs(system) : remotes(q) = {} } ]
    BY DEF UpdatesOf
  <1> HIDE DEF outdated, remotes, known
  <1> QED
    BY <1>2, <1>5, <1>6

LEMMA FetchedGrows ==
    ASSUME [FullNext]_fullvars
    PROVE  fetched \subseteq fetched'
  BY DEF FullNext, Fill, Begin, Walk, Ask, Info, Provides, RequestFailed, NextRound, Filled,
         fullvars, filling

LEMMA SessionChecks ==
    ASSUME SessionInv, CheckUpdates
    PROVE  SessionInv'
  <1>1. FullFresh /\ world \in World /\ world' = world
    BY DEF SessionInv, CheckUpdates, FullFresh, Fresh
  <1>2. cache' \subseteq Elements(world.aur)
    BY <1>1, NamedFound DEF CheckUpdates, AurInfo, FullFresh, Fresh
  <1>3. FullFresh'
    BY <1>1, <1>2 DEF CheckUpdates, FullFresh, Fresh, control, marks
  <1>4. FullInv' /\ Idle'
    BY <1>3, FreshIdle, PTL
  <1>5. PICK cached \in SUBSET Elements(world.aur) :
            cached = cache' /\ updates' = UpdatesOf(world.local, cached)
    BY <1>2 DEF CheckUpdates
  <1>6. SessionTypeOK' /\ RemotesKnown'
    <2>1. query' = query /\ stage' = "ask" /\ fetched' = cached /\ query \in Query
      BY <1>5 DEF CheckUpdates, SessionInv, SessionTypeOK
    <2> QED
      BY <1>1, <1>5, <2>1, UpdatesType DEF SessionTypeOK, RemotesKnown
  <1> QED
    BY <1>3, <1>4, <1>6 DEF SessionInv

(* The caller's request: every update is a target of it.                   *)
LEMMA ResolvedWorld ==
    ASSUME SessionInv, ResolveUpdates
    PROVE  \E ts \in Seq(Targ) :
               /\ world' = [world EXCEPT !.deps = ts, !.make_deps = << >>, !.is_target = TRUE]
               /\ Elements(ts) = { TargetOf(u) : u \in updates.found }
  <1>1. world \in World /\ fetched \subseteq Elements(world.aur)
    BY DEF SessionInv, ResolveUpdates, FullFresh, Fresh
  <1>2. PICK S : S = { TargetOf(u) : u \in updates.found }
    OBVIOUS
  <1>3. S \in SUBSET Targ /\ IsFiniteSet(S)
    BY <1>1, <1>2, TargetsOfUpdates DEF SessionInv
  <1>4. PICK ts \in Seqs!SetToSeqs(S) :
            world' = [world EXCEPT !.deps = ts, !.make_deps = << >>, !.is_target = TRUE]
    BY <1>2 DEF ResolveUpdates
  <1>5. ts \in Seq(Targ) /\ Elements(ts) = S
    BY <1>3, Orders
  <1> QED
    BY <1>2, <1>4, <1>5

LEMMA SessionResolves ==
    ASSUME SessionInv, ResolveUpdates
    PROVE  FullFresh' /\ SessionInv'
  <1>1. FullFresh /\ world \in World /\ fetched \subseteq Elements(world.aur)
    BY DEF SessionInv, ResolveUpdates, FullFresh, Fresh
  <1>2. PICK ts \in Seq(Targ) :
            world' = [world EXCEPT !.deps = ts, !.make_deps = << >>, !.is_target = TRUE]
    BY ResolvedWorld
  <1>3. world' \in World /\ world'.aur = world.aur /\ world'.pkgbuilds = world.pkgbuilds
    <2>1. << >> \in Seq(Targ) /\ TRUE \in BOOLEAN
      OBVIOUS
    <2> QED
      BY <1>1, <1>2, <2>1 DEF World
  <1>4. FullFresh'
    BY <1>1, <1>3 DEF ResolveUpdates, FullFresh, Fresh, control, marks, filling
  <1>5. FullInv' /\ Idle'
    BY <1>4, FreshIdle, PTL
  <1>6. SessionTypeOK' /\ RemotesKnown'
    BY <1>3 DEF SessionInv, SessionTypeOK, RemotesKnown, ResolveUpdates, filling
  <1> QED
    BY <1>4, <1>5, <1>6 DEF SessionInv

(* After an RPC error the plan is empty and the cache is what was fetched, *)
(* so the caller's next resolver is like its first.                        *)
LEMMA SessionRetries ==
    ASSUME SessionInv, Retry
    PROVE  FullFresh' /\ SessionInv'
  <1>1. /\ PlanInv /\ TypeOK /\ RoundShape /\ Idle
        /\ phase = "failed"
    BY DEF SessionInv, FullInv, FillInv, RoundInv, ResolutionInv, AnswerInv, Retry
  <1>2. /\ stack = << >> /\ build = << >> /\ install = << >>
        /\ cache = fetched /\ cache \subseteq Elements(world.aur) /\ world \in World
    BY <1>1 DEF PlanInv, Running, CacheKnown, Idle, RoundShape, TypeOK
  <1>3. FullFresh'
    BY <1>2 DEF Retry, FullFresh, Fresh, inputs
  <1>4. FullInv' /\ Idle'
    BY <1>3, FreshIdle, PTL
  <1>5. SessionTypeOK' /\ RemotesKnown'
    BY DEF SessionInv, SessionTypeOK, RemotesKnown, Retry, session, inputs
  <1> QED
    BY <1>3, <1>4, <1>5 DEF SessionInv

LEMMA SessionContinues ==
    ASSUME SessionInv, [FullNext]_fullvars, UNCHANGED session,
           stage = "resolve" \/ UNCHANGED fullvars
    PROVE  SessionInv'
  <1>1. PlanInv /\ FullInv /\ Idle /\ FetchedInv
    BY DEF SessionInv, FullInv, FillInv, ResolutionInv, AnswerInv
  <1>2. FullInv' /\ Idle'
    BY <1>1, NextFull, IdleKept
  <1>3. world' = world /\ fetched \subseteq fetched'
    BY <1>1, FullSteps, FetchedGrows
  <1>4. SessionTypeOK' /\ RemotesKnown'
    BY <1>3 DEF SessionInv, SessionTypeOK, RemotesKnown, session
  <1>5. stage' # "resolve" => FullFresh'
    BY DEF SessionInv, session, fullvars, vars, inputs, control, marks, filling, FullFresh, Fresh
  <1> QED
    BY <1>2, <1>4, <1>5 DEF SessionInv

LEMMA SessionKept == SessionInv /\ [SessionNext]_sessionvars => SessionInv'
  <1> SUFFICES ASSUME SessionInv, [SessionNext]_sessionvars PROVE SessionInv'
    OBVIOUS
  <1>1. CASE CheckUpdates
    BY <1>1, SessionChecks
  <1>2. CASE UpdatesFailed
    <2>1. UNCHANGED fullvars /\ stage = "check"
      BY <1>2 DEF UpdatesFailed
    <2>2. FullFresh /\ FullFresh'
      BY <2>1 DEF SessionInv, fullvars, vars, inputs, control, marks, filling, FullFresh, Fresh
    <2>3. FullInv' /\ Idle'
      BY <2>2, FreshIdle, PTL
    <2>4. SessionTypeOK' /\ RemotesKnown'
      BY <1>2, <2>1 DEF UpdatesFailed, SessionInv, SessionTypeOK, RemotesKnown, fullvars, vars, inputs,
                        filling
    <2> QED
      BY <2>2, <2>3, <2>4 DEF SessionInv
  <1>3. CASE ResolveUpdates
    BY <1>3, SessionResolves
  <1>4. CASE Resolve
    BY <1>4, SessionContinues DEF Resolve
  <1>5. CASE Retry
    BY <1>5, SessionRetries
  <1>6. CASE UNCHANGED sessionvars
    BY <1>6, SessionContinues DEF sessionvars
  <1> QED
    BY <1>1, <1>2, <1>3, <1>4, <1>5, <1>6 DEF SessionNext, GivenUp

THEOREM SessionsKept == SessionSpec => []SessionInv
  BY SessionFirst, SessionKept, PTL DEF SessionSpec

(* What updates() reports stays true in the resolution that follows and in *)
(* every attempt after it: an update is of the package of its name, and    *)
(* what it was found in the AUR is in the cache.                           *)
THEOREM SessionTypeCorrect == SessionSpec => []SessionTypeOK
  <1>1. SessionInv => SessionTypeOK
    BY DEF SessionInv
  <1> QED
    BY <1>1, SessionsKept, PTL

(* What is proved of one resolution from an empty plan holds of each one   *)
(* of a session, whatever cache it starts from: after updates(), and again *)
(* after an RPC error.                                                     *)
THEOREM SessionsKeepPromises ==
    SessionSpec => [](/\ TypeOK /\ NoReentry /\ InstallOnce /\ BuildFlagOnce
                      /\ MissingPath /\ MissingIsUnmet /\ NothingDropped /\ RequestsAnswered
                      /\ BuildOrder /\ BuiltOnce /\ EveryPackageNeeded
                      /\ FillTypeOK /\ NothingOverlooked /\ OnlyChoiceRead
                      /\ ConflictsReported /\ ConflictsReal
                      /\ DuplicatesDiffer /\ PlanInstallable)
  <1>1. SessionInv => ResolutionInv /\ PlanInv /\ FillTypeOK /\ FullInv
    BY DEF SessionInv, FullInv, FillInv, ResolutionInv, AnswerInv
  <1>2. SessionInv => /\ FillTypeOK /\ NothingOverlooked /\ OnlyChoiceRead
                      /\ TypeOK /\ NoReentry /\ InstallOnce /\ BuildFlagOnce
                      /\ MissingPath /\ MissingIsUnmet /\ NothingDropped /\ RequestsAnswered
                      /\ BuildOrder /\ BuiltOnce /\ EveryPackageNeeded
    BY <1>1, ResolutionPromises, FullOverlooks, FullSpared
  <1>3. SessionInv => DuplicatesDiffer /\ PlanInstallable
    BY <1>1, <1>2, DoneDiffer, DroppedInstallable
  <1> QED
    BY <1>2, <1>3, EveryClashReported, EveryReportReal, SessionsKept, PTL
-----------------------------------------------------------------------------
(* What updates() finds. *)

(* What the package q of the system is compared with, when all that the    *)
(* AUR has of its name is in the cache.                                    *)
Offered(q, r) ==
    \/ Flag("PKGBUILDS") /\ r \in FindPkgbuild(q.name)
    \/ Flag("AUR") /\ ~ IsPkgbuild(q.name) /\ r \in Elements(world.aur) /\ r.name = q.name

OutOfDate(q, r) == Offered(q, r) /\ ShouldUpgrade(q, r) /\ q.name \notin query.ignored

LEMMA FoundMeans ==
    ASSUME NEW system, NEW cached \in SUBSET Elements(world.aur)
    PROVE  LET outcome == UpdatesOf(system, cached).found
           IN  /\ \A u \in outcome : /\ u.local \in UpdateTargs(system)
                                   /\ OutOfDate(u.local, u.remote)
               /\ AurInfo(system) \subseteq cached =>
                      \A q \in UpdateTargs(system) : \A r :
                          OutOfDate(q, r) => [local |-> q, remote |-> r] \in outcome
  <1> DEFINE remotes(q) == IF q \in PkgbuildTargs(system) THEN FindPkgbuild(q.name)
                           ELSE { p \in cached : p.name = q.name }
             known      == PkgbuildTargs(system) \cup AurTargs(system)
             outdated   == UNION { { [local |-> q, remote |-> p] :
                                     p \in { r \in remotes(q) : ShouldUpgrade(q, r) } } : q \in known }
  <1>1. UpdatesOf(system, cached).found = { u \in outdated : u.local.name \notin query.ignored }
    BY DEF UpdatesOf
  <1>2. ASSUME NEW q \in known, NEW r \in remotes(q)
        PROVE  q \in UpdateTargs(system) /\ Offered(q, r)
    BY DEF PkgbuildTargs, AurTargs, Offered
  <1>3. ASSUME AurInfo(system) \subseteq cached, NEW q \in UpdateTargs(system), NEW r, Offered(q, r)
        PROVE  q \in known /\ r \in remotes(q)
    <2>1. CASE Flag("PKGBUILDS") /\ r \in FindPkgbuild(q.name)
      BY <2>1 DEF PkgbuildTargs, IsPkgbuild
    <2>2. CASE Flag("AUR") /\ ~ IsPkgbuild(q.name) /\ r \in Elements(world.aur) /\ r.name = q.name
      <3>1. q \in AurTargs(system) /\ q \notin PkgbuildTargs(system)
        BY <2>2 DEF AurTargs, PkgbuildTargs
      <3>2. r \in cached
        BY <1>3, <2>2, <3>1 DEF AurInfo, Named
      <3> QED
        BY <2>2, <3>1, <3>2
    <2> QED
      BY <1>3, <2>1, <2>2 DEF Offered
  <1> HIDE DEF remotes, known
  <1>4. ASSUME NEW u \in outdated
        PROVE  /\ u.local \in UpdateTargs(system) /\ Offered(u.local, u.remote)
               /\ ShouldUpgrade(u.local, u.remote)
    <2>1. PICK q \in known : u \in { [local |-> q, remote |-> p] :
                                     p \in { r \in remotes(q) : ShouldUpgrade(q, r) } }
      OBVIOUS
    <2>2. PICK r \in remotes(q) : u = [local |-> q, remote |-> r] /\ ShouldUpgrade(q, r)
      BY <2>1
    <2> HIDE DEF outdated
    <2>3. u.local = q /\ u.remote = r
      BY <2>2
    <2> QED
      BY <1>2, <2>2, <2>3
  <1>5. ASSUME AurInfo(system) \subseteq cached, NEW q \in UpdateTargs(system), NEW r, OutOfDate(q, r)
        PROVE  [local |-> q, remote |-> r] \in outdated
    BY <1>3, <1>5 DEF OutOfDate
  <1> HIDE DEF outdated
  <1>6. ASSUME NEW u \in UpdatesOf(system, cached).found
        PROVE  u.local \in UpdateTargs(system) /\ OutOfDate(u.local, u.remote)
    BY <1>1, <1>4 DEF OutOfDate
  <1>7. ASSUME AurInfo(system) \subseteq cached, NEW q \in UpdateTargs(system), NEW r, OutOfDate(q, r)
        PROVE  [local |-> q, remote |-> r] \in UpdatesOf(system, cached).found
    <2>1. PICK u : u = [local |-> q, remote |-> r]
      OBVIOUS
    <2>2. u \in outdated /\ u.local.name \notin query.ignored
      BY <1>5, <1>7, <2>1 DEF OutOfDate
    <2> QED
      BY <1>1, <2>1, <2>2
  <1> QED
    BY <1>6, <1>7

(* The databases, as opposed to the request, do not change in a session.   *)
DataKept ==
    /\ query' = query
    /\ world'.flags = world.flags /\ world'.local = world.local /\ world'.repos = world.repos
    /\ world'.pkgbuilds = world.pkgbuilds /\ world'.aur = world.aur

LEMMA ReportStays ==
    ASSUME DataKept
    PROVE  /\ \A q : (q \in UpdateTargs(world.local))' <=> q \in UpdateTargs(world.local)
           /\ \A q, r : OutOfDate(q, r)' <=> OutOfDate(q, r)
  <1>1. \A f : Flag(f)' <=> Flag(f)
    BY DEF DataKept, Flag
  <1>2. \A n : FindPkgbuild(n)' = FindPkgbuild(n)
    BY DEF DataKept, FindPkgbuild, First
  <1>3. \A n : IsPkgbuild(n)' <=> IsPkgbuild(n)
    BY <1>2 DEF IsPkgbuild
  <1>4. \A q, r : ShouldUpgrade(q, r)' <=> ShouldUpgrade(q, r)
    BY <1>1 DEF ShouldUpgrade
  <1>5. \A q, r : Offered(q, r)' <=> Offered(q, r)
    BY <1>1, <1>2, <1>3 DEF DataKept, Offered, Elements
  <1>6. \A q, r : OutOfDate(q, r)' <=> OutOfDate(q, r)
    BY <1>4, <1>5 DEF DataKept, OutOfDate
  <1>7. \A q : (q \in UpdateTargs(world.local))' <=> q \in UpdateTargs(world.local)
    BY DEF DataKept, UpdateTargs, Elements
  <1> QED
    BY <1>6, <1>7

(* The updates are the ones that there still are, ... *)
UpdatesTrue ==
    updates.found # {} =>
        /\ \A u \in updates.found : /\ u.local \in UpdateTargs(world.local)
                                    /\ OutOfDate(u.local, u.remote)
        /\ \A q \in UpdateTargs(world.local) : \A r :
               OutOfDate(q, r) => [local |-> q, remote |-> r] \in updates.found

(* ... the caller has asked for them all and for nothing else, ... *)
UpdatesRequested ==
    stage = "resolve" /\ updates.found # {} =>
        /\ world.is_target
        /\ Elements(Requested) = { TargetOf(u) : u \in updates.found }

(* ... and the local database and the AUR have a name once. *)
LocalOnce == \A p, q \in world.local : p.name = q.name => p = q

AurOnce == \A p, q \in Elements(world.aur) : p.name = q.name => p = q

ReportInv == UpdatesTrue /\ UpdatesRequested /\ LocalOnce /\ AurOnce

LEMMA ReportFirst == SessionInit => ReportInv
  <1> SUFFICES ASSUME SessionInit PROVE ReportInv
    OBVIOUS
  <1>1. world \in Worlds /\ updates = NoUpdates
    BY DEF SessionInit, FullInit, Init
  <1> QED
    BY <1>1, LocalAssumption, AurAssumption
       DEF ReportInv, UpdatesTrue, UpdatesRequested, LocalOnce, AurOnce, NoUpdates

LEMMA ReportMade ==
    ASSUME SessionInv, ReportInv, CheckUpdates
    PROVE  ReportInv'
  <1>1. /\ world \in World /\ world' = world /\ query' = query /\ stage' = "ask"
        /\ cache \subseteq Elements(world.aur)
    BY DEF SessionInv, CheckUpdates, FullFresh, Fresh
  <1>2. PICK cached : cached = cache \cup AurInfo(world.local)
    OBVIOUS
  <1>3. cached \subseteq Elements(world.aur) /\ AurInfo(world.local) \subseteq cached
    BY <1>1, <1>2, NamedFound DEF AurInfo
  <1>4. PICK result : result = UpdatesOf(world.local, cached)
    OBVIOUS
  <1>5. updates' = result
    BY <1>2, <1>4 DEF CheckUpdates
  <1>6. DataKept
    BY <1>1 DEF DataKept
  <1>7. /\ \A u \in result.found : /\ u.local \in UpdateTargs(world.local)
                                   /\ OutOfDate(u.local, u.remote)
        /\ \A q \in UpdateTargs(world.local) : \A r :
               OutOfDate(q, r) => [local |-> q, remote |-> r] \in result.found
    BY <1>3, <1>4, FoundMeans
  <1>8. UpdatesTrue'
    BY <1>5, <1>6, <1>7, ReportStays DEF UpdatesTrue
  <1> QED
    BY <1>1, <1>8 DEF ReportInv, UpdatesRequested, LocalOnce, AurOnce

LEMMA ReportTargeted ==
    ASSUME SessionInv, ReportInv, ResolveUpdates
    PROVE  ReportInv'
  <1>1. PICK ts \in Seq(Targ) :
            /\ world' = [world EXCEPT !.deps = ts, !.make_deps = << >>, !.is_target = TRUE]
            /\ Elements(ts) = { TargetOf(u) : u \in updates.found }
    BY ResolvedWorld
  <1>2. world \in World /\ updates' = updates /\ query' = query /\ stage' = "resolve"
    BY DEF SessionInv, ResolveUpdates, FullFresh, Fresh
  <1>3. /\ DataKept /\ world'.deps = ts /\ world'.make_deps = << >> /\ world'.is_target
        /\ world'.aur_namespace = world.aur_namespace
    BY <1>1, <1>2 DEF DataKept, World
  <1>4. Requested' = ts
    BY <1>3 DEF Requested
  <1>5. \A u : TargetOf(u)' = TargetOf(u)
    BY <1>3 DEF TargetOf
  <1>6. UpdatesRequested'
    <2>1. Elements(Requested)' = Elements(ts)
      BY <1>4 DEF Elements
    <2>2. { TargetOf(u) : u \in updates.found }' = { TargetOf(u) : u \in updates.found }
      BY <1>2, <1>5
    <2> QED
      BY <1>1, <1>3, <2>1, <2>2 DEF UpdatesRequested
  <1>7. UpdatesTrue'
    BY <1>2, <1>3, ReportStays DEF ReportInv, UpdatesTrue
  <1> QED
    BY <1>3, <1>6, <1>7 DEF ReportInv, LocalOnce, AurOnce, DataKept

LEMMA ReportKept ==
    ASSUME ReportInv, world' = world, query' = query, updates' = updates, stage' # "resolve" \/ stage' = stage
    PROVE  ReportInv'
  <1>1. DataKept /\ Requested' = Requested /\ \A u : TargetOf(u)' = TargetOf(u)
    BY DEF DataKept, Requested, TargetOf
  <1>2. UpdatesTrue'
    BY <1>1, ReportStays DEF ReportInv, UpdatesTrue
  <1>3. UpdatesRequested'
    BY <1>1 DEF ReportInv, UpdatesRequested, Elements
  <1> QED
    BY <1>2, <1>3 DEF ReportInv, LocalOnce, AurOnce
-----------------------------------------------------------------------------
(* A target that is to be looked up in one place is filed there.           *)

FiledRight(t) ==
    /\ WhereIsTarget(t) = "pkgbuild" /\ FoundPkgbuild(t) => t \in Elements(targets.pkgbuild)
    /\ WhereIsTarget(t) = "aur" /\ InAur(t) => t.pkg \in Elements(targets.aur)

WellFiled ==
    world.is_target =>
        \A i \in DOMAIN Requested : phase # "split" \/ i < next => FiledRight(Requested[i])

LEMMA NextWellFiled ==
    ASSUME PathInv, WellFiled, [Next]_vars
    PROVE  WellFiled'
  <1>1. world' = world /\ Requested' = Requested /\ TypeOK
    BY WorldKept, ReadKept DEF PathInv
  <1>0. \A t : FoundPkgbuild(t)' <=> FoundPkgbuild(t)
    <2>1. NoVer' = NoVer /\ \A t : InPkgbuilds(t)' <=> InPkgbuilds(t)
      BY <1>1, ReadKept, PlaceKept
    <2> QED
      BY <1>1, <2>1 DEF FoundPkgbuild, FindPkgbuildRepoDep, First
  <1>2. ASSUME NEW t, FiledRight(t) PROVE FiledRight(t)'
    BY <1>0, <1>1, <1>2, PlaceKept, TargetsGrow DEF FiledRight
  <1>3. CASE Splitting
    <2>1. PICK t : t = Request
      OBVIOUS
    <2>2. ASSUME world.is_target PROVE FiledRight(t)'
      <3>1. CASE SplitAssumed
        BY <2>2, <3>1 DEF SplitAssumed, Assumed
      <3>2. CASE SplitRepo \/ SplitGroup
        <4>1. InRepos(t)
          BY <2>1, <3>2 DEF SplitRepo, SplitGroup, FoundInRepos, FoundAsGroup
        <4> QED
          BY <1>0, <1>1, <4>1, PlaceKept DEF FiledRight, InRepos
      <3>3. CASE SplitPkgbuild
        <4>1. InPkgbuilds(t) /\ t \in Elements(targets'.pkgbuild)
          BY <1>1, <2>1, <3>3, SplitFiles DEF SplitPkgbuild, FoundPkgbuild
        <4> QED
          BY <1>0, <1>1, <4>1, PlaceKept DEF FiledRight, InPkgbuilds
      <3>4. CASE SplitAur
        <4>1. ~ FoundPkgbuild(t) /\ t.pkg \in Elements(targets'.aur)
          BY <1>1, <2>1, <3>4, SplitFiles DEF SplitAur
        <4> QED
          BY <1>0, <1>1, <4>1, PlaceKept DEF FiledRight
      <3>5. CASE SplitMissing
        <4>1. ~ FoundPkgbuild(t) /\ ~ InAur(t)
          BY <2>1, <3>5 DEF SplitMissing
        <4> QED
          BY <1>0, <1>1, <4>1, PlaceKept DEF FiledRight
      <3> QED
        BY <1>3, <3>1, <3>2, <3>3, <3>4, <3>5, SplitKind
    <2>3. /\ Request = Requested[next] /\ next' = next + 1 /\ next \in Nat /\ phase = "split"
          /\ phase' = phase /\ DOMAIN Requested \subseteq Nat
      BY <1>3, RequestType DEF Splitting, Request, PathInv, TypeOK
    <2>4. \A i \in DOMAIN Requested : i < next' => i < next \/ i = next
      BY <2>3
    <2> QED
      BY <1>1, <1>2, <2>1, <2>2, <2>3, <2>4 DEF WellFiled
  <1>4. CASE SplitDone
    <2>1. phase = "split" /\ next = Len(Requested) + 1 /\ Requested \in Seq(Targ)
      BY <1>4, RequestType DEF SplitDone, Enter, PathInv, TypeOK
    <2>2. \A i \in DOMAIN Requested : i < next
      BY <2>1
    <2> QED
      BY <1>1, <1>2, <2>2 DEF WellFiled
  <1>5. CASE ~ Splitting /\ ~ SplitDone
    <2>1. (phase = "split" => phase' = "split" /\ next' = next) /\ (phase' = "split" => phase = "split")
      BY <1>5, NotSplitting
    <2> QED
      BY <1>1, <1>2, <2>1 DEF WellFiled
  <1> QED
    BY <1>3, <1>4, <1>5

-----------------------------------------------------------------------------
(* What is to be built, by why it was pushed. *)

AsTarget(p) == \E e \in BuildEntries : e.pkg = p /\ e.target
AsDep(p)    == \E e \in BuildEntries : e.pkg = p /\ ~ e.target

LEMMA BuildPkgsMarked ==
    ASSUME NEW p
    PROVE  p \in BuildPkgs <=> AsTarget(p) \/ AsDep(p)
  BY DEF BuildPkgs, AsTarget, AsDep

LEMMA PushEntries ==
    ASSUME build \in Seq(Base), NEW e \in Entry, build' = PushBuild(e)
    PROVE  BuildEntries' = BuildEntries \cup {e}
  <1> DEFINE last == build[Len(build)]
             new  == [ src |-> e.pkg.src, repo |-> e.pkg.repo, base |-> e.pkg.base, pkgs |-> <<e>>,
                       build |-> \A b \in Elements(build) :
                                     ~ (b.src = e.pkg.src /\ b.base = e.pkg.base) ]
  <1>1. PICK n : n = Len(build)
    OBVIOUS
  <1>2. n \in Nat /\ DOMAIN build = 1 .. n
    BY <1>1
  <1>3. \A x : x \in BuildEntries <=> \E i \in DOMAIN build : x \in Elements(build[i].pkgs)
    BY DEF BuildEntries
  <1>4. \A x : x \in BuildEntries' <=> \E i \in DOMAIN build' : x \in Elements(build'[i].pkgs)
    BY DEF BuildEntries, Elements
  <1>5. CASE build # << >> /\ last.src = e.pkg.src /\ last.base = e.pkg.base
    <2> DEFINE b == [last EXCEPT !.pkgs = Append(@, e)]
    <2>1. build' = [build EXCEPT ![n] = b] /\ n \in DOMAIN build
      BY <1>1, <1>2, <1>5 DEF PushBuild
    <2>2. last \in Base /\ last = build[n]
      BY <1>1, <2>1
    <2>3. b.pkgs = Append(last.pkgs, e) /\ last.pkgs \in Seq(Entry)
      BY <2>2 DEF Base
    <2> HIDE DEF b, last
    <2>4. Elements(b.pkgs) = Elements(last.pkgs) \cup {e}
      BY <2>3, AppendElements
    <2>5. /\ DOMAIN build' = DOMAIN build /\ build'[n] = b
          /\ \A i \in DOMAIN build : i # n => build'[i] = build[i]
      BY <2>1
    <2> QED
      BY <1>3, <1>4, <2>1, <2>2, <2>4, <2>5
  <1>6. CASE ~ (build # << >> /\ last.src = e.pkg.src /\ last.base = e.pkg.base)
    <2>1. build' = Append(build, new)
      BY <1>6 DEF PushBuild
    <2>2. Elements(new.pkgs) = {e}
      BY DEF Elements
    <2> HIDE DEF new
    <2>3. /\ DOMAIN build' = DOMAIN build \cup {n + 1} /\ build'[n + 1] = new
          /\ \A i \in DOMAIN build : build'[i] = build[i]
      BY <1>1, <1>2, <2>1
    <2> QED
      BY <1>3, <1>4, <2>2, <2>3
  <1> QED
    BY <1>5, <1>6

(* Recomputing the make marks leaves the target marks. *)
LEMMA RemarkedEntries ==
    ASSUME TypeOK, CalculateMake, NEW p
    PROVE  (AsTarget(p)' <=> AsTarget(p)) /\ (AsDep(p)' <=> AsDep(p))
  <1>1. build' = [i \in DOMAIN build |-> [build[i] EXCEPT !.pkgs = Remark(@)]]
    BY DEF CalculateMake
  <1>2. ASSUME NEW i \in DOMAIN build
        PROVE  /\ DOMAIN build'[i].pkgs = DOMAIN build[i].pkgs
               /\ \A j \in DOMAIN build[i].pkgs :
                      /\ build'[i].pkgs[j].pkg = build[i].pkgs[j].pkg
                      /\ build'[i].pkgs[j].target = build[i].pkgs[j].target
    <2>1. build[i] \in Base
      BY DEF TypeOK
    <2>2. build'[i].pkgs = Remark(build[i].pkgs) /\ build[i].pkgs \in Seq(Entry)
      BY <1>1, <2>1 DEF Base
    <2> QED
      BY <2>2, RemarkType DEF Entry
  <1>3. DOMAIN build' = DOMAIN build
    BY <1>1
  <1> HIDE <1>1
  <1> DEFINE At(i, j) == build[i].pkgs[j]
  <1>4. /\ AsTarget(p) <=> \E i \in DOMAIN build : \E j \in DOMAIN build[i].pkgs :
                               build[i].pkgs[j].pkg = p /\ build[i].pkgs[j].target
        /\ AsDep(p) <=> \E i \in DOMAIN build : \E j \in DOMAIN build[i].pkgs :
                            build[i].pkgs[j].pkg = p /\ ~ build[i].pkgs[j].target
    BY DEF AsTarget, AsDep, BuildEntries, Elements
  <1>5. /\ AsTarget(p)' <=> \E i \in DOMAIN build' : \E j \in DOMAIN build'[i].pkgs :
                                build'[i].pkgs[j].pkg = p /\ build'[i].pkgs[j].target
        /\ AsDep(p)' <=> \E i \in DOMAIN build' : \E j \in DOMAIN build'[i].pkgs :
                             build'[i].pkgs[j].pkg = p /\ ~ build'[i].pkgs[j].target
    BY DEF AsTarget, AsDep, BuildEntries, Elements
  <1> QED
    BY <1>2, <1>3, <1>4, <1>5

LEMMA EntriesKind ==
    ASSUME PathInv, [Next]_vars, NEW p
    PROVE  /\ AsTarget(p) => AsTarget(p)'
           /\ AsDep(p) => AsDep(p)'
           /\ AsTarget(p)' => \/ AsTarget(p)
                              \/ Finish /\ p = Top.pkg /\ Top.pkg.src \in ToBuild /\ Top.target
  <1>1. CASE UNCHANGED build
    BY <1>1 DEF AsTarget, AsDep, BuildEntries
  <1>2. CASE CalculateMake
    BY <1>2, RemarkedEntries DEF PathInv
  <1>3. CASE FinishBuild
    <2> DEFINE e == [pkg |-> Top.pkg, make |-> Top.make, target |-> Top.target]
    <2>1. /\ e \in Entry /\ Top.pkg.src \in ToBuild
          /\ e.pkg = Top.pkg /\ (e.target <=> Top.target)
          /\ build' = build \/ build' = PushBuild(e)
      BY <1>3, EntryType DEF FinishBuild, PathInv, TypeOK
    <2> HIDE DEF e
    <2>2. CASE build' = PushBuild(e)
      <3>1. BuildEntries' = BuildEntries \cup {e}
        BY <2>1, <2>2, PushEntries DEF PathInv, TypeOK
      <3> QED
        BY <1>3, <2>1, <3>1 DEF AsTarget, AsDep, Finish
    <2> QED
      BY <1>1, <2>1, <2>2
  <1>4. CASE FinishRepo
    BY <1>1, <1>4 DEF FinishRepo
  <1> QED
    BY <1>1, <1>2, <1>3, <1>4, PathKind, OutsidePlan, DepPlan DEF PathInv, Finish

(* Only the frame of a target pushes with the target mark. *)
LEMMA FramesMarked ==
    ASSUME PathInv, [Next]_vars, NEW i \in DOMAIN stack', stack'[i].target
    PROVE  \/ i \in DOMAIN stack /\ stack'[i].pkg = stack[i].pkg /\ stack[i].target
           \/ i = 1 /\ (RepoTarget \/ PkgbuildTarget \/ AurTarget)
  <1>0. stack \in Seq(Frame) /\ DOMAIN stack = 1 .. Len(stack) /\ Len(stack) \in Nat
    BY DEF PathInv, TypeOK
  <1>1. CASE UNCHANGED stack
    BY <1>1
  <1>2. ASSUME NEW f, OpensFor(f)
        PROVE  i = 1 /\ (RepoTarget \/ PkgbuildTarget \/ AurTarget)
    <2>1. stack = << >> /\ DOMAIN stack' = {1} /\ stack' # << >>
      BY <1>2 DEF OpensFor
    <2> QED
      BY <2>1, RootKind
  <1>3. CASE Steps
    BY <1>0, <1>3, AdvancedType DEF Steps
  <1>4. ASSUME NEW f, CallsFor(f)
        PROVE  i \in DOMAIN stack /\ stack'[i].pkg = stack[i].pkg /\ stack[i].target
    <2>1. /\ Advanced \in Seq(Frame) /\ Len(Advanced) = Len(stack)
          /\ \A j \in DOMAIN stack : /\ Advanced[j].pkg = stack[j].pkg
                                     /\ Advanced[j].target = stack[j].target
      BY <1>0, <1>4, AdvancedType DEF CallsFor
    <2>2. stack' = Append(Advanced, f) /\ ~ f.target
      BY <1>4 DEF CallsFor
    <2>3. PICK n : n = Len(stack) + 1
      OBVIOUS
    <2>4. DOMAIN stack' = DOMAIN stack \cup {n} /\ stack'[n] = f
      BY <1>0, <2>1, <2>2, <2>3
    <2>5. \A j \in DOMAIN stack : stack'[j] = Advanced[j]
      BY <1>0, <2>1, <2>2
    <2> QED
      BY <2>1, <2>2, <2>4, <2>5
  <1>5. CASE Pops
    BY <1>5, PoppedFrames DEF PathInv
  <1> QED
    BY <1>1, <1>2, <1>3, <1>4, <1>5, PathKind

-----------------------------------------------------------------------------
(* Nothing comes between an update and the plan.                           *)

Undisturbed == NoRivals /\ NeededFits

(* A package of a PKGBUILD repo is found there, or one before it is.       *)
LEMMA PkgbuildHere ==
    ASSUME world \in World, NEW q \in Elements(world.pkgbuilds), NEW d, Satisfies(q, d, NoVer)
    PROVE  FindPkgbuildRepoDep(q.repo, d) # {}
  <1> DEFINE Match(p) == (q.repo = NoRepo \/ p.repo = q.repo) /\ Satisfies(p, d, NoVer)
             P        == { p \in Elements(world.pkgbuilds) : Match(p) }
  <1>1. q \in Elements(world.pkgbuilds) \cap P /\ world.pkgbuilds \in Seq(PackageOf("pkgbuild"))
    BY WorldTypes
  <1> HIDE DEF P
  <1>2. PICK k \in DOMAIN world.pkgbuilds :
            world.pkgbuilds[k] \in P /\ \A j \in 1 .. (k - 1) : world.pkgbuilds[j] \notin P
    BY <1>1, FirstFound
  <1>3. \A j \in 1 .. (k - 1) : world.pkgbuilds[j] \in Elements(world.pkgbuilds)
    BY <1>1, <1>2 DEF Elements
  <1>4. /\ Match(world.pkgbuilds[k])
        /\ \A j \in 1 .. (k - 1) : ~ Match(world.pkgbuilds[j])
    BY <1>2, <1>3 DEF P
  <1> QED
    BY <1>2, <1>4 DEF FindPkgbuildRepoDep, First

(* A name is offered one package.                                          *)
LEMMA OfferedOnce ==
    ASSUME world \in World, AurOnce, NEW q1, NEW q2, q1.name = q2.name,
           NEW r1, Offered(q1, r1), NEW r2, Offered(q2, r2)
    PROVE  r1 = r2 /\ r1.name = q1.name
  <1>1. world.pkgbuilds \in Seq(PackageOf("pkgbuild"))
    BY WorldTypes
  <1>2. CASE r1 \in FindPkgbuild(q1.name) /\ r2 \in FindPkgbuild(q1.name)
    <2>1. PICK j \in DOMAIN world.pkgbuilds :
              /\ r1 = world.pkgbuilds[j] /\ r1.name = q1.name
              /\ \A i \in 1 .. (j - 1) : world.pkgbuilds[i].name # q1.name
      BY <1>2 DEF FindPkgbuild, First
    <2>2. PICK k \in DOMAIN world.pkgbuilds :
              /\ r2 = world.pkgbuilds[k] /\ r2.name = q1.name
              /\ \A i \in 1 .. (k - 1) : world.pkgbuilds[i].name # q1.name
      BY <1>2 DEF FindPkgbuild, First
    <2>3. ~ (j < k) /\ ~ (k < j) /\ j \in Nat /\ k \in Nat
      BY <1>1, <2>1, <2>2
    <2> QED
      BY <2>1, <2>2, <2>3
  <1>3. CASE r1 \notin FindPkgbuild(q1.name) \/ r2 \notin FindPkgbuild(q1.name)
    BY <1>3 DEF Offered, IsPkgbuild, AurOnce
  <1> QED
    BY <1>2, <1>3

(* What the target of an update, looked up where the update was found,     *)
(* brings is that very update.                                             *)
LEMMA PkgbuildRemote ==
    ASSUME world \in World, NEW u, Rivals(u) = {}, u.remote.src = "pkgbuild",
           u.local.name = u.remote.name, u.remote \in FindPkgbuild(u.local.name),
           NEW p \in FindPkgbuildRepoDep(TargetOf(u).repo, TargetOf(u).pkg)
    PROVE  p = u.remote
  <1> DEFINE d == TargetOf(u).pkg
             r == TargetOf(u).repo
  <1>1. /\ world.pkgbuilds \in Seq(PackageOf("pkgbuild"))
        /\ r = u.remote.repo /\ Satisfies(u.remote, d, NoVer)
    BY WorldTypes DEF TargetOf, Satisfies, SatisfiesVer
  <1> HIDE DEF d, r
  <1>2. PICK k \in DOMAIN world.pkgbuilds :
            /\ u.remote = world.pkgbuilds[k]
            /\ \A i \in 1 .. (k - 1) : world.pkgbuilds[i].name # u.local.name
    BY DEF FindPkgbuild, First
  <1>3. PICK j \in DOMAIN world.pkgbuilds :
            /\ p = world.pkgbuilds[j] /\ Satisfies(p, d, NoVer)
            /\ \A i \in 1 .. (j - 1) :
                   ~ ((r = NoRepo \/ world.pkgbuilds[i].repo = r) /\ Satisfies(world.pkgbuilds[i], d, NoVer))
    BY DEF FindPkgbuildRepoDep, First, d, r
  <1>4. p.name = u.local.name
    <2>1. p \in Elements(world.pkgbuilds) /\ p.src = "pkgbuild"
      BY <1>1, <1>3, ElementsType, PackageOfType DEF Elements
    <2> QED
      BY <1>3, <2>1 DEF Rivals, d
  <1>5. ~ (j < k) /\ ~ (k < j) /\ j \in Nat /\ k \in Nat
    BY <1>1, <1>2, <1>3, <1>4
  <1> QED
    BY <1>2, <1>3, <1>5

LEMMA AurRemote ==
    ASSUME world \in World, AurOnce, cache \subseteq Elements(world.aur), ~ world.provider_cb,
           NEW u, Rivals(u) = {}, u.remote.src = "aur", u.local.name = u.remote.name,
           u.remote \in cache, NEW target
    PROVE  SelectSatisfierAurCache(TargetOf(u).pkg, target) = {u.remote}
  <1> DEFINE d == TargetOf(u).pkg
             Any(p)       == p \in cache /\ Satisfies(p, d, NoVer)
             Installed(p) == Any(p) /\ InstalledName(p.name)
             HasName(p)   == Any(p) /\ p.name = d.name
  <1>1. d.name = u.local.name /\ Satisfies(u.remote, d, NoVer)
    BY DEF TargetOf, Satisfies, SatisfiesVer
  <1>2. SelectSatisfierAurCache(d, target) # {}
    BY <1>1, AurUnmet
  <1>3. ASSUME NEW p \in SelectSatisfierAurCache(d, target)
        PROVE  p \in First(world.aur, Installed) \/ p \in First(world.aur, HasName)
    <2>1. First(world.aur, HasName) # {}
      <3> DEFINE P == { q \in cache : HasName(q) }
      <3>1. u.remote \in Elements(world.aur) \cap P
        BY <1>1
      <3>2. world.aur \in Seq(PackageOf("aur"))
        BY WorldTypes
      <3> HIDE DEF P
      <3>3. PICK k \in DOMAIN world.aur :
                world.aur[k] \in P /\ \A j \in 1 .. (k - 1) : world.aur[j] \notin P
        BY <3>1, <3>2, FirstFound
      <3>4. HasName(world.aur[k]) /\ \A j \in 1 .. (k - 1) : ~ HasName(world.aur[j])
        BY <3>3 DEF P
      <3> QED
        BY <3>4 DEF First
    <2> QED
      BY <2>1 DEF SelectSatisfierAurCache, FindSatisfierAurCache
  <1>4. ASSUME NEW p \in SelectSatisfierAurCache(d, target) PROVE p = u.remote
    <2>1. /\ p \in cache /\ Satisfies(p, d, NoVer)
          /\ InstalledName(p.name) \/ p.name = d.name
      BY <1>3 DEF First
    <2>2. p \in Elements(world.aur) /\ p.src = "aur"
      BY <2>1, WorldTypes, ElementsType, PackageOfType
    <2>3. p.name = u.local.name
      BY <1>1, <2>1, <2>2 DEF Rivals
    <2> QED
      BY <2>2, <2>3 DEF AurOnce
  <1> QED
    BY <1>2, <1>4

(* Nothing installed makes it unneeded.                                    *)
LEMMA UpdateNeeded ==
    ASSUME world \in World, LocalOnce, NeededFits, world.is_target,
           NEW u, u.local.name = u.remote.name, u.local \in UpdateTargs(world.local),
           ShouldUpgrade(u.local, u.remote), u.remote \in Package, NEW d
    PROVE  NotNeeded(u.remote, d) = {}
  <1> SUFFICES ASSUME NEW q \in NotNeeded(u.remote, d) PROVE FALSE
    OBVIOUS
  <1>1. Flag("NEEDED") /\ q \in world.local /\ q.name = u.remote.name /\ q.ver >= u.remote.ver
    BY DEF NotNeeded, UpToDate
  <1>2. ~ Flag("ENABLE_DOWNGRADE") /\ ~ query.chosen
    BY <1>1 DEF NeededFits
  <1>3. u.local \in world.local /\ u.remote.ver > u.local.ver
    BY <1>2 DEF UpdateTargs, ShouldUpgrade
  <1>4. q = u.local
    BY <1>1, <1>3 DEF LocalOnce
  <1>5. q.ver \in Nat /\ u.remote.ver \in Nat
    <2>1. q \in Package
      BY <1>1, WorldTypes, ElementsType, PackageOfType
    <2> QED
      BY <2>1 DEF Package
  <1> QED
    BY <1>1, <1>3, <1>4, <1>5

(* An update as the resolution that it is a target of finds it.            *)
UpdateKnown(u) ==
    /\ u.local.name = u.remote.name /\ u.local \in UpdateTargs(world.local)
    /\ OutOfDate(u.local, u.remote) /\ u.remote \in Package
    /\ TargetOf(u) \in Elements(Requested)
    /\ \/ /\ u.remote.src = "pkgbuild" /\ Flag("PKGBUILDS")
          /\ u.remote \in FindPkgbuild(u.local.name) /\ u.remote \in Elements(world.pkgbuilds)
       \/ u.remote.src = "aur" /\ Flag("AUR") /\ u.remote \in fetched

LEMMA UpdatesKnown ==
    ASSUME SessionInv, ReportInv, stage = "resolve"
    PROVE  /\ updates.found # {} => world.is_target
           /\ \A u \in updates.found : UpdateKnown(u)
  <1> SUFFICES ASSUME NEW u \in updates.found PROVE world.is_target /\ UpdateKnown(u)
    OBVIOUS
  <1>1. /\ u.local.name = u.remote.name /\ u.remote \in Package
        /\ u.remote.src = "aur" => u.remote \in fetched
    BY DEF SessionInv, SessionTypeOK, Update
  <1>2. u.local \in UpdateTargs(world.local) /\ OutOfDate(u.local, u.remote)
    BY DEF ReportInv, UpdatesTrue
  <1>3. world.is_target /\ TargetOf(u) \in Elements(Requested)
    BY DEF ReportInv, UpdatesRequested
  <1>4. world \in World
    BY DEF SessionInv, FullInv, FillInv, TypeOK
  <1>5. CASE Flag("PKGBUILDS") /\ u.remote \in FindPkgbuild(u.local.name)
    <2>1. u.remote \in Elements(world.pkgbuilds)
      BY <1>5 DEF FindPkgbuild, First, Elements
    <2>2. u.remote.src = "pkgbuild"
      BY <1>4, <2>1, WorldTypes, ElementsType, PackageOfType
    <2> QED
      BY <1>1, <1>2, <1>3, <1>5, <2>1, <2>2 DEF UpdateKnown
  <1>6. CASE Flag("AUR") /\ u.remote \in Elements(world.aur)
    <2>1. u.remote.src = "aur"
      BY <1>4, <1>6, WorldTypes, ElementsType, PackageOfType
    <2> QED
      BY <1>1, <1>2, <1>3, <1>6, <2>1 DEF UpdateKnown
  <1> QED
    BY <1>2, <1>5, <1>6 DEF OutOfDate, Offered

(* The packages of the updates: what a target of theirs opens is one.      *)
Remotes == { u.remote : u \in updates.found }

LEMMA TargetOpened ==
    ASSUME SessionInv, ReportInv, stage = "resolve", updates.found # {}, Undisturbed,
           PkgbuildTarget \/ AurTarget
    PROVE  stack'[1].pkg \in Remotes
  <1>1. /\ PathInv /\ world \in World /\ cache \subseteq Elements(world.aur) /\ AurOnce
        /\ Elements(Requested) = { TargetOf(u) : u \in updates.found }
    BY DEF SessionInv, ReportInv, UpdatesRequested, FullInv, FillInv, ResolutionInv, AnswerInv, PlanInv,
           PathInv, TypeOK, CacheKnown
  <1>2. ASSUME NEW t \in Elements(Requested)
        PROVE  \E u \in updates.found : /\ t = TargetOf(u) /\ UpdateKnown(u) /\ Rivals(u) = {}
                                        /\ WhereIsTarget(t) = u.remote.src
    <2>1. PICK u \in updates.found : t = TargetOf(u)
      BY <1>1
    <2> QED
      BY <2>1, UpdatesKnown DEF Undisturbed, NoRivals, Qualified
  <1>3. CASE PkgbuildTarget
    <2>1. PICK p \in FindPkgbuildRepoDep(PkgbuildRequest.repo, PkgbuildRequest.pkg) :
              stack' = <<NewFrame(p, PkgbuildRequest.pkg, FALSE, IsMake(PkgbuildRequest.pkg),
                                  world.is_target)>>
      BY <1>3 DEF PkgbuildTarget
    <2>2. PkgbuildRequest \in Elements(targets.pkgbuild)
      BY <1>3 DEF PkgbuildTarget, Targeting, PkgbuildRequest, Elements
    <2>3. PkgbuildRequest \in Elements(Requested) /\ InPkgbuilds(PkgbuildRequest)
      BY <1>1, <2>2 DEF PathInv, TargetsRequested
    <2>4. PICK u \in updates.found : /\ PkgbuildRequest = TargetOf(u) /\ UpdateKnown(u) /\ Rivals(u) = {}
                                     /\ WhereIsTarget(PkgbuildRequest) = u.remote.src
      BY <1>2, <2>3
    <2>5. u.remote.src = "pkgbuild" /\ u.local.name = u.remote.name /\ u.remote \in FindPkgbuild(u.local.name)
      BY <2>3, <2>4 DEF InPkgbuilds, UpdateKnown
    <2>6. p = u.remote
      BY <1>1, <2>1, <2>4, <2>5, PkgbuildRemote
    <2>7. stack'[1].pkg = p
      BY <2>1 DEF NewFrame
    <2> QED
      BY <2>6, <2>7 DEF Remotes
  <1>4. CASE AurTarget
    <2>1. PICK p \in SelectSatisfierAurCache(AurRequest, world.is_target) :
              stack' = <<NewFrame(p, AurRequest, FALSE, IsMake(AurRequest), world.is_target)>>
      BY <1>4 DEF AurTarget
    <2>2. AurRequest \in Elements(targets.aur) /\ phase = "aur"
      BY <1>4 DEF AurTarget, TargetingAur, Targeting, AurRequest, Elements
    <2>3. PICK t \in Elements(Requested) : t.pkg = AurRequest /\ InAur(t)
      BY <1>1, <2>2 DEF PathInv, TargetsRequested
    <2>4. PICK u \in updates.found : /\ t = TargetOf(u) /\ UpdateKnown(u) /\ Rivals(u) = {}
                                     /\ WhereIsTarget(t) = u.remote.src
      BY <1>2
    <2>5. u.remote.src = "aur" /\ u.local.name = u.remote.name /\ u.remote \in cache
      BY <2>2, <2>3, <2>4 DEF InAur, UpdateKnown, SessionInv, FullInv, RoundInv, RoundShape
    <2>6. p = u.remote
      BY <1>1, <2>1, <2>3, <2>4, <2>5, AurRemote DEF Undisturbed, NoRivals
    <2>7. stack'[1].pkg = p
      BY <2>1 DEF NewFrame
    <2> QED
      BY <2>6, <2>7 DEF Remotes
  <1> QED
    BY <1>3, <1>4

(* What the updates are held to does not change while they are resolved.   *)
LEMMA UndisturbedKept ==
    ASSUME PathInv, [Next]_vars, UNCHANGED session
    PROVE  /\ Undisturbed' <=> Undisturbed
           /\ \A u : TargetOf(u)' = TargetOf(u)
           /\ updates' = updates /\ stage' = stage /\ Remotes' = Remotes
  <1>1. world' = world
    BY WorldKept
  <1>2. updates' = updates /\ stage' = stage /\ query' = query
    BY DEF session
  <1>3. \A u : TargetOf(u)' = TargetOf(u)
    BY <1>1 DEF TargetOf
  <1>4. \A f : Flag(f)' <=> Flag(f)
    BY <1>1, LocalKept
  <1>5. NoVer' = NoVer
    BY <1>4 DEF NoVer
  <1>6. \A u : Rivals(u)' = Rivals(u)
    BY <1>1, <1>3, <1>5 DEF Rivals, InstalledName, Elements
  <1>7. \A u : Qualified(u)' <=> Qualified(u)
    BY <1>1, <1>3, PlaceKept DEF Qualified
  <1>8. NoRivals' <=> NoRivals
    BY <1>1, <1>2, <1>6, <1>7 DEF NoRivals
  <1>9. NeededFits' <=> NeededFits
    BY <1>2, <1>4 DEF NeededFits
  <1> QED
    BY <1>2, <1>3, <1>8, <1>9 DEF Undisturbed, Remotes

(* What is marked as a target is the package of an update.                 *)
TargetMarks ==
    stage = "resolve" /\ updates.found # {} /\ Undisturbed =>
        /\ \A p : AsTarget(p) => p \in Remotes
        /\ \A i \in DOMAIN stack : IsBuild(i) /\ stack[i].target => stack[i].pkg \in Remotes

LEMMA NextMarked ==
    ASSUME SessionInv, ReportInv, TargetMarks, [Next]_vars, UNCHANGED session
    PROVE  TargetMarks'
  <1>1. PathInv /\ TypeOK /\ world \in World
    BY DEF SessionInv, FullInv, FillInv, ResolutionInv, AnswerInv, PlanInv, PathInv, TypeOK
  <1>2. /\ Undisturbed' <=> Undisturbed
        /\ updates' = updates /\ stage' = stage /\ Remotes' = Remotes
    BY <1>1, UndisturbedKept
  <1> SUFFICES ASSUME stage = "resolve", updates.found # {}, Undisturbed
               PROVE  /\ \A p : AsTarget(p)' => p \in Remotes
                      /\ \A i \in DOMAIN stack' : /\ stack'[i].pkg.src \in ToBuild
                                                  /\ stack'[i].target
                                                  => stack'[i].pkg \in Remotes
    BY <1>2 DEF TargetMarks, IsBuild
  <1>3. ASSUME NEW p, AsTarget(p)' PROVE p \in Remotes
    <2>1. CASE AsTarget(p)
      BY <2>1 DEF TargetMarks
    <2>2. CASE Finish /\ p = Top.pkg /\ Top.pkg.src \in ToBuild /\ Top.target
      <3>1. PICK i \in DOMAIN stack : Top = stack[i]
        BY <1>1, <2>2, FinishPlan, TopType DEF TypeOK, Top
      <3> QED
        BY <2>2, <3>1 DEF TargetMarks, IsBuild
    <2> QED
      BY <1>1, <1>3, <2>1, <2>2, EntriesKind
  <1>4. ASSUME NEW i \in DOMAIN stack', stack'[i].pkg.src \in ToBuild, stack'[i].target
        PROVE  stack'[i].pkg \in Remotes
    <2>1. CASE i \in DOMAIN stack /\ stack'[i].pkg = stack[i].pkg /\ stack[i].target
      BY <1>4, <2>1 DEF TargetMarks, IsBuild
    <2>2. CASE i = 1 /\ (PkgbuildTarget \/ AurTarget)
      BY <2>2, TargetOpened
    <2>3. CASE i = 1 /\ RepoTarget
      <3>1. RepoRequest.pkg.src = "repo" /\ stack = << >>
        BY <1>1, <2>3, RepoOpens, WorldTypes, ElementsType, PackageOfType
      <3>2. UNCHANGED stack \/ stack'[1].pkg = RepoRequest.pkg
        BY <1>1, <2>3, RepoOpens
      <3> QED
        BY <1>4, <2>3, <3>1, <3>2 DEF ToBuild
    <2> QED
      BY <1>1, <1>4, <2>1, <2>2, <2>3, FramesMarked
  <1> QED
    BY <1>3, <1>4

-----------------------------------------------------------------------------
(* An update that is in the plan, or about to be: its own package, or one  *)
(* of its name that was built for a dependency.                            *)

Applied(u) ==
    \/ u.remote \in BuildPkgs
    \/ \E p : p.name = u.local.name /\ AsDep(p)
    \/ stack # << >> /\ IsBuild(1) /\ stack[1].pkg = u.remote

LEMMA AppliedStays ==
    ASSUME SessionInv, ReportInv, TargetMarks, [Next]_vars, UNCHANGED session,
           stage = "resolve", Undisturbed, NEW u \in updates.found, Applied(u)
    PROVE  Applied(u)'
  <1>1. PathInv /\ TypeOK /\ world \in World /\ AurOnce
    BY DEF SessionInv, ReportInv, FullInv, FillInv, ResolutionInv, AnswerInv, PlanInv, PathInv, TypeOK
  <1>2. CASE u.remote \in BuildPkgs
    BY <1>1, <1>2, PlanGrowsOnly DEF Applied
  <1>3. ASSUME NEW p, p.name = u.local.name, AsDep(p) PROVE Applied(u)'
    BY <1>1, <1>3, EntriesKind DEF Applied
  <1>4. ASSUME stack # << >>, IsBuild(1), stack[1].pkg = u.remote
        PROVE  Applied(u)'
    <2>1. 1 \in DOMAIN stack
      BY <1>1, <1>4 DEF TypeOK
    <2>2. CASE 1 \in DOMAIN stack' /\ stack'[1].pkg = stack[1].pkg
      <3>1. stack' # << >>
        BY <2>2
      <3> QED
        BY <1>4, <2>2, <3>1 DEF Applied, IsBuild
    <2>3. CASE Finish /\ 1 \notin DOMAIN stack'
      <3>1. Top.pkg = u.remote /\ Top.pkg.src # "repo"
        BY <1>1, <1>4, <2>1, <2>3, ReturnedPlan DEF IsBuild, ToBuild
      <3>2. CASE Builds(Top.pkg)
        BY <3>1, <3>2 DEF Builds, Applied
      <3>3. ASSUME PlanSame, NEW p \in BuildPkgs, p.name = Top.pkg.name PROVE Applied(u)'
        <4>1. AsTarget(p) \/ AsDep(p)
          BY BuildPkgsMarked
        <4>2. UpdateKnown(u)
          BY UpdatesKnown
        <4>3. CASE AsDep(p)
          BY <1>3, <3>1, <3>3, <4>2, <4>3 DEF UpdateKnown
        <4>4. CASE AsTarget(p)
          <5>1. p \in Remotes
            BY <4>4 DEF TargetMarks
          <5>2. PICK v \in updates.found : p = v.remote
            BY <5>1 DEF Remotes
          <5>3. UpdateKnown(v)
            BY UpdatesKnown
          <5>4. p = u.remote
            BY <1>1, <3>1, <3>3, <4>2, <5>2, <5>3, OfferedOnce DEF UpdateKnown, OutOfDate
          <5> QED
            BY <3>3, <5>4 DEF PlanSame, Applied
        <4> QED
          BY <4>1, <4>3, <4>4
      <3> QED
        BY <1>1, <2>3, <3>1, <3>2, <3>3, FinishPlan
    <2> QED
      BY <1>1, <2>1, <2>2, <2>3, FrameKept
  <1> QED
    BY <1>2, <1>3, <1>4 DEF Applied

LEMMA OpenedApplied ==
    ASSUME NEW u, NEW p, p = u.remote, p.src \in ToBuild,
           NEW d, NEW make, NEW submake, NEW target,
           stack' = <<NewFrame(p, d, make, submake, target)>>
    PROVE  Applied(u)'
  <1>1. PICK f : f = NewFrame(p, d, make, submake, target)
    OBVIOUS
  <1>2. stack' = <<f>> /\ f.pkg = p
    BY <1>1 DEF NewFrame
  <1>3. stack' # << >> /\ stack'[1] = f
    BY <1>2
  <1> QED
    BY <1>2, <1>3 DEF Applied, IsBuild

(* What the loops over the targets to build have gone through is applied.  *)
PkgbuildsApplied(u) ==
    u.remote.src = "pkgbuild" => \A k \in DOMAIN targets.pkgbuild :
        targets.pkgbuild[k] = TargetOf(u) /\ Past(k, "pkgbuild") => Applied(u)

AurApplied(u) ==
    u.remote.src = "aur" => \A k \in DOMAIN targets.aur :
        targets.aur[k] = TargetOf(u).pkg /\ Past(k, "aur") => Applied(u)

LoopsApplied ==
    stage = "resolve" /\ Undisturbed =>
        \A u \in updates.found : PkgbuildsApplied(u) /\ AurApplied(u)

LEMMA PkgbuildApplies ==
    ASSUME PlanInv, LocalOnce, world.is_target, Undisturbed, PkgbuildHandled,
           NEW u \in updates.found, UpdateKnown(u), u.remote.src = "pkgbuild",
           PkgbuildRequest = TargetOf(u)
    PROVE  Applied(u)'
  <1>1. world \in World
    BY DEF PlanInv, PathInv, TypeOK
  <1>2. /\ Rivals(u) = {} /\ NeededFits
        /\ u.local.name = u.remote.name /\ u.local \in UpdateTargs(world.local)
        /\ ShouldUpgrade(u.local, u.remote) /\ u.remote \in Package
        /\ u.remote \in FindPkgbuild(u.local.name)
    BY DEF Undisturbed, NoRivals, UpdateKnown, OutOfDate
  <1>3. \A p \in FindPkgbuildRepoDep(PkgbuildRequest.repo, PkgbuildRequest.pkg) : p = u.remote
    BY <1>1, <1>2, PkgbuildRemote
  <1>4. NotNeeded(u.remote, PkgbuildRequest.pkg) = {}
    BY <1>1, <1>2, UpdateNeeded
  <1>5. PkgbuildTarget
    BY <1>3, <1>4 DEF PkgbuildHandled, PkgbuildTargetSkipped, ShouldSkipAurPkg, PkgbuildTargetUnneeded
  <1>6. PICK p \in FindPkgbuildRepoDep(PkgbuildRequest.repo, PkgbuildRequest.pkg) :
            stack' = <<NewFrame(p, PkgbuildRequest.pkg, FALSE, IsMake(PkgbuildRequest.pkg),
                                world.is_target)>>
    BY <1>5 DEF PkgbuildTarget
  <1>7. p = u.remote /\ p.src \in ToBuild
    BY <1>3, <1>6 DEF ToBuild
  <1> QED
    BY <1>6, <1>7, OpenedApplied

LEMMA AurApplies ==
    ASSUME PlanInv, LocalOnce, AurOnce, world.is_target, Undisturbed, AurHandled, cache = fetched,
           NEW u \in updates.found, UpdateKnown(u), u.remote.src = "aur",
           AurRequest = TargetOf(u).pkg
    PROVE  Applied(u)'
  <1>1. world \in World /\ cache \subseteq Elements(world.aur)
    BY DEF PlanInv, PathInv, TypeOK, CacheKnown
  <1>2. /\ Rivals(u) = {} /\ NeededFits /\ ~ world.provider_cb
        /\ u.local.name = u.remote.name /\ u.local \in UpdateTargs(world.local)
        /\ ShouldUpgrade(u.local, u.remote) /\ u.remote \in Package /\ u.remote \in cache
    BY DEF Undisturbed, NoRivals, UpdateKnown, OutOfDate
  <1>3. SelectSatisfierAurCache(AurRequest, world.is_target) = {u.remote}
    BY <1>1, <1>2, AurRemote
  <1>4. NotNeeded(u.remote, AurRequest) = {}
    BY <1>1, <1>2, UpdateNeeded
  <1>5. AurTarget
    BY <1>3, <1>4
       DEF AurHandled, AurTargetSkipped, AurTargetMissing, ShouldSkipAurPkg, AurTargetUnneeded
  <1>6. PICK p \in SelectSatisfierAurCache(AurRequest, world.is_target) :
            stack' = <<NewFrame(p, AurRequest, FALSE, IsMake(AurRequest), world.is_target)>>
    BY <1>5 DEF AurTarget
  <1>7. p = u.remote /\ p.src \in ToBuild
    BY <1>3, <1>6 DEF ToBuild
  <1> QED
    BY <1>6, <1>7, OpenedApplied

LEMMA NextApplied ==
    ASSUME SessionInv, ReportInv, TargetMarks, LoopsApplied, [FullNext]_fullvars, UNCHANGED session
    PROVE  LoopsApplied'
  <1>1. /\ PlanInv /\ PathInv /\ TypeOK /\ FetchedInv /\ RoundShape
        /\ LocalOnce /\ AurOnce
    BY DEF SessionInv, ReportInv, FullInv, FillInv, RoundInv, ResolutionInv, AnswerInv, PlanInv,
           PathInv
  <1>2. [Next]_vars
    BY <1>1, FullSteps
  <1>3. CASE phase \in {"split", "cache"}
    <2>1. TypeOK'
      BY <1>1, <1>2, NextPath DEF PathInv
    <2>2. DOMAIN targets'.pkgbuild \subseteq Nat \ {0} /\ DOMAIN targets'.aur \subseteq Nat \ {0}
      <3>1. (targets.pkgbuild \in Seq(Targ))' /\ (targets.aur \in Seq(Dep))'
        BY <2>1 DEF TypeOK, Targets
      <3> QED
        BY <3>1
    <2> QED
      BY <1>2, <1>3, <2>2, PastNone DEF LoopsApplied, PkgbuildsApplied, AurApplied
  <1>4. CASE phase \notin {"split", "cache"}
    <2>1. /\ Undisturbed' <=> Undisturbed
          /\ \A u : TargetOf(u)' = TargetOf(u)
          /\ targets' = targets /\ updates' = updates /\ stage' = stage
      BY <1>1, <1>2, <1>4, UndisturbedKept, InputsKept
    <2> SUFFICES ASSUME stage = "resolve", Undisturbed, NEW u \in updates.found
                 PROVE  PkgbuildsApplied(u)' /\ AurApplied(u)'
      BY <2>1 DEF LoopsApplied
    <2>2. PkgbuildsApplied(u) /\ AurApplied(u)
      BY DEF LoopsApplied
    <2>3. UpdateKnown(u) /\ world.is_target
      BY UpdatesKnown
    <2>4. ASSUME NEW k \in DOMAIN targets.pkgbuild, targets.pkgbuild[k] = TargetOf(u),
                 Past(k, "pkgbuild")', u.remote.src = "pkgbuild"
          PROVE  Applied(u)'
      <3>1. CASE Past(k, "pkgbuild")
        BY <1>1, <1>2, <2>2, <2>4, <3>1, AppliedStays DEF PkgbuildsApplied
      <3>2. CASE k = next /\ PkgbuildHandled
        BY <1>1, <2>3, <2>4, <3>2, PkgbuildApplies DEF PkgbuildRequest
      <3> QED
        BY <1>1, <1>2, <1>4, <2>4, <3>1, <3>2, PastKind
    <2>5. ASSUME NEW k \in DOMAIN targets.aur, targets.aur[k] = TargetOf(u).pkg,
                 Past(k, "aur")', u.remote.src = "aur"
          PROVE  Applied(u)'
      <3>1. CASE Past(k, "aur")
        BY <1>1, <1>2, <2>2, <2>5, <3>1, AppliedStays DEF AurApplied
      <3>2. CASE k = next /\ AurHandled
        BY <1>1, <1>4, <2>3, <2>5, <3>2, AurApplies DEF AurRequest, RoundShape
      <3> QED
        BY <1>1, <1>2, <1>4, <2>5, <3>1, <3>2, PastKind
    <2> QED
      BY <2>1, <2>4, <2>5 DEF PkgbuildsApplied, AurApplied
  <1> QED
    BY <1>3, <1>4

AppliedInv == SessionInv /\ ReportInv /\ WellFiled /\ TargetMarks /\ LoopsApplied

(* A resolution that has not begun has filed and applied nothing.          *)
LEMMA FreshApplies ==
    ASSUME FullFresh
    PROVE  WellFiled /\ TargetMarks /\ LoopsApplied
  <1>1. /\ phase = "split" /\ next = 1 /\ Requested \in Seq(Targ)
        /\ stack = << >> /\ build = << >>
    BY RequestType DEF FullFresh, Fresh
  <1>2. \A i \in DOMAIN Requested : ~ (i < 1)
    BY <1>1
  <1>3. \A k : ~ Past(k, "pkgbuild") /\ ~ Past(k, "aur")
    BY <1>1 DEF Past, PhasesAfter
  <1>4. TargetMarks
    BY <1>1 DEF TargetMarks, AsTarget, BuildEntries
  <1> QED
    BY <1>1, <1>2, <1>3, <1>4 DEF WellFiled, LoopsApplied, PkgbuildsApplied, AurApplied

LEMMA AppliedFirst == SessionInit => AppliedInv
  BY SessionFirst, ReportFirst, FreshApplies, FullInitFresh DEF SessionInit, AppliedInv

LEMMA AppliedContinues ==
    ASSUME AppliedInv, [FullNext]_fullvars, UNCHANGED session
    PROVE  ReportInv' /\ WellFiled' /\ TargetMarks' /\ LoopsApplied'
  <1>1. PathInv /\ FetchedInv
    BY DEF AppliedInv, SessionInv, FullInv, FillInv, ResolutionInv, AnswerInv, PlanInv
  <1>2. [Next]_vars /\ world' = world
    BY <1>1, FullSteps
  <1>3. ReportInv'
    BY <1>2, ReportKept DEF AppliedInv, session
  <1> QED
    BY <1>1, <1>2, <1>3, NextWellFiled, NextMarked, NextApplied DEF AppliedInv

LEMMA AppliedKept == AppliedInv /\ [SessionNext]_sessionvars => AppliedInv'
  <1> SUFFICES ASSUME AppliedInv, [SessionNext]_sessionvars PROVE AppliedInv'
    OBVIOUS
  <1>1. SessionInv /\ ReportInv /\ SessionInv'
    BY SessionKept DEF AppliedInv
  <1>2. ASSUME FullFresh' PROVE WellFiled' /\ TargetMarks' /\ LoopsApplied'
    BY <1>2, FreshApplies, PTL
  <1>3. CASE CheckUpdates
    <2>1. stage' # "resolve"
      BY <1>3 DEF CheckUpdates
    <2>2. FullFresh'
      BY <1>1, <2>1 DEF SessionInv
    <2> QED
      BY <1>1, <1>2, <1>3, <2>2, ReportMade DEF AppliedInv
  <1>4. CASE ResolveUpdates
    <2>1. FullFresh'
      BY <1>1, <1>4, SessionResolves
    <2> QED
      BY <1>1, <1>2, <1>4, <2>1, ReportTargeted DEF AppliedInv
  <1>5. CASE Retry
    <2>1. FullFresh'
      BY <1>1, <1>5, SessionRetries
    <2>2. ReportInv'
      BY <1>1, <1>5, ReportKept DEF Retry, session, inputs
    <2> QED
      BY <1>1, <1>2, <2>1, <2>2 DEF AppliedInv
  <1>6. CASE UpdatesFailed
    <2>1. world' = world /\ query' = query /\ updates' = updates /\ stage' # "resolve"
      BY <1>6 DEF UpdatesFailed, fullvars, vars, inputs
    <2>2. FullFresh'
      BY <1>1, <2>1 DEF SessionInv
    <2> QED
      BY <1>1, <1>2, <2>1, <2>2, ReportKept DEF AppliedInv
  <1>7. CASE Resolve \/ UNCHANGED sessionvars
    <2>1. [FullNext]_fullvars /\ UNCHANGED session
      BY <1>7 DEF Resolve, sessionvars
    <2> QED
      BY <1>1, <2>1, AppliedContinues DEF AppliedInv
  <1> QED
    BY <1>3, <1>4, <1>5, <1>6, <1>7 DEF SessionNext, GivenUp

(* In every session, while the updates are resolved: a target that is to   *)
(* be looked up in one place is filed there, whatever is marked as a       *)
(* target is the package of an update, and what the loops have gone        *)
(* through is in the plan.                                                 *)
THEOREM UpdatesInPlan == SessionSpec => []AppliedInv
  BY AppliedFirst, AppliedKept, PTL DEF SessionSpec

(* When the resolution is done, each update is in the plan, or a package   *)
(* of its name is, for a dependency.                                       *)
LEMMA DoneApplied ==
    ASSUME AppliedInv, phase = "done", Undisturbed, NEW u \in updates.found
    PROVE  /\ u.local.name = u.remote.name
           /\ u.remote \in BuildPkgs \/ \E p : p.name = u.local.name /\ AsDep(p)
  <1>1. stage = "resolve" /\ stack = << >> /\ world \in World
    BY DEF AppliedInv, SessionInv, FullFresh, Fresh, FullInv, FillInv, ResolutionInv, AnswerInv, PlanInv,
           Running, TypeOK
  <1>2. world.is_target /\ UpdateKnown(u)
    BY <1>1, UpdatesKnown DEF AppliedInv
  <1>3. WhereIsTarget(TargetOf(u)) = u.remote.src
    BY DEF Undisturbed, NoRivals, Qualified
  <1>4. FiledRight(TargetOf(u))
    BY <1>2 DEF AppliedInv, WellFiled, UpdateKnown, Elements
  <1>5. PkgbuildsApplied(u) /\ AurApplied(u)
    BY <1>1 DEF AppliedInv, LoopsApplied
  <1>6. \A k : Past(k, "pkgbuild") /\ Past(k, "aur")
    BY DEF Past, PhasesAfter
  <1>7. Applied(u)
    <2>1. CASE u.remote.src = "pkgbuild"
      <3>1. u.remote \in Elements(world.pkgbuilds) /\ u.local.name = u.remote.name
        BY <1>2, <2>1 DEF UpdateKnown
      <3>2. u.remote.repo = TargetOf(u).repo /\ Satisfies(u.remote, TargetOf(u).pkg, NoVer)
        BY <2>1, <3>1 DEF TargetOf, Satisfies, SatisfiesVer
      <3>3. FindPkgbuildRepoDep(TargetOf(u).repo, TargetOf(u).pkg) # {}
        BY <1>1, <3>1, <3>2, PkgbuildHere
      <3>4. FoundPkgbuild(TargetOf(u))
        BY <1>2, <1>3, <2>1, <3>3 DEF FoundPkgbuild, InPkgbuilds, UpdateKnown
      <3>5. TargetOf(u) \in Elements(targets.pkgbuild)
        BY <1>3, <1>4, <2>1, <3>4 DEF FiledRight
      <3> QED
        BY <1>5, <1>6, <2>1, <3>5 DEF PkgbuildsApplied, Elements
    <2>2. CASE u.remote.src = "aur"
      <3>1. InAur(TargetOf(u))
        BY <1>2, <1>3, <2>2 DEF InAur, UpdateKnown
      <3>2. TargetOf(u).pkg \in Elements(targets.aur)
        BY <1>3, <1>4, <2>2, <3>1 DEF FiledRight
      <3> QED
        BY <1>5, <1>6, <2>2, <3>2 DEF AurApplied, Elements
    <2> QED
      BY <1>2, <2>1, <2>2 DEF UpdateKnown
  <1> QED
    BY <1>1, <1>2, <1>7 DEF Applied, UpdateKnown

LEMMA UpdatesDone == AppliedInv => UpdatesApplied
  <1> SUFFICES ASSUME AppliedInv, phase = "done", NoRivals, NeededFits, NEW u \in updates.found
               PROVE  \E e \in Entries : \/ e.pkg = u.remote
                                         \/ /\ e.pkg.src \in ToBuild /\ e.pkg.name = u.local.name
                                            /\ ~ e.target
    BY DEF UpdatesApplied
  <1>1. /\ BuildPkgs \subseteq ToBuildPkgs /\ world \in World /\ cache \in SUBSET PackageOf("aur")
    BY DEF AppliedInv, SessionInv, FullInv, ResolutionInv, AnswerInv, PlanInv, PlanKnown, PathInv, TypeOK
  <1>2. CASE u.remote \in BuildPkgs
    BY <1>2, PlanMeans DEF PlanPkgs
  <1>3. ASSUME NEW p, p.name = u.local.name, AsDep(p)
        PROVE  \E e \in Entries : e.pkg.src \in ToBuild /\ e.pkg.name = u.local.name /\ ~ e.target
    <2>1. PICK e \in BuildEntries : e.pkg = p /\ ~ e.target
      BY <1>3 DEF AsDep
    <2>2. p \in BuildPkgs
      BY <2>1 DEF BuildPkgs
    <2>3. p.src \in ToBuild
      <3>1. Elements(world.pkgbuilds) \subseteq PackageOf("pkgbuild")
        BY <1>1, WorldTypes, ElementsType
      <3> QED
        BY <1>1, <2>2, <3>1, PackageOfType DEF ToBuildPkgs, ToBuild
    <2> QED
      BY <1>3, <2>1, <2>3 DEF Entries
  <1> QED
    BY <1>2, <1>3, DoneApplied DEF Undisturbed

(* Every update the caller asks for ends up in the plan, after any number  *)
(* of attempts, whatever the cache holds by then: the package updates()    *)
(* found, unless one of its name was built before it for a dependency.     *)
THEOREM UpdatesAlwaysApplied == SessionSpec => []UpdatesApplied
  BY UpdatesDone, UpdatesInPlan, PTL

LEMMA SystemSettles == AppliedInv => UpdatesConverge
  <1> SUFFICES ASSUME AppliedInv, phase = "done", updates.found # {}, ~ query.chosen,
                      NoRivals, NeededFits, NEW v \in NextUpdates.found
               PROVE  \E e \in BuildEntries : e.pkg = v.local /\ ~ e.target
    BY DEF UpdatesConverge
  <1>1. /\ stage = "resolve" /\ world \in World /\ cache \subseteq Elements(world.aur)
        /\ BuildPkgs \subseteq ToBuildPkgs /\ InstallPkgs \subseteq Elements(world.repos)
        /\ AurOnce /\ Undisturbed
    BY DEF AppliedInv, SessionInv, FullFresh, Fresh, FullInv, FillInv, ResolutionInv, AnswerInv, PlanInv,
           PlanKnown, CacheKnown, TypeOK, ReportInv, Undisturbed
  <1>2. PICK q : q = v.local
    OBVIOUS
  <1>3. PICK r : r = v.remote
    OBVIOUS
  <1>4. q \in UpdateTargs(After(TRUE)) /\ OutOfDate(q, r)
    <2>1. cache \cup AurInfo(After(TRUE)) \subseteq Elements(world.aur)
      BY <1>1, NamedFound DEF AurInfo
    <2> QED
      BY <1>2, <1>3, <2>1, FoundMeans DEF NextUpdates
  <1>5. q \in After(TRUE) /\ \A p \in Elements(world.repos) : p.name # q.name
    BY <1>4 DEF UpdateTargs
  <1>6. Considered(TRUE) = PlanPkgs
    BY PlanMeans DEF Considered
  <1>7. CASE q \in PlanPkgs
    <2>1. q \in BuildPkgs
      BY <1>1, <1>5, <1>7 DEF PlanPkgs
    <2>2. CASE AsDep(q)
      BY <1>2, <2>2 DEF AsDep
    <2>3. CASE AsTarget(q)
      <3>1. q \in Remotes
        BY <1>1, <2>3 DEF AppliedInv, TargetMarks
      <3>2. PICK u \in updates.found : q = u.remote
        BY <3>1 DEF Remotes
      <3>3. UpdateKnown(u)
        BY <1>1, UpdatesKnown DEF AppliedInv
      <3>4. Offered(u.local, q) /\ Offered(q, r) /\ u.local.name = q.name /\ q \in Package
        BY <1>4, <3>2, <3>3 DEF UpdateKnown, OutOfDate
      <3>5. r = q
        BY <1>1, <3>4, OfferedOnce
      <3>6. q.ver \in Nat
        BY <3>4 DEF Package
      <3> QED
        BY <1>4, <3>5, <3>6 DEF OutOfDate, ShouldUpgrade
    <2> QED
      BY <2>1, <2>2, <2>3, BuildPkgsMarked
  <1>8. CASE q \notin PlanPkgs
    <2>1. q \in world.local /\ \A p \in PlanPkgs : p.name # q.name
      BY <1>5, <1>6, <1>8 DEF After
    <2>2. q \in UpdateTargs(world.local)
      BY <1>5, <2>1 DEF UpdateTargs
    <2>3. PICK u : u = [local |-> q, remote |-> r]
      OBVIOUS
    <2>4. u \in updates.found /\ u.local = q
      BY <1>4, <2>2, <2>3 DEF AppliedInv, ReportInv, UpdatesTrue
    <2>5. \E p \in BuildPkgs : p.name = q.name
      BY <1>1, <2>4, DoneApplied, BuildPkgsMarked
    <2> QED
      BY <2>1, <2>5 DEF PlanPkgs
  <1> QED
    BY <1>7, <1>8

(* Updating once is enough: after the plan for all updates nothing is out  *)
(* of date, neither what was nor what was built for it, but for a package  *)
(* built for a dependency from elsewhere than updates() looks for it.      *)
THEOREM UpdatesSettle == SessionSpec => []UpdatesConverge
  BY SystemSettles, UpdatesInPlan, PTL
=============================================================================
