------------------------- MODULE AurRequestsProofs -------------------------
(***************************************************************************)
(* Filling the cache by rounds of requests is one step of Resolver, so     *)
(* what is proved of Resolver holds of the rounds, too; what is reported   *)
(* missing in the end the AUR has not; and what was in the cache before is *)
(* not relied on without need.                                             *)
(***************************************************************************)
EXTENDS AurRequests, OrderProofs

(* Only FillCache and FailCache change the cache. *)
LEMMA CacheKept ==
    ASSUME Next, phase # "cache"
    PROVE  UNCHANGED inputs
  <1>1. CASE Split
    BY <1>1 DEF Split, SplitAssumed, SplitRepo, SplitGroup, SplitPkgbuild, SplitAur, SplitMissing,
                SplitDone, Splitting, Enter, inputs
  <1>2. CASE FillCache \/ FailCache
    BY <1>2 DEF FillCache, FailCache, Enter
  <1>3. CASE Target
    BY <1>3 DEF Target, RepoTargetSkipped, RepoTargetUnneeded, RepoTarget, PkgbuildTargetSkipped,
                PkgbuildTargetUnneeded, PkgbuildTarget, AurTargetSkipped, AurTargetMissing,
                AurTargetUnneeded, AurTarget, TargetingAur, Targeting, RepoTargetsDone,
                PkgbuildTargetsDone, AurTargetsDone, Enter, inputs
  <1>4. CASE Recurse
    BY <1>4 DEF Recurse, BuildDepDone, BuildDepInstalled, BuildDepFromRepo, BuildDepFromPkgbuild,
                BuildDepFromAur, BuildDepMissing, FinishBuild, RepoDepSatisfied, RepoDepFromRepo,
                RepoDepMissing, FinishRepo, Resolving, inputs
  <1>5. CASE CalculateMake \/ KeepMake \/ Returned
    BY <1>5 DEF CalculateMake, KeepMake, Returned, Enter, inputs, vars
  <1> QED
    BY <1>1, <1>2, <1>3, <1>4, <1>5 DEF Next

-----------------------------------------------------------------------------
(* The cache while it is filled: nothing that was there is lost, and what  *)
(* comes in comes from the AUR.                                            *)

FetchedInv ==
    /\ cache \subseteq fetched
    /\ fetched \subseteq cache \cup Elements(world.aur)

LEMMA NamedFound == \A names : Named(names) \subseteq Elements(world.aur)
  BY DEF Named

LEMMA EndFills ==
    ASSUME FetchedInv, cache' = fetched
    PROVE  cache' \in { cache \cup S : S \in SUBSET Elements(world.aur) }
  <1>1. fetched = cache \cup (fetched \cap Elements(world.aur))
    BY DEF FetchedInv
  <1> QED
    BY <1>1

(* A step of a round is a step of Resolver, or changes nothing of it.      *)
LEMMA FillSteps ==
    ASSUME FetchedInv, Fill
    PROVE  [Next]_vars /\ UNCHANGED world
  <1>1. CASE Begin \/ Walk \/ Ask \/ Info \/ Provides \/ NextRound
    BY <1>1 DEF Begin, Walk, Ask, Info, Provides, NextRound, vars, inputs
  <1>2. CASE RequestFailed
    <2>1. FailCache
      BY <1>2, EndFills DEF RequestFailed, FailCache
    <2> QED
      BY <2>1 DEF FailCache, Next, Enter
  <1>3. CASE Filled
    <2>1. FillCache
      BY <1>3, EndFills DEF Filled, FillCache
    <2> QED
      BY <2>1 DEF FillCache, Next, Enter
  <1> QED
    BY <1>1, <1>2, <1>3 DEF Fill

LEMMA FullSteps ==
    ASSUME FetchedInv, [FullNext]_fullvars
    PROVE  [Next]_vars /\ UNCHANGED world
  <1>1. CASE Fill
    BY <1>1, FillSteps
  <1>2. CASE phase # "cache" /\ Next /\ UNCHANGED filling
    BY <1>2, CacheKept DEF inputs
  <1>3. CASE UNCHANGED fullvars
    BY <1>3 DEF fullvars, vars, inputs
  <1> QED
    BY <1>1, <1>2, <1>3 DEF FullNext

LEMMA FetchedKept == FetchedInv /\ [FullNext]_fullvars => FetchedInv'
  <1> SUFFICES ASSUME FetchedInv, [FullNext]_fullvars PROVE FetchedInv'
    OBVIOUS
  <1>1. UNCHANGED world
    BY FullSteps
  <1>2. CASE Begin \/ Walk \/ Ask \/ NextRound
    BY <1>1, <1>2 DEF Begin, Walk, Ask, NextRound, FetchedInv, vars, inputs
  <1>3. CASE Info
    BY <1>1, <1>3, NamedFound DEF Info, FetchedInv, vars, inputs
  <1>4. CASE Provides
    <2>1. PICK answer \in SUBSET Elements(world.aur) : fetched' = fetched \cup answer
      BY <1>4, NamedFound DEF Provides
    <2> QED
      BY <1>1, <1>4, <2>1 DEF Provides, FetchedInv, vars, inputs
  <1>5. CASE RequestFailed \/ Filled
    BY <1>1, <1>5 DEF RequestFailed, Filled, FetchedInv
  <1>6. CASE phase # "cache" /\ Next /\ UNCHANGED filling
    BY <1>6, CacheKept DEF inputs, filling, FetchedInv
  <1>7. CASE UNCHANGED fullvars
    BY <1>7 DEF fullvars, vars, inputs, filling, FetchedInv
  <1> QED
    BY <1>2, <1>3, <1>4, <1>5, <1>6, <1>7 DEF FullNext, Fill

(* A resolver just made, that has asked for nothing yet.                   *)
FullFresh ==
    /\ Fresh
    /\ at = "begin" /\ first = TRUE /\ walks = {} /\ wanted = {} /\ found = {}
    /\ asked = {} /\ fetched = cache /\ lost = {} /\ unread = cache

LEMMA FullInitFresh == FullInit => FullFresh
  BY InitFresh DEF FullInit, FullFresh

LEMMA FetchedFirst == FullFresh => FetchedInv
  BY DEF FullFresh, FetchedInv

(* The rounds of requests implement Resolver's FillCache and FailCache:    *)
(* whatever the AUR answers and whichever requests fail, a resolution with *)
(* them is one of Resolver, and every safety property of Resolver is one   *)
(* of it.                                                                  *)
THEOREM RoundsImplement == FullSpec => Resolution
  <1>1. FullInit => Init
    BY DEF FullInit
  <1>2. FetchedInv /\ [FullNext]_fullvars => [Next]_vars
    BY FullSteps
  <1> QED
    BY <1>1, <1>2, FullInitFresh, FetchedFirst, FetchedKept, PTL DEF FullSpec, Resolution

(* Whatever the AUR answers, in however many rounds, and whichever of the  *)
(* requests fail: what is proved of a resolution holds of one that fills   *)
(* its cache by requests.                                                  *)
THEOREM RoundsKeepPromises ==
    FullSpec => [](/\ TypeOK /\ NoReentry /\ InstallOnce /\ BuildFlagOnce
                   /\ MissingPath /\ MissingIsUnmet /\ NothingDropped /\ RequestsAnswered
                   /\ BuildOrder /\ BuiltOnce /\ EveryPackageNeeded)
  BY RoundsImplement, InitFresh, InitResolution, NextResolution, ResolutionPromises, PTL DEF Resolution

-----------------------------------------------------------------------------
(* The types of the rounds. *)

LEMMA DepsOfType ==
    ASSUME NEW pkgs \in SUBSET Package
    PROVE  DepsOf(pkgs) \in SUBSET Dep
  <1>1. ASSUME NEW q \in pkgs PROVE Elements(Depends(q)) \subseteq Dep
    BY DependsType, ElementsType
  <1> QED
    BY <1>1 DEF DepsOf

LEMMA WalkedType ==
    ASSUME NEW ds \in SUBSET Dep
    PROVE  Walked(ds) \in SUBSET Targ /\ ds \ ToWalk(ds) \in SUBSET Dep
  BY DEF Walked, ToWalk, Targ

LEMMA LookupType ==
    ASSUME wanted \in SUBSET Dep
    PROVE  Lookup \in SUBSET Dep
  <1>1. \A d \in Dep : AnyVersion(d) \in Dep
    BY DEF AnyVersion, Dep, DepMod
  <1> QED
    BY <1>1 DEF Lookup

FillInv == TypeOK /\ FetchedInv /\ FillTypeOK

LEMMA FillTypeFirst == FullFresh => FillInv
  <1> SUFFICES ASSUME FullFresh PROVE FillTypeOK
    BY InitTypeOK, FetchedFirst DEF FillInv, FullFresh
  <1>1. cache \in SUBSET AurPackages
    BY InitTypeOK DEF FullFresh, TypeOK, AurPackages
  <1> QED
    BY <1>1 DEF FullFresh, FillTypeOK

LEMMA FillTypeKept == FillInv /\ [FullNext]_fullvars => FillInv'
  <1> SUFFICES ASSUME TypeOK, FetchedInv, FillTypeOK, [FullNext]_fullvars PROVE FillTypeOK'
    BY FetchedKept, FullSteps, NextTypeOK DEF FillInv
  <1> USE DEF FillTypeOK
  <1>0. /\ Elements(world.aur) \subseteq AurPackages /\ AurPackages \subseteq Package
        /\ \A r, d : FindPkgbuildRepoDep(r, d) \subseteq Package
    BY PackagesFound, PackageOfType DEF TypeOK, AurPackages
  <1>1. CASE Begin
    <2>1. Elements(targets.pkgbuild) \in SUBSET Targ /\ Elements(targets.aur) \in SUBSET Dep
      BY TargetsType, ElementsType DEF TypeOK
    <2> QED
      BY <1>1, <2>1 DEF Begin
  <1>2. CASE Walk
    <2>1. PICK t \in walks :
              LET new == DepsOf(FindPkgbuildRepoDep(t.repo, t.pkg))
              IN  /\ walks'  = (walks \ {t}) \cup Walked(new)
                  /\ wanted' = wanted \cup (new \ ToWalk(new))
                  /\ asked'  = asked \cup new
      BY <1>2 DEF Walk
    <2> DEFINE new == DepsOf(FindPkgbuildRepoDep(t.repo, t.pkg))
    <2>2. new \in SUBSET Dep
      BY <1>0, DepsOfType
    <2> HIDE DEF new
    <2>3. Walked(new) \in SUBSET Targ /\ new \ ToWalk(new) \in SUBSET Dep
      BY <2>2, WalkedType
    <2>4. /\ walks'  = (walks \ {t}) \cup Walked(new)
          /\ wanted' = wanted \cup (new \ ToWalk(new))
          /\ asked'  = asked \cup new
      BY <2>1 DEF new
    <2> QED
      BY <1>2, <2>2, <2>3, <2>4 DEF Walk
  <1>3. CASE Ask
    BY <1>3 DEF Ask
  <1>4. CASE Info
    BY <1>0, <1>4, NamedFound DEF Info
  <1>5. CASE Provides
    <2> DEFINE names    == { d.name : d \in Lookup }
               searched == { n \in names : ~ InstalledName(n) }
    <2>1. names \subseteq Name
      BY LookupType DEF Dep
    <2>2. PICK failed \in SUBSET searched, answer \in SUBSET Elements(world.aur) :
              /\ fetched' = fetched \cup answer
              /\ found' = found \cup { p \in answer : \E d \in Lookup : Satisfies(p, d, NoVer) }
              /\ lost' = lost \cup (names \ searched) \cup failed
              /\ unread' = (unread \cup (answer \ fetched)) \ found'
      BY <1>5, NamedFound DEF Provides
    <2>3. lost' \in SUBSET Name
      BY <2>1, <2>2
    <2>4. /\ fetched' \in SUBSET AurPackages /\ found' \in SUBSET fetched'
          /\ unread' \in SUBSET fetched'
      BY <1>0, <2>2
    <2> QED
      BY <1>5, <2>3, <2>4 DEF Provides
  <1>6. CASE NextRound
    <2>1. DepsOf(found) \in SUBSET Dep
      BY <1>0, DepsOfType
    <2>2. Walked(DepsOf(found)) \in SUBSET Targ /\ DepsOf(found) \ ToWalk(DepsOf(found)) \in SUBSET Dep
      BY <2>1, WalkedType
    <2> QED
      BY <1>6, <2>1, <2>2 DEF NextRound
  <1>7. CASE RequestFailed \/ Filled
    BY <1>7 DEF RequestFailed, Filled
  <1>8. CASE UNCHANGED filling
    BY <1>8 DEF filling
  <1> QED
    BY <1>1, <1>2, <1>3, <1>4, <1>5, <1>6, <1>7, <1>8 DEF FullNext, Fill, fullvars

(* Whatever a round works on is in the cache: found is a part of fetched.  *)
THEOREM FillTypeCorrect == FullSpec => []FillTypeOK
  <1>1. FillInv => FillTypeOK
    BY DEF FillInv
  <1> QED
    BY <1>1, FullInitFresh, FillTypeFirst, FillTypeKept, PTL DEF FullSpec
-----------------------------------------------------------------------------
(* What the rounds of requests have brought, for the resolution to find.   *)

(* Every dependency of p has been asked for, or need not be. *)
Collected(p) == \A d \in Elements(Depends(p)) : ~ Unknown(d)

Awaited(d) == at \in {"collect", "info", "provides"} /\ d \in wanted

(* What the AUR has of d's name came as an answer, and something that      *)
(* answers d if anything does and providers were searched for.             *)
Heard(d, searched) ==
    /\ Named({d.name}) \subseteq fetched \ unread
    /\ searched /\ d.name \notin lost /\ Met(d, Elements(world.aur)) => Met(d, fetched \ unread)

DepSearched    == Flag("PROVIDES") \/ Flag("MISSING_PROVIDES")
TargetSearched == DepSearched \/ Flag("TARGET_PROVIDES")

DepHeard(d)    == Heard(d, DepSearched)
TargetHeard(d) == Heard(d, TargetSearched)

RoundShape ==
    /\ phase = "split" => at = "begin"
    /\ phase \notin {"split", "cache"} => at = "end" /\ cache = fetched
    /\ at = "begin" => first /\ asked = {}
    /\ at # "collect" => walks = {}
    /\ at \in {"begin", "collect", "info"} => found = {}
    /\ at = "info" => ~ SearchAll
    /\ at = "provides" => \/ SearchAll
                          \/ /\ Flag("MISSING_PROVIDES")
                             /\ Named({ d.name : d \in wanted }) \subseteq found

AnswersRead == \A p \in fetched \ unread : (at # "end" /\ p \in found) \/ Collected(p)

TargetsRead ==
    at # "begin" => \A t \in Elements(targets.pkgbuild) :
        t \in walks \/ \A p \in FindPkgbuildRepoDep(t.repo, t.pkg) : Collected(p)

PkgbuildsRead ==
    \A d \in asked : \/ [repo |-> NoRepo, pkg |-> d] \in walks
                     \/ \A p \in FindPkgbuildRepoDep(NoRepo, d) : Collected(p)

DepsHeard ==
    \A d \in asked : FindPkgbuildRepoDep(NoRepo, d) = {} => Awaited(d) \/ DepHeard(d)

TargetsHeard ==
    at # "begin" => \A d \in Elements(targets.aur) : (first /\ Awaited(d)) \/ TargetHeard(d)

RoundFacts == AnswersRead /\ TargetsRead /\ PkgbuildsRead /\ DepsHeard /\ TargetsHeard

RoundInv == RoundShape /\ (phase # "failed" => RoundFacts)

LEMMA WorldReads ==
    ASSUME world' = world
    PROVE  /\ \A r, d : FindPkgbuildRepoDep(r, d)' = FindPkgbuildRepoDep(r, d)
           /\ \A d : FindRepoSatisfier(d)' = FindRepoSatisfier(d)
           /\ \A d, pkgs : Met(d, pkgs)' <=> Met(d, pkgs)
           /\ \A names : Named(names)' = Named(names)
           /\ (DepSearched' <=> DepSearched) /\ (TargetSearched' <=> TargetSearched)
  <1>1. \A r, d : FindPkgbuildRepoDep(r, d)' = FindPkgbuildRepoDep(r, d)
    BY DEF FindPkgbuildRepoDep, First, NoVer, Flag
  <1>2. \A d : FindRepoSatisfier(d)' = FindRepoSatisfier(d)
    BY DEF FindRepoSatisfier, DbsSatisfiers, First, Elements, Asked, InstalledName, NoVer, Flag
  <1>3. \A d, pkgs : Met(d, pkgs)' <=> Met(d, pkgs)
    BY DEF Met, NoVer, Flag
  <1>4. \A names : Named(names)' = Named(names)
    BY DEF Named
  <1>5. (DepSearched' <=> DepSearched) /\ (TargetSearched' <=> TargetSearched)
    BY DEF DepSearched, TargetSearched, Flag
  <1> QED
    BY <1>1, <1>2, <1>3, <1>4, <1>5

LEMMA CollectedKept ==
    ASSUME world' = world, asked \subseteq asked', NEW p, Collected(p)
    PROVE  Collected(p)'
  <1>1. Depends(p)' = Depends(p)
    BY ReadKept
  <1>2. \A d : Unknown(d)' => Unknown(d)
    BY WorldReads, LocalKept DEF Unknown
  <1>3. \A d : Unknown(d) \/ ~ Unknown(d)'
    BY <1>2
  <1> QED
    BY <1>1, <1>3 DEF Collected

LEMMA RoundGrows ==
    ASSUME world' = world, asked \subseteq asked', lost \subseteq lost',
           fetched \ unread \subseteq fetched' \ unread'
    PROVE  /\ \A p : Collected(p) => Collected(p)'
           /\ \A d : DepHeard(d) => DepHeard(d)'
           /\ \A d : TargetHeard(d) => TargetHeard(d)'
  <1>1. ASSUME NEW p, Collected(p) PROVE Collected(p)'
    BY <1>1, CollectedKept
  <1>2. ASSUME NEW d, DepHeard(d) PROVE DepHeard(d)'
    BY <1>2 DEF DepHeard, DepSearched, Heard, Met, Named, NoVer, Flag
  <1>3. ASSUME NEW d, TargetHeard(d) PROVE TargetHeard(d)'
    BY <1>3 DEF TargetHeard, TargetSearched, DepSearched, Heard, Met, Named, NoVer, Flag
  <1> QED
    BY <1>1, <1>2, <1>3

LEMMA RoundBegins ==
    ASSUME RoundInv, Begin
    PROVE  RoundInv'
  <1>1. /\ at = "begin" /\ at' = "collect" /\ phase = "cache" /\ phase' = "cache"
        /\ walks' = Elements(targets.pkgbuild) /\ wanted' = Elements(targets.aur)
        /\ UNCHANGED <<world, targets, first, found, asked, fetched, lost, unread>>
    BY DEF Begin, vars, inputs, control
  <1>2. first /\ asked = {} /\ found = {} /\ RoundFacts
    BY <1>1 DEF RoundInv, RoundShape
  <1>3. AnswersRead'
    BY <1>1, <1>2, RoundGrows DEF RoundFacts, AnswersRead
  <1>4. TargetsRead' /\ PkgbuildsRead' /\ DepsHeard' /\ TargetsHeard'
    BY <1>1, <1>2 DEF TargetsRead, PkgbuildsRead, DepsHeard, TargetsHeard, Awaited
  <1>5. RoundShape'
    BY <1>1, <1>2 DEF RoundShape
  <1> QED
    BY <1>3, <1>4, <1>5 DEF RoundInv, RoundFacts

(* What is collected from now on is walked, or asked for. *)
LEMMA NewDeps ==
    ASSUME NEW pkgs, world' = world, asked' = asked \cup DepsOf(pkgs)
    PROVE  \A p \in pkgs : Collected(p)'
  <1> SUFFICES ASSUME NEW p \in pkgs, NEW d \in Elements(Depends(p)) PROVE ~ Unknown(d)'
    BY ReadKept DEF Collected
  <1>1. CASE Unknown(d)
    <2>1. d \in asked'
      BY <1>1 DEF DepsOf
    <2> QED
      BY <2>1 DEF Unknown
  <1>2. CASE ~ Unknown(d)
    <2>1. Unknown(d)' => Unknown(d)
      BY WorldReads, LocalKept DEF Unknown
    <2> QED
      BY <1>2, <2>1
  <1> QED
    BY <1>1, <1>2

LEMMA RoundWalks ==
    ASSUME RoundInv, Walk
    PROVE  RoundInv'
  <1>1. PICK t \in walks :
            LET new == DepsOf(FindPkgbuildRepoDep(t.repo, t.pkg))
            IN  /\ walks'  = (walks \ {t}) \cup Walked(new)
                /\ wanted' = wanted \cup (new \ ToWalk(new))
                /\ asked'  = asked \cup new
    BY DEF Walk
  <1>2. PICK pkgs : pkgs = FindPkgbuildRepoDep(t.repo, t.pkg)
    OBVIOUS
  <1>3. PICK new : new = DepsOf(pkgs)
    OBVIOUS
  <1>4. /\ at = "collect" /\ at' = "collect" /\ phase = "cache" /\ phase' = "cache"
        /\ walks' = (walks \ {t}) \cup Walked(new)
        /\ wanted' = wanted \cup (new \ ToWalk(new)) /\ asked' = asked \cup new
        /\ UNCHANGED <<world, targets, first, found, fetched, lost, unread>>
    BY <1>1, <1>2, <1>3 DEF Walk, vars, inputs, control
  <1>5. found = {} /\ RoundFacts
    BY <1>4 DEF RoundInv, RoundShape
  <1>6. /\ \A p : Collected(p) => Collected(p)'
        /\ \A d : DepHeard(d) => DepHeard(d)'
        /\ \A d : TargetHeard(d) => TargetHeard(d)'
        /\ \A p \in pkgs : Collected(p)'
        /\ \A r, d : FindPkgbuildRepoDep(r, d)' = FindPkgbuildRepoDep(r, d)
    BY <1>3, <1>4, RoundGrows, NewDeps, WorldReads
  <1>7. \A d \in new : IF FindPkgbuildRepoDep(NoRepo, d) = {} THEN d \in wanted'
                                                            ELSE [repo |-> NoRepo, pkg |-> d] \in walks'
    BY <1>4 DEF Walked, ToWalk
  <1>8. AnswersRead'
    BY <1>4, <1>5, <1>6 DEF RoundFacts, AnswersRead
  <1>9. TargetsRead'
    <2>1. ASSUME NEW u \in Elements(targets.pkgbuild)
          PROVE  u \in walks' \/ \A p \in FindPkgbuildRepoDep(u.repo, u.pkg) : Collected(p)'
      BY <1>2, <1>4, <1>5, <1>6 DEF RoundFacts, TargetsRead
    <2> QED
      BY <1>4, <1>6, <2>1 DEF TargetsRead
  <1>10. PkgbuildsRead'
    <2>1. ASSUME NEW d \in asked'
          PROVE  \/ [repo |-> NoRepo, pkg |-> d] \in walks'
                 \/ \A p \in FindPkgbuildRepoDep(NoRepo, d) : Collected(p)'
      <3>1. CASE d \in asked /\ t = [repo |-> NoRepo, pkg |-> d]
        BY <1>2, <1>6, <3>1
      <3>2. CASE d \in asked /\ t # [repo |-> NoRepo, pkg |-> d]
        BY <1>4, <1>5, <1>6, <3>2 DEF RoundFacts, PkgbuildsRead
      <3>3. CASE d \in new
        BY <1>7, <3>3
      <3> QED
        BY <1>4, <2>1, <3>1, <3>2, <3>3
    <2> QED
      BY <1>6, <2>1 DEF PkgbuildsRead
  <1>11. DepsHeard'
    <2>1. ASSUME NEW d \in asked', FindPkgbuildRepoDep(NoRepo, d) = {}
          PROVE  Awaited(d)' \/ DepHeard(d)'
      BY <1>4, <1>5, <1>6, <1>7, <2>1 DEF RoundFacts, DepsHeard, Awaited
    <2> QED
      BY <1>6, <2>1 DEF DepsHeard
  <1>12. TargetsHeard'
    BY <1>4, <1>5, <1>6 DEF RoundFacts, TargetsHeard, Awaited
  <1>13. RoundShape'
    BY <1>4, <1>5 DEF RoundShape
  <1> QED
    BY <1>8, <1>9, <1>10, <1>11, <1>12, <1>13 DEF RoundInv, RoundFacts

LEMMA RoundAsks ==
    ASSUME RoundInv, Ask
    PROVE  RoundInv'
  <1>1. /\ at = "collect" /\ at' = (IF SearchAll THEN "provides" ELSE "info")
        /\ phase = "cache" /\ phase' = "cache" /\ walks = {}
        /\ UNCHANGED <<world, targets, first, walks, wanted, found, asked, fetched, lost, unread>>
    BY DEF Ask, vars, inputs, control
  <1>2. found = {} /\ RoundFacts
    BY <1>1 DEF RoundInv, RoundShape
  <1>3. /\ \A p : Collected(p) => Collected(p)'
        /\ \A d : DepHeard(d) => DepHeard(d)'
        /\ \A d : TargetHeard(d) => TargetHeard(d)'
        /\ \A r, d : FindPkgbuildRepoDep(r, d)' = FindPkgbuildRepoDep(r, d)
        /\ SearchAll' <=> SearchAll
    BY <1>1, RoundGrows, WorldReads DEF SearchAll, Flag
  <1>4. (AnswersRead /\ TargetsRead /\ PkgbuildsRead)'
    BY <1>1, <1>2, <1>3 DEF RoundFacts, AnswersRead, TargetsRead, PkgbuildsRead
  <1>5. (DepsHeard /\ TargetsHeard)'
    BY <1>1, <1>2, <1>3 DEF RoundFacts, DepsHeard, TargetsHeard, Awaited
  <1>6. RoundShape'
    BY <1>1, <1>2, <1>3 DEF RoundShape
  <1> QED
    BY <1>4, <1>5, <1>6 DEF RoundInv, RoundFacts

(* What it takes for the AUR to have been heard of d after a step. *)
LEMMA HeardNow ==
    ASSUME world' = world, NEW d, Named({d.name}) \subseteq fetched' \ unread'
    PROVE  /\ (DepSearched /\ d.name \notin lost' /\ Met(d, Elements(world.aur))
                   => \E q \in fetched' \ unread' : Satisfies(q, d, NoVer))
              => DepHeard(d)'
           /\ (TargetSearched /\ d.name \notin lost' /\ Met(d, Elements(world.aur))
                   => \E q \in fetched' \ unread' : Satisfies(q, d, NoVer))
              => TargetHeard(d)'
  BY DEF DepHeard, TargetHeard, DepSearched, TargetSearched, Heard, Met, Named, NoVer, Flag

LEMMA RoundInfo ==
    ASSUME RoundInv, Info
    PROVE  RoundInv'
  <1>1. PICK answer, search : /\ answer = Named({ d.name : d \in wanted })
                              /\ search = (Flag("MISSING_PROVIDES") /\ \E d \in wanted : ~ Met(d, answer))
    OBVIOUS
  <1>2. /\ at = "info" /\ at' = (IF search THEN "provides" ELSE "scan")
        /\ phase = "cache" /\ phase' = "cache"
        /\ found' = answer /\ fetched' = fetched \cup answer /\ unread' = unread \ answer
        /\ UNCHANGED <<world, targets, first, walks, wanted, asked, lost>>
    BY <1>1 DEF Info, vars, inputs, control
  <1>3. found = {} /\ walks = {} /\ ~ SearchAll /\ RoundFacts
    BY <1>2 DEF RoundInv, RoundShape
  <1>4. /\ \A p : Collected(p) => Collected(p)'
        /\ \A d : DepHeard(d) => DepHeard(d)'
        /\ \A d : TargetHeard(d) => TargetHeard(d)'
        /\ \A r, d : FindPkgbuildRepoDep(r, d)' = FindPkgbuildRepoDep(r, d)
        /\ \A names : Named(names)' = Named(names)
        /\ Flag("MISSING_PROVIDES")' <=> Flag("MISSING_PROVIDES")
        /\ ~ SearchAll'
    BY <1>2, <1>3, RoundGrows, WorldReads DEF SearchAll, Flag
  <1>5. ASSUME NEW d \in wanted, ~ search
        PROVE  DepHeard(d)' /\ (first => TargetHeard(d)')
    <2>1. Named({d.name}) \subseteq fetched' \ unread'
      BY <1>1, <1>2 DEF Named
    <2>2. Flag("MISSING_PROVIDES") => \E q \in fetched' \ unread' : Satisfies(q, d, NoVer)
      BY <1>1, <1>2, <1>5 DEF Met
    <2>3. (DepSearched \/ (first /\ TargetSearched)) => Flag("MISSING_PROVIDES")
      BY <1>3 DEF DepSearched, TargetSearched, SearchAll
    <2> QED
      BY <1>2, <2>1, <2>2, <2>3, HeardNow
  <1>6. (AnswersRead /\ TargetsRead /\ PkgbuildsRead)'
    BY <1>2, <1>3, <1>4 DEF RoundFacts, AnswersRead, TargetsRead, PkgbuildsRead
  <1>7. DepsHeard'
    <2>1. ASSUME NEW d \in asked, FindPkgbuildRepoDep(NoRepo, d) = {}
          PROVE  Awaited(d)' \/ DepHeard(d)'
      BY <1>2, <1>3, <1>4, <1>5, <2>1 DEF RoundFacts, DepsHeard, Awaited
    <2> QED
      BY <1>2, <1>4, <2>1 DEF DepsHeard
  <1>8. TargetsHeard'
    BY <1>2, <1>3, <1>4, <1>5 DEF RoundFacts, TargetsHeard, Awaited
  <1>9. RoundShape'
    BY <1>1, <1>2, <1>3, <1>4 DEF RoundShape
  <1> QED
    BY <1>6, <1>7, <1>8, <1>9 DEF RoundInv, RoundFacts

(* A search that was made has told of everything that provides a name. *)
LEMMA ProvidersFound ==
    ASSUME NEW d, NEW names, d.name \in names, NEW p \in Elements(world.aur), Satisfies(p, d, NoVer)
    PROVE  p \in Named(UNION { ProvidersOf(n) : n \in names })
  <1>1. p.name \in ProvidersOf(d.name)
    BY DEF Satisfies, SatisfiesProvide, ProvidersOf
  <1> QED
    BY <1>1 DEF Named

LEMMA RoundProvides ==
    ASSUME FillInv, RoundInv, Provides
    PROVE  RoundInv'
  <1>1. PICK looked, names : looked = Lookup /\ names = { d.name : d \in looked }
    OBVIOUS
  <1>2. PICK searched, plain : /\ searched = { n \in names : ~ InstalledName(n) }
                               /\ plain = { d.name : d \in { x \in looked : x.mod = "any" } }
    OBVIOUS
  <1>3. PICK failed \in SUBSET searched :
            LET answer == Named(plain \cup UNION { ProvidersOf(n) : n \in searched \ failed })
            IN  /\ fetched' = fetched \cup answer
                /\ found' = found \cup { p \in answer : \E d \in looked : Satisfies(p, d, NoVer) }
                /\ lost' = lost \cup (names \ searched) \cup failed
                /\ unread' = (unread \cup (answer \ fetched)) \ found'
    BY <1>1, <1>2 DEF Provides
  <1>4. PICK answer : answer = Named(plain \cup UNION { ProvidersOf(n) : n \in searched \ failed })
    OBVIOUS
  <1>5. /\ at = "provides" /\ at' = "scan" /\ phase = "cache" /\ phase' = "cache"
        /\ fetched' = fetched \cup answer
        /\ found' = found \cup { p \in answer : \E d \in looked : Satisfies(p, d, NoVer) }
        /\ lost' = lost \cup (names \ searched) \cup failed
        /\ unread' = (unread \cup (answer \ fetched)) \ found'
        /\ UNCHANGED <<world, targets, first, walks, wanted, asked>>
    BY <1>3, <1>4 DEF Provides, vars, inputs, control
  <1>6. /\ walks = {} /\ RoundFacts /\ found \subseteq fetched
        /\ SearchAll \/ (Flag("MISSING_PROVIDES") /\ Named({ d.name : d \in wanted }) \subseteq found)
    BY <1>5 DEF RoundInv, RoundShape, FillInv, FillTypeOK
  <1>7. /\ \A p : Collected(p) => Collected(p)'
        /\ \A d : DepHeard(d) => DepHeard(d)'
        /\ \A d : TargetHeard(d) => TargetHeard(d)'
        /\ \A r, d : FindPkgbuildRepoDep(r, d)' = FindPkgbuildRepoDep(r, d)
    BY <1>5, RoundGrows, WorldReads
  <1>8. ASSUME NEW d \in wanted
        PROVE  DepHeard(d)' /\ TargetHeard(d)'
    <2>1. ASSUME d.name \in names, d.name \notin lost', NEW p \in Elements(world.aur), Satisfies(p, d, NoVer)
          PROVE  p \in answer
      <3>1. d.name \in searched \ failed
        BY <1>5, <2>1
      <3>2. p \in Named(UNION { ProvidersOf(n) : n \in searched \ failed })
        BY <2>1, <3>1, ProvidersFound
      <3> QED
        BY <1>4, <3>2 DEF Named
    <2>2. found' \subseteq fetched' \ unread'
      BY <1>5, <1>6
    <2>3. CASE SearchAll
      <3>1. AnyVersion(d) \in looked
        BY <1>1, <2>3 DEF Lookup
      <3>2. AnyVersion(d).name = d.name /\ AnyVersion(d).mod = "any"
        <4>1. d \in Dep
          BY DEF FillInv, FillTypeOK
        <4> QED
          BY <4>1 DEF AnyVersion, Dep
      <3>3. d.name \in names /\ d.name \in plain
        BY <1>1, <1>2, <3>1, <3>2
      <3>4. ASSUME NEW p \in answer, p.name = d.name \/ Satisfies(p, d, NoVer) PROVE p \in found'
        <4>1. Satisfies(p, AnyVersion(d), NoVer)
          BY <3>2, <3>4 DEF Satisfies, SatisfiesProvide, SatisfiesVer
        <4> QED
          BY <1>5, <3>1, <4>1
      <3>5. Named({d.name}) \subseteq found'
        BY <1>4, <3>3, <3>4 DEF Named
      <3>6. d.name \notin lost' /\ Met(d, Elements(world.aur)) => \E q \in found' : Satisfies(q, d, NoVer)
        BY <2>1, <3>3, <3>4 DEF Met
      <3> QED
        BY <1>5, <2>2, <3>5, <3>6, HeardNow
    <2>4. CASE ~ SearchAll
      <3>1. Named({d.name}) \subseteq found'
        BY <1>5, <1>6, <2>4 DEF Named
      <3>2. Met(d, found) \/ (d \in looked /\ d.name \in names)
        BY <1>1, <2>4 DEF Lookup
      <3>3. d.name \notin lost' /\ Met(d, Elements(world.aur)) => \E q \in found' : Satisfies(q, d, NoVer)
        <4>1. CASE Met(d, found)
          BY <1>5, <4>1 DEF Met
        <4>2. CASE d \in looked /\ d.name \in names
          BY <1>5, <2>1, <4>2 DEF Met
        <4> QED
          BY <3>2, <4>1, <4>2
      <3> QED
        BY <1>5, <2>2, <3>1, <3>3, HeardNow
    <2> QED
      BY <2>3, <2>4
  <1>9. AnswersRead'
    BY <1>5, <1>6, <1>7 DEF RoundFacts, AnswersRead
  <1>10. (TargetsRead /\ PkgbuildsRead)'
    BY <1>5, <1>6, <1>7 DEF RoundFacts, TargetsRead, PkgbuildsRead
  <1>11. DepsHeard'
    <2>1. ASSUME NEW d \in asked, FindPkgbuildRepoDep(NoRepo, d) = {} PROVE DepHeard(d)'
      BY <1>6, <1>7, <1>8, <2>1 DEF RoundFacts, DepsHeard, Awaited
    <2> QED
      BY <1>5, <1>7, <2>1 DEF DepsHeard
  <1>12. TargetsHeard'
    BY <1>5, <1>6, <1>7, <1>8 DEF RoundFacts, TargetsHeard, Awaited
  <1>13. RoundShape'
    BY <1>5, <1>6 DEF RoundShape
  <1> QED
    BY <1>9, <1>10, <1>11, <1>12, <1>13 DEF RoundInv, RoundFacts

LEMMA RoundFollows ==
    ASSUME RoundInv, NextRound
    PROVE  RoundInv'
  <1>1. PICK new : new = DepsOf(found)
    OBVIOUS
  <1>2. /\ at = "scan" /\ at' = "collect" /\ phase = "cache" /\ phase' = "cache"
        /\ asked' = asked \cup new
        /\ walks' = Walked(new) /\ wanted' = new \ ToWalk(new) /\ found' = {}
        /\ UNCHANGED <<world, targets, fetched, lost, unread>>
    BY <1>1 DEF NextRound, vars, inputs, control
  <1>3. walks = {} /\ RoundFacts
    BY <1>2 DEF RoundInv, RoundShape
  <1>4. /\ \A p : Collected(p) => Collected(p)'
        /\ \A d : DepHeard(d) => DepHeard(d)'
        /\ \A d : TargetHeard(d) => TargetHeard(d)'
        /\ \A p \in found : Collected(p)'
        /\ \A r, d : FindPkgbuildRepoDep(r, d)' = FindPkgbuildRepoDep(r, d)
    BY <1>1, <1>2, RoundGrows, NewDeps, WorldReads
  <1>5. \A d \in new : IF FindPkgbuildRepoDep(NoRepo, d) = {} THEN d \in wanted'
                                                            ELSE [repo |-> NoRepo, pkg |-> d] \in walks'
    BY <1>2 DEF Walked, ToWalk
  <1>6. (AnswersRead /\ TargetsRead)'
    BY <1>2, <1>3, <1>4 DEF RoundFacts, AnswersRead, TargetsRead
  <1>7. PkgbuildsRead'
    <2>1. ASSUME NEW d \in asked'
          PROVE  \/ [repo |-> NoRepo, pkg |-> d] \in walks'
                 \/ \A p \in FindPkgbuildRepoDep(NoRepo, d) : Collected(p)'
      BY <1>2, <1>3, <1>4, <1>5 DEF RoundFacts, PkgbuildsRead
    <2> QED
      BY <1>4, <2>1 DEF PkgbuildsRead
  <1>8. DepsHeard'
    <2>1. ASSUME NEW d \in asked', FindPkgbuildRepoDep(NoRepo, d) = {}
          PROVE  Awaited(d)' \/ DepHeard(d)'
      BY <1>2, <1>3, <1>4, <1>5, <2>1 DEF RoundFacts, DepsHeard, Awaited
    <2> QED
      BY <1>4, <2>1 DEF DepsHeard
  <1>9. TargetsHeard'
    BY <1>2, <1>3, <1>4 DEF RoundFacts, TargetsHeard, Awaited
  <1>10. RoundShape'
    BY <1>2 DEF RoundShape
  <1> QED
    BY <1>6, <1>7, <1>8, <1>9, <1>10 DEF RoundInv, RoundFacts

LEMMA RoundsEnd ==
    ASSUME RoundInv, RequestFailed \/ Filled
    PROVE  RoundInv'
  <1>1. /\ at' = "end" /\ phase = "cache" /\ cache' = fetched
        /\ UNCHANGED <<world, targets, first, walks, wanted, found, asked, fetched, lost, unread>>
    BY DEF RequestFailed, Filled, Enter
  <1>2. walks = {} /\ RoundFacts
    BY <1>1 DEF RoundInv, RoundShape, RequestFailed, Filled
  <1>3. CASE RequestFailed
    BY <1>1, <1>2, <1>3 DEF RequestFailed, Enter, RoundInv, RoundShape
  <1>4. CASE Filled
    <2>1. /\ \A p : Collected(p) => Collected(p)'
          /\ \A d : DepHeard(d) => DepHeard(d)'
          /\ \A d : TargetHeard(d) => TargetHeard(d)'
          /\ \A r, d : FindPkgbuildRepoDep(r, d)' = FindPkgbuildRepoDep(r, d)
      BY <1>1, RoundGrows, WorldReads
    <2>2. \A d : ~ Awaited(d)
      BY <1>4 DEF Filled, Awaited
    <2>3. \A p \in found : Collected(p)
      <3>1. CASE at = "collect"
        BY <1>1, <3>1 DEF RoundInv, RoundShape
      <3>2. CASE DepsOf(found) = {}
        BY <3>2 DEF DepsOf, Collected
      <3> QED
        BY <1>4, <3>1, <3>2 DEF Filled
    <2>4. AnswersRead'
      BY <1>1, <1>2, <2>1, <2>3 DEF RoundFacts, AnswersRead
    <2>5. (TargetsRead /\ PkgbuildsRead)'
      BY <1>1, <1>2, <2>1, <1>4 DEF Filled, RoundFacts, TargetsRead, PkgbuildsRead
    <2>6. (DepsHeard /\ TargetsHeard)'
      BY <1>1, <1>2, <2>1, <2>2, <1>4 DEF Filled, RoundFacts, DepsHeard, TargetsHeard
    <2>7. RoundShape'
      BY <1>1, <1>2, <1>4 DEF Filled, Enter, RoundShape
    <2> QED
      BY <2>4, <2>5, <2>6, <2>7 DEF RoundInv, RoundFacts
  <1> QED
    BY <1>3, <1>4

PhaseMoves ==
    \/ phase = "split" /\ phase' = "cache"
    \/ /\ phase \notin {"split", "cache", "failed"}
       /\ phase' \notin {"split", "cache", "failed"}

LEMMA PhaseKind ==
    ASSUME Next, phase # "cache"
    PROVE  UNCHANGED phase \/ PhaseMoves
  <1> USE DEF PhaseMoves
  <1>1. CASE phase = "split"
    <2>1. CASE Split
      BY <1>1, <2>1 DEF Split, SplitAssumed, SplitRepo, SplitGroup, SplitPkgbuild, SplitAur,
                        SplitMissing, SplitDone, Splitting, Enter
    <2>2. CASE Target
      BY <1>1, <2>2 DEF Target, RepoTargetsDone, PkgbuildTargetsDone, AurTargetsDone, Enter,
         RepoTargetSkipped, RepoTargetUnneeded, RepoTarget, PkgbuildTargetSkipped,
         PkgbuildTargetUnneeded, PkgbuildTarget, AurTargetSkipped, AurTargetMissing,
         AurTargetUnneeded, AurTarget, Targeting, TargetingAur
    <2>3. CASE Recurse
      BY <2>3 DEF Recurse, BuildDepDone, BuildDepInstalled, BuildDepFromRepo, BuildDepFromPkgbuild,
         BuildDepFromAur, BuildDepMissing, FinishBuild, RepoDepSatisfied, RepoDepFromRepo,
         RepoDepMissing, FinishRepo, Resolving, control
    <2>4. CASE FillCache \/ FailCache \/ CalculateMake \/ KeepMake \/ Returned
      BY <1>1, <2>4 DEF FillCache, FailCache, CalculateMake, KeepMake, Returned, Enter
    <2> QED
      BY <2>1, <2>2, <2>3, <2>4 DEF Next
  <1>2. CASE phase # "split"
    BY <1>2, ControlKind
  <1> QED
    BY <1>1, <1>2

LEMMA RoundStays ==
    ASSUME TypeOK, RoundInv, [Next]_vars, phase # "cache", UNCHANGED filling
    PROVE  RoundInv'
  <1>1. /\ UNCHANGED <<world, cache, at, first, walks, wanted, found, asked, fetched, lost, unread>>
        /\ phase # "split" => UNCHANGED targets
    BY CacheKept, WorldKept, TargetsGrow DEF inputs, filling, vars
  <1>2. UNCHANGED phase \/ PhaseMoves
    BY PhaseKind DEF PhaseMoves, vars, control
  <1>3. /\ \A p : Collected(p) => Collected(p)'
        /\ \A d : DepHeard(d) => DepHeard(d)'
        /\ \A d : TargetHeard(d) => TargetHeard(d)'
        /\ \A r, d : FindPkgbuildRepoDep(r, d)' = FindPkgbuildRepoDep(r, d)
        /\ SearchAll' <=> SearchAll
        /\ \A names : Named(names)' = Named(names)
        /\ Flag("MISSING_PROVIDES")' <=> Flag("MISSING_PROVIDES")
    BY <1>1, RoundGrows, WorldReads DEF SearchAll, Flag
  <1>4. RoundShape'
    BY <1>1, <1>2, <1>3 DEF RoundInv, RoundShape, PhaseMoves
  <1>5. phase' # "failed" => RoundFacts
    BY <1>2 DEF RoundInv, PhaseMoves
  <1>6. phase' # "failed" => (AnswersRead /\ PkgbuildsRead /\ DepsHeard)'
    BY <1>1, <1>3, <1>5 DEF RoundFacts, AnswersRead, PkgbuildsRead, DepsHeard, Awaited
  <1>7. phase' # "failed" => (TargetsRead /\ TargetsHeard)'
    <2>1. CASE phase = "split"
      BY <1>1, <2>1 DEF RoundInv, RoundShape, TargetsRead, TargetsHeard
    <2>2. CASE phase # "split"
      BY <1>1, <1>3, <1>5, <2>2 DEF RoundFacts, TargetsRead, TargetsHeard, Awaited
    <2> QED
      BY <2>1, <2>2
  <1> QED
    BY <1>4, <1>6, <1>7 DEF RoundInv, RoundFacts

LEMMA RoundFirst == FullFresh => RoundInv
  BY DEF FullFresh, Fresh, RoundInv, RoundShape, RoundFacts, AnswersRead, TargetsRead, PkgbuildsRead,
         DepsHeard, TargetsHeard

LEMMA RoundKept == FillInv /\ RoundInv /\ [FullNext]_fullvars => RoundInv'
  <1> SUFFICES ASSUME FillInv, RoundInv, [FullNext]_fullvars PROVE RoundInv'
    OBVIOUS
  <1>1. CASE Fill
    BY <1>1, RoundBegins, RoundWalks, RoundAsks, RoundInfo, RoundProvides, RoundFollows, RoundsEnd
       DEF Fill
  <1>2. CASE phase # "cache" /\ Next /\ UNCHANGED filling
    BY <1>2, RoundStays DEF FillInv
  <1>3. CASE UNCHANGED fullvars
    <2>1. /\ UNCHANGED <<world, cache, phase, targets, at, first, walks, wanted, found, asked, fetched,
                         lost, unread>>
      BY <1>3 DEF fullvars, vars, inputs, control, filling
    <2>2. /\ \A p : Collected(p) => Collected(p)'
          /\ \A d : DepHeard(d) => DepHeard(d)'
          /\ \A d : TargetHeard(d) => TargetHeard(d)'
          /\ \A r, d : FindPkgbuildRepoDep(r, d)' = FindPkgbuildRepoDep(r, d)
          /\ SearchAll' <=> SearchAll
          /\ \A names : Named(names)' = Named(names)
          /\ Flag("MISSING_PROVIDES")' <=> Flag("MISSING_PROVIDES")
      BY <2>1, RoundGrows, WorldReads DEF SearchAll, Flag
    <2>3. RoundShape'
      BY <2>1, <2>2 DEF RoundInv, RoundShape
    <2>4. phase' # "failed" => RoundFacts'
      BY <2>1, <2>2 DEF RoundInv, RoundFacts, AnswersRead, TargetsRead, PkgbuildsRead, DepsHeard,
                        TargetsHeard, Awaited
    <2> QED
      BY <2>3, <2>4 DEF RoundInv
  <1> QED
    BY <1>1, <1>2, <1>3 DEF FullNext

-----------------------------------------------------------------------------
(* What the resolution asks for is among what the rounds asked for.        *)

NoLeftover(n) == \A q \in unread : q.name # n

(* The packages being resolved to be built whose path to the request holds *)
(* answers only.                                                           *)
ReadFrames == { i \in DOMAIN stack : /\ IsBuild(i)
                                     /\ \A j \in DOMAIN stack : j <= i => NoLeftover(stack[j].pkg.name) }

ReadPkgs == { stack[i].pkg : i \in ReadFrames }

FramesRead == \A p \in ReadPkgs : Collected(p)

PathAsked(m) ==
    m.stack # << >> /\ (\A j \in DOMAIN m.stack : NoLeftover(m.stack[j].pkg))
        => Entered(m.stack[Len(m.stack)].pkg) \/ m.dep \in asked

PathsAsked == \A m \in Elements(missing) : PathAsked(m)

(* A request nobody answers is no matter of the AUR, or nothing in the     *)
(* cache, filled by then, answers it.                                      *)
RequestUnmet(m) ==
    m.stack = << >> =>
        \/ m.repo # NoRepo
        \/ world.is_target /\ ~ Flag("AUR")
        \/ phase \notin {"split", "cache"} /\ \A p \in cache : ~ Satisfies(p, m.dep, NoVer)

RequestsUnmet == \A m \in Elements(missing) : RequestUnmet(m)

AurAllowed == Elements(targets.aur) # {} => Flag("AUR") \/ ~ world.is_target

(* p, which no round has got for an answer, is not relied on for d. *)
Spared(p, d, target) == Told(p, d, target) => NotOnly(p, d)

FramesSpared ==
    \A i \in DOMAIN stack : (\A j \in DOMAIN stack : j < i => NoLeftover(stack[j].pkg.name)) =>
        \A p \in unread : p.name = stack[i].pkg.name => Spared(p, stack[i].dep, i = 1)

PathSpared(m) ==
    \A i \in DOMAIN m.stack : (\A j \in DOMAIN m.stack : j < i => NoLeftover(m.stack[j].pkg)) =>
        \A p \in unread : p.name = m.stack[i].pkg => Spared(p, m.stack[i].dep, i = 1)

PathsSpared == \A m \in Elements(missing) : PathSpared(m)

SparedInv == FramesSpared /\ PathsSpared

HeardInv == RequestsUnmet /\ AurAllowed /\ (SourcesApart => FramesRead /\ PathsAsked /\ SparedInv)

(* A dependency that has to be built, of a package whose dependencies were *)
(* collected, was asked for: unless it comes from a PKGBUILD repo or       *)
(* nothing has it, an AUR target may have been taken for it.               *)
LEMMA CurrentAsked ==
    ASSUME PlanInv, SourcesApart, stack # << >>, Top.todo # << >>, Top.pkg.src \in ToBuild,
           Collected(Top.pkg), MustBuild(Current),
           FindPkgbuildRepoDep(NoRepo, Current) # {} \/ SelectSatisfierAurCache(Current, FALSE) = {}
    PROVE  Current \in asked
  <1>1. /\ Current \in Elements(Depends(Top.pkg)) /\ Len(stack) \in DOMAIN stack
        /\ world \in World /\ cache \subseteq Elements(world.aur) /\ cache \in SUBSET PackageOf("aur")
    BY AdvancedChain DEF PlanInv, PathInv, TypeOK, CacheKnown
  <1>2. Top.pkg \in Elements(world.pkgbuilds) \cup Elements(world.aur)
    <2>1. Top.pkg \in Known
      BY <1>1 DEF PlanInv, PathInv, FramesKnown, Top
    <2> QED
      BY <1>1, <2>1, KnownSource DEF ToBuildPkgs, ToBuild
  <1>3. ~ Unknown(Current) /\ ~ AssumeInstalled(Current)
    BY <1>1 DEF Collected, MustBuild, Done
  <1>4. SUFFICES ASSUME Current \notin asked PROVE FALSE
    OBVIOUS
  <1>5. \/ FindRepoSatisfier(Current) # {}
        \/ ~ Flag("RESOLVE_SATISFIED_PKGBUILDS") /\ SatisfiedLocal(Current)
    BY <1>3, <1>4 DEF Unknown
  <1>6. ~ SamePkgbuild(Top.pkg, Current)
    BY <1>1, <1>2, <1>5 DEF SourcesApart
  <1>7. ~ DepIsAurTarg(Current)
    <2> SUFFICES ASSUME DepIsAurTarg(Current) PROVE FALSE
      OBVIOUS
    <2>1. PICK p \in FindSatisfierAurCache(Current) :
              \E t \in Elements(targets.aur) : Satisfies(p, t, NoVer)
      BY DEF DepIsAurTarg
    <2>2. p \in cache /\ Satisfies(p, Current, NoVer)
      BY <2>1 DEF FindSatisfierAurCache, First
    <2>3. TargetAnswers(Current)
      BY <1>1, <2>1, <2>2 DEF TargetAnswers
    <2>4. SelectSatisfierAurCache(Current, FALSE) # {}
      BY <1>1, <2>2, AurUnmet
    <2> QED
      BY <1>1, <1>2, <1>5, <2>3, <2>4 DEF SourcesApart
  <1>8. FindRepoSatisfier(Current) = {}
    BY <1>6, <1>7 DEF MustBuild, FromRepo, IsAurTarg
  <1> QED
    BY <1>5, <1>6, <1>7, <1>8 DEF MustBuild, LeftInstalled, ShouldSkipAurPkg, IsAurTarg

(* Where the packages to build come from. *)
LEMMA DepBrings ==
    ASSUME PathInv, DepStep, NEW f, CallsFor(f)
    PROVE  \/ f.pkg.src = "repo"
           \/ /\ Top.pkg.src \in ToBuild /\ MustBuild(Current)
              /\ f.pkg \in FindPkgbuildRepoDep(NoRepo, Current) \cup cache
  <1>1. /\ stack' = Append(Advanced, f) /\ Current \in Dep /\ Advanced \in Seq(Frame)
        /\ world \in World /\ stack # << >>
    BY TopType, AdvancedType DEF CallsFor, PathInv, TypeOK
  <1>2. ASSUME NEW g, stack' = Append(Advanced, g) PROVE f = g
    <2>1. PICK n : n = Len(Advanced) + 1
      OBVIOUS
    <2>2. Append(Advanced, f)[n] = f /\ Append(Advanced, g)[n] = g
      BY <1>1, <2>1
    <2> QED
      BY <1>1, <1>2, <2>2
  <1>3. stack' # Advanced
    <2>1. Len(Append(Advanced, f)) = Len(Advanced) + 1 /\ Len(Advanced) \in Nat
      BY <1>1
    <2> QED
      BY <1>1, <2>1
  <1>4. CASE BuildDepFromPkgbuild \/ BuildDepFromAur
    <2>1. PICK p \in FindPkgbuildRepoDep(NoRepo, Current) \cup SelectSatisfierAurCache(Current, FALSE) :
              stack' = Append(Advanced, NewFrame(p, Current, Top.submake, TRUE, FALSE))
      BY <1>4 DEF BuildDepFromPkgbuild, BuildDepFromAur
    <2>2. f.pkg = p
      BY <1>2, <2>1 DEF NewFrame
    <2>3. p \in FindPkgbuildRepoDep(NoRepo, Current) \cup cache
      BY <2>1, AurLookup
    <2> QED
      BY <1>4, <2>2, <2>3 DEF BuildDepFromPkgbuild, BuildDepFromAur, Resolving
  <1>5. CASE BuildDepFromRepo \/ RepoDepFromRepo
    <2>1. PICK p \in FindRepoSatisfier(Current) :
              stack' = Append(Advanced, NewFrame(p, Current, TRUE, TRUE, FALSE))
      BY <1>3, <1>5 DEF BuildDepFromRepo, RepoDepFromRepo, EnterRepoPkg, FromRepo
    <2>2. f.pkg = p /\ p \in Elements(world.repos)
      BY <1>1, <1>2, <2>1, RepoLookup DEF NewFrame
    <2> QED
      BY <1>1, <2>2, WorldTypes, ElementsType, PackageOfType
  <1> QED
    BY <1>3, <1>4, <1>5 DEF DepStep, BuildDepDone, BuildDepInstalled, BuildDepMissing,
                            RepoDepSatisfied, RepoDepMissing

LEMMA TargetBrings ==
    ASSUME PathInv, RepoTarget \/ PkgbuildTarget \/ AurTarget, stack' # << >>
    PROVE  /\ stack = << >> /\ DOMAIN stack' = {1}
           /\ \/ stack'[1].pkg.src = "repo"
              \/ \E t \in Elements(targets.pkgbuild) : stack'[1].pkg \in FindPkgbuildRepoDep(t.repo, t.pkg)
              \/ /\ stack'[1].pkg \in cache /\ stack'[1].dep \in Elements(targets.aur)
                 /\ Satisfies(stack'[1].pkg, stack'[1].dep, NoVer)
  <1>1. CASE RepoTarget
    <2>1. world \in World
      BY DEF PathInv, TypeOK
    <2> QED
      BY <1>1, <2>1, RepoOpens, WorldTypes, ElementsType, PackageOfType
  <1>2. CASE PkgbuildTarget
    <2>1. PICK p \in FindPkgbuildRepoDep(PkgbuildRequest.repo, PkgbuildRequest.pkg) :
              stack' = <<NewFrame(p, PkgbuildRequest.pkg, FALSE, IsMake(PkgbuildRequest.pkg),
                                  world.is_target)>>
      BY <1>2 DEF PkgbuildTarget
    <2>2. stack'[1].pkg = p
      BY <2>1 DEF NewFrame
    <2>3. PkgbuildRequest \in Elements(targets.pkgbuild)
      BY <1>2 DEF PkgbuildTarget, Targeting, PkgbuildRequest, Elements
    <2> QED
      BY <1>2, <2>1, <2>2, <2>3, PkgbuildOpens
  <1>3. CASE AurTarget
    <2>1. PICK p \in SelectSatisfierAurCache(AurRequest, world.is_target) :
              stack' = <<NewFrame(p, AurRequest, FALSE, IsMake(AurRequest), world.is_target)>>
      BY <1>3 DEF AurTarget
    <2>2. stack'[1].pkg = p /\ stack'[1].dep = AurRequest
      BY <2>1 DEF NewFrame
    <2>3. AurRequest \in Elements(targets.aur)
      BY <1>3 DEF AurTarget, TargetingAur, Targeting, AurRequest, Elements
    <2> QED
      BY <1>3, <2>1, <2>2, <2>3, AurLookup, AurOpens
  <1> QED
    BY <1>1, <1>2, <1>3

LEMMA NextFramesRead ==
    ASSUME PlanInv, RoundInv, SourcesApart, FramesRead, [Next]_vars, UNCHANGED filling,
           phase \notin {"split", "cache"}
    PROVE  FramesRead'
  <1>1. /\ PathInv /\ Running /\ world' = world /\ asked' = asked /\ unread' = unread
        /\ at = "end" /\ cache = fetched /\ walks = {}
    BY WorldKept DEF PlanInv, RoundInv, RoundShape, filling
  <1>2. \A p : Collected(p) => Collected(p)'
    BY <1>1, CollectedKept
  <1>3. SUFFICES ASSUME NEW p \in ReadPkgs' PROVE Collected(p)
    BY <1>2 DEF FramesRead
  <1>4. PICK i \in DOMAIN stack' :
            /\ stack'[i].pkg = p /\ p.src \in ToBuild
            /\ \A j \in DOMAIN stack' : j <= i => \A q \in unread : q.name # stack'[j].pkg.name
    BY <1>1, <1>3 DEF ReadPkgs, ReadFrames, IsBuild, NoLeftover
  <1>5. ASSUME NEW k \in DOMAIN stack, stack[k].pkg.src \in ToBuild,
               \A j \in DOMAIN stack : j <= k => \A q \in unread : q.name # stack[j].pkg.name
        PROVE  Collected(stack[k].pkg)
    BY <1>5 DEF FramesRead, ReadPkgs, ReadFrames, IsBuild, NoLeftover
  <1>6. \A q \in unread : q.name # p.name
    <2>1. i \in DOMAIN stack' /\ i <= i
      <3>1. stack' \in Seq(Frame)
        BY <1>1, NextTypeOK DEF PathInv, TypeOK
      <3> QED
        BY <3>1
    <2> QED
      BY <1>4, <2>1
  <1>7. p \in cache /\ phase # "failed" => Collected(p)
    BY <1>1, <1>6 DEF RoundInv, RoundFacts, AnswersRead
  <1>8. CASE i \in DOMAIN stack
    <2>1. ASSUME Finish, NEW j \in DOMAIN stack, j <= i
          PROVE  j \in DOMAIN stack' /\ stack'[j].pkg = stack[j].pkg
      <3>1. PICK n : /\ n \in Nat /\ DOMAIN stack' = DOMAIN stack \ {n} /\ DOMAIN stack \subseteq Nat
                     /\ \A k \in DOMAIN stack' : stack'[k] = stack[k] /\ k < n
        BY <1>1, <2>1, FinishPlan, PoppedFrames DEF PathInv, Pops
      <3>2. j < n /\ j \in Nat
        BY <1>4, <2>1, <3>1
      <3> QED
        BY <2>1, <3>1, <3>2
    <2>2. \A j \in DOMAIN stack : j <= i => j \in DOMAIN stack' /\ stack'[j].pkg = stack[j].pkg
      BY <1>1, <2>1, FramesStay
    <2>3. stack'[i].pkg = stack[i].pkg
      BY <1>1, <1>4, <1>8, <2>1, FramesStay, FinishPlan, PoppedFrames DEF PathInv, Pops
    <2> QED
      BY <1>4, <1>5, <1>8, <2>2, <2>3
  <1>9. CASE i \notin DOMAIN stack
    <2>1. CASE RepoTarget \/ PkgbuildTarget \/ AurTarget
      <3>1. stack' # << >> /\ i = 1
        BY <1>1, <1>4, <2>1, TargetBrings
      <3>2. phase # "failed"
        BY <2>1 DEF RepoTarget, PkgbuildTarget, AurTarget, TargetingAur, Targeting
      <3>3. CASE \E t \in Elements(targets.pkgbuild) : p \in FindPkgbuildRepoDep(t.repo, t.pkg)
        BY <1>1, <3>2, <3>3 DEF RoundInv, RoundFacts, TargetsRead
      <3> QED
        BY <1>1, <1>4, <1>7, <2>1, <3>1, <3>2, <3>3, TargetBrings DEF ToBuild
    <2>2. ASSUME NEW f, DepStep, CallsFor(f) PROVE Collected(p)
      <3>1. PICK n : /\ DOMAIN stack' = DOMAIN stack \cup {n} /\ stack'[n] = f
                     /\ \A j \in DOMAIN stack : stack'[j].pkg = stack[j].pkg
                     /\ n = Len(stack) + 1 /\ stack[n - 1] = Top /\ n - 1 \in DOMAIN stack
        BY <1>1, <2>2, CalledFrames
      <3>2. i = n /\ f.pkg = p /\ stack # << >> /\ Top.todo # << >>
        BY <1>4, <1>9, <2>2, <3>1 DEF CallsFor
      <3>3. phase # "failed"
        BY <1>1, <3>2 DEF Running
      <3>4. /\ Top.pkg.src \in ToBuild /\ MustBuild(Current)
            /\ p \in FindPkgbuildRepoDep(NoRepo, Current) \cup cache
        BY <1>1, <1>4, <2>2, <3>2, DepBrings DEF ToBuild
      <3>5. Collected(Top.pkg)
        <4>1. \A j \in DOMAIN stack : j <= i
          BY <1>1, <3>1, <3>2 DEF PathInv, TypeOK
        <4>2. \A j \in DOMAIN stack : \A q \in unread : q.name # stack[j].pkg.name
          BY <1>4, <3>1, <4>1
        <4> QED
          BY <1>5, <3>1, <3>4, <4>2
      <3>6. CASE p \in FindPkgbuildRepoDep(NoRepo, Current)
        <4>1. Current \in asked
          BY <3>2, <3>4, <3>5, <3>6, CurrentAsked
        <4> QED
          BY <1>1, <3>3, <3>6, <4>1 DEF RoundInv, RoundFacts, PkgbuildsRead
      <3> QED
        BY <1>7, <3>3, <3>4, <3>6
    <2>3. CASE Steps \/ UNCHANGED stack
      BY <1>1, <1>4, <1>9, <2>3, SteppedFrames
    <2>4. CASE Finish /\ Pops
      BY <1>1, <1>4, <1>9, <2>4, PoppedFrames DEF PathInv
    <2>5. ASSUME NEW f, OpensFor(f) PROVE RepoTarget \/ PkgbuildTarget \/ AurTarget
      BY <1>1, <1>4, <2>5, RootKind DEF OpensFor
    <2> QED
      BY <1>1, <2>1, <2>2, <2>3, <2>4, <2>5, PathKind
  <1> QED
    BY <1>8, <1>9

LEMMA PathAskedKept ==
    ASSUME PathInv, [Next]_vars, asked' = asked, unread' = unread, NEW m, PathAsked(m)
    PROVE  PathAsked(m)'
  <1>1. PICK n : n = m.stack[Len(m.stack)].pkg
    OBVIOUS
  <1>2. Entered(n) => Entered(n)'
    BY EnteredKept
  <1>3. m.stack # << >> /\ (\A j \in DOMAIN m.stack : \A q \in unread : q.name # m.stack[j].pkg)
            => Entered(n) \/ m.dep \in asked
    BY <1>1 DEF PathAsked, NoLeftover
  <1> QED
    BY <1>1, <1>2, <1>3 DEF PathAsked, NoLeftover

LEMMA ReportAsked ==
    ASSUME PlanInv, SourcesApart, FramesRead, ReportsDep, BuildDepMissing \/ RepoDepMissing,
           NEW r, r.dep = Current, r.stack = Path
    PROVE  PathAsked(r)
  <1>1. /\ stack # << >> /\ Top.todo # << >> /\ Len(stack) \in Nat \ {0}
        /\ DOMAIN stack = 1 .. Len(stack) /\ Top = stack[Len(stack)]
    BY AdvancedChain DEF ReportsDep, PlanInv
  <1>2. PICK path : path = Path
    OBVIOUS
  <1>3. /\ Len(path) = Len(stack) /\ DOMAIN path = DOMAIN stack
        /\ \A i \in DOMAIN stack : path[i].pkg = stack[i].pkg.name
    BY <1>1, <1>2 DEF Path
  <1>4. path[Len(path)].pkg = Top.pkg.name
    BY <1>1, <1>3
  <1>5. CASE RepoDepMissing
    <2>1. Entered(Top.pkg.name)
      BY <1>1, <1>5 DEF RepoDepMissing, Resolving, Entered, IsRepo
    <2> QED
      BY <1>2, <1>4, <2>1 DEF PathAsked
  <1>6. CASE BuildDepMissing
    <2> SUFFICES ASSUME \A j \in DOMAIN stack : NoLeftover(stack[j].pkg.name)
                 PROVE  Current \in asked
      BY <1>2, <1>3 DEF PathAsked, NoLeftover
    <2>1. /\ Top.pkg.src \in ToBuild /\ MustBuild(Current)
          /\ SelectSatisfierAurCache(Current, FALSE) = {}
      BY <1>6 DEF BuildDepMissing, Resolving
    <2>2. Len(stack) \in ReadFrames
      BY <1>1, <2>1 DEF ReadFrames, IsBuild
    <2>3. Collected(Top.pkg)
      BY <1>1, <2>2 DEF FramesRead, ReadPkgs
    <2> QED
      BY <1>1, <2>1, <2>3, CurrentAsked
  <1> QED
    BY <1>5, <1>6

LEMMA ReportMeans ==
    ASSUME ReportsDep
    PROVE  \E r : /\ missing' = Append(missing, r)
                  /\ r.repo = NoRepo /\ r.dep = Current /\ r.stack = Path
  <1>1. PICK r : r = [repo |-> NoRepo, dep |-> Current, stack |-> Path]
    OBVIOUS
  <1>2. r.repo = NoRepo /\ r.dep = Current /\ r.stack = Path
    BY <1>1
  <1> QED
    BY <1>1, <1>2 DEF ReportsDep

LEMMA NextPathsAsked ==
    ASSUME PlanInv, SourcesApart, FramesRead, PathsAsked, [Next]_vars, UNCHANGED filling
    PROVE  PathsAsked'
  <1>1. PathInv /\ asked' = asked /\ unread' = unread /\ missing \in Seq(Missing)
    BY DEF PlanInv, PathInv, TypeOK, filling
  <1>2. ASSUME NEW m \in Elements(missing') PROVE PathAsked(m)
    <2>1. CASE UNCHANGED missing
      BY <1>2, <2>1 DEF PathsAsked
    <2>2. CASE ReportsRequest
      <3>1. PICK r : missing' = Append(missing, r) /\ r.stack = << >>
        BY <2>2 DEF ReportsRequest
      <3>2. PathAsked(r)
        BY <3>1 DEF PathAsked
      <3>3. Elements(missing') = Elements(missing) \cup {r}
        BY <1>1, <3>1, AppendElements
      <3> QED
        BY <1>2, <3>2, <3>3 DEF PathsAsked
    <2>3. CASE ReportsDep /\ (BuildDepMissing \/ RepoDepMissing)
      <3>1. PICK r : missing' = Append(missing, r) /\ r.dep = Current /\ r.stack = Path
        BY <2>3, ReportMeans
      <3>2. PathAsked(r)
        BY <2>3, <3>1, ReportAsked
      <3>3. Elements(missing') = Elements(missing) \cup {r}
        BY <1>1, <3>1, AppendElements
      <3> QED
        BY <1>2, <3>2, <3>3 DEF PathsAsked
    <2> QED
      BY <1>1, <2>1, <2>2, <2>3, ReportKind
  <1>3. ASSUME NEW m \in Elements(missing') PROVE PathAsked(m)'
    BY <1>1, <1>2, <1>3, PathAskedKept
  <1> QED
    BY <1>3 DEF PathsAsked

LEMMA RequestsKept ==
    ASSUME PathInv, [Next]_vars
    PROVE  /\ world' = world /\ Requested' = Requested
           /\ \A t : InAur(t)' <=> InAur(t)
           /\ phase \notin {"split", "cache"} => cache' = cache /\ phase' \notin {"split", "cache"}
  <1>1. world' = world /\ Requested' = Requested
    BY WorldKept, ReadKept
  <1>2. \A t : InAur(t)' <=> InAur(t)
    BY <1>1 DEF InAur, WhereIsTarget, Flag
  <1>3. ASSUME phase \notin {"split", "cache"}
        PROVE  cache' = cache /\ phase' \notin {"split", "cache"}
    <2>1. UNCHANGED phase \/ PhaseMoves
      BY <1>3, PhaseKind DEF vars, control
    <2> QED
      BY <1>3, <2>1, CacheKind DEF PhaseMoves
  <1> QED
    BY <1>1, <1>2, <1>3

-----------------------------------------------------------------------------
(* What the resolution relies on came as an answer, where it had to.       *)

LEMMA LeftoversKnown ==
    ASSUME FillInv, PlanInv, RoundInv, phase \notin {"split", "cache"}
    PROVE  cache = fetched /\ unread \subseteq cache /\ cache \subseteq Elements(world.aur)
  BY DEF FillInv, FillTypeOK, PlanInv, CacheKnown, RoundInv, RoundShape

(* What is taken from the cache for a dependency that was heard of.        *)
LEMMA HeardSpared ==
    ASSUME NEW d, NEW target, NEW searched, Heard(d, searched), SearchedFor(target) => searched,
           cache = fetched, cache \subseteq Elements(world.aur),
           NEW f \in cache, Satisfies(f, d, NoVer), NEW p \in unread, p \in cache
    PROVE  Spared(p, d, target)
  <1> SUFFICES ASSUME Told(p, d, target) PROVE NotOnly(p, d)
    BY DEF Spared
  <1>1. p.name # d.name
    BY DEF Heard, Named
  <1>2. \E q \in fetched \ unread : Satisfies(q, d, NoVer)
    BY <1>1 DEF Told, Heard, Met
  <1> QED
    BY <1>2 DEF NotOnly

LEMMA OtherSpared ==
    ASSUME NEW d, NEW target, NEW p,
           \/ SatisfiedLocal(d)
           \/ \E q \in Elements(world.repos) \cup Elements(world.pkgbuilds) \cup (cache \ unread) :
                  q.name = p.name \/ Satisfies(q, d, NoVer)
    PROVE  Spared(p, d, target)
  BY DEF Spared, NotOnly

LEMMA TargetSpared ==
    ASSUME FillInv, PlanInv, RoundInv, RepoTarget \/ PkgbuildTarget \/ AurTarget, stack' # << >>,
           NEW f, NEW d, f = stack'[1].pkg, d = stack'[1].dep,
           NEW p \in unread, p.name = f.name
    PROVE  Spared(p, d, TRUE)
  <1>1. /\ phase \notin {"split", "cache", "failed"} /\ PathInv /\ world \in World
        /\ cache \in SUBSET PackageOf("aur")
    BY DEF RepoTarget, PkgbuildTarget, AurTarget, TargetingAur, Targeting, PlanInv, PathInv, TypeOK
  <1>2. cache = fetched /\ p \in cache /\ cache \subseteq Elements(world.aur)
    BY <1>1, LeftoversKnown
  <1>3. f \in Known
    <2>1. stack = << >>
      BY <1>1, TargetBrings
    <2>2. PICK g : OpensFor(g)
      BY <1>1, <2>1, TargetOpens
    <2>3. stack'[1] = g
      BY <2>2 DEF OpensFor
    <2> QED
      BY <2>2, <2>3 DEF OpensFor, Brought
  <1>4. CASE f.src = "repo"
    BY <1>1, <1>3, <1>4, KnownSource, OtherSpared
  <1>5. ASSUME NEW t \in Elements(targets.pkgbuild), f \in FindPkgbuildRepoDep(t.repo, t.pkg)
        PROVE  Spared(p, d, TRUE)
    BY <1>1, <1>5, PkgbuildLookup, OtherSpared
  <1>6. CASE f \in cache /\ d \in Elements(targets.aur) /\ Satisfies(f, d, NoVer)
    <2>1. Heard(d, TargetSearched)
      BY <1>1, <1>6 DEF RoundInv, RoundShape, RoundFacts, TargetsHeard, Awaited, TargetHeard
    <2>2. SearchedFor(TRUE) => TargetSearched
      BY DEF SearchedFor, TargetSearched, DepSearched
    <2> QED
      BY <1>2, <1>6, <2>1, <2>2, HeardSpared
  <1> QED
    BY <1>1, <1>4, <1>5, <1>6, TargetBrings

LEMMA DepSpared ==
    ASSUME FillInv, PlanInv, RoundInv, FramesRead, phase \notin {"split", "cache", "failed"},
           DepStep, NEW f, CallsFor(f), \A j \in DOMAIN stack : NoLeftover(stack[j].pkg.name),
           NEW p \in unread, p.name = f.pkg.name
    PROVE  Spared(p, f.dep, FALSE)
  <1>1. /\ PathInv /\ world \in World /\ cache \in SUBSET PackageOf("aur")
        /\ f.dep = Current /\ Current \in Dep /\ Satisfies(f.pkg, Current, NoVer) /\ f.pkg \in Known
        /\ stack # << >> /\ Top.todo # << >>
    BY TopType DEF PlanInv, PathInv, TypeOK, CallsFor, Brought
  <1>2. cache = fetched /\ p \in cache /\ cache \subseteq Elements(world.aur)
    BY LeftoversKnown
  <1>3. CASE f.pkg.src = "repo"
    BY <1>1, <1>3, KnownSource, OtherSpared
  <1>4. CASE f.pkg \in FindPkgbuildRepoDep(NoRepo, Current)
    BY <1>1, <1>4, PkgbuildLookup, OtherSpared
  <1>5. CASE Top.pkg.src \in ToBuild /\ MustBuild(Current) /\ f.pkg \in cache
    <2>1. Len(stack) \in ReadFrames /\ Top = stack[Len(stack)]
      <3>1. Len(stack) \in DOMAIN stack /\ Top = stack[Len(stack)]
        BY <1>1, AdvancedChain
      <3> QED
        BY <1>5, <3>1 DEF ReadFrames, IsBuild
    <2>2. Collected(Top.pkg)
      BY <2>1 DEF FramesRead, ReadPkgs
    <2>3. ~ Unknown(Current) /\ ~ AssumeInstalled(Current)
      BY <1>1, <1>5, <2>2, AdvancedChain DEF Collected, MustBuild, Done
    <2>4. CASE SatisfiedLocal(Current)
      BY <1>1, <2>4, OtherSpared
    <2>5. CASE FindRepoSatisfier(Current) # {}
      BY <1>1, <2>5, RepoLookup, OtherSpared
    <2>6. CASE FindPkgbuildRepoDep(NoRepo, Current) # {}
      BY <1>1, <2>6, PkgbuildLookup, OtherSpared
    <2>7. CASE Current \in asked /\ FindPkgbuildRepoDep(NoRepo, Current) = {}
      <3>1. Heard(Current, DepSearched)
        BY <2>7 DEF RoundInv, RoundShape, RoundFacts, DepsHeard, Awaited, DepHeard
      <3>2. SearchedFor(FALSE) => DepSearched
        BY DEF SearchedFor, DepSearched
      <3> QED
        BY <1>1, <1>2, <1>5, <3>1, <3>2, HeardSpared
    <2> QED
      BY <2>3, <2>4, <2>5, <2>6, <2>7 DEF Unknown
  <1> QED
    BY <1>1, <1>3, <1>4, <1>5, DepBrings

LEMMA SparedKept ==
    ASSUME PathInv, [Next]_vars, UNCHANGED filling, phase \notin {"split", "cache"}
    PROVE  \A p, d, target : Spared(p, d, target) => Spared(p, d, target)'
  <1>1. /\ world' = world /\ NoVer' = NoVer /\ cache' = cache /\ unread' = unread /\ lost' = lost
    BY WorldKept, ReadKept, RequestsKept DEF filling
  <1>2. \A p, d : NotOnly(p, d) => NotOnly(p, d)'
    BY <1>1, LocalKept DEF NotOnly
  <1>3. \A p, d, target : Told(p, d, target)' => Told(p, d, target)
    BY <1>1 DEF Told, SearchedFor, Flag
  <1> QED
    BY <1>2, <1>3 DEF Spared

LEMMA NextFramesSpared ==
    ASSUME FillInv, PlanInv, RoundInv, FramesRead, FramesSpared, [Next]_vars, UNCHANGED filling,
           phase \notin {"split", "cache"}
    PROVE  FramesSpared'
  <1>1. PathInv /\ Running /\ unread' = unread
    BY DEF PlanInv, filling
  <1>2. SUFFICES ASSUME NEW i \in DOMAIN stack',
                        \A j \in DOMAIN stack' : j < i => \A q \in unread : q.name # stack'[j].pkg.name,
                        NEW p \in unread, p.name = stack'[i].pkg.name
                 PROVE  Spared(p, stack'[i].dep, i = 1)
    <2>1. ASSUME NEW i \in DOMAIN stack', NEW p, NEW d, d = stack'[i].dep, Spared(p, d, i = 1)
          PROVE  Spared(p, stack[i].dep, i = 1)'
      <3>1. Spared(p, d, i = 1)'
        BY <2>1, SparedKept, <1>1
      <3> QED
        BY <2>1, <3>1 DEF Spared, Told, NotOnly
    <2> QED
      BY <1>1, <1>2, <2>1 DEF FramesSpared, NoLeftover
  <1>3. ASSUME i \in DOMAIN stack, stack'[i].pkg = stack[i].pkg, stack'[i].dep = stack[i].dep,
               \A j \in DOMAIN stack : j < i => j \in DOMAIN stack' /\ stack'[j].pkg = stack[j].pkg
        PROVE  Spared(p, stack'[i].dep, i = 1)
    BY <1>2, <1>3 DEF FramesSpared, NoLeftover
  <1>4. CASE UNCHANGED stack
    BY <1>2, <1>3, <1>4
  <1>5. CASE Steps
    BY <1>1, <1>2, <1>3, <1>5, SteppedFrames
  <1>6. CASE Finish /\ Pops
    <2>1. PICK n : /\ n \in Nat /\ DOMAIN stack' = DOMAIN stack \ {n} /\ DOMAIN stack \subseteq Nat
                   /\ \A k \in DOMAIN stack' : stack'[k] = stack[k] /\ k < n /\ k \in DOMAIN stack
      BY <1>1, <1>6, PoppedFrames DEF PathInv
    <2>2. \A j \in DOMAIN stack : j < i => j \in DOMAIN stack' /\ stack'[j].pkg = stack[j].pkg
      BY <1>2, <2>1
    <2> QED
      BY <1>2, <1>3, <2>1, <2>2
  <1>7. ASSUME NEW f, OpensFor(f) PROVE Spared(p, stack'[i].dep, i = 1)
    <2>1. stack = << >> /\ stack' # << >> /\ i = 1
      BY <1>2, <1>7 DEF OpensFor
    <2>2. RepoTarget \/ PkgbuildTarget \/ AurTarget
      BY <1>1, <2>1, RootKind
    <2>3. PICK g, d : g = stack'[1].pkg /\ d = stack'[1].dep
      OBVIOUS
    <2>4. Spared(p, d, TRUE)
      BY <1>2, <2>1, <2>2, <2>3, TargetSpared
    <2> QED
      BY <2>1, <2>3, <2>4
  <1>8. ASSUME NEW f, DepStep, CallsFor(f) PROVE Spared(p, stack'[i].dep, i = 1)
    <2>1. PICK n : /\ n > 1 /\ DOMAIN stack' = DOMAIN stack \cup {n} /\ stack'[n] = f
                   /\ \A j \in DOMAIN stack : /\ stack'[j].pkg = stack[j].pkg
                                              /\ stack'[j].dep = stack[j].dep /\ j < n
      BY <1>1, <1>8, CalledFrames
    <2>2. CASE i \in DOMAIN stack
      BY <1>3, <2>1, <2>2
    <2>3. CASE i = n
      <3>1. \A j \in DOMAIN stack : NoLeftover(stack[j].pkg.name)
        BY <1>2, <2>1, <2>3 DEF NoLeftover
      <3>2. phase # "failed"
        BY <1>1, <1>8 DEF Running, CallsFor
      <3>3. Spared(p, f.dep, FALSE)
        BY <1>2, <1>8, <2>1, <2>3, <3>1, <3>2, DepSpared
      <3>4. (i = 1) = FALSE
        BY <2>1, <2>3
      <3> QED
        BY <2>1, <2>3, <3>3, <3>4
    <2> QED
      BY <2>1, <2>2, <2>3
  <1> QED
    BY <1>1, <1>4, <1>5, <1>6, <1>7, <1>8, PathKind

LEMMA NextPathsSpared ==
    ASSUME PlanInv, SparedInv, [Next]_vars, UNCHANGED filling, phase \notin {"split", "cache"}
    PROVE  PathsSpared'
  <1>1. PathInv /\ unread' = unread /\ missing \in Seq(Missing)
    BY DEF PlanInv, PathInv, TypeOK, filling
  <1>2. ASSUME NEW m \in Elements(missing') PROVE PathSpared(m)
    <2>1. CASE UNCHANGED missing
      BY <1>2, <2>1 DEF SparedInv, PathsSpared
    <2>2. CASE ReportsRequest
      <3>1. PICK r : missing' = Append(missing, r) /\ r.stack = << >>
        BY <2>2 DEF ReportsRequest
      <3>2. PathSpared(r)
        BY <3>1 DEF PathSpared
      <3>3. Elements(missing') = Elements(missing) \cup {r}
        BY <1>1, <3>1, AppendElements
      <3> QED
        BY <1>2, <3>2, <3>3 DEF SparedInv, PathsSpared
    <2>3. CASE ReportsDep
      <3>1. PICK path : path = Path
        OBVIOUS
      <3>2. /\ DOMAIN path = DOMAIN stack
            /\ \A i \in DOMAIN stack : path[i].pkg = stack[i].pkg.name /\ path[i].dep = stack[i].dep
        BY <2>3, <3>1, AdvancedChain DEF ReportsDep, Path
      <3>3. PICK r : missing' = Append(missing, r) /\ r.stack = path
        BY <2>3, <3>1, ReportMeans
      <3>4. PathSpared(r)
        BY <3>2, <3>3 DEF SparedInv, FramesSpared, PathSpared
      <3>5. Elements(missing') = Elements(missing) \cup {r}
        BY <1>1, <3>3, AppendElements
      <3> QED
        BY <1>2, <3>4, <3>5 DEF SparedInv, PathsSpared
    <2> QED
      BY <1>1, <2>1, <2>2, <2>3, ReportKind
  <1>3. ASSUME NEW m \in Elements(missing') PROVE PathSpared(m)'
    BY <1>1, <1>2, <1>3, SparedKept DEF PathSpared, NoLeftover
  <1> QED
    BY <1>3 DEF PathsSpared

-----------------------------------------------------------------------------
(* Requests that are reported missing. *)

LEMMA RequestUnmetKept ==
    ASSUME PathInv, [Next]_vars, NEW m, RequestUnmet(m)
    PROVE  RequestUnmet(m)'
  <1>1. world' = world /\ NoVer' = NoVer
    BY RequestsKept, ReadKept
  <1> QED
    BY <1>1, RequestsKept DEF RequestUnmet, Flag

LEMMA NextRequestsUnmet ==
    ASSUME PlanInv, RequestsUnmet, [Next]_vars
    PROVE  RequestsUnmet'
  <1>1. /\ PathInv /\ missing \in Seq(Missing) /\ world \in World
        /\ cache \subseteq Elements(world.aur)
    BY DEF PlanInv, PathInv, TypeOK, CacheKnown
  <1>2. ASSUME NEW r, RequestUnmet(r), missing' = Append(missing, r)
        PROVE  \A m \in Elements(missing') : RequestUnmet(m)
    BY <1>1, <1>2, AppendElements DEF RequestsUnmet
  <1>3. ASSUME NEW m \in Elements(missing') PROVE RequestUnmet(m)
    <2>1. CASE UNCHANGED missing
      BY <1>3, <2>1 DEF RequestsUnmet
    <2>2. CASE SplitMissing
      <3>1. PICK r : missing' = Append(missing, r) /\ r.repo = Request.repo
        <4>1. PICK r : r = [repo |-> Request.repo, dep |-> Request.pkg, stack |-> << >>]
          OBVIOUS
        <4> QED
          BY <2>2, <4>1 DEF SplitMissing
      <3>2. Request.repo = NoRepo => world.is_target /\ ~ Flag("AUR")
        <4>1. ~ InAur(Request)
          BY <2>2 DEF SplitMissing
        <4>2. Request.repo = NoRepo => WhereIsTarget(Request) = "unspecified"
          <5>1. world.dbs \subseteq RepoName /\ world.pkgbuild_repos \subseteq RepoName
            BY <1>1 DEF World
          <5> QED
            BY <5>1, NoRepoAssumption DEF WhereIsTarget
        <4> QED
          BY <4>1, <4>2 DEF InAur
      <3>3. RequestUnmet(r)
        BY <3>1, <3>2 DEF RequestUnmet
      <3> QED
        BY <1>2, <1>3, <3>1, <3>3
    <2>3. CASE AurTargetMissing
      <3>1. PICK r : missing' = Append(missing, r) /\ r.dep = AurRequest
        <4>1. PICK r : r = [repo |-> NoRepo, dep |-> AurRequest, stack |-> Path]
          OBVIOUS
        <4> QED
          BY <2>3, <4>1 DEF AurTargetMissing
      <3>2. SelectSatisfierAurCache(AurRequest, world.is_target) = {} /\ phase = "aur"
        BY <2>3 DEF AurTargetMissing, TargetingAur, Targeting
      <3>3. RequestUnmet(r)
        BY <1>1, <3>1, <3>2, AurUnmet DEF RequestUnmet
      <3> QED
        BY <1>2, <1>3, <3>1, <3>3
    <2>4. CASE ReportsDep
      <3>1. PICK r : missing' = Append(missing, r) /\ r.stack = Path
        BY <2>4, ReportMeans
      <3>2. stack # << >> /\ Len(stack) \in Nat \ {0}
        BY <1>1, <2>4, AdvancedChain DEF ReportsDep
      <3>3. Path # << >>
        BY <3>2 DEF Path
      <3>4. RequestUnmet(r)
        BY <3>1, <3>3 DEF RequestUnmet
      <3> QED
        BY <1>2, <1>3, <3>1, <3>4
    <2> QED
      BY <1>1, <2>1, <2>2, <2>3, <2>4, ReportKind
  <1>4. ASSUME NEW m \in Elements(missing') PROVE RequestUnmet(m)'
    BY <1>1, <1>3, <1>4, RequestUnmetKept
  <1> QED
    BY <1>4 DEF RequestsUnmet

LEMMA NextAurAllowed ==
    ASSUME PathInv, AurAllowed, [Next]_vars
    PROVE  AurAllowed'
  <1>1. world' = world /\ TypeOK
    BY WorldKept DEF PathInv
  <1>2. CASE SplitAur
    BY <1>1, <1>2 DEF SplitAur, InAur, AurAllowed, Flag
  <1>3. CASE SplitRepo \/ SplitGroup \/ SplitPkgbuild
    BY <1>1, <1>3, SplitFiles DEF AurAllowed, Flag
  <1>4. CASE ~ SplitRepo /\ ~ SplitGroup /\ ~ SplitPkgbuild /\ ~ SplitAur
    <2>1. UNCHANGED targets
      <3>1. CASE Split
        BY <1>4, <3>1 DEF Split, SplitAssumed, SplitMissing, SplitDone, Splitting, Enter
      <3>2. CASE Target
        BY <3>2 DEF Target, RepoTargetsDone, PkgbuildTargetsDone, AurTargetsDone, Enter,
           RepoTargetSkipped, RepoTargetUnneeded, RepoTarget, PkgbuildTargetSkipped,
           PkgbuildTargetUnneeded, PkgbuildTarget, AurTargetSkipped, AurTargetMissing,
           AurTargetUnneeded, AurTarget, Targeting, TargetingAur
      <3>3. CASE Recurse
        BY <3>3 DEF Recurse, BuildDepDone, BuildDepInstalled, BuildDepFromRepo, BuildDepFromPkgbuild,
           BuildDepFromAur, BuildDepMissing, FinishBuild, RepoDepSatisfied, RepoDepFromRepo,
           RepoDepMissing, FinishRepo, Resolving, control
      <3>4. CASE FillCache \/ FailCache \/ CalculateMake \/ KeepMake \/ Returned \/ UNCHANGED vars
        BY <3>4 DEF FillCache, FailCache, CalculateMake, KeepMake, Returned, Enter, vars, control
      <3> QED
        BY <3>1, <3>2, <3>3, <3>4 DEF Next
    <2> QED
      BY <1>1, <2>1 DEF AurAllowed, Flag
  <1> QED
    BY <1>2, <1>3, <1>4

LEMMA HeardFirst == FullFresh => HeardInv
  BY DEF FullFresh, Fresh, HeardInv, RequestsUnmet, AurAllowed, FramesRead, ReadPkgs, ReadFrames,
         PathsAsked, SparedInv, FramesSpared, PathsSpared, Elements

(* Before the targets are resolved there is nothing on the stack, and only *)
(* requests are reported.                                                  *)
LEMMA NotBegun ==
    ASSUME PlanInv, [Next]_vars, phase \in {"split", "cache"}
    PROVE  FramesRead' /\ PathsAsked' /\ SparedInv'
  <1>1. PathInv /\ stack = << >> /\ missing \in Seq(Missing) /\ \A m \in Elements(missing) : m.stack = << >>
    BY DEF PlanInv, PathInv, TypeOK, Running
  <1>2. stack' = << >>
    <2>1. ~ RepoTarget /\ ~ PkgbuildTarget /\ ~ AurTarget
      BY DEF RepoTarget, PkgbuildTarget, AurTarget, TargetingAur, Targeting
    <2> QED
      BY <1>1, <2>1, RootKind
  <1>3. FramesRead'
    <2>1. ReadPkgs' = {}
      BY <1>2 DEF ReadPkgs, ReadFrames
    <2> QED
      BY <2>1 DEF FramesRead
  <1>4. \A m \in Elements(missing') : m.stack = << >>
    <2>1. CASE UNCHANGED missing
      BY <1>1, <2>1
    <2>2. CASE ReportsRequest
      <3>1. PICK r : missing' = Append(missing, r) /\ r.stack = << >>
        BY <2>2 DEF ReportsRequest
      <3> QED
        BY <1>1, <3>1, AppendElements
    <2> QED
      BY <1>1, <2>1, <2>2, ReportKind DEF ReportsDep
  <1>5. PathsAsked'
    BY <1>4 DEF PathsAsked, PathAsked
  <1>6. FramesSpared' /\ PathsSpared'
    BY <1>2, <1>4 DEF FramesSpared, PathsSpared, PathSpared
  <1> QED
    BY <1>3, <1>5, <1>6 DEF SparedInv

(* A step of a round leaves the stack and the report as they are, and asks *)
(* for more.                                                               *)
LEMMA HeardKept == FillInv /\ PlanInv /\ RoundInv /\ HeardInv /\ [FullNext]_fullvars => HeardInv'
  <1> SUFFICES ASSUME FillInv, PlanInv, RoundInv, HeardInv, [FullNext]_fullvars PROVE HeardInv'
    OBVIOUS
  <1>1. [Next]_vars /\ world' = world /\ PathInv /\ TypeOK
    BY FullSteps DEF FillInv, PlanInv
  <1>2. RequestsUnmet' /\ AurAllowed'
    BY <1>1, NextRequestsUnmet, NextAurAllowed DEF HeardInv
  <1>3. CASE phase \in {"split", "cache"}
    BY <1>1, <1>2, <1>3, NotBegun DEF HeardInv
  <1>4. CASE phase \notin {"split", "cache"}
    <2>1. UNCHANGED filling /\ targets' = targets
      BY <1>1, <1>4, TargetsGrow
         DEF FullNext, fullvars, Fill, Begin, Walk, Ask, Info, Provides, RequestFailed, NextRound, Filled,
             Enter
    <2>2. SourcesApart' <=> SourcesApart
      <3>1. \A d : TargetAnswers(d)' <=> TargetAnswers(d)
        BY <1>1, <2>1, ReadKept DEF TargetAnswers
      <3>2. \A p, d : SamePkgbuild(p, d)' <=> SamePkgbuild(p, d)
        BY <1>1 DEF SamePkgbuild, InBase, PkgbuildDepInBase, NoVer, Flag
      <3> QED
        BY <1>1, <3>1, <3>2, WorldReads, ReadKept, LocalKept DEF SourcesApart
    <2>3. SourcesApart => FramesRead' /\ PathsAsked' /\ SparedInv'
      BY <1>1, <1>4, <2>1, NextFramesRead, NextPathsAsked, NextFramesSpared, NextPathsSpared
         DEF HeardInv, SparedInv
    <2> QED
      BY <1>2, <2>2, <2>3 DEF HeardInv
  <1> QED
    BY <1>3, <1>4

LEMMA DoneHeard == UnmetInv /\ RoundInv /\ HeardInv => NothingOverlooked
  <1> SUFFICES ASSUME UnmetInv, RoundInv, HeardInv, phase = "done", SourcesApart,
                      NEW m \in WantedOfAur, NEW p \in Elements(world.aur), Overlooked(m, p)
               PROVE  FALSE
    BY DEF NothingOverlooked
  <1>1. /\ stack = << >> /\ world \in World /\ m \in Elements(missing)
        /\ at = "end" /\ cache = fetched /\ RoundFacts
        /\ RequestUnmet(m) /\ PathAsked(m) /\ AurAllowed
    BY DEF UnmetInv, PlanInv, PathInv, TypeOK, Running, RoundInv, RoundShape, HeardInv, WantedOfAur,
           RequestsUnmet, PathsAsked
  <1>2. /\ Satisfies(p, m.dep, NoVer)
        /\ p.name = m.dep.name \/ (SearchedFor(m.stack = << >>) /\ m.dep.name \notin lost)
        /\ \A i \in DOMAIN m.stack : NoLeftover(m.stack[i].pkg)
    BY DEF Overlooked, Told, NoLeftover
  <1>3. ASSUME NEW searched \in BOOLEAN, SearchedFor(m.stack = << >>) => searched, Heard(m.dep, searched)
        PROVE  \E q \in cache : Satisfies(q, m.dep, NoVer)
    BY <1>1, <1>2, <1>3 DEF Heard, Named, Met
  <1>4. CASE m.stack = << >>
    <2>1. m.repo = NoRepo /\ m.dep \in Elements(targets.aur)
      BY <1>4 DEF WantedOfAur
    <2>2. \A q \in cache : ~ Satisfies(q, m.dep, NoVer)
      BY <1>1, <1>4, <2>1 DEF RequestUnmet, AurAllowed
    <2>3. Heard(m.dep, TargetSearched)
      BY <1>1, <2>1 DEF RoundFacts, TargetsHeard, Awaited, TargetHeard
    <2>4. SearchedFor(m.stack = << >>) => TargetSearched
      BY DEF SearchedFor, TargetSearched, DepSearched
    <2>5. TargetSearched \in BOOLEAN
      BY DEF TargetSearched, DepSearched, Flag
    <2> QED
      BY <1>3, <2>2, <2>3, <2>4, <2>5
  <1>5. CASE m.stack # << >>
    <2>1. PICK n : n = m.stack[Len(m.stack)].pkg
      OBVIOUS
    <2>2. ~ Entered(n)
      BY <1>1, <1>5, <2>1 DEF WantedOfAur, Entered, InstallPkgs
    <2>3. \A q \in ToBuildPkgs : ~ Satisfies(q, m.dep, NoVer)
      BY <1>1, <1>5, <2>1, <2>2 DEF UnmetInv, ReportsUnmet, Unmet
    <2>4. FindPkgbuildRepoDep(NoRepo, m.dep) = {}
      BY <1>1, <2>3, PkgbuildLookup DEF ToBuildPkgs
    <2>5. m.dep \in asked
      BY <1>1, <1>2, <1>5, <2>1, <2>2 DEF PathAsked
    <2>6. Heard(m.dep, DepSearched)
      BY <1>1, <2>4, <2>5 DEF RoundFacts, DepsHeard, Awaited, DepHeard
    <2>7. SearchedFor(m.stack = << >>) => DepSearched
      BY <1>5 DEF SearchedFor, DepSearched
    <2>8. DepSearched \in BOOLEAN
      BY DEF DepSearched, Flag
    <2> QED
      BY <1>3, <2>3, <2>6, <2>7, <2>8 DEF ToBuildPkgs
  <1> QED
    BY <1>4, <1>5

LEMMA DoneSpared == PlanInv /\ HeardInv => OnlyChoiceRead
  <1> SUFFICES ASSUME PlanInv, HeardInv, SourcesApart, NEW m \in Elements(missing),
                      NEW i \in DOMAIN m.stack, NEW p \in unread, p.name = m.stack[i].pkg,
                      \A j \in 1 .. i - 1 : \A q \in unread : q.name # m.stack[j].pkg,
                      Told(p, m.stack[i].dep, i = 1)
               PROVE  NotOnly(p, m.stack[i].dep)
    BY DEF OnlyChoiceRead
  <1>1. m \in Missing /\ PathSpared(m)
    BY ElementsType DEF HeardInv, SparedInv, PathsSpared, PlanInv, PathInv, TypeOK
  <1>2. \A j \in DOMAIN m.stack : j < i => j \in 1 .. i - 1
    BY <1>1 DEF Missing
  <1>3. Spared(p, m.stack[i].dep, i = 1)
    BY <1>1, <1>2 DEF PathSpared, NoLeftover
  <1> QED
    BY <1>3 DEF Spared

(* Everything that is kept, with the rounds in place. *)
FullInv == ResolutionInv /\ FillInv /\ RoundInv /\ HeardInv

LEMMA FreshFull == FullFresh => FullInv
  BY InitResolution, FillTypeFirst, RoundFirst, HeardFirst DEF FullFresh, FullInv

LEMMA NextFull == FullInv /\ [FullNext]_fullvars => FullInv'
  <1> SUFFICES ASSUME FullInv, [FullNext]_fullvars PROVE FullInv'
    OBVIOUS
  <1>1. [Next]_vars /\ PlanInv /\ UnmetInv
    BY FullSteps DEF FullInv, FillInv, ResolutionInv, UnmetInv
  <1> QED
    BY <1>1, NextResolution, FillTypeKept, RoundKept, HeardKept DEF FullInv

LEMMA FullOverlooks == FullInv => NothingOverlooked
  BY DoneHeard DEF FullInv, ResolutionInv, UnmetInv

LEMMA FullSpared == FullInv => OnlyChoiceRead
  BY DoneSpared DEF FullInv, ResolutionInv, UnmetInv

(* Whatever the resolution reports missing the AUR has not, for every      *)
(* world whose sources are apart, whatever the requests bring and          *)
(* whichever searches fail: the rounds ask for enough, although they       *)
(* decide what to ask for before it is known which packages are chosen.    *)
THEOREM NothingLeftOut == FullSpec => []NothingOverlooked
  BY FullInitFresh, FreshFull, NextFull, FullOverlooks, PTL DEF FullSpec

(* A package that was in the cache before, or came there in vain, is below *)
(* a missing dependency only where it could have been avoided, or where no *)
(* search told of it: whatever the caller's cache holds.                   *)
THEOREM LeftoversAvoidable == FullSpec => []OnlyChoiceRead
  BY FullInitFresh, FreshFull, NextFull, FullSpared, PTL DEF FullSpec
=============================================================================
