---------------------------- MODULE AurRequests ----------------------------
(***************************************************************************)
(* Filling the AUR cache (resolve.rs 860-1114), in place of the one step   *)
(* FillCache of Resolver: rounds of requests, each for the dependencies    *)
(* the round before came across, until a round comes across no new one.    *)
(* A step ends where the code waits for an answer.                         *)
(*                                                                         *)
(* Sets stand for the vectors of names and packages: the code sorts them,  *)
(* removes duplicates, or only ever asks what is in them.                  *)
(***************************************************************************)
EXTENDS ResolverProperties

VARIABLES
    at,        \* where the round is
    first,     \* it is the round of the targets: cache_aur_pkgs' `target`
    walks,     \* the PKGBUILDs whose dependencies are still to be collected
    wanted,    \* the dependencies the round asks the AUR for
    found,     \* the packages it has got for them
    asked,     \* Resolver::resolved, which serves this phase, too
    fetched,   \* Resolver::cache during this phase
    lost,      \* history: names whose providers nobody was told of
    unread     \* history: packages in the cache that no round has got for an answer

filling  == <<at, first, walks, wanted, found, asked, fetched, lost, unread>>
fullvars == <<vars, filling>>

AurPackages == PackageOf("aur")

(* What a round works on is in the cache: no package comes back from a     *)
(* request that the resolution would not find again.                       *)
FillTypeOK ==
    /\ at \in {"begin", "collect", "info", "provides", "scan", "end"}
    /\ first \in BOOLEAN
    /\ walks \in SUBSET Targ
    /\ wanted \in SUBSET Dep /\ asked \in SUBSET Dep
    /\ fetched \in SUBSET AurPackages
    /\ found \in SUBSET fetched
    /\ lost \in SUBSET Name
    /\ unread \in SUBSET fetched

FullInit ==
    /\ Init
    /\ at = "begin" /\ first = TRUE /\ walks = {} /\ wanted = {} /\ found = {}
    /\ asked = {} /\ fetched = cache /\ lost = {} /\ unread = cache

-----------------------------------------------------------------------------
(* What there is to ask. *)

ToWalk(ds) == { d \in ds : FindPkgbuildRepoDep(NoRepo, d) # {} }

Walked(ds) == { [repo |-> NoRepo, pkg |-> d] : d \in ToWalk(ds) }

(* Fault: it does not matter what has been asked for.                      *)
UnknownAgain(d) ==
    /\ FindRepoSatisfier(d) = {}
    /\ ~ IF Flag("RESOLVE_SATISFIED_PKGBUILDS") THEN AssumeInstalled(d) ELSE SatisfiedLocal(d)

(* Nobody has d: it has not been asked for, no sync database has it, and   *)
(* it is not installed, or that does not count.                            *)
Unknown(d) ==
    /\ d \notin asked
    /\ FindRepoSatisfier(d) = {}
    /\ ~ IF Flag("RESOLVE_SATISFIED_PKGBUILDS") THEN AssumeInstalled(d) ELSE SatisfiedLocal(d)

DepsOf(pkgs) == { d \in UNION { Elements(Depends(p)) : p \in pkgs } : Unknown(d) }

Begin ==
    /\ phase = "cache" /\ at = "begin" /\ at' = "collect"
    /\ walks' = Elements(targets.pkgbuild) /\ wanted' = Elements(targets.aur)
    /\ UNCHANGED <<vars, first, found, asked, fetched, lost, unread>>

(* One call of find_aur_deps_of_pkgbuild: the calls it makes are walks to  *)
(* come, in any order.                                                     *)
Walk ==
    /\ phase = "cache" /\ at = "collect"
    /\ \E t \in walks :
       LET new == DepsOf(FindPkgbuildRepoDep(t.repo, t.pkg))
       IN  /\ walks'  = (walks \ {t}) \cup Walked(new)
           /\ wanted' = wanted \cup (new \ ToWalk(new))
           /\ asked'  = asked \cup new
    /\ UNCHANGED <<vars, at, first, found, fetched, lost, unread>>

-----------------------------------------------------------------------------
(* One round of requests (cache_aur_pkgs and cache_provides). *)

SearchAll == Flag("PROVIDES") \/ (first /\ Flag("TARGET_PROVIDES"))

Ask ==
    /\ phase = "cache" /\ at = "collect" /\ walks = {} /\ wanted # {}
    /\ at' = IF SearchAll THEN "provides" ELSE "info"
    /\ UNCHANGED <<vars, first, walks, wanted, found, asked, fetched, lost, unread>>

(* raur's cache_info: what the AUR has under these names, into the cache.  *)
Named(names) == { p \in Elements(world.aur) : p.name \in names }

Met(d, pkgs) == \E p \in pkgs : Satisfies(p, d, NoVer)

(* Fault: the answer is used, but not cached.                              *)
InfoUncached ==
    LET answer == Named({ d.name : d \in wanted })
    IN
    /\ phase = "cache" /\ at = "info" /\ at' = "scan" /\ found' = answer
    /\ UNCHANGED <<vars, first, walks, wanted, asked, fetched, lost, unread>>

(* Fault: what is cached already is not part of the answer.                *)
InfoNew ==
    LET answer == Named({ d.name : d \in wanted })
        search == Flag("MISSING_PROVIDES") /\ \E d \in wanted : ~ Met(d, answer)
    IN
    /\ phase = "cache" /\ at = "info"
    /\ at' = IF search THEN "provides" ELSE "scan"
    /\ found' = answer \ fetched /\ fetched' = fetched \cup answer
    /\ unread' = unread \ found'
    /\ UNCHANGED <<vars, first, walks, wanted, asked, lost>>

Info ==
    LET answer == Named({ d.name : d \in wanted })
        search == Flag("MISSING_PROVIDES") /\ \E d \in wanted : ~ Met(d, answer)
    IN
    /\ phase = "cache" /\ at = "info"
    /\ at' = IF search THEN "provides" ELSE "scan"
    /\ found' = answer /\ fetched' = fetched \cup answer /\ unread' = unread \ answer
    /\ UNCHANGED <<vars, first, walks, wanted, asked, lost>>

(* What to search providers of: everything, without versions, or what the  *)
(* AUR has no package of that name for.                                    *)
Lookup == IF SearchAll THEN { AnyVersion(d) : d \in wanted }
                       ELSE { d \in wanted : ~ Met(d, found) }

(* The AUR's search by what packages provide. *)
ProvidersOf(n) ==
    { p.name : p \in { q \in Elements(world.aur) :
                          q.name = n \/ \E v \in q.provides : v.name = n } }

(* Fault: versioned dependencies are not searched for.                     *)
ProvidesUnversioned ==
    LET names    == { d.name : d \in { x \in Lookup : x.mod = "any" } }
        searched == { n \in names : ~ InstalledName(n) }
        answer   == Named(names \cup UNION { ProvidersOf(n) : n \in searched })
    IN
    /\ phase = "cache" /\ at = "provides" /\ at' = "scan"
    /\ fetched' = fetched \cup answer /\ found' = found \cup answer
    /\ lost' = lost \cup (names \ searched) /\ unread' = unread \ found'
    /\ UNCHANGED <<vars, first, walks, wanted, asked>>

(* A failed search finds nothing; for an installed name there is none.     *)
Provides ==
    LET names    == { d.name : d \in Lookup }
        searched == { n \in names : ~ InstalledName(n) }
        plain    == { d.name : d \in { x \in Lookup : x.mod = "any" } }
    IN
    /\ phase = "cache" /\ at = "provides" /\ at' = "scan"
    /\ \E failed \in SUBSET searched :
       LET answer == Named(plain \cup UNION { ProvidersOf(n) : n \in searched \ failed })
       IN  /\ fetched' = fetched \cup answer
           /\ found' = found \cup { p \in answer : \E d \in Lookup : Satisfies(p, d, NoVer) }
           /\ lost' = lost \cup (names \ searched) \cup failed
           /\ unread' = (unread \cup (answer \ fetched)) \ found'
    /\ UNCHANGED <<vars, first, walks, wanted, asked>>

(* A failed request for packages, in contrast, ends the resolution.        *)
RequestFailed ==
    /\ at \in {"info", "provides"} /\ at' = "end"
    /\ Enter("cache", "failed", 0) /\ cache' = fetched
    /\ UNCHANGED <<build, install, first, walks, wanted, found, asked, fetched, lost, unread>>

-----------------------------------------------------------------------------
(* The dependencies of what came back, and from round to round             *)
(* (cache_aur_pkgs_recursive2 and cache_aur_pkgs_recursive).               *)

NextRound ==
    LET new == DepsOf(found)
    IN
    /\ phase = "cache" /\ at = "scan" /\ at' = "collect" /\ new # {}
    /\ asked' = asked \cup new
    /\ walks' = Walked(new) /\ wanted' = new \ ToWalk(new)
    /\ first' = FALSE /\ found' = {}
    /\ UNCHANGED <<vars, fetched, lost, unread>>

(* Fault: the cache of the caller is replaced.                             *)
FilledAnew ==
    /\ \/ at = "collect" /\ walks = {} /\ wanted = {}
       \/ at = "scan" /\ DepsOf(found) = {}
    /\ at' = "end"
    /\ Enter("cache", "repo", 0) /\ cache' = fetched \ cache
    /\ UNCHANGED <<build, install, first, walks, wanted, found, asked, fetched, lost, unread>>

(* `resolved` is cleared here; asked keeps what it held.                   *)
Filled ==
    /\ \/ at = "collect" /\ walks = {} /\ wanted = {}
       \/ at = "scan" /\ DepsOf(found) = {}
    /\ at' = "end"
    /\ Enter("cache", "repo", 0) /\ cache' = fetched
    /\ UNCHANGED <<build, install, first, walks, wanted, found, asked, fetched, lost, unread>>

Fill == Begin \/ Walk \/ Ask \/ Info \/ Provides \/ RequestFailed \/ NextRound \/ Filled

FullNext == \/ Fill
            \/ phase # "cache" /\ Next /\ UNCHANGED filling

(* One task; every request is answered or fails.                           *)
FullSpec == FullInit /\ [][FullNext]_fullvars /\ WF_fullvars(FullNext)

(* Filling the cache by rounds is Resolver's one step FillCache, or         *)
(* FailCache: every safety property of a resolution carries over.           *)
Resolution == Init /\ [][Next]_vars

-----------------------------------------------------------------------------
(* What filling the cache promises to the resolution.                      *)

SearchedFor(target) ==
    \/ Flag("PROVIDES") \/ Flag("MISSING_PROVIDES")
    \/ target /\ Flag("TARGET_PROVIDES")

(* The AUR was heard of p for d: by its name, or by a search.              *)
Told(p, d, target) == p.name = d.name \/ (SearchedFor(target) /\ d.name \notin lost)

(* The missing dependencies somebody would have looked for in the AUR: not *)
(* core/x for x in the AUR, and not what a repo package needs.             *)
WantedOfAur ==
    { m \in Elements(missing) :
        IF m.stack = << >>
        THEN m.repo = NoRepo /\ m.dep \in Elements(targets.aur)
        ELSE \A e \in Elements(install) : e.pkg.name # m.stack[Len(m.stack)].pkg }

(* p answers m's dependency, by its name or by what a search would have    *)
(* told, and every package of m's path came as an answer: none was in the  *)
(* caller's cache, or brought there by a search that asked for another     *)
(* version than it provides.                                               *)
Overlooked(m, p) ==
    /\ Satisfies(p, m.dep, NoVer)
    /\ Told(p, m.dep, m.stack = << >>)
    /\ \A i \in DOMAIN m.stack : \A q \in unread : q.name # m.stack[i].pkg

(* What an AUR target is asked for may be taken for d.                     *)
TargetAnswers(d) ==
    \E p \in Elements(world.aur) : /\ Satisfies(p, d, NoVer)
                                   /\ \E t \in Elements(targets.aur) : Satisfies(p, t, NoVer)

(* A dependency that its own base builds, or a PKGBUILD because an AUR     *)
(* target answers it as well, is in no other place: the resolution does    *)
(* not look there, the rounds do.                                          *)
SourcesApart ==
    \A p \in Elements(world.pkgbuilds) \cup Elements(world.aur) : \A d \in Elements(Depends(p)) :
        \/ SamePkgbuild(p, d)
        \/ FindPkgbuildRepoDep(NoRepo, d) # {} /\ TargetAnswers(d)
        => ~ SatisfiedLocal(d) /\ FindRepoSatisfier(d) = {}

(* Whatever the resolution reports missing the AUR has not: the rounds of  *)
(* requests decide which dependencies to ask for before it is known which  *)
(* packages are chosen, and nothing the resolution then needs was left     *)
(* out.                                                                    *)
NothingOverlooked ==
    phase = "done" /\ SourcesApart =>
        \A m \in WantedOfAur : \A p \in Elements(world.aur) : ~ Overlooked(m, p)

(* Something else could have been taken for d, or is called like p.        *)
NotOnly(p, d) ==
    \/ SatisfiedLocal(d)
    \/ \E q \in Elements(world.repos) \cup Elements(world.pkgbuilds) \cup (cache \ unread) :
           q.name = p.name \/ Satisfies(q, d, NoVer)

(* What was in the cache already, or came there with a search for another  *)
(* version, is not relied on without need: if a dependency is missing      *)
(* below packages that came as no answer, the first of them on its path    *)
(* was not the only one for what it was taken for, or the AUR was not      *)
(* heard of it for that.                                                   *)
OnlyChoiceRead ==
    phase = "done" /\ SourcesApart =>
        \A m \in Elements(missing) : \A i \in DOMAIN m.stack : \A p \in unread :
            /\ p.name = m.stack[i].pkg
            /\ \A j \in 1 .. i - 1 : \A q \in unread : q.name # m.stack[j].pkg
            /\ Told(p, m.stack[i].dep, i = 1)
            => NotOnly(p, m.stack[i].dep)

(* actions.rs 17-18: what is missing could not be satisfied, also when a   *)
(* package of the same base is installed.                                  *)
MissingUnsatisfiable ==
    phase = "done" => \A m \in WantedOfAur : \A p \in Elements(world.aur) : ~ Overlooked(m, p)
=============================================================================
