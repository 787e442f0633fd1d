------------------------------ MODULE Updates ------------------------------
(***************************************************************************)
(* A session with a Resolver: updates() finds what is out of date          *)
(* (upgrade.rs), the caller asks for the updates it wants as targets, and  *)
(* the resolution goes on with the cache that updates() has filled.  A     *)
(* caller that comes with targets of its own does not ask for updates.     *)
(***************************************************************************)
EXTENDS AurRequests, Conflicts
Seqs == INSTANCE SequencesExt

CONSTANT Queries    \* what updates() is asked for

Query == [ chosen  : BOOLEAN,            \* are databases chosen (Some), or not (None)
           dbs     : SUBSET RepoName,    \* the chosen databases
           ignored : SUBSET Name ]       \* alpm's IgnorePkg and IgnoreGroup

NoQuery == [chosen |-> FALSE, dbs |-> {}, ignored |-> {}]

ASSUME QueriesAssumption == Queries \subseteq Query

(* The local database has a name once. *)
ASSUME LocalAssumption == \A w \in Worlds : \A p, q \in w.local : p.name = q.name => p = q

(* The cache has a name once: packages of the AUR are told apart by name.  *)
ASSUME AurAssumption == \A w \in Worlds : \A p, q \in Elements(w.aur) : p.name = q.name => p = q

VARIABLES
    query,
    stage,     \* where the session is
    updates    \* what updates() returned

session     == <<query, stage, updates>>
sessionvars == <<fullvars, session>>

Update == [local : Package, remote : Package]

NoUpdates == [found |-> {}, ignored |-> {}, missing |-> {}]

SessionTypeOK ==
    /\ query \in Query
    /\ stage \in {"check", "ask", "resolve", "failed"}
    /\ updates \in [found : SUBSET Update, ignored : SUBSET Update, missing : SUBSET Package]
    /\ \A u \in updates.found \cup updates.ignored :
           u.local.name = u.remote.name /\ u.remote.src \in ToBuild
           /\ (u.remote.src = "aur" => u.remote \in fetched)

SessionInit ==
    /\ FullInit
    /\ query \in IF world.deps = << >> THEN Queries ELSE {NoQuery}
    /\ stage = IF world.deps = << >> THEN "check" ELSE "resolve"
    /\ updates = NoUpdates

-----------------------------------------------------------------------------
(* updates(). *)

(* What may need an update: what no sync database has, or, oddly named     *)
(* `local` in the code, the packages of the chosen sync databases.         *)
UpdateTargs(system) ==
    IF query.chosen THEN { p \in Elements(world.repos) : p.repo \in query.dbs }
    ELSE { q \in system : \A p \in Elements(world.repos) : p.name # q.name }

FindPkgbuild(n) == LET Is(p) == p.name = n IN First(world.pkgbuilds, Is)

IsPkgbuild(n) == FindPkgbuild(n) # {}

AurTargs(system)      == { q \in UpdateTargs(system) : Flag("AUR") /\ ~ IsPkgbuild(q.name) }
PkgbuildTargs(system) == { q \in UpdateTargs(system) : Flag("PKGBUILDS") /\ IsPkgbuild(q.name) }

(* Fault: an equal version is an update.                                   *)
ShouldUpgradeSame(local, remote) == remote.ver >= local.ver

(* Fault: any other version is an update, whatever the flags say.          *)
ShouldUpgradeOther(local, remote) == remote.ver # local.ver

ShouldUpgrade(local, remote) ==
    IF Flag("ENABLE_DOWNGRADE") THEN remote.ver # local.ver ELSE remote.ver > local.ver

AurInfo(system) == Named({ q.name : q \in AurTargs(system) })

(* The updates of a system, with the packages cached.                      *)
UpdatesOf(system, cached) ==
    LET remotes(q) == IF q \in PkgbuildTargs(system) THEN FindPkgbuild(q.name)
                      ELSE { p \in cached : p.name = q.name }
        known      == PkgbuildTargs(system) \cup AurTargs(system)
        outdated   == UNION { { [local |-> q, remote |-> p] :
                                p \in { r \in remotes(q) : ShouldUpgrade(q, r) } } : q \in known }
    IN  [ found   |-> { u \in outdated : u.local.name \notin query.ignored },
          ignored |-> { u \in outdated : u.local.name \in query.ignored },
          missing |-> { q \in AurTargs(system) : remotes(q) = {} } ]

(* Fault: what the AUR answers is used, but not cached.                    *)
CheckUpdatesUncached ==
    /\ stage = "check" /\ stage' = "ask"
    /\ updates' = UpdatesOf(world.local, cache \cup AurInfo(world.local))
    /\ UNCHANGED <<fullvars, query>>

CheckUpdates ==
    /\ stage = "check" /\ stage' = "ask"
    /\ cache' = cache \cup AurInfo(world.local) /\ fetched' = cache' /\ unread' = cache'
    /\ updates' = UpdatesOf(world.local, cache')
    /\ UNCHANGED <<world, control, marks, stack, missing, unneeded, build, install, query,
                   at, first, walks, wanted, found, asked, lost>>

UpdatesFailed ==
    /\ stage = "check" /\ stage' = "failed"
    /\ UNCHANGED <<fullvars, query, updates>>

(* The caller: resolve_targets for the updates, in any order, each with    *)
(* the place it was found in.                                              *)
TargetOf(u) ==
    [ repo |-> IF u.remote.src = "aur" THEN world.aur_namespace ELSE u.remote.repo,
      pkg  |-> [name |-> u.local.name, mod |-> "any", ver |-> 0] ]

ResolveUpdates ==
    /\ stage = "ask" /\ stage' = "resolve"
    /\ \E ts \in Seqs!SetToSeqs({ TargetOf(u) : u \in updates.found }) :
           world' = [world EXCEPT !.deps = ts, !.make_deps = << >>, !.is_target = TRUE]
    /\ UNCHANGED <<cache, control, marks, stack, missing, unneeded, build, install,
                   filling, query, updates>>

Resolve == stage = "resolve" /\ FullNext /\ UNCHANGED session

(* The caller again, after an RPC error: a new Resolver, the old cache.    *)
Retry ==
    /\ stage = "resolve" /\ phase = "failed"
    /\ phase' = "split" /\ next' = 1
    /\ targets' = [repo |-> << >>, pkgbuild |-> << >>, aur |-> << >>]
    /\ seen' = {} /\ seen_target' = {} /\ resolved' = {}
    /\ missing' = << >> /\ unneeded' = << >>
    /\ at' = "begin" /\ first' = TRUE
    /\ walks' = {} /\ wanted' = {} /\ found' = {} /\ asked' = {} /\ lost' = {}
    /\ unread' = fetched
    /\ UNCHANGED <<inputs, stack, build, install, fetched, session>>

GivenUp == stage = "failed" /\ UNCHANGED sessionvars

SessionNext == CheckUpdates \/ UpdatesFailed \/ ResolveUpdates \/ Resolve \/ Retry \/ GivenUp

SessionSpec == SessionInit /\ [][SessionNext]_sessionvars

-----------------------------------------------------------------------------
(* What the session promises. *)

(* No update has a rival: another package that satisfies its target and    *)
(* comes first.  From the AUR, a provider that is installed does, unless   *)
(* the user is asked; a PKGBUILD repo is searched in its order.            *)
Rivals(u) ==
    { p \in Elements(world.pkgbuilds) \cup Elements(world.aur) :
        /\ p.src = u.remote.src /\ p.name # u.local.name
        /\ Satisfies(p, TargetOf(u).pkg, NoVer)
        /\ p.src = "aur" => InstalledName(p.name) }

(* The place an update was found in is where its target is looked up: not  *)
(* in a sync database that is named like it, and not anywhere.             *)
Qualified(u) == WhereIsTarget(TargetOf(u)) = u.remote.src

NoRivals == /\ ~ world.provider_cb
            /\ \A u \in updates.found : Qualified(u) /\ Rivals(u) = {}

(* NEEDED goes by what is installed: it keeps the newer versions that      *)
(* ENABLE_DOWNGRADE lists, and does not know of chosen databases.          *)
NeededFits == Flag("NEEDED") => ~ Flag("ENABLE_DOWNGRADE") /\ ~ query.chosen

(* Every update the caller asks for ends up in the plan: the very package  *)
(* that updates() found, or another one of its name that was built before  *)
(* it for a dependency, and so is not marked as a target.                  *)
UpdatesApplied ==
    phase = "done" /\ NoRivals /\ NeededFits =>
        \A u \in updates.found : \E e \in Entries :
            \/ e.pkg = u.remote
            \/ e.pkg.src \in ToBuild /\ e.pkg.name = u.local.name /\ ~ e.target

NextUpdates == UpdatesOf(After(TRUE), cache \cup AurInfo(After(TRUE)))

(* Once the plan is carried out nothing is out of date but, perhaps, what  *)
(* the plan built for a dependency: a dependency is built from where it is *)
(* satisfied, and updates() compares it with the package of its name in    *)
(* the first PKGBUILD repo.                                                *)
UpdatesConverge ==
    phase = "done" /\ updates.found # {} /\ ~ query.chosen /\ NoRivals /\ NeededFits =>
        \A u \in NextUpdates.found : \E e \in BuildEntries :
            e.pkg = u.local /\ ~ e.target

(* actions.rs 20: what a resolution calls unneeded is up to date.          *)
UnneededUpToDate ==
    phase = "done" => \A t \in Elements(unneeded) : \A u \in updates.found :
                          u.local.name # t.targ.pkg.name
=============================================================================
