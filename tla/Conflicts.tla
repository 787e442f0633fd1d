----------------------------- MODULE Conflicts -----------------------------
(***************************************************************************)
(* What Actions says of the plan resolve() returned: its conflicts with    *)
(* what is installed and with itself, and the names it has twice           *)
(* (actions.rs 160-401).                                                   *)
(*                                                                         *)
(* The ConflictMap is a set of records: pkg, of the plan, conflicts with   *)
(* by, because of conflict (which is not shown where it is just by's name).*)
(***************************************************************************)
EXTENDS ResolverProperties

Conflict(p, q, c) == [pkg |-> p.name, by |-> q.name, conflict |-> c]

HasPkg(n) == \E e \in Entries : e.pkg.name = n

(* Fault: whatever is installed stays.                                     *)
UntouchedOrNot == world.local

(* The installed packages the plan does not replace.                       *)
Untouched == { q \in world.local : ~ HasPkg(q.name) }

(* The packages of the plan; without makedeps, those not marked.           *)
Considered(makedeps) == { e.pkg : e \in { x \in Entries : makedeps \/ ~ x.make } }

(* Fault: provides do not count.                                           *)
HitsByName(c, p, q) == p.name # q.name /\ c.name = p.name /\ SatisfiesVer(c, p.ver)

(* q's conflict c is with p: whatever satisfies it, but not q itself.      *)
Hits(c, p, q) == p.name # q.name /\ Satisfies(p, c, FALSE)

(* check_reverse_conflict, for the conflicts of the packages qs.           *)
ReverseConflicts(qs, makedeps) ==
    UNION { UNION { { Conflict(p, q, c) : p \in { x \in Considered(makedeps) : Hits(c, x, q) } }
                    : c \in q.conflicts } : q \in qs }

CheckReverseConflicts(makedeps) == ReverseConflicts(Untouched, makedeps)

CheckInnerConflicts(makedeps) == ReverseConflicts(Considered(makedeps), makedeps)

(* Fault: only the installed packages' conflicts are looked at.            *)
CheckNoForwardConflicts(makedeps) == {}

CheckForwardConflicts(makedeps) ==
    UNION { UNION { { Conflict(p, q, c) : q \in { x \in Untouched : Hits(c, x, p) } }
                    : c \in p.conflicts } : p \in Considered(makedeps) }

CalculateConflicts(makedeps) ==
    CheckReverseConflicts(makedeps) \cup CheckForwardConflicts(makedeps)

CalculateInnerConflicts(makedeps) == CheckInnerConflicts(makedeps)

(* Fault: the bases are compared, not the packages.                        *)
DuplicateBases ==
    { PkgAt(x).base : x \in { y \in Position : \E z \in Position : Before(z, y)
                                                /\ PkgAt(z).base = PkgAt(y).base } }

DuplicateTargets ==
    { install[i].pkg.name : i \in { j \in DOMAIN install :
          \E k \in 1 .. j - 1 : install[k].pkg.name = install[j].pkg.name } }
    \cup
    { PkgAt(x).name : x \in { y \in Position :
          \/ \E e \in Elements(install) : e.pkg.name = PkgAt(y).name
          \/ \E z \in Position : z # y /\ PkgAt(z).name = PkgAt(y).name } }

-----------------------------------------------------------------------------
(* The system the plan leads to: the packages it replaces are gone.  With- *)
(* out makedeps, the make-only packages are removed again.                 *)

After(makedeps) ==
    { q \in world.local : \A p \in Considered(makedeps) : p.name # q.name }
    \cup Considered(makedeps)

Clash(p, q) == p.name # q.name /\ \E c \in p.conflicts : Satisfies(q, c, FALSE)

LocalConsistent == \A p, q \in world.local : ~ Clash(p, q)

(* The installed packages whose name is in the plan. *)
Replaced == world.local \ Untouched

Reports(makedeps) == CalculateConflicts(makedeps) \cup CalculateInnerConflicts(makedeps)

(* Whoever of the two declares it, and wherever they come from: two        *)
(* packages that cannot be installed together are reported if the plan     *)
(* leads to a system with both, and the system had no such packages        *)
(* before.  An installed package counts as gone also where only a make-    *)
(* only package replaces it and these are not looked at.                   *)
ConflictsReported ==
    phase = "done" /\ LocalConsistent =>
        \A makedeps \in BOOLEAN : \A p, q \in After(makedeps) \ Replaced :
            Clash(p, q) => \E r \in Reports(makedeps) : {r.pkg, r.by} = {p.name, q.name}

(* And nothing else is: both packages of a report are there after the      *)
(* plan, the one of the plan comes first, and one of them has the conflict *)
(* that the report names.                                                  *)
ConflictsReal ==
    phase = "done" =>
        \A makedeps \in BOOLEAN : \A r \in Reports(makedeps) :
            /\ \E e \in Entries : e.pkg.name = r.pkg
            /\ \E p, q \in After(makedeps) :
                   /\ Clash(p, q) /\ {p.name, q.name} = {r.pkg, r.by}
                   /\ r.conflict \in p.conflicts

(* actions.rs 379-380: a name is in a plan twice only if two packages have *)
(* it, however often and under however many names they were asked for.     *)
DuplicatesDiffer ==
    phase = "done" /\ AcyclicPlan =>
        \A n \in DuplicateTargets : \E e, f \in Entries :
            e.pkg # f.pkg /\ e.pkg.name = n /\ f.pkg.name = n

(* What an installed package is there for, its replacement is, too.        *)
ReplacementsFit ==
    \A q \in world.local : \A e, f \in Entries : \A d \in Elements(Depends(f.pkg)) :
        e.pkg.name = q.name /\ Satisfies(q, d, NoVer) => Satisfies(e.pkg, d, NoVer)

(* A plan that misses nothing and is reported to conflict with nothing can *)
(* be carried out: no two packages conflict, and every package finds what  *)
(* it depends on.                                                          *)
PlanInstallable ==
    /\ phase = "done" /\ missing = << >> /\ Reports(TRUE) = {}
    /\ LocalConsistent /\ ReplacementsFit /\ UniqueRepoNames
    => /\ \A p, q \in After(TRUE) : ~ Clash(p, q)
       /\ \A e \in Entries : \A d \in Elements(Depends(e.pkg)) :
              AssumeInstalled(d) \/ \E p \in After(TRUE) : Satisfies(p, d, NoVer)
=============================================================================
