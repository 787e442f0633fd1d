-------------------------- MODULE ConflictsProofs --------------------------
(***************************************************************************)
(* The conflicts that Actions reports are those of the system the plan     *)
(* leads to, no fewer and no more, for every plan and every catalog; and   *)
(* what no conflict and nothing missing says of a plan.                    *)
(***************************************************************************)
EXTENDS Conflicts, OrderProofs

(* A conflict between two packages of one side is reported as that side's. *)
LEMMA ReverseReported ==
    ASSUME NEW qs, NEW makedeps, NEW q \in qs, NEW p \in Considered(makedeps),
           NEW c \in q.conflicts, Hits(c, p, q)
    PROVE  Conflict(p, q, c) \in ReverseConflicts(qs, makedeps)
  BY DEF ReverseConflicts

LEMMA ForwardReported ==
    ASSUME NEW makedeps, NEW q \in Untouched, NEW p \in Considered(makedeps),
           NEW c \in p.conflicts, Hits(c, q, p)
    PROVE  Conflict(p, q, c) \in CheckForwardConflicts(makedeps)
  BY DEF CheckForwardConflicts

(* What is reported comes from a pair of packages and one's conflict.      *)
LEMMA ReverseFound ==
    ASSUME NEW qs, NEW makedeps, NEW r \in ReverseConflicts(qs, makedeps)
    PROVE  \E q \in qs : \E p \in Considered(makedeps) : \E c \in q.conflicts :
               Hits(c, p, q) /\ r = Conflict(p, q, c)
  BY DEF ReverseConflicts

LEMMA ForwardFound ==
    ASSUME NEW makedeps, NEW r \in CheckForwardConflicts(makedeps)
    PROVE  \E q \in Untouched : \E p \in Considered(makedeps) : \E c \in p.conflicts :
               Hits(c, q, p) /\ r = Conflict(p, q, c)
  BY DEF CheckForwardConflicts

LEMMA ConsideredOfPlan ==
    ASSUME NEW makedeps, NEW p \in Considered(makedeps)
    PROVE  \E e \in Entries : e.pkg = p
  BY DEF Considered

(* What the plan does not replace stays, whatever part of it is considered.*)
LEMMA UntouchedStays ==
    ASSUME NEW makedeps \in BOOLEAN
    PROVE  Untouched \subseteq After(makedeps)
  BY ConsideredOfPlan DEF Untouched, HasPkg, After

(* And nothing else stays, but for what the plan replaces.                 *)
LEMMA StaysUntouched ==
    ASSUME NEW makedeps \in BOOLEAN,
           NEW q \in After(makedeps) \ Replaced, q \notin Considered(makedeps)
    PROVE  q \in Untouched
  BY DEF After, Replaced, Considered

(***************************************************************************)
(* calculate_conflicts and calculate_inner_conflicts together report every *)
(* pair of packages that ends up installed and conflicts.                  *)
(***************************************************************************)
LEMMA EveryClashReported == ConflictsReported
  <1> SUFFICES ASSUME LocalConsistent, NEW makedeps \in BOOLEAN,
                      NEW p \in After(makedeps) \ Replaced, NEW q \in After(makedeps) \ Replaced,
                      Clash(p, q)
               PROVE  \E r \in Reports(makedeps) : {r.pkg, r.by} = {p.name, q.name}
    BY DEF ConflictsReported
  <1>1. PICK c \in p.conflicts : p.name # q.name /\ Satisfies(q, c, FALSE)
    BY DEF Clash
  <1>2. Hits(c, q, p)
    BY <1>1 DEF Hits
  <1>3. \A x, y, d : /\ {Conflict(x, y, d).pkg, Conflict(x, y, d).by} = {x.name, y.name}
                     /\ {Conflict(x, y, d).pkg, Conflict(x, y, d).by} = {y.name, x.name}
    BY DEF Conflict
  <1>4. CASE p \in Considered(makedeps) /\ q \in Considered(makedeps)
    <2>1. Conflict(q, p, c) \in Reports(makedeps)
      BY <1>2, <1>4, ReverseReported DEF Reports, CalculateInnerConflicts, CheckInnerConflicts
    <2> QED
      BY <1>3, <2>1
  <1>5. CASE p \in Considered(makedeps) /\ q \notin Considered(makedeps)
    <2>1. Conflict(p, q, c) \in Reports(makedeps)
      BY <1>2, <1>5, StaysUntouched, ForwardReported DEF Reports, CalculateConflicts
    <2> QED
      BY <1>3, <2>1
  <1>6. CASE p \notin Considered(makedeps) /\ q \in Considered(makedeps)
    <2>1. Conflict(q, p, c) \in Reports(makedeps)
      BY <1>2, <1>6, StaysUntouched, ReverseReported
         DEF Reports, CalculateConflicts, CheckReverseConflicts
    <2> QED
      BY <1>3, <2>1
  <1>7. CASE p \notin Considered(makedeps) /\ q \notin Considered(makedeps)
    BY <1>7 DEF LocalConsistent, After
  <1> QED
    BY <1>4, <1>5, <1>6, <1>7

(* Every conflict of a finished plan is reported, for every plan a         *)
(* resolution can end with.                                                *)
THEOREM AllReported == Spec => []ConflictsReported
  BY EveryClashReported, PTL

(***************************************************************************)
(* What they report is a conflict of the system the plan leads to.         *)
(***************************************************************************)
LEMMA EveryReportReal == ConflictsReal
  <1> SUFFICES ASSUME NEW makedeps \in BOOLEAN, NEW r \in Reports(makedeps)
               PROVE  /\ \E e \in Entries : e.pkg.name = r.pkg
                      /\ \E p, q \in After(makedeps) :
                            /\ Clash(p, q) /\ {p.name, q.name} = {r.pkg, r.by}
                            /\ r.conflict \in p.conflicts
    BY DEF ConflictsReal
  <1>1. Considered(makedeps) \subseteq After(makedeps)
    BY DEF After
  <1>2. \A x, y, d : /\ Conflict(x, y, d).pkg = x.name /\ Conflict(x, y, d).by = y.name
                     /\ Conflict(x, y, d).conflict = d
    BY DEF Conflict
  <1>3. ASSUME NEW qs \in SUBSET After(makedeps), r \in ReverseConflicts(qs, makedeps)
        PROVE  /\ \E e \in Entries : e.pkg.name = r.pkg
               /\ \E p, q \in After(makedeps) :
                     /\ Clash(p, q) /\ {p.name, q.name} = {r.pkg, r.by}
                     /\ r.conflict \in p.conflicts
    <2>1. PICK q \in qs : \E p \in Considered(makedeps) : \E c \in q.conflicts :
                              Hits(c, p, q) /\ r = Conflict(p, q, c)
      BY <1>3, ReverseFound
    <2>2. PICK p \in Considered(makedeps) : \E c \in q.conflicts :
                              Hits(c, p, q) /\ r = Conflict(p, q, c)
      BY <2>1
    <2>3. Clash(q, p)
      BY <2>2 DEF Hits, Clash
    <2> QED
      BY <1>1, <1>2, <2>1, <2>2, <2>3, ConsideredOfPlan
  <1>4. CASE r \in CheckReverseConflicts(makedeps)
    BY <1>3, <1>4, UntouchedStays DEF CheckReverseConflicts
  <1>5. CASE r \in CheckInnerConflicts(makedeps)
    BY <1>1, <1>3, <1>5 DEF CheckInnerConflicts
  <1>6. CASE r \in CheckForwardConflicts(makedeps)
    <2>1. PICK p \in Considered(makedeps) : \E q \in Untouched : \E c \in p.conflicts :
                              Hits(c, q, p) /\ r = Conflict(p, q, c)
      BY <1>6, ForwardFound
    <2>2. PICK q \in Untouched : \E c \in p.conflicts : Hits(c, q, p) /\ r = Conflict(p, q, c)
      BY <2>1
    <2>3. Clash(p, q)
      BY <2>2 DEF Hits, Clash
    <2> QED
      BY <1>1, <1>2, <2>2, <2>3, ConsideredOfPlan, UntouchedStays
  <1> QED
    BY <1>4, <1>5, <1>6 DEF Reports, CalculateConflicts, CalculateInnerConflicts

(* A report is a conflict of two packages that are installed together once *)
(* the plan is carried out, and the one it names first is of the plan.     *)
THEOREM ReportsReal == Spec => []ConflictsReal
  BY EveryReportReal, PTL
-----------------------------------------------------------------------------
(* A name that is in the plan twice. *)

LEMMA BothKinds ==
    ASSUME PlanInv, NEW p \in BuildPkgs, NEW q \in InstallPkgs
    PROVE  p # q
  <1>1. /\ Elements(world.repos) \subseteq PackageOf("repo")
        /\ Elements(world.pkgbuilds) \subseteq PackageOf("pkgbuild")
        /\ cache \subseteq PackageOf("aur")
    BY WorldTypes, ElementsType DEF PlanInv, PathInv, TypeOK
  <1>2. p \in Elements(world.pkgbuilds) \cup cache /\ q \in Elements(world.repos)
    BY DEF PlanInv, PlanKnown, ToBuildPkgs
  <1> QED
    BY <1>1, <1>2 DEF PackageOf

LEMMA DoneDiffer == PlanInv /\ InstallOnce /\ BuiltOnce => DuplicatesDiffer
  <1> SUFFICES ASSUME PlanInv, InstallOnce, BuiltOnce, phase = "done", AcyclicPlan,
                      NEW n \in DuplicateTargets
               PROVE  \E e, f \in Entries : e.pkg # f.pkg /\ e.pkg.name = n /\ f.pkg.name = n
    BY DEF DuplicatesDiffer
  <1>1. ~ \E i, k \in DOMAIN install : i # k /\ install[k].pkg.name = install[i].pkg.name
    BY DEF InstallOnce
  <1>2. PICK y \in Position : /\ PkgAt(y).name = n
                              /\ \/ \E e \in Elements(install) : e.pkg.name = n
                                 \/ \E z \in Position : z # y /\ PkgAt(z).name = n
    <2>1. n \notin { install[i].pkg.name : i \in { j \in DOMAIN install :
                        \E k \in 1 .. j - 1 : install[k].pkg.name = install[j].pkg.name } }
      <3> SUFFICES ASSUME NEW j \in DOMAIN install, NEW k \in 1 .. j - 1,
                          install[k].pkg.name = install[j].pkg.name
                   PROVE  FALSE
        OBVIOUS
      <3>1. k \in DOMAIN install /\ k # j
        BY DEF PlanInv, PathInv, TypeOK
      <3> QED
        BY <1>1, <3>1
    <2> QED
      BY <2>1 DEF DuplicateTargets
  <1>3. \A x \in Position : PkgAt(x) \in BuildPkgs
    BY PositionMeans
  <1>4. CASE \E e \in Elements(install) : e.pkg.name = n
    <2>1. PICK q \in InstallPkgs : q.name = n
      BY <1>4 DEF InstallPkgs
    <2>2. PkgAt(y) # q /\ PkgAt(y) \in PlanPkgs /\ q \in PlanPkgs
      BY <1>3, BothKinds DEF PlanPkgs
    <2> QED
      BY <1>2, <2>1, <2>2, PlanMeans
  <1>5. CASE \E z \in Position : z # y /\ PkgAt(z).name = n
    <2>1. PICK z \in Position : z # y /\ PkgAt(z).name = n
      BY <1>5
    <2>2. PkgAt(y) # PkgAt(z) /\ PkgAt(y) \in PlanPkgs /\ PkgAt(z) \in PlanPkgs
      BY <1>3, <2>1 DEF BuiltOnce, PlanPkgs
    <2> QED
      BY <1>2, <2>1, <2>2, PlanMeans
  <1> QED
    BY <1>2, <1>4, <1>5

(* resolve_repo_pkg installs no name twice, and without a cycle no package *)
(* is built twice: a name that duplicate_targets reports is of two         *)
(* packages, one of which hides the other.                                 *)
THEOREM TwoPackages == Spec => []DuplicatesDiffer
  <1>1. AnswerInv => PlanInv
    BY DEF AnswerInv
  <1> QED
    BY <1>1, DoneDiffer, AnswersKept, InstalledOnce, OnceBuilt, PTL

-----------------------------------------------------------------------------
(* A plan that can be carried out. *)

LEMMA PlanNotLocal ==
    ASSUME PlanInv
    PROVE  \A e \in Entries : e.pkg \notin world.local
  <1>1. /\ Elements(world.repos) \subseteq PackageOf("repo")
        /\ Elements(world.pkgbuilds) \subseteq PackageOf("pkgbuild")
        /\ cache \subseteq PackageOf("aur") /\ world.local \subseteq PackageOf("local")
    BY WorldTypes, ElementsType DEF PlanInv, PathInv, TypeOK, World
  <1>2. \A p \in PlanPkgs : p.src # "local"
    BY <1>1, PackageOfType DEF PlanInv, PlanKnown, ToBuildPkgs, PlanPkgs
  <1>3. \A q \in world.local : q.src = "local"
    BY <1>1, PackageOfType
  <1> QED
    BY <1>2, <1>3, PlanMeans

LEMMA PlanStays ==
    ASSUME NEW e \in Entries
    PROVE  e.pkg \in After(TRUE)
  BY DEF After, Considered

(* What satisfied a dependency of the plan before it is carried out, or    *)
(* what replaces it, satisfies it afterwards.                              *)
LEMMA StillSatisfied ==
    ASSUME ReplacementsFit, NEW f \in Entries, NEW d \in Elements(Depends(f.pkg)),
           SatisfiedLocal(d)
    PROVE  \E p \in After(TRUE) : Satisfies(p, d, NoVer)
  <1>1. PICK q \in world.local : Satisfies(q, d, NoVer)
    BY DEF SatisfiedLocal
  <1>2. CASE q \in After(TRUE)
    BY <1>1, <1>2
  <1>3. CASE q \notin After(TRUE)
    <2>1. PICK e \in Entries : e.pkg.name = q.name
      BY <1>3, ConsideredOfPlan DEF After
    <2>2. Satisfies(e.pkg, d, NoVer)
      BY <1>1, <2>1 DEF ReplacementsFit
    <2> QED
      BY <2>2, PlanStays
  <1> QED
    BY <1>2, <1>3

LEMMA DroppedInstallable == PlanInv /\ NothingDropped => PlanInstallable
  <1> SUFFICES ASSUME PlanInv, NothingDropped, phase = "done", missing = << >>, Reports(TRUE) = {},
                      LocalConsistent, ReplacementsFit, UniqueRepoNames
               PROVE  /\ \A p, q \in After(TRUE) : ~ Clash(p, q)
                      /\ \A e \in Entries : \A d \in Elements(Depends(e.pkg)) :
                            AssumeInstalled(d) \/ \E p \in After(TRUE) : Satisfies(p, d, NoVer)
    BY DEF PlanInstallable
  <1>1. \A p, q \in After(TRUE) : ~ Clash(p, q)
    <2>1. After(TRUE) \cap Replaced = {}
      BY PlanNotLocal DEF After, Replaced, Untouched, HasPkg, Considered
    <2> QED
      BY <2>1, EveryClashReported DEF ConflictsReported
  <1>2. ASSUME NEW e \in Entries, NEW d \in Elements(Depends(e.pkg)), ~ AssumeInstalled(d)
        PROVE  \E p \in After(TRUE) : Satisfies(p, d, NoVer)
    <2>1. ~ IsMissing(d)
      BY DEF IsMissing, Elements
    <2>2. SatisfiedLocal(d) \/ SatisfiedBuild(d) \/ SatisfiedInstall(d)
      BY <1>2, <2>1 DEF NothingDropped, Accounted
    <2>3. CASE SatisfiedLocal(d)
      BY <2>3, StillSatisfied
    <2>4. CASE SatisfiedBuild(d) \/ SatisfiedInstall(d)
      BY <2>4, PlanStays DEF SatisfiedBuild, SatisfiedInstall, Entries
    <2> QED
      BY <2>2, <2>3, <2>4
  <1> QED
    BY <1>1, <1>2

(* If nothing is missing and no conflict is reported, the plan leads to a  *)
(* system without conflicts, in which every package of the plan finds all  *)
(* it depends on.                                                          *)
THEOREM Installable == Spec => []PlanInstallable
  <1>1. AnswerInv => PlanInv
    BY DEF AnswerInv
  <1> QED
    BY <1>1, DroppedInstallable, AnswersKept, Complete, PTL
=============================================================================
