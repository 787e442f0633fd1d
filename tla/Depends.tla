------------------------------ MODULE Depends ------------------------------
(***************************************************************************)
(* The data aur-depends works on and the one relation everything rests on: *)
(* which package satisfies which dependency (satisfies.rs).  This module   *)
(* has no behaviour.                                                       *)
(*                                                                         *)
(* A name is a model value; a version is a natural number ordered like     *)
(* alpm's versions.  Two dependencies are the same record exactly when the *)
(* code's strings (dep.to_string()) are equal.                             *)
(***************************************************************************)
EXTENDS Naturals, Sequences, FiniteSets

CONSTANTS
    Name,       \* names of packages, of what they provide, of bases and groups
    RepoName,   \* names of sync databases, of PKGBUILD repos, and the AUR namespace
    NoRepo      \* "no repository": an unqualified target, a package of the AUR

ASSUME NoRepoAssumption == NoRepo \notin RepoName

DepMod == {"any", "eq", "lt", "le", "ge", "gt"}

Dep == [name : Name, mod : DepMod, ver : Nat]

(* A target: `repo/dep`, or just `dep`. *)
Targ == [repo : RepoName \cup {NoRepo}, pkg : Dep]

(* raur::Package, alpm::Package and (Srcinfo, Package) in one record.      *)
(* makedepends, checkdepends and gdepends (the depends of the whole base)  *)
(* are empty where the kind of package has none.                           *)
Package ==
    [ src         : {"aur", "pkgbuild", "repo", "local"},
      repo        : RepoName \cup {NoRepo},
      name        : Name,
      base        : Name,
      ver         : Nat,
      provides    : SUBSET Dep,
      conflicts   : SUBSET Dep,
      depends     : Seq(Dep),
      gdepends    : Seq(Dep),
      makedepends : Seq(Dep),
      checkdepends: Seq(Dep),
      groups      : SUBSET Name ]

PackageOf(src) == { p \in Package : p.src = src }

AnyVersion(d) == [d EXCEPT !.mod = "any", !.ver = 0]

SatisfiesVer(d, v) ==
    \/ d.mod = "any"
    \/ d.mod = "eq" /\ v = d.ver
    \/ d.mod = "lt" /\ v < d.ver
    \/ d.mod = "le" /\ v <= d.ver
    \/ d.mod = "ge" /\ v >= d.ver
    \/ d.mod = "gt" /\ v > d.ver

(* A provide without a version does not satisfy a versioned dependency. *)
SatisfiesProvide(d, p, nover) ==
    /\ d.name = p.name
    /\ nover \/ d.mod = "any" \/ (p.mod # "any" /\ SatisfiesVer(d, p.ver))

Satisfies(pkg, d, nover) ==
    \/ d.name = pkg.name /\ (nover \/ SatisfiesVer(d, pkg.ver))
    \/ \E p \in pkg.provides : SatisfiesProvide(d, p, nover)

-----------------------------------------------------------------------------
(* The first element of s that passes Test, as a set of at most one        *)
(* element: an Option, so that `\E p \in First(...)` is `if let Some(p)`.  *)
First(s, Test(_)) ==
    { s[i] : i \in { k \in DOMAIN s : /\ Test(s[k])
                                      /\ \A j \in 1 .. (k - 1) : ~ Test(s[j]) } }

Elements(s) == { s[i] : i \in DOMAIN s }

-----------------------------------------------------------------------------
(* The packages of pkgs that a runtime chain reaches from seeds: the least *)
(* set that holds seeds and every package satisfying a runtime dependency  *)
(* of a member.                                                            *)
NeededBy(S, p, nover) == \E q \in S : \E d \in Elements(q.depends) : Satisfies(p, d, nover)

RuntimeClosed(S, seeds, pkgs, nover) ==
    /\ seeds \subseteq S
    /\ \A p \in pkgs : NeededBy(S, p, nover) => p \in S

Runtime(seeds, pkgs, nover) ==
    { p \in pkgs : \A S \in SUBSET pkgs : RuntimeClosed(S, seeds, pkgs, nover) => p \in S }
=============================================================================
