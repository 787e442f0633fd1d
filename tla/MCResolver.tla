----------------------------- MODULE MCResolver ----------------------------
(***************************************************************************)
(* The worlds Resolver is model-checked on.                                *)
(***************************************************************************)
EXTENDS ResolverProperties

CONSTANTS a, b, c, x, y, g, p, core, extra, pb, aur

MCName == {a, b, c, x, y, g, p}
MCRepoName == {core, extra, pb, aur}

-----------------------------------------------------------------------------
(* Building blocks. *)

D(n)       == [name |-> n, mod |-> "any", ver |-> 0]
DV(n, m, v) == [name |-> n, mod |-> m, ver |-> v]
T(n)       == [repo |-> NoRepo, pkg |-> D(n)]
In(r, n)   == [repo |-> r, pkg |-> D(n)]

Pkg(s, n) ==
    [ src |-> s, repo |-> CASE s = "repo" -> core [] s = "pkgbuild" -> pb [] OTHER -> NoRepo,
      name |-> n, base |-> n, ver |-> 2, provides |-> {}, conflicts |-> {}, depends |-> << >>,
      gdepends |-> << >>, makedepends |-> << >>, checkdepends |-> << >>, groups |-> {} ]

World0 ==
    [ flags |-> {"REPO", "PKGBUILDS", "AUR", "CALCULATE_MAKE"},
      is_target |-> TRUE, deps |-> <<T(a)>>, make_deps |-> << >>,
      local |-> {}, assume |-> {}, dbs |-> {core, extra}, repos |-> << >>,
      pkgbuild_repos |-> {pb}, pkgbuilds |-> << >>, aur |-> << >>, cached |-> {},
      aur_namespace |-> aur, provider_cb |-> FALSE, group_cb |-> FALSE, devel |-> {} ]

(* The caller's cache already holds the whole AUR. *)
Cached(w) == [w EXCEPT !.cached = Elements(w.aur)]

-----------------------------------------------------------------------------
(* Graphs: every way two or three AUR packages can depend on one another.  *)

EdgeKind == {"none", "depends", "makedepends"}

EdgesTo(k, n) == IF k = "none" THEN << >> ELSE <<D(n)>>

(* n with the edge k1 to m1 and the edge k2 to m2. *)
Node(n, m1, k1, m2, k2) ==
    LET Of(k) == (IF k1 = k THEN <<D(m1)>> ELSE << >>) \o (IF k2 = k THEN <<D(m2)>> ELSE << >>)
    IN  [Pkg("aur", n) EXCEPT !.depends = Of("depends"), !.makedepends = Of("makedepends")]

Graphs ==
    { Cached([World0 EXCEPT !.aur = <<Node(a, b, k[1], c, k[2]),
                                      Node(b, a, k[3], c, k[4]),
                                      Node(c, b, k[5], a, k[6])>>,
                            !.deps = ts]) :
        k \in [1 .. 6 -> EdgeKind], ts \in {<<T(a)>>, <<T(b), T(a)>>} }

(* The same for the packages of split bases, three packages in at most two *)
(* bases; a PKGBUILD repo lists the packages of a base one after another.  *)
InSplit(s, node, base) == [node EXCEPT !.src = s, !.repo = Pkg(s, a).repo, !.base = base]

Splits ==
    LET nodes(k) == <<Node(a, b, k[1], c, k[2]), Node(b, a, k[3], c, k[4]),
                      Node(c, b, k[5], a, k[6])>>
        listed(s, k, bs) == [i \in 1 .. 3 |-> InSplit(s, nodes(k)[i], bs[i])]
        edges == [1 .. 6 -> {"none", "depends"}]
    IN  { Cached([World0 EXCEPT !.aur = listed("aur", k, bs)]) :
            k \in edges, bs \in {<<x, x, x>>, <<x, x, y>>, <<x, y, x>>} }
        \cup
        { [World0 EXCEPT !.pkgbuilds = listed("pkgbuild", k, bs)] :
            k \in edges, bs \in {<<x, x, x>>, <<x, x, y>>, <<x, y, y>>} }

(* The same for repo packages, and for AUR packages that are asked for     *)
(* under two strings each: a by c with a version, c by both with one, and  *)
(* b by a as what it provides.                                             *)
Asking(node, m, d) ==
    [node EXCEPT !.depends = [i \in DOMAIN @ |-> IF @[i] = D(m) THEN d ELSE @[i]]]

Strings ==
    { LET na == Asking(Asking(Node(a, b, k[1], c, k[2]), b, D(x)), c, DV(c, "ge", 1))
          nb == Asking(Node(b, a, k[3], c, k[4]), c, DV(c, "le", 2))
          nc == Asking(Node(c, b, k[5], a, k[6]), a, DV(a, "ge", 1))
      IN  Cached([World0 EXCEPT !.aur = <<na, [nb EXCEPT !.provides = {D(x)}], nc>>, !.deps = ts]) :
        k \in [1 .. 6 -> {"none", "depends"}],
        ts \in {<<T(a)>>, <<T(b), T(a)>>, <<T(c), T(x)>>} }

RepoGraphs ==
    { [World0 EXCEPT !.repos = <<InSplit("repo", Node(a, b, k[1], c, k[2]), a),
                                 InSplit("repo", Node(b, a, k[3], c, k[4]), b),
                                 InSplit("repo", Node(c, b, k[5], a, k[6]), c)>>,
                     !.deps = ts] :
        k \in [1 .. 6 -> {"none", "depends"}], ts \in {<<T(a)>>, <<T(b), T(a)>>} }

GraphWorlds == Graphs \cup Splits \cup Strings \cup RepoGraphs

-----------------------------------------------------------------------------
(* Sources: a (AUR) depends on x and is made with y, x depends on y; x and *)
(* y come from every combination of places.                                *)

Place == {"repo", "pkgbuild", "aur", "provider"}

When(test, s) == IF test THEN s ELSE << >>

(* The package x of a source, and p of the AUR that provides x.            *)
X(s) == [Pkg(s, x) EXCEPT !.depends = <<D(y)>>]
P    == [Pkg("aur", p) EXCEPT !.provides = {DV(x, "eq", 2)}, !.depends = <<D(y)>>]

Local(n, v) == IF v = 0 THEN {} ELSE {[Pkg("local", n) EXCEPT !.ver = v]}

(* x is found in the places xs and installed with version xv (0: not at    *)
(* all); y is found in the one place yp; a depends on x as dx.             *)
SourcesWorld(xs, xv, yp, dx) ==
    [World0 EXCEPT
        !.local     = Local(x, xv) \cup Local(y, IF yp = "local" THEN 2 ELSE 0),
        !.repos     = When(yp = "repo", <<Pkg("repo", y)>>)
                      \o When("repo" \in xs, <<X("repo")>>),
        !.pkgbuilds = When("pkgbuild" \in xs, <<X("pkgbuild")>>)
                      \o When(yp = "pkgbuild", <<Pkg("pkgbuild", y)>>),
        !.aur       = When("provider" \in xs, <<P>>) \o When("aur" \in xs, <<X("aur")>>)
                      \o <<[Pkg("aur", a) EXCEPT !.depends = <<dx>>, !.makedepends = <<D(y)>>,
                                              !.checkdepends = <<D(c)>>], Pkg("aur", c)>>
                      \o When(yp = "aur", <<Pkg("aur", y)>>)]

Requests == { [is_target |-> TRUE,  deps |-> <<T(a)>>,       make |-> << >>],
              [is_target |-> TRUE,  deps |-> <<T(a), T(x)>>, make |-> << >>],
              [is_target |-> TRUE,  deps |-> <<T(x), T(a)>>, make |-> << >>],
              [is_target |-> FALSE, deps |-> <<T(x)>>,       make |-> <<T(a), T(y)>>] }

Options == { [flags |-> {},                             dx |-> D(x)],
             [flags |-> {},                             dx |-> DV(x, "ge", 2)],
             [flags |-> {"NO_DEP_VERSION"},             dx |-> DV(x, "gt", 2)],
             [flags |-> {"NEEDED"},                     dx |-> D(x)],
             [flags |-> {"RESOLVE_SATISFIED_PKGBUILDS"}, dx |-> DV(x, "eq", 2)] }

Combinations ==
    { Cached([SourcesWorld(xs, xv, yp, o.dx) EXCEPT
                !.flags = @ \cup o.flags, !.is_target = r.is_target,
                !.deps = r.deps, !.make_deps = r.make]) :
        xs \in SUBSET Place, xv \in 0 .. 2, r \in Requests, o \in Options,
        yp \in {"none", "repo", "pkgbuild", "aur", "local"} }

(* x is to be had from a PKGBUILD repo and from the AUR, with dependencies *)
(* of its own in each, and asked for from both, or by a as well.           *)
Twins ==
    { Cached([World0 EXCEPT !.deps = ts, !.pkgbuilds = <<[X("pkgbuild") EXCEPT !.provides = pv]>>,
        !.aur = <<[Pkg("aur", a) EXCEPT !.depends = <<D(x)>>], P, Pkg("aur", y), Pkg("aur", c),
                  [X("aur") EXCEPT !.depends = <<D(c)>>, !.provides = {D(b)}]>>]) :
        pv \in {{}, {D(g)}},
        ts \in {<<In(aur, x), In(pb, x)>>, <<In(pb, x), In(aur, b)>>, <<T(a), In(aur, x)>>,
                <<In(aur, b), In(pb, g)>>} }

Sources == Combinations \cup Twins

-----------------------------------------------------------------------------
(* Shapes: one small set of worlds for each thing the families above leave *)
(* out.                                                                    *)

WithFlags(w, fs) == { [w EXCEPT !.flags = @ \cup f] : f \in fs }

Aur(n, ds)  == [Pkg("aur", n) EXCEPT !.depends = ds]
Repo(n, ds) == [Pkg("repo", n) EXCEPT !.depends = ds]
Pb(n, ds)   == [Pkg("pkgbuild", n) EXCEPT !.depends = ds]

(* A group, a package of it asked for as well, the group callback. *)
GroupShapes ==
    { [World0 EXCEPT !.deps = ts, !.group_cb = cb,
                     !.repos = <<[Repo(x, <<D(y)>>) EXCEPT !.groups = {g}],
                                 [Repo(y, <<D(c)>>) EXCEPT !.groups = {g}]>>] :
        cb \in BOOLEAN, ts \in {<<T(g)>>, <<T(y), T(g)>>, <<In(core, g)>>, <<In(extra, g)>>,
                                <<In(core, g), [T(g) EXCEPT !.pkg = DV(g, "ge", 1)]>>} }

(* Several AUR providers of x, none, one or all of them in the cache, with *)
(* and without a provider callback and an installed provider.              *)
ProviderShapes ==
    { [World0 EXCEPT !.deps = ts, !.provider_cb = cb, !.local = Local(p, lv),
                     !.aur = <<Aur(a, <<D(x)>>),
                               [Aur(b, << >>) EXCEPT !.provides = {D(x)}],
                               [Aur(p, <<D(y)>>) EXCEPT !.provides = {D(x)}],
                               [Aur(y, << >>) EXCEPT !.provides = {D(b)}]>>] :
        cb \in BOOLEAN, lv \in {0, 2}, ts \in {<<T(a)>>, <<T(x), T(a)>>, <<T(b)>>} }

(* Several repo providers of x: the user picks one, differently each time. *)
RepoProviderShapes ==
    { [Cached([World0 EXCEPT
          !.repos = <<[Repo(y, << >>) EXCEPT !.provides = {D(x)}],
                      [Repo(p, <<D(c), D(x)>>) EXCEPT !.provides = {D(x), DV(g, "eq", 1)}],
                      Repo(c, <<D(g)>>)>>,
          !.aur = <<Aur(a, <<D(x), DV(g, "lt", 2)>>), Aur(b, <<D(g), DV(x, "ge", 1)>>)>>])
        EXCEPT !.deps = ts, !.local = Local(p, lv)] :
        lv \in {0, 2}, ts \in {<<T(a), T(b)>>, <<T(x), T(b)>>} }

(* Targets with a repository: known, unknown, the AUR, a PKGBUILD repo;    *)
(* each class of source switched off.                                      *)
RepositoryShapes ==
    { [Cached([World0 EXCEPT !.repos = <<Repo(x, << >>)>>, !.pkgbuilds = <<Pb(x, <<D(y)>>)>>,
                             !.aur = <<Aur(x, <<D(c)>>), Aur(c, << >>)>>])
        EXCEPT !.deps = <<In(r, x), T(x)>>, !.flags = fs, !.is_target = it,
               !.aur_namespace = ns] :
        r \in {core, extra, pb, aur}, it \in BOOLEAN, ns \in {aur, core, NoRepo},
        fs \in SUBSET {"REPO", "PKGBUILDS", "AUR"} }

(* What is assumed, only checked for, up to date or a development package. *)
OptionShapes ==
    UNION { WithFlags(
        [Cached([World0 EXCEPT
            !.repos = <<Repo(x, <<D(y)>>)>>,
            !.pkgbuilds = <<[Pb(b, <<D(y)>>) EXCEPT !.checkdepends = <<D(x)>>]>>,
            !.aur = <<[Aur(a, <<D(b)>>) EXCEPT !.checkdepends = <<D(c)>>]>>])
         EXCEPT !.deps = <<T(a), T(b), T(y)>>, !.local = Local(a, 2) \cup Local(b, 2),
                !.assume = as, !.devel = dv, !.is_target = it],
        { {}, {"NO_DEPS"}, {"CHECK_DEPENDS"}, {"NEEDED"},
          {"NEEDED", "RESOLVE_SATISFIED_PKGBUILDS"} })
        : as \in {{}, {DV(y, "eq", 1)}}, dv \in {{}, {D(a), D(b)}}, it \in BOOLEAN }

(* Two bases of a PKGBUILD repo, one of them asked for again beside itself. *)
BaseShapes ==
    LET InG(q, ms) == [q EXCEPT !.base = g, !.makedepends = ms, !.gdepends = <<D(c)>>]
    IN
    { Cached([World0 EXCEPT !.deps = ts,
         !.pkgbuilds = <<InG(Pb(x, <<D(y)>>), ms), InG(Pb(y, << >>), ms), Pb(b, <<D(x)>>)>>,
         !.aur = <<Aur(y, <<D(b)>>), Aur(c, <<D(p)>>)>>, !.local = Local(y, lv)]) :
        ts \in {<<T(b)>>, <<T(x), In(aur, y)>>}, ms \in {<< >>, <<D(y)>>}, lv \in {0, 2} }

(* One name in two sync databases: never both in the plan. *)
ShadowShapes ==
    { [World0 EXCEPT !.repos = <<[Repo(x, <<D(y)>>) EXCEPT !.ver = 1], Repo(y, <<D(x)>>),
                                 [Repo(x, << >>) EXCEPT !.repo = extra]>>,
                     !.deps = ts] :
        ts \in {<<In(core, x), In(extra, x)>>, <<In(extra, x), T(y)>>, <<T(y), T(x)>>} }

Shapes == GroupShapes \cup ProviderShapes \cup RepoProviderShapes \cup RepositoryShapes
          \cup OptionShapes \cup BaseShapes \cup ShadowShapes

-----------------------------------------------------------------------------
(* Worlds for what the documentation says. *)

(* a is a target, and made with by a dependency of the target before it.   *)
TargetWorlds ==
    { Cached([World0 EXCEPT !.deps = <<T(b), T(a)>>,
        !.aur = <<Aur(b, <<D(c)>>), [Aur(c, << >>) EXCEPT !.makedepends = <<D(a)>>],
                  Aur(a, << >>)>>]) }

(* The target a is made with b. *)
MakeWorlds ==
    { Cached([World0 EXCEPT
        !.aur = <<[Aur(a, << >>) EXCEPT !.makedepends = <<D(b)>>], Aur(b, << >>)>>]) }

(* a depends on b; both are targets, b is up to date. *)
NeededWorlds ==
    { Cached([World0 EXCEPT !.flags = @ \cup {"NEEDED"}, !.deps = <<T(a), T(b)>>,
        !.local = Local(b, 2), !.aur = <<Aur(a, <<D(b)>>), Aur(b, << >>)>>]) }

(* x is in core, and newer in extra; a needs the newer one, but asks for   *)
(* any first.                                                              *)
ShadowedWorlds ==
    { Cached([World0 EXCEPT !.repos = <<[Repo(x, << >>) EXCEPT !.ver = 1],
                                        [Repo(x, << >>) EXCEPT !.repo = extra]>>,
        !.aur = <<Aur(a, <<D(x), DV(x, "ge", 2)>>)>>]) }
=============================================================================
