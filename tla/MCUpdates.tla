----------------------------- MODULE MCUpdates -----------------------------
(***************************************************************************)
(* The worlds Updates is model-checked on: systems to update, and requests *)
(* whose plans conflict.                                                   *)
(***************************************************************************)
EXTENDS MCAurRequests, Updates

MCQueries == { NoQuery, [NoQuery EXCEPT !.ignored = {a}],
               [NoQuery EXCEPT !.chosen = TRUE, !.dbs = {core}] }

-----------------------------------------------------------------------------
(* Systems to update: a, b and c are installed in all combinations of      *)
(* versions (0: not at all); a is in the AUR, b in the AUR, a PKGBUILD     *)
(* repo or both, c, needed by a, in a sync database or the AUR; p provides *)
(* pp and is up to date, or not installed.                                 *)
Outdated(bs, cs, va, vb, vc, dc, pp, vp) ==
    [World0 EXCEPT
        !.deps      = << >>,
        !.local     = Local(a, va) \cup Local(b, vb) \cup Local(c, vc) \cup Local(p, vp),
        !.repos     = When(cs = "repo", <<Repo(c, <<D(b)>>)>>),
        !.pkgbuilds = When("pkgbuild" \in bs, <<[Pb(b, << >>) EXCEPT !.ver = 1]>>),
        !.aur       = <<[Pkg("aur", p) EXCEPT !.provides = pp], Aur(a, <<dc>>)>>
                      \o When("aur" \in bs, <<Aur(b, << >>)>>)
                      \o When(cs = "aur", <<Aur(c, <<DV(b, "ge", 2)>>)>>)]

UpdateFlags == { {}, {"NEEDED", "MISSING_PROVIDES"}, {"ENABLE_DOWNGRADE"},
                 {"NEEDED", "ENABLE_DOWNGRADE", "TARGET_PROVIDES"} }

Systems ==
    UNION { WithFlags(Outdated(bs, cs, va, vb, vc, dc, q.pp, q.vp), UpdateFlags) :
        bs \in {{"aur"}, {"pkgbuild"}, {"aur", "pkgbuild"}}, cs \in {"repo", "aur", "none"},
        va \in {0, 1, 3}, vb \in {1, 2}, vc \in {0, 1}, dc \in {D(c), DV(c, "ge", 2)},
        q \in { [pp |-> {}, vp |-> 2], [pp |-> {DV(a, "eq", 1)}, vp |-> 0],
                [pp |-> {DV(a, "eq", 1)}, vp |-> 2] } }

(* c of the sync database core is out of date, where the AUR has it, too;  *)
(* a, which needs it, may be built by a PKGBUILD, and needs b in a version  *)
(* that the PKGBUILD of b does not have.                                   *)
Elsewhere ==
    UNION { WithFlags(
        [World0 EXCEPT !.deps = << >>, !.local = Local(a, 1) \cup Local(b, 1) \cup Local(c, vc),
            !.repos = <<[Repo(c, << >>) EXCEPT !.ver = 1]>>,
            !.pkgbuilds = When(as = "pkgbuild", <<Pb(a, <<DV(b, "ge", 3), D(c)>>)>>) \o <<Pb(b, << >>)>>,
            !.aur = When(as = "aur", <<Aur(a, <<D(b), DV(c, "ge", 2)>>)>>)
                    \o <<[Aur(b, << >>) EXCEPT !.ver = 3], Aur(c, <<D(b)>>)>>], UpdateFlags) :
        as \in {"aur", "pkgbuild"}, vc \in {0, 1, 2} }

-----------------------------------------------------------------------------
(* Plans with conflicts: the target a, its dependency b, made with c, and  *)
(* x, which is installed, each with some of the conflicts; c is new or     *)
(* replaces an older one.                                                  *)
ConflictSet == { {}, {D(g), DV(x, "lt", 2)}, {D(b), DV(c, "ge", 2)} }

Conflicting(ca, cb, cc, cx, bs, xs, vx, vc) ==
    LET B == [Pkg(bs, b) EXCEPT !.conflicts = cb, !.provides = {DV(g, "eq", 1)},
                                !.makedepends = When(bs # "repo", <<DV(c, "ge", 2)>>)]
        C == [Pkg("repo", c) EXCEPT !.conflicts = cc]
    IN  Cached([World0 EXCEPT
            !.local = { [q EXCEPT !.conflicts = cx, !.provides = {D(y)}] : q \in Local(x, vx) }
                      \cup { [q EXCEPT !.conflicts = cc] : q \in Local(c, vc) },
            !.repos = <<C>> \o When(bs = "repo", <<B>>),
            !.pkgbuilds = When(bs = "pkgbuild", <<B>>),
            !.aur = When(bs = "aur", <<B>>)
                    \o <<[Aur(a, <<D(b)>> \o xs) EXCEPT !.conflicts = ca],
                         Aur(x, << >>), [Aur(y, << >>) EXCEPT !.conflicts = {D(g)}]>>])

Plans ==
    { Conflicting(ca, cb, cc, cx, bs, xs, vx, vc) :
        ca \in ConflictSet, cb \in ConflictSet, cx \in ConflictSet, cc \in {{}, {D(g)}}, vc \in {0, 1},
        bs \in {"repo", "aur", "pkgbuild"}, vx \in {1, 2},
        xs \in { << >>, <<DV(x, "ge", 2)>>, <<DV(y, "ge", 1)>> } }

(* One name in a sync database and the AUR, one base with several packages. *)
Doubles ==
    { Cached([World0 EXCEPT !.deps = ts, !.repos = <<Repo(x, << >>)>>,
        !.aur = <<Aur(x, << >>), [Aur(a, <<D(b)>>) EXCEPT !.base = g],
                  [Aur(b, << >>) EXCEPT !.base = g], Aur(c, <<D(x), D(a)>>)>>]) :
        ts \in {<<In(core, x), In(aur, x)>>, <<T(c), In(aur, x)>>, <<T(a), T(c), T(b)>>} }

(* A session of updates only, and one whose caller has an update of a      *)
(* answered by p, which provides a, is installed, and is up to date.       *)
RivalWorlds ==
    WithFlags(Outdated({"aur"}, "none", 1, 2, 0, D(b), {DV(a, "eq", 1)}, 2), {{"NEEDED"}})

(* What may be asked for again after an RPC error; p, a provider, is        *)
(* installed or not.                                                       *)
RetryWorlds ==
    { [w EXCEPT !.local = @ \cup L] :
        w \in { v \in Chains \cup InVain : v.local = {} }, L \in {{}, Local(p, 1)} }

SessionWorlds == Systems \cup Elsewhere \cup Plans \cup Doubles \cup RetryWorlds
=============================================================================
