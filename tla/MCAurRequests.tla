--------------------------- MODULE MCAurRequests ---------------------------
(***************************************************************************)
(* The worlds AurRequests is model-checked on: the caller's cache is empty *)
(* but where a family says otherwise.                                      *)
(***************************************************************************)
EXTENDS MCResolver, AurRequests

ProvideFlags == { {}, {"TARGET_PROVIDES", "MISSING_PROVIDES"}, {"PROVIDES"} }

(* Chains and cycles a - b - c over the AUR and a PKGBUILD repo: a is the  *)
(* target, b may be a PKGBUILD, c may be provided by p only.               *)
Chain(bsrc, csrc, back, lv, ds) ==
    LET B == [Pkg(bsrc, b) EXCEPT !.depends = <<ds.c>>, !.makedepends = back.b]
        C == [Pkg(csrc, c) EXCEPT !.depends = back.c]
        PP == [Pkg("aur", p) EXCEPT !.provides = {DV(c, "eq", 1), D(x)}, !.depends = <<D(y)>>]
        all == <<[Pkg("aur", a) EXCEPT !.depends = <<D(b), ds.x>>], B, C, PP,
                 Pkg("aur", y)>>
        Of(s) == SelectSeq(all, LAMBDA q : q.src = s)
    IN  [World0 EXCEPT !.aur = Of("aur"), !.pkgbuilds = Of("pkgbuild"), !.repos = Of("repo"),
                       !.local = Local(c, lv)]

Chains ==
    UNION { WithFlags(Chain(bs, cs, back, lv, ds), ProvideFlags) :
        bs \in {"aur", "pkgbuild"}, cs \in {"aur", "pkgbuild"}, lv \in {0, 1},
        back \in { [b |-> << >>, c |-> <<D(a)>>], [b |-> <<D(a), D(c)>>, c |-> << >>],
                   [b |-> <<D(a), D(c)>>, c |-> <<DV(b, "ge", 1), DV(y, "ge", 3)>>] },
        ds \in { [c |-> D(c), x |-> D(x)], [c |-> DV(c, "ge", 2), x |-> D(x)],
                 [c |-> DV(c, "le", 1), x |-> D(x)], [c |-> DV(c, "le", 1), x |-> DV(x, "ge", 1)] } }

(* The families of MCResolver, from an empty cache, or from one that holds *)
(* a part of the AUR.                                                      *)
Refilled(ws, cs(_)) == UNION { { [w EXCEPT !.cached = S] : S \in cs(Elements(w.aur)) } : w \in ws }

Nothing(pkgs) == {{}}
Parts(pkgs)   == { S \in SUBSET pkgs : S # {} }

DefaultProvides == {{"TARGET_PROVIDES", "MISSING_PROVIDES"}}

OneSource ==
    { w \in Combinations : /\ w.is_target /\ w.deps = <<T(a)>>
                      /\ w.repos = << >> /\ Len(w.pkgbuilds) = 1 }

Unfilled == UNION { WithFlags(w, DefaultProvides) :
                w \in Refilled(OneSource \cup (Shapes \ RepositoryShapes), Nothing) }
            \cup UNION { WithFlags(w, {{"PROVIDES", "CHECK_DEPENDS"}}) :
                w \in Refilled(ProviderShapes \cup OptionShapes, Nothing) }
            \cup Refilled({ w \in RepositoryShapes : w.aur_namespace = aur }, Nothing)

Partial == Refilled(BaseShapes \cup ProviderShapes, Parts)

(* a and b of one base, b needed by a and found elsewhere as well; c needed *)
(* by b is in the AUR only.                                                *)
Sibling(here) ==
    UNION { WithFlags(
        [World0 EXCEPT !.local = IF "local" \in here THEN Local(b, 2) ELSE {},
                       !.repos = When("repo" \in here, <<Repo(b, << >>)>>),
                       !.pkgbuilds = <<[Pb(a, <<D(b)>>) EXCEPT !.base = g],
                                       [Pb(b, <<D(c)>>) EXCEPT !.base = g]>>,
                       !.deps = ts, !.aur = <<Aur(c, <<D(y)>>), Aur(y, <<D(a)>>)>>],
        ProvideFlags \cup {{"NO_DEPS"}, {"RESOLVE_SATISFIED_PKGBUILDS"}})
        : ts \in {<<T(a)>>, <<T(b), T(a)>>, <<T(y)>>} }

(* p comes with a search for a version of g that it does not provide, and  *)
(* may be chosen for another one.                                          *)
InVain ==
    UNION { WithFlags([World0 EXCEPT !.provider_cb = cb, !.local = Local(g, lv),
                !.aur = <<[Pkg("aur", p) EXCEPT !.provides = {DV(g, "eq", 2)}, !.depends = <<D(y)>>],
                          Aur(a, <<D(g), D(b), DV(g, "ge", 3)>>),
                          [Pkg("aur", b) EXCEPT !.provides = {DV(g, "eq", 1)}], Aur(y, << >>)>>],
              ProvideFlags) : cb \in BOOLEAN, lv \in {0, 1} }

(* The AUR target x, which a needs, is in a PKGBUILD repo as well, and may  *)
(* be installed; the AUR namespace may be the name of a sync database.     *)
TwoPlaces ==
    { [World0 EXCEPT !.deps = ts, !.local = Local(x, lv), !.dbs = dbs,
         !.pkgbuilds = When(both, <<Pb(x, <<D(y)>>)>>),
         !.aur = <<Aur(a, <<D(x)>>), Aur(x, << >>), Aur(y, << >>)>>] :
        ts \in {<<T(a), In(aur, x)>>, <<In(aur, x), T(a)>>, <<In(aur, x), T(x)>>},
        lv \in {0, 1}, both \in BOOLEAN, dbs \in {{core}, {core, aur}} }

RequestWorlds == Chains \cup Unfilled \cup Partial \cup InVain \cup TwoPlaces
                 \cup UNION { Sibling(h) : h \in SUBSET {"repo", "local"} }

(* b is installed. *)
SiblingWorlds == Sibling({"local"})
=============================================================================
