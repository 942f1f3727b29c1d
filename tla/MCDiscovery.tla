--------------------------- MODULE MCDiscovery ---------------------------
(* Discovery on small trees: names that match a suffix (a), that do not (d) *)
(* and that are not UTF-8 (z).                                              *)
EXTENDS Discovery

Order == <<"a", "d", "z">>

\* A tree from the types of its paths; inode numbers count the paths.
Digit(n) == CHOOSE i \in 1..3 : Order[i] = n
Number(p) == FoldLeft(LAMBDA sum, n : 4 * sum + Digit(n), 0, p)
Tree(types) ==
  [p \in Paths |-> IF p \in DOMAIN types
                   THEN [type |-> types[p], id |-> Number(p), size |-> 1] ELSE None]

\* All trees of a and d, what lies in them is a file, a link or nothing.
Grounded(types) == \A p \in DOMAIN types : Len(p) > 1 => Front(p) \in DOMAIN types /\ types[Front(p)] = "dir"
Shapes(outer, inner) ==
  {types \in UNION {[S -> {"file", "dir", "link", "other"}] : S \in SUBSET (outer \cup inner)} :
     Grounded(types) /\ \A p \in DOMAIN types \cap inner : types[p] \in {"file", "link"}}

SmallTrees == {Tree(types) : types \in Shapes({<<"a">>, <<"d">>}, {<<"a", "a">>, <<"d", "a">>})}

\* Three levels, names that are not UTF-8, directories called like logs.
DeepTrees ==
  {Tree((<<"a">> :> "file") @@ (<<"d">> :> "dir") @@ (<<"d", "d">> :> "dir") @@
        (<<"d", "d", "a">> :> "file") @@ (<<"z">> :> "dir") @@ (<<"z", "a">> :> "file")),
   Tree((<<"a">> :> "dir") @@ (<<"a", "a">> :> "file") @@ (<<"a", "d">> :> "link") @@
        (<<"d">> :> "dir") @@ (<<"d", "a">> :> "dir") @@ (<<"d", "a", "a">> :> "file") @@
        (<<"d", "a", "z">> :> "file"))}

AllTrees == SmallTrees \cup DeepTrees
Places == {<<"a">>, <<"d">>, <<"d", "a">>, <<"d", "d">>}

Rule(d, r) == [dir |-> d, recursive |-> r, names |-> {"a"}]
AllSources ==
  {[explicit |-> e, rules |-> r] :
     e \in {<<>>, <<<<"a">>>>},
     r \in {<<>>, <<Rule(Root, TRUE)>>, <<Rule(Root, FALSE), Rule(<<"d">>, TRUE)>>}}
=============================================================================
