----------------------------- MODULE MCZipExtract -----------------------------
(* Two extractions into the directory "d", of archives that lie about sizes,  *)
(* name a file twice, use a file as a directory, or break off.                *)
EXTENDS ZipExtract, TLC

MCNames == {"d", "a", "f"}
MCPaths == UNION {[1..n -> MCNames] : n \in 0..3}
MCDestination == <<"d">>

E(path, kind, declared, actual, sound) ==
  [path |-> path, kind |-> kind, declared |-> declared, actual |-> actual, sound |-> sound]
Honest == E(<<"f">>, "file", 1, 1, TRUE)
Nested == E(<<"a", "f">>, "file", 1, 2, TRUE)
MCArchives ==
  {<<Nested, Honest>>, <<Honest, Nested>>, <<Honest, Honest>>,
   <<E(<<"a">>, "dir", 0, 0, TRUE), E(<<"a", "f">>, "file", 1, 1, FALSE)>>,
   <<Honest, E(<<"a">>, "refused", 0, 0, TRUE)>>,
   <<E(<<"a">>, "file", 0, 3, TRUE)>>,
   <<E(<<"a", "f">>, "dir", 0, 0, TRUE), Honest>>,
   <<E(<<"a", "f">>, "dir", 0, 0, TRUE), E(<<"f", "a">>, "dir", 0, 0, TRUE)>>}

Empty == [p \in MCPaths |-> Nothing]
MCFileSystems ==
  {Empty, [Empty EXCEPT ![<<"d">>] = Dir(Nobody), ![<<"d", "f">>] = File(Nobody, 0, 0)],
   [Empty EXCEPT ![<<"d">>] = Dir(Nobody), ![<<"d", "a">>] = Link],
   [Empty EXCEPT ![<<"d">>] = File(Nobody, 0, 0)]}
Symmetry == Permutations(Extractions)
=============================================================================
