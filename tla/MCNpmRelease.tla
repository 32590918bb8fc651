---------------------------- MODULE MCNpmRelease ----------------------------
(* NpmRelease with its three packages, an old and a new full release and a *)
(* Unity release of the new version.                                       *)
EXTENDS NpmRelease

CONSTANTS ts, standalone, unity, old, new, newUnity

MCPackages == {ts, standalone, unity}
MCReleases == {old, new, newUnity}
MCRank     == [p \in MCPackages |-> CASE p = ts -> 1 [] p = standalone -> 2 [] p = unity -> 3]
MCKind     == [r \in MCReleases |-> IF r = newUnity THEN "unity" ELSE "full"]
MCVersion  == [r \in MCReleases |-> IF r = old THEN 1 ELSE 2]
=============================================================================
