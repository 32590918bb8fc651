------------------------------- MODULE PathSpec -------------------------------
(***************************************************************************)
(* The second definition of a canonical path in the repository: what       *)
(* scripts/validate-spec.mjs demands of every value that a shared vector   *)
(* calls canonical.  It is written with regular expressions and shares no  *)
(* code with the implementations, so agreement with them is a result.      *)
(***************************************************************************)
EXTENDS PathText

LowerLetters == {"c", "d"}
DriveLike(v) == Len(v) >= 2 /\ v[1] \in Letters /\ v[2] = ":"
UncParts(parts) == Len(parts) >= 2 /\ \A i \in {1, 2} : parts[i] \notin {<<>>, <<".">>, <<".", ".">>}

\* A root of the text with what follows it, or a root that is none.
NoRoot == [ok |-> FALSE, windows |-> FALSE, prefix |-> <<>>, rest |-> <<>>]
Rooted(windows, prefix, rest) == [ok |-> TRUE, windows |-> windows, prefix |-> prefix, rest |-> rest]
RootedUnc(mark, parts) ==
    IF UncParts(parts)
    THEN Rooted(TRUE, mark \o parts[1] \o <<"/">> \o parts[2], Joined(From(parts, 3)))
    ELSE NoRoot

RootOf(v) ==
    LET extended == <<"/", "/", "?", "/">>
        lowerDrive(s) == Len(s) >= 3 /\ s[1] \in LowerLetters /\ s[2] = ":" /\ s[3] = "/"
        unc == extended \o <<"UNC", "/">>
    IN IF StartsWith(v, extended) THEN
           IF lowerDrive(From(v, 5)) THEN Rooted(TRUE, SubSeq(v, 1, 7), From(v, 8))
           ELSE IF StartsWith(v, unc) THEN RootedUnc(unc, Split(From(v, 7))) ELSE NoRoot
       ELSE IF lowerDrive(v) THEN Rooted(TRUE, SubSeq(v, 1, 3), From(v, 4))
       ELSE IF StartsWith(v, <<"/", "/">>) THEN RootedUnc(<<"/", "/">>, Split(From(v, 3)))
       ELSE IF StartsWith(v, <<"/">>) THEN Rooted(FALSE, <<"/">>, Tail(v))
       ELSE IF ~StartsWith(v, <<".", "/">>) THEN Rooted(FALSE, <<>>, v)
       ELSE IF DriveLike(From(v, 3)) THEN Rooted(FALSE, <<>>, From(v, 3)) ELSE NoRoot

AssertCanonicalPath(v) ==
    /\ v # <<>>
    /\ ~Has(v, NUL)
    /\ DriveLike(v) => Len(v) >= 3 /\ v[3] = "/" /\ v[1] \in LowerLetters
    /\ \/ v = <<".">>
       \/ LET root == RootOf(v)
          IN /\ root.ok
             /\ root.windows => ~Has(v, "\\")
             /\ \/ root.prefix # <<>> /\ v = root.prefix
                \/ /\ ~EndsWith(v, "/")
                   /\ ToSet(Split(root.rest)) \cap {<<>>, <<".">>, <<".", ".">>} = {}

AssertCanonicalRelativePath(v, rawPolicy) ==
    /\ AssertCanonicalPath(v)
    /\ ~StartsWith(v, <<"/">>) /\ ~DriveLike(v)
    /\ rawPolicy => ~Has(v, "\\") /\ ~StartsWith(v, <<".", "/">>)

\* The depth of a relative text never falls below its start.
AssertCleanableCanonicalRelativePath(v) ==
    LET parts == Split(v)
        names == {i \in DOMAIN parts : parts[i] \notin {<<>>, <<".">>, <<".", ".">>}}
        ups == {i \in DOMAIN parts : parts[i] = <<".", ".">>}
        depth[i \in 0..Len(parts)] ==
          IF i = 0 THEN 0
          ELSE depth[i - 1] + (IF i \in names THEN 1 ELSE IF i \in ups THEN -1 ELSE 0)
    IN /\ v # <<>> /\ ~Has(v, NUL)
       /\ ~StartsWith(v, <<"/">>) /\ ~DriveLike(v)
       /\ \A i \in 0..Len(parts) : depth[i] >= 0

\* May a vector of this operation record this result?  (The checks on one
\* vector of a cases file; join's relative operand is checked when it succeeds.)
NormalizeVector(raw, result) ==
    /\ Has(raw, NUL) => result.code = "ERR_NUL_BYTE"
    /\ IsOk(result) => AssertCanonicalPath(result.value)

\* The name of a git ref: its legible start and a digest of all of it.
Legible == Letters \cup {"x", "con", ".", "_", "-"}
gitRefSlug(raw, max) ==
    LET slug == Trimmed(Dashed(raw, ToSet(raw) \ Legible), {".", "_", "-"}, TRUE)
        cut == Trimmed(SubSeq(slug, 1, IF Len(slug) < max THEN Len(slug) ELSE max), {".", "_", "-"}, TRUE)
    IN IF cut = <<>> THEN <<"ref">> ELSE cut
gitRefExpected(raw, max) == <<"v2", "-">> \o gitRefSlug(raw, max) \o <<"-", "-">> \o Digest256(raw)
GitRefVector(raw, max, result) ==
    LET lone(i) == \/ raw[i] = "HIGH" /\ (i + 1 \in DOMAIN raw => raw[i + 1] # "LOW")
                   \/ raw[i] = "LOW" /\ (i - 1 \in DOMAIN raw => raw[i - 1] # "HIGH")
    IN CASE Has(raw, NUL) -> result.code = "ERR_NUL_BYTE"
         [] ~Has(raw, NUL) /\ (raw = <<>> \/ \E i \in DOMAIN raw : lone(i)) ->
              result.code = "ERR_INVALID_COMPONENT"
         [] OTHER -> result = Ok(gitRefExpected(raw, max)) /\ AssertCanonicalRelativePath(result.value, FALSE)

JoinVector(root, rel, result) ==
    /\ AssertCanonicalPath(root)
    /\ IsOk(result) => AssertCleanableCanonicalRelativePath(rel) /\ AssertCanonicalPath(result.value)
RelativeVector(root, target, result) ==
    /\ AssertCanonicalPath(root) /\ AssertCanonicalPath(target)
    /\ IsOk(result) => AssertCanonicalRelativePath(result.value, FALSE)

\* What the vectors of the Unity bridge and of the scoped paths may record.
isAllowedUnityPath(v) == \E top \in {"Assets", "Packages"} : v = <<top>> \/ StartsWith(v, <<top, "/">>)
assertUnityBridgePath(v) == AssertCanonicalRelativePath(v, TRUE) /\ isAllowedUnityPath(v)
assertSafeFileName(v, maxLength) ==
    v # <<>> /\ ToSet(v) \cap {NUL, "\\", "/", ":", "LF"} = {} /\ Len(v) <= maxLength
UnityBridgeVector(operation, raw, maxLength, result) ==
    /\ IsOk(result) => IF operation = "makeSafeFileName" THEN assertSafeFileName(result.value, maxLength)
                       ELSE assertUnityBridgePath(result.value)
    /\ Has(raw, NUL) => result.code = "ERR_NUL_BYTE"

assertUnityMcpRelativePath(v) ==
    AssertCanonicalRelativePath(v, TRUE) /\ ToSet(v) \cap {"%2F", "%5C"} = {}

\* The roots that spec/testdata lists for each scope (the cache is no project path).
allowedRoots(scope) ==
    CASE scope = "unity_asset" -> {<<"Assets">>, <<"Packages">>}
      [] scope = "knowledge" -> {<<"Assets", "/", "UnityMcpKnowledge">>}
      [] scope = "package_manifest" ->
           {<<"Packages", "/", "manifest.json">>, <<"Packages", "/", "packages-lock.json">>}
      [] scope = "artifact" ->
           {<<"Library", "/", "SGGUnityMcp", "/", name>> : name \in {"job-artifacts", "screenshots"}}
      [] scope = "temp_session" -> {<<"Temp", "/", "SGGUnityMcp">>}
      [] scope = "gateway_cache" -> {<<"index">>}
UnityMcpScopeVector(scope, raw, result) ==
    /\ IsOk(result) => /\ assertUnityMcpRelativePath(result.value)
                       /\ \E r \in allowedRoots(scope) : IsPrefix(Split(r), Split(result.value))
    /\ Has(raw, NUL) => result.code = "ERR_NUL_BYTE"
=============================================================================
