------------------------------ MODULE ScopedPath ------------------------------
(***************************************************************************)
(* The paths the Unity gateway lets through:                               *)
(* packages/ts/src/unity-gateway/path-service.ts.  A scoped path is named  *)
(* below the root of its scope, a Unity path below Assets or Packages, and *)
(* a scoped glob is a scoped path with wildcards.                          *)
(***************************************************************************)
EXTENDS ComponentName

CONSTANTS MaxScopedLength,   \* 4096 units of a scoped path
          MaxGlobLength,     \* 512 units of a scoped glob
          MaxPartLength      \* 255 units of one component of either

LengthsAssumption ==
    /\ MaxScopedLength \in Nat /\ MaxGlobLength \in Nat /\ MaxPartLength \in Nat
ASSUME LengthsAssumption

WorkflowScopes == {"knowledge", "artifact"}
Scopes == WorkflowScopes \cup {"unity_asset", "package_manifest", "gateway_cache", "temp_session"}

startsWithAny(v, roots) == \E r \in roots : v = r \/ StartsWith(v, Append(r, "/"))

\* Roots that a knowledge path may not seem to name again.
ScopeRoots ==
    { <<name>> : name \in {"Assets", "AssetsEvil", "Packages", "PackagesEvil", "ProjectSettings",
                           "Library", "Temp", "UnityMcpKnowledge", "UnityMcpKnowledgeEvil",
                           "UnityMcpArtifacts", "UnityMcpGatewayCache", "UnityMcpTempSession"} }
isPlainScopeRelative(v) == ~startsWithAny(v, ScopeRoots)
\* The first component up to a wildcard that no line terminator follows.
isPlainScopeGlob(v) ==
    LET first == Split(v)[1]
        cuts == {k \in DOMAIN first : first[k] \in {"*", "?"} /\ ~Has(From(first, k), "LF")}
        literal == IF cuts = {} THEN first ELSE SubSeq(first, 1, Min(cuts) - 1)
    IN isPlainScopeRelative(literal)

EncodedSeparators == {"%2F", "%5C", "%252F", "%255C"}
HasDotDot(v) == \E part \in ToSet(Split(v)) : part = <<".", ".">>

\* The checks that a scoped path and a scoped glob share, in their order.
ScopedSyntax(v) ==
    IF Has(v, NUL) THEN "ERR_NUL_BYTE"
    ELSE IF \E name \in {"file", "FILE"} : StartsWith(v, <<name, ":", "/", "/">>)
         THEN "ERR_UNSUPPORTED_URI_SCHEME"
    ELSE IF ToSet(v) \cap EncodedSeparators # {} THEN "ERR_ENCODED_SEPARATOR"
    ELSE IF IsAbsolutePathLike(v) THEN "ERR_ABSOLUTE_PATH"
    ELSE IF NeedsRelativeMarker(v) THEN "ERR_DRIVE_RELATIVE_PATH"
    ELSE IF Has(v, "\\") THEN "ERR_INVALID_PATH"
    ELSE IF HasDotDot(v) THEN "ERR_OUTSIDE_ROOT"
    ELSE IF \E part \in ToSet(Split(v)) :
              \/ part \in {<<>>, <<".">>}
              \/ Has(part, ":") \/ EndsWith(part, ".") \/ EndsWith(part, " ")
              \/ Len(part) > MaxPartLength
         THEN "ERR_INVALID_PATH"
    ELSE "ok"

validateScopedRelativeInput(v) ==
    Unless(v = <<>>, "ERR_EMPTY_PATH",
      Unless(ScopedSyntax(v) # "ok", ScopedSyntax(v),
        Unless(Len(v) > MaxScopedLength, "ERR_INVALID_PATH", Ok(v))))

validateScopedGlobInput(v) ==
    Unless(v = <<>>, "ERR_EMPTY_PATH",
      Unless(Len(v) > MaxGlobLength \/ (~Has(v, "*") /\ ~Has(v, "?")), "ERR_INVALID_PATH",
        Unless(ScopedSyntax(v) # "ok", ScopedSyntax(v), Ok(v))))

ArtifactFolders == {<<"job-artifacts">>, <<"screenshots">>}
Manifests == {<<"Packages", "/", "manifest.json">>, <<"Packages", "/", "packages-lock.json">>}

\* What a scope puts before the path, and which paths it allows.
ScopePrefix(scope) ==
    CASE scope = "knowledge" -> <<"Assets", "/", "UnityMcpKnowledge", "/">>
      [] scope = "artifact" -> <<"Library", "/", "SGGUnityMcp", "/">>
      [] scope = "temp_session" -> <<"Temp", "/", "SGGUnityMcp", "/">>
      [] OTHER -> <<>>
ScopeAllows(scope, v) ==
    CASE scope = "unity_asset" -> startsWithAny(v, {<<"Assets">>, <<"Packages">>})
      [] scope = "package_manifest" -> v \in Manifests
      [] scope \in {"knowledge", "temp_session"} -> isPlainScopeRelative(v)
      [] scope = "artifact" -> startsWithAny(v, ArtifactFolders)
      [] scope = "gateway_cache" -> startsWithAny(v, {<<"index">>})

\* The project-relative path (the cache-relative one of the cache scope).
normalizeScopedPath(scope, raw) ==
    Then(validateScopedRelativeInput(raw), LAMBDA clean :
      Unless(scope = "package_manifest" /\ clean \notin Manifests /\ startsWithAny(clean, Manifests),
             "ERR_INVALID_PATH",
        Unless(~ScopeAllows(scope, clean), "ERR_OUTSIDE_ROOT", Ok(ScopePrefix(scope) \o clean))))

toScopedCanonicalPath(projectRoot, scope, raw) ==
    Then(normalizeScopedPath(scope, raw), LAMBDA path :
      Unless(scope = "gateway_cache", "ERR_INVALID_PATH", JoinPath(projectRoot, path)))

normalizeScopedGlobPattern(scope, raw) ==
    Then(validateScopedGlobInput(raw), LAMBDA clean :
      Unless(IF scope = "artifact" THEN ~startsWithAny(clean, ArtifactFolders)
             ELSE ~isPlainScopeGlob(clean), "ERR_OUTSIDE_ROOT", Ok(clean)))

(***************************************************************************)
(* Unity paths and file names                                              *)
(***************************************************************************)
isAllowedUnityRoot(v) == startsWithAny(v, {<<"Assets">>, <<"Packages">>})

normalizeUnityAssetPath(raw) ==
    LET v == Slashed(raw)
    IN Unless(raw = <<>>, "ERR_EMPTY_PATH",
         Unless(Has(raw, NUL), "ERR_NUL_BYTE",
           Unless(NeedsRelativeMarker(v), "ERR_ABSOLUTE_PATH",
             Unless(HasDotDot(v), "ERR_OUTSIDE_ROOT",
               Unless(Has(v, ":"), "ERR_INVALID_PATH",
                 Then(NormalizeRelative(v), LAMBDA clean :
                   Unless(~isAllowedUnityRoot(clean), "ERR_INVALID_PATH", Ok(clean))))))))

normalizeProjectRoot(raw, o) ==
    Then(Normalize(raw, o), LAMBDA root :
      Then(ValidateCanonical(root, FALSE), LAMBDA parsed :
        Unless(parsed.kind = "relative", "ERR_INVALID_PATH", Ok(root))))

fromUnityAssetPath(root, raw) ==
    Then(normalizeUnityAssetPath(raw), LAMBDA clean : JoinPath(root, clean))

toUnityAssetPath(root, path) ==
    Then(Relative(root, path), LAMBDA asset :
      Unless(Has(asset, "\\"), "ERR_INVALID_PATH", normalizeUnityAssetPath(asset)))

\* A generated file name: separators become one dash, the ends are trimmed, a
\* device name is marked, and what is too long ends in eight digits of a hash.
Digest == [i \in 1..8 |-> "#"]
trimGeneratedName(v) ==
    LET kept == Trimmed(v, Trimmable, FALSE) IN IF kept = <<>> THEN <<"file">> ELSE kept
\* room: the units kept free for the dashes and the digits.
generatedName(input, maxLength, room) ==
    Unless(maxLength < 1 \/ input = <<>>, "ERR_INVALID_COMPONENT",
      Unless(Has(input, NUL), "ERR_NUL_BYTE",
        LET trimmed == Trimmed(Dashed(input, Separators), Trimmable, TRUE)
            safe == escapeReservedWin32Component(IF trimmed = <<>> THEN <<"file">> ELSE trimmed)
        IN Ok(IF Len(safe) <= maxLength THEN safe
              ELSE IF maxLength <= 10 THEN trimGeneratedName(SubSeq(safe, 1, maxLength))
              ELSE trimGeneratedName(SubSeq(safe, 1, maxLength - room)) \o <<"-", "-">> \o Digest)))
\* Wrong: the dashes are not counted.
makeSafeFileNameTooLong(input, maxLength) == generatedName(input, maxLength, 8)
makeSafeFileName(input, maxLength) == generatedName(input, maxLength, 10)
=============================================================================
