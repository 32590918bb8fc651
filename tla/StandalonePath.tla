---------------------------- MODULE StandalonePath ----------------------------
(***************************************************************************)
(* The single-file distribution, packages/javascript-standalone: the same  *)
(* functions, statement for statement, in one file that imports nothing.   *)
(* An identity written by one distribution is read by the other.           *)
(***************************************************************************)
EXTENDS ComponentName

\* The operations.
Standalone_normalize(raw, o) == Normalize(raw, o)
Standalone_relative(root, target) == Relative(root, target)
Standalone_join(root, rel) == JoinPath(root, rel)
Standalone_normalizeRelative(raw) == NormalizeRelative(raw)
Standalone_sanitizeComponent(name, profile) == sanitizeComponent(name, profile)
Standalone_encodeGitRef(ref) == encodeGitRef(ref)
Standalone_toWin32(v) == ToWin32(v)
Standalone_toWSL(v, mount) == ToWSL(v, mount)
Standalone_toPOSIX(v) == ToPOSIX(v)

\* The functions of the file that the operations are made of.
Standalone_parseFileUri(v, o) == ParseFileUri(v, o)
Standalone_parseHierarchicalURIPath(raw, scheme, o) == ParseHierarchicalURIPath(raw, scheme, o)
Standalone_validateTargetProfile(v, target) == ValidateTargetProfile(v, target)
Standalone_validateWindowsPolicy(v, o) == ValidateWindowsPolicy(v, o)
Standalone_unwrapWindowsExtendedPrefix(v) == UnwrapWindowsExtendedPrefix(v)
Standalone_mapWSLDrive(v, mount) == MapWSLDrive(v, mount)
Standalone_normalizeMountRoot(mount) == NormalizeMountRoot(mount)
Standalone_nativePOSIXRepresentation(v) == NativePOSIXRepresentation(v)
Standalone_splitRoot(v) == SplitRoot(v)
Standalone_cleanComponents(rest, absolute, code) == CleanComponents(rest, absolute, code)
Standalone_cleanCanonical(v) == CleanCanonical(v)
Standalone_cleanCanonicalRelative(v) == CleanCanonicalRelative(v)
Standalone_validateCanonical(v, drives) == ValidateCanonical(v, drives)
Standalone_canonicalParts(v) == CanonicalParts(v)
Standalone_trimBoundaryCharacters(v, set, start) == Trimmed(v, set, start)
Standalone_escapeReservedWin32Component(v) == escapeReservedWin32Component(v)
=============================================================================
