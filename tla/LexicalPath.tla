----------------------------- MODULE LexicalPath -----------------------------
(***************************************************************************)
(* The lexical identity of a path: packages/ts/src/canonicalpath.  Every   *)
(* function returns Ok(value) or Err(code) where the code returns or       *)
(* throws, with its checks in the code's order.                            *)
(***************************************************************************)
EXTENDS PathText

(***************************************************************************)
(* Roots                                                                   *)
(***************************************************************************)
IsAsciiLetter(x) == x \in Letters

NeedsRelativeMarker(v) == Len(v) >= 2 /\ IsAsciiLetter(v[1]) /\ v[2] = ":"
HasDriveRoot(v) == NeedsRelativeMarker(v) /\ Len(v) >= 3 /\ v[3] = "/"
IsDriveRelative(v) == NeedsRelativeMarker(v) /\ (Len(v) = 2 \/ v[3] # "/")
IsUriWindowsDrivePath(v) == StartsWith(v, <<"/">>) /\ HasDriveRoot(Tail(v))
IsAbsolutePathLike(v) ==
    StartsWith(v, <<"/">>) \/ StartsWith(v, <<"\\", "\\">>) \/ HasDriveRoot(Slashed(v))

HasUriScheme(v) ==
    \E i \in 2..(Len(v) - 2) :
        /\ SubSeq(v, i, i + 2) = <<":", "/", "/">>
        /\ IsSchemeText(SubSeq(v, 1, i - 1))

IsWindowsRoot(kind) == kind \notin {"posix", "relative"}
ExtendedMark == <<"/", "/", "?", "/">>

UncOk(parts) ==
    Len(parts) >= 2 /\ \A i \in {1, 2} : parts[i] \notin {<<>>, <<".">>, <<".", ".">>}

Root(kind, prefix, rest) == [kind |-> kind, prefix |-> prefix, rest |-> rest]
DriveRoot(kind, mark, v) == Ok(Root(kind, mark \o <<Lower(v[1]), ":", "/">>, From(v, 4)))
UncRoot(kind, mark, parts) ==
    IF UncOk(parts)
    THEN Ok(Root(kind, mark \o parts[1] \o <<"/">> \o parts[2], Joined(From(parts, 3))))
    ELSE Err("ERR_INVALID_PATH")

ParsedRoot(v) ==
    IF StartsWith(v, ExtendedMark) THEN
        LET suffix == From(v, 5)
        IN IF HasDriveRoot(suffix) THEN DriveRoot("extended-drive", ExtendedMark, suffix)
           ELSE IF StartsWith(suffix, <<"UNC", "/">>)
           THEN UncRoot("extended-unc", ExtendedMark \o <<"UNC", "/">>, Split(From(suffix, 3)))
           ELSE Err("ERR_INVALID_PATH")
    ELSE IF HasDriveRoot(v) THEN DriveRoot("drive", <<>>, v)
    ELSE IF StartsWith(v, <<"/", "/">>) THEN UncRoot("unc", <<"/", "/">>, Split(From(v, 3)))
    ELSE IF StartsWith(v, <<"/">>) THEN Ok(Root("posix", <<"/">>, Tail(v)))
    ELSE Unless(IsDriveRelative(v), "ERR_DRIVE_RELATIVE_PATH", Ok(Root("relative", <<>>, v)))

SplitRoot(v) ==
    Unless(Has(v, NUL), "ERR_NUL_BYTE",
      Then(ParsedRoot(v), LAMBDA root :
        Unless(IsWindowsRoot(root.kind) /\ Has(v, "\\"), "ERR_INVALID_PATH", Ok(root))))

UnwrapWindowsExtendedPrefix(v) ==
    IF ~StartsWith(v, ExtendedMark) THEN Ok(v)
    ELSE Then(SplitRoot(v), LAMBDA root :
           IF root.kind = "extended-drive" THEN Ok(From(root.prefix, 5) \o root.rest)
           ELSE Ok(<<"/", "/">> \o From(root.prefix, 7)
                   \o IF root.rest = <<>> THEN <<>> ELSE <<"/">> \o root.rest))

(***************************************************************************)
(* Components                                                              *)
(***************************************************************************)
\* Wrong: a drive-like first name is left bare.
MarkRelativeBare(v) == IF v = <<>> THEN <<".">> ELSE v

MarkRelative(v) ==
    IF v = <<>> THEN <<".">> ELSE IF NeedsRelativeMarker(v) THEN <<".", "/">> \o v ELSE v

\* One component after another: dot dropped, dot-dot takes the last one back.
CleanComponents(rest, absolute, outsideCode) ==
    LET parts == Split(rest)
        clean[i \in 0..Len(parts)] ==
          IF i = 0 THEN Ok(<<>>)
          ELSE LET part == parts[i]
               IN Then(clean[i - 1], LAMBDA kept :
                    IF part \in {<<>>, <<".">>} THEN Ok(kept)
                    ELSE IF part # <<".", ".">> THEN Ok(Append(kept, part))
                    ELSE IF kept # <<>> THEN Ok(Front(kept))
                    ELSE Unless(~absolute, outsideCode, Ok(kept)))
    IN clean[Len(parts)]

CleanCanonical(v) ==
    Unless(v = <<>>, "ERR_EMPTY_PATH",
      Then(SplitRoot(v), LAMBDA root :
        Then(CleanComponents(root.rest, root.kind # "relative", "ERR_INVALID_PATH"), LAMBDA parts :
          LET joined == Joined(parts)
          IN Ok(CASE root.kind = "relative" -> MarkRelative(joined)
                  [] root.kind # "relative" /\ joined = <<>> -> root.prefix
                  [] OTHER -> root.prefix \o (IF EndsWith(root.prefix, "/") THEN <<>> ELSE <<"/">>)
                              \o joined))))

NativePOSIXRepresentation(v) ==
    Unless(StartsWith(v, <<"/", "/">>) /\ ~StartsWith(v, <<"/", "/", "/">>), "ERR_INVALID_PATH",
      Ok(IF StartsWith(v, <<"/">>) THEN <<"/">> \o AfterSlashes(v) ELSE <<".", "/">> \o v))

NormalizeMountRoot(mount) ==
    IF mount = <<>> THEN Ok(<<"/", "mnt">>)
    ELSE Unless(Has(mount, NUL), "ERR_NUL_BYTE",
           Unless(~StartsWith(mount, <<"/">>), "ERR_INVALID_PATH",
             Then(NativePOSIXRepresentation(mount), CleanCanonical)))

\* mount: the drive under it if the text is one, otherwise the text as it is.
MapWSLDrive(v, mount) ==
    Then(NormalizeMountRoot(mount), LAMBDA root :
      LET prefix == IF root = <<"/">> THEN root ELSE Append(root, "/")
          rest == From(v, Len(prefix) + 1)
          mapped == /\ StartsWith(v, prefix)
                    /\ rest # <<>> /\ IsAsciiLetter(rest[1])
                    /\ Len(rest) = 1 \/ rest[2] = "/"
      IN IF ~mapped THEN Ok(v)
         ELSE Unless(Has(rest, "\\"), "ERR_INVALID_PATH",
                Ok(<<Lower(rest[1]), ":", "/">> \o From(rest, 3))))

(***************************************************************************)
(* What is canonical.  drives: an upper-case drive letter is let through.  *)
(***************************************************************************)
Comparable(v, root, drives) ==
    CASE drives /\ root.kind = "drive" -> [v EXCEPT ![1] = Lower(@)]
      [] drives /\ root.kind = "extended-drive" -> [v EXCEPT ![5] = Lower(@)]
      [] OTHER -> v

ValidateCanonical(v, drives) ==
    Then(SplitRoot(v), LAMBDA root :
      Then(CleanCanonical(v), LAMBDA clean :
        Unless(clean # Comparable(v, root, drives), "ERR_INVALID_PATH", Ok(root))))

CanonicalParts(v) ==
    Then(ValidateCanonical(v, FALSE), LAMBDA root :
      Unless(root.kind = "relative", "ERR_INVALID_PATH",
        Ok([prefix |-> root.prefix,
            parts |-> IF root.rest = <<>> THEN <<>> ELSE Split(root.rest)])))

CleanCanonicalRelative(v) ==
    Unless(v = <<>>, "ERR_EMPTY_PATH",
      Then(SplitRoot(v), LAMBDA root :
        Unless(root.kind # "relative", "ERR_ABSOLUTE_PATH",
          Then(CleanComponents(root.rest, FALSE, "ERR_OUTSIDE_ROOT"), LAMBDA parts :
            Ok(MarkRelative(Joined(parts)))))))

(***************************************************************************)
(* normalize                                                               *)
(***************************************************************************)
HasWindowsADS(v) == Then(SplitRoot(v), LAMBDA root : Ok(Has(root.rest, ":")))

DeviceNames == {<<"CON">>}
HasReservedDeviceName(v) ==
    Then(SplitRoot(v), LAMBDA root :
      Ok(\E part \in ToSet(Split(root.rest)) \ {<<>>, <<".">>, <<".", ".">>} :
           LET stem == IndexFrom(Mapped(part, LAMBDA x : IF x = ":" THEN "." ELSE x), 1, ".")
           IN Mapped(SubSeq(part, 1, stem - 1), Upper) \in DeviceNames))

ValidateWindowsPolicy(v, o) ==
    Then(IF o.rejectADS THEN HasWindowsADS(v) ELSE Ok(FALSE), LAMBDA ads :
      Unless(ads, "ERR_ALTERNATE_DATA_STREAM",
        Then(IF o.rejectDeviceNames THEN HasReservedDeviceName(v) ELSE Ok(FALSE), LAMBDA device :
          Unless(device, "ERR_RESERVED_DEVICE_NAME", Ok(v)))))

ValidateTargetProfile(v, target) ==
    Then(SplitRoot(v), LAMBDA root :
      Unless(\/ target = "posix" /\ IsWindowsRoot(root.kind)
             \/ target = "win32-drive" /\ root.kind \in {"posix", "unc", "extended-unc"},
             "ERR_INVALID_PATH", Ok(v)))

\* decodeURIComponent: once, every escape, or not at all.
DecodeURIComponent(s) ==
    Unless(Has(s, "%"), "ERR_INVALID_PERCENT_ENCODING", Ok(Mapped(s, Unescaped)))

ParseHierarchicalURIPath(raw, scheme, o) ==
    LET rest == From(raw, 5)
        slash == IndexFrom(rest, 1, "/")
    IN Unless(o.rejectEncodedSlash /\ (Has(raw, "%2F") \/ Has(raw, "%5C")), "ERR_ENCODED_SEPARATOR",
         Unless(slash > Len(rest), "ERR_INVALID_URI",
           Then(DecodeURIComponent(From(rest, slash)), LAMBDA path :
             Then(DecodeURIComponent(SubSeq(rest, 1, slash - 1)), LAMBDA authority :
               Unless(Has(path, NUL) \/ Has(authority, NUL), "ERR_NUL_BYTE",
                 Ok(IF scheme = "file" /\ Mapped(authority, Lower) \notin {<<>>, <<"localhost">>}
                    THEN <<"/", "/">> \o authority \o path ELSE path))))))

ParseFileUri(v, o) ==
    LET scheme(name) == StartsWith(v, <<name, ":", "/", "/">>)
    IN CASE scheme("file") /\ o.allowFileUri -> ParseHierarchicalURIPath(v, "file", o)
         [] scheme("vscode-file") /\ o.allowVSCodeFileUri -> ParseHierarchicalURIPath(v, "vscode-file", o)
         [] OTHER -> Err("ERR_UNSUPPORTED_URI_SCHEME")

\* A text that starts with one slash or with three and more, and that no URI
\* made a drive, is read by POSIX rules before a drive is looked for in it.
PosixMountCandidate(v, uriInput, o) ==
    /\ o.wslEnabled
    /\ StartsWith(v, <<"/">>)
    /\ ~StartsWith(v, <<"/", "/">>) \/ StartsWith(v, <<"/", "/", "/">>)
    /\ ~(uriInput /\ IsUriWindowsDrivePath(v))

MountedValue(v, o) ==
    Then(NativePOSIXRepresentation(v), LAMBDA native :
      Then(ValidateWindowsPolicy(native, o), LAMBDA allowed :
        Then(CleanCanonical(allowed), LAMBDA clean :
          IF o.targetProfile = "posix" THEN Ok(clean) ELSE MapWSLDrive(clean, o.mountRoot))))

WindowsValue(v, o) ==
    Then(IF o.preserveExtendedLength THEN Ok(Slashed(v)) ELSE UnwrapWindowsExtendedPrefix(Slashed(v)),
         LAMBDA value : Ok(IF IsUriWindowsDrivePath(value) THEN Tail(value) ELSE value))

\* Wrong: a saved identity is read like host text.
HostValueRereadsCanonical(v, o) ==
    IF o.sourceHost = "posix" THEN Unless(o.wslEnabled, "ERR_INVALID_PATH", NativePOSIXRepresentation(v))
    ELSE Then(IF HasUriScheme(v) THEN ParseFileUri(v, o) ELSE Ok(v), LAMBDA value :
           IF PosixMountCandidate(value, HasUriScheme(v), o) THEN MountedValue(value, o)
           ELSE WindowsValue(value, o))

HostValue(v, o) ==
    CASE o.sourceHost = "posix" ->
           Unless(o.wslEnabled, "ERR_INVALID_PATH", NativePOSIXRepresentation(v))
      [] o.sourceHost = "canonical" -> Ok(v)
      [] OTHER ->
           Then(IF HasUriScheme(v) THEN ParseFileUri(v, o) ELSE Ok(v), LAMBDA value :
             IF PosixMountCandidate(value, HasUriScheme(v), o) THEN MountedValue(value, o)
             ELSE WindowsValue(value, o))

Normalize(text, o) ==
    LET raw == IF o.trimOuterWhitespace THEN Trimmed(text, {" "}, TRUE) ELSE text
    IN Unless(raw = <<>>, "ERR_EMPTY_PATH",
         Unless(Has(raw, NUL), "ERR_NUL_BYTE",
           Then(NormalizeMountRoot(o.mountRoot), LAMBDA mount :
             Then(HostValue(raw, o), LAMBDA value :
               Then(ValidateWindowsPolicy(value, o), LAMBDA allowed :
                 Then(CleanCanonical(allowed), LAMBDA clean :
                   ValidateTargetProfile(clean, o.targetProfile)))))))

(***************************************************************************)
(* Operations on identities                                                *)
(***************************************************************************)
\* Wrong: the marker is forgotten.
RelativeUnmarked(root, target) ==
    Then(CanonicalParts(root), LAMBDA r :
      Then(CanonicalParts(target), LAMBDA t :
        Unless(r.prefix # t.prefix \/ ~StartsWith(t.parts, r.parts), "ERR_OUTSIDE_ROOT",
          Ok(IF t.parts = r.parts THEN <<".">> ELSE Joined(From(t.parts, Len(r.parts) + 1))))))

Relative(root, target) ==
    Then(CanonicalParts(root), LAMBDA r :
      Then(CanonicalParts(target), LAMBDA t :
        Unless(r.prefix # t.prefix \/ ~StartsWith(t.parts, r.parts), "ERR_OUTSIDE_ROOT",
          Ok(MarkRelative(Joined(From(t.parts, Len(r.parts) + 1)))))))

\* Wrong: the whole path is cleaned, the operand by itself is not.
JoinPathCleanedOnce(root, rel) ==
    Then(ValidateCanonical(root, FALSE), LAMBDA parsed :
      CleanCanonical(root \o (IF EndsWith(root, "/") THEN <<>> ELSE <<"/">>) \o rel))

JoinPath(root, rel) ==
    Then(ValidateCanonical(root, FALSE), LAMBDA parsed :
      Unless(IsWindowsRoot(parsed.kind) /\ Has(rel, "\\"), "ERR_INVALID_PATH",
        Then(CleanCanonicalRelative(rel), LAMBDA clean :
          IF clean = <<".">> THEN Ok(root)
          ELSE LET components == IF StartsWith(clean, <<".", "/">>) THEN From(clean, 3) ELSE clean
               IN CleanCanonical(root \o (IF EndsWith(root, "/") THEN <<>> ELSE <<"/">>)
                                 \o components))))

NormalizeRelative(raw) ==
    IF raw = <<".">> THEN Ok(raw)
    ELSE Unless(raw = <<>>, "ERR_EMPTY_PATH",
      Unless(Has(raw, NUL), "ERR_NUL_BYTE",
        Unless(IsAbsolutePathLike(raw), "ERR_ABSOLUTE_PATH",
          Unless(IsDriveRelative(raw), "ERR_DRIVE_RELATIVE_PATH",
            Unless(Has(raw, "\\"), "ERR_INVALID_PATH",
              Then(CleanComponents(raw, FALSE, "ERR_OUTSIDE_ROOT"), LAMBDA parts :
                Unless(parts = <<>>, "ERR_EMPTY_PATH", Ok(Joined(parts)))))))))

\* What a file client of canonicalfs (validate.ts) lets through.
validateRelativePath(rel) ==
    IF rel \in {<<>>, <<".">>} THEN Ok(<<".">>)
    ELSE Unless(Has(rel, NUL), "ERR_NUL_BYTE",
      Unless(IsAbsolutePathLike(rel), "ERR_ABSOLUTE_PATH",
        Unless(NeedsRelativeMarker(rel), "ERR_DRIVE_RELATIVE_PATH",
          Unless(Has(rel, "\\"), "ERR_OUTSIDE_ROOT",
            Then(CleanComponents(rel, FALSE, "ERR_OUTSIDE_ROOT"), LAMBDA parts :
              Ok(IF parts = <<>> THEN <<".">> ELSE Joined(parts)))))))

ToWin32(v) ==
    Then(ValidateCanonical(v, TRUE), LAMBDA root :
      Unless(\/ root.kind = "posix"
             \/ root.kind = "relative" /\ (Has(v, "\\") \/ StartsWith(v, <<".", "/">>)),
             "ERR_INVALID_PATH",
        Ok(CASE root.kind = "drive" -> <<Upper(root.prefix[1]), ":", "\\">> \o Backslashed(root.rest)
             [] root.kind = "extended-drive" ->
                  <<"\\", "\\", "?", "\\", Upper(root.prefix[5]), ":", "\\">> \o Backslashed(root.rest)
             [] OTHER -> Backslashed(v))))

\* Wrong: a mount at the root keeps its slash.
ToWSLDoubleSlash(v, mount) ==
    Then(NormalizeMountRoot(mount), LAMBDA mountRoot :
      Then(ValidateCanonical(v, TRUE), LAMBDA root :
        IF ~IsWindowsRoot(root.kind) THEN Ok(v)
        ELSE Unless(root.kind # "drive", "ERR_INVALID_PATH",
               Ok(mountRoot \o <<"/", root.prefix[1]>>
                  \o IF root.rest = <<>> THEN <<>> ELSE <<"/">> \o root.rest))))

ToWSL(v, mount) ==
    Then(NormalizeMountRoot(mount), LAMBDA mountRoot :
      Then(ValidateCanonical(v, TRUE), LAMBDA root :
        IF ~IsWindowsRoot(root.kind) THEN Ok(v)
        ELSE Unless(root.kind # "drive", "ERR_INVALID_PATH",
               Ok((IF mountRoot = <<"/">> THEN <<>> ELSE mountRoot) \o <<"/", root.prefix[1]>>
                  \o IF root.rest = <<>> THEN <<>> ELSE <<"/">> \o root.rest))))

ToPOSIX(v) ==
    Then(ValidateCanonical(v, FALSE), LAMBDA root :
      Unless(IsWindowsRoot(root.kind), "ERR_INVALID_PATH", Ok(v)))
=============================================================================
