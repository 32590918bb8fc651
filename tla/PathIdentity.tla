---------------------------- MODULE PathIdentity ----------------------------
(***************************************************************************)
(* The life of one path identity.  A host text of any shape is typed and   *)
(* normalized under some options; the identity that comes out is kept, and *)
(* from then on it is descended with join, taken apart and put together    *)
(* again with relative and join, extended by names made from arbitrary     *)
(* text, read back from storage, and sent to a host and back as win32, WSL *)
(* or POSIX text.  Two distributions take turns: what one of them wrote,   *)
(* the other reads.                                                        *)
(***************************************************************************)
EXTENDS StandalonePath, PathSpec

CONSTANTS Starts,      \* what a typed text may start with
          Names,       \* the components that may follow
          MaxNames,    \* how many of them at most
          Relatives,   \* the relative operands given to join
          RawNames,    \* the texts that components are made from
          Refs,        \* the git refs that components are made from
          MaxLength,   \* the longest identity that is descended further
          Options      \* the option records in use

OptionRecords ==
    [sourceHost : STRING, targetProfile : STRING, mountRoot : Seq(STRING),
     trimOuterWhitespace : BOOLEAN, wslEnabled : BOOLEAN,
     allowFileUri : BOOLEAN, allowVSCodeFileUri : BOOLEAN, rejectEncodedSlash : BOOLEAN,
     preserveExtendedLength : BOOLEAN, rejectDeviceNames : BOOLEAN, rejectADS : BOOLEAN]

ASSUME IdentityAssumption ==
    /\ Starts \cup Names \cup Relatives \cup RawNames \cup Refs \subseteq Seq(STRING)
    /\ {MaxNames, MaxLength, MaxSlug} \subseteq Nat
    /\ Options \subseteq OptionRecords
    \* The class of every symbol of a ref is known, and no digest is a separator.
    /\ Refs \subseteq Seq(Legible \cup Illegible \cup {NUL})
    /\ \A ref \in Refs : ToString(ref) \notin Separators \cup {NUL}

VARIABLES raw,     \* the typed text, or the text of the last name
          names,   \* how many components were typed
          opts,    \* the options it is normalized with
          root,    \* the identity normalize returned first
          path,    \* the identity now
          last,    \* the last operation
          code     \* its error code, or ok
vars == <<raw, names, opts, root, path, last, code>>

CanonicalHost == [sourceHost |-> "canonical", targetProfile |-> "portable",
                  trimOuterWhitespace |-> FALSE, wslEnabled |-> FALSE, mountRoot |-> <<>>,
                  allowFileUri |-> FALSE, allowVSCodeFileUri |-> FALSE, rejectEncodedSlash |-> TRUE,
                  preserveExtendedLength |-> FALSE, rejectDeviceNames |-> FALSE, rejectADS |-> FALSE]
PosixHost == [CanonicalHost EXCEPT !.sourceHost = "posix"]
AnyHost == [CanonicalHost EXCEPT !.sourceHost = "auto"]
Win32Host == [AnyHost EXCEPT !.preserveExtendedLength = TRUE]
WSLHost(mount) == [AnyHost EXCEPT !.wslEnabled = TRUE, !.mountRoot = mount]

Typing == last = "type"
Named == ~Typing /\ path # <<>>

Init == /\ opts \in Options /\ raw \in Starts
        /\ names = 0 /\ root = <<>> /\ path = <<>> /\ last = "type" /\ code = "ok"

Type(name) ==
    /\ Typing /\ names < MaxNames
    /\ raw' = raw \o (IF names = 0 THEN <<>> ELSE <<"/">>) \o name
    /\ names' = names + 1
    /\ UNCHANGED <<opts, root, path, last, code>>

\* An error leaves no identity.
NormalizeRaw ==
    /\ Typing
    /\ LET result == Normalize(raw, opts)
           identity == IF IsOk(result) THEN result.value ELSE <<>>
       IN path' = identity /\ root' = identity /\ code' = result.code
    /\ last' = "normalize"
    /\ UNCHANGED <<raw, names, opts>>

\* The outcome of an operation on the identity: the new one, or an error that
\* leaves it as it was.  The typed text is no longer of interest.
BecameBy(operation, text, result) ==
    /\ path' = IF IsOk(result) THEN result.value ELSE path
    /\ code' = result.code
    /\ last' = operation
    /\ raw' = text /\ names' = 0
    /\ UNCHANGED <<opts, root>>
Became(operation, result) == BecameBy(operation, <<>>, result)

Descend(rel) == Named /\ Len(path) < MaxLength /\ Became("join", JoinPath(path, rel))

\* An operand of unknown origin goes through the strict validator or that of
\* the file clients first.
DescendChecked(rel) ==
    /\ Named /\ Len(path) < MaxLength
    /\ \E checked \in {Standalone_normalizeRelative(rel), validateRelativePath(rel)} :
         IsOk(checked) /\ Became("join", JoinPath(path, checked.value))

\* A component is made from a text, or from a git ref, by either distribution.
\* The posix profile does what the portable one does.
DescendNamed(name, profile) ==
    /\ Named /\ Len(path) < MaxLength
    /\ \E component \in {sanitizeComponent(name, profile), Standalone_sanitizeComponent(name, profile)} :
         BecameBy(profile, name, Then(component, LAMBDA c : JoinPath(path, c)))
DescendGitRef(ref) ==
    /\ Named /\ Len(path) < MaxLength
    /\ \E component \in {encodeGitRef(ref), Standalone_encodeGitRef(ref)} :
         BecameBy("git-ref", ref, Then(component, LAMBDA c : JoinPath(path, c)))

\* The path is kept as what relative returns and found again with join, each
\* from one distribution or the other.
Rebuild ==
    /\ Named
    /\ \/ LET rel == Relative(root, path)
          IN IsOk(rel) /\ Became("rebuild", Standalone_join(root, rel.value))
       \/ LET rel == Standalone_relative(root, path)
          IN IsOk(rel) /\ Became("rebuild", JoinPath(root, rel.value))

\* The identity is read from storage: in canonical mode by either
\* distribution, or with the options it was made with, which the contract of
\* the functions allows in canonical and in native POSIX mode.
ReloadOptions == {CanonicalHost} \cup (IF opts.sourceHost \in {"canonical", "posix"}
                                       THEN {[opts EXCEPT !.trimOuterWhitespace = FALSE]} ELSE {})
Reload == Named /\ \E o \in ReloadOptions : Became("reload", Standalone_normalize(path, o))

\* To a host in its own syntax, and back with the options for that host.
ViaWin32 ==
    /\ Named
    /\ LET hosted == Standalone_toWin32(path)
       IN IsOk(hosted) /\ Became("host", Normalize(hosted.value, Win32Host))
ViaPOSIX ==
    /\ Named
    /\ LET hosted == Standalone_toPOSIX(path)
       IN IsOk(hosted) /\ Became("host", Normalize(hosted.value, PosixHost))
ViaWSL ==
    /\ Named /\ HasDriveRoot(path)
    /\ LET hosted == ToWSL(path, opts.mountRoot)
       IN IsOk(hosted) /\ Became("host", Standalone_normalize(hosted.value, WSLHost(opts.mountRoot)))

Next == \/ \E name \in Names : Type(name)
        \/ NormalizeRaw
        \/ \E rel \in Relatives : Descend(rel) \/ DescendChecked(rel)
        \/ \E name \in RawNames, profile \in {"portable", "win32"} : DescendNamed(name, profile)
        \/ \E ref \in Refs : DescendGitRef(ref)
        \/ Rebuild
        \/ Reload
        \/ ViaWin32
        \/ ViaPOSIX
        \/ ViaWSL

Spec == Init /\ [][Next]_vars

(***************************************************************************)
(* Properties                                                              *)
(***************************************************************************)
\* Every identity that normalize or any chain of operations produces is one
\* that scripts/validate-spec.mjs, an independent definition, calls canonical;
\* the first one is a result the script accepts for that text and options, a
\* git ref ends up as the name that the script computes, and the script accepts
\* what relative and join return for the identity.
AcceptedBySpec ==
    /\ last = "git-ref" =>
         GitRefVector(raw, MaxSlug, [code |-> code, value |-> Last(Split(path))])
    /\ last = "normalize" => NormalizeVector(raw, [code |-> code, value |-> path])
    /\ Named => AssertCanonicalPath(path)
    /\ last = "join" =>
         /\ RelativeVector(root, path, Relative(root, path))
         /\ \A rel \in Relatives : JoinVector(path, rel, JoinPath(path, rel))

\* join(root, relative(root, target)) is exactly target, for every target that
\* a chain of operations reached below the root (contract of relative and join).
RebuildExact == [][last' = "rebuild" => code' = "ok" /\ path' = path]_vars

\* An identity read back from storage, by the distribution that wrote it or by
\* the other one, is the same identity (idempotence of native and canonical
\* normalization); only a component policy may refuse one that join extended.
PolicyErrors == {"ERR_ALTERNATE_DATA_STREAM", "ERR_RESERVED_DEVICE_NAME"}
ReloadExact ==
    [][last' = "reload" =>
         path' = path /\ (code' = "ok" \/ (path # root /\ code' \in PolicyErrors))]_vars

\* An identity that a host serializer accepts comes back from that host as the
\* same identity: both directions read separators, marks and mounts alike.
HostTripExact == [][last' = "host" => code' = "ok" /\ path' = path]_vars

\* Descending never leaves the root: joined paths stay at or below it, whatever
\* dot segments, markers and drive-like names the operand has.
StaysBelowRoot ==
    Named /\ IsOk(CanonicalParts(root)) => IsOk(Relative(root, path))

\* A name made from arbitrary text extends the path by exactly one component,
\* is never refused once it was made, and when it was made for Windows hosts or
\* from a git ref the policy that allowed the path allows the longer one too.
Guarded == [CanonicalHost EXCEPT !.rejectDeviceNames = TRUE, !.rejectADS = TRUE]
NamesOneComponent ==
    [][last' \in {"portable", "win32", "git-ref"} =>
         /\ code' \in {"ok", "ERR_INVALID_COMPONENT", "ERR_NUL_BYTE"}
         /\ code' = "ok" /\ IsOk(CanonicalParts(path)) =>
              LET name == Relative(path, path')
              IN IsOk(name) /\ ToSet(name.value) \cap Separators = {} /\ name.value # <<".">>
         /\ last' \in {"win32", "git-ref"} /\ IsOk(Normalize(path, Guarded)) =>
              Normalize(path', Guarded) = Ok(path')]_vars

\* What packages/ts/test/idempotence.test.ts asserts of arbitrary text under
\* the default options: normalizing the result again returns it.
DefaultIdempotent ==
    last = "normalize" /\ code = "ok" /\ opts = AnyHost => Normalize(path, AnyHost) = Ok(path)
=============================================================================
