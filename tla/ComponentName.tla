---------------------------- MODULE ComponentName ----------------------------
(***************************************************************************)
(* Names made from arbitrary text: packages/ts/src/canonicalpath           *)
(* sanitize.ts.  Each is meant to be one component of a path on every      *)
(* host.  "LF" stands for the control characters, HIGH and LOW for the two *)
(* halves of a surrogate pair; a symbol counts as one unit of length.      *)
(***************************************************************************)
EXTENDS LexicalPath

CONSTANTS MaxSlug   \* 80 units of a git ref that are kept legible

Trimmable == {" ", ".", "_", "-"}
Separators == {"\\", "/", ":", "LF"}

escapeReservedWin32Component(v) ==
    LET dot == IndexFrom(v, 1, ".")
        base == SubSeq(v, 1, dot - 1)
    IN IF Mapped(base, Upper) \in DeviceNames THEN Append(base, "-") \o From(v, dot) ELSE v

\* Wrong: a device is looked for before the ends are trimmed.
sanitizeComponentEscapesFirst(name, profile) ==
    LET dashed == Dashed(name, Separators)
        value == Trimmed(IF profile = "win32" THEN escapeReservedWin32Component(dashed) ELSE dashed,
                         Trimmable, TRUE)
    IN Ok(IF value = <<>> THEN <<"component">> ELSE value)

sanitizeComponent(name, profile) ==
    Unless(name = <<>>, "ERR_INVALID_COMPONENT",
      Unless(Has(name, NUL), "ERR_NUL_BYTE",
        LET trimmed == Trimmed(Dashed(name, Separators), Trimmable, TRUE)
            value == IF trimmed = <<>> THEN <<"component">> ELSE trimmed
        IN Ok(IF profile = "win32" THEN escapeReservedWin32Component(value) ELSE value)))

\* The symbols outside [A-Za-z0-9._-].
Illegible == Separators \cup {" ", "?", "*", "%", "HIGH", "LOW"} \cup Escapes
Malformed(v) ==
    \E i \in DOMAIN v : \/ v[i] = "HIGH" /\ (i = Len(v) \/ v[i + 1] # "LOW")
                        \/ v[i] = "LOW" /\ (i = 1 \/ v[i - 1] # "HIGH")

\* A legible start of the ref and a digest of all of it.
encodeGitRef(raw) ==
    Unless(raw = <<>>, "ERR_INVALID_COMPONENT",
      Unless(Has(raw, NUL), "ERR_NUL_BYTE",
        Unless(Malformed(raw), "ERR_INVALID_COMPONENT",
          LET ends == {".", "_", "-"}
              whole == Trimmed(Dashed(raw, Illegible), ends, TRUE)
              cut == Trimmed(SubSeq(whole, 1, IF Len(whole) < MaxSlug THEN Len(whole) ELSE MaxSlug), ends, TRUE)
          IN Ok(<<"v2", "-">> \o (IF cut = <<>> THEN <<"ref">> ELSE cut) \o <<"-", "-">> \o Digest256(raw)))))
=============================================================================
