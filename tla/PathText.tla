------------------------------ MODULE PathText ------------------------------
(***************************************************************************)
(* Text as the lexical functions of packages/ts/src/canonicalpath see it:  *)
(* a sequence of symbols.  A symbol is a character the code tests for      *)
(* ("/", "\\", ":", ".", "?", a space, a drive letter, NUL), a percent      *)
(* escape, or a word the code never looks into ("UNC", "file", "mnt",      *)
(* "repo"); no sequence of symbols spells another one, so two texts are    *)
(* equal exactly when their sequences are.                                 *)
(***************************************************************************)
EXTENDS Integers, Sequences, SequencesExt

NUL == "NUL"
Letters == {"c", "C", "d", "D"}

\* What toLowerCase, toUpperCase and decodeURIComponent do with the symbols
\* that they change.
Lower(x) == CASE x = "C" -> "c" [] x = "D" -> "d" [] x = "LOCALHOST" -> "localhost"
              [] OTHER -> x
Upper(x) == CASE x = "c" -> "C" [] x = "d" -> "D" [] x = "con" -> "CON" [] OTHER -> x

Escapes == {"%2F", "%5C", "%00", "%63", "%2E"}
Unescaped(x) == CASE x = "%2F" -> "/" [] x = "%5C" -> "\\" [] x = "%00" -> NUL
                  [] x = "%63" -> "c" [] x = "%2E" -> "." [] OTHER -> x

\* Symbols made of the characters [A-Za-z0-9+.-] only, and whether the first
\* character of such a symbol is a letter (hasUriScheme's expression).
IsSchemeText(s) ==
    /\ s # <<>>
    /\ \A i \in DOMAIN s : s[i] \notin Escapes \cup {"/", "\\", ":", "?", " ", "*", "%", NUL}
    /\ s[1] # "."

\* Results: a value, or the code of the error that was thrown.
Ok(v) == [code |-> "ok", value |-> v]
Err(code) == [code |-> code, value |-> <<>>]
IsOk(r) == r.code = "ok"
Then(r, Op(_)) == IF IsOk(r) THEN Op(r.value) ELSE r
Unless(failed, code, r) == IF failed THEN Err(code) ELSE r

Has(s, x) == Contains(s, x)
StartsWith(s, p) == IsPrefix(p, s)
EndsWith(s, x) == s # <<>> /\ Last(s) = x
From(s, i) == SubSeq(s, i, Len(s))
Mapped(s, Op(_)) == [i \in DOMAIN s |-> Op(s[i])]

\* The first place from i on where s has x, or Len(s) + 1.
IndexFrom(s, i, x) ==
    CHOOSE k \in i..(Len(s) + 1) :
        /\ k = Len(s) + 1 \/ s[k] = x
        /\ \A j \in i..(k - 1) : s[j] # x

\* value.split("/") and parts.join("/").
Split(s) ==
    LET pieces[i \in 0..Len(s)] ==
          IF i = 0 THEN << <<>> >>
          ELSE LET before == pieces[i - 1]
               IN IF s[i] = "/" THEN Append(before, <<>>)
                  ELSE [before EXCEPT ![Len(before)] = Append(@, s[i])]
    IN pieces[Len(s)]

Joined(parts) ==
    LET text[i \in 0..Len(parts)] ==
          CASE i = 0 -> <<>>
            [] i = 1 -> parts[1]
            [] OTHER -> text[i - 1] \o <<"/">> \o parts[i]
    IN text[Len(parts)]

\* Without the symbols of set at its end, and at its start when start holds
\* (trimBoundaryCharacters; with spaces and both ends, String.trim).
Trimmed(s, set, start) ==
    LET kept == {i \in DOMAIN s : s[i] \notin set}
    IN IF kept = {} THEN <<>>
       ELSE SubSeq(s, IF start THEN CHOOSE i \in kept : \A j \in kept : i <= j ELSE 1,
                   CHOOSE i \in kept : \A j \in kept : j <= i)

AfterSlashes(s) ==
    From(s, CHOOSE k \in 1..(Len(s) + 1) :
              (k = Len(s) + 1 \/ s[k] # "/") /\ \A j \in 1..(k - 1) : s[j] = "/")

Slashed(s) == Mapped(s, LAMBDA x : IF x = "\\" THEN "/" ELSE x)
Backslashed(s) == Mapped(s, LAMBDA x : IF x = "/" THEN "\\" ELSE x)

\* One dash for every run of symbols of the set (replace(/[...]+/g, "-")).
Dashed(v, set) ==
    LET text[i \in 0..Len(v)] ==
          IF i = 0 THEN <<>>
          ELSE IF v[i] \notin set THEN Append(text[i - 1], v[i])
          ELSE IF i > 1 /\ v[i - 1] \in set THEN text[i - 1] ELSE Append(text[i - 1], "-")
    IN text[Len(v)]

\* createHash("sha256") over a text: one word for every text.
Digest256(v) == <<"sha256", ToString(v)>>
=============================================================================
