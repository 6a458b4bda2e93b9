------------------------------- MODULE Sanitizer -------------------------------
(***************************************************************************)
(* sanitize() of core/src/index.ts and its copies in the Go and the Python *)
(* SDK: what a consumer does to every string a glyph returns.              *)
(*                                                                         *)
(* A character stands for a class of code points: the ones the sanitizer   *)
(* strips, by kind; a base letter, a combining mark and the letter they    *)
(* compose to; and a compatibility character that NFKC maps to the letter. *)
(***************************************************************************)
EXTENDS Integers, Sequences, SequencesExt

Chars == {"tag", "zwsp", "wj", "bidi", "ctl", "a", "acute", "aacute", "full"}

(* STRIP_CLASSES: U+2060, the word joiner, is in no class. *)
STRIP_CLASSES ==
  [kind \in {"unicode-tags", "zero-width", "bidi-override", "control-char"} |->
     CASE kind = "unicode-tags"  -> {"tag"}
       [] kind = "zero-width"    -> {"zwsp"}
       [] kind = "bidi-override" -> {"bidi"}
       [] kind = "control-char"  -> {"ctl"}]

(* isTag, isZeroWidth, isBidi, isControl: the word joiner is zero-width. *)
STRIP_CLASSES_go == [STRIP_CLASSES EXCEPT !["zero-width"] = @ \cup {"wj"}]

(* _TAG_RE, _ZERO_WIDTH_RE, _BIDI_RE and _CTRL_RE. *)
STRIP_CLASSES_py ==
  [kind \in DOMAIN STRIP_CLASSES |->
     IF kind = "zero-width" THEN {"zwsp", "wj"} ELSE STRIP_CLASSES[kind]]

(* Unicode NFKC: compatibility decomposition, then canonical composition. *)
NFKC(s) ==
  LET maps(t, c) == CASE c = "full" -> Append(t, "a")
                      [] c = "acute" /\ t # <<>> /\ Last(t) = "a"
                           -> Append(Front(t), "aacute")
                      [] OTHER -> Append(t, c)
  IN FoldLeft(maps, <<>>, s)

Occurrences(s, class) == Len(SelectSeq(s, LAMBDA c : c \in class))

AtLeast1(n) == IF n = 0 THEN 1 ELSE n

(* Strip every class, then normalise.  A normalisation is reported with    *)
(* the number of code points in `counted', but at least one.  Every kind   *)
(* is found at most once, so findings is a function of kinds and its final *)
(* sort by path and kind needs no model.                                   *)
Sanitized(s, classes, counted) ==
  LET kinds    == {k \in DOMAIN classes : Occurrences(s, classes[k]) > 0}
      stripped == SelectSeq(s, LAMBDA c :
                              \A k \in DOMAIN classes : c \notin classes[k])
      text     == NFKC(stripped)
      nfkc     == IF text = stripped THEN {} ELSE {"nfkc-normalized"}
  IN [text     |-> text,
      findings |-> [k \in kinds \cup nfkc |->
                      IF k \in kinds THEN Occurrences(s, classes[k])
                      ELSE AtLeast1(Occurrences(stripped, counted))]]

(* Faulty variant: normalises first and strips what is left. *)
sanitizeString_NormalizesFirst(s) ==
  LET r == Sanitized(NFKC(s), STRIP_CLASSES, {})
  IN [r EXCEPT !.text = SelectSeq(NFKC(s), LAMBDA c :
        \A k \in DOMAIN STRIP_CLASSES : c \notin STRIP_CLASSES[k])]

(* The code points that NFKC changes by themselves are counted. *)
sanitizeString(s) == Sanitized(s, STRIP_CLASSES, {"full"})

(* The SDKs report every normalisation with count 1. *)
sanitizeString_go(s) == Sanitized(s, STRIP_CLASSES_go, {})

sanitizeString_py(s) == Sanitized(s, STRIP_CLASSES_py, {})

------------------------------------------------------------------------------
(* sanitizeValue walks a value and reports every string under the JSON     *)
(* Pointer of its keys; a key is a sequence of characters.                 *)

Replaced(key, c, by) == FlattenSeq([i \in DOMAIN key |->
                          IF key[i] = c THEN by ELSE <<key[i]>>])

escapeToken(key) ==
  Replaced(Replaced(key, "~", <<"~", "0">>), "/", <<"~", "1">>)

(* Where sanitizeValue puts a finding under these keys; an array's keys    *)
(* are its indices.                                                        *)
sanitizePath(keys) ==
  FlattenSeq([i \in DOMAIN keys |-> <<"/">> \o escapeToken(keys[i])])

(* strings.ReplaceAll, twice. *)
escapePathToken_go(token) ==
  LET tildes == Replaced(token, "~", <<"~", "0">>)
  IN Replaced(tildes, "/", <<"~", "1">>)

sanitizePath_go(keys) ==
  FoldLeft(LAMBDA path, key : path \o <<"/">> \o escapePathToken_go(key),
           <<>>, keys)

escape_path_token_py(token) ==
  Replaced(Replaced(token, "~", <<"~", "0">>), "/", <<"~", "1">>)

sanitizePath_py(keys) ==
  FoldLeft(LAMBDA path, key : path \o <<"/">> \o escape_path_token_py(key),
           <<>>, keys)

------------------------------------------------------------------------------
(* Sanitizing is idempotent, as its comment promises: what one pass leaves *)
(* another pass returns unchanged and reports nothing of, in every SDK.    *)
(* Stripping can bring a letter and its mark together, so this hangs on    *)
(* the order of the two passes.                                            *)
Idempotent(s) ==
  /\ LET r == sanitizeString(s)
     IN sanitizeString(r.text) = [text |-> r.text, findings |-> <<>>]
  /\ LET r == sanitizeString_go(s)
     IN sanitizeString_go(r.text) = [text |-> r.text, findings |-> <<>>]
  /\ LET r == sanitizeString_py(s)
     IN sanitizeString_py(r.text) = [text |-> r.text, findings |-> <<>>]

(* What the copies in Go and Python return, and what core returns.  They   *)
(* are to mirror it, with a report "byte-identical across SDKs" (core.py), *)
(* and are not: core leaves U+2060, the word joiner, in the text, where    *)
(* the copies strip and report it as zero-width; and the copies report     *)
(* every normalisation with count 1, where core counts the characters.     *)
(* These are the only departures: of any text a copy makes what core makes *)
(* of the text without its joiners.                                        *)
SdksSanitize(s) ==
  LET joiners == Occurrences(s, {"wj"})
      core    == sanitizeString(SelectSeq(s, LAMBDA c : c # "wj"))
      extra   == IF joiners > 0 THEN {"zero-width"} ELSE {}
      count(kind) == CASE kind = "nfkc-normalized" -> 1
                       [] kind \in DOMAIN core.findings ->
                            core.findings[kind] + (IF kind \in extra THEN joiners ELSE 0)
                       [] OTHER -> joiners
      copy    == [text     |-> core.text,
                  findings |-> [kind \in DOMAIN core.findings \cup extra |-> count(kind)]]
  IN /\ sanitizeString_go(s) = copy /\ sanitizeString_py(s) = copy
     /\ Occurrences(sanitizeString(s).text, {"wj"}) = joiners
==============================================================================
