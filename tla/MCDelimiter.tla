----------------------------- MODULE MCDelimiter -----------------------------
(* The delimiters of MCParts in a run of their own, without any settings.     *)
EXTENDS LoadRequest, TLC

\* Two hexadecimal digits, a character that is none, and one of two bytes.
DelimiterChars == {0, 10, 17, 18}

ShortTexts == UNION {[1..n -> DelimiterChars] : n \in 0..4}

NoNames == [k \in {} |-> "label"]
==============================================================================
