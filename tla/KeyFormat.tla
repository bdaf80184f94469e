----------------------------- MODULE KeyFormat ------------------------------
(***************************************************************************)
(* The text of a key.  A text is a sequence of tokens: the words and the   *)
(* single characters callers put into a prefix, the _live_ or _test_       *)
(* segment that the environment picks, and what is drawn at random; a      *)
(* draw stands for the eight digits before the dot and for the secret      *)
(* after it.  Lengths are counted in tokens.                               *)
(***************************************************************************)
EXTENDS Integers, Sequences

CONSTANTS
    Plain,          \* words of printable ASCII characters without a dot, "tak" for one
    Draws,          \* what secrets.token_hex() and token_urlsafe() return
    MaxPrefix       \* _MAX_INPUT_PREFIX_LENGTH

Environments == {"production", "staging", "development", "test"}

Segments == {"live", "test"}

\* "accent" is any printable character outside ASCII; a header brings it in one
\* of two encodings, and "mojibake" is what the wrong decoding makes of it.
Special == {"dot", "blank", "accent", "utf8", "latin1", "mojibake"}

Token == Plain \cup Draws \cup Segments \cup Special

ASSUME KeyFormatAssumption ==
    /\ MaxPrefix \in Nat \ {0}
    /\ Plain # {}
    /\ Plain \cap (Draws \cup Segments \cup Special) = {}
    /\ Draws \cap (Segments \cup Special) = {}

Tokens(text) == {text[i] : i \in DOMAIN text}

-----------------------------------------------------------------------------

Segment(environment) ==
    IF environment \in {"production", "staging"} THEN "live" ELSE "test"

BugFits(prefix) == Len(prefix) <= MaxPrefix + 1

\* generate_api_key() refuses a prefix that leaves no room for the rest.
Fits(prefix) == Len(prefix) <= MaxPrefix

MaxKeyPrefix == MaxPrefix + 2

KeyPrefix(prefix, environment, draw) == prefix \o <<Segment(environment), draw>>

RawKey(key_prefix, draw) == key_prefix \o <<"dot", draw>>

Tak == CHOOSE word \in Plain : TRUE

BugBasePrefix(key_prefix) ==
    LET n == Len(key_prefix)
    IN  IF /\ n > 2
           /\ key_prefix[n - 1] = "live"
           /\ key_prefix[n] \in Draws
        THEN SubSeq(key_prefix, 1, n - 2)
        ELSE <<Tak>>

\* The prefix that the stored one was generated from, or "tak".
BasePrefix(key_prefix) ==
    LET n == Len(key_prefix)
    IN  IF /\ n > 2
           /\ key_prefix[n - 1] \in Segments
           /\ key_prefix[n] \in Draws
        THEN SubSeq(key_prefix, 1, n - 2)
        ELSE <<Tak>>

\* The part of a presented key before its first dot, if it is shaped like a
\* generated one.
FirstDot(text) ==
    CHOOSE i \in DOMAIN text :
        text[i] = "dot" /\ \A j \in DOMAIN text : text[j] = "dot" => i <= j

HasShape(text) ==
    /\ "blank" \notin Tokens(text)
    /\ "dot" \in Tokens(text)
    /\ FirstDot(text) \in 2 .. MaxKeyPrefix + 1
    /\ FirstDot(text) < Len(text)

LookupPrefix(text) == SubSeq(text, 1, FirstDot(text) - 1)

-----------------------------------------------------------------------------
(* The Authorization header, word by word *)

ApiKey == <<"Api-Key">>

\* A client writes a non-ASCII character in the one or the other encoding.
OnWire(text, encoding) ==
    [i \in DOMAIN text |-> IF text[i] = "accent" THEN encoding ELSE text[i]]

\* A blank in a key makes it more than one word.
Credentials(text) ==
    IF "blank" \in Tokens(text) THEN <<ApiKey, text, text>> ELSE <<ApiKey, text>>

\* DRF decodes the header's bytes as UTF-8, Django itself as Latin-1.
Decoded(framework, text) ==
    [i \in DOMAIN text |->
        CASE text[i] = "utf8"   -> IF framework = "drf" THEN "accent" ELSE "mojibake"
          [] text[i] = "latin1" -> "accent"
          [] OTHER              -> text[i]]
=============================================================================
