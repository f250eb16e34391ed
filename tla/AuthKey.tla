------------------------------- MODULE AuthKey -------------------------------
(***************************************************************************)
(* parse_pkcs8_ed25519 of src/remoteid/remoteid/auth.c: the private key in *)
(* a text that is PEM, with real or escaped newlines, or bare base64.  A   *)
(* text is a sequence of the tokens the parser tells apart; base64         *)
(* decoding (mbedtls) is external, and keeps apart what is different.      *)
(***************************************************************************)
EXTENDS Naturals, Sequences, FiniteSetsExt, SequencesExt

CONSTANTS
    Base64,         \* the characters of the base64 alphabet
    Quantum,        \* 4: base64 comes in groups of so many characters
    KeyLen,         \* 64: the characters of a PKCS#8 Ed25519 key
    KeyPrefix,      \* PKCS8_ED25519_PREFIX, in base64
    Capacity        \* 79: what b64[80] can hold

Newlines == {"newline", "escaped_n"}
Skipped == Newlines \cup {"blank"}      \* blank: \r, a space or a tab
Tokens == Base64 \cup Skipped \cup {"BEGIN", "END", "other"}

ASSUME AuthKeyAssumption ==
    /\ Base64 \cap (Skipped \cup {"BEGIN", "END", "other"}) = {}
    /\ Quantum \in Nat \ {0} /\ KeyLen \in Nat /\ Capacity \in Nat
    /\ KeyLen % Quantum = 0 /\ KeyLen < Capacity
    /\ KeyPrefix \in Seq(Base64) /\ Len(KeyPrefix) <= KeyLen

-----------------------------------------------------------------------------
Refused == <<>>

HasHeader(text) == text # <<>> /\ Head(text) = "BEGIN"

(* mutant: only a real newline ends the header *)
HeaderEnds_Unescaped(text) == {i \in DOMAIN text : text[i] = "newline"}

(* skip_past_newline, and strstr of the footer behind it *)
HeaderEnds(text) == {i \in DOMAIN text : text[i] \in Newlines}

Footers(text) ==
    {i \in DOMAIN text : text[i] = "END" /\ i > Min(HeaderEnds(text))}

Malformed(text) ==
    HasHeader(text) /\ (HeaderEnds(text) = {} \/ Footers(text) = {})

Body(text) ==
    IF HasHeader(text)
    THEN SubSeq(text, Min(HeaderEnds(text)) + 1, Min(Footers(text)) - 1)
    ELSE text

(* mutant: a buffer for the characters of a key and no more *)
Copied_JustFits(body) ==
    LET b64[i \in 0 .. Len(body)] ==
            IF i = 0 THEN <<>>
            ELSE IF body[i] \in Skipped \/ Len(b64[i - 1]) = KeyLen THEN b64[i - 1]
            ELSE Append(b64[i - 1], body[i])
    IN  b64

(* The copy into b64, after each character: it stops when that is full. *)
Copied(body) ==
    LET b64[i \in 0 .. Len(body)] ==
            IF i = 0 THEN <<>>
            ELSE IF body[i] \in Skipped \/ Len(b64[i - 1]) = Capacity THEN b64[i - 1]
            ELSE Append(b64[i - 1], body[i])
    IN  b64

Strip(body) == Copied(body)[Len(body)]

(* mbedtls_base64_decode: no foreign character, no unfinished group *)
Decodes(b64) == b64 \in Seq(Base64) /\ Len(b64) % Quantum = 0

IsKey(b64) == Len(b64) = KeyLen /\ IsPrefix(KeyPrefix, b64)

Parse(text) ==
    IF Malformed(text) THEN Refused
    ELSE LET b64 == Strip(Body(text))
         IN  IF Decodes(b64) /\ IsKey(b64) THEN b64 ELSE Refused

-----------------------------------------------------------------------------
(* What is left of a text, after each character, without some of them. *)
Kept(text, left_out) ==
    LET kept[i \in 0 .. Len(text)] ==
            IF i = 0 THEN <<>>
            ELSE IF text[i] \in left_out THEN kept[i - 1]
            ELSE Append(kept[i - 1], text[i])
    IN  kept

Without(text, left_out) == Kept(text, left_out)[Len(text)]

(* The key in a text is all that is neither header nor layout; it may be   *)
(* long, and the buffer it is copied to is not.                            *)
KeyIn(text) == Without(Body(text), Skipped)

AsNewline(c) == IF c = "escaped_n" THEN "newline" ELSE c

(* A text without its layout: escaped newlines are newlines, no blanks. *)
Plain(text) ==
    LET kept == Without(text, {"blank"})
    IN  [i \in DOMAIN kept |-> AsNewline(kept[i])]

=============================================================================
