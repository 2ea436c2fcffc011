-------------------------------- MODULE Text --------------------------------
(***************************************************************************)
(* Conversions of text: Latin-1 and UTF-8 (utf8.c), line ends (crlf_to_lf  *)
(* of server.c) and base64 (base64.c).  A text is a sequence of bytes; a   *)
(* base64 text a sequence of sextets, with 64 for the padding "=" and more  *)
(* for characters of neither alphabet.                                     *)
(***************************************************************************)
EXTENDS Integers, Sequences

Question == 63
CR == 13
LF == 10
Pad == 64

(* latin1_to_utf8 *)
Latin1ToUtf8(src) ==
  LET Out[i \in 0..Len(src)] ==
        IF i = 0 THEN << >>
        ELSE IF src[i] < 128 THEN Append(Out[i - 1], src[i])
        ELSE Out[i - 1] \o <<192 + (src[i] \div 64), 128 + (src[i] % 64)>>
  IN  Out[Len(src)]

(* The lead byte of a sequence: its length, its bits of the code point, and *)
(* the least code point that needs the length.  0 for a stray byte.         *)
Lead(c) ==
  CASE c < 128               -> [n |-> 1, cp |-> c,       min |-> 0]
    [] c >= 192 /\ c < 224   -> [n |-> 2, cp |-> c - 192, min |-> 128]
    [] c >= 224 /\ c < 240   -> [n |-> 3, cp |-> c - 224, min |-> 2048]
    [] c >= 240 /\ c < 248   -> [n |-> 4, cp |-> c - 240, min |-> 65536]
    [] OTHER                 -> [n |-> 0, cp |-> 0,       min |-> 0]

IsContinuation(c) == c >= 128 /\ c < 192

(* Mutant: overlong sequences are accepted. *)
LatinOrQuestionLax(lead, cp) == IF cp > 255 THEN Question ELSE cp

(* What a complete sequence becomes: overlong ones, surrogates and what     *)
(* Latin-1 does not have become a question mark.                            *)
LatinOrQuestion(lead, cp) ==
  IF cp < lead.min \/ cp > 255 THEN Question ELSE cp

(* utf8_to_latin1, from position i on. *)
Utf8ToLatin1(src) ==
  LET len == Len(src)
      CodePoint(i, lead) ==
        LET Bits[k \in 0..(lead.n - 1)] ==
              IF k = 0 THEN lead.cp ELSE Bits[k - 1] * 64 + (src[i + k] % 64)
        IN  Bits[lead.n - 1]
      From[i \in 1..(len + 4)] ==
        IF i > len THEN << >>
        ELSE LET lead == Lead(src[i])
             IN  CASE lead.n = 1 -> <<src[i]>> \o From[i + 1]
                   [] lead.n = 0 -> <<Question>> \o From[i + 1]
                   [] lead.n > 1 /\ i + lead.n - 1 > len -> <<Question>>
                   [] OTHER ->
                        IF \A k \in 1..(lead.n - 1) : IsContinuation(src[i + k])
                        THEN <<LatinOrQuestion(lead, CodePoint(i, lead))>>
                               \o From[i + lead.n]
                        ELSE <<Question>> \o From[i + 1]
  IN  From[1]

(* crlf_to_lf: a CR before an LF is dropped, any other becomes an LF. *)
CrLfToLf(src) ==
  LET From[i \in 1..(Len(src) + 1)] ==
        IF i > Len(src) THEN << >>
        ELSE IF src[i] # CR THEN <<src[i]>> \o From[i + 1]
        ELSE IF i = Len(src) \/ src[i + 1] # LF THEN <<LF>> \o From[i + 1]
        ELSE From[i + 1]
  IN  From[1]

-----------------------------------------------------------------------------
(* Three bytes as four sextets, the missing ones zero, and back. *)
Byte(src, i) == IF i <= Len(src) THEN src[i] ELSE 0

Group(src, i) ==
  Byte(src, 3 * i + 1) * 65536 + Byte(src, 3 * i + 2) * 256 + Byte(src, 3 * i + 3)

(* base64_encode: whole groups, then the remainder and its padding. *)
Base64Encode(src) ==
  LET groups == (Len(src) + 2) \div 3
      rem == Len(src) % 3
      Char(i, d) == IF i = groups - 1 /\ rem # 0 /\ d > rem THEN Pad
                    ELSE (Group(src, i) \div 64^(3 - d)) % 64
  IN  [k \in 1..(4 * groups) |-> Char((k - 1) \div 4, (k - 1) % 4)]

(* base64_is_valid: a character is a sextet or padding (the two alphabets   *)
(* have the same sextets). *)
Base64Valid(text) == \A k \in DOMAIN text : text[k] \in 0..Pad

(* strcspn(src, "=") *)
UnpaddedLen(text) ==
  IF \E k \in DOMAIN text : text[k] = Pad
  THEN (CHOOSE k \in DOMAIN text :
          text[k] = Pad /\ \A j \in 1..(k - 1) : text[j] # Pad) - 1
  ELSE Len(text)

(* base64_decode, with <<-1>> for the error. *)
Base64Decode(text) ==
  LET len == UnpaddedLen(text)
      Sextet(k) == IF k <= len /\ text[k] # Pad THEN text[k] ELSE 0
      Bits(i) == Sextet(4 * i + 1) * 262144 + Sextet(4 * i + 2) * 4096
                 + Sextet(4 * i + 3) * 64 + Sextet(4 * i + 4)
      out == 3 * (len \div 4) + ((len % 4) * 3) \div 4
  IN  IF ~Base64Valid(text) THEN <<-1>>
      ELSE [k \in 1..out |->
              (Bits((k - 1) \div 3) \div 256^(2 - ((k - 1) % 3))) % 256]
=============================================================================
