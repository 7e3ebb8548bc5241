--------------------------- MODULE Authentication ---------------------------
(***************************************************************************)
(* Authentication and Base64 (src/authentication.cpp, src/utils/           *)
(* base64.cpp): how a client writes its credentials into the Authorization *)
(* header (getEncodedHeader) and how the server reads them (fromHeader).   *)
(*                                                                         *)
(* A string is a sequence of bytes. A header is the sequence of its words; *)
(* an encoded word is a sequence of Base64 digits, 0 to 63, and others.    *)
(***************************************************************************)
EXTENDS Naturals, Sequences, SequencesExt

Byte  == 0 .. 255
Colon == 58
Pad   == 64

EncodedSize(n) == 4 * ((n + 2) \div 3)

DecodedSize(n) == 3 * (n \div 4)

ItemOr0(s, i) == IF i <= Len(s) THEN s[i] ELSE 0

(* Three bytes of the input, and four digits of the text, as one number.      *)
Octets(input, g) ==
    256 * (256 * ItemOr0(input, 3*g + 1) + ItemOr0(input, 3*g + 2)) + ItemOr0(input, 3*g + 3)

Sextets(digits, g) ==
    64 * (64 * (64 * ItemOr0(digits, 4*g + 1) + ItemOr0(digits, 4*g + 2))
            + ItemOr0(digits, 4*g + 3)) + ItemOr0(digits, 4*g + 4)

(* Groups of three bytes become four digits of 6 bits each; Pad stands for    *)
(* the digits of the last group that would hold no bit of the input.          *)
Digit(input, g, k) ==
    IF 3*g + k > Len(input) THEN Pad
    ELSE (Octets(input, g) \div <<64 * 64 * 64, 64 * 64, 64, 1>>[k + 1]) % 64

Encode(input) ==
    [i \in 1 .. EncodedSize(Len(input)) |-> Digit(input, (i - 1) \div 4, (i - 1) % 4)]

(* The digits up to the first other character; the bits that fill no byte are *)
(* dropped.                                                                   *)
Digits(text) == SubSeq(text, 1, SelectInSeq(Append(text, Pad), LAMBDA d : d >= Pad) - 1)

DecodedBytes(text) ==
    [j \in 1 .. (6 * Len(Digits(text))) \div 8 |->
        (Sextets(Digits(text), (j - 1) \div 3) \div <<256 * 256, 256, 1>>[((j - 1) % 3) + 1]) % 256]

\* Mutant: the buffer is not cut to the size that was decoded.
DecodeUncut(text) == [j \in 1 .. DecodedSize(Len(text)) |-> ItemOr0(DecodedBytes(text), j)]

(* The buffer has decoded_size bytes, of which the decoded ones are kept.     *)
Decode(text) == DecodedBytes(text)
-----------------------------------------------------------------------------
Anonymous == [type |-> "Anonymous", username |-> <<>>, password |-> <<>>]
Basic(username, password) ==
    [type |-> "Basic", username |-> username, password |-> password]
Authentications ==
    {Anonymous} \cup [type : {"Basic"}, username : Seq(Byte), password : Seq(Byte)]
Invalid == [type |-> "Invalid"]     \* fromHeader throws

NoHeader == <<>>

(* What the client's decorator sets.                                          *)
EncodedHeader(login) ==
    IF login.type = "Basic"
    THEN <<"Basic", Encode(login.username \o <<Colon>> \o login.password)>>
    ELSE NoHeader

BeforeColon(s) == SubSeq(s, 1, SelectInSeq(s \o <<Colon>>, LAMBDA b : b = Colon) - 1)

(* What follows the first run of colons.                                      *)
AfterColons(s) ==
    LET rest  == SubSeq(s, Len(BeforeColon(s)) + 1, Len(s))
        other == SelectInSeq(rest, LAMBDA b : b # Colon) IN
    IF other = 0 THEN <<>> ELSE SubSeq(rest, other, Len(rest))

\* Mutant: the parts are told apart by the last colon.
SplitAtLastColon(value) ==
    LET k == SelectLastInSeq(value, LAMBDA b : b = Colon) IN
    <<SubSeq(value, 1, k - 1), SubSeq(value, k + 1, Len(value))>>

(* The first two parts of boost::split with token_compress_on.                *)
Split(value) == <<BeforeColon(value), BeforeColon(AfterColons(value))>>

FromHeader(header) ==
    IF Len(header) < 2 \/ header[1] # "Basic" THEN Invalid
    ELSE LET value == Decode(header[2]) IN
         IF ~Contains(value, Colon) THEN Invalid
         ELSE Basic(Split(value)[1], Split(value)[2])

(* The server's onReadAcceptRequest: what does not parse is anonymous.        *)
Received(header) ==
    IF header = NoHeader \/ FromHeader(header) = Invalid THEN Anonymous ELSE FromHeader(header)
=============================================================================
