------------------------------- MODULE Base64 -------------------------------
(***************************************************************************)
(* b64_ntop and b64_pton of main/netcat-openbsd/base64.c.                  *)
(*                                                                         *)
(* A character is a number: a digit is its place in the table Base64, and  *)
(* Pad, Space and Other stand for '=', white space, and characters that    *)
(* are neither.  One step of b64_ntop encodes a quantum, one of b64_pton   *)
(* reads a character.  A program may encode bytes, decode what it got, or  *)
(* decode any text; target is what has been written so far.                *)
(***************************************************************************)
EXTENDS Integers, Sequences, FiniteSets

CONSTANTS Inputs,     \* sequences of bytes to encode
          Sources,    \* sequences of characters to decode
          Sizes       \* of the target, Unlimited for none at all (NULL)

Digits == 0..63
Pad == 64
Space == 65
Other == 66
Unlimited == -1

ASSUME InputsAreBytes == Inputs \subseteq Seq(0..255)
ASSUME SourcesAreCharacters == Sources \subseteq Seq(0..66)
ASSUME SizesAreSizes == Sizes \subseteq Nat \cup {Unlimited}

VARIABLES job, given, size,  \* which function runs, on what, into how much
          source,            \* src: what it has still to read
          target,            \* the bytes or characters written
          state, tarindex,   \* of b64_pton
          result,            \* what it returned; Running before
          encoded            \* history: what the given text was encoded from

base64Vars == <<job, given, size, source, target, state, tarindex, result, encoded>>

Running == -2
Nothing == <<-1>>            \* encoded, of a text that was not

Convert(j, g, s, e) ==
    /\ job' = j /\ given' = g /\ size' = s /\ source' = g /\ encoded' = e
    /\ target' = <<>> /\ state' = 0 /\ tarindex' = 0 /\ result' = Running

InitBase64 ==
    /\ \/ job = "ntop" /\ given \in Inputs
       \/ job = "pton" /\ given \in Sources
    /\ size \in Sizes /\ (job = "ntop" => size # Unlimited)
    /\ source = given /\ encoded = Nothing
    /\ target = <<>> /\ state = 0 /\ tarindex = 0 /\ result = Running

-----------------------------------------------------------------------------
Output(a, b, c) ==
    <<a \div 4, (a % 4) * 16 + b \div 16, (b % 16) * 4 + c \div 64, c % 64>>

Written(text) ==
    IF Len(target) + 4 > size
    THEN result' = -1 /\ UNCHANGED target
    ELSE target' = target \o text /\ UNCHANGED result

Quantum ==
    /\ job = "ntop" /\ result = Running /\ Len(source) > 2
    /\ Written(Output(source[1], source[2], source[3]))
    /\ source' = SubSeq(source, 4, Len(source))
    /\ UNCHANGED <<job, given, size, state, tarindex, encoded>>

(* Error: two characters of padding whatever is left.                      *)
PaddedTwice ==
    /\ job = "ntop" /\ result = Running /\ Len(source) \in {1, 2}
    /\ LET output == Output(source[1], IF Len(source) = 2 THEN source[2] ELSE 0, 0)
       IN Written(<<output[1], output[2], Pad, Pad>>)
    /\ source' = <<>>
    /\ UNCHANGED <<job, given, size, state, tarindex, encoded>>

Padded ==
    /\ job = "ntop" /\ result = Running /\ Len(source) \in {1, 2}
    /\ LET output == Output(source[1], IF Len(source) = 2 THEN source[2] ELSE 0, 0)
       IN Written(<<output[1], output[2],
                    IF Len(source) = 1 THEN Pad ELSE output[3], Pad>>)
    /\ source' = <<>>
    /\ UNCHANGED <<job, given, size, state, tarindex, encoded>>

(* The NUL needs a place too; the length that is returned does not count   *)
(* it.                                                                     *)
Terminate ==
    /\ job = "ntop" /\ result = Running /\ source = <<>>
    /\ result' = IF Len(target) >= size THEN -1 ELSE Len(target)
    /\ UNCHANGED <<job, given, size, source, target, state, tarindex, encoded>>

-----------------------------------------------------------------------------
(* The byte at tarindex gets the high bits of a digit, the one behind it   *)
(* the low ones.                                                           *)
Byte(i) == IF i < Len(target) THEN target[i + 1] ELSE 0

Decoded(d) ==
    LET kept == SubSeq(target, 1, tarindex)
    IN CASE state = 0 -> Append(kept, d * 4)
         [] state = 1 -> kept \o <<Byte(tarindex) + d \div 16, (d % 16) * 16>>
         [] state = 2 -> kept \o <<Byte(tarindex) + d \div 4, (d % 4) * 64>>
         [] state = 3 -> Append(kept, Byte(tarindex) + d)

(* Error: the byte behind is not counted.                                  *)
RoomAtAll == size = Unlimited \/ tarindex < size

Room == size = Unlimited \/ (IF state \in {1, 2} THEN tarindex + 1 ELSE tarindex) < size

Digit ==
    /\ job = "pton" /\ result = Running /\ source # <<>> /\ Head(source) \in Digits
    /\ \/ ~Room /\ result' = -1 /\ UNCHANGED <<target, state, tarindex>>
       \/ /\ Room
          /\ target' = IF size = Unlimited THEN target ELSE Decoded(Head(source))
          /\ state' = (state + 1) % 4
          /\ tarindex' = IF state = 0 THEN tarindex ELSE tarindex + 1
          /\ UNCHANGED result
    /\ source' = Tail(source)
    /\ UNCHANGED <<job, given, size, encoded>>

SkipSpace ==
    /\ job = "pton" /\ result = Running /\ source # <<>> /\ Head(source) = Space
    /\ source' = Tail(source)
    /\ UNCHANGED <<job, given, size, target, state, tarindex, result, encoded>>

Reject ==
    /\ job = "pton" /\ result = Running /\ source # <<>> /\ Head(source) = Other
    /\ result' = -1
    /\ UNCHANGED <<job, given, size, source, target, state, tarindex, encoded>>

(* What may follow the first '=': white space, and another '=' with it     *)
(* when a single byte is left.                                             *)
Behind == {k \in 2..Len(source) : source[k] # Space}

PaddedToTheEnd ==
    IF state = 2 THEN \E k \in Behind : Behind = {k} /\ source[k] = Pad
                 ELSE Behind = {}

(* Error: the bits past the last byte are not looked at.                   *)
ValidPadUnseen == PaddedToTheEnd

ValidPad == PaddedToTheEnd /\ (size = Unlimited \/ target[tarindex + 1] = 0)

Finish ==
    /\ job = "pton" /\ result = Running
    /\ \/ source # <<>> /\ Head(source) = Pad
          /\ result' = IF state \in {2, 3} /\ ValidPad THEN tarindex ELSE -1
       \/ source = <<>>
          /\ result' = IF state = 0 THEN tarindex ELSE -1
    /\ UNCHANGED <<job, given, size, source, target, state, tarindex, encoded>>

(* The program decodes what it has encoded.                                *)
DecodeAgain ==
    /\ job = "ntop" /\ result >= 0
    /\ \E s \in Sizes : Convert("pton", target, s, given)

NextBase64 == Quantum \/ Padded \/ Terminate \/ Digit \/ SkipSpace \/ Reject \/ Finish
              \/ DecodeAgain

Base64Spec == InitBase64 /\ [][NextBase64]_base64Vars

-----------------------------------------------------------------------------
(* Neither function writes past its target, and bytes are bytes.           *)
WithinTarget ==
    IF job = "ntop"
    THEN Len(target) + (IF result >= 0 THEN 1 ELSE 0) <= size
         /\ \A i \in DOMAIN target : target[i] \in Digits \cup {Pad}
    ELSE size # Unlimited =>
            Len(target) <= size /\ \A i \in DOMAIN target : target[i] \in 0..255

(* Encoding succeeds when there is room for the text and its NUL.  What    *)
(* was encoded is decoded to the same bytes, if there is room for them,    *)
(* and for one more byte where the text is padded.                         *)
EncodedLength == 4 * ((Len(given) + 2) \div 3)

BytesNeeded(bytes) == Len(bytes) + (IF Len(bytes) % 3 = 0 THEN 0 ELSE 1)

RoundTrip ==
    /\ job = "ntop" /\ result # Running =>
        result = IF EncodedLength < size THEN EncodedLength ELSE -1
    /\ job = "pton" /\ result # Running /\ encoded # Nothing =>
        IF size = Unlimited THEN result = Len(encoded)
        ELSE IF size < BytesNeeded(encoded) THEN result = -1
        ELSE result = Len(encoded) /\ SubSeq(target, 1, result) = encoded

(* "If we don't check them, they become a subliminal channel."             *)
(* (base64.c:298): apart from white space there is one text that decodes   *)
(* to given bytes, the one that b64_ntop makes of them.                    *)
ByteOf(bytes, k) == IF k <= Len(bytes) THEN bytes[k] ELSE 0

DigitOf(bytes, k) ==
    LET q == (k - 1) \div 4
    IN Output(ByteOf(bytes, 3 * q + 1), ByteOf(bytes, 3 * q + 2),
              ByteOf(bytes, 3 * q + 3))[((k - 1) % 4) + 1]

Encoding(bytes) ==
    [k \in 1..4 * ((Len(bytes) + 2) \div 3) |->
        IF k <= (8 * Len(bytes) + 5) \div 6 THEN DigitOf(bytes, k) ELSE Pad]

Place(text, k) == Cardinality({j \in 1..k : text[j] # Space})

ReadsAs(text, characters) ==
    /\ Place(text, Len(text)) = Len(characters)
    /\ \A k \in 1..Len(text) :
        text[k] # Space => text[k] = characters[Place(text, k)]

OneTextEach ==
    job = "pton" /\ result >= 0 /\ size # Unlimited =>
        ReadsAs(given, Encoding(SubSeq(target, 1, result)))
=============================================================================
