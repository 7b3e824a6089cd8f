------------------------------ MODULE Codecs ------------------------------
(***************************************************************************)
(* The byte formats: values (src/src/param_value.cpp), batches             *)
(* (src/src/batch.cpp), acknowledgement tokens, attachments and results    *)
(* (src/src/ack.cpp), fence lane attachments and the sanitizing of a       *)
(* diagnostic (src/src/fence.cpp).                                         *)
(*                                                                         *)
(* A byte is a number below 256 and a text is a sequence of bytes.  The    *)
(* widths of the integer fields are constants, so that short strings reach *)
(* every branch; the UUID of a token has its 16 bytes.  An optional value  *)
(* is <<>> or <<x>>.                                                       *)
(***************************************************************************)
EXTENDS Integers, Sequences, SequencesExt

CONSTANTS LengthBytes,     \* bytes of a u32; 4 in the code
          SequenceBytes,   \* bytes of a u64 of a fence or an ack result; 8 in the code
          MaxMessage       \* kAckResultMaxMessageLength; 1024 in the code

ASSUME WidthAssumption == LengthBytes \in 1 .. 4 /\ SequenceBytes \in 1 .. 8
ASSUME MessageAssumption == MaxMessage \in Nat /\ MaxMessage < 256^LengthBytes

Nothing == <<>>
Just(x) == <<x>>

Slice(p, at, n) == SubSeq(p, at + 1, at + n)

PutLe(value, size) == [i \in 1 .. size |-> (value \div 256^(i - 1)) % 256]

ReadLe(p, at, size) ==
  FoldLeft(LAMBDA n, i : n + p[at + i] * 256^(i - 1), 0, [i \in 1 .. size |-> i])

\* ReadLeU32: nothing when the payload ends before the field does.
ReadLength(p, at) ==
  IF at + LengthBytes > Len(p) THEN Nothing ELSE Just(ReadLe(p, at, LengthBytes))

-----------------------------------------------------------------------------
\* A ParamValue is its type tag and the bytes of its value; a Bool is <<0>> or <<1>>.
Value(tag, body) == [tag |-> tag, body |-> body]
NumberBytes == 8

\* An IEEE double, least significant byte first: exponent all ones, fraction not zero.
IsNan(body) ==
  /\ body[8] % 128 = 127 /\ body[7] \div 16 = 15
  /\ body[7] % 16 # 0 \/ \E i \in 1 .. 6 : body[i] # 0

CanonicalNan == <<0, 0, 0, 0, 0, 0, 248, 127>>

EncodeBody(v) == IF v.tag = 2 /\ IsNan(v.body) THEN CanonicalNan ELSE v.body

EncodeValue(v) == <<v.tag>> \o EncodeBody(v)

DecodeTagged(tag, body) ==
  CASE tag = 0 -> IF Len(body) # 1 THEN Nothing
                  ELSE Just(Value(0, IF body[1] = 0 THEN <<0>> ELSE <<1>>))
    [] tag \in {1, 2} -> IF Len(body) # NumberBytes THEN Nothing ELSE Just(Value(tag, body))
    [] tag \in {3, 4} -> Just(Value(tag, body))
    [] OTHER -> Nothing

DecodeValue(p) == IF p = <<>> THEN Nothing ELSE DecodeTagged(Head(p), Tail(p))

-----------------------------------------------------------------------------
EntryBytes(key, tag, body) ==
  PutLe(Len(key), LengthBytes) \o key \o <<tag>> \o PutLe(Len(body), LengthBytes) \o body

EncodeBatch(entries) ==
  PutLe(Len(entries), LengthBytes)
  \o FlattenSeq([i \in DOMAIN entries |->
       EntryBytes(entries[i].key, entries[i].value.tag, EncodeBody(entries[i].value))])

\* One iteration of the loop of DecodeBatch, from the offset `s.at`; `s` is Nothing once
\* an entry was refused.
DecodeEntry(p, s) ==
  LET kLen == ReadLength(p, s[1].at)
      key == s[1].at + LengthBytes
      tag == key + kLen[1]
      vLen == ReadLength(p, tag + 1)
      body == tag + 1 + LengthBytes
      value == DecodeTagged(p[tag + 1], Slice(p, body, vLen[1]))
  IN CASE s = Nothing -> Nothing
       [] s # Nothing -> IF \/ kLen = Nothing
                            \/ kLen[1] > Len(p) - key
                            \/ tag >= Len(p)
                            \/ vLen = Nothing
                            \/ vLen[1] > Len(p) - body
                            \/ value = Nothing
                         THEN Nothing
                         ELSE Just([at |-> body + vLen[1], entries |-> Append(s[1].entries,
                                [key |-> Slice(p, key, kLen[1]), value |-> value[1]])])

\* The smallest entry has an empty key and an empty value.
SmallestEntry == 2 * LengthBytes + 1

\* No byte is left over.
ConsumedSome(p, at) == at <= Len(p)
Consumed(p, at) == at = Len(p)

DecodeBatch(p) ==
  LET count == ReadLength(p, 0)
      end == FoldLeft(LAMBDA s, i : DecodeEntry(p, s),
                      Just([at |-> LengthBytes, entries |-> <<>>]), [i \in 1 .. count[1] |-> i])
  IN CASE count = Nothing -> Nothing
       [] OTHER -> IF count[1] > Len(p) \div SmallestEntry + 1 \/ end = Nothing THEN Nothing
                   ELSE IF ~Consumed(p, end[1].at) THEN Nothing
                   ELSE Just(end[1].entries)

-----------------------------------------------------------------------------
UuidBytes == 16

IsValidAckToken(t) == t[7] \div 16 = 4 /\ t[9] \div 64 = 2

\* GenerateAckToken: the version and the variant are written over the random bytes.
GenerateAckToken(random) ==
  [random EXCEPT ![7] = (@ % 16) + 64, ![9] = (@ % 64) + 128]

HexDigits == <<48, 49, 50, 51, 52, 53, 54, 55, 56, 57, 97, 98, 99, 100, 101, 102>>
Dash == 45

FormatAckToken(t) ==
  FlattenSeq([i \in 1 .. UuidBytes |->
    (IF i \in {5, 7, 9, 11} THEN <<Dash>> ELSE <<>>)
    \o <<HexDigits[t[i] \div 16 + 1], HexDigits[(t[i] % 16) + 1]>>])

\* HexValue is -1 for anything but a lower case hexadecimal digit.
HexValue(c) == SelectInSeq(HexDigits, LAMBDA d : d = c) - 1

ParseAckToken(p) ==
  LET dashes == {9, 14, 19, 24}
      digit == SelectSeq([i \in 1 .. 36 |-> i], LAMBDA i : i \notin dashes)
      token == [i \in 1 .. UuidBytes |-> HexValue(p[digit[2 * i - 1]]) * 16
                                         + HexValue(p[digit[2 * i]])]
  IN IF Len(p) # 36 THEN Nothing
     ELSE IF \/ \E i \in dashes : p[i] # Dash
             \/ \E i \in 1 .. 36 \ dashes : HexValue(p[i]) < 0
             \/ ~IsValidAckToken(token)
     THEN Nothing ELSE Just(token)

SchemaVersion == 1
AckAttachmentSize == 1 + UuidBytes
FenceLaneAttachmentSize == 1 + UuidBytes + SequenceBytes

Absent == [kind |-> "absent", uuid |-> Nothing, sequence |-> Nothing]
Malformed(uuid, sequence) == [kind |-> "malformed", uuid |-> uuid, sequence |-> sequence]
Observed(uuid, sequence) == [kind |-> "observed", uuid |-> Just(uuid), sequence |-> sequence]

EncodeAckAttachment(token) == <<SchemaVersion>> \o token

ObserveAckAttachment(p) ==
  IF Len(p) = AckAttachmentSize /\ p[1] = SchemaVersion /\ IsValidAckToken(Tail(p))
  THEN Observed(Tail(p), Nothing) ELSE Malformed(Nothing, Nothing)

EncodeFenceLaneAttachment(uuid, sequence) ==
  <<SchemaVersion>> \o uuid \o PutLe(sequence, SequenceBytes)

\* A malformed attachment still names the publisher and the sequence it can be read for.
ObserveFenceLaneAttachment(p) ==
  LET exact == Len(p) = FenceLaneAttachmentSize
      candidate == p # <<>> /\ p[1] = SchemaVersion
      named == Slice(p, 1, UuidBytes)
      number == ReadLe(p, 1 + UuidBytes, SequenceBytes)
      uuid == IF Len(p) <= UuidBytes THEN Nothing
              ELSE IF IsValidAckToken(named) THEN Just(named) ELSE Nothing
      sequence == IF ~candidate \/ Len(p) < FenceLaneAttachmentSize THEN Nothing
                  ELSE IF number # 0 THEN Just(number) ELSE Nothing
  IN CASE ~exact /\ ~candidate -> Absent
       [] exact /\ candidate /\ uuid # Nothing /\ sequence # Nothing -> Observed(uuid[1], sequence)
       [] OTHER -> Malformed(uuid, sequence)

\* ClassifyAttachment: the size of an ack attachment decides before the first byte does.
ClassifyAttachment(p) ==
  CASE Len(p) = AckAttachmentSize -> [ack |-> ObserveAckAttachment(p), lane |-> Absent]
    [] Len(p) = FenceLaneAttachmentSize \/ (p # <<>> /\ p[1] = SchemaVersion) ->
         [ack |-> Absent, lane |-> ObserveFenceLaneAttachment(p)]
    [] OTHER -> [ack |-> Absent, lane |-> Absent]

-----------------------------------------------------------------------------
\* How far one step of IsValidUtf8 gets from offset `at`: 0 when the text is not UTF-8.
IsContinuation(b) == b \div 64 = 2
SequenceLength(b) ==
  CASE b < 128 -> 1 [] b \in 194 .. 223 -> 2 [] b \in 224 .. 239 -> 3
    [] b \in 240 .. 244 -> 4 [] OTHER -> 0

CodePoint(p, at, n) ==
  LET lead == p[at + 1] % (CASE n = 2 -> 32 [] n = 3 -> 16 [] n = 4 -> 8)
  IN FoldLeft(LAMBDA c, b : c * 64 + (b % 64), lead, Slice(p, at + 1, n - 1))

Utf8Step(p, at) ==
  LET n == SequenceLength(p[at + 1])
      c == CodePoint(p, at, n)
  IN IF n <= 1 THEN n
     ELSE IF \/ at + n > Len(p)
             \/ \E i \in 2 .. n : ~IsContinuation(p[at + i])
             \/ (n = 3 /\ c < 2048) \/ (n = 4 /\ c < 65536)
             \/ c \in 55296 .. 57343 \/ c > 1114111
     THEN 0 ELSE n

\* The loop of IsValidUtf8: -1 is the early return, otherwise the offset reached.
IsValidUtf8(p) ==
  LET Step(at, i) == IF at \in {-1, Len(p)} THEN at
                     ELSE IF Utf8Step(p, at) = 0 THEN -1 ELSE at + Utf8Step(p, at)
  IN FoldLeft(Step, 0, [i \in DOMAIN p |-> i]) = Len(p)

Printable == (32 .. 126) \cup {9, 10, 13}
QuestionMark == 63

\* The second bytes that make a sequence overlong, a surrogate or too large.
BadSecondOverlong(first, second) ==
  (first = 224 /\ second < 160) \/ (first = 240 /\ second < 144)
BadSecond(first, second) ==
  \/ (first = 224 /\ second < 160) \/ (first = 237 /\ second >= 160)
  \/ (first = 240 /\ second < 144) \/ (first = 244 /\ second >= 144)

\* What SanitizeFenceDiagnostic copies from offset `at` when `room` bytes are left: a whole
\* sequence, or nothing, which becomes one question mark for one byte of input.
Copied(p, at, room) ==
  LET n == SequenceLength(p[at + 1])
      first == p[at + 1]
  IN CASE first \in Printable -> <<first>>
       [] first \notin Printable /\ n < 2 -> <<>>
       [] OTHER -> IF \/ at + n > Len(p)
                      \/ \E i \in 2 .. n : ~IsContinuation(p[at + i])
                      \/ BadSecond(first, p[at + 2])
                      \/ n > room
                   THEN <<>> ELSE Slice(p, at, n)

SanitizeFenceDiagnostic(p) ==
  LET Step(s, i) ==
        LET copied == Copied(p, s.at, MaxMessage - Len(s.out))
        IN IF s.at = Len(p) \/ Len(s.out) >= MaxMessage THEN s
           ELSE IF copied = <<>> THEN [at |-> s.at + 1, out |-> Append(s.out, QuestionMark)]
           ELSE [at |-> s.at + Len(copied), out |-> s.out \o copied]
  IN FoldLeft(Step, [at |-> 0, out |-> <<>>], [i \in DOMAIN p |-> i]).out

-----------------------------------------------------------------------------
\* An AckResultV1 keeps its enumerations as their wire values.
Put == 1
Batched == 2
Fence == 3
Applied == 1
Synced == 2
Ok == 0
OutcomeUnknown == 9
NoFailedIndex == 256^LengthBytes - 1
NoFailedSequence == 256^SequenceBytes - 1

\* Timeout is client-only.
Timeout == 3
IsWireStatus(status) == status \in 0 .. 11 \ {Timeout}

\* What the counts of a Put, a Batch and a Fence may be.
ValidCounts(r) ==
  LET ok == r.status = Ok
      noIndex == r.failedIndex = NoFailedIndex
      notSequenced == r.through = 0 /\ r.failedSequence = NoFailedSequence
  IN CASE r.kind = Put ->
            /\ r.durability = Applied /\ notSequenced
            /\ IF ok THEN r.applied = 1 /\ noIndex ELSE r.applied = 0 /\ r.failedIndex = 0
       [] r.kind = Batched ->
            /\ r.durability = Applied /\ notSequenced
            /\ CASE ok -> noIndex
                 [] ~ok /\ noIndex -> r.applied = 0
                 [] OTHER -> \/ r.applied = r.failedIndex
                             \/ r.applied = 0 /\ r.status # OutcomeUnknown
       [] r.kind = Fence ->
            /\ r.applied = 0 /\ noIndex
            /\ \/ r.failedSequence = NoFailedSequence
               \/ r.failedSequence # 0 /\ r.failedSequence <= r.through
       [] OTHER -> FALSE

ValidateAckResult(r) ==
  /\ IsWireStatus(r.status) /\ r.durability \in {Applied, Synced}
  /\ Len(r.message) <= MaxMessage /\ IsValidUtf8(r.message)
  /\ ValidCounts(r)

EncodeAckResult(r) ==
  IF ~ValidateAckResult(r) THEN Nothing
  ELSE Just(<<SchemaVersion, r.kind, r.status, r.durability>>
            \o PutLe(r.applied, LengthBytes) \o PutLe(r.failedIndex, LengthBytes)
            \o PutLe(r.through, SequenceBytes) \o PutLe(r.failedSequence, SequenceBytes)
            \o PutLe(Len(r.message), LengthBytes) \o r.message)

AckResultHeaderSize == 4 + 3 * LengthBytes + 2 * SequenceBytes

\* The payload ends where the message does.
ExactLengthOrMore(p, size) == Len(p) >= AckResultHeaderSize + size
ExactLength(p, size) == Len(p) = AckResultHeaderSize + size

DecodeAckResult(p) ==
  LET index == 4 + LengthBytes
      through == index + LengthBytes
      failed == through + SequenceBytes
      length == failed + SequenceBytes
      size == ReadLe(p, length, LengthBytes)
      r == [kind |-> p[2], status |-> p[3], durability |-> p[4],
            applied |-> ReadLe(p, 4, LengthBytes), failedIndex |-> ReadLe(p, index, LengthBytes),
            through |-> ReadLe(p, through, SequenceBytes),
            failedSequence |-> ReadLe(p, failed, SequenceBytes),
            message |-> Slice(p, AckResultHeaderSize, size)]
  IN IF Len(p) < AckResultHeaderSize THEN Nothing
     ELSE IF \/ p[1] # SchemaVersion
             \/ size > MaxMessage
             \/ ~ExactLength(p, size)
             \/ ~ValidateAckResult(r)
     THEN Nothing ELSE Just(r)
=============================================================================
