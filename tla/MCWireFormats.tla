--------------------------- MODULE MCWireFormats ---------------------------
(***************************************************************************)
(* WireFormats on small texts: u32 fields of one byte, u64 fields of two   *)
(* and messages of at most five bytes.                                     *)
(***************************************************************************)
EXTENDS WireFormats

MCLetters == {"a", "b"}

\* One prefix is a prefix of the other as text and repeats a word of the grammar.
MCKeyPrefixes == {<<"a">>, <<"a", "/", "base">>}

\* As texts, one id is a prefix of the other.
MCSids == {<<"a">>, <<"a", "b">>}
MCUserKeys == {<<"a">>, <<"a", "b">>, <<"a", "/", "b">>, <<"base", ".">>, <<"b", "/", "a", "/", "b">>}
MCTexts == BoundedSeq({"/", "a", ".", "*", ":batch", "base", "session", "snap", "meta"}, 3)
MCListPrefixes == BoundedSeq({"/", "a", "b", ".", "*", ":batch"}, 3)

MCPayloadBytes == {0, 1, 2, 3, 5}

MCEntries ==
  LET Eight(low, high) == <<low, 0, 0, 0, 0, 0, high, 127>>
      Values == {Value(0, <<0>>), Value(0, <<1>>), Value(1, Eight(7, 0)), Value(2, Eight(0, 240)),
                 Value(2, Eight(1, 240)), Value(2, CanonicalNan), Value(3, <<>>), Value(4, <<1, 2>>)}
  IN BoundedSeq([key : {<<>>, <<97>>}, value : Values], 2)

MCRandoms == {[i \in 1 .. 16 |-> b] : b \in {0, 255}} \cup {[i \in 1 .. 16 |-> 16 * i - 1]}

MCResults ==
  [kind : 0 .. 4, status : {0, 3, 8, 9, 12}, durability : {1, 2, 3}, applied : {0, 1},
   failedIndex : {0, 1, 255}, through : {0, 1, 256}, failedSequence : {0, 1, 2, 65535},
   message : {<<>>, <<65, 195, 169>>}]
  \cup [kind : {3}, status : {8}, durability : {1}, applied : {0}, failedIndex : {255},
        through : {256}, failedSequence : {256},
        message : {<<195>>, <<65, 65, 65, 65, 65>>, <<65, 65, 65, 65, 65, 65>>}]

\* The bytes next to a limit of the UTF-8 ranges, then longer texts that meet the limit of
\* a message inside a sequence.
MCMessages ==
  LET Limits == {65, 7, 127, 128, 144, 159, 160, 193, 194, 224, 237, 239, 240, 244, 245}
      Sequences == {<<194, 128>>, <<224, 160, 128>>, <<240, 144, 128, 128>>, <<237, 160, 128>>, <<240>>}
      A(n) == [i \in 1 .. n |-> 65]
  IN BoundedSeq(Limits, 4)
     \cup {A(n) \o s \o t : n \in 0 .. 5, s \in Sequences, t \in Sequences \cup {<<>>}}
=============================================================================
