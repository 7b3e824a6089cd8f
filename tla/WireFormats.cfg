CONSTANTS
  Letters <- MCLetters
  MaxNumber = 7
  LengthBytes = 1
  SequenceBytes = 2
  MaxMessage = 5
  KeyPrefixes <- MCKeyPrefixes
  Sids <- MCSids
  UserKeys <- MCUserKeys
  Texts <- MCTexts
  ListPrefixes <- MCListPrefixes
  PayloadBytes <- MCPayloadBytes
  MaxPayload = 7
  Entries <- MCEntries
  Randoms <- MCRandoms
  Results <- MCResults
  Messages <- MCMessages
SPECIFICATION Spec
CHECK_DEADLOCK FALSE
INVARIANTS
  KeysAreUnambiguous
  ListIsExact
  BatchesDecodeExactly
  AcksDecodeExactly
  DiagnosticsAreSendable
