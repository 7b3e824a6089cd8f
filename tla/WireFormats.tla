---------------------------- MODULE WireFormats ----------------------------
(***************************************************************************)
(* The formats of Keys and Codecs at work: a text or a payload arrives     *)
(* (`question`), the code that reads it runs once (`answer`).  The texts   *)
(* and payloads are all short ones over an alphabet that reaches every     *)
(* branch, and everything one edit away from what the writers produce.     *)
(***************************************************************************)
EXTENDS Keys, Codecs

CONSTANTS
  KeyPrefixes, Sids, UserKeys, Texts,   \* key prefixes, session ids, parameter keys, other texts
  ListPrefixes,                      \* prefixes given to List
  PayloadBytes, MaxPayload,          \* bytes that may be a batch, and how many at most
  Entries,                           \* batches, as lists of entries
  Randoms, Results, Messages         \* random bytes, ack results, diagnostics

VARIABLES question, answer
vars == <<question, answer>>

\* Everything that one symbol removed, replaced or inserted makes of a text.
Edits(t, symbols) ==
  {RemoveAt(t, i) : i \in DOMAIN t}
  \cup {ReplaceAt(t, i, c) : i \in DOMAIN t, c \in symbols}
  \cup {InsertAt(t, i, c) : i \in 1 .. Len(t) + 1, c \in symbols}

\* One builder per kind of address, as its users call it.
Build(prefix, a) ==
  CASE a.kind \in {"Base", "Session", "Snapshot"} ->
         IF a.batch THEN BuildBatchKey(prefix, ScopePath(a))
         ELSE BuildKey(prefix, ScopePath(a), a.key)
    [] a.kind = "Buffer" -> BuildBufferKey(prefix, a.sid, a.class, a.key)
    [] a.kind = "MetaSession" -> BuildMetaSessionKey(prefix, a.sid)
    [] a.kind = "MetaAck" -> BuildMetaAckKey(prefix, a.uuid)

BuildRoute(prefix, r) ==
  IF r.target = "cache" THEN BuildCacheFenceMarkerKey(prefix, r)
  ELSE BuildBufferFenceMarkerKey(prefix, r)

Addresses ==
  LET Relative(a) == {[a EXCEPT !.key = k] : k \in UserKeys} \cup {[a EXCEPT !.batch = TRUE]}
      Scoped(kind) == UNION {Relative([Address(kind) EXCEPT !.sid = s]) : s \in Sids}
  IN Relative(Address("Base")) \cup Scoped("Session") \cup Scoped("Snapshot")
     \cup {[Address("Buffer") EXCEPT !.sid = s, !.class = c, !.key = k] :
             s \in Sids, c \in {"durable", "ephemeral"}, k \in UserKeys}
     \cup {[Address("MetaSession") EXCEPT !.sid = s] : s \in Sids}
     \cup {[Address("MetaAck") EXCEPT !.uuid = <<u>>] : u \in Uuids}

Routes ==
  {Route("cache", s, u, "", v, "applied", n) :
     s \in Sids, u \in Uuids, v \in Uuids, n \in 0 .. MaxNumber}
  \cup {Route("buffer", s, u, c, v, d, n) :
     s \in Sids, u \in Uuids, c \in {"durable", "ephemeral"}, v \in Uuids,
     d \in {"applied", "synced"}, n \in {0, MaxNumber}}

\* What the writers write, as <<prefix, address or route or sid and generation, text>>.
BuiltKeys == {x \in {<<p, a, Build(p, a)>> : p \in KeyPrefixes, a \in Addresses} : x[3] # None}
BuiltRoutes == {x \in {<<p, r, BuildRoute(p, r)>> : p \in KeyPrefixes, r \in Routes} : x[3] # None}
BuiltTokens == {<<p, <<s, <<u>>>>, BuildSessionLivelinessKey(p, s, <<u>>)>> :
                  p \in KeyPrefixes, s \in Sids, u \in Uuids}

Symbols == {"/", "a", "U1", "0", ".", "*", ":batch", "session"}

KeyTexts(prefix) ==
  LET built == {x[3][1] : x \in {x \in BuiltKeys : x[1] = prefix}}
               \cup {x[3][1] : x \in {x \in BuiltTokens : x[1] = prefix}}
      routes == {x[3][1] : x \in {x \in BuiltRoutes : x[1] = prefix /\ x[2].through # 1}}
  IN built \cup routes \cup UNION {Edits(t, Symbols) : t \in built \cup routes}
     \cup {Under(prefix, t) : t \in Texts}

-----------------------------------------------------------------------------
Asked(kind) == question.kind = kind /\ answer = <<>>

\* Everyone who may read a key reads it.
ReadKey ==
  /\ Asked("key")
  /\ answer' = <<[key |-> ParseKey(question.prefix, question.text),
                  route |-> ParseFenceMarkerRoute(question.prefix, question.text),
                  loose |-> RecoverMalformedFenceMarkerRoute(question.prefix, question.text),
                  live |-> {s \in Sids :
                    ParseSessionLivelinessKey(question.prefix, s, question.text) # None}]>>
  /\ UNCHANGED question

ListKeys ==
  /\ Asked("list")
  /\ LET readers == [s \in {ScopePath(question.scope)} \cup
                           {<<"base">>, <<"session", "/", "a">>, <<"snap", "/", "a">>} |->
                      IF s = ScopePath(question.scope) THEN question.keys ELSE UserKeys]
     IN answer' = <<List(question.prefix, readers, ScopePath(question.scope), question.wanted)>>
  /\ UNCHANGED question

ReadBatch ==
  /\ Asked("batch")
  /\ answer' = <<DecodeBatch(question.payload)>>
  /\ UNCHANGED question

ReadEntries ==
  /\ Asked("entries")
  /\ answer' = <<[batch |-> DecodeBatch(EncodeBatch(question.entries)),
                  values |-> [i \in DOMAIN question.entries |->
                                DecodeValue(EncodeValue(question.entries[i].value))]]>>
  /\ UNCHANGED question

ReadToken ==
  /\ Asked("token")
  /\ answer' = <<ParseAckToken(question.text)>>
  /\ UNCHANGED question

ReadAttachment ==
  /\ Asked("attachment")
  /\ answer' = <<ClassifyAttachment(question.payload)>>
  /\ UNCHANGED question

ReadResult ==
  /\ Asked("result")
  /\ answer' = <<DecodeAckResult(question.payload)>>
  /\ UNCHANGED question

Sanitize ==
  /\ Asked("message")
  /\ answer' = <<[valid |-> IsValidUtf8(question.text),
                  sanitized |-> SanitizeFenceDiagnostic(question.text)]>>
  /\ UNCHANGED question

\* All short byte strings, and those of full length that announce two entries.
Payloads ==
  BoundedSeq(PayloadBytes, MaxPayload - 1)
  \cup {<<2>> \o t : t \in [1 .. MaxPayload - 1 -> PayloadBytes]}

Tokens == {GenerateAckToken(r) : r \in Randoms}
HexTexts == {Dash, 48, 52, 65, 97}
Bytes == {0, 1, 63, 64, 128, 255}

\* The bytes of a result whether or not it is valid.
Layout(r) ==
  <<SchemaVersion, r.kind, r.status, r.durability>>
  \o PutLe(r.applied, LengthBytes) \o PutLe(r.failedIndex, LengthBytes)
  \o PutLe(r.through, SequenceBytes) \o PutLe(r.failedSequence, SequenceBytes)
  \o PutLe(Len(r.message), LengthBytes) \o r.message

Attachments ==
  LET written == {EncodeAckAttachment(t) : t \in Tokens}
                 \cup {EncodeFenceLaneAttachment(t, n) : t \in Tokens, n \in {1, 255, 256}}
  IN written \cup UNION {Edits(p, Bytes) : p \in written} \cup {<<>>, <<1>>, <<2>>}

Init ==
  /\ answer = <<>>
  /\ \/ \E p \in KeyPrefixes : \E t \in KeyTexts(p) :
          question = [kind |-> "key", prefix |-> p, text |-> t]
     \/ \E p \in KeyPrefixes, s \in {"Base", "Session", "Snapshot"}, w \in ListPrefixes,
           k \in SUBSET UserKeys :
          question = [kind |-> "list", prefix |-> p, wanted |-> w, keys |-> k,
                      scope |-> Scope(s, IF s = "Base" THEN <<>> ELSE <<"a", "b">>)]
     \/ \E p \in Payloads : question = [kind |-> "batch", payload |-> p]
     \/ \E es \in Entries : question = [kind |-> "entries", entries |-> es]
     \/ \E t \in {FormatAckToken(t) : t \in Tokens} : \E e \in {t} \cup Edits(t, HexTexts) :
          question = [kind |-> "token", text |-> e]
     \/ \E p \in Attachments : question = [kind |-> "attachment", payload |-> p]
     \/ \E r \in Results :
          \E p \in {Layout(r)} \cup (IF ValidateAckResult(r) THEN Edits(Layout(r), {0, 255}) ELSE {}) :
            question = [kind |-> "result", payload |-> p]
     \/ \E t \in Messages : question = [kind |-> "message", text |-> t]

Next == ReadKey \/ ListKeys \/ ReadBatch \/ ReadEntries \/ ReadToken \/ ReadAttachment
        \/ ReadResult \/ Sanitize

Spec == Init /\ [][Next]_vars

Answered(kind) == question.kind = kind /\ answer # <<>>

-----------------------------------------------------------------------------
\* A key has one reading and one spelling: what a builder writes is read back as what it
\* was built from, what a reader accepts is exactly what the builder writes for it, and no
\* text is at once a parameter, buffer or metadata key, a session's liveliness token and a
\* fence marker (ParseKey, ParseSessionLivelinessKey, ParseFenceMarkerRoute).  The reader of
\* malformed markers agrees with the strict one wherever that accepts.
KeysAreUnambiguous ==
  Answered("key") =>
    LET p == question.prefix
        t == question.text
        a == answer[1]
        BuiltHere(built) == {x[2] : x \in {x \in built : x[1] = p /\ x[3] = Some(t)}}
    IN /\ \A x \in BuiltHere(BuiltKeys) : a.key = Some(x)
       /\ \A x \in BuiltHere(BuiltRoutes) : a.route = Some(x)
       /\ \A x \in BuiltHere(BuiltTokens) : a.live = {x[1]}
       /\ a.key # None => Build(p, a.key[1]) = Some(t)
       /\ a.route # None => BuildRoute(p, a.route[1]) = Some(t) /\ a.loose = a.route
       /\ \A s \in a.live : StartsWith(t, Front(BuildSessionLivelinessSelector(p, s)[1]))
       /\ Cardinality(a.live) + Len(a.key) + Len(a.route) <= 1

\* List returns exactly the keys of the scope that start with the prefix, and refuses
\* exactly the prefixes no key can start with, although the selector it sends names a
\* coarser parent and the queryable answers with keys of that parent (ParamStore::List,
\* ParseRelativeSelector).  A reply is never taken for one of another scope.
ListIsExact ==
  Answered("list") =>
    answer[1] =
      IF question.wanted = <<>> \/ \E tail \in {<<>>, <<"a">>} : IsValidKey(question.wanted \o tail)
      THEN [status |-> "Ok",
            keys |-> {k \in question.keys : StartsWith(k, question.wanted)}]
      ELSE [status |-> "InvalidKey", keys |-> {}]

\* The batches a short byte string can be, each with its entries: the layout of
\* docs/03 written out, without a parser.
WellFormed ==
  LET Entry(n) == {e \in BoundedSeq(PayloadBytes, n) \X PayloadBytes \X BoundedSeq(PayloadBytes, n) :
                     Len(e[1]) + Len(e[3]) <= n /\ DecodeTagged(e[2], e[3]) # Nothing}
      Rows == {<<>>} \cup {<<e>> : e \in Entry(MaxPayload - 1 - LengthBytes - SmallestEntry)}
              \cup {<<e, f>> : e \in Entry(0), f \in Entry(0)}
  IN {<< PutLe(Len(row), LengthBytes)
         \o FlattenSeq([i \in DOMAIN row |-> EntryBytes(row[i][1], row[i][2], row[i][3])]),
         [i \in DOMAIN row |-> [key |-> row[i][1], value |-> DecodeTagged(row[i][2], row[i][3])[1]]]
      >> : row \in Rows}

WellFormedPayloads == {w[1] : w \in WellFormed}

\* A NaN is the one value that does not come back bit by bit.
Canonical(v) == IF v.tag = 2 /\ IsNan(v.body) THEN Value(2, CanonicalNan) ELSE v

\* DecodeBatch accepts exactly the byte strings that are a batch, with no byte missing or
\* left over whatever the length fields say, and yields the entries in them; every batch
\* and every value that is written is read back as it was, but for the bits of a NaN.
BatchesDecodeExactly ==
  /\ Answered("batch") =>
       IF answer[1] = Nothing THEN question.payload \notin WellFormedPayloads
       ELSE <<question.payload, answer[1][1]>> \in WellFormed
  /\ Answered("entries") =>
       LET es == question.entries
       IN /\ answer[1].batch = Just([i \in DOMAIN es |->
                                       [key |-> es[i].key, value |-> Canonical(es[i].value)]])
          /\ \A i \in DOMAIN es : answer[1].values[i] = Just(Canonical(es[i].value))

SentResults == {EncodeAckResult(r) : r \in Results}

\* A token, an attachment or a result that is accepted is spelled the one way it is written,
\* and all that are written are accepted: a damaged or resized one is never taken for
\* another, and no attachment is read as an acknowledgement and as a fence lane at once.
AcksDecodeExactly ==
  /\ Answered("token") =>
       /\ answer[1] # Nothing => FormatAckToken(answer[1][1]) = question.text
       /\ \A t \in Tokens : FormatAckToken(t) = question.text => answer[1] = Just(t)
  /\ Answered("attachment") =>
       LET p == question.payload
           ack == answer[1].ack
           lane == answer[1].lane
       IN /\ ack.kind = "observed" => EncodeAckAttachment(ack.uuid[1]) = p
          /\ lane.kind = "observed" => EncodeFenceLaneAttachment(lane.uuid[1], lane.sequence[1]) = p
          /\ ack.kind = "absent" \/ lane.kind = "absent"
          /\ \A t \in Tokens :
               /\ p = EncodeAckAttachment(t) => ack = Observed(t, Nothing)
               /\ \A n \in {1, 255, 256} :
                    p = EncodeFenceLaneAttachment(t, n) => lane = Observed(t, Just(n))
  /\ Answered("result") =>
       /\ answer[1] # Nothing => EncodeAckResult(answer[1][1]) = Just(question.payload)
       /\ answer[1] = Nothing => Just(question.payload) \notin SentResults

\* The well-formed byte sequences of the Unicode standard, by the ranges of their bytes.
WellFormedSequence(b) ==
  LET In(i, low, high) == b[i] \in low .. high
      Tails(from) == \A i \in from .. Len(b) : In(i, 128, 191)
  IN CASE Len(b) = 1 -> In(1, 0, 127)
       [] Len(b) = 2 -> In(1, 194, 223) /\ Tails(2)
       [] Len(b) = 3 -> /\ Tails(3)
                        /\ \/ In(1, 224, 224) /\ In(2, 160, 191)
                           \/ In(1, 225, 236) /\ Tails(2)
                           \/ In(1, 237, 237) /\ In(2, 128, 159)
                           \/ In(1, 238, 239) /\ Tails(2)
       [] Len(b) = 4 -> /\ Tails(3)
                        /\ \/ In(1, 240, 240) /\ In(2, 144, 191)
                           \/ In(1, 241, 243) /\ Tails(2)
                           \/ In(1, 244, 244) /\ In(2, 128, 143)
       [] OTHER -> FALSE

\* Some way to cut the text leaves only well-formed sequences.
WellFormedText(t) ==
  \E cuts \in SUBSET (1 .. Len(t) - 1) :
    LET at == <<0>> \o SelectSeq([i \in DOMAIN t |-> i], LAMBDA i : i \in cuts) \o <<Len(t)>>
    IN t = <<>> \/ \A i \in 1 .. Len(at) - 1 : WellFormedSequence(SubSeq(t, at[i] + 1, at[i + 1]))

\* IsValidUtf8 is the Unicode standard's definition, and what SanitizeFenceDiagnostic makes
\* of any diagnostic passes it and the length limit: a fence failure can always be encoded
\* as a result and reaches the publisher.  A clean text that fits is not changed.
DiagnosticsAreSendable ==
  Answered("message") =>
    LET t == question.text
        s == answer[1].sanitized
    IN /\ answer[1].valid = WellFormedText(t)
       /\ WellFormedText(s) /\ Len(s) <= MaxMessage
       /\ WellFormedText(t) /\ Len(t) <= MaxMessage /\ (\A b \in ToSet(t) : b < 128 => b \in Printable)
          => s = t
=============================================================================
