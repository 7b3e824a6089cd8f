------------------------------- MODULE Keys -------------------------------
(***************************************************************************)
(* The key grammar (src/src/key.cpp), the routes of fence markers          *)
(* (src/src/fence.cpp) and the selector a List travels on, from            *)
(* ParamStore::List to the queryable and back.                             *)
(*                                                                         *)
(* A text is a sequence of symbols.  A symbol is one character the grammar *)
(* tells apart, or a word or UUID no other symbols spell; the words are    *)
(* plain alphanumeric text to the validators, as in the code.  An optional *)
(* value is None or Some(x).                                               *)
(***************************************************************************)
EXTENDS Integers, Sequences, FiniteSets, SequencesExt

CONSTANTS Letters,     \* alphanumeric characters that spell no word
          MaxNumber    \* the largest sequence number; 2^64 - 1 in the code

ASSUME LettersAssumption == Letters # {} /\ Letters \subseteq STRING
ASSUME NumberAssumption == MaxNumber \in Nat

None == <<>>
Some(x) == <<x>>

Words == {"base", "session", "snap", "buffers", "durable", "ephemeral", "meta", "ack",
          "live", "fence", "cache", "buffer", "applied", "synced"}
Digits == <<"0", "1", "2">>      \* the digits of a number, in a smaller radix
Uuids == {"u1", "u2"}            \* canonical UUIDv4 text
Shouted == [u1 |-> "U1", u2 |-> "U2"]   \* the same in upper case
Batch == <<":batch">>

IdChars == Letters \cup Words \cup ToSet(Digits) \cup Uuids \cup {Shouted[u] : u \in Uuids}
ChunkChars == IdChars \cup {"."}

After(t, n) == SubSeq(t, n + 1, Len(t))
Under(a, b) == a \o <<"/">> \o b
Slashes(t) == SelectSeq([i \in DOMAIN t |-> i], LAMBDA i : t[i] = "/")
StartsWith(t, p) == IsPrefix(p, t)

\* What stands between the slashes of a text, the empty chunks included.
Chunks(t) ==
  LET at == <<0>> \o Slashes(t) \o <<Len(t) + 1>>
  IN [i \in 1 .. Len(at) - 1 |-> SubSeq(t, at[i] + 1, at[i + 1] - 1)]

\* SplitFirst, n times: the first n chunks and what follows them, or <<>>.
Split(t, n) ==
  LET at == Slashes(t)
  IN IF Len(at) < n THEN <<>>
     ELSE SubSeq(Chunks(t), 1, n) \o <<After(t, at[n])>>

-----------------------------------------------------------------------------
IsValidChunk(c) == c # <<>> /\ ToSet(c) \subseteq ChunkChars

IsValidChunkSequence(t) ==
  t # <<>> /\ Head(t) # "/" /\ Last(t) # "/" /\ \A c \in ToSet(Chunks(t)) : IsValidChunk(c)

IsValidId(t) == t # <<>> /\ ToSet(t) \subseteq IdChars

IsValidKey(t) == IsValidChunkSequence(t)
IsValidPrefix(t) == IsValidChunkSequence(t)
IsValidSessionId(t) == IsValidId(t)
IsValidAckUuid(t) == IsValidId(t)

Scope(kind, sid) == [kind |-> kind, sid |-> sid]

ParseScope(t) ==
  LET sid == After(t, 2)
      Of(kind) == IF IsValidSessionId(sid) THEN Some(Scope(kind, sid)) ELSE None
  IN CASE t = <<"base">> -> Some(Scope("Base", <<>>))
       [] Len(t) > 2 /\ StartsWith(t, <<"session", "/">>) -> Of("Session")
       [] Len(t) > 2 /\ StartsWith(t, <<"snap", "/">>) -> Of("Snapshot")
       [] OTHER -> None

ScopePath(scope) ==
  CASE scope.kind = "Base" -> <<"base">>
    [] scope.kind = "Session" -> Under(<<"session">>, scope.sid)
    [] scope.kind = "Snapshot" -> Under(<<"snap">>, scope.sid)

BuildKey(prefix, scope, key) ==
  IF IsValidPrefix(prefix) /\ ParseScope(scope) # None /\ IsValidKey(key)
  THEN Some(Under(prefix, Under(scope, key))) ELSE None

BuildBufferKey(prefix, sid, class, key) ==
  IF /\ IsValidPrefix(prefix) /\ IsValidSessionId(sid) /\ IsValidKey(key)
     /\ class \in {"durable", "ephemeral"}
  THEN Some(Under(prefix, Under(<<"buffers">>, Under(sid, Under(<<class>>, key))))) ELSE None

\* A batch is defined for base and session only.
BuildBatchKey(prefix, scope) ==
  LET parsed == ParseScope(scope)
  IN IF IsValidPrefix(prefix) /\ parsed # None /\ parsed[1].kind \in {"Base", "Session"}
     THEN Some(Under(prefix, Under(scope, Batch))) ELSE None

BuildMetaSessionKey(prefix, sid) ==
  IF IsValidPrefix(prefix) /\ IsValidSessionId(sid)
  THEN Some(Under(prefix, <<"meta", "/", "session", "/">> \o sid)) ELSE None

BuildMetaAckKey(prefix, uuid) ==
  IF IsValidPrefix(prefix) /\ IsValidAckUuid(uuid)
  THEN Some(Under(prefix, <<"meta", "/", "ack", "/">> \o uuid)) ELSE None

SessionLiveliness == <<"/", "meta", "/", "live", "/", "session", "/">>

BuildSessionLivelinessSelector(prefix, sid) ==
  IF IsValidPrefix(prefix) /\ IsValidSessionId(sid)
  THEN Some(prefix \o SessionLiveliness \o sid \o <<"/", "*">>) ELSE None

BuildSessionLivelinessKey(prefix, sid, generation) ==
  IF IsValidPrefix(prefix) /\ IsValidSessionId(sid) /\ IsValidAckUuid(generation)
  THEN Some(prefix \o SessionLiveliness \o Under(sid, generation)) ELSE None

ParseSessionLivelinessKey(prefix, sid, t) ==
  LET head == prefix \o SessionLiveliness \o sid \o <<"/">>
      generation == After(t, Len(head))
  IN IF StartsWith(t, head) /\ IsValidAckUuid(generation) THEN Some(generation) ELSE None

StripPrefix(prefix, t) ==
  IF StartsWith(t, prefix \o <<"/">>) THEN Some(After(t, Len(prefix) + 1)) ELSE None

\* ParsedKey: the fields a kind does not use keep their defaults.
Address(kind) ==
  [kind |-> kind, sid |-> <<>>, uuid |-> <<>>, key |-> <<>>, batch |-> FALSE, class |-> ""]

\* The last part of a base, session or snap key; a snapshot has no batch path.
ParseRelativeAnywhere(address, t) ==
  CASE t = Batch -> Some([address EXCEPT !.batch = TRUE])
    [] t # Batch /\ IsValidKey(t) -> Some([address EXCEPT !.key = t])
    [] OTHER -> None
ParseRelative(address, t) ==
  CASE t = Batch /\ address.kind # "Snapshot" -> Some([address EXCEPT !.batch = TRUE])
    [] t # Batch /\ IsValidKey(t) -> Some([address EXCEPT !.key = t])
    [] OTHER -> None

ParseBufferKey(t) ==
  LET part == Split(t, 3)
  IN IF /\ part # <<>> /\ IsValidSessionId(part[2]) /\ IsValidKey(part[4])
        /\ part[3] \in {<<"durable">>, <<"ephemeral">>}
     THEN Some([Address("Buffer") EXCEPT !.sid = part[2], !.class = part[3][1],
                                         !.key = part[4]])
     ELSE None

ParseMetaKey(t) ==
  LET part == Split(t, 2)
  IN CASE part = <<>> -> None
       [] part # <<>> /\ part[2] = <<"session">> /\ IsValidSessionId(part[3]) ->
            Some([Address("MetaSession") EXCEPT !.sid = part[3]])
       [] part # <<>> /\ part[2] = <<"ack">> /\ IsValidAckUuid(part[3]) ->
            Some([Address("MetaAck") EXCEPT !.uuid = part[3]])
       [] OTHER -> None

ParseKey(prefix, t) ==
  LET rest == StripPrefix(prefix, t)
      head == Split(rest[1], 1)
      part == Split(rest[1], 2)
      Scoped(kind) ==
        IF part # <<>> /\ IsValidSessionId(part[2])
        THEN ParseRelative([Address(kind) EXCEPT !.sid = part[2]], part[3]) ELSE None
  IN IF rest = None \/ Slashes(rest[1]) = <<>> THEN None
     ELSE CASE head[1] = <<"base">> -> ParseRelative(Address("Base"), head[2])
            [] head[1] = <<"session">> -> Scoped("Session")
            [] head[1] = <<"snap">> -> Scoped("Snapshot")
            [] head[1] = <<"buffers">> -> ParseBufferKey(rest[1])
            [] head[1] = <<"meta">> -> ParseMetaKey(rest[1])
            [] OTHER -> None

-----------------------------------------------------------------------------
\* std::from_chars over a whole chunk of digits: out of range is an error.
DigitAt(t, i) == SelectInSeq(Digits, LAMBDA d : d = t[i]) - 1
Number(t) == FoldLeft(LAMBDA n, i : n * Len(Digits) + DigitAt(t, i), 0, [i \in DOMAIN t |-> i])

ParseLooseSequence(t) ==
  IF t # <<>> /\ ToSet(t) \subseteq ToSet(Digits) /\ Number(t) <= MaxNumber
  THEN Some(Number(t)) ELSE None

ParseCanonicalSequence(t) ==
  IF Len(t) > 1 /\ Head(t) = "0" THEN None ELSE ParseLooseSequence(t)

\* std::to_string.
Decimal[n \in 0 .. MaxNumber] ==
  IF n < Len(Digits) THEN <<Digits[n + 1]>>
  ELSE Append(Decimal[n \div Len(Digits)], Digits[(n % Len(Digits)) + 1])

ParseFenceUuid(t) == IF Len(t) = 1 /\ t[1] \in Uuids THEN Some(t[1]) ELSE None

ParseLooseFenceUuid(t) ==
  LET same == {u \in Uuids : Len(t) = 1 /\ t[1] \in {u, Shouted[u]}}
  IN IF same = {} THEN None ELSE Some(CHOOSE u \in same : TRUE)

\* A trailing slash is tolerated on request, and then so is one more: the loop of the
\* code ends on the empty rest before it looks at it as a chunk.
SplitRoute(t, trailing) ==
  LET Shorter(s) == IF s # <<>> /\ Last(s) = "/" THEN Front(s) ELSE s
      text == IF trailing THEN Shorter(Shorter(t)) ELSE t
  IN IF t = <<>> \/ Head(t) = "/" \/ \E c \in ToSet(Chunks(text)) : c = <<>>
     THEN <<>> ELSE Chunks(text)

StripFencePrefix(prefix, t) == IF IsValidPrefix(prefix) THEN StripPrefix(prefix, t) ELSE None

Route(target, sid, receiver, class, publisher, durability, through) ==
  [target |-> target, sid |-> sid, receiver |-> receiver, class |-> class,
   publisher |-> publisher, durability |-> durability, through |-> through]

BuildCacheFenceMarkerKey(prefix, r) ==
  IF IsValidPrefix(prefix) /\ IsValidSessionId(r.sid)
  THEN Some(Under(prefix, Under(<<"meta", "/", "fence", "/", "cache">>, Under(r.sid,
            <<r.receiver, "/", r.publisher, "/">> \o Decimal[r.through]))))
  ELSE None

BuildBufferFenceMarkerKey(prefix, r) ==
  IF /\ IsValidPrefix(prefix) /\ IsValidSessionId(r.sid)
     /\ ~(r.class = "ephemeral" /\ r.durability = "synced")
  THEN Some(Under(prefix, Under(<<"meta", "/", "fence", "/", "buffer">>, Under(r.sid,
            <<r.receiver, "/", r.class, "/", r.publisher, "/", r.durability, "/">>
            \o Decimal[r.through]))))
  ELSE None

\* The route two parsers read off the chunks, a strict and a loose one, each with its
\* own reading of UUIDs and numbers.
RouteOf(chunk, loose) ==
  LET Uuid(c) == IF loose THEN ParseLooseFenceUuid(c) ELSE ParseFenceUuid(c)
      Sequence(c) == IF loose THEN ParseLooseSequence(c) ELSE ParseCanonicalSequence(c)
      is == Len(chunk) > 3 /\ chunk[1] = <<"meta">> /\ chunk[2] = <<"fence">>
            /\ IsValidSessionId(chunk[4])
  IN CASE is /\ chunk[3] = <<"cache">> /\ Len(chunk) = 7 ->
            IF None \in {Uuid(chunk[5]), Uuid(chunk[6]), Sequence(chunk[7])} THEN None
            ELSE Some(Route("cache", chunk[4], Uuid(chunk[5])[1], "", Uuid(chunk[6])[1],
                            "applied", Sequence(chunk[7])[1]))
       [] is /\ chunk[3] = <<"buffer">> /\ Len(chunk) = 9 ->
            IF \/ None \in {Uuid(chunk[5]), Uuid(chunk[7]), Sequence(chunk[9])}
               \/ chunk[6] \notin {<<"durable">>, <<"ephemeral">>}
               \/ chunk[8] \notin {<<"applied">>, <<"synced">>}
            THEN None
            ELSE Some(Route("buffer", chunk[4], Uuid(chunk[5])[1], chunk[6][1],
                            Uuid(chunk[7])[1], chunk[8][1], Sequence(chunk[9])[1]))
       [] OTHER -> None

ParseFenceMarkerRoute(prefix, t) ==
  LET rest == StripFencePrefix(prefix, t)
      route == RouteOf(SplitRoute(rest[1], FALSE), FALSE)
  IN IF rest = None \/ route = None THEN None
     ELSE IF route[1].class = "ephemeral" /\ route[1].durability = "synced" THEN None
     ELSE route

RecoverMalformedFenceMarkerRoute(prefix, t) ==
  LET rest == StripFencePrefix(prefix, t)
  IN IF rest = None THEN None
     ELSE RouteOf(SplitRoute(rest[1], TRUE), TRUE)

-----------------------------------------------------------------------------
\* ParamStore::List.  The wildcard travels on a parent that is a whole chunk path; the
\* client then keeps what starts with the prefix it was asked for.
ValidateListPrefix(t) ==
  \/ t = <<>>
  \/ /\ Head(t) # "/" /\ ~\E i \in 1 .. Len(t) - 1 : t[i] = "/" /\ t[i + 1] = "/"
     /\ ToSet(t) \cap {"*", "**"} = {} /\ Batch \notin ToSet(Chunks(t))
     /\ IF Last(t) = "/" THEN Len(t) > 1 /\ IsValidPrefix(Front(t)) ELSE IsValidKey(t)

SafeParent(t) ==
  LET slash == SelectLastInSeq(t, LAMBDA c : c = "/")
  IN IF slash = 0 THEN <<>> ELSE SubSeq(t, 1, slash - 1)

BuildScopeQuery(prefix, scope, parent) ==
  Under(prefix, Under(scope, IF parent = <<>> THEN <<"**">> ELSE Under(parent, <<"**">>)))

\* The prefix an engine enumerates for `path/**`.
ListPrefixOpen(path) == path
ListPrefix(path) == path \o <<"/">>

\* ParseRelativeSelector: [list, key], the key being the prefix to enumerate for a list.
ParseRelativeSelector(t) ==
  CASE t = <<>> -> None
    [] t = <<"**">> -> Some([list |-> TRUE, key |-> <<>>])
    [] Len(t) > 1 /\ IsSuffix(<<"/", "**">>, t) ->
         LET path == SubSeq(t, 1, Len(t) - 2)
         IN IF IsValidPrefix(path) THEN Some([list |-> TRUE, key |-> ListPrefix(path)]) ELSE None
    [] OTHER -> IF IsValidKey(t) THEN Some([list |-> FALSE, key |-> t]) ELSE None

\* OnQuery and ReplyScopedQuery on a base and the two readers of one session, in
\* `readers`, a function from scope paths to the keys held there: the keys replied.
OnQuery(prefix, readers, t) ==
  LET rest == StripPrefix(prefix, t)
      head == Split(rest[1], 1)
      part == Split(rest[1], 2)
      scoped == part # <<>> /\ head[1] # <<"base">>
      path == IF scoped THEN Under(part[1], part[2]) ELSE head[1]
      selector == ParseRelativeSelector(IF scoped THEN part[3] ELSE head[2])
      Selected(k) == IF selector[1].list THEN StartsWith(k, selector[1].key)
                     ELSE k = selector[1].key
  IN IF rest = None \/ head = <<>> \/ path \notin DOMAIN readers \/ selector = None THEN {}
     ELSE {Under(prefix, Under(path, k)) : k \in {k \in readers[path] : Selected(k)}}

IsUnderSafeParent(t, parent) == parent = <<>> \/ t = parent \/ StartsWith(t, parent \o <<"/">>)

IsExpectedKind(address, scope) ==
  address.kind = scope.kind /\ (scope.kind = "Base" \/ address.sid = scope.sid)

\* DecodeListReply: None refuses the whole List, Some({}) skips the reply.
DecodeListReply(prefix, scope, parent, wanted, t) ==
  LET parsed == ParseKey(prefix, t)
  IN IF \/ parsed = None \/ ~IsExpectedKind(parsed[1], scope) \/ parsed[1].batch
        \/ ~IsUnderSafeParent(parsed[1].key, parent)
     THEN None
     ELSE Some({k \in {parsed[1].key} : StartsWith(k, wanted)})

List(prefix, readers, scope, wanted) ==
  LET parsed == ParseScope(scope)
      parent == SafeParent(wanted)
      replies == OnQuery(prefix, readers, BuildScopeQuery(prefix, ScopePath(parsed[1]), parent))
      decoded == {DecodeListReply(prefix, parsed[1], parent, wanted, t) : t \in replies}
  IN CASE parsed = None \/ ~ValidateListPrefix(wanted) -> [status |-> "InvalidKey", keys |-> {}]
       [] None \in decoded -> [status |-> "Error", keys |-> {}]
       [] OTHER -> [status |-> "Ok", keys |-> UNION {d[1] : d \in decoded}]
=============================================================================
