------------------------------ MODULE AvroEncoder ------------------------------
(***************************************************************************)
(* The serializer of the outbox publisher: a user created event becomes an *)
(* Avro record behind the header of the schema registry.  The id of the    *)
(* schema is asked for once and cached under a mutex, which is held during *)
(* the HTTP request; goroutines that publish share the encoder, and an     *)
(* event whose encoding failed is published again later.                   *)
(*                                                                         *)
(* A string is its length: its bytes are all Letter.  A long is a number   *)
(* between -Span \div 2 and Span \div 2 - 1, where Span is 2^64 in int64.  *)
(***************************************************************************)
EXTENDS Integers, Sequences

CONSTANTS Workers,   \* goroutines that publish
          Span,      \* how many values a long has
          Events,    \* the events they publish
          Ids        \* the ids the registry may give to the schema

\* int64, and an event: its strings have a length that fits one.
IsLong(v) == v \in Int /\ -Span <= 2 * v /\ 2 * v < Span
IsEvent(e) ==
  /\ e.userId \in Nat /\ e.provider \in Nat
  /\ IsLong(e.userId) /\ IsLong(e.provider) /\ IsLong(e.occurredAt)

\* What the constants may be; the module that instantiates this one assumes it.
AvroEncoderAssumption ==
  /\ Span \in Nat /\ Ids \subseteq Nat \ {0} /\ "none" \notin Workers
  /\ Events # {} /\ \A e \in Events : IsEvent(e)

Letter == 97
None == "none"

-----------------------------------------------------------------------------
(* The encoding.                                                           *)

\* The bits of a number, as an unsigned one.
Unsigned(v) == v % Span

\* A bug: the number is shifted and its sign forgotten.
ZigZag_NoSign(v) == Unsigned(2 * v)

\* uint64(value<<1) ^ uint64(value>>63): an xor with all ones is a complement.
ZigZag(v) == IF v < 0 THEN (Span - 1) - Unsigned(2 * v) ELSE Unsigned(2 * v)

\* Seven bits to a byte, low ones first, the high bit set on all but the last.
Varint[n \in Nat] == IF n >= 128 THEN <<(n % 128) + 128>> \o Varint[n \div 128] ELSE <<n>>

WriteAvroLong(v) == Varint[ZigZag(v)]

WriteAvroString(len) == WriteAvroLong(len) \o [i \in 1 .. len |-> Letter]

\* binary.Write, BigEndian, uint32.
BigEndian(id) == <<(id \div 16777216) % 256, (id \div 65536) % 256, (id \div 256) % 256, id % 256>>

EncodeEvent(id, e) ==
  <<0>> \o BigEndian(id) \o WriteAvroString(e.userId) \o WriteAvroString(e.provider)
    \o WriteAvroLong(e.occurredAt)

-----------------------------------------------------------------------------
(* What a consumer reads, by the Avro specification.                       *)

\* The length of the varint at the start of s, and its value.
VarintLen(s) == CHOOSE n \in DOMAIN s : s[n] < 128 /\ \A i \in 1 .. n - 1 : s[i] >= 128
VarintValue[s \in Seq(0 .. 255)] ==
  IF s = <<>> THEN 0 ELSE (Head(s) % 128) + 128 * VarintValue[Tail(s)]
UnZigZag(n) == IF n % 2 = 0 THEN n \div 2 ELSE -((n + 1) \div 2)
ReadLong(s) == UnZigZag(VarintValue[SubSeq(s, 1, VarintLen(s))])
Rest(s, n) == SubSeq(s, n + 1, Len(s))
AfterLong(s) == Rest(s, VarintLen(s))
AfterString(s) == Rest(AfterLong(s), ReadLong(s))

\* The payload is an event with that id, and nothing is left over.
ReadsAs(s, id, e) ==
  LET user == Rest(s, 5)
      provider == AfterString(user)
      at == AfterString(provider)
  IN /\ s[1] = 0 /\ SubSeq(s, 2, 5) = BigEndian(id)
     /\ ReadLong(user) = e.userId /\ ReadLong(provider) = e.provider
     /\ ReadLong(at) = e.occurredAt /\ AfterLong(at) = <<>>

-----------------------------------------------------------------------------
VARIABLES
  pc,        \* of each worker: "idle", "lock", "post", "encode"
  given,     \* the event it serializes
  id,        \* the schema id it got
  result,    \* of its last call: "none", "ok", "error"
  mu,        \* who holds the mutex
  schemaID,  \* the cached id, 0 when there is none
  registered, \* the id the registry has given to the schema, 0 before
  posts,     \* how many requests came back with an id
  produced   \* the record that went to the topic last, with what it stands for

vars == <<pc, given, id, result, mu, schemaID, registered, posts, produced>>

\* One type invariant.
TypeOK ==
  /\ pc \in [Workers -> {"idle", "lock", "post", "encode"}]
  /\ given \in [Workers -> Events]
  /\ id \in [Workers -> Ids \cup {0}] /\ result \in [Workers -> {"none", "ok", "error"}]
  /\ mu \in Workers \cup {None}
  /\ schemaID \in Ids \cup {0} /\ registered \in Ids \cup {0}
  /\ posts \in 0 .. 2

Init ==
  /\ pc = [w \in Workers |-> "idle"] /\ given \in {[w \in Workers |-> e] : e \in Events}
  /\ id = [w \in Workers |-> 0] /\ result = [w \in Workers |-> "none"] /\ mu = None
  /\ schemaID = 0 /\ registered = 0 /\ posts = 0 /\ produced = {}

\* The serializer decodes the JSON of the outbox message.
Serialize(w, e) ==
  /\ pc[w] = "idle"
  /\ given' = [given EXCEPT ![w] = e]
  /\ pc' = [pc EXCEPT ![w] = "lock"]
  /\ UNCHANGED <<id, result, mu, schemaID, registered, posts, produced>>

DecodeFails(w) ==
  /\ pc[w] = "idle"
  /\ result' = [result EXCEPT ![w] = "error"]
  /\ UNCHANGED <<pc, given, id, mu, schemaID, registered, posts, produced>>

\* ensureSchemaID takes the mutex, and gives it back with the cached id.
Cached(w) ==
  /\ pc[w] = "lock" /\ mu = None /\ schemaID # 0
  /\ id' = [id EXCEPT ![w] = schemaID]
  /\ pc' = [pc EXCEPT ![w] = "encode"]
  /\ UNCHANGED <<given, result, mu, schemaID, registered, posts, produced>>

\* Without a cached id the mutex is kept for the request.
Post(w) ==
  /\ pc[w] = "lock" /\ mu = None /\ schemaID = 0
  /\ mu' = w
  /\ pc' = [pc EXCEPT ![w] = "post"]
  /\ UNCHANGED <<given, id, result, schemaID, registered, posts, produced>>

\* The registry gives a schema it knows the id it has.
RegistryId == IF registered # 0 THEN {registered} ELSE Ids

\* The answer holds a positive id: it is cached.
PostSucceeds(w) ==
  /\ pc[w] = "post"
  /\ \E i \in RegistryId :
       registered' = i /\ schemaID' = i /\ id' = [id EXCEPT ![w] = i]
  /\ posts' = posts + 1 /\ mu' = None
  /\ pc' = [pc EXCEPT ![w] = "encode"]
  /\ UNCHANGED <<given, result, produced>>

\* No answer, a status, a body or an id that is no good; the registry may have
\* stored the schema all the same.  The deferred unlock runs.
PostFails(w) ==
  /\ pc[w] = "post"
  /\ \E i \in {0} \cup RegistryId : registered' = IF i = 0 THEN registered ELSE i
  /\ mu' = None
  /\ pc' = [pc EXCEPT ![w] = "idle"] /\ result' = [result EXCEPT ![w] = "error"]
  /\ UNCHANGED <<given, id, schemaID, posts, produced>>

\* Encode, and the producer's send.
Encode(w) ==
  /\ pc[w] = "encode"
  /\ produced' =
       {[id |-> id[w], event |-> given[w], bytes |-> EncodeEvent(id[w], given[w])]}
  /\ pc' = [pc EXCEPT ![w] = "idle"] /\ result' = [result EXCEPT ![w] = "ok"]
  /\ id' = [id EXCEPT ![w] = 0]
  /\ UNCHANGED <<given, mu, schemaID, registered, posts>>

Next ==
  \E w \in Workers :
    \/ \E e \in Events : Serialize(w, e)
    \/ DecodeFails(w) \/ Cached(w) \/ Post(w) \/ PostSucceeds(w) \/ PostFails(w) \/ Encode(w)

Spec == Init /\ [][Next]_vars

-----------------------------------------------------------------------------
\* Every record of the topic reads back, by the Avro specification, as the
\* event it was made of, with the id under which the registry has the schema.
RecordsReadBack ==
  \A r \in produced : r.id = registered /\ ReadsAs(r.bytes, r.id, r.event)

\* Workers that start together ask the registry for an id that one of them is
\* getting at most once.
OneIdRequest == posts <= 1
=============================================================================
