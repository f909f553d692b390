---------------------------- MODULE MessageFormat ----------------------------
(***************************************************************************)
(* What a batch of records goes through from the broker to a reader: the   *)
(* conversion to KafkaMessages (kafka/consumer.rs), serialize of           *)
(* formats/json.rs and formats/json_hybrid.rs, damage to what was written, *)
(* and deserialize.  A batch of one is a single message.                   *)
(*                                                                         *)
(* The bytes of a key, a value or a header are told apart as far as the    *)
(* conversions do: are they UTF-8, do they begin with "base64:", do they   *)
(* are JSON, is that JSON written the way serde_json writes it (no blanks, *)
(* keys in order, no number that does not survive), and how deep are its   *)
(* arrays and objects nested, for serde_json reads them only so deep.  A   *)
(* JSON value is null, a string or anything else.  Topic, partition,       *)
(* offset and timestamp are copied and left out.                           *)
(***************************************************************************)
EXTENDS HashMaps

CONSTANTS
    None,       \* the absent Option
    Error,      \* a FormatError
    Formats,    \* "json" or the BinaryEncoding of a JsonHybridFormat
    ByteString, \* what a key or a value may hold
    Batches     \* sequences of [key, value, headers], headers <<name, value>>

VARIABLES
    stage,      \* "receive", "serialize", "deserialize", "done"
    format,
    delivered,  \* the batch as the broker has it
    messages,   \* the KafkaMessages made of it
    records,    \* what serialize wrote: [lines, fields]
    back        \* what deserialize returned

vars == <<stage, format, delivered, messages, records, back>>

Encodings == {"Base64", "Utf8WithFallback", "ForceUtf8", "JsonValue"}

ASSUME FormatAssumption == Formats \subseteq Encodings \cup {"json"}

-----------------------------------------------------------------------------
(* Byte strings and JSON values. *)

Binary(x) == [kind |-> "binary", of |-> x]          \* not UTF-8
Text(x) == [kind |-> "text", of |-> x]              \* neither prefix nor JSON
Base64Text(b) == [kind |-> "base64", of |-> b]      \* STANDARD.encode(b)
Prefixed(b) == [kind |-> "prefixed", of |-> b]      \* "base64:" + encode(b)
BadPrefix(x) == [kind |-> "badPrefix", of |-> x]    \* "base64:" + no base64
Lossy(b) == [kind |-> "lossy", of |-> b]            \* with U+FFFD in it
Canonical(v) == [kind |-> "canonical", of |-> v]    \* serde_json::to_vec(v)
Spaced(v) == [kind |-> "spaced", of |-> v]          \* any other JSON text of v

JNull == [type |-> "null"]
JString(b) == [type |-> "string", text |-> b]
JOther(x, n) == [type |-> "other", of |-> x, nesting |-> n]

Nesting(v) == IF v.type = "other" THEN v.nesting ELSE 0

(* The beginning of a record, and nothing that could be JSON. *)
Torn == [lines |-> "torn"]

IsUtf8(b) == b.kind # "binary"
IsJsonText(b) == b.kind \in {"canonical", "spaced"}

(* serde_json::from_slice gives up at this depth, JSON or not. *)
RecursionLimit == 128
IsJson(b) == IsJsonText(b) /\ Nesting(b.of) < RecursionLimit

(* In a record a field is one level down. *)
Embeds(v) == Nesting(v) + 1 < RecursionLimit

Kinds == {"binary", "text", "base64", "prefixed", "badPrefix", "lossy",
          "canonical", "spaced"}

(* What a byte string decodes to is a byte string, and a shorter one: the   *)
(* bytes behind a prefix, the text of a JSON string.                        *)
ASSUME ByteStringAssumption ==
    \A b \in ByteString :
        /\ b.kind \in Kinds /\ b = [kind |-> b.kind, of |-> b.of]
        /\ b.kind = "binary" => Lossy(b) \in ByteString
        /\ b.kind = "prefixed" => b.of \in ByteString \ {b}
        /\ IsJsonText(b) => b.of.type \in {"null", "other", "string"}
        /\ IsJsonText(b) /\ b.of.type = "null" => b.of = JNull
        /\ IsJsonText(b) /\ b.of.type = "other" =>
              /\ b.of = JOther(b.of.of, b.of.nesting) /\ b.of.nesting \in Nat
              /\ Canonical(b.of) \in ByteString
        /\ IsJsonText(b) /\ b.of.type = "string" =>
              /\ b.of = JString(b.of.text) /\ b.of.text \in ByteString \ {b}
              /\ b.of.text.kind = "prefixed" => b.of.text.of # b

-----------------------------------------------------------------------------
(* JsonHybridFormat. *)

(* Mutant: the prefix is forgotten. *)
FallbackUnmarked(b) == JString(IF IsUtf8(b) THEN b ELSE Base64Text(b))

(* UTF-8 as it is, anything else in base64 behind a prefix. *)
Fallback(b) == JString(IF IsUtf8(b) THEN b ELSE Prefixed(b))

BytesToValue(enc, b) ==
    CASE enc = "Base64" -> JString(Base64Text(b))
      [] enc = "Utf8WithFallback" -> Fallback(b)
      [] enc = "ForceUtf8" -> JString(IF IsUtf8(b) THEN b ELSE Lossy(b))
      [] enc = "JsonValue" -> IF IsJson(b) THEN b.of ELSE Fallback(b)

(* A string that begins with "base64:" is decoded, whoever put that there. *)
StripPrefix(b) ==
    CASE b.kind = "prefixed" -> b.of
      [] b.kind = "badPrefix" -> Error
      [] OTHER -> b

ValueToBytes(enc, v) ==
    CASE enc = "JsonValue" /\ v.type # "string" -> Canonical(v)
      [] enc # "JsonValue" /\ v.type # "string" -> Error
      [] enc = "Base64" /\ v.type = "string" ->
            IF v.text.kind = "base64" THEN v.text.of ELSE Error
      [] enc = "ForceUtf8" /\ v.type = "string" -> v.text
      [] OTHER -> StripPrefix(v.text)

(* An Option<Value> that is None and one that is Some(null) are both        *)
(* written null, and null is read as None.                                  *)
FieldOut(enc, b) == IF b = None THEN JNull ELSE BytesToValue(enc, b)
FieldIn(enc, v) == IF v = JNull THEN None ELSE ValueToBytes(enc, v)

ToSerializable(enc, m) ==
    [m EXCEPT !.key = FieldOut(enc, @), !.value = FieldOut(enc, @)]

(* The `?` of either field fails the message. *)
FromSerializable(enc, r) ==
    LET key == FieldIn(enc, r.key)
        value == FieldIn(enc, r.value)
    IN  IF Error \in {key, value} THEN Error
        ELSE [key |-> key, value |-> value, headers |-> r.headers]

(* JsonFormat writes a key or value as an array of numbers and the record   *)
(* on one line; JsonHybridFormat pretty-prints, one line per field.         *)
SerializeMessage(f, m) ==
    IF f = "json" THEN [lines |-> "one", fields |-> m]
                  ELSE [lines |-> "many", fields |-> ToSerializable(f, m)]

(* The record is JSON again, and not nested too deep: the arrays of numbers *)
(* and the headers never are, but a JSON payload may have been read alone   *)
(* that cannot be one level further down.                                   *)
ValidateJson(f, r) ==
    /\ r # Torn
    /\ f # "json" => Embeds(r.fields.key) /\ Embeds(r.fields.value)

DeserializeRecord(f, r) ==
    CASE ~ValidateJson(f, r) -> Error
      [] ValidateJson(f, r) /\ f = "json" -> r.fields
      [] OTHER -> FromSerializable(f, r.fields)

(* The batch forms: one after the other, and the first error is returned in *)
(* place of everything.                                                     *)
BatchSerialize(f, ms) == [i \in DOMAIN ms |-> SerializeMessage(f, ms[i])]

(* Mutant: a record that cannot be read is left out of the batch. *)
BatchDeserializeSkipping(f, rs) ==
    SelectSeq([i \in DOMAIN rs |-> DeserializeRecord(f, rs[i])],
              LAMBDA m : m # Error)

BatchDeserialize(f, rs) ==
    LET ms == [i \in DOMAIN rs |-> DeserializeRecord(f, rs[i])]
    IN  IF \E i \in DOMAIN ms : ms[i] = Error THEN Error ELSE ms

-----------------------------------------------------------------------------
(* convert_to_kafka_message. *)

NewMessage(key, value) ==
    [key |-> key, value |-> value, headers |-> Inserted(<<>>, {})]

(* A header without a value, or with one that is not UTF-8, is passed over. *)
IsReadable(header) == header[2] # None /\ IsUtf8(header[2])

ConvertToKafkaMessage(r) ==
    [NewMessage(r.key, r.value) EXCEPT
        !.headers = Inserted(r.headers,
                             {i \in DOMAIN r.headers : IsReadable(r.headers[i])})]

(* What the broker delivers, and the messages it may be read as. *)
BrokerRecord == UNION {{batch[i] : i \in DOMAIN batch} : batch \in Batches}

ASSUME BatchesAssumption ==
    /\ Batches \subseteq Seq(BrokerRecord)
    /\ \A r \in BrokerRecord :
          /\ {r.key, r.value} \subseteq ByteString \cup {None}
          /\ Len(r.headers) \in Nat /\ DOMAIN r.headers = 1..Len(r.headers)

Message == [key : ByteString \cup {None}, value : ByteString \cup {None},
            headers : {ConvertToKafkaMessage(r).headers : r \in BrokerRecord}]

ASSUME ErrorAssumption ==
    /\ None \notin ByteString
    /\ Error \notin ByteString \cup {None} \cup Message \cup Seq(Message)

-----------------------------------------------------------------------------

Init ==
    /\ stage = "receive"
    /\ format \in Formats
    /\ delivered \in Batches
    /\ messages = <<>> /\ records = <<>> /\ back = None

Receive ==
    /\ stage = "receive"
    /\ messages' = [i \in DOMAIN delivered |-> ConvertToKafkaMessage(delivered[i])]
    /\ stage' = "serialize"
    /\ UNCHANGED <<format, delivered, records, back>>

Serialize ==
    /\ stage = "serialize"
    /\ records' = BatchSerialize(format, messages)
    /\ stage' = "deserialize"
    /\ UNCHANGED <<format, delivered, messages, back>>

(* A failed write or a crash leaves a part of a record behind. *)
Tear ==
    /\ stage = "deserialize"
    /\ \A i \in DOMAIN records : records[i] # Torn
    /\ \E i \in DOMAIN records : records' = [records EXCEPT ![i] = Torn]
    /\ UNCHANGED <<stage, format, delivered, messages, back>>

Deserialize ==
    /\ stage = "deserialize"
    /\ back' = BatchDeserialize(format, records)
    /\ stage' = "done"
    /\ UNCHANGED <<format, delivered, messages, records>>

Next == Receive \/ Serialize \/ Tear \/ Deserialize

Spec == Init /\ [][Next]_vars

-----------------------------------------------------------------------------
(* Properties. *)

(* The byte strings a format keeps, said without its conversions. *)
Keeps(f, b) ==
    b # None =>
        CASE f \in {"json", "Base64"} -> TRUE
          [] f = "ForceUtf8" -> IsUtf8(b)
          [] f = "Utf8WithFallback" -> b.kind \notin {"prefixed", "badPrefix"}
          [] f = "JsonValue" ->
                IF IsJson(b)
                  THEN b.kind = "canonical" /\ b.of.type = "other" /\ Embeds(b.of)
                  ELSE b.kind \notin {"prefixed", "badPrefix"}

(* The byte strings of which a format makes a record that it cannot read. *)
Unreadable(f, b) ==
    b # None /\
        CASE f \in {"json", "Base64", "ForceUtf8"} -> FALSE
          [] f = "Utf8WithFallback" -> b.kind = "badPrefix"
          [] f = "JsonValue" ->
                IF IsJson(b)
                  THEN \/ b.of.type = "string" /\ b.of.text.kind = "badPrefix"
                       \/ ~Embeds(b.of)
                  ELSE b.kind = "badPrefix"

IsLost(i) == records[i] = Torn

(* A batch comes back as it went, in order, exactly if none of its records  *)
(* is torn and its format keeps every key and every value: what is not      *)
(* UTF-8 is safe except under ForceUtf8, and the rest is at risk only if it *)
(* begins with the prefix, or if JSON rewrites it or holds one level too    *)
(* much of it.                                                              *)
KeptIsExact ==
    stage = "done" =>
        (back = messages <=>
            \A i \in DOMAIN messages :
                /\ ~IsLost(i)
                /\ Keeps(format, messages[i].key)
                /\ Keeps(format, messages[i].value))

(* One unreadable record costs the whole batch, and there are three ways to *)
(* be unreadable: to be torn, to hold "base64:" in front of something that  *)
(* is not base64, or to have JSON in it that is read alone but is nested    *)
(* too deep for a record.  What is read is a message per record.            *)
UnreadableIsKnown ==
    stage = "done" =>
        /\ back = Error <=>
              \E i \in DOMAIN messages :
                 \/ IsLost(i)
                 \/ Unreadable(format, messages[i].key)
                 \/ Unreadable(format, messages[i].value)
        /\ back # Error => Len(back) = Len(delivered)

(* What a reader finds of a record's headers, whichever format wrote it: of *)
(* the values the broker has under a name the last that is UTF-8, which     *)
(* need not be the last one, and no name all of whose values are not.       *)
HeadersSurvive ==
    stage = "done" /\ back # Error =>
        \A i \in DOMAIN back :
            LET sent == delivered[i].headers
                read == back[i].headers
            IN  /\ DOMAIN read \subseteq Keys(sent, DOMAIN sent)
                /\ \A name \in Keys(sent, DOMAIN sent) :
                      LET readable == {j \in DOMAIN sent :
                                         sent[j][1] = name /\ IsReadable(sent[j])}
                      IN  IF readable = {}
                            THEN name \notin DOMAIN read
                            ELSE \E j \in readable :
                                    /\ \A k \in readable : k <= j
                                    /\ read[name] = sent[j][2]

(* Claimed by SingleFileStorage, "one serialized message per line". *)
RecordIsOneLine == \A i \in DOMAIN records : records[i].lines # "many"

(* Claimed by the example of JsonHybridFormat, a message whose value is     *)
(* JSON is equal to what JsonValue makes of it and reads again.             *)
JsonComesBack ==
    /\ stage = "done" /\ format = "JsonValue"
    /\ \A i \in DOMAIN messages :
          ~IsLost(i) /\ messages[i].value # None /\ IsJson(messages[i].value)
    => back = messages

(* That no batch breaks both of these claims at once. *)
SomeFormatClaimHolds == RecordIsOneLine \/ JsonComesBack
=============================================================================
