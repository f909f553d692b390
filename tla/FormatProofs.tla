----------------------------- MODULE FormatProofs -----------------------------
(***************************************************************************)
(* What holds of MessageFormat for all batches of records, whatever their  *)
(* keys, values and headers are: which of them come back as they went,     *)
(* what makes a batch unreadable, and what becomes of the headers.         *)
(*                                                                         *)
(* FieldRoundTrip is the heart of it: one key or value through             *)
(* bytes_to_value, the record's check and value_to_bytes of each encoding. *)
(* Inv carries it to batches: what is read is what was written, but for    *)
(* the torn records.                                                       *)
(***************************************************************************)
EXTENDS MessageFormat, SequenceLemmas

Field == ByteString \cup {None}

-----------------------------------------------------------------------------
(* JSON values and the decoding of each. *)

LEMMA JsonKinds ==
    /\ \A b : JString(b).type = "string" /\ JString(b).text = b
    /\ \A x, n : JOther(x, n).type = "other"
    /\ JNull.type = "null"
    /\ \A b : JString(b) # JNull
    /\ \A x, n : JOther(x, n) # JNull
    /\ Embeds(JNull) /\ \A b : Embeds(JString(b))
<1>1. /\ \A b : JString(b).type = "string" /\ JString(b).text = b
      /\ \A x, n : JOther(x, n).type = "other"
      /\ JNull.type = "null"
  BY DEF JString, JOther, JNull
<1>2. ASSUME NEW v, v.type # "other" PROVE Embeds(v)
  BY <1>2 DEF Embeds, Nesting, RecursionLimit
<1> QED BY <1>1, <1>2

LEMMA Stripped ==
    ASSUME NEW t
    PROVE  /\ t.kind = "prefixed" => StripPrefix(t) = t.of
           /\ t.kind = "badPrefix" => StripPrefix(t) = Error
           /\ t.kind \notin {"prefixed", "badPrefix"} => StripPrefix(t) = t
<1>1. CASE t.kind = "prefixed"
  BY <1>1, Zenon DEF StripPrefix
<1>2. CASE t.kind = "badPrefix"
  BY <1>2, Zenon DEF StripPrefix
<1>3. CASE t.kind # "prefixed" /\ t.kind # "badPrefix"
  BY <1>3, Zenon DEF StripPrefix
<1> QED BY <1>1, <1>2, <1>3

LEMMA DecodedString ==
    ASSUME NEW t
    PROVE  /\ t.kind = "base64" => ValueToBytes("Base64", JString(t)) = t.of
           /\ ValueToBytes("ForceUtf8", JString(t)) = t
           /\ ValueToBytes("Utf8WithFallback", JString(t)) = StripPrefix(t)
           /\ ValueToBytes("JsonValue", JString(t)) = StripPrefix(t)
<1>1. JString(t).type = "string" /\ JString(t).text = t
  BY JsonKinds
<1> DEFINE v == JString(t)
<1> HIDE DEF v
<1>2. v.type = "string" /\ v.text = t
  BY <1>1 DEF v
<1>3. t.kind = "base64" => ValueToBytes("Base64", v) = t.of
  BY <1>2, Zenon DEF ValueToBytes
<1>4. ValueToBytes("ForceUtf8", v) = t
  BY <1>2, Zenon DEF ValueToBytes
<1>5. ValueToBytes("Utf8WithFallback", v) = StripPrefix(t)
  BY <1>2, Zenon DEF ValueToBytes
<1>6. ValueToBytes("JsonValue", v) = StripPrefix(t)
  BY <1>2, Zenon DEF ValueToBytes
<1> QED BY <1>3, <1>4, <1>5, <1>6 DEF v

LEMMA DecodedOther ==
    ASSUME NEW v, v.type = "other"
    PROVE  ValueToBytes("JsonValue", v) = Canonical(v)
<1>1. v.type # "string"
  OBVIOUS
<1> QED BY <1>1, Zenon DEF ValueToBytes

LEMMA Encoded ==
    ASSUME NEW b
    PROVE  /\ BytesToValue("Base64", b) = JString(Base64Text(b))
           /\ BytesToValue("Utf8WithFallback", b) = Fallback(b)
           /\ BytesToValue("ForceUtf8", b) = JString(IF IsUtf8(b) THEN b ELSE Lossy(b))
           /\ BytesToValue("JsonValue", b) = IF IsJson(b) THEN b.of ELSE Fallback(b)
<1>1. BytesToValue("Base64", b) = JString(Base64Text(b))
  BY Zenon DEF BytesToValue
<1>2. BytesToValue("Utf8WithFallback", b) = Fallback(b)
  BY Zenon DEF BytesToValue
<1>3. BytesToValue("ForceUtf8", b) = JString(IF IsUtf8(b) THEN b ELSE Lossy(b))
  BY Zenon DEF BytesToValue
<1>4. BytesToValue("JsonValue", b) = IF IsJson(b) THEN b.of ELSE Fallback(b)
  BY Zenon DEF BytesToValue
<1> QED BY <1>1, <1>2, <1>3, <1>4

(* What a format keeps and what it cannot read, one format at a time. *)
LEMMA KeepsIs ==
    ASSUME NEW b \in ByteString
    PROVE  /\ Keeps("json", b) /\ Keeps("Base64", b)
           /\ Keeps("ForceUtf8", b) <=> IsUtf8(b)
           /\ Keeps("Utf8WithFallback", b) <=> b.kind \notin {"prefixed", "badPrefix"}
           /\ Keeps("JsonValue", b) <=>
                IF IsJson(b)
                  THEN b.kind = "canonical" /\ b.of.type = "other" /\ Embeds(b.of)
                  ELSE b.kind \notin {"prefixed", "badPrefix"}
<1>0. b # None
  BY ErrorAssumption
<1>1. Keeps("json", b)
  BY <1>0, Zenon DEF Keeps
<1>2. Keeps("Base64", b)
  BY <1>0, Zenon DEF Keeps
<1>3. Keeps("ForceUtf8", b) <=> IsUtf8(b)
  BY <1>0, Zenon DEF Keeps
<1>4. Keeps("Utf8WithFallback", b) <=> b.kind \notin {"prefixed", "badPrefix"}
  BY <1>0, Zenon DEF Keeps
<1>5. Keeps("JsonValue", b) <=>
                IF IsJson(b)
                  THEN b.kind = "canonical" /\ b.of.type = "other" /\ Embeds(b.of)
                  ELSE b.kind \notin {"prefixed", "badPrefix"}
  BY <1>0, Zenon DEF Keeps
<1> QED BY <1>1, <1>2, <1>3, <1>4, <1>5

LEMMA UnreadableIs ==
    ASSUME NEW b \in ByteString
    PROVE  /\ ~Unreadable("json", b) /\ ~Unreadable("Base64", b)
           /\ ~Unreadable("ForceUtf8", b)
           /\ Unreadable("Utf8WithFallback", b) <=> b.kind = "badPrefix"
           /\ Unreadable("JsonValue", b) <=>
                IF IsJson(b)
                  THEN \/ b.of.type = "string" /\ b.of.text.kind = "badPrefix"
                       \/ ~Embeds(b.of)
                  ELSE b.kind = "badPrefix"
<1>0. b # None
  BY ErrorAssumption
<1>1. ~Unreadable("json", b)
  BY <1>0, Zenon DEF Unreadable
<1>2. ~Unreadable("Base64", b)
  BY <1>0, Zenon DEF Unreadable
<1>3. ~Unreadable("ForceUtf8", b)
  BY <1>0, Zenon DEF Unreadable
<1>4. Unreadable("Utf8WithFallback", b) <=> b.kind = "badPrefix"
  BY <1>0, Zenon DEF Unreadable
<1>5. Unreadable("JsonValue", b) <=>
                IF IsJson(b)
                  THEN \/ b.of.type = "string" /\ b.of.text.kind = "badPrefix"
                       \/ ~Embeds(b.of)
                  ELSE b.kind = "badPrefix"
  BY <1>0, Zenon DEF Unreadable
<1> QED BY <1>1, <1>2, <1>3, <1>4, <1>5

-----------------------------------------------------------------------------
(* One key or value, written and read again. *)

ReadBack(f, b) == FieldIn(f, FieldOut(f, b))

(* The record it is in can be read. *)
Fits(f, b) == Embeds(FieldOut(f, b))

Exactly(f, b) ==
    /\ ReadBack(f, b) \in Field \cup {Error}
    /\ Keeps(f, b) <=> Fits(f, b) /\ ReadBack(f, b) = b
    /\ Unreadable(f, b) <=> ~Fits(f, b) \/ ReadBack(f, b) = Error

LEMMA StringBack ==
    ASSUME NEW b \in ByteString, NEW enc, NEW t, BytesToValue(enc, b) = JString(t)
    PROVE  ReadBack(enc, b) = ValueToBytes(enc, JString(t)) /\ Fits(enc, b)
<1>1. b # None /\ JString(t) # JNull
  BY ErrorAssumption, JsonKinds
<1>2. FieldOut(enc, b) = JString(t)
  BY <1>1 DEF FieldOut
<1> QED BY <1>1, <1>2, JsonKinds DEF ReadBack, FieldIn, Fits

LEMMA NoneBack ==
    ASSUME NEW enc
    PROVE  Exactly(enc, None)
<1>1. ReadBack(enc, None) = None
  BY DEF ReadBack, FieldOut, FieldIn
<1>2. None # Error
  BY ErrorAssumption
<1>3. Fits(enc, None)
  BY JsonKinds DEF Fits, FieldOut
<1> QED BY <1>1, <1>2, <1>3 DEF Exactly, Field, Keeps, Unreadable

LEMMA KindOf ==
    ASSUME NEW b \in ByteString
    PROVE  /\ b.kind \in Kinds /\ b = [kind |-> b.kind, of |-> b.of]
           /\ b # Error /\ b # None
  BY ByteStringAssumption, ErrorAssumption

LEMMA Base64Back ==
    ASSUME NEW b \in ByteString
    PROVE  Exactly("Base64", b)
<1>1. Base64Text(b).kind = "base64" /\ Base64Text(b).of = b
  BY DEF Base64Text
<1>2. /\ ReadBack("Base64", b) = ValueToBytes("Base64", JString(Base64Text(b)))
      /\ Fits("Base64", b)
  BY Encoded, StringBack
<1>3. ValueToBytes("Base64", JString(Base64Text(b))) = b
  BY <1>1, DecodedString
<1> QED BY <1>2, <1>3, KeepsIs, UnreadableIs, KindOf DEF Exactly, Field

LEMMA ForceUtf8Back ==
    ASSUME NEW b \in ByteString
    PROVE  Exactly("ForceUtf8", b)
<1> DEFINE t == IF IsUtf8(b) THEN b ELSE Lossy(b)
<1>1. ReadBack("ForceUtf8", b) = t /\ Fits("ForceUtf8", b)
  <2>1. BytesToValue("ForceUtf8", b) = JString(t)
    BY Encoded
  <2> HIDE DEF t
  <2> QED BY <2>1, StringBack, DecodedString
<1>2. ~IsUtf8(b) => Lossy(b) \in ByteString /\ Lossy(b) # b
  <2>1. Lossy(b).kind = "lossy" /\ (~IsUtf8(b) => b.kind = "binary")
    BY DEF Lossy, IsUtf8
  <2> QED BY <2>1, ByteStringAssumption
<1>3. t \in ByteString
  BY <1>2
<1> QED BY <1>1, <1>2, <1>3, KeepsIs, UnreadableIs, KindOf DEF Exactly, Field

(* UTF-8 as it is, or base64 behind the prefix: only a prefix that was      *)
(* there before is taken for one of ours.                                   *)
LEMMA FallbackBack ==
    ASSUME NEW b \in ByteString,
           NEW r, r = StripPrefix(IF IsUtf8(b) THEN b ELSE Prefixed(b))
    PROVE  /\ r \in ByteString \cup {Error}
           /\ r = b <=> b.kind \notin {"prefixed", "badPrefix"}
           /\ r = Error <=> b.kind = "badPrefix"
<1>1. Prefixed(b).kind = "prefixed" /\ Prefixed(b).of = b
  BY DEF Prefixed
<1>2. CASE ~IsUtf8(b)
  <2>1. r = b
    BY <1>1, <1>2, Stripped
  <2> QED BY <1>2, <2>1, KindOf DEF IsUtf8
<1>3. CASE IsUtf8(b) /\ b.kind = "prefixed"
  <2>1. r = b.of /\ b.of \in ByteString \ {b}
    BY <1>3, Stripped, ByteStringAssumption
  <2> QED BY <1>3, <2>1, KindOf
<1>4. CASE IsUtf8(b) /\ b.kind = "badPrefix"
  <2>1. r = Error
    BY <1>4, Stripped
  <2> QED BY <1>4, <2>1, KindOf
<1>5. CASE IsUtf8(b) /\ b.kind \notin {"prefixed", "badPrefix"}
  <2>1. r = b
    BY <1>5, Stripped
  <2> QED BY <1>5, <2>1, KindOf
<1> QED BY <1>2, <1>3, <1>4, <1>5

LEMMA FallbackIsString ==
    ASSUME NEW b
    PROVE  Fallback(b) = JString(IF IsUtf8(b) THEN b ELSE Prefixed(b))
  BY DEF Fallback

LEMMA Utf8Back ==
    ASSUME NEW b \in ByteString
    PROVE  Exactly("Utf8WithFallback", b)
<1> DEFINE t == IF IsUtf8(b) THEN b ELSE Prefixed(b)
<1>1. ReadBack("Utf8WithFallback", b) = StripPrefix(t) /\ Fits("Utf8WithFallback", b)
  <2>1. BytesToValue("Utf8WithFallback", b) = JString(t)
    BY Encoded, FallbackIsString
  <2> HIDE DEF t
  <2> QED BY <2>1, StringBack, DecodedString
<1> QED BY <1>1, FallbackBack, KeepsIs, UnreadableIs, KindOf DEF Exactly, Field

(* JSON comes back as serde_json writes it, a JSON string as its text and   *)
(* null as nothing, if it is not nested too deep for the record.            *)
LEMMA JsonBack ==
    ASSUME NEW b \in ByteString, IsJson(b)
    PROVE  Exactly("JsonValue", b)
<1> DEFINE v == b.of
<1>1. /\ FieldOut("JsonValue", b) = v /\ v.type \in {"null", "other", "string"}
      /\ ReadBack("JsonValue", b) = FieldIn("JsonValue", v)
      /\ Fits("JsonValue", b) <=> Embeds(v)
  BY Encoded, KindOf, ByteStringAssumption DEF FieldOut, ReadBack, Fits, IsJson
<1>2. /\ Keeps("JsonValue", b) <=>
            b.kind = "canonical" /\ v.type = "other" /\ Embeds(v)
      /\ Unreadable("JsonValue", b) <=>
            (v.type = "string" /\ v.text.kind = "badPrefix") \/ ~Embeds(v)
      /\ b.kind \in {"canonical", "spaced"} /\ IsJsonText(b)
  BY KeepsIs, UnreadableIs DEF IsJson, IsJsonText
<1>3. b \in ByteString /\ b # None /\ b # Error /\ b = [kind |-> b.kind, of |-> v]
  BY KindOf
<1>4. CASE v.type = "null"
  <2>1. v = JNull
    BY <1>2, <1>4, ByteStringAssumption
  <2>2. ReadBack("JsonValue", b) = None
    BY <1>1, <2>1 DEF FieldIn
  <2> QED BY <1>1, <1>2, <1>3, <1>4, <2>2, ErrorAssumption DEF Exactly, Field
<1>5. CASE v.type = "other"
  <2>1. v # JNull /\ Canonical(v) \in ByteString
    BY <1>2, <1>5, JsonKinds, ByteStringAssumption
  <2>2. ReadBack("JsonValue", b) = Canonical(v)
    BY <1>1, <1>5, <2>1, DecodedOther DEF FieldIn
  <2>3. Canonical(v) = b <=> b.kind = "canonical"
    BY <1>3 DEF Canonical
  <2>4. Canonical(v) # Error
    BY <2>1, KindOf
  <2> QED BY <1>1, <1>2, <1>5, <2>1, <2>2, <2>3, <2>4 DEF Exactly, Field
<1>6. CASE v.type = "string"
  <2> DEFINE t == v.text
  <2>1. /\ v = JString(t) /\ t \in ByteString /\ t # b
        /\ t.kind = "prefixed" => t.of # b /\ t.of \in ByteString
    <3>1. v = JString(t) /\ t \in ByteString /\ t # b
          /\ (t.kind = "prefixed" => t.of # b)
      BY <1>2, <1>6, ByteStringAssumption
    <3> QED BY <3>1, ByteStringAssumption
  <2>2. ReadBack("JsonValue", b) = StripPrefix(t) /\ Embeds(v)
    <3> HIDE DEF t
    <3> QED BY <1>1, <2>1, JsonKinds, DecodedString DEF FieldIn
  <2>3. /\ StripPrefix(t) \in ByteString \cup {Error}
        /\ StripPrefix(t) # b
        /\ StripPrefix(t) = Error <=> t.kind = "badPrefix"
    <3> HIDE DEF t
    <3>1. t # Error
      BY <2>1, KindOf
    <3>2. t.kind = "prefixed" => t.of # Error
      BY <2>1, KindOf
    <3> QED BY <1>3, <2>1, <3>1, <3>2, Stripped
  <2>4. ~Keeps("JsonValue", b)
    BY <1>2, <1>6
  <2>5. ReadBack("JsonValue", b) = Error <=> Unreadable("JsonValue", b)
    BY <1>2, <1>6, <2>2, <2>3
  <2> HIDE DEF t
  <2> QED BY <1>1, <1>3, <2>2, <2>3, <2>4, <2>5 DEF Exactly, Field
<1> HIDE DEF v
<1> QED BY <1>1, <1>4, <1>5, <1>6

LEMMA JsonValueBack ==
    ASSUME NEW b \in ByteString, ~IsJson(b)
    PROVE  Exactly("JsonValue", b)
<1> DEFINE t == IF IsUtf8(b) THEN b ELSE Prefixed(b)
<1>1. ReadBack("JsonValue", b) = StripPrefix(t) /\ Fits("JsonValue", b)
  <2>1. BytesToValue("JsonValue", b) = JString(t)
    BY Encoded, FallbackIsString
  <2> HIDE DEF t
  <2> QED BY <2>1, StringBack, DecodedString
<1>2. /\ Keeps("JsonValue", b) <=> b.kind \notin {"prefixed", "badPrefix"}
      /\ Unreadable("JsonValue", b) <=> b.kind = "badPrefix"
  BY KeepsIs, UnreadableIs
<1> QED BY <1>1, <1>2, FallbackBack, KindOf DEF Exactly, Field

LEMMA FieldRoundTrip ==
    ASSUME NEW enc \in Encodings, NEW b \in Field
    PROVE  Exactly(enc, b)
<1>1. CASE b = None
  BY <1>1, NoneBack
<1>2. CASE b \in ByteString
  BY <1>2, Base64Back, ForceUtf8Back, Utf8Back, JsonBack, JsonValueBack DEF Encodings
<1> QED BY <1>1, <1>2 DEF Field

-----------------------------------------------------------------------------
(* One message, written and read again. *)

MapOf(r) == ConvertToKafkaMessage(r).headers

LEMMA Converted ==
    ASSUME NEW r \in BrokerRecord
    PROVE  /\ ConvertToKafkaMessage(r) =
                 [key |-> r.key, value |-> r.value, headers |-> MapOf(r)]
           /\ MapOf(r) = Inserted(r.headers,
                 {i \in DOMAIN r.headers : IsReadable(r.headers[i])})
           /\ ConvertToKafkaMessage(r) \in Message
<1> DEFINE h == Inserted(r.headers, {i \in DOMAIN r.headers : IsReadable(r.headers[i])})
<1>1. ConvertToKafkaMessage(r) = [key |-> r.key, value |-> r.value, headers |-> h]
  <2> HIDE DEF h
  <2>1. ConvertToKafkaMessage(r) = [NewMessage(r.key, r.value) EXCEPT !.headers = h]
    BY DEF h, ConvertToKafkaMessage
  <2> QED BY <2>1 DEF NewMessage
<1>2. MapOf(r) = h
  <2> HIDE DEF h
  <2> QED BY <1>1 DEF MapOf
<1>3. r.key \in Field /\ r.value \in Field
  BY BatchesAssumption DEF Field
<1> HIDE DEF h
<1>4. MapOf(r) \in {ConvertToKafkaMessage(s).headers : s \in BrokerRecord}
  BY DEF MapOf
<1>5. ConvertToKafkaMessage(r) \in Message
  BY <1>1, <1>2, <1>3, <1>4 DEF Message, Field
<1> QED BY <1>1, <1>2, <1>5 DEF h

LEMMA NotTorn ==
    ASSUME NEW f, NEW m
    PROVE  SerializeMessage(f, m) # Torn
<1>1. SerializeMessage(f, m).lines \in {"one", "many"} /\ Torn.lines = "torn"
  BY DEF SerializeMessage, Torn
<1> QED BY <1>1

LEMMA ReadTorn ==
    ASSUME NEW f
    PROVE  DeserializeRecord(f, Torn) = Error
<1>1. ~ValidateJson(f, Torn)
  BY DEF ValidateJson
<1> QED BY <1>1, Zenon DEF DeserializeRecord

(* The message that is read, if any, is the one that was written but for    *)
(* what the encoding makes of its key and value.                            *)
LEMMA MessageRoundTrip ==
    ASSUME NEW f \in Formats, NEW m \in Message,
           NEW r, r = DeserializeRecord(f, SerializeMessage(f, m))
    PROVE  /\ r \in Message \cup {Error}
           /\ r = m <=> Keeps(f, m.key) /\ Keeps(f, m.value)
           /\ r # Error => r.headers = m.headers
           /\ r = Error <=> Unreadable(f, m.key) \/ Unreadable(f, m.value)
<1>1. /\ m.key \in Field /\ m.value \in Field
      /\ m.headers \in {ConvertToKafkaMessage(s).headers : s \in BrokerRecord}
      /\ m = [key |-> m.key, value |-> m.value, headers |-> m.headers]
      /\ m # Error
  BY ErrorAssumption DEF Message, Field
<1>2. SerializeMessage(f, m) # Torn
  BY NotTorn
<1>3. CASE f = "json"
  <2>1. SerializeMessage(f, m).fields = m
    BY <1>3 DEF SerializeMessage
  <2>2. ValidateJson(f, SerializeMessage(f, m))
    BY <1>2, <1>3 DEF ValidateJson
  <2>3. r = m
    BY <1>3, <2>1, <2>2, Zenon DEF DeserializeRecord
  <2>4. /\ Keeps(f, m.key) /\ Keeps(f, m.value)
        /\ ~Unreadable(f, m.key) /\ ~Unreadable(f, m.value)
    <3>1. \A b \in Field : Keeps("json", b) /\ ~Unreadable("json", b)
      BY KeepsIs, UnreadableIs DEF Field, Keeps, Unreadable
    <3> QED BY <1>1, <1>3, <3>1
  <2> QED BY <1>1, <2>3, <2>4
<1>4. CASE f # "json"
  <2> DEFINE k == ReadBack(f, m.key)
             v == ReadBack(f, m.value)
             s == ToSerializable(f, m)
  <2>1. f \in Encodings
    BY <1>4, FormatAssumption
  <2>2. Exactly(f, m.key) /\ Exactly(f, m.value)
    BY <1>1, <2>1, FieldRoundTrip
  <2>3. /\ s.key = FieldOut(f, m.key) /\ s.value = FieldOut(f, m.value)
        /\ s.headers = m.headers
    BY <1>1 DEF ToSerializable
  <2>4. SerializeMessage(f, m).fields = s
    BY <1>4 DEF SerializeMessage
  <2>5. ValidateJson(f, SerializeMessage(f, m)) <=> Fits(f, m.key) /\ Fits(f, m.value)
    <3> HIDE DEF s
    <3> QED BY <1>2, <1>4, <2>3, <2>4 DEF ValidateJson, Fits
  <2> HIDE DEF k, v, s
  <2>6. /\ k \in Field \cup {Error}
        /\ Keeps(f, m.key) <=> Fits(f, m.key) /\ k = m.key
        /\ Unreadable(f, m.key) <=> ~Fits(f, m.key) \/ k = Error
        /\ v \in Field \cup {Error}
        /\ Keeps(f, m.value) <=> Fits(f, m.value) /\ v = m.value
        /\ Unreadable(f, m.value) <=> ~Fits(f, m.value) \/ v = Error
    BY <2>2 DEF Exactly, k, v
  <2>7. CASE ~ValidateJson(f, SerializeMessage(f, m))
    <3>1. r = Error
      BY <2>7, Zenon DEF DeserializeRecord
    <3> QED BY <1>1, <2>5, <2>6, <2>7, <3>1
  <2>8. CASE ValidateJson(f, SerializeMessage(f, m))
    <3>1. r = FromSerializable(f, s)
      BY <1>4, <2>4, <2>8, Zenon DEF DeserializeRecord
    <3>2. r = IF Error \in {k, v} THEN Error
              ELSE [key |-> k, value |-> v, headers |-> m.headers]
      BY <2>3, <3>1 DEF FromSerializable, ReadBack, k, v
    <3>3. CASE Error \in {k, v}
      <4>1. r = Error /\ m.key # Error /\ m.value # Error
        BY <1>1, <3>2, <3>3, ErrorAssumption DEF Field
      <4> QED BY <1>1, <2>6, <3>3, <4>1
    <3>4. CASE Error \notin {k, v}
      <4>1. /\ r = [key |-> k, value |-> v, headers |-> m.headers]
            /\ k \in Field /\ v \in Field
        BY <2>6, <3>2, <3>4
      <4>2. r \in Message
        BY <1>1, <4>1 DEF Message, Field
      <4>3. r # Error
        BY <4>2, ErrorAssumption
      <4>4. r.key = k /\ r.value = v /\ r.headers = m.headers
        BY <4>1
      <4>5. r = m <=> k = m.key /\ v = m.value
        BY <1>1, <4>1, <4>4
      <4>6. r = m <=> Keeps(f, m.key) /\ Keeps(f, m.value)
        BY <2>5, <2>6, <2>8, <4>5
      <4>7. ~Unreadable(f, m.key) /\ ~Unreadable(f, m.value)
        BY <2>5, <2>6, <2>8, <3>4
      <4> QED BY <4>2, <4>3, <4>4, <4>6, <4>7
    <3> QED BY <3>3, <3>4
  <2> QED BY <2>7, <2>8
<1> QED BY <1>3, <1>4

-----------------------------------------------------------------------------
(* Batches. *)

Received == [i \in DOMAIN delivered |-> ConvertToKafkaMessage(delivered[i])]

Inv ==
    /\ format \in Formats /\ delivered \in Batches
    /\ stage \in {"receive", "serialize", "deserialize", "done"}
    /\ stage # "receive" => messages = Received
    /\ stage \in {"deserialize", "done"} =>
          /\ DOMAIN records = DOMAIN messages
          /\ \A i \in DOMAIN records :
                records[i] \in {Torn, SerializeMessage(format, messages[i])}
    /\ stage = "done" => back = BatchDeserialize(format, records)

LEMMA InitInv == Init => Inv
  BY DEF Init, Inv

LEMMA NextInv == Inv /\ [Next]_vars => Inv'
<1> SUFFICES ASSUME Inv, [Next]_vars PROVE Inv'
  OBVIOUS
<1>1. CASE Receive
  BY <1>1 DEF Inv, Receive, Received
<1>2. CASE Serialize
  BY <1>2 DEF Inv, Serialize, Received, BatchSerialize
<1>3. CASE Tear
  <2>1. PICK i \in DOMAIN records : records' = [records EXCEPT ![i] = Torn]
    BY <1>3 DEF Tear
  <2>2. DOMAIN records' = DOMAIN records
        /\ \A j \in DOMAIN records : records'[j] \in {Torn, records[j]}
    BY <2>1
  <2> QED BY <1>3, <2>2 DEF Inv, Tear, Received
<1>4. CASE Deserialize
  BY <1>4 DEF Inv, Deserialize, Received
<1>5. CASE UNCHANGED vars
  BY <1>5 DEF vars, Inv, Received
<1> QED BY <1>1, <1>2, <1>3, <1>4, <1>5 DEF Next

LEMMA FormatInvariant == Spec => []Inv
  BY InitInv, NextInv, PTL DEF Spec

(* What is read of each record, before an error takes the place of it all.  *)
Read == [i \in DOMAIN records |-> DeserializeRecord(format, records[i])]

LEMMA ReadRecords ==
    ASSUME Inv, stage = "done"
    PROVE  /\ DOMAIN Read = 1..Len(delivered) /\ Len(delivered) \in Nat
           /\ DOMAIN messages = 1..Len(delivered)
           /\ \A i \in DOMAIN Read :
                 /\ messages[i] \in Message /\ Read[i] \in Message \cup {Error}
                 /\ delivered[i] \in BrokerRecord
                 /\ messages[i] = ConvertToKafkaMessage(delivered[i])
                 /\ IsLost(i) => Read[i] = Error
                 /\ ~IsLost(i) =>
                       /\ Read[i] = messages[i] <=>
                             Keeps(format, messages[i].key) /\ Keeps(format, messages[i].value)
                       /\ Read[i] # Error => Read[i].headers = messages[i].headers
                       /\ Read[i] = Error <=>
                             \/ Unreadable(format, messages[i].key)
                             \/ Unreadable(format, messages[i].value)
<1>1. /\ delivered \in Seq(BrokerRecord) /\ messages = Received
      /\ DOMAIN records = DOMAIN messages /\ format \in Formats
  BY BatchesAssumption DEF Inv
<1>2. /\ DOMAIN delivered = 1..Len(delivered) /\ Len(delivered) \in Nat
      /\ \A i \in DOMAIN delivered : delivered[i] \in BrokerRecord
  BY <1>1
<1>3. DOMAIN messages = DOMAIN delivered
      /\ \A i \in DOMAIN messages : messages[i] = ConvertToKafkaMessage(delivered[i])
  BY <1>1 DEF Received
<1>4. DOMAIN Read = DOMAIN records
      /\ \A i \in DOMAIN Read : Read[i] = DeserializeRecord(format, records[i])
  BY DEF Read
<1>5. ASSUME NEW i \in DOMAIN Read
      PROVE  /\ messages[i] \in Message /\ Read[i] \in Message \cup {Error}
             /\ IsLost(i) => Read[i] = Error
             /\ ~IsLost(i) =>
                   /\ Read[i] = messages[i] <=>
                         Keeps(format, messages[i].key) /\ Keeps(format, messages[i].value)
                   /\ Read[i] # Error => Read[i].headers = messages[i].headers
                   /\ Read[i] = Error <=>
                         \/ Unreadable(format, messages[i].key)
                         \/ Unreadable(format, messages[i].value)
  <2>1. messages[i] \in Message
    <3>1. i \in DOMAIN delivered /\ delivered[i] \in BrokerRecord
      BY <1>1, <1>2, <1>3, <1>4
    <3>2. ConvertToKafkaMessage(delivered[i]) \in Message
      BY <3>1, Converted
    <3> QED BY <1>1, <1>3, <1>4, <3>2
  <2>2. CASE IsLost(i)
    <3>1. Read[i] = Error
      BY <1>4, <2>2, ReadTorn DEF IsLost
    <3> QED BY <2>1, <2>2, <3>1
  <2>3. CASE ~IsLost(i)
    <3>1. Read[i] = DeserializeRecord(format, SerializeMessage(format, messages[i]))
      BY <1>4, <2>3 DEF Inv, IsLost
    <3> QED BY <1>1, <2>1, <2>3, <3>1, MessageRoundTrip
  <2> QED BY <2>2, <2>3
<1> QED BY <1>1, <1>2, <1>3, <1>4, <1>5

(* Error for the batch means an error in it. *)
LEMMA BackIs ==
    ASSUME Inv, stage = "done"
    PROVE  /\ back = Error <=> \E i \in DOMAIN Read : Read[i] = Error
           /\ back # Error => back = Read
<1>1. back = IF \E i \in DOMAIN Read : Read[i] = Error THEN Error ELSE Read
  BY DEF Inv, BatchDeserialize, Read
<1>2. ASSUME \A i \in DOMAIN Read : Read[i] # Error PROVE Read # Error
  <2>1. DOMAIN Read = 1..Len(delivered) /\ Len(delivered) \in Nat
    BY ReadRecords
  <2>2. \A i \in 1..Len(delivered) : Read[i] \in Message
    BY <1>2, <2>1, ReadRecords
  <2>3. Read \in [1..Len(delivered) -> Message]
    BY <2>1, <2>2 DEF Read
  <2>4. Read \in Seq(Message)
    BY <2>1, <2>3
  <2> QED BY <2>4, ErrorAssumption
<1> QED BY <1>1, <1>2

(* A batch comes back as it went exactly if nothing of it is torn and its   *)
(* format keeps every key and every value.                                  *)
THEOREM FormatKeptIsExact == Spec => []KeptIsExact
<1>1. Inv => KeptIsExact
  <2> SUFFICES ASSUME Inv, stage = "done"
      PROVE  back = messages <=>
                \A i \in DOMAIN messages :
                    /\ ~IsLost(i)
                    /\ Keeps(format, messages[i].key)
                    /\ Keeps(format, messages[i].value)
    BY DEF KeptIsExact
  <2>1. DOMAIN Read = DOMAIN messages
    BY ReadRecords
  <2>2. messages # Error
    <3>1. messages \in [1..Len(delivered) -> Message] /\ Len(delivered) \in Nat
      BY ReadRecords DEF Inv, Received
    <3>2. messages \in Seq(Message)
      BY <3>1
    <3> QED BY <3>2, ErrorAssumption
  <2>3. ASSUME back = messages, NEW i \in DOMAIN messages
        PROVE  /\ ~IsLost(i)
               /\ Keeps(format, messages[i].key) /\ Keeps(format, messages[i].value)
    <3>1. Read = messages /\ Read[i] # Error
      BY <2>1, <2>2, <2>3, BackIs
    <3> QED BY <2>1, <2>3, <3>1, ReadRecords
  <2>4. ASSUME \A i \in DOMAIN messages :
                  /\ ~IsLost(i)
                  /\ Keeps(format, messages[i].key)
                  /\ Keeps(format, messages[i].value)
        PROVE  back = messages
    <3>1. \A i \in DOMAIN Read : Read[i] = messages[i] /\ Read[i] # Error
      <4>1. \A i \in DOMAIN Read : Read[i] = messages[i] /\ messages[i] \in Message
        BY <2>1, <2>4, ReadRecords
      <4> QED BY <4>1, ErrorAssumption
    <3>2. back = Read
      BY <3>1, BackIs
    <3>3. Read = messages
      <4>1. messages = [i \in DOMAIN messages |-> messages[i]]
        BY DEF Inv, Received
      <4>2. Read = [i \in DOMAIN Read |-> Read[i]]
        BY DEF Read
      <4> QED BY <2>1, <3>1, <4>1, <4>2
    <3> QED BY <3>2, <3>3
  <2> QED BY <2>3, <2>4
<1> QED BY <1>1, FormatInvariant, PTL

(* One unreadable record costs the whole batch, and a record is unreadable  *)
(* exactly if it is torn, holds a prefix in front of something that is not  *)
(* base64, or JSON that is nested one level too deep.                       *)
THEOREM FormatUnreadableIsKnown == Spec => []UnreadableIsKnown
<1>1. Inv => UnreadableIsKnown
  <2> SUFFICES ASSUME Inv, stage = "done"
      PROVE  /\ back = Error <=>
                   \E i \in DOMAIN messages :
                      \/ IsLost(i)
                      \/ Unreadable(format, messages[i].key)
                      \/ Unreadable(format, messages[i].value)
             /\ back # Error => Len(back) = Len(delivered)
    BY DEF UnreadableIsKnown
  <2>1. DOMAIN Read = DOMAIN messages
    BY ReadRecords
  <2>2. ASSUME NEW i \in DOMAIN Read
        PROVE  Read[i] = Error <=>
                  \/ IsLost(i)
                  \/ Unreadable(format, messages[i].key)
                  \/ Unreadable(format, messages[i].value)
    BY ReadRecords
  <2>3. back = Error <=>
           \E i \in DOMAIN messages :
              \/ IsLost(i)
              \/ Unreadable(format, messages[i].key)
              \/ Unreadable(format, messages[i].value)
    BY <2>1, <2>2, BackIs
  <2>4. ASSUME back # Error PROVE Len(back) = Len(delivered)
    <3>1. DOMAIN Read = 1..Len(delivered) /\ Len(delivered) \in Nat
      BY ReadRecords
    <3>2. Read \in [1..Len(delivered) -> Message \cup {Error}]
      BY <3>1, ReadRecords DEF Read
    <3>3. Read \in Seq(Message \cup {Error}) /\ Len(Read) = Len(delivered)
      BY <3>1, <3>2
    <3> QED BY <2>4, <3>3, BackIs
  <2> QED BY <2>3, <2>4
<1> QED BY <1>1, FormatInvariant, PTL

(* Of the values the broker has under a header's name a reader finds the    *)
(* last that is UTF-8, whichever format wrote them, and no other names.     *)
THEOREM FormatHeadersSurvive == Spec => []HeadersSurvive
<1>1. Inv => HeadersSurvive
  <2> SUFFICES ASSUME Inv, stage = "done", back # Error, NEW i \in DOMAIN back
      PROVE  LET sent == delivered[i].headers
                 read == back[i].headers
             IN  /\ DOMAIN read \subseteq Keys(sent, DOMAIN sent)
                 /\ \A name \in Keys(sent, DOMAIN sent) :
                       LET readable == {j \in DOMAIN sent :
                                          sent[j][1] = name /\ IsReadable(sent[j])}
                       IN  IF readable = {}
                             THEN name \notin DOMAIN read
                             ELSE \E j \in readable :
                                     /\ \A k \in readable : k <= j
                                     /\ read[name] = sent[j][2]
    BY DEF HeadersSurvive
  <2> DEFINE sent == delivered[i].headers
             read == back[i].headers
             I == {j \in DOMAIN sent : IsReadable(sent[j])}
             n == Len(sent)
  <2>1. back = Read /\ Read[i] # Error /\ i \in DOMAIN Read
    BY BackIs
  <2>2. delivered[i] \in BrokerRecord /\ read = messages[i].headers
        /\ messages[i] = ConvertToKafkaMessage(delivered[i])
    BY <2>1, ReadRecords
  <2>3. read = Inserted(sent, I)
    <3> PICK r \in BrokerRecord : r = delivered[i]
      BY <2>2
    <3>1. ConvertToKafkaMessage(r).headers =
             Inserted(r.headers, {j \in DOMAIN r.headers : IsReadable(r.headers[j])})
      BY Converted DEF MapOf
    <3> QED BY <2>2, <3>1
  <2>4. n \in Nat /\ DOMAIN sent = 1..n
    BY <2>2, BatchesAssumption
  <2> HIDE DEF sent, read, n
  <2>5. I \in SUBSET (0..n) /\ I \subseteq DOMAIN sent
    BY <2>4
  <2>6. /\ DOMAIN read = Keys(sent, I)
        /\ \A k \in Keys(sent, I) : \E j \in I :
              /\ sent[j][1] = k
              /\ \A l \in I : sent[l][1] = k => l <= j
              /\ read[k] = sent[j][2]
    <3> HIDE DEF I
    <3> QED BY <2>3, <2>4, <2>5, InsertedHoldsLast
  <2>7. DOMAIN read \subseteq Keys(sent, DOMAIN sent)
    BY <2>5, <2>6 DEF Keys
  <2>8. ASSUME NEW name \in Keys(sent, DOMAIN sent)
        PROVE  LET readable == {j \in DOMAIN sent :
                                  sent[j][1] = name /\ IsReadable(sent[j])}
               IN  IF readable = {}
                     THEN name \notin DOMAIN read
                     ELSE \E j \in readable :
                             /\ \A k \in readable : k <= j
                             /\ read[name] = sent[j][2]
    <3> DEFINE readable == {j \in DOMAIN sent :
                              sent[j][1] = name /\ IsReadable(sent[j])}
    <3>1. readable = {j \in I : sent[j][1] = name}
      OBVIOUS
    <3>2. ASSUME readable = {} PROVE name \notin DOMAIN read
      BY <2>6, <3>1, <3>2 DEF Keys
    <3>3. ASSUME readable # {}
          PROVE  \E j \in readable :
                    (\A k \in readable : k <= j) /\ read[name] = sent[j][2]
      <4>1. name \in Keys(sent, I)
        BY <3>1, <3>3 DEF Keys
      <4>2. PICK j \in I : /\ sent[j][1] = name
                           /\ \A l \in I : sent[l][1] = name => l <= j
                           /\ read[name] = sent[j][2]
        BY <2>6, <4>1
      <4> QED BY <3>1, <4>2
    <3> HIDE DEF readable
    <3>4. IF readable = {}
            THEN name \notin DOMAIN read
            ELSE \E j \in readable :
                    (\A k \in readable : k <= j) /\ read[name] = sent[j][2]
      BY <3>2, <3>3
    <3> QED BY <3>4 DEF readable
  <2> QED BY <2>7, <2>8, Zenon DEF sent, read
<1> QED BY <1>1, FormatInvariant, PTL
=============================================================================
