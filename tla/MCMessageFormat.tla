--------------------------- MODULE MCMessageFormat ---------------------------
(***************************************************************************)
(* Every format with a payload of each kind the conversions tell apart,    *)
(* JSON strings that hold a prefix and JSON at the edge of what serde_json *)
(* reads among them; headers that are absent, unreadable or given more     *)
(* than once; and batches of two.                                          *)
(***************************************************************************)
EXTENDS MessageFormat

CONSTANTS x, obj

(* Embedded, the first is read again, the second is not, and the third is   *)
(* no JSON to serde_json even alone.                                        *)
DeepValues == {JOther(obj, RecursionLimit + d) : d \in {-2, -1, 0}}

MCKeys ==
    {None, Binary(x), Text(x), Prefixed(Text(x)), Canonical(JOther(obj, 1))}
    \cup {Canonical(v) : v \in DeepValues}

JsonValues ==
    {JNull, JOther(obj, 0), JOther(obj, 1), JString(Text(x)),
     JString(BadPrefix(x)), JString(Prefixed(Binary(x)))} \cup DeepValues

MCPayloads ==
    {None, Binary(x), Text(x), Prefixed(Binary(x)), Prefixed(Text(x)), BadPrefix(x)}
    \cup {Canonical(v) : v \in JsonValues} \cup {Spaced(v) : v \in JsonValues}

MCByteStrings ==
    LET payloads == (MCKeys \cup MCPayloads) \ {None}
    IN  payloads \cup {Lossy(Binary(x))}

HeaderValues == {None, Binary(x), Text(x), BadPrefix(x)}
MCHeaders ==
    {<<>>} \cup {<<<<"a", u>>, <<"a", v>>>> : u, v \in HeaderValues}
           \cup {<<<<"a", u>>, <<"b", v>>>> : u, v \in HeaderValues}

Record(key, value, headers) == [key |-> key, value |-> value, headers |-> headers]

MCBatches ==
    {<<Record(k, v, <<>>)>> : k \in MCKeys, v \in MCPayloads}
    \cup {<<Record(None, Text(x), h)>> : h \in MCHeaders}
    \cup {<<Record(None, u, <<<<"a", Text(x)>>>>), Record(None, v, <<>>)>> :
              u, v \in MCPayloads}

(* The message of the example in json_hybrid.rs. *)
ExampleBatches == {<<Record(Text(x), Spaced(JOther(obj, 1)), <<>>)>>}

MCFormats == Encodings \cup {"json"}
=============================================================================
