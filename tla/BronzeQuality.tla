---------------------------- MODULE BronzeQuality ----------------------------
(***************************************************************************)
(* What classify_raw_trade_kafka_messages (jobs/streaming/                 *)
(* bronze_quality.py) makes of one Kafka record, as operators.  A nullable *)
(* value is a sequence: <<>> is NULL and <<x>> is x.  The text of a        *)
(* decimal field is <<>>, or <<n>> with n what try_cast makes of it.       *)
(***************************************************************************)
EXTENDS Integers, Sequences

Null == <<>>
IsNull(v) == v = Null

\* The fields of a JSON text that is no object: from_json for the struct.
NoFields == [exchange |-> Null, symbol |-> Null, trade_id |-> Null, price |-> Null,
             quantity |-> Null, event_time_ms |-> Null, ingested_at_ms |-> Null]

\* _missing_text
MissingText(t) == IsNull(t) \/ t = <<"blank">>

\* try_cast(DECIMAL(38, 18))
TryCast(text) == IF IsNull(text) THEN Null ELSE text[1]

NonPositive(v) == ~IsNull(v) /\ v[1] <= 0

\* A nullable column of a numeric type.
Number(v) == IsNull(v) \/ v[1] \in Int

\* What Spark's two from_json calls may return for one value: NULL twice for
\* NULL; for a text that is no JSON object no map, and NULL (no text at all) or
\* the record without fields; for an object a map, and a record in which a
\* field of the wrong type is NULL.  A map and no record does not occur: that is an
\* assumption about Spark's permissive mode, which nothing here tests.
Readable(m) ==
    /\ ~m.raw_json => ~m.json_probe /\ IsNull(m.event)
    /\ IF m.json_probe THEN ~IsNull(m.event) ELSE m.event \in {Null, <<NoFields>>}
    /\ ~IsNull(m.event) =>
          LET e == m.event[1]
          IN /\ Number(TryCast(e.price)) /\ Number(TryCast(e.quantity))
             /\ Number(e.event_time_ms) /\ Number(e.ingested_at_ms)

\* The order of the array in _validation_errors.
ErrorOrder ==
    <<"NULL_RAW_JSON", "MALFORMED_JSON", "MISSING_EXCHANGE", "MISSING_SYMBOL",
      "MISSING_TRADE_ID", "MISSING_PRICE", "INVALID_PRICE", "NON_POSITIVE_PRICE",
      "MISSING_QUANTITY", "INVALID_QUANTITY", "NON_POSITIVE_QUANTITY",
      "MISSING_EVENT_TIME", "NON_POSITIVE_EVENT_TIME", "MISSING_INGESTED_AT",
      "NON_POSITIVE_INGESTED_AT", "MISSING_KAFKA_TOPIC", "MISSING_KAFKA_PARTITION",
      "MISSING_KAFKA_OFFSET">>

\* parsed: both readings of the text succeeded.
Parsed(m) == m.json_probe /\ ~IsNull(m.event)

RawErrors(m) ==
    {c \in {"NULL_RAW_JSON"} : ~m.raw_json}
    \cup {c \in {"MALFORMED_JSON"} : m.raw_json /\ ~m.json_probe}

\* Mutant: a field without text is of a wrong value, too.
DecimalErrorsTwice(text, missing, invalid, nonPositive) ==
    {c \in {missing} : IsNull(text)}
    \cup {c \in {invalid} : IsNull(TryCast(text))}
    \cup {c \in {nonPositive} : NonPositive(TryCast(text))}

\* The errors of a decimal field: no text, text that is no decimal, or a
\* decimal that is not positive.
DecimalErrors(text, missing, invalid, nonPositive) ==
    {c \in {missing} : IsNull(text)}
    \cup {c \in {invalid} : ~IsNull(text) /\ IsNull(TryCast(text))}
    \cup {c \in {nonPositive} : NonPositive(TryCast(text))}

TimeErrors(ms, missing, nonPositive) ==
    {c \in {missing} : IsNull(ms)} \cup {c \in {nonPositive} : NonPositive(ms)}

\* Mutant: the transport coordinates are taken to be always there.
FieldErrorsOfEvent(m) ==
    LET e == m.event[1] IN
    {c \in {"MISSING_EXCHANGE"} : MissingText(e.exchange)}
    \cup {c \in {"MISSING_SYMBOL"} : MissingText(e.symbol)}
    \cup {c \in {"MISSING_TRADE_ID"} : MissingText(e.trade_id)}
    \cup DecimalErrors(e.price, "MISSING_PRICE", "INVALID_PRICE",
                       "NON_POSITIVE_PRICE")
    \cup DecimalErrors(e.quantity, "MISSING_QUANTITY", "INVALID_QUANTITY",
                       "NON_POSITIVE_QUANTITY")
    \cup TimeErrors(e.event_time_ms, "MISSING_EVENT_TIME", "NON_POSITIVE_EVENT_TIME")
    \cup TimeErrors(e.ingested_at_ms, "MISSING_INGESTED_AT",
                    "NON_POSITIVE_INGESTED_AT")

FieldErrors(m) ==
    LET e == m.event[1] IN
    {c \in {"MISSING_EXCHANGE"} : MissingText(e.exchange)}
    \cup {c \in {"MISSING_SYMBOL"} : MissingText(e.symbol)}
    \cup {c \in {"MISSING_TRADE_ID"} : MissingText(e.trade_id)}
    \cup DecimalErrors(e.price, "MISSING_PRICE", "INVALID_PRICE",
                       "NON_POSITIVE_PRICE")
    \cup DecimalErrors(e.quantity, "MISSING_QUANTITY", "INVALID_QUANTITY",
                       "NON_POSITIVE_QUANTITY")
    \cup TimeErrors(e.event_time_ms, "MISSING_EVENT_TIME", "NON_POSITIVE_EVENT_TIME")
    \cup TimeErrors(e.ingested_at_ms, "MISSING_INGESTED_AT",
                    "NON_POSITIVE_INGESTED_AT")
    \cup {c \in {"MISSING_KAFKA_TOPIC"} : MissingText(m.kafka_topic)}
    \cup {c \in {"MISSING_KAFKA_PARTITION"} : IsNull(m.kafka_partition)}
    \cup {c \in {"MISSING_KAFKA_OFFSET"} : IsNull(m.kafka_offset)}

\* The set of errors; a text that was not read has no field errors.
Errors(m) == IF Parsed(m) THEN FieldErrors(m) ELSE RawErrors(m)

\* The elements of s at the positions I, in their order.
Subsequence(s, I) ==
    LET f[n \in 0 .. Len(s)] ==
            IF n = 0 THEN <<>>
            ELSE IF n \in I THEN Append(f[n - 1], s[n])
            ELSE f[n - 1]
    IN f[Len(s)]

\* F.filter over the array keeps its order.
ValidationErrors(m) ==
    Subsequence(ErrorOrder, {i \in DOMAIN ErrorOrder : ErrorOrder[i] \in Errors(m)})

\* One record gives one Bronze row, whatever its value is.
Classified(m) ==
    LET e == IF IsNull(m.event) THEN NoFields ELSE m.event[1] IN
    [exchange |-> e.exchange, symbol |-> e.symbol, trade_id |-> e.trade_id,
     price |-> TryCast(e.price), quantity |-> TryCast(e.quantity),
     event_time_ms |-> e.event_time_ms, ingested_at_ms |-> e.ingested_at_ms,
     kafka_topic |-> m.kafka_topic, kafka_partition |-> m.kafka_partition,
     kafka_offset |-> m.kafka_offset,
     is_valid |-> <<Len(ValidationErrors(m)) = 0>>,
     validation_errors |-> <<ValidationErrors(m)>>]

-----------------------------------------------------------------------------
\* What the label promises, written without the error codes.

Present(t) == t # Null /\ t # <<"blank">>
Positive(v) == v # Null /\ v[1] > 0

Complete(row) ==
    /\ Present(row.exchange) /\ Present(row.symbol) /\ Present(row.trade_id)
    /\ Positive(row.price) /\ Positive(row.quantity)
    /\ Positive(row.event_time_ms) /\ Positive(row.ingested_at_ms)
    /\ Present(row.kafka_topic)
    /\ row.kafka_partition # Null /\ row.kafka_offset # Null

\* The codes that exclude one another.
Exclusives ==
    {{"MISSING_PRICE", "INVALID_PRICE", "NON_POSITIVE_PRICE"},
     {"MISSING_QUANTITY", "INVALID_QUANTITY", "NON_POSITIVE_QUANTITY"},
     {"MISSING_EVENT_TIME", "NON_POSITIVE_EVENT_TIME"},
     {"MISSING_INGESTED_AT", "NON_POSITIVE_INGESTED_AT"}}
=============================================================================
