--------------------------- MODULE MCMarketPipeline ---------------------------
(* Small topics, with two decimal digits of which the product keeps one.   *)
EXTENDS MarketPipeline, TLC

Event(price, quantity, ms) ==
    [exchange |-> <<"x">>, symbol |-> <<"x">>, trade_id |-> <<"x">>,
     price |-> <<price>>, quantity |-> <<quantity>>,
     event_time_ms |-> <<ms>>, ingested_at_ms |-> <<ms>>]

Record(raw, probe, event, topic, partition, offset) ==
    [raw_json |-> raw, json_probe |-> probe, event |-> event, kafka_topic |-> topic,
     kafka_partition |-> partition, kafka_offset |-> offset]

Object(e) == Record(TRUE, TRUE, <<e>>, <<"x">>, <<0>>, <<0>>)

\* Trades whose product is exact, is rounded up, overflows; one with a time
\* beyond the timestamps; a price that is no decimal.
FewMessages ==
    {Object(Event(<<200>>, <<300>>, 1)), Object(Event(<<140>>, <<270>>, 1)),
     Object(Event(<<950>>, <<950>>, 1)), Object(Event(<<200>>, <<300>>, 9)),
     Object(Event(<<>>, <<300>>, 1))}

Texts == {Null, <<"blank">>, <<"x">>}
Decimals == {Null, <<Null>>, << <<0>> >>, << <<200>> >>}
Times == {Null, <<0>>, <<1>>}

\* Every combination of fields, for the classifier alone.
AllEvents ==
    [exchange : Texts, symbol : {Null, <<"x">>}, trade_id : {Null, <<"x">>},
     price : Decimals, quantity : Decimals, event_time_ms : Times,
     ingested_at_ms : Times]

AllRecords ==
    FewMessages
    \cup {Object(e) : e \in AllEvents}
    \cup {Record(TRUE, TRUE, <<e>>, t, k, o) :
             e \in {Event(<<200>>, <<300>>, 1), Event(<<>>, <<0>>, 0)},
             t \in Texts, k \in {Null, <<0>>}, o \in {Null, <<0>>}}
    \cup {Record(TRUE, FALSE, e, <<"x">>, <<0>>, <<0>>) :
             e \in {Null, <<NoFields>>}}
    \cup {Record(FALSE, FALSE, Null, <<"x">>, <<0>>, <<0>>)}

\* One row written before the quality contract, from a text without a price.
OldRow == [Classified(Object(Event(<<>>, <<300>>, 1)))
             EXCEPT !.is_valid = Null, !.validation_errors = Null]
MCHistory == <<OldRow>>

\* Builders are interchangeable.
BuilderSymmetry == Permutations(Builders)
=============================================================================
