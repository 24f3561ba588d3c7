------------------------ MODULE MCClickHouseServing ------------------------
(* Small Silver histories for the serving refresh.                         *)
EXTENDS ClickHouseServing

CONSTANTS b1, b2, e1   \* two trades of one symbol, one trade of another
CONSTANTS BTC, ETH

MCRows == {b1, b2, e1}
MCNullRows == {e1}
MCSymbols == {BTC, ETH}
MCSymbolOf == [r \in MCRows |-> IF r = e1 THEN ETH ELSE BTC]

Copies(m, n, k) ==
    [r \in MCRows |-> CASE r = b1 -> m [] r = b2 -> n [] r = e1 -> k]

\* An empty build, two builds of equal size that differ only in which trade
\* is the duplicate, and one with a row the loader must refuse.
MCContents == {Copies(0, 0, 0), Copies(2, 1, 0), Copies(1, 2, 0), Copies(1, 0, 1)}

\* Two builds, enough for interleavings of two commands.
SmallContents == {Copies(1, 0, 0), Copies(1, 1, 0)}
=============================================================================
