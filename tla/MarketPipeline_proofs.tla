----------------------- MODULE MarketPipeline_proofs -----------------------
(***************************************************************************)
(* Proofs about the pipeline, for every set of records, topic, number of   *)
(* rebuilds and decimal type: the label of a Bronze row is right, a Silver *)
(* snapshot has exactly the complete rows of its Bronze snapshot, with the *)
(* nearest notional, and what a reader of silver_trades sees is one such   *)
(* snapshot, whole and in order, and never goes back.                      *)
(***************************************************************************)
EXTENDS MarketPipeline, Recursion, SequenceTheorems, FiniteSetTheorems

\* Where a Bronze row comes from: the time before the contract, or a record.
Origin(row) == IsNull(row.is_valid) \/ \E m \in Messages : row = Classified(m)

\* No row among the first n that a build selects raises in it.
Representable(n) == \A i \in SelectedIn(n) : ~Raises(bronze[i])

Phases == Idle \cup {"inspect", "read", "write", "count", "stop"}
Failures == {"none", "session", "inspect", "read", "write", "count", "cleanup"}
Commands(C) == [pc : Phases, upTo : Nat, count : C, error : Failures]

\* The variables the proofs are about are sequences and records.
Shape ==
    /\ \E S : bronze \in Seq(S)
    /\ \E S : silvers \in Seq([upTo : Nat, rows : S])
    /\ \E C : run \in [Builders -> Commands(C)]
    /\ overlapped \in BOOLEAN

\* Every snapshot is the transformation of a prefix of Bronze, as is what a
\* rebuild has read; a reader sees the snapshot published last.
Built ==
    /\ \A k \in DOMAIN silvers :
          /\ silvers[k].upTo <= Len(bronze)
          /\ silvers[k].rows = Transformed(silvers[k].upTo)
    /\ \A p \in Builders : run[p].upTo <= Len(bronze)
    /\ served \in 0 .. Len(silvers)
    /\ visible = IF served = 0 THEN NoSnapshot ELSE silvers[served]

\* While rebuilds do not overlap, each writes a snapshot not older than those
\* before it.
Ordered == ~overlapped =>
    /\ \A p, q \in Builders : run[p].pc \notin Idle /\ run[q].pc \notin Idle => p = q
    /\ \A p \in Builders : run[p].pc = "write" =>
          \A k \in DOMAIN silvers : silvers[k].upTo <= run[p].upTo
    /\ \A j, k \in DOMAIN silvers : j <= k => silvers[j].upTo <= silvers[k].upTo

PipelineInv == Shape /\ Built /\ Ordered

\* The command has read Silver back, and nothing failed so far.
Succeeded(p) == run[p].pc \in {"stop", "ended"} /\ run[p].error = "none"

\* Bronze is small, and every row of it has an origin.
RowsHaveOrigin ==
    /\ Len(bronze) <= MaxRows
    /\ \A i \in 1 .. Len(bronze) : Origin(bronze[i])

\* What was written could be written.
Written ==
    /\ \A k \in DOMAIN silvers : Representable(silvers[k].upTo)
    /\ \A p \in Builders :
          run[p].pc = "count" \/ Succeeded(p) => Representable(run[p].upTo)

\* A command that is alone counts what it wrote.
Counted ==
    /\ \A p \in Builders : run[p].count \in Nat
    /\ ~overlapped => \A p \in Builders :
          /\ run[p].pc = "count"
                => silvers # <<>> /\ silvers[Len(silvers)].upTo = run[p].upTo
          /\ Succeeded(p) => run[p].count = Len(Transformed(run[p].upTo))

SilverInv == RowsHaveOrigin /\ Written /\ Counted

-----------------------------------------------------------------------------
(* Subsequences                                                            *)

\* One step of the recursion of Subsequence.
Grown(s, I, t, n) == IF n \in I THEN Append(t, s[n]) ELSE t

\* f[n] is what Subsequence has taken from the first n elements of s.
Takes(f, S, s, I) ==
    /\ f \in [0 .. Len(s) -> Seq(S)]
    /\ f[0] = <<>>
    /\ \A n \in 1 .. Len(s) : f[n] = Grown(s, I, f[n - 1], n)

\* Subsequence is a recursion over the positions of s.
LEMMA SubsequenceRecurs ==
  ASSUME NEW S, NEW s \in Seq(S), NEW I
  PROVE  \E f : Takes(f, S, s, I) /\ Subsequence(s, I) = f[Len(s)]
<1>1. PICK L \in Nat : L = Len(s)
  OBVIOUS
<1>2. PICK G : G = [q \in Seq(S) \X Nat |->
                      IF q[2] + 1 \in 1 .. L THEN Grown(s, I, q[1], q[2] + 1) ELSE q[1]]
  OBVIOUS
<1>3. \A n \in 1 .. L : s[n] \in S
  BY <1>1
<1>4. \A t \in Seq(S), n \in 1 .. L : Grown(s, I, t, n) \in Seq(S)
  BY <1>3 DEF Grown
<1>5. ASSUME NEW t \in Seq(S), NEW k \in Nat PROVE G[<<t, k>>] \in Seq(S)
  <2>1. G[<<t, k>>] = IF k + 1 \in 1 .. L THEN Grown(s, I, t, k + 1) ELSE t
    BY <1>2
  <2> QED
    BY <1>4, <2>1
<1>6. PICK h : Recurs(h, Seq(S), <<>>, G)
  <2>1. <<>> \in Seq(S)
    OBVIOUS
  <2> QED
    BY <1>5, <2>1, RecursiveFunction
<1>7. PICK g : g = [n \in 0 .. L |-> h[n]]
  OBVIOUS
<1>8. /\ g \in [0 .. L -> Seq(S)] /\ g[0] = <<>>
      /\ \A n \in 1 .. L : g[n] = Grown(s, I, g[n - 1], n)
  <2>1. \A n \in 0 .. L : n \in Nat /\ h[n] \in Seq(S)
    BY <1>6 DEF Recurs
  <2>2. 0 \in 0 .. L /\ g[0] = <<>>
    BY <1>6, <1>7 DEF Recurs
  <2>3. ASSUME NEW n \in 1 .. L PROVE g[n] = Grown(s, I, g[n - 1], n)
    <3>1. PICK k \in Nat : k = n - 1 /\ n = k + 1 /\ k \in 0 .. L /\ n \in 0 .. L
      OBVIOUS
    <3>2. h[k + 1] = G[<<h[k], k>>] /\ h[k] \in Seq(S)
      BY <1>6 DEF Recurs
    <3>3. h[k + 1] = Grown(s, I, h[k], k + 1)
      BY <1>2, <3>1, <3>2
    <3> QED
      BY <1>7, <3>1, <3>3
  <2> QED
    BY <1>7, <2>1, <2>2, <2>3
<1> DEFINE Rule(f) == [n \in 0 .. Len(s) |->
                         IF n = 0 THEN <<>>
                         ELSE IF n \in I THEN Append(f[n - 1], s[n])
                         ELSE f[n - 1]]
<1>9. g = Rule(g)
  <2>1. \A n \in 0 .. L : g[n] = Rule(g)[n]
    <3> SUFFICES ASSUME NEW n \in 0 .. L PROVE g[n] = Rule(g)[n]
      OBVIOUS
    <3>1. n = 0 \/ n \in 1 .. L
      OBVIOUS
    <3> QED
      BY <1>1, <1>8, <3>1 DEF Grown
  <2> HIDE DEF Rule
  <2>2. Rule(g) = [n \in 0 .. L |-> Rule(g)[n]]
    BY <1>1 DEF Rule
  <2>3. g = [n \in 0 .. L |-> g[n]]
    BY <1>8
  <2> QED
    BY <2>1, <2>2, <2>3
<1>10. PICK f : f = CHOOSE x : x = Rule(x)
  OBVIOUS
<1>11. f = Rule(f) /\ Subsequence(s, I) = f[Len(s)]
  <2>1. f = Rule(f)
    BY <1>9, <1>10
  <2> QED
    BY <1>10, <2>1 DEF Subsequence
<1>12. \A n \in 0 .. L : f[n] = Rule(f)[n]
  BY <1>11
<1>13. f[0] = <<>> /\ \A n \in 1 .. L : f[n] = Grown(s, I, f[n - 1], n)
  BY <1>1, <1>12 DEF Grown
<1>14. \A n \in 0 .. L : f[n] \in Seq(S)
  <2>1. PICK T : T = {n \in Nat : n <= L => f[n] \in Seq(S)}
    OBVIOUS
  <2>2. 0 \in T
    <3>1. <<>> \in Seq(S)
      OBVIOUS
    <3> QED
      BY <1>13, <2>1, <3>1
  <2>3. ASSUME NEW n \in Nat, n \in T PROVE n + 1 \in T
    <3> SUFFICES ASSUME n + 1 <= L PROVE f[n + 1] \in Seq(S)
      BY <2>1
    <3>1. n + 1 \in 1 .. L /\ (n + 1) - 1 = n /\ f[n] \in Seq(S)
      BY <2>1, <2>3
    <3>2. f[n + 1] = Grown(s, I, f[n], n + 1)
      BY <1>13, <3>1
    <3> QED
      BY <1>4, <3>1, <3>2
  <2>4. Nat \subseteq T
    BY <2>2, <2>3, Induction
  <2>5. \A n \in 0 .. L : n \in Nat /\ n <= L
    OBVIOUS
  <2> QED
    BY <2>1, <2>4, <2>5
<1>15. f \in [0 .. L -> Seq(S)]
  <2>1. f = [n \in 0 .. L |-> Rule(f)[n]]
    BY <1>1, <1>11
  <2> HIDE DEF Rule
  <2>2. PICK r : r = [n \in 0 .. L |-> f[n]]
    OBVIOUS
  <2>3. r = f
    BY <1>12, <2>1, <2>2
  <2> QED
    BY <1>14, <2>2, <2>3
<1>16. Takes(f, S, s, I)
  BY <1>1, <1>13, <1>15 DEF Takes
<1> QED
  BY <1>11, <1>16

\* The number of positions taken up to n + 1.
LEMMA OneMore ==
  ASSUME NEW I, NEW n \in Nat
  PROVE  /\ Cardinality(I \cap 1 .. n) \in 0 .. n /\ IsFiniteSet(I \cap 1 .. n)
         /\ n + 1 \in I => Cardinality(I \cap 1 .. n + 1) = Cardinality(I \cap 1 .. n) + 1
         /\ n + 1 \notin I => I \cap 1 .. n + 1 = I \cap 1 .. n
<1>1. IsFiniteSet(1 .. n) /\ Cardinality(1 .. n) = n
  BY FS_Interval
<1>2. PICK J : J = I \cap 1 .. n /\ J \subseteq 1 .. n
  OBVIOUS
<1>3. IsFiniteSet(J) /\ Cardinality(J) <= n
  BY <1>1, <1>2, FS_Subset
<1>4. Cardinality(J) \in Nat
  BY <1>3, FS_CardinalityType
<1>5. ASSUME n + 1 \in I PROVE Cardinality(I \cap 1 .. n + 1) = Cardinality(J) + 1
  <2>1. I \cap 1 .. n + 1 = J \cup {n + 1} /\ n + 1 \notin J
    BY <1>2, <1>5
  <2> QED
    BY <1>3, <2>1, FS_AddElement
<1>6. n + 1 \notin I => I \cap 1 .. n + 1 = J
  BY <1>2
<1> QED
  BY <1>2, <1>3, <1>4, <1>5, <1>6

\* t has the elements of s at the positions of I up to n: each has in t the rank
\* its position has in I, and t has no others.
Ranked(t, s, I, n) ==
    /\ Len(t) = Cardinality(I \cap 1 .. n)
    /\ \A i \in I \cap 1 .. n : Cardinality(I \cap 1 .. i) \in 1 .. Len(t)
                              /\ t[Cardinality(I \cap 1 .. i)] = s[i]
    /\ \A j \in 1 .. Len(t) : \E i \in I \cap 1 .. n : t[j] = s[i]

\* One more element keeps the ranks.
LEMMA RankedGrows ==
  ASSUME NEW S, NEW s \in Seq(S), NEW I, NEW n \in Nat, n + 1 \in 1 .. Len(s),
         NEW t \in Seq(S), Ranked(t, s, I, n)
  PROVE  Ranked(Grown(s, I, t, n + 1), s, I, n + 1)
<1>1. CASE n + 1 \notin I
  <2>1. I \cap 1 .. n + 1 = I \cap 1 .. n /\ Grown(s, I, t, n + 1) = t
    BY <1>1, OneMore DEF Grown
  <2> QED
    BY <2>1 DEF Ranked
<1>2. CASE n + 1 \in I
  <2>1. PICK c \in Nat : /\ c = Cardinality(I \cap 1 .. n) /\ c = Len(t)
                        /\ Cardinality(I \cap 1 .. n + 1) = c + 1
    <3>1. Len(t) \in Nat /\ Len(t) = Cardinality(I \cap 1 .. n)
      BY DEF Ranked
    <3> QED
      BY <1>2, <3>1, OneMore
  <2>2. PICK x \in S : x = s[n + 1]
    OBVIOUS
  <2>3. PICK u \in Seq(S) : /\ u = Grown(s, I, t, n + 1)
                           /\ Len(u) = c + 1 /\ u[c + 1] = x
                           /\ \A j \in 1 .. c : u[j] = t[j]
    <3>1. Grown(s, I, t, n + 1) = Append(t, x)
      BY <1>2, <2>2 DEF Grown
    <3>2. /\ Append(t, x) \in Seq(S) /\ Len(Append(t, x)) = Len(t) + 1
          /\ \A j \in 1 .. Len(t) : Append(t, x)[j] = t[j]
          /\ Append(t, x)[Len(t) + 1] = x
      BY AppendProperties
    <3> QED
      BY <2>1, <3>1, <3>2
  <2>4. \A i \in I \cap 1 .. n + 1 : i \in I \cap 1 .. n \/ i = n + 1
    OBVIOUS
  <2>5. ASSUME NEW i \in I \cap 1 .. n + 1
        PROVE  /\ Cardinality(I \cap 1 .. i) \in 1 .. c + 1
               /\ u[Cardinality(I \cap 1 .. i)] = s[i]
    <3>1. CASE i = n + 1
      BY <2>1, <2>2, <2>3, <3>1
    <3>2. CASE i \in I \cap 1 .. n
      <4>1. /\ Cardinality(I \cap 1 .. i) \in 1 .. c
            /\ t[Cardinality(I \cap 1 .. i)] = s[i]
        BY <2>1, <3>2 DEF Ranked
      <4>2. PICK k \in 1 .. c : k = Cardinality(I \cap 1 .. i)
        BY <4>1
      <4> QED
        BY <2>3, <4>1, <4>2
    <3> QED
      BY <2>4, <3>1, <3>2
  <2>6. ASSUME NEW j \in 1 .. c + 1
        PROVE  \E i \in I \cap 1 .. n + 1 : u[j] = s[i]
    <3>1. CASE j = c + 1
      BY <1>2, <2>2, <2>3, <3>1
    <3>2. CASE j \in 1 .. c
      <4>1. PICK i \in I \cap 1 .. n : t[j] = s[i]
        BY <2>1, <3>2 DEF Ranked
      <4>2. i \in I \cap 1 .. n + 1
        OBVIOUS
      <4> QED
        BY <2>3, <3>2, <4>1, <4>2
    <3> QED
      BY <3>1, <3>2
  <2>7. Ranked(u, s, I, n + 1)
    BY <2>1, <2>3, <2>5, <2>6 DEF Ranked
  <2> QED
    BY <2>3, <2>7
<1> QED
  BY <1>1, <1>2

\* Subsequence selects what it says.
LEMMA SubsequenceIsRanked ==
  ASSUME NEW S, NEW s \in Seq(S), NEW I
  PROVE  Subsequence(s, I) \in Seq(S) /\ Ranked(Subsequence(s, I), s, I, Len(s))
<1>1. PICK L \in Nat : L = Len(s)
  OBVIOUS
<1>2. PICK f : Takes(f, S, s, I) /\ Subsequence(s, I) = f[L]
  BY <1>1, SubsequenceRecurs
<1>3. PICK T : T = {n \in Nat : n <= L => Ranked(f[n], s, I, n)}
  OBVIOUS
<1>4. 0 \in T
  <2>1. I \cap 1 .. 0 = {} /\ Cardinality({}) = 0
    BY FS_EmptySet
  <2>2. PICK t : t = f[0] /\ t = <<>> /\ Len(t) = 0
    BY <1>2 DEF Takes
  <2>3. Ranked(f[0], s, I, 0)
    BY <2>1, <2>2 DEF Ranked
  <2> QED
    BY <1>3, <2>3
<1>5. ASSUME NEW n \in Nat, n \in T PROVE n + 1 \in T
  <2> SUFFICES ASSUME n + 1 <= L PROVE Ranked(f[n + 1], s, I, n + 1)
    BY <1>3
  <2>1. n + 1 \in 1 .. L /\ n \in 0 .. L /\ (n + 1) - 1 = n /\ Ranked(f[n], s, I, n)
    BY <1>3, <1>5
  <2>2. f[n + 1] = Grown(s, I, f[n], n + 1) /\ f[n] \in Seq(S)
    BY <1>1, <1>2, <2>1 DEF Takes
  <2>3. Ranked(Grown(s, I, f[n], n + 1), s, I, n + 1)
    BY <1>1, <2>1, <2>2, RankedGrows
  <2> QED
    BY <2>2, <2>3
<1>6. L \in T
  BY <1>4, <1>5, Induction
<1>7. f[L] \in Seq(S) /\ Ranked(f[L], s, I, L)
  BY <1>1, <1>2, <1>3, <1>6 DEF Takes
<1> QED
  BY <1>1, <1>2, <1>7

-----------------------------------------------------------------------------
(* The classifier                                                          *)

\* Where the errors of a record are in the order of the array.
Places(m) == {i \in DOMAIN ErrorOrder : ErrorOrder[i] \in Errors(m)}

\* What the array of the error codes is.
LEMMA OrderOfErrors ==
  /\ ErrorOrder \in Seq({ErrorOrder[k] : k \in 1 .. 18})
  /\ Len(ErrorOrder) = 18 /\ DOMAIN ErrorOrder = 1 .. 18
  /\ ErrorOrder[1] = "NULL_RAW_JSON" /\ ErrorOrder[2] = "MALFORMED_JSON"
  /\ \A i \in 3 .. 18 : ErrorOrder[i] \notin {"NULL_RAW_JSON", "MALFORMED_JSON"}
<1>1. ErrorOrder \in Seq({ErrorOrder[k] : k \in 1 .. 18})
  <2>1. ErrorOrder = [i \in 1 .. 18 |-> ErrorOrder[i]]
    BY DEF ErrorOrder
  <2>2. \A i \in 1 .. 18 : ErrorOrder[i] \in {ErrorOrder[k] : k \in 1 .. 18}
    OBVIOUS
  <2> QED
    BY <2>1, <2>2, SeqDef
<1>2. Len(ErrorOrder) = 18 /\ DOMAIN ErrorOrder = 1 .. 18
  BY DEF ErrorOrder
<1>3. ErrorOrder[1] = "NULL_RAW_JSON" /\ ErrorOrder[2] = "MALFORMED_JSON"
  BY DEF ErrorOrder
<1>4. ASSUME NEW i \in 3 .. 18
      PROVE  ErrorOrder[i] \notin {"NULL_RAW_JSON", "MALFORMED_JSON"}
  <2>1. i \in {3, 4, 5, 6, 7, 8, 9, 10, 11, 12, 13, 14, 15, 16, 17, 18}
    OBVIOUS
  <2> QED
    BY <2>1 DEF ErrorOrder
<1> QED
  BY <1>1, <1>2, <1>3, <1>4

\* No error is outside the order.
LEMMA ErrorsListed ==
  ASSUME NEW m, NEW c \in Errors(m)
  PROVE  \E i \in DOMAIN ErrorOrder : ErrorOrder[i] = c
<1>1. \A k \in 1 .. 18 : k \in DOMAIN ErrorOrder
  BY DEF ErrorOrder
<1>2. ErrorOrder[1] = "NULL_RAW_JSON" /\ ErrorOrder[2] = "MALFORMED_JSON"
  BY DEF ErrorOrder
<1>3. CASE ~Parsed(m)
  BY <1>1, <1>2, <1>3 DEF Errors, RawErrors
<1>4. CASE Parsed(m)
  <2>1. c \in FieldErrors(m)
    BY <1>4 DEF Errors
  <2>2. c \in {"MISSING_EXCHANGE", "MISSING_SYMBOL", "MISSING_TRADE_ID", "MISSING_PRICE",
               "INVALID_PRICE", "NON_POSITIVE_PRICE", "MISSING_QUANTITY",
               "INVALID_QUANTITY", "NON_POSITIVE_QUANTITY", "MISSING_EVENT_TIME",
               "NON_POSITIVE_EVENT_TIME", "MISSING_INGESTED_AT",
               "NON_POSITIVE_INGESTED_AT", "MISSING_KAFKA_TOPIC",
               "MISSING_KAFKA_PARTITION", "MISSING_KAFKA_OFFSET"}
    BY <2>1 DEF FieldErrors, DecimalErrors, TimeErrors
  <2>3. \A k \in 3 .. 18 : ErrorOrder[k] = c => \E i \in DOMAIN ErrorOrder : ErrorOrder[i] = c
    BY <1>1
  <2> QED
    BY <2>2, <2>3 DEF ErrorOrder
<1> QED
  BY <1>3, <1>4

\* The array has one element per error.
LEMMA ErrorCount ==
  ASSUME NEW m
  PROVE  /\ Len(ValidationErrors(m)) = Cardinality(Places(m))
         /\ Places(m) \subseteq 1 .. 18
         /\ Len(ValidationErrors(m)) \in Nat
         /\ Len(ValidationErrors(m)) = 0 <=> Errors(m) = {}
<1>1. PICK I : I = Places(m)
  OBVIOUS
<1>2. I \subseteq 1 .. 18 /\ I \cap 1 .. 18 = I
  BY <1>1, OrderOfErrors DEF Places
<1>3. PICK S, s : s \in Seq(S) /\ s = ErrorOrder /\ Len(s) = 18
  BY OrderOfErrors
<1>4. Ranked(Subsequence(s, I), s, I, 18)
  BY <1>3, SubsequenceIsRanked
<1>5. Len(ValidationErrors(m)) = Cardinality(I)
  BY <1>1, <1>2, <1>3, <1>4 DEF Ranked, ValidationErrors, Places
<1>6. IsFiniteSet(I) /\ Cardinality(I) \in Nat
  <2>1. IsFiniteSet(1 .. 18)
    <3>1. 1 \in Int /\ 18 \in Int
      OBVIOUS
    <3> QED
      BY ONLY <3>1, FS_Interval
  <2> QED
    BY <1>2, <2>1, FS_Subset, FS_CardinalityType
<1>7. Cardinality(I) = 0 <=> I = {}
  BY <1>6, FS_EmptySet
<1>8. I = {} <=> Errors(m) = {}
  BY <1>1, ErrorsListed DEF Places
<1> QED
  BY <1>1, <1>2, <1>5, <1>6, <1>7, <1>8

\* The label says whether there is an error.
LEMMA LabelIs ==
  ASSUME NEW m
  PROVE  /\ Classified(m).is_valid # Null
         /\ Classified(m).is_valid = <<TRUE>> <=> Errors(m) = {}
<1>1. PICK b \in BOOLEAN : b = (Len(ValidationErrors(m)) = 0)
  OBVIOUS
<1>2. Classified(m).is_valid = <<b>>
  BY <1>1 DEF Classified
<1>3. <<b>> = <<TRUE>> <=> b
  <2>1. CASE b = TRUE
    BY <2>1
  <2>2. CASE b = FALSE
    <3>1. <<FALSE>>[1] = FALSE /\ <<TRUE>>[1] = TRUE
      OBVIOUS
    <3>2. <<FALSE>> # <<TRUE>>
      BY <3>1
    <3> QED
      BY <2>2, <3>2
  <2> QED
    BY <2>1, <2>2
<1>4. <<b>> # <<>>
  OBVIOUS
<1> QED
  BY <1>1, <1>2, <1>3, <1>4, ErrorCount DEF Null

\* An unread record has one error, and no complete row.
LEMMA UnreadHasOneError ==
  ASSUME NEW m, Readable(m), ~Parsed(m)
  PROVE  /\ Len(ValidationErrors(m)) = 1
         /\ ~Complete(Classified(m))
<1>1. PICK i \in {1, 2} : Errors(m) = {ErrorOrder[i]}
  <2>1. Errors(m) = {"NULL_RAW_JSON"} \/ Errors(m) = {"MALFORMED_JSON"}
    BY DEF Errors, Parsed, Readable, RawErrors
  <2> QED
    BY <2>1, OrderOfErrors
<1>2. Places(m) = {i}
  <2>1. ASSUME NEW k \in 1 .. 18 PROVE ErrorOrder[k] = ErrorOrder[i] <=> k = i
    <3>1. k = 1 \/ k = 2 \/ k \in 3 .. 18
      OBVIOUS
    <3> QED
      BY <3>1, OrderOfErrors
  <2> QED
    BY <1>1, <2>1, OrderOfErrors DEF Places
<1>3. Len(ValidationErrors(m)) = 1
  BY <1>2, ErrorCount, FS_Singleton
<1>4. m.event = Null \/ m.event = <<NoFields>>
  BY DEF Readable, Parsed, IsNull
<1>5. Classified(m).exchange = Null
  <2>1. CASE m.event = Null
    BY <2>1 DEF Classified, IsNull, NoFields
  <2>2. CASE m.event = <<NoFields>>
    BY <2>2 DEF Classified, IsNull, NoFields, Null
  <2> QED
    BY <1>4, <2>1, <2>2
<1> QED
  BY <1>3, <1>5 DEF Complete, Present

\* A numeric column is positive, or has no value, or a value that is not positive.
LEMMA NumberIsPositive ==
  ASSUME NEW v, Number(v)
  PROVE  Positive(v) <=> ~IsNull(v) /\ ~NonPositive(v)
BY DEF Number, Positive, NonPositive, IsNull

\* The error sets are empty exactly for what is present and positive.
LEMMA NoDecimalError ==
  ASSUME NEW t, Number(TryCast(t)), NEW a, NEW b, NEW c
  PROVE  DecimalErrors(t, a, b, c) = {} <=> Positive(TryCast(t))
<1>1. DecimalErrors(t, a, b, c) = {}
        <=> ~IsNull(t) /\ ~(~IsNull(t) /\ IsNull(TryCast(t))) /\ ~NonPositive(TryCast(t))
  BY DEF DecimalErrors
<1>2. IsNull(t) => IsNull(TryCast(t))
  BY DEF TryCast, IsNull
<1> QED
  BY <1>1, <1>2, NumberIsPositive

\* The same for a time.
LEMMA NoTimeError ==
  ASSUME NEW v, Number(v), NEW a, NEW b
  PROVE  TimeErrors(v, a, b) = {} <=> Positive(v)
<1>1. TimeErrors(v, a, b) = {} <=> ~IsNull(v) /\ ~NonPositive(v)
  BY DEF TimeErrors
<1> QED
  BY <1>1, NumberIsPositive

\* A record that was read has no error exactly if its row is complete.
LEMMA ReadHasNoError ==
  ASSUME NEW m, Readable(m), Parsed(m)
  PROVE  Errors(m) = {} <=> Complete(Classified(m))
<1>1. PICK e : e = m.event[1]
  OBVIOUS
<1>2. /\ Number(TryCast(e.price)) /\ Number(TryCast(e.quantity))
      /\ Number(e.event_time_ms) /\ Number(e.ingested_at_ms)
  BY <1>1 DEF Parsed, Readable
<1>3. FieldErrors(m) = {} <=>
        /\ ~MissingText(e.exchange) /\ ~MissingText(e.symbol) /\ ~MissingText(e.trade_id)
        /\ Positive(TryCast(e.price)) /\ Positive(TryCast(e.quantity))
        /\ Positive(e.event_time_ms) /\ Positive(e.ingested_at_ms)
        /\ ~MissingText(m.kafka_topic)
        /\ ~IsNull(m.kafka_partition) /\ ~IsNull(m.kafka_offset)
  <2>1. FieldErrors(m) = {} <=>
        /\ ~MissingText(e.exchange) /\ ~MissingText(e.symbol) /\ ~MissingText(e.trade_id)
        /\ DecimalErrors(e.price, "MISSING_PRICE", "INVALID_PRICE",
                         "NON_POSITIVE_PRICE") = {}
        /\ DecimalErrors(e.quantity, "MISSING_QUANTITY", "INVALID_QUANTITY",
                         "NON_POSITIVE_QUANTITY") = {}
        /\ TimeErrors(e.event_time_ms, "MISSING_EVENT_TIME", "NON_POSITIVE_EVENT_TIME") = {}
        /\ TimeErrors(e.ingested_at_ms, "MISSING_INGESTED_AT",
                      "NON_POSITIVE_INGESTED_AT") = {}
        /\ ~MissingText(m.kafka_topic)
        /\ ~IsNull(m.kafka_partition) /\ ~IsNull(m.kafka_offset)
    BY <1>1 DEF FieldErrors
  <2> QED
    BY <1>2, <2>1, NoDecimalError, NoTimeError
<1>4. \A t : ~MissingText(t) <=> Present(t)
  BY DEF MissingText, Present, IsNull
<1>5. Complete(Classified(m)) <=>
        /\ Present(e.exchange) /\ Present(e.symbol) /\ Present(e.trade_id)
        /\ Positive(TryCast(e.price)) /\ Positive(TryCast(e.quantity))
        /\ Positive(e.event_time_ms) /\ Positive(e.ingested_at_ms)
        /\ Present(m.kafka_topic)
        /\ m.kafka_partition # Null /\ m.kafka_offset # Null
  BY <1>1 DEF Complete, Classified, Parsed
<1> QED
  BY <1>3, <1>4, <1>5 DEF Errors, IsNull

\* The label is right.
LEMMA LabelIsCompleteness ==
  ASSUME NEW m, Readable(m)
  PROVE  /\ Classified(m).is_valid # Null
         /\ Classified(m).is_valid = <<TRUE>> <=> Complete(Classified(m))
<1>1. CASE Parsed(m)
  BY <1>1, LabelIs, ReadHasNoError
<1>2. CASE ~Parsed(m)
  <2>1. Errors(m) # {}
    BY <1>2, UnreadHasOneError, ErrorCount
  <2> QED
    BY <1>2, <2>1, LabelIs, UnreadHasOneError
<1> QED
  BY <1>1, <1>2

\* Of the errors of one field there is one at most.
LEMMA AtMostOne ==
  ASSUME NEW T, \A x, y \in T : x = y
  PROVE  Cardinality(T) <= 1
<1>1. CASE T = {}
  BY <1>1, FS_EmptySet
<1>2. CASE T # {}
  <2>1. PICK x : T = {x}
    BY <1>2
  <2>2. Cardinality({x}) = 1
    BY ONLY FS_Singleton
  <2> QED
    BY <2>1, <2>2
<1> QED
  BY <1>1, <1>2

\* The errors of a record are of different fields.
LEMMA ErrorsExclude ==
  ASSUME NEW m, NEW group \in Exclusives
  PROVE  Cardinality(group \cap Errors(m)) <= 1
<1> SUFFICES ASSUME NEW x \in group \cap Errors(m), NEW y \in group \cap Errors(m)
             PROVE  x = y
  BY AtMostOne
<1>1. PICK e : e = m.event[1]
  OBVIOUS
<1>2. Parsed(m)
  BY DEF Errors, RawErrors, Exclusives
<1>3. x \in FieldErrors(m) /\ y \in FieldErrors(m)
  BY <1>2 DEF Errors
<1>4. ASSUME NEW t, NEW a, NEW b, NEW c, NEW u \in DecimalErrors(t, a, b, c),
             NEW v \in DecimalErrors(t, a, b, c)
      PROVE  u = v
  BY DEF DecimalErrors, IsNull, TryCast, NonPositive
<1>5. ASSUME NEW t, NEW a, NEW b, NEW u \in TimeErrors(t, a, b),
             NEW v \in TimeErrors(t, a, b)
      PROVE  u = v
  BY DEF TimeErrors, IsNull, NonPositive
<1>6. CASE group = {"MISSING_PRICE", "INVALID_PRICE", "NON_POSITIVE_PRICE"}
  <2>1. ASSUME NEW c \in group, c \in FieldErrors(m)
        PROVE  c \in DecimalErrors(e.price, "MISSING_PRICE", "INVALID_PRICE",
                                   "NON_POSITIVE_PRICE")
    BY <1>1, <1>6, <2>1 DEF FieldErrors, DecimalErrors, TimeErrors
  <2> QED
    BY <1>3, <1>4, <2>1
<1>7. CASE group = {"MISSING_QUANTITY", "INVALID_QUANTITY", "NON_POSITIVE_QUANTITY"}
  <2>1. ASSUME NEW c \in group, c \in FieldErrors(m)
        PROVE  c \in DecimalErrors(e.quantity, "MISSING_QUANTITY", "INVALID_QUANTITY",
                                   "NON_POSITIVE_QUANTITY")
    BY <1>1, <1>7, <2>1 DEF FieldErrors, DecimalErrors, TimeErrors
  <2> QED
    BY <1>3, <1>4, <2>1
<1>8. CASE group = {"MISSING_EVENT_TIME", "NON_POSITIVE_EVENT_TIME"}
  <2>1. ASSUME NEW c \in group, c \in FieldErrors(m)
        PROVE  c \in TimeErrors(e.event_time_ms, "MISSING_EVENT_TIME",
                                "NON_POSITIVE_EVENT_TIME")
    BY <1>1, <1>8, <2>1 DEF FieldErrors, DecimalErrors, TimeErrors
  <2> QED
    BY <1>3, <1>5, <2>1
<1>9. CASE group = {"MISSING_INGESTED_AT", "NON_POSITIVE_INGESTED_AT"}
  <2>1. ASSUME NEW c \in group, c \in FieldErrors(m)
        PROVE  c \in TimeErrors(e.ingested_at_ms, "MISSING_INGESTED_AT",
                                "NON_POSITIVE_INGESTED_AT")
    BY <1>1, <1>9, <2>1 DEF FieldErrors, DecimalErrors, TimeErrors
  <2> QED
    BY <1>3, <1>5, <2>1
<1> QED
  BY <1>6, <1>7, <1>8, <1>9 DEF Exclusives

-----------------------------------------------------------------------------
(* Decimals                                                                *)

\* Division rounds down.
LEMMA Division ==
  ASSUME NEW y \in Int, NEW d \in Nat \ {0}
  PROVE  y \div d \in Int /\ d * (y \div d) <= y /\ y < d * (y \div d) + d
OBVIOUS

\* Multiplying by a number that is not negative keeps the order.
LEMMA Monotone ==
  ASSUME NEW d \in Nat, NEW a \in Int, NEW b \in Int, a <= b
  PROVE  d * a <= d * b /\ a * d <= b * d
OBVIOUS

\* The decimal constants are numbers, and the units are positive.
LEMMA Units ==
  /\ One \in Nat \ {0} /\ Lost \in Nat \ {0}
  /\ DecimalLimit \in Nat /\ MillisLimit \in Nat
  /\ One * Lost \in Nat \ {0}
BY SilverAssumption DEF SilverAssumption

\* HALF_UP is nearest.
LEMMA RoundedNearest ==
  ASSUME NEW x \in Int
  PROVE  Rounded(x) \in Int /\ 2 * Distance(Rounded(x) * One, x) <= One * Lost
<1>1. PICK d \in Nat \ {0} : d = One * Lost
  BY Units
<1>2. PICK h \in Nat : h = d \div 2 /\ 2 * h <= d /\ d <= 2 * h + 1
  OBVIOUS
<1>3. PICK q \in Int : q = (x + h) \div d /\ d * q <= x + h /\ x + h < d * q + d
  <2>1. x + h \in Int
    OBVIOUS
  <2> QED
    BY <2>1, Division
<1>4. Rounded(x) = q * Lost
  BY <1>1, <1>2, <1>3 DEF Rounded
<1>5. (q * Lost) * One = d * q /\ q * Lost \in Int
  BY <1>1, Units
<1>6. PICK p \in Int : p = d * q
  OBVIOUS
<1>7. 2 * Distance(p, x) <= d
  BY <1>2, <1>3, <1>6 DEF Distance
<1> QED
  BY <1>1, <1>4, <1>5, <1>6, <1>7

\* A product nearer to the limit than to any value below it is rounded to it.
LEMMA RoundedReaches ==
  ASSUME NEW x \in Int, 2 * x + One * Lost >= 2 * DecimalLimit * One
  PROVE  Rounded(x) >= DecimalLimit
<1>1. PICK d \in Nat \ {0} : d = One * Lost
  BY Units
<1>2. PICK h \in Nat : h = d \div 2 /\ 2 * h <= d /\ d <= 2 * h + 1
  OBVIOUS
<1>3. PICK q \in Int : q = (x + h) \div d /\ d * q <= x + h /\ x + h < d * q + d
  <2>1. x + h \in Int
    OBVIOUS
  <2> QED
    BY <2>1, Division
<1>4. Rounded(x) = q * Lost
  BY <1>1, <1>2, <1>3 DEF Rounded
<1>5. PICK l \in Int : DecimalLimit = l * Lost
  <2>1. PICK n \in Nat, k \in Nat \ {0} : n = DecimalLimit /\ k = Lost
    BY Units
  <2>2. n % k = 0
    BY <2>1, SilverAssumption DEF SilverAssumption
  <2>3. PICK l \in Int : l = n \div k
    <3>1. n \in Int
      OBVIOUS
    <3> QED
      BY <3>1, Division
  <2>4. n = l * k
    BY <2>2, <2>3
  <2> QED
    BY <2>1, <2>4
<1>6. PICK w \in Int : w = d * l /\ 2 * DecimalLimit * One = 2 * w
  <2>1. DecimalLimit * One = d * l
    BY <1>1, <1>5, Units
  <2>2. 2 * DecimalLimit * One = 2 * (DecimalLimit * One)
    BY Units
  <2> QED
    BY <2>1, <2>2
<1>7. w <= x + h
  <2>1. 2 * x + d >= 2 * w
    BY <1>1, <1>6
  <2> QED
    BY <1>2, <2>1
<1>8. ~ (q + 1 <= l)
  <2> SUFFICES ASSUME q + 1 <= l PROVE FALSE
    OBVIOUS
  <2>1. d * (q + 1) <= w
    BY <1>6, Monotone
  <2>2. d * (q + 1) = d * q + d
    OBVIOUS
  <2> QED
    BY <1>3, <1>7, <2>1, <2>2
<1>9. l * Lost <= q * Lost
  <2>1. PICK k \in Nat : k = Lost
    BY Units
  <2> QED
    BY <1>8, <2>1
<1> QED
  BY <1>4, <1>5, <1>9

-----------------------------------------------------------------------------
(* Rows                                                                    *)

\* What a row that is selected has.
LEMMA SelectedRow ==
  ASSUME NEW row, Origin(row)
  PROVE  /\ row.is_valid # Null => (Selected(row) <=> Complete(row))
         /\ Selected(row) <=> row.is_valid # Null /\ Complete(row)
         /\ Selected(row) => /\ row.price[1] \in Int /\ row.quantity[1] \in Int
                             /\ row.event_time_ms[1] \in Int /\ row.ingested_at_ms[1] \in Int
<1>1. CASE row.is_valid = Null
  <2>1. Null # <<TRUE>>
    BY DEF Null
  <2> QED
    BY <1>1, <2>1 DEF Selected
<1>2. CASE row.is_valid # Null
  <2>1. PICK m \in Messages : row = Classified(m)
    BY <1>2 DEF Origin, IsNull
  <2>2. Readable(m)
    BY SilverAssumption DEF SilverAssumption
  <2>3. Selected(row) <=> Complete(row)
    BY <2>1, <2>2, LabelIsCompleteness DEF Selected
  <2>4. ASSUME Complete(row)
        PROVE  /\ row.price[1] \in Int /\ row.quantity[1] \in Int
               /\ row.event_time_ms[1] \in Int /\ row.ingested_at_ms[1] \in Int
    <3>1. m.event # Null
      <4>1. Parsed(m)
        BY <2>1, <2>2, <2>4, UnreadHasOneError
      <4> QED
        BY <4>1 DEF Parsed, IsNull
    <3>2. PICK e : e = m.event[1]
      OBVIOUS
    <3>3. /\ Number(TryCast(e.price)) /\ Number(TryCast(e.quantity))
          /\ Number(e.event_time_ms) /\ Number(e.ingested_at_ms)
      BY <2>2, <3>1, <3>2 DEF Readable, IsNull
    <3>4. /\ row.price = TryCast(e.price) /\ row.quantity = TryCast(e.quantity)
          /\ row.event_time_ms = e.event_time_ms /\ row.ingested_at_ms = e.ingested_at_ms
      BY <2>1, <3>1, <3>2 DEF Classified, IsNull
    <3>5. /\ Positive(row.price) /\ Positive(row.quantity)
          /\ Positive(row.event_time_ms) /\ Positive(row.ingested_at_ms)
      BY <2>4 DEF Complete
    <3> QED
      BY <3>3, <3>4, <3>5 DEF Number, Positive, IsNull
  <2> QED
    BY <1>2, <2>3, <2>4
<1> QED
  BY <1>1, <1>2

\* The Silver row of a complete row has no NULL.
LEMMA SilverRowIsServable ==
  ASSUME NEW row, Origin(row), Selected(row)
  PROVE  \A c \in SilverColumns : SilverRow(row)[c] # Null
<1>1. Complete(row)
  BY SelectedRow
<1>2. /\ row.exchange # Null /\ row.symbol # Null /\ row.trade_id # Null
      /\ row.price # Null /\ row.quantity # Null
      /\ row.event_time_ms # Null /\ row.ingested_at_ms # Null
      /\ row.kafka_topic # Null /\ row.kafka_partition # Null /\ row.kafka_offset # Null
  BY <1>1 DEF Complete, Present, Positive
<1>3. \A x : <<x>> # Null
  BY DEF Null
<1>4. Notional(row) # Null
  BY <1>2, <1>3 DEF Notional, IsNull
<1>5. SilverRow(row).latency_ms # Null
  BY <1>2, <1>3 DEF SilverRow, IsNull
<1> QED
  BY <1>2, <1>4, <1>5 DEF SilverRow, SilverColumns

\* The notional of a row that does not raise is the nearest value, and fits.
LEMMA SilverRowIsNearest ==
  ASSUME NEW row, Origin(row), Selected(row), ~Raises(row)
  PROVE  LET r == SilverRow(row) IN
         /\ 2 * Distance(r.notional[1] * One, r.price[1] * r.quantity[1]) <= One * Lost
         /\ r.notional[1] < DecimalLimit
<1>1. Complete(row) /\ row.price # Null /\ row.quantity # Null
  BY SelectedRow DEF Complete, Positive
<1>2. PICK x \in Int : x = row.price[1] * row.quantity[1]
  BY SelectedRow
<1>3. Notional(row) = <<Rounded(x)>>
  BY <1>1, <1>2 DEF Notional, IsNull
<1>4. PICK n \in Int : n = Rounded(x) /\ 2 * Distance(n * One, x) <= One * Lost
  BY RoundedNearest
<1>5. Notional(row)[1] = n /\ ~IsNull(Notional(row))
  BY <1>3, <1>4 DEF IsNull, Null
<1>6. n < DecimalLimit
  BY <1>5, Units DEF Raises
<1>7. /\ SilverRow(row).notional = Notional(row) /\ SilverRow(row).price = row.price
      /\ SilverRow(row).quantity = row.quantity
  BY DEF SilverRow
<1> QED
  BY <1>2, <1>4, <1>5, <1>6, <1>7

\* A row Silver cannot represent raises.
LEMMA UnrepresentableRaises ==
  ASSUME NEW row, Origin(row), Selected(row), Unrepresentable(row)
  PROVE  Raises(row)
<1>1. /\ Complete(row) /\ row.price # Null /\ row.quantity # Null
      /\ row.event_time_ms # Null /\ row.ingested_at_ms # Null
  BY SelectedRow DEF Complete, Positive
<1>2. CASE row.event_time_ms[1] > MillisLimit \/ row.ingested_at_ms[1] > MillisLimit
  BY <1>1, <1>2 DEF Raises, IsNull
<1>3. CASE 2 * row.price[1] * row.quantity[1] + One * Lost >= 2 * DecimalLimit * One
  <2>1. PICK a \in Int, b \in Int : a = row.price[1] /\ b = row.quantity[1]
    BY SelectedRow
  <2>2. PICK x \in Int : x = a * b /\ 2 * a * b = 2 * x
    OBVIOUS
  <2>3. Rounded(x) >= DecimalLimit
    BY <1>3, <2>1, <2>2, RoundedReaches
  <2>4. Notional(row) = <<Rounded(x)>>
    BY <1>1, <2>1, <2>2 DEF Notional, IsNull
  <2>5. Notional(row)[1] = Rounded(x) /\ ~IsNull(Notional(row))
    BY <2>4 DEF IsNull, Null
  <2> QED
    BY <2>3, <2>5 DEF Raises
<1> QED
  BY <1>2, <1>3 DEF Unrepresentable

-----------------------------------------------------------------------------
(* Builds                                                                  *)

\* A build depends on the rows it selects from, and on no others.
LEMMA SameRows ==
  ASSUME NEW n \in Nat, \A i \in 1 .. n : bronze'[i] = bronze[i]
  PROVE  /\ Transformed(n)' = Transformed(n)
         /\ Representable(n)' <=> Representable(n)
<1>1. SelectedIn(n)' = SelectedIn(n)
  BY DEF SelectedIn
<1>2. [i \in 1 .. n |-> SilverRow(bronze[i])]' = [i \in 1 .. n |-> SilverRow(bronze[i])]
  OBVIOUS
<1>3. Transformed(n)' = Transformed(n)
  BY <1>1, <1>2 DEF Transformed
<1>4. Representable(n)' <=> Representable(n)
  BY <1>1 DEF Representable, SelectedIn
<1> QED
  BY <1>3, <1>4

-----------------------------------------------------------------------------
(* Sequences                                                               *)

\* A prefix stays what it is when a row is appended.
LEMMA PrefixStays ==
  ASSUME NEW S, NEW s \in Seq(S), NEW x, NEW n \in Nat, n <= Len(s)
  PROVE  /\ Append(s, x) \in Seq(S \cup {x})
         /\ Len(Append(s, x)) = Len(s) + 1
         /\ \A i \in 1 .. n : Append(s, x)[i] = s[i]
<1>1. s \in Seq(S \cup {x}) /\ x \in S \cup {x}
  OBVIOUS
<1>2. PICK t : t = Append(s, x)
  OBVIOUS
<1>3. /\ t \in Seq(S \cup {x}) /\ Len(t) = Len(s) + 1
      /\ \A i \in 1 .. Len(s) : t[i] = s[i]
  BY <1>1, <1>2
<1>4. \A i \in 1 .. n : i \in 1 .. Len(s)
  OBVIOUS
<1> QED
  BY <1>2, <1>3, <1>4

\* What the shape says of the elements.
LEMMA Elements ==
  ASSUME Shape
  PROVE  /\ Len(bronze) \in Nat
         /\ Len(silvers) \in Nat /\ DOMAIN silvers = 1 .. Len(silvers)
         /\ \A k \in DOMAIN silvers : silvers[k].upTo \in Nat
         /\ \A p \in Builders : run[p].upTo \in Nat /\ run[p].pc \in Phases
<1>1. PICK B : bronze \in Seq(B)
  BY DEF Shape
<1>2. PICK S : silvers \in Seq([upTo : Nat, rows : S])
  BY DEF Shape
<1>3. PICK C : run \in [Builders -> Commands(C)]
  BY DEF Shape
<1>4. Len(silvers) \in Nat /\ DOMAIN silvers = 1 .. Len(silvers)
  BY <1>2
<1>5. ASSUME NEW k \in DOMAIN silvers PROVE silvers[k].upTo \in Nat
  <2>1. PICK R : R = [upTo : Nat, rows : S] /\ silvers \in Seq(R)
    BY <1>2
  <2>2. silvers[k] \in R
    <3>1. PICK t \in Seq(R) : t = silvers
      BY <2>1
    <3>2. k \in 1 .. Len(t)
      BY <1>4, <3>1
    <3> QED
      BY <3>1, <3>2, ElementOfSeq
  <2> QED
    BY <2>1, <2>2
<1>6. \A p \in Builders : run[p].upTo \in Nat /\ run[p].pc \in Phases
  BY <1>3 DEF Commands
<1>7. Len(bronze) \in Nat
  BY <1>1
<1> QED
  BY <1>4, <1>5, <1>6, <1>7

-----------------------------------------------------------------------------
(* Steps that leave the rebuilds alone                                     *)

\* A row appended to Bronze is in no prefix that was read before.
LEMMA AppendRowSafe ==
  ASSUME PipelineInv, AppendRow, UNCHANGED <<served, visible>>
  PROVE  PipelineInv'
<1>1. PICK x : bronze' = Append(bronze, x)
  BY DEF AppendRow
<1>2. UNCHANGED <<silvers, run, overlapped>>
  BY DEF AppendRow
<1>3. PICK B : bronze \in Seq(B)
  BY DEF PipelineInv, Shape
<1>4. PICK b \in Seq(B) : b = bronze
  BY <1>3
<1>5. /\ bronze' \in Seq(B \cup {x}) /\ Len(bronze') = Len(bronze) + 1
      /\ \A n \in Nat : n <= Len(bronze) => \A i \in 1 .. n : bronze'[i] = bronze[i]
  <2>1. /\ Append(b, x) \in Seq(B \cup {x}) /\ Len(Append(b, x)) = Len(b) + 1
        /\ \A n \in Nat : n <= Len(b) => \A i \in 1 .. n : Append(b, x)[i] = b[i]
    <3>1. 0 \in Nat /\ 0 <= Len(b)
      BY <1>4
    <3> QED
      BY <3>1, PrefixStays
  <2> QED
    BY <1>1, <1>4, <2>1
<1>6. ASSUME NEW n \in Nat, n <= Len(bronze) PROVE Transformed(n)' = Transformed(n)
  BY <1>5, <1>6, SameRows
<1>7. Shape'
  BY <1>2, <1>5 DEF PipelineInv, Shape
<1>8. Built'
  <2>1. \A k \in DOMAIN silvers : silvers[k].upTo <= Len(bronze')
    BY <1>5, Elements DEF PipelineInv, Built
  <2>2. \A p \in Builders : run[p].upTo <= Len(bronze')
    BY <1>5, Elements DEF PipelineInv, Built
  <2>3. \A k \in DOMAIN silvers : silvers[k].rows = Transformed(silvers[k].upTo)'
    <3> SUFFICES ASSUME NEW k \in DOMAIN silvers
                 PROVE  silvers[k].rows = Transformed(silvers[k].upTo)'
      OBVIOUS
    <3>1. PICK n \in Nat : n = silvers[k].upTo
      BY Elements DEF PipelineInv
    <3>2. n <= Len(bronze) /\ silvers[k].rows = Transformed(n)
      BY <3>1 DEF PipelineInv, Built
    <3>3. silvers'[k].upTo = n
      BY <1>2, <3>1
    <3> QED
      BY <1>2, <1>6, <3>1, <3>2, <3>3
  <2> QED
    BY <1>2, <2>1, <2>2, <2>3 DEF PipelineInv, Built
<1>9. Ordered'
  BY <1>2 DEF PipelineInv, Ordered
<1> QED
  BY <1>7, <1>8, <1>9 DEF PipelineInv

\* A refresh moves the reader to a snapshot that is there.
LEMMA PublishSafe ==
  ASSUME PipelineInv, Publish
  PROVE  PipelineInv'
<1>1. PICK s \in 1 .. Len(silvers) : served' = s /\ visible' = silvers[s]
  BY DEF Publish, Serving!Publish
<1>2. UNCHANGED <<bronze, silvers, run, overlapped>>
  BY DEF Publish, vars
<1>3. Built'
  <2>1. s # 0 /\ s \in 0 .. Len(silvers)
    BY Elements DEF PipelineInv
  <2> QED
    BY <1>1, <1>2, <2>1 DEF PipelineInv, Built, Transformed, SelectedIn
<1> QED
  BY <1>2, <1>3 DEF PipelineInv, Shape, Ordered

-----------------------------------------------------------------------------
(* The rebuilds                                                            *)

\* A step of one command that commits nothing.
LEMMA QuietStep ==
  ASSUME PipelineInv, NEW p \in Builders, NEW C, NEW r, r \in Commands(C),
         run' = [run EXCEPT ![p] = r],
         UNCHANGED <<bronze, silvers, served, visible>>, overlapped' \in BOOLEAN,
         r.upTo <= Len(bronze),
         ~overlapped' =>
            /\ ~overlapped
            /\ r.pc \notin Idle => \A q \in Builders \ {p} : run[q].pc \in Idle
            /\ r.pc = "write" => \A k \in DOMAIN silvers : silvers[k].upTo <= r.upTo
  PROVE  PipelineInv'
<1>1. PICK D : run \in [Builders -> Commands(D)]
  BY DEF PipelineInv, Shape
<1>2. run'[p] = r /\ \A q \in Builders \ {p} : run'[q] = run[q]
  BY <1>1
<1>3. run' \in [Builders -> Commands(C \cup D)]
  BY <1>1 DEF Commands
<1>4. Shape'
  BY <1>3 DEF PipelineInv, Shape
<1>5. Built'
  BY <1>2 DEF PipelineInv, Built, Transformed, SelectedIn
<1>6. Ordered'
  BY <1>2 DEF PipelineInv, Ordered
<1> QED
  BY <1>4, <1>5, <1>6 DEF PipelineInv

\* A step that moves one command on, or ends it with an error.
LEMMA MovesQuietly ==
  ASSUME PipelineInv, NEW p \in Builders, NEW to \in Phases \ {"write"}, NEW e \in Failures,
         run[p].pc \notin Idle,
         \/ run' = [run EXCEPT ![p].pc = to]
         \/ run' = [run EXCEPT ![p].pc = to, ![p].error = e],
         UNCHANGED <<bronze, silvers, served, visible, overlapped>>
  PROVE  PipelineInv'
<1>1. PICK D : run \in [Builders -> Commands(D)]
  BY DEF PipelineInv, Shape
<1>2. PICK c \in Commands(D) : c = run[p]
  BY <1>1
<1>3. PICK r \in Commands(D) : /\ run' = [run EXCEPT ![p] = r]
                               /\ r.pc = to /\ r.upTo = c.upTo
  <2>1. CASE run' = [run EXCEPT ![p].pc = to]
    <3>1. [c EXCEPT !.pc = to] \in Commands(D)
      BY DEF Commands
    <3>2. run' = [run EXCEPT ![p] = [c EXCEPT !.pc = to]]
      BY <1>1, <1>2, <2>1
    <3> QED
      BY <3>1, <3>2 DEF Commands
  <2>2. CASE run' = [run EXCEPT ![p].pc = to, ![p].error = e]
    <3>1. [c EXCEPT !.pc = to, !.error = e] \in Commands(D)
      BY DEF Commands
    <3>2. run' = [run EXCEPT ![p] = [c EXCEPT !.pc = to, !.error = e]]
      BY <1>1, <1>2, <2>2
    <3> QED
      BY <3>1, <3>2 DEF Commands
  <2> QED
    BY <2>1, <2>2
<1>4. r.upTo <= Len(bronze)
  BY <1>2, <1>3 DEF PipelineInv, Built
<1>5. ~overlapped => \A q \in Builders \ {p} : run[q].pc \in Idle
  BY DEF PipelineInv, Ordered
<1>6. overlapped' \in BOOLEAN
  BY DEF PipelineInv, Shape
<1> QED
  BY <1>3, <1>4, <1>5, <1>6, QuietStep

\* A new rebuild: from now on no other may run, or they overlap.
LEMMA StartSafe ==
  ASSUME PipelineInv, NEW p \in Builders, Start(p), UNCHANGED <<served, visible>>
  PROVE  PipelineInv'
<1>1. PICK r \in {[Fresh EXCEPT !.pc = "inspect"],
                  [Fresh EXCEPT !.pc = "ended", !.error = "session"]} :
        run' = [run EXCEPT ![p] = r]
  BY DEF Start
<1>2. r \in Commands({0}) /\ r.upTo = 0 /\ r.pc # "write"
  <2>1. CASE r = [Fresh EXCEPT !.pc = "inspect"]
    <3>1. r = [pc |-> "inspect", upTo |-> 0, count |-> 0, error |-> "none"]
      BY <2>1 DEF Fresh
    <3> QED
      BY <3>1 DEF Commands, Phases, Failures
  <2>2. CASE r = [Fresh EXCEPT !.pc = "ended", !.error = "session"]
    <3>1. r = [pc |-> "ended", upTo |-> 0, count |-> 0, error |-> "session"]
      BY <2>2 DEF Fresh
    <3> QED
      BY <3>1 DEF Commands, Phases, Failures, Idle
  <2> QED
    BY <1>1, <2>1, <2>2
<1>3. UNCHANGED <<bronze, silvers>>
  BY DEF Start
<1>4. /\ overlapped' \in BOOLEAN
      /\ ~overlapped' => ~overlapped /\ \A q \in Builders : run[q].pc \in Idle
  BY DEF Start, PipelineInv, Shape
<1>5. r.upTo <= Len(bronze)
  BY <1>2, Elements DEF PipelineInv
<1> QED
  BY <1>1, <1>2, <1>3, <1>4, <1>5, QuietStep

\* The newest Bronze snapshot is read: none before it is newer.
LEMMA ReadSafe ==
  ASSUME PipelineInv, NEW p \in Builders, run[p].pc = "read",
         run' = [run EXCEPT ![p].pc = "write", ![p].upTo = Len(bronze)],
         UNCHANGED <<bronze, silvers, served, visible, overlapped>>
  PROVE  PipelineInv'
<1>1. PICK D : run \in [Builders -> Commands(D)]
  BY DEF PipelineInv, Shape
<1>2. PICK c \in Commands(D) : c = run[p]
  BY <1>1
<1>3. PICK n \in Nat : n = Len(bronze)
  BY Elements DEF PipelineInv
<1>4. PICK r : r = [c EXCEPT !.pc = "write", !.upTo = n]
  OBVIOUS
<1>5. r \in Commands(D) /\ r.upTo = n /\ r.pc = "write"
  BY <1>4 DEF Commands, Phases, Failures
<1>6. run' = [run EXCEPT ![p] = r]
  BY <1>1, <1>2, <1>3, <1>4
<1>7. ~overlapped => \A q \in Builders \ {p} : run[q].pc \in Idle
  BY DEF PipelineInv, Ordered, Idle
<1>8. \A k \in DOMAIN silvers : silvers[k].upTo <= r.upTo
  BY <1>3, <1>5 DEF PipelineInv, Built
<1>9. r.upTo <= Len(bronze) /\ overlapped' \in BOOLEAN
  BY <1>3, <1>5 DEF PipelineInv, Shape
<1> QED
  BY <1>5, <1>6, <1>7, <1>8, <1>9, QuietStep

\* The count is stored.
LEMMA CountSafe ==
  ASSUME PipelineInv, NEW p \in Builders, run[p].pc = "count",
         NEW n, run' = [run EXCEPT ![p].pc = "stop", ![p].count = n],
         UNCHANGED <<bronze, silvers, served, visible, overlapped>>
  PROVE  PipelineInv'
<1>1. PICK D : run \in [Builders -> Commands(D)]
  BY DEF PipelineInv, Shape
<1>2. PICK c \in Commands(D) : c = run[p]
  BY <1>1
<1>3. PICK r : r = [c EXCEPT !.pc = "stop", !.count = n]
  OBVIOUS
<1>4. r \in Commands(D \cup {n}) /\ r.upTo = c.upTo /\ r.pc = "stop"
  BY <1>3 DEF Commands, Phases, Failures
<1>5. run' = [run EXCEPT ![p] = r]
  BY <1>1, <1>2, <1>3
<1>6. ~overlapped => \A q \in Builders \ {p} : run[q].pc \in Idle
  BY DEF PipelineInv, Ordered, Idle
<1>7. r.upTo <= Len(bronze) /\ overlapped' \in BOOLEAN
  BY <1>2, <1>4 DEF PipelineInv, Shape, Built
<1> QED
  BY <1>4, <1>5, <1>6, <1>7, QuietStep

\* A commit: the new snapshot is of a prefix of Bronze, and not older than the
\* last one unless rebuilds overlapped.
LEMMA CommitSafe ==
  ASSUME PipelineInv, NEW p \in Builders, run[p].pc = "write",
         \/ run' = [run EXCEPT ![p].pc = "count"]
         \/ run' = [run EXCEPT ![p].pc = "stop", ![p].error = "write"],
         silvers' = Append(silvers, [upTo |-> run[p].upTo,
                                     rows |-> Transformed(run[p].upTo)]),
         UNCHANGED <<bronze, served, visible, overlapped>>
  PROVE  PipelineInv'
<1>1. PICK D : run \in [Builders -> Commands(D)]
  BY DEF PipelineInv, Shape
<1>2. PICK c \in Commands(D) : c = run[p]
  BY <1>1
<1>3. PICK r \in Commands(D) : /\ run' = [run EXCEPT ![p] = r]
                               /\ r.pc \in {"count", "stop"} /\ r.upTo = c.upTo
  <2>1. CASE run' = [run EXCEPT ![p].pc = "count"]
    <3>1. [c EXCEPT !.pc = "count"] \in Commands(D)
      BY DEF Commands, Phases, Failures
    <3>2. run' = [run EXCEPT ![p] = [c EXCEPT !.pc = "count"]]
      BY <1>1, <1>2, <2>1
    <3> QED
      BY <3>1, <3>2 DEF Commands
  <2>2. CASE run' = [run EXCEPT ![p].pc = "stop", ![p].error = "write"]
    <3>1. [c EXCEPT !.pc = "stop", !.error = "write"] \in Commands(D)
      BY DEF Commands, Phases, Failures
    <3>2. run' = [run EXCEPT ![p] = [c EXCEPT !.pc = "stop", !.error = "write"]]
      BY <1>1, <1>2, <2>2
    <3> QED
      BY <3>1, <3>2 DEF Commands
  <2> QED
    BY <2>1, <2>2
<1>4. /\ run' \in [Builders -> Commands(D)]
      /\ run'[p] = r /\ \A q \in Builders \ {p} : run'[q] = run[q]
  BY <1>1, <1>3
<1>5. PICK S : silvers \in Seq([upTo : Nat, rows : S])
  BY DEF PipelineInv, Shape
<1>6. PICK n \in Nat : n = run[p].upTo /\ n = r.upTo
  BY <1>2, <1>3 DEF Commands
<1>7. PICK x \in [upTo : Nat, rows : S \cup {Transformed(n)}] :
        x = [upTo |-> n, rows |-> Transformed(n)]
  OBVIOUS
<1>8. PICK m \in Nat : m = Len(silvers) /\ DOMAIN silvers = 1 .. m
  BY Elements DEF PipelineInv
<1>9. /\ silvers' \in Seq([upTo : Nat, rows : S \cup {Transformed(n)}])
      /\ Len(silvers') = m + 1 /\ DOMAIN silvers' = 1 .. m + 1
      /\ silvers'[m + 1] = x
      /\ \A k \in 1 .. m : silvers'[k] = silvers[k]
  <2>1. silvers \in Seq([upTo : Nat, rows : S \cup {Transformed(n)}])
    <3>1. PICK Q : Q = [upTo : Nat, rows : S] /\ silvers \in Seq(Q)
      BY <1>5
    <3>2. PICK R : R = [upTo : Nat, rows : S \cup {Transformed(n)}]
      OBVIOUS
    <3>3. Q \subseteq R
      BY <3>1, <3>2
    <3>4. PICK t \in Seq(Q) : t = silvers
      BY <3>1
    <3>5. t \in Seq(R)
      BY <3>3, SeqMonotonic
    <3> QED
      BY <3>2, <3>4, <3>5
  <2>2. silvers' = Append(silvers, x)
    BY <1>6, <1>7
  <2> QED
    BY <1>8, <2>1, <2>2
<1>10. Shape'
  BY <1>4, <1>9 DEF PipelineInv, Shape
<1>11. \A k \in 1 .. m + 1 : k \in 1 .. m \/ k = m + 1
  OBVIOUS
<1>12. Built'
  <2>1. n <= Len(bronze)
    BY <1>6 DEF PipelineInv, Built
  <2>2. \A k \in 1 .. m + 1 : silvers'[k].upTo <= Len(bronze)
    BY <1>7, <1>8, <1>9, <1>11, <2>1 DEF PipelineInv, Built
  <2>3. \A k \in 1 .. m + 1 : silvers'[k].rows = Transformed(silvers'[k].upTo)
    BY <1>7, <1>8, <1>9, <1>11 DEF PipelineInv, Built
  <2>4. \A q \in Builders : run'[q].upTo <= Len(bronze)
    BY <1>4, <1>6, <2>1 DEF PipelineInv, Built
  <2>5. served \in 0 .. m + 1 /\ visible = IF served = 0 THEN NoSnapshot ELSE silvers'[served]
    <3>1. served \in 0 .. m /\ visible = IF served = 0 THEN NoSnapshot ELSE silvers[served]
      BY <1>8 DEF PipelineInv, Built
    <3>2. served = 0 \/ served \in 1 .. m
      BY <3>1
    <3> QED
      BY <1>9, <3>1, <3>2
  <2> QED
    <3>1. Len(silvers') = m + 1 /\ DOMAIN silvers' = 1 .. m + 1
      BY <1>9
    <3>2. UNCHANGED <<bronze, served, visible>>
      OBVIOUS
    <3>3. \A k : Transformed(k)' = Transformed(k)
      BY <3>2 DEF Transformed, SelectedIn
    <3>4. \A k \in DOMAIN silvers' : /\ silvers'[k].upTo <= Len(bronze')
                                    /\ (silvers[k].rows = Transformed(silvers[k].upTo))'
      BY <2>2, <2>3, <3>1, <3>2, <3>3
    <3>5. \A q \in Builders : run'[q].upTo <= Len(bronze')
      BY <2>4, <3>2
    <3>6. /\ served' \in 0 .. Len(silvers')
          /\ visible' = IF served' = 0 THEN NoSnapshot ELSE silvers'[served']
      BY <2>5, <3>1, <3>2
    <3> QED
      BY <3>4, <3>5, <3>6 DEF Built, NoSnapshot
<1>13. Ordered'
  <2> SUFFICES ASSUME ~overlapped PROVE Ordered'
    BY DEF Ordered
  <2>1. \A q \in Builders \ {p} : run'[q].pc \in Idle
    BY <1>4 DEF PipelineInv, Ordered, Idle
  <2>2. \A k \in 1 .. m : silvers[k].upTo <= n
    BY ONLY PipelineInv, ~overlapped, run[p].pc = "write", <1>6, <1>8
       DEF PipelineInv, Ordered
  <2>3. ASSUME NEW j \in 1 .. m + 1, NEW k \in 1 .. m + 1, j <= k
        PROVE  silvers'[j].upTo <= silvers'[k].upTo
    <3>1. CASE k \in 1 .. m
      <4>1. j \in 1 .. m
        BY <2>3, <3>1
      <4> QED
        BY <1>8, <1>9, <2>3, <3>1, <4>1 DEF PipelineInv, Ordered
    <3>2. CASE k = m + 1
      BY <1>7, <1>9, <1>11, <2>2, <3>2
    <3> QED
      BY <1>11, <3>1, <3>2
  <2>4. run'[p].pc \in {"count", "stop"}
    BY <1>3, <1>4
  <2> QED
    BY <1>9, <2>1, <2>3, <2>4 DEF Ordered, Idle
<1> QED
  BY <1>10, <1>12, <1>13 DEF PipelineInv

\* Every step of a rebuild keeps the invariant.
LEMMA RebuildSafe ==
  ASSUME PipelineInv, NEW p \in Builders, Step(p) \/ Kill(p), UNCHANGED <<served, visible>>
  PROVE  PipelineInv'
<1>1. /\ {"inspect", "read", "count", "stop", "ended", "killed"} \subseteq Phases \ {"write"}
      /\ {"none", "inspect", "read", "write", "count", "cleanup"} \subseteq Failures
  BY DEF Phases, Idle, Failures
<1>2. CASE Inspect(p)
  BY <1>1, <1>2, MovesQuietly DEF Inspect, Raise, Idle
<1>3. CASE Read(p)
  BY <1>1, <1>3, MovesQuietly, ReadSafe DEF Read, Raise, Idle
<1>4. CASE Write(p)
  BY <1>1, <1>4, MovesQuietly, CommitSafe DEF Write, Raise, Idle
<1>5. CASE Count(p)
  BY <1>1, <1>5, MovesQuietly, CountSafe DEF Count, Raise, Idle
<1>6. CASE Stop(p)
  <2>1. run[p].pc \notin Idle /\ UNCHANGED <<bronze, silvers, overlapped>>
    BY <1>6 DEF Stop, Idle
  <2>2. PICK e \in Failures : \/ run' = [run EXCEPT ![p].pc = "ended"]
                            \/ run' = [run EXCEPT ![p].pc = "ended", ![p].error = e]
    <3>1. PICK D : run \in [Builders -> Commands(D)]
      BY DEF PipelineInv, Shape
    <3>2. PICK c \in Commands(D) : c = run[p]
      BY <3>1
    <3>3. PICK e \in Failures : e = IF c.error = "none" THEN "cleanup" ELSE c.error
      BY DEF Commands, Failures
    <3> QED
      BY <1>6, <3>1, <3>2, <3>3 DEF Stop
  <2> QED
    BY <1>1, <2>1, <2>2, MovesQuietly
<1>7. CASE Kill(p)
  BY <1>1, <1>7, MovesQuietly DEF Kill
<1> QED
  BY <1>2, <1>3, <1>4, <1>5, <1>6, <1>7 DEF Step

-----------------------------------------------------------------------------
(* Theorems                                                                *)

\* Every step of the pipeline keeps the invariant.
LEMMA PipelineStep ==
  ASSUME PipelineInv, [PipelineNext]_pipelineVars
  PROVE  PipelineInv'
<1>1. CASE UNCHANGED pipelineVars
  BY <1>1 DEF pipelineVars, vars, PipelineInv, Shape, Built, Ordered, Transformed, SelectedIn
<1>2. CASE Migrate /\ UNCHANGED <<served, visible>>
  BY <1>2 DEF Migrate, PipelineInv, Shape, Built, Ordered, Transformed, SelectedIn
<1> QED
  BY <1>1, <1>2, AppendRowSafe, PublishSafe, StartSafe, RebuildSafe DEF PipelineNext, Next

\* The invariant holds before the first record.
LEMMA PipelineStart ==
  ASSUME PipelineInit
  PROVE  PipelineInv
<1>1. PICK B : bronze \in Seq(B)
  BY SilverAssumption DEF SilverAssumption, PipelineInit, Init
<1>2. /\ silvers = <<>> /\ ~overlapped /\ overlapped \in BOOLEAN
      /\ run = [p \in Builders |-> Fresh] /\ served = 0 /\ visible = NoSnapshot
  BY DEF PipelineInit, Init, Serving!Init
<1>3. Fresh \in Commands({0}) /\ Fresh.pc = "idle" /\ Fresh.upTo = 0
  BY DEF Fresh, Commands, Phases, Idle, Failures
<1>4. Len(silvers) = 0 /\ DOMAIN silvers = {} /\ silvers \in Seq([upTo : Nat, rows : {}])
  BY <1>2
<1>5. Shape
  BY <1>1, <1>2, <1>3, <1>4 DEF Shape
<1>6. Built
  BY <1>2, <1>3, <1>4, <1>5, Elements DEF Built
<1>7. Ordered
  BY <1>2, <1>3, <1>4 DEF Ordered, Idle
<1> QED
  BY <1>5, <1>6, <1>7 DEF PipelineInv

\* Snapshots are transformed prefixes of Bronze and a reader sees one of them.
THEOREM PipelineSafe == PipelineSpec => []PipelineInv
<1>1. PipelineInit => PipelineInv
  BY PipelineStart
<1>2. PipelineInv /\ [PipelineNext]_pipelineVars => PipelineInv'
  BY PipelineStep
<1> QED
  BY <1>1, <1>2, PTL DEF PipelineSpec

\* What a reader sees, after the first refresh, is the transformation of some
\* prefix of Bronze as a whole.
ServedIsBuilt ==
    served # 0 => visible.upTo <= Len(bronze) /\ visible.rows = Transformed(visible.upTo)

\* No failed, repeated, overlapping or half-finished rebuild, and no refresh,
\* shows a reader anything but such a transformation.
THEOREM ReadersSeeOneBuild == PipelineSpec => []ServedIsBuilt
<1>1. PipelineInv => ServedIsBuilt
  <2> SUFFICES ASSUME PipelineInv, served # 0
               PROVE  visible.upTo <= Len(bronze) /\ visible.rows = Transformed(visible.upTo)
    BY DEF ServedIsBuilt
  <2>1. served \in DOMAIN silvers /\ visible = silvers[served]
    BY Elements DEF PipelineInv, Built
  <2> QED
    BY <2>1 DEF PipelineInv, Built
<1> QED
  BY <1>1, PipelineSafe, PTL

\* While rebuilds do not overlap, the rows a reader has seen never vanish.
THEOREM ReadersNeverGoBack == PipelineSpec => ServedNeverOlder
<1>1. PipelineInv /\ [PipelineNext]_pipelineVars
        => [~overlapped' => visible'.upTo >= visible.upTo]_pipelineVars
  <2> SUFFICES ASSUME PipelineInv, PipelineNext, ~overlapped'
               PROVE  visible'.upTo >= visible.upTo
    OBVIOUS
  <2>1. visible.upTo \in Nat
    <3>1. served = 0 \/ served \in DOMAIN silvers
      BY Elements DEF PipelineInv, Built
    <3> QED
      BY <3>1, Elements DEF PipelineInv, Built, NoSnapshot
  <2>2. CASE UNCHANGED visible
    BY <2>1, <2>2
  <2>3. CASE Publish
    <3>1. PICK s \in 1 .. Len(silvers) : s >= served /\ visible' = silvers[s]
      BY <2>3 DEF Publish, Serving!Publish
    <3>2. ~overlapped
      BY <2>3 DEF Publish, vars
    <3>3. s \in DOMAIN silvers /\ silvers[s].upTo \in Nat
      BY Elements DEF PipelineInv
    <3>4. CASE served = 0
      BY <3>1, <3>3, <3>4 DEF PipelineInv, Built, NoSnapshot
    <3>5. CASE served # 0
      <4>1. served \in DOMAIN silvers /\ visible = silvers[served] /\ served <= s
        BY <3>1, <3>5, Elements DEF PipelineInv, Built
      <4>2. silvers[served].upTo <= silvers[s].upTo
        BY <3>2, <3>3, <4>1 DEF PipelineInv, Ordered
      <4> QED
        BY <2>1, <3>1, <3>3, <4>1, <4>2
    <3> QED
      BY <3>4, <3>5
  <2> QED
    BY <2>2, <2>3 DEF PipelineNext
<1> QED
  BY <1>1, PipelineSafe, PTL DEF PipelineSpec, ServedNeverOlder

-----------------------------------------------------------------------------
(* What is selected, written and counted                                   *)

\* What changing fields of a command leaves alone.
LEMMA OneCommand ==
  ASSUME PipelineInv, NEW p \in Builders, NEW to, NEW e,
         \/ run' = [run EXCEPT ![p].pc = to] /\ e = run[p].error
         \/ run' = [run EXCEPT ![p].pc = to, ![p].error = e]
  PROVE  /\ run'[p].pc = to /\ run'[p].error = e
         /\ run'[p].upTo = run[p].upTo /\ run'[p].count = run[p].count
         /\ \A q \in Builders \ {p} : run'[q] = run[q]
<1>1. PICK D : run \in [Builders -> Commands(D)]
  BY DEF PipelineInv, Shape
<1>2. PICK c \in Commands(D) : c = run[p]
  BY <1>1
<1>3. \/ run' = [run EXCEPT ![p] = [c EXCEPT !.pc = to]] /\ e = c.error
      \/ run' = [run EXCEPT ![p] = [c EXCEPT !.pc = to, !.error = e]]
  BY <1>1, <1>2
<1> QED
  BY <1>1, <1>2, <1>3 DEF Commands

\* A step of one command that commits nothing.
LEMMA QuietBuild ==
  ASSUME PipelineInv, SilverInv, NEW p \in Builders, UNCHANGED <<bronze, silvers>>,
         \A q \in Builders \ {p} : run'[q] = run[q],
         NEW n \in Nat, n = run'[p].upTo, run'[p].count \in Nat,
         run'[p].pc = "count" \/ Succeeded(p)' => Representable(n),
         ~overlapped' => /\ ~overlapped /\ run'[p].pc # "count"
                         /\ Succeeded(p)' => run'[p].count = Len(Transformed(n))
  PROVE  SilverInv'
<1>1. \A k \in Nat : Transformed(k)' = Transformed(k) /\ (Representable(k)' <=> Representable(k))
  BY SameRows
<1>2. RowsHaveOrigin'
  BY DEF SilverInv, RowsHaveOrigin
<1>3. Written'
  <2>1. \A k \in DOMAIN silvers : Representable(silvers[k].upTo)'
    <3> SUFFICES ASSUME NEW k \in DOMAIN silvers PROVE Representable(silvers[k].upTo)'
      OBVIOUS
    <3>1. PICK u \in Nat : u = silvers[k].upTo /\ Representable(u)
      BY Elements DEF PipelineInv, SilverInv, Written
    <3>2. silvers'[k].upTo = u
      BY <3>1
    <3> QED
      BY <1>1, <3>1, <3>2
  <2>2. ASSUME NEW q \in Builders, run'[q].pc = "count" \/ Succeeded(q)'
        PROVE  Representable(run[q].upTo)'
    <3>1. CASE q = p
      BY <1>1, <2>2, <3>1
    <3>2. CASE q # p
      <4>1. run'[q] = run[q]
        BY <3>2
      <4>2. PICK u \in Nat : u = run[q].upTo /\ Representable(u)
        BY <2>2, <4>1, Elements DEF PipelineInv, SilverInv, Written, Succeeded
      <4> QED
        BY <1>1, <4>1, <4>2
    <3> QED
      BY <3>1, <3>2
  <2> QED
    BY <2>1, <2>2 DEF Written
<1>4. Counted'
  <2>1. \A q \in Builders : run'[q].count \in Nat
    BY DEF SilverInv, Counted
  <2>2. ASSUME ~overlapped', NEW q \in Builders
        PROVE  /\ run'[q].pc = "count"
                    => silvers # <<>> /\ silvers[Len(silvers)].upTo = run'[q].upTo
               /\ Succeeded(q)' => run'[q].count = Len(Transformed(run[q].upTo)')
    <3>1. CASE q = p
      BY <1>1, <2>2, <3>1
    <3>2. CASE q # p
      <4>1. run'[q] = run[q] /\ ~overlapped
        BY <2>2, <3>2
      <4>2. /\ run[q].pc = "count"
                 => silvers # <<>> /\ silvers[Len(silvers)].upTo = run[q].upTo
            /\ Succeeded(q) => run[q].count = Len(Transformed(run[q].upTo))
        BY <4>1 DEF SilverInv, Counted
      <4>3. PICK u \in Nat : u = run[q].upTo
        BY Elements DEF PipelineInv
      <4>4. run'[q].upTo = u /\ Transformed(u)' = Transformed(u)
        BY <1>1, <4>1, <4>3
      <4> QED
        BY <4>1, <4>2, <4>3, <4>4 DEF Succeeded
    <3> QED
      BY <3>1, <3>2
  <2> QED
    BY <2>1, <2>2 DEF Counted
<1> QED
  BY <1>2, <1>3, <1>4 DEF SilverInv

\* A step that moves a command on to where it has not counted, or fails it.
LEMMA MovesBuild ==
  ASSUME PipelineInv, SilverInv, NEW p \in Builders, NEW to, NEW e,
         \/ run' = [run EXCEPT ![p].pc = to] /\ e = run[p].error
         \/ run' = [run EXCEPT ![p].pc = to, ![p].error = e],
         to # "count",
         to \in {"stop", "ended"} /\ e = "none" => Succeeded(p),
         UNCHANGED <<bronze, silvers, overlapped>>
  PROVE  SilverInv'
<1>1. /\ run'[p].pc = to /\ run'[p].error = e
      /\ run'[p].upTo = run[p].upTo /\ run'[p].count = run[p].count
      /\ \A q \in Builders \ {p} : run'[q] = run[q]
  BY OneCommand
<1>2. PICK n \in Nat : n = run[p].upTo
  BY Elements DEF PipelineInv
<1>3. Succeeded(p)' => Succeeded(p)
  BY <1>1 DEF Succeeded
<1>4. run[p].count \in Nat /\ (Succeeded(p) => Representable(n))
  BY <1>2 DEF SilverInv, Counted, Written
<1>5. ~overlapped /\ Succeeded(p) => run[p].count = Len(Transformed(n))
  BY <1>2 DEF SilverInv, Counted
<1> QED
  BY <1>1, <1>2, <1>3, <1>4, <1>5, QuietBuild

\* A new command has written and counted nothing.
LEMMA StartBuild ==
  ASSUME PipelineInv, SilverInv, NEW p \in Builders, Start(p)
  PROVE  SilverInv'
<1>1. PICK D : run \in [Builders -> Commands(D)]
  BY DEF PipelineInv, Shape
<1>2. run'[p].pc = "inspect" \/ (run'[p].pc = "ended" /\ run'[p].error = "session")
  BY <1>1 DEF Start, Fresh
<1>3. run'[p].upTo = 0 /\ run'[p].count = 0 /\ \A q \in Builders \ {p} : run'[q] = run[q]
  BY <1>1 DEF Start, Fresh
<1>4. ~Succeeded(p)' /\ run'[p].pc # "count"
  BY <1>2 DEF Succeeded
<1>5. UNCHANGED <<bronze, silvers>> /\ (~overlapped' => ~overlapped)
  BY DEF Start
<1> QED
  BY <1>3, <1>4, <1>5, QuietBuild

\* The snapshot read is not written yet.
LEMMA ReadBuild ==
  ASSUME PipelineInv, SilverInv, NEW p \in Builders,
         run' = [run EXCEPT ![p].pc = "write", ![p].upTo = Len(bronze)],
         UNCHANGED <<bronze, silvers, overlapped>>
  PROVE  SilverInv'
<1>1. PICK D : run \in [Builders -> Commands(D)]
  BY DEF PipelineInv, Shape
<1>2. PICK n \in Nat : n = Len(bronze)
  BY Elements DEF PipelineInv
<1>3. /\ run'[p].pc = "write" /\ run'[p].upTo = n /\ run'[p].count = run[p].count
      /\ \A q \in Builders \ {p} : run'[q] = run[q]
  <2>1. PICK c \in Commands(D) : c = run[p]
    BY <1>1
  <2>2. run' = [run EXCEPT ![p] = [c EXCEPT !.pc = "write", !.upTo = n]]
    BY <1>1, <1>2, <2>1
  <2> QED
    BY <1>1, <2>1, <2>2 DEF Commands
<1>4. run[p].count \in Nat /\ ~Succeeded(p)'
  BY <1>3 DEF SilverInv, Counted, Succeeded
<1> QED
  BY <1>3, <1>4, QuietBuild

\* The rows of Silver are counted in numbers.
LEMMA CountIsNumber ==
  ASSUME PipelineInv
  PROVE  /\ Len(SilverRows) \in Nat
         /\ \A n \in Nat : \E S : Transformed(n) \in Seq(S)
<1>1. ASSUME NEW n \in Nat PROVE \E S : Transformed(n) \in Seq(S)
  <2>1. PICK S, s : s = [i \in 1 .. n |-> SilverRow(bronze[i])] /\ s \in Seq(S)
    <3>1. PICK s : s = [i \in 1 .. n |-> SilverRow(bronze[i])]
      OBVIOUS
    <3>2. s \in [1 .. n -> {s[i] : i \in 1 .. n}]
      BY <3>1
    <3>3. s \in Seq({s[i] : i \in 1 .. n})
      BY <3>2, SeqDef
    <3> QED
      BY <3>1, <3>3
  <2>2. Subsequence(s, SelectedIn(n)) \in Seq(S)
    BY <2>1, SubsequenceIsRanked
  <2> QED
    BY <2>1, <2>2 DEF Transformed
<1>2. ASSUME silvers = <<>> PROVE Len(SilverRows) \in Nat
  <2>1. SilverRows = <<>>
    BY <1>2 DEF SilverRows
  <2> QED
    BY <2>1
<1>3. ASSUME silvers # <<>> PROVE Len(SilverRows) \in Nat
  <2>1. Len(silvers) \in DOMAIN silvers
    <3>1. PICK S : silvers \in Seq(S)
      BY DEF PipelineInv, Shape
    <3> QED
      BY <1>3, <3>1
  <2>2. PICK n \in Nat : SilverRows = Transformed(n)
    BY <1>3, <2>1, Elements DEF SilverRows, PipelineInv, Built
  <2>3. PICK S : Transformed(n) \in Seq(S)
    BY <1>1
  <2> QED
    BY <2>2, <2>3
<1> QED
  BY <1>1, <1>2, <1>3

\* A command that was alone counts the snapshot it wrote.
LEMMA CountBuild ==
  ASSUME PipelineInv, SilverInv, NEW p \in Builders, run[p].pc = "count",
         run' = [run EXCEPT ![p].pc = "stop", ![p].count = Len(SilverRows)],
         UNCHANGED <<bronze, silvers, overlapped>>
  PROVE  SilverInv'
<1>1. PICK D : run \in [Builders -> Commands(D)]
  BY DEF PipelineInv, Shape
<1>2. PICK n \in Nat : n = run[p].upTo
  BY Elements DEF PipelineInv
<1>3. PICK l \in Nat : l = Len(SilverRows)
  BY CountIsNumber
<1>4. /\ run'[p].pc = "stop" /\ run'[p].upTo = n /\ run'[p].count = l
      /\ \A q \in Builders \ {p} : run'[q] = run[q]
  <2>1. PICK c \in Commands(D) : c = run[p]
    BY <1>1
  <2>2. PICK r : r = [c EXCEPT !.pc = "stop", !.count = l]
    OBVIOUS
  <2>3. run' = [run EXCEPT ![p] = r]
    BY <1>1, <1>3, <2>1, <2>2
  <2>4. r.pc = "stop" /\ r.upTo = c.upTo /\ r.count = l
    BY <2>2 DEF Commands
  <2> QED
    BY <1>1, <1>2, <2>1, <2>3, <2>4
<1>5. Representable(n)
  BY <1>2 DEF SilverInv, Written
<1>6. ~overlapped => l = Len(Transformed(n))
  <2> SUFFICES ASSUME ~overlapped PROVE l = Len(Transformed(n))
    OBVIOUS
  <2>1. silvers # <<>> /\ silvers[Len(silvers)].upTo = n
    BY <1>2 DEF SilverInv, Counted
  <2>2. Len(silvers) \in DOMAIN silvers
    <3>1. PICK S : silvers \in Seq(S)
      BY DEF PipelineInv, Shape
    <3> QED
      BY <2>1, <3>1
  <2> QED
    BY <1>3, <2>1, <2>2 DEF SilverRows, PipelineInv, Built
<1> QED
  BY <1>4, <1>5, <1>6, QuietBuild

\* A commit is of rows none of which raises, and is the last snapshot.
LEMMA CommitBuild ==
  ASSUME PipelineInv, SilverInv, NEW p \in Builders, run[p].pc = "write",
         NEW to, NEW e,
         \/ run' = [run EXCEPT ![p].pc = to] /\ e = run[p].error
         \/ run' = [run EXCEPT ![p].pc = to, ![p].error = e],
         to = "count" \/ (to = "stop" /\ e = "write"),
         Representable(run[p].upTo),
         silvers' = Append(silvers, [upTo |-> run[p].upTo,
                                     rows |-> Transformed(run[p].upTo)]),
         UNCHANGED <<bronze, overlapped>>
  PROVE  SilverInv'
<1>1. /\ run'[p].pc = to /\ run'[p].error = e
      /\ run'[p].upTo = run[p].upTo /\ run'[p].count = run[p].count
      /\ \A q \in Builders \ {p} : run'[q] = run[q]
  <2>1. \/ run' = [run EXCEPT ![p].pc = to] /\ e = run[p].error
        \/ run' = [run EXCEPT ![p].pc = to, ![p].error = e]
    OBVIOUS
  <2> QED
    BY ONLY PipelineInv, p \in Builders, <2>1, OneCommand
<1>2. PICK n \in Nat : n = run[p].upTo
  BY Elements DEF PipelineInv
<1>3. PICK x : x = [upTo |-> n, rows |-> Transformed(n)]
  OBVIOUS
<1>4. PICK m \in Nat : m = Len(silvers) /\ DOMAIN silvers = 1 .. m
  BY Elements DEF PipelineInv
<1>5. /\ Len(silvers') = m + 1 /\ DOMAIN silvers' = 1 .. m + 1 /\ silvers' # <<>>
      /\ silvers'[m + 1].upTo = n /\ \A k \in 1 .. m : silvers'[k] = silvers[k]
  <2>1. PICK S : silvers \in Seq(S)
    BY DEF PipelineInv, Shape
  <2>2. PICK T, s : s \in Seq(T) /\ x \in T /\ s = silvers
    <3>1. PICK T : T = S \cup {x}
      OBVIOUS
    <3>2. PICK s \in Seq(S) : s = silvers
      BY <2>1
    <3>3. S \subseteq T /\ x \in T
      BY <3>1
    <3>4. s \in Seq(T)
      BY <3>3, SeqMonotonic
    <3> QED
      BY <3>2, <3>3, <3>4
  <2>3. /\ Append(s, x) \in Seq(T) /\ Append(s, x) # <<>>
        /\ Len(Append(s, x)) = Len(s) + 1
        /\ \A k \in 1 .. Len(s) : Append(s, x)[k] = s[k]
        /\ Append(s, x)[Len(s) + 1] = x
    BY <2>2, AppendProperties
  <2>4. silvers' = Append(s, x)
    BY <1>2, <1>3, <2>2
  <2>5. DOMAIN silvers' = 1 .. Len(silvers')
    BY <2>3, <2>4, LenProperties
  <2> QED
    BY <1>3, <1>4, <2>2, <2>3, <2>4, <2>5
<1>6. \A k \in Nat : Transformed(k)' = Transformed(k) /\ (Representable(k)' <=> Representable(k))
  BY SameRows
<1>7. Written'
  <2>1. ASSUME NEW k \in 1 .. m + 1 PROVE Representable(silvers[k].upTo)'
    <3>1. PICK u \in Nat : u = silvers'[k].upTo /\ Representable(u)
      <4>1. CASE k = m + 1
        <5>1. silvers'[k].upTo = n /\ Representable(n)
          BY <1>2, <1>5, <4>1
        <5> QED
          BY <5>1
      <4>2. CASE k \in 1 .. m
        <5>1. silvers'[k] = silvers[k] /\ k \in DOMAIN silvers
          BY <1>4, <1>5, <4>2
        <5>2. silvers[k].upTo \in Nat /\ Representable(silvers[k].upTo)
          BY <5>1, Elements DEF PipelineInv, SilverInv, Written
        <5> QED
          BY <5>1, <5>2
      <4>3. k = m + 1 \/ k \in 1 .. m
        OBVIOUS
      <4> QED
        BY <4>1, <4>2, <4>3
    <3> QED
      BY <1>6, <3>1
  <2>2. ASSUME NEW q \in Builders, run'[q].pc = "count" \/ Succeeded(q)'
        PROVE  Representable(run[q].upTo)'
    <3>1. PICK u \in Nat : u = run'[q].upTo /\ Representable(u)
      <4>1. CASE q = p
        BY <1>1, <1>2, <4>1
      <4>2. CASE q # p
        BY <1>1, <2>2, <4>2, Elements DEF PipelineInv, SilverInv, Written, Succeeded
      <4> QED
        BY <4>1, <4>2
    <3> QED
      BY <1>6, <3>1
  <2> QED
    BY <1>5, <2>1, <2>2 DEF Written
<1>8. Counted'
  <2>1. \A q \in Builders : run'[q].count \in Nat
    BY <1>1 DEF SilverInv, Counted
  <2>2. ASSUME ~overlapped', NEW q \in Builders
        PROVE  /\ run'[q].pc = "count" => silvers'[m + 1].upTo = run'[q].upTo
               /\ Succeeded(q)' => run'[q].count = Len(Transformed(run[q].upTo)')
    <3>1. CASE q = p
      BY <1>1, <1>2, <1>5, <3>1 DEF Succeeded
    <3>2. CASE q # p
      <4>1. run'[q] = run[q] /\ ~overlapped
        BY <1>1, <2>2, <3>2
      <4>2. run[q].pc # "count"
        BY <3>2, <4>1 DEF PipelineInv, Ordered, Idle
      <4>3. Succeeded(q) => run[q].count = Len(Transformed(run[q].upTo))
        BY <4>1 DEF SilverInv, Counted
      <4>4. PICK u \in Nat : u = run[q].upTo /\ run'[q].upTo = u
        BY <4>1, Elements DEF PipelineInv
      <4> QED
        BY <1>6, <4>1, <4>2, <4>3, <4>4 DEF Succeeded
    <3> QED
      BY <3>1, <3>2
  <2> QED
    BY <1>5, <2>1, <2>2 DEF Counted
<1>9. RowsHaveOrigin'
  BY DEF SilverInv, RowsHaveOrigin
<1> QED
  BY <1>7, <1>8, <1>9 DEF SilverInv

\* Every step of a rebuild keeps what is known of its rows.
LEMMA RebuildBuild ==
  ASSUME PipelineInv, SilverInv, NEW p \in Builders, Step(p) \/ Kill(p)
  PROVE  SilverInv'
<1>1. CASE Inspect(p)
  BY <1>1, MovesBuild DEF Inspect, Raise
<1>2. CASE Read(p)
  BY <1>2, MovesBuild, ReadBuild DEF Read, Raise
<1>3. CASE Write(p)
  <2>1. /\ run[p].pc = "write" /\ UNCHANGED <<bronze, overlapped>>
        /\ \/ /\ Representable(run[p].upTo)
              /\ silvers' = Append(silvers, [upTo |-> run[p].upTo,
                                            rows |-> Transformed(run[p].upTo)])
              /\ \/ run' = [run EXCEPT ![p].pc = "count"]
                 \/ run' = [run EXCEPT ![p].pc = "stop", ![p].error = "write"]
           \/ /\ run' = [run EXCEPT ![p].pc = "stop", ![p].error = "write"]
              /\ UNCHANGED silvers
    BY <1>3 DEF Write, Raise, Representable
  <2>2. PICK e : e = run[p].error
    OBVIOUS
  <2>3. CASE UNCHANGED silvers /\ run' = [run EXCEPT ![p].pc = "stop", ![p].error = "write"]
    BY <2>1, <2>3, MovesBuild
  <2> QED
    BY <2>1, <2>2, <2>3, CommitBuild
<1>4. CASE Count(p)
  BY <1>4, MovesBuild, CountBuild DEF Count, Raise
<1>5. CASE Stop(p)
  <2>1. PICK D : run \in [Builders -> Commands(D)]
    BY DEF PipelineInv, Shape
  <2>2. PICK e : /\ \/ run' = [run EXCEPT ![p].pc = "ended"] /\ e = run[p].error
                    \/ run' = [run EXCEPT ![p].pc = "ended", ![p].error = e]
                 /\ e = "none" => run[p].error = "none"
    <3>1. PICK c \in Commands(D) : c = run[p]
      BY <2>1
    <3>2. PICK e : e = IF c.error = "none" THEN "cleanup" ELSE c.error
      OBVIOUS
    <3>3. CASE run' = [run EXCEPT ![p].pc = "ended"]
      BY <3>3
    <3>4. CASE run' = [run EXCEPT ![p].pc = "ended",
                                  ![p].error = IF @ = "none" THEN "cleanup" ELSE @]
      <4>1. run' = [run EXCEPT ![p].pc = "ended", ![p].error = e]
        BY <2>1, <3>1, <3>2, <3>4
      <4> QED
        BY <3>1, <3>2, <4>1
    <3> QED
      BY <1>5, <3>3, <3>4 DEF Stop
  <2>3. run[p].pc = "stop" /\ UNCHANGED <<bronze, silvers, overlapped>>
    BY <1>5 DEF Stop
  <2>4. e = "none" => Succeeded(p)
    BY <2>2, <2>3 DEF Succeeded
  <2> QED
    BY <2>2, <2>3, <2>4, MovesBuild
<1>6. CASE Kill(p)
  <2>1. /\ run' = [run EXCEPT ![p].pc = "killed"]
        /\ UNCHANGED <<bronze, silvers, overlapped>>
    BY <1>6 DEF Kill
  <2>2. PICK to, e : to = "killed" /\ e = run[p].error
    OBVIOUS
  <2>3. to # "count" /\ to \notin {"stop", "ended"}
    BY <2>2
  <2> QED
    BY <2>1, <2>2, <2>3, MovesBuild
<1> QED
  BY <1>1, <1>2, <1>3, <1>4, <1>5, <1>6 DEF Step

\* A row appended is classified, and no build has read it.
LEMMA AppendRowBuild ==
  ASSUME PipelineInv, SilverInv, AppendRow
  PROVE  SilverInv'
<1>1. PICK m \in Messages : bronze' = Append(bronze, Classified(m))
  BY DEF AppendRow
<1>2. UNCHANGED <<silvers, run, overlapped>> /\ Len(bronze) < MaxRows
  BY DEF AppendRow
<1>3. PICK T, b : b \in Seq(T) /\ Classified(m) \in T /\ b = bronze
  <2>1. PICK B : bronze \in Seq(B)
    BY DEF PipelineInv, Shape
  <2>2. PICK T : T = B \cup {Classified(m)}
    OBVIOUS
  <2>3. PICK b \in Seq(B) : b = bronze
    BY <2>1
  <2>4. B \subseteq T /\ Classified(m) \in T
    BY <2>2
  <2>5. b \in Seq(T)
    BY <2>4, SeqMonotonic
  <2> QED
    BY <2>3, <2>4, <2>5
<1>4. PICK l \in Nat : l = Len(bronze)
  BY <1>3
<1>5. /\ Len(bronze') = l + 1 /\ bronze'[l + 1] = Classified(m)
      /\ \A i \in 1 .. l : bronze'[i] = bronze[i]
  <2>1. /\ Len(Append(b, Classified(m))) = Len(b) + 1
        /\ \A k \in 1 .. Len(b) : Append(b, Classified(m))[k] = b[k]
        /\ Append(b, Classified(m))[Len(b) + 1] = Classified(m)
    BY <1>3, AppendProperties
  <2> QED
    BY <1>1, <1>3, <1>4, <2>1
<1>6. RowsHaveOrigin'
  <2>1. MaxRows \in Nat
    BY SilverAssumption DEF SilverAssumption
  <2>2. ASSUME NEW i \in 1 .. l + 1 PROVE Origin(bronze'[i])
    <3>1. CASE i = l + 1
      BY <1>5, <3>1 DEF Origin
    <3>2. CASE i \in 1 .. l
      <4>1. bronze'[i] = bronze[i] /\ Origin(bronze[i])
        BY <1>4, <1>5, <3>2 DEF SilverInv, RowsHaveOrigin
      <4> QED
        BY <4>1
    <3> QED
      BY <3>1, <3>2
  <2>3. Len(bronze') <= MaxRows
    BY <1>2, <1>4, <1>5, <2>1
  <2>4. \A i \in 1 .. Len(bronze') : Origin(bronze'[i])
    BY <1>5, <2>2
  <2> QED
    BY <2>3, <2>4 DEF RowsHaveOrigin, Origin
<1>7. \A n \in Nat : n <= l => /\ Transformed(n)' = Transformed(n)
                              /\ Representable(n)' <=> Representable(n)
  <2> SUFFICES ASSUME NEW n \in Nat, n <= l
               PROVE  /\ Transformed(n)' = Transformed(n)
                      /\ Representable(n)' <=> Representable(n)
    OBVIOUS
  <2>1. \A i \in 1 .. n : bronze'[i] = bronze[i]
    BY <1>5
  <2> QED
    BY <2>1, SameRows
<1>8. ASSUME NEW p \in Builders
      PROVE  \E n \in Nat : n = run[p].upTo /\ n = run'[p].upTo /\ n <= l
  BY <1>2, <1>4, Elements DEF PipelineInv, Built
<1>9. Written'
  <2>1. ASSUME NEW k \in DOMAIN silvers PROVE Representable(silvers[k].upTo)'
    <3>1. PICK u \in Nat : u = silvers[k].upTo /\ u <= l /\ Representable(u)
      BY <1>4, Elements DEF PipelineInv, Built, SilverInv, Written
    <3>2. silvers'[k].upTo = u
      BY <1>2, <3>1
    <3> QED
      BY <1>7, <3>1, <3>2
  <2>2. ASSUME NEW p \in Builders, run'[p].pc = "count" \/ Succeeded(p)'
        PROVE  Representable(run[p].upTo)'
    <3>1. run[p].pc = "count" \/ Succeeded(p)
      BY <1>2, <2>2 DEF Succeeded
    <3>2. PICK n \in Nat : n = run[p].upTo /\ n = run'[p].upTo /\ n <= l
      BY <1>8
    <3>3. Representable(run[p].upTo)
      BY <3>1 DEF SilverInv, Written
    <3> QED
      BY <1>7, <3>2, <3>3
  <2> QED
    BY <1>2, <2>1, <2>2 DEF Written
<1>10. Counted'
  <2>1. \A p \in Builders : run'[p].count \in Nat
    BY <1>2 DEF SilverInv, Counted
  <2>2. ASSUME ~overlapped', NEW p \in Builders
        PROVE  /\ run'[p].pc = "count"
                    => silvers' # <<>> /\ silvers'[Len(silvers')].upTo = run'[p].upTo
               /\ Succeeded(p)' => run'[p].count = Len(Transformed(run[p].upTo)')
    <3>1. /\ run[p].pc = "count"
               => silvers # <<>> /\ silvers[Len(silvers)].upTo = run[p].upTo
          /\ Succeeded(p) => run[p].count = Len(Transformed(run[p].upTo))
      BY <1>2, <2>2 DEF SilverInv, Counted
    <3>2. PICK n \in Nat : n = run[p].upTo /\ n = run'[p].upTo /\ n <= l
      BY <1>8
    <3> QED
      <4>1. Transformed(n)' = Transformed(n)
        <5>1. \A i \in 1 .. n : bronze'[i] = bronze[i]
          BY <1>5, <3>2
        <5> QED
          BY <5>1, SameRows
      <4>2. run'[p] = run[p] /\ silvers' = silvers /\ (Succeeded(p)' <=> Succeeded(p))
        BY <1>2 DEF Succeeded
      <4>3. Succeeded(p) => run[p].count = Len(Transformed(n))
        BY <3>1, <3>2
      <4>4. Succeeded(p)' => run'[p].count = Len(Transformed(n)')
        BY <4>1, <4>2, <4>3
      <4>5. Transformed(run[p].upTo)' = Transformed(n)'
        BY <3>2
      <4> QED
        BY <3>1, <4>2, <4>4, <4>5
  <2> QED
    BY <2>1, <2>2 DEF Counted
<1> QED
  BY <1>6, <1>9, <1>10 DEF SilverInv

\* Every step of the pipeline does.
LEMMA SilverStep ==
  ASSUME PipelineInv, SilverInv, [PipelineNext]_pipelineVars
  PROVE  SilverInv'
<1>1. CASE UNCHANGED <<bronze, silvers, run, overlapped>>
  <2>1. \A k : Transformed(k)' = Transformed(k) /\ (Representable(k)' <=> Representable(k))
    BY <1>1 DEF Transformed, Representable, SelectedIn
  <2> QED
    BY <1>1, <2>1 DEF SilverInv, RowsHaveOrigin, Origin, Written, Counted, Succeeded
<1>2. \/ UNCHANGED <<bronze, silvers, run, overlapped>>
      \/ AppendRow
      \/ \E p \in Builders : Start(p) \/ Step(p) \/ Kill(p)
  BY DEF PipelineNext, pipelineVars, vars, Next, Migrate, Publish
<1> QED
  BY <1>1, <1>2, AppendRowBuild, StartBuild, RebuildBuild

\* Before the first record there is nothing to know but the history.
LEMMA SilverStart ==
  ASSUME PipelineInit
  PROVE  SilverInv
<1>1. /\ bronze = History /\ silvers = <<>> /\ DOMAIN silvers = {}
      /\ \A p \in Builders : run[p] = [pc |-> "idle", upTo |-> 0, count |-> 0,
                                      error |-> "none"]
  BY DEF PipelineInit, Init, Fresh
<1>2. PICK H : bronze \in Seq(H)
  BY <1>1, SilverAssumption DEF SilverAssumption
<1>3. DOMAIN bronze = 1 .. Len(bronze)
  BY <1>2
<1>4. RowsHaveOrigin
  BY <1>1, <1>3, SilverAssumption DEF SilverAssumption, RowsHaveOrigin, Origin
<1>5. \A p \in Builders : ~Succeeded(p) /\ run[p].pc # "count" /\ run[p].count \in Nat
  BY <1>1 DEF Succeeded
<1> QED
  BY <1>1, <1>4, <1>5 DEF SilverInv, Written, Counted

\* Every row has an origin, everything written could be written, and a command
\* that was alone has counted what it wrote.
THEOREM SilverSafe == PipelineSpec => [](PipelineInv /\ SilverInv)
<1>1. PipelineInit => PipelineInv /\ SilverInv
  BY PipelineStart, SilverStart
<1>2. PipelineInv /\ SilverInv /\ [PipelineNext]_pipelineVars => (PipelineInv /\ SilverInv)'
  BY PipelineStep, SilverStep
<1> QED
  BY <1>1, <1>2, PTL DEF PipelineSpec

-----------------------------------------------------------------------------
(* What the pipeline guarantees                                            *)

\* A build has, in order, one row for each complete row it read.
LEMMA BuildIsRanked ==
  ASSUME PipelineInv, SilverInv, NEW n \in Nat, n <= Len(bronze)
  PROVE  \E S, s : /\ s = [i \in 1 .. n |-> SilverRow(bronze[i])]
                   /\ Transformed(n) \in Seq(S)
                   /\ CompleteIn(n) = SelectedIn(n)
                   /\ SelectedIn(n) \cap 1 .. n = SelectedIn(n)
                   /\ Ranked(Transformed(n), s, SelectedIn(n), n)
<1>1. PICK s : s = [i \in 1 .. n |-> SilverRow(bronze[i])]
  OBVIOUS
<1>2. s \in Seq({s[i] : i \in 1 .. n}) /\ Len(s) = n
  <2>1. s \in [1 .. n -> {s[i] : i \in 1 .. n}]
    BY <1>1
  <2>2. s \in Seq({s[i] : i \in 1 .. n})
    BY <2>1, SeqDef
  <2>3. DOMAIN s = 1 .. n
    BY <1>1
  <2>4. Len(s) = n
    BY <2>2, <2>3, LenProperties
  <2> QED
    BY <2>2, <2>4
<1>3. PICK S : s \in Seq(S)
  BY <1>2
<1>4. /\ Subsequence(s, SelectedIn(n)) \in Seq(S)
      /\ Ranked(Subsequence(s, SelectedIn(n)), s, SelectedIn(n), Len(s))
  BY <1>3, SubsequenceIsRanked
<1>5. Transformed(n) = Subsequence(s, SelectedIn(n))
  BY <1>1 DEF Transformed
<1>6. CompleteIn(n) = SelectedIn(n)
  <2>1. PICK l \in Nat : l = Len(bronze)
    BY Elements DEF PipelineInv
  <2>2. ASSUME NEW i \in 1 .. n
        PROVE  Selected(bronze[i]) <=> bronze[i].is_valid # Null /\ Complete(bronze[i])
    <3>1. i \in 1 .. l
      BY <2>1
    <3>2. Origin(bronze[i])
      BY <2>1, <3>1 DEF SilverInv, RowsHaveOrigin
    <3> QED
      BY <3>2, SelectedRow
  <2> QED
    BY <2>2 DEF CompleteIn, SelectedIn
<1>7. SelectedIn(n) \cap 1 .. n = SelectedIn(n)
  BY DEF SelectedIn
<1> QED
  BY <1>1, <1>2, <1>4, <1>5, <1>6, <1>7

\* Every row a reader of Silver sees is made of a valid row that did not raise.
LEMMA RowsOfSilver ==
  ASSUME PipelineInv, SilverInv, NEW j \in DOMAIN SilverRows
  PROVE  \E i \in DOMAIN bronze :
            /\ SilverRows[j] = SilverRow(bronze[i])
            /\ Selected(bronze[i]) /\ ~Raises(bronze[i]) /\ Origin(bronze[i])
<1>1. silvers # <<>>
  <2> SUFFICES ASSUME silvers = <<>> PROVE FALSE
    OBVIOUS
  <2>1. SilverRows = <<>>
    BY DEF SilverRows
  <2>2. DOMAIN SilverRows = {}
    BY <2>1
  <2> QED
    BY <2>2
<1>2. Len(silvers) \in DOMAIN silvers
  <2>1. PICK S : silvers \in Seq(S)
    BY DEF PipelineInv, Shape
  <2> QED
    BY <1>1, <2>1
<1>3. PICK n \in Nat : /\ n <= Len(bronze) /\ Representable(n)
                       /\ SilverRows = Transformed(n)
  <2>1. PICK n \in Nat : n = silvers[Len(silvers)].upTo
    BY <1>2, Elements DEF PipelineInv
  <2>2. n <= Len(bronze) /\ silvers[Len(silvers)].rows = Transformed(n)
    BY <1>2, <2>1 DEF PipelineInv, Built
  <2>3. Representable(silvers[Len(silvers)].upTo)
    BY <1>2 DEF SilverInv, Written
  <2> QED
    BY <1>1, <2>1, <2>2, <2>3 DEF SilverRows
<1>4. PICK S, s : /\ s = [i \in 1 .. n |-> SilverRow(bronze[i])]
                  /\ SilverRows \in Seq(S)
                  /\ Ranked(SilverRows, s, SelectedIn(n), n)
  BY <1>3, BuildIsRanked
<1>5. j \in 1 .. Len(SilverRows)
  BY <1>4, LenProperties
<1>6. PICK i \in SelectedIn(n) \cap 1 .. n : SilverRows[j] = s[i]
  BY <1>4, <1>5 DEF Ranked
<1>7. PICK B : bronze \in Seq(B)
  BY DEF PipelineInv, Shape
<1>8. i \in DOMAIN bronze /\ i \in 1 .. Len(bronze)
  BY <1>3, <1>7
<1>9. Selected(bronze[i]) /\ ~Raises(bronze[i])
  BY <1>3, <1>6 DEF SelectedIn, Representable
<1>10. Origin(bronze[i])
  BY <1>8 DEF SilverInv, RowsHaveOrigin
<1> QED
  BY <1>4, <1>6, <1>8, <1>9, <1>10

\* The label of a Bronze row is right on every record and in every row.
THEOREM LabelsAreRight == PipelineSpec => []LabelMeansComplete
<1>1. RecordsLabelled
  <2> SUFFICES ASSUME NEW m \in Records
               PROVE  LET row == Classified(m)
                      IN /\ (row.is_valid = <<TRUE>>) = Complete(row)
                         /\ \A group \in Exclusives : Cardinality(group \cap Errors(m)) <= 1
                         /\ ~Parsed(m) => Len(row.validation_errors[1]) = 1
    BY DEF RecordsLabelled
  <2>1. Readable(m)
    BY SilverAssumption DEF SilverAssumption
  <2>2. (Classified(m).is_valid = <<TRUE>>) <=> Complete(Classified(m))
    BY <2>1, LabelIsCompleteness
  <2>3. (Classified(m).is_valid = <<TRUE>>) = Complete(Classified(m))
    BY <2>2 DEF Complete
  <2>4. Classified(m).validation_errors[1] = ValidationErrors(m)
    BY DEF Classified
  <2>5. ~Parsed(m) => Len(ValidationErrors(m)) = 1
    BY <2>1, UnreadHasOneError
  <2> QED
    BY <2>3, <2>4, <2>5, ErrorsExclude
<1>2. ASSUME PipelineInv, SilverInv, NEW i \in DOMAIN bronze, bronze[i].is_valid # Null
      PROVE  (bronze[i].is_valid = <<TRUE>>) = Complete(bronze[i])
  <2>1. PICK B : bronze \in Seq(B)
    BY <1>2 DEF PipelineInv, Shape
  <2>2. i \in 1 .. Len(bronze)
    BY <2>1
  <2>3. Origin(bronze[i])
    BY <1>2, <2>2 DEF SilverInv, RowsHaveOrigin
  <2>4. bronze[i].is_valid = <<TRUE>> <=> Complete(bronze[i])
    BY <1>2, <2>3, SelectedRow DEF Selected
  <2> QED
    BY <2>4 DEF Complete
<1>3. PipelineInv /\ SilverInv => LabelMeansComplete
  BY <1>1, <1>2 DEF LabelMeansComplete
<1> QED
  BY <1>3, SilverSafe, PTL

\* No Bronze row called valid, and none from before the contract, makes a Silver
\* build that serving refuses.
THEOREM SilverIsServable == PipelineSpec => []SilverPassesGate
<1>1. PipelineInv /\ SilverInv => SilverPassesGate
  <2> SUFFICES ASSUME PipelineInv, SilverInv, NEW j \in DOMAIN SilverRows,
                      NEW c \in SilverColumns
               PROVE  SilverRows[j][c] # Null
    BY DEF SilverPassesGate
  <2>1. PICK i \in DOMAIN bronze : /\ SilverRows[j] = SilverRow(bronze[i])
                                   /\ Selected(bronze[i]) /\ Origin(bronze[i])
    BY RowsOfSilver
  <2> QED
    BY <2>1, SilverRowIsServable
<1> QED
  BY <1>1, SilverSafe, PTL

\* Every snapshot has one row per complete classified row of its Bronze snapshot,
\* and a rebuild that was alone reports the count of what it wrote.
THEOREM SnapshotsAreComplete == PipelineSpec => []SilverIsComplete
<1>1. PipelineInv /\ SilverInv => SilverIsComplete
  <2> SUFFICES ASSUME PipelineInv, SilverInv PROVE SilverIsComplete
    OBVIOUS
  <2>1. ASSUME NEW k \in DOMAIN silvers
        PROVE  Len(silvers[k].rows) = Cardinality(CompleteIn(silvers[k].upTo))
    <3>1. PICK n \in Nat : n = silvers[k].upTo
      BY Elements DEF PipelineInv
    <3>2. n <= Len(bronze) /\ silvers[k].rows = Transformed(n)
      BY <3>1 DEF PipelineInv, Built
    <3>3. Len(Transformed(n)) = Cardinality(CompleteIn(n))
      BY <3>2, BuildIsRanked DEF Ranked
    <3> QED
      BY <3>1, <3>2, <3>3
  <2>2. ASSUME ~overlapped, NEW p \in Builders, run[p].pc = "ended", run[p].error = "none"
        PROVE  run[p].count = Len(Transformed(run[p].upTo))
    BY <2>2 DEF SilverInv, Counted, Succeeded
  <2> QED
    BY <2>1, <2>2 DEF SilverIsComplete
<1> QED
  BY <1>1, SilverSafe, PTL

\* A notional in Silver is the nearest value of the product type, and fits.
THEOREM NotionalsAreNearest == PipelineSpec => []NotionalNearest
<1>1. PipelineInv /\ SilverInv => NotionalNearest
  <2> SUFFICES ASSUME PipelineInv, SilverInv, NEW j \in DOMAIN SilverRows
               PROVE  LET r == SilverRows[j] IN
                      /\ 2 * Distance(r.notional[1] * One, r.price[1] * r.quantity[1])
                           <= One * Lost
                      /\ r.notional[1] < DecimalLimit
    BY DEF NotionalNearest
  <2>1. PICK i \in DOMAIN bronze :
           /\ SilverRows[j] = SilverRow(bronze[i])
           /\ Selected(bronze[i]) /\ ~Raises(bronze[i]) /\ Origin(bronze[i])
    BY RowsOfSilver
  <2>2. PICK row : row = bronze[i]
    OBVIOUS
  <2>3. LET r == SilverRow(row) IN
        /\ 2 * Distance(r.notional[1] * One, r.price[1] * r.quantity[1]) <= One * Lost
        /\ r.notional[1] < DecimalLimit
    BY <2>1, <2>2, SilverRowIsNearest
  <2> QED
    BY <2>1, <2>2, <2>3
<1> QED
  BY <1>1, SilverSafe, PTL

\* A valid row Silver cannot represent is in no snapshot and under no success.
THEOREM PoisonAlwaysStops == PipelineSpec => []PoisonStopsBuilds
<1>1. PipelineInv /\ SilverInv => PoisonStopsBuilds
  <2> SUFFICES ASSUME PipelineInv, SilverInv, NEW i \in DOMAIN bronze,
                      bronze[i].is_valid = <<TRUE>>, Unrepresentable(bronze[i])
               PROVE  /\ \A k \in DOMAIN silvers : silvers[k].upTo < i
                      /\ \A p \in Builders :
                            run[p].pc = "ended" /\ run[p].error = "none" => run[p].upTo < i
    BY DEF PoisonStopsBuilds
  <2>1. PICK B : bronze \in Seq(B)
    BY DEF PipelineInv, Shape
  <2>2. PICK l \in Nat : l = Len(bronze) /\ i \in 1 .. l
    BY <2>1
  <2>3. Origin(bronze[i]) /\ Selected(bronze[i])
    BY <2>2 DEF SilverInv, RowsHaveOrigin, Selected
  <2>4. Raises(bronze[i])
    BY <2>3, UnrepresentableRaises
  <2>5. ASSUME NEW n \in Nat, Representable(n) PROVE n < i
    <3> SUFFICES ASSUME ~ (n < i) PROVE FALSE
      OBVIOUS
    <3>1. i \in 1 .. n
      BY <2>2
    <3>2. i \in SelectedIn(n)
      BY <2>3, <3>1 DEF SelectedIn
    <3> QED
      BY <2>4, <2>5, <3>2 DEF Representable
  <2>6. ASSUME NEW k \in DOMAIN silvers PROVE silvers[k].upTo < i
    BY <2>5, Elements DEF PipelineInv, SilverInv, Written
  <2>7. ASSUME NEW p \in Builders, run[p].pc = "ended", run[p].error = "none"
        PROVE  run[p].upTo < i
    BY <2>5, <2>7, Elements DEF PipelineInv, SilverInv, Written, Succeeded
  <2> QED
    BY <2>6, <2>7
<1> QED
  BY <1>1, SilverSafe, PTL

\* A dashboard query sees the complete rows of one Bronze prefix, once each, in
\* order, and no other.
THEOREM DashboardSeesPrefix == PipelineSpec => []ServedIsPrefix
<1>1. PipelineInv /\ SilverInv => ServedIsPrefix
  <2> SUFFICES ASSUME PipelineInv, SilverInv PROVE ServedIsPrefix
    OBVIOUS
  <2>1. CASE served = 0
    <3>1. visible.upTo = 0 /\ visible.rows = <<>>
      BY <2>1 DEF PipelineInv, Built, NoSnapshot
    <3>2. CompleteIn(0) = {}
      BY DEF CompleteIn
    <3>3. Len(<<>>) = Cardinality({})
      BY FS_EmptySet
    <3> QED
      BY <3>1, <3>2, <3>3 DEF ServedIsPrefix
  <2>2. CASE served # 0
    <3>1. served \in DOMAIN silvers /\ visible = silvers[served]
      BY <2>2, Elements DEF PipelineInv, Built
    <3>2. PICK n \in Nat : n = visible.upTo
      BY <3>1, Elements DEF PipelineInv
    <3>3. n <= Len(bronze) /\ visible.rows = Transformed(n)
      BY <3>1, <3>2 DEF PipelineInv, Built
    <3>4. PICK s : /\ s = [i \in 1 .. n |-> SilverRow(bronze[i])]
                   /\ CompleteIn(n) = SelectedIn(n)
                   /\ SelectedIn(n) \cap 1 .. n = SelectedIn(n)
                   /\ Ranked(Transformed(n), s, SelectedIn(n), n)
      BY <3>3, BuildIsRanked
    <3>5. PICK I, t : I = CompleteIn(n) /\ t = visible.rows
      OBVIOUS
    <3>6. Len(t) = Cardinality(I) /\ \A i \in I : t[Cardinality(I \cap 1 .. i)] = s[i]
      BY <3>3, <3>4, <3>5 DEF Ranked
    <3>7. \A i \in I : s[i] = SilverRow(bronze[i])
      BY <3>4, <3>5 DEF CompleteIn
    <3> QED
      BY <3>2, <3>5, <3>6, <3>7 DEF ServedIsPrefix
  <2> QED
    BY <2>1, <2>2
<1> QED
  BY <1>1, SilverSafe, PTL

\* What the proofs above do not need to know.
Surroundings ==
    /\ schema \in {"LEGACY_13_COLUMN", "QUALITY_15_COLUMN", "INCOMPATIBLE"}
    /\ attempts \in Nat

\* The type of every variable, the columns of Silver among them.
THEOREM PipelineTyped == PipelineSpec => []TypeOK
<1>1. PipelineInit => Surroundings
  BY DEF PipelineInit, Init, Surroundings
<1>2. Surroundings /\ [PipelineNext]_pipelineVars => Surroundings'
  <2> SUFFICES ASSUME Surroundings, [PipelineNext]_pipelineVars PROVE Surroundings'
    OBVIOUS
  <2>1. \/ UNCHANGED <<schema, attempts>>
        \/ Migrate \/ AppendRow
        \/ \E p \in Builders : Start(p) \/ Step(p) \/ Kill(p)
    BY DEF PipelineNext, pipelineVars, vars, Next, Publish
  <2>2. CASE Migrate
    BY <2>2 DEF Migrate, Surroundings
  <2>3. ASSUME NEW p \in Builders, Start(p) PROVE Surroundings'
    BY <2>3 DEF Start, Surroundings
  <2>4. ASSUME NEW p \in Builders, Step(p) \/ Kill(p) PROVE UNCHANGED <<schema, attempts>>
    BY <2>4 DEF Step, Inspect, Read, Write, Count, Stop, Kill
  <2>5. AppendRow => UNCHANGED <<schema, attempts>>
    BY DEF AppendRow
  <2> QED
    BY <2>1, <2>2, <2>3, <2>4, <2>5 DEF Surroundings
<1>3. PipelineInv /\ SilverInv /\ Surroundings => TypeOK
  <2> SUFFICES ASSUME PipelineInv, SilverInv, Surroundings PROVE TypeOK
    OBVIOUS
  <2>1. PICK l \in Nat : l = Len(bronze) /\ l <= MaxRows
    BY Elements DEF PipelineInv, SilverInv, RowsHaveOrigin
  <2>2. MaxRows \in Nat
    BY SilverAssumption DEF SilverAssumption
  <2>3. \A k \in DOMAIN silvers : silvers[k].upTo \in 0 .. Len(bronze)
    BY <2>1, Elements DEF PipelineInv, Built
  <2>4. ASSUME NEW j \in DOMAIN SilverRows PROVE DOMAIN SilverRows[j] = SilverColumns
    <3>1. PICK i \in DOMAIN bronze : SilverRows[j] = SilverRow(bronze[i])
      BY RowsOfSilver
    <3> QED
      BY <3>1 DEF SilverRow, SilverColumns
  <2>5. PICK D : run \in [Builders -> Commands(D)]
    BY DEF PipelineInv, Shape
  <2>6. PICK R : R = [pc : Phases, upTo : 0 .. MaxRows, count : Nat, error : Failures]
    OBVIOUS
  <2>7. ASSUME NEW p \in Builders PROVE run[p] \in R
    <3>1. PICK c \in Commands(D) : c = run[p]
      BY <2>5
    <3>2. c.count \in Nat /\ c.upTo \in 0 .. MaxRows
      BY <2>1, <2>2, <3>1, Elements DEF PipelineInv, Built, SilverInv, Counted
    <3> QED
      BY <2>6, <3>1, <3>2 DEF Commands
  <2>8. run \in [Builders -> R]
    BY <2>5, <2>7
  <2> QED
    BY <2>1, <2>3, <2>4, <2>6, <2>8 DEF TypeOK, Surroundings, Phases, Failures
<1>4. PipelineSpec => []Surroundings
  BY <1>1, <1>2, PTL DEF PipelineSpec
<1> QED
  BY <1>3, <1>4, SilverSafe, PTL
=============================================================================
