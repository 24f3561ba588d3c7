---------------------------- MODULE MarketPipeline ----------------------------
(***************************************************************************)
(* The pipeline from Kafka records to the dashboard: the Bronze rows and   *)
(* the Silver rebuilds of SilverBuild, and the serving refresh, which is   *)
(* used here as the atomic publication that ClickHouseServing implements.  *)
(* Nothing but the tables connects the parts; each runs at its own pace.   *)
(***************************************************************************)
EXTENDS SilverBuild

VARIABLES served,   \* index of the Silver snapshot published last
          visible   \* the snapshot a reader of silver_trades sees

pipelineVars == <<vars, served, visible>>

NoSnapshot == [upTo |-> 0, rows |-> <<>>]

Serving == INSTANCE ServingPublication
    WITH history <- silvers, Contents <- {}, Nothing <- NoSnapshot

\* validate_required_nulls: no NULL in any of the twelve columns.
Servable(snapshot) ==
    \A i \in DOMAIN snapshot.rows :
        \A c \in DOMAIN snapshot.rows[i] : snapshot.rows[i][c] # Null

\* Mutant: the source rows are read a second time for the load.
PublishReread ==
    /\ silvers # <<>>
    /\ served' = Len(silvers)
    /\ visible' = [silvers[served'] EXCEPT !.rows = Transformed(Len(bronze))]
    /\ UNCHANGED vars

\* One refresh: a Silver snapshot not older than the published one is bound,
\* passes the NULL check and is exchanged in.
Publish ==
    /\ Serving!Publish
    /\ Servable(visible')
    /\ UNCHANGED vars

PipelineInit == Init /\ Serving!Init

PipelineNext ==
    \/ Next /\ UNCHANGED <<served, visible>>
    \/ Publish

PipelineSpec == PipelineInit /\ [][PipelineNext]_pipelineVars

-----------------------------------------------------------------------------
(* Properties                                                              *)

\* What a dashboard query sees is, in every state, one prefix of the Kafka
\* records: of the rows in Bronze at some commit every complete classified one,
\* once and in order, and no other, whatever was appended, rebuilt, repeated or
\* lost on the way.  Publication is the atomic step of ServingPublication: the serving
\* refresh implements it for one command at a time and inserts that end with their
\* client (Exclusive and ~Orphans of ClickHouseServing).
ServedIsPrefix ==
    LET shown == CompleteIn(visible.upTo)
    IN /\ Len(visible.rows) = Cardinality(shown)
       /\ \A i \in shown :
             visible.rows[Cardinality(shown \cap 1 .. i)] = SilverRow(bronze[i])

\* Trades that a dashboard query has seen do not vanish from it, as long as no
\* two Silver rebuilds run at the same time and, as above, publication is atomic:
\* one serving command at a time, inserts that end with their client.
ServedNeverOlder ==
    [][~overlapped' => visible'.upTo >= visible.upTo]_pipelineVars
=============================================================================
