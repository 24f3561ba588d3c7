------------------------------ MODULE BIReader ------------------------------
(***************************************************************************)
(* Provisioning of the BI account (jobs/serving/clickhouse_bi_reader.py):  *)
(* CREATE USER IF NOT EXISTS, ALTER USER, GRANT SELECT on the serving      *)
(* table by its name, each a statement of its own.  A statement that       *)
(* raises may have been applied; nothing is undone; the operator repeats   *)
(* the command, with the password of its environment.                      *)
(***************************************************************************)
EXTENDS Naturals

CONSTANTS Commands,     \* processes that may provision
          Passwords,
          Unset,        \* CLICKHOUSE_BI_PASSWORD missing or empty
          Absent,       \* there is no such account
          MaxAttempts,  \* bound on commands
          MaxDrops      \* bound on accounts dropped by an administrator

\* Assumed by the proofs and by the instances TLC checks.
ReaderAssumption ==
    /\ Unset \notin Passwords /\ Absent \notin Passwords
    /\ MaxAttempts \in Nat /\ MaxDrops \in Nat

VARIABLES account,    \* Absent, or the password of bi_reader
          granted,    \* bi_reader may SELECT from silver_trades
          pc,         \* where each command is
          env,        \* the password in the environment of its last attempt
          attempts, drops,
          used        \* history: the passwords of all attempts so far

vars == <<account, granted, pc, env, attempts, drops, used>>

\* An account of an earlier installation has some password, and no grant.
Init ==
    /\ account \in Passwords \cup {Absent}
    /\ granted = FALSE
    /\ pc = [p \in Commands |-> "idle"]
    /\ env = [p \in Commands |-> Unset]
    /\ attempts = 0 /\ drops = 0
    /\ used = {}

Idle == {"idle", "provisioned", "failed"}
Working == {"create", "alter", "grant"}

Goto(p, from, to) == pc[p] = from /\ pc' = [pc EXCEPT ![p] = to]

\* The password is required before the connection, which may fail.
Start(p) ==
    /\ pc[p] \in Idle /\ attempts < MaxAttempts
    /\ attempts' = attempts + 1
    /\ \E w \in Passwords \cup {Unset} :
          /\ env' = [env EXCEPT ![p] = w]
          /\ used' = used \cup {w}
          /\ \/ w # Unset /\ pc' = [pc EXCEPT ![p] = "create"]
             \/ pc' = [pc EXCEPT ![p] = "failed"]
    /\ UNCHANGED <<account, granted, drops>>

\* Mutant: the account is made anew.
CreateReplaces(p) ==
    /\ \E to \in {"alter", "failed"} : Goto(p, "create", to)
    /\ account' = env[p] /\ granted' = FALSE
    /\ UNCHANGED <<env, attempts, drops, used>>

\* CREATE USER IF NOT EXISTS: an account that is there keeps what it has.
Create(p) ==
    /\ \E to \in {"alter", "failed"} : Goto(p, "create", to)
    /\ account' = IF account = Absent THEN env[p] ELSE account
    /\ UNCHANGED <<granted, env, attempts, drops, used>>

\* ALTER USER sets the password of whatever account there is.
Alter(p) ==
    /\ account # Absent
    /\ \E to \in {"grant", "failed"} : Goto(p, "alter", to)
    /\ account' = env[p]
    /\ UNCHANGED <<granted, env, attempts, drops, used>>

\* GRANT SELECT ON market_analytics.silver_trades.
Grant(p) ==
    /\ account # Absent
    /\ \E to \in {"provisioned", "failed"} : Goto(p, "grant", to)
    /\ granted' = TRUE
    /\ UNCHANGED <<account, env, attempts, drops, used>>

\* Mutant: a failed statement is skipped.
FailSkips(p) ==
    /\ \/ Goto(p, "create", "alter") \/ Goto(p, "alter", "grant")
       \/ Goto(p, "grant", "provisioned")
    /\ UNCHANGED <<account, granted, env, attempts, drops, used>>

\* A statement is refused, or never arrives.
Fail(p) ==
    /\ pc[p] \in Working /\ Goto(p, pc[p], "failed")
    /\ UNCHANGED <<account, granted, env, attempts, drops, used>>

\* An administrator drops the account, and with it the grant.
Drop ==
    /\ account # Absent /\ drops < MaxDrops
    /\ account' = Absent /\ granted' = FALSE
    /\ drops' = drops + 1
    /\ UNCHANGED <<pc, env, attempts, used>>

Step(p) == Create(p) \/ Alter(p) \/ Grant(p) \/ Fail(p)

Next == Drop \/ \E p \in Commands : Start(p) \/ Step(p)

Spec == Init /\ [][Next]_vars

-----------------------------------------------------------------------------
(* Properties                                                              *)

\* The type of every variable; a command that works has a password.
TypeOK ==
    /\ account \in Passwords \cup {Absent}
    /\ granted \in BOOLEAN
    /\ pc \in [Commands -> Idle \cup Working]
    /\ env \in [Commands -> Passwords \cup {Unset}]
    /\ \A p \in Commands : pc[p] \in Working => env[p] \in Passwords
    /\ attempts \in Nat /\ drops \in Nat
    /\ used \subseteq Passwords \cup {Unset}

CanRead(w) == account = w /\ granted

\* A command that reported "provisioned" has left a working account, and no
\* later or concurrent command takes it away, wherever that one fails, if all of
\* them have the same password or none.
ProvisionedCanRead ==
    \A w \in Passwords :
        used \subseteq {w, Unset} /\ drops = 0 =>
            \A p \in Commands : pc[p] = "provisioned" => CanRead(w)

\* The inductive strengthening of ProvisionedCanRead: the last statements of a
\* command run after its own ALTER, and all passwords that were tried are used.
AccountSet ==
    \A p \in Commands :
        /\ pc[p] \in Working \cup {"provisioned"} => env[p] \in used \ {Unset}
        /\ pc[p] = "alter" /\ drops = 0 => account # Absent
        /\ \A w \in Passwords :
              used \subseteq {w, Unset} /\ drops = 0 /\ pc[p] = "grant" => account = w
ReaderInv == TypeOK /\ AccountSet /\ ProvisionedCanRead

\* Provisioning again never interrupts a dashboard that works: no statement of
\* commands with the password in use closes the access, not even for a moment.
AccessKept ==
    [][\A w \in Passwords :
          /\ CanRead(w) /\ drops' = drops
          /\ \A p \in Commands : pc[p] \in Working => env[p] = w
          => CanRead(w)']_vars
=============================================================================
