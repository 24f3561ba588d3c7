-------------------------- MODULE BIReader_proofs --------------------------
(***************************************************************************)
(* Proofs about the provisioning of the BI account, for every set of       *)
(* commands and passwords and for every bound.                             *)
(***************************************************************************)
EXTENDS BIReader, TLAPS

\* Nothing is provisioned at first.
LEMMA ReaderInit ==
  ASSUME ReaderAssumption, Init
  PROVE  ReaderInv
  BY DEF ReaderAssumption, Init, ReaderInv, TypeOK, AccountSet, ProvisionedCanRead,
         Idle, Working

-----------------------------------------------------------------------------
(* What a step keeps                                                       *)

\* The program counter moves from one label to one of two.
LEMMA GotoType ==
  ASSUME TypeOK, NEW p \in Commands, NEW from, NEW to \in Idle \cup Working, Goto(p, from, to)
  PROVE  /\ pc[p] = from /\ pc'[p] = to
         /\ \A q \in Commands \ {p} : pc'[q] = pc[q]
         /\ pc' \in [Commands -> Idle \cup Working]
  BY DEF TypeOK, Goto

\* A command begins with the password of its environment, or fails.
LEMMA StartSafe ==
  ASSUME ReaderAssumption, ReaderInv, NEW p \in Commands, Start(p)
  PROVE  ReaderInv'
<1>1. PICK w \in Passwords \cup {Unset} :
        /\ env' = [env EXCEPT ![p] = w]
        /\ used' = used \cup {w}
        /\ \/ w # Unset /\ pc' = [pc EXCEPT ![p] = "create"]
           \/ pc' = [pc EXCEPT ![p] = "failed"]
  BY DEF Start
<1>2. /\ env'[p] = w /\ pc'[p] \in {"create", "failed"}
      /\ pc'[p] = "create" => w # Unset
      /\ \A q \in Commands \ {p} : env'[q] = env[q] /\ pc'[q] = pc[q]
      /\ env' \in [Commands -> Passwords \cup {Unset}]
      /\ pc' \in [Commands -> Idle \cup Working]
  BY <1>1 DEF ReaderInv, TypeOK, Idle, Working
<1>3. account' = account /\ granted' = granted /\ drops' = drops /\ used \subseteq used'
  BY <1>1 DEF Start
<1>4. TypeOK'
  <2>1. attempts' \in Nat
    BY DEF Start, ReaderInv, TypeOK
  <2>2. \A q \in Commands : pc'[q] \in Working => env'[q] \in Passwords
    BY <1>2 DEF ReaderInv, TypeOK, Working, Idle
  <2> QED
    BY <1>1, <1>2, <1>3, <2>1, <2>2 DEF ReaderInv, TypeOK
<1>5. AccountSet'
  BY <1>1, <1>2, <1>3 DEF ReaderInv, AccountSet, Working
<1>6. ProvisionedCanRead'
  BY <1>1, <1>2, <1>3 DEF ReaderInv, ProvisionedCanRead, CanRead
<1> QED
  BY <1>4, <1>5, <1>6 DEF ReaderInv

\* CREATE USER IF NOT EXISTS: an account that is there is kept.
LEMMA CreateSafe ==
  ASSUME ReaderAssumption, ReaderInv, NEW p \in Commands, Create(p)
  PROVE  ReaderInv'
<1>1. PICK to \in {"alter", "failed"} : Goto(p, "create", to)
  BY DEF Create
<1>2. /\ pc[p] = "create" /\ pc'[p] = to
      /\ \A q \in Commands \ {p} : pc'[q] = pc[q]
      /\ pc' \in [Commands -> Idle \cup Working]
  BY <1>1, GotoType DEF ReaderInv, Idle, Working
<1>3. UNCHANGED <<granted, env, attempts, drops, used>>
  BY DEF Create
<1>4. env[p] \in Passwords /\ env[p] \in used
  BY <1>2 DEF ReaderInv, TypeOK, AccountSet, Working
<1>5. /\ account' # Absent /\ account' \in Passwords
      /\ account # Absent => account' = account
  BY <1>4 DEF Create, ReaderAssumption, ReaderInv, TypeOK
<1>6. TypeOK'
  BY <1>2, <1>3, <1>4, <1>5 DEF ReaderInv, TypeOK, Working
<1>7. AccountSet'
  BY <1>2, <1>3, <1>4, <1>5 DEF ReaderInv, TypeOK, AccountSet, Working, ReaderAssumption
<1>8. ProvisionedCanRead'
  BY <1>2, <1>3, <1>5
     DEF ReaderInv, ProvisionedCanRead, CanRead, ReaderAssumption
<1> QED
  BY <1>6, <1>7, <1>8 DEF ReaderInv

\* ALTER USER: all commands that count have the same password.
LEMMA AlterSafe ==
  ASSUME ReaderAssumption, ReaderInv, NEW p \in Commands, Alter(p)
  PROVE  ReaderInv'
<1>1. PICK to \in {"grant", "failed"} : Goto(p, "alter", to)
  BY DEF Alter
<1>2. /\ pc[p] = "alter" /\ pc'[p] = to
      /\ \A q \in Commands \ {p} : pc'[q] = pc[q]
      /\ pc' \in [Commands -> Idle \cup Working]
  BY <1>1, GotoType DEF ReaderInv, Idle, Working
<1>3. UNCHANGED <<granted, env, attempts, drops, used>> /\ account' = env[p]
  BY DEF Alter
<1>4. env[p] \in Passwords /\ env[p] \in used
  BY <1>2 DEF ReaderInv, TypeOK, AccountSet, Working
<1>5. account' # Absent /\ \A w \in Passwords : used \subseteq {w, Unset} => account' = w
  BY <1>3, <1>4 DEF ReaderAssumption
<1>6. TypeOK'
  BY <1>2, <1>3, <1>4 DEF ReaderInv, TypeOK, Working
<1>7. AccountSet'
  BY <1>2, <1>3, <1>4, <1>5 DEF ReaderInv, TypeOK, AccountSet, Working, ReaderAssumption
<1>8. ProvisionedCanRead'
  BY <1>2, <1>3, <1>5 DEF ReaderInv, ProvisionedCanRead, CanRead
<1> QED
  BY <1>6, <1>7, <1>8 DEF ReaderInv

\* GRANT on the account as this command's ALTER left it.
LEMMA GrantSafe ==
  ASSUME ReaderAssumption, ReaderInv, NEW p \in Commands, Grant(p)
  PROVE  ReaderInv'
<1>1. PICK to \in {"provisioned", "failed"} : Goto(p, "grant", to)
  BY DEF Grant
<1>2. /\ pc[p] = "grant" /\ pc'[p] = to
      /\ \A q \in Commands \ {p} : pc'[q] = pc[q]
      /\ pc' \in [Commands -> Idle \cup Working]
  BY <1>1, GotoType DEF ReaderInv, Idle, Working
<1>3. UNCHANGED <<account, env, attempts, drops, used>> /\ granted' = TRUE
  BY DEF Grant
<1>4. env[p] \in used \ {Unset}
  BY <1>2 DEF ReaderInv, AccountSet, Working
<1>5. TypeOK'
  BY <1>2, <1>3 DEF ReaderInv, TypeOK, Working
<1>6. AccountSet'
  BY <1>2, <1>3, <1>4 DEF ReaderInv, AccountSet, Working
<1>7. ProvisionedCanRead'
  BY <1>2, <1>3 DEF ReaderInv, AccountSet, ProvisionedCanRead, CanRead
<1> QED
  BY <1>5, <1>6, <1>7 DEF ReaderInv

\* A statement that fails, and an account that is dropped.
LEMMA OtherSafe ==
  ASSUME ReaderAssumption, ReaderInv, Drop \/ \E p \in Commands : Fail(p)
  PROVE  ReaderInv'
<1>1. CASE Drop
  <2>1. drops' # 0 /\ drops' \in Nat
    BY <1>1 DEF Drop, ReaderInv, TypeOK
  <2>2. UNCHANGED <<pc, env, attempts, used>> /\ account' = Absent /\ granted' = FALSE
    BY <1>1 DEF Drop
  <2> QED
    BY <2>1, <2>2 DEF ReaderInv, TypeOK, AccountSet, ProvisionedCanRead
<1>2. ASSUME NEW p \in Commands, Fail(p) PROVE ReaderInv'
  <2>1. pc[p] \in Working /\ Goto(p, pc[p], "failed")
        /\ UNCHANGED <<account, granted, env, attempts, drops, used>>
    BY <1>2 DEF Fail
  <2>2. /\ pc'[p] = "failed"
        /\ \A q \in Commands \ {p} : pc'[q] = pc[q]
        /\ pc' \in [Commands -> Idle \cup Working]
    BY <2>1 DEF Goto, ReaderInv, TypeOK, Idle
  <2> QED
    BY <2>1, <2>2 DEF ReaderInv, TypeOK, AccountSet, ProvisionedCanRead, CanRead, Working
<1> QED
  BY <1>1, <1>2

\* Every step keeps the invariant.
LEMMA NextSafe ==
  ASSUME ReaderAssumption, ReaderInv, [Next]_vars
  PROVE  ReaderInv'
<1>1. CASE UNCHANGED vars
  BY <1>1 DEF vars, ReaderInv, TypeOK, AccountSet, ProvisionedCanRead, CanRead
<1>2. CASE Next
  BY <1>2, StartSafe, CreateSafe, AlterSafe, GrantSafe, OtherSafe DEF Next, Step
<1> QED
  BY <1>1, <1>2

-----------------------------------------------------------------------------
(* Theorems                                                                *)

\* The types, what a command knows of the account, and ProvisionedCanRead.
THEOREM ReaderSafe ==
  ASSUME ReaderAssumption
  PROVE  Spec => []ReaderInv
<1>1. Init => ReaderInv
  BY ReaderInit
<1>2. ReaderInv /\ [Next]_vars => ReaderInv'
  BY NextSafe
<1> QED
  BY <1>1, <1>2, PTL DEF Spec

\* A reported account keeps working while all commands have its password.
THEOREM ReportedAccountWorks ==
  ASSUME ReaderAssumption
  PROVE  Spec => []ProvisionedCanRead
<1>1. ReaderInv => ProvisionedCanRead
  BY DEF ReaderInv
<1> QED
  BY <1>1, ReaderSafe, PTL

\* No statement of a command with the password in use closes the access.
THEOREM AccessStays ==
  ASSUME ReaderAssumption
  PROVE  Spec => AccessKept
<1>1. ReaderInv /\ [Next]_vars
        => [\A w \in Passwords :
              /\ CanRead(w) /\ drops' = drops
              /\ \A p \in Commands : pc[p] \in Working => env[p] = w
              => CanRead(w)']_vars
  <2> SUFFICES ASSUME ReaderInv, Next, NEW w \in Passwords, CanRead(w), drops' = drops,
                      \A p \in Commands : pc[p] \in Working => env[p] = w
               PROVE  CanRead(w)'
    OBVIOUS
  <2>1. ~Drop
    BY DEF Drop, ReaderInv, TypeOK
  <2>2. account # Absent /\ account = w /\ granted
    BY DEF CanRead, ReaderAssumption
  <2>3. PICK p \in Commands : Start(p) \/ Step(p)
    BY <2>1 DEF Next
  <2>4. CASE Alter(p)
    <3>1. pc[p] = "alter" /\ account' = env[p] /\ granted' = granted
      BY <2>4 DEF Alter, Goto
    <3> QED
      BY <2>2, <3>1 DEF CanRead, Working
  <2>5. CASE Start(p) \/ Create(p) \/ Grant(p) \/ Fail(p)
    BY <2>2, <2>5 DEF CanRead, Start, Create, Grant, Fail
  <2> QED
    BY <2>3, <2>4, <2>5 DEF Step
<1> QED
  BY <1>1, ReaderSafe, PTL DEF Spec, AccessKept
=============================================================================
