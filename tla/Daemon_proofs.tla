---------------------------- MODULE Daemon_proofs ----------------------------
(* Proofs about Daemon for every bound on the signals.                      *)
EXTENDS Daemon, TLAPS

(* The database guard's bookkeeping: while main() has not left the try     *)
(* block, an armed guard stands for exactly one init not yet shut down;    *)
(* otherwise every init has been shut down.  The schema check only runs    *)
(* right after DbInit has armed the guard, and nothing arms it before.    *)
DInv ==
    /\ inits \in Nat
    /\ shutdowns \in Nat
    /\ guard \in {"none", "armed", "cancelled"}
    /\ pc \in {"parse", "checkpoints", "config", "dbInit"} => guard = "none"
    /\ pc = "schema" => guard = "armed"
    /\ (guard = "armed" /\ pc # "exited") => inits = shutdowns + 1
    /\ (guard # "armed" \/ pc = "exited") => shutdowns = inits

(* Each step of main() or of the signal thread keeps DInv.                 *)
LEMMA DInvStep == DInv /\ [Next]_vars => DInv'
<1> SUFFICES ASSUME DInv, [Next]_vars PROVE DInv'
  OBVIOUS
<1>1. CASE ParseOptions \/ LoadCheckpoints \/ CheckConfig \/ CoreLoad \/ Rollback
  BY <1>1 DEF ParseOptions, LoadCheckpoints, CheckConfig, CoreLoad, Rollback,
              DInv, Goto, Return, MainVars
<1>2. CASE P2pInit \/ StartRpc \/ InstallHandler \/ RunLoop \/ Shutdown
  BY <1>2 DEF P2pInit, StartRpc, InstallHandler, RunLoop, Shutdown,
              DInv, Goto, Return, MainVars
<1>3. CASE DbInit
  BY <1>3 DEF DbInit, DInv, Goto, Return
<1>4. CASE SchemaCheck
  BY <1>4 DEF SchemaCheck, DInv, Goto, Return
<1>5. CASE LeaveScope
  BY <1>5 DEF LeaveScope, DInv
<1>6. CASE Signal
  BY <1>6 DEF Signal, DInv
<1>7. CASE UNCHANGED vars
  BY <1>7 DEF vars, DInv
<1>8. QED
  BY <1>1, <1>2, <1>3, <1>4, <1>5, <1>6, <1>7 DEF Next, MainStep

(* In every run of main(), whatever step fails and whenever a signal       *)
(* arrives, the ScopeExit guard and the schema rebuild never shut the      *)
(* database down more often than it was opened, and once main() has left  *)
(* the try block every database->init() has had its shutdown().            *)
THEOREM DbBalanced == Spec => []DbShutdownBalanced
<1>1. Init => DInv
  BY DEF Init, DInv
<1>2. DInv => DbShutdownBalanced
  BY DEF DInv, DbShutdownBalanced
<1>3. QED
  BY <1>1, <1>2, DInvStep, PTL DEF Spec


-----------------------------------------------------------------------------
(* Type correctness.  The bounds of TypeOK on inits and shutdowns hold     *)
(* because database->init() runs once before the schema check and at most  *)
(* once more in its rebuild.                                               *)
InitCount ==
    /\ pc \in {"parse", "checkpoints", "config", "dbInit"} => inits = 0
    /\ pc = "schema" => inits = 1

TInv == TypeOK /\ DInv /\ InitCount

(* Each step keeps the types and the count of inits per step of main().   *)
LEMMA TypeStep == TInv /\ [Next]_vars => (TypeOK /\ InitCount)'
<1> SUFFICES ASSUME TypeOK, DInv, InitCount, [Next]_vars
             PROVE  (TypeOK /\ InitCount)'
  BY DEF TInv
<1>1. shutdowns <= inits /\ inits <= 2
  BY DEF DInv, TypeOK
<1>2. CASE ParseOptions \/ LoadCheckpoints \/ CheckConfig \/ CoreLoad \/ Rollback
  BY <1>2 DEF ParseOptions, LoadCheckpoints, CheckConfig, CoreLoad, Rollback,
              TypeOK, InitCount, Goto, Return, MainVars, Steps
<1>3. CASE P2pInit \/ StartRpc \/ InstallHandler \/ RunLoop \/ Shutdown
  BY <1>3 DEF P2pInit, StartRpc, InstallHandler, RunLoop, Shutdown,
              TypeOK, InitCount, Goto, Return, MainVars, Steps
<1>4. CASE DbInit
  BY <1>4 DEF DbInit, TypeOK, InitCount, Goto, Return, Steps
<1>5. CASE SchemaCheck
  BY <1>4, <1>5 DEF SchemaCheck, TypeOK, InitCount, DInv, Goto, Return, Steps
<1>6. CASE LeaveScope
  BY <1>1, <1>6 DEF LeaveScope, TypeOK, InitCount, DInv
<1>7. CASE Signal
  <2>1. signals' \in 0..MaxSignals
    BY <1>7, ConstantsAssumption DEF Signal, TypeOK
  <2>2. CASE installed
    BY <1>7, <2>1, <2>2 DEF Signal, TypeOK, InitCount
  <2>3. CASE ~installed
    BY <1>7, <2>1, <2>3 DEF Signal, TypeOK, InitCount, Steps
  <2>4. QED
    BY <2>2, <2>3
<1>8. CASE UNCHANGED vars
  BY <1>8 DEF vars, TypeOK, InitCount
<1>9. QED
  BY <1>2, <1>3, <1>4, <1>5, <1>6, <1>7, <1>8 DEF Next, MainStep

(* For every bound on the signals, every variable of main() and of the     *)
(* signal thread stays in its range: in particular the database is opened *)
(* at most twice and shut down at most as often.                           *)
THEOREM TypeCorrect == Spec => []TypeOK
<1>1. Init => TInv
  <2> SUFFICES ASSUME Init PROVE TInv
    OBVIOUS
  <2>1. TypeOK
    <3>1. pc \in Steps
      BY DEF Init, Steps
    <3>2. signals \in 0..MaxSignals
      BY ConstantsAssumption DEF Init
    <3>3. inits \in 0..2 /\ shutdowns \in 0..3 /\ code \in {0, 1}
      BY DEF Init
    <3>4. installed \in BOOLEAN /\ stopSignal \in BOOLEAN /\ saved \in BOOLEAN
      BY DEF Init
    <3>5. QED
      BY <3>1, <3>2, <3>3, <3>4 DEF Init, TypeOK
  <2>2. DInv /\ InitCount
    BY DEF Init, DInv, InitCount
  <2>3. QED
    BY <2>1, <2>2 DEF TInv
<1>2. TInv /\ [Next]_vars => TInv'
  BY TypeStep, DInvStep DEF TInv
<1>3. QED
  BY <1>1, <1>2, PTL DEF Spec, TInv
====
