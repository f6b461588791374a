------------------------------- MODULE Daemon -------------------------------
(***************************************************************************)
(* main() of the node daemon (src/Daemon/Daemon.cpp): the start-up         *)
(* sequence, the database guard, the signal handler and the shut-down      *)
(* sequence, with the exit code main() returns.                            *)
(*                                                                         *)
(* The main thread runs the steps of main() in order; each step that reads *)
(* the command line, a file or the network, or that may throw, chooses its *)
(* outcome from a small set.  The database is guarded by a ScopeExit that  *)
(* calls database->shutdown() when main() leaves the try block, unless it  *)
(* has been cancelled.  The signal handler runs on another thread: before  *)
(* it is installed a SIGINT ends the process; after, it asks the p2p loop  *)
(* to stop, which makes p2psrv.run() return.                               *)
(***************************************************************************)
EXTENDS Naturals

CONSTANTS
    MaxSignals   \* bound on the number of signals delivered to the process

ASSUME ConstantsAssumption == MaxSignals \in Nat

VARIABLES
    pc,          \* where main() is
    code,        \* the value main() is returning, once it returns
    reason,      \* why main() returns: "normal", "version", "info", "error"
    db,          \* the database: "none", "open", "closed", "destroyed"
    guard,       \* dbShutdownOnExit: "none", "armed", "cancelled"
    inits,       \* successful database->init() calls
    shutdowns,   \* database->shutdown() calls
    installed,   \* the signal handler is installed
    stopSignal,  \* p2psrv.sendStopSignal() has been called
    saved,       \* ccore.save() has run
    console,     \* DaemonCommandsHandler: "off", "handling", "stopped"
    signals      \* signals delivered so far

vars == <<pc, code, reason, db, guard, inits, shutdowns, installed, stopSignal,
          saved, console, signals>>

Steps == {"parse", "checkpoints", "config", "dbInit", "schema", "coreLoad",
          "rollback", "p2pInit", "rpc", "install", "run", "shutdown"}

Init ==
    /\ pc = "parse"
    /\ code = 0
    /\ reason = "none"
    /\ db = "none"
    /\ guard = "none"
    /\ inits = 0
    /\ shutdowns = 0
    /\ installed = FALSE
    /\ stopSignal = FALSE
    /\ saved = FALSE
    /\ console = "off"
    /\ signals = 0

(* main() returns value c (a `return' or the catch block at 454-457): the  *)
(* objects of the try block, the database guard among them, are destroyed *)
(* next, by LeaveScope.                                                    *)
Return(c, why) ==
    /\ pc' = "return"
    /\ code' = c
    /\ reason' = why

Goto(next) == pc' = next /\ UNCHANGED <<code, reason>>

MainVars == <<db, guard, inits, shutdowns, installed, stopSignal, saved, console, signals>>

(* Command line and configuration file (lines 124-213): --help and          *)
(* --print-genesis-tx make the helper return false, hence `return 1';     *)
(* --version and --os-version return 0.                                    *)
ParseOptions ==
    /\ pc = "parse"
    /\ \E outcome \in {"ok", "help", "genesis", "badArgs", "version"} :
         \/ outcome = "ok" /\ Goto("checkpoints")
         \/ outcome = "version" /\ Return(0, "version")
         \/ outcome \in {"help", "genesis"} /\ Return(1, "info")
         \/ outcome = "badArgs" /\ Return(1, "error")
    /\ UNCHANGED MainVars

(* Currency and checkpoints (lines 217-257): a bad genesis transaction     *)
(* returns 1, a checkpoint file that fails to load throws.                  *)
LoadCheckpoints ==
    /\ pc = "checkpoints"
    /\ \/ Goto("config")
       \/ Return(1, "error")
    /\ UNCHANGED MainVars

(* RPC contact and fee options, the data directory (lines 259-296).        *)
CheckConfig ==
    /\ pc = "config"
    /\ \/ Goto("dbInit")
       \/ Return(1, "error")
    /\ UNCHANGED MainVars

(* database->init() (lines 298-310); once it returns the guard is armed.   *)
DbInit ==
    /\ pc = "dbInit"
    /\ \/ /\ db' = "open"
          /\ guard' = "armed"
          /\ inits' = inits + 1
          /\ Goto("schema")
       \/ /\ Return(1, "error")
          /\ UNCHANGED <<db, guard, inits>>
    /\ UNCHANGED <<shutdowns, installed, stopSignal, saved, console, signals>>

(* Variant of the schema check that keeps dbShutdownOnExit armed across   *)
(* the rebuild (no cancel() before the explicit shutdown).                 *)
SchemaCheckNoCancel ==
    /\ pc = "schema"
    /\ \/ /\ Goto("coreLoad")
          /\ UNCHANGED <<db, guard, inits, shutdowns>>
       \/ /\ shutdowns' = shutdowns + 1
          /\ db' = "open"
          /\ inits' = inits + 1
          /\ guard' = "armed"
          /\ Goto("coreLoad")
       \/ /\ shutdowns' = shutdowns + 1
          /\ db' = "destroyed"
          /\ Return(1, "error")
          /\ UNCHANGED <<guard, inits>>
    /\ UNCHANGED <<installed, stopSignal, saved, console, signals>>

(* Variant that checks the schema version again after a rebuild.          *)
SchemaCheckRecheck ==
    /\ pc = "schema"
    /\ \/ /\ Goto("coreLoad")
          /\ UNCHANGED <<db, guard, inits, shutdowns>>
       \/ /\ shutdowns' = shutdowns + 1
          /\ db' = "open"
          /\ inits' = inits + 1
          /\ guard' = "armed"
          /\ Goto("schema")
       \/ /\ shutdowns' = shutdowns + 1
          /\ db' = "destroyed"
          /\ guard' = "cancelled"
          /\ Return(1, "error")
          /\ UNCHANGED inits
    /\ UNCHANGED <<installed, stopSignal, saved, console, signals>>

(* Schema version check (lines 312-318).  On a mismatch: cancel the guard, *)
(* shut down and destroy the database, init it again, re-arm the guard; an *)
(* init that throws leaves the guard cancelled.                             *)
SchemaCheck ==
    /\ pc = "schema"
    /\ \/ /\ Goto("coreLoad")
          /\ UNCHANGED <<db, guard, inits, shutdowns>>
       \/ /\ shutdowns' = shutdowns + 1
          /\ db' = "open"
          /\ inits' = inits + 1
          /\ guard' = "armed"
          /\ Goto("coreLoad")
       \/ /\ shutdowns' = shutdowns + 1
          /\ db' = "destroyed"
          /\ guard' = "cancelled"
          /\ Return(1, "error")
          /\ UNCHANGED inits
    /\ UNCHANGED <<installed, stopSignal, saved, console, signals>>

(* Core construction and ccore.load() (lines 320-333), which may throw.    *)
CoreLoad ==
    /\ pc = "coreLoad"
    /\ \/ Goto("rollback")
       \/ Return(1, "error")
    /\ UNCHANGED MainVars

(* --rollback (lines 335-349): an index that does not parse executes       *)
(* `return false' from main().                                             *)
Rollback ==
    /\ pc = "rollback"
    /\ \E outcome \in {"none", "rewind", "badIndex"} :
         \/ outcome \in {"none", "rewind"} /\ Goto("p2pInit")
         \/ outcome = "badIndex" /\ Return(0, "error")
    /\ UNCHANGED MainVars

(* Protocol handler, p2p server and RPC objects; p2psrv.init(), then the   *)
(* console starts handling unless --no-console was given (351-368).       *)
P2pInit ==
    /\ pc = "p2pInit"
    /\ \/ /\ Goto("rpc")
          /\ console' \in {"off", "handling"}
       \/ /\ Return(1, "error")
          /\ UNCHANGED console
    /\ UNCHANGED <<db, guard, inits, shutdowns, installed, stopSignal, saved, signals>>

(* RPC server start and node fee settings (lines 370-430): a bad fee       *)
(* address, an unparsable or too high fee returns 1, a bind error throws.  *)
StartRpc ==
    /\ pc = "rpc"
    /\ \/ Goto("install")
       \/ Return(1, "error")
    /\ UNCHANGED MainVars

(* SignalHandler::install (lines 432-435).                                 *)
InstallHandler ==
    /\ pc = "install"
    /\ installed' = TRUE
    /\ Goto("run")
    /\ UNCHANGED <<db, guard, inits, shutdowns, stopSignal, saved, console, signals>>

(* p2psrv.run() (lines 437-439) returns once a stop signal has been sent.  *)
RunLoop ==
    /\ pc = "run"
    /\ stopSignal
    /\ Goto("shutdown")
    /\ UNCHANGED MainVars

(* Stop the console, the RPC server and the p2p server, then save the core *)
(* (lines 441-452); main() then leaves the try block and returns 0.        *)
Shutdown ==
    /\ pc = "shutdown"
    /\ saved' = TRUE
    /\ console' = IF console = "off" THEN "off" ELSE "stopped"
    /\ Return(0, "normal")
    /\ UNCHANGED <<db, guard, inits, shutdowns, installed, stopSignal, signals>>

(* Leaving the try block runs ~ScopeExit: an armed guard shuts the database *)
(* down (line 310).                                                         *)
LeaveScope ==
    /\ pc = "return"
    /\ \/ /\ guard = "armed"
          /\ shutdowns' = shutdowns + 1
          /\ db' = "closed"
       \/ /\ guard # "armed"
          /\ UNCHANGED <<shutdowns, db>>
    /\ pc' = "exited"
    /\ UNCHANGED <<code, reason, guard, inits, installed, stopSignal, saved, console, signals>>

(* Variant of the handler that only stops the console.                   *)
SignalNoStop ==
    /\ pc \notin {"exited", "killed"}
    /\ signals < MaxSignals
    /\ signals' = signals + 1
    /\ \/ /\ installed
          /\ console' = IF console = "off" THEN "off" ELSE "stopped"
          /\ UNCHANGED <<pc, code, reason, stopSignal>>
       \/ /\ ~installed
          /\ pc' = "killed"
          /\ UNCHANGED <<console, stopSignal, code, reason>>
    /\ UNCHANGED <<db, guard, inits, shutdowns, installed, saved>>

(* A SIGINT.  Once the handler is installed it runs dch.stop_handling()     *)
(* and p2psrv.sendStopSignal() (lines 432-435); before, the default action *)
(* ends the process where it stands.                                       *)
Signal ==
    /\ pc \notin {"exited", "killed"}
    /\ signals < MaxSignals
    /\ signals' = signals + 1
    /\ \/ /\ installed
          /\ console' = IF console = "off" THEN "off" ELSE "stopped"
          /\ stopSignal' = TRUE
          /\ UNCHANGED <<pc, code, reason>>
       \/ /\ ~installed
          /\ pc' = "killed"
          /\ UNCHANGED <<console, stopSignal, code, reason>>
    /\ UNCHANGED <<db, guard, inits, shutdowns, installed, saved>>

MainStep ==
    \/ ParseOptions \/ LoadCheckpoints \/ CheckConfig \/ DbInit \/ SchemaCheck
    \/ CoreLoad \/ Rollback \/ P2pInit \/ StartRpc \/ InstallHandler
    \/ RunLoop \/ Shutdown \/ LeaveScope

Next == MainStep \/ Signal

(* The main thread is scheduled while it can run; signals are the          *)
(* environment and are never forced.                                       *)
Spec == Init /\ [][Next]_vars /\ WF_vars(MainStep)

-----------------------------------------------------------------------------
TypeOK ==
    /\ pc \in Steps \cup {"return", "exited", "killed"}
    /\ code \in {0, 1}
    /\ reason \in {"none", "normal", "version", "info", "error"}
    /\ db \in {"none", "open", "closed", "destroyed"}
    /\ guard \in {"none", "armed", "cancelled"}
    /\ inits \in 0..2
    /\ shutdowns \in 0..3
    /\ installed \in BOOLEAN
    /\ stopSignal \in BOOLEAN
    /\ saved \in BOOLEAN
    /\ console \in {"off", "handling", "stopped"}
    /\ signals \in 0..MaxSignals

(* The database is never shut down more often than it was opened, and when *)
(* main() has returned every successful database->init() has been matched  *)
(* by exactly one database->shutdown(): the guard is cancelled across the  *)
(* schema rebuild's own shutdown and re-armed after its init.              *)
DbShutdownBalanced ==
    /\ shutdowns <= inits
    /\ pc = "exited" => shutdowns = inits

(* A signal delivered after the handler is installed makes main() return:  *)
(* the handler stops the p2p loop and the shut-down sequence follows.      *)
SignalStopsNode ==
    (installed /\ signals > 0) ~> (pc = "exited")

(* main() returns 0 only after the node has run and shut down normally, or *)
(* after printing its version; a start-up error exits with 1 (spec, "Exit  *)
(* codes": 0 normal shutdown, 1 fatal init error).                         *)
ExitCodeFaithful ==
    (pc = "exited" /\ code = 0) => reason \in {"normal", "version"}
=============================================================================
