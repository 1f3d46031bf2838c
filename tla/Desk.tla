-------------------------------- MODULE Desk --------------------------------
(***************************************************************************)
(* What becomes of an order and of its decision, part by part: the router, *)
(* the ledger, the model that predicts, the backtester, the audit record   *)
(* and the outcomes reported of it.  Each part meets the others through    *)
(* the values it is called with, which its own module takes from small     *)
(* sets; here they share one behaviour and move in any order.              *)
(***************************************************************************)
EXTENDS ExecutionRouter, PositionLedger, ModelRegistry, Backtester, SensitivitySweep,
        DecisionReport

deskVars == <<vars, ledgerVars, registryVars, backtestVars, auditVars, outcomeVars>>

DeskInit ==
    /\ Init /\ LedgerInit /\ RegistryInit /\ BacktestInit /\ AuditInit /\ OutcomesInit

RouterMoves ==
    Next /\ UNCHANGED <<ledgerVars, registryVars, backtestVars, auditVars, outcomeVars>>
LedgerMoves ==
    LedgerNext /\ UNCHANGED <<vars, registryVars, backtestVars, auditVars, outcomeVars>>
RegistryMoves ==
    RegistryNext /\ UNCHANGED <<vars, ledgerVars, backtestVars, auditVars, outcomeVars>>
BacktestMoves ==
    BacktestNext /\ UNCHANGED <<vars, ledgerVars, registryVars, auditVars, outcomeVars>>
AuditMoves ==
    AuditNext /\ UNCHANGED <<vars, ledgerVars, registryVars, backtestVars, outcomeVars>>
OutcomesMove ==
    OutcomesNext /\ UNCHANGED <<vars, ledgerVars, registryVars, backtestVars, auditVars>>

DeskNext ==
    \/ RouterMoves \/ LedgerMoves \/ RegistryMoves
    \/ BacktestMoves \/ AuditMoves \/ OutcomesMove

DeskSpec == DeskInit /\ [][DeskNext]_deskVars

\* Every variable of the parts holds a value of its type.
DeskTypeOK == TypeOK /\ LedgerTypeOK /\ RegistryTypeOK /\ AuditTypeOK
=============================================================================
