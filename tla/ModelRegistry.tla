---------------------------- MODULE ModelRegistry ----------------------------
(***************************************************************************)
(* The governed models of one model_key: training adds candidates, an      *)
(* operator promotes a candidate or rolls back to an archived model, and   *)
(* every server process predicts with a copy it keeps.                     *)
(*                                                                         *)
(* activate_transactionally is one transaction under READ COMMITTED: each  *)
(* statement sees what is committed when it starts, waits for the row      *)
(* locks of other transactions, and looks again at the rows it waited for. *)
(* A partial unique index allows one active row.  After the commit the     *)
(* request empties the copy of its own process, and of no other.           *)
(*                                                                         *)
(* X_F is X with the fault F.                                              *)
(***************************************************************************)
EXTENDS Integers, FiniteSets

CONSTANTS Model,        \* models that training may register
          Operator,     \* activation requests
          Host,         \* server processes
          HostOf,       \* HostOf[o]: the process that serves request o
          NoModel,      \* no model: the heuristic fallback
          MaxRequests,  \* bound: activation requests
          MaxDbFaults   \* bound: failing statements and spoilt artifacts

ASSUME RegistryAssumption ==
    /\ NoModel \notin Model \cup Operator
    /\ HostOf \in [Operator -> Host]
    /\ MaxRequests \in Nat /\ MaxDbFaults \in Nat

VARIABLES
    lifecycle,  \* lifecycle[m]: committed lifecycle_state, or "absent"
    fit,        \* models whose artifact and schema verify
    lock,       \* lock[m]: the transaction that holds m's row, or NoModel
    txn,        \* txn[o]: statement request o is at
    target,     \* target[o]: the model o activates
    expected,   \* expected[o]: expected_state
    archiving,  \* archiving[o]: rows o has archived and not committed
    model,      \* model[h]: _TRAINED_MODEL of process h
    loading,    \* loading[h]: what a prediction of h has read and not kept yet
    shown,      \* the model behind the prediction snapshot in Redis
    \* history and bounds
    excused,    \* processes whose copy nobody was bound to empty
    requests, dbFaults

registryVars == <<lifecycle, fit, lock, txn, target, expected, archiving, model,
                  loading, shown, excused, requests, dbFaults>>

rows  == <<lifecycle, fit>>
hosts == <<model, loading, shown>>

Copy == Model \cup {NoModel}
NotLoading == "not loading"

RegistryTypeOK ==
    /\ lifecycle \in [Model -> {"absent", "candidate", "active", "archived"}]
    /\ fit \subseteq {m \in Model : lifecycle[m] # "absent"}
    /\ lock \in [Model -> Operator \cup {NoModel}]
    /\ txn \in [Operator -> {"idle", "lock", "rivals", "archive", "activate",
                             "commit", "invalidate"}]
    /\ target \in [Operator -> Copy]
    /\ expected \in [Operator -> {"", "candidate", "archived"}]
    /\ archiving \in [Operator -> SUBSET Model]
    /\ \A o \in Operator : /\ txn[o] = "idle" <=> target[o] = NoModel
                           /\ target[o] \notin archiving[o]
    /\ model \in [Host -> Copy]
    /\ loading \in [Host -> Copy \cup {NotLoading}]
    /\ shown \in Copy
    /\ excused \subseteq Host
    /\ requests \in 0..MaxRequests /\ dbFaults \in 0..MaxDbFaults

RegistryInit ==
    /\ lifecycle = [m \in Model |-> "absent"] /\ fit = {}
    /\ lock = [m \in Model |-> NoModel]
    /\ txn = [o \in Operator |-> "idle"]
    /\ target = [o \in Operator |-> NoModel]
    /\ expected = [o \in Operator |-> ""]
    /\ archiving = [o \in Operator |-> {}]
    /\ model = [h \in Host |-> NoModel]
    /\ loading = [h \in Host |-> NotLoading]
    /\ shown = NoModel
    /\ excused = {} /\ requests = 0 /\ dbFaults = 0

Active == {m \in Model : lifecycle[m] = "active"}

-----------------------------------------------------------------------------
(* Training and activation.                                                *)

\* train_offline registers a candidate; whether eligibility will hold is
\* settled by its data.  Samples it refuses register nothing.
TrainModel(m, eligible) ==
    /\ lifecycle[m] = "absent"
    /\ lifecycle' = [lifecycle EXCEPT ![m] = "candidate"]
    /\ fit' = IF eligible THEN fit \cup {m} ELSE fit
    /\ UNCHANGED <<lock, txn, target, expected, archiving, hosts, excused,
                   requests, dbFaults>>

\* An artifact no longer matches its hash, or the feature schema has moved on.
SpoilModel(m) ==
    /\ m \in fit /\ dbFaults < MaxDbFaults
    /\ fit' = fit \ {m} /\ dbFaults' = dbFaults + 1
    /\ UNCHANGED <<lifecycle, lock, txn, target, expected, archiving, hosts,
                   excused, requests>>

\* promote and rollback look at the model before the transaction; only a
\* promotion asks for eligibility.
Request(o, m, from) ==
    /\ txn[o] = "idle" /\ requests < MaxRequests
    /\ lifecycle[m] = from
    /\ from = "candidate" => m \in fit
    /\ txn' = [txn EXCEPT ![o] = "lock"]
    /\ target' = [target EXCEPT ![o] = m]
    /\ expected' = [expected EXCEPT ![o] = from]
    /\ requests' = requests + 1
    /\ UNCHANGED <<rows, lock, archiving, hosts, excused, dbFaults>>

\* The end of a transaction: its locks are gone.
Unlocked_Kept(o) == lock
Unlocked(o) == [m \in Model |-> IF lock[m] = o THEN NoModel ELSE lock[m]]

Leave(o) ==
    /\ lock' = Unlocked(o)
    /\ txn' = [txn EXCEPT ![o] = "idle"]
    /\ target' = [target EXCEPT ![o] = NoModel]
    /\ expected' = [expected EXCEPT ![o] = ""]
    /\ archiving' = [archiving EXCEPT ![o] = {}]

Rollback(o) == Leave(o) /\ UNCHANGED <<rows, hosts, excused, requests>>

Free(o, m) == lock[m] \in {o, NoModel}

\* The rows the next statement of o has to wait for.
WaitsFor(o) ==
    CASE txn[o] = "lock"     -> {m \in {target[o]} : ~Free(o, m)}
      [] txn[o] \in {"rivals", "archive"} -> {m \in Active : ~Free(o, m)}
      \* the unique index: a row that another transaction is activating, or
      \* archiving, may or may not be in the way
      [] txn[o] = "activate" ->
            {m \in Model : \/ \E q \in Operator \ {o} : txn[q] = "commit" /\ target[q] = m
                           \/ m \in Active \ archiving[o] /\ m # target[o] /\ ~Free(o, m)}
      [] OTHER -> {}

\* SELECT ... FOR UPDATE of the target, and the check of its state.
LockTarget(o) ==
    /\ txn[o] = "lock" /\ WaitsFor(o) = {}
    /\ IF lifecycle[target[o]] # expected[o]
         THEN Leave(o)
         ELSE /\ lock' = [lock EXCEPT ![target[o]] = o]
              /\ txn' = [txn EXCEPT ![o] = "rivals"]
              /\ UNCHANGED <<target, expected, archiving>>
    /\ UNCHANGED <<rows, hosts, excused, requests, dbFaults>>

LockAll(o, ms) == [m \in Model |-> IF m \in ms THEN o ELSE lock[m]]

LockRivals(o) ==
    /\ txn[o] = "rivals" /\ WaitsFor(o) = {}
    /\ lock' = LockAll(o, Active)
    /\ txn' = [txn EXCEPT ![o] = "archive"]
    /\ UNCHANGED <<rows, target, expected, archiving, hosts, excused, requests,
                   dbFaults>>

\* UPDATE ... WHERE lifecycle_state = 'active': it finds its rows anew.
Rivals(o) == Active \ {target[o]}

ArchiveRivals(o) ==
    /\ txn[o] = "archive" /\ WaitsFor(o) = {}
    /\ archiving' = [archiving EXCEPT ![o] = Rivals(o)]
    /\ lock' = LockAll(o, Rivals(o))
    /\ txn' = [txn EXCEPT ![o] = "activate"]
    /\ UNCHANGED <<rows, target, expected, hosts, excused, requests, dbFaults>>

\* uq_ml_one_active: an active row that o does not archive refuses the UPDATE.
IndexRefuses_Never(o) == FALSE
IndexRefuses(o) == Active \ (archiving[o] \cup {target[o]}) # {}

ActivateTarget(o) ==
    /\ txn[o] = "activate" /\ WaitsFor(o) = {}
    /\ IF IndexRefuses(o)
         THEN Rollback(o)
         ELSE /\ txn' = [txn EXCEPT ![o] = "commit"]
              /\ UNCHANGED <<rows, lock, target, expected, archiving, hosts,
                             excused, requests>>
    /\ UNCHANGED dbFaults

Activated(o) ==
    [m \in Model |-> IF m = target[o] THEN "active"
                     ELSE IF m \in archiving[o] THEN "archived" ELSE lifecycle[m]]

\* Processes whose copies a commit served by h leaves alone.
Others(h) == Host \ {h}

\* When the answer of the COMMIT is lost the request fails without emptying
\* anything.
Commit(o, lost) ==
    /\ txn[o] = "commit"
    /\ lost => dbFaults < MaxDbFaults
    /\ dbFaults' = IF lost THEN dbFaults + 1 ELSE dbFaults
    /\ lifecycle' = Activated(o)
    /\ excused' = excused \cup Others(HostOf[o])
                          \cup (IF lost THEN {HostOf[o]} ELSE {})
    /\ IF lost THEN Leave(o)
               ELSE /\ lock' = Unlocked(o)
                    /\ txn' = [txn EXCEPT ![o] = "invalidate"]
                    /\ archiving' = [archiving EXCEPT ![o] = {}]
                    /\ UNCHANGED <<target, expected>>
    /\ UNCHANGED <<fit, hosts, requests>>

\* A statement fails: the transaction is rolled back.
FailStatement(o) ==
    /\ txn[o] \in {"lock", "rivals", "archive", "activate", "commit"}
    /\ dbFaults < MaxDbFaults /\ dbFaults' = dbFaults + 1
    /\ Rollback(o)

Emptied_PredictionOnly(h) == model
Emptied(h) == [model EXCEPT ![h] = NoModel]

\* A prediction of the same process that has read the registry before may
\* still put the old model back.
InvalidateCache(o) ==
    LET h == HostOf[o]
    IN /\ txn[o] = "invalidate"
       /\ model' = Emptied(h)
       /\ excused' = IF loading[h] = NotLoading THEN excused \ {h} ELSE excused \cup {h}
       /\ Leave(o)
       /\ UNCHANGED <<rows, loading, shown, requests, dbFaults>>

-----------------------------------------------------------------------------
(* Predictions.                                                            *)

\* _load_active; an active model that does not verify counts as none.
Loadable == {m \in Active : m \in fit}

LoadActive(h) ==
    /\ shown = NoModel /\ model[h] = NoModel /\ loading[h] = NotLoading
    /\ loading' = [loading EXCEPT ![h] =
            IF Loadable = {} THEN NoModel ELSE CHOOSE m \in Loadable : TRUE]
    /\ UNCHANGED <<rows, lock, txn, target, expected, archiving, model, shown,
                   excused, requests, dbFaults>>

\* set_trained_model, predict, and the snapshot of the prediction.
KeepModel(h) ==
    /\ loading[h] # NotLoading
    /\ model' = [model EXCEPT ![h] = loading[h]]
    /\ shown' = loading[h]
    /\ loading' = [loading EXCEPT ![h] = NotLoading]
    /\ UNCHANGED <<rows, lock, txn, target, expected, archiving, excused,
                   requests, dbFaults>>

\* A process that has a copy predicts with it and asks nobody.
PredictFromCopy(h) ==
    /\ shown = NoModel /\ model[h] # NoModel
    /\ shown' = model[h]
    /\ UNCHANGED <<rows, lock, txn, target, expected, archiving, model, loading,
                   excused, requests, dbFaults>>

\* _PREDICTION_TTL, or a training that has stored an empty snapshot.
SnapshotExpires ==
    /\ shown # NoModel /\ shown' = NoModel
    /\ UNCHANGED <<rows, lock, txn, target, expected, archiving, model, loading,
                   excused, requests, dbFaults>>

RegistryNext ==
    \/ \E m \in Model : SpoilModel(m) \/ \E eligible \in BOOLEAN : TrainModel(m, eligible)
    \/ \E o \in Operator :
        \/ \E m \in Model, from \in {"candidate", "archived"} : Request(o, m, from)
        \/ LockTarget(o) \/ LockRivals(o) \/ ArchiveRivals(o) \/ ActivateTarget(o)
        \/ \E lost \in BOOLEAN : Commit(o, lost)
        \/ FailStatement(o) \/ InvalidateCache(o)
    \/ \E h \in Host : LoadActive(h) \/ KeepModel(h) \/ PredictFromCopy(h)
    \/ SnapshotExpires

RegistrySpec == RegistryInit /\ [][RegistryNext]_registryVars

-----------------------------------------------------------------------------
\* At most one model is active, however promotions, rollbacks and failing
\* statements interleave, also when none was active to be locked.
OneActiveModel == Cardinality(Active) <= 1

\* Activations that wait for each other's rows never form a ring.
ActivationsProceed ==
    \A o \in Operator : WaitsFor(o) # {} =>
        \E q \in Operator : txn[q] # "idle" /\ WaitsFor(q) = {}

\* The process that served the last activation predicts with the active
\* model or loads it at the next prediction, unless the answer of the commit
\* was lost or a prediction was being made; the other processes go on with
\* the copy they have.
PromotionReachesItsProcess ==
    \A h \in Host : model[h] \notin Active \cup {NoModel} =>
        h \in excused \/ \E o \in Operator : txn[o] = "invalidate" /\ HostOf[o] = h
=============================================================================
