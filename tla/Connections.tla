----------------------------- MODULE Connections -----------------------------
(* Connections between environments: what is recorded of them (commands.rs),  *)
(* and the rules and shared folders that put them into force                  *)
(* (runtime/fabric.rs, runtime/connection_files.rs, runtime/appliance.rs).    *)
(*                                                                            *)
(* Commands on connections exclude each other by connection_operations; the   *)
(* commands on environments do not take that lock.  A command copies the      *)
(* state, works on the engines and saves; a save can fail, and everything     *)
(* that is done to the engines in between meets whatever the others did.      *)
EXTENDS Naturals

CONSTANTS
    Env,        \* environments
    Machine,    \* those that are virtual machines; the others are containers
    Link,       \* connections
    Joined,     \* the two environments of each connection
    Storage,    \* connections that share a folder
    Agent,      \* connections within one container engine, put into force there
    MaxCommands \* bound: commands on environments, and guests that end by themselves

VARIABLES
    status,     \* recorded status of each environment, "gone" if not recorded
    alive,      \* environments whose guest runs
    stale,      \* those with a socket of a guest that ended, which the host still holds
    moving,     \* the command under way on each environment, "none" if none
    conn,       \* record of each connection
    rule,       \* connections whose rule is in force
    folder,     \* connections whose shared folder is published
    op,         \* the command that holds connection_operations
    owed,       \* environments whose command has yet to reconcile
    commands,   \* number of commands on environments so far
    kept,       \* what can be restored: environments, and connections of a snapshot of each
    history     \* for the properties: [sound, calm, leftover]

linksVars == <<status, alive, stale, moving, conn, rule, folder, op, owed, commands, kept,
               history>>
engines == <<rule, folder>>
machines == <<status, alive, stale, moving>>

None    == [active |-> FALSE, enf |-> "none"]
Free    == [do |-> "free"]
Touching(e) == {c \in Link : e \in Joined[c]}
HasRecord(c) == conn[c] # None

LinksType ==
    /\ status \in [Env -> {"running", "stopped", "gone"}]
    /\ alive \subseteq Env /\ stale \subseteq Env
    /\ moving \in [Env -> {"none", "starting", "stopping", "deleting", "deleted", "restoring"}]
    /\ conn \in [Link -> [active : BOOLEAN, enf : {"none", "pending", "enforced", "error"}]]
    /\ rule \subseteq Link /\ folder \subseteq Link /\ owed \subseteq Env

\* What the theorems ask of the constants.
ConnectionsConstants ==
    /\ Joined \in [Link -> SUBSET Env] /\ MaxCommands \in Nat

\* All environments have been started and none is connected; each has a snapshot, from
\* before there were connections or from when they were in force.
LinksInit ==
    /\ status = [e \in Env |-> "running"] /\ alive = Env /\ stale = {}
    /\ moving = [e \in Env |-> "none"]
    /\ conn = [c \in Link |-> None] /\ rule = {} /\ folder = {}
    /\ op = Free /\ owed = {} /\ commands = 0
    /\ \E r \in {None, [active |-> TRUE, enf |-> "enforced"]} :
         kept = [of |-> Env, conn |-> [c \in Link |-> r]]
    /\ history = [sound |-> FALSE, calm |-> FALSE, leftover |-> {}]

\* An environment changed under the feet of whoever reconciles.
Disturb == history' = [history EXCEPT !.sound = FALSE, !.calm = FALSE]

-----------------------------------------------------------------------------
(* reconcile_connections_locked(): rules of a copy of the state               *)

Running(e) == status[e] = "running"

\* The connections that a copy of the state has in force.
Todo(cn) == {c \in Link : cn[c].active /\ \A e \in Joined[c] : Running(e)}

\* They follow each other in the order of the record, which is any: connections come
\* and go.
Reconciling(todo) ==
    IF todo = {} THEN {Free}
    ELSE {[do |-> "reconcile", todo |-> todo, now |-> c, at |-> "rule", ok |-> FALSE] : c \in todo}

\* The lock is held and the state is copied.
BeginReconcile(todo) ==
    LET calm == \A e \in Env : moving[e] = "none"
    IN  /\ op' \in Reconciling(todo)
        /\ history' = [history EXCEPT !.calm = calm, !.sound = calm /\ todo = {}]

\* An environment has come up, or a change of it was undone.
Reconcile(e) ==
    /\ op = Free /\ e \in owed
    /\ owed' = owed \ {e}
    /\ BeginReconcile(Todo(conn))
    /\ UNCHANGED <<machines, conn, engines, kept, commands>>

\* apply_environment_connection(): the rule needs a socket of both guests, and that of a
\* guest that ended will do.  Any call to a guest or an engine can fail besides.
ApplyRule ==
    /\ op # Free /\ op.at = "rule" /\ op.now \notin Agent
    /\ \/ /\ Joined[op.now] \subseteq alive \cup stale
          /\ rule' = rule \cup {op.now} /\ op' = [op EXCEPT !.at = "folder"]
       \/ op' = [op EXCEPT !.at = "save", !.ok = FALSE] /\ UNCHANGED rule
    /\ UNCHANGED <<machines, conn, folder, owed, kept, history, commands>>

\* A rule and a folder that nothing accounts for any more.
Left(cs) == history' = [history EXCEPT !.leftover = @ \cup cs]

\* apply_container_connection(): the engine of two containers removes an earlier rule,
\* makes the new one and mounts the folder in one request.  One that fails may have
\* got nowhere or have removed the rule; one whose answer is lost may have made it,
\* also for a connection that is then not recorded.
ApplyAgentRule ==
    LET c == op.now IN
    /\ op # Free /\ op.at = "rule" /\ c \in Agent
    /\ \/ /\ Joined[c] \subseteq alive
          /\ rule' = rule \cup {c} /\ op' = [op EXCEPT !.at = "save", !.ok = TRUE]
          /\ UNCHANGED history
       \/ /\ op' = [op EXCEPT !.at = "save", !.ok = FALSE]
          /\ \/ rule' \in {rule, rule \ {c}} /\ UNCHANGED history
             \/ /\ Joined[c] \subseteq alive /\ rule' = rule \cup {c}
                /\ IF op.do = "create" THEN Left({c}) ELSE UNCHANGED history
    /\ UNCHANGED <<machines, conn, folder, owed, kept, commands>>

\* apply_shared_files(): a connection without storage has its folder withdrawn; one
\* whose folder cannot be shared loses its rule too.
ApplyFolder ==
    /\ op # Free /\ op.at = "folder"
    /\ \/ /\ folder' = IF op.now \in Storage THEN folder \cup {op.now} ELSE folder \ {op.now}
          /\ op' = [op EXCEPT !.at = "save", !.ok = TRUE]
          /\ UNCHANGED rule
       \/ /\ op.now \in Storage
          /\ folder' = folder \ {op.now} /\ rule' = rule \ {op.now}
          /\ op' = [op EXCEPT !.at = "save", !.ok = FALSE]
    /\ UNCHANGED <<machines, conn, owed, kept, history, commands>>

\* The outcome is recorded if the connection still is.  The first failure ends the
\* reconciliation, and so does a save that fails.
ReconcileSave ==
    /\ op # Free /\ op.do = "reconcile" /\ op.at = "save"
    /\ \/ /\ conn' = IF HasRecord(op.now)
                     THEN [conn EXCEPT ![op.now].enf = IF op.ok THEN "enforced" ELSE "error"]
                     ELSE conn
          /\ op' \in IF op.ok THEN Reconciling(op.todo \ {op.now}) ELSE {Free}
          /\ history' = [history EXCEPT !.sound = history.calm /\ op.ok /\ op.todo = {op.now}]
       \/ op' = Free /\ UNCHANGED <<conn, history>>
    /\ UNCHANGED <<machines, engines, owed, kept, commands>>

-----------------------------------------------------------------------------
(* Commands on a connection                                                   *)

\* create_connection(): at once if an end does not run, else the rule comes first.
CreateConnection(c) ==
    /\ op = Free /\ ~HasRecord(c)
    /\ \A e \in Joined[c] : status[e] # "gone"
    /\ IF \A e \in Joined[c] : Running(e)
       THEN /\ op' = [do |-> "create", todo |-> {c}, now |-> c, at |-> "rule", ok |-> FALSE]
            /\ UNCHANGED conn
       ELSE /\ conn' = [conn EXCEPT ![c] = [active |-> TRUE, enf |-> "pending"]]
            /\ UNCHANGED op
    /\ UNCHANGED <<machines, engines, owed, kept, history, commands>>

\* The connection is recorded if both ends still are; if not, or if the save fails,
\* the rule is taken back, which an engine may refuse.
CreateSave ==
    /\ op # Free /\ op.do = "create" /\ op.at = "save"
    /\ op' = Free
    /\ \/ /\ op.ok /\ \A e \in Joined[op.now] : status[e] # "gone"
          /\ conn' = [conn EXCEPT ![op.now] = [active |-> TRUE, enf |-> "enforced"]]
          /\ UNCHANGED <<engines, history>>
       \/ /\ op.ok /\ rule' = rule \ {op.now} /\ folder' = folder \ {op.now}
          /\ UNCHANGED <<conn, history>>
       \/ /\ op.ok /\ op.now \in Agent /\ Left({op.now}) /\ UNCHANGED <<conn, engines>>
       \/ ~op.ok /\ UNCHANGED <<conn, engines, history>>
    /\ UNCHANGED <<machines, owed, kept, commands>>

\* remove_environment_connection() by set_connection_active(FALSE) and
\* delete_connection(): the rule goes first.
Withdraw(c, do) ==
    /\ op = Free /\ HasRecord(c) /\ do \in {"off", "delete"}
    /\ rule' = rule \ {c} /\ folder' = folder \ {c}
    /\ op' = [do |-> do, todo |-> {c}, now |-> c, at |-> "record", ok |-> TRUE]
    /\ UNCHANGED <<machines, conn, owed, kept, history, commands>>

\* An engine that does not answer ends the command, and the record stays as it was.
\* The engine may have removed the rule all the same.
WithdrawFails(c) ==
    /\ op = Free /\ HasRecord(c) /\ c \in Agent
    /\ folder' = folder \ {c} /\ rule' \in {rule, rule \ {c}}
    /\ history' = [history EXCEPT !.sound = FALSE]
    /\ UNCHANGED <<machines, conn, op, owed, kept, commands>>

\* The record follows; if it cannot be saved the rules of what is recorded are put
\* back by a reconciliation.
RecordWithdrawn ==
    /\ op # Free /\ op.at = "record"
    /\ \/ /\ HasRecord(op.now) \/ op.do = "delete"
          /\ conn' = [conn EXCEPT ![op.now] =
               IF op.do = "delete" THEN None ELSE [active |-> FALSE, enf |-> "pending"]]
          /\ op' = Free /\ UNCHANGED history
       \/ BeginReconcile(Todo(conn)) /\ UNCHANGED conn
    /\ UNCHANGED <<machines, engines, owed, kept, commands>>

\* set_connection_active(TRUE): recorded first, then all are reconciled.
Activate(c) ==
    /\ op = Free /\ HasRecord(c)
    /\ conn' = [conn EXCEPT ![c] = [active |-> TRUE, enf |-> "pending"]]
    /\ BeginReconcile(Todo(conn'))
    /\ UNCHANGED <<machines, engines, owed, kept, commands>>

-----------------------------------------------------------------------------
(* Commands on an environment, without connection_operations                  *)

\* A guest that ends takes the rules within its engine with it.  If it had a socket the
\* host holds that for a while.
GuestEnds(e) ==
    /\ alive' = alive \ {e}
    /\ stale' \in {stale, stale \cup {e}}
Down(e) ==
    /\ GuestEnds(e)
    /\ rule' = rule \ (Agent \cap Touching(e))
    /\ UNCHANGED folder /\ Disturb

\* The guest runs again.  A machine comes with a new socket; a container keeps what the
\* host takes for its socket.
Up(e) ==
    /\ alive' = alive \cup {e}
    /\ stale' = IF e \in Machine THEN stale \ {e} ELSE stale

\* Fabric::attach(): the task of the socket finds it closed and withdraws the folders.
Notice(e) ==
    /\ e \in stale
    /\ stale' = stale \ {e} /\ folder' = folder \ Touching(e) /\ Disturb
    /\ UNCHANGED <<status, alive, moving, conn, rule, op, owed, kept, commands>>

NextCommand(e) == moving[e] = "none" /\ commands < MaxCommands /\ commands' = commands + 1
Busy(e, m) == moving' = [moving EXCEPT ![e] = m]
Pending(e, cn) ==
    [c \in Link |-> IF c \in Touching(e) /\ cn[c] # None THEN [cn[c] EXCEPT !.enf = "pending"]
                    ELSE cn[c]]

\* set_environment_status(Running): the engine first.
Start(e) ==
    /\ status[e] = "stopped" /\ NextCommand(e)
    /\ Up(e) /\ Busy(e, "starting") /\ Disturb
    /\ UNCHANGED <<status, conn, engines, op, owed, kept>>

\* The status is saved, and in the same save the connections become pending.
StartSave(e) ==
    /\ moving[e] = "starting" /\ Busy(e, "none")
    /\ \/ /\ status' = [status EXCEPT ![e] = "running"]
          /\ conn' = Pending(e, conn)
          /\ owed' = owed \cup {e} /\ Disturb
          /\ UNCHANGED <<alive, stale, engines>>
       \/ Down(e) /\ UNCHANGED <<status, conn, owed>>
    /\ UNCHANGED <<op, kept, commands>>

\* set_environment_status(Stopped)
Stop(e) ==
    /\ Running(e) /\ NextCommand(e)
    /\ Down(e) /\ Busy(e, "stopping")
    /\ UNCHANGED <<status, conn, op, owed, kept>>

\* A stop that cannot be saved is undone in the engine, and reconciled.
StopSave(e) ==
    /\ moving[e] = "stopping" /\ Busy(e, "none") /\ Disturb
    /\ \/ /\ status' = [status EXCEPT ![e] = "stopped"] /\ conn' = Pending(e, conn)
          /\ UNCHANGED <<alive, stale, owed>>
       \/ Up(e) /\ owed' = owed \cup {e} /\ UNCHANGED <<status, conn>>
    /\ UNCHANGED <<engines, op, kept, commands>>

\* A guest ends by itself, and a later refresh records it; the connections are not
\* touched by either.
CrashGuest(e) ==
    /\ e \in alive /\ NextCommand(e)
    /\ Down(e)
    /\ UNCHANGED <<status, moving, conn, op, owed, kept>>

Refresh(e) ==
    /\ Running(e) /\ e \notin alive /\ moving[e] = "none"
    /\ status' = [status EXCEPT ![e] = "stopped"] /\ Disturb
    /\ UNCHANGED <<alive, stale, moving, conn, engines, op, owed, kept, commands>>

\* What an engine may have removed: it is not asked again if it did not answer.
Removed(e) ==
    LET cs == {c \in Touching(e) : HasRecord(c)} IN
    /\ \E spared \in SUBSET (cs \cap Agent) : rule' = rule \ (cs \ spared)
    /\ folder' = folder \ cs

\* delete_environment(): the rules of the connections of a copy of the state, then
\* the engine's part, which may refuse and end the command, then the record.
DeleteRules(e) ==
    /\ status[e] # "gone" /\ NextCommand(e)
    /\ Removed(e) /\ Busy(e, "deleting") /\ Disturb
    /\ UNCHANGED <<status, alive, stale, conn, op, owed, kept>>

DeleteEngine(e) ==
    /\ moving[e] = "deleting"
    /\ \/ Busy(e, "deleted") /\ Down(e)
       \/ Busy(e, "none") /\ Disturb /\ UNCHANGED <<alive, stale, engines>>
    /\ UNCHANGED <<status, conn, op, owed, kept, commands>>

DeleteSave(e) ==
    /\ moving[e] = "deleted" /\ Busy(e, "none") /\ Disturb
    /\ \/ /\ status' = [status EXCEPT ![e] = "gone"]
          /\ conn' = [c \in Link |-> IF c \in Touching(e) THEN None ELSE conn[c]]
       \/ UNCHANGED <<status, conn>>
    /\ UNCHANGED <<alive, stale, engines, op, owed, kept, commands>>

\* create_snapshot() keeps the connections of the environment.
TakeSnapshot(e) ==
    /\ status[e] # "gone" /\ NextCommand(e)
    /\ kept' = [of |-> {e}, conn |-> [c \in Link |-> IF c \in Touching(e) THEN conn[c] ELSE None]]
    /\ UNCHANGED <<machines, conn, engines, op, owed, history>>

\* The connections of e are those of its snapshot whose ends are still recorded.
RestoredLinks(e) ==
    [c \in Link |-> IF c \notin Touching(e) THEN conn[c]
                    ELSE IF \A o \in Joined[c] : status[o] # "gone" THEN kept.conn[c] ELSE None]
InWork == IF op = Free THEN {} ELSE op.todo
Unaccounted(e) == {c \in Touching(e) \cap (rule \cup folder \cup InWork) : ~RestoredLinks(e)[c].active}

\* restore_snapshot(): a machine goes on running, a container is stopped.  What was
\* recorded of the connections comes back as it was.
RestoreSnapshot(e) ==
    /\ status[e] # "gone" /\ NextCommand(e) /\ e \in kept.of
    /\ conn' = RestoredLinks(e)
    /\ IF e \in Machine
       THEN UNCHANGED <<status, alive, stale, engines>>
       ELSE /\ status' = [status EXCEPT ![e] = "stopped"] /\ GuestEnds(e)
            /\ rule' = rule \ (Agent \cap Touching(e)) /\ UNCHANGED folder
    /\ history' = [sound |-> FALSE, calm |-> FALSE, leftover |-> history.leftover \cup Unaccounted(e)]
    /\ owed' = owed \cup {e}
    /\ UNCHANGED <<moving, op, kept>>

\* restore_backup(): the environment is stopped and its rules are removed, then its
\* connections come back as pending.
RestoreRules(e) ==
    /\ status[e] # "gone" /\ NextCommand(e) /\ e \in kept.of
    /\ GuestEnds(e)
    /\ rule' = rule \ {c \in Touching(e) : HasRecord(c) \/ c \in Agent}
    /\ folder' = folder \ {c \in Touching(e) : HasRecord(c)}
    /\ Busy(e, "restoring") /\ Disturb
    /\ UNCHANGED <<status, conn, op, owed, kept>>

RestoreSave(e) ==
    /\ moving[e] = "restoring" /\ Busy(e, "none")
    /\ \/ /\ status' = [status EXCEPT ![e] = "stopped"]
          /\ conn' = Pending(e, RestoredLinks(e))
          /\ owed' = owed \cup {e}
          /\ history' = [sound |-> FALSE, calm |-> FALSE, leftover |-> history.leftover \cup Unaccounted(e)]
       \/ Disturb /\ UNCHANGED <<status, conn, owed>>
    /\ UNCHANGED <<alive, stale, engines, op, kept, commands>>

\* The program ends at any moment and starts again: lib.rs records every environment
\* as stopped and every connection as pending.
Restart ==
    /\ status' = [e \in Env |-> IF status[e] = "gone" THEN "gone" ELSE "stopped"]
    /\ conn' = [c \in Link |-> IF HasRecord(c) THEN [conn[c] EXCEPT !.enf = "pending"] ELSE None]
    /\ alive' = {} /\ stale' = {} /\ moving' = [e \in Env |-> "none"]
    /\ rule' = {} /\ folder' = {} /\ op' = Free /\ owed' = {}
    /\ history' = [sound |-> FALSE, calm |-> FALSE, leftover |-> {}]
    /\ UNCHANGED <<kept, commands>>

LinksNext ==
    \/ Restart \/ ApplyRule \/ ApplyAgentRule \/ ApplyFolder \/ ReconcileSave \/ CreateSave \/ RecordWithdrawn
    \/ \E c \in Link : CreateConnection(c) \/ Activate(c) \/ WithdrawFails(c)
    \/ \E c \in Link, do \in {"off", "delete"} : Withdraw(c, do)
    \/ \E e \in Env :
         \/ Reconcile(e) \/ Start(e) \/ StartSave(e) \/ Stop(e) \/ StopSave(e) \/ CrashGuest(e)
         \/ Notice(e) \/ Refresh(e) \/ DeleteRules(e) \/ DeleteEngine(e) \/ DeleteSave(e)
         \/ TakeSnapshot(e) \/ RestoreSnapshot(e) \/ RestoreRules(e) \/ RestoreSave(e)

LinksSpec == LinksInit /\ [][LinksNext]_linksVars

-----------------------------------------------------------------------------
(* Properties                                                                 *)

Quiet == op = Free /\ \A e \in Env : moving[e] = "none"
InForce(c) == c \in rule /\ (c \in Storage \ Agent => c \in folder)

\* No rule is in force and no folder shared for a connection that was deleted or switched
\* off, except where a restore replaced the record of a connection in force, or an engine
\* did not answer when the rule of a connection was to be made, or taken back, that could
\* not be recorded (create_connection, delete_connection and restore_snapshot in
\* commands.rs).
NoLeftoverRule ==
    Quiet => \A c \in rule \cup folder :
        \/ conn[c].active
        \/ \E e \in Joined[c] : status[e] = "gone"
        \/ c \in history.leftover

\* After a reconciliation that succeeded and saw no environment change, and for as
\* long as none does, no socket of an ended guest is found closed and no engine leaves
\* a withdrawal without an answer, every active connection between running environments
\* is in force and recorded as such, whatever commands on connections follow or fail
\* (reconcile_connections_locked in commands.rs).
ReconciledInForce ==
    (op = Free /\ history.sound) =>
        \A c \in Link : (conn[c].active /\ \A e \in Joined[c] : Running(e))
                          => InForce(c) /\ conn[c].enf = "enforced"
=============================================================================
