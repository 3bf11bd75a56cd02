---------------------------- MODULE NodeStartup ----------------------------
(***************************************************************************)
(* From the command line to a serving node: run_cli with its options -i    *)
(* (drop and create the database, cli/command.rs and pg_client.rs) and -c  *)
(* (read the configuration, connect to the database, start the verify hub, *)
(* serve).  Several processes do this against one Postgres server and one  *)
(* callback address; a call to the database may fail, carried out or not,  *)
(* and a process may be killed at any step.                                *)
(***************************************************************************)
EXTENDS Integers

CONSTANTS
    Processes,
    InitArgs,      \* what -i may be given
    ConfigArgs,    \* what -c may be given
    MaxStarts,     \* bound on the times a process is started
    MaxFaults      \* bound on failing calls and killed processes

(* -i: a connection string; one with parameters after the name ("query")   *)
(* is not shortened to its server, so the first connection is to the       *)
(* database itself; "unusable" has no name or does not parse.              *)
ASSUME InitArgsAssumption ==
    "none" \in InitArgs /\ InitArgs \subseteq {"none", "plain", "query", "unusable"}

(* -c: "config" is refused by load_config, "material" by create_operator   *)
(* (the contract's address, the VRF key).                                  *)
ASSUME ConfigArgsAssumption ==
    "none" \in ConfigArgs /\ ConfigArgs \subseteq {"none", "good", "config", "material"}

ASSUME BoundsAssumption == MaxStarts \in Nat /\ MaxFaults \in Nat

VARIABLES
    pc,        \* where run_cli of a process is
    args,      \* its command line
    starts,    \* how often it was started
    hub,       \* its server::run
    held,      \* the nodes whose pool holds a connection to the database
    db,        \* the database on the server
    faults     \* how many failures there were

vars == <<pc, args, starts, hub, held, db, faults>>

SetupSteps == {"connect", "drop", "create", "reconnect", "migrate", "check", "ready"}
NodeSteps == {"load_config", "create_operator", "storage", "spawn", "await_hub", "serving"}
Stopped == {"idle", "ended"}

TypeOK ==
    /\ pc \in [Processes -> SetupSteps \union NodeSteps \union Stopped]
    /\ args \in [Processes -> [init : InitArgs, config : ConfigArgs]]
    /\ starts \in [Processes -> 0..MaxStarts]
    /\ hub \in [Processes -> {"none", "starting", "published", "bound", "dead"}]
    /\ held \subseteq Processes
    /\ db \in {"missing", "empty", "whole"}
    /\ faults \in 0..MaxFaults

(* The machine before the first start, or after a set-up long ago.         *)
Init ==
    /\ pc = [p \in Processes |-> "idle"]
    /\ args = [p \in Processes |-> [init |-> "none", config |-> "none"]]
    /\ starts = [p \in Processes |-> 0]
    /\ hub = [p \in Processes |-> "none"]
    /\ held = {}
    /\ db \in {"missing", "whole"}
    /\ faults = 0

\* Mutant: setup_db connects for each statement.
M_Connected_nodes(p) ==
    \/ p \in held
    \/ pc[p] = "drop" /\ args[p].init = "query"

(* Who has a connection to the database: setup_db after it connected       *)
(* again, a node while its pool holds one, and who never connected to the  *)
(* server alone.                                                           *)
Connected(p) ==
    \/ pc[p] \in {"migrate", "check", "ready"}
    \/ p \in held
    \/ pc[p] = "drop" /\ args[p].init = "query"

-----------------------------------------------------------------------------
(* The end of a process, whichever way: its tasks and connections go too.  *)
End(p) ==
    /\ pc' = [pc EXCEPT ![p] = "ended"]
    /\ hub' = [hub EXCEPT ![p] = "none"]
    /\ held' = held \ {p}

Goto(p, step) ==
    /\ pc' = [pc EXCEPT ![p] = step]
    /\ UNCHANGED <<hub, held>>

(* One step of p: where it goes when the call succeeds, and that it ends   *)
(* when it does not.                                                       *)
Try(p, ok, step) == IF ok THEN Goto(p, step) ELSE End(p)

AfterInit(a) == IF a.config = "none" THEN "ended" ELSE "load_config"

run_cli(p) ==
    /\ pc[p] \in Stopped
    /\ starts[p] < MaxStarts
    /\ starts' = [starts EXCEPT ![p] = @ + 1]
    /\ \E a \in [init : InitArgs, config : ConfigArgs] :
        /\ args' = [args EXCEPT ![p] = a]
        /\ Goto(p, IF a.init = "none" THEN AfterInit(a) ELSE "connect")
    /\ UNCHANGED <<db, faults>>

(* init_db and the first connection of setup_db.                           *)
connect(p) ==
    /\ pc[p] = "connect"
    /\ Try(p, \/ args[p].init = "plain"
              \/ args[p].init = "query" /\ db # "missing", "drop")
    /\ UNCHANGED <<args, starts, db, faults>>

\* Mutant: the database is not dropped first.
M_drop_database_skipped(p) ==
    /\ pc[p] = "drop"
    /\ Goto(p, "create")
    /\ UNCHANGED <<args, starts, db, faults>>

(* DROP DATABASE IF EXISTS: Postgres refuses it while anyone is connected. *)
drop_database(p) ==
    /\ pc[p] = "drop"
    /\ LET free == \A q \in Processes : ~Connected(q)
       IN  /\ Try(p, free, "create")
           /\ db' = IF free THEN "missing" ELSE db
    /\ UNCHANGED <<args, starts, faults>>

create_database(p) ==
    /\ pc[p] = "create"
    /\ Try(p, db = "missing", "reconnect")
    /\ db' = IF db = "missing" THEN "empty" ELSE db
    /\ UNCHANGED <<args, starts, faults>>

reconnect(p) ==
    /\ pc[p] = "reconnect"
    /\ Try(p, db # "missing", "migrate")
    /\ UNCHANGED <<args, starts, db, faults>>

(* Migrator::up: both migrations in one transaction, or none when they     *)
(* have been applied.  Two at a time collide, and the later one fails.     *)
migrate(p) ==
    /\ pc[p] = "migrate"
    /\ \E ok \in IF db = "whole" THEN BOOLEAN ELSE {TRUE} : Try(p, ok, "check")
    /\ db' = "whole"
    /\ UNCHANGED <<args, starts, faults>>

(* assert!(has_table("clock_infos"))                                       *)
has_table(p) ==
    /\ pc[p] = "check"
    /\ Try(p, db = "whole", "ready")
    /\ UNCHANGED <<args, starts, db, faults>>

close(p) ==
    /\ pc[p] = "ready"
    /\ Goto(p, AfterInit(args[p]))
    /\ UNCHANGED <<args, starts, db, faults>>

-----------------------------------------------------------------------------
(* construct_node_config: exit(42) or a panic on any error.                *)
construct_node_config(p) ==
    /\ pc[p] = "load_config"
    /\ Try(p, args[p].config # "config", "create_operator")
    /\ UNCHANGED <<args, starts, db, faults>>

(* The contract and the keys of create_operator, whose error build_operator*)
(* unwraps.                                                                *)
create_operator(p) ==
    /\ pc[p] = "create_operator"
    /\ Try(p, args[p].config = "good", "storage")
    /\ UNCHANGED <<args, starts, db, faults>>

(* Storage::new connects, and does not look at what it connected to.       *)
storage_new(p) ==
    /\ pc[p] = "storage"
    /\ IF db = "missing" THEN End(p)
       ELSE /\ pc' = [pc EXCEPT ![p] = "spawn"]
            /\ held' = held \union {p}
            /\ UNCHANGED hub
    /\ UNCHANGED <<args, starts, db, faults>>

(* The pool of a node: it gives up the connections that were idle or open  *)
(* too long, all of them unless min_connect_pool says otherwise, and       *)
(* connects again when one is needed.                                      *)
pool_lets_go(p) ==
    /\ p \in held
    /\ held' = held \ {p}
    /\ UNCHANGED <<pc, args, starts, hub, db, faults>>

pool_connects(p) ==
    /\ pc[p] \in {"spawn", "await_hub", "serving"}
    /\ p \notin held
    /\ db # "missing"
    /\ held' = held \union {p}
    /\ UNCHANGED <<pc, args, starts, hub, db, faults>>

\* Mutant: the hub is spawned and not waited for.
M_initialize_node_at_once(p) ==
    /\ pc[p] = "spawn"
    /\ pc' = [pc EXCEPT ![p] = "serving"]
    /\ hub' = [hub EXCEPT ![p] = "starting"]
    /\ UNCHANGED <<args, starts, held, db, faults>>

initialize_node(p) ==
    /\ pc[p] = "spawn"
    /\ pc' = [pc EXCEPT ![p] = "await_hub"]
    /\ hub' = [hub EXCEPT ![p] = "starting"]
    /\ UNCHANGED <<args, starts, held, db, faults>>

\* Mutant: the node waits until its hub listens.
M_set_hub_state_bound(p) ==
    /\ pc[p] = "await_hub"
    /\ hub[p] = "bound"
    /\ Goto(p, "serving")
    /\ UNCHANGED <<args, starts, db, faults>>

(* The oneshot of initialize_node: hub_state is set, handle_connection     *)
(* begins.                                                                 *)
set_hub_state(p) ==
    /\ pc[p] = "await_hub"
    /\ hub[p] \in {"published", "bound", "dead"}
    /\ Goto(p, "serving")
    /\ UNCHANGED <<args, starts, db, faults>>

(* server::run sends its state, and only then binds its address; when that *)
(* fails the task panics, which nobody notices.                            *)
publish(p) ==
    /\ hub[p] = "starting"
    /\ hub' = [hub EXCEPT ![p] = "published"]
    /\ UNCHANGED <<pc, args, starts, held, db, faults>>

bind(p) ==
    /\ hub[p] = "published"
    /\ hub' = [hub EXCEPT ![p] =
                IF \E q \in Processes : hub[q] = "bound" THEN "dead" ELSE "bound"]
    /\ UNCHANGED <<pc, args, starts, held, db, faults>>

-----------------------------------------------------------------------------
(* A call to the database fails, before or after it was carried out.       *)
call_fails(p) ==
    /\ pc[p] \in {"connect", "drop", "create", "reconnect", "migrate", "check", "storage"}
    /\ faults < MaxFaults
    /\ faults' = faults + 1
    /\ End(p)
    /\ db' \in {db} \union
              (IF pc[p] = "drop" /\ \A q \in Processes : ~Connected(q)
                 THEN {"missing"} ELSE {})
              \union (IF pc[p] = "create" /\ db = "missing" THEN {"empty"} ELSE {})
              \union (IF pc[p] = "migrate" THEN {"whole"} ELSE {})
    /\ UNCHANGED <<args, starts>>

kill(p) ==
    /\ pc[p] \notin Stopped
    /\ faults < MaxFaults
    /\ faults' = faults + 1
    /\ End(p)
    /\ UNCHANGED <<args, starts, db>>

main(p) ==
    \/ connect(p) \/ drop_database(p) \/ create_database(p) \/ reconnect(p)
    \/ migrate(p) \/ has_table(p) \/ close(p)
    \/ construct_node_config(p) \/ create_operator(p) \/ storage_new(p)
    \/ initialize_node(p) \/ set_hub_state(p)

server(p) == publish(p) \/ bind(p)

pool(p) == pool_lets_go(p) \/ pool_connects(p)

Next ==
    \E p \in Processes :
        run_cli(p) \/ main(p) \/ server(p) \/ pool(p) \/ call_fails(p) \/ kill(p)

Spec == Init /\ [][Next]_vars

(* A process that was started runs; nobody has to start one.               *)
FairSpec ==
    /\ Spec
    /\ \A p \in Processes : WF_vars(main(p)) /\ WF_vars(server(p))

-----------------------------------------------------------------------------
(* "Setup database success" is said of a database with all its tables,     *)
(* whatever other processes set up at the same time.                       *)
SetupMeansWhole ==
    \A p \in Processes : pc[p] = "ready" => db = "whole"

(* do_job always finds hub_state, though the hub is another task that may  *)
(* have died since: it binds its address after it published its state, and *)
(* of two nodes with one address the second stays deaf.                    *)
HubBeforeJobs ==
    \A p \in Processes : pc[p] = "serving" => hub[p] \notin {"none", "starting"}

(* A start comes to an end or to a node that serves.                       *)
StartsOrEnds ==
    \A p \in Processes :
        pc[p] \notin Stopped ~> pc[p] \in {"serving", "ended"}

Alone(p) == \A q \in Processes \ {p} : pc[q] \in Stopped

(* Whatever an earlier start left behind, killed between DROP and CREATE   *)
(* or before the migrations: when nothing fails any more, setting up again *)
(* with no other process around gives a node on a whole database.          *)
SettingUpAgainWorks ==
    \A p \in Processes :
        (/\ pc[p] = "connect" /\ args[p] = [init |-> "plain", config |-> "good"]
         /\ Alone(p) /\ faults = MaxFaults)
            ~> (~Alone(p) \/ (pc[p] = "serving" /\ db = "whole"))
=============================================================================
