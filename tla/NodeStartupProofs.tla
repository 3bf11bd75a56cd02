------------------------- MODULE NodeStartupProofs -------------------------
(***************************************************************************)
(* Proofs about NodeStartup, for any number of processes, starts and       *)
(* failures.                                                               *)
(***************************************************************************)
EXTENDS NodeStartup, TLAPS

USE InitArgsAssumption, ConfigArgsAssumption, BoundsAssumption

(* The steps at which a node has its pool.                                 *)
PoolSteps == {"spawn", "await_hub", "serving"}

(* Who is connected has a database, which nobody can drop meanwhile; only  *)
(* a node has a pool; from the end of the migrations to the end of         *)
(* setup_db the database has its tables; a hub runs only where it was      *)
(* spawned, and a node that serves was told by it.                         *)
StartInv ==
    /\ TypeOK
    /\ \A p \in Processes :
         /\ Connected(p) => db # "missing"
         /\ p \in held => pc[p] \in PoolSteps
         /\ pc[p] \in {"check", "ready"} => db = "whole"
         /\ pc[p] \notin {"await_hub", "serving"} => hub[p] = "none"
         /\ pc[p] = "serving" => hub[p] \notin {"none", "starting"}

LEMMA StartInvInit == Init => StartInv
  BY DEF Init, StartInv, TypeOK, Connected, Stopped

LEMMA AfterInitSteps == \A a : AfterInit(a) \in {"ended", "load_config"}
  BY DEF AfterInit

(* Every step of p leaves the other processes where they are.  What it     *)
(* does to p and to the database decides whether the invariant is kept.    *)
LEMMA OneProcess ==
    ASSUME StartInv, NEW p \in Processes, NEW step, NEW state, NEW base,
           step \in SetupSteps \union NodeSteps \union Stopped,
           state \in {"none", "starting", "published", "bound", "dead"},
           base \in {"missing", "empty", "whole"},
           pc' = [pc EXCEPT ![p] = step],
           hub' = [hub EXCEPT ![p] = state],
           held' \subseteq Processes,
           \A q \in Processes \ {p} : q \in held' <=> q \in held,
           db' = base,
           args' \in [Processes -> [init : InitArgs, config : ConfigArgs]],
           \A q \in Processes \ {p} : args'[q] = args[q],
           starts' \in [Processes -> 0..MaxStarts],
           faults' \in 0..MaxFaults,
           p \in held' => step \in PoolSteps,
           Connected(p)' => base # "missing",
           step \in {"check", "ready"} => base = "whole",
           step \notin {"await_hub", "serving"} => state = "none",
           step = "serving" => state \notin {"none", "starting"},
           \/ base = db \/ base = "whole"
           \/ db = "missing"
           \/ \A q \in Processes : ~Connected(q)
    PROVE  StartInv'
<1>1. TypeOK'
  BY DEF StartInv, TypeOK
<1>2. pc'[p] = step /\ hub'[p] = state
  BY DEF StartInv, TypeOK
<1>3. ASSUME NEW q \in Processes \ {p}
      PROVE  /\ pc'[q] = pc[q] /\ hub'[q] = hub[q] /\ (q \in held' <=> q \in held)
             /\ (Connected(q)' <=> Connected(q))
  BY <1>3 DEF StartInv, TypeOK, Connected
<1>4. ASSUME NEW q \in Processes \ {p}
      PROVE  /\ Connected(q)' => db' # "missing"
             /\ q \in held' => pc'[q] \in PoolSteps
             /\ pc'[q] \in {"check", "ready"} => db' = "whole"
             /\ pc'[q] \notin {"await_hub", "serving"} => hub'[q] = "none"
             /\ pc'[q] = "serving" => hub'[q] \notin {"none", "starting"}
  <2>1. pc[q] \in {"check", "ready"} => Connected(q)
    BY DEF Connected
  <2> QED
    BY <1>3, <2>1 DEF StartInv
<1> QED
  BY <1>1, <1>2, <1>4 DEF StartInv

(* The end of a process disturbs nothing, whatever it did to the database. *)
LEMMA Ending ==
    ASSUME StartInv, NEW p \in Processes, End(p),
           args' = args, starts' = starts, faults' \in 0..MaxFaults,
           db' \in {"missing", "empty", "whole"},
           \/ db' = db \/ db' = "whole" \/ db = "missing"
           \/ \A q \in Processes : ~Connected(q)
    PROVE  StartInv'
<1>1. ~Connected(p)'
  BY DEF End, Connected, StartInv, TypeOK
<1>2. /\ args' \in [Processes -> [init : InitArgs, config : ConfigArgs]]
      /\ starts' \in [Processes -> 0..MaxStarts]
      /\ \A q \in Processes \ {p} : args'[q] = args[q]
  BY DEF StartInv, TypeOK
<1>3. /\ held' \subseteq Processes
      /\ (\A q \in Processes \ {p} : q \in held' <=> q \in held)
      /\ p \notin held'
  BY DEF End, StartInv, TypeOK
<1> QED
  BY <1>1, <1>2, <1>3, OneProcess DEF End, Stopped

(* A step of p that goes on, with the hub and the pool as they are.        *)
LEMMA Going ==
    ASSUME StartInv, NEW p \in Processes, NEW step,
           step \in SetupSteps \union NodeSteps \union Stopped,
           Goto(p, step), pc[p] \notin Stopped,
           args' = args, starts' = starts, faults' = faults,
           db' \in {"missing", "empty", "whole"},
           p \in held => step \in PoolSteps,
           Connected(p)' => db' # "missing",
           step \in {"check", "ready"} => db' = "whole",
           step \notin {"await_hub", "serving"} => hub[p] = "none",
           step = "serving" => hub[p] \notin {"none", "starting"},
           \/ db' = db \/ db' = "whole" \/ db = "missing"
           \/ \A q \in Processes : ~Connected(q)
    PROVE  StartInv'
<1>1. hub' = [hub EXCEPT ![p] = hub[p]] /\ hub[p] \in {"none", "starting", "published", "bound", "dead"}
  BY DEF Goto, StartInv, TypeOK
<1>2. /\ args' \in [Processes -> [init : InitArgs, config : ConfigArgs]]
      /\ starts' \in [Processes -> 0..MaxStarts] /\ faults' \in 0..MaxFaults
      /\ \A q \in Processes \ {p} : args'[q] = args[q]
  BY DEF StartInv, TypeOK
<1>3. held' = held /\ held \subseteq Processes
  BY DEF Goto, StartInv, TypeOK
<1> QED
  BY <1>1, <1>2, <1>3, OneProcess DEF Goto

LEMMA StartInvStep == StartInv /\ [Next]_vars => StartInv'
<1> SUFFICES ASSUME StartInv, [Next]_vars PROVE StartInv'
  OBVIOUS
<1> USE DEF SetupSteps, NodeSteps, PoolSteps, Stopped
<1>0. \A p \in Processes :
        /\ pc[p] \notin {"await_hub", "serving"} => hub[p] = "none"
        /\ pc[p] \notin PoolSteps => p \notin held
        /\ db \in {"missing", "empty", "whole"} /\ faults \in 0..MaxFaults
        /\ args[p] \in [init : InitArgs, config : ConfigArgs]
        /\ starts[p] \in 0..MaxStarts
  BY DEF StartInv, TypeOK
<1>1. ASSUME NEW p \in Processes, run_cli(p) PROVE StartInv'
  <2>1. PICK a \in [init : InitArgs, config : ConfigArgs] :
          /\ args' = [args EXCEPT ![p] = a]
          /\ Goto(p, IF a.init = "none" THEN AfterInit(a) ELSE "connect")
    BY <1>1 DEF run_cli
  <2> DEFINE step == IF a.init = "none" THEN AfterInit(a) ELSE "connect"
  <2>2. step \in {"ended", "load_config", "connect"}
    BY AfterInitSteps
  <2>3. /\ pc' = [pc EXCEPT ![p] = step] /\ hub' = [hub EXCEPT ![p] = "none"]
        /\ db' = db /\ held' = held /\ held \subseteq Processes /\ p \notin held
    BY <1>0, <1>1, <2>1 DEF run_cli, Goto, StartInv, TypeOK
  <2>4. /\ args' \in [Processes -> [init : InitArgs, config : ConfigArgs]]
        /\ \A q \in Processes \ {p} : args'[q] = args[q]
        /\ starts' \in [Processes -> 0..MaxStarts]
        /\ faults' \in 0..MaxFaults
    BY <1>0, <1>1, <2>1 DEF run_cli, StartInv, TypeOK
  <2>5. ~Connected(p)'
    BY <2>2, <2>3 DEF Connected, StartInv, TypeOK
  <2> HIDE DEF step
  <2> QED
    BY <1>0, <2>2, <2>3, <2>4, <2>5, OneProcess
<1>2. ASSUME NEW p \in Processes, connect(p) PROVE StartInv'
  <2> DEFINE ok == args[p].init = "plain" \/ (args[p].init = "query" /\ db # "missing")
  <2>1. CASE ~ok
    <3>1. End(p) /\ UNCHANGED <<args, starts, db, faults>>
      BY <1>2, <2>1 DEF connect, Try
    <3> QED
      BY <1>0, <3>1, Ending
  <2>2. CASE ok
    <3>1. Goto(p, "drop") /\ pc[p] = "connect" /\ UNCHANGED <<args, starts, db, faults>>
      BY <1>2, <2>2 DEF connect, Try
    <3>2. Connected(p)' => db' # "missing"
      BY <2>2, <3>1 DEF Goto, Connected, StartInv, TypeOK
    <3>3. hub[p] = "none"
      BY <3>1 DEF StartInv
    <3> QED
      BY <1>0, <3>1, <3>2, <3>3, Going
  <2> QED
    BY <2>1, <2>2
<1>3. ASSUME NEW p \in Processes, drop_database(p) PROVE StartInv'
  <2> DEFINE free == \A q \in Processes : ~Connected(q)
  <2>1. CASE ~free
    BY <1>0, <1>3, <2>1, Ending DEF drop_database, Try
  <2>2. CASE free
    <3>1. Goto(p, "create") /\ db' = "missing" /\ UNCHANGED <<args, starts, faults>> /\ pc[p] = "drop"
      BY <1>3, <2>2 DEF drop_database, Try
    <3>2. ~Connected(p)'
      BY <3>1 DEF Goto, Connected, StartInv, TypeOK
    <3> QED
      BY <1>0, <2>2, <3>1, <3>2, Going
  <2> QED
    BY <2>1, <2>2
<1>4. ASSUME NEW p \in Processes, create_database(p) PROVE StartInv'
  <2>1. CASE db # "missing"
    BY <1>0, <1>4, <2>1, Ending DEF create_database, Try
  <2>2. CASE db = "missing"
    <3>1. Goto(p, "reconnect") /\ db' = "empty" /\ UNCHANGED <<args, starts, faults>> /\ pc[p] = "create"
      BY <1>4, <2>2 DEF create_database, Try
    <3> QED
      BY <1>0, <2>2, <3>1, Going
  <2> QED
    BY <2>1, <2>2
<1>5. ASSUME NEW p \in Processes, reconnect(p) PROVE StartInv'
  BY <1>0, <1>5, Ending, Going DEF reconnect, Try
<1>6. ASSUME NEW p \in Processes, migrate(p) PROVE StartInv'
  <2>1. db' = "whole" /\ UNCHANGED <<args, starts, faults>> /\ pc[p] = "migrate"
    BY <1>6 DEF migrate
  <2>2. End(p) \/ Goto(p, "check")
    BY <1>6 DEF migrate, Try
  <2> QED
    BY <1>0, <2>1, <2>2, Ending, Going
<1>7. ASSUME NEW p \in Processes, has_table(p) PROVE StartInv'
  BY <1>0, <1>7, Ending, Going DEF has_table, Try
<1>8. ASSUME NEW p \in Processes, close(p) PROVE StartInv'
  <2>1. /\ pc[p] = "ready" /\ Goto(p, AfterInit(args[p]))
        /\ UNCHANGED <<args, starts, db, faults>>
    BY <1>8 DEF close
  <2> DEFINE step == AfterInit(args[p])
  <2>2. step \in {"ended", "load_config"}
    BY AfterInitSteps
  <2> HIDE DEF step
  <2>3. Goto(p, step)
    BY <2>1 DEF step
  <2>4. ~Connected(p)' /\ hub[p] = "none"
    BY <1>0, <2>1, <2>2, <2>3 DEF Goto, Connected, StartInv, TypeOK
  <2> QED
    BY <1>0, <2>1, <2>2, <2>3, <2>4, Going
<1>9. ASSUME NEW p \in Processes, construct_node_config(p) PROVE StartInv'
  <2>1. /\ End(p) \/ Goto(p, "create_operator")
        /\ pc[p] = "load_config" /\ UNCHANGED <<args, starts, db, faults>>
    BY <1>9 DEF construct_node_config, Try
  <2>2. Goto(p, "create_operator") => ~Connected(p)'
    BY <1>0, <2>1 DEF Goto, Connected, StartInv, TypeOK
  <2> QED
    BY <1>0, <2>1, <2>2, Ending, Going
<1>10. ASSUME NEW p \in Processes, create_operator(p) PROVE StartInv'
  <2>1. /\ End(p) \/ Goto(p, "storage")
        /\ pc[p] = "create_operator" /\ UNCHANGED <<args, starts, db, faults>>
    BY <1>10 DEF create_operator, Try
  <2>2. Goto(p, "storage") => ~Connected(p)'
    BY <1>0, <2>1 DEF Goto, Connected, StartInv, TypeOK
  <2> QED
    BY <1>0, <2>1, <2>2, Ending, Going
<1>11. ASSUME NEW p \in Processes, storage_new(p) PROVE StartInv'
  <2>1. CASE db = "missing"
    BY <1>0, <1>11, <2>1, Ending DEF storage_new
  <2>2. CASE db # "missing"
    <3>1. /\ pc' = [pc EXCEPT ![p] = "spawn"] /\ held' = held \union {p} /\ hub' = hub
          /\ pc[p] = "storage" /\ UNCHANGED <<args, starts, db, faults>>
      BY <1>11, <2>2 DEF storage_new
    <3> QED
      BY <2>2, <3>1 DEF StartInv, TypeOK, Connected
  <2> QED
    BY <2>1, <2>2
<1>12. ASSUME NEW p \in Processes, initialize_node(p) PROVE StartInv'
  <2>1. /\ pc' = [pc EXCEPT ![p] = "await_hub"] /\ hub' = [hub EXCEPT ![p] = "starting"]
        /\ pc[p] = "spawn" /\ UNCHANGED <<args, starts, held, db, faults>>
    BY <1>12 DEF initialize_node
  <2> QED
    BY <2>1 DEF StartInv, TypeOK, Connected
<1>13. ASSUME NEW p \in Processes, set_hub_state(p) PROVE StartInv'
  <2>1. /\ pc[p] = "await_hub" /\ hub[p] \notin {"none", "starting"}
        /\ Goto(p, "serving") /\ UNCHANGED <<args, starts, db, faults>>
    BY <1>13 DEF set_hub_state
  <2>2. Connected(p)' => Connected(p)
    BY <2>1 DEF Goto, Connected, StartInv, TypeOK
  <2> QED
    BY <1>0, <2>1, <2>2, Going DEF StartInv
<1>14. ASSUME NEW p \in Processes, publish(p) PROVE StartInv'
  BY <1>14 DEF publish, StartInv, TypeOK, Connected
<1>15. ASSUME NEW p \in Processes, bind(p) PROVE StartInv'
  <2>1. PICK state \in {"dead", "bound"} : hub' = [hub EXCEPT ![p] = state]
    BY <1>15 DEF bind
  <2>2. hub[p] = "published" /\ UNCHANGED <<pc, args, starts, held, db, faults>>
    BY <1>15 DEF bind
  <2> QED
    BY <2>1, <2>2 DEF StartInv, TypeOK, Connected
<1>16. ASSUME NEW p \in Processes, call_fails(p) PROVE StartInv'
  <2>1. End(p) /\ UNCHANGED <<args, starts>> /\ faults' \in 0..MaxFaults
    BY <1>0, <1>16 DEF call_fails
  <2>2. \/ db' = db \/ db' = "whole"
        \/ db' = "missing" /\ \A q \in Processes : ~Connected(q)
        \/ db' = "empty" /\ db = "missing"
    BY <1>16 DEF call_fails
  <2> QED
    BY <1>0, <2>1, <2>2, Ending
<1>17. ASSUME NEW p \in Processes, kill(p) PROVE StartInv'
  <2>1. End(p) /\ UNCHANGED <<args, starts, db>> /\ faults' \in 0..MaxFaults
    BY <1>0, <1>17 DEF kill
  <2> QED
    BY <1>0, <2>1, Ending
<1>18. ASSUME NEW p \in Processes, pool_lets_go(p) PROVE StartInv'
  <2>1. held' \subseteq held /\ UNCHANGED <<pc, args, starts, hub, db, faults>>
    BY <1>18 DEF pool_lets_go
  <2> QED
    BY <2>1 DEF StartInv, TypeOK, Connected
<1>19. ASSUME NEW p \in Processes, pool_connects(p) PROVE StartInv'
  <2>1. /\ held' = held \union {p} /\ db # "missing" /\ pc[p] \in PoolSteps
        /\ UNCHANGED <<pc, args, starts, hub, db, faults>>
    BY <1>19 DEF pool_connects
  <2> QED
    BY <2>1 DEF StartInv, TypeOK, Connected
<1>20. CASE UNCHANGED vars
  BY <1>20 DEF vars, StartInv, TypeOK, Connected
<1> QED
  BY <1>1, <1>2, <1>3, <1>4, <1>5, <1>6, <1>7, <1>8, <1>9, <1>10, <1>11, <1>12,
     <1>13, <1>14, <1>15, <1>16, <1>17, <1>18, <1>19, <1>20
     DEF Next, main, server, pool

LEMMA Starting == Spec => []StartInv
  BY StartInvInit, StartInvStep, PTL DEF Spec

(* Every process is at one of the steps of run_cli, and the database is    *)
(* missing, empty or whole: the migrations leave nothing in between.       *)
THEOREM TypeCorrect == Spec => []TypeOK
  BY Starting, PTL DEF StartInv

(* "Setup database success" means a database with all its tables, however  *)
(* many processes set it up at the same time and wherever they fail.       *)
THEOREM SetupIsWhole == Spec => []SetupMeansWhole
<1>1. StartInv => SetupMeansWhole
  BY DEF StartInv, SetupMeansWhole
<1> QED
  BY Starting, <1>1, PTL

(* A node that serves has the state of its hub.                            *)
THEOREM HubFirst == Spec => []HubBeforeJobs
<1>1. StartInv => HubBeforeJobs
  BY DEF StartInv, HubBeforeJobs
<1> QED
  BY Starting, <1>1, PTL
=============================================================================
