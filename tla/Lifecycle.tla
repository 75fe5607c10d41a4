------------------------------ MODULE Lifecycle ------------------------------
(***************************************************************************)
(* The daemon from start to end (backend/src/main.c): what it opens, which *)
(* threads it creates (scheduler.c, api_http.c, api_unix.c, fetch_ws.c),   *)
(* and how a signal makes it stop them and close everything; and start.sh, *)
(* which stops the daemons it finds and launches another.                  *)
(*                                                                         *)
(* Daemons share the HTTP port and the name of the socket file.  A daemon  *)
(* is a process: when it ends, in whatever way, its threads and its port   *)
(* go with it, but not the socket file.  Every daemon has one WebSocket    *)
(* connection (module WsConn).  Threads of the scheduler run until they    *)
(* see that it is no longer running: RestPool shows that they do.          *)
(***************************************************************************)
EXTENDS WsConn, Sequences, FiniteSets

CONSTANTS
  Daemons,      \* the processes that may be launched, in all
  WorkerSlots,  \* the sequence of the REST worker threads
  MayFail       \* what may fail to be opened, allocated or created

ASSUME DaemonsAssumption == Daemons = Conns /\ "none" \notin Daemons
ASSUME SlotsAssumption ==
  /\ WorkerSlots \in Seq({WorkerSlots[k] : k \in DOMAIN WorkerSlots})
  /\ \A j, k \in 1..Len(WorkerSlots) : j # k => WorkerSlots[j] # WorkerSlots[k]
  /\ \A k \in 1..Len(WorkerSlots) :
       WorkerSlots[k] \notin {"rss", "dispatch", "prune", "http", "unix"}

Workers == {WorkerSlots[k] : k \in 1..Len(WorkerSlots)}
Pool == Workers \cup {"rss", "dispatch", "prune"}
Threads == Pool \cup {"http", "unix"}

VARIABLES
  mpc,        \* where main is; "off" before the process, "dead" after it
  g_running,  \* cleared by the signal handler
  db, sched,  \* "none", "live" or "freed"
  running,    \* sched->running
  count,      \* sched->rest_worker_count
  thread,     \* "none", "run" or "done"; the Unix server's also "select", while
              \* it awaits a client, and "client", while it serves one
  joined,     \* how many joins mc_scheduler_stop has done
  unix_running,
  port,       \* the daemon that listens on the HTTP port
  path,       \* the daemon whose socket the socket file leads to
  script,     \* where start.sh is
  pid,        \* the pid file
  told        \* the daemons start.sh has said are started

mainVars == <<g_running, db, sched, running, count, joined, unix_running>>
scriptVars == <<script, pid, told>>
vars == <<mpc, g_running, db, sched, running, count, thread, joined,
          unix_running, port, path, script, pid, told, wsVars>>

MainPc == {"off", "open", "migrate", "start", "http", "unlink", "bind",
           "sigaction", "loop", "stopUnix", "joinUnix", "stopHttp", "stopSched",
           "join", "disconnect", "freeWs", "destroy", "close", "dead"}

Nobody == "none"
Up(d) == mpc[d] \notin {"off", "dead"}
Handled(d) == Up(d) /\ mpc[d] \notin {"open", "migrate", "start", "http",
                                      "unlink", "bind", "sigaction"}

Init ==
  /\ mpc = [d \in Daemons |-> "off"]
  /\ g_running = [d \in Daemons |-> TRUE]
  /\ db = [d \in Daemons |-> "none"]
  /\ sched = [d \in Daemons |-> "none"]
  /\ running = [d \in Daemons |-> FALSE]
  /\ count = [d \in Daemons |-> 0]
  /\ thread = [d \in Daemons |-> [t \in Threads |-> "none"]]
  /\ joined = [d \in Daemons |-> 0]
  /\ unix_running = [d \in Daemons |-> FALSE]
  /\ port = Nobody /\ path = Nobody
  /\ script = "idle" /\ pid = Nobody /\ told = {}
  /\ WsInit

Goto(d, l) == mpc' = Set(mpc, d, l)

(* The processes of S end: the kernel takes threads and ports, main has    *)
(* nothing more to do.  (What they had allocated no longer matters.)       *)
ProcessesEnd(S) ==
  /\ mpc' = [d \in Daemons |-> IF d \in S THEN "dead" ELSE mpc[d]]
  /\ thread' = [d \in Daemons |->
                  IF d \in S THEN [t \in Threads |-> "none"] ELSE thread[d]]
  /\ port' = IF port \in S THEN Nobody ELSE port
  /\ wpc' = [d \in Daemons |-> IF d \in S THEN "none" ELSE wpc[d]]
  /\ UNCHANGED <<allocated, wrunning, connected, lws_ctx, link, was_connected>>

-----------------------------------------------------------------------------
(* main, until it is ready.                                                *)

MainOpen(d) ==
  /\ mpc[d] = "open"
  /\ \/ db' = Set(db, d, "live") /\ Goto(d, "migrate")
        /\ UNCHANGED <<thread, port, wsVars>>
     \/ "db" \in MayFail /\ ProcessesEnd({d}) /\ UNCHANGED db
  /\ UNCHANGED <<g_running, sched, running, count, joined, unix_running, path,
                 scriptVars>>

(* mc_db_migrate and mc_scheduler_create; if either fails, mc_db_close and *)
(* the end.                                                                *)
MainMigrate(d) ==
  /\ mpc[d] = "migrate"
  /\ \/ sched' = Set(sched, d, "live") /\ Goto(d, "start")
        /\ UNCHANGED <<db, thread, port, wsVars>>
     \/ /\ {"db", "sched"} \cap MayFail # {}
        /\ db' = Set(db, d, "freed")
        /\ ProcessesEnd({d})
        /\ UNCHANGED sched
  /\ UNCHANGED <<g_running, running, count, joined, unix_running, path, scriptVars>>

(* Slip: the dispatcher is counted with the workers.                       *)
SlipCountDispatcher(d) ==
  /\ mpc[d] = "start"
  /\ running' = Set(running, d, TRUE)
  /\ \E F \in SUBSET (Pool \cap MayFail) :
       /\ thread' = [thread EXCEPT ![d] =
            [t \in Threads |-> IF t \in Pool \ F THEN "run" ELSE "none"]]
       /\ count' = Set(count, d, Cardinality((Workers \cup {"dispatch"}) \ F))
  /\ WsConnect(d) \/ ("ws" \in MayFail /\ UNCHANGED wsVars)
  /\ Goto(d, "http")
  /\ UNCHANGED <<g_running, db, sched, joined, unix_running, port, path, scriptVars>>

(* mc_scheduler_start: a thread that cannot be created is done without.    *)
MainStart(d) ==
  /\ mpc[d] = "start"
  /\ running' = Set(running, d, TRUE)
  /\ \E F \in SUBSET (Pool \cap MayFail) :
       /\ thread' = [thread EXCEPT ![d] =
            [t \in Threads |-> IF t \in Pool \ F THEN "run" ELSE "none"]]
       /\ count' = Set(count, d, Cardinality(Workers \ F))
  /\ WsConnect(d) \/ ("ws" \in MayFail /\ UNCHANGED wsVars)
  /\ Goto(d, "http")
  /\ UNCHANGED <<g_running, db, sched, joined, unix_running, port, path, scriptVars>>

(* mc_api_http_start: without the port the daemon does without HTTP.       *)
MainHttp(d) ==
  /\ mpc[d] = "http"
  /\ \/ port = Nobody /\ port' = d /\ thread' = [thread EXCEPT ![d]["http"] = "run"]
     \/ (port # Nobody \/ "http" \in MayFail) /\ UNCHANGED <<port, thread>>
  /\ Goto(d, "unlink")
  /\ UNCHANGED <<mainVars, path, scriptVars, wsVars>>

(* mc_api_unix_start: the socket file is removed, and made again.          *)
MainUnlink(d) ==
  /\ mpc[d] = "unlink"
  /\ \/ path' = Nobody /\ Goto(d, "bind")
     \/ "unix" \in MayFail /\ UNCHANGED path /\ Goto(d, "sigaction")
  /\ UNCHANGED <<mainVars, thread, port, scriptVars, wsVars>>

(* A failed bind leaves the file of the other daemon; other failures leave *)
(* none.                                                                   *)
MainBind(d) ==
  /\ mpc[d] = "bind"
  /\ \/ /\ path = Nobody
        /\ path' = d
        /\ unix_running' = Set(unix_running, d, TRUE)
        /\ thread' = [thread EXCEPT ![d]["unix"] = "run"]
     \/ /\ path # Nobody \/ "unix" \in MayFail
        /\ UNCHANGED <<path, unix_running, thread>>
  /\ Goto(d, "sigaction")
  /\ UNCHANGED <<g_running, db, sched, running, count, joined, port, scriptVars,
                 wsVars>>

MainReady(d) ==
  /\ mpc[d] = "sigaction"
  /\ Goto(d, "loop")
  /\ UNCHANGED <<mainVars, thread, port, path, scriptVars, wsVars>>

-----------------------------------------------------------------------------
(* main, after the signal.                                                 *)

MainLoop(d) ==
  /\ mpc[d] = "loop" /\ ~g_running[d]
  /\ Goto(d, "stopUnix")
  /\ UNCHANGED <<mainVars, thread, port, path, scriptVars, wsVars>>

MainStopUnix(d) ==
  /\ mpc[d] = "stopUnix"
  /\ unix_running' = Set(unix_running, d, FALSE)
  /\ Goto(d, IF thread[d]["unix"] = "none" THEN "stopHttp" ELSE "joinUnix")
  /\ UNCHANGED <<g_running, db, sched, running, count, joined, thread, port, path,
                 scriptVars, wsVars>>

(* The thread has ended: the file goes, whoever it leads to.               *)
MainJoinUnix(d) ==
  /\ mpc[d] = "joinUnix" /\ thread[d]["unix"] = "done"
  /\ path' = Nobody
  /\ Goto(d, "stopHttp")
  /\ UNCHANGED <<mainVars, thread, port, scriptVars, wsVars>>

(* MHD_stop_daemon ends its thread.                                        *)
MainStopHttp(d) ==
  /\ mpc[d] = "stopHttp"
  /\ thread' = [thread EXCEPT ![d]["http"] = "none"]
  /\ port' = IF port = d THEN Nobody ELSE port
  /\ Goto(d, "stopSched")
  /\ UNCHANGED <<mainVars, path, scriptVars, wsVars>>

(* Slip: the workers are not joined.                                       *)
SlipJoinOrder(d) ==
  LET Active(t) == IF thread[d][t] = "none" THEN <<>> ELSE <<t>>
  IN  Active("rss") \o Active("dispatch") \o Active("prune")

(* The joins of mc_scheduler_stop: as many workers as were created, from   *)
(* the first slot on.                                                      *)
JoinOrder(d) ==
  LET Active(t) == IF thread[d][t] = "none" THEN <<>> ELSE <<t>>
  IN  Active("rss") \o Active("dispatch") \o SubSeq(WorkerSlots, 1, count[d])
        \o Active("prune")

MainStopSched(d) ==
  /\ mpc[d] = "stopSched"
  /\ running' = Set(running, d, FALSE)
  /\ Goto(d, "join")
  /\ UNCHANGED <<g_running, db, sched, count, joined, unix_running, thread, port,
                 path, scriptVars, wsVars>>

MainJoin(d) ==
  /\ mpc[d] = "join"
  /\ joined[d] < Len(JoinOrder(d))
  /\ thread[d][JoinOrder(d)[joined[d] + 1]] = "done"
  /\ joined' = Set(joined, d, joined[d] + 1)
  /\ UNCHANGED <<mpc, g_running, db, sched, running, count, unix_running, thread,
                 port, path, scriptVars, wsVars>>

(* The slot of a worker that could not be created holds no thread.  What   *)
(* joining it does is undefined: main dies of the zero that is still there *)
(* or, with the remains of the failed creation in the slot, goes on.       *)
MainJoinHole(d) ==
  /\ mpc[d] = "join"
  /\ joined[d] < Len(JoinOrder(d))
  /\ thread[d][JoinOrder(d)[joined[d] + 1]] = "none"
  /\ \/ ProcessesEnd({d}) /\ UNCHANGED joined
     \/ joined' = Set(joined, d, joined[d] + 1) /\ UNCHANGED <<mpc, thread, port, wsVars>>
  /\ UNCHANGED <<g_running, db, sched, running, count, unix_running, path, scriptVars>>

MainJoined(d) ==
  /\ mpc[d] = "join"
  /\ joined[d] = Len(JoinOrder(d))
  /\ Goto(d, IF allocated[d] THEN "disconnect" ELSE "destroy")
  /\ UNCHANGED <<mainVars, thread, port, path, scriptVars, wsVars>>

MainDisconnect(d) ==
  /\ mpc[d] = "disconnect"
  /\ WsDisconnect(d)
  /\ Goto(d, "freeWs")
  /\ UNCHANGED <<mainVars, thread, port, path, scriptVars>>

MainFreeWs(d) ==
  /\ mpc[d] = "freeWs"
  /\ WsFree(d)
  /\ Goto(d, "destroy")
  /\ UNCHANGED <<mainVars, thread, port, path, scriptVars>>

MainDestroy(d) ==
  /\ mpc[d] = "destroy"
  /\ sched' = Set(sched, d, "freed")
  /\ Goto(d, "close")
  /\ UNCHANGED <<g_running, db, running, count, joined, unix_running, thread, port,
                 path, scriptVars, wsVars>>

MainClose(d) ==
  /\ mpc[d] = "close"
  /\ db' = Set(db, d, "freed")
  /\ ProcessesEnd({d})
  /\ UNCHANGED <<g_running, sched, running, count, joined, unix_running, path,
                 scriptVars>>

Main(d) ==
  \/ MainOpen(d) \/ MainMigrate(d) \/ MainStart(d) \/ MainHttp(d)
  \/ MainUnlink(d) \/ MainBind(d) \/ MainReady(d) \/ MainLoop(d)
  \/ MainStopUnix(d) \/ MainJoinUnix(d) \/ MainStopHttp(d) \/ MainStopSched(d)
  \/ MainJoin(d) \/ MainJoinHole(d) \/ MainJoined(d) \/ MainDisconnect(d)
  \/ MainFreeWs(d) \/ MainDestroy(d) \/ MainClose(d)

-----------------------------------------------------------------------------
(* The other threads.                                                      *)

(* A thread of the scheduler sees that it is to end.                       *)
PoolExit(d, t) ==
  /\ t \in Pool
  /\ thread[d][t] = "run" /\ ~running[d]
  /\ thread' = [thread EXCEPT ![d][t] = "done"]
  /\ UNCHANGED <<mpc, mainVars, port, path, scriptVars, wsVars>>

(* The Unix server takes one client at a time.  It looks at running before *)
(* it waits for one: a client may still be accepted after the stop.        *)
UnixTest(d) ==
  /\ thread[d]["unix"] = "run"
  /\ thread' = [thread EXCEPT ![d]["unix"] = IF unix_running[d] THEN "select" ELSE "done"]
  /\ UNCHANGED <<mpc, mainVars, port, path, scriptVars, wsVars>>

UnixAccept(d) ==
  /\ thread[d]["unix"] = "select"
  /\ thread' = [thread EXCEPT ![d]["unix"] = "client"]
  /\ UNCHANGED <<mpc, mainVars, port, path, scriptVars, wsVars>>

(* Nobody has come within a second, or the client has been served.         *)
UnixAgain(d) ==
  /\ thread[d]["unix"] \in {"select", "client"}
  /\ thread' = [thread EXCEPT ![d]["unix"] = "run"]
  /\ UNCHANGED <<mpc, mainVars, port, path, scriptVars, wsVars>>

UnixThread(d) == UnixTest(d) \/ UnixAccept(d) \/ UnixAgain(d)

Ws(d) ==
  /\ WsThread(d) \/ WsNetwork(d) \/ WsTimeout(d)
  /\ UNCHANGED <<mpc, mainVars, thread, port, path, scriptVars>>

-----------------------------------------------------------------------------
(* start.sh daemon, and start.sh stop.                                     *)

(* kill_daemons: SIGTERM to every mc-daemon.  One that has not installed   *)
(* its handler dies of it.                                                 *)
ScriptKill ==
  /\ script = "idle"
  /\ LET S == {d \in Daemons : Up(d) /\ ~Handled(d)}
     IN  /\ ProcessesEnd(S)
         /\ g_running' = [d \in Daemons |-> g_running[d] /\ ~Handled(d)]
  /\ pid' = Nobody
  /\ script' = "killed"
  /\ UNCHANGED <<db, sched, running, count, joined, unix_running, path, told>>

ScriptStopped ==
  /\ script = "killed"
  /\ script' = "idle"
  /\ UNCHANGED <<mpc, mainVars, thread, port, path, pid, told, wsVars>>

(* A second after the kill, or later: main has come out of its sleep, but  *)
(* nobody waits for the joins.                                             *)
ScriptLaunch(d) ==
  /\ script = "killed" /\ mpc[d] = "off"
  /\ \A e \in Daemons : mpc[e] \in {"loop", "stopUnix"} => g_running[e]
  /\ Goto(d, "open")
  /\ pid' = d
  /\ script' = "check"
  /\ UNCHANGED <<mainVars, thread, port, path, told, wsVars>>

(* kill -0, two seconds later or later: "Daemon started", or an error.     *)
ScriptCheck ==
  /\ script = "check"
  /\ told' = IF Up(pid) THEN told \cup {pid} ELSE told
  /\ script' = "idle"
  /\ UNCHANGED <<mpc, mainVars, thread, port, path, pid, wsVars>>

-----------------------------------------------------------------------------
Next ==
  \/ \E d \in Daemons :
       \/ Main(d) \/ UnixThread(d) \/ Ws(d)
       \/ ScriptLaunch(d)
       \/ \E t \in Pool : PoolExit(d, t)
  \/ ScriptKill \/ ScriptStopped \/ ScriptCheck

Spec == Init /\ [][Next]_vars

(***************************************************************************)
(* Every thread runs; a client of the Unix server reads its answer (and    *)
(* what it fails to send is given up after five seconds); an attempt of a  *)
(* WebSocket comes to its fifteenth second.  Nobody has to run start.sh.   *)
(***************************************************************************)
FairSpec ==
  /\ Spec
  /\ \A d \in Daemons :
       /\ WF_vars(Main(d)) /\ WF_vars(UnixThread(d))
       /\ WF_vars(WsThread(d) /\ UNCHANGED <<mpc, mainVars, thread, port, path, scriptVars>>)
       /\ SF_vars(WsTimeout(d) /\ UNCHANGED <<mpc, mainVars, thread, port, path, scriptVars>>)
       /\ \A t \in Pool : WF_vars(PoolExit(d, t))

-----------------------------------------------------------------------------
(* Properties.                                                             *)

(* The type invariant.                                                     *)
TypeOK ==
  /\ mpc \in [Daemons -> MainPc]
  /\ g_running \in [Daemons -> BOOLEAN]
  /\ db \in [Daemons -> {"none", "live", "freed"}]
  /\ sched \in [Daemons -> {"none", "live", "freed"}]
  /\ running \in [Daemons -> BOOLEAN]
  /\ count \in [Daemons -> 0..Len(WorkerSlots)]
  /\ thread \in [Daemons -> [Threads -> {"none", "run", "select", "client", "done"}]]
  /\ \A d \in Daemons : joined[d] \in 0..Len(JoinOrder(d)) \/ mpc[d] = "dead"
  /\ unix_running \in [Daemons -> BOOLEAN]
  /\ port \in Daemons \cup {Nobody} /\ path \in Daemons \cup {Nobody}
  /\ script \in {"idle", "killed", "check"}
  /\ pid \in Daemons \cup {Nobody} /\ told \subseteq Daemons
  /\ wpc \in [Conns -> WsPc]
  /\ link \in [Conns -> {"none", "connecting", "open", "lost"}]
  /\ {allocated, wrunning, connected, lws_ctx, was_connected}
       \subseteq [Conns -> BOOLEAN]

RunsIn(d, S) == \E t \in S : thread[d][t] \in {"run", "select", "client"}

(* No worker that could be created comes after one that could not.         *)
NoHole(d) == \A k \in 1..count[d] : thread[d][WorkerSlots[k]] # "none"

(* No thread outlives what it uses: while a thread of the scheduler, of a  *)
(* server or of a WebSocket runs, the database is open and the scheduler   *)
(* is there, whichever threads could not be created and whenever the stop  *)
(* comes.  A hole in the row of workers is the exception: the joins count  *)
(* from the first slot and miss the last worker (MainJoinHole).            *)
NoUseAfterFree ==
  \A d \in Daemons :
    NoHole(d) /\ (RunsIn(d, Threads) \/ wpc[d] \notin {"none", "exited"})
      => db[d] = "live" /\ sched[d] = "live"

(* A WebSocket connection that is lost, or never made, is given up and     *)
(* tried again, in whatever order the callbacks come: even one that is     *)
(* established and closed within one call of lws_service.                  *)
LostIsReplaced ==
  \A d \in Daemons :
    link[d] = "lost" ~> wpc[d] = "context" \/ ~wrunning[d] \/ ~Up(d)

(* A daemon that is told to stop ends, with clients being served, threads  *)
(* missing and connections in any state.                                   *)
StopsWhenTold == \A d \in Daemons : ~g_running[d] ~> mpc[d] = "dead"

(* "Daemon started ... HTTP API: http://localhost:8420": the daemon that   *)
(* start.sh has just started serves its clients once it is ready.          *)
StartedMeansServing ==
  \A d \in told : mpc[d] = "loop" /\ pid = d => port = d
=============================================================================
