-------------------------------- MODULE WsConn --------------------------------
(***************************************************************************)
(* A WebSocket connection (backend/src/fetch_ws.c): its thread, with the   *)
(* loop that dials, services and dials again, the callback libwebsockets   *)
(* runs on that thread inside lws_service, and mc_ws_disconnect.           *)
(*                                                                         *)
(* Time is left out: the 15 seconds of an attempt and the seconds of a     *)
(* sleep are over at some moment.  What a message says does not matter     *)
(* here; storing it is an insert and an update of module Snapshot.         *)
(***************************************************************************)
EXTENDS Naturals

CONSTANT Conns

VARIABLES
  allocated,      \* the mc_ws_conn struct exists
  wrunning,       \* conn->running
  connected,      \* conn->connected
  lws_ctx,        \* conn->lws_ctx is there
  link,           \* the client connection, as libwebsockets knows it
  wpc,            \* where the thread is
  was_connected   \* its local of that name

wsVars == <<allocated, wrunning, connected, lws_ctx, link, wpc, was_connected>>

WsPc == {"none", "top", "context", "dial", "loop", "service", "check",
         "destroy", "after", "nap", "exited"}

WsInit ==
  /\ allocated = [c \in Conns |-> FALSE]
  /\ wrunning = [c \in Conns |-> FALSE]
  /\ connected = [c \in Conns |-> FALSE]
  /\ lws_ctx = [c \in Conns |-> FALSE]
  /\ link = [c \in Conns |-> "none"]
  /\ wpc = [c \in Conns |-> "none"]
  /\ was_connected = [c \in Conns |-> FALSE]

Set(f, c, x) == [f EXCEPT ![c] = x]
WsGoto(c, l) == wpc' = Set(wpc, c, l)

(* mc_ws_connect, when neither calloc nor pthread_create fails.            *)
WsConnect(c) ==
  /\ allocated' = Set(allocated, c, TRUE)
  /\ wrunning' = Set(wrunning, c, TRUE)
  /\ WsGoto(c, "top")
  /\ UNCHANGED <<connected, lws_ctx, link, was_connected>>

WsTop(c) ==
  /\ wpc[c] = "top"
  /\ WsGoto(c, IF wrunning[c] THEN "context" ELSE "exited")
  /\ UNCHANGED <<allocated, wrunning, connected, lws_ctx, link, was_connected>>

(* lws_create_context; if it fails, a sleep and another try.               *)
WsContext(c) ==
  /\ wpc[c] = "context"
  /\ \/ lws_ctx' = Set(lws_ctx, c, TRUE) /\ WsGoto(c, "dial")
     \/ UNCHANGED lws_ctx /\ WsGoto(c, "nap")
  /\ UNCHANGED <<allocated, wrunning, connected, link, was_connected>>

(* lws_client_connect_via_info begins a connection or returns NULL.        *)
WsDial(c) ==
  /\ wpc[c] = "dial"
  /\ \/ /\ link' = Set(link, c, "connecting")
        /\ was_connected' = Set(was_connected, c, FALSE)
        /\ WsGoto(c, "loop")
        /\ UNCHANGED lws_ctx
     \/ /\ lws_ctx' = Set(lws_ctx, c, FALSE)
        /\ WsGoto(c, "nap")
        /\ UNCHANGED <<link, was_connected>>
  /\ UNCHANGED <<allocated, wrunning, connected>>

WsLoop(c) ==
  /\ wpc[c] = "loop"
  /\ WsGoto(c, IF wrunning[c] THEN "service" ELSE "destroy")
  /\ UNCHANGED <<allocated, wrunning, connected, lws_ctx, link, was_connected>>

(* The callbacks.  One call of lws_service may run several of them.        *)
WsEstablished(c) ==
  /\ wpc[c] = "service" /\ link[c] = "connecting"
  /\ link' = Set(link, c, "open")
  /\ connected' = Set(connected, c, TRUE)
  /\ UNCHANGED <<allocated, wrunning, lws_ctx, wpc, was_connected>>

(* CONNECTION_ERROR or CLOSED.                                             *)
WsLost(c) ==
  /\ wpc[c] = "service" /\ link[c] \in {"connecting", "open"}
  /\ link' = Set(link, c, "lost")
  /\ connected' = Set(connected, c, FALSE)
  /\ UNCHANGED <<allocated, wrunning, lws_ctx, wpc, was_connected>>

(* The end of lws_service, which may report an error of its own.           *)
WsServiced(c) ==
  /\ wpc[c] = "service"
  /\ WsGoto(c, "check") \/ WsGoto(c, "destroy")
  /\ UNCHANGED <<allocated, wrunning, connected, lws_ctx, link, was_connected>>

(* Not connected after 15 seconds.                                         *)
WsTimeout(c) ==
  /\ wpc[c] = "check" /\ ~connected[c] /\ ~was_connected[c]
  /\ WsGoto(c, "destroy")
  /\ UNCHANGED <<allocated, wrunning, connected, lws_ctx, link, was_connected>>

(* Slip: only the timeout ends the service loop.                           *)
SlipLossNotNoticed(c) ==
  /\ wpc[c] = "check"
  /\ was_connected' = Set(was_connected, c, connected[c] \/ was_connected[c])
  /\ WsGoto(c, "loop")
  /\ UNCHANGED <<allocated, wrunning, connected, lws_ctx, link>>

(* The other branches after lws_service.                                   *)
WsCheck(c) ==
  /\ wpc[c] = "check"
  /\ was_connected' = Set(was_connected, c, connected[c] \/ was_connected[c])
  /\ WsGoto(c, IF ~connected[c] /\ was_connected[c] THEN "destroy" ELSE "loop")
  /\ UNCHANGED <<allocated, wrunning, connected, lws_ctx, link>>

(* lws_context_destroy closes what is open; then the pointer and the flag. *)
WsDestroy(c) ==
  /\ wpc[c] = "destroy"
  /\ lws_ctx' = Set(lws_ctx, c, FALSE)
  /\ link' = Set(link, c, "none")
  /\ connected' = Set(connected, c, FALSE)
  /\ WsGoto(c, "after")
  /\ UNCHANGED <<allocated, wrunning, was_connected>>

WsAfter(c) ==
  /\ wpc[c] = "after"
  /\ WsGoto(c, IF wrunning[c] THEN "nap" ELSE "top")
  /\ UNCHANGED <<allocated, wrunning, connected, lws_ctx, link, was_connected>>

(* sleep(reconnect_interval_sec), which nothing interrupts.                *)
WsNap(c) ==
  /\ wpc[c] = "nap"
  /\ WsGoto(c, "top")
  /\ UNCHANGED <<allocated, wrunning, connected, lws_ctx, link, was_connected>>

WsThread(c) ==
  \/ WsTop(c) \/ WsContext(c) \/ WsDial(c) \/ WsLoop(c) \/ WsServiced(c)
  \/ WsCheck(c) \/ WsDestroy(c) \/ WsAfter(c) \/ WsNap(c)

WsNetwork(c) == WsEstablished(c) \/ WsLost(c)

(* Slip: the thread is waited for without being told.                      *)
SlipNotTold(c) == UNCHANGED wsVars

(* mc_ws_disconnect: the store, and the join with the free.                *)
WsDisconnect(c) ==
  /\ wrunning' = Set(wrunning, c, FALSE)
  /\ UNCHANGED <<allocated, connected, lws_ctx, link, wpc, was_connected>>

WsFree(c) ==
  /\ wpc[c] = "exited"
  /\ allocated' = Set(allocated, c, FALSE)
  /\ WsGoto(c, "none")
  /\ UNCHANGED <<wrunning, connected, lws_ctx, link, was_connected>>
=============================================================================
