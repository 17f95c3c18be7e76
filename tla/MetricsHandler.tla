--------------------------- MODULE MetricsHandler ---------------------------
(***************************************************************************)
(* GET /metrics (src/http/router.rs) up to the point where the handler has *)
(* its stats: the request channel to the coordinator, shared by all        *)
(* handlers, and the oneshot reply channel of each request.                *)
(***************************************************************************)
EXTENDS Naturals, Sequences, ExporterTypes

CONSTANT RequestCap   \* capacity of the request channel (32 in the code)

ASSUME HandlerAssumption == RequestCap \in Nat \ {0}

VARIABLES
  status,        \* progress of the handler of each request
  requests,      \* the request channel
  receiverOpen,  \* the coordinator's end of the channel exists
  replied,       \* requests whose oneshot holds a reply
  report         \* the tasks whose data the reply holds

handlerVars == <<status, requests, receiverOpen, replied, report>>

Outcomes == {"ok", "error", "cancelled"}
HandlerStates == {"idle", "sending", "waiting"} \union Outcomes

HandlerTypeOK ==
  /\ status \in [Requests -> HandlerStates]
  /\ requests \in Seq(Requests)
  /\ Len(requests) <= RequestCap
  /\ receiverOpen \in BOOLEAN
  /\ replied \in SUBSET Requests
  /\ report \in [Requests -> SUBSET Tasks]

HandlerInit ==
  /\ status = [r \in Requests |-> "idle"]
  /\ requests = <<>>
  /\ receiverOpen = TRUE
  /\ replied = {}
  /\ report = [r \in Requests |-> {}]

-----------------------------------------------------------------------------
\* A scraper connects; axum runs the handler.
Arrive(r) ==
  /\ status[r] = "idle"
  /\ status' = [status EXCEPT ![r] = "sending"]
  /\ UNCHANGED <<requests, receiverOpen, replied, report>>

\* A send that does not wait for room in the channel.
SendWithoutRoom(r) ==
  /\ status[r] = "sending" /\ receiverOpen
  /\ requests' = Append(requests, r)
  /\ status' = [status EXCEPT ![r] = "waiting"]
  /\ UNCHANGED <<receiverOpen, replied, report>>

\* tx.send(..).await: waits for room.
Send(r) ==
  /\ status[r] = "sending" /\ receiverOpen
  /\ Len(requests) < RequestCap
  /\ requests' = Append(requests, r)
  /\ status' = [status EXCEPT ![r] = "waiting"]
  /\ UNCHANGED <<receiverOpen, replied, report>>

\* resp_rx.await has the stats.
ReceiveReply(r) ==
  /\ status[r] = "waiting" /\ r \in replied
  /\ status' = [status EXCEPT ![r] = "ok"]
  /\ UNCHANGED <<requests, receiverOpen, replied, report>>

\* The channel is closed, or the request was dropped with it: status 500.
ChannelError(r) ==
  /\ ~receiverOpen
  /\ status[r] = "sending" \/ (status[r] = "waiting" /\ r \notin replied)
  /\ status' = [status EXCEPT ![r] = "error"]
  /\ UNCHANGED <<requests, receiverOpen, replied, report>>

\* The scraper disconnects and the server drops the handler's future.  A
\* request that is already in the channel stays there.
Disconnect(r) ==
  /\ status[r] \in {"sending", "waiting"}
  /\ status' = [status EXCEPT ![r] = "cancelled"]
  /\ UNCHANGED <<requests, receiverOpen, replied, report>>

HandlerStep(r) == Send(r) \/ ReceiveReply(r) \/ ChannelError(r)

HandlerNext ==
  \E r \in Requests : Arrive(r) \/ HandlerStep(r) \/ Disconnect(r)

=============================================================================
