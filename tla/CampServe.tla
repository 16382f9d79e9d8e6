------------------------------ MODULE CampServe ------------------------------
(***************************************************************************)
(* camp serve (run_serve, events_handler in src/bin/camp.rs): every        *)
(* GET /events subscribes to the registry's feed and then sends a          *)
(* snapshot followed by the events; Ctrl-C drains the open connections     *)
(* before the mesh is shut down.  A response goes on only as its client    *)
(* takes what was sent, and no timeout ends one that is not read.          *)
(***************************************************************************)
EXTENDS EventStream

CONSTANTS Clients    \* those that may open GET /events, again and again

VARIABLES
    server,          \* "serving", "draining" after Ctrl-C, "stopped"
    stream,          \* each client's connection
    reading,         \* whether the client takes what is sent to it
    next,            \* its receiver's position in the feed
    view             \* the directory as the client reconstructs it

serveVars == <<server, stream, reading, next, view>>
allVars == <<pvars, serveVars>>

ServeInit ==
    /\ Init
    /\ server = "serving"
    /\ stream = [c \in Clients |-> "closed"]
    /\ reading = [c \in Clients |-> TRUE]
    /\ next = [c \in Clients |-> 1]
    /\ view = [c \in Clients |-> directory]

\* Fault: the server goes on accepting while it drains.
ConnectWhileDraining(c) ==
    /\ server # "stopped" /\ stream[c] = "closed"
    /\ next' = [next EXCEPT ![c] = NewReceiver]
    /\ stream' = [stream EXCEPT ![c] = "subscribed"]
    /\ UNCHANGED <<pvars, server, reading, view>>

\* The handler subscribes before the response starts.
Connect(c) ==
    /\ server = "serving" /\ stream[c] = "closed"
    /\ next' = [next EXCEPT ![c] = NewReceiver]
    /\ stream' = [stream EXCEPT ![c] = "subscribed"]
    /\ UNCHANGED <<pvars, server, reading, view>>

\* The first item of the stream.
SendSnapshot(c) ==
    /\ stream[c] = "subscribed" /\ reading[c]
    /\ view' = [view EXCEPT ![c] = directory]
    /\ stream' = [stream EXCEPT ![c] = "streaming"]
    /\ UNCHANGED <<pvars, server, reading, next>>

SendEvent(c) ==
    /\ stream[c] = "streaming" /\ reading[c] /\ CanReceive(next[c])
    /\ view' = [view EXCEPT ![c] = Applied(@, feed[next[c]])]
    /\ next' = [next EXCEPT ![c] = @ + 1]
    /\ UNCHANGED <<pvars, server, stream, reading>>

\* Fault: a receiver that lagged is polled again as if nothing had happened.
EndLaggedNever(c) ==
    /\ stream[c] = "streaming" /\ reading[c] /\ Lagged(next[c])
    /\ UNCHANGED <<pvars, serveVars>>

\* Fault: the stream goes on with the oldest event the channel still has.
SkipLagged(c) ==
    /\ stream[c] = "streaming" /\ reading[c] /\ Lagged(next[c])
    /\ next' = [next EXCEPT ![c] = NewReceiver - Capacity]
    /\ UNCHANGED <<pvars, server, stream, reading, view>>

\* `while let Ok(..)`: a receiver that lagged ends the response.
EndLagged(c) ==
    /\ stream[c] = "streaming" /\ reading[c] /\ Lagged(next[c])
    /\ stream' = [stream EXCEPT ![c] = "closed"]
    /\ UNCHANGED <<pvars, server, reading, next, view>>

Disconnect(c) ==
    /\ stream[c] # "closed"
    /\ stream' = [stream EXCEPT ![c] = "closed"]
    /\ reading' = [reading EXCEPT ![c] = TRUE]
    /\ UNCHANGED <<pvars, server, next, view>>

\* The client stops taking what is sent, or takes it again.
StopOrGoOnReading(c) ==
    /\ stream[c] # "closed"
    /\ reading' = [reading EXCEPT ![c] = ~@]
    /\ UNCHANGED <<pvars, server, stream, next, view>>

CtrlC ==
    /\ server = "serving"
    /\ server' = "draining"
    /\ UNCHANGED <<pvars, stream, reading, next, view>>

\* axum::serve returns when no response is in flight; then mesh.shutdown().
Stop ==
    /\ server = "draining" /\ \A c \in Clients : stream[c] = "closed"
    /\ server' = "stopped"
    /\ UNCHANGED <<pvars, stream, reading, next, view>>

Observe == server # "stopped" /\ ObserverChange /\ UNCHANGED serveVars

StreamStep(c) == SendSnapshot(c) \/ SendEvent(c) \/ EndLagged(c)

ServeNext ==
    \/ Observe \/ CtrlC \/ Stop
    \/ \E c \in Clients : \/ Connect(c) \/ StreamStep(c) \/ Disconnect(c)
                          \/ StopOrGoOnReading(c)

\* The runtime polls the server, and every response that its client reads
\* and that can go on.
ServeFairness == WF_allVars(Stop) /\ \A c \in Clients : WF_allVars(StreamStep(c))

ServeSpec == ServeInit /\ [][ServeNext]_allVars
FairServeSpec == ServeSpec /\ ServeFairness

-----------------------------------------------------------------------------
(* Properties. *)

ServeTypeOK ==
    /\ directory \in Views /\ feed \in Feeds
    /\ server \in {"serving", "draining", "stopped"}
    /\ stream \in [Clients -> {"closed", "subscribed", "streaming"}]
    /\ reading \in [Clients -> BOOLEAN]
    /\ next \in [Clients -> 1..(MaxEvents + 1)]
    /\ view \in [Clients -> Views]

(***************************************************************************)
(* A client that was sent everything there is has the registry's content,  *)
(* although changes made between its subscription and its snapshot are     *)
(* told twice, and although the channel forgets old events: what a slow    *)
(* receiver missed ends its stream instead (camp.rs:1070-1083).            *)
(***************************************************************************)
ViewIsCurrent ==
    \A c \in Clients :
        stream[c] = "streaming" /\ CaughtUp(next[c]) => view[c] = directory

(***************************************************************************)
(* A response whose client goes on reading never stalls: every event that  *)
(* was published since it subscribed is sent, after the snapshot, or the   *)
(* response ends, however fast events come (camp.rs:1070-1091).            *)
(***************************************************************************)
StreamsKeepUp ==
    \A c \in Clients, n \in 1..MaxEvents :
        stream[c] # "closed" /\ next[c] = n /\ n <= Len(feed)
            ~> next[c] # n \/ stream[c] = "closed" \/ ~reading[c]

(***************************************************************************)
(* After Ctrl-C the bridge stops as soon as its clients have let go: the   *)
(* draining server waits for the event streams, which nothing but their    *)
(* clients, or lag, ends (camp.rs:685-691, 1083).                          *)
(***************************************************************************)
DrainingEnds ==
    (\A c \in Clients : []<>(stream[c] = "closed"))
        => (server = "draining" ~> server = "stopped")
=============================================================================
