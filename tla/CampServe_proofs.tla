--------------------------- MODULE CampServe_proofs ---------------------------
(***************************************************************************)
(* Proofs about camp serve's event streams, for any agents, clients,       *)
(* channel capacity and number of events.                                  *)
(***************************************************************************)
EXTENDS CampServe, EventStream_proofs

(***************************************************************************)
(* The inductive invariant: a response that has sent its snapshot leaves   *)
(* its client out of date only about agents it is still going to mention.  *)
(***************************************************************************)
ServeTypes ==
    /\ StreamInv
    /\ server \in {"serving", "draining", "stopped"}
    /\ stream \in [Clients -> {"closed", "subscribed", "streaming"}]
    /\ reading \in [Clients -> BOOLEAN]
    /\ next \in [Clients -> 1..(Len(feed) + 1)]
    /\ view \in [Clients -> Views]

ViewsFollow ==
    \A c \in Clients : stream[c] = "streaming" => UpToDateFrom(next[c], view[c])

ServeIInv == ServeTypes /\ ViewsFollow

-----------------------------------------------------------------------------

\* No connection, and nothing discovered yet (camp.rs:666-682).
LEMMA ServeInitIInv == ServeInit => ServeIInv
<1> SUFFICES ASSUME ServeInit PROVE ServeIInv
  OBVIOUS
<1>1. StreamInv /\ directory \in Views /\ Len(feed) = 0
  BY EmptyStream DEF ServeInit, Init, StreamInv, StreamTypeOK
<1>2. QED
  BY <1>1 DEF ServeInit, ServeIInv, ServeTypes, ViewsFollow

\* One step of the registry, of a response or of the server.
LEMMA ServeStepIInv ==
    ASSUME ServeIInv, [ServeNext]_allVars
    PROVE  ServeIInv'
<1>1. /\ Len(feed) \in Nat /\ directory \in Views /\ StreamInv
      /\ ServeTypes /\ ViewsFollow
  BY EventTypes DEF ServeIInv, ServeTypes, StreamInv, StreamTypeOK
<1>2. CASE Observe
  <2>1. /\ StreamInv' /\ Len(feed') = Len(feed) + 1 /\ UNCHANGED serveVars
    BY <1>1, <1>2, ChangeKeepsStream, ChangeIsAnnounced
       DEF Observe, StreamInv
  <2>2. ServeTypes'
    BY <1>1, <2>1 DEF ServeTypes, serveVars
  <2>3. ASSUME NEW c \in Clients, stream[c] = "streaming"
        PROVE  UpToDateFrom(next[c], view[c])'
    <3>1. ASSUME NEW picture, NEW n \in 1..(Len(feed) + 1),
                 UpToDateFrom(n, picture)
          PROVE  UpToDateFrom(n, picture)'
      BY <1>1, <1>2, <3>1, ChangeKeepsPicture DEF Observe
    <3>2. QED
      BY <1>1, <2>1, <2>3, <3>1 DEF ServeTypes, ViewsFollow, serveVars
  <2>4. QED
    BY <2>1, <2>2, <2>3 DEF ServeIInv, ViewsFollow, serveVars
<1>3. CASE UNCHANGED pvars
  <2>1. /\ StreamInv' /\ feed' = feed /\ directory' = directory
        /\ \A n, picture : UpToDateFrom(n, picture)
                              <=> UpToDateFrom(n, picture)'
    BY <1>1, <1>3, StreamUnchanged DEF pvars
  <2>2. ASSUME NEW c \in Clients, SendEvent(c)
        PROVE  UpToDateFrom(next'[c], view'[c])
    <3>1. next[c] \in 1..Len(feed) /\ UpToDateFrom(next[c], view[c])
      BY <1>1, <2>2 DEF SendEvent, CanReceive, ServeTypes, ViewsFollow
    <3>2. /\ next'[c] = next[c] + 1
          /\ view'[c] = Applied(view[c], feed[next[c]])
      BY <1>1, <2>2 DEF SendEvent, ServeTypes
    <3>3. QED
      BY <1>1, <3>1, <3>2, ReceivedIsUpToDate
  <2>3. ASSUME NEW c \in Clients, SendSnapshot(c)
        PROVE  UpToDateFrom(next'[c], view'[c])
    BY <1>1, <2>3, SnapshotIsUpToDate DEF SendSnapshot, ServeTypes
  <2>4. ASSUME NEW c \in Clients, SendEvent(c) PROVE view'[c] \in Views
    BY <2>2, <2>4 DEF UpToDateFrom
  <2>5. ServeTypes'
    <3>1. CASE \E c \in Clients : SendEvent(c)
      <4>1. PICK c \in Clients : SendEvent(c)
        BY <3>1
      <4>2. view'[c] \in Views
        BY <2>4, <4>1
      <4>3. next' \in [Clients -> 1..(Len(feed) + 1)]
        <5>1. next \in [Clients -> 1..(Len(feed) + 1)] /\ next[c] <= Len(feed)
          BY <1>1, <4>1 DEF SendEvent, CanReceive, ServeTypes
        <5>2. next[c] + 1 \in 1..(Len(feed) + 1)
          BY <1>1, <5>1
        <5>3. next' = [next EXCEPT ![c] = next[c] + 1]
          BY <4>1 DEF SendEvent
        <5>4. QED
          BY <5>1, <5>2, <5>3
      <4>4. view' \in [Clients -> Views]
        BY <1>1, <4>1, <4>2 DEF SendEvent, ServeTypes
      <4>5. UNCHANGED <<server, stream, reading>>
        BY <4>1 DEF SendEvent
      <4>6. QED
        BY <1>1, <2>1, <4>3, <4>4, <4>5 DEF ServeTypes
    <3>2. CASE \E c \in Clients : Connect(c) \/ SendSnapshot(c)
      <4>1. PICK c \in Clients : Connect(c) \/ SendSnapshot(c)
        BY <3>2
      <4>2. next' \in [Clients -> 1..(Len(feed) + 1)]
        BY <1>1, <4>1 DEF Connect, NewReceiver, SendSnapshot, ServeTypes
      <4>3. view' \in [Clients -> Views]
        BY <1>1, <4>1 DEF Connect, SendSnapshot, ServeTypes
      <4>4. stream' \in [Clients -> {"closed", "subscribed", "streaming"}]
        BY <1>1, <4>1 DEF Connect, SendSnapshot, ServeTypes
      <4>5. UNCHANGED <<server, reading>>
        BY <4>1 DEF Connect, SendSnapshot
      <4>6. QED
        BY <1>1, <2>1, <4>2, <4>3, <4>4, <4>5 DEF ServeTypes
    <3>3. CASE \E c \in Clients : EndLagged(c) \/ Disconnect(c)
      BY <1>1, <2>1, <3>3 DEF ServeTypes, EndLagged, Disconnect
    <3>4. CASE \E c \in Clients : StopOrGoOnReading(c)
      BY <1>1, <2>1, <3>4 DEF ServeTypes, StopOrGoOnReading
    <3>5. CASE CtrlC \/ Stop \/ UNCHANGED serveVars
      BY <1>1, <2>1, <3>5 DEF ServeTypes, CtrlC, Stop, serveVars
    <3>6. QED
      BY <3>1, <3>2, <3>3, <3>4, <3>5
         DEF ServeNext, StreamStep, Observe, allVars
  <2>6. ViewsFollow'
    BY <1>1, <1>3, <2>1, <2>2, <2>3
       DEF ServeTypes, ViewsFollow, ServeNext, Connect, StreamStep,
           SendSnapshot, SendEvent, EndLagged, Disconnect,
           StopOrGoOnReading, CtrlC, Stop, Observe, allVars, serveVars
  <2>7. QED
    BY <2>5, <2>6 DEF ServeIInv
<1>4. QED
  BY <1>2, <1>3
     DEF ServeNext, StreamStep, Connect, SendSnapshot, SendEvent, EndLagged,
         Disconnect, StopOrGoOnReading, CtrlC, Stop, allVars

-----------------------------------------------------------------------------
(* The theorems. *)

(***************************************************************************)
(* Every reachable state of camp serve satisfies the inductive invariant.  *)
(***************************************************************************)
THEOREM ServeInductiveInvariant == ServeSpec => []ServeIInv
BY ServeInitIInv, ServeStepIInv, PTL DEF ServeSpec

\* The bridge's variables keep their types (camp.rs:666-699, 1070-1096).
THEOREM ServeTypeCorrect == ServeSpec => []ServeTypeOK
<1>1. ServeIInv => ServeTypeOK
  BY EventTypes, CapacityAssumption
     DEF ServeIInv, ServeTypes, StreamInv, StreamTypeOK, ServeTypeOK
<1>2. QED
  BY <1>1, ServeInductiveInvariant, PTL

(***************************************************************************)
(* A client that was sent everything there is has the registry's content   *)
(* (camp.rs:1070-1091).                                                    *)
(***************************************************************************)
THEOREM ViewAlwaysCurrent == ServeSpec => []ViewIsCurrent
<1>1. ServeIInv => ViewIsCurrent
  BY CaughtUpIsCurrent DEF ServeIInv, ServeTypes, ViewsFollow, ViewIsCurrent
<1>2. QED
  BY <1>1, ServeInductiveInvariant, PTL
=============================================================================
