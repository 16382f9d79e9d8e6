--------------------------- MODULE CampWatch_proofs ---------------------------
(***************************************************************************)
(* Proofs about camp watch, for any agents, any channel capacity, and any  *)
(* number of events, failures, kills and restarts.                         *)
(***************************************************************************)
EXTENDS CampWatch, EventStream_proofs

-----------------------------------------------------------------------------
(* The inductive invariant. *)

Storing == step \in {"store", "opened", "written", "stored"}

\* How far the receiver is, and how many of its events are handled.
Counts ==
    /\ next \in 0..(Len(feed) + 1) /\ handled \in Nat
    /\ next = 0 => handled = 0
    /\ next > 0 => handled < next
    /\ next > 0 /\ (Storing \/ step = "read") => handled + 1 < next
    /\ step \in {"receiving", "read"} => next > 0
    /\ step = "discovering" => next = 0

WatchTypes ==
    /\ StreamInv
    /\ step \in {"discovering", "store", "opened", "written", "stored",
                 "receiving", "read", "ended"}
    /\ agents \in Views /\ printed \in Views
    /\ tmp_file \in Views \cup {Missing, Torn}
    /\ state_file \in Views \cup {Missing}
    /\ Counts

(***************************************************************************)
(* Between an event and the next one the list that was read travels        *)
(* through the two files, and stays a picture that is out of date only     *)
(* about agents that are still going to be mentioned (camp.rs:639-648).    *)
(***************************************************************************)
ListTravels ==
    /\ next > 0 /\ Storing => UpToDateFrom(next, agents)
    /\ step = "written" => tmp_file = agents
    /\ step = "stored" => state_file = agents
    /\ step = "receiving" /\ handled > 0 => UpToDateFrom(next, state_file)

WatchIInv == WatchTypes /\ ListTravels

-----------------------------------------------------------------------------


\* A first run: nothing discovered, no files.
LEMMA WatchInitIInv == WatchInit => WatchIInv
<1> SUFFICES ASSUME WatchInit PROVE WatchIInv
  OBVIOUS
<1>1. StreamInv
  BY EmptyStream DEF WatchInit, Init
<1>2. QED
  BY <1>1
     DEF WatchInit, WatchIInv, WatchTypes, ListTravels, Counts, Storing,
         StreamInv, StreamTypeOK

\* One step of the command, of its end, or of a restart.
LEMMA WatchStepTypes ==
    ASSUME WatchIInv, [WatchNext]_allVars
    PROVE  WatchTypes'
<1>1. /\ Len(feed) \in Nat /\ directory \in Views
      /\ StreamInv /\ \A x \in Views : x # Torn /\ x # Missing
  BY EventTypes, FilesAssumption
     DEF WatchIInv, WatchTypes, StreamInv, StreamTypeOK
<1> USE DEF WatchIInv, WatchTypes
<1>2. CASE Observe
  <2>1. StreamInv' /\ Len(feed') = Len(feed) + 1
    BY <1>1, <1>2, ChangeKeepsStream, ChangeIsAnnounced
       DEF Observe, StreamInv
  <2>2. QED
    BY <1>1, <1>2, <2>1 DEF Observe, watchVars, files, Counts, Storing
<1>3. CASE WatchStep
  <2>1. UNCHANGED pvars
    BY <1>3
       DEF WatchStep, TakeSnapshot, Receive, ReadState, OpenTemporary,
           WriteTemporary, Rename, Subscribe, Handled, EndLagged, End
  <2>2. StreamInv' /\ Len(feed') = Len(feed)
    BY <1>1, <2>1, StreamUnchanged
  <2>3. ASSUME Receive PROVE printed' \in Views
    <3>1. next \in 1..Len(feed)
      BY <1>1, <2>3 DEF Receive, CanReceive, Counts
    <3>2. QED
      BY <1>1, <2>3, <3>1, EventTypes DEF Receive, Applied, Views, StreamInv
  <2>4. Counts'
    BY <1>1, <1>3, <2>2
       DEF WatchStep, TakeSnapshot, Receive, ReadState, OpenTemporary,
           WriteTemporary, Rename, Subscribe, NewReceiver, Handled, EndLagged,
           End, Counts, Storing, CanReceive, pvars
  <2>5. QED
    BY <1>1, <1>3, <2>2, <2>3, <2>4
       DEF WatchStep, TakeSnapshot, Receive, ReadState, OpenTemporary,
           WriteTemporary, Rename, ListTravels, Subscribe, Handled, EndLagged,
           End, files
<1>4. CASE Fails \/ CtrlC \/ Killed
  <2>1. StreamInv' /\ Len(feed') = Len(feed)
    BY <1>1, <1>4, StreamUnchanged DEF Fails, CtrlC, Killed, End
  <2>2. QED
    BY <1>4, <2>1 DEF Fails, CtrlC, Killed, End, files, Counts, Storing
<1>5. CASE Restart
  <2>1. StreamInv'
    <3>1. (directory = [id \in Ids |-> None] /\ feed = <<>>)'
      BY <1>5 DEF Restart
    <3>2. QED
      BY <3>1, EmptyStream, PTL
  <2>2. agents' \in Views /\ printed' \in Views
    BY <1>5, <2>1 DEF Restart, StreamInv, StreamTypeOK
  <2>3. QED
    BY <1>5, <2>1, <2>2 DEF Restart, files, Counts, Storing
<1>6. CASE UNCHANGED allVars
  <2>1. StreamInv'
    BY <1>1, <1>6, StreamUnchanged DEF allVars
  <2>2. QED
    BY <1>6, <2>1 DEF allVars, watchVars, files, pvars, Counts, Storing
<1>7. QED
  BY <1>2, <1>3, <1>4, <1>5, <1>6 DEF WatchNext

LEMMA WatchStepListTravels ==
    ASSUME WatchIInv, [WatchNext]_allVars
    PROVE  ListTravels'
<1>1. Len(feed) \in Nat /\ StreamInv /\ Counts
  BY EventTypes DEF WatchIInv, WatchTypes, StreamInv
<1>2. CASE Observe
  <2>1. /\ StreamInv /\ ObserverChange /\ UNCHANGED watchVars
    BY <1>1, <1>2 DEF Observe
  <2>2. ASSUME NEW picture, next > 0, UpToDateFrom(next, picture)
        PROVE  UpToDateFrom(next, picture)'
    BY <1>1, <2>1, <2>2, ChangeKeepsPicture DEF Counts, watchVars
  <2>3. QED
    BY <1>1, <2>1, <2>2
       DEF WatchIInv, ListTravels, Counts, Storing, watchVars, files
<1>3. CASE WatchStep
  BY <1>1, <1>3, StreamUnchanged, SnapshotIsUpToDate
     DEF WatchIInv, ListTravels, WatchStep, TakeSnapshot, Receive, ReadState,
         OpenTemporary, WriteTemporary, Rename, Subscribe, Handled, EndLagged,
         End, Storing, Counts, files
<1>4. CASE Fails \/ CtrlC \/ Killed \/ Restart
  BY <1>4 DEF Fails, CtrlC, Killed, End, Restart, ListTravels, Storing
<1>5. CASE UNCHANGED allVars
  BY <1>5, StreamUnchanged
     DEF WatchIInv, ListTravels, Storing, allVars, watchVars, files
<1>6. QED
  BY <1>2, <1>3, <1>4, <1>5 DEF WatchNext

-----------------------------------------------------------------------------
(* The theorems. *)

(***************************************************************************)
(* Every reachable state of camp watch satisfies the inductive invariant.  *)
(***************************************************************************)
THEOREM WatchInductiveInvariant == WatchSpec => []WatchIInv
<1>1. WatchIInv /\ [WatchNext]_allVars => WatchIInv'
  BY WatchStepTypes, WatchStepListTravels DEF WatchIInv
<1>2. QED
  BY <1>1, WatchInitIInv, PTL DEF WatchSpec

\* The command's variables keep their types (camp.rs:602-664).
THEOREM WatchTypeCorrect == WatchSpec => []WatchTypeOK
<1>1. WatchIInv => WatchTypeOK
  BY EventTypes, CapacityAssumption
     DEF WatchIInv, WatchTypes, Counts, StreamInv, StreamTypeOK, WatchTypeOK
<1>2. QED
  BY <1>1, WatchInductiveInvariant, PTL

(***************************************************************************)
(* Whenever it is read, the state file is one whole list (camp.rs:1346).   *)
(***************************************************************************)
THEOREM SnapshotAlwaysWhole == WatchSpec => []SnapshotIsWhole
<1>1. WatchIInv => SnapshotIsWhole
  BY FilesAssumption DEF WatchIInv, WatchTypes, SnapshotIsWhole
<1>2. QED
  BY <1>1, WatchInductiveInvariant, PTL

(***************************************************************************)
(* With an event handled and none left to read the state file is the       *)
(* registry's content (camp.rs:639-648).                                   *)
(***************************************************************************)
THEOREM StateFileAlwaysCatchesUp == WatchSpec => []StateFileCatchesUp
<1>1. WatchIInv => StateFileCatchesUp
  BY CaughtUpIsCurrent
     DEF WatchIInv, WatchTypes, Counts, ListTravels, StateFileCatchesUp
<1>2. QED
  BY <1>1, WatchInductiveInvariant, PTL
=============================================================================
