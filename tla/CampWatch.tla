------------------------------ MODULE CampWatch ------------------------------
(***************************************************************************)
(* camp watch (run_watch in src/bin/camp.rs): one task that prints a       *)
(* snapshot, subscribes to the registry's feed and, for every event, reads *)
(* the registry again and replaces the state file of --write-state, by     *)
(* writing a temporary file beside it and renaming that over it.  A failed *)
(* write or hook ends the command, and so do Ctrl-C and a receiver that    *)
(* lagged; it may be killed at any step and run again, with an empty       *)
(* registry of its own but the files the last run left.                    *)
(***************************************************************************)
EXTENDS EventStream

CONSTANTS
    Missing,         \* there is no such file
    Torn             \* a file whose write has begun and not ended

ASSUME FilesAssumption == Missing # Torn /\ {Missing, Torn} \cap Views = {}

VARIABLES
    step,            \* where run_watch is
    next,            \* its receiver's position in the feed, 0 before it exists
    agents,          \* the list of agents it read last
    printed,         \* the directory as a reader of its output sees it
    tmp_file,        \* what the temporary file holds
    state_file,      \* what the state file holds
    handled          \* events it has handled to the end

files == <<tmp_file, state_file>>
watchVars == <<step, next, agents, printed, files, handled>>
allVars == <<pvars, watchVars>>

WatchInit ==
    /\ Init
    /\ step = "discovering" /\ next = 0 /\ handled = 0
    /\ agents = directory /\ printed = directory
    /\ tmp_file = Missing /\ state_file = Missing

TakeSnapshot ==
    /\ step = "discovering"
    /\ agents' = directory /\ printed' = directory
    /\ step' = "store"
    /\ UNCHANGED <<pvars, next, files, handled>>

Receive ==
    /\ step = "receiving" /\ CanReceive(next)
    /\ printed' = Applied(printed, feed[next])
    /\ next' = next + 1
    /\ step' = "read"
    /\ UNCHANGED <<pvars, agents, files, handled>>

\* Fault: the state file mirrors what was printed, not the registry.
ReadPrinted ==
    /\ step = "read"
    /\ agents' = printed
    /\ step' = "store"
    /\ UNCHANGED <<pvars, next, printed, files, handled>>

ReadState ==
    /\ step = "read"
    /\ agents' = directory
    /\ step' = "store"
    /\ UNCHANGED <<pvars, next, printed, files, handled>>

-----------------------------------------------------------------------------
(* write_state_snapshot: fs::write opens, truncates and writes; a rename.  *)

\* Fault: a temporary file that is there already is taken for a whole one.
OpenUnlessThere ==
    /\ step = "store"
    /\ IF tmp_file = Missing THEN tmp_file' = Torn /\ step' = "opened"
                             ELSE step' = "written" /\ UNCHANGED tmp_file
    /\ UNCHANGED <<pvars, next, agents, printed, state_file, handled>>

OpenTemporary ==
    /\ step = "store"
    /\ tmp_file' = Torn
    /\ step' = "opened"
    /\ UNCHANGED <<pvars, next, agents, printed, state_file, handled>>

WriteTemporary ==
    /\ step = "opened"
    /\ tmp_file' = agents
    /\ step' = "written"
    /\ UNCHANGED <<pvars, next, agents, printed, state_file, handled>>

Rename ==
    /\ step = "written"
    /\ state_file' = tmp_file /\ tmp_file' = Missing
    /\ step' = "stored"
    /\ UNCHANGED <<pvars, next, agents, printed, handled>>

-----------------------------------------------------------------------------

\* After the snapshot's log line and hook.
Subscribe ==
    /\ step = "stored" /\ next = 0
    /\ next' = NewReceiver
    /\ step' = "receiving"
    /\ UNCHANGED <<pvars, agents, printed, files, handled>>

\* After the event's log line and hook.
Handled ==
    /\ step = "stored" /\ next # 0
    /\ handled' = handled + 1
    /\ step' = "receiving"
    /\ UNCHANGED <<pvars, next, agents, printed, files>>

End == step' = "ended" /\ UNCHANGED <<pvars, next, agents, printed, files, handled>>

\* `?` after the write, the rename, the log line and the hook.
Fails == step \in {"store", "opened", "written", "stored"} /\ End

\* Fault: a receiver that lagged is polled again as if nothing had happened.
EndLaggedNever ==
    /\ step = "receiving" /\ Lagged(next)
    /\ UNCHANGED <<pvars, watchVars>>

\* recv() returns Err(Lagged): the loop is left like on Ctrl-C.
EndLagged == step = "receiving" /\ Lagged(next) /\ End

CtrlC == step = "receiving" /\ End

Killed == step # "ended" /\ End

\* The command is run again: a new registry, the files as they were left.
Restart ==
    /\ step = "ended"
    /\ directory' = [id \in Ids |-> None] /\ feed' = <<>>
    /\ step' = "discovering" /\ next' = 0
    /\ agents' = directory' /\ printed' = directory'
    /\ handled' = 0
    /\ UNCHANGED files

Observe == step # "ended" /\ ObserverChange /\ UNCHANGED watchVars

WatchStep == TakeSnapshot \/ Receive \/ ReadState \/ OpenTemporary
             \/ WriteTemporary \/ Rename \/ Subscribe \/ Handled \/ EndLagged

\* The others come after a line was printed or a hook has returned.
OwnStep == Receive \/ OpenTemporary \/ WriteTemporary \/ Rename \/ EndLagged

WatchNext == Observe \/ WatchStep \/ Fails \/ CtrlC \/ Killed \/ Restart

WatchSpec == WatchInit /\ [][WatchNext]_allVars

\* The runtime polls the command's one task whenever it can go on: not while
\* it waits for the reader of its output, or for a hook, which has no timeout.
FairWatchSpec == WatchSpec /\ WF_allVars(OwnStep)

-----------------------------------------------------------------------------
(* Properties. *)

WatchTypeOK ==
    /\ directory \in Views /\ feed \in Feeds
    /\ step \in {"discovering", "store", "opened", "written", "stored",
                 "receiving", "read", "ended"}
    /\ next \in 0..(MaxEvents + 1)
    /\ {agents, printed} \subseteq Views
    /\ tmp_file \in Views \cup {Missing, Torn}
    /\ state_file \in Views \cup {Missing, Torn}
    /\ handled \in 0..MaxEvents

(***************************************************************************)
(* docs/spec.md:438: the state file is an atomic JSON snapshot: whoever    *)
(* reads it, at any moment and after any crash, reads one whole list,      *)
(* whatever a killed run left in the temporary file (camp.rs:1346-1349).   *)
(***************************************************************************)
SnapshotIsWhole == state_file # Torn

(***************************************************************************)
(* Once an event has been handled and none is left to read, the state file *)
(* is the registry's content: the registry is read after the event was     *)
(* received, so a later change comes with a later event                    *)
(* (camp.rs:639-648), and what happened before the subscription is in it.  *)
(***************************************************************************)
StateFileCatchesUp ==
    step = "receiving" /\ handled > 0 /\ CaughtUp(next)
        => state_file = directory

\* Every line it prints is taken in the end, and every hook returns.
OthersReturn == \A s \in {"discovering", "read", "stored"} : []<>(step # s)

(***************************************************************************)
(* Unless its output or a hook blocks it for ever, the command handles     *)
(* every event published since it subscribed to the end, or ends, however  *)
(* fast events come (camp.rs:636-662).                                     *)
(***************************************************************************)
WatchKeepsUp ==
    OthersReturn =>
        \A n \in 1..MaxEvents :
            next \in 1..n /\ n <= Len(feed)
                ~> step = "ended" \/ (step = "receiving" /\ next > n)

(***************************************************************************)
(* camp.rs:303: --write-state writes "the full discovered registry state   *)
(* to a JSON file on every change": with nothing left to read the file is  *)
(* the registry's content.                                                 *)
(***************************************************************************)
StateFileIsCurrent ==
    step = "receiving" /\ CaughtUp(next) => state_file = directory
=============================================================================
