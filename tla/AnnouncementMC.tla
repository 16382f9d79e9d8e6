--------------------------- MODULE AnnouncementMC ---------------------------
(***************************************************************************)
(* A small instance of Announcement for TLC: a project name, a padded and  *)
(* a blank text, one whose second line reads like the branch's, a free key *)
(* and its padded form, the canonical status key as a caller might pass    *)
(* it, two capabilities.                                                   *)
(***************************************************************************)
EXTENDS Announcement

Plain == Statuses \cup {"agent-1", "alpha", "note", "status", "plan", "sync"}
Padded == {" alpha", " note", " status", " plan"}
Spelling == "alpha\nbranch=alpha"
AllTexts == Plain \cup Padded \cup {" ", "plan,sync", Spelling}

TrimAll == [t \in AllTexts |->
              CASE t = " alpha" -> "alpha" [] t = " note" -> "note"
                [] t = " status" -> "status" [] t = " plan" -> "plan"
                [] t = " " -> Empty [] OTHER -> t]

FirstLines == [t \in AllTexts |-> IF t = Spelling THEN "alpha" ELSE t]
OtherLinesOf == [t \in AllTexts |-> IF t = Spelling
                                   THEN <<<<"current_branch", "alpha">>>>
                                   ELSE <<>>]

Values3 == {" alpha", " ", Spelling}
Keys4 == {"note", " note", " status", " "}
Caps4 == {"sync", " plan", " ", "plan,sync"}
Commas == {"plan,sync"}

AgentProfile == [k \in TypedKeys |-> IF k = "agent_id" THEN "agent-1"
                                     ELSE IF k = "status" THEN "idle" ELSE "alpha"]
KeyRanks == [k \in FreeKeys |-> CASE k = " note" -> 0 [] k = " status" -> 1
                                 [] k = "note" -> 2 [] OTHER -> 3]
ProfilePlan == {"plan"}
PaddedNote == [k \in FreeKeys |-> IF k = " note" THEN "alpha" ELSE Missing]
=============================================================================
