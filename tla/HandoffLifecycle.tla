-------------------------- MODULE HandoffLifecycle --------------------------
(***************************************************************************)
(* What the parties to a handoff may rely on: a session is over at the     *)
(* instant its time is up, whether or not anybody has looked, and a        *)
(* session that is over stays as it ended.  No clock, no deadline, no      *)
(* record to be brought up to date: the promise HandoffStore is shown to   *)
(* keep.                                                                   *)
(***************************************************************************)
CONSTANTS Ids, Unanswered

VARIABLES
    life,   \* the session of each correlation id, "none" where there is none
    told    \* what was answered about it last, since time has passed

vars == <<life, told>>

Init ==
    /\ life = [id \in Ids |-> "none"]
    /\ told = [id \in Ids |-> Unanswered]

Became(id, state) ==
    /\ life' = [life EXCEPT ![id] = state]
    /\ told' = [told EXCEPT ![id] = state]

Open(id) == life[id] = "none" /\ Became(id, "pending")

Begin(id) == life[id] = "pending" /\ Became(id, "active")

Complete(id) == life[id] = "active" /\ Became(id, "completed")

Close(id, state) ==
    /\ life[id] \in {"pending", "active"}
    /\ state \in {"denied", "expired"}
    /\ Became(id, state)

\* Time passes: that of some sessions is up, and answers are no longer news.
Pass(ids) ==
    /\ \A id \in ids : life[id] \in {"pending", "active"}
    /\ life' = [id \in Ids |-> IF id \in ids THEN "expired" ELSE life[id]]
    /\ told' = [id \in Ids |-> Unanswered]

\* A party asks how its handoff stands.  One that is not known is not resumed.
Recover(id) ==
    /\ told' = [told EXCEPT ![id] = IF life[id] = "none" THEN "expired" ELSE life[id]]
    /\ UNCHANGED life

\* The process dies: sessions are not kept, answers are.
Forget ==
    /\ life' = [id \in Ids |-> "none"]
    /\ UNCHANGED told

Next ==
    \/ \E id \in Ids :
        \/ Open(id) \/ Begin(id) \/ Complete(id) \/ Recover(id)
        \/ \E state \in {"denied", "expired"} : Close(id, state)
    \/ \E ids \in SUBSET Ids : Pass(ids)
    \/ Forget

Spec == Init /\ [][Next]_vars
=============================================================================
