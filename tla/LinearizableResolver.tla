------------------------ MODULE LinearizableResolver ------------------------
(***************************************************************************)
(* What a caller may rely on when it asks which version is active: the     *)
(* answer is one that was active, for the key it asked about, at some      *)
(* moment between the call and the return.  No cache, no generation: the   *)
(* promise VersionResolver is shown to keep.                               *)
(***************************************************************************)
CONSTANTS Threads, Key, Versions, NoVersion

VARIABLES
    active,   \* the version active for each key
    phase,    \* of each thread's call: "idle", "running" or "answered"
    asked,    \* the key each running call is about
    live,     \* the versions active for that key since the call began
    answer    \* what an answered call returns

vars == <<active, phase, asked, live, answer>>

Init ==
    /\ active = [k \in Key |-> NoVersion]
    /\ phase = [t \in Threads |-> "idle"]
    /\ asked \in [Threads -> Key]
    /\ live = [t \in Threads |-> {}]
    /\ answer = [t \in Threads |-> NoVersion]

Call(t, k) ==
    /\ phase[t] = "idle"
    /\ phase' = [phase EXCEPT ![t] = "running"]
    /\ asked' = [asked EXCEPT ![t] = k]
    /\ live' = [live EXCEPT ![t] = {active[k]}]
    /\ UNCHANGED <<active, answer>>

Activate(k, v) ==
    /\ active' = [active EXCEPT ![k] = v]
    /\ live' = [t \in Threads |->
                  IF phase[t] # "idle" /\ asked[t] = k
                  THEN live[t] \cup {v} ELSE live[t]]
    /\ UNCHANGED <<phase, asked, answer>>

Answer(t) ==
    /\ phase[t] = "running"
    /\ phase' = [phase EXCEPT ![t] = "answered"]
    /\ \E v \in live[t] : answer' = [answer EXCEPT ![t] = v]
    /\ UNCHANGED <<active, asked, live>>

Return(t) ==
    /\ phase[t] = "answered"
    /\ phase' = [phase EXCEPT ![t] = "idle"]
    /\ live' = [live EXCEPT ![t] = {}]
    /\ answer' = [answer EXCEPT ![t] = NoVersion]
    /\ UNCHANGED <<active, asked>>

Next ==
    \/ \E t \in Threads : (\E k \in Key : Call(t, k)) \/ Answer(t) \/ Return(t)
    \/ \E k \in Key, v \in Versions : Activate(k, v)

Spec == Init /\ [][Next]_vars
=============================================================================
