---------------------------- MODULE HandoffStore ----------------------------
(***************************************************************************)
(* HandoffStore (python/governance/delegation.py): the sessions of long    *)
(* delegations.  Every method takes the store's lock and reads the clock   *)
(* under it, so a method is one action.  Nothing watches the deadlines: a  *)
(* session whose time is up keeps its status until recover_or_expire or a  *)
(* transition to EXPIRED records it.  created_at and token_id are stored   *)
(* and never read, and left out.                                           *)
(***************************************************************************)
EXTENDS Naturals

CONSTANTS
    Ids,            \* correlation ids
    MaxTimeout,     \* the 30 minutes that create admits
    MaxClock,       \* bound: the clock stops there
    MaxDeaths,      \* bound: times the process dies
    NoSession,
    Unanswered

Statuses == {"pending", "active", "completed", "expired", "denied"}
Session == [status : Statuses, expires : Nat]

ASSUME HandoffAssumption ==
    /\ {MaxTimeout, MaxClock, MaxDeaths} \subseteq Nat
    /\ NoSession \notin Session
    /\ Unanswered \notin Statuses

VARIABLES
    clock,
    sessions,   \* _sessions
    told,       \* history: what the last call about an id returned at this time
    deaths

handoffVars == <<clock, sessions, told, deaths>>

HandoffTypeOK ==
    /\ clock \in Nat
    /\ sessions \in [Ids -> Session \cup {NoSession}]
    /\ told \in [Ids -> Statuses \cup {Unanswered}]
    /\ deaths \in Nat

HandoffInit ==
    /\ clock = 0
    /\ sessions = [id \in Ids |-> NoSession]
    /\ told = [id \in Ids |-> Unanswered]
    /\ deaths = 0

-----------------------------------------------------------------------------
Known(id) == sessions[id] # NoSession

\* The session's time is up; at the deadline itself it already is.
Late(id) == clock >= sessions[id].expires

Answered(id, status) == told' = [told EXCEPT ![id] = status]

\* create, when it does not raise.
Create(id, timeout) ==
    /\ timeout \in 1 .. MaxTimeout
    /\ ~Known(id)
    /\ sessions' = [sessions EXCEPT ![id] = [status |-> "pending", expires |-> clock + timeout]]
    /\ Answered(id, "pending")
    /\ UNCHANGED <<clock, deaths>>

Allowed == [pending |-> {"active", "denied", "expired"},
            active |-> {"completed", "denied", "expired"},
            completed |-> {}, denied |-> {}, expired |-> {}]

\* transition, when it does not raise.
Transition(id, target) ==
    /\ Known(id)
    /\ Late(id) => target = "expired"
    /\ target \in Allowed[sessions[id].status]
    /\ sessions' = [sessions EXCEPT ![id].status = target]
    /\ Answered(id, target)
    /\ UNCHANGED <<clock, deaths>>

\* Mutant: a session expires just after its deadline.
OverdueAfter(id) == clock > sessions[id].expires /\ sessions[id].status \in {"pending", "active"}

Overdue(id) == Late(id) /\ sessions[id].status \in {"pending", "active"}

\* recover_or_expire: a session that is not known counts as expired, and is not
\* recorded.
RecoverOrExpire(id) ==
    /\ \/ /\ ~Known(id)
          /\ Answered(id, "expired")
          /\ UNCHANGED sessions
       \/ /\ Known(id) /\ Overdue(id)
          /\ sessions' = [sessions EXCEPT ![id].status = "expired"]
          /\ Answered(id, "expired")
       \/ /\ Known(id) /\ ~Overdue(id)
          /\ Answered(id, sessions[id].status)
          /\ UNCHANGED sessions
    /\ UNCHANGED <<clock, deaths>>

-----------------------------------------------------------------------------
Tick ==
    /\ clock < MaxClock
    /\ clock' = clock + 1
    /\ told' = [id \in Ids |-> Unanswered]
    /\ UNCHANGED <<sessions, deaths>>

\* The process dies, and the sessions with it.
Die ==
    /\ deaths < MaxDeaths
    /\ deaths' = deaths + 1
    /\ sessions' = [id \in Ids |-> NoSession]
    /\ UNCHANGED <<clock, told>>

HandoffNext ==
    \/ \E id \in Ids :
        \/ \E timeout \in 1 .. MaxTimeout : Create(id, timeout)
        \/ \E target \in Statuses : Transition(id, target)
        \/ RecoverOrExpire(id)
    \/ Tick \/ Die

HandoffSpec == HandoffInit /\ [][HandoffNext]_handoffVars

-----------------------------------------------------------------------------
\* How a session stands, whatever its record says.
Life(id) == IF ~Known(id) THEN "none"
            ELSE IF sessions[id].status \in {"pending", "active"} /\ clock >= sessions[id].expires
                 THEN "expired" ELSE sessions[id].status

Lifecycle == INSTANCE HandoffLifecycle WITH life <- [id \in Ids |-> Life(id)]

\* "Completed, denied, and expired sessions are terminal" (docs/CHAPTER-6.md),
\* and a session is expired from its deadline on although its record may say
\* otherwise for long: no call moves it on or says that it is still under way.
SessionsAreLifecycles == Lifecycle!Spec
=============================================================================
