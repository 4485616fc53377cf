----------------------- MODULE GovernedRunner_proofs -----------------------
(***************************************************************************)
(* Proofs about GovernedRunner.  RunnerIInv is inductive; the type         *)
(* invariant, DenialIsFinal and ReleaseHasEvidence are conjuncts of it.    *)
(* Every step of a call is an instance of lemma CallStep: it changes that  *)
(* call alone, and adds at most one record, of that call, to each store.   *)
(* OrderIInv is inductive beside it, for the action property PassedInOrder;*)
(* OrderStep is to it what CallStep is to RunnerIInv.                      *)
(***************************************************************************)
EXTENDS GovernedRunner, TLAPS

(* What is in a sequence after Append. *)
LEMMA AppendFacts ==
    ASSUME NEW S, NEW s \in Seq(S), NEW e \in S
    PROVE  /\ Append(s, e) \in Seq(S)
           /\ DOMAIN s = 1 .. Len(s)
           /\ DOMAIN Append(s, e) = 1 .. Len(s) + 1
           /\ Len(s) \in Nat
           /\ \A i \in DOMAIN s : Append(s, e)[i] = s[i]
           /\ Append(s, e)[Len(s) + 1] = e
    OBVIOUS

\* The stores after a step in which nothing but `event` is recorded.
Extended(event) ==
    \A o \in Observers :
        \/ evidence'[o] = evidence[o]
        \/ evidence'[o] = Append(evidence[o], event)

(* Notify adds the event to some of the stores, to all that are observing
   when no observer raises. *)
LEMMA NotifyFacts ==
    ASSUME TrailTypeOK, NEW event \in Event, NEW reached \in 0 .. Len(observers),
           Notify(event, reached)
    PROVE  /\ observers' = observers
           /\ evidence' \in [Observers -> Seq(Event)]
           /\ Extended(event)
           /\ reached = Len(observers) =>
                  \A o \in Attached : evidence'[o] = Append(evidence[o], event)
<1>1. \A i \in 1 .. reached : observers[i] \in Observers
  BY DEF TrailTypeOK
<1>2. Attached \subseteq Observers
  BY DEF TrailTypeOK, Attached
<1>3. \A o \in Observers : evidence[o] \in Seq(Event) /\ Append(evidence[o], event) \in Seq(Event)
  BY AppendFacts DEF TrailTypeOK
<1>4. evidence' \in [Observers -> Seq(Event)] /\ Extended(event) /\ observers' = observers
  BY <1>3 DEF Notify, Extended
<1>5. ASSUME reached = Len(observers), NEW o \in Attached
      PROVE  evidence'[o] = Append(evidence[o], event)
  BY <1>2, <1>5 DEF Notify, Attached
<1>6. QED
  BY <1>4, <1>5

(* The denials on record stay final when a call that was not denied adds a
   record. *)
LEMMA DenialsStayFinal ==
    ASSUME RunnerTypeOK, DenialIsFinal, NEW c \in Calls, NEW event \in Event,
           event.call = c, calls[c].pc # "denied", Extended(event),
           \A d \in Calls : d # c => calls'[d] = calls[d],
           event.outcome # "ALLOW" => calls'[c].pc = "denied"
    PROVE  DenialIsFinal'
<1>1. SUFFICES ASSUME NEW o \in Observers, NEW i \in DOMAIN evidence'[o],
                      evidence'[o][i].outcome # "ALLOW"
               PROVE  /\ calls'[evidence'[o][i].call].pc = "denied"
                      /\ \A j \in DOMAIN evidence'[o] :
                             j > i => evidence'[o][j].call # evidence'[o][i].call
  BY DEF DenialIsFinal
<1>2. evidence[o] \in Seq(Event)
  BY DEF RunnerTypeOK, TrailTypeOK
<1>3. ASSUME NEW j \in DOMAIN evidence[o], evidence[o][j].outcome # "ALLOW"
      PROVE  /\ evidence[o][j] \in Event
             /\ evidence[o][j].call # c
             /\ calls'[evidence[o][j].call].pc = "denied"
             /\ \A k \in DOMAIN evidence[o] :
                    k > j => evidence[o][k].call # evidence[o][j].call
  <2>1. evidence[o][j] \in Event
    BY <1>2, <1>3
  <2>2. /\ calls[evidence[o][j].call].pc = "denied"
        /\ \A k \in DOMAIN evidence[o] :
               k > j => evidence[o][k].call # evidence[o][j].call
    BY <1>3 DEF DenialIsFinal
  <2>3. evidence[o][j].call # c /\ evidence[o][j].call \in Calls
    BY <2>1, <2>2 DEF Event
  <2>4. QED
    BY <2>1, <2>2, <2>3
<1>4. CASE evidence'[o] = evidence[o]
  BY <1>1, <1>3, <1>4
<1>5. CASE evidence'[o] = Append(evidence[o], event)
  <2>1. /\ DOMAIN evidence[o] = 1 .. Len(evidence[o])
        /\ DOMAIN evidence'[o] = 1 .. Len(evidence[o]) + 1
        /\ Len(evidence[o]) \in Nat
        /\ \A j \in DOMAIN evidence[o] : evidence'[o][j] = evidence[o][j]
        /\ evidence'[o][Len(evidence[o]) + 1] = event
    BY <1>2, <1>5, AppendFacts
  <2>2. CASE i = Len(evidence[o]) + 1
    BY <1>1, <2>1, <2>2
  <2>3. CASE i \in DOMAIN evidence[o]
    <3>1. /\ evidence'[o][i] = evidence[o][i]
          /\ evidence[o][i].outcome # "ALLOW"
      BY <1>1, <2>1, <2>3
    <3>2. ASSUME NEW j \in DOMAIN evidence'[o], j > i
          PROVE  evidence'[o][j].call # evidence'[o][i].call
      <4>1. CASE j \in DOMAIN evidence[o]
        BY <1>3, <2>1, <2>3, <3>1, <3>2, <4>1
      <4>2. CASE j = Len(evidence[o]) + 1
        BY <1>3, <2>1, <2>3, <3>1, <4>2
      <4>3. QED
        BY <2>1, <4>1, <4>2
    <3>3. QED
      BY <1>3, <2>3, <3>1, <3>2
  <2>4. QED
    BY <2>1, <2>2, <2>3
<1>6. QED
  BY <1>4, <1>5 DEF Extended

(* Records are never lost. *)
LEMMA RecordedStays ==
    ASSUME RunnerTypeOK, NEW event \in Event, Extended(event),
           NEW o \in Observers, NEW c, NEW p, Recorded(o, c, p)
    PROVE  Recorded(o, c, p)'
<1>1. PICK i \in DOMAIN evidence[o] :
          evidence[o][i].call = c /\ evidence[o][i].point = p /\ evidence[o][i].outcome = "ALLOW"
  BY DEF Recorded
<1>2. evidence[o] \in Seq(Event)
  BY DEF RunnerTypeOK, TrailTypeOK
<1>3. CASE evidence'[o] = evidence[o]
  BY <1>1, <1>3 DEF Recorded
<1>4. CASE evidence'[o] = Append(evidence[o], event)
  <2>1. i \in DOMAIN evidence'[o] /\ evidence'[o][i] = evidence[o][i]
    BY <1>1, <1>2, <1>4, AppendFacts
  <2>2. QED
    BY <1>1, <2>1 DEF Recorded
<1>5. QED
  BY <1>3, <1>4 DEF Extended

(* What was appended is on record. *)
LEMMA AppendedIsRecorded ==
    ASSUME RunnerTypeOK, NEW event \in Event, event.outcome = "ALLOW",
           NEW o \in Observers, evidence'[o] = Append(evidence[o], event)
    PROVE  Recorded(o, event.call, event.point)'
<1>1. evidence[o] \in Seq(Event)
  BY DEF RunnerTypeOK, TrailTypeOK
<1>2. /\ Len(evidence[o]) + 1 \in DOMAIN evidence'[o]
      /\ evidence'[o][Len(evidence[o]) + 1] = event
  BY <1>1, AppendFacts
<1>3. QED
  BY <1>2 DEF Recorded

\* What the new state of a call must be like after its step.
Sound(call) ==
    /\ call \in Call
    /\ call.witnesses \subseteq Attached
    /\ call.pc = "agent" => call.kind = "run"
    /\ call.pc = "checking" =>
           /\ call.next \in 1 .. Len(evaluators[call.point])
           /\ call.point \in call.attachments
           /\ call.kind = "tool" <=> call.point = "PRE_TOOL"

(* A step of one call keeps the invariant, if the call comes to a sound state
   and every point that it has passed by then it had passed before, or passes
   with its permission recorded by every observer. *)
LEMMA CallStep ==
    ASSUME RunnerIInv, NEW c \in Calls, NEW new, NEW event \in Event,
           calls' = [calls EXCEPT ![c] = new], Sound(new),
           evaluators' = evaluators, observers' = observers,
           evidence' \in [Observers -> Seq(Event)], Extended(event), event.call = c,
           calls[c].pc # "denied",
           event.outcome # "ALLOW" => new.pc = "denied",
           \A p \in PassedPoints(new) :
               \/ p \in PassedPoints(calls[c]) /\ new.witnesses = calls[c].witnesses
               \/ /\ event.outcome = "ALLOW" /\ event.point = p
                  /\ \A o \in Attached : evidence'[o] = Append(evidence[o], event)
    PROVE  RunnerIInv'
<1> USE DEF RunnerIInv
<1>1. /\ \A d \in Calls : d # c => calls'[d] = calls[d]
      /\ calls'[c] = new
      /\ calls' \in [Calls -> Call]
  BY DEF RunnerTypeOK, Sound
<1>2. RunnerTypeOK'
  BY <1>1 DEF RunnerTypeOK, TrailTypeOK, Sound
<1>3. CallsAtTheirPoints'
  BY <1>1 DEF CallsAtTheirPoints, Sound
<1>4. WitnessesStay'
  <2>1. Attached' = Attached
    BY DEF Attached
  <2>2. QED
    BY <1>1, <2>1 DEF WitnessesStay, Sound
<1>5. DenialIsFinal'
  BY <1>1, DenialsStayFinal
<1>6. ReleaseHasEvidence'
  <2>1. SUFFICES ASSUME NEW d \in Calls, NEW p \in PassedPoints(calls'[d]),
                        NEW o \in calls'[d].witnesses
                 PROVE  Recorded(o, d, p)'
    BY DEF ReleaseHasEvidence, PassedPoints, AgentRan
  <2>2. o \in Observers
    BY <1>1 DEF Call
  <2>3. CASE p \in PassedPoints(calls[d]) /\ calls'[d].witnesses = calls[d].witnesses
    BY <2>1, <2>2, <2>3, RecordedStays DEF ReleaseHasEvidence
  <2>4. CASE d # c
    BY <1>1, <2>3, <2>4
  <2>5. CASE /\ d = c /\ event.outcome = "ALLOW" /\ event.point = p
             /\ \A w \in Attached : evidence'[w] = Append(evidence[w], event)
    <3>1. o \in Attached
      BY <1>1, <2>1, <2>5 DEF Sound
    <3>2. QED
      BY <2>2, <2>5, <3>1, AppendedIsRecorded
  <2>6. QED
    BY <1>1, <2>1, <2>3, <2>4, <2>5
<1>7. QED
  BY <1>2, <1>3, <1>4, <1>5, <1>6

(* The same for a step in which nothing is recorded. *)
LEMMA SilentStep ==
    ASSUME RunnerIInv, NEW c \in Calls, NEW new,
           calls' = [calls EXCEPT ![c] = new], Sound(new),
           UNCHANGED <<trailVars, evaluators>>, calls[c].pc # "denied",
           \A p \in PassedPoints(new) :
               p \in PassedPoints(calls[c]) /\ new.witnesses = calls[c].witnesses
    PROVE  RunnerIInv'
<1> DEFINE event == [call |-> c, point |-> "PRE_INPUT", policy |-> Default, outcome |-> "ALLOW"]
<1>1. event \in Event /\ event.call = c /\ event.outcome = "ALLOW"
  BY RunnerAssumption DEF Event, Outcomes
<1>2. /\ observers' = observers /\ evaluators' = evaluators
      /\ evidence' \in [Observers -> Seq(Event)]
      /\ Extended(event)
  BY DEF RunnerIInv, RunnerTypeOK, TrailTypeOK, trailVars, Extended
<1> HIDE DEF event
<1>3. QED
  BY <1>1, <1>2, CallStep

-----------------------------------------------------------------------------
(* The steps                                                                *)

LEMMA AttachKeepsInvariant ==
    ASSUME RunnerIInv, NEW p \in Points, NEW policy \in Policies, Attach(p, policy)
    PROVE  RunnerIInv'
<1> USE DEF Attach, trailVars, RunnerIInv
<1>1. RunnerTypeOK'
  <2>1. /\ evaluators' \in [Points -> Seq(Policies)]
        /\ \A q \in Points : Len(evaluators'[q]) \in Nat /\ Len(evaluators'[q]) >= Len(evaluators[q])
    BY DEF RunnerTypeOK
  <2>2. \A c \in Calls : calls[c].point \in Points /\ calls[c].next \in Nat
    BY DEF RunnerTypeOK, Call
  <2>3. \A q \in Points : Len(evaluators[q]) \in Nat
    BY DEF RunnerTypeOK
  <2>4. QED
    BY <2>1, <2>2, <2>3 DEF RunnerTypeOK, TrailTypeOK
<1>2. CallsAtTheirPoints' /\ WitnessesStay' /\ DenialIsFinal' /\ ReleaseHasEvidence'
  BY DEF CallsAtTheirPoints, WitnessesStay, Attached, DenialIsFinal, ReleaseHasEvidence,
         PassedPoints, AgentRan, Recorded
<1>3. QED
  BY <1>1, <1>2

LEMMA ObserveKeepsInvariant ==
    ASSUME RunnerIInv, Observe
    PROVE  RunnerIInv'
<1> USE DEF RunnerIInv
<1>1. PICK o \in Observers : AttachObserver(o)
  BY DEF Observe
<1>2. UNCHANGED <<evidence, evaluators, calls>>
  BY <1>1 DEF Observe, AttachObserver
<1>3. /\ observers \in Seq(Observers)
      /\ observers' = Append(observers, o)
  BY <1>1 DEF AttachObserver, RunnerTypeOK, TrailTypeOK
<1>4. observers' \in Seq(Observers) /\ Attached \subseteq Attached'
  <2>1. \A i \in 1 .. Len(observers) : i \in 1 .. Len(observers') /\ observers'[i] = observers[i]
    BY <1>3, AppendFacts
  <2>2. QED
    BY <1>3, <2>1 DEF Attached
<1>5. RunnerTypeOK'
  BY <1>2, <1>4 DEF RunnerTypeOK, TrailTypeOK
<1>6. WitnessesStay'
  BY <1>2, <1>4 DEF WitnessesStay
<1>7. CallsAtTheirPoints' /\ DenialIsFinal' /\ ReleaseHasEvidence'
  BY <1>2 DEF CallsAtTheirPoints, DenialIsFinal, ReleaseHasEvidence, PassedPoints, AgentRan, Recorded
<1>8. QED
  BY <1>5, <1>6, <1>7

\* A call that is about to reach its point: it has begun, or its agent returned.
Arriving(c, call) ==
    /\ call \in Call
    /\ call.witnesses \subseteq Attached
    /\ call.kind = "tool" <=> call.point = "PRE_TOOL"
    /\ calls[c].pc # "denied"
    /\ \/ call.point # "PRE_OUTPUT"
       \/ /\ calls[c].pc = "agent" /\ calls[c].kind = "run"
          /\ call = [calls[c] EXCEPT !.point = "PRE_OUTPUT"]

LEMMA EnterCheckKeepsInvariant ==
    ASSUME RunnerIInv, NEW c \in Calls, NEW call, Arriving(c, call), EnterCheck(c, call)
    PROVE  RunnerIInv'
<1> USE DEF Arriving
<1>1. call.point \in Points /\ call.pc \in PCs
  BY DEF Call
<1>2. CASE /\ evaluators[call.point] # <<>>
           /\ calls' = [calls EXCEPT ![c] = [call EXCEPT !.pc = "checking", !.next = 1]]
           /\ UNCHANGED trailVars
  <2> DEFINE new == [call EXCEPT !.pc = "checking", !.next = 1]
  <2>1. 1 \in 1 .. Len(evaluators[call.point])
    BY <1>1, <1>2 DEF RunnerIInv, RunnerTypeOK
  <2>2. Sound(new)
    BY <2>1, EnterCheck(c, call) DEF Sound, EnterCheck, Call, PCs
  <2>3. \A p \in PassedPoints(new) :
            p \in PassedPoints(calls[c]) /\ new.witnesses = calls[c].witnesses
    <3>1. /\ new.pc = "checking" /\ new.point = call.point /\ new.kind = call.kind
          /\ new.attachments = call.attachments /\ new.witnesses = call.witnesses
      BY DEF Call
    <3>2. calls[c] \in Call
      BY DEF RunnerIInv, RunnerTypeOK
    <3> HIDE DEF new
    <3>3. SUFFICES ASSUME NEW p \in PassedPoints(new)
                   PROVE  p \in PassedPoints(calls[c]) /\ new.witnesses = calls[c].witnesses
      OBVIOUS
    <3>4. p \in Points /\ p = "PRE_INPUT" /\ call.point = "PRE_OUTPUT" /\ p \in call.attachments
      BY <3>1, <3>3 DEF PassedPoints, AgentRan
    <3>5. QED
      BY <3>1, <3>2, <3>4 DEF PassedPoints, AgentRan, Call
  <2>4. calls' = [calls EXCEPT ![c] = new] /\ UNCHANGED <<trailVars, evaluators>>
    BY <1>2 DEF EnterCheck
  <2> HIDE DEF new
  <2>5. QED
    BY <2>2, <2>3, <2>4, SilentStep
<1>3. CASE /\ \E reached \in 0 .. Len(observers) :
                  Notify(EventOf(call, c, Default, "DENY"), reached)
           /\ calls' = [calls EXCEPT ![c] = [call EXCEPT !.pc = "denied", !.next = 0]]
  <2> DEFINE new == [call EXCEPT !.pc = "denied", !.next = 0]
  <2> DEFINE event == EventOf(call, c, Default, "DENY")
  <2>1. event \in Event /\ event.call = c
    BY <1>1 DEF EventOf, Event, Outcomes
  <2>2. PICK reached \in 0 .. Len(observers) : Notify(event, reached)
    BY <1>3
  <2>3. Sound(new) /\ new.pc = "denied"
    BY DEF Sound, Call, PCs
  <2>4. PassedPoints(new) = {}
    BY DEF PassedPoints, AgentRan, Call
  <2>5. calls' = [calls EXCEPT ![c] = new] /\ evaluators' = evaluators
    BY <1>3 DEF EnterCheck
  <2> HIDE DEF new, event
  <2>6. /\ observers' = observers
        /\ evidence' \in [Observers -> Seq(Event)]
        /\ Extended(event)
    BY <2>1, <2>2, NotifyFacts DEF RunnerIInv, RunnerTypeOK
  <2>7. QED
    BY <2>1, <2>3, <2>4, <2>5, <2>6, CallStep
<1>4. QED
  BY <1>2, <1>3 DEF EnterCheck

LEMMA SkipCheckKeepsInvariant ==
    ASSUME RunnerIInv, NEW c \in Calls, NEW call, Arriving(c, call), SkipCheck(c, call)
    PROVE  RunnerIInv'
<1> USE DEF Arriving
<1> DEFINE pc == CASE call.point = "PRE_INPUT" -> "agent"
                   [] call.point = "PRE_TOOL" -> "denied"
                   [] call.point = "PRE_OUTPUT" -> "permitted"
<1> DEFINE new == [call EXCEPT !.pc = pc]
<1>1. /\ call.point = "PRE_INPUT" => pc = "agent"
      /\ call.point = "PRE_TOOL" => pc = "denied"
      /\ call.point = "PRE_OUTPUT" => pc = "permitted"
      /\ call.point \in {"PRE_INPUT", "PRE_TOOL", "PRE_OUTPUT"}
      /\ call.kind \in {"run", "tool"}
  BY RunnerAssumption DEF Call
<1>2. calls' = [calls EXCEPT ![c] = new] /\ UNCHANGED <<trailVars, evaluators>>
  BY DEF SkipCheck
<1>3. /\ new.pc = pc /\ new.point = call.point /\ new.kind = call.kind
      /\ new.attachments = call.attachments /\ new.witnesses = call.witnesses
      /\ call.point \notin call.attachments
  BY DEF Call, SkipCheck
<1> HIDE DEF pc
<1>4. Sound(new)
  BY <1>1, <1>3 DEF Sound, Call, PCs
<1> HIDE DEF new
<1>5. ASSUME NEW p \in PassedPoints(new)
      PROVE  p \in PassedPoints(calls[c]) /\ new.witnesses = calls[c].witnesses
  <2>1. calls[c] \in Call
    BY DEF RunnerIInv, RunnerTypeOK
  <2>2. p \in Points /\ p = "PRE_INPUT" /\ call.point = "PRE_OUTPUT" /\ p \in call.attachments
    BY <1>1, <1>3, <1>5 DEF PassedPoints, AgentRan
  <2>3. QED
    BY <1>3, <2>1, <2>2 DEF PassedPoints, AgentRan, Call
<1>6. QED
  BY <1>2, <1>4, <1>5, SilentStep

LEMMA BeginKeepsInvariant ==
    ASSUME RunnerIInv, NEW c \in Calls, NEW kind \in {"run", "tool"},
           NEW attachments \in PolicySets,
           Begin(c, kind, attachments) \/ RefuseIdentity(c, kind, attachments)
    PROVE  RunnerIInv'
<1> DEFINE call == Begun(kind, attachments)
<1>1. calls[c].pc = "idle"
  BY DEF Begin, RefuseIdentity
<1>2. /\ call \in Call /\ call.witnesses = Attached
      /\ call.kind = "tool" <=> call.point = "PRE_TOOL"
      /\ call.point # "PRE_OUTPUT"
  <2>1. Attached \subseteq Observers
    BY DEF Attached, RunnerIInv, RunnerTypeOK, TrailTypeOK
  <2>2. attachments \in SUBSET Points /\ {"PRE_INPUT", "PRE_TOOL"} \subseteq Points
    BY RunnerAssumption
  <2>3. QED
    BY <2>1, <2>2 DEF Begun, Call, PCs
<1>3. Arriving(c, call)
  BY <1>1, <1>2 DEF Arriving
<1>4. CASE Begin(c, kind, attachments)
  BY <1>3, <1>4, EnterCheckKeepsInvariant, SkipCheckKeepsInvariant DEF Begin
<1>5. CASE RefuseIdentity(c, kind, attachments)
  <2> DEFINE new == [call EXCEPT !.pc = "denied"]
  <2>1. Sound(new)
    BY <1>2 DEF Sound, Call, PCs
  <2>2. PassedPoints(new) = {}
    BY <1>2 DEF PassedPoints, AgentRan, Call
  <2>3. calls' = [calls EXCEPT ![c] = new] /\ UNCHANGED <<trailVars, evaluators>>
    BY <1>5 DEF RefuseIdentity
  <2> HIDE DEF new
  <2>4. QED
    BY <1>1, <2>1, <2>2, <2>3, SilentStep
<1>6. QED
  BY <1>4, <1>5

LEMMA AgentReturnsKeepsInvariant ==
    ASSUME RunnerIInv, NEW c \in Calls, AgentReturns(c)
    PROVE  RunnerIInv'
<1> DEFINE call == [calls[c] EXCEPT !.point = "PRE_OUTPUT"]
<1>1. calls[c].pc = "agent" /\ calls[c] \in Call /\ calls[c].kind = "run"
      /\ calls[c].witnesses \subseteq Attached
  BY DEF AgentReturns, RunnerIInv, RunnerTypeOK, CallsAtTheirPoints, WitnessesStay
<1>2. Arriving(c, call)
  BY <1>1, RunnerAssumption DEF Arriving, Call
<1>3. EnterCheck(c, call) \/ SkipCheck(c, call)
  BY DEF AgentReturns
<1> HIDE DEF call
<1>4. QED
  BY <1>2, <1>3, EnterCheckKeepsInvariant, SkipCheckKeepsInvariant

LEMMA AbandonKeepsInvariant ==
    ASSUME RunnerIInv, NEW c \in Calls, Abandon(c)
    PROVE  RunnerIInv'
<1> DEFINE new == [calls[c] EXCEPT !.pc = "raised", !.next = 0]
<1>1. calls[c] \in Call /\ calls[c].witnesses \subseteq Attached /\ calls[c].pc # "denied"
  BY DEF Abandon, RunnerIInv, RunnerTypeOK, WitnessesStay
<1>2. calls' = [calls EXCEPT ![c] = new] /\ UNCHANGED <<trailVars, evaluators>>
  BY <1>1 DEF Abandon, RunnerIInv, RunnerTypeOK, Call
<1>3. Sound(new)
  BY <1>1 DEF Sound, Call, PCs
<1>4. PassedPoints(new) = {}
  BY <1>1 DEF PassedPoints, AgentRan, Call
<1> HIDE DEF new
<1>5. QED
  BY <1>1, <1>2, <1>3, <1>4, SilentStep

\* Where a permission that every observer recorded takes a call: to the next
\* evaluator, or past its point.
LEMMA PermitKeepsInvariant ==
    ASSUME RunnerIInv, NEW c \in Calls, Permit(c)
    PROVE  RunnerIInv'
<1> DEFINE event == EventOf(calls[c], c, Awaited(c), "ALLOW")
<1>1. /\ calls[c] \in Call /\ calls[c].witnesses \subseteq Attached
      /\ calls[c].pc = "checking"
      /\ calls[c].point \in calls[c].attachments
      /\ calls[c].kind = "tool" <=> calls[c].point = "PRE_TOOL"
      /\ calls[c].next \in 1 .. Len(evaluators[calls[c].point])
      /\ calls \in [Calls -> Call]
  BY DEF Permit, RunnerIInv, RunnerTypeOK, CallsAtTheirPoints, WitnessesStay
<1>2. /\ calls[c].point \in Points /\ calls[c].kind \in {"run", "tool"}
      /\ Points = {"PRE_INPUT", "PRE_TOOL", "PRE_OUTPUT"}
      /\ evaluators[calls[c].point] \in Seq(Policies)
  BY <1>1, RunnerAssumption DEF Call, RunnerIInv, RunnerTypeOK
<1>3. /\ event \in Event /\ event.call = c
      /\ event.outcome = "ALLOW" /\ event.point = calls[c].point
  BY <1>1, <1>2 DEF EventOf, Event, Outcomes, Awaited
<1> HIDE DEF event
<1>4. PICK reached \in 0 .. Len(observers) :
          /\ Notify(event, reached)
          /\ IF reached < Len(observers) THEN Settle(c, "denied")
             ELSE IF calls[c].next < Len(evaluators[calls[c].point])
                  THEN calls' = [calls EXCEPT ![c].next = @ + 1]
                  ELSE Settle(c, Cleared(c))
  BY DEF Permit, event
<1>5. /\ observers' = observers /\ evaluators' = evaluators
      /\ evidence' \in [Observers -> Seq(Event)]
      /\ Extended(event)
      /\ reached = Len(observers) =>
             \A o \in Attached : evidence'[o] = Append(evidence[o], event)
  BY <1>3, <1>4, NotifyFacts DEF Permit, RunnerIInv, RunnerTypeOK
<1>6. reached < Len(observers) \/ reached = Len(observers)
  BY <1>4 DEF RunnerIInv, RunnerTypeOK, TrailTypeOK
<1>7. CASE reached < Len(observers)
  <2> DEFINE new == [calls[c] EXCEPT !.pc = "denied", !.next = 0]
  <2>1. Sound(new)
    BY <1>1 DEF Sound, Call, PCs
  <2>2. PassedPoints(new) = {}
    BY <1>1 DEF PassedPoints, AgentRan, Call
  <2>3. calls' = [calls EXCEPT ![c] = new]
    BY <1>1, <1>4, <1>7 DEF Settle
  <2> HIDE DEF new
  <2>4. QED
    BY <1>1, <1>3, <1>5, <2>1, <2>2, <2>3, CallStep
<1>8. CASE reached = Len(observers) /\ calls[c].next < Len(evaluators[calls[c].point])
  <2> DEFINE new == [calls[c] EXCEPT !.next = @ + 1]
  <2>1. calls[c].next + 1 \in 1 .. Len(evaluators[calls[c].point])
    BY <1>1, <1>2, <1>8
  <2>2. Sound(new)
    BY <1>1, <2>1 DEF Sound, Call
  <2>3. /\ new.pc = calls[c].pc /\ new.point = calls[c].point /\ new.kind = calls[c].kind
        /\ new.attachments = calls[c].attachments /\ new.witnesses = calls[c].witnesses
    BY <1>1 DEF Call
  <2>4. calls' = [calls EXCEPT ![c] = new]
    BY <1>1, <1>4, <1>8
  <2> HIDE DEF new
  <2>5. PassedPoints(new) = PassedPoints(calls[c])
    BY <2>3 DEF PassedPoints, AgentRan
  <2>6. QED
    BY <1>1, <1>3, <1>5, <2>2, <2>3, <2>4, <2>5, CallStep
<1>9. CASE reached = Len(observers) /\ ~(calls[c].next < Len(evaluators[calls[c].point]))
  <2> DEFINE new == [calls[c] EXCEPT !.pc = Cleared(c), !.next = 0]
  <2>1. /\ Cleared(c) \in {"agent", "permitted"}
        /\ (Cleared(c) = "agent") <=> (calls[c].point = "PRE_INPUT")
    BY SMT DEF Cleared
  <2>2. /\ new.pc = Cleared(c) /\ new.point = calls[c].point /\ new.kind = calls[c].kind
        /\ new.attachments = calls[c].attachments /\ new.witnesses = calls[c].witnesses
        /\ new \in Call
    BY <1>1, <2>1 DEF Call, PCs
  <2>3. calls' = [calls EXCEPT ![c] = new]
    <3>1. PICK pc \in PCs : pc = Cleared(c)
      BY <2>1 DEF PCs
    <3>2. Settle(c, pc)
      BY <1>4, <1>9, <3>1
    <3>3. calls' = [calls EXCEPT ![c] = [calls[c] EXCEPT !.pc = pc, !.next = 0]]
      BY <1>1, <3>2 DEF Settle
    <3>4. QED
      BY <3>1, <3>3
  <2> HIDE DEF new
  <2>4. Sound(new)
    BY <1>1, <1>2, <2>1, <2>2 DEF Sound
  <2>5. ASSUME NEW p \in PassedPoints(new), p # calls[c].point
        PROVE  p \in PassedPoints(calls[c])
    BY <1>1, <1>2, <2>1, <2>2, <2>5 DEF PassedPoints, AgentRan
  <2>6. QED
    BY <1>1, <1>3, <1>5, <1>9, <2>2, <2>3, <2>4, <2>5, CallStep
<1>10. QED
  BY <1>6, <1>7, <1>8, <1>9

LEMMA RefusalKeepsInvariant ==
    ASSUME RunnerIInv, NEW c \in Calls, Deny(c) \/ Fail(c)
    PROVE  RunnerIInv'
<1> DEFINE new == [calls[c] EXCEPT !.pc = "denied", !.next = 0]
<1>1. /\ calls[c] \in Call /\ calls[c].witnesses \subseteq Attached
      /\ calls[c].pc = "checking"
      /\ calls[c].point \in Points
      /\ calls[c].next \in 1 .. Len(evaluators[calls[c].point])
      /\ evaluators[calls[c].point] \in Seq(Policies)
      /\ calls \in [Calls -> Call]
  BY DEF Deny, Fail, RunnerIInv, RunnerTypeOK, WitnessesStay, Call
<1>2. PICK outcome \in {"DENY", "ERROR"} : \E reached \in 0 .. Len(observers) :
          Notify(EventOf(calls[c], c, Awaited(c), outcome), reached)
  BY DEF Deny, Fail
<1> DEFINE event == EventOf(calls[c], c, Awaited(c), outcome)
<1>3. event \in Event /\ event.call = c
  BY <1>1 DEF EventOf, Event, Outcomes, Awaited
<1>4. Sound(new) /\ new.pc = "denied"
  BY <1>1 DEF Sound, Call, PCs
<1>5. PassedPoints(new) = {}
  BY <1>1 DEF PassedPoints, AgentRan, Call
<1>6. calls' = [calls EXCEPT ![c] = new] /\ evaluators' = evaluators
  BY <1>1 DEF Deny, Fail, Settle
<1> HIDE DEF new, event
<1>7. PICK reached \in 0 .. Len(observers) : Notify(event, reached)
  BY <1>2 DEF event
<1>8. /\ observers' = observers
      /\ evidence' \in [Observers -> Seq(Event)]
      /\ Extended(event)
  BY <1>3, <1>7, NotifyFacts DEF RunnerIInv, RunnerTypeOK
<1>9. QED
  BY <1>1, <1>3, <1>4, <1>5, <1>6, <1>8, CallStep

LEMMA NextKeepsInvariant ==
    ASSUME RunnerIInv, [Next]_vars
    PROVE  RunnerIInv'
<1>1. CASE UNCHANGED vars
  BY <1>1 DEF RunnerIInv, RunnerTypeOK, TrailTypeOK, CallsAtTheirPoints, WitnessesStay, Attached,
              DenialIsFinal, ReleaseHasEvidence, PassedPoints, AgentRan, Recorded, vars, trailVars
<1>2. CASE Next
  BY <1>2, AttachKeepsInvariant, ObserveKeepsInvariant, BeginKeepsInvariant,
     AgentReturnsKeepsInvariant, AbandonKeepsInvariant, PermitKeepsInvariant,
     RefusalKeepsInvariant DEF Next
<1>3. QED
  BY <1>1, <1>2

-----------------------------------------------------------------------------
(* The inductive invariant holds of every behaviour of the runner: its parts *)
(* hold at the start, and whatever a call, an evaluator, an observer or the  *)
(* configuration does next keeps them.                                       *)
THEOREM InvariantHolds == Spec => []RunnerIInv
<1>1. Init => RunnerIInv
  <2>1. SUFFICES ASSUME Init
                 PROVE  RunnerIInv
    OBVIOUS
  <2>2. RunnerTypeOK
    BY <2>1, RunnerAssumption DEF Init, TrailInit, RunnerTypeOK, TrailTypeOK, Call, PCs
  <2>3. /\ \A c \in Calls : calls[c].pc = "idle" /\ calls[c].witnesses = {}
        /\ \A o \in Observers : DOMAIN evidence[o] = {}
    BY <2>1 DEF Init, TrailInit
  <2>4. CallsAtTheirPoints /\ WitnessesStay /\ DenialIsFinal /\ ReleaseHasEvidence
    BY <2>3 DEF CallsAtTheirPoints, WitnessesStay, DenialIsFinal, ReleaseHasEvidence
  <2>5. QED
    BY <2>2, <2>4 DEF RunnerIInv
<1>2. RunnerIInv /\ [Next]_vars => RunnerIInv'
  BY NextKeepsInvariant
<1>3. QED
  BY <1>1, <1>2, PTL DEF Spec

(* A call never waits for an evaluator that is not there, however the list of *)
(* its point grows meanwhile (evaluate iterates over the live list).          *)
THEOREM TypeCorrect == Spec => []RunnerTypeOK
<1>1. RunnerIInv => RunnerTypeOK
  BY DEF RunnerIInv
<1>2. QED
  BY <1>1, InvariantHolds, PTL

(* Evaluation stops at the first denial or error, for any number of concurrent *)
(* calls, evaluators and observers.                                            *)
THEOREM DenialsAreFinal == Spec => []DenialIsFinal
<1>1. RunnerIInv => DenialIsFinal
  BY DEF RunnerIInv
<1>2. QED
  BY <1>1, InvariantHolds, PTL

(* No agent runs, no tool is authorized and no output is released without the *)
(* evidence of every observer, whichever observers fail and whatever is       *)
(* attached meanwhile.                                                        *)
THEOREM ReleasesHaveEvidence == Spec => []ReleaseHasEvidence
<1>1. RunnerIInv => ReleaseHasEvidence
  BY DEF RunnerIInv
<1>2. QED
  BY <1>1, InvariantHolds, PTL

-----------------------------------------------------------------------------
(* PassedInOrder.  OrderIInv is inductive: a step of a call records one      *)
(* event at most, and a permission that every observer recorded is the next  *)
(* of the list.                                                              *)

\* The permissions that a store holds of a call at a point.
Permissions(trail, c, p) ==
    {i \in DOMAIN trail :
        trail[i].call = c /\ trail[i].point = p /\ trail[i].outcome = "ALLOW"}

\* PermissionsInOrder, with its positions.
Positions(trail, c, p, names, n, at) ==
    /\ at \in [1 .. n -> Permissions(trail, c, p)]
    /\ \A k \in 1 .. n : trail[at[k]].policy = names[k]
    /\ \A k, m \in 1 .. n : k < m => at[k] < at[m]
    /\ \A i \in Permissions(trail, c, p) : \E k \in 1 .. n : at[k] = i

LEMMA OrderHasPositions ==
    ASSUME NEW trail, NEW c, NEW p, NEW names, NEW n
    PROVE  PermissionsInOrder(trail, c, p, names, n) <=>
               \E at : Positions(trail, c, p, names, n, at)
  BY DEF PermissionsInOrder, Positions, Permissions

(* A record of another call does not count. *)
LEMMA OthersRecord ==
    ASSUME NEW trail \in Seq(Event), NEW event \in Event, NEW c, event.call # c,
           NEW p, NEW names, NEW n, PermissionsInOrder(trail, c, p, names, n)
    PROVE  PermissionsInOrder(Append(trail, event), c, p, names, n)
<1> DEFINE longer == Append(trail, event)
<1>1. /\ DOMAIN trail = 1 .. Len(trail) /\ DOMAIN longer = 1 .. Len(trail) + 1
      /\ Len(trail) \in Nat
      /\ \A i \in DOMAIN trail : longer[i] = trail[i]
      /\ longer[Len(trail) + 1] = event
  BY AppendFacts
<1>2. PICK at : Positions(trail, c, p, names, n, at)
  BY OrderHasPositions
<1> HIDE DEF longer
<1>3. Permissions(longer, c, p) = Permissions(trail, c, p)
  BY <1>1 DEF Permissions
<1>4. \A k \in 1 .. n : longer[at[k]].policy = trail[at[k]].policy
  BY <1>1, <1>2 DEF Positions, Permissions
<1>5. Positions(longer, c, p, names, n, at)
  BY <1>2, <1>3, <1>4 DEF Positions
<1> QED
  BY <1>5, OrderHasPositions DEF longer

(* The permission of the next name is the next in order. *)
LEMMA NextRecord ==
    ASSUME NEW trail \in Seq(Event), NEW event \in Event, event.outcome = "ALLOW",
           NEW names, NEW n \in Nat, event.policy = names[n + 1],
           PermissionsInOrder(trail, event.call, event.point, names, n)
    PROVE  PermissionsInOrder(Append(trail, event), event.call, event.point, names, n + 1)
<1> DEFINE c == event.call
<1> DEFINE p == event.point
<1> DEFINE last == Len(trail) + 1
<1> DEFINE longer == Append(trail, event)
<1>1. /\ DOMAIN trail = 1 .. Len(trail) /\ DOMAIN longer = 1 .. last
      /\ Len(trail) \in Nat /\ last = Len(trail) + 1
      /\ \A i \in DOMAIN trail : i < last /\ longer[i] = trail[i]
      /\ longer[last] = event
  BY AppendFacts
<1>2. PICK at : Positions(trail, c, p, names, n, at)
  BY OrderHasPositions
<1> DEFINE more == [k \in 1 .. n + 1 |-> IF k = n + 1 THEN last ELSE at[k]]
<1>3. /\ more[n + 1] = last
      /\ \A k \in 1 .. n : more[k] = at[k]
      /\ DOMAIN more = 1 .. n + 1
      /\ more = [k \in 1 .. n + 1 |-> more[k]]
  OBVIOUS
<1> HIDE DEF longer, last, more
<1>4. Permissions(longer, c, p) = Permissions(trail, c, p) \cup {last}
  <2>1. \A i \in DOMAIN longer : i \in DOMAIN trail \/ i = last
    BY <1>1
  <2>2. DOMAIN trail \subseteq DOMAIN longer /\ last \in DOMAIN longer
    BY <1>1
  <2> QED
    BY <1>1, <2>1, <2>2 DEF Permissions
<1>5. \A k \in 1 .. n : at[k] \in Permissions(trail, c, p) /\ at[k] \in DOMAIN trail
  BY <1>2 DEF Positions, Permissions
<1>6. \A k \in 1 .. n + 1 : k \in 1 .. n \/ k = n + 1
  OBVIOUS
<1>7. more \in [1 .. n + 1 -> Permissions(longer, c, p)]
  BY <1>3, <1>4, <1>5, <1>6
<1>8. \A k \in 1 .. n + 1 : longer[more[k]].policy = names[k]
  <2>1. ASSUME NEW k \in 1 .. n PROVE longer[more[k]].policy = names[k]
    <3>1. more[k] = at[k] /\ at[k] \in DOMAIN trail
      BY <1>3, <1>5
    <3>2. longer[at[k]] = trail[at[k]]
      BY <1>1, <3>1
    <3>3. trail[at[k]].policy = names[k]
      BY <1>2 DEF Positions
    <3> QED
      BY <3>1, <3>2, <3>3
  <2>2. longer[more[n + 1]].policy = names[n + 1]
    BY <1>1, <1>3
  <2> QED
    BY <1>6, <2>1, <2>2
<1>9. ASSUME NEW k \in 1 .. n + 1, NEW m \in 1 .. n + 1, k < m PROVE more[k] < more[m]
  <2>1. k \in 1 .. n
    BY <1>9
  <2>2. CASE m \in 1 .. n
    BY <1>2, <1>3, <1>9, <2>1, <2>2 DEF Positions
  <2>3. CASE m = n + 1
    BY <1>1, <1>3, <1>5, <2>1, <2>3
  <2> QED
    BY <1>6, <2>2, <2>3
<1>10. \A i \in Permissions(longer, c, p) : \E k \in 1 .. n + 1 : more[k] = i
  <2>1. n + 1 \in 1 .. n + 1 /\ 1 .. n \subseteq 1 .. n + 1
    OBVIOUS
  <2> QED
    BY <1>2, <1>3, <1>4, <2>1 DEF Positions
<1>11. Positions(longer, c, p, names, n + 1, more)
  BY <1>7, <1>8, <1>9, <1>10 DEF Positions
<1> QED
  BY <1>11, OrderHasPositions DEF longer

(* No permissions are in order before any was given. *)
LEMMA NoRecords ==
    ASSUME NEW trail, NEW c, NEW p, NEW names,
           \A i \in DOMAIN trail : trail[i].call = c => trail[i].point # p
    PROVE  PermissionsInOrder(trail, c, p, names, 0)
<1>1. Permissions(trail, c, p) = {}
  BY DEF Permissions
<1> DEFINE at == [k \in 1 .. 0 |-> 0]
<1>2. Positions(trail, c, p, names, 0, at)
  BY <1>1 DEF Positions
<1> QED
  BY <1>2, OrderHasPositions

(* Only the first names matter. *)
LEMMA SameNames ==
    ASSUME NEW trail, NEW c, NEW p, NEW names, NEW other, NEW n,
           \A k \in 1 .. n : other[k] = names[k],
           PermissionsInOrder(trail, c, p, names, n)
    PROVE  PermissionsInOrder(trail, c, p, other, n)
<1>1. PICK at : Positions(trail, c, p, names, n, at)
  BY OrderHasPositions
<1>2. Positions(trail, c, p, other, n, at)
  BY <1>1 DEF Positions
<1> QED
  BY <1>2, OrderHasPositions

(* A step of one call keeps the order, if the call goes forward, and if what it
   awaits next comes after what is on record. *)
LEMMA OrderStep ==
    ASSUME OrderIInv, RunnerIInv', NEW c \in Calls, NEW new, NEW event \in Event,
           calls' = [calls EXCEPT ![c] = new], evaluators' = evaluators,
           Extended(event), event.call = c, new.pc # "idle",
           new.pc = "agent" => new.point = "PRE_INPUT",
           calls[c].pc = "idle" \/ calls[c].point # "PRE_OUTPUT" \/ new.point = "PRE_OUTPUT",
           event.point = "PRE_OUTPUT" => new.point = "PRE_OUTPUT",
           new.pc = "checking" =>
               \A o \in new.witnesses :
                   PermissionsInOrder(evidence'[o], c, new.point, evaluators[new.point],
                                      new.next - 1)
    PROVE  OrderIInv'
<1>1. /\ \A d \in Calls : d # c => calls'[d] = calls[d]
      /\ calls'[c] = new
  BY DEF OrderIInv, RunnerIInv, RunnerTypeOK
<1>2. \A o \in Observers : evidence[o] \in Seq(Event)
  BY DEF OrderIInv, RunnerIInv, RunnerTypeOK, TrailTypeOK
<1>3. RecordsOnTheWay'
  <2>1. ASSUME NEW o \in Observers, NEW i \in DOMAIN evidence'[o]
        PROVE  LET call == calls'[evidence'[o][i].call]
               IN  /\ call.pc # "idle"
                   /\ evidence'[o][i].point = "PRE_OUTPUT" => call.point = "PRE_OUTPUT"
    <3>1. ASSUME i \in DOMAIN evidence[o], evidence'[o][i] = evidence[o][i]
          PROVE  LET call == calls'[evidence'[o][i].call]
                 IN  /\ call.pc # "idle"
                     /\ evidence'[o][i].point = "PRE_OUTPUT" => call.point = "PRE_OUTPUT"
      <4>1. evidence[o][i] \in Event
        BY <1>2, <3>1
      <4>2. evidence[o][i].call \in Calls
        BY <4>1 DEF Event
      <4>3. /\ calls[evidence[o][i].call].pc # "idle"
            /\ evidence[o][i].point = "PRE_OUTPUT" =>
                   calls[evidence[o][i].call].point = "PRE_OUTPUT"
        BY <3>1 DEF OrderIInv, RecordsOnTheWay
      <4> QED
        BY <1>1, <3>1, <4>2, <4>3
    <3>2. CASE evidence'[o] = evidence[o]
      BY <2>1, <3>1, <3>2
    <3>3. CASE evidence'[o] = Append(evidence[o], event)
      <4>1. /\ DOMAIN evidence[o] = 1 .. Len(evidence[o])
            /\ DOMAIN evidence'[o] = 1 .. Len(evidence[o]) + 1
            /\ Len(evidence[o]) \in Nat
            /\ \A j \in DOMAIN evidence[o] : evidence'[o][j] = evidence[o][j]
            /\ evidence'[o][Len(evidence[o]) + 1] = event
        BY <1>2, <3>3, AppendFacts
      <4>2. CASE i \in DOMAIN evidence[o]
        BY <3>1, <4>1, <4>2
      <4>3. CASE i = Len(evidence[o]) + 1
        BY <1>1, <4>1, <4>3
      <4> QED
        BY <2>1, <4>1, <4>2, <4>3
    <3> QED
      BY <3>2, <3>3 DEF Extended
  <2>2. \A d \in Calls : calls'[d].pc = "agent" => calls'[d].point = "PRE_INPUT"
    BY <1>1 DEF OrderIInv, RecordsOnTheWay
  <2> QED
    BY <2>1, <2>2 DEF RecordsOnTheWay
<1>4. ASSUME NEW d \in Calls, calls'[d].pc = "checking", NEW o \in calls'[d].witnesses
      PROVE  PermissionsInOrder(evidence'[o], d, calls'[d].point, evaluators'[calls'[d].point],
                                calls'[d].next - 1)
  <2>1. CASE d = c
    BY <1>1, <1>4, <2>1
  <2>2. CASE d # c
    <3>1. /\ calls'[d] = calls[d] /\ calls[d].pc = "checking" /\ o \in calls[d].witnesses
      BY <1>1, <1>4, <2>2
    <3>2. o \in Observers
      BY <3>1 DEF OrderIInv, RunnerIInv, RunnerTypeOK, Call
    <3>3. PermissionsInOrder(evidence[o], d, calls[d].point, evaluators[calls[d].point],
                             calls[d].next - 1)
      BY <3>1 DEF OrderIInv, ProgressInOrder
    <3>4. PermissionsInOrder(evidence'[o], d, calls[d].point, evaluators[calls[d].point],
                             calls[d].next - 1)
      BY <1>2, <2>2, <3>2, <3>3, OthersRecord DEF Extended
    <3> QED
      BY <3>1, <3>4
  <2> QED
    BY <2>1, <2>2
<1>5. ProgressInOrder'
  BY <1>4 DEF ProgressInOrder
<1> QED
  BY <1>3, <1>5 DEF OrderIInv

(* The same for a step in which nothing is recorded. *)
LEMMA SilentOrderStep ==
    ASSUME OrderIInv, RunnerIInv', NEW c \in Calls, NEW new,
           calls' = [calls EXCEPT ![c] = new],
           UNCHANGED <<trailVars, evaluators>>, new.pc # "idle",
           new.pc = "agent" => new.point = "PRE_INPUT",
           calls[c].pc = "idle" \/ calls[c].point # "PRE_OUTPUT" \/ new.point = "PRE_OUTPUT",
           new.pc = "checking" =>
               \A o \in new.witnesses :
                   PermissionsInOrder(evidence[o], c, new.point, evaluators[new.point],
                                      new.next - 1)
    PROVE  OrderIInv'
<1> DEFINE event == [call |-> c, point |-> "PRE_INPUT", policy |-> Default, outcome |-> "ALLOW"]
<1>1. event \in Event /\ event.call = c /\ event.point # "PRE_OUTPUT"
  BY RunnerAssumption DEF Event, Outcomes
<1>2. evidence' = evidence /\ evaluators' = evaluators /\ Extended(event)
  BY DEF trailVars, Extended
<1> HIDE DEF event
<1> QED
  BY <1>1, <1>2, OrderStep

LEMMA AttachKeepsOrder ==
    ASSUME OrderIInv, RunnerIInv', NEW p \in Points, NEW policy \in Policies, Attach(p, policy)
    PROVE  OrderIInv'
<1>1. /\ calls' = calls /\ evidence' = evidence
      /\ evaluators' = [evaluators EXCEPT ![p] = Append(@, policy)]
  BY DEF Attach, trailVars
<1>2. RecordsOnTheWay'
  BY <1>1 DEF OrderIInv, RecordsOnTheWay
<1>3. ASSUME NEW c \in Calls, calls[c].pc = "checking", NEW o \in calls[c].witnesses
      PROVE  PermissionsInOrder(evidence[o], c, calls[c].point, evaluators'[calls[c].point],
                                calls[c].next - 1)
  <2> DEFINE point == calls[c].point
  <2>1. /\ point \in Points /\ evaluators[point] \in Seq(Policies)
        /\ calls[c].next \in 1 .. Len(evaluators[point])
        /\ evaluators \in [Points -> Seq(Policies)]
    BY <1>3 DEF OrderIInv, RunnerIInv, RunnerTypeOK, Call
  <2>2. PermissionsInOrder(evidence[o], c, point, evaluators[point], calls[c].next - 1)
    BY <1>3 DEF OrderIInv, ProgressInOrder
  <2> HIDE DEF point
  <2>3. evaluators'[point] = evaluators[point] \/ evaluators'[point] = Append(evaluators[point], policy)
    BY <1>1, <2>1
  <2>4. \A k \in 1 .. calls[c].next - 1 : evaluators'[point][k] = evaluators[point][k]
    <3>1. /\ DOMAIN evaluators[point] = 1 .. Len(evaluators[point])
          /\ Len(evaluators[point]) \in Nat
          /\ \A k \in DOMAIN evaluators[point] :
                 Append(evaluators[point], policy)[k] = evaluators[point][k]
      BY <2>1, AppendFacts
    <3>2. 1 .. calls[c].next - 1 \subseteq DOMAIN evaluators[point]
      BY <2>1, <3>1
    <3> QED
      BY <2>3, <3>1, <3>2
  <2> QED
    BY <2>2, <2>4, SameNames DEF point
<1>4. ProgressInOrder'
  BY <1>1, <1>3 DEF ProgressInOrder
<1> QED
  BY <1>2, <1>4 DEF OrderIInv

LEMMA ObserveKeepsOrder ==
    ASSUME OrderIInv, RunnerIInv', Observe
    PROVE  OrderIInv'
<1>1. UNCHANGED <<evidence, evaluators, calls>>
  BY DEF Observe, AttachObserver
<1> QED
  BY <1>1 DEF OrderIInv, RecordsOnTheWay, ProgressInOrder

\* A call that is about to reach a point has no record there.
NothingThere(c, call) ==
    /\ call \in Call
    /\ calls[c].pc = "idle" \/ calls[c].point # "PRE_OUTPUT"
    /\ \A o \in Observers : \A i \in DOMAIN evidence[o] :
           evidence[o][i].call = c => evidence[o][i].point # call.point

LEMMA EnterCheckKeepsOrder ==
    ASSUME OrderIInv, RunnerIInv', NEW c \in Calls, NEW call,
           NothingThere(c, call), EnterCheck(c, call)
    PROVE  OrderIInv'
<1> USE DEF NothingThere
<1>1. call.point \in Points /\ call.witnesses \subseteq Observers
  BY DEF Call
<1>2. CASE /\ evaluators[call.point] # <<>>
           /\ calls' = [calls EXCEPT ![c] = [call EXCEPT !.pc = "checking", !.next = 1]]
           /\ UNCHANGED trailVars
  <2> DEFINE new == [call EXCEPT !.pc = "checking", !.next = 1]
  <2>1. /\ new.pc = "checking" /\ new.point = call.point /\ new.next - 1 = 0
        /\ new.witnesses = call.witnesses
    BY DEF Call
  <2>2. calls' = [calls EXCEPT ![c] = new] /\ UNCHANGED <<trailVars, evaluators>>
    BY <1>2 DEF EnterCheck
  <2> HIDE DEF new
  <2>3. \A o \in new.witnesses :
            PermissionsInOrder(evidence[o], c, new.point, evaluators[new.point], new.next - 1)
    BY <1>1, <2>1, NoRecords
  <2> QED
    BY <2>1, <2>2, <2>3, SilentOrderStep
<1>3. CASE /\ \E reached \in 0 .. Len(observers) :
                  Notify(EventOf(call, c, Default, "DENY"), reached)
           /\ calls' = [calls EXCEPT ![c] = [call EXCEPT !.pc = "denied", !.next = 0]]
  <2> DEFINE new == [call EXCEPT !.pc = "denied", !.next = 0]
  <2> DEFINE event == EventOf(call, c, Default, "DENY")
  <2>1. event \in Event /\ event.call = c /\ event.point = call.point
    BY <1>1 DEF EventOf, Event, Outcomes
  <2>2. PICK reached \in 0 .. Len(observers) : Notify(event, reached)
    BY <1>3
  <2>3. new.pc = "denied" /\ new.point = call.point
    BY DEF Call
  <2>4. calls' = [calls EXCEPT ![c] = new] /\ evaluators' = evaluators
    BY <1>3 DEF EnterCheck
  <2> HIDE DEF new, event
  <2>5. Extended(event)
    BY <2>1, <2>2, NotifyFacts DEF OrderIInv, RunnerIInv, RunnerTypeOK
  <2> QED
    BY <2>1, <2>3, <2>4, <2>5, OrderStep
<1> QED
  BY <1>2, <1>3 DEF EnterCheck

LEMMA SkipCheckKeepsOrder ==
    ASSUME OrderIInv, RunnerIInv', NEW c \in Calls, NEW call,
           NothingThere(c, call), SkipCheck(c, call)
    PROVE  OrderIInv'
<1> DEFINE pc == CASE call.point = "PRE_INPUT" -> "agent"
                   [] call.point = "PRE_TOOL" -> "denied"
                   [] call.point = "PRE_OUTPUT" -> "permitted"
<1> DEFINE new == [call EXCEPT !.pc = pc]
<1>1. /\ pc \in {"agent", "denied", "permitted"}
      /\ pc = "agent" => call.point = "PRE_INPUT"
  BY RunnerAssumption DEF NothingThere, Call
<1> HIDE DEF pc
<1>2. new.pc = pc /\ new.point = call.point
  BY DEF NothingThere, Call
<1>3. calls' = [calls EXCEPT ![c] = new] /\ UNCHANGED <<trailVars, evaluators>>
  BY DEF SkipCheck, pc
<1> HIDE DEF new
<1> QED
  BY <1>1, <1>2, <1>3, SilentOrderStep DEF NothingThere

LEMMA BeginKeepsOrder ==
    ASSUME OrderIInv, RunnerIInv', NEW c \in Calls, NEW kind \in {"run", "tool"},
           NEW attachments \in PolicySets,
           Begin(c, kind, attachments) \/ RefuseIdentity(c, kind, attachments)
    PROVE  OrderIInv'
<1> DEFINE call == Begun(kind, attachments)
<1>1. calls[c].pc = "idle"
  BY DEF Begin, RefuseIdentity
<1>2. call \in Call
  <2>1. Attached \subseteq Observers
    BY DEF Attached, OrderIInv, RunnerIInv, RunnerTypeOK, TrailTypeOK
  <2>2. attachments \in SUBSET Points /\ {"PRE_INPUT", "PRE_TOOL"} \subseteq Points
    BY RunnerAssumption
  <2> QED
    BY <2>1, <2>2 DEF Begun, Call, PCs
<1>3. NothingThere(c, call)
  BY <1>1, <1>2 DEF NothingThere, OrderIInv, RecordsOnTheWay
<1>4. CASE Begin(c, kind, attachments)
  BY <1>3, <1>4, EnterCheckKeepsOrder, SkipCheckKeepsOrder DEF Begin
<1>5. CASE RefuseIdentity(c, kind, attachments)
  <2> DEFINE new == [call EXCEPT !.pc = "denied"]
  <2>1. new.pc = "denied"
    BY <1>2 DEF Call
  <2>2. calls' = [calls EXCEPT ![c] = new] /\ UNCHANGED <<trailVars, evaluators>>
    BY <1>5 DEF RefuseIdentity
  <2> HIDE DEF new
  <2> QED
    BY <1>1, <2>1, <2>2, SilentOrderStep
<1> QED
  BY <1>4, <1>5

LEMMA AgentReturnsKeepsOrder ==
    ASSUME OrderIInv, RunnerIInv', NEW c \in Calls, AgentReturns(c)
    PROVE  OrderIInv'
<1> DEFINE call == [calls[c] EXCEPT !.point = "PRE_OUTPUT"]
<1>1. /\ calls[c].pc = "agent" /\ calls[c] \in Call /\ calls[c].point = "PRE_INPUT"
      /\ call \in Call /\ call.point = "PRE_OUTPUT"
  <2>1. calls[c].pc = "agent" /\ calls[c] \in Call /\ calls[c].point = "PRE_INPUT"
    BY DEF AgentReturns, OrderIInv, RecordsOnTheWay, RunnerIInv, RunnerTypeOK
  <2> QED
    BY <2>1, RunnerAssumption DEF Call
<1>2. EnterCheck(c, call) \/ SkipCheck(c, call)
  BY DEF AgentReturns
<1> HIDE DEF call
<1>3. NothingThere(c, call)
  BY <1>1 DEF NothingThere, OrderIInv, RecordsOnTheWay
<1> QED
  BY <1>2, <1>3, EnterCheckKeepsOrder, SkipCheckKeepsOrder

LEMMA AbandonKeepsOrder ==
    ASSUME OrderIInv, RunnerIInv', NEW c \in Calls, Abandon(c)
    PROVE  OrderIInv'
<1> DEFINE new == [calls[c] EXCEPT !.pc = "raised", !.next = 0]
<1>1. calls[c] \in Call /\ calls \in [Calls -> Call]
  BY DEF OrderIInv, RunnerIInv, RunnerTypeOK
<1>2. new.pc = "raised" /\ new.point = calls[c].point
  BY <1>1 DEF Call
<1>3. calls' = [calls EXCEPT ![c] = new] /\ UNCHANGED <<trailVars, evaluators>>
  BY <1>1 DEF Abandon, Call
<1> HIDE DEF new
<1> QED
  BY <1>2, <1>3, SilentOrderStep

LEMMA RefusalKeepsOrder ==
    ASSUME OrderIInv, RunnerIInv', NEW c \in Calls, Deny(c) \/ Fail(c)
    PROVE  OrderIInv'
<1> DEFINE new == [calls[c] EXCEPT !.pc = "denied", !.next = 0]
<1>1. /\ calls[c] \in Call /\ calls[c].pc = "checking" /\ calls[c].point \in Points
      /\ calls[c].next \in 1 .. Len(evaluators[calls[c].point])
      /\ evaluators[calls[c].point] \in Seq(Policies)
      /\ calls \in [Calls -> Call]
  BY DEF Deny, Fail, OrderIInv, RunnerIInv, RunnerTypeOK, Call
<1>2. PICK outcome \in {"DENY", "ERROR"} : \E reached \in 0 .. Len(observers) :
          Notify(EventOf(calls[c], c, Awaited(c), outcome), reached)
  BY DEF Deny, Fail
<1> DEFINE event == EventOf(calls[c], c, Awaited(c), outcome)
<1>3. event \in Event /\ event.call = c /\ event.point = calls[c].point
  BY <1>1 DEF EventOf, Event, Outcomes, Awaited
<1>4. new.pc = "denied" /\ new.point = calls[c].point
  BY <1>1 DEF Call
<1>5. calls' = [calls EXCEPT ![c] = new] /\ evaluators' = evaluators
  BY <1>1 DEF Deny, Fail, Settle
<1> HIDE DEF new, event
<1>6. PICK reached \in 0 .. Len(observers) : Notify(event, reached)
  BY <1>2 DEF event
<1>7. Extended(event)
  BY <1>3, <1>6, NotifyFacts DEF OrderIInv, RunnerIInv, RunnerTypeOK
<1> QED
  BY <1>1, <1>3, <1>4, <1>5, <1>7, OrderStep

(* A permission that does not end in a denial is on record behind all those
   before it. *)
LEMMA PermissionRecorded ==
    ASSUME OrderIInv, NEW c \in Calls, Permit(c), calls'[c].pc # "denied",
           NEW o \in calls[c].witnesses
    PROVE  PermissionsInOrder(evidence'[o], c, calls[c].point, evaluators[calls[c].point],
                              calls[c].next)
<1> DEFINE event == EventOf(calls[c], c, Awaited(c), "ALLOW")
<1> DEFINE names == evaluators[calls[c].point]
<1>1. /\ calls[c] \in Call /\ calls[c].pc = "checking" /\ calls[c].point \in Points
      /\ calls[c].next \in 1 .. Len(names) /\ names \in Seq(Policies)
      /\ calls \in [Calls -> Call]
      /\ o \in Observers /\ o \in Attached
      /\ evidence[o] \in Seq(Event)
  BY DEF Permit, OrderIInv, RunnerIInv, RunnerTypeOK, TrailTypeOK, WitnessesStay, Call
<1>2. /\ event \in Event /\ event.call = c /\ event.outcome = "ALLOW"
      /\ event.point = calls[c].point /\ event.policy = names[calls[c].next]
  BY <1>1 DEF EventOf, Event, Outcomes, Awaited
<1>3. PICK reached \in 0 .. Len(observers) :
          /\ Notify(event, reached)
          /\ IF reached < Len(observers) THEN Settle(c, "denied")
             ELSE IF calls[c].next < Len(names)
                  THEN calls' = [calls EXCEPT ![c].next = @ + 1]
                  ELSE Settle(c, Cleared(c))
  BY DEF Permit
<1> HIDE DEF event, names
<1>4. reached = Len(observers)
  <2>1. ~Settle(c, "denied")
    BY <1>1 DEF Settle, Call
  <2>2. Len(observers) \in Nat
    BY DEF OrderIInv, RunnerIInv, RunnerTypeOK, TrailTypeOK
  <2> QED
    BY <1>3, <2>1, <2>2
<1>5. evidence'[o] = Append(evidence[o], event)
  BY <1>1, <1>2, <1>3, <1>4, NotifyFacts DEF OrderIInv, RunnerIInv, RunnerTypeOK
<1>6. PermissionsInOrder(evidence[o], c, calls[c].point, names, calls[c].next - 1)
  BY <1>1 DEF OrderIInv, ProgressInOrder, names
<1> DEFINE n == calls[c].next - 1
<1>7. n \in Nat /\ n + 1 = calls[c].next
  BY <1>1
<1> HIDE DEF n
<1>8. PermissionsInOrder(Append(evidence[o], event), event.call, event.point, names, n + 1)
  <2>1. event.policy = names[n + 1]
    BY <1>2, <1>7
  <2>2. PermissionsInOrder(evidence[o], event.call, event.point, names, n)
    BY <1>2, <1>6 DEF n
  <2> QED
    BY <1>1, <1>2, <1>7, <2>1, <2>2, NextRecord
<1> QED
  BY <1>2, <1>5, <1>7, <1>8 DEF names

LEMMA PermitKeepsOrder ==
    ASSUME OrderIInv, RunnerIInv', NEW c \in Calls, Permit(c)
    PROVE  OrderIInv'
<1> DEFINE event == EventOf(calls[c], c, Awaited(c), "ALLOW")
<1> DEFINE new == calls'[c]
<1>1. /\ calls[c] \in Call /\ calls[c].pc = "checking" /\ calls[c].point \in Points
      /\ calls[c].next \in 1 .. Len(evaluators[calls[c].point])
      /\ evaluators[calls[c].point] \in Seq(Policies)
      /\ calls \in [Calls -> Call]
  BY DEF Permit, OrderIInv, RunnerIInv, RunnerTypeOK, Call
<1>2. event \in Event /\ event.call = c /\ event.point = calls[c].point
  BY <1>1 DEF EventOf, Event, Outcomes, Awaited
<1>3. PICK reached \in 0 .. Len(observers) :
          /\ Notify(event, reached)
          /\ IF reached < Len(observers) THEN Settle(c, "denied")
             ELSE IF calls[c].next < Len(evaluators[calls[c].point])
                  THEN calls' = [calls EXCEPT ![c].next = @ + 1]
                  ELSE Settle(c, Cleared(c))
  BY DEF Permit
<1> HIDE DEF event
<1>4. /\ calls' = [calls EXCEPT ![c] = new]
      /\ new.point = calls[c].point /\ new.witnesses = calls[c].witnesses
      /\ \/ new.pc = "denied"
         \/ new.pc = "checking" /\ new.next = calls[c].next + 1
         \/ new.pc = Cleared(c)
  <2> DEFINE After(pc, next) == [calls[c] EXCEPT !.pc = pc, !.next = next]
  <2>1. ASSUME NEW pc, NEW next
        PROVE  /\ After(pc, next).pc = pc /\ After(pc, next).next = next
               /\ After(pc, next).point = calls[c].point
               /\ After(pc, next).witnesses = calls[c].witnesses
    BY <1>1 DEF Call
  <2>2. CASE Settle(c, "denied")
    <3>1. calls' = [calls EXCEPT ![c] = After("denied", 0)]
      BY <1>1, <2>2 DEF Settle
    <3> HIDE DEF After
    <3> QED
      BY <1>1, <2>1, <3>1
  <2>3. CASE calls' = [calls EXCEPT ![c].next = @ + 1]
    <3>1. calls' = [calls EXCEPT ![c] = After("checking", calls[c].next + 1)]
      <4>1. After("checking", calls[c].next + 1) = [calls[c] EXCEPT !.next = @ + 1]
        BY <1>1 DEF Call
      <4> HIDE DEF After
      <4> QED
        BY <1>1, <2>3, <4>1
    <3> HIDE DEF After
    <3> QED
      BY <1>1, <2>1, <3>1
  <2>4. CASE Settle(c, Cleared(c))
    <3>1. PICK pc \in PCs : pc = Cleared(c)
      BY DEF Cleared, PCs
    <3>2. Settle(c, pc)
      BY <2>4, <3>1
    <3>3. calls' = [calls EXCEPT ![c] = After(pc, 0)]
      BY <1>1, <3>2 DEF Settle
    <3> HIDE DEF After
    <3> QED
      BY <1>1, <2>1, <3>1, <3>3
  <2> QED
    BY <1>3, <2>2, <2>3, <2>4
<1>5. evaluators' = evaluators
  BY DEF Permit
<1>6. Extended(event)
  BY <1>2, <1>3, NotifyFacts DEF OrderIInv, RunnerIInv, RunnerTypeOK
<1>7. /\ Cleared(c) \in {"agent", "permitted"}
      /\ Cleared(c) = "agent" => calls[c].point = "PRE_INPUT"
  BY SMT DEF Cleared
<1>8. ASSUME new.pc = "checking", NEW o \in new.witnesses
      PROVE  PermissionsInOrder(evidence'[o], c, new.point, evaluators[new.point], new.next - 1)
  <2>1. new.next - 1 = calls[c].next
    BY <1>1, <1>4, <1>7, <1>8
  <2>2. PermissionsInOrder(evidence'[o], c, calls[c].point, evaluators[calls[c].point],
                           calls[c].next)
    BY <1>4, <1>8, PermissionRecorded
  <2> QED
    BY <1>4, <2>1, <2>2
<1>9. new.pc # "idle" /\ (new.pc = "agent" => new.point = "PRE_INPUT")
  BY <1>4, <1>7
<1> HIDE DEF new
<1> QED
  BY <1>1, <1>2, <1>4, <1>5, <1>6, <1>8, <1>9, OrderStep

LEMMA NextKeepsOrder ==
    ASSUME OrderIInv, RunnerIInv', [Next]_vars
    PROVE  OrderIInv'
<1>1. CASE UNCHANGED vars
  BY <1>1 DEF OrderIInv, RecordsOnTheWay, ProgressInOrder, vars, trailVars
<1>2. CASE Next
  BY <1>2, AttachKeepsOrder, ObserveKeepsOrder, BeginKeepsOrder, AgentReturnsKeepsOrder,
     AbandonKeepsOrder, PermitKeepsOrder, RefusalKeepsOrder DEF Next
<1> QED
  BY <1>1, <1>2

(* The records of every call are in order at all times. *)
THEOREM OrderInvariantHolds == Spec => []OrderIInv
<1>1. Init => RecordsOnTheWay /\ ProgressInOrder
  <2>1. SUFFICES ASSUME Init PROVE RecordsOnTheWay /\ ProgressInOrder
    OBVIOUS
  <2>2. /\ \A c \in Calls : calls[c].pc = "idle"
        /\ \A o \in Observers : DOMAIN evidence[o] = {}
    BY <2>1 DEF Init, TrailInit
  <2> QED
    BY <2>2 DEF RecordsOnTheWay, ProgressInOrder
<1>2. RunnerIInv /\ RecordsOnTheWay /\ ProgressInOrder <=> OrderIInv
  BY DEF OrderIInv
<1>3. OrderIInv /\ RunnerIInv' /\ [Next]_vars => OrderIInv'
  BY NextKeepsOrder
<1> QED
  BY <1>1, <1>2, <1>3, InvariantHolds, PTL DEF Spec

(* Only the permission of the last evaluator takes a call past its point. *)
LEMMA PassingStep ==
    ASSUME OrderIInv, [Next]_vars, NEW c \in Calls, Passes(c)
    PROVE  Permit(c) /\ calls[c].next = Len(evaluators[calls[c].point])
<1>1. /\ calls \in [Calls -> Call] /\ calls[c] \in Call
      /\ calls[c].pc = "checking" /\ calls'[c].pc \in {"agent", "permitted"}
      /\ calls[c].next \in 1 .. Len(evaluators[calls[c].point])
      /\ evaluators[calls[c].point] \in Seq(Policies)
  BY DEF Passes, OrderIInv, RunnerIInv, RunnerTypeOK, Call
<1>2. calls' # calls
  BY <1>1
<1>3. ASSUME NEW d \in Calls, NEW kind \in {"run", "tool"}, NEW attachments \in PolicySets,
             Begin(d, kind, attachments) \/ RefuseIdentity(d, kind, attachments)
      PROVE  FALSE
  <2>1. calls[d].pc = "idle" /\ d # c
    BY <1>1, <1>3 DEF Begin, RefuseIdentity
  <2> QED
    BY <1>1, <1>3, <2>1 DEF Begin, RefuseIdentity, EnterCheck, SkipCheck
<1>4. ASSUME NEW d \in Calls, AgentReturns(d) PROVE FALSE
  <2>1. calls[d].pc = "agent" /\ d # c
    BY <1>1, <1>4 DEF AgentReturns
  <2> QED
    BY <1>1, <1>4, <2>1 DEF AgentReturns, EnterCheck, SkipCheck
<1>5. ASSUME NEW d \in Calls, Abandon(d) \/ Deny(d) \/ Fail(d) PROVE FALSE
  BY <1>1, <1>5 DEF Abandon, Deny, Fail, Settle, Call
<1>6. ASSUME NEW d \in Calls, Permit(d) PROVE d = c
  BY <1>1, <1>6 DEF Permit, Settle
<1>7. Permit(c)
  BY <1>2, <1>3, <1>4, <1>5, <1>6 DEF Next, Attach, Observe, vars
<1>8. ~(calls' = [calls EXCEPT ![c].next = @ + 1]) /\ ~Settle(c, "denied")
  BY <1>1 DEF Settle, Call
<1>9. ~(calls[c].next < Len(evaluators[calls[c].point]))
  BY <1>7, <1>8 DEF Permit
<1> QED
  BY <1>1, <1>7, <1>9

(* For any number of concurrent calls, evaluators, observers and attachments:
   what lets a call pass its point is on record, in full and in order, with
   every observer of the call. *)
THEOREM PassesInOrder == Spec => PassedInOrder
<1>1. ASSUME OrderIInv, [Next]_vars, NEW c \in Calls, Passes(c), NEW o \in calls[c].witnesses
      PROVE  LET names == evaluators[calls[c].point]
             IN  PermissionsInOrder(evidence'[o], c, calls[c].point, names, Len(names))
  <2>1. Permit(c) /\ calls[c].next = Len(evaluators[calls[c].point])
    BY <1>1, PassingStep
  <2>2. calls'[c].pc # "denied"
    BY <1>1 DEF Passes
  <2> QED
    BY <1>1, <2>1, <2>2, PermissionRecorded
<1>2. OrderIInv /\ [Next]_vars =>
          [\A c \in Calls : Passes(c) =>
              \A o \in calls[c].witnesses :
                  LET names == evaluators[calls[c].point]
                  IN  PermissionsInOrder(evidence'[o], c, calls[c].point, names, Len(names))]_vars
  BY <1>1
<1> QED
  BY <1>2, OrderInvariantHolds, PTL DEF Spec, PassedInOrder
=============================================================================
