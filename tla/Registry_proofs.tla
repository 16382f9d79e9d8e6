--------------------------- MODULE Registry_proofs ---------------------------
(***************************************************************************)
(* Proofs about the registry, for any number of agents, cards, callers,    *)
(* any TTL and any bounds.                                                 *)
(***************************************************************************)
EXTENDS Registry, TLAPS

(***************************************************************************)
(* The inductive invariant: the types, the lock discipline of a sweep, no  *)
(* captured instant in the future, and the two halves of the feed: chained *)
(* so far, and ending with what the map holds.  The second half is what    *)
(* makes the first inductive.                                              *)
(***************************************************************************)
CapturedInThePast == \A c \in Callers : call[c] # Idle => call[c].at <= now

IInv ==
    /\ TypeOK
    /\ SweepIsExact
    /\ CapturedInThePast
    /\ FeedMatchesMap
    /\ FeedIsChained

(***************************************************************************)
(* What a program built on the registry can do to it: more than Next,      *)
(* whose calls are bounded and never given up.  A begun operation that is  *)
(* dropped while it waits for the lock (a cancelled future, an aborted     *)
(* task) leaves no trace.  The lemmas are about Operation, so that they    *)
(* hold for a node as well (MeshNode_proofs).                              *)
(***************************************************************************)
Ask(c) ==
    \/ \E id \in Ids, card \in Cards, origin \in Origins :
          BeginUpsert(c, id, card, origin)
    \/ BeginEvict(c)

Abandon(c) ==
    /\ writer # c
    /\ call' = [call EXCEPT ![c] = Idle]
    /\ UNCHANGED <<inner, now, writer, stale, log>>

Takeaway ==
    \/ \E id \in Ids, origin \in Origins : Remove(id, origin)
    \/ \E instance \in Instances : RemoveByInstanceName(instance)

Operation ==
    \/ \E c \in Callers : Ask(c) \/ Step(c) \/ Abandon(c)
    \/ Takeaway
    \/ Tick

LEMMA NextIsOperation == [Next]_vars => [Operation]_vars
BY DEF Next, Request, RemoveRequest, Operation, Ask, Takeaway

-----------------------------------------------------------------------------
(* The feed as a sequence: what appending one event changes. *)

\* The prefix before an appended event is read as before (registry.rs:120).
LEMMA AppendKeepsPrefix ==
    ASSUME NEW s \in Seq(AgentEvent), NEW e \in AgentEvent,
           NEW n \in 0..Len(s), NEW id, NEW card, EndsWith(s, n, id, card)
    PROVE  EndsWith(Append(s, e), n, id, card)
<1>1. \A k \in 1..n : Append(s, e)[k] = s[k]
  OBVIOUS
<1>2. QED
  BY <1>1 DEF EndsWith

\* After an appended event, its agent has the card it announces.
LEMMA AppendEndsWithAfter ==
    ASSUME NEW s \in Seq(AgentEvent), NEW e \in AgentEvent
    PROVE  EndsWith(Append(s, e), Len(s) + 1, e.id, e.after)
<1>1. Append(s, e)[Len(s) + 1] = e
  OBVIOUS
<1>2. QED
  BY <1>1 DEF EndsWith

\* An appended event says nothing of any other agent.
LEMMA AppendKeepsOthers ==
    ASSUME NEW s \in Seq(AgentEvent), NEW e \in AgentEvent, NEW id, NEW card,
           e.id # id, EndsWith(s, Len(s), id, card)
    PROVE  EndsWith(Append(s, e), Len(s) + 1, id, card)
<1>1. /\ \A k \in 1..Len(s) : Append(s, e)[k] = s[k]
      /\ Append(s, e)[Len(s) + 1] = e
      /\ Len(s) \in Nat
  OBVIOUS
<1>2. QED
  BY <1>1 DEF EndsWith

-----------------------------------------------------------------------------
(* Every step either leaves the published cards and the feed alone, or     *)
(* changes one card and announces just that.                               *)

\* The card on record after the step.  The argument itself is not primed.
NextCardOf(id) == IF inner'[id] = None THEN None ELSE inner'[id].card

Quiet == log' = log /\ \A id \in Ids : NextCardOf(id) = CardOf(id)

Announces(e) ==
    /\ log' = Append(log, e)
    /\ e.before = CardOf(e.id) /\ e.after = NextCardOf(e.id)
    /\ e.before # e.after
    /\ \A id \in Ids \ {e.id} : NextCardOf(id) = CardOf(id)
    /\ e.after # None => e.reason = "NotLeft"
    /\ e.after = None => e.reason \in {"Graceful", "Expired"}
    /\ e.reason = "Expired" => e.origin = "Remote"

\* A removal announces the card that was on record (registry.rs:161-170).
LEMMA TakeOutAnnounces ==
    ASSUME TypeOK, NEW id \in Ids, NEW origin \in Origins,
           NEW reason \in {"Graceful", "Expired"}, TakeOut(id, origin, reason),
           reason = "Expired" => origin = "Remote"
    PROVE  \E e \in AgentEvent : Announces(e)
<1> DEFINE e == Left(id, inner[id].card, origin, reason)
<1>1. inner[id] \in AgentInfo /\ inner[id].card # None
  BY CardsAssumption DEF TakeOut, TypeOK, AgentInfo
<1>2. e \in AgentEvent
  BY <1>1 DEF Left, AgentEvent, AgentInfo, Reasons
<1>3. CardOf(id) = inner[id].card /\ NextCardOf(id) = None
  BY DEF CardOf, NextCardOf, TakeOut, TypeOK
<1>4. \A x \in Ids \ {id} : NextCardOf(x) = CardOf(x)
  BY DEF CardOf, NextCardOf, TakeOut, TypeOK
<1>5. /\ e.id = id /\ e.before = inner[id].card /\ e.after = None
      /\ e.origin = origin /\ e.reason = reason
      /\ log' = Append(log, e)
  BY DEF Left, TakeOut
<1> HIDE DEF e
<1>6. Announces(e)
  BY <1>1, <1>3, <1>4, <1>5 DEF Announces
<1>7. QED
  BY <1>2, <1>6

\* An upsert is a join, an update or a mere refresh (registry.rs:107-135).
LEMMA UpsertIsQuietOrAnnounces ==
    ASSUME TypeOK, NEW c \in Callers, FinishUpsert(c)
    PROVE  Quiet \/ \E e \in AgentEvent : Announces(e)
<1> DEFINE u == call[c]
           card == CardOf(u.id)
<1>1. u \in UpsertCall
  BY DEF TypeOK, FinishUpsert, Calls, Idle, EvictCall
<1>2. /\ u.id \in Ids /\ u.card \in Cards /\ u.origin \in Origins
      /\ u.card # None /\ card \in Cards \cup {None}
      /\ card = None <=> inner[u.id] = None
  BY <1>1, CardsAssumption DEF UpsertCall, TypeOK, AgentInfo, CardOf
<1>3. NextCardOf(u.id) = u.card
  <2>1. inner'[u.id] = [card |-> u.card, last_seen |-> u.at]
    BY <1>2 DEF FinishUpsert, Store, TypeOK
  <2>2. inner'[u.id] # None
    BY <1>1, <1>2, <2>1, CardsAssumption DEF UpsertCall, AgentInfo
  <2>3. QED
    BY <2>1, <2>2 DEF NextCardOf
<1>4. \A x \in Ids \ {u.id} : NextCardOf(x) = CardOf(x)
  BY <1>2 DEF FinishUpsert, Store, CardOf, NextCardOf, TypeOK
<1>5. CASE card = u.card
  <2>1. log' = log
    BY <1>2, <1>5 DEF FinishUpsert
  <2>2. QED
    BY <1>2, <1>3, <1>4, <1>5, <2>1 DEF Quiet
<1>6. CASE card # u.card
  <2> DEFINE e == [id |-> u.id, before |-> card, after |-> u.card,
                   origin |-> u.origin, reason |-> "NotLeft"]
  <2>1. e \in AgentEvent
    BY <1>2 DEF AgentEvent, Reasons
  <2>2. log' = Append(log, e)
    BY <1>2, <1>6 DEF FinishUpsert, Store, Joined, Updated
  <2>3. Announces(e)
    BY <1>2, <1>3, <1>4, <1>6, <2>2 DEF Announces
  <2>4. QED
    BY <2>1, <2>3
<1>7. QED
  BY <1>5, <1>6

LEMMA StepIsQuietOrAnnounces ==
    ASSUME TypeOK, [Operation]_vars
    PROVE  Quiet \/ \E e \in AgentEvent : Announces(e)
<1>1. CASE inner' = inner /\ log' = log
  BY <1>1 DEF Quiet, CardOf, NextCardOf
<1>2. ASSUME NEW c \in Callers, Ask(c) \/ Step(c) \/ Abandon(c)
      PROVE  Quiet \/ \E e \in AgentEvent : Announces(e)
  <2>1. CASE Ask(c) \/ Abandon(c)
    BY <1>1, <2>1 DEF Ask, BeginUpsert, BeginEvict, Abandon
  <2>2. CASE FinishUpsert(c)
    BY <2>2, UpsertIsQuietOrAnnounces
  <2>3. CASE CollectStale(c) \/ FinishEvict(c)
    BY <1>1, <2>3 DEF CollectStale, FinishEvict
  <2>4. ASSUME NEW id \in Ids, EvictOne(c, id)
        PROVE  \E e \in AgentEvent : Announces(e)
    BY <2>4, TakeOutAnnounces DEF EvictOne, Origins
  <2>5. QED
    BY <1>2, <2>1, <2>2, <2>3, <2>4 DEF Step
<1>3. CASE Takeaway
  <2>1. ASSUME NEW id \in Ids, NEW origin \in Origins, Remove(id, origin)
        PROVE  \E e \in AgentEvent : Announces(e)
    BY <2>1, TakeOutAnnounces DEF Remove
  <2>2. ASSUME NEW instance \in Instances, RemoveByInstanceName(instance)
        PROVE  \E e \in AgentEvent : Announces(e)
    <3>1. PICK id \in Ids : TakeOut(id, "Remote", "Graceful")
      BY <2>2 DEF RemoveByInstanceName, Present
    <3>2. QED
      BY <3>1, TakeOutAnnounces DEF Origins
  <2>3. QED
    BY <1>3, <2>1, <2>2 DEF Takeaway
<1>4. CASE Tick \/ UNCHANGED vars
  BY <1>1, <1>4 DEF Tick, vars
<1>5. QED
  BY <1>2, <1>3, <1>4 DEF Operation
-----------------------------------------------------------------------------
(* Preservation of the inductive invariant. *)

LEMMA InitIInv == Init => IInv
BY CardsAssumption
   DEF Init, IInv, TypeOK, SweepIsExact, CapturedInThePast, FeedMatchesMap,
       FeedIsChained, EndsWith, CardOf, Calls, Idle

LEMMA OperationTypeOK == TypeOK /\ [Operation]_vars => TypeOK'
<1> SUFFICES ASSUME TypeOK, [Operation]_vars PROVE TypeOK'
  OBVIOUS
<1>1. log' \in Seq(AgentEvent)
  BY StepIsQuietOrAnnounces DEF Quiet, Announces, TypeOK
<1>2. ASSUME NEW c \in Callers, Ask(c) PROVE TypeOK'
  BY <1>1, <1>2
     DEF Ask, BeginUpsert, BeginEvict, TypeOK, Calls, UpsertCall, EvictCall
<1>3. ASSUME NEW c \in Callers, FinishUpsert(c) PROVE TypeOK'
  <2>1. call[c] \in UpsertCall
    BY <1>3 DEF TypeOK, FinishUpsert, Calls, Idle, EvictCall
  <2>2. inner' \in [Ids -> AgentInfo \cup {None}]
    BY <1>3, <2>1 DEF TypeOK, FinishUpsert, Store, UpsertCall, AgentInfo
  <2>3. QED
    BY <1>1, <1>3, <2>2 DEF TypeOK, FinishUpsert, Calls
<1>4. ASSUME NEW c \in Callers, CollectStale(c) PROVE TypeOK'
  BY <1>1, <1>4 DEF CollectStale, TypeOK, Present
<1>5. ASSUME NEW c \in Callers, NEW id \in Ids, EvictOne(c, id) PROVE TypeOK'
  BY <1>1, <1>5 DEF EvictOne, TakeOut, TypeOK
<1>6. ASSUME NEW c \in Callers, FinishEvict(c) PROVE TypeOK'
  BY <1>1, <1>6 DEF FinishEvict, TypeOK, Calls
<1>7. CASE Takeaway
  BY <1>1, <1>7
     DEF Takeaway, Remove, RemoveByInstanceName, TakeOut, TypeOK, Present
<1>8. CASE Tick \/ UNCHANGED vars
  BY <1>1, <1>8 DEF Tick, vars, TypeOK
<1>9. ASSUME NEW c \in Callers, Abandon(c) PROVE TypeOK'
  BY <1>1, <1>9 DEF Abandon, TypeOK, Calls
<1>10. QED
  BY <1>2, <1>3, <1>4, <1>5, <1>6, <1>7, <1>8, <1>9 DEF Operation, Step

LEMMA OperationClock ==
    [Operation]_vars => now' = now \/ (now < MaxTime /\ now' = now + 1)
BY DEF Operation, Ask, BeginUpsert, BeginEvict, Step, FinishUpsert,
       CollectStale, EvictOne, FinishEvict, Abandon, Takeaway, Remove,
       RemoveByInstanceName, Tick, vars

\* An entry changes only by leaving the map or by an upsert that is due.
LEMMA OperationEntry ==
    ASSUME TypeOK, [Operation]_vars, NEW id \in Ids,
           inner'[id] # inner[id], inner'[id] # None
    PROVE  \E c \in Callers : /\ FinishUpsert(c)
                              /\ call[c].id = id
                              /\ inner'[id] = [card |-> call[c].card,
                                              last_seen |-> call[c].at]
BY DEF TypeOK, Operation, Ask, BeginUpsert, BeginEvict, Step, FinishUpsert,
       Store, CollectStale, EvictOne, FinishEvict, Abandon, Takeaway, Remove,
       RemoveByInstanceName, TakeOut, Tick, Present, vars

\* Instants are captured from a clock that only advances (registry.rs:78, 316).
LEMMA OperationCapturedInThePast ==
    TypeOK /\ CapturedInThePast /\ [Operation]_vars => CapturedInThePast'
<1> SUFFICES ASSUME TypeOK, CapturedInThePast, [Operation]_vars
             PROVE  CapturedInThePast'
  OBVIOUS
<1>1. ASSUME NEW c \in Callers, Ask(c) PROVE CapturedInThePast'
  BY <1>1 DEF Ask, BeginUpsert, BeginEvict, TypeOK, CapturedInThePast
<1>2. ASSUME NEW c \in Callers, Step(c) PROVE CapturedInThePast'
  BY <1>2 DEF Step, FinishUpsert, CollectStale, EvictOne, FinishEvict, TypeOK,
     CapturedInThePast
<1>3. CASE Takeaway
  BY <1>3 DEF Takeaway, Remove, RemoveByInstanceName, CapturedInThePast
<1>4. CASE Tick
  <2>1. \A c \in Callers : call[c] # Idle => call[c].at \in Nat
    BY DEF TypeOK, Calls, UpsertCall, EvictCall
  <2>2. QED
    BY <1>4, <2>1 DEF Tick, TypeOK, CapturedInThePast
<1>5. CASE UNCHANGED vars
  BY <1>5 DEF vars, CapturedInThePast
<1>6. ASSUME NEW c \in Callers, Abandon(c) PROVE CapturedInThePast'
  BY <1>6 DEF Abandon, TypeOK, CapturedInThePast
<1>7. QED
  BY <1>1, <1>2, <1>3, <1>4, <1>5, <1>6 DEF Operation

(***************************************************************************)
(* Only the lock's holder changes the map while the lock is held, and it   *)
(* changes no entry it has not listed (registry.rs:319-339).               *)
(***************************************************************************)
LEMMA OperationSweepIsExact ==
    TypeOK /\ SweepIsExact /\ [Operation]_vars => SweepIsExact'
<1> SUFFICES ASSUME TypeOK, SweepIsExact, [Operation]_vars
             PROVE  SweepIsExact'
  OBVIOUS
<1>1. ASSUME NEW c \in Callers, Ask(c) PROVE SweepIsExact'
  <2>1. writer # c
    BY <1>1, CardsAssumption
       DEF Ask, BeginUpsert, BeginEvict, SweepIsExact, Idle
  <2>2. /\ UNCHANGED <<inner, writer, stale>>
        /\ writer # None => call'[writer] = call[writer]
    BY <1>1, <2>1 DEF Ask, BeginUpsert, BeginEvict, TypeOK
  <2>3. QED
    BY <2>2 DEF SweepIsExact, Present, IsStale
<1>2. ASSUME NEW c \in Callers, FinishUpsert(c) PROVE SweepIsExact'
  BY <1>2 DEF FinishUpsert, SweepIsExact
<1>3. ASSUME NEW c \in Callers, CollectStale(c) PROVE SweepIsExact'
  BY <1>3, CardsAssumption DEF CollectStale, SweepIsExact, Present, IsStale
<1>4. ASSUME NEW c \in Callers, NEW x \in Ids, EvictOne(c, x)
      PROVE  SweepIsExact'
  <2>1. /\ writer = c /\ c # None /\ UNCHANGED <<writer, call>>
        /\ stale' = stale \ {x}
        /\ inner' = [inner EXCEPT ![x] = None]
    BY <1>4, CardsAssumption DEF EvictOne, TakeOut
  <2>2. Present' = Present \ {x}
    BY <2>1 DEF Present, TypeOK
  <2>3. \A id \in Present' : inner'[id] = inner[id]
    BY <2>1, <2>2 DEF Present, TypeOK
  <2>4. QED
    BY <2>1, <2>2, <2>3 DEF SweepIsExact, IsStale
<1>5. ASSUME NEW c \in Callers, FinishEvict(c) PROVE SweepIsExact'
  BY <1>5 DEF FinishEvict, SweepIsExact
<1>6. CASE Takeaway
  BY <1>6 DEF Takeaway, Remove, RemoveByInstanceName, SweepIsExact
<1>7. CASE Tick \/ UNCHANGED vars
  BY <1>7 DEF Tick, vars, SweepIsExact, Present, IsStale
<1>8. ASSUME NEW c \in Callers, Abandon(c) PROVE SweepIsExact'
  <2>1. /\ UNCHANGED <<inner, writer, stale>>
        /\ writer # None => call'[writer] = call[writer]
    BY <1>8 DEF Abandon, TypeOK
  <2>2. QED
    BY <2>1 DEF SweepIsExact, Present, IsStale
<1>9. QED
  BY <1>1, <1>2, <1>3, <1>4, <1>5, <1>6, <1>7, <1>8 DEF Operation, Step

\* An announced change extends both halves of the feed invariant.
LEMMA AnnouncedFeed ==
    ASSUME TypeOK, FeedMatchesMap, FeedIsChained,
           NEW e \in AgentEvent, Announces(e)
    PROVE  FeedMatchesMap' /\ FeedIsChained'
<1>1. /\ log \in Seq(AgentEvent) /\ Len(log) \in Nat
      /\ log' = Append(log, e) /\ Len(log') = Len(log) + 1
      /\ e.id \in Ids
  BY DEF TypeOK, Announces, AgentEvent
<1>2. ASSUME NEW id \in Ids
      PROVE  EndsWith(log', Len(log) + 1, id, NextCardOf(id))
  <2>1. CASE id = e.id
    BY <1>1, <2>1, AppendEndsWithAfter DEF Announces
  <2>2. CASE id # e.id
    <3>1. EndsWith(log, Len(log), id, CardOf(id))
      BY DEF FeedMatchesMap
    <3>2. NextCardOf(id) = CardOf(id)
      BY <2>2 DEF Announces
    <3>3. QED
      BY <1>1, <2>2, <3>1, <3>2, AppendKeepsOthers
  <2>3. QED
    BY <2>1, <2>2
<1>3. FeedMatchesMap'
  BY <1>1, <1>2 DEF FeedMatchesMap, CardOf, NextCardOf
<1>4. ASSUME NEW j \in 1..(Len(log) + 1)
      PROVE  /\ log'[j].before # log'[j].after
             /\ EndsWith(log', j - 1, log'[j].id, log'[j].before)
  <2>1. CASE j \in 1..Len(log)
    <3>1. log'[j] = log[j] /\ j - 1 \in 0..Len(log) /\ j \in DOMAIN log
      BY <1>1, <2>1
    <3>2. /\ log[j].before # log[j].after
          /\ EndsWith(log, j - 1, log[j].id, log[j].before)
      BY <3>1 DEF FeedIsChained
    <3>3. QED
      BY <1>1, <3>1, <3>2, AppendKeepsPrefix
  <2>2. CASE j = Len(log) + 1
    <3>1. log'[j] = e /\ j - 1 = Len(log)
      BY <1>1, <2>2
    <3>2. EndsWith(log, Len(log), e.id, e.before)
      BY <1>1 DEF FeedMatchesMap, Announces
    <3>3. EndsWith(log', Len(log), e.id, e.before)
      BY <1>1, <3>2, AppendKeepsPrefix
    <3>4. QED
      BY <3>1, <3>3 DEF Announces
  <2>3. QED
    BY <1>1, <2>1, <2>2
<1>5. FeedIsChained'
  <2>1. DOMAIN log' = 1..(Len(log) + 1)
    BY <1>1
  <2>2. QED
    BY <1>4, <2>1 DEF FeedIsChained
<1>6. QED
  BY <1>3, <1>5

LEMMA QuietFeed ==
    ASSUME FeedMatchesMap, FeedIsChained, Quiet
    PROVE  FeedMatchesMap' /\ FeedIsChained'
BY DEF Quiet, FeedMatchesMap, FeedIsChained, CardOf, NextCardOf

LEMMA OperationIInv == IInv /\ [Operation]_vars => IInv'
<1> SUFFICES ASSUME IInv, [Operation]_vars PROVE IInv'
  OBVIOUS
<1>1. FeedMatchesMap' /\ FeedIsChained'
  BY StepIsQuietOrAnnounces, AnnouncedFeed, QuietFeed DEF IInv
<1>2. QED
  BY <1>1, OperationTypeOK, OperationCapturedInThePast, OperationSweepIsExact
     DEF IInv

THEOREM InductiveInvariant == Spec => []IInv
BY InitIInv, NextIsOperation, OperationIInv, PTL DEF Spec

-----------------------------------------------------------------------------
(* The theorems. *)

\* The registry's variables keep their types (registry.rs:35-39).
THEOREM TypeCorrect == Spec => []TypeOK
<1>1. IInv => TypeOK
  BY DEF IInv
<1>2. QED
  BY <1>1, InductiveInvariant, PTL

(***************************************************************************)
(* Whatever operations interleave, the feed of each agent is a chain of    *)
(* changes (registry.rs:105-136, 161-170, 180-194, 320-337).               *)
(***************************************************************************)
THEOREM FeedAlwaysChained == Spec => []FeedIsChained
<1>1. IInv => FeedIsChained
  BY DEF IInv
<1>2. QED
  BY <1>1, InductiveInvariant, PTL

(***************************************************************************)
(* Replaying the feed yields the map, at every moment (registry.rs:36-38). *)
(***************************************************************************)
THEOREM FeedAlwaysMatchesMap == Spec => []FeedMatchesMap
<1>1. IInv => FeedMatchesMap
  BY DEF IInv
<1>2. QED
  BY <1>1, InductiveInvariant, PTL

(***************************************************************************)
(* While a sweep holds the lock its list is exactly what is stale          *)
(* (registry.rs:319-339).                                                  *)
(***************************************************************************)
THEOREM SweepAlwaysExact == Spec => []SweepIsExact
<1>1. IInv => SweepIsExact
  BY DEF IInv
<1>2. QED
  BY <1>1, InductiveInvariant, PTL

(***************************************************************************)
(* Only EvictOne appends an Expired event, for an agent that SweepIsExact  *)
(* says was stale at an instant CapturedInThePast bounds by the clock.     *)
(***************************************************************************)
LEMMA ExpiresLate ==
    ASSUME IInv, [Operation]_vars, NEW id \in Ids, Expires(id)
    PROVE  now - inner[id].last_seen > Ttl
<1>1. TypeOK /\ SweepIsExact /\ CapturedInThePast
  BY DEF IInv
<1>2. PICK c \in Callers, x \in Ids : EvictOne(c, x)
  <2>1. ASSUME NEW c \in Callers, Ask(c) \/ Abandon(c) \/ FinishUpsert(c)
                    \/ CollectStale(c) \/ FinishEvict(c)
        PROVE  FALSE
    <3>1. CASE FinishUpsert(c)
      <4>1. call[c] \in UpsertCall
        BY <1>1, <3>1 DEF TypeOK, FinishUpsert, Calls, Idle, EvictCall
      <4>2. inner'[id] # None
        BY <1>1, <3>1, <4>1, CardsAssumption
           DEF Expires, FinishUpsert, Store, UpsertCall, TypeOK, AgentInfo
      <4>3. QED
        BY <4>2 DEF Expires
    <3>2. CASE Ask(c) \/ Abandon(c) \/ CollectStale(c) \/ FinishEvict(c)
      BY <3>2
         DEF Expires, Ask, Abandon, BeginUpsert, BeginEvict, CollectStale,
             FinishEvict
    <3>3. QED
      BY <2>1, <3>1, <3>2
  <2>2. ~Takeaway
    <3>1. SUFFICES ASSUME Takeaway PROVE FALSE
      OBVIOUS
    <3>2. PICK y \in Ids, origin \in Origins : TakeOut(y, origin, "Graceful")
      BY <3>1 DEF Takeaway, Remove, RemoveByInstanceName, Present, Origins
    <3>3. log'[Len(log')].reason = "Graceful"
      <4> DEFINE e == Left(y, inner[y].card, origin, "Graceful")
      <4>1. /\ log' = Append(log, e) /\ log \in Seq(AgentEvent)
            /\ e.reason = "Graceful"
        BY <1>1, <3>2 DEF TakeOut, Left, TypeOK
      <4> HIDE DEF e
      <4>2. log'[Len(log')] = e
        BY <4>1
      <4>3. QED
        BY <4>1, <4>2
    <3>4. QED
      BY <3>3 DEF Expires
  <2>3. ~Tick /\ ~UNCHANGED vars
    BY DEF Expires, Tick, vars
  <2>4. QED
    BY <2>1, <2>2, <2>3 DEF Operation, Step
<1>3. x = id
  BY <1>1, <1>2 DEF Expires, EvictOne, TakeOut, TypeOK
<1>4. /\ call[c].op = "evict" /\ id \in stale
      /\ call[c].at - inner[id].last_seen > Ttl
  BY <1>1, <1>2, <1>3, CardsAssumption DEF EvictOne, SweepIsExact, IsStale
<1>5. /\ call[c].at <= now /\ call[c].at \in Nat /\ now \in Nat
      /\ inner[id].last_seen \in Nat
  BY <1>1, <1>4
     DEF CapturedInThePast, Expires, TypeOK, AgentInfo, Calls, UpsertCall,
         EvictCall, Idle
<1>6. QED
  BY <1>4, <1>5, TtlAssumption

(***************************************************************************)
(* No agent is announced as expired before its recorded observation is     *)
(* older than the TTL (registry.rs:316, 319-334).                          *)
(***************************************************************************)
THEOREM NeverExpiresEarly == Spec => NoPrematureExpiry
<1> DEFINE Late(id) == Expires(id) => now - inner[id].last_seen > Ttl
<1>1. IInv /\ [Next]_vars => [\A id \in Ids : Late(id)]_vars
  BY NextIsOperation, ExpiresLate
<1>2. QED
  BY <1>1, InductiveInvariant, PTL DEF Spec, NoPrematureExpiry

\* An announced change is a step of Presence's Next, all else a stutter.
LEMMA OperationImplementsPresence ==
    ASSUME TypeOK, [Operation]_vars
    PROVE  [Directory!Next]_(Directory!pvars)
<1> DEFINE cards == [id \in Ids |-> CardOf(id)]
<1> DEFINE nextCards == [id \in Ids |-> NextCardOf(id)]
<1>1. cards' = nextCards
  BY DEF CardOf, NextCardOf
<1>2. CASE Quiet
  <2>1. nextCards = cards
    BY <1>2 DEF Quiet
  <2>2. QED
    BY <1>1, <1>2, <2>1 DEF Quiet, Directory!pvars
<1>3. ASSUME NEW e \in AgentEvent, Announces(e) PROVE Directory!Next
  <2>1. e.id \in Ids /\ e.origin \in Origins /\ e.after \in Cards \cup {None}
    BY DEF AgentEvent
  <2>2. nextCards = [cards EXCEPT ![e.id] = e.after]
    BY <1>3, <2>1 DEF Announces
  <2>3. e = [id |-> e.id, before |-> cards[e.id], after |-> e.after,
             origin |-> e.origin, reason |-> e.reason]
    BY <1>3, <2>1 DEF AgentEvent, Announces
  <2>4. Directory!Change(e.id, e.after, e.origin, e.reason)
    BY <1>1, <1>3, <2>1, <2>2, <2>3 DEF Directory!Change, Announces
  <2>5. CASE e.after # None
    BY <1>3, <2>1, <2>4, <2>5
       DEF Announces, Directory!Next, Directory!Publish, Origins
  <2>6. CASE e.after = None
    BY <1>3, <2>1, <2>4, <2>6
       DEF Announces, Directory!Next, Directory!Leave, Directory!Expire,
           Origins
  <2>7. QED
    BY <2>5, <2>6
<1>4. QED
  BY <1>2, <1>3, StepIsQuietOrAnnounces

(***************************************************************************)
(* The registry implements the directory of Presence.tla: an announced     *)
(* change is a step of its Next, everything else a stutter.                *)
(***************************************************************************)
THEOREM RegistryImplementsPresence == Spec => ImplementsPresence
<1>1. Init => Directory!Init
  BY DEF Init, Directory!Init, CardOf
<1>2. TypeOK /\ [Next]_vars => [Directory!Next]_(Directory!pvars)
  BY NextIsOperation, OperationImplementsPresence
<1>3. QED
  BY <1>1, <1>2, TypeCorrect, PTL DEF Spec, ImplementsPresence, Directory!Spec
=============================================================================
