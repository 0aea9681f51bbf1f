------------------------ MODULE ResponsesBridgeProofs ------------------------
(***************************************************************************)
(* Theorems about the bridge, for every number of sessions, calls and      *)
(* outputs and every set of requests: types and indexes, runners, queues,  *)
(* the life of a session, reports, what became of each tool call, and the  *)
(* ledger of calls the bridge implements.                                  *)
(***************************************************************************)
EXTENDS ResponsesBridge, FiniteSetTheorems, TLAPS

LEMMA BoundsAreNaturals == MaxSessions \in Nat /\ MaxCalls \in Nat /\ MaxOutputs \in Nat
BY BoundsAssumption

-----------------------------------------------------------------------------
(* Turns and queues.                                                       *)

\* The turns the actions queue are turns, and only calls are not ends.
LEMMA TurnsTyped ==
  /\ \A c \in Calls : CallTurn(c) \in Turns
  /\ \A k \in EndKinds : EndTurn(k) \in Turns
  /\ \A turn \in Turns : ~IsEnd(turn) => turn.call \in Calls
BY DEF Turns, CallTurn, EndTurn, IsEnd, EndKinds

\* What the three queue operations do to the type of the queues.
LEMMA QueuesTyped ==
  ASSUME outcomes \in [Sessions -> Seq(Turns)], NEW s \in Sessions
  PROVE  /\ \A turn \in Turns : Put(s, turn) => outcomes' \in [Sessions -> Seq(Turns)]
         /\ outcomes[s] # <<>> =>
              /\ Head(outcomes[s]) \in Turns
              /\ Take(s) => outcomes' \in [Sessions -> Seq(Turns)]
              /\ PutBack(s) => outcomes' \in [Sessions -> Seq(Turns)]
  <1> DEFINE q == outcomes[s]
  <1>1. q \in Seq(Turns)
    OBVIOUS
  <1>2. \A turn \in Turns, p \in Seq(Turns) : Append(p, turn) \in Seq(Turns)
    OBVIOUS
  <1>3. q # <<>> => Head(q) \in Turns /\ Tail(q) \in Seq(Turns)
    BY <1>1
  <1>4. \A p \in Seq(Turns) :
          outcomes' = [outcomes EXCEPT ![s] = p] => outcomes' \in [Sessions -> Seq(Turns)]
    OBVIOUS
  <1>5. \A turn \in Turns : Put(s, turn) => outcomes' \in [Sessions -> Seq(Turns)]
    BY <1>1, <1>2, <1>4 DEF Put
  <1>6. q # <<>> /\ Take(s) => outcomes' \in [Sessions -> Seq(Turns)]
    BY <1>3, <1>4 DEF Take
  <1>7. q # <<>> /\ PutBack(s) => outcomes' \in [Sessions -> Seq(Turns)]
    BY <1>2, <1>3, <1>4 DEF PutBack
  <1> QED BY <1>3, <1>5, <1>6, <1>7

\* The response a request binds: none or one.
LEMMA NewResponseTyped ==
  ASSUME nextResponse \in Responses
  PROVE  /\ \A route : NewResponse(route) \in {{}, {nextResponse}}
         /\ \A R \in {{}, {nextResponse}} :
              R \in SUBSET Responses /\ Cardinality(R) \in Nat
  <1>1. Cardinality({nextResponse}) = 1
    BY FS_Singleton
  <1>2. Cardinality({}) = 0
    BY FS_EmptySet
  <1>3. \A route : NewResponse(route) \in {{}, {nextResponse}}
    BY DEF NewResponse
  <1> QED BY <1>1, <1>2, <1>3

-----------------------------------------------------------------------------
(* Type correctness.                                                       *)

LEMMA InitTypeOK == Init => TypeOK
  <1> SUFFICES ASSUME Init PROVE TypeOK
    OBVIOUS
  <1>1. 1 \in Nat \ {0} /\ None \in Nat /\ 1 \in 1 .. MaxAttempts
    BY BoundsAssumption DEF None
  <1>2. <<>> \in Seq(Turns)
    OBVIOUS
  <1> QED BY <1>1, <1>2 DEF Init, TypeOK

\* The types of what Retire writes, and of what a closing loop writes besides.
RetireTypes ==
  /\ sessions \subseteq Sessions
  /\ runner \in [Sessions -> {"none", "booting", "running", "cancelling", "done"}]
  /\ idle \subseteq sessions
  /\ pending \in [Sessions -> SUBSET Calls]
  /\ callSession \in [Calls -> Sessions \cup {None}]
  /\ result \in [Calls -> {"unset", "output", "error"}]
  /\ responseIds \in [Sessions -> SUBSET Responses]
  /\ responseSession \in [Responses -> Sessions \cup {None}]

LoopTypes ==
  /\ pc \in [Requests -> {"idle", "opened", "first", "window", "expiring",
                         "abandoning", "stopping"}]
  /\ at \in [Requests -> Sessions \cup {None}]
  /\ \A h \in Requests : pc[h] # "idle" => at[h] \in Sessions
  /\ todo \in [Requests -> SUBSET Sessions]
  /\ nextSession \in Nat \ {0}
  /\ nextResponse \in Nat \ {0}

\* Closing sessions and inserting one keeps the types of what it writes.
LEMMA RetireTyped ==
  ASSUME TypeOK, NEW D \in SUBSET Sessions, NEW N \in SUBSET Sessions,
         NEW R \in SUBSET Responses, N # {} => nextSession \in Sessions,
         R # {} => N # {}, Retire(D, N, R)
  PROVE  RetireTypes'
  <1> USE DEF TypeOK, Retire
  <1>1. /\ sessions' \subseteq Sessions
        /\ idle' \subseteq sessions'
    OBVIOUS
  <1>2. runner' \in [Sessions -> {"none", "booting", "running", "cancelling", "done"}]
    OBVIOUS
  <1>3. /\ pending' \in [Sessions -> SUBSET Calls]
        /\ callSession' \in [Calls -> Sessions \cup {None}]
    OBVIOUS
  <1>4. result' \in [Calls -> {"unset", "output", "error"}]
    BY DEF Resolve
  <1>5. responseIds' \in [Sessions -> SUBSET Responses]
    OBVIOUS
  <1>6. responseSession' \in [Responses -> Sessions \cup {None}]
    OBVIOUS
  <1> QED BY <1>1, <1>2, <1>3, <1>4, <1>5, <1>6 DEF RetireTypes

\* So does a whole round of a closing loop.
LEMMA CloseInTurnTyped ==
  ASSUME TypeOK, NEW h \in Requests, NEW T \in SUBSET Sessions,
         NEW loop \in {"expiring", "abandoning", "stopping"}, CloseInTurn(h, T, loop)
  PROVE  RetireTypes' /\ LoopTypes'
  <1> DEFINE live == {s \in T : ~Closed(s)}
  <1>1. CASE \E s \in live :
               /\ Retire({t \in T : t <= s}, {}, {})
               /\ pc' = [pc EXCEPT ![h] = loop]
               /\ at' = [at EXCEPT ![h] = s]
               /\ todo' = [todo EXCEPT ![h] = {t \in T : t > s}]
               /\ UNCHANGED <<nextSession, nextResponse>>
    <2> PICK s \in live :
               /\ Retire({t \in T : t <= s}, {}, {})
               /\ pc' = [pc EXCEPT ![h] = loop]
               /\ at' = [at EXCEPT ![h] = s]
               /\ todo' = [todo EXCEPT ![h] = {t \in T : t > s}]
               /\ UNCHANGED <<nextSession, nextResponse>>
      BY <1>1
    <2>1. RetireTypes'
      BY RetireTyped
    <2>2. LoopTypes'
      BY DEF TypeOK, LoopTypes
    <2> QED BY <2>1, <2>2
  <1>2. CASE Insert(h, T)
    <2> PICK route \in Routes :
               /\ nextSession \in Sessions /\ nextResponse \in Responses
               /\ Retire(T, {nextSession}, NewResponse(route))
               /\ BeginReading(h, nextSession)
               /\ nextSession' = nextSession + 1
               /\ nextResponse' = nextResponse + Cardinality(NewResponse(route))
               /\ todo' = [todo EXCEPT ![h] = {}]
      BY <1>2 DEF Insert
    <2>1. /\ NewResponse(route) \in SUBSET Responses
          /\ Cardinality(NewResponse(route)) \in Nat
      BY NewResponseTyped
    <2>2. RetireTypes'
      BY <2>1, RetireTyped
    <2>3. LoopTypes'
      BY <2>1 DEF TypeOK, LoopTypes, BeginReading
    <2> QED BY <2>2, <2>3
  <1>3. CASE /\ Retire(T, {}, {})
             /\ Leave(h)
             /\ todo' = [todo EXCEPT ![h] = {}]
             /\ UNCHANGED <<nextSession, nextResponse>>
    <2>1. RetireTypes'
      BY <1>3, RetireTyped
    <2>2. LoopTypes'
      BY <1>3 DEF TypeOK, LoopTypes, Leave, None
    <2> QED BY <2>1, <2>2
  <1> QED BY <1>1, <1>2, <1>3 DEF CloseInTurn

\* A submission that is accepted, and one that fails partway, keep the types.
LEMMA SubmitTyped ==
  ASSUME TypeOK, NEW h \in Requests, NEW s \in Sessions, NEW outs,
         NEW R \in SUBSET {nextResponse}, R # {} => nextResponse \in Responses,
         Submit(h, s, outs, R)
  PROVE  TypeOK'
  <1>1. R \in SUBSET Responses /\ Cardinality(R) \in Nat
    BY NewResponseTyped, FS_EmptySet
  <1>2. /\ responseIds' \in [Sessions -> SUBSET Responses]
        /\ responseSession' \in [Responses -> Sessions \cup {None}]
        /\ nextResponse' \in Nat \ {0}
    <2>1. responseIds' \in [Sessions -> SUBSET Responses]
      BY <1>1 DEF TypeOK, Submit
    <2>2. responseSession' \in [Responses -> Sessions \cup {None}]
      BY <1>1 DEF TypeOK, Submit
    <2>3. nextResponse' \in Nat \ {0}
      BY <1>1 DEF TypeOK, Submit
    <2> QED BY <2>1, <2>2, <2>3
  <1>3. result' \in [Calls -> {"unset", "output", "error"}]
    BY DEF TypeOK, Submit, Resolve
  <1>4. LoopTypes'
    BY <1>2 DEF TypeOK, LoopTypes, Submit, BeginReading
  <1> QED BY <1>2, <1>3, <1>4
       DEF TypeOK, LoopTypes, Submit, Touch, agentVars, clientVars

LEMMA PartwayTyped ==
  ASSUME TypeOK, NEW s \in Sessions, NEW outs, SubmitFailsPartway(s, outs)
  PROVE  TypeOK'
  <1>1. result' \in [Calls -> {"unset", "output", "error"}]
    BY DEF TypeOK, SubmitFailsPartway, Resolve
  <1> QED BY <1>1
       DEF TypeOK, SubmitFailsPartway, indexVars, agentVars, requestVars, idVars, clientVars

\* Every step keeps the types.
LEMMA NextTypeOK == TypeOK /\ [Next]_vars => TypeOK'
  <1> SUFFICES ASSUME TypeOK, [Next]_vars PROVE TypeOK'
    OBVIOUS
  <1> USE DEF indexVars, agentVars, callVars, requestVars, idVars, clientVars
  <1>1. ASSUME NEW s \in Sessions, SessionStep(s) PROVE TypeOK'
    <2>1. CASE AgentBoots(s)
      BY <2>1 DEF TypeOK, AgentBoots
    <2>2. CASE AgentEvent(s)
      BY <2>2 DEF TypeOK, AgentEvent, Touch
    <2>3. CASE AgentFails(s)
      <3>1. outcomes' \in [Sessions -> Seq(Turns)]
        BY <2>3, QueuesTyped, TurnsTyped DEF AgentFails, TypeOK, EndKinds
      <3> QED BY <2>3, <3>1 DEF TypeOK, AgentFails, RunnerEnds, Touch, Resolve
    <2>4. CASE AgentCompletes(s)
      <3>1. outcomes' \in [Sessions -> Seq(Turns)]
        BY <2>4, QueuesTyped, TurnsTyped DEF AgentCompletes, TypeOK, EndKinds
      <3> QED BY <2>4, <3>1 DEF TypeOK, AgentCompletes, RunnerEnds, Touch
    <2>5. CASE AgentRetries(s)
      <3>1. attempt' \in [Sessions -> 1 .. MaxAttempts]
        <4>1. attempt[s] + 1 \in 1 .. MaxAttempts
          <5>1. attempt[s] \in 1 .. MaxAttempts /\ attempt[s] < MaxAttempts
            BY <2>5 DEF TypeOK, AgentRetries
          <5> QED BY <5>1, BoundsAssumption
        <4> QED BY <2>5, <4>1 DEF TypeOK, AgentRetries
      <3> QED BY <2>5, <3>1 DEF TypeOK, AgentRetries, Touch
    <2>6. CASE AgentRejected(s)
      <3>1. outcomes' \in [Sessions -> Seq(Turns)]
        BY <2>6, QueuesTyped, TurnsTyped DEF AgentRejected, TypeOK, EndKinds
      <3> QED BY <2>6, <3>1 DEF TypeOK, AgentRejected, RunnerEnds, Touch
    <2>7. CASE RunnerCancelled(s)
      BY <2>7 DEF TypeOK, RunnerCancelled, RunnerEnds, Touch
    <2>8. CASE TtlElapses(s)
      BY <2>8 DEF TypeOK, TtlElapses
    <2>9. ASSUME NEW c \in Calls, RelayCall(c, s) PROVE TypeOK'
      <3>1. outcomes' \in [Sessions -> Seq(Turns)]
        BY <2>9, QueuesTyped, TurnsTyped DEF RelayCall, TypeOK
      <3>2. dispatchCount' \in [Sessions -> Nat]
        BY <2>9 DEF TypeOK, RelayCall
      <3>3. /\ pending' \in [Sessions -> SUBSET Calls]
            /\ idle' \subseteq sessions'
        BY <2>9 DEF TypeOK, RelayCall, Touch
      <3>4. /\ callSession' \in [Calls -> Sessions \cup {None}]
            /\ callOwner' \in [Calls -> Sessions \cup {None}]
        BY <2>9 DEF TypeOK, RelayCall
      <3>5. relay' \in [Calls -> {"unused", "waiting", "expired", "returned", "failed",
                                 "timedout"}]
        BY <2>9 DEF TypeOK, RelayCall
      <3> QED BY <2>9, <3>1, <3>2, <3>3, <3>4, <3>5 DEF TypeOK, RelayCall
    <2> QED BY <1>1, <2>1, <2>2, <2>3, <2>4, <2>5, <2>6, <2>7, <2>8, <2>9
         DEF SessionStep
  <1>2. ASSUME NEW c \in Calls, CallStep(c) PROVE TypeOK'
    <2>1. CASE TimerFires(c)
      BY <2>1 DEF TypeOK, TimerFires
    <2>2. CASE RelayResumes(c)
      BY <2>2 DEF TypeOK, RelayResumes, RelayAnswer, Forget, Touch, None
    <2>3. CASE RelayAborted(c)
      BY <2>3 DEF TypeOK, RelayAborted, Forget, Touch, None
    <2> QED BY <1>2, <2>1, <2>2, <2>3 DEF CallStep
  <1>3. ASSUME NEW h \in Requests, RequestStep(h) PROVE TypeOK'
    <2>1. CASE Start(h)
      <3>1. RetireTypes' /\ LoopTypes'
        BY <2>1, CloseInTurnTyped DEF Start, TypeOK
      <3> QED BY <2>1, <3>1 DEF TypeOK, RetireTypes, LoopTypes, Start
    <2>2. CASE CloseContinues(h)
      <3>1. RetireTypes' /\ LoopTypes'
        BY <2>2, CloseInTurnTyped DEF CloseContinues, Closing, TypeOK
      <3> QED BY <2>2, <3>1 DEF TypeOK, RetireTypes, LoopTypes, CloseContinues
    <2>3. CASE ClientGone(h)
      <3>1. CASE pc[h] = "opened"
        BY <2>3, <3>1, ZenonT(60) DEF TypeOK, ClientGone, Leave
      <3>2. CASE CloseInTurn(h, {at[h]}, "abandoning")
        <4>1. at[h] \in Sessions
          BY <2>3 DEF TypeOK, ClientGone, Reading
        <4>2. RetireTypes' /\ LoopTypes'
          BY <3>2, <4>1, CloseInTurnTyped
        <4> QED BY <2>3, <4>2 DEF TypeOK, RetireTypes, LoopTypes, ClientGone
      <3> QED BY <2>3, <3>1, <3>2 DEF ClientGone
    <2>4. CASE Shutdown(h)
      <3>1. RetireTypes' /\ LoopTypes'
        BY <2>4, CloseInTurnTyped DEF Shutdown, TypeOK
      <3> QED BY <2>4, <3>1 DEF TypeOK, RetireTypes, LoopTypes, Shutdown
    <2>5. CASE StreamReads(h)
      BY <2>5 DEF TypeOK, StreamReads
    <2>6. CASE TakeEnd(h)
      <3>1. at[h] \in Sessions
        BY <2>6 DEF TypeOK, TakeEnd
      <3>2. outcomes' \in [Sessions -> Seq(Turns)]
        BY <2>6, <3>1, QueuesTyped DEF TypeOK, TakeEnd
      <3>3. reports' \in [Sessions -> Nat]
        BY <2>6, <3>1 DEF TypeOK, TakeEnd
      <3> QED BY <2>6, <3>2, <3>3 DEF TypeOK, TakeEnd, Leave, None
    <2>7. CASE TakeCall(h)
      <3>1. at[h] \in Sessions
        BY <2>7 DEF TypeOK, TakeCall
      <3>2. /\ outcomes' \in [Sessions -> Seq(Turns)]
            /\ Head(outcomes[at[h]]).call \in Calls
        BY <2>7, <3>1, QueuesTyped, TurnsTyped DEF TypeOK, TakeCall
      <3>3. batch' \in [Requests -> SUBSET Calls]
        BY <2>7, <3>2 DEF TypeOK, TakeCall
      <3> QED BY <2>7, <3>1, <3>2, <3>3 DEF TypeOK, TakeCall
    <2>8. CASE PutBackEnd(h)
      <3>1. at[h] \in Sessions
        BY <2>8 DEF TypeOK, PutBackEnd
      <3>2. outcomes' \in [Sessions -> Seq(Turns)]
        BY <2>8, <3>1, QueuesTyped DEF TypeOK, PutBackEnd
      <3> QED BY <2>8, <3>2 DEF TypeOK, PutBackEnd, Answer, Leave, None
    <2>9. CASE WindowCloses(h)
      BY <2>9 DEF TypeOK, WindowCloses, Answer, Leave, None
    <2>10. ASSUME NEW outs \in Outputs, ContinueChat(h, outs) PROVE TypeOK'
      <3> PICK s \in Candidates(outs) \cap sessions :
              \E live : Submit(h, s, live, {}) \/ SubmitFailsPartway(s, live)
        BY <2>10 DEF ContinueChat
      <3> PICK live : Submit(h, s, live, {}) \/ SubmitFailsPartway(s, live)
        OBVIOUS
      <3>1. s \in Sessions
        BY DEF TypeOK
      <3>2. CASE Submit(h, s, live, {})
        <4>1. {} \in SUBSET {nextResponse}
          OBVIOUS
        <4> QED BY <3>1, <3>2, <4>1, SubmitTyped
      <3>3. CASE SubmitFailsPartway(s, live)
        BY <3>1, <3>3, PartwayTyped
      <3> QED BY <3>2, <3>3
    <2>11. ASSUME NEW outs \in Outputs, NEW r \in 0 .. nextResponse - 1,
                  ContinueResponse(h, r, outs)
           PROVE  TypeOK'
      <3>1. ContinuedSession(r, outs) \cap sessions \subseteq Sessions
        BY DEF TypeOK
      <3> QED BY <2>11, <3>1, SubmitTyped, PartwayTyped DEF ContinueResponse
    <2> QED BY <1>3, <2>1, <2>2, <2>3, <2>4, <2>5, <2>6, <2>7, <2>8, <2>9, <2>10, <2>11
         DEF RequestStep
  <1>4. CASE UNCHANGED vars
    BY <1>4 DEF TypeOK, vars
  <1> QED BY <1>1, <1>2, <1>3, <1>4 DEF Next

\* TypeOK holds throughout.
THEOREM TypeCorrect == Spec => []TypeOK
  <1>1. Init => TypeOK
    BY InitTypeOK
  <1>2. TypeOK /\ [Next]_vars => TypeOK'
    BY NextTypeOK
  <1> QED BY <1>1, <1>2, PTL DEF Spec

-----------------------------------------------------------------------------
(* The indexes.                                                            *)

\* What makes IndexesAgree inductive: identifiers are drawn fresh, a response
\* belongs to one session for good, and only an accepted call has an owner.
IdsFresh ==
  /\ \A s \in sessions : s < nextSession
  /\ \A s \in Sessions : \A r \in responseIds[s] : r < nextResponse
  /\ \A s, t \in Sessions : \A r \in responseIds[s] : r \in responseIds[t] => s = t
  /\ \A c \in Calls : relay[c] = "unused" => callOwner[c] = None

IndexInv == IndexesAgree /\ IdsFresh /\ UnresolvedCallIsPending

indexInvVars == <<sessions, callSession, responseSession, responseIds, pending,
                  callOwner, relay, result, nextSession, nextResponse>>

LEMMA InitIndexInv == Init => IndexInv
BY DEF Init, IndexInv, IndexesAgree, IdsFresh, UnresolvedCallIsPending, Sessions,
       Responses, Calls, None

LEMMA IndexInvFrame == IndexInv /\ UNCHANGED indexInvVars => IndexInv'
BY DEF indexInvVars, IndexInv, IndexesAgree, IdsFresh, UnresolvedCallIsPending

\* Closing the sessions D, and inserting at most one with a fresh identifier.
LEMMA RetireIndexInv ==
  ASSUME TypeOK, IndexInv, NEW D \in SUBSET Sessions, NEW N, NEW R,
         \/ N = {} /\ R = {} /\ UNCHANGED <<nextSession, nextResponse>>
         \/ /\ nextSession \in Sessions /\ nextResponse \in Responses
            /\ N = {nextSession} /\ R \in {{}, {nextResponse}}
            /\ nextSession' = nextSession + 1
            /\ nextResponse' = nextResponse + Cardinality(R),
         Retire(D, N, R), UNCHANGED <<relay, callOwner>>
  PROVE  IndexInv'
  <1> USE DEF IndexInv
  <1>1. N \subseteq Sessions /\ R \subseteq Responses
    OBVIOUS
  <1>2. /\ nextSession' \in Nat /\ nextSession <= nextSession'
        /\ nextResponse' \in Nat /\ nextResponse <= nextResponse'
        /\ \A s \in N : s < nextSession'
        /\ \A r \in R : r < nextResponse'
    <2>1. Cardinality({nextResponse}) = 1 /\ Cardinality({}) = 0
      BY FS_Singleton, FS_EmptySet
    <2>2. nextSession \in Nat /\ nextResponse \in Nat
      BY DEF TypeOK
    <2>3. CASE N = {} /\ R = {} /\ UNCHANGED <<nextSession, nextResponse>>
      BY <2>2, <2>3
    <2>4. CASE /\ N = {nextSession} /\ R \in {{}, {nextResponse}}
               /\ nextSession' = nextSession + 1
               /\ nextResponse' = nextResponse + Cardinality(R)
      <3>1. CASE R = {}
        BY <2>1, <2>2, <2>4, <3>1
      <3>2. CASE R = {nextResponse}
        BY <2>1, <2>2, <2>4, <3>2
      <3> QED BY <2>4, <3>1, <3>2
    <2> QED BY <2>3, <2>4
  <1>3. \A s \in N : s \notin sessions
    BY DEF IdsFresh, TypeOK, Sessions
  <1>4. \A s \in Sessions : \A r \in R : r \notin responseIds[s]
    BY DEF IdsFresh, TypeOK, Responses
  <1>5. ASSUME NEW s \in Sessions, NEW c \in Calls
        PROVE  /\ callSession'[c] = s <=> c \in pending'[s]
               /\ c \in pending'[s] => s \in sessions' /\ callOwner'[c] = s
    BY DEF Retire, IndexesAgree, PendingIn, TypeOK, None, Sessions
  <1>6. ASSUME NEW s \in Sessions, NEW r \in Responses
        PROVE  responseSession'[r] = s <=> s \in sessions' /\ r \in responseIds'[s]
    <2>1. CASE s \in N
      BY <1>3, <1>4, <2>1 DEF Retire, IndexesAgree, TypeOK, None, Sessions
    <2>2. CASE s \notin N
      BY <1>3, <1>4, <2>2 DEF Retire, IndexesAgree, IdsFresh, TypeOK, None, Sessions
    <2> QED BY <2>1, <2>2
  <1>7. IndexesAgree'
    BY <1>5, <1>6 DEF IndexesAgree
  <1>8. IdsFresh'
    <2>1. \A s \in sessions' : s < nextSession'
      BY <1>2 DEF Retire, IdsFresh, TypeOK, Sessions
    <2>2. \A s \in Sessions : \A r \in responseIds'[s] : r < nextResponse'
      BY <1>2 DEF Retire, IdsFresh, TypeOK, Responses
    <2>3. \A s, t \in Sessions :
            \A r \in responseIds'[s] : r \in responseIds'[t] => s = t
      BY <1>4 DEF Retire, IdsFresh, TypeOK
    <2>4. \A c \in Calls : relay'[c] = "unused" => callOwner'[c] = None
      BY DEF IdsFresh
    <2> QED BY <2>1, <2>2, <2>3, <2>4 DEF IdsFresh
  <1>9. UnresolvedCallIsPending'
    BY DEF Retire, Resolve, PendingIn, UnresolvedCallIsPending, TypeOK, None, Sessions
  <1> QED BY <1>7, <1>8, <1>9

LEMMA CloseInTurnIndexInv ==
  ASSUME TypeOK, IndexInv, NEW h \in Requests, NEW T \in SUBSET Sessions, NEW loop,
         CloseInTurn(h, T, loop), UNCHANGED <<relay, callOwner>>
  PROVE  IndexInv'
  <1>1. ASSUME NEW D \in SUBSET T, Retire(D, {}, {}),
               UNCHANGED <<nextSession, nextResponse>>
        PROVE  IndexInv'
    BY <1>1, RetireIndexInv
  <1>2. CASE Insert(h, T)
    <2> PICK route \in Routes :
          /\ nextSession \in Sessions /\ nextResponse \in Responses
          /\ Retire(T, {nextSession}, NewResponse(route))
          /\ nextSession' = nextSession + 1
          /\ nextResponse' = nextResponse + Cardinality(NewResponse(route))
      BY <1>2 DEF Insert
    <2>1. NewResponse(route) \in {{}, {nextResponse}}
      BY DEF NewResponse
    <2> QED BY <2>1, RetireIndexInv
  <1>3. \A s \in T : {t \in T : t <= s} \in SUBSET T
    OBVIOUS
  <1> QED BY <1>1, <1>2, <1>3 DEF CloseInTurn

\* Outputs R of a request whose session s was found by the indexes.
LEMMA SubmitIndexInv ==
  ASSUME TypeOK, IndexInv, NEW h \in Requests, NEW s \in Sessions \cap sessions,
         NEW outs, NEW R \in SUBSET {nextResponse},
         R # {} => nextResponse \in Responses, Submit(h, s, outs, R)
  PROVE  IndexInv'
  <1> USE DEF IndexInv
  <1>1. /\ \A t \in Sessions : \A r \in R : r \notin responseIds[t]
        /\ \A r \in R : r \in Responses
    BY DEF IdsFresh, TypeOK, Responses
  <1>2. nextResponse \in Nat /\ nextResponse' = nextResponse + Cardinality(R)
    BY DEF TypeOK, Submit
  <1>3. /\ nextResponse' \in Nat /\ nextResponse <= nextResponse'
        /\ \A r \in R : r < nextResponse'
    <2>1. Cardinality({nextResponse}) = 1 /\ Cardinality({}) = 0
      BY FS_Singleton, FS_EmptySet
    <2>2. CASE R = {}
      BY <1>2, <2>1, <2>2
    <2>3. CASE R = {nextResponse}
      BY <1>2, <2>1, <2>3
    <2> QED BY <2>2, <2>3
  <1>4. \A t \in Sessions : responseIds'[t] = IF t = s THEN responseIds[t] \cup R
                                                      ELSE responseIds[t]
    BY DEF Submit, TypeOK
  <1>5. ASSUME NEW t \in Sessions, NEW r \in Responses
        PROVE  responseSession'[r] = t <=> t \in sessions' /\ r \in responseIds'[t]
    <2>1. sessions' = sessions /\ responseSession'[r] = IF r \in R THEN s
                                                                  ELSE responseSession[r]
      BY DEF Submit
    <2>2. responseSession[r] = t <=> t \in sessions /\ r \in responseIds[t]
      BY DEF IndexesAgree
    <2>3. CASE r \in R
      BY <1>1, <1>4, <2>1, <2>3
    <2>4. CASE r \notin R
      BY <1>4, <2>1, <2>2, <2>4
    <2> QED BY <2>3, <2>4
  <1>6. IndexesAgree'
    BY <1>5 DEF Submit, IndexesAgree
  <1>7. IdsFresh'
    <2>1. \A t \in Sessions : \A r \in responseIds'[t] : r < nextResponse'
      <3>1. ASSUME NEW t \in Sessions, NEW r \in responseIds[t]
            PROVE  r < nextResponse'
        <4>1. r < nextResponse /\ r \in Nat
          BY <3>1 DEF IdsFresh, TypeOK, Responses
        <4> QED BY <1>2, <1>3, <4>1
      <3> QED BY <1>3, <1>4, <3>1
    <2>2. \A t, u \in Sessions :
            \A r \in responseIds'[t] : r \in responseIds'[u] => t = u
      BY <1>1, <1>4 DEF IdsFresh
    <2> QED BY <2>1, <2>2 DEF Submit, IdsFresh
  <1>8. UnresolvedCallIsPending'
    BY DEF Submit, Resolve, UnresolvedCallIsPending, TypeOK
  <1> QED BY <1>6, <1>7, <1>8

\* Resolving futures disturbs no index.
LEMMA ResolveIndexInv ==
  ASSUME TypeOK, IndexInv, NEW C, NEW value \in {"output", "error"}, Resolve(C, value),
         UNCHANGED <<sessions, callSession, responseSession, responseIds, pending,
                     callOwner, relay, nextSession, nextResponse>>
  PROVE  IndexInv'
BY DEF IndexInv, IndexesAgree, IdsFresh, UnresolvedCallIsPending, Resolve, TypeOK

\* relay_call ends: its entry leaves both indexes.
LEMMA ForgetIndexInv ==
  ASSUME TypeOK, IndexInv, NEW c \in Calls, Forget(c),
         \E answer \in {"returned", "failed", "timedout"} :
           relay' = [relay EXCEPT ![c] = answer],
         relay[c] # "unused",
         UNCHANGED <<sessions, responseSession, responseIds, callOwner, result,
                     nextSession, nextResponse>>
  PROVE  IndexInv'
  <1> USE DEF IndexInv
  <1>1. ASSUME NEW s \in Sessions, NEW d \in Calls
        PROVE  /\ callSession'[d] = s <=> d \in pending'[s]
               /\ d \in pending'[s] => s \in sessions' /\ callOwner'[d] = s
    BY DEF Forget, IndexesAgree, TypeOK, None, Sessions
  <1>2. IndexesAgree'
    BY <1>1 DEF IndexesAgree
  <1>3. IdsFresh'
    BY DEF IdsFresh, TypeOK
  <1>4. UnresolvedCallIsPending'
    BY DEF UnresolvedCallIsPending, Forget, TypeOK
  <1> QED BY <1>2, <1>3, <1>4

LEMMA NextIndexInv == TypeOK /\ IndexInv /\ [Next]_vars => IndexInv'
  <1> SUFFICES ASSUME TypeOK, IndexInv, [Next]_vars PROVE IndexInv'
    OBVIOUS
  <1> USE DEF indexVars, agentVars, callVars, requestVars, idVars, clientVars
  <1>1. ASSUME NEW s \in Sessions, SessionStep(s) PROVE IndexInv'
    <2>1. CASE \/ AgentBoots(s) \/ AgentEvent(s) \/ AgentCompletes(s)
               \/ AgentRetries(s) \/ AgentRejected(s) \/ RunnerCancelled(s)
               \/ TtlElapses(s)
      BY <2>1, IndexInvFrame
         DEF indexInvVars, AgentBoots, AgentEvent, AgentCompletes, AgentRetries,
             AgentRejected, RunnerCancelled, TtlElapses
    <2>2. CASE AgentFails(s)
      BY <2>2, ResolveIndexInv DEF AgentFails
    <2>3. ASSUME NEW c \in Calls, RelayCall(c, s) PROVE IndexInv'
      <3>1. relay[c] = "unused" /\ callOwner[c] = None /\ s \in sessions
        BY <2>3 DEF RelayCall, Fresh, Relayable, IndexInv, IdsFresh
      <3>2. IndexesAgree'
        BY <2>3, <3>1 DEF RelayCall, IndexInv, IndexesAgree, TypeOK, None, Sessions
      <3>3. IdsFresh'
        BY <2>3 DEF RelayCall, IndexInv, IdsFresh, TypeOK
      <3>4. UnresolvedCallIsPending'
        BY <2>3, <3>1 DEF RelayCall, IndexInv, UnresolvedCallIsPending, TypeOK
      <3> QED BY <3>2, <3>3, <3>4 DEF IndexInv
    <2> QED BY <1>1, <2>1, <2>2, <2>3 DEF SessionStep
  <1>2. ASSUME NEW c \in Calls, CallStep(c) PROVE IndexInv'
    <2>1. CASE TimerFires(c)
      <3>1. IndexesAgree'
        BY <2>1 DEF TimerFires, IndexInv, IndexesAgree
      <3>2. IdsFresh'
        BY <2>1 DEF TimerFires, TimerDue, IndexInv, IdsFresh, TypeOK
      <3>3. UnresolvedCallIsPending'
        BY <2>1 DEF TimerFires, IndexInv, UnresolvedCallIsPending, TypeOK
      <3> QED BY <3>1, <3>2, <3>3 DEF IndexInv
    <2>2. CASE RelayResumes(c)
      <3>1. RelayAnswer(c) \in {"returned", "failed", "timedout"}
        BY DEF RelayAnswer
      <3>2. relay[c] # "unused"
        BY <2>2 DEF RelayResumes
      <3> QED BY <2>2, <3>1, <3>2, ForgetIndexInv DEF RelayResumes
    <2>3. CASE RelayAborted(c)
      <3>1. relay[c] # "unused"
        BY <2>3 DEF RelayAborted
      <3> QED BY <2>3, <3>1, ForgetIndexInv DEF RelayAborted
    <2> QED BY <1>2, <2>1, <2>2, <2>3 DEF CallStep
  <1>3. ASSUME NEW h \in Requests, RequestStep(h) PROVE IndexInv'
    <2>1. CASE Start(h)
      BY <2>1, CloseInTurnIndexInv DEF Start, TypeOK
    <2>2. CASE CloseContinues(h)
      BY <2>2, CloseInTurnIndexInv DEF CloseContinues, TypeOK
    <2>3. CASE ClientGone(h)
      <3>1. CASE UNCHANGED <<indexVars, runner, pending, result, idle, todo,
                             nextSession, nextResponse>>
        BY <2>3, <3>1, IndexInvFrame DEF ClientGone, indexInvVars
      <3>2. CASE CloseInTurn(h, {at[h]}, "abandoning")
        <4>1. {at[h]} \in SUBSET Sessions
          BY <2>3 DEF ClientGone, Reading, TypeOK
        <4> QED BY <2>3, <3>2, <4>1, CloseInTurnIndexInv DEF ClientGone
      <3> QED BY <2>3, <3>1, <3>2 DEF ClientGone
    <2>4. CASE Shutdown(h)
      BY <2>4, CloseInTurnIndexInv DEF Shutdown, TypeOK
    <2>5. CASE \/ StreamReads(h) \/ TakeEnd(h) \/ TakeCall(h) \/ PutBackEnd(h)
               \/ WindowCloses(h)
      BY <2>5, IndexInvFrame
         DEF indexInvVars, StreamReads, TakeEnd, TakeCall, PutBackEnd, WindowCloses
    <2>6. ASSUME NEW s \in Sessions, NEW outs, SubmitFailsPartway(s, outs)
          PROVE  IndexInv'
      BY <2>6, ResolveIndexInv DEF SubmitFailsPartway
    <2>7. ASSUME NEW outs \in Outputs, ContinueChat(h, outs) PROVE IndexInv'
      <3> PICK s \in Candidates(outs) \cap sessions :
              \E live : Submit(h, s, live, {}) \/ SubmitFailsPartway(s, live)
        BY <2>7 DEF ContinueChat
      <3> PICK live : Submit(h, s, live, {}) \/ SubmitFailsPartway(s, live)
        OBVIOUS
      <3>1. s \in Sessions \cap sessions /\ {} \in SUBSET {nextResponse}
        BY DEF TypeOK
      <3>2. CASE Submit(h, s, live, {})
        BY <3>1, <3>2, SubmitIndexInv
      <3>3. CASE SubmitFailsPartway(s, live)
        BY <2>6, <3>1, <3>3
      <3> QED BY <3>2, <3>3
    <2>8. ASSUME NEW outs \in Outputs, NEW r \in 0 .. nextResponse - 1,
                 ContinueResponse(h, r, outs)
          PROVE  IndexInv'
      <3> PICK s \in ContinuedSession(r, outs) \cap sessions :
             \/ nextResponse \in Responses /\ Submit(h, s, outs, {nextResponse})
             \/ SubmitFailsPartway(s, outs)
        BY <2>8 DEF ContinueResponse
      <3>1. s \in Sessions \cap sessions
        BY DEF TypeOK
      <3> QED BY <2>6, <3>1, SubmitIndexInv
    <2> QED BY <1>3, <2>1, <2>2, <2>3, <2>4, <2>5, <2>7, <2>8 DEF RequestStep
  <1>4. CASE UNCHANGED vars
    BY <1>4, IndexInvFrame DEF vars, indexInvVars
  <1> QED BY <1>1, <1>2, <1>3, <1>4 DEF Next

\* The indexes of calls and responses agree with the sessions in every state.
THEOREM IndexesAlwaysAgree == Spec => []IndexesAgree
  <1>1. Init => TypeOK /\ IndexInv
    BY InitTypeOK, InitIndexInv
  <1>2. TypeOK /\ IndexInv /\ [Next]_vars => (TypeOK /\ IndexInv)'
    BY NextTypeOK, NextIndexInv
  <1>3. IndexInv => IndexesAgree
    BY DEF IndexInv
  <1> QED BY <1>1, <1>2, <1>3, PTL DEF Spec

\* A relay request whose future is unresolved can always still be answered.
THEOREM UnresolvedCallsStayPending == Spec => []UnresolvedCallIsPending
  <1>1. Init => TypeOK /\ IndexInv
    BY InitTypeOK, InitIndexInv
  <1>2. TypeOK /\ IndexInv /\ [Next]_vars => (TypeOK /\ IndexInv)'
    BY NextTypeOK, NextIndexInv
  <1>3. IndexInv => UnresolvedCallIsPending
    BY DEF IndexInv
  <1> QED BY <1>1, <1>2, <1>3, PTL DEF Spec

-----------------------------------------------------------------------------
(* Runners.  NoRunnerLeaks is inductive: a closing loop cancels at most one *)
(* runner in a step, the one it then waits for.                            *)

LEMMA InitNoRunnerLeaks == Init => NoRunnerLeaks
BY DEF Init, NoRunnerLeaks

\* A step of request h that ends no wait of h and leaves the runners alone.
LEMMA NoRunnerLeaksFrame ==
  ASSUME NoRunnerLeaks, UNCHANGED <<sessions, runner>>, NEW h \in Requests, ~Closing(h),
         \A g \in Requests \ {h} : pc'[g] = pc[g] /\ at'[g] = at[g]
  PROVE  NoRunnerLeaks'
BY DEF NoRunnerLeaks, Closing

\* A round of a closing loop, run by a request that waits for no runner.
LEMMA CloseInTurnNoRunnerLeaks ==
  ASSUME TypeOK, NoRunnerLeaks, NEW h \in Requests, NEW T \in SUBSET Sessions,
         NEW loop \in {"expiring", "abandoning", "stopping"},
         Closing(h) => Closed(at[h]), CloseInTurn(h, T, loop)
  PROVE  NoRunnerLeaks'
  <1> DEFINE live == {s \in T : ~Closed(s)}
  <1>1. ASSUME NEW s \in Sessions, runner[s] = "cancelling",
               \A g \in Requests \ {h} : pc'[g] = pc[g] /\ at'[g] = at[g]
        PROVE  \E g \in Requests : (Closing(g) /\ at[g] = s)'
    <2>1. PICK g \in Requests : Closing(g) /\ at[g] = s
      BY <1>1 DEF NoRunnerLeaks
    <2>2. g # h
      BY <1>1, <2>1 DEF Closed
    <2> QED BY <1>1, <2>1, <2>2 DEF Closing
  <1>2. ASSUME NEW s \in live, \A t \in live : s <= t,
               Retire({t \in T : t <= s}, {}, {}),
               pc' = [pc EXCEPT ![h] = loop], at' = [at EXCEPT ![h] = s]
        PROVE  NoRunnerLeaks'
    <2>1. \A t \in T : t <= s /\ ~Closed(t) => t = s
      BY <1>2 DEF Sessions
    <2>2. Closing(h)' /\ at'[h] = s
      BY <1>2 DEF Closing, TypeOK
    <2>3. \A g \in Requests \ {h} : pc'[g] = pc[g] /\ at'[g] = at[g]
      BY <1>2 DEF TypeOK
    <2>4. ASSUME NEW t \in Sessions, runner'[t] \in {"booting", "running"}
          PROVE  t \in sessions'
      BY <1>2, <2>4 DEF Retire, NoRunnerLeaks, Closed
    <2>5. ASSUME NEW t \in Sessions, runner'[t] = "cancelling"
          PROVE  \E g \in Requests : (Closing(g) /\ at[g] = t)'
      <3>1. t = s \/ runner[t] = "cancelling"
        BY <1>2, <2>1, <2>5 DEF Retire
      <3> QED BY <1>1, <2>2, <2>3, <3>1
    <2> QED BY <2>4, <2>5 DEF NoRunnerLeaks
  <1>3. ASSUME live = {}, NEW N \in SUBSET Sessions, NEW R, Retire(T, N, R),
               \A g \in Requests \ {h} : pc'[g] = pc[g] /\ at'[g] = at[g]
        PROVE  NoRunnerLeaks'
    <2>1. ASSUME NEW t \in Sessions, runner'[t] \in {"booting", "running"}
          PROVE  t \in sessions'
      BY <1>3, <2>1 DEF Retire, NoRunnerLeaks, Closed
    <2>2. ASSUME NEW t \in Sessions, runner'[t] = "cancelling"
          PROVE  \E g \in Requests : (Closing(g) /\ at[g] = t)'
      <3>1. runner[t] = "cancelling"
        BY <1>3, <2>2 DEF Retire
      <3> QED BY <1>1, <1>3, <3>1
    <2> QED BY <2>1, <2>2 DEF NoRunnerLeaks
  <1>4. CASE live = {} /\ Insert(h, T)
    <2> PICK route \in Routes :
          /\ nextSession \in Sessions
          /\ Retire(T, {nextSession}, NewResponse(route))
          /\ BeginReading(h, nextSession)
      BY <1>4 DEF Insert
    <2>1. \A g \in Requests \ {h} : pc'[g] = pc[g] /\ at'[g] = at[g]
      BY DEF BeginReading, TypeOK
    <2> QED BY <1>3, <1>4, <2>1
  <1>5. CASE live = {} /\ Retire(T, {}, {}) /\ Leave(h)
    <2>1. \A g \in Requests \ {h} : pc'[g] = pc[g] /\ at'[g] = at[g]
      BY <1>5 DEF Leave, TypeOK
    <2> QED BY <1>3, <1>5, <2>1
  <1> QED BY <1>2, <1>4, <1>5 DEF CloseInTurn

LEMMA NextNoRunnerLeaks == TypeOK /\ NoRunnerLeaks /\ [Next]_vars => NoRunnerLeaks'
  <1> SUFFICES ASSUME TypeOK, NoRunnerLeaks, [Next]_vars PROVE NoRunnerLeaks'
    OBVIOUS
  <1> USE DEF indexVars, agentVars, callVars, requestVars, idVars, clientVars
  <1>1. ASSUME NEW s \in Sessions, SessionStep(s) PROVE NoRunnerLeaks'
    <2>1. UNCHANGED <<sessions, pc, at>>
      BY <1>1 DEF SessionStep, AgentBoots, AgentEvent, AgentFails, AgentCompletes,
                  AgentRetries, AgentRejected, RunnerCancelled, TtlElapses, RelayCall
    <2>2. \A t \in Sessions \ {s} : runner'[t] = runner[t]
      BY <1>1 DEF SessionStep, AgentBoots, AgentEvent, AgentFails, AgentCompletes,
                  AgentRetries, AgentRejected, RunnerCancelled, TtlElapses, RelayCall,
                  RunnerEnds, TypeOK
    <2>3. \/ runner'[s] = runner[s]
          \/ runner'[s] = "done"
          \/ runner[s] \in {"booting", "running"} /\ runner'[s] \in {"booting", "running"}
      BY <1>1 DEF SessionStep, AgentBoots, AgentEvent, AgentFails, AgentCompletes,
                  AgentRetries, AgentRejected, RunnerCancelled, TtlElapses, RelayCall,
                  RunnerEnds, TypeOK
    <2> QED BY <2>1, <2>2, <2>3 DEF NoRunnerLeaks, Closing
  <1>2. ASSUME NEW c \in Calls, CallStep(c) PROVE NoRunnerLeaks'
    <2>1. UNCHANGED <<sessions, runner, pc, at>>
      BY <1>2 DEF CallStep, TimerFires, RelayResumes, RelayAborted
    <2> QED BY <2>1 DEF NoRunnerLeaks, Closing
  <1>3. ASSUME NEW h \in Requests, RequestStep(h) PROVE NoRunnerLeaks'
    <2>1. CASE Start(h)
      <3>1. idle \in SUBSET Sessions /\ ~Closing(h)
        BY <2>1 DEF TypeOK, Start, Closing
      <3> QED BY <2>1, <3>1, CloseInTurnNoRunnerLeaks DEF Start
    <2>2. CASE CloseContinues(h)
      <3>1. todo[h] \in SUBSET Sessions
        BY DEF TypeOK
      <3> QED BY <2>2, <3>1, CloseInTurnNoRunnerLeaks DEF CloseContinues, Closing
    <2>3. CASE ClientGone(h)
      <3>1. ~Closing(h) /\ {at[h]} \in SUBSET Sessions
        BY <2>3 DEF ClientGone, Reading, Closing, TypeOK
      <3>2. CASE Leave(h) /\ UNCHANGED <<indexVars, runner>>
        BY <3>1, <3>2, NoRunnerLeaksFrame DEF Leave, TypeOK
      <3>3. CASE CloseInTurn(h, {at[h]}, "abandoning")
        BY <3>1, <3>3, CloseInTurnNoRunnerLeaks
      <3> QED BY <2>3, <3>2, <3>3 DEF ClientGone
    <2>4. CASE Shutdown(h)
      <3>1. sessions \in SUBSET Sessions /\ ~Closing(h)
        BY <2>4 DEF TypeOK, Shutdown, Closing
      <3> QED BY <2>4, <3>1, CloseInTurnNoRunnerLeaks DEF Shutdown
    <2>5. CASE \/ StreamReads(h) \/ TakeEnd(h) \/ TakeCall(h) \/ PutBackEnd(h)
               \/ WindowCloses(h)
      <3>1. UNCHANGED <<sessions, runner>> /\ ~Closing(h)
        BY <2>5 DEF StreamReads, TakeEnd, TakeCall, PutBackEnd, WindowCloses, Closing
      <3>2. \A g \in Requests \ {h} : pc'[g] = pc[g] /\ at'[g] = at[g]
        BY <2>5 DEF StreamReads, TakeEnd, TakeCall, PutBackEnd, WindowCloses, Answer,
                    Leave, TypeOK
      <3> QED BY <3>1, <3>2, NoRunnerLeaksFrame
    <2>6. ASSUME pc[h] = "idle", NEW s, NEW outs, NEW R,
                 Submit(h, s, outs, R) \/ SubmitFailsPartway(s, outs)
          PROVE  NoRunnerLeaks'
      <3>1. UNCHANGED <<sessions, runner>> /\ ~Closing(h)
        BY <2>6 DEF Submit, SubmitFailsPartway, Closing
      <3>2. \A g \in Requests \ {h} : pc'[g] = pc[g] /\ at'[g] = at[g]
        BY <2>6 DEF Submit, SubmitFailsPartway, BeginReading, TypeOK
      <3> QED BY <3>1, <3>2, NoRunnerLeaksFrame
    <2>7. ASSUME NEW outs \in Outputs, ContinueChat(h, outs) PROVE NoRunnerLeaks'
      <3> PICK s, live : Submit(h, s, live, {}) \/ SubmitFailsPartway(s, live)
        BY <2>7 DEF ContinueChat
      <3> QED BY <2>6, <2>7 DEF ContinueChat
    <2>8. ASSUME NEW outs \in Outputs, NEW r \in 0 .. nextResponse - 1,
                 ContinueResponse(h, r, outs)
          PROVE  NoRunnerLeaks'
      BY <2>6, <2>8 DEF ContinueResponse
    <2> QED BY <1>3, <2>1, <2>2, <2>3, <2>4, <2>5, <2>7, <2>8 DEF RequestStep
  <1>4. CASE UNCHANGED vars
    BY <1>4 DEF vars, NoRunnerLeaks, Closing
  <1> QED BY <1>1, <1>2, <1>3, <1>4 DEF Next

\* No Agent task outlives its session unless some close_session awaits it.
THEOREM RunnersNeverLeak == Spec => []NoRunnerLeaks
  <1>1. Init => TypeOK /\ NoRunnerLeaks
    BY InitTypeOK, InitNoRunnerLeaks
  <1>2. TypeOK /\ NoRunnerLeaks /\ [Next]_vars => (TypeOK /\ NoRunnerLeaks)'
    BY NextTypeOK, NextNoRunnerLeaks
  <1> QED BY <1>1, <1>2, PTL DEF Spec

-----------------------------------------------------------------------------
(* Queues and ends: the operations of a queue, element by element.         *)

LEMMA PutElements ==
  ASSUME TypeOK, NEW s \in Sessions, NEW turn \in Turns, Put(s, turn)
  PROVE  /\ \A t \in Sessions \ {s} : outcomes'[t] = outcomes[t]
         /\ Len(outcomes'[s]) = Len(outcomes[s]) + 1
         /\ Len(outcomes[s]) \in Nat
         /\ DOMAIN outcomes'[s] = DOMAIN outcomes[s] \cup {Len(outcomes[s]) + 1}
         /\ \A i \in DOMAIN outcomes[s] : outcomes'[s][i] = outcomes[s][i]
         /\ outcomes'[s][Len(outcomes[s]) + 1] = turn
  <1>1. outcomes[s] \in Seq(Turns)
    BY DEF TypeOK
  <1>2. outcomes'[s] = Append(outcomes[s], turn)
    BY DEF Put, TypeOK
  <1>3. \A t \in Sessions \ {s} : outcomes'[t] = outcomes[t]
    BY DEF Put, TypeOK
  <1> QED BY <1>1, <1>2, <1>3

LEMMA TakeElements ==
  ASSUME TypeOK, NEW s \in Sessions, outcomes[s] # <<>>, Take(s)
  PROVE  /\ \A t \in Sessions \ {s} : outcomes'[t] = outcomes[t]
         /\ Len(outcomes[s]) \in Nat \ {0}
         /\ Len(outcomes'[s]) = Len(outcomes[s]) - 1
         /\ Head(outcomes[s]) = outcomes[s][1]
         /\ \A i \in DOMAIN outcomes'[s] : i + 1 \in DOMAIN outcomes[s]
         /\ \A i \in DOMAIN outcomes'[s] : outcomes'[s][i] = outcomes[s][i + 1]
         /\ DOMAIN outcomes'[s] = 1 .. Len(outcomes'[s])
         /\ DOMAIN outcomes[s] = 1 .. Len(outcomes[s])
  <1>1. outcomes[s] \in Seq(Turns)
    BY DEF TypeOK
  <1>2. outcomes'[s] = Tail(outcomes[s])
    BY DEF Take, TypeOK
  <1>3. \A t \in Sessions \ {s} : outcomes'[t] = outcomes[t]
    BY DEF Take, TypeOK
  <1> QED BY <1>1, <1>2, <1>3

\* Taking one of several elements leaves the last.
LEMMA TailLast ==
  ASSUME NEW S, NEW q \in Seq(S), Len(q) > 1
  PROVE  Tail(q) # <<>> /\ Tail(q)[Len(Tail(q))] = q[Len(q)]
  <1>1. Len(q) \in Nat
    OBVIOUS
  <1>2. Tail(q) \in Seq(S) /\ Len(Tail(q)) = Len(q) - 1
    OBVIOUS
  <1>3. \A i \in 1 .. Len(q) - 1 : Tail(q)[i] = q[i + 1]
    OBVIOUS
  <1>4. Len(q) - 1 \in 1 .. Len(q) - 1 /\ Len(Tail(q)) # 0
    BY <1>1, <1>2
  <1> QED BY <1>1, <1>2, <1>3, <1>4

\* An end that is put back stays where it is.
LEMMA PutBackEndElements ==
  ASSUME TypeOK, EndIsLast, NEW s \in Sessions, outcomes[s] # <<>>,
         IsEnd(Head(outcomes[s])), PutBack(s)
  PROVE  UNCHANGED outcomes
  <1>1. outcomes[s] \in Seq(Turns)
    BY DEF TypeOK
  <1>2. Head(outcomes[s]) = outcomes[s][1] /\ 1 \in DOMAIN outcomes[s]
    BY <1>1
  <1>3. Len(outcomes[s]) = 1
    BY <1>2 DEF EndIsLast
  <1>4. Append(Tail(outcomes[s]), Head(outcomes[s])) = outcomes[s]
    BY <1>1, <1>3
  <1> QED BY <1>4 DEF PutBack, TypeOK

LEMMA EndsAndCalls ==
  /\ \A k \in EndKinds : EndTurn(k) \in Turns /\ IsEnd(EndTurn(k)) /\ EndTurn(k).kind = k
  /\ \A c \in Calls : CallTurn(c) \in Turns /\ ~IsEnd(CallTurn(c)) /\ CallTurn(c).call = c
                        /\ CallTurn(c).kind = "function_call"
BY DEF Turns, CallTurn, EndTurn, IsEnd, EndKinds

\* A round of a closing loop over T: some sessions of T are closed, and at most one
\* is inserted, the next one.
ClosesSome(T) ==
  \E D \in SUBSET T, N \in SUBSET {nextSession} :
    /\ \E R : Retire(D, N, R)
    /\ N # {} => nextSession \in Sessions /\ nextSession' = nextSession + 1
    /\ N = {} => UNCHANGED nextSession

\* The request that runs it goes on to wait for one of T, or to read the new one.
GoesOn(h, T) ==
  /\ \A g \in Requests \ {h} : pc'[g] = pc[g] /\ at'[g] = at[g] /\ todo'[g] = todo[g]
  /\ \/ pc'[h] = "idle"
     \/ pc'[h] \in {"expiring", "abandoning", "stopping"} /\ at'[h] \in T
     \/ /\ pc'[h] \in {"opened", "first"}
        /\ at'[h] = nextSession /\ nextSession \in Sessions /\ nextSession' = nextSession + 1
  /\ todo'[h] \subseteq T

LEMMA CloseInTurnCloses ==
  ASSUME TypeOK, NEW h \in Requests, NEW T \in SUBSET Sessions,
         NEW loop \in {"expiring", "abandoning", "stopping"}, CloseInTurn(h, T, loop)
  PROVE  ClosesSome(T) /\ GoesOn(h, T)
  <1> DEFINE live == {s \in T : ~Closed(s)}
  <1>1. CASE Insert(h, T)
    <2>1. ClosesSome(T)
      BY <1>1 DEF Insert, ClosesSome
    <2>2. GoesOn(h, T)
      BY <1>1 DEF Insert, GoesOn, BeginReading, TypeOK
    <2> QED BY <2>1, <2>2
  <1>2. ASSUME NEW s \in T, Retire({t \in T : t <= s}, {}, {}),
               pc' = [pc EXCEPT ![h] = loop], at' = [at EXCEPT ![h] = s],
               todo' = [todo EXCEPT ![h] = {t \in T : t > s}], UNCHANGED nextSession
        PROVE  ClosesSome(T) /\ GoesOn(h, T)
    <2>1. {t \in T : t <= s} \in SUBSET T
      OBVIOUS
    <2>2. ClosesSome(T)
      BY <1>2, <2>1 DEF ClosesSome
    <2>3. GoesOn(h, T)
      BY <1>2 DEF GoesOn, TypeOK
    <2> QED BY <2>2, <2>3
  <1>3. CASE Retire(T, {}, {}) /\ Leave(h) /\ todo' = [todo EXCEPT ![h] = {}]
               /\ UNCHANGED nextSession
    <2>1. ClosesSome(T)
      BY <1>3 DEF ClosesSome
    <2>2. GoesOn(h, T)
      BY <1>3 DEF GoesOn, Leave, TypeOK
    <2> QED BY <2>1, <2>2
  <1> QED BY <1>1, <1>2, <1>3 DEF CloseInTurn

-----------------------------------------------------------------------------
(* The life of a session.                                                  *)

Started == {s \in Sessions : s < nextSession}

\* Nothing happens to a session before it is inserted, no request is at one or is
\* to close one, and a registered session is not being cancelled: it leaves
\* _sessions in the step that cancels it.
Lifetimes ==
  /\ \A s \in Sessions \ Started : /\ runner[s] = "none" /\ outcomes[s] = <<>>
                                   /\ pending[s] = {} /\ reports[s] = 0
  /\ \A s \in sessions : runner[s] \in {"booting", "running", "done"}
  /\ \A h \in Requests : pc[h] # "idle" => at[h] \in Started
  /\ \A h \in Requests : todo[h] \subseteq Started

LEMMA InitLifetimes == Init => Lifetimes
BY DEF Init, Lifetimes

LEMMA RegisteredStarted == TypeOK /\ IndexInv => sessions \subseteq Started
BY DEF IndexInv, IdsFresh, Started, TypeOK

\* What a step of a session's runner, or a relayed call, leaves alone.
LEMMA SessionStepFrame ==
  ASSUME TypeOK, IndexInv, Lifetimes, NEW s \in Sessions, SessionStep(s)
  PROVE  /\ s \in Started
         /\ UNCHANGED <<sessions, nextSession, reports, requestVars, announced>>
         /\ \A t \in Sessions \ {s} :
              /\ runner'[t] = runner[t] /\ outcomes'[t] = outcomes[t]
              /\ pending'[t] = pending[t] /\ dispatchCount'[t] = dispatchCount[t]
              /\ dispatchBefore'[t] = dispatchBefore[t]
         /\ runner'[s] = runner[s] \/ runner'[s] \in {"booting", "running", "done"}
         /\ Closed(s) => Closed(s)' /\ outcomes'[s] = outcomes[s] /\ pending'[s] = pending[s]
                           /\ dispatchCount'[s] = dispatchCount[s]
         /\ \A c \in Calls : result[c] # "unset" => result'[c] = result[c]
  <1> USE DEF indexVars, agentVars, callVars, requestVars, idVars, clientVars
  <1>1. runner[s] # "none" \/ s \in sessions
    BY DEF SessionStep, AgentBoots, AgentEvent, AgentFails, AgentCompletes, AgentRetries,
           AgentRejected, RunnerCancelled, TtlElapses, RelayCall, Relayable
  <1>2. s \in Started
    BY <1>1, RegisteredStarted DEF Lifetimes
  <1>3. CASE AgentBoots(s) \/ AgentEvent(s) \/ AgentRetries(s) \/ RunnerCancelled(s)
              \/ TtlElapses(s)
    BY <1>2, <1>3 DEF AgentBoots, AgentEvent, AgentRetries, RunnerCancelled, RunnerEnds,
                      TtlElapses, TypeOK, Closed
  <1>4. CASE AgentFails(s)
    BY <1>2, <1>4 DEF AgentFails, RunnerEnds, Put, Resolve, TypeOK, Closed
  <1>5. CASE AgentCompletes(s) \/ AgentRejected(s)
    BY <1>2, <1>5 DEF AgentCompletes, AgentRejected, RunnerEnds, Put, TypeOK, Closed
  <1>6. ASSUME NEW c \in Calls, RelayCall(c, s)
        PROVE  /\ UNCHANGED <<sessions, nextSession, reports, requestVars, announced>>
               /\ UNCHANGED <<runner, result, dispatchBefore>>
               /\ \A t \in Sessions \ {s} :
                    /\ outcomes'[t] = outcomes[t] /\ pending'[t] = pending[t]
                    /\ dispatchCount'[t] = dispatchCount[t]
               /\ ~Closed(s)
    BY <1>6 DEF RelayCall, Relayable, Put, TypeOK
  <1> QED BY <1>2, <1>3, <1>4, <1>5, <1>6 DEF SessionStep, Closed

\* What the end of a relay call leaves alone.
LEMMA CallStepFrame ==
  ASSUME TypeOK, NEW c \in Calls, CallStep(c)
  PROVE  /\ UNCHANGED <<sessions, nextSession, agentVars, outcomes, requestVars, result,
                        callOwner, clientVars>>
         /\ \A s \in Sessions : pending'[s] \subseteq pending[s]
  <1>1. UNCHANGED <<sessions, nextSession, agentVars, outcomes, requestVars, result,
                    callOwner, clientVars>>
    BY DEF CallStep, TimerFires, RelayResumes, RelayAborted, indexVars, idVars
  <1>2. ASSUME NEW s \in Sessions PROVE pending'[s] \subseteq pending[s]
    <2>1. CASE UNCHANGED pending
      BY <2>1
    <2>2. CASE Forget(c)
      BY <2>2 DEF Forget, TypeOK
    <2> QED BY <2>1, <2>2 DEF CallStep, TimerFires, RelayResumes, RelayAborted
  <1> QED BY <1>1, <1>2

\* The requests that close sessions, one of which may insert a new one.
ClosingStep(h) == Start(h) \/ CloseContinues(h) \/ Shutdown(h)
                    \/ (ClientGone(h) /\ pc[h] # "opened")

LEMMA ClosingStepCloses ==
  ASSUME TypeOK, IndexInv, Lifetimes, NEW h \in Requests, ClosingStep(h)
  PROVE  /\ ClosesSome(Started)
         /\ GoesOn(h, Started)
         /\ UNCHANGED <<attempt, native, dispatchCount, dispatchBefore, outcomes, relay,
                        callOwner, clientVars>>
  <1>1. PICK T \in SUBSET Started, loop \in {"expiring", "abandoning", "stopping"} :
          CloseInTurn(h, T, loop)
    <2>1. sessions \in SUBSET Started /\ idle \in SUBSET Started
      BY RegisteredStarted DEF TypeOK
    <2>2. todo[h] \in SUBSET Started
      BY DEF Lifetimes
    <2>3. pc[h] # "idle" => {at[h]} \in SUBSET Started
      BY DEF Lifetimes
    <2> QED BY <2>1, <2>2, <2>3
         DEF ClosingStep, Start, CloseContinues, Closing, Shutdown, ClientGone, Reading
  <1>2. UNCHANGED <<attempt, native, dispatchCount, dispatchBefore, outcomes, relay,
                    callOwner, clientVars>>
    BY DEF ClosingStep, Start, CloseContinues, Shutdown, ClientGone, clientVars
  <1>3. T \in SUBSET Sessions
    BY DEF Started
  <1>4. ClosesSome(T) /\ GoesOn(h, T)
    BY <1>1, <1>3, CloseInTurnCloses
  <1>5. ClosesSome(Started)
    BY <1>4 DEF ClosesSome
  <1>6. GoesOn(h, Started)
    BY <1>4 DEF GoesOn
  <1> QED BY <1>2, <1>5, <1>6

\* A client that leaves before its stream was read, and a stream that begins to
\* be read.
ReaderMoves(h) == StreamReads(h) \/ (ClientGone(h) /\ pc[h] = "opened")

LEMMA ReaderMovesFrame ==
  ASSUME NEW h, ReaderMoves(h)
  PROVE  UNCHANGED <<sessions, nextSession, agentVars, outcomes, callVars, clientVars>>
BY DEF ReaderMoves, StreamReads, ClientGone, indexVars, agentVars, callVars, idVars, clientVars

\* Outputs that are applied, all of them or the first ones.
SubmitStep(h) ==
  /\ pc[h] = "idle"
  /\ \E s \in sessions, outs \in Outputs :
       (\E R : Submit(h, s, outs, R)) \/ SubmitFailsPartway(s, outs)

LEMMA SubmitStepFrame ==
  ASSUME TypeOK, NEW h, SubmitStep(h)
  PROVE  /\ UNCHANGED <<sessions, nextSession, agentVars, outcomes, pending, callOwner, relay,
                        batch, clientVars>>
         /\ \A c \in Calls : result[c] # "unset" => result'[c] = result[c]
  <1> PICK s \in sessions, outs \in Outputs :
        (\E R : Submit(h, s, outs, R)) \/ SubmitFailsPartway(s, outs)
    BY DEF SubmitStep
  <1> QED BY DEF Submit, SubmitFailsPartway, Resolve, TypeOK,
                 indexVars, agentVars, requestVars, idVars, clientVars

\* The requests' steps by what they do to sessions and turns.
LEMMA RequestStepKinds ==
  ASSUME NEW h \in Requests, RequestStep(h)
  PROVE  \/ ClosingStep(h) \/ ReaderMoves(h) \/ SubmitStep(h)
         \/ TakeEnd(h) \/ TakeCall(h) \/ PutBackEnd(h) \/ WindowCloses(h)
  <1>1. ASSUME NEW outs, ContinueChat(h, outs) PROVE SubmitStep(h)
    BY <1>1 DEF ContinueChat, SubmitStep
  <1>2. ASSUME NEW outs \in Outputs, NEW r, ContinueResponse(h, r, outs) PROVE SubmitStep(h)
    BY <1>2 DEF ContinueResponse, SubmitStep
  <1> QED BY <1>1, <1>2 DEF RequestStep, ClosingStep, ReaderMoves

\* What closing sessions and inserting one does to sessions and calls.
LEMMA ClosesSomeEffect ==
  ASSUME TypeOK, IndexInv, Lifetimes, ClosesSome(Started)
  PROVE  /\ nextSession' \in Nat /\ nextSession <= nextSession'
         /\ \A s \in Sessions : Closed(s) => runner'[s] = "done"
         /\ \A s \in Sessions : s >= nextSession' => runner'[s] = runner[s]
         /\ \A s \in sessions' :
              \/ s \in sessions /\ runner'[s] = runner[s]
              \/ s = nextSession /\ s < nextSession' /\ runner'[s] = "booting"
         /\ \A s \in Sessions : pending'[s] \subseteq pending[s]
         /\ \A c \in Calls : result[c] # "unset" => result'[c] = result[c]
  <1> PICK D \in SUBSET Started, N \in SUBSET {nextSession} :
        /\ \E R : Retire(D, N, R)
        /\ N # {} => nextSession \in Sessions /\ nextSession' = nextSession + 1
        /\ N = {} => UNCHANGED nextSession
    BY DEF ClosesSome
  <1> PICK R : Retire(D, N, R)
    OBVIOUS
  <1>1. nextSession \in Nat /\ nextSession' \in Nat /\ nextSession <= nextSession'
    BY DEF TypeOK
  <1>2. \A s \in N : s = nextSession /\ s < nextSession' /\ s \in Sessions /\ ~Closed(s)
    BY <1>1 DEF Lifetimes, Closed, Started
  <1>3. \A s \in Sessions : runner'[s] = IF s \in N THEN "booting"
                              ELSE IF s \in D /\ ~Closed(s) THEN "cancelling" ELSE runner[s]
    BY DEF Retire
  <1>4. \A s \in Sessions : Closed(s) => runner'[s] = "done"
    BY <1>2, <1>3 DEF Closed
  <1>5. \A s \in Sessions : s >= nextSession' => s \notin N /\ s \notin D
    BY <1>1, <1>2 DEF Started, Sessions
  <1>6. ASSUME NEW s \in sessions'
        PROVE  \/ s \in sessions /\ runner'[s] = runner[s]
               \/ s = nextSession /\ s < nextSession' /\ runner'[s] = "booting"
    <2>1. s \in N \/ (s \in sessions /\ s \notin D)
      BY DEF Retire
    <2>2. s \in Sessions
      BY <1>2, <2>1 DEF TypeOK
    <2> QED BY <1>2, <1>3, <2>1, <2>2
  <1>7. \A s \in Sessions : pending'[s] \subseteq pending[s]
    BY DEF Retire
  <1>8. \A c \in Calls : result[c] # "unset" => result'[c] = result[c]
    BY DEF Retire, Resolve
  <1> QED BY <1>1, <1>3, <1>4, <1>5, <1>6, <1>7, <1>8

LEMMA NextLifetimes == TypeOK /\ IndexInv /\ Lifetimes /\ [Next]_vars => Lifetimes'
  <1> SUFFICES ASSUME TypeOK, IndexInv, Lifetimes, [Next]_vars PROVE Lifetimes'
    OBVIOUS
  <1> USE DEF Lifetimes
  <1>1. ASSUME NEW s \in Sessions, SessionStep(s) PROVE Lifetimes'
    <2>1. /\ s \in Started
          /\ UNCHANGED <<sessions, nextSession, reports, requestVars>>
          /\ \A t \in Sessions \ {s} : /\ runner'[t] = runner[t] /\ outcomes'[t] = outcomes[t]
                                       /\ pending'[t] = pending[t]
          /\ runner'[s] = runner[s] \/ runner'[s] \in {"booting", "running", "done"}
      BY <1>1, SessionStepFrame
    <2>2. UNCHANGED Started
      BY <2>1 DEF Started
    <2> QED BY <2>1, <2>2, ZenonT(60) DEF requestVars, TypeOK
  <1>2. ASSUME NEW c \in Calls, CallStep(c) PROVE Lifetimes'
    <2>1. /\ UNCHANGED <<sessions, nextSession, runner, outcomes, pc, at, todo, reports>>
          /\ \A s \in Sessions : pending'[s] \subseteq pending[s]
      BY <1>2, CallStepFrame DEF agentVars, requestVars, clientVars
    <2> QED BY <2>1 DEF Started
  <1>3. ASSUME NEW h \in Requests, ClosingStep(h) PROVE Lifetimes'
    <2>1. /\ ClosesSome(Started) /\ GoesOn(h, Started)
          /\ UNCHANGED <<outcomes, reports>>
      BY <1>3, ClosingStepCloses DEF clientVars
    <2>2. /\ nextSession \in Nat /\ nextSession' \in Nat /\ nextSession <= nextSession'
          /\ \A s \in Sessions : s >= nextSession' => runner'[s] = runner[s]
          /\ \A s \in sessions' :
               (s \in sessions /\ runner'[s] = runner[s]) \/ runner'[s] = "booting"
          /\ \A s \in Sessions : pending'[s] \subseteq pending[s]
      BY <2>1, ClosesSomeEffect DEF TypeOK
    <2>3. Started \subseteq Started'
      BY <2>2 DEF Started, Sessions
    <2>4. ASSUME NEW s \in Sessions, s \notin Started'
          PROVE  /\ runner'[s] = "none" /\ outcomes'[s] = <<>>
                 /\ pending'[s] = {} /\ reports'[s] = 0
      <3>1. s >= nextSession' /\ s \notin Started
        BY <2>2, <2>3, <2>4 DEF Started, Sessions
      <3> QED BY <2>1, <2>2, <3>1
    <2>5. \A s \in sessions' : runner'[s] \in {"booting", "running", "done"}
      BY <2>2
    <2>6. \A g \in Requests : (pc'[g] # "idle" => at'[g] \in Started') /\ todo'[g] \subseteq Started'
      BY <2>1, <2>2, <2>3 DEF GoesOn, Started
    <2> QED BY <2>4, <2>5, <2>6
  <1>4. ASSUME NEW h \in Requests, ReaderMoves(h) PROVE Lifetimes'
    <2>1. UNCHANGED <<sessions, nextSession, runner, outcomes, pending, reports>>
      BY <1>4, ReaderMovesFrame DEF agentVars, callVars, clientVars
    <2>2. \A g \in Requests : /\ pc'[g] # "idle" => pc[g] # "idle" /\ at'[g] = at[g]
                              /\ todo'[g] = todo[g]
      BY <1>4 DEF ReaderMoves, StreamReads, ClientGone, Leave, TypeOK
    <2> QED BY <2>1, <2>2 DEF Started
  <1>5. ASSUME NEW h \in Requests, SubmitStep(h) PROVE Lifetimes'
    <2>1. UNCHANGED <<sessions, nextSession, runner, outcomes, pending, reports>>
      BY <1>5, SubmitStepFrame DEF agentVars, clientVars
    <2>2. \A g \in Requests : /\ pc'[g] # "idle" => \/ pc[g] # "idle" /\ at'[g] = at[g]
                                                    \/ at'[g] \in sessions
                              /\ todo'[g] = todo[g]
      BY <1>5 DEF SubmitStep, Submit, SubmitFailsPartway, BeginReading, requestVars, TypeOK
    <2> QED BY <2>1, <2>2, RegisteredStarted DEF Started
  <1>6. ASSUME NEW h \in Requests, TakeEnd(h) \/ TakeCall(h) PROVE Lifetimes'
    <2>1. UNCHANGED <<sessions, nextSession, runner, pending, todo>>
      BY <1>6 DEF TakeEnd, TakeCall, indexVars, agentVars, callVars, idVars
    <2>2. \A g \in Requests : pc'[g] # "idle" => pc[g] # "idle" /\ at'[g] = at[g]
      BY <1>6 DEF TakeEnd, TakeCall, Leave, TypeOK
    <2>3. \A s \in Sessions : outcomes[s] = <<>> => outcomes'[s] = <<>> /\ reports'[s] = reports[s]
      BY <1>6 DEF TakeEnd, TakeCall, Take, clientVars, TypeOK
    <2> QED BY <2>1, <2>2, <2>3 DEF Started
  <1>7. ASSUME NEW h \in Requests, PutBackEnd(h) \/ WindowCloses(h) PROVE Lifetimes'
    <2>1. UNCHANGED <<sessions, nextSession, runner, pending, todo, reports>>
      BY <1>7 DEF PutBackEnd, WindowCloses, indexVars, agentVars, callVars, idVars
    <2>2. \A g \in Requests : pc'[g] # "idle" => pc[g] # "idle" /\ at'[g] = at[g]
      BY <1>7 DEF PutBackEnd, WindowCloses, Answer, Leave, TypeOK
    <2>3. \A s \in Sessions : outcomes[s] = <<>> => outcomes'[s] = <<>>
      BY <1>7 DEF PutBackEnd, WindowCloses, PutBack, TypeOK
    <2> QED BY <2>1, <2>2, <2>3 DEF Started
  <1>8. CASE UNCHANGED vars
    BY <1>8 DEF vars, indexVars, agentVars, callVars, requestVars, idVars, clientVars, Started
  <1> QED BY <1>1, <1>2, <1>3, <1>4, <1>5, <1>6, <1>7, <1>8, RequestStepKinds DEF Next

-----------------------------------------------------------------------------
(* The ends of runners.                                                    *)

\* The runner of s queues a turn: it is live, and an end is its last act.
Queues(s, turn) == ~Closed(s) /\ Put(s, turn) /\ (IsEnd(turn) => Closed(s)')

\* What a queued turn says of its session in the step that queues it.
Reason(s, turn) ==
  /\ turn.kind = "agent_error" => Resolve(pending[s], "error") /\ UNCHANGED pending
  /\ turn.kind = "native_error" => /\ ~(dispatchCount[s] > dispatchBefore[s])
                                   /\ UNCHANGED <<dispatchCount, pending>>

LEMMA SessionStepQueues ==
  ASSUME TypeOK, NEW s \in Sessions, SessionStep(s)
  PROVE  UNCHANGED outcomes \/ \E turn \in Turns : Queues(s, turn) /\ Reason(s, turn)
  <1> USE EndsAndCalls DEF Queues, Reason, Closed, RunnerEnds, callVars
  <1>1. ASSUME AgentFails(s)
        PROVE  Queues(s, EndTurn("agent_error")) /\ Reason(s, EndTurn("agent_error"))
    BY <1>1 DEF AgentFails, EndKinds, TypeOK
  <1>2. ASSUME AgentCompletes(s)
        PROVE  Queues(s, EndTurn("message")) /\ Reason(s, EndTurn("message"))
    BY <1>2 DEF AgentCompletes, EndKinds, TypeOK
  <1>3. ASSUME AgentRejected(s)
        PROVE  Queues(s, EndTurn("native_error")) /\ Reason(s, EndTurn("native_error"))
    BY <1>3 DEF AgentRejected, NativeRoute, EndKinds, TypeOK
  <1>4. ASSUME NEW c \in Calls, RelayCall(c, s)
        PROVE  Queues(s, CallTurn(c)) /\ Reason(s, CallTurn(c))
    BY <1>4 DEF RelayCall, Relayable
  <1>5. AgentBoots(s) \/ AgentEvent(s) \/ AgentRetries(s) \/ RunnerCancelled(s) \/ TtlElapses(s)
          => UNCHANGED outcomes
    BY DEF AgentBoots, AgentEvent, AgentRetries, RunnerCancelled, TtlElapses
  <1> QED BY <1>1, <1>2, <1>3, <1>4, <1>5 DEF SessionStep, EndKinds

\* Every step of the bridge by what it does to the queues.
TakesTurn(h) == TakeEnd(h) \/ TakeCall(h)

LEMMA StepQueues ==
  ASSUME TypeOK, IndexInv, Lifetimes, EndIsLast, [Next]_vars
  PROVE  \/ UNCHANGED outcomes
         \/ \E s \in Sessions, turn \in Turns :
              SessionStep(s) /\ Queues(s, turn) /\ Reason(s, turn)
         \/ \E h \in Requests : TakesTurn(h)
  <1>1. ASSUME NEW h \in Requests, RequestStep(h), ~TakesTurn(h) PROVE UNCHANGED outcomes
    <2>1. CASE ClosingStep(h) \/ ReaderMoves(h) \/ SubmitStep(h)
      BY <2>1, ClosingStepCloses, ReaderMovesFrame, SubmitStepFrame
    <2>2. CASE WindowCloses(h)
      BY <2>2 DEF WindowCloses
    <2>3. CASE PutBackEnd(h)
      <3>1. at[h] \in Sessions
        BY <2>3 DEF PutBackEnd, TypeOK
      <3> QED BY <2>3, <3>1, PutBackEndElements DEF PutBackEnd
    <2> QED BY <1>1, <2>1, <2>2, <2>3, RequestStepKinds DEF TakesTurn
  <1>2. ASSUME NEW c \in Calls, CallStep(c) PROVE UNCHANGED outcomes
    BY <1>2, CallStepFrame
  <1>3. CASE UNCHANGED vars
    BY <1>3 DEF vars
  <1> QED BY <1>1, <1>2, <1>3, SessionStepQueues DEF Next

LEMMA TakesTurnEffect ==
  ASSUME TypeOK, NEW h \in Requests, TakesTurn(h)
  PROVE  /\ at[h] \in Sessions /\ outcomes[at[h]] # <<>> /\ Take(at[h])
         /\ UNCHANGED <<sessions, nextSession, agentVars, callVars>>
BY DEF TakesTurn, TakeEnd, TakeCall, TypeOK, indexVars, idVars

\* Nothing happens to a session once its runner has ended, but that its calls end
\* and its turns are taken; and a future is resolved once.
LEMMA NothingAfterTheRunner ==
  ASSUME TypeOK, IndexInv, Lifetimes, EndIsLast, [Next]_vars
  PROVE  /\ \A s \in Sessions : Closed(s) => /\ Closed(s)'
                                             /\ dispatchCount'[s] = dispatchCount[s]
                                             /\ pending'[s] \subseteq pending[s]
         /\ \A c \in Calls : result[c] # "unset" => result'[c] = result[c]
  <1> USE DEF agentVars, callVars
  <1>1. ASSUME NEW s \in Sessions, SessionStep(s)
        PROVE  /\ \A t \in Sessions : Closed(t) => /\ Closed(t)'
                                                   /\ dispatchCount'[t] = dispatchCount[t]
                                                   /\ pending'[t] \subseteq pending[t]
               /\ \A c \in Calls : result[c] # "unset" => result'[c] = result[c]
    BY <1>1, SessionStepFrame DEF Closed
  <1>2. ASSUME NEW c \in Calls, CallStep(c)
        PROVE  /\ UNCHANGED <<runner, dispatchCount, result>>
               /\ \A s \in Sessions : pending'[s] \subseteq pending[s]
    BY <1>2, CallStepFrame
  <1>3. ASSUME NEW h \in Requests, RequestStep(h)
        PROVE  /\ UNCHANGED dispatchCount
               /\ \A s \in Sessions : /\ Closed(s) => runner'[s] = "done"
                                      /\ pending'[s] \subseteq pending[s]
               /\ \A c \in Calls : result[c] # "unset" => result'[c] = result[c]
    <2>1. CASE ClosingStep(h)
      BY <2>1, ClosingStepCloses, ClosesSomeEffect
    <2>2. CASE ReaderMoves(h) \/ SubmitStep(h)
      BY <2>2, ReaderMovesFrame, SubmitStepFrame DEF Closed
    <2>3. CASE TakeEnd(h) \/ TakeCall(h) \/ PutBackEnd(h) \/ WindowCloses(h)
      BY <2>3 DEF TakeEnd, TakeCall, PutBackEnd, WindowCloses, Closed
    <2> QED BY <1>3, <2>1, <2>2, <2>3, RequestStepKinds
  <1>4. CASE UNCHANGED vars
    BY <1>4 DEF vars, Closed
  <1> QED BY <1>1, <1>2, <1>3, <1>4 DEF Next, Closed

LEMMA NextEndIsLast ==
  TypeOK /\ IndexInv /\ Lifetimes /\ EndIsLast /\ [Next]_vars => EndIsLast'
  <1> SUFFICES ASSUME TypeOK, IndexInv, Lifetimes, EndIsLast, [Next]_vars,
                      NEW t \in Sessions, NEW i \in DOMAIN outcomes'[t], IsEnd(outcomes'[t][i])
               PROVE  i = Len(outcomes'[t]) /\ Closed(t)'
    BY DEF EndIsLast, Closed
  <1>1. Closed(t) => Closed(t)'
    BY NothingAfterTheRunner
  <1>2. CASE UNCHANGED outcomes
    BY <1>1, <1>2 DEF EndIsLast
  <1>3. ASSUME NEW s \in Sessions, NEW turn \in Turns, Queues(s, turn)
        PROVE  i = Len(outcomes'[t]) /\ Closed(t)'
    <2>1. CASE t # s
      BY <1>1, <1>3, <2>1, PutElements DEF EndIsLast, Queues
    <2>2. CASE t = s
      <3>1. i \notin DOMAIN outcomes[s]
        BY <1>3, <2>2, PutElements DEF EndIsLast, Queues
      <3> QED BY <1>3, <2>2, <3>1, PutElements DEF Queues
    <2> QED BY <2>1, <2>2
  <1>4. ASSUME NEW h \in Requests, TakesTurn(h)
        PROVE  i = Len(outcomes'[t]) /\ Closed(t)'
    <2>1. at[h] \in Sessions /\ outcomes[at[h]] # <<>> /\ Take(at[h])
      BY <1>4, TakesTurnEffect
    <2>2. CASE t # at[h]
      BY <1>1, <2>1, <2>2, TakeElements DEF EndIsLast
    <2>3. CASE t = at[h]
      <3>1. /\ i + 1 \in DOMAIN outcomes[t] /\ outcomes'[t][i] = outcomes[t][i + 1]
            /\ Len(outcomes'[t]) = Len(outcomes[t]) - 1 /\ Len(outcomes[t]) \in Nat
            /\ i \in Nat
        BY <2>1, <2>3, TakeElements
      <3>2. i + 1 = Len(outcomes[t]) /\ Closed(t)
        BY <3>1 DEF EndIsLast
      <3> QED BY <1>1, <3>1, <3>2
    <2> QED BY <2>2, <2>3
  <1> QED BY <1>2, <1>3, <1>4, StepQueues

\* The queue that next_turn reads holds no turn behind one that ends the session, and no
\* such turn while the runner still runs.
THEOREM EndsAreLast == Spec => []EndIsLast
  <1>1. Init => TypeOK /\ IndexInv /\ Lifetimes /\ EndIsLast
    BY InitTypeOK, InitIndexInv, InitLifetimes DEF Init, EndIsLast
  <1>2. TypeOK /\ IndexInv /\ Lifetimes /\ EndIsLast /\ [Next]_vars
          => (TypeOK /\ IndexInv /\ Lifetimes /\ EndIsLast)'
    BY NextTypeOK, NextIndexInv, NextLifetimes, NextEndIsLast
  <1> QED BY <1>1, <1>2, PTL DEF Spec

-----------------------------------------------------------------------------
(* One end, one report.                                                    *)

EndQueued(s) == outcomes[s] # <<>> /\ IsEnd(outcomes[s][Len(outcomes[s])])

\* A registered session reports its token's health when its end is taken.
EndAccounted ==
  \A s \in sessions : reports[s] = IF Closed(s) /\ ~EndQueued(s) THEN 1 ELSE 0

LEMMA InitEndAccounted == Init => EndAccounted
BY DEF Init, EndAccounted

LEMMA NextEndAccounted ==
  TypeOK /\ IndexInv /\ Lifetimes /\ EndIsLast /\ EndAccounted /\ [Next]_vars => EndAccounted'
  <1> SUFFICES ASSUME TypeOK, IndexInv, Lifetimes, EndIsLast, EndAccounted, [Next]_vars
               PROVE  EndAccounted'
    OBVIOUS
  <1>0. sessions \subseteq Sessions
    BY DEF TypeOK
  <1>1. ASSUME NEW s \in Sessions, SessionStep(s) PROVE EndAccounted'
    <2>1. /\ UNCHANGED <<sessions, reports>>
          /\ \A t \in Sessions \ {s} : runner'[t] = runner[t] /\ outcomes'[t] = outcomes[t]
      BY <1>1, SessionStepFrame
    <2>2. \A t \in sessions \ {s} : reports'[t] = IF Closed(t)' /\ ~EndQueued(t)' THEN 1 ELSE 0
      BY <1>0, <2>1 DEF EndAccounted, Closed, EndQueued
    <2>3. ASSUME s \in sessions
          PROVE  reports'[s] = IF Closed(s)' /\ ~EndQueued(s)' THEN 1 ELSE 0
      <3>1. CASE UNCHANGED outcomes
        <4>1. UNCHANGED runner \/ runner'[s] = "running" \/ runner'[s] = "booting"
          <5>1. AgentBoots(s) \/ AgentEvent(s) \/ AgentRetries(s) \/ TtlElapses(s)
                  \/ \E turn \in Turns : Put(s, turn)
            BY <1>1, <2>3, EndsAndCalls
               DEF SessionStep, RunnerCancelled, Lifetimes, AgentFails, AgentCompletes,
                   AgentRejected, RelayCall, EndKinds
          <5>2. ~\E turn \in Turns : Put(s, turn)
            BY <3>1, PutElements
          <5> QED BY <5>1, <5>2 DEF AgentBoots, AgentEvent, AgentRetries, TtlElapses, agentVars,
                                    TypeOK
        <4>2. Closed(s) => Closed(s)'
          BY <1>1, SessionStepFrame
        <4> QED BY <2>1, <2>3, <3>1, <4>1, <4>2 DEF EndAccounted, Closed, EndQueued
      <3>2. ASSUME NEW turn \in Turns, Queues(s, turn)
            PROVE  reports'[s] = IF Closed(s)' /\ ~EndQueued(s)' THEN 1 ELSE 0
        <4>1. reports[s] = 0
          BY <2>3, <3>2 DEF EndAccounted, Queues
        <4>2. Closed(s)' => EndQueued(s)'
          <5>1. outcomes'[s][Len(outcomes'[s])] = turn /\ outcomes'[s] # <<>>
            BY <3>2, PutElements DEF Queues
          <5>2. Closed(s)' => IsEnd(turn)
            <6>1. ASSUME NEW c \in Calls, RelayCall(c, s) PROVE ~Closed(s)'
              BY <6>1 DEF RelayCall, Relayable, Closed
            <6>2. AgentFails(s) \/ AgentCompletes(s) \/ AgentRejected(s) => IsEnd(turn)
              <7>1. ASSUME NEW k \in EndKinds, Put(s, EndTurn(k)) PROVE turn = EndTurn(k)
                BY <3>2, <7>1, PutElements, EndsAndCalls DEF Queues
              <7> QED BY <7>1, EndsAndCalls
                   DEF AgentFails, AgentCompletes, AgentRejected, EndKinds
            <6>3. CASE AgentBoots(s) \/ AgentEvent(s) \/ AgentRetries(s) \/ TtlElapses(s)
                         \/ RunnerCancelled(s)
              <7>1. UNCHANGED outcomes
                BY <6>3 DEF AgentBoots, AgentEvent, AgentRetries, TtlElapses, RunnerCancelled
              <7> QED BY <3>2, <7>1, PutElements DEF Queues
            <6> QED BY <1>1, <6>1, <6>2, <6>3 DEF SessionStep
          <5> QED BY <5>1, <5>2 DEF EndQueued
        <4> QED BY <2>1, <4>1, <4>2
      <3> QED BY <1>1, <3>1, <3>2, SessionStepQueues
    <2> QED BY <2>1, <2>2, <2>3 DEF EndAccounted
  <1>2. ASSUME NEW c \in Calls, CallStep(c) PROVE EndAccounted'
    BY <1>2, CallStepFrame DEF EndAccounted, Closed, EndQueued, agentVars, clientVars
  <1>3. ASSUME NEW h \in Requests, ClosingStep(h) PROVE EndAccounted'
    <2>1. /\ ClosesSome(Started) /\ UNCHANGED <<outcomes, reports>>
      BY <1>3, ClosingStepCloses DEF clientVars
    <2>2. \A s \in sessions' : \/ s \in sessions /\ runner'[s] = runner[s]
                               \/ s = nextSession /\ runner'[s] = "booting"
      BY <2>1, ClosesSomeEffect
    <2>3. nextSession \in sessions' => reports[nextSession] = 0
      <3>1. nextSession \notin Started
        BY DEF Started, TypeOK
      <3>2. sessions' \subseteq Sessions
        BY NextTypeOK DEF TypeOK
      <3> QED BY <3>1, <3>2 DEF Lifetimes
    <2> QED BY <2>1, <2>2, <2>3 DEF EndAccounted, Closed, EndQueued
  <1>4. ASSUME NEW h \in Requests, ReaderMoves(h) \/ SubmitStep(h) PROVE EndAccounted'
    BY <1>4, ReaderMovesFrame, SubmitStepFrame
       DEF EndAccounted, Closed, EndQueued, agentVars, clientVars
  <1>5. ASSUME NEW h \in Requests, TakesTurn(h) PROVE EndAccounted'
    <2> PICK s \in Sessions : s = at[h]
      BY <1>5, TakesTurnEffect
    <2> DEFINE q == outcomes[s]
    <2>1. q \in Seq(Turns) /\ q # <<>> /\ Take(s) /\ UNCHANGED <<sessions, runner>>
      BY <1>5, TakesTurnEffect DEF agentVars, TypeOK
    <2>2. outcomes'[s] = Tail(q) /\ Head(q) = q[1] /\ 1 \in DOMAIN q
      BY <2>1 DEF Take, TypeOK
    <2>3. \A t \in sessions \ {s} : reports'[t] = IF Closed(t)' /\ ~EndQueued(t)' THEN 1 ELSE 0
      <3>1. \A t \in sessions \ {s} : reports'[t] = reports[t]
        BY <1>5 DEF TakesTurn, TakeEnd, TakeCall, clientVars, TypeOK
      <3> QED BY <1>0, <2>1, <3>1, TakeElements DEF EndAccounted, Closed, EndQueued
    <2>4. CASE TakeEnd(h)
      <3>1. IsEnd(q[1]) /\ reports'[s] = reports[s] + 1
        BY <2>2, <2>4 DEF TakeEnd, TypeOK
      <3>2. Len(q) = 1 /\ Closed(s)
        BY <2>2, <3>1 DEF EndIsLast
      <3>3. ~EndQueued(s)' /\ EndQueued(s)
        BY <2>1, <2>2, <3>1, <3>2 DEF EndQueued
      <3> QED BY <2>1, <2>3, <3>1, <3>2, <3>3 DEF EndAccounted, Closed
    <2>5. CASE TakeCall(h)
      <3>1. ~IsEnd(q[1]) /\ reports' = reports
        BY <2>2, <2>5 DEF TakeCall, clientVars
      <3>2. CASE Len(q) = 1
        <4>1. ~EndQueued(s) /\ ~EndQueued(s)'
          BY <2>1, <2>2, <3>1, <3>2 DEF EndQueued
        <4> QED BY <2>1, <2>3, <3>1, <4>1 DEF EndAccounted, Closed
      <3>3. CASE Len(q) # 1
        <4>1. outcomes'[s] # <<>> /\ outcomes'[s][Len(outcomes'[s])] = q[Len(q)]
          <5>1. Len(q) \in Nat /\ Len(q) # 0
            BY <2>1, TakeElements
          <5>2. \A n \in Nat : n # 0 /\ n # 1 => n > 1
            OBVIOUS
          <5>3. Len(q) > 1
            BY <3>3, <5>1, <5>2, Zenon
          <5> QED BY <2>1, <2>2, <5>3, TailLast
        <4>2. EndQueued(s)' <=> EndQueued(s)
          <5>1. IsEnd(outcomes'[s][Len(outcomes'[s])]) <=> IsEnd(q[Len(q)])
            BY <4>1 DEF IsEnd
          <5> QED BY <2>1, <4>1, <5>1 DEF EndQueued
        <4> QED BY <2>1, <2>3, <3>1, <4>2 DEF EndAccounted, Closed
      <3> QED BY <3>2, <3>3
    <2> QED BY <1>5, <2>4, <2>5 DEF TakesTurn
  <1>6. ASSUME NEW h \in Requests, PutBackEnd(h) \/ WindowCloses(h) PROVE EndAccounted'
    <2>1. UNCHANGED <<sessions, runner, reports>>
      BY <1>6 DEF PutBackEnd, WindowCloses, indexVars, agentVars
    <2>2. UNCHANGED outcomes
      <3>1. PutBackEnd(h) => at[h] \in Sessions
        BY DEF PutBackEnd, TypeOK
      <3> QED BY <1>6, <3>1, PutBackEndElements DEF PutBackEnd, WindowCloses
    <2> QED BY <2>1, <2>2 DEF EndAccounted, Closed, EndQueued
  <1>7. CASE UNCHANGED vars
    BY <1>7 DEF vars, EndAccounted, Closed, EndQueued, indexVars, agentVars, clientVars
  <1> QED BY <1>1, <1>2, <1>3, <1>4, <1>5, <1>6, <1>7, RequestStepKinds DEF Next, TakesTurn

LEMMA AccountedIsReportedOnce == TypeOK /\ EndIsLast /\ EndAccounted => EndReportedOnce
  <1> SUFFICES ASSUME TypeOK, EndIsLast, EndAccounted, NEW s \in sessions, Closed(s)
               PROVE  Cardinality({i \in DOMAIN outcomes[s] : IsEnd(outcomes[s][i])})
                        + reports[s] = 1
    BY DEF EndReportedOnce
  <1> DEFINE queued == {i \in DOMAIN outcomes[s] : IsEnd(outcomes[s][i])}
  <1>1. s \in Sessions /\ outcomes[s] \in Seq(Turns)
    BY DEF TypeOK
  <1>2. CASE EndQueued(s)
    <2>1. queued = {Len(outcomes[s])}
      BY <1>1, <1>2 DEF EndIsLast, EndQueued
    <2>2. Cardinality(queued) = 1
      BY <2>1, FS_Singleton
    <2> QED BY <1>2, <2>2 DEF EndAccounted
  <1>3. CASE ~EndQueued(s)
    <2>1. queued = {}
      BY <1>1, <1>3 DEF EndIsLast, EndQueued
    <2>2. Cardinality(queued) = 0
      BY <2>1, FS_EmptySet
    <2> QED BY <1>3, <2>2 DEF EndAccounted
  <1> QED BY <1>2, <1>3

\* The token of a session whose Agent task has ended is reported for once: when its
\* end is taken from the queue, or not yet.
THEOREM EndsAreReportedOnce == Spec => []EndReportedOnce
  <1>1. Init => TypeOK /\ IndexInv /\ Lifetimes /\ EndIsLast /\ EndAccounted
    BY InitTypeOK, InitIndexInv, InitLifetimes, InitEndAccounted DEF Init, EndIsLast
  <1>2. TypeOK /\ IndexInv /\ Lifetimes /\ EndIsLast /\ EndAccounted /\ [Next]_vars
          => (TypeOK /\ IndexInv /\ Lifetimes /\ EndIsLast /\ EndAccounted)'
    BY NextTypeOK, NextIndexInv, NextLifetimes, NextEndIsLast, NextEndAccounted
  <1> QED BY <1>1, <1>2, AccountedIsReportedOnce, PTL DEF Spec

-----------------------------------------------------------------------------
(* What an error turn says about the calls of its session.                 *)

\* An attempt begins before any call was dispatched, in every attempt, so a session
\* that has calls has dispatched them in this one.
NoDispatchBefore ==
  \A s \in Sessions : dispatchBefore[s] = 0 /\ (pending[s] # {} => dispatchCount[s] > 0)

LEMMA InitNoDispatchBefore == Init => NoDispatchBefore
BY DEF Init, NoDispatchBefore

LEMMA NextNoDispatchBefore ==
  TypeOK /\ IndexInv /\ Lifetimes /\ EndIsLast /\ NoDispatchBefore /\ [Next]_vars
    => NoDispatchBefore'
  <1> SUFFICES ASSUME TypeOK, IndexInv, Lifetimes, EndIsLast, NoDispatchBefore, [Next]_vars
               PROVE  NoDispatchBefore'
    OBVIOUS
  <1> USE DEF agentVars, callVars
  <1>1. ASSUME NEW s \in Sessions, SessionStep(s) PROVE NoDispatchBefore'
    <2>1. \A t \in Sessions \ {s} : /\ pending'[t] = pending[t]
                                    /\ dispatchCount'[t] = dispatchCount[t]
                                    /\ dispatchBefore'[t] = dispatchBefore[t]
      BY <1>1, SessionStepFrame
    <2>2. dispatchBefore'[s] = 0 /\ (pending'[s] # {} => dispatchCount'[s] > 0)
      <3> dispatchCount[s] \in Nat /\ dispatchBefore[s] = 0
          /\ (pending[s] # {} => dispatchCount[s] > 0)
        BY DEF NoDispatchBefore, TypeOK
      <3>1. ASSUME NEW c \in Calls, RelayCall(c, s)
            PROVE  dispatchBefore'[s] = 0 /\ dispatchCount'[s] > 0
        BY <3>1 DEF RelayCall, TypeOK
      <3>2. CASE AgentRetries(s)
        BY <3>2 DEF AgentRetries, NativeRoute, TypeOK
      <3>3. CASE \/ AgentBoots(s) \/ AgentEvent(s) \/ AgentFails(s) \/ AgentCompletes(s)
                 \/ AgentRejected(s) \/ RunnerCancelled(s) \/ TtlElapses(s)
        <4>1. UNCHANGED <<pending, dispatchCount, dispatchBefore>>
          BY <3>3 DEF AgentBoots, AgentEvent, AgentFails, AgentCompletes, AgentRejected,
                      RunnerCancelled, TtlElapses
        <4> QED BY <4>1
      <3> QED BY <1>1, <3>1, <3>2, <3>3 DEF SessionStep
    <2> QED BY <2>1, <2>2 DEF NoDispatchBefore
  <1>2. ASSUME UNCHANGED <<dispatchCount, dispatchBefore>>,
               \A s \in Sessions : pending'[s] \subseteq pending[s]
        PROVE  NoDispatchBefore'
    BY <1>2 DEF NoDispatchBefore
  <1>3. ASSUME NEW c \in Calls, CallStep(c) PROVE NoDispatchBefore'
    BY <1>2, <1>3, CallStepFrame
  <1>4. ASSUME NEW h \in Requests, RequestStep(h) PROVE NoDispatchBefore'
    <2>1. CASE ClosingStep(h)
      BY <1>2, <2>1, ClosingStepCloses, ClosesSomeEffect
    <2>2. CASE ReaderMoves(h) \/ SubmitStep(h)
      BY <1>2, <2>2, ReaderMovesFrame, SubmitStepFrame
    <2>3. CASE TakeEnd(h) \/ TakeCall(h) \/ PutBackEnd(h) \/ WindowCloses(h)
      BY <1>2, <2>3 DEF TakeEnd, TakeCall, PutBackEnd, WindowCloses
    <2> QED BY <1>4, <2>1, <2>2, <2>3, RequestStepKinds
  <1>5. CASE UNCHANGED vars
    BY <1>2, <1>5 DEF vars
  <1> QED BY <1>1, <1>3, <1>4, <1>5 DEF Next

\* A queued turn was queued before, or is queued in this step.
LEMMA TurnsComeFromRunners ==
  ASSUME TypeOK, IndexInv, Lifetimes, EndIsLast, [Next]_vars,
         NEW s \in Sessions, NEW i \in DOMAIN outcomes'[s]
  PROVE  \/ \E j \in DOMAIN outcomes[s] : outcomes'[s][i] = outcomes[s][j]
         \/ /\ outcomes'[s][i] \in Turns /\ SessionStep(s)
            /\ Reason(s, outcomes'[s][i])
  <1>1. CASE UNCHANGED outcomes
    BY <1>1
  <1>2. ASSUME NEW t \in Sessions, NEW turn \in Turns,
               SessionStep(t), Queues(t, turn), Reason(t, turn)
        PROVE  \/ \E j \in DOMAIN outcomes[s] : outcomes'[s][i] = outcomes[s][j]
               \/ /\ outcomes'[s][i] \in Turns /\ SessionStep(s)
                  /\ Reason(s, outcomes'[s][i])
    <2>1. CASE i \in DOMAIN outcomes[s]
      BY <1>2, <2>1, PutElements DEF Queues
    <2>2. CASE i \notin DOMAIN outcomes[s]
      <3>1. s = t /\ outcomes'[s][i] = turn
        BY <1>2, <2>2, PutElements DEF Queues
      <3> QED BY <1>2, <3>1
    <2> QED BY <2>1, <2>2
  <1>3. ASSUME NEW h \in Requests, TakesTurn(h)
        PROVE  \E j \in DOMAIN outcomes[s] : outcomes'[s][i] = outcomes[s][j]
    BY <1>3, TakesTurnEffect, TakeElements
  <1> QED BY <1>1, <1>2, <1>3, StepQueues

LEMMA NextNativeErrorMeansNoDispatch ==
  TypeOK /\ IndexInv /\ Lifetimes /\ EndIsLast /\ NoDispatchBefore
      /\ NativeErrorMeansNoDispatch /\ [Next]_vars => NativeErrorMeansNoDispatch'
  <1> SUFFICES ASSUME TypeOK, IndexInv, Lifetimes, EndIsLast, NoDispatchBefore,
                      NativeErrorMeansNoDispatch, [Next]_vars,
                      NEW s \in Sessions, NEW i \in DOMAIN outcomes'[s],
                      outcomes'[s][i].kind = "native_error"
               PROVE  dispatchCount'[s] = 0 /\ pending'[s] = {}
    BY DEF NativeErrorMeansNoDispatch
  <1>1. ASSUME NEW j \in DOMAIN outcomes[s], outcomes'[s][i] = outcomes[s][j]
        PROVE  dispatchCount'[s] = 0 /\ pending'[s] = {}
    <2>1. dispatchCount[s] = 0 /\ pending[s] = {}
      BY <1>1 DEF NativeErrorMeansNoDispatch
    <2>2. Closed(s)
      BY <1>1 DEF EndIsLast, IsEnd
    <2> QED BY <2>1, <2>2, NothingAfterTheRunner
  <1>2. CASE Reason(s, outcomes'[s][i])
    BY <1>2 DEF Reason, NoDispatchBefore, TypeOK
  <1> QED BY <1>1, <1>2, TurnsComeFromRunners

\* The native-route error reaches a client only if the session dispatched no call at
\* all: no relay request is abandoned by it.
THEOREM NativeErrorsMeanNoDispatch == Spec => []NativeErrorMeansNoDispatch
  <1> DEFINE Inv == /\ TypeOK /\ IndexInv /\ Lifetimes /\ EndIsLast /\ NoDispatchBefore
                    /\ NativeErrorMeansNoDispatch
  <1>1. Init => Inv
    BY InitTypeOK, InitIndexInv, InitLifetimes, InitNoDispatchBefore
       DEF Init, EndIsLast, NativeErrorMeansNoDispatch
  <1>2. Inv /\ [Next]_vars => Inv'
    BY NextTypeOK, NextIndexInv, NextLifetimes, NextEndIsLast, NextNoDispatchBefore,
       NextNativeErrorMeansNoDispatch
  <1>3. Inv => NativeErrorMeansNoDispatch
    OBVIOUS
  <1> QED BY <1>1, <1>2, <1>3, PTL DEF Spec

LEMMA NextAgentErrorFailsCalls ==
  TypeOK /\ IndexInv /\ Lifetimes /\ EndIsLast /\ AgentErrorFailsCalls /\ [Next]_vars
    => AgentErrorFailsCalls'
  <1> SUFFICES ASSUME TypeOK, IndexInv, Lifetimes, EndIsLast, AgentErrorFailsCalls, [Next]_vars,
                      NEW s \in Sessions, NEW i \in DOMAIN outcomes'[s],
                      outcomes'[s][i].kind = "agent_error", NEW c \in pending'[s]
               PROVE  result'[c] # "unset"
    BY DEF AgentErrorFailsCalls
  <1>1. ASSUME NEW j \in DOMAIN outcomes[s], outcomes'[s][i] = outcomes[s][j]
        PROVE  result'[c] # "unset"
    <2>1. Closed(s)
      BY <1>1 DEF EndIsLast, IsEnd
    <2>2. c \in pending[s] /\ c \in Calls
      BY <2>1, NothingAfterTheRunner DEF TypeOK
    <2>3. result[c] # "unset"
      BY <1>1, <2>2 DEF AgentErrorFailsCalls
    <2> QED BY <2>2, <2>3, NothingAfterTheRunner
  <1>2. CASE Reason(s, outcomes'[s][i])
    <2>1. Resolve(pending[s], "error") /\ UNCHANGED pending
      BY <1>2 DEF Reason
    <2>2. c \in pending[s] /\ c \in Calls
      BY <2>1 DEF TypeOK
    <2> QED BY <2>1, <2>2 DEF Resolve
  <1> QED BY <1>1, <1>2, TurnsComeFromRunners

\* When a client reads an Agent error, no relay request of that session waits for an
\* output any more, though outputs and timers race with the error.
THEOREM AgentErrorsFailCalls == Spec => []AgentErrorFailsCalls
  <1> DEFINE Inv == TypeOK /\ IndexInv /\ Lifetimes /\ EndIsLast /\ AgentErrorFailsCalls
  <1>1. Init => Inv
    BY InitTypeOK, InitIndexInv, InitLifetimes DEF Init, EndIsLast, AgentErrorFailsCalls
  <1>2. Inv /\ [Next]_vars => Inv'
    BY NextTypeOK, NextIndexInv, NextLifetimes, NextEndIsLast, NextAgentErrorFailsCalls
  <1>3. Inv => AgentErrorFailsCalls
    OBVIOUS
  <1> QED BY <1>1, <1>2, <1>3, PTL DEF Spec

-----------------------------------------------------------------------------
(* Tool calls: who reads them, who has them.                               *)

\* What is shown above of queues and sessions.
TurnInv == TypeOK /\ IndexInv /\ Lifetimes /\ EndIsLast

LEMMA InitTurnInv == Init => TurnInv
BY InitTypeOK, InitIndexInv, InitLifetimes DEF TurnInv, Init, EndIsLast

LEMMA NextTurnInv == TurnInv /\ [Next]_vars => TurnInv'
BY NextTypeOK, NextIndexInv, NextLifetimes, NextEndIsLast DEF TurnInv

(* Readers.                                                                *)

\* Only a request inside the batch window holds calls, of the session it reads.
BatchHeld ==
  \A h \in Requests : \A c \in batch[h] : pc[h] = "window" /\ callOwner[c] = at[h]

\* A call is queued in the session that accepted it.
QueueOwned ==
  \A s \in Sessions : \A i \in QueuedCalls(s) : callOwner[outcomes[s][i].call] = s

AnnouncedAccepted == \A c \in announced : relay[c] # "unused"

\* A reader has all the answers because a continuation needs an unanswered call the
\* client knows; so there is one reader because it has all the answers.
ReaderInv ==
  OneReader /\ ReaderHasAllAnswers /\ BatchHeld /\ QueueOwned /\ AnnouncedAccepted

LEMMA InitReaderInv == Init => ReaderInv
BY DEF Init, ReaderInv, OneReader, ReaderHasAllAnswers, BatchHeld, QueueOwned,
       AnnouncedAccepted, Reading, QueuedCalls

\* The runner's own steps accept no call.
LEMMA AgentStepCalls ==
  ASSUME TypeOK, NEW s \in Sessions, SessionStep(s), \A c \in Calls : ~RelayCall(c, s)
  PROVE  /\ UNCHANGED <<callOwner, relay, pending>>
         /\ UNCHANGED outcomes \/ \E turn \in Turns : Put(s, turn) /\ IsEnd(turn)
  <1>1. UNCHANGED <<callOwner, relay, pending>>
    BY DEF SessionStep, AgentBoots, AgentEvent, AgentFails, AgentCompletes, AgentRetries,
           AgentRejected, RunnerCancelled, TtlElapses, callVars
  <1>2. AgentFails(s) \/ AgentCompletes(s) \/ AgentRejected(s)
          => \E turn \in Turns : Put(s, turn) /\ IsEnd(turn)
    BY EndsAndCalls DEF AgentFails, AgentCompletes, AgentRejected, EndKinds
  <1>3. AgentBoots(s) \/ AgentEvent(s) \/ AgentRetries(s) \/ RunnerCancelled(s) \/ TtlElapses(s)
          => UNCHANGED outcomes
    BY DEF AgentBoots, AgentEvent, AgentRetries, RunnerCancelled, TtlElapses
  <1> QED BY <1>1, <1>2, <1>3 DEF SessionStep

LEMMA RelayCallCalls ==
  ASSUME TypeOK, NEW s \in Sessions, NEW c \in Calls, RelayCall(c, s)
  PROVE  /\ relay[c] = "unused" /\ relay'[c] = "waiting" /\ callOwner'[c] = s
         /\ Put(s, CallTurn(c)) /\ pending'[s] = pending[s] \cup {c}
         /\ \A d \in Calls \ {c} : relay'[d] = relay[d] /\ callOwner'[d] = callOwner[d]
         /\ \A t \in Sessions \ {s} : pending'[t] = pending[t]
         /\ UNCHANGED result
BY DEF RelayCall, Fresh, TypeOK

\* What accepting a call, or a runner's own step, does to the queued calls.
LEMMA SessionStepQueued ==
  ASSUME TypeOK, NEW s \in Sessions, SessionStep(s)
  PROVE  /\ \A t \in Sessions : \A i \in QueuedCalls(t)' :
              \/ i \in QueuedCalls(t) /\ outcomes'[t][i] = outcomes[t][i]
              \/ /\ t = s /\ i = Len(outcomes[s]) + 1
                 /\ relay[outcomes'[t][i].call] = "unused"
                 /\ relay'[outcomes'[t][i].call] = "waiting"
                 /\ callOwner'[outcomes'[t][i].call] = s
         /\ \A c \in Calls : relay[c] # "unused" =>
              relay'[c] = relay[c] /\ callOwner'[c] = callOwner[c]
         /\ \A t \in Sessions : \A c \in pending'[t] \ pending[t] : relay[c] = "unused"
  <1> USE DEF QueuedCalls
  <1>1. ASSUME NEW c \in Calls, RelayCall(c, s)
        PROVE  /\ \A t \in Sessions : \A i \in QueuedCalls(t)' :
                    \/ i \in QueuedCalls(t) /\ outcomes'[t][i] = outcomes[t][i]
                    \/ /\ t = s /\ i = Len(outcomes[s]) + 1
                       /\ outcomes'[t][i].call = c
    <2>1. Put(s, CallTurn(c)) /\ CallTurn(c) \in Turns /\ CallTurn(c).call = c
      BY <1>1, RelayCallCalls, EndsAndCalls
    <2> QED BY <2>1, PutElements DEF IsEnd
  <1>2. ASSUME NEW turn \in Turns, Put(s, turn), IsEnd(turn)
        PROVE  \A t \in Sessions : \A i \in QueuedCalls(t)' :
                 i \in QueuedCalls(t) /\ outcomes'[t][i] = outcomes[t][i]
    BY <1>2, PutElements DEF IsEnd
  <1>3. ASSUME UNCHANGED outcomes
        PROVE  \A t \in Sessions : \A i \in QueuedCalls(t)' :
                 i \in QueuedCalls(t) /\ outcomes'[t][i] = outcomes[t][i]
    BY <1>3
  <1>4. CASE \A c \in Calls : ~RelayCall(c, s)
    BY <1>2, <1>3, <1>4, AgentStepCalls
  <1>5. CASE \E c \in Calls : RelayCall(c, s)
    <2> PICK c \in Calls : RelayCall(c, s)
      BY <1>5
    <2> QED BY <1>1, RelayCallCalls
  <1> QED BY <1>4, <1>5

LEMMA SessionStepReaderInv ==
  ASSUME TurnInv, ReaderInv, NEW s \in Sessions, SessionStep(s)
  PROVE  ReaderInv'
  <1> USE DEF TurnInv, ReaderInv
  <1>1. UNCHANGED <<pc, at, batch, todo, announced>>
    BY SessionStepFrame DEF requestVars
  <1>2. \A c \in Calls : result[c] # "unset" => result'[c] = result[c]
    BY SessionStepFrame
  <1>3. OneReader'
    BY <1>1 DEF OneReader, Reading
  <1>4. ReaderHasAllAnswers'
    <2> SUFFICES ASSUME NEW h \in Requests, Reading(h),
                        NEW c \in pending'[at[h]] \cap announced
                 PROVE  result'[c] # "unset"
      BY <1>1 DEF ReaderHasAllAnswers, Reading
    <2>1. at[h] \in Sessions /\ c \in Calls
      BY DEF Reading, TypeOK
    <2>2. c \in pending[at[h]]
      BY <2>1, SessionStepQueued DEF AnnouncedAccepted
    <2> QED BY <1>2, <2>1, <2>2 DEF ReaderHasAllAnswers
  <1>5. \A c \in Calls : relay[c] = "unused" => callOwner[c] = None
    BY DEF IndexInv, IdsFresh
  <1>6. BatchHeld'
    <2>1. \A h \in Requests : \A c \in batch[h] : c \in Calls /\ relay[c] # "unused"
      BY <1>5, SMTT(30) DEF BatchHeld, TypeOK, None, Sessions
    <2> QED BY <1>1, <2>1, SessionStepQueued DEF BatchHeld
  <1>7. QueueOwned'
    <2> SUFFICES ASSUME NEW t \in Sessions, NEW i \in QueuedCalls(t)'
                 PROVE  callOwner'[outcomes'[t][i].call] = t
      BY DEF QueueOwned
    <2>1. CASE i \in QueuedCalls(t) /\ outcomes'[t][i] = outcomes[t][i]
      <3>1. outcomes[t][i].call \in Calls
        BY <2>1, TurnsTyped DEF TypeOK, QueuedCalls
      <3>2. callOwner[outcomes[t][i].call] = t
        BY <2>1 DEF QueueOwned
      <3>3. relay[outcomes[t][i].call] # "unused"
        BY <1>5, <3>1, <3>2 DEF None, Sessions
      <3> QED BY <2>1, <3>1, <3>2, <3>3, SessionStepQueued
    <2> QED BY <2>1, SessionStepQueued
  <1>8. AnnouncedAccepted'
    BY <1>1, SessionStepQueued DEF AnnouncedAccepted, TypeOK
  <1> QED BY <1>3, <1>4, <1>6, <1>7, <1>8

\* A step that leaves the queues and the owners of calls alone, resolves no future
\* twice and drops calls at most.
ReadersKept ==
  /\ UNCHANGED <<outcomes, callOwner, announced>>
  /\ \A s \in Sessions : pending'[s] \subseteq pending[s]
  /\ \A c \in Calls : result[c] # "unset" => result'[c] # "unset"
  /\ \A c \in Calls : relay[c] # "unused" => relay'[c] # "unused"

LEMMA KeptReaderInv ==
  ASSUME TurnInv, ReaderInv, ReadersKept,
         \A h \in Requests : Reading(h)' => Reading(h) /\ at'[h] = at[h],
         \A h \in Requests : batch'[h] = {} \/ (batch'[h] = batch[h] /\ pc'[h] = pc[h] /\ at'[h] = at[h])
  PROVE  ReaderInv'
  <1> USE DEF TurnInv, ReaderInv, ReadersKept
  <1>1. OneReader'
    BY DEF OneReader
  <1>2. ReaderHasAllAnswers'
    <2> SUFFICES ASSUME NEW h \in Requests, Reading(h)',
                        NEW c \in pending'[at'[h]] \cap announced'
                 PROVE  result'[c] # "unset"
      BY DEF ReaderHasAllAnswers
    <2>1. Reading(h) /\ at'[h] = at[h] /\ at[h] \in Sessions
      BY DEF TypeOK, Reading
    <2>2. c \in pending[at[h]] \cap announced /\ c \in Calls
      BY <2>1 DEF TypeOK
    <2> QED BY <2>1, <2>2 DEF ReaderHasAllAnswers
  <1>3. BatchHeld'
    BY DEF BatchHeld
  <1>4. QueueOwned'
    BY DEF QueueOwned, QueuedCalls
  <1>5. AnnouncedAccepted'
    BY DEF AnnouncedAccepted, TypeOK
  <1> QED BY <1>1, <1>2, <1>3, <1>4, <1>5

LEMMA CallStepReaderInv ==
  ASSUME TurnInv, ReaderInv, NEW c \in Calls, CallStep(c)
  PROVE  ReaderInv'
  <1>1. UNCHANGED <<pc, at, batch>>
    BY CallStepFrame DEF requestVars, TurnInv
  <1>2. \A d \in Calls : relay[d] # "unused" => relay'[d] # "unused"
    BY DEF CallStep, TimerFires, RelayResumes, RelayAborted, RelayAnswer, TurnInv, TypeOK
  <1>3. ReadersKept
    BY <1>2, CallStepFrame DEF ReadersKept, clientVars, TurnInv
  <1> QED BY <1>1, <1>3, KeptReaderInv DEF Reading

LEMMA ClosingStepBatch ==
  ASSUME TurnInv, BatchHeld, NEW h \in Requests, ClosingStep(h)
  PROVE  batch'[h] = {} /\ \A g \in Requests \ {h} : batch'[g] = batch[g]
BY DEF ClosingStep, Start, CloseContinues, Closing, Shutdown, ClientGone, Reading, BatchHeld,
       TurnInv, TypeOK

LEMMA ClosingStepReaderInv ==
  ASSUME TurnInv, ReaderInv, NEW h \in Requests, ClosingStep(h)
  PROVE  ReaderInv'
  <1> USE DEF TurnInv, ReaderInv
  <1>1. ClosesSome(Started) /\ GoesOn(h, Started)
    BY ClosingStepCloses
  <1>2. UNCHANGED <<outcomes, relay, callOwner, announced>>
    BY ClosingStepCloses DEF clientVars
  <1>3. /\ \A s \in Sessions : pending'[s] \subseteq pending[s]
        /\ \A c \in Calls : result[c] # "unset" => result'[c] # "unset"
    BY <1>1, ClosesSomeEffect
  <1>4. \A g \in Requests \ {h} : pc'[g] = pc[g] /\ at'[g] = at[g] /\ batch'[g] = batch[g]
    BY <1>1, ClosingStepBatch DEF GoesOn
  <1>5. batch'[h] = {}
    BY ClosingStepBatch
  <1>6. Reading(h)' => at'[h] = nextSession /\ nextSession \in Sessions
    BY <1>1 DEF GoesOn, Reading
  <1>7. nextSession \notin Started
    BY DEF Started, TypeOK
  <1>8. OneReader'
    <2>1. \A g \in Requests \ {h} : Reading(g)' => Reading(g) /\ at'[g] = at[g] /\ at[g] \in Started
      BY <1>4 DEF Reading, Lifetimes
    <2> QED BY <1>6, <1>7, <2>1 DEF OneReader
  <1>9. ReaderHasAllAnswers'
    <2> SUFFICES ASSUME NEW g \in Requests, Reading(g)',
                        NEW c \in pending'[at'[g]] \cap announced'
                 PROVE  result'[c] # "unset"
      BY DEF ReaderHasAllAnswers
    <2>1. CASE g = h
      BY <1>3, <1>6, <1>7, <2>1 DEF Lifetimes
    <2>2. CASE g # h
      <3>1. Reading(g) /\ at'[g] = at[g] /\ at[g] \in Sessions
        BY <1>4, <2>2 DEF Reading, TypeOK
      <3>2. c \in pending[at[g]] \cap announced /\ c \in Calls
        BY <1>2, <1>3, <3>1 DEF TypeOK
      <3> QED BY <1>3, <3>1, <3>2 DEF ReaderHasAllAnswers
    <2> QED BY <2>1, <2>2
  <1>10. BatchHeld'
    BY <1>2, <1>4, <1>5 DEF BatchHeld
  <1>11. QueueOwned' /\ AnnouncedAccepted'
    BY <1>2 DEF QueueOwned, QueuedCalls, AnnouncedAccepted
  <1> QED BY <1>8, <1>9, <1>10, <1>11

LEMMA ReaderMovesReaderInv ==
  ASSUME TurnInv, ReaderInv, NEW h \in Requests, ReaderMoves(h)
  PROVE  ReaderInv'
  <1> USE DEF TurnInv, ReaderInv
  <1>1. ReadersKept
    BY ReaderMovesFrame DEF ReadersKept, callVars, clientVars
  <1>2. \A g \in Requests : Reading(g)' => Reading(g) /\ at'[g] = at[g]
    BY DEF ReaderMoves, StreamReads, ClientGone, Leave, Reading, TypeOK
  <1>3. batch'[h] = {} /\ \A g \in Requests \ {h} : batch'[g] = batch[g] /\ pc'[g] = pc[g] /\ at'[g] = at[g]
    BY DEF ReaderMoves, StreamReads, ClientGone, Leave, BatchHeld, TypeOK
  <1> QED BY <1>1, <1>2, <1>3, KeptReaderInv

\* A client sends at least one output, of calls it knows.
LEMMA OutputsNamed ==
  ASSUME NEW outs \in Outputs
  PROVE  /\ 1 \in DOMAIN outs
         /\ Named(outs) \subseteq announced
  <1> PICK n \in 1 .. MaxOutputs : outs \in [1 .. n -> announced]
    BY DEF Outputs
  <1>1. n \in Nat /\ 1 <= n
    BY BoundsAreNaturals
  <1> QED BY <1>1 DEF Named

\* The outputs of calls C of s are applied; if they are all, h goes on to read.
Applying(h, s, C) ==
  /\ C \subseteq pending[s] \cap announced
  /\ C # {}
  /\ \A c \in C : result[c] = "unset"
  /\ Resolve(C, "output")
  /\ \/ BeginReading(h, s) /\ UNCHANGED batch /\ pending[s] \subseteq C
     \/ UNCHANGED requestVars

\* What an accepted submission, and one that fails partway, resolve.
LEMMA SubmitResolves ==
  ASSUME TurnInv, NEW h \in Requests, SubmitStep(h)
  PROVE  \E s \in sessions, C \in SUBSET Calls : Applying(h, s, C)
  <1> USE DEF TurnInv
  <1> PICK s \in sessions, outs \in Outputs :
        (\E R : Submit(h, s, outs, R)) \/ SubmitFailsPartway(s, outs)
    BY DEF SubmitStep
  <1>1. CASE \E R : Submit(h, s, outs, R)
    <2> PICK R : Submit(h, s, outs, R)
      BY <1>1
    <2>1. Accepted(s, outs) /\ Resolve(Named(outs), "output") /\ BeginReading(h, s)
          /\ UNCHANGED batch
      BY DEF Submit
    <2>2. outs[1] \in Named(outs) /\ Named(outs) \subseteq announced
      BY OutputsNamed DEF Named
    <2>3. Named(outs) \subseteq pending[s] /\ \A c \in Named(outs) : result[c] = "unset"
      BY <2>1 DEF Accepted, Applies, Named
    <2>4. pending[s] \subseteq Named(outs)
      BY <2>1 DEF Accepted, Missing
    <2>5. Applying(h, s, Named(outs)) /\ Named(outs) \subseteq Calls
      BY <2>1, <2>2, <2>3, <2>4 DEF Applying, TypeOK
    <2> QED BY <2>5
  <1>2. CASE SubmitFailsPartway(s, outs)
    <2>1. Applied(s, outs) # {} /\ Resolve(Applied(s, outs), "output") /\ UNCHANGED requestVars
      BY <1>2 DEF SubmitFailsPartway
    <2>2. Applied(s, outs) \subseteq Named(outs)
      BY DEF Applied, Named
    <2>3. \A c \in Applied(s, outs) : c \in pending[s] /\ result[c] = "unset"
      <3> SUFFICES ASSUME NEW k \in DOMAIN outs, \A j \in 1 .. k : Applies(s, outs, j)
                   PROVE  outs[k] \in pending[s] /\ result[outs[k]] = "unset"
        BY DEF Applied
      <3>1. k \in 1 .. k
        BY DEF Outputs
      <3> QED BY <3>1 DEF Applies
    <2>4. Applying(h, s, Applied(s, outs)) /\ Applied(s, outs) \subseteq Calls
      BY <2>1, <2>2, <2>3, OutputsNamed DEF Applying, TypeOK
    <2> QED BY <2>4
  <1> QED BY <1>1, <1>2

LEMMA SubmitStepReaderInv ==
  ASSUME TurnInv, ReaderInv, NEW h \in Requests, SubmitStep(h)
  PROVE  ReaderInv'
  <1> USE DEF TurnInv, ReaderInv
  <1>1. ReadersKept
    BY SubmitStepFrame DEF ReadersKept, clientVars
  <1> PICK s \in sessions, C \in SUBSET Calls : Applying(h, s, C)
    BY SubmitResolves
  <1> USE DEF Applying
  <1>2. CASE UNCHANGED requestVars
    <2>1. UNCHANGED <<pc, at, batch>>
      BY <1>2 DEF requestVars
    <2> QED BY <1>1, <2>1, KeptReaderInv DEF Reading
  <1>3. CASE BeginReading(h, s) /\ UNCHANGED batch /\ pending[s] \subseteq C
    <2>0. s \in Sessions /\ batch'[h] = {}
      BY <1>3 DEF TypeOK, SubmitStep, BatchHeld
    <2>1. \A g \in Requests : Reading(g) => at[g] # s
      BY DEF ReaderHasAllAnswers
    <2>2. \A g \in Requests \ {h} : pc'[g] = pc[g] /\ at'[g] = at[g] /\ batch'[g] = batch[g]
      BY <1>3 DEF BeginReading, TypeOK
    <2>3. at'[h] = s
      BY <1>3 DEF BeginReading, TypeOK
    <2>4. OneReader'
      BY <2>1, <2>2, <2>3 DEF OneReader, Reading
    <2>5. \A c \in C : result'[c] # "unset"
      BY DEF Resolve, TypeOK
    <2>6. ReaderHasAllAnswers'
      <3> SUFFICES ASSUME NEW g \in Requests, Reading(g)',
                          NEW c \in pending'[at'[g]] \cap announced'
                   PROVE  result'[c] # "unset"
        BY DEF ReaderHasAllAnswers
      <3>1. CASE g = h
        BY <1>1, <1>3, <2>0, <2>3, <2>5, <3>1 DEF ReadersKept
      <3>2. CASE g # h
        <4>1. Reading(g) /\ at'[g] = at[g] /\ at[g] \in Sessions
          BY <2>2, <3>2 DEF Reading, TypeOK
        <4>2. c \in pending[at[g]] \cap announced /\ c \in Calls
          BY <1>1, <4>1 DEF TypeOK, ReadersKept
        <4> QED BY <1>1, <4>1, <4>2 DEF ReaderHasAllAnswers, ReadersKept
      <3> QED BY <3>1, <3>2
    <2>7. BatchHeld'
      BY <1>1, <2>0, <2>2 DEF BatchHeld, ReadersKept
    <2>8. QueueOwned' /\ AnnouncedAccepted'
      BY <1>1 DEF QueueOwned, QueuedCalls, AnnouncedAccepted, ReadersKept, TypeOK
    <2> QED BY <2>4, <2>6, <2>7, <2>8
  <1> QED BY <1>2, <1>3

\* Taking a turn moves the queued calls up.
LEMMA TakesTurnQueued ==
  ASSUME TypeOK, NEW h \in Requests, TakesTurn(h)
  PROVE  \A t \in Sessions : \A i \in QueuedCalls(t)' :
           \/ t # at[h] /\ i \in QueuedCalls(t) /\ outcomes'[t][i] = outcomes[t][i]
           \/ t = at[h] /\ i \in Nat /\ i + 1 \in QueuedCalls(t) /\ i + 1 # 1
                /\ outcomes'[t][i] = outcomes[t][i + 1]
BY TakesTurnEffect, TakeElements DEF QueuedCalls, IsEnd

LEMMA TakesTurnReaderInv ==
  ASSUME TurnInv, ReaderInv, NEW h \in Requests, TakesTurn(h)
  PROVE  ReaderInv'
  <1> USE DEF TurnInv, ReaderInv
  <1>1. UNCHANGED <<pending, result, relay, callOwner, announced>>
    BY DEF TakesTurn, TakeEnd, TakeCall, callVars, clientVars
  <1>2. \A g \in Requests : Reading(g)' => Reading(g) /\ at'[g] = at[g]
    BY DEF TakesTurn, TakeEnd, TakeCall, Leave, Reading, TypeOK
  <1>3. OneReader'
    BY <1>2 DEF OneReader
  <1>4. ReaderHasAllAnswers'
    BY <1>1, <1>2 DEF ReaderHasAllAnswers
  <1>5. QueueOwned'
    BY <1>1, TakesTurnQueued DEF QueueOwned
  <1>6. AnnouncedAccepted'
    BY <1>1 DEF AnnouncedAccepted
  <1>7. BatchHeld'
    <2>1. CASE TakeEnd(h)
      <3>1. batch[h] = {}
        BY <2>1 DEF TakeEnd, BatchHeld
      <3>2. UNCHANGED batch /\ \A g \in Requests \ {h} : pc'[g] = pc[g] /\ at'[g] = at[g]
        BY <2>1 DEF TakeEnd, Leave, TypeOK
      <3> QED BY <1>1, <3>1, <3>2 DEF BatchHeld
    <2>2. CASE TakeCall(h)
      <3>1. Head(outcomes[at[h]]) = outcomes[at[h]][1] /\ 1 \in QueuedCalls(at[h])
        BY <2>2, TakesTurnEffect, TakeElements DEF TakeCall, QueuedCalls
      <3>2. callOwner[Head(outcomes[at[h]]).call] = at[h]
        BY <3>1, TakesTurnEffect DEF QueueOwned
      <3>3. batch'[h] = batch[h] \cup {Head(outcomes[at[h]]).call} /\ pc'[h] = "window"
        BY <2>2 DEF TakeCall, TypeOK
      <3>4. UNCHANGED at /\ \A g \in Requests \ {h} : pc'[g] = pc[g] /\ batch'[g] = batch[g]
        BY <2>2 DEF TakeCall, TypeOK
      <3> QED BY <1>1, <3>2, <3>3, <3>4 DEF BatchHeld
    <2> QED BY <2>1, <2>2 DEF TakesTurn
  <1> QED BY <1>3, <1>4, <1>5, <1>6, <1>7

\* next_turn returns the batch.
AnswersBatch(h) == PutBackEnd(h) \/ WindowCloses(h)

LEMMA AnswersBatchEffect ==
  ASSUME TurnInv, NEW h \in Requests, AnswersBatch(h)
  PROVE  /\ UNCHANGED <<outcomes, pending, result, relay, callOwner>>
         /\ pc[h] = "window" /\ pc'[h] = "idle" /\ batch'[h] = {}
         /\ \A g \in Requests \ {h} : pc'[g] = pc[g] /\ at'[g] = at[g] /\ batch'[g] = batch[g]
         /\ announced' \in {announced, announced \cup batch[h]}
         /\ at[h] \in Sessions
  <1> USE DEF TurnInv
  <1>1. at[h] \in Sessions
    BY DEF AnswersBatch, PutBackEnd, WindowCloses, TypeOK
  <1>2. UNCHANGED outcomes
    BY <1>1, PutBackEndElements DEF AnswersBatch, PutBackEnd, WindowCloses
  <1> QED BY <1>1, <1>2
       DEF AnswersBatch, PutBackEnd, WindowCloses, Answer, Leave, callVars, TypeOK

LEMMA AnswersBatchReaderInv ==
  ASSUME TurnInv, ReaderInv, NEW h \in Requests, AnswersBatch(h)
  PROVE  ReaderInv'
  <1> USE AnswersBatchEffect DEF TurnInv, ReaderInv
  <1>1. \A g \in Requests : Reading(g)' => g # h /\ Reading(g) /\ at'[g] = at[g]
    BY DEF Reading
  <1>2. OneReader'
    BY <1>1 DEF OneReader
  <1>3. ReaderHasAllAnswers'
    <2> SUFFICES ASSUME NEW g \in Requests, Reading(g)',
                        NEW c \in pending'[at'[g]] \cap announced'
                 PROVE  result'[c] # "unset"
      BY DEF ReaderHasAllAnswers
    <2>1. g # h /\ Reading(g) /\ at'[g] = at[g] /\ at[g] \in Sessions /\ c \in pending[at[g]]
      BY <1>1 DEF TypeOK, Reading
    <2>2. at[g] # at[h]
      BY <2>1 DEF OneReader, Reading
    <2>3. c \notin batch[h]
      BY <2>1, <2>2 DEF BatchHeld, IndexInv, IndexesAgree, TypeOK
    <2> QED BY <2>1, <2>3 DEF ReaderHasAllAnswers
  <1>4. BatchHeld' /\ QueueOwned'
    BY DEF BatchHeld, QueueOwned, QueuedCalls
  <1>5. ASSUME NEW c \in batch[h] PROVE relay[c] # "unused"
    <2>1. c \in Calls /\ callOwner[c] \in Sessions
      BY DEF BatchHeld, TypeOK
    <2> QED BY <2>1 DEF IndexInv, IdsFresh, None, Sessions
  <1>6. AnnouncedAccepted'
    BY <1>5 DEF AnnouncedAccepted
  <1> QED BY <1>2, <1>3, <1>4, <1>6

LEMMA NextReaderInv == TurnInv /\ ReaderInv /\ [Next]_vars => ReaderInv'
  <1> SUFFICES ASSUME TurnInv, ReaderInv, [Next]_vars PROVE ReaderInv'
    OBVIOUS
  <1>1. CASE UNCHANGED vars
    BY <1>1 DEF vars, callVars, requestVars, clientVars, ReaderInv, OneReader,
                ReaderHasAllAnswers, BatchHeld, QueueOwned, AnnouncedAccepted, Reading, QueuedCalls
  <1>2. ASSUME NEW h \in Requests, RequestStep(h) PROVE ReaderInv'
    BY <1>2, RequestStepKinds, ClosingStepReaderInv, ReaderMovesReaderInv,
       SubmitStepReaderInv, TakesTurnReaderInv, AnswersBatchReaderInv
       DEF TakesTurn, AnswersBatch
  <1> QED BY <1>1, <1>2, SessionStepReaderInv, CallStepReaderInv DEF Next

\* One request at most waits in next_turn of a session, so the turns of an Agent are
\* never split between two clients.
THEOREM OneReaderAtATime == Spec => []OneReader
  <1>1. TurnInv /\ ReaderInv /\ [Next]_vars => (TurnInv /\ ReaderInv)'
    BY NextTurnInv, NextReaderInv
  <1>2. ReaderInv => OneReader
    BY DEF ReaderInv
  <1> QED BY InitTurnInv, InitReaderInv, <1>1, <1>2, PTL DEF Spec

\* A request reads the next turn only when the calls of the last one are answered.
THEOREM ReadersHaveAllAnswers == Spec => []ReaderHasAllAnswers
  <1>1. TurnInv /\ ReaderInv /\ [Next]_vars => (TurnInv /\ ReaderInv)'
    BY NextTurnInv, NextReaderInv
  <1>2. ReaderInv => ReaderHasAllAnswers
    BY DEF ReaderInv
  <1> QED BY InitTurnInv, InitReaderInv, <1>1, <1>2, PTL DEF Spec

-----------------------------------------------------------------------------
(* Where a call is: queued, held by a reader, or known to a client.        *)

QueuedOnce ==
  \A s \in Sessions : \A i, j \in QueuedCalls(s) :
    outcomes[s][i].call = outcomes[s][j].call => i = j

QueuedOnly ==
  \A s \in Sessions : \A i \in QueuedCalls(s) :
    /\ outcomes[s][i].call \notin announced
    /\ \A h \in Requests : outcomes[s][i].call \notin batch[h]

HeldOnly == \A h \in Requests : \A c \in batch[h] : c \notin announced

PlaceInv == QueuedOnce /\ QueuedOnly /\ HeldOnly

LEMMA InitPlaceInv == Init => PlaceInv
BY DEF Init, PlaceInv, QueuedOnce, QueuedOnly, HeldOnly, QueuedCalls

\* Queued and held calls are accepted ones.
LEMMA PlacedAccepted ==
  ASSUME TurnInv, ReaderInv
  PROVE  /\ \A s \in Sessions : \A i \in QueuedCalls(s) :
              outcomes[s][i].call \in Calls /\ relay[outcomes[s][i].call] # "unused"
         /\ \A h \in Requests : \A c \in batch[h] : c \in Calls /\ relay[c] # "unused"
  <1> USE DEF TurnInv, ReaderInv
  <1>1. \A c \in Calls : callOwner[c] \in Sessions => relay[c] # "unused"
    BY DEF IndexInv, IdsFresh, None, Sessions
  <1>2. ASSUME NEW s \in Sessions, NEW i \in QueuedCalls(s)
        PROVE  outcomes[s][i].call \in Calls /\ relay[outcomes[s][i].call] # "unused"
    <2>1. outcomes[s][i].call \in Calls
      BY TurnsTyped DEF TypeOK, QueuedCalls
    <2> QED BY <1>1, <2>1 DEF QueueOwned
  <1>3. ASSUME NEW h \in Requests, NEW c \in batch[h]
        PROVE  c \in Calls /\ relay[c] # "unused"
    BY <1>1 DEF BatchHeld, TypeOK
  <1> QED BY <1>2, <1>3

LEMMA SessionStepPlaceInv ==
  ASSUME TurnInv, ReaderInv, PlaceInv, NEW s \in Sessions, SessionStep(s)
  PROVE  PlaceInv'
  <1> USE DEF TurnInv, ReaderInv, PlaceInv
  <1>1. UNCHANGED <<batch, announced>>
    BY SessionStepFrame DEF requestVars
  <1>2. QueuedOnce'
    <2> SUFFICES ASSUME NEW t \in Sessions, NEW i \in QueuedCalls(t)', NEW j \in QueuedCalls(t)',
                        outcomes'[t][i].call = outcomes'[t][j].call
                 PROVE  i = j
      BY DEF QueuedOnce
    <2> DEFINE Old(k) == k \in QueuedCalls(t) /\ outcomes'[t][k] = outcomes[t][k]
               New(k) == k = Len(outcomes[s]) + 1 /\ relay[outcomes'[t][k].call] = "unused"
    <2>1. (Old(i) \/ New(i)) /\ (Old(j) \/ New(j))
      BY SessionStepQueued
    <2>2. \A k \in {i, j} : Old(k) => relay[outcomes'[t][k].call] # "unused"
      BY PlacedAccepted
    <2> QED BY <2>1, <2>2 DEF QueuedOnce
  <1>3. QueuedOnly'
    <2> SUFFICES ASSUME NEW t \in Sessions, NEW i \in QueuedCalls(t)'
                 PROVE  /\ outcomes'[t][i].call \notin announced
                        /\ \A h \in Requests : outcomes'[t][i].call \notin batch[h]
      BY <1>1 DEF QueuedOnly
    <2>1. CASE i \in QueuedCalls(t) /\ outcomes'[t][i] = outcomes[t][i]
      BY <2>1 DEF QueuedOnly
    <2>2. CASE relay[outcomes'[t][i].call] = "unused"
      BY <2>2, PlacedAccepted DEF AnnouncedAccepted
    <2> QED BY <2>1, <2>2, SessionStepQueued
  <1>4. HeldOnly'
    BY <1>1 DEF HeldOnly
  <1> QED BY <1>2, <1>3, <1>4

LEMMA KeptPlaceInv ==
  ASSUME PlaceInv, UNCHANGED <<outcomes, announced>>,
         \A h \in Requests : batch'[h] \subseteq batch[h]
  PROVE  PlaceInv'
BY DEF PlaceInv, QueuedOnce, QueuedOnly, HeldOnly, QueuedCalls

LEMMA TakesTurnPlaceInv ==
  ASSUME TurnInv, ReaderInv, PlaceInv, NEW h \in Requests, TakesTurn(h)
  PROVE  PlaceInv'
  <1> USE DEF TurnInv, ReaderInv, PlaceInv
  <1>1. UNCHANGED announced
    BY DEF TakesTurn, TakeEnd, TakeCall, clientVars
  <1> PICK s \in Sessions : s = at[h]
    BY TakesTurnEffect
  <1>2. \/ UNCHANGED batch
        \/ /\ 1 \in QueuedCalls(s)
           /\ batch' = [batch EXCEPT ![h] = @ \cup {outcomes[s][1].call}]
    <2>1. outcomes[s] # <<>> /\ Head(outcomes[s]) = outcomes[s][1] /\ 1 \in DOMAIN outcomes[s]
      BY TakesTurnEffect, TakeElements
    <2> QED BY <2>1 DEF TakesTurn, TakeEnd, TakeCall, QueuedCalls
  <1>3. ASSUME NEW g \in Requests, NEW c \in batch'[g]
        PROVE  c \in batch[g] \/ (1 \in QueuedCalls(s) /\ c = outcomes[s][1].call)
    <2>1. batch \in [Requests -> SUBSET Calls]
      BY DEF TypeOK
    <2> QED BY <1>2, <1>3, <2>1
  <1>4. QueuedOnce'
    <2> SUFFICES ASSUME NEW t \in Sessions, NEW i \in QueuedCalls(t)', NEW j \in QueuedCalls(t)',
                        outcomes'[t][i].call = outcomes'[t][j].call
                 PROVE  i = j
      BY DEF QueuedOnce
    <2>1. CASE t = at[h]
      <3>1. /\ i \in Nat /\ i + 1 \in QueuedCalls(t) /\ outcomes'[t][i] = outcomes[t][i + 1]
            /\ j \in Nat /\ j + 1 \in QueuedCalls(t) /\ outcomes'[t][j] = outcomes[t][j + 1]
        BY <2>1, TakesTurnQueued
      <3>2. i + 1 = j + 1
        BY <3>1 DEF QueuedOnce
      <3> QED BY <3>1, <3>2
    <2>2. CASE t # at[h]
      BY <2>2, TakesTurnQueued DEF QueuedOnce
    <2> QED BY <2>1, <2>2
  <1>5. QueuedOnly'
    <2> SUFFICES ASSUME NEW t \in Sessions, NEW i \in QueuedCalls(t)'
                 PROVE  /\ outcomes'[t][i].call \notin announced
                        /\ \A g \in Requests : outcomes'[t][i].call \notin batch'[g]
      BY <1>1 DEF QueuedOnly
    <2>1. PICK j \in QueuedCalls(t) : outcomes'[t][i] = outcomes[t][j] /\ (t = s => j # 1)
      BY TakesTurnQueued
    <2>2. /\ outcomes[t][j].call \notin announced
          /\ \A g \in Requests : outcomes[t][j].call \notin batch[g]
      BY DEF QueuedOnly
    <2>3. 1 \in QueuedCalls(s) => outcomes[t][j].call # outcomes[s][1].call
      <3>1. CASE t = s
        <4>1. QueuedOnce
          OBVIOUS
        <4> QED BY <2>1, <3>1, <4>1 DEF QueuedOnce
      <3>2. CASE t # s
        <4>1. QueueOwned
          OBVIOUS
        <4> QED BY <3>2, <4>1 DEF QueueOwned
      <3> QED BY <3>1, <3>2
    <2>4. ASSUME NEW g \in Requests PROVE outcomes'[t][i].call \notin batch'[g]
      BY <1>3, <2>1, <2>2, <2>3
    <2> QED BY <2>1, <2>2, <2>4
  <1>6. HeldOnly'
    <2>1. 1 \in QueuedCalls(s) => outcomes[s][1].call \notin announced
      BY DEF QueuedOnly
    <2> QED BY <1>1, <1>3, <2>1 DEF HeldOnly
  <1> QED BY <1>4, <1>5, <1>6

LEMMA AnswersBatchPlaceInv ==
  ASSUME TurnInv, ReaderInv, PlaceInv, NEW h \in Requests, AnswersBatch(h)
  PROVE  PlaceInv'
  <1> USE AnswersBatchEffect DEF TurnInv, ReaderInv, PlaceInv
  <1>1. QueuedOnce'
    BY DEF QueuedOnce, QueuedCalls
  <1>2. QueuedOnly'
    BY DEF QueuedOnly, QueuedCalls
  <1>3. HeldOnly'
    <2>1. \A g \in Requests \ {h} : \A c \in batch[g] : c \notin batch[h]
      BY DEF BatchHeld, OneReader, Reading
    <2> QED BY <2>1 DEF HeldOnly
  <1> QED BY <1>1, <1>2, <1>3

LEMMA NextPlaceInv == TurnInv /\ ReaderInv /\ PlaceInv /\ [Next]_vars => PlaceInv'
  <1> SUFFICES ASSUME TurnInv, ReaderInv, PlaceInv, [Next]_vars PROVE PlaceInv'
    OBVIOUS
  <1>1. CASE UNCHANGED vars
    BY <1>1, KeptPlaceInv DEF vars, requestVars, clientVars
  <1>2. ASSUME NEW c \in Calls, CallStep(c) PROVE PlaceInv'
    BY <1>2, CallStepFrame, KeptPlaceInv DEF requestVars, clientVars, TurnInv
  <1>3. ASSUME NEW h \in Requests, RequestStep(h) PROVE PlaceInv'
    <2>1. CASE ClosingStep(h)
      <3>1. UNCHANGED <<outcomes, announced>>
        BY <2>1, ClosingStepCloses DEF clientVars, TurnInv
      <3>2. \A g \in Requests : batch'[g] \subseteq batch[g]
        BY <2>1, ClosingStepBatch DEF ReaderInv
      <3> QED BY <3>1, <3>2, KeptPlaceInv
    <2>2. CASE ReaderMoves(h)
      <3>1. UNCHANGED <<outcomes, announced>>
        BY <2>2, ReaderMovesFrame DEF clientVars
      <3>2. \A g \in Requests : batch'[g] \subseteq batch[g]
        BY <2>2 DEF ReaderMoves, StreamReads, ClientGone, TurnInv, TypeOK
      <3> QED BY <3>1, <3>2, KeptPlaceInv
    <2>3. CASE SubmitStep(h)
      BY <2>3, SubmitStepFrame, KeptPlaceInv DEF clientVars, TurnInv
    <2> QED BY <1>3, <2>1, <2>2, <2>3, RequestStepKinds, TakesTurnPlaceInv,
               AnswersBatchPlaceInv DEF TakesTurn, AnswersBatch
  <1> QED BY <1>1, <1>2, <1>3, SessionStepPlaceInv DEF Next

LEMMA AtMostOne ==
  ASSUME NEW S, \A x, y \in S : x = y
  PROVE  Cardinality(S) = IF S = {} THEN 0 ELSE 1
  <1>1. CASE S = {}
    BY <1>1, FS_EmptySet
  <1>2. CASE S # {}
    <2> PICK x : x \in S
      BY <1>2
    <2>1. S = {x}
      OBVIOUS
    <2> QED BY <2>1, FS_Singleton
  <1> QED BY <1>1, <1>2

LEMMA PlacedOnce == TurnInv /\ ReaderInv /\ PlaceInv => CallHandedOutOnce
  <1> SUFFICES ASSUME TurnInv, ReaderInv, PlaceInv, NEW c \in Calls
               PROVE  LET queued == {p \in Sessions \X (1 .. MaxCalls) :
                                       p[2] \in QueuedCalls(p[1]) /\ outcomes[p[1]][p[2]].call = c}
                          held == {h \in Requests : c \in batch[h]}
                          known == {c} \cap announced
                      IN Cardinality(queued) + Cardinality(held) + Cardinality(known) <= 1
    BY DEF CallHandedOutOnce
  <1> USE DEF TurnInv, ReaderInv, PlaceInv
  <1> DEFINE queued == {p \in Sessions \X (1 .. MaxCalls) :
                          p[2] \in QueuedCalls(p[1]) /\ outcomes[p[1]][p[2]].call = c}
             held == {h \in Requests : c \in batch[h]}
             known == {c} \cap announced
  <1>1. \A p, q \in queued : p = q
    <2> SUFFICES ASSUME NEW p \in queued, NEW q \in queued PROVE p = q
      OBVIOUS
    <2>1. p[1] = q[1]
      BY DEF QueueOwned
    <2>2. p[2] = q[2]
      BY <2>1 DEF QueuedOnce
    <2> QED BY <2>1, <2>2
  <1>2. \A g, h \in held : g = h
    BY DEF BatchHeld, OneReader, Reading
  <1>3. \A x, y \in known : x = y
    OBVIOUS
  <1>4. queued # {} => held = {} /\ known = {}
    BY DEF QueuedOnly
  <1>5. held # {} => known = {}
    BY DEF HeldOnly
  <1> HIDE DEF queued, held, known
  <1>6. /\ Cardinality(queued) = IF queued = {} THEN 0 ELSE 1
        /\ Cardinality(held) = IF held = {} THEN 0 ELSE 1
        /\ Cardinality(known) = IF known = {} THEN 0 ELSE 1
    BY <1>1, <1>2, <1>3, AtMostOne
  <1>7. Cardinality(queued) + Cardinality(held) + Cardinality(known) <= 1
    BY <1>4, <1>5, <1>6
  <1> QED BY <1>7 DEF queued, held, known

\* A call reaches at most one client: it waits in one queue, or in the batch of one
\* request, or was told to a client; and it moves on only.
THEOREM CallsAreHandedOutOnce == Spec => []CallHandedOutOnce
  <1>1. TurnInv /\ ReaderInv /\ PlaceInv /\ [Next]_vars => (TurnInv /\ ReaderInv /\ PlaceInv)'
    BY NextTurnInv, NextReaderInv, NextPlaceInv
  <1> QED BY InitTurnInv, InitReaderInv, InitPlaceInv, <1>1, PlacedOnce, PTL DEF Spec

-----------------------------------------------------------------------------
(* The ledger.                                                             *)

\* Only a call in progress is pending, only an accepted one has a result, and only
\* a call its client knows has an output.
FutureInv ==
  /\ \A s \in Sessions : \A c \in pending[s] : relay[c] \in {"waiting", "expired"}
  /\ \A c \in Calls : relay[c] = "unused" => result[c] = "unset"
  /\ \A c \in Calls : result[c] = "output" => c \in announced

LEMMA InitFutureInv == Init => FutureInv
BY DEF Init, FutureInv

\* Futures are failed by a session's end or resolved by an output, while pending.
ResolvesPending ==
  \A c \in Calls :
    \/ result'[c] = result[c]
    \/ /\ result[c] = "unset" /\ \E s \in Sessions : c \in pending[s]
       /\ result'[c] = "error" \/ (result'[c] = "output" /\ c \in announced)

LEMMA ErrorResolvesPending ==
  ASSUME NEW C, \A c \in C : \E s \in Sessions : c \in pending[s], Resolve(C, "error")
  PROVE  ResolvesPending
BY DEF ResolvesPending, Resolve

\* Every step but an accepted call, the end of a call and an answer to a client leaves
\* the relay requests alone.
RelaysKept ==
  /\ UNCHANGED <<relay, callOwner, announced>>
  /\ \A s \in Sessions : pending'[s] \subseteq pending[s]
  /\ ResolvesPending

LEMMA StepKeepsRelays ==
  ASSUME TurnInv, ReaderInv, [Next]_vars
  PROVE  \/ RelaysKept
         \/ \E s \in Sessions, c \in Calls : RelayCall(c, s)
         \/ \E c \in Calls : CallStep(c)
         \/ \E h \in Requests : AnswersBatch(h)
  <1> USE DEF TurnInv, ReaderInv
  <1>1. UNCHANGED result => ResolvesPending
    BY DEF ResolvesPending
  <1>2. ASSUME NEW s \in Sessions, SessionStep(s), \A c \in Calls : ~RelayCall(c, s)
        PROVE  RelaysKept
    <2>1. UNCHANGED <<callOwner, relay, pending, announced>>
      BY <1>2, AgentStepCalls, SessionStepFrame
    <2>2. ResolvesPending
      <3>1. CASE AgentFails(s)
        BY <3>1, ErrorResolvesPending DEF AgentFails
      <3>2. CASE ~AgentFails(s)
        BY <1>1, <1>2, <3>2
           DEF SessionStep, AgentBoots, AgentEvent, AgentCompletes, AgentRetries,
               AgentRejected, RunnerCancelled, TtlElapses, callVars
      <3> QED BY <3>1, <3>2
    <2> QED BY <2>1, <2>2 DEF RelaysKept
  <1>3. ASSUME NEW h \in Requests, ClosingStep(h) PROVE RelaysKept
    <2>1. ClosesSome(Started) /\ UNCHANGED <<relay, callOwner, announced>>
      BY <1>3, ClosingStepCloses DEF clientVars
    <2>2. \A s \in Sessions : pending'[s] \subseteq pending[s]
      BY <2>1, ClosesSomeEffect
    <2>3. PICK D \in SUBSET Started : Resolve(PendingIn(D), "error")
      BY <2>1 DEF ClosesSome, Retire
    <2>4. \A c \in PendingIn(D) : \E s \in Sessions : c \in pending[s]
      BY DEF PendingIn, Started
    <2> QED BY <2>1, <2>2, <2>3, <2>4, ErrorResolvesPending DEF RelaysKept
  <1>4. ASSUME NEW h \in Requests, ReaderMoves(h) PROVE RelaysKept
    BY <1>1, <1>4, ReaderMovesFrame DEF RelaysKept, callVars, clientVars
  <1>5. ASSUME NEW h \in Requests, SubmitStep(h) PROVE RelaysKept
    <2>1. UNCHANGED <<relay, callOwner, announced, pending>>
      BY <1>5, SubmitStepFrame DEF clientVars
    <2>2. PICK s \in sessions, C \in SUBSET Calls : Applying(h, s, C)
      BY <1>5, SubmitResolves
    <2>3. ResolvesPending
      BY <2>2 DEF ResolvesPending, Applying, Resolve, TypeOK
    <2> QED BY <2>1, <2>3 DEF RelaysKept
  <1>6. ASSUME NEW h \in Requests, TakesTurn(h) PROVE RelaysKept
    BY <1>1, <1>6 DEF TakesTurn, TakeEnd, TakeCall, RelaysKept, callVars, clientVars
  <1>7. CASE UNCHANGED vars
    BY <1>1, <1>7 DEF vars, callVars, clientVars, RelaysKept
  <1> QED BY <1>2, <1>3, <1>4, <1>5, <1>6, <1>7, RequestStepKinds
       DEF Next, TakesTurn, AnswersBatch

LEMMA CallStepEnds ==
  ASSUME TypeOK, NEW c \in Calls, CallStep(c)
  PROVE  /\ relay[c] \in {"waiting", "expired"}
         /\ \A d \in Calls \ {c} : relay'[d] = relay[d]
         /\ UNCHANGED <<result, callOwner, announced>>
         /\ \/ relay'[c] \in {"waiting", "expired"} /\ UNCHANGED pending
            \/ /\ relay'[c] \in {"failed", "timedout"}
                    \/ (relay'[c] = "returned" /\ result[c] = "output")
               /\ Forget(c)
  <1>1. UNCHANGED <<result, callOwner, announced>>
    BY CallStepFrame DEF clientVars
  <1>2. CASE TimerFires(c)
    BY <1>1, <1>2 DEF TimerFires, TimerDue, TypeOK
  <1>3. CASE RelayResumes(c)
    BY <1>1, <1>3 DEF RelayResumes, RelayAnswer, TypeOK
  <1>4. CASE RelayAborted(c)
    BY <1>1, <1>4 DEF RelayAborted, TypeOK
  <1> QED BY <1>2, <1>3, <1>4 DEF CallStep

LEMMA NextFutureInv ==
  TurnInv /\ ReaderInv /\ FutureInv /\ [Next]_vars => FutureInv'
  <1> SUFFICES ASSUME TurnInv, ReaderInv, FutureInv, [Next]_vars PROVE FutureInv'
    OBVIOUS
  <1> USE DEF TurnInv, ReaderInv, FutureInv
  <1>1. CASE RelaysKept
    <2>1. \A s \in Sessions : \A c \in pending[s] : c \in Calls
      BY DEF TypeOK
    <2> QED BY <1>1, <2>1 DEF RelaysKept, ResolvesPending
  <1>2. ASSUME NEW s \in Sessions, NEW c \in Calls, RelayCall(c, s) PROVE FutureInv'
    <2>1. UNCHANGED announced
      BY <1>2 DEF RelayCall, clientVars
    <2>2. \A t \in Sessions : \A d \in pending[t] : d \in Calls \ {c}
      BY <1>2, RelayCallCalls, ZenonT(60) DEF TypeOK
    <2> QED BY <1>2, <2>1, <2>2, RelayCallCalls
  <1>3. ASSUME NEW c \in Calls, CallStep(c) PROVE FutureInv'
    <2>1. ASSUME NEW s \in Sessions, NEW d \in pending'[s]
          PROVE  relay'[d] \in {"waiting", "expired"}
      <3>1. d \in pending[s] /\ d \in Calls
        BY <1>3, <2>1, CallStepFrame DEF TypeOK
      <3>2. d # c \/ ~Forget(c)
        BY <2>1, <3>1 DEF Forget, IndexInv, IndexesAgree, TypeOK
      <3> QED BY <1>3, <3>1, <3>2, CallStepEnds
    <2> QED BY <1>3, <2>1, CallStepEnds
  <1>4. ASSUME NEW h \in Requests, AnswersBatch(h) PROVE FutureInv'
    BY <1>4, AnswersBatchEffect
  <1> QED BY <1>1, <1>2, <1>3, <1>4, StepKeepsRelays

-----------------------------------------------------------------------------
(* The bridge implements the ledger.                                       *)

\* What the refinement mapping makes of a call.
Waits(c) == relay[c] \in {"waiting", "expired"}

StageMeaning ==
  \A c \in Calls :
    /\ relay[c] = "unused" => stage[c] = "none"
    /\ relay[c] = "returned" => stage[c] = "returned"
    /\ relay[c] \in {"failed", "timedout"} => stage[c] = "failed"
    /\ Waits(c) /\ result[c] = "output" => stage[c] = "answered"
    /\ Waits(c) /\ result[c] # "output" /\ c \in announced => stage[c] = "announced"
    /\ Waits(c) /\ result[c] # "output" /\ c \notin announced => stage[c] = "issued"

LEMMA StagesMean == StageMeaning /\ StageMeaning'
BY DEF StageMeaning, stage, Waits

\* stage and its next value are determined call by call.
LEMMA StageMoves ==
  ASSUME NEW S, NEW to,
         \A c \in Calls : stage'[c] = IF c \in S THEN to ELSE stage[c]
  PROVE  Ledger!Move(S, to)
BY DEF Ledger!Move, stage

LEMMA StageStutters ==
  ASSUME \A c \in Calls : stage'[c] = stage[c]
  PROVE  UNCHANGED stage
BY DEF stage

\* A call whose relay request, result and publicity do not move stays in its stage.
LEMMA StageKept ==
  ASSUME TypeOK, TypeOK', NEW c \in Calls,
         relay'[c] = relay[c] \/ (Waits(c) /\ Waits(c)'),
         result'[c] = "output" <=> result[c] = "output",
         c \in announced' <=> c \in announced
  PROVE  stage'[c] = stage[c]
BY StagesMean, ZenonT(60) DEF StageMeaning, Waits, TypeOK

LEMMA RelayCallIssues ==
  ASSUME TypeOK, TypeOK', ReaderInv, FutureInv, NEW s \in Sessions, NEW c \in Calls,
         RelayCall(c, s)
  PROVE  Ledger!Issue(c, s)
  <1>1. UNCHANGED <<announced, result>>
    BY RelayCallCalls DEF RelayCall, clientVars
  <1>2. stage[c] = "none"
    BY StagesMean, RelayCallCalls DEF StageMeaning
  <1>3. stage'[c] = "issued"
    <2>1. result[c] = "unset" /\ c \notin announced
      BY RelayCallCalls DEF FutureInv, ReaderInv, AnnouncedAccepted
    <2> QED BY <1>1, <2>1, StagesMean, RelayCallCalls DEF StageMeaning, Waits
  <1>4. \A d \in Calls \ {c} : stage'[d] = stage[d]
    BY <1>1, StageKept, RelayCallCalls
  <1>5. Ledger!Move({c}, "issued")
    BY <1>3, <1>4, StageMoves
  <1>6. callOwner' = [callOwner EXCEPT ![c] = s]
    BY DEF RelayCall
  <1> QED BY <1>2, <1>5, <1>6 DEF Ledger!Issue

LEMMA CallStepEndsOrStutters ==
  ASSUME TypeOK, TypeOK', NEW c \in Calls, CallStep(c)
  PROVE  Ledger!Return(c) \/ Ledger!Fail(c) \/ UNCHANGED <<stage, callOwner>>
  <1>1. UNCHANGED <<result, callOwner, announced>>
    BY CallStepEnds
  <1>2. \A d \in Calls \ {c} : stage'[d] = stage[d]
    BY <1>1, StageKept, CallStepEnds
  <1>3. Waits(c) /\ stage[c] \in {"issued", "announced", "answered"}
    BY StagesMean, CallStepEnds DEF StageMeaning, Waits
  <1>4. CASE relay'[c] \in {"waiting", "expired"}
    <2>1. stage'[c] = stage[c]
      BY <1>1, <1>3, <1>4, StageKept DEF Waits
    <2> QED BY <1>1, <1>2, <2>1, StageStutters
  <1>5. CASE relay'[c] \in {"failed", "timedout"}
    <2>1. stage'[c] = "failed"
      BY <1>5, StagesMean DEF StageMeaning
    <2>2. Ledger!Move({c}, "failed")
      BY <1>2, <2>1, StageMoves
    <2> QED BY <1>1, <1>3, <2>2 DEF Ledger!Fail, Ledger!Open
  <1>6. CASE relay'[c] = "returned" /\ result[c] = "output"
    <2>1. stage'[c] = "returned" /\ stage[c] = "answered"
      BY <1>3, <1>6, StagesMean DEF StageMeaning
    <2>2. Ledger!Move({c}, "returned")
      BY <1>2, <2>1, StageMoves
    <2> QED BY <1>1, <2>1, <2>2 DEF Ledger!Return
  <1> QED BY <1>4, <1>5, <1>6, CallStepEnds

LEMMA AnswersBatchAnnounces ==
  ASSUME TurnInv, TypeOK', ReaderInv, PlaceInv, FutureInv, NEW h \in Requests, AnswersBatch(h)
  PROVE  (\E S \in SUBSET Calls : Ledger!Announce(S)) \/ UNCHANGED <<stage, callOwner>>
  <1> USE DEF TurnInv
  <1>1. UNCHANGED <<result, relay, callOwner>>
    BY AnswersBatchEffect
  <1>2. CASE UNCHANGED announced
    <2>1. \A c \in Calls : stage'[c] = stage[c]
      BY <1>1, <1>2, StageKept
    <2> QED BY <1>1, <2>1, StageStutters
  <1>3. CASE announced' = announced \cup batch[h]
    <2> DEFINE S == {c \in batch[h] : Waits(c)}
    <2>1. S \in SUBSET Calls
      BY DEF TypeOK
    <2>2. \A c \in batch[h] : c \notin announced /\ result[c] # "output"
      BY DEF PlaceInv, HeldOnly, FutureInv, TypeOK
    <2>3. \A c \in S : stage[c] = "issued" /\ stage'[c] = "announced"
      BY <1>1, <1>3, <2>1, <2>2, StagesMean DEF StageMeaning, Waits
    <2>4. ASSUME NEW c \in Calls, c \notin S PROVE stage'[c] = stage[c]
      <3>1. CASE c \notin batch[h]
        BY <1>1, <1>3, <3>1, StageKept
      <3>2. CASE c \in batch[h]
        <4>1. relay[c] \in {"unused", "returned", "failed", "timedout"}
          BY <2>4, <3>2 DEF Waits, TypeOK
        <4>2. relay'[c] = relay[c]
          BY <1>1
        <4> QED BY <4>1, <4>2, StagesMean DEF StageMeaning
      <3> QED BY <3>1, <3>2
    <2> HIDE DEF S
    <2>5. Ledger!Move(S, "announced")
      BY <2>3, <2>4, StageMoves
    <2>6. Ledger!Announce(S)
      BY <1>1, <2>3, <2>5 DEF Ledger!Announce
    <2> QED BY <2>1, <2>6
  <1> QED BY <1>2, <1>3, AnswersBatchEffect

\* Outputs answer calls of one session.
LEMMA SubmitAnswers ==
  ASSUME TurnInv, TypeOK', FutureInv, NEW h \in Requests, SubmitStep(h)
  PROVE  \E S \in SUBSET Calls, s \in Sessions : Ledger!Answer(S, s)
  <1> USE DEF TurnInv
  <1>1. UNCHANGED <<relay, callOwner, announced>>
    BY SubmitStepFrame DEF clientVars
  <1>2. PICK s \in sessions, C \in SUBSET Calls : Applying(h, s, C)
    BY SubmitResolves
  <1>3. s \in Sessions
    BY DEF TypeOK
  <1>4. /\ C \subseteq pending[s] \cap announced
        /\ \A c \in C : result[c] = "unset" /\ result'[c] = "output"
        /\ \A c \in Calls \ C : result'[c] = result[c]
    BY <1>2 DEF Applying, Resolve
  <1>5. \A c \in C : Waits(c) /\ Waits(c)'
    BY <1>1, <1>3, <1>4 DEF FutureInv, Waits
  <1>6. \A c \in C : stage[c] = "announced" /\ stage'[c] = "answered"
    BY <1>4, <1>5, StagesMean DEF StageMeaning
  <1>7. \A c \in C : callOwner[c] = s
    BY <1>3, <1>4 DEF IndexInv, IndexesAgree
  <1>8. \A c \in Calls \ C : stage'[c] = stage[c]
    BY <1>1, <1>4, StageKept
  <1>9. Ledger!Move(C, "answered")
    BY <1>6, <1>8, StageMoves
  <1> QED BY <1>1, <1>3, <1>6, <1>7, <1>9 DEF Ledger!Answer

LEMMA KeptStutters ==
  ASSUME TurnInv, TypeOK', ReaderInv, FutureInv, RelaysKept,
         \A c \in Calls : result'[c] = "output" => result[c] = "output"
  PROVE  UNCHANGED <<stage, callOwner>>
  <1>1. \A c \in Calls : result'[c] = "output" <=> result[c] = "output"
    BY DEF RelaysKept, ResolvesPending
  <1>2. \A c \in Calls : stage'[c] = stage[c]
    BY <1>1, StageKept DEF RelaysKept, TurnInv
  <1> QED BY <1>2, StageStutters DEF RelaysKept

\* Only a client's submission resolves a future with an output.
LEMMA OutputsComeFromClients ==
  ASSUME TurnInv, [Next]_vars, \A h \in Requests : ~SubmitStep(h)
  PROVE  \A c \in Calls : result'[c] = "output" => result[c] = "output"
  <1> USE DEF TurnInv
  <1>1. ASSUME NEW C, Resolve(C, "error")
        PROVE  \A c \in Calls : result'[c] = "output" => result[c] = "output"
    BY <1>1 DEF Resolve
  <1>2. ASSUME NEW s \in Sessions, SessionStep(s)
        PROVE  UNCHANGED result \/ Resolve(pending[s], "error")
    BY <1>2 DEF SessionStep, AgentBoots, AgentEvent, AgentFails, AgentCompletes, AgentRetries,
                AgentRejected, RunnerCancelled, TtlElapses, RelayCall, callVars
  <1>3. ASSUME NEW h \in Requests, ClosingStep(h)
        PROVE  \E C : Resolve(C, "error")
    BY <1>3, ClosingStepCloses DEF ClosesSome, Retire
  <1>4. ASSUME NEW h \in Requests, ReaderMoves(h) \/ TakesTurn(h) \/ AnswersBatch(h)
        PROVE  UNCHANGED result
    BY <1>4, ReaderMovesFrame, AnswersBatchEffect
       DEF TakesTurn, TakeEnd, TakeCall, callVars
  <1>5. ASSUME NEW c \in Calls, CallStep(c) PROVE UNCHANGED result
    BY <1>5, CallStepFrame
  <1>6. CASE UNCHANGED vars
    BY <1>6 DEF vars, callVars
  <1> QED BY <1>1, <1>2, <1>3, <1>4, <1>5, <1>6, RequestStepKinds
       DEF Next, TakesTurn, AnswersBatch

LEMMA NextLedger ==
  TurnInv /\ TypeOK' /\ ReaderInv /\ PlaceInv /\ FutureInv /\ [Next]_vars
    => [Ledger!Next]_(Ledger!ledger)
  <1> SUFFICES ASSUME TurnInv, TypeOK', ReaderInv, PlaceInv, FutureInv, [Next]_vars
               PROVE  Ledger!Next \/ UNCHANGED <<stage, callOwner>>
    BY DEF Ledger!ledger
  <1>1. CASE \E h \in Requests : SubmitStep(h)
    BY <1>1, SubmitAnswers DEF Ledger!Next
  <1>2. CASE \A h \in Requests : ~SubmitStep(h)
    <2>1. CASE RelaysKept
      BY <1>2, <2>1, KeptStutters, OutputsComeFromClients
    <2>2. ASSUME NEW s \in Sessions, NEW c \in Calls, RelayCall(c, s) PROVE Ledger!Next
      BY <2>2, RelayCallIssues DEF Ledger!Next, TurnInv
    <2>3. ASSUME NEW c \in Calls, CallStep(c)
          PROVE  Ledger!Next \/ UNCHANGED <<stage, callOwner>>
      BY <2>3, CallStepEndsOrStutters DEF Ledger!Next, TurnInv
    <2>4. ASSUME NEW h \in Requests, AnswersBatch(h)
          PROVE  Ledger!Next \/ UNCHANGED <<stage, callOwner>>
      BY <2>4, AnswersBatchAnnounces DEF Ledger!Next
    <2> QED BY <2>1, <2>2, <2>3, <2>4, StepKeepsRelays
  <1> QED BY <1>1, <1>2

\* The queues, futures, timers and requests of the bridge keep what the ledger
\* promises of each call: one owner, told once, answered once and by what its client
\* knows, ended once, and returned to the Agent only with an answer.
THEOREM BridgeImplementsLedger == Spec => ImplementsLedger
  <1> DEFINE Inv == TurnInv /\ ReaderInv /\ PlaceInv /\ FutureInv
  <1>1. Init => Inv
    BY InitTurnInv, InitReaderInv, InitPlaceInv, InitFutureInv
  <1>2. Inv /\ [Next]_vars => Inv'
    BY NextTurnInv, NextReaderInv, NextPlaceInv, NextFutureInv
  <1>3. Init => Ledger!Init
    BY DEF Init, Ledger!Init, stage
  <1>4. Inv /\ Inv' /\ [Next]_vars => [Ledger!Next]_(Ledger!ledger)
    BY NextLedger DEF TurnInv
  <1> QED BY <1>1, <1>2, <1>3, <1>4, PTL DEF Spec, ImplementsLedger, Ledger!Spec

=============================================================================
