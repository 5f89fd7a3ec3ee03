------------------------- MODULE CommandChannelProofs -------------------------
(***************************************************************************)
(* Theorems about CommandChannel, for any roster and cast, any number of   *)
(* tries, any size of a duck's memory and any number of restarts.          *)
(***************************************************************************)
EXTENDS CommandChannel, TLAPS

(* What the threads of the master may rely on between them.                   *)
CallMade ==
  /\ calling => kinds # <<>>
  /\ \A d \in Ducks : tries[d] > 0 => kinds # <<>>

(* The history of a duck is what its cache holds, ...                         *)
CacheKnown ==
  \A d \in Ducks :
    /\ DOMAIN cache[d] = DOMAIN recent[d]
    /\ \A i \in DOMAIN cache[d] : recent[d][i] = cache[d][i].id

(* ... and what a cache holds was answered.                                   *)
CacheAcked == \A d \in Ducks : \A i \in DOMAIN cache[d] : cache[d][i] \in acks[d]

(* What a worker has been told of its call, its duck has said.                *)
AnswerTrue ==
  \A d \in Ducks : answer[d] = "ok" => [id |-> Id, ok |-> TRUE] \in acks[d]

(* A show is on while it is frozen, and while it is being paused or resumed.  *)
ShowToPause ==
  /\ frozen => transport # "stopped"
  /\ calling /\ kinds[Id] \in {"pause", "resume"} => transport # "stopped"

(* The whole cast has accepted a play or a seek.                              *)
ShowCalled ==
  \E id \in 1..Id :
    /\ kinds[id] \in {"play", "seek"}
    /\ \A d \in Cast : [id |-> id, ok |-> TRUE] \in acks[d]

(* ShowIsOn, and of a show that the state thread is about to say is on too.   *)
OnOrComes == transport # "stopped" \/ comes

ShowComes == OnOrComes => ShowCalled

Kept ==
  CommandTypeOK /\ CallMade /\ CacheKnown /\ CacheAcked /\ AnswerTrue
    /\ ShowToPause /\ ShowComes

-----------------------------------------------------------------------------
LEMMA LastId ==
  ASSUME CommandTypeOK
  PROVE  /\ Id \in Nat /\ Id <= MaxCalls
         /\ kinds # <<>> => Id \in Ids /\ Id \in DOMAIN kinds /\ kinds[Id] \in AllKinds
<1>1. kinds \in Seq(AllKinds) /\ Len(kinds) <= MaxCalls
  BY DEF CommandTypeOK
<1>2. Id \in Nat /\ DOMAIN kinds = 1..Id /\ (kinds # <<>> => Id # 0)
  BY <1>1 DEF Id
<1>3. MaxCalls \in Nat
  BY CommandAssumption
<1> QED
  BY <1>1, <1>2, <1>3 DEF Id, Ids

(* A memory that is full forgets its oldest entry and no other.               *)
LEMMA Forgetting ==
  ASSUME NEW S, NEW s \in Seq(S), NEW e \in S, Len(s) <= Remembers
  PROVE  /\ Remember(s, e) \in Seq(S)
         /\ Len(Remember(s, e)) <= Remembers
         /\ \A i \in DOMAIN Remember(s, e) :
              Remember(s, e)[i] = e \/ \E j \in DOMAIN s : Remember(s, e)[i] = s[j]
<1>1. Remembers \in Nat \ {0}
  BY CommandAssumption
<1> DEFINE all == Append(s, e)
<1>2. /\ all \in Seq(S) /\ Len(all) = Len(s) + 1 /\ Len(s) \in Nat
      /\ \A i \in 1..Len(s) : all[i] = s[i]
      /\ all[Len(s) + 1] = e
  OBVIOUS
<1>3. CASE Len(all) > Remembers
  <2>1. Remember(s, e) = Tail(all)
    BY <1>3 DEF Remember
  <2>2. /\ Tail(all) \in Seq(S) /\ Len(Tail(all)) = Len(s)
        /\ \A i \in 1..Len(s) : Tail(all)[i] = all[i + 1]
    BY <1>2
  <2>3. \A i \in 1..Len(s) :
          Tail(all)[i] = e \/ \E j \in 1..Len(s) : Tail(all)[i] = s[j]
    <3> SUFFICES ASSUME NEW i \in 1..Len(s)
                 PROVE  Tail(all)[i] = e \/ \E j \in 1..Len(s) : Tail(all)[i] = s[j]
      OBVIOUS
    <3>1. CASE i = Len(s)
      BY <3>1, <2>2, <1>2
    <3>2. CASE i # Len(s)
      <4>1. i + 1 \in 1..Len(s)
        BY <3>2, <1>2
      <4> QED
        BY <4>1, <2>2, <1>2
    <3> QED
      BY <3>1, <3>2
  <2> QED
    BY <2>1, <2>2, <2>3
<1>4. CASE ~(Len(all) > Remembers)
  <2>1. Remember(s, e) = all
    BY <1>4 DEF Remember
  <2> QED
    BY <2>1, <1>1, <1>2, <1>4
<1> QED
  BY <1>3, <1>4

-----------------------------------------------------------------------------
(* Types.                                                                     *)

LEMMA InitTypes == Init => CommandTypeOK
<1> SUFFICES ASSUME Init PROVE CommandTypeOK
  OBVIOUS
<1>1. MaxCalls \in Nat /\ MaxRestarts \in Nat /\ Tries \in Nat /\ Remembers \in Nat
  BY CommandAssumption
<1>2. \A S : <<>> \in Seq(S) /\ Len(<<>>) = 0
  OBVIOUS
<1>3. /\ kinds \in Seq(AllKinds) /\ Len(kinds) <= MaxCalls
      /\ cache \in [Ducks -> Seq(Answers)] /\ recent \in [Ducks -> Seq(Ids)]
      /\ \A d \in Ducks : Len(cache[d]) <= Remembers
  BY <1>1, <1>2 DEF Init
<1>4. tries \in [Ducks -> 0..Tries] /\ last \in [Ducks -> 0..MaxCalls]
  BY <1>1 DEF Init, Idle
<1>5. /\ acks \in [Ducks -> SUBSET Answers] /\ gaveUp \in [Ducks -> SUBSET Ids]
      /\ answer \in [Ducks -> {"none", "ok", "refused"}]
  BY DEF Init
<1>6. restarts \in 0..MaxRestarts
  BY <1>1 DEF Init
<1> QED
  BY <1>3, <1>4, <1>5, <1>6 DEF Init, CommandTypeOK

LEMMA CallTypes ==
  ASSUME CommandTypeOK, Call
  PROVE  CommandTypeOK'
<1>1. PICK kind \in Kinds :
        /\ kinds' = Append(kinds, kind)
        /\ tries' = [d \in Ducks |-> IF d \in Targets(kind) THEN Tries ELSE 0]
  BY DEF Call
<1>2. kind \in AllKinds /\ Tries \in Nat
  BY CommandAssumption
<1>3. kinds' \in Seq(AllKinds) /\ Len(kinds') = Len(kinds) + 1
  BY <1>1, <1>2 DEF CommandTypeOK
<1>4. Len(kinds') <= MaxCalls
  BY <1>3, CommandAssumption, LastId DEF Call, Id
<1>5. tries' \in [Ducks -> 0..Tries]
  BY <1>1, <1>2
<1> QED
  BY <1>3, <1>4, <1>5
  DEF CommandTypeOK, Call, agentVars, history, Answers, Ids

LEMMA MasterTypes ==
  ASSUME CommandTypeOK, CallMade,
         StartTimeComes \/ StateAdvances \/ Return \/ MasterRestarts
  PROVE  CommandTypeOK'
<1>1. CASE StartTimeComes \/ StateAdvances
  BY <1>1 DEF StartTimeComes, StateAdvances, CommandTypeOK, agentVars, history,
     Answers, Ids
<1>2. CASE Return
  <2>1. calling /\ kinds # <<>> /\ kinds[Id] \in AllKinds
    BY <1>2, LastId DEF Return, Conclude, CallMade
  <2>2. Becomes(kinds[Id]) \in {"stopped", "armed", "playing", "paused"}
    BY DEF Becomes, CommandTypeOK
  <2>3. Freezes(kinds[Id]) \in BOOLEAN
    BY DEF Freezes, CommandTypeOK
  <2>4. Accepting \subseteq Ducks
    BY CommandAssumption DEF Accepting, Targets
  <2> QED
    BY <1>2, <2>2, <2>3, <2>4
    DEF Return, Conclude, CommandTypeOK, agentVars, history, Answers, Ids
<1>3. CASE MasterRestarts
  <2>1. Tries \in Nat /\ restarts' \in 0..MaxRestarts
    BY <1>3, CommandAssumption DEF MasterRestarts, CommandTypeOK
  <2>2. gaveUp' \in [Ducks -> SUBSET Ids]
    BY <1>3, LastId DEF MasterRestarts, CommandTypeOK
  <2>3. tries' \in [Ducks -> 0..Tries]
    BY <1>3, <2>1 DEF MasterRestarts, Idle
  <2> QED
    BY <1>3, <2>1, <2>2, <2>3 DEF MasterRestarts, CommandTypeOK, Answers, Ids
<1> QED
  BY <1>1, <1>2, <1>3

LEMMA WorkerTypes ==
  ASSUME CommandTypeOK, CallMade, NEW d \in Ducks, Worker(d)
  PROVE  CommandTypeOK'
<1>1. CASE TimeOut(d)
  <2>1. Tries \in Nat /\ tries' \in [Ducks -> 0..Tries]
    BY <1>1, CommandAssumption DEF TimeOut, CommandTypeOK
  <2>2. Id \in Ids
    BY <1>1, LastId DEF TimeOut, CallMade
  <2>3. gaveUp' \in [Ducks -> SUBSET Ids]
    BY <1>1, <2>2 DEF TimeOut, CommandTypeOK
  <2> QED
    BY <1>1, <2>1, <2>3
    DEF TimeOut, CommandTypeOK, callVars, agentVars, Answers, Ids
<1>2. CASE Answered(d)
  <2>1. Tries \in Nat
    BY CommandAssumption
  <2>2. answer' \in [Ducks -> {"none", "ok", "refused"}]
    BY <1>2 DEF Answered, CommandTypeOK
  <2>3. tries' \in [Ducks -> 0..Tries]
    BY <1>2, <2>1 DEF Answered, CommandTypeOK
  <2> QED
    BY <1>2, <2>2, <2>3
    DEF Answered, CommandTypeOK, callVars, agentVars, history, Answers, Ids
<1> QED
  BY <1>1, <1>2 DEF Worker

LEMMA RepeatChanges ==
  ASSUME CommandTypeOK, CacheAcked, NEW d \in Ducks, Repeat(d)
  PROVE  UNCHANGED vars
<1>1. acks' = acks
  BY DEF Repeat, Remembered, CacheAcked, CommandTypeOK
<1> QED
  BY <1>1 DEF Repeat, vars, agentVars

(* Handling in one line: the answer, and the memory and history after it.     *)
HandleAs(d, a) ==
  /\ a \in Answers /\ a.id \in Sent(d) /\ Remembered(d, a.id) = {}
  /\ cache' = [cache EXCEPT ![d] = Remember(@, a)]
  /\ acks' = [acks EXCEPT ![d] = @ \cup {a}]
  /\ last' = [last EXCEPT ![d] = a.id]
  /\ recent' = [recent EXCEPT ![d] = Remember(@, a.id)]
  /\ UNCHANGED <<masterVars, restarts, gaveUp>>

LEMMA HandleTakes ==
  ASSUME CommandTypeOK, NEW d \in Ducks, Handle(d)
  PROVE  \E a \in Answers : HandleAs(d, a)
<1>1. PICK id \in Sent(d), ok \in BOOLEAN :
        LET a == [id |-> id, ok |-> ok]
            ids == Append(recent[d], id)
        IN  /\ Remembered(d, id) = {}
            /\ kinds[id] = "panic" => ok
            /\ cache' = [cache EXCEPT ![d] = Remember(@, a)]
            /\ acks' = [acks EXCEPT ![d] = @ \cup {a}]
            /\ last' = [last EXCEPT ![d] = id]
            /\ recent' = [recent EXCEPT ![d] =
                            IF Len(ids) > Remembers THEN Tail(ids) ELSE ids]
            /\ UNCHANGED <<masterVars, restarts, gaveUp>>
  BY DEF Handle
<1> DEFINE a == [id |-> id, ok |-> ok]
<1>2. id \in Ids
  <2>1. id \in DOMAIN kinds
    BY DEF Sent
  <2> QED
    BY <2>1, CommandAssumption DEF CommandTypeOK, Ids
<1>3. a \in Answers /\ a.id = id
  BY <1>2 DEF Answers
<1>4. recent' = [recent EXCEPT ![d] = Remember(@, id)]
  BY <1>1 DEF Remember
<1>5. HandleAs(d, a)
  BY <1>1, <1>3, <1>4 DEF HandleAs
<1> QED
  BY <1>3, <1>5

LEMMA AgentTypes ==
  ASSUME CommandTypeOK, CacheKnown, CacheAcked, NEW d \in Ducks, Agent(d)
  PROVE  CommandTypeOK'
<1>1. CASE Repeat(d)
  BY <1>1, RepeatChanges
  DEF vars, masterVars, callVars, agentVars, history, CommandTypeOK, Answers, Ids
<1>2. CASE Handle(d)
  <2>1. PICK a \in Answers : HandleAs(d, a)
    BY <1>2, HandleTakes
  <2>2. cache[d] \in Seq(Answers) /\ Len(cache[d]) <= Remembers /\ recent[d] \in Seq(Ids)
        /\ a.id \in Ids
    BY <2>1 DEF CommandTypeOK, Answers
  <2>3. Remember(cache[d], a) \in Seq(Answers) /\ Len(Remember(cache[d], a)) <= Remembers
    BY <2>2, Forgetting
  <2>4. Remember(recent[d], a.id) \in Seq(Ids)
    <3>1. Append(recent[d], a.id) \in Seq(Ids) /\ Append(recent[d], a.id) # <<>>
      BY <2>2
    <3> QED
      BY <3>1 DEF Remember
  <2>5. \A e \in Ducks : cache'[e] \in Seq(Answers) /\ Len(cache'[e]) <= Remembers
    <3> SUFFICES ASSUME NEW e \in Ducks
                 PROVE  cache'[e] \in Seq(Answers) /\ Len(cache'[e]) <= Remembers
      OBVIOUS
    <3>1. cache'[e] = cache[e] \/ cache'[e] = Remember(cache[d], a)
      BY <2>1 DEF HandleAs
    <3> QED
      BY <3>1, <2>3 DEF CommandTypeOK
  <2>6. cache' \in [Ducks -> Seq(Answers)] /\ recent' \in [Ducks -> Seq(Ids)]
    BY <2>1, <2>3, <2>4 DEF HandleAs, CommandTypeOK
  <2>7. acks' \in [Ducks -> SUBSET Answers] /\ last' \in [Ducks -> 0..MaxCalls]
    BY <2>1, <2>2, CommandAssumption DEF HandleAs, CommandTypeOK, Ids
  <2> QED
    BY <2>1, <2>5, <2>6, <2>7
    DEF HandleAs, CommandTypeOK, masterVars, callVars, Answers, Ids
<1>3. CASE AgentRestarts(d)
  <2>1. \A S : <<>> \in Seq(S) /\ Len(<<>>) = 0
    OBVIOUS
  <2>2. restarts' \in 0..MaxRestarts /\ Remembers \in Nat
    BY <1>3, CommandAssumption DEF AgentRestarts, CommandTypeOK
  <2>3. /\ cache' \in [Ducks -> Seq(Answers)] /\ recent' \in [Ducks -> Seq(Ids)]
        /\ \A e \in Ducks : Len(cache'[e]) <= Remembers
    BY <1>3, <2>1, <2>2 DEF AgentRestarts, CommandTypeOK
  <2> QED
    BY <1>3, <2>2, <2>3
    DEF AgentRestarts, CommandTypeOK, masterVars, callVars, Answers, Ids
<1> QED
  BY <1>1, <1>2, <1>3 DEF Agent

-----------------------------------------------------------------------------
(* What a step of each actor keeps, and the step of the promise it is.        *)

KeptStep == Kept' /\ [Promise!Next]_(Promise!vars)

LEMMA ShowStaysOn ==
  ASSUME CommandTypeOK, ShowComes, OnOrComes' => OnOrComes,
         kinds' = kinds \/ \E kind : kinds' = Append(kinds, kind),
         \A d \in Ducks : acks[d] \subseteq acks'[d]
  PROVE  ShowComes'
<1>1. SUFFICES ASSUME OnOrComes' PROVE ShowCalled'
  BY DEF ShowComes
<1>2. PICK id \in 1..Id :
        /\ kinds[id] \in {"play", "seek"}
        /\ \A d \in Cast : [id |-> id, ok |-> TRUE] \in acks[d]
  BY <1>1 DEF ShowComes, ShowCalled
<1>3. kinds \in Seq(AllKinds) /\ id \in 1..Len(kinds) /\ Len(kinds) \in Nat
  BY DEF CommandTypeOK, Id
<1>4. id \in 1..Len(kinds') /\ kinds'[id] = kinds[id]
  BY <1>3
<1>5. \A d \in Cast : [id |-> id, ok |-> TRUE] \in acks'[d]
  BY <1>2, CommandAssumption
<1> QED
  BY <1>2, <1>4, <1>5 DEF ShowCalled, Id

LEMMA CallKeeps ==
  ASSUME Kept, Call
  PROVE  KeptStep
<1>0. CommandTypeOK /\ CommandTypeOK'
  BY CallTypes DEF Kept
<1>1. PICK kind \in Kinds :
        Allowed(kind) /\ kinds' = Append(kinds, kind)
  BY DEF Call
<1>2. /\ kinds' # <<>> /\ Id' = Id + 1 /\ kinds'[Id'] = kind
      /\ kinds \in Seq(AllKinds)
  <2>1. kind \in AllKinds
    BY CommandAssumption
  <2>2. kinds \in Seq(AllKinds)
    BY <1>0 DEF CommandTypeOK
  <2> QED
    BY <1>1, <2>1, <2>2 DEF Id
<1>3. CallMade' /\ CacheKnown' /\ CacheAcked' /\ AnswerTrue'
  BY <1>2 DEF Call, Kept, CallMade, CacheKnown, CacheAcked, AnswerTrue,
     agentVars, history
<1>4. ShowToPause'
  BY <1>1, <1>2 DEF Call, Kept, ShowToPause, Allowed
<1>5. ShowComes'
  BY <1>0, <1>1, ShowStaysOn DEF OnOrComes, Call, Kept, agentVars
<1>6. Promise!Call
  BY <1>2 DEF Call, Promise!Call, Id, agentVars, history
<1> QED
  BY <1>0, <1>3, <1>4, <1>5, <1>6 DEF KeptStep, Kept, Promise!Next

LEMMA ReturnKeeps ==
  ASSUME Kept, Return
  PROVE  KeptStep
<1>0. CommandTypeOK /\ CommandTypeOK'
  BY MasterTypes DEF Kept
<1>1. /\ calling /\ ~calling' /\ report' = Accepting
      /\ UNCHANGED <<comes, kinds, tries, agentVars, history>>
      /\ transport' = IF AllAccept THEN Becomes(kinds[Id]) ELSE transport
      /\ frozen' = IF AllAccept THEN Freezes(kinds[Id]) ELSE frozen
      /\ answer' = [d \in Ducks |-> "none"]
  BY DEF Return, Conclude
<1>2. kinds # <<>> /\ Id \in DOMAIN kinds /\ Id \in Nat /\ 1 <= Id
  BY <1>0, <1>1, LastId DEF Kept, CallMade, Ids
<1>3. CallMade' /\ CacheKnown' /\ CacheAcked' /\ AnswerTrue'
  BY <1>1, <1>2 DEF Kept, CallMade, CacheKnown, CacheAcked, AnswerTrue,
     agentVars, history
<1>4. ShowToPause'
  BY <1>1 DEF Kept, ShowToPause, Becomes, Freezes
<1>5. ShowComes'
  <2>1. CASE AllAccept /\ kinds[Id] \in {"play", "seek"}
    <3>1. Accepting = Cast
      BY <2>1 DEF AllAccept, Targets
    <3>2. \A d \in Cast : [id |-> Id, ok |-> TRUE] \in acks[d]
      BY <3>1, CommandAssumption DEF Accepting, Kept, AnswerTrue
    <3>3. Id' = Id /\ kinds' = kinds /\ acks' = acks
      BY <1>1 DEF Id, agentVars
    <3>4. Id \in 1..Id'
      BY <1>2, <3>3
    <3>5. kinds'[Id] \in {"play", "seek"} /\ \A d \in Cast : [id |-> Id, ok |-> TRUE] \in acks'[d]
      BY <2>1, <3>2, <3>3
    <3> QED
      BY <3>4, <3>5 DEF ShowComes, ShowCalled
  <2>2. CASE ~(AllAccept /\ kinds[Id] \in {"play", "seek"})
    <3>1. transport' # "stopped" => transport # "stopped"
      BY <1>1, <2>2 DEF Becomes, Kept, ShowToPause
    <3>2. OnOrComes' => OnOrComes
      BY <1>1, <3>1 DEF OnOrComes
    <3> QED
      BY <1>0, <1>1, <3>2, ShowStaysOn DEF Kept, agentVars
  <2> QED
    BY <2>1, <2>2
<1>6. Promise!Return
  <2>1. \A d \in Accepting : d \in Ducks /\ [id |-> Id, ok |-> TRUE] \in acks[d]
    BY CommandAssumption DEF Accepting, Targets, Kept, AnswerTrue
  <2>2. \A d \in Accepting :
          Id \in [e \in Ducks |-> {a.id : a \in {b \in acks[e] : b.ok}}][d]
    BY <2>1
  <2> QED
    BY <1>1, <2>1, <2>2 DEF Promise!Return, Id, agentVars, history
<1> QED
  BY <1>0, <1>3, <1>4, <1>5, <1>6 DEF KeptStep, Kept, Promise!Next

LEMMA MasterKeeps ==
  ASSUME Kept, StartTimeComes \/ StateAdvances \/ MasterRestarts
  PROVE  KeptStep
<1>0. CommandTypeOK /\ CommandTypeOK'
  BY MasterTypes DEF Kept
<1>1. CASE StartTimeComes \/ StateAdvances
  <2>1. /\ OnOrComes /\ (transport' # "stopped" \/ transport' = transport)
        /\ UNCHANGED <<frozen, kinds, calling, report, tries, answer, agentVars, history>>
    BY <1>1 DEF StartTimeComes, StateAdvances, OnOrComes
  <2>2. CallMade' /\ CacheKnown' /\ CacheAcked' /\ AnswerTrue' /\ ShowToPause'
    BY <2>1 DEF Kept, CallMade, CacheKnown, CacheAcked, AnswerTrue, ShowToPause,
       agentVars, history, Id
  <2>3. ShowComes'
    BY <1>0, <2>1, ShowStaysOn DEF Kept, agentVars
  <2>4. UNCHANGED Promise!vars
    BY <2>1 DEF Promise!vars, agentVars, history
  <2> QED
    BY <1>0, <2>2, <2>3, <2>4 DEF KeptStep, Kept
<1>2. CASE MasterRestarts
  <2>1. /\ transport' = "stopped" /\ ~comes' /\ ~frozen' /\ ~calling' /\ report' = {}
        /\ tries' = Idle /\ answer' = [d \in Ducks |-> "none"]
        /\ UNCHANGED <<kinds, acks, cache, last, recent>>
    BY <1>2 DEF MasterRestarts
  <2>2. CallMade' /\ CacheKnown' /\ CacheAcked' /\ AnswerTrue' /\ ShowToPause'
    BY <2>1 DEF Kept, CallMade, CacheKnown, CacheAcked, AnswerTrue, ShowToPause, Idle
  <2>3. ShowComes'
    BY <2>1 DEF ShowComes, OnOrComes
  <2>4. Promise!Abandon
    BY <2>1, <1>2 DEF Promise!Abandon, MasterRestarts
  <2> QED
    BY <1>0, <2>2, <2>3, <2>4 DEF KeptStep, Kept, Promise!Next
<1> QED
  BY <1>1, <1>2

LEMMA WorkerKeeps ==
  ASSUME Kept, NEW d \in Ducks, Worker(d)
  PROVE  KeptStep
<1>0. CommandTypeOK /\ CommandTypeOK'
  BY WorkerTypes DEF Kept
<1>1. UNCHANGED <<callVars, agentVars, last, recent>> /\ tries[d] > 0
  BY DEF Worker, TimeOut, Answered, history
<1>2. CallMade'
  BY <1>0, <1>1 DEF Worker, TimeOut, Answered, Kept, CallMade, callVars, CommandTypeOK
<1>3. CacheKnown' /\ CacheAcked' /\ ShowToPause'
  BY <1>1 DEF Kept, CacheKnown, CacheAcked, ShowToPause, callVars, agentVars, Id
<1>4. AnswerTrue'
  <2>1. CASE TimeOut(d)
    BY <1>1, <2>1 DEF TimeOut, Kept, AnswerTrue, callVars, agentVars, Id
  <2>2. CASE Answered(d)
    <3>1. PICK a \in acks[d] :
            /\ a.id = Id
            /\ answer' = [answer EXCEPT ![d] = IF a.ok THEN "ok" ELSE "refused"]
      BY <2>2 DEF Answered
    <3>2. a.ok => a = [id |-> Id, ok |-> TRUE]
      BY <1>0, <3>1 DEF CommandTypeOK, Answers
    <3>3. \A e \in Ducks : e # d => answer'[e] = answer[e]
      BY <1>0, <3>1 DEF CommandTypeOK
    <3>4. answer'[d] = "ok" => a.ok
      BY <1>0, <3>1 DEF CommandTypeOK
    <3>5. Id' = Id /\ acks' = acks
      BY <1>1 DEF callVars, agentVars, Id
    <3> QED
      BY <3>2, <3>3, <3>4, <3>5 DEF Kept, AnswerTrue
  <2> QED
    BY <2>1, <2>2 DEF Worker
<1>5. ShowComes'
  BY <1>0, <1>1, ShowStaysOn DEF OnOrComes, Kept, callVars, agentVars
<1>6. UNCHANGED Promise!vars
  BY <1>1 DEF Promise!vars, callVars, agentVars
<1> QED
  BY <1>0, <1>2, <1>3, <1>4, <1>5, <1>6 DEF KeptStep, Kept

LEMMA HandleKeeps ==
  ASSUME Kept, NEW d \in Ducks, Handle(d)
  PROVE  KeptStep
<1>0. CommandTypeOK /\ CommandTypeOK'
  BY AgentTypes DEF Kept, Agent
<1>1. PICK a \in Answers : HandleAs(d, a)
  BY <1>0, HandleTakes
<1>2. /\ UNCHANGED <<transport, comes, frozen, kinds, calling, report, tries, answer>>
      /\ \A e \in Ducks : e # d => /\ cache'[e] = cache[e] /\ acks'[e] = acks[e]
                                   /\ recent'[e] = recent[e]
      /\ cache'[d] = Remember(cache[d], a) /\ acks'[d] = acks[d] \cup {a}
      /\ recent'[d] = Remember(recent[d], a.id)
  BY <1>0, <1>1 DEF HandleAs, masterVars, callVars, CommandTypeOK
<1>3. CallMade' /\ ShowToPause'
  BY <1>2 DEF Kept, CallMade, ShowToPause, Id
<1>4. AnswerTrue'
  BY <1>2 DEF Kept, AnswerTrue, Id
<1>5. ShowComes'
  BY <1>0, <1>2, ShowStaysOn DEF OnOrComes, Kept
<1>6. CacheAcked'
  <2>1. cache[d] \in Seq(Answers) /\ Len(cache[d]) <= Remembers
    BY <1>0 DEF CommandTypeOK
  <2>2. \A i \in DOMAIN cache'[d] : cache'[d][i] \in acks'[d]
    <3>1. \A i \in DOMAIN cache'[d] :
            cache'[d][i] = a \/ \E j \in DOMAIN cache[d] : cache'[d][i] = cache[d][j]
      BY <1>2, <2>1, Forgetting
    <3> QED
      BY <1>2, <3>1 DEF Kept, CacheAcked
  <2> QED
    BY <1>2, <2>2 DEF Kept, CacheAcked
<1>7. CacheKnown'
  <2>1. /\ cache[d] \in Seq(Answers) /\ recent[d] \in Seq(Ids) /\ a.id \in Ids
        /\ DOMAIN cache[d] = DOMAIN recent[d]
        /\ \A i \in DOMAIN cache[d] : recent[d][i] = cache[d][i].id
    BY <1>0 DEF CommandTypeOK, Answers, Kept, CacheKnown
  <2>2. Len(cache[d]) = Len(recent[d])
    BY <2>1
  <2> DEFINE answers == Append(cache[d], a)
             ids == Append(recent[d], a.id)
  <2>3. /\ Len(answers) = Len(ids) /\ Len(ids) > 0
        /\ answers \in Seq(Answers) /\ ids \in Seq(Ids)
        /\ \A i \in 1..Len(ids) : ids[i] = answers[i].id
    <3>1. /\ answers \in Seq(Answers) /\ Len(answers) = Len(cache[d]) + 1
          /\ answers[Len(cache[d]) + 1] = a
          /\ \A i \in 1..Len(cache[d]) : answers[i] = cache[d][i]
      BY <2>1
    <3>2. /\ ids \in Seq(Ids) /\ Len(ids) = Len(recent[d]) + 1
          /\ ids[Len(recent[d]) + 1] = a.id
          /\ \A i \in 1..Len(recent[d]) : ids[i] = recent[d][i]
      BY <2>1
    <3>3. /\ Len(cache[d]) \in Nat
          /\ \A i \in 1..Len(cache[d]) : recent[d][i] = cache[d][i].id
      BY <2>1
    <3> QED
      BY <2>2, <3>1, <3>2, <3>3
  <2>4. /\ DOMAIN cache'[d] = DOMAIN recent'[d]
        /\ \A i \in DOMAIN cache'[d] : recent'[d][i] = cache'[d][i].id
    <3> HIDE DEF answers, ids
    <3>1. CASE Len(ids) > Remembers
      <4>1. cache'[d] = Tail(answers) /\ recent'[d] = Tail(ids)
        BY <1>2, <2>3, <3>1 DEF Remember, answers, ids
      <4>2. /\ DOMAIN Tail(answers) = 1..(Len(ids) - 1)
            /\ DOMAIN Tail(ids) = 1..(Len(ids) - 1)
            /\ \A i \in 1..(Len(ids) - 1) :
                 Tail(answers)[i] = answers[i + 1] /\ Tail(ids)[i] = ids[i + 1]
        BY <2>3
      <4> QED
        BY <2>3, <4>1, <4>2
    <3>2. CASE ~(Len(ids) > Remembers)
      <4>1. cache'[d] = answers /\ recent'[d] = ids
        BY <1>2, <2>3, <3>2 DEF Remember, answers, ids
      <4> QED
        BY <2>3, <4>1
    <3> QED
      BY <3>1, <3>2
  <2> QED
    BY <1>2, <2>4 DEF Kept, CacheKnown
<1>8. Promise!CarryOut(d)
  <2>1. a.id \in 1..Len(kinds)
    BY <1>0, <1>1 DEF HandleAs, Sent, CommandTypeOK
  <2>2. a.id \notin Promise!Range(recent[d])
    <3>1. \A i \in DOMAIN cache[d] : cache[d][i].id # a.id
      BY <1>1 DEF HandleAs, Remembered
    <3> QED
      BY <3>1 DEF Promise!Range, Kept, CacheKnown
  <2>3. recent' = [recent EXCEPT ![d] = Promise!Recent(Append(@, a.id))]
    BY <1>1 DEF HandleAs, Remember, Promise!Recent
  <2>4. [e \in Ducks |-> {x.id : x \in {b \in acks'[e] : b.ok}}]
          \in {[e \in Ducks |-> {x.id : x \in {b \in acks[e] : b.ok}}],
               [[e \in Ducks |-> {x.id : x \in {b \in acks[e] : b.ok}}]
                  EXCEPT ![d] = @ \cup {a.id}]}
    <3> DEFINE Accepted(e) == {x.id : x \in {b \in acks[e] : b.ok}}
               AcceptedNext(e) == {x.id : x \in {b \in acks'[e] : b.ok}}
    <3>1. \A e \in Ducks : e # d => AcceptedNext(e) = Accepted(e)
      BY <1>2
    <3>2. AcceptedNext(d) = IF a.ok THEN Accepted(d) \cup {a.id} ELSE Accepted(d)
      BY <1>2
    <3> HIDE DEF Accepted, AcceptedNext
    <3>3. [e \in Ducks |-> AcceptedNext(e)]
            \in {[e \in Ducks |-> Accepted(e)],
                 [[e \in Ducks |-> Accepted(e)] EXCEPT ![d] = @ \cup {a.id}]}
      BY <3>1, <3>2
    <3> QED
      BY <3>3 DEF Accepted, AcceptedNext
  <2> QED
    BY <1>2, <2>1, <2>2, <2>3, <2>4 DEF Promise!CarryOut
<1> QED
  BY <1>0, <1>3, <1>4, <1>5, <1>6, <1>7, <1>8 DEF KeptStep, Kept, Promise!Next

LEMMA RestartKeeps ==
  ASSUME Kept, NEW d \in Ducks, AgentRestarts(d)
  PROVE  KeptStep
<1>0. CommandTypeOK /\ CommandTypeOK'
  BY AgentTypes DEF Kept, Agent
<1>1. /\ UNCHANGED <<masterVars, acks, last, gaveUp>>
      /\ cache' = [cache EXCEPT ![d] = <<>>]
      /\ recent' = [recent EXCEPT ![d] = <<>>]
  BY DEF AgentRestarts
<1>2. CallMade' /\ AnswerTrue' /\ ShowToPause'
  BY <1>1 DEF Kept, CallMade, AnswerTrue, ShowToPause, masterVars, callVars, Id
<1>3. CacheKnown' /\ CacheAcked'
  BY <1>0, <1>1 DEF Kept, CacheKnown, CacheAcked, CommandTypeOK
<1>4. ShowComes'
  BY <1>0, <1>1, ShowStaysOn DEF OnOrComes, Kept, masterVars, callVars
<1>5. Promise!Forget(d)
  BY <1>1 DEF Promise!Forget, masterVars, callVars
<1> QED
  BY <1>0, <1>2, <1>3, <1>4, <1>5 DEF KeptStep, Kept, Promise!Next

LEMMA StutterKeeps ==
  ASSUME Kept, UNCHANGED vars
  PROVE  KeptStep
<1>1. CommandTypeOK'
  BY DEF Kept, CommandTypeOK, vars, masterVars, callVars, agentVars, history, Answers, Ids
<1>2. /\ CallMade' /\ CacheKnown' /\ CacheAcked' /\ AnswerTrue'
      /\ ShowToPause' /\ ShowComes'
  BY DEF Kept, CallMade, CacheKnown, CacheAcked, AnswerTrue, ShowToPause, ShowComes,
     OnOrComes, ShowCalled,
     vars, masterVars, callVars, agentVars, history, Id
<1>3. UNCHANGED Promise!vars
  BY DEF Promise!vars, vars, masterVars, callVars, agentVars, history
<1> QED
  BY <1>1, <1>2, <1>3 DEF KeptStep, Kept

LEMMA StepKeeps ==
  ASSUME Kept, [Next]_vars
  PROVE  KeptStep
<1>1. ASSUME NEW d \in Ducks, Agent(d) PROVE KeptStep
  <2>1. CASE Repeat(d)
    <3>1. UNCHANGED vars
      BY <2>1, RepeatChanges DEF Kept
    <3> QED
      BY <3>1, StutterKeeps
  <2> QED
    BY <1>1, <2>1, HandleKeeps, RestartKeeps DEF Agent
<1> QED
  BY <1>1, CallKeeps, ReturnKeeps, MasterKeeps, WorkerKeeps, StutterKeeps DEF Next

LEMMA InitKeeps == Init => Kept
<1> SUFFICES ASSUME Init PROVE Kept
  OBVIOUS
<1>1. CommandTypeOK
  BY InitTypes
<1>2. CallMade /\ CacheKnown /\ CacheAcked /\ AnswerTrue /\ ShowToPause /\ ShowComes
  BY DEF Init, CallMade, CacheKnown, CacheAcked, AnswerTrue, ShowToPause, ShowComes,
     OnOrComes, Idle
<1> QED
  BY <1>1, <1>2 DEF Kept

-----------------------------------------------------------------------------
(* Every state is kept: the invariant the theorems below rest on.             *)
THEOREM AlwaysKept == Spec => []Kept
<1>1. Kept /\ [Next]_vars => Kept'
  BY StepKeeps DEF KeptStep
<1> QED
  BY <1>1, InitKeeps, PTL DEF Spec

(* Every variable of the master, its workers and the ducks keeps its range.   *)
THEOREM CommandTypes == Spec => []CommandTypeOK
<1>1. Kept => CommandTypeOK
  BY DEF Kept
<1> QED
  BY <1>1, AlwaysKept, PTL

(* The transport is never on without a play or a seek that the whole cast     *)
(* accepted, whatever was lost, doubled or late: send_command and _transport. *)
THEOREM MasterKnowsTheShow == Spec => []ShowIsOn
<1>1. Kept => ShowIsOn
  BY DEF Kept, ShowComes, OnOrComes, ShowCalled, ShowIsOn
<1> QED
  BY <1>1, AlwaysKept, PTL

(* Retries, copies, a cache that forgets and restarts implement the promise:  *)
(* no duck carries out again what it remembers, and what a call reports as    *)
(* accepted was carried out (_on_cmd, _send_and_wait).                        *)
THEOREM KeepsThePromise == Spec => PromiseSpec
<1>1. Init => Promise!Init
  BY DEF Init, Promise!Init
<1>2. Kept /\ [Next]_vars => [Promise!Next]_(Promise!vars)
  BY StepKeeps DEF KeptStep
<1> QED
  BY <1>1, <1>2, AlwaysKept, PTL DEF Spec, PromiseSpec, Promise!Spec

-----------------------------------------------------------------------------
(* The order of commands.  A worker that still tries works for the last call; *)
(* of every other command a duck has answered a copy, or been given up.       *)
Settled(d, id) == id \in gaveUp[d] \/ \E a \in acks[d] : a.id = id

InStep ==
  \A d \in Ducks :
    /\ tries[d] > 0 => calling
    /\ last[d] <= Id
    /\ \A id \in Sent(d) : (id = Id /\ tries[d] > 0) \/ Settled(d, id)

LEMMA CallInStep ==
  ASSUME Kept, InStep, Call
  PROVE  InStep'
<1>1. PICK kind \in Kinds :
        /\ kinds' = Append(kinds, kind)
        /\ tries' = [d \in Ducks |-> IF d \in Targets(kind) THEN Tries ELSE 0]
  BY DEF Call
<1>2. calling' /\ ~calling /\ UNCHANGED <<acks, gaveUp, last>>
  BY DEF Call, Kept, CommandTypeOK, agentVars, history
<1>3. kind \in AllKinds /\ Tries \in Nat /\ Tries > 0
  BY CommandAssumption
<1>4. kinds \in Seq(AllKinds) /\ Id \in Nat /\ DOMAIN kinds = 1..Id
  BY DEF Kept, CommandTypeOK, Id
<1>5. /\ Id' = Id + 1 /\ DOMAIN kinds' = 1..(Id + 1)
      /\ kinds'[Id + 1] = kind /\ \A i \in 1..Id : kinds'[i] = kinds[i]
  BY <1>1, <1>3, <1>4 DEF Id
<1> SUFFICES ASSUME NEW d \in Ducks
             PROVE  /\ tries'[d] > 0 => calling'
                    /\ last'[d] <= Id'
                    /\ \A id \in Sent(d)' : (id = Id' /\ tries'[d] > 0) \/ Settled(d, id)'
  BY DEF InStep
<1>6. last'[d] <= Id'
  <2>1. last[d] \in Nat /\ last[d] <= Id
    BY CommandAssumption DEF Kept, CommandTypeOK, InStep
  <2> QED
    BY <2>1, <1>2, <1>4, <1>5
<1>7. ASSUME NEW id \in Sent(d)' PROVE (id = Id' /\ tries'[d] > 0) \/ Settled(d, id)'
  <2>1. id \in 1..(Id + 1) /\ d \in Targets(kinds'[id])
    BY <1>5 DEF Sent
  <2>2. CASE id = Id + 1
    BY <1>1, <1>3, <1>5, <2>1, <2>2
  <2>3. CASE id # Id + 1
    <3>1. id \in Sent(d)
      BY <1>4, <1>5, <2>1, <2>3 DEF Sent
    <3>2. Settled(d, id)
      BY <1>2, <3>1 DEF InStep
    <3> QED
      BY <1>2, <3>2 DEF Settled
  <2> QED
    BY <2>2, <2>3
<1> QED
  BY <1>2, <1>6, <1>7

LEMMA OthersInStep ==
  ASSUME Kept, InStep,
         \/ StartTimeComes \/ StateAdvances \/ Return \/ MasterRestarts
         \/ \E d \in Ducks : Worker(d)
  PROVE  InStep'
<1>1. UNCHANGED <<kinds, acks, last>>
  BY DEF StartTimeComes, StateAdvances, Return, Conclude, MasterRestarts, Worker, TimeOut, Answered,
     callVars, agentVars, history
<1>2. Id' = Id /\ \A d \in Ducks : Sent(d)' = Sent(d)
  BY <1>1 DEF Id, Sent
<1>3. CASE StartTimeComes \/ StateAdvances
  BY <1>1, <1>2, <1>3 DEF StartTimeComes, StateAdvances, history, InStep, Settled
<1>4. CASE Return
  <2>1. \A d \in Ducks : tries[d] = 0 /\ tries' = tries /\ gaveUp' = gaveUp
    BY <1>4 DEF Return, Conclude, history
  <2> QED
    BY <1>1, <1>2, <2>1 DEF InStep, Settled
<1>5. CASE MasterRestarts
  <2>1. \A d \in Ducks : /\ tries'[d] = 0
                         /\ gaveUp[d] \subseteq gaveUp'[d]
                         /\ tries[d] > 0 => Id \in gaveUp'[d]
    BY <1>5 DEF MasterRestarts, Idle
  <2> QED
    BY <1>1, <1>2, <2>1 DEF InStep, Settled
<1>6. ASSUME NEW d \in Ducks, TimeOut(d) PROVE InStep'
  <2>1. /\ calling' = calling
        /\ tries' = [tries EXCEPT ![d] = @ - 1]
        /\ gaveUp' = IF tries[d] > 1 THEN gaveUp
                     ELSE [gaveUp EXCEPT ![d] = @ \cup {Id}]
    BY <1>6 DEF TimeOut, callVars
  <2>2. tries[d] \in Nat /\ tries[d] > 0
    BY <1>6, CommandAssumption DEF TimeOut, Kept, CommandTypeOK
  <2>3. \A e \in Ducks : /\ gaveUp[e] \subseteq gaveUp'[e]
                         /\ tries'[e] > 0 => tries[e] > 0
                         /\ tries[e] > 0 => tries'[e] > 0 \/ Id \in gaveUp'[e]
    BY <2>1, <2>2 DEF Kept, CommandTypeOK
  <2> QED
    BY <1>1, <1>2, <2>1, <2>3 DEF InStep, Settled
<1>7. ASSUME NEW d \in Ducks, Answered(d) PROVE InStep'
  <2>1. /\ UNCHANGED <<calling, gaveUp>> /\ tries' = [tries EXCEPT ![d] = 0]
        /\ \E a \in acks[d] : a.id = Id
    BY <1>7 DEF Answered, callVars, history
  <2> QED
    BY <1>1, <1>2, <2>1 DEF InStep, Settled, Kept, CommandTypeOK
<1> QED
  BY <1>3, <1>4, <1>5, <1>6, <1>7 DEF Worker

LEMMA HandleInStep ==
  ASSUME Kept, InStep, NEW d \in Ducks, Handle(d)
  PROVE  /\ InStep'
         /\ \A e \in Ducks : last'[e] < last[e] => Settled(e, last'[e])
<1>1. PICK a \in Answers : HandleAs(d, a)
  BY HandleTakes DEF Kept
<1>2. /\ UNCHANGED <<kinds, tries, calling, gaveUp>> /\ a.id \in Sent(d)
      /\ \A e \in Ducks : acks[e] \subseteq acks'[e]
      /\ last'[d] = a.id /\ \A e \in Ducks : e # d => last'[e] = last[e]
  BY <1>1 DEF HandleAs, masterVars, callVars, Kept, CommandTypeOK
<1>3. Id' = Id /\ (\A e \in Ducks : Sent(e)' = Sent(e)) /\ Id \in Nat
  BY <1>2, LastId DEF Id, Sent, Kept
<1>4. a.id \in 1..Id
  BY <1>2 DEF Sent, Id, Kept, CommandTypeOK
<1>5. InStep'
  BY <1>2, <1>3, <1>4 DEF InStep, Settled
<1>6. \A e \in Ducks : last[e] \in Nat /\ last[e] <= Id
  BY CommandAssumption DEF Kept, CommandTypeOK, InStep
<1>7. \A e \in Ducks : last'[e] < last[e] => Settled(e, last'[e])
  BY <1>2, <1>3, <1>4, <1>6 DEF InStep
<1> QED
  BY <1>5, <1>7

LEMMA StepInStep ==
  ASSUME Kept, InStep, [Next]_vars
  PROVE  /\ InStep'
         /\ \A e \in Ducks : last'[e] < last[e] => Settled(e, last'[e])
<1>0. \A e \in Ducks : last[e] \in Nat
  BY CommandAssumption DEF Kept, CommandTypeOK
<1>1. CASE \E d \in Ducks : Handle(d)
  BY <1>1, HandleInStep
<1>2. CASE \/ Call \/ StartTimeComes \/ StateAdvances \/ Return \/ MasterRestarts
         \/ \E d \in Ducks : Worker(d)
  <2>1. last' = last
    BY <1>2 DEF Call, StartTimeComes, StateAdvances, Return, Conclude, MasterRestarts, Worker,
       TimeOut, Answered, history
  <2> QED
    BY <1>0, <1>2, <2>1, CallInStep, OthersInStep
<1>3. CASE \E d \in Ducks : AgentRestarts(d)
  <2>1. UNCHANGED <<kinds, calling, tries, acks, gaveUp, last>>
    BY <1>3 DEF AgentRestarts, masterVars, callVars
  <2> QED
    BY <1>0, <2>1 DEF InStep, Settled, Id, Sent
<1>4. CASE UNCHANGED vars
  <2>1. UNCHANGED <<kinds, calling, tries, acks, gaveUp, last>>
    BY <1>4 DEF vars, masterVars, callVars, agentVars, history
  <2> QED
    BY <1>0, <2>1 DEF InStep, Settled, Id, Sent
<1>5. CASE \E d \in Ducks : Repeat(d)
  <2>1. UNCHANGED vars
    BY <1>5, RepeatChanges DEF Kept
  <2> QED
    BY <1>4, <2>1
<1> QED
  BY <1>1, <1>2, <1>3, <1>4, <1>5 DEF Next, Agent

(* No duck carries out an older command after a newer one unless the master   *)
(* gave the older one up, however many ducks, tries and restarts.             *)
THEOREM CommandsInOrder == Spec => InOrder
<1>1. Init => InStep
  <2> SUFFICES ASSUME Init PROVE InStep
    OBVIOUS
  <2>1. DOMAIN kinds = {} /\ Id = 0
    BY DEF Init, Id
  <2>2. \A d \in Ducks : tries[d] = 0 /\ last[d] = 0 /\ Sent(d) = {}
    <3> SUFFICES ASSUME NEW d \in Ducks PROVE tries[d] = 0 /\ last[d] = 0 /\ Sent(d) = {}
      OBVIOUS
    <3>1. tries[d] = 0 /\ last[d] = 0
      BY DEF Init, Idle
    <3>2. Sent(d) = {}
      BY <2>1 DEF Sent
    <3> QED
      BY <3>1, <3>2
  <2>3. 0 <= Id /\ ~(0 > 0)
    BY <2>1
  <2> QED
    BY <2>2, <2>3 DEF InStep
<1>2. Kept /\ InStep /\ [Next]_vars => InStep'
  BY StepInStep
<1>3. Kept /\ InStep /\ [Next]_vars =>
        [\A d \in Ducks :
           last'[d] < last[d]
             => \/ last'[d] \in gaveUp[d]
                \/ \E a \in acks[d] : a.id = last'[d]]_vars
  BY StepInStep DEF Settled
<1> QED
  BY <1>1, <1>2, <1>3, AlwaysKept, PTL DEF Spec, InOrder

=============================================================================
