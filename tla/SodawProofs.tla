----------------------------- MODULE SodawProofs -----------------------------
(***************************************************************************)
(* Proofs about Sodaw: its types, what is in its channels, and that no     *)
(* registration of a read outlives its READ_COMPLETE as long as no request *)
(* is lost, for any number of clients, servers, operations, restarts and   *)
(* killed processes.  The effects of each action are stated here once, for *)
(* this module and the one that extends it.                                *)
(***************************************************************************)
EXTENDS SodawInvariant, StoreLemmas, SequenceTheorems

-----------------------------------------------------------------------------
(* What the pieces of the actions do *)

LEMMA DataTypes ==
  /\ InitialTag \in Tag /\ ZeroTag \in Tag /\ Tag \subseteq AnyTag /\ LowestTag \in AnyTag
  /\ \A t \in AnyTag : TagOnly(t) \in TagValue /\ TagOnly(t).Tag_var = t
  /\ \A tv \in TagValue : tv.Tag_var \in AnyTag /\ tv.Value \in Values \cup {NoValue, Garbage}
                          /\ tv.CodeIndex \in Servers
                          /\ [tv EXCEPT !.Value = NoValue] \in TagValue
  /\ Clients = Readers \cup Writers
  /\ {SODAW_GET_TAG, SODAW_GET_DATA, SODAW_PUT_DATA, SODAW_READ_COMPLETE,
      SODAW_FAST_GET_TAG_DATA} = Phases
  /\ majority \in Nat /\ K \in Nat /\ majority <= K
<1>1. Cardinality(Servers) \in Nat
  BY ServersAssumption, FS_CardinalityType
<1>2. majority \in Nat /\ K \in Nat /\ majority <= K
  BY <1>1, KAssumption DEF majority
<1>3. InitialTag \in Tag /\ ZeroTag \in Tag /\ Tag \subseteq AnyTag /\ LowestTag \in AnyTag
  BY DEF InitialTag, ZeroTag, Tag, AnyTag
<1>4. \A t \in AnyTag : TagOnly(t) \in TagValue /\ TagOnly(t).Tag_var = t
  BY ServersAssumption DEF TagOnly, TagValue
<1> QED
  BY <1>2, <1>3, <1>4 DEF TagValue, Clients, Phases

\* A send appends a message to the current channels to all servers but those it
\* is lost to, and leaves every other channel as it is.
LEMMA SendEffect ==
  ASSUME TypeOK, NEW c \in Clients, NEW opnum \in Nat, NEW phase \in Phases,
         NEW payload \in [Servers -> TagValue], SendToServers(c, opnum, phase, payload)
  PROVE  /\ requests' \in [Clients -> [Incarnations -> [Servers -> Seq(Message)]]]
         /\ drops' \in 0..MaxDrops
         /\ \A s \in Servers :
              [Opnum |-> opnum, Phase |-> phase, TagValue_var |-> payload[s]] \in Message
         /\ \A d \in Clients, i \in Incarnations, s \in Servers :
              \/ /\ requests'[d][i][s] = requests[d][i][s]
                 /\ NothingLost => ~ (d = c /\ i = incarnation[c])
              \/ /\ d = c /\ i = incarnation[c]
                 /\ requests'[d][i][s] = Append(requests[d][i][s],
                      [Opnum |-> opnum, Phase |-> phase, TagValue_var |-> payload[s]])
<1> DEFINE m(s) == [Opnum |-> opnum, Phase |-> phase, TagValue_var |-> payload[s]]
<1>0. \A s \in Servers : m(s) \in Message
  BY DEF Message
<1>1. PICK lost \in SUBSET Servers :
        /\ drops + Cardinality(lost) <= MaxDrops
        /\ drops' = drops + Cardinality(lost)
        /\ requests' = [requests EXCEPT ![c][incarnation[c]] =
             [s \in Servers |-> IF s \in lost THEN requests[c][incarnation[c]][s]
                                ELSE Append(requests[c][incarnation[c]][s], m(s))]]
  BY DEF SendToServers
<1> HIDE DEF m
<1>2. incarnation[c] \in Incarnations
  BY DEF TypeOK
<1>3. requests \in [Clients -> [Incarnations -> [Servers -> Seq(Message)]]]
  BY DEF TypeOK
<1>4. \A i \in Incarnations, s \in Servers : Append(requests[c][i][s], m(s)) \in Seq(Message)
  BY <1>0, <1>3
<1> DEFINE row == [s \in Servers |-> IF s \in lost THEN requests[c][incarnation[c]][s]
                                     ELSE Append(requests[c][incarnation[c]][s], m(s))]
<1>5. row \in [Servers -> Seq(Message)]
  BY <1>2, <1>3, <1>4
<1>6. requests' = [requests EXCEPT ![c][incarnation[c]] = row]
  BY <1>1
<1>7. /\ requests' \in [Clients -> [Incarnations -> [Servers -> Seq(Message)]]]
      /\ \A d \in Clients, i \in Incarnations :
           requests'[d][i] = IF d = c /\ i = incarnation[c] THEN row ELSE requests[d][i]
  <2> HIDE DEF row
  <2> QED
    BY <1>2, <1>3, <1>5, <1>6
<1>8. IsFiniteSet(lost) /\ Cardinality(lost) \in Nat /\ (Cardinality(lost) = 0 => lost = {})
  BY ServersAssumption, FS_Subset, FS_CardinalityType, FS_EmptySet
<1>9. drops' \in 0..MaxDrops /\ (NothingLost => lost = {})
  BY <1>1, <1>8, BoundsAssumption DEF TypeOK, NothingLost
<1>10. ASSUME NEW d \in Clients, NEW i \in Incarnations, NEW s \in Servers
       PROVE  \/ /\ requests'[d][i][s] = requests[d][i][s]
                 /\ NothingLost => ~ (d = c /\ i = incarnation[c])
              \/ /\ d = c /\ i = incarnation[c]
                 /\ requests'[d][i][s] = Append(requests[d][i][s], m(s))
  <2>1. CASE d = c /\ i = incarnation[c]
    <3>1. requests'[d][i][s] = row[s]
      BY <1>7, <2>1
    <3> QED
      BY <1>9, <2>1, <3>1
  <2>2. CASE ~ (d = c /\ i = incarnation[c])
    BY <1>7, <2>2
  <2> QED
    BY <2>1, <2>2
<1> QED
  BY <1>0, <1>7, <1>9, <1>10 DEF m

\* What is left in a channel that loses its last message.
LEMMA FrontMessages ==
  ASSUME NEW T, NEW q \in Seq(T), q # <<>>
  PROVE  /\ Front(q) \in Seq(T) /\ Len(Front(q)) = Len(q) - 1
         /\ \A k \in 1..Len(Front(q)) : Front(q)[k] = q[k] /\ k \in 1..Len(q)
         /\ Messages(Front(q)) \subseteq Messages(q)
         /\ \A S : AtMostOne(q, S) => AtMostOne(Front(q), S)
<1>1. Len(q) \in Nat /\ Len(q) >= 1
  OBVIOUS
<1>2. /\ Front(q) \in Seq(T) /\ Len(Front(q)) = Len(q) - 1
      /\ \A k \in 1..Len(Front(q)) : Front(q)[k] = q[k] /\ k \in 1..Len(q)
  <2>1. Front(q) = SubSeq(q, 1, Len(q) - 1)
    BY DEF Front
  <2>2. SubSeq(q, 1, Len(q) - 1) \in Seq(T) /\ Len(SubSeq(q, 1, Len(q) - 1)) = Len(q) - 1
    <3>1. \A k \in 1..(Len(q) - 1) : q[k] \in T
      BY <1>1
    <3> DEFINE n == Len(q) - 1
    <3>2. n \in Int /\ n >= 0 /\ 1 \in Int
      BY <1>1
    <3>3. \A k \in 1..n : q[k] \in T
      BY <3>1
    <3> HIDE DEF n
    <3>4. /\ SubSeq(q, 1, n) \in Seq(T)
          /\ Len(SubSeq(q, 1, n)) = IF 1 <= n THEN n - 1 + 1 ELSE 0
      BY <3>2, <3>3, SubSeqProperties
    <3>5. Len(SubSeq(q, 1, n)) = n
      BY <3>2, <3>4
    <3> QED
      BY <3>4, <3>5 DEF n
  <2>3. \A k \in 1..(Len(q) - 1) : SubSeq(q, 1, Len(q) - 1)[k] = q[k]
    BY <1>1, SubSeqProperties
  <2> QED
    BY <1>1, <2>1, <2>2, <2>3
<1>3. Messages(Front(q)) \subseteq Messages(q)
  BY <1>2 DEF Messages
<1>4. \A S : AtMostOne(q, S) => AtMostOne(Front(q), S)
  BY <1>2 DEF AtMostOne
<1> QED
  BY <1>2, <1>3, <1>4

\* A server takes one message from one channel.
LEMMA TakeEffect ==
  ASSUME TypeOK, NEW s \in Servers, NEW c \in Clients, NEW i \in Incarnations,
         ServerStep(s, c, i)
  PROVE  /\ requests' \in [Clients -> [Incarnations -> [Servers -> Seq(Message)]]]
         /\ requests[c][i][s] \in Seq(Message) /\ requests[c][i][s] # <<>>
         /\ Head(requests[c][i][s]) \in Message
         /\ requests'[c][i][s] = Tail(requests[c][i][s])
         /\ \A d \in Clients, j \in Incarnations, t \in Servers :
              ~ (d = c /\ j = i /\ t = s) => requests'[d][j][t] = requests[d][j][t]
<1>1. requests[c][i][s] \in Seq(Message) /\ requests[c][i][s] # <<>>
      /\ requests' = [requests EXCEPT ![c][i][s] = Tail(requests[c][i][s])]
  BY DEF ServerStep, TypeOK
<1>2. Tail(requests[c][i][s]) \in Seq(Message) /\ Head(requests[c][i][s]) \in Message
  BY <1>1, ReceiveMessages
<1> QED
  BY <1>1, <1>2 DEF TypeOK

\* A killed client loses at most the last message of each of its current channels.
LEMMA KillEffect ==
  ASSUME TypeOK, NEW c \in Clients, KillClient(c)
  PROVE  /\ requests' \in [Clients -> [Incarnations -> [Servers -> Seq(Message)]]]
         /\ \A d \in Clients, i \in Incarnations, s \in Servers :
              \/ requests'[d][i][s] = requests[d][i][s]
              \/ /\ d = c /\ i = incarnation[c] /\ requests[d][i][s] # <<>>
                 /\ requests[d][i][s] \in Seq(Message)
                 /\ requests'[d][i][s] = Front(requests[d][i][s])
<1>1. PICK lost \in SUBSET Servers :
        requests' = [requests EXCEPT ![c][incarnation[c]] =
          [s \in Servers |-> IF s \in lost /\ requests[c][incarnation[c]][s] # <<>>
                               THEN Front(requests[c][incarnation[c]][s])
                               ELSE requests[c][incarnation[c]][s]]]
  BY DEF KillClient
<1>2. incarnation[c] \in Incarnations
  BY DEF TypeOK
<1>3. requests \in [Clients -> [Incarnations -> [Servers -> Seq(Message)]]]
  BY DEF TypeOK
<1> DEFINE row == [s \in Servers |-> IF s \in lost /\ requests[c][incarnation[c]][s] # <<>>
                               THEN Front(requests[c][incarnation[c]][s])
                               ELSE requests[c][incarnation[c]][s]]
<1>4. ASSUME NEW s \in Servers, requests[c][incarnation[c]][s] # <<>>
      PROVE  Front(requests[c][incarnation[c]][s]) \in Seq(Message)
  BY <1>2, <1>3, <1>4, FrontMessages
<1>5. row \in [Servers -> Seq(Message)]
  BY <1>2, <1>3, <1>4
<1>6. requests' = [requests EXCEPT ![c][incarnation[c]] = row]
  BY <1>1
<1>7. /\ requests' \in [Clients -> [Incarnations -> [Servers -> Seq(Message)]]]
      /\ \A d \in Clients, i \in Incarnations :
           requests'[d][i] = IF d = c /\ i = incarnation[c] THEN row ELSE requests[d][i]
  <2> HIDE DEF row
  <2> QED
    BY <1>2, <1>3, <1>5, <1>6
<1>8. ASSUME NEW d \in Clients, NEW i \in Incarnations, NEW s \in Servers
      PROVE  \/ requests'[d][i][s] = requests[d][i][s]
             \/ /\ d = c /\ i = incarnation[c] /\ requests[d][i][s] # <<>>
                /\ requests[d][i][s] \in Seq(Message)
                /\ requests'[d][i][s] = Front(requests[d][i][s])
  <2>1. CASE d = c /\ i = incarnation[c]
    <3>1. requests[d][i][s] \in Seq(Message)
      BY <1>3
    <3>2. requests'[d][i] = row
      BY <1>7, <2>1
    <3>3. row[s] = IF s \in lost /\ requests[d][i][s] # <<>>
                     THEN Front(requests[d][i][s]) ELSE requests[d][i][s]
      BY <2>1
    <3> HIDE DEF row
    <3> QED
      BY <2>1, <3>1, <3>2, <3>3
  <2>2. CASE ~ (d = c /\ i = incarnation[c])
    BY <1>7, <2>2
  <2> QED
    BY <2>1, <2>2
<1> QED
  BY <1>7, <1>8

-----------------------------------------------------------------------------
(* Types *)

LEMMA TypeInit == Init => TypeOK
<1> SUFFICES ASSUME Init PROVE TypeOK
  OBVIOUS
<1>1. requests \in [Clients -> [Incarnations -> [Servers -> Seq(Message)]]]
      /\ replies \in [Clients -> [Servers -> Seq(Message)]]
  BY DEF Init
<1>2. incarnation \in [Clients -> Incarnations]
  BY BoundsAssumption DEF Init, Incarnations
<1>3. /\ drops \in 0..MaxDrops
      /\ diskErrors \subseteq Servers /\ Cardinality(diskErrors) <= MaxDiskErrors
  BY BoundsAssumption, FS_EmptySet DEF Init
<1>4. tagCodedElement_var \in [Servers -> TagValue] /\ disk \in [Servers -> TagValue]
      /\ TagValue_var \in [Clients -> TagValue]
  BY DataTypes DEF Init
<1>5. Opnum \in [Clients -> Nat] /\ \A c \in Clients : Opnum[c] <= MaxOpnum[c]
  BY BoundsAssumption DEF Init
<1> QED
  BY <1>1, <1>2, <1>3, <1>4, <1>5, DataTypes DEF Init, TypeOK

LEMMA EnterPhaseType ==
  ASSUME TypeOK, NEW c \in Clients, NEW phase \in Phases, NEW tv \in TagValue,
         EnterPhase(c, phase, tv)
  PROVE  /\ replies' \in [Clients -> [Servers -> Seq(Message)]]
         /\ Phase' \in [Clients -> Phases]
         /\ num_responses' \in [Clients -> Nat]
         /\ TagValue_var' \in [Clients -> TagValue]
         /\ IsOnePhase' \in [Clients -> BOOLEAN]
         /\ rx_state' \in [Clients -> SUBSET TagValue]
         /\ responders' \in [Clients -> SUBSET Servers]
<1>1. replies' \in [Clients -> [Servers -> Seq(Message)]]
  BY DEF EnterPhase, TypeOK
<1> QED
  BY <1>1 DEF EnterPhase, TypeOK

LEMMA EndOperationType ==
  ASSUME TypeOK, NEW c \in Clients, NEW phase \in Phases, NEW tv, tv.Tag_var \in AnyTag,
         EndOperation(c, phase, tv),
         UNCHANGED <<serverVars, Opnum, incarnation>>, stopped' = stopped,
         requests' \in [Clients -> [Incarnations -> [Servers -> Seq(Message)]]],
         drops' \in 0..MaxDrops
  PROVE  TypeOK'
<1>1. TagOnly(LowestTag) \in TagValue
  BY DataTypes
<1>2. LargerTag(tv.Tag_var, completed) \in Tag
  BY <1>1 DEF TypeOK, LargerTag, isGreaterTag, AnyTag, Tag, LowestTag
<1>3. completed' \in Tag
  BY <1>2 DEF EndOperation
<1> QED
  BY <1>1, <1>3, EnterPhaseType DEF EndOperation, TypeOK, serverVars

\* A broadcast of the same payload to all.
LEMMA ToAllType ==
  ASSUME NEW tv \in TagValue
  PROVE  ToAll(tv) \in [Servers -> TagValue] /\ \A s \in Servers : ToAll(tv)[s] = tv
BY DEF ToAll

LEMMA StartOperationType ==
  ASSUME TypeOK, NEW c \in Clients, NEW phase \in Phases, StartOperation(c, phase)
  PROVE  TypeOK'
<1>1. TagOnly(LowestTag) \in TagValue /\ TagOnly(ZeroTag) \in TagValue
  BY DataTypes
<1>2. Opnum[c] \in Nat /\ Opnum[c] + 1 \in Nat
  BY DEF TypeOK
<1>3. SendToServers(c, Opnum[c] + 1, phase, ToAll(TagOnly(ZeroTag)))
      /\ EnterPhase(c, phase, TagOnly(LowestTag))
  BY DEF StartOperation
<1>4. /\ requests' \in [Clients -> [Incarnations -> [Servers -> Seq(Message)]]]
      /\ drops' \in 0..MaxDrops
  BY <1>1, <1>2, <1>3, SendEffect, ToAllType
<1>5. Opnum' = [Opnum EXCEPT ![c] = Opnum[c] + 1] /\ Opnum[c] < MaxOpnum[c]
  BY DEF StartOperation, OperationAsked
<1>6. /\ Opnum' \in [Clients -> Nat]
      /\ \A d \in Clients : Opnum'[d] <= MaxOpnum[d]
      /\ \A d \in busy' : Opnum'[d] >= 1
  <2>1. Opnum \in [Clients -> Nat] /\ MaxOpnum[c] \in Nat
    BY BoundsAssumption DEF TypeOK
  <2>2. Opnum' \in [Clients -> Nat]
    BY <1>2, <1>5, <2>1
  <2>3. ASSUME NEW d \in Clients
        PROVE  /\ Opnum'[d] = IF d = c THEN Opnum[c] + 1 ELSE Opnum[d]
               /\ Opnum[d] \in Nat /\ Opnum[d] <= MaxOpnum[d]
    BY <1>5, <2>1 DEF TypeOK
  <2>4. ASSUME NEW d \in Clients PROVE Opnum'[d] <= MaxOpnum[d]
    BY <1>2, <1>5, <2>1, <2>3
  <2>5. ASSUME NEW d \in busy' PROVE Opnum'[d] >= 1
    <3>1. d \in Clients /\ (d # c => d \in busy)
      BY DEF StartOperation, TypeOK
    <3>2. d # c => Opnum[d] >= 1
      BY <3>1 DEF TypeOK
    <3> QED
      BY <1>2, <2>3, <3>1, <3>2
  <2> QED
    BY <2>2, <2>4, <2>5
<1> QED
  BY <1>1, <1>3, <1>4, <1>6, EnterPhaseType
  DEF StartOperation, TypeOK, serverVars, processVars

LEMMA ReceiveType ==
  ASSUME TypeOK, NEW c \in Clients, NEW s \in Servers, replies[c][s] # <<>>
  PROVE  /\ replies[c][s] \in Seq(Message)
         /\ Tail(replies[c][s]) \in Seq(Message)
         /\ Head(replies[c][s]) \in Message
         /\ Head(replies[c][s]) \in Messages(replies[c][s])
         /\ Messages(Tail(replies[c][s])) \subseteq Messages(replies[c][s])
         /\ Head(replies[c][s]).TagValue_var \in TagValue
         /\ [replies EXCEPT ![c][s] = Tail(replies[c][s])]
              \in [Clients -> [Servers -> Seq(Message)]]
<1>1. replies[c][s] \in Seq(Message)
  BY DEF TypeOK
<1>2. /\ Tail(replies[c][s]) \in Seq(Message)
      /\ Head(replies[c][s]) \in Message
      /\ Head(replies[c][s]) \in Messages(replies[c][s])
      /\ Messages(Tail(replies[c][s])) \subseteq Messages(replies[c][s])
  BY <1>1, ReceiveMessages
<1> QED
  BY <1>1, <1>2 DEF TypeOK, Message

LEMMA CollectReplyType ==
  ASSUME TypeOK, NEW c \in Clients, NEW s \in Servers, CollectReply(c, s)
  PROVE  TypeOK'
<1> DEFINE tv == Head(replies[c][s]).TagValue_var
<1>1. replies[c][s] # <<>> /\ replies' = [replies EXCEPT ![c][s] = Tail(replies[c][s])]
  BY DEF CollectReply
<1>2. tv \in TagValue /\ replies' \in [Clients -> [Servers -> Seq(Message)]]
  BY <1>1, ReceiveType
<1>3. \/ UNCHANGED <<TagValue_var, IsOnePhase, rx_state>>
      \/ /\ TagValue_var' = [TagValue_var EXCEPT ![c] =
              IF IsSmallerThan(TagValue_var[c].Tag_var, tv.Tag_var)
                THEN TagOnly(tv.Tag_var) ELSE TagValue_var[c]]
         /\ IsOnePhase' = [IsOnePhase EXCEPT ![c] = StaysOnePhase(c, tv)]
         /\ rx_state' = [rx_state EXCEPT ![c] =
              IF Phase[c] = SODAW_FAST_GET_TAG_DATA /\ StaysOnePhase(c, tv)
                THEN AddChunk(rx_state[c], tv) ELSE {}]
  BY DEF CollectReply
<1> HIDE DEF tv
<1>4. TagOnly(tv.Tag_var) \in TagValue
  BY <1>2, DataTypes
<1>5. AddChunk(rx_state[c], tv) \in SUBSET TagValue
  BY <1>2 DEF AddChunk, TypeOK
<1>6. StaysOnePhase(c, tv) \in BOOLEAN
  BY DEF StaysOnePhase, TypeOK
<1>7. /\ TagValue_var' \in [Clients -> TagValue]
      /\ IsOnePhase' \in [Clients -> BOOLEAN]
      /\ rx_state' \in [Clients -> SUBSET TagValue]
  <2>1. CASE UNCHANGED <<TagValue_var, IsOnePhase, rx_state>>
    BY <2>1 DEF TypeOK
  <2>2. CASE ~ UNCHANGED <<TagValue_var, IsOnePhase, rx_state>>
    <3> DEFINE rx == IF Phase[c] = SODAW_FAST_GET_TAG_DATA /\ StaysOnePhase(c, tv)
                       THEN AddChunk(rx_state[c], tv) ELSE {}
               tag == IF IsSmallerThan(TagValue_var[c].Tag_var, tv.Tag_var)
                        THEN TagOnly(tv.Tag_var) ELSE TagValue_var[c]
               one == StaysOnePhase(c, tv)
    <3>1. rx \in SUBSET TagValue /\ tag \in TagValue /\ one \in BOOLEAN
      BY <1>4, <1>5, <1>6 DEF TypeOK
    <3>2. /\ TagValue_var' = [TagValue_var EXCEPT ![c] = tag]
          /\ IsOnePhase' = [IsOnePhase EXCEPT ![c] = one]
          /\ rx_state' = [rx_state EXCEPT ![c] = rx]
      BY <1>3, <2>2
    <3> HIDE DEF rx, tag, one
    <3> QED
      BY <3>1, <3>2 DEF TypeOK
  <2> QED
    BY <2>1, <2>2
<1>8. /\ num_responses' \in [Clients -> Nat]
      /\ responders' \in [Clients -> SUBSET Servers]
  BY DEF CollectReply, TypeOK
<1> QED
  BY <1>2, <1>7, <1>8 DEF CollectReply, TypeOK, serverVars, processVars, historyVars

LEMMA NewTagType ==
  ASSUME TypeOK, NEW w \in Writers, w \in busy
  PROVE  /\ newTag(w) \in Tag
         /\ LET tv == [TagOnly(newTag(w)) EXCEPT !.Value = <<w, Opnum[w]>>] IN
              /\ tv \in TagValue /\ tv.Tag_var = newTag(w)
              /\ \A s \in Servers :
                   /\ [tv EXCEPT !.CodeIndex = s] \in TagValue
                   /\ [tv EXCEPT !.CodeIndex = s].Tag_var = newTag(w)
                   /\ [tv EXCEPT !.CodeIndex = s].CodeIndex = s
<1>1. w \in Clients
  BY DEF Clients
<1>2. TagValue_var[w].Tag_var \in AnyTag
  BY <1>1, DataTypes DEF TypeOK
<1>3. TagValue_var[w].Tag_var.Version_num + 1 \in Nat
  BY <1>2 DEF AnyTag, Tag, LowestTag
<1>4. NameTag[w][incarnation[w]] \in Nat
  BY <1>1, NameTagAssumption DEF TypeOK
<1>5. newTag(w) \in Tag
  BY <1>3, <1>4 DEF newTag, Tag
<1>6. Opnum[w] \in 1..MaxOpnum[w]
  BY <1>1, BoundsAssumption DEF TypeOK
<1>7. <<w, Opnum[w]>> \in Values
  <2>1. <<w, Opnum[w]>> \in {w} \X (1..MaxOpnum[w])
    BY <1>6
  <2> QED
    BY <2>1 DEF Values
<1> QED
  BY <1>5, <1>7, ServersAssumption DEF TagOnly, TagValue, AnyTag

LEMMA WriterPutsDataType ==
  ASSUME TypeOK, NEW w \in Clients, WriterPutsData(w)
  PROVE  TypeOK'
<1> DEFINE tv == [TagOnly(newTag(w)) EXCEPT !.Value = <<w, Opnum[w]>>]
           payload == [s \in Servers |-> [tv EXCEPT !.CodeIndex = s]]
<1>1. w \in Writers /\ w \in busy /\ Opnum[w] \in Nat /\ SODAW_PUT_DATA \in Phases
  BY DataTypes DEF WriterPutsData, HasQuorum, TypeOK
<1>2. tv \in TagValue /\ payload \in [Servers -> TagValue]
  BY <1>1, NewTagType
<1>3. EnterPhase(w, SODAW_PUT_DATA, tv) /\ SendToServers(w, Opnum[w], SODAW_PUT_DATA, payload)
  BY DEF WriterPutsData
<1> HIDE DEF tv, payload
<1>4. /\ requests' \in [Clients -> [Incarnations -> [Servers -> Seq(Message)]]]
      /\ drops' \in 0..MaxDrops
  BY <1>1, <1>2, <1>3, SendEffect
<1> QED
  BY <1>1, <1>2, <1>3, <1>4, EnterPhaseType
  DEF WriterPutsData, TypeOK, serverVars, processVars, historyVars

LEMMA ReaderAsksForDataType ==
  ASSUME TypeOK, NEW r \in Clients, ReaderAsksForData(r)
  PROVE  TypeOK'
<1>1. TagValue_var[r] \in TagValue /\ Opnum[r] \in Nat /\ SODAW_GET_DATA \in Phases
  BY DataTypes DEF TypeOK
<1>2. /\ EnterPhase(r, SODAW_GET_DATA, TagValue_var[r])
      /\ SendToServers(r, Opnum[r], SODAW_GET_DATA, ToAll(TagValue_var[r]))
  BY DEF ReaderAsksForData
<1>3. /\ requests' \in [Clients -> [Incarnations -> [Servers -> Seq(Message)]]]
      /\ drops' \in 0..MaxDrops
  BY <1>1, <1>2, SendEffect, ToAllType
<1> QED
  BY <1>1, <1>2, <1>3, EnterPhaseType
  DEF ReaderAsksForData, TypeOK, serverVars, processVars, historyVars

LEMMA PutDataCompletesType ==
  ASSUME TypeOK, NEW w \in Clients, PutDataCompletes(w)
  PROVE  TypeOK'
<1>1. TagValue_var[w].Tag_var \in AnyTag
  BY DataTypes DEF TypeOK
<1>2. requests' \in [Clients -> [Incarnations -> [Servers -> Seq(Message)]]]
      /\ drops' \in 0..MaxDrops /\ stopped' = stopped
  BY DEF PutDataCompletes, TypeOK, processVars
<1> QED
  BY <1>1, <1>2, EndOperationType, DataTypes DEF PutDataCompletes

LEMMA ReadInOnePhaseType ==
  ASSUME TypeOK, NEW r \in Clients, ReadInOnePhase(r)
  PROVE  TypeOK'
<1>1. CASE Cardinality(rx_state[r]) = K
  <2> DEFINE tv == [TagValue_var[r] EXCEPT !.Value = Decoded(rx_state[r])]
  <2>1. tv.Tag_var \in AnyTag
    BY DataTypes DEF TypeOK, TagValue
  <2>2. EndOperation(r, SODAW_FAST_GET_TAG_DATA, tv)
    BY <1>1 DEF ReadInOnePhase
  <2>3. requests' \in [Clients -> [Incarnations -> [Servers -> Seq(Message)]]]
        /\ drops' \in 0..MaxDrops /\ stopped' = stopped
    BY <1>1 DEF ReadInOnePhase, TypeOK, processVars
  <2> HIDE DEF tv
  <2> QED
    BY <2>1, <2>2, <2>3, EndOperationType, DataTypes DEF ReadInOnePhase
<1>2. CASE Cardinality(rx_state[r]) # K
  BY <1>2 DEF ReadInOnePhase, TypeOK, serverVars, phaseVars, historyVars
<1> QED
  BY <1>1, <1>2

LEMMA CollectRelayType ==
  ASSUME TypeOK, NEW r \in Clients, NEW s \in Servers, CollectRelay(r, s)
  PROVE  TypeOK'
<1> DEFINE tv == Head(replies[r][s]).TagValue_var
           rx == AddElement(rx_state[r], tv)
           rest == [replies EXCEPT ![r][s] = Tail(replies[r][s])]
           elements == ElementsOf(rx, tv.Tag_var)
           out == [TagOnly(tv.Tag_var) EXCEPT !.Value = Decoded(elements)]
<1>1. tv \in TagValue /\ rest \in [Clients -> [Servers -> Seq(Message)]]
  BY ReceiveType DEF CollectRelay
<1>2. rx \in SUBSET TagValue
  <2> HIDE DEF tv
  <2> QED
    BY <1>1 DEF AddElement, TypeOK
<1>3. out.Tag_var \in AnyTag
  BY <1>1, DataTypes DEF TagOnly
<1>4. \/ /\ stopped' = stopped \cup {r}
         /\ replies' = rest
         /\ UNCHANGED <<busy, phaseVars, requests, drops, historyVars>>
      \/ /\ EndOperation(r, SODAW_READ_COMPLETE, out)
         /\ SendToServers(r, Opnum[r], SODAW_READ_COMPLETE, ToAll(TagOnly(ZeroTag)))
         /\ stopped' = stopped
      \/ /\ rx_state' = [rx_state EXCEPT ![r] = rx]
         /\ replies' = rest
         /\ stopped' = stopped
         /\ UNCHANGED <<busy, Phase, num_responses, TagValue_var,
                        IsOnePhase, responders, requests, drops, historyVars>>
  BY DEF CollectRelay, processVars
<1>5. UNCHANGED <<serverVars, Opnum, incarnation>>
  BY DEF CollectRelay
<1> HIDE DEF tv, rx, rest, out
<1>6. CASE /\ stopped' = stopped \cup {r}
           /\ replies' = rest
           /\ UNCHANGED <<busy, phaseVars, requests, drops, historyVars>>
  BY <1>1, <1>5, <1>6 DEF TypeOK, serverVars, phaseVars, historyVars
<1>7. CASE /\ EndOperation(r, SODAW_READ_COMPLETE, out)
           /\ SendToServers(r, Opnum[r], SODAW_READ_COMPLETE, ToAll(TagOnly(ZeroTag)))
           /\ stopped' = stopped
  <2>1. TagOnly(ZeroTag) \in TagValue /\ Opnum[r] \in Nat /\ SODAW_READ_COMPLETE \in Phases
    BY DataTypes DEF TypeOK
  <2>2. requests' \in [Clients -> [Incarnations -> [Servers -> Seq(Message)]]]
        /\ drops' \in 0..MaxDrops
    BY <1>7, <2>1, SendEffect, ToAllType
  <2> QED
    BY <1>3, <1>5, <1>7, <2>1, <2>2, EndOperationType
<1>8. CASE /\ rx_state' = [rx_state EXCEPT ![r] = rx]
           /\ replies' = rest
           /\ stopped' = stopped
           /\ UNCHANGED <<busy, Phase, num_responses, TagValue_var,
                          IsOnePhase, responders, requests, drops, historyVars>>
  <2>1. rx_state' \in [Clients -> SUBSET TagValue]
    BY <1>2, <1>8 DEF TypeOK
  <2> QED
    BY <1>1, <1>5, <1>8, <2>1 DEF TypeOK, serverVars, historyVars
<1> QED
  BY <1>4, <1>6, <1>7, <1>8

LEMMA EmulateNewClientType ==
  ASSUME TypeOK, NEW c \in Clients, emulateNewClient(c)
  PROVE  TypeOK'
<1>1. incarnation[c] \in 0..MaxIncarnation /\ incarnation[c] < MaxIncarnation
  BY DEF TypeOK, emulateNewClient, Incarnations
<1>2. incarnation[c] + 1 \in Incarnations
  BY <1>1, BoundsAssumption DEF Incarnations
<1>3. incarnation' \in [Clients -> Incarnations]
  BY <1>2 DEF TypeOK, emulateNewClient
<1> QED
  BY <1>3 DEF emulateNewClient, TypeOK, serverVars, processVars, phaseVars, netVars, historyVars

LEMMA KillType ==
  ASSUME TypeOK, \/ \E s \in Servers : KillServer(s)
                 \/ \E c \in Clients : KillClient(c)
  PROVE  TypeOK'
<1>1. ASSUME NEW s \in Servers, KillServer(s) PROVE TypeOK'
  BY <1>1 DEF KillServer, TypeOK, serverVars, phaseVars, netVars, historyVars
<1>2. ASSUME NEW c \in Clients, KillClient(c) PROVE TypeOK'
  <2>1. requests' \in [Clients -> [Incarnations -> [Servers -> Seq(Message)]]]
    BY <1>2, KillEffect
  <2>2. /\ stopped' = stopped \cup {c}
        /\ UNCHANGED <<serverVars, busy, Opnum, incarnation, phaseVars, replies, drops,
                       historyVars>>
    BY <1>2 DEF KillClient
  <2> QED
    BY <2>1, <2>2 DEF TypeOK, serverVars, phaseVars, historyVars
<1> QED
  BY <1>1, <1>2

-----------------------------------------------------------------------------
(* What a server sends *)

\* Server s, handling m of client c from the socket of incarnation i, sends
\* client d at most one message, which d can use: an answer to m, or an element
\* for a reader that asked for data.
SentTo(d, s, c, i, m, a) ==
  /\ a \in Message /\ a \in Current(d) /\ Running(d)
  /\ replies'[d][s] = Append(replies[d][s], a)
  /\ (d = c /\ i = incarnation[c] /\ m \in Current(c)) \/ Phase[d] = SODAW_GET_DATA

AnswersSent(s, c, i, m) ==
  /\ replies' \in [Clients -> [Servers -> Seq(Message)]]
  /\ \A d \in Clients, t \in Servers : t # s => replies'[d][t] = replies[d][t]
  /\ \A d \in Clients :
       \/ replies'[d][s] = replies[d][s]
       \/ \E a \in Message : SentTo(d, s, c, i, m, a)

\* A reply to the sender.
LEMMA ReplyEffect ==
  ASSUME TypeOK, NEW s \in Servers, NEW c \in Clients, NEW i \in Incarnations,
         NEW m \in Message, NEW tv \in TagValue,
         Reply(c, i, s, [m EXCEPT !.TagValue_var = tv])
  PROVE  /\ AnswersSent(s, c, i, m)
         /\ \A d \in Clients : replies'[d][s] = replies[d][s]
              \/ /\ d = c /\ i = incarnation[c] /\ m \in Current(c)
                 /\ replies'[d][s] = Append(replies[d][s], [m EXCEPT !.TagValue_var = tv])
<1> DEFINE a == [m EXCEPT !.TagValue_var = tv]
<1>1. a \in Message /\ a.Opnum = m.Opnum /\ a.Phase = m.Phase
  BY DEF Message
<1>2. replies' = [replies EXCEPT ![c] = Delivered(c, i, s, a)]
  BY DEF Reply
<1> HIDE DEF a
<1>3. replies[c] \in [Servers -> Seq(Message)] /\ replies[c][s] \in Seq(Message)
  BY DEF TypeOK
<1>4. Append(replies[c][s], a) \in Seq(Message)
  BY <1>1, <1>3
<1>5. CASE i = incarnation[c] /\ isMessageUseful(c, a)
  <2>1. replies' = [replies EXCEPT ![c][s] = Append(replies[c][s], a)]
    BY <1>2, <1>5 DEF Delivered, TypeOK
  <2>2. a \in Current(c) /\ Running(c) /\ m \in Current(c)
    BY <1>1, <1>5 DEF isMessageUseful, Current
  <2>3. replies' \in [Clients -> [Servers -> Seq(Message)]]
    BY <1>4, <2>1 DEF TypeOK
  <2>4. /\ replies'[c][s] = Append(replies[c][s], a)
        /\ \A d \in Clients, t \in Servers : (d # c \/ t # s) => replies'[d][t] = replies[d][t]
    BY <2>1 DEF TypeOK
  <2>5. SentTo(c, s, c, i, m, a)
    BY <1>1, <1>5, <2>2, <2>4 DEF SentTo
  <2> QED
    BY <1>1, <1>5, <2>2, <2>3, <2>4, <2>5 DEF AnswersSent, a
<1>6. CASE ~ (i = incarnation[c] /\ isMessageUseful(c, a))
  <2>1. replies' = replies
    BY <1>2, <1>6 DEF Delivered, TypeOK
  <2> QED
    BY <2>1 DEF AnswersSent, TypeOK
<1> QED
  BY <1>5, <1>6

\* What a handler leaves: server data of its types, and answers sent.
Handled(s, c, i, m) ==
  /\ AnswersSent(s, c, i, m)
  /\ tagCodedElement_var' \in [Servers -> TagValue]
  /\ disk' \in [Servers -> TagValue]
  /\ readsInProgress' \in [Servers -> SUBSET ReadsInProgress]
  /\ diskErrors' \subseteq Servers /\ Cardinality(diskErrors') <= MaxDiskErrors
  /\ diskErrors \subseteq diskErrors'
  /\ stopped' \subseteq stopped \cup {s} /\ stopped \subseteq stopped'
  /\ "a tag less than requested tag" \in panics' => "a tag less than requested tag" \in panics

LEMMA NothingSent ==
  ASSUME TypeOK, NEW s \in Servers, NEW c, NEW i, NEW m, replies' = replies
  PROVE  AnswersSent(s, c, i, m)
BY DEF AnswersSent, TypeOK

LEMMA RegisterType ==
  ASSUME TypeOK, NEW s \in Servers, NEW r \in Clients, NEW i \in Incarnations,
         NEW m \in Message, NEW b \in BOOLEAN, registerNewRead(s, r, i, m, b)
  PROVE  readsInProgress' \in [Servers -> SUBSET ReadsInProgress]
<1> DEFINE x == [reader_name |-> r, opnum |-> m.Opnum,
                 tag_request |-> m.TagValue_var.Tag_var,
                 zmq_identity |-> i, outdated |-> b]
<1>1. m.Opnum \in Nat /\ m.TagValue_var.Tag_var \in AnyTag
  BY DataTypes DEF Message
<1>2. x \in ReadsInProgress
  BY <1>1 DEF ReadsInProgress
<1>3. readsInProgress' = [readsInProgress EXCEPT ![s] = readsInProgress[s] \cup {x}]
  BY DEF registerNewRead
<1> HIDE DEF x
<1> QED
  BY <1>2, <1>3 DEF TypeOK

LEMMA UnregisterType ==
  ASSUME TypeOK, NEW s \in Servers, NEW r, NEW o, unregisterRead(s, r, o)
  PROVE  readsInProgress' \in [Servers -> SUBSET ReadsInProgress]
BY DEF unregisterRead, TypeOK

LEMMA GetTagHandled ==
  ASSUME TypeOK, NEW s \in Servers, NEW c \in Clients, NEW i \in Incarnations,
         NEW m \in Message, getTagResp(s, c, i, m)
  PROVE  Handled(s, c, i, m)
<1> DEFINE tv == IF m.Phase = SODAW_GET_TAG THEN TagOnly(tagCodedElement_var[s].Tag_var)
                 ELSE tagCodedElement_var[s]
<1>1. tagCodedElement_var[s] \in TagValue
  BY DEF TypeOK
<1>2. tv \in TagValue
  BY <1>1, DataTypes
<1>3. Reply(c, i, s, [m EXCEPT !.TagValue_var = tv])
  BY DEF getTagResp
<1> HIDE DEF tv
<1>4. AnswersSent(s, c, i, m)
  BY <1>2, <1>3, ReplyEffect
<1> QED
  BY <1>4 DEF getTagResp, Handled, TypeOK, serverVars, processVars

LEMMA GetDataHandled ==
  ASSUME TypeOK, NEW s \in Servers, NEW c \in Clients, NEW i \in Incarnations,
         NEW m \in Message, getDataResp(s, c, i, m)
  PROVE  Handled(s, c, i, m)
<1>1. UNCHANGED <<disk, diskErrors>>
  BY DEF getDataResp
<1>2. CASE doesReadExist(s, c, m.Opnum)
  <2>1. unregisterRead(s, c, m.Opnum) /\ UNCHANGED <<tagCodedElement_var, processVars, replies>>
    BY <1>2 DEF getDataResp
  <2> QED
    BY <1>1, <2>1, UnregisterType, NothingSent DEF Handled, TypeOK, processVars
<1>3. CASE ~ doesReadExist(s, c, m.Opnum) /\ ~ AnswersNow(s, m.TagValue_var.Tag_var)
  <2>1. registerNewRead(s, c, i, m, FALSE)
        /\ UNCHANGED <<tagCodedElement_var, processVars, replies>>
    BY <1>3 DEF getDataResp
  <2> QED
    BY <1>1, <2>1, RegisterType, NothingSent DEF Handled, TypeOK, processVars
<1>4. CASE /\ ~ doesReadExist(s, c, m.Opnum) /\ AnswersNow(s, m.TagValue_var.Tag_var)
           /\ UseDisk /\ disk[s].Tag_var = LowestTag
  <2>1. /\ stopped' = stopped \cup {s} /\ panics' = panics \cup {"Error gobfying message"}
        /\ UNCHANGED <<tagCodedElement_var, readsInProgress, replies>>
    BY <1>4 DEF getDataResp
  <2> QED
    BY <1>1, <2>1, NothingSent DEF Handled, TypeOK
<1>5. CASE /\ ~ doesReadExist(s, c, m.Opnum) /\ AnswersNow(s, m.TagValue_var.Tag_var)
           /\ ~ (UseDisk /\ disk[s].Tag_var = LowestTag)
  <2> DEFINE tv == IF UseDisk THEN disk[s] ELSE tagCodedElement_var[s]
  <2>1. /\ registerNewRead(s, c, i, m, FALSE)
        /\ tagCodedElement_var' = [tagCodedElement_var EXCEPT ![s] = tv]
        /\ Reply(c, i, s, [m EXCEPT !.TagValue_var = tagCodedElement_var'[s]])
        /\ UNCHANGED processVars
    BY <1>5 DEF getDataResp
  <2>2. tv \in TagValue
    BY DEF TypeOK
  <2> HIDE DEF tv
  <2>3. tagCodedElement_var'[s] = tv /\ tagCodedElement_var' \in [Servers -> TagValue]
    BY <2>1, <2>2 DEF TypeOK
  <2>4. AnswersSent(s, c, i, m)
    BY <2>1, <2>2, <2>3, ReplyEffect
  <2> QED
    BY <1>1, <2>1, <2>3, <2>4, RegisterType DEF Handled, TypeOK, processVars
<1> QED
  BY <1>2, <1>3, <1>4, <1>5

LEMMA ReadCompleteHandled ==
  ASSUME TypeOK, NEW s \in Servers, NEW c \in Clients, NEW i \in Incarnations,
         NEW m \in Message, readCompleteResp(s, c, i, m)
  PROVE  Handled(s, c, i, m)
<1>1. readsInProgress' \in [Servers -> SUBSET ReadsInProgress]
  BY RegisterType, UnregisterType DEF readCompleteResp
<1> QED
  BY <1>1, NothingSent DEF readCompleteResp, Handled, TypeOK, processVars

\* What a put sends: the element to the readers it serves, and an
\* acknowledgement to the writer.
RelayOf(d, m) == [m EXCEPT !.Opnum = Opnum[d], !.Phase = SODAW_GET_DATA]
AckOf(m) == [m EXCEPT !.TagValue_var.Value = NoValue]

LEMMA PutSends ==
  ASSUME TypeOK, NEW s \in Servers, NEW c \in Clients, NEW i \in Incarnations,
         NEW m \in Message, putDataResp(s, c, i, m)
  PROVE  /\ AnswersSent(s, c, i, m)
         /\ \A d \in Clients :
              \/ replies'[d][s] = replies[d][s]
              \/ /\ d \in Readers /\ isMessageUseful(d, RelayOf(d, m))
                 /\ replies'[d][s] = Append(replies[d][s], RelayOf(d, m))
                 /\ \E x \in readsInProgress[s] :
                      /\ SameRead(x, d, Opnum[d]) /\ x.zmq_identity = incarnation[d]
                      /\ IsServed(x, m.TagValue_var.Tag_var)
              \/ /\ d = c /\ i = incarnation[c] /\ m \in Current(c)
                 /\ replies'[d][s] = Append(replies[d][s], AckOf(m))
<1> DEFINE ForReader(d) ==
             /\ d \in Readers /\ isMessageUseful(d, RelayOf(d, m))
             /\ replies'[d] = [replies[d] EXCEPT ![s] = Append(replies[d][s], RelayOf(d, m))]
             /\ \E x \in readsInProgress[s] :
                  /\ SameRead(x, d, Opnum[d]) /\ x.zmq_identity = incarnation[d]
                  /\ IsServed(x, m.TagValue_var.Tag_var)
           ForWriter(d) ==
             /\ d = c /\ i = incarnation[c] /\ isMessageUseful(c, AckOf(m))
             /\ replies'[d] = [replies[d] EXCEPT ![s] = Append(replies[d][s], AckOf(m))]
<1>1. replies' = [d \in Clients |->
         IF d \in Readers THEN Relayed(s, d, m)
         ELSE IF d = c THEN Delivered(c, i, s, AckOf(m)) ELSE replies[d]]
  BY DEF putDataResp, AckOf
<1>2. ASSUME NEW d \in Clients
      PROVE  replies'[d] = replies[d] \/ ForReader(d) \/ ForWriter(d)
  <2>1. CASE d \in Readers
    <3>1. replies'[d] = Relayed(s, d, m)
      BY <1>1, <2>1
    <3> QED
      BY <2>1, <3>1 DEF Relayed, Delivered, RelayOf
  <2>2. CASE d \notin Readers
    BY <1>1, <2>2 DEF Delivered
  <2> QED
    BY <2>1, <2>2
<1>3. /\ \A d \in Clients : /\ RelayOf(d, m) \in Message /\ RelayOf(d, m).Opnum = Opnum[d]
                            /\ RelayOf(d, m).Phase = SODAW_GET_DATA
      /\ AckOf(m) \in Message /\ AckOf(m).Opnum = m.Opnum /\ AckOf(m).Phase = m.Phase
  <2>1. m.TagValue_var \in TagValue /\ [m.TagValue_var EXCEPT !.Value = NoValue] \in TagValue
    BY DataTypes DEF Message
  <2>2. \A d \in Clients : Opnum[d] \in Nat
    BY DEF TypeOK
  <2> QED
    BY <2>1, <2>2, DataTypes DEF Message, RelayOf, AckOf
<1>4. \A d \in Clients : replies[d] \in [Servers -> Seq(Message)]
  BY DEF TypeOK
<1>5. ASSUME NEW d \in Clients
      PROVE  /\ replies'[d] \in [Servers -> Seq(Message)]
             /\ \A t \in Servers : t # s => replies'[d][t] = replies[d][t]
             /\ \/ replies'[d][s] = replies[d][s]
                \/ ForReader(d) /\ replies'[d][s] = Append(replies[d][s], RelayOf(d, m))
                   /\ SentTo(d, s, c, i, m, RelayOf(d, m))
                \/ ForWriter(d) /\ replies'[d][s] = Append(replies[d][s], AckOf(m))
                   /\ SentTo(d, s, c, i, m, AckOf(m)) /\ m \in Current(c)
  <2>1. CASE replies'[d] = replies[d]
    BY <1>4, <2>1
  <2>2. CASE ForReader(d)
    <3>1. Append(replies[d][s], RelayOf(d, m)) \in Seq(Message)
      BY <1>3, <1>4
    <3>2. replies'[d] \in [Servers -> Seq(Message)]
          /\ replies'[d][s] = Append(replies[d][s], RelayOf(d, m))
          /\ \A t \in Servers : t # s => replies'[d][t] = replies[d][t]
      BY <1>4, <2>2, <3>1
    <3>3. SentTo(d, s, c, i, m, RelayOf(d, m))
      BY <1>3, <2>2, <3>2 DEF SentTo, isMessageUseful, Current
    <3> QED
      BY <2>2, <3>2, <3>3
  <2>3. CASE ForWriter(d)
    <3>1. Append(replies[d][s], AckOf(m)) \in Seq(Message)
      BY <1>3, <1>4
    <3>2. replies'[d] \in [Servers -> Seq(Message)]
          /\ replies'[d][s] = Append(replies[d][s], AckOf(m))
          /\ \A t \in Servers : t # s => replies'[d][t] = replies[d][t]
      BY <1>4, <2>3, <3>1
    <3>3. m \in Current(c) /\ SentTo(d, s, c, i, m, AckOf(m))
      BY <1>3, <2>3, <3>2 DEF SentTo, isMessageUseful, Current
    <3> QED
      BY <2>3, <3>2, <3>3
  <2> QED
    BY <1>2, <2>1, <2>2, <2>3
<1>6. replies' \in [Clients -> [Servers -> Seq(Message)]]
  BY <1>1, <1>5
<1>7. AnswersSent(s, c, i, m)
  BY <1>3, <1>5, <1>6 DEF AnswersSent
<1> QED
  BY <1>5, <1>7

LEMMA PutHandled ==
  ASSUME TypeOK, NEW s \in Servers, NEW c \in Clients, NEW i \in Incarnations,
         NEW m \in Message, putDataResp(s, c, i, m)
  PROVE  Handled(s, c, i, m)
<1>1. m.TagValue_var \in TagValue /\ TagOnly(m.TagValue_var.Tag_var) \in TagValue
  BY DataTypes DEF Message
<1>2. tagCodedElement_var' \in [Servers -> TagValue]
  BY <1>1 DEF putDataResp, TypeOK
<1>3. /\ disk' \in [Servers -> TagValue]
      /\ diskErrors' \subseteq Servers /\ Cardinality(diskErrors') <= MaxDiskErrors
      /\ diskErrors \subseteq diskErrors'
  <2>1. \/ /\ \/ disk' = [disk EXCEPT ![s] = m.TagValue_var]
              \/ disk' = [disk EXCEPT ![s] = disk[s]]
           /\ UNCHANGED diskErrors
        \/ /\ Cardinality(diskErrors \cup {s}) <= MaxDiskErrors
           /\ diskErrors' = diskErrors \cup {s} /\ UNCHANGED disk
    BY DEF putDataResp
  <2>2. disk' \in [Servers -> TagValue]
    BY <1>1, <2>1 DEF TypeOK
  <2>3. diskErrors \subseteq Servers /\ Cardinality(diskErrors) <= MaxDiskErrors
    BY DEF TypeOK
  <2> QED
    BY <2>1, <2>2, <2>3
<1> QED
  BY <1>2, <1>3, PutSends DEF putDataResp, Handled, TypeOK, processVars

LEMMA StepHandled ==
  ASSUME TypeOK, NEW s \in Servers, NEW c \in Clients, NEW i \in Incarnations,
         ServerStep(s, c, i)
  PROVE  Handled(s, c, i, Head(requests[c][i][s]))
<1>1. Head(requests[c][i][s]) \in Message
  BY TakeEffect
<1> QED
  BY <1>1, GetTagHandled, GetDataHandled, ReadCompleteHandled, PutHandled DEF ServerStep

LEMMA ServerStepType ==
  ASSUME TypeOK, NEW s \in Servers, NEW c \in Clients, NEW i \in Incarnations,
         ServerStep(s, c, i)
  PROVE  TypeOK'
<1>1. Handled(s, c, i, Head(requests[c][i][s]))
  BY StepHandled
<1>2. requests' \in [Clients -> [Incarnations -> [Servers -> Seq(Message)]]]
  BY TakeEffect
<1>3. UNCHANGED <<busy, Opnum, incarnation, phaseVars, drops, historyVars>>
  BY DEF ServerStep
<1> QED
  BY <1>1, <1>2, <1>3 DEF Handled, AnswersSent, TypeOK, phaseVars, historyVars

LEMMA TypeStep == TypeOK /\ [Next]_vars => TypeOK'
<1> SUFFICES ASSUME TypeOK, [Next]_vars PROVE TypeOK'
  OBVIOUS
<1>1. CASE UNCHANGED vars
  BY <1>1 DEF TypeOK, vars, serverVars, processVars, phaseVars, netVars, historyVars
<1>2. ASSUME NEW c \in Clients, ClientStep(c) PROVE TypeOK'
  <2>1. CASE StartRead(c) \/ StartWrite(c)
    BY <2>1, StartOperationType, DataTypes DEF StartRead, StartWrite
  <2>2. CASE \E s \in Servers : CollectReply(c, s) \/ CollectRelay(c, s)
    BY <2>2, CollectReplyType, CollectRelayType
  <2>3. CASE WriterPutsData(c) \/ PutDataCompletes(c)
    BY <2>3, WriterPutsDataType, PutDataCompletesType
  <2>4. CASE ReaderAsksForData(c) \/ ReadInOnePhase(c)
    BY <2>4, ReaderAsksForDataType, ReadInOnePhaseType
  <2>5. CASE emulateNewClient(c) \/ KillClient(c)
    BY <2>5, EmulateNewClientType, KillType
  <2> QED
    BY <1>2, <2>1, <2>2, <2>3, <2>4, <2>5 DEF ClientStep
<1>3. ASSUME NEW s \in Servers, NEW c \in Clients, NEW i \in Incarnations,
             ServerStep(s, c, i)
      PROVE  TypeOK'
  BY <1>3, ServerStepType
<1>4. ASSUME NEW s \in Servers, KillServer(s) PROVE TypeOK'
  BY <1>4, KillType
<1> QED
  BY <1>1, <1>2, <1>3, <1>4 DEF Next, AllDone

\* The variables of Sodaw keep their types (soda_variations.go, client.go, server.go).
THEOREM TypeCorrect == Spec => []TypeOK
<1> QED
  BY TypeInit, TypeStep, PTL DEF Spec

-----------------------------------------------------------------------------
(* Channels *)

\* Client d does not step.
SameClient(d) ==
  /\ d \in busy' <=> d \in busy
  /\ Opnum'[d] = Opnum[d] /\ Phase'[d] = Phase[d] /\ incarnation'[d] = incarnation[d]
  /\ num_responses'[d] = num_responses[d] /\ responders'[d] = responders[d]
  /\ TagValue_var'[d] = TagValue_var[d] /\ IsOnePhase'[d] = IsOnePhase[d]
  /\ rx_state'[d] = rx_state[d] /\ floor'[d] = floor[d]

\* Nothing is added to a request channel.
Shrinks(p, q) == Messages(p) \subseteq Messages(q) /\ \A S : AtMostOne(q, S) => AtMostOne(p, S)

RequestsShrink(d) ==
  \A i \in Incarnations, s \in Servers : Shrinks(requests'[d][i][s], requests[d][i][s])

LEMMA SameShrinks == \A q : Shrinks(q, q)
BY DEF Shrinks

LEMMA SameCurrent ==
  ASSUME NEW d, SameClient(d)
  PROVE  Current(d)' = Current(d)
BY DEF SameClient, Current

LEMMA ChannelInit == Init => ChannelInv
BY DEF Init, ChannelInv, ChannelInvOf, InOrder, OneCurrent, Counted, Messages

LEMMA EmptyMessages ==
  /\ Messages(<<>>) = {}
  /\ \A S : AtMostOne(<<>>, S)
  /\ \A T : \A q \in Seq(T) : Messages(q) = {} => q = <<>>
BY DEF Messages, AtMostOne

\* A client that does not step, and receives nothing.
LEMMA ChannelFrame ==
  ASSUME NEW d \in Clients, SameClient(d), ChannelInvOf(d),
         RequestsShrink(d), \A s \in Servers : replies'[d][s] = replies[d][s]
  PROVE  ChannelInvOf(d)'
<1>1. Current(d)' = Current(d)
  BY SameCurrent
<1>2. ASSUME NEW m PROVE NotFromTheFuture(d, m)' <=> NotFromTheFuture(d, m)
  BY DEF SameClient, NotFromTheFuture
<1>3. InOrder(d)'
  BY SMTT(30), <1>1, <1>2 DEF ChannelInvOf, InOrder, SameClient, RequestsShrink, Shrinks
<1>4. OneCurrent(d)'
  <2> SUFFICES ASSUME d \in busy', CountsReplies(d)', NEW s \in Servers
               PROVE  /\ AtMostOne(replies'[d][s], Current(d)')
                      /\ replies'[d][s] # <<>> => s \notin responders'[d]
                      /\ \A i \in Incarnations :
                           /\ AtMostOne(requests'[d][i][s], Current(d)')
                           /\ Messages(requests'[d][i][s]) \cap Current(d)' # {} =>
                                i = incarnation'[d] /\ s \notin responders'[d]
                                /\ replies'[d][s] = <<>>
    BY DEF OneCurrent
  <2>1. d \in busy /\ CountsReplies(d) /\ OneCurrent(d)
    BY DEF SameClient, CountsReplies, ChannelInvOf
  <2>2. AtMostOne(replies'[d][s], Current(d)') /\ (replies'[d][s] # <<>> => s \notin responders'[d])
    BY <1>1, <2>1 DEF OneCurrent, SameClient
  <2>3. ASSUME NEW i \in Incarnations
        PROVE  /\ AtMostOne(requests'[d][i][s], Current(d)')
               /\ Messages(requests'[d][i][s]) \cap Current(d)' # {} =>
                    i = incarnation'[d] /\ s \notin responders'[d] /\ replies'[d][s] = <<>>
    <3>1. Shrinks(requests'[d][i][s], requests[d][i][s])
      BY DEF RequestsShrink
    <3>2. /\ AtMostOne(requests[d][i][s], Current(d))
          /\ Messages(requests[d][i][s]) \cap Current(d) # {} =>
               i = incarnation[d] /\ s \notin responders[d] /\ replies[d][s] = <<>>
      BY <2>1 DEF OneCurrent
    <3>3. AtMostOne(requests'[d][i][s], Current(d))
      BY <3>1, <3>2 DEF Shrinks
    <3>4. Messages(requests'[d][i][s]) \subseteq Messages(requests[d][i][s])
      BY <3>1 DEF Shrinks
    <3> QED
      BY <1>1, <3>2, <3>3, <3>4 DEF SameClient
  <2> QED
    BY <2>2, <2>3
<1>5. Counted(d)'
  BY DEF ChannelInvOf, Counted, SameClient, CountsReplies, quorum_size
<1> QED
  BY <1>3, <1>4, <1>5 DEF ChannelInvOf

\* A phase begins: nothing of it is on the way but what is sent now, each server
\* its own message m[s].
EntersPhase(c, m) ==
  /\ c \in busy' /\ Phase'[c] \notin {SODAW_READ_COMPLETE}
  /\ c \in Readers => Phase'[c] # SODAW_PUT_DATA
  /\ incarnation'[c] = incarnation[c]
  /\ num_responses'[c] = 0 /\ responders'[c] = {}
  /\ \A s \in Servers : replies'[c][s] = <<>>
  /\ \A i \in Incarnations, s \in Servers :
       /\ \A n \in Messages(requests[c][i][s]) :
            /\ n.Opnum <= Opnum'[c]
            /\ n.Opnum = Opnum'[c] =>
                 /\ n.Phase # Phase'[c]
                 /\ n.Phase \notin {SODAW_PUT_DATA, SODAW_GET_DATA, SODAW_READ_COMPLETE}
       /\ \/ requests'[c][i][s] = requests[c][i][s]
          \/ /\ i = incarnation[c]
             /\ requests'[c][i][s] = Append(requests[c][i][s], m[s])
  /\ \A s \in Servers :
       m[s] \in Message /\ m[s].Opnum = Opnum'[c] /\ m[s].Phase = Phase'[c]

LEMMA ChannelEnter ==
  ASSUME TypeOK, TypeOK', NEW c \in Clients, NEW m, EntersPhase(c, m)
  PROVE  ChannelInvOf(c)'
<1>1. ASSUME NEW i \in Incarnations, NEW s \in Servers
      PROVE  /\ \A n \in Messages(requests'[c][i][s]) : NotFromTheFuture(c, n)'
             /\ AtMostOne(requests'[c][i][s], Current(c)')
             /\ Messages(requests'[c][i][s]) \cap Current(c)' # {} => i = incarnation'[c]
  <2>1. requests[c][i][s] \in Seq(Message) /\ Opnum'[c] \in Nat
    BY DEF TypeOK
  <2>2. \A n \in Messages(requests[c][i][s]) : NotFromTheFuture(c, n)' /\ n \notin Current(c)'
    BY DEF EntersPhase, NotFromTheFuture, Current
  <2>3. AtMostOne(requests[c][i][s], Current(c)')
    BY <2>2 DEF AtMostOne, Messages
  <2>4. CASE requests'[c][i][s] = requests[c][i][s]
    BY <2>2, <2>3, <2>4
  <2>5. CASE i = incarnation[c] /\ requests'[c][i][s] = Append(requests[c][i][s], m[s])
    <3>1. m[s] \in Message /\ NotFromTheFuture(c, m[s])'
      BY <2>1 DEF EntersPhase, NotFromTheFuture
    <3>2. Messages(requests'[c][i][s]) = Messages(requests[c][i][s]) \cup {m[s]}
      BY SMTT(30), <2>1, <2>5, <3>1, SendMessages
    <3>3. AtMostOne(requests'[c][i][s], Current(c)')
      BY <2>1, <2>2, <2>3, <2>5, <3>1, SendAtMostOne
    <3> QED
      BY <2>2, <2>5, <3>1, <3>2, <3>3 DEF EntersPhase
  <2> QED
    BY <2>4, <2>5 DEF EntersPhase
<1>2. ASSUME NEW s \in Servers
      PROVE  Messages(replies'[c][s]) = {} /\ AtMostOne(replies'[c][s], Current(c)')
  BY EmptyMessages DEF EntersPhase
<1>3. InOrder(c)'
  BY <1>1, <1>2 DEF InOrder, EntersPhase
<1>4. OneCurrent(c)'
  BY <1>1, <1>2 DEF OneCurrent, EntersPhase
<1>5. Counted(c)'
  <2>1. num_responses'[c] = 0 /\ Cardinality(responders'[c]) = 0
    BY FS_EmptySet DEF EntersPhase
  <2>2. quorum_size(Phase'[c]) \in Nat
    BY DataTypes DEF quorum_size
  <2> QED
    BY <2>1, <2>2 DEF Counted
<1> QED
  BY <1>3, <1>4, <1>5 DEF ChannelInvOf

\* An operation ends, perhaps with a message that says so.
LEMMA ChannelEnd ==
  ASSUME TypeOK, NEW c \in Clients, ChannelInvOf(c), c \notin busy', Opnum'[c] = Opnum[c],
         \A s \in Servers : replies'[c][s] = <<>>,
         NEW m, \A s \in Servers : m[s] \in Message /\ m[s].Opnum = Opnum[c],
         \A i \in Incarnations, s \in Servers :
           \/ requests'[c][i][s] = requests[c][i][s]
           \/ requests'[c][i][s] = Append(requests[c][i][s], m[s])
  PROVE  ChannelInvOf(c)'
<1>1. ASSUME NEW i \in Incarnations, NEW s \in Servers, NEW n \in Messages(requests'[c][i][s])
      PROVE  NotFromTheFuture(c, n)'
  <2>1. requests[c][i][s] \in Seq(Message) /\ Opnum[c] \in Nat
    BY DEF TypeOK
  <2>2. n \in Messages(requests[c][i][s]) \/ n = m[s]
    <3>1. Messages(Append(requests[c][i][s], m[s])) = Messages(requests[c][i][s]) \cup {m[s]}
      BY <2>1, SendMessages
    <3> QED
      BY <3>1
  <2>3. n \in Messages(requests[c][i][s]) => n.Opnum <= Opnum[c]
    BY DEF ChannelInvOf, InOrder, NotFromTheFuture
  <2> QED
    BY <2>1, <2>2, <2>3 DEF NotFromTheFuture
<1>2. \A s \in Servers : Messages(replies'[c][s]) = {}
  BY EmptyMessages
<1> QED
  BY <1>1, <1>2 DEF ChannelInvOf, InOrder, OneCurrent, Counted

LEMMA EnterPhaseEffect ==
  ASSUME TypeOK, NEW c \in Clients, NEW phase, NEW tv, EnterPhase(c, phase, tv)
  PROVE  /\ Phase'[c] = phase /\ TagValue_var'[c] = tv /\ num_responses'[c] = 0
         /\ IsOnePhase'[c] = TRUE /\ rx_state'[c] = {} /\ responders'[c] = {}
         /\ \A s \in Servers : replies'[c][s] = <<>>
         /\ \A d \in Clients : d # c =>
              /\ Phase'[d] = Phase[d] /\ TagValue_var'[d] = TagValue_var[d]
              /\ num_responses'[d] = num_responses[d] /\ IsOnePhase'[d] = IsOnePhase[d]
              /\ rx_state'[d] = rx_state[d] /\ responders'[d] = responders[d]
              /\ replies'[d] = replies[d]
BY DEF EnterPhase, TypeOK

\* Client d does not step, and nothing reaches it or is sent by it.
Idle(d) ==
  /\ SameClient(d) /\ replies'[d] = replies[d]
  /\ \A i \in Incarnations, s \in Servers : requests'[d][i][s] = requests[d][i][s]

LEMMA SendToNoOther ==
  ASSUME TypeOK, NEW c \in Clients, NEW opnum \in Nat, NEW phase \in Phases,
         NEW payload \in [Servers -> TagValue], SendToServers(c, opnum, phase, payload),
         NEW d \in Clients, d # c
  PROVE  \A i \in Incarnations, s \in Servers : requests'[d][i][s] = requests[d][i][s]
<1>1. requests'[d] = requests[d]
  BY DEF SendToServers, TypeOK
<1> QED
  BY <1>1

LEMMA StartOperationEffect ==
  ASSUME TypeOK, NEW c \in Clients, NEW phase \in Phases, StartOperation(c, phase)
  PROVE  /\ c \notin busy /\ Running(c) /\ c \in busy' /\ busy' = busy \cup {c}
         /\ Opnum'[c] = Opnum[c] + 1 /\ incarnation' = incarnation
         /\ floor'[c] = completed /\ Phase'[c] = phase
         /\ EnterPhase(c, phase, TagOnly(LowestTag))
         /\ SendToServers(c, Opnum[c] + 1, phase, ToAll(TagOnly(ZeroTag)))
         /\ UNCHANGED <<serverVars, processVars, completed, log>>
         /\ \A d \in Clients : d # c => Idle(d)
<1>1. Opnum[c] + 1 \in Nat /\ ToAll(TagOnly(ZeroTag)) \in [Servers -> TagValue]
  BY DataTypes, ToAllType DEF TypeOK
<1>2. /\ EnterPhase(c, phase, TagOnly(LowestTag))
      /\ SendToServers(c, Opnum[c] + 1, phase, ToAll(TagOnly(ZeroTag)))
      /\ busy' = busy \cup {c} /\ incarnation' = incarnation
      /\ Opnum' = [Opnum EXCEPT ![c] = Opnum[c] + 1]
      /\ floor' = [floor EXCEPT ![c] = completed]
  BY DEF StartOperation
<1>3. ASSUME NEW d \in Clients, d # c PROVE Idle(d)
  <2>1. \A i \in Incarnations, s \in Servers : requests'[d][i][s] = requests[d][i][s]
    BY <1>1, <1>2, <1>3, SendToNoOther
  <2>2. /\ Opnum'[d] = Opnum[d] /\ floor'[d] = floor[d]
        /\ incarnation'[d] = incarnation[d] /\ (d \in busy' <=> d \in busy)
    BY <1>2, <1>3 DEF TypeOK
  <2>3. SameClient(d) /\ replies'[d] = replies[d]
    BY <1>2, <1>3, <2>2, EnterPhaseEffect DEF SameClient
  <2> QED
    BY <2>1, <2>3 DEF Idle
<1>4. Phase'[c] = phase
  BY <1>2, EnterPhaseEffect
<1> QED
  BY <1>2, <1>3, <1>4 DEF StartOperation, TypeOK

LEMMA WriterPutsDataEffect ==
  ASSUME TypeOK, NEW w \in Clients, WriterPutsData(w)
  PROVE  LET tv == [TagOnly(newTag(w)) EXCEPT !.Value = <<w, Opnum[w]>>]
             payload == [s \in Servers |-> [tv EXCEPT !.CodeIndex = s]] IN
         /\ w \in Writers /\ HasQuorum(w) /\ Phase[w] = SODAW_GET_TAG
         /\ tv \in TagValue /\ tv.Tag_var = newTag(w) /\ newTag(w) \in Tag
         /\ payload \in [Servers -> TagValue]
         /\ \A s \in Servers : payload[s].Tag_var = newTag(w) /\ payload[s].CodeIndex = s
         /\ EnterPhase(w, SODAW_PUT_DATA, tv)
         /\ SendToServers(w, Opnum[w], SODAW_PUT_DATA, payload)
         /\ UNCHANGED <<serverVars, processVars, busy, Opnum, incarnation, historyVars>>
         /\ \A d \in Clients : d # w => Idle(d)
<1> DEFINE tv == [TagOnly(newTag(w)) EXCEPT !.Value = <<w, Opnum[w]>>]
           payload == [s \in Servers |-> [tv EXCEPT !.CodeIndex = s]]
<1>1. w \in Writers /\ w \in busy /\ Opnum[w] \in Nat /\ SODAW_PUT_DATA \in Phases
  BY DataTypes DEF WriterPutsData, HasQuorum, TypeOK
<1>2. tv \in TagValue /\ tv.Tag_var = newTag(w) /\ newTag(w) \in Tag
      /\ payload \in [Servers -> TagValue]
      /\ \A s \in Servers : payload[s].Tag_var = newTag(w) /\ payload[s].CodeIndex = s
  BY <1>1, NewTagType
<1>3. /\ EnterPhase(w, SODAW_PUT_DATA, tv) /\ SendToServers(w, Opnum[w], SODAW_PUT_DATA, payload)
      /\ HasQuorum(w) /\ Phase[w] = SODAW_GET_TAG
      /\ UNCHANGED <<serverVars, processVars, busy, Opnum, incarnation, historyVars>>
  BY DEF WriterPutsData
<1> HIDE DEF tv, payload
<1>4. ASSUME NEW d \in Clients, d # w PROVE Idle(d)
  <2>1. \A i \in Incarnations, s \in Servers : requests'[d][i][s] = requests[d][i][s]
    BY <1>1, <1>2, <1>3, <1>4, SendToNoOther
  <2>2. SameClient(d) /\ replies'[d] = replies[d]
    BY ZenonT(40), <1>3, <1>4, EnterPhaseEffect DEF SameClient, historyVars
  <2> QED
    BY <2>1, <2>2 DEF Idle
<1> QED
  BY <1>1, <1>2, <1>3, <1>4 DEF tv, payload

LEMMA ReaderAsksForDataEffect ==
  ASSUME TypeOK, NEW r \in Clients, ReaderAsksForData(r)
  PROVE  /\ r \in Readers /\ HasQuorum(r) /\ TagValue_var[r] \in TagValue
         /\ Phase[r] = SODAW_FAST_GET_TAG_DATA => ~ IsOnePhase[r]
         /\ EnterPhase(r, SODAW_GET_DATA, TagValue_var[r])
         /\ SendToServers(r, Opnum[r], SODAW_GET_DATA, ToAll(TagValue_var[r]))
         /\ ToAll(TagValue_var[r]) \in [Servers -> TagValue]
         /\ \A s \in Servers : ToAll(TagValue_var[r])[s] = TagValue_var[r]
         /\ UNCHANGED <<serverVars, processVars, busy, Opnum, incarnation, historyVars>>
         /\ \A d \in Clients : d # r => Idle(d)
<1>1. TagValue_var[r] \in TagValue /\ Opnum[r] \in Nat /\ SODAW_GET_DATA \in Phases
      /\ ToAll(TagValue_var[r]) \in [Servers -> TagValue]
      /\ \A s \in Servers : ToAll(TagValue_var[r])[s] = TagValue_var[r]
  BY DataTypes, ToAllType DEF TypeOK
<1>2. /\ EnterPhase(r, SODAW_GET_DATA, TagValue_var[r])
      /\ SendToServers(r, Opnum[r], SODAW_GET_DATA, ToAll(TagValue_var[r]))
      /\ r \in Readers /\ HasQuorum(r)
      /\ Phase[r] = SODAW_FAST_GET_TAG_DATA => ~ IsOnePhase[r]
      /\ UNCHANGED <<serverVars, processVars, busy, Opnum, incarnation, historyVars>>
  BY DEF ReaderAsksForData
<1>3. ASSUME NEW d \in Clients, d # r PROVE Idle(d)
  <2>1. \A i \in Incarnations, s \in Servers : requests'[d][i][s] = requests[d][i][s]
    BY <1>1, <1>2, <1>3, SendToNoOther
  <2>2. SameClient(d) /\ replies'[d] = replies[d]
    BY <1>2, <1>3, EnterPhaseEffect DEF SameClient, historyVars
  <2> QED
    BY <2>1, <2>2 DEF Idle
<1> QED
  BY <1>1, <1>2, <1>3

LEMMA PutDataCompletesEffect ==
  ASSUME TypeOK, NEW w \in Clients, PutDataCompletes(w)
  PROVE  /\ HasQuorum(w) /\ Phase[w] = SODAW_PUT_DATA
         /\ busy' = busy \ {w} /\ completed' = LargerTag(TagValue_var[w].Tag_var, completed)
         /\ EnterPhase(w, SODAW_PUT_DATA, TagOnly(LowestTag))
         /\ UNCHANGED <<serverVars, processVars, Opnum, incarnation, requests, drops, floor>>
         /\ \A d \in Clients : d # w => Idle(d)
<1>1. /\ HasQuorum(w) /\ Phase[w] = SODAW_PUT_DATA
      /\ busy' = busy \ {w} /\ completed' = LargerTag(TagValue_var[w].Tag_var, completed)
      /\ EnterPhase(w, SODAW_PUT_DATA, TagOnly(LowestTag))
      /\ UNCHANGED <<serverVars, processVars, Opnum, incarnation, requests, drops, floor>>
  BY DEF PutDataCompletes, EndOperation
<1>2. ASSUME NEW d \in Clients, d # w PROVE Idle(d)
  BY ZenonT(40), <1>1, <1>2, EnterPhaseEffect DEF Idle, SameClient
<1> QED
  BY <1>1, <1>2

LEMMA ReadInOnePhaseEffect ==
  ASSUME TypeOK, NEW r \in Clients, ReadInOnePhase(r)
  PROVE  /\ HasQuorum(r) /\ Phase[r] = SODAW_FAST_GET_TAG_DATA /\ IsOnePhase[r]
         /\ UNCHANGED <<serverVars, Opnum, incarnation, requests, drops>>
         /\ \/ /\ Cardinality(rx_state[r]) = K
               /\ busy' = busy \ {r}
               /\ completed' = LargerTag(TagValue_var[r].Tag_var, completed)
               /\ EnterPhase(r, SODAW_FAST_GET_TAG_DATA, TagOnly(LowestTag))
               /\ UNCHANGED <<processVars, floor>>
            \/ /\ Cardinality(rx_state[r]) # K
               /\ panics' = panics \cup {"exactly K coded blocks"}
               /\ stopped' = stopped \cup {r}
               /\ UNCHANGED <<busy, phaseVars, replies, historyVars>>
               /\ Idle(r)
         /\ \A d \in Clients : d # r => Idle(d)
<1>1. /\ HasQuorum(r) /\ Phase[r] = SODAW_FAST_GET_TAG_DATA /\ IsOnePhase[r]
      /\ UNCHANGED <<serverVars, Opnum, incarnation, requests, drops>>
  BY DEF ReadInOnePhase
<1>2. CASE Cardinality(rx_state[r]) = K
  <2> DEFINE tv == [TagValue_var[r] EXCEPT !.Value = Decoded(rx_state[r])]
  <2>1. EndOperation(r, SODAW_FAST_GET_TAG_DATA, tv) /\ UNCHANGED processVars
    BY <1>2 DEF ReadInOnePhase
  <2>2. tv.Tag_var = TagValue_var[r].Tag_var
    BY DEF TypeOK, TagValue
  <2> HIDE DEF tv
  <2>3. /\ busy' = busy \ {r}
        /\ completed' = LargerTag(TagValue_var[r].Tag_var, completed)
        /\ EnterPhase(r, SODAW_FAST_GET_TAG_DATA, TagOnly(LowestTag))
        /\ UNCHANGED <<processVars, floor>>
    BY <2>1, <2>2 DEF EndOperation
  <2> QED
    BY ZenonT(40), <1>1, <1>2, <2>3, EnterPhaseEffect DEF Idle, SameClient
<1>3. CASE Cardinality(rx_state[r]) # K
  BY <1>1, <1>3 DEF ReadInOnePhase, Idle, SameClient, phaseVars, historyVars
<1> QED
  BY <1>2, <1>3

LEMMA CollectRelayEffect ==
  ASSUME TypeOK, NEW r \in Clients, NEW s \in Servers, CollectRelay(r, s)
  PROVE  LET tv == Head(replies[r][s]).TagValue_var
             rx == AddElement(rx_state[r], tv) IN
         /\ r \in busy /\ Running(r) /\ Phase[r] = SODAW_GET_DATA /\ replies[r][s] # <<>>
         /\ UNCHANGED <<serverVars, Opnum, incarnation>>
         /\ \/ /\ IsSmallerThan(tv.Tag_var, TagValue_var[r].Tag_var)
               /\ panics' = panics \cup {"a tag less than requested tag"}
               /\ stopped' = stopped \cup {r}
               /\ replies' = [replies EXCEPT ![r][s] = Tail(replies[r][s])]
               /\ UNCHANGED <<busy, phaseVars, requests, drops, historyVars>>
            \/ /\ ~ IsSmallerThan(tv.Tag_var, TagValue_var[r].Tag_var)
               /\ Cardinality(ElementsOf(rx, tv.Tag_var)) = K
               /\ busy' = busy \ {r}
               /\ completed' = LargerTag(tv.Tag_var, completed)
               /\ EnterPhase(r, SODAW_READ_COMPLETE, TagOnly(LowestTag))
               /\ SendToServers(r, Opnum[r], SODAW_READ_COMPLETE, ToAll(TagOnly(ZeroTag)))
               /\ UNCHANGED <<processVars, floor>>
            \/ /\ ~ IsSmallerThan(tv.Tag_var, TagValue_var[r].Tag_var)
               /\ rx_state' = [rx_state EXCEPT ![r] = rx]
               /\ replies' = [replies EXCEPT ![r][s] = Tail(replies[r][s])]
               /\ UNCHANGED <<processVars, busy, Phase, num_responses, TagValue_var,
                              IsOnePhase, responders, requests, drops, historyVars>>
         /\ \A d \in Clients : d # r => Idle(d)
<1> DEFINE tv == Head(replies[r][s]).TagValue_var
           rx == AddElement(rx_state[r], tv)
           rest == [replies EXCEPT ![r][s] = Tail(replies[r][s])]
           elements == ElementsOf(rx, tv.Tag_var)
           out == [TagOnly(tv.Tag_var) EXCEPT !.Value = Decoded(elements)]
           old == IsSmallerThan(tv.Tag_var, TagValue_var[r].Tag_var)
<1>1. out.Tag_var = tv.Tag_var
  BY DEF TagOnly
<1>2. \/ /\ old /\ panics' = panics \cup {"a tag less than requested tag"}
         /\ stopped' = stopped \cup {r}
         /\ replies' = rest
         /\ UNCHANGED <<busy, phaseVars, requests, drops, historyVars>>
      \/ /\ ~ old /\ Cardinality(elements) = K
         /\ EndOperation(r, SODAW_READ_COMPLETE, out)
         /\ SendToServers(r, Opnum[r], SODAW_READ_COMPLETE, ToAll(TagOnly(ZeroTag)))
         /\ UNCHANGED processVars
      \/ /\ ~ old /\ rx_state' = [rx_state EXCEPT ![r] = rx]
         /\ replies' = rest
         /\ UNCHANGED <<processVars, busy, Phase, num_responses, TagValue_var,
                        IsOnePhase, responders, requests, drops, historyVars>>
  BY DEF CollectRelay
<1>3. /\ r \in busy /\ Running(r) /\ Phase[r] = SODAW_GET_DATA /\ replies[r][s] # <<>>
      /\ UNCHANGED <<serverVars, Opnum, incarnation>>
  BY DEF CollectRelay
<1> HIDE DEF tv, rx, out, elements, old
<1>4. CASE /\ old /\ panics' = panics \cup {"a tag less than requested tag"}
           /\ stopped' = stopped \cup {r}
           /\ replies' = rest
           /\ UNCHANGED <<busy, phaseVars, requests, drops, historyVars>>
  <2>1. ASSUME NEW d \in Clients, d # r PROVE Idle(d)
    BY <1>3, <1>4, <2>1 DEF Idle, SameClient, phaseVars, historyVars, TypeOK
  <2> QED
    BY <1>3, <1>4, <2>1 DEF old, tv
<1>5. CASE /\ ~ old /\ Cardinality(elements) = K
           /\ EndOperation(r, SODAW_READ_COMPLETE, out)
           /\ SendToServers(r, Opnum[r], SODAW_READ_COMPLETE, ToAll(TagOnly(ZeroTag)))
           /\ UNCHANGED processVars
  <2>1. /\ busy' = busy \ {r}
        /\ completed' = LargerTag(tv.Tag_var, completed)
        /\ EnterPhase(r, SODAW_READ_COMPLETE, TagOnly(LowestTag))
        /\ UNCHANGED floor
    BY <1>1, <1>5 DEF EndOperation
  <2>2. /\ Opnum[r] \in Nat /\ ToAll(TagOnly(ZeroTag)) \in [Servers -> TagValue]
        /\ SODAW_READ_COMPLETE \in Phases
    BY DataTypes, ToAllType DEF TypeOK
  <2>3. ASSUME NEW d \in Clients, d # r PROVE Idle(d)
    <3>1. \A i \in Incarnations, t \in Servers : requests'[d][i][t] = requests[d][i][t]
      BY <1>5, <2>2, <2>3, SendToNoOther
    <3> QED
      BY ZenonT(40), <1>3, <2>1, <2>3, <3>1, EnterPhaseEffect DEF Idle, SameClient
  <2> QED
    BY <1>3, <1>5, <2>1, <2>3 DEF old, tv, rx, elements
<1>6. CASE /\ ~ old /\ rx_state' = [rx_state EXCEPT ![r] = rx]
           /\ replies' = rest
           /\ UNCHANGED <<processVars, busy, Phase, num_responses, TagValue_var,
                          IsOnePhase, responders, requests, drops, historyVars>>
  <2>1. ASSUME NEW d \in Clients, d # r PROVE Idle(d)
    BY <1>3, <1>6, <2>1 DEF Idle, SameClient, historyVars, TypeOK
  <2> QED
    BY <1>3, <1>6, <2>1 DEF old, tv, rx
<1> QED
  BY <1>2, <1>4, <1>5, <1>6

LEMMA CollectReplyEffect ==
  ASSUME TypeOK, NEW c \in Clients, NEW s \in Servers, CollectReply(c, s)
  PROVE  LET tv == Head(replies[c][s]).TagValue_var IN
         /\ c \in busy /\ Running(c) /\ CountsReplies(c)
         /\ num_responses[c] < quorum_size(Phase[c])
         /\ replies[c][s] # <<>> /\ tv \in TagValue
         /\ \/ /\ Phase[c] = SODAW_PUT_DATA \/ HasReturned(c)
               /\ UNCHANGED <<TagValue_var, IsOnePhase, rx_state>>
            \/ /\ ~ (Phase[c] = SODAW_PUT_DATA \/ HasReturned(c))
               /\ TagValue_var'[c] = IF IsSmallerThan(TagValue_var[c].Tag_var, tv.Tag_var)
                                       THEN TagOnly(tv.Tag_var) ELSE TagValue_var[c]
               /\ IsOnePhase'[c] <=> StaysOnePhase(c, tv)
               /\ rx_state'[c] =
                    IF Phase[c] = SODAW_FAST_GET_TAG_DATA /\ StaysOnePhase(c, tv)
                      THEN AddChunk(rx_state[c], tv) ELSE {}
         /\ num_responses'[c] = num_responses[c] + 1
         /\ responders'[c] = responders[c] \cup {s}
         /\ replies'[c][s] = Tail(replies[c][s])
         /\ \A t \in Servers : t # s => replies'[c][t] = replies[c][t]
         /\ UNCHANGED <<serverVars, processVars, busy, Opnum, Phase, incarnation, requests,
                        drops, historyVars>>
         /\ \A d \in Clients : d # c => Idle(d)
<1> DEFINE tv == Head(replies[c][s]).TagValue_var
           one == StaysOnePhase(c, tv)
           rx == IF Phase[c] = SODAW_FAST_GET_TAG_DATA /\ one THEN AddChunk(rx_state[c], tv)
                 ELSE {}
           tag == IF IsSmallerThan(TagValue_var[c].Tag_var, tv.Tag_var)
                    THEN TagOnly(tv.Tag_var) ELSE TagValue_var[c]
           passive == Phase[c] = SODAW_PUT_DATA \/ HasReturned(c)
<1>1. /\ c \in busy /\ Running(c) /\ CountsReplies(c)
      /\ num_responses[c] < quorum_size(Phase[c])
      /\ replies[c][s] # <<>>
      /\ IF passive THEN UNCHANGED <<TagValue_var, IsOnePhase, rx_state>>
         ELSE /\ TagValue_var' = [TagValue_var EXCEPT ![c] = tag]
              /\ IsOnePhase' = [IsOnePhase EXCEPT ![c] = one]
              /\ rx_state' = [rx_state EXCEPT ![c] = rx]
      /\ num_responses' = [num_responses EXCEPT ![c] = num_responses[c] + 1]
      /\ responders' = [responders EXCEPT ![c] = responders[c] \cup {s}]
      /\ replies' = [replies EXCEPT ![c][s] = Tail(replies[c][s])]
      /\ UNCHANGED <<serverVars, processVars, busy, Opnum, Phase, incarnation, requests,
                     drops, historyVars>>
  BY DEF CollectReply
<1>2. tv \in TagValue
  BY <1>1, ReceiveType
<1>3. one \in BOOLEAN
  BY DEF StaysOnePhase, TypeOK
<1> HIDE DEF tv, one, rx, tag, passive
<1>4. /\ num_responses'[c] = num_responses[c] + 1
      /\ responders'[c] = responders[c] \cup {s}
      /\ replies'[c][s] = Tail(replies[c][s])
      /\ \A t \in Servers : t # s => replies'[c][t] = replies[c][t]
      /\ \A d \in Clients : d # c =>
           /\ num_responses'[d] = num_responses[d] /\ responders'[d] = responders[d]
           /\ replies'[d] = replies[d]
  BY <1>1 DEF TypeOK
<1>5. /\ \/ passive /\ UNCHANGED <<TagValue_var, IsOnePhase, rx_state>>
         \/ /\ ~ passive
            /\ TagValue_var'[c] = tag /\ (IsOnePhase'[c] <=> one) /\ rx_state'[c] = rx
      /\ \A d \in Clients : d # c =>
           /\ TagValue_var'[d] = TagValue_var[d] /\ IsOnePhase'[d] = IsOnePhase[d]
           /\ rx_state'[d] = rx_state[d]
  <2>1. CASE passive
    BY <1>1, <2>1
  <2>2. CASE ~ passive
    <3>1. TagValue_var' = [TagValue_var EXCEPT ![c] = tag]
          /\ IsOnePhase' = [IsOnePhase EXCEPT ![c] = one]
          /\ rx_state' = [rx_state EXCEPT ![c] = rx]
      BY <1>1, <2>2
    <3> QED
      BY <1>3, <2>2, <3>1 DEF TypeOK
  <2> QED
    BY <2>1, <2>2
<1>6. ASSUME NEW d \in Clients, d # c PROVE Idle(d)
  BY <1>1, <1>4, <1>5, <1>6 DEF Idle, SameClient, historyVars
<1> QED
  BY <1>1, <1>2, <1>4, <1>5, <1>6 DEF tv, one, rx, tag, passive

\* Who steps when a client restarts, is killed, or a server takes a message.
LEMMA EmulateEffect ==
  ASSUME TypeOK, NEW c \in Clients, emulateNewClient(c)
  PROVE  /\ c \notin busy /\ incarnation'[c] = incarnation[c] + 1
         /\ UNCHANGED <<serverVars, processVars, busy, Opnum, phaseVars, netVars, historyVars>>
         /\ \A d \in Clients : d # c => Idle(d)
BY DEF emulateNewClient, TypeOK, Idle, SameClient, phaseVars, netVars, historyVars

LEMMA KillClientEffect ==
  ASSUME TypeOK, NEW c \in Clients, KillClient(c)
  PROVE  /\ c \in busy /\ stopped' = stopped \cup {c} /\ replies' = replies
         /\ UNCHANGED <<serverVars, panics, busy, Opnum, incarnation, phaseVars, historyVars>>
         /\ \A d \in Clients : SameClient(d) /\ (d # c => Idle(d))
<1>1. /\ c \in busy /\ stopped' = stopped \cup {c} /\ replies' = replies
      /\ UNCHANGED <<serverVars, panics, busy, Opnum, incarnation, phaseVars, historyVars>>
  BY DEF KillClient
<1>2. ASSUME NEW d \in Clients PROVE SameClient(d)
  BY <1>1 DEF SameClient, phaseVars, historyVars
<1>3. ASSUME NEW d \in Clients, d # c PROVE Idle(d)
  <2>1. \A e \in Clients, i \in Incarnations, s \in Servers :
          requests'[e][i][s] = requests[e][i][s] \/ e = c
    BY KillEffect
  <2> QED
    BY <1>1, <1>2, <1>3, <2>1 DEF Idle
<1> QED
  BY <1>1, <1>2, <1>3

LEMMA KillServerEffect ==
  ASSUME TypeOK, NEW s \in Servers, KillServer(s)
  PROVE  /\ stopped' = stopped \cup {s}
         /\ UNCHANGED <<serverVars, panics, busy, Opnum, incarnation, phaseVars, netVars,
                        historyVars>>
         /\ \A d \in Clients : Idle(d)
BY DEF KillServer, Idle, SameClient, phaseVars, netVars, historyVars

LEMMA ServerStepEffect ==
  ASSUME TypeOK, NEW s \in Servers, NEW c \in Clients, NEW i \in Incarnations,
         ServerStep(s, c, i)
  PROVE  /\ UNCHANGED <<busy, Opnum, incarnation, phaseVars, drops, historyVars>>
         /\ \A d \in Clients : SameClient(d) /\ RequestsShrink(d)
<1>1. UNCHANGED <<busy, Opnum, incarnation, phaseVars, drops, historyVars>>
  BY DEF ServerStep
<1>2. ASSUME NEW d \in Clients PROVE SameClient(d)
  BY <1>1 DEF SameClient, phaseVars, historyVars
<1>3. ASSUME NEW d \in Clients, NEW j \in Incarnations, NEW t \in Servers
      PROVE  Shrinks(requests'[d][j][t], requests[d][j][t])
  <2>1. CASE d = c /\ j = i /\ t = s
    <3>1. /\ requests[c][i][s] \in Seq(Message) /\ requests[c][i][s] # <<>>
          /\ requests'[d][j][t] = Tail(requests[c][i][s])
      BY <2>1, TakeEffect
    <3> QED
      BY <2>1, <3>1, ReceiveMessages, ReceiveAtMostOne DEF Shrinks
  <2>2. CASE ~ (d = c /\ j = i /\ t = s)
    <3>1. requests'[d][j][t] = requests[d][j][t]
      BY <2>2, TakeEffect
    <3> QED
      BY <3>1, SameShrinks
  <2> QED
    BY <2>1, <2>2
<1> QED
  BY <1>1, <1>2, <1>3 DEF RequestsShrink

LEMMA ChannelIdle ==
  ASSUME NEW d \in Clients, Idle(d), ChannelInvOf(d)
  PROVE  ChannelInvOf(d)'
<1>1. SameClient(d) /\ RequestsShrink(d) /\ \A s \in Servers : replies'[d][s] = replies[d][s]
  BY SameShrinks DEF Idle, RequestsShrink
<1> QED
  BY <1>1, ChannelFrame

\* A phase that begins with the broadcast of one message for each server.
LEMMA SendEnters ==
  ASSUME TypeOK, TypeOK', NEW c \in Clients, NEW opnum \in Nat, NEW phase \in Phases,
         NEW payload \in [Servers -> TagValue], NEW tv,
         SendToServers(c, opnum, phase, payload), EnterPhase(c, phase, tv),
         c \in busy', Opnum'[c] = opnum, incarnation' = incarnation,
         phase # SODAW_READ_COMPLETE, c \in Readers => phase # SODAW_PUT_DATA,
         \A i \in Incarnations, s \in Servers : \A n \in Messages(requests[c][i][s]) :
           /\ n.Opnum <= opnum
           /\ n.Opnum = opnum =>
                /\ n.Phase # phase
                /\ n.Phase \notin {SODAW_PUT_DATA, SODAW_GET_DATA, SODAW_READ_COMPLETE}
  PROVE  ChannelInvOf(c)'
<1> DEFINE m == [s \in Servers |-> [Opnum |-> opnum, Phase |-> phase,
                                    TagValue_var |-> payload[s]]]
<1>1. \A i \in Incarnations, s \in Servers :
        \/ requests'[c][i][s] = requests[c][i][s]
        \/ /\ i = incarnation[c]
           /\ requests'[c][i][s] = Append(requests[c][i][s], m[s])
  <2>1. \A d \in Clients, i \in Incarnations, s \in Servers :
         \/ /\ requests'[d][i][s] = requests[d][i][s]
            /\ NothingLost => ~ (d = c /\ i = incarnation[c])
         \/ /\ d = c /\ i = incarnation[c]
            /\ requests'[d][i][s] = Append(requests[d][i][s],
                 [Opnum |-> opnum, Phase |-> phase, TagValue_var |-> payload[s]])
    BY SendEffect
  <2> QED
    BY <2>1
<1>2. \A s \in Servers : m[s] \in Message /\ m[s].Opnum = opnum /\ m[s].Phase = phase
  BY DEF Message
<1> HIDE DEF m
<1>3. Phase'[c] = phase /\ num_responses'[c] = 0 /\ responders'[c] = {}
      /\ \A s \in Servers : replies'[c][s] = <<>>
  BY EnterPhaseEffect
<1>4. EntersPhase(c, m)
  BY <1>1, <1>2, <1>3 DEF EntersPhase
<1> QED
  BY <1>4, ChannelEnter

LEMMA StartOperationChannel ==
  ASSUME TypeOK, TypeOK', NEW c \in Clients, NEW phase \in {SODAW_GET_TAG, SODAW_FAST_GET_TAG_DATA},
         StartOperation(c, phase), ChannelInvOf(c)
  PROVE  ChannelInvOf(c)'
<1>1. /\ phase \in Phases /\ phase # SODAW_READ_COMPLETE /\ phase # SODAW_PUT_DATA
      /\ Opnum[c] \in Nat /\ Opnum[c] + 1 \in Nat
      /\ ToAll(TagOnly(ZeroTag)) \in [Servers -> TagValue]
  BY DataTypes, ToAllType
  DEF TypeOK, SODAW_GET_TAG, SODAW_FAST_GET_TAG_DATA, SODAW_PUT_DATA, SODAW_READ_COMPLETE
<1>2. /\ EnterPhase(c, phase, TagOnly(LowestTag))
      /\ SendToServers(c, Opnum[c] + 1, phase, ToAll(TagOnly(ZeroTag)))
      /\ c \in busy' /\ Opnum'[c] = Opnum[c] + 1 /\ incarnation' = incarnation
  BY <1>1, StartOperationEffect
<1>3. ASSUME NEW i \in Incarnations, NEW s \in Servers, NEW n \in Messages(requests[c][i][s])
      PROVE  n.Opnum <= Opnum[c] /\ n.Opnum \in Nat
  <2>1. requests[c][i][s] \in Seq(Message)
    BY DEF TypeOK
  <2>2. n \in Message
    BY <2>1 DEF Messages
  <2> QED
    BY <2>2 DEF Message, ChannelInvOf, InOrder, NotFromTheFuture
<1>4. \A i \in Incarnations, s \in Servers : \A n \in Messages(requests[c][i][s]) :
        n.Opnum <= Opnum[c] + 1 /\ n.Opnum # Opnum[c] + 1
  BY <1>1, <1>3
<1> QED
  BY <1>1, <1>2, <1>4, SendEnters

\* From a query, a client enters a phase whose messages are new.
LEMMA FromQuery ==
  ASSUME TypeOK, NEW c \in Clients, c \in busy, ChannelInvOf(c),
         Phase[c] \in {SODAW_GET_TAG, SODAW_FAST_GET_TAG_DATA},
         NEW phase \in {SODAW_PUT_DATA, SODAW_GET_DATA}
  PROVE  \A i \in Incarnations, s \in Servers : \A n \in Messages(requests[c][i][s]) :
           /\ n.Opnum <= Opnum[c]
           /\ n.Opnum = Opnum[c] =>
                /\ n.Phase # phase
                /\ n.Phase \notin {SODAW_PUT_DATA, SODAW_GET_DATA, SODAW_READ_COMPLETE}
<1>1. Phase[c] \notin {SODAW_PUT_DATA, SODAW_GET_DATA, SODAW_READ_COMPLETE}
  BY DEF SODAW_GET_TAG, SODAW_GET_DATA, SODAW_FAST_GET_TAG_DATA, SODAW_PUT_DATA, SODAW_READ_COMPLETE
<1>2. \A i \in Incarnations, s \in Servers : \A n \in Messages(requests[c][i][s]) :
        NotFromTheFuture(c, n)
  BY DEF ChannelInvOf, InOrder
<1> QED
  BY <1>1, <1>2 DEF NotFromTheFuture

LEMMA WriterPutsDataChannel ==
  ASSUME TypeOK, TypeOK', NEW w \in Clients, WriterPutsData(w), ChannelInvOf(w)
  PROVE  ChannelInvOf(w)'
<1> DEFINE tv == [TagOnly(newTag(w)) EXCEPT !.Value = <<w, Opnum[w]>>]
           payload == [s \in Servers |-> [tv EXCEPT !.CodeIndex = s]]
<1>1. /\ w \in Writers /\ w \in busy /\ Phase[w] = SODAW_GET_TAG
      /\ payload \in [Servers -> TagValue]
      /\ EnterPhase(w, SODAW_PUT_DATA, tv)
      /\ SendToServers(w, Opnum[w], SODAW_PUT_DATA, payload)
      /\ UNCHANGED <<busy, Opnum, incarnation>>
  BY WriterPutsDataEffect DEF HasQuorum
<1> HIDE DEF tv, payload
<1>2. w \notin Readers /\ SODAW_PUT_DATA \in Phases /\ SODAW_PUT_DATA # SODAW_READ_COMPLETE
      /\ Opnum[w] \in Nat
  BY <1>1, ClientsAssumption, DataTypes DEF TypeOK, SODAW_PUT_DATA, SODAW_READ_COMPLETE
<1>3. \A i \in Incarnations, s \in Servers : \A n \in Messages(requests[w][i][s]) :
        /\ n.Opnum <= Opnum[w]
        /\ n.Opnum = Opnum[w] =>
             /\ n.Phase # SODAW_PUT_DATA
             /\ n.Phase \notin {SODAW_PUT_DATA, SODAW_GET_DATA, SODAW_READ_COMPLETE}
  BY <1>1, FromQuery
<1> QED
  BY <1>1, <1>2, <1>3, SendEnters

\* A reader that has its quorum was in a query.
LEMMA ReaderQuorum ==
  ASSUME TypeOK, NEW r \in Readers, HasQuorum(r), ChannelInvOf(r)
  PROVE  r \in busy /\ Phase[r] \in {SODAW_GET_TAG, SODAW_FAST_GET_TAG_DATA}
<1>1. r \in Clients /\ Phase[r] \in Phases
  BY DEF Clients, TypeOK
<1> QED
  BY <1>1, DataTypes DEF HasQuorum, CountsReplies, ChannelInvOf, InOrder

LEMMA ReaderAsksForDataChannel ==
  ASSUME TypeOK, TypeOK', NEW r \in Clients, ReaderAsksForData(r), ChannelInvOf(r)
  PROVE  ChannelInvOf(r)'
<1>1. /\ r \in Readers /\ HasQuorum(r)
      /\ EnterPhase(r, SODAW_GET_DATA, TagValue_var[r])
      /\ SendToServers(r, Opnum[r], SODAW_GET_DATA, ToAll(TagValue_var[r]))
      /\ ToAll(TagValue_var[r]) \in [Servers -> TagValue]
      /\ UNCHANGED <<busy, Opnum, incarnation>>
  BY ReaderAsksForDataEffect
<1>2. r \in busy /\ Phase[r] \in {SODAW_GET_TAG, SODAW_FAST_GET_TAG_DATA}
  BY <1>1, ReaderQuorum
<1>3. /\ SODAW_GET_DATA \in Phases /\ Opnum[r] \in Nat
      /\ SODAW_GET_DATA \notin {SODAW_READ_COMPLETE, SODAW_PUT_DATA}
  BY DataTypes DEF TypeOK, SODAW_GET_DATA, SODAW_READ_COMPLETE, SODAW_PUT_DATA
<1>4. \A i \in Incarnations, s \in Servers : \A n \in Messages(requests[r][i][s]) :
        /\ n.Opnum <= Opnum[r]
        /\ n.Opnum = Opnum[r] =>
             /\ n.Phase # SODAW_GET_DATA
             /\ n.Phase \notin {SODAW_PUT_DATA, SODAW_GET_DATA, SODAW_READ_COMPLETE}
  BY <1>2, FromQuery
<1> QED
  BY <1>1, <1>2, <1>3, <1>4, SendEnters

\* An operation that ends without a message.
LEMMA EndSilently ==
  ASSUME TypeOK, NEW c \in Clients, ChannelInvOf(c), c \notin busy', Opnum' = Opnum,
         \A s \in Servers : replies'[c][s] = <<>>, requests' = requests
  PROVE  ChannelInvOf(c)'
<1> DEFINE m == [s \in Servers |-> [Opnum |-> Opnum[c], Phase |-> SODAW_GET_DATA,
                                    TagValue_var |-> TagOnly(ZeroTag)]]
<1>1. \A s \in Servers : m[s] \in Message /\ m[s].Opnum = Opnum[c]
  <2>1. TagOnly(ZeroTag) \in TagValue /\ SODAW_GET_DATA \in Phases /\ Opnum[c] \in Nat
    BY DataTypes DEF TypeOK
  <2> QED
    BY <2>1 DEF Message
<1> HIDE DEF m
<1> QED
  BY <1>1, ChannelEnd

LEMMA CollectReplyChannel ==
  ASSUME TypeOK, TypeOK', NEW c \in Clients, NEW s \in Servers, CollectReply(c, s),
         ChannelInvOf(c)
  PROVE  ChannelInvOf(c)'
<1>1. /\ c \in busy /\ CountsReplies(c) /\ num_responses[c] < quorum_size(Phase[c])
      /\ replies[c][s] # <<>>
      /\ num_responses'[c] = num_responses[c] + 1
      /\ responders'[c] = responders[c] \cup {s}
      /\ replies'[c][s] = Tail(replies[c][s])
      /\ \A t \in Servers : t # s => replies'[c][t] = replies[c][t]
      /\ UNCHANGED <<busy, Opnum, Phase, incarnation, requests>>
  BY CollectReplyEffect
<1>2. Current(c)' = Current(c) /\ \A m : NotFromTheFuture(c, m)' <=> NotFromTheFuture(c, m)
  BY <1>1 DEF Current, NotFromTheFuture
<1>3. /\ replies[c][s] \in Seq(Message) /\ Head(replies[c][s]) \in Current(c)
      /\ Tail(replies[c][s]) = <<>> /\ s \notin responders[c]
      /\ \A i \in Incarnations : Messages(requests[c][i][s]) \cap Current(c) = {}
  <2>1. /\ replies[c][s] \in Seq(Message) /\ Tail(replies[c][s]) \in Seq(Message)
        /\ Head(replies[c][s]) \in Messages(replies[c][s])
        /\ Messages(Tail(replies[c][s])) \subseteq Messages(replies[c][s])
    BY <1>1, ReceiveType
  <2>2. Messages(replies[c][s]) \subseteq Current(c)
    BY DEF ChannelInvOf, InOrder
  <2>3. AtMostOne(replies[c][s], Current(c)) /\ s \notin responders[c]
        /\ \A i \in Incarnations : Messages(requests[c][i][s]) \cap Current(c) = {}
    BY <1>1 DEF ChannelInvOf, OneCurrent
  <2>4. Messages(Tail(replies[c][s])) \cap Current(c) = {}
    BY <1>1, <2>1, <2>2, <2>3, ReceiveAtMostOne
  <2>5. Messages(Tail(replies[c][s])) = {}
    BY <2>1, <2>2, <2>4
  <2> QED
    BY <2>1, <2>2, <2>3, <2>5, EmptyMessages
<1>4. InOrder(c)'
  <2>1. \A t \in Servers : Messages(replies'[c][t]) \subseteq Current(c)
    BY <1>1, <1>3, EmptyMessages DEF ChannelInvOf, InOrder
  <2> QED
    BY <1>1, <1>2, <2>1 DEF ChannelInvOf, InOrder
<1>5. OneCurrent(c)'
  <2> SUFFICES ASSUME NEW t \in Servers
               PROVE  /\ AtMostOne(replies'[c][t], Current(c))
                      /\ replies'[c][t] # <<>> => t \notin responders'[c]
                      /\ \A i \in Incarnations :
                           /\ AtMostOne(requests[c][i][t], Current(c))
                           /\ Messages(requests[c][i][t]) \cap Current(c) # {} =>
                                i = incarnation[c] /\ t \notin responders'[c]
                                /\ replies'[c][t] = <<>>
    BY <1>1, <1>2 DEF OneCurrent
  <2>1. /\ AtMostOne(replies[c][t], Current(c))
        /\ replies[c][t] # <<>> => t \notin responders[c]
        /\ \A i \in Incarnations :
             /\ AtMostOne(requests[c][i][t], Current(c))
             /\ Messages(requests[c][i][t]) \cap Current(c) # {} =>
                  i = incarnation[c] /\ t \notin responders[c] /\ replies[c][t] = <<>>
    BY <1>1 DEF ChannelInvOf, OneCurrent
  <2>2. CASE t = s
    BY <1>1, <1>3, <2>1, <2>2, EmptyMessages
  <2>3. CASE t # s
    BY <1>1, <2>1, <2>3
  <2> QED
    BY <2>2, <2>3
<1>6. Counted(c)'
  <2>1. IsFiniteSet(responders[c]) /\ Cardinality(responders[c]) \in Nat
    BY SMTT(30), ServersAssumption, FS_Subset, FS_CardinalityType DEF TypeOK
  <2>2. Cardinality(responders'[c]) = Cardinality(responders[c]) + 1
    BY <1>1, <1>3, <2>1, FS_AddElement
  <2>3. num_responses[c] = Cardinality(responders[c])
    BY <1>1 DEF ChannelInvOf, Counted
  <2>4. quorum_size(Phase[c]) \in Nat
    BY DataTypes DEF quorum_size
  <2> QED
    BY <1>1, <2>1, <2>2, <2>3, <2>4 DEF Counted
<1> QED
  BY <1>4, <1>5, <1>6 DEF ChannelInvOf

\* A reader that takes a relay counts nothing.
LEMMA TakeRelayChannel ==
  ASSUME TypeOK, NEW r \in Clients, NEW s \in Servers, ChannelInvOf(r),
         Phase[r] = SODAW_GET_DATA, replies[r][s] # <<>>,
         replies' = [replies EXCEPT ![r][s] = Tail(replies[r][s])],
         UNCHANGED <<busy, Opnum, Phase, requests>>
  PROVE  ChannelInvOf(r)'
<1>1. Current(r)' = Current(r) /\ \A m : NotFromTheFuture(r, m)' <=> NotFromTheFuture(r, m)
  BY DEF Current, NotFromTheFuture
<1>2. \A t \in Servers : Messages(replies'[r][t]) \subseteq Messages(replies[r][t])
  <2>1. replies'[r][s] = Tail(replies[r][s])
        /\ \A t \in Servers : t # s => replies'[r][t] = replies[r][t]
    BY DEF TypeOK
  <2> QED
    BY <2>1, ReceiveType
<1>3. InOrder(r)'
  BY <1>1, <1>2 DEF ChannelInvOf, InOrder
<1>4. ~ CountsReplies(r)'
  BY DEF CountsReplies
<1> QED
  BY <1>3, <1>4 DEF ChannelInvOf, OneCurrent, Counted

LEMMA CollectRelayChannel ==
  ASSUME TypeOK, TypeOK', NEW r \in Clients, NEW s \in Servers, CollectRelay(r, s),
         ChannelInvOf(r)
  PROVE  ChannelInvOf(r)'
<1>1. /\ r \in busy /\ Phase[r] = SODAW_GET_DATA /\ replies[r][s] # <<>>
      /\ UNCHANGED <<Opnum, incarnation>>
      /\ \/ /\ replies' = [replies EXCEPT ![r][s] = Tail(replies[r][s])]
            /\ UNCHANGED <<busy, Phase, requests>>
         \/ /\ busy' = busy \ {r}
            /\ EnterPhase(r, SODAW_READ_COMPLETE, TagOnly(LowestTag))
            /\ SendToServers(r, Opnum[r], SODAW_READ_COMPLETE, ToAll(TagOnly(ZeroTag)))
  BY CollectRelayEffect DEF phaseVars
<1>2. CASE /\ replies' = [replies EXCEPT ![r][s] = Tail(replies[r][s])]
           /\ UNCHANGED <<busy, Phase, requests>>
  BY <1>1, <1>2, TakeRelayChannel
<1>3. CASE /\ busy' = busy \ {r}
           /\ EnterPhase(r, SODAW_READ_COMPLETE, TagOnly(LowestTag))
           /\ SendToServers(r, Opnum[r], SODAW_READ_COMPLETE, ToAll(TagOnly(ZeroTag)))
  <2> DEFINE m == [t \in Servers |-> [Opnum |-> Opnum[r], Phase |-> SODAW_READ_COMPLETE,
                                      TagValue_var |-> ToAll(TagOnly(ZeroTag))[t]]]
  <2>1. /\ ToAll(TagOnly(ZeroTag)) \in [Servers -> TagValue] /\ SODAW_READ_COMPLETE \in Phases
        /\ Opnum[r] \in Nat
    BY DataTypes, ToAllType DEF TypeOK
  <2>2. \A d \in Clients, i \in Incarnations, t \in Servers :
         \/ /\ requests'[d][i][t] = requests[d][i][t]
            /\ NothingLost => ~ (d = r /\ i = incarnation[r])
         \/ /\ d = r /\ i = incarnation[r]
            /\ requests'[d][i][t] = Append(requests[d][i][t],
                 [Opnum |-> Opnum[r], Phase |-> SODAW_READ_COMPLETE,
                  TagValue_var |-> ToAll(TagOnly(ZeroTag))[t]])
    BY <1>3, <2>1, SendEffect
  <2>3. \A t \in Servers : m[t] \in Message /\ m[t].Opnum = Opnum[r]
    BY <2>1 DEF Message
  <2>4. \A i \in Incarnations, t \in Servers :
          \/ requests'[r][i][t] = requests[r][i][t]
          \/ requests'[r][i][t] = Append(requests[r][i][t], m[t])
    BY <2>2
  <2>5. \A t \in Servers : replies'[r][t] = <<>>
    BY <1>3, EnterPhaseEffect
  <2> HIDE DEF m
  <2> QED
    BY <1>1, <1>3, <2>3, <2>4, <2>5, ChannelEnd
<1> QED
  BY <1>1, <1>2, <1>3

\* A server answers a current message after it took it, so that it stays the only one.
LEMMA AnswerChannel ==
  ASSUME TypeOK, TypeOK', NEW d \in Clients, NEW s \in Servers, NEW i \in Incarnations,
         SameClient(d), ChannelInvOf(d), RequestsShrink(d),
         \A t \in Servers : t # s => replies'[d][t] = replies[d][t],
         NEW a \in Message, a \in Current(d),
         replies'[d][s] = Append(replies[d][s], a),
         CountsReplies(d) =>
           /\ i = incarnation[d] /\ Messages(requests[d][i][s]) \cap Current(d) # {}
           /\ Messages(requests'[d][i][s]) \cap Current(d) = {}
  PROVE  ChannelInvOf(d)'
<1>1. Current(d)' = Current(d) /\ \A m : NotFromTheFuture(d, m)' <=> NotFromTheFuture(d, m)
  BY SameCurrent DEF SameClient, NotFromTheFuture
<1>2. \A j \in Incarnations, t \in Servers :
        /\ Messages(requests'[d][j][t]) \subseteq Messages(requests[d][j][t])
        /\ \A S : AtMostOne(requests[d][j][t], S) => AtMostOne(requests'[d][j][t], S)
  BY DEF RequestsShrink, Shrinks
<1>3. replies[d][s] \in Seq(Message)
  BY DEF TypeOK
<1>4. InOrder(d)'
  <2>1. Messages(replies'[d][s]) = Messages(replies[d][s]) \cup {a}
    BY <1>3, SendMessages
  <2>2. \A t \in Servers : Messages(replies'[d][t]) \subseteq Current(d)
    BY <2>1 DEF ChannelInvOf, InOrder
  <2>3. ASSUME NEW t \in Servers, NEW j \in Incarnations, NEW m \in Messages(requests'[d][j][t])
        PROVE  NotFromTheFuture(d, m)'
    <3>1. m \in Messages(requests[d][j][t])
      BY <1>2
    <3>2. NotFromTheFuture(d, m)
      BY <3>1 DEF ChannelInvOf, InOrder
    <3> QED
      BY <1>1, <3>2
  <2>4. /\ d \in busy' => Phase'[d] # SODAW_READ_COMPLETE
        /\ d \in busy' /\ d \in Readers => Phase'[d] # SODAW_PUT_DATA
    BY DEF ChannelInvOf, InOrder, SameClient
  <2> QED
    BY <1>1, <2>2, <2>3, <2>4 DEF InOrder
<1>5. OneCurrent(d)'
  <2> SUFFICES ASSUME d \in busy, CountsReplies(d), NEW t \in Servers
               PROVE  /\ AtMostOne(replies'[d][t], Current(d))
                      /\ replies'[d][t] # <<>> => t \notin responders[d]
                      /\ \A j \in Incarnations :
                           /\ AtMostOne(requests'[d][j][t], Current(d))
                           /\ Messages(requests'[d][j][t]) \cap Current(d) # {} =>
                                j = incarnation[d] /\ t \notin responders[d]
                                /\ replies'[d][t] = <<>>
    BY <1>1 DEF OneCurrent, SameClient, CountsReplies
  <2>1. /\ AtMostOne(replies[d][t], Current(d))
        /\ replies[d][t] # <<>> => t \notin responders[d]
        /\ \A j \in Incarnations :
             /\ AtMostOne(requests[d][j][t], Current(d))
             /\ Messages(requests[d][j][t]) \cap Current(d) # {} =>
                  j = incarnation[d] /\ t \notin responders[d] /\ replies[d][t] = <<>>
    BY DEF ChannelInvOf, OneCurrent
  <2>2. CASE t # s
    BY <1>2, <2>1, <2>2
  <2>3. CASE t = s
    <3>1. s \notin responders[d] /\ replies[d][s] = <<>>
      BY <2>1, <2>3
    <3>2. AtMostOne(replies'[d][s], Current(d))
      <4>1. AtMostOne(<<>>, Current(d)) /\ Messages(<<>>) = {} /\ <<>> \in Seq(Message)
        BY EmptyMessages
      <4>2. AtMostOne(Append(<<>>, a), Current(d))
        BY <4>1, SendAtMostOne
      <4> QED
        BY <3>1, <4>2
    <3>3. ASSUME NEW j \in Incarnations
          PROVE  /\ AtMostOne(requests'[d][j][s], Current(d))
                 /\ Messages(requests'[d][j][s]) \cap Current(d) = {}
      <4>1. AtMostOne(requests'[d][j][s], Current(d))
        BY <1>2, <2>1, <2>3
      <4>2. CASE j = i
        BY <4>1, <4>2
      <4>3. CASE j # i
        <5>1. Messages(requests[d][j][s]) \cap Current(d) = {}
          BY <2>1, <2>3, <4>3
        <5> QED
          BY <1>2, <4>1, <5>1
      <4> QED
        BY <4>2, <4>3
    <3> QED
      BY <2>3, <3>1, <3>2, <3>3
  <2> QED
    BY <2>2, <2>3
<1>6. Counted(d)'
  BY DEF ChannelInvOf, Counted, SameClient, CountsReplies, quorum_size
<1> QED
  BY <1>4, <1>5, <1>6 DEF ChannelInvOf

LEMMA ServerStepChannel ==
  ASSUME TypeOK, TypeOK', ChannelInv, NEW s \in Servers, NEW c \in Clients,
         NEW i \in Incarnations, ServerStep(s, c, i), NEW d \in Clients
  PROVE  ChannelInvOf(d)'
<1> DEFINE m == Head(requests[c][i][s])
<1>1. SameClient(d) /\ RequestsShrink(d) /\ ChannelInvOf(d)
  BY ServerStepEffect DEF ChannelInv
<1>2. AnswersSent(s, c, i, m)
  BY StepHandled DEF Handled
<1>3. /\ requests[c][i][s] \in Seq(Message) /\ requests[c][i][s] # <<>>
      /\ requests'[c][i][s] = Tail(requests[c][i][s])
  BY TakeEffect
<1> HIDE DEF m
<1>4. \A t \in Servers : t # s => replies'[d][t] = replies[d][t]
  BY <1>2 DEF AnswersSent
<1>5. CASE replies'[d][s] = replies[d][s]
  BY <1>1, <1>4, <1>5, ChannelFrame
<1>6. CASE replies'[d][s] # replies[d][s]
  <2>1. PICK a \in Message : SentTo(d, s, c, i, m, a)
    BY <1>2, <1>6 DEF AnswersSent
  <2>2. /\ a \in Current(d) /\ replies'[d][s] = Append(replies[d][s], a)
        /\ (d = c /\ i = incarnation[c] /\ m \in Current(c)) \/ Phase[d] = SODAW_GET_DATA
    BY <2>1 DEF SentTo
  <2>3. CountsReplies(d) =>
           /\ i = incarnation[d] /\ Messages(requests[d][i][s]) \cap Current(d) # {}
           /\ Messages(requests'[d][i][s]) \cap Current(d) = {}
    <3> HAVE CountsReplies(d)
    <3>1. d = c /\ i = incarnation[c] /\ m \in Current(c) /\ d \in busy
      BY <2>2 DEF CountsReplies, Current
    <3>2. m \in Messages(requests[c][i][s])
      BY <1>3, ReceiveMessages DEF m
    <3>3. AtMostOne(requests[c][i][s], Current(c))
      BY <1>1, <3>1 DEF ChannelInvOf, OneCurrent
    <3>4. Messages(Tail(requests[c][i][s])) \cap Current(c) = {}
      BY <1>3, <3>1, <3>3, ReceiveAtMostOne DEF m
    <3> QED
      BY <1>3, <3>1, <3>2, <3>4
  <2> QED
    BY <1>1, <1>4, <2>2, <2>3, AnswerChannel
<1> QED
  BY <1>5, <1>6

LEMMA ChannelStep ==
  ASSUME TypeOK, TypeOK', ChannelInv, [Next]_vars
  PROVE  ChannelInv'
<1> USE DEF ChannelInv
<1>1. CASE UNCHANGED vars
  <2>1. \A d \in Clients : Idle(d)
    BY <1>1 DEF vars, phaseVars, netVars, historyVars, Idle, SameClient
  <2> QED
    BY <2>1, ChannelIdle
<1>2. ASSUME NEW c \in Clients, ClientStep(c), NEW d \in Clients
      PROVE  ChannelInvOf(d)'
  <2>1. CASE StartRead(c) \/ StartWrite(c)
    <3>1. PICK phase \in {SODAW_GET_TAG, SODAW_FAST_GET_TAG_DATA} : StartOperation(c, phase)
      BY <2>1 DEF StartRead, StartWrite
    <3>2. phase \in Phases
      BY DataTypes
    <3>3. d # c => Idle(d)
      BY <3>1, <3>2, StartOperationEffect
    <3> QED
      BY <3>1, <3>3, StartOperationChannel, ChannelIdle
  <2>2. ASSUME NEW s \in Servers, CollectReply(c, s) PROVE ChannelInvOf(d)'
    <3>1. d # c => Idle(d)
      BY <2>2, CollectReplyEffect
    <3> QED
      BY <2>2, <3>1, CollectReplyChannel, ChannelIdle
  <2>3. ASSUME NEW s \in Servers, CollectRelay(c, s) PROVE ChannelInvOf(d)'
    <3>1. d # c => Idle(d)
      BY <2>3, CollectRelayEffect
    <3> QED
      BY <2>3, <3>1, CollectRelayChannel, ChannelIdle
  <2>4. CASE WriterPutsData(c)
    <3>1. d # c => Idle(d)
      BY <2>4, WriterPutsDataEffect
    <3> QED
      BY <2>4, <3>1, WriterPutsDataChannel, ChannelIdle
  <2>5. CASE PutDataCompletes(c)
    <3>1. /\ busy' = busy \ {c} /\ Opnum' = Opnum /\ requests' = requests
          /\ EnterPhase(c, SODAW_PUT_DATA, TagOnly(LowestTag))
          /\ d # c => Idle(d)
      BY <2>5, PutDataCompletesEffect
    <3>2. \A s \in Servers : replies'[c][s] = <<>>
      BY <3>1, EnterPhaseEffect
    <3> QED
      BY <3>1, <3>2, EndSilently, ChannelIdle
  <2>6. CASE ReaderAsksForData(c)
    <3>1. d # c => Idle(d)
      BY <2>6, ReaderAsksForDataEffect
    <3> QED
      BY <2>6, <3>1, ReaderAsksForDataChannel, ChannelIdle
  <2>7. CASE ReadInOnePhase(c)
    <3>1. /\ Opnum' = Opnum /\ requests' = requests
          /\ \/ busy' = busy \ {c} /\ EnterPhase(c, SODAW_FAST_GET_TAG_DATA, TagOnly(LowestTag))
             \/ Idle(c)
          /\ d # c => Idle(d)
      BY <2>7, ReadInOnePhaseEffect
    <3>2. CASE busy' = busy \ {c} /\ EnterPhase(c, SODAW_FAST_GET_TAG_DATA, TagOnly(LowestTag))
      <4>1. \A s \in Servers : replies'[c][s] = <<>>
        BY <3>2, EnterPhaseEffect
      <4> QED
        BY <3>1, <3>2, <4>1, EndSilently, ChannelIdle
    <3> QED
      BY <3>1, <3>2, ChannelIdle
  <2>8. CASE emulateNewClient(c)
    <3>1. /\ c \notin busy' /\ UNCHANGED <<busy, Opnum, phaseVars, netVars>>
          /\ d # c => Idle(d)
      BY <2>8, EmulateEffect
    <3>2. ChannelInvOf(c)'
      BY <3>1 DEF ChannelInvOf, InOrder, OneCurrent, Counted, NotFromTheFuture, Current,
                  netVars, phaseVars
    <3> QED
      BY <3>1, <3>2, ChannelIdle
  <2>9. CASE KillClient(c)
    <3>1. SameClient(d) /\ replies' = replies
      BY <2>9, KillClientEffect
    <3>2. ASSUME NEW i \in Incarnations, NEW s \in Servers
          PROVE  Shrinks(requests'[d][i][s], requests[d][i][s])
      <4>1. \A e \in Clients, j \in Incarnations, t \in Servers :
              \/ requests'[e][j][t] = requests[e][j][t]
              \/ /\ e = c /\ j = incarnation[c] /\ requests[e][j][t] # <<>>
                 /\ requests[e][j][t] \in Seq(Message)
                 /\ requests'[e][j][t] = Front(requests[e][j][t])
        BY <2>9, KillEffect
      <4>2. CASE requests'[d][i][s] = requests[d][i][s]
        BY <4>2, SameShrinks
      <4>3. CASE /\ requests[d][i][s] # <<>> /\ requests[d][i][s] \in Seq(Message)
                 /\ requests'[d][i][s] = Front(requests[d][i][s])
        BY <4>3, FrontMessages DEF Shrinks
      <4> QED
        BY <4>1, <4>2, <4>3
    <3> QED
      BY <3>1, <3>2, ChannelFrame DEF RequestsShrink
  <2> QED
    BY <1>2, <2>1, <2>2, <2>3, <2>4, <2>5, <2>6, <2>7, <2>8, <2>9 DEF ClientStep
<1>3. ASSUME NEW s \in Servers, NEW c \in Clients, NEW i \in Incarnations,
             ServerStep(s, c, i)
      PROVE  ChannelInv'
  BY <1>3, ServerStepChannel
<1>4. ASSUME NEW s \in Servers, KillServer(s) PROVE ChannelInv'
  BY <1>4, KillServerEffect, ChannelIdle
<1> QED
  BY <1>1, <1>2, <1>3, <1>4 DEF Next, AllDone

\* A server has at most one message of a phase that counts replies, or its reply
\* is the only one on the way, or it was counted once: num_responses is a number
\* of different servers, whatever was lost, delayed or left behind by a restart
\* (ReceiveMessagesFromQuorum, isMessageUseful and the sockets of emulateNewClient).
THEOREM RepliesCountServers == Spec => []ChannelInv
<1>1. Init => TypeOK /\ ChannelInv
  BY TypeInit, ChannelInit
<1>2. TypeOK /\ ChannelInv /\ [Next]_vars => (TypeOK /\ ChannelInv)'
  BY TypeStep, ChannelStep
<1> QED
  BY <1>1, <1>2, PTL DEF Spec

-----------------------------------------------------------------------------
(* The order of the requests that begin and end registrations *)

\* Positions after a receive, in both directions.
LEMMA TailPositions ==
  ASSUME NEW T, NEW q \in Seq(T), q # <<>>
  PROVE  /\ Len(Tail(q)) = Len(q) - 1 /\ Len(q) \in Nat /\ Len(q) >= 1
         /\ DOMAIN q = 1..Len(q) /\ DOMAIN Tail(q) = 1..(Len(q) - 1)
         /\ Head(q) = q[1]
         /\ \A k \in 1..(Len(q) - 1) : Tail(q)[k] = q[k + 1] /\ k + 1 \in 1..Len(q)
         /\ \A k \in 2..Len(q) : k - 1 \in 1..(Len(q) - 1) /\ Tail(q)[k - 1] = q[k]
OBVIOUS

LEMMA AppendPositions ==
  ASSUME NEW T, NEW q \in Seq(T), NEW m \in T
  PROVE  /\ Len(q) \in Nat /\ DOMAIN q = 1..Len(q)
         /\ DOMAIN Append(q, m) = 1..(Len(q) + 1) /\ Len(Append(q, m)) = Len(q) + 1
         /\ Append(q, m)[Len(q) + 1] = m
         /\ \A k \in 1..Len(q) : Append(q, m)[k] = q[k] /\ k \in 1..(Len(q) + 1)
                                 /\ k < Len(q) + 1
OBVIOUS

LEMMA AskSame ==
  ASSUME NEW q \in Seq(Message), NEW R, NEW U, NEW S, NEW V, AskOrder(q, R, U),
         \A m \in Messages(q) : m.Phase = SODAW_GET_DATA =>
           (m.Opnum \in S => m.Opnum \in R) /\ (m.Opnum \in U => m.Opnum \in V)
  PROVE  AskOrder(q, S, V)
<1> SUFFICES ASSUME NEW k \in DOMAIN q, q[k].Phase = SODAW_GET_DATA
             PROVE  /\ q[k].Opnum \notin S
                    /\ AtMostOne(q, Asks(q[k].Opnum))
                    /\ q[k].Opnum \in V
                         \/ \E l \in DOMAIN q : k < l /\ q[l] \in Ends(q[k].Opnum)
  BY DEF AskOrder
<1>1. q[k] \in Messages(q)
  BY DEF Messages
<1>2. (q[k].Opnum \in S => q[k].Opnum \in R) /\ (q[k].Opnum \in U => q[k].Opnum \in V)
  BY <1>1
<1> QED
  BY <1>2 DEF AskOrder

LEMMA AskAppend ==
  ASSUME NEW q \in Seq(Message), NEW m \in Message, NEW R, NEW U, NEW V,
         AskOrder(q, R, U),
         \A n \in Messages(q) : n.Phase = SODAW_GET_DATA /\ n.Opnum \in U =>
           n.Opnum \in V \/ m \in Ends(n.Opnum),
         m.Phase = SODAW_GET_DATA =>
           m.Opnum \notin R /\ m.Opnum \in V /\ Messages(q) \cap Asks(m.Opnum) = {}
  PROVE  AskOrder(Append(q, m), R, V)
<1> DEFINE p == Append(q, m)
<1>1. /\ Len(q) \in Nat /\ DOMAIN q = 1..Len(q) /\ DOMAIN p = 1..(Len(q) + 1)
      /\ Len(p) = Len(q) + 1 /\ p[Len(q) + 1] = m
      /\ \A k \in 1..Len(q) : p[k] = q[k] /\ k \in 1..(Len(q) + 1) /\ k < Len(q) + 1
  BY AppendPositions
<1> HIDE DEF p
<1> SUFFICES ASSUME NEW k \in DOMAIN p, p[k].Phase = SODAW_GET_DATA
             PROVE  /\ p[k].Opnum \notin R
                    /\ AtMostOne(p, Asks(p[k].Opnum))
                    /\ p[k].Opnum \in V
                         \/ \E l \in DOMAIN p : k < l /\ p[l] \in Ends(p[k].Opnum)
  BY DEF AskOrder, p
<1>2. CASE k = Len(q) + 1
  <2>1. p[k] = m
    BY <1>1, <1>2
  <2>2. AtMostOne(q, Asks(m.Opnum))
    BY <2>1 DEF AtMostOne, Messages
  <2>3. AtMostOne(p, Asks(m.Opnum))
    BY <2>1, <2>2, SendAtMostOne DEF p
  <2> QED
    BY <2>1, <2>3
<1>3. CASE k \in 1..Len(q)
  <2> DEFINE o == q[k].Opnum
  <2>1. p[k] = q[k] /\ q[k] \in Messages(q) /\ q[k] \in Message
    BY <1>1, <1>3 DEF Messages
  <2>2. /\ o \notin R /\ AtMostOne(q, Asks(o))
        /\ o \in U \/ \E l \in DOMAIN q : k < l /\ q[l] \in Ends(o)
    BY <1>1, <1>3, <2>1 DEF AskOrder
  <2>3. m \notin Asks(o)
    BY <2>1 DEF Asks
  <2>4. AtMostOne(p, Asks(o))
    BY <2>2, <2>3, SendAtMostOne DEF p
  <2>5. o \in V \/ \E l \in DOMAIN p : k < l /\ p[l] \in Ends(o)
    <3>1. CASE o \in U
      <4>1. o \in V \/ m \in Ends(o)
        BY <2>1, <3>1
      <4> QED
        BY <1>1, <1>3, <4>1
    <3>2. CASE \E l \in DOMAIN q : k < l /\ q[l] \in Ends(o)
      BY <1>1, <3>2
    <3> QED
      BY <2>2, <3>1, <3>2
  <2> QED
    BY <2>1, <2>2, <2>4, <2>5
<1> QED
  BY <1>1, <1>2, <1>3

\* After a receive, what was registered since is what was received.
LEMMA AskTail ==
  ASSUME NEW q \in Seq(Message), q # <<>>, NEW R, NEW U, NEW S, AskOrder(q, R, U),
         \A o \in S : o \in R \/ Head(q) \in Asks(o)
  PROVE  AskOrder(Tail(q), S, U)
<1> DEFINE p == Tail(q)
<1>1. /\ Len(p) = Len(q) - 1 /\ Len(q) \in Nat /\ Len(q) >= 1
      /\ DOMAIN q = 1..Len(q) /\ DOMAIN p = 1..(Len(q) - 1)
      /\ Head(q) = q[1]
      /\ \A k \in 1..(Len(q) - 1) : p[k] = q[k + 1] /\ k + 1 \in 1..Len(q)
      /\ \A k \in 2..Len(q) : k - 1 \in 1..(Len(q) - 1) /\ p[k - 1] = q[k]
  BY TailPositions
<1>0. \A X : AtMostOne(q, X) => AtMostOne(p, X)
  BY ReceiveAtMostOne
<1> HIDE DEF p
<1> SUFFICES ASSUME NEW k \in DOMAIN p, p[k].Phase = SODAW_GET_DATA
             PROVE  /\ p[k].Opnum \notin S
                    /\ AtMostOne(p, Asks(p[k].Opnum))
                    /\ p[k].Opnum \in U
                         \/ \E l \in DOMAIN p : k < l /\ p[l] \in Ends(p[k].Opnum)
  BY DEF AskOrder, p
<1> DEFINE o == p[k].Opnum
<1>2. k \in 1..(Len(q) - 1) /\ p[k] = q[k + 1] /\ k + 1 \in DOMAIN q /\ p[k] \in Message
  BY <1>1
<1>3. /\ o \notin R /\ AtMostOne(q, Asks(o))
      /\ o \in U \/ \E l \in DOMAIN q : k + 1 < l /\ q[l] \in Ends(o)
  BY <1>2 DEF AskOrder
<1>4. Head(q) \notin Asks(o)
  <2>1. p[k] \in Asks(o)
    BY <1>2 DEF Asks
  <2> QED
    BY <1>1, <1>2, <1>3, <2>1 DEF AtMostOne
<1>5. o \notin S
  BY <1>3, <1>4
<1>6. o \in U \/ \E l \in DOMAIN p : k < l /\ p[l] \in Ends(o)
  <2>1. ASSUME NEW l \in DOMAIN q, k + 1 < l, q[l] \in Ends(o)
        PROVE  \E n \in DOMAIN p : k < n /\ p[n] \in Ends(o)
    <3>1. l \in 2..Len(q) /\ l - 1 \in DOMAIN p /\ p[l - 1] = q[l] /\ k < l - 1
      BY <1>1, <1>2, <2>1
    <3> QED
      BY <2>1, <3>1
  <2> QED
    BY <1>3, <2>1
<1> QED
  BY <1>0, <1>3, <1>5, <1>6

\* What a killed client had not sent yet ended no read.
LEMMA AskFront ==
  ASSUME NEW q \in Seq(Message), q # <<>>, NEW R, NEW U, AskOrder(q, R, U),
         q[Len(q)].Phase # SODAW_READ_COMPLETE
  PROVE  AskOrder(Front(q), R, U)
<1> DEFINE p == Front(q)
<1>1. /\ p \in Seq(Message) /\ Len(p) = Len(q) - 1 /\ Len(q) \in Nat
      /\ DOMAIN q = 1..Len(q) /\ DOMAIN p = 1..(Len(q) - 1)
      /\ \A k \in 1..(Len(q) - 1) : p[k] = q[k] /\ k \in 1..Len(q)
      /\ \A X : AtMostOne(q, X) => AtMostOne(p, X)
  BY FrontMessages
<1> HIDE DEF p
<1> SUFFICES ASSUME NEW k \in DOMAIN p, p[k].Phase = SODAW_GET_DATA
             PROVE  /\ p[k].Opnum \notin R
                    /\ AtMostOne(p, Asks(p[k].Opnum))
                    /\ p[k].Opnum \in U
                         \/ \E l \in DOMAIN p : k < l /\ p[l] \in Ends(p[k].Opnum)
  BY DEF AskOrder, p
<1> DEFINE o == p[k].Opnum
<1>2. k \in DOMAIN q /\ p[k] = q[k]
  BY <1>1
<1>3. /\ o \notin R /\ AtMostOne(q, Asks(o))
      /\ o \in U \/ \E l \in DOMAIN q : k < l /\ q[l] \in Ends(o)
  BY <1>2 DEF AskOrder
<1>4. ASSUME NEW l \in DOMAIN q, k < l, q[l] \in Ends(o)
      PROVE  \E n \in DOMAIN p : k < n /\ p[n] \in Ends(o)
  <2>1. l # Len(q)
    BY <1>4 DEF Ends
  <2>2. l \in DOMAIN p /\ p[l] = q[l]
    BY <1>1, <2>1
  <2> QED
    BY <1>4, <2>2
<1> QED
  BY <1>1, <1>3, <1>4

LEMMA EndSame ==
  ASSUME NEW q \in Seq(Message), NEW R, NEW S, EndOrder(q, R),
         \A m \in Messages(q) : m.Phase = SODAW_READ_COMPLETE /\ m.Opnum \in R =>
           m.Opnum \in S
  PROVE  EndOrder(q, S)
<1> SUFFICES ASSUME NEW l \in DOMAIN q, q[l].Phase = SODAW_READ_COMPLETE
             PROVE  /\ AtMostOne(q, Ends(q[l].Opnum))
                    /\ q[l].Opnum \in S
                         \/ \E k \in DOMAIN q : k < l /\ q[k] \in Asks(q[l].Opnum)
  BY DEF EndOrder
<1>1. q[l] \in Messages(q)
  BY DEF Messages
<1> QED
  BY <1>1 DEF EndOrder

LEMMA EndAppend ==
  ASSUME NEW q \in Seq(Message), NEW m \in Message, NEW R, EndOrder(q, R),
         m.Phase = SODAW_READ_COMPLETE =>
           /\ Messages(q) \cap Ends(m.Opnum) = {}
           /\ m.Opnum \in R \/ Messages(q) \cap Asks(m.Opnum) # {}
  PROVE  EndOrder(Append(q, m), R)
<1> DEFINE p == Append(q, m)
<1>1. /\ Len(q) \in Nat /\ DOMAIN q = 1..Len(q) /\ DOMAIN p = 1..(Len(q) + 1)
      /\ Len(p) = Len(q) + 1 /\ p[Len(q) + 1] = m
      /\ \A k \in 1..Len(q) : p[k] = q[k] /\ k \in 1..(Len(q) + 1) /\ k < Len(q) + 1
  BY AppendPositions
<1> HIDE DEF p
<1> SUFFICES ASSUME NEW l \in DOMAIN p, p[l].Phase = SODAW_READ_COMPLETE
             PROVE  /\ AtMostOne(p, Ends(p[l].Opnum))
                    /\ p[l].Opnum \in R
                         \/ \E k \in DOMAIN p : k < l /\ p[k] \in Asks(p[l].Opnum)
  BY DEF EndOrder, p
<1>2. CASE l = Len(q) + 1
  <2>1. p[l] = m
    BY <1>1, <1>2
  <2>2. AtMostOne(q, Ends(m.Opnum))
    BY <2>1 DEF AtMostOne, Messages
  <2>3. AtMostOne(p, Ends(m.Opnum))
    BY <2>1, <2>2, SendAtMostOne DEF p
  <2>4. ASSUME NEW n \in Messages(q), n \in Asks(m.Opnum)
        PROVE  \E k \in DOMAIN p : k < l /\ p[k] \in Asks(m.Opnum)
    <3>1. PICK k \in 1..Len(q) : n = q[k]
      BY <2>4 DEF Messages
    <3> QED
      BY <1>1, <1>2, <2>4, <3>1
  <2> QED
    BY <2>1, <2>3, <2>4
<1>3. CASE l \in 1..Len(q)
  <2> DEFINE o == q[l].Opnum
  <2>1. p[l] = q[l] /\ q[l] \in Messages(q) /\ q[l] \in Message
    BY <1>1, <1>3 DEF Messages
  <2>2. /\ AtMostOne(q, Ends(o))
        /\ o \in R \/ \E k \in DOMAIN q : k < l /\ q[k] \in Asks(o)
    BY <1>1, <1>3, <2>1 DEF EndOrder
  <2>3. m \notin Ends(o)
    BY <2>1 DEF Ends
  <2>4. AtMostOne(p, Ends(o))
    BY <2>2, <2>3, SendAtMostOne DEF p
  <2> QED
    BY <1>1, <2>1, <2>2, <2>4
<1> QED
  BY <1>1, <1>2, <1>3

\* After a receive, what was unregistered since is what was received, and what
\* was received is registered.
LEMMA EndTail ==
  ASSUME NEW q \in Seq(Message), q # <<>>, NEW R, NEW S, EndOrder(q, R),
         \A o \in R : o \in S \/ Head(q) \in Ends(o),
         \A o : Head(q) \in Asks(o) => o \in S
  PROVE  EndOrder(Tail(q), S)
<1> DEFINE p == Tail(q)
<1>1. /\ Len(p) = Len(q) - 1 /\ Len(q) \in Nat /\ Len(q) >= 1
      /\ DOMAIN q = 1..Len(q) /\ DOMAIN p = 1..(Len(q) - 1)
      /\ Head(q) = q[1]
      /\ \A k \in 1..(Len(q) - 1) : p[k] = q[k + 1] /\ k + 1 \in 1..Len(q)
      /\ \A k \in 2..Len(q) : k - 1 \in 1..(Len(q) - 1) /\ p[k - 1] = q[k]
  BY TailPositions
<1>0. \A X : AtMostOne(q, X) => AtMostOne(p, X)
  BY ReceiveAtMostOne
<1> HIDE DEF p
<1> SUFFICES ASSUME NEW l \in DOMAIN p, p[l].Phase = SODAW_READ_COMPLETE
             PROVE  /\ AtMostOne(p, Ends(p[l].Opnum))
                    /\ p[l].Opnum \in S
                         \/ \E k \in DOMAIN p : k < l /\ p[k] \in Asks(p[l].Opnum)
  BY DEF EndOrder, p
<1> DEFINE o == p[l].Opnum
<1>2. l \in 1..(Len(q) - 1) /\ p[l] = q[l + 1] /\ l + 1 \in DOMAIN q /\ p[l] \in Message
  BY <1>1
<1>3. /\ AtMostOne(q, Ends(o))
      /\ o \in R \/ \E k \in DOMAIN q : k < l + 1 /\ q[k] \in Asks(o)
  BY <1>2 DEF EndOrder
<1>4. Head(q) \notin Ends(o)
  <2>1. p[l] \in Ends(o)
    BY <1>2 DEF Ends
  <2> QED
    BY <1>1, <1>2, <1>3, <2>1 DEF AtMostOne
<1>5. ASSUME NEW k \in DOMAIN q, k < l + 1, q[k] \in Asks(o)
      PROVE  o \in S \/ \E n \in DOMAIN p : n < l /\ p[n] \in Asks(o)
  <2>1. CASE k = 1
    BY <1>1, <1>5, <2>1
  <2>2. CASE k # 1
    <3>1. k \in 2..Len(q) /\ k - 1 \in DOMAIN p /\ p[k - 1] = q[k] /\ k - 1 < l
      BY <1>1, <1>2, <1>5, <2>2
    <3> QED
      BY <1>5, <3>1
  <2> QED
    BY <2>1, <2>2
<1> QED
  BY <1>0, <1>3, <1>4, <1>5

LEMMA EndFront ==
  ASSUME NEW q \in Seq(Message), q # <<>>, NEW R, EndOrder(q, R)
  PROVE  EndOrder(Front(q), R)
<1> DEFINE p == Front(q)
<1>1. /\ p \in Seq(Message) /\ Len(p) = Len(q) - 1 /\ Len(q) \in Nat
      /\ DOMAIN q = 1..Len(q) /\ DOMAIN p = 1..(Len(q) - 1)
      /\ \A k \in 1..(Len(q) - 1) : p[k] = q[k] /\ k \in 1..Len(q)
      /\ \A X : AtMostOne(q, X) => AtMostOne(p, X)
  BY FrontMessages
<1> HIDE DEF p
<1> SUFFICES ASSUME NEW l \in DOMAIN p, p[l].Phase = SODAW_READ_COMPLETE
             PROVE  /\ AtMostOne(p, Ends(p[l].Opnum))
                    /\ p[l].Opnum \in R
                         \/ \E k \in DOMAIN p : k < l /\ p[k] \in Asks(p[l].Opnum)
  BY DEF EndOrder, p
<1>2. /\ l \in DOMAIN q /\ p[l] = q[l]
      /\ \A k \in DOMAIN q : k < l => k \in DOMAIN p /\ p[k] = q[k]
  BY <1>1
<1> QED
  BY <1>1, <1>2 DEF EndOrder
-----------------------------------------------------------------------------
(* Registrations *)

LEMMA RegisteredReads ==
  ASSUME TypeOK, NEW s \in Servers, NEW r
  PROVE  /\ Registered(s, r) \subseteq FoundBy(s, r) /\ FoundBy(s, r) \subseteq Nat
         /\ \A o : o \in Registered(s, r) <=> doesReadExist(s, r, o)
<1>1. \A x \in readsInProgress[s] : x.opnum \in Nat
  BY DEF TypeOK, ReadsInProgress
<1> QED
  BY <1>1 DEF Registered, FoundBy, doesReadExist, SameRead

\* What order says of a message to a server.
LEMMA Recent ==
  ASSUME TypeOK, NEW c \in Clients, ChannelInvOf(c), NEW i \in Incarnations, NEW s \in Servers,
         NEW m \in Messages(requests[c][i][s])
  PROVE  /\ m \in Message /\ m.Opnum \in Nat /\ m.Opnum <= Opnum[c]
         /\ c \in busy /\ m.Phase = SODAW_READ_COMPLETE => m.Opnum # Opnum[c]
         /\ c \in busy /\ m.Phase = SODAW_GET_DATA /\ m.Opnum = Opnum[c] =>
              Phase[c] = SODAW_GET_DATA
<1>1. requests[c][i][s] \in Seq(Message)
  BY DEF TypeOK
<1>2. m \in Message
  BY <1>1 DEF Messages
<1>3. NotFromTheFuture(c, m) /\ (c \in busy => Phase[c] # SODAW_READ_COMPLETE)
  BY DEF ChannelInvOf, InOrder
<1> QED
  BY <1>2, <1>3 DEF Message, NotFromTheFuture

\* Client d keeps its operation, its phase, its sockets and what it has sent.
Quiet(d) ==
  /\ d \in busy' <=> d \in busy
  /\ Opnum'[d] = Opnum[d] /\ Phase'[d] = Phase[d] /\ incarnation'[d] = incarnation[d]
  /\ \A i \in Incarnations, s \in Servers : requests'[d][i][s] = requests[d][i][s]

LEMMA IdleQuiet == ASSUME NEW d, Idle(d) PROVE Quiet(d)
BY DEF Idle, SameClient, Quiet

LEMMA FoundByGrows ==
  ASSUME TypeOK, NEW s \in Servers, NEW r, stopped \subseteq stopped',
         Registered(s, r)' = Registered(s, r)
  PROVE  FoundBy(s, r) \subseteq FoundBy(s, r)'
BY RegisteredReads DEF FoundBy, Running

LEMMA SocketQuiet ==
  ASSUME NEW d \in Clients, Quiet(d), stopped \subseteq stopped', TypeOK, SocketInv(d)
  PROVE  SocketInv(d)'
<1>1. incarnation[d] \in Incarnations
  BY DEF TypeOK
<1>2. Running(d)' => Running(d)
  BY DEF Running
<1> SUFFICES ASSUME NEW s \in Servers
             PROVE  /\ \A i, j \in Incarnations :
                         \A m \in Messages(requests'[d][i][s]), n \in Messages(requests'[d][j][s]) :
                           m.Opnum = n.Opnum => i = j
                    /\ d \in busy' =>
                         \A i \in Incarnations : \A m \in Messages(requests'[d][i][s]) :
                           m.Opnum = Opnum'[d] => i = incarnation'[d]
                    /\ d \in busy' /\ Running(d)' =>
                         (requests'[d][incarnation'[d]][s] # <<>> =>
                            requests'[d][incarnation'[d]][s][Len(requests'[d][incarnation'[d]][s])].Opnum
                              = Opnum'[d])
  BY DEF SocketInv
<1>3. \A i \in Incarnations : requests'[d][i][s] = requests[d][i][s]
  BY DEF Quiet
<1> QED
  BY <1>1, <1>2, <1>3 DEF SocketInv, Quiet

LEMMA RegQuiet ==
  ASSUME TypeOK, NEW d \in Clients, Quiet(d), RegInvOf(d), stopped \subseteq stopped',
         readsInProgress' = readsInProgress
  PROVE  RegInvOf(d)'
<1>1. SocketInv(d)'
  BY SocketQuiet DEF RegInvOf
<1>2. ASSUME NEW s \in Servers
      PROVE  Registered(s, d)' = Registered(s, d) /\ FoundBy(s, d) \subseteq FoundBy(s, d)'
  <2>1. Registered(s, d)' = Registered(s, d)
    BY DEF Registered
  <2> QED
    BY <2>1, FoundByGrows
<1>3. \A i \in Incarnations : Underway(d, i)' = Underway(d, i)
  BY DEF Underway, Quiet
<1>4. ASSUME NEW s \in Servers, NEW i \in Incarnations
      PROVE  /\ AskOrder(requests'[d][i][s], Registered(s, d)', Underway(d, i)')
             /\ EndOrder(requests'[d][i][s], FoundBy(s, d)')
  <2>1. /\ requests'[d][i][s] = requests[d][i][s] /\ requests[d][i][s] \in Seq(Message)
        /\ AskOrder(requests[d][i][s], Registered(s, d), Underway(d, i))
        /\ EndOrder(requests[d][i][s], FoundBy(s, d))
    BY DEF Quiet, TypeOK, RegInvOf
  <2>2. EndOrder(requests[d][i][s], FoundBy(s, d)')
    BY <1>2, <2>1, EndSame
  <2> QED
    BY <1>2, <1>3, <2>1, <2>2
<1>5. ASSUME NEW s \in Servers PROVE AwaitInv(d, s)'
  <2>1. incarnation[d] \in Incarnations /\ AwaitInv(d, s)
    BY DEF TypeOK, RegInvOf
  <2>2. Running(d)' => Running(d)
    BY DEF Running
  <2> QED
    BY <1>2, <2>1, <2>2 DEF AwaitInv, Quiet
<1>6. ASSUME NEW s \in Servers, NEW x \in readsInProgress[s], x.reader_name = d
      PROVE  EntryOK(d, s, x)'
  <2>1. x.zmq_identity \in Incarnations /\ EntryOK(d, s, x)
    BY <1>6 DEF TypeOK, ReadsInProgress, RegInvOf
  <2> QED
    BY <1>3, <2>1 DEF EntryOK, Quiet
<1> QED
  BY <1>1, <1>4, <1>5, <1>6 DEF RegInvOf

\* A broadcast reaches every channel when nothing is lost.
LEMMA SendsToAll ==
  ASSUME TypeOK, NothingLost, NEW c \in Clients, NEW opnum \in Nat, NEW phase \in Phases,
         NEW payload \in [Servers -> TagValue], SendToServers(c, opnum, phase, payload)
  PROVE  \A i \in Incarnations, s \in Servers :
           LET m == [Opnum |-> opnum, Phase |-> phase, TagValue_var |-> payload[s]] IN
           /\ m \in Message /\ m.Opnum = opnum /\ m.Phase = phase
           /\ i # incarnation[c] => requests'[c][i][s] = requests[c][i][s]
           /\ i = incarnation[c] => requests'[c][i][s] = Append(requests[c][i][s], m)
<1>1. \A d \in Clients, i \in Incarnations, s \in Servers :
              \/ /\ requests'[d][i][s] = requests[d][i][s]
                 /\ NothingLost => ~ (d = c /\ i = incarnation[c])
              \/ /\ d = c /\ i = incarnation[c]
                 /\ requests'[d][i][s] = Append(requests[d][i][s],
                      [Opnum |-> opnum, Phase |-> phase, TagValue_var |-> payload[s]])
  BY SendEffect
<1>2. \A s \in Servers :
        [Opnum |-> opnum, Phase |-> phase, TagValue_var |-> payload[s]] \in Message
  BY SendEffect
<1> QED
  BY <1>1, <1>2

\* The client sends one message m[s] to each server, all of one operation.
SendsAll(c, m, o, phase) ==
  \A s \in Servers :
    /\ m[s] \in Message /\ m[s].Opnum = o /\ m[s].Phase = phase
    /\ \A i \in Incarnations :
         /\ i # incarnation[c] => requests'[c][i][s] = requests[c][i][s]
         /\ i = incarnation[c] => requests'[c][i][s] = Append(requests[c][i][s], m[s])

LEMMA SendSocket ==
  ASSUME TypeOK, NEW c \in Clients, NEW o \in Nat, NEW m, NEW phase, SendsAll(c, m, o, phase),
         SocketInv(c), incarnation'[c] = incarnation[c], Opnum'[c] = o,
         \A s \in Servers, i \in Incarnations : \A n \in Messages(requests[c][i][s]) :
           n.Opnum = o => i = incarnation[c]
  PROVE  SocketInv(c)'
<1> DEFINE inc == incarnation[c]
<1>0. inc \in Incarnations
  BY DEF TypeOK
<1> SUFFICES ASSUME NEW s \in Servers
             PROVE  /\ \A i, j \in Incarnations :
                         \A k \in Messages(requests'[c][i][s]), n \in Messages(requests'[c][j][s]) :
                           k.Opnum = n.Opnum => i = j
                    /\ \A i \in Incarnations : \A n \in Messages(requests'[c][i][s]) :
                           n.Opnum = o => i = inc
                    /\ requests'[c][inc][s][Len(requests'[c][inc][s])].Opnum = o
  BY DEF SocketInv
<1> HIDE DEF inc
<1>1. /\ m[s] \in Message /\ m[s].Opnum = o
      /\ \A i \in Incarnations :
           /\ i # inc => requests'[c][i][s] = requests[c][i][s]
           /\ i = inc => requests'[c][i][s] = Append(requests[c][i][s], m[s])
           /\ requests[c][i][s] \in Seq(Message)
  BY DEF SendsAll, TypeOK, inc
<1>2. \A i \in Incarnations : Messages(Append(requests[c][i][s], m[s]))
                                = Messages(requests[c][i][s]) \cup {m[s]}
  BY <1>1, SendMessages
<1>3. ASSUME NEW i \in Incarnations, NEW n \in Messages(requests'[c][i][s])
      PROVE  n \in Messages(requests[c][i][s]) \/ (n = m[s] /\ i = inc)
  BY <1>1, <1>2
<1>4. ASSUME NEW i \in Incarnations, NEW n \in Messages(requests'[c][i][s]), n.Opnum = o
      PROVE  i = inc
  BY <1>3, <1>4 DEF inc
<1>5. ASSUME NEW i \in Incarnations, NEW j \in Incarnations,
             NEW k \in Messages(requests'[c][i][s]), NEW n \in Messages(requests'[c][j][s]),
             k.Opnum = n.Opnum
      PROVE  i = j
  <2>1. CASE k.Opnum = o
    BY <1>4, <1>5, <2>1
  <2>2. CASE k.Opnum # o
    <3>1. k \in Messages(requests[c][i][s]) /\ n \in Messages(requests[c][j][s])
      BY <1>1, <1>3, <1>5, <2>2
    <3> QED
      BY <1>5, <3>1 DEF SocketInv
  <2> QED
    BY <2>1, <2>2
<1>6. requests'[c][inc][s][Len(requests'[c][inc][s])].Opnum = o
  <2>1. requests'[c][inc][s] = Append(requests[c][inc][s], m[s])
        /\ requests[c][inc][s] \in Seq(Message)
    BY <1>0, <1>1
  <2>2. Append(requests[c][inc][s], m[s])[Len(Append(requests[c][inc][s], m[s]))] = m[s]
    BY <1>1, <2>1, AppendPositions
  <2> QED
    BY <1>1, <2>1, <2>2
<1> QED
  BY <1>4, <1>5, <1>6

LEMMA RegSend ==
  ASSUME TypeOK, NEW c \in Clients, NEW o \in Nat, NEW m, NEW phase, SendsAll(c, m, o, phase),
         RegInvOf(c), incarnation' = incarnation, Opnum'[c] = o,
         readsInProgress' = readsInProgress, stopped' = stopped,
         \A s \in Servers, i \in Incarnations : \A n \in Messages(requests[c][i][s]) :
           n.Opnum = o => i = incarnation[c],
         \A s \in Servers, i \in Incarnations : \A n \in Messages(requests[c][i][s]) :
           n.Phase = SODAW_GET_DATA /\ n.Opnum \in Underway(c, i) =>
             n.Opnum \in Underway(c, i)' \/ m[s] \in Ends(n.Opnum),
         phase = SODAW_GET_DATA =>
           \A s \in Servers :
             /\ o \notin Registered(s, c) /\ o \in Underway(c, incarnation[c])'
             /\ Messages(requests[c][incarnation[c]][s]) \cap Asks(o) = {},
         phase = SODAW_READ_COMPLETE =>
           \A s \in Servers :
             /\ Messages(requests[c][incarnation[c]][s]) \cap Ends(o) = {}
             /\ \/ o \in FoundBy(s, c)
                \/ Messages(requests[c][incarnation[c]][s]) \cap Asks(o) # {},
         \A s \in Servers : AwaitInv(c, s)',
         \A s \in Servers : \A x \in readsInProgress[s] :
           x.reader_name = c => EntryOK(c, s, x)'
  PROVE  RegInvOf(c)'
<1> DEFINE inc == incarnation[c]
<1>1. SocketInv(c)'
  BY SendSocket DEF RegInvOf
<1>2. \A s \in Servers : Registered(s, c)' = Registered(s, c) /\ FoundBy(s, c)' = FoundBy(s, c)
  BY DEF Registered, FoundBy, Running
<1>3. ASSUME NEW s \in Servers, NEW i \in Incarnations
      PROVE  /\ AskOrder(requests'[c][i][s], Registered(s, c)', Underway(c, i)')
             /\ EndOrder(requests'[c][i][s], FoundBy(s, c)')
  <2> DEFINE q == requests[c][i][s]
             R == Registered(s, c)
             F == FoundBy(s, c)
             U == Underway(c, i)
             V == Underway(c, i)'
  <2>1. q \in Seq(Message) /\ AskOrder(q, R, U) /\ EndOrder(q, F)
    BY DEF TypeOK, RegInvOf
  <2>2. /\ m[s] \in Message /\ m[s].Opnum = o /\ m[s].Phase = phase
        /\ i # inc => requests'[c][i][s] = q
        /\ i = inc => requests'[c][i][s] = Append(q, m[s])
    BY DEF SendsAll
  <2>3. \A n \in Messages(q) : n.Phase = SODAW_GET_DATA /\ n.Opnum \in U =>
          n.Opnum \in V \/ m[s] \in Ends(n.Opnum)
    OBVIOUS
  <2>4. CASE i # inc
    <3>1. U = {}
      BY <2>4 DEF Underway
    <3> HIDE DEF q, R, U, V, F
    <3>2. AskOrder(q, R, V)
      BY <2>1, <3>1, AskSame
    <3> QED
      BY <1>2, <2>1, <2>2, <2>4, <3>2 DEF R, V, F
  <2>5. CASE i = inc
    <3>1. m[s].Phase = SODAW_GET_DATA =>
            m[s].Opnum \notin R /\ m[s].Opnum \in V /\ Messages(q) \cap Asks(m[s].Opnum) = {}
      BY <2>2, <2>5
    <3>2. m[s].Phase = SODAW_READ_COMPLETE =>
            /\ Messages(q) \cap Ends(m[s].Opnum) = {}
            /\ m[s].Opnum \in F \/ Messages(q) \cap Asks(m[s].Opnum) # {}
      BY <2>2, <2>5
    <3> HIDE DEF q, R, U, V, F
    <3>3. AskOrder(Append(q, m[s]), R, V)
      BY <2>1, <2>2, <2>3, <3>1, AskAppend
    <3>4. EndOrder(Append(q, m[s]), F)
      BY <2>1, <2>2, <3>2, EndAppend
    <3> QED
      BY <1>2, <2>2, <2>5, <3>3, <3>4 DEF R, V, F
  <2> QED
    BY <2>4, <2>5
<1> QED
  BY <1>1, <1>3 DEF RegInvOf

\* A registration whose READ_COMPLETE was on the way has it on the way still.
LEMMA EntryStays ==
  ASSUME TypeOK, NEW c \in Clients, NEW s \in Servers, NEW x \in readsInProgress[s],
         x.reader_name = c, EntryOK(c, s, x), Opnum[c] <= Opnum'[c], Opnum'[c] \in Nat,
         Messages(requests[c][x.zmq_identity][s])
           \subseteq Messages(requests'[c][x.zmq_identity][s]),
         x.opnum \in Underway(c, x.zmq_identity) =>
           \/ x.opnum \in Underway(c, x.zmq_identity)'
           \/ \E m \in Messages(requests'[c][x.zmq_identity][s]) : m \in Ends(x.opnum),
         c \in busy' /\ x.opnum = Opnum'[c] => Phase'[c] = SODAW_GET_DATA
  PROVE  EntryOK(c, s, x)'
<1>1. x.opnum \in Nat /\ Opnum[c] \in Nat
  BY DEF TypeOK, ReadsInProgress
<1>2. /\ ~ x.outdated /\ x.opnum <= Opnum[c]
      /\ \/ x.opnum \in Underway(c, x.zmq_identity)
         \/ \E m \in Messages(requests[c][x.zmq_identity][s]) : m \in Ends(x.opnum)
  BY DEF EntryOK
<1>3. \/ x.opnum \in Underway(c, x.zmq_identity)'
      \/ \E m \in Messages(requests'[c][x.zmq_identity][s]) : m \in Ends(x.opnum)
  BY <1>2
<1> QED
  BY <1>1, <1>2, <1>3 DEF EntryOK

LEMMA SendsAllMessages ==
  ASSUME TypeOK, NEW c \in Clients, NEW o, NEW m, NEW phase, SendsAll(c, m, o, phase),
         NEW s \in Servers, NEW i \in Incarnations
  PROVE  /\ Messages(requests[c][i][s]) \subseteq Messages(requests'[c][i][s])
         /\ i = incarnation[c] => m[s] \in Messages(requests'[c][i][s])
<1>1. /\ m[s] \in Message /\ requests[c][i][s] \in Seq(Message)
      /\ i # incarnation[c] => requests'[c][i][s] = requests[c][i][s]
      /\ i = incarnation[c] => requests'[c][i][s] = Append(requests[c][i][s], m[s])
  BY DEF SendsAll, TypeOK
<1>2. Messages(Append(requests[c][i][s], m[s])) = Messages(requests[c][i][s]) \cup {m[s]}
  BY <1>1, SendMessages
<1> QED
  BY <1>1, <1>2

LEMMA StartOperationReg ==
  ASSUME TypeOK, TypeOK', NothingLost, NEW c \in Clients,
         NEW phase \in {SODAW_GET_TAG, SODAW_FAST_GET_TAG_DATA},
         StartOperation(c, phase), ChannelInvOf(c), RegInvOf(c)
  PROVE  RegInvOf(c)'
<1> DEFINE o == Opnum[c] + 1
           payload == ToAll(TagOnly(ZeroTag))
           m == [s \in Servers |-> [Opnum |-> o, Phase |-> phase, TagValue_var |-> payload[s]]]
<1>1. /\ phase \in Phases
      /\ phase \notin {SODAW_READ_COMPLETE, SODAW_PUT_DATA, SODAW_GET_DATA}
      /\ Opnum[c] \in Nat /\ o \in Nat /\ payload \in [Servers -> TagValue]
  BY DataTypes, ToAllType
  DEF TypeOK, SODAW_GET_TAG, SODAW_FAST_GET_TAG_DATA, SODAW_PUT_DATA, SODAW_READ_COMPLETE,
      SODAW_GET_DATA
<1>2. /\ c \notin busy /\ busy' = busy \cup {c} /\ SendToServers(c, o, phase, payload)
      /\ c \in busy' /\ Opnum'[c] = o /\ incarnation' = incarnation
      /\ UNCHANGED <<serverVars, processVars>> /\ Phase'[c] = phase
  BY <1>1, StartOperationEffect
<1> HIDE DEF payload
<1>3. SendsAll(c, m, o, phase)
  <2>1. \A i \in Incarnations, s \in Servers :
           LET n == [Opnum |-> o, Phase |-> phase, TagValue_var |-> payload[s]] IN
           /\ n \in Message /\ n.Opnum = o /\ n.Phase = phase
           /\ i # incarnation[c] => requests'[c][i][s] = requests[c][i][s]
           /\ i = incarnation[c] => requests'[c][i][s] = Append(requests[c][i][s], n)
    BY <1>1, <1>2, SendsToAll
  <2>2. incarnation[c] \in Incarnations
    BY DEF TypeOK
  <2> QED
    BY <2>1, <2>2 DEF SendsAll
<1> HIDE DEF m
<1>4. \A s \in Servers, i \in Incarnations : \A n \in Messages(requests[c][i][s]) : n.Opnum # o
  BY <1>1, Recent
<1>5. readsInProgress' = readsInProgress /\ stopped' = stopped
  BY <1>2 DEF serverVars, processVars
<1>6. \A i \in Incarnations : Underway(c, i) = {}
  BY <1>2 DEF Underway
<1>7. \A s \in Servers : AwaitInv(c, s)'
  BY <1>1, <1>2 DEF AwaitInv
<1>8. ASSUME NEW s \in Servers, NEW x \in readsInProgress[s], x.reader_name = c
      PROVE  EntryOK(c, s, x)'
  <2>1. EntryOK(c, s, x)
    BY <1>8 DEF RegInvOf
  <2>2. x.opnum <= Opnum[c] /\ x.opnum \in Nat /\ x.zmq_identity \in Incarnations
    <3>1. x \in ReadsInProgress
      BY DEF TypeOK
    <3> QED
      BY <2>1, <3>1 DEF EntryOK, ReadsInProgress
  <2>3. x.opnum # Opnum'[c] /\ Opnum[c] <= Opnum'[c] /\ Opnum'[c] \in Nat
    BY <1>1, <1>2, <2>2
  <2>4. Messages(requests[c][x.zmq_identity][s])
           \subseteq Messages(requests'[c][x.zmq_identity][s])
    BY <1>3, <2>2, SendsAllMessages
  <2> QED
    BY <1>6, <1>8, <2>1, <2>2, <2>3, <2>4, EntryStays
<1> HIDE DEF o
<1> QED
  BY <1>1, <1>2, <1>3, <1>4, <1>5, <1>6, <1>7, <1>8, RegSend

LEMMA WriterPutsDataReg ==
  ASSUME TypeOK, TypeOK', NothingLost, NEW w \in Clients, WriterPutsData(w),
         ChannelInvOf(w), RegInvOf(w)
  PROVE  RegInvOf(w)'
<1> DEFINE tv == [TagOnly(newTag(w)) EXCEPT !.Value = <<w, Opnum[w]>>]
           payload == [s \in Servers |-> [tv EXCEPT !.CodeIndex = s]]
           o == Opnum[w]
           m == [s \in Servers |-> [Opnum |-> o, Phase |-> SODAW_PUT_DATA,
                                    TagValue_var |-> payload[s]]]
<1>1. /\ w \in busy /\ Phase[w] = SODAW_GET_TAG
      /\ payload \in [Servers -> TagValue]
      /\ EnterPhase(w, SODAW_PUT_DATA, tv)
      /\ SendToServers(w, o, SODAW_PUT_DATA, payload)
      /\ UNCHANGED <<serverVars, processVars, busy, Opnum, incarnation>>
  BY WriterPutsDataEffect DEF HasQuorum
<1> HIDE DEF tv, payload
<1>2. /\ SODAW_PUT_DATA \in Phases /\ o \in Nat
      /\ SODAW_PUT_DATA \notin {SODAW_READ_COMPLETE, SODAW_GET_DATA}
      /\ Phase[w] # SODAW_GET_DATA
  BY <1>1, DataTypes
  DEF TypeOK, SODAW_PUT_DATA, SODAW_READ_COMPLETE, SODAW_GET_DATA, SODAW_GET_TAG
<1>3. SendsAll(w, m, o, SODAW_PUT_DATA)
  <2>1. \A i \in Incarnations, s \in Servers :
           LET n == [Opnum |-> o, Phase |-> SODAW_PUT_DATA, TagValue_var |-> payload[s]] IN
           /\ n \in Message /\ n.Opnum = o /\ n.Phase = SODAW_PUT_DATA
           /\ i # incarnation[w] => requests'[w][i][s] = requests[w][i][s]
           /\ i = incarnation[w] => requests'[w][i][s] = Append(requests[w][i][s], n)
    BY <1>1, <1>2, SendsToAll
  <2>2. incarnation[w] \in Incarnations
    BY DEF TypeOK
  <2> QED
    BY <2>1, <2>2 DEF SendsAll
<1> HIDE DEF m
<1>4. \A s \in Servers, i \in Incarnations : \A n \in Messages(requests[w][i][s]) :
        n.Opnum = o => i = incarnation[w]
  BY <1>1 DEF RegInvOf, SocketInv
<1>5. readsInProgress' = readsInProgress /\ stopped' = stopped /\ Phase'[w] = SODAW_PUT_DATA
  BY <1>1, EnterPhaseEffect DEF serverVars, processVars
<1>6. \A i \in Incarnations : Underway(w, i)' = Underway(w, i)
  BY <1>1 DEF Underway
<1>7. \A s \in Servers : AwaitInv(w, s)'
  BY <1>2, <1>5 DEF AwaitInv
<1>8. ASSUME NEW s \in Servers, NEW x \in readsInProgress[s], x.reader_name = w
      PROVE  EntryOK(w, s, x)'
  <2>1. EntryOK(w, s, x)
    BY <1>8 DEF RegInvOf
  <2>2. x.opnum # Opnum[w] /\ x.zmq_identity \in Incarnations
    BY <1>1, <1>2, <2>1 DEF EntryOK, TypeOK, ReadsInProgress
  <2>3. Opnum'[w] = Opnum[w] /\ Opnum[w] <= Opnum'[w] /\ Opnum'[w] \in Nat
    BY <1>1, <1>2
  <2>4. Messages(requests[w][x.zmq_identity][s])
           \subseteq Messages(requests'[w][x.zmq_identity][s])
    BY <1>3, <2>2, SendsAllMessages
  <2> QED
    BY <1>6, <1>8, <2>1, <2>2, <2>3, <2>4, EntryStays
<1> QED
  BY <1>1, <1>2, <1>3, <1>4, <1>5, <1>6, <1>7, <1>8, RegSend

LEMMA ReaderAsksForDataReg ==
  ASSUME TypeOK, TypeOK', NothingLost, NEW r \in Clients, ReaderAsksForData(r),
         ChannelInvOf(r), RegInvOf(r)
  PROVE  RegInvOf(r)'
<1> DEFINE payload == ToAll(TagValue_var[r])
           o == Opnum[r]
           m == [s \in Servers |-> [Opnum |-> o, Phase |-> SODAW_GET_DATA,
                                    TagValue_var |-> payload[s]]]
<1>1. /\ r \in Readers /\ HasQuorum(r) /\ payload \in [Servers -> TagValue]
      /\ EnterPhase(r, SODAW_GET_DATA, TagValue_var[r])
      /\ SendToServers(r, o, SODAW_GET_DATA, payload)
      /\ UNCHANGED <<serverVars, processVars, busy, Opnum, incarnation>>
  BY ReaderAsksForDataEffect
<1> HIDE DEF payload
<1>2. /\ SODAW_GET_DATA \in Phases /\ o \in Nat /\ SODAW_GET_DATA # SODAW_READ_COMPLETE
      /\ r \in busy /\ Phase[r] # SODAW_GET_DATA /\ incarnation[r] \in Incarnations
  BY <1>1, DataTypes
  DEF TypeOK, HasQuorum, CountsReplies, SODAW_READ_COMPLETE, SODAW_GET_DATA
<1>3. SendsAll(r, m, o, SODAW_GET_DATA)
  <2>1. \A i \in Incarnations, s \in Servers :
           LET n == [Opnum |-> o, Phase |-> SODAW_GET_DATA, TagValue_var |-> payload[s]] IN
           /\ n \in Message /\ n.Opnum = o /\ n.Phase = SODAW_GET_DATA
           /\ i # incarnation[r] => requests'[r][i][s] = requests[r][i][s]
           /\ i = incarnation[r] => requests'[r][i][s] = Append(requests[r][i][s], n)
    BY <1>1, <1>2, SendsToAll
  <2> QED
    BY <1>2, <2>1 DEF SendsAll
<1> HIDE DEF m
<1>4. \A s \in Servers, i \in Incarnations : \A n \in Messages(requests[r][i][s]) :
        n.Opnum = o => i = incarnation[r]
  BY <1>2 DEF RegInvOf, SocketInv
<1>5. readsInProgress' = readsInProgress /\ stopped' = stopped /\ Phase'[r] = SODAW_GET_DATA
  BY <1>1, EnterPhaseEffect DEF serverVars, processVars
<1>6. \A i \in Incarnations : Underway(r, i)' = Underway(r, i)
  BY <1>1 DEF Underway
<1>7. \A s \in Servers :
        /\ o \notin Registered(s, r)
        /\ Messages(requests[r][incarnation[r]][s]) \cap Asks(o) = {}
  <2>1. ASSUME NEW s \in Servers, NEW x \in readsInProgress[s], x.reader_name = r
        PROVE  x.opnum # o
    <3>1. EntryOK(r, s, x)
      BY <2>1 DEF RegInvOf
    <3> QED
      BY <1>2, <3>1 DEF EntryOK
  <2>2. ASSUME NEW s \in Servers, NEW n \in Messages(requests[r][incarnation[r]][s])
        PROVE  n \notin Asks(o)
    BY <1>2, Recent DEF Asks
  <2> QED
    BY <2>1, <2>2 DEF Registered
<1>8. o \in Underway(r, incarnation[r])'
  BY <1>1, <1>2 DEF Underway
<1>9. ASSUME NEW s \in Servers PROVE AwaitInv(r, s)'
  <2>1. m[s] \in Messages(requests'[r][incarnation[r]][s])
    BY <1>2, <1>3, SendsAllMessages
  <2>2. m[s] \in Asks(o)
    BY <1>3 DEF SendsAll, Asks
  <2> QED
    BY <1>1, <2>1, <2>2 DEF AwaitInv
<1>10. ASSUME NEW s \in Servers, NEW x \in readsInProgress[s], x.reader_name = r
       PROVE  EntryOK(r, s, x)'
  <2>1. EntryOK(r, s, x)
    BY <1>10 DEF RegInvOf
  <2>2. x.zmq_identity \in Incarnations
    BY DEF TypeOK, ReadsInProgress
  <2>3. Opnum[r] <= Opnum'[r] /\ Opnum'[r] \in Nat
    BY <1>1, <1>2
  <2>4. Messages(requests[r][x.zmq_identity][s])
           \subseteq Messages(requests'[r][x.zmq_identity][s])
    BY <1>3, <2>2, SendsAllMessages
  <2> QED
    BY <1>5, <1>6, <1>10, <2>1, <2>2, <2>3, <2>4, EntryStays
<1> QED
  BY <1>1, <1>2, <1>3, <1>4, <1>5, <1>6, <1>7, <1>8, <1>9, <1>10, RegSend

\* An operation that never asked for data ends without a message.
LEMMA EndSilentlyReg ==
  ASSUME TypeOK, TypeOK', NEW c \in Clients, ChannelInvOf(c), RegInvOf(c),
         c \in busy, Phase[c] # SODAW_GET_DATA, busy' = busy \ {c},
         UNCHANGED <<serverVars, Opnum, incarnation, requests, stopped>>
  PROVE  RegInvOf(c)'
<1>1. /\ c \notin busy' /\ readsInProgress' = readsInProgress /\ Opnum[c] \in Nat
      /\ \A s \in Servers : /\ Registered(s, c)' = Registered(s, c)
                            /\ FoundBy(s, c)' = FoundBy(s, c)
  BY DEF serverVars, Registered, FoundBy, Running, TypeOK
<1>2. SocketInv(c)'
  BY <1>1 DEF RegInvOf, SocketInv
<1>3. ASSUME NEW s \in Servers, NEW i \in Incarnations
      PROVE  /\ AskOrder(requests'[c][i][s], Registered(s, c)', Underway(c, i)')
             /\ EndOrder(requests'[c][i][s], FoundBy(s, c)')
  <2>1. /\ requests[c][i][s] \in Seq(Message)
        /\ AskOrder(requests[c][i][s], Registered(s, c), Underway(c, i))
        /\ EndOrder(requests[c][i][s], FoundBy(s, c))
    BY DEF TypeOK, RegInvOf
  <2>2. \A n \in Messages(requests[c][i][s]) : n.Phase = SODAW_GET_DATA => n.Opnum # Opnum[c]
    BY Recent
  <2>3. \A n \in Messages(requests[c][i][s]) : n.Phase = SODAW_GET_DATA =>
          n.Opnum \notin Underway(c, i)
    BY <2>2 DEF Underway
  <2> DEFINE V == Underway(c, i)'
             U == Underway(c, i)
             R == Registered(s, c)
  <2> HIDE DEF V, U, R
  <2>4. AskOrder(requests[c][i][s], R, V)
    BY <2>1, <2>3, AskSame DEF U, R
  <2> QED
    BY <1>1, <2>1, <2>4 DEF V, R
<1>4. \A s \in Servers : AwaitInv(c, s)'
  BY <1>1 DEF AwaitInv
<1>5. ASSUME NEW s \in Servers, NEW x \in readsInProgress[s], x.reader_name = c
      PROVE  EntryOK(c, s, x)'
  <2>1. EntryOK(c, s, x)
    BY <1>5 DEF RegInvOf
  <2>2. x.opnum # Opnum[c]
    BY <2>1 DEF EntryOK
  <2>3. x.opnum \notin Underway(c, x.zmq_identity)
    BY <2>2 DEF Underway
  <2> QED
    BY <1>1, <1>5, <2>1, <2>3, EntryStays
<1> QED
  BY <1>1, <1>2, <1>3, <1>4, <1>5 DEF RegInvOf

\* The end of a read by READ_COMPLETE.
LEMMA RelayEndReg ==
  ASSUME TypeOK, TypeOK', NothingLost, NEW r \in Clients, ChannelInvOf(r), RegInvOf(r),
         r \in busy, Running(r), Phase[r] = SODAW_GET_DATA, busy' = busy \ {r},
         SendToServers(r, Opnum[r], SODAW_READ_COMPLETE, ToAll(TagOnly(ZeroTag))),
         EnterPhase(r, SODAW_READ_COMPLETE, TagOnly(LowestTag)),
         UNCHANGED <<serverVars, Opnum, incarnation, stopped>>
  PROVE  RegInvOf(r)'
<1> DEFINE payload == ToAll(TagOnly(ZeroTag))
           o == Opnum[r]
           m == [s \in Servers |-> [Opnum |-> o, Phase |-> SODAW_READ_COMPLETE,
                                    TagValue_var |-> payload[s]]]
<1>1. payload \in [Servers -> TagValue]
  BY DataTypes, ToAllType
<1> HIDE DEF payload
<1>2. /\ SODAW_READ_COMPLETE \in Phases /\ o \in Nat /\ SODAW_GET_DATA # SODAW_READ_COMPLETE
      /\ incarnation[r] \in Incarnations
  BY DataTypes DEF TypeOK, SODAW_READ_COMPLETE, SODAW_GET_DATA
<1>3. SendsAll(r, m, o, SODAW_READ_COMPLETE)
  <2>1. \A i \in Incarnations, s \in Servers :
           LET n == [Opnum |-> o, Phase |-> SODAW_READ_COMPLETE, TagValue_var |-> payload[s]] IN
           /\ n \in Message /\ n.Opnum = o /\ n.Phase = SODAW_READ_COMPLETE
           /\ i # incarnation[r] => requests'[r][i][s] = requests[r][i][s]
           /\ i = incarnation[r] => requests'[r][i][s] = Append(requests[r][i][s], n)
    BY <1>1, <1>2, SendsToAll DEF payload
  <2> QED
    BY <1>2, <2>1 DEF SendsAll
<1> HIDE DEF m
<1>4. \A s \in Servers, i \in Incarnations : \A n \in Messages(requests[r][i][s]) :
        n.Opnum = o => i = incarnation[r]
  BY DEF RegInvOf, SocketInv
<1>5. readsInProgress' = readsInProgress /\ r \notin busy'
  BY DEF serverVars
<1>6. \A s \in Servers : m[s] \in Ends(o)
  BY <1>3 DEF SendsAll, Ends
<1>7. \A i \in Incarnations : \A n \in Underway(r, i) : n = o /\ i = incarnation[r]
  BY DEF Underway
<1>8. ASSUME NEW s \in Servers
      PROVE  /\ Messages(requests[r][incarnation[r]][s]) \cap Ends(o) = {}
             /\ \/ o \in FoundBy(s, r)
                \/ Messages(requests[r][incarnation[r]][s]) \cap Asks(o) # {}
  <2>1. ASSUME NEW n \in Messages(requests[r][incarnation[r]][s])
        PROVE  n \notin Ends(o)
    BY <1>2, Recent DEF Ends
  <2>2. AwaitInv(r, s)
    BY DEF RegInvOf
  <2> QED
    BY <2>1, <2>2 DEF AwaitInv
<1>9. \A s \in Servers : AwaitInv(r, s)'
  BY <1>5 DEF AwaitInv
<1>10. ASSUME NEW s \in Servers, NEW x \in readsInProgress[s], x.reader_name = r
       PROVE  EntryOK(r, s, x)'
  <2>1. EntryOK(r, s, x)
    BY <1>10 DEF RegInvOf
  <2>2. x.zmq_identity \in Incarnations
    BY DEF TypeOK, ReadsInProgress
  <2>3. Opnum[r] <= Opnum'[r] /\ Opnum'[r] \in Nat
    BY <1>2
  <2>4. Messages(requests[r][x.zmq_identity][s])
           \subseteq Messages(requests'[r][x.zmq_identity][s])
    BY <1>3, <2>2, SendsAllMessages
  <2>5. ASSUME x.opnum \in Underway(r, x.zmq_identity)
        PROVE  \E n \in Messages(requests'[r][x.zmq_identity][s]) : n \in Ends(x.opnum)
    <3>1. x.opnum = o /\ x.zmq_identity = incarnation[r]
      BY <1>7, <2>2, <2>5
    <3>2. m[s] \in Messages(requests'[r][incarnation[r]][s])
      BY <1>2, <1>3, SendsAllMessages
    <3> QED
      BY <1>6, <3>1, <3>2
  <2> QED
    BY <1>5, <1>10, <2>1, <2>3, <2>4, <2>5, EntryStays
<1>11. \A s \in Servers, i \in Incarnations : \A n \in Messages(requests[r][i][s]) :
           n.Phase = SODAW_GET_DATA /\ n.Opnum \in Underway(r, i) =>
             n.Opnum \in Underway(r, i)' \/ m[s] \in Ends(n.Opnum)
  BY <1>6, <1>7
<1> QED
  BY <1>2, <1>3, <1>4, <1>5, <1>8, <1>9, <1>10, <1>11, RegSend

\* A client that restarts between two operations.
LEMMA EmulateReg ==
  ASSUME TypeOK, TypeOK', NEW c \in Clients, ChannelInvOf(c), RegInvOf(c), emulateNewClient(c)
  PROVE  RegInvOf(c)'
<1>1. /\ c \notin busy /\ c \notin busy'
      /\ UNCHANGED <<serverVars, processVars, busy, Opnum, phaseVars, netVars>>
  BY EmulateEffect
<1>2. /\ readsInProgress' = readsInProgress /\ requests' = requests /\ Opnum[c] \in Nat
      /\ \A s \in Servers : /\ Registered(s, c)' = Registered(s, c)
                            /\ FoundBy(s, c)' = FoundBy(s, c)
  BY <1>1 DEF serverVars, processVars, netVars, Registered, FoundBy, Running, TypeOK
<1>3. \A i : Underway(c, i) = {} /\ Underway(c, i)' = {}
  BY <1>1 DEF Underway
<1>4. SocketInv(c)'
  BY <1>1, <1>2 DEF RegInvOf, SocketInv
<1>5. \A s \in Servers, i \in Incarnations :
        /\ AskOrder(requests'[c][i][s], Registered(s, c)', Underway(c, i)')
        /\ EndOrder(requests'[c][i][s], FoundBy(s, c)')
  <2>1. ASSUME NEW s \in Servers, NEW i \in Incarnations
        PROVE  /\ AskOrder(requests[c][i][s], Registered(s, c), Underway(c, i))
               /\ EndOrder(requests[c][i][s], FoundBy(s, c))
    BY DEF RegInvOf
  <2>2. \A i : Underway(c, i)' = Underway(c, i)
    BY <1>3
  <2> QED
    BY <1>2, <2>1, <2>2
<1>6. \A s \in Servers : AwaitInv(c, s)'
  BY <1>1 DEF AwaitInv
<1>7. ASSUME NEW s \in Servers, NEW x \in readsInProgress[s], x.reader_name = c
      PROVE  EntryOK(c, s, x)'
  <2>1. EntryOK(c, s, x)
    BY <1>7 DEF RegInvOf
  <2> QED
    BY <1>1, <1>2, <1>3, <1>7, <2>1, EntryStays
<1> QED
  BY <1>2, <1>4, <1>5, <1>6, <1>7 DEF RegInvOf

\* A killed client loses no READ_COMPLETE: the last message on its current socket
\* is of the operation in progress.
LEMMA KillClientReg ==
  ASSUME TypeOK, TypeOK', NEW c \in Clients, ChannelInvOf(c), RegInvOf(c), KillClient(c)
  PROVE  RegInvOf(c)'
<1>1. /\ c \in busy /\ Running(c) /\ stopped' = stopped \cup {c}
      /\ UNCHANGED <<serverVars, busy, Opnum, incarnation, phaseVars>>
  BY KillClientEffect DEF KillClient
<1>2. /\ readsInProgress' = readsInProgress /\ Opnum[c] \in Nat /\ incarnation[c] \in Incarnations
      /\ \A s \in Servers : Registered(s, c)' = Registered(s, c)
      /\ \A i : Underway(c, i)' = Underway(c, i)
  BY <1>1 DEF serverVars, Registered, Underway, TypeOK
<1>3. \A s \in Servers : FoundBy(s, c) \subseteq FoundBy(s, c)'
  BY <1>1, <1>2, FoundByGrows
<1>4. ASSUME NEW i \in Incarnations, NEW s \in Servers
      PROVE  \/ requests'[c][i][s] = requests[c][i][s]
             \/ /\ i = incarnation[c] /\ requests[c][i][s] # <<>>
                /\ requests'[c][i][s] = Front(requests[c][i][s])
                /\ requests[c][i][s][Len(requests[c][i][s])].Phase # SODAW_READ_COMPLETE
  <2> DEFINE q == requests[c][i][s]
  <2>1. \A d \in Clients, j \in Incarnations, t \in Servers :
          \/ requests'[d][j][t] = requests[d][j][t]
          \/ /\ d = c /\ j = incarnation[c] /\ requests[d][j][t] # <<>>
             /\ requests[d][j][t] \in Seq(Message)
             /\ requests'[d][j][t] = Front(requests[d][j][t])
    BY KillEffect
  <2>2. ASSUME i = incarnation[c], q # <<>>
        PROVE  q[Len(q)].Phase # SODAW_READ_COMPLETE
    <3>1. q[Len(q)].Opnum = Opnum[c]
      BY <1>1, <2>2 DEF RegInvOf, SocketInv
    <3>2. q[Len(q)] \in Messages(q)
      <4>1. q \in Seq(Message)
        BY DEF TypeOK
      <4>2. Len(q) \in 1..Len(q)
        BY <2>2, <4>1
      <4> QED
        BY <4>2 DEF Messages
    <3> QED
      BY <1>1, <3>1, <3>2, Recent
  <2> QED
    BY <2>1, <2>2
<1>5. ASSUME NEW i \in Incarnations, NEW s \in Servers
      PROVE  /\ Messages(requests'[c][i][s]) \subseteq Messages(requests[c][i][s])
             /\ AskOrder(requests'[c][i][s], Registered(s, c)', Underway(c, i)')
             /\ EndOrder(requests'[c][i][s], FoundBy(s, c)')
             /\ \A n \in Messages(requests[c][i][s]) : n.Phase = SODAW_READ_COMPLETE =>
                  n \in Messages(requests'[c][i][s])
  <2> DEFINE q == requests[c][i][s]
             F == FoundBy(s, c)'
  <2>1. q \in Seq(Message) /\ AskOrder(q, Registered(s, c), Underway(c, i))
        /\ EndOrder(q, FoundBy(s, c))
    BY DEF TypeOK, RegInvOf
  <2> HIDE DEF q, F
  <2>2. EndOrder(q, F)
    BY <1>3, <2>1, EndSame DEF F
  <2>3. CASE requests'[c][i][s] = q
    BY <1>2, <2>1, <2>2, <2>3 DEF q, F
  <2>4. CASE /\ q # <<>> /\ requests'[c][i][s] = Front(q)
             /\ q[Len(q)].Phase # SODAW_READ_COMPLETE
    <3>1. AskOrder(Front(q), Registered(s, c), Underway(c, i)) /\ EndOrder(Front(q), F)
      BY <2>1, <2>2, <2>4, AskFront, EndFront
    <3>2. /\ Messages(Front(q)) \subseteq Messages(q) /\ Len(Front(q)) = Len(q) - 1
          /\ \A k \in 1..Len(Front(q)) : Front(q)[k] = q[k] /\ k \in 1..Len(q)
          /\ Len(q) \in Nat
      BY <2>1, <2>4, FrontMessages
    <3>3. ASSUME NEW n \in Messages(q), n.Phase = SODAW_READ_COMPLETE
          PROVE  n \in Messages(Front(q))
      <4>1. PICK k \in 1..Len(q) : n = q[k]
        BY DEF Messages
      <4>2. k # Len(q)
        BY <2>4, <3>3, <4>1
      <4>3. k \in 1..Len(Front(q)) /\ Front(q)[k] = n
        BY <3>2, <4>1, <4>2
      <4> QED
        BY <4>3 DEF Messages
    <3> QED
      BY <1>2, <2>4, <3>1, <3>2, <3>3 DEF q, F
  <2> QED
    BY <1>4, <2>3, <2>4 DEF q
<1>6. SocketInv(c)'
  <2> SUFFICES ASSUME NEW s \in Servers
               PROVE  /\ \A i, j \in Incarnations :
                           \A m \in Messages(requests'[c][i][s]), n \in Messages(requests'[c][j][s]) :
                             m.Opnum = n.Opnum => i = j
                      /\ \A i \in Incarnations : \A m \in Messages(requests'[c][i][s]) :
                             m.Opnum = Opnum'[c] => i = incarnation'[c]
                      /\ ~ Running(c)'
    BY DEF SocketInv
  <2>1. /\ \A i, j \in Incarnations :
             \A m \in Messages(requests[c][i][s]), n \in Messages(requests[c][j][s]) :
               m.Opnum = n.Opnum => i = j
        /\ \A i \in Incarnations : \A m \in Messages(requests[c][i][s]) :
               m.Opnum = Opnum[c] => i = incarnation[c]
    BY <1>1 DEF RegInvOf, SocketInv
  <2>2. \A i \in Incarnations : Messages(requests'[c][i][s]) \subseteq Messages(requests[c][i][s])
    BY <1>5
  <2>3. ~ Running(c)'
    BY <1>1 DEF Running
  <2> QED
    BY <1>1, <2>1, <2>2, <2>3
<1>7. \A s \in Servers : AwaitInv(c, s)'
  BY <1>1 DEF AwaitInv, Running
<1>8. ASSUME NEW s \in Servers, NEW x \in readsInProgress[s], x.reader_name = c
      PROVE  EntryOK(c, s, x)'
  <2>1. EntryOK(c, s, x)
    BY <1>8 DEF RegInvOf
  <2>2. x.zmq_identity \in Incarnations
    BY DEF TypeOK, ReadsInProgress
  <2>3. \A n \in Messages(requests[c][x.zmq_identity][s]) : n \in Ends(x.opnum) =>
          n \in Messages(requests'[c][x.zmq_identity][s])
    BY <1>5, <2>2 DEF Ends
  <2> QED
    BY <1>1, <1>2, <2>1, <2>3 DEF EntryOK, phaseVars
<1> QED
  BY <1>2, <1>5, <1>6, <1>7, <1>8 DEF RegInvOf

\* What holds of the registrations of client c at one server.
RegAt(c, s) ==
  /\ \A i \in Incarnations :
       /\ AskOrder(requests[c][i][s], Registered(s, c), Underway(c, i))
       /\ EndOrder(requests[c][i][s], FoundBy(s, c))
  /\ AwaitInv(c, s)
  /\ \A x \in readsInProgress[s] : x.reader_name = c => EntryOK(c, s, x)

LEMMA RegAtEach ==
  \A c : RegInvOf(c) <=> SocketInv(c) /\ \A s \in Servers : RegAt(c, s)
BY DEF RegInvOf, RegAt

\* A server that does not handle a message of client d.
LEMMA RegAtSame ==
  ASSUME TypeOK, NEW d \in Clients, NEW s \in Servers, SameClient(d), RegAt(d, s),
         \A i \in Incarnations : requests'[d][i][s] = requests[d][i][s],
         \A x : x \in readsInProgress'[s] /\ x.reader_name = d
                  <=> x \in readsInProgress[s] /\ x.reader_name = d,
         stopped \subseteq stopped'
  PROVE  RegAt(d, s)'
<1>1. Registered(s, d)' = Registered(s, d)
  BY DEF Registered
<1>2. FoundBy(s, d) \subseteq FoundBy(s, d)'
  BY <1>1, FoundByGrows
<1>3. \A i : Underway(d, i)' = Underway(d, i)
  BY DEF Underway, SameClient
<1>4. ASSUME NEW i \in Incarnations
      PROVE  /\ AskOrder(requests'[d][i][s], Registered(s, d)', Underway(d, i)')
             /\ EndOrder(requests'[d][i][s], FoundBy(s, d)')
  <2>1. /\ requests[d][i][s] \in Seq(Message)
        /\ AskOrder(requests[d][i][s], Registered(s, d), Underway(d, i))
        /\ EndOrder(requests[d][i][s], FoundBy(s, d))
    BY DEF TypeOK, RegAt
  <2>2. EndOrder(requests[d][i][s], FoundBy(s, d)')
    BY <1>2, <2>1, EndSame
  <2> QED
    BY <1>1, <1>3, <2>1, <2>2
<1>5. AwaitInv(d, s)'
  <2>1. incarnation[d] \in Incarnations /\ AwaitInv(d, s)
    BY DEF TypeOK, RegAt
  <2>2. Running(d)' => Running(d)
    BY DEF Running
  <2> QED
    BY <1>2, <2>1, <2>2 DEF AwaitInv, SameClient
<1>6. ASSUME NEW x \in readsInProgress'[s], x.reader_name = d
      PROVE  EntryOK(d, s, x)'
  <2>1. x \in readsInProgress[s]
    BY <1>6
  <2>2. x \in ReadsInProgress
    BY <2>1 DEF TypeOK
  <2>3. x.zmq_identity \in Incarnations /\ EntryOK(d, s, x)
    BY <1>6, <2>1, <2>2 DEF ReadsInProgress, RegAt
  <2> QED
    BY <1>3, <2>3 DEF EntryOK, SameClient
<1> QED
  BY <1>4, <1>5, <1>6 DEF RegAt

\* The server that takes message m of client c, by what it does to registrations.
LEMMA RegAtTake ==
  ASSUME TypeOK, NEW s \in Servers, NEW c \in Clients, NEW i \in Incarnations,
         NEW m, m = Head(requests[c][i][s]), requests[c][i][s] # <<>>,
         requests'[c][i][s] = Tail(requests[c][i][s]),
         \A j \in Incarnations : j # i => requests'[c][j][s] = requests[c][j][s],
         SameClient(c), ChannelInvOf(c), RegInvOf(c), stopped \subseteq stopped',
         \A o \in Registered(s, c)' : o \in Registered(s, c) \/ m \in Asks(o),
         \A o \in FoundBy(s, c) : o \in FoundBy(s, c)' \/ m \in Ends(o),
         \A o : m \in Asks(o) => o \in FoundBy(s, c)',
         \A x \in readsInProgress'[s] : x.reader_name = c =>
           \/ x \in readsInProgress[s] /\ m \notin Ends(x.opnum)
           \/ EntryOK(c, s, x)'
  PROVE  RegAt(c, s)'
<1> DEFINE q == requests[c][i][s]
           R == Registered(s, c)
           S == Registered(s, c)'
           F == FoundBy(s, c)
           G == FoundBy(s, c)'
<1>1. /\ q \in Seq(Message) /\ m \in Messages(q) /\ m \in Message
      /\ m.Opnum \in Nat
  <2>1. q \in Seq(Message)
    BY DEF TypeOK
  <2>2. Head(q) \in Messages(q) /\ Head(q) \in Message
    BY <2>1, ReceiveMessages
  <2> QED
    BY <2>1, <2>2 DEF Message
<1>2. \A j : Underway(c, j)' = Underway(c, j)
  BY DEF Underway, SameClient
<1>3. ASSUME NEW j \in Incarnations
      PROVE  /\ AskOrder(requests'[c][j][s], S, Underway(c, j)')
             /\ EndOrder(requests'[c][j][s], G)
  <2> DEFINE p == requests[c][j][s]
             U == Underway(c, j)
  <2>1. p \in Seq(Message) /\ AskOrder(p, R, U) /\ EndOrder(p, F)
    BY DEF TypeOK, RegInvOf
  <2>2. CASE j = i
    <3> HIDE DEF p, U, R, S, F, G
    <3>1. AskOrder(Tail(p), S, U)
      BY <2>1, <2>2, AskTail DEF p, R, S
    <3>2. EndOrder(Tail(p), G)
      BY <2>1, <2>2, EndTail DEF p, F, G
    <3> QED
      BY <1>2, <2>2, <3>1, <3>2 DEF p, U
  <2>3. CASE j # i
    <3>1. ASSUME NEW n \in Messages(p) PROVE n.Opnum # m.Opnum
      BY <1>1, <2>3 DEF RegInvOf, SocketInv
    <3>2. \A n \in Messages(p) : m \notin Asks(n.Opnum) /\ m \notin Ends(n.Opnum)
      BY <3>1 DEF Asks, Ends
    <3>3. \A n \in Messages(p) : (n.Opnum \in S => n.Opnum \in R)
                                 /\ (n.Opnum \in F => n.Opnum \in G)
      BY <3>2
    <3> HIDE DEF p, U, R, S, F, G
    <3>4. AskOrder(p, S, U)
      BY <2>1, <3>3, AskSame
    <3>5. EndOrder(p, G)
      BY <2>1, <3>3, EndSame
    <3> QED
      BY <1>2, <2>3, <3>4, <3>5 DEF p, U
  <2> QED
    BY <2>2, <2>3
<1>4. \A j \in Incarnations : \A n \in Messages(requests[c][j][s]) :
        n = m \/ n \in Messages(requests'[c][j][s])
  <2>1. ASSUME NEW n \in Messages(q) PROVE n = m \/ n \in Messages(Tail(q))
    <3>1. PICK k \in 1..Len(q) : n = q[k]
      BY DEF Messages
    <3>2. /\ Len(Tail(q)) = Len(q) - 1 /\ Len(q) \in Nat /\ Head(q) = q[1]
          /\ \A l \in 2..Len(q) : l - 1 \in 1..(Len(q) - 1) /\ Tail(q)[l - 1] = q[l]
      BY <1>1, TailPositions
    <3>3. CASE k = 1
      BY <3>1, <3>2, <3>3
    <3>4. CASE k # 1
      <4>1. k \in 2..Len(q)
        BY <3>1, <3>2, <3>4
      <4>2. k - 1 \in 1..Len(Tail(q)) /\ Tail(q)[k - 1] = n
        BY <3>1, <3>2, <4>1
      <4> QED
        BY <4>2 DEF Messages
    <3> QED
      BY <3>3, <3>4
  <2> QED
    BY <2>1
<1>5. AwaitInv(c, s)'
  <2> SUFFICES ASSUME c \in busy, Running(c), Phase[c] = SODAW_GET_DATA
               PROVE  \/ Opnum[c] \in G
                      \/ \E n \in Messages(requests'[c][incarnation[c]][s]) : n \in Asks(Opnum[c])
    BY DEF AwaitInv, SameClient, Running
  <2>1. incarnation[c] \in Incarnations
    BY DEF TypeOK
  <2>2. m \notin Ends(Opnum[c])
    BY <1>1, Recent DEF Ends
  <2>3. \/ Opnum[c] \in F
        \/ \E n \in Messages(requests[c][incarnation[c]][s]) : n \in Asks(Opnum[c])
    BY DEF RegInvOf, AwaitInv
  <2> QED
    BY <1>4, <2>1, <2>2, <2>3
<1>6. ASSUME NEW x \in readsInProgress[s], x.reader_name = c, m \notin Ends(x.opnum)
      PROVE  EntryOK(c, s, x)'
  <2>1. EntryOK(c, s, x)
    BY <1>6 DEF RegInvOf
  <2>2. x.zmq_identity \in Incarnations
    BY DEF TypeOK, ReadsInProgress
  <2>3. \A n \in Messages(requests[c][x.zmq_identity][s]) : n \in Ends(x.opnum) =>
          n \in Messages(requests'[c][x.zmq_identity][s])
    BY <1>4, <1>6, <2>2
  <2> QED
    BY <1>2, <2>1, <2>3 DEF EntryOK, SameClient
<1> QED
  BY <1>3, <1>5, <1>6 DEF RegAt

LEMMA SocketTake ==
  ASSUME TypeOK, NEW s \in Servers, NEW c \in Clients, NEW i \in Incarnations,
         ServerStep(s, c, i), stopped \subseteq stopped', NEW d \in Clients, SocketInv(d)
  PROVE  SocketInv(d)'
<1>1. SameClient(d) /\ RequestsShrink(d)
  BY ServerStepEffect
<1>2. \A j \in Incarnations, t \in Servers :
        Messages(requests'[d][j][t]) \subseteq Messages(requests[d][j][t])
  BY <1>1 DEF RequestsShrink, Shrinks
<1>3. ASSUME NEW j \in Incarnations, NEW t \in Servers, requests'[d][j][t] # <<>>
      PROVE  /\ requests[d][j][t] # <<>>
             /\ requests'[d][j][t][Len(requests'[d][j][t])]
                  = requests[d][j][t][Len(requests[d][j][t])]
  <2> DEFINE q == requests[c][i][s]
  <2>1. /\ q \in Seq(Message) /\ q # <<>> /\ requests'[c][i][s] = Tail(q)
        /\ ~ (d = c /\ j = i /\ t = s) => requests'[d][j][t] = requests[d][j][t]
    BY TakeEffect
  <2>2. CASE d = c /\ j = i /\ t = s
    <3>1. Tail(q) # <<>>
      BY <1>3, <2>1, <2>2
    <3> HIDE DEF q
    <3>2. Tail(q)[Len(Tail(q))] = q[Len(q)]
      <4>1. /\ Len(Tail(q)) = Len(q) - 1 /\ Len(q) \in Nat
            /\ \A k \in 1..(Len(q) - 1) : Tail(q)[k] = q[k + 1]
        BY <2>1, TailPositions
      <4>2. Tail(q) \in Seq(Message)
        BY <2>1
      <4>3. Len(Tail(q)) >= 1
        BY <3>1, <4>2
      <4> QED
        BY <4>1, <4>3
    <3> QED
      BY <2>1, <2>2, <3>2 DEF q
  <2> QED
    BY <1>3, <2>1, <2>2
<1> SUFFICES ASSUME NEW t \in Servers
             PROVE  /\ \A k, j \in Incarnations :
                         \A m \in Messages(requests'[d][k][t]), n \in Messages(requests'[d][j][t]) :
                           m.Opnum = n.Opnum => k = j
                    /\ d \in busy' =>
                         \A j \in Incarnations : \A m \in Messages(requests'[d][j][t]) :
                           m.Opnum = Opnum'[d] => j = incarnation'[d]
                    /\ d \in busy' /\ Running(d)' =>
                         (requests'[d][incarnation'[d]][t] # <<>> =>
                            requests'[d][incarnation'[d]][t][Len(requests'[d][incarnation'[d]][t])].Opnum
                              = Opnum'[d])
  BY DEF SocketInv
<1>4. \A k, j \in Incarnations :
         \A m \in Messages(requests'[d][k][t]), n \in Messages(requests'[d][j][t]) :
           m.Opnum = n.Opnum => k = j
  BY <1>2 DEF SocketInv
<1>5. d \in busy' =>
         \A j \in Incarnations : \A m \in Messages(requests'[d][j][t]) :
           m.Opnum = Opnum'[d] => j = incarnation'[d]
  BY SMTT(30), <1>1, <1>2 DEF SocketInv, SameClient
<1>6. d \in busy' /\ Running(d)' =>
         (requests'[d][incarnation'[d]][t] # <<>> =>
            requests'[d][incarnation'[d]][t][Len(requests'[d][incarnation'[d]][t])].Opnum
              = Opnum'[d])
  <2>1. incarnation'[d] = incarnation[d] /\ incarnation[d] \in Incarnations
        /\ Opnum'[d] = Opnum[d] /\ (d \in busy' => d \in busy) /\ (Running(d)' => Running(d))
    BY <1>1 DEF TypeOK, SameClient, Running
  <2>2. d \in busy /\ Running(d) =>
         (requests[d][incarnation[d]][t] # <<>> =>
            requests[d][incarnation[d]][t][Len(requests[d][incarnation[d]][t])].Opnum = Opnum[d])
    BY DEF SocketInv
  <2> QED
    BY <1>3, <2>1, <2>2
<1> QED
  BY <1>4, <1>5, <1>6

\* What a handler does to the registrations: nothing, or what it is asked to.
LEMMA HandlerRegistrations ==
  ASSUME TypeOK, NEW s \in Servers, NEW c \in Clients, NEW i \in Incarnations,
         ServerStep(s, c, i)
  PROVE  LET m == Head(requests[c][i][s])
             o == m.Opnum IN
         /\ stopped \subseteq stopped' /\ Running(s)
         /\ \A t \in Servers : t # s => readsInProgress'[t] = readsInProgress[t]
         /\ \A x : x.reader_name # c =>
              (x \in readsInProgress'[s] <=> x \in readsInProgress[s])
         /\ \/ /\ m.Phase \notin {SODAW_GET_DATA, SODAW_READ_COMPLETE}
               /\ readsInProgress' = readsInProgress /\ stopped' = stopped
            \/ /\ m.Phase = SODAW_GET_DATA /\ doesReadExist(s, c, o)
            \/ /\ m.Phase = SODAW_GET_DATA
               /\ readsInProgress' = readsInProgress /\ stopped' = stopped \cup {s}
            \/ /\ m.Phase = SODAW_GET_DATA /\ stopped' = stopped
               /\ readsInProgress'[s] = readsInProgress[s] \cup
                    {[reader_name |-> c, opnum |-> o, tag_request |-> m.TagValue_var.Tag_var,
                      zmq_identity |-> i, outdated |-> FALSE]}
            \/ /\ m.Phase = SODAW_READ_COMPLETE /\ stopped' = stopped
               /\ doesReadExist(s, c, o)
               /\ readsInProgress'[s] = {x \in readsInProgress[s] : ~ SameRead(x, c, o)}
            \/ /\ m.Phase = SODAW_READ_COMPLETE /\ ~ doesReadExist(s, c, o)
<1> DEFINE m == Head(requests[c][i][s])
           o == m.Opnum
           x0 == [reader_name |-> c, opnum |-> o, tag_request |-> m.TagValue_var.Tag_var,
                  zmq_identity |-> i, outdated |-> FALSE]
           x1 == [reader_name |-> c, opnum |-> o, tag_request |-> m.TagValue_var.Tag_var,
                  zmq_identity |-> i, outdated |-> TRUE]
<1>1. Running(s) /\ \/ getTagResp(s, c, i, m) \/ getDataResp(s, c, i, m)
                    \/ readCompleteResp(s, c, i, m) \/ putDataResp(s, c, i, m)
  BY DEF ServerStep
<1>2. readsInProgress \in [Servers -> SUBSET ReadsInProgress]
  BY DEF TypeOK
<1>3. /\ x0.reader_name = c /\ x1.reader_name = c
      /\ registerNewRead(s, c, i, m, FALSE) =>
           readsInProgress' = [readsInProgress EXCEPT ![s] = readsInProgress[s] \cup {x0}]
      /\ registerNewRead(s, c, i, m, TRUE) =>
           readsInProgress' = [readsInProgress EXCEPT ![s] = readsInProgress[s] \cup {x1}]
      /\ unregisterRead(s, c, o) =>
           readsInProgress' = [readsInProgress EXCEPT ![s] =
             {x \in readsInProgress[s] : ~ SameRead(x, c, o)}]
  BY DEF registerNewRead, unregisterRead
<1>4. \A x : x.reader_name # c => ~ SameRead(x, c, o)
  BY DEF SameRead
<1> HIDE DEF m, o, x0, x1
<1>5. CASE getTagResp(s, c, i, m) \/ putDataResp(s, c, i, m)
  BY <1>1, <1>5 DEF getTagResp, putDataResp, serverVars, processVars, SODAW_GET_TAG, SODAW_GET_DATA,
     SODAW_PUT_DATA, SODAW_READ_COMPLETE, SODAW_FAST_GET_TAG_DATA, m, o
<1>6. CASE getDataResp(s, c, i, m)
  <2>1. m.Phase = SODAW_GET_DATA
    BY <1>6 DEF getDataResp
  <2>2. \/ /\ doesReadExist(s, c, o) /\ unregisterRead(s, c, o) /\ stopped' = stopped
        \/ /\ readsInProgress' = readsInProgress /\ stopped' = stopped \cup {s}
        \/ /\ registerNewRead(s, c, i, m, FALSE) /\ stopped' = stopped
    BY <1>6 DEF getDataResp, processVars, o
  <2>3. CASE doesReadExist(s, c, o) /\ unregisterRead(s, c, o) /\ stopped' = stopped
    BY <1>1, <1>2, <1>3, <1>4, <2>1, <2>3 DEF m, o
  <2>4. CASE readsInProgress' = readsInProgress /\ stopped' = stopped \cup {s}
    BY <1>1, <2>1, <2>4 DEF m
  <2>5. CASE registerNewRead(s, c, i, m, FALSE) /\ stopped' = stopped
    <3>1. /\ readsInProgress'[s] = readsInProgress[s] \cup {x0}
          /\ \A t \in Servers : t # s => readsInProgress'[t] = readsInProgress[t]
      BY <1>2, <1>3, <2>5
    <3> QED
      BY <1>1, <1>3, <2>1, <2>5, <3>1 DEF m, o, x0
  <2> QED
    BY <2>2, <2>3, <2>4, <2>5
<1>7. CASE readCompleteResp(s, c, i, m)
  <2>1. m.Phase = SODAW_READ_COMPLETE /\ stopped' = stopped
    BY <1>7 DEF readCompleteResp, processVars
  <2>2. CASE doesReadExist(s, c, o)
    <3>1. unregisterRead(s, c, o)
      BY <1>7, <2>2 DEF readCompleteResp, o
    <3>2. /\ readsInProgress'[s] = {x \in readsInProgress[s] : ~ SameRead(x, c, o)}
          /\ \A t \in Servers : t # s => readsInProgress'[t] = readsInProgress[t]
      BY <1>2, <1>3, <3>1
    <3> QED
      BY <1>1, <1>4, <2>1, <2>2, <3>2 DEF m, o
  <2>3. CASE ~ doesReadExist(s, c, o)
    <3>1. registerNewRead(s, c, i, m, TRUE)
      BY <1>7, <2>3 DEF readCompleteResp, o
    <3>2. /\ readsInProgress'[s] = readsInProgress[s] \cup {x1}
          /\ \A t \in Servers : t # s => readsInProgress'[t] = readsInProgress[t]
      BY <1>2, <1>3, <3>1
    <3> QED
      BY <1>1, <1>3, <2>1, <2>3, <3>2 DEF m, o
  <2> QED
    BY <2>2, <2>3
<1> QED
  BY <1>1, <1>5, <1>6, <1>7

LEMMA ServerStepReg ==
  ASSUME TypeOK, TypeOK', NothingLost, ChannelInv, RegInv, NEW s \in Servers, NEW c \in Clients,
         NEW i \in Incarnations, ServerStep(s, c, i), NEW d \in Clients
  PROVE  RegInvOf(d)'
<1> DEFINE m == Head(requests[c][i][s])
           o == m.Opnum
           q == requests[c][i][s]
<1>1. /\ \A e \in Clients : SameClient(e)
      /\ q \in Seq(Message) /\ q # <<>> /\ requests'[c][i][s] = Tail(q) /\ m \in Message
      /\ \A e \in Clients, j \in Incarnations, t \in Servers :
           ~ (e = c /\ j = i /\ t = s) => requests'[e][j][t] = requests[e][j][t]
  BY ServerStepEffect, TakeEffect
<1>2. /\ stopped \subseteq stopped' /\ Running(s)
      /\ \A t \in Servers : t # s => readsInProgress'[t] = readsInProgress[t]
      /\ \A x : x.reader_name # c => (x \in readsInProgress'[s] <=> x \in readsInProgress[s])
  BY HandlerRegistrations
<1>3. RegInvOf(d) /\ RegInvOf(c) /\ ChannelInvOf(c)
  BY DEF RegInv, ChannelInv
<1>4. SocketInv(d)'
  BY <1>2, <1>3, SocketTake DEF RegInvOf
<1>5. ASSUME NEW t \in Servers, t # s \/ d # c PROVE RegAt(d, t)'
  <2>1. \A x : x \in readsInProgress'[t] /\ x.reader_name = d
                  <=> x \in readsInProgress[t] /\ x.reader_name = d
    BY <1>2, <1>5
  <2>2. RegAt(d, t) /\ SameClient(d)
    BY <1>1, <1>3, RegAtEach
  <2>3. \A j \in Incarnations : requests'[d][j][t] = requests[d][j][t]
    BY <1>1, <1>5
  <2> QED
    BY <1>2, <2>1, <2>2, <2>3, RegAtSame
<1>6. RegAt(c, s)'
  <2> DEFINE R == Registered(s, c)
             S == Registered(s, c)'
             F == FoundBy(s, c)
             G == FoundBy(s, c)'
  <2>1. /\ m = q[1] /\ 1 \in DOMAIN q /\ \A k \in DOMAIN q : ~ (k < 1)
        /\ m \in Messages(q)
    <3>1. m = q[1] /\ DOMAIN q = 1..Len(q) /\ Len(q) \in Nat /\ Len(q) >= 1
      BY <1>1, TailPositions
    <3> QED
      BY <3>1 DEF Messages
  <2>2. AskOrder(q, R, Underway(c, i)) /\ EndOrder(q, F)
    BY <1>3 DEF RegInvOf
  <2>3. F = R /\ (G = IF s \in stopped' THEN Nat ELSE S) /\ R \subseteq Nat /\ o \in Nat
    BY <1>1, <1>2, RegisteredReads DEF FoundBy, Running, Message
  <2>4. m.Phase = SODAW_GET_DATA => ~ doesReadExist(s, c, o)
    <3>1. m.Phase = SODAW_GET_DATA => o \notin R
      BY <2>1, <2>2 DEF AskOrder
    <3> QED
      BY <3>1, RegisteredReads
  <2>5. m.Phase = SODAW_READ_COMPLETE => doesReadExist(s, c, o)
    <3>1. m.Phase = SODAW_READ_COMPLETE => o \in F
      BY <2>1, <2>2 DEF EndOrder
    <3> QED
      BY <2>3, <3>1, RegisteredReads
  <2>6. \A p : (m \in Asks(p) <=> m.Phase = SODAW_GET_DATA /\ p = o)
               /\ (m \in Ends(p) <=> m.Phase = SODAW_READ_COMPLETE /\ p = o)
    BY <1>1 DEF Asks, Ends
  <2>7. s \notin stopped
    BY <1>2 DEF Running
  <2>8. /\ \A p \in S : p \in R \/ m \in Asks(p)
        /\ \A p \in F : p \in G \/ m \in Ends(p)
        /\ \A p : m \in Asks(p) => p \in G
        /\ \A x \in readsInProgress'[s] : x.reader_name = c =>
           \/ x \in readsInProgress[s] /\ m \notin Ends(x.opnum)
           \/ EntryOK(c, s, x)'
    <3>1. CASE /\ m.Phase \notin {SODAW_GET_DATA, SODAW_READ_COMPLETE}
               /\ readsInProgress' = readsInProgress /\ stopped' = stopped
      <4>1. S = R
        BY <3>1 DEF Registered
      <4> QED
        BY <2>3, <2>6, <2>7, <3>1, <4>1
    <3>2. CASE /\ m.Phase = SODAW_GET_DATA
               /\ readsInProgress' = readsInProgress /\ stopped' = stopped \cup {s}
      <4>1. S = R /\ G = Nat
        BY <2>3, <3>2 DEF Registered
      <4>2. SODAW_GET_DATA # SODAW_READ_COMPLETE
        BY DEF SODAW_GET_DATA, SODAW_READ_COMPLETE
      <4> QED
        BY <2>3, <2>6, <3>2, <4>1, <4>2
    <3>3. CASE /\ m.Phase = SODAW_GET_DATA /\ stopped' = stopped
               /\ readsInProgress'[s] = readsInProgress[s] \cup
                    {[reader_name |-> c, opnum |-> o, tag_request |-> m.TagValue_var.Tag_var,
                      zmq_identity |-> i, outdated |-> FALSE]}
      <4> DEFINE x0 == [reader_name |-> c, opnum |-> o,
                        tag_request |-> m.TagValue_var.Tag_var,
                        zmq_identity |-> i, outdated |-> FALSE]
      <4>1. /\ x0.reader_name = c /\ x0.opnum = o /\ x0.zmq_identity = i /\ x0.outdated = FALSE
            /\ readsInProgress'[s] = readsInProgress[s] \cup {x0}
        BY <3>3
      <4> HIDE DEF x0
      <4>2. S = R \cup {o} /\ G = S
        BY <2>3, <2>7, <3>3, <4>1 DEF Registered
      <4>3. ASSUME NEW x, x = x0 PROVE EntryOK(c, s, x)'
        <5>1. /\ o <= Opnum[c]
              /\ c \in busy /\ o = Opnum[c] => Phase[c] = SODAW_GET_DATA
          BY <1>3, <2>1, <3>3, Recent
        <5>2. \/ o \in Underway(c, i)
              \/ \E n \in Messages(Tail(q)) : n \in Ends(o)
          <6>1. o \in Underway(c, i) \/ \E l \in DOMAIN q : 1 < l /\ q[l] \in Ends(o)
            BY <2>1, <2>2, <3>3 DEF AskOrder
          <6>2. ASSUME NEW l \in DOMAIN q, 1 < l, q[l] \in Ends(o)
                PROVE  \E n \in Messages(Tail(q)) : n \in Ends(o)
            <7>1. /\ Len(Tail(q)) = Len(q) - 1 /\ DOMAIN q = 1..Len(q) /\ Len(q) \in Nat
                  /\ \A k \in 2..Len(q) : k - 1 \in 1..(Len(q) - 1) /\ Tail(q)[k - 1] = q[k]
              BY <1>1, TailPositions
            <7>2. l - 1 \in 1..Len(Tail(q)) /\ Tail(q)[l - 1] = q[l]
              BY <6>2, <7>1
            <7> QED
              BY <6>2, <7>2 DEF Messages
          <6> QED
            BY <6>1, <6>2
        <5>3. \A j : Underway(c, j)' = Underway(c, j)
          BY <1>1 DEF Underway, SameClient
        <5> QED
          BY <1>1, <4>1, <4>3, <5>1, <5>2, <5>3 DEF EntryOK, SameClient
      <4>4. SODAW_GET_DATA # SODAW_READ_COMPLETE
        BY DEF SODAW_GET_DATA, SODAW_READ_COMPLETE
      <4> QED
        BY SMTT(30), <2>3, <2>6, <3>3, <4>1, <4>2, <4>3, <4>4
    <3>4. CASE /\ m.Phase = SODAW_READ_COMPLETE /\ stopped' = stopped
               /\ readsInProgress'[s] = {x \in readsInProgress[s] : ~ SameRead(x, c, o)}
      <4>1. \A p \in R : p \in S \/ p = o
        BY <3>4 DEF Registered, SameRead
      <4>2. S \subseteq R /\ G = S
        BY <2>3, <2>7, <3>4 DEF Registered
      <4>3. SODAW_GET_DATA # SODAW_READ_COMPLETE
        BY DEF SODAW_GET_DATA, SODAW_READ_COMPLETE
      <4>4. \A x \in readsInProgress'[s] : x.reader_name = c =>
              x \in readsInProgress[s] /\ x.opnum # o
        BY <3>4 DEF SameRead
      <4> QED
        BY <2>3, <2>6, <3>4, <4>1, <4>2, <4>3, <4>4
    <3> QED
      BY <2>4, <2>5, <3>1, <3>2, <3>3, <3>4, HandlerRegistrations
  <2> QED
    BY <1>1, <1>2, <1>3, <2>8, RegAtTake
<1>7. \A t \in Servers : RegAt(d, t)'
  BY <1>5, <1>6
<1> QED
  BY <1>4, <1>7 DEF RegInvOf, RegAt

LEMMA RegInit == Init => RegInv
<1> SUFFICES ASSUME Init, NEW c \in Clients PROVE RegInvOf(c)
  BY DEF RegInv
<1>1. \A i \in Incarnations, s \in Servers : requests[c][i][s] = <<>> /\ Messages(requests[c][i][s]) = {}
  BY EmptyMessages DEF Init
<1>2. \A R, U : AskOrder(<<>>, R, U) /\ EndOrder(<<>>, R)
  BY DEF AskOrder, EndOrder
<1> QED
  BY <1>1, <1>2 DEF Init, RegInvOf, SocketInv, AwaitInv

LEMMA RegStep ==
  ASSUME TypeOK, TypeOK', NothingLost, ChannelInv, RegInv, [Next]_vars
  PROVE  RegInv'
<1> SUFFICES ASSUME NEW d \in Clients PROVE RegInvOf(d)'
  BY DEF RegInv
<1>0. RegInvOf(d) /\ \A c \in Clients : ChannelInvOf(c) /\ RegInvOf(c)
  BY DEF RegInv, ChannelInv
<1>1. CASE UNCHANGED vars
  <2>1. Quiet(d) /\ stopped' = stopped /\ readsInProgress' = readsInProgress
    BY <1>1 DEF vars, phaseVars, netVars, serverVars, processVars, Quiet
  <2> QED
    BY <1>0, <2>1, RegQuiet
<1>2. ASSUME NEW c \in Clients, ClientStep(c) PROVE RegInvOf(d)'
  <2>1. CASE StartRead(c) \/ StartWrite(c)
    <3>1. PICK phase \in {SODAW_GET_TAG, SODAW_FAST_GET_TAG_DATA} : StartOperation(c, phase)
      BY <2>1 DEF StartRead, StartWrite
    <3>2. phase \in Phases
      BY DataTypes
    <3>3. (d # c => Quiet(d)) /\ UNCHANGED <<serverVars, processVars>>
      BY <3>1, <3>2, StartOperationEffect, IdleQuiet
    <3> QED
      BY <1>0, <3>1, <3>3, StartOperationReg, RegQuiet DEF serverVars, processVars
  <2>2. ASSUME NEW s \in Servers, CollectReply(c, s) PROVE RegInvOf(d)'
    <3>1. /\ d # c => Quiet(d)
          /\ UNCHANGED <<serverVars, processVars, busy, Opnum, Phase, incarnation, requests>>
      BY <2>2, CollectReplyEffect, IdleQuiet
    <3>2. Quiet(d)
      BY <3>1 DEF Quiet
    <3> QED
      BY <1>0, <3>1, <3>2, RegQuiet DEF serverVars, processVars
  <2>3. ASSUME NEW s \in Servers, CollectRelay(c, s) PROVE RegInvOf(d)'
    <3>1. /\ c \in busy /\ Running(c) /\ Phase[c] = SODAW_GET_DATA
          /\ UNCHANGED <<serverVars, Opnum, incarnation>>
          /\ \/ stopped' = stopped \cup {c} /\ UNCHANGED <<busy, Phase, requests>>
             \/ /\ busy' = busy \ {c} /\ stopped' = stopped
                /\ EnterPhase(c, SODAW_READ_COMPLETE, TagOnly(LowestTag))
                /\ SendToServers(c, Opnum[c], SODAW_READ_COMPLETE, ToAll(TagOnly(ZeroTag)))
             \/ stopped' = stopped /\ UNCHANGED <<busy, Phase, requests>>
          /\ d # c => Quiet(d)
      BY <2>3, CollectRelayEffect, IdleQuiet DEF phaseVars, processVars
    <3>2. readsInProgress' = readsInProgress /\ stopped \subseteq stopped'
      BY <3>1 DEF serverVars
    <3>3. CASE d # c
      BY <1>0, <3>1, <3>2, <3>3, RegQuiet
    <3>4. CASE d = c /\ UNCHANGED <<busy, Phase, requests>>
      <4>1. Quiet(d)
        BY <3>1, <3>4 DEF Quiet
      <4> QED
        BY <1>0, <3>2, <4>1, RegQuiet
    <3>5. CASE /\ d = c /\ busy' = busy \ {c} /\ stopped' = stopped
               /\ EnterPhase(c, SODAW_READ_COMPLETE, TagOnly(LowestTag))
               /\ SendToServers(c, Opnum[c], SODAW_READ_COMPLETE, ToAll(TagOnly(ZeroTag)))
      BY <1>0, <3>1, <3>5, RelayEndReg
    <3> QED
      BY <3>1, <3>3, <3>4, <3>5
  <2>4. CASE WriterPutsData(c)
    <3>1. (d # c => Quiet(d)) /\ UNCHANGED <<serverVars, processVars>>
      BY <2>4, WriterPutsDataEffect, IdleQuiet
    <3> QED
      BY <1>0, <2>4, <3>1, WriterPutsDataReg, RegQuiet DEF serverVars, processVars
  <2>5. CASE PutDataCompletes(c)
    <3>1. /\ c \in busy /\ Phase[c] # SODAW_GET_DATA /\ busy' = busy \ {c}
          /\ UNCHANGED <<serverVars, processVars, Opnum, incarnation, requests>>
          /\ d # c => Quiet(d)
      BY <2>5, PutDataCompletesEffect, IdleQuiet DEF HasQuorum, SODAW_PUT_DATA, SODAW_GET_DATA
    <3> QED
      BY <1>0, <3>1, EndSilentlyReg, RegQuiet DEF serverVars, processVars
  <2>6. CASE ReaderAsksForData(c)
    <3>1. (d # c => Quiet(d)) /\ UNCHANGED <<serverVars, processVars>>
      BY <2>6, ReaderAsksForDataEffect, IdleQuiet
    <3> QED
      BY <1>0, <2>6, <3>1, ReaderAsksForDataReg, RegQuiet DEF serverVars, processVars
  <2>7. CASE ReadInOnePhase(c)
    <3>1. /\ c \in busy /\ Phase[c] # SODAW_GET_DATA
          /\ UNCHANGED <<serverVars, Opnum, incarnation, requests>>
          /\ \/ busy' = busy \ {c} /\ stopped' = stopped
             \/ Quiet(c) /\ stopped' = stopped \cup {c}
          /\ d # c => Quiet(d)
      BY <2>7, ReadInOnePhaseEffect, IdleQuiet
      DEF HasQuorum, SODAW_FAST_GET_TAG_DATA, SODAW_GET_DATA, processVars
    <3>2. readsInProgress' = readsInProgress /\ stopped \subseteq stopped'
      BY <3>1 DEF serverVars
    <3> QED
      BY <1>0, <3>1, <3>2, EndSilentlyReg, RegQuiet
  <2>8. CASE emulateNewClient(c)
    <3>1. (d # c => Quiet(d)) /\ UNCHANGED <<serverVars, processVars>>
      BY <2>8, EmulateEffect, IdleQuiet
    <3> QED
      BY <1>0, <2>8, <3>1, EmulateReg, RegQuiet DEF serverVars, processVars
  <2>9. CASE KillClient(c)
    <3>1. (d # c => Quiet(d)) /\ UNCHANGED serverVars /\ stopped \subseteq stopped'
      BY <2>9, KillClientEffect, IdleQuiet
    <3> QED
      BY <1>0, <2>9, <3>1, KillClientReg, RegQuiet DEF serverVars
  <2> QED
    BY <1>2, <2>1, <2>2, <2>3, <2>4, <2>5, <2>6, <2>7, <2>8, <2>9 DEF ClientStep
<1>3. ASSUME NEW s \in Servers, NEW c \in Clients, NEW i \in Incarnations, ServerStep(s, c, i)
      PROVE  RegInvOf(d)'
  BY <1>3, ServerStepReg
<1>4. ASSUME NEW s \in Servers, KillServer(s) PROVE RegInvOf(d)'
  <2>1. Quiet(d) /\ stopped \subseteq stopped' /\ UNCHANGED serverVars
    BY <1>4, KillServerEffect, IdleQuiet
  <2> QED
    BY <1>0, <2>1, RegQuiet DEF serverVars
<1> QED
  BY <1>1, <1>2, <1>3, <1>4 DEF Next, AllDone

\* As long as no request is lost on its way, no server goes on relaying to a read
\* that has ended: each registration is of the read in progress, or the message
\* that removes it is in the channel (readCompleteRespSodaw 388-400), whatever
\* servers and readers were killed, and under whatever name a reader came back.
THEOREM NoReadIsForgotten ==
  ASSUME NothingLost
  PROVE  Spec => []ReadsAreUnregistered
<1>1. Init => TypeOK /\ ChannelInv /\ RegInv
  BY TypeInit, ChannelInit, RegInit
<1>2. (TypeOK /\ ChannelInv /\ RegInv) /\ [Next]_vars
        => (TypeOK /\ ChannelInv /\ RegInv)'
  BY TypeStep, ChannelStep, RegStep
<1>3. TypeOK /\ ChannelInv /\ RegInv => ReadsAreUnregistered
  <2> SUFFICES ASSUME TypeOK, RegInv, NEW s \in Servers, NEW x \in readsInProgress[s]
               PROVE  LET r == x.reader_name IN
                        \/ ~ x.outdated /\ r \in busy /\ x.opnum = Opnum[r]
                        \/ \E m \in Range(requests[r][x.zmq_identity][s]) :
                             m.Opnum = x.opnum /\ m.Phase = SODAW_READ_COMPLETE
    BY DEF ReadsAreUnregistered
  <2> DEFINE r == x.reader_name
             q == requests[r][x.zmq_identity][s]
  <2>1. r \in Clients /\ x.zmq_identity \in Incarnations
    BY DEF TypeOK, ReadsInProgress
  <2>2. EntryOK(r, s, x)
    BY <2>1 DEF RegInv, RegInvOf
  <2>3. Messages(q) = Range(q)
    <3>1. q \in Seq(Message)
      BY <2>1 DEF TypeOK
    <3> QED
      BY <3>1 DEF Messages, Range
  <2> QED
    BY <2>2, <2>3 DEF EntryOK, Underway, Ends
<1> QED
  BY <1>1, <1>2, <1>3, PTL DEF Spec
=============================================================================
