----------------------------- MODULE PrakisProofs -----------------------------
(***************************************************************************)
(* Proofs about Prakis, for any number of clients, servers, operations,    *)
(* restarts, lost requests and killed servers: its types, what is in its   *)
(* channels, and the tag a read is sent elements of.  When no request is   *)
(* lost, that a read that has ended is unregistered.  When an element of   *)
(* every server is needed to decode (K = N, Rate = 1), whatever is lost or *)
(* killed: what was completed stays stored, a server never commits a tag   *)
(* for the element of another write, and reads return what was written: it *)
(* implements the tagged register.                                         *)
(***************************************************************************)
EXTENDS PrakisInvariant, StoreLemmas

-----------------------------------------------------------------------------
(* What the pieces of the actions do *)

LEMMA DataTypes ==
  /\ InitialTag \in Tag /\ ZeroTag \in Tag /\ Tag \subseteq AnyTag /\ LowestTag \in AnyTag
  /\ \A t \in AnyTag, o \in Nat :
       /\ TagOnly(t, o) \in TagValue /\ TagOnly(t, o).Tag_var = t
       /\ TagOnly(t, o).Opnum = o /\ TagOnly(t, o).ToCommit = FALSE
       /\ TagOnly(t, o).Value = NoValue /\ TagOnly(t, o).CodeIndex = FirstServer
  /\ \A tv \in TagValue : tv.Tag_var \in AnyTag /\ tv.Value \in Values \cup {NoValue, Garbage}
                          /\ tv.CodeIndex \in Servers /\ tv.Opnum \in Nat
  /\ Clients = Readers \cup Writers
  /\ {PRAKIS_PUT_DATA, PRAKIS_PUT_TAG, PRAKIS_GET_TAG_DATA, PRAKIS_RELAY_DATA,
      PRAKIS_READ_COMPLETE} = Phases
  /\ K \in Nat /\ quorum_size = K /\ K <= Cardinality(Servers)
<1>1. Cardinality(Servers) \in Nat
  BY ServersAssumption, FS_CardinalityType
<1>2. K \in Nat /\ quorum_size = K /\ K <= Cardinality(Servers)
  BY <1>1, KAssumption DEF quorum_size
<1>3. InitialTag \in Tag /\ ZeroTag \in Tag /\ Tag \subseteq AnyTag /\ LowestTag \in AnyTag
  BY DEF InitialTag, ZeroTag, Tag, AnyTag
<1>4. \A t \in AnyTag, o \in Nat :
       /\ TagOnly(t, o) \in TagValue /\ TagOnly(t, o).Tag_var = t
       /\ TagOnly(t, o).Opnum = o /\ TagOnly(t, o).ToCommit = FALSE
       /\ TagOnly(t, o).Value = NoValue /\ TagOnly(t, o).CodeIndex = FirstServer
  BY ServersAssumption DEF TagOnly, TagValue
<1> QED
  BY <1>2, <1>3, <1>4 DEF TagValue, Clients, Phases

\* A phase has one name, and no other.
LEMMA PhasesDiffer ==
  /\ PRAKIS_PUT_DATA # PRAKIS_PUT_TAG /\ PRAKIS_PUT_DATA # PRAKIS_GET_TAG_DATA
  /\ PRAKIS_PUT_DATA # PRAKIS_RELAY_DATA /\ PRAKIS_PUT_DATA # PRAKIS_READ_COMPLETE
  /\ PRAKIS_PUT_TAG # PRAKIS_GET_TAG_DATA /\ PRAKIS_PUT_TAG # PRAKIS_RELAY_DATA
  /\ PRAKIS_PUT_TAG # PRAKIS_READ_COMPLETE /\ PRAKIS_GET_TAG_DATA # PRAKIS_RELAY_DATA
  /\ PRAKIS_GET_TAG_DATA # PRAKIS_READ_COMPLETE /\ PRAKIS_RELAY_DATA # PRAKIS_READ_COMPLETE
BY DEF PRAKIS_PUT_DATA, PRAKIS_PUT_TAG, PRAKIS_GET_TAG_DATA, PRAKIS_RELAY_DATA,
       PRAKIS_READ_COMPLETE

\* A send appends a message to the current channels to all servers but those it
\* is lost to, and leaves every other channel as it is.
LEMMA SendEffect ==
  ASSUME TypeOK, NEW c \in Clients, NEW opnum \in Nat, NEW phase \in Phases,
         NEW payload \in [Servers -> TagValue], SendToServers(c, opnum, phase, payload)
  PROVE  /\ requests' \in [Clients -> [Incarnations -> [Servers -> Seq(Message)]]]
         /\ drops' \in 0..MaxDrops
         /\ \A s \in Servers :
              [Opnum |-> opnum, Phase |-> phase, TagValue_var |-> payload[s]] \in Message
         /\ \A d \in Clients, i \in Incarnations, s \in Servers :
              \/ /\ requests'[d][i][s] = requests[d][i][s]
                 /\ NothingLost => ~ (d = c /\ i = incarnation[c])
              \/ /\ d = c /\ i = incarnation[c]
                 /\ requests'[d][i][s] = Append(requests[d][i][s],
                      [Opnum |-> opnum, Phase |-> phase, TagValue_var |-> payload[s]])
<1> DEFINE m(s) == [Opnum |-> opnum, Phase |-> phase, TagValue_var |-> payload[s]]
<1>0. \A s \in Servers : m(s) \in Message
  BY DEF Message
<1>1. PICK lost \in SUBSET Servers :
        /\ drops + Cardinality(lost) <= MaxDrops
        /\ drops' = drops + Cardinality(lost)
        /\ requests' = [requests EXCEPT ![c][incarnation[c]] =
             [s \in Servers |-> IF s \in lost THEN requests[c][incarnation[c]][s]
                                ELSE Append(requests[c][incarnation[c]][s], m(s))]]
  BY DEF SendToServers
<1> HIDE DEF m
<1>2. incarnation[c] \in Incarnations
  BY DEF TypeOK
<1>3. requests \in [Clients -> [Incarnations -> [Servers -> Seq(Message)]]]
  BY DEF TypeOK
<1>4. \A i \in Incarnations, s \in Servers : Append(requests[c][i][s], m(s)) \in Seq(Message)
  BY <1>0, <1>3
<1> DEFINE row == [s \in Servers |-> IF s \in lost THEN requests[c][incarnation[c]][s]
                                     ELSE Append(requests[c][incarnation[c]][s], m(s))]
<1>5. row \in [Servers -> Seq(Message)]
  BY <1>2, <1>3, <1>4
<1>6. requests' = [requests EXCEPT ![c][incarnation[c]] = row]
  BY <1>1
<1>7. /\ requests' \in [Clients -> [Incarnations -> [Servers -> Seq(Message)]]]
      /\ \A d \in Clients, i \in Incarnations :
           requests'[d][i] = IF d = c /\ i = incarnation[c] THEN row ELSE requests[d][i]
  <2> HIDE DEF row
  <2> QED
    BY <1>2, <1>3, <1>5, <1>6
<1>8. IsFiniteSet(lost) /\ Cardinality(lost) \in Nat /\ (Cardinality(lost) = 0 => lost = {})
  BY ServersAssumption, FS_Subset, FS_CardinalityType, FS_EmptySet
<1>9. drops' \in 0..MaxDrops /\ (NothingLost => lost = {})
  BY <1>1, <1>8, BoundsAssumption DEF TypeOK, NothingLost
<1>10. ASSUME NEW d \in Clients, NEW i \in Incarnations, NEW s \in Servers
       PROVE  \/ /\ requests'[d][i][s] = requests[d][i][s]
                 /\ NothingLost => ~ (d = c /\ i = incarnation[c])
              \/ /\ d = c /\ i = incarnation[c]
                 /\ requests'[d][i][s] = Append(requests[d][i][s], m(s))
  <2>1. CASE d = c /\ i = incarnation[c]
    <3>1. requests'[d][i][s] = row[s]
      BY <1>7, <2>1
    <3> QED
      BY <1>9, <2>1, <3>1
  <2>2. CASE ~ (d = c /\ i = incarnation[c])
    BY <1>7, <2>2
  <2> QED
    BY <2>1, <2>2
<1> QED
  BY <1>0, <1>7, <1>9, <1>10 DEF m

\* A server takes one message from one channel.
LEMMA TakeEffect ==
  ASSUME TypeOK, NEW s \in Servers, NEW c \in Clients, NEW i \in Incarnations,
         ServerStep(s, c, i)
  PROVE  /\ requests' \in [Clients -> [Incarnations -> [Servers -> Seq(Message)]]]
         /\ requests[c][i][s] \in Seq(Message) /\ requests[c][i][s] # <<>>
         /\ Head(requests[c][i][s]) \in Message
         /\ requests'[c][i][s] = Tail(requests[c][i][s])
         /\ \A d \in Clients, j \in Incarnations, t \in Servers :
              ~ (d = c /\ j = i /\ t = s) => requests'[d][j][t] = requests[d][j][t]
<1>1. requests[c][i][s] \in Seq(Message) /\ requests[c][i][s] # <<>>
      /\ requests' = [requests EXCEPT ![c][i][s] = Tail(requests[c][i][s])]
  BY DEF ServerStep, TypeOK
<1>2. Tail(requests[c][i][s]) \in Seq(Message) /\ Head(requests[c][i][s]) \in Message
  BY <1>1, ReceiveMessages
<1> QED
  BY <1>1, <1>2 DEF TypeOK

-----------------------------------------------------------------------------
(* Types *)

LEMMA TypeInit == Init => TypeOK
<1> SUFFICES ASSUME Init PROVE TypeOK
  OBVIOUS
<1>1. requests \in [Clients -> [Incarnations -> [Servers -> Seq(Message)]]]
      /\ replies \in [Clients -> [Servers -> Seq(Message)]]
  BY DEF Init
<1>2. incarnation \in [Clients -> Incarnations]
  BY BoundsAssumption DEF Init, Incarnations
<1>3. drops \in 0..MaxDrops
  BY BoundsAssumption DEF Init
<1>4. server_state_variables \in [Servers -> SingleObjServerState]
      /\ TagValue_var \in [Clients -> TagValue]
  <2>1. TagOnly(InitialTag, 0) \in TagValue /\ TagOnly(LowestTag, 0) \in TagValue
    BY DataTypes
  <2> QED
    BY <2>1 DEF Init, SingleObjServerState
<1>5. Opnum \in [Clients -> Nat] /\ \A c \in Clients : Opnum[c] <= MaxOpnum[c]
  BY BoundsAssumption DEF Init
<1> QED
  BY <1>1, <1>2, <1>3, <1>4, <1>5, DataTypes DEF Init, TypeOK

LEMMA EnterPhaseType ==
  ASSUME TypeOK, NEW c \in Clients, NEW phase \in Phases, NEW tv \in TagValue,
         EnterPhase(c, phase, tv)
  PROVE  /\ replies' \in [Clients -> [Servers -> Seq(Message)]]
         /\ Phase' \in [Clients -> Phases]
         /\ num_responses' \in [Clients -> Nat]
         /\ TagValue_var' \in [Clients -> TagValue]
         /\ IsOnePhase' \in [Clients -> BOOLEAN]
         /\ rx_state' \in [Clients -> SUBSET TagValue]
         /\ tagsRequested' \in [Clients -> SUBSET AnyTag]
         /\ responders' \in [Clients -> SUBSET Servers]
<1>1. replies' \in [Clients -> [Servers -> Seq(Message)]]
  BY DEF EnterPhase, TypeOK
<1> QED
  BY <1>1 DEF EnterPhase, TypeOK

LEMMA EndOperationType ==
  ASSUME TypeOK, NEW c \in Clients, NEW phase \in Phases, NEW tv, tv.Tag_var \in AnyTag,
         EndOperation(c, phase, tv),
         UNCHANGED <<server_state_variables, Opnum, incarnation>>, stopped' = stopped,
         requests' \in [Clients -> [Incarnations -> [Servers -> Seq(Message)]]],
         drops' \in 0..MaxDrops
  PROVE  TypeOK'
<1>1. TagOnly(LowestTag, 0) \in TagValue
  BY DataTypes
<1>2. LargerTag(tv.Tag_var, completed) \in Tag
  BY DEF TypeOK, LargerTag, isGreaterTag, AnyTag, Tag, LowestTag
<1>3. completed' \in Tag
  BY <1>2 DEF EndOperation
<1> QED
  BY <1>1, <1>3, EnterPhaseType DEF EndOperation, TypeOK

\* A broadcast of the same payload to all.
LEMMA ToAllType ==
  ASSUME NEW tv \in TagValue
  PROVE  ToAll(tv) \in [Servers -> TagValue] /\ \A s \in Servers : ToAll(tv)[s] = tv
BY DEF ToAll

LEMMA StartOperationType ==
  ASSUME TypeOK, NEW c \in Clients, NEW phase \in Phases,
         NEW payload \in [Servers -> TagValue], StartOperation(c, phase, payload)
  PROVE  TypeOK'
<1>1. TagOnly(LowestTag, 0) \in TagValue
  BY DataTypes
<1>2. Opnum[c] \in Nat /\ Opnum[c] + 1 \in Nat
  BY DEF TypeOK
<1>3. SendToServers(c, Opnum[c] + 1, phase, payload)
      /\ EnterPhase(c, phase, TagOnly(LowestTag, 0))
  BY DEF StartOperation
<1>4. /\ requests' \in [Clients -> [Incarnations -> [Servers -> Seq(Message)]]]
      /\ drops' \in 0..MaxDrops
  BY <1>2, <1>3, SendEffect
<1>5. Opnum' = [Opnum EXCEPT ![c] = Opnum[c] + 1] /\ Opnum[c] < MaxOpnum[c]
  BY DEF StartOperation, OperationAsked
<1>6. /\ Opnum' \in [Clients -> Nat]
      /\ \A d \in Clients : Opnum'[d] <= MaxOpnum[d]
      /\ \A d \in busy' : Opnum'[d] >= 1
  <2>1. Opnum \in [Clients -> Nat] /\ MaxOpnum[c] \in Nat
    BY BoundsAssumption DEF TypeOK
  <2>2. Opnum' \in [Clients -> Nat]
    BY <1>2, <1>5, <2>1
  <2>3. ASSUME NEW d \in Clients
        PROVE  /\ Opnum'[d] = IF d = c THEN Opnum[c] + 1 ELSE Opnum[d]
               /\ Opnum[d] \in Nat /\ Opnum[d] <= MaxOpnum[d]
    BY <1>5, <2>1 DEF TypeOK
  <2>4. ASSUME NEW d \in Clients PROVE Opnum'[d] <= MaxOpnum[d]
    BY <1>2, <1>5, <2>1, <2>3
  <2>5. ASSUME NEW d \in busy' PROVE Opnum'[d] >= 1
    <3>1. d \in Clients /\ (d # c => d \in busy)
      BY DEF StartOperation, TypeOK
    <3>2. d # c => Opnum[d] >= 1
      BY <3>1 DEF TypeOK
    <3> QED
      BY <1>2, <2>3, <3>1, <3>2
  <2> QED
    BY <2>2, <2>4, <2>5
<1> QED
  BY <1>1, <1>3, <1>4, <1>6, EnterPhaseType
  DEF StartOperation, TypeOK, processVars

\* What a write sends to each server: its element, under a tag of version 0.
PutElement(w, s) ==
  [Tag_var |-> [Version_num |-> 0, Client_id |-> NameTag[w]],
   Value |-> <<w, Opnum[w] + 1>>, CodeIndex |-> s, Opnum |-> Opnum[w] + 1,
   ToCommit |-> FALSE]

LEMMA PutElementType ==
  ASSUME TypeOK, NEW w \in Writers, Opnum[w] < MaxOpnum[w]
  PROVE  [s \in Servers |-> PutElement(w, s)] \in [Servers -> TagValue]
<1>1. w \in Clients
  BY DEF Clients
<1>2. Opnum[w] \in Nat /\ MaxOpnum[w] \in Nat
  BY <1>1, BoundsAssumption DEF TypeOK
<1>3. Opnum[w] + 1 \in 1..MaxOpnum[w] /\ Opnum[w] + 1 \in Nat
  BY <1>2
<1>4. <<w, Opnum[w] + 1>> \in Values
  <2>1. <<w, Opnum[w] + 1>> \in {w} \X (1..MaxOpnum[w])
    BY <1>3
  <2> QED
    BY <2>1 DEF Values
<1>5. [Version_num |-> 0, Client_id |-> NameTag[w]] \in AnyTag
  BY NameTagAssumption DEF AnyTag, Tag
<1> QED
  BY <1>3, <1>4, <1>5 DEF PutElement, TagValue

LEMMA StartType ==
  ASSUME TypeOK, NEW c \in Clients
  PROVE  /\ StartRead(c) => /\ c \in Readers
                            /\ ToAll(TagOnly(ZeroTag, 0)) \in [Servers -> TagValue]
                            /\ StartOperation(c, PRAKIS_GET_TAG_DATA, ToAll(TagOnly(ZeroTag, 0)))
         /\ StartWrite(c) => /\ c \in Writers
                             /\ [s \in Servers |-> PutElement(c, s)] \in [Servers -> TagValue]
                             /\ StartOperation(c, PRAKIS_PUT_DATA,
                                               [s \in Servers |-> PutElement(c, s)])
<1>1. TagOnly(ZeroTag, 0) \in TagValue
  BY DataTypes
<1>2. CASE StartRead(c)
  BY <1>1, <1>2, ToAllType, ClientsAssumption DEF StartRead, StartWrite
<1>3. CASE StartWrite(c)
  <2>1. c \in Writers /\ c \notin Readers
        /\ StartOperation(c, PRAKIS_PUT_DATA, [s \in Servers |-> PutElement(c, s)])
    BY <1>3, ClientsAssumption DEF StartWrite, PutElement
  <2>2. Opnum[c] < MaxOpnum[c]
    BY <2>1 DEF StartOperation, OperationAsked
  <2> QED
    BY <2>1, <2>2, PutElementType DEF StartRead
<1> QED
  BY <1>2, <1>3

LEMMA ReceiveType ==
  ASSUME TypeOK, NEW c \in Clients, NEW s \in Servers, replies[c][s] # <<>>
  PROVE  /\ replies[c][s] \in Seq(Message)
         /\ Tail(replies[c][s]) \in Seq(Message)
         /\ Head(replies[c][s]) \in Message
         /\ Head(replies[c][s]) \in Messages(replies[c][s])
         /\ Messages(Tail(replies[c][s])) \subseteq Messages(replies[c][s])
         /\ Head(replies[c][s]).TagValue_var \in TagValue
         /\ [replies EXCEPT ![c][s] = Tail(replies[c][s])]
              \in [Clients -> [Servers -> Seq(Message)]]
<1>1. replies[c][s] \in Seq(Message)
  BY DEF TypeOK
<1>2. /\ Tail(replies[c][s]) \in Seq(Message)
      /\ Head(replies[c][s]) \in Message
      /\ Head(replies[c][s]) \in Messages(replies[c][s])
      /\ Messages(Tail(replies[c][s])) \subseteq Messages(replies[c][s])
  BY <1>1, ReceiveMessages
<1> QED
  BY <1>1, <1>2 DEF TypeOK, Message

LEMMA CollectReplyType ==
  ASSUME TypeOK, NEW c \in Clients, NEW s \in Servers, CollectReply(c, s)
  PROVE  TypeOK'
<1> DEFINE tv == Head(replies[c][s]).TagValue_var
<1>1. replies[c][s] # <<>> /\ replies' = [replies EXCEPT ![c][s] = Tail(replies[c][s])]
  BY DEF CollectReply
<1>2. tv \in TagValue /\ replies' \in [Clients -> [Servers -> Seq(Message)]]
  BY <1>1, ReceiveType
<1>3. \/ UNCHANGED <<TagValue_var, IsOnePhase, rx_state>>
      \/ /\ TagValue_var' = [TagValue_var EXCEPT ![c] =
              IF IsSmallerThan(TagValue_var[c].Tag_var, tv.Tag_var)
                THEN TagOnly(tv.Tag_var, tv.Opnum) ELSE TagValue_var[c]]
         /\ IsOnePhase' = [IsOnePhase EXCEPT ![c] = StaysOnePhase(c, tv)]
         /\ rx_state' = [rx_state EXCEPT ![c] =
              IF Phase[c] = PRAKIS_GET_TAG_DATA /\ StaysOnePhase(c, tv)
                THEN AddChunk(rx_state[c], tv) ELSE {}]
  BY DEF CollectReply
<1>4. stopped' = stopped \/ stopped' = stopped \cup {c}
  BY DEF CollectReply, processVars
<1> HIDE DEF tv
<1>5. TagOnly(tv.Tag_var, tv.Opnum) \in TagValue
  BY <1>2, DataTypes
<1>6. AddChunk(rx_state[c], tv) \in SUBSET TagValue
  BY <1>2 DEF AddChunk, TypeOK
<1>7. StaysOnePhase(c, tv) \in BOOLEAN
  BY DEF StaysOnePhase, TypeOK
<1>8. /\ TagValue_var' \in [Clients -> TagValue]
      /\ IsOnePhase' \in [Clients -> BOOLEAN]
      /\ rx_state' \in [Clients -> SUBSET TagValue]
  <2>1. CASE UNCHANGED <<TagValue_var, IsOnePhase, rx_state>>
    BY <2>1 DEF TypeOK
  <2>2. CASE ~ UNCHANGED <<TagValue_var, IsOnePhase, rx_state>>
    <3> DEFINE rx == IF Phase[c] = PRAKIS_GET_TAG_DATA /\ StaysOnePhase(c, tv)
                       THEN AddChunk(rx_state[c], tv) ELSE {}
               tag == IF IsSmallerThan(TagValue_var[c].Tag_var, tv.Tag_var)
                        THEN TagOnly(tv.Tag_var, tv.Opnum) ELSE TagValue_var[c]
               one == StaysOnePhase(c, tv)
    <3>1. rx \in SUBSET TagValue /\ tag \in TagValue /\ one \in BOOLEAN
      BY <1>5, <1>6, <1>7 DEF TypeOK
    <3>2. /\ TagValue_var' = [TagValue_var EXCEPT ![c] = tag]
          /\ IsOnePhase' = [IsOnePhase EXCEPT ![c] = one]
          /\ rx_state' = [rx_state EXCEPT ![c] = rx]
      BY <1>3, <2>2
    <3> HIDE DEF rx, tag, one
    <3> QED
      BY <3>1, <3>2 DEF TypeOK
  <2> QED
    BY <2>1, <2>2
<1>9. /\ num_responses' \in [Clients -> Nat]
      /\ responders' \in [Clients -> SUBSET Servers]
  <2>1. /\ num_responses' = [num_responses EXCEPT ![c] = num_responses[c] + 1]
        /\ responders' = [responders EXCEPT ![c] = responders[c] \cup {s}]
    BY DEF CollectReply
  <2> QED
    BY <2>1 DEF TypeOK
<1> QED
  BY <1>2, <1>4, <1>8, <1>9 DEF CollectReply, TypeOK, historyVars

LEMMA WriterPutsTagType ==
  ASSUME TypeOK, NEW w \in Clients, WriterPutsTag(w)
  PROVE  TypeOK'
<1> DEFINE tv == TagOnly(TagValue_var[w].Tag_var, Opnum[w])
<1>1. tv \in TagValue /\ Opnum[w] \in Nat /\ PRAKIS_PUT_TAG \in Phases
  BY DataTypes DEF TypeOK
<1>2. EnterPhase(w, PRAKIS_PUT_TAG, tv) /\ SendToServers(w, Opnum[w], PRAKIS_PUT_TAG, ToAll(tv))
  BY DEF WriterPutsTag
<1> HIDE DEF tv
<1>3. /\ requests' \in [Clients -> [Incarnations -> [Servers -> Seq(Message)]]]
      /\ drops' \in 0..MaxDrops
  BY <1>1, <1>2, SendEffect, ToAllType
<1> QED
  BY <1>1, <1>2, <1>3, EnterPhaseType DEF WriterPutsTag, TypeOK, processVars, historyVars

LEMMA ReaderAsksForRelaysType ==
  ASSUME TypeOK, NEW r \in Clients, ReaderAsksForRelays(r)
  PROVE  TypeOK'
<1>1. TagValue_var[r] \in TagValue /\ Opnum[r] \in Nat /\ PRAKIS_RELAY_DATA \in Phases
  BY DataTypes DEF TypeOK
<1>2. /\ EnterPhase(r, PRAKIS_RELAY_DATA, TagValue_var[r])
      /\ SendToServers(r, Opnum[r], PRAKIS_RELAY_DATA, ToAll(TagValue_var[r]))
  BY DEF ReaderAsksForRelays
<1>3. /\ requests' \in [Clients -> [Incarnations -> [Servers -> Seq(Message)]]]
      /\ drops' \in 0..MaxDrops
  BY <1>1, <1>2, SendEffect, ToAllType
<1> QED
  BY <1>1, <1>2, <1>3, EnterPhaseType DEF ReaderAsksForRelays, TypeOK, processVars, historyVars

LEMMA PutTagCompletesType ==
  ASSUME TypeOK, NEW w \in Clients, PutTagCompletes(w)
  PROVE  TypeOK'
<1> DEFINE tv == [TagValue_var[w] EXCEPT !.Value = <<w, Opnum[w]>>]
<1>1. tv.Tag_var \in AnyTag
  BY DataTypes DEF TypeOK, TagValue
<1>2. EndOperation(w, PRAKIS_PUT_TAG, tv)
  BY DEF PutTagCompletes
<1>3. requests' \in [Clients -> [Incarnations -> [Servers -> Seq(Message)]]]
      /\ drops' \in 0..MaxDrops /\ stopped' = stopped
  BY DEF PutTagCompletes, TypeOK, processVars
<1> HIDE DEF tv
<1> QED
  BY <1>1, <1>2, <1>3, EndOperationType, DataTypes DEF PutTagCompletes

LEMMA ReadInOnePhaseType ==
  ASSUME TypeOK, NEW r \in Clients, ReadInOnePhase(r)
  PROVE  TypeOK'
<1>1. CASE Cardinality(rx_state[r]) = K
  <2> DEFINE tv == [TagValue_var[r] EXCEPT !.Value = Decoded(rx_state[r])]
  <2>1. tv.Tag_var \in AnyTag
    BY DataTypes DEF TypeOK, TagValue
  <2>2. EndOperation(r, PRAKIS_GET_TAG_DATA, tv)
    BY <1>1 DEF ReadInOnePhase
  <2>3. requests' \in [Clients -> [Incarnations -> [Servers -> Seq(Message)]]]
        /\ drops' \in 0..MaxDrops /\ stopped' = stopped
    BY <1>1 DEF ReadInOnePhase, TypeOK, processVars
  <2> HIDE DEF tv
  <2> QED
    BY <2>1, <2>2, <2>3, EndOperationType, DataTypes DEF ReadInOnePhase
<1>2. CASE Cardinality(rx_state[r]) # K
  BY <1>2 DEF ReadInOnePhase, TypeOK, phaseVars, historyVars
<1> QED
  BY <1>1, <1>2

\* What a reader sends that commits the tag of an element it has received.
CommitRequest(tv) == [TagOnly(tv.Tag_var, tv.Opnum) EXCEPT !.ToCommit = TRUE]

LEMMA CommitRequestType ==
  ASSUME NEW tv \in TagValue
  PROVE  /\ CommitRequest(tv) \in TagValue /\ CommitRequest(tv).Tag_var = tv.Tag_var
         /\ CommitRequest(tv).Opnum = tv.Opnum /\ CommitRequest(tv).ToCommit = TRUE
BY DataTypes DEF CommitRequest, TagOnly, TagValue

\* The elements received with tag t.
ElementsOf(rx, t) == {e \in rx : e.Tag_var = t}

\* The four ways to take a relay: it is too old, it completes the read, it is
\* kept, or it is kept and its tag is committed.
CollectRelayCases(r, s) ==
  LET tv == Head(replies[r][s]).TagValue_var
      rx == AddElement(rx_state[r], tv)
      rest == [replies EXCEPT ![r][s] = Tail(replies[r][s])] IN
  /\ r \in busy /\ Running(r) /\ Phase[r] = PRAKIS_RELAY_DATA /\ replies[r][s] # <<>>
  /\ UNCHANGED <<server_state_variables, Opnum, incarnation>>
  /\ \/ /\ IsSmallerThan(tv.Tag_var, TagValue_var[r].Tag_var)
        /\ panics' = panics \cup {"a tag less than requested tag"}
        /\ stopped' = stopped \cup {r} /\ replies' = rest
        /\ UNCHANGED <<busy, phaseVars, requests, drops, historyVars>>
     \/ /\ ~ IsSmallerThan(tv.Tag_var, TagValue_var[r].Tag_var)
        /\ Cardinality(ElementsOf(rx, tv.Tag_var)) = K
        /\ EndOperation(r, PRAKIS_READ_COMPLETE,
             [TagOnly(tv.Tag_var, 0) EXCEPT !.Value = Decoded(ElementsOf(rx, tv.Tag_var))])
        /\ SendToServers(r, Opnum[r], PRAKIS_READ_COMPLETE, ToAll(TagOnly(ZeroTag, 0)))
        /\ UNCHANGED processVars
     \/ /\ ~ IsSmallerThan(tv.Tag_var, TagValue_var[r].Tag_var)
        /\ rx_state' = [rx_state EXCEPT ![r] = rx] /\ replies' = rest
        /\ UNCHANGED <<tagsRequested, requests, drops>>
        /\ UNCHANGED <<processVars, busy, Phase, num_responses, TagValue_var,
                       IsOnePhase, responders, historyVars>>
     \/ /\ ~ IsSmallerThan(tv.Tag_var, TagValue_var[r].Tag_var)
        /\ rx_state' = [rx_state EXCEPT ![r] = rx] /\ replies' = rest
        /\ tagsRequested' = [tagsRequested EXCEPT ![r] = tagsRequested[r] \cup {tv.Tag_var}]
        /\ SendToServers(r, Opnum[r], PRAKIS_RELAY_DATA, ToAll(CommitRequest(tv)))
        /\ UNCHANGED <<processVars, busy, Phase, num_responses, TagValue_var,
                       IsOnePhase, responders, historyVars>>

LEMMA CollectRelaySplits ==
  ASSUME NEW r \in Clients, NEW s \in Servers, CollectRelay(r, s)
  PROVE  CollectRelayCases(r, s)
<1> DEFINE tv == Head(replies[r][s]).TagValue_var
           rx == AddElement(rx_state[r], tv)
           rest == [replies EXCEPT ![r][s] = Tail(replies[r][s])]
           old == IsSmallerThan(tv.Tag_var, TagValue_var[r].Tag_var)
           full == Cardinality(ElementsOf(rx, tv.Tag_var)) = K
           commits == /\ IsSmallerThan(TagValue_var[r].Tag_var, tv.Tag_var)
                      /\ tv.Tag_var \notin tagsRequested[r]
<1>1. /\ r \in busy /\ Running(r) /\ Phase[r] = PRAKIS_RELAY_DATA /\ replies[r][s] # <<>>
      /\ UNCHANGED <<server_state_variables, Opnum, incarnation>>
  BY DEF CollectRelay
<1>2. CASE old
  BY <1>1, <1>2 DEF CollectRelay, CollectRelayCases
<1>3. CASE ~ old /\ full
  BY <1>1, <1>3 DEF CollectRelay, CollectRelayCases, ElementsOf
<1>4. CASE ~ old /\ ~ full /\ ~ commits
  <2>1. /\ rx_state' = [rx_state EXCEPT ![r] = rx] /\ replies' = rest
        /\ UNCHANGED <<tagsRequested, requests, drops>>
        /\ UNCHANGED <<processVars, busy, Phase, num_responses, TagValue_var,
                       IsOnePhase, responders, historyVars>>
    BY <1>4 DEF CollectRelay, ElementsOf
  <2> QED
    BY <1>1, <1>4, <2>1 DEF CollectRelayCases
<1>5. CASE ~ old /\ ~ full /\ commits
  <2>1. /\ rx_state' = [rx_state EXCEPT ![r] = rx] /\ replies' = rest
        /\ tagsRequested' = [tagsRequested EXCEPT ![r] = tagsRequested[r] \cup {tv.Tag_var}]
        /\ SendToServers(r, Opnum[r], PRAKIS_RELAY_DATA, ToAll(CommitRequest(tv)))
        /\ UNCHANGED <<processVars, busy, Phase, num_responses, TagValue_var,
                       IsOnePhase, responders, historyVars>>
    BY <1>5 DEF CollectRelay, ElementsOf, CommitRequest
  <2> QED
    BY <1>1, <1>5, <2>1 DEF CollectRelayCases
<1> QED
  BY <1>2, <1>3, <1>4, <1>5

LEMMA CollectRelayType ==
  ASSUME TypeOK, NEW r \in Clients, NEW s \in Servers, CollectRelay(r, s)
  PROVE  TypeOK'
<1> DEFINE tv == Head(replies[r][s]).TagValue_var
           rx == AddElement(rx_state[r], tv)
           rest == [replies EXCEPT ![r][s] = Tail(replies[r][s])]
           out == [TagOnly(tv.Tag_var, 0) EXCEPT !.Value = Decoded(ElementsOf(rx, tv.Tag_var))]
<1>1. CollectRelayCases(r, s)
  BY CollectRelaySplits
<1>2. tv \in TagValue /\ rest \in [Clients -> [Servers -> Seq(Message)]]
  BY <1>1, ReceiveType DEF CollectRelayCases
<1>3. rx \in SUBSET TagValue
  <2> HIDE DEF tv
  <2> QED
    BY <1>2 DEF AddElement, TypeOK
<1>4. out.Tag_var \in AnyTag
  BY <1>2, DataTypes DEF TagOnly
<1>5. /\ UNCHANGED <<server_state_variables, Opnum, incarnation>>
      /\ \/ /\ stopped' = stopped \cup {r} /\ replies' = rest
            /\ UNCHANGED <<busy, phaseVars, requests, drops, historyVars>>
         \/ /\ EndOperation(r, PRAKIS_READ_COMPLETE, out)
            /\ SendToServers(r, Opnum[r], PRAKIS_READ_COMPLETE, ToAll(TagOnly(ZeroTag, 0)))
            /\ stopped' = stopped
         \/ /\ rx_state' = [rx_state EXCEPT ![r] = rx] /\ replies' = rest
            /\ \/ UNCHANGED <<tagsRequested, requests, drops>>
               \/ /\ tagsRequested' = [tagsRequested EXCEPT ![r] =
                                         tagsRequested[r] \cup {tv.Tag_var}]
                  /\ SendToServers(r, Opnum[r], PRAKIS_RELAY_DATA, ToAll(CommitRequest(tv)))
            /\ UNCHANGED <<stopped, busy, Phase, num_responses, TagValue_var,
                           IsOnePhase, responders, historyVars>>
  BY <1>1 DEF CollectRelayCases, processVars
<1> HIDE DEF tv, rx, rest, out
<1>6. CASE /\ stopped' = stopped \cup {r} /\ replies' = rest
           /\ UNCHANGED <<busy, phaseVars, requests, drops, historyVars>>
  BY <1>2, <1>5, <1>6 DEF TypeOK, phaseVars, historyVars
<1>7. CASE /\ EndOperation(r, PRAKIS_READ_COMPLETE, out)
           /\ SendToServers(r, Opnum[r], PRAKIS_READ_COMPLETE, ToAll(TagOnly(ZeroTag, 0)))
           /\ stopped' = stopped
  <2>1. TagOnly(ZeroTag, 0) \in TagValue /\ Opnum[r] \in Nat /\ PRAKIS_READ_COMPLETE \in Phases
    BY DataTypes DEF TypeOK
  <2>2. requests' \in [Clients -> [Incarnations -> [Servers -> Seq(Message)]]]
        /\ drops' \in 0..MaxDrops
    BY <1>7, <2>1, SendEffect, ToAllType
  <2> QED
    BY <1>4, <1>5, <1>7, <2>1, <2>2, EndOperationType
<1>8. CASE /\ rx_state' = [rx_state EXCEPT ![r] = rx] /\ replies' = rest
           /\ \/ UNCHANGED <<tagsRequested, requests, drops>>
              \/ /\ tagsRequested' = [tagsRequested EXCEPT ![r] =
                                        tagsRequested[r] \cup {tv.Tag_var}]
                 /\ SendToServers(r, Opnum[r], PRAKIS_RELAY_DATA, ToAll(CommitRequest(tv)))
           /\ UNCHANGED <<stopped, busy, Phase, num_responses, TagValue_var,
                          IsOnePhase, responders, historyVars>>
  <2>1. rx_state' \in [Clients -> SUBSET TagValue]
    BY <1>3, <1>8 DEF TypeOK
  <2>2. /\ tagsRequested' \in [Clients -> SUBSET AnyTag]
        /\ requests' \in [Clients -> [Incarnations -> [Servers -> Seq(Message)]]]
        /\ drops' \in 0..MaxDrops
    <3>1. CASE UNCHANGED <<tagsRequested, requests, drops>>
      BY <3>1 DEF TypeOK
    <3>2. CASE /\ tagsRequested' = [tagsRequested EXCEPT ![r] =
                                        tagsRequested[r] \cup {tv.Tag_var}]
               /\ SendToServers(r, Opnum[r], PRAKIS_RELAY_DATA, ToAll(CommitRequest(tv)))
      <4>1. /\ CommitRequest(tv) \in TagValue /\ tv.Tag_var \in AnyTag /\ Opnum[r] \in Nat
            /\ PRAKIS_RELAY_DATA \in Phases
        BY <1>2, CommitRequestType, DataTypes DEF TypeOK
      <4>2. tagsRequested' \in [Clients -> SUBSET AnyTag]
        BY <3>2, <4>1 DEF TypeOK
      <4> QED
        BY <3>2, <4>1, <4>2, SendEffect, ToAllType
    <3> QED
      BY <1>8, <3>1, <3>2
  <2> QED
    BY <1>2, <1>5, <1>8, <2>1, <2>2 DEF TypeOK, historyVars
<1> QED
  BY <1>5, <1>6, <1>7, <1>8

LEMMA EmulateNewClientType ==
  ASSUME TypeOK, NEW c \in Clients, emulateNewClient(c)
  PROVE  TypeOK'
<1>1. incarnation[c] \in 0..MaxIncarnation /\ incarnation[c] < MaxIncarnation
  BY DEF TypeOK, emulateNewClient, Incarnations
<1>2. incarnation[c] + 1 \in Incarnations
  BY <1>1, BoundsAssumption DEF Incarnations
<1>3. incarnation' \in [Clients -> Incarnations]
  BY <1>2 DEF TypeOK, emulateNewClient
<1> QED
  BY <1>3 DEF emulateNewClient, TypeOK, processVars, phaseVars, netVars, historyVars

LEMMA KillServerType ==
  ASSUME TypeOK, NEW s \in Servers, KillServer(s)
  PROVE  TypeOK'
BY DEF KillServer, TypeOK, phaseVars, netVars, historyVars

-----------------------------------------------------------------------------
(* The state of a server *)

LEMMA EntriesType ==
  ASSUME NEW st \in SingleObjServerState, NEW tag, NEW opnum
  PROVE  /\ EntriesOf(st, tag, opnum) \subseteq st.writesInProgress
         /\ st.writesInProgress \subseteq WritesInProgress
         /\ Forget(st, tag, opnum) \subseteq WritesInProgress
         /\ \A x \in EntriesOf(st, tag, opnum) : SameWrite(x, tag, opnum)
         /\ \A x \in st.writesInProgress : x.tagValue \in TagValue
BY DEF EntriesOf, SingleObjServerState, Forget, WritesInProgress

\* A commit of a write in progress makes an element of its list final.
LEMMA CommittedType ==
  ASSUME NEW st \in SingleObjServerState, NEW tag \in AnyTag, NEW opnum,
         isWriteInProgress(st, tag, opnum)
  PROVE  /\ Committed(st, tag, opnum) \in TagValue
         /\ Committed(st, tag, opnum).Tag_var = tag
         /\ \E x \in EntriesOf(st, tag, opnum) :
              /\ x = CHOOSE y \in EntriesOf(st, tag, opnum) : TRUE
              /\ Committed(st, tag, opnum) = [x.tagValue EXCEPT !.Tag_var = tag]
<1> DEFINE x == CHOOSE y \in EntriesOf(st, tag, opnum) : TRUE
<1>1. x \in EntriesOf(st, tag, opnum)
  BY DEF isWriteInProgress
<1>2. x.tagValue \in TagValue
  BY <1>1, EntriesType
<1>3. Committed(st, tag, opnum) = [x.tagValue EXCEPT !.Tag_var = tag]
  BY DEF Committed
<1> HIDE DEF x
<1>4. Committed(st, tag, opnum) \in TagValue /\ Committed(st, tag, opnum).Tag_var = tag
  BY <1>2, <1>3 DEF TagValue
<1> QED
  BY <1>1, <1>3, <1>4 DEF x

LEMMA SetEntryType ==
  ASSUME NEW st \in SingleObjServerState, NEW tag \in AnyTag, NEW opnum \in Nat,
         NEW tv \in TagValue, NEW b \in BOOLEAN
  PROVE  /\ SetEntry(st, tag, opnum, tv, b) \in SingleObjServerState
         /\ SetEntry(st, tag, opnum, tv, b).tagCodedElement_var = st.tagCodedElement_var
         /\ SetEntry(st, tag, opnum, tv, b).readsInProgress = st.readsInProgress
         /\ SetEntry(st, tag, opnum, tv, b).writesInProgress =
              Forget(st, tag, opnum) \cup {[Client_id |-> tag.Client_id, opnum |-> opnum,
                                            tagValue |-> tv, isFinalized |-> b]}
<1> DEFINE x == [Client_id |-> tag.Client_id, opnum |-> opnum, tagValue |-> tv,
                 isFinalized |-> b]
           ws == Forget(st, tag, opnum) \cup {x}
<1>1. x \in WritesInProgress
  BY DEF WritesInProgress, AnyTag, Tag, LowestTag
<1>2. SetEntry(st, tag, opnum, tv, b) = [st EXCEPT !.writesInProgress = ws]
  BY DEF SetEntry, Forget
<1>3. ws \in SUBSET WritesInProgress
  BY <1>1, EntriesType
<1> HIDE DEF x, ws
<1>4. /\ SetEntry(st, tag, opnum, tv, b) \in SingleObjServerState
      /\ SetEntry(st, tag, opnum, tv, b).tagCodedElement_var = st.tagCodedElement_var
      /\ SetEntry(st, tag, opnum, tv, b).readsInProgress = st.readsInProgress
      /\ SetEntry(st, tag, opnum, tv, b).writesInProgress = ws
  BY <1>2, <1>3 DEF SingleObjServerState
<1> QED
  BY <1>4 DEF ws, x

LEMMA CommitTagType ==
  ASSUME NEW st \in SingleObjServerState, NEW tag \in AnyTag, NEW opnum \in Nat
  PROVE  /\ commitTag(st, tag, opnum) \in SingleObjServerState
         /\ commitTag(st, tag, opnum).readsInProgress = st.readsInProgress
         /\ commitTag(st, tag, opnum).tagCodedElement_var =
              IF isWriteInProgress(st, tag, opnum)
                 /\ IsSmallerThan(st.tagCodedElement_var.Tag_var, tag)
                THEN Committed(st, tag, opnum) ELSE st.tagCodedElement_var
         /\ commitTag(st, tag, opnum).writesInProgress =
              IF isWriteInProgress(st, tag, opnum) THEN Forget(st, tag, opnum)
              ELSE IF opnum > latestOpnumWriters
                THEN Forget(st, tag, opnum) \cup
                       {[Client_id |-> tag.Client_id, opnum |-> opnum,
                         tagValue |-> TagOnly(tag, opnum), isFinalized |-> TRUE]}
                ELSE st.writesInProgress
<1>1. CASE isWriteInProgress(st, tag, opnum)
  <2> DEFINE ws == Forget(st, tag, opnum)
             tv == IF IsSmallerThan(st.tagCodedElement_var.Tag_var, tag)
                     THEN Committed(st, tag, opnum) ELSE st.tagCodedElement_var
  <2>1. ws \in SUBSET WritesInProgress
    BY EntriesType
  <2>2. tv \in TagValue
    BY <1>1, CommittedType DEF SingleObjServerState
  <2>3. commitTag(st, tag, opnum) =
          [st EXCEPT !.writesInProgress = ws, !.tagCodedElement_var = tv]
    BY <1>1 DEF commitTag
  <2> HIDE DEF ws, tv
  <2>4. /\ commitTag(st, tag, opnum) \in SingleObjServerState
        /\ commitTag(st, tag, opnum).readsInProgress = st.readsInProgress
        /\ commitTag(st, tag, opnum).tagCodedElement_var = tv
        /\ commitTag(st, tag, opnum).writesInProgress = ws
    BY <2>1, <2>2, <2>3 DEF SingleObjServerState
  <2> QED
    BY <1>1, <2>4 DEF ws, tv
<1>2. CASE ~ isWriteInProgress(st, tag, opnum) /\ opnum > latestOpnumWriters
  <2>1. commitTag(st, tag, opnum) = SetEntry(st, tag, opnum, TagOnly(tag, opnum), TRUE)
    BY <1>2 DEF commitTag
  <2> DEFINE tv == TagOnly(tag, opnum)
             b == TRUE
  <2>2. tv \in TagValue /\ b \in BOOLEAN
    BY DataTypes
  <2> HIDE DEF tv, b
  <2>3. /\ SetEntry(st, tag, opnum, tv, b) \in SingleObjServerState
        /\ SetEntry(st, tag, opnum, tv, b).tagCodedElement_var = st.tagCodedElement_var
        /\ SetEntry(st, tag, opnum, tv, b).readsInProgress = st.readsInProgress
        /\ SetEntry(st, tag, opnum, tv, b).writesInProgress =
             Forget(st, tag, opnum) \cup {[Client_id |-> tag.Client_id, opnum |-> opnum,
                                           tagValue |-> tv, isFinalized |-> b]}
    BY <2>2, SetEntryType
  <2> QED
    BY <1>2, <2>1, <2>3 DEF tv, b
<1>3. CASE ~ isWriteInProgress(st, tag, opnum) /\ ~ (opnum > latestOpnumWriters)
  BY <1>3 DEF commitTag
<1> QED
  BY <1>1, <1>2, <1>3

LEMMA BecomesType ==
  ASSUME TypeOK, NEW s \in Servers, NEW st \in SingleObjServerState, Becomes(s, st)
  PROVE  /\ server_state_variables' \in [Servers -> SingleObjServerState]
         /\ server_state_variables'[s] = st
         /\ \A q \in Servers : q # s => server_state_variables'[q] = server_state_variables[q]
BY DEF Becomes, TypeOK

-----------------------------------------------------------------------------
(* What a server sends *)

RepliesType == [Clients -> [Servers -> Seq(Message)]]

\* The relays to each reader of what a server in state st commits under tag.
Relays(st, tag, opnum) ==
  [d \in Clients |-> {a \in Message :
     /\ d \in Readers /\ a \in Current(d) /\ Running(d) /\ Phase[d] = PRAKIS_RELAY_DATA
     /\ isWriteInProgress(st, tag, opnum)
     /\ a.TagValue_var = Committed(st, tag, opnum)
     /\ \E x \in st.readsInProgress :
          x.reader_name = d /\ x.opnum = Opnum[d] /\ IsServed(x, tag)}]

\* What a channel is after a message of A, if any, was sent.
SendsOneOf(p, q, A) == p = q \/ \E a \in A : p = Append(q, a)

LEMMA RelayedEffect ==
  ASSUME TypeOK, NEW s \in Servers, NEW st \in SingleObjServerState, NEW tag \in AnyTag,
         NEW opnum, NEW rep, rep = Relayed(s, st, tag, opnum)
  PROVE  /\ rep \in RepliesType
         /\ \A d \in Clients, t \in Servers : t # s => rep[d][t] = replies[d][t]
         /\ \A d \in Clients :
              SendsOneOf(rep[d][s], replies[d][s], Relays(st, tag, opnum)[d])
<1> DEFINE relay(r) == [Opnum |-> Opnum[r], Phase |-> PRAKIS_RELAY_DATA,
                        TagValue_var |-> Committed(st, tag, opnum)]
           Sent(c) ==
             /\ c \in Readers /\ isWriteInProgress(st, tag, opnum)
             /\ \E x \in st.readsInProgress :
                  /\ x.reader_name = c /\ x.opnum = Opnum[c]
                  /\ x.zmq_identity = incarnation[c] /\ IsServed(x, tag)
             /\ isMessageUseful(c, relay(c))
<1>1. rep = [c \in Clients |-> IF Sent(c)
               THEN [replies[c] EXCEPT ![s] = Append(replies[c][s], relay(c))]
               ELSE replies[c]]
  BY DEF Relayed
<1>2. ASSUME NEW d \in Clients
      PROVE  /\ rep[d] \in [Servers -> Seq(Message)]
             /\ \A t \in Servers : t # s => rep[d][t] = replies[d][t]
             /\ SendsOneOf(rep[d][s], replies[d][s], Relays(st, tag, opnum)[d])
  <2>1. replies[d] \in [Servers -> Seq(Message)] /\ replies[d][s] \in Seq(Message)
    BY DEF TypeOK
  <2>2. CASE Sent(d)
    <3>1. Committed(st, tag, opnum) \in TagValue
      BY <2>2, CommittedType
    <3>2. relay(d) \in Message
      BY <3>1, DataTypes DEF Message, TypeOK
    <3>3. relay(d) \in Relays(st, tag, opnum)[d]
      BY <2>2, <3>2 DEF Relays, isMessageUseful, Current
    <3>4. rep[d] = [replies[d] EXCEPT ![s] = Append(replies[d][s], relay(d))]
      BY <1>1, <2>2
    <3> HIDE DEF relay, Sent
    <3>5. Append(replies[d][s], relay(d)) \in Seq(Message)
      BY <2>1, <3>2
    <3>6. /\ rep[d] \in [Servers -> Seq(Message)]
          /\ rep[d][s] = Append(replies[d][s], relay(d))
          /\ \A t \in Servers : t # s => rep[d][t] = replies[d][t]
      BY <2>1, <3>4, <3>5
    <3> QED
      BY <3>3, <3>6 DEF SendsOneOf
  <2>3. CASE ~ Sent(d)
    BY <1>1, <2>1, <2>3 DEF SendsOneOf
  <2> QED
    BY <2>2, <2>3
<1> HIDE DEF Sent, relay
<1>3. rep \in RepliesType
  <2>1. \A d \in Clients : rep[d] \in [Servers -> Seq(Message)]
    BY <1>2
  <2> DEFINE body(c) == IF Sent(c)
               THEN [replies[c] EXCEPT ![s] = Append(replies[c][s], relay(c))]
               ELSE replies[c]
  <2>2. rep = [c \in Clients |-> body(c)]
    BY <1>1
  <2> HIDE DEF body
  <2> QED
    BY <2>1, <2>2 DEF RepliesType
<1> QED
  BY <1>2, <1>3

\* The answer a, to client c, of a server that handles m from its incarnation i.
Answers(c, i, m, a) ==
  [d \in Clients |-> {b \in {a} : /\ d = c /\ i = incarnation[c] /\ Running(c)
                                   /\ m \in Current(c) /\ a \in Current(c)}]

LEMMA AnsweredEffect ==
  ASSUME NEW s \in Servers, NEW c \in Clients, NEW i, NEW rep \in RepliesType,
         NEW m \in Message, NEW a \in Message, a.Opnum = m.Opnum, a.Phase = m.Phase,
         NEW rep2, rep2 = Answered(rep, c, i, s, a)
  PROVE  /\ rep2 \in RepliesType
         /\ \A d \in Clients, t \in Servers : t # s => rep2[d][t] = rep[d][t]
         /\ \A d \in Clients : SendsOneOf(rep2[d][s], rep[d][s], Answers(c, i, m, a)[d])
<1>1. CASE i = incarnation[c] /\ isMessageUseful(c, a)
  <2>1. rep2 = [rep EXCEPT ![c][s] = Append(rep[c][s], a)]
    BY <1>1 DEF Answered
  <2>2. rep[c][s] \in Seq(Message) /\ Append(rep[c][s], a) \in Seq(Message)
    BY DEF RepliesType
  <2>3. /\ rep2 \in RepliesType
        /\ rep2[c][s] = Append(rep[c][s], a)
        /\ \A d \in Clients, t \in Servers : (d # c \/ t # s) => rep2[d][t] = rep[d][t]
    BY <2>1, <2>2 DEF RepliesType
  <2>4. a \in Answers(c, i, m, a)[c]
    BY <1>1 DEF Answers, isMessageUseful, Current
  <2> QED
    BY <2>3, <2>4 DEF SendsOneOf
<1>2. CASE ~ (i = incarnation[c] /\ isMessageUseful(c, a))
  BY <1>2 DEF Answered, SendsOneOf
<1> QED
  BY <1>1, <1>2

\* What server s sends d: perhaps a relay of A, then perhaps an answer of B.
Sends(d, s, A, B) ==
  \E q \in Seq(Message) : SendsOneOf(q, replies[d][s], A) /\ SendsOneOf(replies'[d][s], q, B)

Nothing == [d \in Clients |-> {}]

\* A handler of server s leaves it in state st2 and sends each client a relay of A
\* and an answer of B; the other servers keep their state, and send nothing.
Handled(s, st2, A, B) ==
  /\ st2 \in SingleObjServerState
  /\ server_state_variables' \in [Servers -> SingleObjServerState]
  /\ server_state_variables'[s] = st2
  /\ \A q \in Servers : q # s => server_state_variables'[q] = server_state_variables[q]
  /\ replies' \in RepliesType
  /\ \A d \in Clients, t \in Servers : t # s => replies'[d][t] = replies[d][t]
  /\ \A d \in Clients : Sends(d, s, A[d], B[d])

\* A handler that relays what it commits under tag in state st, and answers a.
LEMMA RelayAndAnswer ==
  ASSUME TypeOK, NEW s \in Servers, NEW st \in SingleObjServerState, NEW tag \in AnyTag,
         NEW opnum, NEW st2 \in SingleObjServerState, Becomes(s, st2),
         NEW c \in Clients, NEW i, NEW m \in Message, NEW a \in Message,
         a.Opnum = m.Opnum, a.Phase = m.Phase,
         replies' = Answered(Relayed(s, st, tag, opnum), c, i, s, a)
  PROVE  Handled(s, st2, Relays(st, tag, opnum), Answers(c, i, m, a))
<1> DEFINE rep == Relayed(s, st, tag, opnum)
           rep2 == Answered(rep, c, i, s, a)
<1>1. /\ rep \in RepliesType
      /\ \A d \in Clients, t \in Servers : t # s => rep[d][t] = replies[d][t]
      /\ \A d \in Clients : SendsOneOf(rep[d][s], replies[d][s], Relays(st, tag, opnum)[d])
  BY RelayedEffect
<1>2. replies' = rep2
  OBVIOUS
<1> HIDE DEF rep
<1>3. /\ rep2 \in RepliesType
      /\ \A d \in Clients, t \in Servers : t # s => rep2[d][t] = rep[d][t]
      /\ \A d \in Clients : SendsOneOf(rep2[d][s], rep[d][s], Answers(c, i, m, a)[d])
  BY <1>1, AnsweredEffect
<1> HIDE DEF rep2
<1>4. ASSUME NEW d \in Clients
      PROVE  Sends(d, s, Relays(st, tag, opnum)[d], Answers(c, i, m, a)[d])
  <2>1. rep[d][s] \in Seq(Message)
    BY <1>1 DEF RepliesType
  <2> QED
    BY <1>1, <1>2, <1>3, <2>1 DEF Sends
<1>5. \A d \in Clients, t \in Servers : t # s => replies'[d][t] = replies[d][t]
  BY <1>1, <1>2, <1>3
<1> QED
  BY <1>2, <1>3, <1>4, <1>5, BecomesType DEF Handled

\* A handler that relays, and does not answer.
LEMMA RelayOnly ==
  ASSUME TypeOK, NEW s \in Servers, NEW st \in SingleObjServerState, NEW tag \in AnyTag,
         NEW opnum, NEW st2 \in SingleObjServerState, Becomes(s, st2),
         replies' = Relayed(s, st, tag, opnum)
  PROVE  Handled(s, st2, Relays(st, tag, opnum), Nothing)
<1>1. /\ replies' \in RepliesType
      /\ \A d \in Clients, t \in Servers : t # s => replies'[d][t] = replies[d][t]
      /\ \A d \in Clients : SendsOneOf(replies'[d][s], replies[d][s], Relays(st, tag, opnum)[d])
  BY RelayedEffect
<1>2. ASSUME NEW d \in Clients PROVE Sends(d, s, Relays(st, tag, opnum)[d], Nothing[d])
  <2>1. replies'[d][s] \in Seq(Message)
    BY <1>1 DEF RepliesType
  <2> QED
    BY <1>1, <2>1 DEF Sends, SendsOneOf
<1> QED
  BY <1>1, <1>2, BecomesType DEF Handled

\* A handler that answers, if at all.
LEMMA AnswerOnly ==
  ASSUME TypeOK, NEW s \in Servers, NEW st2 \in SingleObjServerState,
         server_state_variables' = [server_state_variables EXCEPT ![s] = st2],
         NEW c \in Clients, NEW i, NEW m \in Message, NEW a \in Message,
         a.Opnum = m.Opnum, a.Phase = m.Phase,
         replies' = replies \/ replies' = Answered(replies, c, i, s, a)
  PROVE  /\ Handled(s, st2, Nothing, Answers(c, i, m, a))
         /\ replies' = replies => Handled(s, st2, Nothing, Nothing)
<1>1. replies \in RepliesType
  BY DEF TypeOK, RepliesType
<1>2. /\ replies' \in RepliesType
      /\ \A d \in Clients, t \in Servers : t # s => replies'[d][t] = replies[d][t]
      /\ \A d \in Clients : SendsOneOf(replies'[d][s], replies[d][s], Answers(c, i, m, a)[d])
  <2>1. CASE replies' = replies
    BY <1>1, <2>1 DEF SendsOneOf
  <2>2. CASE replies' = Answered(replies, c, i, s, a)
    <3> DEFINE rep2 == Answered(replies, c, i, s, a)
    <3>1. /\ rep2 \in RepliesType
          /\ \A d \in Clients, t \in Servers : t # s => rep2[d][t] = replies[d][t]
          /\ \A d \in Clients : SendsOneOf(rep2[d][s], replies[d][s], Answers(c, i, m, a)[d])
      BY <1>1, AnsweredEffect
    <3> HIDE DEF rep2
    <3>2. replies' = rep2
      BY <2>2 DEF rep2
    <3> QED
      BY <3>1, <3>2
  <2> QED
    BY <2>1, <2>2
<1>3. ASSUME NEW d \in Clients
      PROVE  /\ Sends(d, s, Nothing[d], Answers(c, i, m, a)[d])
             /\ replies' = replies => Sends(d, s, Nothing[d], Nothing[d])
  <2>1. replies[d][s] \in Seq(Message)
    BY <1>1 DEF RepliesType
  <2> QED
    BY <1>2, <2>1 DEF Sends, SendsOneOf
<1>4. Becomes(s, st2)
  BY DEF Becomes
<1> QED
  BY <1>2, <1>3, <1>4, BecomesType DEF Handled

-----------------------------------------------------------------------------
(* The handlers: m comes from incarnation i of client c. *)

LEMMA MessageType ==
  ASSUME NEW m \in Message
  PROVE  /\ m.Opnum \in Nat /\ m.Phase \in Phases /\ m.TagValue_var \in TagValue
         /\ m.TagValue_var.Tag_var \in AnyTag /\ m.TagValue_var.Opnum \in Nat
         /\ \A tv \in TagValue :
              /\ [m EXCEPT !.TagValue_var = tv] \in Message
              /\ [m EXCEPT !.TagValue_var = tv].Opnum = m.Opnum
              /\ [m EXCEPT !.TagValue_var = tv].Phase = m.Phase
              /\ [m EXCEPT !.TagValue_var = tv].TagValue_var = tv
BY DataTypes DEF Message

\* The tag a server proposes for an element.
nextTag(st, tv) ==
  [Version_num |-> st.tagCodedElement_var.Tag_var.Version_num + 1,
   Client_id |-> tv.Tag_var.Client_id]

LEMMA NextTagType ==
  ASSUME NEW st \in SingleObjServerState, NEW tv \in TagValue
  PROVE  nextTag(st, tv) \in Tag
<1>1. st.tagCodedElement_var.Tag_var \in AnyTag /\ tv.Tag_var \in AnyTag
  BY DEF SingleObjServerState, TagValue
<1> QED
  BY <1>1 DEF nextTag, AnyTag, Tag, LowestTag

LEMMA PutDataHandled ==
  ASSUME TypeOK, NEW s \in Servers, NEW c \in Clients, NEW i, NEW m \in Message,
         NEW st \in SingleObjServerState, putDataResp(s, st, c, i, m)
  PROVE  LET tv == m.TagValue_var
             put == [tv EXCEPT !.Tag_var = nextTag(st, tv)] IN
         /\ m.Phase = PRAKIS_PUT_DATA
         /\ ~ isWriteFinalized(st, tv.Tag_var, tv.Opnum)
         /\ put \in TagValue
         /\ Handled(s, SetEntry(st, tv.Tag_var, tv.Opnum, put, FALSE), Nothing,
                    Answers(c, i, m, [m EXCEPT !.TagValue_var = TagOnly(nextTag(st, tv), 0)]))
<1> DEFINE tv == m.TagValue_var
           put == [tv EXCEPT !.Tag_var = nextTag(st, tv)]
           st2 == SetEntry(st, tv.Tag_var, tv.Opnum, put, FALSE)
           a == [m EXCEPT !.TagValue_var = TagOnly(nextTag(st, tv), 0)]
<1>1. /\ m.Phase = PRAKIS_PUT_DATA /\ ~ isWriteFinalized(st, tv.Tag_var, tv.Opnum)
      /\ server_state_variables' = [server_state_variables EXCEPT ![s] = st2]
      /\ replies' = Answered(replies, c, i, s, a)
  BY DEF putDataResp, Becomes, nextTag
<1>2. nextTag(st, tv) \in AnyTag /\ tv \in TagValue /\ tv.Tag_var \in AnyTag /\ tv.Opnum \in Nat
  BY MessageType, NextTagType, DataTypes
<1>3. put \in TagValue
  BY <1>2 DEF TagValue
<1>4. TagOnly(nextTag(st, tv), 0) \in TagValue
  BY <1>2, DataTypes
<1>5. a \in Message /\ a.Opnum = m.Opnum /\ a.Phase = m.Phase
  BY <1>4, MessageType
<1> HIDE DEF a
<1>6. st2 \in SingleObjServerState
  <2> HIDE DEF tv, put
  <2> QED
    BY <1>2, <1>3, SetEntryType
<1> HIDE DEF st2
<1>7. Handled(s, st2, Nothing, Answers(c, i, m, a))
  BY <1>1, <1>5, <1>6, AnswerOnly
<1> QED
  BY <1>1, <1>3, <1>7 DEF a, st2

LEMMA LatePutHandled ==
  ASSUME TypeOK, NEW s \in Servers, NEW c \in Clients, NEW i, NEW m \in Message,
         NEW st \in SingleObjServerState, putDataRespFinalized(s, st, c, i, m)
  PROVE  LET tv == m.TagValue_var IN
         /\ m.Phase = PRAKIS_PUT_DATA
         /\ isWriteFinalized(st, tv.Tag_var, tv.Opnum)
         /\ \E put \in SingleObjServerState :
              /\ put.readsInProgress = st.readsInProgress
              /\ Handled(s, commitTag(put, tv.Tag_var, tv.Opnum),
                         Relays(put, tv.Tag_var, tv.Opnum), Nothing)
<1> DEFINE tv == m.TagValue_var
           noted == CHOOSE x \in EntriesOf(st, tv.Tag_var, tv.Opnum) : TRUE
           final == [tv EXCEPT !.Tag_var = noted.tagValue.Tag_var]
           no == FALSE
           put == SetEntry(st, tv.Tag_var, tv.Opnum, final, no)
<1>1. /\ m.Phase = PRAKIS_PUT_DATA
      /\ isWriteFinalized(st, tv.Tag_var, tv.Opnum)
      /\ Becomes(s, commitTag(put, tv.Tag_var, tv.Opnum))
      /\ replies' = Relayed(s, put, tv.Tag_var, tv.Opnum)
  BY DEF putDataRespFinalized, TagOfLatePut
<1>2. tv \in TagValue /\ tv.Tag_var \in AnyTag /\ tv.Opnum \in Nat
  BY MessageType
<1>3. noted \in EntriesOf(st, tv.Tag_var, tv.Opnum)
  BY <1>1 DEF isWriteFinalized
<1>4. noted.tagValue \in TagValue
  BY <1>3, EntriesType
<1>5. final \in TagValue
  <2> HIDE DEF noted, tv
  <2> QED
    BY <1>2, <1>4 DEF TagValue
<1>6. put \in SingleObjServerState /\ put.readsInProgress = st.readsInProgress
  <2>1. no \in BOOLEAN
    OBVIOUS
  <2> HIDE DEF final, tv, no
  <2> QED
    BY <1>2, <1>5, <2>1, SetEntryType
<1> HIDE DEF put, tv
<1>7. commitTag(put, tv.Tag_var, tv.Opnum) \in SingleObjServerState
  BY <1>2, <1>6, CommitTagType
<1>8. Handled(s, commitTag(put, tv.Tag_var, tv.Opnum),
              Relays(put, tv.Tag_var, tv.Opnum), Nothing)
  BY <1>1, <1>2, <1>6, <1>7, RelayOnly
<1> QED
  BY <1>1, <1>6, <1>8 DEF tv

LEMMA PutTagHandled ==
  ASSUME TypeOK, NEW s \in Servers, NEW c \in Clients, NEW i, NEW m \in Message,
         NEW st \in SingleObjServerState, putTagResp(s, st, c, i, m)
  PROVE  LET tv == m.TagValue_var IN
         /\ m.Phase = PRAKIS_PUT_TAG
         /\ Handled(s, commitTag(st, tv.Tag_var, tv.Opnum),
                    Relays(st, tv.Tag_var, tv.Opnum),
                    Answers(c, i, m, [m EXCEPT !.TagValue_var = TagOnly(ZeroTag, 0)]))
<1> DEFINE tv == m.TagValue_var
           a == [m EXCEPT !.TagValue_var = TagOnly(ZeroTag, 0)]
<1>1. /\ m.Phase = PRAKIS_PUT_TAG
      /\ Becomes(s, commitTag(st, tv.Tag_var, tv.Opnum))
      /\ replies' = Answered(Relayed(s, st, tv.Tag_var, tv.Opnum), c, i, s, a)
  BY DEF putTagResp
<1>2. tv.Tag_var \in AnyTag /\ tv.Opnum \in Nat
  BY MessageType
<1>3. a \in Message /\ a.Opnum = m.Opnum /\ a.Phase = m.Phase
  BY MessageType, DataTypes
<1>4. commitTag(st, tv.Tag_var, tv.Opnum) \in SingleObjServerState
  BY <1>2, CommitTagType
<1> HIDE DEF a, tv
<1>5. Handled(s, commitTag(st, tv.Tag_var, tv.Opnum), Relays(st, tv.Tag_var, tv.Opnum),
              Answers(c, i, m, a))
  BY <1>1, <1>2, <1>3, <1>4, RelayAndAnswer
<1> QED
  BY <1>1, <1>5 DEF a, tv

LEMMA GetTagDataHandled ==
  ASSUME TypeOK, NEW s \in Servers, NEW c \in Clients, NEW i, NEW m \in Message,
         NEW st, st = server_state_variables[s], getTagDataResp(s, st, c, i, m)
  PROVE  /\ m.Phase = PRAKIS_GET_TAG_DATA
         /\ Handled(s, st, Nothing,
                    Answers(c, i, m, [m EXCEPT !.TagValue_var = st.tagCodedElement_var]))
<1> DEFINE a == [m EXCEPT !.TagValue_var = st.tagCodedElement_var]
<1>1. /\ m.Phase = PRAKIS_GET_TAG_DATA
      /\ replies' = Answered(replies, c, i, s, a)
      /\ UNCHANGED server_state_variables
  BY DEF getTagDataResp
<1>2. st \in SingleObjServerState
      /\ server_state_variables' = [server_state_variables EXCEPT ![s] = st]
  BY <1>1 DEF TypeOK
<1>3. st.tagCodedElement_var \in TagValue
  BY <1>2 DEF SingleObjServerState
<1>4. a \in Message /\ a.Opnum = m.Opnum /\ a.Phase = m.Phase
  BY <1>3, MessageType
<1> HIDE DEF a
<1>5. Handled(s, st, Nothing, Answers(c, i, m, a))
  BY <1>1, <1>2, <1>4, AnswerOnly
<1> QED
  BY <1>1, <1>5 DEF a

LEMMA CommitHandled ==
  ASSUME TypeOK, NEW s \in Servers, NEW m \in Message,
         NEW st \in SingleObjServerState, commitForReader(s, st, m)
  PROVE  LET tv == m.TagValue_var IN
         /\ m.Phase = PRAKIS_RELAY_DATA /\ tv.ToCommit
         /\ Handled(s, commitTag(st, tv.Tag_var, tv.Opnum),
                    Relays(st, tv.Tag_var, tv.Opnum), Nothing)
<1> DEFINE tv == m.TagValue_var
<1>1. /\ m.Phase = PRAKIS_RELAY_DATA /\ tv.ToCommit
      /\ Becomes(s, commitTag(st, tv.Tag_var, tv.Opnum))
      /\ replies' = Relayed(s, st, tv.Tag_var, tv.Opnum)
  BY DEF commitForReader
<1>2. tv.Tag_var \in AnyTag /\ tv.Opnum \in Nat
  BY MessageType
<1>3. commitTag(st, tv.Tag_var, tv.Opnum) \in SingleObjServerState
  BY <1>2, CommitTagType
<1> QED
  BY <1>1, <1>2, <1>3, RelayOnly

\* The state of a server once operation opnum of reader r is registered.
NewRead(r, i, m) == [reader_name |-> r, opnum |-> m.Opnum,
                     tag_request |-> m.TagValue_var.Tag_var, zmq_identity |-> i]
OtherReads(st, r, o) == {x \in st.readsInProgress : ~ (x.reader_name = r /\ x.opnum = o)}
registered(st, r, i, m) ==
  [st EXCEPT !.readsInProgress = OtherReads(st, r, m.Opnum) \cup {NewRead(r, i, m)}]

LEMMA RegisteredType ==
  ASSUME NEW st \in SingleObjServerState, NEW r \in Clients, NEW i \in Incarnations,
         NEW m \in Message
  PROVE  /\ registered(st, r, i, m) \in SingleObjServerState
         /\ registered(st, r, i, m).readsInProgress =
              OtherReads(st, r, m.Opnum) \cup {NewRead(r, i, m)}
         /\ registered(st, r, i, m).writesInProgress = st.writesInProgress
         /\ registered(st, r, i, m).tagCodedElement_var = st.tagCodedElement_var
         /\ \A tag, opnum :
              /\ EntriesOf(registered(st, r, i, m), tag, opnum) = EntriesOf(st, tag, opnum)
              /\ isWriteInProgress(registered(st, r, i, m), tag, opnum)
                   <=> isWriteInProgress(st, tag, opnum)
              /\ Committed(registered(st, r, i, m), tag, opnum) = Committed(st, tag, opnum)
<1> DEFINE x == NewRead(r, i, m)
           rs == OtherReads(st, r, m.Opnum) \cup {x}
           st2 == registered(st, r, i, m)
<1>1. x \in ReadsInProgress
  BY MessageType DEF NewRead, ReadsInProgress
<1>2. rs \in SUBSET ReadsInProgress
  BY <1>1 DEF OtherReads, SingleObjServerState
<1>3. st2 = [st EXCEPT !.readsInProgress = rs]
  BY DEF registered
<1> HIDE DEF x, rs, st2
<1>4. /\ st2 \in SingleObjServerState /\ st2.readsInProgress = rs
      /\ st2.writesInProgress = st.writesInProgress
      /\ st2.tagCodedElement_var = st.tagCodedElement_var
  BY <1>2, <1>3 DEF SingleObjServerState
<1>5. \A tag, opnum : EntriesOf(st2, tag, opnum) = EntriesOf(st, tag, opnum)
  BY <1>4 DEF EntriesOf
<1>6. \A tag, opnum : /\ isWriteInProgress(st2, tag, opnum) <=> isWriteInProgress(st, tag, opnum)
                      /\ Committed(st2, tag, opnum) = Committed(st, tag, opnum)
  BY <1>5 DEF isWriteInProgress, Committed
<1> QED
  BY <1>4, <1>5, <1>6 DEF x, rs, st2

LEMMA RegisterHandled ==
  ASSUME TypeOK, NEW s \in Servers, NEW r \in Clients, NEW i \in Incarnations,
         NEW m \in Message, NEW st \in SingleObjServerState, registerRead(s, st, r, i, m)
  PROVE  LET tv == m.TagValue_var
             new == registered(st, r, i, m)
             A == Relays(new, tv.Tag_var, tv.Opnum)
             st2 == commitTag(new, tv.Tag_var, tv.Opnum) IN
         /\ m.Phase = PRAKIS_RELAY_DATA /\ ~ tv.ToCommit
         /\ \/ Handled(s, st2, A, Nothing)
            \/ /\ AnswersNow(st, tv.Tag_var)
               /\ Handled(s, st2, A, Answers(r, i, m,
                            [m EXCEPT !.TagValue_var = st.tagCodedElement_var]))
<1> DEFINE tv == m.TagValue_var
           new == registered(st, r, i, m)
           st2 == commitTag(new, tv.Tag_var, tv.Opnum)
           a == [m EXCEPT !.TagValue_var = st.tagCodedElement_var]
           rel == Relayed(s, new, tv.Tag_var, tv.Opnum)
<1>1. /\ m.Phase = PRAKIS_RELAY_DATA /\ ~ tv.ToCommit
      /\ Becomes(s, st2)
      /\ replies' = IF AnswersNow(st, tv.Tag_var) THEN Answered(rel, r, i, s, a) ELSE rel
  BY DEF registerRead, registered, OtherReads, NewRead
<1>2. tv.Tag_var \in AnyTag /\ tv.Opnum \in Nat /\ st.tagCodedElement_var \in TagValue
  BY MessageType DEF SingleObjServerState
<1>3. new \in SingleObjServerState
  BY RegisteredType
<1>4. a \in Message /\ a.Opnum = m.Opnum /\ a.Phase = m.Phase
  BY <1>2, MessageType
<1> HIDE DEF tv, new, a
<1>5. st2 \in SingleObjServerState
  BY <1>2, <1>3, CommitTagType
<1> HIDE DEF st2
<1>6. CASE AnswersNow(st, tv.Tag_var)
  <2>1. Handled(s, st2, Relays(new, tv.Tag_var, tv.Opnum), Answers(r, i, m, a))
    BY <1>1, <1>2, <1>3, <1>4, <1>5, <1>6, RelayAndAnswer
  <2> QED
    BY <1>1, <1>6, <2>1 DEF tv, new, a, st2
<1>7. CASE ~ AnswersNow(st, tv.Tag_var)
  <2>1. Handled(s, st2, Relays(new, tv.Tag_var, tv.Opnum), Nothing)
    BY <1>1, <1>2, <1>3, <1>5, <1>7, RelayOnly
  <2> QED
    BY <1>1, <2>1 DEF tv, new, a, st2
<1> QED
  BY <1>6, <1>7

LEMMA ReadCompleteHandled ==
  ASSUME TypeOK, NEW s \in Servers, NEW r \in Clients, NEW m \in Message,
         NEW st \in SingleObjServerState, readCompleteResp(s, st, r, m)
  PROVE  LET st2 == [st EXCEPT !.readsInProgress = OtherReads(st, r, m.Opnum)] IN
         /\ m.Phase = PRAKIS_READ_COMPLETE /\ replies' = replies
         /\ st2.readsInProgress = OtherReads(st, r, m.Opnum)
         /\ st2.writesInProgress = st.writesInProgress
         /\ st2.tagCodedElement_var = st.tagCodedElement_var
         /\ Handled(s, st2, Nothing, Nothing)
<1> DEFINE rs == OtherReads(st, r, m.Opnum)
           st2 == [st EXCEPT !.readsInProgress = rs]
<1>1. /\ m.Phase = PRAKIS_READ_COMPLETE /\ replies' = replies
      /\ server_state_variables' = [server_state_variables EXCEPT ![s] = st2]
  BY DEF readCompleteResp, Becomes, OtherReads
<1>2. rs \in SUBSET ReadsInProgress
  BY DEF OtherReads, SingleObjServerState
<1> HIDE DEF rs
<1>3. /\ st2 \in SingleObjServerState /\ st2.readsInProgress = rs
      /\ st2.writesInProgress = st.writesInProgress
      /\ st2.tagCodedElement_var = st.tagCodedElement_var
  BY <1>2 DEF SingleObjServerState
<1>4. Handled(s, st2, Nothing, Nothing)
  BY <1>1, <1>3, AnswerOnly
<1> QED
  BY <1>1, <1>3, <1>4 DEF rs

\* The message and the state of a server step.
LEMMA StepMessage ==
  ASSUME TypeOK, NEW s \in Servers, NEW c \in Clients, NEW i \in Incarnations,
         ServerStep(s, c, i)
  PROVE  LET m == Head(requests[c][i][s])
             st == server_state_variables[s] IN
         /\ m \in Message /\ m \in Messages(requests[c][i][s])
         /\ st \in SingleObjServerState
         /\ \/ putDataResp(s, st, c, i, m)
            \/ putDataRespFinalized(s, st, c, i, m)
            \/ putTagResp(s, st, c, i, m)
            \/ getTagDataResp(s, st, c, i, m)
            \/ commitForReader(s, st, m)
            \/ registerRead(s, st, c, i, m)
            \/ readCompleteResp(s, st, c, m)
<1>1. requests[c][i][s] \in Seq(Message) /\ requests[c][i][s] # <<>>
  BY TakeEffect
<1> QED
  BY <1>1, ReceiveMessages DEF ServerStep, TypeOK

\* Messages that d can use: relays, and answers to m of incarnation i of c.
RelayTo(d) == {a \in Message : a \in Current(d) /\ Phase[d] = PRAKIS_RELAY_DATA}
AnswerTo(d, c, i, m) ==
  {a \in Message : a \in Current(d) /\ d = c /\ i = incarnation[c] /\ m \in Current(c)}

LEMMA RelaysAreUseful ==
  ASSUME NEW d \in Clients, NEW st, NEW tag, NEW opnum
  PROVE  Relays(st, tag, opnum)[d] \subseteq RelayTo(d) /\ Nothing[d] = {}
BY DEF Relays, RelayTo, Nothing

LEMMA AnswersAreUseful ==
  ASSUME NEW d \in Clients, NEW c, NEW i, NEW m, NEW a \in Message
  PROVE  /\ Answers(c, i, m, a)[d] \subseteq AnswerTo(d, c, i, m)
         /\ Answers(c, i, m, a)[d] \subseteq {a}
BY DEF Answers, AnswerTo

StepHandledBy(s, c, i, st2, A, B) ==
  /\ Handled(s, st2, A, B)
  /\ \A d \in Clients : /\ A[d] \subseteq RelayTo(d)
                        /\ B[d] \subseteq AnswerTo(d, c, i, Head(requests[c][i][s]))

LEMMA StepHandled ==
  ASSUME TypeOK, NEW s \in Servers, NEW c \in Clients, NEW i \in Incarnations,
         ServerStep(s, c, i)
  PROVE  \E st2, A, B : StepHandledBy(s, c, i, st2, A, B)
<1> DEFINE m == Head(requests[c][i][s])
           st == server_state_variables[s]
           tv == m.TagValue_var
<1>1. /\ m \in Message /\ m \in Messages(requests[c][i][s])
      /\ st \in SingleObjServerState
      /\ \/ putDataResp(s, st, c, i, m)
         \/ putDataRespFinalized(s, st, c, i, m)
         \/ putTagResp(s, st, c, i, m)
         \/ getTagDataResp(s, st, c, i, m)
         \/ commitForReader(s, st, m)
         \/ registerRead(s, st, c, i, m)
         \/ readCompleteResp(s, st, c, m)
  BY StepMessage
<1> HIDE DEF m, st
<1>2. \A t2 \in TagValue : [m EXCEPT !.TagValue_var = t2] \in Message
  BY <1>1, MessageType
<1>3. \A d \in Clients : Nothing[d] \subseteq RelayTo(d) /\ Nothing[d] \subseteq AnswerTo(d, c, i, m)
  BY DEF Nothing
<1>4. ASSUME NEW st2, NEW A, NEW B, Handled(s, st2, A, B),
             A = Nothing \/ \E st3, tag, opnum : A = Relays(st3, tag, opnum),
             B = Nothing \/ \E a \in Message : B = Answers(c, i, m, a)
      PROVE  StepHandledBy(s, c, i, st2, A, B)
  <2>1. ASSUME NEW d \in Clients PROVE A[d] \subseteq RelayTo(d)
    BY <1>3, <1>4, RelaysAreUseful
  <2>2. ASSUME NEW d \in Clients PROVE B[d] \subseteq AnswerTo(d, c, i, m)
    BY <1>3, <1>4, AnswersAreUseful
  <2> QED
    BY <1>4, <2>1, <2>2 DEF StepHandledBy, m
<1>5. /\ st.tagCodedElement_var \in TagValue /\ tv \in TagValue
      /\ TagOnly(nextTag(st, tv), 0) \in TagValue /\ TagOnly(ZeroTag, 0) \in TagValue
  <2>1. tv \in TagValue
    BY <1>1, MessageType
  <2> HIDE DEF tv
  <2> QED
    BY <1>1, <2>1, NextTagType, DataTypes DEF SingleObjServerState
<1>6. CASE putDataResp(s, st, c, i, m)
  <2> DEFINE a == [m EXCEPT !.TagValue_var = TagOnly(nextTag(st, tv), 0)]
             st2 == SetEntry(st, tv.Tag_var, tv.Opnum, [tv EXCEPT !.Tag_var = nextTag(st, tv)],
                             FALSE)
  <2>1. Handled(s, st2, Nothing, Answers(c, i, m, a))
    BY <1>1, <1>6, PutDataHandled
  <2>2. a \in Message
    BY <1>2, <1>5
  <2> HIDE DEF st2, a
  <2> QED
    BY <1>4, <2>1, <2>2
<1>7. CASE putDataRespFinalized(s, st, c, i, m)
  <2>1. PICK put \in SingleObjServerState :
          Handled(s, commitTag(put, tv.Tag_var, tv.Opnum),
                  Relays(put, tv.Tag_var, tv.Opnum), Nothing)
    BY <1>1, <1>7, LatePutHandled
  <2> QED
    BY <1>4, <2>1
<1>8. CASE putTagResp(s, st, c, i, m)
  <2> DEFINE a == [m EXCEPT !.TagValue_var = TagOnly(ZeroTag, 0)]
             st2 == commitTag(st, tv.Tag_var, tv.Opnum)
             A == Relays(st, tv.Tag_var, tv.Opnum)
  <2>1. Handled(s, st2, A, Answers(c, i, m, a))
    BY <1>1, <1>8, PutTagHandled
  <2>2. a \in Message
    BY <1>2, <1>5
  <2>3. \E st3, tag, opnum : A = Relays(st3, tag, opnum)
    OBVIOUS
  <2> HIDE DEF st2, a, A
  <2> QED
    BY <1>4, <2>1, <2>2, <2>3
<1>9. CASE getTagDataResp(s, st, c, i, m)
  <2> DEFINE a == [m EXCEPT !.TagValue_var = st.tagCodedElement_var]
  <2>1. Handled(s, st, Nothing, Answers(c, i, m, a))
    BY <1>1, <1>9, GetTagDataHandled DEF st
  <2>2. a \in Message
    BY <1>2, <1>5
  <2> HIDE DEF a
  <2> QED
    BY <1>4, <2>1, <2>2
<1>10. CASE commitForReader(s, st, m)
  <2> DEFINE st2 == commitTag(st, tv.Tag_var, tv.Opnum)
             A == Relays(st, tv.Tag_var, tv.Opnum)
  <2>1. Handled(s, st2, A, Nothing)
    BY <1>1, <1>10, CommitHandled
  <2>2. \E st3, tag, opnum : A = Relays(st3, tag, opnum)
    OBVIOUS
  <2> HIDE DEF st2, A
  <2> QED
    BY <1>4, <2>1, <2>2
<1>11. CASE registerRead(s, st, c, i, m)
  <2> DEFINE new == registered(st, c, i, m)
             a == [m EXCEPT !.TagValue_var = st.tagCodedElement_var]
             A == Relays(new, tv.Tag_var, tv.Opnum)
             st2 == commitTag(new, tv.Tag_var, tv.Opnum)
  <2>1. Handled(s, st2, A, Nothing) \/ Handled(s, st2, A, Answers(c, i, m, a))
    BY <1>1, <1>11, RegisterHandled
  <2>2. a \in Message
    BY <1>2, <1>5
  <2>3. \E st3, tag, opnum : A = Relays(st3, tag, opnum)
    OBVIOUS
  <2> HIDE DEF new, st2, a, A
  <2> QED
    BY <1>4, <2>1, <2>2, <2>3
<1>12. CASE readCompleteResp(s, st, c, m)
  <2> DEFINE st2 == [st EXCEPT !.readsInProgress = OtherReads(st, c, m.Opnum)]
  <2>1. Handled(s, st2, Nothing, Nothing)
    BY <1>1, <1>12, ReadCompleteHandled
  <2> HIDE DEF st2
  <2> QED
    BY <1>4, <2>1
<1> QED
  BY <1>1, <1>6, <1>7, <1>8, <1>9, <1>10, <1>11, <1>12

LEMMA ServerStepType ==
  ASSUME TypeOK, NEW s \in Servers, NEW c \in Clients, NEW i \in Incarnations,
         ServerStep(s, c, i)
  PROVE  TypeOK'
<1>1. PICK st2, A, B : StepHandledBy(s, c, i, st2, A, B)
  BY StepHandled
<1>2. /\ server_state_variables' \in [Servers -> SingleObjServerState]
      /\ replies' \in [Clients -> [Servers -> Seq(Message)]]
  BY <1>1 DEF StepHandledBy, Handled, RepliesType
<1>3. requests' \in [Clients -> [Incarnations -> [Servers -> Seq(Message)]]]
  BY TakeEffect
<1>4. UNCHANGED <<stopped, busy, Opnum, incarnation, phaseVars, drops, historyVars>>
  BY DEF ServerStep, processVars
<1> QED
  BY <1>2, <1>3, <1>4 DEF TypeOK, phaseVars, historyVars

LEMMA TypeStep == TypeOK /\ [Next]_vars => TypeOK'
<1> SUFFICES ASSUME TypeOK, [Next]_vars PROVE TypeOK'
  OBVIOUS
<1>1. CASE UNCHANGED vars
  BY <1>1 DEF TypeOK, vars, processVars, phaseVars, netVars, historyVars
<1>2. ASSUME NEW c \in Clients, ClientStep(c) PROVE TypeOK'
  <2>1. CASE StartRead(c)
    <3>1. /\ ToAll(TagOnly(ZeroTag, 0)) \in [Servers -> TagValue]
          /\ StartOperation(c, PRAKIS_GET_TAG_DATA, ToAll(TagOnly(ZeroTag, 0)))
      BY <2>1, StartType
    <3> QED
      BY <3>1, StartOperationType, DataTypes
  <2>2. CASE StartWrite(c)
    <3>1. /\ [s \in Servers |-> PutElement(c, s)] \in [Servers -> TagValue]
          /\ StartOperation(c, PRAKIS_PUT_DATA, [s \in Servers |-> PutElement(c, s)])
      BY <2>2, StartType
    <3> QED
      BY <3>1, StartOperationType, DataTypes
  <2>3. CASE \E s \in Servers : CollectReply(c, s) \/ CollectRelay(c, s)
    BY <2>3, CollectReplyType, CollectRelayType
  <2>4. CASE WriterPutsTag(c) \/ PutTagCompletes(c)
    BY <2>4, WriterPutsTagType, PutTagCompletesType
  <2>5. CASE ReaderAsksForRelays(c) \/ ReadInOnePhase(c)
    BY <2>5, ReaderAsksForRelaysType, ReadInOnePhaseType
  <2>6. CASE emulateNewClient(c)
    BY <2>6, EmulateNewClientType
  <2> QED
    BY <1>2, <2>1, <2>2, <2>3, <2>4, <2>5, <2>6 DEF ClientStep
<1>3. ASSUME NEW s \in Servers, NEW c \in Clients, NEW i \in Incarnations,
             ServerStep(s, c, i)
      PROVE  TypeOK'
  BY <1>3, ServerStepType
<1>4. ASSUME NEW s \in Servers, KillServer(s) PROVE TypeOK'
  BY <1>4, KillServerType
<1> QED
  BY <1>1, <1>2, <1>3, <1>4 DEF Next, AllDone

\* The variables of Prakis keep their types (list_based_algos.go, client.go, server.go).
THEOREM TypeCorrect == Spec => []TypeOK
<1> QED
  BY TypeInit, TypeStep, PTL DEF Spec

-----------------------------------------------------------------------------
(* Channels *)

\* Client d does not step.
SameClient(d) ==
  /\ d \in busy' <=> d \in busy
  /\ Opnum'[d] = Opnum[d] /\ Phase'[d] = Phase[d] /\ incarnation'[d] = incarnation[d]
  /\ num_responses'[d] = num_responses[d] /\ responders'[d] = responders[d]
  /\ TagValue_var'[d] = TagValue_var[d] /\ IsOnePhase'[d] = IsOnePhase[d]
  /\ rx_state'[d] = rx_state[d] /\ tagsRequested'[d] = tagsRequested[d]
  /\ floor'[d] = floor[d]

\* Nothing is added to a request channel.
Shrinks(p, q) == Messages(p) \subseteq Messages(q) /\ \A S : AtMostOne(q, S) => AtMostOne(p, S)

RequestsShrink(d) ==
  \A i \in Incarnations, s \in Servers : Shrinks(requests'[d][i][s], requests[d][i][s])

LEMMA SameShrinks == \A q : Shrinks(q, q)
BY DEF Shrinks

LEMMA SameCurrent ==
  ASSUME NEW d, SameClient(d)
  PROVE  Current(d)' = Current(d)
BY DEF SameClient, Current

LEMMA ChannelInit == Init => ChannelInv
BY DEF Init, ChannelInv, ChannelInvOf, InOrder, OneCurrent, Counted, Counts, Messages

LEMMA EmptyMessages ==
  /\ Messages(<<>>) = {}
  /\ \A S : AtMostOne(<<>>, S)
  /\ \A T : \A q \in Seq(T) : Messages(q) = {} => q = <<>>
BY DEF Messages, AtMostOne

\* The channels of a client that does not step and receives, if anything, current
\* messages while it counts none.
LEMMA InOrderFrame ==
  ASSUME NEW d \in Clients, SameClient(d), InOrder(d), RequestsShrink(d),
         \A s \in Servers : Messages(replies'[d][s]) \subseteq
                              Messages(replies[d][s]) \cup Current(d)
  PROVE  InOrder(d)'
<1>1. Current(d)' = Current(d)
  BY SameCurrent
<1>2. ASSUME NEW m PROVE NotFromTheFuture(d, m)' <=> NotFromTheFuture(d, m)
  BY DEF SameClient, NotFromTheFuture, PhasesOf
<1>3. ASSUME NEW s \in Servers, NEW i \in Incarnations, NEW m \in Messages(requests'[d][i][s])
      PROVE  NotFromTheFuture(d, m)'
  <2>1. m \in Messages(requests[d][i][s])
    BY DEF RequestsShrink, Shrinks
  <2> QED
    BY <1>2, <2>1 DEF InOrder
<1>4. \A s \in Servers : Messages(replies'[d][s]) \subseteq Current(d)'
  BY <1>1 DEF InOrder
<1>5. d \in busy' => Phase'[d] \in PhasesOf(d) \ {PRAKIS_READ_COMPLETE}
  BY DEF InOrder, SameClient
<1> QED
  BY <1>3, <1>4, <1>5 DEF InOrder, PhasesOf

\* A client that does not step, and receives nothing.
LEMMA ChannelFrame ==
  ASSUME NEW d \in Clients, SameClient(d), ChannelInvOf(d),
         RequestsShrink(d), \A s \in Servers : replies'[d][s] = replies[d][s]
  PROVE  ChannelInvOf(d)'
<1>1. Current(d)' = Current(d)
  BY SameCurrent
<1>2. InOrder(d)'
  BY InOrderFrame DEF ChannelInvOf
<1>3. OneCurrent(d)'
  <2> SUFFICES ASSUME Counts(d)', NEW s \in Servers
               PROVE  /\ AtMostOne(replies'[d][s], Current(d)')
                      /\ replies'[d][s] # <<>> => s \notin responders'[d]
                      /\ \A i \in Incarnations :
                           /\ AtMostOne(requests'[d][i][s], Current(d)')
                           /\ Messages(requests'[d][i][s]) \cap Current(d)' # {} =>
                                i = incarnation'[d] /\ s \notin responders'[d]
                                /\ replies'[d][s] = <<>>
    BY DEF OneCurrent
  <2>1. Counts(d) /\ OneCurrent(d)
    BY DEF SameClient, Counts, ChannelInvOf
  <2>2. AtMostOne(replies'[d][s], Current(d)') /\ (replies'[d][s] # <<>> => s \notin responders'[d])
    BY <1>1, <2>1 DEF OneCurrent, SameClient
  <2>3. ASSUME NEW i \in Incarnations
        PROVE  /\ AtMostOne(requests'[d][i][s], Current(d)')
               /\ Messages(requests'[d][i][s]) \cap Current(d)' # {} =>
                    i = incarnation'[d] /\ s \notin responders'[d] /\ replies'[d][s] = <<>>
    <3>1. Shrinks(requests'[d][i][s], requests[d][i][s])
      BY DEF RequestsShrink
    <3>2. /\ AtMostOne(requests[d][i][s], Current(d))
          /\ Messages(requests[d][i][s]) \cap Current(d) # {} =>
               i = incarnation[d] /\ s \notin responders[d] /\ replies[d][s] = <<>>
      BY <2>1 DEF OneCurrent
    <3>3. AtMostOne(requests'[d][i][s], Current(d))
      BY <3>1, <3>2 DEF Shrinks
    <3>4. Messages(requests'[d][i][s]) \subseteq Messages(requests[d][i][s])
      BY <3>1 DEF Shrinks
    <3> QED
      BY <1>1, <3>2, <3>3, <3>4 DEF SameClient
  <2> QED
    BY <2>2, <2>3
<1>4. Counted(d)'
  BY DEF ChannelInvOf, Counted, SameClient, Counts
<1> QED
  BY <1>2, <1>3, <1>4 DEF ChannelInvOf

\* A phase begins: nothing of it is on the way but what is sent now, each server
\* its own message m[s].
EntersPhase(c, m) ==
  /\ c \in busy' /\ Phase'[c] \in PhasesOf(c) /\ Phase'[c] # PRAKIS_READ_COMPLETE
  /\ incarnation'[c] = incarnation[c]
  /\ num_responses'[c] = 0 /\ responders'[c] = {}
  /\ \A s \in Servers : replies'[c][s] = <<>>
  /\ \A i \in Incarnations, s \in Servers :
       /\ \A n \in Messages(requests[c][i][s]) :
            /\ n.Phase \in PhasesOf(c) /\ n.Opnum <= Opnum'[c]
            /\ n.Opnum = Opnum'[c] => n.Phase # Phase'[c] /\ n.Phase \in FirstPhases
       /\ \/ requests'[c][i][s] = requests[c][i][s]
          \/ /\ i = incarnation[c]
             /\ requests'[c][i][s] = Append(requests[c][i][s], m[s])
  /\ \A s \in Servers :
       m[s] \in Message /\ m[s].Opnum = Opnum'[c] /\ m[s].Phase = Phase'[c]

LEMMA ChannelEnter ==
  ASSUME TypeOK, TypeOK', NEW c \in Clients, NEW m, EntersPhase(c, m)
  PROVE  ChannelInvOf(c)'
<1>1. ASSUME NEW i \in Incarnations, NEW s \in Servers
      PROVE  /\ \A n \in Messages(requests'[c][i][s]) : NotFromTheFuture(c, n)'
             /\ AtMostOne(requests'[c][i][s], Current(c)')
             /\ Messages(requests'[c][i][s]) \cap Current(c)' # {} => i = incarnation'[c]
  <2>1. requests[c][i][s] \in Seq(Message) /\ Opnum'[c] \in Nat
    BY DEF TypeOK
  <2>2. \A n \in Messages(requests[c][i][s]) : NotFromTheFuture(c, n)' /\ n \notin Current(c)'
    BY DEF EntersPhase, NotFromTheFuture, Current, PhasesOf
  <2>3. AtMostOne(requests[c][i][s], Current(c)')
    BY <2>2 DEF AtMostOne, Messages
  <2>4. CASE requests'[c][i][s] = requests[c][i][s]
    BY <2>2, <2>3, <2>4
  <2>5. CASE i = incarnation[c] /\ requests'[c][i][s] = Append(requests[c][i][s], m[s])
    <3>1. m[s] \in Message /\ NotFromTheFuture(c, m[s])'
      BY <2>1 DEF EntersPhase, NotFromTheFuture, PhasesOf
    <3>2. Messages(requests'[c][i][s]) = Messages(requests[c][i][s]) \cup {m[s]}
      BY SMTT(30), <2>1, <2>5, <3>1, SendMessages
    <3>3. AtMostOne(requests'[c][i][s], Current(c)')
      BY <2>1, <2>2, <2>3, <2>5, <3>1, SendAtMostOne
    <3> QED
      BY <2>2, <2>5, <3>1, <3>2, <3>3 DEF EntersPhase
  <2> QED
    BY <2>4, <2>5 DEF EntersPhase
<1>2. ASSUME NEW s \in Servers
      PROVE  Messages(replies'[c][s]) = {} /\ AtMostOne(replies'[c][s], Current(c)')
  BY EmptyMessages DEF EntersPhase
<1>3. InOrder(c)'
  BY <1>1, <1>2 DEF InOrder, EntersPhase, PhasesOf
<1>4. OneCurrent(c)'
  BY <1>1, <1>2 DEF OneCurrent, EntersPhase
<1>5. Counted(c)'
  <2>1. num_responses'[c] = 0 /\ Cardinality(responders'[c]) = 0
    BY FS_EmptySet DEF EntersPhase
  <2> QED
    BY <2>1, DataTypes DEF Counted
<1> QED
  BY <1>3, <1>4, <1>5 DEF ChannelInvOf

\* An operation ends, perhaps with a message that says so.
LEMMA ChannelEnd ==
  ASSUME TypeOK, NEW c \in Clients, ChannelInvOf(c), c \notin busy', Opnum'[c] = Opnum[c],
         \A s \in Servers : replies'[c][s] = <<>>,
         NEW m, \A s \in Servers : /\ m[s] \in Message /\ m[s].Opnum = Opnum[c]
                                   /\ m[s].Phase \in PhasesOf(c),
         \A i \in Incarnations, s \in Servers :
           \/ requests'[c][i][s] = requests[c][i][s]
           \/ requests'[c][i][s] = Append(requests[c][i][s], m[s])
  PROVE  ChannelInvOf(c)'
<1>1. ASSUME NEW i \in Incarnations, NEW s \in Servers, NEW n \in Messages(requests'[c][i][s])
      PROVE  NotFromTheFuture(c, n)'
  <2>1. requests[c][i][s] \in Seq(Message) /\ Opnum[c] \in Nat
    BY DEF TypeOK
  <2>2. n \in Messages(requests[c][i][s]) \/ n = m[s]
    <3>1. Messages(Append(requests[c][i][s], m[s])) = Messages(requests[c][i][s]) \cup {m[s]}
      BY <2>1, SendMessages
    <3> QED
      BY <3>1
  <2>3. n \in Messages(requests[c][i][s]) => n.Opnum <= Opnum[c] /\ n.Phase \in PhasesOf(c)
    BY DEF ChannelInvOf, InOrder, NotFromTheFuture
  <2> QED
    BY <2>1, <2>2, <2>3 DEF NotFromTheFuture, PhasesOf
<1>2. \A s \in Servers : Messages(replies'[c][s]) = {}
  BY EmptyMessages
<1> QED
  BY <1>1, <1>2 DEF ChannelInvOf, InOrder, OneCurrent, Counted, Counts

LEMMA EnterPhaseEffect ==
  ASSUME TypeOK, NEW c \in Clients, NEW phase, NEW tv, EnterPhase(c, phase, tv)
  PROVE  /\ Phase'[c] = phase /\ TagValue_var'[c] = tv /\ num_responses'[c] = 0
         /\ IsOnePhase'[c] = TRUE /\ rx_state'[c] = {} /\ responders'[c] = {}
         /\ tagsRequested'[c] = {}
         /\ \A s \in Servers : replies'[c][s] = <<>>
         /\ \A d \in Clients : d # c =>
              /\ Phase'[d] = Phase[d] /\ TagValue_var'[d] = TagValue_var[d]
              /\ num_responses'[d] = num_responses[d] /\ IsOnePhase'[d] = IsOnePhase[d]
              /\ rx_state'[d] = rx_state[d] /\ responders'[d] = responders[d]
              /\ tagsRequested'[d] = tagsRequested[d]
              /\ replies'[d] = replies[d]
BY DEF EnterPhase, TypeOK

LEMMA EnterPhaseOwn ==
  ASSUME TypeOK, NEW c \in Clients, NEW phase, NEW tv, EnterPhase(c, phase, tv)
  PROVE  /\ Phase'[c] = phase /\ TagValue_var'[c] = tv
         /\ \A s \in Servers : replies'[c][s] = <<>>
BY DEF EnterPhase, TypeOK

LEMMA EnterPhaseOthers ==
  ASSUME TypeOK, NEW c \in Clients, NEW phase, NEW tv, EnterPhase(c, phase, tv),
         NEW d \in Clients, d # c
  PROVE  /\ Phase'[d] = Phase[d] /\ TagValue_var'[d] = TagValue_var[d]
         /\ num_responses'[d] = num_responses[d] /\ IsOnePhase'[d] = IsOnePhase[d]
         /\ rx_state'[d] = rx_state[d] /\ responders'[d] = responders[d]
         /\ tagsRequested'[d] = tagsRequested[d] /\ replies'[d] = replies[d]
BY EnterPhaseEffect

\* Client d does not step, and nothing reaches it or is sent by it.
Idle(d) ==
  /\ SameClient(d) /\ replies'[d] = replies[d]
  /\ \A i \in Incarnations, s \in Servers : requests'[d][i][s] = requests[d][i][s]

LEMMA SendToNoOther ==
  ASSUME TypeOK, NEW c \in Clients, NEW opnum \in Nat, NEW phase \in Phases,
         NEW payload \in [Servers -> TagValue], SendToServers(c, opnum, phase, payload),
         NEW d \in Clients, d # c
  PROVE  \A i \in Incarnations, s \in Servers : requests'[d][i][s] = requests[d][i][s]
<1>1. \A e \in Clients, i \in Incarnations, s \in Servers :
         \/ /\ requests'[e][i][s] = requests[e][i][s]
            /\ NothingLost => ~ (e = c /\ i = incarnation[c])
         \/ /\ e = c /\ i = incarnation[c]
            /\ requests'[e][i][s] = Append(requests[e][i][s],
                 [Opnum |-> opnum, Phase |-> phase, TagValue_var |-> payload[s]])
  BY SendEffect
<1> QED
  BY <1>1

LEMMA StartOperationEffect ==
  ASSUME TypeOK, NEW c \in Clients, NEW phase \in Phases,
         NEW payload \in [Servers -> TagValue], StartOperation(c, phase, payload)
  PROVE  /\ c \notin busy /\ Running(c) /\ c \in busy' /\ busy' = busy \cup {c}
         /\ Opnum[c] < MaxOpnum[c]
         /\ Opnum'[c] = Opnum[c] + 1 /\ incarnation' = incarnation
         /\ floor'[c] = completed /\ Phase'[c] = phase
         /\ EnterPhase(c, phase, TagOnly(LowestTag, 0))
         /\ SendToServers(c, Opnum[c] + 1, phase, payload)
         /\ UNCHANGED <<server_state_variables, processVars, completed, log>>
         /\ \A d \in Clients : d # c => Idle(d)
<1>1. Opnum[c] + 1 \in Nat
  BY DEF TypeOK
<1>2. /\ EnterPhase(c, phase, TagOnly(LowestTag, 0))
      /\ SendToServers(c, Opnum[c] + 1, phase, payload)
      /\ busy' = busy \cup {c} /\ incarnation' = incarnation
      /\ Opnum' = [Opnum EXCEPT ![c] = Opnum[c] + 1]
      /\ floor' = [floor EXCEPT ![c] = completed]
  BY DEF StartOperation
<1>3. ASSUME NEW d \in Clients, d # c PROVE Idle(d)
  <2>1. \A i \in Incarnations, s \in Servers : requests'[d][i][s] = requests[d][i][s]
    BY <1>1, <1>2, <1>3, SendToNoOther
  <2>2. /\ Opnum'[d] = Opnum[d] /\ floor'[d] = floor[d]
        /\ incarnation'[d] = incarnation[d] /\ (d \in busy' <=> d \in busy)
    BY <1>2, <1>3 DEF TypeOK
  <2>3. /\ Phase'[d] = Phase[d] /\ TagValue_var'[d] = TagValue_var[d]
        /\ num_responses'[d] = num_responses[d] /\ IsOnePhase'[d] = IsOnePhase[d]
        /\ rx_state'[d] = rx_state[d] /\ responders'[d] = responders[d]
        /\ tagsRequested'[d] = tagsRequested[d] /\ replies'[d] = replies[d]
    BY <1>2, <1>3, EnterPhaseOthers
  <2> QED
    BY <2>1, <2>2, <2>3 DEF Idle, SameClient
<1>4. Phase'[c] = phase
  BY <1>2, EnterPhaseEffect
<1> QED
  BY <1>2, <1>3, <1>4 DEF StartOperation, OperationAsked, TypeOK

LEMMA WriterPutsTagEffect ==
  ASSUME TypeOK, NEW w \in Clients, WriterPutsTag(w)
  PROVE  LET tv == TagOnly(TagValue_var[w].Tag_var, Opnum[w]) IN
         /\ w \in busy /\ HasQuorum(w) /\ Phase[w] = PRAKIS_PUT_DATA
         /\ tv \in TagValue /\ tv.Tag_var = TagValue_var[w].Tag_var /\ tv.Opnum = Opnum[w]
         /\ tv.ToCommit = FALSE
         /\ ToAll(tv) \in [Servers -> TagValue] /\ \A s \in Servers : ToAll(tv)[s] = tv
         /\ EnterPhase(w, PRAKIS_PUT_TAG, tv)
         /\ SendToServers(w, Opnum[w], PRAKIS_PUT_TAG, ToAll(tv))
         /\ UNCHANGED <<server_state_variables, processVars, busy, Opnum, incarnation,
                        historyVars>>
         /\ \A d \in Clients : d # w => Idle(d)
<1> DEFINE tv == TagOnly(TagValue_var[w].Tag_var, Opnum[w])
<1>1. w \in busy /\ Opnum[w] \in Nat /\ PRAKIS_PUT_TAG \in Phases
  BY DataTypes DEF WriterPutsTag, HasQuorum, TypeOK
<1>2. tv \in TagValue /\ tv.Tag_var = TagValue_var[w].Tag_var /\ tv.Opnum = Opnum[w]
      /\ tv.ToCommit = FALSE
  BY DataTypes DEF TypeOK
<1>3. /\ EnterPhase(w, PRAKIS_PUT_TAG, tv)
      /\ SendToServers(w, Opnum[w], PRAKIS_PUT_TAG, ToAll(tv))
      /\ HasQuorum(w) /\ Phase[w] = PRAKIS_PUT_DATA
      /\ UNCHANGED <<server_state_variables, processVars, busy, Opnum, incarnation, historyVars>>
  BY DEF WriterPutsTag
<1> HIDE DEF tv
<1>4. ToAll(tv) \in [Servers -> TagValue] /\ \A s \in Servers : ToAll(tv)[s] = tv
  BY <1>2, ToAllType
<1>5. ASSUME NEW d \in Clients, d # w PROVE Idle(d)
  <2>1. \A i \in Incarnations, s \in Servers : requests'[d][i][s] = requests[d][i][s]
    BY <1>1, <1>3, <1>4, <1>5, SendToNoOther
  <2>2. SameClient(d) /\ replies'[d] = replies[d]
    BY ZenonT(40), <1>3, <1>5, EnterPhaseEffect DEF SameClient, historyVars
  <2> QED
    BY <2>1, <2>2 DEF Idle
<1> QED
  BY <1>1, <1>2, <1>3, <1>4, <1>5 DEF tv

LEMMA ReaderAsksForRelaysEffect ==
  ASSUME TypeOK, NEW r \in Clients, ReaderAsksForRelays(r)
  PROVE  /\ r \in busy /\ HasQuorum(r) /\ Phase[r] = PRAKIS_GET_TAG_DATA
         /\ TagValue_var[r] \in TagValue
         /\ EnterPhase(r, PRAKIS_RELAY_DATA, TagValue_var[r])
         /\ SendToServers(r, Opnum[r], PRAKIS_RELAY_DATA, ToAll(TagValue_var[r]))
         /\ ToAll(TagValue_var[r]) \in [Servers -> TagValue]
         /\ \A s \in Servers : ToAll(TagValue_var[r])[s] = TagValue_var[r]
         /\ UNCHANGED <<server_state_variables, processVars, busy, Opnum, incarnation,
                        historyVars>>
         /\ \A d \in Clients : d # r => Idle(d)
<1>1. TagValue_var[r] \in TagValue /\ Opnum[r] \in Nat /\ PRAKIS_RELAY_DATA \in Phases
      /\ ToAll(TagValue_var[r]) \in [Servers -> TagValue]
      /\ \A s \in Servers : ToAll(TagValue_var[r])[s] = TagValue_var[r]
  BY DataTypes, ToAllType DEF TypeOK
<1>2. /\ EnterPhase(r, PRAKIS_RELAY_DATA, TagValue_var[r])
      /\ SendToServers(r, Opnum[r], PRAKIS_RELAY_DATA, ToAll(TagValue_var[r]))
      /\ HasQuorum(r) /\ Phase[r] = PRAKIS_GET_TAG_DATA /\ r \in busy
      /\ UNCHANGED <<server_state_variables, processVars, busy, Opnum, incarnation, historyVars>>
  BY DEF ReaderAsksForRelays, HasQuorum
<1>3. ASSUME NEW d \in Clients, d # r PROVE Idle(d)
  <2>1. \A i \in Incarnations, s \in Servers : requests'[d][i][s] = requests[d][i][s]
    BY <1>1, <1>2, <1>3, SendToNoOther
  <2>2. SameClient(d) /\ replies'[d] = replies[d]
    BY ZenonT(40), <1>2, <1>3, EnterPhaseEffect DEF SameClient, historyVars
  <2> QED
    BY <2>1, <2>2 DEF Idle
<1> QED
  BY <1>1, <1>2, <1>3

LEMMA EndOperationEffect ==
  ASSUME TypeOK, NEW c \in Clients, NEW phase, NEW tv, EndOperation(c, phase, tv),
         UNCHANGED <<Opnum, incarnation>>,
         \A d \in Clients : d # c =>
           \A i \in Incarnations, s \in Servers : requests'[d][i][s] = requests[d][i][s]
  PROVE  /\ busy' = busy \ {c} /\ completed' = LargerTag(tv.Tag_var, completed)
         /\ log' = log \cup {[client |-> c, floor |-> floor[c],
              TagValue_var |-> [Tag_var |-> tv.Tag_var, Value |-> tv.Value]]}
         /\ EnterPhase(c, phase, TagOnly(LowestTag, 0)) /\ floor' = floor
         /\ \A d \in Clients : d # c => Idle(d)
<1>1. /\ busy' = busy \ {c} /\ completed' = LargerTag(tv.Tag_var, completed)
      /\ log' = log \cup {[client |-> c, floor |-> floor[c],
           TagValue_var |-> [Tag_var |-> tv.Tag_var, Value |-> tv.Value]]}
      /\ EnterPhase(c, phase, TagOnly(LowestTag, 0)) /\ floor' = floor
  BY DEF EndOperation
<1>0. PICK e : e = TagOnly(LowestTag, 0)
  OBVIOUS
<1>3. EnterPhase(c, phase, e)
  BY <1>0, <1>1
<1>2. ASSUME NEW d \in Clients, d # c PROVE Idle(d)
  <2>1. /\ Phase'[d] = Phase[d] /\ TagValue_var'[d] = TagValue_var[d]
        /\ num_responses'[d] = num_responses[d] /\ IsOnePhase'[d] = IsOnePhase[d]
        /\ rx_state'[d] = rx_state[d] /\ responders'[d] = responders[d]
        /\ tagsRequested'[d] = tagsRequested[d] /\ replies'[d] = replies[d]
    BY <1>2, <1>3, EnterPhaseOthers
  <2>2. d \in busy' <=> d \in busy
    BY <1>1, <1>2
  <2> QED
    BY <1>1, <1>2, <2>1, <2>2 DEF Idle, SameClient
<1> QED
  BY <1>1, <1>2

LEMMA PutTagCompletesEffect ==
  ASSUME TypeOK, NEW w \in Clients, PutTagCompletes(w)
  PROVE  /\ w \in busy /\ HasQuorum(w) /\ Phase[w] = PRAKIS_PUT_TAG
         /\ busy' = busy \ {w} /\ completed' = LargerTag(TagValue_var[w].Tag_var, completed)
         /\ log' = log \cup {[client |-> w, floor |-> floor[w],
              TagValue_var |-> [Tag_var |-> TagValue_var[w].Tag_var, Value |-> <<w, Opnum[w]>>]]}
         /\ EnterPhase(w, PRAKIS_PUT_TAG, TagOnly(LowestTag, 0))
         /\ UNCHANGED <<server_state_variables, processVars, Opnum, incarnation, requests,
                        drops, floor>>
         /\ \A d \in Clients : d # w => Idle(d)
<1> DEFINE tv == [TagValue_var[w] EXCEPT !.Value = <<w, Opnum[w]>>]
<1>1. tv.Tag_var = TagValue_var[w].Tag_var /\ tv.Value = <<w, Opnum[w]>>
  BY DEF TypeOK, TagValue
<1>2. /\ EndOperation(w, PRAKIS_PUT_TAG, tv) /\ HasQuorum(w) /\ Phase[w] = PRAKIS_PUT_TAG
      /\ w \in busy
      /\ UNCHANGED <<server_state_variables, processVars, Opnum, incarnation, requests, drops>>
  BY DEF PutTagCompletes, HasQuorum
<1> HIDE DEF tv
<1>3. /\ busy' = busy \ {w} /\ completed' = LargerTag(tv.Tag_var, completed)
      /\ log' = log \cup {[client |-> w, floor |-> floor[w],
           TagValue_var |-> [Tag_var |-> tv.Tag_var, Value |-> tv.Value]]}
      /\ EnterPhase(w, PRAKIS_PUT_TAG, TagOnly(LowestTag, 0)) /\ floor' = floor
      /\ \A d \in Clients : d # w => Idle(d)
  BY <1>2, EndOperationEffect
<1> QED
  BY <1>1, <1>2, <1>3

LEMMA ReadInOnePhaseEffect ==
  ASSUME TypeOK, NEW r \in Clients, ReadInOnePhase(r)
  PROVE  /\ r \in busy /\ HasQuorum(r) /\ Phase[r] = PRAKIS_GET_TAG_DATA /\ IsOnePhase[r]
         /\ UNCHANGED <<server_state_variables, Opnum, incarnation, requests, drops>>
         /\ \/ /\ Cardinality(rx_state[r]) = K
               /\ busy' = busy \ {r}
               /\ completed' = LargerTag(TagValue_var[r].Tag_var, completed)
               /\ log' = log \cup {[client |-> r, floor |-> floor[r],
                    TagValue_var |-> [Tag_var |-> TagValue_var[r].Tag_var,
                                      Value |-> Decoded(rx_state[r])]]}
               /\ EnterPhase(r, PRAKIS_GET_TAG_DATA, TagOnly(LowestTag, 0))
               /\ UNCHANGED <<processVars, floor>>
            \/ /\ Cardinality(rx_state[r]) # K
               /\ panics' = panics \cup {"exactly K coded blocks"}
               /\ stopped' = stopped \cup {r}
               /\ UNCHANGED <<busy, phaseVars, replies, historyVars>>
               /\ Idle(r)
         /\ \A d \in Clients : d # r => Idle(d)
<1>1. /\ HasQuorum(r) /\ Phase[r] = PRAKIS_GET_TAG_DATA /\ IsOnePhase[r] /\ r \in busy
      /\ UNCHANGED <<server_state_variables, Opnum, incarnation, requests, drops>>
  BY DEF ReadInOnePhase, HasQuorum
<1>2. CASE Cardinality(rx_state[r]) = K
  <2> DEFINE tv == [TagValue_var[r] EXCEPT !.Value = Decoded(rx_state[r])]
  <2>1. EndOperation(r, PRAKIS_GET_TAG_DATA, tv) /\ UNCHANGED processVars
    BY <1>2 DEF ReadInOnePhase
  <2>2. tv.Tag_var = TagValue_var[r].Tag_var /\ tv.Value = Decoded(rx_state[r])
    BY DEF TypeOK, TagValue
  <2> HIDE DEF tv
  <2>3. /\ busy' = busy \ {r} /\ completed' = LargerTag(tv.Tag_var, completed)
        /\ log' = log \cup {[client |-> r, floor |-> floor[r],
             TagValue_var |-> [Tag_var |-> tv.Tag_var, Value |-> tv.Value]]}
        /\ EnterPhase(r, PRAKIS_GET_TAG_DATA, TagOnly(LowestTag, 0)) /\ floor' = floor
        /\ \A d \in Clients : d # r => Idle(d)
    BY <1>1, <2>1, EndOperationEffect
  <2> QED
    BY <1>1, <1>2, <2>1, <2>2, <2>3
<1>3. CASE Cardinality(rx_state[r]) # K
  BY <1>1, <1>3 DEF ReadInOnePhase, Idle, SameClient, phaseVars, historyVars
<1> QED
  BY <1>2, <1>3

\* A reader takes a relay, and sends nothing but perhaps a commit of its tag.
KeepsRelay(r, s) ==
  LET tv == Head(replies[r][s]).TagValue_var IN
  /\ rx_state' = [rx_state EXCEPT ![r] = AddElement(rx_state[r], tv)]
  /\ replies' = [replies EXCEPT ![r][s] = Tail(replies[r][s])]
  /\ UNCHANGED <<processVars, busy, Phase, num_responses, TagValue_var,
                 IsOnePhase, responders, historyVars>>
  /\ \/ UNCHANGED <<tagsRequested, requests, drops>>
     \/ /\ tagsRequested' = [tagsRequested EXCEPT ![r] = tagsRequested[r] \cup {tv.Tag_var}]
        /\ SendToServers(r, Opnum[r], PRAKIS_RELAY_DATA, ToAll(CommitRequest(tv)))

LEMMA CollectRelayEffect ==
  ASSUME TypeOK, NEW r \in Clients, NEW s \in Servers, CollectRelay(r, s)
  PROVE  LET tv == Head(replies[r][s]).TagValue_var
             rx == AddElement(rx_state[r], tv) IN
         /\ r \in busy /\ Running(r) /\ Phase[r] = PRAKIS_RELAY_DATA /\ replies[r][s] # <<>>
         /\ tv \in TagValue
         /\ UNCHANGED <<server_state_variables, Opnum, incarnation>>
         /\ \/ /\ IsSmallerThan(tv.Tag_var, TagValue_var[r].Tag_var)
               /\ panics' = panics \cup {"a tag less than requested tag"}
               /\ stopped' = stopped \cup {r}
               /\ replies' = [replies EXCEPT ![r][s] = Tail(replies[r][s])]
               /\ UNCHANGED <<busy, phaseVars, requests, drops, historyVars>>
            \/ /\ ~ IsSmallerThan(tv.Tag_var, TagValue_var[r].Tag_var)
               /\ Cardinality(ElementsOf(rx, tv.Tag_var)) = K
               /\ busy' = busy \ {r}
               /\ completed' = LargerTag(tv.Tag_var, completed)
               /\ log' = log \cup {[client |-> r, floor |-> floor[r],
                    TagValue_var |-> [Tag_var |-> tv.Tag_var,
                                      Value |-> Decoded(ElementsOf(rx, tv.Tag_var))]]}
               /\ EnterPhase(r, PRAKIS_READ_COMPLETE, TagOnly(LowestTag, 0))
               /\ SendToServers(r, Opnum[r], PRAKIS_READ_COMPLETE, ToAll(TagOnly(ZeroTag, 0)))
               /\ UNCHANGED <<processVars, floor>>
            \/ /\ ~ IsSmallerThan(tv.Tag_var, TagValue_var[r].Tag_var)
               /\ KeepsRelay(r, s)
         /\ \A d \in Clients : d # r => Idle(d)
<1> DEFINE tv == Head(replies[r][s]).TagValue_var
           rx == AddElement(rx_state[r], tv)
           rest == [replies EXCEPT ![r][s] = Tail(replies[r][s])]
           elements == ElementsOf(rx, tv.Tag_var)
           out == [TagOnly(tv.Tag_var, 0) EXCEPT !.Value = Decoded(elements)]
           old == IsSmallerThan(tv.Tag_var, TagValue_var[r].Tag_var)
<1>1. out.Tag_var = tv.Tag_var /\ out.Value = Decoded(elements)
  BY DEF TagOnly
<1>2. CollectRelayCases(r, s)
  BY CollectRelaySplits
<1>3. /\ r \in busy /\ Running(r) /\ Phase[r] = PRAKIS_RELAY_DATA /\ replies[r][s] # <<>>
      /\ UNCHANGED <<server_state_variables, Opnum, incarnation>>
      /\ \/ /\ old /\ panics' = panics \cup {"a tag less than requested tag"}
            /\ stopped' = stopped \cup {r} /\ replies' = rest
            /\ UNCHANGED <<busy, phaseVars, requests, drops, historyVars>>
         \/ /\ ~ old /\ Cardinality(elements) = K
            /\ EndOperation(r, PRAKIS_READ_COMPLETE, out)
            /\ SendToServers(r, Opnum[r], PRAKIS_READ_COMPLETE, ToAll(TagOnly(ZeroTag, 0)))
            /\ UNCHANGED processVars
         \/ ~ old /\ KeepsRelay(r, s)
  BY <1>2 DEF CollectRelayCases, KeepsRelay
<1>4. tv \in TagValue
  BY <1>3, ReceiveType
<1> HIDE DEF tv, rx, out, elements, old
<1>5. Opnum[r] \in Nat /\ {PRAKIS_READ_COMPLETE, PRAKIS_RELAY_DATA} \subseteq Phases
      /\ ToAll(TagOnly(ZeroTag, 0)) \in [Servers -> TagValue]
      /\ ToAll(CommitRequest(tv)) \in [Servers -> TagValue]
  BY <1>4, DataTypes, ToAllType, CommitRequestType DEF TypeOK
<1>6. CASE /\ old /\ panics' = panics \cup {"a tag less than requested tag"}
           /\ stopped' = stopped \cup {r} /\ replies' = rest
           /\ UNCHANGED <<busy, phaseVars, requests, drops, historyVars>>
  <2>1. ASSUME NEW d \in Clients, d # r PROVE Idle(d)
    BY <1>3, <1>6, <2>1 DEF Idle, SameClient, phaseVars, historyVars, TypeOK
  <2> QED
    BY <1>3, <1>4, <1>6, <2>1 DEF old, tv
<1>7. CASE /\ ~ old /\ Cardinality(elements) = K
           /\ EndOperation(r, PRAKIS_READ_COMPLETE, out)
           /\ SendToServers(r, Opnum[r], PRAKIS_READ_COMPLETE, ToAll(TagOnly(ZeroTag, 0)))
           /\ UNCHANGED processVars
  <2>1. \A d \in Clients : d # r =>
          \A i \in Incarnations, t \in Servers : requests'[d][i][t] = requests[d][i][t]
    BY <1>5, <1>7, SendToNoOther
  <2>2. /\ busy' = busy \ {r} /\ completed' = LargerTag(out.Tag_var, completed)
        /\ log' = log \cup {[client |-> r, floor |-> floor[r],
             TagValue_var |-> [Tag_var |-> out.Tag_var, Value |-> out.Value]]}
        /\ EnterPhase(r, PRAKIS_READ_COMPLETE, TagOnly(LowestTag, 0)) /\ floor' = floor
        /\ \A d \in Clients : d # r => Idle(d)
    BY <1>3, <1>7, <2>1, EndOperationEffect
  <2> QED
    BY <1>1, <1>3, <1>4, <1>7, <2>2 DEF old, tv, rx, elements
<1>8. CASE ~ old /\ KeepsRelay(r, s)
  <2>1. ASSUME NEW d \in Clients, d # r PROVE Idle(d)
    <3>1. /\ rx_state' = [rx_state EXCEPT ![r] = rx] /\ replies' = rest
          /\ UNCHANGED <<processVars, busy, Phase, num_responses, TagValue_var,
                         IsOnePhase, responders, historyVars>>
          /\ \/ UNCHANGED <<tagsRequested, requests, drops>>
             \/ /\ tagsRequested' = [tagsRequested EXCEPT ![r] =
                                       tagsRequested[r] \cup {tv.Tag_var}]
                /\ SendToServers(r, Opnum[r], PRAKIS_RELAY_DATA, ToAll(CommitRequest(tv)))
      BY <1>8 DEF KeepsRelay, tv, rx
    <3>2. \A i \in Incarnations, t \in Servers : requests'[d][i][t] = requests[d][i][t]
      BY <1>5, <2>1, <3>1, SendToNoOther
    <3>3. rx_state'[d] = rx_state[d] /\ replies'[d] = replies[d]
          /\ tagsRequested'[d] = tagsRequested[d]
      BY <2>1, <3>1 DEF TypeOK
    <3> QED
      BY <1>3, <3>1, <3>2, <3>3 DEF Idle, SameClient, historyVars
  <2> QED
    BY <1>3, <1>4, <1>8, <2>1 DEF old, tv
<1> QED
  BY <1>3, <1>6, <1>7, <1>8

LEMMA CollectReplyEffect ==
  ASSUME TypeOK, NEW c \in Clients, NEW s \in Servers, CollectReply(c, s)
  PROVE  LET tv == Head(replies[c][s]).TagValue_var IN
         /\ c \in busy /\ Running(c) /\ Phase[c] # PRAKIS_RELAY_DATA
         /\ num_responses[c] < quorum_size
         /\ replies[c][s] # <<>> /\ tv \in TagValue
         /\ \/ /\ Phase[c] = PRAKIS_PUT_TAG
               /\ UNCHANGED <<TagValue_var, IsOnePhase, rx_state>>
            \/ /\ Phase[c] # PRAKIS_PUT_TAG
               /\ TagValue_var'[c] = IF IsSmallerThan(TagValue_var[c].Tag_var, tv.Tag_var)
                                       THEN TagOnly(tv.Tag_var, tv.Opnum) ELSE TagValue_var[c]
               /\ IsOnePhase'[c] <=> StaysOnePhase(c, tv)
               /\ rx_state'[c] =
                    IF Phase[c] = PRAKIS_GET_TAG_DATA /\ StaysOnePhase(c, tv)
                      THEN AddChunk(rx_state[c], tv) ELSE {}
         /\ \/ UNCHANGED processVars
            \/ panics' = panics \cup {"Unexpected client Id"} /\ stopped' = stopped \cup {c}
         /\ num_responses'[c] = num_responses[c] + 1
         /\ responders'[c] = responders[c] \cup {s}
         /\ replies'[c][s] = Tail(replies[c][s])
         /\ \A t \in Servers : t # s => replies'[c][t] = replies[c][t]
         /\ UNCHANGED <<server_state_variables, busy, Opnum, Phase, incarnation,
                        tagsRequested, requests, drops, historyVars>>
         /\ \A d \in Clients : d # c => Idle(d)
<1> DEFINE tv == Head(replies[c][s]).TagValue_var
           one == StaysOnePhase(c, tv)
           rx == IF Phase[c] = PRAKIS_GET_TAG_DATA /\ one THEN AddChunk(rx_state[c], tv)
                 ELSE {}
           tag == IF IsSmallerThan(TagValue_var[c].Tag_var, tv.Tag_var)
                    THEN TagOnly(tv.Tag_var, tv.Opnum) ELSE TagValue_var[c]
           passive == Phase[c] = PRAKIS_PUT_TAG
<1>1. /\ c \in busy /\ Running(c) /\ Phase[c] # PRAKIS_RELAY_DATA
      /\ num_responses[c] < quorum_size
      /\ replies[c][s] # <<>>
      /\ IF passive THEN UNCHANGED <<TagValue_var, IsOnePhase, rx_state>>
         ELSE /\ TagValue_var' = [TagValue_var EXCEPT ![c] = tag]
              /\ IsOnePhase' = [IsOnePhase EXCEPT ![c] = one]
              /\ rx_state' = [rx_state EXCEPT ![c] = rx]
      /\ num_responses' = [num_responses EXCEPT ![c] = num_responses[c] + 1]
      /\ responders' = [responders EXCEPT ![c] = responders[c] \cup {s}]
      /\ replies' = [replies EXCEPT ![c][s] = Tail(replies[c][s])]
      /\ UNCHANGED <<server_state_variables, busy, Opnum, Phase, incarnation,
                     tagsRequested, requests, drops, historyVars>>
  BY DEF CollectReply
<1>2. \/ UNCHANGED processVars
      \/ panics' = panics \cup {"Unexpected client Id"} /\ stopped' = stopped \cup {c}
  BY DEF CollectReply
<1>3. tv \in TagValue
  BY <1>1, ReceiveType
<1>4. one \in BOOLEAN
  BY DEF StaysOnePhase, TypeOK
<1> HIDE DEF tv, one, rx, tag, passive
<1>5. /\ num_responses'[c] = num_responses[c] + 1
      /\ responders'[c] = responders[c] \cup {s}
      /\ replies'[c][s] = Tail(replies[c][s])
      /\ \A t \in Servers : t # s => replies'[c][t] = replies[c][t]
      /\ \A d \in Clients : d # c =>
           /\ num_responses'[d] = num_responses[d] /\ responders'[d] = responders[d]
           /\ replies'[d] = replies[d]
  BY <1>1 DEF TypeOK
<1>6. /\ \/ passive /\ UNCHANGED <<TagValue_var, IsOnePhase, rx_state>>
         \/ /\ ~ passive
            /\ TagValue_var'[c] = tag /\ (IsOnePhase'[c] <=> one) /\ rx_state'[c] = rx
      /\ \A d \in Clients : d # c =>
           /\ TagValue_var'[d] = TagValue_var[d] /\ IsOnePhase'[d] = IsOnePhase[d]
           /\ rx_state'[d] = rx_state[d]
  <2>1. CASE passive
    BY <1>1, <2>1
  <2>2. CASE ~ passive
    <3>1. TagValue_var' = [TagValue_var EXCEPT ![c] = tag]
          /\ IsOnePhase' = [IsOnePhase EXCEPT ![c] = one]
          /\ rx_state' = [rx_state EXCEPT ![c] = rx]
      BY <1>1, <2>2
    <3> QED
      BY <1>4, <2>2, <3>1 DEF TypeOK
  <2> QED
    BY <2>1, <2>2
<1>7. ASSUME NEW d \in Clients, d # c PROVE Idle(d)
  BY <1>1, <1>5, <1>6, <1>7 DEF Idle, SameClient, historyVars
<1> QED
  BY <1>1, <1>2, <1>3, <1>5, <1>6, <1>7 DEF tv, one, rx, tag, passive

\* Who steps when a client restarts, a server is killed or takes a message.
LEMMA EmulateEffect ==
  ASSUME TypeOK, NEW c \in Clients, emulateNewClient(c)
  PROVE  /\ c \notin busy /\ incarnation'[c] = incarnation[c] + 1
         /\ UNCHANGED <<server_state_variables, processVars, busy, Opnum, phaseVars, netVars,
                        historyVars>>
         /\ \A d \in Clients : d # c => Idle(d)
BY DEF emulateNewClient, TypeOK, Idle, SameClient, phaseVars, netVars, historyVars

LEMMA KillServerEffect ==
  ASSUME TypeOK, NEW s \in Servers, KillServer(s)
  PROVE  /\ stopped' = stopped \cup {s}
         /\ UNCHANGED <<server_state_variables, panics, busy, Opnum, incarnation, phaseVars,
                        netVars, historyVars>>
         /\ \A d \in Clients : Idle(d)
BY DEF KillServer, Idle, SameClient, phaseVars, netVars, historyVars

LEMMA ServerStepEffect ==
  ASSUME TypeOK, NEW s \in Servers, NEW c \in Clients, NEW i \in Incarnations,
         ServerStep(s, c, i)
  PROVE  /\ UNCHANGED <<processVars, busy, Opnum, incarnation, phaseVars, drops, historyVars>>
         /\ \A d \in Clients : SameClient(d) /\ RequestsShrink(d)
<1>1. UNCHANGED <<processVars, busy, Opnum, incarnation, phaseVars, drops, historyVars>>
  BY DEF ServerStep
<1>2. ASSUME NEW d \in Clients PROVE SameClient(d)
  BY <1>1 DEF SameClient, phaseVars, historyVars
<1>3. ASSUME NEW d \in Clients, NEW j \in Incarnations, NEW t \in Servers
      PROVE  Shrinks(requests'[d][j][t], requests[d][j][t])
  <2>1. CASE d = c /\ j = i /\ t = s
    <3>1. /\ requests[c][i][s] \in Seq(Message) /\ requests[c][i][s] # <<>>
          /\ requests'[d][j][t] = Tail(requests[c][i][s])
      BY <2>1, TakeEffect
    <3> QED
      BY <2>1, <3>1, ReceiveMessages, ReceiveAtMostOne DEF Shrinks
  <2>2. CASE ~ (d = c /\ j = i /\ t = s)
    <3>1. requests'[d][j][t] = requests[d][j][t]
      BY <2>2, TakeEffect
    <3> QED
      BY <3>1, SameShrinks
  <2> QED
    BY <2>1, <2>2
<1> QED
  BY <1>1, <1>2, <1>3 DEF RequestsShrink

LEMMA ChannelIdle ==
  ASSUME NEW d \in Clients, Idle(d), ChannelInvOf(d)
  PROVE  ChannelInvOf(d)'
<1>1. SameClient(d) /\ RequestsShrink(d) /\ \A s \in Servers : replies'[d][s] = replies[d][s]
  BY SameShrinks DEF Idle, RequestsShrink
<1> QED
  BY <1>1, ChannelFrame

\* A phase that begins with the broadcast of one message for each server.
LEMMA SendEnters ==
  ASSUME TypeOK, TypeOK', NEW c \in Clients, NEW opnum \in Nat, NEW phase \in Phases,
         NEW payload \in [Servers -> TagValue], NEW tv,
         SendToServers(c, opnum, phase, payload), EnterPhase(c, phase, tv),
         c \in busy', Opnum'[c] = opnum, incarnation' = incarnation,
         phase \in PhasesOf(c), phase # PRAKIS_READ_COMPLETE,
         \A i \in Incarnations, s \in Servers : \A n \in Messages(requests[c][i][s]) :
           /\ n.Phase \in PhasesOf(c) /\ n.Opnum <= opnum
           /\ n.Opnum = opnum => n.Phase # phase /\ n.Phase \in FirstPhases
  PROVE  ChannelInvOf(c)'
<1> DEFINE m == [s \in Servers |-> [Opnum |-> opnum, Phase |-> phase,
                                    TagValue_var |-> payload[s]]]
<1>1. \A i \in Incarnations, s \in Servers :
        \/ requests'[c][i][s] = requests[c][i][s]
        \/ /\ i = incarnation[c]
           /\ requests'[c][i][s] = Append(requests[c][i][s], m[s])
  <2>1. \A d \in Clients, i \in Incarnations, s \in Servers :
         \/ /\ requests'[d][i][s] = requests[d][i][s]
            /\ NothingLost => ~ (d = c /\ i = incarnation[c])
         \/ /\ d = c /\ i = incarnation[c]
            /\ requests'[d][i][s] = Append(requests[d][i][s],
                 [Opnum |-> opnum, Phase |-> phase, TagValue_var |-> payload[s]])
    BY SendEffect
  <2> QED
    BY <2>1
<1>2. \A s \in Servers : m[s] \in Message /\ m[s].Opnum = opnum /\ m[s].Phase = phase
  BY DEF Message
<1> HIDE DEF m
<1>3. Phase'[c] = phase /\ num_responses'[c] = 0 /\ responders'[c] = {}
      /\ \A s \in Servers : replies'[c][s] = <<>>
  BY EnterPhaseEffect
<1>4. EntersPhase(c, m)
  BY <1>1, <1>2, <1>3 DEF EntersPhase
<1> QED
  BY <1>4, ChannelEnter

\* No message of a client is of a later operation.
LEMMA OldMessages ==
  ASSUME TypeOK, NEW c \in Clients, ChannelInvOf(c), NEW i \in Incarnations, NEW s \in Servers,
         NEW n \in Messages(requests[c][i][s])
  PROVE  n \in Message /\ n.Opnum \in Nat /\ n.Opnum <= Opnum[c] /\ n.Phase \in PhasesOf(c)
<1>1. requests[c][i][s] \in Seq(Message)
  BY DEF TypeOK
<1>2. n \in Message
  BY <1>1 DEF Messages
<1> QED
  BY <1>2 DEF Message, ChannelInvOf, InOrder, NotFromTheFuture

LEMMA StartOperationChannel ==
  ASSUME TypeOK, TypeOK', NEW c \in Clients, NEW phase \in FirstPhases \cap PhasesOf(c),
         NEW payload \in [Servers -> TagValue],
         StartOperation(c, phase, payload), ChannelInvOf(c)
  PROVE  ChannelInvOf(c)'
<1>1. /\ phase \in Phases /\ phase # PRAKIS_READ_COMPLETE /\ phase \in PhasesOf(c)
      /\ Opnum[c] \in Nat /\ Opnum[c] + 1 \in Nat
  BY DataTypes, PhasesDiffer DEF TypeOK, FirstPhases
<1>2. /\ EnterPhase(c, phase, TagOnly(LowestTag, 0))
      /\ SendToServers(c, Opnum[c] + 1, phase, payload)
      /\ c \in busy' /\ Opnum'[c] = Opnum[c] + 1 /\ incarnation' = incarnation
  BY <1>1, StartOperationEffect
<1>3. \A i \in Incarnations, s \in Servers : \A n \in Messages(requests[c][i][s]) :
        n.Phase \in PhasesOf(c) /\ n.Opnum <= Opnum[c] + 1 /\ n.Opnum # Opnum[c] + 1
  BY <1>1, OldMessages
<1> QED
  BY <1>1, <1>2, <1>3, SendEnters

\* From its first phase, a client enters a second one, whose messages are new.
LEMMA FromFirstPhase ==
  ASSUME TypeOK, NEW c \in Clients, c \in busy, ChannelInvOf(c),
         Phase[c] \in FirstPhases, NEW phase, phase \notin FirstPhases
  PROVE  \A i \in Incarnations, s \in Servers : \A n \in Messages(requests[c][i][s]) :
           /\ n.Phase \in PhasesOf(c) /\ n.Opnum <= Opnum[c]
           /\ n.Opnum = Opnum[c] => n.Phase # phase /\ n.Phase \in FirstPhases
<1>1. \A i \in Incarnations, s \in Servers : \A n \in Messages(requests[c][i][s]) :
        NotFromTheFuture(c, n)
  BY DEF ChannelInvOf, InOrder
<1> QED
  BY <1>1 DEF NotFromTheFuture

LEMMA WriterPutsTagChannel ==
  ASSUME TypeOK, TypeOK', NEW w \in Clients, WriterPutsTag(w), ChannelInvOf(w)
  PROVE  ChannelInvOf(w)'
<1> DEFINE tv == TagOnly(TagValue_var[w].Tag_var, Opnum[w])
<1>1. /\ w \in busy /\ Phase[w] = PRAKIS_PUT_DATA
      /\ ToAll(tv) \in [Servers -> TagValue]
      /\ EnterPhase(w, PRAKIS_PUT_TAG, tv)
      /\ SendToServers(w, Opnum[w], PRAKIS_PUT_TAG, ToAll(tv))
      /\ UNCHANGED <<busy, Opnum, incarnation>>
  BY WriterPutsTagEffect
<1> HIDE DEF tv
<1>2. PRAKIS_PUT_TAG \in PhasesOf(w)
  <2>1. PRAKIS_PUT_DATA \in PhasesOf(w)
    BY <1>1 DEF ChannelInvOf, InOrder
  <2> QED
    BY <2>1, PhasesDiffer DEF PhasesOf
<1>3. /\ PRAKIS_PUT_TAG \in Phases /\ PRAKIS_PUT_TAG # PRAKIS_READ_COMPLETE
      /\ Opnum[w] \in Nat /\ PRAKIS_PUT_TAG \notin FirstPhases /\ PRAKIS_PUT_DATA \in FirstPhases
  BY DataTypes, PhasesDiffer DEF TypeOK, FirstPhases
<1>4. \A i \in Incarnations, s \in Servers : \A n \in Messages(requests[w][i][s]) :
        /\ n.Phase \in PhasesOf(w) /\ n.Opnum <= Opnum[w]
        /\ n.Opnum = Opnum[w] => n.Phase # PRAKIS_PUT_TAG /\ n.Phase \in FirstPhases
  BY <1>1, <1>3, FromFirstPhase
<1> QED
  BY <1>1, <1>2, <1>3, <1>4, SendEnters

LEMMA ReaderAsksForRelaysChannel ==
  ASSUME TypeOK, TypeOK', NEW r \in Clients, ReaderAsksForRelays(r), ChannelInvOf(r)
  PROVE  ChannelInvOf(r)'
<1>1. /\ r \in busy /\ Phase[r] = PRAKIS_GET_TAG_DATA
      /\ ToAll(TagValue_var[r]) \in [Servers -> TagValue]
      /\ EnterPhase(r, PRAKIS_RELAY_DATA, TagValue_var[r])
      /\ SendToServers(r, Opnum[r], PRAKIS_RELAY_DATA, ToAll(TagValue_var[r]))
      /\ UNCHANGED <<busy, Opnum, incarnation>>
  BY ReaderAsksForRelaysEffect
<1>2. PRAKIS_RELAY_DATA \in PhasesOf(r)
  <2>1. PRAKIS_GET_TAG_DATA \in PhasesOf(r)
    BY <1>1 DEF ChannelInvOf, InOrder
  <2> QED
    BY <2>1, PhasesDiffer DEF PhasesOf
<1>3. /\ PRAKIS_RELAY_DATA \in Phases /\ PRAKIS_RELAY_DATA # PRAKIS_READ_COMPLETE
      /\ Opnum[r] \in Nat /\ PRAKIS_RELAY_DATA \notin FirstPhases
      /\ PRAKIS_GET_TAG_DATA \in FirstPhases
  BY DataTypes, PhasesDiffer DEF TypeOK, FirstPhases
<1>4. \A i \in Incarnations, s \in Servers : \A n \in Messages(requests[r][i][s]) :
        /\ n.Phase \in PhasesOf(r) /\ n.Opnum <= Opnum[r]
        /\ n.Opnum = Opnum[r] => n.Phase # PRAKIS_RELAY_DATA /\ n.Phase \in FirstPhases
  BY <1>1, <1>3, FromFirstPhase
<1> QED
  BY <1>1, <1>2, <1>3, <1>4, SendEnters

\* An operation that ends without a message.
LEMMA EndSilently ==
  ASSUME TypeOK, NEW c \in Clients, ChannelInvOf(c), c \notin busy', Opnum' = Opnum,
         \A s \in Servers : replies'[c][s] = <<>>, requests' = requests
  PROVE  ChannelInvOf(c)'
<1> DEFINE phase == IF c \in Readers THEN PRAKIS_RELAY_DATA ELSE PRAKIS_PUT_TAG
           m == [s \in Servers |-> [Opnum |-> Opnum[c], Phase |-> phase,
                                    TagValue_var |-> TagOnly(ZeroTag, 0)]]
<1>1. \A s \in Servers : m[s] \in Message /\ m[s].Opnum = Opnum[c] /\ m[s].Phase \in PhasesOf(c)
  <2>1. TagOnly(ZeroTag, 0) \in TagValue /\ phase \in Phases /\ Opnum[c] \in Nat
        /\ phase \in PhasesOf(c)
    BY DataTypes DEF TypeOK, PhasesOf
  <2> QED
    BY <2>1 DEF Message
<1> HIDE DEF m
<1> QED
  BY <1>1, ChannelEnd

LEMMA CollectReplyChannel ==
  ASSUME TypeOK, TypeOK', NEW c \in Clients, NEW s \in Servers, CollectReply(c, s),
         ChannelInvOf(c)
  PROVE  ChannelInvOf(c)'
<1>1. /\ Counts(c) /\ num_responses[c] < quorum_size
      /\ replies[c][s] # <<>>
      /\ num_responses'[c] = num_responses[c] + 1
      /\ responders'[c] = responders[c] \cup {s}
      /\ replies'[c][s] = Tail(replies[c][s])
      /\ \A t \in Servers : t # s => replies'[c][t] = replies[c][t]
      /\ UNCHANGED <<busy, Opnum, Phase, incarnation, requests>>
  BY CollectReplyEffect DEF Counts
<1>2. Current(c)' = Current(c) /\ \A m : NotFromTheFuture(c, m)' <=> NotFromTheFuture(c, m)
  BY <1>1 DEF Current, NotFromTheFuture, PhasesOf
<1>3. /\ replies[c][s] \in Seq(Message) /\ Head(replies[c][s]) \in Current(c)
      /\ Tail(replies[c][s]) = <<>> /\ s \notin responders[c]
      /\ \A i \in Incarnations : Messages(requests[c][i][s]) \cap Current(c) = {}
  <2>1. /\ replies[c][s] \in Seq(Message) /\ Tail(replies[c][s]) \in Seq(Message)
        /\ Head(replies[c][s]) \in Messages(replies[c][s])
        /\ Messages(Tail(replies[c][s])) \subseteq Messages(replies[c][s])
    BY <1>1, ReceiveType
  <2>2. Messages(replies[c][s]) \subseteq Current(c)
    BY DEF ChannelInvOf, InOrder
  <2>3. AtMostOne(replies[c][s], Current(c)) /\ s \notin responders[c]
        /\ \A i \in Incarnations : Messages(requests[c][i][s]) \cap Current(c) = {}
    BY <1>1 DEF ChannelInvOf, OneCurrent
  <2>4. Messages(Tail(replies[c][s])) \cap Current(c) = {}
    BY <1>1, <2>1, <2>2, <2>3, ReceiveAtMostOne
  <2>5. Messages(Tail(replies[c][s])) = {}
    BY <2>1, <2>2, <2>4
  <2> QED
    BY <2>1, <2>2, <2>3, <2>5, EmptyMessages
<1>4. InOrder(c)'
  <2>1. \A t \in Servers : Messages(replies'[c][t]) \subseteq Current(c)
    BY <1>1, <1>3, EmptyMessages DEF ChannelInvOf, InOrder
  <2> QED
    BY <1>1, <1>2, <2>1 DEF ChannelInvOf, InOrder, PhasesOf
<1>5. OneCurrent(c)'
  <2> SUFFICES ASSUME NEW t \in Servers
               PROVE  /\ AtMostOne(replies'[c][t], Current(c))
                      /\ replies'[c][t] # <<>> => t \notin responders'[c]
                      /\ \A i \in Incarnations :
                           /\ AtMostOne(requests[c][i][t], Current(c))
                           /\ Messages(requests[c][i][t]) \cap Current(c) # {} =>
                                i = incarnation[c] /\ t \notin responders'[c]
                                /\ replies'[c][t] = <<>>
    BY <1>1, <1>2 DEF OneCurrent
  <2>1. /\ AtMostOne(replies[c][t], Current(c))
        /\ replies[c][t] # <<>> => t \notin responders[c]
        /\ \A i \in Incarnations :
             /\ AtMostOne(requests[c][i][t], Current(c))
             /\ Messages(requests[c][i][t]) \cap Current(c) # {} =>
                  i = incarnation[c] /\ t \notin responders[c] /\ replies[c][t] = <<>>
    BY <1>1 DEF ChannelInvOf, OneCurrent
  <2>2. CASE t = s
    BY <1>1, <1>3, <2>1, <2>2, EmptyMessages
  <2>3. CASE t # s
    BY <1>1, <2>1, <2>3
  <2> QED
    BY <2>2, <2>3
<1>6. Counted(c)'
  <2>1. IsFiniteSet(responders[c]) /\ Cardinality(responders[c]) \in Nat
    BY SMTT(30), ServersAssumption, FS_Subset, FS_CardinalityType DEF TypeOK
  <2>2. Cardinality(responders'[c]) = Cardinality(responders[c]) + 1
    BY <1>1, <1>3, <2>1, FS_AddElement
  <2>3. num_responses[c] = Cardinality(responders[c])
    BY <1>1 DEF ChannelInvOf, Counted
  <2>4. quorum_size \in Nat
    BY DataTypes
  <2> QED
    BY <1>1, <2>1, <2>2, <2>3, <2>4 DEF Counted
<1> QED
  BY <1>4, <1>5, <1>6 DEF ChannelInvOf

\* A reader that takes a relay counts nothing; it may send messages of its phase.
LEMMA TakeRelayChannel ==
  ASSUME TypeOK, TypeOK', NEW r \in Clients, NEW s \in Servers, ChannelInvOf(r),
         r \in busy, Phase[r] = PRAKIS_RELAY_DATA, replies[r][s] # <<>>,
         replies' = [replies EXCEPT ![r][s] = Tail(replies[r][s])],
         UNCHANGED <<busy, Opnum, Phase>>,
         NEW m \in Message, m.Opnum = Opnum[r], m.Phase = PRAKIS_RELAY_DATA,
         \A i \in Incarnations, t \in Servers :
           \/ requests'[r][i][t] = requests[r][i][t]
           \/ requests'[r][i][t] = Append(requests[r][i][t], m)
  PROVE  ChannelInvOf(r)'
<1>1. Current(r)' = Current(r) /\ \A n : NotFromTheFuture(r, n)' <=> NotFromTheFuture(r, n)
  BY DEF Current, NotFromTheFuture, PhasesOf
<1>2. \A t \in Servers : Messages(replies'[r][t]) \subseteq Messages(replies[r][t])
  <2>1. replies'[r][s] = Tail(replies[r][s])
        /\ \A t \in Servers : t # s => replies'[r][t] = replies[r][t]
    BY DEF TypeOK
  <2> QED
    BY <2>1, ReceiveType
<1>3. ASSUME NEW i \in Incarnations, NEW t \in Servers, NEW n \in Messages(requests'[r][i][t])
      PROVE  NotFromTheFuture(r, n)'
  <2>1. requests[r][i][t] \in Seq(Message)
    BY DEF TypeOK
  <2>2. n \in Messages(requests[r][i][t]) \/ n = m
    <3>1. Messages(Append(requests[r][i][t], m)) = Messages(requests[r][i][t]) \cup {m}
      BY <2>1, SendMessages
    <3>2. \/ requests'[r][i][t] = requests[r][i][t]
          \/ requests'[r][i][t] = Append(requests[r][i][t], m)
      OBVIOUS
    <3>3. Messages(requests'[r][i][t]) \in
            {Messages(requests[r][i][t]), Messages(requests[r][i][t]) \cup {m}}
      BY ONLY <3>1, <3>2
    <3> QED
      BY <3>3
  <2>3. NotFromTheFuture(r, m)
    BY DEF NotFromTheFuture, ChannelInvOf, InOrder, Message
  <2> QED
    BY <1>1, <2>2, <2>3 DEF ChannelInvOf, InOrder
<1>4. InOrder(r)'
  BY <1>1, <1>2, <1>3 DEF ChannelInvOf, InOrder, PhasesOf
<1>5. ~ Counts(r)'
  BY DEF Counts
<1> QED
  BY <1>4, <1>5 DEF ChannelInvOf, OneCurrent, Counted

\* What a broadcast by c of the messages m[t] changes.
SentBy(c, m) ==
  \A i \in Incarnations, t \in Servers :
    \/ /\ requests'[c][i][t] = requests[c][i][t]
       /\ NothingLost => i # incarnation[c]
    \/ /\ i = incarnation[c]
       /\ requests'[c][i][t] = Append(requests[c][i][t], m[t])

LEMMA Broadcast ==
  ASSUME TypeOK, NEW c \in Clients, NEW phase \in Phases, NEW tv \in TagValue,
         NEW opnum \in Nat, SendToServers(c, opnum, phase, ToAll(tv))
  PROVE  LET m == [Opnum |-> opnum, Phase |-> phase, TagValue_var |-> tv] IN
         /\ m \in Message
         /\ SentBy(c, [t \in Servers |-> m])
<1> DEFINE m == [Opnum |-> opnum, Phase |-> phase, TagValue_var |-> tv]
<1>1. ToAll(tv) \in [Servers -> TagValue] /\ \A t \in Servers : ToAll(tv)[t] = tv
  BY ToAllType
<1>2. \A d \in Clients, i \in Incarnations, t \in Servers :
         \/ /\ requests'[d][i][t] = requests[d][i][t]
            /\ NothingLost => ~ (d = c /\ i = incarnation[c])
         \/ /\ d = c /\ i = incarnation[c]
            /\ requests'[d][i][t] = Append(requests[d][i][t],
                 [Opnum |-> opnum, Phase |-> phase, TagValue_var |-> ToAll(tv)[t]])
  BY <1>1, SendEffect
<1>3. SentBy(c, [t \in Servers |-> m])
  BY <1>1, <1>2 DEF SentBy
<1> QED
  BY <1>3 DEF Message

LEMMA CollectRelayChannel ==
  ASSUME TypeOK, TypeOK', NEW r \in Clients, NEW s \in Servers, CollectRelay(r, s),
         ChannelInvOf(r)
  PROVE  ChannelInvOf(r)'
<1> DEFINE tv == Head(replies[r][s]).TagValue_var
<1>1. /\ r \in busy /\ Phase[r] = PRAKIS_RELAY_DATA /\ replies[r][s] # <<>>
      /\ tv \in TagValue
      /\ UNCHANGED <<Opnum, incarnation>>
      /\ \/ /\ replies' = [replies EXCEPT ![r][s] = Tail(replies[r][s])]
            /\ UNCHANGED <<busy, Phase>>
            /\ \/ UNCHANGED requests
               \/ SendToServers(r, Opnum[r], PRAKIS_RELAY_DATA, ToAll(CommitRequest(tv)))
         \/ /\ busy' = busy \ {r}
            /\ EnterPhase(r, PRAKIS_READ_COMPLETE, TagOnly(LowestTag, 0))
            /\ SendToServers(r, Opnum[r], PRAKIS_READ_COMPLETE, ToAll(TagOnly(ZeroTag, 0)))
  BY CollectRelayEffect DEF phaseVars, KeepsRelay
<1>2. /\ CommitRequest(tv) \in TagValue /\ TagOnly(ZeroTag, 0) \in TagValue
      /\ PRAKIS_RELAY_DATA \in Phases /\ PRAKIS_READ_COMPLETE \in Phases
      /\ Opnum[r] \in Nat
  BY <1>1, DataTypes, CommitRequestType DEF TypeOK
<1> HIDE DEF tv
<1>3. CASE /\ replies' = [replies EXCEPT ![r][s] = Tail(replies[r][s])]
           /\ UNCHANGED <<busy, Phase>>
           /\ \/ UNCHANGED requests
              \/ SendToServers(r, Opnum[r], PRAKIS_RELAY_DATA, ToAll(CommitRequest(tv)))
  <2> DEFINE m == [Opnum |-> Opnum[r], Phase |-> PRAKIS_RELAY_DATA,
                   TagValue_var |-> CommitRequest(tv)]
  <2>1. m \in Message /\ m.Opnum = Opnum[r] /\ m.Phase = PRAKIS_RELAY_DATA
    BY <1>2 DEF Message
  <2>2. ASSUME NEW i \in Incarnations, NEW t \in Servers
        PROVE  \/ requests'[r][i][t] = requests[r][i][t]
               \/ requests'[r][i][t] = Append(requests[r][i][t], m)
    <3>1. CASE UNCHANGED requests
      BY <3>1
    <3>2. CASE SendToServers(r, Opnum[r], PRAKIS_RELAY_DATA, ToAll(CommitRequest(tv)))
      BY <1>2, <3>2, Broadcast DEF SentBy
    <3> QED
      BY <1>3, <3>1, <3>2
  <2> HIDE DEF m
  <2> QED
    BY <1>1, <1>3, <2>1, <2>2, TakeRelayChannel
<1>4. CASE /\ busy' = busy \ {r}
           /\ EnterPhase(r, PRAKIS_READ_COMPLETE, TagOnly(LowestTag, 0))
           /\ SendToServers(r, Opnum[r], PRAKIS_READ_COMPLETE, ToAll(TagOnly(ZeroTag, 0)))
  <2> DEFINE n == [Opnum |-> Opnum[r], Phase |-> PRAKIS_READ_COMPLETE,
                   TagValue_var |-> TagOnly(ZeroTag, 0)]
             m == [t \in Servers |-> n]
  <2>1. n \in Message /\ SentBy(r, m)
    BY <1>2, <1>4, Broadcast
  <2>2. PRAKIS_READ_COMPLETE \in PhasesOf(r)
    <3>1. PRAKIS_RELAY_DATA \in PhasesOf(r)
      BY <1>1 DEF ChannelInvOf, InOrder
    <3> QED
      BY <3>1, PhasesDiffer DEF PhasesOf
  <2>3. \A t \in Servers : m[t] \in Message /\ m[t].Opnum = Opnum[r] /\ m[t].Phase \in PhasesOf(r)
    BY <2>1, <2>2
  <2>4. \A i \in Incarnations, t \in Servers :
          \/ requests'[r][i][t] = requests[r][i][t]
          \/ requests'[r][i][t] = Append(requests[r][i][t], m[t])
    BY <2>1 DEF SentBy
  <2>5. \A t \in Servers : replies'[r][t] = <<>>
    BY <1>4, EnterPhaseEffect
  <2> HIDE DEF m, n
  <2> QED
    BY <1>1, <1>4, <2>3, <2>4, <2>5, ChannelEnd
<1> QED
  BY <1>1, <1>3, <1>4

\* A server answers a current message after it took it, so that it stays the only one.
LEMMA AnswerChannel ==
  ASSUME TypeOK, TypeOK', NEW d \in Clients, NEW s \in Servers, NEW i \in Incarnations,
         SameClient(d), ChannelInvOf(d), RequestsShrink(d),
         \A t \in Servers : t # s => replies'[d][t] = replies[d][t],
         NEW a \in Message, a \in Current(d),
         replies'[d][s] = Append(replies[d][s], a),
         i = incarnation[d], Messages(requests[d][i][s]) \cap Current(d) # {},
         Messages(requests'[d][i][s]) \cap Current(d) = {},
         Counts(d)
  PROVE  ChannelInvOf(d)'
<1>1. Current(d)' = Current(d)
  BY SameCurrent
<1>2. \A j \in Incarnations, t \in Servers :
        /\ Messages(requests'[d][j][t]) \subseteq Messages(requests[d][j][t])
        /\ \A S : AtMostOne(requests[d][j][t], S) => AtMostOne(requests'[d][j][t], S)
  BY DEF RequestsShrink, Shrinks
<1>3. replies[d][s] \in Seq(Message)
  BY DEF TypeOK
<1>4. InOrder(d)'
  <2>1. Messages(replies'[d][s]) = Messages(replies[d][s]) \cup {a}
    BY <1>3, SendMessages
  <2>2. ASSUME NEW t \in Servers
        PROVE  Messages(replies'[d][t]) \subseteq Messages(replies[d][t]) \cup Current(d)
    <3>1. CASE t = s
      BY <2>1, <3>1
    <3>2. CASE t # s
      <4>1. replies'[d][t] = replies[d][t]
        BY <3>2
      <4> QED
        BY ONLY <4>1
    <3> QED
      BY <3>1, <3>2
  <2> QED
    BY <2>2, InOrderFrame DEF ChannelInvOf
<1>5. OneCurrent(d)'
  <2> SUFFICES ASSUME NEW t \in Servers
               PROVE  /\ AtMostOne(replies'[d][t], Current(d))
                      /\ replies'[d][t] # <<>> => t \notin responders[d]
                      /\ \A j \in Incarnations :
                           /\ AtMostOne(requests'[d][j][t], Current(d))
                           /\ Messages(requests'[d][j][t]) \cap Current(d) # {} =>
                                j = incarnation[d] /\ t \notin responders[d]
                                /\ replies'[d][t] = <<>>
    BY <1>1 DEF OneCurrent, SameClient, Counts
  <2>1. /\ AtMostOne(replies[d][t], Current(d))
        /\ replies[d][t] # <<>> => t \notin responders[d]
        /\ \A j \in Incarnations :
             /\ AtMostOne(requests[d][j][t], Current(d))
             /\ Messages(requests[d][j][t]) \cap Current(d) # {} =>
                  j = incarnation[d] /\ t \notin responders[d] /\ replies[d][t] = <<>>
    BY DEF ChannelInvOf, OneCurrent
  <2>2. CASE t # s
    BY <1>2, <2>1, <2>2
  <2>3. CASE t = s
    <3>1. s \notin responders[d] /\ replies[d][s] = <<>>
      BY <2>1, <2>3
    <3>2. AtMostOne(replies'[d][s], Current(d))
      <4>1. AtMostOne(<<>>, Current(d)) /\ Messages(<<>>) = {} /\ <<>> \in Seq(Message)
        BY EmptyMessages
      <4>2. AtMostOne(Append(<<>>, a), Current(d))
        BY <4>1, SendAtMostOne
      <4> QED
        BY <3>1, <4>2
    <3>3. ASSUME NEW j \in Incarnations
          PROVE  /\ AtMostOne(requests'[d][j][s], Current(d))
                 /\ Messages(requests'[d][j][s]) \cap Current(d) = {}
      <4>1. AtMostOne(requests'[d][j][s], Current(d))
        BY <1>2, <2>1, <2>3
      <4>2. CASE j = i
        BY <4>1, <4>2
      <4>3. CASE j # i
        <5>1. Messages(requests[d][j][s]) \cap Current(d) = {}
          BY <2>1, <2>3, <4>3
        <5> QED
          BY <1>2, <4>1, <5>1
      <4> QED
        BY <4>2, <4>3
    <3> QED
      BY <2>3, <3>1, <3>2, <3>3
  <2> QED
    BY <2>2, <2>3
<1>6. Counted(d)'
  BY DEF ChannelInvOf, Counted, SameClient, Counts
<1> QED
  BY <1>4, <1>5, <1>6 DEF ChannelInvOf

LEMMA SendsOneMessage ==
  ASSUME NEW q \in Seq(Message), NEW p, NEW A, A \subseteq Message, SendsOneOf(p, q, A)
  PROVE  Messages(p) \subseteq Messages(q) \cup A
<1>1. CASE p = q
  BY <1>1
<1>2. ASSUME NEW a \in A, p = Append(q, a) PROVE Messages(p) \subseteq Messages(q) \cup A
  <2>1. a \in Message
    BY <1>2
  <2>2. Messages(Append(q, a)) = Messages(q) \cup {a}
    BY <2>1, SendMessages
  <2> QED
    BY <1>2, <2>2
<1> QED
  BY <1>1, <1>2 DEF SendsOneOf

\* What a server may have sent: its channel gains messages of A and of B.
LEMMA SendsMessages ==
  ASSUME TypeOK, NEW d \in Clients, NEW s \in Servers, NEW A, NEW B, Sends(d, s, A, B),
         A \subseteq Message, B \subseteq Message
  PROVE  Messages(replies'[d][s]) \subseteq Messages(replies[d][s]) \cup A \cup B
<1>1. PICK q \in Seq(Message) : SendsOneOf(q, replies[d][s], A) /\ SendsOneOf(replies'[d][s], q, B)
  BY DEF Sends
<1>2. replies[d][s] \in Seq(Message)
  BY DEF TypeOK
<1>3. Messages(q) \subseteq Messages(replies[d][s]) \cup A
  BY <1>1, <1>2, SendsOneMessage
<1>4. Messages(replies'[d][s]) \subseteq Messages(q) \cup B
  BY <1>1, SendsOneMessage
<1> QED
  BY <1>3, <1>4

LEMMA ServerStepChannel ==
  ASSUME TypeOK, TypeOK', ChannelInv, NEW s \in Servers, NEW c \in Clients,
         NEW i \in Incarnations, ServerStep(s, c, i), NEW d \in Clients
  PROVE  ChannelInvOf(d)'
<1> DEFINE m == Head(requests[c][i][s])
<1>1. SameClient(d) /\ RequestsShrink(d) /\ ChannelInvOf(d)
  BY ServerStepEffect DEF ChannelInv
<1>2. PICK st2, A, B : StepHandledBy(s, c, i, st2, A, B)
  BY StepHandled
<1>3. /\ Sends(d, s, A[d], B[d]) /\ A[d] \subseteq RelayTo(d) /\ B[d] \subseteq AnswerTo(d, c, i, m)
      /\ \A t \in Servers : t # s => replies'[d][t] = replies[d][t]
  BY <1>2 DEF StepHandledBy, Handled
<1>4. /\ requests[c][i][s] \in Seq(Message) /\ requests[c][i][s] # <<>>
      /\ requests'[c][i][s] = Tail(requests[c][i][s])
  BY TakeEffect
<1> HIDE DEF m
<1>5. CASE replies'[d][s] = replies[d][s]
  BY <1>1, <1>3, <1>5, ChannelFrame
<1>6. CASE replies'[d][s] # replies[d][s] /\ Counts(d)
  <2>1. A[d] = {}
    BY <1>3, <1>6 DEF RelayTo, Counts
  <2>2. PICK a \in B[d] : replies'[d][s] = Append(replies[d][s], a)
    BY <1>3, <1>6, <2>1 DEF Sends, SendsOneOf
  <2>3. /\ a \in Message /\ a \in Current(d) /\ d = c /\ i = incarnation[c] /\ m \in Current(c)
    BY <1>3, <2>2 DEF AnswerTo
  <2>4. m \in Messages(requests[c][i][s])
    BY <1>4, ReceiveMessages DEF m
  <2>5. AtMostOne(requests[c][i][s], Current(c))
    BY <1>1, <1>6, <2>3 DEF ChannelInvOf, OneCurrent
  <2>6. Messages(Tail(requests[c][i][s])) \cap Current(c) = {}
    BY <1>4, <2>3, <2>5, ReceiveAtMostOne DEF m
  <2> QED
    BY <1>1, <1>3, <1>4, <1>6, <2>2, <2>3, <2>4, <2>6, AnswerChannel
<1>7. CASE ~ Counts(d)
  <2>1. A[d] \subseteq Current(d) /\ B[d] \subseteq Current(d) /\ Current(d) \subseteq Message
    BY <1>3 DEF RelayTo, AnswerTo, Current
  <2>2. \A t \in Servers : Messages(replies'[d][t]) \subseteq Messages(replies[d][t]) \cup Current(d)
    BY <1>3, <2>1, SendsMessages
  <2>3. InOrder(d)'
    BY <1>1, <2>2, InOrderFrame DEF ChannelInvOf
  <2>4. ~ Counts(d)'
    BY <1>1, <1>7 DEF Counts, SameClient
  <2> QED
    BY <2>3, <2>4 DEF ChannelInvOf, OneCurrent, Counted
<1> QED
  BY <1>5, <1>6, <1>7

LEMMA ChannelStep ==
  ASSUME TypeOK, TypeOK', ChannelInv, [Next]_vars
  PROVE  ChannelInv'
<1> USE DEF ChannelInv
<1>1. CASE UNCHANGED vars
  <2>1. \A d \in Clients : Idle(d)
    BY <1>1 DEF vars, phaseVars, netVars, historyVars, Idle, SameClient
  <2> QED
    BY <2>1, ChannelIdle
<1>2. ASSUME NEW c \in Clients, ClientStep(c), NEW d \in Clients
      PROVE  ChannelInvOf(d)'
  <2>1. CASE StartRead(c) \/ StartWrite(c)
    <3>1. PICK phase \in FirstPhases \cap PhasesOf(c), payload \in [Servers -> TagValue] :
            StartOperation(c, phase, payload)
      <4>1. CASE StartRead(c)
        <5>1. PRAKIS_GET_TAG_DATA \in FirstPhases \cap PhasesOf(c)
          BY <4>1 DEF StartRead, FirstPhases, PhasesOf
        <5> QED
          BY <4>1, <5>1, StartType
      <4>2. CASE StartWrite(c)
        <5>1. PRAKIS_PUT_DATA \in FirstPhases \cap PhasesOf(c)
          BY <4>2, ClientsAssumption DEF StartWrite, FirstPhases, PhasesOf
        <5> QED
          BY <4>2, <5>1, StartType
      <4> QED
        BY <2>1, <4>1, <4>2
    <3>2. phase \in Phases
      BY DataTypes DEF FirstPhases
    <3>3. d # c => Idle(d)
      BY <3>1, <3>2, StartOperationEffect
    <3> QED
      BY <3>1, <3>3, StartOperationChannel, ChannelIdle
  <2>2. ASSUME NEW s \in Servers, CollectReply(c, s) PROVE ChannelInvOf(d)'
    <3>1. d # c => Idle(d)
      BY <2>2, CollectReplyEffect
    <3> QED
      BY <2>2, <3>1, CollectReplyChannel, ChannelIdle
  <2>3. ASSUME NEW s \in Servers, CollectRelay(c, s) PROVE ChannelInvOf(d)'
    <3>1. d # c => Idle(d)
      BY <2>3, CollectRelayEffect
    <3> QED
      BY <2>3, <3>1, CollectRelayChannel, ChannelIdle
  <2>4. CASE WriterPutsTag(c)
    <3>1. d # c => Idle(d)
      BY <2>4, WriterPutsTagEffect
    <3> QED
      BY <2>4, <3>1, WriterPutsTagChannel, ChannelIdle
  <2>5. CASE PutTagCompletes(c)
    <3>1. /\ busy' = busy \ {c} /\ Opnum' = Opnum /\ requests' = requests
          /\ EnterPhase(c, PRAKIS_PUT_TAG, TagOnly(LowestTag, 0))
          /\ d # c => Idle(d)
      BY <2>5, PutTagCompletesEffect
    <3>2. \A s \in Servers : replies'[c][s] = <<>>
      BY <3>1, EnterPhaseEffect
    <3> QED
      BY <3>1, <3>2, EndSilently, ChannelIdle
  <2>6. CASE ReaderAsksForRelays(c)
    <3>1. d # c => Idle(d)
      BY <2>6, ReaderAsksForRelaysEffect
    <3> QED
      BY <2>6, <3>1, ReaderAsksForRelaysChannel, ChannelIdle
  <2>7. CASE ReadInOnePhase(c)
    <3>1. /\ Opnum' = Opnum /\ requests' = requests
          /\ \/ busy' = busy \ {c} /\ EnterPhase(c, PRAKIS_GET_TAG_DATA, TagOnly(LowestTag, 0))
             \/ Idle(c)
          /\ d # c => Idle(d)
      BY <2>7, ReadInOnePhaseEffect
    <3>2. CASE busy' = busy \ {c} /\ EnterPhase(c, PRAKIS_GET_TAG_DATA, TagOnly(LowestTag, 0))
      <4>1. \A s \in Servers : replies'[c][s] = <<>>
        BY <3>2, EnterPhaseEffect
      <4> QED
        BY <3>1, <3>2, <4>1, EndSilently, ChannelIdle
    <3> QED
      BY <3>1, <3>2, ChannelIdle
  <2>8. CASE emulateNewClient(c)
    <3>1. /\ c \notin busy' /\ UNCHANGED <<busy, Opnum, phaseVars, netVars>>
          /\ d # c => Idle(d)
      BY <2>8, EmulateEffect
    <3>2. ChannelInvOf(c)'
      BY <3>1 DEF ChannelInvOf, InOrder, OneCurrent, Counted, Counts, NotFromTheFuture, Current,
                  PhasesOf, netVars, phaseVars
    <3> QED
      BY <3>1, <3>2, ChannelIdle
  <2> QED
    BY <1>2, <2>1, <2>2, <2>3, <2>4, <2>5, <2>6, <2>7, <2>8 DEF ClientStep
<1>3. ASSUME NEW s \in Servers, NEW c \in Clients, NEW i \in Incarnations,
             ServerStep(s, c, i)
      PROVE  ChannelInv'
  BY <1>3, ServerStepChannel
<1>4. ASSUME NEW s \in Servers, KillServer(s) PROVE ChannelInv'
  BY <1>4, KillServerEffect, ChannelIdle
<1> QED
  BY <1>1, <1>2, <1>3, <1>4 DEF Next, AllDone

\* In the phases that count replies, a server has at most one message of the
\* phase, or its reply is the only one on the way, or it was counted once: the
\* number counted is a number of different servers, whatever was lost, delayed or
\* left behind by a restart (ReceiveMessagesFromQuorum, isMessageUseful and the
\* sockets of emulateNewClient).
THEOREM RepliesCountServers == Spec => []ChannelInv
<1>1. Init => TypeOK /\ ChannelInv
  BY TypeInit, ChannelInit
<1>2. TypeOK /\ ChannelInv /\ [Next]_vars => (TypeOK /\ ChannelInv)'
  BY TypeStep, ChannelStep
<1> QED
  BY <1>1, <1>2, PTL DEF Spec

-----------------------------------------------------------------------------
(* The tag a read asks for *)

LEMMA TagInit == Init => TagInv /\ ReaderGetsRequestedTag
BY DEF Init, TagInv, TagInvOf, readsOf, Messages, ReaderGetsRequestedTag

\* A client that does not step, for which nothing is registered and to which
\* nothing is sent but what is about the tag it asked for.
LEMMA TagFrame ==
  ASSUME NEW d \in Clients, SameClient(d), TagInvOf(d), RequestsShrink(d),
         \A s \in Servers : \A x \in readsOf(s, d)' : x \in readsOf(s, d) \/ WaitsForTag(d, x),
         \A s \in Servers : \A m \in Messages(replies'[d][s]) :
           m \in Messages(replies[d][s]) \/ HasTagAskedFor(d, m)
  PROVE  TagInvOf(d)'
<1>1. \A x : WaitsForTag(d, x)' <=> WaitsForTag(d, x)
  BY DEF SameClient, WaitsForTag
<1>2. \A m : HasTagAskedFor(d, m)' <=> HasTagAskedFor(d, m)
  BY DEF SameClient, HasTagAskedFor, IsWaiting
<1>3. \A m : AsksForTag(d, m)' <=> AsksForTag(d, m)
  BY DEF SameClient, AsksForTag, IsWaiting
<1>4. ASSUME NEW s \in Servers, NEW i \in Incarnations, NEW m \in Messages(requests'[d][i][s])
      PROVE  AsksForTag(d, m)'
  <2>1. m \in Messages(requests[d][i][s])
    BY DEF RequestsShrink, Shrinks
  <2> QED
    BY <1>3, <2>1 DEF TagInvOf
<1>5. \A s \in Servers : \A x \in readsOf(s, d)' : WaitsForTag(d, x)'
  BY <1>1 DEF TagInvOf
<1>6. \A s \in Servers : \A m \in Messages(replies'[d][s]) : HasTagAskedFor(d, m)'
  BY <1>2 DEF TagInvOf
<1> QED
  BY <1>4, <1>5, <1>6 DEF TagInvOf

LEMMA TagIdle ==
  ASSUME NEW d \in Clients, Idle(d), TagInvOf(d),
         server_state_variables' = server_state_variables
  PROVE  TagInvOf(d)'
<1>1. SameClient(d) /\ RequestsShrink(d) /\ \A s \in Servers : replies'[d][s] = replies[d][s]
  BY SameShrinks DEF Idle, RequestsShrink
<1>2. \A s \in Servers : readsOf(s, d)' = readsOf(s, d)
  BY DEF readsOf
<1> QED
  BY <1>1, <1>2, TagFrame

\* A client that does not wait for relays afterwards, and whose operation, if it
\* is in one, has nothing registered.
LEMMA TagNotWaiting ==
  ASSUME NEW c \in Clients, TagInvOf(c), server_state_variables' = server_state_variables,
         ~ IsWaiting(c)',
         \A s \in Servers : \A x \in readsOf(s, c) :
           x.opnum <= Opnum'[c] /\ (c \in busy' => x.opnum # Opnum'[c])
  PROVE  TagInvOf(c)'
<1>1. \A s \in Servers : readsOf(s, c)' = readsOf(s, c)
  BY DEF readsOf
<1>2. \A s \in Servers : \A x \in readsOf(s, c)' : WaitsForTag(c, x)'
  BY <1>1 DEF WaitsForTag
<1> QED
  BY <1>2 DEF TagInvOf, HasTagAskedFor, AsksForTag

\* A client in another phase has nothing registered for its operation.
LEMMA NotWaiting ==
  ASSUME TypeOK, NEW c \in Clients, TagInvOf(c), ~ IsWaiting(c), NEW s \in Servers,
         NEW x \in readsOf(s, c)
  PROVE  x.opnum \in Nat /\ x.opnum <= Opnum[c] /\ (c \in busy => x.opnum # Opnum[c])
<1>1. x \in ReadsInProgress
  BY DEF readsOf, TypeOK, SingleObjServerState
<1> QED
  BY <1>1 DEF ReadsInProgress, TagInvOf, WaitsForTag, IsWaiting

LEMMA StartOperationTag ==
  ASSUME TypeOK, NEW c \in Clients, NEW phase \in FirstPhases,
         NEW payload \in [Servers -> TagValue],
         StartOperation(c, phase, payload), TagInvOf(c)
  PROVE  TagInvOf(c)'
<1>1. /\ c \notin busy /\ Opnum'[c] = Opnum[c] + 1 /\ Phase'[c] = phase
      /\ server_state_variables' = server_state_variables
  BY StartOperationEffect, DataTypes DEF FirstPhases
<1>2. ~ IsWaiting(c) /\ ~ IsWaiting(c)'
  BY <1>1, PhasesDiffer DEF IsWaiting, FirstPhases
<1>3. Opnum[c] \in Nat
  BY DEF TypeOK
<1>4. \A s \in Servers : \A x \in readsOf(s, c) : x.opnum \in Nat /\ x.opnum <= Opnum[c]
  BY <1>2, NotWaiting
<1> QED
  BY <1>1, <1>2, <1>3, <1>4, TagNotWaiting

\* A client that was not waiting, and does not wait afterwards.
LEMMA TagElsewhere ==
  ASSUME TypeOK, NEW c \in Clients, TagInvOf(c), ~ IsWaiting(c), ~ IsWaiting(c)',
         UNCHANGED <<server_state_variables, Opnum>>, c \in busy' => c \in busy
  PROVE  TagInvOf(c)'
BY NotWaiting, TagNotWaiting

\* An operation that ends.
LEMMA TagEnd ==
  ASSUME TypeOK, NEW c \in Clients, TagInvOf(c), c \notin busy',
         UNCHANGED <<server_state_variables, Opnum>>
  PROVE  TagInvOf(c)'
<1>1. ~ IsWaiting(c)'
  BY DEF IsWaiting
<1>2. \A s \in Servers : \A x \in readsOf(s, c) : x.opnum <= Opnum[c]
  BY DEF TagInvOf, WaitsForTag
<1> QED
  BY <1>1, <1>2, TagNotWaiting

LEMMA ReaderAsksForRelaysTag ==
  ASSUME TypeOK, NEW r \in Clients, ReaderAsksForRelays(r), ChannelInvOf(r), TagInvOf(r)
  PROVE  TagInvOf(r)'
<1>1. /\ r \in busy /\ Phase[r] = PRAKIS_GET_TAG_DATA /\ TagValue_var[r] \in TagValue
      /\ EnterPhase(r, PRAKIS_RELAY_DATA, TagValue_var[r])
      /\ SendToServers(r, Opnum[r], PRAKIS_RELAY_DATA, ToAll(TagValue_var[r]))
      /\ UNCHANGED <<server_state_variables, busy, Opnum, incarnation>>
  BY ReaderAsksForRelaysEffect
<1>0. PICK tv : tv = TagValue_var[r] /\ EnterPhase(r, PRAKIS_RELAY_DATA, tv)
  BY <1>1
<1>2. /\ TagValue_var'[r] = TagValue_var[r] /\ \A s \in Servers : replies'[r][s] = <<>>
  BY <1>0, EnterPhaseOwn
<1>3. ASSUME NEW s \in Servers, NEW x \in readsOf(s, r)' PROVE WaitsForTag(r, x)'
  <2>1. x \in readsOf(s, r)
    BY <1>1 DEF readsOf
  <2>2. ~ IsWaiting(r)
    BY <1>1, PhasesDiffer DEF IsWaiting
  <2>3. x.opnum <= Opnum[r] /\ x.opnum # Opnum[r]
    BY <1>1, <2>1, <2>2, NotWaiting
  <2> QED
    BY <1>1, <2>3 DEF WaitsForTag
<1>4. ASSUME NEW s \in Servers, NEW i \in Incarnations, NEW m \in Messages(requests'[r][i][s])
      PROVE  AsksForTag(r, m)'
  <2> DEFINE n == [Opnum |-> Opnum[r], Phase |-> PRAKIS_RELAY_DATA,
                   TagValue_var |-> TagValue_var[r]]
  <2>1. n \in Message /\ SentBy(r, [t \in Servers |-> n])
    <3>1. Opnum[r] \in Nat /\ PRAKIS_RELAY_DATA \in Phases
      BY DataTypes DEF TypeOK
    <3> QED
      BY <1>1, <3>1, Broadcast
  <2>2. n.TagValue_var.Tag_var = TagValue_var'[r].Tag_var
    BY <1>2
  <2> HIDE DEF n
  <2>3. \/ requests'[r][i][s] = requests[r][i][s]
        \/ requests'[r][i][s] = Append(requests[r][i][s], n)
    BY <2>1 DEF SentBy
  <2>4. m \in Messages(requests[r][i][s]) \/ m = n
    <3>1. requests[r][i][s] \in Seq(Message)
      BY DEF TypeOK
    <3>2. Messages(Append(requests[r][i][s], n)) = Messages(requests[r][i][s]) \cup {n}
      BY <2>1, <3>1, SendMessages
    <3> QED
      BY <2>3, <3>2
  <2>5. CASE m \in Messages(requests[r][i][s])
    <3>1. NotFromTheFuture(r, m)
      BY <2>5 DEF ChannelInvOf, InOrder
    <3>2. ~ (m.Opnum = Opnum[r] /\ m.Phase = PRAKIS_RELAY_DATA)
      BY <1>1, <3>1, PhasesDiffer DEF NotFromTheFuture, FirstPhases
    <3> QED
      BY <1>1, <3>2 DEF AsksForTag, Asks
  <2> QED
    BY <2>2, <2>4, <2>5 DEF AsksForTag
<1>5. \A s \in Servers : Messages(replies'[r][s]) = {}
  BY <1>2, EmptyMessages
<1> QED
  BY <1>3, <1>4, <1>5 DEF TagInvOf

LEMMA CollectRelayTag ==
  ASSUME TypeOK, NEW r \in Clients, NEW s \in Servers, CollectRelay(r, s), TagInvOf(r)
  PROVE  TagInvOf(r)' /\ processVars' = processVars
<1> DEFINE tv == Head(replies[r][s]).TagValue_var
<1>1. /\ r \in busy /\ Phase[r] = PRAKIS_RELAY_DATA /\ replies[r][s] # <<>>
      /\ tv \in TagValue
      /\ UNCHANGED <<server_state_variables, Opnum, incarnation>>
      /\ \/ IsSmallerThan(tv.Tag_var, TagValue_var[r].Tag_var)
         \/ busy' = busy \ {r} /\ UNCHANGED processVars
         \/ KeepsRelay(r, s)
  BY CollectRelayEffect
<1>2. ~ IsSmallerThan(tv.Tag_var, TagValue_var[r].Tag_var)
  <2>1. AtLeast(tv.Tag_var, TagValue_var[r].Tag_var)
    BY <1>1, ReceiveType DEF TagInvOf, HasTagAskedFor, IsWaiting
  <2>2. tv.Tag_var \in AnyTag /\ TagValue_var[r].Tag_var \in AnyTag
    BY <1>1, DataTypes DEF TypeOK
  <2> QED
    BY <2>1, <2>2, TagComparisonsAgree DEF AtLeast
<1>3. CASE busy' = busy \ {r} /\ UNCHANGED processVars
  BY <1>1, <1>3, TagEnd
<1>4. CASE KeepsRelay(r, s)
  <2>1. /\ replies' = [replies EXCEPT ![r][s] = Tail(replies[r][s])]
        /\ UNCHANGED <<processVars, busy, Phase, TagValue_var>>
        /\ \/ UNCHANGED requests
           \/ SendToServers(r, Opnum[r], PRAKIS_RELAY_DATA, ToAll(CommitRequest(tv)))
    BY <1>4 DEF KeepsRelay
  <2>2. \A x : WaitsForTag(r, x)' <=> WaitsForTag(r, x)
    BY <1>1, <2>1 DEF WaitsForTag
  <2>3. \A m : HasTagAskedFor(r, m)' <=> HasTagAskedFor(r, m)
    BY <2>1 DEF HasTagAskedFor, IsWaiting
  <2>4. \A m : AsksForTag(r, m)' <=> AsksForTag(r, m)
    BY <1>1, <2>1 DEF AsksForTag, IsWaiting
  <2>5. \A t \in Servers : Messages(replies'[r][t]) \subseteq Messages(replies[r][t])
    <3>1. replies'[r][s] = Tail(replies[r][s])
          /\ \A t \in Servers : t # s => replies'[r][t] = replies[r][t]
      BY <2>1 DEF TypeOK
    <3> QED
      BY <1>1, <3>1, ReceiveType
  <2>6. ASSUME NEW t \in Servers, NEW i \in Incarnations, NEW m \in Messages(requests'[r][i][t])
        PROVE  AsksForTag(r, m)'
    <3> DEFINE n == [Opnum |-> Opnum[r], Phase |-> PRAKIS_RELAY_DATA,
                     TagValue_var |-> CommitRequest(tv)]
    <3>1. requests[r][i][t] \in Seq(Message) /\ Opnum[r] \in Nat /\ PRAKIS_RELAY_DATA \in Phases
          /\ CommitRequest(tv) \in TagValue /\ CommitRequest(tv).ToCommit = TRUE
      <4>1. requests[r][i][t] \in Seq(Message) /\ Opnum[r] \in Nat
        BY DEF TypeOK
      <4> HIDE DEF tv
      <4>2. PRAKIS_RELAY_DATA \in Phases
        BY DataTypes
      <4>3. CommitRequest(tv) \in TagValue /\ CommitRequest(tv).ToCommit = TRUE
        BY <1>1, CommitRequestType
      <4> QED
        BY <4>1, <4>2, <4>3
    <3>2. n \in Message /\ n.TagValue_var.ToCommit = TRUE
      BY <3>1 DEF Message
    <3>3. \/ requests'[r][i][t] = requests[r][i][t]
          \/ requests'[r][i][t] = Append(requests[r][i][t], n)
      <4>1. CASE UNCHANGED requests
        BY <4>1
      <4>2. CASE SendToServers(r, Opnum[r], PRAKIS_RELAY_DATA, ToAll(CommitRequest(tv)))
        BY <3>1, <4>2, Broadcast DEF SentBy
      <4> QED
        BY <2>1, <4>1, <4>2
    <3> HIDE DEF n, tv
    <3>4. m \in Messages(requests[r][i][t]) \/ m = n
      <4>1. Messages(Append(requests[r][i][t], n)) = Messages(requests[r][i][t]) \cup {n}
        BY <3>1, <3>2, SendMessages
      <4> QED
        BY <3>3, <4>1
    <3>5. n \notin Asks(Opnum[r])
      BY <3>2 DEF Asks
    <3> QED
      BY <2>4, <3>4, <3>5 DEF AsksForTag, TagInvOf
  <2>7. \A t \in Servers : readsOf(t, r)' = readsOf(t, r)
    BY <1>1 DEF readsOf
  <2> QED
    BY <2>1, <2>2, <2>3, <2>5, <2>6, <2>7 DEF TagInvOf
<1> QED
  BY <1>1, <1>2, <1>3, <1>4

\* What server s sends and registers is about the tag that is asked for.
SendsWanted(s, c, A, B, reads) ==
  /\ \A d \in Clients : \A a \in A[d] \cup B[d] : a \in Message /\ HasTagAskedFor(d, a)
  /\ \A x \in reads : \/ x \in server_state_variables[s].readsInProgress
                      \/ x.reader_name = c /\ WaitsForTag(c, x)

\* A registered read is relayed what is at least its tag.
LEMMA RelaysHaveTag ==
  ASSUME NEW st \in SingleObjServerState, NEW tag \in AnyTag, NEW opnum,
         \A x \in st.readsInProgress : WaitsForTag(x.reader_name, x),
         NEW d \in Clients, NEW a \in Relays(st, tag, opnum)[d]
  PROVE  a \in Message /\ HasTagAskedFor(d, a)
<1>1. /\ a \in Message /\ isWriteInProgress(st, tag, opnum)
      /\ a.TagValue_var = Committed(st, tag, opnum)
      /\ \E x \in st.readsInProgress :
           x.reader_name = d /\ x.opnum = Opnum[d] /\ IsServed(x, tag)
  BY DEF Relays
<1>2. a.TagValue_var.Tag_var = tag
  BY <1>1, CommittedType
<1>3. IsWaiting(d) => AtLeast(tag, TagValue_var[d].Tag_var)
  BY <1>1 DEF WaitsForTag, IsServed, AtLeast, IsWaiting
<1> QED
  BY <1>1, <1>2, <1>3 DEF HasTagAskedFor

LEMMA AnswersHaveTag ==
  ASSUME NEW c, NEW i, NEW m, NEW a \in Message, NEW d \in Clients,
         a.Phase = PRAKIS_RELAY_DATA => HasTagAskedFor(c, a) \/ m \notin Current(c),
         NEW b \in Answers(c, i, m, a)[d]
  PROVE  b \in Message /\ HasTagAskedFor(d, b)
BY DEF Answers, HasTagAskedFor, Current, IsWaiting

LEMMA ServerStepTag ==
  ASSUME TypeOK, ChannelInv, TagInv, NEW s \in Servers, NEW c \in Clients,
         NEW i \in Incarnations, ServerStep(s, c, i)
  PROVE  \E st2, A, B : Handled(s, st2, A, B) /\ SendsWanted(s, c, A, B, st2.readsInProgress)
<1> DEFINE m == Head(requests[c][i][s])
           st == server_state_variables[s]
           tv == m.TagValue_var
<1>1. /\ m \in Message /\ m \in Messages(requests[c][i][s])
      /\ st \in SingleObjServerState
      /\ \/ putDataResp(s, st, c, i, m)
         \/ putDataRespFinalized(s, st, c, i, m)
         \/ putTagResp(s, st, c, i, m)
         \/ getTagDataResp(s, st, c, i, m)
         \/ commitForReader(s, st, m)
         \/ registerRead(s, st, c, i, m)
         \/ readCompleteResp(s, st, c, m)
  BY StepMessage
<1>2. /\ NotFromTheFuture(c, m) /\ AsksForTag(c, m)
      /\ \A x \in st.readsInProgress : WaitsForTag(x.reader_name, x)
  <2>1. NotFromTheFuture(c, m) /\ AsksForTag(c, m)
    BY <1>1 DEF ChannelInv, ChannelInvOf, InOrder, TagInv, TagInvOf
  <2>2. ASSUME NEW x \in st.readsInProgress PROVE WaitsForTag(x.reader_name, x)
    <3>1. x.reader_name \in Clients /\ x \in readsOf(s, x.reader_name)
      BY <1>1, <2>2 DEF readsOf, SingleObjServerState, ReadsInProgress
    <3> QED
      BY <3>1 DEF TagInv, TagInvOf
  <2> QED
    BY <2>1, <2>2
<1> HIDE DEF m
<1>3. tv.Tag_var \in AnyTag /\ tv.Opnum \in Nat /\ tv \in TagValue
  BY <1>1, MessageType
<1>4. ASSUME NEW st2, NEW A, NEW B, Handled(s, st2, A, B),
             \A d \in Clients : \A a \in A[d] : a \in Message /\ HasTagAskedFor(d, a),
             \A d \in Clients : \A a \in B[d] : a \in Message /\ HasTagAskedFor(d, a),
             \A x \in st2.readsInProgress : \/ x \in st.readsInProgress
                                            \/ x.reader_name = c /\ WaitsForTag(c, x)
      PROVE  \E st3, A3, B3 :
               Handled(s, st3, A3, B3) /\ SendsWanted(s, c, A3, B3, st3.readsInProgress)
  <2>1. SendsWanted(s, c, A, B, st2.readsInProgress)
    BY <1>4 DEF SendsWanted
  <2> QED
    BY <1>4, <2>1
<1>5. \A d \in Clients : Nothing[d] = {}
  BY DEF Nothing
<1>6. ASSUME NEW a \in Message, a.Phase # PRAKIS_RELAY_DATA
      PROVE  \A d \in Clients : \A b \in Answers(c, i, m, a)[d] :
               b \in Message /\ HasTagAskedFor(d, b)
  BY <1>6, AnswersHaveTag
<1>7. CASE putDataResp(s, st, c, i, m)
  <2> DEFINE a == [m EXCEPT !.TagValue_var = TagOnly(nextTag(st, tv), 0)]
             put == [tv EXCEPT !.Tag_var = nextTag(st, tv)]
             no == FALSE
             st2 == SetEntry(st, tv.Tag_var, tv.Opnum, put, no)
  <2>1. Handled(s, st2, Nothing, Answers(c, i, m, a)) /\ m.Phase = PRAKIS_PUT_DATA
        /\ put \in TagValue
    BY <1>1, <1>7, PutDataHandled
  <2>2. TagOnly(nextTag(st, tv), 0) \in TagValue
    BY <1>1, <1>3, NextTagType, DataTypes
  <2>3. a \in Message /\ a.Phase # PRAKIS_RELAY_DATA
    BY <1>1, <2>1, <2>2, MessageType, PhasesDiffer
  <2> HIDE DEF put, a
  <2>4. no \in BOOLEAN
    OBVIOUS
  <2> HIDE DEF no, tv
  <2>5. st2.readsInProgress = st.readsInProgress
    BY <1>1, <1>3, <2>1, <2>4, SetEntryType
  <2> HIDE DEF st2
  <2> QED
    BY <1>4, <1>5, <1>6, <2>1, <2>3, <2>5
<1>8. CASE putDataRespFinalized(s, st, c, i, m)
  <2>1. PICK put \in SingleObjServerState :
          /\ put.readsInProgress = st.readsInProgress
          /\ Handled(s, commitTag(put, tv.Tag_var, tv.Opnum),
                     Relays(put, tv.Tag_var, tv.Opnum), Nothing)
    BY <1>1, <1>8, LatePutHandled
  <2> HIDE DEF tv
  <2>2. commitTag(put, tv.Tag_var, tv.Opnum).readsInProgress = st.readsInProgress
    BY <1>3, <2>1, CommitTagType
  <2>3. \A d \in Clients : \A a \in Relays(put, tv.Tag_var, tv.Opnum)[d] :
          a \in Message /\ HasTagAskedFor(d, a)
    BY <1>2, <1>3, <2>1, RelaysHaveTag
  <2> QED
    BY <1>4, <1>5, <2>1, <2>2, <2>3
<1>9. CASE putTagResp(s, st, c, i, m)
  <2> DEFINE a == [m EXCEPT !.TagValue_var = TagOnly(ZeroTag, 0)]
             st2 == commitTag(st, tv.Tag_var, tv.Opnum)
             A == Relays(st, tv.Tag_var, tv.Opnum)
  <2>1. Handled(s, st2, A, Answers(c, i, m, a)) /\ m.Phase = PRAKIS_PUT_TAG
    BY <1>1, <1>9, PutTagHandled
  <2>2. a \in Message /\ a.Phase # PRAKIS_RELAY_DATA
    BY <1>1, <2>1, MessageType, DataTypes, PhasesDiffer
  <2> HIDE DEF a, tv
  <2>3. st2.readsInProgress = st.readsInProgress
    BY <1>1, <1>3, CommitTagType
  <2>4. \A d \in Clients : \A b \in A[d] : b \in Message /\ HasTagAskedFor(d, b)
    BY <1>1, <1>2, <1>3, RelaysHaveTag
  <2> HIDE DEF st2, A
  <2> QED
    BY <1>4, <1>6, <2>1, <2>2, <2>3, <2>4
<1>10. CASE getTagDataResp(s, st, c, i, m)
  <2> DEFINE a == [m EXCEPT !.TagValue_var = st.tagCodedElement_var]
  <2>1. Handled(s, st, Nothing, Answers(c, i, m, a)) /\ m.Phase = PRAKIS_GET_TAG_DATA
    BY <1>1, <1>10, GetTagDataHandled
  <2>2. st.tagCodedElement_var \in TagValue
    BY <1>1 DEF SingleObjServerState
  <2>3. a \in Message /\ a.Phase # PRAKIS_RELAY_DATA
    BY <1>1, <2>1, <2>2, MessageType, PhasesDiffer
  <2> HIDE DEF a, st
  <2> QED
    BY <1>4, <1>5, <1>6, <2>1, <2>3
<1>11. CASE commitForReader(s, st, m)
  <2> DEFINE st2 == commitTag(st, tv.Tag_var, tv.Opnum)
             A == Relays(st, tv.Tag_var, tv.Opnum)
  <2>1. Handled(s, st2, A, Nothing)
    BY <1>1, <1>11, CommitHandled
  <2> HIDE DEF tv
  <2>3. st2.readsInProgress = st.readsInProgress
    BY <1>1, <1>3, CommitTagType
  <2>4. \A d \in Clients : \A b \in A[d] : b \in Message /\ HasTagAskedFor(d, b)
    BY <1>1, <1>2, <1>3, RelaysHaveTag
  <2> HIDE DEF st2, A
  <2> QED
    BY <1>4, <1>5, <2>1, <2>3, <2>4
<1>12. CASE registerRead(s, st, c, i, m)
  <2> DEFINE new == registered(st, c, i, m)
             a == [m EXCEPT !.TagValue_var = st.tagCodedElement_var]
             A == Relays(new, tv.Tag_var, tv.Opnum)
             st2 == commitTag(new, tv.Tag_var, tv.Opnum)
  <2>1. /\ m.Phase = PRAKIS_RELAY_DATA /\ ~ tv.ToCommit
        /\ \/ Handled(s, st2, A, Nothing)
           \/ /\ AnswersNow(st, tv.Tag_var)
              /\ Handled(s, st2, A, Answers(c, i, m, a))
    BY <1>1, <1>12, RegisterHandled
  <2>2. st.tagCodedElement_var \in TagValue
    BY <1>1 DEF SingleObjServerState
  <2>3. a \in Message /\ a.Phase = PRAKIS_RELAY_DATA
        /\ a.TagValue_var.Tag_var = st.tagCodedElement_var.Tag_var
    BY <1>1, <2>1, <2>2, MessageType
  <2>4. WaitsForTag(c, NewRead(c, i, m)) /\ NewRead(c, i, m).reader_name = c
    <3>1. /\ NewRead(c, i, m).opnum = m.Opnum /\ NewRead(c, i, m).reader_name = c
          /\ NewRead(c, i, m).tag_request = tv.Tag_var
      BY DEF NewRead
    <3>2. /\ m.Opnum <= Opnum[c]
          /\ c \in busy /\ m.Opnum = Opnum[c] => Phase[c] = PRAKIS_RELAY_DATA
      BY <1>2, <2>1, PhasesDiffer DEF NotFromTheFuture, FirstPhases
    <3>3. IsWaiting(c) /\ m.Opnum = Opnum[c] => tv.Tag_var = TagValue_var[c].Tag_var
      BY <1>1, <1>2, <2>1 DEF AsksForTag, Asks
    <3> QED
      BY <3>1, <3>2, <3>3 DEF WaitsForTag, IsWaiting
  <2>5. /\ new \in SingleObjServerState
        /\ new.readsInProgress = OtherReads(st, c, m.Opnum) \cup {NewRead(c, i, m)}
    BY <1>1, RegisteredType
  <2>6. AnswersNow(st, tv.Tag_var) => HasTagAskedFor(c, a) \/ m \notin Current(c)
    <3>1. m \in Current(c) => IsWaiting(c) /\ m \in Asks(Opnum[c])
      BY <1>1, <2>1 DEF Current, IsWaiting, Asks
    <3>2. m \in Current(c) => tv.Tag_var = TagValue_var[c].Tag_var
      BY <1>2, <3>1 DEF AsksForTag
    <3> QED
      BY <2>3, <3>2 DEF AnswersNow, AtLeast, HasTagAskedFor
  <2> HIDE DEF new, a, tv
  <2>7. st2.readsInProgress = new.readsInProgress
    BY <1>3, <2>5, CommitTagType
  <2>8. \A x \in new.readsInProgress : \/ x \in st.readsInProgress
                                       \/ x.reader_name = c /\ WaitsForTag(c, x)
    BY <2>4, <2>5 DEF OtherReads
  <2>9. \A x \in new.readsInProgress : WaitsForTag(x.reader_name, x)
    BY <1>2, <2>8
  <2>10. \A d \in Clients : \A b \in A[d] : b \in Message /\ HasTagAskedFor(d, b)
    BY <1>3, <2>5, <2>9, RelaysHaveTag
  <2>11. AnswersNow(st, tv.Tag_var) =>
           \A d \in Clients : \A b \in Answers(c, i, m, a)[d] :
             b \in Message /\ HasTagAskedFor(d, b)
    BY <2>3, <2>6, AnswersHaveTag
  <2> HIDE DEF st2, A
  <2>12. CASE Handled(s, st2, A, Nothing)
    BY <1>4, <1>5, <2>7, <2>8, <2>10, <2>12
  <2>13. CASE AnswersNow(st, tv.Tag_var) /\ Handled(s, st2, A, Answers(c, i, m, a))
    BY <1>4, <2>7, <2>8, <2>10, <2>11, <2>13
  <2> QED
    BY <2>1, <2>12, <2>13 DEF tv
<1>13. CASE readCompleteResp(s, st, c, m)
  <2> DEFINE st2 == [st EXCEPT !.readsInProgress = OtherReads(st, c, m.Opnum)]
  <2>1. Handled(s, st2, Nothing, Nothing)
        /\ st2.readsInProgress = OtherReads(st, c, m.Opnum)
    BY <1>1, <1>13, ReadCompleteHandled
  <2> HIDE DEF st2
  <2>2. \A x \in st2.readsInProgress : x \in st.readsInProgress
    BY <2>1 DEF OtherReads
  <2> QED
    BY <1>4, <1>5, <2>1, <2>2
<1> QED
  BY <1>1, <1>7, <1>8, <1>9, <1>10, <1>11, <1>12, <1>13

LEMMA ServerStepTagInv ==
  ASSUME TypeOK, ChannelInv, TagInv, NEW s \in Servers, NEW c \in Clients,
         NEW i \in Incarnations, ServerStep(s, c, i)
  PROVE  TagInv'
<1>1. PICK st2, A, B : Handled(s, st2, A, B) /\ SendsWanted(s, c, A, B, st2.readsInProgress)
  BY ServerStepTag
<1>2. ASSUME NEW d \in Clients PROVE TagInvOf(d)'
  <2>1. SameClient(d) /\ RequestsShrink(d) /\ TagInvOf(d)
    BY ServerStepEffect DEF TagInv
  <2>2. ASSUME NEW t \in Servers, NEW x \in readsOf(t, d)'
        PROVE  x \in readsOf(t, d) \/ WaitsForTag(d, x)
    <3>1. CASE t = s
      <4>1. x \in st2.readsInProgress /\ x.reader_name = d
        BY <1>1, <2>2, <3>1 DEF readsOf, Handled
      <4> QED
        BY <1>1, <3>1, <4>1 DEF readsOf, SendsWanted
    <3>2. CASE t # s
      BY <1>1, <2>2, <3>2 DEF readsOf, Handled
    <3> QED
      BY <3>1, <3>2
  <2>3. ASSUME NEW t \in Servers, NEW m \in Messages(replies'[d][t])
        PROVE  m \in Messages(replies[d][t]) \/ HasTagAskedFor(d, m)
    <3>1. CASE t = s
      <4>1. /\ Sends(d, s, A[d], B[d]) /\ A[d] \subseteq Message /\ B[d] \subseteq Message
            /\ \A a \in A[d] \cup B[d] : HasTagAskedFor(d, a)
        BY <1>1 DEF Handled, SendsWanted
      <4>2. m \in Messages(replies[d][s]) \cup A[d] \cup B[d]
        BY <2>3, <3>1, <4>1, SendsMessages
      <4> QED
        BY <3>1, <4>1, <4>2
    <3>2. CASE t # s
      <4>1. replies'[d][t] = replies[d][t]
        BY <1>1, <3>2 DEF Handled
      <4> QED
        BY <2>3, <4>1
    <3> QED
      BY <3>1, <3>2
  <2> QED
    BY <2>1, <2>2, <2>3, TagFrame
<1> QED
  BY <1>2 DEF TagInv

LEMMA TagStep == TInv /\ [Next]_vars => TInv'
<1> SUFFICES ASSUME TInv, [Next]_vars PROVE TInv'
  OBVIOUS
<1>1. TypeOK /\ ChannelInv /\ TagInv /\ TypeOK' /\ ChannelInv' /\ ReaderGetsRequestedTag
  BY TypeStep, ChannelStep DEF TInv
<1>2. SUFFICES TagInv' /\ "a tag less than requested tag" \notin panics'
  BY <1>1 DEF TInv, ReaderGetsRequestedTag
<1>3. CASE UNCHANGED vars
  <2>1. \A d \in Clients : Idle(d)
    BY <1>3 DEF vars, phaseVars, netVars, historyVars, Idle, SameClient
  <2> QED
    BY <1>1, <1>3, <2>1, TagIdle DEF TagInv, vars, processVars, ReaderGetsRequestedTag
<1>4. ASSUME NEW c \in Clients, ClientStep(c)
      PROVE  TagInv' /\ "a tag less than requested tag" \notin panics'
  <2>1. TagInvOf(c) /\ ChannelInvOf(c)
    BY <1>1 DEF TagInv, ChannelInv
  <2>2. ASSUME server_state_variables' = server_state_variables,
               \A d \in Clients : d # c => Idle(d), TagInvOf(c)'
        PROVE  TagInv'
    BY <1>1, <2>2, TagIdle DEF TagInv
  <2>3. CASE StartRead(c) \/ StartWrite(c)
    <3>1. PICK phase \in FirstPhases, payload \in [Servers -> TagValue] :
            StartOperation(c, phase, payload)
      BY <1>1, <2>3, StartType DEF FirstPhases
    <3>2. phase \in Phases
      BY DataTypes DEF FirstPhases
    <3>3. /\ UNCHANGED <<server_state_variables, processVars>>
          /\ \A d \in Clients : d # c => Idle(d)
      BY <1>1, <3>1, <3>2, StartOperationEffect
    <3> QED
      BY <1>1, <2>1, <2>2, <3>1, <3>3, StartOperationTag DEF processVars, ReaderGetsRequestedTag
  <2>4. ASSUME NEW s \in Servers, CollectReply(c, s)
        PROVE  TagInv' /\ "a tag less than requested tag" \notin panics'
    <3>1. /\ Phase[c] # PRAKIS_RELAY_DATA
          /\ UNCHANGED <<server_state_variables, busy, Opnum, Phase>>
          /\ UNCHANGED processVars \/ panics' = panics \cup {"Unexpected client Id"}
          /\ \A d \in Clients : d # c => Idle(d)
      BY <1>1, <2>4, CollectReplyEffect
    <3>2. TagInvOf(c)'
      BY <1>1, <2>1, <3>1, TagElsewhere DEF IsWaiting
    <3> QED
      BY <1>1, <2>2, <3>1, <3>2 DEF processVars, ReaderGetsRequestedTag
  <2>5. ASSUME NEW s \in Servers, CollectRelay(c, s)
        PROVE  TagInv' /\ "a tag less than requested tag" \notin panics'
    <3>1. /\ server_state_variables' = server_state_variables
          /\ \A d \in Clients : d # c => Idle(d)
      BY <1>1, <2>5, CollectRelayEffect
    <3> QED
      BY <1>1, <2>1, <2>2, <2>5, <3>1, CollectRelayTag DEF processVars, ReaderGetsRequestedTag
  <2>6. CASE WriterPutsTag(c)
    <3>1. /\ Phase[c] = PRAKIS_PUT_DATA
          /\ EnterPhase(c, PRAKIS_PUT_TAG, TagOnly(TagValue_var[c].Tag_var, Opnum[c]))
          /\ UNCHANGED <<server_state_variables, processVars, busy, Opnum>>
          /\ \A d \in Clients : d # c => Idle(d)
      BY <1>1, <2>6, WriterPutsTagEffect
    <3>2. ~ IsWaiting(c) /\ ~ IsWaiting(c)'
      BY <1>1, <3>1, PhasesDiffer, EnterPhaseEffect DEF IsWaiting
    <3>3. TagInvOf(c)'
      BY <1>1, <2>1, <3>1, <3>2, TagElsewhere
    <3> QED
      BY <1>1, <2>2, <3>1, <3>3 DEF processVars, ReaderGetsRequestedTag
  <2>7. CASE PutTagCompletes(c)
    <3>1. /\ UNCHANGED <<server_state_variables, processVars, Opnum>> /\ busy' = busy \ {c}
          /\ \A d \in Clients : d # c => Idle(d)
      BY <1>1, <2>7, PutTagCompletesEffect
    <3>2. TagInvOf(c)'
      BY <1>1, <2>1, <3>1, TagEnd
    <3> QED
      BY <1>1, <2>2, <3>1, <3>2 DEF processVars, ReaderGetsRequestedTag
  <2>8. CASE ReaderAsksForRelays(c)
    <3>1. /\ UNCHANGED <<server_state_variables, processVars>>
          /\ \A d \in Clients : d # c => Idle(d)
      BY <1>1, <2>8, ReaderAsksForRelaysEffect
    <3>2. TagInvOf(c)'
      BY <1>1, <2>1, <2>8, ReaderAsksForRelaysTag
    <3> QED
      BY <1>1, <2>2, <3>1, <3>2 DEF processVars, ReaderGetsRequestedTag
  <2>9. CASE ReadInOnePhase(c)
    <3>1. /\ Phase[c] = PRAKIS_GET_TAG_DATA
          /\ UNCHANGED <<server_state_variables, Opnum>>
          /\ \/ busy' = busy \ {c} /\ UNCHANGED processVars
             \/ /\ panics' = panics \cup {"exactly K coded blocks"}
                /\ UNCHANGED <<busy, phaseVars>>
          /\ \A d \in Clients : d # c => Idle(d)
      BY <1>1, <2>9, ReadInOnePhaseEffect
    <3>2. TagInvOf(c)'
      <4>1. CASE busy' = busy \ {c}
        BY <1>1, <2>1, <3>1, <4>1, TagEnd
      <4>2. CASE UNCHANGED <<busy, phaseVars>>
        BY <1>1, <2>1, <3>1, <4>2, TagElsewhere, PhasesDiffer DEF IsWaiting, phaseVars
      <4> QED
        BY <3>1, <4>1, <4>2
    <3> QED
      BY <1>1, <2>2, <3>1, <3>2 DEF processVars, ReaderGetsRequestedTag
  <2>10. CASE emulateNewClient(c)
    <3>1. /\ c \notin busy /\ UNCHANGED <<server_state_variables, processVars, busy, Opnum>>
          /\ \A d \in Clients : d # c => Idle(d)
      BY <1>1, <2>10, EmulateEffect
    <3>2. TagInvOf(c)'
      BY <1>1, <2>1, <3>1, TagEnd
    <3> QED
      BY <1>1, <2>2, <3>1, <3>2 DEF processVars, ReaderGetsRequestedTag
  <2> QED
    BY <1>4, <2>3, <2>4, <2>5, <2>6, <2>7, <2>8, <2>9, <2>10 DEF ClientStep
<1>5. ASSUME NEW s \in Servers, NEW c \in Clients, NEW i \in Incarnations,
             ServerStep(s, c, i)
      PROVE  TagInv' /\ "a tag less than requested tag" \notin panics'
  BY <1>1, <1>5, ServerStepTagInv, ServerStepEffect DEF processVars, ReaderGetsRequestedTag
<1>6. ASSUME NEW s \in Servers, KillServer(s)
      PROVE  TagInv' /\ "a tag less than requested tag" \notin panics'
  <2>1. UNCHANGED <<server_state_variables, panics>> /\ \A d \in Clients : Idle(d)
    BY <1>1, <1>6, KillServerEffect
  <2> QED
    BY <1>1, <2>1, TagIdle DEF TagInv, ReaderGetsRequestedTag
<1> QED
  BY <1>3, <1>4, <1>5, <1>6, <1>1 DEF Next, AllDone

\* No read is sent an element older than the tag it asked for, whatever messages
\* are lost and whatever servers are killed: the os.Exit(9) of relayDataPrakis
\* (list_based_algos.go 200-205) is unreachable.
THEOREM RequestedTagIsServed == Spec => []ReaderGetsRequestedTag
<1>1. Init => TInv
  BY TypeInit, ChannelInit, TagInit DEF TInv
<1>2. TInv => ReaderGetsRequestedTag
  BY DEF TInv
<1> QED
  BY <1>1, <1>2, TagStep, PTL DEF Spec

-----------------------------------------------------------------------------
(* Registrations, when no request is lost *)

\* Positions after a send and after a receive.
LEMMA AppendPositions ==
  ASSUME NEW T, NEW q \in Seq(T), NEW m \in T
  PROVE  /\ Len(q) \in Nat /\ Len(Append(q, m)) = Len(q) + 1
         /\ Append(q, m)[Len(q) + 1] = m
         /\ \A k \in 1..Len(q) : Append(q, m)[k] = q[k]
OBVIOUS

LEMMA TailPositions ==
  ASSUME NEW T, NEW q \in Seq(T), q # <<>>
  PROVE  /\ Len(Tail(q)) = Len(q) - 1 /\ Len(q) \in Nat /\ Len(q) >= 1 /\ Head(q) = q[1]
         /\ \A k \in 1..(Len(q) - 1) : Tail(q)[k] = q[k + 1] /\ k + 1 \in 1..Len(q)
         /\ \A k \in 2..Len(q) : k - 1 \in 1..(Len(q) - 1) /\ Tail(q)[k - 1] = q[k]
OBVIOUS

\* What follows a position still does after a send, and the message that is sent
\* follows every other.
LEMMA EndsAfterSend ==
  ASSUME NEW q \in Seq(Message), NEW m \in Message, NEW k \in 0..Len(q), NEW o,
         EndsAfter(q, k, o) \/ m \in Ends(o)
  PROVE  EndsAfter(Append(q, m), k, o)
<1> DEFINE p == Append(q, m)
<1>1. /\ Len(q) \in Nat /\ Len(p) = Len(q) + 1 /\ p[Len(q) + 1] = m
      /\ \A l \in 1..Len(q) : p[l] = q[l]
  BY AppendPositions
<1> HIDE DEF p
<1>2. CASE EndsAfter(q, k, o)
  <2>1. PICK l \in 1..Len(q) : k < l /\ q[l] \in Ends(o)
    BY <1>2 DEF EndsAfter
  <2>2. l \in 1..Len(p) /\ p[l] \in Ends(o)
    BY <1>1, <2>1
  <2>3. EndsAfter(p, k, o)
    BY <2>1, <2>2 DEF EndsAfter
  <2> QED
    BY <2>3 DEF p
<1>3. CASE m \in Ends(o)
  <2>1. Len(q) + 1 \in 1..Len(p) /\ k < Len(q) + 1 /\ p[Len(q) + 1] \in Ends(o)
    BY <1>1, <1>3
  <2>2. EndsAfter(p, k, o)
    BY <2>1 DEF EndsAfter
  <2> QED
    BY <2>2 DEF p
<1> QED
  BY <1>2, <1>3

\* After a receive, what followed a position follows the one before it.
LEMMA EndsAfterReceive ==
  ASSUME NEW q \in Seq(Message), q # <<>>, NEW k \in Nat, NEW o, EndsAfter(q, k, o),
         k = 0 => Head(q) \notin Ends(o)
  PROVE  EndsAfter(Tail(q), IF k = 0 THEN 0 ELSE k - 1, o)
<1> DEFINE p == Tail(q)
           j == IF k = 0 THEN 0 ELSE k - 1
<1>1. /\ Len(p) = Len(q) - 1 /\ Len(q) \in Nat /\ Len(q) >= 1 /\ Head(q) = q[1]
      /\ \A l \in 2..Len(q) : l - 1 \in 1..(Len(q) - 1) /\ p[l - 1] = q[l]
  BY TailPositions
<1>2. PICK l \in 1..Len(q) : k < l /\ q[l] \in Ends(o)
  BY DEF EndsAfter
<1> HIDE DEF p
<1>3. l \in 2..Len(q)
  BY <1>1, <1>2
<1>4. l - 1 \in 1..Len(p) /\ p[l - 1] \in Ends(o) /\ j < l - 1
  BY <1>1, <1>2, <1>3
<1> HIDE DEF j
<1>5. EndsAfter(p, j, o)
  BY <1>4 DEF EndsAfter
<1> QED
  BY <1>5 DEF p, j

\* RegInvOf, for one socket.
AskedFor(r, i, o, q) ==
  \A k \in 1..Len(q) : q[k] \in Asks(o) => Underway(r, i, o) \/ EndsAfter(q, k, o)

LEMMA RegInvAtEach ==
  ASSUME NEW r
  PROVE  RegInvOf(r) <=>
           \A s \in Servers :
             /\ \A i \in Incarnations : \A o : AskedFor(r, i, o, requests[r][i][s])
             /\ \A x \in readsOf(s, r) :
                  \/ Underway(r, x.zmq_identity, x.opnum)
                  \/ EndsAfter(requests[r][x.zmq_identity][s], 0, x.opnum)
<1>1. ASSUME NEW i, NEW q
      PROVE  (\A k \in 1..Len(q) : \A o \in {q[k].Opnum} :
                q[k] \in Asks(o) => Underway(r, i, o) \/ EndsAfter(q, k, o))
             <=> \A o : AskedFor(r, i, o, q)
  BY DEF AskedFor, Asks
<1> QED
  BY <1>1 DEF RegInvOf

\* Nothing on the socket, and nothing registered for it, is of operation o.
NoneOf(r, i, s, o) ==
  /\ Messages(requests[r][i][s]) \cap Asks(o) = {}
  /\ \A x \in readsOf(s, r) : ~ (x.zmq_identity = i /\ x.opnum = o)

\* A client sends, and an operation that ends says so.
LEMMA RegSend ==
  ASSUME TypeOK, NEW c \in Clients, RegInvOf(c), NEW n \in [Servers -> Message],
         server_state_variables' = server_state_variables,
         \A i \in Incarnations, s \in Servers :
           \/ /\ requests'[c][i][s] = requests[c][i][s]
              /\ \A o \in Nat : Underway(c, i, o) => Underway(c, i, o)' \/ NoneOf(c, i, s, o)
           \/ /\ requests'[c][i][s] = Append(requests[c][i][s], n[s])
              /\ \A o \in Nat : n[s] \in Asks(o) => Underway(c, i, o)'
              /\ \A o \in Nat : Underway(c, i, o) =>
                   \/ Underway(c, i, o)' \/ n[s] \in Ends(o) \/ NoneOf(c, i, s, o)
  PROVE  RegInvOf(c)'
<1>1. \A s \in Servers :
        /\ \A i \in Incarnations : \A o : AskedFor(c, i, o, requests[c][i][s])
        /\ \A x \in readsOf(s, c) :
             \/ Underway(c, x.zmq_identity, x.opnum)
             \/ EndsAfter(requests[c][x.zmq_identity][s], 0, x.opnum)
  BY RegInvAtEach
<1>2. ASSUME NEW i \in Incarnations, NEW s \in Servers, NEW o \in Nat
      PROVE  /\ AskedFor(c, i, o, requests[c][i][s])'
             /\ \A x \in readsOf(s, c)' : x.zmq_identity = i /\ x.opnum = o =>
                  Underway(c, i, o)' \/ EndsAfter(requests'[c][i][s], 0, o)
  <2> DEFINE q == requests[c][i][s]
             p == requests'[c][i][s]
  <2>1. q \in Seq(Message) /\ n[s] \in Message /\ Len(q) \in Nat /\ readsOf(s, c)' = readsOf(s, c)
    BY DEF TypeOK, readsOf
  <2>2. /\ \A k \in 1..Len(q) : q[k] \in Asks(o) => Underway(c, i, o) \/ EndsAfter(q, k, o)
        /\ \A x \in readsOf(s, c) : x.zmq_identity = i /\ x.opnum = o =>
             Underway(c, i, o) \/ EndsAfter(q, 0, o)
    BY <1>1 DEF AskedFor
  <2>3. NoneOf(c, i, s, o) =>
          /\ \A k \in 1..Len(q) : q[k] \notin Asks(o)
          /\ \A x \in readsOf(s, c) : ~ (x.zmq_identity = i /\ x.opnum = o)
    BY DEF NoneOf, Messages
  <2>4. CASE /\ p = q
             /\ Underway(c, i, o) => Underway(c, i, o)' \/ NoneOf(c, i, s, o)
    <3>1. \A k \in 1..Len(p) : p[k] \in Asks(o) => Underway(c, i, o)' \/ EndsAfter(p, k, o)
      BY <2>2, <2>3, <2>4
    <3>2. \A x \in readsOf(s, c) : x.zmq_identity = i /\ x.opnum = o =>
             Underway(c, i, o)' \/ EndsAfter(p, 0, o)
      BY <2>2, <2>3, <2>4
    <3>3. AskedFor(c, i, o, q)'
      BY <3>1 DEF AskedFor, Asks, EndsAfter, Ends
    <3> QED
      BY <2>1, <3>2, <3>3
  <2>5. CASE /\ p = Append(q, n[s])
             /\ n[s] \in Asks(o) => Underway(c, i, o)'
             /\ Underway(c, i, o) =>
                  Underway(c, i, o)' \/ n[s] \in Ends(o) \/ NoneOf(c, i, s, o)
    <3>0. PICK e \in Message : e = n[s] /\ p = Append(q, e)
      BY <2>1, <2>5
    <3>1. /\ Len(p) = Len(q) + 1 /\ p[Len(q) + 1] = n[s] /\ \A k \in 1..Len(q) : p[k] = q[k]
      <4>1. /\ Len(Append(q, e)) = Len(q) + 1 /\ Append(q, e)[Len(q) + 1] = e
            /\ \A k \in 1..Len(q) : Append(q, e)[k] = q[k]
        BY <2>1, AppendPositions
      <4> QED
        BY <3>0, <4>1
    <3>2. \A k \in 0..Len(q) : EndsAfter(q, k, o) \/ n[s] \in Ends(o) => EndsAfter(p, k, o)
      BY <2>1, <2>5, EndsAfterSend
    <3>3. ASSUME NEW k \in 1..Len(p), p[k] \in Asks(o)
          PROVE  Underway(c, i, o)' \/ EndsAfter(p, k, o)
      <4>1. CASE k = Len(q) + 1
        BY <2>5, <3>1, <3>3, <4>1
      <4>2. CASE k # Len(q) + 1
        <5>0. Len(q) \in Nat /\ k \in 1..(Len(q) + 1)
          BY <2>1, <3>1
        <5>1. k \in 1..Len(q) /\ k \in 0..Len(q)
          BY <4>2, <5>0
        <5>2. q[k] \in Asks(o)
          BY <3>1, <3>3, <5>1
        <5> QED
          BY <2>2, <2>3, <2>5, <3>2, <5>1, <5>2
      <4> QED
        BY <4>1, <4>2
    <3>4. 0 \in 0..Len(q)
      BY <2>1
    <3>5. \A x \in readsOf(s, c) : x.zmq_identity = i /\ x.opnum = o =>
             Underway(c, i, o)' \/ EndsAfter(p, 0, o)
      BY <2>2, <2>3, <2>5, <3>2, <3>4
    <3>6. AskedFor(c, i, o, q)'
      BY <3>3 DEF AskedFor, Asks, EndsAfter, Ends
    <3> QED
      BY <2>1, <3>5, <3>6
  <2> QED
    BY <2>4, <2>5
<1>3. ASSUME NEW i \in Incarnations, NEW s \in Servers
      PROVE  \A o : AskedFor(c, i, o, requests[c][i][s])'
  <2>1. \A o : o \notin Nat => Asks(o)' = {}
    BY DEF Asks, Message
  <2> QED
    BY <1>2, <2>1 DEF AskedFor
<1>4. ASSUME NEW s \in Servers, NEW x \in readsOf(s, c)'
      PROVE  \/ Underway(c, x.zmq_identity, x.opnum)'
             \/ EndsAfter(requests[c][x.zmq_identity][s], 0, x.opnum)'
  <2>1. x \in ReadsInProgress
    BY <1>4 DEF readsOf, TypeOK, SingleObjServerState
  <2>2. x.zmq_identity \in Incarnations /\ x.opnum \in Nat
    BY <2>1 DEF ReadsInProgress
  <2>3. Underway(c, x.zmq_identity, x.opnum)' \/ EndsAfter(requests'[c][x.zmq_identity][s], 0, x.opnum)
    BY <1>2, <2>2
  <2> QED
    BY <2>3 DEF EndsAfter, Ends, Underway
<1> DEFINE reqs(i, s) == requests[c][i][s]
<1> QED
  BY <1>3, <1>4 DEF RegInvOf, AskedFor, Asks

LEMMA RegKeep ==
  ASSUME TypeOK, NEW c \in Clients, RegInvOf(c),
         server_state_variables' = server_state_variables,
         \A i \in Incarnations, s \in Servers :
           /\ requests'[c][i][s] = requests[c][i][s]
           /\ \A o \in Nat : Underway(c, i, o) => Underway(c, i, o)' \/ NoneOf(c, i, s, o)
  PROVE  RegInvOf(c)'
<1> DEFINE m == [Opnum |-> 0, Phase |-> PRAKIS_PUT_TAG, TagValue_var |-> TagOnly(ZeroTag, 0)]
           n == [s \in Servers |-> m]
<1>1. m \in Message
  <2>1. PRAKIS_PUT_TAG \in Phases /\ TagOnly(ZeroTag, 0) \in TagValue
    BY DataTypes
  <2> QED
    BY <2>1 DEF Message
<1>2. n \in [Servers -> Message]
  BY <1>1
<1> HIDE DEF n
<1> QED
  BY <1>2, RegSend

LEMMA RegIdle ==
  ASSUME TypeOK, NEW d \in Clients, Idle(d), RegInvOf(d),
         server_state_variables' = server_state_variables
  PROVE  RegInvOf(d)'
<1>1. \A i \in Incarnations, s \in Servers : requests'[d][i][s] = requests[d][i][s]
  BY DEF Idle
<1>2. \A i, o : Underway(d, i, o) => Underway(d, i, o)'
  BY DEF Idle, SameClient, Underway
<1> QED
  BY <1>1, <1>2, RegKeep

\* What a client that loses no request sends, to every server on its current sockets.
SendsEach(c, n) ==
  \A i \in Incarnations, s \in Servers :
    requests'[c][i][s] = IF i = incarnation[c] THEN Append(requests[c][i][s], n[s])
                                               ELSE requests[c][i][s]

LEMMA SendsToEach ==
  ASSUME TypeOK, NothingLost, NEW c \in Clients, NEW opnum \in Nat, NEW phase \in Phases,
         NEW payload \in [Servers -> TagValue], SendToServers(c, opnum, phase, payload)
  PROVE  LET n == [s \in Servers |-> [Opnum |-> opnum, Phase |-> phase,
                                      TagValue_var |-> payload[s]]] IN
         /\ n \in [Servers -> Message]
         /\ \A s \in Servers : n[s].Opnum = opnum /\ n[s].Phase = phase
                               /\ n[s].TagValue_var = payload[s]
         /\ SendsEach(c, n)
<1> DEFINE n == [s \in Servers |-> [Opnum |-> opnum, Phase |-> phase,
                                    TagValue_var |-> payload[s]]]
<1>1. /\ \A s \in Servers :
              [Opnum |-> opnum, Phase |-> phase, TagValue_var |-> payload[s]] \in Message
      /\ \A d \in Clients, i \in Incarnations, s \in Servers :
              \/ /\ requests'[d][i][s] = requests[d][i][s]
                 /\ NothingLost => ~ (d = c /\ i = incarnation[c])
              \/ /\ d = c /\ i = incarnation[c]
                 /\ requests'[d][i][s] = Append(requests[d][i][s],
                      [Opnum |-> opnum, Phase |-> phase, TagValue_var |-> payload[s]])
  BY SendEffect
<1>2. n \in [Servers -> Message]
  BY <1>1
<1>3. SendsEach(c, n)
  BY <1>1 DEF SendsEach
<1> QED
  BY <1>2, <1>3

\* A broadcast that begins a phase, or is about the operation the client is in.
LEMMA RegBroadcast ==
  ASSUME TypeOK, NothingLost, NEW c \in Clients, RegInvOf(c), NEW opnum \in Nat,
         NEW phase \in Phases, NEW payload \in [Servers -> TagValue],
         SendToServers(c, opnum, phase, payload), incarnation' = incarnation,
         server_state_variables' = server_state_variables,
         phase = PRAKIS_RELAY_DATA /\ (\E s \in Servers : ~ payload[s].ToCommit) =>
           c \in busy' /\ Opnum'[c] = opnum,
         c \in busy => \/ c \in busy' /\ Opnum'[c] = Opnum[c]
                       \/ opnum = Opnum[c] /\ phase = PRAKIS_READ_COMPLETE
  PROVE  RegInvOf(c)'
<1> DEFINE n == [s \in Servers |-> [Opnum |-> opnum, Phase |-> phase,
                                    TagValue_var |-> payload[s]]]
<1>1. /\ n \in [Servers -> Message]
      /\ \A s \in Servers : n[s].Opnum = opnum /\ n[s].Phase = phase
                            /\ n[s].TagValue_var = payload[s]
      /\ SendsEach(c, n)
  BY SendsToEach
<1> HIDE DEF n
<1>2. ASSUME NEW i \in Incarnations, NEW s \in Servers
      PROVE  \/ /\ requests'[c][i][s] = requests[c][i][s]
                /\ \A o \in Nat : Underway(c, i, o) => Underway(c, i, o)' \/ NoneOf(c, i, s, o)
             \/ /\ requests'[c][i][s] = Append(requests[c][i][s], n[s])
                /\ \A o \in Nat : n[s] \in Asks(o) => Underway(c, i, o)'
                /\ \A o \in Nat : Underway(c, i, o) =>
                     \/ Underway(c, i, o)' \/ n[s] \in Ends(o) \/ NoneOf(c, i, s, o)
  <2>1. CASE i = incarnation[c]
    <3>1. requests'[c][i][s] = Append(requests[c][i][s], n[s])
      BY <1>1, <2>1 DEF SendsEach
    <3>2. \A o \in Nat : n[s] \in Asks(o) => Underway(c, i, o)'
      BY <1>1, <2>1 DEF Asks, Underway
    <3>3. ASSUME NEW o \in Nat, Underway(c, i, o) PROVE Underway(c, i, o)' \/ n[s] \in Ends(o)
      <4>1. n[s] \in Message /\ n[s].Opnum = opnum /\ n[s].Phase = phase
        BY <1>1
      <4> QED
        BY <2>1, <3>3, <4>1 DEF Underway, Ends
    <3> QED
      BY <3>1, <3>2, <3>3
  <2>2. CASE i # incarnation[c]
    BY <1>1, <2>2 DEF SendsEach, Underway
  <2> QED
    BY <2>1, <2>2
<1> QED
  BY <1>1, <1>2, RegSend

LEMMA StartOperationReg ==
  ASSUME TypeOK, NothingLost, NEW c \in Clients, NEW phase \in FirstPhases,
         NEW payload \in [Servers -> TagValue],
         StartOperation(c, phase, payload), RegInvOf(c)
  PROVE  RegInvOf(c)'
<1>1. phase \in Phases /\ phase # PRAKIS_RELAY_DATA /\ Opnum[c] + 1 \in Nat
  BY DataTypes, PhasesDiffer DEF FirstPhases, TypeOK
<1>2. /\ c \notin busy /\ incarnation' = incarnation
      /\ SendToServers(c, Opnum[c] + 1, phase, payload)
      /\ server_state_variables' = server_state_variables
  BY <1>1, StartOperationEffect
<1> QED
  BY <1>1, <1>2, RegBroadcast

LEMMA WriterPutsTagReg ==
  ASSUME TypeOK, NothingLost, NEW w \in Clients, WriterPutsTag(w), RegInvOf(w)
  PROVE  RegInvOf(w)'
<1> DEFINE tv == TagOnly(TagValue_var[w].Tag_var, Opnum[w])
<1>1. /\ ToAll(tv) \in [Servers -> TagValue]
      /\ SendToServers(w, Opnum[w], PRAKIS_PUT_TAG, ToAll(tv))
      /\ UNCHANGED <<server_state_variables, busy, Opnum, incarnation>>
  BY WriterPutsTagEffect
<1> HIDE DEF tv
<1>2. PRAKIS_PUT_TAG \in Phases /\ Opnum[w] \in Nat /\ PRAKIS_PUT_TAG # PRAKIS_RELAY_DATA
  BY DataTypes, PhasesDiffer DEF TypeOK
<1> QED
  BY <1>1, <1>2, RegBroadcast

LEMMA ReaderAsksForRelaysReg ==
  ASSUME TypeOK, NothingLost, NEW r \in Clients, ReaderAsksForRelays(r), RegInvOf(r)
  PROVE  RegInvOf(r)'
<1>1. /\ r \in busy /\ ToAll(TagValue_var[r]) \in [Servers -> TagValue]
      /\ SendToServers(r, Opnum[r], PRAKIS_RELAY_DATA, ToAll(TagValue_var[r]))
      /\ UNCHANGED <<server_state_variables, busy, Opnum, incarnation>>
  BY ReaderAsksForRelaysEffect
<1>2. PRAKIS_RELAY_DATA \in Phases /\ Opnum[r] \in Nat
  BY DataTypes DEF TypeOK
<1> QED
  BY <1>1, <1>2, RegBroadcast

LEMMA CollectRelayReg ==
  ASSUME TypeOK, NothingLost, NEW r \in Clients, NEW s \in Servers, CollectRelay(r, s),
         RegInvOf(r)
  PROVE  RegInvOf(r)'
<1> DEFINE tv == Head(replies[r][s]).TagValue_var
<1>1. /\ r \in busy /\ tv \in TagValue
      /\ UNCHANGED <<server_state_variables, Opnum, incarnation>>
      /\ \/ UNCHANGED <<busy, requests>>
         \/ /\ busy' = busy \ {r}
            /\ SendToServers(r, Opnum[r], PRAKIS_READ_COMPLETE, ToAll(TagOnly(ZeroTag, 0)))
         \/ /\ busy' = busy
            /\ SendToServers(r, Opnum[r], PRAKIS_RELAY_DATA, ToAll(CommitRequest(tv)))
  BY CollectRelayEffect DEF KeepsRelay
<1>2. /\ Opnum[r] \in Nat /\ PRAKIS_READ_COMPLETE \in Phases /\ PRAKIS_RELAY_DATA \in Phases
      /\ PRAKIS_READ_COMPLETE # PRAKIS_RELAY_DATA
      /\ ToAll(TagOnly(ZeroTag, 0)) \in [Servers -> TagValue]
  BY DataTypes, ToAllType, PhasesDiffer DEF TypeOK
<1> HIDE DEF tv
<1>3. CASE UNCHANGED <<busy, requests>>
  BY <1>1, <1>3, RegKeep DEF Underway
<1>4. CASE /\ busy' = busy \ {r}
           /\ SendToServers(r, Opnum[r], PRAKIS_READ_COMPLETE, ToAll(TagOnly(ZeroTag, 0)))
  BY <1>1, <1>2, <1>4, RegBroadcast
<1>5. CASE /\ busy' = busy
           /\ SendToServers(r, Opnum[r], PRAKIS_RELAY_DATA, ToAll(CommitRequest(tv)))
  <2> DEFINE payload == ToAll(CommitRequest(tv))
  <2>1. payload \in [Servers -> TagValue] /\ \A t \in Servers : payload[t].ToCommit = TRUE
    <3>1. CommitRequest(tv) \in TagValue /\ CommitRequest(tv).ToCommit = TRUE
      BY <1>1, CommitRequestType
    <3> QED
      BY <3>1, ToAllType
  <2> HIDE DEF payload
  <2>2. SendToServers(r, Opnum[r], PRAKIS_RELAY_DATA, payload)
    BY <1>5 DEF payload
  <2> QED
    BY <1>1, <1>2, <1>5, <2>1, <2>2, RegBroadcast
<1> QED
  BY <1>1, <1>3, <1>4, <1>5

\* An operation that ends in a phase in which nothing of it is registered.
LEMMA EndSilentlyReg ==
  ASSUME TypeOK, NEW c \in Clients, ChannelInvOf(c), TagInvOf(c), RegInvOf(c),
         c \in busy, Phase[c] # PRAKIS_RELAY_DATA, busy' = busy \ {c},
         UNCHANGED <<server_state_variables, requests, Opnum, incarnation>>
  PROVE  RegInvOf(c)'
<1>1. ASSUME NEW i \in Incarnations, NEW s \in Servers, NEW o \in Nat, Underway(c, i, o)
      PROVE  NoneOf(c, i, s, o)
  <2>1. o = Opnum[c] /\ ~ IsWaiting(c)
    BY <1>1 DEF Underway, IsWaiting
  <2>2. ASSUME NEW m \in Messages(requests[c][i][s]) PROVE m \notin Asks(o)
    <3>1. NotFromTheFuture(c, m)
      BY <2>2 DEF ChannelInvOf, InOrder
    <3> QED
      BY <2>1, <3>1, PhasesDiffer DEF NotFromTheFuture, Asks, FirstPhases
  <2>3. \A x \in readsOf(s, c) : x.opnum # o
    BY <2>1, NotWaiting
  <2> QED
    BY <2>2, <2>3 DEF NoneOf
<1> QED
  BY <1>1, RegKeep

LEMMA EmulateReg ==
  ASSUME TypeOK, NEW c \in Clients, emulateNewClient(c), RegInvOf(c)
  PROVE  RegInvOf(c)'
<1>1. c \notin busy /\ UNCHANGED <<server_state_variables, netVars>>
  BY EmulateEffect
<1> QED
  BY <1>1, RegKeep DEF Underway, netVars

-----------------------------------------------------------------------------
(* Registrations at a server *)

\* The registrations after a step of server s that takes m from incarnation i of c.
Registers(s, c, i, m, reads) ==
  \A x \in reads :
    \/ /\ x \in server_state_variables[s].readsInProgress
       /\ ~ (x.reader_name = c /\ m \in Ends(x.opnum))
    \/ x.reader_name = c /\ x.zmq_identity = i /\ m \in Asks(x.opnum)

LEMMA ServerStepReads ==
  ASSUME TypeOK, NEW s \in Servers, NEW c \in Clients, NEW i \in Incarnations,
         ServerStep(s, c, i)
  PROVE  /\ \A q \in Servers : q # s => server_state_variables'[q] = server_state_variables[q]
         /\ Registers(s, c, i, Head(requests[c][i][s]),
                      server_state_variables'[s].readsInProgress)
<1> DEFINE m == Head(requests[c][i][s])
           st == server_state_variables[s]
           tv == m.TagValue_var
<1>1. /\ m \in Message
      /\ st \in SingleObjServerState
      /\ \/ putDataResp(s, st, c, i, m)
         \/ putDataRespFinalized(s, st, c, i, m)
         \/ putTagResp(s, st, c, i, m)
         \/ getTagDataResp(s, st, c, i, m)
         \/ commitForReader(s, st, m)
         \/ registerRead(s, st, c, i, m)
         \/ readCompleteResp(s, st, c, m)
  BY StepMessage
<1> HIDE DEF m, st
<1>2. tv.Tag_var \in AnyTag /\ tv.Opnum \in Nat /\ tv \in TagValue
  BY <1>1, MessageType
<1>3. ASSUME NEW st2, NEW A, NEW B, Handled(s, st2, A, B),
             \/ /\ st2.readsInProgress = st.readsInProgress
                /\ m.Phase # PRAKIS_READ_COMPLETE
             \/ /\ m.Phase = PRAKIS_READ_COMPLETE
                /\ st2.readsInProgress = OtherReads(st, c, m.Opnum)
             \/ /\ m.Phase = PRAKIS_RELAY_DATA /\ ~ tv.ToCommit
                /\ st2.readsInProgress = OtherReads(st, c, m.Opnum) \cup {NewRead(c, i, m)}
      PROVE  /\ \A q \in Servers : q # s => server_state_variables'[q] = server_state_variables[q]
             /\ Registers(s, c, i, m, server_state_variables'[s].readsInProgress)
  <2>1. /\ \A q \in Servers : q # s => server_state_variables'[q] = server_state_variables[q]
        /\ server_state_variables'[s] = st2
    BY <1>3 DEF Handled
  <2>2. Registers(s, c, i, m, st2.readsInProgress)
    <3>1. CASE /\ st2.readsInProgress = st.readsInProgress
               /\ m.Phase # PRAKIS_READ_COMPLETE
      BY <3>1 DEF Registers, Ends, st
    <3>2. CASE /\ m.Phase = PRAKIS_READ_COMPLETE
               /\ st2.readsInProgress = OtherReads(st, c, m.Opnum)
      BY <3>2 DEF Registers, Ends, OtherReads, st
    <3>3. CASE /\ m.Phase = PRAKIS_RELAY_DATA /\ ~ tv.ToCommit
               /\ st2.readsInProgress = OtherReads(st, c, m.Opnum) \cup {NewRead(c, i, m)}
      <4>1. NewRead(c, i, m).reader_name = c /\ NewRead(c, i, m).zmq_identity = i
            /\ NewRead(c, i, m).opnum = m.Opnum /\ m \in Asks(m.Opnum)
        BY <1>1, <3>3 DEF NewRead, Asks
      <4>2. \A x \in OtherReads(st, c, m.Opnum) :
              x \in st.readsInProgress /\ ~ (x.reader_name = c /\ m \in Ends(x.opnum))
        BY DEF OtherReads, Ends
      <4> HIDE DEF tv
      <4> QED
        BY <3>3, <4>1, <4>2 DEF Registers, st
    <3> QED
      BY <1>3, <3>1, <3>2, <3>3
  <2> QED
    BY <2>1, <2>2
<1>4. CASE putDataResp(s, st, c, i, m)
  <2> DEFINE put == [tv EXCEPT !.Tag_var = nextTag(st, tv)]
             no == FALSE
             st2 == SetEntry(st, tv.Tag_var, tv.Opnum, put, no)
  <2>1. /\ Handled(s, st2, Nothing,
                   Answers(c, i, m, [m EXCEPT !.TagValue_var = TagOnly(nextTag(st, tv), 0)]))
        /\ m.Phase = PRAKIS_PUT_DATA /\ put \in TagValue
    BY <1>1, <1>4, PutDataHandled DEF st
  <2>2. no \in BOOLEAN
    OBVIOUS
  <2> HIDE DEF put, no, tv
  <2>3. st2.readsInProgress = st.readsInProgress
    BY <1>1, <1>2, <2>1, <2>2, SetEntryType
  <2> HIDE DEF st2
  <2> QED
    BY <1>3, <2>1, <2>3, PhasesDiffer DEF m
<1>5. CASE putDataRespFinalized(s, st, c, i, m)
  <2>1. m.Phase = PRAKIS_PUT_DATA
    BY <1>1, <1>5, LatePutHandled DEF st
  <2>2. PICK put \in SingleObjServerState :
          /\ put.readsInProgress = st.readsInProgress
          /\ Handled(s, commitTag(put, tv.Tag_var, tv.Opnum),
                     Relays(put, tv.Tag_var, tv.Opnum), Nothing)
    BY <1>1, <1>5, LatePutHandled DEF st
  <2> HIDE DEF tv
  <2>3. commitTag(put, tv.Tag_var, tv.Opnum).readsInProgress = st.readsInProgress
    BY <1>2, <2>2, CommitTagType
  <2> QED
    BY <1>3, <2>1, <2>2, <2>3, PhasesDiffer DEF m
<1>6. CASE putTagResp(s, st, c, i, m)
  <2>1. /\ m.Phase = PRAKIS_PUT_TAG
        /\ Handled(s, commitTag(st, tv.Tag_var, tv.Opnum), Relays(st, tv.Tag_var, tv.Opnum),
                   Answers(c, i, m, [m EXCEPT !.TagValue_var = TagOnly(ZeroTag, 0)]))
    BY <1>1, <1>6, PutTagHandled DEF st
  <2> HIDE DEF tv
  <2>2. commitTag(st, tv.Tag_var, tv.Opnum).readsInProgress = st.readsInProgress
    BY <1>1, <1>2, CommitTagType
  <2> QED
    BY <1>3, <2>1, <2>2, PhasesDiffer DEF m
<1>7. CASE getTagDataResp(s, st, c, i, m)
  <2>1. /\ m.Phase = PRAKIS_GET_TAG_DATA
        /\ Handled(s, st, Nothing, Answers(c, i, m, [m EXCEPT !.TagValue_var = st.tagCodedElement_var]))
    BY <1>1, <1>7, GetTagDataHandled DEF st
  <2> QED
    BY <1>3, <2>1, PhasesDiffer DEF m
<1>8. CASE commitForReader(s, st, m)
  <2>1. /\ m.Phase = PRAKIS_RELAY_DATA
        /\ Handled(s, commitTag(st, tv.Tag_var, tv.Opnum), Relays(st, tv.Tag_var, tv.Opnum),
                   Nothing)
    BY <1>1, <1>8, CommitHandled DEF st
  <2> HIDE DEF tv
  <2>2. commitTag(st, tv.Tag_var, tv.Opnum).readsInProgress = st.readsInProgress
    BY <1>1, <1>2, CommitTagType
  <2> QED
    BY <1>3, <2>1, <2>2, PhasesDiffer DEF m
<1>9. CASE registerRead(s, st, c, i, m)
  <2> DEFINE new == registered(st, c, i, m)
             st2 == commitTag(new, tv.Tag_var, tv.Opnum)
  <2>1. /\ m.Phase = PRAKIS_RELAY_DATA /\ ~ tv.ToCommit
        /\ \E A, B : Handled(s, st2, A, B)
    BY <1>1, <1>9, RegisterHandled DEF st
  <2>2. new \in SingleObjServerState
        /\ new.readsInProgress = OtherReads(st, c, m.Opnum) \cup {NewRead(c, i, m)}
    BY <1>1, RegisteredType
  <2> HIDE DEF new, tv
  <2>3. st2.readsInProgress = OtherReads(st, c, m.Opnum) \cup {NewRead(c, i, m)}
    BY <1>2, <2>2, CommitTagType
  <2> HIDE DEF st2
  <2> QED
    BY <1>3, <2>1, <2>3 DEF m
<1>10. CASE readCompleteResp(s, st, c, m)
  <2> DEFINE st2 == [st EXCEPT !.readsInProgress = OtherReads(st, c, m.Opnum)]
  <2>1. m.Phase = PRAKIS_READ_COMPLETE /\ Handled(s, st2, Nothing, Nothing)
        /\ st2.readsInProgress = OtherReads(st, c, m.Opnum)
    BY <1>1, <1>10, ReadCompleteHandled DEF st
  <2> HIDE DEF st2
  <2> QED
    BY <1>3, <2>1 DEF m
<1> QED
  BY <1>1, <1>4, <1>5, <1>6, <1>7, <1>8, <1>9, <1>10 DEF m, st

LEMMA ServerStepReg ==
  ASSUME TypeOK, RegInv, NEW s \in Servers, NEW c \in Clients, NEW i \in Incarnations,
         ServerStep(s, c, i), NEW d \in Clients
  PROVE  RegInvOf(d)'
<1> DEFINE q == requests[c][i][s]
           m == Head(q)
<1>1. /\ q \in Seq(Message) /\ q # <<>> /\ requests'[c][i][s] = Tail(q)
      /\ Len(q) \in Nat /\ Len(q) >= 1 /\ Len(Tail(q)) = Len(q) - 1 /\ m = q[1]
      /\ \A e \in Clients, j \in Incarnations, t \in Servers :
           ~ (e = c /\ j = i /\ t = s) => requests'[e][j][t] = requests[e][j][t]
      /\ \A k \in 1..(Len(q) - 1) : Tail(q)[k] = q[k + 1] /\ k + 1 \in 1..Len(q)
  BY TakeEffect, TailPositions
<1>2. /\ \A t \in Servers : t # s => server_state_variables'[t] = server_state_variables[t]
      /\ Registers(s, c, i, m, server_state_variables'[s].readsInProgress)
  BY ServerStepReads
<1>3. \A j, o : Underway(d, j, o)' <=> Underway(d, j, o)
  BY ServerStepEffect DEF Underway, SameClient
<1>4. ASSUME NEW t \in Servers
      PROVE  /\ \A j \in Incarnations : \A o : AskedFor(d, j, o, requests[d][j][t])
             /\ \A x \in readsOf(t, d) :
                  \/ Underway(d, x.zmq_identity, x.opnum)
                  \/ EndsAfter(requests[d][x.zmq_identity][t], 0, x.opnum)
  BY RegInvAtEach DEF RegInv
<1>5. \A o : EndsAfter(q, 0, o) /\ m \notin Ends(o) => EndsAfter(Tail(q), 0, o)
  BY <1>1, EndsAfterReceive
<1>6. ASSUME NEW k \in 1..Len(q), NEW o, EndsAfter(q, k, o)
      PROVE  EndsAfter(Tail(q), k - 1, o)
  <2>1. k \in Nat /\ k # 0
    OBVIOUS
  <2>2. EndsAfter(Tail(q), IF k = 0 THEN 0 ELSE k - 1, o)
    BY <1>1, <1>6, <2>1, EndsAfterReceive
  <2> QED
    BY <2>1, <2>2
<1> HIDE DEF q, m
<1>7. ASSUME NEW t \in Servers, NEW j \in Incarnations, NEW o
      PROVE  AskedFor(d, j, o, requests'[d][j][t])
  <2>1. CASE d = c /\ j = i /\ t = s
    <3> SUFFICES ASSUME NEW k \in 1..Len(Tail(q)), Tail(q)[k] \in Asks(o)
                 PROVE  Underway(d, j, o) \/ EndsAfter(Tail(q), k, o)
      BY <1>1, <2>1 DEF AskedFor
    <3>1. k + 1 \in 1..Len(q) /\ q[k + 1] \in Asks(o) /\ k + 1 - 1 = k
      BY <1>1
    <3>2. Underway(d, j, o) \/ EndsAfter(q, k + 1, o)
      BY <1>4, <2>1, <3>1 DEF AskedFor, q
    <3> QED
      BY <1>6, <3>1, <3>2
  <2>2. CASE ~ (d = c /\ j = i /\ t = s)
    BY <1>1, <1>4, <2>2
  <2> QED
    BY <2>1, <2>2
<1>8. ASSUME NEW t \in Servers, NEW x \in readsOf(t, d)'
      PROVE  \/ Underway(d, x.zmq_identity, x.opnum)
             \/ EndsAfter(requests'[d][x.zmq_identity][t], 0, x.opnum)
  <2>0. x \in readsOf(t, d) => x.zmq_identity \in Incarnations
    <3>1. server_state_variables \in [Servers -> SingleObjServerState]
      BY DEF TypeOK
    <3>2. server_state_variables[t].readsInProgress \subseteq ReadsInProgress
      BY <3>1 DEF SingleObjServerState
    <3>3. x \in readsOf(t, d) => x \in ReadsInProgress
      BY <3>2 DEF readsOf
    <3> QED
      BY <3>3 DEF ReadsInProgress
  <2>1. CASE t # s
    <3>1. x \in readsOf(t, d)
      BY <1>2, <1>8, <2>1 DEF readsOf
    <3>2. requests'[d][x.zmq_identity][t] = requests[d][x.zmq_identity][t]
      BY <1>1, <2>0, <2>1, <3>1
    <3> QED
      BY <1>4, <3>1, <3>2
  <2>2. CASE t = s
    <3>1. x \in server_state_variables'[s].readsInProgress /\ x.reader_name = d
      BY <1>8, <2>2 DEF readsOf
    <3>2. CASE d = c /\ x.zmq_identity = i /\ m \in Asks(x.opnum)
      <4>1. 1 \in 1..Len(q) /\ q[1] \in Asks(x.opnum) /\ 1 - 1 = 0
        BY <1>1, <3>2
      <4>2. Underway(d, i, x.opnum) \/ EndsAfter(q, 1, x.opnum)
        BY <1>4, <3>2, <4>1 DEF AskedFor, q
      <4>3. Underway(d, i, x.opnum) \/ EndsAfter(Tail(q), 0, x.opnum)
        BY <1>6, <4>1, <4>2
      <4> QED
        BY <1>1, <2>2, <3>2, <4>3
    <3>3. CASE /\ x \in server_state_variables[s].readsInProgress
               /\ ~ (d = c /\ m \in Ends(x.opnum))
      <4>1. x \in readsOf(s, d)
        BY <3>1, <3>3 DEF readsOf
      <4>2. \/ Underway(d, x.zmq_identity, x.opnum)
            \/ EndsAfter(requests[d][x.zmq_identity][s], 0, x.opnum)
        BY <1>4, <4>1
      <4>3. CASE d = c /\ x.zmq_identity = i
        BY <1>1, <1>5, <2>2, <3>3, <4>2, <4>3 DEF q
      <4>4. CASE ~ (d = c /\ x.zmq_identity = i)
        <5>1. requests'[d][x.zmq_identity][s] = requests[d][x.zmq_identity][s]
          BY <1>1, <2>0, <2>2, <4>1, <4>4
        <5> QED
          BY <2>2, <4>2, <5>1
      <4> QED
        BY <4>3, <4>4
    <3> QED
      BY <1>2, <3>1, <3>2, <3>3 DEF Registers
  <2> QED
    BY <2>1, <2>2
<1>9. \A t \in Servers :
        /\ \A j \in Incarnations : \A o : AskedFor(d, j, o, requests[d][j][t])'
        /\ \A x \in readsOf(t, d)' :
             \/ Underway(d, x.zmq_identity, x.opnum)'
             \/ EndsAfter(requests[d][x.zmq_identity][t], 0, x.opnum)'
  <2>1. ASSUME NEW t \in Servers, NEW j \in Incarnations, NEW o
        PROVE  AskedFor(d, j, o, requests[d][j][t])'
    BY <1>3, <1>7 DEF AskedFor, Asks, EndsAfter, Ends
  <2>2. ASSUME NEW t \in Servers, NEW x \in readsOf(t, d)'
        PROVE  \/ Underway(d, x.zmq_identity, x.opnum)'
               \/ EndsAfter(requests[d][x.zmq_identity][t], 0, x.opnum)'
    BY <1>3, <1>8 DEF EndsAfter, Ends
  <2> QED
    BY <2>1, <2>2
<1> QED
  BY <1>9 DEF RegInvOf, AskedFor, Asks

LEMMA RegInit == Init => RegInv
BY DEF Init, RegInv, RegInvOf, readsOf

LEMMA RegStep ==
  ASSUME NothingLost, RInv, [Next]_vars
  PROVE  RInv'
<1>1. TInv /\ TypeOK /\ ChannelInv /\ TagInv /\ RegInv
  BY DEF RInv, TInv
<1>2. TInv'
  BY <1>1, TagStep
<1>3. SUFFICES RegInv'
  BY <1>2 DEF RInv
<1> USE DEF RegInv
<1>4. CASE UNCHANGED vars
  <2>1. \A d \in Clients : Idle(d)
    BY <1>4 DEF vars, phaseVars, netVars, historyVars, Idle, SameClient
  <2> QED
    BY <1>1, <1>4, <2>1, RegIdle DEF vars
<1>5. ASSUME NEW c \in Clients, ClientStep(c) PROVE RegInv'
  <2>1. TagInvOf(c) /\ ChannelInvOf(c) /\ RegInvOf(c)
    BY <1>1 DEF TagInv, ChannelInv
  <2>2. ASSUME server_state_variables' = server_state_variables,
               \A d \in Clients : d # c => Idle(d), RegInvOf(c)'
        PROVE  RegInv'
    BY <1>1, <2>2, RegIdle
  <2>3. CASE StartRead(c) \/ StartWrite(c)
    <3>1. PICK phase \in FirstPhases, payload \in [Servers -> TagValue] :
            StartOperation(c, phase, payload)
      BY <1>1, <2>3, StartType DEF FirstPhases
    <3>2. phase \in Phases
      BY DataTypes DEF FirstPhases
    <3>3. /\ server_state_variables' = server_state_variables
          /\ \A d \in Clients : d # c => Idle(d)
      BY <1>1, <3>1, <3>2, StartOperationEffect
    <3>4. RegInvOf(c)'
      BY <1>1, <2>1, <3>1, StartOperationReg
    <3> QED
      BY <2>2, <3>3, <3>4
  <2>4. ASSUME NEW s \in Servers, CollectReply(c, s) PROVE RegInv'
    <3>1. /\ UNCHANGED <<server_state_variables, busy, Opnum, incarnation, requests>>
          /\ \A d \in Clients : d # c => Idle(d)
      BY <1>1, <2>4, CollectReplyEffect
    <3>2. RegInvOf(c)'
      BY <1>1, <2>1, <3>1, RegKeep DEF Underway
    <3> QED
      BY <2>2, <3>1, <3>2
  <2>5. ASSUME NEW s \in Servers, CollectRelay(c, s) PROVE RegInv'
    <3>1. /\ server_state_variables' = server_state_variables
          /\ \A d \in Clients : d # c => Idle(d)
      BY <1>1, <2>5, CollectRelayEffect
    <3>2. RegInvOf(c)'
      BY <1>1, <2>1, <2>5, CollectRelayReg
    <3> QED
      BY <2>2, <3>1, <3>2
  <2>6. CASE WriterPutsTag(c)
    <3>1. /\ server_state_variables' = server_state_variables
          /\ \A d \in Clients : d # c => Idle(d)
      BY <1>1, <2>6, WriterPutsTagEffect
    <3>2. RegInvOf(c)'
      BY <1>1, <2>1, <2>6, WriterPutsTagReg
    <3> QED
      BY <2>2, <3>1, <3>2
  <2>7. CASE PutTagCompletes(c)
    <3>1. /\ UNCHANGED <<server_state_variables, Opnum, incarnation, requests>>
          /\ busy' = busy \ {c} /\ c \in busy /\ Phase[c] = PRAKIS_PUT_TAG
          /\ \A d \in Clients : d # c => Idle(d)
      BY <1>1, <2>7, PutTagCompletesEffect
    <3>2. RegInvOf(c)'
      BY <1>1, <2>1, <3>1, EndSilentlyReg, PhasesDiffer
    <3> QED
      BY <2>2, <3>1, <3>2
  <2>8. CASE ReaderAsksForRelays(c)
    <3>1. /\ server_state_variables' = server_state_variables
          /\ \A d \in Clients : d # c => Idle(d)
      BY <1>1, <2>8, ReaderAsksForRelaysEffect
    <3>2. RegInvOf(c)'
      BY <1>1, <2>1, <2>8, ReaderAsksForRelaysReg
    <3> QED
      BY <2>2, <3>1, <3>2
  <2>9. CASE ReadInOnePhase(c)
    <3>1. /\ UNCHANGED <<server_state_variables, Opnum, incarnation, requests>>
          /\ busy' = busy \ {c} \/ busy' = busy
          /\ c \in busy /\ Phase[c] = PRAKIS_GET_TAG_DATA
          /\ \A d \in Clients : d # c => Idle(d)
      BY <1>1, <2>9, ReadInOnePhaseEffect
    <3>2. CASE busy' = busy \ {c}
      <4>1. RegInvOf(c)'
        BY <1>1, <2>1, <3>1, <3>2, EndSilentlyReg, PhasesDiffer
      <4> QED
        BY <2>2, <3>1, <4>1
    <3>3. CASE busy' = busy
      <4>1. RegInvOf(c)'
        BY <1>1, <2>1, <3>1, <3>3, RegKeep DEF Underway
      <4> QED
        BY <2>2, <3>1, <4>1
    <3> QED
      BY <3>1, <3>2, <3>3
  <2>10. CASE emulateNewClient(c)
    <3>1. /\ server_state_variables' = server_state_variables
          /\ \A d \in Clients : d # c => Idle(d)
      BY <1>1, <2>10, EmulateEffect
    <3>2. RegInvOf(c)'
      BY <1>1, <2>1, <2>10, EmulateReg
    <3> QED
      BY <2>2, <3>1, <3>2
  <2> QED
    BY <1>5, <2>3, <2>4, <2>5, <2>6, <2>7, <2>8, <2>9, <2>10 DEF ClientStep
<1>6. ASSUME NEW s \in Servers, NEW c \in Clients, NEW i \in Incarnations,
             ServerStep(s, c, i)
      PROVE  RegInv'
  <2>1. \A d \in Clients : RegInvOf(d)'
    BY <1>1, <1>6, ServerStepReg
  <2> QED
    BY <2>1
<1>7. ASSUME NEW s \in Servers, KillServer(s) PROVE RegInv'
  <2>1. server_state_variables' = server_state_variables /\ \A d \in Clients : Idle(d)
    BY <1>1, <1>7, KillServerEffect
  <2> QED
    BY <1>1, <2>1, RegIdle
<1> QED
  BY <1>1, <1>4, <1>5, <1>6, <1>7 DEF Next, AllDone

LEMMA RInvUnregisters == RInv => ReadsAreUnregistered
<1> SUFFICES ASSUME RInv, NEW s \in Servers,
                    NEW x \in server_state_variables[s].readsInProgress
             PROVE  LET r == x.reader_name IN
                      \/ r \in busy /\ x.opnum = Opnum[r]
                      \/ \E m \in Range(requests[r][x.zmq_identity][s]) :
                           m.Opnum = x.opnum /\ m.Phase = PRAKIS_READ_COMPLETE
  BY DEF ReadsAreUnregistered
<1> DEFINE r == x.reader_name
           q == requests[r][x.zmq_identity][s]
<1>1. r \in Clients /\ x \in readsOf(s, r) /\ q \in Seq(Message)
  BY DEF RInv, TInv, TypeOK, SingleObjServerState, ReadsInProgress, readsOf
<1>2. Underway(r, x.zmq_identity, x.opnum) \/ EndsAfter(q, 0, x.opnum)
  BY <1>1, RegInvAtEach DEF RInv, RegInv
<1>3. CASE EndsAfter(q, 0, x.opnum)
  <2>1. PICK l \in 1..Len(q) : q[l] \in Ends(x.opnum)
    BY <1>3 DEF EndsAfter
  <2> HIDE DEF q
  <2>2. q[l] \in Range(q)
    BY <1>1 DEF Range
  <2> QED
    BY <2>1, <2>2 DEF Ends, q
<1> QED
  BY <1>2, <1>3 DEF Underway

\* When no request is lost, a read that has ended stays registered only while its
\* READ_COMPLETE is on its way (registerReadPrakis, readCompleteRespPrakis): a
\* server takes it after the request that registered the read, on the same socket.
THEOREM ReadsUnregistered == ASSUME NothingLost PROVE Spec => []ReadsAreUnregistered
<1>1. Init => RInv
  BY TypeInit, ChannelInit, TagInit, RegInit DEF RInv, TInv
<1>2. RInv /\ [Next]_vars => RInv'
  BY RegStep
<1> QED
  BY <1>1, <1>2, RInvUnregisters, PTL DEF Spec

-----------------------------------------------------------------------------
(* Writes and their tags *)

LEMMA WriterNames ==
  ASSUME NEW w \in Writers
  PROVE  NameTag[w] \in Nat /\ NameTag[w] > 0 /\ w \in Clients /\ w \notin Readers
         /\ \A v \in Writers : NameTag[v] = NameTag[w] => v = w
BY NameTagAssumption, ClientsAssumption DEF Clients

LEMMA TagsOfType ==
  ASSUME NEW w \in Writers, NEW t \in TagsOf(w)
  PROVE  /\ t \in Tag /\ t \in AnyTag /\ t.Client_id = NameTag[w] /\ t # InitialTag
         /\ isGreaterTag(t, InitialTag) /\ isGreaterTag(t, LowestTag)
BY WriterNames DEF TagsOf, Tag, AnyTag, InitialTag, LowestTag, isGreaterTag

LEMMA WroteFacts ==
  ASSUME TypeOK, StoreInv, NEW w \in Writers, NEW o, NEW t, Wrote(w, o, t)
  PROVE  /\ t \in TagsOf(w) /\ o \in 1..Opnum[w] /\ HasTag(w, o)
         /\ w \in busy =>
              \/ AtLeast(floor[w], t) /\ o < Opnum[w]
              \/ Phase[w] = PRAKIS_PUT_TAG /\ o = Opnum[w] /\ t = TagValue_var[w].Tag_var
<1>1. ASSUME NEW e \in log, e.client = w,
             e.TagValue_var = [Tag_var |-> t, Value |-> <<w, o>>]
      PROVE  /\ t \in TagsOf(w) /\ o \in 1..Opnum[w] /\ HasTag(w, o)
             /\ w \in busy => AtLeast(floor[w], t) /\ o < Opnum[w]
  <2>1. e.TagValue_var.Tag_var = t /\ e.TagValue_var.Value = <<w, o>>
    BY <1>1
  <2>2. LogOf(e)
    BY DEF StoreInv, LogInv
  <2>3. /\ t \in TagsOf(w)
        /\ w \in busy => AtLeast(floor[w], t)
        /\ \E p \in 1..Opnum[w] : <<w, o>> = <<w, p>> /\ (w \in busy => p < Opnum[w])
    BY <1>1, <2>1, <2>2 DEF LogOf
  <2>4. HasTag(w, o)
    BY <1>1, <2>1 DEF HasTag
  <2> QED
    BY <2>3, <2>4
<1>2. CASE w \in busy /\ Phase[w] = PRAKIS_PUT_TAG /\ o = Opnum[w] /\ t = TagValue_var[w].Tag_var
  <2>1. t \in TagsOf(w)
    BY <1>2 DEF StoreInv, WriterInvOf, Proposed
  <2>2. o \in 1..Opnum[w]
    BY <1>2, WriterNames DEF TypeOK
  <2>3. HasTag(w, o)
    BY <1>2 DEF HasTag
  <2> QED
    BY <1>2, <2>1, <2>2, <2>3
<1> QED
  BY <1>1, <1>2 DEF Wrote

\* A tag belongs to one write.
LEMMA OneWrite ==
  ASSUME TypeOK, StoreInv, NEW v \in Writers, NEW w \in Writers, NEW p, NEW o, NEW t,
         Wrote(v, p, t), Wrote(w, o, t)
  PROVE  v = w /\ p = o
<1>1. v = w
  BY WroteFacts, TagsOfType, WriterNames
<1>2. ASSUME NEW e \in log, e.client = w, e.TagValue_var = [Tag_var |-> t, Value |-> <<w, o>>],
             NEW f \in log, f.client = w, f.TagValue_var = [Tag_var |-> t, Value |-> <<w, p>>]
      PROVE  p = o
  <2>1. e = f
    BY <1>2 DEF StoreInv, LogInv
  <2>2. e.TagValue_var.Value = <<w, o>> /\ f.TagValue_var.Value = <<w, p>>
    BY <1>2
  <2> QED
    BY <2>1, <2>2
<1>3. ASSUME NEW q, NEW e \in log, e.client = w,
             e.TagValue_var = [Tag_var |-> t, Value |-> <<w, q>>],
             w \in busy, Phase[w] = PRAKIS_PUT_TAG, t = TagValue_var[w].Tag_var
      PROVE  FALSE
  <2>1. e.TagValue_var.Tag_var = t
    BY <1>3
  <2>2. AtLeast(floor[w], t)
    BY <1>3, <2>1 DEF StoreInv, LogInv, LogOf
  <2>3. isGreaterTag(t, floor[w])
    BY <1>3 DEF StoreInv, WriterInvOf, Proposed
  <2> QED
    BY <2>2, <2>3 DEF AtLeast
<1> QED
  BY <1>1, <1>2, <1>3 DEF Wrote

\* A write has one tag.
LEMMA OneTag ==
  ASSUME TypeOK, StoreInv, NEW w \in Writers, NEW o, NEW t, NEW u, Wrote(w, o, t), Wrote(w, o, u)
  PROVE  t = u
<1>1. ASSUME NEW e \in log, e.client = w, e.TagValue_var = [Tag_var |-> t, Value |-> <<w, o>>],
             NEW f \in log, f.client = w, f.TagValue_var = [Tag_var |-> u, Value |-> <<w, o>>]
      PROVE  t = u
  <2>1. /\ e.TagValue_var.Value = <<w, o>> /\ f.TagValue_var.Value = <<w, o>>
        /\ e.TagValue_var.Tag_var = t /\ f.TagValue_var.Tag_var = u
    BY <1>1
  <2>2. e = f
    BY <1>1, <2>1 DEF StoreInv, LogInv
  <2> QED
    BY <2>1, <2>2
<1>2. ASSUME NEW x, NEW e \in log, e.client = w,
             e.TagValue_var = [Tag_var |-> x, Value |-> <<w, o>>],
             w \in busy, o = Opnum[w]
      PROVE  FALSE
  <2>1. e.TagValue_var.Value = <<w, o>>
    BY <1>2
  <2>2. \E p \in 1..Opnum[w] : <<w, o>> = <<w, p>> /\ p < Opnum[w]
    BY <1>2, <2>1 DEF StoreInv, LogInv, LogOf
  <2> QED
    BY <1>2, <2>2, WriterNames DEF TypeOK
<1> QED
  BY <1>1, <1>2 DEF Wrote

\* What a commit may refer to is a tag, not below the initial one.
LEMMA CommitFacts ==
  ASSUME TypeOK, StoreInv, NEW tv, CommitOf(tv)
  PROVE  tv.Tag_var \in Tag /\ tv.Tag_var \in AnyTag /\ AtLeast(tv.Tag_var, InitialTag)
<1>1. CASE tv.Tag_var = InitialTag
  BY <1>1, InitialTagIsTag, TagTotal
<1>2. ASSUME NEW w \in Writers, Wrote(w, tv.Opnum, tv.Tag_var)
      PROVE  tv.Tag_var \in Tag /\ tv.Tag_var \in AnyTag /\ AtLeast(tv.Tag_var, InitialTag)
  <2>1. tv.Tag_var \in TagsOf(w)
    BY <1>2, WroteFacts
  <2> QED
    BY <2>1, TagsOfType, TagTotal, InitialTagIsTag
<1> QED
  BY <1>1, <1>2 DEF CommitOf

LEMMA ElementCommits ==
  ASSUME TypeOK, StoreInv, NEW s \in Servers, NEW e, ElementOf(s, e)
  PROVE  /\ CommitOf(e) /\ CommitOf(TagOnly(e.Tag_var, e.Opnum)) /\ CommitOf(CommitRequest(e))
         /\ e.Tag_var \in Tag /\ e.Tag_var \in AnyTag /\ AtLeast(e.Tag_var, InitialTag)
         /\ e.CodeIndex \in {s, FirstServer}
<1>1. TagOnly(InitialTag, 0).Tag_var = InitialTag /\ TagOnly(InitialTag, 0).Opnum = 0
      /\ TagOnly(InitialTag, 0).CodeIndex = FirstServer
  BY DEF TagOnly
<1>2. CommitOf(e) /\ e.CodeIndex \in {s, FirstServer}
  <2>1. CASE e = TagOnly(InitialTag, 0)
    BY <2>1, <1>1 DEF CommitOf
  <2>2. CASE OwnElement(s, e)
    <3>1. PICK w \in Writers : Wrote(w, e.Opnum, e.Tag_var)
      BY <2>2 DEF OwnElement
    <3>2. e.Tag_var.Client_id = NameTag[w]
      BY <3>1, WroteFacts, TagsOfType
    <3> QED
      BY <2>2, <3>1, <3>2 DEF CommitOf, OwnElement
  <2> QED
    BY <2>1, <2>2 DEF ElementOf
<1>3. /\ TagOnly(e.Tag_var, e.Opnum).Tag_var = e.Tag_var
      /\ TagOnly(e.Tag_var, e.Opnum).Opnum = e.Opnum
      /\ CommitRequest(e).Tag_var = e.Tag_var /\ CommitRequest(e).Opnum = e.Opnum
  BY DEF TagOnly, CommitRequest
<1>4. CommitOf(TagOnly(e.Tag_var, e.Opnum)) /\ CommitOf(CommitRequest(e))
  BY <1>2, <1>3 DEF CommitOf
<1> QED
  BY <1>2, <1>4, CommitFacts

-----------------------------------------------------------------------------
(* What every step keeps *)

\* What was written stays written.
WritesStay ==
  \A w \in Writers : \A o, t : /\ Wrote(w, o, t) => Wrote(w, o, t)'
                               /\ HasTag(w, o) => HasTag(w, o)'

\* No server goes back.
Forward == \A s \in Servers : AtLeast(Stored(s)', Stored(s))

\* Client d goes on, ends its operation, or begins one.
Moves(d) ==
  /\ Opnum'[d] >= Opnum[d]
  /\ d \in busy' => \/ d \in busy /\ floor'[d] = floor[d] /\ Opnum'[d] = Opnum[d]
                    \/ floor'[d] = completed /\ Opnum'[d] > Opnum[d]

LEMMA StoredType ==
  ASSUME TypeOK, NEW s \in Servers
  PROVE  /\ Stored(s) \in AnyTag /\ local(s) \in TagValue
         /\ server_state_variables[s] \in SingleObjServerState
         /\ \A x \in server_state_variables[s].writesInProgress : x \in WritesInProgress
BY DataTypes DEF TypeOK, Stored, local, SingleObjServerState

LEMMA TagTypes ==
  ASSUME TypeOK, NEW c \in Clients
  PROVE  /\ completed \in Tag /\ completed \in AnyTag
         /\ floor[c] \in Tag /\ floor[c] \in AnyTag
         /\ TagValue_var[c] \in TagValue /\ TagValue_var[c].Tag_var \in AnyTag
         /\ Opnum[c] \in Nat /\ (c \in busy => Opnum[c] >= 1)
BY DataTypes DEF TypeOK

LEMMA WritesFrame ==
  ASSUME log \subseteq log',
         \A w \in Writers : w \in busy /\ Phase[w] = PRAKIS_PUT_TAG =>
           \/ /\ w \in busy' /\ Phase'[w] = PRAKIS_PUT_TAG
              /\ Opnum'[w] = Opnum[w] /\ TagValue_var'[w].Tag_var = TagValue_var[w].Tag_var
           \/ \E e \in log' : /\ e.client = w
                              /\ e.TagValue_var = [Tag_var |-> TagValue_var[w].Tag_var,
                                                   Value |-> <<w, Opnum[w]>>]
  PROVE  WritesStay
<1> SUFFICES ASSUME NEW w \in Writers, NEW o, NEW t
             PROVE  /\ Wrote(w, o, t) => Wrote(w, o, t)'
                    /\ HasTag(w, o) => HasTag(w, o)'
  BY DEF WritesStay
<1>1. Wrote(w, o, t) => Wrote(w, o, t)'
  <2>1. ASSUME NEW e \in log, e.client = w,
               e.TagValue_var = [Tag_var |-> t, Value |-> <<w, o>>]
        PROVE  Wrote(w, o, t)'
    BY <2>1 DEF Wrote
  <2>2. ASSUME w \in busy, Phase[w] = PRAKIS_PUT_TAG, o = Opnum[w],
               t = TagValue_var[w].Tag_var
        PROVE  Wrote(w, o, t)'
    BY <2>2 DEF Wrote
  <2> QED
    BY <2>1, <2>2 DEF Wrote
<1>2. HasTag(w, o) => HasTag(w, o)'
  <2>1. ASSUME NEW e \in log, e.client = w, e.TagValue_var.Value = <<w, o>>
        PROVE  HasTag(w, o)'
    BY <2>1 DEF HasTag
  <2>2. ASSUME w \in busy, Phase[w] = PRAKIS_PUT_TAG, o = Opnum[w]
        PROVE  HasTag(w, o)'
    <3>1. ASSUME NEW e \in log', e.client = w,
                 e.TagValue_var = [Tag_var |-> TagValue_var[w].Tag_var,
                                   Value |-> <<w, Opnum[w]>>]
          PROVE  HasTag(w, o)'
      <4>1. e.TagValue_var.Value = <<w, o>>
        BY <2>2, <3>1
      <4> QED
        BY <3>1, <4>1 DEF HasTag
    <3>2. CASE w \in busy' /\ Phase'[w] = PRAKIS_PUT_TAG /\ Opnum'[w] = Opnum[w]
      BY <2>2, <3>2 DEF HasTag
    <3> QED
      BY <2>2, <3>1, <3>2
  <2> QED
    BY <2>1, <2>2 DEF HasTag
<1> QED
  BY <1>1, <1>2

LEMMA CommitStays ==
  ASSUME WritesStay, NEW tv, CommitOf(tv)
  PROVE  CommitOf(tv)'
BY DEF WritesStay, CommitOf

LEMMA ElementStays ==
  ASSUME WritesStay, NEW s, NEW e, ElementOf(s, e)
  PROVE  ElementOf(s, e)'
BY DEF WritesStay, ElementOf, OwnElement

LEMMA StoredStays ==
  ASSUME TypeOK, TypeOK', Forward, NEW s \in Servers, NEW t \in AnyTag, AtLeast(Stored(s), t)
  PROVE  AtLeast(Stored(s)', t)
<1>1. Stored(s) \in AnyTag /\ AtLeast(Stored(s)', Stored(s))
  BY StoredType DEF Forward
<1>2. Stored(s)' \in AnyTag
  BY DataTypes DEF TypeOK, Stored, local, SingleObjServerState
<1> QED
  BY <1>1, <1>2, TagTransitive

LEMMA HeldStays ==
  ASSUME TypeOK, TypeOK', WritesStay, Forward, NEW s \in Servers, NEW e, Held(s, e),
         e.Tag_var \in AnyTag
  PROVE  Held(s, e)'
BY ElementStays, StoredStays DEF Held

LEMMA SameForward ==
  ASSUME TypeOK, server_state_variables' = server_state_variables
  PROVE  Forward
<1> SUFFICES ASSUME NEW s \in Servers PROVE AtLeast(Stored(s)', Stored(s))
  BY DEF Forward
<1>1. Stored(s)' = Stored(s)
  BY DEF Stored, local
<1> QED
  BY <1>1, StoredType, TagTotal

LEMMA LogOfKeep ==
  ASSUME TypeOK, TypeOK', AtLeast(completed', completed), NEW e, LogOf(e), Moves(e.client)
  PROVE  LogOf(e)'
<1> DEFINE c == e.client
           t == e.TagValue_var.Tag_var
<1>1. c \in Clients /\ t \in Tag /\ t \in AnyTag
  BY DataTypes DEF LogOf
<1>2. completed \in AnyTag /\ completed' \in AnyTag /\ AtLeast(completed', t)
  <2>1. completed \in AnyTag /\ completed' \in AnyTag /\ AtLeast(completed, t)
    BY DataTypes DEF TypeOK, LogOf
  <2> QED
    BY <1>1, <2>1, TagTransitive
<1>3. c \in busy' => AtLeast(floor'[c], t)
  BY DEF Moves, LogOf
<1>4. ASSUME c \in Writers
      PROVE  /\ t \in TagsOf(c)
             /\ \E o \in 1..Opnum'[c] : /\ e.TagValue_var.Value = <<c, o>>
                                        /\ c \in busy' => o < Opnum'[c]
  <2>1. t \in TagsOf(c)
    BY <1>4 DEF LogOf
  <2>2. PICK o \in 1..Opnum[c] : /\ e.TagValue_var.Value = <<c, o>>
                                 /\ c \in busy => o < Opnum[c]
    BY <1>4 DEF LogOf
  <2>3. Opnum[c] \in Nat /\ Opnum'[c] \in Nat
    BY <1>1 DEF TypeOK
  <2>4. o \in 1..Opnum'[c] /\ (c \in busy' => o < Opnum'[c])
    BY <2>2, <2>3 DEF Moves
  <2> QED
    BY <2>1, <2>2, <2>4
<1> QED
  BY <1>1, <1>2, <1>3, <1>4 DEF LogOf, TagsOf

LEMMA FloorsKeep ==
  ASSUME TypeOK, TypeOK', StoreInv, AtLeast(completed', completed),
         \A d \in Clients : Moves(d)
  PROVE  FloorsInv'
<1> SUFFICES ASSUME NEW c \in busy' PROVE AtLeast(completed', floor'[c])
  BY DEF FloorsInv
<1>1. c \in Clients
  BY DEF TypeOK
<1>2. completed \in AnyTag /\ completed' \in AnyTag /\ floor[c] \in AnyTag
  BY <1>1, DataTypes DEF TypeOK
<1>3. CASE floor'[c] = completed
  BY <1>3
<1>4. CASE c \in busy /\ floor'[c] = floor[c]
  <2>1. AtLeast(completed, floor[c])
    BY <1>4 DEF StoreInv, FloorsInv
  <2> QED
    BY <1>2, <1>4, <2>1, TagTransitive
<1> QED
  BY <1>1, <1>3, <1>4 DEF Moves

LEMMA LogKeep ==
  ASSUME TypeOK, TypeOK', StoreInv, UNCHANGED <<completed, log>>, \A d \in Clients : Moves(d)
  PROVE  LogInv' /\ FloorsInv'
<1>1. AtLeast(completed', completed)
  BY TagTotal, InitialTagIsTag DEF TypeOK
<1>2. ASSUME NEW e \in log PROVE LogOf(e)'
  <2>1. LogOf(e) /\ e.client \in Clients
    BY DEF StoreInv, LogInv, LogOf
  <2> QED
    BY <1>1, <2>1, LogOfKeep
<1>3. LogInv'
  BY <1>2 DEF StoreInv, LogInv
<1> QED
  BY <1>1, <1>3, FloorsKeep

LEMMA EntryStays ==
  ASSUME TypeOK, TypeOK', WritesStay, \A w \in Writers : Opnum'[w] >= Opnum[w],
         NEW s \in Servers, NEW x, EntryOK(s, x)
  PROVE  EntryOK(s, x)'
<1>1. PICK w \in Writers : /\ x.Client_id = NameTag[w]
                           /\ IF x.isFinalized THEN HasTag(w, x.opnum)
                              ELSE x.opnum \in 1..Opnum[w] /\ Element(w, x.opnum, s, x.tagValue)
  BY DEF EntryOK
<1>2. Opnum[w] \in Nat /\ Opnum'[w] \in Nat /\ Opnum'[w] >= Opnum[w]
  BY WriterNames DEF TypeOK
<1>3. x.opnum \in 1..Opnum[w] => x.opnum \in 1..Opnum'[w]
  BY <1>2
<1>4. HasTag(w, x.opnum) => HasTag(w, x.opnum)'
  BY DEF WritesStay
<1> QED
  BY <1>1, <1>3, <1>4 DEF EntryOK, Element

LEMMA ServersKeep ==
  ASSUME TypeOK, TypeOK', StoreInv, WritesStay, \A w \in Writers : Opnum'[w] >= Opnum[w],
         server_state_variables' = server_state_variables,
         \A s \in Servers : AtLeast(Stored(s), completed')
  PROVE  ServerInv'
<1> SUFFICES ASSUME NEW s \in Servers PROVE ServerInvOf(s)'
  BY DEF ServerInv
<1>1. ServerInvOf(s)
  BY DEF StoreInv, ServerInv
<1>2. local(s)' = local(s) /\ Stored(s)' = Stored(s)
  BY DEF local, Stored
<1>3. ElementOf(s, local(s))'
  BY <1>1, <1>2, ElementStays DEF ServerInvOf
<1>4. \A x \in server_state_variables[s].writesInProgress : EntryOK(s, x)'
  BY <1>1, EntryStays DEF ServerInvOf
<1> QED
  BY <1>1, <1>2, <1>3, <1>4 DEF ServerInvOf

-----------------------------------------------------------------------------
(* Clients that do nothing *)

\* Server s keeps what writer w has asked of it: the element, then its commit.
WriterServed(w, s) ==
  /\ w \in busy /\ Phase[w] = PRAKIS_PUT_DATA =>
       /\ InList(s, w, Opnum[w]) => InList(s, w, Opnum[w])'
       /\ \A m \in Messages(replies'[w][s]) :
            m \in Messages(replies[w][s]) \/ Proposed(w, m.TagValue_var.Tag_var)
       /\ HasAnswered(s, w)' => HasAnswered(s, w) \/ InList(s, w, Opnum[w])'
  /\ w \in busy /\ Phase[w] = PRAKIS_PUT_TAG =>
       \/ AtLeast(Stored(s)', TagValue_var[w].Tag_var)
       \/ /\ HasAnswered(s, w)' => HasAnswered(s, w)
          /\ InList(s, w, Opnum[w]) => InList(s, w, Opnum[w])'

\* Server s sends reader r an element it holds, to a query one not below the floor.
ReaderServed(r, s) ==
  \A m \in Messages(replies'[r][s]) :
    \/ m \in Messages(replies[r][s])
    \/ /\ Held(s, m.TagValue_var)'
       /\ Phase[r] = PRAKIS_GET_TAG_DATA => AtLeast(m.TagValue_var.Tag_var, floor[r])

LEMMA RequestsKeep ==
  ASSUME NEW w \in Writers, SameClient(w), RequestsShrink(w), NEW s \in Servers,
         WriterRequests(w, s)
  PROVE  WriterRequests(w, s)'
<1> SUFFICES ASSUME NEW i \in Incarnations, NEW m \in Messages(requests'[w][i][s])
             PROVE  (/\ m \in Current(w)
                     /\ m.TagValue_var.Opnum = Opnum[w]
                     /\ IF Phase[w] = PRAKIS_PUT_DATA
                          THEN /\ Element(w, Opnum[w], s, m.TagValue_var)
                               /\ m.TagValue_var.Tag_var.Client_id = NameTag[w]
                          ELSE m.TagValue_var.Tag_var = TagValue_var[w].Tag_var)'
  BY DEF WriterRequests
<1>1. m \in Messages(requests[w][i][s])
  BY WriterNames DEF RequestsShrink, Shrinks
<1>2. Current(w)' = Current(w)
  BY SameCurrent
<1> QED
  BY <1>1, <1>2 DEF WriterRequests, SameClient, Element

LEMMA WriterKeep ==
  ASSUME TypeOK, TypeOK', NEW w \in Writers, WriterInvOf(w), SameClient(w), RequestsShrink(w),
         Forward, \A s \in Servers : WriterServed(w, s)
  PROVE  WriterInvOf(w)'
<1>1. \A s \in Servers : WriterRequests(w, s)'
  BY RequestsKeep DEF WriterInvOf
<1>2. ASSUME w \in busy, Phase[w] = PRAKIS_PUT_DATA
      PROVE  /\ (IF responders[w] = {} THEN TagValue_var[w].Tag_var = LowestTag
                                       ELSE Proposed(w, TagValue_var[w].Tag_var))'
             /\ \A s \in Servers :
                  /\ \A m \in Messages(replies'[w][s]) : Proposed(w, m.TagValue_var.Tag_var)'
                  /\ (HasAnswered(s, w) => InList(s, w, Opnum[w]))'
  <2>1. \A t : Proposed(w, t)' <=> Proposed(w, t)
    BY DEF Proposed, SameClient, TagsOf
  <2>2. (IF responders[w] = {} THEN TagValue_var[w].Tag_var = LowestTag
                               ELSE Proposed(w, TagValue_var[w].Tag_var))'
    BY <1>2, <2>1 DEF WriterInvOf, SameClient
  <2>3. ASSUME NEW s \in Servers, NEW m \in Messages(replies'[w][s])
        PROVE  Proposed(w, m.TagValue_var.Tag_var)'
    BY <1>2, <2>1, <2>3 DEF WriterInvOf, WriterServed
  <2>4. ASSUME NEW s \in Servers, HasAnswered(s, w)'
        PROVE  InList(s, w, Opnum[w])'
    BY <1>2, <2>4 DEF WriterInvOf, WriterServed
  <2> QED
    BY <2>2, <2>3, <2>4
<1>3. ASSUME w \in busy, Phase[w] = PRAKIS_PUT_TAG
      PROVE  /\ Proposed(w, TagValue_var[w].Tag_var)'
             /\ \A s \in Servers :
                  (\/ AtLeast(Stored(s), TagValue_var[w].Tag_var)
                   \/ ~ HasAnswered(s, w) /\ InList(s, w, Opnum[w]))'
  <2>1. Proposed(w, TagValue_var[w].Tag_var)'
    BY <1>3 DEF WriterInvOf, Proposed, SameClient, TagsOf
  <2>2. ASSUME NEW s \in Servers
        PROVE (\/ AtLeast(Stored(s), TagValue_var[w].Tag_var)
               \/ ~ HasAnswered(s, w) /\ InList(s, w, Opnum[w]))'
    <3>1. TagValue_var'[w] = TagValue_var[w] /\ TagValue_var[w].Tag_var \in AnyTag
      BY TagTypes, WriterNames DEF SameClient
    <3>2. CASE AtLeast(Stored(s), TagValue_var[w].Tag_var)
      BY <3>1, <3>2, StoredStays
    <3>3. CASE ~ HasAnswered(s, w) /\ InList(s, w, Opnum[w])
      BY <1>3, <3>1, <3>3 DEF WriterServed
    <3> QED
      BY <1>3, <3>2, <3>3 DEF WriterInvOf
  <2> QED
    BY <2>1, <2>2
<1>4. /\ w \in busy' <=> w \in busy
      /\ Phase'[w] = Phase[w]
  BY DEF SameClient
<1> QED
  BY <1>1, <1>2, <1>3, <1>4 DEF WriterInvOf

LEMMA ReaderKeep ==
  ASSUME TypeOK, TypeOK', NEW r \in Readers, ReaderInvOf(r), SameClient(r), RequestsShrink(r),
         WritesStay, Forward, \A s \in Servers : ReaderServed(r, s)
  PROVE  ReaderInvOf(r)'
<1> r \in Clients
  BY DEF Clients
<1>1. ASSUME NEW i \in Incarnations, NEW s \in Servers, NEW m \in Messages(requests'[r][i][s]),
             m.Phase = PRAKIS_RELAY_DATA
      PROVE  CommitOf(m.TagValue_var)'
  <2>1. m \in Messages(requests[r][i][s])
    BY DEF RequestsShrink, Shrinks
  <2>2. CommitOf(m.TagValue_var)
    BY <1>1, <2>1 DEF ReaderInvOf
  <2> QED
    BY <2>2, CommitStays
<1>2. /\ r \in busy' <=> r \in busy
      /\ Phase'[r] = Phase[r] /\ TagValue_var'[r] = TagValue_var[r] /\ floor'[r] = floor[r]
      /\ rx_state'[r] = rx_state[r] /\ responders'[r] = responders[r]
      /\ IsOnePhase'[r] = IsOnePhase[r]
  BY DEF SameClient
<1>3. ASSUME r \in busy, NEW s \in Servers, NEW m \in Messages(replies'[r][s])
      PROVE  /\ Held(s, m.TagValue_var)'
             /\ Phase[r] = PRAKIS_GET_TAG_DATA => AtLeast(m.TagValue_var.Tag_var, floor[r])
  <2>1. CASE m \in Messages(replies[r][s])
    <3>1. /\ Held(s, m.TagValue_var)
          /\ Phase[r] = PRAKIS_GET_TAG_DATA => AtLeast(m.TagValue_var.Tag_var, floor[r])
      BY <1>3, <2>1 DEF ReaderInvOf
    <3>2. m.TagValue_var.Tag_var \in AnyTag
      <4>1. replies[r][s] \in Seq(Message)
        BY DEF TypeOK
      <4>2. m \in Message
        BY <2>1, <4>1 DEF Messages
      <4> QED
        BY <4>2, MessageType
    <3> QED
      BY <3>1, <3>2, HeldStays
  <2> QED
    BY <2>1 DEF ReaderServed
<1>4. ASSUME r \in busy, NEW e \in rx_state[r]
      PROVE  \E s \in Servers : e.CodeIndex = s /\ Held(s, e)'
  <2>1. PICK s \in Servers : e.CodeIndex = s /\ Held(s, e)
    BY <1>4 DEF ReaderInvOf
  <2>2. e \in TagValue
    BY DEF TypeOK
  <2>3. Held(s, e)'
    BY <2>1, <2>2, DataTypes, HeldStays
  <2> QED
    BY <2>1, <2>3
<1>5. Asked(r) => Asked(r)'
  BY <1>2, CommitStays DEF Asked
<1>6. ASSUME NEW s \in Servers, AtLeast(Stored(s), TagValue_var[r].Tag_var)
      PROVE  AtLeast(Stored(s)', TagValue_var[r].Tag_var)
  BY <1>6, TagTypes, StoredStays
<1>7. ASSUME r \in busy, Phase[r] = PRAKIS_GET_TAG_DATA
      PROVE  (/\ IF responders[r] = {} THEN TagValue_var[r].Tag_var = LowestTag ELSE Asked(r)
              /\ \A s \in Servers :
                   s \in responders[r] /\ IsOnePhase[r] =>
                     AtLeast(Stored(s), TagValue_var[r].Tag_var)
              /\ \A e \in rx_state[r] : e.Tag_var = TagValue_var[r].Tag_var)'
  BY <1>2, <1>5, <1>6, <1>7 DEF ReaderInvOf
<1>8. ASSUME r \in busy, Phase[r] = PRAKIS_RELAY_DATA
      PROVE  (/\ Asked(r)
              /\ \A e, f \in rx_state[r] :
                   e.Tag_var = f.Tag_var /\ e.CodeIndex = f.CodeIndex => e = f)'
  BY <1>2, <1>5, <1>8 DEF ReaderInvOf
<1> QED
  BY <1>1, <1>2, <1>3, <1>4, <1>7, <1>8 DEF ReaderInvOf

LEMMA IdleServed ==
  ASSUME TypeOK, NEW d \in Clients, Idle(d), server_state_variables' = server_state_variables
  PROVE  /\ SameClient(d) /\ RequestsShrink(d) /\ Moves(d)
         /\ \A s \in Servers : WriterServed(d, s) /\ ReaderServed(d, s)
<1>1. SameClient(d) /\ replies'[d] = replies[d]
  BY DEF Idle
<1>2. RequestsShrink(d)
  BY SameShrinks DEF Idle, RequestsShrink
<1>3. ASSUME NEW s \in Servers PROVE WriterServed(d, s) /\ ReaderServed(d, s)
  <2>1. InList(s, d, Opnum[d])' <=> InList(s, d, Opnum[d])
    BY <1>1 DEF InList, SameClient
  <2>2. HasAnswered(s, d)' <=> HasAnswered(s, d)
    BY <1>1 DEF HasAnswered, SameClient
  <2> QED
    BY <1>1, <2>1, <2>2 DEF WriterServed, ReaderServed
<1>4. Moves(d)
  BY <1>1, TagTypes DEF Moves, SameClient
<1> QED
  BY <1>1, <1>2, <1>3, <1>4

-----------------------------------------------------------------------------
(* Steps of a client *)

\* Nobody but client c takes part in the step, and no server does.
LEMMA StoreByClient ==
  ASSUME TypeOK, TypeOK', StoreInv, NEW c \in Clients, WritesStay, Moves(c),
         server_state_variables' = server_state_variables,
         \A d \in Clients : d # c => Idle(d),
         c \in Writers => WriterInvOf(c)', c \in Readers => ReaderInvOf(c)',
         LogInv', FloorsInv', \A s \in Servers : AtLeast(Stored(s), completed')
  PROVE  StoreInv'
<1>1. Forward
  BY SameForward
<1>2. \A d \in Clients : Moves(d)
  BY IdleServed
<1>3. ServerInv'
  <2>1. \A w \in Writers : Opnum'[w] >= Opnum[w]
    BY <1>2, WriterNames DEF Moves
  <2> QED
    BY <2>1, ServersKeep
<1>4. \A w \in Writers : WriterInvOf(w)'
  <2> SUFFICES ASSUME NEW w \in Writers, w # c PROVE WriterInvOf(w)'
    OBVIOUS
  <2>1. w \in Clients /\ Idle(w) /\ WriterInvOf(w)
    BY WriterNames DEF StoreInv
  <2> QED
    BY <1>1, <2>1, IdleServed, WriterKeep
<1>5. \A r \in Readers : ReaderInvOf(r)'
  <2> SUFFICES ASSUME NEW r \in Readers, r # c PROVE ReaderInvOf(r)'
    OBVIOUS
  <2>1. r \in Clients /\ Idle(r) /\ ReaderInvOf(r)
    BY DEF StoreInv, Clients
  <2> QED
    BY <1>1, <2>1, IdleServed, ReaderKeep
<1> QED
  BY <1>3, <1>4, <1>5 DEF StoreInv

LEMMA StoredIsCompleted ==
  ASSUME StoreInv
  PROVE  \A s \in Servers : AtLeast(Stored(s), completed)
BY DEF StoreInv, ServerInv, ServerInvOf

\* Of the writes, the others are what they were.
LEMMA OthersWrites ==
  ASSUME NEW c \in Clients, \A d \in Clients : d # c => Idle(d),
         log \subseteq log',
         c \in Writers /\ c \in busy /\ Phase[c] = PRAKIS_PUT_TAG =>
           \/ /\ c \in busy' /\ Phase'[c] = PRAKIS_PUT_TAG
              /\ Opnum'[c] = Opnum[c] /\ TagValue_var'[c].Tag_var = TagValue_var[c].Tag_var
           \/ \E e \in log' : /\ e.client = c
                              /\ e.TagValue_var = [Tag_var |-> TagValue_var[c].Tag_var,
                                                   Value |-> <<c, Opnum[c]>>]
  PROVE  WritesStay
<1>1. ASSUME NEW w \in Writers, w # c, w \in busy, Phase[w] = PRAKIS_PUT_TAG
      PROVE  /\ w \in busy' /\ Phase'[w] = PRAKIS_PUT_TAG
             /\ Opnum'[w] = Opnum[w] /\ TagValue_var'[w].Tag_var = TagValue_var[w].Tag_var
  BY <1>1, WriterNames DEF Idle, SameClient
<1> QED
  BY <1>1, WritesFrame

\* A client that ends has waited for every server.
LEMMA QuorumIsAll ==
  ASSUME AllServersNeeded, TypeOK, ChannelInv, NEW c \in Clients, HasQuorum(c)
  PROVE  responders[c] = Servers /\ responders[c] # {}
<1>1. num_responses[c] = K /\ c \in busy /\ Counts(c)
  BY DataTypes DEF HasQuorum, Counts
<1>2. num_responses[c] = Cardinality(responders[c])
  BY <1>1 DEF ChannelInv, ChannelInvOf, Counted
<1>3. responders[c] \subseteq Servers /\ IsFiniteSet(Servers)
  BY ServersAssumption DEF TypeOK
<1>4. responders[c] = Servers
  BY <1>1, <1>2, <1>3, FS_Subset DEF AllServersNeeded
<1> QED
  BY <1>4, ServersAssumption

\* Before it starts, and when it has heard of every server, a writer has no request
\* under way.
LEMMA NoRequests ==
  ASSUME TypeOK, ChannelInv, StoreInv, NEW w \in Writers,
         w \notin busy \/ (Phase[w] # PRAKIS_RELAY_DATA /\ responders[w] = Servers)
  PROVE  \A i \in Incarnations, s \in Servers : Messages(requests[w][i][s]) = {}
<1> SUFFICES ASSUME NEW i \in Incarnations, NEW s \in Servers,
                    NEW m \in Messages(requests[w][i][s])
             PROVE  FALSE
  OBVIOUS
<1>1. m \in Current(w)
  BY DEF StoreInv, WriterInvOf, WriterRequests
<1>2. w \in busy
  BY <1>1 DEF Current
<1>3. Counts(w) /\ s \in responders[w]
  BY <1>2 DEF Counts
<1> QED
  BY <1>1, <1>3, WriterNames DEF ChannelInv, ChannelInvOf, OneCurrent

\* A phase of a writer begins with one request to each server at most.
LEMMA PhaseRequests ==
  ASSUME TypeOK, TypeOK', NEW w \in Writers, NEW opnum \in Nat, NEW phase \in Phases,
         NEW payload \in [Servers -> TagValue], SendToServers(w, opnum, phase, payload),
         \A i \in Incarnations, s \in Servers : Messages(requests[w][i][s]) = {},
         w \in busy', Opnum'[w] = opnum, Phase'[w] = phase,
         \A s \in Servers :
           /\ payload[s].Opnum = opnum
           /\ IF phase = PRAKIS_PUT_DATA
                THEN /\ Element(w, opnum, s, payload[s])
                     /\ payload[s].Tag_var.Client_id = NameTag[w]
                ELSE payload[s].Tag_var = TagValue_var'[w].Tag_var
  PROVE  \A s \in Servers : WriterRequests(w, s)'
<1> w \in Clients
  BY WriterNames
<1> SUFFICES ASSUME NEW s \in Servers, NEW i \in Incarnations,
                    NEW m \in Messages(requests'[w][i][s])
             PROVE  (/\ m \in Current(w)
                     /\ m.TagValue_var.Opnum = Opnum[w]
                     /\ IF Phase[w] = PRAKIS_PUT_DATA
                          THEN /\ Element(w, Opnum[w], s, m.TagValue_var)
                               /\ m.TagValue_var.Tag_var.Client_id = NameTag[w]
                          ELSE m.TagValue_var.Tag_var = TagValue_var[w].Tag_var)'
  BY DEF WriterRequests
<1> DEFINE n == [Opnum |-> opnum, Phase |-> phase, TagValue_var |-> payload[s]]
<1>1. n \in Message
  BY SendEffect
<1>2. m = n
  <2>1. \/ requests'[w][i][s] = requests[w][i][s]
        \/ requests'[w][i][s] = Append(requests[w][i][s], n)
    BY SendEffect
  <2>2. requests[w][i][s] \in Seq(Message)
    BY DEF TypeOK
  <2> HIDE DEF n
  <2>3. Messages(Append(requests[w][i][s], n)) = Messages(requests[w][i][s]) \cup {n}
    BY <1>1, <2>2, SendMessages
  <2> QED
    BY <2>1, <2>3
<1>3. n.Opnum = opnum /\ n.Phase = phase /\ n.TagValue_var = payload[s]
  OBVIOUS
<1> HIDE DEF n
<1>4. (m \in Current(w))'
  BY <1>1, <1>2, <1>3 DEF Current
<1> QED
  BY <1>2, <1>3, <1>4 DEF Element

LEMMA StartWriteStore ==
  ASSUME TypeOK, TypeOK', ChannelInv, StoreInv, NEW w \in Clients, StartWrite(w)
  PROVE  StoreInv'
<1> DEFINE payload == [s \in Servers |-> PutElement(w, s)]
<1>1. w \in Writers /\ payload \in [Servers -> TagValue]
      /\ StartOperation(w, PRAKIS_PUT_DATA, payload)
  BY StartType
<1>2. \A s \in Servers : payload[s] = PutElement(w, s)
  OBVIOUS
<1> HIDE DEF payload
<1>3. PRAKIS_PUT_DATA \in Phases /\ Opnum[w] \in Nat /\ Opnum[w] + 1 \in Nat
  BY DataTypes, TagTypes
<1>4. /\ w \notin busy /\ busy' = busy \cup {w} /\ Opnum'[w] = Opnum[w] + 1
      /\ floor'[w] = completed /\ Phase'[w] = PRAKIS_PUT_DATA
      /\ EnterPhase(w, PRAKIS_PUT_DATA, TagOnly(LowestTag, 0))
      /\ SendToServers(w, Opnum[w] + 1, PRAKIS_PUT_DATA, payload)
      /\ UNCHANGED <<server_state_variables, processVars, completed, log>>
      /\ \A d \in Clients : d # w => Idle(d)
  BY <1>1, <1>3, StartOperationEffect
<1>5. /\ responders'[w] = {} /\ TagValue_var'[w] = TagOnly(LowestTag, 0)
      /\ \A s \in Servers : replies'[w][s] = <<>>
  BY <1>4, EnterPhaseEffect
<1>6. Moves(w) /\ \A d \in Clients : Moves(d)
  <2>1. Moves(w)
    BY <1>3, <1>4 DEF Moves
  <2> QED
    BY <1>4, <2>1, IdleServed
<1>7. WritesStay
  BY <1>4, OthersWrites
<1>8. LogInv' /\ FloorsInv'
  BY <1>4, <1>6, LogKeep
<1>9. \A s \in Servers : WriterRequests(w, s)'
  <2>1. \A i \in Incarnations, s \in Servers : Messages(requests[w][i][s]) = {}
    BY <1>1, <1>4, NoRequests
  <2>2. \A s \in Servers :
          /\ payload[s].Opnum = Opnum[w] + 1
          /\ Element(w, Opnum[w] + 1, s, payload[s])
          /\ payload[s].Tag_var.Client_id = NameTag[w]
    <3> SUFFICES ASSUME NEW s \in Servers
                 PROVE  /\ PutElement(w, s).Opnum = Opnum[w] + 1
                        /\ Element(w, Opnum[w] + 1, s, PutElement(w, s))
                        /\ PutElement(w, s).Tag_var.Client_id = NameTag[w]
      BY <1>2
    <3>1. /\ PutElement(w, s).Tag_var = [Version_num |-> 0, Client_id |-> NameTag[w]]
          /\ PutElement(w, s).Value = <<w, Opnum[w] + 1>>
          /\ PutElement(w, s).CodeIndex = s /\ PutElement(w, s).Opnum = Opnum[w] + 1
      BY DEF PutElement
    <3> QED
      BY <3>1 DEF Element
  <2> QED
    BY <1>1, <1>3, <1>4, <2>1, <2>2, PhaseRequests
<1>10. WriterInvOf(w)'
  <2>1. \A s \in Servers : ~ HasAnswered(s, w)' /\ Messages(replies'[w][s]) = {}
    BY <1>5, EmptyMessages DEF HasAnswered
  <2>2. TagValue_var'[w].Tag_var = LowestTag
    BY <1>5, DataTypes
  <2>3. Phase'[w] # PRAKIS_PUT_TAG
    BY <1>4, PhasesDiffer
  <2> QED
    BY <1>5, <1>9, <2>1, <2>2, <2>3 DEF WriterInvOf
<1>11. \A s \in Servers : AtLeast(Stored(s), completed')
  BY <1>4, StoredIsCompleted
<1> QED
  BY <1>1, <1>4, <1>6, <1>7, <1>8, <1>10, <1>11, WriterNames, StoreByClient

\* A reader begins or ends: what it has sent stays, and it sends nothing to commit.
LEMMA ReaderRequests ==
  ASSUME TypeOK, WritesStay, NEW r \in Readers, ReaderInvOf(r), NEW opnum \in Nat,
         NEW phase \in Phases, NEW tv \in TagValue, SendToServers(r, opnum, phase, ToAll(tv)),
         phase = PRAKIS_RELAY_DATA => CommitOf(tv)
  PROVE  \A i \in Incarnations, s \in Servers : \A m \in Messages(requests'[r][i][s]) :
           m.Phase = PRAKIS_RELAY_DATA => CommitOf(m.TagValue_var)'
<1> r \in Clients
  BY DEF Clients
<1> SUFFICES ASSUME NEW i \in Incarnations, NEW s \in Servers,
                    NEW m \in Messages(requests'[r][i][s]), m.Phase = PRAKIS_RELAY_DATA
             PROVE  CommitOf(m.TagValue_var)'
  OBVIOUS
<1> DEFINE n == [Opnum |-> opnum, Phase |-> phase, TagValue_var |-> tv]
<1>1. ToAll(tv) \in [Servers -> TagValue] /\ ToAll(tv)[s] = tv
  BY ToAllType
<1>2. n \in Message
  BY <1>1, SendEffect
<1>3. \/ requests'[r][i][s] = requests[r][i][s]
      \/ requests'[r][i][s] = Append(requests[r][i][s], n)
  BY <1>1, SendEffect
<1>4. requests[r][i][s] \in Seq(Message)
  BY DEF TypeOK
<1>5. n.Phase = phase /\ n.TagValue_var = tv
  OBVIOUS
<1> HIDE DEF n
<1>6. m \in Messages(requests[r][i][s]) \/ m = n
  <2>1. Messages(Append(requests[r][i][s], n)) = Messages(requests[r][i][s]) \cup {n}
    BY <1>2, <1>4, SendMessages
  <2> QED
    BY <1>3, <2>1
<1>7. CommitOf(m.TagValue_var)
  BY <1>5, <1>6 DEF ReaderInvOf
<1> QED
  BY <1>7, CommitStays

LEMMA StartReadStore ==
  ASSUME TypeOK, TypeOK', StoreInv, NEW r \in Clients, StartRead(r)
  PROVE  StoreInv'
<1> DEFINE tv == TagOnly(ZeroTag, 0)
<1>1. r \in Readers /\ ToAll(tv) \in [Servers -> TagValue] /\ tv \in TagValue
      /\ StartOperation(r, PRAKIS_GET_TAG_DATA, ToAll(tv))
  BY StartType, DataTypes
<1> HIDE DEF tv
<1>2. r \notin Writers /\ ReaderInvOf(r)
  BY <1>1, ClientsAssumption DEF StoreInv
<1>3. PRAKIS_GET_TAG_DATA \in Phases /\ Opnum[r] \in Nat /\ Opnum[r] + 1 \in Nat
  BY DataTypes, TagTypes
<1>4. /\ r \notin busy /\ busy' = busy \cup {r} /\ Opnum'[r] = Opnum[r] + 1
      /\ floor'[r] = completed /\ Phase'[r] = PRAKIS_GET_TAG_DATA
      /\ EnterPhase(r, PRAKIS_GET_TAG_DATA, TagOnly(LowestTag, 0))
      /\ SendToServers(r, Opnum[r] + 1, PRAKIS_GET_TAG_DATA, ToAll(tv))
      /\ UNCHANGED <<server_state_variables, processVars, completed, log>>
      /\ \A d \in Clients : d # r => Idle(d)
  BY <1>1, <1>3, StartOperationEffect
<1>5. /\ responders'[r] = {} /\ TagValue_var'[r] = TagOnly(LowestTag, 0) /\ rx_state'[r] = {}
      /\ \A s \in Servers : replies'[r][s] = <<>>
  BY <1>4, EnterPhaseEffect
<1>6. Moves(r) /\ \A d \in Clients : Moves(d)
  <2>1. Moves(r)
    BY <1>3, <1>4 DEF Moves
  <2> QED
    BY <1>4, <2>1, IdleServed
<1>7. WritesStay
  BY <1>2, <1>4, OthersWrites
<1>8. LogInv' /\ FloorsInv'
  BY <1>4, <1>6, LogKeep
<1>9. \A i \in Incarnations, s \in Servers : \A m \in Messages(requests'[r][i][s]) :
        m.Phase = PRAKIS_RELAY_DATA => CommitOf(m.TagValue_var)'
  BY <1>1, <1>2, <1>3, <1>4, <1>7, PhasesDiffer, ReaderRequests
<1>10. ReaderInvOf(r)'
  <2>1. \A s \in Servers : Messages(replies'[r][s]) = {}
    BY <1>5, EmptyMessages
  <2>2. TagValue_var'[r].Tag_var = LowestTag
    BY <1>5, DataTypes
  <2>3. Phase'[r] # PRAKIS_RELAY_DATA
    BY <1>4, PhasesDiffer
  <2> QED
    BY <1>5, <1>9, <2>1, <2>2, <2>3 DEF ReaderInvOf
<1>11. \A s \in Servers : AtLeast(Stored(s), completed')
  BY <1>4, StoredIsCompleted
<1> QED
  BY <1>2, <1>4, <1>6, <1>7, <1>8, <1>10, <1>11, StoreByClient

LEMMA WriterPutsTagStore ==
  ASSUME AllServersNeeded, TypeOK, TypeOK', ChannelInv, StoreInv, NEW w \in Clients,
         WriterPutsTag(w)
  PROVE  StoreInv'
<1>0. PICK tv : tv = TagOnly(TagValue_var[w].Tag_var, Opnum[w])
  OBVIOUS
<1>1. /\ w \in busy /\ HasQuorum(w) /\ Phase[w] = PRAKIS_PUT_DATA
      /\ tv \in TagValue /\ tv.Tag_var = TagValue_var[w].Tag_var /\ tv.Opnum = Opnum[w]
      /\ ToAll(tv) \in [Servers -> TagValue] /\ \A s \in Servers : ToAll(tv)[s] = tv
      /\ EnterPhase(w, PRAKIS_PUT_TAG, tv)
      /\ SendToServers(w, Opnum[w], PRAKIS_PUT_TAG, ToAll(tv))
      /\ UNCHANGED <<server_state_variables, processVars, busy, Opnum, incarnation,
                     historyVars>>
      /\ \A d \in Clients : d # w => Idle(d)
  BY <1>0, WriterPutsTagEffect
<1>2. /\ Phase'[w] = PRAKIS_PUT_TAG /\ TagValue_var'[w] = tv /\ responders'[w] = {}
      /\ \A s \in Servers : replies'[w][s] = <<>>
  <2>1. EnterPhase(w, PRAKIS_PUT_TAG, tv)
    BY <1>1
  <2>2. /\ Phase'[w] = PRAKIS_PUT_TAG /\ responders'[w] = {}
        /\ \A s \in Servers : replies'[w][s] = <<>>
    BY <2>1, EnterPhaseEffect
  <2>3. TagValue_var'[w] = tv
    BY <2>1 DEF EnterPhase, TypeOK
  <2> QED
    BY <2>2, <2>3
<1>3. w \in Writers /\ w \notin Readers
  <2>1. Phase[w] \in PhasesOf(w)
    BY <1>1 DEF ChannelInv, ChannelInvOf, InOrder
  <2> QED
    BY <1>1, <2>1, PhasesDiffer, ClientsAssumption DEF PhasesOf, Clients
<1>4. responders[w] = Servers /\ responders[w] # {}
  BY <1>1, QuorumIsAll
<1>5. WriterInvOf(w)
  BY <1>3 DEF StoreInv
<1>6. Proposed(w, tv.Tag_var) /\ \A s \in Servers : InList(s, w, Opnum[w])
  BY <1>1, <1>4, <1>5 DEF WriterInvOf, HasAnswered
<1>7. /\ historyVars' = historyVars /\ busy' = busy /\ Opnum' = Opnum
      /\ server_state_variables' = server_state_variables
      /\ floor' = floor /\ completed' = completed /\ log' = log
  BY <1>1 DEF historyVars
<1>8. Moves(w) /\ \A d \in Clients : Moves(d)
  <2>1. Moves(w)
    BY <1>7, TagTypes DEF Moves
  <2> QED
    BY <1>1, <1>7, <2>1, IdleServed
<1>9. WritesStay
  BY <1>1, <1>7, PhasesDiffer, OthersWrites
<1>10. LogInv' /\ FloorsInv'
  BY <1>7, <1>8, LogKeep
<1>11. \A s \in Servers : WriterRequests(w, s)'
  <2>1. \A i \in Incarnations, s \in Servers : Messages(requests[w][i][s]) = {}
    BY <1>1, <1>3, <1>4, PhasesDiffer, NoRequests
  <2>2. PRAKIS_PUT_TAG \in Phases /\ PRAKIS_PUT_TAG # PRAKIS_PUT_DATA /\ Opnum[w] \in Nat
    BY DataTypes, PhasesDiffer, TagTypes
  <2>3. \A s \in Servers : /\ ToAll(tv)[s].Opnum = Opnum[w]
                           /\ ToAll(tv)[s].Tag_var = TagValue_var'[w].Tag_var
    BY <1>1, <1>2
  <2>4. w \in busy' /\ Opnum'[w] = Opnum[w] /\ Phase'[w] = PRAKIS_PUT_TAG
    BY <1>1, <1>2, <1>7
  <2>5. /\ ToAll(tv) \in [Servers -> TagValue]
        /\ SendToServers(w, Opnum[w], PRAKIS_PUT_TAG, ToAll(tv))
    BY <1>1
  <2> DEFINE payload == ToAll(tv)
  <2>6. /\ payload \in [Servers -> TagValue]
        /\ SendToServers(w, Opnum[w], PRAKIS_PUT_TAG, payload)
        /\ \A s \in Servers : /\ payload[s].Opnum = Opnum[w]
                              /\ payload[s].Tag_var = TagValue_var'[w].Tag_var
    BY <2>3, <2>5
  <2> HIDE DEF payload
  <2> QED
    BY <1>3, <2>1, <2>2, <2>4, <2>6, PhaseRequests
<1>12. WriterInvOf(w)'
  <2>1. Phase'[w] # PRAKIS_PUT_DATA
    BY <1>2, PhasesDiffer
  <2>2. Proposed(w, TagValue_var[w].Tag_var)'
    BY <1>2, <1>6, <1>7 DEF Proposed, TagsOf
  <2>3. \A s \in Servers : ~ HasAnswered(s, w)' /\ InList(s, w, Opnum[w])'
    BY <1>2, <1>6, <1>7 DEF HasAnswered, InList
  <2> QED
    BY <1>11, <2>1, <2>2, <2>3 DEF WriterInvOf
<1>13. \A s \in Servers : AtLeast(Stored(s), completed')
  BY <1>7, StoredIsCompleted
<1> QED
  BY <1>1, <1>3, <1>7, <1>8, <1>9, <1>10, <1>12, <1>13, StoreByClient

\* One more line of the log, and what has ended is not forgotten.
LEMMA LogGrows ==
  ASSUME TypeOK, TypeOK', StoreInv, NEW e, LogOf(e)', log' = log \cup {e},
         AtLeast(completed', completed), \A d \in Clients : Moves(d),
         e.client \in Writers =>
           \A f \in log : f.client \in Writers =>
             /\ f.TagValue_var.Tag_var # e.TagValue_var.Tag_var
             /\ f.TagValue_var.Value # e.TagValue_var.Value
  PROVE  LogInv' /\ FloorsInv'
<1>1. ASSUME NEW f \in log PROVE LogOf(f)'
  <2>1. LogOf(f) /\ f.client \in Clients
    BY DEF StoreInv, LogInv, LogOf
  <2> QED
    BY <2>1, LogOfKeep
<1>2. \A f, g \in log :
        /\ f.client \in Writers /\ g.client \in Writers
        /\ \/ f.TagValue_var.Tag_var = g.TagValue_var.Tag_var
           \/ f.TagValue_var.Value = g.TagValue_var.Value
        => f = g
  BY DEF StoreInv, LogInv
<1>3. LogInv'
  BY <1>1, <1>2 DEF LogInv
<1> QED
  BY <1>3, FloorsKeep

LEMMA LargerIsHeld ==
  ASSUME TypeOK, StoreInv, NEW t \in AnyTag, \A s \in Servers : AtLeast(Stored(s), t),
         completed' = LargerTag(t, completed)
  PROVE  /\ \A s \in Servers : AtLeast(Stored(s), completed')
         /\ AtLeast(completed', completed) /\ AtLeast(completed', t)
<1>1. completed \in AnyTag
  BY DataTypes DEF TypeOK
<1> QED
  BY <1>1, LargerTagBounds, StoredIsCompleted

LEMMA PutTagCompletesStore ==
  ASSUME AllServersNeeded, TypeOK, TypeOK', ChannelInv, StoreInv, NEW w \in Clients,
         PutTagCompletes(w)
  PROVE  StoreInv'
<1>0. PICK t, e : /\ t = TagValue_var[w].Tag_var
                  /\ e = [client |-> w, floor |-> floor[w],
                          TagValue_var |-> [Tag_var |-> t, Value |-> <<w, Opnum[w]>>]]
  OBVIOUS
<1>1. /\ w \in busy /\ HasQuorum(w) /\ Phase[w] = PRAKIS_PUT_TAG
      /\ busy' = busy \ {w} /\ completed' = LargerTag(t, completed)
      /\ log' = log \cup {e}
      /\ EnterPhase(w, PRAKIS_PUT_TAG, TagOnly(LowestTag, 0))
      /\ UNCHANGED <<server_state_variables, processVars, Opnum, incarnation, requests,
                     drops, floor>>
      /\ \A d \in Clients : d # w => Idle(d)
  BY <1>0, PutTagCompletesEffect
<1>2. /\ e.client = w /\ e.TagValue_var = [Tag_var |-> t, Value |-> <<w, Opnum[w]>>]
      /\ e.TagValue_var.Tag_var = t /\ e.TagValue_var.Value = <<w, Opnum[w]>>
      /\ t = TagValue_var[w].Tag_var
  BY <1>0
<1>3. w \in Writers /\ w \notin Readers
  <2>1. Phase[w] \in PhasesOf(w)
    BY <1>1 DEF ChannelInv, ChannelInvOf, InOrder
  <2> QED
    BY <1>1, <2>1, PhasesDiffer, ClientsAssumption DEF PhasesOf, Clients
<1>4. responders[w] = Servers /\ responders[w] # {}
  BY <1>1, QuorumIsAll
<1>5. WriterInvOf(w)
  BY <1>3 DEF StoreInv
<1>6. Proposed(w, t) /\ \A s \in Servers : AtLeast(Stored(s), t)
  BY <1>1, <1>2, <1>4, <1>5 DEF WriterInvOf, HasAnswered
<1>7. t \in TagsOf(w) /\ t \in Tag /\ t \in AnyTag /\ t.Client_id = NameTag[w]
  BY <1>3, <1>6, TagsOfType DEF Proposed
<1>8. /\ \A s \in Servers : AtLeast(Stored(s), completed')
      /\ AtLeast(completed', completed) /\ AtLeast(completed', t)
  BY <1>1, <1>6, <1>7, LargerIsHeld
<1>9. Moves(w) /\ \A d \in Clients : Moves(d)
  <2>1. Moves(w)
    BY <1>1, TagTypes DEF Moves
  <2> QED
    BY <1>1, <2>1, IdleServed
<1>10. WritesStay
  <2>1. e \in log'
    BY <1>1
  <2> QED
    BY <1>1, <1>2, <2>1, OthersWrites
<1>11. LogOf(e)'
  <2>1. Opnum'[w] = Opnum[w] /\ Opnum[w] \in 1..Opnum[w] /\ w \notin busy'
    BY <1>1, TagTypes
  <2> QED
    BY <1>2, <1>3, <1>7, <1>8, <2>1 DEF LogOf, TagsOf
<1>12. ASSUME NEW f \in log, f.client \in Writers
       PROVE  f.TagValue_var.Tag_var # t /\ f.TagValue_var.Value # <<w, Opnum[w]>>
  <2>1. LogOf(f)
    BY DEF StoreInv, LogInv
  <2>2. ASSUME f.client = w
        PROVE  f.TagValue_var.Tag_var # t /\ f.TagValue_var.Value # <<w, Opnum[w]>>
    <3>1. AtLeast(floor[w], f.TagValue_var.Tag_var) /\ isGreaterTag(t, floor[w])
      BY <1>1, <1>6, <2>1, <2>2 DEF LogOf, Proposed
    <3>2. PICK o \in 1..Opnum[w] : f.TagValue_var.Value = <<w, o>> /\ o < Opnum[w]
      BY <1>1, <2>1, <2>2, <1>3 DEF LogOf
    <3>3. o # Opnum[w]
      BY <3>2, TagTypes
    <3>4. f.TagValue_var.Tag_var # t
      BY <3>1 DEF AtLeast
    <3> QED
      BY <3>2, <3>3, <3>4
  <2>3. ASSUME f.client # w
        PROVE  f.TagValue_var.Tag_var # t /\ f.TagValue_var.Value # <<w, Opnum[w]>>
    <3>1. f.TagValue_var.Tag_var.Client_id = NameTag[f.client]
      BY <1>12, <2>1, TagsOfType DEF LogOf
    <3>2. NameTag[f.client] # NameTag[w]
      BY <1>3, <1>12, <2>3, WriterNames
    <3>3. PICK o \in 1..Opnum[f.client] : f.TagValue_var.Value = <<f.client, o>>
      BY <1>12, <2>1 DEF LogOf
    <3> QED
      BY <1>7, <2>3, <3>1, <3>2, <3>3
  <2> QED
    BY <2>2, <2>3
<1>13. LogInv' /\ FloorsInv'
  BY <1>1, <1>2, <1>8, <1>9, <1>11, <1>12, LogGrows
<1>14. WriterInvOf(w)'
  <2>1. w \notin busy'
    BY <1>1
  <2>2. \A i \in Incarnations, s \in Servers : Messages(requests'[w][i][s]) = {}
    BY <1>1, <1>3, <1>4, PhasesDiffer, NoRequests
  <2> QED
    BY <2>1, <2>2 DEF WriterInvOf, WriterRequests
<1> QED
  BY <1>1, <1>3, <1>8, <1>9, <1>10, <1>13, <1>14, StoreByClient

LEMMA EmulateStore ==
  ASSUME TypeOK, TypeOK', StoreInv, NEW c \in Clients, emulateNewClient(c)
  PROVE  StoreInv'
<1>1. /\ UNCHANGED <<server_state_variables, processVars, busy, Opnum, phaseVars, netVars,
                     historyVars>>
      /\ \A d \in Clients : d # c => Idle(d)
  BY EmulateEffect
<1>2. /\ busy' = busy /\ Opnum' = Opnum /\ Phase' = Phase /\ TagValue_var' = TagValue_var
      /\ responders' = responders /\ rx_state' = rx_state /\ IsOnePhase' = IsOnePhase
      /\ requests' = requests /\ replies' = replies
      /\ floor' = floor /\ completed' = completed /\ log' = log
      /\ server_state_variables' = server_state_variables
  BY <1>1 DEF phaseVars, netVars, historyVars
<1>3. WritesStay /\ Moves(c) /\ \A d \in Clients : Moves(d)
  <2>1. Moves(c)
    BY <1>2, TagTypes DEF Moves
  <2>2. WritesStay
    BY <1>1, <1>2, OthersWrites
  <2> QED
    BY <1>1, <1>2, <2>1, <2>2, IdleServed
<1>4. LogInv' /\ FloorsInv'
  BY <1>2, <1>3, LogKeep
<1>5. ASSUME c \in Writers PROVE WriterInvOf(c)'
  <2>1. WriterInvOf(c)
    BY <1>5 DEF StoreInv
  <2> QED
    BY <1>2, <2>1 DEF WriterInvOf, WriterRequests, Current, HasAnswered, InList, Stored, local,
         Element, Proposed, TagsOf
<1>6. ASSUME c \in Readers PROVE ReaderInvOf(c)'
  <2>1. ReaderInvOf(c)
    BY <1>6 DEF StoreInv
  <2>2. /\ \A s, e : Held(s, e)' <=> Held(s, e)
        /\ \A tv : CommitOf(tv)' <=> CommitOf(tv)
    BY <1>2 DEF Held, ElementOf, OwnElement, CommitOf, Wrote, Stored, local
  <2>3. Asked(c)' <=> Asked(c)
    BY <1>2, <2>2 DEF Asked
  <2> QED
    BY <1>2, <2>1, <2>2, <2>3 DEF ReaderInvOf, Stored, local
<1>7. \A s \in Servers : AtLeast(Stored(s), completed')
  BY <1>2, StoredIsCompleted
<1> QED
  BY <1>1, <1>2, <1>3, <1>4, <1>5, <1>6, <1>7, StoreByClient

\* A read ends with a tag that every server holds.
LEMMA ReadEndsStore ==
  ASSUME TypeOK, TypeOK', StoreInv, NEW r \in Readers, NEW t \in Tag, NEW v,
         \A s \in Servers : AtLeast(Stored(s), t),
         busy' = busy \ {r}, completed' = LargerTag(t, completed),
         log' = log \cup {[client |-> r, floor |-> floor[r],
                           TagValue_var |-> [Tag_var |-> t, Value |-> v]]},
         UNCHANGED <<server_state_variables, Opnum, floor>>,
         \A d \in Clients : d # r => Idle(d),
         WritesStay =>
           \A i \in Incarnations, s \in Servers : \A m \in Messages(requests'[r][i][s]) :
             m.Phase = PRAKIS_RELAY_DATA => CommitOf(m.TagValue_var)'
  PROVE  StoreInv'
<1>1. r \in Clients /\ r \notin Writers
  BY ClientsAssumption DEF Clients
<1>2. t \in AnyTag
  BY InitialTagIsTag
<1>3. /\ \A s \in Servers : AtLeast(Stored(s), completed')
      /\ AtLeast(completed', completed) /\ AtLeast(completed', t)
  BY <1>2, LargerIsHeld
<1>4. Moves(r) /\ \A d \in Clients : Moves(d)
  <2>1. Moves(r)
    BY <1>1, TagTypes DEF Moves
  <2> QED
    BY <2>1, IdleServed
<1>5. WritesStay
  BY <1>1, OthersWrites
<1>6. PICK e : e = [client |-> r, floor |-> floor[r],
                    TagValue_var |-> [Tag_var |-> t, Value |-> v]]
  OBVIOUS
<1>7. e.client = r /\ e.TagValue_var.Tag_var = t /\ log' = log \cup {e}
  BY <1>6
<1>8. LogOf(e)'
  BY <1>1, <1>3, <1>7 DEF LogOf
<1>9. LogInv' /\ FloorsInv'
  BY <1>1, <1>3, <1>4, <1>7, <1>8, LogGrows
<1>10. ReaderInvOf(r)'
  BY <1>5 DEF ReaderInvOf
<1> QED
  BY <1>1, <1>3, <1>4, <1>5, <1>9, <1>10, StoreByClient

\* What a step keeps that only moves client c on.
LEMMA GoesOn ==
  ASSUME TypeOK, TypeOK', StoreInv, NEW c \in Clients,
         UNCHANGED <<server_state_variables, busy, Opnum>>,
         historyVars' = historyVars, \A d \in Clients : d # c => Idle(d),
         c \in Writers => /\ WriterInvOf(c)' /\ Phase'[c] = Phase[c]
                          /\ Phase[c] = PRAKIS_PUT_TAG => TagValue_var'[c] = TagValue_var[c],
         WritesStay /\ c \in Readers => ReaderInvOf(c)'
  PROVE  StoreInv'
<1>1. floor' = floor /\ completed' = completed /\ log' = log
  BY DEF historyVars
<1>2. Moves(c) /\ \A d \in Clients : Moves(d)
  <2>1. Moves(c)
    BY <1>1, TagTypes DEF Moves
  <2> QED
    BY <2>1, IdleServed
<1>3. WritesStay
  BY <1>1, OthersWrites
<1>4. LogInv' /\ FloorsInv'
  BY <1>1, <1>2, LogKeep
<1>5. \A s \in Servers : AtLeast(Stored(s), completed')
  BY <1>1, StoredIsCompleted
<1> QED
  BY <1>2, <1>3, <1>4, <1>5, StoreByClient

LEMMA ReaderPhases ==
  ASSUME TypeOK, ChannelInv, NEW r \in Clients, r \in busy,
         Phase[r] \in {PRAKIS_GET_TAG_DATA, PRAKIS_RELAY_DATA}
  PROVE  r \in Readers /\ r \notin Writers
<1>1. Phase[r] \in PhasesOf(r)
  BY DEF ChannelInv, ChannelInvOf, InOrder
<1> QED
  BY <1>1, PhasesDiffer, ClientsAssumption DEF PhasesOf, Clients

LEMMA ReadInOnePhaseStore ==
  ASSUME AllServersNeeded, TypeOK, TypeOK', ChannelInv, StoreInv, NEW r \in Clients,
         ReadInOnePhase(r)
  PROVE  StoreInv'
<1>1. /\ r \in busy /\ HasQuorum(r) /\ Phase[r] = PRAKIS_GET_TAG_DATA /\ IsOnePhase[r]
      /\ UNCHANGED <<server_state_variables, Opnum, incarnation, requests, drops>>
      /\ \A d \in Clients : d # r => Idle(d)
  BY ReadInOnePhaseEffect
<1>2. r \in Readers /\ r \notin Writers /\ ReaderInvOf(r)
  BY <1>1, ReaderPhases DEF StoreInv
<1>3. CASE /\ busy' = busy \ {r}
           /\ completed' = LargerTag(TagValue_var[r].Tag_var, completed)
           /\ log' = log \cup {[client |-> r, floor |-> floor[r],
                TagValue_var |-> [Tag_var |-> TagValue_var[r].Tag_var,
                                  Value |-> Decoded(rx_state[r])]]}
           /\ floor' = floor
  <2>1. responders[r] = Servers /\ responders[r] # {}
    BY <1>1, QuorumIsAll
  <2>2. Asked(r) /\ \A s \in Servers : AtLeast(Stored(s), TagValue_var[r].Tag_var)
    BY <1>1, <1>2, <2>1 DEF ReaderInvOf
  <2>3. TagValue_var[r].Tag_var \in Tag
    BY <2>2, CommitFacts DEF Asked
  <2>4. WritesStay =>
          \A i \in Incarnations, s \in Servers : \A m \in Messages(requests'[r][i][s]) :
            m.Phase = PRAKIS_RELAY_DATA => CommitOf(m.TagValue_var)'
    BY <1>1, <1>2, CommitStays DEF ReaderInvOf
  <2>5. PICK t, v : /\ t = TagValue_var[r].Tag_var /\ v = Decoded(rx_state[r])
    OBVIOUS
  <2> QED
    BY <1>1, <1>2, <1>3, <2>2, <2>3, <2>4, <2>5, ReadEndsStore
<1>4. CASE UNCHANGED <<busy, phaseVars, replies, historyVars>> /\ Idle(r)
  <2>1. WritesStay => ReaderInvOf(r)'
    BY <1>1, <1>2, <1>4, IdleServed, SameForward, ReaderKeep
  <2>2. /\ UNCHANGED <<server_state_variables, busy, Opnum>> /\ historyVars' = historyVars
    BY <1>1, <1>4
  <2> QED
    BY <1>1, <1>2, <2>1, <2>2, GoesOn
<1> QED
  BY <1>3, <1>4, ReadInOnePhaseEffect

LEMMA ReaderAsksForRelaysStore ==
  ASSUME AllServersNeeded, TypeOK, TypeOK', ChannelInv, StoreInv, NEW r \in Clients,
         ReaderAsksForRelays(r)
  PROVE  StoreInv'
<1>1. /\ r \in busy /\ HasQuorum(r) /\ Phase[r] = PRAKIS_GET_TAG_DATA
      /\ TagValue_var[r] \in TagValue
      /\ EnterPhase(r, PRAKIS_RELAY_DATA, TagValue_var[r])
      /\ SendToServers(r, Opnum[r], PRAKIS_RELAY_DATA, ToAll(TagValue_var[r]))
      /\ UNCHANGED <<server_state_variables, processVars, busy, Opnum, incarnation,
                     historyVars>>
      /\ \A d \in Clients : d # r => Idle(d)
  BY ReaderAsksForRelaysEffect
<1>2. /\ Phase'[r] = PRAKIS_RELAY_DATA /\ TagValue_var'[r] = TagValue_var[r]
      /\ rx_state'[r] = {} /\ \A s \in Servers : replies'[r][s] = <<>>
  BY <1>1, EnterPhaseEffect
<1>3. r \in Readers /\ r \notin Writers /\ ReaderInvOf(r)
  BY <1>1, ReaderPhases DEF StoreInv
<1>4. responders[r] # {}
  BY <1>1, QuorumIsAll
<1>5. Asked(r)
  BY <1>1, <1>3, <1>4 DEF ReaderInvOf
<1>6. ASSUME WritesStay PROVE ReaderInvOf(r)'
  <2>1. \A i \in Incarnations, s \in Servers : \A m \in Messages(requests'[r][i][s]) :
          m.Phase = PRAKIS_RELAY_DATA => CommitOf(m.TagValue_var)'
    BY <1>1, <1>3, <1>5, <1>6, DataTypes, TagTypes, ReaderRequests DEF Asked
  <2>2. Asked(r)'
    BY <1>1, <1>2, <1>5, <1>6, CommitStays DEF Asked, historyVars
  <2>3. \A s \in Servers : Messages(replies'[r][s]) = {}
    BY <1>2, EmptyMessages
  <2> QED
    BY <1>2, <2>1, <2>2, <2>3, PhasesDiffer DEF ReaderInvOf
<1> QED
  BY <1>1, <1>3, <1>6, GoesOn

\* An element that one server holds, the server of its index holds.
LEMMA HeldAtIndex ==
  ASSUME TypeOK, StoreInv, NEW s \in Servers, NEW e, Held(s, e)
  PROVE  e.CodeIndex \in Servers /\ Held(e.CodeIndex, e)
<1>1. CASE e = TagOnly(InitialTag, 0)
  <2>1. e.CodeIndex = FirstServer /\ e.Tag_var = InitialTag
    BY <1>1 DEF TagOnly
  <2>2. FirstServer \in Servers /\ ElementOf(FirstServer, e)
    BY <1>1, ServersAssumption DEF ElementOf
  <2>3. ElementOf(FirstServer, local(FirstServer))
    BY <2>2 DEF StoreInv, ServerInv, ServerInvOf
  <2>4. AtLeast(Stored(FirstServer), InitialTag)
    BY <2>2, <2>3, ElementCommits DEF Stored
  <2> QED
    BY <2>1, <2>2, <2>4 DEF Held
<1>2. CASE OwnElement(s, e)
  BY <1>2 DEF OwnElement, Held
<1> QED
  BY <1>1, <1>2 DEF Held, ElementOf

LEMMA WriterCollects ==
  ASSUME TypeOK, TypeOK', ChannelInv, StoreInv, NEW w \in Writers, NEW s \in Servers,
         CollectReply(w, s)
  PROVE  /\ WriterInvOf(w)'
         /\ Phase[w] = PRAKIS_PUT_TAG => TagValue_var'[w] = TagValue_var[w]
<1> w \in Clients
  BY WriterNames
<1>1. PICK tv \in TagValue : tv = Head(replies[w][s]).TagValue_var
  BY CollectReplyEffect
<1>2. /\ w \in busy /\ replies[w][s] # <<>>
      /\ \/ /\ Phase[w] = PRAKIS_PUT_TAG /\ TagValue_var' = TagValue_var
         \/ /\ Phase[w] # PRAKIS_PUT_TAG
            /\ TagValue_var'[w] = IF IsSmallerThan(TagValue_var[w].Tag_var, tv.Tag_var)
                                    THEN TagOnly(tv.Tag_var, tv.Opnum) ELSE TagValue_var[w]
      /\ responders'[w] = responders[w] \cup {s}
      /\ replies'[w][s] = Tail(replies[w][s])
      /\ \A t \in Servers : t # s => replies'[w][t] = replies[w][t]
      /\ UNCHANGED <<server_state_variables, busy, Opnum, Phase, incarnation,
                     tagsRequested, requests, drops, historyVars>>
  BY <1>1, CollectReplyEffect
<1>3. /\ Head(replies[w][s]) \in Messages(replies[w][s])
      /\ \A q \in Servers : Messages(replies'[w][q]) \subseteq Messages(replies[w][q])
  BY <1>2, ReceiveType
<1>4. \A q \in Servers : HasAnswered(q, w)' => HasAnswered(q, w)
  BY <1>2 DEF HasAnswered
<1>5. WriterInvOf(w)
  BY DEF StoreInv
<1>6. /\ \A t : Proposed(w, t)' <=> Proposed(w, t)
      /\ \A q \in Servers : InList(q, w, Opnum[w])' <=> InList(q, w, Opnum[w])
      /\ \A q \in Servers : Stored(q)' = Stored(q)
      /\ Current(w)' = Current(w)
  BY <1>2 DEF Proposed, TagsOf, InList, Stored, local, Current, historyVars
<1>7. \A q \in Servers : WriterRequests(w, q)'
  <2> SUFFICES ASSUME NEW q \in Servers, NEW i \in Incarnations,
                      NEW m \in Messages(requests'[w][i][q])
               PROVE  (/\ m \in Current(w)
                       /\ m.TagValue_var.Opnum = Opnum[w]
                       /\ IF Phase[w] = PRAKIS_PUT_DATA
                            THEN /\ Element(w, Opnum[w], q, m.TagValue_var)
                                 /\ m.TagValue_var.Tag_var.Client_id = NameTag[w]
                            ELSE m.TagValue_var.Tag_var = TagValue_var[w].Tag_var)'
    BY DEF WriterRequests
  <2>1. /\ m \in Current(w)
        /\ m.TagValue_var.Opnum = Opnum[w]
        /\ IF Phase[w] = PRAKIS_PUT_DATA
             THEN /\ Element(w, Opnum[w], q, m.TagValue_var)
                  /\ m.TagValue_var.Tag_var.Client_id = NameTag[w]
             ELSE m.TagValue_var.Tag_var = TagValue_var[w].Tag_var
    BY <1>2, <1>5 DEF WriterInvOf, WriterRequests
  <2>2. Phase[w] = PRAKIS_PUT_DATA \/ Phase[w] = PRAKIS_PUT_TAG
    <3>1. Phase[w] \in PhasesOf(w)
      BY <1>2 DEF ChannelInv, ChannelInvOf, InOrder
    <3> QED
      BY <3>1, WriterNames DEF PhasesOf
  <2>3. Phase[w] # PRAKIS_PUT_DATA => TagValue_var' = TagValue_var
    BY <1>2, <2>2
  <2> QED
    BY <1>2, <1>6, <2>1, <2>3 DEF Element
<1>8. ASSUME Phase[w] = PRAKIS_PUT_DATA
      PROVE  Proposed(w, TagValue_var'[w].Tag_var)
  <2>1. Proposed(w, tv.Tag_var) /\ tv.Tag_var \in AnyTag
    BY <1>1, <1>2, <1>3, <1>5, <1>8, DataTypes DEF WriterInvOf
  <2>2. TagOnly(tv.Tag_var, tv.Opnum).Tag_var = tv.Tag_var
    BY DEF TagOnly
  <2>3. Phase[w] # PRAKIS_PUT_TAG
    BY <1>8, PhasesDiffer
  <2>4. CASE responders[w] = {}
    <3>1. TagValue_var[w].Tag_var = LowestTag
      BY <1>2, <1>5, <1>8, <2>4 DEF WriterInvOf
    <3>2. IsSmallerThan(LowestTag, tv.Tag_var)
      BY <2>1, TagsOfType, InitialTagIsTag, TagComparisonsAgree DEF Proposed
    <3> QED
      BY <1>2, <2>1, <2>2, <2>3, <3>1, <3>2
  <2>5. CASE responders[w] # {}
    <3>1. Proposed(w, TagValue_var[w].Tag_var)
      BY <1>2, <1>5, <1>8, <2>5 DEF WriterInvOf
    <3> QED
      BY <1>2, <2>1, <2>2, <2>3, <3>1
  <2> QED
    BY <2>4, <2>5
<1>9. CASE Phase[w] = PRAKIS_PUT_TAG
  <2>1. Phase'[w] # PRAKIS_PUT_DATA /\ TagValue_var'[w] = TagValue_var[w]
    BY <1>2, <1>9, PhasesDiffer
  <2>2. Proposed(w, TagValue_var[w].Tag_var)'
    BY <1>2, <1>5, <1>6, <1>9, <2>1 DEF WriterInvOf
  <2>3. \A q \in Servers : (\/ AtLeast(Stored(q), TagValue_var[w].Tag_var)
                            \/ ~ HasAnswered(q, w) /\ InList(q, w, Opnum[w]))'
    <3> SUFFICES ASSUME NEW q \in Servers
                 PROVE  \/ AtLeast(Stored(q)', TagValue_var'[w].Tag_var)
                        \/ ~ HasAnswered(q, w)' /\ InList(q, w, Opnum[w])'
      OBVIOUS
    <3>1. \/ AtLeast(Stored(q), TagValue_var[w].Tag_var)
          \/ ~ HasAnswered(q, w) /\ InList(q, w, Opnum[w])
      BY <1>2, <1>5, <1>9 DEF WriterInvOf
    <3> QED
      BY <1>4, <1>6, <2>1, <3>1
  <2> QED
    BY <1>7, <2>1, <2>2, <2>3 DEF WriterInvOf
<1>10. CASE Phase[w] = PRAKIS_PUT_DATA
  <2>1. Phase'[w] = PRAKIS_PUT_DATA /\ Phase[w] # PRAKIS_PUT_TAG /\ w \in busy
        /\ responders'[w] # {}
    BY <1>2, <1>10, PhasesDiffer
  <2>2. Proposed(w, TagValue_var[w].Tag_var)'
    BY <1>6, <1>8, <1>10
  <2>3. ASSUME NEW q \in Servers, NEW m \in Messages(replies'[w][q])
        PROVE  Proposed(w, m.TagValue_var.Tag_var)'
    BY <1>3, <1>5, <1>6, <1>10, <2>1, <2>3 DEF WriterInvOf
  <2>4. ASSUME NEW q \in Servers, HasAnswered(q, w)' PROVE InList(q, w, Opnum[w])'
    BY <1>4, <1>5, <1>6, <1>10, <2>1, <2>4 DEF WriterInvOf
  <2> QED
    BY <1>7, <2>1, <2>2, <2>3, <2>4, PhasesDiffer DEF WriterInvOf
<1>11. CASE Phase[w] # PRAKIS_PUT_DATA /\ Phase[w] # PRAKIS_PUT_TAG
  BY <1>2, <1>7, <1>11 DEF WriterInvOf
<1> QED
  BY <1>9, <1>10, <1>11, PhasesDiffer

LEMMA ReaderCollects ==
  ASSUME TypeOK, TypeOK', ChannelInv, StoreInv, WritesStay, NEW r \in Readers,
         NEW s \in Servers, CollectReply(r, s)
  PROVE  ReaderInvOf(r)'
<1> r \in Clients /\ r \notin Writers
  BY ClientsAssumption DEF Clients
<1>1. PICK tv \in TagValue : tv = Head(replies[r][s]).TagValue_var
  BY CollectReplyEffect
<1>2. /\ r \in busy /\ replies[r][s] # <<>> /\ Phase[r] # PRAKIS_RELAY_DATA
      /\ num_responses'[r] = num_responses[r] + 1
      /\ responders'[r] = responders[r] \cup {s}
      /\ replies'[r][s] = Tail(replies[r][s])
      /\ \A t \in Servers : t # s => replies'[r][t] = replies[r][t]
      /\ UNCHANGED <<server_state_variables, busy, Opnum, Phase, incarnation,
                     tagsRequested, requests, drops, historyVars>>
  BY CollectReplyEffect
<1>3. Phase[r] = PRAKIS_GET_TAG_DATA /\ Phase[r] # PRAKIS_PUT_TAG /\ Counts(r)
  <2>1. Phase[r] \in PhasesOf(r) \ {PRAKIS_READ_COMPLETE}
    BY <1>2 DEF ChannelInv, ChannelInvOf, InOrder
  <2> QED
    BY <1>2, <2>1, PhasesDiffer DEF PhasesOf, Counts
<1>4. /\ TagValue_var'[r] = IF IsSmallerThan(TagValue_var[r].Tag_var, tv.Tag_var)
                              THEN TagOnly(tv.Tag_var, tv.Opnum) ELSE TagValue_var[r]
      /\ IsOnePhase'[r] <=> StaysOnePhase(r, tv)
      /\ rx_state'[r] = IF StaysOnePhase(r, tv) THEN AddChunk(rx_state[r], tv) ELSE {}
  BY <1>1, <1>3, CollectReplyEffect
<1>5. /\ Head(replies[r][s]) \in Messages(replies[r][s])
      /\ \A q \in Servers : Messages(replies'[r][q]) \subseteq Messages(replies[r][q])
  BY <1>2, ReceiveType
<1>6. ReaderInvOf(r) /\ Forward /\ floor' = floor
  BY <1>2, SameForward DEF StoreInv, historyVars
<1>7. Held(s, tv) /\ AtLeast(tv.Tag_var, floor[r])
  BY <1>1, <1>2, <1>3, <1>5, <1>6 DEF ReaderInvOf
<1>8. /\ CommitOf(TagOnly(tv.Tag_var, tv.Opnum)) /\ tv.Tag_var \in Tag /\ tv.Tag_var \in AnyTag
      /\ tv.CodeIndex \in {s, FirstServer} /\ AtLeast(Stored(s), tv.Tag_var)
      /\ TagOnly(tv.Tag_var, tv.Opnum).Tag_var = tv.Tag_var
  BY <1>7, DataTypes, ElementCommits DEF Held
<1>9. TagValue_var[r].Tag_var = LowestTag => IsSmallerThan(TagValue_var[r].Tag_var, tv.Tag_var)
  BY <1>8 DEF LowestTag, IsSmallerThan, Tag
<1>10. responders[r] = {} <=> num_responses[r] = 0
  <2>1. num_responses[r] = Cardinality(responders[r])
    BY <1>3 DEF ChannelInv, ChannelInvOf, Counted
  <2>2. IsFiniteSet(responders[r])
    BY ServersAssumption, FS_Subset DEF TypeOK
  <2> QED
    BY <2>1, <2>2, FS_EmptySet
<1>11. Asked(r)'
  <2>1. CASE TagValue_var'[r] = TagOnly(tv.Tag_var, tv.Opnum)
    BY <1>6, <1>7, <1>8, <2>1, CommitStays DEF Asked
  <2>2. CASE TagValue_var'[r] = TagValue_var[r] /\ TagValue_var[r].Tag_var # LowestTag
    <3>1. Asked(r)
      BY <1>2, <1>3, <1>6, <2>2 DEF ReaderInvOf
    <3> QED
      BY <1>6, <2>2, <3>1, CommitStays DEF Asked
  <2> QED
    BY <1>4, <1>9, <2>1, <2>2
<1>12. ASSUME StaysOnePhase(r, tv)
       PROVE  /\ TagValue_var'[r].Tag_var = tv.Tag_var
              /\ IsOnePhase[r]
              /\ responders[r] # {} => TagValue_var[r].Tag_var = tv.Tag_var
              /\ \A e \in rx_state[r] : e.Tag_var = tv.Tag_var
  <2>1. IsOnePhase[r] /\ (num_responses[r] > 0 => tv.Tag_var = TagValue_var[r].Tag_var)
    BY <1>12 DEF StaysOnePhase
  <2>2. CASE responders[r] = {}
    <3>1. TagValue_var[r].Tag_var = LowestTag
      BY <1>2, <1>3, <1>6, <2>2 DEF ReaderInvOf
    <3>2. TagValue_var'[r].Tag_var = tv.Tag_var
      BY <1>4, <1>8, <1>9, <3>1
    <3>3. ASSUME NEW e \in rx_state[r] PROVE FALSE
      <4>1. e.Tag_var = LowestTag
        BY <1>2, <1>3, <1>6, <3>1, <3>3 DEF ReaderInvOf
      <4>2. PICK q \in Servers : Held(q, e)
        BY <1>2, <1>6, <3>3 DEF ReaderInvOf
      <4>3. e.Tag_var \in Tag
        BY <4>2, ElementCommits DEF Held
      <4> QED
        BY <4>1, <4>3 DEF LowestTag, Tag
    <3> QED
      BY <2>1, <2>2, <3>2, <3>3
  <2>3. CASE responders[r] # {}
    <3>1. num_responses[r] > 0
      BY <1>10, <2>3 DEF TypeOK
    <3>2. TagValue_var[r].Tag_var = tv.Tag_var
      BY <2>1, <3>1
    <3>3. TagValue_var'[r].Tag_var = tv.Tag_var
      BY <1>4, <1>8, <3>2
    <3>4. \A e \in rx_state[r] : e.Tag_var = tv.Tag_var
      BY <1>2, <1>3, <1>6, <3>2 DEF ReaderInvOf
    <3> QED
      BY <2>1, <3>2, <3>3, <3>4
  <2> QED
    BY <2>2, <2>3
<1>13. ASSUME NEW e \in rx_state'[r]
       PROVE  /\ \E q \in Servers : e.CodeIndex = q /\ Held(q, e)'
              /\ e.Tag_var = TagValue_var'[r].Tag_var
  <2>1. StaysOnePhase(r, tv) /\ e \in AddChunk(rx_state[r], tv)
    BY <1>4, <1>13
  <2>2. CASE e \in rx_state[r]
    <3>1. PICK q \in Servers : e.CodeIndex = q /\ Held(q, e)
      BY <1>2, <1>6, <2>2 DEF ReaderInvOf
    <3>2. e.Tag_var = tv.Tag_var /\ TagValue_var'[r].Tag_var = tv.Tag_var
      BY <1>12, <2>1, <2>2
    <3>3. Held(q, e)'
      BY <1>6, <1>8, <3>1, <3>2, HeldStays
    <3> QED
      BY <3>1, <3>2, <3>3
  <2>3. CASE e = tv
    <3>1. Held(tv.CodeIndex, tv) /\ tv.CodeIndex \in Servers
      BY <1>7, <1>8, HeldAtIndex
    <3>2. Held(tv.CodeIndex, tv)'
      BY <1>6, <1>8, <3>1, HeldStays
    <3> QED
      BY <1>12, <2>1, <2>3, <3>1, <3>2
  <2> QED
    BY <2>1, <2>2, <2>3 DEF AddChunk
<1>14. ASSUME NEW q \in Servers, q \in responders'[r], IsOnePhase'[r]
       PROVE  AtLeast(Stored(q)', TagValue_var'[r].Tag_var)
  <2>1. StaysOnePhase(r, tv)
    BY <1>4, <1>14
  <2>2. AtLeast(Stored(q), tv.Tag_var)
    <3>1. CASE q = s
      BY <1>8, <3>1
    <3>2. CASE q \in responders[r]
      BY <1>2, <1>3, <1>6, <1>12, <2>1, <3>2 DEF ReaderInvOf
    <3> QED
      BY <1>2, <1>14, <3>1, <3>2
  <2> QED
    BY <1>6, <1>8, <1>12, <2>1, <2>2, StoredStays
<1>15. ASSUME NEW q \in Servers, NEW m \in Messages(replies'[r][q])
       PROVE  Held(q, m.TagValue_var)' /\ AtLeast(m.TagValue_var.Tag_var, floor'[r])
  <2>1. m \in Messages(replies[r][q])
    BY <1>5, <1>15
  <2>2. Held(q, m.TagValue_var) /\ AtLeast(m.TagValue_var.Tag_var, floor[r])
    BY <1>2, <1>3, <1>6, <2>1 DEF ReaderInvOf
  <2>3. m.TagValue_var.Tag_var \in AnyTag
    BY <2>2, ElementCommits DEF Held
  <2> QED
    BY <1>6, <2>2, <2>3, HeldStays
<1>16. \A i \in Incarnations, q \in Servers : \A m \in Messages(requests'[r][i][q]) :
         m.Phase = PRAKIS_RELAY_DATA => CommitOf(m.TagValue_var)'
  BY <1>2, <1>6, CommitStays DEF ReaderInvOf
<1>17. responders'[r] # {} /\ Phase'[r] = PRAKIS_GET_TAG_DATA /\ Phase'[r] # PRAKIS_RELAY_DATA
  BY <1>2, <1>3
<1> QED
  BY <1>11, <1>13, <1>14, <1>15, <1>16, <1>17 DEF ReaderInvOf

LEMMA CollectReplyStore ==
  ASSUME TypeOK, TypeOK', ChannelInv, StoreInv, NEW c \in Clients, NEW s \in Servers,
         CollectReply(c, s)
  PROVE  StoreInv'
<1>1. /\ UNCHANGED <<server_state_variables, busy, Opnum, Phase, incarnation,
                     tagsRequested, requests, drops, historyVars>>
      /\ \A d \in Clients : d # c => Idle(d)
  BY CollectReplyEffect
<1>2. /\ UNCHANGED <<server_state_variables, busy, Opnum>>
      /\ historyVars' = historyVars /\ Phase' = Phase
  BY <1>1
<1>3. c \in Writers => /\ WriterInvOf(c)' /\ Phase'[c] = Phase[c]
                       /\ Phase[c] = PRAKIS_PUT_TAG => TagValue_var'[c] = TagValue_var[c]
  BY <1>2, WriterCollects
<1>4. WritesStay /\ c \in Readers => ReaderInvOf(c)'
  BY ReaderCollects
<1> QED
  BY <1>1, <1>2, <1>3, <1>4, GoesOn

\* K elements of one tag with different indices: all servers hold that tag.
LEMMA ElementsOfAll ==
  ASSUME AllServersNeeded, TypeOK, StoreInv, NEW rx \in SUBSET TagValue, NEW t,
         \A e \in rx : Held(e.CodeIndex, e),
         \A e, f \in rx : e.Tag_var = f.Tag_var /\ e.CodeIndex = f.CodeIndex => e = f,
         Cardinality(ElementsOf(rx, t)) = K
  PROVE  \A s \in Servers : AtLeast(Stored(s), t)
<1> DEFINE E == ElementsOf(rx, t)
           H == {s \in Servers : AtLeast(Stored(s), t)}
           f == [e \in E |-> e.CodeIndex]
<1>1. \A e \in E : e \in rx /\ e.Tag_var = t /\ e.CodeIndex \in Servers
  BY DataTypes DEF ElementsOf
<1>2. \A e \in E : e.CodeIndex \in H
  BY <1>1 DEF Held
<1>3. \A e, g \in E : e.CodeIndex = g.CodeIndex => e = g
  BY <1>1
<1>4. H \subseteq Servers /\ IsFiniteSet(H) /\ Cardinality(H) \in Nat
      /\ Cardinality(H) <= Cardinality(Servers) /\ Cardinality(Servers) \in Nat
      /\ (Cardinality(H) = Cardinality(Servers) => H = Servers)
  BY ServersAssumption, FS_Subset, FS_CardinalityType
<1> HIDE DEF E, H
<1>5. f \in [E -> H] /\ \A e, g \in E : f[e] = f[g] => e = g
  BY <1>2, <1>3
<1> HIDE DEF f
<1>6. f \in Injection(E, H)
  BY <1>5 DEF Injection, IsInjective
<1>7. Cardinality(E) <= Cardinality(H)
  BY <1>4, <1>6, FS_Injection
<1>8. Cardinality(E) = Cardinality(Servers)
  BY DEF E, AllServersNeeded
<1>9. H = Servers
  BY <1>4, <1>7, <1>8
<1> QED
  BY <1>9 DEF H

LEMMA CollectRelayStore ==
  ASSUME AllServersNeeded, TypeOK, TypeOK', ChannelInv, TagInv, StoreInv,
         NEW r \in Clients, NEW s \in Servers, CollectRelay(r, s)
  PROVE  StoreInv'
<1>1. PICK tv \in TagValue : tv = Head(replies[r][s]).TagValue_var
  BY CollectRelayEffect
<1>2. PICK rx : rx = AddElement(rx_state[r], tv)
  OBVIOUS
<1>3. /\ r \in busy /\ Phase[r] = PRAKIS_RELAY_DATA /\ replies[r][s] # <<>>
      /\ UNCHANGED <<server_state_variables, Opnum, incarnation>>
      /\ \A d \in Clients : d # r => Idle(d)
  BY CollectRelayEffect
<1>4. \/ /\ Cardinality(ElementsOf(rx, tv.Tag_var)) = K
         /\ busy' = busy \ {r}
         /\ completed' = LargerTag(tv.Tag_var, completed)
         /\ log' = log \cup {[client |-> r, floor |-> floor[r],
              TagValue_var |-> [Tag_var |-> tv.Tag_var,
                                Value |-> Decoded(ElementsOf(rx, tv.Tag_var))]]}
         /\ SendToServers(r, Opnum[r], PRAKIS_READ_COMPLETE, ToAll(TagOnly(ZeroTag, 0)))
         /\ floor' = floor
      \/ KeepsRelay(r, s)
  <2>1. TagInvOf(r)
    BY DEF TagInv
  <2>2. processVars' = processVars
    BY <2>1, CollectRelayTag
  <2>3. ~ (/\ IsSmallerThan(tv.Tag_var, TagValue_var[r].Tag_var)
           /\ Head(replies[r][s]).TagValue_var = tv)
    <3>1. Head(replies[r][s]) \in Messages(replies[r][s])
      BY <1>3, ReceiveType
    <3>2. AtLeast(tv.Tag_var, TagValue_var[r].Tag_var)
      BY <1>1, <1>3, <2>1, <3>1 DEF TagInvOf, HasTagAskedFor, IsWaiting
    <3> QED
      BY <3>2, DataTypes, TagTypes, TagComparisonsAgree DEF AtLeast
  <2> QED
    BY <1>1, <1>2, <2>3, CollectRelayEffect
<1>5. r \in Readers /\ r \notin Writers /\ ReaderInvOf(r)
  BY <1>3, ReaderPhases DEF StoreInv
<1>6. /\ Head(replies[r][s]) \in Messages(replies[r][s])
      /\ Messages(Tail(replies[r][s])) \subseteq Messages(replies[r][s])
      /\ [replies EXCEPT ![r][s] = Tail(replies[r][s])] \in RepliesType
  BY <1>3, ReceiveType DEF RepliesType
<1>7. Held(s, tv)
  BY <1>1, <1>3, <1>5, <1>6 DEF ReaderInvOf
<1>8. /\ CommitOf(CommitRequest(tv)) /\ tv.Tag_var \in Tag /\ tv.Tag_var \in AnyTag
      /\ tv.CodeIndex \in Servers /\ Held(tv.CodeIndex, tv)
  BY <1>7, ElementCommits, HeldAtIndex DEF Held
<1>9. rx \in SUBSET TagValue /\ \A e \in rx : e \in rx_state[r] \/ e = tv
  BY <1>2 DEF AddElement, TypeOK
<1>10. \A e \in rx : e.CodeIndex \in Servers /\ Held(e.CodeIndex, e)
  <2>1. \A e \in rx_state[r] : \E q \in Servers : e.CodeIndex = q /\ Held(q, e)
    BY <1>3, <1>5 DEF ReaderInvOf
  <2> QED
    BY <1>8, <1>9, <2>1
<1>11. \A e, f \in rx : e.Tag_var = f.Tag_var /\ e.CodeIndex = f.CodeIndex => e = f
  BY <1>2, <1>3, <1>5 DEF ReaderInvOf, AddElement
<1>12. CASE /\ Cardinality(ElementsOf(rx, tv.Tag_var)) = K
            /\ busy' = busy \ {r}
            /\ completed' = LargerTag(tv.Tag_var, completed)
            /\ log' = log \cup {[client |-> r, floor |-> floor[r],
                 TagValue_var |-> [Tag_var |-> tv.Tag_var,
                                   Value |-> Decoded(ElementsOf(rx, tv.Tag_var))]]}
            /\ SendToServers(r, Opnum[r], PRAKIS_READ_COMPLETE, ToAll(TagOnly(ZeroTag, 0)))
            /\ floor' = floor
  <2>1. \A q \in Servers : AtLeast(Stored(q), tv.Tag_var)
    BY <1>9, <1>10, <1>11, <1>12, ElementsOfAll
  <2>2. WritesStay =>
          \A i \in Incarnations, q \in Servers : \A m \in Messages(requests'[r][i][q]) :
            m.Phase = PRAKIS_RELAY_DATA => CommitOf(m.TagValue_var)'
    BY <1>5, <1>12, DataTypes, PhasesDiffer, TagTypes, ReaderRequests
  <2>3. PICK t, v : t = tv.Tag_var /\ v = Decoded(ElementsOf(rx, tv.Tag_var))
    OBVIOUS
  <2> QED
    BY <1>3, <1>5, <1>8, <1>12, <2>1, <2>2, <2>3, ReadEndsStore
<1>13. CASE KeepsRelay(r, s)
  <2>1. /\ rx_state' = [rx_state EXCEPT ![r] = rx]
        /\ replies' = [replies EXCEPT ![r][s] = Tail(replies[r][s])]
        /\ UNCHANGED <<processVars, busy, Phase, num_responses, TagValue_var,
                       IsOnePhase, responders, historyVars>>
        /\ \/ UNCHANGED <<tagsRequested, requests, drops>>
           \/ SendToServers(r, Opnum[r], PRAKIS_RELAY_DATA, ToAll(CommitRequest(tv)))
    BY <1>1, <1>2, <1>13 DEF KeepsRelay
  <2>2. rx_state'[r] = rx /\ \A q \in Servers :
          Messages(replies'[r][q]) \subseteq Messages(replies[r][q])
    <3>1. rx_state'[r] = rx
      BY <2>1 DEF TypeOK
    <3>2. ASSUME NEW q \in Servers
          PROVE  Messages(replies'[r][q]) \subseteq Messages(replies[r][q])
      <4>1. replies'[r][q] = IF q = s THEN Tail(replies[r][s]) ELSE replies[r][q]
        BY <2>1 DEF TypeOK
      <4> QED
        BY <1>6, <4>1
    <3> QED
      BY <3>1, <3>2
  <2>3. /\ busy' = busy /\ Phase' = Phase /\ TagValue_var' = TagValue_var /\ floor' = floor
        /\ server_state_variables' = server_state_variables
    BY <1>3, <2>1 DEF historyVars
  <2>4. ASSUME WritesStay PROVE ReaderInvOf(r)'
    <3>1. Forward
      BY <1>3, SameForward
    <3>2. \A i \in Incarnations, q \in Servers : \A m \in Messages(requests'[r][i][q]) :
            m.Phase = PRAKIS_RELAY_DATA => CommitOf(m.TagValue_var)'
      <4>1. CASE requests' = requests
        BY <1>5, <2>4, <4>1, CommitStays DEF ReaderInvOf
      <4>2. CASE SendToServers(r, Opnum[r], PRAKIS_RELAY_DATA, ToAll(CommitRequest(tv)))
        BY <1>5, <1>8, <2>4, <4>2, CommitRequestType, DataTypes, TagTypes, ReaderRequests
      <4> QED
        BY <2>1, <4>1, <4>2
    <3>3. ASSUME NEW q \in Servers, NEW m \in Messages(replies'[r][q])
          PROVE  Held(q, m.TagValue_var)'
      <4>1. Held(q, m.TagValue_var)
        BY <1>3, <1>5, <2>2, <3>3 DEF ReaderInvOf
      <4>2. m.TagValue_var.Tag_var \in AnyTag
        BY <4>1, ElementCommits DEF Held
      <4> QED
        BY <2>4, <3>1, <4>1, <4>2, HeldStays
    <3>4. ASSUME NEW e \in rx
          PROVE  \E q \in Servers : e.CodeIndex = q /\ Held(q, e)'
      <4>1. e.Tag_var \in AnyTag
        BY <1>9, DataTypes
      <4>2. Held(e.CodeIndex, e)'
        BY <1>10, <2>4, <3>1, <4>1, HeldStays
      <4> QED
        BY <1>10, <4>2
    <3>5. Asked(r)'
      <4>1. Asked(r)
        BY <1>3, <1>5 DEF ReaderInvOf
      <4> QED
        BY <2>3, <2>4, <4>1, CommitStays DEF Asked
    <3> QED
      BY <1>3, <1>11, <2>2, <2>3, <3>2, <3>3, <3>4, <3>5, PhasesDiffer DEF ReaderInvOf
  <2>5. historyVars' = historyVars /\ UNCHANGED <<server_state_variables, busy, Opnum>>
    BY <1>3, <2>1
  <2> QED
    BY <1>3, <1>5, <2>4, <2>5, GoesOn
<1> QED
  BY <1>4, <1>12, <1>13

-----------------------------------------------------------------------------
(* The servers *)

InEntries(st, w, o) ==
  \E x \in st.writesInProgress : x.Client_id = NameTag[w] /\ x.opnum = o /\ ~ x.isFinalized

StoredIn(st) == st.tagCodedElement_var.Tag_var
HeldIn(st, s, e) == ElementOf(s, e) /\ AtLeast(StoredIn(st), e.Tag_var)

\* State st of server s is one that the invariant allows, and no older one.
StateOf(s, st) ==
  /\ ElementOf(s, st.tagCodedElement_var) /\ AtLeast(StoredIn(st), Stored(s))
  /\ \A x \in st.writesInProgress : EntryOK(s, x)
  /\ \A x, y \in st.writesInProgress : x.Client_id = y.Client_id /\ x.opnum = y.opnum => x = y

\* A write under way leaves the list of server s only when its tag is stored.
KeepsWrites(s, st) ==
  \A w \in Writers : w \in busy /\ InList(s, w, Opnum[w]) =>
    \/ InEntries(st, w, Opnum[w])
    \/ Phase[w] = PRAKIS_PUT_TAG /\ AtLeast(StoredIn(st), TagValue_var[w].Tag_var)

\* What server s, in state st, may answer client c in its phase.
AnswersWell(s, st, c, b) ==
  /\ c \in Writers /\ Phase[c] = PRAKIS_PUT_DATA =>
       Proposed(c, b.TagValue_var.Tag_var) /\ InEntries(st, c, Opnum[c])
  /\ c \in Writers /\ Phase[c] = PRAKIS_PUT_TAG =>
       AtLeast(StoredIn(st), TagValue_var[c].Tag_var)
  /\ c \in Readers =>
       /\ HeldIn(st, s, b.TagValue_var)
       /\ Phase[c] = PRAKIS_GET_TAG_DATA => AtLeast(b.TagValue_var.Tag_var, floor[c])

Serves(s, c, i, st, A, B) ==
  /\ StepHandledBy(s, c, i, st, A, B) /\ StateOf(s, st) /\ KeepsWrites(s, st)
  /\ \A d \in Clients : \A a \in A[d] : HeldIn(st, s, a.TagValue_var)
  /\ \A b \in B[c] : AnswersWell(s, st, c, b)

LEMMA SameEntries ==
  ASSUME NEW s \in Servers, NEW st,
         st.writesInProgress = server_state_variables[s].writesInProgress
  PROVE  \A w, o : InEntries(st, w, o) <=> InList(s, w, o)
BY DEF InEntries, InList

\* The state a server is in is allowed.
LEMMA SameState ==
  ASSUME TypeOK, StoreInv, NEW s \in Servers, NEW st,
         st.tagCodedElement_var = local(s),
         st.writesInProgress = server_state_variables[s].writesInProgress
  PROVE  StateOf(s, st) /\ KeepsWrites(s, st) /\ HeldIn(st, s, local(s))
<1>1. ServerInvOf(s)
  BY DEF StoreInv, ServerInv
<1>2. StoredIn(st) = Stored(s) /\ AtLeast(Stored(s), Stored(s))
  <2>1. StoredIn(st) = Stored(s)
    BY DEF StoredIn, Stored
  <2>2. AtLeast(Stored(s), Stored(s))
    BY StoredType, TagTotal
  <2> QED
    BY <2>1, <2>2
<1> QED
  BY <1>1, <1>2, SameEntries DEF StateOf, KeepsWrites, HeldIn, ServerInvOf, Stored

\* What a server commits for an entry of its list is its element of that write.
LEMMA CommittedIsOwn ==
  ASSUME TypeOK, StoreInv, NEW s \in Servers, NEW st \in SingleObjServerState,
         st.writesInProgress = server_state_variables[s].writesInProgress,
         NEW tv \in TagValue, CommitOf(tv), isWriteInProgress(st, tv.Tag_var, tv.Opnum)
  PROVE  /\ Committed(st, tv.Tag_var, tv.Opnum).Tag_var = tv.Tag_var
         /\ OwnElement(s, Committed(st, tv.Tag_var, tv.Opnum))
<1>0. PICK tag, o : tag = tv.Tag_var /\ o = tv.Opnum
  OBVIOUS
<1>1. /\ ServerInvOf(s) /\ tag \in AnyTag /\ o \in Nat
      /\ isWriteInProgress(st, tag, o)
  BY <1>0, DataTypes DEF StoreInv, ServerInv
<1>2. PICK x \in EntriesOf(st, tag, o) : Committed(st, tag, o) = [x.tagValue EXCEPT !.Tag_var = tag]
  BY <1>1, CommittedType
<1>3. PICK y \in EntriesOf(st, tag, o) : ~ y.isFinalized
  BY <1>1 DEF isWriteInProgress
<1>4. /\ x \in st.writesInProgress /\ y \in st.writesInProgress
      /\ x.Client_id = tag.Client_id /\ x.opnum = o
      /\ y.Client_id = tag.Client_id /\ y.opnum = o /\ x.tagValue \in TagValue
  BY <1>2, <1>3, EntriesType DEF SameWrite
<1>5. x = y
  BY <1>1, <1>4 DEF ServerInvOf
<1>6. PICK w \in Writers : /\ x.Client_id = NameTag[w] /\ x.opnum \in 1..Opnum[w]
                           /\ Element(w, x.opnum, s, x.tagValue)
  BY <1>1, <1>3, <1>4, <1>5 DEF ServerInvOf, EntryOK
<1>7. w \in Clients /\ Opnum[w] \in Nat
  BY WriterNames, TagTypes
<1>8. o # 0
  BY <1>4, <1>6, <1>7
<1>9. Wrote(w, o, tag)
  BY <1>0, <1>4, <1>6, <1>8, WriterNames DEF CommitOf
<1> QED
  BY <1>0, <1>2, <1>4, <1>6, <1>9 DEF OwnElement, Element, TagValue

\* A commit leaves a state that the invariant allows.
LEMMA CommitState ==
  ASSUME TypeOK, StoreInv, NEW s \in Servers, NEW st \in SingleObjServerState,
         st.tagCodedElement_var = local(s),
         st.writesInProgress = server_state_variables[s].writesInProgress,
         NEW tv \in TagValue, CommitOf(tv), NEW st2, st2 = commitTag(st, tv.Tag_var, tv.Opnum)
  PROVE  /\ StateOf(s, st2)
         /\ isWriteInProgress(st, tv.Tag_var, tv.Opnum) => AtLeast(StoredIn(st2), tv.Tag_var)
<1>1. PICK tag, o : tag = tv.Tag_var /\ o = tv.Opnum
  OBVIOUS
<1>2. tag \in AnyTag /\ o \in Nat /\ ServerInvOf(s) /\ st2 = commitTag(st, tag, o)
  BY <1>1, DataTypes DEF StoreInv, ServerInv
<1>3. /\ st2.tagCodedElement_var =
           IF isWriteInProgress(st, tag, o) /\ IsSmallerThan(st.tagCodedElement_var.Tag_var, tag)
             THEN Committed(st, tag, o) ELSE st.tagCodedElement_var
      /\ st2.writesInProgress =
           IF isWriteInProgress(st, tag, o) THEN Forget(st, tag, o)
           ELSE IF o > latestOpnumWriters
             THEN Forget(st, tag, o) \cup
                    {[Client_id |-> tag.Client_id, opnum |-> o,
                      tagValue |-> TagOnly(tag, o), isFinalized |-> TRUE]}
             ELSE st.writesInProgress
  BY <1>2, CommitTagType
<1>4. isWriteInProgress(st, tag, o) =>
        Committed(st, tag, o).Tag_var = tag /\ OwnElement(s, Committed(st, tag, o))
  BY <1>1, CommittedIsOwn
<1>5. Stored(s) \in AnyTag /\ Stored(s) = st.tagCodedElement_var.Tag_var
  BY StoredType DEF Stored
<1>6. /\ ElementOf(s, st2.tagCodedElement_var)
      /\ AtLeast(StoredIn(st2), Stored(s))
      /\ isWriteInProgress(st, tag, o) => AtLeast(StoredIn(st2), tag)
  <2>1. CASE isWriteInProgress(st, tag, o) /\ IsSmallerThan(Stored(s), tag)
    <3>1. /\ st2.tagCodedElement_var.Tag_var = tag
          /\ OwnElement(s, st2.tagCodedElement_var)
      BY <1>3, <1>4, <1>5, <2>1
    <3>2. AtLeast(tag, Stored(s)) /\ AtLeast(tag, tag)
      BY <1>2, <1>5, <2>1, TagTotal, TagComparisonsAgree
    <3> QED
      BY <3>1, <3>2 DEF ElementOf, StoredIn
  <2>2. CASE ~ (isWriteInProgress(st, tag, o) /\ IsSmallerThan(Stored(s), tag))
    <3>1. st2.tagCodedElement_var = local(s)
      BY <1>3, <1>5, <2>2
    <3>2. /\ AtLeast(Stored(s), Stored(s))
          /\ isWriteInProgress(st, tag, o) => AtLeast(Stored(s), tag)
      BY <1>2, <1>5, <2>2, TagTotal, TagComparisonsAgree DEF AtLeast
    <3> QED
      BY <1>2, <3>1, <3>2 DEF ServerInvOf, StoredIn, Stored
  <2> QED
    BY <2>1, <2>2
<1>7. /\ Forget(st, tag, o) \subseteq st.writesInProgress
      /\ \A x \in Forget(st, tag, o) : ~ (x.Client_id = tag.Client_id /\ x.opnum = o)
  BY DEF Forget, EntriesOf, SameWrite
<1>8. PICK n : n = [Client_id |-> tag.Client_id, opnum |-> o,
                    tagValue |-> TagOnly(tag, o), isFinalized |-> TRUE]
  OBVIOUS
<1>9. n.Client_id = tag.Client_id /\ n.opnum = o /\ n.isFinalized = TRUE
  BY <1>8
<1>10. o > latestOpnumWriters => EntryOK(s, n)
  <2>1. HAVE o > latestOpnumWriters
  <2>2. PICK w \in Writers : tag.Client_id = NameTag[w] /\ Wrote(w, o, tag)
    BY <1>1, <1>2, <2>1 DEF latestOpnumWriters, CommitOf
  <2>3. HasTag(w, o)
    BY <2>2, WroteFacts
  <2> QED
    BY <1>9, <2>2, <2>3 DEF EntryOK
<1>11. st2.writesInProgress \subseteq Forget(st, tag, o) \cup {n} \/
       st2.writesInProgress = st.writesInProgress
  BY <1>3, <1>8
<1>12. \A x \in st2.writesInProgress :
         x \in st.writesInProgress \/ (o > latestOpnumWriters /\ x = n)
  BY <1>3, <1>7, <1>8
<1>13. \A x \in st2.writesInProgress : EntryOK(s, x)
  BY <1>2, <1>10, <1>12 DEF ServerInvOf
<1>14. \A x, y \in st2.writesInProgress : x.Client_id = y.Client_id /\ x.opnum = y.opnum => x = y
  BY <1>2, <1>7, <1>9, <1>11 DEF ServerInvOf
<1> QED
  BY <1>1, <1>6, <1>13, <1>14 DEF StateOf

\* It keeps the writes under way, or has stored their tag.
LEMMA CommitKeeps ==
  ASSUME TypeOK, StoreInv, NEW s \in Servers, NEW st \in SingleObjServerState,
         st.tagCodedElement_var = local(s),
         st.writesInProgress = server_state_variables[s].writesInProgress,
         NEW tv \in TagValue, CommitOf(tv), NEW st2, st2 = commitTag(st, tv.Tag_var, tv.Opnum)
  PROVE  KeepsWrites(s, st2)
<1>1. PICK tag, o : tag = tv.Tag_var /\ o = tv.Opnum
  OBVIOUS
<1>2. /\ tag \in AnyTag /\ o \in Nat /\ st2 = commitTag(st, tag, o)
      /\ isWriteInProgress(st, tag, o) => AtLeast(StoredIn(st2), tag)
  BY <1>1, DataTypes, CommitState
<1> SUFFICES ASSUME NEW w \in Writers, w \in busy, InList(s, w, Opnum[w])
             PROVE  \/ InEntries(st2, w, Opnum[w])
                    \/ Phase[w] = PRAKIS_PUT_TAG /\ AtLeast(StoredIn(st2), TagValue_var[w].Tag_var)
  BY DEF KeepsWrites
<1>3. PICK x \in st.writesInProgress :
        x.Client_id = NameTag[w] /\ x.opnum = Opnum[w] /\ ~ x.isFinalized
  BY DEF InList
<1>4. CASE x.Client_id = tag.Client_id /\ x.opnum = o
  <2>1. isWriteInProgress(st, tag, o)
    BY <1>3, <1>4 DEF isWriteInProgress, EntriesOf, SameWrite
  <2>2. w \in Clients /\ Opnum[w] \in Nat /\ Opnum[w] >= 1
    BY WriterNames, TagTypes
  <2>3. Wrote(w, Opnum[w], tag)
    <3>1. o # 0
      BY <1>3, <1>4, <2>2
    <3>2. PICK v \in Writers : tag.Client_id = NameTag[v] /\ Wrote(v, o, tag)
      BY <1>1, <3>1 DEF CommitOf
    <3> QED
      BY <1>3, <1>4, <3>2, WriterNames
  <2>4. Phase[w] = PRAKIS_PUT_TAG /\ tag = TagValue_var[w].Tag_var
    BY <2>2, <2>3, WroteFacts
  <2> QED
    BY <1>2, <2>1, <2>4
<1>5. CASE ~ (x.Client_id = tag.Client_id /\ x.opnum = o)
  <2>1. x \in Forget(st, tag, o)
    BY <1>3, <1>5 DEF Forget, EntriesOf, SameWrite
  <2>2. x \in st2.writesInProgress
    <3>1. st2.writesInProgress =
            commitTag(st, tag, o).writesInProgress
      BY <1>2
    <3>2. \/ Forget(st, tag, o) \subseteq commitTag(st, tag, o).writesInProgress
          \/ commitTag(st, tag, o).writesInProgress = st.writesInProgress
      BY <1>2, CommitTagType
    <3> QED
      BY <1>3, <2>1, <3>1, <3>2
  <2> QED
    BY <1>3, <2>2 DEF InEntries
<1> QED
  BY <1>4, <1>5

\* Relays carry what the commit has made final.
LEMMA CommitRelays ==
  ASSUME TypeOK, StoreInv, NEW s \in Servers, NEW st \in SingleObjServerState,
         st.tagCodedElement_var = local(s),
         st.writesInProgress = server_state_variables[s].writesInProgress,
         NEW tv \in TagValue, CommitOf(tv), NEW st2, st2 = commitTag(st, tv.Tag_var, tv.Opnum)
  PROVE  \A d \in Clients : \A a \in Relays(st, tv.Tag_var, tv.Opnum)[d] :
           HeldIn(st2, s, a.TagValue_var)
<1> SUFFICES ASSUME NEW d \in Clients, NEW a \in Relays(st, tv.Tag_var, tv.Opnum)[d]
             PROVE  HeldIn(st2, s, a.TagValue_var)
  OBVIOUS
<1>1. /\ isWriteInProgress(st, tv.Tag_var, tv.Opnum)
      /\ a.TagValue_var = Committed(st, tv.Tag_var, tv.Opnum)
  BY DEF Relays
<1>2. a.TagValue_var.Tag_var = tv.Tag_var /\ OwnElement(s, a.TagValue_var)
  BY <1>1, CommittedIsOwn
<1>3. AtLeast(StoredIn(st2), tv.Tag_var)
  BY <1>1, CommitState
<1> QED
  BY <1>2, <1>3 DEF HeldIn, ElementOf

\* What the clients' requests say.
LEMMA RequestFacts ==
  ASSUME TypeOK, ChannelInv, StoreInv, NEW s \in Servers, NEW c \in Clients,
         NEW i \in Incarnations, NEW m \in Messages(requests[c][i][s]), m \in Message
  PROVE  /\ m.Phase \in {PRAKIS_PUT_DATA, PRAKIS_PUT_TAG} =>
              /\ c \in Writers /\ c \notin Readers /\ WriterRequests(c, s)
              /\ m \in Current(c) /\ c \in busy /\ m.Phase = Phase[c]
         /\ m.Phase \notin {PRAKIS_PUT_DATA, PRAKIS_PUT_TAG} => c \in Readers /\ c \notin Writers
         /\ m.Phase = PRAKIS_RELAY_DATA => CommitOf(m.TagValue_var)
<1>1. m.Phase \in PhasesOf(c)
  BY DEF ChannelInv, ChannelInvOf, InOrder, NotFromTheFuture
<1>2. /\ m.Phase \in {PRAKIS_PUT_DATA, PRAKIS_PUT_TAG} => c \in Writers /\ c \notin Readers
      /\ m.Phase \notin {PRAKIS_PUT_DATA, PRAKIS_PUT_TAG} => c \in Readers /\ c \notin Writers
  BY <1>1, PhasesDiffer, ClientsAssumption DEF PhasesOf, Clients
<1>3. m.Phase \in {PRAKIS_PUT_DATA, PRAKIS_PUT_TAG} => WriterRequests(c, s)
  BY <1>2 DEF StoreInv, WriterInvOf
<1>4. m.Phase \in {PRAKIS_PUT_DATA, PRAKIS_PUT_TAG} => m \in Current(c)
  BY <1>3 DEF WriterRequests
<1>5. m.Phase = PRAKIS_RELAY_DATA => CommitOf(m.TagValue_var)
  <2>1. HAVE m.Phase = PRAKIS_RELAY_DATA
  <2>2. ReaderInvOf(c)
    BY <1>2, <2>1, PhasesDiffer DEF StoreInv
  <2> QED
    BY <2>1, <2>2 DEF ReaderInvOf
<1> QED
  BY <1>2, <1>3, <1>4, <1>5 DEF Current

\* The pair a server holds, as the answer to a reader.
LEMMA LocalAnswers ==
  ASSUME TypeOK, StoreInv, NEW s \in Servers, NEW c \in Readers, c \notin Writers,
         NEW st, AtLeast(StoredIn(st), Stored(s)), NEW b, b.TagValue_var = local(s), c \in busy
  PROVE  AnswersWell(s, st, c, b)
<1>1. /\ ServerInvOf(s) /\ AtLeast(completed, floor[c]) /\ c \in Clients
  BY DEF StoreInv, ServerInv, FloorsInv, Clients
<1>2. AtLeast(Stored(s), floor[c])
  BY <1>1, StoredType, TagTypes, TagTransitive DEF ServerInvOf
<1> QED
  BY <1>1, <1>2 DEF AnswersWell, HeldIn, ServerInvOf, Stored

LEMMA GetTagDataServes ==
  ASSUME TypeOK, ChannelInv, StoreInv, NEW s \in Servers, NEW c \in Clients,
         NEW i \in Incarnations, NEW m \in Messages(requests[c][i][s]),
         m = Head(requests[c][i][s]), m \in Message,
         NEW st \in SingleObjServerState, st = server_state_variables[s],
         getTagDataResp(s, st, c, i, m)
  PROVE  \E st2, A, B : Serves(s, c, i, st2, A, B)
<1>1. PICK a : a = [m EXCEPT !.TagValue_var = local(s)]
  OBVIOUS
<1>2. /\ m.Phase = PRAKIS_GET_TAG_DATA
      /\ Handled(s, st, Nothing, Answers(c, i, m, a))
  BY <1>1, GetTagDataHandled DEF local
<1>3. a \in Message /\ a.TagValue_var = local(s)
  BY <1>1, StoredType, MessageType
<1>4. StateOf(s, st) /\ KeepsWrites(s, st)
  BY SameState DEF local
<1>5. \A b \in Answers(c, i, m, a)[c] : AnswersWell(s, st, c, b)
  <2>1. \A b \in Answers(c, i, m, a)[c] : b = a /\ c \in busy
    BY <1>3 DEF Answers, Current
  <2>2. c \in Readers /\ c \notin Writers
    BY <1>2, RequestFacts, PhasesDiffer
  <2> QED
    BY <1>3, <1>4, <2>1, <2>2, LocalAnswers DEF StateOf
<1>6. StepHandledBy(s, c, i, st, Nothing, Answers(c, i, m, a))
  <2>1. \A d \in Clients : /\ Nothing[d] \subseteq RelayTo(d)
                           /\ Answers(c, i, m, a)[d] \subseteq AnswerTo(d, c, i, m)
    BY <1>3, AnswersAreUseful DEF Nothing
  <2> QED
    BY <1>2, <2>1 DEF StepHandledBy
<1>7. \A d \in Clients : Nothing[d] = {}
  BY DEF Nothing
<1>8. PICK B : B = Answers(c, i, m, a)
  OBVIOUS
<1>9. Serves(s, c, i, st, Nothing, B)
  BY <1>4, <1>5, <1>6, <1>7, <1>8 DEF Serves
<1> QED
  BY <1>9

LEMMA ReadCompleteServes ==
  ASSUME TypeOK, StoreInv, NEW s \in Servers, NEW c \in Clients,
         NEW i \in Incarnations, NEW m \in Message,
         NEW st \in SingleObjServerState, st = server_state_variables[s],
         readCompleteResp(s, st, c, m)
  PROVE  \E st2, A, B : Serves(s, c, i, st2, A, B)
<1>1. PICK st2 : st2 = [st EXCEPT !.readsInProgress = OtherReads(st, c, m.Opnum)]
  OBVIOUS
<1>2. /\ st2.writesInProgress = server_state_variables[s].writesInProgress
      /\ st2.tagCodedElement_var = local(s)
      /\ Handled(s, st2, Nothing, Nothing)
  BY <1>1, ReadCompleteHandled DEF local
<1>3. StateOf(s, st2) /\ KeepsWrites(s, st2)
  BY <1>2, SameState
<1>4. \A d \in Clients : Nothing[d] = {}
  BY DEF Nothing
<1>5. Serves(s, c, i, st2, Nothing, Nothing)
  BY <1>2, <1>3, <1>4 DEF Serves, StepHandledBy
<1> QED
  BY <1>5

LEMMA CommitServes ==
  ASSUME TypeOK, ChannelInv, StoreInv, NEW s \in Servers, NEW c \in Clients,
         NEW i \in Incarnations, NEW m \in Messages(requests[c][i][s]),
         m = Head(requests[c][i][s]), m \in Message,
         NEW st \in SingleObjServerState, st = server_state_variables[s],
         commitForReader(s, st, m)
  PROVE  \E st2, A, B : Serves(s, c, i, st2, A, B)
<1>1. PICK tv : tv = m.TagValue_var
  OBVIOUS
<1>2. PICK st2, A : st2 = commitTag(st, tv.Tag_var, tv.Opnum) /\ A = Relays(st, tv.Tag_var, tv.Opnum)
  OBVIOUS
<1>3. m.Phase = PRAKIS_RELAY_DATA /\ Handled(s, st2, A, Nothing) /\ tv \in TagValue
  BY <1>1, <1>2, CommitHandled, MessageType
<1>4. CommitOf(tv)
  BY <1>1, <1>3, RequestFacts
<1>5. /\ StateOf(s, st2) /\ KeepsWrites(s, st2)
      /\ \A d \in Clients : \A a \in A[d] : HeldIn(st2, s, a.TagValue_var)
  <2>1. /\ st.tagCodedElement_var = local(s)
        /\ st.writesInProgress = server_state_variables[s].writesInProgress
    BY DEF local
  <2> QED
    BY <1>2, <1>3, <1>4, <2>1, CommitState, CommitKeeps, CommitRelays
<1>6. \A d \in Clients : A[d] \subseteq RelayTo(d) /\ Nothing[d] = {}
  BY <1>2, RelaysAreUseful
<1>7. Serves(s, c, i, st2, A, Nothing)
  BY <1>3, <1>5, <1>6 DEF Serves, StepHandledBy
<1> QED
  BY <1>7

LEMMA RegisterServes ==
  ASSUME TypeOK, ChannelInv, StoreInv, NEW s \in Servers, NEW c \in Clients,
         NEW i \in Incarnations, NEW m \in Messages(requests[c][i][s]),
         m = Head(requests[c][i][s]), m \in Message,
         NEW st \in SingleObjServerState, st = server_state_variables[s],
         registerRead(s, st, c, i, m)
  PROVE  \E st2, A, B : Serves(s, c, i, st2, A, B)
<1>1. PICK tv, new : tv = m.TagValue_var /\ new = registered(st, c, i, m)
  OBVIOUS
<1>2. PICK st2, A, a : /\ st2 = commitTag(new, tv.Tag_var, tv.Opnum)
                       /\ A = Relays(new, tv.Tag_var, tv.Opnum)
                       /\ a = [m EXCEPT !.TagValue_var = local(s)]
  OBVIOUS
<1>3. /\ m.Phase = PRAKIS_RELAY_DATA /\ tv \in TagValue
      /\ \/ Handled(s, st2, A, Nothing)
         \/ Handled(s, st2, A, Answers(c, i, m, a))
  <2>1. /\ m.Phase = PRAKIS_RELAY_DATA /\ tv \in TagValue
        /\ \/ Handled(s, commitTag(new, tv.Tag_var, tv.Opnum),
                      Relays(new, tv.Tag_var, tv.Opnum), Nothing)
           \/ Handled(s, commitTag(new, tv.Tag_var, tv.Opnum),
                      Relays(new, tv.Tag_var, tv.Opnum),
                      Answers(c, i, m, [m EXCEPT !.TagValue_var = st.tagCodedElement_var]))
    BY <1>1, RegisterHandled, MessageType
  <2>2. a = [m EXCEPT !.TagValue_var = st.tagCodedElement_var]
    BY <1>2 DEF local
  <2> QED
    BY <1>2, <2>1, <2>2
<1>4. CommitOf(tv) /\ c \in Readers /\ c \notin Writers
  BY <1>1, <1>3, RequestFacts, PhasesDiffer
<1>5. /\ StateOf(s, st2) /\ KeepsWrites(s, st2)
      /\ \A d \in Clients : \A b \in A[d] : HeldIn(st2, s, b.TagValue_var)
  <2>1. /\ new.tagCodedElement_var = local(s) /\ new \in SingleObjServerState
        /\ new.writesInProgress = server_state_variables[s].writesInProgress
    BY <1>1, RegisteredType DEF local
  <2> QED
    BY <1>2, <1>3, <1>4, <2>1, CommitState, CommitKeeps, CommitRelays
<1>6. a \in Message /\ a.TagValue_var = local(s)
  BY <1>2, StoredType, MessageType
<1>7. \A d \in Clients : /\ A[d] \subseteq RelayTo(d) /\ Nothing[d] = {}
                         /\ Answers(c, i, m, a)[d] \subseteq AnswerTo(d, c, i, m)
  BY <1>2, <1>6, RelaysAreUseful, AnswersAreUseful
<1>8. \A b \in Answers(c, i, m, a)[c] : AnswersWell(s, st2, c, b)
  <2>1. \A b \in Answers(c, i, m, a)[c] : b = a /\ c \in busy
    BY <1>6 DEF Answers, Current
  <2> QED
    BY <1>4, <1>5, <1>6, <2>1, LocalAnswers DEF StateOf
<1>9. PICK B : B = Answers(c, i, m, a)
  OBVIOUS
<1>10. Serves(s, c, i, st2, A, Nothing) \/ Serves(s, c, i, st2, A, B)
  BY <1>3, <1>5, <1>7, <1>8, <1>9 DEF Serves, StepHandledBy
<1> QED
  BY <1>10

LEMMA PutTagServes ==
  ASSUME TypeOK, ChannelInv, StoreInv, NEW s \in Servers, NEW c \in Clients,
         NEW i \in Incarnations, NEW m \in Messages(requests[c][i][s]),
         m = Head(requests[c][i][s]), m \in Message,
         NEW st \in SingleObjServerState, st = server_state_variables[s],
         putTagResp(s, st, c, i, m)
  PROVE  \E st2, A, B : Serves(s, c, i, st2, A, B)
<1>1. PICK tv : tv = m.TagValue_var
  OBVIOUS
<1>2. PICK st2, A, a : /\ st2 = commitTag(st, tv.Tag_var, tv.Opnum)
                       /\ A = Relays(st, tv.Tag_var, tv.Opnum)
                       /\ a = [m EXCEPT !.TagValue_var = TagOnly(ZeroTag, 0)]
  OBVIOUS
<1>3. /\ m.Phase = PRAKIS_PUT_TAG /\ tv \in TagValue
      /\ Handled(s, st2, A, Answers(c, i, m, a))
  <2>1. /\ m.Phase = PRAKIS_PUT_TAG /\ tv \in TagValue
        /\ Handled(s, commitTag(st, tv.Tag_var, tv.Opnum), Relays(st, tv.Tag_var, tv.Opnum),
                   Answers(c, i, m, [m EXCEPT !.TagValue_var = TagOnly(ZeroTag, 0)]))
    BY <1>1, PutTagHandled, MessageType
  <2> QED
    BY <1>2, <2>1
<1>4. /\ c \in Writers /\ c \notin Readers /\ WriterRequests(c, s)
      /\ m \in Current(c) /\ c \in busy /\ Phase[c] = PRAKIS_PUT_TAG
  BY <1>3, RequestFacts
<1>5. tv.Opnum = Opnum[c] /\ tv.Tag_var = TagValue_var[c].Tag_var
  BY <1>1, <1>4, PhasesDiffer DEF WriterRequests
<1>6. WriterInvOf(c)
  BY <1>4 DEF StoreInv
<1>7. CommitOf(tv)
  <2>1. TagValue_var[c].Tag_var \in TagsOf(c)
    BY <1>4, <1>6 DEF WriterInvOf, Proposed
  <2> QED
    BY <1>4, <1>5, <2>1, TagsOfType DEF CommitOf, Wrote
<1>8. /\ st.tagCodedElement_var = local(s)
      /\ st.writesInProgress = server_state_variables[s].writesInProgress
  BY DEF local
<1>9. /\ StateOf(s, st2) /\ KeepsWrites(s, st2)
      /\ \A d \in Clients : \A b \in A[d] : HeldIn(st2, s, b.TagValue_var)
      /\ isWriteInProgress(st, tv.Tag_var, tv.Opnum) => AtLeast(StoredIn(st2), tv.Tag_var)
  BY <1>2, <1>3, <1>7, <1>8, CommitState, CommitKeeps, CommitRelays
<1>10. AtLeast(StoredIn(st2), TagValue_var[c].Tag_var)
  <2>1. CASE AtLeast(Stored(s), TagValue_var[c].Tag_var)
    <3>1. AtLeast(StoredIn(st2), Stored(s)) /\ StoredIn(st2) \in AnyTag
      BY <1>9, ElementCommits DEF StateOf, StoredIn
    <3> QED
      BY <2>1, <3>1, StoredType, TagTypes, TagTransitive
  <2>2. CASE InList(s, c, Opnum[c])
    <3>1. tv.Tag_var.Client_id = NameTag[c]
      <4>1. TagValue_var[c].Tag_var \in TagsOf(c)
        BY <1>4, <1>6 DEF WriterInvOf, Proposed
      <4> QED
        BY <1>4, <1>5, <4>1, TagsOfType
    <3>2. isWriteInProgress(st, tv.Tag_var, tv.Opnum)
      BY <1>5, <1>8, <2>2, <3>1 DEF InList, isWriteInProgress, EntriesOf, SameWrite
    <3> QED
      BY <1>5, <1>9, <3>2
  <2> QED
    BY <1>4, <1>6, <2>1, <2>2 DEF WriterInvOf
<1>11. \A b \in Answers(c, i, m, a)[c] : AnswersWell(s, st2, c, b)
  BY <1>4, <1>10, PhasesDiffer DEF AnswersWell
<1>12. a \in Message
  BY <1>2, DataTypes, MessageType
<1>13. \A d \in Clients : /\ A[d] \subseteq RelayTo(d)
                          /\ Answers(c, i, m, a)[d] \subseteq AnswerTo(d, c, i, m)
  BY <1>2, <1>12, RelaysAreUseful, AnswersAreUseful
<1>14. PICK B : B = Answers(c, i, m, a)
  OBVIOUS
<1>15. Serves(s, c, i, st2, A, B)
  BY <1>3, <1>9, <1>11, <1>13, <1>14 DEF Serves, StepHandledBy
<1> QED
  BY <1>15

\* No put is late: while a writer puts, no server has noted a tag for its write.
LEMMA NoLatePut ==
  ASSUME TypeOK, ChannelInv, StoreInv, NEW s \in Servers, NEW c \in Clients,
         NEW i \in Incarnations, NEW m \in Messages(requests[c][i][s]), m \in Message,
         m.Phase = PRAKIS_PUT_DATA
  PROVE  ~ isWriteFinalized(server_state_variables[s], m.TagValue_var.Tag_var, m.TagValue_var.Opnum)
<1>1. /\ c \in Writers /\ WriterRequests(c, s) /\ m \in Current(c)
      /\ c \in busy /\ Phase[c] = PRAKIS_PUT_DATA
  BY RequestFacts
<1>2. m.TagValue_var.Opnum = Opnum[c] /\ m.TagValue_var.Tag_var.Client_id = NameTag[c]
  BY <1>1 DEF WriterRequests
<1> SUFFICES ASSUME NEW x \in server_state_variables[s].writesInProgress,
                    x.Client_id = NameTag[c], x.opnum = Opnum[c], x.isFinalized
             PROVE  FALSE
  BY <1>2 DEF isWriteFinalized, EntriesOf, SameWrite
<1>3. PICK w \in Writers : x.Client_id = NameTag[w] /\ HasTag(w, x.opnum)
  BY DEF StoreInv, ServerInv, ServerInvOf, EntryOK
<1>4. HasTag(c, Opnum[c])
  BY <1>1, <1>3, WriterNames
<1>5. PICK e \in log : e.client = c /\ e.TagValue_var.Value = <<c, Opnum[c]>>
  BY <1>1, <1>4, PhasesDiffer DEF HasTag
<1>6. PICK o \in 1..Opnum[c] : e.TagValue_var.Value = <<c, o>> /\ o < Opnum[c]
  BY <1>1, <1>5 DEF StoreInv, LogInv, LogOf
<1> QED
  BY <1>5, <1>6

\* A server's proposal is above its tag, and so above the floor of the writer.
LEMMA NextTagProposed ==
  ASSUME TypeOK, StoreInv, NEW s \in Servers, NEW w \in Writers, w \in busy,
         NEW tv, tv.Tag_var.Client_id = NameTag[w]
  PROVE  Proposed(w, nextTag(server_state_variables[s], tv))
<1>1. PICK t : t = nextTag(server_state_variables[s], tv)
  OBVIOUS
<1>2. Stored(s) \in Tag /\ AtLeast(Stored(s), completed)
  <2>1. ServerInvOf(s)
    BY DEF StoreInv, ServerInv
  <2> QED
    BY <2>1, ElementCommits DEF ServerInvOf, Stored
<1>3. t = [Version_num |-> Stored(s).Version_num + 1, Client_id |-> NameTag[w]]
  BY <1>1 DEF nextTag, Stored, local
<1>4. t \in TagsOf(w)
  BY <1>2, <1>3 DEF TagsOf, Tag
<1>5. isGreaterTag(t, Stored(s))
  BY <1>2, <1>3 DEF isGreaterTag, Tag
<1>6. AtLeast(completed, floor[w]) /\ w \in Clients
  BY WriterNames DEF StoreInv, FloorsInv
<1>7. isGreaterTag(t, floor[w])
  <2>1. /\ t \in AnyTag /\ Stored(s) \in AnyTag /\ completed \in AnyTag /\ floor[w] \in AnyTag
    BY <1>4, <1>6, TagsOfType, StoredType, TagTypes
  <2>2. isGreaterTag(t, completed)
    BY <1>2, <1>5, <2>1, TagTransitive
  <2> QED
    BY <1>6, <2>1, <2>2, TagTransitive
<1> QED
  BY <1>1, <1>4, <1>7 DEF Proposed

LEMMA PutDataServes ==
  ASSUME TypeOK, ChannelInv, StoreInv, NEW s \in Servers, NEW c \in Clients,
         NEW i \in Incarnations, NEW m \in Messages(requests[c][i][s]),
         m = Head(requests[c][i][s]), m \in Message,
         NEW st \in SingleObjServerState, st = server_state_variables[s],
         putDataResp(s, st, c, i, m)
  PROVE  \E st2, A, B : Serves(s, c, i, st2, A, B)
<1>1. PICK tv, tag, o : tv = m.TagValue_var /\ tag = tv.Tag_var /\ o = tv.Opnum
  OBVIOUS
<1>2. PICK nt, put : nt = nextTag(st, tv) /\ put = [tv EXCEPT !.Tag_var = nt]
  OBVIOUS
<1>3. PICK st2, a : /\ st2 = SetEntry(st, tag, o, put, FALSE)
                    /\ a = [m EXCEPT !.TagValue_var = TagOnly(nt, 0)]
  OBVIOUS
<1>4. /\ m.Phase = PRAKIS_PUT_DATA /\ tv \in TagValue /\ put \in TagValue
      /\ Handled(s, st2, Nothing, Answers(c, i, m, a))
  <2> DEFINE tv0 == m.TagValue_var
             put0 == [tv0 EXCEPT !.Tag_var = nextTag(st, tv0)]
  <2>1. /\ m.Phase = PRAKIS_PUT_DATA /\ put0 \in TagValue
        /\ Handled(s, SetEntry(st, tv0.Tag_var, tv0.Opnum, put0, FALSE), Nothing,
                   Answers(c, i, m, [m EXCEPT !.TagValue_var = TagOnly(nextTag(st, tv0), 0)]))
    BY PutDataHandled
  <2>2. tv0 = tv /\ put0 = put /\ tv0 \in TagValue
    BY <1>1, <1>2, MessageType
  <2> HIDE DEF tv0, put0
  <2> QED
    BY <1>1, <1>2, <1>3, <2>1, <2>2
<1>5. /\ c \in Writers /\ c \notin Readers /\ WriterRequests(c, s)
      /\ c \in busy /\ Phase[c] = PRAKIS_PUT_DATA
  BY <1>4, RequestFacts
<1>6. /\ Element(c, Opnum[c], s, tv) /\ tag.Client_id = NameTag[c] /\ o = Opnum[c]
      /\ tag \in AnyTag /\ o \in Nat /\ o \in 1..Opnum[c]
  <2>1. Element(c, Opnum[c], s, tv) /\ tag.Client_id = NameTag[c] /\ o = Opnum[c]
    BY <1>1, <1>5 DEF WriterRequests
  <2>2. tag \in AnyTag /\ Opnum[c] \in Nat /\ Opnum[c] >= 1
    BY <1>1, <1>4, <1>5, DataTypes, TagTypes
  <2> QED
    BY <2>1, <2>2
<1>7. PICK n : n = [Client_id |-> tag.Client_id, opnum |-> o, tagValue |-> put,
                    isFinalized |-> FALSE]
  OBVIOUS
<1>8. /\ st2.tagCodedElement_var = local(s)
      /\ st2.writesInProgress = Forget(st, tag, o) \cup {n}
  <2>1. PICK ws : ws = Forget(st, tag, o) \cup {n}
    OBVIOUS
  <2>2. st2 = [st EXCEPT !.writesInProgress = ws]
    BY <1>3, <1>7, <2>1 DEF SetEntry, Forget
  <2>3. st.tagCodedElement_var = local(s)
    BY DEF local
  <2> QED
    BY <2>1, <2>2, <2>3 DEF SingleObjServerState
<1>9. n.Client_id = NameTag[c] /\ n.opnum = Opnum[c] /\ n.isFinalized = FALSE /\ n.tagValue = put
  BY <1>6, <1>7
<1>10. /\ Forget(st, tag, o) \subseteq server_state_variables[s].writesInProgress
       /\ \A x \in server_state_variables[s].writesInProgress :
            x \in Forget(st, tag, o) <=> ~ (x.Client_id = NameTag[c] /\ x.opnum = Opnum[c])
  BY <1>6 DEF Forget, EntriesOf, SameWrite
<1>11. ServerInvOf(s)
  BY DEF StoreInv, ServerInv
<1>12. EntryOK(s, n)
  <2>1. Element(c, Opnum[c], s, put)
    BY <1>2, <1>4, <1>6 DEF Element, TagValue
  <2> QED
    BY <1>5, <1>6, <1>9, <2>1 DEF EntryOK
<1>13. StateOf(s, st2)
  <2>1. ElementOf(s, st2.tagCodedElement_var) /\ AtLeast(StoredIn(st2), Stored(s))
    <3>1. StoredIn(st2) = Stored(s)
      BY <1>8 DEF StoredIn, Stored
    <3>2. AtLeast(Stored(s), Stored(s))
      BY StoredType, TagTotal
    <3> QED
      BY <1>8, <1>11, <3>1, <3>2 DEF ServerInvOf
  <2>2. \A x \in st2.writesInProgress : EntryOK(s, x)
    BY <1>8, <1>10, <1>11, <1>12 DEF ServerInvOf
  <2>3. \A x, y \in st2.writesInProgress : x.Client_id = y.Client_id /\ x.opnum = y.opnum => x = y
    BY <1>8, <1>9, <1>10, <1>11 DEF ServerInvOf
  <2> QED
    BY <2>1, <2>2, <2>3 DEF StateOf
<1>14. InEntries(st2, c, Opnum[c])
  BY <1>8, <1>9 DEF InEntries
<1>15. KeepsWrites(s, st2)
  <2> SUFFICES ASSUME NEW w \in Writers, InList(s, w, Opnum[w])
               PROVE  InEntries(st2, w, Opnum[w])
    BY DEF KeepsWrites
  <2>1. PICK x \in server_state_variables[s].writesInProgress :
          x.Client_id = NameTag[w] /\ x.opnum = Opnum[w] /\ ~ x.isFinalized
    BY DEF InList
  <2>2. CASE x.Client_id = NameTag[c] /\ x.opnum = Opnum[c]
    BY <1>5, <1>14, <2>1, <2>2, WriterNames
  <2>3. CASE ~ (x.Client_id = NameTag[c] /\ x.opnum = Opnum[c])
    BY <1>8, <1>10, <2>1, <2>3 DEF InEntries
  <2> QED
    BY <2>2, <2>3
<1>16. a \in Message /\ a.TagValue_var.Tag_var = nt
  <2>1. nt \in Tag /\ nt \in AnyTag
    BY <1>2, <1>4, NextTagType, DataTypes
  <2> QED
    BY <1>3, <2>1, DataTypes, MessageType
<1>17. \A b \in Answers(c, i, m, a)[c] : AnswersWell(s, st2, c, b)
  <2>1. \A b \in Answers(c, i, m, a)[c] : b = a
    BY DEF Answers
  <2>2. Proposed(c, nt)
    BY <1>1, <1>2, <1>5, <1>6, NextTagProposed
  <2> QED
    BY <1>5, <1>14, <1>16, <2>1, <2>2, PhasesDiffer DEF AnswersWell
<1>18. \A d \in Clients : /\ Nothing[d] = {} /\ Nothing[d] \subseteq RelayTo(d)
                          /\ Answers(c, i, m, a)[d] \subseteq AnswerTo(d, c, i, m)
  BY <1>16, AnswersAreUseful DEF Nothing
<1>19. PICK B : B = Answers(c, i, m, a)
  OBVIOUS
<1>20. Serves(s, c, i, st2, Nothing, B)
  BY <1>4, <1>13, <1>15, <1>17, <1>18, <1>19 DEF Serves, StepHandledBy
<1> QED
  BY <1>20

\* Every step of a server leaves a state, and sends messages, that are allowed.
LEMMA ServerStepServes ==
  ASSUME TypeOK, ChannelInv, StoreInv, NEW s \in Servers, NEW c \in Clients,
         NEW i \in Incarnations, ServerStep(s, c, i)
  PROVE  \E st2, A, B : Serves(s, c, i, st2, A, B)
<1>1. PICK m, st : m = Head(requests[c][i][s]) /\ st = server_state_variables[s]
  OBVIOUS
<1>2. /\ m \in Message /\ m \in Messages(requests[c][i][s])
      /\ st \in SingleObjServerState
      /\ \/ putDataResp(s, st, c, i, m)
         \/ putDataRespFinalized(s, st, c, i, m)
         \/ putTagResp(s, st, c, i, m)
         \/ getTagDataResp(s, st, c, i, m)
         \/ commitForReader(s, st, m)
         \/ registerRead(s, st, c, i, m)
         \/ readCompleteResp(s, st, c, m)
  BY <1>1, StepMessage
<1>3. ~ putDataRespFinalized(s, st, c, i, m)
  <2> SUFFICES ASSUME putDataRespFinalized(s, st, c, i, m) PROVE FALSE
    OBVIOUS
  <2>1. m.Phase = PRAKIS_PUT_DATA /\ isWriteFinalized(st, m.TagValue_var.Tag_var, m.TagValue_var.Opnum)
    BY DEF putDataRespFinalized
  <2> QED
    BY <1>1, <1>2, <2>1, NoLatePut
<1> QED
  BY <1>1, <1>2, <1>3, PutDataServes, PutTagServes, GetTagDataServes, CommitServes,
     RegisterServes, ReadCompleteServes

LEMMA EmptyQueue ==
  ASSUME NEW q \in Seq(Message), q # <<>>
  PROVE  \E m : m \in Messages(q)
BY EmptyMessages

\* What a server's answers do to a writer.
LEMMA ServedWriter ==
  ASSUME TypeOK, TypeOK', NEW s \in Servers, NEW c \in Clients, NEW i \in Incarnations,
         NEW st2, NEW A, NEW B, Serves(s, c, i, st2, A, B),
         UNCHANGED <<busy, Phase, Opnum, responders>>, NEW w \in Writers, w \in Clients
  PROVE  \A q \in Servers : WriterServed(w, q)
<1>1. /\ server_state_variables'[s] = st2
      /\ \A q \in Servers : q # s => server_state_variables'[q] = server_state_variables[q]
      /\ \A q \in Servers : q # s => replies'[w][q] = replies[w][q]
      /\ Sends(w, s, A[w], B[w])
      /\ A[w] \subseteq RelayTo(w)
      /\ B[w] \subseteq AnswerTo(w, c, i, Head(requests[c][i][s]))
  BY DEF Serves, StepHandledBy, Handled
<1>2. ASSUME NEW q \in Servers, q # s PROVE WriterServed(w, q)
  <2>1. /\ server_state_variables'[q] = server_state_variables[q]
        /\ replies'[w][q] = replies[w][q]
    BY <1>1, <1>2
  <2>2. /\ InList(q, w, Opnum[w])' <=> InList(q, w, Opnum[w])
        /\ HasAnswered(q, w)' <=> HasAnswered(q, w)
    BY <2>1 DEF InList, HasAnswered
  <2> QED
    BY <2>1, <2>2 DEF WriterServed
<1>3. \A b \in B[w] : w = c /\ AnswersWell(s, st2, w, b)
  BY <1>1 DEF AnswerTo, Serves
<1>4. Messages(replies'[w][s]) \subseteq Messages(replies[w][s]) \cup A[w] \cup B[w]
  <2>1. A[w] \subseteq Message /\ B[w] \subseteq Message
    BY <1>1 DEF RelayTo, AnswerTo
  <2> QED
    BY <1>1, <2>1, SendsMessages
<1>5. Phase[w] # PRAKIS_RELAY_DATA => A[w] = {}
  BY <1>1 DEF RelayTo
<1>6. InEntries(st2, w, Opnum[w]) <=> InList(s, w, Opnum[w])'
  BY <1>1 DEF InEntries, InList
<1>7. StoredIn(st2) = Stored(s)'
  BY <1>1 DEF StoredIn, Stored, local
<1>8. Phase[w] # PRAKIS_RELAY_DATA /\ HasAnswered(s, w)' /\ ~ HasAnswered(s, w) => B[w] # {}
  <2>1. HAVE Phase[w] # PRAKIS_RELAY_DATA /\ HasAnswered(s, w)' /\ ~ HasAnswered(s, w)
  <2>2. replies[w][s] = <<>> /\ replies'[w][s] # <<>>
    BY <2>1 DEF HasAnswered
  <2>3. replies'[w][s] \in Seq(Message)
    BY DEF TypeOK
  <2>4. Messages(replies[w][s]) = {}
    BY <2>2, EmptyMessages
  <2>5. \E m : m \in Messages(replies'[w][s])
    BY <2>2, <2>3, EmptyQueue
  <2> QED
    BY <1>4, <1>5, <2>1, <2>4, <2>5
<1>9. WriterServed(w, s)
  <2>1. ASSUME w \in busy, Phase[w] = PRAKIS_PUT_DATA
        PROVE  /\ InList(s, w, Opnum[w]) => InList(s, w, Opnum[w])'
               /\ \A m \in Messages(replies'[w][s]) :
                    m \in Messages(replies[w][s]) \/ Proposed(w, m.TagValue_var.Tag_var)
               /\ HasAnswered(s, w)' => HasAnswered(s, w) \/ InList(s, w, Opnum[w])'
    <3>1. InList(s, w, Opnum[w]) => InList(s, w, Opnum[w])'
      BY <1>6, <2>1, PhasesDiffer DEF Serves, KeepsWrites
    <3>2. \A b \in B[w] : /\ Proposed(w, b.TagValue_var.Tag_var)
                          /\ InList(s, w, Opnum[w])'
      BY <1>3, <1>6, <2>1 DEF AnswersWell
    <3> QED
      BY <1>4, <1>5, <1>8, <2>1, <3>1, <3>2, PhasesDiffer
  <2>2. ASSUME w \in busy, Phase[w] = PRAKIS_PUT_TAG,
               ~ AtLeast(Stored(s)', TagValue_var[w].Tag_var)
        PROVE  /\ HasAnswered(s, w)' => HasAnswered(s, w)
               /\ InList(s, w, Opnum[w]) => InList(s, w, Opnum[w])'
    <3>1. InList(s, w, Opnum[w]) => InList(s, w, Opnum[w])'
      BY <1>6, <1>7, <2>2 DEF Serves, KeepsWrites
    <3>2. B[w] = {}
      BY <1>3, <1>7, <2>2 DEF AnswersWell
    <3> QED
      BY <1>8, <2>2, <3>1, <3>2, PhasesDiffer
  <2> QED
    BY <2>1, <2>2 DEF WriterServed
<1> QED
  BY <1>2, <1>9

\* What a server's answers and relays do to a reader.
LEMMA ServedReader ==
  ASSUME TypeOK, WritesStay, NEW s \in Servers, NEW c \in Clients, NEW i \in Incarnations,
         NEW st2, NEW A, NEW B, Serves(s, c, i, st2, A, B), NEW r \in Readers, r \in Clients
  PROVE  \A q \in Servers : ReaderServed(r, q)
<1>1. /\ server_state_variables'[s] = st2
      /\ \A q \in Servers : q # s => replies'[r][q] = replies[r][q]
      /\ Sends(r, s, A[r], B[r])
      /\ A[r] \subseteq RelayTo(r)
      /\ B[r] \subseteq AnswerTo(r, c, i, Head(requests[c][i][s]))
  BY DEF Serves, StepHandledBy, Handled
<1>2. ASSUME NEW q \in Servers, q # s PROVE ReaderServed(r, q)
  BY <1>1, <1>2 DEF ReaderServed
<1>3. Messages(replies'[r][s]) \subseteq Messages(replies[r][s]) \cup A[r] \cup B[r]
  <2>1. A[r] \subseteq Message /\ B[r] \subseteq Message
    BY <1>1 DEF RelayTo, AnswerTo
  <2> QED
    BY <1>1, <2>1, SendsMessages
<1>4. \A b \in B[r] : /\ HeldIn(st2, s, b.TagValue_var)
                      /\ Phase[r] = PRAKIS_GET_TAG_DATA =>
                           AtLeast(b.TagValue_var.Tag_var, floor[r])
  BY <1>1 DEF AnswerTo, Serves, AnswersWell
<1>5. \A a \in A[r] : HeldIn(st2, s, a.TagValue_var) /\ Phase[r] # PRAKIS_GET_TAG_DATA
  BY <1>1, PhasesDiffer DEF RelayTo, Serves
<1>6. ASSUME NEW e, HeldIn(st2, s, e) PROVE Held(s, e)'
  <2>1. ElementOf(s, e)'
    BY <1>6, ElementStays DEF HeldIn
  <2>2. AtLeast(Stored(s), e.Tag_var)'
    BY <1>1, <1>6 DEF HeldIn, StoredIn, Stored, local
  <2> QED
    BY <2>1, <2>2 DEF Held
<1>7. ReaderServed(r, s)
  BY <1>3, <1>4, <1>5, <1>6 DEF ReaderServed
<1> QED
  BY <1>2, <1>7

LEMMA ServerStepStore ==
  ASSUME TypeOK, TypeOK', ChannelInv, StoreInv, NEW s \in Servers, NEW c \in Clients,
         NEW i \in Incarnations, ServerStep(s, c, i)
  PROVE  StoreInv'
<1>1. PICK st2, A, B : Serves(s, c, i, st2, A, B)
  BY ServerStepServes
<1>2. /\ UNCHANGED <<busy, Opnum, incarnation, phaseVars, historyVars>>
      /\ \A d \in Clients : SameClient(d) /\ RequestsShrink(d)
  BY ServerStepEffect
<1>3. UNCHANGED <<busy, Opnum, Phase, responders, TagValue_var, floor, completed, log>>
  BY <1>2 DEF phaseVars, historyVars
<1>4. WritesStay
  BY <1>3, WritesFrame
<1>5. /\ server_state_variables'[s] = st2
      /\ \A q \in Servers : q # s => server_state_variables'[q] = server_state_variables[q]
      /\ StateOf(s, st2)
  BY <1>1 DEF Serves, StepHandledBy, Handled
<1>6. Forward
  <2>1. Stored(s)' = StoredIn(st2) /\ \A q \in Servers : q # s => Stored(q)' = Stored(q)
    BY <1>5 DEF Stored, local, StoredIn
  <2>2. \A q \in Servers : AtLeast(Stored(q), Stored(q))
    BY StoredType, TagTotal
  <2> QED
    BY <1>5, <2>1, <2>2 DEF Forward, StateOf
<1>7. \A d \in Clients : Moves(d) /\ Opnum[d] \in Nat
  BY <1>3, TagTypes DEF Moves
<1>8. \A w \in Writers : Opnum'[w] >= Opnum[w]
  BY <1>7, WriterNames DEF Moves
<1>9. LogInv' /\ FloorsInv'
  BY <1>3, <1>7, LogKeep
<1>10. ServerInv'
  <2> SUFFICES ASSUME NEW q \in Servers PROVE ServerInvOf(q)'
    BY DEF ServerInv
  <2>1. ServerInvOf(q)
    BY DEF StoreInv, ServerInv
  <2>2. AtLeast(Stored(q), completed)'
    <3>1. AtLeast(Stored(q)', completed)
      BY <1>6, <2>1, TagTypes, StoredStays DEF ServerInvOf, TypeOK
    <3> QED
      BY <1>3, <3>1
  <2>3. CASE q = s
    <3>1. ElementOf(s, st2.tagCodedElement_var)'
      BY <1>4, <1>5, ElementStays DEF StateOf
    <3>2. \A x \in st2.writesInProgress : EntryOK(s, x)'
      BY <1>4, <1>5, <1>8, EntryStays DEF StateOf
    <3>3. local(s)' = st2.tagCodedElement_var
      BY <1>5 DEF local
    <3> QED
      BY <1>5, <2>2, <2>3, <3>1, <3>2, <3>3 DEF ServerInvOf, StateOf
  <2>4. CASE q # s
    <3>1. server_state_variables'[q] = server_state_variables[q] /\ local(q)' = local(q)
      BY <1>5, <2>4 DEF local
    <3>2. ElementOf(q, local(q))'
      BY <1>4, <2>1, <3>1, ElementStays DEF ServerInvOf
    <3>3. \A x \in server_state_variables[q].writesInProgress : EntryOK(q, x)'
      BY <1>4, <1>8, <2>1, EntryStays DEF ServerInvOf
    <3> QED
      BY <2>1, <2>2, <3>1, <3>2, <3>3 DEF ServerInvOf
  <2> QED
    BY <2>3, <2>4
<1>11. ASSUME NEW w \in Writers PROVE WriterInvOf(w)'
  <2>1. w \in Clients /\ WriterInvOf(w)
    BY WriterNames DEF StoreInv
  <2>2. \A q \in Servers : WriterServed(w, q)
    BY <1>1, <1>3, <2>1, ServedWriter
  <2> QED
    BY <1>2, <1>6, <2>1, <2>2, WriterKeep
<1>12. ASSUME NEW r \in Readers PROVE ReaderInvOf(r)'
  <2>1. r \in Clients /\ ReaderInvOf(r)
    BY DEF StoreInv, Clients
  <2>2. \A q \in Servers : ReaderServed(r, q)
    BY <1>1, <1>4, <2>1, ServedReader
  <2> QED
    BY <1>2, <1>4, <1>6, <2>1, <2>2, ReaderKeep
<1> QED
  BY <1>9, <1>10, <1>11, <1>12 DEF StoreInv

-----------------------------------------------------------------------------
(* The invariant *)

LEMMA NobodySteps ==
  ASSUME TypeOK, TypeOK', StoreInv, UNCHANGED <<server_state_variables, historyVars>>,
         \A d \in Clients : Idle(d)
  PROVE  StoreInv'
<1>1. \A d \in Clients : Moves(d) /\ SameClient(d)
  BY IdleServed
<1>2. UNCHANGED <<completed, log>>
  BY DEF historyVars
<1>3. LogInv' /\ FloorsInv'
  BY <1>1, <1>2, LogKeep
<1>4. WritesStay
  BY <1>1, <1>2, WritesFrame, WriterNames DEF SameClient
<1>5. Forward
  BY SameForward
<1>6. ServerInv'
  <2>1. \A w \in Writers : Opnum'[w] >= Opnum[w]
    BY <1>1, WriterNames DEF Moves
  <2> QED
    BY <1>2, <1>4, <2>1, ServersKeep, StoredIsCompleted
<1>7. \A w \in Writers : WriterInvOf(w)'
  <2> SUFFICES ASSUME NEW w \in Writers PROVE WriterInvOf(w)'
    OBVIOUS
  <2>1. w \in Clients /\ Idle(w) /\ WriterInvOf(w)
    BY WriterNames DEF StoreInv
  <2> QED
    BY <1>5, <2>1, IdleServed, WriterKeep
<1>8. \A r \in Readers : ReaderInvOf(r)'
  <2> SUFFICES ASSUME NEW r \in Readers PROVE ReaderInvOf(r)'
    OBVIOUS
  <2>1. r \in Clients /\ Idle(r) /\ ReaderInvOf(r)
    BY DEF StoreInv, Clients
  <2> QED
    BY <1>4, <1>5, <2>1, IdleServed, ReaderKeep
<1> QED
  BY <1>3, <1>6, <1>7, <1>8 DEF StoreInv

LEMMA StoreInit == Init => StoreInv
<1> SUFFICES ASSUME Init PROVE StoreInv
  OBVIOUS
<1>1. /\ log = {} /\ busy = {} /\ completed = InitialTag
      /\ \A s \in Servers : /\ local(s) = TagOnly(InitialTag, 0)
                            /\ server_state_variables[s].writesInProgress = {}
      /\ \A c \in Clients, i \in Incarnations, s \in Servers : requests[c][i][s] = <<>>
  BY DEF Init, local
<1>2. Messages(<<>>) = {}
  BY EmptyMessages
<1>3. AtLeast(InitialTag, InitialTag) /\ TagOnly(InitialTag, 0).Tag_var = InitialTag
  BY DataTypes, TagTotal
<1>4. LogInv /\ FloorsInv
  BY <1>1 DEF LogInv, FloorsInv
<1>5. ServerInv
  BY <1>1, <1>3 DEF ServerInv, ServerInvOf, ElementOf, Stored
<1>6. \A c \in Clients, i \in Incarnations, s \in Servers : Messages(requests[c][i][s]) = {}
  BY <1>1, <1>2
<1>7. \A w \in Writers : WriterInvOf(w)
  BY <1>1, <1>6, WriterNames DEF WriterInvOf, WriterRequests
<1>8. \A r \in Readers : ReaderInvOf(r)
  BY <1>1, <1>6 DEF ReaderInvOf, Clients
<1> QED
  BY <1>4, <1>5, <1>7, <1>8 DEF StoreInv

LEMMA SInit == Init => SInv
BY TypeInit, ChannelInit, TagInit, StoreInit DEF SInv, TInv

LEMMA SStep ==
  ASSUME AllServersNeeded, SInv, [Next]_vars
  PROVE  SInv'
<1>1. TInv' /\ TypeOK /\ TypeOK' /\ ChannelInv /\ TagInv /\ StoreInv
  BY TagStep DEF SInv, TInv
<1>2. ASSUME UNCHANGED vars PROVE StoreInv'
  <2>1. \A d \in Clients : Idle(d)
    BY <1>2 DEF vars, phaseVars, netVars, historyVars, Idle, SameClient
  <2>2. UNCHANGED <<server_state_variables, historyVars>>
    BY <1>2 DEF vars
  <2> QED
    BY <1>1, <2>1, <2>2, NobodySteps
<1>3. ASSUME NEW c \in Clients, ClientStep(c) PROVE StoreInv'
  <2>1. CASE StartRead(c) \/ StartWrite(c)
    BY <1>1, <2>1, StartReadStore, StartWriteStore
  <2>2. ASSUME NEW s \in Servers, CollectReply(c, s) \/ CollectRelay(c, s) PROVE StoreInv'
    BY <1>1, <2>2, CollectReplyStore, CollectRelayStore
  <2>3. CASE WriterPutsTag(c) \/ PutTagCompletes(c)
    BY <1>1, <2>3, WriterPutsTagStore, PutTagCompletesStore
  <2>4. CASE ReadInOnePhase(c) \/ ReaderAsksForRelays(c)
    BY <1>1, <2>4, ReadInOnePhaseStore, ReaderAsksForRelaysStore
  <2>5. CASE emulateNewClient(c)
    BY <1>1, <2>5, EmulateStore
  <2> QED
    BY <1>3, <2>1, <2>2, <2>3, <2>4, <2>5 DEF ClientStep
<1>4. ASSUME NEW s \in Servers, NEW c \in Clients, NEW i \in Incarnations, ServerStep(s, c, i)
      PROVE  StoreInv'
  BY <1>1, <1>4, ServerStepStore
<1>5. ASSUME NEW s \in Servers, KillServer(s) PROVE StoreInv'
  <2>1. UNCHANGED <<server_state_variables, historyVars>> /\ \A d \in Clients : Idle(d)
    BY <1>1, <1>5, KillServerEffect DEF KillServer
  <2> QED
    BY <1>1, <2>1, NobodySteps
<1>6. StoreInv'
  BY <1>2, <1>3, <1>4, <1>5 DEF Next, AllDone
<1> QED
  BY <1>1, <1>6 DEF SInv

LEMMA SAlways == ASSUME AllServersNeeded PROVE Spec => []SInv
<1>1. Init => SInv
  BY SInit
<1>2. SInv /\ [Next]_vars => SInv'
  BY SStep
<1> QED
  BY <1>1, <1>2, PTL DEF Spec

\* When an element of each server is needed, all servers hold the tag of every
\* operation that has ended, or a larger one (list_based_algos.go: putTagPrakis
\* 61-74, relayDataPrakis 195-255).
THEOREM CompletedStored == ASSUME AllServersNeeded PROVE Spec => []CompletedIsStored
<1>1. SInv => CompletedIsStored
  <2> SUFFICES ASSUME SInv PROVE CompletedIsStored
    OBVIOUS
  <2>1. \A s \in Servers : AtLeast(local(s).Tag_var, completed)
    BY StoredIsCompleted DEF SInv, Stored
  <2>2. PICK S : S = {s \in Servers : AtLeast(local(s).Tag_var, completed)}
    OBVIOUS
  <2>3. S = Servers
    BY <2>1, <2>2
  <2>4. Cardinality(S) >= K
    BY <2>3, DataTypes DEF AllServersNeeded
  <2> QED
    BY <2>2, <2>4 DEF CompletedIsStored
<1> QED
  BY <1>1, SAlways, PTL

\* Nor is a tag ever committed for the element of another write: servers that hold
\* one tag hold their own elements of one write (list_based_algos.go,
\* commitTagRespPrakis and putDataRespPrakis).
THEOREM ElementsAreOwn == ASSUME AllServersNeeded PROVE Spec => []ServersHoldTheirElements
<1>1. SInv => ServersHoldTheirElements
  <2> SUFFICES ASSUME SInv, NEW s \in Servers, local(s).Tag_var # InitialTag
               PROVE  /\ local(s).CodeIndex = s
                      /\ \A q \in Servers : local(q).Tag_var = local(s).Tag_var =>
                           local(q).Value = local(s).Value
    BY DEF ServersHoldTheirElements
  <2>1. TypeOK /\ StoreInv /\ \A q \in Servers : ElementOf(q, local(q))
    BY DEF SInv, TInv, StoreInv, ServerInv, ServerInvOf
  <2>2. TagOnly(InitialTag, 0).Tag_var = InitialTag
    BY DataTypes
  <2>3. \A q \in Servers : local(q).Tag_var # InitialTag => OwnElement(q, local(q))
    BY <2>1, <2>2 DEF ElementOf
  <2>4. ASSUME NEW q \in Servers, local(q).Tag_var = local(s).Tag_var
        PROVE  local(q).Value = local(s).Value
    <3>1. PICK v \in Writers : /\ local(s).Value = <<v, local(s).Opnum>>
                               /\ Wrote(v, local(s).Opnum, local(s).Tag_var)
      BY <2>3 DEF OwnElement
    <3>2. PICK w \in Writers : /\ local(q).Value = <<w, local(q).Opnum>>
                               /\ Wrote(w, local(q).Opnum, local(q).Tag_var)
      BY <2>3, <2>4 DEF OwnElement
    <3>3. v = w /\ local(s).Opnum = local(q).Opnum
      BY <2>1, <2>4, <3>1, <3>2, OneWrite
    <3> QED
      BY <3>1, <3>2, <3>3
  <2> QED
    BY <2>3, <2>4 DEF OwnElement
<1> QED
  BY <1>1, SAlways, PTL

-----------------------------------------------------------------------------
(* The tagged register *)

\* Reads begin above the initial tag, once a write has ended.
FloorsAbove ==
  /\ AtLeast(completed, InitialTag)
  /\ \A r \in Readers : r \in busy => isGreaterTag(floor[r], InitialTag)

LEMMA FloorsGoOn ==
  ASSUME FloorsAbove, floor' = floor, busy' \subseteq busy,
         completed' = completed \/ AtLeast(completed', InitialTag)
  PROVE  FloorsAbove'
BY DEF FloorsAbove

LEMMA LargerAbove ==
  ASSUME TypeOK, FloorsAbove, NEW t \in AnyTag, completed' = LargerTag(t, completed)
  PROVE  AtLeast(completed', InitialTag)
<1>1. completed \in AnyTag /\ InitialTag \in AnyTag /\ AtLeast(completed, InitialTag)
  BY DataTypes DEF TypeOK, FloorsAbove
<1>2. PICK u : u = LargerTag(t, completed)
  OBVIOUS
<1>3. u \in AnyTag /\ AtLeast(u, completed)
  BY <1>1, <1>2, LargerTagBounds
<1>4. AtLeast(u, InitialTag)
  BY <1>1, <1>3, TagTransitive
<1> QED
  BY <1>2, <1>4

LEMMA FloorsInit == Init => FloorsAbove
BY DataTypes, TagTotal DEF Init, FloorsAbove

LEMMA StartFloors ==
  ASSUME Prewritten, TypeOK, FloorsAbove, NEW c \in Clients, StartRead(c) \/ StartWrite(c)
  PROVE  FloorsAbove'
<1>1. /\ busy' = busy \cup {c} /\ completed' = completed
      /\ floor' = [floor EXCEPT ![c] = completed]
  BY DEF StartRead, StartWrite, StartOperation
<1>2. c \in Readers => completed # InitialTag
  <2>1. StartWrite(c) => c \notin Readers
    BY ClientsAssumption DEF StartWrite
  <2> QED
    BY <2>1 DEF StartRead
<1>3. c \in Readers => isGreaterTag(completed, InitialTag)
  BY <1>2, DataTypes, TagTotal DEF FloorsAbove, TypeOK
<1> QED
  BY <1>1, <1>3 DEF FloorsAbove, TypeOK, Clients

LEMMA FloorsStep ==
  ASSUME Prewritten, TypeOK, FloorsAbove, [Next]_vars
  PROVE  FloorsAbove'
<1>1. ASSUME UNCHANGED <<busy, historyVars>> PROVE FloorsAbove'
  BY <1>1, FloorsGoOn DEF historyVars
<1>2. ASSUME NEW c \in Clients, ClientStep(c) PROVE FloorsAbove'
  <2>1. CASE StartRead(c) \/ StartWrite(c)
    BY <2>1, StartFloors
  <2>2. ASSUME NEW s \in Servers, CollectReply(c, s) PROVE FloorsAbove'
    BY <1>1, <2>2 DEF CollectReply
  <2>3. ASSUME NEW t \in AnyTag, completed' = LargerTag(t, completed), floor' = floor,
               busy' = busy \ {c}
        PROVE  FloorsAbove'
    BY <2>3, LargerAbove, FloorsGoOn
  <2>4. ASSUME NEW s \in Servers, CollectRelay(c, s) PROVE FloorsAbove'
    <3>1. PICK tv \in TagValue : \/ UNCHANGED <<busy, historyVars>>
                                 \/ /\ completed' = LargerTag(tv.Tag_var, completed)
                                    /\ floor' = floor /\ busy' = busy \ {c}
      BY <2>4, CollectRelayEffect DEF KeepsRelay
    <3> QED
      BY <1>1, <2>3, <3>1, DataTypes
  <2>5. CASE WriterPutsTag(c) \/ ReaderAsksForRelays(c) \/ emulateNewClient(c)
    BY <1>1, <2>5 DEF WriterPutsTag, ReaderAsksForRelays, emulateNewClient
  <2>6. CASE PutTagCompletes(c)
    BY <2>3, <2>6, PutTagCompletesEffect, TagTypes
  <2>7. CASE ReadInOnePhase(c)
    BY <1>1, <2>3, <2>7, ReadInOnePhaseEffect, TagTypes
  <2> QED
    BY <1>2, <2>1, <2>2, <2>4, <2>5, <2>6, <2>7 DEF ClientStep
<1>3. ASSUME NEW s \in Servers, NEW c \in Clients, NEW i \in Incarnations, ServerStep(s, c, i)
      PROVE  FloorsAbove'
  BY <1>1, <1>3 DEF ServerStep
<1>4. ASSUME NEW s \in Servers, KillServer(s) PROVE FloorsAbove'
  BY <1>1, <1>4 DEF KillServer
<1> QED
  BY <1>1, <1>2, <1>3, <1>4 DEF Next, AllDone, vars

\* The invariant of the refinement.
WInv == SInv /\ FloorsAbove

LEMMA WAlways == ASSUME AllServersNeeded, Prewritten PROVE Spec => []WInv
<1>1. Init => WInv
  BY SInit, FloorsInit DEF WInv
<1>2. WInv /\ [Next]_vars => WInv'
  BY SStep, FloorsStep DEF WInv, SInv, TInv
<1> QED
  BY <1>1, <1>2, PTL DEF Spec

NoPair == [Tag_var |-> LowestTag, Value |-> NoValue]
InitialPair == [Tag_var |-> InitialTag, Value |-> NoValue]

\* The register's order is that of the store.
LEMMA RegisterTags ==
  /\ Register!NoTagValue = NoPair /\ Register!InitialTagValue = InitialPair
  /\ Register!Clients = Clients
  /\ \A t, u : /\ Register!isGreaterTag(t, u) <=> isGreaterTag(t, u)
               /\ Register!AtLeast(t, u) <=> AtLeast(t, u)
               /\ Register!LargerTag(t, u) = LargerTag(t, u)
BY DEF Register!NoTagValue, Register!LowestTag, LowestTag, Register!InitialTagValue,
   Register!InitialTag, InitialTag, NoPair, InitialPair, Register!Clients, Clients,
   Register!isGreaterTag, isGreaterTag, Register!AtLeast, AtLeast, Register!LargerTag, LargerTag

LEMMA ObjnameIs ==
  ASSUME NEW c \in Clients
  PROVE  /\ Objname[c] = IF c \in busy THEN TheObject ELSE NoObject
         /\ Objname[c] # NoObject <=> c \in busy
BY DEF Objname, TheObject, NoObject

Puts(w) == w \in busy /\ Phase[w] = PRAKIS_PUT_TAG
PutPair(w) == [Tag_var |-> TagValue_var[w].Tag_var, Value |-> <<w, Opnum[w]>>]

LEMMA ChosenIs ==
  ASSUME SInv, NEW w \in Writers
  PROVE  /\ chosen[w] = IF Puts(w) THEN PutPair(w) ELSE NoPair
         /\ chosen[w] # NoPair <=> Puts(w)
<1>1. chosen[w] = IF Puts(w) THEN PutPair(w) ELSE NoPair
  BY DEF chosen, Puts, PutPair, NoPair
<1>2. ASSUME Puts(w) PROVE PutPair(w) # NoPair
  <2>1. TagValue_var[w].Tag_var \in TagsOf(w)
    BY <1>2 DEF SInv, StoreInv, WriterInvOf, Proposed, Puts
  <2>2. LowestTag \notin TagsOf(w)
    BY DEF TagsOf, LowestTag
  <2>3. PutPair(w).Tag_var # NoPair.Tag_var
    BY <2>1, <2>2 DEF PutPair, NoPair
  <2> QED
    BY <2>3
<1> QED
  BY <1>1, <1>2

\* What the writes of object may have stored, in the register and in the store.
LEMMA RegisterWritten ==
  ASSUME SInv, NEW p
  PROVE  p \in Register!Written(TheObject) <=>
           \/ p = InitialPair
           \/ \E e \in log : e.client \in Writers /\ e.TagValue_var = p
           \/ \E w \in Writers : Puts(w) /\ PutPair(w) = p
<1>1. \A w \in Writers : Objname[w] = TheObject <=> w \in busy
  BY DEF Objname, Clients, TheObject, NoObject
<1>2. [o \in {TheObject} |-> log][TheObject] = log
  OBVIOUS
<1>3. p \in Register!Written(TheObject) <=>
        \/ p = Register!InitialTagValue
        \/ \E e \in log : e.client \in Writers /\ e.TagValue_var = p
        \/ \E w \in Writers : /\ Objname[w] = TheObject /\ chosen[w] # Register!NoTagValue
                              /\ chosen[w] = p
  BY <1>2 DEF Register!Written
<1>4. \A w \in Writers : (/\ Objname[w] = TheObject /\ chosen[w] # Register!NoTagValue
                          /\ chosen[w] = p) <=> Puts(w) /\ PutPair(w) = p
  BY <1>1, ChosenIs, RegisterTags DEF Puts
<1> QED
  BY <1>3, <1>4, RegisterTags

LEMMA WroteWritten ==
  ASSUME SInv, NEW w \in Writers, NEW o, NEW t, Wrote(w, o, t)
  PROVE  [Tag_var |-> t, Value |-> <<w, o>>] \in Register!Written(TheObject)
BY RegisterWritten DEF Wrote, Puts, PutPair

\* A writer keeps its choice as long as it puts, and has none otherwise.
LEMMA ChosenKept ==
  ASSUME NEW S, S \subseteq Writers,
         \A w \in S :
           \/ /\ w \in busy' <=> w \in busy
              /\ UNCHANGED <<Phase[w], TagValue_var[w], Opnum[w]>>
           \/ ~ Puts(w) /\ ~ Puts(w)'
  PROVE  \A w \in S : chosen'[w] = chosen[w]
<1> SUFFICES ASSUME NEW w \in S PROVE chosen'[w] = chosen[w]
  OBVIOUS
<1>1. /\ chosen[w] = IF w \in busy /\ Phase[w] = PRAKIS_PUT_TAG
                       THEN [Tag_var |-> TagValue_var[w].Tag_var, Value |-> <<w, Opnum[w]>>]
                       ELSE [Tag_var |-> LowestTag, Value |-> NoValue]
      /\ chosen'[w] = IF w \in busy' /\ Phase'[w] = PRAKIS_PUT_TAG
                       THEN [Tag_var |-> TagValue_var'[w].Tag_var, Value |-> <<w, Opnum'[w]>>]
                       ELSE [Tag_var |-> LowestTag, Value |-> NoValue]
  BY DEF chosen
<1> QED
  BY <1>1 DEF Puts

LEMMA ChosenSame ==
  ASSUME \A w \in Writers : chosen'[w] = chosen[w]
  PROVE  chosen' = chosen
BY DEF chosen

\* What the other clients have chosen.
LEMMA OthersChosen ==
  ASSUME NEW c \in Clients, \A d \in Clients : d # c => Idle(d)
  PROVE  \A w \in Writers \ {c} : chosen'[w] = chosen[w]
<1>1. \A w \in Writers \ {c} : /\ w \in busy' <=> w \in busy
                               /\ UNCHANGED <<Phase[w], TagValue_var[w], Opnum[w]>>
  BY DEF Clients, Idle, SameClient
<1> QED
  BY <1>1, ChosenKept

\* The steps the register does not see.
LEMMA Stutters ==
  ASSUME UNCHANGED <<busy, floor, completed, log>>,
         \A w \in Writers :
           \/ UNCHANGED <<Phase[w], TagValue_var[w], Opnum[w]>>
           \/ Phase[w] # PRAKIS_PUT_TAG /\ Phase'[w] # PRAKIS_PUT_TAG
  PROVE  UNCHANGED Register!vars
<1>1. chosen' = chosen
  BY ChosenKept, ChosenSame DEF Puts
<1>2. Objname' = Objname
  BY DEF Objname
<1> QED
  BY <1>1, <1>2 DEF Register!vars

LEMMA InitRefines == Init => Register!Init
<1> SUFFICES ASSUME Init PROVE Register!Init
  OBVIOUS
<1>1. /\ Objname = [c \in Clients |-> NoObject]
      /\ chosen = [w \in Writers |-> NoPair]
  BY DEF Init, Objname, chosen, NoPair
<1> QED
  BY <1>1, RegisterTags DEF Init, Register!Init, Register!InitialTag, InitialTag

LEMMA StartOperationRefines ==
  ASSUME SInv, NEW c \in Clients, NEW phase \in Phases, phase # PRAKIS_PUT_TAG,
         NEW payload \in [Servers -> TagValue], StartOperation(c, phase, payload)
  PROVE  Register!Begin(c, TheObject)
<1>1. /\ c \notin busy /\ busy' = busy \cup {c} /\ Phase'[c] = phase
      /\ UNCHANGED <<completed, log>> /\ \A d \in Clients : d # c => Idle(d)
  BY StartOperationEffect DEF SInv, TInv
<1>2. floor' = [floor EXCEPT ![c] = completed]
  BY DEF StartOperation
<1>3. \A w \in Writers : chosen'[w] = chosen[w]
  <2>1. c \in Writers => chosen'[c] = chosen[c]
    BY <1>1, ChosenKept DEF Puts
  <2> QED
    BY <1>1, <2>1, OthersChosen
<1>4. Objname[c] = NoObject /\ Objname' = [Objname EXCEPT ![c] = TheObject]
  BY <1>1 DEF Objname
<1> QED
  BY <1>1, <1>2, <1>3, <1>4, ChosenSame DEF Register!Begin

\* The tag of a write is new: another writer signs with another name, and the
\* writer's own earlier tags are below its floor.
LEMMA NewTagIsNew ==
  ASSUME SInv, NEW w \in Writers, w \in busy, ~ Puts(w), NEW t, Proposed(w, t),
         NEW y, y \in Register!Written(TheObject)
  PROVE  y.Tag_var # t
<1> SUFFICES ASSUME y.Tag_var = t PROVE FALSE
  OBVIOUS
<1>1. t \in TagsOf(w) /\ t.Client_id = NameTag[w] /\ t # InitialTag /\ isGreaterTag(t, floor[w])
  BY TagsOfType DEF Proposed
<1>2. CASE y = InitialPair
  BY <1>1, <1>2 DEF InitialPair
<1>3. ASSUME NEW e \in log, e.client \in Writers, e.TagValue_var = y
      PROVE  FALSE
  <2>1. LogOf(e)
    BY <1>3 DEF SInv, StoreInv, LogInv
  <2>2. e.client = w
    BY <1>1, <1>3, <2>1, TagsOfType, WriterNames DEF LogOf
  <2>3. AtLeast(floor[w], t)
    BY <1>3, <2>1, <2>2 DEF LogOf
  <2> QED
    BY <1>1, <2>3 DEF AtLeast
<1>4. ASSUME NEW x \in Writers, Puts(x), PutPair(x) = y
      PROVE  FALSE
  <2>1. TagValue_var[x].Tag_var \in TagsOf(x) /\ TagValue_var[x].Tag_var = t
    BY <1>4 DEF SInv, StoreInv, WriterInvOf, Proposed, Puts, PutPair
  <2>2. x = w
    BY <1>1, <2>1, TagsOfType, WriterNames
  <2> QED
    BY <1>4, <2>2
<1> QED
  BY <1>2, <1>3, <1>4, RegisterWritten

LEMMA WriterPutsTagRefines ==
  ASSUME AllServersNeeded, SInv, NEW w \in Writers, WriterPutsTag(w)
  PROVE  Register!Choose(w)
<1>1. w \in Clients /\ TypeOK /\ ChannelInv /\ WriterInvOf(w)
  BY DEF SInv, TInv, StoreInv, Clients
<1>2. PICK tv : tv = TagOnly(TagValue_var[w].Tag_var, Opnum[w])
  OBVIOUS
<1>3. /\ w \in busy /\ HasQuorum(w) /\ Phase[w] = PRAKIS_PUT_DATA
      /\ tv.Tag_var = TagValue_var[w].Tag_var
      /\ EnterPhase(w, PRAKIS_PUT_TAG, tv)
      /\ UNCHANGED <<busy, Opnum, historyVars>>
      /\ \A d \in Clients : d # w => Idle(d)
  BY <1>1, <1>2, WriterPutsTagEffect
<1>0. TypeOK /\ EnterPhase(w, PRAKIS_PUT_TAG, tv)
  BY <1>1, <1>3
<1>4. Phase'[w] = PRAKIS_PUT_TAG /\ TagValue_var'[w] = tv /\ Opnum'[w] = Opnum[w]
  <2>1. Phase'[w] = PRAKIS_PUT_TAG /\ TagValue_var'[w] = tv
    BY <1>0, <1>1, EnterPhaseOwn
  <2> QED
    BY <1>3, <2>1
<1>5. responders[w] # {}
  BY <1>1, <1>3, QuorumIsAll
<1>6. Proposed(w, tv.Tag_var)
  BY <1>1, <1>3, <1>5 DEF WriterInvOf
<1>7. ~ Puts(w) /\ chosen[w] = NoPair
  BY <1>3, ChosenIs, PhasesDiffer DEF Puts
<1>8. PICK p : p = [Tag_var |-> tv.Tag_var, Value |-> <<w, Opnum[w]>>]
  OBVIOUS
<1>9. chosen'[w] = p /\ chosen' = [chosen EXCEPT ![w] = p]
  <2>1. chosen'[w] = p
    BY <1>3, <1>4, <1>8 DEF chosen
  <2>2. \A v \in Writers \ {w} : chosen'[v] = chosen[v]
    BY <1>1, <1>3, OthersChosen
  <2> QED
    BY <2>1, <2>2 DEF chosen
<1>10. p \in [Tag_var : [Version_num : Nat \ {0}, Client_id : {NameTag[w]}], Value : Values]
  <2>1. Opnum[w] \in 1..MaxOpnum[w]
    <3>1. /\ Opnum \in [Clients -> Nat] /\ \A c \in Clients : Opnum[c] <= MaxOpnum[c]
          /\ \A c \in busy : Opnum[c] >= 1
      BY <1>1 DEF TypeOK
    <3>2. Opnum[w] \in Nat /\ MaxOpnum[w] \in Nat /\ Opnum[w] <= MaxOpnum[w] /\ Opnum[w] >= 1
      BY <1>1, <1>3, <3>1, BoundsAssumption
    <3> QED
      BY <3>2
  <2>2. <<w, Opnum[w]>> \in Values
    BY <2>1 DEF Values
  <2> QED
    BY <1>6, <1>8, <2>2 DEF Proposed, TagsOf
<1>11. \A y \in Register!Written(Objname[w]) : y.Tag_var # p.Tag_var
  <2>1. Objname[w] = TheObject /\ p.Tag_var = tv.Tag_var
    BY <1>1, <1>3, <1>8, ObjnameIs
  <2> QED
    BY <1>3, <1>6, <1>7, <2>1, NewTagIsNew
<1>12. Objname[w] # NoObject /\ Objname' = Objname
  BY <1>1, <1>3, ObjnameIs DEF Objname
<1>13. isGreaterTag(p.Tag_var, floor[w])
  BY <1>6, <1>8 DEF Proposed
<1> QED
  BY <1>3, <1>7, <1>9, <1>10, <1>11, <1>12, <1>13, RegisterTags DEF Register!Choose, historyVars

\* What a client returns is the choice of its write, or a written pair above
\* the floor of its read.
LEMMA EndRefines ==
  ASSUME SInv, NEW c \in Clients, c \in busy, NEW p,
         busy' = busy \ {c}, completed' = LargerTag(p.Tag_var, completed),
         log' = log \cup {[client |-> c, floor |-> floor[c], TagValue_var |-> p]},
         floor' = floor, \A d \in Clients : d # c => Idle(d),
         c \in Writers => Puts(c) /\ p = PutPair(c),
         c \in Readers => p \in Register!Written(TheObject) /\ AtLeast(p.Tag_var, floor[c])
  PROVE  Register!Next
<1>1. Objname[c] = TheObject /\ Objname[c] # NoObject
  BY ObjnameIs
<1>2. Objname' = [Objname EXCEPT ![c] = NoObject]
  BY DEF Objname
<1>3. Register!End(c, p)
  <2>1. [o \in {TheObject} |-> completed'] =
          [[o \in {TheObject} |-> completed] EXCEPT ![TheObject] =
             Register!LargerTag(p.Tag_var, @)]
    BY RegisterTags
  <2>2. [o \in {TheObject} |-> log'] =
          [[o \in {TheObject} |-> log] EXCEPT ![TheObject] =
             @ \cup {[client |-> c, floor |-> floor[c], TagValue_var |-> p]}]
    OBVIOUS
  <2> QED
    BY <1>1, <1>2, <2>1, <2>2 DEF Register!End
<1>4. \A w \in Writers \ {c} : chosen'[w] = chosen[w]
  BY OthersChosen
<1>5. CASE c \in Writers
  <2>1. chosen[c] = p /\ chosen[c] # NoPair
    BY <1>5, ChosenIs
  <2>2. chosen'[c] = NoPair
    BY <1>5 DEF chosen, NoPair
  <2>3. chosen' = [chosen EXCEPT ![c] = NoPair]
    BY <1>4, <2>2 DEF chosen
  <2>4. Register!EndWrite(c)
    BY <1>1, <1>3, <1>5, <2>1, <2>3, RegisterTags DEF Register!EndWrite
  <2> QED
    BY <1>5, <2>4 DEF Register!Next
<1>6. CASE c \in Readers
  <2>1. chosen' = chosen
    BY <1>4, <1>6, ClientsAssumption, ChosenSame
  <2>2. Register!EndRead(c)
    BY <1>1, <1>3, <1>6, <2>1, RegisterTags DEF Register!EndRead
  <2> QED
    BY <1>6, <2>2 DEF Register!Next
<1> QED
  BY <1>5, <1>6 DEF Clients

LEMMA WriterPhases ==
  ASSUME ChannelInv, NEW w \in Clients, w \in busy,
         Phase[w] \in {PRAKIS_PUT_DATA, PRAKIS_PUT_TAG}
  PROVE  w \in Writers /\ w \notin Readers
<1>1. Phase[w] \in PhasesOf(w)
  BY DEF ChannelInv, ChannelInvOf, InOrder
<1> QED
  BY <1>1, PhasesDiffer, ClientsAssumption DEF PhasesOf, Clients

LEMMA PutTagCompletesRefines ==
  ASSUME SInv, NEW w \in Clients, PutTagCompletes(w)
  PROVE  Register!Next
<1>1. TypeOK /\ ChannelInv
  BY DEF SInv, TInv
<1>2. PICK p : p = [Tag_var |-> TagValue_var[w].Tag_var, Value |-> <<w, Opnum[w]>>]
  OBVIOUS
<1>3. /\ w \in busy /\ Phase[w] = PRAKIS_PUT_TAG /\ p.Tag_var = TagValue_var[w].Tag_var
      /\ busy' = busy \ {w} /\ completed' = LargerTag(p.Tag_var, completed)
      /\ log' = log \cup {[client |-> w, floor |-> floor[w], TagValue_var |-> p]}
      /\ floor' = floor /\ \A d \in Clients : d # w => Idle(d)
  BY <1>1, <1>2, PutTagCompletesEffect
<1>4. w \notin Readers /\ w \in Writers
  BY <1>1, <1>3, WriterPhases
<1>5. Puts(w) /\ p = PutPair(w)
  BY <1>2, <1>3 DEF Puts, PutPair
<1> QED
  BY <1>3, <1>4, <1>5, EndRefines

\* K elements of one tag, above the initial one, decode to the value of its write.
LEMMA DecodedWritten ==
  ASSUME SInv, NEW t, t # InitialTag, NEW rx, Cardinality(rx) = K,
         \A e \in rx : e.Tag_var = t /\ \E q \in Servers : Held(q, e)
  PROVE  [Tag_var |-> t, Value |-> Decoded(rx)] \in Register!Written(TheObject)
<1>1. TypeOK /\ StoreInv
  BY DEF SInv, TInv
<1>2. PICK e \in rx : e = CHOOSE x \in rx : TRUE
  <2>1. Cardinality(Servers) \in Nat
    BY ServersAssumption, FS_CardinalityType
  <2>2. K >= 1
    BY <2>1, KAssumption
  <2>3. rx # {}
    BY <2>2, FS_EmptySet
  <2> QED
    BY <2>3
<1>3. ASSUME NEW f \in rx
      PROVE  \E v \in Writers : f.Value = <<v, f.Opnum>> /\ Wrote(v, f.Opnum, t)
  <2>1. f # TagOnly(InitialTag, 0)
    BY DataTypes DEF TagOnly
  <2> QED
    BY <2>1 DEF Held, ElementOf, OwnElement
<1>4. PICK w \in Writers : e.Value = <<w, e.Opnum>> /\ Wrote(w, e.Opnum, t)
  BY <1>3
<1>5. ASSUME NEW f \in rx PROVE f.Value = e.Value
  <2>1. PICK v \in Writers : f.Value = <<v, f.Opnum>> /\ Wrote(v, f.Opnum, t)
    BY <1>3
  <2>2. v = w /\ f.Opnum = e.Opnum
    BY <1>1, <1>4, <2>1, OneWrite
  <2> QED
    BY <1>4, <2>1, <2>2
<1>6. e.Value \in Values
  <2>1. PICK o : o = e.Opnum
    OBVIOUS
  <2>2. o \in 1..Opnum[w] /\ w \in Clients
    BY <1>1, <1>4, <2>1, WroteFacts, WriterNames
  <2>3. Opnum[w] \in Nat /\ MaxOpnum[w] \in Nat /\ Opnum[w] <= MaxOpnum[w]
    BY <1>1, <2>2, BoundsAssumption DEF TypeOK
  <2>4. o \in 1..MaxOpnum[w]
    BY <2>2, <2>3
  <2> QED
    BY <1>4, <2>1, <2>4 DEF Values
<1>7. Decoded(rx) = e.Value
  BY <1>2, <1>5, <1>6 DEF Decoded
<1> QED
  BY <1>4, <1>7, WroteWritten

\* What a read may return is above the initial tag.
LEMMA AboveFloorAbove ==
  ASSUME WInv, NEW r \in Readers, r \in busy, NEW t \in AnyTag, AtLeast(t, floor[r])
  PROVE  t # InitialTag
<1>1. /\ floor[r] \in AnyTag /\ InitialTag \in AnyTag /\ isGreaterTag(floor[r], InitialTag)
  BY TagTypes, DataTypes DEF WInv, SInv, TInv, FloorsAbove, Clients
<1>2. isGreaterTag(t, InitialTag)
  BY <1>1, TagTransitive
<1> QED
  BY <1>1, <1>2, TagTotal

\* A read of one phase decodes the elements of all servers, all of one tag.
LEMMA ReadInOnePhaseRefines ==
  ASSUME AllServersNeeded, WInv, NEW r \in Clients, ReadInOnePhase(r)
  PROVE  Register!Next \/ UNCHANGED Register!vars
<1>1. TypeOK /\ ChannelInv /\ StoreInv /\ SInv
  BY DEF WInv, SInv, TInv
<1>2. /\ r \in busy /\ HasQuorum(r) /\ Phase[r] = PRAKIS_GET_TAG_DATA
      /\ \A d \in Clients : d # r => Idle(d)
  BY <1>1, ReadInOnePhaseEffect
<1>3. r \in Readers /\ r \notin Writers /\ ReaderInvOf(r)
  BY <1>1, <1>2, ReaderPhases DEF StoreInv
<1>4. PICK t : t = TagValue_var[r].Tag_var
  OBVIOUS
<1>5. t \in AnyTag /\ AtLeast(t, floor[r]) /\ t # InitialTag
  <2>1. responders[r] # {}
    BY <1>1, <1>2, QuorumIsAll
  <2>2. t \in AnyTag /\ AtLeast(t, floor[r])
    BY <1>1, <1>2, <1>3, <1>4, <2>1, TagTypes DEF ReaderInvOf, Asked
  <2> QED
    BY <1>2, <1>3, <2>2, AboveFloorAbove
<1>6. \A e \in rx_state[r] : e.Tag_var = t /\ \E q \in Servers : Held(q, e)
  BY <1>2, <1>3, <1>4 DEF ReaderInvOf
<1>7. CASE Cardinality(rx_state[r]) = K
  <2>1. PICK p : p = [Tag_var |-> t, Value |-> Decoded(rx_state[r])]
    OBVIOUS
  <2>2. /\ busy' = busy \ {r} /\ completed' = LargerTag(p.Tag_var, completed)
        /\ log' = log \cup {[client |-> r, floor |-> floor[r], TagValue_var |-> p]}
        /\ floor' = floor
    BY <1>1, <1>4, <1>7, <2>1, ReadInOnePhaseEffect
  <2>3. p \in Register!Written(TheObject) /\ AtLeast(p.Tag_var, floor[r])
    BY <1>1, <1>5, <1>6, <1>7, <2>1, DecodedWritten
  <2> QED
    BY <1>1, <1>2, <1>3, <2>2, <2>3, EndRefines
<1>8. CASE Cardinality(rx_state[r]) # K
  <2>1. UNCHANGED <<busy, phaseVars, historyVars, Opnum>>
    BY <1>8 DEF ReadInOnePhase
  <2> QED
    BY <2>1, Stutters DEF phaseVars, historyVars
<1> QED
  BY <1>7, <1>8

\* A reader that waits for relays decodes K elements of a tag it asked for or a
\* later one.
LEMMA CollectRelayRefines ==
  ASSUME WInv, NEW r \in Clients, NEW s \in Servers, CollectRelay(r, s)
  PROVE  Register!Next \/ UNCHANGED Register!vars
<1>1. TypeOK /\ ChannelInv /\ StoreInv /\ SInv /\ TagInvOf(r)
  BY DEF WInv, SInv, TInv, TagInv
<1>2. PICK tv \in TagValue : tv = Head(replies[r][s]).TagValue_var
  BY <1>1, CollectRelayEffect
<1>3. /\ r \in busy /\ Phase[r] = PRAKIS_RELAY_DATA /\ replies[r][s] # <<>>
      /\ UNCHANGED <<server_state_variables, Opnum, incarnation>>
      /\ \A d \in Clients : d # r => Idle(d)
  BY <1>1, CollectRelayEffect
<1>4. PICK rx : rx = AddElement(rx_state[r], tv)
  OBVIOUS
<1>5. PICK p : p = [Tag_var |-> tv.Tag_var, Value |-> Decoded(ElementsOf(rx, tv.Tag_var))]
  OBVIOUS
<1>6. \/ /\ Cardinality(ElementsOf(rx, tv.Tag_var)) = K
         /\ busy' = busy \ {r}
         /\ completed' = LargerTag(p.Tag_var, completed)
         /\ log' = log \cup {[client |-> r, floor |-> floor[r], TagValue_var |-> p]}
         /\ floor' = floor
      \/ UNCHANGED <<busy, phaseVars, historyVars>>
      \/ KeepsRelay(r, s)
  BY <1>1, <1>2, <1>4, <1>5, CollectRelayEffect
<1>7. r \in Readers /\ r \notin Writers /\ ReaderInvOf(r)
  BY <1>1, <1>3, ReaderPhases DEF StoreInv
<1>8. Head(replies[r][s]) \in Messages(replies[r][s])
  BY <1>1, <1>3, ReceiveType
<1>9. Held(s, tv) /\ tv.Tag_var \in AnyTag
  BY <1>2, <1>3, <1>7, <1>8, DataTypes DEF ReaderInvOf
<1>10. AtLeast(tv.Tag_var, floor[r]) /\ tv.Tag_var # InitialTag
  <2>1. AtLeast(tv.Tag_var, TagValue_var[r].Tag_var)
    BY <1>1, <1>2, <1>3, <1>8 DEF TagInvOf, HasTagAskedFor, IsWaiting
  <2>2. AtLeast(TagValue_var[r].Tag_var, floor[r])
    BY <1>3, <1>7 DEF ReaderInvOf, Asked
  <2>3. AtLeast(tv.Tag_var, floor[r])
    BY <1>1, <1>9, <2>1, <2>2, TagTypes, TagTransitive
  <2> QED
    BY <1>3, <1>7, <1>9, <2>3, AboveFloorAbove
<1>11. ASSUME NEW e \in ElementsOf(rx, tv.Tag_var)
       PROVE  e.Tag_var = tv.Tag_var /\ \E q \in Servers : Held(q, e)
  <2>1. e.Tag_var = tv.Tag_var /\ (e \in rx_state[r] \/ e = tv)
    BY <1>4 DEF ElementsOf, AddElement
  <2> QED
    BY <1>3, <1>7, <1>9, <2>1 DEF ReaderInvOf
<1>12. CASE /\ Cardinality(ElementsOf(rx, tv.Tag_var)) = K
            /\ busy' = busy \ {r}
            /\ completed' = LargerTag(p.Tag_var, completed)
            /\ log' = log \cup {[client |-> r, floor |-> floor[r], TagValue_var |-> p]}
            /\ floor' = floor
  <2>1. p \in Register!Written(TheObject)
    BY <1>1, <1>5, <1>10, <1>11, <1>12, DecodedWritten
  <2>2. AtLeast(p.Tag_var, floor[r])
    BY <1>5, <1>10
  <2> QED
    BY <1>1, <1>3, <1>7, <1>12, <2>1, <2>2, EndRefines
<1>13. CASE UNCHANGED <<busy, phaseVars, historyVars>>
  BY <1>3, <1>13, Stutters DEF phaseVars, historyVars
<1>14. CASE KeepsRelay(r, s)
  BY <1>3, <1>14, Stutters DEF KeepsRelay, historyVars
<1> QED
  BY <1>6, <1>12, <1>13, <1>14

LEMMA ClientStepRefines ==
  ASSUME AllServersNeeded, WInv, NEW c \in Clients, ClientStep(c)
  PROVE  Register!Next \/ UNCHANGED Register!vars
<1>1. TypeOK /\ ChannelInv /\ SInv
  BY DEF WInv, SInv, TInv
<1>2. CASE StartRead(c) \/ StartWrite(c)
  <2>1. Register!Begin(c, TheObject)
    <3>1. PICK phase \in Phases, payload \in [Servers -> TagValue] :
            phase # PRAKIS_PUT_TAG /\ StartOperation(c, phase, payload)
      BY <1>1, <1>2, StartType, PhasesDiffer, DataTypes
    <3> QED
      BY <1>1, <3>1, StartOperationRefines
  <2> QED
    BY <2>1, RegisterTags DEF Register!Next
<1>3. ASSUME NEW s \in Servers, CollectReply(c, s) PROVE UNCHANGED Register!vars
  <2>1. /\ UNCHANGED <<busy, Phase, Opnum, historyVars>>
        /\ Phase[c] # PRAKIS_PUT_TAG \/ UNCHANGED TagValue_var
        /\ \A d \in Clients : d # c => Idle(d)
    BY <1>1, <1>3, CollectReplyEffect
  <2>2. \A w \in Writers : \/ UNCHANGED <<Phase[w], TagValue_var[w], Opnum[w]>>
                           \/ Phase[w] # PRAKIS_PUT_TAG /\ Phase'[w] # PRAKIS_PUT_TAG
    BY <2>1 DEF Clients, Idle, SameClient
  <2> QED
    BY <2>1, <2>2, Stutters DEF historyVars
<1>4. ASSUME NEW s \in Servers, CollectRelay(c, s)
      PROVE  Register!Next \/ UNCHANGED Register!vars
  BY <1>4, CollectRelayRefines
<1>5. CASE WriterPutsTag(c)
  <2>1. c \in Writers
    BY <1>1, <1>5, WriterPhases DEF WriterPutsTag, HasQuorum
  <2>2. Register!Choose(c)
    BY <1>1, <1>5, <2>1, WriterPutsTagRefines
  <2> QED
    BY <2>1, <2>2 DEF Register!Next
<1>6. CASE PutTagCompletes(c)
  BY <1>1, <1>6, PutTagCompletesRefines
<1>7. CASE ReaderAsksForRelays(c)
  <2>1. /\ UNCHANGED <<busy, Opnum, historyVars>> /\ c \notin Writers
        /\ \A d \in Clients : d # c => Idle(d)
    BY <1>1, <1>7, ReaderAsksForRelaysEffect, ReaderPhases
  <2>2. \A w \in Writers : UNCHANGED <<Phase[w], TagValue_var[w], Opnum[w]>>
    BY <2>1 DEF Clients, Idle, SameClient
  <2> QED
    BY <2>1, <2>2, Stutters DEF historyVars
<1>8. CASE ReadInOnePhase(c)
  BY <1>8, ReadInOnePhaseRefines
<1>9. CASE emulateNewClient(c)
  <2>1. UNCHANGED <<busy, Opnum, phaseVars, historyVars>>
    BY <1>9 DEF emulateNewClient
  <2> QED
    BY <2>1, Stutters DEF phaseVars, historyVars
<1> QED
  BY <1>2, <1>3, <1>4, <1>5, <1>6, <1>7, <1>8, <1>9 DEF ClientStep

LEMMA StepRefines ==
  ASSUME AllServersNeeded, WInv, [Next]_vars
  PROVE  [Register!Next]_(Register!vars)
<1>1. ASSUME UNCHANGED <<busy, Opnum, phaseVars, historyVars>> PROVE UNCHANGED Register!vars
  BY <1>1, Stutters DEF phaseVars, historyVars
<1>2. ASSUME NEW s \in Servers, NEW c \in Clients, NEW i \in Incarnations,
             ServerStep(s, c, i)
      PROVE  UNCHANGED Register!vars
  BY <1>1, <1>2 DEF ServerStep
<1>3. ASSUME NEW s \in Servers, KillServer(s) PROVE UNCHANGED Register!vars
  BY <1>1, <1>3 DEF KillServer
<1>4. ASSUME AllDone \/ UNCHANGED vars PROVE UNCHANGED Register!vars
  BY <1>1, <1>4 DEF AllDone, vars
<1> QED
  BY <1>2, <1>3, <1>4, ClientStepRefines DEF Next

\* When an element of each server is needed and reads begin after a write has
\* ended, PRAKIS implements the tagged register that ABD and SODAW implement,
\* although readers commit what they were relayed: what a read returns was written,
\* above everything that had ended (list_based_algos.go 29-300).
THEOREM Refinement ==
  ASSUME AllServersNeeded, Prewritten
  PROVE  Spec => ImplementsRegister
<1>1. Init => Register!Init
  BY InitRefines
<1>2. WInv /\ [Next]_vars => [Register!Next]_(Register!vars)
  BY StepRefines
<1> QED
  BY <1>1, <1>2, WAlways, PTL DEF Spec, ImplementsRegister, Register!Spec
==============================================================================
